---------------------------- MODULE MCChatRuns ----------------------------
(* Instances of ChatRuns: who names which session, and with which id. *)
EXTENDS ChatRuns

CONSTANTS r1, r2, s1

\* Two requests of one session.
Rivals == [r \in Requests |-> s1]

\* The server makes a fresh uuid for a request that names none.
FreshIds == [r \in Requests |-> r]

YieldCancels == {"pulling", "gotEvent", "gotDone", "snapshot", "sending",
                 "errorSent", "stateSent", "doneSent"}
AllCancels == YieldCancels \cup {"ready", "closing"}
=============================================================================
