--------------------------- MODULE ConversationPort ---------------------------
(***************************************************************************)
(* What the agent may expect of a conversation store: the ConversationStore *)
(* port (server/agent/ports.py) with the meaning that the operators of     *)
(* Conversation give it, for several sessions. A session that is unknown   *)
(* looks empty.                                                            *)
(***************************************************************************)
EXTENDS Conversation

CONSTANT Sessions

VARIABLES
    conversations,   \* the messages and active skills of each session
    overtaken        \* sessions that changed since somebody listed their messages

\* A skill is active exactly when one message injects it.
Bookkept(store) ==
    \A k \in Skills :
        Cardinality({i \in DOMAIN store.messages : Injects(store.messages[i], k)})
            = IF k \in store.skills THEN 1 ELSE 0

PortInit == \A s \in Sessions : Bookkept(conversations[s])

-----------------------------------------------------------------------------
Becomes(s, store) == conversations' = [conversations EXCEPT ![s] = store]

Written(s) == ToSet(conversations'[s].messages)

AddTo(s) == \E m \in Written(s) : /\ ~IsInjection(m)
                                  /\ Becomes(s, AddMessage(conversations[s], m))

\* A compaction: other messages, the same skills, each still injected once.
ReplaceIn(s) ==
    LET store == ReplaceMessages(conversations[s], conversations'[s].messages)
    IN  Bookkept(store) /\ Becomes(s, store)

\* A compaction of messages that are out of date: each skill is still injected once.
OverwriteIn(s) ==
    /\ s \in overtaken
    /\ Bookkept(conversations'[s]) /\ Becomes(s, conversations'[s])

InjectInto(s) == \E k \in Skills : \E m \in Written(s) :
                /\ Injects(m, k)
                /\ Becomes(s, InjectSkill(conversations[s], k, m))

RemoveFrom(s) == \E k \in Skills : Becomes(s, RemoveSessionSkill(conversations[s], k))

\* The session is deleted.
Forget(s) == Becomes(s, EmptyStore)

PortNext ==
    \E s \in Sessions :
        /\ conversations'[s] # conversations[s]
        /\ \/ AddTo(s) \/ ReplaceIn(s) \/ OverwriteIn(s)
           \/ InjectInto(s) \/ RemoveFrom(s) \/ Forget(s)

PortSpec == PortInit /\ [][PortNext]_conversations
=============================================================================
