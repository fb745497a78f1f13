------------------------------ MODULE RunSlot ------------------------------
(***************************************************************************)
(* What RunCoordinator promises to the rest of the server: every session   *)
(* (a workspace and a session id) has one slot, a request that finds it    *)
(* free takes it, and a request that gave it back never gets it again.     *)
(* ChatRuns implements this specification.                                 *)
(***************************************************************************)
CONSTANTS Requests,   \* the POST /api/chat calls of a behaviour
          Sessions,   \* the (workspace, session) pairs they name
          SessionOf,  \* the session each request names
          NoRun       \* the slot is free

VARIABLES holder,     \* the request that holds each session's slot
          served      \* the requests that have been given a slot

slotVars == <<holder, served>>

SlotInit == /\ holder = [s \in Sessions |-> NoRun]
            /\ served = {}

Acquire(r) == /\ r \notin served
              /\ holder[SessionOf[r]] = NoRun
              /\ holder' = [holder EXCEPT ![SessionOf[r]] = r]
              /\ served' = served \cup {r}

Release(r) == /\ holder[SessionOf[r]] = r
              /\ holder' = [holder EXCEPT ![SessionOf[r]] = NoRun]
              /\ UNCHANGED served

SlotNext == \E r \in Requests : Acquire(r) \/ Release(r)

SlotSpec == SlotInit /\ [][SlotNext]_slotVars
=============================================================================
