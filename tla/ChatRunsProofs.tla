--------------------------- MODULE ChatRunsProofs ---------------------------
(***************************************************************************)
(* Theorems about ChatRuns for any number of requests, sessions and abort  *)
(* calls, any assignment of request ids (unique or not) and any            *)
(* cancellation points: the fairness of the event loop is not used.        *)
(***************************************************************************)
EXTENDS ChatRuns, TLAPS

\* The variables of ChatRuns keep their types in every behaviour.
THEOREM ChatRunsTyped == Spec => []TypeOK
<1> USE ChatRunsAssumption
<1>1. Init => TypeOK
  BY DEF Init, TypeOK, Stages, AgentStates, Reasons, Events, UnsentCall
<1>2. TypeOK /\ [Next]_vars => TypeOK'
  <2> SUFFICES ASSUME TypeOK, [Next]_vars PROVE TypeOK'
    OBVIOUS
  <2> USE DEF TypeOK, Goto, Stages
  <2>1. ASSUME NEW r \in Requests, Handler(r) PROVE TypeOK'
    <3>1. CASE RejectUnknownSkill(r)
      BY <3>1 DEF RejectUnknownSkill
    <3>2. CASE RejectBusy(r)
      BY <3>2 DEF RejectBusy
    <3>3. CASE Start(r)
      BY <3>3 DEF Start
    <3>4. CASE CreateRuntime(r)
      BY <3>4 DEF CreateRuntime
    <3>5. CASE CreateFails(r)
      BY <3>5 DEF CreateFails
    <3>6. CASE BindAbortHandler(r)
      <4>1. bound' \subseteq Requests
        BY <3>6 DEF BindAbortHandler, OwnEntry
      <4>2. QED
        BY <3>6, <4>1 DEF BindAbortHandler
    <3>7. QED
      BY <2>1, <3>1, <3>2, <3>3, <3>4, <3>5, <3>6 DEF Handler
  <2>2. ASSUME NEW r \in Requests, Stream(r) PROVE TypeOK'
    <3> USE DEF Events, Reasons, AgentStates, Send, AgentAbort
    <3>1. CASE EnterStream(r)
      BY <3>1 DEF EnterStream
    <3>2. CASE Resume(r)
      BY <3>2 DEF Resume
    <3>3. CASE LeaveDisconnected(r)
      BY <3>3 DEF LeaveDisconnected
    <3>4. CASE LeaveAborted(r)
      BY <3>4 DEF LeaveAborted
    <3>5. CASE Forward(r)
      BY <3>5 DEF Forward
    <3>6. CASE TakeDone(r)
      BY <3>6 DEF TakeDone
    <3>7. CASE SendState(r)
      BY <3>7 DEF SendState
    <3>8. CASE SendDone(r)
      BY <3>8 DEF SendDone
    <3>9. CASE EndStream(r)
      BY <3>9 DEF EndStream
    <3>10. CASE Finalise(r)
      BY <3>10 DEF Finalise
    <3>11. CASE CloseRuntime(r)
      BY <3>11 DEF CloseRuntime
    <3>12. CASE Finish(r)
      BY <3>12 DEF Finish
    <3>13. QED
      BY <2>2, <3>1, <3>2, <3>3, <3>4, <3>5, <3>6, <3>7, <3>8, <3>9, <3>10,
         <3>11, <3>12 DEF Stream
  <2>3. ASSUME NEW r \in Requests, Agent(r) PROVE TypeOK'
    <3> USE DEF Events, Reasons, AgentStates, Send
    <3>1. CASE AgentYields(r)
      BY <3>1 DEF AgentYields
    <3>2. CASE AgentStops(r)
      BY <3>2 DEF AgentStops
    <3>3. CASE AgentRaises(r)
      BY <3>3 DEF AgentRaises
    <3>4. QED
      BY <2>3, <3>1, <3>2, <3>3 DEF Agent
  <2>4. ASSUME NEW r \in Requests, Framework(r) PROVE TypeOK'
    <3>1. CASE Disconnect(r)
      BY <3>1 DEF Disconnect
    <3>2. CASE CancelInGenerator(r)
      <4>1. agent' \in [Requests -> AgentStates]
        BY <3>2 DEF CancelInGenerator, AgentAbort, AgentStates
      <4>2. QED
        BY <3>2, <4>1 DEF CancelInGenerator
    <3>3. CASE CancelAtYield(r)
      BY <3>3 DEF CancelAtYield
    <3>4. CASE CancelOutside(r)
      BY <3>4 DEF CancelOutside
    <3>5. QED
      BY <2>4, <3>1, <3>2, <3>3, <3>4 DEF Framework
  <2>5. ASSUME NEW a \in AbortCalls, Abort(a) PROVE TypeOK'
    <3> USE DEF UnsentCall, SentCalls
    <3>1. CASE ClientAborts(a)
      <4>1. PICK r \in Requests, named \in NameChoices :
               call' = [call EXCEPT ![a] = [step |-> "sent", target |-> r,
                                            named |-> named, hit |-> NoRun]]
        BY <3>1 DEF ClientAborts
      <4>2. [step |-> "sent", target |-> r, named |-> named, hit |-> NoRun] \in SentCalls
        OBVIOUS
      <4>3. call' \in [AbortCalls -> {UnsentCall} \cup SentCalls]
        BY <4>1, <4>2
      <4>4. QED
        BY <3>1, <4>3 DEF ClientAborts
    <3>2. CASE MarkAbort(a)
      <4> DEFINE run == active[SessionOf[call[a].target]]
      <4>1. call[a] \in SentCalls
        BY <3>2 DEF MarkAbort
      <4>2. run \in Requests \cup {NoRun}
        BY <4>1
      <4>3. \/ /\ call' = [call EXCEPT ![a].step = "answered"]
               /\ abortEvent' = abortEvent
            \/ /\ run # NoRun
               /\ abortEvent' = abortEvent \cup {run}
               /\ call' = [call EXCEPT ![a].hit = run,
                     ![a].step = IF run \in bound THEN "signalling" ELSE "answered"]
        BY <3>2, Zenon DEF MarkAbort
      <4>4. abortEvent' \subseteq Requests
        BY <4>2, <4>3
      <4> DEFINE unmoved == [call[a] EXCEPT !.step = "answered"]
                 moved == [call[a] EXCEPT !.hit = run,
                     !.step = IF run \in bound THEN "signalling" ELSE "answered"]
      <4>5. unmoved \in SentCalls
        BY <4>1
      <4>6. run # NoRun => moved \in SentCalls
        BY <4>1, <4>2
      <4>7. \/ call' = [call EXCEPT ![a] = unmoved]
            \/ run # NoRun /\ call' = [call EXCEPT ![a] = moved]
        BY <4>3
      <4>8. call' \in [AbortCalls -> {UnsentCall} \cup SentCalls]
        <5> HIDE DEF unmoved, moved, SentCalls, UnsentCall
        <5> QED BY <4>5, <4>6, <4>7
      <4>9. QED
        BY <3>2, <4>4, <4>8 DEF MarkAbort
    <3>3. CASE SignalAgent(a)
      <4>1. agent' \in [Requests -> AgentStates]
        BY <3>3 DEF SignalAgent, AgentAbort, AgentStates
      <4>2. call[a] \in SentCalls
        BY <3>3 DEF SignalAgent
      <4>3. [call[a] EXCEPT !.step = "answered"] \in SentCalls
        BY <4>2
      <4>4. call' \in [AbortCalls -> {UnsentCall} \cup SentCalls]
        BY <3>3, <4>3 DEF SignalAgent
      <4>5. QED
        BY <3>3, <4>1, <4>4 DEF SignalAgent
    <3>4. QED
      BY <2>5, <3>1, <3>2, <3>3 DEF Abort
  <2>6. CASE UNCHANGED vars
    BY <2>6 DEF vars
  <2>7. QED
    BY <2>1, <2>2, <2>3, <2>4, <2>5, <2>6 DEF Next
<1>3. QED
  BY <1>1, <1>2, PTL DEF Spec

-----------------------------------------------------------------------------
(* The table of active runs *)

\* The steps that leave the table and the membership of Holding alone.
OtherSteps(r) ==
    \/ RejectUnknownSkill(r) \/ RejectBusy(r) \/ CreateRuntime(r)
    \/ CreateFails(r) \/ BindAbortHandler(r)
    \/ EnterStream(r) \/ Resume(r) \/ LeaveDisconnected(r) \/ LeaveAborted(r)
    \/ Forward(r) \/ TakeDone(r) \/ SendState(r) \/ SendDone(r) \/ EndStream(r)
    \/ Finalise(r) \/ CloseRuntime(r) \/ Agent(r) \/ Framework(r)

\* Whatever a request does besides starting and finishing, it keeps the table,
\* and its stage stays among those that hold an entry or among those that do not.
LEMMA OtherStepsKeepEntries ==
    ASSUME TypeOK, NEW r \in Requests, OtherSteps(r)
    PROVE  /\ active' = active
           /\ \E next \in Stages :
                /\ stage' = [stage EXCEPT ![r] = next]
                /\ next \in Holding <=> stage[r] \in Holding
                /\ next \in {"new", "rejected"} <=> stage[r] \in {"new", "rejected"}
<1> USE DEF TypeOK, Stages, Holding, Goto
<1>1. CASE RejectUnknownSkill(r) \/ RejectBusy(r)
  BY <1>1 DEF RejectUnknownSkill, RejectBusy
<1>2. CASE CreateRuntime(r) \/ CreateFails(r) \/ BindAbortHandler(r)
  BY <1>2 DEF CreateRuntime, CreateFails, BindAbortHandler
<1>3. CASE EnterStream(r) \/ Resume(r) \/ LeaveDisconnected(r) \/ LeaveAborted(r)
  BY <1>3 DEF EnterStream, Resume, LeaveDisconnected, LeaveAborted
<1>4. CASE Forward(r) \/ TakeDone(r) \/ SendState(r) \/ SendDone(r)
  BY <1>4 DEF Forward, TakeDone, SendState, SendDone
<1>5. CASE EndStream(r) \/ Finalise(r) \/ CloseRuntime(r)
  BY <1>5 DEF EndStream, Finalise, CloseRuntime
<1>6. CASE Agent(r)
  BY <1>6 DEF Agent, AgentYields, AgentStops, AgentRaises
<1>7. CASE Framework(r)
  <2>1. CASE Disconnect(r)
    BY <2>1 DEF Disconnect, Executing
  <2>2. CASE CancelInGenerator(r) \/ CancelAtYield(r) \/ CancelOutside(r)
    BY <2>2 DEF CancelInGenerator, CancelAtYield, CancelOutside
  <2>3. QED
    BY <1>7, <2>1, <2>2 DEF Framework
<1>8. QED
  BY <1>1, <1>2, <1>3, <1>4, <1>5, <1>6, <1>7 DEF OtherSteps

\* Every step starts a run, finishes one, or leaves the table alone.
LEMMA StepKinds ==
    ASSUME [Next]_vars
    PROVE  \/ \E r \in Requests : Start(r) \/ Finish(r) \/ OtherSteps(r)
           \/ active' = active /\ stage' = stage
<1>1. CASE \E r \in Requests : Handler(r) \/ Stream(r) \/ Agent(r) \/ Framework(r)
  BY <1>1 DEF Handler, Stream, OtherSteps
<1>2. CASE \E a \in AbortCalls : Abort(a)
  BY <1>2 DEF Abort, ClientAborts, MarkAbort, SignalAgent
<1>3. CASE UNCHANGED vars
  BY <1>3 DEF vars
<1>4. QED
  BY <1>1, <1>2, <1>3 DEF Next

\* The entry of the table is the request's own exactly while it holds the slot:
\* no start overwrites an entry and no finish removes another request's entry.
THEOREM EntriesAreOwn == Spec => []EntryIsOwn
<1> USE ChatRunsAssumption
<1>1. Init => EntryIsOwn
  BY DEF Init, EntryIsOwn, Holding
<1>2. TypeOK /\ EntryIsOwn /\ [Next]_vars => EntryIsOwn'
  <2> SUFFICES ASSUME TypeOK, EntryIsOwn, [Next]_vars PROVE EntryIsOwn'
    OBVIOUS
  <2>1. ASSUME NEW r \in Requests, Start(r) PROVE EntryIsOwn'
    BY <2>1 DEF TypeOK, EntryIsOwn, Start, Goto, Holding, Stages
  <2>2. ASSUME NEW r \in Requests, Finish(r) PROVE EntryIsOwn'
    <3>1. active[SessionOf[r]] = r
      BY <2>2 DEF Finish, EntryIsOwn, Holding, Stages
    <3>2. active' = [active EXCEPT ![SessionOf[r]] = NoRun]
      BY <2>2, <3>1 DEF Finish, OwnEntry
    <3>3. stage' = [stage EXCEPT ![r] = "ended"]
      BY <2>2 DEF Finish, Goto
    <3>4. QED
      BY <3>1, <3>2, <3>3 DEF TypeOK, EntryIsOwn, Holding
  <2>3. ASSUME NEW r \in Requests, OtherSteps(r) PROVE EntryIsOwn'
    BY <2>3, OtherStepsKeepEntries DEF TypeOK, EntryIsOwn
  <2>4. CASE active' = active /\ stage' = stage
    BY <2>4 DEF EntryIsOwn
  <2>5. QED
    BY <2>1, <2>2, <2>3, <2>4, StepKinds
<1>3. QED
  BY <1>1, <1>2, ChatRunsTyped, PTL DEF Spec

\* RunCoordinator excludes concurrent execution of one session: two executing
\* requests of a session would both own its single entry.
THEOREM OneRunAtATime == Spec => []OneRunPerSession
<1>1. EntryIsOwn => OneRunPerSession
  BY DEF EntryIsOwn, OneRunPerSession, Executing
<1>2. QED
  BY <1>1, EntriesAreOwn, PTL

\* ChatRuns implements RunSlot: start is the only acquisition, finish the only
\* release, and a request that released its slot does not get it back.
THEOREM RunsImplementSlot == Spec => ImplementsSlot
<1> USE ChatRunsAssumption
<1> DEFINE servedNow == {r \in Requests : stage[r] \notin {"new", "rejected"}}
<1>1. Init => Slot!SlotInit
  BY DEF Init, Slot!SlotInit
<1>2. TypeOK /\ EntryIsOwn /\ [Next]_vars => [Slot!SlotNext]_(Slot!slotVars)
  <2> SUFFICES ASSUME TypeOK, EntryIsOwn, [Next]_vars
               PROVE  Slot!SlotNext \/ (active' = active /\ servedNow' = servedNow)
    BY DEF Slot!slotVars
  <2>1. ASSUME NEW r \in Requests, Start(r) PROVE Slot!Acquire(r)
    BY <2>1 DEF Start, Goto, TypeOK, Slot!Acquire
  <2>2. ASSUME NEW r \in Requests, Finish(r) PROVE Slot!Release(r)
    <3>1. active[SessionOf[r]] = r
      BY <2>2 DEF Finish, EntryIsOwn, Holding, Stages
    <3>2. active' = [active EXCEPT ![SessionOf[r]] = NoRun]
      BY <2>2, <3>1 DEF Finish, OwnEntry
    <3>3. servedNow' = servedNow
      BY <2>2 DEF Finish, Goto, TypeOK
    <3>4. QED
      BY <3>1, <3>2, <3>3 DEF Slot!Release
  <2>3. ASSUME NEW r \in Requests, OtherSteps(r)
        PROVE  active' = active /\ servedNow' = servedNow
    BY <2>3, OtherStepsKeepEntries DEF TypeOK
  <2>4. QED
    BY <2>1, <2>2, <2>3, StepKinds DEF Slot!SlotNext
<1>3. QED
  BY <1>1, <1>2, ChatRunsTyped, EntriesAreOwn, PTL
     DEF Spec, ImplementsSlot, Slot!SlotSpec

-----------------------------------------------------------------------------
(* Aborts *)

\* An abort call that is about to signal an agent marked that agent's run first.
SignalsMarked ==
    \A a \in AbortCalls : call[a].step = "signalling" => call[a].hit \in abortEvent

CancelInv == CancelledWasAborted /\ SignalsMarked

\* An agent's cancel flag is set only for a run whose abort_event is set, although
\* the handler is called after the lock is released.
THEOREM OnlyAbortedCancelled == Spec => []CancelledWasAborted
<1> USE ChatRunsAssumption DEF CancelInv, CancelledWasAborted, SignalsMarked
<1>1. Init => CancelInv
  BY DEF Init, UnsentCall
<1>2. TypeOK /\ CancelInv /\ [Next]_vars => CancelInv'
  <2> SUFFICES ASSUME TypeOK, CancelInv, [Next]_vars PROVE CancelInv'
    OBVIOUS
  <2> USE DEF TypeOK, AgentAbort
  <2>1. ASSUME NEW r \in Requests, Handler(r) PROVE CancelInv'
    BY <2>1 DEF Handler, RejectUnknownSkill, RejectBusy, Start, CreateRuntime,
                CreateFails, BindAbortHandler
  <2>2. ASSUME NEW r \in Requests, Stream(r) PROVE CancelInv'
    <3>1. CASE LeaveDisconnected(r)
      BY <3>1 DEF LeaveDisconnected
    <3>2. CASE EndStream(r) \/ Finalise(r)
      BY <3>2 DEF EndStream, Finalise
    <3>3. CASE \/ EnterStream(r) \/ Resume(r) \/ LeaveAborted(r) \/ Forward(r)
               \/ TakeDone(r) \/ SendState(r) \/ SendDone(r) \/ CloseRuntime(r)
               \/ Finish(r)
      BY <3>3 DEF EnterStream, Resume, LeaveAborted, Forward, TakeDone, SendState,
                  SendDone, CloseRuntime, Finish
    <3>4. QED
      BY <2>2, <3>1, <3>2, <3>3 DEF Stream
  <2>3. ASSUME NEW r \in Requests, Agent(r) PROVE CancelInv'
    BY <2>3 DEF Agent, AgentYields, AgentStops, AgentRaises
  <2>4. ASSUME NEW r \in Requests, Framework(r) PROVE CancelInv'
    BY <2>4 DEF Framework, Disconnect, CancelInGenerator, CancelAtYield,
                CancelOutside
  <2>5. ASSUME NEW a \in AbortCalls, Abort(a) PROVE CancelInv'
    <3>1. CASE ClientAborts(a)
      BY <3>1 DEF ClientAborts
    <3>2. CASE MarkAbort(a)
      <4> DEFINE run == active[SessionOf[call[a].target]]
      <4>1. \/ /\ call' = [call EXCEPT ![a].step = "answered"]
               /\ abortEvent' = abortEvent
            \/ /\ abortEvent' = abortEvent \cup {run}
               /\ call' = [call EXCEPT ![a].hit = run,
                     ![a].step = IF run \in bound THEN "signalling" ELSE "answered"]
        BY <3>2, Zenon DEF MarkAbort
      <4>2. agent' = agent
        BY <3>2 DEF MarkAbort
      <4>3. CancelledWasAborted'
        BY <4>1, <4>2
      <4>4. SignalsMarked'
        <5>1. call[a] \in {UnsentCall} \cup SentCalls
          OBVIOUS
        <5>2. call'[a].step = "signalling" => call'[a].hit = run /\ run \in abortEvent'
          BY <4>1, <5>1 DEF SentCalls, UnsentCall
        <5>3. \A b \in AbortCalls \ {a} : call'[b] = call[b]
          BY <4>1
        <5>4. abortEvent \subseteq abortEvent'
          BY <4>1
        <5>5. QED
          BY <5>2, <5>3, <5>4
      <4>5. QED
        BY <4>3, <4>4
    <3>3. CASE SignalAgent(a)
      BY <3>3 DEF SignalAgent
    <3>4. QED
      BY <2>5, <3>1, <3>2, <3>3 DEF Abort
  <2>6. CASE UNCHANGED vars
    BY <2>6 DEF vars
  <2>7. QED
    BY <2>1, <2>2, <2>3, <2>4, <2>5, <2>6 DEF Next
<1>3. QED
  BY <1>1, <1>2, ChatRunsTyped, PTL DEF Spec, CancelInv

\* A named abort that hit a run named it.
NamesItsHit ==
    \A a \in AbortCalls : call[a].named /\ call[a].hit # NoRun =>
        /\ call[a].target \in Requests
        /\ RequestId[call[a].hit] = RequestId[call[a].target]

UniqueIds == \A r, q \in Requests : RequestId[r] = RequestId[q] => r = q

\* Whatever ids requests carry, a named abort stops a run of the id it names only.
LEMMA NamedAbortsMatch == Spec => []NamesItsHit
<1> USE ChatRunsAssumption DEF NamesItsHit
<1>1. Init => NamesItsHit
  BY DEF Init, UnsentCall
<1>2. TypeOK /\ NamesItsHit /\ [Next]_vars => NamesItsHit'
  <2> SUFFICES ASSUME TypeOK, NamesItsHit, [Next]_vars PROVE NamesItsHit'
    OBVIOUS
  <2>1. ASSUME NEW r \in Requests, Handler(r) PROVE NamesItsHit'
    BY <2>1 DEF Handler, RejectUnknownSkill, RejectBusy, Start, CreateRuntime,
                CreateFails, BindAbortHandler
  <2>2. ASSUME NEW r \in Requests, Stream(r) PROVE NamesItsHit'
    BY <2>2 DEF Stream, EnterStream, Resume, LeaveDisconnected, LeaveAborted,
                Forward, TakeDone, SendState, SendDone, EndStream, Finalise,
                CloseRuntime, Finish
  <2>3. ASSUME NEW r \in Requests, Agent(r) PROVE NamesItsHit'
    BY <2>3 DEF Agent, AgentYields, AgentStops, AgentRaises
  <2>4. ASSUME NEW r \in Requests, Framework(r) PROVE NamesItsHit'
    BY <2>4 DEF Framework, Disconnect, CancelInGenerator, CancelAtYield, CancelOutside
  <2>5. ASSUME NEW a \in AbortCalls, Abort(a) PROVE NamesItsHit'
    <3>1. CASE ClientAborts(a)
      <4>1. PICK r \in Requests, named \in NameChoices :
               call' = [call EXCEPT ![a] = [step |-> "sent", target |-> r,
                                            named |-> named, hit |-> NoRun]]
        BY <3>1 DEF ClientAborts
      <4>2. QED
        BY <4>1 DEF TypeOK
    <3>2. CASE MarkAbort(a)
      <4> DEFINE run == active[SessionOf[call[a].target]]
      <4>1. call[a] \in SentCalls
        BY <3>2 DEF MarkAbort, TypeOK, UnsentCall
      <4>2. \/ call' = [call EXCEPT ![a].step = "answered"]
            \/ /\ call[a].named => RequestId[run] = RequestId[call[a].target]
               /\ call' = [call EXCEPT ![a].hit = run,
                     ![a].step = IF run \in bound THEN "signalling" ELSE "answered"]
        BY <3>2, Zenon DEF MarkAbort
      <4>3. \A b \in AbortCalls \ {a} : call'[b] = call[b]
        BY <4>2 DEF TypeOK
      <4>4. /\ call'[a].named = call[a].named
            /\ call'[a].target = call[a].target
            /\ \/ call'[a].hit = call[a].hit
               \/ /\ call'[a].hit = run
                  /\ call[a].named => RequestId[run] = RequestId[call[a].target]
        BY <4>1, <4>2 DEF TypeOK, SentCalls
      <4>5. QED
        BY <4>1, <4>3, <4>4 DEF SentCalls
    <3>3. CASE SignalAgent(a)
      <4>1. \A b \in AbortCalls : /\ call'[b].named = call[b].named
                                  /\ call'[b].target = call[b].target
                                  /\ call'[b].hit = call[b].hit
        BY <3>3 DEF SignalAgent, TypeOK, SentCalls, UnsentCall
      <4>2. QED
        BY <4>1
    <3>4. QED
      BY <2>5, <3>1, <3>2, <3>3 DEF Abort
  <2>6. CASE UNCHANGED vars
    BY <2>6 DEF vars
  <2>7. QED
    BY <2>1, <2>2, <2>3, <2>4, <2>5, <2>6 DEF Next
<1>3. QED
  BY <1>1, <1>2, ChatRunsTyped, PTL DEF Spec

\* When ids are unique, as the ones the server generates are, an abort that names
\* its request never stops another one, however late it arrives.
THEOREM NamedAbortsHitTheirRun ==
    ASSUME UniqueIds
    PROVE  Spec => []NamedAbortHitsItsRun
<1>1. TypeOK /\ NamesItsHit => NamedAbortHitsItsRun
  <2> SUFFICES ASSUME TypeOK, NamesItsHit, NEW a \in AbortCalls,
                      call[a].named, call[a].hit # NoRun
               PROVE  call[a].hit = call[a].target
    BY DEF NamedAbortHitsItsRun
  <2>1. call[a].hit \in Requests
    <3>1. CASE call[a] = UnsentCall
      BY <3>1 DEF UnsentCall
    <3>2. CASE call[a] \in SentCalls
      BY <3>2 DEF SentCalls
    <3>3. QED
      BY <3>1, <3>2 DEF TypeOK
  <2>2. QED
    BY <2>1 DEF UniqueIds, NamesItsHit
<1>2. QED
  BY <1>1, ChatRunsTyped, NamedAbortsMatch, PTL

-----------------------------------------------------------------------------
(* The wire *)

\* Stages a stream can be in once its done event has been sent.
AfterDone == {"doneSent", "orphaned", "closing", "finishing", "ended", "dropped"}

\* StateBeforeDone, and what the stage says of the events already sent.
WireInv ==
    /\ StateBeforeDone
    /\ \A r \in Requests :
         /\ stage[r] \notin AfterDone =>
               \A i \in 1..Len(sent[r]) : sent[r][i] # "done"
         /\ stage[r] = "stateSent" => Len(sent[r]) > 0 /\ sent[r][Len(sent[r])] = "state"

\* Send appends one event to one stream.
LEMMA SendAppends ==
    ASSUME TypeOK, NEW r \in Requests, NEW event \in Events, Send(r, event)
    PROVE  /\ Len(sent[r]) \in Nat
           /\ Len(sent'[r]) = Len(sent[r]) + 1
           /\ sent'[r][Len(sent[r]) + 1] = event
           /\ \A i \in 1..Len(sent[r]) : sent'[r][i] = sent[r][i]
           /\ \A q \in Requests \ {r} : sent'[q] = sent[q]
<1>1. sent[r] \in Seq(Events) /\ sent'[r] = Append(sent[r], event)
  BY DEF TypeOK, Send
<1>2. \A q \in Requests \ {r} : sent'[q] = sent[q]
  BY DEF TypeOK, Send
<1>3. QED
  BY <1>1, <1>2

\* A step that sends an event of its stream, done only after a state.
LEMMA SendingKeepsWire ==
    ASSUME TypeOK, WireInv, NEW r \in Requests, NEW event \in Events,
           Send(r, event), NEW next \in Stages,
           stage' = [stage EXCEPT ![r] = next], stage[r] \notin AfterDone,
           event = "done" => (stage[r] = "stateSent" /\ next \in AfterDone),
           next = "stateSent" => event = "state"
    PROVE  WireInv'
<1> DEFINE n == Len(sent[r])
           Wire(q) ==
              /\ \A i \in 1..Len(sent[q]) :
                   sent[q][i] = "done" => i = Len(sent[q]) /\ i > 1 /\ sent[q][i - 1] = "state"
              /\ stage[q] \notin AfterDone => \A i \in 1..Len(sent[q]) : sent[q][i] # "done"
              /\ stage[q] = "stateSent" => Len(sent[q]) > 0 /\ sent[q][Len(sent[q])] = "state"
<1>1. WireInv <=> \A q \in Requests : Wire(q)
  BY DEF WireInv, StateBeforeDone
<1>2. WireInv' <=> \A q \in Requests : Wire(q)'
  BY DEF WireInv, StateBeforeDone
<1>3. /\ n \in Nat /\ Len(sent'[r]) = n + 1 /\ sent'[r][n + 1] = event
      /\ \A i \in 1..n : sent'[r][i] = sent[r][i]
      /\ \A q \in Requests \ {r} : sent'[q] = sent[q]
  BY SendAppends
<1>4. ASSUME NEW q \in Requests \ {r} PROVE Wire(q)'
  BY <1>1, <1>3, <1>4 DEF TypeOK
<1>5. Wire(r)'
  <2>1. \A i \in 1..n : sent'[r][i] # "done"
    BY <1>1, <1>3
  <2>2. stage'[r] = next
    BY DEF TypeOK
  <2>3. \A i \in 1..(n + 1) : i \in 1..n \/ i = n + 1
    BY <1>3
  <2>4. event = "done" => n + 1 > 1 /\ sent'[r][n] = "state"
    BY <1>1, <1>3
  <2>5. \A i \in 1..Len(sent'[r]) :
           sent'[r][i] = "done" => i = Len(sent'[r]) /\ i > 1 /\ sent'[r][i - 1] = "state"
    BY <1>3, <2>1, <2>3, <2>4
  <2>6. stage'[r] \notin AfterDone => \A i \in 1..Len(sent'[r]) : sent'[r][i] # "done"
    BY <1>3, <2>1, <2>2, <2>3
  <2>7. stage'[r] = "stateSent" => Len(sent'[r]) > 0 /\ sent'[r][Len(sent'[r])] = "state"
    BY <1>3, <2>2
  <2>8. QED
    BY <2>5, <2>6, <2>7
<1>6. QED
  BY <1>2, <1>4, <1>5

\* Every stream ends with conversation_state and then done, and sends neither
\* twice in that role, on every path of _chat_stream.
THEOREM DoneIsLastAfterState == Spec => []StateBeforeDone
<1> USE ChatRunsAssumption
<1>1. Init => WireInv
  BY DEF Init, WireInv, StateBeforeDone
<1>2. TypeOK /\ WireInv /\ [Next]_vars => WireInv'
  <2> SUFFICES ASSUME TypeOK, WireInv, [Next]_vars PROVE WireInv'
    OBVIOUS
  <2> USE DEF TypeOK, WireInv, StateBeforeDone, AfterDone, Goto
  <2>1. ASSUME NEW r \in Requests, sent' = sent, NEW next \in Stages,
               stage' = [stage EXCEPT ![r] = next], next # "stateSent",
               stage[r] \in AfterDone => next \in AfterDone
        PROVE  WireInv'
    BY <2>1
  <2>2. ASSUME NEW r \in Requests, Handler(r) PROVE WireInv'
    BY <2>1, <2>2 DEF Handler, RejectUnknownSkill, RejectBusy, Start, CreateRuntime,
                CreateFails, BindAbortHandler, Stages
  <2>3. ASSUME NEW r \in Requests, Stream(r) PROVE WireInv'
    <3>1. CASE \/ EnterStream(r) \/ Resume(r) \/ LeaveDisconnected(r)
               \/ LeaveAborted(r) \/ TakeDone(r) \/ EndStream(r) \/ Finalise(r)
               \/ CloseRuntime(r) \/ Finish(r)
      BY <2>1, <3>1 DEF EnterStream, Resume, LeaveDisconnected, LeaveAborted,
                  TakeDone, EndStream, Finalise, CloseRuntime, Finish, Stages
    <3>2. CASE Forward(r)
      <4>1. Send(r, "delta") /\ "delta" \in Events
        BY <3>2 DEF Forward, Events
      <4>2. stage' = [stage EXCEPT ![r] = "sending"] /\ stage[r] = "gotEvent"
        BY <3>2 DEF Forward
      <4>3. "sending" \in Stages /\ stage[r] \notin AfterDone
        BY <4>2 DEF Stages
      <4>4. QED
        <5> HIDE DEF TypeOK, WireInv, AfterDone
        <5> QED BY <4>1, <4>2, <4>3, SendingKeepsWire
    <3>3. CASE SendState(r)
      <4>1. Send(r, "state") /\ "state" \in Events
        BY <3>3 DEF SendState, Events
      <4>2. QED
        BY <3>3, <4>1, SendingKeepsWire DEF SendState, Stages
    <3>4. CASE SendDone(r)
      <4>1. Send(r, "done") /\ "done" \in Events
        BY <3>4 DEF SendDone, Events
      <4>2. QED
        BY <3>4, <4>1, SendingKeepsWire DEF SendDone, Stages
    <3>5. QED
      BY <2>3, <3>1, <3>2, <3>3, <3>4 DEF Stream
  <2>4. ASSUME NEW r \in Requests, Agent(r) PROVE WireInv'
    <3>1. CASE AgentYields(r) \/ AgentStops(r)
      BY <2>1, <3>1 DEF AgentYields, AgentStops, Stages
    <3>2. CASE AgentRaises(r)
      <4>1. Send(r, "error") /\ "error" \in Events
        BY <3>2 DEF AgentRaises, Events
      <4>2. stage' = [stage EXCEPT ![r] = "errorSent"] /\ stage[r] = "pulling"
        BY <3>2 DEF AgentRaises
      <4>3. "errorSent" \in Stages /\ stage[r] \notin AfterDone
        BY <4>2 DEF Stages
      <4>4. QED
        <5> HIDE DEF TypeOK, WireInv, AfterDone
        <5> QED BY <4>1, <4>2, <4>3, SendingKeepsWire
    <3>3. QED
      BY <2>4, <3>1, <3>2 DEF Agent
  <2>5. ASSUME NEW r \in Requests, Framework(r) PROVE WireInv'
    <3>1. CASE Disconnect(r)
      BY <3>1 DEF Disconnect
    <3>2. CASE CancelInGenerator(r) \/ CancelAtYield(r) \/ CancelOutside(r)
      BY <2>1, <3>2 DEF CancelInGenerator, CancelAtYield, CancelOutside, Stages
    <3>3. QED
      BY <2>5, <3>1, <3>2 DEF Framework
  <2>6. ASSUME NEW a \in AbortCalls, Abort(a) PROVE WireInv'
    BY <2>6 DEF Abort, ClientAborts, MarkAbort, SignalAgent
  <2>7. CASE UNCHANGED vars
    BY <2>7 DEF vars
  <2>8. QED
    BY <2>2, <2>3, <2>4, <2>5, <2>6, <2>7 DEF Next
<1>3. QED
  BY <1>1, <1>2, ChatRunsTyped, PTL DEF Spec, WireInv

\* Once a run is aborted, none of its agent's events reach the client, and its
\* stream ends as aborted unless the agent raised.
THEOREM AbortsSilence == Spec => AbortSilences
<1>1. TypeOK /\ [Next]_vars => [AbortSilencesStep]_vars
  <2> SUFFICES ASSUME TypeOK, Next, NEW q \in abortEvent
               PROVE  /\ sent'[q] # sent[q] => sent'[q][Len(sent'[q])] # "delta"
                      /\ (terminal[q] = "none" /\ terminal'[q] # "none")
                            => terminal'[q] \in {"aborted", "error"}
    BY DEF AbortSilencesStep
  <2> DEFINE Silent == /\ sent'[q] # sent[q] => sent'[q][Len(sent'[q])] # "delta"
                       /\ (terminal[q] = "none" /\ terminal'[q] # "none")
                            => terminal'[q] \in {"aborted", "error"}
  <2>1. ASSUME sent' = sent, terminal' = terminal PROVE Silent
    BY <2>1
  <2>2. ASSUME sent' = sent, NEW r \in Requests, NEW reason,
               terminal' = [terminal EXCEPT ![r] = reason],
               r \in abortEvent => reason \in {"aborted", "error"}
        PROVE  Silent
    BY <2>2 DEF TypeOK
  <2>3. ASSUME NEW r \in Requests, NEW event \in Events, Send(r, event),
               event = "delta" => r \notin abortEvent
        PROVE  sent'[q] # sent[q] => sent'[q][Len(sent'[q])] # "delta"
    BY <2>3, SendAppends DEF TypeOK
  <2>4. ASSUME NEW r \in Requests, Handler(r) PROVE Silent
    BY <2>1, <2>4 DEF Handler, RejectUnknownSkill, RejectBusy, Start, CreateRuntime,
                      CreateFails, BindAbortHandler
  <2>5. ASSUME NEW r \in Requests, Stream(r) PROVE Silent
    <3>1. CASE \/ EnterStream(r) \/ Resume(r) \/ LeaveDisconnected(r)
               \/ EndStream(r) \/ Finalise(r) \/ CloseRuntime(r) \/ Finish(r)
      BY <2>1, <3>1 DEF EnterStream, Resume, LeaveDisconnected, EndStream,
                        Finalise, CloseRuntime, Finish
    <3>2. CASE LeaveAborted(r) \/ TakeDone(r)
      BY <2>2, <3>2 DEF LeaveAborted, TakeDone
    <3>3. CASE Forward(r)
      BY <2>3, <3>3 DEF Forward, Events
    <3>4. CASE SendState(r) \/ SendDone(r)
      BY <2>3, <3>4 DEF SendState, SendDone, Events
    <3>5. QED
      BY <2>5, <3>1, <3>2, <3>3, <3>4 DEF Stream
  <2>6. ASSUME NEW r \in Requests, Agent(r) PROVE Silent
    <3>1. CASE AgentYields(r)
      BY <2>1, <3>1 DEF AgentYields
    <3>2. CASE AgentStops(r)
      BY <2>2, <3>2 DEF AgentStops
    <3>3. CASE AgentRaises(r)
      <4>1. sent'[q] # sent[q] => sent'[q][Len(sent'[q])] # "delta"
        BY <2>3, <3>3 DEF AgentRaises, Events
      <4>2. terminal'[q] \in {terminal[q], "error"}
        BY <3>3 DEF AgentRaises, TypeOK
      <4>3. QED
        BY <4>1, <4>2
    <3>4. QED
      BY <2>6, <3>1, <3>2, <3>3 DEF Agent
  <2>7. ASSUME NEW r \in Requests, Framework(r) PROVE Silent
    BY <2>1, <2>7 DEF Framework, Disconnect, CancelInGenerator, CancelAtYield,
                      CancelOutside
  <2>8. ASSUME NEW a \in AbortCalls, Abort(a) PROVE Silent
    BY <2>1, <2>8 DEF Abort, ClientAborts, MarkAbort, SignalAgent
  <2>9. QED
    BY <2>4, <2>5, <2>6, <2>7, <2>8 DEF Next
<1>2. QED
  BY <1>1, ChatRunsTyped, PTL DEF Spec, AbortSilences
=============================================================================
