------------------------------ MODULE ChatRuns ------------------------------
(***************************************************************************)
(* The life of POST /api/chat (server/api/chat.py) and of the table of     *)
(* active runs it shares with POST /api/chat/abort (RunCoordinator in      *)
(* server/api/services.py).  Every await of the two handlers is a point    *)
(* where another request may run; what happens between two awaits is one   *)
(* step.  The agent a request drives is seen from outside: it yields       *)
(* events, and its cancel flag can be set; AgentLoop models its inside.    *)
(***************************************************************************)
EXTENDS Naturals, Sequences

CONSTANTS
    Requests,      \* the chat requests of a behaviour
    Sessions,      \* (workspace, session) pairs, the keys of the table
    SessionOf,     \* SessionOf[r]: the key request r names
    RequestId,     \* RequestId[r]: the id of r's ActiveRun
    NoRun,         \* no entry in the table
    AbortCalls,    \* the abort calls of a behaviour
    NameChoices,   \* {TRUE}: aborts carry a request id, {FALSE}: they do not
    CancelPoints,  \* stages at which the web framework may cancel a response
    MaxDeltas      \* bound on the agent events one stream forwards

Stages == {"new", "starting", "refusing", "binding", "ready", "pulling",
           "gotEvent", "gotDone", "sending", "snapshot", "errorSent",
           "stateSent", "doneSent", "orphaned", "closing", "finishing",
           "ended", "rejected", "dropped"}

\* A request in one of these stages has its entry in the table.
Holding == Stages \ {"new", "rejected", "ended"}

\* The handler or the generator of such a request still has code to run.
Executing == Holding \ {"dropped"}

ASSUME ChatRunsAssumption ==
    /\ SessionOf \in [Requests -> Sessions]
    /\ NoRun \notin Requests
    /\ NameChoices \subseteq BOOLEAN
    /\ CancelPoints \subseteq Stages
    /\ MaxDeltas \in Nat

VARIABLES
    active,      \* RunCoordinator._active: session -> ActiveRun or nothing
    stage,       \* where each request's handler or generator stands
    bound,       \* runs whose abort_handler is set
    abortEvent,  \* runs whose abort_event is set
    agent,       \* each run's agent, as abort and the stream see it
    connected,   \* requests whose client is still there
    terminal,    \* finish reason of the done event the stream will send
    sent,        \* the SSE events written to each response
    call         \* the abort calls in flight

vars == <<active, stage, bound, abortEvent, agent, connected, terminal, sent,
          call>>

AgentStates == {"fresh",      \* generator not entered, not in AgentCore._active
                "running",    \* in _active, cancel not set
                "cancelled",  \* in _active, cancel set
                "over"}       \* generator finished or collected
Reasons == {"none", "agent", "stop", "aborted", "error"}
Events == {"delta", "error", "state", "done"}
UnsentCall == [step |-> "unsent", target |-> NoRun, named |-> FALSE, hit |-> NoRun]
SentCalls == [step: {"sent", "signalling", "answered"}, target: Requests,
              named: BOOLEAN, hit: Requests \cup {NoRun}]

Init ==
    /\ active = [s \in Sessions |-> NoRun]
    /\ stage = [r \in Requests |-> "new"]
    /\ bound = {}
    /\ abortEvent = {}
    /\ agent = [r \in Requests |-> "fresh"]
    /\ connected = Requests
    /\ terminal = [r \in Requests |-> "none"]
    /\ sent = [r \in Requests |-> <<>>]
    /\ call = [a \in AbortCalls |-> UnsentCall]

-----------------------------------------------------------------------------
(* Small steps shared by the actions *)

Goto(r, next) == stage' = [stage EXCEPT ![r] = next]

Send(r, event) == sent' = [sent EXCEPT ![r] = Append(@, event)]

\* The entry of r's session, when it carries r's id.
OwnEntry(r) == LET run == active[SessionOf[r]]
               IN  run # NoRun /\ RequestId[run] = RequestId[r]

\* AgentCore.abort: sets the cancel flag of a run that is in _active.
AgentAbort(r) ==
    agent' = [agent EXCEPT ![r] = IF @ = "running" THEN "cancelled" ELSE @]

-----------------------------------------------------------------------------
(* The request handler: chat() *)

\* A skill name the catalogue does not know: 422 before any state changes.
RejectUnknownSkill(r) ==
    /\ stage[r] = "new"
    /\ Goto(r, "rejected")
    /\ UNCHANGED <<active, bound, abortEvent, agent, connected, terminal,
                   sent, call>>

\* RunCoordinator.start finds an entry: 409 chat_run_active.
RejectBusy(r) ==
    /\ stage[r] = "new"
    /\ active[SessionOf[r]] # NoRun
    /\ Goto(r, "rejected")
    /\ UNCHANGED <<active, bound, abortEvent, agent, connected, terminal,
                   sent, call>>

\* Mutant of Start: the table is not consulted.
StartUnchecked(r) ==
    /\ stage[r] = "new"
    /\ active' = [active EXCEPT ![SessionOf[r]] = r]
    /\ Goto(r, "starting")
    /\ UNCHANGED <<bound, abortEvent, agent, connected, terminal, sent, call>>

Start(r) ==
    /\ stage[r] = "new"
    /\ active[SessionOf[r]] = NoRun
    /\ active' = [active EXCEPT ![SessionOf[r]] = r]
    /\ Goto(r, "starting")
    /\ UNCHANGED <<bound, abortEvent, agent, connected, terminal, sent, call>>

CreateRuntime(r) ==
    /\ stage[r] = "starting"
    /\ Goto(r, "binding")
    /\ UNCHANGED <<active, bound, abortEvent, agent, connected, terminal,
                   sent, call>>

\* Mutant of CreateFails: the error path forgets to release the run.
CreateFailsUnreleased(r) ==
    /\ stage[r] = "starting"
    /\ Goto(r, "ended")
    /\ UNCHANGED <<active, bound, abortEvent, agent, connected, terminal,
                   sent, call>>

\* RequestRuntimeFactory.create raised: finish is awaited, then 422 or 503.
CreateFails(r) ==
    /\ stage[r] = "starting"
    /\ Goto(r, "refusing")
    /\ UNCHANGED <<active, bound, abortEvent, agent, connected, terminal,
                   sent, call>>

BindAbortHandler(r) ==
    /\ stage[r] = "binding"
    /\ bound' = IF OwnEntry(r) THEN bound \cup {active[SessionOf[r]]} ELSE bound
    /\ Goto(r, "ready")
    /\ UNCHANGED <<active, abortEvent, agent, connected, terminal, sent, call>>

-----------------------------------------------------------------------------
(* The response generator: _chat_stream() *)

\* StreamingResponse pulls the generator for the first time.
EnterStream(r) ==
    /\ stage[r] = "ready"
    /\ Goto(r, "pulling")
    /\ UNCHANGED <<active, bound, abortEvent, agent, connected, terminal,
                   sent, call>>

\* The client took the chunk: the generator resumes after its yield.
Resume(r) ==
    /\ stage[r] = "sending"
    /\ Goto(r, "pulling")
    /\ UNCHANGED <<active, bound, abortEvent, agent, connected, terminal,
                   sent, call>>

\* The agent yields an event: one that is forwarded, or its own done.
AgentYields(r) ==
    /\ stage[r] = "pulling"
    /\ agent[r] # "over"
    /\ agent' = [agent EXCEPT ![r] = IF @ = "fresh" THEN "running" ELSE @]
    /\ \/ /\ Len(sent[r]) < MaxDeltas
          /\ Goto(r, "gotEvent")
       \/ Goto(r, "gotDone")
    /\ UNCHANGED <<active, bound, abortEvent, connected, terminal, sent, call>>

\* The agent's generator ends without a done event.
AgentStops(r) ==
    /\ stage[r] = "pulling"
    /\ agent' = [agent EXCEPT ![r] = "over"]
    /\ terminal' = [terminal EXCEPT
                      ![r] = IF r \in abortEvent THEN "aborted" ELSE "stop"]
    /\ Goto(r, "snapshot")
    /\ UNCHANGED <<active, bound, abortEvent, connected, sent, call>>

\* The agent raises: the error event is the first yield of the except branch.
AgentRaises(r) ==
    /\ stage[r] = "pulling"
    /\ agent' = [agent EXCEPT ![r] = "over"]
    /\ terminal' = [terminal EXCEPT ![r] = "error"]
    /\ Send(r, "error")
    /\ Goto(r, "errorSent")
    /\ UNCHANGED <<active, bound, abortEvent, connected, call>>

\* is_disconnected() answered TRUE: abort the agent and return.
LeaveDisconnected(r) ==
    /\ stage[r] \in {"gotEvent", "gotDone"}
    /\ r \notin connected
    /\ abortEvent' = abortEvent \cup {r}
    /\ AgentAbort(r)
    /\ Goto(r, "closing")
    /\ UNCHANGED <<active, bound, connected, terminal, sent, call>>

\* An event that arrives after the abort is dropped and ends the stream.
LeaveAborted(r) ==
    /\ stage[r] = "gotEvent"
    /\ r \in connected
    /\ r \in abortEvent
    /\ terminal' = [terminal EXCEPT ![r] = "aborted"]
    /\ Goto(r, "snapshot")
    /\ UNCHANGED <<active, bound, abortEvent, agent, connected, sent, call>>

\* Mutant of Forward: events are forwarded after an abort.
ForwardAborted(r) ==
    /\ stage[r] = "gotEvent"
    /\ r \in connected
    /\ Send(r, "delta")
    /\ Goto(r, "sending")
    /\ UNCHANGED <<active, bound, abortEvent, agent, connected, terminal, call>>

Forward(r) ==
    /\ stage[r] = "gotEvent"
    /\ r \in connected
    /\ r \notin abortEvent
    /\ Send(r, "delta")
    /\ Goto(r, "sending")
    /\ UNCHANGED <<active, bound, abortEvent, agent, connected, terminal, call>>

\* The agent's done event, overridden when the run was aborted.
TakeDone(r) ==
    /\ stage[r] = "gotDone"
    /\ r \in connected
    /\ terminal' = [terminal EXCEPT
                      ![r] = IF r \in abortEvent THEN "aborted" ELSE "agent"]
    /\ Goto(r, "snapshot")
    /\ UNCHANGED <<active, bound, abortEvent, agent, connected, sent, call>>

\* Mutant of SendState: an event type the browser does not know.
SendUnknownEvent(r) ==
    /\ stage[r] \in {"snapshot", "errorSent"}
    /\ Send(r, "snapshot")
    /\ Goto(r, "stateSent")
    /\ UNCHANGED <<active, bound, abortEvent, agent, connected, terminal, call>>

SendState(r) ==
    /\ stage[r] \in {"snapshot", "errorSent"}
    /\ Send(r, "state")
    /\ Goto(r, "stateSent")
    /\ UNCHANGED <<active, bound, abortEvent, agent, connected, terminal, call>>

\* Mutant of SendDone: the error path ends without the snapshot.
SendDoneWithoutState(r) ==
    /\ stage[r] \in {"stateSent", "errorSent"}
    /\ Send(r, "done")
    /\ Goto(r, "doneSent")
    /\ UNCHANGED <<active, bound, abortEvent, agent, connected, terminal, call>>

SendDone(r) ==
    /\ stage[r] = "stateSent"
    /\ Send(r, "done")
    /\ Goto(r, "doneSent")
    /\ UNCHANGED <<active, bound, abortEvent, agent, connected, terminal, call>>

EndStream(r) ==
    /\ stage[r] = "doneSent"
    /\ agent' = [agent EXCEPT ![r] = "over"]
    /\ Goto(r, "closing")
    /\ UNCHANGED <<active, bound, abortEvent, connected, terminal, sent, call>>

\* A generator left suspended at a yield is collected: GeneratorExit runs its
\* finally block.
Finalise(r) ==
    /\ stage[r] = "orphaned"
    /\ agent' = [agent EXCEPT ![r] = "over"]
    /\ Goto(r, "closing")
    /\ UNCHANGED <<active, bound, abortEvent, connected, terminal, sent, call>>

CloseRuntime(r) ==
    /\ stage[r] = "closing"
    /\ Goto(r, "finishing")
    /\ UNCHANGED <<active, bound, abortEvent, agent, connected, terminal,
                   sent, call>>

\* RunCoordinator.finish pops the entry only when it carries this run's id.
Finish(r) ==
    /\ stage[r] \in {"finishing", "refusing"}
    /\ active' = IF OwnEntry(r)
                 THEN [active EXCEPT ![SessionOf[r]] = NoRun] ELSE active
    /\ Goto(r, "ended")
    /\ UNCHANGED <<bound, abortEvent, agent, connected, terminal, sent, call>>

-----------------------------------------------------------------------------
(* The client and the web framework *)

Disconnect(r) ==
    /\ stage[r] \in Executing
    /\ r \in connected
    /\ connected' = connected \ {r}
    /\ UNCHANGED <<active, stage, bound, abortEvent, agent, terminal, sent, call>>

\* CancelledError out of an await of the generator: its except arm and finally.
CancelInGenerator(r) ==
    /\ stage[r] \in CancelPoints \cap {"pulling", "gotEvent", "gotDone", "snapshot"}
    /\ r \notin connected
    /\ abortEvent' = abortEvent \cup {r}
    /\ IF stage[r] = "pulling"
       THEN agent' = [agent EXCEPT ![r] = "over"]
       ELSE AgentAbort(r)
    /\ Goto(r, "closing")
    /\ UNCHANGED <<active, bound, connected, terminal, sent, call>>

\* The response task is cancelled in send(): the generator stays at its yield.
CancelAtYield(r) ==
    /\ stage[r] \in CancelPoints \cap {"sending", "errorSent", "stateSent", "doneSent"}
    /\ r \notin connected
    /\ Goto(r, "orphaned")
    /\ UNCHANGED <<active, bound, abortEvent, agent, connected, terminal,
                   sent, call>>

\* Cancelled before the generator was entered, so that its finally block never
\* runs, or inside the finally block, so that the rest of it never runs.
CancelOutside(r) ==
    /\ stage[r] \in CancelPoints \cap {"ready", "closing"}
    /\ r \notin connected
    /\ Goto(r, "dropped")
    /\ UNCHANGED <<active, bound, abortEvent, agent, connected, terminal,
                   sent, call>>

-----------------------------------------------------------------------------
(* The abort endpoint: abort_chat() and RunCoordinator.request_abort() *)

\* A client that sees its request running asks for it to stop.
ClientAborts(a) ==
    /\ call[a].step = "unsent"
    /\ \E r \in Requests, named \in NameChoices :
         /\ stage[r] \in Executing
         /\ call' = [call EXCEPT ![a] = [step |-> "sent", target |-> r,
                                         named |-> named, hit |-> NoRun]]
    /\ UNCHANGED <<active, stage, bound, abortEvent, agent, connected,
                   terminal, sent>>

\* Mutants of MarkAbort: the request id is not compared; the bound handler is
\* never called.
MarkAbortOfAnyRun(a) ==
    LET run == active[SessionOf[call[a].target]]
    IN  /\ call[a].step = "sent"
        /\ run # NoRun
        /\ abortEvent' = abortEvent \cup {run}
        /\ call' = [call EXCEPT
              ![a].hit = run,
              ![a].step = IF run \in bound THEN "signalling" ELSE "answered"]
        /\ UNCHANGED <<active, stage, bound, agent, connected, terminal, sent>>

MarkAbortUnsignalled(a) ==
    LET run == active[SessionOf[call[a].target]]
    IN  /\ call[a].step = "sent"
        /\ abortEvent' = IF run = NoRun THEN abortEvent ELSE abortEvent \cup {run}
        /\ call' = [call EXCEPT ![a].step = "answered"]
        /\ UNCHANGED <<active, stage, bound, agent, connected, terminal, sent>>

\* The part of request_abort under the lock, when the call arrives.
MarkAbort(a) ==
    LET run == active[SessionOf[call[a].target]]
    IN  /\ call[a].step = "sent"
        /\ IF \/ run = NoRun
              \/ call[a].named /\ RequestId[run] # RequestId[call[a].target]
           THEN /\ call' = [call EXCEPT ![a].step = "answered"]
                /\ UNCHANGED abortEvent
           ELSE /\ abortEvent' = abortEvent \cup {run}
                /\ call' = [call EXCEPT
                      ![a].hit = run,
                      ![a].step = IF run \in bound THEN "signalling" ELSE "answered"]
        /\ UNCHANGED <<active, stage, bound, agent, connected, terminal, sent>>

\* Mutant of SignalAgent: the table is read again after the lock was released.
SignalCurrentRun(a) ==
    /\ call[a].step = "signalling"
    /\ IF active[SessionOf[call[a].hit]] = NoRun THEN UNCHANGED agent
       ELSE AgentAbort(active[SessionOf[call[a].hit]])
    /\ call' = [call EXCEPT ![a].step = "answered"]
    /\ UNCHANGED <<active, stage, bound, abortEvent, connected, terminal, sent>>

\* The handler, called outside the lock: AgentCore.abort on the run's agent.
SignalAgent(a) ==
    /\ call[a].step = "signalling"
    /\ AgentAbort(call[a].hit)
    /\ call' = [call EXCEPT ![a].step = "answered"]
    /\ UNCHANGED <<active, stage, bound, abortEvent, connected, terminal, sent>>

-----------------------------------------------------------------------------
Handler(r) == \/ RejectUnknownSkill(r) \/ RejectBusy(r) \/ Start(r)
              \/ CreateRuntime(r) \/ CreateFails(r) \/ BindAbortHandler(r)

Stream(r) == \/ EnterStream(r) \/ Resume(r)
             \/ LeaveDisconnected(r) \/ LeaveAborted(r) \/ Forward(r)
             \/ TakeDone(r) \/ SendState(r) \/ SendDone(r) \/ EndStream(r)
             \/ Finalise(r) \/ CloseRuntime(r) \/ Finish(r)

Agent(r) == AgentYields(r) \/ AgentStops(r) \/ AgentRaises(r)

Framework(r) == \/ Disconnect(r) \/ CancelInGenerator(r) \/ CancelAtYield(r)
                \/ CancelOutside(r)

Abort(a) == ClientAborts(a) \/ MarkAbort(a) \/ SignalAgent(a)

Next == \/ \E r \in Requests : Handler(r) \/ Stream(r) \/ Agent(r) \/ Framework(r)
        \/ \E a \in AbortCalls : Abort(a)

Spec == Init /\ [][Next]_vars

\* The event loop runs every handler that can run, a client that is still there
\* reads what it is sent, and an abort call that was sent arrives.  Nothing is
\* asked of the provider: an agent yields only when it has just started (its
\* default skill is announced before any provider call) or its cancel flag is
\* set (core.py races every provider and tool await against the flag).
ServerFairness ==
    /\ \A r \in Requests :
         /\ WF_vars(Stream(r))
         /\ WF_vars(stage[r] # "new" /\ Handler(r))
         /\ WF_vars(agent[r] \in {"fresh", "cancelled"} /\ AgentYields(r))
    /\ \A a \in AbortCalls : WF_vars(MarkAbort(a) \/ SignalAgent(a))

FairSpec == Spec /\ ServerFairness

-----------------------------------------------------------------------------
(* Properties *)

\* Every variable keeps its type.
TypeOK ==
    /\ active \in [Sessions -> Requests \cup {NoRun}]
    /\ stage \in [Requests -> Stages]
    /\ bound \subseteq Requests
    /\ abortEvent \subseteq Requests
    /\ agent \in [Requests -> AgentStates]
    /\ connected \subseteq Requests
    /\ terminal \in [Requests -> Reasons]
    /\ sent \in [Requests -> Seq(Events)]
    /\ call \in [AbortCalls -> {UnsentCall} \cup SentCalls]

\* RunCoordinator's purpose: two requests of one session are never executed at
\* the same time, whatever the interleaving of their handlers, their streams'
\* cleanup, their clients' disconnections and the aborts.
OneRunPerSession ==
    \A r, q \in Requests :
        (stage[r] \in Executing /\ stage[q] \in Executing /\ SessionOf[r] = SessionOf[q])
            => r = q

\* The entry of the table is the request's own from start to finish: an entry is
\* never taken over, and a late finish never removes a successor's entry.
EntryIsOwn ==
    \A r \in Requests : stage[r] \in Holding <=> active[SessionOf[r]] = r

\* The wire protocol the browser relies on to persist a conversation: a stream
\* has at most one done, nothing follows it, and the conversation_state event is
\* right before it, on the normal, the aborted and the error path alike.
StateBeforeDone ==
    \A r \in Requests : \A i \in 1..Len(sent[r]) :
        sent[r][i] = "done" => i = Len(sent[r]) /\ i > 1 /\ sent[r][i - 1] = "state"

\* An agent is cancelled only for a run whose own abort_event is set: signalling
\* outside the lock never reaches the agent of another run.
CancelledWasAborted ==
    \A r \in Requests : agent[r] = "cancelled" => r \in abortEvent

\* An abort that names its request never stops another one, however late it
\* arrives.
NamedAbortHitsItsRun ==
    \A a \in AbortCalls :
        (call[a].named /\ call[a].hit # NoRun) => call[a].hit = call[a].target

\* The table "only tracks currently executing request objects" (the docstring of
\* RunCoordinator).
OnlyExecutingTracked ==
    \A s \in Sessions : active[s] # NoRun => stage[active[s]] \in Executing

\* Once a run is aborted no agent event of it reaches the client, and unless the
\* agent raised its stream ends as aborted.
AbortSilencesStep ==
    \A r \in abortEvent :
        /\ sent'[r] # sent[r] => sent'[r][Len(sent'[r])] # "delta"
        /\ (terminal[r] = "none" /\ terminal'[r] # "none")
              => terminal'[r] \in {"aborted", "error"}
AbortSilences == [][AbortSilencesStep]_vars

\* A run that is aborted gives its slot back even when the provider never answers.
AbortFreesSlot ==
    \A r \in Requests :
        (r \in abortEvent /\ stage[r] \in Holding) ~> active[SessionOf[r]] # r

\* The provider and the tools always answer, within their own timeouts.
AgentsAnswer == \A r \in Requests : WF_vars(Agent(r))

\* With agents that answer a run gives its slot back, whether it completes, fails,
\* is aborted or loses its client.
SlotIsFreed ==
    AgentsAnswer =>
        \A r \in Requests : stage[r] = "starting" ~> active[SessionOf[r]] # r

\* The table implements the abstract slot.
Slot == INSTANCE RunSlot WITH
            holder <- active,
            served <- {r \in Requests : stage[r] \notin {"new", "rejected"}}
ImplementsSlot == Slot!SlotSpec
=============================================================================
