------------------------------ MODULE AgentLoop ------------------------------
(***************************************************************************)
(* One conversation across the requests that continue it: the browser's    *)
(* copy, the request-local store rebuilt from it, and the ReAct loop of    *)
(* AgentCore (server/agent/core.py) between them.  The model provider and  *)
(* the tools answer as they like; the cancel flag may be set at any time.  *)
(***************************************************************************)
EXTENDS ContextWindow

CONSTANTS
    DefaultSkills,   \* AgentConfig.default_skills, a sequence without repeats
    ExplicitSkills,  \* the choices of skills a user selects or mentions
    MaxSelected,     \* bound on the length of such a choice
    MaxRequests,     \* bound on the requests of the conversation
    MaxTurns,        \* AgentConfig.max_turns
    MaxToolRetries,  \* AgentConfig.max_tool_retries
    Tools,           \* subset of {"plain", "image", "load", "remove"}
    MaxCalls,        \* MaxCalls[t]: bound on the tool calls of turn t
    ProviderIds,     \* TRUE: the provider names its calls, FALSE: it does not
    StrictFinal      \* TRUE: a provider given no tools calls none

ASSUME AgentAssumption ==
    /\ DefaultSkills \in Seq(Skills)
    /\ \A chosen \in ExplicitSkills : chosen \in Seq(Skills) /\ Len(chosen) <= MaxSelected
    /\ MaxTurns \in Nat \ {0}
    /\ MaxToolRetries \in Nat /\ MaxRequests \in Nat
    /\ MaxCalls \in [1..MaxTurns -> Nat]
    /\ ProviderIds \in BOOLEAN

VARIABLES
    saved,       \* the runtimeContext the browser holds
    store,       \* InMemoryConversationStore of the current request
    request,     \* number of requests sent so far
    stage,       \* where the loop stands
    toInject,    \* skills still to inject: <<name, source>>
    turn,        \* the loop variable
    failures,    \* consecutive_failures
    forceFinal,  \* force_final
    calls,       \* the calls of this turn
    next,        \* index of the call to execute
    images,      \* keys of ephemeral_after_call
    hasImages,   \* this turn's tools returned images
    cancel,      \* _ActiveRun.cancel is set
    unanswered,  \* ids of tool_call events without a tool_result event
    finish       \* the reason of the done event

vars == <<saved, store, request, stage, toInject, turn, failures, forceFinal,
          calls, next, images, hasImages, cancel, unanswered, finish>>

Stages == {"idle", "injecting", "turn", "model", "calls", "executing", "over"}
Reasons == {"none", "complete", "error", "aborted", "tool_retry_limit", "max_turns"}

Defaults == {DefaultSkills[i] : i \in DOMAIN DefaultSkills}
Running == stage \notin {"idle", "over"}

Init ==
    /\ saved = EmptyStore /\ store = EmptyStore
    /\ request = 0 /\ stage = "idle" /\ toInject = <<>>
    /\ turn = 0 /\ failures = 0 /\ forceFinal = FALSE
    /\ calls = <<>> /\ next = 1 /\ images = {} /\ hasImages = FALSE
    /\ cancel = FALSE /\ unanswered = {} /\ finish = "none"

\* The done event; nothing of the loop runs after it.
Done(reason) == stage' = "over" /\ finish' = reason

-----------------------------------------------------------------------------
(* The browser *)

UserText == Text("user", "none", 1)

\* sendMessage: the request carries the context held so far, and the browser
\* keeps that context with the user's message appended to it.
Submit ==
    /\ stage = "idle"
    /\ request < MaxRequests
    /\ \E explicit \in ExplicitSkills, others \in SeqOf(Skills \ Defaults, MaxSelected) :
         /\ others = SelectSeq(explicit, LAMBDA s : s \notin Defaults)
         /\ toInject' = [i \in DOMAIN DefaultSkills |-> <<DefaultSkills[i], "default">>]
                        \o [i \in DOMAIN others |-> <<others[i], "explicit">>]
    /\ saved' = AddMessage(saved, UserText)
    /\ store' = Seeded(saved)
    /\ request' = request + 1
    /\ stage' = "injecting"
    /\ turn' = 0 /\ failures' = 0 /\ forceFinal' = FALSE
    /\ calls' = <<>> /\ next' = 1 /\ images' = {} /\ hasImages' = FALSE
    /\ cancel' = FALSE /\ unanswered' = {} /\ finish' = "none"

\* The conversation_state event reaches the browser.
Deliver ==
    /\ stage = "over"
    /\ saved' = store
    /\ stage' = "idle"
    /\ UNCHANGED <<store, request, toInject, turn, failures, forceFinal, calls,
                   next, images, hasImages, cancel, unanswered, finish>>

\* The response is lost, or stopped by the user: the browser keeps what it has.
LoseStream ==
    /\ stage # "idle"
    /\ stage' = "idle"
    /\ UNCHANGED <<saved, store, request, toInject, turn, failures, forceFinal,
                   calls, next, images, hasImages, cancel, unanswered, finish>>

\* AgentCore.abort.
Cancel ==
    /\ Running
    /\ ~cancel
    /\ cancel' = TRUE
    /\ UNCHANGED <<saved, store, request, stage, toInject, turn, failures,
                   forceFinal, calls, next, images, hasImages, unanswered, finish>>

-----------------------------------------------------------------------------
(* AgentCore._stream *)

\* Default skills are rendered with the runtime identity of the conversation.
InjectNext ==
    /\ stage = "injecting"
    /\ toInject # <<>>
    /\ LET name == Head(toInject)[1]
           isDefault == Head(toInject)[2] = "default"
       IN  store' = InjectSkill(store, name,
                                SkillInjection(name, "user", NoCall, isDefault))
    /\ toInject' = Tail(toInject)
    /\ UNCHANGED <<saved, request, stage, turn, failures, forceFinal, calls, next,
                   images, hasImages, cancel, unanswered, finish>>

AddUserMessage ==
    /\ stage = "injecting"
    /\ toInject = <<>>
    /\ ~cancel
    /\ store' = AddMessage(store, UserText)
    /\ stage' = "turn"
    /\ turn' = 1
    /\ UNCHANGED <<saved, request, toInject, failures, forceFinal, calls, next,
                   images, hasImages, cancel, unanswered, finish>>

\* prepare_context; the summary provider may fail, and is not cancelled.
PrepareContext ==
    /\ stage = "turn"
    /\ ~cancel
    /\ \E summaryOk \in BOOLEAN :
         store' = ReplaceMessages(store, Prepare(store.messages, summaryOk))
    /\ stage' = "model"
    /\ UNCHANGED <<saved, request, toInject, turn, failures, forceFinal, calls,
                   next, images, hasImages, cancel, unanswered, finish>>

\* Mutant of LeaveCancelled: tools and the provider are awaited without a race.
LeaveCancelledBetween ==
    /\ cancel
    /\ \/ stage = "injecting" /\ toInject = <<>>
       \/ stage = "turn"
       \/ stage = "calls" /\ next <= Len(calls)
    /\ Done("aborted")
    /\ UNCHANGED <<saved, store, request, toInject, turn, failures, forceFinal,
                   calls, next, images, hasImages, cancel, unanswered>>

\* The checks of the cancel flag, and the awaits that race against it.
LeaveCancelled ==
    /\ cancel
    /\ \/ stage = "injecting" /\ toInject = <<>>
       \/ stage \in {"turn", "model", "executing"}
       \/ stage = "calls" /\ next <= Len(calls)
    /\ Done("aborted")
    /\ UNCHANGED <<saved, store, request, toInject, turn, failures, forceFinal,
                   calls, next, images, hasImages, cancel, unanswered>>

\* The provider raises, or resolving the workspace does.
Fail ==
    /\ stage \in {"model", "executing"}
    /\ Done("error")
    /\ UNCHANGED <<saved, store, request, toInject, turn, failures, forceFinal,
                   calls, next, images, hasImages, cancel, unanswered>>

\* Messages with a text per tool result that came with images in this run.
InsertEphemeral(messages) ==
    FlattenSeq([i \in DOMAIN messages |->
        IF messages[i].role = "tool" /\ messages[i].reply \in images
        THEN <<messages[i], Text("user", "none", 1)>> ELSE <<messages[i]>>])

\* What the provider is asked to answer.
ProviderView == InsertEphemeral(store.messages)

\* A provider that does not name its calls gets them numbered within the run.
CallId(index) == <<IF ProviderIds THEN request ELSE 0, turn, index>>

\* What the model may call: a tool, and the skill it names if it takes one.
Callable == {<<t, NoSkill>> : t \in Tools \cap {"plain", "image"}}
            \cup (Tools \cap {"load", "remove"}) \X Skills

CallSequences == UNION {[1..n -> Callable] : n \in 0..MaxCalls[turn]}

NumberCalls(chosen) ==
    [i \in DOMAIN chosen |->
        [tool |-> chosen[i][1], skill |-> chosen[i][2], id |-> CallId(i)]]

Ids(cs) == [i \in DOMAIN cs |-> cs[i].id]

\* The assistant message, unless text, calls and reasoning are all empty.
PersistTurn(size, chosen, reasoned) ==
    IF size = 0 /\ chosen = <<>> /\ ~reasoned THEN store
    ELSE AddMessage(store, Assistant(size, Ids(NumberCalls(chosen))))

Limit == Text("assistant", "agent_limit", 1)

\* Mutant of Answer: an empty answer is asked for again, and no turn is counted.
AnswerAgain ==
    /\ stage = "model" /\ ~forceFinal /\ ~cancel
    /\ \/ /\ \E reasoned \in BOOLEAN : store' = PersistTurn(1, <<>>, reasoned)
          /\ Done("complete")
       \/ /\ stage' = "turn"
          /\ UNCHANGED <<store, finish>>
    /\ UNCHANGED <<saved, request, toInject, turn, failures, forceFinal, calls,
                   next, images, hasImages, cancel, unanswered>>

\* A completed turn without tool calls ends the run.
Answer ==
    /\ stage = "model" /\ ~forceFinal /\ ~cancel
    /\ \E size \in {0, 1}, reasoned \in BOOLEAN :
         /\ store' = PersistTurn(size, <<>>, reasoned)
         /\ Done(IF size = 0 THEN "error" ELSE "complete")
    /\ UNCHANGED <<saved, request, toInject, turn, failures, forceFinal, calls,
                   next, images, hasImages, cancel, unanswered>>

\* The turn after the retry limit: no tools are offered, whatever comes is last.
FinalAnswer ==
    /\ stage = "model" /\ forceFinal /\ ~cancel
    /\ \E size \in {0, 1}, chosen \in CallSequences, reasoned \in BOOLEAN :
         /\ StrictFinal => chosen = <<>>
         /\ LET kept == PersistTurn(size, chosen, reasoned)
            IN  store' = IF size = 0 \/ chosen # <<>> THEN AddMessage(kept, Limit)
                         ELSE kept
    /\ Done("tool_retry_limit")
    /\ UNCHANGED <<saved, request, toInject, turn, failures, forceFinal, calls,
                   next, images, hasImages, cancel, unanswered>>

CallTools ==
    /\ stage = "model" /\ ~forceFinal /\ ~cancel
    /\ \E size \in {0, 1}, chosen \in CallSequences \ {<<>>} :
         /\ store' = PersistTurn(size, chosen, FALSE)
         /\ calls' = NumberCalls(chosen)
    /\ next' = 1
    /\ hasImages' = FALSE
    /\ stage' = "calls"
    /\ UNCHANGED <<saved, request, toInject, turn, failures, forceFinal, images,
                   cancel, unanswered, finish>>

\* The tool_call event.
AnnounceCall ==
    /\ stage = "calls"
    /\ next <= Len(calls)
    /\ ~cancel
    /\ unanswered' = unanswered \cup {calls[next].id}
    /\ stage' = "executing"
    /\ UNCHANGED <<saved, store, request, toInject, turn, failures, forceFinal,
                   calls, next, images, hasImages, cancel, finish>>

\* Mutants of Persist: a loaded skill is not registered; default skills are not
\* protected; a failed call gets no reply.
PersistUnregistered(call, error) ==
    LET reply == ToolResult(call.id, error)
    IN  IF ~error /\ call.tool = "load"
        THEN AddMessage(store, SkillInjection(call.skill, "tool", call.id, FALSE))
        ELSE AddMessage(store, reply)

PersistUnprotected(call, error) ==
    LET reply == ToolResult(call.id, error)
    IN  IF ~error /\ call.tool = "remove"
        THEN AddMessage(RemoveSessionSkill(store, call.skill), reply)
        ELSE AddMessage(store, reply)

PersistSuccesses(call, error) ==
    IF error THEN store ELSE AddMessage(store, ToolResult(call.id, FALSE))

\* load_skill and remove_skill decide on the active skills they read.
Loads(call) == call.tool = "load" /\ call.skill \notin store.skills

Removes(call) ==
    call.tool = "remove" /\ call.skill \notin Defaults /\ call.skill \in store.skills

\* _persist_tool_result after ToolRegistry.execute: the effect of a tool on the store.
Persist(call, error) ==
    LET reply == ToolResult(call.id, error)
    IN  IF ~error /\ Loads(call)
        THEN InjectSkill(store, call.skill,
                         SkillInjection(call.skill, "tool", call.id, FALSE))
        ELSE AddMessage(IF ~error /\ Removes(call)
                        THEN RemoveSessionSkill(store, call.skill) ELSE store, reply)

\* Mutant of ExecuteCall: a success does not reset the count of failures.
ExecuteCallCounting ==
    /\ stage = "executing"
    /\ ~cancel
    /\ \E error \in BOOLEAN :
         /\ store' = Persist(calls[next], error)
         /\ failures' = IF error THEN failures + 1 ELSE failures
         /\ hasImages' = (hasImages \/ (calls[next].tool = "image" /\ ~error))
    /\ unanswered' = unanswered \ {calls[next].id}
    /\ next' = next + 1
    /\ stage' = "calls"
    /\ UNCHANGED <<saved, request, toInject, turn, forceFinal, calls, images,
                   cancel, finish>>

\* The tool answers, with an error when it is unknown, invalid, late or fails.
ExecuteCall ==
    /\ stage = "executing"
    /\ ~cancel
    /\ \E error \in BOOLEAN :
         /\ store' = Persist(calls[next], error)
         /\ failures' = IF error THEN failures + 1 ELSE 0
         /\ hasImages' = (hasImages \/ (calls[next].tool = "image" /\ ~error))
    /\ unanswered' = unanswered \ {calls[next].id}
    /\ next' = next + 1
    /\ stage' = "calls"
    /\ UNCHANGED <<saved, request, toInject, turn, forceFinal, calls, images,
                   cancel, finish>>

Control == Text("user", "agent_control", 1)

\* Mutants of EndTurn: one turn too many; images follow the first call.
EndTurnLate ==
    /\ stage = "calls"
    /\ next > Len(calls)
    /\ IF turn > MaxTurns THEN Done("max_turns") /\ UNCHANGED turn
       ELSE stage' = "turn" /\ turn' = turn + 1 /\ UNCHANGED finish
    /\ UNCHANGED <<saved, store, request, toInject, failures, forceFinal, calls,
                   next, images, hasImages, cancel, unanswered>>

EndTurnImagesFirst ==
    /\ stage = "calls"
    /\ next > Len(calls)
    /\ images' = IF hasImages THEN images \cup {calls[1].id} ELSE images
    /\ IF turn = MaxTurns THEN Done("max_turns") /\ UNCHANGED turn
       ELSE stage' = "turn" /\ turn' = turn + 1 /\ UNCHANGED finish
    /\ UNCHANGED <<saved, store, request, toInject, failures, forceFinal, calls,
                   next, hasImages, cancel, unanswered>>

\* After the last call: the retry limit, then the turn limit, then another turn.
EndTurn ==
    /\ stage = "calls"
    /\ next > Len(calls)
    /\ images' = IF hasImages THEN images \cup {calls[Len(calls)].id} ELSE images
    /\ LET limited == failures > MaxToolRetries
           told == IF limited THEN AddMessage(store, Control) ELSE store
       IN  /\ forceFinal' = (forceFinal \/ limited)
           /\ IF turn = MaxTurns
              THEN /\ store' = AddMessage(told, Limit)
                   /\ Done("max_turns")
                   /\ UNCHANGED turn
              ELSE /\ store' = told
                   /\ stage' = "turn"
                   /\ turn' = turn + 1
                   /\ UNCHANGED finish
    /\ UNCHANGED <<saved, request, toInject, failures, calls, next, hasImages,
                   cancel, unanswered>>

-----------------------------------------------------------------------------
Loop == InjectNext \/ AddUserMessage \/ PrepareContext \/ LeaveCancelled
        \/ AnnounceCall \/ EndTurn
Outside == Fail \/ Answer \/ FinalAnswer \/ CallTools \/ ExecuteCall

Next == Submit \/ Deliver \/ LoseStream \/ Cancel \/ Loop \/ Outside

Spec == Init /\ [][Next]_vars

\* The loop's own steps are taken by the event loop; the summary provider is
\* bounded by its timeout, so that prepare_context returns.
LoopFairness == WF_vars(Loop)

FairSpec == Spec /\ LoopFairness

-----------------------------------------------------------------------------
(* Properties *)

IsStore(s) ==
    /\ \A i \in DOMAIN s.messages : IsMessage(s.messages[i])
    /\ s.skills \subseteq Skills

\* Every variable keeps its type.
TypeOK ==
    /\ IsStore(saved) /\ IsStore(store)
    /\ request \in 0..MaxRequests /\ turn \in 0..MaxTurns
    /\ stage \in Stages /\ finish \in Reasons
    /\ failures \in Nat /\ next \in 1..(Len(calls) + 1)
    /\ {forceFinal, hasImages, cancel} \subseteq BOOLEAN
    /\ images \cup unanswered
          \subseteq (0..MaxRequests) \X (1..MaxTurns) \X Nat

\* Positions at which a conversation carries the instructions of a skill.
Injections(messages, s) == {i \in DOMAIN messages : Injects(messages[i], s)}

SkillsMatch(s) ==
    \A k \in Skills :
        Cardinality(Injections(s.messages, k)) = IF k \in s.skills THEN 1 ELSE 0

\* The set of active skills and the instructions in the conversation never part:
\* an active skill's text is there exactly once, a removed one's is gone, whatever
\* the sequence of loads, removals, compactions and round trips to the browser.
SkillBookkeeping == SkillsMatch(saved) /\ (stage # "idle" => SkillsMatch(store))

\* The model never works without the default skills: no tool call of its own and
\* no context the browser sends back removes them.
DefaultsInForce ==
    stage \in {"turn", "model", "calls", "executing"} => Defaults \subseteq store.skills

\* A request sent on a history the provider accepts asks it only about histories
\* it accepts: a call's replies directly follow it, after compaction and with
\* the images of earlier turns inserted.
ProviderViewClosed ==
    (stage = "model" /\ Closed(saved.messages)) => Closed(ProviderView)

\* A run that completes or stops at a limit has answered every call it announced
\* and leaves a history the provider accepts, to be continued.
FinishedRunsAreClosed ==
    (finish \in {"complete", "max_turns", "tool_retry_limit"} /\ Closed(saved.messages))
        => unanswered = {} /\ (stage = "over" => Closed(store.messages))

\* Tool replies of the current run: those after the user's message.
RunReplies(messages) ==
    LET texts == {i \in DOMAIN messages : messages[i].kind = "none" /\ messages[i].role = "user"}
    IN  {i \in DOMAIN messages : messages[i].role = "tool" /\ \A t \in texts : t < i}

\* Failures since the last tool that succeeded, as the conversation shows them.
TrailingErrors(messages) ==
    LET replies == RunReplies(messages)
        successes == {i \in replies : ~messages[i].error}
    IN  Cardinality({i \in replies : \A j \in successes : j < i})

\* The counter never strays from the failures the conversation shows: the last
\* turn is forced exactly when more of them are trailing than may be retried, and
\* no tool runs in that turn.
RetryLimitHolds ==
    /\ stage = "model" =>
          (forceFinal <=> TrailingErrors(store.messages) > MaxToolRetries)
    /\ stage \in {"calls", "executing"} => ~forceFinal

\* A default skill in force carries the identity of the conversation.
DefaultsKeepIdentity ==
    stage = "model" =>
        \A i \in DOMAIN store.messages :
            (IsInjection(store.messages[i]) /\ store.messages[i].skill \in Defaults)
                => store.messages[i].runtime

\* Every call a provider is shown has its replies.
ProviderSeesReplies == stage = "model" => Closed(ProviderView)

\* Aborting ends a run even when the provider or a tool never answers.
AbortEndsRun == (Running /\ cancel) ~> ~Running

\* The main provider and the tools answer or fail, within their own timeouts.
OthersAnswer == WF_vars(Outside)

\* With a provider and tools that answer, every run ends.
RunEnds == OthersAnswer => (Running ~> ~Running)
=============================================================================
