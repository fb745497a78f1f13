--------------------------- MODULE AgentLoopProofs ---------------------------
(***************************************************************************)
(* What holds of the ReAct loop for every catalogue of skills, every       *)
(* budget, every limit and every length of a conversation.  The default    *)
(* skills stay in force, no tool runs in the turn forced by the retry      *)
(* limit, and a run that ends on its own account has answered every call   *)
(* it announced: for these, compaction and the seeding of a store are used *)
(* only through what they do to the set of active skills.  The rest is     *)
(* about the messages themselves, through every operation on them: each    *)
(* active skill's instructions are there exactly once, each reply belongs  *)
(* to a call, and a run that ends on its own account leaves no call open.  *)
(***************************************************************************)
EXTENDS AgentLoop, ContextWindowProofs, FiniteSetTheorems

-----------------------------------------------------------------------------
(* The invariant *)

\* The stages in which the model works.
Working == {"turn", "model", "calls", "executing"}

IsPending(ts) == ts \in Seq(Skills \X {"default", "explicit"})

Pending(ts) == {ts[i][1] : i \in DOMAIN ts}

\* What is known of a store without looking at its messages.
IsRecord(s) == DOMAIN s = {"messages", "skills"}

\* A default skill is in force or still to be injected.
DefaultsInv ==
    /\ IsRecord(saved) /\ IsRecord(store)
    /\ IsPending(toInject)
    /\ stage = "injecting" => Defaults \subseteq store.skills \cup Pending(toInject)
    /\ stage \in Working => Defaults \subseteq store.skills

\* Where the loop stands decides which calls are announced and not answered.
LoopInv ==
    /\ stage \in Stages /\ finish \in Reasons
    /\ forceFinal \in BOOLEAN
    /\ turn \in 0..MaxTurns
    /\ stage \in Working => turn >= 1
    /\ request \in 0..MaxRequests
    /\ Running => finish = "none"
    /\ stage \in {"injecting", "turn", "model", "calls"} => unanswered = {}
    /\ stage = "executing" => unanswered = {calls[next].id}
    /\ stage \in {"calls", "executing"} => ~forceFinal
    /\ finish \in {"complete", "max_turns", "tool_retry_limit"} => unanswered = {}

\* No tool runs in the turn that the retry limit forces.
NoToolsWhenForced == stage \in {"calls", "executing"} => ~forceFinal

\* A run that ends on its own account has answered every call it announced.
AnsweredWhenFinished ==
    finish \in {"complete", "max_turns", "tool_retry_limit"} => unanswered = {}

\* The limits on requests and turns are never passed.
WithinLimits == request \in 0..MaxRequests /\ turn \in 0..MaxTurns

-----------------------------------------------------------------------------
(* The operations of the store, seen from its active skills *)

\* Appending a message or replacing all of them changes no active skill.
LEMMA MessagesOnly ==
    ASSUME NEW s, IsRecord(s)
    PROVE  /\ \A m : IsRecord(AddMessage(s, m)) /\ AddMessage(s, m).skills = s.skills
           /\ \A ms : IsRecord(ReplaceMessages(s, ms))
                      /\ ReplaceMessages(s, ms).skills = s.skills
BY DEF IsRecord, AddMessage, ReplaceMessages

\* InjectSkill adds a skill, RemoveSessionSkill takes away no other one.
LEMMA SkillsOnly ==
    ASSUME NEW s, IsRecord(s), NEW k
    PROVE  /\ \A m : /\ IsRecord(InjectSkill(s, k, m))
                     /\ InjectSkill(s, k, m).skills = s.skills \cup {k}
           /\ IsRecord(RemoveSessionSkill(s, k))
           /\ s.skills \ {k} \subseteq RemoveSessionSkill(s, k).skills
<1> DEFINE messages == s.messages
           kept == {i \in DOMAIN messages :
                        Injects(messages[i], k) => messages[i].role = "tool"}
           Neutral(m) == IF Injects(m, k) THEN Redacted(m) ELSE m
           rest == Retain(messages, kept, Neutral)
<1>1. RemoveSessionSkill(s, k) =
          IF k \notin s.skills THEN s ELSE Store(rest, s.skills \ {k})
  BY DEF RemoveSessionSkill
<1> HIDE DEF rest
<1>2. IsRecord(RemoveSessionSkill(s, k))
      /\ s.skills \ {k} \subseteq RemoveSessionSkill(s, k).skills
  BY <1>1 DEF IsRecord, Store
<1>3. ASSUME NEW m
      PROVE  IsRecord(InjectSkill(s, k, m))
             /\ InjectSkill(s, k, m).skills = s.skills \cup {k}
  <2>1. CASE k \in s.skills
    BY <2>1 DEF IsRecord, InjectSkill
  <2>2. CASE k \notin s.skills
    BY <2>2 DEF IsRecord, InjectSkill, Store
  <2> QED BY <2>1, <2>2
<1> QED BY <1>2, <1>3

\* A seeded store has the active skills of the context it was made from.
LEMMA SeededSkills ==
    ASSUME NEW s
    PROVE  IsRecord(Seeded(s)) /\ Seeded(s).skills = s.skills
<1> DEFINE trusted == TrustedMessages(s.messages, s.skills)
<1>1. Seeded(s) = [messages |-> trusted, skills |-> s.skills]
  BY DEF Seeded, Store
<1> HIDE DEF trusted
<1> QED BY <1>1 DEF IsRecord

\* Whatever a tool answers, the store keeps the default skills.
LEMMA PersistKeepsDefaults ==
    ASSUME IsRecord(store), NEW call, NEW error \in BOOLEAN,
           Defaults \subseteq store.skills
    PROVE  IsRecord(Persist(call, error)) /\ Defaults \subseteq Persist(call, error).skills
<1> DEFINE reply == ToolResult(call.id, error)
           text == SkillInjection(call.skill, "tool", call.id, FALSE)
<1>1. \/ Persist(call, error) = AddMessage(store, reply)
      \/ Persist(call, error) = InjectSkill(store, call.skill, text)
      \/ Removes(call) /\ Persist(call, error) =
                      AddMessage(RemoveSessionSkill(store, call.skill), reply)
  <2>1. CASE error
    BY <2>1 DEF Persist
  <2>2. CASE ~error /\ Loads(call)
    BY <2>2 DEF Persist
  <2>3. CASE ~error /\ Removes(call)
    BY <2>3 DEF Persist
  <2>4. CASE ~error /\ ~Loads(call) /\ ~Removes(call)
    BY <2>4 DEF Persist
  <2> QED BY <2>1, <2>2, <2>3, <2>4
<1> HIDE DEF reply, text
<1>2. CASE Persist(call, error) = AddMessage(store, reply)
  BY <1>2, MessagesOnly
<1>3. CASE Persist(call, error) = InjectSkill(store, call.skill, text)
  <2> DEFINE loaded == InjectSkill(store, call.skill, text)
  <2>1. IsRecord(loaded) /\ loaded.skills = store.skills \cup {call.skill}
    <3>1. \A m : /\ IsRecord(InjectSkill(store, call.skill, m))
                 /\ InjectSkill(store, call.skill, m).skills
                       = store.skills \cup {call.skill}
      BY SkillsOnly
    <3> QED BY <3>1
  <2> HIDE DEF loaded
  <2> QED BY <1>3, <2>1 DEF loaded
<1>4. CASE Removes(call) /\ Persist(call, error) =
                        AddMessage(RemoveSessionSkill(store, call.skill), reply)
  <2> DEFINE rest == RemoveSessionSkill(store, call.skill)
  <2>1. IsRecord(rest) /\ store.skills \ {call.skill} \subseteq rest.skills
    BY SkillsOnly
  <2>2. Defaults \subseteq rest.skills
    BY <1>4, <2>1 DEF Removes
  <2> HIDE DEF rest
  <2>3. IsRecord(AddMessage(rest, reply)) /\ AddMessage(rest, reply).skills = rest.skills
    BY <2>1, MessagesOnly
  <2> QED BY <1>4, <2>2, <2>3 DEF rest
<1> QED BY <1>1, <1>2, <1>3, <1>4

-----------------------------------------------------------------------------
(* The default skills *)

\* A request starts with every default skill in the queue.
LEMMA QueueHoldsDefaults ==
    ASSUME NEW others \in SeqOf(Skills \ Defaults, MaxSelected)
    PROVE  LET queue == [i \in DOMAIN DefaultSkills |-> <<DefaultSkills[i], "default">>]
                        \o [i \in DOMAIN others |-> <<others[i], "explicit">>]
           IN  IsPending(queue) /\ Defaults \subseteq Pending(queue)
<1> DEFINE Entry == Skills \X {"default", "explicit"}
           first == [i \in DOMAIN DefaultSkills |-> <<DefaultSkills[i], "default">>]
           second == [i \in DOMAIN others |-> <<others[i], "explicit">>]
<1>1. DefaultSkills \in Seq(Skills)
  BY AgentAssumption
<1>2. first \in Seq(Entry) /\ Len(first) = Len(DefaultSkills)
  <2>1. \A i \in 1..Len(DefaultSkills) : <<DefaultSkills[i], "default">> \in Entry
    BY <1>1
  <2>2. DOMAIN DefaultSkills = 1..Len(DefaultSkills) /\ Len(DefaultSkills) \in Nat
    BY <1>1
  <2>3. first \in [1..Len(DefaultSkills) -> Entry]
    BY <2>1, <2>2
  <2> HIDE DEF first, Entry
  <2> QED BY <2>2, <2>3
<1>3. PICK n \in 0..MaxSelected : others \in [1..n -> Skills \ Defaults]
  BY DEF SeqOf
<1>4. second \in Seq(Entry)
  <2>1. n \in Nat
    BY <1>3
  <2>2. second \in [1..n -> Entry]
    BY <1>3
  <2> HIDE DEF second, Entry
  <2> QED BY <2>1, <2>2
<1>5. \A i \in 1..Len(DefaultSkills) : first[i][1] = DefaultSkills[i]
  BY <1>1
<1> DEFINE queue == first \o second
<1> HIDE DEF first, second, Entry
<1>6. queue \in Seq(Entry)
      /\ Len(queue) = Len(first) + Len(second)
      /\ \A i \in 1..Len(first) : queue[i] = first[i]
  BY <1>2, <1>4
<1>7. \A i \in 1..Len(DefaultSkills) : i \in DOMAIN queue /\ queue[i][1] = DefaultSkills[i]
  <2>1. Len(second) \in Nat /\ Len(DefaultSkills) \in Nat /\ DOMAIN queue = 1..Len(queue)
    BY <1>1, <1>4, <1>6
  <2> QED BY <1>2, <1>5, <1>6, <2>1
<1>8. Defaults \subseteq Pending(queue)
  BY <1>1, <1>7 DEF Defaults, Pending
<1> QED BY <1>6, <1>8 DEF IsPending, Entry, first, second

\* Taking the head of the queue loses no other skill of it.
LEMMA QueueTail ==
    ASSUME NEW ts, IsPending(ts), ts # <<>>
    PROVE  IsPending(Tail(ts)) /\ Pending(ts) \subseteq Pending(Tail(ts)) \cup {Head(ts)[1]}
<1> DEFINE Entry == Skills \X {"default", "explicit"}
<1>1. ts \in Seq(Entry)
  BY DEF IsPending
<1> HIDE DEF Entry
<1>2. /\ Tail(ts) \in Seq(Entry)
      /\ Len(ts) \in Nat /\ Len(ts) >= 1
      /\ Len(Tail(ts)) = Len(ts) - 1
      /\ DOMAIN ts = 1..Len(ts) /\ DOMAIN Tail(ts) = 1..(Len(ts) - 1)
      /\ Head(ts) = ts[1]
      /\ \A i \in 1..(Len(ts) - 1) : Tail(ts)[i] = ts[i + 1]
  BY <1>1
<1>3. ASSUME NEW i \in DOMAIN ts
      PROVE  ts[i][1] \in Pending(Tail(ts)) \cup {Head(ts)[1]}
  <2>1. CASE i = 1
    BY <1>2, <2>1
  <2>2. CASE i # 1
    <3>1. i - 1 \in DOMAIN Tail(ts) /\ Tail(ts)[i - 1] = ts[i]
      BY <1>2, <2>2
    <3> QED BY <3>1 DEF Pending
  <2> QED BY <2>1, <2>2
<1> QED BY <1>2, <1>3 DEF IsPending, Pending, Entry

\* The default skills are queued, then injected, then in force until the run ends.
LEMMA DefaultsStep ==
    ASSUME DefaultsInv, stage \in Stages, [Next]_vars
    PROVE  DefaultsInv'
<1> USE DEF DefaultsInv
<1>1. CASE Submit
  <2>1. PICK others \in SeqOf(Skills \ Defaults, MaxSelected) :
            toInject' = [i \in DOMAIN DefaultSkills |-> <<DefaultSkills[i], "default">>]
                        \o [i \in DOMAIN others |-> <<others[i], "explicit">>]
    BY <1>1 DEF Submit
  <2>2. IsPending(toInject)' /\ Defaults \subseteq Pending(toInject')
    BY <2>1, QueueHoldsDefaults
  <2>3. saved' = AddMessage(saved, UserText) /\ store' = Seeded(saved)
        /\ stage' = "injecting"
    BY <1>1 DEF Submit
  <2>4. IsRecord(saved)' /\ IsRecord(store)'
    BY <2>3, MessagesOnly, SeededSkills
  <2> QED BY <2>2, <2>3, <2>4 DEF Working
<1>2. CASE InjectNext
  <2> DEFINE name == Head(toInject)[1]
             text == SkillInjection(name, "user", NoCall, Head(toInject)[2] = "default")
  <2>1. /\ stage = "injecting" /\ toInject # <<>> /\ UNCHANGED <<saved, stage>>
        /\ store' = InjectSkill(store, name, text) /\ toInject' = Tail(toInject)
    BY <1>2 DEF InjectNext
  <2> HIDE DEF text
  <2>2. IsPending(toInject)' /\ Pending(toInject) \subseteq Pending(toInject') \cup {name}
    BY <2>1, QueueTail
  <2> HIDE DEF name
  <2>3. IsRecord(store)' /\ store'.skills = store.skills \cup {name}
    BY <2>1, SkillsOnly
  <2> QED BY <2>1, <2>2, <2>3 DEF Working
<1>3. CASE AddUserMessage
  <2>1. /\ stage = "injecting" /\ toInject = <<>> /\ UNCHANGED <<saved, toInject>>
        /\ store' = AddMessage(store, UserText) /\ stage' = "turn"
    BY <1>3 DEF AddUserMessage
  <2>2. Pending(toInject) = {}
    BY <2>1 DEF Pending
  <2>3. IsRecord(store)' /\ store'.skills = store.skills
    BY <2>1, MessagesOnly
  <2> QED BY <2>1, <2>2, <2>3
<1>4. CASE PrepareContext
  <2>1. /\ stage = "turn" /\ stage' = "model" /\ UNCHANGED <<saved, toInject>>
        /\ \E ms : store' = ReplaceMessages(store, ms)
    BY <1>4 DEF PrepareContext
  <2>2. IsRecord(store)' /\ store'.skills = store.skills
    BY <2>1, MessagesOnly
  <2> QED BY <2>1, <2>2 DEF Working
<1>5. CASE ExecuteCall
  <2>1. /\ stage = "executing" /\ stage' = "calls" /\ UNCHANGED <<saved, toInject>>
        /\ \E error \in BOOLEAN : store' = Persist(calls[next], error)
    BY <1>5 DEF ExecuteCall
  <2>2. Defaults \subseteq store.skills
    BY <2>1 DEF Working
  <2>3. \A error \in BOOLEAN : /\ IsRecord(Persist(calls[next], error))
                               /\ Defaults \subseteq Persist(calls[next], error).skills
    BY <2>2, PersistKeepsDefaults
  <2> QED BY <2>1, <2>3 DEF Working
<1>6. CASE EndTurn
  <2>1. PICK told : /\ \/ told = store
                       \/ \E m : told = AddMessage(store, m)
                    /\ \/ store' = told
                       \/ \E m : store' = AddMessage(told, m)
                    /\ stage = "calls" /\ stage' \in {"over", "turn"}
                    /\ UNCHANGED <<saved, toInject>>
    <3> DEFINE told == IF failures > MaxToolRetries THEN AddMessage(store, Control)
                       ELSE store
    <3>1. /\ stage = "calls" /\ stage' \in {"over", "turn"}
          /\ UNCHANGED <<saved, toInject>>
          /\ store' = told \/ store' = AddMessage(told, Limit)
      BY <1>6 DEF EndTurn, Done
    <3> QED BY <3>1
  <2>2. IsRecord(told) /\ told.skills = store.skills
    BY <2>1, MessagesOnly
  <2>3. IsRecord(store)' /\ store'.skills = store.skills
    BY <2>1, <2>2, MessagesOnly
  <2> QED BY <2>1, <2>3 DEF Working
<1>7. CASE CallTools
  <2>1. /\ stage = "model" /\ stage' = "calls" /\ UNCHANGED <<saved, toInject>>
        /\ store' = store \/ \E m : store' = AddMessage(store, m)
    BY <1>7 DEF CallTools, PersistTurn
  <2>2. IsRecord(store)' /\ store'.skills = store.skills
    BY <2>1, MessagesOnly
  <2> QED BY <2>1, <2>2 DEF Working
<1>8. CASE Answer \/ FinalAnswer
  <2>1. /\ stage' = "over" /\ UNCHANGED <<saved, toInject>>
        /\ \E kept : /\ kept = store \/ \E m : kept = AddMessage(store, m)
                     /\ store' = kept \/ \E m : store' = AddMessage(kept, m)
    BY <1>8 DEF Answer, FinalAnswer, PersistTurn, Done
  <2>2. IsRecord(store)'
    BY <2>1, MessagesOnly
  <2> QED BY <2>1, <2>2 DEF Working
<1>9. CASE Deliver
  BY <1>9 DEF Deliver, Working
<1>10. CASE AnnounceCall
  BY <1>10 DEF AnnounceCall, Working
<1>11. CASE LoseStream \/ Cancel \/ LeaveCancelled \/ Fail
  BY <1>11 DEF LoseStream, Cancel, LeaveCancelled, Fail, Done, Working
<1>12. CASE UNCHANGED vars
  BY <1>12 DEF vars
<1> QED BY <1>1, <1>2, <1>3, <1>4, <1>5, <1>6, <1>7, <1>8, <1>9, <1>10, <1>11, <1>12
        DEF Next, Loop, Outside

-----------------------------------------------------------------------------
(* The stages of a run *)

\* Every step keeps the stages, the limits and the announced calls in line.
LEMMA LoopStep ==
    ASSUME LoopInv, [Next]_vars
    PROVE  LoopInv'
<1> USE AgentAssumption DEF LoopInv, Stages, Reasons, Working, Running
<1>1. CASE Submit
  <2>1. /\ request < MaxRequests /\ request' = request + 1
        /\ stage' = "injecting" /\ turn' = 0 /\ forceFinal' = FALSE
        /\ unanswered' = {} /\ finish' = "none"
    BY <1>1 DEF Submit
  <2>2. request' \in 0..MaxRequests /\ turn' \in 0..MaxTurns
    BY <2>1
  <2> QED BY <2>1, <2>2
<1>2. CASE Deliver \/ LoseStream \/ Cancel
  BY <1>2 DEF Deliver, LoseStream, Cancel
<1>3. CASE InjectNext
  BY <1>3 DEF InjectNext
<1>4. CASE AddUserMessage
  BY <1>4 DEF AddUserMessage
<1>5. CASE PrepareContext
  BY <1>5 DEF PrepareContext
<1>6. CASE LeaveCancelled \/ Fail
  BY <1>6 DEF LeaveCancelled, Fail, Done
<1>7. CASE Answer
  BY <1>7 DEF Answer, Done
<1>8. CASE FinalAnswer
  BY <1>8 DEF FinalAnswer, Done
<1>9. CASE CallTools
  BY <1>9 DEF CallTools
<1>10. CASE AnnounceCall
  BY <1>10 DEF AnnounceCall
<1>11. CASE ExecuteCall
  BY <1>11 DEF ExecuteCall
<1>12. CASE EndTurn
  <2>1. /\ stage = "calls" /\ forceFinal' \in BOOLEAN
        /\ UNCHANGED <<request, unanswered>>
        /\ \/ /\ turn = MaxTurns /\ stage' = "over" /\ finish' = "max_turns"
              /\ turn' = turn
           \/ /\ turn # MaxTurns /\ stage' = "turn" /\ turn' = turn + 1
              /\ finish' = finish
    BY <1>12 DEF EndTurn, Done
  <2> QED BY <2>1
<1>13. CASE UNCHANGED vars
  BY <1>13 DEF vars
<1> QED BY <1>1, <1>2, <1>3, <1>4, <1>5, <1>6, <1>7, <1>8, <1>9, <1>10, <1>11, <1>12, <1>13
        DEF Next, Loop, Outside

-----------------------------------------------------------------------------
(* Theorems *)

\* The stages of a run, the queue of skills and the announced calls stay in line
\* whatever the provider, the tools, the browser and the user's Stop do.
THEOREM AgentLoopInvariant == Spec => [](LoopInv /\ DefaultsInv)
<1>1. Init => LoopInv /\ DefaultsInv
  <2> SUFFICES ASSUME Init
               PROVE  LoopInv /\ DefaultsInv
    OBVIOUS
  <2>1. /\ stage = "idle" /\ finish = "none" /\ forceFinal = FALSE
        /\ turn = 0 /\ request = 0 /\ unanswered = {} /\ toInject = <<>>
        /\ saved = EmptyStore /\ store = EmptyStore
    BY DEF Init
  <2>2. LoopInv
    <3>1. turn \in 0..MaxTurns /\ request \in 0..MaxRequests
      BY <2>1, AgentAssumption
    <3> QED BY <2>1, <3>1 DEF LoopInv, Stages, Reasons, Working, Running
  <2>3. IsRecord(saved) /\ IsRecord(store)
    BY <2>1 DEF EmptyStore, Store, IsRecord
  <2> QED BY <2>1, <2>2, <2>3 DEF DefaultsInv, IsPending, Working
<1>2. LoopInv /\ DefaultsInv /\ [Next]_vars => (LoopInv /\ DefaultsInv)'
  <2> SUFFICES ASSUME LoopInv, DefaultsInv, [Next]_vars
               PROVE  (LoopInv /\ DefaultsInv)'
    OBVIOUS
  <2>1. stage \in Stages
    BY DEF LoopInv
  <2> QED BY <2>1, LoopStep, DefaultsStep
<1> QED BY <1>1, <1>2, PTL DEF Spec

\* The model never works without the default skills: no tool call of its own, no
\* compaction and no context the browser sends back takes one away.
THEOREM DefaultsAlwaysInForce == Spec => []DefaultsInForce
<1>1. DefaultsInv => DefaultsInForce
  BY DEF DefaultsInv, DefaultsInForce, Working
<1> QED BY <1>1, AgentLoopInvariant, PTL

\* Once the retry limit has forced the last turn, no tool runs any more.
THEOREM NoToolRunsInForcedTurn == Spec => []NoToolsWhenForced
<1>1. LoopInv => NoToolsWhenForced
  BY DEF LoopInv, NoToolsWhenForced
<1> QED BY <1>1, AgentLoopInvariant, PTL

\* A run that completes or stops at a limit has sent a tool_result event for every
\* tool_call event; only an abort or an error leaves one without.
THEOREM FinishedRunsHaveAnswered == Spec => []AnsweredWhenFinished
<1>1. LoopInv => AnsweredWhenFinished
  BY DEF LoopInv, AnsweredWhenFinished
<1> QED BY <1>1, AgentLoopInvariant, PTL

\* The loop takes at most MaxTurns turns.
THEOREM LimitsAlwaysHold == Spec => []WithinLimits
<1>1. LoopInv => WithinLimits
  BY DEF LoopInv, WithinLimits
<1> QED BY <1>1, AgentLoopInvariant, PTL

-----------------------------------------------------------------------------
(* Instructions and their skills *)

\* The instructions in ms are those of the active skills, each once, and call no tools.
Carried(ms, active) ==
    /\ \A i \in 1..Len(ms) : IsInjection(ms[i]) => ms[i].skill \in active /\ ms[i].calls = <<>>
    /\ \A i, j \in 1..Len(ms) :
          IsInjection(ms[i]) /\ IsInjection(ms[j]) /\ ms[i].skill = ms[j].skill => i = j
    /\ \A s \in active : \E i \in 1..Len(ms) : Injects(ms[i], s)

\* Messages and active skills of a store.
Sound(ms, active) ==
    IsHistory(ms) /\ Tied(ms) /\ active \subseteq Skills /\ Carried(ms, active)

LEMMA HistoryFacts ==
    ASSUME NEW ms, IsHistory(ms)
    PROVE  /\ IsSeq(ms) /\ Len(ms) \in Nat /\ DOMAIN ms = 1..Len(ms)
           /\ \A i \in 1..Len(ms) : Shaped(ms[i])
<1>1. IsSeq(ms) BY DEF IsHistory
<1>2. Len(ms) \in Nat /\ DOMAIN ms = 1..Len(ms) BY <1>1, SeqFacts
<1> QED BY <1>1, <1>2 DEF IsHistory

\* Counting instructions: one for an active skill, none for another.
LEMMA SoundMatches ==
    ASSUME NEW s, Sound(s.messages, s.skills)
    PROVE  SkillsMatch(s)
<1> DEFINE ms == s.messages
<1>1. IsHistory(ms) /\ Carried(ms, s.skills) BY DEF Sound
<1>2. DOMAIN ms = 1..Len(ms) BY <1>1, HistoryFacts
<1>3. ASSUME NEW k \in Skills, k \in s.skills
      PROVE  Cardinality(Injections(ms, k)) = 1
  <2>1. PICK i \in 1..Len(ms) : Injects(ms[i], k) BY <1>1, <1>3 DEF Carried
  <2>2. \A j \in 1..Len(ms) : Injects(ms[j], k) => j = i
    BY <1>1, <2>1 DEF Carried, Injects
  <2>3. Injections(ms, k) = {i} BY <1>2, <2>1, <2>2 DEF Injections
  <2> QED BY <2>3, FS_Singleton
<1>4. ASSUME NEW k \in Skills, k \notin s.skills
      PROVE  Cardinality(Injections(ms, k)) = 0
  <2>1. \A j \in 1..Len(ms) : ~Injects(ms[j], k) BY <1>1, <1>4 DEF Carried, Injects
  <2>2. Injections(ms, k) = {} BY <1>2, <2>1 DEF Injections
  <2> QED BY <2>2, FS_EmptySet
<1> QED BY <1>3, <1>4 DEF SkillsMatch

-----------------------------------------------------------------------------
\* A message that the loop adds.

Appended(r, ms, m) == IsSeq(ms) /\ r = Append(ms, m)

LEMMA AppendedFacts ==
    ASSUME NEW r, NEW ms, NEW m, Appended(r, ms, m)
    PROVE  /\ IsSeq(r) /\ Len(r) = Len(ms) + 1 /\ Len(ms) \in Nat
           /\ DOMAIN r = 1..(Len(ms) + 1) /\ DOMAIN ms = 1..Len(ms)
           /\ \A n \in 1..Len(ms) : r[n] = ms[n]
           /\ r[Len(ms) + 1] = m
<1>1. IsSeq(ms) /\ r = Append(ms, m) BY DEF Appended
<1>2. IsSeq(r) BY <1>1, AppendFacts
<1>3. Len(r) = Len(ms) + 1 BY <1>1, AppendFacts
<1>4. Len(ms) \in Nat BY <1>1, AppendFacts
<1>5. DOMAIN r = 1..(Len(ms) + 1) BY <1>1, AppendFacts
<1>6. DOMAIN ms = 1..Len(ms) BY <1>1, AppendFacts
<1>7. \A n \in 1..Len(ms) : r[n] = ms[n] BY <1>1, AppendFacts
<1>8. r[Len(ms) + 1] = m BY <1>1, AppendFacts
<1> QED BY <1>2, <1>3, <1>4, <1>5, <1>6, <1>7, <1>8

LEMMA AppendWithin ==
    ASSUME NEW ms, IsSeq(ms), NEW m, NEW r, Appended(r, ms, m)
    PROVE  Within(ms, r, 0)
<1>1. /\ IsSeq(r) /\ Len(r) = Len(ms) + 1 /\ Len(ms) \in Nat
      /\ \A n \in 1..Len(ms) : r[n] = ms[n]
  BY AppendedFacts
<1>2. \A j \in 1..Len(ms) : 0 + j = j BY <1>1
<1>3. \A j \in 1..Len(ms) : r[0 + j] = ms[j] BY <1>1, <1>2
<1>4. 0 \in Nat /\ 0 + Len(ms) <= Len(r) BY <1>1
<1> QED BY <1>1, <1>3, <1>4 DEF Within

LEMMA AppendHistory ==
    ASSUME NEW ms, IsHistory(ms), NEW m, Shaped(m), NEW r, Appended(r, ms, m)
    PROVE  IsHistory(r)
<1>1. IsSeq(ms) /\ \A i \in 1..Len(ms) : Shaped(ms[i]) BY HistoryFacts
<1>2. /\ IsSeq(r) /\ Len(ms) \in Nat /\ DOMAIN r = 1..(Len(ms) + 1)
      /\ \A n \in 1..Len(ms) : r[n] = ms[n]
      /\ r[Len(ms) + 1] = m
  BY AppendedFacts
<1>3. \A n \in 1..(Len(ms) + 1) : n \in 1..Len(ms) \/ n = Len(ms) + 1 BY <1>2
<1> QED BY <1>1, <1>2, <1>3 DEF IsHistory

\* A reply is tied to the turn that it joins.
LEMMA AppendTied ==
    ASSUME NEW ms, IsSeq(ms), Tied(ms), NEW m, NEW r, Appended(r, ms, m),
           m.role = "tool" =>
               \E i \in 1..Len(ms) : Joins(r, i, Len(ms) + 1) /\ m.reply \in CallIds(r[i])
    PROVE  Tied(r)
<1>1. /\ Len(ms) \in Nat /\ DOMAIN r = 1..(Len(ms) + 1) /\ DOMAIN ms = 1..Len(ms)
      /\ \A n \in 1..Len(ms) : r[n] = ms[n]
      /\ r[Len(ms) + 1] = m
  BY AppendedFacts
<1>2. Within(ms, r, 0) BY AppendWithin
<1>3. ASSUME NEW k \in 1..Len(ms), r[k].role = "tool"
      PROVE  \E i \in 1..(k - 1) : Joins(r, i, k) /\ r[k].reply \in CallIds(r[i])
  <2>1. ms[k].role = "tool" BY <1>1, <1>3
  <2>2. PICK i \in 1..(k - 1) : Joins(ms, i, k) /\ ms[k].reply \in CallIds(ms[i])
    BY <1>1, <2>1 DEF Tied
  <2>3. Joins(ms, i, k) <=> Joins(r, 0 + i, 0 + k) BY <1>2, JoinsWithin
  <2>4. 0 + i = i /\ 0 + k = k /\ i \in 1..Len(ms) BY <1>1
  <2>5. Joins(r, i, k) BY <2>2, <2>3, <2>4
  <2>6. r[k] = ms[k] /\ r[i] = ms[i] BY <1>1, <2>4
  <2> QED BY <2>2, <2>5, <2>6
<1>4. ASSUME m.role = "tool"
      PROVE  \E i \in 1..Len(ms) : Joins(r, i, Len(ms) + 1) /\ m.reply \in CallIds(r[i])
  BY <1>4
<1>5. ASSUME NEW k \in DOMAIN r, r[k].role = "tool"
      PROVE  \E i \in 1..(k - 1) : Joins(r, i, k) /\ r[k].reply \in CallIds(r[i])
  <2>1. k \in 1..Len(ms) \/ k = Len(ms) + 1 BY <1>1
  <2>2. CASE k \in 1..Len(ms) BY <1>3, <1>5, <2>2
  <2>3. CASE k = Len(ms) + 1
    <3>1. PICK i \in 1..Len(ms) : Joins(r, i, k) /\ m.reply \in CallIds(r[i])
      BY <1>1, <1>4, <1>5, <2>3
    <3>2. i \in 1..(k - 1) BY <1>1, <2>3
    <3> QED BY <1>1, <2>3, <3>1, <3>2
  <2> QED BY <2>1, <2>2, <2>3
<1> QED BY <1>5 DEF Tied

LEMMA AppendCarried ==
    ASSUME NEW ms, IsSeq(ms), NEW active, Carried(ms, active), NEW m, ~IsInjection(m),
           NEW r, Appended(r, ms, m)
    PROVE  Carried(r, active)
<1>1. /\ Len(ms) \in Nat /\ Len(r) = Len(ms) + 1
      /\ \A n \in 1..Len(ms) : r[n] = ms[n]
      /\ r[Len(ms) + 1] = m
  BY AppendedFacts
<1>2. \A i \in 1..Len(r) : IsInjection(r[i]) => i \in 1..Len(ms) BY <1>1
<1>3. \A i \in 1..Len(r) : IsInjection(r[i]) => IsInjection(ms[i]) /\ r[i] = ms[i]
  BY <1>1, <1>2
<1>4. \A i \in 1..Len(ms) : i \in 1..Len(r) BY <1>1
<1>5. \A s \in active : \E i \in 1..Len(r) : Injects(r[i], s)
  BY <1>1, <1>4 DEF Carried
<1>6. \A i, j \in 1..Len(r) :
          IsInjection(r[i]) /\ IsInjection(r[j]) /\ r[i].skill = r[j].skill => i = j
  BY <1>2, <1>3 DEF Carried
<1>7. \A i \in 1..Len(r) : IsInjection(r[i]) => r[i].skill \in active /\ r[i].calls = <<>>
  BY <1>2, <1>3 DEF Carried
<1> QED BY <1>5, <1>6, <1>7 DEF Carried

LEMMA AppendSound ==
    ASSUME NEW ms, NEW active, Sound(ms, active), NEW m, Shaped(m), ~IsInjection(m),
           NEW r, Appended(r, ms, m), Tied(r)
    PROVE  Sound(r, active)
<1>1. IsHistory(ms) /\ active \subseteq Skills /\ Carried(ms, active) BY DEF Sound
<1>2. IsSeq(ms) BY <1>1, HistoryFacts
<1>3. IsHistory(r) BY <1>1, AppendHistory
<1>4. Carried(r, active) BY <1>1, <1>2, AppendCarried
<1> QED BY <1>1, <1>3, <1>4 DEF Sound

\* The instructions of a skill that was not active.
LEMMA InjectCarried ==
    ASSUME NEW ms, IsSeq(ms), NEW active, Carried(ms, active), NEW m, IsInjection(m),
           m.calls = <<>>, m.skill \notin active, NEW r, Appended(r, ms, m)
    PROVE  Carried(r, active \cup {m.skill})
<1> DEFINE all == active \cup {m.skill}
<1>1. /\ Len(ms) \in Nat /\ Len(r) = Len(ms) + 1
      /\ \A n \in 1..Len(ms) : r[n] = ms[n]
      /\ r[Len(ms) + 1] = m
  BY AppendedFacts
<1>2. \A i \in 1..Len(r) : i \in 1..Len(ms) \/ i = Len(ms) + 1 BY <1>1
<1>3. \A i \in 1..Len(ms) : i \in 1..Len(r) BY <1>1
<1>4. Len(ms) + 1 \in 1..Len(r) BY <1>1
<1>5. \A i \in 1..Len(r) : IsInjection(r[i]) => r[i].skill \in all /\ r[i].calls = <<>>
  BY <1>1, <1>2 DEF Carried
<1>6. \A s \in all : \E i \in 1..Len(r) : Injects(r[i], s)
  <2>1. \A s \in active : \E i \in 1..Len(r) : Injects(r[i], s)
    BY <1>1, <1>3 DEF Carried
  <2>2. Injects(r[Len(ms) + 1], m.skill) BY <1>1 DEF Injects
  <2> QED BY <1>4, <2>1, <2>2
<1>7. \A i \in 1..Len(ms) : IsInjection(r[i]) => r[i].skill # m.skill BY <1>1 DEF Carried
<1>8. \A i, j \in 1..Len(r) :
          IsInjection(r[i]) /\ IsInjection(r[j]) /\ r[i].skill = r[j].skill => i = j
  <2> SUFFICES ASSUME NEW i \in 1..Len(r), NEW j \in 1..Len(r),
                      IsInjection(r[i]), IsInjection(r[j]), r[i].skill = r[j].skill
               PROVE  i = j
    OBVIOUS
  <2>1. CASE i \in 1..Len(ms) /\ j \in 1..Len(ms) BY <1>1, <2>1 DEF Carried
  <2>2. CASE i = Len(ms) + 1 BY <1>1, <1>2, <1>7, <2>2
  <2>3. CASE j = Len(ms) + 1 BY <1>1, <1>2, <1>7, <2>3
  <2> QED BY <1>2, <2>1, <2>2, <2>3
<1> QED BY <1>5, <1>6, <1>8 DEF Carried

-----------------------------------------------------------------------------
(* Turns *)

\* ms ends with a turn at p that calls ids, and replies to those that are done.
TurnAt(ms, p, ids, done) ==
    /\ p \in 1..Len(ms) /\ ms[p].role = "assistant" /\ CallIds(ms[p]) = ids
    /\ \A k \in (p + 1)..Len(ms) : ms[k].role = "tool"
    /\ {ms[k].reply : k \in (p + 1)..Len(ms)} = done

\* All calls but those of the message at p have their replies.
AnsweredBut(ms, p) == \A i \in 1..Len(ms) : i # p => HasReplies(ms, i)

LEMMA RepliesAnswered ==
    ASSUME NEW ms, IsSeq(ms)
    PROVE  Answered(ms) <=> \A i \in 1..Len(ms) : HasReplies(ms, i)
<1>1. DOMAIN ms = 1..Len(ms) BY SeqFacts
<1> QED BY <1>1 DEF Answered, HasReplies

LEMMA ThinnedAnswered ==
    ASSUME NEW r, NEW ms, NEW at, Thinned(r, ms, at), Answered(ms)
    PROVE  Answered(r)
<1>1. IsSeq(r) /\ IsSeq(ms) BY DEF Thinned
<1>2. \A i \in 1..Len(ms) : HasReplies(ms, i) BY <1>1, RepliesAnswered
<1>3. ASSUME NEW i \in 1..Len(r) PROVE HasReplies(r, i)
  <2>1. at[i] \in 1..Len(ms) BY ThinnedFacts
  <2>2. HasReplies(ms, at[i]) BY <1>2, <2>1
  <2> QED BY <2>2, ThinnedReplies
<1> QED BY <1>1, <1>3, RepliesAnswered

LEMMA ThinnedTurn ==
    ASSUME NEW r, NEW ms, NEW at, Thinned(r, ms, at), NEW p, NEW ids, NEW done,
           TurnAt(ms, p, ids, done), ids # {}
    PROVE  \E s \in 1..Len(r) : /\ TurnAt(r, s, ids, done)
                                /\ AnsweredBut(ms, p) => AnsweredBut(r, s)
<1>1. Len(r) \in Nat /\ Len(ms) \in Nat BY ThinnedFacts
<1>2. /\ p \in 1..Len(ms) /\ ms[p].role = "assistant" /\ CallIds(ms[p]) = ids
      /\ \A k \in (p + 1)..Len(ms) : ms[k].role = "tool"
      /\ {ms[k].reply : k \in (p + 1)..Len(ms)} = done
  BY DEF TurnAt
<1>14. CallIds(ms[p]) # {} BY <1>2
<1>3. PICK s \in 1..Len(r) : at[s] = p BY <1>2, <1>14, ThinnedCaller
<1>4. r[s].role = "assistant" /\ CallIds(r[s]) = ids BY <1>2, <1>3, ThinnedFacts
<1>5. p \in Nat /\ s \in Nat BY <1>1, <1>2
<1>6. ASSUME NEW k \in (s + 1)..Len(r)
      PROVE  \E q \in (p + 1)..Len(ms) : r[k].role = ms[q].role /\ r[k].reply = ms[q].reply
  <2>1. k \in 1..Len(r) /\ s < k BY <1>1, <1>5
  <2>2. PICK q : q = at[k] OBVIOUS
  <2>3. /\ q \in 1..Len(ms) /\ q \in Nat
        /\ r[k].role = ms[q].role /\ r[k].reply = ms[q].reply
    BY <2>1, <2>2, ThinnedFacts
  <2>4. p < q BY <1>3, <2>1, <2>2, ThinnedOrder
  <2>5. q \in (p + 1)..Len(ms) BY <1>1, <1>5, <2>3, <2>4
  <2> QED BY <2>3, <2>5
<1>7. \A k \in (s + 1)..Len(r) : r[k].role = "tool" BY <1>2, <1>6
<1>8. ASSUME NEW q \in (p + 1)..Len(ms)
      PROVE  \E k \in (s + 1)..Len(r) : r[k].reply = ms[q].reply
  <2>1. q \in 1..Len(ms) /\ p < q /\ ms[q].role = "tool" BY <1>1, <1>2, <1>5
  <2>2. PICK k \in 1..Len(r) : at[k] = q BY <2>1, ThinnedFacts
  <2>3. s < k BY <1>3, <2>1, <2>2, ThinnedOrder
  <2>4. k \in (s + 1)..Len(r) BY <1>1, <1>5, <2>3
  <2>5. r[k].reply = ms[q].reply BY <2>2, ThinnedFacts
  <2> QED BY <2>4, <2>5
<1>9. {r[k].reply : k \in (s + 1)..Len(r)} \subseteq {ms[k].reply : k \in (p + 1)..Len(ms)}
  BY <1>6
<1>10. {ms[k].reply : k \in (p + 1)..Len(ms)} \subseteq {r[k].reply : k \in (s + 1)..Len(r)}
  BY <1>8
<1>11. TurnAt(r, s, ids, done) BY <1>2, <1>4, <1>7, <1>9, <1>10 DEF TurnAt
<1>12. ASSUME AnsweredBut(ms, p), NEW i \in 1..Len(r), i # s PROVE HasReplies(r, i)
  <2>1. at[i] \in 1..Len(ms) /\ at[i] \in Nat BY ThinnedFacts
  <2>2. i < s \/ s < i BY <1>1, <1>12
  <2>3. at[i] < p \/ p < at[i] BY <1>3, <2>2, ThinnedOrder
  <2>4. at[i] # p BY <1>5, <2>1, <2>3
  <2>5. HasReplies(ms, at[i]) BY <1>12, <2>1, <2>4 DEF AnsweredBut
  <2> QED BY <2>5, ThinnedReplies
<1>13. AnsweredBut(ms, p) => AnsweredBut(r, s) BY <1>12 DEF AnsweredBut
<1> QED BY <1>11, <1>13

-----------------------------------------------------------------------------
\* The turn under way grows by its replies.

LEMMA AppendReplies ==
    ASSUME NEW ms, IsSeq(ms), NEW m, NEW r, Appended(r, ms, m), NEW i \in 1..Len(ms),
           HasReplies(ms, i)
    PROVE  HasReplies(r, i)
<1>1. Within(ms, r, 0) BY AppendWithin
<1>2. r[i] = ms[i] /\ Len(ms) \in Nat /\ \A n \in 1..Len(ms) : r[n] = ms[n]
  BY AppendedFacts
<1>3. ASSUME NEW x \in CallIds(ms[i])
      PROVE  \E j \in FollowingReplies(r, i) : x = r[j].reply
  <2>1. PICK j \in FollowingReplies(ms, i) : x = ms[j].reply BY DEF HasReplies
  <2>2. j \in 1..Len(ms) /\ 0 + j \in FollowingReplies(r, 0 + i) BY <1>1, FollowingWithin
  <2>3. 0 + j = j /\ 0 + i = i BY <1>2, <2>2
  <2> QED BY <1>2, <2>1, <2>2, <2>3
<1> QED BY <1>2, <1>3 DEF HasReplies

LEMMA AppendAnswered ==
    ASSUME NEW ms, IsSeq(ms), Answered(ms), NEW m, NEW r, Appended(r, ms, m)
    PROVE  /\ AnsweredBut(r, Len(ms) + 1)
           /\ CallIds(m) = {} => Answered(r)
<1>1. /\ IsSeq(r) /\ Len(r) = Len(ms) + 1 /\ Len(ms) \in Nat /\ r[Len(ms) + 1] = m
  BY AppendedFacts
<1>2. \A i \in 1..Len(ms) : HasReplies(r, i) BY RepliesAnswered, AppendReplies
<1>3. \A i \in 1..Len(r) : i \in 1..Len(ms) \/ i = Len(ms) + 1 BY <1>1
<1>4. AnsweredBut(r, Len(ms) + 1) BY <1>2, <1>3 DEF AnsweredBut
<1>5. ASSUME CallIds(m) = {} PROVE Answered(r)
  <2>1. HasReplies(r, Len(ms) + 1) BY <1>1, <1>5 DEF HasReplies
  <2> QED BY <1>1, <1>2, <1>3, <2>1, RepliesAnswered
<1> QED BY <1>4, <1>5

LEMMA TurnBegins ==
    ASSUME NEW ms, IsSeq(ms), NEW m, m.role = "assistant", NEW r, Appended(r, ms, m)
    PROVE  TurnAt(r, Len(ms) + 1, CallIds(m), {})
<1>1. Len(r) = Len(ms) + 1 /\ Len(ms) \in Nat /\ r[Len(ms) + 1] = m BY AppendedFacts
<1>2. PICK p : p = Len(ms) + 1 OBVIOUS
<1>3. p \in 1..Len(r) /\ r[p].role = "assistant" /\ CallIds(r[p]) = CallIds(m)
  BY <1>1, <1>2
<1>4. (p + 1)..Len(r) = {} BY <1>1, <1>2
<1>5. {r[k].reply : k \in (p + 1)..Len(r)} = {} BY <1>4
<1> QED BY <1>2, <1>3, <1>4, <1>5 DEF TurnAt

LEMMA TurnGrows ==
    ASSUME NEW ms, IsSeq(ms), NEW p, NEW ids, NEW done, TurnAt(ms, p, ids, done),
           NEW m, m.role = "tool", m.reply \in ids, m.reply \notin done, m.calls = <<>>,
           NEW r, Appended(r, ms, m)
    PROVE  /\ TurnAt(r, p, ids, done \cup {m.reply})
           /\ Joins(r, p, Len(ms) + 1) /\ m.reply \in CallIds(r[p])
           /\ AnsweredBut(ms, p) => AnsweredBut(r, p)
<1>1. /\ IsSeq(r) /\ Len(r) = Len(ms) + 1 /\ Len(ms) \in Nat
      /\ \A n \in 1..Len(ms) : r[n] = ms[n]
      /\ r[Len(ms) + 1] = m
  BY AppendedFacts
<1>2. /\ p \in 1..Len(ms) /\ ms[p].role = "assistant" /\ CallIds(ms[p]) = ids
      /\ \A k \in (p + 1)..Len(ms) : ms[k].role = "tool"
      /\ {ms[k].reply : k \in (p + 1)..Len(ms)} = done
  BY DEF TurnAt
<1>3. PICK n : n = Len(ms) + 1 OBVIOUS
<1>4. p \in Nat /\ n \in Nat /\ p \in 1..n /\ r[p] = ms[p] BY <1>1, <1>2, <1>3
<1>5. \A k \in (p + 1)..n : (k \in (p + 1)..Len(ms) /\ k \in 1..Len(ms)) \/ k = n
  BY <1>1, <1>3, <1>4
<1>6. \A k \in (p + 1)..Len(ms) : k \in (p + 1)..n /\ k \in 1..Len(ms) /\ r[k] = ms[k]
  BY <1>1, <1>3, <1>4
<1>7. n \in (p + 1)..n BY <1>1, <1>2, <1>3, <1>4
<1>8. \A k \in (p + 1)..n : r[k].role = "tool" BY <1>1, <1>2, <1>3, <1>5, <1>6
<1>9. {r[k].reply : k \in (p + 1)..n} = done \cup {m.reply}
  <2>1. ASSUME NEW k \in (p + 1)..n PROVE r[k].reply \in done \cup {m.reply}
    <3>1. CASE k \in (p + 1)..Len(ms) BY <1>2, <1>6, <3>1
    <3>2. CASE k = n BY <1>1, <1>3, <3>2
    <3> QED BY <1>5, <3>1, <3>2
  <2>2. ASSUME NEW x \in done PROVE \E k \in (p + 1)..n : r[k].reply = x
    <3>1. PICK k \in (p + 1)..Len(ms) : ms[k].reply = x BY <1>2
    <3> QED BY <1>6, <3>1
  <2>3. r[n].reply = m.reply BY <1>1, <1>3
  <2>4. {r[k].reply : k \in (p + 1)..n} \subseteq done \cup {m.reply} BY <2>1
  <2>5. done \cup {m.reply} \subseteq {r[k].reply : k \in (p + 1)..n} BY <1>7, <2>2, <2>3
  <2> QED BY <2>4, <2>5
<1>10. p \in 1..Len(r) BY <1>1, <1>2
<1>11. TurnAt(r, p, ids, done \cup {m.reply})
  BY <1>1, <1>2, <1>3, <1>4, <1>8, <1>9, <1>10 DEF TurnAt
<1>12. {r[k].reply : k \in (p + 1)..(n - 1)} = done
  <2>1. n - 1 = Len(ms) BY <1>1, <1>3
  <2>2. {r[k].reply : k \in (p + 1)..Len(ms)} = {ms[k].reply : k \in (p + 1)..Len(ms)}
    BY <1>6
  <2> QED BY <1>2, <2>1, <2>2
<1>13. ~(CallIds(r[p]) \subseteq {r[k].reply : k \in (p + 1)..(n - 1)})
  BY <1>2, <1>4, <1>12
<1>14. Joins(r, p, n) BY <1>2, <1>4, <1>8, <1>13 DEF Joins
<1>15. ASSUME AnsweredBut(ms, p) PROVE AnsweredBut(r, p)
  <2>1. \A i \in 1..Len(r) : i \in 1..Len(ms) \/ i = n BY <1>1, <1>3
  <2>2. ASSUME NEW i \in 1..Len(ms), i # p PROVE HasReplies(r, i)
    BY <1>15, <2>2, AppendReplies DEF AnsweredBut
  <2>3. CallIds(r[n]) = {} BY <1>1, <1>3 DEF CallIds
  <2>4. HasReplies(r, n) BY <2>3 DEF HasReplies
  <2> QED BY <2>1, <2>2, <2>4 DEF AnsweredBut
<1> QED BY <1>2, <1>3, <1>4, <1>11, <1>14, <1>15

\* A turn all of whose calls are done is answered.
LEMMA TurnEnds ==
    ASSUME NEW ms, IsSeq(ms), NEW p, NEW ids, NEW done, TurnAt(ms, p, ids, done),
           ids \subseteq done, AnsweredBut(ms, p)
    PROVE  Answered(ms)
<1>1. Len(ms) \in Nat BY SeqFacts
<1>2. /\ p \in 1..Len(ms) /\ CallIds(ms[p]) = ids
      /\ \A k \in (p + 1)..Len(ms) : ms[k].role = "tool"
      /\ {ms[k].reply : k \in (p + 1)..Len(ms)} = done
  BY DEF TurnAt
<1>3. ASSUME NEW j \in (p + 1)..Len(ms) PROVE j \in FollowingReplies(ms, p)
  <2>1. \A k \in (p + 1)..j : k \in (p + 1)..Len(ms) BY <1>1, <1>2
  <2> QED BY <1>2, <2>1 DEF FollowingReplies
<1>4. HasReplies(ms, p) BY <1>2, <1>3 DEF HasReplies
<1> QED BY <1>4, RepliesAnswered DEF AnsweredBut

-----------------------------------------------------------------------------
(* Skills that go, contexts that come back *)

\* What remove_skill leaves: the skill's instructions are gone, replies stay.
LEMMA RemoveFacts ==
    ASSUME NEW s, Sound(s.messages, s.skills), NEW k \in s.skills,
           NEW t, t = RemoveSessionSkill(s, k)
    PROVE  /\ t.skills = s.skills \ {k}
           /\ Sound(t.messages, t.skills)
           /\ \E at : Thinned(t.messages, s.messages, at)
<1>1. PICK ms : ms = s.messages OBVIOUS
<1>2. IsHistory(ms) /\ Tied(ms) /\ s.skills \subseteq Skills /\ Carried(ms, s.skills)
  BY <1>1 DEF Sound
<1>3. /\ IsSeq(ms) /\ Len(ms) \in Nat /\ DOMAIN ms = 1..Len(ms)
      /\ \A i \in 1..Len(ms) : Shaped(ms[i])
  BY <1>2, HistoryFacts
<1>4. PICK kept : kept = {i \in DOMAIN ms : Injects(ms[i], k) => ms[i].role = "tool"}
  OBVIOUS
<1>5. PICK q : q = Pick(ms, kept) OBVIOUS
<1>6. PICK r : r = [j \in 1..Len(q) |-> IF Injects(q[j], k) THEN Redacted(q[j]) ELSE q[j]]
  OBVIOUS
<1>7. t = Store(r, s.skills \ {k})
  BY <1>1, <1>4, <1>5, <1>6 DEF RemoveSessionSkill, Retain
<1>8. t.skills = s.skills \ {k} /\ t.messages = r BY <1>7 DEF Store
<1>9. /\ IsSeq(q)
      /\ \E at : /\ IsSeq(at) /\ Len(at) = Len(q)
                 /\ at = Ascending(kept, Len(ms))
                 /\ \A j \in 1..Len(q) : /\ at[j] \in kept /\ at[j] \in 1..Len(ms)
                                         /\ q[j] = ms[at[j]]
                 /\ \A j \in 1..Len(q) : \A l \in (j + 1)..Len(q) : at[j] < at[l]
                 /\ \A i \in 1..Len(ms) : i \in kept => \E j \in 1..Len(q) : at[j] = i
  BY <1>3, <1>5, PickFacts
<1>10. PICK at : /\ \A j \in 1..Len(q) : /\ at[j] \in kept /\ at[j] \in 1..Len(ms)
                                         /\ q[j] = ms[at[j]]
                 /\ \A j \in 1..Len(q) : \A l \in (j + 1)..Len(q) : at[j] < at[l]
                 /\ \A i \in 1..Len(ms) : i \in kept => \E j \in 1..Len(q) : at[j] = i
  BY <1>9
<1>11. Len(q) \in Nat BY <1>9, SeqFacts
<1>12. IsSeq(r) /\ Len(r) = Len(q) /\ DOMAIN r = 1..Len(q) BY <1>6, <1>11, FunctionFacts
<1>13. ASSUME NEW j \in 1..Len(q)
       PROVE  /\ r[j] = IF Injects(ms[at[j]], k) THEN Redacted(ms[at[j]]) ELSE ms[at[j]]
              /\ Shaped(r[j]) /\ r[j].role = ms[at[j]].role
              /\ r[j].calls = ms[at[j]].calls /\ r[j].reply = ms[at[j]].reply
  <2>1. PICK m : m = ms[at[j]] OBVIOUS
  <2>2. at[j] \in 1..Len(ms) /\ q[j] = m BY <1>10, <2>1
  <2>3. Shaped(m) BY <1>3, <2>1, <2>2
  <2>4. r[j] = IF Injects(m, k) THEN Redacted(m) ELSE m BY <1>6, <2>2
  <2>5. PICK e : e = Redacted(m) OBVIOUS
  <2>6. Shaped(e) /\ e.role = m.role /\ e.calls = m.calls /\ e.reply = m.reply
    BY <2>3, <2>5, RedactedFacts
  <2> QED BY <2>1, <2>3, <2>4, <2>5, <2>6
<1>14. ASSUME NEW j \in 1..Len(q), IsInjection(r[j])
       PROVE  r[j] = ms[at[j]] /\ ~Injects(ms[at[j]], k)
  <2>1. PICK m : m = ms[at[j]] OBVIOUS
  <2>2. Shaped(m) BY <1>3, <1>10, <2>1
  <2>3. ~IsInjection(Redacted(m)) BY <2>2, RedactedFacts
  <2> QED BY <1>13, <1>14, <2>1, <2>3
<1>15. \A j, l \in 1..Len(r) : j < l => at[j] < at[l]
  <2>1. \A j, l \in 1..Len(q) : j < l => l \in (j + 1)..Len(q) BY <1>11
  <2> QED BY <1>10, <1>12, <2>1
<1>16. \A i \in 1..Len(ms) : ms[i].role = "tool" \/ ms[i].calls # <<>> => i \in kept
  BY <1>2, <1>3, <1>4 DEF Carried, Injects
<1>17. Thinned(r, ms, at)
  <2>1. \A j \in 1..Len(r) : /\ at[j] \in 1..Len(ms) /\ r[j].role = ms[at[j]].role
                             /\ r[j].calls = ms[at[j]].calls /\ r[j].reply = ms[at[j]].reply
    BY <1>10, <1>12, <1>13
  <2>2. \A i \in 1..Len(ms) : ms[i].role = "tool" \/ ms[i].calls # <<>> =>
            \E j \in 1..Len(r) : at[j] = i
    BY <1>10, <1>12, <1>16
  <2> QED BY <1>3, <1>12, <1>15, <2>1, <2>2 DEF Thinned
<1>18. Tied(r) BY <1>2, <1>17, ThinnedTied
<1>19. IsHistory(r) BY <1>12, <1>13 DEF IsHistory
<1>20. Carried(r, s.skills \ {k})
  <2>1. ASSUME NEW j \in 1..Len(r), IsInjection(r[j])
        PROVE  r[j].skill \in s.skills \ {k} /\ r[j].calls = <<>>
    <3>1. at[j] \in 1..Len(ms) /\ r[j] = ms[at[j]] /\ ~Injects(ms[at[j]], k)
      BY <1>10, <1>12, <1>14, <2>1
    <3>2. r[j].skill \in s.skills /\ r[j].calls = <<>> BY <1>2, <2>1, <3>1 DEF Carried
    <3> QED BY <2>1, <3>1, <3>2 DEF Injects
  <2>2. ASSUME NEW j \in 1..Len(r), NEW l \in 1..Len(r),
               IsInjection(r[j]), IsInjection(r[l]), r[j].skill = r[l].skill
        PROVE  j = l
    <3>1. at[j] \in 1..Len(ms) /\ r[j] = ms[at[j]] BY <1>10, <1>12, <1>14, <2>2
    <3>2. at[l] \in 1..Len(ms) /\ r[l] = ms[at[l]] BY <1>10, <1>12, <1>14, <2>2
    <3>3. at[j] = at[l] BY <1>2, <2>2, <3>1, <3>2 DEF Carried
    <3>4. ~(at[j] < at[l]) /\ ~(at[l] < at[j]) BY <1>3, <3>1, <3>2, <3>3
    <3>5. ~(j < l) /\ ~(l < j) BY <1>15, <3>4
    <3> QED BY <1>11, <1>12, <3>5
  <2>3. ASSUME NEW x \in s.skills \ {k} PROVE \E j \in 1..Len(r) : Injects(r[j], x)
    <3>1. PICK i \in 1..Len(ms) : Injects(ms[i], x) BY <1>2 DEF Carried
    <3>2. ~Injects(ms[i], k) BY <2>3, <3>1 DEF Injects
    <3>3. i \in kept BY <1>3, <1>4, <3>2
    <3>4. PICK j \in 1..Len(q) : at[j] = i BY <1>10, <3>3
    <3>5. r[j] = ms[i] BY <1>13, <3>2, <3>4
    <3> QED BY <1>12, <3>1, <3>4, <3>5
  <2> QED BY <2>1, <2>2, <2>3 DEF Carried
<1>21. Sound(r, s.skills \ {k}) BY <1>2, <1>18, <1>19, <1>20 DEF Sound
<1> QED BY <1>1, <1>8, <1>17, <1>21

\* A context that a browser holds is rebuilt message by message: nothing is dropped and
\* nothing is inserted.
LEMMA SeededFacts ==
    ASSUME NEW s, Sound(s.messages, s.skills), NEW t, t = Seeded(s)
    PROVE  /\ t.skills = s.skills
           /\ Sound(t.messages, t.skills)
           /\ Thinned(t.messages, s.messages, [i \in 1..Len(s.messages) |-> i])
<1>1. PICK ms : ms = s.messages OBVIOUS
<1>2. PICK active : active = s.skills OBVIOUS
<1>3. IsHistory(ms) /\ Tied(ms) /\ active \subseteq Skills /\ Carried(ms, active)
  BY <1>1, <1>2 DEF Sound
<1>4. /\ IsSeq(ms) /\ Len(ms) \in Nat /\ DOMAIN ms = 1..Len(ms)
      /\ \A i \in 1..Len(ms) : Shaped(ms[i])
  BY <1>3, HistoryFacts
<1>5. PICK kept : kept = {i \in DOMAIN ms :
                    IsInjection(ms[i]) =>
                        /\ ms[i].skill \in active
                        /\ ~\E j \in 1..(i - 1) : Injects(ms[j], ms[i].skill)}
  OBVIOUS
<1>6. kept = DOMAIN ms
  <2>1. ASSUME NEW i \in DOMAIN ms, IsInjection(ms[i]), NEW j \in 1..(i - 1),
               Injects(ms[j], ms[i].skill)
        PROVE  FALSE
    <3>1. j \in 1..Len(ms) /\ i \in 1..Len(ms) /\ j # i BY <1>4
    <3>2. IsInjection(ms[j]) /\ ms[j].skill = ms[i].skill BY <2>1 DEF Injects
    <3> QED BY <1>3, <2>1, <3>1, <3>2 DEF Carried
  <2>2. \A i \in DOMAIN ms : IsInjection(ms[i]) => ms[i].skill \in active
    BY <1>3, <1>4 DEF Carried
  <2> QED BY <1>5, <2>1, <2>2
<1>7. PICK missing : missing = {x \in active : ~\E i \in DOMAIN ms : Injects(ms[i], x)}
  OBVIOUS
<1>8. missing = {} BY <1>3, <1>4, <1>7 DEF Carried
<1>9. Cardinality(missing) = 0 BY <1>8, FS_EmptySet
<1>10. PICK inserted : inserted = [k \in 1..Cardinality(missing) |->
                          SkillInjection(SetToSeq(missing)[k], "user", NoCall, FALSE)]
  OBVIOUS
<1>11. IsSeq(inserted) /\ Len(inserted) = 0
  <2>1. inserted = [k \in 1..0 |-> SkillInjection(SetToSeq(missing)[k], "user", NoCall, FALSE)]
    BY <1>9, <1>10
  <2>2. inserted = [k \in 1..0 |-> inserted[k]] BY <2>1
  <2> QED BY <2>2, FunctionFacts
<1>12. PICK q : q = Pick(ms, kept) OBVIOUS
<1>13. q = ms BY <1>4, <1>6, <1>12, PickAll
<1>14. PICK r : r = [k \in 1..Len(q) |->
            IF IsInjection(q[k]) THEN SkillInjection(q[k].skill, q[k].role, q[k].reply, FALSE)
            ELSE q[k]]
  OBVIOUS
<1>15. TrustedMessages(ms, active) = inserted \o r
  BY <1>5, <1>7, <1>10, <1>12, <1>14 DEF TrustedMessages, Retain
<1>16. IsSeq(r) /\ Len(r) = Len(ms) /\ DOMAIN r = 1..Len(ms)
  <2>1. r = [k \in 1..Len(ms) |-> r[k]] BY <1>13, <1>14
  <2> QED BY <1>4, <2>1, FunctionFacts
<1>17. inserted \o r = r
  <2>1. PICK c : c = inserted \o r OBVIOUS
  <2>2. /\ IsSeq(c) /\ Len(c) = Len(inserted) + Len(r)
        /\ \A i \in 1..Len(r) : c[Len(inserted) + i] = r[i]
    BY <1>11, <1>16, <2>1, ConcatFacts
  <2>3. \A i \in 1..Len(r) : 0 + i = i BY <1>4, <1>16
  <2>4. Len(c) = Len(r) BY <1>4, <1>11, <1>16, <2>2
  <2>5. \A i \in 1..Len(c) : c[i] = r[i] BY <1>11, <2>2, <2>3, <2>4
  <2> QED BY <1>16, <2>1, <2>2, <2>4, <2>5, SameElements
<1>18. t.messages = r /\ t.skills = active
  <2>1. t = Store(TrustedMessages(ms, active), active) BY <1>1, <1>2 DEF Seeded
  <2> QED BY <1>15, <1>17, <2>1 DEF Store
<1>19. ASSUME NEW k \in 1..Len(ms)
       PROVE  /\ Shaped(r[k]) /\ r[k].role = ms[k].role /\ r[k].calls = ms[k].calls
              /\ r[k].reply = ms[k].reply
              /\ IsInjection(r[k]) <=> IsInjection(ms[k])
              /\ IsInjection(ms[k]) => r[k].skill = ms[k].skill
  <2>1. PICK m : m = ms[k] OBVIOUS
  <2>2. Shaped(m) BY <1>4, <2>1
  <2>3. CASE IsInjection(m)
    <3>1. m.skill \in active /\ m.calls = <<>> BY <1>3, <2>1, <2>3 DEF Carried
    <3>2. m.skill \in Skills /\ m.role \in Roles BY <1>3, <2>2, <3>1 DEF Shaped, IsMessage
    <3>3. PICK f : f = FALSE OBVIOUS
    <3>4. r[k] = SkillInjection(m.skill, m.role, m.reply, f)
      BY <1>13, <1>14, <2>1, <2>3, <3>3
    <3>5. f \in BOOLEAN BY <3>3, Zenon
    <3>6. PICK e : e = r[k] OBVIOUS
    <3>7. /\ Shaped(e) /\ e.role = m.role /\ e.reply = m.reply /\ e.calls = <<>>
          /\ IsInjection(e) /\ e.skill = m.skill
      BY <3>2, <3>4, <3>5, <3>6, InjectionFacts
    <3> QED BY <2>1, <2>3, <3>1, <3>6, <3>7
  <2>4. CASE ~IsInjection(m)
    <3>1. r[k] = m BY <1>13, <1>14, <2>1, <2>4
    <3> QED BY <2>1, <2>2, <2>4, <3>1
  <2> QED BY <2>3, <2>4
<1>20. PICK at : at = [i \in 1..Len(ms) |-> i] OBVIOUS
<1>21. Thinned(r, ms, at)
  <2>1. \A k \in 1..Len(ms) : at[k] = k BY <1>20
  <2> QED BY <1>4, <1>16, <1>19, <2>1 DEF Thinned
<1>22. Tied(r) BY <1>3, <1>21, ThinnedTied
<1>23. IsHistory(r) BY <1>16, <1>19 DEF IsHistory
<1>24. Carried(r, active)
  <2>1. \A i \in 1..Len(ms) : IsInjection(r[i]) => r[i].skill \in active /\ r[i].calls = <<>>
    BY <1>3, <1>19 DEF Carried
  <2>2. \A i, j \in 1..Len(ms) :
           IsInjection(r[i]) /\ IsInjection(r[j]) /\ r[i].skill = r[j].skill => i = j
    BY <1>3, <1>19 DEF Carried
  <2>3. \A x \in active : \E i \in 1..Len(ms) : Injects(r[i], x)
    BY <1>3, <1>19 DEF Carried, Injects
  <2> QED BY <1>16, <2>1, <2>2, <2>3 DEF Carried
<1>25. Sound(r, active) BY <1>3, <1>22, <1>23, <1>24 DEF Sound
<1> QED BY <1>1, <1>2, <1>18, <1>20, <1>21, <1>25

\* Compaction keeps the instructions of the active skills, each once.
LEMMA PrepareSound ==
    ASSUME NEW ms, NEW active, Sound(ms, active), NEW summaryOk \in BOOLEAN,
           NEW r, r = Prepare(ms, summaryOk)
    PROVE  Sound(r, active)
<1>1. IsHistory(ms) /\ Tied(ms) /\ active \subseteq Skills /\ Carried(ms, active)
  BY DEF Sound
<1>2. IsHistory(r) /\ Tied(r) BY <1>1, PrepareHistory
<1>3. PICK qs : qs = MessageGroups(ms) OBVIOUS
<1>4. PICK gs : gs = MessageGroups(r) OBVIOUS
<1>5. Grouped(ms, qs) BY <1>1, <1>3 DEF Grouped
<1>6. \E s : Brought(r, ms, s) BY <1>4, <1>5, PrepareKeeps
<1>7. PICK s : Brought(r, ms, s) BY <1>6
<1>8. /\ \A i \in 1..Len(r) : IsInjection(r[i]) => s[i] \in 1..Len(ms) /\ Kin(ms[s[i]], r[i])
      /\ \A i \in 1..Len(r) : \A j \in 1..Len(r) :
            IsInjection(r[i]) /\ IsInjection(r[j]) /\ i < j => s[i] < s[j]
      /\ \A n \in 1..Len(ms) : IsInjection(ms[n]) =>
            \E i \in 1..Len(r) : IsInjection(r[i]) /\ s[i] = n
  BY <1>7 DEF Brought
<1>9. Len(r) \in Nat /\ Len(ms) \in Nat BY <1>1, <1>2, HistoryFacts
<1>10. ASSUME NEW i \in 1..Len(r), IsInjection(r[i])
       PROVE  /\ s[i] \in 1..Len(ms) /\ IsInjection(ms[s[i]])
              /\ r[i].skill = ms[s[i]].skill /\ r[i].calls = ms[s[i]].calls
  <2>1. s[i] \in 1..Len(ms) /\ Kin(ms[s[i]], r[i]) BY <1>8, <1>10
  <2> QED BY <1>10, <2>1, KinInjection DEF Kin
<1>11. ASSUME NEW i \in 1..Len(r), IsInjection(r[i])
       PROVE  r[i].skill \in active /\ r[i].calls = <<>>
  BY <1>1, <1>10, <1>11 DEF Carried
<1>12. ASSUME NEW i \in 1..Len(r), NEW j \in 1..Len(r),
              IsInjection(r[i]), IsInjection(r[j]), r[i].skill = r[j].skill
       PROVE  i = j
  <2>1. /\ s[i] \in 1..Len(ms) /\ IsInjection(ms[s[i]])
        /\ s[j] \in 1..Len(ms) /\ IsInjection(ms[s[j]])
        /\ ms[s[i]].skill = ms[s[j]].skill
    BY <1>10, <1>12
  <2>2. s[i] = s[j] BY <1>1, <2>1 DEF Carried
  <2>3. ~(s[i] < s[j]) /\ ~(s[j] < s[i]) BY <1>9, <2>1, <2>2
  <2>4. ~(i < j) /\ ~(j < i) BY <1>8, <1>12, <2>3
  <2> QED BY <1>9, <2>4
<1>13. ASSUME NEW x \in active PROVE \E i \in 1..Len(r) : Injects(r[i], x)
  <2>1. PICK n \in 1..Len(ms) : Injects(ms[n], x) BY <1>1 DEF Carried
  <2>2. IsInjection(ms[n]) /\ ms[n].skill = x BY <2>1 DEF Injects
  <2>3. PICK i \in 1..Len(r) : IsInjection(r[i]) /\ s[i] = n BY <1>8, <2>2
  <2>4. r[i].skill = x BY <1>10, <2>2, <2>3
  <2> QED BY <2>3, <2>4 DEF Injects
<1>14. Carried(r, active) BY <1>11, <1>12, <1>13 DEF Carried
<1> QED BY <1>1, <1>2, <1>14 DEF Sound

-----------------------------------------------------------------------------
(* The operations of the loop *)

\* A message that no call waits for.
LEMMA AddFacts ==
    ASSUME NEW s, IsRecord(s), NEW m, NEW t, t = AddMessage(s, m)
    PROVE  IsRecord(t) /\ t.messages = Append(s.messages, m) /\ t.skills = s.skills
<1>1. t = [s EXCEPT !.messages = Append(s.messages, m)] BY DEF AddMessage
<1>2. DOMAIN s = {"messages", "skills"} BY DEF IsRecord
<1> QED BY <1>1, <1>2 DEF IsRecord

LEMMA AddSound ==
    ASSUME NEW s, IsRecord(s), Sound(s.messages, s.skills),
           NEW m, Shaped(m), ~IsInjection(m), m.role # "tool",
           NEW t, t = AddMessage(s, m)
    PROVE  /\ IsRecord(t) /\ t.skills = s.skills /\ Sound(t.messages, t.skills)
           /\ Appended(t.messages, s.messages, m)
<1>1. PICK ms : ms = s.messages OBVIOUS
<1>2. PICK r : r = t.messages OBVIOUS
<1>3. IsRecord(t) /\ r = Append(ms, m) /\ t.skills = s.skills BY <1>1, <1>2, AddFacts
<1>4. Sound(ms, s.skills) BY <1>1
<1>5. IsHistory(ms) /\ Tied(ms) BY <1>4 DEF Sound
<1>6. IsSeq(ms) BY <1>5, HistoryFacts
<1>7. Appended(r, ms, m) BY <1>3, <1>6 DEF Appended
<1>8. Tied(r) BY <1>5, <1>6, <1>7, AppendTied
<1>9. Sound(r, s.skills) BY <1>4, <1>7, <1>8, AppendSound
<1> QED BY <1>1, <1>2, <1>3, <1>7, <1>9

\* A message that calls nothing leaves all calls answered.
LEMMA AddAnswered ==
    ASSUME NEW ms, Answered(ms), NEW m, m.calls = <<>>, NEW r, Appended(r, ms, m)
    PROVE  Answered(r)
<1>1. IsSeq(ms) BY DEF Appended
<1>2. CallIds(m) = {} BY DEF CallIds
<1> QED BY <1>1, <1>2, AppendAnswered

\* A user's message takes no call's reply away.
LEMMA AnsweredBefore ==
    ASSUME NEW ms, NEW m, m.role # "tool", NEW r, Appended(r, ms, m), Answered(r)
    PROVE  Answered(ms)
<1>1. /\ IsSeq(r) /\ Len(r) = Len(ms) + 1 /\ Len(ms) \in Nat
      /\ \A n \in 1..Len(ms) : r[n] = ms[n]
      /\ r[Len(ms) + 1] = m
  BY AppendedFacts
<1>2. IsSeq(ms) BY DEF Appended
<1>3. ASSUME NEW i \in 1..Len(ms) PROVE HasReplies(ms, i)
  <2>1. HasReplies(r, i) BY <1>1, <1>3, RepliesAnswered
  <2>2. r[i] = ms[i] BY <1>1, <1>3
  <2>3. ASSUME NEW x \in CallIds(ms[i])
        PROVE  \E j \in FollowingReplies(ms, i) : x = ms[j].reply
    <3>1. PICK j \in FollowingReplies(r, i) : x = r[j].reply
      BY <2>1, <2>2, <2>3 DEF HasReplies
    <3>2. j \in (i + 1)..Len(r) /\ OnlyReplies(r, i, j)
      BY <3>1 DEF FollowingReplies, OnlyReplies
    <3>3. j \in (i + 1)..j BY <3>2
    <3>4. r[j].role = "tool" BY <3>2, <3>3 DEF OnlyReplies
    <3>5. j # Len(ms) + 1 BY <1>1, <3>4
    <3>6. j \in (i + 1)..Len(ms) /\ j \in 1..Len(ms) BY <1>1, <1>3, <3>2, <3>5
    <3>7. \A k \in (i + 1)..j : k \in 1..Len(ms) BY <1>1, <1>3, <3>6
    <3>8. OnlyReplies(ms, i, j) BY <1>1, <3>2, <3>7 DEF OnlyReplies
    <3>9. j \in FollowingReplies(ms, i) BY <3>6, <3>8 DEF FollowingReplies, OnlyReplies
    <3> QED BY <1>1, <3>1, <3>6, <3>9
  <2> QED BY <2>3 DEF HasReplies
<1> QED BY <1>2, <1>3, RepliesAnswered

\* The instructions of a skill that the user chose.
LEMMA InjectSound ==
    ASSUME NEW s, IsRecord(s), Sound(s.messages, s.skills), NEW k \in Skills,
           NEW runtime \in BOOLEAN,
           NEW t, t = InjectSkill(s, k, SkillInjection(k, "user", NoCall, runtime))
    PROVE  /\ IsRecord(t) /\ Sound(t.messages, t.skills)
           /\ Answered(s.messages) => Answered(t.messages)
<1>1. CASE k \in s.skills BY <1>1 DEF InjectSkill
<1>2. CASE k \notin s.skills
  <2>1. PICK m : m = SkillInjection(k, "user", NoCall, runtime) OBVIOUS
  <2>2. "user" \in Roles BY DEF Roles
  <2>3. Shaped(m) /\ m.role = "user" /\ m.calls = <<>> /\ IsInjection(m) /\ m.skill = k
    BY <2>1, <2>2, InjectionFacts
  <2>4. t = Store(Append(s.messages, m), s.skills \cup {k}) BY <1>2, <2>1 DEF InjectSkill
  <2>5. PICK ms : ms = s.messages OBVIOUS
  <2>6. PICK r : r = Append(ms, m) OBVIOUS
  <2>7. IsRecord(t) /\ t.messages = r /\ t.skills = s.skills \cup {k}
    BY <2>4, <2>5, <2>6 DEF Store, IsRecord
  <2>8. Sound(ms, s.skills) BY <2>5
  <2>9. IsHistory(ms) /\ Tied(ms) /\ s.skills \subseteq Skills /\ Carried(ms, s.skills)
    BY <2>8 DEF Sound
  <2>10. IsSeq(ms) BY <2>9, HistoryFacts
  <2>11. Appended(r, ms, m) BY <2>6, <2>10 DEF Appended
  <2>12. m.role # "tool" BY <2>3
  <2>13. Tied(r) BY <2>9, <2>10, <2>11, <2>12, AppendTied
  <2>14. IsHistory(r) BY <2>3, <2>9, <2>11, AppendHistory
  <2>15. m.skill \notin s.skills BY <1>2, <2>3
  <2>16. Carried(r, s.skills \cup {m.skill})
    BY <2>3, <2>9, <2>10, <2>11, <2>15, InjectCarried
  <2>17. Sound(r, t.skills) BY <2>3, <2>7, <2>9, <2>13, <2>14, <2>16 DEF Sound
  <2>18. Answered(ms) => Answered(r) BY <2>3, <2>11, AddAnswered
  <2> QED BY <2>5, <2>7, <2>17, <2>18
<1> QED BY <1>1, <1>2

-----------------------------------------------------------------------------
(* A turn *)

\* The calls of a turn are numbered; what load_skill takes is a skill.
LEMMA NumberedFacts ==
    ASSUME turn \in 1..MaxTurns, NEW chosen \in CallSequences, NEW cs, cs = NumberCalls(chosen)
    PROVE  /\ IsSeq(cs) /\ IsSeq(Ids(cs)) /\ Len(Ids(cs)) = Len(cs)
           /\ chosen = <<>> <=> Len(cs) = 0
           /\ \A i \in 1..Len(cs) : /\ cs[i].id = CallId(i) /\ Ids(cs)[i] = CallId(i)
                                    /\ cs[i].tool = "load" => cs[i].skill \in Skills
<1>1. MaxCalls[turn] \in Nat BY AgentAssumption
<1>2. PICK n \in 0..MaxCalls[turn] : chosen \in [1..n -> Callable] BY DEF CallSequences
<1>3. n \in Nat BY <1>1
<1>4. chosen = [i \in 1..n |-> chosen[i]] /\ DOMAIN chosen = 1..n BY <1>2
<1>5. IsSeq(chosen) /\ Len(chosen) = n BY <1>3, <1>4, FunctionFacts
<1>6. chosen = <<>> <=> n = 0 BY <1>5, SeqFacts
<1>7. cs = [i \in 1..n |-> [tool |-> chosen[i][1], skill |-> chosen[i][2], id |-> CallId(i)]]
  BY <1>4 DEF NumberCalls
<1>8. cs = [i \in 1..n |-> cs[i]] BY <1>7
<1>9. IsSeq(cs) /\ Len(cs) = n /\ DOMAIN cs = 1..n BY <1>3, <1>8, FunctionFacts
<1>10. PICK ids : ids = Ids(cs) OBVIOUS
<1>11. ids = [i \in 1..n |-> cs[i].id] BY <1>9, <1>10 DEF Ids
<1>12. ids = [i \in 1..n |-> ids[i]] BY <1>11
<1>13. IsSeq(ids) /\ Len(ids) = n BY <1>3, <1>12, FunctionFacts
<1>14. ASSUME NEW i \in 1..n
       PROVE  /\ cs[i].id = CallId(i) /\ ids[i] = CallId(i)
              /\ cs[i].tool = "load" => cs[i].skill \in Skills
  <2>1. cs[i].tool = chosen[i][1] /\ cs[i].skill = chosen[i][2] /\ cs[i].id = CallId(i)
    BY <1>7
  <2>2. chosen[i] \in Callable BY <1>2
  <2>3. chosen[i][1] = "load" => chosen[i][2] \in Skills BY <2>2 DEF Callable
  <2>4. ids[i] = CallId(i) BY <1>11, <2>1
  <2> QED BY <2>1, <2>3, <2>4
<1> QED BY <1>6, <1>9, <1>10, <1>13, <1>14

\* An answer of the provider: nothing, or an assistant message with its calls.
LEMMA PersistTurnFacts ==
    ASSUME turn \in 1..MaxTurns, IsRecord(store), Sound(store.messages, store.skills),
           NEW size \in Nat, NEW chosen \in CallSequences, NEW reasoned \in BOOLEAN,
           NEW t, t = PersistTurn(size, chosen, reasoned), NEW ids, ids = Ids(NumberCalls(chosen))
    PROVE  /\ IsRecord(t) /\ t.skills = store.skills /\ Sound(t.messages, t.skills)
           /\ \/ chosen = <<>> /\ t = store
              \/ \E m : /\ m.role = "assistant" /\ m.calls = ids
                        /\ Appended(t.messages, store.messages, m)
<1>1. CASE size = 0 /\ chosen = <<>> /\ ~reasoned BY <1>1 DEF PersistTurn
<1>2. CASE ~(size = 0 /\ chosen = <<>> /\ ~reasoned)
  <2>1. PICK m : m = Assistant(size, ids) OBVIOUS
  <2>2. t = AddMessage(store, m) BY <1>2, <2>1 DEF PersistTurn
  <2>3. PICK cs : cs = NumberCalls(chosen) OBVIOUS
  <2>4. IsSeq(ids) BY <2>3, NumberedFacts
  <2>5. Shaped(m) /\ m.role = "assistant" /\ m.calls = ids /\ ~IsInjection(m)
    BY <2>1, <2>4, AssistantFacts
  <2>6. m.role # "tool" BY <2>5
  <2>7. /\ IsRecord(t) /\ t.skills = store.skills /\ Sound(t.messages, t.skills)
        /\ Appended(t.messages, store.messages, m)
    BY <2>2, <2>5, <2>6, AddSound
  <2> QED BY <2>5, <2>7
<1> QED BY <1>1, <1>2

\* A tool's answer: its effect on the active skills and the reply to its call.
LEMMA PersistFacts ==
    ASSUME IsRecord(store), Sound(store.messages, store.skills),
           NEW call, call.tool = "load" => call.skill \in Skills, NEW error \in BOOLEAN,
           NEW p, NEW ids, NEW done, TurnAt(store.messages, p, ids, done),
           call.id \in ids, call.id \notin done,
           NEW t, t = Persist(call, error)
    PROVE  /\ IsRecord(t) /\ Sound(t.messages, t.skills)
           /\ \E o : /\ TurnAt(t.messages, o, ids, done \cup {call.id})
                     /\ AnsweredBut(store.messages, p) => AnsweredBut(t.messages, o)
<1>1. PICK reply : reply = ToolResult(call.id, error) OBVIOUS
<1>2. /\ Shaped(reply) /\ reply.role = "tool" /\ reply.reply = call.id /\ reply.calls = <<>>
      /\ ~IsInjection(reply)
  BY <1>1, ResultFacts
<1>3. ASSUME NEW s, IsRecord(s), Sound(s.messages, s.skills), NEW o,
             TurnAt(s.messages, o, ids, done), t = AddMessage(s, reply)
      PROVE  /\ IsRecord(t) /\ Sound(t.messages, t.skills)
             /\ TurnAt(t.messages, o, ids, done \cup {call.id})
             /\ AnsweredBut(s.messages, o) => AnsweredBut(t.messages, o)
  <2>1. PICK ms : ms = s.messages OBVIOUS
  <2>2. PICK r : r = t.messages OBVIOUS
  <2>3. IsRecord(t) /\ r = Append(ms, reply) /\ t.skills = s.skills
    BY <1>3, <2>1, <2>2, AddFacts
  <2>4. Sound(ms, s.skills) /\ TurnAt(ms, o, ids, done) BY <1>3, <2>1
  <2>5. IsSeq(ms) /\ Tied(ms) BY <2>4, HistoryFacts DEF Sound
  <2>6. Appended(r, ms, reply) BY <2>3, <2>5 DEF Appended
  <2>7. reply.reply \in ids /\ reply.reply \notin done BY <1>2
  <2>8. TurnAt(r, o, ids, done \cup {reply.reply})
    BY <1>2, <2>4, <2>5, <2>6, <2>7, TurnGrows
  <2>9. Joins(r, o, Len(ms) + 1) /\ reply.reply \in CallIds(r[o])
    BY <1>2, <2>4, <2>5, <2>6, <2>7, TurnGrows
  <2>10. AnsweredBut(ms, o) => AnsweredBut(r, o)
    BY <1>2, <2>4, <2>5, <2>6, <2>7, TurnGrows
  <2>11. o \in 1..Len(ms) BY <2>4 DEF TurnAt
  <2>12. Tied(r) BY <2>5, <2>6, <2>9, <2>11, AppendTied
  <2>13. Sound(r, s.skills) BY <1>2, <2>4, <2>6, <2>12, AppendSound
  <2> QED BY <1>2, <2>1, <2>2, <2>3, <2>8, <2>10, <2>13
<1>4. CASE ~error /\ Loads(call)
  <2>1. PICK f : f = FALSE OBVIOUS
  <2>2. f \in BOOLEAN BY <2>1, Zenon
  <2>3. PICK m : m = SkillInjection(call.skill, "tool", call.id, f) OBVIOUS
  <2>4. call.skill \in Skills /\ call.skill \notin store.skills BY <1>4 DEF Loads
  <2>5. "tool" \in Roles BY DEF Roles
  <2>6. /\ Shaped(m) /\ m.role = "tool" /\ m.reply = call.id /\ m.calls = <<>>
        /\ IsInjection(m) /\ m.skill = call.skill
    BY <2>2, <2>3, <2>4, <2>5, InjectionFacts
  <2>7. t = InjectSkill(store, call.skill, m) BY <1>4, <2>1, <2>3 DEF Persist
  <2>8. t = Store(Append(store.messages, m), store.skills \cup {call.skill})
    BY <2>4, <2>7 DEF InjectSkill
  <2>9. PICK ms : ms = store.messages OBVIOUS
  <2>10. PICK r : r = Append(ms, m) OBVIOUS
  <2>11. IsRecord(t) /\ t.messages = r /\ t.skills = store.skills \cup {call.skill}
    BY <2>8, <2>9, <2>10 DEF Store, IsRecord
  <2>12. Sound(ms, store.skills) /\ TurnAt(ms, p, ids, done) BY <2>9
  <2>13. /\ IsHistory(ms) /\ Tied(ms) /\ store.skills \subseteq Skills
         /\ Carried(ms, store.skills)
    BY <2>12 DEF Sound
  <2>14. IsSeq(ms) BY <2>13, HistoryFacts
  <2>15. Appended(r, ms, m) BY <2>10, <2>14 DEF Appended
  <2>16. m.reply \in ids /\ m.reply \notin done BY <2>6
  <2>17. TurnAt(r, p, ids, done \cup {m.reply})
    BY <2>6, <2>12, <2>14, <2>15, <2>16, TurnGrows
  <2>18. Joins(r, p, Len(ms) + 1) /\ m.reply \in CallIds(r[p])
    BY <2>6, <2>12, <2>14, <2>15, <2>16, TurnGrows
  <2>19. AnsweredBut(ms, p) => AnsweredBut(r, p)
    BY <2>6, <2>12, <2>14, <2>15, <2>16, TurnGrows
  <2>20. p \in 1..Len(ms) BY <2>12 DEF TurnAt
  <2>21. Tied(r) BY <2>13, <2>14, <2>15, <2>18, <2>20, AppendTied
  <2>22. IsHistory(r) BY <2>6, <2>13, <2>15, AppendHistory
  <2>23. m.skill \notin store.skills BY <2>4, <2>6
  <2>24. Carried(r, store.skills \cup {m.skill})
    BY <2>6, <2>13, <2>14, <2>15, <2>23, InjectCarried
  <2>25. Sound(r, t.skills)
    BY <2>4, <2>6, <2>11, <2>13, <2>21, <2>22, <2>24 DEF Sound
  <2> QED BY <2>6, <2>9, <2>11, <2>17, <2>19, <2>25
<1>5. CASE ~error /\ ~Loads(call) /\ Removes(call)
  <2>1. PICK s : s = RemoveSessionSkill(store, call.skill) OBVIOUS
  <2>2. t = AddMessage(s, reply) BY <1>1, <1>5, <2>1 DEF Persist
  <2>3. call.skill \in store.skills BY <1>5 DEF Removes
  <2>4. Sound(s.messages, s.skills) BY <2>1, <2>3, RemoveFacts
  <2>5. IsRecord(s) BY <2>1, SkillsOnly
  <2>6. \E at : Thinned(s.messages, store.messages, at) BY <2>1, <2>3, RemoveFacts
  <2>7. PICK at : Thinned(s.messages, store.messages, at) BY <2>6
  <2>8. ids # {} OBVIOUS
  <2>9. \E o \in 1..Len(s.messages) :
            /\ TurnAt(s.messages, o, ids, done)
            /\ AnsweredBut(store.messages, p) => AnsweredBut(s.messages, o)
    BY <2>7, <2>8, ThinnedTurn
  <2>10. PICK o : /\ TurnAt(s.messages, o, ids, done)
                  /\ AnsweredBut(store.messages, p) => AnsweredBut(s.messages, o)
    BY <2>9
  <2> QED BY <1>3, <2>2, <2>4, <2>5, <2>10
<1>6. CASE error \/ (~Loads(call) /\ ~Removes(call))
  <2>1. t = AddMessage(store, reply) BY <1>1, <1>6 DEF Persist
  <2> QED BY <1>3, <2>1
<1> QED BY <1>4, <1>5, <1>6

-----------------------------------------------------------------------------
(* The invariant of the conversation *)

\* Where calls are carried out.
Calling == {"calls", "executing"}

AllCalls == {CallId(i) : i \in 1..Len(calls)}
DoneCalls == {CallId(i) : i \in 1..(next - 1)}

\* The calls of the turn are numbered, and next is the first that is not done.
CallsInv ==
    /\ Len(calls) \in Nat /\ next \in 1..(Len(calls) + 1)
    /\ stage \in Calling =>
          /\ Len(calls) >= 1
          /\ \A i \in 1..Len(calls) : /\ calls[i].id = CallId(i)
                                      /\ calls[i].tool = "load" => calls[i].skill \in Skills
    /\ stage = "executing" => next <= Len(calls)

TypesInv ==
    /\ failures \in Nat /\ hasImages \in BOOLEAN /\ cancel \in BOOLEAN
    /\ images \cup unanswered \subseteq (0..MaxRequests) \X (1..MaxTurns) \X Nat

\* The turn under way stands last in the conversation, with replies to the calls that are
\* done; nothing before it lacks a reply.
TurnInv ==
    \E p : /\ TurnAt(store.messages, p, AllCalls, DoneCalls)
           /\ Closed(saved.messages) => AnsweredBut(store.messages, p)

\* The stages, and the ends of a run, at which no call is open.
Settled ==
    \/ stage \in {"injecting", "turn", "model"}
    \/ StrictFinal /\ stage = "over" /\ finish \in {"complete", "max_turns", "tool_retry_limit"}

\* Both copies of the conversation hold the active skills' instructions, each once, and
\* every reply belongs to a call.
StoreInv ==
    /\ Sound(saved.messages, saved.skills) /\ Sound(store.messages, store.skills)
    /\ stage \in Calling => TurnInv
    /\ Settled /\ Closed(saved.messages) => Answered(store.messages)

-----------------------------------------------------------------------------

LEMMA CallsStep ==
    ASSUME LoopInv, CallsInv, [Next]_vars
    PROVE  CallsInv'
<1> USE DEF CallsInv, Calling
<1>1. CASE Submit
  <2>1. calls' = <<>> /\ next' = 1 /\ stage' = "injecting" BY <1>1 DEF Submit
  <2>2. Len(calls') = 0 BY <2>1
  <2> QED BY <2>1, <2>2
<1>2. CASE CallTools
  <2>1. PICK chosen \in CallSequences \ {<<>>} : calls' = NumberCalls(chosen)
    BY <1>2 DEF CallTools
  <2>2. /\ stage = "model" /\ stage' = "calls" /\ next' = 1 /\ UNCHANGED <<request, turn>>
    BY <1>2 DEF CallTools
  <2>3. turn \in 1..MaxTurns BY <2>2, AgentAssumption DEF LoopInv, Working
  <2>4. /\ IsSeq(calls') /\ (chosen = <<>> <=> Len(calls') = 0)
        /\ \A i \in 1..Len(calls') :
              /\ calls'[i].id = CallId(i)
              /\ calls'[i].tool = "load" => calls'[i].skill \in Skills
    BY <2>1, <2>3, NumberedFacts
  <2>5. Len(calls') \in Nat /\ Len(calls') # 0 BY <2>1, <2>4, SeqFacts
  <2>6. \A i : CallId(i)' = CallId(i) BY <2>2 DEF CallId
  <2> QED BY <2>2, <2>4, <2>5, <2>6
<1>3. CASE AnnounceCall
  <2>1. /\ stage = "calls" /\ next <= Len(calls) /\ stage' = "executing"
        /\ UNCHANGED <<calls, next, request, turn>>
    BY <1>3 DEF AnnounceCall
  <2>2. \A i : CallId(i)' = CallId(i) BY <2>1 DEF CallId
  <2> QED BY <2>1, <2>2
<1>4. CASE ExecuteCall
  <2>1. /\ stage = "executing" /\ stage' = "calls" /\ next' = next + 1
        /\ UNCHANGED <<calls, request, turn>>
    BY <1>4 DEF ExecuteCall
  <2>2. \A i : CallId(i)' = CallId(i) BY <2>1 DEF CallId
  <2> QED BY <2>1, <2>2
<1>5. CASE Cancel \/ UNCHANGED vars
  <2>1. UNCHANGED <<calls, next, request, turn, stage>> BY <1>5 DEF Cancel, vars
  <2>2. \A i : CallId(i)' = CallId(i) BY <2>1 DEF CallId
  <2> QED BY <2>1, <2>2
<1>6. CASE \/ Deliver \/ LoseStream \/ InjectNext \/ AddUserMessage \/ PrepareContext
           \/ LeaveCancelled \/ EndTurn \/ Fail \/ Answer \/ FinalAnswer
  <2>1. UNCHANGED <<calls, next>> /\ stage' \notin {"calls", "executing"}
    BY <1>6 DEF Deliver, LoseStream, InjectNext, AddUserMessage, PrepareContext,
                LeaveCancelled, EndTurn, Fail, Answer, FinalAnswer, Done
  <2> QED BY <2>1
<1> QED BY <1>1, <1>2, <1>3, <1>4, <1>5, <1>6 DEF Next, Loop, Outside

LEMMA CallIdTyped ==
    ASSUME LoopInv, stage \in Working, NEW i \in Nat
    PROVE  CallId(i) \in (0..MaxRequests) \X (1..MaxTurns) \X Nat
<1>1. turn \in 1..MaxTurns BY AgentAssumption DEF LoopInv
<1>2. request \in 0..MaxRequests /\ 0 \in 0..MaxRequests BY AgentAssumption DEF LoopInv
<1> QED BY <1>1, <1>2 DEF CallId

LEMMA TypesStep ==
    ASSUME LoopInv, CallsInv, TypesInv, [Next]_vars
    PROVE  TypesInv'
<1> DEFINE Keys == (0..MaxRequests) \X (1..MaxTurns) \X Nat
<1>0. failures \in Nat /\ images \cup unanswered \subseteq Keys BY DEF TypesInv
<1>1. hasImages \in BOOLEAN /\ cancel \in BOOLEAN BY DEF TypesInv
<1>2. ASSUME stage \in Calling, NEW i \in 1..Len(calls) PROVE calls[i].id \in Keys
  <2>1. calls[i].id = CallId(i) /\ i \in Nat BY <1>2 DEF CallsInv
  <2>2. stage \in Working BY <1>2 DEF Working, Calling
  <2> QED BY <2>1, <2>2, CallIdTyped
<1> HIDE DEF Keys
<1>3. failures' \in Nat
  <2>1. failures' \in {0, failures, failures + 1}
    BY DEF Next, vars, Loop, Outside, Submit, Deliver, LoseStream, Cancel, InjectNext,
           AddUserMessage, PrepareContext, LeaveCancelled, AnnounceCall, EndTurn, Fail,
           Answer, FinalAnswer, CallTools, ExecuteCall
  <2> QED BY <1>0, <2>1
<1>4. hasImages' \in BOOLEAN
  <2>1. CASE Submit \/ CallTools BY <2>1, Zenon DEF Submit, CallTools
  <2>2. CASE ExecuteCall BY <2>2, Zenon DEF ExecuteCall
  <2>3. CASE ~(Submit \/ CallTools \/ ExecuteCall)
    <3>1. hasImages' = hasImages
      BY <2>3 DEF Next, vars, Loop, Outside, Deliver, LoseStream, Cancel, InjectNext,
             AddUserMessage, PrepareContext, LeaveCancelled, AnnounceCall, EndTurn, Fail,
             Answer, FinalAnswer
    <3> QED BY <1>1, <3>1, Zenon
  <2> QED BY <2>1, <2>2, <2>3
<1>5. cancel' \in BOOLEAN
  <2>1. CASE Submit \/ Cancel BY <2>1, Zenon DEF Submit, Cancel
  <2>2. CASE ~(Submit \/ Cancel)
    <3>1. cancel' = cancel
      BY <2>2 DEF Next, vars, Loop, Outside, Deliver, LoseStream, InjectNext,
             AddUserMessage, PrepareContext, LeaveCancelled, AnnounceCall, EndTurn, Fail,
             Answer, FinalAnswer, CallTools, ExecuteCall
    <3> QED BY <1>1, <3>1, Zenon
  <2> QED BY <2>1, <2>2
<1>6. images' \cup unanswered' \subseteq Keys
  <2>1. CASE Submit BY <2>1 DEF Submit
  <2>2. CASE AnnounceCall
    <3>1. /\ stage = "calls" /\ next <= Len(calls) /\ UNCHANGED images
          /\ unanswered' = unanswered \cup {calls[next].id}
      BY <2>2 DEF AnnounceCall
    <3>2. next \in 1..Len(calls) BY <3>1 DEF CallsInv
    <3>3. calls[next].id \in Keys BY <1>2, <3>1, <3>2 DEF Calling
    <3> QED BY <1>0, <3>1, <3>3
  <2>3. CASE ExecuteCall BY <1>0, <2>3 DEF ExecuteCall
  <2>4. CASE EndTurn
    <3>1. /\ stage = "calls" /\ UNCHANGED unanswered
          /\ images' \subseteq images \cup {calls[Len(calls)].id}
      BY <2>4 DEF EndTurn
    <3>2. Len(calls) \in 1..Len(calls) BY <3>1 DEF CallsInv, Calling
    <3>3. calls[Len(calls)].id \in Keys BY <1>2, <3>1, <3>2 DEF Calling
    <3> QED BY <1>0, <3>1, <3>3
  <2>5. CASE ~(Submit \/ AnnounceCall \/ ExecuteCall \/ EndTurn)
    <3>1. UNCHANGED <<images, unanswered>>
      BY <2>5 DEF Next, vars, Loop, Outside, Deliver, LoseStream, Cancel, InjectNext,
             AddUserMessage, PrepareContext, LeaveCancelled, Fail,
             Answer, FinalAnswer, CallTools
    <3> QED BY <1>0, <3>1
  <2> QED BY <2>1, <2>2, <2>3, <2>4, <2>5
<1> QED BY <1>3, <1>4, <1>5, <1>6 DEF TypesInv, Keys

-----------------------------------------------------------------------------
(* Each step *)

\* What the loop keeps between its steps.
LEMMA RequestBegins ==
    ASSUME DefaultsInv, StoreInv, Submit
    PROVE  StoreInv'
<1>1. /\ saved' = AddMessage(saved, UserText) /\ store' = Seeded(saved)
      /\ stage' = "injecting"
  BY DEF Submit
<1>2. PICK m : m = UserText OBVIOUS
<1>3. "user" \in Roles /\ "none" \in Kinds /\ 1 \in Nat BY DEF Roles, Kinds
<1>4. Shaped(m) /\ m.role = "user" /\ ~IsInjection(m)
  BY <1>2, <1>3, TextFacts DEF UserText
<1>5. m.role # "tool" BY <1>4
<1>6. IsRecord(saved) /\ Sound(saved.messages, saved.skills) BY DEF DefaultsInv, StoreInv
<1>7. PICK s : s = saved OBVIOUS
<1>8. PICK u : u = saved' OBVIOUS
<1>9. u = AddMessage(s, m) BY <1>1, <1>2, <1>7, <1>8
<1>10. IsRecord(s) /\ Sound(s.messages, s.skills) BY <1>6, <1>7
<1>11. Sound(u.messages, u.skills) /\ Appended(u.messages, s.messages, m)
  BY <1>4, <1>5, <1>9, <1>10, AddSound
<1>12. PICK t : t = Seeded(s) OBVIOUS
<1>13. Sound(t.messages, t.skills) BY <1>10, <1>12, SeededFacts
<1>14. \E at : Thinned(t.messages, s.messages, at) BY <1>10, <1>12, SeededFacts
<1>15. ASSUME Closed(u.messages) PROVE Answered(t.messages)
  <2>1. Answered(u.messages) BY <1>15, ClosedAnswered
  <2>2. Answered(s.messages) BY <1>5, <1>11, <2>1, AnsweredBefore
  <2>3. PICK at : Thinned(t.messages, s.messages, at) BY <1>14
  <2> QED BY <2>2, <2>3, ThinnedAnswered
<1>16. store' = t BY <1>1, <1>7, <1>12
<1> QED BY <1>1, <1>8, <1>11, <1>13, <1>15, <1>16 DEF StoreInv, Calling, Settled

\* Steps that leave both copies of the conversation alone.
LEMMA CopiesKept ==
    ASSUME StoreInv, UNCHANGED <<saved, store>>, (stage \in Calling)' => TurnInv',
           Settled' => Settled
    PROVE  StoreInv'
<1>1. Sound(saved.messages, saved.skills) /\ Sound(store.messages, store.skills)
  BY DEF StoreInv
<1>2. Settled /\ Closed(saved.messages) => Answered(store.messages) BY DEF StoreInv
<1> QED BY <1>1, <1>2 DEF StoreInv

LEMMA ContextArrives ==
    ASSUME StoreInv, Deliver
    PROVE  StoreInv'
<1>1. saved' = store /\ store' = store /\ stage' = "idle" BY DEF Deliver
<1>2. Sound(store.messages, store.skills) BY DEF StoreInv
<1> QED BY <1>1, <1>2 DEF StoreInv, Calling, Settled

LEMMA SkillsArrive ==
    ASSUME DefaultsInv, StoreInv, InjectNext
    PROVE  StoreInv'
<1>1. PICK k : k = Head(toInject)[1] OBVIOUS
<1>2. PICK f : f = (Head(toInject)[2] = "default") OBVIOUS
<1>3. f \in BOOLEAN BY <1>2, Zenon
<1>4. /\ stage = "injecting" /\ toInject # <<>> /\ UNCHANGED <<saved, stage>>
      /\ store' = InjectSkill(store, k, SkillInjection(k, "user", NoCall, f))
  BY <1>1, <1>2 DEF InjectNext
<1>5. k \in Skills
  <2>1. toInject \in Seq(Skills \X {"default", "explicit"}) BY DEF DefaultsInv, IsPending
  <2> QED BY <1>1, <1>4, <2>1
<1>6. IsRecord(store) /\ Sound(store.messages, store.skills) BY DEF DefaultsInv, StoreInv
<1>7. PICK t : t = store' OBVIOUS
<1>8. /\ Sound(t.messages, t.skills)
      /\ Answered(store.messages) => Answered(t.messages)
  BY <1>3, <1>4, <1>5, <1>6, <1>7, InjectSound
<1>9. Closed(saved.messages) => Answered(store.messages) BY <1>4 DEF StoreInv, Settled
<1> QED BY <1>4, <1>7, <1>8, <1>9 DEF StoreInv, Calling

LEMMA UserIsHeard ==
    ASSUME DefaultsInv, StoreInv, AddUserMessage
    PROVE  StoreInv'
<1>1. /\ stage = "injecting" /\ stage' = "turn" /\ UNCHANGED saved
      /\ store' = AddMessage(store, UserText)
  BY DEF AddUserMessage
<1>2. PICK m : m = UserText OBVIOUS
<1>3. "user" \in Roles /\ "none" \in Kinds /\ 1 \in Nat BY DEF Roles, Kinds
<1>4. Shaped(m) /\ m.role = "user" /\ m.calls = <<>> /\ ~IsInjection(m)
  BY <1>2, <1>3, TextFacts DEF UserText
<1>5. m.role # "tool" BY <1>4
<1>6. IsRecord(store) /\ Sound(store.messages, store.skills) BY DEF DefaultsInv, StoreInv
<1>7. PICK t : t = store' OBVIOUS
<1>8. Sound(t.messages, t.skills) /\ Appended(t.messages, store.messages, m)
  BY <1>1, <1>2, <1>4, <1>5, <1>6, <1>7, AddSound
<1>9. Closed(saved.messages) => Answered(store.messages) BY <1>1 DEF StoreInv, Settled
<1>10. Answered(store.messages) => Answered(t.messages) BY <1>4, <1>8, AddAnswered
<1> QED BY <1>1, <1>7, <1>8, <1>9, <1>10 DEF StoreInv, Calling

LEMMA ContextIsPrepared ==
    ASSUME DefaultsInv, StoreInv, PrepareContext
    PROVE  StoreInv'
<1>1. PICK ok \in BOOLEAN : store' = ReplaceMessages(store, Prepare(store.messages, ok))
  BY DEF PrepareContext
<1>2. stage = "turn" /\ stage' = "model" /\ UNCHANGED saved BY DEF PrepareContext
<1>3. PICK ms : ms = store.messages OBVIOUS
<1>4. PICK r : r = Prepare(ms, ok) OBVIOUS
<1>5. IsRecord(store) /\ Sound(ms, store.skills) BY <1>3 DEF DefaultsInv, StoreInv
<1>6. store' = [store EXCEPT !.messages = r] BY <1>1, <1>3, <1>4 DEF ReplaceMessages
<1>7. store'.messages = r /\ store'.skills = store.skills BY <1>5, <1>6 DEF IsRecord
<1>8. Sound(r, store.skills) BY <1>4, <1>5, PrepareSound
<1>9. IsHistory(ms) /\ Tied(ms) BY <1>5 DEF Sound
<1>10. Answered(ms) => Answered(r) BY <1>4, <1>9, PrepareHistory
<1>11. Closed(saved.messages) => Answered(ms) BY <1>2, <1>3 DEF StoreInv, Settled
<1> QED BY <1>2, <1>5, <1>7, <1>8, <1>10, <1>11 DEF StoreInv, Calling

LEMMA TurnStarts ==
    ASSUME LoopInv, DefaultsInv, StoreInv, CallTools
    PROVE  StoreInv'
<1>1. PICK size \in {0, 1}, chosen \in CallSequences \ {<<>>} :
          store' = PersistTurn(size, chosen, FALSE) /\ calls' = NumberCalls(chosen)
  BY DEF CallTools
<1>2. /\ stage = "model" /\ stage' = "calls" /\ next' = 1
      /\ UNCHANGED <<saved, request, turn>>
  BY DEF CallTools
<1>3. turn \in 1..MaxTurns BY <1>2, AgentAssumption DEF LoopInv, Working
<1>4. IsRecord(store) /\ Sound(store.messages, store.skills) BY DEF DefaultsInv, StoreInv
<1>5. PICK f : f = FALSE OBVIOUS
<1>6. f \in BOOLEAN BY <1>5, Zenon
<1>7. PICK t : t = PersistTurn(size, chosen, f) OBVIOUS
<1>8. store' = t BY <1>1, <1>5, <1>7
<1>9. PICK ids : ids = Ids(NumberCalls(chosen)) OBVIOUS
<1>10. size \in Nat /\ chosen \in CallSequences /\ chosen # <<>> BY <1>1
<1>11. /\ Sound(t.messages, t.skills)
       /\ \/ chosen = <<>> /\ t = store
          \/ \E m : /\ m.role = "assistant" /\ m.calls = ids
                    /\ Appended(t.messages, store.messages, m)
  BY <1>3, <1>4, <1>6, <1>7, <1>9, <1>10, PersistTurnFacts
<1>12. PICK m : /\ m.role = "assistant" /\ m.calls = ids
                /\ Appended(t.messages, store.messages, m)
  BY <1>10, <1>11
<1>13. PICK p : p = Len(store.messages) + 1 OBVIOUS
<1>14. IsSeq(store.messages) BY <1>12 DEF Appended
<1>15. TurnAt(t.messages, p, CallIds(m), {}) BY <1>12, <1>13, <1>14, TurnBegins
<1>16. CallIds(m) = {CallId(i) : i \in 1..Len(calls')}
  <2>1. /\ IsSeq(ids) /\ Len(ids) = Len(calls')
        /\ \A i \in 1..Len(calls') : ids[i] = CallId(i)
    BY <1>1, <1>3, <1>9, <1>10, NumberedFacts
  <2>2. DOMAIN ids = 1..Len(calls') BY <2>1, SeqFacts
  <2> QED BY <1>12, <2>1, <2>2 DEF CallIds
<1>17. \A i : CallId(i)' = CallId(i) BY <1>2 DEF CallId
<1>18. AllCalls' = CallIds(m) BY <1>16, <1>17 DEF AllCalls
<1>19. DoneCalls' = {}
  <2>1. 1..(1 - 1) = {} OBVIOUS
  <2> QED BY <1>2, <2>1 DEF DoneCalls
<1>20. ASSUME Closed(saved.messages) PROVE AnsweredBut(t.messages, p)
  <2>1. Answered(store.messages) BY <1>2, <1>20 DEF StoreInv, Settled
  <2> QED BY <1>12, <1>13, <1>14, <2>1, AppendAnswered
<1>21. TurnInv' BY <1>2, <1>8, <1>15, <1>18, <1>19, <1>20 DEF TurnInv
<1>22. Sound(saved.messages, saved.skills) BY DEF StoreInv
<1> QED BY <1>2, <1>8, <1>11, <1>21, <1>22 DEF StoreInv, Settled

LEMMA ToolAnswers ==
    ASSUME LoopInv, DefaultsInv, CallsInv, StoreInv, ExecuteCall
    PROVE  StoreInv'
<1>1. PICK error \in BOOLEAN : store' = Persist(calls[next], error) BY DEF ExecuteCall
<1>2. /\ stage = "executing" /\ stage' = "calls" /\ next' = next + 1
      /\ UNCHANGED <<saved, calls, request, turn>>
  BY DEF ExecuteCall
<1>3. IsRecord(store) /\ Sound(store.messages, store.skills) BY DEF DefaultsInv, StoreInv
<1>4. /\ Len(calls) \in Nat /\ next \in 1..Len(calls)
      /\ \A i \in 1..Len(calls) : /\ calls[i].id = CallId(i)
                                  /\ calls[i].tool = "load" => calls[i].skill \in Skills
  BY <1>2 DEF CallsInv, Calling
<1>5. PICK call : call = calls[next] OBVIOUS
<1>6. call.id = CallId(next) /\ (call.tool = "load" => call.skill \in Skills)
  BY <1>4, <1>5
<1>7. PICK ids : ids = AllCalls OBVIOUS
<1>8. PICK done : done = DoneCalls OBVIOUS
<1>9. PICK p : /\ TurnAt(store.messages, p, ids, done)
               /\ Closed(saved.messages) => AnsweredBut(store.messages, p)
  BY <1>2, <1>7, <1>8 DEF StoreInv, Calling, TurnInv
<1>10. call.id \in ids BY <1>4, <1>6, <1>7 DEF AllCalls
<1>11. \A i, j \in Nat : CallId(i) = CallId(j) => i = j BY DEF CallId
<1>12. call.id \notin done
  <2>1. \A i \in 1..(next - 1) : i \in Nat /\ i # next BY <1>4
  <2>2. next \in Nat BY <1>4
  <2> QED BY <1>6, <1>8, <1>11, <2>1, <2>2 DEF DoneCalls
<1>13. PICK t : t = Persist(call, error) OBVIOUS
<1>14. /\ Sound(t.messages, t.skills)
       /\ \E o : /\ TurnAt(t.messages, o, ids, done \cup {call.id})
                 /\ AnsweredBut(store.messages, p) => AnsweredBut(t.messages, o)
  BY <1>3, <1>6, <1>9, <1>10, <1>12, <1>13, PersistFacts
<1>15. store' = t BY <1>1, <1>5, <1>13
<1>16. \A i : CallId(i)' = CallId(i) BY <1>2 DEF CallId
<1>17. AllCalls' = ids BY <1>2, <1>7, <1>16 DEF AllCalls
<1>18. DoneCalls' = done \cup {call.id}
  <2>1. \A i : i \in 1..next <=> i \in 1..(next - 1) \/ i = next BY <1>4
  <2>2. next' - 1 = next BY <1>2, <1>4
  <2>3. DoneCalls' = {CallId(i)' : i \in 1..(next' - 1)} BY DEF DoneCalls
  <2>4. DoneCalls' = {CallId(i) : i \in 1..next} BY <1>16, <2>2, <2>3
  <2> QED BY <1>6, <1>8, <2>1, <2>4 DEF DoneCalls
<1>19. TurnInv' BY <1>2, <1>9, <1>14, <1>15, <1>17, <1>18 DEF TurnInv
<1>20. Sound(saved.messages, saved.skills) BY DEF StoreInv
<1> QED BY <1>2, <1>14, <1>15, <1>19, <1>20 DEF StoreInv, Settled

\* A text of the loop: the user's words to a run, the control message, the limit.
LEMMA AddText ==
    ASSUME NEW s, IsRecord(s), Sound(s.messages, s.skills),
           NEW m, m \in {UserText, Control, Limit}, NEW t, t = AddMessage(s, m)
    PROVE  /\ IsRecord(t) /\ t.skills = s.skills /\ Sound(t.messages, t.skills)
           /\ Answered(s.messages) => Answered(t.messages)
<1>1. {"user", "assistant"} \subseteq Roles /\ 1 \in Nat
      /\ {"none", "agent_control", "agent_limit"} \subseteq Kinds
  BY DEF Roles, Kinds
<1>2. PICK role \in {"user", "assistant"}, kind \in {"none", "agent_control", "agent_limit"} :
          m = Text(role, kind, 1)
  BY DEF UserText, Control, Limit
<1>3. role \in Roles /\ kind \in Kinds /\ kind # "skill_injection" BY <1>1, <1>2
<1>4. Shaped(m) /\ m.role = role /\ m.calls = <<>> /\ ~IsInjection(m)
  BY <1>1, <1>2, <1>3, TextFacts
<1>5. m.role # "tool" BY <1>2, <1>4
<1>6. /\ IsRecord(t) /\ t.skills = s.skills /\ Sound(t.messages, t.skills)
      /\ Appended(t.messages, s.messages, m)
  BY <1>4, <1>5, AddSound
<1>7. Answered(s.messages) => Answered(t.messages) BY <1>4, <1>6, AddAnswered
<1> QED BY <1>6, <1>7

LEMMA TurnIsOver ==
    ASSUME DefaultsInv, CallsInv, StoreInv, EndTurn
    PROVE  StoreInv'
<1>1. /\ stage = "calls" /\ next > Len(calls) /\ UNCHANGED saved
      /\ stage' \in {"over", "turn"}
  BY DEF EndTurn, Done
<1>2. PICK told : told = IF failures > MaxToolRetries THEN AddMessage(store, Control) ELSE store
  OBVIOUS
<1>3. store' = told \/ store' = AddMessage(told, Limit) BY <1>2 DEF EndTurn
<1>4. IsRecord(store) /\ Sound(store.messages, store.skills) BY DEF DefaultsInv, StoreInv
<1>5. /\ IsRecord(told) /\ Sound(told.messages, told.skills)
      /\ Answered(store.messages) => Answered(told.messages)
  <2>1. CASE told = store BY <1>4, <2>1
  <2>2. CASE told = AddMessage(store, Control) BY <1>4, <2>2, AddText
  <2> QED BY <1>2, <2>1, <2>2
<1>6. PICK t : t = store' OBVIOUS
<1>7. /\ Sound(t.messages, t.skills)
      /\ Answered(told.messages) => Answered(t.messages)
  <2>1. CASE t = told BY <1>5, <2>1
  <2>2. CASE t = AddMessage(told, Limit) BY <1>5, <2>2, AddText
  <2> QED BY <1>3, <1>6, <2>1, <2>2
<1>8. ASSUME Closed(saved.messages) PROVE Answered(store.messages)
  <2>1. PICK p : /\ TurnAt(store.messages, p, AllCalls, DoneCalls)
                 /\ AnsweredBut(store.messages, p)
    BY <1>1, <1>8 DEF StoreInv, Calling, TurnInv
  <2>2. next - 1 = Len(calls) BY <1>1 DEF CallsInv
  <2>3. AllCalls \subseteq DoneCalls BY <2>2 DEF AllCalls, DoneCalls
  <2>4. IsSeq(store.messages)
    <3>1. IsHistory(store.messages) BY <1>4 DEF Sound
    <3> QED BY <3>1, HistoryFacts
  <2> QED BY <2>1, <2>3, <2>4, TurnEnds
<1>9. Sound(saved.messages, saved.skills) BY DEF StoreInv
<1> QED BY <1>1, <1>5, <1>6, <1>7, <1>8, <1>9 DEF StoreInv, Calling

\* The provider answers, and the run is over.
LEMMA ProviderAnswers ==
    ASSUME LoopInv, DefaultsInv, StoreInv, Answer
    PROVE  StoreInv'
<1>1. PICK size \in {0, 1}, reasoned \in BOOLEAN : store' = PersistTurn(size, <<>>, reasoned)
  BY DEF Answer
<1>2. stage = "model" /\ stage' = "over" /\ UNCHANGED saved BY DEF Answer, Done
<1>3. turn \in 1..MaxTurns BY <1>2, AgentAssumption DEF LoopInv, Working
<1>4. IsRecord(store) /\ Sound(store.messages, store.skills) BY DEF DefaultsInv, StoreInv
<1>5. PICK chosen : chosen = <<>> OBVIOUS
<1>6. chosen \in CallSequences
  <2>1. MaxCalls[turn] \in Nat BY <1>3, AgentAssumption
  <2>2. 0 \in 0..MaxCalls[turn] BY <2>1
  <2>3. chosen \in [1..0 -> Callable] BY <1>5
  <2> QED BY <2>2, <2>3 DEF CallSequences
<1>7. PICK t : t = PersistTurn(size, chosen, reasoned) OBVIOUS
<1>8. PICK ids : ids = Ids(NumberCalls(chosen)) OBVIOUS
<1>9. size \in Nat BY <1>1
<1>10. /\ Sound(t.messages, t.skills)
       /\ \/ chosen = <<>> /\ t = store
          \/ \E m : /\ m.role = "assistant" /\ m.calls = ids
                    /\ Appended(t.messages, store.messages, m)
  BY <1>3, <1>4, <1>6, <1>7, <1>8, <1>9, PersistTurnFacts
<1>11. ids = <<>>
  <2>1. PICK cs : cs = NumberCalls(chosen) OBVIOUS
  <2>2. /\ IsSeq(ids) /\ Len(ids) = Len(cs)
        /\ chosen = <<>> <=> Len(cs) = 0
    BY <1>3, <1>6, <1>8, <2>1, NumberedFacts
  <2> QED BY <1>5, <2>2, SeqFacts
<1>12. Answered(store.messages) => Answered(t.messages)
  <2>1. CASE t = store BY <2>1
  <2>2. CASE \E m : /\ m.role = "assistant" /\ m.calls = ids
                    /\ Appended(t.messages, store.messages, m)
    BY <1>11, <2>2, AddAnswered
  <2> QED BY <1>10, <2>1, <2>2
<1>13. store' = t BY <1>1, <1>5, <1>7
<1>14. Closed(saved.messages) => Answered(store.messages) BY <1>2 DEF StoreInv, Settled
<1>15. Sound(saved.messages, saved.skills) BY DEF StoreInv
<1> QED BY <1>2, <1>10, <1>12, <1>13, <1>14, <1>15 DEF StoreInv, Calling

LEMMA ProviderIsForced ==
    ASSUME LoopInv, DefaultsInv, StoreInv, FinalAnswer
    PROVE  StoreInv'
<1>13. PICK size \in {0, 1}, chosen \in CallSequences, reasoned \in BOOLEAN :
          /\ StrictFinal => chosen = <<>>
          /\ \/ store' = PersistTurn(size, chosen, reasoned)
             \/ store' = AddMessage(PersistTurn(size, chosen, reasoned), Limit)
  BY DEF FinalAnswer
<1>14. PICK t : t = PersistTurn(size, chosen, reasoned) OBVIOUS
<1>1. /\ StrictFinal => chosen = <<>>
      /\ t = PersistTurn(size, chosen, reasoned)
      /\ store' = t \/ store' = AddMessage(t, Limit)
  BY <1>13, <1>14
<1>2. stage = "model" /\ stage' = "over" /\ UNCHANGED saved BY DEF FinalAnswer, Done
<1>3. turn \in 1..MaxTurns BY <1>2, AgentAssumption DEF LoopInv, Working
<1>4. IsRecord(store) /\ Sound(store.messages, store.skills) BY DEF DefaultsInv, StoreInv
<1>5. PICK ids : ids = Ids(NumberCalls(chosen)) OBVIOUS
<1>6. size \in Nat BY <1>13
<1>7. /\ IsRecord(t) /\ Sound(t.messages, t.skills)
      /\ \/ chosen = <<>> /\ t = store
         \/ \E m : /\ m.role = "assistant" /\ m.calls = ids
                   /\ Appended(t.messages, store.messages, m)
  BY <1>1, <1>13, <1>3, <1>4, <1>5, <1>6, PersistTurnFacts
<1>8. ASSUME StrictFinal, Answered(store.messages) PROVE Answered(t.messages)
  <2>1. chosen = <<>> BY <1>1, <1>8
  <2>2. PICK cs : cs = NumberCalls(chosen) OBVIOUS
  <2>3. /\ IsSeq(ids) /\ Len(ids) = Len(cs)
        /\ chosen = <<>> <=> Len(cs) = 0
    BY <1>13, <1>3, <1>5, <2>2, NumberedFacts
  <2>4. ids = <<>> BY <2>1, <2>3, SeqFacts
  <2>5. CASE t = store BY <1>8, <2>5
  <2>6. CASE \E m : /\ m.role = "assistant" /\ m.calls = ids
                    /\ Appended(t.messages, store.messages, m)
    BY <1>8, <2>4, <2>6, AddAnswered
  <2> QED BY <1>7, <2>5, <2>6
<1>9. PICK u : u = store' OBVIOUS
<1>10. /\ Sound(u.messages, u.skills)
       /\ Answered(t.messages) => Answered(u.messages)
  <2>1. CASE u = t BY <1>7, <2>1
  <2>2. CASE u = AddMessage(t, Limit) BY <1>7, <2>2, AddText
  <2> QED BY <1>1, <1>9, <2>1, <2>2
<1>11. Closed(saved.messages) => Answered(store.messages) BY <1>2 DEF StoreInv, Settled
<1>12. Sound(saved.messages, saved.skills) BY DEF StoreInv
<1> QED BY <1>2, <1>8, <1>9, <1>10, <1>11, <1>12 DEF StoreInv, Calling, Settled

LEMMA StoreStep ==
    ASSUME LoopInv, DefaultsInv, CallsInv, StoreInv, [Next]_vars
    PROVE  StoreInv'
<1>1. CASE Submit BY <1>1, RequestBegins
<1>2. CASE Deliver BY <1>2, ContextArrives
<1>3. CASE InjectNext BY <1>3, SkillsArrive
<1>4. CASE AddUserMessage BY <1>4, UserIsHeard
<1>5. CASE PrepareContext BY <1>5, ContextIsPrepared
<1>6. CASE CallTools BY <1>6, TurnStarts
<1>7. CASE ExecuteCall BY <1>7, ToolAnswers
<1>8. CASE EndTurn BY <1>8, TurnIsOver
<1>9. CASE Answer BY <1>9, ProviderAnswers
<1>10. CASE FinalAnswer BY <1>10, ProviderIsForced
<1>11. CASE LoseStream \/ LeaveCancelled \/ Fail
  <2>1. /\ UNCHANGED <<saved, store>>
        /\ \/ stage' = "idle"
           \/ stage' = "over" /\ finish' \in {"aborted", "error"}
    BY <1>11 DEF LoseStream, LeaveCancelled, Fail, Done
  <2> QED BY <2>1, CopiesKept DEF Calling, Settled
<1>12. CASE AnnounceCall \/ Cancel \/ UNCHANGED vars
  <2>1. /\ UNCHANGED <<saved, store, calls, next, request, turn, finish>>
        /\ stage' = stage \/ (stage = "calls" /\ stage' = "executing")
    BY <1>12 DEF AnnounceCall, Cancel, vars
  <2>2. \A i : CallId(i)' = CallId(i) BY <2>1 DEF CallId
  <2>3. AllCalls' = AllCalls /\ DoneCalls' = DoneCalls BY <2>1, <2>2 DEF AllCalls, DoneCalls
  <2>4. (stage \in Calling)' => TurnInv'
    BY <2>1, <2>3 DEF StoreInv, TurnInv, Calling
  <2>5. Settled' => Settled BY <2>1 DEF Settled
  <2> QED BY <2>1, <2>4, <2>5, CopiesKept
<1> QED BY <1>1, <1>2, <1>3, <1>4, <1>5, <1>6, <1>7, <1>8, <1>9, <1>10, <1>11, <1>12
        DEF Next, Loop, Outside

-----------------------------------------------------------------------------
(* The theorems about the messages *)

\* The inductive invariant: both copies of the conversation hold each active skill's
\* instructions once and no reply without its call; while tools run, the turn under way
\* stands last, with the replies of exactly the calls already executed.
THEOREM ConversationInvariant == Spec => [](CallsInv /\ TypesInv /\ StoreInv)
<1>1. Init => CallsInv /\ TypesInv /\ StoreInv
  <2> SUFFICES ASSUME Init PROVE CallsInv /\ TypesInv /\ StoreInv OBVIOUS
  <2>1. /\ stage = "idle" /\ calls = <<>> /\ next = 1 /\ failures = 0
        /\ images = {} /\ unanswered = {} /\ saved = EmptyStore /\ store = EmptyStore
    BY DEF Init
  <2>2. hasImages \in BOOLEAN /\ cancel \in BOOLEAN BY Zenon DEF Init
  <2>3. Len(calls) = 0 BY <2>1
  <2>4. CallsInv BY <2>1, <2>3 DEF CallsInv, Calling
  <2>5. TypesInv BY <2>1, <2>2 DEF TypesInv
  <2>6. PICK ms : ms = <<>> OBVIOUS
  <2>7. PICK none : none = {} OBVIOUS
  <2>8. saved.messages = ms /\ saved.skills = none /\ store.messages = ms /\ store.skills = none
    BY <2>1, <2>6, <2>7 DEF EmptyStore, Store
  <2>9. IsHistory(ms) /\ Tied(ms) BY <2>6, EmptyHistory
  <2>10. Len(ms) = 0 BY <2>6
  <2>11. Carried(ms, none) BY <2>7, <2>10 DEF Carried
  <2>12. Sound(ms, none) BY <2>7, <2>9, <2>11 DEF Sound
  <2> QED BY <2>1, <2>4, <2>5, <2>8, <2>12 DEF StoreInv, Calling, Settled
<1>2. LoopInv /\ DefaultsInv /\ CallsInv /\ TypesInv /\ StoreInv /\ [Next]_vars
          => (CallsInv /\ TypesInv /\ StoreInv)'
  BY CallsStep, TypesStep, StoreStep
<1> QED BY <1>1, <1>2, AgentLoopInvariant, PTL DEF Spec

LEMMA SoundStore ==
    ASSUME NEW s, Sound(s.messages, s.skills)
    PROVE  IsStore(s)
<1>1. IsHistory(s.messages) /\ s.skills \subseteq Skills BY DEF Sound
<1>2. \A i \in DOMAIN s.messages : IsMessage(s.messages[i]) BY <1>1 DEF IsHistory, Shaped
<1> QED BY <1>1, <1>2 DEF IsStore

\* Every variable keeps its type; above all, every message that seeding, removal and
\* compaction rewrite is still a message.
THEOREM TypesAlwaysHold == Spec => []TypeOK
<1>1. LoopInv /\ CallsInv /\ TypesInv /\ StoreInv => TypeOK
  <2> SUFFICES ASSUME LoopInv, CallsInv, TypesInv, StoreInv PROVE TypeOK OBVIOUS
  <2>1. IsStore(saved) /\ IsStore(store) BY SoundStore DEF StoreInv
  <2>2. request \in 0..MaxRequests /\ turn \in 0..MaxTurns /\ stage \in Stages
        /\ finish \in Reasons
    BY DEF LoopInv
  <2>3. failures \in Nat /\ next \in 1..(Len(calls) + 1) BY DEF TypesInv, CallsInv
  <2>4. {forceFinal, hasImages, cancel} \subseteq BOOLEAN BY Zenon DEF LoopInv, TypesInv
  <2>5. images \cup unanswered \subseteq (0..MaxRequests) \X (1..MaxTurns) \X Nat
    BY DEF TypesInv
  <2> QED BY <2>1, <2>2, <2>3, <2>4, <2>5 DEF TypeOK
<1> QED BY <1>1, AgentLoopInvariant, ConversationInvariant, PTL

\* SkillManager's active set and the conversation agree, in the browser's copy and in the
\* request's store: an active skill's instructions are there exactly once, a removed one's
\* are gone, whatever the loads, removals, compactions and round trips.
THEOREM SkillsAlwaysMatch == Spec => []SkillBookkeeping
<1>1. StoreInv => SkillBookkeeping BY SoundMatches DEF StoreInv, SkillBookkeeping
<1> QED BY <1>1, ConversationInvariant, PTL

\* A run of AgentCore that completes or stops at a limit, begun on a closed history, has
\* answered every call it announced and leaves a closed history, if a provider that is
\* offered no tools in the forced turn calls none.
THEOREM FinishedRunsStayClosed == StrictFinal => (Spec => []FinishedRunsAreClosed)
<1> SUFFICES ASSUME StrictFinal PROVE Spec => []FinishedRunsAreClosed OBVIOUS
<1>1. LoopInv /\ StoreInv => FinishedRunsAreClosed
  <2> SUFFICES ASSUME LoopInv, StoreInv,
                      finish \in {"complete", "max_turns", "tool_retry_limit"},
                      Closed(saved.messages)
               PROVE  unanswered = {} /\ (stage = "over" => Closed(store.messages))
    BY DEF FinishedRunsAreClosed
  <2>1. unanswered = {} BY DEF LoopInv
  <2>2. ASSUME stage = "over" PROVE Closed(store.messages)
    <3>1. Answered(store.messages) BY <2>2 DEF StoreInv, Settled
    <3>2. IsHistory(store.messages) /\ Tied(store.messages) BY DEF StoreInv, Sound
    <3>3. IsSeq(store.messages) BY <3>2, HistoryFacts
    <3> QED BY <3>1, <3>2, <3>3, TiedAnsweredClosed
  <2> QED BY <2>1, <2>2
<1> QED BY <1>1, AgentLoopInvariant, ConversationInvariant, PTL

-----------------------------------------------------------------------------
(* Replies and the texts between them *)

\* A message behind the others.
LEMMA AppendLast ==
    ASSUME NEW ms, NEW m, NEW r, Appended(r, ms, m)
    PROVE  /\ \A R : RepliesIn(ms, R) /\ (m.role = "tool" => m.reply \in R) => RepliesIn(r, R)
           /\ \A S : LastReplies(ms, S)
                     /\ (m.role = "tool" =>
                            ~(Len(ms) >= 1 /\ ms[Len(ms)].role = "tool"
                              /\ ms[Len(ms)].reply \in S))
                         => LastReplies(r, S)
<1>1. /\ Len(r) = Len(ms) + 1 /\ Len(ms) \in Nat
      /\ \A n \in 1..Len(ms) : r[n] = ms[n]
      /\ r[Len(ms) + 1] = m
  BY AppendedFacts
<1>2. \A k \in 1..Len(r) : k \in 1..Len(ms) \/ k = Len(ms) + 1 BY <1>1
<1>3. \A R : RepliesIn(ms, R) /\ (m.role = "tool" => m.reply \in R) => RepliesIn(r, R)
  BY <1>1, <1>2 DEF RepliesIn
<1>4. ASSUME NEW S, LastReplies(ms, S),
             m.role = "tool" => ~(Len(ms) >= 1 /\ ms[Len(ms)].role = "tool"
                                  /\ ms[Len(ms)].reply \in S),
             NEW k \in 1..Len(r), r[k].role = "tool", r[k].reply \in S
      PROVE  EndsAt(r, k)
  <2>1. CASE k = Len(ms) + 1 BY <1>1, <2>1 DEF EndsAt
  <2>2. CASE k \in 1..Len(ms)
    <3>1. r[k] = ms[k] BY <1>1, <2>2
    <3>2. EndsAt(ms, k) BY <1>4, <2>2, <3>1 DEF LastReplies
    <3>3. CASE k = Len(ms)
      <4>1. Len(ms) >= 1 BY <1>1, <2>2, <3>3
      <4>2. m.role # "tool" BY <1>4, <3>1, <3>3, <4>1
      <4> QED BY <1>1, <3>3, <4>2 DEF EndsAt
    <3>4. CASE k # Len(ms)
      <4>1. ms[k + 1].role # "tool" BY <3>2, <3>4 DEF EndsAt
      <4>2. k + 1 \in 1..Len(ms) BY <1>1, <2>2, <3>4
      <4> QED BY <1>1, <4>1, <4>2 DEF EndsAt
    <3> QED BY <3>3, <3>4
  <2> QED BY <1>2, <2>1, <2>2
<1>5. \A S : LastReplies(ms, S)
             /\ (m.role = "tool" => ~(Len(ms) >= 1 /\ ms[Len(ms)].role = "tool"
                                      /\ ms[Len(ms)].reply \in S))
                 => LastReplies(r, S)
  BY <1>4 DEF LastReplies
<1> QED BY <1>3, <1>5

\* At n stands a text, behind a reply of ms that is the last of its turn.
TextBehind(v, ms, n, i, at) ==
    /\ n = at[i] + 1 /\ v[n].role # "tool" /\ CallIds(v[n]) = {}
    /\ EndsAt(ms, i)

\* v is ms with texts inserted; at tells where each message went.
Inserted(v, ms, at) ==
    /\ IsSeq(v) /\ IsSeq(ms)
    /\ \A i \in 1..Len(ms) : at[i] \in 1..Len(v) /\ v[at[i]] = ms[i]
    /\ \A i, j \in 1..Len(ms) : i < j => at[i] < at[j]
    /\ \A n \in 1..Len(v) : \E i \in 1..Len(ms) : n = at[i] \/ TextBehind(v, ms, n, i, at)

LEMMA InsertedFacts ==
    ASSUME NEW v, NEW ms, NEW at, Inserted(v, ms, at)
    PROVE  /\ Len(v) \in Nat /\ Len(ms) \in Nat
           /\ DOMAIN v = 1..Len(v) /\ DOMAIN ms = 1..Len(ms)
           /\ \A i \in 1..Len(ms) : at[i] \in 1..Len(v) /\ at[i] \in Nat /\ v[at[i]] = ms[i]
<1>1. /\ Len(v) \in Nat /\ Len(ms) \in Nat
      /\ DOMAIN v = 1..Len(v) /\ DOMAIN ms = 1..Len(ms)
  BY SeqFacts DEF Inserted
<1>2. \A i \in 1..Len(ms) : at[i] \in 1..Len(v) /\ v[at[i]] = ms[i] BY DEF Inserted
<1>3. \A i \in 1..Len(ms) : at[i] \in Nat BY <1>1, <1>2
<1> QED BY <1>1, <1>2, <1>3

LEMMA InsertedOrder ==
    ASSUME NEW v, NEW ms, NEW at, Inserted(v, ms, at),
           NEW i \in 1..Len(ms), NEW j \in 1..Len(ms)
    PROVE  i < j <=> at[i] < at[j]
<1>1. Len(ms) \in Nat /\ at[i] \in Nat /\ at[j] \in Nat BY InsertedFacts
<1>2. PICK x : x = at[i] OBVIOUS
<1>3. PICK y : y = at[j] OBVIOUS
<1>4. i < j => x < y BY <1>2, <1>3 DEF Inserted
<1>5. j < i => y < x BY <1>2, <1>3 DEF Inserted
<1>6. i = j => x = y BY <1>2, <1>3
<1>7. i \in Nat /\ j \in Nat BY <1>1
<1>8. x \in Nat /\ y \in Nat BY <1>1, <1>2, <1>3
<1>9. i < j <=> x < y BY <1>4, <1>5, <1>6, <1>7, <1>8
<1> QED BY <1>2, <1>3, <1>9

\* No text comes between a call and its replies.
LEMMA InsertedFollowing ==
    ASSUME NEW v, NEW ms, NEW at, Inserted(v, ms, at), NEW i \in 1..Len(ms),
           NEW j \in FollowingReplies(ms, i), NEW p, p = at[i], NEW q, q = at[j]
    PROVE  q \in FollowingReplies(v, p) /\ p < q /\ j \in 1..Len(ms)
<1>1. Len(v) \in Nat /\ Len(ms) \in Nat BY InsertedFacts
<1>2. j \in (i + 1)..Len(ms) /\ \A k \in (i + 1)..j : ms[k].role = "tool"
  BY DEF FollowingReplies
<1>3. i \in Nat /\ j \in Nat /\ j \in 1..Len(ms) /\ i < j BY <1>1, <1>2
<1>4. p \in Nat /\ p \in 1..Len(v) BY InsertedFacts
<1>5. q \in Nat /\ q \in 1..Len(v) BY <1>3, InsertedFacts
<1>6. p < q BY <1>3, InsertedOrder
<1>7. ASSUME NEW n \in (p + 1)..q PROVE v[n].role = "tool"
  <2>1. n \in 1..Len(v) /\ n \in Nat /\ p < n /\ n <= q BY <1>1, <1>4, <1>5
  <2>2. PICK l \in 1..Len(ms) : n = at[l] \/ TextBehind(v, ms, n, l, at)
    BY <2>1 DEF Inserted
  <2>3. PICK x : x = at[l] OBVIOUS
  <2>4. x \in Nat /\ l \in Nat /\ v[x] = ms[l] BY <1>1, <2>3, InsertedFacts
  <2>5. i < l <=> p < x BY <2>3, InsertedOrder
  <2>6. j < l <=> q < x BY <1>3, <2>3, InsertedOrder
  <2>7. l < j <=> x < q BY <1>3, <2>3, InsertedOrder
  <2>8. l < i <=> x < p BY <2>3, InsertedOrder
  <2>9. CASE n = x
    <3>1. i < l /\ ~(j < l) BY <1>5, <2>1, <2>4, <2>5, <2>6, <2>9
    <3>2. l \in (i + 1)..j BY <1>3, <2>4, <3>1
    <3> QED BY <1>2, <2>4, <2>9, <3>2
  <2>10. CASE TextBehind(v, ms, n, l, at)
    <3>1. n = x + 1 /\ EndsAt(ms, l) BY <2>3, <2>10 DEF TextBehind
    <3>2. ~(x < p) /\ x < q BY <1>4, <1>5, <2>1, <2>4, <3>1
    <3>3. ~(l < i) /\ l < j BY <2>7, <2>8, <3>2
    <3>4. l + 1 \in (i + 1)..j /\ l # Len(ms) BY <1>1, <1>3, <2>4, <3>3
    <3>5. ms[l + 1].role = "tool" BY <1>2, <3>4
    <3> QED BY <3>1, <3>4, <3>5 DEF EndsAt
  <2> QED BY <2>2, <2>3, <2>9, <2>10
<1>8. q \in (p + 1)..Len(v) BY <1>1, <1>4, <1>5, <1>6
<1> QED BY <1>3, <1>6, <1>7, <1>8 DEF FollowingReplies

LEMMA InsertedClosed ==
    ASSUME NEW v, NEW ms, NEW at, Inserted(v, ms, at), Closed(ms)
    PROVE  Closed(v)
<1>1. /\ Len(v) \in Nat /\ Len(ms) \in Nat
      /\ DOMAIN v = 1..Len(v) /\ DOMAIN ms = 1..Len(ms)
  BY InsertedFacts
<1>2. ASSUME NEW n \in 1..Len(v), NEW x \in CallIds(v[n])
      PROVE  \E q \in FollowingReplies(v, n) : x = v[q].reply
  <2>1. PICK i \in 1..Len(ms) : n = at[i] \/ TextBehind(v, ms, n, i, at) BY DEF Inserted
  <2>2. n = at[i] BY <1>2, <2>1 DEF TextBehind
  <2>3. v[n] = ms[i] BY <2>2, InsertedFacts
  <2>4. CallIds(ms[i]) \subseteq {ms[j].reply : j \in FollowingReplies(ms, i)}
    BY <1>1 DEF Closed
  <2>5. PICK j \in FollowingReplies(ms, i) : x = ms[j].reply BY <1>2, <2>3, <2>4
  <2>6. PICK q : q = at[j] OBVIOUS
  <2>7. q \in FollowingReplies(v, n) /\ j \in 1..Len(ms) BY <2>2, <2>6, InsertedFollowing
  <2>8. v[q] = ms[j] BY <2>6, <2>7, InsertedFacts
  <2> QED BY <2>5, <2>7, <2>8
<1>3. ASSUME NEW n \in 1..Len(v), v[n].role = "tool"
      PROVE  \E p \in 1..(n - 1) : v[n].reply \in CallIds(v[p]) /\ n \in FollowingReplies(v, p)
  <2>1. PICK k \in 1..Len(ms) : n = at[k] \/ TextBehind(v, ms, n, k, at) BY DEF Inserted
  <2>2. n = at[k] BY <1>3, <2>1 DEF TextBehind
  <2>3. v[n] = ms[k] BY <2>2, InsertedFacts
  <2>4. PICK i \in 1..(k - 1) : ms[k].reply \in CallIds(ms[i]) /\ k \in FollowingReplies(ms, i)
    BY <1>1, <1>3, <2>3 DEF Closed
  <2>5. i \in 1..Len(ms) BY <1>1
  <2>6. PICK p : p = at[i] OBVIOUS
  <2>7. n \in FollowingReplies(v, p) /\ p < n BY <2>2, <2>4, <2>5, <2>6, InsertedFollowing
  <2>8. v[p] = ms[i] /\ p \in 1..Len(v) BY <2>5, <2>6, InsertedFacts
  <2>9. p \in 1..(n - 1) BY <1>1, <2>7, <2>8
  <2> QED BY <2>3, <2>4, <2>7, <2>8, <2>9
<1>4. \A n \in DOMAIN v : CallIds(v[n]) \subseteq {v[q].reply : q \in FollowingReplies(v, n)}
  BY <1>1, <1>2
<1> QED BY <1>1, <1>3, <1>4 DEF Closed

\* What InsertEphemeral makes of a conversation.
LEMMA EphemeralInserted ==
    ASSUME NEW ms, IsSeq(ms), LastReplies(ms, images), NEW v, v = InsertEphemeral(ms)
    PROVE  \E at : Inserted(v, ms, at)
<1>1. PICK t : t = Text("user", "none", 1) OBVIOUS
<1>2. t.role # "tool" /\ CallIds(t) = {} BY <1>1 DEF Text, CallIds
<1>3. PICK last : last = Len(ms) OBVIOUS
<1>4. last \in Nat /\ DOMAIN ms = 1..last BY <1>3, SeqFacts
<1>5. PICK qs : qs = [i \in 1..last |-> IF ms[i].role = "tool" /\ ms[i].reply \in images
                                        THEN <<ms[i], t>> ELSE <<ms[i]>>]
  OBVIOUS
<1>6. v = Flatten(qs) BY <1>1, <1>4, <1>5 DEF InsertEphemeral, Flatten
<1>7. IsSeq(qs) /\ Len(qs) = last BY <1>4, <1>5, FunctionFacts
<1>8. ASSUME NEW i \in 1..last
      PROVE  /\ IsSeq(qs[i]) /\ Len(qs[i]) \in {1, 2} /\ qs[i][1] = ms[i]
             /\ Len(qs[i]) = 2 => qs[i][2] = t /\ EndsAt(ms, i)
  <2>1. PICK m : m = ms[i] OBVIOUS
  <2>2. PICK q : q = qs[i] OBVIOUS
  <2>3. CASE m.role = "tool" /\ m.reply \in images
    <3>1. q = <<m, t>> BY <1>5, <2>1, <2>2, <2>3
    <3>2. q \in Seq({m, t}) /\ Len(q) = 2 /\ q[1] = m /\ q[2] = t BY <3>1
    <3>3. IsSeq(q) BY <3>2, OwnElements
    <3>4. EndsAt(ms, i) BY <1>3, <2>1, <2>3 DEF LastReplies
    <3> QED BY <2>1, <2>2, <3>2, <3>3, <3>4
  <2>4. CASE ~(m.role = "tool" /\ m.reply \in images)
    <3>1. q = <<m>> BY <1>5, <2>1, <2>2, <2>4
    <3>2. IsSeq(q) /\ Len(q) = 1 /\ q[1] = m BY <3>1, SingleSeq
    <3> QED BY <2>1, <2>2, <3>2
  <2> QED BY <2>3, <2>4
<1>9. PICK off : Laid(v, qs, off)
  <2>1. \A k \in 1..Len(qs) : IsSeq(qs[k]) BY <1>7, <1>8
  <2> QED BY <1>6, <1>7, <2>1, FlattenLaid
<1>10. PICK at : at = [i \in 1..last |-> off[i] + 1] OBVIOUS
<1>11. ASSUME NEW i \in 1..last
       PROVE  /\ off[i] \in Nat /\ off[i + 1] \in Nat /\ at[i] = off[i] + 1
              /\ off[i + 1] = off[i] + Len(qs[i]) /\ at[i] <= off[i + 1]
              /\ at[i] \in 1..Len(v) /\ v[at[i]] = ms[i]
              /\ Len(qs[i]) = 2 => v[off[i] + 2] = t
  <2>1. PICK d : d = off[i] OBVIOUS
  <2>2. PICK e : e = off[i + 1] OBVIOUS
  <2>3. PICK q : q = qs[i] OBVIOUS
  <2>4. /\ Len(v) \in Nat /\ d \in Nat /\ e \in Nat /\ e = d + Len(q) /\ e <= Len(v)
        /\ \A n \in 1..Len(q) : v[d + n] = q[n]
    BY <1>7, <1>9, <2>1, <2>2, <2>3, LaidFacts
  <2>5. Len(q) \in {1, 2} /\ q[1] = ms[i] /\ (Len(q) = 2 => q[2] = t) BY <1>8, <2>3
  <2>6. at[i] = d + 1 BY <1>10, <2>1
  <2>7. 1 \in 1..Len(q) /\ (Len(q) = 2 => 2 \in 1..Len(q)) BY <2>5
  <2>8. v[d + 1] = ms[i] /\ (Len(q) = 2 => v[d + 2] = t) BY <2>4, <2>5, <2>7
  <2>9. d + 1 <= e /\ d + 1 \in 1..Len(v) BY <2>4, <2>5
  <2> QED BY <2>1, <2>2, <2>3, <2>4, <2>6, <2>8, <2>9
<1>12. ASSUME NEW i \in 1..last, NEW j \in 1..last, i < j PROVE at[i] < at[j]
  <2>1. off[i + 1] <= off[j] BY <1>7, <1>9, <1>12, OffsetsClimb
  <2>2. PICK e : e = off[i + 1] OBVIOUS
  <2>3. PICK d : d = off[j] OBVIOUS
  <2>4. at[i] <= e /\ e \in Nat /\ at[i] \in Nat BY <1>9, <1>11, <2>2, LaidFacts
  <2>5. d \in Nat /\ at[j] = d + 1 BY <1>11, <2>3
  <2> QED BY <2>1, <2>2, <2>3, <2>4, <2>5
<1>13. ASSUME NEW n \in 1..Len(v)
       PROVE  \E i \in 1..last : n = at[i] \/ TextBehind(v, ms, n, i, at)
  <2>1. PICK i \in 1..Len(qs) : off[i] < n /\ n <= off[i + 1] BY <1>9, Located
  <2>2. i \in 1..last BY <1>7, <2>1
  <2>3. PICK d : d = off[i] OBVIOUS
  <2>4. PICK c : c = Len(qs[i]) OBVIOUS
  <2>5. n \in Nat BY <1>9, LaidFacts
  <2>6. d \in Nat /\ at[i] = d + 1 /\ off[i + 1] = d + c BY <1>11, <2>2, <2>3, <2>4
  <2>7. c \in {1, 2} BY <1>8, <2>2, <2>4
  <2>8. d < n /\ n <= d + c BY <2>1, <2>3, <2>6
  <2>9. n = d + 1 \/ (n = d + 2 /\ c = 2) BY <2>5, <2>6, <2>7, <2>8
  <2>10. CASE n = d + 1 BY <2>2, <2>6, <2>10
  <2>11. CASE n = d + 2 /\ c = 2
    <3>1. v[n] = t BY <1>11, <2>2, <2>3, <2>4, <2>11
    <3>2. EndsAt(ms, i) BY <1>8, <2>2, <2>4, <2>11
    <3>3. n = at[i] + 1 BY <2>5, <2>6, <2>11
    <3>4. TextBehind(v, ms, n, i, at) BY <1>2, <3>1, <3>2, <3>3 DEF TextBehind
    <3> QED BY <2>2, <3>4
  <2> QED BY <2>9, <2>10, <2>11
<1>14. IsSeq(v) BY <1>9 DEF Laid
<1>15. Inserted(v, ms, at) BY <1>3, <1>11, <1>12, <1>13, <1>14 DEF Inserted
<1> QED BY <1>15

LEMMA ViewClosed ==
    ASSUME NEW ms, IsSeq(ms), LastReplies(ms, images), Closed(ms)
    PROVE  Closed(InsertEphemeral(ms))
<1>1. PICK v : v = InsertEphemeral(ms) OBVIOUS
<1>2. PICK at : Inserted(v, ms, at) BY <1>1, EphemeralInserted
<1> QED BY <1>1, <1>2, InsertedClosed

-----------------------------------------------------------------------------
(* Steps that add no reply *)

\* r has only replies of ms, and those that stand last in ms stand last in r.
KeepsReplies(r, ms) ==
    /\ \A R : RepliesIn(ms, R) => RepliesIn(r, R)
    /\ \A S : LastReplies(ms, S) => LastReplies(r, S)

LEMMA KeepsSelf == ASSUME NEW ms PROVE KeepsReplies(ms, ms)
BY DEF KeepsReplies

LEMMA KeepsTwice ==
    ASSUME NEW r, NEW t, NEW ms, KeepsReplies(r, t), KeepsReplies(t, ms)
    PROVE  KeepsReplies(r, ms)
BY DEF KeepsReplies

LEMMA KeepsAdded ==
    ASSUME NEW ms, NEW m, m.role # "tool", NEW r, Appended(r, ms, m)
    PROVE  KeepsReplies(r, ms)
<1>1. \A R : RepliesIn(ms, R) /\ (m.role = "tool" => m.reply \in R) => RepliesIn(r, R)
  BY AppendLast
<1>2. \A S : LastReplies(ms, S)
             /\ (m.role = "tool" =>
                    ~(Len(ms) >= 1 /\ ms[Len(ms)].role = "tool" /\ ms[Len(ms)].reply \in S))
                 => LastReplies(r, S)
  BY AppendLast
<1>3. \A R : RepliesIn(ms, R) => RepliesIn(r, R) BY <1>1
<1>4. \A S : LastReplies(ms, S) => LastReplies(r, S) BY <1>2
<1> QED BY <1>3, <1>4 DEF KeepsReplies

LEMMA KeepsThinned ==
    ASSUME NEW r, NEW ms, NEW at, Thinned(r, ms, at), Tied(ms)
    PROVE  KeepsReplies(r, ms)
BY ThinnedLast DEF KeepsReplies

LEMMA KeepsPrepared ==
    ASSUME NEW ms, IsHistory(ms), Tied(ms), NEW summaryOk \in BOOLEAN,
           NEW r, r = Prepare(ms, summaryOk)
    PROVE  KeepsReplies(r, ms)
BY PrepareLast DEF KeepsReplies

\* A message of the loop that is no reply.
LEMMA KeepsMessage ==
    ASSUME NEW s, IsRecord(s), IsSeq(s.messages), NEW m, m.role # "tool",
           NEW t, t = AddMessage(s, m)
    PROVE  IsRecord(t) /\ IsSeq(t.messages) /\ KeepsReplies(t.messages, s.messages)
<1>1. PICK ms : ms = s.messages OBVIOUS
<1>2. PICK r : r = t.messages OBVIOUS
<1>3. IsRecord(t) /\ r = Append(ms, m) BY <1>1, <1>2, AddFacts
<1>4. IsSeq(ms) BY <1>1
<1>5. Appended(r, ms, m) BY <1>3, <1>4 DEF Appended
<1>6. KeepsReplies(r, ms) BY <1>5, KeepsAdded
<1>7. IsSeq(r) BY <1>5, AppendedFacts
<1> QED BY <1>1, <1>2, <1>3, <1>6, <1>7

\* An answer of the provider, the user's words, the control message and the limit.
LEMMA SpokenRoles ==
    /\ UserText.role # "tool" /\ Control.role # "tool" /\ Limit.role # "tool"
    /\ \A size, ids : Assistant(size, ids).role # "tool"
BY DEF UserText, Control, Limit, Text, Assistant

LEMMA KeepsTurn ==
    ASSUME IsRecord(store), IsSeq(store.messages), NEW size, NEW chosen, NEW reasoned,
           NEW t, t = PersistTurn(size, chosen, reasoned)
    PROVE  IsRecord(t) /\ IsSeq(t.messages) /\ KeepsReplies(t.messages, store.messages)
<1>1. PICK m : m = Assistant(size, Ids(NumberCalls(chosen))) OBVIOUS
<1>2. m.role # "tool" BY <1>1, SpokenRoles
<1>3. t = store \/ t = AddMessage(store, m) BY <1>1 DEF PersistTurn
<1>4. CASE t = store BY <1>4, KeepsSelf
<1>5. CASE t = AddMessage(store, m)
  <2>1. PICK s : s = store OBVIOUS
  <2>2. IsRecord(s) /\ IsSeq(s.messages) /\ t = AddMessage(s, m) BY <1>5, <2>1
  <2>3. IsRecord(t) /\ IsSeq(t.messages) /\ KeepsReplies(t.messages, s.messages)
    BY <1>2, <2>2, KeepsMessage
  <2> QED BY <2>1, <2>3
<1> QED BY <1>3, <1>4, <1>5

\* A tool's answer is a reply behind a conversation from which instructions may be gone.
LEMMA ThinnedSelf ==
    ASSUME NEW ms, IsSeq(ms)
    PROVE  \E at : Thinned(ms, ms, at)
<1>1. Len(ms) \in Nat BY SeqFacts
<1>2. PICK at : at = [k \in 1..Len(ms) |-> k] OBVIOUS
<1>3. \A k \in 1..Len(ms) : at[k] = k BY <1>2
<1>4. Thinned(ms, ms, at) BY <1>3 DEF Thinned
<1> QED BY <1>4

LEMMA PersistShape ==
    ASSUME IsRecord(store), Sound(store.messages, store.skills),
           NEW call, call.tool = "load" => call.skill \in Skills, NEW error \in BOOLEAN,
           NEW t, t = Persist(call, error)
    PROVE  \E u, at, m : /\ Thinned(u, store.messages, at) /\ Appended(t.messages, u, m)
                         /\ m.role = "tool" /\ m.reply = call.id
<1>1. IsSeq(store.messages)
  <2>1. IsHistory(store.messages) BY DEF Sound
  <2> QED BY <2>1, HistoryFacts
<1>2. PICK reply : reply = ToolResult(call.id, error) OBVIOUS
<1>3. reply.role = "tool" /\ reply.reply = call.id BY <1>2, ResultFacts
<1>4. PICK id : Thinned(store.messages, store.messages, id) BY <1>1, ThinnedSelf
<1>5. CASE ~error /\ Loads(call)
  <2>1. PICK f : f = FALSE OBVIOUS
  <2>2. f \in BOOLEAN BY <2>1, Zenon
  <2>3. PICK m : m = SkillInjection(call.skill, "tool", call.id, f) OBVIOUS
  <2>4. call.skill \in Skills /\ call.skill \notin store.skills BY <1>5 DEF Loads
  <2>5. "tool" \in Roles BY DEF Roles
  <2>6. m.role = "tool" /\ m.reply = call.id BY <2>2, <2>3, <2>4, <2>5, InjectionFacts
  <2>7. t = InjectSkill(store, call.skill, m) BY <1>5, <2>1, <2>3 DEF Persist
  <2>8. t = Store(Append(store.messages, m), store.skills \cup {call.skill})
    BY <2>4, <2>7 DEF InjectSkill
  <2>9. t.messages = Append(store.messages, m) BY <2>8 DEF Store
  <2>10. Appended(t.messages, store.messages, m) BY <1>1, <2>9 DEF Appended
  <2> QED BY <1>4, <2>6, <2>10
<1>6. CASE ~error /\ ~Loads(call) /\ Removes(call)
  <2>1. PICK s : s = RemoveSessionSkill(store, call.skill) OBVIOUS
  <2>2. t = AddMessage(s, reply) BY <1>2, <1>6, <2>1 DEF Persist
  <2>3. call.skill \in store.skills BY <1>6 DEF Removes
  <2>4. IsRecord(s) BY <2>1, SkillsOnly
  <2>5. \E at : Thinned(s.messages, store.messages, at) BY <2>1, <2>3, RemoveFacts
  <2>6. PICK at : Thinned(s.messages, store.messages, at) BY <2>5
  <2>7. IsSeq(s.messages) BY <2>6 DEF Thinned
  <2>8. t.messages = Append(s.messages, reply) BY <2>2, <2>4, AddFacts
  <2>9. Appended(t.messages, s.messages, reply) BY <2>7, <2>8 DEF Appended
  <2> QED BY <1>3, <2>6, <2>9
<1>7. CASE error \/ (~Loads(call) /\ ~Removes(call))
  <2>1. t = AddMessage(store, reply) BY <1>2, <1>7 DEF Persist
  <2>2. t.messages = Append(store.messages, reply) BY <2>1, AddFacts
  <2>3. Appended(t.messages, store.messages, reply) BY <1>1, <2>2 DEF Appended
  <2> QED BY <1>3, <1>4, <2>3
<1> QED BY <1>5, <1>6, <1>7

-----------------------------------------------------------------------------
(* Images come last *)

\* Ids of the calls made before call n of turn t in run r.
Before(r, t, n) ==
    {id \in Nat \X Nat \X Nat : \/ id[1] < r
                                \/ id[1] = r /\ id[2] < t
                                \/ id[1] = r /\ id[2] = t /\ id[3] < n}

LEMMA BeforeGrows ==
    ASSUME NEW r \in Nat, NEW t \in Nat, NEW n \in Nat,
           NEW q \in Nat, NEW u \in Nat, NEW m \in Nat
    PROVE  /\ r < q => Before(r, t, n) \subseteq Before(q, u, m)
           /\ t < u => Before(r, t, n) \subseteq Before(r, u, m)
           /\ n <= m => Before(r, t, n) \subseteq Before(r, t, m)
<1>1. ASSUME NEW id \in Before(r, t, n)
      PROVE  /\ id \in Nat \X Nat \X Nat /\ id[1] \in Nat /\ id[2] \in Nat /\ id[3] \in Nat
             /\ id[1] < r \/ (id[1] = r /\ id[2] < t) \/ (id[1] = r /\ id[2] = t /\ id[3] < n)
  BY DEF Before
<1>2. ASSUME r < q, NEW id \in Before(r, t, n) PROVE id \in Before(q, u, m)
  <2>1. id[1] < q BY <1>1, <1>2
  <2> QED BY <1>1, <1>2, <2>1 DEF Before
<1>3. ASSUME t < u, NEW id \in Before(r, t, n) PROVE id \in Before(r, u, m)
  <2>1. id[1] < r \/ (id[1] = r /\ id[2] < u) BY <1>1, <1>3
  <2> QED BY <1>1, <1>3, <2>1 DEF Before
<1>4. ASSUME n <= m, NEW id \in Before(r, t, n) PROVE id \in Before(r, t, m)
  <2>1. id[1] < r \/ (id[1] = r /\ id[2] < t) \/ (id[1] = r /\ id[2] = t /\ id[3] < m)
    BY <1>1, <1>4
  <2> QED BY <1>1, <1>4, <2>1 DEF Before
<1> QED BY <1>2, <1>3, <1>4

LEMMA BeforeIn ==
    ASSUME NEW r \in Nat, NEW t \in Nat, NEW n \in Nat, NEW m \in Nat
    PROVE  <<r, t, n>> \in Before(r, t, m) <=> n < m
<1>1. <<r, t, n>> \in Nat \X Nat \X Nat OBVIOUS
<1> QED BY <1>1 DEF Before

\* The run as call ids show it.
Run == IF ProviderIds THEN request ELSE 0

Earlier(n) == Before(Run, turn, n)

\* Ids of all calls of the requests sent so far.
Sent == IF request = 0 THEN {} ELSE Before(Run + 1, 0, 0)

LEMMA RunFacts ==
    ASSUME LoopInv
    PROVE  Run \in Nat /\ turn \in Nat /\ request \in Nat
<1>1. turn \in Nat /\ request \in Nat BY AgentAssumption DEF LoopInv
<1> QED BY <1>1 DEF Run

LEMMA CallIsNew ==
    ASSUME LoopInv, NEW i \in Nat, NEW n \in Nat
    PROVE  CallId(i) \in Earlier(n) <=> i < n
<1>1. Run \in Nat /\ turn \in Nat BY RunFacts
<1>2. CallId(i) = <<Run, turn, i>> BY DEF CallId, Run
<1> QED BY <1>1, <1>2, BeforeIn DEF Earlier

LEMMA EarlierGrows ==
    ASSUME LoopInv, NEW n \in Nat, NEW m \in Nat
    PROVE  /\ n <= m => Earlier(n) \subseteq Earlier(m)
           /\ request # 0 => Earlier(n) \subseteq Sent
<1>1. Run \in Nat /\ turn \in Nat BY RunFacts
<1>2. n <= m => Earlier(n) \subseteq Earlier(m) BY <1>1, BeforeGrows DEF Earlier
<1>3. Run < Run + 1 /\ Run + 1 \in Nat /\ 0 \in Nat BY <1>1
<1>4. Earlier(n) \subseteq Before(Run + 1, 0, 0) BY <1>1, <1>3, BeforeGrows DEF Earlier
<1> QED BY <1>2, <1>4 DEF Sent

\* Runs whose calls no other run names.
NamedApart == ProviderIds \/ MaxRequests <= 1

\* Images follow the last reply of their turn, and a reply never comes behind one with
\* images: replies arrive in the order of their calls.
ImagesInv ==
    /\ RepliesIn(saved.messages, Sent) /\ RepliesIn(store.messages, Sent)
    /\ stage # "idle" => request # 0
    /\ stage = "injecting" => turn = 0 /\ images = {}
    /\ stage \in {"injecting", "turn", "model"} => RepliesIn(store.messages, Earlier(1))
    /\ stage \in Working => images \subseteq Earlier(1) /\ LastReplies(store.messages, images)
    /\ stage \in Calling =>
          /\ RepliesIn(store.messages, Earlier(next))
          /\ next > 1 => LastReplies(store.messages, {CallId(next - 1)})

LEMMA KeepsIn ==
    ASSUME NEW r, NEW ms, KeepsReplies(r, ms), NEW R, RepliesIn(ms, R), NEW S, R \subseteq S
    PROVE  RepliesIn(r, S)
<1>1. RepliesIn(r, R) BY DEF KeepsReplies
<1> QED BY <1>1 DEF RepliesIn

LEMMA KeepsLast ==
    ASSUME NEW r, NEW ms, KeepsReplies(r, ms), NEW S, LastReplies(ms, S)
    PROVE  LastReplies(r, S)
BY DEF KeepsReplies

\* Steps of the loop that add no reply.
LEMMA NothingReplied ==
    ASSUME ImagesInv, KeepsReplies(store'.messages, store.messages),
           UNCHANGED <<saved, request, turn, images>>,
           stage' \in {"injecting", "turn", "model"} => stage' = stage \/ (stage = "turn" /\ stage' = "model"),
           stage' \in Calling => \/ stage \in Calling /\ next' = next
                                 \/ stage = "model" /\ next' = 1,
           stage' # "idle" => stage # "idle"
    PROVE  ImagesInv'
<1>1. \A n : Earlier(n)' = Earlier(n) BY DEF Earlier, Run
<1>2. Sent' = Sent BY DEF Sent, Run
<1>3. \A n : CallId(n)' = CallId(n) BY DEF CallId
<1>4. /\ RepliesIn(saved.messages, Sent) /\ RepliesIn(store.messages, Sent)
      /\ stage # "idle" => request # 0
      /\ stage = "injecting" => turn = 0 /\ images = {}
      /\ stage \in {"injecting", "turn", "model"} => RepliesIn(store.messages, Earlier(1))
      /\ stage \in Working =>
            images \subseteq Earlier(1) /\ LastReplies(store.messages, images)
      /\ stage \in Calling =>
            /\ RepliesIn(store.messages, Earlier(next))
            /\ next > 1 => LastReplies(store.messages, {CallId(next - 1)})
  BY DEF ImagesInv
<1>5. RepliesIn(store'.messages, Sent') BY <1>2, <1>4, KeepsIn
<1>6. ASSUME stage' \in {"injecting", "turn", "model"}
      PROVE  RepliesIn(store'.messages, Earlier(1)')
  <2>1. RepliesIn(store.messages, Earlier(1)) BY <1>4, <1>6
  <2> QED BY <1>1, <2>1, KeepsIn
<1>7. ASSUME stage' \in Working
      PROVE  images' \subseteq Earlier(1)' /\ LastReplies(store'.messages, images')
  <2>1. stage \in Working BY <1>7 DEF Working, Calling
  <2>2. LastReplies(store'.messages, images) BY <1>4, <2>1, KeepsLast
  <2> QED BY <1>1, <1>4, <2>1, <2>2
<1>8. ASSUME stage' \in Calling
      PROVE  /\ RepliesIn(store'.messages, Earlier(next)')
             /\ (next' > 1 => LastReplies(store'.messages, {CallId(next - 1)'}))
  <2>1. CASE stage \in Calling /\ next' = next
    <3>1. RepliesIn(store'.messages, Earlier(next)) BY <1>4, <2>1, KeepsIn
    <3>2. ASSUME next > 1 PROVE LastReplies(store'.messages, {CallId(next - 1)})
      BY <1>4, <2>1, <3>2, KeepsLast
    <3>3. Earlier(next)' = Earlier(next) BY <2>1 DEF Earlier, Run
    <3>4. CallId(next - 1)' = CallId(next - 1) BY <2>1 DEF CallId
    <3> QED BY <2>1, <3>1, <3>2, <3>3, <3>4
  <2>2. CASE stage = "model" /\ next' = 1
    <3>1. RepliesIn(store'.messages, Earlier(1)) BY <1>4, <2>2, KeepsIn
    <3>2. Earlier(next)' = Earlier(1) BY <2>2 DEF Earlier, Run
    <3> QED BY <2>2, <3>1, <3>2
  <2> QED BY <1>8, <2>1, <2>2
<1>9. stage' = "injecting" => turn' = 0 /\ images' = {} BY <1>4
<1>10. stage' # "idle" => request' # 0 BY <1>4
<1>11. RepliesIn(saved'.messages, Sent') BY <1>2, <1>4
<1> QED BY <1>5, <1>6, <1>7, <1>8, <1>9, <1>10, <1>11 DEF ImagesInv

\* A new run: all replies are of earlier ones.
LEMMA RunBegins ==
    ASSUME NamedApart, LoopInv, DefaultsInv, StoreInv, ImagesInv, Submit
    PROVE  ImagesInv'
<1>1. /\ saved' = AddMessage(saved, UserText) /\ store' = Seeded(saved)
      /\ stage' = "injecting" /\ request' = request + 1 /\ turn' = 0 /\ images' = {}
      /\ request < MaxRequests
  BY DEF Submit
<1>2. IsRecord(saved) /\ Sound(saved.messages, saved.skills) BY DEF DefaultsInv, StoreInv
<1>3. RepliesIn(saved.messages, Sent) BY DEF ImagesInv
<1>4. Run \in Nat /\ request \in Nat BY RunFacts
<1>5. request' # 0 BY <1>1, <1>4
<1>6. Run' \in Nat BY <1>1, <1>4 DEF Run
<1>7. Sent \subseteq Earlier(1)' /\ Sent \subseteq Sent'
  <2>1. CASE request = 0 BY <2>1 DEF Sent
  <2>2. CASE request # 0
    <3>1. 1 < MaxRequests \/ request = 0 BY <1>1, <1>4, AgentAssumption
    <3>2. ProviderIds BY <1>1, <1>4, <2>2, <3>1, AgentAssumption DEF NamedApart
    <3>3. Run' = Run + 1 BY <1>1, <3>2 DEF Run
    <3>4. Sent = Before(Run', 0, 0) BY <2>2, <3>3 DEF Sent
    <3>5. Earlier(1)' = Before(Run', 0, 1) BY <1>1 DEF Earlier
    <3>6. Sent' = Before(Run' + 1, 0, 0) BY <1>5 DEF Sent
    <3>7. PICK n : n = Run' OBVIOUS
    <3>8. n \in Nat BY <1>6, <3>7
    <3>9. 0 \in Nat /\ 1 \in Nat /\ 0 <= 1 /\ n + 1 \in Nat /\ n < n + 1 BY <3>8
    <3>10. Before(n, 0, 0) \subseteq Before(n, 0, 1) BY <3>8, <3>9, BeforeGrows
    <3>11. Before(n, 0, 0) \subseteq Before(n + 1, 0, 0) BY <3>8, <3>9, BeforeGrows
    <3> QED BY <3>4, <3>5, <3>6, <3>7, <3>10, <3>11
  <2> QED BY <2>1, <2>2
<1>8. PICK s : s = saved OBVIOUS
<1>9. PICK u : u = saved' OBVIOUS
<1>10. PICK t : t = store' OBVIOUS
<1>11. IsHistory(s.messages) /\ Tied(s.messages) BY <1>2, <1>8 DEF Sound
<1>12. IsSeq(s.messages) BY <1>11, HistoryFacts
<1>13. KeepsReplies(u.messages, s.messages)
  <2>1. PICK m : m = UserText OBVIOUS
  <2>2. m.role # "tool" BY <2>1, SpokenRoles
  <2>3. u = AddMessage(s, m) /\ IsRecord(s) BY <1>1, <1>2, <1>8, <1>9, <2>1
  <2> QED BY <1>12, <2>2, <2>3, KeepsMessage
<1>14. KeepsReplies(t.messages, s.messages)
  <2>1. t = Seeded(s) /\ Sound(s.messages, s.skills) BY <1>1, <1>2, <1>8, <1>10
  <2>2. \E at : Thinned(t.messages, s.messages, at) BY <2>1, SeededFacts
  <2>3. PICK at : Thinned(t.messages, s.messages, at) BY <2>2
  <2> QED BY <1>11, <2>3, KeepsThinned
<1>15. RepliesIn(s.messages, Sent) BY <1>3, <1>8
<1>16. RepliesIn(u.messages, Sent') BY <1>7, <1>13, <1>15, KeepsIn
<1>17. RepliesIn(t.messages, Sent') BY <1>7, <1>14, <1>15, KeepsIn
<1>18. RepliesIn(t.messages, Earlier(1)') BY <1>7, <1>14, <1>15, KeepsIn
<1> QED BY <1>1, <1>5, <1>9, <1>10, <1>16, <1>17, <1>18 DEF ImagesInv, Working, Calling

LEMMA SkillsBringNoReply ==
    ASSUME DefaultsInv, StoreInv, ImagesInv, InjectNext
    PROVE  ImagesInv'
<1>1. PICK k : k = Head(toInject)[1] OBVIOUS
<1>2. PICK f : f = (Head(toInject)[2] = "default") OBVIOUS
<1>3. PICK m : m = SkillInjection(k, "user", NoCall, f) OBVIOUS
<1>4. /\ stage = "injecting" /\ store' = InjectSkill(store, k, m)
      /\ UNCHANGED <<saved, request, stage, turn, images>>
  BY <1>1, <1>2, <1>3 DEF InjectNext
<1>5. m.role = "user"
  <2>1. PICK t : t = Text("user", "skill_injection", SkillSize) OBVIOUS
  <2>2. t.role = "user" BY <2>1 DEF Text
  <2>3. m = [t EXCEPT !.skill = k, !.reply = NoCall, !.runtime = f]
    BY <1>3, <2>1 DEF SkillInjection
  <2> QED BY <2>2, <2>3
<1>6. m.role # "tool" BY <1>5
<1>7. PICK ms : ms = store.messages OBVIOUS
<1>8. PICK r : r = store'.messages OBVIOUS
<1>9. IsSeq(ms)
  <2>1. IsHistory(ms) BY <1>7 DEF StoreInv, Sound
  <2> QED BY <2>1, HistoryFacts
<1>10. KeepsReplies(r, ms)
  <2>1. CASE k \in store.skills
    <3>1. r = ms BY <1>4, <1>7, <1>8, <2>1 DEF InjectSkill
    <3> QED BY <3>1, KeepsSelf
  <2>2. CASE k \notin store.skills
    <3>1. store' = Store(Append(ms, m), store.skills \cup {k})
      BY <1>4, <1>7, <2>2 DEF InjectSkill
    <3>2. r = Append(ms, m) BY <1>8, <3>1 DEF Store
    <3>3. Appended(r, ms, m) BY <1>9, <3>2 DEF Appended
    <3> QED BY <1>6, <3>3, KeepsAdded
  <2> QED BY <2>1, <2>2
<1>11. KeepsReplies(store'.messages, store.messages) BY <1>7, <1>8, <1>10
<1> QED BY <1>4, <1>11, NothingReplied DEF Calling

LEMMA UserRepliesNothing ==
    ASSUME LoopInv, DefaultsInv, StoreInv, ImagesInv, AddUserMessage
    PROVE  ImagesInv'
<1>1. /\ stage = "injecting" /\ stage' = "turn" /\ turn' = 1
      /\ store' = AddMessage(store, UserText) /\ UNCHANGED <<saved, request, images>>
  BY DEF AddUserMessage
<1>2. /\ RepliesIn(saved.messages, Sent) /\ RepliesIn(store.messages, Sent)
      /\ request # 0 /\ turn = 0 /\ images = {} /\ RepliesIn(store.messages, Earlier(1))
  BY <1>1 DEF ImagesInv
<1>3. IsSeq(store.messages)
  <2>1. IsHistory(store.messages) BY DEF StoreInv, Sound
  <2> QED BY <2>1, HistoryFacts
<1>4. PICK s : s = store OBVIOUS
<1>5. PICK t : t = store' OBVIOUS
<1>6. KeepsReplies(t.messages, s.messages)
  <2>1. PICK m : m = UserText OBVIOUS
  <2>2. m.role # "tool" BY <2>1, SpokenRoles
  <2>3. t = AddMessage(s, m) /\ IsRecord(s) /\ IsSeq(s.messages)
    BY <1>1, <1>3, <1>4, <1>5, <2>1 DEF DefaultsInv
  <2> QED BY <2>2, <2>3, KeepsMessage
<1>7. Sent' = Sent BY <1>1 DEF Sent, Run
<1>8. Earlier(1) \subseteq Earlier(1)'
  <2>1. Run \in Nat /\ Run' = Run BY <1>1, RunFacts DEF Run
  <2>2. Earlier(1) = Before(Run, 0, 1) /\ Earlier(1)' = Before(Run, 1, 1)
    BY <1>1, <1>2, <2>1 DEF Earlier
  <2>3. 0 \in Nat /\ 1 \in Nat /\ 0 < 1 OBVIOUS
  <2> QED BY <2>1, <2>2, <2>3, BeforeGrows
<1>9. RepliesIn(t.messages, Earlier(1)') BY <1>2, <1>4, <1>6, <1>8, KeepsIn
<1>10. RepliesIn(t.messages, Sent) BY <1>2, <1>4, <1>6, KeepsIn
<1>11. LastReplies(t.messages, {}) BY DEF LastReplies
<1> QED BY <1>1, <1>2, <1>5, <1>7, <1>9, <1>10, <1>11 DEF ImagesInv, Working, Calling

LEMMA CompactionRepliesNothing ==
    ASSUME DefaultsInv, StoreInv, ImagesInv, PrepareContext
    PROVE  ImagesInv'
<1>1. PICK ok \in BOOLEAN : store' = ReplaceMessages(store, Prepare(store.messages, ok))
  BY DEF PrepareContext
<1>2. stage = "turn" /\ stage' = "model" /\ UNCHANGED <<saved, request, turn, images>>
  BY DEF PrepareContext
<1>3. PICK ms : ms = store.messages OBVIOUS
<1>4. PICK r : r = Prepare(ms, ok) OBVIOUS
<1>5. IsRecord(store) BY DEF DefaultsInv
<1>6. store' = [store EXCEPT !.messages = r] BY <1>1, <1>3, <1>4 DEF ReplaceMessages
<1>7. store'.messages = r BY <1>5, <1>6 DEF IsRecord
<1>8. IsHistory(ms) /\ Tied(ms) BY <1>3 DEF StoreInv, Sound
<1>9. KeepsReplies(r, ms) BY <1>4, <1>8, KeepsPrepared
<1>10. KeepsReplies(store'.messages, store.messages) BY <1>3, <1>7, <1>9
<1> QED BY <1>2, <1>10, NothingReplied DEF Calling

\* What the provider says.
LEMMA AnswersReplyNothing ==
    ASSUME DefaultsInv, StoreInv, ImagesInv, CallTools \/ Answer \/ FinalAnswer
    PROVE  ImagesInv'
<1>1. IsRecord(store) /\ IsSeq(store.messages)
  <2>1. IsHistory(store.messages) BY DEF StoreInv, Sound
  <2> QED BY <2>1, HistoryFacts DEF DefaultsInv
<1>2. /\ UNCHANGED <<saved, request, turn, images>> /\ stage = "model"
      /\ stage' = "over" \/ (stage' = "calls" /\ next' = 1)
  BY DEF CallTools, Answer, FinalAnswer, Done
<1>3. \E size, chosen, reasoned :
          \/ store' = PersistTurn(size, chosen, reasoned)
          \/ store' = AddMessage(PersistTurn(size, chosen, reasoned), Limit)
  <2>1. CASE CallTools BY <2>1 DEF CallTools
  <2>2. CASE Answer BY <2>2 DEF Answer
  <2>3. CASE FinalAnswer BY <2>3 DEF FinalAnswer
  <2> QED BY <2>1, <2>2, <2>3
<1>4. PICK size, chosen, reasoned :
          \/ store' = PersistTurn(size, chosen, reasoned)
          \/ store' = AddMessage(PersistTurn(size, chosen, reasoned), Limit)
  BY <1>3
<1>5. PICK t : t = PersistTurn(size, chosen, reasoned) OBVIOUS
<1>6. IsRecord(t) /\ IsSeq(t.messages) /\ KeepsReplies(t.messages, store.messages)
  BY <1>1, <1>5, KeepsTurn
<1>7. PICK u : u = store' OBVIOUS
<1>8. PICK m : m = Limit OBVIOUS
<1>9. m.role # "tool" BY <1>8, SpokenRoles
<1>10. u = t \/ u = AddMessage(t, m) BY <1>4, <1>5, <1>7, <1>8
<1>11. KeepsReplies(u.messages, t.messages)
  <2>1. CASE u = t BY <2>1, KeepsSelf
  <2>2. CASE u = AddMessage(t, m) BY <1>6, <1>9, <2>2, KeepsMessage
  <2> QED BY <1>10, <2>1, <2>2
<1>12. KeepsReplies(store'.messages, store.messages) BY <1>6, <1>7, <1>11, KeepsTwice
<1> QED BY <1>2, <1>12, NothingReplied DEF Calling

\* A tool answers: its reply comes behind those of the calls before it.
LEMMA RepliesInOrder ==
    ASSUME LoopInv, DefaultsInv, CallsInv, StoreInv, ImagesInv, ExecuteCall
    PROVE  ImagesInv'
<1>1. PICK error \in BOOLEAN : store' = Persist(calls[next], error) BY DEF ExecuteCall
<1>2. /\ stage = "executing" /\ stage' = "calls" /\ next' = next + 1
      /\ UNCHANGED <<saved, request, turn, images>>
  BY DEF ExecuteCall
<1>3. IsRecord(store) /\ Sound(store.messages, store.skills) BY DEF DefaultsInv, StoreInv
<1>4. /\ next \in 1..Len(calls) /\ Len(calls) \in Nat
      /\ calls[next].id = CallId(next) /\ (calls[next].tool = "load" => calls[next].skill \in Skills)
  BY <1>2 DEF CallsInv, Calling
<1>5. next \in Nat /\ next >= 1 /\ next + 1 \in Nat BY <1>4
<1>6. /\ RepliesIn(saved.messages, Sent)
      /\ request # 0
      /\ images \subseteq Earlier(1) /\ LastReplies(store.messages, images)
      /\ RepliesIn(store.messages, Earlier(next))
  BY <1>2 DEF ImagesInv, Working, Calling
<1>7. PICK call : call = calls[next] OBVIOUS
<1>8. PICK t : t = store' OBVIOUS
<1>9. \E u, at, m : /\ Thinned(u, store.messages, at) /\ Appended(t.messages, u, m)
                    /\ m.role = "tool" /\ m.reply = call.id
  BY <1>1, <1>3, <1>4, <1>7, <1>8, PersistShape
<1>10. PICK u, at, m : /\ Thinned(u, store.messages, at) /\ Appended(t.messages, u, m)
                       /\ m.role = "tool" /\ m.reply = call.id
  BY <1>9
<1>11. PICK ms : ms = store.messages OBVIOUS
<1>12. PICK r : r = t.messages OBVIOUS
<1>13. PICK x : x = CallId(next) OBVIOUS
<1>14. m.reply = x BY <1>4, <1>7, <1>10, <1>13
<1>15. Appended(r, u, m) /\ Thinned(u, ms, at) /\ m.role = "tool" BY <1>10, <1>11, <1>12
<1>16. Tied(ms) BY <1>3, <1>11 DEF Sound
<1>17. KeepsReplies(u, ms) BY <1>15, <1>16, KeepsThinned
<1>18. RepliesIn(u, Earlier(next)) BY <1>6, <1>11, <1>17 DEF KeepsReplies
<1>19. LastReplies(u, images) BY <1>6, <1>11, <1>17 DEF KeepsReplies
<1>20. x \notin Earlier(next) /\ x \in Earlier(next + 1)
  <2>1. CallId(next) \in Earlier(next) <=> next < next BY <1>5, CallIsNew
  <2>2. CallId(next) \in Earlier(next + 1) <=> next < next + 1 BY <1>5, CallIsNew
  <2> QED BY <1>5, <1>13, <2>1, <2>2
<1>21. Earlier(next) \subseteq Earlier(next + 1) /\ Earlier(next + 1) \subseteq Sent
  <2>1. next <= next + 1 BY <1>5
  <2>2. next <= next + 1 => Earlier(next) \subseteq Earlier(next + 1)
    BY <1>5, EarlierGrows
  <2>3. request # 0 => Earlier(next + 1) \subseteq Sent BY <1>5, EarlierGrows
  <2> QED BY <1>6, <2>1, <2>2, <2>3
<1>22. RepliesIn(u, Earlier(next + 1)) BY <1>18, <1>21 DEF RepliesIn
<1>23. RepliesIn(r, Earlier(next + 1))
  <2>1. RepliesIn(u, Earlier(next + 1)) /\ (m.role = "tool" => m.reply \in Earlier(next + 1))
    BY <1>14, <1>20, <1>22
  <2> QED BY <1>15, <2>1, AppendLast
<1>24. RepliesIn(r, Sent) BY <1>21, <1>23 DEF RepliesIn
<1>25. LastReplies(r, {x})
  <2>1. LastReplies(u, {x}) BY <1>18, <1>20 DEF RepliesIn, LastReplies
  <2>2. IsSeq(u) /\ Len(u) \in Nat BY <1>15, AppendedFacts DEF Appended
  <2>3. ~(Len(u) >= 1 /\ u[Len(u)].role = "tool" /\ u[Len(u)].reply \in {x})
    <3> SUFFICES ASSUME Len(u) >= 1, u[Len(u)].role = "tool", u[Len(u)].reply \in {x}
                 PROVE  FALSE
      OBVIOUS
    <3>1. Len(u) \in 1..Len(u) BY <2>2
    <3> QED BY <1>18, <1>20, <3>1 DEF RepliesIn
  <2> QED BY <1>15, <2>1, <2>3, AppendLast
<1>26. LastReplies(r, images)
  <2>1. PICK p : TurnAt(ms, p, AllCalls, DoneCalls)
    BY <1>2, <1>11 DEF StoreInv, TurnInv, Calling
  <2>2. AllCalls # {} BY <1>4 DEF AllCalls
  <2>3. \E s \in 1..Len(u) : /\ TurnAt(u, s, AllCalls, DoneCalls)
                             /\ AnsweredBut(ms, p) => AnsweredBut(u, s)
    BY <1>15, <2>1, <2>2, ThinnedTurn
  <2>4. PICK s \in 1..Len(u) : TurnAt(u, s, AllCalls, DoneCalls) BY <2>3
  <2>5. IsSeq(u) /\ Len(u) \in Nat BY <1>15, AppendedFacts DEF Appended
  <2>6. /\ u[s].role = "assistant"
        /\ {u[k].reply : k \in (s + 1)..Len(u)} = DoneCalls
    BY <2>4 DEF TurnAt
  <2>7. ~(Len(u) >= 1 /\ u[Len(u)].role = "tool" /\ u[Len(u)].reply \in images)
    <3> SUFFICES ASSUME u[Len(u)].role = "tool", u[Len(u)].reply \in images PROVE FALSE
      OBVIOUS
    <3>1. s # Len(u) BY <2>6
    <3>2. Len(u) \in (s + 1)..Len(u) BY <2>4, <2>5, <3>1
    <3>3. u[Len(u)].reply \in DoneCalls BY <2>6, <3>2
    <3>4. PICK i \in 1..(next - 1) : u[Len(u)].reply = CallId(i) BY <3>3 DEF DoneCalls
    <3>5. i \in Nat /\ ~(i < 1) BY <1>5
    <3>6. CallId(i) \in Earlier(1) <=> i < 1 BY <3>5, CallIsNew
    <3> QED BY <1>6, <3>4, <3>5, <3>6
  <2> QED BY <1>15, <1>19, <2>7, AppendLast
<1>27. /\ \A n : Earlier(n)' = Before(Run, turn, n)' /\ Run' = Run /\ Sent' = Sent
       /\ Earlier(1)' = Earlier(1)
  BY <1>2 DEF Earlier, Run, Sent
<1>28. Earlier(next)' = Earlier(next + 1) BY <1>2 DEF Earlier, Run
<1>29. CallId(next - 1)' = x
  <2>1. next' - 1 = next BY <1>2, <1>5
  <2>2. CallId(next - 1)' = <<IF ProviderIds THEN request' ELSE 0, turn', next' - 1>> BY DEF CallId
  <2> QED BY <1>2, <1>13, <2>1, <2>2 DEF CallId
<1> QED BY <1>2, <1>6, <1>8, <1>12, <1>23, <1>24, <1>25, <1>26, <1>27, <1>28, <1>29
        DEF ImagesInv, Working, Calling

\* A turn ends: its images, if any, follow its last reply.
LEMMA ImagesFollow ==
    ASSUME LoopInv, DefaultsInv, CallsInv, StoreInv, ImagesInv, EndTurn
    PROVE  ImagesInv'
<1>1. /\ stage = "calls" /\ next > Len(calls) /\ UNCHANGED <<saved, request>>
      /\ stage' = "over" \/ (stage' = "turn" /\ turn' = turn + 1)
      /\ images' \subseteq images \cup {calls[Len(calls)].id}
  BY DEF EndTurn, Done
<1>2. /\ Len(calls) \in Nat /\ Len(calls) >= 1 /\ next = Len(calls) + 1
      /\ calls[Len(calls)].id = CallId(Len(calls))
  BY <1>1 DEF CallsInv, Calling
<1>3. PICK n : n = Len(calls) OBVIOUS
<1>4. n \in Nat /\ next = n + 1 /\ next - 1 = n /\ next > 1 /\ n < next /\ next \in Nat
  BY <1>2, <1>3
<1>5. PICK x : x = CallId(n) OBVIOUS
<1>6. images' \subseteq images \cup {x} BY <1>1, <1>2, <1>3, <1>5
<1>7. /\ RepliesIn(saved.messages, Sent) /\ RepliesIn(store.messages, Sent) /\ request # 0
      /\ images \subseteq Earlier(1) /\ LastReplies(store.messages, images)
      /\ RepliesIn(store.messages, Earlier(next)) /\ LastReplies(store.messages, {x})
  BY <1>1, <1>4, <1>5 DEF ImagesInv, Working, Calling
<1>8. IsRecord(store) /\ IsSeq(store.messages)
  <2>1. IsHistory(store.messages) BY DEF StoreInv, Sound
  <2> QED BY <2>1, HistoryFacts DEF DefaultsInv
<1>9. PICK told : told = IF failures > MaxToolRetries THEN AddMessage(store, Control) ELSE store
  OBVIOUS
<1>10. store' = told \/ store' = AddMessage(told, Limit) BY <1>9 DEF EndTurn
<1>11. /\ IsRecord(told) /\ IsSeq(told.messages)
       /\ KeepsReplies(told.messages, store.messages)
  <2>1. PICK m : m = Control OBVIOUS
  <2>2. m.role # "tool" BY <2>1, SpokenRoles
  <2>3. PICK s : s = store OBVIOUS
  <2>4. CASE told = s BY <1>8, <2>3, <2>4, KeepsSelf
  <2>5. CASE told = AddMessage(s, m)
    <3>1. IsRecord(s) /\ IsSeq(s.messages) BY <1>8, <2>3
    <3>2. /\ IsRecord(told) /\ IsSeq(told.messages)
          /\ KeepsReplies(told.messages, s.messages)
      BY <2>2, <2>5, <3>1, KeepsMessage
    <3> QED BY <2>3, <3>2
  <2> QED BY <1>9, <2>1, <2>3, <2>4, <2>5
<1>12. PICK t : t = store' OBVIOUS
<1>13. KeepsReplies(t.messages, told.messages)
  <2>1. PICK m : m = Limit OBVIOUS
  <2>2. m.role # "tool" BY <2>1, SpokenRoles
  <2>3. CASE t = told BY <2>3, KeepsSelf
  <2>4. CASE t = AddMessage(told, m) BY <1>11, <2>2, <2>4, KeepsMessage
  <2> QED BY <1>10, <1>12, <2>1, <2>3, <2>4
<1>14. KeepsReplies(t.messages, store.messages) BY <1>11, <1>13, KeepsTwice
<1>15. RepliesIn(t.messages, Sent) BY <1>7, <1>14, KeepsIn
<1>16. LastReplies(t.messages, images) /\ LastReplies(t.messages, {x})
  BY <1>7, <1>14, KeepsLast
<1>17. LastReplies(t.messages, images') BY <1>6, <1>16 DEF LastReplies
<1>18. Sent' = Sent BY <1>1 DEF Sent, Run
<1>19. ASSUME stage' = "turn"
       PROVE  Earlier(next) \subseteq Earlier(1)'
  <2>1. turn' = turn + 1 BY <1>1, <1>19
  <2>2. Run \in Nat /\ turn \in Nat /\ Run' = Run BY <1>1, RunFacts DEF Run
  <2>3. PICK r : r = Run OBVIOUS
  <2>4. PICK y : y = turn OBVIOUS
  <2>5. Earlier(next) = Before(r, y, next) /\ Earlier(1)' = Before(r, y + 1, 1)
    BY <2>1, <2>2, <2>3, <2>4 DEF Earlier
  <2>6. r \in Nat /\ y \in Nat /\ y + 1 \in Nat /\ 1 \in Nat /\ y < y + 1
    BY <2>2, <2>3, <2>4
  <2>7. PICK z : z = next OBVIOUS
  <2>8. z \in Nat BY <1>4, <2>7
  <2>9. Before(r, y, z) \subseteq Before(r, y + 1, 1) BY <2>6, <2>8, BeforeGrows
  <2> QED BY <2>5, <2>7, <2>9
<1>20. images \cup {x} \subseteq Earlier(next)
  <2>1. CallId(n) \in Earlier(next) <=> n < next BY <1>4, CallIsNew
  <2>2. 1 <= next /\ 1 \in Nat BY <1>4
  <2>3. 1 <= next => Earlier(1) \subseteq Earlier(next) BY <1>4, <2>2, EarlierGrows
  <2> QED BY <1>4, <1>5, <1>7, <2>1, <2>2, <2>3
<1>21. stage' = "turn" => /\ images' \subseteq Earlier(1)'
                          /\ RepliesIn(t.messages, Earlier(1)')
  <2> SUFFICES ASSUME stage' = "turn"
               PROVE  images' \subseteq Earlier(1)' /\ RepliesIn(t.messages, Earlier(1)')
    OBVIOUS
  <2>1. Earlier(next) \subseteq Earlier(1)' BY <1>19
  <2>2. RepliesIn(t.messages, Earlier(1)') BY <1>7, <1>14, <2>1, KeepsIn
  <2> QED BY <1>6, <1>20, <2>1, <2>2
<1> QED BY <1>1, <1>7, <1>12, <1>15, <1>17, <1>18, <1>21 DEF ImagesInv, Working, Calling

\* Every step keeps images behind the replies.
LEMMA ImagesStep ==
    ASSUME NamedApart, LoopInv, DefaultsInv, CallsInv, StoreInv, ImagesInv, [Next]_vars
    PROVE  ImagesInv'
<1>1. CASE Submit BY <1>1, RunBegins
<1>2. CASE InjectNext BY <1>2, SkillsBringNoReply
<1>3. CASE AddUserMessage BY <1>3, UserRepliesNothing
<1>4. CASE PrepareContext BY <1>4, CompactionRepliesNothing
<1>5. CASE CallTools \/ Answer \/ FinalAnswer BY <1>5, AnswersReplyNothing
<1>6. CASE ExecuteCall BY <1>6, RepliesInOrder
<1>7. CASE EndTurn BY <1>7, ImagesFollow
<1>8. CASE Deliver
  <2>1. /\ saved' = store /\ store' = store /\ stage' = "idle"
        /\ UNCHANGED request
    BY <1>8 DEF Deliver
  <2>2. Sent' = Sent BY <2>1 DEF Sent, Run
  <2>3. RepliesIn(store.messages, Sent) BY DEF ImagesInv
  <2> QED BY <2>1, <2>2, <2>3 DEF ImagesInv, Working, Calling
<1>9. CASE LoseStream \/ LeaveCancelled \/ Fail \/ AnnounceCall \/ Cancel \/ UNCHANGED vars
  <2>1. /\ UNCHANGED <<saved, store, request, turn, images, next>>
        /\ \/ stage' \in {"idle", "over", stage}
           \/ stage = "calls" /\ stage' = "executing"
        /\ stage' # "idle" => stage # "idle"
    BY <1>9 DEF LoseStream, LeaveCancelled, Fail, Done, AnnounceCall, Cancel, vars, Running
  <2>2. KeepsReplies(store'.messages, store.messages) BY <2>1, KeepsSelf
  <2> QED BY <2>1, <2>2, NothingReplied DEF Calling
<1> QED BY <1>1, <1>2, <1>3, <1>4, <1>5, <1>6, <1>7, <1>8, <1>9 DEF Next, Loop, Outside

LEMMA ImagesAlwaysFollow == NamedApart => (Spec => []ImagesInv)
<1> SUFFICES ASSUME NamedApart PROVE Spec => []ImagesInv OBVIOUS
<1>1. Init => ImagesInv
  <2> SUFFICES ASSUME Init PROVE ImagesInv OBVIOUS
  <2>1. stage = "idle" /\ request = 0 /\ saved = EmptyStore /\ store = EmptyStore
    BY DEF Init
  <2>2. PICK ms : ms = <<>> OBVIOUS
  <2>3. saved.messages = ms /\ store.messages = ms BY <2>1, <2>2 DEF EmptyStore, Store
  <2>4. Len(ms) = 0 BY <2>2
  <2>5. RepliesIn(ms, Sent) BY <2>4 DEF RepliesIn
  <2> QED BY <2>1, <2>3, <2>5 DEF ImagesInv, Working, Calling
<1>2. /\ LoopInv /\ DefaultsInv /\ CallsInv /\ StoreInv /\ ImagesInv /\ [Next]_vars
      => ImagesInv'
  BY ImagesStep
<1> QED BY <1>1, <1>2, AgentLoopInvariant, ConversationInvariant, PTL DEF Spec

\* What the provider is asked to answer is a closed history whenever the request began with
\* one: after any compaction, removal and number of turns with images, every call is
\* followed by its replies, and the images come behind all replies of their turn.  Call ids
\* must tell runs apart, which a provider that does not name its calls grants one run only.
THEOREM ProviderSeesClosedHistories == NamedApart => (Spec => []ProviderViewClosed)
<1> SUFFICES ASSUME NamedApart PROVE Spec => []ProviderViewClosed OBVIOUS
<1>1. StoreInv /\ ImagesInv => ProviderViewClosed
  <2> SUFFICES ASSUME StoreInv, ImagesInv, stage = "model", Closed(saved.messages)
               PROVE  Closed(ProviderView)
    BY DEF ProviderViewClosed
  <2>1. Answered(store.messages) BY DEF StoreInv, Settled
  <2>2. IsHistory(store.messages) /\ Tied(store.messages) BY DEF StoreInv, Sound
  <2>3. IsSeq(store.messages) BY <2>2, HistoryFacts
  <2>4. Closed(store.messages) BY <2>1, <2>2, <2>3, TiedAnsweredClosed
  <2>5. LastReplies(store.messages, images) BY DEF ImagesInv, Working
  <2> QED BY <2>3, <2>4, <2>5, ViewClosed DEF ProviderView
<1> QED BY <1>1, ConversationInvariant, ImagesAlwaysFollow, PTL

-----------------------------------------------------------------------------
(* The count of failures *)

\* The replies with an error since the last reply without one, in this run.
Trailing(ms) ==
    {i \in RunReplies(ms) : \A j \in {k \in RunReplies(ms) : ~ms[k].error} : j < i}

\* A text that opens a run, as RunReplies tells it.
Opens(m) == m.role = "user" /\ m.kind = "none"

LEMMA TrailingFinite ==
    ASSUME NEW ms, IsSeq(ms)
    PROVE  /\ IsFiniteSet(Trailing(ms)) /\ Cardinality(Trailing(ms)) \in Nat
           /\ TrailingErrors(ms) = Cardinality(Trailing(ms))
           /\ Trailing(ms) \subseteq RunReplies(ms) /\ RunReplies(ms) \subseteq 1..Len(ms)
<1>1. Len(ms) \in Nat /\ DOMAIN ms = 1..Len(ms) BY SeqFacts
<1>2. RunReplies(ms) \subseteq 1..Len(ms) BY <1>1 DEF RunReplies
<1>3. Trailing(ms) \subseteq RunReplies(ms) BY DEF Trailing
<1>4. PICK n : n = Len(ms) OBVIOUS
<1>5. n \in Int /\ 1 \in Int BY <1>1, <1>4
<1>6. IsFiniteSet(1..n) BY <1>5, FS_Interval
<1>7. Trailing(ms) \subseteq 1..n BY <1>2, <1>3, <1>4
<1>8. IsFiniteSet(Trailing(ms)) BY <1>6, <1>7, FS_Subset
<1>9. Cardinality(Trailing(ms)) \in Nat BY <1>8, FS_CardinalityType
<1>10. TrailingErrors(ms) = Cardinality(Trailing(ms)) BY DEF TrailingErrors, Trailing
<1> QED BY <1>2, <1>3, <1>8, <1>9, <1>10

\* Which replies are of this run, after a message is added.
LEMMA RepliesOfRun ==
    ASSUME NEW ms, NEW m, NEW r, Appended(r, ms, m)
    PROVE  /\ Opens(m) => RunReplies(r) = {}
           /\ ~Opens(m) /\ m.role # "tool" => RunReplies(r) = RunReplies(ms)
           /\ m.role = "tool" => RunReplies(r) = RunReplies(ms) \cup {Len(ms) + 1}
<1>1. /\ Len(ms) \in Nat /\ DOMAIN r = 1..(Len(ms) + 1) /\ DOMAIN ms = 1..Len(ms)
      /\ \A n \in 1..Len(ms) : r[n] = ms[n]
      /\ r[Len(ms) + 1] = m
  BY AppendedFacts
<1>2. PICK n : n = Len(ms) OBVIOUS
<1>3. n \in Nat /\ \A i \in 1..n : i \in 1..(n + 1) /\ i # n + 1 /\ i < n + 1 BY <1>1, <1>2
<1>4. n + 1 \in 1..(n + 1) /\ \A i \in 1..(n + 1) : i \in 1..n \/ i = n + 1 BY <1>3
<1> DEFINE InRun(q, i) == \A t \in DOMAIN q : Opens(q[t]) => t < i
<1>5. \A i : i \in RunReplies(r) <=> i \in 1..(n + 1) /\ r[i].role = "tool" /\ InRun(r, i)
  BY <1>1, <1>2 DEF RunReplies, Opens
<1>6. \A i : i \in RunReplies(ms) <=> i \in 1..n /\ ms[i].role = "tool" /\ InRun(ms, i)
  BY <1>1, <1>2 DEF RunReplies, Opens
<1>7. \A i \in 1..(n + 1) : InRun(r, i) <=> InRun(ms, i) /\ (Opens(m) => n + 1 < i)
  BY <1>1, <1>2, <1>3, <1>4
<1>8. InRun(ms, n + 1) BY <1>1, <1>2, <1>3
<1> HIDE DEF InRun
<1>9. \A i \in 1..(n + 1) : ~(n + 1 < i) BY <1>3
<1>10. ASSUME Opens(m) PROVE RunReplies(r) = {} BY <1>5, <1>7, <1>9, <1>10
<1>11. ASSUME ~Opens(m), m.role # "tool" PROVE RunReplies(r) = RunReplies(ms)
  <2>1. RunReplies(r) \subseteq RunReplies(ms)
    BY <1>1, <1>2, <1>4, <1>5, <1>6, <1>7, <1>11
  <2>2. RunReplies(ms) \subseteq RunReplies(r)
    BY <1>1, <1>2, <1>3, <1>5, <1>6, <1>7, <1>11
  <2> QED BY <2>1, <2>2
<1>12. ASSUME m.role = "tool" PROVE RunReplies(r) = RunReplies(ms) \cup {n + 1}
  <2>1. ~Opens(m) BY <1>12 DEF Opens
  <2>2. RunReplies(r) \subseteq RunReplies(ms) \cup {n + 1}
    BY <1>1, <1>2, <1>4, <1>5, <1>6, <1>7, <2>1
  <2>3. RunReplies(ms) \subseteq RunReplies(r)
    BY <1>1, <1>2, <1>3, <1>5, <1>6, <1>7, <2>1
  <2>4. n + 1 \in RunReplies(r) BY <1>1, <1>2, <1>4, <1>5, <1>7, <1>8, <1>12, <2>1
  <2> QED BY <2>2, <2>3, <2>4
<1> QED BY <1>2, <1>10, <1>11, <1>12

\* A text of the user starts the count, an error raises it, a success ends it, and any
\* other message leaves it alone.
LEMMA TrailingAppended ==
    ASSUME NEW ms, NEW m, NEW r, Appended(r, ms, m)
    PROVE  /\ Opens(m) => TrailingErrors(r) = 0
           /\ ~Opens(m) /\ m.role # "tool" => TrailingErrors(r) = TrailingErrors(ms)
           /\ m.role = "tool" /\ ~m.error => TrailingErrors(r) = 0
           /\ m.role = "tool" /\ m.error => TrailingErrors(r) = TrailingErrors(ms) + 1
<1>0. IsSeq(ms) BY DEF Appended
<1>1. /\ Len(ms) \in Nat /\ IsSeq(r)
      /\ \A n \in 1..Len(ms) : r[n] = ms[n]
      /\ r[Len(ms) + 1] = m
  BY AppendedFacts
<1>2. PICK n : n = Len(ms) OBVIOUS
<1>3. n \in Nat /\ \A i \in 1..n : i < n + 1 /\ i # n + 1 /\ ~(n + 1 < i) BY <1>1, <1>2
<1>4. TrailingErrors(r) = Cardinality(Trailing(r)) BY <1>1, TrailingFinite
<1>5. /\ IsFiniteSet(Trailing(ms)) /\ TrailingErrors(ms) = Cardinality(Trailing(ms))
      /\ Trailing(ms) \subseteq RunReplies(ms) /\ RunReplies(ms) \subseteq 1..n
  BY <1>0, <1>2, TrailingFinite
<1>6. /\ Opens(m) => RunReplies(r) = {}
      /\ ~Opens(m) /\ m.role # "tool" => RunReplies(r) = RunReplies(ms)
      /\ m.role = "tool" => RunReplies(r) = RunReplies(ms) \cup {n + 1}
  BY <1>2, RepliesOfRun
<1>7. ASSUME Opens(m) PROVE TrailingErrors(r) = 0
  <2>1. Trailing(r) = {} BY <1>6, <1>7 DEF Trailing
  <2> QED BY <1>4, <2>1, FS_EmptySet
<1>8. ASSUME ~Opens(m), m.role # "tool" PROVE TrailingErrors(r) = TrailingErrors(ms)
  <2>1. \A i \in RunReplies(ms) : r[i] = ms[i] BY <1>1, <1>2, <1>5
  <2>2. Trailing(r) = Trailing(ms) BY <1>6, <1>8, <2>1 DEF Trailing
  <2> QED BY <1>4, <1>5, <2>2
<1>9. ASSUME m.role = "tool", ~m.error PROVE TrailingErrors(r) = 0
  <2>1. n + 1 \in {k \in RunReplies(r) : ~r[k].error} BY <1>1, <1>2, <1>6, <1>9
  <2>2. \A i \in RunReplies(r) : ~(n + 1 < i) BY <1>3, <1>5, <1>6, <1>9
  <2>3. Trailing(r) = {} BY <2>1, <2>2 DEF Trailing
  <2> QED BY <1>4, <2>3, FS_EmptySet
<1>10. ASSUME m.role = "tool", m.error PROVE TrailingErrors(r) = TrailingErrors(ms) + 1
  <2>1. \A i \in RunReplies(ms) : r[i] = ms[i] BY <1>1, <1>2, <1>5
  <2>2. {k \in RunReplies(r) : ~r[k].error} = {k \in RunReplies(ms) : ~ms[k].error}
    BY <1>1, <1>2, <1>6, <1>10, <2>1
  <2>3. PICK good : good = {k \in RunReplies(ms) : ~ms[k].error} OBVIOUS
  <2>4. good \subseteq 1..n BY <1>5, <2>3
  <2>5. \A j \in good : j < n + 1 BY <1>3, <2>4
  <2>6. Trailing(ms) = {i \in RunReplies(ms) : \A j \in good : j < i} BY <2>3 DEF Trailing
  <2>7. Trailing(r) = {i \in RunReplies(r) : \A j \in good : j < i}
    BY <2>2, <2>3 DEF Trailing
  <2>8. Trailing(r) = Trailing(ms) \cup {n + 1} BY <1>6, <1>10, <2>5, <2>6, <2>7
  <2>9. n + 1 \notin Trailing(ms) BY <1>3, <1>5
  <2>10. PICK T : T = Trailing(ms) OBVIOUS
  <2>11. IsFiniteSet(T) /\ n + 1 \notin T BY <1>5, <2>9, <2>10
  <2>12. Cardinality(T \cup {n + 1}) = Cardinality(T) + 1 BY <2>11, FS_AddElement
  <2> QED BY <1>4, <1>5, <2>8, <2>10, <2>12
<1> QED BY <1>7, <1>8, <1>9, <1>10

-----------------------------------------------------------------------------
(* The counter *)

\* The run's conversation stays below what triggers a compaction.
Fits == stage = "turn" => CountMessages(store.messages) <= Trigger

\* The counter is what the conversation shows, and decides on the forced turn.
RetryInv ==
    /\ stage = "injecting" => failures = 0 /\ ~forceFinal
    /\ stage \in Working => TrailingErrors(store.messages) = failures
    /\ stage \in {"turn", "model"} => (forceFinal <=> failures > MaxToolRetries)

\* The messages of the loop open no run, but for the user's.
LEMMA LoopTexts ==
    /\ Opens(UserText) /\ ~Opens(Control)
    /\ Control.role # "tool" /\ UserText.role # "tool"
    /\ \A size, ids : ~Opens(Assistant(size, ids)) /\ Assistant(size, ids).role # "tool"
BY DEF Opens, UserText, Control, Text, Assistant

\* What a tool answers: an error counts, whatever its effect on the store was not.
LEMMA PersistCounts ==
    ASSUME IsRecord(store), Sound(store.messages, store.skills),
           NEW call, call.tool = "load" => call.skill \in Skills, NEW error \in BOOLEAN,
           NEW t, t = Persist(call, error)
    PROVE  /\ error => TrailingErrors(t.messages) = TrailingErrors(store.messages) + 1
           /\ ~error => TrailingErrors(t.messages) = 0
<1>1. IsSeq(store.messages)
  <2>1. IsHistory(store.messages) BY DEF Sound
  <2> QED BY <2>1, HistoryFacts
<1>2. PICK reply : reply = ToolResult(call.id, error) OBVIOUS
<1>3. reply.role = "tool" /\ reply.error = error BY <1>2, ResultFacts
<1>4. CASE ~error /\ Loads(call)
  <2>1. PICK f : f = FALSE OBVIOUS
  <2>2. PICK m : m = SkillInjection(call.skill, "tool", call.id, f) OBVIOUS
  <2>3. call.skill \notin store.skills BY <1>4 DEF Loads
  <2>4. m.role = "tool" /\ ~m.error
    <3>1. PICK x : x = Text("tool", "skill_injection", SkillSize) OBVIOUS
    <3>2. x.role = "tool" /\ ~x.error BY <3>1 DEF Text
    <3>3. m = [x EXCEPT !.skill = call.skill, !.reply = call.id, !.runtime = f]
      BY <2>2, <3>1 DEF SkillInjection
    <3>4. m.role = x.role /\ m.error = x.error BY <3>3
    <3> QED BY <3>2, <3>4
  <2>5. t = InjectSkill(store, call.skill, m) BY <1>4, <2>1, <2>2 DEF Persist
  <2>6. t = Store(Append(store.messages, m), store.skills \cup {call.skill})
    BY <2>3, <2>5 DEF InjectSkill
  <2>7. t.messages = Append(store.messages, m) BY <2>6 DEF Store
  <2>8. Appended(t.messages, store.messages, m) BY <1>1, <2>7 DEF Appended
  <2> QED BY <1>4, <2>4, <2>8, TrailingAppended
<1>5. CASE ~error /\ ~Loads(call) /\ Removes(call)
  <2>1. PICK s : s = RemoveSessionSkill(store, call.skill) OBVIOUS
  <2>2. t = AddMessage(s, reply) BY <1>2, <1>5, <2>1 DEF Persist
  <2>3. call.skill \in store.skills BY <1>5 DEF Removes
  <2>4. IsRecord(s) BY <2>1, SkillsOnly
  <2>5. \E at : Thinned(s.messages, store.messages, at) BY <2>1, <2>3, RemoveFacts
  <2>6. IsSeq(s.messages) BY <2>5 DEF Thinned
  <2>7. t.messages = Append(s.messages, reply) BY <2>2, <2>4, AddFacts
  <2>8. Appended(t.messages, s.messages, reply) BY <2>6, <2>7 DEF Appended
  <2> QED BY <1>3, <1>5, <2>8, TrailingAppended
<1>6. CASE error \/ (~Loads(call) /\ ~Removes(call))
  <2>1. t = AddMessage(store, reply) BY <1>2, <1>6 DEF Persist
  <2>2. t.messages = Append(store.messages, reply) BY <2>1, AddFacts
  <2>3. Appended(t.messages, store.messages, reply) BY <1>1, <2>2 DEF Appended
  <2> QED BY <1>3, <2>3, TrailingAppended
<1> QED BY <1>4, <1>5, <1>6

LEMMA RetryStep ==
    ASSUME LoopInv, DefaultsInv, CallsInv, TypesInv, StoreInv, RetryInv, Fits, [Next]_vars
    PROVE  RetryInv'
<1> USE DEF Working
<1>1. IsRecord(store) /\ Sound(store.messages, store.skills) BY DEF DefaultsInv, StoreInv
<1>2. IsSeq(store.messages)
  <2>1. IsHistory(store.messages) BY <1>1 DEF Sound
  <2> QED BY <2>1, HistoryFacts
<1>3. MaxToolRetries \in Nat /\ failures \in Nat BY AgentAssumption DEF TypesInv
<1>4. ASSUME NEW m, NEW t, t = AddMessage(store, m)
      PROVE  Appended(t.messages, store.messages, m)
  <2>1. t.messages = Append(store.messages, m) BY <1>1, <1>4, AddFacts
  <2> QED BY <1>2, <2>1 DEF Appended
<1>5. CASE Submit
  BY <1>5 DEF Submit, RetryInv
<1>6. CASE InjectNext
  BY <1>6 DEF InjectNext, RetryInv
<1>7. CASE AddUserMessage
  <2>1. /\ stage = "injecting" /\ stage' = "turn" /\ store' = AddMessage(store, UserText)
        /\ UNCHANGED <<failures, forceFinal>>
    BY <1>7 DEF AddUserMessage
  <2>2. TrailingErrors(store'.messages) = 0
    BY <1>4, <2>1, LoopTexts, TrailingAppended
  <2>3. failures = 0 /\ ~forceFinal BY <2>1 DEF RetryInv
  <2>4. ~(0 > MaxToolRetries) BY <1>3
  <2> QED BY <2>1, <2>2, <2>3, <2>4 DEF RetryInv
<1>8. CASE PrepareContext
  <2>1. PICK ok \in BOOLEAN : store' = ReplaceMessages(store, Prepare(store.messages, ok))
    BY <1>8 DEF PrepareContext
  <2>2. stage = "turn" /\ stage' = "model" /\ UNCHANGED <<failures, forceFinal>>
    BY <1>8 DEF PrepareContext
  <2>3. Prepare(store.messages, ok) = store.messages BY <2>2 DEF Prepare, Fits
  <2>4. store' = [store EXCEPT !.messages = store.messages]
    BY <2>1, <2>3 DEF ReplaceMessages
  <2>5. store'.messages = store.messages BY <1>1, <2>4 DEF IsRecord
  <2> QED BY <2>2, <2>5 DEF RetryInv
<1>9. CASE CallTools
  <2>1. /\ stage = "model" /\ stage' = "calls" /\ UNCHANGED <<failures, forceFinal>>
        /\ \E size, chosen, reasoned : store' = PersistTurn(size, chosen, reasoned)
    BY <1>9 DEF CallTools
  <2>2. PICK size, chosen, reasoned : store' = PersistTurn(size, chosen, reasoned) BY <2>1
  <2>3. store' = store \/ \E ids : store' = AddMessage(store, Assistant(size, ids))
    BY <2>2 DEF PersistTurn
  <2>4. TrailingErrors(store'.messages) = TrailingErrors(store.messages)
    BY <1>4, <2>3, LoopTexts, TrailingAppended
  <2> QED BY <2>1, <2>4 DEF RetryInv
<1>10. CASE AnnounceCall
  BY <1>10 DEF AnnounceCall, RetryInv
<1>11. CASE ExecuteCall
  <2>1. PICK error \in BOOLEAN : /\ store' = Persist(calls[next], error)
                                 /\ failures' = IF error THEN failures + 1 ELSE 0
    BY <1>11 DEF ExecuteCall
  <2>2. stage = "executing" /\ stage' = "calls" BY <1>11 DEF ExecuteCall
  <2>3. next \in 1..Len(calls) BY <2>2 DEF CallsInv
  <2>4. PICK call : call = calls[next] OBVIOUS
  <2>5. call.tool = "load" => call.skill \in Skills BY <2>2, <2>3, <2>4 DEF CallsInv, Calling
  <2>6. PICK t : t = store' OBVIOUS
  <2>7. t = Persist(call, error) BY <2>1, <2>4, <2>6
  <2>8. error => TrailingErrors(t.messages) = TrailingErrors(store.messages) + 1
    BY <1>1, <2>5, <2>7, PersistCounts
  <2>9. ~error => TrailingErrors(t.messages) = 0
    BY <1>1, <2>5, <2>7, PersistCounts
  <2>10. TrailingErrors(store.messages) = failures BY <2>2 DEF RetryInv
  <2>11. TrailingErrors(store'.messages) = failures' BY <2>1, <2>6, <2>8, <2>9, <2>10
  <2> QED BY <2>2, <2>11 DEF RetryInv
<1>12. CASE EndTurn
  <2>2. PICK told : told = IF failures > MaxToolRetries THEN AddMessage(store, Control) ELSE store
    OBVIOUS
  <2>3. /\ stage = "calls" /\ UNCHANGED failures
        /\ \/ stage' = "over"
           \/ stage' = "turn" /\ store' = told
    BY <1>12, <2>2 DEF EndTurn, Done
  <2>4. forceFinal' <=> forceFinal \/ failures > MaxToolRetries BY <1>12 DEF EndTurn
  <2>5. ~forceFinal BY <2>3 DEF LoopInv
  <2>6. TrailingErrors(told.messages) = TrailingErrors(store.messages)
    BY <1>4, <2>2, LoopTexts, TrailingAppended
  <2> QED BY <2>3, <2>4, <2>5, <2>6 DEF RetryInv
<1>13. CASE Deliver \/ LoseStream \/ LeaveCancelled \/ Fail \/ Answer \/ FinalAnswer
  BY <1>13 DEF Deliver, LoseStream, LeaveCancelled, Fail, Answer, FinalAnswer, Done, RetryInv
<1>14. CASE Cancel \/ UNCHANGED vars
  BY <1>14 DEF Cancel, vars, RetryInv
<1> QED BY <1>5, <1>6, <1>7, <1>8, <1>9, <1>10, <1>11, <1>12, <1>13, <1>14
        DEF Next, Loop, Outside

\* As long as no compaction takes replies from the conversation, the counter of failures is
\* what the conversation shows: the last turn is forced exactly when more errors are trailing
\* than may be retried, through loads and removals of skills, which rewrite older messages,
\* and over any number of turns and requests.
THEOREM RetriesAreCounted == Spec /\ []Fits => []RetryLimitHolds
<1>1. Init => RetryInv BY DEF Init, RetryInv, Working
<1>2. /\ LoopInv /\ DefaultsInv /\ CallsInv /\ TypesInv /\ StoreInv /\ RetryInv /\ Fits
      /\ [Next]_vars
      => RetryInv'
  BY RetryStep
<1>3. LoopInv /\ RetryInv => RetryLimitHolds
  BY DEF LoopInv, RetryInv, RetryLimitHolds, Working
<1> QED BY <1>1, <1>2, <1>3, AgentLoopInvariant, ConversationInvariant, PTL DEF Spec
=============================================================================
