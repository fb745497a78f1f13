------------------------ MODULE ContextHistoryProofs ------------------------
(***************************************************************************)
(* What a chat's history and what is sent of it keep, at every step: calls *)
(* and replies together, the budget, the newest exchange, the skills'      *)
(* instructions, the recent messages.  ContextWindowProofs says what one   *)
(* compaction does; here the invariant of ContextHistory carries that      *)
(* along a conversation of any length.                                     *)
(***************************************************************************)
EXTENDS ContextHistory, ContextWindowProofs

-----------------------------------------------------------------------------
(* Calls and replies *)

LEMMA NoCallIds == ASSUME NEW m, m.calls = <<>> PROVE CallIds(m) = {}
BY DEF CallIds

\* An assistant message that makes the calls 1..n, and a reply to each.
LEMMA TurnHistory ==
    ASSUME NEW n \in Nat, NEW m, m = Assistant(0, [i \in 1..n |-> i]),
           NEW replies, replies = [i \in 1..n |-> replies[i]],
           \A i \in 1..n : /\ Shaped(replies[i])
                           /\ replies[i].role = "tool" /\ replies[i].reply = i
                           /\ replies[i].calls = <<>>,
           NEW ms, ms = <<m>> \o replies
    PROVE  IsHistory(ms) /\ Tied(ms) /\ Answered(ms)
<1>1. PICK a : a = <<m>> OBVIOUS
<1>2. PICK calls : calls = [i \in 1..n |-> i] OBVIOUS
<1>3. IsSeq(calls)
  <2>1. calls = [i \in 1..n |-> calls[i]] BY <1>2
  <2> QED BY <2>1, FunctionFacts
<1>4. m.role = "assistant" /\ m.calls = calls BY <1>2 DEF Assistant, Text
<1>5. Shaped(m)
  <2>1. Shaped(Text("assistant", "none", 0)) BY TextShaped DEF Roles, Kinds
  <2>2. PICK t : t = Text("assistant", "none", 0) OBVIOUS
  <2>3. m = [t EXCEPT !.calls = calls] BY <1>2, <2>2 DEF Assistant
  <2>4. /\ DOMAIN t = {"role", "kind", "skill", "calls", "reply", "error",
                       "runtime", "size", "cut"}
        /\ Shaped(t)
    BY <2>1, <2>2 DEF Shaped, IsMessage
  <2>5. /\ DOMAIN m = DOMAIN t /\ m.role = t.role /\ m.kind = t.kind /\ m.skill = t.skill
        /\ m.error = t.error /\ m.runtime = t.runtime /\ m.size = t.size /\ m.cut = t.cut
    BY <2>3, <2>4
  <2> QED BY <1>3, <1>4, <2>4, <2>5, Zenon DEF Shaped, IsMessage
<1>6. IsSeq(a) /\ Len(a) = 1 /\ a[1] = m
  <2>1. a \in Seq({m}) /\ Len(a) = 1 /\ a[1] = m BY <1>1
  <2> QED BY <2>1, OwnElements
<1>7. IsSeq(replies) /\ Len(replies) = n BY FunctionFacts
<1>8. ms = a \o replies BY <1>1
<1>9. IsSeq(ms) BY <1>6, <1>7, <1>8, ConcatFacts
<1>10. Len(ms) = 1 + n BY <1>6, <1>7, <1>8, ConcatFacts
<1>11. DOMAIN ms = 1..(1 + n) BY <1>9, <1>10, SeqFacts
<1>12. ms[1] = m
  <2>1. \A i \in 1..Len(a) : ms[i] = a[i] BY <1>6, <1>7, <1>8, ConcatFacts
  <2> QED BY <1>6, <2>1
<1>13. \A i \in 1..n : ms[1 + i] = replies[i]
  <2>1. \A i \in 1..Len(replies) : ms[Len(a) + i] = replies[i]
    BY <1>6, <1>7, <1>8, ConcatFacts
  <2> QED BY <1>6, <1>7, <2>1
<1>14. \A k \in 2..(1 + n) : /\ Shaped(ms[k]) /\ ms[k].role = "tool"
                             /\ ms[k].reply = k - 1 /\ k - 1 \in 1..n
                             /\ ms[k].calls = <<>>
  <2> SUFFICES ASSUME NEW k \in 2..(1 + n)
               PROVE  /\ Shaped(ms[k]) /\ ms[k].role = "tool"
                      /\ ms[k].reply = k - 1 /\ k - 1 \in 1..n
                      /\ ms[k].calls = <<>>
    OBVIOUS
  <2>1. PICK i : i = k - 1 OBVIOUS
  <2>2. i \in 1..n /\ 1 + i = k BY <2>1
  <2>3. ms[k] = replies[i] BY <1>13, <2>2
  <2> QED BY <2>1, <2>2, <2>3
<1>15. \A k \in 1..(1 + n) : k = 1 \/ k \in 2..(1 + n) OBVIOUS
<1>16. IsHistory(ms) BY <1>5, <1>9, <1>11, <1>12, <1>14, <1>15 DEF IsHistory
<1>17. CallIds(m) = 1..n
  <2>1. DOMAIN calls = 1..n /\ \A i \in 1..n : calls[i] = i BY <1>2
  <2>5. m.calls = calls BY <1>4
  <2>6. CallIds(m) = {m.calls[c] : c \in DOMAIN m.calls} BY Zenon DEF CallIds
  <2>2. CallIds(m) = {calls[c] : c \in DOMAIN calls} BY <2>5, <2>6, Zenon
  <2>3. ASSUME NEW x \in 1..n PROVE x \in {calls[c] : c \in DOMAIN calls}
    <3>1. x \in DOMAIN calls /\ calls[x] = x BY <2>1
    <3> QED BY <3>1
  <2>4. ASSUME NEW c \in DOMAIN calls PROVE calls[c] \in 1..n BY <2>1
  <2>7. 1..n \subseteq {calls[c] : c \in DOMAIN calls} BY <2>3
  <2>8. {calls[c] : c \in DOMAIN calls} \subseteq 1..n BY <2>4
  <2> QED BY <2>2, <2>7, <2>8
<1>18. Tied(ms)
  <2> SUFFICES ASSUME NEW k \in DOMAIN ms, ms[k].role = "tool"
               PROVE  \E i \in 1..(k - 1) : Joins(ms, i, k) /\ ms[k].reply \in CallIds(ms[i])
    BY DEF Tied
  <2>1. k \in 2..(1 + n) BY <1>4, <1>11, <1>12, <1>15
  <2>2. 1 \in 1..(k - 1) BY <2>1
  <2>3. \A j \in (1 + 1)..k : ms[j].role = "tool"
    <3>1. \A j \in (1 + 1)..k : j \in 2..(1 + n) BY <2>1
    <3> QED BY <1>14, <3>1
  <2>4. k - 1 \in CallIds(ms[1]) BY <1>12, <1>14, <1>17, <2>1
  <2>5. k - 1 \notin {ms[j].reply : j \in (1 + 1)..(k - 1)}
    <3>1. \A j \in (1 + 1)..(k - 1) : j \in 2..(1 + n) /\ j - 1 # k - 1 BY <2>1
    <3>2. \A j \in (1 + 1)..(k - 1) : ms[j].reply # k - 1 BY <1>14, <3>1
    <3> QED BY <3>2
  <2>6. Joins(ms, 1, k) BY <1>4, <1>12, <2>3, <2>4, <2>5 DEF Joins
  <2>7. ms[k].reply \in CallIds(ms[1]) BY <1>14, <2>1, <2>4
  <2> QED BY <2>2, <2>6, <2>7
<1>19. Answered(ms)
  <2> SUFFICES ASSUME NEW i \in DOMAIN ms, NEW x \in CallIds(ms[i])
               PROVE  x \in {ms[j].reply : j \in FollowingReplies(ms, i)}
    BY DEF Answered
  <2>1. CASE i = 1
    <3>1. x \in 1..n BY <1>12, <1>17, <2>1
    <3>2. x + 1 \in 2..(1 + n) /\ (x + 1) - 1 = x BY <3>1
    <3>3. ms[x + 1].reply = x BY <1>14, <3>2
    <3>4. \A k \in (1 + 1)..(x + 1) : k \in 2..(1 + n) BY <3>1
    <3>5. x + 1 \in (1 + 1)..Len(ms) BY <1>10, <3>1
    <3>6. x + 1 \in FollowingReplies(ms, 1) BY <1>14, <3>4, <3>5 DEF FollowingReplies
    <3> QED BY <2>1, <3>3, <3>6
  <2>2. CASE i # 1
    <3>1. i \in 2..(1 + n) BY <1>11, <1>15, <2>2
    <3>2. ms[i].calls = <<>> BY <1>14, <3>1
    <3>3. CallIds(ms[i]) = {} BY <3>2, NoCallIds
    <3> QED BY <3>3
  <2> QED BY <2>1, <2>2
<1> QED BY <1>16, <1>18, <1>19

-----------------------------------------------------------------------------
(* The invariant of a conversation *)

HistoryInv == IsHistory(messages) /\ Tied(messages) /\ Answered(messages)

LEMMA ExtendHistory ==
    ASSUME HistoryInv, NEW more, IsHistory(more), Tied(more), Answered(more),
           messages' = messages \o more
    PROVE  HistoryInv'
<1>1. PICK a : a = messages OBVIOUS
<1>2. PICK c : c = messages' OBVIOUS
<1>3. IsHistory(a) /\ Tied(a) /\ Answered(a) BY <1>1 DEF HistoryInv
<1>4. IsSeq(a) /\ IsSeq(more) BY <1>3 DEF IsHistory
<1>5. c = a \o more BY <1>1, <1>2
<1>6. IsHistory(c) BY <1>3, <1>5, ConcatHistory
<1>7. Tied(c) BY <1>3, <1>4, <1>5, ConcatTied
<1>8. Answered(c) BY <1>3, <1>4, <1>5, ConcatAnswered
<1> QED BY <1>2, <1>6, <1>7, <1>8 DEF HistoryInv

\* The instructions of a skill that the user selects or that load_skill brings.
Instructions(s, role, id) == SkillInjection(s, role, id, FALSE)

LEMMA InjectionShaped ==
    ASSUME NEW s \in Skills, NEW role \in Roles, NEW id, NEW m,
           m = Instructions(s, role, id)
    PROVE  Shaped(m) /\ m.role = role /\ m.reply = id /\ m.calls = <<>>
<1>1. "skill_injection" \in Kinds BY DEF Kinds
<1>2. SkillSize \in Nat BY ConversationAssumption
<1>3. PICK t : t = Text(role, "skill_injection", SkillSize) OBVIOUS
<1>4. Shaped(t) BY <1>1, <1>2, <1>3, TextShaped
<1>5. t.role = role /\ t.calls = <<>> BY <1>3 DEF Text
<1>6. m = [t EXCEPT !.skill = s, !.reply = id, !.runtime = FALSE]
  BY <1>3 DEF Instructions, SkillInjection
<1>7. DOMAIN t = {"role", "kind", "skill", "calls", "reply", "error",
                  "runtime", "size", "cut"}
  BY <1>4 DEF Shaped, IsMessage
<1>8. /\ DOMAIN m = DOMAIN t /\ m.role = t.role /\ m.kind = t.kind /\ m.skill = s
      /\ m.calls = t.calls /\ m.reply = id /\ m.error = t.error /\ m.size = t.size
      /\ m.cut = t.cut
  BY <1>6, <1>7
<1>9. m.runtime = FALSE BY <1>6, <1>7
<1>10. m.runtime \in BOOLEAN BY <1>9, Zenon
<1>11. Shaped(m) BY <1>4, <1>8, <1>10, Zenon DEF Shaped, IsMessage
<1> QED BY <1>5, <1>8, <1>11

LEMMA ResultShaped ==
    ASSUME NEW id, NEW m, m = ToolResult(id, FALSE)
    PROVE  Shaped(m) /\ m.role = "tool" /\ m.reply = id /\ m.calls = <<>>
<1>1. "tool" \in Roles /\ "tool_result" \in Kinds /\ 1 \in Nat BY DEF Roles, Kinds
<1>2. PICK t : t = Text("tool", "tool_result", 1) OBVIOUS
<1>3. Shaped(t) BY <1>1, <1>2, TextShaped
<1>4. t.role = "tool" /\ t.calls = <<>> BY <1>2 DEF Text
<1>5. m = [t EXCEPT !.reply = id, !.error = FALSE] BY <1>2 DEF ToolResult
<1>6. DOMAIN t = {"role", "kind", "skill", "calls", "reply", "error",
                  "runtime", "size", "cut"}
  BY <1>3 DEF Shaped, IsMessage
<1>7. /\ DOMAIN m = DOMAIN t /\ m.role = t.role /\ m.kind = t.kind /\ m.skill = t.skill
      /\ m.calls = t.calls /\ m.reply = id /\ m.runtime = t.runtime /\ m.size = t.size
      /\ m.cut = t.cut
  BY <1>5, <1>6
<1>8. m.error = FALSE BY <1>5, <1>6
<1>9. m.error \in BOOLEAN BY <1>8, Zenon
<1>10. Shaped(m) BY <1>3, <1>7, <1>9, Zenon DEF Shaped, IsMessage
<1> QED BY <1>4, <1>7, <1>10

LEMMA SayHistory == ASSUME HistoryInv, Say PROVE HistoryInv'
<1>1. PICK role \in {"user", "assistant"}, size \in TextSizes :
         Extend(<<Text(role, "none", size)>>)
  BY DEF Say
<1>2. PICK m : m = Text(role, "none", size) OBVIOUS
<1>3. PICK more : more = <<m>> OBVIOUS
<1>4. Shaped(m)
  <2>1. role \in Roles /\ "none" \in Kinds /\ size \in Nat
    BY HistoryAssumption DEF Roles, Kinds
  <2> QED BY <1>2, <2>1, TextShaped
<1>5. m.role # "tool" /\ m.calls = <<>> BY <1>2 DEF Text
<1>6. IsHistory(more) /\ Tied(more) /\ Answered(more) BY <1>3, <1>4, <1>5, SingleHistory
<1>7. messages' = messages \o more BY <1>1, <1>2, <1>3 DEF Extend
<1> QED BY <1>6, <1>7, ExtendHistory

LEMMA SelectHistory == ASSUME HistoryInv, SelectSkill PROVE HistoryInv'
<1>1. PICK s \in Absent : Extend(<<SkillInjection(s, "user", NoCall, FALSE)>>)
  BY DEF SelectSkill
<1>2. s \in Skills BY DEF Absent
<1>3. PICK m : m = SkillInjection(s, "user", NoCall, FALSE) OBVIOUS
<1>4. PICK more : more = <<m>> OBVIOUS
<1>5. PICK role : role = "user" OBVIOUS
<1>6. Shaped(m) /\ m.role = "user" /\ m.calls = <<>>
  <2>1. role \in Roles BY <1>5 DEF Roles
  <2>2. m = Instructions(s, role, NoCall) BY <1>3, <1>5 DEF Instructions
  <2>3. Shaped(m) /\ m.role = role /\ m.calls = <<>> BY <1>2, <2>1, <2>2, InjectionShaped
  <2> QED BY <1>5, <2>3
<1>7. m.role # "tool" BY <1>6
<1>8. IsHistory(more) /\ Tied(more) /\ Answered(more) BY <1>4, <1>6, <1>7, SingleHistory
<1>9. messages' = messages \o more BY <1>1, <1>3, <1>4 DEF Extend
<1> QED BY <1>8, <1>9, ExtendHistory

LEMMA UseToolsHistory == ASSUME HistoryInv, UseTools PROVE HistoryInv'
<1>1. PICK n \in 1..MaxParallel : \E loaded \in [1..n -> Absent \cup {NoSkill}] :
         Extend(<<Assistant(0, [i \in 1..n |-> i])>> \o
                [i \in 1..n |-> IF loaded[i] = NoSkill THEN ToolResult(i, FALSE)
                                ELSE SkillInjection(loaded[i], "tool", i, FALSE)])
  BY DEF UseTools
<1>2. PICK loaded \in [1..n -> Absent \cup {NoSkill}] :
         Extend(<<Assistant(0, [i \in 1..n |-> i])>> \o
                [i \in 1..n |-> IF loaded[i] = NoSkill THEN ToolResult(i, FALSE)
                                ELSE SkillInjection(loaded[i], "tool", i, FALSE)])
  BY <1>1
<1>3. n \in Nat BY HistoryAssumption
<1>4. PICK m : m = Assistant(0, [i \in 1..n |-> i]) OBVIOUS
<1>5. PICK replies :
         replies = [i \in 1..n |-> IF loaded[i] = NoSkill THEN ToolResult(i, FALSE)
                                   ELSE SkillInjection(loaded[i], "tool", i, FALSE)]
  OBVIOUS
<1>6. PICK more : more = <<m>> \o replies OBVIOUS
<1>7. messages' = messages \o more BY <1>2, <1>4, <1>5, <1>6 DEF Extend
<1>8. ASSUME NEW i \in 1..n
      PROVE  /\ Shaped(replies[i]) /\ replies[i].role = "tool" /\ replies[i].reply = i
             /\ replies[i].calls = <<>>
  <2>1. PICK r : r = replies[i] OBVIOUS
  <2>2. CASE loaded[i] = NoSkill
    <3>1. r = ToolResult(i, FALSE) BY <1>5, <2>1, <2>2
    <3>2. Shaped(r) /\ r.role = "tool" /\ r.reply = i /\ r.calls = <<>>
      BY <3>1, ResultShaped
    <3> QED BY <2>1, <3>2
  <2>3. CASE loaded[i] # NoSkill
    <3>1. r = SkillInjection(loaded[i], "tool", i, FALSE) BY <1>5, <2>1, <2>3
    <3>2. loaded[i] \in Skills BY <2>3 DEF Absent
    <3>3. PICK role : role = "tool" OBVIOUS
    <3>4. PICK s : s = loaded[i] OBVIOUS
    <3>5. role \in Roles /\ s \in Skills BY <3>2, <3>3, <3>4 DEF Roles
    <3>6. r = Instructions(s, role, i) BY <3>1, <3>3, <3>4 DEF Instructions
    <3>7. Shaped(r) /\ r.role = role /\ r.reply = i /\ r.calls = <<>>
      BY <3>5, <3>6, InjectionShaped
    <3> QED BY <2>1, <3>3, <3>7
  <2> QED BY <2>2, <2>3
<1>9. replies = [i \in 1..n |-> replies[i]] BY <1>5
<1>10. IsHistory(more) /\ Tied(more) /\ Answered(more)
  BY <1>3, <1>4, <1>6, <1>8, <1>9, TurnHistory
<1> QED BY <1>7, <1>10, ExtendHistory

LEMMA CompactHistory == ASSUME HistoryInv, PrepareContext PROVE HistoryInv'
<1>1. PICK summaryOk \in BOOLEAN : messages' = Prepare(messages, summaryOk)
  BY DEF PrepareContext
<1>2. PICK a : a = messages OBVIOUS
<1>3. PICK r : r = messages' OBVIOUS
<1>4. IsHistory(a) /\ Tied(a) /\ Answered(a) BY <1>2 DEF HistoryInv
<1>5. r = Prepare(a, summaryOk) BY <1>1, <1>2, <1>3
<1>6. IsHistory(r) /\ Tied(r) /\ (Answered(a) => Answered(r))
  BY <1>4, <1>5, PrepareHistory
<1> QED BY <1>3, <1>4, <1>6 DEF HistoryInv

\* The invariant: messages keep their shape, every reply is tied to the message that made
\* its call, and every call has its reply, whatever is said and however often the
\* conversation is compacted (context.py, prepare).
THEOREM HistoryInvariant == Spec => []HistoryInv
<1>1. Init => HistoryInv BY EmptyHistory DEF Init, HistoryInv
<1>2. HistoryInv /\ [Next]_vars => HistoryInv'
  <2> SUFFICES ASSUME HistoryInv, [Next]_vars PROVE HistoryInv' OBVIOUS
  <2>1. CASE Say BY <2>1, SayHistory
  <2>2. CASE SelectSkill BY <2>2, SelectHistory
  <2>3. CASE UseTools BY <2>3, UseToolsHistory
  <2>4. CASE PrepareContext BY <2>4, CompactHistory
  <2>5. CASE UNCHANGED vars BY <2>5 DEF vars, HistoryInv
  <2> QED BY <2>1, <2>2, <2>3, <2>4, <2>5 DEF Next
<1> QED BY <1>1, <1>2, PTL DEF Spec

\* No sequence of turns and compactions, with or without a summary, separates a tool call
\* from its replies (context.py, _message_groups and what is built on it), for any budget,
\* trigger, number of recent messages and length of a conversation.
THEOREM ProtocolAlwaysSurvives == Spec => []ProtocolSurvives
<1>1. HistoryInv => ProtocolSurvives
  <2> SUFFICES ASSUME HistoryInv PROVE ProtocolSurvives OBVIOUS
  <2>1. PICK a : a = messages OBVIOUS
  <2>2. IsSeq(a) /\ Tied(a) /\ Answered(a) BY <2>1 DEF HistoryInv, IsHistory
  <2>3. Closed(a) BY <2>2, TiedAnsweredClosed
  <2> QED BY <2>1, <2>3 DEF ProtocolSurvives
<1> QED BY <1>1, HistoryInvariant, PTL

-----------------------------------------------------------------------------
(* The budget *)

\* Over the budget nothing is left to give (context.py, _fit_budget): for any budget and
\* trigger, a compaction that still ends over the budget has dropped every group but the
\* newest one and those with skills, and has cut every text to its marker.
THEOREM BudgetAlwaysHolds == Spec => []BudgetHolds
<1>1. Init => BudgetHolds BY DEF Init, BudgetHolds
<1>2. HistoryInv /\ BudgetHolds /\ [Next]_vars => BudgetHolds'
  <2> SUFFICES ASSUME HistoryInv, BudgetHolds, [Next]_vars PROVE BudgetHolds' OBVIOUS
  <2>1. CASE compacted' = FALSE BY <2>1 DEF BudgetHolds
  <2>2. CASE PrepareContext
    <3>1. PICK summaryOk \in BOOLEAN : messages' = Prepare(messages, summaryOk)
      BY <2>2 DEF PrepareContext
    <3>2. PICK a : a = messages OBVIOUS
    <3>3. PICK r : r = messages' OBVIOUS
    <3>4. PICK groups : groups = MessageGroups(r) OBVIOUS
    <3>5. IsHistory(a) /\ Tied(a) BY <3>2 DEF HistoryInv
    <3>6. r = Prepare(a, summaryOk) BY <3>1, <3>2, <3>3
    <3>7. ~(CountMessages(r) <= Budget) =>
             /\ \A g \in 1..(Len(groups) - 1) : IsProtected(groups[g])
             /\ \A i \in DOMAIN r : r[i].size <= 1
      BY <3>4, <3>5, <3>6, PrepareBudget
    <3>8. IsHistory(r) BY <3>5, <3>6, PrepareHistory
    <3>9. CountMessages(r) \in Nat /\ Budget \in Nat BY <3>8, CountFacts, ContextAssumption
    <3>10. CountMessages(r) > Budget => ~(CountMessages(r) <= Budget) BY <3>9
    <3> QED BY <3>3, <3>4, <3>7, <3>10 DEF BudgetHolds
  <2>3. CASE UNCHANGED vars BY <2>3 DEF vars, BudgetHolds
  <2>4. Next => PrepareContext \/ compacted' = FALSE
    BY DEF Next, Say, SelectSkill, UseTools, Extend
  <2> QED BY <2>1, <2>2, <2>3, <2>4
<1> QED BY <1>1, <1>2, HistoryInvariant, PTL DEF Spec

-----------------------------------------------------------------------------
(* The newest exchange *)

LEMMA KinShape ==
    ASSUME NEW a, NEW b, Shaped(a), Shaped(b), Kin(a, b)
    PROVE  Shape(a) = Shape(b)
<1> DEFINE D == {"role", "kind", "skill", "calls", "reply", "error", "runtime", "size", "cut"}
<1>1. DOMAIN a = D /\ DOMAIN b = D BY DEF Shaped, IsMessage
<1>2. PICK x : x = Shape(a) OBVIOUS
<1>3. PICK y : y = Shape(b) OBVIOUS
<1>4. /\ x.role = a.role /\ x.kind = a.kind /\ x.skill = a.skill /\ x.calls = a.calls
      /\ x.reply = a.reply /\ x.error = a.error /\ x.runtime = FALSE /\ x.cut = FALSE
      /\ x.size = IF a.size = 0 THEN 0 ELSE 1
  BY <1>1, <1>2 DEF Shape
<1>5. /\ y.role = b.role /\ y.kind = b.kind /\ y.skill = b.skill /\ y.calls = b.calls
      /\ y.reply = b.reply /\ y.error = b.error /\ y.runtime = FALSE /\ y.cut = FALSE
      /\ y.size = IF b.size = 0 THEN 0 ELSE 1
  BY <1>1, <1>3 DEF Shape
<1>6. x = [f \in D |-> x[f]] BY <1>1, <1>2 DEF Shape
<1>7. y = [f \in D |-> y[f]] BY <1>1, <1>3 DEF Shape
<1>8. \A f \in D : x[f] = y[f]
  <2>1. /\ x.role = y.role /\ x.kind = y.kind /\ x.skill = y.skill /\ x.calls = y.calls
        /\ x.reply = y.reply /\ x.error = y.error
    BY <1>4, <1>5 DEF Kin
  <2>2. x.size = y.size BY <1>4, <1>5 DEF Kin
  <2>3. x.runtime = y.runtime BY <1>4, <1>5
  <2>4. x.cut = y.cut BY <1>4, <1>5
  <2> QED BY <2>1, <2>2, <2>3, <2>4
<1> HIDE DEF D
<1>9. x = y BY <1>6, <1>7, <1>8
<1> QED BY <1>2, <1>3, <1>9

LEMMA ShapesFacts ==
    ASSUME NEW ms, IsSeq(ms), NEW x, x = Shapes(ms)
    PROVE  /\ IsSeq(x) /\ Len(x) = Len(ms)
           /\ \A i \in 1..Len(ms) : x[i] = Shape(ms[i])
<1>1. Len(ms) \in Nat /\ DOMAIN ms = 1..Len(ms) BY SeqFacts
<1>2. PICK n : n = Len(ms) OBVIOUS
<1>3. x = [i \in 1..n |-> Shape(ms[i])] BY <1>1, <1>2 DEF Shapes
<1>4. \A i \in 1..n : x[i] = Shape(ms[i]) BY <1>3
<1>5. x = [i \in 1..n |-> x[i]] BY <1>3
<1>6. IsSeq(x) /\ Len(x) = n BY <1>1, <1>2, <1>5, FunctionFacts
<1> QED BY <1>2, <1>4, <1>6

LEMMA KinShapes ==
    ASSUME NEW a, NEW b, IsHistory(a), IsHistory(b), KinAll(a, b)
    PROVE  Shapes(a) = Shapes(b)
<1>1. /\ IsSeq(a) /\ IsSeq(b) /\ Len(a) \in Nat /\ Len(b) = Len(a)
      /\ DOMAIN a = 1..Len(a) /\ DOMAIN b = 1..Len(a)
  BY SeqFacts DEF IsHistory, KinAll
<1>2. \A i \in 1..Len(a) : Shaped(a[i]) /\ Shaped(b[i]) /\ Kin(a[i], b[i])
  BY <1>1 DEF IsHistory, KinAll
<1>3. \A i \in 1..Len(a) : Shape(a[i]) = Shape(b[i]) BY <1>2, KinShape
<1>4. PICK x : x = Shapes(a) OBVIOUS
<1>5. PICK y : y = Shapes(b) OBVIOUS
<1>6. IsSeq(x) /\ Len(x) = Len(a) /\ \A i \in 1..Len(a) : x[i] = Shape(a[i])
  BY <1>1, <1>4, ShapesFacts
<1>7. IsSeq(y) /\ Len(y) = Len(b) /\ \A i \in 1..Len(b) : y[i] = Shape(b[i])
  BY <1>1, <1>5, ShapesFacts
<1>8. Len(x) = Len(y) BY <1>1, <1>6, <1>7
<1>9. \A i \in 1..Len(x) : x[i] = y[i] BY <1>1, <1>3, <1>6, <1>7
<1>10. x = y BY <1>6, <1>7, <1>8, <1>9, SameElements
<1> QED BY <1>4, <1>5, <1>10

\* The skills brought over are the same, in the same order.
LEMMA BroughtSkills ==
    ASSUME NEW ms, NEW r, IsHistory(ms), IsHistory(r), NEW s, Brought(r, ms, s)
    PROVE  Shapes(SkillsIn(r)) = Shapes(SkillsIn(ms))
<1>1. /\ IsSeq(ms) /\ IsSeq(r) /\ Len(ms) \in Nat /\ Len(r) \in Nat
      /\ DOMAIN ms = 1..Len(ms) /\ DOMAIN r = 1..Len(r)
  BY SeqFacts DEF IsHistory
<1>2. PICK I : I = {i \in DOMAIN r : IsInjection(r[i])} OBVIOUS
<1>3. PICK J : J = {i \in DOMAIN ms : IsInjection(ms[i])} OBVIOUS
<1>4. PICK a : a = Ascending(I, Len(r)) OBVIOUS
<1>5. PICK b : b = Ascending(J, Len(ms)) OBVIOUS
<1>6. /\ IsSeq(a)
      /\ \A k \in 1..Len(a) : a[k] \in I /\ a[k] \in 1..Len(r)
      /\ \A i \in 1..Len(r) : i \in I => \E k \in 1..Len(a) : a[k] = i
  BY <1>1, <1>4, AscendingFacts
<1>7. /\ IsSeq(b)
      /\ \A k \in 1..Len(b) : b[k] \in J /\ b[k] \in 1..Len(ms)
      /\ \A i \in 1..Len(ms) : i \in J => \E k \in 1..Len(b) : b[k] = i
  BY <1>1, <1>5, AscendingFacts
<1>8. Climbing(a) /\ Climbing(b) BY <1>1, <1>4, <1>5, AscendingClimbing
<1>9. Len(a) \in Nat BY <1>6, SeqFacts
<1>10. PICK c : c = [k \in 1..Len(a) |-> s[a[k]]] OBVIOUS
<1>11. \A k \in 1..Len(a) : c[k] = s[a[k]] BY <1>10
<1>12. IsSeq(c) /\ Len(c) = Len(a)
  <2>1. c = [k \in 1..Len(a) |-> c[k]] BY <1>10
  <2> QED BY <1>9, <2>1, FunctionFacts
<1>13. ASSUME NEW k \in 1..Len(a)
       PROVE  /\ a[k] \in 1..Len(r) /\ IsInjection(r[a[k]])
              /\ c[k] \in 1..Len(ms) /\ Kin(ms[c[k]], r[a[k]]) /\ c[k] \in J
  <2>1. a[k] \in 1..Len(r) /\ IsInjection(r[a[k]]) BY <1>2, <1>6
  <2>2. c[k] \in 1..Len(ms) /\ Kin(ms[c[k]], r[a[k]]) BY <1>11, <2>1 DEF Brought
  <2>3. IsInjection(ms[c[k]]) BY <2>1, <2>2, KinInjection
  <2>4. c[k] \in J BY <1>1, <1>3, <2>2, <2>3
  <2> QED BY <2>1, <2>2, <2>4
<1>14. Climbing(c)
  <2>1. \A k \in 1..Len(c) : c[k] \in Nat
    <3>1. \A k \in 1..Len(c) : c[k] \in 1..Len(ms) BY <1>12, <1>13
    <3> QED BY <1>1, <3>1
  <2>2. ASSUME NEW k \in 1..Len(c), NEW l \in 1..Len(c), k < l PROVE c[k] < c[l]
    <3>1. k \in 1..Len(a) /\ l \in 1..Len(a) BY <1>12
    <3>2. a[k] < a[l] BY <1>8, <2>2, <3>1 DEF Climbing
    <3>3. /\ a[k] \in 1..Len(r) /\ IsInjection(r[a[k]])
          /\ a[l] \in 1..Len(r) /\ IsInjection(r[a[l]])
      BY <1>13, <3>1
    <3>4. s[a[k]] < s[a[l]] BY <3>2, <3>3 DEF Brought
    <3> QED BY <1>11, <3>1, <3>4
  <2> QED BY <1>12, <2>1, <2>2 DEF Climbing
<1>15. c = b
  <2>1. ASSUME NEW k \in 1..Len(c) PROVE \E l \in 1..Len(b) : c[k] = b[l]
    <3>1. PICK i : i = c[k] OBVIOUS
    <3>2. i \in J /\ i \in 1..Len(ms) BY <1>12, <1>13, <3>1
    <3> QED BY <1>7, <3>1, <3>2
  <2>2. ASSUME NEW k \in 1..Len(b) PROVE \E l \in 1..Len(c) : b[k] = c[l]
    <3>1. PICK n : n = b[k] OBVIOUS
    <3>2. n \in 1..Len(ms) /\ IsInjection(ms[n]) BY <1>3, <1>7, <3>1
    <3>3. PICK i \in 1..Len(r) : IsInjection(r[i]) /\ s[i] = n BY <3>2 DEF Brought
    <3>4. i \in I BY <1>1, <1>2, <3>3
    <3>5. PICK l \in 1..Len(a) : a[l] = i BY <1>6, <3>4
    <3>6. c[l] = n BY <1>11, <3>3, <3>5
    <3> QED BY <1>12, <3>1, <3>6
  <2> QED BY <1>8, <1>14, <2>1, <2>2, SameClimb
<1>16. PICK p : p = SkillsIn(r) OBVIOUS
<1>17. PICK q : q = SkillsIn(ms) OBVIOUS
<1>18. p = [k \in 1..Len(a) |-> r[a[k]]] BY <1>2, <1>4, <1>16 DEF SkillsIn, Pick
<1>19. q = [k \in 1..Len(b) |-> ms[b[k]]] BY <1>3, <1>5, <1>17 DEF SkillsIn, Pick
<1>20. Len(b) = Len(a) BY <1>12, <1>15
<1>21. \A k \in 1..Len(a) : p[k] = r[a[k]] BY <1>18
<1>22. \A k \in 1..Len(a) : q[k] = ms[b[k]] BY <1>19, <1>20
<1>23. IsSeq(p) /\ Len(p) = Len(a) /\ DOMAIN p = 1..Len(a)
  <2>1. p = [k \in 1..Len(a) |-> p[k]] BY <1>18
  <2> QED BY <1>9, <2>1, FunctionFacts
<1>24. IsSeq(q) /\ Len(q) = Len(a) /\ DOMAIN q = 1..Len(a)
  <2>1. q = [k \in 1..Len(a) |-> q[k]] BY <1>19, <1>20
  <2> QED BY <1>9, <2>1, FunctionFacts
<1>25. \A k \in 1..Len(a) : Shaped(p[k])
  <2>1. \A k \in 1..Len(a) : r[a[k]] = p[k] /\ a[k] \in DOMAIN r BY <1>1, <1>13, <1>21
  <2>2. \A i \in DOMAIN r : Shaped(r[i]) BY DEF IsHistory
  <2> QED BY <2>1, <2>2
<1>26. \A k \in 1..Len(a) : Shaped(q[k])
  <2>1. \A k \in 1..Len(a) : ms[b[k]] = q[k] /\ b[k] \in DOMAIN ms
    BY <1>1, <1>7, <1>20, <1>22
  <2>2. \A i \in DOMAIN ms : Shaped(ms[i]) BY DEF IsHistory
  <2> QED BY <2>1, <2>2
<1>27. IsHistory(p) /\ IsHistory(q) BY <1>23, <1>24, <1>25, <1>26 DEF IsHistory
<1>28. KinAll(q, p)
  <2>1. \A k \in 1..Len(a) : Kin(q[k], p[k]) BY <1>13, <1>15, <1>21, <1>22
  <2> QED BY <1>23, <1>24, <2>1 DEF KinAll
<1>29. Shapes(q) = Shapes(p) BY <1>27, <1>28, KinShapes
<1> QED BY <1>16, <1>17, <1>29

-----------------------------------------------------------------------------
(* The essentials *)

LEMMA ReverseFacts ==
    ASSUME NEW q, IsSeq(q), NEW r, r = Reverse(q)
    PROVE  /\ IsSeq(r) /\ Len(r) = Len(q)
           /\ \A i \in 1..Len(q) : r[i] = q[(Len(q) - i) + 1]
<1>1. Len(q) \in Nat BY SeqFacts
<1>2. PICK n : n = Len(q) OBVIOUS
<1>3. r = [i \in 1..n |-> q[(n - i) + 1]] BY <1>2 DEF Reverse
<1>4. r = [i \in 1..n |-> r[i]] BY <1>3
<1>5. IsSeq(r) /\ Len(r) = n BY <1>1, <1>2, <1>4, FunctionFacts
<1>6. \A i \in 1..n : r[i] = q[(n - i) + 1] BY <1>3
<1> QED BY <1>2, <1>5, <1>6

\* A sequence that stands at the end of another.
LEMMA WithinSuffix ==
    ASSUME NEW a, NEW c, NEW d, Within(a, c, d), d + Len(a) = Len(c)
    PROVE  IsSuffix(a, c)
<1>1. /\ IsSeq(a) /\ IsSeq(c) /\ d \in Nat
      /\ \A j \in 1..Len(a) : c[d + j] = a[j]
  BY DEF Within
<1>2. Len(a) \in Nat /\ Len(c) \in Nat BY <1>1, SeqFacts
<1>3. PICK x : x = Reverse(a) OBVIOUS
<1>4. PICK y : y = Reverse(c) OBVIOUS
<1>5. PICK n : n = Len(a) OBVIOUS
<1>6. PICK m : m = Len(c) OBVIOUS
<1>7. n \in Nat /\ m \in Nat /\ d \in Nat /\ d + n = m BY <1>1, <1>2, <1>5, <1>6
<1>8. IsSeq(x) /\ Len(x) = n /\ \A i \in 1..n : x[i] = a[(n - i) + 1]
  BY <1>1, <1>3, <1>5, ReverseFacts
<1>9. IsSeq(y) /\ Len(y) = m /\ \A i \in 1..m : y[i] = c[(m - i) + 1]
  BY <1>1, <1>4, <1>6, ReverseFacts
<1>10. ASSUME NEW i \in 1..n PROVE x[i] = y[i]
  <2>1. PICK j : j = (n - i) + 1 OBVIOUS
  <2>2. j \in 1..n /\ (m - i) + 1 = d + j /\ i \in 1..m BY <1>7, <2>1
  <2>3. x[i] = a[j] /\ y[i] = c[d + j] BY <1>8, <1>9, <2>1, <2>2
  <2>4. c[d + j] = a[j] BY <1>1, <1>5, <2>2
  <2> QED BY <2>3, <2>4
<1>11. PICK u : u = SubSeq(x, 1, n) OBVIOUS
<1>12. PICK v : v = SubSeq(y, 1, n) OBVIOUS
<1>13. 1 \in Nat /\ 1 <= 1 /\ 1 <= n + 1 /\ n <= n /\ n <= m /\ n - 1 + 1 = n BY <1>7
<1>14. IsSeq(u) /\ Len(u) = n - 1 + 1 /\ \A i \in 1..(n - 1 + 1) : u[i] = x[1 + i - 1]
  <2>1. n <= Len(x) BY <1>8, <1>13
  <2>2. IsSeq(u) BY <1>7, <1>8, <1>11, <1>13, <2>1, SubSeqFacts
  <2>3. Len(u) = n - 1 + 1 BY <1>7, <1>8, <1>11, <1>13, <2>1, SubSeqFacts
  <2>4. \A i \in 1..(n - 1 + 1) : u[i] = x[1 + i - 1]
    BY <1>7, <1>8, <1>11, <1>13, <2>1, SubSeqFacts
  <2> QED BY <2>2, <2>3, <2>4
<1>15. IsSeq(v) /\ Len(v) = n - 1 + 1 /\ \A i \in 1..(n - 1 + 1) : v[i] = y[1 + i - 1]
  <2>1. n <= Len(y) BY <1>9, <1>13
  <2>2. IsSeq(v) BY <1>7, <1>9, <1>12, <1>13, <2>1, SubSeqFacts
  <2>3. Len(v) = n - 1 + 1 BY <1>7, <1>9, <1>12, <1>13, <2>1, SubSeqFacts
  <2>4. \A i \in 1..(n - 1 + 1) : v[i] = y[1 + i - 1]
    BY <1>7, <1>9, <1>12, <1>13, <2>1, SubSeqFacts
  <2> QED BY <2>2, <2>3, <2>4
<1>16. \A i \in 1..n : 1 + i - 1 = i BY <1>7
<1>17. \A i \in 1..Len(u) : u[i] = v[i]
  <2>1. \A i \in 1..n : u[i] = x[i] BY <1>13, <1>14, <1>16
  <2>2. \A i \in 1..n : v[i] = y[i] BY <1>13, <1>15, <1>16
  <2> QED BY <1>10, <1>13, <1>14, <2>1, <2>2
<1>18. Len(u) = Len(v) BY <1>14, <1>15
<1>19. u = v BY <1>14, <1>15, <1>17, <1>18, SameElements
<1>20. IsPrefix(x, y) BY <1>8, <1>9, <1>11, <1>12, <1>13, <1>19 DEF IsPrefix
<1> QED BY <1>3, <1>4, <1>20 DEF IsSuffix

LEMMA ShapesWithin ==
    ASSUME NEW a, NEW c, NEW d, Within(a, c, d)
    PROVE  Within(Shapes(a), Shapes(c), d)
<1>1. /\ IsSeq(a) /\ IsSeq(c) /\ d \in Nat /\ d + Len(a) <= Len(c)
      /\ \A j \in 1..Len(a) : c[d + j] = a[j]
  BY DEF Within
<1>2. Len(a) \in Nat /\ Len(c) \in Nat BY <1>1, SeqFacts
<1>3. PICK x : x = Shapes(a) OBVIOUS
<1>4. PICK y : y = Shapes(c) OBVIOUS
<1>5. IsSeq(x) /\ Len(x) = Len(a) /\ \A i \in 1..Len(a) : x[i] = Shape(a[i])
  BY <1>1, <1>3, ShapesFacts
<1>6. IsSeq(y) /\ Len(y) = Len(c) /\ \A i \in 1..Len(c) : y[i] = Shape(c[i])
  BY <1>1, <1>4, ShapesFacts
<1>7. ASSUME NEW j \in 1..Len(x) PROVE y[d + j] = x[j]
  <2>1. j \in 1..Len(a) /\ d + j \in 1..Len(c) BY <1>1, <1>2, <1>5
  <2>2. y[d + j] = Shape(c[d + j]) BY <1>6, <2>1
  <2>3. x[j] = Shape(a[j]) BY <1>5, <2>1
  <2>4. c[d + j] = a[j] BY <1>1, <2>1
  <2> QED BY <2>2, <2>3, <2>4
<1>8. Within(x, y, d) BY <1>1, <1>5, <1>6, <1>7 DEF Within
<1> QED BY <1>3, <1>4, <1>8

\* The newest group stands at the end.
LEMMA LastSuffix ==
    ASSUME NEW ms, NEW qs, Grouped(ms, qs), Len(qs) >= 1, NEW h, h = qs[Len(qs)]
    PROVE  \E d : Within(h, ms, d) /\ d + Len(h) = Len(ms)
<1>1. PICK off : Laid(ms, qs, off) BY GroupedFacts
<1>2. Len(qs) \in Nat BY <1>1, LaidFacts
<1>3. PICK n : n = Len(qs) OBVIOUS
<1>4. n \in 1..Len(qs) BY <1>2, <1>3
<1>5. Within(qs[n], ms, off[n]) /\ off[n + 1] = off[n] + Len(qs[n]) BY <1>1, <1>4 DEF Laid
<1>6. off[n + 1] = Len(ms) BY <1>1, <1>3 DEF Laid
<1> QED BY <1>3, <1>5, <1>6

\* What the next turn cannot do without survives every compaction (context.py, prepare and
\* _fit_budget): for any budget, trigger and number of recent messages, the skills in force
\* are neither lost nor repeated nor reordered, and the newest group ends the messages, only
\* its texts cut.
THEOREM EssentialsAlwaysSurvive == Spec => EssentialsSurvive
<1>1. ASSUME HistoryInv, PrepareContext PROVE SkillsSurvive /\ LatestSurvives
  <2>1. PICK summaryOk \in BOOLEAN : messages' = Prepare(messages, summaryOk)
    BY <1>1 DEF PrepareContext
  <2>2. PICK a : a = messages OBVIOUS
  <2>3. PICK r : r = messages' OBVIOUS
  <2>4. PICK qs : qs = MessageGroups(a) OBVIOUS
  <2>5. PICK gs : gs = MessageGroups(r) OBVIOUS
  <2>6. Grouped(a, qs) BY <1>1, <2>2, <2>4 DEF HistoryInv, Grouped
  <2>7. r = Prepare(a, summaryOk) BY <2>1, <2>2, <2>3
  <2>8. /\ Grouped(r, gs) /\ \E s : Brought(r, a, s)
        /\ Len(qs) >= 1 => Len(gs) >= 1 /\ KinAll(qs[Len(qs)], gs[Len(gs)])
    BY <2>5, <2>6, <2>7, PrepareKeeps
  <2>9. IsHistory(a) /\ IsHistory(r) BY <2>6, <2>8 DEF Grouped
  <2>10. Shapes(SkillsIn(r)) = Shapes(SkillsIn(a)) BY <2>8, <2>9, BroughtSkills
  <2>11. SkillsSurvive BY <2>2, <2>3, <2>10 DEF SkillsSurvive
  <2>12. ASSUME a # <<>> PROVE IsSuffix(Shapes(qs[Len(qs)]), Shapes(r))
    <3>1. Len(qs) >= 1
      <4>1. PICK off : Laid(a, qs, off) BY <2>6, GroupedFacts
      <4>2. Len(qs) \in Nat /\ off[1] = 0 /\ off[Len(qs) + 1] = Len(a) BY <4>1, LaidFacts
      <4>3. IsSeq(a) BY <2>9 DEF IsHistory
      <4>4. Len(a) # 0 BY <2>12, <4>3, SeqFacts
      <4>5. Len(qs) # 0
        <5>1. PICK n : n = Len(qs) OBVIOUS
        <5>2. n = 0 => n + 1 = 1 OBVIOUS
        <5> QED BY <4>2, <4>4, <5>1, <5>2
      <4> QED BY <4>2, <4>5
    <3>2. PICK g : g = qs[Len(qs)] OBVIOUS
    <3>3. PICK h : h = gs[Len(gs)] OBVIOUS
    <3>4. Len(gs) >= 1 /\ KinAll(g, h) BY <2>8, <3>1, <3>2, <3>3
    <3>5. IsHistory(g) /\ IsHistory(h)
      <4>1. AreGroups(qs) /\ AreGroups(gs) BY <2>6, <2>8, GroupedFacts
      <4>2. Len(qs) \in Nat /\ Len(gs) \in Nat BY <4>1, SeqFacts DEF AreGroups
      <4>3. Len(qs) \in 1..Len(qs) /\ Len(gs) \in 1..Len(gs) BY <3>1, <3>4, <4>2
      <4> QED BY <3>2, <3>3, <4>1, <4>3 DEF AreGroups
    <3>6. Shapes(g) = Shapes(h) BY <3>4, <3>5, KinShapes
    <3>7. PICK d : Within(h, r, d) /\ d + Len(h) = Len(r)
      BY <2>8, <3>3, <3>4, LastSuffix
    <3>8. Within(Shapes(h), Shapes(r), d) BY <3>7, ShapesWithin
    <3>9. Len(Shapes(h)) = Len(h) /\ Len(Shapes(r)) = Len(r)
      <4>1. IsSeq(h) /\ IsSeq(r) BY <3>7 DEF Within
      <4> QED BY <4>1, ShapesFacts
    <3>10. d + Len(Shapes(h)) = Len(Shapes(r)) BY <3>7, <3>9
    <3>11. IsSuffix(Shapes(h), Shapes(r)) BY <3>8, <3>10, WithinSuffix
    <3> QED BY <3>2, <3>6, <3>11
  <2>13. LatestSurvives BY <2>2, <2>3, <2>4, <2>12 DEF LatestSurvives
  <2> QED BY <2>11, <2>13
<1>2. HistoryInv /\ [Next]_vars => [compacted' => SkillsSurvive /\ LatestSurvives]_vars
  <2> SUFFICES ASSUME HistoryInv, [Next]_vars, ~UNCHANGED vars, compacted'
               PROVE  SkillsSurvive /\ LatestSurvives
    OBVIOUS
  <2>1. Next => PrepareContext \/ compacted' = FALSE
    BY DEF Next, Say, SelectSkill, UseTools, Extend
  <2> QED BY <1>1, <2>1
<1> QED BY <1>2, HistoryInvariant, PTL DEF Spec, EssentialsSurvive

-----------------------------------------------------------------------------
(* The recent messages *)

\* Between the trigger and the budget the recent messages are sent untouched (context.py,
\* prepare): when the summary brings the messages under the budget, at least the MinRecent
\* newest ones, or all of them if there are fewer, end the compacted messages as they were.
THEOREM RecentAlwaysSurvives == Spec => RecentSurvives
<1>1. ASSUME HistoryInv, PrepareContext PROVE RecentSurvivesStep
  <2> SUFFICES ASSUME CountMessages(Summarised(messages, TRUE)) <= Budget
               PROVE  \E n \in 0..Len(messages) :
                         /\ IsSuffix(SubSeq(messages, n + 1, Len(messages)), messages')
                         /\ Len(messages) - n >= IF Len(messages) < MinRecent
                                                 THEN Len(messages) ELSE MinRecent
    BY DEF RecentSurvivesStep
  <2>1. PICK summaryOk \in BOOLEAN : messages' = Prepare(messages, summaryOk)
    BY <1>1 DEF PrepareContext
  <2>2. PICK a : a = messages OBVIOUS
  <2>3. PICK r : r = messages' OBVIOUS
  <2>4. IsHistory(a) /\ Tied(a) BY <1>1, <2>2 DEF HistoryInv
  <2>5. r = Prepare(a, summaryOk) BY <2>1, <2>2, <2>3
  <2>6. CountMessages(Summarised(a, TRUE)) <= Budget BY <2>2
  <2>7. PICK n \in 0..Len(a), d \in Nat :
           /\ n = 0 \/ Len(a) - n >= MinRecent
           /\ Within(SubSeq(a, n + 1, Len(a)), r, d)
           /\ d + Len(SubSeq(a, n + 1, Len(a))) = Len(r)
    BY <2>4, <2>5, <2>6, PrepareRecent
  <2>8. PICK y : y = SubSeq(a, n + 1, Len(a)) OBVIOUS
  <2>9. Within(y, r, d) /\ d + Len(y) = Len(r) BY <2>7, <2>8
  <2>10. IsSuffix(y, r) BY <2>9, WithinSuffix
  <2>11. PICK l : l = Len(a) OBVIOUS
  <2>12. l \in Nat BY <2>4, <2>11, SeqFacts DEF IsHistory
  <2>13. MinRecent \in Nat BY ContextAssumption
  <2>14. l - n >= IF l < MinRecent THEN l ELSE MinRecent
    <3>1. n \in 0..l /\ (n = 0 \/ l - n >= MinRecent) BY <2>7, <2>11
    <3> QED BY <2>12, <2>13, <3>1
  <2> QED BY <2>2, <2>3, <2>8, <2>10, <2>11, <2>14
<1>2. HistoryInv /\ [Next]_vars => [RecentSurvivesStep]_vars
  <2> SUFFICES ASSUME HistoryInv, [Next]_vars, ~UNCHANGED vars PROVE RecentSurvivesStep
    OBVIOUS
  <2>1. CASE PrepareContext BY <1>1, <2>1
  <2>2. CASE compacted' = FALSE BY <2>2 DEF RecentSurvivesStep
  <2>3. Next => PrepareContext \/ compacted' = FALSE
    BY DEF Next, Say, SelectSkill, UseTools, Extend
  <2> QED BY <2>1, <2>2, <2>3
<1> QED BY <1>2, HistoryInvariant, PTL DEF Spec, RecentSurvives
=============================================================================
