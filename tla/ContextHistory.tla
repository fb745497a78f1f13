--------------------------- MODULE ContextHistory ---------------------------
(***************************************************************************)
(* A long conversation that AgentCore.prepare_context compacts before each *)
(* turn, over and over: compacted messages are compacted again.            *)
(***************************************************************************)
EXTENDS ContextWindow

CONSTANTS
    TextSizes,     \* sizes of the texts of users and assistants
    MaxMessages,   \* bound on the length of the conversation
    MaxParallel    \* bound on the calls of one assistant message

ASSUME HistoryAssumption == TextSizes \subseteq Nat /\ MaxParallel \in Nat

VARIABLES
    messages,      \* what the store holds
    compacted      \* the last step was prepare_context

vars == <<messages, compacted>>

Init == messages = <<>> /\ compacted = FALSE

Extend(more) ==
    /\ Len(messages) + Len(more) <= MaxMessages
    /\ messages' = messages \o more
    /\ compacted' = FALSE

Say == \E role \in {"user", "assistant"}, size \in TextSizes :
            Extend(<<Text(role, "none", size)>>)

Absent == {s \in Skills : ~\E i \in DOMAIN messages : Injects(messages[i], s)}

SelectSkill == \E s \in Absent : Extend(<<SkillInjection(s, "user", NoCall, FALSE)>>)

\* A turn with tools: each reply is a result, or a skill that load_skill brought.
UseTools ==
    \E n \in 1..MaxParallel : \E loaded \in [1..n -> Absent \cup {NoSkill}] :
        /\ \A i, j \in 1..n : loaded[i] = loaded[j] => i = j \/ loaded[i] = NoSkill
        /\ Extend(<<Assistant(0, [i \in 1..n |-> i])>> \o
                  [i \in 1..n |-> IF loaded[i] = NoSkill THEN ToolResult(i, FALSE)
                                  ELSE SkillInjection(loaded[i], "tool", i, FALSE)])

\* prepare_context; the summary provider may be unavailable.
PrepareContext ==
    /\ \E summaryOk \in BOOLEAN : messages' = Prepare(messages, summaryOk)
    /\ compacted' = TRUE

Next == Say \/ SelectSkill \/ UseTools \/ PrepareContext

Spec == Init /\ [][Next]_vars

-----------------------------------------------------------------------------
(* Properties *)

\* The replies that a message carries, whatever became of its text.
Shape(m) == [m EXCEPT !.size = IF @ = 0 THEN 0 ELSE 1, !.cut = FALSE, !.runtime = FALSE]
Shapes(ms) == [i \in DOMAIN ms |-> Shape(ms[i])]

\* No sequence of turns and compactions, with or without a summary, separates a
\* tool call from its replies.
ProtocolSurvives == Closed(messages)

SkillsIn(ms) == Pick(ms, {i \in DOMAIN ms : IsInjection(ms[i])})

SkillsSurvive == Shapes(SkillsIn(messages')) = Shapes(SkillsIn(messages))

LatestSurvives ==
    messages # <<>> =>
        LET groups == MessageGroups(messages)
        IN  IsSuffix(Shapes(groups[Len(groups)]), Shapes(messages'))

\* What the next turn cannot do without survives every compaction: the skills in force
\* are neither lost nor repeated nor reordered, and the newest group, the one that the
\* turn answers, is sent at the end, only its texts cut.
EssentialsSurvive == [][compacted' => SkillsSurvive /\ LatestSurvives]_vars

\* Over the budget nothing is left to give: only skills and the newest group
\* remain, and every text is cut to its marker.
BudgetHolds ==
    (compacted /\ CountMessages(messages) > Budget) =>
        LET groups == MessageGroups(messages)
        IN  /\ \A g \in 1..(Len(groups) - 1) : IsProtected(groups[g])
            /\ \A i \in DOMAIN messages : messages[i].size <= 1

\* Between the trigger and the budget the recent messages are sent untouched.
RecentSurvivesStep ==
    (compacted' /\ CountMessages(Summarised(messages, TRUE)) <= Budget) =>
        \E n \in 0..Len(messages) :
            /\ IsSuffix(SubSeq(messages, n + 1, Len(messages)), messages')
            /\ Len(messages) - n >= IF Len(messages) < MinRecent
                                    THEN Len(messages) ELSE MinRecent
RecentSurvives == [][RecentSurvivesStep]_vars
=============================================================================
