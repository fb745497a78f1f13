---------------------------- MODULE ContextWindow ----------------------------
(***************************************************************************)
(* ContextManager.prepare (server/agent/context.py): what is left of a     *)
(* conversation when it outgrows the token budget.  Early messages are     *)
(* replaced by a summary, skill injections and recent messages stay, then  *)
(* whole groups are dropped, and at last texts are cut.                    *)
(***************************************************************************)
EXTENDS Conversation

CONSTANTS
    Budget,       \* token_budget
    Trigger,      \* int(token_budget * summary_trigger_ratio)
    MinRecent     \* min_recent_messages

ASSUME ContextAssumption ==
    /\ Budget \in Nat
    /\ Trigger \in 0..Budget
    /\ MinRecent \in Nat \ {0}

\* A message costs its overhead, its text and the calls it makes.
Tokens(m) == 1 + m.size + Len(m.calls)

CountMessages(messages) ==
    LET total[i \in 0..Len(messages)] ==
            IF i = 0 THEN 0 ELSE total[i - 1] + Tokens(messages[i])
    IN  total[Len(messages)]

-----------------------------------------------------------------------------
(* Groups: a request for tools and its replies are never separated *)

\* The tool message at k belongs to the group that the assistant opened at i:
\* only tool messages lie between, and the ones before k left a call unanswered.
Joins(messages, i, k) ==
    /\ messages[i].role = "assistant"
    /\ \A j \in (i + 1)..k : messages[j].role = "tool"
    /\ ~(CallIds(messages[i]) \subseteq {messages[j].reply : j \in (i + 1)..(k - 1)})

\* Mutant of GroupStarts: every message is a group.
GroupsOfOne(messages) == DOMAIN messages

GroupStarts(messages) ==
    {k \in DOMAIN messages : ~\E i \in 1..(k - 1) : Joins(messages, i, k)}

MessageGroups(messages) ==
    LET start == Ascending(GroupStarts(messages), Len(messages))
        stop(g) == IF g = Len(start) THEN Len(messages) ELSE start[g + 1] - 1
    IN  [g \in 1..Len(start) |-> SubSeq(messages, start[g], stop(g))]

\* Mutant of IsProtected: skills that a tool loaded are forgotten.
IsProtectedByHead(group) == IsInjection(group[1])

IsProtected(group) == \E i \in DOMAIN group : IsInjection(group[i])

Flatten(groups) == FlattenSeq(groups)

\* Mutant of RecentStart: one message too few.
RecentStartShort(groups) ==
    LET enough == {g \in DOMAIN groups :
                      Len(Flatten(SubSeq(groups, g, Len(groups)))) >= MinRecent - 1}
    IN  IF enough = {} THEN 1 ELSE CHOOSE g \in enough : \A h \in enough : h <= g

\* The last groups that together hold MinRecent messages.
RecentStart(groups) ==
    LET enough == {g \in DOMAIN groups :
                      Len(Flatten(SubSeq(groups, g, Len(groups)))) >= MinRecent}
    IN  IF enough = {} THEN 1 ELSE CHOOSE g \in enough : \A h \in enough : h <= g

-----------------------------------------------------------------------------
(* Summary *)

Summary == Text("user", "context_summary", 1)

\* Protected groups first, then the summary of the others, then recent groups.
Summarised(messages, summaryOk) ==
    LET groups == MessageGroups(messages)
        recent == RecentStart(groups)
        early == 1..(recent - 1)
        protected == {g \in early : IsProtected(groups[g])}
        summary == IF early # protected /\ summaryOk THEN <<Summary>> ELSE <<>>
    IN  Flatten(Pick(groups, protected)) \o summary
            \o Flatten(Pick(groups, recent..Len(groups)))

-----------------------------------------------------------------------------
(* The hard budget: ContextManager._fit_budget *)

\* Mutants of DropGroups: the newest group may go too; one group too many stays.
DropAnyGroups(messages) ==
    LET groups == MessageGroups(messages)
        removable == Ascending({g \in DOMAIN groups : ~IsProtected(groups[g])}, Len(groups))
        without(n) == Flatten(Pick(groups, DOMAIN groups \ {removable[k] : k \in 1..n}))
        fits == {n \in 0..Len(removable) : CountMessages(without(n)) <= Budget}
    IN  IF fits = {} THEN without(Len(removable))
        ELSE without(CHOOSE n \in fits : \A m \in fits : n <= m)

DropNoGroups(messages) == messages

\* Drops the oldest unprotected groups, as few as bring it under the budget.
DropGroups(messages) ==
    LET groups == MessageGroups(messages)
        removable == Ascending({g \in 1..(Len(groups) - 1) : ~IsProtected(groups[g])},
                               Len(groups))
        without(n) == Flatten(Pick(groups, DOMAIN groups \ {removable[k] : k \in 1..n}))
        fits == {n \in 0..Len(removable) : CountMessages(without(n)) <= Budget}
    IN  IF fits = {} THEN without(Len(removable))
        ELSE without(CHOOSE n \in fits : \A m \in fits : n <= m)

\* Cuts the head of a text, or all of it but a marker.
CutText(m, overflow) ==
    IF overflow < m.size
    THEN [m EXCEPT !.size = @ - overflow, !.cut = TRUE]
    ELSE [m EXCEPT !.size = 1, !.cut = TRUE, !.runtime = FALSE]

\* Cuts texts from the first message on until the rest fits.
CutTexts(messages) ==
    LET cut[i \in 0..Len(messages)] ==
            IF i = 0 THEN messages
            ELSE LET done == cut[i - 1]
                     overflow == CountMessages(done) - Budget
                 IN  IF overflow <= 0 \/ done[i].size = 0 THEN done
                     ELSE [done EXCEPT ![i] = CutText(@, overflow)]
    IN  cut[Len(messages)]

FitBudget(messages) == CutTexts(DropGroups(messages))

-----------------------------------------------------------------------------
Prepare(messages, summaryOk) ==
    IF CountMessages(messages) <= Trigger THEN messages
    ELSE FitBudget(Summarised(messages, summaryOk))
=============================================================================
