------------------------------- MODULE FileTools -------------------------------
(***************************************************************************)
(* What the file tools compute (server/agent/tools/filesystem.py), and what *)
(* the registry makes of it (server/agent/registry.py). A text is a        *)
(* sequence of symbols, each as long as one byte. The limits on output are *)
(* constants: 50 KB and 2000 lines in the code, a few symbols in the runs. *)
(***************************************************************************)
EXTENDS Integers, SequencesExt, FiniteSetsExt, Positions

CONSTANTS
    Newline, Return, \* the symbols that end a line, one behind the other just one
    Breaks,         \* other symbols that str.splitlines takes for the end of one
    Invalid,        \* what is no UTF-8
    Replacement,    \* the symbol that errors="replace" puts in its place
    MaxReadLines,   \* MAX_READ_LINES
    MaxOutput,      \* MAX_OUTPUT_BYTES
    NoticeSize,     \* the length of _TRUNCATED
    MaxResult,      \* AgentConfig.tool_result_max_chars
    MarkerSize      \* the length of the registry's own marker

ASSUME FileToolsAssumption ==
    /\ Replacement \notin Invalid
    /\ MaxReadLines \in Nat \ {0}
    /\ NoticeSize \in Nat /\ MaxOutput \in Nat /\ NoticeSize < MaxOutput
    /\ MarkerSize \in Nat /\ MaxResult \in Nat /\ MarkerSize < MaxResult

Smaller(a, b) == IF a < b THEN a ELSE b

\* What every tool that reads a text makes of the bytes of a file.
Decoded(bytes) ==
    [i \in DOMAIN bytes |-> IF bytes[i] \in Invalid THEN Replacement ELSE bytes[i]]

-----------------------------------------------------------------------------
(* edit *)

Occurrences(old, text) ==
    {i \in 1..(Len(text) - Len(old) + 1) : SubSeq(text, i, i + Len(old) - 1) = old}

\* re.finditer: from left to right, the next match after the last one's end.
Matches(old, text) ==
    LET found[i \in 0..Len(text)] ==
            IF i = 0 THEN {}
            ELSE LET before == found[i - 1]
                 IN  IF i \in Occurrences(old, text) /\ \A m \in before : m + Len(old) <= i
                     THEN before \cup {i} ELSE before
    IN  found[Len(text)]

\* edits: a sequence of [old, new].
EditFails(text, edits) ==
    \/ edits = <<>>
    \/ \E n \in DOMAIN edits : edits[n].old = <<>>
                               \/ Cardinality(Matches(edits[n].old, text)) # 1

\* The stretches of the text to replace: [from, to), and what comes there.
Spans(text, edits) ==
    [n \in DOMAIN edits |->
        LET from == CHOOSE i \in Matches(edits[n].old, text) : TRUE
        IN  [from |-> from, to |-> from + Len(edits[n].old), new |-> edits[n].new]]

Overlap(spans) ==
    \E n, m \in DOMAIN spans : n # m /\ spans[n].from <= spans[m].from
                                     /\ spans[m].from < spans[n].to

\* The text between the spans, and the new text of each, in the order of the spans.
Spliced(text, spans) ==
    LET built[n \in 0..Len(spans)] ==
            IF n = 0 THEN [parts |-> <<>>, cursor |-> 1]
            ELSE LET before == built[n - 1]
                 IN  [parts |-> before.parts \o SubSeq(text, before.cursor, spans[n].from - 1)
                                \o spans[n].new,
                      cursor |-> spans[n].to]
        all == built[Len(spans)]
    IN  all.parts \o SubSeq(text, all.cursor, Len(text))

\* From left to right: spans that do not overlap begin at places of their own.
LeftToRight(text, spans) ==
    LET from == Ascending({spans[n].from : n \in DOMAIN spans}, Len(text))
    IN  [k \in DOMAIN from |-> spans[CHOOSE n \in DOMAIN spans : spans[n].from = from[k]]]

\* Mutant of Replaced: the edits are spliced in the order they were given.
ReplacedAsGiven(text, edits) == Spliced(text, Spans(text, edits))

Replaced(text, edits) == Spliced(text, LeftToRight(text, Spans(text, edits)))

-----------------------------------------------------------------------------
(* read *)

\* Where a text's lines end: a return with a newline behind it does not end one.
LineEnds(text, ends) ==
    {i \in DOMAIN text :
        \/ i = Len(text)
        \/ text[i] \in ends /\ ~(text[i] = Return /\ text[i + 1] = Newline)}

\* The lines of a text, each with its end.
SplitAt(text, ends) ==
    LET at == Ascending(LineEnds(text, ends), Len(text))
    IN  [n \in DOMAIN at |-> SubSeq(text, IF n = 1 THEN 1 ELSE at[n - 1] + 1, at[n])]

\* What a file opened with newline="" iterates over.
Lines(text) == SplitAt(text, {Newline, Return})

\* The lines from the nth on, as one text.
From(lines, n) == FlattenSeq(SubSeq(lines, n, Len(lines)))

ReadFails(text, offset) == offset > Len(Lines(text)) /\ ~(offset = 1 /\ text = <<>>)

\* Mutant of ReadPage: no notice follows a page that stops at its limit.
ReadPageSilently(text, offset, limit) ==
    LET lines == Lines(text)
    IN  [text |-> FlattenSeq(SubSeq(lines, offset, Smaller(offset + limit - 1, Len(lines)))),
         more |-> FALSE]

\* more: the notice that follows the text, for which it makes room.
ReadPage(text, offset, limit) ==
    LET lines == Lines(text)
        rest == SubSeq(lines, offset, Len(lines))
        most == Smaller(Smaller(limit, MaxReadLines), Len(rest))
        whole == Max({n \in 0..most : Len(FlattenSeq(SubSeq(rest, 1, n))) <= MaxOutput})
        shown == IF whole = most THEN FlattenSeq(SubSeq(rest, 1, whole))
                 ELSE SubSeq(FlattenSeq(rest), 1, MaxOutput)
    IN  IF whole = Len(rest) THEN [text |-> shown, more |-> FALSE]
        ELSE [text |-> SubSeq(shown, 1, Smaller(Len(shown), MaxOutput - NoticeSize)),
              more |-> TRUE]

\* _truncate_result: how much of a result, its notice included, the model is given.
Truncated(page) ==
    IF Len(page.text) + (IF page.more THEN NoticeSize ELSE 0) <= MaxResult THEN page
    ELSE [text |-> SubSeq(page.text, 1, Smaller(Len(page.text), MaxResult - MarkerSize)),
          more |-> TRUE]

-----------------------------------------------------------------------------
(* grep, over a walk: the files in the order of _iter_files *)

\* [path, number, text] for every line of the files walked.
WalkedLines(walk) ==
    FlattenSeq([f \in DOMAIN walk |->
        LET lines == SplitAt(walk[f].text, Breaks \cup {Newline, Return})
        IN  [n \in DOMAIN lines |-> [path |-> walk[f].path, number |-> n, text |-> lines[n]]]])

\* The lines shown, by their place in the walk; those shown as matches; and
\* whether the search stopped at its limit.
Grep(walked, pattern, context, limit) ==
    LET Near(i) == {j \in DOMAIN walked : walked[j].path = walked[i].path
                                          /\ j \in (i - context)..(i + context)}
        seen[i \in 0..Len(walked)] ==
            IF i = 0 THEN [shown |-> <<>>, marked |-> {}, count |-> 0, full |-> FALSE]
            ELSE LET acc == seen[i - 1]
                     new == Near(i) \ ToSet(acc.shown)
                 IN  IF acc.full \/ pattern \notin ToSet(walked[i].text) THEN acc
                     ELSE [shown |-> acc.shown \o Ascending(new, Len(walked)),
                           marked |-> acc.marked \cup (new \cap {i}),
                           count |-> acc.count + 1,
                           full |-> acc.count + 1 >= limit]
        all == seen[Len(walked)]
    IN  [shown |-> all.shown, marked |-> all.marked, full |-> all.full]

-----------------------------------------------------------------------------
(* find, over the paths walked *)

\* matching: the paths that the pattern matches. The walk stops at the limit, also
\* when nothing is left behind it.
Find(paths, matching, limit) ==
    LET hits == Pick(paths, {i \in DOMAIN paths : paths[i] \in matching})
    IN  [shown |-> SubSeq(hits, 1, Smaller(limit, Len(hits))), full |-> limit <= Len(hits)]

-----------------------------------------------------------------------------
(* What they promise *)

\* Every old text makes place for its new text at once: a symbol outside them all
\* stays, one inside goes, and the new text stands where the old one began. (Where an
\* old text overlaps itself the first match counts, as for the tool.)
Simultaneous(text, edits) ==
    LET At(i) == {n \in DOMAIN edits : i \in Matches(edits[n].old, text)}
        Inside(i) == \E n \in DOMAIN edits : \E j \in Matches(edits[n].old, text) :
                        i \in j..(j + Len(edits[n].old) - 1)
        Begun(i) == IF At(i) = {} THEN <<>> ELSE edits[CHOOSE n \in At(i) : TRUE].new
    IN  FlattenSeq([i \in DOMAIN text |->
            Begun(i) \o IF Inside(i) THEN <<>> ELSE <<text[i]>>])

\* Whoever continues behind the last whole line gets to see every line that fits:
\* a page shows what comes first, says so when it does not show all, and moves on.
PageHolds(text, offset, limit) ==
    LET lines == Lines(text)
        page == Truncated(ReadPage(text, offset, limit))
    IN  /\ IsPrefix(page.text, From(lines, offset))
        /\ ~page.more => page.text = From(lines, offset)
        /\ Len(lines[offset]) <= Smaller(MaxOutput - NoticeSize, MaxResult - MarkerSize)
              => Len(lines[offset]) <= Len(page.text)

\* A search shows each line once and in order, every match among them unless it says
\* that it stopped, and nothing that is not near a match.
GrepHolds(walked, pattern, context, limit) ==
    LET grep == Grep(walked, pattern, context, limit)
        hits == {i \in DOMAIN walked : pattern \in ToSet(walked[i].text)}
    IN  /\ \A n \in 2..Len(grep.shown) : grep.shown[n - 1] < grep.shown[n]
        /\ ~grep.full => hits \subseteq ToSet(grep.shown)
        /\ grep.full => Cardinality(hits \cap ToSet(grep.shown)) >= limit
        /\ grep.marked \subseteq hits
        /\ \A i \in ToSet(grep.shown) : \E h \in hits : i \in (h - context)..(h + context)

\* A search for files leaves out a path that matches only behind as many as it may
\* show, and then says that it stopped.
FindHolds(paths, matching, limit) ==
    LET find == Find(paths, matching, limit)
        Passed(i) == ToSet(SubSeq(paths, 1, i)) \cap matching
    IN  /\ ToSet(find.shown) \subseteq matching
        /\ \A i \in DOMAIN paths :
              paths[i] \in matching \ ToSet(find.shown) =>
                  find.full /\ Cardinality(Passed(i - 1)) >= limit
=============================================================================
