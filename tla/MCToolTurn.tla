------------------------------ MODULE MCToolTurn ------------------------------
(* An instance of the turns of two runs in one workspace. *)
EXTENDS ToolTurn

CONSTANTS r1, r2, notes, plan, photo, dir, x, y, bad, i1

\* The texts of calls: pieces of names and of JSON objects.
Names == <<"wr", "ite">> :> "write" @@ <<"write">> :> "write" @@ <<"edit">> :> "edit"
            @@ <<"read">> :> "read" @@ <<"ls">> :> "ls"

Objects ==
    [o \in {<<"notes", "y">>, <<"swap">>, <<"photo">>, <<"plan">>, <<"dir">>} |->
        CASE o = <<"notes", "y">> -> [path |-> notes, content |-> <<y, Newline>>]
          [] o = <<"swap">> ->
                 [path |-> notes, edits |-> <<[old |-> <<y, Newline>>, new |-> <<x>>],
                                              [old |-> <<x, Newline>>, new |-> <<y, y, Newline>>]>>]
          [] o = <<"photo">> -> [path |-> photo]
          [] o = <<"plan">> -> [path |-> plan, edits |-> <<[old |-> <<x, y>>, new |-> <<y>>],
                                               [old |-> <<y, x>>, new |-> <<>>]>>]
          [] o = <<"dir">> -> [path |-> dir, content |-> <<x>>]]

WriteNotes == [id |-> i1, name |-> <<"wr", "ite">>, arguments |-> <<"notes", "y">>]
SwapNotes == [id |-> i1, name |-> <<"edit">>, arguments |-> <<"swap">>]
EditPlan == [id |-> NoId, name |-> <<"edit">>, arguments |-> <<"plan">>]
ReadPhoto == [id |-> NoId, name |-> <<"read">>, arguments |-> <<"photo">>]
List == [id |-> NoId, name |-> <<"ls">>, arguments |-> <<>>]
WriteDir == [id |-> i1, name |-> <<"write">>, arguments |-> <<"dir">>]

SomeTurns == {<<<<SwapNotes, List>>>>,
              <<<<EditPlan, WriteNotes>>>>,
              <<<<ReadPhoto>>, <<WriteDir>>>>}

InOrder == <<dir, notes, photo, plan>>
Start(text) == [p \in {notes, plan, photo, dir} |->
                   CASE p = notes -> <<x, Newline, y, Newline>> [] p = photo -> Picture
                     [] p = plan -> text [] p = dir -> Folder]

\* The edits of the plan overlap in the first, which has two kinds of line ends, and do
\* not in the second, which is not all UTF-8.
Starts == {Start(<<y, x, y, y, y, y, Return, y, Return, Newline>>),
           Start(<<x, y, bad, Newline, y, x>>)}

Interchangeable == Permutations({r1, r2})

\* The theorem about CallsArriveWhole speaks of such providers.
ASSUME ProviderKeepsProtocol == CallsWellFormed
=============================================================================
