------------------------------- MODULE ToolTurn -------------------------------
(***************************************************************************)
(* The inside of a turn: runs of several sessions that share a workspace,  *)
(* each from its request to the provider (server/agent/llm.py) over the    *)
(* streamed pieces of its tool calls (core.py, _model_turn) and the        *)
(* registry (registry.py) to the file tools (tools/filesystem.py). What a  *)
(* turn does to the conversation is in AgentLoop.                          *)
(*                                                                         *)
(* A file tool never awaits: from its first line to its last no other task *)
(* runs, and no timeout bites. Only the end of the process can come in     *)
(* between, so a write is three steps that hold the event loop.            *)
(***************************************************************************)
EXTENDS FileTools

CONSTANTS
    Runs, Nobody,
    Paths,                     \* the files of the workspace
    Missing, Folder, Picture,  \* what is at a path, when it is not a text
    ImagePaths,                \* paths with the suffix of an image
    PathOrder,                 \* the paths, as _iter_files sorts them
    Ignored,                   \* paths that a .gitignore names
    Workspaces,                \* what the workspace may hold at the start
    Turns,                     \* the turns that the provider may take, for each run
    ToolNames,                 \* the pieces of a name -> the tool of that name
    Json,                      \* the pieces of an object's text -> the object
    NoId,                      \* a call that the provider gives no id
    MaxMishaps                 \* bound on disk errors and crashes together

IsText(content) == content \notin {Missing, Folder, Picture}
IsSymbols(text) == text \in Seq(ToSet(text))

ASSUME ToolTurnAssumption ==
    /\ Nobody \notin Runs
    /\ MaxMishaps \in Nat
    /\ \A w \in Workspaces : DOMAIN w = Paths

\* Texts are texts: in the workspace, and in the arguments that write and edit convert
\* to such. A directory lists a path once, and a temporary file has a name of its own.
ASSUME TextsAssumption ==
    /\ \A w \in Workspaces : \A p \in Paths : IsText(w[p]) => IsSymbols(w[p])
    /\ \A o \in DOMAIN Json :
          /\ "content" \in DOMAIN Json[o] => IsSymbols(Json[o].content)
          /\ "edits" \in DOMAIN Json[o] =>
                /\ Json[o].edits \in Seq(ToSet(Json[o].edits))
                /\ \A n \in DOMAIN Json[o].edits :
                      IsSymbols(Json[o].edits[n].old) /\ IsSymbols(Json[o].edits[n].new)
    /\ PathOrder \in Seq(Paths)
    /\ \A i, j \in DOMAIN PathOrder : i # j => PathOrder[i] # PathOrder[j]
    /\ \A r \in Runs : <<"left by", r>> \notin Paths

VARIABLES
    files,      \* the workspace
    drafts,     \* temporary files, by the run that makes them
    loop,       \* the run whose tool holds the event loop
    runs,       \* the runs: see Waiting
    mishaps     \* disk errors and crashes so far

vars == <<files, drafts, loop, runs, mishaps>>

NoDraft == [path |-> Nobody, text |-> <<>>]
NoResult == [reply |-> "none", late |-> FALSE]
NoArguments == <<>>
Raw == [raw_arguments |-> TRUE]

\* A run: where it stands and why it ended; what the provider will do in each turn;
\* _ActiveRun.cancel; the turn; whether images read in earlier turns follow a reply that
\* is still in the prepared context, and whether any were read in this turn
\* (turn_attachments); _vision_supported is False; how many pieces of each call were
\* streamed; the buffers by index; the calls, the replies stored for them, and a result
\* not stored yet. Two fields only record: the requests made of the provider (asked),
\* and whether the current call changed its file (performed).
Waiting(turns) ==
    [stage |-> "waiting", finish |-> "none", script |-> turns, cancel |-> FALSE,
     turn |-> 0, images |-> FALSE, attached |-> FALSE, blind |-> FALSE, asked |-> <<>>,
     sent |-> <<>>, buffers |-> <<>>, calls |-> <<>>, replies |-> <<>>,
     held |-> NoResult, performed |-> FALSE]

\* Nothing of a run outlives it.
Over(reason) == [Waiting(<<>>) EXCEPT !.stage = "over", !.finish = reason]

Init ==
    /\ files \in Workspaces
    /\ runs \in [Runs -> {Waiting(turns) : turns \in Turns}]
    /\ drafts = [r \in Runs |-> NoDraft]
    /\ loop = Nobody
    /\ mishaps = 0

\* The event loop runs a step of r: no tool holds it.
At(r, stage) == loop = Nobody /\ runs[r].stage = stage

Becomes(r, me) == runs' = [runs EXCEPT ![r] = me]

\* A step of r that leaves the workspace alone.
Goes(r, me) == Becomes(r, me) /\ UNCHANGED <<files, drafts, loop, mishaps>>

-----------------------------------------------------------------------------
(* Asking the provider: OpenAICompatClient.stream *)

\* The calls of the turn; a turn behind the script is plain text.
Offered(r) == IF runs[r].turn \in DOMAIN runs[r].script
              THEN runs[r].script[runs[r].turn] ELSE <<>>

\* The context is prepared, and _insert_ephemeral_messages puts the images behind the
\* replies that they came with. kept: the compaction left one of these in the context;
\* one that it drops or summarises never comes back.
BeginTurn(r) ==
    LET me == runs[r]
    IN  /\ \/ At(r, "waiting")
           \/ At(r, "calls") /\ Len(me.replies) = Len(me.calls)
        /\ ~me.cancel
        /\ \E kept \in BOOLEAN :
              Goes(r, [me EXCEPT !.stage = "asking", !.turn = @ + 1,
                                 !.images = kept /\ (@ \/ me.attached), !.attached = FALSE,
                                 !.sent = <<>>, !.buffers = <<>>, !.calls = <<>>,
                                 !.replies = <<>>])

\* The provider answers a request with a stream.
Requested(r, withImages, answer) ==
    [runs[r] EXCEPT !.asked = Append(@, [turn |-> runs[r].turn, images |-> withImages,
                                         answer |-> answer]),
                    !.stage = "streaming",
                    !.sent = [n \in DOMAIN Offered(r) |-> 0]]

\* Mutant of Refused: it is forgotten that the endpoint takes no images.
RefusedOnce(r) == [Requested(r, TRUE, "no_images") EXCEPT !.stage = "retrying", !.sent = <<>>]

\* The endpoint says that it takes no images.
Refused(r) == [Requested(r, TRUE, "no_images") EXCEPT !.stage = "retrying", !.sent = <<>>,
                                                      !.blind = TRUE]

Ask(r) ==
    LET withImages == runs[r].images /\ ~runs[r].blind
    IN  /\ At(r, "asking")
        /\ \/ Goes(r, Requested(r, withImages, "stream"))
           \/ withImages /\ Goes(r, Refused(r))

\* Once more without the images.
AskAgain(r) == At(r, "retrying") /\ Goes(r, Requested(r, FALSE, "stream"))

\* Any other exception of the provider, also from within the stream, ends the run.
ProviderFails(r) ==
    /\ At(r, "asking") \/ At(r, "retrying") \/ At(r, "streaming")
    /\ Goes(r, Over("error"))

-----------------------------------------------------------------------------
(* The stream: pieces of several calls, told apart by their index *)

\* The kth piece of a call: of its name, which comes with the id, then of its
\* arguments.
Piece(call, k) ==
    IF k <= Len(call.name)
    THEN [id |-> IF k = 1 THEN call.id ELSE NoId, name |-> <<call.name[k]>>, arguments |-> <<>>]
    ELSE [id |-> NoId, name |-> <<>>, arguments |-> <<call.arguments[k - Len(call.name)]>>]

Pieces(call) == Len(call.name) + Len(call.arguments)

Buffer(b, index) == IF index \in DOMAIN b THEN b[index]
                    ELSE [id |-> NoId, name |-> <<>>, arguments |-> <<>>]

\* Mutant of Collect: the id is that of the last piece.
CollectLastId(b, index, delta) ==
    LET old == Buffer(b, index)
    IN  [i \in DOMAIN b \cup {index} |-> IF i # index THEN b[i] ELSE
            [id |-> delta.id, name |-> old.name \o delta.name,
             arguments |-> old.arguments \o delta.arguments]]

Collect(b, index, delta) ==
    LET old == Buffer(b, index)
    IN  [i \in DOMAIN b \cup {index} |-> IF i # index THEN b[i] ELSE
            [id |-> IF delta.id = NoId THEN old.id ELSE delta.id,
             name |-> old.name \o delta.name,
             arguments |-> old.arguments \o delta.arguments]]

\* A chunk with several pieces is several steps. What came together with an abort
\* may still be taken.
Receive(r) ==
    /\ At(r, "streaming")
    /\ \E n \in DOMAIN Offered(r) :
          /\ runs[r].sent[n] < Pieces(Offered(r)[n])
          /\ Goes(r, [runs[r] EXCEPT
                !.sent[n] = @ + 1,
                !.buffers = Collect(@, n, Piece(Offered(r)[n], runs[r].sent[n] + 1))])

\* _parse_arguments.
Parsed(text) == IF text = <<>> THEN NoArguments
                ELSE IF text \in DOMAIN Json THEN Json[text] ELSE Raw

\* The indices of the buffers, in ascending order.
Indices(buffers) ==
    CHOOSE at \in [1..Cardinality(DOMAIN buffers) -> DOMAIN buffers] :
        \A i, j \in DOMAIN at : i < j => at[i] < at[j]

Assembled(r) ==
    LET at == Indices(runs[r].buffers)
    IN  [n \in DOMAIN at |->
            LET buffer == runs[r].buffers[at[n]]
            IN  [id |-> IF buffer.id = NoId THEN <<runs[r].turn, at[n]>> ELSE buffer.id,
                 name |-> buffer.name, arguments |-> Parsed(buffer.arguments)]]

\* The stream is over, also when the provider cut it off; without calls the run is.
EndStream(r) ==
    /\ At(r, "streaming")
    /\ Goes(r, IF Assembled(r) = <<>> THEN Over("complete")
               ELSE [runs[r] EXCEPT !.stage = "calls", !.calls = Assembled(r)])

-----------------------------------------------------------------------------
(* The calls, one after the other *)

Current(r) == runs[r].calls[Len(runs[r].replies) + 1]

\* The tool_call event is sent.
Announce(r) ==
    /\ At(r, "calls") /\ ~runs[r].cancel
    /\ Len(runs[r].replies) < Len(runs[r].calls)
    /\ Goes(r, [runs[r] EXCEPT !.stage = "announced"])

Required(tool) == CASE tool = "read" -> {"path"}
                    [] tool = "write" -> {"path", "content"}
                    [] tool = "edit" -> {"path", "edits"}
                    [] tool = "ls" -> {}

Accepted(tool) == Required(tool) \cup CASE tool = "read" -> {"offset", "limit"}
                                        [] tool = "ls" -> {"path", "limit"}
                                        [] OTHER -> {}

\* _validate_arguments: the keys; what the values are is left out.
Valid(tool, arguments) ==
    /\ arguments # Raw
    /\ Required(tool) \subseteq DOMAIN arguments
    /\ DOMAIN arguments \subseteq Accepted(tool)

\* ToolRegistry.execute, before it calls the tool.
Refusal(call) ==
    IF call.name \notin DOMAIN ToolNames THEN "tool_not_found"
    ELSE IF Valid(ToolNames[call.name], call.arguments) THEN "none"
    ELSE "tool_arguments_invalid"

Writes(call) == Refusal(call) = "none" /\ ToolNames[call.name] \in {"write", "edit"}

\* resolve_inside; the workspace itself is read as the folder ".".
Found(path) == path \in Paths /\ files[path] # Missing

\* _read_text, and what read and grep make of a text.
Content(path) == Decoded(files[path])

ReadWorks(arguments) ==
    LET path == arguments.path
        offset == IF "offset" \in DOMAIN arguments THEN arguments.offset ELSE 1
    IN  /\ Found(path) /\ files[path] # Folder
        /\ IF path \in ImagePaths THEN files[path] = Picture
           ELSE files[path] = Picture \/ ~ReadFails(Content(path), offset)

LookWorks(call) ==
    IF ToolNames[call.name] = "ls"
    THEN "path" \in DOMAIN call.arguments =>
            Found(call.arguments.path) /\ files[call.arguments.path] = Folder
    ELSE ReadWorks(call.arguments)

\* The executors of write and edit, up to the text that they store.
Draft(call) ==
    LET arguments == call.arguments
    IN  IF ToolNames[call.name] = "write" THEN arguments.content
        ELSE Replaced(Content(arguments.path), arguments.edits)

DraftWorks(call) ==
    LET arguments == call.arguments
    IN  IF ToolNames[call.name] = "write"
        THEN arguments.path \in Paths
        ELSE /\ Found(arguments.path) /\ IsText(files[arguments.path])
             /\ ~EditFails(Content(arguments.path), arguments.edits)
             /\ ~Overlap(Spans(Content(arguments.path), arguments.edits))

\* A tool answers: late, when the abort was there before.
Holding(r, reply) == [runs[r] EXCEPT !.stage = "answered",
                                      !.held = [reply |-> reply, late |-> runs[r].cancel]]

\* read attaches a picture to the turn.
Attaches(call) == /\ LookWorks(call) /\ "path" \in DOMAIN call.arguments
                  /\ call.arguments.path \in ImagePaths

\* The tool's task runs. Anything but a write answers at once.
StartTool(r) ==
    LET call == Current(r)
    IN  /\ At(r, "announced")
        /\ \/ /\ Refusal(call) # "none"
              /\ Goes(r, Holding(r, Refusal(call)))
           \/ /\ Refusal(call) = "none" /\ ~Writes(call)
              /\ Goes(r, IF LookWorks(call)
                         THEN [Holding(r, "ok") EXCEPT !.attached = @ \/ Attaches(call)]
                         ELSE Holding(r, "tool_failed"))

\* An abort that came before the tool ran makes _check_cancel raise.
MayWrite(r) ==
    LET call == Current(r)
    IN  DraftWorks(call) /\ ~runs[r].cancel /\ files[call.arguments.path] # Folder

\* write and edit, up to the temporary file of _atomic_write.
StartWrite(r) ==
    /\ At(r, "announced") /\ Writes(Current(r))
    /\ \/ ~MayWrite(r) /\ Goes(r, Holding(r, "tool_failed"))
       \/ /\ MayWrite(r)
          /\ drafts' = [drafts EXCEPT ![r].path = Current(r).arguments.path]
          /\ loop' = r
          /\ Becomes(r, [runs[r] EXCEPT !.stage = "writing"])
          /\ UNCHANGED <<files, mishaps>>

WriteDraft(r) ==
    /\ runs[r].stage = "writing"
    /\ drafts' = [drafts EXCEPT ![r].text = Draft(Current(r))]
    /\ Becomes(r, [runs[r] EXCEPT !.stage = "replacing"])
    /\ UNCHANGED <<files, loop, mishaps>>

ReplaceFile(r) ==
    /\ runs[r].stage = "replacing"
    /\ files' = [files EXCEPT ![drafts[r].path] = drafts[r].text]
    /\ drafts' = [drafts EXCEPT ![r] = NoDraft]
    /\ loop' = Nobody
    /\ Becomes(r, [Holding(r, "ok") EXCEPT !.performed = TRUE])
    /\ UNCHANGED mishaps

\* Mutant of DiskFails: the temporary file stays.
DiskFailsLeaving(r) ==
    /\ runs[r].stage \in {"writing", "replacing"}
    /\ mishaps < MaxMishaps /\ mishaps' = mishaps + 1
    /\ loop' = Nobody
    /\ Becomes(r, Holding(r, "tool_failed"))
    /\ UNCHANGED <<files, drafts>>

\* The temporary file is removed on the way out.
DiskFails(r) ==
    /\ runs[r].stage \in {"writing", "replacing"}
    /\ mishaps < MaxMishaps /\ mishaps' = mishaps + 1
    /\ drafts' = [drafts EXCEPT ![r] = NoDraft]
    /\ loop' = Nobody
    /\ Becomes(r, Holding(r, "tool_failed"))
    /\ UNCHANGED files

\* The result is stored and sent, unless the abort was there before it.
Reply(r) ==
    LET me == runs[r]
    IN  /\ At(r, "answered") /\ ~me.held.late
        /\ Goes(r, [me EXCEPT !.stage = "calls", !.replies = Append(@, me.held.reply),
                              !.held = NoResult, !.performed = FALSE])

-----------------------------------------------------------------------------
(* Aborts and crashes *)

Abort(r) ==
    /\ loop = Nobody /\ runs[r].stage \notin {"waiting", "over"} /\ ~runs[r].cancel
    /\ Goes(r, [runs[r] EXCEPT !.cancel = TRUE])

\* The flag is looked at between the calls, and while waiting for the provider or
\* for a tool.
LeaveCancelled(r) ==
    /\ loop = Nobody /\ runs[r].cancel
    /\ runs[r].stage \in {"calls", "asking", "retrying", "streaming", "answered"}
    /\ Goes(r, Over("aborted"))

\* The response is closed or cancelled at a yield or an await: nothing of the run
\* goes on.
LeaveClosed(r) ==
    /\ loop = Nobody /\ runs[r].stage \notin {"waiting", "over"}
    /\ Goes(r, Over("closed"))

\* The process ends, wherever it is; a run that has not begun meets the next one.
Crash ==
    /\ mishaps < MaxMishaps /\ mishaps' = mishaps + 1
    /\ loop' = Nobody
    /\ runs' = [r \in Runs |-> IF runs[r].stage \in {"waiting", "over"} THEN runs[r]
                               ELSE Over("crashed")]
    /\ UNCHANGED <<files, drafts>>

Next ==
    \/ \E r \in Runs :
          \/ BeginTurn(r) \/ Ask(r) \/ AskAgain(r) \/ ProviderFails(r) \/ Receive(r) \/ EndStream(r)
          \/ Announce(r) \/ StartTool(r) \/ StartWrite(r) \/ WriteDraft(r)
          \/ ReplaceFile(r) \/ DiskFails(r) \/ Reply(r)
          \/ Abort(r) \/ LeaveCancelled(r) \/ LeaveClosed(r)
    \/ Crash

Spec == Init /\ [][Next]_vars

-----------------------------------------------------------------------------
(* Properties *)

Stages == {"waiting", "asking", "retrying", "streaming", "calls", "announced", "writing",
           "replacing", "answered", "over"}

\* A temporary file exists only while it is written, or after a crash; a tool holds
\* the event loop exactly while it writes; a result is held exactly until it is stored.
TypeOK ==
    /\ DOMAIN files = Paths /\ DOMAIN runs = Runs
    /\ mishaps \in 0..MaxMishaps
    /\ \A r \in Runs :
          LET me == runs[r]
          IN  /\ me.stage \in Stages
              /\ drafts[r] # NoDraft => loop = r \/ me.finish = "crashed"
              /\ (loop = r) = (me.stage \in {"writing", "replacing"})
              /\ (me.held # NoResult) = (me.stage = "answered")
              /\ me.stage \in {"announced", "writing", "replacing", "answered"} =>
                    Len(me.replies) < Len(me.calls)
              /\ (me.finish # "none") = (me.stage = "over")

\* The call that the provider means.
Meant(r, n) ==
    LET call == Offered(r)[n]
    IN  [id |-> IF call.id = NoId THEN <<runs[r].turn, n>> ELSE call.id,
         name |-> call.name, arguments |-> Parsed(call.arguments)]

\* A provider that keeps to its protocol: each call has a name, and no part of an
\* object's text is an object's text already.
WellFormed(call) ==
    /\ call.name \in Seq(ToSet(call.name)) \ {<<>>}
    /\ call.arguments \in Seq(ToSet(call.arguments))
    /\ \A k \in 1..(Len(call.arguments) - 1) : SubSeq(call.arguments, 1, k) \notin DOMAIN Json

CallsWellFormed ==
    \A turns \in Turns : \A t \in DOMAIN turns :
        /\ turns[t] \in Seq(ToSet(turns[t]))
        /\ \A n \in DOMAIN turns[t] : WellFormed(turns[t][n])

ArrivedWhole(r) == {n \in DOMAIN Offered(r) : runs[r].sent[n] = Pieces(Offered(r)[n])}

\* However the pieces of several calls are mixed in the stream, _model_turn makes of
\* them the calls that the provider means, in their order; of a stream that is cut
\* off, only a call that arrived whole can change a file.
CallsArriveWhole ==
    \A r \in Runs : runs[r].calls # <<>> =>
        /\ ArrivedWhole(r) = DOMAIN Offered(r) =>
              runs[r].calls = [n \in DOMAIN Offered(r) |-> Meant(r, n)]
        /\ \A i \in DOMAIN runs[r].calls : Writes(runs[r].calls[i]) =>
              \E n \in ArrivedWhole(r) : runs[r].calls[i] = Meant(r, n)

\* What a call of write or edit is to leave at its path: of an edited file, also what
\* is no UTF-8 comes back replaced.
Intended(call, content) ==
    IF ToolNames[call.name] = "write" THEN call.arguments.content
    ELSE Simultaneous(Decoded(content), call.arguments.edits)

\* A file changes only by the call in flight, from what it held at that moment to
\* exactly what the call asks for, whatever other runs did since the model read it
\* and wherever a disk error or a crash strikes. The model is told of success exactly
\* when the file was replaced; only a run that is aborted, closed or killed may leave
\* a change that nobody was told of.
EffectsAsReplied ==
    [][/\ \A p \in Paths : files'[p] # files[p] =>
             \E r \in Runs : /\ loop = r
                             /\ Writes(Current(r)) /\ Current(r).arguments.path = p
                             /\ files'[p] = Intended(Current(r), files[p])
       /\ \A r \in Runs :
             LET me == runs[r]
             IN  /\ Len(runs'[r].replies) > Len(me.replies) =>
                       me.performed = (Writes(Current(r)) /\ Last(runs'[r].replies) = "ok")
                 /\ me.performed /\ runs'[r].finish # me.finish =>
                       runs'[r].finish \in {"aborted", "closed", "crashed"}
      ]_vars

\* An endpoint that takes no images is asked once more without them, and gets no
\* images for the rest of the run. Images that follow a reply in the prepared context
\* are left out for no other reason, and others are not sent.
ImagesOfferedOnce ==
    \A r \in Runs :
        LET log == runs[r].asked
        IN  \A i \in DOMAIN log :
               /\ \A j \in 1..(i - 1) :
                     /\ log[j].answer = "no_images" => ~log[i].images
                     /\ log[j].turn = log[i].turn => j = i - 1 /\ log[j].answer = "no_images"
               /\ log[i].turn = runs[r].turn =>
                     (log[i].images <=> /\ runs[r].images
                                        /\ \A j \in 1..(i - 1) : log[j].answer # "no_images")

\* The files that grep and find walk through: what crashes left, then what no
\* .gitignore names.
Walk ==
    LET left == SetToSeq({r \in Runs : drafts[r] # NoDraft})
        named == Pick(PathOrder, {i \in DOMAIN PathOrder :
                                    /\ files[PathOrder[i]] \notin {Missing, Folder}
                                    /\ PathOrder[i] \notin Ignored})
    IN  [n \in DOMAIN left |-> [path |-> <<"left by", left[n]>>, text |-> drafts[left[n]].text]]
        \o [n \in DOMAIN named |-> [path |-> named[n], text |-> files[named[n]]]]

\* The texts among them, as grep reads them.
Texts ==
    LET texts == Pick(Walk, {i \in DOMAIN Walk : IsText(Walk[i].text)})
    IN  [n \in DOMAIN texts |-> [path |-> texts[n].path, text |-> Decoded(texts[n].text)]]

\* Whatever a tool finds in the workspace when it starts, the model can read all of it
\* page by page and sees in it what it searches for.
ViewsHold ==
    (\E r \in Runs : At(r, "announced")) =>
        /\ \A p \in Paths : IsText(files[p]) =>
              \A offset \in DOMAIN Lines(Content(p)), limit \in 1..(MaxReadLines + 1) :
                  PageHolds(Content(p), offset, limit)
        /\ LET walked == WalkedLines(Texts)
           IN  \A pattern \in UNION {ToSet(walked[i].text) : i \in DOMAIN walked},
                  context \in 0..1, limit \in 1..2 :
                     GrepHolds(walked, pattern, context, limit)
        /\ LET paths == [n \in DOMAIN Walk |-> Walk[n].path]
           IN  \A p \in ToSet(paths), limit \in 1..2 :
                  \A matching \in {{p}, ToSet(paths) \ {p}} :
                     FindHolds(paths, matching, limit)
=============================================================================
