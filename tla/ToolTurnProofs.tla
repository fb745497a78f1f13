---------------------------- MODULE ToolTurnProofs ----------------------------
(***************************************************************************)
(* What holds of the turns of any number of runs in one workspace, for any *)
(* scripts of the provider and any mixing of their pieces: who holds the   *)
(* event loop, which temporary files exist, that images are offered again  *)
(* to no endpoint that refused them, that the pieces of a stream become    *)
(* the calls that the provider means, that a file changes only by the call *)
(* in flight, to what the call asks for, and the model is told of it, and  *)
(* what read, grep and find show of the workspace. What the file tools     *)
(* compute is proved by itself, for texts of any length.                   *)
(***************************************************************************)
EXTENDS ToolTurn, ContextWindowProofs, FiniteSetTheorems

-----------------------------------------------------------------------------
(* The invariant: what is known of each run by itself *)

Fields == {"stage", "finish", "script", "cancel", "turn", "images", "attached", "blind",
           "asked", "sent", "buffers", "calls", "replies", "held", "performed"}

Write == {"writing", "replacing"}
Call == {"announced", "writing", "replacing", "answered"}

Replies == {"none", "ok", "tool_failed", "tool_not_found", "tool_arguments_invalid"}
Endings == {"complete", "error", "aborted", "closed", "crashed"}

\* The call that a run is at.
CallOf(me) == me.calls[Len(me.replies) + 1]

StageOK(me) ==
    /\ DOMAIN me = Fields
    /\ me.stage \in Stages
    /\ me.cancel \in BOOLEAN /\ me.performed \in BOOLEAN
    /\ me.replies \in Seq(Replies)
    /\ DOMAIN me.held = {"reply", "late"} /\ me.held.reply \in Replies
    /\ me.held # NoResult <=> me.stage = "answered"
    /\ me.finish # "none" <=> me.stage = "over"
    /\ me.stage \in Call => Len(me.replies) < Len(me.calls)
    /\ me.performed => me.stage = "answered"
    /\ me.stage = "answered" =>
          (me.performed <=> Writes(CallOf(me)) /\ me.held.reply = "ok")

Request == [turn : Nat, images : BOOLEAN, answer : {"stream", "no_images"}]

\* What a run has asked of the provider, and where it stands with it.
AskedOK(me) ==
    LET log == me.asked
    IN  /\ me.turn \in Nat /\ log \in Seq(Request)
        /\ me.images \in BOOLEAN /\ me.attached \in BOOLEAN /\ me.blind \in BOOLEAN
        /\ me.blind <=> \E i \in 1..Len(log) : log[i].answer = "no_images"
        /\ \A i \in 1..Len(log) : log[i].turn <= me.turn
        /\ me.stage \in {"waiting", "asking"} =>
              \A i \in 1..Len(log) : log[i].turn < me.turn
        /\ me.stage = "retrying" =>
              /\ Len(log) >= 1 /\ log[Len(log)].answer = "no_images"
              /\ \A i \in 1..(Len(log) - 1) : log[i].turn < me.turn
        /\ \A i \in 1..Len(log) : \A j \in 1..(i - 1) :
              /\ log[j].answer = "no_images" => ~log[i].images
              /\ log[j].turn = log[i].turn => j = i - 1 /\ log[j].answer = "no_images"
        /\ \A i \in 1..Len(log) :
              log[i].turn = me.turn =>
                 (log[i].images <=> /\ me.images
                                    /\ \A j \in 1..(i - 1) : log[j].answer # "no_images")

RunOK(me) == StageOK(me) /\ AskedOK(me)

-----------------------------------------------------------------------------
(* The invariant: the runs and the workspace *)

\* A run that writes holds the event loop, and its draft is what its call asks for.
DraftOK(r) ==
    /\ DOMAIN drafts[r] = {"path", "text"}
    /\ drafts[r] # NoDraft => loop = r \/ runs[r].finish = "crashed"
    /\ loop = r <=> runs[r].stage \in Write
    /\ runs[r].stage \in Write =>
          /\ Writes(CallOf(runs[r]))
          /\ drafts[r].path = CallOf(runs[r]).arguments.path
    /\ runs[r].stage = "replacing" => drafts[r].text = Draft(CallOf(runs[r]))

TurnInv ==
    /\ DOMAIN files = Paths /\ DOMAIN runs = Runs /\ DOMAIN drafts = Runs
    /\ loop \in Runs \cup {Nobody}
    /\ mishaps \in 0..MaxMishaps
    /\ \A r \in Runs : RunOK(runs[r]) /\ DraftOK(r)

-----------------------------------------------------------------------------
(* Runs that begin and end *)

\* A run that has not begun, or is over, is in order.
LEMMA EndsInOrder ==
    /\ \A turns : RunOK(Waiting(turns)) /\ Waiting(turns).stage = "waiting"
                  /\ Waiting(turns).finish = "none"
    /\ \A reason \in Endings :
          RunOK(Over(reason)) /\ Over(reason).stage = "over" /\ Over(reason).finish = reason
<1>1. ASSUME NEW turns
      PROVE  RunOK(Waiting(turns)) /\ Waiting(turns).stage = "waiting"
             /\ Waiting(turns).finish = "none"
  <2> DEFINE me == Waiting(turns)
  <2>1. /\ DOMAIN me = Fields /\ me.stage = "waiting" /\ me.finish = "none"
        /\ me.cancel = FALSE /\ me.turn = 0 /\ me.images = FALSE /\ me.attached = FALSE
        /\ me.blind = FALSE /\ me.asked = <<>> /\ me.calls = <<>> /\ me.replies = <<>>
        /\ me.held = NoResult /\ me.performed = FALSE
    BY DEF Waiting, Fields
  <2> HIDE DEF me
  <2>2. StageOK(me)
    <3>1. me.replies \in Seq(Replies) /\ me.held.reply \in Replies
          /\ DOMAIN me.held = {"reply", "late"}
      BY <2>1 DEF NoResult, Replies
    <3> QED BY <2>1, <3>1 DEF StageOK, Stages, Call, Endings
  <2>3. AskedOK(me)
    <3>1. \A i \in 1..Len(me.asked) : FALSE
      BY <2>1
    <3>2. me.asked \in Seq(Request)
      BY <2>1
    <3>3. me.images \in BOOLEAN /\ me.attached \in BOOLEAN /\ me.blind \in BOOLEAN
      BY <2>1
    <3> QED BY <2>1, <3>1, <3>2, <3>3 DEF AskedOK
  <2> QED BY <2>1, <2>2, <2>3 DEF RunOK, me
<1>2. ASSUME NEW reason \in Endings
      PROVE  RunOK(Over(reason)) /\ Over(reason).stage = "over" /\ Over(reason).finish = reason
  <2> DEFINE me == Over(reason)
  <2>1. /\ DOMAIN me = Fields /\ me.stage = "over" /\ me.finish = reason
        /\ me.cancel = FALSE /\ me.turn = 0 /\ me.images = FALSE /\ me.attached = FALSE
        /\ me.blind = FALSE /\ me.asked = <<>> /\ me.calls = <<>> /\ me.replies = <<>>
        /\ me.held = NoResult /\ me.performed = FALSE
    BY DEF Over, Waiting, Fields
  <2> HIDE DEF me
  <2>2. StageOK(me)
    <3>1. me.replies \in Seq(Replies) /\ me.held.reply \in Replies
          /\ DOMAIN me.held = {"reply", "late"}
      BY <2>1 DEF NoResult, Replies
    <3> QED BY <2>1, <3>1 DEF StageOK, Stages, Call, Endings
  <2>3. AskedOK(me)
    <3>1. \A i \in 1..Len(me.asked) : FALSE
      BY <2>1
    <3>2. me.asked \in Seq(Request)
      BY <2>1
    <3>3. me.images \in BOOLEAN /\ me.attached \in BOOLEAN /\ me.blind \in BOOLEAN
      BY <2>1
    <3> QED BY <2>1, <3>1, <3>2, <3>3 DEF AskedOK
  <2> QED BY <2>1, <2>2, <2>3 DEF RunOK, me
<1> QED BY <1>1, <1>2

\* A step of a run that leaves the workspace alone needs only be in order itself.
LEMMA GoesKeeps ==
    ASSUME TurnInv, NEW r \in Runs, NEW me, Goes(r, me),
           loop = Nobody, runs[r].stage # "over", RunOK(me), me.stage \notin Write
    PROVE  TurnInv'
<1>1. /\ runs' = [runs EXCEPT ![r] = me] /\ UNCHANGED <<files, drafts, loop, mishaps>>
      /\ DOMAIN runs = Runs
  BY DEF Goes, Becomes, TurnInv
<1>2. runs'[r] = me /\ (\A q \in Runs \ {r} : runs'[q] = runs[q]) /\ DOMAIN runs' = Runs
  BY <1>1
<1>3. \A q \in Runs : RunOK(runs'[q])
  BY <1>2 DEF TurnInv
<1>4. ASSUME NEW q \in Runs PROVE DraftOK(q)'
  <2>1. RunOK(runs[q]) /\ DraftOK(q) /\ {q, r} \cap {Nobody} = {} /\ RunOK(runs[r]) /\ DraftOK(r)
    BY ToolTurnAssumption DEF TurnInv
  <2>2. CASE q = r
    <3>1. drafts[r] = NoDraft
      BY <2>1 DEF DraftOK, RunOK, StageOK
    <3>2. me.stage # "replacing"
      BY DEF Write
    <3> QED BY <1>1, <1>2, <2>1, <2>2, <3>1, <3>2 DEF DraftOK
  <2>3. CASE q # r
    <3>1. runs[q].stage \notin Write /\ runs'[q] = runs[q] /\ drafts'[q] = drafts[q] /\ loop' = loop
      BY <1>1, <1>2, <2>1, <2>3 DEF DraftOK
    <3> QED BY <2>1, <3>1 DEF DraftOK, Write
  <2> QED BY <2>2, <2>3
<1> QED BY <1>1, <1>2, <1>3, <1>4 DEF TurnInv

-----------------------------------------------------------------------------
(* What a run asks of the provider *)

\* A step that neither asks nor begins a turn.
LEMMA AskedKept ==
    ASSUME NEW me, AskedOK(me), NEW new,
           new.turn = me.turn, new.images = me.images, new.blind = me.blind,
           new.asked = me.asked, new.attached \in BOOLEAN,
           new.stage = me.stage \/ new.stage \notin {"waiting", "asking", "retrying"}
    PROVE  AskedOK(new)
BY DEF AskedOK

\* One more request: without images once an endpoint refused them, and only then.
LEMMA AskedOnce ==
    ASSUME NEW me, AskedOK(me), me.stage \in {"asking", "retrying"},
           NEW entry \in Request, NEW new,
           new.turn = me.turn, new.images = me.images, new.attached = me.attached,
           new.asked = Append(me.asked, entry), new.blind \in BOOLEAN,
           entry.turn = me.turn,
           new.blind <=> me.blind \/ entry.answer = "no_images",
           entry.images <=> me.images /\ ~me.blind,
           \/ new.stage = "streaming"
           \/ /\ new.stage = "retrying" /\ me.stage = "asking"
              /\ entry.answer = "no_images"
    PROVE  AskedOK(new)
<1> DEFINE log == me.asked
           n == Len(log)
           longer == Append(log, entry)
<1>1. log \in Seq(Request) /\ n \in Nat /\ me.turn \in Nat
  BY DEF AskedOK
<1>2. /\ longer \in Seq(Request) /\ Len(longer) = n + 1 /\ longer[n + 1] = entry
      /\ \A i \in 1..n : longer[i] = log[i]
  BY <1>1
<1>3. \A i \in 1..(n + 1) : i \in 1..n \/ i = n + 1
  BY <1>1
<1>4. new.blind <=> \E i \in 1..(n + 1) : longer[i].answer = "no_images"
  <2>1. me.blind <=> \E i \in 1..n : log[i].answer = "no_images"
    BY DEF AskedOK
  <2> HIDE DEF longer
  <2>2. ASSUME \E i \in 1..(n + 1) : longer[i].answer = "no_images"
        PROVE  new.blind
    <3>1. PICK i \in 1..(n + 1) : longer[i].answer = "no_images"
      BY <2>2
    <3> QED BY <1>2, <1>3, <2>1, <3>1
  <2>3. ASSUME new.blind
        PROVE  \E i \in 1..(n + 1) : longer[i].answer = "no_images"
    <3>1. CASE me.blind
      <4>1. PICK i \in 1..n : log[i].answer = "no_images"
        BY <2>1, <3>1
      <4>2. i \in 1..(n + 1) /\ longer[i] = log[i]
        BY <1>1, <1>2
      <4> QED BY <4>1, <4>2
    <3>2. CASE ~me.blind
      <4>1. n + 1 \in 1..(n + 1)
        BY <1>1
      <4> QED BY <1>2, <2>3, <3>2, <4>1
    <3> QED BY <3>1, <3>2
  <2> QED BY <2>2, <2>3
<1>5. \A i \in 1..(n + 1) : longer[i].turn <= me.turn
  <2>1. \A i \in 1..n : log[i].turn <= me.turn
    BY DEF AskedOK
  <2> HIDE DEF longer
  <2> QED BY <1>1, <1>2, <1>3, <2>1
<1>6. new.stage = "retrying" => \A i \in 1..n : longer[i].turn < me.turn
  <2>1. me.stage = "asking" => \A i \in 1..n : log[i].turn < me.turn
    BY DEF AskedOK
  <2> HIDE DEF longer
  <2> QED BY <1>2, <2>1
<1>7. ASSUME NEW i \in 1..(n + 1), NEW j \in 1..(i - 1)
      PROVE  /\ longer[j].answer = "no_images" => ~longer[i].images
             /\ longer[j].turn = longer[i].turn =>
                    j = i - 1 /\ longer[j].answer = "no_images"
  <2>1. j \in 1..n /\ longer[j] = log[j]
    BY <1>1, <1>2
  <2>2. CASE i = n + 1
    <3>1. log[j].answer = "no_images" => me.blind
      BY <2>1 DEF AskedOK
    <3>2. log[j] \in Request
      <4> HIDE DEF longer
      <4> QED BY <1>1, <2>1
    <3>3. log[j].turn \in Nat
      BY <3>2 DEF Request
    <3>4. log[j].turn = me.turn => j = n /\ log[j].answer = "no_images"
      <4>1. CASE me.stage = "asking"
        <5>1. log[j].turn < me.turn
          BY <2>1, <4>1 DEF AskedOK
        <5> QED BY <1>1, <3>3, <5>1
      <4>2. CASE me.stage = "retrying"
        <5>1. log[n].answer = "no_images" /\ (j \in 1..(n - 1) => log[j].turn < me.turn)
          BY <4>2 DEF AskedOK
        <5> QED BY <1>1, <2>1, <3>3, <5>1
      <4> QED BY <4>1, <4>2
    <3> HIDE DEF longer
    <3> QED BY <1>1, <1>2, <2>1, <2>2, <3>1, <3>4
  <2>3. CASE i # n + 1
    <3>1. i \in 1..n /\ longer[i] = log[i]
      BY <1>1, <1>2, <2>3
    <3> HIDE DEF longer
    <3> QED BY <2>1, <3>1 DEF AskedOK
  <2> QED BY <2>2, <2>3
<1>8. ASSUME NEW i \in 1..(n + 1), longer[i].turn = me.turn
      PROVE  longer[i].images <=> /\ me.images
                                  /\ \A j \in 1..(i - 1) : longer[j].answer # "no_images"
  <2>1. CASE i = n + 1
    <3>1. \A j \in 1..n : longer[j] = log[j]
      BY <1>2
    <3>2. me.blind <=> \E j \in 1..n : log[j].answer = "no_images"
      BY DEF AskedOK
    <3>3. i - 1 = n /\ longer[i] = entry
      BY <1>1, <1>2, <2>1
    <3> HIDE DEF longer, log, n
    <3> QED BY <3>1, <3>2, <3>3
  <2>2. CASE i # n + 1
    <3>1. i \in 1..n /\ longer[i] = log[i]
      BY <1>1, <1>2, <2>2
    <3>2. \A j \in 1..(i - 1) : longer[j] = log[j]
      BY <1>1, <1>2, <3>1
    <3>3. log[i].images <=> /\ me.images
                            /\ \A j \in 1..(i - 1) : log[j].answer # "no_images"
      BY <1>8, <3>1 DEF AskedOK
    <3> HIDE DEF longer, log, n
    <3> QED BY <3>1, <3>2, <3>3
  <2> QED BY <2>1, <2>2
<1>9. new.images \in BOOLEAN /\ new.attached \in BOOLEAN /\ new.blind \in BOOLEAN
  BY DEF AskedOK
<1>10. new.asked = longer /\ Len(new.asked) = n + 1
  BY <1>2
<1>11. new.stage \notin {"waiting", "asking"}
  OBVIOUS
<1>12. new.stage = "retrying" => longer[n + 1].answer = "no_images" /\ n + 1 >= 1
                                 /\ (n + 1) - 1 = n
  BY <1>1, <1>2
<1> HIDE DEF log, n, longer
<1> QED BY <1>1, <1>2, <1>4, <1>5, <1>6, <1>7, <1>8, <1>9, <1>10, <1>11, <1>12 DEF AskedOK

-----------------------------------------------------------------------------
(* The steps of one run *)

\* What the invariant says of a run that the event loop can step.
LEMMA RunFacts ==
    ASSUME TurnInv, NEW r \in Runs
    PROVE  /\ StageOK(runs[r]) /\ AskedOK(runs[r]) /\ DraftOK(r)
           /\ DOMAIN runs[r] = Fields
           /\ runs[r].stage \in Write => loop = r /\ loop # Nobody
BY ToolTurnAssumption DEF TurnInv, RunOK, StageOK, DraftOK

\* A new turn: everything asked so far belongs to an earlier one.
LEMMA BeginTurnKeeps == ASSUME TurnInv, NEW r \in Runs, BeginTurn(r) PROVE TurnInv'
<1> DEFINE me == runs[r]
           begun(kept) == [me EXCEPT !.stage = "asking", !.turn = @ + 1,
                                     !.images = kept /\ (@ \/ me.attached), !.attached = FALSE,
                                     !.sent = <<>>, !.buffers = <<>>, !.calls = <<>>,
                                     !.replies = <<>>]
<1>1. PICK kept \in BOOLEAN :
         loop = Nobody /\ me.stage \in {"waiting", "calls"} /\ Goes(r, begun(kept))
  BY DEF BeginTurn, At
<1> DEFINE new == begun(kept)
<1>2. StageOK(me) /\ AskedOK(me) /\ DOMAIN me = Fields
  BY RunFacts
<1>3. /\ DOMAIN new = Fields /\ new.stage = "asking" /\ new.turn = me.turn + 1
      /\ new.images = (kept /\ (me.images \/ me.attached)) /\ new.attached = FALSE
      /\ new.calls = <<>> /\ new.replies = <<>>
      /\ new.finish = me.finish /\ new.cancel = me.cancel /\ new.blind = me.blind
      /\ new.asked = me.asked /\ new.held = me.held /\ new.performed = me.performed
  BY <1>2 DEF Fields
<1> HIDE DEF begun, me
<1>4. StageOK(new)
  <2>1. new.replies \in Seq(Replies)
    BY <1>3
  <2> QED BY <1>1, <1>2, <1>3, <2>1 DEF StageOK, Stages, Call
<1>5. AskedOK(new)
  <2>1. new.turn \in Nat /\ new.images \in BOOLEAN
    BY <1>2, <1>3 DEF AskedOK
  <2>2. \A i \in 1..Len(new.asked) : new.asked[i].turn <= new.turn
                                     /\ new.asked[i].turn < new.turn
                                     /\ new.asked[i].turn # new.turn
    <3>1. \A i \in 1..Len(me.asked) : me.asked[i].turn <= me.turn
      BY <1>2 DEF AskedOK
    <3>2. me.turn \in Nat /\ me.asked \in Seq(Request)
      BY <1>2 DEF AskedOK
    <3>3. \A i \in 1..Len(me.asked) : me.asked[i] \in Request
      BY <3>2
    <3>4. \A i \in 1..Len(me.asked) : me.asked[i].turn \in Nat
      BY <3>3 DEF Request
    <3> QED BY <1>3, <3>1, <3>2, <3>4
  <2>3. new.blind <=> \E i \in 1..Len(new.asked) : new.asked[i].answer = "no_images"
    BY <1>2, <1>3 DEF AskedOK
  <2>4. \A i \in 1..Len(new.asked) : \A j \in 1..(i - 1) :
            /\ new.asked[j].answer = "no_images" => ~new.asked[i].images
            /\ new.asked[j].turn = new.asked[i].turn =>
                  j = i - 1 /\ new.asked[j].answer = "no_images"
    BY <1>2, <1>3 DEF AskedOK
  <2>5. new.asked \in Seq(Request) /\ new.attached \in BOOLEAN /\ new.blind \in BOOLEAN
    BY <1>2, <1>3 DEF AskedOK
  <2> QED BY <1>3, <2>1, <2>2, <2>3, <2>4, <2>5 DEF AskedOK
<1> QED BY <1>1, <1>3, <1>4, <1>5, GoesKeeps DEF RunOK, Write, me

\* A request with images, or without them once the endpoint refused them.
LEMMA AskKeeps == ASSUME TurnInv, NEW r \in Runs, Ask(r) \/ AskAgain(r) PROVE TurnInv'
<1> DEFINE me == runs[r]
<1>1. StageOK(me) /\ AskedOK(me) /\ DOMAIN me = Fields
  BY RunFacts
<1>2. /\ me.turn \in Nat /\ me.images \in BOOLEAN /\ me.blind \in BOOLEAN
      /\ me.attached \in BOOLEAN
  BY <1>1 DEF AskedOK
<1>3. ASSUME NEW images \in BOOLEAN, NEW answer \in {"stream", "no_images"}
      PROVE  LET entry == [turn |-> me.turn, images |-> images, answer |-> answer]
                 new == Requested(r, images, answer)
             IN  /\ entry \in Request
                 /\ DOMAIN new = Fields /\ new.stage = "streaming"
                 /\ new.asked = Append(me.asked, entry)
                 /\ new.turn = me.turn /\ new.images = me.images
                 /\ new.attached = me.attached /\ new.blind = me.blind
                 /\ new.finish = me.finish /\ new.cancel = me.cancel
                 /\ new.calls = me.calls /\ new.replies = me.replies
                 /\ new.held = me.held /\ new.performed = me.performed
  BY <1>1, <1>2 DEF Requested, Fields, Request
<1>4. ASSUME NEW images \in BOOLEAN, loop = Nobody, me.stage \in {"asking", "retrying"},
             Goes(r, Requested(r, images, "stream")),
             images <=> me.images /\ ~me.blind
      PROVE  TurnInv'
  <2> DEFINE entry == [turn |-> me.turn, images |-> images, answer |-> "stream"]
             new == Requested(r, images, "stream")
  <2>1. /\ entry \in Request
        /\ DOMAIN new = Fields /\ new.stage = "streaming"
        /\ new.asked = Append(me.asked, entry)
        /\ new.turn = me.turn /\ new.images = me.images
        /\ new.attached = me.attached /\ new.blind = me.blind
        /\ new.finish = me.finish /\ new.cancel = me.cancel
        /\ new.calls = me.calls /\ new.replies = me.replies
        /\ new.held = me.held /\ new.performed = me.performed
    BY <1>3
  <2>2. entry.turn = me.turn /\ entry.images = images /\ entry.answer = "stream"
    OBVIOUS
  <2> HIDE DEF entry, new
  <2>3. AskedOK(new)
    <3>1. new.blind \in BOOLEAN /\ (new.blind <=> me.blind \/ entry.answer = "no_images")
      BY <1>2, <2>1, <2>2
    <3>2. entry.images <=> me.images /\ ~me.blind
      BY <1>4, <2>2
    <3>3. me.stage \in {"asking", "retrying"}
      BY <1>4
    <3> HIDE DEF me
    <3>4. /\ new.turn = me.turn /\ new.images = me.images /\ new.attached = me.attached
          /\ new.asked = Append(me.asked, entry) /\ new.stage = "streaming"
          /\ entry \in Request /\ entry.turn = me.turn /\ AskedOK(me)
      BY <1>1, <2>1, <2>2
    <3> QED BY <3>1, <3>2, <3>3, <3>4, AskedOnce
  <2>4. StageOK(new)
    BY <1>1, <1>4, <2>1 DEF StageOK, Stages, Call
  <2>5. Goes(r, new)
    BY <1>4 DEF new
  <2> QED BY <1>4, <2>1, <2>3, <2>4, <2>5, GoesKeeps DEF RunOK, Write
<1>5. CASE AskAgain(r)
  <2>1. loop = Nobody /\ me.stage = "retrying" /\ Goes(r, Requested(r, FALSE, "stream"))
    BY <1>5 DEF AskAgain, At
  <2>2. me.blind
    <3>1. me.asked \in Seq(Request) /\ Len(me.asked) >= 1
          /\ me.asked[Len(me.asked)].answer = "no_images"
      BY <1>1, <2>1 DEF AskedOK
    <3>2. Len(me.asked) \in 1..Len(me.asked)
      BY <3>1
    <3> QED BY <1>1, <3>1, <3>2 DEF AskedOK
  <2> QED BY <1>4, <2>1, <2>2
<1>6. CASE Ask(r)
  <2> DEFINE withImages == me.images /\ ~me.blind
  <2>1. /\ loop = Nobody /\ me.stage = "asking"
        /\ \/ Goes(r, Requested(r, withImages, "stream"))
           \/ withImages /\ Goes(r, Refused(r))
    BY <1>6 DEF Ask, At
  <2>2. withImages \in BOOLEAN
    BY <1>2
  <2>3. CASE Goes(r, Requested(r, withImages, "stream"))
    <3>1. withImages <=> me.images /\ ~me.blind
      OBVIOUS
    <3> HIDE DEF withImages
    <3> QED BY <1>4, <2>1, <2>2, <2>3, <3>1
  <2>4. CASE withImages /\ Goes(r, Refused(r))
    <3> DEFINE entry == [turn |-> me.turn, images |-> TRUE, answer |-> "no_images"]
               asked == Requested(r, TRUE, "no_images")
               new == [asked EXCEPT !.stage = "retrying", !.sent = <<>>, !.blind = TRUE]
    <3>1. /\ entry \in Request
          /\ DOMAIN asked = Fields
          /\ asked.asked = Append(me.asked, entry)
          /\ asked.turn = me.turn /\ asked.images = me.images
          /\ asked.attached = me.attached
          /\ asked.finish = me.finish /\ asked.cancel = me.cancel
          /\ asked.calls = me.calls /\ asked.replies = me.replies
          /\ asked.held = me.held /\ asked.performed = me.performed
      BY <1>3
    <3>2. entry.turn = me.turn /\ entry.images = TRUE /\ entry.answer = "no_images"
      OBVIOUS
    <3>3. Goes(r, new)
      BY <2>4 DEF Refused
    <3> HIDE DEF entry, asked
    <3>4. /\ DOMAIN new = Fields /\ new.stage = "retrying" /\ new.blind = TRUE
          /\ new.asked = asked.asked /\ new.turn = asked.turn
          /\ new.images = asked.images /\ new.attached = asked.attached
          /\ new.finish = asked.finish /\ new.cancel = asked.cancel
          /\ new.calls = asked.calls /\ new.replies = asked.replies
          /\ new.held = asked.held /\ new.performed = asked.performed
      BY <3>1 DEF Fields
    <3> HIDE DEF new
    <3>5. me.images /\ ~me.blind
      BY <2>4
    <3>6. AskedOK(new)
      BY <1>1, <1>2, <2>1, <3>1, <3>2, <3>4, <3>5, AskedOnce
    <3>7. StageOK(new)
      BY <1>1, <2>1, <3>1, <3>4 DEF StageOK, Stages, Call
    <3> QED BY <2>1, <3>3, <3>4, <3>6, <3>7, GoesKeeps DEF RunOK, Write
  <2> QED BY <2>1, <2>3, <2>4
<1> QED BY <1>5, <1>6

\* A run that ends outside a write leaves nothing behind.
LEMMA EndKeeps ==
    ASSUME TurnInv, NEW r \in Runs, NEW reason \in Endings, Goes(r, Over(reason)),
           loop = Nobody, runs[r].stage # "over"
    PROVE  TurnInv'
<1>1. RunOK(Over(reason)) /\ Over(reason).stage = "over"
  BY EndsInOrder
<1> QED BY <1>1, GoesKeeps DEF Write

\* The ends of a run: a failing provider, an abort, a closed response.
LEMMA LeavesKeep ==
    ASSUME TurnInv, NEW r \in Runs, ProviderFails(r) \/ LeaveCancelled(r) \/ LeaveClosed(r)
    PROVE  TurnInv'
<1>1. CASE ProviderFails(r)
  BY <1>1, EndKeeps DEF ProviderFails, At, Endings
<1>2. CASE LeaveCancelled(r)
  BY <1>2, EndKeeps DEF LeaveCancelled, Endings
<1>3. CASE LeaveClosed(r)
  BY <1>3, EndKeeps DEF LeaveClosed, Endings
<1> QED BY <1>1, <1>2, <1>3

\* The stream and the steps between the calls.
LEMMA StreamKeeps ==
    ASSUME TurnInv, NEW r \in Runs, Receive(r) \/ EndStream(r) \/ Announce(r) \/ Abort(r)
    PROVE  TurnInv'
<1> DEFINE me == runs[r]
<1>1. StageOK(me) /\ AskedOK(me) /\ DOMAIN me = Fields
  BY RunFacts
<1>2. me.attached \in BOOLEAN
  BY <1>1 DEF AskedOK
<1>3. CASE Receive(r)
  <2>1. PICK n \in DOMAIN Offered(r) : Goes(r, [me EXCEPT
            !.sent[n] = @ + 1,
            !.buffers = Collect(@, n, Piece(Offered(r)[n], me.sent[n] + 1))])
    BY <1>3 DEF Receive
  <2> DEFINE buffers == Collect(me.buffers, n, Piece(Offered(r)[n], me.sent[n] + 1))
             new == [me EXCEPT !.sent[n] = @ + 1, !.buffers = buffers]
  <2>2. Goes(r, new) /\ loop = Nobody /\ me.stage = "streaming"
    BY <1>3, <2>1 DEF Receive, At
  <2> HIDE DEF buffers
  <2>3. /\ DOMAIN new = Fields /\ new.stage = me.stage /\ new.finish = me.finish
        /\ new.cancel = me.cancel /\ new.turn = me.turn /\ new.images = me.images
        /\ new.attached = me.attached /\ new.blind = me.blind /\ new.asked = me.asked
        /\ new.calls = me.calls /\ new.replies = me.replies /\ new.held = me.held
        /\ new.performed = me.performed
    BY <1>1 DEF Fields
  <2> HIDE DEF new, me
  <2>4. StageOK(new)
    BY <1>1, <2>2, <2>3 DEF StageOK, Stages, Call
  <2>5. AskedOK(new)
    BY <1>1, <1>2, <2>3, AskedKept
  <2> QED BY <2>2, <2>3, <2>4, <2>5, GoesKeeps DEF RunOK, Write, me
<1>4. CASE EndStream(r)
  <2>1. loop = Nobody /\ me.stage = "streaming"
    BY <1>4 DEF EndStream, At
  <2>2. CASE Assembled(r) = <<>>
    BY <1>4, <2>1, <2>2, EndKeeps DEF EndStream, Endings
  <2>3. CASE Assembled(r) # <<>>
    <3> DEFINE calls == Assembled(r)
               new == [me EXCEPT !.stage = "calls", !.calls = calls]
    <3>1. Goes(r, new)
      BY <1>4, <2>3 DEF EndStream
    <3> HIDE DEF calls
    <3>2. /\ DOMAIN new = Fields /\ new.stage = "calls" /\ new.finish = me.finish
          /\ new.cancel = me.cancel /\ new.turn = me.turn /\ new.images = me.images
          /\ new.attached = me.attached /\ new.blind = me.blind /\ new.asked = me.asked
          /\ new.replies = me.replies /\ new.held = me.held
          /\ new.performed = me.performed
      BY <1>1 DEF Fields
    <3> HIDE DEF new
    <3>3. StageOK(new)
      BY <1>1, <2>1, <3>2 DEF StageOK, Stages, Call
    <3>4. AskedOK(new)
      BY <1>1, <1>2, <3>2, AskedKept
    <3> QED BY <2>1, <3>1, <3>2, <3>3, <3>4, GoesKeeps DEF RunOK, Write
  <2> QED BY <2>2, <2>3
<1>5. CASE Announce(r)
  <2> DEFINE new == [me EXCEPT !.stage = "announced"]
  <2>1. loop = Nobody /\ me.stage = "calls" /\ Goes(r, new)
        /\ Len(me.replies) < Len(me.calls)
    BY <1>5 DEF Announce, At
  <2>2. /\ DOMAIN new = Fields /\ new.stage = "announced" /\ new.finish = me.finish
        /\ new.cancel = me.cancel /\ new.turn = me.turn /\ new.images = me.images
        /\ new.attached = me.attached /\ new.blind = me.blind /\ new.asked = me.asked
        /\ new.calls = me.calls /\ new.replies = me.replies /\ new.held = me.held
        /\ new.performed = me.performed
    BY <1>1 DEF Fields
  <2> HIDE DEF new
  <2>3. StageOK(new)
    BY <1>1, <2>1, <2>2 DEF StageOK, Stages
  <2>4. AskedOK(new)
    BY <1>1, <1>2, <2>2, AskedKept
  <2> QED BY <2>1, <2>2, <2>3, <2>4, GoesKeeps DEF RunOK, Write
<1>6. CASE Abort(r)
  <2> DEFINE new == [me EXCEPT !.cancel = TRUE]
  <2>1. loop = Nobody /\ me.stage # "over" /\ Goes(r, new)
    BY <1>6 DEF Abort
  <2>2. /\ DOMAIN new = Fields /\ new.stage = me.stage /\ new.finish = me.finish
        /\ new.cancel = TRUE /\ new.turn = me.turn /\ new.images = me.images
        /\ new.attached = me.attached /\ new.blind = me.blind /\ new.asked = me.asked
        /\ new.calls = me.calls /\ new.replies = me.replies /\ new.held = me.held
        /\ new.performed = me.performed
    BY <1>1 DEF Fields
  <2> HIDE DEF new
  <2>3. StageOK(new)
    BY <1>1, <2>2 DEF StageOK, CallOf
  <2>4. AskedOK(new)
    BY <1>1, <1>2, <2>2, AskedKept
  <2>5. new.stage \notin Write
    BY <2>1, <2>2, RunFacts
  <2> QED BY <2>1, <2>3, <2>4, <2>5, GoesKeeps DEF RunOK
<1> QED BY <1>3, <1>4, <1>5, <1>6

-----------------------------------------------------------------------------
(* The tools *)

\* A tool that answers: its result is held, and only a write that succeeded counts
\* as performed.
LEMMA AnsweredInOrder ==
    ASSUME NEW me, RunOK(me), me.stage \in {"announced", "writing", "replacing"},
           NEW reply \in Replies \ {"none"}, NEW new, DOMAIN new = Fields,
           new.stage = "answered", new.held = [reply |-> reply, late |-> me.cancel],
           new.finish = me.finish, new.cancel = me.cancel, new.turn = me.turn,
           new.images = me.images, new.blind = me.blind, new.asked = me.asked,
           new.calls = me.calls, new.replies = me.replies,
           new.attached \in BOOLEAN, new.performed \in BOOLEAN,
           new.performed <=> Writes(CallOf(me)) /\ reply = "ok"
    PROVE  RunOK(new)
<1>1. StageOK(me) /\ AskedOK(me)
  BY DEF RunOK
<1>2. AskedOK(new)
  BY <1>1, AskedKept
<1>3. /\ new.held.reply = reply /\ DOMAIN new.held = {"reply", "late"}
      /\ new.held # NoResult
  <2>1. new.held.reply = reply /\ DOMAIN new.held = {"reply", "late"}
    OBVIOUS
  <2>2. NoResult.reply = "none"
    BY DEF NoResult
  <2> QED BY <2>1, <2>2
<1>4. CallOf(new) = CallOf(me)
  BY DEF CallOf
<1>5. new.cancel \in BOOLEAN /\ new.replies \in Seq(Replies)
      /\ Len(new.replies) < Len(new.calls) /\ new.finish = "none"
  BY <1>1 DEF StageOK, Call
<1> QED BY <1>2, <1>3, <1>4, <1>5 DEF RunOK, StageOK, Stages

\* The record of a run whose tool answers.
LEMMA AnsweredFields ==
    ASSUME NEW r \in Runs, DOMAIN runs[r] = Fields, NEW reply
    PROVE  LET me == runs[r]
               new == Holding(r, reply)
           IN  /\ DOMAIN new = Fields /\ new.stage = "answered"
               /\ new.held = [reply |-> reply, late |-> me.cancel]
               /\ new.finish = me.finish /\ new.cancel = me.cancel /\ new.turn = me.turn
               /\ new.images = me.images /\ new.blind = me.blind /\ new.asked = me.asked
               /\ new.calls = me.calls /\ new.replies = me.replies
               /\ new.attached = me.attached /\ new.performed = me.performed
BY DEF Holding, Fields

\* A call that is refused, or a tool that only looks or fails before it writes.
LEMMA StartToolKeeps == ASSUME TurnInv, NEW r \in Runs, StartTool(r) PROVE TurnInv'
<1> DEFINE me == runs[r]
           call == Current(r)
<1>1. RunOK(me) /\ StageOK(me) /\ AskedOK(me) /\ DOMAIN me = Fields
  BY RunFacts DEF RunOK
<1>2. loop = Nobody /\ me.stage = "announced" /\ call = CallOf(me)
  BY DEF StartTool, At, Current, CallOf
<1>3. me.performed = FALSE /\ me.attached \in BOOLEAN
  BY <1>1, <1>2 DEF StageOK, AskedOK
<1>4. \/ /\ Refusal(call) # "none" /\ Goes(r, Holding(r, Refusal(call)))
      \/ /\ ~Writes(call)
         /\ Goes(r, IF LookWorks(call)
                    THEN [Holding(r, "ok") EXCEPT !.attached = @ \/ Attaches(call)]
                    ELSE Holding(r, "tool_failed"))
  BY DEF StartTool
<1>5. Refusal(call) \in Replies
  BY DEF Refusal, Replies
<1>6. ASSUME NEW reply \in Replies \ {"none"}, reply = "ok" => ~Writes(call),
             NEW attached \in BOOLEAN,
             NEW new, DOMAIN new = Fields, new.stage = "answered",
             new.held = [reply |-> reply, late |-> me.cancel],
             new.finish = me.finish, new.cancel = me.cancel, new.turn = me.turn,
             new.images = me.images, new.blind = me.blind, new.asked = me.asked,
             new.calls = me.calls, new.replies = me.replies,
             new.attached = attached, new.performed = me.performed, Goes(r, new)
      PROVE  TurnInv'
  <2>1. new.performed \in BOOLEAN /\ (new.performed <=> Writes(CallOf(me)) /\ reply = "ok")
    BY <1>2, <1>3, <1>6
  <2> HIDE DEF me
  <2>2. RunOK(new)
    BY <1>1, <1>2, <1>6, <2>1, AnsweredInOrder
  <2> QED BY <1>2, <1>6, <2>2, GoesKeeps DEF Write, me
<1>7. CASE Refusal(call) # "none" /\ Goes(r, Holding(r, Refusal(call)))
  <2>1. ~Writes(call) /\ Refusal(call) \in Replies \ {"none"}
    BY <1>5, <1>7 DEF Writes
  <2> DEFINE new == Holding(r, Refusal(call))
  <2>2. /\ DOMAIN new = Fields /\ new.stage = "answered"
        /\ new.held = [reply |-> Refusal(call), late |-> me.cancel]
        /\ new.finish = me.finish /\ new.cancel = me.cancel /\ new.turn = me.turn
        /\ new.images = me.images /\ new.blind = me.blind /\ new.asked = me.asked
        /\ new.calls = me.calls /\ new.replies = me.replies
        /\ new.attached = me.attached /\ new.performed = me.performed
    BY <1>1, AnsweredFields
  <2>3. Goes(r, new)
    BY <1>7
  <2> HIDE DEF new, call, me
  <2> QED BY <1>3, <1>6, <2>1, <2>2, <2>3
<1>8. CASE ~Writes(call) /\ LookWorks(call)
           /\ Goes(r, [Holding(r, "ok") EXCEPT !.attached = @ \/ Attaches(call)])
  <2> DEFINE answered == Holding(r, "ok")
             attached == answered.attached \/ Attaches(call)
             new == [answered EXCEPT !.attached = attached]
  <2>1. /\ DOMAIN answered = Fields /\ answered.stage = "answered"
        /\ answered.held = [reply |-> "ok", late |-> me.cancel]
        /\ answered.finish = me.finish /\ answered.cancel = me.cancel
        /\ answered.turn = me.turn /\ answered.images = me.images
        /\ answered.blind = me.blind /\ answered.asked = me.asked
        /\ answered.calls = me.calls /\ answered.replies = me.replies
        /\ answered.performed = me.performed
    BY <1>1, AnsweredFields
  <2>2. Goes(r, new)
    BY <1>8
  <2>3. attached \in BOOLEAN /\ "ok" \in Replies \ {"none"}
    BY DEF Replies
  <2> HIDE DEF answered, attached
  <2>4. /\ DOMAIN new = Fields /\ new.stage = "answered"
        /\ new.held = [reply |-> "ok", late |-> me.cancel]
        /\ new.finish = me.finish /\ new.cancel = me.cancel /\ new.turn = me.turn
        /\ new.images = me.images /\ new.blind = me.blind /\ new.asked = me.asked
        /\ new.calls = me.calls /\ new.replies = me.replies
        /\ new.attached = attached /\ new.performed = me.performed
    BY <2>1 DEF Fields
  <2> HIDE DEF new, call, me
  <2> QED BY <1>6, <1>8, <2>2, <2>3, <2>4
<1>9. CASE ~Writes(call) /\ Goes(r, Holding(r, "tool_failed"))
  <2> DEFINE new == Holding(r, "tool_failed")
  <2>1. /\ DOMAIN new = Fields /\ new.stage = "answered"
        /\ new.held = [reply |-> "tool_failed", late |-> me.cancel]
        /\ new.finish = me.finish /\ new.cancel = me.cancel /\ new.turn = me.turn
        /\ new.images = me.images /\ new.blind = me.blind /\ new.asked = me.asked
        /\ new.calls = me.calls /\ new.replies = me.replies
        /\ new.attached = me.attached /\ new.performed = me.performed
    BY <1>1, AnsweredFields
  <2>2. Goes(r, new) /\ "tool_failed" \in Replies \ {"none"}
    BY <1>9 DEF Replies
  <2> HIDE DEF new, call, me
  <2> QED BY <1>3, <1>6, <2>1, <2>2
<1> HIDE DEF call
<1> QED BY <1>4, <1>7, <1>8, <1>9

\* A step of the run that writes, or begins to: the others stand still.
LEMMA WriteKeeps ==
    ASSUME TurnInv, NEW r \in Runs, NEW new, Becomes(r, new), RunOK(new),
           loop \in {Nobody, r}, loop' \in {Nobody, r}, loop' = r <=> new.stage \in Write,
           NEW draft, drafts' = [drafts EXCEPT ![r] = draft],
           DOMAIN draft = {"path", "text"}, draft # NoDraft => loop' = r,
           new.stage \in Write => /\ Writes(CallOf(new))
                                  /\ draft.path = CallOf(new).arguments.path,
           new.stage = "replacing" => files' = files /\ draft.text = Draft(CallOf(new)),
           DOMAIN files' = Paths, mishaps' \in 0..MaxMishaps
    PROVE  TurnInv'
<1>1. /\ runs'[r] = new /\ drafts'[r] = draft /\ DOMAIN runs' = Runs /\ DOMAIN drafts' = Runs
      /\ \A q \in Runs \ {r} : runs'[q] = runs[q] /\ drafts'[q] = drafts[q]
  BY DEF TurnInv, Becomes
<1>2. \A q \in Runs : RunOK(runs'[q])
  BY <1>1 DEF TurnInv
<1>3. ASSUME NEW q \in Runs PROVE DraftOK(q)'
  <2>1. DraftOK(q) /\ q # Nobody
    BY ToolTurnAssumption DEF TurnInv
  <2>2. CASE q = r
    <3>1. new.stage = "replacing" => (Draft(CallOf(runs[r])))' = Draft(CallOf(new))
      BY <1>1 DEF Draft, Content
    <3> QED BY <1>1, <2>2, <3>1 DEF DraftOK
  <2>3. CASE q # r
    <3>1. loop # q /\ loop' # q /\ runs'[q] = runs[q] /\ drafts'[q] = drafts[q]
      BY <1>1, <2>1, <2>3
    <3>2. runs[q].stage \notin Write /\ runs[q].stage # "replacing"
      BY <2>1, <3>1 DEF DraftOK, Write
    <3> QED BY <2>1, <3>1, <3>2 DEF DraftOK
  <2> QED BY <2>2, <2>3
<1>4. loop' \in Runs \cup {Nobody}
  OBVIOUS
<1> QED BY <1>1, <1>2, <1>3, <1>4 DEF TurnInv

\* A write begins, and answers with an error when the edits or the path do not fit.
LEMMA StartWriteKeeps == ASSUME TurnInv, NEW r \in Runs, StartWrite(r) PROVE TurnInv'
<1> DEFINE me == runs[r]
           call == Current(r)
<1>1. RunOK(me) /\ StageOK(me) /\ AskedOK(me) /\ DraftOK(r) /\ DOMAIN me = Fields
  BY RunFacts DEF RunOK
<1>2. loop = Nobody /\ me.stage = "announced" /\ call = CallOf(me) /\ Writes(call)
  BY DEF StartWrite, At, Current, CallOf
<1>3. me.performed = FALSE /\ me.attached \in BOOLEAN
  BY <1>1, <1>2 DEF StageOK, AskedOK
<1>4. CASE Goes(r, Holding(r, "tool_failed"))
  <2> DEFINE new == Holding(r, "tool_failed")
  <2>1. /\ DOMAIN new = Fields /\ new.stage = "answered"
        /\ new.held = [reply |-> "tool_failed", late |-> me.cancel]
        /\ new.finish = me.finish /\ new.cancel = me.cancel /\ new.turn = me.turn
        /\ new.images = me.images /\ new.blind = me.blind /\ new.asked = me.asked
        /\ new.calls = me.calls /\ new.replies = me.replies
        /\ new.attached = me.attached /\ new.performed = me.performed
    BY <1>1, AnsweredFields
  <2>2. Goes(r, new) /\ "tool_failed" \in Replies \ {"none"}
    BY <1>4 DEF Replies
  <2> HIDE DEF new, call, me
  <2>3. new.performed \in BOOLEAN
        /\ (new.performed <=> Writes(CallOf(me)) /\ "tool_failed" = "ok")
    BY <1>3, <2>1
  <2>4. RunOK(new)
    BY <1>1, <1>2, <1>3, <2>1, <2>2, <2>3, AnsweredInOrder
  <2> QED BY <1>2, <2>1, <2>2, <2>4, GoesKeeps DEF Write, me
<1>5. CASE /\ drafts' = [drafts EXCEPT ![r].path = call.arguments.path]
           /\ loop' = r
           /\ Becomes(r, [me EXCEPT !.stage = "writing"])
           /\ UNCHANGED <<files, mishaps>>
  <2> DEFINE new == [me EXCEPT !.stage = "writing"]
             draft == [drafts[r] EXCEPT !.path = call.arguments.path]
  <2>1. /\ DOMAIN new = Fields /\ new.stage = "writing" /\ new.finish = me.finish
        /\ new.cancel = me.cancel /\ new.turn = me.turn /\ new.images = me.images
        /\ new.attached = me.attached /\ new.blind = me.blind /\ new.asked = me.asked
        /\ new.calls = me.calls /\ new.replies = me.replies /\ new.held = me.held
        /\ new.performed = me.performed
    BY <1>1 DEF Fields
  <2>2. DOMAIN draft = {"path", "text"} /\ draft.path = call.arguments.path
    BY <1>1 DEF DraftOK
  <2>3. drafts' = [drafts EXCEPT ![r] = draft] /\ Becomes(r, new)
    BY <1>5 DEF TurnInv
  <2> HIDE DEF new, draft, call
  <2>4. StageOK(new)
    BY <1>1, <1>2, <2>1 DEF StageOK, Stages, Call
  <2>5. AskedOK(new)
    BY <1>1, <1>3, <2>1, AskedKept
  <2>6. CallOf(new) = call
    BY <1>2, <2>1 DEF CallOf
  <2>7. DOMAIN files' = Paths /\ mishaps' \in 0..MaxMishaps
    BY <1>5 DEF TurnInv
  <2>8. new.stage # "replacing" /\ new.stage \in Write
    BY <2>1 DEF Write
  <2>9. RunOK(new)
    BY <2>4, <2>5 DEF RunOK
  <2>10. loop \in {Nobody, r} /\ loop' = r
    BY <1>2, <1>5
  <2>11. Writes(CallOf(new)) /\ draft.path = CallOf(new).arguments.path
    BY <1>2, <2>2, <2>6
  <2> HIDE DEF me
  <2> QED BY <2>2, <2>3, <2>7, <2>8, <2>9, <2>10, <2>11, WriteKeeps
<1> QED BY <1>4, <1>5 DEF StartWrite

\* The text of the temporary file is what the call asks for, of the file as it is now.
LEMMA WriteDraftKeeps == ASSUME TurnInv, NEW r \in Runs, WriteDraft(r) PROVE TurnInv'
<1> DEFINE me == runs[r]
           text == Draft(Current(r))
           new == [me EXCEPT !.stage = "replacing"]
           draft == [drafts[r] EXCEPT !.text = text]
<1>1. StageOK(me) /\ AskedOK(me) /\ DraftOK(r) /\ DOMAIN me = Fields
  BY RunFacts
<1>2. me.stage = "writing" /\ Becomes(r, new) /\ UNCHANGED <<files, loop, mishaps>>
      /\ drafts' = [drafts EXCEPT ![r] = draft]
  BY DEF WriteDraft, TurnInv
<1>3. loop = r /\ Writes(CallOf(me)) /\ drafts[r].path = CallOf(me).arguments.path
  BY <1>1, <1>2 DEF DraftOK, Write
<1>4. text = Draft(CallOf(me))
  BY DEF Current, CallOf
<1> HIDE DEF text
<1>5. DOMAIN draft = {"path", "text"} /\ draft.path = drafts[r].path /\ draft.text = text
  BY <1>1 DEF DraftOK
<1>6. /\ DOMAIN new = Fields /\ new.stage = "replacing" /\ new.finish = me.finish
      /\ new.cancel = me.cancel /\ new.turn = me.turn /\ new.images = me.images
      /\ new.attached = me.attached /\ new.blind = me.blind /\ new.asked = me.asked
      /\ new.calls = me.calls /\ new.replies = me.replies /\ new.held = me.held
      /\ new.performed = me.performed
  BY <1>1 DEF Fields
<1> HIDE DEF new, draft
<1>7. StageOK(new)
  BY <1>1, <1>2, <1>6 DEF StageOK, Stages, Call
<1>8. AskedOK(new)
  <2>1. me.attached \in BOOLEAN
    BY <1>1 DEF AskedOK
  <2> QED BY <1>1, <1>6, <2>1, AskedKept
<1>9. CallOf(new) = CallOf(me)
  BY <1>6 DEF CallOf
<1>10. DOMAIN files' = Paths /\ mishaps' \in 0..MaxMishaps /\ new.stage \in Write
  BY <1>2, <1>6 DEF TurnInv, Write
<1> HIDE DEF me
<1> QED BY <1>2, <1>3, <1>4, <1>5, <1>7, <1>8, <1>9, <1>10, WriteKeeps DEF RunOK

\* The write ends: with the file replaced, or with the draft removed after an error.
LEMMA WriteEndsKeeps ==
    ASSUME TurnInv, NEW r \in Runs, ReplaceFile(r) \/ DiskFails(r)
    PROVE  TurnInv'
<1> DEFINE me == runs[r]
<1>1. RunOK(me) /\ StageOK(me) /\ AskedOK(me) /\ DraftOK(r) /\ DOMAIN me = Fields
  BY RunFacts DEF RunOK
<1>2. me.stage \in Write
  BY DEF ReplaceFile, DiskFails, Write
<1>3. loop = r /\ Writes(CallOf(me)) /\ me.stage \in {"announced", "writing", "replacing"}
  BY <1>1, <1>2 DEF DraftOK, Write
<1>4. me.performed = FALSE /\ me.attached \in BOOLEAN
  BY <1>1, <1>2 DEF StageOK, AskedOK, Write
<1>5. drafts' = [drafts EXCEPT ![r] = NoDraft] /\ loop' = Nobody
      /\ DOMAIN files' = Paths /\ mishaps' \in 0..MaxMishaps
  <2>1. DOMAIN files = Paths /\ mishaps \in 0..MaxMishaps
    BY DEF TurnInv
  <2>2. CASE ReplaceFile(r)
    BY <2>1, <2>2 DEF ReplaceFile
  <2>3. CASE DiskFails(r)
    <3>1. mishaps < MaxMishaps /\ mishaps' = mishaps + 1 /\ files' = files
          /\ drafts' = [drafts EXCEPT ![r] = NoDraft] /\ loop' = Nobody
      BY <2>3 DEF DiskFails
    <3> QED BY <2>1, <3>1, ToolTurnAssumption
  <2> QED BY <2>2, <2>3
<1>6. DOMAIN NoDraft = {"path", "text"}
  BY DEF NoDraft
<1>7. ASSUME NEW new, Becomes(r, new), RunOK(new), new.stage = "answered"
      PROVE  TurnInv'
  <2>1. new.stage \notin Write /\ new.stage # "replacing" /\ r # Nobody
    BY <1>7, ToolTurnAssumption DEF Write
  <2> QED BY <1>3, <1>5, <1>6, <1>7, <2>1, WriteKeeps
<1>8. CASE DiskFails(r)
  <2> DEFINE new == Holding(r, "tool_failed")
  <2>1. /\ DOMAIN new = Fields /\ new.stage = "answered"
        /\ new.held = [reply |-> "tool_failed", late |-> me.cancel]
        /\ new.finish = me.finish /\ new.cancel = me.cancel /\ new.turn = me.turn
        /\ new.images = me.images /\ new.blind = me.blind /\ new.asked = me.asked
        /\ new.calls = me.calls /\ new.replies = me.replies
        /\ new.attached = me.attached /\ new.performed = me.performed
    BY <1>1, AnsweredFields
  <2>2. Becomes(r, new) /\ "tool_failed" \in Replies \ {"none"}
    BY <1>8 DEF DiskFails, Replies
  <2> HIDE DEF new, me
  <2>3. new.performed \in BOOLEAN
        /\ (new.performed <=> Writes(CallOf(me)) /\ "tool_failed" = "ok")
    BY <1>4, <2>1
  <2>4. RunOK(new)
    BY <1>1, <1>3, <1>4, <2>1, <2>2, <2>3, AnsweredInOrder
  <2> QED BY <1>7, <2>1, <2>2, <2>4
<1>9. CASE ReplaceFile(r)
  <2> DEFINE answered == Holding(r, "ok")
             new == [answered EXCEPT !.performed = TRUE]
  <2>1. /\ DOMAIN answered = Fields /\ answered.stage = "answered"
        /\ answered.held = [reply |-> "ok", late |-> me.cancel]
        /\ answered.finish = me.finish /\ answered.cancel = me.cancel
        /\ answered.turn = me.turn /\ answered.images = me.images
        /\ answered.blind = me.blind /\ answered.asked = me.asked
        /\ answered.calls = me.calls /\ answered.replies = me.replies
        /\ answered.attached = me.attached
    BY <1>1, AnsweredFields
  <2>2. Becomes(r, new) /\ "ok" \in Replies \ {"none"}
    BY <1>9 DEF ReplaceFile, Replies
  <2> HIDE DEF answered
  <2>3. /\ DOMAIN new = Fields /\ new.stage = "answered"
        /\ new.held = [reply |-> "ok", late |-> me.cancel]
        /\ new.finish = me.finish /\ new.cancel = me.cancel /\ new.turn = me.turn
        /\ new.images = me.images /\ new.blind = me.blind /\ new.asked = me.asked
        /\ new.calls = me.calls /\ new.replies = me.replies
        /\ new.attached = me.attached /\ new.performed = TRUE
    BY <2>1 DEF Fields
  <2> HIDE DEF new, me
  <2>4. new.performed \in BOOLEAN /\ (new.performed <=> Writes(CallOf(me)) /\ "ok" = "ok")
    BY <1>3, <2>3
  <2>5. RunOK(new)
    BY <1>1, <1>3, <1>4, <2>2, <2>3, <2>4, AnsweredInOrder
  <2> QED BY <1>7, <2>2, <2>3, <2>5
<1> QED BY <1>8, <1>9

\* The result is stored, and the run goes on to its next call.
LEMMA ReplyKeeps == ASSUME TurnInv, NEW r \in Runs, Reply(r) PROVE TurnInv'
<1> DEFINE me == runs[r]
           new == [me EXCEPT !.stage = "calls", !.replies = Append(@, me.held.reply),
                             !.held = NoResult, !.performed = FALSE]
<1>1. StageOK(me) /\ AskedOK(me) /\ DOMAIN me = Fields
  BY RunFacts
<1>2. loop = Nobody /\ me.stage = "answered" /\ Goes(r, new)
  BY DEF Reply, At
<1>3. /\ DOMAIN new = Fields /\ new.stage = "calls" /\ new.finish = me.finish
      /\ new.cancel = me.cancel /\ new.turn = me.turn /\ new.images = me.images
      /\ new.attached = me.attached /\ new.blind = me.blind /\ new.asked = me.asked
      /\ new.calls = me.calls /\ new.replies = Append(me.replies, me.held.reply)
      /\ new.held = NoResult /\ new.performed = FALSE
  BY <1>1 DEF Fields
<1> HIDE DEF new
<1>4. StageOK(new)
  <2>1. new.replies \in Seq(Replies)
    BY <1>1, <1>3 DEF StageOK
  <2>2. DOMAIN NoResult = {"reply", "late"} /\ NoResult.reply \in Replies
    BY DEF NoResult, Replies
  <2> QED BY <1>1, <1>2, <1>3, <2>1, <2>2 DEF StageOK, Stages, Call
<1>5. AskedOK(new)
  <2>1. me.attached \in BOOLEAN
    BY <1>1 DEF AskedOK
  <2> QED BY <1>1, <1>3, <2>1, AskedKept
<1> QED BY <1>2, <1>3, <1>4, <1>5, GoesKeeps DEF RunOK, Write

\* The process ends: every run that had begun is over.
LEMMA CrashKeeps == ASSUME TurnInv, Crash PROVE TurnInv'
<1>1. /\ mishaps' \in 0..MaxMishaps /\ loop' = Nobody /\ UNCHANGED <<files, drafts>>
      /\ DOMAIN runs' = Runs
  <2>1. mishaps < MaxMishaps /\ mishaps' = mishaps + 1 /\ mishaps \in 0..MaxMishaps
    BY DEF Crash, TurnInv
  <2> QED BY <2>1, ToolTurnAssumption DEF Crash
<1>2. ASSUME NEW r \in Runs PROVE RunOK(runs'[r]) /\ DraftOK(r)'
  <2>1. RunOK(runs[r]) /\ DraftOK(r) /\ r # Nobody
    BY ToolTurnAssumption DEF TurnInv
  <2>2. RunOK(Over("crashed")) /\ Over("crashed").stage = "over"
        /\ Over("crashed").finish = "crashed"
    BY EndsInOrder DEF Endings
  <2>3. CASE runs[r].stage \in {"waiting", "over"}
    <3>1. runs'[r] = runs[r]
      BY <2>3 DEF Crash
    <3>2. loop # r
      BY <2>1, <2>3 DEF DraftOK, Write
    <3> QED BY <1>1, <2>1, <2>3, <3>1, <3>2 DEF DraftOK, Write
  <2>4. CASE runs[r].stage \notin {"waiting", "over"}
    <3>1. runs'[r] = Over("crashed")
      BY <2>4 DEF Crash
    <3> QED BY <1>1, <2>1, <2>2, <3>1 DEF DraftOK, Write
  <2> QED BY <2>3, <2>4
<1> QED BY <1>1, <1>2 DEF TurnInv

-----------------------------------------------------------------------------
(* What a step tells the model *)

\* A reply says "ok" to a write exactly when the file was replaced; a change that no
\* reply tells of is that of a run which is aborted, closed or killed.
RepliesTell(r) ==
    LET me == runs[r]
    IN  /\ Len(runs'[r].replies) > Len(me.replies) =>
              me.performed = (Writes(Current(r)) /\ Last(runs'[r].replies) = "ok")
        /\ me.performed /\ runs'[r].finish # me.finish =>
              runs'[r].finish \in {"aborted", "closed", "crashed"}

\* A step that adds no reply and ends no run that has performed a write.
LEMMA Untold ==
    ASSUME TurnInv, NEW r \in Runs,
           runs'[r].replies \in {<<>>, runs[r].replies},
           \/ runs'[r].finish \in {runs[r].finish, "aborted", "closed", "crashed"}
           \/ runs[r].stage # "answered"
    PROVE  RepliesTell(r)
<1>1. StageOK(runs[r])
  BY RunFacts
<1>2. Len(runs[r].replies) \in Nat /\ ~(Len(runs'[r].replies) > Len(runs[r].replies))
  BY <1>1 DEF StageOK
<1>3. runs[r].performed => runs[r].stage = "answered"
  BY <1>1 DEF StageOK
<1> QED BY <1>2, <1>3 DEF RepliesTell

\* Only Reply adds a reply, and no step but an abort, a close or a crash hides a write.
LEMMA StepTells ==
    ASSUME TurnInv, [Next]_vars, NEW q \in Runs
    PROVE  RepliesTell(q)
<1>1. CASE UNCHANGED vars
  BY <1>1, Untold DEF vars
<1>2. CASE Crash
  <2>1. runs'[q] = runs[q] \/ runs'[q] = Over("crashed")
    BY <1>2 DEF Crash
  <2>2. Over("crashed").finish = "crashed" /\ Over("crashed").replies = <<>>
    BY DEF Over, Waiting
  <2> QED BY <2>1, <2>2, Untold
<1>3. ASSUME NEW r \in Runs, NEW new, Becomes(r, new), r # q
      PROVE  RepliesTell(q)
  <2>1. runs'[q] = runs[q]
    BY <1>3 DEF Becomes, TurnInv
  <2> QED BY <2>1, Untold
<1>4. ASSUME NEW new, Becomes(q, new), new.replies \in {<<>>, runs[q].replies},
             \/ new.finish \in {runs[q].finish, "aborted", "closed", "crashed"}
             \/ runs[q].stage # "answered"
      PROVE  RepliesTell(q)
  <2>1. runs'[q] = new
    BY <1>4 DEF Becomes, TurnInv
  <2> QED BY <1>4, <2>1, Untold
<1>5. ASSUME NEW r \in Runs,
             \/ BeginTurn(r) \/ Ask(r) \/ AskAgain(r) \/ ProviderFails(r) \/ Receive(r)
             \/ EndStream(r) \/ Announce(r) \/ StartTool(r) \/ StartWrite(r)
             \/ WriteDraft(r) \/ ReplaceFile(r) \/ DiskFails(r) \/ Reply(r)
             \/ Abort(r) \/ LeaveCancelled(r) \/ LeaveClosed(r)
      PROVE  RepliesTell(q)
  <2> DEFINE me == runs[r]
  <2>1. StageOK(me) /\ DOMAIN me = Fields
    BY RunFacts
  <2>2. CASE r # q
    <3>1. PICK new : Becomes(r, new)
      BY <1>5 DEF BeginTurn, Ask, AskAgain, ProviderFails, Receive, EndStream, Announce,
                  StartTool, StartWrite, WriteDraft, ReplaceFile, DiskFails, Reply, Abort,
                  LeaveCancelled, LeaveClosed, Goes
    <3> QED BY <1>3, <2>2, <3>1
  <2>3. CASE r = q
    <3>1. ASSUME NEW reason, Goes(r, Over(reason)),
                 reason \in {"aborted", "closed"} \/ me.stage # "answered"
          PROVE  RepliesTell(q)
      <4>1. Over(reason).replies = <<>> /\ Over(reason).finish = reason
        BY DEF Over, Waiting
      <4> QED BY <1>4, <2>3, <3>1, <4>1 DEF Goes
    <3>2. ASSUME NEW reply, Becomes(r, Holding(r, reply))
          PROVE  RepliesTell(q)
      <4>1. Holding(r, reply).replies = me.replies /\ Holding(r, reply).finish = me.finish
        BY <2>1, AnsweredFields
      <4> HIDE DEF me
      <4> QED BY <1>4, <2>3, <3>2, <4>1 DEF me
    <3>3. CASE BeginTurn(r)
      <4> DEFINE begun(kept) ==
                   [me EXCEPT !.stage = "asking", !.turn = @ + 1,
                              !.images = kept /\ (@ \/ me.attached), !.attached = FALSE,
                              !.sent = <<>>, !.buffers = <<>>, !.calls = <<>>,
                              !.replies = <<>>]
      <4>1. PICK kept \in BOOLEAN : Becomes(r, begun(kept))
        BY <3>3 DEF BeginTurn, Goes
      <4>2. PICK new : new = begun(kept)
        OBVIOUS
      <4>3. new.replies = <<>> /\ new.finish = me.finish
        BY <2>1, <4>2 DEF Fields
      <4> HIDE DEF begun, me
      <4> QED BY <1>4, <2>3, <4>1, <4>2, <4>3 DEF me
    <3>4. CASE Ask(r) \/ AskAgain(r)
      <4>1. PICK new : /\ Becomes(r, new)
                       /\ \/ \E i, a : new = Requested(r, i, a)
                          \/ new = Refused(r)
        BY <3>4 DEF Ask, AskAgain, Goes
      <4>2. ASSUME NEW i, NEW a
            PROVE  /\ Requested(r, i, a).replies = me.replies
                   /\ Requested(r, i, a).finish = me.finish
                   /\ DOMAIN Requested(r, i, a) = Fields
        BY <2>1 DEF Requested, Fields
      <4>3. Refused(r).replies = me.replies /\ Refused(r).finish = me.finish
        <5> DEFINE asked == Requested(r, TRUE, "no_images")
        <5>1. asked.replies = me.replies /\ asked.finish = me.finish /\ DOMAIN asked = Fields
          BY <4>2
        <5>2. Refused(r) = [asked EXCEPT !.stage = "retrying", !.sent = <<>>, !.blind = TRUE]
          BY DEF Refused
        <5> HIDE DEF asked
        <5> QED BY <5>1, <5>2 DEF Fields
      <4> QED BY <1>4, <2>3, <4>1, <4>2, <4>3
    <3>5. CASE ProviderFails(r) \/ LeaveCancelled(r) \/ LeaveClosed(r)
      BY <3>1, <3>5 DEF ProviderFails, LeaveCancelled, LeaveClosed, At
    <3>6. CASE Receive(r)
      <4>1. PICK n, x : Becomes(r, [me EXCEPT !.sent[n] = @ + 1, !.buffers = Collect(@, n, x)])
        BY <3>6 DEF Receive, Goes
      <4> DEFINE buffers == Collect(me.buffers, n, x)
                 new == [me EXCEPT !.sent[n] = @ + 1, !.buffers = buffers]
      <4>2. Becomes(r, new)
        BY <4>1
      <4> HIDE DEF buffers
      <4>3. new.replies = me.replies /\ new.finish = me.finish
        BY <2>1 DEF Fields
      <4> HIDE DEF new
      <4> QED BY <1>4, <2>3, <4>2, <4>3
    <3>7. CASE EndStream(r)
      <4> DEFINE calls == Assembled(r)
                 new == [me EXCEPT !.stage = "calls", !.calls = calls]
      <4>1. me.stage = "streaming" /\ (Goes(r, Over("complete")) \/ Becomes(r, new))
        BY <3>7 DEF EndStream, Goes, At
      <4> HIDE DEF calls
      <4>2. new.replies = me.replies /\ new.finish = me.finish
        BY <2>1 DEF Fields
      <4> HIDE DEF new
      <4> QED BY <1>4, <2>3, <3>1, <4>1, <4>2
    <3>8. CASE Announce(r) \/ Abort(r)
      <4>1. PICK new : /\ Becomes(r, new)
                       /\ \/ new = [me EXCEPT !.stage = "announced"]
                          \/ new = [me EXCEPT !.cancel = TRUE]
        BY <3>8 DEF Announce, Abort, Goes
      <4>2. new.replies = me.replies /\ new.finish = me.finish
        BY <2>1, <4>1 DEF Fields
      <4> QED BY <1>4, <2>3, <4>1, <4>2
    <3>9. CASE StartTool(r)
      <4> DEFINE answered == Holding(r, "ok")
      <4>1. CASE \E reply : Becomes(r, Holding(r, reply))
        BY <3>2, <4>1
      <4>2. CASE \E a : Becomes(r, [answered EXCEPT !.attached = @ \/ a])
        <5>1. PICK a : Becomes(r, [answered EXCEPT !.attached = @ \/ a])
          BY <4>2
        <5>2. /\ answered.replies = me.replies /\ answered.finish = me.finish
              /\ DOMAIN answered = Fields
          BY <2>1, AnsweredFields
        <5> DEFINE new == [answered EXCEPT !.attached = @ \/ a]
        <5> HIDE DEF answered
        <5>3. new.replies = me.replies /\ new.finish = me.finish
          BY <5>2 DEF Fields
        <5> HIDE DEF new
        <5>4. Becomes(r, new)
          BY <5>1 DEF new
        <5> QED BY <1>4, <2>3, <5>3, <5>4
      <4> QED BY <3>9, <4>1, <4>2 DEF StartTool, Goes
    <3>10. CASE StartWrite(r) \/ WriteDraft(r)
      <4>1. CASE Becomes(r, Holding(r, "tool_failed"))
        BY <3>2, <4>1
      <4>2. ASSUME NEW stage, Becomes(r, [me EXCEPT !.stage = stage])
            PROVE  RepliesTell(q)
        <5> DEFINE new == [me EXCEPT !.stage = stage]
        <5>1. new.replies = me.replies /\ new.finish = me.finish
          BY <2>1 DEF Fields
        <5> HIDE DEF new
        <5>2. Becomes(r, new)
          BY <4>2 DEF new
        <5> QED BY <1>4, <2>3, <5>1, <5>2
      <4> QED BY <3>10, <4>1, <4>2 DEF StartWrite, WriteDraft, Goes
    <3>11. CASE DiskFails(r)
      BY <3>2, <3>11 DEF DiskFails
    <3>12. CASE ReplaceFile(r)
      <4> DEFINE answered == Holding(r, "ok")
                 new == [answered EXCEPT !.performed = TRUE]
      <4>1. /\ answered.replies = me.replies /\ answered.finish = me.finish
            /\ DOMAIN answered = Fields
        BY <2>1, AnsweredFields
      <4>2. Becomes(r, new)
        BY <3>12 DEF ReplaceFile
      <4> HIDE DEF answered
      <4>3. new.replies = me.replies /\ new.finish = me.finish
        BY <4>1 DEF Fields
      <4> HIDE DEF new
      <4> QED BY <1>4, <2>3, <4>2, <4>3
    <3>13. CASE Reply(r)
      <4> DEFINE new == [me EXCEPT !.stage = "calls", !.replies = Append(@, me.held.reply),
                                   !.held = NoResult, !.performed = FALSE]
      <4>1. Becomes(r, new) /\ me.stage = "answered"
        BY <3>13 DEF Reply, Goes, At
      <4>2. new.replies = Append(me.replies, me.held.reply) /\ new.finish = me.finish
        BY <2>1 DEF Fields
      <4> HIDE DEF new
      <4>3. runs'[r] = new
        BY <4>1 DEF Becomes, TurnInv
      <4>4. Last(new.replies) = me.held.reply
        BY <2>1, <4>2 DEF StageOK, Last
      <4>5. me.performed = (Writes(CallOf(me)) /\ me.held.reply = "ok")
        BY <2>1, <4>1 DEF StageOK
      <4>6. CallOf(me) = Current(r)
        BY DEF CallOf, Current
      <4> QED BY <2>3, <4>2, <4>3, <4>4, <4>5, <4>6 DEF RepliesTell
    <3> QED BY <1>5, <3>3, <3>4, <3>5, <3>6, <3>7, <3>8, <3>9, <3>10, <3>11, <3>12, <3>13
  <2> QED BY <2>2, <2>3
<1> QED BY <1>1, <1>2, <1>5 DEF Next

-----------------------------------------------------------------------------
(* Theorems *)

\* Every state of every run is in order, and the workspace follows from the runs.
THEOREM TurnInvariant == Spec => []TurnInv
<1>1. Init => TurnInv
  <2> SUFFICES ASSUME Init
               PROVE  TurnInv
    OBVIOUS
  <2>1. /\ DOMAIN files = Paths /\ DOMAIN runs = Runs /\ DOMAIN drafts = Runs
        /\ loop = Nobody /\ mishaps \in 0..MaxMishaps
    BY ToolTurnAssumption DEF Init
  <2>2. ASSUME NEW r \in Runs PROVE RunOK(runs[r]) /\ DraftOK(r)
    <3>1. PICK turns : runs[r] = Waiting(turns)
      BY DEF Init
    <3>2. RunOK(runs[r]) /\ runs[r].stage = "waiting"
      BY <3>1, EndsInOrder
    <3>3. drafts[r] = NoDraft /\ DOMAIN NoDraft = {"path", "text"} /\ loop # r
      BY ToolTurnAssumption DEF Init, NoDraft
    <3> QED BY <3>2, <3>3 DEF DraftOK, Write
  <2> QED BY <2>1, <2>2 DEF TurnInv
<1>2. TurnInv /\ [Next]_vars => TurnInv'
  <2> SUFFICES ASSUME TurnInv, [Next]_vars
               PROVE  TurnInv'
    OBVIOUS
  <2>1. ASSUME NEW r \in Runs,
               \/ BeginTurn(r) \/ Ask(r) \/ AskAgain(r) \/ ProviderFails(r) \/ Receive(r)
               \/ EndStream(r) \/ Announce(r) \/ StartTool(r) \/ StartWrite(r)
               \/ WriteDraft(r) \/ ReplaceFile(r) \/ DiskFails(r) \/ Reply(r)
               \/ Abort(r) \/ LeaveCancelled(r) \/ LeaveClosed(r)
        PROVE  TurnInv'
    BY <2>1, BeginTurnKeeps, AskKeeps, LeavesKeep, StreamKeeps, StartToolKeeps,
       StartWriteKeeps, WriteDraftKeeps, WriteEndsKeeps, ReplyKeeps
  <2>2. CASE UNCHANGED vars
    BY <2>2 DEF vars, TurnInv, DraftOK, Draft, Content
  <2> QED BY <2>1, <2>2, CrashKeeps DEF Next
<1> QED BY <1>1, <1>2, PTL DEF Spec

\* A temporary file exists only while it is written, or after a crash; a tool holds
\* the event loop exactly while it writes; a result is held exactly until it is stored.
THEOREM TurnsTyped == Spec => []TypeOK
<1>1. TurnInv => TypeOK
  <2> SUFFICES ASSUME TurnInv
               PROVE  TypeOK
    OBVIOUS
  <2>1. ASSUME NEW r \in Runs
        PROVE  LET me == runs[r]
               IN  /\ me.stage \in Stages
                   /\ drafts[r] # NoDraft => loop = r \/ me.finish = "crashed"
                   /\ (loop = r) = (me.stage \in {"writing", "replacing"})
                   /\ (me.held # NoResult) = (me.stage = "answered")
                   /\ me.stage \in {"announced", "writing", "replacing", "answered"} =>
                         Len(me.replies) < Len(me.calls)
                   /\ (me.finish # "none") = (me.stage = "over")
    <3>1. StageOK(runs[r]) /\ DraftOK(r)
      BY RunFacts
    <3> QED BY <3>1 DEF StageOK, DraftOK, Write, Call
  <2> QED BY <2>1 DEF TurnInv, TypeOK
<1> QED BY <1>1, TurnInvariant, PTL

\* An endpoint that takes no images is asked once more without them, and gets no
\* images for the rest of the run. Images that follow a reply in the prepared context
\* are left out for no other reason, and others are not sent.
THEOREM ImagesAlwaysOfferedOnce == Spec => []ImagesOfferedOnce
<1>1. TurnInv => ImagesOfferedOnce
  <2> SUFFICES ASSUME TurnInv, NEW r \in Runs, NEW i \in DOMAIN runs[r].asked
               PROVE  LET log == runs[r].asked
                      IN  /\ \A j \in 1..(i - 1) :
                                /\ log[j].answer = "no_images" => ~log[i].images
                                /\ log[j].turn = log[i].turn =>
                                      j = i - 1 /\ log[j].answer = "no_images"
                          /\ log[i].turn = runs[r].turn =>
                                (log[i].images <=>
                                    /\ runs[r].images
                                    /\ \A j \in 1..(i - 1) : log[j].answer # "no_images")
    BY DEF ImagesOfferedOnce
  <2>1. AskedOK(runs[r])
    BY RunFacts
  <2>2. i \in 1..Len(runs[r].asked)
    BY <2>1 DEF AskedOK
  <2> QED BY <2>1, <2>2 DEF AskedOK
<1> QED BY <1>1, TurnInvariant, PTL

-----------------------------------------------------------------------------
(* The indices of a turn's buffers, in ascending order *)

\* at lists D in ascending order.
Lists(at, D) ==
    /\ at \in [1..Cardinality(D) -> D]
    /\ \A i, j \in DOMAIN at : i < j => at[i] < at[j]

\* Every set of indices can be listed.
LEMMA ListExists ==
    ASSUME NEW n \in Nat, NEW D \in SUBSET (1..n)
    PROVE  \E at : Lists(at, D)
<1> DEFINE S == {m \in Nat : \A E \in SUBSET (1..m) : \E at : Lists(at, E)}
<1>1. 0 \in S
  <2>1. ASSUME NEW E \in SUBSET (1..0) PROVE \E at : Lists(at, E)
    <3>1. E = {} OBVIOUS
    <3>2. Cardinality(E) = 0 BY <3>1, FS_EmptySet
    <3>3. PICK f : f = [i \in 1..0 |-> 0] OBVIOUS
    <3>4. f \in [1..0 -> E] /\ DOMAIN f = {} BY <3>3
    <3>5. Lists(f, E) BY <3>2, <3>4 DEF Lists
    <3> QED BY <3>5
  <2> QED BY <2>1
<1>2. ASSUME NEW m \in Nat, m \in S PROVE m + 1 \in S
  <2>1. ASSUME NEW E \in SUBSET (1..(m + 1)) PROVE \E at : Lists(at, E)
    <3>1. CASE m + 1 \notin E
      <4>1. E \in SUBSET (1..m) BY <3>1
      <4> QED BY <1>2, <4>1
    <3>2. CASE m + 1 \in E
      <4>1. PICK F : F = E \ {m + 1} OBVIOUS
      <4>2. F \in SUBSET (1..m) BY <4>1
      <4>3. PICK f : Lists(f, F) BY <1>2, <4>2
      <4>4. IsFiniteSet(1..m) BY FS_Interval
      <4>5. IsFiniteSet(F) BY <4>2, <4>4, FS_Subset
      <4>6. Cardinality(F) \in Nat BY <4>5, FS_CardinalityType
      <4>7. m + 1 \notin F BY <4>1
      <4>8. Cardinality(F \cup {m + 1}) = Cardinality(F) + 1 BY <4>5, <4>7, FS_AddElement
      <4>9. E = F \cup {m + 1} BY <3>2, <4>1
      <4>10. PICK c : c = Cardinality(F) OBVIOUS
      <4>11. c \in Nat /\ Cardinality(E) = c + 1 BY <4>6, <4>8, <4>9, <4>10
      <4>12. PICK g : g = [i \in 1..(c + 1) |-> IF i = c + 1 THEN m + 1 ELSE f[i]] OBVIOUS
      <4>13. f \in [1..c -> F] BY <4>3, <4>10 DEF Lists
      <4>14. \A i, j \in 1..c : i < j => f[i] < f[j] BY <4>3, <4>13 DEF Lists
      <4>15. \A i \in 1..c : f[i] \in F /\ f[i] \in 1..m BY <4>2, <4>13
      <4>16. ASSUME NEW i \in 1..(c + 1) PROVE g[i] \in E
        <5>1. CASE i = c + 1 BY <3>2, <4>12, <5>1
        <5>2. CASE i # c + 1
          <6>1. i \in 1..c BY <4>11, <5>2
          <6>2. g[i] = f[i] BY <4>12, <5>2
          <6> QED BY <4>9, <4>15, <6>1, <6>2
        <5> QED BY <5>1, <5>2
      <4>17. g \in [1..(c + 1) -> E] BY <4>12, <4>16
      <4>18. ASSUME NEW i \in 1..(c + 1), NEW j \in 1..(c + 1), i < j PROVE g[i] < g[j]
        <5>1. i \in 1..c /\ i # c + 1 BY <4>11, <4>18
        <5>2. g[i] = f[i] /\ f[i] \in 1..m BY <4>12, <4>15, <5>1
        <5>3. CASE j = c + 1
          <6>1. g[j] = m + 1 BY <4>12, <5>3
          <6> QED BY <5>2, <6>1
        <5>4. CASE j # c + 1
          <6>1. j \in 1..c BY <4>11, <5>4
          <6>2. g[j] = f[j] BY <4>12, <5>4
          <6> QED BY <4>14, <4>18, <5>1, <5>2, <6>1, <6>2
        <5> QED BY <5>3, <5>4
      <4>19. Lists(g, E) BY <4>11, <4>17, <4>18 DEF Lists
      <4> QED BY <4>19
    <3> QED BY <3>1, <3>2
  <2> QED BY <2>1
<1> HIDE DEF S
<1>3. n \in S BY <1>1, <1>2, Induction
<1> QED BY <1>3 DEF S

LEMMA IndicesList ==
    ASSUME NEW n \in Nat, NEW b, DOMAIN b \subseteq 1..n
    PROVE  Lists(Indices(b), DOMAIN b)
<1>1. PICK D : D = DOMAIN b OBVIOUS
<1>2. PICK at : Lists(at, D) BY <1>1, ListExists
<1>3. at \in [1..Cardinality(D) -> D] /\ \A i, j \in DOMAIN at : i < j => at[i] < at[j]
  BY <1>2 DEF Lists
<1>4. PICK x : x = CHOOSE f \in [1..Cardinality(D) -> D] :
                       \A i, j \in DOMAIN f : i < j => f[i] < f[j]
  OBVIOUS
<1>5. x \in [1..Cardinality(D) -> D] /\ \A i, j \in DOMAIN x : i < j => x[i] < x[j]
  BY <1>3, <1>4
<1>6. x = Indices(b) BY <1>1, <1>4 DEF Indices
<1> QED BY <1>1, <1>5, <1>6 DEF Lists

\* An initial segment is listed by itself.
LEMMA ListWhole ==
    ASSUME NEW n \in Nat, NEW at, Lists(at, 1..n)
    PROVE  Cardinality(1..n) = n /\ at \in [1..n -> 1..n] /\ \A i \in 1..n : at[i] = i
<1>1. Cardinality(1..n) = n
  <2>1. n \in Int /\ 1 \in Int OBVIOUS
  <2>2. Cardinality(1..n) = IF 1 > n THEN 0 ELSE n - 1 + 1 BY <2>1, FS_Interval
  <2> QED BY <2>2
<1>2. at \in [1..n -> 1..n] BY <1>1 DEF Lists
<1>3. \A i, j \in 1..n : i < j => at[i] < at[j] BY <1>2 DEF Lists
<1> DEFINE S == {m \in Nat : m \in 1..n => m <= at[m]}
           T == {m \in Nat : m < n => at[n - m] <= n - m}
<1>4. \A m \in 1..n : at[m] \in 1..n BY <1>2
<1>5. \A m \in Nat : m \in S
  <2>1. 0 \in S OBVIOUS
  <2>2. ASSUME NEW m \in Nat, m \in S PROVE m + 1 \in S
    <3> SUFFICES ASSUME m + 1 \in 1..n PROVE m + 1 <= at[m + 1] OBVIOUS
    <3>1. CASE m = 0 BY <1>4, <3>1
    <3>2. CASE m # 0
      <4>1. m \in 1..n /\ m < m + 1 BY <3>2
      <4>2. m <= at[m] BY <2>2, <4>1
      <4>3. at[m] < at[m + 1] BY <1>3, <4>1
      <4>4. at[m] \in Nat /\ at[m + 1] \in Nat BY <1>4, <4>1
      <4> QED BY <4>2, <4>3, <4>4
    <3> QED BY <3>1, <3>2
  <2> HIDE DEF S
  <2> QED BY <2>1, <2>2, Induction
<1>6. \A m \in Nat : m \in T
  <2>1. 0 \in T
    <3>1. 0 < n => n \in 1..n OBVIOUS
    <3>2. 0 < n => at[n] <= n BY <1>4, <3>1
    <3> QED BY <3>2
  <2>2. ASSUME NEW m \in Nat, m \in T PROVE m + 1 \in T
    <3> SUFFICES ASSUME m + 1 < n PROVE at[n - (m + 1)] <= n - (m + 1) OBVIOUS
    <3>1. PICK i : i = n - (m + 1) OBVIOUS
    <3>2. i \in 1..n /\ i + 1 \in 1..n /\ i < i + 1 /\ i + 1 = n - m BY <3>1
    <3>3. at[i + 1] <= i + 1 BY <2>2, <3>2
    <3>4. at[i] < at[i + 1] BY <1>3, <3>2
    <3>5. at[i] \in Nat /\ at[i + 1] \in Nat BY <1>4, <3>2
    <3>6. at[i] <= i BY <3>2, <3>3, <3>4, <3>5
    <3> QED BY <3>1, <3>6
  <2> HIDE DEF T
  <2> QED BY <2>1, <2>2, Induction
<1>7. ASSUME NEW i \in 1..n PROVE at[i] = i
  <2>1. i <= at[i] BY <1>5
  <2>2. n - i \in Nat /\ n - i < n /\ n - (n - i) = i OBVIOUS
  <2>3. at[n - (n - i)] <= n - (n - i) BY <1>6, <2>2
  <2>4. at[i] <= i BY <2>2, <2>3
  <2>5. at[i] \in Nat BY <1>4
  <2> QED BY <2>1, <2>4, <2>5
<1> QED BY <1>1, <1>2, <1>7

-----------------------------------------------------------------------------
(* A call and what has come of it *)

LEMMA PartGrows ==
    ASSUME NEW S, NEW s \in Seq(S), NEW k \in 0..(Len(s) - 1)
    PROVE  SubSeq(s, 1, k) \o <<s[k + 1]>> = SubSeq(s, 1, k + 1)
<1>1. Len(s) \in Nat /\ k \in Nat /\ k + 1 \in 1..Len(s) OBVIOUS
<1>2. PICK t : t = SubSeq(s, 1, k) OBVIOUS
<1>3. t \in Seq(S) /\ Len(t) = k /\ \A i \in 1..k : t[i] = s[i] BY <1>1, <1>2
<1>4. PICK u : u = SubSeq(s, 1, k + 1) OBVIOUS
<1>5. u \in Seq(S) /\ Len(u) = k + 1 /\ \A i \in 1..(k + 1) : u[i] = s[i] BY <1>1, <1>4
<1>6. PICK v : v = t \o <<s[k + 1]>> OBVIOUS
<1>7. s[k + 1] \in S BY <1>1
<1>8. <<s[k + 1]>> \in Seq(S) BY <1>7
<1>9. v \in Seq(S) /\ Len(v) = k + 1 BY <1>3, <1>6, <1>8
<1>10. \A i \in 1..(k + 1) : v[i] = s[i] BY <1>1, <1>3, <1>6
<1>11. u = v BY <1>5, <1>9, <1>10
<1> QED BY <1>2, <1>4, <1>6, <1>11

LEMMA PartWhole ==
    ASSUME NEW S, NEW s \in Seq(S)
    PROVE  SubSeq(s, 1, Len(s)) = s /\ SubSeq(s, 1, 0) = <<>> /\ s \o <<>> = s
<1>1. PICK u : u = SubSeq(s, 1, Len(s)) OBVIOUS
<1>2. u \in Seq(S) /\ Len(u) = Len(s) /\ \A i \in 1..Len(s) : u[i] = s[i] BY <1>1
<1>3. u = s BY <1>2
<1>4. PICK v : v = s \o <<>> OBVIOUS
<1>5. v \in Seq(S) /\ Len(v) = Len(s) /\ \A i \in 1..Len(s) : v[i] = s[i] BY <1>4
<1>6. v = s BY <1>5
<1> QED BY <1>1, <1>3, <1>4, <1>6

\* What has come of a call after k of its pieces.
NamePart(call, k) == IF k <= Len(call.name) THEN SubSeq(call.name, 1, k) ELSE call.name

TextPart(call, k) == IF k <= Len(call.name) THEN <<>>
                     ELSE SubSeq(call.arguments, 1, k - Len(call.name))

Part(call, k) == [id |-> call.id, name |-> NamePart(call, k), arguments |-> TextPart(call, k)]

Nothing == [id |-> NoId, name |-> <<>>, arguments |-> <<>>]

Grown(old, delta) ==
    [id |-> IF delta.id = NoId THEN old.id ELSE delta.id,
     name |-> old.name \o delta.name, arguments |-> old.arguments \o delta.arguments]

LEMMA CallFacts ==
    ASSUME NEW call, WellFormed(call)
    PROVE  /\ \E S : call.name \in Seq(S)
           /\ \E S : call.arguments \in Seq(S)
           /\ Len(call.name) \in Nat /\ Len(call.arguments) \in Nat
           /\ Len(call.name) >= 1
<1>1. call.name \in Seq(ToSet(call.name)) /\ call.name # <<>>
      /\ call.arguments \in Seq(ToSet(call.arguments))
  BY DEF WellFormed
<1>2. PICK S : S = ToSet(call.name) OBVIOUS
<1>3. PICK T : T = ToSet(call.arguments) OBVIOUS
<1>4. PICK s : s = call.name OBVIOUS
<1>5. PICK t : t = call.arguments OBVIOUS
<1>6. s \in Seq(S) /\ s # <<>> /\ t \in Seq(T) BY <1>1, <1>2, <1>3, <1>4, <1>5
<1>7. Len(s) \in Nat /\ Len(t) \in Nat BY <1>6
<1>8. Len(s) >= 1 BY <1>6, <1>7
<1> QED BY <1>4, <1>5, <1>6, <1>7, <1>8

\* The next piece of a call joins what has come of it.
LEMMA PieceJoins ==
    ASSUME NEW call, WellFormed(call), NEW k \in 0..(Pieces(call) - 1), NEW old,
           old = IF k = 0 THEN Nothing ELSE Part(call, k)
    PROVE  Grown(old, Piece(call, k + 1)) = Part(call, k + 1)
<1>1. PICK s : s = call.name OBVIOUS
<1>2. PICK a : a = call.arguments OBVIOUS
<1>3. \E S : s \in Seq(S) BY <1>1, CallFacts
<1>4. \E S : a \in Seq(S) BY <1>2, CallFacts
<1>5. Len(s) \in Nat /\ Len(a) \in Nat /\ Len(s) >= 1 BY <1>1, <1>2, CallFacts
<1>6. k \in 0..(Len(s) + Len(a) - 1) /\ k \in Nat
  <2>1. Pieces(call) = Len(s) + Len(a) BY <1>1, <1>2 DEF Pieces
  <2>2. k \in 0..(Len(s) + Len(a) - 1) BY <2>1
  <2> QED BY <1>5, <2>2
<1>7. PICK delta : delta = Piece(call, k + 1) OBVIOUS
<1>8. CASE k + 1 <= Len(s)
  <2>1. delta = [id |-> IF k + 1 = 1 THEN call.id ELSE NoId, name |-> <<s[k + 1]>>,
                 arguments |-> <<>>]
    BY <1>1, <1>7, <1>8 DEF Piece
  <2>2. k <= Len(s) /\ k \in 0..(Len(s) - 1) BY <1>5, <1>6, <1>8
  <2>3. SubSeq(s, 1, k) \o <<s[k + 1]>> = SubSeq(s, 1, k + 1) BY <1>3, <2>2, PartGrows
  <2>4. SubSeq(s, 1, 0) = <<>> BY <1>3, PartWhole
  <2>5. old.name = SubSeq(s, 1, k) /\ old.arguments = <<>>
    BY <1>1, <2>2, <2>4 DEF Part, Nothing, NamePart, TextPart
  <2>6. (IF delta.id = NoId THEN old.id ELSE delta.id) = call.id
    <3>1. CASE k = 0
      <4>1. delta.id = call.id BY <2>1, <3>1
      <4>2. old.id = NoId BY <3>1 DEF Nothing
      <4> QED BY <4>1, <4>2
    <3>2. CASE k # 0
      <4>1. delta.id = NoId BY <1>6, <2>1, <3>2
      <4>2. old.id = call.id BY <3>2 DEF Part
      <4> QED BY <4>1, <4>2
    <3> QED BY <3>1, <3>2
  <2>7. <<>> \o <<>> = <<>> OBVIOUS
  <2>8. Grown(old, delta) = [id |-> call.id, name |-> SubSeq(s, 1, k + 1), arguments |-> <<>>]
    BY <2>1, <2>3, <2>5, <2>6, <2>7 DEF Grown
  <2> QED BY <1>1, <1>7, <1>8, <2>8 DEF Part, NamePart, TextPart
<1>9. CASE ~(k + 1 <= Len(s))
  <2>1. PICK j : j = k - Len(s) OBVIOUS
  <2>2. j \in 0..(Len(a) - 1) /\ k + 1 - Len(s) = j + 1 /\ k # 0 BY <1>5, <1>6, <1>9, <2>1
  <2>3. delta = [id |-> NoId, name |-> <<>>, arguments |-> <<a[j + 1]>>]
    <3>1. a[k + 1 - Len(s)] = a[j + 1] BY <2>2
    <3>2. ~(k + 1 <= Len(call.name)) BY <1>1, <1>9
    <3>3. delta = [id |-> NoId, name |-> <<>>, arguments |-> <<call.arguments[k + 1 - Len(call.name)]>>]
      BY <1>7, <3>2 DEF Piece
    <3> QED BY <1>1, <1>2, <3>1, <3>3
  <2>4. SubSeq(a, 1, j) \o <<a[j + 1]>> = SubSeq(a, 1, j + 1) BY <1>4, <2>2, PartGrows
  <2>5. SubSeq(a, 1, 0) = <<>> BY <1>4, PartWhole
  <2>6. SubSeq(s, 1, Len(s)) = s /\ s \o <<>> = s BY <1>3, PartWhole
  <2>7. old = Part(call, k) BY <2>2
  <2>8. old.name = s
    <3>1. CASE k <= Len(s)
      <4>1. k = Len(s) BY <1>5, <1>6, <1>9, <3>1
      <4>2. NamePart(call, k) = SubSeq(s, 1, k) BY <1>1, <3>1 DEF NamePart
      <4>3. NamePart(call, k) = s BY <2>6, <4>1, <4>2
      <4> QED BY <2>7, <4>3 DEF Part
    <3>2. CASE ~(k <= Len(s)) BY <1>1, <2>7, <3>2 DEF Part, NamePart
    <3> QED BY <3>1, <3>2
  <2>9. old.arguments = SubSeq(a, 1, j)
    <3>1. CASE k <= Len(s)
      <4>1. j = 0 BY <1>5, <1>6, <1>9, <2>1, <3>1
      <4>2. TextPart(call, k) = <<>> BY <1>1, <3>1 DEF TextPart
      <4>3. SubSeq(a, 1, j) = <<>> BY <2>5, <4>1
      <4>4. old.arguments = TextPart(call, k) BY <2>7 DEF Part
      <4> QED BY <4>2, <4>3, <4>4
    <3>2. CASE ~(k <= Len(s)) BY <1>1, <1>2, <2>1, <2>7, <3>2 DEF Part, TextPart
    <3> QED BY <3>1, <3>2
  <2>10. old.id = call.id BY <2>7 DEF Part
  <2>11. Grown(old, delta) = [id |-> call.id, name |-> s, arguments |-> SubSeq(a, 1, j + 1)]
    BY <2>3, <2>4, <2>6, <2>8, <2>9, <2>10 DEF Grown
  <2>12. NamePart(call, k + 1) = s BY <1>1, <1>9 DEF NamePart
  <2>13. TextPart(call, k + 1) = SubSeq(a, 1, j + 1)
    <3>1. ~(k + 1 <= Len(call.name)) BY <1>1, <1>9
    <3>2. PICK n : n = k + 1 OBVIOUS
    <3>3. ~(n <= Len(call.name)) BY <3>1, <3>2
    <3>4. TextPart(call, n) = SubSeq(call.arguments, 1, n - Len(call.name))
      BY <3>3, Zenon DEF TextPart
    <3>5. n - Len(s) = j + 1 BY <2>2, <3>2
    <3> QED BY <1>1, <1>2, <3>2, <3>4, <3>5, Zenon
  <2> QED BY <1>7, <2>11, <2>12, <2>13 DEF Part
<1> QED BY <1>8, <1>9

\* What has come of a call when all its pieces have.
LEMMA PartComplete ==
    ASSUME NEW call, WellFormed(call)
    PROVE  /\ Pieces(call) \in Nat /\ Pieces(call) >= 1
           /\ NamePart(call, Pieces(call)) = call.name
           /\ TextPart(call, Pieces(call)) = call.arguments
<1>1. PICK s : s = call.name OBVIOUS
<1>2. PICK a : a = call.arguments OBVIOUS
<1>3. \E S : s \in Seq(S) BY <1>1, CallFacts
<1>4. \E S : a \in Seq(S) BY <1>2, CallFacts
<1>5. Len(s) \in Nat /\ Len(a) \in Nat /\ Len(s) >= 1 BY <1>1, <1>2, CallFacts
<1>6. PICK p : p = Pieces(call) OBVIOUS
<1>7. p = Len(s) + Len(a) BY <1>1, <1>2, <1>6 DEF Pieces
<1>8. p \in Nat /\ p >= 1 BY <1>5, <1>7
<1>9. SubSeq(s, 1, Len(s)) = s BY <1>3, PartWhole
<1>10. SubSeq(a, 1, Len(a)) = a BY <1>4, PartWhole
<1>11. CASE Len(a) = 0
  <2>1. p = Len(s) BY <1>5, <1>7, <1>11
  <2>2. p <= Len(s) BY <1>5, <2>1
  <2>3. a = <<>> BY <1>4, <1>11
  <2>4. NamePart(call, p) = s BY <1>1, <1>9, <2>1, <2>2 DEF NamePart
  <2>5. TextPart(call, p) = a BY <1>1, <2>2, <2>3 DEF TextPart
  <2> QED BY <1>1, <1>2, <1>6, <1>8, <2>4, <2>5
<1>12. CASE Len(a) # 0
  <2>1. ~(p <= Len(s)) /\ p - Len(s) = Len(a) BY <1>5, <1>7, <1>12
  <2>2. NamePart(call, p) = s BY <1>1, <2>1 DEF NamePart
  <2>3. TextPart(call, p) = a BY <1>1, <1>2, <1>10, <2>1 DEF TextPart
  <2> QED BY <1>1, <1>2, <1>6, <1>8, <2>2, <2>3
<1> QED BY <1>11, <1>12

\* No part of a text is an object's text but the whole.
LEMMA PartOfObject ==
    ASSUME NEW call, WellFormed(call), NEW k \in 0..Pieces(call),
           TextPart(call, k) # <<>>, TextPart(call, k) \in DOMAIN Json
    PROVE  k = Pieces(call)
<1>1. PICK s : s = call.name OBVIOUS
<1>2. PICK a : a = call.arguments OBVIOUS
<1>3. Len(s) \in Nat /\ Len(a) \in Nat /\ Len(s) >= 1 BY <1>1, <1>2, CallFacts
<1>4. k \in 0..(Len(s) + Len(a)) /\ Pieces(call) = Len(s) + Len(a)
  BY <1>1, <1>2, <1>3 DEF Pieces
<1>5. ~(k <= Len(s)) BY <1>1 DEF TextPart
<1>6. TextPart(call, k) = SubSeq(a, 1, k - Len(s)) BY <1>1, <1>2, <1>5 DEF TextPart
<1>7. \A j \in 1..(Len(a) - 1) : SubSeq(a, 1, j) \notin DOMAIN Json
  BY <1>2 DEF WellFormed
<1>8. k - Len(s) \in 1..Len(a) BY <1>3, <1>4, <1>5
<1>9. k - Len(s) \notin 1..(Len(a) - 1) BY <1>6, <1>7
<1>10. k - Len(s) = Len(a) BY <1>3, <1>8, <1>9
<1> QED BY <1>3, <1>4, <1>10

-----------------------------------------------------------------------------
(* The streams: buffers follow from what was sent, calls from the buffers *)

OfferedTo(me) == IF me.turn \in DOMAIN me.script THEN me.script[me.turn] ELSE <<>>

AssembledFrom(me) ==
    LET at == Indices(me.buffers)
    IN  [n \in DOMAIN at |->
            LET buffer == me.buffers[at[n]]
            IN  [id |-> IF buffer.id = NoId THEN <<me.turn, at[n]>> ELSE buffer.id,
                 name |-> buffer.name, arguments |-> Parsed(buffer.arguments)]]

\* The buffers hold what was sent of the calls that have begun to arrive.
BuffersOK(offers, sent, buffers) ==
    /\ DOMAIN sent = DOMAIN offers
    /\ \A n \in DOMAIN offers : sent[n] \in 0..Pieces(offers[n])
    /\ DOMAIN buffers = {n \in DOMAIN offers : sent[n] # 0}
    /\ \A n \in DOMAIN buffers : buffers[n] = Part(offers[n], sent[n])

Called == {"calls", "announced", "writing", "replacing", "answered"}

\* From the stream on, the buffers follow from what was sent; from its end on, the calls
\* follow from the buffers.
StreamOK(me) ==
    /\ me.script \in Turns \cup {<<>>}
    /\ me.stage \in {"asking", "retrying"} => me.buffers = <<>>
    /\ me.stage \in {"streaming"} \cup Called => BuffersOK(OfferedTo(me), me.sent, me.buffers)
    /\ me.stage \in Called => me.calls = AssembledFrom(me)
    /\ me.stage \notin Called => me.calls = <<>>

StreamsInv == \A r \in Runs : StreamOK(runs[r])

LEMMA OffersFacts ==
    ASSUME CallsWellFormed, NEW me, me.script \in Turns \cup {<<>>}, NEW offers,
           offers = OfferedTo(me)
    PROVE  /\ \E n \in Nat : DOMAIN offers = 1..n
           /\ \A n \in DOMAIN offers : WellFormed(offers[n])
<1>1. CASE me.turn \in DOMAIN me.script
  <2>1. PICK turns : turns = me.script OBVIOUS
  <2>2. PICK t : t = me.turn OBVIOUS
  <2>3. t \in DOMAIN turns /\ offers = turns[t] BY <1>1, <2>1, <2>2 DEF OfferedTo
  <2>4. turns # <<>> BY <2>3
  <2>5. turns \in Turns BY <2>1, <2>4
  <2>6. offers \in Seq(ToSet(offers)) /\ \A n \in DOMAIN offers : WellFormed(offers[n])
    BY <2>3, <2>5 DEF CallsWellFormed
  <2>7. PICK S : S = ToSet(offers) OBVIOUS
  <2>8. offers \in Seq(S) BY <2>6, <2>7
  <2>9. Len(offers) \in Nat /\ DOMAIN offers = 1..Len(offers) BY <2>8
  <2> QED BY <2>6, <2>9
<1>2. CASE me.turn \notin DOMAIN me.script
  <2>1. offers = <<>> BY <1>2 DEF OfferedTo
  <2>2. DOMAIN offers = {} BY <2>1
  <2>3. DOMAIN offers = 1..0 BY <2>2
  <2> QED BY <2>2, <2>3
<1> QED BY <1>1, <1>2

\* A piece arrives.
LEMMA PieceArrives ==
    ASSUME NEW offers, NEW sent, NEW buffers, BuffersOK(offers, sent, buffers),
           NEW n \in DOMAIN offers, WellFormed(offers[n]), sent[n] < Pieces(offers[n]),
           NEW sent2, sent2 = [sent EXCEPT ![n] = @ + 1],
           NEW buffers2, buffers2 = Collect(buffers, n, Piece(offers[n], sent[n] + 1))
    PROVE  BuffersOK(offers, sent2, buffers2)
<1>1. PICK call : call = offers[n] OBVIOUS
<1>2. PICK k : k = sent[n] OBVIOUS
<1>3. WellFormed(call) /\ k < Pieces(call) BY <1>1, <1>2
<1>4. Pieces(call) \in Nat BY <1>3, PartComplete
<1>5. k \in 0..Pieces(call) BY <1>1, <1>2 DEF BuffersOK
<1>6. k \in Nat /\ k \in 0..(Pieces(call) - 1) /\ k + 1 \in 0..Pieces(call) /\ k + 1 # 0
  BY <1>3, <1>4, <1>5
<1>7. PICK delta : delta = Piece(call, k + 1) OBVIOUS
<1>8. PICK old : old = Buffer(buffers, n) OBVIOUS
<1>9. old = IF k = 0 THEN Nothing ELSE Part(call, k)
  BY <1>1, <1>2, <1>8 DEF Buffer, BuffersOK, Nothing
<1>10. Grown(old, delta) = Part(call, k + 1) BY <1>3, <1>6, <1>7, <1>9, PieceJoins
<1>11. DOMAIN sent = DOMAIN offers BY DEF BuffersOK
<1>12. DOMAIN sent2 = DOMAIN offers /\ sent2[n] = k + 1
       /\ \A i \in DOMAIN offers : i # n => sent2[i] = sent[i]
  BY <1>2, <1>11
<1>13. buffers2 = [i \in DOMAIN buffers \cup {n} |-> IF i # n THEN buffers[i]
                                                    ELSE Grown(old, delta)]
  BY <1>1, <1>2, <1>7, <1>8 DEF Collect, Grown
<1>14. DOMAIN buffers2 = DOMAIN buffers \cup {n} /\ buffers2[n] = Part(call, k + 1)
       /\ \A i \in DOMAIN buffers : i # n => buffers2[i] = buffers[i]
  BY <1>10, <1>13
<1>15. \A i \in DOMAIN offers : sent2[i] \in 0..Pieces(offers[i])
  BY <1>1, <1>6, <1>12 DEF BuffersOK
<1>16. DOMAIN buffers = {i \in DOMAIN offers : sent[i] # 0} BY DEF BuffersOK
<1>17. DOMAIN buffers2 = {i \in DOMAIN offers : sent2[i] # 0}
  <2>1. DOMAIN buffers2 \subseteq {i \in DOMAIN offers : sent2[i] # 0}
    BY <1>6, <1>12, <1>14, <1>16
  <2>2. {i \in DOMAIN offers : sent2[i] # 0} \subseteq DOMAIN buffers2
    BY <1>12, <1>14, <1>16
  <2> QED BY <2>1, <2>2
<1>18. ASSUME NEW i \in DOMAIN buffers2 PROVE buffers2[i] = Part(offers[i], sent2[i])
  <2>1. CASE i = n BY <1>1, <1>12, <1>14, <2>1
  <2>2. CASE i # n
    <3>1. i \in DOMAIN buffers /\ i \in DOMAIN offers BY <1>14, <1>16, <2>2
    <3>2. buffers[i] = Part(offers[i], sent[i]) BY <3>1 DEF BuffersOK
    <3>3. buffers2[i] = buffers[i] /\ sent2[i] = sent[i] BY <1>12, <1>14, <2>2, <3>1
    <3> QED BY <3>2, <3>3
  <2> QED BY <2>1, <2>2
<1> QED BY <1>12, <1>15, <1>17, <1>18 DEF BuffersOK

\* A step of a run that leaves its stream and its calls alone.
LEMMA StreamKept ==
    ASSUME NEW me, StreamOK(me), NEW new, new.script = me.script, new.turn = me.turn,
           new.sent = me.sent, new.buffers = me.buffers, new.calls = me.calls,
           new.stage = me.stage \/ {me.stage, new.stage} \subseteq Called
    PROVE  StreamOK(new)
<1>1. OfferedTo(new) = OfferedTo(me) BY DEF OfferedTo
<1>2. AssembledFrom(new) = AssembledFrom(me) BY DEF AssembledFrom
<1> QED BY <1>1, <1>2 DEF StreamOK, Called

LEMMA EndsKeepStream ==
    /\ \A reason : StreamOK(Over(reason))
    /\ \A turns \in Turns : StreamOK(Waiting(turns))
<1>1. ASSUME NEW reason PROVE StreamOK(Over(reason))
  <2>1. PICK me : me = Over(reason) OBVIOUS
  <2>2. me.script = <<>> /\ me.stage = "over" /\ me.calls = <<>>
    BY <2>1 DEF Over, Waiting
  <2> QED BY <2>1, <2>2 DEF StreamOK, Called
<1>2. ASSUME NEW turns \in Turns PROVE StreamOK(Waiting(turns))
  <2>1. PICK me : me = Waiting(turns) OBVIOUS
  <2>2. me.script = turns /\ me.stage = "waiting" /\ me.calls = <<>>
    BY <2>1 DEF Waiting
  <2> QED BY <2>1, <2>2 DEF StreamOK, Called
<1> QED BY <1>1, <1>2

LEMMA BecomesOK ==
    ASSUME TurnInv, StreamsInv, NEW r \in Runs, NEW new, runs' = [runs EXCEPT ![r] = new],
           StreamOK(new)
    PROVE  StreamsInv'
<1>1. DOMAIN runs = Runs BY DEF TurnInv
<1>2. runs'[r] = new /\ \A q \in Runs : q # r => runs'[q] = runs[q] BY <1>1
<1> QED BY <1>2 DEF StreamsInv

\* The provider is asked, and streams.
LEMMA StreamBegins ==
    ASSUME CallsWellFormed, TurnInv, StreamsInv, NEW r \in Runs, BeginTurn(r) \/ Ask(r) \/ AskAgain(r)
    PROVE  StreamsInv'
<1>1. PICK me : me = runs[r] OBVIOUS
<1>2. StreamOK(me) /\ DOMAIN me = Fields BY <1>1, RunFacts DEF StreamsInv
<1>3. me.script \in Turns \cup {<<>>} BY <1>2 DEF StreamOK
<1>4. CASE BeginTurn(r)
  <2>1. PICK kept \in BOOLEAN :
           runs' = [runs EXCEPT ![r] =
                       [me EXCEPT !.stage = "asking", !.turn = @ + 1,
                                  !.images = kept /\ (@ \/ me.attached), !.attached = FALSE,
                                  !.sent = <<>>, !.buffers = <<>>, !.calls = <<>>,
                                  !.replies = <<>>]]
    BY <1>1, <1>4 DEF BeginTurn, Goes, Becomes
  <2>2. PICK new : new = [me EXCEPT !.stage = "asking", !.turn = @ + 1,
                              !.images = kept /\ (@ \/ me.attached), !.attached = FALSE,
                              !.sent = <<>>, !.buffers = <<>>, !.calls = <<>>,
                              !.replies = <<>>]
    OBVIOUS
  <2>3. new.script = me.script /\ new.stage = "asking" /\ new.buffers = <<>> /\ new.calls = <<>>
    BY <1>2, <2>2 DEF Fields
  <2>4. StreamOK(new) BY <1>3, <2>3 DEF StreamOK, Called
  <2> QED BY <2>1, <2>2, <2>4, BecomesOK
<1>5. ASSUME NEW withImages, NEW answer, NEW new, new = Requested(r, withImages, answer)
      PROVE  /\ DOMAIN new = Fields /\ new.stage = "streaming" /\ new.script = me.script
             /\ new.turn = me.turn /\ new.sent = [n \in DOMAIN OfferedTo(me) |-> 0]
             /\ new.buffers = me.buffers /\ new.calls = me.calls
  <2>1. Offered(r) = OfferedTo(me) BY <1>1 DEF Offered, OfferedTo
  <2>2. new = [me EXCEPT !.asked = Append(@, [turn |-> me.turn, images |-> withImages,
                                              answer |-> answer]),
                         !.stage = "streaming", !.sent = [n \in DOMAIN OfferedTo(me) |-> 0]]
    BY <1>1, <1>5, <2>1 DEF Requested
  <2> QED BY <1>2, <2>2 DEF Fields
<1>6. ASSUME NEW withImages, NEW new, new = Requested(r, withImages, "stream"),
             me.stage \in {"asking", "retrying"}
      PROVE  StreamOK(new)
  <2>1. /\ new.stage = "streaming" /\ new.script = me.script
        /\ new.turn = me.turn /\ new.sent = [n \in DOMAIN OfferedTo(me) |-> 0]
        /\ new.buffers = me.buffers /\ new.calls = me.calls
    BY <1>5, <1>6
  <2>2. new.buffers = <<>> /\ new.calls = <<>> BY <1>2, <1>6, <2>1 DEF StreamOK, Called
  <2>3. PICK offers : offers = OfferedTo(me) OBVIOUS
  <2>4. OfferedTo(new) = offers BY <2>1, <2>3 DEF OfferedTo
  <2>5. PICK sent : sent = [n \in DOMAIN offers |-> 0] OBVIOUS
  <2>6. \A n \in DOMAIN offers : Pieces(offers[n]) \in Nat
    BY <1>3, <2>3, OffersFacts, PartComplete
  <2>7. DOMAIN sent = DOMAIN offers /\ \A n \in DOMAIN offers : sent[n] = 0 BY <2>5
  <2>8. PICK b : b = <<>> OBVIOUS
  <2>9. DOMAIN b = {} BY <2>8
  <2>10. BuffersOK(offers, sent, b) BY <2>6, <2>7, <2>9 DEF BuffersOK
  <2>11. BuffersOK(OfferedTo(new), new.sent, new.buffers)
    BY <2>1, <2>2, <2>3, <2>4, <2>5, <2>8, <2>10
  <2> QED BY <1>3, <2>1, <2>2, <2>11 DEF StreamOK, Called
<1>7. CASE Ask(r)
  <2>1. PICK w : w = (runs[r].images /\ ~runs[r].blind) OBVIOUS
  <2>2. me.stage = "asking" BY <1>1, <1>7 DEF Ask, At
  <2>3. \/ runs' = [runs EXCEPT ![r] = Requested(r, w, "stream")]
        \/ runs' = [runs EXCEPT ![r] = Refused(r)]
    BY <1>7, <2>1 DEF Ask, Goes, Becomes
  <2>4. CASE runs' = [runs EXCEPT ![r] = Requested(r, w, "stream")]
    <3>1. PICK new : new = Requested(r, w, "stream") OBVIOUS
    <3>2. StreamOK(new) BY <1>6, <2>2, <3>1
    <3> QED BY <2>4, <3>1, <3>2, BecomesOK
  <2>5. CASE runs' = [runs EXCEPT ![r] = Refused(r)]
    <3>1. PICK old : old = Requested(r, TRUE, "no_images") OBVIOUS
    <3>2. PICK new : new = Refused(r) OBVIOUS
    <3>3. /\ DOMAIN old = Fields /\ old.script = me.script
          /\ old.buffers = me.buffers /\ old.calls = me.calls
      <4>1. PICK w2 : w2 = TRUE OBVIOUS
      <4>2. old = Requested(r, w2, "no_images") BY <3>1, <4>1
      <4> QED BY <1>5, <4>2
    <3>4. new = [old EXCEPT !.stage = "retrying", !.sent = <<>>, !.blind = TRUE]
      BY <3>1, <3>2 DEF Refused
    <3>5. new.stage = "retrying" /\ new.script = me.script /\ new.buffers = me.buffers
          /\ new.calls = me.calls
      BY <3>3, <3>4 DEF Fields
    <3>6. StreamOK(new) BY <1>2, <2>2, <3>5 DEF StreamOK, Called
    <3> QED BY <2>5, <3>2, <3>6, BecomesOK
  <2> QED BY <2>3, <2>4, <2>5
<1>8. CASE AskAgain(r)
  <2>1. PICK w : w = FALSE OBVIOUS
  <2>2. PICK new : new = Requested(r, w, "stream") OBVIOUS
  <2>3. runs' = [runs EXCEPT ![r] = new] /\ me.stage = "retrying"
    BY <1>1, <1>8, <2>1, <2>2 DEF AskAgain, At, Goes, Becomes
  <2>4. StreamOK(new) BY <1>6, <2>2, <2>3
  <2> QED BY <2>3, <2>4, BecomesOK
<1> QED BY <1>4, <1>7, <1>8

\* Pieces arrive, and are put together.
LEMMA StreamArrives ==
    ASSUME CallsWellFormed, TurnInv, StreamsInv, NEW r \in Runs, Receive(r) \/ EndStream(r)
    PROVE  StreamsInv'
<1>1. PICK me : me = runs[r] OBVIOUS
<1>2. StreamOK(me) /\ DOMAIN me = Fields BY <1>1, RunFacts DEF StreamsInv
<1>3. me.script \in Turns \cup {<<>>} /\ me.stage = "streaming" /\ me.calls = <<>>
  BY <1>1, <1>2 DEF StreamOK, Receive, EndStream, At, Called
<1>4. PICK offers : offers = OfferedTo(me) OBVIOUS
<1>5. Offered(r) = offers BY <1>1, <1>4 DEF Offered, OfferedTo
<1>6. BuffersOK(offers, me.sent, me.buffers) BY <1>2, <1>3, <1>4 DEF StreamOK
<1>7. CASE Receive(r)
  <2>1. PICK n \in DOMAIN offers :
            /\ me.sent[n] < Pieces(offers[n])
            /\ Goes(r, [me EXCEPT
                  !.sent[n] = @ + 1,
                  !.buffers = Collect(@, n, Piece(offers[n], me.sent[n] + 1))])
    BY <1>1, <1>5, <1>7 DEF Receive
  <2>2. PICK s : s = me.sent OBVIOUS
  <2>3. PICK sent : sent = [s EXCEPT ![n] = @ + 1] OBVIOUS
  <2>4. PICK b : b = me.buffers OBVIOUS
  <2>5. PICK buffers : buffers = Collect(b, n, Piece(offers[n], s[n] + 1)) OBVIOUS
  <2>6. PICK new : new = [me EXCEPT !.sent = sent, !.buffers = buffers] OBVIOUS
  <2>7. runs' = [runs EXCEPT ![r] = new]
    BY <2>1, <2>2, <2>3, <2>4, <2>5, <2>6 DEF Goes, Becomes
  <2>8. new.sent = sent /\ new.buffers = buffers /\ new.script = me.script
        /\ new.turn = me.turn /\ new.stage = me.stage /\ new.calls = me.calls
    BY <1>2, <2>6 DEF Fields
  <2>9. WellFormed(offers[n]) BY <1>3, <1>4, OffersFacts
  <2>10. BuffersOK(offers, s, b) /\ s[n] < Pieces(offers[n]) BY <1>6, <2>1, <2>2, <2>4
  <2>11. BuffersOK(offers, sent, buffers) BY <2>3, <2>5, <2>9, <2>10, PieceArrives
  <2>12. OfferedTo(new) = offers BY <1>4, <2>8 DEF OfferedTo
  <2>13. StreamOK(new) BY <1>3, <2>8, <2>11, <2>12 DEF StreamOK, Called
  <2> QED BY <2>7, <2>13, BecomesOK
<1>8. CASE EndStream(r)
  <2>1. Assembled(r) = AssembledFrom(me) BY <1>1 DEF Assembled, AssembledFrom
  <2>2. PICK cs : cs = AssembledFrom(me) OBVIOUS
  <2>3. CASE cs = <<>>
    <3>1. runs' = [runs EXCEPT ![r] = Over("complete")]
      BY <1>8, <2>1, <2>2, <2>3 DEF EndStream, Goes, Becomes
    <3>2. PICK new : new = Over("complete") OBVIOUS
    <3>3. StreamOK(new) BY <3>2, EndsKeepStream
    <3> QED BY <3>1, <3>2, <3>3, BecomesOK
  <2>4. CASE cs # <<>>
    <3>1. PICK new : new = [me EXCEPT !.stage = "calls", !.calls = cs] OBVIOUS
    <3>2. runs' = [runs EXCEPT ![r] = new]
      BY <1>1, <1>8, <2>1, <2>2, <2>4, <3>1 DEF EndStream, Goes, Becomes
    <3>3. new.stage = "calls" /\ new.calls = cs /\ new.script = me.script
          /\ new.turn = me.turn /\ new.sent = me.sent /\ new.buffers = me.buffers
      BY <1>2, <3>1 DEF Fields
    <3>4. OfferedTo(new) = offers BY <1>4, <3>3 DEF OfferedTo
    <3>5. AssembledFrom(new) = AssembledFrom(me) BY <3>3 DEF AssembledFrom
    <3>6. StreamOK(new) BY <1>3, <1>6, <2>2, <3>3, <3>4, <3>5 DEF StreamOK, Called
    <3> QED BY <3>2, <3>6, BecomesOK
  <2> QED BY <2>3, <2>4
<1> QED BY <1>7, <1>8

\* The calls are carried out.
LEMMA CallsKept ==
    ASSUME TurnInv, StreamsInv, NEW r \in Runs,
           \/ Announce(r) \/ StartTool(r) \/ StartWrite(r) \/ WriteDraft(r)
           \/ ReplaceFile(r) \/ DiskFails(r) \/ Reply(r) \/ Abort(r)
    PROVE  StreamsInv'
<1>1. PICK me : me = runs[r] OBVIOUS
<1>2. StreamOK(me) /\ DOMAIN me = Fields BY <1>1, RunFacts DEF StreamsInv
<1> DEFINE Same(new) == /\ new.script = me.script /\ new.turn = me.turn /\ new.sent = me.sent
                        /\ new.buffers = me.buffers /\ new.calls = me.calls
<1>3. \A reply : LET new == Holding(r, reply)
                 IN  Same(new) /\ new.stage = "answered" /\ DOMAIN new = Fields
  BY <1>1, <1>2 DEF Holding, Fields
<1>4. \E new : /\ runs' = [runs EXCEPT ![r] = new] /\ Same(new)
               /\ new.stage = me.stage \/ {me.stage, new.stage} \subseteq Called
  <2>1. CASE Announce(r)
    <3>1. PICK new : new = [me EXCEPT !.stage = "announced"] OBVIOUS
    <3>2. runs' = [runs EXCEPT ![r] = new] /\ me.stage = "calls"
      BY <1>1, <2>1, <3>1 DEF Announce, At, Goes, Becomes
    <3>3. Same(new) /\ new.stage = "announced" BY <1>2, <3>1 DEF Fields
    <3> QED BY <3>2, <3>3 DEF Called
  <2>2. CASE StartTool(r)
    <3>1. me.stage = "announced" BY <1>1, <2>2 DEF StartTool, At
    <3>2. \E reply, a : LET old == Holding(r, reply)
                        IN  \/ runs' = [runs EXCEPT ![r] = old]
                            \/ runs' = [runs EXCEPT ![r] = [old EXCEPT !.attached = a]]
      BY <2>2 DEF StartTool, Goes, Becomes
    <3>3. PICK reply, a : \/ runs' = [runs EXCEPT ![r] = Holding(r, reply)]
                          \/ runs' = [runs EXCEPT ![r] = [Holding(r, reply) EXCEPT !.attached = a]]
      BY <3>2
    <3>4. PICK old : old = Holding(r, reply) OBVIOUS
    <3>5. Same(old) /\ old.stage = "answered" /\ DOMAIN old = Fields BY <1>3, <3>4
    <3>6. PICK new : new = [old EXCEPT !.attached = a] OBVIOUS
    <3>7. Same(new) /\ new.stage = "answered" BY <3>5, <3>6 DEF Fields
    <3>8. runs' = [runs EXCEPT ![r] = old] \/ runs' = [runs EXCEPT ![r] = new]
      BY <3>3, <3>4, <3>6
    <3> HIDE DEF Same
    <3> QED BY <3>1, <3>5, <3>7, <3>8 DEF Called
  <2>3. CASE StartWrite(r)
    <3>1. me.stage = "announced" BY <1>1, <2>3 DEF StartWrite, At
    <3>2. PICK old : old = Holding(r, "tool_failed") OBVIOUS
    <3>3. PICK new : new = [me EXCEPT !.stage = "writing"] OBVIOUS
    <3>4. runs' = [runs EXCEPT ![r] = old] \/ runs' = [runs EXCEPT ![r] = new]
      BY <1>1, <2>3, <3>2, <3>3 DEF StartWrite, Goes, Becomes
    <3>5. Same(old) /\ old.stage = "answered" BY <1>3, <3>2
    <3>6. Same(new) /\ new.stage = "writing" BY <1>2, <3>3 DEF Fields
    <3> HIDE DEF Same
    <3> QED BY <3>1, <3>4, <3>5, <3>6 DEF Called
  <2>4. CASE WriteDraft(r)
    <3>1. PICK new : new = [me EXCEPT !.stage = "replacing"] OBVIOUS
    <3>2. runs' = [runs EXCEPT ![r] = new] /\ me.stage = "writing"
      BY <1>1, <2>4, <3>1 DEF WriteDraft, Becomes
    <3>3. Same(new) /\ new.stage = "replacing" BY <1>2, <3>1 DEF Fields
    <3> QED BY <3>2, <3>3 DEF Called
  <2>5. CASE ReplaceFile(r)
    <3>1. PICK old : old = Holding(r, "ok") OBVIOUS
    <3>2. Same(old) /\ old.stage = "answered" /\ DOMAIN old = Fields BY <1>3, <3>1
    <3>3. PICK new : new = [old EXCEPT !.performed = TRUE] OBVIOUS
    <3>4. runs' = [runs EXCEPT ![r] = new] /\ me.stage = "replacing"
      BY <1>1, <2>5, <3>1, <3>3 DEF ReplaceFile, Becomes
    <3>5. Same(new) /\ new.stage = "answered" BY <3>2, <3>3 DEF Fields
    <3> QED BY <3>4, <3>5 DEF Called
  <2>6. CASE DiskFails(r)
    <3>1. PICK new : new = Holding(r, "tool_failed") OBVIOUS
    <3>2. Same(new) /\ new.stage = "answered" BY <1>3, <3>1
    <3>3. runs' = [runs EXCEPT ![r] = new] /\ me.stage \in {"writing", "replacing"}
      BY <1>1, <2>6, <3>1 DEF DiskFails, Becomes
    <3> QED BY <3>2, <3>3 DEF Called
  <2>7. CASE Reply(r)
    <3>1. PICK new : new = [me EXCEPT !.stage = "calls", !.replies = Append(@, me.held.reply),
                                      !.held = NoResult, !.performed = FALSE]
      OBVIOUS
    <3>2. runs' = [runs EXCEPT ![r] = new] /\ me.stage = "answered"
      BY <1>1, <2>7, <3>1 DEF Reply, At, Goes, Becomes
    <3>3. Same(new) /\ new.stage = "calls" BY <1>2, <3>1 DEF Fields
    <3> QED BY <3>2, <3>3 DEF Called
  <2>8. CASE Abort(r)
    <3>1. PICK new : new = [me EXCEPT !.cancel = TRUE] OBVIOUS
    <3>2. runs' = [runs EXCEPT ![r] = new] BY <1>1, <2>8, <3>1 DEF Abort, Goes, Becomes
    <3>3. Same(new) /\ new.stage = me.stage BY <1>2, <3>1 DEF Fields
    <3> QED BY <3>2, <3>3
  <2> QED BY <2>1, <2>2, <2>3, <2>4, <2>5, <2>6, <2>7, <2>8
<1>5. PICK new : /\ runs' = [runs EXCEPT ![r] = new] /\ Same(new)
                 /\ new.stage = me.stage \/ {me.stage, new.stage} \subseteq Called
  BY <1>4
<1>6. StreamOK(new) BY <1>2, <1>5, StreamKept
<1> QED BY <1>5, <1>6, BecomesOK

LEMMA StreamsStep == ASSUME CallsWellFormed, TurnInv, StreamsInv, [Next]_vars PROVE StreamsInv'
<1>1. ASSUME NEW r \in Runs, ProviderFails(r) \/ LeaveCancelled(r) \/ LeaveClosed(r)
      PROVE  StreamsInv'
  <2>1. \E reason : runs' = [runs EXCEPT ![r] = Over(reason)]
    BY <1>1 DEF ProviderFails, LeaveCancelled, LeaveClosed, Goes, Becomes
  <2>2. PICK reason : runs' = [runs EXCEPT ![r] = Over(reason)] BY <2>1
  <2>3. PICK new : new = Over(reason) OBVIOUS
  <2>4. StreamOK(new) BY <2>3, EndsKeepStream
  <2> QED BY <2>2, <2>3, <2>4, BecomesOK
<1>2. CASE Crash
  <2>1. \A q \in Runs : runs'[q] = runs[q] \/ runs'[q] = Over("crashed") BY <1>2 DEF Crash
  <2> QED BY <2>1, EndsKeepStream DEF StreamsInv
<1>3. CASE UNCHANGED vars BY <1>3 DEF vars, StreamsInv
<1> QED BY <1>1, <1>2, <1>3, StreamBegins, StreamArrives, CallsKept DEF Next

LEMMA StreamsAlwaysOK == CallsWellFormed => (Spec => []StreamsInv)
<1> SUFFICES ASSUME CallsWellFormed PROVE Spec => []StreamsInv OBVIOUS
<1>1. Init => StreamsInv
  <2> SUFFICES ASSUME Init, NEW r \in Runs PROVE StreamOK(runs[r]) BY DEF StreamsInv
  <2>1. PICK turns \in Turns : runs[r] = Waiting(turns) BY DEF Init
  <2> QED BY <2>1, EndsKeepStream
<1>2. TurnInv /\ StreamsInv /\ [Next]_vars => StreamsInv' BY StreamsStep
<1> QED BY <1>1, <1>2, TurnInvariant, PTL DEF Spec

-----------------------------------------------------------------------------
(* The calls of a stream that is over *)

CallFrom(turn, i, buffer) ==
    [id |-> IF buffer.id = NoId THEN <<turn, i>> ELSE buffer.id,
     name |-> buffer.name, arguments |-> Parsed(buffer.arguments)]

\* A buffer that holds a whole call becomes the call that is meant.
LEMMA WholeIsMeant ==
    ASSUME NEW call, WellFormed(call), NEW turn, NEW i, NEW k, k = Pieces(call)
    PROVE  CallFrom(turn, i, Part(call, k)) = CallFrom(turn, i, call)
<1>1. NamePart(call, k) = call.name /\ TextPart(call, k) = call.arguments BY PartComplete
<1> QED BY <1>1 DEF CallFrom, Part

\* A call that changes a file was made from a buffer that holds a whole call.
LEMMA WriterIsWhole ==
    ASSUME NEW call, WellFormed(call), NEW k \in 0..Pieces(call), NEW turn, NEW i,
           Writes(CallFrom(turn, i, Part(call, k)))
    PROVE  k = Pieces(call)
<1>1. PICK made : made = CallFrom(turn, i, Part(call, k)) OBVIOUS
<1>2. PICK text : text = TextPart(call, k) OBVIOUS
<1>3. made.arguments = Parsed(text) BY <1>1, <1>2 DEF CallFrom, Part
<1>4. PICK tool : tool = ToolNames[made.name] OBVIOUS
<1>5. Refusal(made) = "none" /\ tool \in {"write", "edit"} BY <1>1, <1>4 DEF Writes
<1>6. Valid(tool, made.arguments)
  <2>1. "tool_not_found" # "none" /\ "tool_arguments_invalid" # "none" OBVIOUS
  <2>2. Valid(ToolNames[made.name], made.arguments) BY <1>5, <2>1, Zenon DEF Refusal
  <2> QED BY <1>4, <2>2
<1>7. made.arguments # Raw /\ Required(tool) \subseteq DOMAIN made.arguments
  BY <1>6 DEF Valid
<1>8. "path" \in Required(tool) BY <1>5 DEF Required
<1>9. "path" \in DOMAIN made.arguments BY <1>7, <1>8
<1>10. text # <<>>
  <2>1. ASSUME text = <<>> PROVE FALSE
    <3>1. made.arguments = NoArguments BY <1>3, <2>1 DEF Parsed
    <3>2. "path" \in DOMAIN NoArguments BY <1>9, <3>1
    <3> QED BY <3>2 DEF NoArguments
  <2> QED BY <2>1
<1>11. text \in DOMAIN Json
  <2>1. ASSUME text \notin DOMAIN Json PROVE FALSE
    <3>1. made.arguments = Raw BY <1>3, <1>10, <2>1 DEF Parsed
    <3> QED BY <1>7, <3>1
  <2> QED BY <2>1
<1> QED BY <1>2, <1>10, <1>11, PartOfObject

\* The calls of a run whose stream is over, in the words of the lemmas above.
LEMMA CallsOfRun ==
    ASSUME NEW me, NEW offers, NEW at,
           BuffersOK(offers, me.sent, me.buffers), at = Indices(me.buffers),
           NEW size \in Nat, DOMAIN offers = 1..size
    PROVE  /\ Lists(at, DOMAIN me.buffers)
           /\ DOMAIN AssembledFrom(me) = DOMAIN at
           /\ \A i \in DOMAIN at :
                 /\ at[i] \in DOMAIN offers /\ at[i] \in DOMAIN me.buffers
                 /\ AssembledFrom(me)[i] =
                       CallFrom(me.turn, at[i], Part(offers[at[i]], me.sent[at[i]]))
<1>1. PICK sent : sent = me.sent OBVIOUS
<1>2. PICK buffers : buffers = me.buffers OBVIOUS
<1>3. BuffersOK(offers, sent, buffers) BY <1>1, <1>2
<1>4. DOMAIN buffers = {n \in DOMAIN offers : sent[n] # 0} BY <1>3 DEF BuffersOK
<1>5. \A n \in DOMAIN buffers : buffers[n] = Part(offers[n], sent[n]) BY <1>3 DEF BuffersOK
<1>6. DOMAIN buffers \subseteq 1..size BY <1>4
<1>7. at = Indices(buffers) BY <1>2
<1>8. Lists(at, DOMAIN buffers) BY <1>6, <1>7, IndicesList
<1>9. \A i \in DOMAIN at : at[i] \in DOMAIN buffers BY <1>8 DEF Lists
<1>10. AssembledFrom(me) = [i \in DOMAIN at |-> CallFrom(me.turn, at[i], buffers[at[i]])]
  BY <1>2, <1>7 DEF AssembledFrom, CallFrom
<1>11. PICK made : made = AssembledFrom(me) OBVIOUS
<1>12. DOMAIN made = DOMAIN at
       /\ \A i \in DOMAIN at : made[i] = CallFrom(me.turn, at[i], buffers[at[i]])
  BY <1>10, <1>11
<1>13. ASSUME NEW i \in DOMAIN at
       PROVE  /\ at[i] \in DOMAIN offers /\ at[i] \in DOMAIN buffers
              /\ made[i] = CallFrom(me.turn, at[i], Part(offers[at[i]], sent[at[i]]))
  <2>1. PICK n : n = at[i] OBVIOUS
  <2>2. n \in DOMAIN buffers BY <1>9, <2>1
  <2>3. n \in DOMAIN offers BY <1>4, <2>2
  <2>4. buffers[n] = Part(offers[n], sent[n]) BY <1>5, <2>2
  <2>5. made[i] = CallFrom(me.turn, n, buffers[n]) BY <1>12, <2>1
  <2>6. made[i] = CallFrom(me.turn, n, Part(offers[n], sent[n])) BY <2>4, <2>5
  <2> QED BY <2>1, <2>2, <2>3, <2>6
<1> QED BY <1>1, <1>2, <1>8, <1>11, <1>12, <1>13

LEMMA MeantFrom ==
    ASSUME NEW r, NEW n, NEW offers, offers = Offered(r)
    PROVE  Meant(r, n) = CallFrom(runs[r].turn, n, offers[n])
BY DEF Meant, CallFrom

LEMMA StreamsBringWhole ==
    ASSUME CallsWellFormed, StreamsInv
    PROVE  CallsArriveWhole
<1> SUFFICES ASSUME NEW r \in Runs, runs[r].calls # <<>>
             PROVE  /\ ArrivedWhole(r) = DOMAIN Offered(r) =>
                          runs[r].calls = [n \in DOMAIN Offered(r) |-> Meant(r, n)]
                    /\ \A i \in DOMAIN runs[r].calls : Writes(runs[r].calls[i]) =>
                          \E n \in ArrivedWhole(r) : runs[r].calls[i] = Meant(r, n)
  BY DEF CallsArriveWhole
<1>1. PICK me : me = runs[r] OBVIOUS
<1>2. PICK offers : offers = Offered(r) OBVIOUS
<1>3. StreamOK(me) BY <1>1 DEF StreamsInv
<1>4. offers = OfferedTo(me) BY <1>1, <1>2 DEF Offered, OfferedTo
<1>5. me.stage \in Called BY <1>1, <1>3 DEF StreamOK
<1>6. BuffersOK(offers, me.sent, me.buffers) BY <1>3, <1>4, <1>5 DEF StreamOK
<1>7. me.calls = AssembledFrom(me) BY <1>3, <1>5 DEF StreamOK
<1>8. me.script \in Turns \cup {<<>>} BY <1>3 DEF StreamOK
<1>9. PICK size \in Nat : DOMAIN offers = 1..size BY <1>4, <1>8, OffersFacts
<1>10. \A n \in DOMAIN offers : WellFormed(offers[n]) BY <1>4, <1>8, OffersFacts
<1>11. PICK at : at = Indices(me.buffers) OBVIOUS
<1>12. Lists(at, DOMAIN me.buffers) /\ DOMAIN me.calls = DOMAIN at
       /\ \A i \in DOMAIN at :
             /\ at[i] \in DOMAIN offers /\ at[i] \in DOMAIN me.buffers
             /\ me.calls[i] = CallFrom(me.turn, at[i], Part(offers[at[i]], me.sent[at[i]]))
  BY <1>6, <1>7, <1>9, <1>11, CallsOfRun
<1>13. ArrivedWhole(r) = {n \in DOMAIN offers : me.sent[n] = Pieces(offers[n])}
  BY <1>1, <1>2 DEF ArrivedWhole
<1>14. \A n \in ArrivedWhole(r) :
          n \in DOMAIN offers
          /\ CallFrom(me.turn, n, Part(offers[n], me.sent[n])) = Meant(r, n)
  <2>1. SUFFICES ASSUME NEW n \in ArrivedWhole(r)
                 PROVE  n \in DOMAIN offers
                        /\ CallFrom(me.turn, n, Part(offers[n], me.sent[n])) = Meant(r, n)
    OBVIOUS
  <2>2. n \in DOMAIN offers /\ me.sent[n] = Pieces(offers[n]) BY <1>13
  <2>3. PICK call : call = offers[n] OBVIOUS
  <2>4. PICK k : k = me.sent[n] OBVIOUS
  <2>5. WellFormed(call) /\ k = Pieces(call) BY <1>10, <2>2, <2>3, <2>4
  <2>6. CallFrom(me.turn, n, Part(call, k)) = CallFrom(me.turn, n, call) BY <2>5, WholeIsMeant
  <2>7. Meant(r, n) = CallFrom(me.turn, n, call) BY <1>1, <1>2, <2>3, MeantFrom
  <2> QED BY <2>2, <2>3, <2>4, <2>6, <2>7
<1>15. ASSUME ArrivedWhole(r) = DOMAIN offers
       PROVE  me.calls = [n \in DOMAIN offers |-> Meant(r, n)]
  <2>1. \A n \in DOMAIN offers : me.sent[n] = Pieces(offers[n]) BY <1>13, <1>15
  <2>2. DOMAIN me.buffers = DOMAIN offers
    <3>1. DOMAIN me.buffers = {n \in DOMAIN offers : me.sent[n] # 0} BY <1>6 DEF BuffersOK
    <3>2. ASSUME NEW n \in DOMAIN offers PROVE me.sent[n] # 0
      <4>1. PICK call : call = offers[n] OBVIOUS
      <4>2. WellFormed(call) BY <1>10, <4>1
      <4>3. PICK p : p = Pieces(call) OBVIOUS
      <4>4. p \in Nat /\ p >= 1 BY <4>2, <4>3, PartComplete
      <4>5. p # 0 BY <4>4
      <4> QED BY <2>1, <4>1, <4>3, <4>5
    <3> QED BY <3>1, <3>2
  <2>3. Lists(at, 1..size) BY <1>9, <1>12, <2>2
  <2>4. at \in [1..size -> 1..size] BY <2>3, ListWhole
  <2>5. \A i \in 1..size : at[i] = i BY <2>3, ListWhole
  <2>6. DOMAIN at = DOMAIN offers BY <1>9, <2>4
  <2>7. ASSUME NEW n \in DOMAIN offers PROVE me.calls[n] = Meant(r, n)
    <3>1. at[n] = n BY <1>9, <2>5, <2>7
    <3>2. me.calls[n] = CallFrom(me.turn, n, Part(offers[n], me.sent[n]))
      BY <1>12, <2>6, <2>7, <3>1
    <3>3. n \in ArrivedWhole(r) BY <1>15, <2>7
    <3> QED BY <1>14, <3>2, <3>3
  <2>8. \E F, G : me.calls = [i \in F |-> G[i]]
    <3>1. PICK G : G = [i \in DOMAIN at |-> CallFrom(me.turn, at[i], me.buffers[at[i]])] OBVIOUS
    <3>2. me.calls = G BY <1>7, <1>11, <3>1 DEF AssembledFrom, CallFrom
    <3>3. G = [i \in DOMAIN at |-> G[i]] BY <3>1
    <3> QED BY <3>2, <3>3
  <2>9. me.calls = [i \in DOMAIN offers |-> me.calls[i]] BY <1>12, <2>6, <2>8
  <2> QED BY <2>7, <2>9
<1>16. ASSUME NEW i \in DOMAIN me.calls, Writes(me.calls[i])
       PROVE  \E n \in ArrivedWhole(r) : me.calls[i] = Meant(r, n)
  <2>1. PICK n : n = at[i] OBVIOUS
  <2>2. n \in DOMAIN offers /\ n \in DOMAIN me.buffers BY <1>12, <2>1
  <2>3. PICK call : call = offers[n] OBVIOUS
  <2>4. PICK k : k = me.sent[n] OBVIOUS
  <2>5. me.calls[i] = CallFrom(me.turn, n, Part(call, k)) BY <1>12, <2>1, <2>3, <2>4
  <2>6. WellFormed(call) BY <1>10, <2>2, <2>3
  <2>7. k \in 0..Pieces(call) BY <1>6, <2>2, <2>3, <2>4 DEF BuffersOK
  <2>8. Writes(CallFrom(me.turn, n, Part(call, k))) BY <1>16, <2>5
  <2>9. k = Pieces(call) BY <2>6, <2>7, <2>8, WriterIsWhole
  <2>10. n \in ArrivedWhole(r) BY <1>13, <2>2, <2>3, <2>4, <2>9
  <2>11. me.calls[i] = Meant(r, n) BY <1>14, <2>3, <2>4, <2>5, <2>10
  <2> QED BY <2>10, <2>11
<1> QED BY <1>1, <1>2, <1>15, <1>16

\* Of a provider that keeps to its protocol, the pieces become the calls that it means.
THEOREM CallsAlwaysArriveWhole == CallsWellFormed => (Spec => []CallsArriveWhole)
<1> SUFFICES ASSUME CallsWellFormed PROVE Spec => []CallsArriveWhole OBVIOUS
<1>1. StreamsInv => CallsArriveWhole BY StreamsBringWhole
<1>2. Spec => []StreamsInv BY StreamsAlwaysOK
<1> QED BY <1>1, <1>2, PTL

-----------------------------------------------------------------------------
(* edit: where the old texts are found *)

\* found is the function that Matches is defined by.
Finds(found, old, text) ==
    found = [i \in 0..Len(text) |->
                IF i = 0 THEN {}
                ELSE LET before == found[i - 1]
                     IN  IF i \in Occurrences(old, text) /\ \A m \in before : m + Len(old) <= i
                         THEN before \cup {i} ELSE before]

LEMMA FindsExists ==
    ASSUME NEW old, NEW text, Len(text) \in Nat
    PROVE  \E found : Finds(found, old, text)
<1> DEFINE New(before, i) ==
              IF i \in Occurrences(old, text) /\ \A m \in before : m + Len(old) <= i
              THEN before \cup {i} ELSE before
           Up(f, n) == f = [i \in 0..n |-> IF i = 0 THEN {} ELSE New(f[i - 1], i)]
           S == {n \in Nat : \E f : Up(f, n)}
<1> HIDE DEF New
<1>1. 0 \in S
  <2>1. Up([i \in 0..0 |-> {}], 0) OBVIOUS
  <2> QED BY <2>1
<1>2. ASSUME NEW n \in Nat, n \in S PROVE n + 1 \in S
  <2>1. PICK f : Up(f, n) BY <1>2
  <2>2. PICK x : x = New(f[n], n + 1) OBVIOUS
  <2>3. PICK g : g = [i \in 0..(n + 1) |-> IF i = n + 1 THEN x ELSE f[i]] OBVIOUS
  <2>4. \A i \in 0..(n + 1) : g[i] = IF i = 0 THEN {} ELSE New(g[i - 1], i)
    <3> SUFFICES ASSUME NEW i \in 0..(n + 1)
                 PROVE  g[i] = IF i = 0 THEN {} ELSE New(g[i - 1], i)
      OBVIOUS
    <3>1. CASE i = n + 1
      <4>1. g[i] = x /\ i # 0 /\ i - 1 = n /\ n # n + 1 /\ n \in 0..(n + 1) BY <2>3, <3>1
      <4>2. g[i - 1] = f[n] BY <2>3, <4>1
      <4> QED BY <2>2, <3>1, <4>1, <4>2
    <3>2. CASE i # n + 1
      <4>1. i \in 0..n /\ (i # 0 => i - 1 \in 0..n) BY <3>2
      <4>2. g[i] = f[i] /\ (i # 0 => g[i - 1] = f[i - 1]) BY <2>3, <4>1
      <4>3. f[i] = IF i = 0 THEN {} ELSE New(f[i - 1], i) BY <2>1, <4>1
      <4> QED BY <4>2, <4>3
    <3> QED BY <3>1, <3>2
  <2>5. Up(g, n + 1) BY <2>3, <2>4
  <2> HIDE DEF Up
  <2> QED BY <2>5
<1> HIDE DEF S
<1>3. Len(text) \in S BY <1>1, <1>2, Induction
<1>4. PICK f : Up(f, Len(text)) BY <1>3 DEF S
<1>5. Finds(f, old, text) BY <1>4, Zenon DEF Finds, New
<1> QED BY <1>5

\* What counts as a match is an occurrence.
LEMMA MatchesOccur ==
    ASSUME NEW old, NEW text, IsSeq(text)
    PROVE  Matches(old, text) \subseteq Occurrences(old, text)
<1>1. Len(text) \in Nat BY SeqFacts
<1> DEFINE f == CHOOSE g : Finds(g, old, text)
<1>2. Finds(f, old, text) BY <1>1, FindsExists
<1>3. Matches(old, text) = f[Len(text)] BY Zenon DEF Matches, Finds
<1> HIDE DEF f
<1> DEFINE S == {n \in Nat : n <= Len(text) => f[n] \subseteq Occurrences(old, text)}
<1>4. 0 \in S
  <2>1. f[0] = {} BY <1>1, <1>2 DEF Finds
  <2> QED BY <2>1
<1>5. ASSUME NEW n \in Nat, n \in S PROVE n + 1 \in S
  <2> SUFFICES ASSUME n + 1 <= Len(text) PROVE f[n + 1] \subseteq Occurrences(old, text)
    OBVIOUS
  <2>1. n + 1 \in 0..Len(text) /\ n + 1 # 0 /\ (n + 1) - 1 = n /\ n <= Len(text) BY <1>1
  <2>2. PICK before : before = f[n] OBVIOUS
  <2>3. f[n + 1] = IF n + 1 \in Occurrences(old, text)
                      /\ \A m \in before : m + Len(old) <= n + 1
                   THEN before \cup {n + 1} ELSE before
    BY <1>2, <2>1, <2>2 DEF Finds
  <2>4. before \subseteq Occurrences(old, text) BY <1>5, <2>1, <2>2
  <2> QED BY <2>3, <2>4
<1> HIDE DEF S
<1>6. Len(text) \in S BY <1>1, <1>4, <1>5, Induction
<1> QED BY <1>1, <1>3, <1>6 DEF S

\* Edits that the tool accepts, and the place of each old text.
Accepts(text, edits) ==
    /\ IsSeq(text) /\ IsSeq(edits)
    /\ \A n \in 1..Len(edits) : IsSeq(edits[n].old) /\ IsSeq(edits[n].new)
    /\ ~EditFails(text, edits)
    /\ ~Overlap(Spans(text, edits))

LEMMA AcceptsFacts ==
    ASSUME NEW text, NEW edits, Accepts(text, edits)
    PROVE  /\ Len(text) \in Nat /\ DOMAIN text = 1..Len(text)
           /\ Len(edits) \in Nat /\ DOMAIN edits = 1..Len(edits)
           /\ DOMAIN Spans(text, edits) = 1..Len(edits)
<1>1. /\ Len(text) \in Nat /\ DOMAIN text = 1..Len(text)
      /\ Len(edits) \in Nat /\ DOMAIN edits = 1..Len(edits)
  BY SeqFacts DEF Accepts
<1> QED BY <1>1 DEF Spans

Alone(old, text, place) == Matches(old, text) = {place}

\* An old text stands at one place, and there is something to replace.
LEMMA SpanFacts ==
    ASSUME NEW text, NEW edits, Accepts(text, edits), NEW n \in 1..Len(edits),
           NEW span, span = Spans(text, edits)[n]
    PROVE  /\ Alone(edits[n].old, text, span.from)
           /\ span.from \in 1..Len(text) /\ span.to \in Nat
           /\ span.to = span.from + Len(edits[n].old) /\ Len(edits[n].old) \in Nat
           /\ span.from < span.to /\ span.to <= Len(text) + 1
           /\ span.new = edits[n].new /\ IsSeq(span.new)
<1>1. PICK old : old = edits[n].old OBVIOUS
<1>2. PICK here : here = Matches(old, text) OBVIOUS
<1>3. /\ Len(text) \in Nat /\ n \in DOMAIN edits /\ IsSeq(text) /\ IsSeq(old)
      /\ IsSeq(edits[n].new)
  BY <1>1, AcceptsFacts DEF Accepts
<1>4. old # <<>> /\ Cardinality(here) = 1
  BY <1>1, <1>2, <1>3 DEF Accepts, EditFails
<1>5. Len(old) \in Nat /\ Len(old) # 0 BY <1>3, <1>4, SeqFacts
<1>6. here \subseteq 1..(Len(text) - Len(old) + 1)
  <2>1. here \subseteq Occurrences(old, text) BY <1>2, <1>3, MatchesOccur
  <2> QED BY <2>1 DEF Occurrences
<1>7. IsFiniteSet(here)
  <2>1. IsFiniteSet(1..(Len(text) - Len(old) + 1)) BY <1>3, <1>5, FS_Interval
  <2> QED BY <1>6, <2>1, FS_Subset
<1>8. PICK x : here = {x} BY <1>4, <1>7, FS_Singleton
<1>9. span = [from |-> x, to |-> x + Len(old), new |-> edits[n].new]
  <2>1. (CHOOSE i \in here : TRUE) = x BY <1>8
  <2>2. span = LET from == CHOOSE i \in here : TRUE
               IN  [from |-> from, to |-> from + Len(old), new |-> edits[n].new]
    BY <1>1, <1>2, <1>3 DEF Spans
  <2> QED BY <2>1, <2>2
<1>10. span.from = x /\ span.to = x + Len(old) /\ span.new = edits[n].new BY <1>9
<1>11. x \in 1..Len(text) /\ x + Len(old) <= Len(text) + 1 BY <1>3, <1>5, <1>6, <1>8
<1> QED BY <1>1, <1>2, <1>3, <1>5, <1>8, <1>10, <1>11 DEF Alone

\* Two spans do not touch each other's text.
LEMMA SpansApart ==
    ASSUME NEW text, NEW edits, Accepts(text, edits), NEW spans, spans = Spans(text, edits),
           NEW n \in 1..Len(edits), NEW m \in 1..Len(edits), n # m
    PROVE  /\ spans[n].from # spans[m].from
           /\ spans[n].from < spans[m].from => spans[n].to <= spans[m].from
<1>1. n \in DOMAIN spans /\ m \in DOMAIN spans BY AcceptsFacts
<1>2. ~(spans[n].from <= spans[m].from /\ spans[m].from < spans[n].to)
  BY <1>1 DEF Accepts, Overlap
<1>3. spans[n].from \in 1..Len(text) /\ spans[n].to \in Nat /\ spans[n].from < spans[n].to
  <2>1. PICK span : span = spans[n] OBVIOUS
  <2>2. span.from \in 1..Len(text) BY <2>1, SpanFacts
  <2>3. span.to \in Nat BY <2>1, SpanFacts
  <2>4. span.from < span.to BY <2>1, SpanFacts
  <2> QED BY <2>1, <2>2, <2>3, <2>4
<1>4. spans[m].from \in 1..Len(text)
  <2>1. PICK span : span = spans[m] OBVIOUS
  <2> QED BY <2>1, SpanFacts
<1>5. Len(text) \in Nat BY AcceptsFacts
<1> QED BY <1>2, <1>3, <1>4, <1>5

\* Sorting gives each span its place: it is the list of all spans, from left to right.
Sorts(s, spans, size) ==
    /\ IsSeq(s) /\ Len(s) \in Nat
    /\ \A k \in 1..Len(s) : \E n \in 1..size : s[k] = spans[n]
    /\ \A n \in 1..size : \E k \in 1..Len(s) : s[k] = spans[n]
    /\ \A k \in 1..Len(s) : \A l \in 1..Len(s) : k < l => s[k].from < s[l].from

LEMMA SortedFacts ==
    ASSUME NEW text, NEW edits, Accepts(text, edits), NEW spans, spans = Spans(text, edits),
           NEW s, s = LeftToRight(text, spans)
    PROVE  Sorts(s, spans, Len(edits))
<1>1. Len(text) \in Nat /\ Len(edits) \in Nat /\ DOMAIN spans = 1..Len(edits)
  BY AcceptsFacts
<1>2. PICK places : places = {spans[n].from : n \in DOMAIN spans} OBVIOUS
<1>3. PICK from : from = Ascending(places, Len(text)) OBVIOUS
<1>4. IsSeq(from) BY <1>1, <1>3, AscendingFacts
<1>5. \A k \in 1..Len(from) : from[k] \in places BY <1>1, <1>3, AscendingFacts
<1>6. \A i \in 1..Len(text) : i \in places => \E k \in 1..Len(from) : from[k] = i
  BY <1>1, <1>3, AscendingFacts
<1>7. Climbing(from) BY <1>1, <1>3, AscendingClimbing
<1>8. Len(from) \in Nat /\ DOMAIN from = 1..Len(from) BY <1>4, SeqFacts
<1>9. s = [k \in 1..Len(from) |-> spans[CHOOSE n \in DOMAIN spans : spans[n].from = from[k]]]
  <2> DEFINE all == Ascending({spans[n].from : n \in DOMAIN spans}, Len(text))
             Here(at) == [k \in DOMAIN at |->
                             spans[CHOOSE n \in DOMAIN spans : spans[n].from = at[k]]]
  <2>1. s = Here(all) BY DEF LeftToRight
  <2>2. from = all BY <1>2, <1>3
  <2> HIDE DEF all
  <2>3. s = Here(from) BY <2>1, <2>2
  <2> QED BY <1>8, <2>3
<1>10. IsSeq(s) /\ Len(s) = Len(from)
  <2>1. PICK len : len = Len(from) OBVIOUS
  <2>2. s = [k \in 1..len |-> s[k]] BY <1>9, <2>1
  <2> QED BY <1>8, <2>1, <2>2, FunctionFacts
<1>11. ASSUME NEW k \in 1..Len(s)
       PROVE  /\ s[k].from = from[k]
              /\ \E n \in 1..Len(edits) : s[k] = spans[n]
  <2>1. \E n \in DOMAIN spans : spans[n].from = from[k] BY <1>2, <1>5, <1>10
  <2>2. PICK n : n = CHOOSE m \in DOMAIN spans : spans[m].from = from[k] OBVIOUS
  <2>3. n \in DOMAIN spans /\ spans[n].from = from[k] BY <2>1, <2>2
  <2>4. s[k] = spans[n] BY <1>9, <1>10, <2>2
  <2> QED BY <1>1, <2>3, <2>4
<1>12. ASSUME NEW n \in 1..Len(edits) PROVE \E k \in 1..Len(s) : s[k] = spans[n]
  <2>1. PICK span : span = spans[n] OBVIOUS
  <2>2. span.from \in 1..Len(text) BY <2>1, SpanFacts
  <2>3. span.from \in places BY <1>1, <1>2, <2>1
  <2>4. PICK k \in 1..Len(from) : from[k] = span.from BY <1>6, <2>2, <2>3
  <2>5. PICK m \in 1..Len(edits) : s[k] = spans[m] BY <1>10, <1>11, <2>4
  <2>6. spans[m].from = spans[n].from BY <1>10, <1>11, <2>1, <2>4, <2>5
  <2>7. m = n BY <2>6, SpansApart
  <2> QED BY <1>10, <2>4, <2>5, <2>7
<1>13. ASSUME NEW k \in 1..Len(s), NEW l \in 1..Len(s), k < l PROVE s[k].from < s[l].from
  <2>1. from[k] < from[l] BY <1>7, <1>10, <1>13 DEF Climbing
  <2> QED BY <1>11, <2>1
<1> QED BY <1>8, <1>10, <1>11, <1>12, <1>13 DEF Sorts

-----------------------------------------------------------------------------
(* edit: the text that is put together *)

\* built is the function that Spliced is defined by.
Builds(built, text, spans) ==
    built = [n \in 0..Len(spans) |->
                IF n = 0 THEN [parts |-> <<>>, cursor |-> 1]
                ELSE LET before == built[n - 1]
                     IN  [parts |-> before.parts
                                    \o SubSeq(text, before.cursor, spans[n].from - 1)
                                    \o spans[n].new,
                          cursor |-> spans[n].to]]

LEMMA BuildsExists ==
    ASSUME NEW text, NEW spans, Len(spans) \in Nat
    PROVE  \E built : Builds(built, text, spans)
<1> DEFINE New(before, n) ==
              [parts |-> before.parts \o SubSeq(text, before.cursor, spans[n].from - 1)
                         \o spans[n].new,
               cursor |-> spans[n].to]
           Base == [parts |-> <<>>, cursor |-> 1]
           Up(f, n) == f = [i \in 0..n |-> IF i = 0 THEN Base ELSE New(f[i - 1], i)]
           S == {n \in Nat : \E f : Up(f, n)}
<1> HIDE DEF New, Base
<1>1. 0 \in S
  <2>1. Up([i \in 0..0 |-> Base], 0) OBVIOUS
  <2> QED BY <2>1
<1>2. ASSUME NEW n \in Nat, n \in S PROVE n + 1 \in S
  <2>1. PICK f : Up(f, n) BY <1>2
  <2>2. PICK x : x = New(f[n], n + 1) OBVIOUS
  <2>3. PICK g : g = [i \in 0..(n + 1) |-> IF i = n + 1 THEN x ELSE f[i]] OBVIOUS
  <2>4. \A i \in 0..(n + 1) : g[i] = IF i = 0 THEN Base ELSE New(g[i - 1], i)
    <3> SUFFICES ASSUME NEW i \in 0..(n + 1)
                 PROVE  g[i] = IF i = 0 THEN Base ELSE New(g[i - 1], i)
      OBVIOUS
    <3>1. CASE i = n + 1
      <4>1. g[i] = x /\ i # 0 /\ i - 1 = n /\ n # n + 1 /\ n \in 0..(n + 1) BY <2>3, <3>1
      <4>2. g[i - 1] = f[n] BY <2>3, <4>1
      <4> QED BY <2>2, <3>1, <4>1, <4>2
    <3>2. CASE i # n + 1
      <4>1. i \in 0..n /\ (i # 0 => i - 1 \in 0..n) BY <3>2
      <4>2. g[i] = f[i] /\ (i # 0 => g[i - 1] = f[i - 1]) BY <2>3, <4>1
      <4>3. f[i] = IF i = 0 THEN Base ELSE New(f[i - 1], i) BY <2>1, <4>1
      <4> QED BY <4>2, <4>3
    <3> QED BY <3>1, <3>2
  <2>5. Up(g, n + 1) BY <2>3, <2>4
  <2> HIDE DEF Up
  <2> QED BY <2>5
<1> HIDE DEF S
<1>3. Len(spans) \in S BY <1>1, <1>2, Induction
<1>4. PICK f : Up(f, Len(spans)) BY <1>3 DEF S
<1>5. Builds(f, text, spans) BY <1>4, Zenon DEF Builds, New, Base
<1> QED BY <1>5

\* Splicing goes from one span to the next.
LEMMA SplicedFacts ==
    ASSUME NEW text, NEW spans, Len(spans) \in Nat
    PROVE  \E parts, cursor :
              /\ parts[0] = <<>> /\ cursor[0] = 1
              /\ \A n \in 1..Len(spans) :
                    /\ parts[n] = parts[n - 1] \o SubSeq(text, cursor[n - 1], spans[n].from - 1)
                                  \o spans[n].new
                    /\ cursor[n] = spans[n].to
              /\ Spliced(text, spans) =
                    parts[Len(spans)] \o SubSeq(text, cursor[Len(spans)], Len(text))
<1> DEFINE f == CHOOSE built : Builds(built, text, spans)
<1>1. Builds(f, text, spans) BY BuildsExists
<1>2. Spliced(text, spans) = f[Len(spans)].parts
                             \o SubSeq(text, f[Len(spans)].cursor, Len(text))
  BY Zenon DEF Spliced, Builds
<1> HIDE DEF f
<1>3. PICK parts : parts = [n \in 0..Len(spans) |-> f[n].parts] OBVIOUS
<1>4. PICK cursor : cursor = [n \in 0..Len(spans) |-> f[n].cursor] OBVIOUS
<1>5. parts[0] = <<>> /\ cursor[0] = 1
  <2>1. 0 \in 0..Len(spans) OBVIOUS
  <2>2. f[0] = [parts |-> <<>>, cursor |-> 1] BY <1>1, <2>1 DEF Builds
  <2> QED BY <1>3, <1>4, <2>1, <2>2
<1>6. ASSUME NEW n \in 1..Len(spans)
      PROVE  /\ parts[n] = parts[n - 1] \o SubSeq(text, cursor[n - 1], spans[n].from - 1)
                           \o spans[n].new
             /\ cursor[n] = spans[n].to
  <2>1. n \in 0..Len(spans) /\ n - 1 \in 0..Len(spans) /\ n # 0 OBVIOUS
  <2>2. PICK before : before = f[n - 1] OBVIOUS
  <2>3. f[n] = [parts |-> before.parts \o SubSeq(text, before.cursor, spans[n].from - 1)
                          \o spans[n].new,
                cursor |-> spans[n].to]
    BY <1>1, <2>1, <2>2 DEF Builds
  <2>4. before.parts = parts[n - 1] /\ before.cursor = cursor[n - 1]
    BY <1>3, <1>4, <2>1, <2>2
  <2>5. parts[n] = f[n].parts /\ cursor[n] = f[n].cursor BY <1>3, <1>4, <2>1
  <2>6. PICK middle : middle = SubSeq(text, before.cursor, spans[n].from - 1) OBVIOUS
  <2>7. f[n] = [parts |-> before.parts \o middle \o spans[n].new, cursor |-> spans[n].to]
    BY <2>3, <2>6, Zenon
  <2>8. PICK whole : whole = before.parts \o middle \o spans[n].new OBVIOUS
  <2>9. f[n] = [parts |-> whole, cursor |-> spans[n].to] BY <2>7, <2>8, Zenon
  <2>10. f[n].parts = whole /\ f[n].cursor = spans[n].to BY <2>9
  <2>11. middle = SubSeq(text, cursor[n - 1], spans[n].from - 1) BY <2>4, <2>6, Zenon
  <2>12. whole = parts[n - 1] \o SubSeq(text, cursor[n - 1], spans[n].from - 1) \o spans[n].new
    BY <2>4, <2>8, <2>11, Zenon
  <2> QED BY <2>5, <2>10, <2>12, Zenon
<1>7. Len(spans) \in 0..Len(spans) OBVIOUS
<1>8. f[Len(spans)].parts = parts[Len(spans)] /\ f[Len(spans)].cursor = cursor[Len(spans)]
  BY <1>3, <1>4, <1>7
<1>9. Spliced(text, spans) = parts[Len(spans)] \o SubSeq(text, cursor[Len(spans)], Len(text))
  BY <1>2, <1>8, Zenon
<1> QED BY <1>5, <1>6, <1>9, Zenon

-----------------------------------------------------------------------------
(* Sequences put together *)

LEMMA ConcatEmpty ==
    ASSUME NEW q, IsSeq(q)
    PROVE  q \o <<>> = q /\ <<>> \o q = q
<1>1. PICK S : S = {q[i] : i \in DOMAIN q} OBVIOUS
<1>2. q \in Seq(S) BY <1>1 DEF IsSeq
<1> QED BY <1>2

Reordered(a, b, c) == (a \o b) \o c = a \o (b \o c)

LEMMA ConcatAgain ==
    ASSUME NEW a, NEW b, NEW c, IsSeq(a), IsSeq(b), IsSeq(c)
    PROVE  Reordered(a, b, c)
<1>1. PICK S : S = {a[i] : i \in DOMAIN a} \cup {b[i] : i \in DOMAIN b} \cup {c[i] : i \in DOMAIN c}
  OBVIOUS
<1>2. a \in Seq(S) /\ b \in Seq(S) /\ c \in Seq(S)
  <2>1. {a[i] : i \in DOMAIN a} \subseteq S /\ a \in Seq({a[i] : i \in DOMAIN a})
    BY <1>1 DEF IsSeq
  <2>2. {b[i] : i \in DOMAIN b} \subseteq S /\ b \in Seq({b[i] : i \in DOMAIN b})
    BY <1>1 DEF IsSeq
  <2>3. {c[i] : i \in DOMAIN c} \subseteq S /\ c \in Seq({c[i] : i \in DOMAIN c})
    BY <1>1 DEF IsSeq
  <2>4. a \in Seq(S) BY <2>1
  <2>5. b \in Seq(S) BY <2>2
  <2>6. c \in Seq(S) BY <2>3
  <2> QED BY <2>4, <2>5, <2>6
<1>3. PICK l : l = (a \o b) \o c OBVIOUS
<1>4. PICK r : r = a \o (b \o c) OBVIOUS
<1>5. IsSeq(l) /\ IsSeq(r)
  <2>1. l \in Seq(S) /\ r \in Seq(S) BY <1>2, <1>3, <1>4
  <2> QED BY <2>1, OwnElements
<1>6. Len(l) = Len(r) BY <1>2, <1>3, <1>4
<1>7. \A i \in 1..Len(l) : l[i] = r[i] BY <1>2, <1>3, <1>4
<1>8. l = r BY <1>5, <1>6, <1>7, SameElements
<1> QED BY <1>3, <1>4, <1>8 DEF Reordered

LEMMA SubSeqNone ==
    ASSUME NEW q, IsSeq(q), NEW m \in Nat, NEW n \in Nat, 1 <= m, m <= n + 1, n + 1 <= m,
           n <= Len(q)
    PROVE  SubSeq(q, m, n) = <<>>
<1>1. PICK r : r = SubSeq(q, m, n) OBVIOUS
<1>2. IsSeq(r) BY <1>1, SubSeqFacts
<1>3. Len(r) = n - m + 1 BY <1>1, SubSeqFacts
<1>4. Len(r) = 0 BY <1>3
<1> QED BY <1>1, <1>2, <1>4, SeqFacts

LEMMA SubSeqGrows ==
    ASSUME NEW q, IsSeq(q), NEW m \in Nat, NEW n \in Nat, 1 <= m, m <= n + 1, n + 1 <= Len(q)
    PROVE  SubSeq(q, m, n) \o <<q[n + 1]>> = SubSeq(q, m, n + 1)
<1>1. PICK a : a = SubSeq(q, m, n) OBVIOUS
<1>2. PICK b : b = SubSeq(q, m, n + 1) OBVIOUS
<1>3. PICK e : e = <<q[n + 1]>> OBVIOUS
<1>4. PICK c : c = a \o e OBVIOUS
<1>5. n <= Len(q) /\ Len(q) \in Nat BY SeqFacts
<1>6. IsSeq(a) /\ Len(a) = n - m + 1
  <2>1. IsSeq(a) BY <1>1, <1>5, SubSeqFacts
  <2>2. Len(a) = n - m + 1 BY <1>1, <1>5, SubSeqFacts
  <2> QED BY <2>1, <2>2
<1>7. \A i \in 1..(n - m + 1) : a[i] = q[m + i - 1] BY <1>1, <1>5, SubSeqFacts
<1>8. PICK k : k = n + 1 OBVIOUS
<1>9. k \in Nat /\ m <= k + 1 /\ k <= Len(q) BY <1>8
<1>10. b = SubSeq(q, m, k) BY <1>2, <1>8
<1>11. IsSeq(b) /\ Len(b) = k - m + 1
  <2>1. IsSeq(b) BY <1>9, <1>10, SubSeqFacts
  <2>2. Len(b) = k - m + 1 BY <1>9, <1>10, SubSeqFacts
  <2> QED BY <2>1, <2>2
<1>12. \A i \in 1..(k - m + 1) : b[i] = q[m + i - 1] BY <1>9, <1>10, SubSeqFacts
<1>13. IsSeq(e) /\ Len(e) = 1 /\ e[1] = q[k]
  <2>1. e = [i \in 1..1 |-> e[i]] BY <1>3
  <2> QED BY <1>3, <1>8, <2>1, FunctionFacts
<1> DEFINE Is == c = a \o e /\ IsSeq(a) /\ IsSeq(e)
<1>14. Is BY <1>4, <1>6, <1>13
<1>15. IsSeq(c) /\ Len(c) = Len(a) + Len(e)
  <2>1. IsSeq(c) BY <1>14, ConcatFacts
  <2>2. Len(c) = Len(a) + Len(e) BY <1>14, ConcatFacts
  <2> QED BY <2>1, <2>2
<1>16. \A i \in 1..Len(a) : c[i] = a[i] BY <1>14, ConcatFacts
<1>17. c[Len(a) + 1] = e[1]
  <2>1. \A i \in 1..Len(e) : c[Len(a) + i] = e[i] BY <1>14, ConcatFacts
  <2> QED BY <1>13, <2>1
<1>18. Len(c) = Len(b) BY <1>6, <1>8, <1>11, <1>13, <1>15
<1>19. \A i \in 1..Len(c) : c[i] = b[i]
  <2> SUFFICES ASSUME NEW i \in 1..Len(c) PROVE c[i] = b[i] OBVIOUS
  <2>1. i \in 1..(k - m + 1) BY <1>11, <1>18
  <2>2. CASE i \in 1..Len(a) BY <1>6, <1>7, <1>12, <1>16, <2>1, <2>2
  <2>3. CASE i \notin 1..Len(a)
    <3>1. i = Len(a) + 1 /\ m + i - 1 = k BY <1>6, <1>8, <2>1, <2>3
    <3> QED BY <1>12, <1>13, <1>17, <2>1, <3>1
  <2> QED BY <2>2, <2>3
<1>20. c = b BY <1>11, <1>15, <1>18, <1>19, SameElements
<1> QED BY <1>1, <1>2, <1>3, <1>4, <1>20

LEMMA FlattenFromZero ==
    ASSUME NEW qs, IsSeq(qs), \A k \in 1..Len(qs) : IsSeq(qs[k])
    PROVE  \E h : /\ h[0] = <<>>
                  /\ \A i \in 1..Len(qs) : h[i] = h[i - 1] \o qs[i]
                  /\ Flatten(qs) = h[Len(qs)]
<1>1. PICK n : n = Len(qs) OBVIOUS
<1>2. n \in Nat /\ (qs = <<>> <=> n = 0) BY <1>1, SeqFacts
<1>3. CASE n = 0
  <2>1. PICK h : h = [i \in 0..0 |-> <<>>] OBVIOUS
  <2>2. h[0] = <<>> BY <2>1
  <2>3. Flatten(qs) = <<>> BY <1>2, <1>3, FlattenFacts
  <2>4. \A i \in 1..n : h[i] = h[i - 1] \o qs[i] BY <1>3
  <2> QED BY <1>1, <1>3, <2>2, <2>3, <2>4
<1>4. CASE n # 0
  <2>1. PICK f : /\ Flatten(qs) = f[Len(qs)] /\ f[1] = qs[1]
                 /\ \A i \in 2..Len(qs) : f[i] = f[i - 1] \o qs[i]
    BY <1>2, <1>4, FlattenFacts
  <2>2. PICK h : h = [i \in 0..n |-> IF i = 0 THEN <<>> ELSE f[i]] OBVIOUS
  <2>3. h[0] = <<>> BY <1>2, <2>2
  <2>4. ASSUME NEW i \in 1..n PROVE h[i] = h[i - 1] \o qs[i]
    <3>1. h[i] = f[i] BY <1>2, <2>2
    <3>2. CASE i = 1
      <4>1. PICK q : q = qs[1] OBVIOUS
      <4>2. IsSeq(q) BY <1>1, <3>2, <4>1
      <4>3. <<>> \o q = q BY <4>2, ConcatEmpty
      <4>4. h[i - 1] = <<>> /\ qs[i] = q /\ h[i] = q BY <2>1, <2>3, <3>1, <3>2, <4>1
      <4> QED BY <4>3, <4>4
    <3>3. CASE i # 1
      <4>1. i \in 2..Len(qs) /\ i - 1 \in 0..n /\ i - 1 # 0 BY <1>1, <1>2, <3>3
      <4>2. h[i - 1] = f[i - 1] BY <2>2, <4>1
      <4> QED BY <2>1, <3>1, <4>1, <4>2
    <3> QED BY <3>2, <3>3
  <2>5. h[n] = f[n] BY <1>2, <1>4, <2>2
  <2> QED BY <1>1, <2>1, <2>3, <2>4, <2>5
<1> QED BY <1>3, <1>4

-----------------------------------------------------------------------------
(* edit: all edits at once *)

\* Spans from left to right, apart from each other.
Tiles(text, s) ==
    /\ IsSeq(text) /\ IsSeq(s)
    /\ \A k \in 1..Len(s) : /\ s[k].from \in 1..Len(text) /\ s[k].to \in Nat
                            /\ s[k].from < s[k].to /\ s[k].to <= Len(text) + 1
                            /\ IsSeq(s[k].new)
    /\ \A k \in 1..Len(s) : \A l \in 1..Len(s) : k < l => s[k].to <= s[l].from

\* What stands in the new text for the symbol at each place.
Placed(p, text, s) ==
    /\ IsSeq(p) /\ Len(p) = Len(text)
    /\ \A i \in 1..Len(text) :
          /\ \A k \in 1..Len(s) : s[k].from = i => p[i] = s[k].new
          /\ (\E k \in 1..Len(s) : s[k].from < i /\ i < s[k].to) => p[i] = <<>>
          /\ (\A k \in 1..Len(s) : ~(s[k].from <= i /\ i < s[k].to)) => p[i] = <<text[i]>>

\* Behind place i: the parts up to the last span that began, and the text behind it.
Upto(text, s, parts, cursor, whole, i, k) ==
    /\ \A l \in 1..k : s[l].from <= i
    /\ \A l \in (k + 1)..Len(s) : i < s[l].from
    /\ IsSeq(parts[k])
    /\ i < cursor[k] => whole = parts[k]
    /\ cursor[k] <= i => whole = parts[k] \o SubSeq(text, cursor[k], i)

Splices(text, s, parts, cursor) ==
    /\ parts[0] = <<>> /\ cursor[0] = 1
    /\ \A n \in 1..Len(s) : /\ parts[n] = parts[n - 1]
                                          \o SubSeq(text, cursor[n - 1], s[n].from - 1) \o s[n].new
                            /\ cursor[n] = s[n].to

LEMMA CursorFacts ==
    ASSUME NEW text, NEW s, NEW parts, NEW cursor, Tiles(text, s),
           Splices(text, s, parts, cursor), NEW k \in 0..Len(s)
    PROVE  /\ cursor[k] \in 1..(Len(text) + 1)
           /\ k # 0 => cursor[k] = s[k].to
           /\ \A l \in (k + 1)..Len(s) : cursor[k] <= s[l].from
<1>1. Len(s) \in Nat /\ Len(text) \in Nat BY SeqFacts DEF Tiles
<1>2. CASE k = 0
  <2>1. cursor[k] = 1 BY <1>2 DEF Splices
  <2>2. ASSUME NEW l \in (k + 1)..Len(s) PROVE cursor[k] <= s[l].from
    <3>1. l \in 1..Len(s) BY <1>2, <2>2
    <3>2. s[l].from \in 1..Len(text) BY <3>1 DEF Tiles
    <3> QED BY <1>1, <2>1, <3>2
  <2> QED BY <1>1, <1>2, <2>1, <2>2
<1>3. CASE k # 0
  <2>1. k \in 1..Len(s) BY <1>3
  <2>2. cursor[k] = s[k].to BY <2>1 DEF Splices
  <2>3. s[k].from \in 1..Len(text) /\ s[k].to \in Nat
        /\ s[k].from < s[k].to /\ s[k].to <= Len(text) + 1 BY <2>1 DEF Tiles
  <2>4. ASSUME NEW l \in (k + 1)..Len(s) PROVE cursor[k] <= s[l].from
    <3>1. l \in 1..Len(s) /\ k < l BY <2>1
    <3> QED BY <2>1, <2>2, <3>1 DEF Tiles
  <2>5. cursor[k] \in 1..(Len(text) + 1) BY <1>1, <2>2, <2>3
  <2> QED BY <2>2, <2>4, <2>5
<1> QED BY <1>2, <1>3

\* Where the text behind the last span has begun, it is all there.
Continued(text, parts, cursor, whole, i, k) ==
    LET gap == SubSeq(text, cursor[k], i)
    IN  whole = parts[k] \o gap /\ IsSeq(parts[k]) /\ IsSeq(gap) /\ IsSeq(whole)

LEMMA UptoWhole ==
    ASSUME NEW text, NEW s, NEW parts, NEW cursor, NEW whole, Tiles(text, s),
           Splices(text, s, parts, cursor), NEW k \in 0..Len(s), NEW i \in 0..Len(text),
           Upto(text, s, parts, cursor, whole, i, k), cursor[k] <= i + 1
    PROVE  Continued(text, parts, cursor, whole, i, k)
<1>1. PICK c : c = cursor[k] OBVIOUS
<1>2. PICK a : a = parts[k] OBVIOUS
<1>3. PICK b : b = SubSeq(text, c, i) OBVIOUS
<1>4. IsSeq(text) /\ Len(text) \in Nat BY SeqFacts DEF Tiles
<1>5. c \in 1..(Len(text) + 1) BY <1>1, CursorFacts
<1>6. c \in Nat /\ 1 <= c /\ i \in Nat /\ c <= i + 1 /\ i <= Len(text) BY <1>1, <1>4, <1>5
<1>7. IsSeq(b) BY <1>3, <1>4, <1>6, SubSeqFacts
<1>8. IsSeq(a) BY <1>2 DEF Upto
<1>9. whole = a \o b
  <2>1. CASE c <= i
    <3>1. cursor[k] <= i BY <1>1, <2>1
    <3>2. whole = parts[k] \o SubSeq(text, cursor[k], i) BY <3>1 DEF Upto
    <3> QED BY <1>1, <1>2, <1>3, <3>2
  <2>2. CASE ~(c <= i)
    <3>1. i < c /\ c = i + 1 BY <1>6, <2>2
    <3>2. whole = a BY <1>1, <1>2, <3>1 DEF Upto
    <3>3. b = <<>> BY <1>3, <1>4, <1>6, <3>1, SubSeqNone
    <3>4. a \o <<>> = a BY <1>8, ConcatEmpty
    <3> QED BY <3>2, <3>3, <3>4
  <2> QED BY <2>1, <2>2
<1>10. IsSeq(whole) BY <1>7, <1>8, <1>9, ConcatFacts
<1>11. b = SubSeq(text, cursor[k], i) BY <1>1, <1>3
<1> QED BY <1>2, <1>7, <1>8, <1>9, <1>10, <1>11, Zenon DEF Continued

\* A span begins at the next place.
LEMMA UptoBegins ==
    ASSUME NEW text, NEW s, NEW parts, NEW cursor, NEW whole, NEW p, Tiles(text, s),
           Placed(p, text, s), Splices(text, s, parts, cursor), NEW k \in 0..Len(s),
           NEW i \in 0..Len(text), Upto(text, s, parts, cursor, whole, i, k),
           NEW j, j = i + 1, j \in 1..Len(text), k + 1 \in 1..Len(s), s[k + 1].from = j
    PROVE  Upto(text, s, parts, cursor, whole \o p[j], j, k + 1)
<1>1. PICK m : m = k + 1 OBVIOUS
<1>2. m \in 1..Len(s) /\ Len(s) \in Nat /\ Len(text) \in Nat /\ k \in Nat /\ i \in Nat
  BY <1>1, SeqFacts DEF Tiles
<1>3. s[m].from = j BY <1>1
<1>4. IsSeq(s[m].new) /\ s[m].to \in Nat /\ j < s[m].to BY <1>2, <1>3 DEF Tiles
<1>5. p[j] = s[m].new BY <1>2, <1>3 DEF Placed
<1>6. cursor[k] <= j
  <2>1. \A l \in (k + 1)..Len(s) : cursor[k] <= s[l].from BY CursorFacts
  <2>2. m \in (k + 1)..Len(s) BY <1>1, <1>2
  <2> QED BY <1>3, <2>1, <2>2
<1>7. cursor[k] <= i + 1 BY <1>6
<1>8. PICK b : b = SubSeq(text, cursor[k], i) OBVIOUS
<1>9. whole = parts[k] \o b /\ IsSeq(whole)
  <2>1. Continued(text, parts, cursor, whole, i, k) BY <1>7, UptoWhole
  <2> QED BY <1>8, <2>1, Zenon DEF Continued
<1>10. IsSeq(whole) BY <1>9
<1>11. parts[m] = whole \o s[m].new
  <2>1. m - 1 = k /\ s[m].from - 1 = i BY <1>1, <1>2, <1>3
  <2>2. parts[m] = parts[m - 1] \o SubSeq(text, cursor[m - 1], s[m].from - 1) \o s[m].new
    BY <1>2 DEF Splices
  <2>3. parts[m] = parts[k] \o SubSeq(text, cursor[k], i) \o s[m].new BY <2>1, <2>2
  <2> QED BY <1>8, <1>9, <2>3
<1>12. cursor[m] = s[m].to BY <1>2 DEF Splices
<1>13. IsSeq(parts[m])
  <2>1. PICK a : a = parts[m] OBVIOUS
  <2>2. PICK e : e = s[m].new OBVIOUS
  <2>3. a = whole \o e /\ IsSeq(e) BY <1>4, <1>11, <2>1, <2>2
  <2>4. IsSeq(a) BY <1>10, <2>3, ConcatFacts
  <2> QED BY <2>1, <2>4
<1>14. \A l \in 1..m : s[l].from <= j
  <2> SUFFICES ASSUME NEW l \in 1..m PROVE s[l].from <= j OBVIOUS
  <2>1. CASE l = m BY <1>2, <1>3, <2>1
  <2>2. CASE l # m
    <3>1. l \in 1..k /\ l \in 1..Len(s) BY <1>1, <1>2, <2>2
    <3>2. s[l].from <= i BY <3>1 DEF Upto
    <3>3. s[l].from \in 1..Len(text) BY <3>1 DEF Tiles
    <3> QED BY <1>2, <3>2, <3>3
  <2> QED BY <2>1, <2>2
<1>15. \A l \in (m + 1)..Len(s) : j < s[l].from
  <2> SUFFICES ASSUME NEW l \in (m + 1)..Len(s) PROVE j < s[l].from OBVIOUS
  <2>1. l \in 1..Len(s) /\ m < l BY <1>2
  <2>2. s[m].to <= s[l].from BY <1>2, <2>1 DEF Tiles
  <2>3. s[l].from \in 1..Len(text) BY <2>1 DEF Tiles
  <2> QED BY <1>2, <1>4, <2>2, <2>3
<1>16. PICK now : now = whole \o p[j] OBVIOUS
<1>17. now = parts[m] BY <1>5, <1>11, <1>16
<1>18. ~(cursor[m] <= j) BY <1>2, <1>4, <1>12
<1>19. Upto(text, s, parts, cursor, now, j, m) BY <1>13, <1>14, <1>15, <1>17, <1>18 DEF Upto
<1> QED BY <1>1, <1>16, <1>19

\* No span begins there: the symbol goes when it is inside one, and else it stays.
LEMMA UptoGoesOn ==
    ASSUME NEW text, NEW s, NEW parts, NEW cursor, NEW whole, NEW p, Tiles(text, s),
           Placed(p, text, s), Splices(text, s, parts, cursor), NEW k \in 0..Len(s),
           NEW i \in 0..Len(text), Upto(text, s, parts, cursor, whole, i, k),
           NEW j, j = i + 1, j \in 1..Len(text), ~(k + 1 \in 1..Len(s) /\ s[k + 1].from = j)
    PROVE  Upto(text, s, parts, cursor, whole \o p[j], j, k)
<1>1. /\ Len(s) \in Nat /\ Len(text) \in Nat /\ k \in Nat /\ k <= Len(s) /\ i \in Nat /\ j \in Nat
      /\ IsSeq(text)
  BY SeqFacts DEF Tiles
<1>2. PICK c : c = cursor[k] OBVIOUS
<1>3. c \in 1..(Len(text) + 1) /\ (k # 0 => c = s[k].to) BY <1>2, CursorFacts
<1>4. ASSUME NEW l \in 1..Len(s)
      PROVE  s[l].from \in 1..Len(text) /\ s[l].to \in Nat /\ s[l].from < s[l].to
  BY DEF Tiles
<1>5. ASSUME NEW l \in 1..k PROVE s[l].from <= i /\ l \in 1..Len(s)
  <2>1. l \in 1..Len(s) BY <1>1
  <2> QED BY <2>1 DEF Upto
<1>6. ASSUME NEW l \in (k + 1)..Len(s) PROVE j < s[l].from
  <2>1. l \in 1..Len(s) /\ k + 1 \in 1..Len(s) /\ k + 1 \in (k + 1)..Len(s) BY <1>1
  <2>2. i < s[k + 1].from /\ s[k + 1].from # j BY <2>1 DEF Upto
  <2>3. s[k + 1].from \in 1..Len(text) /\ s[k + 1].to \in Nat /\ s[k + 1].from < s[k + 1].to
    BY <1>4, <2>1
  <2>4. j < s[k + 1].from BY <1>1, <2>2, <2>3
  <2>5. CASE l = k + 1 BY <2>4, <2>5
  <2>6. CASE l # k + 1
    <3>1. k + 1 < l BY <1>1, <2>6
    <3>2. s[k + 1].to <= s[l].from BY <2>1, <3>1 DEF Tiles
    <3>3. s[l].from \in 1..Len(text) BY <1>4, <2>1
    <3> QED BY <1>1, <2>3, <2>4, <3>2, <3>3
  <2> QED BY <2>5, <2>6
<1>7. \A l \in 1..k : s[l].from <= j
  <2> SUFFICES ASSUME NEW l \in 1..k PROVE s[l].from <= j OBVIOUS
  <2>1. s[l].from <= i /\ s[l].from \in 1..Len(text) BY <1>4, <1>5
  <2> QED BY <1>1, <2>1
<1>8. PICK a : a = parts[k] OBVIOUS
<1>9. IsSeq(a) BY <1>8 DEF Upto
<1>10. PICK now : now = whole \o p[j] OBVIOUS
<1>11. CASE j < c
  <2>1. k # 0 BY <1>1, <1>2, <1>11 DEF Splices
  <2>2. k \in 1..k /\ k \in 1..Len(s) BY <1>1, <2>1
  <2>3. s[k].from <= i /\ s[k].from \in 1..Len(text) /\ c = s[k].to BY <1>3, <1>4, <1>5, <2>1, <2>2
  <2>4. s[k].from < j /\ j < s[k].to BY <1>1, <1>11, <2>3
  <2>5. p[j] = <<>> BY <2>2, <2>4 DEF Placed
  <2>6. i < c BY <1>1, <1>3, <1>11
  <2>7. whole = a BY <1>2, <1>8, <2>6 DEF Upto
  <2>8. a \o <<>> = a BY <1>9, ConcatEmpty
  <2>9. now = a BY <1>10, <2>5, <2>7, <2>8
  <2>10. ~(c <= j) BY <1>1, <1>3, <1>11
  <2>11. Upto(text, s, parts, cursor, now, j, k)
    BY <1>2, <1>6, <1>7, <1>8, <1>9, <2>9, <2>10 DEF Upto
  <2> QED BY <1>10, <2>11
<1>12. CASE ~(j < c)
  <2>1. c <= i + 1 BY <1>1, <1>3, <1>12
  <2>2. PICK b : b = SubSeq(text, c, i) OBVIOUS
  <2>3. Continued(text, parts, cursor, whole, i, k)
    <3>1. cursor[k] <= i + 1 BY <1>2, <2>1
    <3> QED BY <3>1, UptoWhole
  <2>4. b = SubSeq(text, cursor[k], i) BY <1>2, <2>2
  <2>5. whole = a \o b BY <1>8, <2>3, <2>4, Zenon DEF Continued
  <2>6. IsSeq(b) BY <2>3, <2>4, Zenon DEF Continued
  <2>7. \A l \in 1..Len(s) : ~(s[l].from <= j /\ j < s[l].to)
    <3> SUFFICES ASSUME NEW l \in 1..Len(s) PROVE ~(s[l].from <= j /\ j < s[l].to) OBVIOUS
    <3>1. s[l].from \in 1..Len(text) /\ s[l].to \in Nat BY <1>4
    <3>2. CASE l > k
      <4>1. l \in (k + 1)..Len(s) BY <1>1, <3>2
      <4>2. j < s[l].from BY <1>6, <4>1
      <4> QED BY <1>1, <3>1, <4>2
    <3>3. CASE l = k
      <4>1. s[l].to = c BY <1>3, <3>3
      <4> QED BY <1>1, <1>3, <1>12, <3>1, <4>1
    <3>4. CASE l < k
      <4>1. k \in 1..Len(s) /\ k \in 1..k BY <1>1, <3>4
      <4>2. s[l].to <= s[k].from BY <3>4, <4>1 DEF Tiles
      <4>3. s[k].from <= i /\ s[k].from \in 1..Len(text) BY <1>4, <1>5, <4>1
      <4> QED BY <1>1, <3>1, <4>2, <4>3
    <3> QED BY <1>1, <3>2, <3>3, <3>4
  <2>8. p[j] = <<text[j]>> BY <2>7 DEF Placed
  <2>9. PICK e : e = <<text[j]>> OBVIOUS
  <2>10. IsSeq(e)
    <3>1. e = [n \in 1..1 |-> e[n]] BY <2>9
    <3> QED BY <3>1, FunctionFacts
  <2>11. b \o e = SubSeq(text, c, j)
    <3>1. c \in Nat /\ 1 <= c /\ i + 1 <= Len(text) BY <1>1, <1>3
    <3>2. SubSeq(text, c, i) \o <<text[i + 1]>> = SubSeq(text, c, i + 1)
      BY <1>1, <2>1, <3>1, SubSeqGrows
    <3> QED BY <2>2, <2>9, <3>2
  <2>12. PICK be : be = b \o e OBVIOUS
  <2>13. Reordered(a, b, e) BY <1>9, <2>6, <2>10, ConcatAgain
  <2>14. whole \o e = a \o be BY <2>5, <2>12, <2>13, Zenon DEF Reordered
  <2>15. now = a \o SubSeq(text, c, j) BY <1>10, <2>8, <2>9, <2>11, <2>12, <2>14
  <2>16. Upto(text, s, parts, cursor, now, j, k)
    BY <1>2, <1>6, <1>7, <1>8, <1>9, <1>12, <2>15 DEF Upto
  <2> QED BY <1>10, <2>16
<1> QED BY <1>11, <1>12

LEMMA SplicedPlaced ==
    ASSUME NEW text, NEW s, NEW p, Tiles(text, s), Placed(p, text, s),
           \A i \in 1..Len(p) : IsSeq(p[i])
    PROVE  Spliced(text, s) = Flatten(p) /\ IsSeq(Flatten(p))
<1>1. /\ Len(s) \in Nat /\ Len(text) \in Nat /\ IsSeq(text) /\ IsSeq(p) /\ Len(p) = Len(text)
  BY SeqFacts DEF Tiles, Placed
<1>2. PICK parts, cursor :
         /\ Splices(text, s, parts, cursor)
         /\ Spliced(text, s) = parts[Len(s)] \o SubSeq(text, cursor[Len(s)], Len(text))
  <2>1. \E parts, cursor :
           /\ parts[0] = <<>> /\ cursor[0] = 1
           /\ \A n \in 1..Len(s) :
                 /\ parts[n] = parts[n - 1] \o SubSeq(text, cursor[n - 1], s[n].from - 1)
                               \o s[n].new
                 /\ cursor[n] = s[n].to
           /\ Spliced(text, s) = parts[Len(s)] \o SubSeq(text, cursor[Len(s)], Len(text))
    BY <1>1, SplicedFacts
  <2> QED BY <2>1, Zenon DEF Splices
<1>3. PICK h : /\ h[0] = <<>>
               /\ \A i \in 1..Len(p) : h[i] = h[i - 1] \o p[i]
               /\ Flatten(p) = h[Len(p)]
  BY <1>1, FlattenFromZero
<1> DEFINE Good(i) == \E k \in 0..Len(s) : Upto(text, s, parts, cursor, h[i], i, k)
           S == {i \in Nat : i <= Len(text) => Good(i)}
<1>4. 0 \in S
  <2>1. 0 \in 0..Len(s) BY <1>1
  <2>2. parts[0] = <<>> /\ cursor[0] = 1 BY <1>2 DEF Splices
  <2>3. IsSeq(parts[0]) BY <2>2, EmptyCalls
  <2>4. \A l \in (0 + 1)..Len(s) : 0 < s[l].from
    <3> SUFFICES ASSUME NEW l \in (0 + 1)..Len(s) PROVE 0 < s[l].from OBVIOUS
    <3>1. l \in 1..Len(s) OBVIOUS
    <3>2. s[l].from \in 1..Len(text) BY <3>1 DEF Tiles
    <3> QED BY <1>1, <3>2
  <2>5. \A l \in 1..0 : s[l].from <= 0 OBVIOUS
  <2>6. Upto(text, s, parts, cursor, h[0], 0, 0) BY <1>3, <2>2, <2>3, <2>4, <2>5 DEF Upto
  <2> QED BY <2>1, <2>6
<1>5. ASSUME NEW i \in Nat, i \in S PROVE i + 1 \in S
  <2> SUFFICES ASSUME i + 1 <= Len(text) PROVE Good(i + 1) OBVIOUS
  <2>1. PICK j : j = i + 1 OBVIOUS
  <2>2. j \in 1..Len(text) /\ i \in 0..Len(text) /\ j - 1 = i /\ i <= Len(text) BY <1>1, <2>1
  <2>3. PICK whole : whole = h[i] OBVIOUS
  <2>4. h[j] = whole \o p[j] BY <1>1, <1>3, <2>2, <2>3
  <2>5. PICK k \in 0..Len(s) : Upto(text, s, parts, cursor, whole, i, k) BY <1>5, <2>2, <2>3
  <2>6. CASE k + 1 \in 1..Len(s) /\ s[k + 1].from = j
    <3>1. Upto(text, s, parts, cursor, whole \o p[j], j, k + 1)
      BY <1>2, <2>1, <2>2, <2>5, <2>6, UptoBegins
    <3>2. k + 1 \in 0..Len(s) BY <1>1, <2>6
    <3>3. Upto(text, s, parts, cursor, h[j], j, k + 1) BY <2>4, <3>1
    <3> QED BY <2>1, <3>2, <3>3
  <2>7. CASE ~(k + 1 \in 1..Len(s) /\ s[k + 1].from = j)
    <3>1. Upto(text, s, parts, cursor, whole \o p[j], j, k)
      BY <1>2, <2>1, <2>2, <2>5, <2>7, UptoGoesOn
    <3>2. Upto(text, s, parts, cursor, h[j], j, k) BY <2>4, <3>1
    <3> QED BY <2>1, <3>2
  <2> QED BY <2>6, <2>7
<1> HIDE DEF S
<1>6. Len(text) \in S BY <1>1, <1>4, <1>5, Induction
<1>7. PICK k \in 0..Len(s) : Upto(text, s, parts, cursor, h[Len(text)], Len(text), k)
  BY <1>1, <1>6 DEF S
<1>8. k = Len(s)
  <2> SUFFICES ASSUME k # Len(s) PROVE FALSE OBVIOUS
  <2>1. k + 1 \in (k + 1)..Len(s) /\ k + 1 \in 1..Len(s) BY <1>1
  <2>2. Len(text) < s[k + 1].from BY <1>7, <2>1 DEF Upto
  <2>3. s[k + 1].from \in 1..Len(text) BY <2>1 DEF Tiles
  <2> QED BY <1>1, <2>2, <2>3
<1>9. PICK whole : whole = h[Len(text)] OBVIOUS
<1>10. PICK n : n = Len(text) OBVIOUS
<1>11. Upto(text, s, parts, cursor, whole, n, k) /\ n \in 0..Len(text) BY <1>1, <1>7, <1>9, <1>10
<1>12. cursor[k] <= n + 1
  <2>1. cursor[k] \in 1..(Len(text) + 1) BY <1>2, CursorFacts
  <2> QED BY <1>1, <1>10, <2>1
<1>13. whole = parts[k] \o SubSeq(text, cursor[k], n) /\ IsSeq(whole)
  <2>1. Continued(text, parts, cursor, whole, n, k) BY <1>2, <1>11, <1>12, UptoWhole
  <2> QED BY <2>1, Zenon DEF Continued
<1> QED BY <1>1, <1>2, <1>3, <1>8, <1>9, <1>10, <1>13

LEMMA TilesSorted ==
    ASSUME NEW text, NEW edits, Accepts(text, edits), NEW spans, spans = Spans(text, edits),
           NEW s, s = LeftToRight(text, spans)
    PROVE  Tiles(text, s)
<1>1. Sorts(s, spans, Len(edits)) BY SortedFacts
<1>2. IsSeq(s) BY <1>1 DEF Sorts
<1>3. \A k \in 1..Len(s) : \E n \in 1..Len(edits) : s[k] = spans[n] BY <1>1 DEF Sorts
<1>4. \A k \in 1..Len(s) : \A l \in 1..Len(s) : k < l => s[k].from < s[l].from
  BY <1>1 DEF Sorts
<1>5. IsSeq(text) BY DEF Accepts
<1>6. ASSUME NEW k \in 1..Len(s)
      PROVE  /\ s[k].from \in 1..Len(text) /\ s[k].to \in Nat
             /\ s[k].from < s[k].to /\ s[k].to <= Len(text) + 1
             /\ IsSeq(s[k].new)
  <2>1. PICK n \in 1..Len(edits) : s[k] = spans[n] BY <1>3
  <2>2. PICK span : span = spans[n] OBVIOUS
  <2>3. span.from \in 1..Len(text) BY <2>2, SpanFacts
  <2>4. span.to \in Nat BY <2>2, SpanFacts
  <2>5. span.from < span.to BY <2>2, SpanFacts
  <2>6. span.to <= Len(text) + 1 BY <2>2, SpanFacts
  <2>7. IsSeq(span.new) BY <2>2, SpanFacts
  <2> QED BY <2>1, <2>2, <2>3, <2>4, <2>5, <2>6, <2>7
<1>7. ASSUME NEW k \in 1..Len(s), NEW l \in 1..Len(s), k < l PROVE s[k].to <= s[l].from
  <2>1. PICK n \in 1..Len(edits) : s[k] = spans[n] BY <1>3
  <2>2. PICK m \in 1..Len(edits) : s[l] = spans[m] BY <1>3
  <2>3. spans[n].from < spans[m].from BY <1>4, <1>7, <2>1, <2>2
  <2>4. spans[n].from \in 1..Len(text) /\ Len(text) \in Nat BY <1>5, <1>6, <2>1, SeqFacts
  <2>5. n # m BY <2>3, <2>4
  <2>6. spans[n].to <= spans[m].from BY <2>3, <2>5, SpansApart
  <2> QED BY <2>1, <2>2, <2>6
<1> QED BY <1>2, <1>5, <1>6, <1>7 DEF Tiles

\* The parts of Simultaneous.
BeginsAt(text, edits, i) == {n \in DOMAIN edits : i \in Matches(edits[n].old, text)}

Covered(text, edits, i) ==
    \E n \in DOMAIN edits : \E j \in Matches(edits[n].old, text) :
        i \in j..(j + Len(edits[n].old) - 1)

NewAt(text, edits, i) == IF BeginsAt(text, edits, i) = {} THEN <<>>
                         ELSE edits[CHOOSE n \in BeginsAt(text, edits, i) : TRUE].new

PieceAt(text, edits, i) ==
    NewAt(text, edits, i) \o IF Covered(text, edits, i) THEN <<>> ELSE <<text[i]>>

LEMMA SimultaneousPieces ==
    ASSUME NEW text, NEW edits
    PROVE  Simultaneous(text, edits) = Flatten([i \in DOMAIN text |-> PieceAt(text, edits, i)])
BY Zenon DEF Simultaneous, Flatten, PieceAt, NewAt, Covered, BeginsAt

LEMMA EditsBegin ==
    ASSUME NEW text, NEW edits, Accepts(text, edits), NEW spans, spans = Spans(text, edits),
           NEW i
    PROVE  /\ \A n \in 1..Len(edits) : spans[n].from = i => BeginsAt(text, edits, i) = {n}
           /\ (\A n \in 1..Len(edits) : spans[n].from # i) => BeginsAt(text, edits, i) = {}
           /\ i \in Nat =>
                (Covered(text, edits, i) <=>
                    \E n \in 1..Len(edits) : spans[n].from <= i /\ i < spans[n].to)
<1>1. DOMAIN edits = 1..Len(edits) BY AcceptsFacts
<1>2. ASSUME NEW n \in 1..Len(edits)
      PROVE  /\ Matches(edits[n].old, text) = {spans[n].from}
             /\ spans[n].from \in Nat /\ spans[n].to \in Nat /\ Len(edits[n].old) \in Nat
             /\ spans[n].to = spans[n].from + Len(edits[n].old)
  <2>1. PICK span : span = spans[n] OBVIOUS
  <2>2. Alone(edits[n].old, text, span.from) BY <2>1, SpanFacts
  <2>3. span.from \in 1..Len(text) BY <2>1, SpanFacts
  <2>4. span.to \in Nat BY <2>1, SpanFacts
  <2>5. span.to = span.from + Len(edits[n].old) BY <2>1, SpanFacts
  <2>6. Len(edits[n].old) \in Nat BY <2>1, SpanFacts
  <2>7. Len(text) \in Nat BY AcceptsFacts
  <2> QED BY <2>1, <2>2, <2>3, <2>4, <2>5, <2>6, <2>7 DEF Alone
<1>3. BeginsAt(text, edits, i) = {n \in 1..Len(edits) : spans[n].from = i}
  <2>1. \A n \in 1..Len(edits) : i \in Matches(edits[n].old, text) <=> spans[n].from = i
    BY <1>2
  <2> QED BY <1>1, <2>1 DEF BeginsAt
<1>4. ASSUME NEW n \in 1..Len(edits), spans[n].from = i PROVE BeginsAt(text, edits, i) = {n}
  <2>1. \A m \in 1..Len(edits) : spans[m].from = i => m = n
    <3> SUFFICES ASSUME NEW m \in 1..Len(edits), spans[m].from = i, m # n PROVE FALSE OBVIOUS
    <3>1. spans[n].from # spans[m].from BY SpansApart
    <3> QED BY <1>4, <3>1
  <2> QED BY <1>3, <1>4, <2>1
<1>5. (\A n \in 1..Len(edits) : spans[n].from # i) => BeginsAt(text, edits, i) = {}
  BY <1>3
<1>6. ASSUME i \in Nat
      PROVE  Covered(text, edits, i) <=>
                    \E n \in 1..Len(edits) : spans[n].from <= i /\ i < spans[n].to
  <2>1. ASSUME NEW n \in 1..Len(edits)
        PROVE  (\E j \in Matches(edits[n].old, text) : i \in j..(j + Len(edits[n].old) - 1))
               <=> (spans[n].from <= i /\ i < spans[n].to)
    <3>1. PICK from : from = spans[n].from OBVIOUS
    <3>2. PICK size : size = Len(edits[n].old) OBVIOUS
    <3>3. from \in Nat /\ size \in Nat /\ spans[n].to = from + size
          /\ Matches(edits[n].old, text) = {from}
      BY <1>2, <3>1, <3>2
    <3>4. i \in from..(from + size - 1) <=> (from <= i /\ i < from + size) BY <1>6, <3>3
    <3> QED BY <3>1, <3>2, <3>3, <3>4
  <2> QED BY <1>1, <2>1, Zenon DEF Covered
<1> QED BY <1>4, <1>5, <1>6

LEMMA PiecesPlaced ==
    ASSUME NEW text, NEW edits, Accepts(text, edits), NEW spans, spans = Spans(text, edits),
           NEW s, s = LeftToRight(text, spans),
           NEW p, p = [i \in DOMAIN text |-> PieceAt(text, edits, i)]
    PROVE  Placed(p, text, s) /\ \A i \in 1..Len(p) : IsSeq(p[i])
<1>1. /\ Len(text) \in Nat /\ DOMAIN text = 1..Len(text) /\ Len(edits) \in Nat
  BY AcceptsFacts
<1>2. IsSeq(p) /\ Len(p) = Len(text)
  <2>1. PICK n : n = Len(text) OBVIOUS
  <2>2. p = [i \in 1..n |-> p[i]] BY <1>1, <2>1
  <2>3. n \in Nat BY <1>1, <2>1
  <2> QED BY <2>1, <2>2, <2>3, FunctionFacts
<1>3. Sorts(s, spans, Len(edits)) BY SortedFacts
<1>4. \A k \in 1..Len(s) : \E n \in 1..Len(edits) : s[k] = spans[n] BY <1>3 DEF Sorts
<1>5. \A n \in 1..Len(edits) : \E k \in 1..Len(s) : s[k] = spans[n] BY <1>3 DEF Sorts
<1>6. ASSUME NEW i \in 1..Len(text)
      PROVE  /\ \A n \in 1..Len(edits) : spans[n].from = i => BeginsAt(text, edits, i) = {n}
             /\ (\A n \in 1..Len(edits) : spans[n].from # i) => BeginsAt(text, edits, i) = {}
             /\ Covered(text, edits, i) <=>
                    \E n \in 1..Len(edits) : spans[n].from <= i /\ i < spans[n].to
  <2>1. \A n \in 1..Len(edits) : spans[n].from = i => BeginsAt(text, edits, i) = {n}
    BY EditsBegin
  <2>2. (\A n \in 1..Len(edits) : spans[n].from # i) => BeginsAt(text, edits, i) = {}
    BY EditsBegin
  <2>3. i \in Nat BY <1>1
  <2>4. Covered(text, edits, i) <=>
            \E n \in 1..Len(edits) : spans[n].from <= i /\ i < spans[n].to
    BY <2>3, EditsBegin
  <2> QED BY <2>1, <2>2, <2>4
<1>7. ASSUME NEW n \in 1..Len(edits)
      PROVE  /\ spans[n].from \in 1..Len(text) /\ spans[n].to \in Nat
             /\ spans[n].from < spans[n].to
             /\ spans[n].new = edits[n].new /\ IsSeq(edits[n].new)
  <2>1. PICK span : span = spans[n] OBVIOUS
  <2>2. span.from \in 1..Len(text) BY <2>1, SpanFacts
  <2>3. span.to \in Nat BY <2>1, SpanFacts
  <2>4. span.from < span.to BY <2>1, SpanFacts
  <2>5. span.new = edits[n].new BY <2>1, SpanFacts
  <2>6. IsSeq(span.new) BY <2>1, SpanFacts
  <2> QED BY <2>1, <2>2, <2>3, <2>4, <2>5, <2>6
<1>8. ASSUME NEW i \in 1..Len(text), NEW n \in 1..Len(edits), spans[n].from = i
      PROVE  p[i] = spans[n].new /\ IsSeq(p[i])
  <2>1. PICK new : new = edits[n].new OBVIOUS
  <2>2. BeginsAt(text, edits, i) = {n} BY <1>6, <1>8
  <2>3. NewAt(text, edits, i) = new BY <2>1, <2>2 DEF NewAt
  <2>4. spans[n].from <= i /\ i < spans[n].to BY <1>1, <1>7, <1>8
  <2>5. Covered(text, edits, i) BY <1>6, <2>4
  <2>6. p[i] = new \o <<>> BY <1>1, <2>3, <2>5, Zenon DEF PieceAt
  <2>7. IsSeq(new) /\ spans[n].new = new BY <1>7, <2>1
  <2>8. new \o <<>> = new BY <2>7, ConcatEmpty
  <2> QED BY <2>6, <2>7, <2>8
<1>9. ASSUME NEW i \in 1..Len(text), NEW n \in 1..Len(edits),
             spans[n].from < i, i < spans[n].to
      PROVE  p[i] = <<>>
  <2>1. \A m \in 1..Len(edits) : spans[m].from # i
    <3> SUFFICES ASSUME NEW m \in 1..Len(edits), spans[m].from = i PROVE FALSE OBVIOUS
    <3>1. spans[n].from < spans[m].from BY <1>9
    <3>2. n # m BY <1>1, <1>7, <3>1
    <3>3. spans[n].to <= spans[m].from BY <3>1, <3>2, SpansApart
    <3> QED BY <1>1, <1>7, <1>9, <3>3
  <2>2. BeginsAt(text, edits, i) = {} BY <1>6, <2>1
  <2>3. NewAt(text, edits, i) = <<>> BY <2>2 DEF NewAt
  <2>4. spans[n].from <= i /\ i < spans[n].to BY <1>1, <1>7, <1>9
  <2>5. Covered(text, edits, i) BY <1>6, <2>4
  <2>6. p[i] = <<>> \o <<>> BY <1>1, <2>3, <2>5, Zenon DEF PieceAt
  <2>7. <<>> \o <<>> = <<>> BY ConcatEmpty, EmptyCalls
  <2> QED BY <2>6, <2>7
<1>10. ASSUME NEW i \in 1..Len(text),
             \A n \in 1..Len(edits) : ~(spans[n].from <= i /\ i < spans[n].to)
      PROVE  p[i] = <<text[i]>>
  <2>1. \A n \in 1..Len(edits) : spans[n].from # i
    <3> SUFFICES ASSUME NEW n \in 1..Len(edits), spans[n].from = i PROVE FALSE OBVIOUS
    <3>1. spans[n].from <= i /\ i < spans[n].to BY <1>1, <1>7
    <3> QED BY <1>10, <3>1
  <2>2. BeginsAt(text, edits, i) = {} BY <1>6, <2>1
  <2>3. NewAt(text, edits, i) = <<>> BY <2>2 DEF NewAt
  <2>4. ~Covered(text, edits, i) BY <1>6, <1>10
  <2>5. PICK e : e = <<text[i]>> OBVIOUS
  <2>6. p[i] = <<>> \o e BY <1>1, <2>3, <2>4, <2>5, Zenon DEF PieceAt
  <2>7. IsSeq(e)
    <3>1. e = [n \in 1..1 |-> e[n]] BY <2>5
    <3> QED BY <3>1, FunctionFacts
  <2>8. <<>> \o e = e BY <2>7, ConcatEmpty
  <2> QED BY <2>5, <2>6, <2>8
<1>11. \A i \in 1..Len(text) : IsSeq(p[i])
  <2> SUFFICES ASSUME NEW i \in 1..Len(text) PROVE IsSeq(p[i]) OBVIOUS
  <2>1. CASE \E n \in 1..Len(edits) : spans[n].from = i
    <3>1. PICK n \in 1..Len(edits) : spans[n].from = i BY <2>1
    <3> QED BY <1>8, <3>1
  <2>2. CASE \E n \in 1..Len(edits) : spans[n].from < i /\ i < spans[n].to
    <3>1. PICK n \in 1..Len(edits) : spans[n].from < i /\ i < spans[n].to BY <2>2
    <3>2. p[i] = <<>> BY <1>9, <3>1
    <3> QED BY <3>2, EmptyCalls
  <2>3. CASE \A n \in 1..Len(edits) : ~(spans[n].from <= i /\ i < spans[n].to)
    <3>1. PICK e : e = <<text[i]>> OBVIOUS
    <3>2. e = [n \in 1..1 |-> e[n]] BY <3>1
    <3>3. IsSeq(e) BY <3>2, FunctionFacts
    <3>4. p[i] = e BY <1>10, <2>3, <3>1
    <3> QED BY <3>3, <3>4
  <2>4. \A n \in 1..Len(edits) : spans[n].from <= i => spans[n].from = i \/ spans[n].from < i
    BY <1>1, <1>7
  <2> QED BY <2>1, <2>2, <2>3, <2>4
<1>12. ASSUME NEW i \in 1..Len(text)
       PROVE  /\ \A k \in 1..Len(s) : s[k].from = i => p[i] = s[k].new
              /\ (\E k \in 1..Len(s) : s[k].from < i /\ i < s[k].to) => p[i] = <<>>
              /\ (\A k \in 1..Len(s) : ~(s[k].from <= i /\ i < s[k].to)) => p[i] = <<text[i]>>
  <2>1. ASSUME NEW k \in 1..Len(s), s[k].from = i PROVE p[i] = s[k].new
    <3>1. PICK n \in 1..Len(edits) : s[k] = spans[n] BY <1>4
    <3> QED BY <1>8, <2>1, <3>1
  <2>2. ASSUME NEW k \in 1..Len(s), s[k].from < i, i < s[k].to PROVE p[i] = <<>>
    <3>1. PICK n \in 1..Len(edits) : s[k] = spans[n] BY <1>4
    <3> QED BY <1>9, <2>2, <3>1
  <2>3. ASSUME \A k \in 1..Len(s) : ~(s[k].from <= i /\ i < s[k].to) PROVE p[i] = <<text[i]>>
    <3>1. \A n \in 1..Len(edits) : ~(spans[n].from <= i /\ i < spans[n].to) BY <1>5, <2>3
    <3> QED BY <1>10, <3>1
  <2> QED BY <2>1, <2>2, <2>3
<1> QED BY <1>2, <1>11, <1>12 DEF Placed

\* edit (filesystem.py) splices its replacements from left to right into the text it read:
\* what it stores is what all edits make of the text at once, in whatever order the model
\* gives them, and it is a text.
THEOREM EditsAtOnce ==
    ASSUME NEW text, NEW edits, Accepts(text, edits)
    PROVE  Replaced(text, edits) = Simultaneous(text, edits) /\ IsSeq(Replaced(text, edits))
<1>1. PICK spans : spans = Spans(text, edits) OBVIOUS
<1>2. PICK s : s = LeftToRight(text, spans) OBVIOUS
<1>3. PICK p : p = [i \in DOMAIN text |-> PieceAt(text, edits, i)] OBVIOUS
<1>4. Tiles(text, s) BY <1>1, <1>2, TilesSorted
<1>5. Placed(p, text, s) BY <1>1, <1>2, <1>3, PiecesPlaced
<1>6. \A i \in 1..Len(p) : IsSeq(p[i]) BY <1>1, <1>2, <1>3, PiecesPlaced
<1>7. Spliced(text, s) = Flatten(p) /\ IsSeq(Flatten(p)) BY <1>4, <1>5, <1>6, SplicedPlaced
<1>8. Replaced(text, edits) = Spliced(text, s) BY <1>1, <1>2 DEF Replaced
<1>9. Simultaneous(text, edits) = Flatten(p) BY <1>3, SimultaneousPieces
<1> QED BY <1>7, <1>8, <1>9

-----------------------------------------------------------------------------
(* read: the pages of a text *)

LEMMA LinesFacts ==
    ASSUME NEW text, IsSeq(text), NEW ends, NEW lines, lines = SplitAt(text, ends)
    PROVE  IsSeq(lines) /\ \A n \in 1..Len(lines) : IsSeq(lines[n])
<1>1. Len(text) \in Nat BY SeqFacts
<1>2. PICK places : places = LineEnds(text, ends) OBVIOUS
<1>3. PICK at : at = Ascending(places, Len(text)) OBVIOUS
<1>4. lines = [n \in DOMAIN at |-> SubSeq(text, IF n = 1 THEN 1 ELSE at[n - 1] + 1, at[n])]
  BY <1>2, <1>3, Zenon DEF SplitAt
<1>5. IsSeq(at) BY <1>1, <1>3, AscendingFacts
<1>6. \A k \in 1..Len(at) : at[k] \in places /\ at[k] \in 1..Len(text)
  BY <1>1, <1>3, AscendingFacts
<1>7. \A k \in 1..Len(at) : \A l \in (k + 1)..Len(at) : at[k] < at[l]
  BY <1>1, <1>3, AscendingFacts
<1>8. PICK size : size = Len(at) OBVIOUS
<1>9. size \in Nat /\ DOMAIN at = 1..size BY <1>5, <1>8, SeqFacts
<1>10. IsSeq(lines) /\ Len(lines) = size
  <2>1. lines = [n \in 1..size |-> lines[n]] BY <1>4, <1>9
  <2> QED BY <1>9, <2>1, FunctionFacts
<1>11. ASSUME NEW n \in 1..Len(lines) PROVE IsSeq(lines[n])
  <2>1. PICK from : from = IF n = 1 THEN 1 ELSE at[n - 1] + 1 OBVIOUS
  <2>2. PICK to : to = at[n] OBVIOUS
  <2>3. n \in 1..size BY <1>10
  <2>4. to \in 1..Len(text) BY <1>6, <1>8, <2>2, <2>3
  <2>5. from \in Nat /\ 1 <= from /\ from <= to
    <3>1. CASE n = 1 BY <1>1, <2>1, <2>4, <3>1
    <3>2. CASE n # 1
      <4>1. n - 1 \in 1..size /\ n \in ((n - 1) + 1)..size BY <1>9, <2>3, <3>2
      <4>2. at[n - 1] < to BY <1>7, <1>8, <2>2, <4>1
      <4>3. at[n - 1] \in 1..Len(text) BY <1>6, <1>8, <4>1
      <4> QED BY <1>1, <2>1, <2>4, <3>2, <4>2, <4>3
    <3> QED BY <3>1, <3>2
  <2>6. PICK line : line = SubSeq(text, from, to) OBVIOUS
  <2>7. lines[n] = line BY <1>4, <1>9, <2>1, <2>2, <2>3, <2>6, Zenon
  <2>8. to \in Nat /\ from <= to + 1 /\ to <= Len(text) BY <1>1, <2>4, <2>5
  <2>9. IsSeq(line) BY <2>5, <2>6, <2>8, SubSeqFacts
  <2> QED BY <2>7, <2>9
<1> QED BY <1>10, <1>11

LEMMA OffsetsUp ==
    ASSUME NEW r, NEW qs, NEW off, Laid(r, qs, off), NEW k \in 0..Len(qs),
           NEW n \in 0..Len(qs), k <= n
    PROVE  off[k + 1] <= off[n + 1] /\ off[k + 1] \in 0..Len(r)
<1>1. PICK size : size = Len(qs) OBVIOUS
<1>2. size \in Nat /\ Len(r) \in Nat /\ off[1] = 0 BY <1>1, LaidFacts
<1>3. ASSUME NEW i \in 1..size
      PROVE  /\ off[i] \in Nat /\ off[i + 1] \in Nat /\ off[i + 1] <= Len(r)
             /\ off[i] <= off[i + 1]
  <2>1. i \in 1..Len(qs) BY <1>1
  <2>2. Len(qs[i]) \in Nat /\ off[i] \in Nat /\ off[i + 1] \in Nat
        /\ off[i + 1] = off[i] + Len(qs[i]) /\ off[i + 1] <= Len(r)
    BY <2>1, LaidFacts
  <2>3. PICK d : d = off[i] OBVIOUS
  <2>4. PICK e : e = Len(qs[i]) OBVIOUS
  <2>5. d <= d + e BY <2>2, <2>3, <2>4
  <2> QED BY <2>2, <2>3, <2>4, <2>5
<1>4. off[k + 1] \in 0..Len(r)
  <2>1. CASE k = 0 BY <1>2, <2>1
  <2>2. CASE k # 0
    <3>1. k \in 1..size BY <1>1, <1>2, <2>2
    <3> QED BY <1>2, <1>3, <3>1
  <2> QED BY <2>1, <2>2
<1>5. off[k + 1] <= off[n + 1]
  <2>1. CASE k = n BY <1>2, <1>4, <2>1
  <2>2. CASE k # n
    <3>1. n \in 1..size BY <1>1, <1>2, <2>2
    <3>2. off[n] <= off[n + 1] /\ off[n] \in Nat /\ off[n + 1] \in Nat BY <1>3, <3>1
    <3>3. CASE k = 0
      <4>1. off[k + 1] = 0 BY <1>2, <3>3
      <4> QED BY <3>2, <4>1
    <3>4. CASE k # 0
      <4>1. k \in 1..Len(qs) /\ n \in 1..Len(qs) /\ k < n BY <1>1, <1>2, <2>2, <3>1, <3>4
      <4>2. off[k + 1] <= off[n] BY <4>1, OffsetsClimb
      <4>3. off[k + 1] \in Nat BY <1>2, <1>4
      <4> QED BY <3>2, <4>2, <4>3
    <3> QED BY <3>3, <3>4
  <2> QED BY <2>1, <2>2
<1> QED BY <1>4, <1>5

\* The first of the parts make the front of the whole.
FrontOf(q, n) == SubSeq(q, 1, n)

LEMMA FrontFacts ==
    ASSUME NEW q, IsSeq(q), NEW n \in Nat, n <= Len(q), NEW r, r = FrontOf(q, n)
    PROVE  /\ IsSeq(r) /\ Len(r) = n
           /\ \A i \in 1..n : r[i] = q[i]
<1>1. 1 \in Nat /\ 1 <= 1 /\ 1 <= n + 1 /\ r = SubSeq(q, 1, n) BY DEF FrontOf
<1>2. IsSeq(r) BY <1>1, SubSeqFacts
<1>3. Len(r) = n - 1 + 1 BY <1>1, SubSeqFacts
<1>4. \A i \in 1..(n - 1 + 1) : r[i] = q[1 + i - 1] BY <1>1, SubSeqFacts
<1>5. \A i \in 1..n : i \in 1..(n - 1 + 1) /\ 1 + i - 1 = i OBVIOUS
<1>6. \A i \in 1..n : r[i] = q[i] BY <1>4, <1>5
<1> QED BY <1>2, <1>3, <1>6

LEMMA FrontAgain ==
    ASSUME NEW q, IsSeq(q), NEW m \in Nat, m <= Len(q), NEW n \in Nat, n <= m
    PROVE  FrontOf(FrontOf(q, m), n) = FrontOf(q, n)
<1>1. PICK a : a = FrontOf(q, m) OBVIOUS
<1>2. PICK b : b = FrontOf(a, n) OBVIOUS
<1>3. PICK c : c = FrontOf(q, n) OBVIOUS
<1>4. Len(q) \in Nat /\ n <= Len(q) BY SeqFacts
<1>5. IsSeq(a) BY <1>1, FrontFacts
<1>6. Len(a) = m BY <1>1, FrontFacts
<1>7. \A i \in 1..m : a[i] = q[i] BY <1>1, FrontFacts
<1>8. n <= Len(a) BY <1>6
<1>9. IsSeq(b) BY <1>2, <1>5, <1>8, FrontFacts
<1>10. Len(b) = n BY <1>2, <1>5, <1>8, FrontFacts
<1>11. \A i \in 1..n : b[i] = a[i] BY <1>2, <1>5, <1>8, FrontFacts
<1>12. IsSeq(c) BY <1>3, <1>4, FrontFacts
<1>13. Len(c) = n BY <1>3, <1>4, FrontFacts
<1>14. \A i \in 1..n : c[i] = q[i] BY <1>3, <1>4, FrontFacts
<1>15. \A i \in 1..n : i \in 1..m OBVIOUS
<1>16. \A i \in 1..n : b[i] = c[i] BY <1>7, <1>11, <1>14, <1>15
<1>17. b = c BY <1>9, <1>10, <1>12, <1>13, <1>16, SameElements
<1> QED BY <1>1, <1>2, <1>3, <1>17

LEMMA FrontWhole == ASSUME NEW q, IsSeq(q) PROVE FrontOf(q, Len(q)) = q
<1>1. PICK n : n = Len(q) OBVIOUS
<1>2. PICK r : r = FrontOf(q, n) OBVIOUS
<1>3. n \in Nat /\ n <= Len(q) BY <1>1, SeqFacts
<1>4. IsSeq(r) BY <1>2, <1>3, FrontFacts
<1>5. Len(r) = n BY <1>2, <1>3, FrontFacts
<1>6. \A i \in 1..n : r[i] = q[i] BY <1>2, <1>3, FrontFacts
<1>7. r = q BY <1>1, <1>4, <1>5, <1>6, SameElements
<1> QED BY <1>1, <1>2, <1>7

LEMMA FrontLaid ==
    ASSUME NEW r, NEW qs, NEW off, Laid(r, qs, off), NEW n \in 0..Len(qs)
    PROVE  Flatten(FrontOf(qs, n)) = FrontOf(r, off[n + 1])
<1>1. PICK d : d = off[n + 1] OBVIOUS
<1>2. PICK front : front = FrontOf(qs, n) OBVIOUS
<1>3. PICK t : t = FrontOf(r, d) OBVIOUS
<1>4. IsSeq(r) /\ IsSeq(qs) /\ off[1] = 0 BY DEF Laid
<1>5. Len(r) \in Nat /\ Len(qs) \in Nat BY <1>4, SeqFacts
<1>6. d \in Nat /\ d <= Len(r)
  <2>1. n <= n BY <1>5
  <2>2. d \in 0..Len(r) BY <1>1, <2>1, OffsetsUp
  <2> QED BY <1>5, <2>2
<1>7. n \in Nat /\ n <= Len(qs) BY <1>5
<1>8. IsSeq(front) BY <1>2, <1>4, <1>7, FrontFacts
<1>9. Len(front) = n BY <1>2, <1>4, <1>7, FrontFacts
<1>10. \A i \in 1..n : front[i] = qs[i] BY <1>2, <1>4, <1>7, FrontFacts
<1>11. IsSeq(t) BY <1>3, <1>4, <1>6, FrontFacts
<1>12. Len(t) = d BY <1>3, <1>4, <1>6, FrontFacts
<1>13. \A i \in 1..d : t[i] = r[i] BY <1>3, <1>4, <1>6, FrontFacts
<1>14. ASSUME NEW k \in 1..n
       PROVE  Within(front[k], t, off[k]) /\ off[k + 1] = off[k] + Len(front[k])
  <2>1. PICK q : q = qs[k] OBVIOUS
  <2>2. PICK e : e = off[k] OBVIOUS
  <2>3. k \in 1..Len(qs) BY <1>5
  <2>4. front[k] = q BY <1>10, <2>1
  <2>5. Within(q, r, e) /\ off[k + 1] = e + Len(q) BY <2>1, <2>2, <2>3 DEF Laid
  <2>6. off[k + 1] <= d
    <3>1. k \in 0..Len(qs) /\ k <= n BY <1>5, <2>3
    <3> QED BY <1>1, <3>1, OffsetsUp
  <2>7. IsSeq(q) /\ e \in Nat /\ \A j \in 1..Len(q) : r[e + j] = q[j] BY <2>5 DEF Within
  <2>8. Len(q) \in Nat BY <2>7, SeqFacts
  <2>9. e + Len(q) <= Len(t) BY <1>12, <2>5, <2>6
  <2>10. \A j \in 1..Len(q) : t[e + j] = q[j]
    <3> SUFFICES ASSUME NEW j \in 1..Len(q) PROVE t[e + j] = q[j] OBVIOUS
    <3>1. PICK l : l = e + j OBVIOUS
    <3>2. l \in 1..d BY <1>6, <1>12, <2>7, <2>8, <2>9, <3>1
    <3>3. t[l] = r[l] BY <1>13, <3>2
    <3>4. r[l] = q[j] BY <2>7, <3>1
    <3> QED BY <3>1, <3>3, <3>4
  <2>11. Within(q, t, e) BY <1>11, <2>7, <2>9, <2>10 DEF Within
  <2> QED BY <2>2, <2>4, <2>5, <2>11
<1>15. Laid(t, front, off)
  <2>1. off[Len(front) + 1] = Len(t) BY <1>1, <1>9, <1>12
  <2> QED BY <1>4, <1>8, <1>9, <1>11, <1>14, <2>1 DEF Laid
<1>16. Flatten(front) = t BY <1>15, LaidFlatten
<1> QED BY <1>1, <1>2, <1>3, <1>16

LEMMA MaxFacts ==
    ASSUME NEW n \in Nat, NEW S \in SUBSET (0..n), 0 \in S, NEW g, g = Max(S)
    PROVE  g \in S /\ \A y \in S : y <= g
<1>1. PICK T : T = {n - x : x \in S} OBVIOUS
<1>2. T \in SUBSET Nat /\ T # {}
  <2>1. ASSUME NEW x \in S PROVE n - x \in Nat
    <3>1. x \in 0..n OBVIOUS
    <3> QED BY <3>1
  <2>2. T \subseteq Nat BY <1>1, <2>1
  <2>3. n - 0 \in T BY <1>1
  <2> QED BY <2>2, <2>3
<1>3. PICK m \in T : \A l \in T : m <= l BY <1>2, LeastNatural
<1>4. PICK x \in S : m = n - x BY <1>1, <1>3
<1>5. ASSUME NEW y \in S PROVE x >= y
  <2>1. n - y \in T BY <1>1
  <2>2. n - x <= n - y BY <1>3, <1>4, <2>1
  <2>3. x \in 0..n /\ y \in 0..n OBVIOUS
  <2> QED BY <2>2, <2>3
<1>6. \E z \in S : \A y \in S : z >= y BY <1>5
<1>7. g = CHOOSE z \in S : \A y \in S : z >= y BY DEF Max
<1>8. g \in S /\ \A y \in S : g >= y BY <1>6, <1>7
<1>9. ASSUME NEW y \in S PROVE y <= g
  <2>1. g >= y /\ g \in 0..n /\ y \in 0..n BY <1>8
  <2> QED BY <2>1
<1> QED BY <1>8, <1>9

\* A page is a front of the text it is to show, all of it unless it says so, and as long
\* as what fits in any case.
Shows(page, whole, fits) ==
    \E m \in 0..Len(whole) : /\ page.text = FrontOf(whole, m)
                             /\ ~page.more => m = Len(whole)
                             /\ fits <= m

LEMMA SmallerFacts ==
    ASSUME NEW a \in Int, NEW b \in Int
    PROVE  /\ Smaller(a, b) \in {a, b} /\ Smaller(a, b) <= a /\ Smaller(a, b) <= b
           /\ \A c \in Int : c <= a /\ c <= b => c <= Smaller(a, b)
BY DEF Smaller

\* How many of the lines fit, and the page that is made of them.
FittingLines(rest, most) ==
    Max({n \in 0..most : Len(Flatten(FrontOf(rest, n))) <= MaxOutput})

PageText(rest, most, whole) ==
    IF whole = most THEN Flatten(FrontOf(rest, whole)) ELSE FrontOf(Flatten(rest), MaxOutput)

Page(rest, whole, shown) ==
    IF whole = Len(rest) THEN [text |-> shown, more |-> FALSE]
    ELSE [text |-> FrontOf(shown, Smaller(Len(shown), MaxOutput - NoticeSize)), more |-> TRUE]

LEMMA PageShows ==
    ASSUME NEW rest, IsSeq(rest), 1 <= Len(rest), \A k \in 1..Len(rest) : IsSeq(rest[k]),
           NEW limit \in Nat \ {0},
           NEW most, most = Smaller(Smaller(limit, MaxReadLines), Len(rest)),
           NEW whole, whole = FittingLines(rest, most),
           NEW shown, shown = PageText(rest, most, whole),
           NEW fits \in Nat, fits <= Len(rest[1]), fits <= MaxOutput - NoticeSize
    PROVE  Shows(Page(rest, whole, shown), Flatten(rest), fits)
<1>1. PICK all : all = Flatten(rest) OBVIOUS
<1>2. PICK off : Laid(all, rest, off) BY <1>1, FlattenLaid
<1>3. PICK size : size = Len(rest) OBVIOUS
<1>4. size \in Nat /\ 1 <= size /\ Len(all) \in Nat /\ IsSeq(all)
  <2>1. size \in Nat BY <1>3, SeqFacts
  <2>2. IsSeq(all) BY <1>2 DEF Laid
  <2>3. Len(all) \in Nat BY <2>2, SeqFacts
  <2> QED BY <1>3, <2>1, <2>2, <2>3
<1>5. most \in Nat /\ 1 <= most /\ most <= size
  <2>1. limit \in Nat /\ 1 <= limit OBVIOUS
  <2>2. MaxReadLines \in Nat /\ 1 <= MaxReadLines BY FileToolsAssumption
  <2> QED BY <1>3, <1>4, <2>1, <2>2 DEF Smaller
<1>6. MaxOutput \in Nat /\ NoticeSize \in Nat /\ NoticeSize < MaxOutput BY FileToolsAssumption
<1>7. ASSUME NEW n \in 0..size
      PROVE  /\ Flatten(FrontOf(rest, n)) = FrontOf(all, off[n + 1])
             /\ off[n + 1] \in Nat /\ off[n + 1] <= Len(all)
             /\ Len(Flatten(FrontOf(rest, n))) = off[n + 1]
  <2>1. PICK d : d = off[n + 1] OBVIOUS
  <2>2. n \in 0..Len(rest) /\ n <= n BY <1>3, <1>4
  <2>3. Flatten(FrontOf(rest, n)) = FrontOf(all, d) BY <1>2, <2>1, <2>2, FrontLaid
  <2>4. d \in 0..Len(all) BY <1>2, <2>1, <2>2, OffsetsUp
  <2>5. PICK q : q = FrontOf(all, d) OBVIOUS
  <2>6. d \in Nat /\ d <= Len(all) BY <1>4, <2>4
  <2>7. Len(q) = d BY <1>4, <2>5, <2>6, FrontFacts
  <2> QED BY <2>1, <2>3, <2>5, <2>6, <2>7
<1>8. PICK S : S = {n \in 0..most : Len(Flatten(FrontOf(rest, n))) <= MaxOutput} OBVIOUS
<1>9. S \in SUBSET (0..most) /\ 0 \in S
  <2>1. 0 \in 0..most /\ 0 \in 0..size BY <1>4, <1>5
  <2>2. Len(Flatten(FrontOf(rest, 0))) = off[1] BY <1>7, <2>1
  <2>3. off[1] = 0 BY <1>2 DEF Laid
  <2> QED BY <1>6, <1>8, <2>1, <2>2, <2>3
<1>10. whole = Max(S) BY <1>8 DEF FittingLines
<1>11. whole \in S /\ \A y \in S : y <= whole BY <1>5, <1>9, <1>10, MaxFacts
<1>12. whole \in 0..most /\ whole \in 0..size BY <1>4, <1>5, <1>9, <1>11
<1>13. PICK k \in Nat : /\ shown = FrontOf(all, k) /\ k <= Len(all) /\ fits <= k
                        /\ whole = size => k = Len(all)
  <2>1. CASE whole = most
    <3>1. shown = FrontOf(all, off[whole + 1]) BY <1>7, <1>12, <2>1 DEF PageText
    <3>2. off[whole + 1] \in Nat /\ off[whole + 1] <= Len(all) BY <1>7, <1>12
    <3>3. off[1 + 1] <= off[whole + 1]
      <4>1. 1 \in 0..Len(rest) /\ whole \in 0..Len(rest) /\ 1 <= whole
        BY <1>3, <1>4, <1>5, <1>12, <2>1
      <4> QED BY <1>2, <4>1, OffsetsUp
    <3>4. off[1 + 1] = Len(rest[1]) /\ Len(rest[1]) \in Nat
      <4>1. 1 \in 1..Len(rest) /\ off[1] = 0 BY <1>2, <1>3, <1>4 DEF Laid
      <4>2. off[1 + 1] = off[1] + Len(rest[1]) /\ Len(rest[1]) \in Nat BY <1>2, <4>1, LaidFacts
      <4> QED BY <4>1, <4>2
    <3>5. whole = size => off[whole + 1] = Len(all) BY <1>2, <1>3 DEF Laid
    <3>6. PICK d : d = off[whole + 1] OBVIOUS
    <3>7. PICK f : f = Len(rest[1]) OBVIOUS
    <3>8. fits <= f /\ f <= d /\ f \in Nat /\ d \in Nat BY <3>2, <3>3, <3>4, <3>6, <3>7
    <3>9. fits <= d BY <3>8
    <3> QED BY <3>1, <3>2, <3>5, <3>6, <3>9
  <2>2. CASE whole # most
    <3>1. shown = FrontOf(all, MaxOutput) BY <1>1, <2>2 DEF PageText
    <3>2. whole + 1 \in 0..most /\ whole + 1 \in 0..size /\ ~(whole + 1 <= whole)
      BY <1>4, <1>5, <1>12, <2>2
    <3>3. whole + 1 \notin S BY <1>11, <3>2
    <3>4. ~(Len(Flatten(FrontOf(rest, whole + 1))) <= MaxOutput) BY <1>8, <3>2, <3>3
    <3>5. PICK d : d = off[(whole + 1) + 1] OBVIOUS
    <3>6. d \in Nat /\ d <= Len(all) /\ Len(Flatten(FrontOf(rest, whole + 1))) = d
      BY <1>7, <3>2, <3>5
    <3>7. MaxOutput <= Len(all) BY <1>4, <1>6, <3>4, <3>6
    <3>8. fits <= MaxOutput BY <1>6
    <3>9. whole # size BY <1>4, <1>5, <1>12, <2>2
    <3> QED BY <1>6, <3>1, <3>7, <3>8, <3>9
  <2> QED BY <2>1, <2>2
<1>14. CASE whole = size
  <2>1. PICK page : page = Page(rest, whole, shown) OBVIOUS
  <2>2. page = [text |-> shown, more |-> FALSE] BY <1>3, <1>14, <2>1 DEF Page
  <2>3. page.text = FrontOf(all, k) /\ k = Len(all) BY <1>13, <1>14, <2>2
  <2>4. k \in 0..Len(all) BY <1>4, <1>13
  <2>5. Shows(page, all, fits) BY <1>13, <2>3, <2>4 DEF Shows
  <2> QED BY <1>1, <2>1, <2>5
<1>15. CASE whole # size
  <2>1. PICK page : page = Page(rest, whole, shown) OBVIOUS
  <2>2. PICK m : m = Smaller(Len(shown), MaxOutput - NoticeSize) OBVIOUS
  <2>3. page = [text |-> FrontOf(shown, m), more |-> TRUE] BY <1>3, <1>15, <2>1, <2>2 DEF Page
  <2>4. page.text = FrontOf(shown, m) /\ page.more BY <2>3
  <2>5. Len(shown) = k BY <1>4, <1>13, FrontFacts
  <2>6. m \in Nat /\ m <= k /\ fits <= m BY <1>6, <1>13, <2>2, <2>5 DEF Smaller
  <2>7. FrontOf(FrontOf(all, k), m) = FrontOf(all, m) BY <1>4, <1>13, <2>6, FrontAgain
  <2>8. page.text = FrontOf(all, m) BY <1>13, <2>4, <2>7
  <2>9. m \in 0..Len(all) BY <1>4, <1>13, <2>6
  <2>10. Shows(page, all, fits) BY <2>4, <2>6, <2>8, <2>9 DEF Shows
  <2> QED BY <1>1, <2>1, <2>10
<1> QED BY <1>14, <1>15

\* The registry cuts the page once more.
LEMMA TruncatedShows ==
    ASSUME NEW page, NEW whole, IsSeq(whole), NEW fits \in Nat, Shows(page, whole, fits),
           fits <= MaxResult - MarkerSize
    PROVE  Shows(Truncated(page), whole, fits)
<1>1. PICK m \in 0..Len(whole) : /\ page.text = FrontOf(whole, m)
                                 /\ ~page.more => m = Len(whole)
                                 /\ fits <= m
  BY DEF Shows
<1>2. Len(whole) \in Nat BY SeqFacts
<1>3. m \in Nat /\ m <= Len(whole) BY <1>1, <1>2
<1>4. Len(FrontOf(whole, m)) = m BY <1>3, FrontFacts
<1>5. PICK size : size = Len(page.text) + (IF page.more THEN NoticeSize ELSE 0) OBVIOUS
<1>6. CASE size <= MaxResult
  BY <1>5, <1>6 DEF Truncated
<1>7. CASE ~(size <= MaxResult)
  <2>1. PICK n : n = Smaller(Len(page.text), MaxResult - MarkerSize) OBVIOUS
  <2>2. PICK cut : cut = Truncated(page) OBVIOUS
  <2>3. cut = [text |-> FrontOf(page.text, n), more |-> TRUE]
    BY <1>5, <1>7, <2>1, <2>2 DEF Truncated, FrontOf
  <2>4. cut.text = FrontOf(FrontOf(whole, m), n) /\ cut.more BY <1>1, <2>3
  <2>5. n \in Nat /\ n <= m /\ fits <= n
    BY <1>1, <1>3, <1>4, <2>1, FileToolsAssumption DEF Smaller
  <2>6. FrontOf(FrontOf(whole, m), n) = FrontOf(whole, n) BY <1>3, <2>5, FrontAgain
  <2>7. n \in 0..Len(whole) BY <1>2, <1>3, <2>5
  <2>8. Shows(cut, whole, fits) BY <2>4, <2>5, <2>6, <2>7 DEF Shows
  <2> QED BY <2>2, <2>8
<1> QED BY <1>6, <1>7

\* Whoever continues behind the last whole line gets to see every line that fits: a page
\* shows what comes first, says so when it does not show all, and moves on.
THEOREM PagesHold ==
    ASSUME NEW text, IsSeq(text), NEW offset \in DOMAIN Lines(text), NEW limit \in Nat \ {0}
    PROVE  PageHolds(text, offset, limit)
<1>1. PICK lines : lines = Lines(text) OBVIOUS
<1>2. IsSeq(lines) /\ \A n \in 1..Len(lines) : IsSeq(lines[n])
  <2>1. lines = SplitAt(text, {Newline, Return}) BY <1>1 DEF Lines
  <2> QED BY <2>1, LinesFacts
<1>3. Len(lines) \in Nat /\ offset \in 1..Len(lines) BY <1>1, <1>2, SeqFacts
<1>4. PICK rest : rest = SubSeq(lines, offset, Len(lines)) OBVIOUS
<1>5. PICK size : size = Len(lines) - offset + 1 OBVIOUS
<1>6. offset \in Nat /\ 1 <= offset /\ offset <= Len(lines) + 1 /\ Len(lines) <= Len(lines)
  BY <1>3
<1>7. IsSeq(rest) BY <1>2, <1>3, <1>4, <1>6, SubSeqFacts
<1>8. Len(rest) = size BY <1>2, <1>3, <1>4, <1>5, <1>6, SubSeqFacts
<1>9. \A i \in 1..size : rest[i] = lines[offset + i - 1]
  BY <1>2, <1>3, <1>4, <1>5, <1>6, SubSeqFacts
<1>10. size \in Nat /\ 1 <= size BY <1>3, <1>5
<1>11. ASSUME NEW i \in 1..Len(rest) PROVE IsSeq(rest[i])
  <2>1. i \in 1..size /\ offset + i - 1 \in 1..Len(lines) BY <1>3, <1>5, <1>8
  <2> QED BY <1>2, <1>9, <2>1
<1>12. rest[1] = lines[offset]
  <2>1. 1 \in 1..size /\ offset + 1 - 1 = offset BY <1>3, <1>10
  <2> QED BY <1>9, <2>1
<1>13. PICK length : length = Len(lines[offset]) OBVIOUS
<1>14. length \in Nat BY <1>2, <1>3, <1>13, SeqFacts
<1>15. PICK room : room = Smaller(MaxOutput - NoticeSize, MaxResult - MarkerSize) OBVIOUS
<1>16. room \in Nat /\ room <= MaxOutput - NoticeSize /\ room <= MaxResult - MarkerSize
  BY <1>15, FileToolsAssumption DEF Smaller
<1>17. PICK fits : fits = IF length <= room THEN length ELSE 0 OBVIOUS
<1>18. /\ fits \in Nat /\ fits <= Len(rest[1]) /\ fits <= MaxOutput - NoticeSize
       /\ fits <= MaxResult - MarkerSize /\ (length <= room => fits = length)
  BY <1>12, <1>13, <1>14, <1>16, <1>17, FileToolsAssumption
<1>19. PICK most : most = Smaller(Smaller(limit, MaxReadLines), Len(rest)) OBVIOUS
<1>20. PICK whole : whole = FittingLines(rest, most) OBVIOUS
<1>21. PICK shown : shown = PageText(rest, most, whole) OBVIOUS
<1>22. PICK page : page = Page(rest, whole, shown) OBVIOUS
<1>23. page = ReadPage(text, offset, limit)
  <2> DEFINE rest0 == SubSeq(Lines(text), offset, Len(Lines(text)))
             most0 == Smaller(Smaller(limit, MaxReadLines), Len(rest0))
             whole0 == FittingLines(rest0, most0)
             shown0 == PageText(rest0, most0, whole0)
  <2>1. ReadPage(text, offset, limit) = Page(rest0, whole0, shown0)
    BY Zenon DEF ReadPage, Page, FittingLines, PageText, FrontOf, Flatten
  <2>2. rest0 = rest BY <1>1, <1>4
  <2> HIDE DEF rest0
  <2>3. most0 = most BY <1>19, <2>2
  <2> HIDE DEF most0
  <2>4. whole0 = whole BY <1>20, <2>2, <2>3
  <2> HIDE DEF whole0
  <2>5. shown0 = shown BY <1>21, <2>2, <2>3, <2>4
  <2> HIDE DEF shown0
  <2> QED BY <1>22, <2>1, <2>2, <2>4, <2>5
<1>24. PICK all : all = Flatten(rest) OBVIOUS
<1>25. Shows(page, all, fits)
  <2>1. 1 <= Len(rest) BY <1>8, <1>10
  <2> QED BY <1>7, <1>11, <1>18, <1>19, <1>20, <1>21, <1>22, <1>24, <2>1, PageShows
<1>26. IsSeq(all)
  <2>1. PICK off : Laid(all, rest, off) BY <1>7, <1>11, <1>24, FlattenLaid
  <2> QED BY <2>1 DEF Laid
<1>27. PICK cut : cut = Truncated(page) OBVIOUS
<1>28. Shows(cut, all, fits) BY <1>18, <1>25, <1>26, <1>27, TruncatedShows
<1>29. PICK m \in 0..Len(all) : /\ cut.text = FrontOf(all, m)
                                /\ ~cut.more => m = Len(all)
                                /\ fits <= m
  BY <1>28 DEF Shows
<1>30. From(lines, offset) = all BY <1>4, <1>24 DEF From, Flatten
<1>31. Len(all) \in Nat /\ m \in Nat /\ m <= Len(all)
  <2>1. Len(all) \in Nat BY <1>26, SeqFacts
  <2> QED BY <2>1
<1>32. Len(cut.text) = m BY <1>26, <1>29, <1>31, FrontFacts
<1>33. IsPrefix(cut.text, all)
  <2>1. PICK front : front = FrontOf(all, m) OBVIOUS
  <2>2. FrontOf(front, m) = FrontOf(all, m)
    <3>1. m <= m BY <1>31
    <3> QED BY <1>26, <1>31, <2>1, <3>1, FrontAgain
  <2>3. SubSeq(cut.text, 1, m) = SubSeq(all, 1, m) BY <1>29, <2>1, <2>2 DEF FrontOf
  <2> QED BY <1>31, <1>32, <2>3 DEF IsPrefix
<1>34. ~cut.more => cut.text = all BY <1>26, <1>29, FrontWhole
<1>35. length <= room => length <= Len(cut.text) BY <1>18, <1>29, <1>32
<1>36. cut = Truncated(ReadPage(text, offset, limit)) BY <1>23, <1>27
<1> HIDE DEF Truncated
<1> QED BY <1>1, <1>13, <1>15, <1>30, <1>33, <1>34, <1>35, <1>36, Zenon DEF PageHolds

-----------------------------------------------------------------------------
(* find: what is left out, and behind what *)

LEMMA MemberFacts ==
    ASSUME NEW q, IsSeq(q)
    PROVE  /\ \A k \in 1..Len(q) : q[k] \in ToSet(q)
           /\ \A e \in ToSet(q) : \E k \in 1..Len(q) : q[k] = e
           /\ IsFiniteSet(ToSet(q))
<1>1. DOMAIN q = 1..Len(q) /\ Len(q) \in Nat BY SeqFacts
<1>2. ToSet(q) = {q[k] : k \in DOMAIN q} BY DEF ToSet
<1>3. \A k \in 1..Len(q) : q[k] \in ToSet(q) BY <1>1, <1>2
<1>4. \A e \in ToSet(q) : \E k \in 1..Len(q) : q[k] = e BY <1>1, <1>2
<1>5. IsFiniteSet(ToSet(q))
  <2>1. PICK size : size = Len(q) OBVIOUS
  <2>2. PICK T : T = ToSet(q) OBVIOUS
  <2>3. PICK f : f = [k \in 1..size |-> q[k]] OBVIOUS
  <2>4. f \in [1..size -> T] BY <1>3, <2>1, <2>2, <2>3
  <2>5. \A e \in T : \E k \in 1..size : f[k] = e BY <1>4, <2>1, <2>2, <2>3
  <2>6. f \in Surjection(1..size, T) BY <2>4, <2>5 DEF Surjection
  <2>7. IsFiniteSet(1..size) BY <1>1, <2>1, FS_Interval
  <2> QED BY <2>2, <2>6, <2>7, FS_Surjection
<1> QED BY <1>3, <1>4, <1>5

\* n different members make a set of at least n.
LEMMA EnoughMembers ==
    ASSUME NEW T, IsFiniteSet(T), NEW n \in Nat, NEW q,
           \A k \in 1..n : q[k] \in T,
           \A k \in 1..n : \A l \in 1..n : q[k] = q[l] => k = l
    PROVE  Cardinality(T) >= n
<1>1. PICK f : f = [k \in 1..n |-> q[k]] OBVIOUS
<1>2. f \in [1..n -> T] BY <1>1
<1>3. IsInjective(f) BY <1>1 DEF IsInjective
<1>4. f \in Injection(1..n, T) BY <1>2, <1>3 DEF Injection
<1>5. Cardinality(1..n) <= Cardinality(T) BY <1>4, FS_Injection
<1>6. Cardinality(1..n) = n BY FS_Interval
<1>7. Cardinality(T) \in Nat BY FS_CardinalityType
<1> QED BY <1>5, <1>6, <1>7

\* A list of files names each of them once.
Distinct(q) == \A k \in 1..Len(q) : \A l \in 1..Len(q) : q[k] = q[l] => k = l

\* A search for files leaves out a path that matches only behind as many as it may show,
\* and then says that it stopped.
THEOREM FindsHold ==
    ASSUME NEW paths, IsSeq(paths), Distinct(paths), NEW matching, NEW limit \in Nat
    PROVE  FindHolds(paths, matching, limit)
<1>1. PICK size : size = Len(paths) OBVIOUS
<1>2. size \in Nat /\ DOMAIN paths = 1..size BY <1>1, SeqFacts
<1>3. PICK places : places = {i \in DOMAIN paths : paths[i] \in matching} OBVIOUS
<1>4. PICK hits : hits = Pick(paths, places) OBVIOUS
<1>5. PICK total : total = Len(hits) OBVIOUS
<1>6. IsSeq(hits) BY <1>4, PickFacts
<1>7. total \in Nat BY <1>5, <1>6, SeqFacts
<1>8. PICK at : /\ IsSeq(at) /\ Len(at) = Len(hits)
                /\ at = Ascending(places, Len(paths))
                /\ \A k \in 1..Len(hits) : /\ at[k] \in places /\ at[k] \in 1..Len(paths)
                                           /\ hits[k] = paths[at[k]]
                /\ \A k \in 1..Len(hits) : \A l \in (k + 1)..Len(hits) : at[k] < at[l]
                /\ \A i \in 1..Len(paths) : i \in places =>
                      \E k \in 1..Len(hits) : at[k] = i
  BY <1>4, PickFacts
<1>9. \A k \in 1..total : at[k] \in places /\ at[k] \in 1..size /\ hits[k] = paths[at[k]]
  BY <1>1, <1>5, <1>8
<1>10. ASSUME NEW k \in 1..total, NEW l \in 1..total, k < l PROVE at[k] < at[l]
  <2>1. k \in 1..Len(hits) /\ l \in (k + 1)..Len(hits) BY <1>5, <1>7, <1>10
  <2> QED BY <1>8, <2>1
<1>11. PICK m : m = Smaller(limit, total) OBVIOUS
<1>12. m \in Nat /\ m <= total /\ (m < total => m = limit) /\ m <= limit
  BY <1>7, <1>11 DEF Smaller
<1>13. PICK shown : shown = FrontOf(hits, m) OBVIOUS
<1>14. IsSeq(shown) BY <1>5, <1>6, <1>12, <1>13, FrontFacts
<1>15. Len(shown) = m BY <1>5, <1>6, <1>12, <1>13, FrontFacts
<1>16. \A k \in 1..m : shown[k] = hits[k] BY <1>5, <1>6, <1>12, <1>13, FrontFacts
<1>17. PICK find : find = Find(paths, matching, limit) OBVIOUS
<1>18. find = [shown |-> shown, full |-> limit <= Len(hits)]
  <2> DEFINE hits0 == Pick(paths, {i \in DOMAIN paths : paths[i] \in matching})
  <2>1. find = [shown |-> SubSeq(hits0, 1, Smaller(limit, Len(hits0))),
                full |-> limit <= Len(hits0)]
    BY <1>17, Zenon DEF Find
  <2>2. hits0 = hits BY <1>3, <1>4
  <2> HIDE DEF hits0
  <2>3. shown = SubSeq(hits, 1, Smaller(limit, Len(hits))) BY <1>5, <1>11, <1>13 DEF FrontOf
  <2> QED BY <2>1, <2>2, <2>3
<1>19. find.shown = shown BY <1>18
<1>20. limit <= total => find.full BY <1>5, <1>18
<1>21. ToSet(find.shown) \subseteq matching
  <2> SUFFICES ASSUME NEW e \in ToSet(shown) PROVE e \in matching BY <1>19
  <2>1. PICK k \in 1..Len(shown) : shown[k] = e BY <1>14, MemberFacts
  <2>2. k \in 1..m /\ k \in 1..total BY <1>7, <1>12, <1>15, <2>1
  <2>3. e = paths[at[k]] /\ at[k] \in places BY <1>9, <1>16, <2>1, <2>2
  <2> QED BY <1>3, <2>3
<1>22. ASSUME NEW i \in DOMAIN paths, paths[i] \in matching \ ToSet(find.shown)
       PROVE  /\ find.full
              /\ Cardinality(ToSet(SubSeq(paths, 1, i - 1)) \cap matching) >= limit
  <2>1. i \in 1..size /\ i \in places /\ i \in 1..Len(paths) BY <1>1, <1>2, <1>3, <1>22
  <2>2. PICK k \in 1..total : at[k] = i BY <1>5, <1>8, <2>1
  <2>3. ASSUME k <= m PROVE FALSE
    <3>1. k \in 1..m /\ k \in 1..Len(shown) BY <1>7, <1>12, <1>15, <2>3
    <3>2. shown[k] = paths[i] BY <1>9, <1>16, <2>2, <3>1
    <3>3. shown[k] \in ToSet(shown) BY <1>14, <3>1, MemberFacts
    <3> QED BY <1>19, <1>22, <3>2, <3>3
  <2>4. m < k /\ m = limit /\ limit < total BY <1>7, <1>12, <2>3
  <2>5. find.full BY <1>7, <1>20, <2>4
  <2>6. PICK n : n = i - 1 OBVIOUS
  <2>7. n \in Nat /\ n <= Len(paths) BY <1>1, <1>2, <2>1, <2>6
  <2>8. PICK before : before = FrontOf(paths, n) OBVIOUS
  <2>9. IsSeq(before) BY <2>7, <2>8, FrontFacts
  <2>10. Len(before) = n BY <2>7, <2>8, FrontFacts
  <2>11. \A j \in 1..n : before[j] = paths[j] BY <2>7, <2>8, FrontFacts
  <2>12. PICK passed : passed = ToSet(before) \cap matching OBVIOUS
  <2>13. IsFiniteSet(passed)
    <3>1. IsFiniteSet(ToSet(before)) BY <2>9, MemberFacts
    <3>2. passed \subseteq ToSet(before) BY <2>12
    <3> QED BY <3>1, <3>2, FS_Subset
  <2>14. ASSUME NEW l \in 1..limit PROVE hits[l] \in passed
    <3>1. l \in 1..total /\ l < k BY <1>7, <2>2, <2>4
    <3>2. at[l] < i BY <1>10, <2>2, <3>1
    <3>3. at[l] \in 1..size /\ at[l] \in places /\ hits[l] = paths[at[l]] BY <1>9, <3>1
    <3>4. at[l] \in 1..n BY <2>1, <2>6, <3>2, <3>3
    <3>5. before[at[l]] \in ToSet(before) BY <2>9, <2>10, <3>4, MemberFacts
    <3>6. before[at[l]] = paths[at[l]] BY <2>11, <3>4
    <3>7. paths[at[l]] \in matching BY <1>3, <3>3
    <3> QED BY <2>12, <3>3, <3>5, <3>6, <3>7
  <2>15. ASSUME NEW l \in 1..limit, NEW j \in 1..limit, hits[l] = hits[j] PROVE l = j
    <3>1. l \in 1..total /\ j \in 1..total BY <1>7, <2>4
    <3>2. at[l] \in 1..size /\ at[j] \in 1..size /\ paths[at[l]] = paths[at[j]]
      BY <1>9, <2>15, <3>1
    <3>3. at[l] = at[j] BY <1>1, <3>2 DEF Distinct
    <3>4. ~(at[l] < at[j]) /\ ~(at[j] < at[l]) BY <3>2, <3>3
    <3>5. ~(l < j) /\ ~(j < l) BY <1>10, <3>1, <3>4
    <3> QED BY <3>5
  <2>16. Cardinality(passed) >= limit BY <2>13, <2>14, <2>15, EnoughMembers
  <2>17. SubSeq(paths, 1, i - 1) = before BY <2>6, <2>8 DEF FrontOf
  <2> QED BY <2>5, <2>12, <2>16, <2>17
<1> QED BY <1>17, <1>21, <1>22, Zenon DEF FindHolds

-----------------------------------------------------------------------------
(* grep: the lines shown *)

\* seen is the function that Grep is defined by.
Around(walked, context, i) ==
    {j \in DOMAIN walked : walked[j].path = walked[i].path
                           /\ j \in (i - context)..(i + context)}

Unseen == [shown |-> <<>>, marked |-> {}, count |-> 0, full |-> FALSE]

\* What a search has seen when it has looked at line i.
Looked(acc, walked, pattern, context, limit, i) ==
    LET new == Around(walked, context, i) \ ToSet(acc.shown)
    IN  IF acc.full \/ pattern \notin ToSet(walked[i].text) THEN acc
        ELSE [shown |-> acc.shown \o Ascending(new, Len(walked)),
              marked |-> acc.marked \cup (new \cap {i}),
              count |-> acc.count + 1,
              full |-> acc.count + 1 >= limit]

Sees(seen, walked, pattern, context, limit) ==
    seen = [i \in 0..Len(walked) |->
               IF i = 0 THEN Unseen
               ELSE Looked(seen[i - 1], walked, pattern, context, limit, i)]

LEMMA SeesExists ==
    ASSUME NEW walked, NEW pattern, NEW context, NEW limit, Len(walked) \in Nat
    PROVE  \E seen : Sees(seen, walked, pattern, context, limit)
<1> DEFINE New(before, i) == Looked(before, walked, pattern, context, limit, i)
           Up(f, n) == f = [i \in 0..n |-> IF i = 0 THEN Unseen ELSE New(f[i - 1], i)]
           S == {n \in Nat : \E f : Up(f, n)}
<1> HIDE DEF New
<1>1. 0 \in S
  <2>1. Up([i \in 0..0 |-> Unseen], 0) OBVIOUS
  <2> QED BY <2>1
<1>2. ASSUME NEW n \in Nat, n \in S PROVE n + 1 \in S
  <2>1. PICK f : Up(f, n) BY <1>2
  <2>2. PICK x : x = New(f[n], n + 1) OBVIOUS
  <2>3. PICK g : g = [i \in 0..(n + 1) |-> IF i = n + 1 THEN x ELSE f[i]] OBVIOUS
  <2>4. \A i \in 0..(n + 1) : g[i] = IF i = 0 THEN Unseen ELSE New(g[i - 1], i)
    <3> SUFFICES ASSUME NEW i \in 0..(n + 1)
                 PROVE  g[i] = IF i = 0 THEN Unseen ELSE New(g[i - 1], i)
      OBVIOUS
    <3>1. CASE i = n + 1
      <4>1. g[i] = x /\ i # 0 /\ i - 1 = n /\ n # n + 1 /\ n \in 0..(n + 1) BY <2>3, <3>1
      <4>2. g[i - 1] = f[n] BY <2>3, <4>1
      <4> QED BY <2>2, <3>1, <4>1, <4>2
    <3>2. CASE i # n + 1
      <4>1. i \in 0..n /\ (i # 0 => i - 1 \in 0..n) BY <3>2
      <4>2. g[i] = f[i] /\ (i # 0 => g[i - 1] = f[i - 1]) BY <2>3, <4>1
      <4>3. f[i] = IF i = 0 THEN Unseen ELSE New(f[i - 1], i) BY <2>1, <4>1
      <4> QED BY <4>2, <4>3
    <3> QED BY <3>1, <3>2
  <2>5. Up(g, n + 1) BY <2>3, <2>4
  <2> HIDE DEF Up
  <2> QED BY <2>5
<1> HIDE DEF S
<1>3. Len(walked) \in S BY <1>1, <1>2, Induction
<1>4. PICK f : Up(f, Len(walked)) BY <1>3 DEF S
<1>5. Sees(f, walked, pattern, context, limit) BY <1>4, Zenon DEF Sees, New
<1> QED BY <1>5

LEMMA GrepSees ==
    ASSUME NEW walked, NEW pattern, NEW context, NEW limit, Len(walked) \in Nat
    PROVE  \E seen : /\ Sees(seen, walked, pattern, context, limit)
                     /\ Grep(walked, pattern, context, limit) =
                           [shown |-> seen[Len(walked)].shown,
                            marked |-> seen[Len(walked)].marked,
                            full |-> seen[Len(walked)].full]
<1> DEFINE f == CHOOSE seen : Sees(seen, walked, pattern, context, limit)
<1>1. Sees(f, walked, pattern, context, limit) BY SeesExists
<1>2. Grep(walked, pattern, context, limit) =
        [shown |-> f[Len(walked)].shown, marked |-> f[Len(walked)].marked,
         full |-> f[Len(walked)].full]
  BY Zenon DEF Grep, Sees, Looked, Around, Unseen
<1> HIDE DEF f
<1> QED BY <1>1, <1>2

\* The lines of a walk: those of a file stand together.
Together(walked) ==
    /\ IsSeq(walked)
    /\ \A a \in 1..Len(walked) : \A b \in 1..Len(walked) : \A c \in 1..Len(walked) :
          a <= b /\ b <= c /\ walked[a].path = walked[c].path =>
             walked[b].path = walked[a].path

Hits(walked, pattern) == {i \in 1..Len(walked) : pattern \in ToSet(walked[i].text)}

\* counted: the matches that were counted among the first n lines.
Counts(acc, counted, hits, n) ==
    /\ counted \in SUBSET hits /\ IsFiniteSet(counted)
    /\ \A h \in counted : h <= n
    /\ acc.count = Cardinality(counted)
    /\ ~acc.full => \A h \in hits : h <= n => h \in counted

\* What a search shows when it has looked at n lines.
Shown(acc, walked, hits, context, limit, n) ==
    /\ Climbing(acc.shown)
    /\ \A k \in 1..Len(acc.shown) :
          \E h \in hits : h <= n /\ acc.shown[k] \in Around(walked, context, h)
    /\ acc.marked \subseteq hits
    /\ acc.full => acc.count >= limit
    /\ \E counted :
          /\ Counts(acc, counted, hits, n)
          /\ \A h \in counted : Around(walked, context, h) \subseteq ToSet(acc.shown)

\* What is new lies behind all that was shown.
LEMMA NewLiesBehind ==
    ASSUME NEW walked, Together(walked), NEW context \in Nat,
           NEW h \in 1..Len(walked), NEW i \in 1..Len(walked), h < i,
           NEW m \in Around(walked, context, h), NEW j \in Around(walked, context, i),
           j \notin Around(walked, context, h)
    PROVE  m < j
<1>1. IsSeq(walked) /\ Len(walked) \in Nat /\ DOMAIN walked = 1..Len(walked)
  BY SeqFacts DEF Together
<1>2. /\ m \in 1..Len(walked) /\ walked[m].path = walked[h].path
      /\ m \in (h - context)..(h + context)
  BY <1>1 DEF Around
<1>3. /\ j \in 1..Len(walked) /\ walked[j].path = walked[i].path
      /\ j \in (i - context)..(i + context)
  BY <1>1 DEF Around
<1>4. ASSUME j <= m PROVE FALSE
  <2>1. j \in (h - context)..(h + context) BY <1>1, <1>2, <1>3, <1>4
  <2>2. walked[j].path # walked[h].path BY <1>1, <1>3, <2>1 DEF Around
  <2>3. CASE h <= j
    <3>1. walked[j].path = walked[h].path BY <1>2, <1>3, <1>4, <2>3 DEF Together
    <3> QED BY <2>2, <3>1
  <2>4. CASE ~(h <= j)
    <3>1. j <= h /\ h <= i BY <1>1, <1>3, <2>4
    <3>2. walked[h].path = walked[j].path BY <1>3, <3>1 DEF Together
    <3> QED BY <2>2, <3>2
  <2> QED BY <2>3, <2>4
<1> QED BY <1>1, <1>2, <1>3, <1>4

LEMMA ClimbsOn ==
    ASSUME NEW a, NEW b, NEW c, Climbing(a), Climbing(b), c = a \o b,
           \A k \in 1..Len(a) : \A l \in 1..Len(b) : a[k] < b[l]
    PROVE  Climbing(c)
<1>1. IsSeq(a) /\ IsSeq(b) BY DEF Climbing
<1>2. PICK m : m = Len(a) OBVIOUS
<1>3. PICK n : n = Len(b) OBVIOUS
<1>4. IsSeq(c) BY <1>1, ConcatFacts
<1>5. Len(c) = m + n /\ m \in Nat /\ n \in Nat BY <1>1, <1>2, <1>3, ConcatFacts
<1>6. \A i \in 1..m : c[i] = a[i] BY <1>1, <1>2, ConcatFacts
<1>7. \A i \in 1..n : c[m + i] = b[i] BY <1>1, <1>2, <1>3, ConcatFacts
<1>8. ASSUME NEW k \in 1..(m + n)
      PROVE  \/ k \in 1..m /\ c[k] = a[k]
             \/ k - m \in 1..n /\ c[k] = b[k - m]
  <2>1. CASE k <= m BY <1>5, <1>6, <2>1
  <2>2. CASE ~(k <= m)
    <3>1. k - m \in 1..n /\ m + (k - m) = k BY <1>5, <2>2
    <3>2. c[m + (k - m)] = b[k - m] BY <1>7, <3>1
    <3> QED BY <3>1, <3>2
  <2> QED BY <2>1, <2>2
<1>9. \A k \in 1..Len(c) : c[k] \in Nat
  <2> SUFFICES ASSUME NEW k \in 1..Len(c) PROVE c[k] \in Nat OBVIOUS
  <2>1. k \in 1..(m + n) BY <1>5
  <2> QED BY <1>2, <1>3, <1>8, <2>1 DEF Climbing
<1>10. ASSUME NEW k \in 1..Len(c), NEW l \in 1..Len(c), k < l PROVE c[k] < c[l]
  <2>1. k \in 1..(m + n) /\ l \in 1..(m + n) BY <1>5
  <2>2. CASE l \in 1..m
    <3>1. k \in 1..m /\ c[k] = a[k] /\ c[l] = a[l] BY <1>5, <1>6, <1>10, <2>1, <2>2
    <3> QED BY <1>2, <1>10, <2>2, <3>1 DEF Climbing
  <2>3. CASE l \notin 1..m
    <3>1. l - m \in 1..n /\ c[l] = b[l - m] BY <1>5, <1>8, <2>1, <2>3
    <3>2. CASE k \in 1..m
      <4>1. c[k] = a[k] BY <1>6, <3>2
      <4> QED BY <1>2, <1>3, <3>1, <3>2, <4>1
    <3>3. CASE k \notin 1..m
      <4>1. k - m \in 1..n /\ c[k] = b[k - m] BY <1>5, <1>8, <2>1, <3>3
      <4>2. k - m < l - m BY <1>5, <1>10, <2>1
      <4> QED BY <1>3, <3>1, <4>1, <4>2 DEF Climbing
    <3> QED BY <3>2, <3>3
  <2> QED BY <2>2, <2>3
<1> QED BY <1>4, <1>9, <1>10 DEF Climbing

LEMMA AscendingMembers ==
    ASSUME NEW n \in Nat, NEW positions \in SUBSET (1..n), NEW at,
           at = Ascending(positions, n)
    PROVE  ToSet(at) = positions
<1>1. IsSeq(at) BY AscendingFacts
<1>2. \A k \in 1..Len(at) : at[k] \in positions BY AscendingFacts
<1>3. \A i \in 1..n : i \in positions => \E k \in 1..Len(at) : at[k] = i BY AscendingFacts
<1>4. ASSUME NEW e \in ToSet(at) PROVE e \in positions
  <2>1. PICK k \in 1..Len(at) : at[k] = e BY <1>1, MemberFacts
  <2> QED BY <1>2, <2>1
<1>5. ASSUME NEW i \in positions PROVE i \in ToSet(at)
  <2>1. PICK k \in 1..Len(at) : at[k] = i BY <1>3
  <2>2. at[k] \in ToSet(at) BY <1>1, MemberFacts
  <2> QED BY <2>1, <2>2
<1> QED BY <1>4, <1>5

LEMMA ConcatMembers ==
    ASSUME NEW a, NEW b, IsSeq(a), IsSeq(b), NEW c, c = a \o b
    PROVE  /\ ToSet(a) \subseteq ToSet(c) /\ ToSet(b) \subseteq ToSet(c)
           /\ \A k \in 1..Len(c) : c[k] \in ToSet(a) \/ c[k] \in ToSet(b)
<1>1. IsSeq(c) BY ConcatFacts
<1>2. PICK m : m = Len(a) OBVIOUS
<1>3. PICK n : n = Len(b) OBVIOUS
<1>4. Len(c) = m + n /\ m \in Nat /\ n \in Nat BY <1>2, <1>3, ConcatFacts
<1>5. \A i \in 1..m : c[i] = a[i] BY <1>2, ConcatFacts
<1>6. \A i \in 1..n : c[m + i] = b[i] BY <1>2, <1>3, ConcatFacts
<1>7. ASSUME NEW e \in ToSet(a) PROVE e \in ToSet(c)
  <2>1. PICK k \in 1..Len(a) : a[k] = e BY MemberFacts
  <2>2. k \in 1..m /\ k \in 1..Len(c) BY <1>2, <1>4, <2>1
  <2>3. c[k] \in ToSet(c) BY <1>1, <2>2, MemberFacts
  <2> QED BY <1>5, <2>1, <2>2, <2>3
<1>8. ASSUME NEW e \in ToSet(b) PROVE e \in ToSet(c)
  <2>1. PICK k \in 1..Len(b) : b[k] = e BY MemberFacts
  <2>2. k \in 1..n /\ m + k \in 1..Len(c) BY <1>3, <1>4, <2>1
  <2>3. c[m + k] \in ToSet(c) BY <1>1, <2>2, MemberFacts
  <2> QED BY <1>6, <2>1, <2>2, <2>3
<1>9. ASSUME NEW k \in 1..Len(c) PROVE c[k] \in ToSet(a) \/ c[k] \in ToSet(b)
  <2>1. CASE k <= m
    <3>1. k \in 1..m /\ k \in 1..Len(a) BY <1>2, <1>4, <2>1
    <3>2. a[k] \in ToSet(a) BY <3>1, MemberFacts
    <3> QED BY <1>5, <3>1, <3>2
  <2>2. CASE ~(k <= m)
    <3>1. PICK l : l = k - m OBVIOUS
    <3>2. l \in 1..n /\ l \in 1..Len(b) /\ k = m + l BY <1>3, <1>4, <2>2, <3>1
    <3>3. b[l] \in ToSet(b) BY <3>2, MemberFacts
    <3> QED BY <1>6, <3>2, <3>3
  <2> QED BY <2>1, <2>2
<1> QED BY <1>7, <1>8, <1>9

\* A match that is counted.
LEMMA MatchShown ==
    ASSUME NEW walked, Together(walked), NEW pattern, NEW context \in Nat, NEW limit \in Nat,
           NEW hits, hits = Hits(walked, pattern), NEW i \in 1..Len(walked), i \in hits,
           NEW acc, Shown(acc, walked, hits, context, limit, i - 1), ~acc.full,
           NEW new, new = Around(walked, context, i) \ ToSet(acc.shown),
           NEW next, next.shown = acc.shown \o Ascending(new, Len(walked)),
           next.marked = acc.marked \cup (new \cap {i}),
           next.count = acc.count + 1,
           next.full <=> next.count >= limit
    PROVE  Shown(next, walked, hits, context, limit, i)
<1>1. PICK size : size = Len(walked) OBVIOUS
<1>2. size \in Nat /\ DOMAIN walked = 1..size BY <1>1, SeqFacts DEF Together
<1>3. hits \subseteq 1..size BY <1>1 DEF Hits
<1>4. PICK shown : shown = acc.shown OBVIOUS
<1>5. PICK old : old = ToSet(shown) OBVIOUS
<1>6. PICK near : near = Around(walked, context, i) OBVIOUS
<1>7. new = near \ old /\ near \subseteq 1..size BY <1>2, <1>4, <1>5, <1>6 DEF Around
<1>8. PICK more : more = Ascending(new, size) OBVIOUS
<1>9. Climbing(shown) /\ IsSeq(shown) BY <1>4 DEF Shown, Climbing
<1>10. Climbing(more) BY <1>2, <1>8, AscendingClimbing
<1>11. IsSeq(more) BY <1>10 DEF Climbing
<1>12. new \in SUBSET (1..size) BY <1>7
<1>13. ToSet(more) = new BY <1>2, <1>8, <1>12, AscendingMembers
<1>14. PICK all : all = shown \o more OBVIOUS
<1>15. next.shown = all BY <1>1, <1>4, <1>8, <1>14
<1>16. ToSet(shown) \subseteq ToSet(all) BY <1>9, <1>11, <1>14, ConcatMembers
<1>17. ToSet(more) \subseteq ToSet(all) BY <1>9, <1>11, <1>14, ConcatMembers
<1>18. \A k \in 1..Len(all) : all[k] \in ToSet(shown) \/ all[k] \in ToSet(more)
  BY <1>9, <1>11, <1>14, ConcatMembers
<1>19. \A k \in 1..Len(shown) :
          \E h \in hits : h <= i - 1 /\ shown[k] \in Around(walked, context, h)
  BY <1>4 DEF Shown
<1>20. PICK counted : /\ Counts(acc, counted, hits, i - 1)
                      /\ \A h \in counted : Around(walked, context, h) \subseteq old
  BY <1>4, <1>5 DEF Shown
<1>21. /\ counted \in SUBSET hits /\ IsFiniteSet(counted) /\ \A h \in counted : h <= i - 1
       /\ acc.count = Cardinality(counted)
       /\ \A h \in hits : h <= i - 1 => h \in counted
  BY <1>20 DEF Counts
<1>22. i \in near BY <1>1, <1>2, <1>6 DEF Around
<1>23. Climbing(all)
  <2>1. ASSUME NEW k \in 1..Len(shown), NEW l \in 1..Len(more) PROVE shown[k] < more[l]
    <3>1. PICK h \in hits : h <= i - 1 /\ shown[k] \in Around(walked, context, h) BY <1>19
    <3>2. h \in 1..Len(walked) /\ h < i BY <1>1, <1>2, <1>3, <3>1
    <3>3. Around(walked, context, h) \subseteq old BY <1>20, <1>21, <3>1
    <3>4. more[l] \in new BY <1>11, <1>13, MemberFacts
    <3>5. more[l] \in Around(walked, context, i) /\ more[l] \notin Around(walked, context, h)
      BY <1>6, <1>7, <3>3, <3>4
    <3>6. PICK m : m = shown[k] OBVIOUS
    <3>7. PICK j : j = more[l] OBVIOUS
    <3>8. m \in Around(walked, context, h) /\ j \in Around(walked, context, i)
          /\ j \notin Around(walked, context, h)
      BY <3>1, <3>5, <3>6, <3>7
    <3>9. m < j BY <3>2, <3>8, NewLiesBehind
    <3> QED BY <3>6, <3>7, <3>9
  <2> QED BY <1>9, <1>10, <1>14, <2>1, ClimbsOn
<1>24. ASSUME NEW k \in 1..Len(all)
       PROVE  \E h \in hits : h <= i /\ all[k] \in Around(walked, context, h)
  <2>1. CASE all[k] \in ToSet(shown)
    <3>1. PICK e : e = all[k] OBVIOUS
    <3>2. e \in ToSet(shown) BY <2>1, <3>1
    <3>3. \E l \in 1..Len(shown) : shown[l] = e BY <1>9, <3>2, MemberFacts
    <3>4. PICK l \in 1..Len(shown) : shown[l] = all[k] BY <3>1, <3>3
    <3>5. PICK h \in hits : h <= i - 1 /\ shown[l] \in Around(walked, context, h) BY <1>19, <3>4
    <3>6. h <= i BY <1>1, <1>2, <1>3, <3>5
    <3> QED BY <3>4, <3>5, <3>6
  <2>2. CASE all[k] \in ToSet(more)
    <3>1. all[k] \in near BY <1>7, <1>13, <2>2
    <3>2. i <= i BY <1>1, <1>2
    <3> QED BY <1>6, <3>1, <3>2
  <2> QED BY <1>18, <2>1, <2>2
<1>25. next.marked \subseteq hits
  <2>1. acc.marked \subseteq hits BY DEF Shown
  <2> QED BY <2>1
<1>26. PICK now : now = counted \cup {i} OBVIOUS
<1>27. Counts(next, now, hits, i)
  <2>1. i \notin counted
    <3>1. ~(i <= i - 1) BY <1>1, <1>2
    <3> QED BY <1>21, <3>1
  <2>2. IsFiniteSet(now) BY <1>21, <1>26, FS_AddElement
  <2>3. Cardinality(now) = Cardinality(counted) + 1 BY <1>21, <1>26, <2>1, FS_AddElement
  <2>4. next.count = Cardinality(now) BY <1>21, <2>3
  <2>5. now \in SUBSET hits BY <1>21, <1>26
  <2>6. \A h \in now : h <= i
    <3>1. \A h \in counted : h \in 1..size /\ h <= i - 1 BY <1>3, <1>21
    <3>2. \A h \in counted : h <= i BY <1>1, <1>2, <3>1
    <3>3. i <= i BY <1>1, <1>2
    <3> QED BY <1>26, <3>2, <3>3
  <2>7. ASSUME NEW h \in hits, h <= i PROVE h \in now
    <3>1. h = i \/ h <= i - 1 BY <1>1, <1>2, <1>3, <2>7
    <3> QED BY <1>21, <1>26, <3>1
  <2> QED BY <2>2, <2>4, <2>5, <2>6, <2>7 DEF Counts
<1>28. ASSUME NEW h \in now PROVE Around(walked, context, h) \subseteq ToSet(all)
  <2>1. CASE h \in counted BY <1>5, <1>16, <1>20, <2>1
  <2>2. CASE h = i
    <3>1. near \subseteq old \cup new BY <1>7
    <3> QED BY <1>5, <1>6, <1>13, <1>16, <1>17, <2>2, <3>1
  <2> QED BY <1>26, <2>1, <2>2
<1> QED BY <1>15, <1>23, <1>24, <1>25, <1>27, <1>28 DEF Shown

LEMMA LookedShown ==
    ASSUME NEW walked, Together(walked), NEW pattern, NEW context \in Nat, NEW limit \in Nat,
           NEW hits, hits = Hits(walked, pattern), NEW i \in 1..Len(walked),
           NEW acc, Shown(acc, walked, hits, context, limit, i - 1),
           NEW next, next = Looked(acc, walked, pattern, context, limit, i)
    PROVE  Shown(next, walked, hits, context, limit, i)
<1>1. Len(walked) \in Nat /\ hits \subseteq 1..Len(walked) BY SeqFacts DEF Together, Hits
<1>2. CASE ~acc.full /\ i \in hits
  <2>1. pattern \in ToSet(walked[i].text) BY <1>2 DEF Hits
  <2>2. PICK new : new = Around(walked, context, i) \ ToSet(acc.shown) OBVIOUS
  <2>3. PICK shown : shown = acc.shown \o Ascending(new, Len(walked)) OBVIOUS
  <2>4. PICK marked : marked = acc.marked \cup (new \cap {i}) OBVIOUS
  <2>5. PICK count : count = acc.count + 1 OBVIOUS
  <2>6. PICK full : full = (count >= limit) OBVIOUS
  <2>7. next = [shown |-> shown, marked |-> marked, count |-> count, full |-> full]
    <3>1. next = [shown |-> acc.shown \o Ascending(new, Len(walked)),
                  marked |-> acc.marked \cup (new \cap {i}),
                  count |-> acc.count + 1,
                  full |-> acc.count + 1 >= limit]
      BY <1>2, <2>1, <2>2, Zenon DEF Looked
    <3>2. full = (acc.count + 1 >= limit) BY <2>5, <2>6, Zenon
    <3> QED BY <2>3, <2>4, <2>5, <3>1, <3>2, Zenon
  <2>8. next.shown = shown /\ next.marked = marked /\ next.count = count /\ next.full = full
    BY <2>7
  <2>9. next.full <=> next.count >= limit BY <2>6, <2>8, Zenon
  <2> QED BY <1>2, <2>2, <2>3, <2>4, <2>5, <2>8, <2>9, MatchShown
<1>3. CASE acc.full \/ i \notin hits
  <2>1. next = acc
    <3>1. i \notin hits => pattern \notin ToSet(walked[i].text) BY DEF Hits
    <3> QED BY <1>3, <3>1, Zenon DEF Looked
  <2>2. \A h \in hits : h <= i - 1 => h <= i BY <1>1
  <2>3. ASSUME NEW h \in hits, h <= i, i \notin hits PROVE h <= i - 1
    <3>1. h # i BY <2>3
    <3> QED BY <1>1, <2>3, <3>1
  <2>4. PICK counted :
          /\ Counts(acc, counted, hits, i - 1)
          /\ \A h \in counted : Around(walked, context, h) \subseteq ToSet(acc.shown)
    BY DEF Shown
  <2>5. Counts(acc, counted, hits, i)
    BY <1>3, <2>2, <2>3, <2>4, Zenon DEF Counts
  <2>6. \A k \in 1..Len(acc.shown) :
          \E h \in hits : h <= i /\ acc.shown[k] \in Around(walked, context, h)
    BY <2>2 DEF Shown
  <2>7. Shown(acc, walked, hits, context, limit, i)
    <3>1. /\ Climbing(acc.shown) /\ acc.marked \subseteq hits
          /\ acc.full => acc.count >= limit
      BY DEF Shown
    <3> QED BY <2>4, <2>5, <2>6, <3>1 DEF Shown
  <2> QED BY <2>1, <2>7
<1> QED BY <1>2, <1>3

LEMMA GrepShown ==
    ASSUME NEW walked, Together(walked), NEW pattern, NEW context \in Nat, NEW limit \in Nat,
           NEW hits, hits = Hits(walked, pattern),
           NEW seen, Sees(seen, walked, pattern, context, limit)
    PROVE  Shown(seen[Len(walked)], walked, hits, context, limit, Len(walked))
<1>1. Len(walked) \in Nat /\ hits \subseteq 1..Len(walked) BY SeqFacts DEF Together, Hits
<1> DEFINE S == {n \in Nat : n <= Len(walked) =>
                                Shown(seen[n], walked, hits, context, limit, n)}
<1>2. 0 \in S
  <2>1. PICK acc : acc = Unseen OBVIOUS
  <2>2. seen[0] = acc BY <1>1, <2>1 DEF Sees
  <2>3. acc.shown = <<>> /\ acc.marked = {} /\ acc.count = 0 BY <2>1 DEF Unseen
  <2>4. acc.full = FALSE BY <2>1 DEF Unseen
  <2>5. Climbing(acc.shown) /\ Len(acc.shown) = 0
    <3>1. IsSeq(<<>>) BY EmptyCalls
    <3>2. Len(<<>>) = 0 OBVIOUS
    <3> QED BY <2>3, <3>1, <3>2 DEF Climbing
  <2>6. Counts(acc, {}, hits, 0)
    <3>1. IsFiniteSet({}) /\ Cardinality({}) = 0 BY FS_EmptySet
    <3>2. \A h \in hits : ~(h <= 0) BY <1>1
    <3> QED BY <2>3, <3>1, <3>2 DEF Counts
  <2>7. ASSUME NEW k \in 1..Len(acc.shown) PROVE FALSE BY <2>5
  <2>8. \A k \in 1..Len(acc.shown) :
          \E h \in hits : h <= 0 /\ acc.shown[k] \in Around(walked, context, h)
    BY <2>7
  <2>9. acc.full => acc.count >= limit BY <2>4
  <2>10. \A h \in {} : Around(walked, context, h) \subseteq ToSet(acc.shown) OBVIOUS
  <2>11. acc.marked \subseteq hits BY <2>3
  <2>12. Shown(acc, walked, hits, context, limit, 0)
    BY <2>5, <2>6, <2>8, <2>9, <2>10, <2>11 DEF Shown
  <2> QED BY <2>2, <2>12
<1>3. ASSUME NEW n \in Nat, n \in S PROVE n + 1 \in S
  <2> SUFFICES ASSUME n + 1 <= Len(walked)
               PROVE  Shown(seen[n + 1], walked, hits, context, limit, n + 1)
    OBVIOUS
  <2>1. n + 1 \in 0..Len(walked) /\ n + 1 # 0 /\ (n + 1) - 1 = n /\ n <= Len(walked) BY <1>1
  <2>2. PICK acc : acc = seen[n] OBVIOUS
  <2>3. PICK i : i = n + 1 OBVIOUS
  <2>4. PICK next : next = Looked(acc, walked, pattern, context, limit, i) OBVIOUS
  <2>5. seen[n + 1] = next BY <2>1, <2>2, <2>3, <2>4 DEF Sees
  <2>6. i \in 1..Len(walked) /\ i - 1 = n BY <1>1, <2>1, <2>3
  <2>7. Shown(acc, walked, hits, context, limit, i - 1) BY <1>3, <2>1, <2>2, <2>6
  <2>8. Shown(next, walked, hits, context, limit, i) BY <2>4, <2>6, <2>7, LookedShown
  <2> QED BY <2>3, <2>5, <2>8
<1> HIDE DEF S
<1>4. Len(walked) \in S BY <1>1, <1>2, <1>3, Induction
<1> QED BY <1>1, <1>4 DEF S

\* A search shows each line once and in order, every match among them unless it says that
\* it stopped, and nothing that is not near a match.
THEOREM GrepsHold ==
    ASSUME NEW walked, Together(walked), NEW pattern, NEW context \in Nat, NEW limit \in Nat
    PROVE  GrepHolds(walked, pattern, context, limit)
<1>1. PICK size : size = Len(walked) OBVIOUS
<1>2. size \in Nat /\ DOMAIN walked = 1..size BY <1>1, SeqFacts DEF Together
<1>3. PICK hits : hits = Hits(walked, pattern) OBVIOUS
<1>4. hits = {i \in DOMAIN walked : pattern \in ToSet(walked[i].text)}
  BY <1>1, <1>2, <1>3 DEF Hits
<1>5. PICK grep : grep = Grep(walked, pattern, context, limit) OBVIOUS
<1>6. PICK seen : /\ Sees(seen, walked, pattern, context, limit)
                  /\ grep = [shown |-> seen[Len(walked)].shown,
                             marked |-> seen[Len(walked)].marked,
                             full |-> seen[Len(walked)].full]
  BY <1>1, <1>2, <1>5, GrepSees
<1>7. PICK acc : acc = seen[Len(walked)] OBVIOUS
<1>8. Shown(acc, walked, hits, context, limit, size)
  BY <1>1, <1>3, <1>6, <1>7, GrepShown
<1>9. grep = [shown |-> acc.shown, marked |-> acc.marked, full |-> acc.full] BY <1>6, <1>7
<1>10. grep.shown = acc.shown /\ grep.marked = acc.marked /\ grep.full = acc.full BY <1>9
<1>11. PICK shown : shown = grep.shown OBVIOUS
<1>12. Climbing(shown) BY <1>8, <1>10, <1>11 DEF Shown
<1>13. IsSeq(shown) BY <1>12 DEF Climbing
<1>14. \A k \in 1..Len(shown) :
          \E h \in hits : h <= size /\ shown[k] \in Around(walked, context, h)
  BY <1>8, <1>10, <1>11 DEF Shown
<1>15. grep.marked \subseteq hits BY <1>8, <1>10 DEF Shown
<1>16. PICK counted :
          /\ Counts(acc, counted, hits, size)
          /\ \A h \in counted : Around(walked, context, h) \subseteq ToSet(shown)
  BY <1>8, <1>10, <1>11 DEF Shown
<1>17. hits \subseteq 1..size BY <1>1, <1>3 DEF Hits
<1>18. counted \subseteq ToSet(shown) /\ counted \subseteq hits
  <2>1. counted \subseteq hits BY <1>16 DEF Counts
  <2>2. ASSUME NEW h \in counted PROVE h \in ToSet(shown)
    <3>1. h \in 1..size BY <1>17, <2>1
    <3>2. h \in (h - context)..(h + context) BY <1>2, <3>1
    <3>3. h \in Around(walked, context, h) BY <1>2, <3>1, <3>2 DEF Around
    <3> QED BY <1>16, <3>3
  <2> QED BY <2>1, <2>2
<1>19. \A n \in 2..Len(shown) : shown[n - 1] < shown[n]
  <2> SUFFICES ASSUME NEW n \in 2..Len(shown) PROVE shown[n - 1] < shown[n] OBVIOUS
  <2>1. Len(shown) \in Nat BY <1>13, SeqFacts
  <2>2. n - 1 \in 1..Len(shown) /\ n \in 1..Len(shown) /\ n - 1 < n BY <2>1
  <2> QED BY <1>12, <2>2 DEF Climbing
<1>20. ~grep.full => hits \subseteq ToSet(shown)
  <2> SUFFICES ASSUME ~grep.full, NEW h \in hits PROVE h \in ToSet(shown) OBVIOUS
  <2>1. h <= size BY <1>2, <1>17
  <2>2. h \in counted BY <1>10, <1>16, <2>1, Zenon DEF Counts
  <2> QED BY <1>18, <2>2
<1>21. grep.full => Cardinality(hits \cap ToSet(shown)) >= limit
  <2> SUFFICES ASSUME grep.full PROVE Cardinality(hits \cap ToSet(shown)) >= limit OBVIOUS
  <2>1. PICK both : both = hits \cap ToSet(shown) OBVIOUS
  <2>2. IsFiniteSet(1..size) BY <1>2, FS_Interval
  <2>3. both \subseteq 1..size BY <1>17, <2>1
  <2>4. IsFiniteSet(both) BY <2>2, <2>3, FS_Subset
  <2>5. counted \subseteq both BY <1>18, <2>1
  <2>6. Cardinality(counted) <= Cardinality(both) BY <2>4, <2>5, FS_Subset
  <2>7. Cardinality(both) \in Nat BY <2>4, FS_CardinalityType
  <2>8. IsFiniteSet(counted) BY <2>4, <2>5, FS_Subset
  <2>9. Cardinality(counted) \in Nat BY <2>8, FS_CardinalityType
  <2>10. acc.count = Cardinality(counted) BY <1>16 DEF Counts
  <2>11. acc.count >= limit
    <3>1. acc.full BY <1>10, Zenon
    <3> QED BY <1>8, <3>1, Zenon DEF Shown
  <2> QED BY <2>1, <2>6, <2>7, <2>9, <2>10, <2>11
<1>22. ASSUME NEW i \in ToSet(shown) PROVE \E h \in hits : i \in (h - context)..(h + context)
  <2>1. PICK k \in 1..Len(shown) : shown[k] = i BY <1>13, MemberFacts
  <2>2. PICK h \in hits : shown[k] \in Around(walked, context, h) BY <1>14, <2>1
  <2>3. i \in (h - context)..(h + context) BY <2>1, <2>2 DEF Around
  <2> QED BY <2>3
<1> QED BY <1>4, <1>5, <1>11, <1>15, <1>19, <1>20, <1>21, <1>22, Zenon DEF GrepHolds

\* What grep walks through: each file once, with a text.
Walks(walk) ==
    /\ IsSeq(walk)
    /\ \A f \in 1..Len(walk) : IsSeq(walk[f].text)
    /\ \A f \in 1..Len(walk) : \A g \in 1..Len(walk) : walk[f].path = walk[g].path => f = g

FileLines(file) ==
    LET lines == SplitAt(file.text, Breaks \cup {Newline, Return})
    IN  [n \in DOMAIN lines |-> [path |-> file.path, number |-> n, text |-> lines[n]]]

LEMMA FileLinesFacts ==
    ASSUME NEW file, IsSeq(file.text), NEW group, group = FileLines(file)
    PROVE  IsSeq(group) /\ \A n \in 1..Len(group) : group[n].path = file.path
<1>1. PICK lines : lines = SplitAt(file.text, Breaks \cup {Newline, Return}) OBVIOUS
<1>2. IsSeq(lines)
  <2>1. PICK text : text = file.text OBVIOUS
  <2>2. PICK ends : ends = Breaks \cup {Newline, Return} OBVIOUS
  <2>3. IsSeq(text) /\ lines = SplitAt(text, ends) BY <1>1, <2>1, <2>2
  <2> QED BY <2>3, LinesFacts
<1>3. PICK size : size = Len(lines) OBVIOUS
<1>4. size \in Nat /\ DOMAIN lines = 1..size BY <1>2, <1>3, SeqFacts
<1>5. group = [n \in 1..size |-> [path |-> file.path, number |-> n, text |-> lines[n]]]
  <2>1. group = [n \in DOMAIN lines |-> [path |-> file.path, number |-> n, text |-> lines[n]]]
    BY <1>1 DEF FileLines
  <2> QED BY <1>4, <2>1
<1>6. group = [n \in 1..size |-> group[n]] BY <1>5
<1>7. IsSeq(group) /\ Len(group) = size BY <1>4, <1>6, FunctionFacts
<1>8. ASSUME NEW n \in 1..Len(group) PROVE group[n].path = file.path
  <2>1. PICK path : path = file.path OBVIOUS
  <2>2. PICK line : line = lines[n] OBVIOUS
  <2>3. group[n] = [path |-> path, number |-> n, text |-> line] BY <1>5, <1>7, <2>1, <2>2
  <2> QED BY <2>1, <2>3
<1> QED BY <1>7, <1>8

\* The lines of a file stand together.
LEMMA LinesTogether ==
    ASSUME NEW walk, Walks(walk), NEW walked, walked = WalkedLines(walk)
    PROVE  Together(walked)
<1>1. PICK size : size = Len(walk) OBVIOUS
<1>2. size \in Nat /\ DOMAIN walk = 1..size BY <1>1, SeqFacts DEF Walks
<1>3. PICK groups : groups = [f \in 1..size |-> FileLines(walk[f])] OBVIOUS
<1>4. walked = Flatten(groups)
  <2>1. walked = Flatten([f \in DOMAIN walk |-> FileLines(walk[f])])
    BY Zenon DEF WalkedLines, FileLines, Flatten
  <2> QED BY <1>2, <1>3, <2>1
<1>5. IsSeq(groups) /\ Len(groups) = size
  <2>1. groups = [f \in 1..size |-> groups[f]] BY <1>3
  <2> QED BY <1>2, <2>1, FunctionFacts
<1>6. ASSUME NEW f \in 1..size
      PROVE  /\ IsSeq(groups[f])
             /\ \A n \in 1..Len(groups[f]) : groups[f][n].path = walk[f].path
  <2>1. PICK file : file = walk[f] OBVIOUS
  <2>2. PICK group : group = groups[f] OBVIOUS
  <2>3. IsSeq(file.text) BY <1>1, <2>1 DEF Walks
  <2>4. group = FileLines(file) BY <1>3, <2>1, <2>2
  <2>5. IsSeq(group) BY <2>3, <2>4, FileLinesFacts
  <2>6. \A n \in 1..Len(group) : group[n].path = file.path BY <2>3, <2>4, FileLinesFacts
  <2> QED BY <2>1, <2>2, <2>5, <2>6
<1>7. PICK off : Laid(walked, groups, off) BY <1>4, <1>5, <1>6, FlattenLaid
<1>8. IsSeq(walked) BY <1>7 DEF Laid
<1>9. ASSUME NEW i \in 1..Len(walked)
      PROVE  \E k \in 1..size : /\ off[k] < i /\ i <= off[k + 1]
                                /\ off[k] \in Nat /\ off[k + 1] \in Nat
                                /\ walked[i].path = walk[k].path
  <2>1. PICK k \in 1..Len(groups) : off[k] < i /\ i <= off[k + 1] BY <1>7, Located
  <2>2. PICK d : d = off[k] OBVIOUS
  <2>3. PICK group : group = groups[k] OBVIOUS
  <2>4. d \in Nat /\ Len(group) \in Nat /\ off[k + 1] = d + Len(group)
    BY <1>7, <2>2, <2>3, LaidFacts
  <2>5. \A j \in 1..Len(group) : walked[d + j] = group[j] BY <1>7, <2>2, <2>3, LaidFacts
  <2>6. PICK j : j = i - d OBVIOUS
  <2>7. j \in 1..Len(group) /\ i = d + j BY <2>1, <2>2, <2>4, <2>6
  <2>8. walked[i] = group[j] BY <2>5, <2>7
  <2>9. k \in 1..size BY <1>5
  <2>10. group[j].path = walk[k].path BY <1>6, <2>3, <2>7, <2>9
  <2>11. off[k] \in Nat /\ off[k + 1] \in Nat BY <2>2, <2>4
  <2> QED BY <2>1, <2>8, <2>9, <2>10, <2>11
<1>10. ASSUME NEW a \in 1..Len(walked), NEW b \in 1..Len(walked), NEW c \in 1..Len(walked),
              a <= b, b <= c, walked[a].path = walked[c].path
       PROVE  walked[b].path = walked[a].path
  <2>1. PICK k \in 1..size : /\ off[k] < a /\ a <= off[k + 1]
                             /\ off[k] \in Nat /\ off[k + 1] \in Nat
                             /\ walked[a].path = walk[k].path
    BY <1>9
  <2>2. PICK l \in 1..size : /\ off[l] < b /\ b <= off[l + 1]
                             /\ off[l] \in Nat /\ off[l + 1] \in Nat
                             /\ walked[b].path = walk[l].path
    BY <1>9
  <2>3. PICK m \in 1..size : /\ off[m] < c /\ c <= off[m + 1]
                             /\ off[m] \in Nat /\ off[m + 1] \in Nat
                             /\ walked[c].path = walk[m].path
    BY <1>9
  <2>4. k = m BY <1>1, <1>10, <2>1, <2>3 DEF Walks
  <2>5. Len(walked) \in Nat BY <1>8, SeqFacts
  <2>6. off[k] < b /\ b <= off[k + 1]
    <3>1. PICK d : d = off[k] OBVIOUS
    <3>2. PICK e : e = off[k + 1] OBVIOUS
    <3>3. d \in Nat /\ e \in Nat /\ d < a /\ c <= e BY <2>1, <2>3, <2>4, <3>1, <3>2
    <3> QED BY <1>10, <2>5, <3>1, <3>2, <3>3
  <2>7. k = l
    <3>1. k \in 1..Len(groups) /\ l \in 1..Len(groups) /\ b \in Nat BY <1>5, <2>5
    <3> QED BY <1>7, <2>2, <2>6, <3>1, LocatedOnce
  <2> QED BY <2>1, <2>2, <2>7
<1> QED BY <1>8, <1>10 DEF Together

-----------------------------------------------------------------------------
(* The texts in the workspace *)

LEMMA SymbolsSeq == ASSUME NEW text PROVE IsSymbols(text) <=> IsSeq(text)
BY DEF IsSymbols, IsSeq, ToSet

\* What write and edit are called with.
WriterCalled(call) ==
    LET arguments == call.arguments
    IN  /\ ToolNames[call.name] \in {"write", "edit"}
        /\ ToolNames[call.name] = "write" => IsSeq(arguments.content)
        /\ ToolNames[call.name] = "edit" =>
              /\ IsSeq(arguments.edits)
              /\ \A n \in 1..Len(arguments.edits) :
                    IsSeq(arguments.edits[n].old) /\ IsSeq(arguments.edits[n].new)

LEMMA ParsedWriter ==
    ASSUME NEW call, NEW text, call.arguments = Parsed(text), Writes(call)
    PROVE  WriterCalled(call)
<1>1. PICK tool : tool = ToolNames[call.name] OBVIOUS
<1>2. Refusal(call) = "none" /\ tool \in {"write", "edit"} BY <1>1 DEF Writes
<1>3. Valid(tool, call.arguments)
  <2>1. "tool_not_found" # "none" /\ "tool_arguments_invalid" # "none" OBVIOUS
  <2>2. Valid(ToolNames[call.name], call.arguments) BY <1>2, <2>1, Zenon DEF Refusal
  <2> QED BY <1>1, <2>2
<1>4. call.arguments # Raw /\ Required(tool) \subseteq DOMAIN call.arguments
  BY <1>3 DEF Valid
<1>5. "path" \in Required(tool) BY <1>2 DEF Required
<1>6. "path" \in DOMAIN call.arguments BY <1>4, <1>5
<1>7. text # <<>>
  <2>1. ASSUME text = <<>> PROVE FALSE
    <3>1. call.arguments = NoArguments BY <2>1 DEF Parsed
    <3>2. "path" \in DOMAIN NoArguments BY <1>6, <3>1
    <3> QED BY <3>2 DEF NoArguments
  <2> QED BY <2>1
<1>8. text \in DOMAIN Json
  <2>1. ASSUME text \notin DOMAIN Json PROVE FALSE
    <3>1. call.arguments = Raw BY <1>7, <2>1 DEF Parsed
    <3> QED BY <1>4, <3>1
  <2> QED BY <2>1
<1>9. PICK object : object = Json[text] OBVIOUS
<1>10. call.arguments = object BY <1>7, <1>8, <1>9 DEF Parsed
<1>11. /\ "content" \in DOMAIN object => IsSymbols(object.content)
       /\ "edits" \in DOMAIN object =>
             /\ object.edits \in Seq(ToSet(object.edits))
             /\ \A n \in DOMAIN object.edits :
                   IsSymbols(object.edits[n].old) /\ IsSymbols(object.edits[n].new)
  BY <1>8, <1>9, TextsAssumption
<1>12. ASSUME tool = "write" PROVE IsSeq(object.content)
  <2>1. "content" \in Required(tool) BY <1>12 DEF Required
  <2>2. "content" \in DOMAIN object BY <1>4, <1>10, <2>1
  <2> QED BY <1>11, <2>2, SymbolsSeq
<1>13. ASSUME tool = "edit"
       PROVE  /\ IsSeq(object.edits)
              /\ \A n \in 1..Len(object.edits) :
                    IsSeq(object.edits[n].old) /\ IsSeq(object.edits[n].new)
  <2>1. "edits" \in Required(tool) BY <1>13 DEF Required
  <2>2. "edits" \in DOMAIN object BY <1>4, <1>10, <2>1
  <2>3. PICK edits : edits = object.edits OBVIOUS
  <2>4. IsSymbols(edits) BY <1>11, <2>2, <2>3 DEF IsSymbols
  <2>5. IsSeq(edits) BY <2>4, SymbolsSeq
  <2>6. DOMAIN edits = 1..Len(edits) BY <2>5, SeqFacts
  <2>7. \A n \in 1..Len(edits) : IsSymbols(edits[n].old) /\ IsSymbols(edits[n].new)
    BY <1>11, <2>2, <2>3, <2>6
  <2>8. \A n \in 1..Len(edits) : IsSeq(edits[n].old) /\ IsSeq(edits[n].new)
    BY <2>7, SymbolsSeq
  <2> QED BY <2>3, <2>5, <2>8
<1> QED BY <1>1, <1>2, <1>10, <1>12, <1>13 DEF WriterCalled

\* The call that a run is at was made of what the provider sent.
LEMMA CurrentParsed ==
    ASSUME CallsWellFormed, TurnInv, StreamsInv, NEW r \in Runs, runs[r].stage \in Call
    PROVE  \E text : CallOf(runs[r]).arguments = Parsed(text)
<1>1. PICK me : me = runs[r] OBVIOUS
<1>2. StreamOK(me) /\ StageOK(me) BY <1>1, RunFacts DEF StreamsInv
<1>3. me.stage \in Called BY <1>1 DEF Call, Called
<1>4. PICK offers : offers = OfferedTo(me) OBVIOUS
<1>5. BuffersOK(offers, me.sent, me.buffers) /\ me.calls = AssembledFrom(me)
  BY <1>2, <1>3, <1>4 DEF StreamOK
<1>6. me.script \in Turns \cup {<<>>} BY <1>2 DEF StreamOK
<1>7. PICK size \in Nat : DOMAIN offers = 1..size BY <1>4, <1>6, OffersFacts
<1>8. PICK at : at = Indices(me.buffers) OBVIOUS
<1>9. Lists(at, DOMAIN me.buffers) BY <1>5, <1>7, <1>8, CallsOfRun
<1>10. DOMAIN AssembledFrom(me) = DOMAIN at BY <1>5, <1>7, <1>8, CallsOfRun
<1>11. \A i \in DOMAIN at :
          AssembledFrom(me)[i] = CallFrom(me.turn, at[i], Part(offers[at[i]], me.sent[at[i]]))
  BY <1>5, <1>7, <1>8, CallsOfRun
<1>12. PICK calls : calls = me.calls OBVIOUS
<1>13. DOMAIN calls = DOMAIN at BY <1>5, <1>10, <1>12
<1>14. PICK n : n = Len(me.replies) + 1 OBVIOUS
<1>15. n \in DOMAIN at
  <2>1. Len(me.replies) \in Nat /\ Len(me.replies) < Len(calls) BY <1>1, <1>2, <1>12 DEF StageOK
  <2>2. PICK D : D = DOMAIN me.buffers OBVIOUS
  <2>3. D \subseteq 1..size BY <1>5, <1>7, <2>2 DEF BuffersOK
  <2>4. IsFiniteSet(1..size) BY <1>7, FS_Interval
  <2>5. IsFiniteSet(D) BY <2>3, <2>4, FS_Subset
  <2>6. Cardinality(D) \in Nat BY <2>5, FS_CardinalityType
  <2>7. \E k \in Nat : DOMAIN at = 1..k BY <1>9, <2>2, <2>6 DEF Lists
  <2>8. PICK k \in Nat : DOMAIN calls = 1..k BY <1>13, <2>7
  <2>9. Len(calls) = k BY <2>8
  <2> QED BY <1>13, <1>14, <2>1, <2>8, <2>9
<1>16. PICK buffer : buffer = Part(offers[at[n]], me.sent[at[n]]) OBVIOUS
<1>17. calls[n] = CallFrom(me.turn, at[n], buffer) BY <1>5, <1>11, <1>12, <1>15, <1>16
<1>18. calls[n].arguments = Parsed(buffer.arguments) BY <1>17 DEF CallFrom
<1> QED BY <1>1, <1>12, <1>14, <1>18 DEF CallOf

\* Texts stay texts, and a write that has begun fits the file as it is.
TextsInv ==
    /\ \A p \in Paths : IsText(files[p]) => IsSeq(files[p])
    /\ \A r \in Runs : IsSeq(drafts[r].text)
    /\ \A r \in Runs : runs[r].stage \in Write => DraftWorks(CallOf(runs[r]))

LEMMA DecodedText ==
    ASSUME NEW bytes, IsSeq(bytes), NEW text, text = Decoded(bytes)
    PROVE  IsSeq(text)
<1>1. PICK size : size = Len(bytes) OBVIOUS
<1>2. size \in Nat /\ DOMAIN bytes = 1..size BY <1>1, SeqFacts
<1>3. text = [i \in 1..size |-> IF bytes[i] \in Invalid THEN Replacement ELSE bytes[i]]
  BY <1>2 DEF Decoded
<1>4. text = [i \in 1..size |-> text[i]] BY <1>3
<1> QED BY <1>2, <1>4, FunctionFacts

\* The text that a write stores is the one that the call asks for.
LEMMA DraftIntended ==
    ASSUME NEW call, WriterCalled(call), DraftWorks(call), TextsInv
    PROVE  /\ IsSeq(Draft(call))
           /\ Draft(call) = Intended(call, files[call.arguments.path])
<1>1. PICK tool : tool = ToolNames[call.name] OBVIOUS
<1>2. PICK arguments : arguments = call.arguments OBVIOUS
<1>3. CASE tool = "write"
  <2>1. Draft(call) = arguments.content /\ Intended(call, files[arguments.path]) = arguments.content
    BY <1>1, <1>2, <1>3 DEF Draft, Intended
  <2>2. IsSeq(arguments.content) BY <1>1, <1>2, <1>3 DEF WriterCalled
  <2> QED BY <1>2, <2>1, <2>2
<1>4. CASE tool # "write"
  <2>1. PICK edits : edits = arguments.edits OBVIOUS
  <2>2. PICK text : text = Content(arguments.path) OBVIOUS
  <2>3. tool = "edit" BY <1>1, <1>4 DEF WriterCalled
  <2>4. Found(arguments.path) /\ IsText(files[arguments.path]) /\ ~EditFails(text, edits)
        /\ ~Overlap(Spans(text, edits))
    BY <1>1, <1>2, <1>4, <2>1, <2>2 DEF DraftWorks
  <2>5. arguments.path \in Paths BY <2>4 DEF Found
  <2>6. IsSeq(text)
    <3>1. IsSeq(files[arguments.path]) BY <2>4, <2>5 DEF TextsInv
    <3> QED BY <2>2, <3>1, DecodedText DEF Content
  <2>7. IsSeq(edits) /\ \A n \in 1..Len(edits) : IsSeq(edits[n].old) /\ IsSeq(edits[n].new)
    BY <1>1, <1>2, <2>1, <2>3 DEF WriterCalled
  <2>8. Accepts(text, edits) BY <2>4, <2>6, <2>7 DEF Accepts
  <2>9. PICK new : new = Replaced(text, edits) OBVIOUS
  <2>10. new = Simultaneous(text, edits) /\ IsSeq(new) BY <2>8, <2>9, EditsAtOnce
  <2>11. Draft(call) = new BY <1>1, <1>2, <1>4, <2>1, <2>2, <2>9 DEF Draft
  <2>12. Intended(call, files[arguments.path]) = Simultaneous(text, edits)
    BY <1>1, <1>2, <1>4, <2>1, <2>2 DEF Intended, Content
  <2> QED BY <1>2, <2>10, <2>11, <2>12
<1> QED BY <1>3, <1>4

LEMMA WriterAtWork ==
    ASSUME CallsWellFormed, TurnInv, StreamsInv, TextsInv, NEW r \in Runs,
           runs[r].stage \in Write
    PROVE  /\ loop = r /\ WriterCalled(CallOf(runs[r])) /\ DraftWorks(CallOf(runs[r]))
           /\ Current(r) = CallOf(runs[r])
<1>1. DraftOK(r) BY RunFacts
<1>2. loop = r /\ Writes(CallOf(runs[r])) BY <1>1 DEF DraftOK
<1>3. runs[r].stage \in Call BY DEF Write, Call
<1>4. PICK text : CallOf(runs[r]).arguments = Parsed(text) BY <1>3, CurrentParsed
<1>5. PICK call : call = CallOf(runs[r]) OBVIOUS
<1>6. WriterCalled(call) BY <1>2, <1>4, <1>5, ParsedWriter
<1>7. DraftWorks(CallOf(runs[r])) BY DEF TextsInv
<1>8. Current(r) = CallOf(runs[r]) BY DEF Current, CallOf
<1> QED BY <1>2, <1>5, <1>6, <1>7, <1>8

\* A step behind which no tool holds the event loop.
LEMMA TextsRest ==
    ASSUME TurnInv, TurnInv', TextsInv, loop' = Nobody,
           \A p \in Paths : files'[p] = files[p] \/ IsSeq(files'[p]),
           \A q \in Runs : drafts'[q] \in {drafts[q], NoDraft}
    PROVE  TextsInv'
<1>1. \A p \in Paths : IsText(files'[p]) => IsSeq(files'[p]) BY DEF TextsInv
<1>2. IsSeq(NoDraft.text) BY EmptyCalls DEF NoDraft
<1>3. \A q \in Runs : IsSeq(drafts'[q].text) BY <1>2 DEF TextsInv
<1>4. ASSUME NEW q \in Runs PROVE runs'[q].stage \notin Write
  <2>1. q # Nobody BY ToolTurnAssumption
  <2>2. DraftOK(q)' BY DEF TurnInv
  <2> QED BY <2>1, <2>2 DEF DraftOK
<1> QED BY <1>1, <1>3, <1>4 DEF TextsInv

\* A step of the run that writes.
LEMMA TextsWrite ==
    ASSUME TurnInv, TurnInv', TextsInv, NEW r \in Runs, loop' = r, files' = files,
           NEW draft, drafts' = [drafts EXCEPT ![r] = draft], IsSeq(draft.text),
           DraftWorks(CallOf(runs[r])), CallOf(runs'[r]) = CallOf(runs[r])
    PROVE  TextsInv'
<1>1. \A p \in Paths : IsText(files'[p]) => IsSeq(files'[p]) BY DEF TextsInv
<1>2. \A q \in Runs : drafts'[q] = IF q = r THEN draft ELSE drafts[q] BY DEF TurnInv
<1>3. \A q \in Runs : IsSeq(drafts'[q].text) BY <1>2 DEF TextsInv
<1>4. ASSUME NEW q \in Runs, runs'[q].stage \in Write PROVE q = r
  <2>1. DraftOK(q)' BY DEF TurnInv
  <2> QED BY <1>4, <2>1 DEF DraftOK
<1>5. DraftWorks(CallOf(runs[r]))'
  <2>1. PICK call : call = CallOf(runs[r]) OBVIOUS
  <2>2. DraftWorks(call) BY <2>1
  <2>3. (CallOf(runs[r]))' = call BY <2>1 DEF CallOf
  <2> QED BY <2>2, <2>3 DEF DraftWorks, Found, Content
<1> QED BY <1>1, <1>3, <1>4, <1>5 DEF TextsInv

LEMMA TextsStep ==
    ASSUME CallsWellFormed, TurnInv, TurnInv', StreamsInv, TextsInv, [Next]_vars
    PROVE  TextsInv'
<1>1. ASSUME NEW r \in Runs, StartWrite(r) PROVE TextsInv'
  <2>1. CASE ~MayWrite(r) /\ Goes(r, Holding(r, "tool_failed"))
    <3>1. loop = Nobody /\ files' = files /\ drafts' = drafts /\ loop' = loop
      BY <1>1, <2>1 DEF StartWrite, At, Goes
    <3> QED BY <3>1, TextsRest
  <2>2. CASE /\ MayWrite(r)
             /\ drafts' = [drafts EXCEPT ![r].path = Current(r).arguments.path]
             /\ loop' = r
             /\ Becomes(r, [runs[r] EXCEPT !.stage = "writing"])
             /\ UNCHANGED <<files, mishaps>>
    <3>1. PICK path : path = Current(r).arguments.path OBVIOUS
    <3>2. PICK draft : draft = [drafts[r] EXCEPT !.path = path] OBVIOUS
    <3>3. DOMAIN drafts[r] = {"path", "text"} BY RunFacts DEF DraftOK
    <3>4. draft.text = drafts[r].text BY <3>2, <3>3
    <3>5. IsSeq(draft.text) BY <3>4 DEF TextsInv
    <3>6. drafts' = [drafts EXCEPT ![r] = draft] BY <2>2, <3>1, <3>2 DEF TurnInv
    <3>7. PICK new : new = [runs[r] EXCEPT !.stage = "writing"] OBVIOUS
    <3>8. DOMAIN runs[r] = Fields BY RunFacts
    <3>9. new.calls = runs[r].calls /\ new.replies = runs[r].replies BY <3>7, <3>8 DEF Fields
    <3>10. runs'[r] = new BY <2>2, <3>7 DEF Becomes, TurnInv
    <3>11. CallOf(runs'[r]) = CallOf(runs[r]) BY <3>9, <3>10 DEF CallOf
    <3>12. DraftWorks(CallOf(runs[r])) BY <2>2 DEF MayWrite, Current, CallOf
    <3>13. loop' = r /\ files' = files BY <2>2
    <3> QED BY <3>5, <3>6, <3>11, <3>12, <3>13, TextsWrite
  <2> QED BY <1>1, <2>1, <2>2 DEF StartWrite
<1>2. ASSUME NEW r \in Runs, WriteDraft(r) PROVE TextsInv'
  <2>1. runs[r].stage \in Write BY <1>2 DEF WriteDraft, Write
  <2>2. /\ loop = r /\ WriterCalled(CallOf(runs[r])) /\ DraftWorks(CallOf(runs[r]))
        /\ Current(r) = CallOf(runs[r])
    BY <2>1, WriterAtWork
  <2>3. PICK call : call = CallOf(runs[r]) OBVIOUS
  <2>4. IsSeq(Draft(call)) BY <2>2, <2>3, DraftIntended
  <2>5. PICK text : text = Draft(call) OBVIOUS
  <2>6. PICK draft : draft = [drafts[r] EXCEPT !.text = text] OBVIOUS
  <2>7. DOMAIN drafts[r] = {"path", "text"} BY RunFacts DEF DraftOK
  <2>8. IsSeq(draft.text) BY <2>4, <2>5, <2>6, <2>7
  <2>9. drafts' = [drafts EXCEPT ![r].text = text] BY <1>2, <2>2, <2>3, <2>5 DEF WriteDraft
  <2>10. drafts' = [drafts EXCEPT ![r] = draft] BY <2>6, <2>9 DEF TurnInv
  <2>11. PICK new : new = [runs[r] EXCEPT !.stage = "replacing"] OBVIOUS
  <2>12. DOMAIN runs[r] = Fields BY RunFacts
  <2>13. new.calls = runs[r].calls /\ new.replies = runs[r].replies BY <2>11, <2>12 DEF Fields
  <2>14. runs'[r] = new BY <1>2, <2>11 DEF WriteDraft, Becomes, TurnInv
  <2>15. CallOf(runs'[r]) = CallOf(runs[r]) BY <2>13, <2>14 DEF CallOf
  <2>16. loop' = r /\ files' = files BY <1>2, <2>2 DEF WriteDraft
  <2> QED BY <2>2, <2>8, <2>10, <2>15, <2>16, TextsWrite
<1>3. ASSUME NEW r \in Runs, ReplaceFile(r) PROVE TextsInv'
  <2>1. loop' = Nobody BY <1>3 DEF ReplaceFile
  <2>2. \A q \in Runs : drafts'[q] \in {drafts[q], NoDraft}
    BY <1>3 DEF ReplaceFile, TurnInv
  <2>3. IsSeq(drafts[r].text) BY DEF TextsInv
  <2>4. \A p \in Paths : files'[p] = files[p] \/ IsSeq(files'[p])
    <3>1. PICK path : path = drafts[r].path OBVIOUS
    <3>2. PICK text : text = drafts[r].text OBVIOUS
    <3>3. files' = [files EXCEPT ![path] = text] /\ DOMAIN files = Paths
      BY <1>3, <3>1, <3>2 DEF ReplaceFile, TurnInv
    <3>4. \A p \in Paths : files'[p] = files[p] \/ files'[p] = text BY <3>3
    <3> QED BY <2>3, <3>2, <3>4
  <2> QED BY <2>1, <2>2, <2>4, TextsRest
<1>4. ASSUME NEW r \in Runs, DiskFails(r) PROVE TextsInv'
  <2>1. loop' = Nobody /\ files' = files BY <1>4 DEF DiskFails
  <2>2. \A q \in Runs : drafts'[q] \in {drafts[q], NoDraft} BY <1>4 DEF DiskFails, TurnInv
  <2> QED BY <2>1, <2>2, TextsRest
<1>5. CASE Crash
  <2>1. loop' = Nobody /\ files' = files /\ drafts' = drafts BY <1>5 DEF Crash
  <2> QED BY <2>1, TextsRest
<1>6. CASE UNCHANGED vars
  <2>1. files' = files /\ drafts' = drafts /\ runs' = runs BY <1>6 DEF vars
  <2> QED BY <2>1 DEF TextsInv, DraftWorks, Found, CallOf, Content
<1>7. ASSUME NEW r \in Runs,
             \/ BeginTurn(r) \/ Ask(r) \/ AskAgain(r) \/ ProviderFails(r) \/ Receive(r)
             \/ EndStream(r) \/ Announce(r) \/ StartTool(r) \/ Reply(r)
             \/ Abort(r) \/ LeaveCancelled(r) \/ LeaveClosed(r)
      PROVE  TextsInv'
  <2>1. loop = Nobody /\ loop' = loop /\ files' = files /\ drafts' = drafts
    BY <1>7 DEF BeginTurn, Ask, AskAgain, ProviderFails, Receive, EndStream, Announce,
                StartTool, Reply, Abort, LeaveCancelled, LeaveClosed, At, Goes
  <2> QED BY <2>1, TextsRest
<1> QED BY <1>1, <1>2, <1>3, <1>4, <1>5, <1>6, <1>7 DEF Next

LEMMA TextsAlwaysOK == CallsWellFormed => (Spec => []TextsInv)
<1> SUFFICES ASSUME CallsWellFormed PROVE Spec => []TextsInv OBVIOUS
<1>1. Init => TextsInv
  <2> SUFFICES ASSUME Init PROVE TextsInv OBVIOUS
  <2>1. \A p \in Paths : IsText(files[p]) => IsSeq(files[p])
    BY TextsAssumption, SymbolsSeq DEF Init
  <2>2. ASSUME NEW r \in Runs PROVE IsSeq(drafts[r].text) /\ runs[r].stage \notin Write
    <3>1. drafts[r] = NoDraft BY DEF Init
    <3>2. IsSeq(NoDraft.text) BY EmptyCalls DEF NoDraft
    <3>3. PICK turns : runs[r] = Waiting(turns) BY DEF Init
    <3>4. runs[r].stage = "waiting" BY <3>3 DEF Waiting
    <3> QED BY <3>1, <3>2, <3>4 DEF Write
  <2> QED BY <2>1, <2>2 DEF TextsInv
<1>2. TurnInv /\ TurnInv' /\ StreamsInv /\ TextsInv /\ [Next]_vars => TextsInv' BY TextsStep
<1>3. Spec => []StreamsInv BY StreamsAlwaysOK
<1> QED BY <1>1, <1>2, <1>3, TurnInvariant, PTL DEF Spec

\* A file changes to what its call asks for of the file as it was.
EffectsIntended ==
    \A p \in Paths : files'[p] # files[p] =>
        \E r \in Runs : /\ loop = r
                        /\ Writes(Current(r)) /\ Current(r).arguments.path = p
                        /\ files'[p] = Intended(Current(r), files[p])

LEMMA StepIntended ==
    ASSUME CallsWellFormed, TurnInv, StreamsInv, TextsInv, [Next]_vars
    PROVE  EffectsIntended
<1>1. ASSUME NEW r \in Runs, ReplaceFile(r) PROVE EffectsIntended
  <2>1. PICK path : path = drafts[r].path OBVIOUS
  <2>2. PICK text : text = drafts[r].text OBVIOUS
  <2>3. runs[r].stage = "replacing" /\ files' = [files EXCEPT ![path] = text]
    BY <1>1, <2>1, <2>2 DEF ReplaceFile
  <2>4. DraftOK(r) /\ runs[r].stage \in Write BY <2>3, RunFacts DEF Write
  <2>5. PICK call : call = CallOf(runs[r]) OBVIOUS
  <2>6. Writes(call) /\ path = call.arguments.path /\ text = Draft(call)
    BY <2>1, <2>2, <2>3, <2>4, <2>5 DEF DraftOK
  <2>7. loop = r /\ WriterCalled(call) /\ DraftWorks(call) /\ Current(r) = call
    BY <2>4, <2>5, WriterAtWork
  <2>8. Draft(call) = Intended(call, files[call.arguments.path]) BY <2>7, DraftIntended
  <2>9. \A p \in Paths : files'[p] # files[p] => p = path /\ files'[p] = text
    BY <2>3 DEF TurnInv
  <2>10. text = Intended(call, files[path]) BY <2>6, <2>8
  <2> QED BY <2>6, <2>7, <2>9, <2>10 DEF EffectsIntended
<1>2. CASE UNCHANGED files
  BY <1>2 DEF EffectsIntended
<1>3. UNCHANGED files \/ \E r \in Runs : ReplaceFile(r)
  BY DEF Next, vars, Crash, BeginTurn, Ask, AskAgain, ProviderFails, Receive, EndStream,
         Announce, StartTool, StartWrite, WriteDraft, DiskFails, Reply, Abort,
         LeaveCancelled, LeaveClosed, Goes
<1> QED BY <1>1, <1>2, <1>3

\* A file changes only by the call in flight, from what it held at that moment to exactly
\* what the call asks for: write's content, or all the edits at once, whatever other runs
\* did since the model read it and wherever a disk error or a crash strikes; and the model
\* is told of success exactly when the file was replaced.
THEOREM EffectsAlwaysAsReplied == CallsWellFormed => (Spec => EffectsAsReplied)
<1> SUFFICES ASSUME CallsWellFormed PROVE Spec => EffectsAsReplied OBVIOUS
<1> DEFINE Step == EffectsIntended /\ \A r \in Runs : RepliesTell(r)
<1>1. TurnInv /\ StreamsInv /\ TextsInv /\ [Next]_vars => Step
  BY StepIntended, StepTells
<1>2. Spec => []StreamsInv BY StreamsAlwaysOK
<1>3. Spec => []TextsInv BY TextsAlwaysOK
<1>4. Step =>
       /\ \A p \in Paths : files'[p] # files[p] =>
             \E r \in Runs : /\ loop = r
                             /\ Writes(Current(r)) /\ Current(r).arguments.path = p
                             /\ files'[p] = Intended(Current(r), files[p])
       /\ \A r \in Runs :
             LET me == runs[r]
             IN  /\ Len(runs'[r].replies) > Len(me.replies) =>
                       me.performed = (Writes(Current(r)) /\ Last(runs'[r].replies) = "ok")
                 /\ me.performed /\ runs'[r].finish # me.finish =>
                       runs'[r].finish \in {"aborted", "closed", "crashed"}
  BY Zenon DEF EffectsIntended, RepliesTell
<1> HIDE DEF Step
<1> QED BY <1>1, <1>2, <1>3, <1>4, TurnInvariant, PTL DEF Spec, EffectsAsReplied

-----------------------------------------------------------------------------
(* The walk: what crashes left, then the files by name *)

LEMMA ListedOnce ==
    ASSUME NEW S, IsFiniteSet(S), NEW q, q = SetToSeq(S)
    PROVE  IsSeq(q) /\ Distinct(q) /\ \A k \in 1..Len(q) : q[k] \in S
<1>1. PICK n : n = Cardinality(S) OBVIOUS
<1>2. n \in Nat /\ ExistsBijection(1..n, S) BY <1>1, FS_CardinalityType
<1>3. PICK f : f \in Bijection(1..n, S) BY <1>2 DEF ExistsBijection
<1>4. f \in [1..n -> S] /\ IsInjective(f) BY <1>3 DEF Bijection, Injection
<1>5. q = CHOOSE g \in [1..n -> S] : IsInjective(g) BY <1>1 DEF SetToSeq
<1>6. q \in [1..n -> S] /\ IsInjective(q) BY <1>4, <1>5, Zenon
<1>7. IsSeq(q) /\ Len(q) = n /\ DOMAIN q = 1..n
  <2>1. q = [k \in 1..n |-> q[k]] BY <1>6
  <2> QED BY <1>2, <2>1, FunctionFacts
<1> QED BY <1>6, <1>7 DEF Distinct, IsInjective

\* The files that a crash left temporary.
Left == {r \in Runs : drafts[r] # NoDraft}

LEMMA LeftFinite ==
    ASSUME TurnInv, TurnInv', IsFiniteSet(Left), [Next]_vars
    PROVE  IsFiniteSet(Left')
<1>1. ASSUME NEW r, \A q \in Runs : q # r => drafts'[q] \in {drafts[q], NoDraft}
      PROVE  IsFiniteSet(Left')
  <2>1. PICK more : more = Left \cup {r} OBVIOUS
  <2>2. IsFiniteSet(more) BY <2>1, FS_AddElement
  <2>3. Left' \subseteq more BY <1>1, <2>1 DEF Left
  <2>4. PICK next : next = Left' OBVIOUS
  <2> QED BY <2>2, <2>3, <2>4, FS_Subset
<1>2. ASSUME NEW r \in Runs, StartWrite(r)
      PROVE  \A q \in Runs : q # r => drafts'[q] \in {drafts[q], NoDraft}
  BY <1>2 DEF StartWrite, Goes, TurnInv
<1>3. ASSUME NEW r \in Runs, WriteDraft(r) \/ ReplaceFile(r) \/ DiskFails(r)
      PROVE  \A q \in Runs : q # r => drafts'[q] \in {drafts[q], NoDraft}
  BY <1>3 DEF WriteDraft, ReplaceFile, DiskFails, TurnInv
<1>4. CASE UNCHANGED drafts
  <2>1. \A q \in Runs : q # Nobody => drafts'[q] \in {drafts[q], NoDraft} BY <1>4
  <2> QED BY <1>1, <2>1
<1>5. \/ UNCHANGED drafts
      \/ \E r \in Runs : StartWrite(r) \/ WriteDraft(r) \/ ReplaceFile(r) \/ DiskFails(r)
  BY DEF Next, vars, Crash, BeginTurn, Ask, AskAgain, ProviderFails, Receive, EndStream,
         Announce, StartTool, Reply, Abort, LeaveCancelled, LeaveClosed, Goes
<1> QED BY <1>1, <1>2, <1>3, <1>4, <1>5

LEMMA LeftAlwaysFinite == Spec => []IsFiniteSet(Left)
<1>1. Init => IsFiniteSet(Left)
  <2> SUFFICES ASSUME Init PROVE IsFiniteSet(Left) OBVIOUS
  <2>1. Left = {} BY DEF Init, Left
  <2> QED BY <2>1, FS_EmptySet
<1>2. TurnInv /\ TurnInv' /\ IsFiniteSet(Left) /\ [Next]_vars => IsFiniteSet(Left)'
  <2> SUFFICES ASSUME TurnInv, TurnInv', IsFiniteSet(Left), [Next]_vars
               PROVE  IsFiniteSet(Left)'
    OBVIOUS
  <2>1. IsFiniteSet(Left') BY LeftFinite
  <2> QED BY <2>1
<1> QED BY <1>1, <1>2, TurnInvariant, PTL DEF Spec

\* What is picked comes from different places.
PickedAt(at, r, q, places) ==
    /\ \A k \in 1..Len(r) : /\ at[k] \in places /\ at[k] \in 1..Len(q)
                            /\ r[k] = q[at[k]]
    /\ \A k \in 1..Len(r) : \A l \in 1..Len(r) : at[k] = at[l] => k = l

LEMMA PickApart ==
    ASSUME NEW q, IsSeq(q), NEW places, NEW r, r = Pick(q, places)
    PROVE  \E at : PickedAt(at, r, q, places)
<1>1. PICK at : /\ IsSeq(at) /\ Len(at) = Len(r)
                /\ at = Ascending(places, Len(q))
                /\ \A k \in 1..Len(r) : /\ at[k] \in places /\ at[k] \in 1..Len(q)
                                        /\ r[k] = q[at[k]]
                /\ \A k \in 1..Len(r) : \A l \in (k + 1)..Len(r) : at[k] < at[l]
                /\ \A i \in 1..Len(q) : i \in places =>
                      \E k \in 1..Len(r) : at[k] = i
  BY PickFacts
<1>2. Len(r) \in Nat /\ Len(q) \in Nat
  <2>1. IsSeq(r) BY PickFacts
  <2> QED BY <2>1, SeqFacts
<1>3. ASSUME NEW k \in 1..Len(r), NEW l \in 1..Len(r), at[k] = at[l] PROVE k = l
  <2>1. at[k] \in 1..Len(q) /\ at[l] \in 1..Len(q) BY <1>1
  <2>2. ~(at[k] < at[l]) /\ ~(at[l] < at[k]) BY <1>2, <1>3, <2>1
  <2>3. k \notin (l + 1)..Len(r) /\ l \notin (k + 1)..Len(r) BY <1>1, <2>2
  <2> QED BY <1>2, <2>3
<1>4. PickedAt(at, r, q, places) BY <1>1, <1>3 DEF PickedAt
<1> QED BY <1>4

\* The walk names each file once, and what is a text is one.
Files(walk) ==
    /\ IsSeq(walk)
    /\ \A f \in 1..Len(walk) : IsText(walk[f].text) => IsSeq(walk[f].text)
    /\ \A f \in 1..Len(walk) : \A g \in 1..Len(walk) : walk[f].path = walk[g].path => f = g

LEMMA FilesConcat ==
    ASSUME NEW a, NEW b, Files(a), Files(b), NEW c, c = a \o b,
           \A f \in 1..Len(a) : \A g \in 1..Len(b) : a[f].path # b[g].path
    PROVE  Files(c)
<1>1. IsSeq(a) /\ IsSeq(b) BY DEF Files
<1>2. PICK m : m = Len(a) OBVIOUS
<1>3. PICK n : n = Len(b) OBVIOUS
<1>4. IsSeq(c) BY <1>1, ConcatFacts
<1>5. Len(c) = m + n /\ m \in Nat /\ n \in Nat BY <1>1, <1>2, <1>3, ConcatFacts
<1>6. \A i \in 1..m : c[i] = a[i] BY <1>1, <1>2, ConcatFacts
<1>7. \A i \in 1..n : c[m + i] = b[i] BY <1>1, <1>2, <1>3, ConcatFacts
<1>8. ASSUME NEW k \in 1..Len(c)
      PROVE  \/ k \in 1..m /\ c[k] = a[k]
             \/ k - m \in 1..n /\ c[k] = b[k - m]
  <2>1. CASE k <= m BY <1>5, <1>6, <2>1
  <2>2. CASE ~(k <= m)
    <3>1. k - m \in 1..n /\ m + (k - m) = k BY <1>5, <2>2
    <3>2. c[m + (k - m)] = b[k - m] BY <1>7, <3>1
    <3> QED BY <3>1, <3>2
  <2> QED BY <2>1, <2>2
<1>9. ASSUME NEW f \in 1..Len(c), IsText(c[f].text) PROVE IsSeq(c[f].text)
  <2>1. CASE f \in 1..m /\ c[f] = a[f] BY <1>2, <1>9, <2>1 DEF Files
  <2>2. CASE f - m \in 1..n /\ c[f] = b[f - m] BY <1>3, <1>9, <2>2 DEF Files
  <2> QED BY <1>8, <2>1, <2>2
<1>10. ASSUME NEW f \in 1..Len(c), NEW g \in 1..Len(c), c[f].path = c[g].path PROVE f = g
  <2>1. CASE f \in 1..m /\ c[f] = a[f]
    <3>1. CASE g \in 1..m /\ c[g] = a[g] BY <1>2, <1>10, <2>1, <3>1 DEF Files
    <3>2. CASE g - m \in 1..n /\ c[g] = b[g - m] BY <1>2, <1>3, <1>10, <2>1, <3>2
    <3> QED BY <1>8, <3>1, <3>2
  <2>2. CASE f - m \in 1..n /\ c[f] = b[f - m]
    <3>1. CASE g \in 1..m /\ c[g] = a[g] BY <1>2, <1>3, <1>10, <2>2, <3>1
    <3>2. CASE g - m \in 1..n /\ c[g] = b[g - m]
      <4>1. f - m = g - m BY <1>3, <1>10, <2>2, <3>2 DEF Files
      <4> QED BY <1>5, <4>1
    <3> QED BY <1>8, <3>1, <3>2
  <2> QED BY <1>8, <2>1, <2>2
<1> QED BY <1>4, <1>9, <1>10 DEF Files

LEMMA WalkFiles ==
    ASSUME TextsInv, IsFiniteSet(Left), NEW walk, walk = Walk
    PROVE  Files(walk)
<1>1. PICK left : left = SetToSeq(Left) OBVIOUS
<1>2. IsSeq(left) BY <1>1, ListedOnce
<1>3. Distinct(left) BY <1>1, ListedOnce
<1>4. \A k \in 1..Len(left) : left[k] \in Runs
  <2>1. \A k \in 1..Len(left) : left[k] \in Left BY <1>1, ListedOnce
  <2> QED BY <2>1 DEF Left
<1>5. PICK places : places = {i \in DOMAIN PathOrder :
                                 /\ files[PathOrder[i]] \notin {Missing, Folder}
                                 /\ PathOrder[i] \notin Ignored}
  OBVIOUS
<1>6. PICK named : named = Pick(PathOrder, places) OBVIOUS
<1>7. IsSeq(PathOrder)
  <2>1. PathOrder \in Seq(Paths) BY TextsAssumption
  <2> QED BY <2>1, OwnElements
<1>8. DOMAIN PathOrder = 1..Len(PathOrder) BY <1>7, SeqFacts
<1>9. IsSeq(named) BY <1>6, <1>7, PickFacts
<1>10. PICK at : PickedAt(at, named, PathOrder, places) BY <1>6, <1>7, PickApart
<1>11. \A k \in 1..Len(named) : named[k] \in Paths
  <2>1. \A i \in 1..Len(PathOrder) : PathOrder[i] \in Paths
    <3>1. PathOrder \in Seq(Paths) BY TextsAssumption
    <3>2. PICK size : size = Len(PathOrder) OBVIOUS
    <3>3. PICK order : order = PathOrder OBVIOUS
    <3>4. order \in Seq(Paths) /\ size = Len(order) BY <3>1, <3>2, <3>3
    <3>5. \A i \in 1..size : order[i] \in Paths BY <3>4
    <3> QED BY <3>2, <3>3, <3>5
  <2> QED BY <1>10, <2>1 DEF PickedAt
<1>12. ASSUME NEW k \in 1..Len(named), NEW l \in 1..Len(named), named[k] = named[l]
       PROVE  k = l
  <2>1. at[k] \in DOMAIN PathOrder /\ at[l] \in DOMAIN PathOrder
        /\ PathOrder[at[k]] = PathOrder[at[l]]
    BY <1>8, <1>10, <1>12 DEF PickedAt
  <2>2. at[k] = at[l] BY <2>1, TextsAssumption
  <2> QED BY <1>10, <2>2 DEF PickedAt
<1>13. PICK m : m = Len(left) OBVIOUS
<1>14. PICK n : n = Len(named) OBVIOUS
<1>15. m \in Nat /\ DOMAIN left = 1..m BY <1>2, <1>13, SeqFacts
<1>16. n \in Nat /\ DOMAIN named = 1..n BY <1>9, <1>14, SeqFacts
<1>17. PICK a : a = [k \in 1..m |-> [path |-> <<"left by", left[k]>>,
                                     text |-> drafts[left[k]].text]]
  OBVIOUS
<1>18. PICK b : b = [k \in 1..n |-> [path |-> named[k], text |-> files[named[k]]]] OBVIOUS
<1>19. walk = a \o b
  <2> DEFINE left0 == SetToSeq({r \in Runs : drafts[r] # NoDraft})
             named0 == Pick(PathOrder, {i \in DOMAIN PathOrder :
                                           /\ files[PathOrder[i]] \notin {Missing, Folder}
                                           /\ PathOrder[i] \notin Ignored})
             Both(x, y) ==
               [k \in DOMAIN x |-> [path |-> <<"left by", x[k]>>, text |-> drafts[x[k]].text]]
               \o [k \in DOMAIN y |-> [path |-> y[k], text |-> files[y[k]]]]
  <2>1. walk = Both(left0, named0) BY Zenon DEF Walk
  <2>2. left0 = left BY <1>1 DEF Left
  <2>3. named0 = named BY <1>5, <1>6
  <2> HIDE DEF left0, named0
  <2>4. walk = Both(left, named) BY <2>1, <2>2, <2>3
  <2> QED BY <1>15, <1>16, <1>17, <1>18, <2>4
<1>20. IsSeq(a) /\ Len(a) = m
  <2>1. a = [k \in 1..m |-> a[k]] BY <1>17
  <2> QED BY <1>15, <2>1, FunctionFacts
<1>21. IsSeq(b) /\ Len(b) = n
  <2>1. b = [k \in 1..n |-> b[k]] BY <1>18
  <2> QED BY <1>16, <2>1, FunctionFacts
<1>22. ASSUME NEW k \in 1..m
       PROVE  /\ a[k].path = <<"left by", left[k]>> /\ left[k] \in Runs
              /\ IsSeq(a[k].text)
  <2>1. PICK path : path = <<"left by", left[k]>> OBVIOUS
  <2>2. PICK text : text = drafts[left[k]].text OBVIOUS
  <2>3. a[k] = [path |-> path, text |-> text] BY <1>17, <2>1, <2>2
  <2>4. a[k].path = path /\ a[k].text = text BY <2>3
  <2>5. left[k] \in Runs BY <1>4, <1>13
  <2>6. IsSeq(text) BY <2>2, <2>5 DEF TextsInv
  <2> QED BY <2>1, <2>4, <2>5, <2>6
<1>23. ASSUME NEW k \in 1..n
       PROVE  /\ b[k].path = named[k] /\ named[k] \in Paths
              /\ IsText(b[k].text) => IsSeq(b[k].text)
  <2>1. PICK path : path = named[k] OBVIOUS
  <2>2. PICK text : text = files[path] OBVIOUS
  <2>3. b[k] = [path |-> path, text |-> text] BY <1>18, <2>1, <2>2
  <2>4. b[k].path = path /\ b[k].text = text BY <2>3
  <2>5. path \in Paths BY <1>11, <1>14, <2>1
  <2>6. IsText(text) => IsSeq(text) BY <2>2, <2>5 DEF TextsInv
  <2> QED BY <2>1, <2>4, <2>5, <2>6
<1>24. Files(a)
  <2>1. ASSUME NEW k \in 1..m, NEW l \in 1..m, a[k].path = a[l].path PROVE k = l
    <3>1. <<"left by", left[k]>> = <<"left by", left[l]>> BY <1>22, <2>1
    <3>2. left[k] = left[l] BY <3>1
    <3> QED BY <1>3, <1>13, <3>2 DEF Distinct
  <2> QED BY <1>20, <1>22, <2>1 DEF Files
<1>25. Files(b)
  <2>1. ASSUME NEW k \in 1..n, NEW l \in 1..n, b[k].path = b[l].path PROVE k = l
    <3>1. named[k] = named[l] BY <1>23, <2>1
    <3> QED BY <1>12, <1>14, <3>1
  <2> QED BY <1>21, <1>23, <2>1 DEF Files
<1>26. \A f \in 1..Len(a) : \A g \in 1..Len(b) : a[f].path # b[g].path
  <2> SUFFICES ASSUME NEW f \in 1..m, NEW g \in 1..n PROVE a[f].path # b[g].path
    BY <1>20, <1>21
  <2>1. <<"left by", left[f]>> \notin Paths BY <1>22, TextsAssumption
  <2> QED BY <1>22, <1>23, <2>1
<1> QED BY <1>19, <1>24, <1>25, <1>26, FilesConcat

LEMMA TextFiles ==
    ASSUME NEW walk, Files(walk), NEW texts,
           texts = Pick(walk, {i \in DOMAIN walk : IsText(walk[i].text)})
    PROVE  Walks(texts)
<1>1. IsSeq(walk) BY DEF Files
<1>2. PICK places : places = {i \in DOMAIN walk : IsText(walk[i].text)} OBVIOUS
<1>3. texts = Pick(walk, places) BY <1>2
<1>4. IsSeq(texts) BY <1>1, <1>3, PickFacts
<1>5. PICK at : PickedAt(at, texts, walk, places) BY <1>1, <1>3, PickApart
<1>6. \A f \in 1..Len(texts) : IsSeq(texts[f].text) BY <1>2, <1>5 DEF Files, PickedAt
<1>7. ASSUME NEW f \in 1..Len(texts), NEW g \in 1..Len(texts), texts[f].path = texts[g].path
      PROVE  f = g
  <2>1. at[f] = at[g] BY <1>5, <1>7 DEF Files, PickedAt
  <2> QED BY <1>5, <2>1 DEF PickedAt
<1> QED BY <1>4, <1>6, <1>7 DEF Walks

LEMMA DecodedFiles ==
    ASSUME NEW raw, Walks(raw), NEW texts,
           texts = [n \in DOMAIN raw |-> [path |-> raw[n].path, text |-> Decoded(raw[n].text)]]
    PROVE  Walks(texts)
<1>1. PICK size : size = Len(raw) OBVIOUS
<1>2. size \in Nat /\ DOMAIN raw = 1..size BY <1>1, SeqFacts DEF Walks
<1>3. texts = [n \in 1..size |-> [path |-> raw[n].path, text |-> Decoded(raw[n].text)]]
  BY <1>2
<1>4. texts = [n \in 1..size |-> texts[n]] BY <1>3
<1>5. IsSeq(texts) /\ Len(texts) = size BY <1>2, <1>4, FunctionFacts
<1>6. ASSUME NEW n \in 1..size
      PROVE  texts[n].path = raw[n].path /\ IsSeq(texts[n].text)
  <2>1. PICK path : path = raw[n].path OBVIOUS
  <2>2. PICK bytes : bytes = raw[n].text OBVIOUS
  <2>3. PICK text : text = Decoded(bytes) OBVIOUS
  <2>4. texts[n] = [path |-> path, text |-> text] BY <1>3, <2>1, <2>2, <2>3
  <2>5. IsSeq(bytes) BY <1>1, <2>2 DEF Walks
  <2>6. IsSeq(text) BY <2>3, <2>5, DecodedText
  <2> QED BY <2>1, <2>4, <2>6
<1> QED BY <1>1, <1>5, <1>6 DEF Walks

\* What the tools show of a workspace of texts.
LEMMA TextsSeen ==
    ASSUME TextsInv, IsFiniteSet(Left)
    PROVE  ViewsHold
<1>1. ASSUME NEW p \in Paths, IsText(files[p]),
             NEW offset \in DOMAIN Lines(Content(p)), NEW limit \in 1..(MaxReadLines + 1)
      PROVE  PageHolds(Content(p), offset, limit)
  <2>1. PICK text : text = Content(p) OBVIOUS
  <2>2. IsSeq(text)
    <3>1. IsSeq(files[p]) BY <1>1 DEF TextsInv
    <3> QED BY <2>1, <3>1, DecodedText DEF Content
  <2>3. limit \in Nat \ {0} BY FileToolsAssumption
  <2>4. offset \in DOMAIN Lines(text) BY <2>1
  <2>5. PageHolds(text, offset, limit) BY <2>2, <2>3, <2>4, PagesHold
  <2> QED BY <2>1, <2>5
<1>2. PICK walk : walk = Walk OBVIOUS
<1>3. Files(walk) BY <1>2, WalkFiles
<1>4. PICK texts : texts = Texts OBVIOUS
<1>5. PICK walked : walked = WalkedLines(texts) OBVIOUS
<1>6. Together(walked)
  <2>1. PICK raw : raw = Pick(walk, {i \in DOMAIN walk : IsText(walk[i].text)}) OBVIOUS
  <2>2. Walks(raw) BY <1>3, <2>1, TextFiles
  <2>3. texts = [n \in DOMAIN raw |-> [path |-> raw[n].path, text |-> Decoded(raw[n].text)]]
    BY <1>2, <1>4, <2>1 DEF Texts
  <2>4. Walks(texts) BY <2>2, <2>3, DecodedFiles
  <2> QED BY <1>5, <2>4, LinesTogether
<1>7. ASSUME NEW pattern, NEW context \in 0..1, NEW limit \in 1..2
      PROVE  GrepHolds(walked, pattern, context, limit)
  <2>1. context \in Nat /\ limit \in Nat OBVIOUS
  <2> QED BY <1>6, <2>1, GrepsHold
<1>8. PICK paths : paths = [n \in DOMAIN walk |-> walk[n].path] OBVIOUS
<1>9. IsSeq(paths) /\ Distinct(paths)
  <2>1. PICK size : size = Len(walk) OBVIOUS
  <2>2. size \in Nat /\ DOMAIN walk = 1..size BY <1>3, <2>1, SeqFacts DEF Files
  <2>3. paths = [n \in 1..size |-> walk[n].path] BY <1>8, <2>2
  <2>4. paths = [n \in 1..size |-> paths[n]] BY <2>3
  <2>5. IsSeq(paths) /\ Len(paths) = size BY <2>2, <2>4, FunctionFacts
  <2>6. ASSUME NEW k \in 1..size, NEW l \in 1..size, paths[k] = paths[l] PROVE k = l
    <3>1. walk[k].path = walk[l].path BY <2>3, <2>6
    <3> QED BY <1>3, <2>1, <3>1 DEF Files
  <2> QED BY <2>5, <2>6 DEF Distinct
<1>10. ASSUME NEW matching, NEW limit \in 1..2 PROVE FindHolds(paths, matching, limit)
  <2>1. limit \in Nat OBVIOUS
  <2> QED BY <1>9, <2>1, FindsHold
<1>11. LET all == WalkedLines(Texts)
       IN  \A pattern \in UNION {ToSet(all[i].text) : i \in DOMAIN all},
              context \in 0..1, limit \in 1..2 : GrepHolds(all, pattern, context, limit)
  <2> DEFINE all == WalkedLines(Texts)
  <2>1. all = walked BY <1>4, <1>5
  <2> HIDE DEF all
  <2>2. \A pattern \in UNION {ToSet(all[i].text) : i \in DOMAIN all},
           context \in 0..1, limit \in 1..2 : GrepHolds(all, pattern, context, limit)
    BY <1>7, <2>1
  <2> USE DEF all
  <2> QED BY <2>2, Zenon
<1>12. LET all == [n \in DOMAIN Walk |-> Walk[n].path]
       IN  \A p \in ToSet(all), limit \in 1..2 :
              \A matching \in {{p}, ToSet(all) \ {p}} : FindHolds(all, matching, limit)
  <2> DEFINE all == [n \in DOMAIN Walk |-> Walk[n].path]
  <2>1. all = paths BY <1>2, <1>8
  <2> HIDE DEF all
  <2>2. \A p \in ToSet(all), limit \in 1..2 :
           \A matching \in {{p}, ToSet(all) \ {p}} : FindHolds(all, matching, limit)
    BY <1>10, <2>1
  <2> USE DEF all
  <2> QED BY <2>2, Zenon
<1> QED BY <1>1, <1>11, <1>12, Zenon DEF ViewsHold

\* Whatever the runs have made of the workspace and a crash has left in it, a page of a
\* text shows what comes first, says when that is not all, and goes on; grep shows every
\* match once, in order, unless it says that it stopped; find leaves a path out only
\* behind as many as it may show.
THEOREM ViewsAlwaysHold == CallsWellFormed => (Spec => []ViewsHold)
<1> SUFFICES ASSUME CallsWellFormed PROVE Spec => []ViewsHold OBVIOUS
<1>1. TextsInv /\ IsFiniteSet(Left) => ViewsHold BY TextsSeen
<1>2. Spec => []TextsInv BY TextsAlwaysOK
<1> QED BY <1>1, <1>2, LeftAlwaysFinite, PTL
=============================================================================
