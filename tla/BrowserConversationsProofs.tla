---------------------- MODULE BrowserConversationsProofs ----------------------
(***************************************************************************)
(* Two invariants of the browser, for any number of sessions, messages,    *)
(* clicks, reloads and failing transactions, and any conversations.  The   *)
(* first follows the operations on the database from their call to the     *)
(* moment that the page hears of them: a conversation that is deleted      *)
(* while nothing stores it is gone for good (DeletedStaysGone).  The       *)
(* second follows every copy of a conversation (ContextsMatch,             *)
(* HistoryKept, StoredIsShown): those in the cache, in the saves that      *)
(* wait, in the database, in a load that the page has not heard of, and    *)
(* the one that the message under way continues.                           *)
(***************************************************************************)
EXTENDS BrowserConversations, TLAPS

-----------------------------------------------------------------------------
(* The invariant *)

Fields == {"kind", "session", "result", "title", "held", "titles", "alive", "streaming"}
Kinds == {"list", "create", "load", "save", "rename", "name", "delete"}

\* The operations that change a session's records.
Changes == {"create", "save", "rename", "name", "delete"}

IsSeq(q) == q \in Seq({q[n] : n \in DOMAIN q})

\* An operation by itself.
WellFormed(op) ==
    /\ DOMAIN op = Fields
    /\ op.kind \in Kinds /\ op.result \in {"none", "ok", "failed"}
    /\ op.kind # "list" => op.session \in Sessions
    /\ op.kind \in {"rename", "name"} /\ op.result = "none" => op.title # NoTitle
    /\ op.kind = "list" /\ op.result = "ok" => DOMAIN op.titles = Sessions

\* An operation, and one that was called later.
InLine(op, later) ==
    /\ later.result # "none" => op.result # "none"
    /\ op.kind \in {"create", "name"} => later.kind \notin {"create", "name"}
    /\ op.session = later.session /\ op.kind \in Changes /\ later.kind \in Changes =>
          /\ op.kind # "create" /\ later.kind # "create"
          /\ op.kind = "save" => later.kind # "save"
          /\ op.kind = "delete" /\ op.result = "ok" /\ later.result = "ok" =>
                later.title = NoTitle

\* Once a session is deleted nothing of it is in the database, unless a save follows.
AfterDelete(q, database) ==
    \A n \in DOMAIN q : q[n].kind = "delete" /\ q[n].result = "ok" =>
        \/ database[q[n].session] = Absent
        \/ \E m \in (n + 1)..Len(q) : q[m].kind = "save" /\ q[m].session = q[n].session

QueueOK(q, database) ==
    /\ IsSeq(q)
    /\ \A n \in DOMAIN q : WellFormed(q[n])
    /\ \A n \in DOMAIN q : \A m \in (n + 1)..Len(q) : InLine(q[n], q[m])
    /\ AfterDelete(q, database)

Ops(q) == {q[n] : n \in DOMAIN q}

Recorded(s) == disk[s].title # NoTitle \/ s \in past.deleted

\* An operation, and what the page knows of its session.
Linked(op) ==
    LET s == op.session
    IN  /\ op.kind = "create" => /\ sender.stage = "creating" /\ sender.session = s
                                 /\ list[s] = NoTitle
        /\ op.kind = "name" => sender.stage = "naming"
        /\ op.kind = "save" => saves[s] # <<>>
        /\ op.kind = "delete" =>
              /\ active = s => ref = s
              /\ op.result = "ok" => s \in past.deleted /\ disk[s].title = NoTitle
        /\ op.kind \in Changes /\ op.result = "ok" /\ op.title # NoTitle => Recorded(s)
        /\ op.kind = "list" =>
              /\ boot.stage = "listing"
              /\ op.result = "ok" => \A x \in Sessions : op.titles[x] # NoTitle =>
                                        Recorded(x) /\ x \notin past.erased
        /\ op.kind # "list" /\ boot.stage = "waiting" => boot.titles[s] = NoTitle
        /\ s \in past.erased =>
              /\ op.kind \notin {"create", "save"}
              /\ op.kind \in Changes /\ op.result = "ok" => op.title = NoTitle

Shaped ==
    /\ DOMAIN disk = Sessions /\ \A s \in Sessions : DOMAIN disk[s] = {"title", "held"}
    /\ DOMAIN list = Sessions
    /\ DOMAIN saves = Sessions /\ \A s \in Sessions : IsSeq(saves[s])
    /\ active \in Sessions \cup {NoSession} /\ ref \in Sessions \cup {NoSession}
    /\ DOMAIN sender = {"stage", "session", "current", "request", "rename", "got"}
    /\ sender.stage # "idle" => sender.session \in Sessions
    /\ DOMAIN past = {"unread", "failed", "early", "before", "deleted", "erased"}
    /\ past.erased \subseteq past.deleted /\ past.deleted \subseteq Sessions

\* The page knows the session by something else than the stored titles.
Touched(s) == \/ list[s] # NoTitle \/ sender.session = s \/ saves[s] # <<>>
              \/ active = s \/ ref = s

BootOK ==
    /\ boot.stage \in {"listing", "waiting", "done"}
    /\ boot.stage = "listing" =>
          /\ Len(queue) = 1 /\ queue[1].kind = "list"
          /\ sender = Idle /\ \A s \in Sessions : ~Touched(s)
    /\ boot.stage = "waiting" =>
          /\ DOMAIN boot.titles = Sessions
          /\ \A s \in Sessions : boot.titles[s] # NoTitle =>
                ~Touched(s) /\ Recorded(s) /\ s \notin past.erased

ListOK == \A s \in Sessions : list[s] # NoTitle => Recorded(s)

GoneOK ==
    \A s \in past.erased : /\ disk[s] = Absent /\ s # sender.session /\ saves[s] = <<>>
                           /\ list[s] = NoTitle /\ active # s

PageOK == Shaped /\ BootOK /\ ListOK /\ GoneOK

LinksOK == \A op \in Ops(queue) : Linked(op)

PageInv == PageOK /\ QueueOK(queue, disk) /\ LinksOK

-----------------------------------------------------------------------------
(* Queues *)

\* A sequence of some set is one of its own elements.
LEMMA OwnElements ==
    ASSUME NEW S, NEW q \in Seq(S)
    PROVE  IsSeq(q)
<1> DEFINE T == {q[n] : n \in DOMAIN q}
<1>1. /\ Len(q) \in Nat /\ DOMAIN q = 1..Len(q)
      /\ q = [n \in 1..Len(q) |-> q[n]]
  OBVIOUS
<1>2. \A n \in 1..Len(q) : q[n] \in T BY <1>1
<1>3. q \in [1..Len(q) -> T] BY <1>1, <1>2
<1>4. q \in Seq(T) BY <1>1, <1>3
<1> QED BY <1>4 DEF IsSeq

\* What is needed of a sequence of no particular set.
LEMMA SeqFacts ==
    ASSUME NEW q, IsSeq(q)
    PROVE  /\ Len(q) \in Nat /\ DOMAIN q = 1..Len(q)
           /\ q # <<>> <=> Len(q) > 0
           /\ \A n \in DOMAIN q : q[n] \in Ops(q)
<1> DEFINE S == {q[n] : n \in DOMAIN q}
<1>1. q \in Seq(S) BY DEF IsSeq
<1> QED BY <1>1 DEF Ops

\* Popping the head.
LEMMA TailFacts ==
    ASSUME NEW q, IsSeq(q), q # <<>>
    PROVE  /\ IsSeq(Tail(q)) /\ Len(Tail(q)) = Len(q) - 1
           /\ DOMAIN Tail(q) = 1..(Len(q) - 1)
           /\ \A n \in 1..(Len(q) - 1) : Tail(q)[n] = q[n + 1]
           /\ Head(q) = q[1] /\ 1 \in DOMAIN q
<1> DEFINE S == {q[n] : n \in DOMAIN q}
<1>1. q \in Seq(S) BY DEF IsSeq
<1>2. /\ Len(q) \in Nat /\ DOMAIN q = 1..Len(q) /\ Len(q) > 0
      /\ Tail(q) \in Seq(S) /\ Len(Tail(q)) = Len(q) - 1
      /\ \A n \in 1..(Len(q) - 1) : Tail(q)[n] = q[n + 1]
      /\ Head(q) = q[1]
  BY <1>1
<1>3. DOMAIN Tail(q) = 1..(Len(q) - 1) BY <1>2
<1>4. IsSeq(Tail(q)) BY <1>2, OwnElements
<1> QED BY <1>2, <1>3, <1>4

\* Calling one more operation.
LEMMA AppendFacts ==
    ASSUME NEW q, IsSeq(q), NEW e
    PROVE  /\ IsSeq(Append(q, e)) /\ Len(Append(q, e)) = Len(q) + 1
           /\ DOMAIN Append(q, e) = 1..(Len(q) + 1)
           /\ \A n \in 1..Len(q) : Append(q, e)[n] = q[n]
           /\ Append(q, e)[Len(q) + 1] = e
           /\ Append(q, e) # <<>>
<1> DEFINE S == {q[n] : n \in DOMAIN q} \cup {e}
<1>0. q \in Seq({q[n] : n \in DOMAIN q}) BY DEF IsSeq
<1>1. q \in Seq(S) BY <1>0
<1>2. /\ Len(q) \in Nat /\ DOMAIN q = 1..Len(q)
      /\ Append(q, e) \in Seq(S) /\ Len(Append(q, e)) = Len(q) + 1
      /\ \A n \in 1..Len(q) : Append(q, e)[n] = q[n]
      /\ Append(q, e)[Len(q) + 1] = e
  BY <1>1
<1>3. DOMAIN Append(q, e) = 1..(Len(q) + 1) BY <1>2
<1>4. IsSeq(Append(q, e)) BY <1>2, OwnElements
<1> QED BY <1>2, <1>3, <1>4

\* The page hears of the oldest operation: the others stay in line, behind it.
LEMMA TailKeeps ==
    ASSUME NEW q, NEW database, QueueOK(q, database), q # <<>>
    PROVE  /\ QueueOK(Tail(q), database)
           /\ Ops(Tail(q)) \subseteq Ops(q)
           /\ \A op \in Ops(Tail(q)) : InLine(Head(q), op)
           /\ Head(q) \in Ops(q) /\ WellFormed(Head(q))
           /\ Head(q) = q[1] /\ 1 \in DOMAIN q
<1> DEFINE r == Tail(q)
<1>1. IsSeq(q) BY DEF QueueOK
<1>2. /\ IsSeq(r) /\ Len(r) = Len(q) - 1 /\ DOMAIN r = 1..(Len(q) - 1)
      /\ \A n \in 1..(Len(q) - 1) : r[n] = q[n + 1]
      /\ Head(q) = q[1] /\ 1 \in DOMAIN q
      /\ Len(q) \in Nat /\ DOMAIN q = 1..Len(q)
  BY <1>1, TailFacts, SeqFacts
<1> HIDE DEF r
<1>3. \A n \in DOMAIN r : n + 1 \in DOMAIN q /\ r[n] = q[n + 1] BY <1>2
<1>4. \A n \in DOMAIN r : WellFormed(r[n]) BY <1>3 DEF QueueOK
<1>5. ASSUME NEW n \in DOMAIN r, NEW m \in (n + 1)..Len(r)
      PROVE  InLine(r[n], r[m])
  <2>1. m \in DOMAIN r /\ m + 1 \in (n + 1 + 1)..Len(q) BY <1>2
  <2> QED BY <2>1, <1>3 DEF QueueOK
<1>6. AfterDelete(r, database)
  <2> SUFFICES ASSUME NEW n \in DOMAIN r, r[n].kind = "delete", r[n].result = "ok",
                      database[r[n].session] # Absent
               PROVE  \E m \in (n + 1)..Len(r) : r[m].kind = "save"
                                                 /\ r[m].session = r[n].session
    BY DEF AfterDelete
  <2>1. n + 1 \in DOMAIN q /\ r[n] = q[n + 1] BY <1>3
  <2>2. PICK m \in (n + 1 + 1)..Len(q) : q[m].kind = "save" /\ q[m].session = r[n].session
    BY <2>1 DEF QueueOK, AfterDelete
  <2>3. m - 1 \in (n + 1)..Len(r) /\ r[m - 1] = q[m] BY <1>2, <2>2
  <2> QED BY <2>2, <2>3
<1>7. \A op \in Ops(r) : op \in Ops(q) /\ InLine(q[1], op)
  <2> SUFFICES ASSUME NEW n \in DOMAIN r
               PROVE  r[n] \in Ops(q) /\ InLine(q[1], r[n])
    BY DEF Ops
  <2>1. n + 1 \in DOMAIN q /\ r[n] = q[n + 1] /\ n + 1 \in (1 + 1)..Len(q) BY <1>2, <1>3
  <2> QED BY <2>1, <1>2 DEF QueueOK, Ops
<1>8. q[1] \in Ops(q) /\ WellFormed(q[1]) BY <1>2 DEF Ops, QueueOK
<1> QED BY <1>2, <1>4, <1>5, <1>6, <1>7, <1>8 DEF QueueOK, r

\* One more operation is called: it waits behind the others.
LEMMA AppendKeeps ==
    ASSUME NEW q, NEW database, QueueOK(q, database),
           NEW e, WellFormed(e), \A op \in Ops(q) : InLine(op, e), e.result = "none"
    PROVE  /\ QueueOK(Append(q, e), database)
           /\ Ops(Append(q, e)) = Ops(q) \cup {e}
<1> DEFINE r == Append(q, e)
<1>1. IsSeq(q) BY DEF QueueOK
<1>2. /\ IsSeq(r) /\ Len(r) = Len(q) + 1 /\ DOMAIN r = 1..(Len(q) + 1)
      /\ \A n \in 1..Len(q) : r[n] = q[n]
      /\ r[Len(q) + 1] = e
      /\ Len(q) \in Nat /\ DOMAIN q = 1..Len(q)
  BY <1>1, AppendFacts, SeqFacts
<1> HIDE DEF r
<1>3. \A n \in DOMAIN r :
         \/ n \in DOMAIN q /\ r[n] = q[n]
         \/ n = Len(q) + 1 /\ r[n] = e
  <2>1. ASSUME NEW n \in DOMAIN r
        PROVE  n = Len(q) + 1 \/ n \in 1..Len(q)
    BY <1>2
  <2> QED BY <2>1, <1>2
<1>4. \A n \in DOMAIN r : WellFormed(r[n]) BY <1>3 DEF QueueOK
<1>5. ASSUME NEW n \in DOMAIN r, NEW m \in (n + 1)..Len(r)
      PROVE  InLine(r[n], r[m])
  <2>1. n \in DOMAIN q /\ r[n] = q[n] /\ m \in DOMAIN r BY <1>2, <1>3
  <2>2. CASE m = Len(q) + 1 BY <2>1, <2>2, <1>2 DEF Ops
  <2>3. CASE m # Len(q) + 1
    <3>1. m \in (n + 1)..Len(q) /\ r[m] = q[m] BY <2>1, <2>3, <1>2
    <3> QED BY <2>1, <3>1 DEF QueueOK
  <2> QED BY <2>2, <2>3
<1>6. AfterDelete(r, database)
  <2> SUFFICES ASSUME NEW n \in DOMAIN r, r[n].kind = "delete", r[n].result = "ok",
                      database[r[n].session] # Absent
               PROVE  \E m \in (n + 1)..Len(r) : r[m].kind = "save"
                                                 /\ r[m].session = r[n].session
    BY DEF AfterDelete
  <2>1. n \in DOMAIN q /\ r[n] = q[n] BY <1>3
  <2>2. PICK m \in (n + 1)..Len(q) : q[m].kind = "save" /\ q[m].session = r[n].session
    BY <2>1 DEF QueueOK, AfterDelete
  <2>3. m \in (n + 1)..Len(r) /\ r[m] = q[m] BY <1>2, <2>1, <2>2
  <2> QED BY <2>2, <2>3
<1>7. Ops(r) = Ops(q) \cup {e}
  <2>1. \A n \in DOMAIN r : r[n] \in Ops(q) \cup {e} BY <1>3 DEF Ops
  <2>2. \A n \in DOMAIN q : q[n] \in Ops(r) BY <1>2 DEF Ops
  <2>3. e \in Ops(r) BY <1>2 DEF Ops
  <2> QED BY <2>1, <2>2, <2>3 DEF Ops
<1> QED BY <1>2, <1>4, <1>5, <1>6, <1>7 DEF QueueOK, r

\* Nobody waits for a load any more: the queue is as it was.
LEMMA AbandonedKeeps ==
    ASSUME QueueOK(queue, disk)
    PROVE  /\ QueueOK(Abandoned, disk)
           /\ \A op \in Ops(Abandoned) : \E old \in Ops(queue) :
                 op = old \/ (old.kind = "load" /\ op = [old EXCEPT !.alive = FALSE])
<1> DEFINE r == Abandoned
<1>1. IsSeq(queue) BY DEF QueueOK
<1>2. Len(queue) \in Nat /\ DOMAIN queue = 1..Len(queue) BY <1>1, SeqFacts
<1>3. r = [n \in 1..Len(queue) |-> IF queue[n].kind = "load"
                                    THEN [queue[n] EXCEPT !.alive = FALSE] ELSE queue[n]]
  BY <1>2 DEF Abandoned
<1> HIDE DEF r
<1> DEFINE T == {r[n] : n \in 1..Len(queue)}
<1>4. r \in Seq(T)
  <2>1. r \in [1..Len(queue) -> T] BY <1>3
  <2> QED BY <2>1, <1>2
<1>5. /\ IsSeq(r) /\ Len(r) = Len(queue) /\ DOMAIN r = DOMAIN queue
      /\ \A n \in DOMAIN queue :
            \/ r[n] = queue[n]
            \/ queue[n].kind = "load" /\ r[n] = [queue[n] EXCEPT !.alive = FALSE]
  <2>1. IsSeq(r) BY <1>4, OwnElements
  <2>2. DOMAIN r = 1..Len(queue) BY <1>3
  <2>3. Len(r) \in Nat /\ DOMAIN r = 1..Len(r) BY <2>1, SeqFacts
  <2>4. Len(r) = Len(queue) BY <2>2, <2>3, <1>2
  <2> QED BY <2>1, <2>2, <2>4, <1>2, <1>3
<1>6. \A n \in DOMAIN queue : WellFormed(queue[n]) BY DEF QueueOK
<1>7. \A n \in DOMAIN queue :
         /\ DOMAIN r[n] = DOMAIN queue[n]
         /\ r[n].kind = queue[n].kind /\ r[n].session = queue[n].session
         /\ r[n].result = queue[n].result /\ r[n].title = queue[n].title
         /\ r[n].titles = queue[n].titles
  BY <1>5, <1>6 DEF WellFormed, Fields
<1>8. \A n \in DOMAIN r : WellFormed(r[n]) BY <1>5, <1>6, <1>7 DEF WellFormed
<1>9. ASSUME NEW n \in DOMAIN r, NEW m \in (n + 1)..Len(r)
      PROVE  InLine(r[n], r[m])
  <2>1. n \in DOMAIN queue /\ m \in DOMAIN queue /\ m \in (n + 1)..Len(queue)
    BY <1>2, <1>5
  <2>2. InLine(queue[n], queue[m]) BY <2>1 DEF QueueOK
  <2> QED BY <2>1, <2>2, <1>7 DEF InLine
<1>10. AfterDelete(r, disk)
  <2> SUFFICES ASSUME NEW n \in DOMAIN r, r[n].kind = "delete", r[n].result = "ok",
                      disk[r[n].session] # Absent
               PROVE  \E m \in (n + 1)..Len(r) : r[m].kind = "save"
                                                 /\ r[m].session = r[n].session
    BY DEF AfterDelete
  <2>1. n \in DOMAIN queue /\ queue[n].kind = "delete" /\ queue[n].result = "ok"
        /\ disk[queue[n].session] # Absent
    BY <1>5, <1>7
  <2>2. PICK m \in (n + 1)..Len(queue) : queue[m].kind = "save"
                                          /\ queue[m].session = queue[n].session
    BY <2>1 DEF QueueOK, AfterDelete
  <2>3. m \in DOMAIN queue /\ m \in (n + 1)..Len(r) BY <1>2, <1>5, <2>1, <2>2
  <2> QED BY <2>1, <2>2, <2>3, <1>7
<1>11. \A op \in Ops(r) : \E old \in Ops(queue) :
          op = old \/ (old.kind = "load" /\ op = [old EXCEPT !.alive = FALSE])
  BY <1>5 DEF Ops
<1> QED BY <1>5, <1>8, <1>9, <1>10, <1>11 DEF QueueOK, r

-----------------------------------------------------------------------------
(* What the page hears *)

\* Hearing of an operation leaves the others linked, where nothing that links them
\* changes. While the page is listing, it hears only of that.
LEMMA Hears ==
    ASSUME PageInv, queue # <<>>
    PROVE  /\ QueueOK(Tail(queue), disk)
           /\ \A op \in Ops(Tail(queue)) : /\ op \in Ops(queue) /\ Linked(op) /\ WellFormed(op)
                                           /\ InLine(Head(queue), op)
           /\ Head(queue) \in Ops(queue) /\ Linked(Head(queue)) /\ WellFormed(Head(queue))
           /\ Head(queue).kind # "list" => boot.stage # "listing"
           /\ Head(queue).kind = "list" => boot.stage = "listing"
<1>1. QueueOK(queue, disk) /\ LinksOK BY DEF PageInv
<1>2. /\ QueueOK(Tail(queue), disk)
      /\ \A op \in Ops(Tail(queue)) : op \in Ops(queue) /\ InLine(Head(queue), op)
      /\ Head(queue) \in Ops(queue) /\ WellFormed(Head(queue)) /\ Head(queue) = queue[1]
  BY <1>1, TailKeeps
<1>3. \A op \in Ops(queue) : WellFormed(op) BY <1>1 DEF QueueOK, Ops
<1>4. Head(queue).kind # "list" => boot.stage # "listing"
  BY <1>2 DEF PageInv, PageOK, BootOK
<1>5. Head(queue).kind = "list" => boot.stage = "listing"
  BY <1>1, <1>2 DEF LinksOK, Linked
<1> QED BY <1>1, <1>2, <1>3, <1>4, <1>5 DEF LinksOK

LEMMA LoadFailsKeeps == ASSUME PageInv, LoadFails PROVE PageInv'
<1>1. /\ queue # <<>> /\ queue' = Tail(queue) /\ Head(queue).kind = "load"
      /\ UNCHANGED <<disk, boot, list, active, ref, saves, sender>>
      /\ past' = past \/ past' = [past EXCEPT !.unread = @ \cup {Head(queue).session}]
  BY DEF LoadFails, Heard, Pops
<1>2. PageOK BY DEF PageInv
<1>3. /\ DOMAIN past' = DOMAIN past /\ past'.deleted = past.deleted /\ past'.erased = past.erased
  BY <1>1, <1>2 DEF PageOK, Shaped
<1>4. PageOK'
  BY <1>1, <1>2, <1>3, Hears DEF PageOK, Shaped, BootOK, ListOK, GoneOK, Recorded, Touched
<1>5. QueueOK(queue', disk') BY <1>1, Hears
<1>6. LinksOK'
  BY <1>1, <1>3, Hears DEF LinksOK, Linked, Recorded
<1> QED BY <1>4, <1>5, <1>6 DEF PageInv

LEMMA LoadedKeeps == ASSUME PageInv, Loaded PROVE PageInv'
<1>1. /\ queue # <<>> /\ queue' = Tail(queue) /\ Head(queue).kind = "load"
      /\ UNCHANGED <<disk, boot, list, active, ref, saves, sender, past>>
  BY DEF Loaded, Heard, Pops
<1>2. PageOK BY DEF PageInv
<1>3. PageOK'
  BY <1>1, <1>2, Hears DEF PageOK, Shaped, BootOK, ListOK, GoneOK, Recorded, Touched
<1>4. QueueOK(queue', disk') BY <1>1, Hears
<1>5. LinksOK' BY <1>1, Hears DEF LinksOK, Linked, Recorded
<1> QED BY <1>3, <1>4, <1>5 DEF PageInv

LEMMA DeleteFailsKeeps == ASSUME PageInv, DeleteFails PROVE PageInv'
<1>1. /\ queue # <<>> /\ queue' = Tail(queue) /\ Head(queue).kind = "delete"
      /\ UNCHANGED <<disk, boot, list, active, ref, saves, sender, past>>
  BY DEF DeleteFails, Heard, Pops, page
<1>2. PageOK BY DEF PageInv
<1>3. PageOK'
  BY <1>1, <1>2, Hears DEF PageOK, Shaped, BootOK, ListOK, GoneOK, Recorded, Touched
<1>4. QueueOK(queue', disk') BY <1>1, Hears
<1>5. LinksOK' BY <1>1, Hears DEF LinksOK, Linked, Recorded
<1> QED BY <1>3, <1>4, <1>5 DEF PageInv

\* The titles that the page hears of are those of sessions that have a record, or that
\* were deleted since.
LEMMA ListedFacts ==
    ASSUME PageInv, queue # <<>>, Head(queue).kind \in {"create", "save", "rename", "name"},
           list' = list \/ (Head(queue).result = "ok"
                           /\ list' = Listed(Head(queue).session, Head(queue).title))
    PROVE  /\ DOMAIN list' = Sessions
           /\ \A x \in Sessions : list'[x] # NoTitle =>
                 /\ Recorded(x) /\ x \notin past.erased
                 /\ boot.stage = "waiting" => boot.titles[x] = NoTitle
           /\ \A op \in Ops(Tail(queue)) : op.kind = "create" => list'[op.session] = NoTitle
<1> DEFINE op == Head(queue)
<1>1. /\ WellFormed(op) /\ Linked(op) /\ op \in Ops(queue)
      /\ \A o \in Ops(Tail(queue)) : Linked(o) /\ WellFormed(o) /\ InLine(op, o)
  BY Hears
<1>2. op.session \in Sessions BY <1>1 DEF WellFormed
<1>3. PageOK BY DEF PageInv
<1>4. \A x \in Sessions : list[x] # NoTitle =>
         /\ Recorded(x) /\ x \notin past.erased
         /\ boot.stage = "waiting" => boot.titles[x] = NoTitle
  BY <1>3 DEF PageOK, ListOK, GoneOK, BootOK, Touched
<1>5. CASE list' = list
  BY <1>1, <1>3, <1>4, <1>5 DEF Linked, PageOK, Shaped
<1>6. CASE op.title # NoTitle /\ op.result = "ok" /\ list' = [list EXCEPT ![op.session] = op.title]
  <2>1. /\ Recorded(op.session) /\ op.session \notin past.erased
        /\ boot.stage = "waiting" => boot.titles[op.session] = NoTitle
    BY <1>1, <1>6 DEF Linked, Changes
  <2>2. \A o \in Ops(Tail(queue)) : o.kind = "create" => o.session # op.session
    BY <1>1 DEF InLine, Changes
  <2>3. DOMAIN list' = Sessions /\ \A x \in Sessions : x # op.session => list'[x] = list[x]
    BY <1>3, <1>6 DEF PageOK, Shaped
  <2>4. \A o \in Ops(Tail(queue)) : o.kind = "create" => o.session \in Sessions
    BY <1>1 DEF WellFormed
  <2> QED BY <1>1, <1>4, <2>1, <2>2, <2>3, <2>4 DEF Linked
<1> QED BY <1>5, <1>6 DEF Listed

LEMMA EarlyFacts ==
    ASSUME Shaped, NEW s, past' = Early(s)
    PROVE  /\ DOMAIN past' = DOMAIN past
           /\ past'.deleted = past.deleted /\ past'.erased = past.erased
BY DEF Shaped, Early

LEMMA RenamedKeeps == ASSUME PageInv, Renamed PROVE PageInv'
<1>1. /\ queue # <<>> /\ queue' = Tail(queue) /\ Head(queue).kind = "rename"
      /\ list' = list \/ (Head(queue).result = "ok"
                          /\ list' = Listed(Head(queue).session, Head(queue).title))
      /\ past' = Early(Head(queue).session)
      /\ UNCHANGED <<disk, boot, active, ref, saves, sender>>
  BY DEF Renamed, Heard, Pops
<1>2. PageOK BY DEF PageInv
<1>3. /\ DOMAIN past' = DOMAIN past /\ past'.deleted = past.deleted /\ past'.erased = past.erased
  BY <1>1, <1>2, EarlyFacts DEF PageOK
<1>4. PageOK'
  BY <1>1, <1>2, <1>3, Hears, ListedFacts
     DEF PageOK, Shaped, BootOK, ListOK, GoneOK, Recorded, Touched
<1>5. QueueOK(queue', disk') BY <1>1, Hears
<1>6. LinksOK'
  BY <1>1, <1>3, Hears, ListedFacts DEF LinksOK, Linked, Recorded
<1> QED BY <1>4, <1>5, <1>6 DEF PageInv

\* Only one session is being created, or named, at a time.
LEMMA SenderKnows ==
    ASSUME PageInv
    PROVE  /\ sender.stage \notin {"creating"} =>
                 \A op \in Ops(queue) : op.kind # "create"
           /\ sender.stage # "naming" => \A op \in Ops(queue) : op.kind # "name"
           /\ sender.stage # "idle" => boot.stage # "listing"
           /\ sender.session \in Sessions /\ boot.stage = "waiting" =>
                 boot.titles[sender.session] = NoTitle
BY DEF PageInv, PageOK, LinksOK, Linked, BootOK, Idle, Touched

LEMMA NamedKeeps == ASSUME PageInv, Named PROVE PageInv'
<1>1. /\ queue # <<>> /\ queue' = Tail(queue) /\ Head(queue).kind = "name"
      /\ Head(queue).result = "ok"
      /\ list' = Listed(Head(queue).session, Head(queue).title)
      /\ past' = Early(Head(queue).session)
      /\ sender' = [sender EXCEPT !.stage = "streaming"]
      /\ UNCHANGED <<disk, boot, active, ref, saves>>
  BY DEF Named, Heard, Pops
<1>2. PageOK BY DEF PageInv
<1>3. /\ DOMAIN past' = DOMAIN past /\ past'.deleted = past.deleted /\ past'.erased = past.erased
  BY <1>1, <1>2, EarlyFacts DEF PageOK
<1>4. /\ sender.stage = "naming" /\ sender.session \in Sessions
      /\ \A op \in Ops(Tail(queue)) : op.kind \notin {"create", "name"}
  BY <1>1, <1>2, Hears DEF Linked, InLine, PageOK, Shaped
<1>5. DOMAIN sender' = DOMAIN sender /\ sender'.session = sender.session
  BY <1>1, <1>2 DEF PageOK, Shaped
<1>6. PageOK'
  BY <1>1, <1>2, <1>3, <1>4, <1>5, Hears, ListedFacts
     DEF PageOK, Shaped, BootOK, ListOK, GoneOK, Recorded, Touched
<1>7. QueueOK(queue', disk') BY <1>1, Hears
<1>8. LinksOK'
  BY <1>1, <1>3, <1>4, <1>5, Hears, ListedFacts DEF LinksOK, Linked, Recorded
<1> QED BY <1>6, <1>7, <1>8 DEF PageInv

LEMMA NamingFailsKeeps == ASSUME PageInv, NamingFails PROVE PageInv'
<1>1. /\ queue # <<>> /\ queue' = Tail(queue) /\ Head(queue).kind = "name"
      /\ sender' = Idle
      /\ UNCHANGED <<disk, boot, list, active, ref, saves, past>>
  BY DEF NamingFails, Heard, Pops
<1>2. PageOK BY DEF PageInv
<1>3. \A op \in Ops(Tail(queue)) : op.kind \notin {"create", "name"}
  BY <1>1, Hears DEF InLine
<1>4. PageOK'
  BY <1>1, <1>2, Hears, BrowserAssumption
     DEF PageOK, Shaped, BootOK, ListOK, GoneOK, Recorded, Touched, Idle
<1>5. QueueOK(queue', disk') BY <1>1, Hears
<1>6. LinksOK' BY <1>1, <1>3, Hears DEF LinksOK, Linked, Recorded
<1> QED BY <1>4, <1>5, <1>6 DEF PageInv

LEMMA CreateFailsKeeps == ASSUME PageInv, CreateFails PROVE PageInv'
<1>1. /\ queue # <<>> /\ queue' = Tail(queue) /\ Head(queue).kind = "create"
      /\ sender' = Idle
      /\ UNCHANGED <<disk, boot, list, active, ref, saves, past>>
  BY DEF CreateFails, Heard, Pops
<1>2. PageOK BY DEF PageInv
<1>3. \A op \in Ops(Tail(queue)) : op.kind \notin {"create", "name"}
  BY <1>1, Hears DEF InLine
<1>4. PageOK'
  BY <1>1, <1>2, Hears, BrowserAssumption
     DEF PageOK, Shaped, BootOK, ListOK, GoneOK, Recorded, Touched, Idle
<1>5. QueueOK(queue', disk') BY <1>1, Hears
<1>6. LinksOK' BY <1>1, <1>3, Hears DEF LinksOK, Linked, Recorded
<1> QED BY <1>4, <1>5, <1>6 DEF PageInv

\* The session that was created is opened: nobody is deleting it.
LEMMA CreatedKeeps == ASSUME PageInv, Created PROVE PageInv'
<1> DEFINE s == Head(queue).session
<1>1. /\ queue # <<>> /\ queue' = Tail(queue) /\ Head(queue).kind = "create"
      /\ Head(queue).result = "ok"
      /\ list' = Listed(s, Head(queue).title)
      /\ active' = s
      /\ sender' = [Idle EXCEPT !.stage = "provider", !.session = s, !.current = Empty,
                                !.request = sent', !.rename = FALSE]
      /\ past' = Early(s)
      /\ UNCHANGED <<disk, boot, ref, saves>>
  BY DEF Created, Heard, Pops, Prepare
<1>2. PageOK BY DEF PageInv
<1>3. /\ DOMAIN past' = DOMAIN past /\ past'.deleted = past.deleted /\ past'.erased = past.erased
  BY <1>1, <1>2, EarlyFacts DEF PageOK
<1>4. /\ sender.session = s /\ s \in Sessions /\ s \notin past.erased
      /\ \A op \in Ops(Tail(queue)) :
            /\ op.kind \notin {"create", "name"}
            /\ op.kind = "delete" => op.session # s
  BY <1>1, Hears DEF Linked, InLine, WellFormed, Changes
<1>5. /\ DOMAIN sender' = {"stage", "session", "current", "request", "rename", "got"}
      /\ sender'.session = s /\ sender'.stage = "provider"
  BY <1>1 DEF Idle
<1>6. PageOK'
  BY <1>1, <1>2, <1>3, <1>4, <1>5, Hears, ListedFacts, SenderKnows, BrowserAssumption
     DEF PageOK, Shaped, BootOK, ListOK, GoneOK, Recorded, Touched
<1>7. QueueOK(queue', disk') BY <1>1, Hears
<1>8. LinksOK'
  BY <1>1, <1>3, <1>4, <1>5, Hears, ListedFacts DEF LinksOK, Linked, Recorded
<1> QED BY <1>6, <1>7, <1>8 DEF PageInv

\* The heart of the matter: what the page erases here is not in the database, is not
\* being stored, and will not be shown again.
LEMMA DeletedKeeps == ASSUME PageInv, Deleted PROVE PageInv'
<1> DEFINE op == Head(queue)
           s == op.session
<1>1. /\ queue # <<>> /\ queue' = Tail(queue) /\ op.kind = "delete" /\ op.result = "ok"
      /\ list' = [list EXCEPT ![s] = NoTitle]
      /\ past' = Erased(s)
      /\ UNCHANGED <<disk, boot, ref, saves>>
      /\ \/ s = ref /\ active' = NoSession
         \/ s # ref /\ active' = active
      /\ \/ sender' = sender
         \/ sender.stage = "streaming" /\ sender' = [sender EXCEPT !.stage = "stopping"]
  BY DEF Deleted, Heard, Pops, StopIf
<1>2. PageOK BY DEF PageInv
<1>3. /\ s \in Sessions /\ s \in past.deleted /\ disk[s].title = NoTitle
      /\ active = s => ref = s
      /\ boot.stage # "listing"
      /\ boot.stage = "waiting" => boot.titles[s] = NoTitle
  BY <1>1, Hears DEF Linked, WellFormed
<1>4. /\ DOMAIN past' = DOMAIN past /\ past'.deleted = past.deleted
      /\ \/ past'.erased = past.erased
         \/ /\ past'.erased = past.erased \cup {s}
            /\ sender.session # s /\ saves[s] = <<>>
  BY <1>1, <1>2 DEF PageOK, Shaped, Erased, Early
<1>5. /\ DOMAIN sender' = DOMAIN sender /\ sender'.session = sender.session
      /\ \/ sender'.stage = sender.stage
         \/ sender.stage = "streaming" /\ sender'.stage = "stopping"
  BY <1>1, <1>2 DEF PageOK, Shaped
<1>6. /\ DOMAIN list' = Sessions /\ list'[s] = NoTitle
      /\ \A x \in Sessions : list'[x] # NoTitle => list[x] # NoTitle
  BY <1>1, <1>2, <1>3 DEF PageOK, Shaped
<1>7. ASSUME sender.session # s, saves[s] = <<>>
      PROVE  /\ \A o \in Ops(queue) : o.session = s => o.kind \notin {"create", "save"}
             /\ disk[s] = Absent
  <2>1. \A o \in Ops(queue) : Linked(o) BY DEF PageInv, LinksOK
  <2>2. \A o \in Ops(queue) : o.session = s => o.kind \notin {"create", "save"}
    BY <2>1, <1>7 DEF Linked
  <2>3. QueueOK(queue, disk) BY DEF PageInv
  <2>4. op = queue[1] /\ 1 \in DOMAIN queue BY <1>1, <2>3, TailKeeps
  <2>5. Len(queue) \in Nat /\ DOMAIN queue = 1..Len(queue) BY <2>3, SeqFacts DEF QueueOK
  <2>6. \A m \in 2..Len(queue) : queue[m] \in Ops(queue) BY <2>5 DEF Ops
  <2>7. disk[s] = Absent
        \/ \E m \in (1 + 1)..Len(queue) : queue[m].kind = "save" /\ queue[m].session = s
    BY <1>1, <2>3, <2>4 DEF QueueOK, AfterDelete
  <2> QED BY <2>2, <2>6, <2>7
<1>8. active' # s /\ active' \in Sessions \cup {NoSession}
  BY <1>1, <1>2, <1>3, BrowserAssumption DEF PageOK, Shaped
<1>9. Shaped'
  BY <1>1, <1>2, <1>3, <1>4, <1>5, <1>6, <1>8 DEF PageOK, Shaped
<1>10. BootOK'
  BY <1>1, <1>2, <1>3, <1>4, <1>5, <1>6, BrowserAssumption
     DEF PageOK, BootOK, Recorded, Touched
<1>11. ListOK'
  BY <1>1, <1>2, <1>4, <1>6 DEF PageOK, ListOK, Recorded
<1>12. GoneOK'
  BY <1>1, <1>2, <1>3, <1>4, <1>5, <1>6, <1>7, <1>8, BrowserAssumption
     DEF PageOK, GoneOK, Shaped
<1>13. QueueOK(queue', disk') BY <1>1, Hears
<1>14. ASSUME NEW o \in Ops(queue') PROVE Linked(o)'
  <2>1. /\ Linked(o) /\ WellFormed(o) /\ InLine(op, o) /\ o \in Ops(queue)
    BY <1>1, Hears
  <2>2. o.session = s /\ o.kind \in Changes /\ o.result = "ok" => o.title = NoTitle
    BY <1>1, <2>1 DEF InLine, Changes
  <2>3. o.session \in past'.erased =>
           /\ o.kind \notin {"create", "save"}
           /\ o.kind \in Changes /\ o.result = "ok" => o.title = NoTitle
    BY <1>4, <1>7, <2>1, <2>2 DEF Linked
  <2>4. o.kind = "list" => boot.stage = "listing" BY <2>1 DEF Linked
  <2>5. o.kind # "list" => o.session \in Sessions BY <2>1 DEF WellFormed
  <2>6. /\ o.kind = "create" => /\ sender'.stage = "creating" /\ sender'.session = o.session
                                /\ list'[o.session] = NoTitle
        /\ o.kind = "name" => sender'.stage = "naming"
    BY <1>5, <1>6, <2>1, <2>5 DEF Linked
  <2>7. o.kind = "delete" => (active' = o.session => ref' = o.session)
    BY <1>1, <2>1, <2>5, BrowserAssumption DEF Linked
  <2> QED BY <1>1, <1>3, <1>4, <2>1, <2>3, <2>4, <2>6, <2>7 DEF Linked, Recorded
<1> QED BY <1>9, <1>10, <1>11, <1>12, <1>13, <1>14 DEF PageInv, PageOK, LinksOK

\* The titles that were listed.
LEMMA FillKeeps == ASSUME PageInv, Fill("ok") \/ Fill("failed") PROVE PageInv'
<1>1. /\ queue # <<>> /\ queue' = Tail(queue) /\ Head(queue).kind = "list"
      /\ UNCHANGED <<disk, list, active, ref, saves, sender, past>>
      /\ \/ /\ Head(queue).result = "ok"
            /\ boot' = [stage |-> "waiting", titles |-> Head(queue).titles]
         \/ boot' = [stage |-> "done", titles |-> <<>>]
  BY DEF Fill, Heard, Pops
<1>2. PageOK BY DEF PageInv
<1>3. /\ boot.stage = "listing" /\ \A x \in Sessions : ~Touched(x)
      /\ Len(queue) = 1
  BY <1>1, <1>2, Hears DEF PageOK, BootOK
<1>4. Ops(Tail(queue)) = {}
  <2>1. IsSeq(queue) BY DEF PageInv, QueueOK
  <2>2. DOMAIN Tail(queue) = 1..(Len(queue) - 1) BY <1>1, <2>1, TailFacts
  <2>3. \A n \in DOMAIN Tail(queue) : FALSE BY <1>3, <2>2
  <2> HIDE DEF Ops
  <2>4. \A op \in Ops(Tail(queue)) : FALSE BY <2>3 DEF Ops
  <2> QED BY <2>4
<1>5. Head(queue).result = "ok" =>
         /\ DOMAIN Head(queue).titles = Sessions
         /\ \A x \in Sessions : Head(queue).titles[x] # NoTitle =>
               Recorded(x) /\ x \notin past.erased
  BY <1>1, Hears DEF Linked, WellFormed
<1>6. PageOK'
  <2>1. Shaped' /\ ListOK' /\ GoneOK'
    BY <1>1, <1>2 DEF PageOK, Shaped, ListOK, GoneOK, Recorded
  <2>2. BootOK'
    BY <1>1, <1>3, <1>5 DEF BootOK, Recorded, Touched
  <2> QED BY <2>1, <2>2 DEF PageOK
<1>7. QueueOK(queue', disk') BY <1>1, Hears
<1>8. LinksOK' BY <1>1, <1>4 DEF LinksOK
<1> QED BY <1>6, <1>7, <1>8 DEF PageInv

LEMMA FillSidebarKeeps == ASSUME PageInv, FillSidebar PROVE PageInv'
<1>1. /\ boot.stage = "waiting" /\ boot' = [stage |-> "done", titles |-> <<>>]
      /\ list' = boot.titles
      /\ \/ active' = active
         \/ active' \in Sessions /\ boot.titles[active'] # NoTitle
      /\ UNCHANGED <<disk, queue, ref, saves, sender, past>>
  BY DEF FillSidebar
<1>2. PageOK BY DEF PageInv
<1>3. /\ DOMAIN boot.titles = Sessions
      /\ \A x \in Sessions : boot.titles[x] # NoTitle =>
            ~Touched(x) /\ Recorded(x) /\ x \notin past.erased
  BY <1>1, <1>2 DEF PageOK, BootOK
<1>4. PageOK'
  BY <1>1, <1>2, <1>3 DEF PageOK, Shaped, BootOK, ListOK, GoneOK, Recorded
<1>5. QueueOK(queue', disk') BY <1>1 DEF PageInv
<1>6. ASSUME NEW op \in Ops(queue) PROVE Linked(op)'
  <2>1. Linked(op) /\ WellFormed(op) BY DEF PageInv, LinksOK, QueueOK, Ops
  <2>2. op.kind # "list" => op.session \in Sessions /\ boot.titles[op.session] = NoTitle
    BY <1>1, <2>1 DEF Linked, WellFormed
  <2> QED BY <1>1, <2>1, <2>2 DEF Linked, Recorded
<1> QED BY <1>1, <1>4, <1>5, <1>6 DEF PageInv, LinksOK

-----------------------------------------------------------------------------
(* What the page calls *)

\* An operation that is called.
LEMMA OperationFacts ==
    ASSUME NEW kind, NEW s
    PROVE  LET op == Operation(kind, s)
           IN  /\ DOMAIN op = Fields /\ op.kind = kind /\ op.session = s
               /\ op.result = "none" /\ op.title = NoTitle
BY DEF Operation, Fields

\* The stream may be stopped.
MayStop == \/ sender' = sender
           \/ sender.stage = "streaming" /\ sender' = [sender EXCEPT !.stage = "stopping"]

\* The conversation of a session that the page knows is shown, or asked for.
LEMMA RenderedKeeps ==
    ASSUME PageInv, NEW s \in Sessions \cup {NoSession}, Rendered(s), active' = s,
           boot.stage # "listing",
           s \in Sessions => s \notin past.erased /\ (boot.stage = "waiting" => boot.titles[s] = NoTitle),
           UNCHANGED <<disk, boot, list, saves, past>>,
           MayStop
    PROVE  PageInv'
<1>1. /\ ref' = s
      /\ \/ queue' = Abandoned
         \/ s # NoSession /\ queue' = Append(Abandoned, Operation("load", s))
  BY DEF Rendered
<1>2. PageOK /\ QueueOK(queue, disk) /\ \A op \in Ops(queue) : Linked(op) /\ WellFormed(op)
  BY DEF PageInv, LinksOK, QueueOK, Ops
<1>3. /\ DOMAIN sender' = DOMAIN sender /\ sender'.session = sender.session
      /\ \/ sender'.stage = sender.stage
         \/ sender.stage = "streaming" /\ sender'.stage = "stopping"
  BY <1>2 DEF PageOK, Shaped, MayStop
<1>4. PageOK'
  <2>1. Shaped' BY <1>1, <1>2, <1>3 DEF PageOK, Shaped
  <2>2. BootOK' BY <1>1, <1>2, <1>3, BrowserAssumption DEF PageOK, BootOK, Recorded, Touched
  <2>3. ListOK' BY <1>2 DEF PageOK, ListOK, Recorded
  <2>4. GoneOK' BY <1>2, <1>3, BrowserAssumption DEF PageOK, GoneOK, Shaped
  <2> QED BY <2>1, <2>2, <2>3, <2>4 DEF PageOK
<1>5. QueueOK(Abandoned, disk)
      /\ \A op \in Ops(Abandoned) : \E old \in Ops(queue) :
             op = old \/ (old.kind = "load" /\ op = [old EXCEPT !.alive = FALSE])
  BY <1>2, AbandonedKeeps
<1>6. ASSUME NEW op \in Ops(Abandoned) PROVE Linked(op)'
  <2>1. PICK old \in Ops(queue) :
             op = old \/ (old.kind = "load" /\ op = [old EXCEPT !.alive = FALSE])
    BY <1>5
  <2>2. Linked(old) /\ WellFormed(old) BY <1>2
  <2>3. /\ op.kind = old.kind /\ op.session = old.session /\ op.result = old.result
        /\ op.title = old.title /\ op.titles = old.titles
    BY <2>1, <2>2 DEF WellFormed, Fields
  <2>4. op.kind = "delete" => (active' = op.session => ref' = op.session)
    BY <1>1
  <2> QED BY <1>3, <2>2, <2>3, <2>4 DEF Linked, Recorded
<1>7. CASE queue' = Abandoned
  BY <1>4, <1>5, <1>6, <1>7 DEF PageInv, LinksOK
<1>8. CASE s # NoSession /\ queue' = Append(Abandoned, Operation("load", s))
  <2> DEFINE load == Operation("load", s)
  <2>1. /\ WellFormed(load) /\ load.result = "none" /\ load.kind = "load"
        /\ load.session = s
    BY <1>8, OperationFacts DEF WellFormed, Kinds
  <2> HIDE DEF load
  <2>2. \A op \in Ops(Abandoned) : InLine(op, load) BY <2>1 DEF InLine, Changes
  <2>3. /\ QueueOK(Append(Abandoned, load), disk)
        /\ Ops(Append(Abandoned, load)) = Ops(Abandoned) \cup {load}
    BY <1>5, <2>1, <2>2, AppendKeeps
  <2>4. Linked(load)' BY <1>8, <2>1 DEF Linked, Changes
  <2>5. LinksOK' BY <1>6, <1>8, <2>3, <2>4 DEF LinksOK, load
  <2>6. QueueOK(queue', disk') BY <1>8, <2>3 DEF load
  <2> QED BY <1>4, <2>5, <2>6 DEF PageInv
<1> QED BY <1>1, <1>7, <1>8

LEMMA RenderKeeps == ASSUME PageInv, Render PROVE PageInv'
<1>1. /\ active # ref /\ Rendered(active) /\ active' = active
      /\ UNCHANGED <<disk, boot, list, saves, sender, past>>
  BY DEF Render
<1>2. PageOK BY DEF PageInv
<1>3. active \in Sessions \cup {NoSession} BY <1>2 DEF PageOK, Shaped
<1>4. boot.stage # "listing" BY <1>1, <1>2, BrowserAssumption DEF PageOK, BootOK, Touched, Shaped
<1>5. active \in Sessions => /\ active \notin past.erased
                             /\ boot.stage = "waiting" => boot.titles[active] = NoTitle
  BY <1>2 DEF PageOK, GoneOK, BootOK, Touched
<1> QED BY <1>1, <1>3, <1>4, <1>5, RenderedKeeps DEF MayStop

\* Stopping the stream disturbs nothing.
LEMMA StoppedKeeps ==
    ASSUME PageInv, UNCHANGED <<disk, queue, boot, list, active, ref, saves, past>>,
           MayStop
    PROVE  PageInv'
<1>1. PageOK BY DEF PageInv
<1>2. /\ DOMAIN sender' = DOMAIN sender /\ sender'.session = sender.session
      /\ \/ sender' = sender
         \/ sender.stage = "streaming" /\ sender'.stage = "stopping"
  BY <1>1 DEF PageOK, Shaped, MayStop
<1>3. sender.stage = "streaming" => boot.stage # "listing"
  BY <1>1 DEF PageOK, BootOK, Idle
<1>4. PageOK' BY <1>1, <1>2, <1>3 DEF PageOK, Shaped, BootOK, ListOK, GoneOK, Recorded, Touched
<1>5. QueueOK(queue', disk') BY DEF PageInv
<1>6. LinksOK' BY <1>2 DEF PageInv, LinksOK, Linked, Recorded
<1> QED BY <1>4, <1>5, <1>6 DEF PageInv

LEMMA StopKeeps == ASSUME PageInv, Stop PROVE PageInv'
<1>1. /\ UNCHANGED <<disk, queue, boot, list, active, ref, saves, past>>
      /\ sender.stage = "streaming" /\ sender' = [sender EXCEPT !.stage = "stopping"]
  BY DEF Stop, Clicked, StopIf
<1>2. MayStop BY <1>1 DEF MayStop
<1> QED BY <1>1, <1>2, StoppedKeeps

LEMMA SwitchKeeps ==
    ASSUME PageInv, NEW s \in Sessions \cup {NoSession}, Switch(s)
    PROVE  PageInv'
<1>1. /\ active = ref /\ active' = s
      /\ s # ref \/ (s = NoSession /\ Streaming)
      /\ s # NoSession => list[s] # NoTitle
      /\ UNCHANGED <<disk, boot, list, saves, past>>
      /\ MayStop
      /\ \/ s = ref /\ UNCHANGED <<ref, queue>>
         \/ s # ref /\ Rendered(s)
  BY DEF Switch, Clicked, StopIf, MayStop
<1>2. PageOK BY DEF PageInv
<1>3. CASE s = ref /\ UNCHANGED <<ref, queue>> BY <1>1, <1>3, StoppedKeeps
<1>4. CASE s # ref /\ Rendered(s)
  <2>1. /\ boot.stage # "listing"
        /\ s \in Sessions => /\ s \notin past.erased
                             /\ boot.stage = "waiting" => boot.titles[s] = NoTitle
    BY <1>1, <1>2, <1>4, BrowserAssumption DEF PageOK, BootOK, GoneOK, Touched, Shaped
  <2> QED BY <1>1, <1>4, <2>1, RenderedKeeps
<1> QED BY <1>1, <1>3, <1>4

\* An operation is called.
LEMMA CallKeeps ==
    ASSUME PageInv, NEW op, WellFormed(op), op.result = "none", Linked(op)',
           \A o \in Ops(queue) : InLine(o, op) /\ Linked(o)',
           queue' = Append(queue, op), UNCHANGED disk
    PROVE  QueueOK(queue', disk') /\ LinksOK'
<1>1. QueueOK(queue, disk) BY DEF PageInv
<1>2. QueueOK(queue', disk') /\ Ops(queue') = Ops(queue) \cup {op} BY <1>1, AppendKeeps
<1> QED BY <1>2 DEF LinksOK

\* A click on a session that is in the sidebar.
LEMMA ClickKeeps ==
    ASSUME PageInv, NEW s \in Sessions, Clicked, list[s] # NoTitle, UNCHANGED <<page, past>>,
           NEW op, WellFormed(op), op.result = "none", op.session = s,
           op.kind \in {"rename", "delete"}, queue' = Append(queue, op)
    PROVE  PageInv'
<1>1. /\ UNCHANGED <<disk, boot, list, active, ref, saves, sender, past>>
      /\ active = ref
  BY DEF Clicked, page
<1>2. PageOK /\ LinksOK BY DEF PageInv
<1>3. /\ boot.stage # "listing" /\ s \notin past.erased
      /\ boot.stage = "waiting" => boot.titles[s] = NoTitle
  BY <1>2 DEF PageOK, BootOK, GoneOK, Touched
<1>4. PageOK' BY <1>1, <1>2, <1>3 DEF PageOK, Shaped, BootOK, ListOK, GoneOK, Recorded, Touched
<1>5. Linked(op)' BY <1>1, <1>3 DEF Linked
<1>6. \A o \in Ops(queue) : InLine(o, op) /\ Linked(o)'
  BY <1>1, <1>2 DEF LinksOK, Linked, InLine, Recorded
<1>7. QueueOK(queue', disk') /\ LinksOK' BY <1>1, <1>5, <1>6, CallKeeps
<1> QED BY <1>4, <1>7 DEF PageInv

LEMMA RenameKeeps == ASSUME PageInv, NEW s \in Sessions, Rename(s) PROVE PageInv'
<1> DEFINE op == [Operation("rename", s) EXCEPT !.title = "given"]
<1>1. /\ Clicked /\ list[s] # NoTitle /\ queue' = Append(queue, op)
      /\ UNCHANGED <<page, past>>
  BY DEF Rename
<1>2. DOMAIN op = Fields /\ op.kind = "rename" /\ op.session = s /\ op.result = "none"
      /\ op.title = "given"
  BY DEF Operation, Fields
<1> HIDE DEF op
<1>3. WellFormed(op) BY <1>2 DEF WellFormed, Kinds, NoTitle
<1> QED BY <1>1, <1>2, <1>3, ClickKeeps

LEMMA DeleteKeeps == ASSUME PageInv, NEW s \in Sessions, Delete(s) PROVE PageInv'
<1> DEFINE op == [Operation("delete", s) EXCEPT !.streaming = Streaming]
<1>1. /\ Clicked /\ list[s] # NoTitle /\ queue' = Append(queue, op)
      /\ UNCHANGED <<page, past>>
  BY DEF Delete
<1>2. DOMAIN op = Fields /\ op.kind = "delete" /\ op.session = s /\ op.result = "none"
  BY DEF Operation, Fields
<1> HIDE DEF op
<1>3. WellFormed(op) BY <1>2 DEF WellFormed, Kinds
<1> QED BY <1>1, <1>2, <1>3, ClickKeeps

LEMMA NoProviderKeeps == ASSUME PageInv, NoProvider PROVE PageInv'
<1>1. /\ sender.stage = "provider" /\ sender' = Idle
      /\ UNCHANGED <<disk, queue, boot, list, active, ref, saves, past>>
  BY DEF NoProvider
<1>2. PageOK BY DEF PageInv
<1>3. PageOK'
  BY <1>1, <1>2, SenderKnows, BrowserAssumption
     DEF PageOK, Shaped, BootOK, ListOK, GoneOK, Recorded, Touched, Idle
<1>4. QueueOK(queue', disk') BY <1>1 DEF PageInv
<1>5. LinksOK' BY <1>1, SenderKnows DEF PageInv, LinksOK, Linked, Recorded
<1> QED BY <1>3, <1>4, <1>5 DEF PageInv

\* A message is sent only in a conversation that is not gone: one that is open, or new.
LEMMA SendKeeps == ASSUME PageInv, Send PROVE PageInv'
<1>1. /\ active = ref /\ sender = Idle /\ boot.stage # "listing"
      /\ UNCHANGED <<disk, boot, list, active, ref, saves, past>>
  BY Zenon DEF Send, MaySend
<1>2. PageOK /\ LinksOK BY DEF PageInv
<1>3. \A op \in Ops(queue) : op.kind \notin {"create", "name"} /\ op.kind # "list"
  BY <1>1, <1>2 DEF LinksOK, Linked, Idle
<1>4. CASE /\ ref # NoSession /\ queue' = queue
           /\ Prepare(ref, Current(ref), list[ref] = "new")
  <2>1. /\ ref \in Sessions \ past.erased
        /\ boot.stage = "waiting" => boot.titles[ref] = NoTitle
    BY <1>1, <1>2, <1>4 DEF PageOK, Shaped, BootOK, GoneOK, Touched
  <2>2. /\ DOMAIN sender' = {"stage", "session", "current", "request", "rename", "got"}
        /\ sender'.session = ref /\ sender'.stage = "provider"
    BY <1>4 DEF Prepare, Idle
  <2>3. PageOK'
    BY <1>1, <1>2, <2>1, <2>2 DEF PageOK, Shaped, BootOK, ListOK, GoneOK, Recorded, Touched
  <2>4. QueueOK(queue', disk') BY <1>1, <1>4 DEF PageInv
  <2>5. LinksOK' BY <1>1, <1>2, <1>3, <1>4, <2>2 DEF LinksOK, Linked, Recorded
  <2> QED BY <2>3, <2>4, <2>5 DEF PageInv
<1>5. ASSUME NEW s \in Sessions, ref = NoSession, disk[s] = Absent, s \notin past.deleted,
             \A n \in DOMAIN queue : queue[n].session # s,
             queue' = Append(queue, Operation("create", s)),
             sender' = [Idle EXCEPT !.stage = "creating", !.session = s]
      PROVE  PageInv'
  <2> DEFINE op == Operation("create", s)
  <2>1. /\ DOMAIN sender' = {"stage", "session", "current", "request", "rename", "got"}
        /\ sender'.session = s /\ sender'.stage = "creating"
    BY <1>5 DEF Idle
  <2>2. /\ s \notin past.erased /\ disk[s].title = NoTitle /\ list[s] = NoTitle
        /\ boot.stage = "waiting" => boot.titles[s] = NoTitle
    BY <1>2, <1>5 DEF PageOK, Shaped, ListOK, BootOK, Recorded, Absent
  <2>3. PageOK'
    BY <1>1, <1>2, <2>1, <2>2
       DEF PageOK, Shaped, BootOK, ListOK, GoneOK, Recorded, Touched
  <2>4. WellFormed(op) /\ op.kind = "create" /\ op.session = s /\ op.result = "none"
    BY OperationFacts DEF WellFormed, Kinds
  <2> HIDE DEF op
  <2>5. Linked(op)' BY <1>1, <2>1, <2>2, <2>4 DEF Linked, Changes
  <2>6. ASSUME NEW o \in Ops(queue) PROVE InLine(o, op) /\ Linked(o)'
    <3>1. o.session # s BY <1>5 DEF Ops
    <3>2. Linked(o) BY <1>2 DEF LinksOK
    <3> QED BY <1>1, <1>3, <2>4, <3>1, <3>2 DEF InLine, Linked, Recorded
  <2>7. QueueOK(queue', disk') /\ LinksOK' BY <1>1, <1>5, <2>4, <2>5, <2>6, CallKeeps DEF op
  <2> QED BY <2>3, <2>7 DEF PageInv
<1> QED BY <1>4, <1>5, Zenon DEF Send

-----------------------------------------------------------------------------
(* What the page stores *)

LEMMA SaveFacts ==
    ASSUME NEW s \in Sessions, NEW c
    PROVE  LET op == SaveOf(s, c)
           IN  /\ WellFormed(op) /\ op.kind = "save" /\ op.session = s
               /\ op.result = "none" /\ op.title = NoTitle
BY DEF SaveOf, Operation, WellFormed, Fields, Kinds

\* A save is called, or waits behind the one that is called.
LEMMA PersistFacts ==
    ASSUME Shaped, NEW q, QueueOK(q, disk), NEW s \in Sessions, NEW c, Persist(q, s, c),
           \A op \in Ops(q) : /\ op.kind # "create"
                              /\ op.kind = "save" => saves[op.session] # <<>>
    PROVE  /\ QueueOK(queue', disk)
           /\ Ops(queue') \subseteq Ops(q) \cup {SaveOf(s, c)}
           /\ DOMAIN saves' = Sessions /\ \A x \in Sessions : IsSeq(saves'[x])
           /\ saves'[s] # <<>> /\ \A x \in Sessions : x # s => saves'[x] = saves[x]
<1>1. /\ saves' = [saves EXCEPT ![s] = Append(@, c)]
      /\ IF saves[s] = <<>> THEN queue' = Append(q, SaveOf(s, c)) ELSE queue' = q
  BY DEF Persist
<1>2. /\ DOMAIN saves' = Sessions /\ saves'[s] = Append(saves[s], c)
      /\ \A x \in Sessions : x # s => saves'[x] = saves[x]
  BY <1>1 DEF Shaped
<1>3. IsSeq(Append(saves[s], c)) /\ Append(saves[s], c) # <<>>
  BY AppendFacts DEF Shaped
<1>4. \A x \in Sessions : IsSeq(saves'[x])
  BY <1>2, <1>3 DEF Shaped
<1>5. QueueOK(queue', disk) /\ Ops(queue') \subseteq Ops(q) \cup {SaveOf(s, c)}
  <2>1. CASE saves[s] # <<>> BY <1>1, <2>1
  <2>2. CASE saves[s] = <<>>
    <3> DEFINE op == SaveOf(s, c)
    <3>1. /\ WellFormed(op) /\ op.kind = "save" /\ op.session = s /\ op.result = "none"
          /\ queue' = Append(q, op)
      BY <1>1, <2>2, SaveFacts
    <3> HIDE DEF op
    <3>2. \A o \in Ops(q) : InLine(o, op)
      BY <2>2, <3>1 DEF InLine
    <3>3. QueueOK(queue', disk) /\ Ops(queue') = Ops(q) \cup {op}
      BY <3>1, <3>2, AppendKeeps
    <3> QED BY <3>3 DEF op
  <2> QED BY <2>1, <2>2
<1> QED BY <1>2, <1>3, <1>4, <1>5

\* The handler of a message stores its conversation, which is not gone.
LEMMA StoreKeeps ==
    ASSUME PageInv, NEW q, QueueOK(q, disk), NEW c, Persist(q, sender.session, c),
           sender.stage \notin {"idle", "creating"},
           \A op \in Ops(q) : \/ op \in Ops(queue)
                              \/ /\ op.kind = "name" /\ op.session = sender.session
                                 /\ op.result = "none" /\ sender'.stage = "naming",
           DOMAIN sender' = DOMAIN sender, sender'.session \in {sender.session, NoSession},
           sender'.stage # "idle" => sender'.session = sender.session,
           sender.stage = "naming" => sender'.stage = "naming",
           UNCHANGED <<disk, boot, list, active, ref, past>>
    PROVE  PageInv'
<1> DEFINE s == sender.session
<1>1. PageOK /\ \A op \in Ops(queue) : Linked(op) BY DEF PageInv, LinksOK
<1>2. /\ s \in Sessions \ past.erased /\ boot.stage # "listing"
      /\ boot.stage = "waiting" => boot.titles[s] = NoTitle
  BY <1>1, SenderKnows DEF PageOK, Shaped, GoneOK
<1>3. \A op \in Ops(q) : /\ op.kind # "create"
                         /\ op.kind = "save" => saves[op.session] # <<>>
  BY <1>1, SenderKnows DEF Linked
<1>4. /\ QueueOK(queue', disk)
      /\ Ops(queue') \subseteq Ops(q) \cup {SaveOf(s, c)}
      /\ DOMAIN saves' = Sessions /\ \A x \in Sessions : IsSeq(saves'[x])
      /\ saves'[s] # <<>> /\ \A x \in Sessions : x # s => saves'[x] = saves[x]
  BY <1>1, <1>2, <1>3, PersistFacts DEF PageOK
<1>5. PageOK'
  <2>1. Shaped' BY <1>1, <1>2, <1>4 DEF PageOK, Shaped
  <2>2. BootOK' BY <1>1, <1>2, <1>4, BrowserAssumption DEF PageOK, BootOK, Recorded, Touched
  <2>3. ListOK' BY <1>1 DEF PageOK, ListOK, Recorded
  <2>4. GoneOK' BY <1>1, <1>2, <1>4, BrowserAssumption DEF PageOK, Shaped, GoneOK
  <2> QED BY <2>1, <2>2, <2>3, <2>4 DEF PageOK
<1>6. ASSUME NEW op \in Ops(queue') PROVE Linked(op)'
  <2>1. CASE op = SaveOf(s, c)
    <3>1. /\ op.kind = "save" /\ op.session = s /\ op.result = "none"
      BY <1>2, <2>1, SaveFacts
    <3> QED BY <1>2, <1>4, <3>1 DEF Linked
  <2>2. CASE op \in Ops(q) /\ op \in Ops(queue)
    <3>1. Linked(op) /\ op.kind # "create" BY <1>1, <1>3, <2>2
    <3>2. op.kind = "save" => saves'[op.session] # <<>>
      <4>1. op.kind # "list" => op.session \in Sessions
        BY <2>2 DEF PageInv, QueueOK, WellFormed, Ops
      <4> QED BY <1>4, <3>1, <4>1 DEF Linked
    <3>3. op.kind = "name" => sender'.stage = "naming" BY <3>1 DEF Linked
    <3> QED BY <3>1, <3>2, <3>3 DEF Linked, Recorded
  <2>3. CASE /\ op.kind = "name" /\ op.session = sender.session
             /\ op.result = "none" /\ sender'.stage = "naming"
    BY <1>2, <2>3 DEF Linked
  <2> QED BY <1>4, <2>1, <2>2, <2>3
<1> QED BY <1>4, <1>5, <1>6 DEF PageInv, LinksOK

LEMMA OptimisticKeeps == ASSUME PageInv, Optimistic PROVE PageInv'
<1> DEFINE s == sender.session
           name == [Operation("name", s) EXCEPT !.title = "derived"]
           c == Conversation(Append(sender.current.timeline, Entry(sender.request)),
                             Append(sender.current.context, Mark(sender.request, FALSE)))
<1>1. /\ sender.stage = "provider"
      /\ \/ /\ Persist(Append(queue, name), s, c)
            /\ sender' = [sender EXCEPT !.stage = "naming"]
         \/ Persist(queue, s, c) /\ sender' = [sender EXCEPT !.stage = "streaming"]
      /\ UNCHANGED <<disk, boot, list, active, ref, past>>
  BY DEF Optimistic
<1> HIDE DEF c
<1>2. Shaped /\ QueueOK(queue, disk) BY DEF PageInv, PageOK
<1>3. s \in Sessions BY <1>1, <1>2 DEF Shaped
<1>4. CASE Persist(queue, s, c) /\ sender' = [sender EXCEPT !.stage = "streaming"]
  BY <1>1, <1>2, <1>4, StoreKeeps DEF Shaped
<1>5. CASE Persist(Append(queue, name), s, c) /\ sender' = [sender EXCEPT !.stage = "naming"]
  <2>1. /\ DOMAIN name = Fields /\ name.kind = "name" /\ name.session = s
        /\ name.result = "none" /\ name.title = "derived"
    BY DEF Operation, Fields
  <2> HIDE DEF name
  <2>2. WellFormed(name) BY <1>3, <2>1 DEF WellFormed, Kinds, NoTitle
  <2>3. \A o \in Ops(queue) : InLine(o, name)
    BY <1>1, <2>1, SenderKnows DEF InLine
  <2>4. QueueOK(Append(queue, name), disk) /\ Ops(Append(queue, name)) = Ops(queue) \cup {name}
    BY <1>2, <2>1, <2>2, <2>3, AppendKeeps
  <2>5. DOMAIN sender' = DOMAIN sender /\ sender'.session = s /\ sender'.stage = "naming"
    BY <1>2, <1>5 DEF Shaped
  <2> QED BY <1>1, <1>5, <2>1, <2>4, <2>5, StoreKeeps
<1> QED BY <1>1, <1>4, <1>5

-----------------------------------------------------------------------------
(* What the stream brings *)

\* An event stores some conversation, or nothing.
Updates == \/ \E c : Persist(queue, sender.session, c)
           \/ UNCHANGED <<queue, saves>>

LEMMA SettleUpdates == ASSUME NEW state, Settle(state) PROVE Updates
BY Zenon DEF Settle, Update, Updates

LEMMA TextUpdates == ASSUME TextDelta PROVE Updates
BY Zenon DEF TextDelta, Update, Updates

LEMMA SnapshotUpdates == ASSUME StateEvent PROVE Updates
BY Zenon DEF StateEvent, Update, Updates

\* An event changes nothing that the invariant speaks of but the saves of the message.
LEMMA StreamKeeps ==
    ASSUME PageInv, Updates, sender.stage \in {"streaming", "stopping"},
           DOMAIN sender' = DOMAIN sender, sender'.session \in {sender.session, NoSession},
           sender'.stage # "idle" => sender'.session = sender.session,
           UNCHANGED <<disk, boot, list, active, ref, past>>
    PROVE  PageInv'
<1>1. PageOK /\ QueueOK(queue, disk) /\ \A op \in Ops(queue) : Linked(op)
  BY DEF PageInv, LinksOK
<1>2. CASE \E c : Persist(queue, sender.session, c)
  BY <1>1, <1>2, StoreKeeps
<1>3. CASE UNCHANGED <<queue, saves>>
  <2>1. boot.stage # "listing" /\ \A op \in Ops(queue) : op.kind \notin {"create", "name"}
    BY SenderKnows
  <2>2. Shaped' BY <1>1, <1>3 DEF PageOK, Shaped
  <2>3. BootOK' BY <1>1, <1>3, <2>1, BrowserAssumption DEF PageOK, BootOK, Recorded, Touched
  <2>4. ListOK' BY <1>1 DEF PageOK, ListOK, Recorded
  <2>5. GoneOK' BY <1>1, <1>3, BrowserAssumption DEF PageOK, Shaped, GoneOK
  <2>6. \A op \in Ops(queue') : Linked(op)'
    BY <1>1, <1>3, <2>1 DEF Linked, Recorded
  <2> QED BY <1>1, <1>3, <2>2, <2>3, <2>4, <2>5, <2>6 DEF PageInv, PageOK, LinksOK
<1> QED BY <1>2, <1>3 DEF Updates

LEMMA EventKeeps ==
    ASSUME PageInv, TextDelta \/ ErrorEvent \/ StateEvent \/ DoneEvent
    PROVE  PageInv'
<1>1. /\ Updates /\ sender.stage = "streaming"
      /\ UNCHANGED <<disk, boot, list, active, ref, past>>
      /\ \/ sender' = sender
         \/ \E got \in {"snapshot", "done"} : sender' = [sender EXCEPT !.got = got]
  <2>1. CASE TextDelta
    <3>1. Updates BY <2>1, TextUpdates
    <3> QED BY <2>1, <3>1, Zenon DEF TextDelta, Generating, Streams
  <2>2. CASE ErrorEvent BY <2>2, SettleUpdates DEF ErrorEvent, Generating, Streams
  <2>3. CASE StateEvent
    <3>1. Updates BY <2>3, SnapshotUpdates
    <3> QED BY <2>3, <3>1, Zenon DEF StateEvent, Streams, Gets
  <2>4. CASE DoneEvent BY <2>4, SettleUpdates DEF DoneEvent, Streams, Gets
  <2> QED BY <2>1, <2>2, <2>3, <2>4
<1>2. Shaped BY DEF PageInv, PageOK
<1>3. DOMAIN sender' = DOMAIN sender /\ sender'.session = sender.session
  BY <1>1, <1>2 DEF Shaped
<1> QED BY <1>1, <1>3, StreamKeeps

LEMMA StreamEndsKeeps == ASSUME PageInv, StreamEnds PROVE PageInv'
<1>1. /\ Updates /\ sender.stage \in {"streaming", "stopping"} /\ sender' = Idle
      /\ UNCHANGED <<disk, boot, list, active, ref, past>>
  BY SettleUpdates DEF StreamEnds, Streams, Updates
<1>2. Shaped BY DEF PageInv, PageOK
<1> QED BY <1>1, <1>2, StreamKeeps DEF Shaped, Idle

\* The next save of the session follows: while there is one, nothing else of the
\* session's saves is under way.
LEMMA SavedKeeps == ASSUME PageInv, Saved PROVE PageInv'
<1> DEFINE op == Head(queue)
           s == op.session
           rest == Tail(saves[s])
<1>1. /\ queue # <<>> /\ op.kind = "save"
      /\ saves' = [saves EXCEPT ![s] = rest]
      /\ \/ rest = <<>> /\ queue' = Tail(queue)
         \/ rest # <<>> /\ queue' = Append(Tail(queue), SaveOf(s, Head(rest)))
      /\ list' = list \/ (op.result = "ok" /\ list' = Listed(s, op.title))
      /\ UNCHANGED <<disk, boot, active, ref, sender, past>>
  BY DEF Saved, Heard
<1>2. PageOK BY DEF PageInv
<1>3. /\ QueueOK(Tail(queue), disk) /\ boot.stage # "listing"
      /\ \A o \in Ops(Tail(queue)) : Linked(o) /\ WellFormed(o) /\ InLine(op, o)
      /\ Linked(op) /\ s \in Sessions
  BY <1>1, Hears DEF WellFormed
<1>4. /\ s \notin past.erased /\ saves[s] # <<>>
      /\ boot.stage = "waiting" => boot.titles[s] = NoTitle
      /\ \A o \in Ops(Tail(queue)) :
            o.session = s => o.kind \notin {"create", "save"}
  BY <1>1, <1>3 DEF Linked, InLine, Changes
<1>5. IsSeq(rest) BY <1>2, <1>3, <1>4, TailFacts DEF PageOK, Shaped
<1>6. /\ DOMAIN saves' = Sessions /\ \A x \in Sessions : IsSeq(saves'[x])
      /\ saves'[s] = rest /\ \A x \in Sessions : x # s => saves'[x] = saves[x]
  BY <1>1, <1>2, <1>3, <1>5 DEF PageOK, Shaped
<1> HIDE DEF rest
<1>7. /\ DOMAIN list' = Sessions
      /\ \A x \in Sessions : list'[x] # NoTitle =>
            /\ Recorded(x) /\ x \notin past.erased
            /\ boot.stage = "waiting" => boot.titles[x] = NoTitle
      /\ \A o \in Ops(Tail(queue)) : o.kind = "create" => list'[o.session] = NoTitle
  BY <1>1, ListedFacts
<1>8. PageOK'
  <2>1. Shaped' BY <1>1, <1>2, <1>6, <1>7 DEF PageOK, Shaped
  <2>2. BootOK' BY <1>1, <1>2, <1>3, <1>4, <1>6, <1>7 DEF PageOK, BootOK, Recorded, Touched
  <2>3. ListOK' BY <1>1, <1>7 DEF ListOK, Recorded
  <2>4. GoneOK' BY <1>1, <1>2, <1>4, <1>6, <1>7 DEF PageOK, Shaped, GoneOK
  <2> QED BY <2>1, <2>2, <2>3, <2>4 DEF PageOK
<1>9. ASSUME NEW o \in Ops(Tail(queue)) PROVE Linked(o)'
  <2>1. o.kind = "save" => saves'[o.session] # <<>>
    BY <1>3, <1>4, <1>6 DEF Linked, WellFormed
  <2> QED BY <1>1, <1>3, <1>7, <2>1 DEF Linked, Recorded
<1>10. CASE rest = <<>> /\ queue' = Tail(queue)
  BY <1>1, <1>3, <1>8, <1>9, <1>10 DEF PageInv, LinksOK
<1>11. CASE rest # <<>> /\ queue' = Append(Tail(queue), SaveOf(s, Head(rest)))
  <2>0. PICK next : next = SaveOf(s, Head(rest)) OBVIOUS
  <2>1. WellFormed(next) /\ next.kind = "save" /\ next.session = s /\ next.result = "none"
    BY <1>3, <2>0, SaveFacts
  <2>2. \A o \in Ops(Tail(queue)) : InLine(o, next)
    BY <1>4, <2>1 DEF InLine
  <2>3. QueueOK(Append(Tail(queue), next), disk)
        /\ Ops(Append(Tail(queue), next)) = Ops(Tail(queue)) \cup {next}
    BY <1>3, <2>1, <2>2, AppendKeeps
  <2>4. Linked(next)' BY <1>1, <1>4, <1>6, <1>11, <2>1 DEF Linked
  <2>5. queue' = Append(Tail(queue), next) BY <1>11, <2>0
  <2> QED BY <1>1, <1>8, <1>9, <2>3, <2>4, <2>5 DEF PageInv, LinksOK
<1> QED BY <1>1, <1>10, <1>11

-----------------------------------------------------------------------------
(* What a transaction does *)

\* Where operation x is over: what has become of the database and of what happened.
TakesEffect(x) ==
    LET s == x.session
        changes == x.kind \in Changes /\ x.result = "ok"
    IN  /\ DOMAIN disk' = Sessions /\ \A y \in Sessions : DOMAIN disk'[y] = {"title", "held"}
        /\ \A y \in Sessions : disk'[y] # disk[y] => changes /\ y = s
        /\ changes /\ disk[s] = Absent /\ disk'[s] # Absent => x.kind \in {"create", "save"}
        /\ changes /\ disk[s].title = NoTitle /\ x.kind # "create" =>
              disk'[s].title = NoTitle /\ x.title = NoTitle
        /\ changes /\ disk[s].title # NoTitle /\ x.kind # "delete" => disk'[s].title # NoTitle
        /\ changes /\ x.title # NoTitle => disk'[s].title # NoTitle
        /\ changes /\ x.kind = "delete" => disk'[s] = Absent /\ s \in past'.deleted
        /\ x.kind = "list" /\ x.result = "ok" => x.titles = Titles
        /\ DOMAIN past' = DOMAIN past /\ past'.erased = past.erased
        /\ past.deleted \subseteq past'.deleted /\ past'.deleted \subseteq Sessions

LEMMA AfterFacts ==
    ASSUME Shaped, NEW op, WellFormed(op), op.kind # "list", op.result = "none"
    PROVE  LET x == disk[op.session]
               y == After(op)
           IN  /\ DOMAIN y = {"title", "held"}
               /\ op.kind = "create" => y.title = "new"
               /\ op.kind = "save" => y.title = x.title
               /\ op.kind \in {"rename", "name"} =>
                     /\ x.title = NoTitle => y = x
                     /\ x.title # NoTitle => y.title # NoTitle
               /\ op.kind = "delete" => y = Absent
               /\ op.kind = "load" => y = x
<1> DEFINE x == disk[op.session]
<1>1. op.session \in Sessions /\ DOMAIN x = {"title", "held"}
  BY DEF WellFormed, Shaped
<1>2. CASE op.kind = "create" BY <1>1, <1>2 DEF After
<1>3. CASE op.kind = "save" BY <1>1, <1>3 DEF After
<1>4. CASE op.kind \in {"rename", "name"}
  <2>1. op.title # NoTitle BY <1>4 DEF WellFormed
  <2>2. After(op) = IF x.title = NoTitle THEN x ELSE [x EXCEPT !.title = op.title]
    BY <1>4 DEF After
  <2> QED BY <1>1, <1>4, <2>1, <2>2
<1>5. CASE op.kind = "delete"
  <2>1. After(op) = Absent BY <1>5 DEF After
  <2> QED BY <1>5, <2>1 DEF Absent
<1>6. CASE op.kind = "load"
  <2>1. After(op) = x BY <1>6 DEF After
  <2> QED BY <1>1, <1>6, <2>1
<1> QED BY <1>2, <1>3, <1>4, <1>5, <1>6 DEF WellFormed, Kinds

\* The next operation is over, with or without an effect.
LEMMA CommitFacts ==
    ASSUME PageInv, Commit
    PROVE  \E n \in DOMAIN queue : \E x :
              /\ queue[n].result = "none" /\ \A m \in 1..(n - 1) : queue[m].result # "none"
              /\ queue' = [queue EXCEPT ![n] = x]
              /\ DOMAIN x = Fields /\ x.kind = queue[n].kind /\ x.session = queue[n].session
              /\ x.result \in {"ok", "failed"}
              /\ TakesEffect(x)
<1>1. Shaped /\ \A n \in DOMAIN queue : WellFormed(queue[n])
  BY DEF PageInv, PageOK, QueueOK
<1>2. PICK n \in DOMAIN queue :
         LET op == queue[n]
         IN  /\ op.result = "none" /\ \A m \in 1..(n - 1) : queue[m].result # "none"
             /\ \/ /\ queue' = [queue EXCEPT ![n] = Done(op)]
                   /\ disk' = IF op.kind = "list" THEN disk
                              ELSE [disk EXCEPT ![op.session] = After(op)]
                   /\ past' = IF op.kind = "delete"
                              THEN [past EXCEPT !.deleted = @ \cup {op.session}] ELSE past
                \/ /\ queue' = [queue EXCEPT ![n].result = "failed"]
                   /\ past' = [past EXCEPT !.failed = TRUE]
                   /\ disk' = disk
  BY DEF Commit
<1>3. PICK op : op = queue[n] OBVIOUS
<1>4. WellFormed(op) /\ op.result = "none" BY <1>1, <1>2, <1>3
<1>5. CASE /\ queue' = [queue EXCEPT ![n].result = "failed"]
           /\ past' = [past EXCEPT !.failed = TRUE]
           /\ disk' = disk
  <2>1. PICK x : x = [op EXCEPT !.result = "failed"] OBVIOUS
  <2>2. /\ DOMAIN x = Fields /\ x.kind = op.kind /\ x.session = op.session
        /\ x.result = "failed" /\ queue' = [queue EXCEPT ![n] = x]
    BY <1>3, <1>4, <1>5, <2>1 DEF WellFormed, Fields
  <2>3. /\ DOMAIN past' = DOMAIN past /\ past'.erased = past.erased
        /\ past'.deleted = past.deleted
    BY <1>1, <1>5 DEF Shaped
  <2>4. TakesEffect(x) BY <1>1, <1>5, <2>2, <2>3 DEF TakesEffect, Shaped
  <2> QED BY <1>2, <1>3, <2>2, <2>4
<1>6. CASE op.kind = "list" /\ queue' = [queue EXCEPT ![n] = Done(op)]
           /\ disk' = disk /\ past' = past
  <2>1. PICK x : x = Done(op) OBVIOUS
  <2>2. /\ DOMAIN x = Fields /\ x.kind = op.kind /\ x.session = op.session
        /\ x.result = "ok" /\ x.titles = Titles
    BY <1>4, <1>6, <2>1 DEF WellFormed, Fields, Done
  <2>3. TakesEffect(x) BY <1>1, <1>6, <2>2 DEF TakesEffect, Shaped, Changes
  <2> QED BY <1>2, <1>3, <1>6, <2>1, <2>2, <2>3
<1>7. CASE /\ op.kind # "list" /\ queue' = [queue EXCEPT ![n] = Done(op)]
           /\ disk' = [disk EXCEPT ![op.session] = After(op)]
           /\ past' = IF op.kind = "delete"
                      THEN [past EXCEPT !.deleted = @ \cup {op.session}] ELSE past
  <2>1. PICK x : x = Done(op) OBVIOUS
  <2>2. /\ DOMAIN x = Fields /\ x.kind = op.kind /\ x.session = op.session
        /\ x.result = "ok" /\ x.title = After(op).title
    BY <1>4, <1>7, <2>1 DEF WellFormed, Fields, Done
  <2>3. /\ DOMAIN past' = DOMAIN past /\ past'.erased = past.erased
        /\ \/ op.kind # "delete" /\ past'.deleted = past.deleted
           \/ op.kind = "delete" /\ past'.deleted = past.deleted \cup {op.session}
    BY <1>1, <1>7 DEF Shaped
  <2>4. op.session \in Sessions BY <1>4, <1>7 DEF WellFormed
  <2>5. /\ DOMAIN disk' = Sessions /\ disk'[op.session] = After(op)
        /\ \A y \in Sessions : y # op.session => disk'[y] = disk[y]
    BY <1>1, <1>7, <2>4 DEF Shaped
  <2>6. PICK after : after = After(op) OBVIOUS
  <2>7. LET old == disk[op.session]
        IN  /\ DOMAIN after = {"title", "held"}
            /\ op.kind = "create" => after.title = "new"
            /\ op.kind = "save" => after.title = old.title
            /\ op.kind \in {"rename", "name"} =>
                  /\ old.title = NoTitle => after = old
                  /\ old.title # NoTitle => after.title # NoTitle
            /\ op.kind = "delete" => after = Absent
            /\ op.kind = "load" => after = old
    BY <1>1, <1>4, <1>7, <2>6, AfterFacts
  <2>8. Absent.title = NoTitle BY DEF Absent
  <2>9. op.kind \in Changes \/ op.kind = "load" BY <1>4, <1>7 DEF WellFormed, Kinds, Changes
  <2>10. TakesEffect(x)
    BY <1>1, <1>7, <2>2, <2>3, <2>4, <2>5, <2>6, <2>7, <2>8, <2>9
       DEF TakesEffect, Shaped, Changes, NoTitle
  <2> QED BY <1>2, <1>3, <1>7, <2>1, <2>2, <2>10
<1> QED BY <1>2, <1>3, <1>5, <1>6, <1>7

\* An element of a sequence is replaced.
LEMMA ReplaceFacts ==
    ASSUME NEW q, IsSeq(q), NEW n \in DOMAIN q, NEW x
    PROVE  LET r == [q EXCEPT ![n] = x]
           IN  /\ IsSeq(r) /\ Len(r) = Len(q) /\ DOMAIN r = DOMAIN q
               /\ r[n] = x /\ \A m \in DOMAIN q : m # n => r[m] = q[m]
<1> DEFINE r == [q EXCEPT ![n] = x]
           T == {r[m] : m \in 1..Len(q)}
<1>1. Len(q) \in Nat /\ DOMAIN q = 1..Len(q) BY SeqFacts
<1>2. q \in Seq({q[m] : m \in DOMAIN q}) BY DEF IsSeq
<1>3. /\ r = [m \in 1..Len(q) |-> IF m = n THEN x ELSE q[m]]
      /\ DOMAIN r = DOMAIN q /\ r[n] = x /\ \A m \in DOMAIN q : m # n => r[m] = q[m]
  BY <1>1, <1>2
<1> HIDE DEF r
<1>4. r \in [1..Len(q) -> T] BY <1>3
<1>5. r \in Seq(T) BY <1>1, <1>4
<1>6. IsSeq(r) BY <1>5, OwnElements
<1>7. Len(r) \in Nat /\ DOMAIN r = 1..Len(r) BY <1>6, SeqFacts
<1>8. Len(r) = Len(q) BY <1>1, <1>3, <1>7
<1> QED BY <1>3, <1>6, <1>8 DEF r

\* The transactions are over in the order of the calls.
LEMMA CommitKeeps == ASSUME PageInv, Commit PROVE PageInv'
<1>1. PICK n \in DOMAIN queue, x \in {queue'[m] : m \in DOMAIN queue'} :
         /\ queue[n].result = "none" /\ \A m \in 1..(n - 1) : queue[m].result # "none"
         /\ queue' = [queue EXCEPT ![n] = x]
         /\ DOMAIN x = Fields /\ x.kind = queue[n].kind /\ x.session = queue[n].session
         /\ x.result \in {"ok", "failed"}
         /\ TakesEffect(x)
  BY CommitFacts
<1>2. /\ UNCHANGED <<boot, list, active, ref, saves, sender>>
  BY DEF Commit, page
<1>3. /\ PageOK /\ IsSeq(queue) /\ AfterDelete(queue, disk)
      /\ \A m \in DOMAIN queue : WellFormed(queue[m])
      /\ \A k \in DOMAIN queue : \A m \in (k + 1)..Len(queue) : InLine(queue[k], queue[m])
      /\ \A op \in Ops(queue) : Linked(op)
  BY DEF PageInv, QueueOK, LinksOK
<1>4. Len(queue) \in Nat /\ DOMAIN queue = 1..Len(queue)
      /\ \A m \in DOMAIN queue : queue[m] \in Ops(queue)
  BY <1>3, SeqFacts
<1>5. /\ IsSeq(queue') /\ Len(queue') = Len(queue) /\ DOMAIN queue' = DOMAIN queue
      /\ queue'[n] = x /\ \A m \in DOMAIN queue : m # n => queue'[m] = queue[m]
  BY <1>1, <1>3, ReplaceFacts
<1>6. ASSUME NEW m \in DOMAIN queue, m # n
      PROVE  \/ m < n /\ queue[m].result # "none" /\ InLine(queue[m], queue[n])
             \/ m > n /\ queue[m].result = "none" /\ InLine(queue[n], queue[m])
  <2>1. CASE m < n
    <3>1. m \in 1..(n - 1) /\ n \in (m + 1)..Len(queue) BY <1>4, <1>6, <2>1
    <3> QED BY <1>1, <1>3, <2>1, <3>1
  <2>2. CASE m > n
    <3>1. m \in (n + 1)..Len(queue) BY <1>4, <1>6, <2>2
    <3>2. InLine(queue[n], queue[m]) BY <1>3, <3>1
    <3> QED BY <1>1, <2>2, <3>2 DEF InLine
  <2> QED BY <1>4, <1>6, <2>1, <2>2
<1>7. /\ WellFormed(queue[n]) /\ Linked(queue[n])
  BY <1>3, <1>4
\* What was recorded is recorded or deleted.
<1>8. \A y \in Sessions : Recorded(y) => Recorded(y)'
  BY <1>1 DEF TakesEffect, Recorded, Changes
<1>9. WellFormed(x)
  BY <1>1, <1>3, <1>7 DEF WellFormed, TakesEffect, Titles
\* What was deleted by an operation before is neither created nor named.
<1>10. ASSUME NEW m \in DOMAIN queue, m # n, queue[m].kind = "delete", queue[m].result = "ok"
       PROVE  /\ queue[m].session \in Sessions /\ disk'[queue[m].session].title = NoTitle
              /\ queue[m].session \in past'.deleted /\ m < n
              /\ x.kind \in Changes /\ x.result = "ok" /\ x.session = queue[m].session =>
                    x.title = NoTitle /\ x.kind # "create"
  <2>1. m < n /\ InLine(queue[m], queue[n]) BY <1>6, <1>10
  <2>2. /\ queue[m].session \in past.deleted /\ disk[queue[m].session].title = NoTitle
        /\ queue[m].session \in Sessions
    BY <1>3, <1>4, <1>10 DEF Linked, WellFormed
  <2>3. x.kind \in Changes /\ x.session = queue[m].session => x.kind # "create"
    BY <1>1, <1>10, <2>1 DEF InLine, Changes
  <2> QED BY <1>1, <2>1, <2>2, <2>3 DEF TakesEffect
<1>11. QueueOK(queue', disk')
  <2>1. \A m \in DOMAIN queue' : WellFormed(queue'[m]) BY <1>3, <1>5, <1>9
  <2>2. ASSUME NEW k \in DOMAIN queue', NEW m \in (k + 1)..Len(queue')
        PROVE  InLine(queue'[k], queue'[m])
    <3>1. k \in DOMAIN queue /\ m \in DOMAIN queue /\ k < m /\ InLine(queue[k], queue[m])
      BY <1>3, <1>4, <1>5
    <3>2. CASE k = n
      <4>1. queue'[k] = x /\ queue'[m] = queue[m] /\ queue[m].result = "none"
        BY <1>4, <1>5, <1>6, <3>1, <3>2
      <4> QED BY <1>1, <3>1, <3>2, <4>1 DEF InLine
    <3>3. CASE m = n
      <4>1. queue'[m] = x /\ queue'[k] = queue[k] /\ queue[k].result # "none"
        BY <1>4, <1>5, <1>6, <3>1, <3>3
      <4> QED BY <1>1, <1>10, <3>1, <3>3, <4>1 DEF InLine
    <3>4. CASE k # n /\ m # n BY <1>5, <3>1, <3>4
    <3> QED BY <3>2, <3>3, <3>4
  <2>3. AfterDelete(queue', disk')
    <3> SUFFICES ASSUME NEW m \in DOMAIN queue, queue'[m].kind = "delete",
                        queue'[m].result = "ok", disk'[queue'[m].session] # Absent
                 PROVE  \E k \in (m + 1)..Len(queue') :
                           queue'[k].kind = "save" /\ queue'[k].session = queue'[m].session
      BY <1>5 DEF AfterDelete
    <3>1. m # n BY <1>1, <1>5 DEF TakesEffect, Changes
    <3>2. queue'[m] = queue[m] BY <1>5, <3>1
    <3> DEFINE s == queue[m].session
    <3>3. s \in Sessions /\ m < n
          /\ (x.kind \in Changes /\ x.result = "ok" /\ x.session = s => x.kind # "create")
      BY <1>10, <3>1, <3>2
    <3>4. CASE disk[s] = Absent
      <4>1. x.kind = "save" /\ x.session = s
        BY <1>1, <3>2, <3>3, <3>4 DEF TakesEffect
      <4>2. n \in (m + 1)..Len(queue') BY <1>4, <1>5, <3>3
      <4> QED BY <1>5, <3>2, <4>1, <4>2
    <3>5. CASE disk[s] # Absent
      <4>1. PICK k \in (m + 1)..Len(queue) : queue[k].kind = "save" /\ queue[k].session = s
        BY <1>3, <3>2, <3>5 DEF AfterDelete
      <4>2. k \in DOMAIN queue BY <1>4
      <4>3. queue'[k].kind = "save" /\ queue'[k].session = s BY <1>1, <1>5, <4>1, <4>2
      <4> QED BY <1>5, <3>2, <4>1, <4>3
    <3> QED BY <3>4, <3>5
  <2> QED BY <1>5, <2>1, <2>2, <2>3 DEF QueueOK
<1>12. ASSUME NEW op \in Ops(queue') PROVE Linked(op)'
  <2>1. PICK m \in DOMAIN queue : op = queue'[m] BY <1>5 DEF Ops
  <2>2. CASE m # n
    <3>1. op = queue[m] /\ Linked(op) /\ WellFormed(op) BY <1>3, <1>4, <1>5, <2>1, <2>2
    <3>2. op.kind = "delete" /\ op.result = "ok" =>
             op.session \in past'.deleted /\ disk'[op.session].title = NoTitle
      BY <1>10, <2>2, <3>1
    <3>3. op.kind # "list" => op.session \in Sessions BY <3>1 DEF WellFormed
    <3>4. past'.erased = past.erased BY <1>1 DEF TakesEffect
    <3> QED BY <1>2, <1>8, <3>1, <3>2, <3>3, <3>4 DEF Linked, Changes
  <2>3. CASE m = n
    <3>1. op = x BY <1>5, <2>1, <2>3
    <3>2. x.kind # "list" => x.session \in Sessions BY <1>9 DEF WellFormed
    <3>3. x.kind = "delete" /\ x.result = "ok" =>
             x.session \in past'.deleted /\ disk'[x.session].title = NoTitle
      BY <1>1 DEF TakesEffect, Changes, Absent
    <3>4. x.kind \in Changes /\ x.result = "ok" /\ x.title # NoTitle => Recorded(x.session)'
      BY <1>1 DEF TakesEffect, Recorded
    <3>5. x.kind = "list" /\ x.result = "ok" =>
             \A y \in Sessions : x.titles[y] # NoTitle =>
                Recorded(y)' /\ y \notin past'.erased
      <4>1. x.kind = "list" /\ x.result = "ok" =>
               \A y \in Sessions : x.titles[y] # NoTitle => disk[y].title # NoTitle
        BY <1>1 DEF TakesEffect, Titles
      <4>2. \A y \in Sessions : disk[y].title # NoTitle => y \notin past.erased
        BY <1>3 DEF PageOK, GoneOK, Absent
      <4> QED BY <1>1, <1>8, <4>1, <4>2 DEF TakesEffect, Recorded
    <3>6. x.session \in past.erased /\ x.kind \in Changes /\ x.result = "ok" =>
             x.title = NoTitle /\ x.kind \notin {"create", "save"}
      <4>1. x.session \in past.erased => disk[x.session].title = NoTitle
        BY <1>3 DEF PageOK, GoneOK, Absent
      <4> QED BY <1>1, <1>7, <4>1 DEF TakesEffect, Linked
    <3>7. past'.erased = past.erased BY <1>1 DEF TakesEffect
    <3> QED BY <1>1, <1>2, <1>7, <3>1, <3>2, <3>3, <3>4, <3>5, <3>6, <3>7 DEF Linked
  <2> QED BY <2>2, <2>3
<1>13. PageOK'
  <2>1. Shaped'
    BY <1>1, <1>2, <1>3 DEF PageOK, Shaped, TakesEffect
  <2>2. BootOK'
    <3>1. boot.stage = "listing" => queue'[1].kind = "list" /\ Len(queue') = 1
      BY <1>1, <1>3, <1>4, <1>5 DEF PageOK, BootOK
    <3>2. past'.erased = past.erased BY <1>1 DEF TakesEffect
    <3> QED BY <1>2, <1>3, <1>8, <3>1, <3>2 DEF PageOK, BootOK, Touched
  <2>3. ListOK' BY <1>2, <1>3, <1>8 DEF PageOK, ListOK
  <2>4. GoneOK'
    <3>1. \A s \in past.erased : x.session = s => x.kind \notin {"create", "save"}
      BY <1>1, <1>7 DEF Linked
    <3>2. past.erased \subseteq Sessions BY <1>3 DEF PageOK, Shaped
    <3>3. \A s \in past.erased : disk'[s] = Absent
      BY <1>1, <1>3, <3>1, <3>2 DEF TakesEffect, PageOK, GoneOK
    <3> QED BY <1>1, <1>2, <1>3, <3>3 DEF PageOK, GoneOK, TakesEffect
  <2> QED BY <2>1, <2>2, <2>3, <2>4 DEF PageOK
<1> QED BY <1>11, <1>12, <1>13 DEF PageInv, LinksOK

-----------------------------------------------------------------------------
(* The theorems *)

\* The page as it opens, on whatever the browser has stored.
Opening ==
    /\ DOMAIN disk = Sessions /\ \A s \in Sessions : DOMAIN disk[s] = {"title", "held"}
    /\ queue = <<Operation("list", NoSession)>> /\ boot.stage = "listing"
    /\ list = [s \in Sessions |-> NoTitle] /\ saves = [s \in Sessions |-> <<>>]
    /\ active = NoSession /\ ref = NoSession /\ sender = Idle
    /\ DOMAIN past = {"unread", "failed", "early", "before", "deleted", "erased"}
    /\ past.erased \subseteq past.deleted /\ past.deleted \subseteq Sessions
    /\ \A s \in past.erased : disk[s] = Absent

LEMMA OpeningInv == Opening => PageInv
<1> SUFFICES ASSUME Opening PROVE PageInv
  OBVIOUS
<1>1. PICK op : op = Operation("list", NoSession) OBVIOUS
<1>2. /\ DOMAIN op = Fields /\ op.kind = "list" /\ op.result = "none"
      /\ op.session = NoSession
  BY <1>1, OperationFacts
<1>3. queue = <<op>> BY <1>1 DEF Opening
<1>4. Len(queue) = 1 /\ DOMAIN queue = {1} /\ queue[1] = op BY <1>3
<1>5. IsSeq(queue)
  <2>1. queue \in Seq({op}) BY <1>3
  <2> QED BY <2>1, OwnElements
<1>6. Idle.session = NoSession /\ Idle.stage = "idle"
      /\ DOMAIN Idle = {"stage", "session", "current", "request", "rename", "got"}
  BY DEF Idle
<1>7. IsSeq(<<>>)
  <2>1. <<>> \in Seq({NoSession}) OBVIOUS
  <2> QED BY <2>1, OwnElements
<1>8. Shaped BY <1>6, <1>7 DEF Opening, Shaped
<1>9. BootOK BY <1>2, <1>4, <1>6, BrowserAssumption DEF Opening, BootOK, Touched
<1>10. ListOK BY DEF Opening, ListOK
<1>11. GoneOK BY <1>6, BrowserAssumption DEF Opening, GoneOK
<1>12. WellFormed(op) BY <1>2 DEF WellFormed, Kinds
<1>13. QueueOK(queue, disk)
  BY <1>2, <1>4, <1>5, <1>12 DEF QueueOK, AfterDelete
<1>14. Linked(op)
  BY <1>2, BrowserAssumption DEF Linked, Opening, Changes
<1>15. LinksOK BY <1>4, <1>14 DEF LinksOK, Ops
<1> QED BY <1>8, <1>9, <1>10, <1>11, <1>13, <1>15 DEF PageInv, PageOK

LEMMA InitInv == Init => PageInv
<1>1. Init => Opening
  BY BrowserAssumption DEF Init, Opening, Opened
<1> QED BY <1>1, OpeningInv

LEMMA ReloadKeeps == PageInv /\ Reload => PageInv'
<1>1. PageInv /\ Reload => Opening'
  <2> SUFFICES ASSUME PageInv, Reload PROVE Opening'
    OBVIOUS
  <2>1. Shaped /\ GoneOK BY DEF PageInv, PageOK
  <2> QED BY <2>1 DEF Reload, Open, Opened, Opening, Shaped, GoneOK
<1>2. Opening' => PageInv' BY OpeningInv, PTL
<1> QED BY <1>1, <1>2

\* Every step follows the operations on the database from their call to their hearing.
LEMMA NextInv == PageInv /\ [Next]_vars => PageInv'
<1> SUFFICES ASSUME PageInv, [Next]_vars PROVE PageInv'
  OBVIOUS
<1>1. CASE Commit BY <1>1, CommitKeeps
<1>2. CASE Fill("ok") \/ Fill("failed") BY <1>2, FillKeeps
<1>3. CASE FillSidebar BY <1>3, FillSidebarKeeps
<1>4. CASE Render BY <1>4, RenderKeeps
<1>5. CASE Loaded BY <1>5, LoadedKeeps
<1>6. CASE LoadFails BY <1>6, LoadFailsKeeps
<1>7. CASE Saved BY <1>7, SavedKeeps
<1>8. CASE Renamed BY <1>8, RenamedKeeps
<1>9. CASE Deleted BY <1>9, DeletedKeeps
<1>10. CASE DeleteFails BY <1>10, DeleteFailsKeeps
<1>11. CASE Stop BY <1>11, StopKeeps
<1>12. CASE \E s \in Sessions \cup {NoSession} : Switch(s) BY <1>12, SwitchKeeps
<1>13. CASE \E s \in Sessions : Rename(s) \/ Delete(s) BY <1>13, RenameKeeps, DeleteKeeps
<1>14. CASE Send BY <1>14, SendKeeps
<1>15. CASE Created BY <1>15, CreatedKeeps
<1>16. CASE CreateFails BY <1>16, CreateFailsKeeps
<1>17. CASE NoProvider BY <1>17, NoProviderKeeps
<1>18. CASE Optimistic BY <1>18, OptimisticKeeps
<1>19. CASE Named BY <1>19, NamedKeeps
<1>20. CASE NamingFails BY <1>20, NamingFailsKeeps
<1>21. CASE TextDelta \/ ErrorEvent \/ StateEvent \/ DoneEvent BY <1>21, EventKeeps
<1>22. CASE StreamEnds BY <1>22, StreamEndsKeeps
<1>23. CASE Reload BY <1>23, ReloadKeeps
<1>24. CASE UNCHANGED vars
  <2>1. UNCHANGED <<disk, queue, boot, list, active, ref, saves, sender, past>>
    BY <1>24 DEF vars
  <2> QED BY <2>1, StoppedKeeps DEF MayStop
<1> QED
  BY <1>1, <1>2, <1>3, <1>4, <1>5, <1>6, <1>7, <1>8, <1>9, <1>10, <1>11, <1>12, <1>13,
     <1>14, <1>15, <1>16, <1>17, <1>18, <1>19, <1>20, <1>21, <1>22, <1>23, <1>24
     DEF Next

\* The operations under way, the page and the database stay in step: what is erased has
\* nothing on the way that could bring it back (deleteSession, persistConversation and
\* sendMessage in App.tsx over the transactions of local.ts).
THEOREM PageInvariant == Spec => []PageInv
<1> QED BY InitInv, NextInv, PTL DEF Spec

\* A conversation that is deleted while nothing stores it is gone for good: no save, no
\* renaming and no reload that follows stores any of it again (App.tsx deleteSession,
\* local.ts deleteSession).
THEOREM DeletedAlwaysGone == Spec => []DeletedStaysGone
<1>1. PageInv => DeletedStaysGone
  BY DEF PageInv, PageOK, GoneOK, DeletedStaysGone
<1> QED BY <1>1, PageInvariant, PTL

-----------------------------------------------------------------------------
(* The invariant: the copies *)

One(held) == held = Nothing \/ \E c \in held : held = {c}

IsLoad(op, s) == op.kind = "load" /\ op.session = s
IsSave(op, s) == op.kind = "save" /\ op.session = s
IsDelete(op, s) == op.kind = "delete" /\ op.session = s

OnTheWay(s) == UNION {op.held : op \in {o \in Ops(queue) : IsLoad(o, s)}}
InMessage(s) == IF sender.session = s THEN {sender.current} ELSE {}

\* Every copy of the session's conversation. Those in the saves that are under way are
\* those that wait.
AllCopies(s) ==
    cache[s] \cup disk[s].held \cup Ops(saves[s]) \cup OnTheWay(s) \cup InMessage(s)

\* What is sent in a session that could not be loaded begins from nothing.
Sound(s, c) ==
    /\ c \in Conversations /\ Upto(c, sent)
    /\ s \notin past.unread => Matches(c)

CopiesOK ==
    /\ sent \in Int
    /\ \A s \in Sessions : \A c \in AllCopies(s) : Sound(s, c)
    /\ DOMAIN cache = Sessions
    /\ \A s \in Sessions : One(cache[s]) /\ One(disk[s].held)
    /\ \A op \in Ops(queue) : op.kind = "load" => One(op.held)

\* The save that is under way is the first of those that wait.
SavesOK ==
    /\ \A s \in Sessions : saves[s] # <<>> => \E op \in Ops(queue) : IsSave(op, s)
    /\ \A op \in Ops(queue) : op.kind = "save" => op.held = {saves[op.session][1]}

FailuresOK ==
    \A op \in Ops(queue) : op.result = "failed" => past.failed

-----------------------------------------------------------------------------
(* The invariant: the message that is being sent *)

Holding == {"provider", "naming", "streaming", "stopping"}
Replying == {"naming", "streaming", "stopping"}

SendsIn(s) == sender.stage \in Holding /\ sender.session = s

\* What this page knows of the session is all that there is to know.
Read(s) == s \notin past.unread \/ ~past.failed

\* The conversation c is the one that a message continues, x, and the message.
Follows(c, x, request, got) ==
    LET last == Len(x.timeline) + 1
    IN  /\ Len(c.timeline) = last
        /\ \A n \in 1..Len(x.timeline) : c.timeline[n] = x.timeline[n]
        /\ c.timeline[last].request = request
        /\ got = "nothing" => /\ c.context = Append(x.context, Mark(request, FALSE))
                              /\ c.timeline[last].state # "done"
        /\ got # "nothing" => c.context = Append(x.context, Mark(request, TRUE))
        /\ got = "done" => c.timeline[last].state = "done"

Continues(c) == Follows(c, sender.current, sender.request, sender.got)

SenderOK ==
    /\ sender.stage \in {"idle", "creating"} \cup Holding
    /\ sender.stage = "idle" => sender = Idle
    /\ sender.stage \in {"idle", "creating"} => sender.current = Empty
    /\ sender.stage \in Holding =>
          /\ sender.request \in Int /\ sender.request <= sent
          /\ \A n \in DOMAIN sender.current.timeline :
                sender.current.timeline[n].request < sender.request
          /\ sender.got \in {"nothing", "snapshot", "done"}
          /\ sender.stage \in {"provider", "naming"} => sender.got = "nothing"
          /\ Read(sender.session) => \A c \in cache[sender.session] :
                IF sender.stage = "provider" THEN c = sender.current ELSE Continues(c)

\* The session that is being created is not known to anybody else.
CreatingOK ==
    sender.stage = "creating" =>
        LET s == sender.session
        IN  /\ \E op \in Ops(queue) : op.kind = "create" /\ op.session = s
            /\ active # s /\ ref # s
            /\ cache[s] = Nothing /\ disk[s].held = Nothing /\ saves[s] = <<>>
            /\ \A op \in Ops(queue) : ~IsLoad(op, s)

-----------------------------------------------------------------------------
(* The invariant: what is deleted, and what is loaded *)

\* The session is deleted, and nothing that the page knows or will hear brings it back.
Gone(s) ==
    /\ s \in past.deleted /\ list[s] = NoTitle /\ active # s
    /\ boot.stage = "waiting" => boot.titles[s] = NoTitle
    /\ \A op \in Ops(queue) :
          op.kind \in Changes /\ op.session = s /\ op.result = "ok" => op.title = NoTitle

\* What this page did in the session is not only in the database.
OnlyStored(s) ==
    /\ saves[s] = <<>> /\ ~SendsIn(s)
    /\ \A c \in disk[s].held : Upto(c, past.before)

DeletedOK ==
    /\ \A s \in past.deleted : /\ disk[s].title = NoTitle
                               /\ \A op \in Ops(queue) : ~(op.kind = "create" /\ op.session = s)
    /\ \A s \in Sessions : Read(s) /\ cache[s] = Nothing => Gone(s) \/ OnlyStored(s)

Awaited(n) == queue[n].kind = "load" /\ queue[n].alive

DeletedAfter(n, s) == \E m \in (n + 1)..Len(queue) : IsDelete(queue[m], s)

LoadsOK ==
    /\ \A n \in DOMAIN queue : Awaited(n) =>
          LET op == queue[n]
              s == op.session
          IN  /\ loading /\ s = ref
              /\ Read(s) => /\ OnlyStored(s)
                            /\ \A c \in op.held : Upto(c, past.before)
              /\ Read(s) /\ op.result = "ok" =>
                    \/ op.held = disk[s].held
                    \/ disk[s].held = Nothing /\ DeletedAfter(n, s)
    /\ \A n, m \in DOMAIN queue : Awaited(n) /\ Awaited(m) => n = m
    /\ active = ref /\ ref \in Sessions /\ ~loading /\ Read(ref) => cache[ref] # Nothing

-----------------------------------------------------------------------------
(* The invariant: the history *)

\* The later copy has every exchange of the earlier one, with as much of its reply.
Extends(c, later) ==
    /\ Len(c.timeline) <= Len(later.timeline)
    /\ \A n \in 1..Len(c.timeline) :
          /\ c.timeline[n].request = later.timeline[n].request
          /\ c.timeline[n].text <= later.timeline[n].text
          /\ c.context[n].whole => later.context[n].whole

HistoryOK ==
    \A s \in Sessions \ past.unread :
        /\ \A i \in DOMAIN saves[s] :
              /\ \A j \in (i + 1)..Len(saves[s]) : Extends(saves[s][i], saves[s][j])
              /\ \A c \in cache[s] : Extends(saves[s][i], c)
              /\ sender.stage = "provider" /\ sender.session = s =>
                    Extends(saves[s][i], sender.current)
              /\ \A d \in disk[s].held : Extends(d, saves[s][i])
        /\ \A d \in disk[s].held :
              /\ \A c \in cache[s] : Extends(d, c)
              /\ sender.stage = "provider" /\ sender.session = s => Extends(d, sender.current)

-----------------------------------------------------------------------------
(* The invariant: what is stored and shown *)

StoredOK ==
    ~past.failed =>
        /\ \A s \in Sessions : \A c \in cache[s] :
              \/ \E op \in Ops(queue) : IsDelete(op, s)
              \/ saves[s] # <<>> /\ saves[s][Len(saves[s])] = c
              \/ saves[s] = <<>> /\ Conversed(disk[s].held) = c
        /\ \A n \in DOMAIN queue :
              LET op == queue[n]
              IN  op.kind = "save" /\ op.result = "ok" =>
                      \/ op.held = disk[op.session].held
                      \/ DeletedAfter(n, op.session)

\* No reply in the conversation is awaited but of an earlier page.
Finished(c) ==
    \A n \in DOMAIN c.timeline :
        c.timeline[n].state = "pending" => c.timeline[n].request <= past.before

PendingOK ==
    ~past.failed =>
        /\ \A s \in Sessions : \A c \in cache[s] : \A n \in DOMAIN c.timeline :
              c.timeline[n].state = "pending" =>
                  \/ c.timeline[n].request <= past.before
                  \/ /\ sender.stage \in Replying /\ sender.session = s
                     /\ c.timeline[n].request = sender.request
        /\ Finished(sender.current)

ScreenOK ==
    /\ ref = NoSession => shown = <<>>
    /\ ref \in Sessions => \A c \in cache[ref] : shown = c.timeline

\* The operation said what the session's title is.
Retitles(op, s) == op.kind \in Changes /\ op.session = s /\ op.result = "ok"

RetitledAfter(n, s) == \E m \in (n + 1)..Len(queue) : Retitles(queue[m], s)

\* The title that the page shows, or is about to.
Listing(s) == IF boot.stage = "waiting" THEN boot.titles[s] ELSE list[s]

Settled(s) == ~past.failed /\ s \notin past.early

\* Nothing is done in a session that has no record, but creating it.
RecordsOK ==
    /\ active \in Sessions => Recorded(active)
    /\ ref \in Sessions => Recorded(ref)
    /\ sender.stage \in Holding => Recorded(sender.session)
    /\ \A op \in Ops(queue) :
          op.kind \in {"save", "rename", "name", "delete"}
              \/ (op.kind = "create" /\ op.result = "ok") => Recorded(op.session)

\* Before the sidebar is filled the page knows only of sessions that it made.
EarlyOK ==
    boot.stage = "waiting" => \A s \in Sessions : Settled(s) =>
        /\ list[s] = NoTitle /\ active # s /\ ref # s /\ ~SendsIn(s)
        /\ \A op \in Ops(queue) : op.session = s => op.kind \in {"create", "load"}

TitlesOK ==
    /\ \A op \in Ops(queue) : op.kind = "list" /\ op.result = "ok" => op.titles = Titles
    /\ boot.stage # "listing" => \A s \in Sessions : Settled(s) =>
          /\ s \in past.deleted =>
                \/ \E op \in Ops(queue) : IsDelete(op, s) /\ op.result = "ok"
                \/ /\ Listing(s) = NoTitle
                   /\ \A op \in Ops(queue) : Retitles(op, s) => op.title = NoTitle
          /\ s \notin past.deleted =>
                /\ (\A op \in Ops(queue) : ~Retitles(op, s)) => Listing(s) = disk[s].title
                /\ \A n \in DOMAIN queue : Retitles(queue[n], s) =>
                      /\ queue[n].title # NoTitle
                      /\ queue[n].title = disk[s].title \/ RetitledAfter(n, s)

ContextInv ==
    /\ PageInv
    /\ CopiesOK /\ SavesOK /\ FailuresOK /\ SenderOK /\ CreatingOK /\ DeletedOK /\ LoadsOK
    /\ HistoryOK /\ StoredOK /\ PendingOK /\ ScreenOK /\ RecordsOK /\ EarlyOK /\ TitlesOK

-----------------------------------------------------------------------------
(* Conversations *)

LEMMA ConversationFacts ==
    ASSUME NEW c \in Conversations
    PROVE  /\ Len(c.timeline) \in Nat /\ DOMAIN c.timeline = 1..Len(c.timeline)
           /\ Len(c.context) \in Nat /\ DOMAIN c.context = 1..Len(c.context)
           /\ c.timeline \in Seq(Entries) /\ c.context \in Seq(Marks)
           /\ \A n \in 1..Len(c.timeline) :
                 /\ c.timeline[n] \in Entries
                 /\ c.timeline[n].request \in Int /\ c.timeline[n].text \in Nat
           /\ \A n \in 1..Len(c.context) : c.context[n] \in Marks
<1>1. c.timeline \in Seq(Entries) /\ c.context \in Seq(Marks) BY DEF Conversations
<1>2. /\ Len(c.timeline) \in Nat /\ DOMAIN c.timeline = 1..Len(c.timeline)
      /\ Len(c.context) \in Nat /\ DOMAIN c.context = 1..Len(c.context)
      /\ \A n \in 1..Len(c.timeline) : c.timeline[n] \in Entries
      /\ \A n \in 1..Len(c.context) : c.context[n] \in Marks
  BY <1>1
<1>3. \A e \in Entries : e.request \in Int /\ e.text \in Nat BY DEF Entries
<1> QED BY <1>1, <1>2, <1>3

LEMMA EmptyFacts ==
    /\ Empty \in Conversations /\ Matches(Empty) /\ \A r : Upto(Empty, r)
    /\ Len(Empty.timeline) = 0 /\ Empty.timeline = <<>> /\ DOMAIN Empty.timeline = {}
BY DEF Empty, Conversation, Conversations, Matches, Upto

LEMMA EmptyFinished == Finished(Empty)
BY EmptyFacts DEF Finished

LEMMA UptoLater ==
    ASSUME NEW c \in Conversations, NEW r \in Int, NEW q \in Int, r <= q, Upto(c, r)
    PROVE  Upto(c, q)
BY ConversationFacts DEF Upto

LEMMA ExtendsItself ==
    ASSUME NEW c \in Conversations
    PROVE  Extends(c, c)
BY ConversationFacts DEF Extends

LEMMA ExtendsMore ==
    ASSUME NEW c \in Conversations, NEW d \in Conversations, NEW e \in Conversations,
           Extends(c, d), Extends(d, e)
    PROVE  Extends(c, e)
<1>1. /\ Len(c.timeline) \in Nat /\ Len(d.timeline) \in Nat /\ Len(e.timeline) \in Nat
      /\ \A n \in 1..Len(c.timeline) : c.timeline[n].text \in Nat
      /\ \A n \in 1..Len(d.timeline) : d.timeline[n].text \in Nat
      /\ \A n \in 1..Len(e.timeline) : e.timeline[n].text \in Nat
  BY ConversationFacts
<1>2. Len(c.timeline) <= Len(d.timeline) /\ Len(d.timeline) <= Len(e.timeline)
  BY DEF Extends
<1>3. ASSUME NEW n \in 1..Len(c.timeline)
      PROVE  /\ c.timeline[n].request = e.timeline[n].request
             /\ c.timeline[n].text <= e.timeline[n].text
             /\ c.context[n].whole => e.context[n].whole
  <2>1. n \in 1..Len(d.timeline) /\ n \in 1..Len(e.timeline) BY <1>1, <1>2
  <2>2. /\ c.timeline[n].request = d.timeline[n].request
        /\ d.timeline[n].request = e.timeline[n].request
        /\ c.timeline[n].text <= d.timeline[n].text
        /\ d.timeline[n].text <= e.timeline[n].text
    BY <2>1 DEF Extends
  <2>3. /\ c.timeline[n].text \in Nat /\ d.timeline[n].text \in Nat
        /\ e.timeline[n].text \in Nat
    BY <1>1, <2>1
  <2>4. c.timeline[n].request = e.timeline[n].request
        /\ c.timeline[n].text <= e.timeline[n].text
    BY <2>2, <2>3
  <2>5. c.context[n].whole => e.context[n].whole BY <2>1, Zenon DEF Extends
  <2> QED BY <2>4, <2>5
<1> QED BY <1>1, <1>2, <1>3 DEF Extends

\* What is held of a conversation.
LEMMA HeldFacts ==
    ASSUME NEW held, One(held)
    PROVE  /\ \A c \in held : Conversed(held) = c /\ held = {c}
           /\ held = Nothing => Conversed(held) = Empty
           /\ held # Nothing => Conversed(held) \in held
<1>1. CASE held = Nothing BY <1>1 DEF Conversed, Nothing
<1>2. ASSUME NEW c \in held, held = {c}
      PROVE  /\ \A d \in held : Conversed(held) = d /\ held = {d}
             /\ held # Nothing /\ Conversed(held) \in held
  <2>1. held # Nothing BY <1>2 DEF Nothing
  <2>2. Conversed(held) = CHOOSE d \in held : TRUE BY <2>1 DEF Conversed
  <2>3. Conversed(held) \in held BY <1>2, <2>2
  <2> QED BY <1>2, <2>1, <2>3
<1> QED BY <1>1, <1>2 DEF One

\* The conversation with the message that is sent.
Sending(x, request) ==
    Conversation(Append(x.timeline, Entry(request)), Append(x.context, Mark(request, FALSE)))

LEMMA SendingFacts ==
    ASSUME NEW x \in Conversations, NEW r \in Int,
           \A n \in DOMAIN x.timeline : x.timeline[n].request < r
    PROVE  LET c == Sending(x, r)
               last == Len(x.timeline) + 1
           IN  /\ c \in Conversations /\ Upto(c, r)
               /\ Len(c.timeline) = last /\ c.timeline[last].request = r
               /\ c.timeline[last].state = "pending"
               /\ \A n \in 1..Len(x.timeline) : c.timeline[n] = x.timeline[n]
               /\ c.context = Append(x.context, Mark(r, FALSE))
               /\ Matches(x) => Matches(c) /\ Extends(x, c)
<1> DEFINE e == Entry(r)
           k == Mark(r, FALSE)
           last == Len(x.timeline) + 1
<1>1. /\ Len(x.timeline) \in Nat /\ DOMAIN x.timeline = 1..Len(x.timeline)
      /\ Len(x.context) \in Nat /\ DOMAIN x.context = 1..Len(x.context)
      /\ x.timeline \in Seq(Entries) /\ x.context \in Seq(Marks)
      /\ \A n \in 1..Len(x.timeline) : x.timeline[n].request \in Int /\ x.timeline[n].text \in Nat
  BY ConversationFacts
<1>2. /\ e \in Entries /\ e.request = r /\ e.state = "pending"
  BY DEF Entry, Entries
<1>3. k \in Marks /\ k.request = r BY DEF Mark, Marks
<1>0. k = Mark(r, FALSE) OBVIOUS
<1> HIDE DEF e, k
<1>4. PICK t : t = Append(x.timeline, e) OBVIOUS
<1>5. PICK w : w = Append(x.context, k) OBVIOUS
<1>6. PICK c : c = Sending(x, r) OBVIOUS
<1>7. /\ t \in Seq(Entries) /\ Len(t) = last /\ DOMAIN t = 1..last /\ t[last] = e
      /\ \A n \in 1..Len(x.timeline) : t[n] = x.timeline[n]
  BY <1>1, <1>2, <1>4
<1>8. /\ w \in Seq(Marks) /\ Len(w) = Len(x.context) + 1 /\ w[Len(x.context) + 1] = k
      /\ \A n \in 1..Len(x.context) : w[n] = x.context[n]
  <2>1. w \in Seq(Marks) BY <1>1, <1>3, <1>5
  <2>2. IsSeq(x.context) BY <1>1, OwnElements
  <2> QED BY <1>5, <2>1, <2>2, AppendFacts
<1>9. c = [timeline |-> t, context |-> w]
  BY <1>4, <1>5, <1>6 DEF Sending, Conversation, e, k
<1>10. c.timeline = t /\ c.context = w /\ c \in Conversations
  BY <1>7, <1>8, <1>9 DEF Conversations
<1>11. \A n \in 1..last : n = last \/ n \in 1..Len(x.timeline) BY <1>1
<1>12. Upto(c, r) BY <1>1, <1>2, <1>7, <1>10, <1>11 DEF Upto
<1>13. ASSUME Matches(x) PROVE Matches(c) /\ Extends(x, c)
  <2>1. Len(x.timeline) = Len(x.context) BY <1>13 DEF Matches
  <2>2. Len(t) = Len(w) BY <1>7, <1>8, <2>1
  <2>3. ASSUME NEW n \in 1..last
        PROVE  /\ w[n].request = t[n].request
               /\ t[n].state = "done" => w[n].whole
               /\ \A m \in 1..(n - 1) : t[m].request < t[n].request
    <3>1. CASE n = last
      <4>1. t[n] = e /\ w[n] = k BY <1>7, <1>8, <2>1, <3>1
      <4>2. t[n].state # "done" BY <1>2, <4>1
      <4>3. ASSUME NEW m \in 1..(n - 1) PROVE t[m].request < t[n].request
        <5>1. m \in 1..Len(x.timeline) BY <1>1, <3>1
        <5> QED BY <1>1, <1>2, <1>7, <4>1, <5>1
      <4> QED BY <1>2, <1>3, <4>1, <4>2, <4>3
    <3>2. CASE n \in 1..Len(x.timeline)
      <4>1. t[n] = x.timeline[n] /\ w[n] = x.context[n] BY <1>7, <1>8, <2>1, <3>2
      <4>2. \A m \in 1..(n - 1) : t[m] = x.timeline[m] BY <1>1, <1>7, <3>2
      <4> QED BY <1>1, <1>13, <3>2, <4>1, <4>2 DEF Matches
    <3> QED BY <1>11, <3>1, <3>2
  <2>4. Matches(c) BY <1>7, <1>10, <2>2, <2>3 DEF Matches
  <2>5. \A n \in 1..Len(x.timeline) : w[n] = x.context[n] BY <1>8, <2>1
  <2>6. Extends(x, c) BY <1>1, <1>7, <1>10, <2>5 DEF Extends
  <2> QED BY <2>4, <2>6
<1>14. c.context = Append(x.context, Mark(r, FALSE)) BY <1>0, <1>5, <1>10
<1> QED BY <1>2, <1>6, <1>7, <1>10, <1>12, <1>13, <1>14

\* The reply of the message under way is changed, and nothing else.
Revises(c, d) ==
    /\ d \in Conversations /\ d.context = c.context /\ Len(d.timeline) = Len(c.timeline)
    /\ \A n \in 1..Len(c.timeline) :
          /\ d.timeline[n].request = c.timeline[n].request
          /\ c.timeline[n].text <= d.timeline[n].text
          /\ c.timeline[n].request # sender.request => d.timeline[n] = c.timeline[n]

LEMMA RevisionFacts ==
    ASSUME NEW c \in Conversations, NEW t, NEW d,
           d = [c EXCEPT !.timeline = t],
           t = [n \in DOMAIN c.timeline |-> t[n]],
           \A n \in DOMAIN c.timeline :
              /\ t[n] \in Entries /\ t[n].request = c.timeline[n].request
              /\ c.timeline[n].text <= t[n].text
              /\ c.timeline[n].request # sender.request => t[n] = c.timeline[n]
    PROVE  Revises(c, d) /\ d.timeline = t
<1>1. /\ Len(c.timeline) \in Nat /\ DOMAIN c.timeline = 1..Len(c.timeline)
      /\ c.context \in Seq(Marks)
  BY ConversationFacts
<1>2. d.timeline = t /\ d.context = c.context /\ d = [timeline |-> t, context |-> c.context]
  BY DEF Conversations
<1>3. t \in Seq(Entries) /\ Len(t) = Len(c.timeline)
  <2>1. t \in [1..Len(c.timeline) -> Entries] BY <1>1
  <2>2. t \in Seq(Entries) BY <1>1, <2>1
  <2>3. IsSeq(t) BY <2>2, OwnElements
  <2>4. Len(t) \in Nat /\ DOMAIN t = 1..Len(t) /\ DOMAIN t = 1..Len(c.timeline)
    BY <1>1, <2>3, SeqFacts
  <2>5. Len(t) = Len(c.timeline) BY <1>1, <2>4
  <2> QED BY <2>2, <2>5
<1>4. d \in Conversations BY <1>1, <1>2, <1>3 DEF Conversations
<1> QED BY <1>1, <1>2, <1>3, <1>4 DEF Revises

-----------------------------------------------------------------------------
(* What the events of the stream make of the conversation *)

\* The reply of the message under way is in another state; there is more of it; the
\* context is the snapshot.
InState(c, state) ==
    [c EXCEPT !.timeline = [n \in DOMAIN c.timeline |->
        IF Ours(c.timeline[n]) THEN [c.timeline[n] EXCEPT !.state = state]
        ELSE c.timeline[n]]]
WithText(c) ==
    [c EXCEPT !.timeline = [n \in DOMAIN c.timeline |->
        IF Ours(c.timeline[n]) THEN [c.timeline[n] EXCEPT !.text = c.timeline[n].text + 1]
        ELSE c.timeline[n]]]
WithSnapshot(c) == [c EXCEPT !.context = Snapshot]

\* An event stores the conversation d, or finds none.
Stores(d) ==
    IF cache[sender.session] = Nothing THEN UNCHANGED <<queue, cache, shown, saves>>
    ELSE Persist(queue, sender.session, d)

LEMMA SettleStores ==
    ASSUME NEW state, Settle(state)
    PROVE  Stores(InState(Current(sender.session), state))
BY Zenon DEF Settle, Update, InReply, Stores, InState

LEMMA TextStores ==
    ASSUME TextDelta
    PROVE  Stores(WithText(Current(sender.session)))
BY Zenon DEF TextDelta, Update, InReply, Stores, WithText

LEMMA SnapshotStores ==
    ASSUME StateEvent
    PROVE  Stores(WithSnapshot(Current(sender.session)))
BY Zenon DEF StateEvent, Update, Stores, WithSnapshot

LEMMA InStateFacts ==
    ASSUME NEW c \in Conversations, NEW state \in {"pending", "done", "cut"}
    PROVE  LET d == InState(c, state)
           IN  /\ Revises(c, d)
               /\ \A n \in 1..Len(c.timeline) :
                     c.timeline[n].request = sender.request => d.timeline[n].state = state
<1>1. PICK t : t = [n \in DOMAIN c.timeline |->
                      IF Ours(c.timeline[n]) THEN [c.timeline[n] EXCEPT !.state = state]
                      ELSE c.timeline[n]]
  OBVIOUS
<1>2. PICK d : d = InState(c, state) OBVIOUS
<1>3. d = [c EXCEPT !.timeline = t] BY <1>1, <1>2 DEF InState
<1>4. DOMAIN c.timeline = 1..Len(c.timeline)
      /\ \A n \in 1..Len(c.timeline) : c.timeline[n] \in Entries
  BY ConversationFacts
<1>5. ASSUME NEW n \in DOMAIN c.timeline
      PROVE  /\ t[n] \in Entries /\ t[n].request = c.timeline[n].request
             /\ c.timeline[n].text <= t[n].text
             /\ c.timeline[n].request # sender.request => t[n] = c.timeline[n]
             /\ c.timeline[n].request = sender.request => t[n].state = state
  <2>1. PICK e \in Entries : e = c.timeline[n] BY <1>4
  <2>2. e.text \in Nat BY DEF Entries
  <2>3. CASE e.request = sender.request
    <3>1. t[n] = [e EXCEPT !.state = state] BY <1>1, <2>1, <2>3 DEF Ours
    <3> QED BY <2>1, <2>2, <2>3, <3>1 DEF Entries
  <2>4. CASE e.request # sender.request
    <3>1. t[n] = e BY <1>1, <2>1, <2>4 DEF Ours
    <3> QED BY <2>1, <2>2, <2>4, <3>1 DEF Entries
  <2> QED BY <2>3, <2>4
<1>6. t = [n \in DOMAIN c.timeline |-> t[n]] BY <1>1
<1>7. Revises(c, d) /\ d.timeline = t BY <1>3, <1>5, <1>6, RevisionFacts
<1> QED BY <1>2, <1>4, <1>5, <1>7

LEMMA WithTextFacts ==
    ASSUME NEW c \in Conversations
    PROVE  LET d == WithText(c)
           IN  /\ Revises(c, d)
               /\ \A n \in 1..Len(c.timeline) : d.timeline[n].state = c.timeline[n].state
<1>1. PICK t : t = [n \in DOMAIN c.timeline |->
                      IF Ours(c.timeline[n])
                      THEN [c.timeline[n] EXCEPT !.text = c.timeline[n].text + 1]
                      ELSE c.timeline[n]]
  OBVIOUS
<1>2. PICK d : d = WithText(c) OBVIOUS
<1>3. d = [c EXCEPT !.timeline = t] BY <1>1, <1>2 DEF WithText
<1>4. DOMAIN c.timeline = 1..Len(c.timeline)
      /\ \A n \in 1..Len(c.timeline) : c.timeline[n] \in Entries
  BY ConversationFacts
<1>5. ASSUME NEW n \in DOMAIN c.timeline
      PROVE  /\ t[n] \in Entries /\ t[n].request = c.timeline[n].request
             /\ c.timeline[n].text <= t[n].text
             /\ c.timeline[n].request # sender.request => t[n] = c.timeline[n]
             /\ t[n].state = c.timeline[n].state
  <2>1. PICK e \in Entries : e = c.timeline[n] BY <1>4
  <2>2. e.text \in Nat BY DEF Entries
  <2>3. CASE e.request = sender.request
    <3>1. t[n] = [e EXCEPT !.text = e.text + 1] BY <1>1, <2>1, <2>3 DEF Ours
    <3> QED BY <2>1, <2>2, <2>3, <3>1 DEF Entries
  <2>4. CASE e.request # sender.request
    <3>1. t[n] = e BY <1>1, <2>1, <2>4 DEF Ours
    <3> QED BY <2>1, <2>2, <2>4, <3>1 DEF Entries
  <2> QED BY <2>3, <2>4
<1>6. t = [n \in DOMAIN c.timeline |-> t[n]] BY <1>1
<1>7. \A n \in DOMAIN c.timeline :
         /\ t[n] \in Entries /\ t[n].request = c.timeline[n].request
         /\ c.timeline[n].text <= t[n].text
         /\ c.timeline[n].request # sender.request => t[n] = c.timeline[n]
  BY <1>5
<1>8. Revises(c, d) /\ d.timeline = t BY <1>3, <1>6, <1>7, RevisionFacts
<1> QED BY <1>2, <1>4, <1>5, <1>8

LEMMA RevisedFacts ==
    ASSUME NEW c \in Conversations, NEW d, Revises(c, d)
    PROVE  /\ d \in Conversations /\ Extends(c, d) /\ \A r : Upto(c, r) => Upto(d, r)
           /\ Matches(c) /\ (\A n \in 1..Len(c.timeline) :
                                d.timeline[n].state = "done" => c.context[n].whole)
              => Matches(d)
<1>1. /\ Len(c.timeline) \in Nat /\ DOMAIN c.timeline = 1..Len(c.timeline)
      /\ DOMAIN d.timeline = 1..Len(c.timeline) /\ d \in Conversations
      /\ Len(d.timeline) = Len(c.timeline) /\ d.context = c.context
  BY ConversationFacts DEF Revises
<1>2. \A n \in 1..Len(c.timeline) : /\ d.timeline[n].request = c.timeline[n].request
                                    /\ c.timeline[n].text <= d.timeline[n].text
  BY DEF Revises
<1>3. Extends(c, d) BY <1>1, <1>2 DEF Extends
<1>4. \A r : Upto(c, r) => Upto(d, r) BY <1>1, <1>2 DEF Upto
<1>5. ASSUME Matches(c), \A n \in 1..Len(c.timeline) :
                            d.timeline[n].state = "done" => c.context[n].whole
      PROVE  Matches(d)
  <2>1. ASSUME NEW n \in DOMAIN d.timeline
        PROVE  /\ d.context[n].request = d.timeline[n].request
               /\ \A m \in 1..(n - 1) : d.timeline[m].request < d.timeline[n].request
    <3>1. \A m \in 1..(n - 1) : m \in 1..Len(c.timeline) BY <1>1
    <3> QED BY <1>1, <1>2, <1>5, <3>1 DEF Matches
  <2>2. \A n \in DOMAIN d.timeline : d.timeline[n].state = "done" => d.context[n].whole
    BY <1>1, <1>5, Zenon
  <2>3. Len(d.timeline) = Len(d.context) BY <1>1, <1>5 DEF Matches
  <2> QED BY <2>1, <2>2, <2>3 DEF Matches
<1> QED BY <1>1, <1>3, <1>4, <1>5

\* What the message under way continues, where the invariant holds of the sender.
Underway ==
    /\ sender.current \in Conversations /\ sender.request \in Int
    /\ \A n \in DOMAIN sender.current.timeline :
          sender.current.timeline[n].request < sender.request

\* The reply of the message under way is the last one, before and after it is changed.
LEMMA ReplyIsLast ==
    ASSUME Underway, NEW c \in Conversations, Continues(c)
    PROVE  LET last == Len(sender.current.timeline) + 1
           IN  /\ last \in 1..Len(c.timeline)
               /\ \A n \in 1..Len(c.timeline) :
                     c.timeline[n].request = sender.request <=> n = last
               /\ \A n \in 1..Len(c.timeline) :
                     n # last => n \in 1..Len(sender.current.timeline)
<1> DEFINE x == sender.current
           last == Len(x.timeline) + 1
<1>1. /\ Len(x.timeline) \in Nat /\ DOMAIN x.timeline = 1..Len(x.timeline)
      /\ \A n \in 1..Len(x.timeline) : x.timeline[n].request \in Int
      /\ sender.request \in Int
      /\ \A n \in 1..Len(x.timeline) : x.timeline[n].request < sender.request
  BY ConversationFacts DEF Underway
<1>2. /\ Len(c.timeline) = last /\ c.timeline[last].request = sender.request
      /\ \A n \in 1..Len(x.timeline) : c.timeline[n] = x.timeline[n]
  BY DEF Continues, Follows
<1>3. \A n \in 1..last : n = last \/ n \in 1..Len(x.timeline) BY <1>1
<1>4. ASSUME NEW n \in 1..Len(x.timeline) PROVE c.timeline[n].request # sender.request
  <2>1. PICK r \in Int : r = x.timeline[n].request BY <1>1
  <2>2. r < sender.request BY <1>1, <2>1
  <2>3. r # sender.request BY <1>1, <2>2
  <2> QED BY <1>2, <2>1, <2>3
<1> HIDE DEF x
<1> QED BY <1>1, <1>2, <1>3, <1>4 DEF x

LEMMA RevisedContinues ==
    ASSUME Underway, NEW c \in Conversations, NEW d, Continues(c), Revises(c, d)
    PROVE  LET last == Len(sender.current.timeline) + 1
           IN  /\ Len(d.timeline) = last /\ d.timeline[last].request = sender.request
               /\ \A n \in 1..Len(sender.current.timeline) :
                     /\ d.timeline[n] = sender.current.timeline[n]
                     /\ d.timeline[n] = c.timeline[n]
               /\ d.context = c.context
<1> DEFINE x == sender.current
           last == Len(x.timeline) + 1
<1>1. /\ last \in 1..Len(c.timeline)
      /\ \A n \in 1..Len(c.timeline) : c.timeline[n].request = sender.request <=> n = last
  BY ReplyIsLast
<1>2. /\ Len(c.timeline) = last /\ \A n \in 1..Len(x.timeline) : c.timeline[n] = x.timeline[n]
  BY DEF Continues, Follows
<1>3. /\ Len(d.timeline) = Len(c.timeline) /\ d.context = c.context
      /\ \A n \in 1..Len(c.timeline) :
          /\ d.timeline[n].request = c.timeline[n].request
          /\ c.timeline[n].request # sender.request => d.timeline[n] = c.timeline[n]
  BY DEF Revises
<1>4. Len(x.timeline) \in Nat BY ConversationFacts DEF Underway
<1>5. \A n \in 1..Len(x.timeline) : n \in 1..last /\ n # last BY <1>4
<1> HIDE DEF x
<1> QED BY <1>1, <1>2, <1>3, <1>5 DEF x

-----------------------------------------------------------------------------
(* Operations that are called *)

\* The same operation, for which perhaps nobody waits any more.
Alike(op, new) ==
    /\ new.kind = op.kind /\ new.session = op.session /\ new.result = op.result
    /\ new.title = op.title /\ new.titles = op.titles /\ new.held = op.held
    /\ op.kind # "load" => new = op
    /\ new.alive => op.alive

\* r is q, where further operations are called.
Lengthens(q, r) ==
    /\ IsSeq(r) /\ Len(q) <= Len(r)
    /\ \A n \in 1..Len(q) : Alike(q[n], r[n])
    /\ \A n \in (Len(q) + 1)..Len(r) : r[n].result = "none"

Added(q, r) == {r[n] : n \in (Len(q) + 1)..Len(r)}

LEMMA AsItWas ==
    ASSUME NEW q, IsSeq(q)
    PROVE  Lengthens(q, q) /\ Added(q, q) = {}
<1>1. Len(q) \in Nat BY SeqFacts
<1>2. \A n \in (Len(q) + 1)..Len(q) : FALSE BY <1>1
<1>3. \A n \in 1..Len(q) : Alike(q[n], q[n]) BY Zenon DEF Alike
<1>4. Lengthens(q, q) BY <1>1, <1>2, <1>3 DEF Lengthens
<1>5. Added(q, q) = {} BY <1>2 DEF Added
<1> QED BY <1>4, <1>5

LEMMA OneMore ==
    ASSUME NEW q, IsSeq(q), NEW r, Lengthens(q, r), NEW e, e.result = "none"
    PROVE  /\ Lengthens(q, Append(r, e))
           /\ Added(q, Append(r, e)) = Added(q, r) \cup {e}
<1>1. PICK t : t = Append(r, e) OBVIOUS
<1>2. /\ IsSeq(t) /\ Len(t) = Len(r) + 1 /\ t[Len(r) + 1] = e
      /\ \A n \in 1..Len(r) : t[n] = r[n]
      /\ Len(q) \in Nat /\ Len(r) \in Nat /\ Len(q) <= Len(r)
  BY <1>1, AppendFacts, SeqFacts DEF Lengthens
<1>3. ASSUME NEW n \in 1..Len(q) PROVE Alike(q[n], t[n])
  <2>1. n \in 1..Len(r) /\ Alike(q[n], r[n]) BY <1>2 DEF Lengthens
  <2> QED BY <1>2, <2>1
<1>4. ASSUME NEW n \in (Len(q) + 1)..Len(t)
      PROVE  \/ n \in (Len(q) + 1)..Len(r) /\ t[n] = r[n]
             \/ n = Len(r) + 1 /\ t[n] = e
  BY <1>2
<1>5. \A n \in (Len(q) + 1)..Len(r) : n \in (Len(q) + 1)..Len(t) /\ t[n] = r[n]
  BY <1>2
<1>6. Len(r) + 1 \in (Len(q) + 1)..Len(t) BY <1>2
<1>7. Lengthens(q, t) BY <1>2, <1>3, <1>4 DEF Lengthens
<1>8. Added(q, t) = Added(q, r) \cup {e}
  BY <1>2, <1>4, <1>5, <1>6 DEF Added
<1> QED BY <1>1, <1>7, <1>8

LEMMA AbandonedLengthens ==
    ASSUME QueueOK(queue, disk)
    PROVE  /\ Lengthens(queue, Abandoned) /\ Added(queue, Abandoned) = {}
           /\ \A n \in DOMAIN Abandoned : Abandoned[n].kind = "load" => ~Abandoned[n].alive
<1>1. IsSeq(queue) /\ \A n \in DOMAIN queue : WellFormed(queue[n]) BY DEF QueueOK
<1>2. Len(queue) \in Nat /\ DOMAIN queue = 1..Len(queue) BY <1>1, SeqFacts
<1>3. PICK r : r = Abandoned OBVIOUS
<1>4. r = [n \in DOMAIN queue |-> IF queue[n].kind = "load"
                                   THEN [queue[n] EXCEPT !.alive = FALSE] ELSE queue[n]]
  BY <1>3 DEF Abandoned
<1>5. IsSeq(r) BY <1>3, AbandonedKeeps DEF QueueOK
<1>6. DOMAIN r = 1..Len(queue) BY <1>2, <1>4
<1>7. Len(r) = Len(queue)
  <2>1. Len(r) \in Nat /\ DOMAIN r = 1..Len(r) BY <1>5, SeqFacts
  <2> QED BY <1>2, <1>6, <2>1
<1>8. ASSUME NEW n \in DOMAIN queue
      PROVE  Alike(queue[n], r[n]) /\ (r[n].kind = "load" => ~r[n].alive)
  <2>1. PICK op : op = queue[n] OBVIOUS
  <2>2. DOMAIN op = Fields BY <1>1, <2>1 DEF WellFormed
  <2>3. CASE op.kind = "load"
    <3>1. r[n] = [op EXCEPT !.alive = FALSE] BY <1>4, <2>1, <2>3
    <3>2. /\ r[n].kind = op.kind /\ r[n].session = op.session /\ r[n].result = op.result
          /\ r[n].title = op.title /\ r[n].titles = op.titles /\ r[n].held = op.held
          /\ r[n].alive = FALSE
      BY <2>2, <3>1 DEF Fields
    <3> QED BY <2>1, <2>3, <3>2 DEF Alike
  <2>4. CASE op.kind # "load"
    <3>1. r[n] = op BY <1>4, <2>1, <2>4
    <3> QED BY <2>1, <2>4, <3>1, Zenon DEF Alike
  <2> QED BY <2>3, <2>4
<1>9. \A n \in (Len(queue) + 1)..Len(r) : FALSE BY <1>2, <1>7
<1>10. Lengthens(queue, r) BY <1>2, <1>5, <1>7, <1>8, <1>9 DEF Lengthens
<1>11. Added(queue, r) = {} BY <1>9 DEF Added
<1> QED BY <1>2, <1>3, <1>6, <1>8, <1>10, <1>11

\* An operation of the longer queue is one of the shorter, or is added.
LEMMA LengthensFacts ==
    ASSUME NEW q, IsSeq(q), NEW r, Lengthens(q, r)
    PROVE  /\ \A n \in DOMAIN r : \/ n \in DOMAIN q /\ Alike(q[n], r[n])
                                  \/ n \notin DOMAIN q /\ r[n] \in Added(q, r)
           /\ \A n \in DOMAIN q : n \in DOMAIN r /\ Alike(q[n], r[n])
           /\ \A new \in Ops(r) : \/ \E op \in Ops(q) : Alike(op, new)
                                  \/ new \in Added(q, r)
           /\ \A op \in Ops(q) : \E new \in Ops(r) : Alike(op, new)
           /\ \A new \in Added(q, r) : new.result = "none" /\ new \in Ops(r)
           /\ Len(q) \in Nat /\ DOMAIN q = 1..Len(q)
           /\ Len(r) \in Nat /\ DOMAIN r = 1..Len(r) /\ Len(q) <= Len(r)
<1>1. /\ Len(q) \in Nat /\ DOMAIN q = 1..Len(q)
      /\ Len(r) \in Nat /\ DOMAIN r = 1..Len(r) /\ Len(q) <= Len(r)
  BY SeqFacts DEF Lengthens
<1>2. ASSUME NEW n \in DOMAIN r
      PROVE  \/ n \in DOMAIN q /\ Alike(q[n], r[n])
             \/ n \notin DOMAIN q /\ r[n] \in Added(q, r)
  <2>1. CASE n \in 1..Len(q) BY <1>1, <2>1 DEF Lengthens
  <2>2. CASE n \notin 1..Len(q)
    <3>1. n \in (Len(q) + 1)..Len(r) BY <1>1, <2>2
    <3> QED BY <1>1, <2>2, <3>1 DEF Added
  <2> QED BY <2>1, <2>2
<1>3. ASSUME NEW n \in DOMAIN q PROVE n \in DOMAIN r /\ Alike(q[n], r[n])
  BY <1>1 DEF Lengthens
<1>4. ASSUME NEW new \in Ops(r)
      PROVE  (\E op \in Ops(q) : Alike(op, new)) \/ new \in Added(q, r)
  <2>1. PICK n \in DOMAIN r : new = r[n] BY DEF Ops
  <2> QED BY <1>2, <2>1 DEF Ops
<1>5. \A op \in Ops(q) : \E new \in Ops(r) : Alike(op, new) BY <1>3 DEF Ops
<1>6. \A new \in Added(q, r) : new.result = "none" /\ new \in Ops(r)
  <2>1. ASSUME NEW n \in (Len(q) + 1)..Len(r) PROVE r[n].result = "none" /\ n \in DOMAIN r
    BY <1>1 DEF Lengthens
  <2> QED BY <2>1 DEF Added, Ops
<1> QED BY <1>1, <1>2, <1>3, <1>4, <1>5, <1>6

LEMMA QueueFacts ==
    ASSUME PageInv
    PROVE  /\ IsSeq(queue) /\ Len(queue) \in Nat /\ DOMAIN queue = 1..Len(queue)
           /\ \A n \in DOMAIN queue : queue[n] \in Ops(queue)
           /\ \A op \in Ops(queue) : WellFormed(op) /\ Linked(op)
           /\ \A op \in Ops(queue) : \E n \in DOMAIN queue : op = queue[n]
           /\ Shaped
BY SeqFacts DEF PageInv, PageOK, QueueOK, LinksOK, Ops

\* The same after a step.
LEMMA QueueFactsAfter ==
    ASSUME PageInv'
    PROVE  /\ IsSeq(queue') /\ Len(queue') \in Nat /\ DOMAIN queue' = 1..Len(queue')
           /\ \A n \in DOMAIN queue' : queue'[n] \in Ops(queue')
           /\ \A op \in Ops(queue') : WellFormed(op) /\ Linked(op)'
           /\ \A op \in Ops(queue') : \E n \in DOMAIN queue' : op = queue'[n]
           /\ Shaped'
BY SeqFacts DEF PageInv, PageOK, QueueOK, LinksOK, Ops

\* A step in which operations are called.
Calls ==
    /\ UNCHANGED <<disk, boot, list, past>>
    /\ Lengthens(queue, queue')
    /\ sent' \in Int /\ sent <= sent'
    /\ \A op \in Added(queue, queue') :
          /\ op.kind \in {"load", "create", "rename", "delete", "save", "name"}
          /\ op.kind = "load" => op.held = Nothing
          /\ op.kind = "create" => op.session \notin past.deleted
          /\ op.kind \in {"rename", "delete"} => list[op.session] # NoTitle
          /\ op.kind \in {"save", "name"} => SendsIn(op.session)

\* No conversation is changed.
Calling == /\ Calls /\ UNCHANGED <<cache, saves>>
           /\ \A op \in Added(queue, queue') : op.kind # "save"

\* An operation that was not under way before.
NewCall(op) ==
    /\ op.result = "none"
    /\ op.kind \in {"load", "create", "rename", "delete", "save", "name"}
    /\ op.kind \in {"rename", "delete"} => list[op.session] # NoTitle
    /\ op.kind \in {"save", "name"} => SendsIn(op.session)

\* What is known of a session that the page does nothing in.
Unchanged(s) ==
    /\ cache'[s] = Nothing => cache[s] = Nothing
    /\ saves[s] = <<>> /\ ~SendsIn(s) => saves'[s] = <<>>

\* Where a copy may be.
LEMMA CopyCases ==
    \A s, c : c \in AllCopies(s) <=>
        \/ c \in cache[s] \/ c \in disk[s].held \/ c \in Ops(saves[s])
        \/ \E op \in Ops(queue) : IsLoad(op, s) /\ c \in op.held
        \/ sender.session = s /\ c = sender.current
<1> SUFFICES ASSUME NEW s, NEW c
             PROVE  c \in AllCopies(s) <=>
                      \/ c \in cache[s] \/ c \in disk[s].held \/ c \in Ops(saves[s])
                      \/ \E op \in Ops(queue) : IsLoad(op, s) /\ c \in op.held
                      \/ sender.session = s /\ c = sender.current
  OBVIOUS
<1>1. c \in OnTheWay(s) <=> \E op \in Ops(queue) : IsLoad(op, s) /\ c \in op.held
  BY DEF OnTheWay
<1>2. c \in InMessage(s) <=> sender.session = s /\ c = sender.current
  BY DEF InMessage
<1> QED BY <1>1, <1>2 DEF AllCopies

LEMMA CopyCasesAfter ==
    \A s, c : (c \in AllCopies(s))' <=>
        \/ c \in cache'[s] \/ c \in disk'[s].held \/ c \in Ops(saves'[s])
        \/ \E op \in Ops(queue') : IsLoad(op, s) /\ c \in op.held
        \/ sender'.session = s /\ c = sender'.current
<1> SUFFICES ASSUME NEW s, NEW c
             PROVE  (c \in AllCopies(s))' <=>
                      \/ c \in cache'[s] \/ c \in disk'[s].held \/ c \in Ops(saves'[s])
                      \/ \E op \in Ops(queue') : IsLoad(op, s) /\ c \in op.held
                      \/ sender'.session = s /\ c = sender'.current
  OBVIOUS
<1>1. (c \in OnTheWay(s))' <=> \E op \in Ops(queue') : IsLoad(op, s) /\ c \in op.held
  BY DEF OnTheWay, Ops
<1>2. (c \in InMessage(s))' <=> sender'.session = s /\ c = sender'.current
  BY DEF InMessage
<1>3. (c \in Ops(saves[s]))' <=> c \in Ops(saves'[s]) BY DEF Ops
<1> QED BY <1>1, <1>2, <1>3 DEF AllCopies

LEMMA SoundLater ==
    ASSUME NEW s, NEW c, Sound(s, c), sent \in Int, sent' \in Int, sent <= sent',
           past.unread \subseteq past'.unread
    PROVE  Sound(s, c)'
BY UptoLater DEF Sound

LEMMA CallsCopies ==
    ASSUME ContextInv, Calls, DOMAIN cache' = Sessions, \A s \in Sessions : One(cache'[s]),
           \A s \in Sessions : \A c : c \in cache'[s] \/ c \in Ops(saves'[s]) =>
              c \in AllCopies(s) \/ Sound(s, c),
           sender'.session \in Sessions =>
               sender'.current \in AllCopies(sender'.session) \cup {Empty}
    PROVE  CopiesOK'
<1>1. /\ IsSeq(queue) /\ CopiesOK
  BY QueueFacts DEF ContextInv
<1>2. \A new \in Ops(queue') : new.kind = "load" =>
          new.held = Nothing \/ \E op \in Ops(queue) : op.kind = "load" /\ Alike(op, new)
  <2> SUFFICES ASSUME NEW new \in Ops(queue'), new.kind = "load", new.held # Nothing
               PROVE  \E op \in Ops(queue) : op.kind = "load" /\ Alike(op, new)
    OBVIOUS
  <2>1. new \notin Added(queue, queue') BY DEF Calls
  <2>2. PICK op \in Ops(queue) : Alike(op, new) BY <1>1, <2>1, LengthensFacts DEF Calls
  <2> QED BY <2>2 DEF Alike
<1>3. ASSUME NEW s \in Sessions, NEW c \in AllCopies(s)' PROVE Sound(s, c)'
  <2>1. c \in AllCopies(s) \/ c = Empty \/ Sound(s, c)
    <3>1. CASE c \in cache'[s] \/ c \in disk[s].held \/ c \in Ops(saves'[s])
      BY <3>1, CopyCases
    <3>2. CASE \E new \in Ops(queue') : IsLoad(new, s) /\ c \in new.held
      <4>1. PICK new \in Ops(queue') : IsLoad(new, s) /\ c \in new.held BY <3>2
      <4>2. PICK op \in Ops(queue) : op.kind = "load" /\ Alike(op, new)
        BY <1>2, <4>1 DEF IsLoad, Nothing
      <4>3. IsLoad(op, s) /\ c \in op.held BY <4>1, <4>2 DEF Alike, IsLoad
      <4> QED BY <4>3, CopyCases
    <3>3. CASE sender'.session = s /\ c = sender'.current BY <3>3
    <3> QED BY <3>1, <3>2, <3>3, CopyCasesAfter DEF Calls
  <2>2. Sound(s, c)
    <3>1. CASE c \in AllCopies(s) BY <1>1, <3>1 DEF CopiesOK
    <3>2. CASE c = Empty BY <3>2, EmptyFacts DEF Sound
    <3> QED BY <2>1, <3>1, <3>2
  <2> QED BY <1>1, <2>2, SoundLater DEF CopiesOK, Calls
<1>4. ASSUME NEW new \in Ops(queue'), new.kind = "load" PROVE One(new.held)
  <2>1. CASE new.held = Nothing BY <2>1 DEF One
  <2>2. CASE new.held # Nothing
    <3>1. PICK op \in Ops(queue) : op.kind = "load" /\ Alike(op, new) BY <1>2, <1>4, <2>2
    <3> QED BY <1>1, <3>1 DEF CopiesOK, Alike
  <2> QED BY <2>1, <2>2
<1> QED BY <1>1, <1>3, <1>4 DEF CopiesOK, Calls

LEMMA CallingCopies ==
    ASSUME ContextInv, Calling,
           sender'.session \in Sessions =>
               sender'.current \in AllCopies(sender'.session) \cup {Empty}
    PROVE  CopiesOK'
<1>1. DOMAIN cache' = Sessions /\ \A s \in Sessions : One(cache'[s])
  BY DEF ContextInv, CopiesOK, Calling
<1>2. \A s \in Sessions : \A c : c \in cache'[s] \/ c \in Ops(saves'[s]) => c \in AllCopies(s)
  BY CopyCases DEF Calling
<1>3. Calls BY DEF Calling
<1> QED BY <1>1, <1>2, <1>3, CallsCopies

LEMMA CallingSaves ==
    ASSUME ContextInv, Calling
    PROVE  SavesOK' /\ FailuresOK'
<1>1. /\ IsSeq(queue) /\ SavesOK /\ FailuresOK
  BY QueueFacts DEF ContextInv
<1>2. ASSUME NEW s \in Sessions, saves[s] # <<>>
      PROVE  \E op \in Ops(queue') : IsSave(op, s)
  <2>1. PICK op \in Ops(queue) : IsSave(op, s) BY <1>1, <1>2 DEF SavesOK
  <2>2. PICK new \in Ops(queue') : Alike(op, new) BY <1>1, LengthensFacts DEF Calling, Calls
  <2> QED BY <2>1, <2>2 DEF Alike, IsSave
<1>3. ASSUME NEW new \in Ops(queue')
      PROVE  /\ new.kind = "save" => new.held = {saves[new.session][1]}
             /\ new.result = "failed" => past.failed
  <2>1. CASE new \in Added(queue, queue') BY <1>1, <2>1, LengthensFacts DEF Calling, Calls
  <2>2. CASE new \notin Added(queue, queue')
    <3>1. PICK op \in Ops(queue) : Alike(op, new) BY <1>1, <2>2, LengthensFacts DEF Calling, Calls
    <3> QED BY <1>1, <3>1 DEF Alike, SavesOK, FailuresOK
  <2> QED BY <2>1, <2>2
<1> QED BY <1>2, <1>3 DEF SavesOK, FailuresOK, Calling, Calls

LEMMA CallingHistory ==
    ASSUME ContextInv, Calling,
           sender'.stage = "provider" =>
              \/ sender.stage = "provider" /\ sender'.session = sender.session
                 /\ sender'.current = sender.current
              \/ sender'.current \in cache[sender'.session] \/ sender'.session \in past.unread
    PROVE  HistoryOK'
<1>1. HistoryOK BY DEF ContextInv
<1> QED BY <1>1 DEF HistoryOK, Calling, Calls

LEMMA StillDeleted ==
    ASSUME PageInv, Lengthens(queue, queue'), NEW n \in DOMAIN queue, NEW s, DeletedAfter(n, s)
    PROVE  DeletedAfter(n, s)'
<1>1. PICK m \in (n + 1)..Len(queue) : IsDelete(queue[m], s) BY DEF DeletedAfter
<1>2. m \in DOMAIN queue /\ m \in (n + 1)..Len(queue') /\ Alike(queue[m], queue'[m])
  BY <1>1, QueueFacts, LengthensFacts
<1>3. IsDelete(queue'[m], s) BY <1>1, <1>2 DEF Alike, IsDelete
<1> QED BY <1>2, <1>3 DEF DeletedAfter

LEMMA StillRetitled ==
    ASSUME PageInv, Lengthens(queue, queue'), NEW n \in DOMAIN queue, NEW s,
           RetitledAfter(n, s)
    PROVE  RetitledAfter(n, s)'
<1>1. PICK m \in (n + 1)..Len(queue) : Retitles(queue[m], s) BY DEF RetitledAfter
<1>2. m \in DOMAIN queue /\ m \in (n + 1)..Len(queue') /\ Alike(queue[m], queue'[m])
  BY <1>1, QueueFacts, LengthensFacts
<1>3. Retitles(queue'[m], s) BY <1>1, <1>2 DEF Alike, Retitles
<1> QED BY <1>2, <1>3 DEF RetitledAfter

LEMMA CallingStored ==
    ASSUME ContextInv, Calling
    PROVE  StoredOK'
<1>1. /\ IsSeq(queue) /\ StoredOK
  BY QueueFacts DEF ContextInv
<1>2. ASSUME NEW s, NEW op \in Ops(queue), IsDelete(op, s)
      PROVE  \E new \in Ops(queue') : IsDelete(new, s)
  <2>1. PICK new \in Ops(queue') : Alike(op, new) BY <1>1, LengthensFacts DEF Calling, Calls
  <2> QED BY <1>2, <2>1 DEF Alike, IsDelete
<1>3. ASSUME NEW n \in DOMAIN queue', NEW op, op = queue'[n], op.kind = "save",
             op.result = "ok", ~past.failed
      PROVE  op.held = disk[op.session].held \/ DeletedAfter(n, op.session)'
  <2>1. n \in DOMAIN queue /\ op = queue[n]
    BY <1>1, <1>3, LengthensFacts DEF Calling, Calls, Alike
  <2>2. CASE DeletedAfter(n, op.session)
    BY <2>1, <2>2, StillDeleted DEF Calling, Calls, ContextInv
  <2> QED BY <1>1, <1>3, <2>1, <2>2 DEF StoredOK
<1>4. ASSUME ~past.failed, NEW s \in Sessions, NEW c \in cache[s]
      PROVE  \/ \E op \in Ops(queue') : IsDelete(op, s)
             \/ saves[s] # <<>> /\ saves[s][Len(saves[s])] = c
             \/ saves[s] = <<>> /\ Conversed(disk[s].held) = c
  BY <1>1, <1>2, <1>4 DEF StoredOK
<1> QED BY <1>3, <1>4 DEF StoredOK, Calling, Calls

LEMMA CallsLoads ==
    ASSUME ContextInv, Calls, UNCHANGED <<active, ref, loading>>,
           \A s \in Sessions : Unchanged(s),
           \A op \in Added(queue, queue') : op.kind # "load",
           \A s \in Sessions : SendsIn(s)' => SendsIn(s) \/ ~loading
    PROVE  LoadsOK'
<1>1. PageInv /\ LoadsOK BY DEF ContextInv
<1>2. ASSUME NEW n \in DOMAIN queue', Awaited(n)'
      PROVE  n \in DOMAIN queue /\ Awaited(n) /\ Alike(queue[n], queue'[n])
  BY <1>1, <1>2, QueueFacts, LengthensFacts DEF Calls, Awaited, Alike
<1>3. ASSUME NEW n \in DOMAIN queue', Awaited(n)', NEW op, op = queue'[n]
      PROVE  LET s == op.session
             IN  /\ loading' /\ s = ref'
                 /\ Read(s)' => /\ OnlyStored(s)'
                                /\ \A c \in op.held : Upto(c, past'.before)
                 /\ Read(s)' /\ op.result = "ok" =>
                       \/ op.held = disk'[s].held
                       \/ disk'[s].held = Nothing /\ DeletedAfter(n, s)'
  <2> DEFINE s == op.session
  <2>1. n \in DOMAIN queue /\ Awaited(n) /\ Alike(queue[n], op) BY <1>2, <1>3
  <2>2. PICK old : old = queue[n] OBVIOUS
  <2>3. s = old.session /\ op.held = old.held /\ op.result = old.result
    BY <2>1, <2>2 DEF Alike
  <2>4. /\ loading /\ s = ref
        /\ Read(s) => OnlyStored(s) /\ \A c \in op.held : Upto(c, past.before)
        /\ Read(s) /\ op.result = "ok" =>
              \/ op.held = disk[s].held
              \/ disk[s].held = Nothing /\ DeletedAfter(n, s)
    BY <1>1, <2>1, <2>2, <2>3 DEF LoadsOK
  <2>5. s \in Sessions BY <1>1, <2>1, <2>2, <2>3, QueueFacts DEF WellFormed, Awaited
  <2>6. DeletedAfter(n, s) => DeletedAfter(n, s)'
    BY <1>1, <2>1, StillDeleted DEF Calls
  <2>7. Read(s)' => Read(s) BY DEF Calls, Read
  <2>8. OnlyStored(s) => OnlyStored(s)' BY <2>4, <2>5 DEF Calls, OnlyStored, Unchanged
  <2> QED BY <2>4, <2>6, <2>7, <2>8 DEF Calls
<1>4. \A n, m \in DOMAIN queue' : Awaited(n)' /\ Awaited(m)' => n = m
  BY <1>1, <1>2 DEF LoadsOK
<1>5. (active = ref /\ ref \in Sessions /\ ~loading /\ Read(ref) => cache[ref] # Nothing)'
  BY <1>1 DEF LoadsOK, Calls, Read, Unchanged
<1> QED BY <1>3, <1>4, <1>5 DEF LoadsOK

LEMMA CallingLoads ==
    ASSUME ContextInv, Calling, UNCHANGED <<active, ref, loading>>,
           \A op \in Added(queue, queue') : op.kind # "load",
           \A s \in Sessions : SendsIn(s)' => SendsIn(s) \/ ~loading
    PROVE  LoadsOK'
BY CallsLoads DEF Calling, Unchanged

LEMMA CallsDeleted ==
    ASSUME ContextInv, Calls,
           \A s \in Sessions : Unchanged(s),
           active' = active \/ (active' \in Sessions => list[active'] # NoTitle),
           \A s \in Sessions : SendsIn(s)' => SendsIn(s) \/ cache[s] # Nothing \/ ~Read(s)
    PROVE  DeletedOK'
<1>1. PageInv /\ DeletedOK /\ IsSeq(queue) BY QueueFacts DEF ContextInv
<1>2. ASSUME NEW new \in Ops(queue')
      PROVE  \/ \E op \in Ops(queue) : Alike(op, new)
             \/ /\ new.result = "none"
                /\ new.kind = "create" => new.session \notin past.deleted
  BY <1>1, LengthensFacts DEF Calls
<1>3. ASSUME NEW s \in past.deleted
      PROVE  /\ disk[s].title = NoTitle
             /\ \A new \in Ops(queue') : ~(new.kind = "create" /\ new.session = s)
  <2>1. \A op \in Ops(queue) : ~(op.kind = "create" /\ op.session = s) BY <1>1 DEF DeletedOK
  <2> QED BY <1>1, <1>2, <2>1 DEF DeletedOK, Alike
<1>4. ASSUME NEW s \in Sessions, Read(s), cache'[s] = Nothing
      PROVE  Gone(s)' \/ OnlyStored(s)'
  <2>1. CASE Gone(s)
    <3>1. active' # s BY <1>4, <2>1 DEF Gone, Unchanged
    <3>2. \A new \in Ops(queue') :
             new.kind \in Changes /\ new.session = s /\ new.result = "ok" =>
                new.title = NoTitle
      BY <1>2, <2>1 DEF Gone, Alike
    <3> QED BY <2>1, <3>1, <3>2 DEF Gone, Calls
  <2>2. CASE OnlyStored(s)
    <3>1. ~SendsIn(s)' BY <1>4, <2>2 DEF OnlyStored, Unchanged
    <3> QED BY <2>2, <3>1 DEF OnlyStored, Unchanged, Calls
  <2> QED BY <1>1, <1>4, <2>1, <2>2 DEF DeletedOK, Unchanged
<1>5. \A s : Read(s)' => Read(s) BY DEF Calls, Read
<1> QED BY <1>3, <1>4, <1>5 DEF DeletedOK, Calls

LEMMA CallingDeleted ==
    ASSUME ContextInv, Calling,
           active' = active \/ (active' \in Sessions => list[active'] # NoTitle),
           \A s \in Sessions : SendsIn(s)' => SendsIn(s) \/ cache[s] # Nothing \/ ~Read(s)
    PROVE  DeletedOK'
BY CallsDeleted DEF Calling, Unchanged

LEMMA CallsTitles ==
    ASSUME ContextInv, PageInv', Calls,
           active' \in Sessions => active' \in {active, ref} \/ list[active'] # NoTitle,
           ref' \in Sessions => ref' \in {active, ref} \/ list[ref'] # NoTitle,
           \A s \in Sessions : SendsIn(s)' => SendsIn(s) \/ s = ref
    PROVE  RecordsOK' /\ EarlyOK' /\ TitlesOK'
<1>1. PageInv /\ RecordsOK /\ EarlyOK /\ TitlesOK /\ IsSeq(queue)
  BY QueueFacts DEF ContextInv
<1>2. ASSUME NEW new \in Ops(queue')
      PROVE  \/ \E op \in Ops(queue) : Alike(op, new)
             \/ NewCall(new)
  BY <1>1, LengthensFacts DEF Calls, NewCall
<1>3. \A s \in Sessions : list[s] # NoTitle => Recorded(s) BY <1>1 DEF PageInv, PageOK, ListOK
<1>4. \A s : Recorded(s)' <=> Recorded(s) BY DEF Recorded, Calls
<1>5. RecordsOK'
  <2>1. ASSUME NEW new \in Ops(queue'),
               \/ new.kind \in {"save", "rename", "name", "delete"}
               \/ new.kind = "create" /\ new.result = "ok"
        PROVE  Recorded(new.session)
    <3>1. CASE \E op \in Ops(queue) : Alike(op, new) BY <1>1, <2>1, <3>1 DEF RecordsOK, Alike
    <3>2. CASE NewCall(new)
      <4>1. new.kind \in {"rename", "delete", "save", "name"} BY <2>1, <3>2 DEF NewCall
      <4>2. new.session \in Sessions BY <4>1, QueueFactsAfter DEF WellFormed
      <4>3. CASE new.kind \in {"rename", "delete"} BY <1>3, <3>2, <4>2, <4>3 DEF NewCall
      <4>4. CASE SendsIn(new.session) BY <1>1, <4>4 DEF RecordsOK, SendsIn
      <4> QED BY <3>2, <4>1, <4>3, <4>4 DEF NewCall
    <3> QED BY <1>2, <3>1, <3>2
  <2>2. active' \in Sessions => Recorded(active') BY <1>1, <1>3 DEF RecordsOK
  <2>3. ref' \in Sessions => Recorded(ref') BY <1>1, <1>3 DEF RecordsOK
  <2>4. sender'.stage \in Holding => Recorded(sender'.session)
    <3>1. sender'.stage \in Holding => sender'.session \in Sessions
      BY QueueFactsAfter DEF Shaped, Holding
    <3> QED BY <1>1, <3>1 DEF RecordsOK, SendsIn
  <2> QED BY <1>4, <2>1, <2>2, <2>3, <2>4 DEF RecordsOK
<1>6. EarlyOK'
  <2> SUFFICES ASSUME boot.stage = "waiting", NEW s \in Sessions, Settled(s)
               PROVE  /\ list[s] = NoTitle /\ active' # s /\ ref' # s /\ ~SendsIn(s)'
                      /\ \A new \in Ops(queue') : new.session = s => new.kind \in {"create", "load"}
    BY DEF EarlyOK, Calls, Settled
  <2>1. /\ list[s] = NoTitle /\ active # s /\ ref # s /\ ~SendsIn(s)
        /\ \A op \in Ops(queue) : op.session = s => op.kind \in {"create", "load"}
    BY <1>1 DEF EarlyOK
  <2> QED BY <1>2, <2>1 DEF Alike, NewCall
<1>7. TitlesOK'
  <2>1. \A new \in Ops(queue') : new.result # "none" =>
           \E op \in Ops(queue) : Alike(op, new)
    BY <1>2 DEF NewCall
  <2>2. \A s : \A new \in Ops(queue') : Retitles(new, s) =>
           \E op \in Ops(queue) : Retitles(op, s) /\ op.title = new.title
    BY <2>1 DEF Retitles, Alike
  <2>3. \A s : \A op \in Ops(queue) : Retitles(op, s) \/ IsDelete(op, s) =>
           \E new \in Ops(queue') : Alike(op, new)
    BY <1>1, LengthensFacts DEF Calls
  <2>4. Titles' = Titles BY DEF Titles, Calls
  <2>5. \A s : Listing(s)' = Listing(s) BY DEF Listing, Calls
  <2>6. \A op \in Ops(queue') : op.kind = "list" /\ op.result = "ok" => op.titles = Titles'
    BY <1>1, <2>1, <2>4 DEF TitlesOK, Alike
  <2>7. ASSUME boot.stage # "listing", NEW s \in Sessions, Settled(s), s \in past.deleted
        PROVE  \/ \E op \in Ops(queue') : IsDelete(op, s) /\ op.result = "ok"
               \/ /\ Listing(s) = NoTitle
                  /\ \A op \in Ops(queue') : Retitles(op, s) => op.title = NoTitle
    <3>1. CASE \E op \in Ops(queue) : IsDelete(op, s) /\ op.result = "ok"
      BY <2>3, <3>1 DEF IsDelete, Alike
    <3>2. CASE /\ Listing(s) = NoTitle
               /\ \A op \in Ops(queue) : Retitles(op, s) => op.title = NoTitle
      BY <2>2, <3>2
    <3> QED BY <1>1, <2>7, <3>1, <3>2 DEF TitlesOK
  <2>8. ASSUME boot.stage # "listing", NEW s \in Sessions, Settled(s), s \notin past.deleted
        PROVE  /\ (\A op \in Ops(queue') : ~Retitles(op, s)) => Listing(s) = disk[s].title
               /\ \A n \in DOMAIN queue' : Retitles(queue'[n], s) =>
                      /\ queue'[n].title # NoTitle
                      /\ queue'[n].title = disk[s].title \/ RetitledAfter(n, s)'
    <3>1. (\A op \in Ops(queue') : ~Retitles(op, s)) => \A op \in Ops(queue) : ~Retitles(op, s)
      BY <2>3 DEF Retitles, Alike
    <3>2. ASSUME NEW n \in DOMAIN queue', Retitles(queue'[n], s)
          PROVE  /\ queue'[n].title # NoTitle
                 /\ queue'[n].title = disk[s].title \/ RetitledAfter(n, s)'
      <4>1. n \in DOMAIN queue /\ Alike(queue[n], queue'[n])
        BY <1>1, <3>2, LengthensFacts DEF Calls, Retitles
      <4>2. Retitles(queue[n], s) /\ queue[n].title = queue'[n].title
        BY <3>2, <4>1 DEF Retitles, Alike
      <4>3. /\ queue[n].title # NoTitle
            /\ queue[n].title = disk[s].title \/ RetitledAfter(n, s)
        BY <1>1, <2>8, <4>1, <4>2 DEF TitlesOK
      <4> QED BY <1>1, <4>1, <4>2, <4>3, StillRetitled DEF Calls
    <3> QED BY <1>1, <2>8, <3>1, <3>2 DEF TitlesOK
  <2> QED BY <2>5, <2>6, <2>7, <2>8 DEF TitlesOK, Calls, Settled
<1> QED BY <1>5, <1>6, <1>7

LEMMA CallingTitles ==
    ASSUME ContextInv, PageInv', Calling,
           active' \in Sessions => active' \in {active, ref} \/ list[active'] # NoTitle,
           ref' \in Sessions => ref' \in {active, ref} \/ list[ref'] # NoTitle,
           \A s \in Sessions : SendsIn(s)' => SendsIn(s) \/ s = ref
    PROVE  RecordsOK' /\ EarlyOK' /\ TitlesOK'
BY CallsTitles DEF Calling, Unchanged

\* The session that is being created stays unknown.
LEMMA CallingCreating ==
    ASSUME ContextInv, Calling, sender'.stage = "creating" => sender' = sender,
           active' \in Sessions => active' \in {active, ref} \/ list[active'] # NoTitle,
           ref' \in Sessions => ref' \in {active, ref} \/ list[ref'] # NoTitle,
           \A op \in Added(queue, queue') : op.kind = "load" => op.session = ref'
    PROVE  CreatingOK'
<1> SUFFICES ASSUME sender'.stage = "creating", NEW s, s = sender'.session
             PROVE  /\ \E op \in Ops(queue') : op.kind = "create" /\ op.session = s
                    /\ active' # s /\ ref' # s
                    /\ cache'[s] = Nothing /\ disk'[s].held = Nothing /\ saves'[s] = <<>>
                    /\ \A op \in Ops(queue') : ~IsLoad(op, s)
  BY DEF CreatingOK
<1>1. sender' = sender /\ CreatingOK /\ PageInv /\ IsSeq(queue)
  BY QueueFacts DEF ContextInv
<1>2. /\ active # s /\ ref # s /\ cache[s] = Nothing /\ disk[s].held = Nothing
      /\ saves[s] = <<>> /\ \A op \in Ops(queue) : ~IsLoad(op, s)
  BY <1>1 DEF CreatingOK
<1>3. PICK op \in Ops(queue) : op.kind = "create" /\ op.session = s BY <1>1 DEF CreatingOK
<1>4. list[s] = NoTitle /\ s \in Sessions BY <1>1, <1>3, QueueFacts DEF Linked, WellFormed
<1>5. active' # s /\ ref' # s BY <1>2, <1>4
<1>6. \E new \in Ops(queue') : new.kind = "create" /\ new.session = s
  BY <1>1, <1>3, LengthensFacts DEF Calling, Calls, Alike
<1>7. ASSUME NEW new \in Ops(queue') PROVE ~IsLoad(new, s)
  <2>1. CASE new \in Added(queue, queue') BY <1>5, <2>1 DEF IsLoad
  <2>2. CASE \E o \in Ops(queue) : Alike(o, new) BY <1>2, <2>2 DEF IsLoad, Alike
  <2> QED BY <1>1, <2>1, <2>2, LengthensFacts DEF Calling, Calls
<1> QED BY <1>2, <1>5, <1>6, <1>7 DEF Calling, Calls

\* The message goes on, as it was.
MayMove ==
    \/ sender' = sender
    \/ sender.stage = "streaming" /\ sender' = [sender EXCEPT !.stage = "stopping"]
    \/ sender.stage = "naming" /\ sender' = [sender EXCEPT !.stage = "streaming"]

LEMMA MoveFacts ==
    ASSUME Shaped, MayMove
    PROVE  /\ sender'.session = sender.session /\ sender'.current = sender.current
           /\ sender'.request = sender.request /\ sender'.got = sender.got
           /\ \/ sender' = sender
              \/ sender.stage = "streaming" /\ sender'.stage = "stopping"
              \/ sender.stage = "naming" /\ sender'.stage = "streaming"
BY DEF Shaped, MayMove

LEMMA IdleFacts ==
    /\ Idle.stage = "idle" /\ Idle.session = NoSession /\ Idle.current = Empty
    /\ Idle.request = 0 /\ Idle.got = "nothing"
BY DEF Idle

LEMMA SenderStays ==
    ASSUME ContextInv, MayMove \/ sender' = Idle, sent' \in Int, sent <= sent',
           NEW s, s = sender.session,
           Read(s)' /\ SendsIn(s) => Read(s) /\ cache'[s] \subseteq cache[s]
    PROVE  SenderOK'
<1>1. CASE sender' = Idle BY <1>1, IdleFacts DEF SenderOK, Holding
<1>2. CASE MayMove
  <2>1. /\ sender'.session = sender.session /\ sender'.current = sender.current
        /\ sender'.request = sender.request /\ sender'.got = sender.got
        /\ \/ sender' = sender
           \/ sender.stage = "streaming" /\ sender'.stage = "stopping"
           \/ sender.stage = "naming" /\ sender'.stage = "streaming"
    BY <1>2, MoveFacts, QueueFacts DEF ContextInv
  <2>2. SenderOK /\ sent \in Int BY DEF ContextInv, CopiesOK
  <2>3. \A c : Continues(c)' <=> Continues(c) BY <2>1 DEF Continues
  <2>4. CASE sender' = sender
    <3>1. ASSUME sender.stage \in Holding, Read(s)', NEW c \in cache'[s]
          PROVE  IF sender.stage = "provider" THEN c = sender.current ELSE Continues(c)'
      BY <2>2, <2>3, <3>1 DEF SenderOK, SendsIn
    <3> QED BY <2>2, <2>4, <3>1 DEF SenderOK, Holding
  <2>5. CASE sender.stage \in {"streaming", "naming"} /\ sender'.stage \in {"stopping", "streaming"}
    <3>1. ASSUME Read(s)', NEW c \in cache'[s]
          PROVE  Continues(c)'
      BY <2>2, <2>3, <2>5, <3>1 DEF SenderOK, SendsIn, Holding
    <3> QED BY <2>1, <2>2, <2>5, <3>1 DEF SenderOK, Holding
  <2> QED BY <2>1, <2>4, <2>5
<1> QED BY <1>1, <1>2

\* A reply stays pending only while its stream is open.
LEMMA PendingStays ==
    ASSUME ContextInv, past'.before = past.before, past'.failed \/ ~past.failed,
           \/ MayMove \/ sender.stage \notin Replying \/ past'.failed
           \/ \A c \in cache'[sender.session] : Finished(c),
           MayMove \/ past'.failed \/ Finished(sender'.current),
           \A s \in Sessions : \A c \in cache'[s] :
               c \in cache[s] \/ Upto(c, past.before) \/ past'.failed
    PROVE  PendingOK'
<1>1. ASSUME ~past'.failed, NEW s \in Sessions, NEW c \in cache'[s],
             NEW n \in DOMAIN c.timeline, c.timeline[n].state = "pending",
             ~(c.timeline[n].request <= past.before)
      PROVE  /\ sender'.stage \in Replying /\ sender'.session = s
             /\ c.timeline[n].request = sender'.request
  <2>1. c \in cache[s] BY <1>1 DEF Upto
  <2>2. /\ sender.stage \in Replying /\ sender.session = s
        /\ c.timeline[n].request = sender.request
    BY <1>1, <2>1 DEF ContextInv, PendingOK
  <2>3. ~Finished(c) BY <1>1 DEF Finished
  <2>4. MayMove /\ Shaped BY <1>1, <2>2, <2>3, QueueFacts DEF ContextInv
  <2> QED BY <2>2, <2>4, MoveFacts DEF Replying
<1>2. ASSUME ~past'.failed PROVE Finished(sender'.current)
  <2>1. Shaped /\ Finished(sender.current) BY <1>2, QueueFacts DEF ContextInv, PendingOK
  <2> QED BY <1>2, <2>1, MoveFacts
<1> QED BY <1>1, <1>2 DEF PendingOK, Finished

-----------------------------------------------------------------------------
(* Clicks, and what the page renders *)

\* What rendering a session calls.
LEMMA RenderedCalls ==
    ASSUME PageInv, NEW s \in Sessions \cup {NoSession}, Rendered(s)
    PROVE  /\ ref' = s /\ Lengthens(queue, queue')
           /\ \A op \in Added(queue, queue') :
                 /\ op.kind = "load" /\ op.session = s /\ op.held = Nothing /\ s \in Sessions
                 /\ cache[s] = Nothing /\ loading'
           /\ \A n \in DOMAIN queue' : Awaited(n)' => n = Len(queue') /\ n \notin DOMAIN queue
           /\ s \in Sessions /\ cache[s] = Nothing => loading' = TRUE
           /\ s = NoSession => shown' = <<>>
           /\ s \in Sessions /\ cache[s] # Nothing => \E c \in cache[s] : shown' = c.timeline
<1>1. QueueOK(queue, disk) /\ IsSeq(queue) BY QueueFacts DEF PageInv
<1>2. PICK r : r = Abandoned OBVIOUS
<1>3. /\ Lengthens(queue, r) /\ Added(queue, r) = {}
      /\ \A n \in DOMAIN r : r[n].kind = "load" => ~r[n].alive
  BY <1>1, <1>2, AbandonedLengthens
<1>4. CASE queue' = r
  <2>1. \A n \in DOMAIN queue' : ~Awaited(n)' BY <1>3, <1>4 DEF Awaited
  <2> QED BY <1>2, <1>3, <1>4, <2>1, BrowserAssumption DEF Rendered
<1>5. CASE s # NoSession /\ cache[s] = Nothing /\ loading' = TRUE
           /\ queue' = Append(r, Operation("load", s))
  <2>1. PICK e : e = Operation("load", s) OBVIOUS
  <2>2. e.kind = "load" /\ e.session = s /\ e.result = "none" /\ e.held = Nothing
    BY <2>1 DEF Operation
  <2>3. /\ Lengthens(queue, queue') /\ Added(queue, queue') = {e}
    BY <1>1, <1>3, <1>5, <2>1, <2>2, OneMore
  <2>4. IsSeq(r) BY <1>3 DEF Lengthens
  <2>5. /\ Len(queue') = Len(r) + 1 /\ DOMAIN queue' = 1..(Len(r) + 1)
        /\ \A n \in 1..Len(r) : queue'[n] = r[n]
        /\ Len(r) \in Nat /\ DOMAIN r = 1..Len(r)
    BY <1>5, <2>4, AppendFacts, SeqFacts
  <2>6. Len(queue) \in Nat /\ Len(queue) <= Len(r) /\ DOMAIN queue = 1..Len(queue)
    BY <1>1, <1>3, SeqFacts DEF Lengthens
  <2>7. ASSUME NEW n \in DOMAIN queue', Awaited(n)' PROVE n = Len(queue') /\ n \notin DOMAIN queue
    <3>1. n \notin 1..Len(r) BY <1>3, <2>5, <2>7 DEF Awaited
    <3> QED BY <2>5, <2>6, <3>1
  <2> QED BY <1>5, <2>2, <2>3, <2>7 DEF Rendered
<1> QED BY <1>2, <1>4, <1>5 DEF Rendered

LEMMA RenderingLoads ==
    ASSUME ContextInv, NEW s \in Sessions \cup {NoSession}, Rendered(s), active' = s,
           Calling, MayMove, s \in Sessions => ~Gone(s)
    PROVE  LoadsOK'
<1>1. /\ PageInv /\ IsSeq(queue) /\ LoadsOK /\ DeletedOK /\ Shaped BY QueueFacts DEF ContextInv
<1>2. /\ ref' = s /\ Lengthens(queue, queue')
      /\ \A op \in Added(queue, queue') :
            /\ op.kind = "load" /\ op.session = s /\ op.held = Nothing /\ s \in Sessions
            /\ cache[s] = Nothing /\ loading'
      /\ \A n \in DOMAIN queue' : Awaited(n)' => n = Len(queue') /\ n \notin DOMAIN queue
      /\ s \in Sessions /\ cache[s] = Nothing => loading' = TRUE
  BY <1>1, RenderedCalls
<1>3. ASSUME NEW n \in DOMAIN queue', Awaited(n)', NEW op, op = queue'[n]
      PROVE  /\ loading' /\ op.session = s /\ op.result = "none"
             /\ Read(s)' => OnlyStored(s)' /\ \A c \in op.held : Upto(c, past'.before)
  <2>1. op \in Added(queue, queue') BY <1>1, <1>2, <1>3, LengthensFacts
  <2>2. /\ op.session = s /\ s \in Sessions /\ cache[s] = Nothing /\ loading' /\ op.held = Nothing
        /\ op.result = "none"
    BY <1>1, <1>2, <2>1, LengthensFacts
  <2>3. Read(s) => OnlyStored(s) BY <1>1, <2>2 DEF DeletedOK
  <2>4. SendsIn(s)' => SendsIn(s) BY <1>1, MoveFacts DEF SendsIn, Holding
  <2>5. Read(s) => OnlyStored(s)' BY <2>3, <2>4 DEF OnlyStored, Calling, Calls
  <2>6. Read(s)' => Read(s) BY DEF Read, Calling, Calls
  <2>7. \A c \in op.held : FALSE BY <2>2 DEF Nothing
  <2> QED BY <1>2, <2>2, <2>5, <2>6, <2>7
<1>4. \A n, m \in DOMAIN queue' : Awaited(n)' /\ Awaited(m)' => n = m BY <1>2
<1>5. (active = ref /\ ref \in Sessions /\ ~loading /\ Read(ref) => cache[ref] # Nothing)'
  BY <1>2 DEF Calling, Calls
<1>6. ASSUME NEW n \in DOMAIN queue', Awaited(n)', NEW op, op = queue'[n]
      PROVE  LET x == op.session
             IN  /\ loading' /\ x = ref'
                 /\ Read(x)' => /\ OnlyStored(x)'
                                /\ \A c \in op.held : Upto(c, past'.before)
                 /\ Read(x)' /\ op.result = "ok" =>
                       \/ op.held = disk'[x].held
                       \/ disk'[x].held = Nothing /\ DeletedAfter(n, x)'
  <2>1. /\ loading' /\ op.session = s /\ op.result = "none"
        /\ Read(s)' => OnlyStored(s)' /\ \A c \in op.held : Upto(c, past'.before)
    BY <1>3, <1>6
  <2> QED BY <1>2, <2>1
<1> QED BY <1>4, <1>5, <1>6 DEF LoadsOK

LEMMA RenderingScreen ==
    ASSUME ContextInv, NEW s \in Sessions \cup {NoSession}, Rendered(s), UNCHANGED cache
    PROVE  ScreenOK'
<1>1. /\ ref' = s
      /\ s = NoSession => shown' = <<>>
      /\ s \in Sessions /\ cache[s] # Nothing => \E c \in cache[s] : shown' = c.timeline
  BY RenderedCalls DEF ContextInv
<1>2. ASSUME s \in Sessions, NEW c \in cache[s] PROVE shown' = c.timeline
  <2>1. cache[s] # Nothing BY <1>2 DEF Nothing
  <2>2. PICK d \in cache[s] : shown' = d.timeline BY <1>1, <1>2, <2>1
  <2>3. One(cache[s]) BY <1>2 DEF ContextInv, CopiesOK
  <2>4. c = d BY <1>2, <2>1, <2>2, <2>3 DEF One, Nothing
  <2> QED BY <2>2, <2>4
<1> QED BY <1>1, <1>2 DEF ScreenOK

\* A step that calls operations, and leaves the message as it is or ends it.
LEMMA CallingKeeps ==
    ASSUME ContextInv, PageInv', Calling,
           \/ MayMove \/ sender.stage \notin Replying
           \/ past.failed \/ \A c \in cache[sender.session] : Finished(c),
           MayMove \/ sender' = Idle,
           active' = active \/ (active' \in Sessions => list[active'] # NoTitle),
           ref' \in Sessions => ref' \in {active, ref} \/ list[ref'] # NoTitle,
           \A op \in Added(queue, queue') : op.kind = "load" => op.session = ref',
           LoadsOK', ScreenOK'
    PROVE  ContextInv'
<1>1. /\ PageInv /\ Shaped /\ CopiesOK /\ RecordsOK /\ SenderOK
  BY QueueFacts DEF ContextInv
<1>2. /\ sender'.session \in Sessions => /\ sender'.session = sender.session
                                         /\ sender'.current = sender.current
      /\ sender'.stage \in Holding => sender.stage \in Holding
      /\ sender'.stage = "provider" => sender' = sender
      /\ sender'.stage = "creating" => sender' = sender
  <2>1. CASE sender' = Idle BY <2>1, IdleFacts, BrowserAssumption DEF Holding
  <2>2. CASE MayMove BY <1>1, <2>2, MoveFacts DEF Holding
  <2> QED BY <2>1, <2>2
<1>3. \A s \in Sessions : SendsIn(s)' => SendsIn(s) BY <1>2 DEF SendsIn
<1>4. CopiesOK'
  <2>1. sender'.session \in Sessions => sender'.current \in AllCopies(sender'.session) \cup {Empty}
    BY <1>2, CopyCases
  <2> QED BY <2>1, CallingCopies
<1>5. SavesOK' /\ FailuresOK' BY CallingSaves
<1>6. SenderOK'
  <2>1. PICK s : s = sender.session OBVIOUS
  <2>2. Read(s)' => Read(s) BY DEF Read, Calling, Calls
  <2> QED BY <2>1, <2>2, SenderStays DEF Calling, Calls
<1>8. active' \in Sessions => active' \in {active, ref} \/ list[active'] # NoTitle
  OBVIOUS
<1>7. CreatingOK' BY <1>2, <1>8, CallingCreating
<1>9. DeletedOK' BY <1>3, CallingDeleted
<1>10. HistoryOK'
  <2>1. sender'.stage = "provider" => sender.stage = "provider" /\ sender'.session = sender.session
                                     /\ sender'.current = sender.current
    BY <1>2
  <2> QED BY <2>1, CallingHistory
<1>11. StoredOK' BY CallingStored
<1>12. PendingOK'
  <2>1. MayMove \/ Finished(sender'.current) BY IdleFacts, EmptyFinished
  <2> QED BY <2>1, PendingStays DEF Calling, Calls
<1>13. RecordsOK' /\ EarlyOK' /\ TitlesOK' BY <1>3, <1>8, CallingTitles
<1> QED BY <1>4, <1>5, <1>6, <1>7, <1>9, <1>10, <1>11, <1>12, <1>13 DEF ContextInv

\* One operation is called, or none.
LEMMA CallingOne ==
    ASSUME PageInv, NEW op, op.result = "none", queue' = Append(queue, op)
    PROVE  Lengthens(queue, queue') /\ Added(queue, queue') = {op}
BY QueueFacts, AsItWas, OneMore

LEMMA CallingNone ==
    ASSUME PageInv, UNCHANGED queue
    PROVE  Lengthens(queue, queue') /\ Added(queue, queue') = {}
BY QueueFacts, AsItWas

\* The page stays as it is, but for the message under way.
LEMMA StayingKeeps ==
    ASSUME ContextInv, PageInv', Calling,
           \/ MayMove \/ sender.stage \notin Replying
           \/ past.failed \/ \A c \in cache[sender.session] : Finished(c),
           MayMove \/ sender' = Idle, UNCHANGED <<active, ref, loading, shown>>,
           \A op \in Added(queue, queue') : op.kind # "load"
    PROVE  ContextInv'
<1>1. PageInv /\ Shaped /\ ScreenOK BY QueueFacts DEF ContextInv
<1>2. ASSUME NEW s \in Sessions, SendsIn(s)' PROVE SendsIn(s)
  <2>1. CASE sender' = Idle BY <1>2, <2>1, IdleFacts DEF SendsIn, Holding
  <2>2. CASE MayMove BY <1>1, <1>2, <2>2, MoveFacts DEF SendsIn, Holding
  <2> QED BY <2>1, <2>2
<1>3. LoadsOK' BY <1>2, CallingLoads
<1>4. ScreenOK' BY <1>1 DEF ScreenOK, Calling, Calls
<1>5. ref' \in Sessions => ref' \in {active, ref} \/ list[ref'] # NoTitle OBVIOUS
<1> QED BY <1>3, <1>4, <1>5, CallingKeeps

LEMMA StopInv == ASSUME ContextInv, PageInv', Stop PROVE ContextInv'
<1>1. /\ UNCHANGED <<disk, queue, boot, list, active, ref, shown, loading, cache, saves, past,
                     sent>>
      /\ MayMove
  BY DEF Stop, Clicked, StopIf, MayMove
<1>2. Calling BY <1>1, CallingNone DEF Calling, Calls, ContextInv, CopiesOK
<1> QED BY <1>1, <1>2, StayingKeeps, CallingNone DEF ContextInv

LEMMA NoProviderInv == ASSUME ContextInv, PageInv', NoProvider PROVE ContextInv'
<1>1. /\ UNCHANGED <<disk, queue, boot, list, active, ref, shown, loading, cache, saves, past,
                     sent>>
      /\ sender.stage \notin Replying /\ sender' = Idle
  BY DEF NoProvider, Replying
<1>2. Calling BY <1>1, CallingNone DEF Calling, Calls, ContextInv, CopiesOK
<1> QED BY <1>1, <1>2, StayingKeeps, CallingNone DEF ContextInv

LEMMA StutterInv == ASSUME ContextInv, PageInv', UNCHANGED vars PROVE ContextInv'
<1>1. /\ UNCHANGED <<disk, queue, boot, list, active, ref, shown, loading, cache, saves, past,
                     sent>>
      /\ MayMove
  BY DEF vars, MayMove
<1>2. Calling BY <1>1, CallingNone DEF Calling, Calls, ContextInv, CopiesOK
<1> QED BY <1>1, <1>2, StayingKeeps, CallingNone DEF ContextInv

\* A click that calls an operation on a session in the sidebar.
LEMMA ClickInv ==
    ASSUME ContextInv, PageInv', NEW s \in Sessions, Clicked, list[s] # NoTitle,
           UNCHANGED <<page, past>>, NEW op, op.result = "none", op.session = s,
           op.kind \in {"rename", "delete"}, queue' = Append(queue, op)
    PROVE  ContextInv'
<1>1. /\ UNCHANGED <<disk, boot, list, active, ref, shown, loading, cache, saves, past, sent>>
      /\ MayMove
  BY DEF Clicked, page, MayMove
<1>2. Lengthens(queue, queue') /\ Added(queue, queue') = {op} BY CallingOne DEF ContextInv
<1>3. Calling BY <1>1, <1>2 DEF Calling, Calls, ContextInv, CopiesOK
<1> QED BY <1>1, <1>2, <1>3, StayingKeeps

LEMMA RenameInv ==
    ASSUME ContextInv, PageInv', NEW s \in Sessions, Rename(s) PROVE ContextInv'
<1>1. PICK op : op = [Operation("rename", s) EXCEPT !.title = "given"] OBVIOUS
<1>2. /\ Clicked /\ list[s] # NoTitle /\ queue' = Append(queue, op)
      /\ UNCHANGED <<page, past>>
  BY <1>1 DEF Rename
<1>3. op.kind = "rename" /\ op.session = s /\ op.result = "none"
  BY <1>1 DEF Operation
<1> QED BY <1>2, <1>3, ClickInv

LEMMA DeleteInv ==
    ASSUME ContextInv, PageInv', NEW s \in Sessions, Delete(s) PROVE ContextInv'
<1>1. PICK op : op = [Operation("delete", s) EXCEPT !.streaming = Streaming] OBVIOUS
<1>2. /\ Clicked /\ list[s] # NoTitle /\ queue' = Append(queue, op)
      /\ UNCHANGED <<page, past>>
  BY <1>1 DEF Delete
<1>3. op.kind = "delete" /\ op.session = s /\ op.result = "none"
  BY <1>1 DEF Operation
<1> QED BY <1>2, <1>3, ClickInv

\* The session that the page renders is one that it knows.
LEMMA RenderingInv ==
    ASSUME ContextInv, PageInv', NEW s \in Sessions \cup {NoSession}, Rendered(s),
           active' = s, s \in Sessions => s = active \/ list[s] # NoTitle,
           UNCHANGED <<disk, boot, list, cache, saves, past, sent>>, MayMove
    PROVE  ContextInv'
<1>1. PageInv /\ sent \in Int BY DEF ContextInv, CopiesOK
<1>2. /\ ref' = s /\ Lengthens(queue, queue')
      /\ \A op \in Added(queue, queue') :
            op.kind = "load" /\ op.session = s /\ op.held = Nothing
  BY <1>1, RenderedCalls
<1>3. Calling BY <1>1, <1>2 DEF Calling, Calls
<1>4. s \in Sessions => ~Gone(s) BY DEF Gone
<1>5. LoadsOK' BY <1>3, <1>4, RenderingLoads
<1>6. ScreenOK' BY RenderingScreen
<1>7. /\ active' = active \/ (active' \in Sessions => list[active'] # NoTitle)
      /\ ref' \in Sessions => ref' \in {active, ref} \/ list[ref'] # NoTitle
  BY <1>2
<1> QED BY <1>2, <1>3, <1>5, <1>6, <1>7, CallingKeeps

LEMMA RenderInv == ASSUME ContextInv, PageInv', Render PROVE ContextInv'
<1>1. /\ Rendered(active) /\ active' = active
      /\ UNCHANGED <<disk, boot, list, cache, saves, past, sent>> /\ MayMove
  BY DEF Render, MayMove
<1>2. active \in Sessions \cup {NoSession} BY QueueFacts DEF ContextInv, Shaped
<1> QED BY <1>1, <1>2, RenderingInv

LEMMA SwitchInv ==
    ASSUME ContextInv, PageInv', NEW s \in Sessions \cup {NoSession}, Switch(s)
    PROVE  ContextInv'
<1>1. /\ active = ref /\ active' = s
      /\ s # NoSession => list[s] # NoTitle
      /\ UNCHANGED <<disk, boot, list, cache, saves, past, sent>>
      /\ MayMove
      /\ \/ s = ref /\ UNCHANGED <<ref, shown, queue, loading>>
         \/ Rendered(s)
  BY DEF Switch, Clicked, StopIf, MayMove
<1>2. CASE Rendered(s)
  <2>1. NoSession \notin Sessions BY BrowserAssumption
  <2>2. s \in Sessions => s = active \/ list[s] # NoTitle BY <1>1, <2>1
  <2> QED BY <1>1, <1>2, <2>2, RenderingInv
<1>3. CASE s = ref /\ UNCHANGED <<ref, shown, queue, loading>>
  <2>1. Calling BY <1>1, <1>3, CallingNone DEF Calling, Calls, ContextInv, CopiesOK
  <2> QED BY <1>1, <1>3, <2>1, StayingKeeps, CallingNone DEF ContextInv
<1> QED BY <1>1, <1>2, <1>3

\* A message is sent in the conversation that is shown.
LEMMA SendHereInv ==
    ASSUME ContextInv, PageInv', sender = Idle, active = ref, ~loading, ref \in Sessions,
           sender'.stage = "provider", sender'.session = ref, sender'.current = Current(ref),
           sender'.request = sent', sender'.got = "nothing", sent' = sent + 1,
           UNCHANGED <<disk, queue, boot, list, active, ref, shown, loading, cache, saves, past>>
    PROVE  ContextInv'
<1>1. /\ PageInv /\ CopiesOK /\ LoadsOK /\ sent \in Int /\ One(cache[ref]) /\ ScreenOK
      /\ Lengthens(queue, queue') /\ Added(queue, queue') = {}
  BY CallingNone DEF ContextInv, CopiesOK
<1>2. Calling BY <1>1 DEF Calling, Calls
<1>3. Read(ref) => cache[ref] # Nothing BY <1>1 DEF LoadsOK
<1>4. \/ Current(ref) \in cache[ref]
      \/ Current(ref) = Empty /\ cache[ref] = Nothing
  BY <1>1, HeldFacts DEF Current
<1>5. \A c \in cache[ref] : c = Current(ref) BY <1>1, HeldFacts DEF Current
<1>6. Current(ref) \in Conversations /\ Upto(Current(ref), sent)
  <2>1. ASSUME Current(ref) \in cache[ref] PROVE Sound(ref, Current(ref))
    BY <1>1, <2>1, CopyCases DEF CopiesOK
  <2> QED BY <1>4, <2>1, EmptyFacts DEF Sound
<1>7. \A s \in Sessions : SendsIn(s)' => s = ref BY DEF SendsIn
<1>8. CopiesOK'
  <2>1. sender'.current \in AllCopies(sender'.session) \cup {Empty}
    BY <1>4, CopyCases
  <2> QED BY <1>2, <2>1, CallingCopies
<1>9. SenderOK'
  <2>1. \A n \in DOMAIN Current(ref).timeline : Current(ref).timeline[n].request < sent + 1
    <3>1. ASSUME NEW n \in DOMAIN Current(ref).timeline
          PROVE  Current(ref).timeline[n].request < sent + 1
      <4>1. PICK r : r = Current(ref).timeline[n].request OBVIOUS
      <4>2. r \in Int BY <1>6, <3>1, <4>1, ConversationFacts
      <4>3. r <= sent BY <1>6, <3>1, <4>1 DEF Upto
      <4> QED BY <1>1, <4>1, <4>2, <4>3
    <3> QED BY <3>1
  <2>2. sent' \in Int /\ sent' <= sent' BY <1>1
  <2> QED BY <1>5, <2>1, <2>2 DEF SenderOK, Holding
<1>10. SavesOK' /\ FailuresOK' /\ StoredOK' BY <1>2, CallingSaves, CallingStored
<1>11. CreatingOK' BY DEF CreatingOK
<1>12. DeletedOK' BY <1>2, <1>3, <1>7, CallingDeleted
<1>13. LoadsOK' BY <1>1, <1>2, CallingLoads
<1>14. HistoryOK'
  <2>1. sender'.current \in cache[sender'.session] \/ sender'.session \in past.unread
    BY <1>3, <1>4 DEF Read
  <2> QED BY <1>2, <2>1, CallingHistory
<1>15. PendingOK'
  <2>1. sender.stage \notin Replying BY IdleFacts DEF Replying
  <2>2. \A c \in cache[ref] : ~past.failed => Finished(c)
    BY <2>1 DEF ContextInv, PendingOK, Finished
  <2>3. past'.failed \/ Finished(sender'.current) BY <1>4, <2>2, EmptyFinished
  <2> QED BY <2>1, <2>3, PendingStays
<1>16. ScreenOK' BY <1>1 DEF ScreenOK
<1>17. RecordsOK' /\ EarlyOK' /\ TitlesOK' BY <1>2, <1>7, CallingTitles
<1> QED BY <1>8, <1>9, <1>10, <1>11, <1>12, <1>13, <1>14, <1>15, <1>16, <1>17 DEF ContextInv

\* A message is sent in a new conversation.
LEMMA SendNewInv ==
    ASSUME ContextInv, PageInv', sender = Idle, active = ref, ref = NoSession,
           NEW s \in Sessions, disk[s] = Absent, s \notin past.deleted, cache[s] = Nothing,
           \A op \in Ops(queue) : op.session # s,
           queue' = Append(queue, Operation("create", s)), sent' = sent + 1,
           sender'.stage = "creating", sender'.session = s, sender'.current = Empty,
           UNCHANGED <<disk, boot, list, active, ref, shown, loading, cache, saves, past>>
    PROVE  ContextInv'
<1>1. /\ PageInv /\ SavesOK /\ sent \in Int /\ ScreenOK /\ NoSession \notin Sessions
  BY BrowserAssumption DEF ContextInv, CopiesOK
<1>2. PICK op : op = Operation("create", s) OBVIOUS
<1>3. op.kind = "create" /\ op.session = s /\ op.result = "none" BY <1>2, OperationFacts
<1>4. Lengthens(queue, queue') /\ Added(queue, queue') = {op} BY <1>1, <1>2, <1>3, CallingOne
<1>5. Calling BY <1>1, <1>3, <1>4 DEF Calling, Calls
<1>6. \A x \in Sessions : ~SendsIn(x)' BY DEF SendsIn, Holding
<1>7. CopiesOK' BY <1>5, CallingCopies
<1>8. SenderOK' BY DEF SenderOK, Holding
<1>9. SavesOK' /\ FailuresOK' /\ StoredOK' BY <1>5, CallingSaves, CallingStored
<1>10. CreatingOK'
  <2>1. saves[s] = <<>> BY <1>1 DEF SavesOK, IsSave
  <2>2. \A new \in Ops(queue') : (\E o \in Ops(queue) : Alike(o, new)) \/ new = op
    BY <1>1, <1>4, QueueFacts, LengthensFacts
  <2>3. \A new \in Ops(queue') : ~IsLoad(new, s) BY <1>3, <2>2 DEF Alike, IsLoad
  <2>4. op \in Ops(queue') BY <1>1, <1>4, QueueFacts, LengthensFacts
  <2>5. disk[s].held = Nothing BY DEF Absent
  <2>6. active # s /\ ref # s BY <1>1
  <2> QED BY <1>3, <2>1, <2>3, <2>4, <2>5, <2>6 DEF CreatingOK
<1>11. DeletedOK' BY <1>5, <1>6, CallingDeleted
<1>12. LoadsOK' BY <1>3, <1>4, <1>5, <1>6, CallingLoads
<1>13. HistoryOK' BY <1>5, CallingHistory
<1>14. PendingOK'
  <2>1. sender.stage \notin Replying BY IdleFacts DEF Replying
  <2> QED BY <2>1, EmptyFinished, PendingStays
<1>15. ScreenOK' BY <1>1 DEF ScreenOK
<1>16. RecordsOK' /\ EarlyOK' /\ TitlesOK' BY <1>5, <1>6, CallingTitles
<1> QED BY <1>7, <1>8, <1>9, <1>10, <1>11, <1>12, <1>13, <1>14, <1>15, <1>16 DEF ContextInv

LEMMA SendInv == ASSUME ContextInv, PageInv', Send PROVE ContextInv'
<1>1. /\ sender = Idle /\ active = ref /\ ~loading /\ sent' = sent + 1
      /\ UNCHANGED <<disk, boot, list, active, ref, shown, loading, cache, saves, past>>
  BY DEF Send, MaySend
<1>2. ref \in Sessions \cup {NoSession} BY QueueFacts DEF ContextInv, Shaped
<1>3. CASE /\ ref # NoSession /\ Prepare(ref, Current(ref), list[ref] = "new")
           /\ UNCHANGED queue
  <2>1. /\ sender'.stage = "provider" /\ sender'.session = ref
        /\ sender'.current = Current(ref) /\ sender'.request = sent'
        /\ sender'.got = "nothing"
    BY <1>3 DEF Prepare, Idle
  <2>2. ref \in Sessions BY <1>2, <1>3
  <2> QED BY <1>1, <1>3, <2>1, <2>2, SendHereInv
<1>4. ASSUME ref = NoSession, NEW s \in Sessions, disk[s] = Absent, s \notin past.deleted,
             cache[s] = Nothing, \A n \in DOMAIN queue : queue[n].session # s,
             queue' = Append(queue, Operation("create", s)),
             sender' = [Idle EXCEPT !.stage = "creating", !.session = s]
      PROVE  ContextInv'
  <2>1. sender'.stage = "creating" /\ sender'.session = s /\ sender'.current = Empty
    BY <1>4 DEF Idle
  <2>2. \A op \in Ops(queue) : op.session # s BY <1>4 DEF Ops
  <2> QED BY <1>1, <1>4, <2>1, <2>2, SendNewInv
<1> QED BY <1>3, <1>4 DEF Send

-----------------------------------------------------------------------------
(* What the page hears *)

\* The save that follows the one which the page hears of.
NextSave(e, op) == /\ e.kind = "save" /\ op.kind = "save" /\ e.session = op.session
                   /\ e.result = "none" /\ e.held # Nothing

\* The page heard of the oldest operation; perhaps another save follows.
MovesUp(q, r) ==
    /\ q # <<>> /\ IsSeq(r)
    /\ \A n \in DOMAIN r : \/ n + 1 \in DOMAIN q /\ r[n] = q[n + 1]
                           \/ n = Len(q) /\ NextSave(r[n], Head(q))
    /\ \A n \in DOMAIN q : n # 1 => n - 1 \in DOMAIN r /\ r[n - 1] = q[n]

LEMMA TailMovesUp ==
    ASSUME NEW q, IsSeq(q), q # <<>>
    PROVE  MovesUp(q, Tail(q))
<1>1. PICK r : r = Tail(q) OBVIOUS
<1>2. /\ Len(q) \in Nat /\ DOMAIN q = 1..Len(q) /\ IsSeq(r) /\ DOMAIN r = 1..(Len(q) - 1)
      /\ \A n \in 1..(Len(q) - 1) : r[n] = q[n + 1]
  BY <1>1, SeqFacts, TailFacts
<1>3. \A n \in DOMAIN r : n + 1 \in DOMAIN q /\ r[n] = q[n + 1] BY <1>2
<1>4. ASSUME NEW n \in DOMAIN q, n # 1 PROVE n - 1 \in DOMAIN r /\ r[n - 1] = q[n]
  <2>1. n - 1 \in DOMAIN r /\ (n - 1) + 1 = n BY <1>2, <1>4
  <2> QED BY <1>2, <2>1
<1> QED BY <1>1, <1>2, <1>3, <1>4 DEF MovesUp

\* A step in which the page hears of its oldest operation.
Hearing ==
    /\ MovesUp(queue, queue') /\ UNCHANGED <<disk, sent>> /\ Head(queue).result # "none"
    /\ past'.failed = past.failed /\ past'.before = past.before
    /\ past'.deleted = past.deleted
    /\ past.unread \subseteq past'.unread /\ past.early \subseteq past'.early

LEMMA HearingFacts ==
    ASSUME PageInv, Hearing
    PROVE  /\ Head(queue) = queue[1] /\ 1 \in DOMAIN queue /\ Head(queue) \in Ops(queue)
           /\ WellFormed(Head(queue)) /\ Linked(Head(queue))
           /\ \A n \in DOMAIN queue' : queue'[n].kind # "save" \/ queue'[n].result # "none" =>
                 n + 1 \in DOMAIN queue /\ queue'[n] = queue[n + 1]
           /\ \A new \in Ops(queue') : new \in Ops(queue) \/ NextSave(new, Head(queue))
           /\ \A new \in Ops(queue') : new \in Ops(queue) => InLine(Head(queue), new)
           /\ \A op \in Ops(queue) : op = Head(queue) \/ op \in Ops(queue')
<1>1. /\ IsSeq(queue) /\ queue # <<>> /\ Len(queue) \in Nat /\ DOMAIN queue = 1..Len(queue)
      /\ \A op \in Ops(queue) : WellFormed(op) /\ Linked(op)
  BY QueueFacts DEF Hearing, MovesUp
<1>2. /\ Head(queue) = queue[1] /\ 1 \in DOMAIN queue /\ Head(queue) \in Ops(queue)
  BY <1>1, TailFacts DEF Ops
<1>3. \A n \in DOMAIN queue' :
         \/ n + 1 \in DOMAIN queue /\ queue'[n] = queue[n + 1]
         \/ NextSave(queue'[n], Head(queue))
  BY DEF Hearing, MovesUp
<1>4. IsSeq(queue') /\ DOMAIN queue' = 1..Len(queue') /\ Len(queue') \in Nat
  BY SeqFacts DEF Hearing, MovesUp
<1>5. ASSUME NEW new \in Ops(queue')
      PROVE  \/ new \in Ops(queue) /\ InLine(Head(queue), new)
             \/ NextSave(new, Head(queue))
  <2>1. PICK n \in DOMAIN queue' : new = queue'[n] BY DEF Ops
  <2>2. CASE n + 1 \in DOMAIN queue /\ queue'[n] = queue[n + 1]
    <3>1. n + 1 \in (1 + 1)..Len(queue) BY <1>1, <1>4, <2>2
    <3>2. InLine(queue[1], queue[n + 1]) BY <1>1, <1>2, <3>1 DEF PageInv, QueueOK
    <3> QED BY <1>2, <2>1, <2>2, <3>2 DEF Ops
  <2> QED BY <1>3, <2>1, <2>2
<1>6. \A new \in Ops(queue') : new \in Ops(queue) => InLine(Head(queue), new)
  <2>1. ASSUME NEW new \in Ops(queue), NextSave(new, Head(queue))
        PROVE  InLine(Head(queue), new)
    <3>1. new.result = "none" /\ Head(queue).result # "none" BY <2>1 DEF NextSave, Hearing
    <3>2. Head(queue).kind = "save" /\ new.kind = "save" /\ new.session = Head(queue).session
      BY <2>1 DEF NextSave
    <3>3. PICK m \in DOMAIN queue : new = queue[m] BY DEF Ops
    <3>4. m \in (1 + 1)..Len(queue) BY <1>1, <1>2, <3>1, <3>3
    <3> QED BY <1>2, <3>3, <3>4 DEF PageInv, QueueOK
  <2> QED BY <1>5, <2>1
<1>7. \A op \in Ops(queue) : op = Head(queue) \/ op \in Ops(queue')
  <2>1. \A n \in DOMAIN queue : n = 1 \/ (n - 1 \in DOMAIN queue' /\ queue'[n - 1] = queue[n])
    BY DEF Hearing, MovesUp
  <2> QED BY <1>2, <2>1 DEF Ops
<1> QED BY <1>1, <1>2, <1>3, <1>5, <1>6, <1>7 DEF NextSave

LEMMA HearingLater ==
    ASSUME PageInv, Hearing, NEW n \in DOMAIN queue', NEW s
    PROVE  /\ DeletedAfter(n + 1, s) => DeletedAfter(n, s)'
           /\ RetitledAfter(n + 1, s) => RetitledAfter(n, s)'
<1>1. /\ Len(queue) \in Nat /\ DOMAIN queue = 1..Len(queue)
      /\ IsSeq(queue') /\ Len(queue') \in Nat /\ DOMAIN queue' = 1..Len(queue')
  BY QueueFacts, SeqFacts DEF Hearing, MovesUp
<1>2. ASSUME NEW m \in (n + 1 + 1)..Len(queue)
      PROVE  m - 1 \in (n + 1)..Len(queue') /\ queue'[m - 1] = queue[m]
  <2>1. m \in DOMAIN queue /\ m # 1 BY <1>1
  <2>2. m - 1 \in DOMAIN queue' /\ queue'[m - 1] = queue[m] BY <2>1 DEF Hearing, MovesUp
  <2> QED BY <1>1, <2>2
<1> QED BY <1>2 DEF DeletedAfter, RetitledAfter

\* What the page makes of the title that it hears of.
Listens ==
    LET op == Head(queue)
        s == op.session
    IN  /\ UNCHANGED boot /\ op.kind # "list"
        /\ \/ list' = list /\ (op.kind = "load" \/ op.result = "failed")
           \/ /\ op.kind \in Changes \ {"delete"} /\ op.result = "ok"
              /\ list' = Listed(s, op.title)
           \/ op.kind = "delete" /\ op.result = "ok" /\ list' = [list EXCEPT ![s] = NoTitle]
        /\ boot.stage = "waiting" => op.kind = "load" \/ past'.failed \/ s \in past'.early

LEMMA ListensFacts ==
    ASSUME PageInv, Hearing, Listens
    PROVE  LET op == Head(queue)
               s == op.session
           IN  /\ s \in Sessions /\ boot.stage \in {"waiting", "done"}
               /\ \A x \in Sessions : x # s => list'[x] = list[x]
               /\ \/ list'[s] \in {list[s], NoTitle}
                  \/ Retitles(op, s) /\ op.title # NoTitle /\ list'[s] = op.title
               /\ op.kind = "load" => list' = list
               /\ \/ op.kind = "load" \/ op.result = "failed"
                  \/ /\ op.kind \in Changes /\ op.result = "ok"
                     /\ op.kind = "delete" => list'[s] = NoTitle
                     /\ op.kind # "delete" =>
                           list'[s] = IF op.title = NoTitle THEN list[s] ELSE op.title
<1> DEFINE op == Head(queue)
           s == op.session
<1>1. WellFormed(op) /\ Head(queue) = queue[1] BY HearingFacts
<1>2. s \in Sessions /\ op.kind # "list" BY <1>1 DEF Listens, WellFormed
<1>3. DOMAIN list = Sessions /\ BootOK BY DEF PageInv, PageOK, Shaped
<1>4. boot.stage \in {"waiting", "done"} BY <1>1, <1>2, <1>3 DEF BootOK
<1> HIDE DEF op
<1>5. CASE list' = list /\ (op.kind = "load" \/ op.result = "failed")
  BY <1>2, <1>4, <1>5 DEF op
<1>6. CASE /\ op.kind \in Changes \ {"delete"} /\ op.result = "ok"
           /\ list' = Listed(s, op.title)
  <2>1. op.kind # "load" /\ op.kind # "delete" /\ op.kind \in Changes BY <1>6 DEF Changes
  <2>2. CASE op.title = NoTitle BY <1>2, <1>4, <1>6, <2>1, <2>2 DEF Listed, op
  <2>3. CASE op.title # NoTitle
    <3>1. list' = [list EXCEPT ![s] = op.title] BY <1>6, <2>3 DEF Listed
    <3>2. list'[s] = op.title /\ \A x \in Sessions : x # s => list'[x] = list[x]
      BY <1>2, <1>3, <3>1
    <3> QED BY <1>2, <1>4, <1>6, <2>1, <2>3, <3>2 DEF Retitles, op
  <2> QED BY <2>2, <2>3
<1>7. CASE op.kind = "delete" /\ op.result = "ok" /\ list' = [list EXCEPT ![s] = NoTitle]
  <2>1. op.kind # "load" /\ op.kind \in Changes BY <1>7 DEF Changes
  <2>2. list'[s] = NoTitle /\ \A x \in Sessions : x # s => list'[x] = list[x]
    BY <1>2, <1>3, <1>7
  <2> QED BY <1>2, <1>4, <1>7, <2>1, <2>2 DEF op
<1>8. \/ list' = list /\ (op.kind = "load" \/ op.result = "failed")
      \/ op.kind \in Changes \ {"delete"} /\ op.result = "ok" /\ list' = Listed(s, op.title)
      \/ op.kind = "delete" /\ op.result = "ok" /\ list' = [list EXCEPT ![s] = NoTitle]
  BY DEF Listens, op
<1> QED BY <1>5, <1>6, <1>7, <1>8

LEMMA HearingRecords ==
    ASSUME ContextInv, Hearing, ref' = ref,
           active' \in Sessions => active' = active \/ Recorded(active'),
           sender'.stage \in Holding =>
              \/ sender.stage \in Holding /\ sender'.session = sender.session
              \/ Recorded(sender'.session)
    PROVE  RecordsOK'
<1>1. PageInv /\ RecordsOK BY DEF ContextInv
<1>2. \A s : Recorded(s)' <=> Recorded(s) BY DEF Recorded, Hearing
<1>3. ASSUME NEW new \in Ops(queue'),
             \/ new.kind \in {"save", "rename", "name", "delete"}
             \/ new.kind = "create" /\ new.result = "ok"
      PROVE  Recorded(new.session)
  <2>1. CASE new \in Ops(queue) BY <1>1, <1>3, <2>1 DEF RecordsOK
  <2>2. CASE NextSave(new, Head(queue))
    <3>1. Head(queue) \in Ops(queue) BY <1>1, HearingFacts
    <3> QED BY <1>1, <2>2, <3>1 DEF RecordsOK, NextSave
  <2> QED BY <1>1, <2>1, <2>2, HearingFacts
<1> QED BY <1>1, <1>2, <1>3 DEF RecordsOK

LEMMA HearingEarly ==
    ASSUME ContextInv, Hearing, Listens, ref' = ref,
           active' \in Sessions => active' = active \/ active' = Head(queue).session,
           Head(queue).kind = "load" => UNCHANGED <<active, sender>>,
           \A s \in Sessions : SendsIn(s)' => SendsIn(s) \/ s = Head(queue).session
    PROVE  EarlyOK'
<1>1. PageInv /\ EarlyOK BY DEF ContextInv
<1> SUFFICES ASSUME boot.stage = "waiting", NEW s \in Sessions, Settled(s)'
             PROVE  /\ list'[s] = NoTitle /\ active' # s /\ ref # s /\ ~SendsIn(s)'
                    /\ \A new \in Ops(queue') : new.session = s => new.kind \in {"create", "load"}
  BY DEF EarlyOK, Listens
<1>2. /\ Head(queue).session \in Sessions
      /\ \A x \in Sessions : x # Head(queue).session => list'[x] = list[x]
      /\ Head(queue).kind = "load" => list' = list
  BY <1>1, ListensFacts
<1>3. Settled(s) BY DEF Settled, Hearing
<1>4. /\ list[s] = NoTitle /\ active # s /\ ref # s /\ ~SendsIn(s)
      /\ \A op \in Ops(queue) : op.session = s => op.kind \in {"create", "load"}
  BY <1>1, <1>3 DEF EarlyOK
<1>5. Head(queue).kind = "load" \/ Head(queue).session # s BY DEF Listens, Settled
<1>6. list'[s] = NoTitle /\ active' # s /\ ~SendsIn(s)'
  BY <1>2, <1>4, <1>5 DEF SendsIn
<1>7. ASSUME NEW new \in Ops(queue'), new.session = s PROVE new.kind \in {"create", "load"}
  <2>1. ~NextSave(new, Head(queue)) BY <1>5, <1>7 DEF NextSave
  <2> QED BY <1>1, <1>4, <1>7, <2>1, HearingFacts
<1> QED BY <1>4, <1>6, <1>7

LEMMA HearingTitles ==
    ASSUME ContextInv, Hearing, Listens
    PROVE  TitlesOK'
<1> DEFINE op == Head(queue)
           x == op.session
<1>1. PageInv /\ TitlesOK /\ FailuresOK BY DEF ContextInv
<1>2. /\ op = queue[1] /\ 1 \in DOMAIN queue /\ op \in Ops(queue) /\ WellFormed(op) /\ Linked(op)
      /\ \A n \in DOMAIN queue' : queue'[n].kind # "save" \/ queue'[n].result # "none" =>
            n + 1 \in DOMAIN queue /\ queue'[n] = queue[n + 1]
      /\ \A new \in Ops(queue') : new.result = "ok" => new \in Ops(queue) /\ InLine(op, new)
      /\ \A o \in Ops(queue) : o = op \/ o \in Ops(queue')
  BY <1>1, HearingFacts DEF NextSave
<1>3. /\ x \in Sessions /\ boot.stage \in {"waiting", "done"}
      /\ \A y \in Sessions : y # x => list'[y] = list[y]
      /\ op.kind = "load" => list' = list
      /\ \/ op.kind = "load" \/ op.result = "failed"
         \/ /\ op.kind \in Changes /\ op.result = "ok"
            /\ op.kind = "delete" => list'[x] = NoTitle
            /\ op.kind # "delete" => list'[x] = IF op.title = NoTitle THEN list[x] ELSE op.title
  BY <1>1, ListensFacts
<1>4. op.kind # "list" /\ boot' = boot BY DEF Listens
<1>5. boot.stage = "waiting" => op.kind = "load" \/ past'.failed \/ x \in past'.early
  BY DEF Listens
<1> HIDE DEF op
<1>6. Titles' = Titles BY DEF Titles, Hearing
<1>7. \A new \in Ops(queue') : new.kind = "list" /\ new.result = "ok" => new.titles = Titles
  BY <1>1, <1>2 DEF TitlesOK
<1>8. ASSUME NEW s \in Sessions, Settled(s)'
      PROVE  /\ Settled(s) /\ ~past.failed
             /\ \/ Listing(s)' = Listing(s) /\ ~(Retitles(op, s) \/ IsDelete(op, s))
                \/ /\ s = x /\ Listing(s)' = list'[x] /\ Listing(s) = list[x]
                   /\ op.kind \in Changes /\ op.result = "ok"
                   /\ op.kind = "delete" => list'[x] = NoTitle
                   /\ op.kind # "delete" =>
                         list'[x] = IF op.title = NoTitle THEN list[x] ELSE op.title
  <2>1. Settled(s) /\ ~past.failed BY <1>8 DEF Settled, Hearing
  <2>2. op.result # "failed" BY <1>1, <1>2, <2>1 DEF FailuresOK
  <2>3. CASE s # x \/ op.kind = "load"
    <3>1. Listing(s)' = Listing(s) BY <1>3, <1>4, <2>3 DEF Listing
    <3>2. ~Retitles(op, s) /\ ~IsDelete(op, s) BY <2>3 DEF Retitles, IsDelete, Changes
    <3> QED BY <2>1, <3>1, <3>2
  <2>4. CASE s = x /\ op.kind # "load"
    <3>1. boot.stage = "done" BY <1>3, <1>5, <1>8, <2>4 DEF Settled
    <3>2. Listing(s)' = list'[x] /\ Listing(s) = list[x] BY <1>4, <2>4, <3>1 DEF Listing
    <3> QED BY <1>3, <2>1, <2>2, <2>4, <3>2
  <2> QED BY <2>3, <2>4
<1>9. ASSUME boot.stage # "listing", NEW s \in Sessions, Settled(s)', s \in past.deleted
      PROVE  \/ \E new \in Ops(queue') : IsDelete(new, s) /\ new.result = "ok"
             \/ /\ Listing(s)' = NoTitle
                /\ \A new \in Ops(queue') : Retitles(new, s) => new.title = NoTitle
  <2>1. Settled(s) BY <1>8, <1>9
  <2>2. ASSUME NEW del \in Ops(queue), IsDelete(del, s), del.result = "ok", del # op
        PROVE  \E new \in Ops(queue') : IsDelete(new, s) /\ new.result = "ok"
    BY <1>2, <2>2
  <2>3. CASE IsDelete(op, s) /\ op.result = "ok"
    <3>1. Listing(s)' = NoTitle BY <1>8, <1>9, <2>3 DEF IsDelete
    <3>2. \A new \in Ops(queue') : Retitles(new, s) => new.title = NoTitle
      BY <1>2, <2>3 DEF Retitles, IsDelete, InLine, Changes
    <3> QED BY <3>1, <3>2
  <2>4. CASE /\ Listing(s) = NoTitle
             /\ \A new \in Ops(queue) : Retitles(new, s) => new.title = NoTitle
    <3>1. Listing(s)' = NoTitle
      <4>1. CASE Listing(s)' = Listing(s) BY <2>4, <4>1
      <4>2. CASE /\ s = x /\ Listing(s)' = list'[x] /\ Listing(s) = list[x]
                 /\ op.kind \in Changes /\ op.result = "ok"
                 /\ op.kind = "delete" => list'[x] = NoTitle
                 /\ op.kind # "delete" =>
                       list'[x] = IF op.title = NoTitle THEN list[x] ELSE op.title
        <5>1. op.title = NoTitle BY <1>2, <2>4, <4>2 DEF Retitles
        <5> QED BY <2>4, <4>2, <5>1
      <4> QED BY <1>8, <1>9, <4>1, <4>2
    <3>2. \A new \in Ops(queue') : Retitles(new, s) => new.title = NoTitle
      BY <1>2, <2>4 DEF Retitles
    <3> QED BY <3>1, <3>2
  <2> QED BY <1>1, <1>9, <2>1, <2>2, <2>3, <2>4 DEF TitlesOK
<1>10. ASSUME boot.stage # "listing", NEW s \in Sessions, Settled(s)', s \notin past.deleted
       PROVE  /\ (\A new \in Ops(queue') : ~Retitles(new, s)) => Listing(s)' = disk[s].title
              /\ \A n \in DOMAIN queue' : Retitles(queue'[n], s) =>
                    /\ queue'[n].title # NoTitle
                    /\ queue'[n].title = disk[s].title \/ RetitledAfter(n, s)'
  <2>1. Settled(s) BY <1>8, <1>10
  <2>2. /\ (\A o \in Ops(queue) : ~Retitles(o, s)) => Listing(s) = disk[s].title
        /\ \A n \in DOMAIN queue : Retitles(queue[n], s) =>
              /\ queue[n].title # NoTitle
              /\ queue[n].title = disk[s].title \/ RetitledAfter(n, s)
    BY <1>1, <1>10, <2>1 DEF TitlesOK
  <2>3. ASSUME \A new \in Ops(queue') : ~Retitles(new, s) PROVE Listing(s)' = disk[s].title
    <3>1. CASE ~Retitles(op, s) /\ Listing(s)' = Listing(s) BY <1>2, <2>2, <2>3, <3>1
    <3>2. CASE Retitles(op, s)
      <4>1. op.title # NoTitle /\ (op.title = disk[s].title \/ RetitledAfter(1, s))
        BY <1>2, <2>2, <3>2
      <4>2. ~RetitledAfter(1, s)
        <5> SUFFICES ASSUME NEW m \in (1 + 1)..Len(queue), Retitles(queue[m], s) PROVE FALSE
          BY DEF RetitledAfter
        <5>1. m \in DOMAIN queue /\ m # 1 BY <1>1, QueueFacts
        <5>2. queue[m] \in Ops(queue') BY <5>1 DEF Hearing, MovesUp, Ops
        <5> QED BY <2>3, <5>2
      <4>3. op.kind # "delete"
        BY <1>2, <1>10, <3>2 DEF Linked, Retitles
      <4>4. Listing(s)' = op.title BY <1>8, <1>10, <3>2, <4>1, <4>3
      <4> QED BY <4>1, <4>2, <4>4
    <3>3. op.kind \in Changes /\ op.result = "ok" /\ s = x => Retitles(op, s) BY DEF Retitles
    <3> QED BY <1>8, <1>10, <3>1, <3>2, <3>3
  <2>4. ASSUME NEW n \in DOMAIN queue', Retitles(queue'[n], s)
        PROVE  /\ queue'[n].title # NoTitle
               /\ queue'[n].title = disk[s].title \/ RetitledAfter(n, s)'
    <3>1. n + 1 \in DOMAIN queue /\ queue'[n] = queue[n + 1]
      BY <1>2, <2>4 DEF Retitles
    <3>2. /\ queue[n + 1].title # NoTitle
          /\ queue[n + 1].title = disk[s].title \/ RetitledAfter(n + 1, s)
      BY <2>2, <2>4, <3>1
    <3> QED BY <1>1, <2>4, <3>1, <3>2, HearingLater
  <2> QED BY <2>3, <2>4
<1> QED BY <1>4, <1>6, <1>7, <1>9, <1>10 DEF TitlesOK, Hearing

LEMMA HearingDeleted ==
    ASSUME ContextInv, Hearing, Listens,
           active' \in Sessions =>
              active' = active \/ (Head(queue).kind = "create" /\ active' = Head(queue).session),
           Head(queue).kind = "delete" /\ Head(queue).result = "ok" =>
              active' # Head(queue).session,
           \A s \in Sessions : saves[s] = <<>> => saves'[s] = <<>>,
           \A s \in Sessions : SendsIn(s)' => SendsIn(s) \/ cache'[s] # Nothing,
           \A s \in Sessions : cache'[s] = Nothing =>
              cache[s] = Nothing \/ (IsDelete(Head(queue), s) /\ Head(queue).result = "ok")
    PROVE  DeletedOK'
<1> DEFINE op == Head(queue)
           x == op.session
<1>1. PageInv /\ DeletedOK BY DEF ContextInv
<1>2. /\ op \in Ops(queue) /\ Linked(op) /\ op.result \in {"ok", "failed"}
      /\ \A new \in Ops(queue') : new.kind # "save" \/ new.result = "ok" =>
            new \in Ops(queue) /\ InLine(op, new)
      /\ \A new \in Ops(queue') : new.kind = "create" => new \in Ops(queue)
  BY <1>1, HearingFacts DEF NextSave, WellFormed, Hearing
<1>3. /\ x \in Sessions
      /\ \A y \in Sessions : y # x => list'[y] = list[y]
      /\ \/ list'[x] \in {list[x], NoTitle}
         \/ Retitles(op, x) /\ op.title # NoTitle /\ list'[x] = op.title
      /\ \/ op.kind = "load" \/ op.result = "failed"
         \/ /\ op.kind \in Changes /\ op.result = "ok"
            /\ op.kind = "delete" => list'[x] = NoTitle
  BY <1>1, ListensFacts
<1>4. boot' = boot BY DEF Listens
<1> HIDE DEF op
<1>5. \A s \in past.deleted : /\ disk[s].title = NoTitle
                              /\ \A new \in Ops(queue') : ~(new.kind = "create" /\ new.session = s)
  BY <1>1, <1>2 DEF DeletedOK
<1>6. ASSUME NEW s \in Sessions, Gone(s) PROVE Gone(s)'
  <2>1. list'[s] = NoTitle BY <1>2, <1>3, <1>6 DEF Gone, Retitles
  <2>2. active' # s
    <3>1. ~(op.kind = "create" /\ op.session = s) BY <1>1, <1>2, <1>6 DEF Gone, DeletedOK
    <3> QED BY <1>6, <3>1 DEF Gone, op
  <2>3. \A new \in Ops(queue') : new.kind \in Changes /\ new.session = s /\ new.result = "ok"
            => new.title = NoTitle
    BY <1>2, <1>6 DEF Gone
  <2> QED BY <1>4, <1>6, <2>1, <2>2, <2>3 DEF Gone, Hearing
<1>7. ASSUME NEW s \in Sessions, OnlyStored(s), cache'[s] = Nothing PROVE OnlyStored(s)'
  BY <1>7 DEF OnlyStored, Hearing
<1>8. ASSUME NEW s \in Sessions, IsDelete(op, s), op.result = "ok" PROVE Gone(s)'
  <2>1. op.kind = "delete" /\ s = x BY <1>8 DEF IsDelete
  <2>2. s \in past.deleted /\ list'[s] = NoTitle
    BY <1>2, <1>3, <1>8, <2>1 DEF Linked
  <2>3. boot.stage = "waiting" => boot.titles[s] = NoTitle BY <1>2, <2>1 DEF Linked
  <2>4. \A new \in Ops(queue') : new.kind \in Changes /\ new.session = s /\ new.result = "ok"
            => new.title = NoTitle
    BY <1>2, <1>8, <2>1 DEF InLine, Changes
  <2>5. active' # s BY <1>8, <2>1 DEF op
  <2> QED BY <1>4, <2>2, <2>3, <2>4, <2>5 DEF Gone, Hearing
<1>9. ASSUME NEW s \in Sessions, Read(s)', cache'[s] = Nothing PROVE Gone(s)' \/ OnlyStored(s)'
  <2>1. Read(s) BY <1>9 DEF Read, Hearing
  <2>2. CASE cache[s] = Nothing BY <1>1, <1>6, <1>7, <1>9, <2>1, <2>2 DEF DeletedOK
  <2> QED BY <1>8, <1>9, <2>2 DEF op
<1> QED BY <1>5, <1>9 DEF DeletedOK, Hearing

LEMMA HearingLoads ==
    ASSUME ContextInv, Hearing, ref' = ref, Awaited(1) \/ loading' = loading,
           \A s \in Sessions : saves[s] = <<>> => saves'[s] = <<>>,
           \A s \in Sessions : SendsIn(s)' =>
              SendsIn(s) \/ \A op \in Ops(queue) : ~IsLoad(op, s),
           (active = ref /\ ref \in Sessions /\ ~loading /\ Read(ref) => cache[ref] # Nothing)'
    PROVE  LoadsOK'
<1>1. PageInv /\ LoadsOK BY DEF ContextInv
<1>2. ASSUME NEW n \in DOMAIN queue', Awaited(n)'
      PROVE  n + 1 \in DOMAIN queue /\ Awaited(n + 1) /\ queue'[n] = queue[n + 1] /\ n \in Nat
             /\ 1 \in DOMAIN queue
  <2>1. DOMAIN queue' = 1..Len(queue') BY SeqFacts DEF Hearing, MovesUp
  <2> QED BY <1>1, <1>2, <2>1, HearingFacts DEF Awaited
<1>3. ASSUME NEW n \in DOMAIN queue', Awaited(n)', NEW op, op = queue'[n]
      PROVE  LET s == op.session
             IN  /\ loading' /\ s = ref'
                 /\ Read(s)' => /\ OnlyStored(s)'
                                /\ \A c \in op.held : Upto(c, past'.before)
                 /\ Read(s)' /\ op.result = "ok" =>
                       \/ op.held = disk'[s].held
                       \/ disk'[s].held = Nothing /\ DeletedAfter(n, s)'
  <2> DEFINE s == op.session
  <2>1. n + 1 \in DOMAIN queue /\ Awaited(n + 1) /\ op = queue[n + 1] /\ n \in Nat
    BY <1>2, <1>3
  <2>2. /\ loading /\ s = ref
        /\ Read(s) => OnlyStored(s) /\ \A c \in op.held : Upto(c, past.before)
        /\ Read(s) /\ op.result = "ok" =>
              \/ op.held = disk[s].held
              \/ disk[s].held = Nothing /\ DeletedAfter(n + 1, s)
    BY <1>1, <2>1 DEF LoadsOK
  <2>3. loading' = loading
    <3>1. Awaited(1) => 1 = n + 1 BY <1>1, <1>2, <1>3, <2>1 DEF LoadsOK
    <3>2. n # 0
      <4>1. DOMAIN queue' = 1..Len(queue') BY SeqFacts DEF Hearing, MovesUp
      <4> QED BY <4>1
    <3> QED BY <2>1, <3>1, <3>2
  <2>4. op \in Ops(queue) /\ IsLoad(op, s) BY <2>1 DEF Ops, IsLoad, Awaited
  <2>5. s \in Sessions BY <1>1, <2>4, QueueFacts DEF WellFormed, IsLoad
  <2>6. DeletedAfter(n + 1, s) => DeletedAfter(n, s)' BY <1>1, HearingLater
  <2>7. Read(s)' => Read(s) BY DEF Hearing, Read
  <2>8. OnlyStored(s) => OnlyStored(s)' BY <2>4, <2>5 DEF Hearing, OnlyStored
  <2> QED BY <2>2, <2>3, <2>6, <2>7, <2>8 DEF Hearing
<1>4. ASSUME NEW n \in DOMAIN queue', NEW m \in DOMAIN queue', Awaited(n)', Awaited(m)'
      PROVE  n = m
  <2>1. /\ n + 1 \in DOMAIN queue /\ Awaited(n + 1) /\ n \in Nat
        /\ m + 1 \in DOMAIN queue /\ Awaited(m + 1) /\ m \in Nat
    BY <1>2, <1>4
  <2>2. n + 1 = m + 1 BY <1>1, <2>1 DEF LoadsOK
  <2> QED BY <2>1, <2>2
<1> QED BY <1>3, <1>4 DEF LoadsOK

LEMMA HearingSaves ==
    ASSUME ContextInv, Hearing, saves' = saves, Head(queue).kind # "save"
    PROVE  SavesOK' /\ FailuresOK'
<1>1. PageInv /\ SavesOK /\ FailuresOK BY DEF ContextInv
<1>2. /\ \A new \in Ops(queue') : new \in Ops(queue)
      /\ \A op \in Ops(queue) : op = Head(queue) \/ op \in Ops(queue')
  BY <1>1, HearingFacts DEF NextSave
<1>3. \A s \in Sessions : saves[s] # <<>> => \E op \in Ops(queue') : IsSave(op, s)
  BY <1>1, <1>2 DEF SavesOK, IsSave
<1> QED BY <1>1, <1>2, <1>3 DEF SavesOK, FailuresOK, Hearing

\* The second part of StoredOK.
LEMMA HearingStoring ==
    ASSUME ContextInv, Hearing, ~past'.failed, NEW n \in DOMAIN queue', NEW op, op = queue'[n],
           op.kind = "save", op.result = "ok"
    PROVE  op.held = disk'[op.session].held \/ DeletedAfter(n, op.session)'
<1>1. PageInv /\ StoredOK /\ ~past.failed BY DEF ContextInv, Hearing
<1>2. n + 1 \in DOMAIN queue /\ op = queue[n + 1] BY <1>1, HearingFacts
<1>3. op.held = disk[op.session].held \/ DeletedAfter(n + 1, op.session)
  BY <1>1, <1>2 DEF StoredOK
<1> QED BY <1>1, <1>3, HearingLater DEF Hearing

LEMMA HearingStored ==
    ASSUME ContextInv, Hearing, saves' = saves, Head(queue).kind # "save",
           \A s \in Sessions : \A c \in cache'[s] :
              \/ c \in cache[s] /\ (IsDelete(Head(queue), s) => past.failed)
              \/ saves[s] = <<>> /\ Conversed(disk[s].held) = c
              \/ \E new \in Ops(queue') : IsDelete(new, s)
              \/ past.failed
    PROVE  StoredOK'
<1>1. PageInv /\ StoredOK BY DEF ContextInv
<1>2. \A op \in Ops(queue) : op = Head(queue) \/ op \in Ops(queue')
  BY <1>1, HearingFacts
<1>3. ASSUME ~past'.failed, NEW s \in Sessions, NEW c \in cache'[s]
      PROVE  \/ \E op \in Ops(queue') : IsDelete(op, s)
             \/ saves[s] # <<>> /\ saves[s][Len(saves[s])] = c
             \/ saves[s] = <<>> /\ Conversed(disk[s].held) = c
  <2>1. ~past.failed BY <1>3 DEF Hearing
  <2> QED BY <1>1, <1>2, <1>3, <2>1 DEF StoredOK
<1>4. ASSUME ~past'.failed, NEW n \in DOMAIN queue', NEW op, op = queue'[n],
             op.kind = "save", op.result = "ok"
      PROVE  op.held = disk'[op.session].held \/ DeletedAfter(n, op.session)'
  BY <1>4, HearingStoring
<1> QED BY <1>3, <1>4 DEF StoredOK, Hearing

LEMMA HearingHistory ==
    ASSUME ContextInv, Hearing, saves' = saves,
           \A s \in Sessions \ past'.unread : \A c \in cache'[s] :
              c \in cache[s] \/ (saves[s] = <<>> /\ \A d \in disk[s].held : Extends(d, c)),
           sender'.stage = "provider" =>
              \/ sender' = sender
              \/ saves[sender'.session] = <<>> /\ disk[sender'.session].held = Nothing
    PROVE  HistoryOK'
<1>1. PageInv /\ HistoryOK /\ \A s \in Sessions : IsSeq(saves[s])
  BY QueueFacts DEF ContextInv, Shaped
<1> SUFFICES ASSUME NEW s \in Sessions \ past'.unread
             PROVE  /\ \A i \in DOMAIN saves[s] :
                          /\ \A j \in (i + 1)..Len(saves[s]) : Extends(saves[s][i], saves[s][j])
                          /\ \A c \in cache'[s] : Extends(saves[s][i], c)
                          /\ sender'.stage = "provider" /\ sender'.session = s =>
                                Extends(saves[s][i], sender'.current)
                          /\ \A d \in disk[s].held : Extends(d, saves[s][i])
                    /\ \A d \in disk[s].held :
                          /\ \A c \in cache'[s] : Extends(d, c)
                          /\ sender'.stage = "provider" /\ sender'.session = s =>
                                Extends(d, sender'.current)
  BY DEF HistoryOK, Hearing
<1>2. s \in Sessions \ past.unread BY DEF Hearing
<1>3. ASSUME NEW i \in DOMAIN saves[s]
      PROVE  /\ \A j \in (i + 1)..Len(saves[s]) : Extends(saves[s][i], saves[s][j])
             /\ \A c \in cache'[s] : Extends(saves[s][i], c)
             /\ sender'.stage = "provider" /\ sender'.session = s =>
                   Extends(saves[s][i], sender'.current)
             /\ \A d \in disk[s].held : Extends(d, saves[s][i])
  <2>1. saves[s] # <<>> BY <1>1, <1>3, SeqFacts
  <2> QED BY <1>1, <1>2, <1>3, <2>1 DEF HistoryOK
<1>4. ASSUME NEW d \in disk[s].held
      PROVE  /\ \A c \in cache'[s] : Extends(d, c)
             /\ sender'.stage = "provider" /\ sender'.session = s => Extends(d, sender'.current)
  <2>1. disk[s].held # Nothing BY <1>4 DEF Nothing
  <2> QED BY <1>1, <1>2, <1>4, <2>1 DEF HistoryOK
<1> QED BY <1>3, <1>4

LEMMA HearingCopies ==
    ASSUME ContextInv, Hearing, \A s \in Sessions : Ops(saves'[s]) \subseteq Ops(saves[s]),
           DOMAIN cache' = Sessions, \A s \in Sessions : One(cache'[s]),
           \A s \in Sessions : \A c \in cache'[s] : c \in AllCopies(s) \/ c = Empty,
           sender'.session \in Sessions =>
              sender'.current \in AllCopies(sender'.session) \cup {Empty}
    PROVE  CopiesOK'
<1>1. PageInv /\ CopiesOK BY DEF ContextInv
<1>2. \A new \in Ops(queue') : new.kind = "load" => new \in Ops(queue)
  BY <1>1, HearingFacts DEF NextSave
<1>3. ASSUME NEW s \in Sessions, NEW c \in AllCopies(s)' PROVE Sound(s, c)'
  <2>1. c \in AllCopies(s) \/ c = Empty
    <3>1. CASE c \in cache'[s] BY <3>1
    <3>2. CASE c \in disk[s].held \/ c \in Ops(saves'[s]) BY <3>2, CopyCases
    <3>3. CASE \E op \in Ops(queue') : IsLoad(op, s) /\ c \in op.held
      BY <1>2, <3>3, CopyCases DEF IsLoad
    <3>4. CASE sender'.session = s /\ c = sender'.current BY <3>4
    <3> QED BY <3>1, <3>2, <3>3, <3>4, CopyCasesAfter DEF Hearing
  <2>2. Sound(s, c)
    <3>1. CASE c \in AllCopies(s) BY <1>1, <3>1 DEF CopiesOK
    <3>2. CASE c = Empty BY <3>2, EmptyFacts DEF Sound
    <3> QED BY <2>1, <3>1, <3>2
  <2>3. sent \in Int /\ sent' = sent /\ past.unread \subseteq past'.unread
    BY <1>1 DEF CopiesOK, Hearing
  <2> QED BY <2>2, <2>3 DEF Sound
<1>4. \A op \in Ops(queue') : op.kind = "load" => One(op.held)
  BY <1>1, <1>2 DEF CopiesOK
<1>5. \A s \in Sessions : One(disk'[s].held) BY <1>1 DEF CopiesOK, Hearing
<1> QED BY <1>1, <1>3, <1>4, <1>5 DEF CopiesOK, Hearing

LEMMA HearingCreating ==
    ASSUME ContextInv, Hearing, sender'.stage = "creating" => sender' = sender,
           sender'.stage = "creating" =>
              /\ Head(queue).kind # "create" /\ ref' = ref
              /\ active' = active \/ active' \notin Sessions,
           sender'.stage = "creating" => \A s \in Sessions :
              /\ cache'[s] \in {cache[s], Nothing} \/ IsLoad(Head(queue), s)
              /\ saves[s] = <<>> => saves'[s] = <<>>
    PROVE  CreatingOK'
<1>1. PageInv /\ CreatingOK BY DEF ContextInv
<1> SUFFICES ASSUME sender'.stage = "creating", NEW s, s = sender'.session
             PROVE  /\ \E op \in Ops(queue') : op.kind = "create" /\ op.session = s
                    /\ active' # s /\ ref' # s
                    /\ cache'[s] = Nothing /\ disk'[s].held = Nothing /\ saves'[s] = <<>>
                    /\ \A op \in Ops(queue') : ~IsLoad(op, s)
  BY DEF CreatingOK
<1>2. /\ sender' = sender /\ Head(queue).kind # "create" /\ ref' = ref
      /\ active' = active \/ active' \notin Sessions
  OBVIOUS
<1>3. /\ active # s /\ ref # s /\ cache[s] = Nothing /\ disk[s].held = Nothing
      /\ saves[s] = <<>> /\ \A op \in Ops(queue) : ~IsLoad(op, s)
  BY <1>1, <1>2 DEF CreatingOK
<1>4. PICK op \in Ops(queue) : op.kind = "create" /\ op.session = s BY <1>1, <1>2 DEF CreatingOK
<1>5. s \in Sessions BY <1>1, <1>4, QueueFacts DEF WellFormed
<1>6. /\ Head(queue) \in Ops(queue)
      /\ \A o \in Ops(queue) : o = Head(queue) \/ o \in Ops(queue')
      /\ \A new \in Ops(queue') : new \in Ops(queue) \/ NextSave(new, Head(queue))
  BY <1>1, HearingFacts
<1>7. op \in Ops(queue') BY <1>2, <1>4, <1>6
<1>8. \A new \in Ops(queue') : ~IsLoad(new, s) BY <1>3, <1>6 DEF IsLoad, NextSave
<1>9. cache'[s] = Nothing /\ saves'[s] = <<>> BY <1>3, <1>5, <1>6
<1>10. active' # s BY <1>2, <1>3, <1>5
<1> QED BY <1>2, <1>3, <1>4, <1>7, <1>8, <1>9, <1>10 DEF Hearing

-----------------------------------------------------------------------------
(* What the page makes of it *)

\* The page hears of an operation, and its message goes on or ends.
LEMMA HeardKeeps ==
    ASSUME ContextInv, PageInv', Hearing, Listens, MayMove \/ sender' = Idle,
           MayMove \/ past.failed,
           Head(queue).kind \notin {"save", "load"}, Head(queue).kind = "create" => sender' = Idle,
           UNCHANGED <<ref, shown, loading, saves>>, past'.unread = past.unread,
           active' \in {active, NoSession},
           Head(queue).kind = "delete" /\ Head(queue).result = "ok" =>
              active' # Head(queue).session,
           \/ cache' = cache /\ (Head(queue).kind = "delete" => past.failed)
           \/ /\ Head(queue).kind = "delete" /\ Head(queue).result = "ok"
              /\ Head(queue).session = ref => active' = NoSession
              /\ cache' = [cache EXCEPT ![Head(queue).session] = Nothing]
    PROVE  ContextInv'
<1> DEFINE op == Head(queue)
           x == op.session
<1>1. PageInv /\ Shaped /\ CopiesOK /\ LoadsOK /\ RecordsOK /\ ScreenOK /\ NoSession \notin Sessions
  BY QueueFacts, BrowserAssumption DEF ContextInv
<1>2. x \in Sessions BY <1>1, ListensFacts
<1> HIDE DEF op
<1>3. /\ DOMAIN cache' = Sessions
      /\ \A s \in Sessions : \/ cache'[s] = cache[s] /\ (IsDelete(op, s) => past.failed)
                             \/ /\ cache'[s] = Nothing /\ IsDelete(op, s) /\ op.result = "ok"
                                /\ s = ref => active' = NoSession
  <2>1. CASE cache' = cache /\ (op.kind = "delete" => past.failed)
    BY <1>1, <2>1 DEF CopiesOK, IsDelete
  <2>2. CASE /\ op.kind = "delete" /\ op.result = "ok"
             /\ x = ref => active' = NoSession
             /\ cache' = [cache EXCEPT ![x] = Nothing]
    BY <1>1, <1>2, <2>2 DEF CopiesOK, IsDelete
  <2> QED BY <2>1, <2>2 DEF op
<1>4. \A s \in Sessions : \A c \in cache'[s] : c \in cache[s] /\ (IsDelete(op, s) => past.failed)
  BY <1>3 DEF Nothing
<1>5. /\ sender'.session \in Sessions => /\ sender'.session = sender.session
                                         /\ sender'.current = sender.current
      /\ sender'.stage \in Holding => sender.stage \in Holding /\ sender'.session = sender.session
      /\ sender'.stage = "provider" => sender' = sender
      /\ sender'.stage = "creating" => sender' = sender
  <2>1. CASE sender' = Idle BY <1>1, <2>1, IdleFacts DEF Holding
  <2>2. CASE MayMove BY <1>1, <2>2, MoveFacts DEF Holding
  <2> QED BY <2>1, <2>2
<1>6. \A s \in Sessions : SendsIn(s)' => SendsIn(s) BY <1>5 DEF SendsIn
<1>7. CopiesOK'
  <2>1. \A s \in Sessions : One(cache'[s]) BY <1>1, <1>3 DEF CopiesOK, One
  <2>2. \A s \in Sessions : \A c \in cache'[s] : c \in AllCopies(s) BY <1>4, CopyCases
  <2>3. sender'.session \in Sessions => sender'.current \in AllCopies(sender'.session)
    BY <1>5, CopyCases
  <2>4. Head(queue).kind # "save" OBVIOUS
  <2> QED BY <1>3, <2>1, <2>2, <2>3, <2>4, HearingCopies
<1>8. SavesOK' /\ FailuresOK'
  <2>1. Head(queue).kind # "save" OBVIOUS
  <2> QED BY <2>1, HearingSaves
<1>9. SenderOK'
  <2>1. PICK s : s = sender.session OBVIOUS
  <2>2. SendsIn(s) => s \in Sessions BY <1>1, <2>1 DEF SendsIn, Shaped, Holding
  <2>3. Read(s)' => Read(s) BY DEF Read, Hearing
  <2>4. Read(s)' /\ SendsIn(s) => Read(s) /\ cache'[s] \subseteq cache[s]
    BY <1>4, <2>2, <2>3
  <2>5. sent \in Int /\ sent' \in Int /\ sent <= sent' BY <1>1 DEF CopiesOK, Hearing
  <2> QED BY <2>1, <2>4, <2>5, SenderStays
<1>10. CreatingOK'
  <2>1. sender'.stage = "creating" => Head(queue).kind # "create" BY IdleFacts
  <2>2. active' = active \/ active' \notin Sessions BY <1>1
  <2>3. \A s \in Sessions : cache'[s] \in {cache[s], Nothing} BY <1>3
  <2> QED BY <1>5, <2>1, <2>2, <2>3, HearingCreating
<1>11. DeletedOK'
  <2>1. \A s \in Sessions : cache'[s] = Nothing =>
           cache[s] = Nothing \/ (IsDelete(Head(queue), s) /\ Head(queue).result = "ok")
    BY <1>3 DEF op
  <2>2. active' \in Sessions => active' = active BY <1>1
  <2> QED BY <1>6, <2>1, <2>2, HearingDeleted
<1>12. LoadsOK'
  <2>1. (active = ref /\ ref \in Sessions /\ ~loading /\ Read(ref) => cache[ref] # Nothing)'
    <3> SUFFICES ASSUME active' = ref', ref' \in Sessions, ~loading', Read(ref)'
                 PROVE  cache'[ref] # Nothing
      OBVIOUS
    <3>1. active = ref /\ ref \in Sessions /\ ~loading /\ Read(ref) /\ active' = ref
      BY <1>1 DEF Read, Hearing
    <3>2. cache'[ref] = cache[ref] BY <1>1, <1>3, <3>1
    <3> QED BY <1>1, <3>1, <3>2 DEF LoadsOK
  <2> QED BY <1>6, <2>1, HearingLoads
<1>13. HistoryOK'
  <2>1. \A s \in Sessions \ past'.unread : \A c \in cache'[s] : c \in cache[s] BY <1>4
  <2> QED BY <1>5, <2>1, HearingHistory
<1>14. StoredOK'
  <2>1. \A s \in Sessions : \A c \in cache'[s] :
           c \in cache[s] /\ (IsDelete(Head(queue), s) => past.failed)
    BY <1>4 DEF op
  <2>2. Head(queue).kind # "save" OBVIOUS
  <2> QED BY <2>1, <2>2, HearingStored
<1>15. PendingOK'
  <2>1. \A s \in Sessions : \A c \in cache'[s] : c \in cache[s] BY <1>4
  <2>2. MayMove \/ Finished(sender'.current) BY IdleFacts, EmptyFinished
  <2> QED BY <2>1, <2>2, PendingStays DEF Hearing
<1>16. ScreenOK' BY <1>1, <1>4 DEF ScreenOK
<1>17. RecordsOK'
  <2>1. active' \in Sessions => active' = active BY <1>1
  <2> QED BY <1>5, <2>1, HearingRecords
<1>18. EarlyOK'
  <2>1. active' \in Sessions => active' = active BY <1>1
  <2>2. Head(queue).kind # "load" OBVIOUS
  <2> QED BY <1>6, <2>1, <2>2, HearingEarly
<1>19. TitlesOK' BY HearingTitles
<1> QED BY <1>7, <1>8, <1>9, <1>10, <1>11, <1>12, <1>13, <1>14, <1>15, <1>16, <1>17, <1>18, <1>19
        DEF ContextInv

\* An operation that failed says so.
LEMMA HeardFacts ==
    ASSUME ContextInv, NEW kind, NEW result, Heard(kind, result)
    PROVE  /\ queue # <<>> /\ Head(queue).kind = kind /\ Head(queue).result = result
           /\ MovesUp(queue, Tail(queue)) /\ disk' = disk /\ sent' = sent
           /\ Head(queue) = queue[1] /\ 1 \in DOMAIN queue
           /\ Head(queue) \in Ops(queue) /\ WellFormed(Head(queue)) /\ Linked(Head(queue))
           /\ result = "failed" => past.failed
<1>1. /\ queue # <<>> /\ Head(queue).kind = kind /\ Head(queue).result = result
      /\ disk' = disk /\ sent' = sent
  BY DEF Heard
<1>2. PageInv /\ FailuresOK /\ IsSeq(queue) BY QueueFacts DEF ContextInv
<1>3. Head(queue) = queue[1] /\ 1 \in DOMAIN queue BY <1>1, <1>2, TailFacts
<1>4. Head(queue) \in Ops(queue) BY <1>3 DEF Ops
<1>5. WellFormed(Head(queue)) /\ Linked(Head(queue)) BY <1>2, <1>4, QueueFacts
<1>6. MovesUp(queue, Tail(queue)) BY <1>1, <1>2, TailMovesUp
<1> QED BY <1>1, <1>2, <1>3, <1>4, <1>5, <1>6 DEF FailuresOK

\* What the page notes of an early change.
LEMMA EarlyNotes ==
    ASSUME Shaped, NEW s, past' = Early(s) \/ past' = Erased(s)
    PROVE  /\ past'.failed = past.failed /\ past'.before = past.before
           /\ past'.deleted = past.deleted /\ past'.unread = past.unread
           /\ past.early \subseteq past'.early
           /\ boot.stage = "waiting" => s \in past'.early
<1>1. CASE past' = Early(s) BY <1>1 DEF Early, Shaped
<1>2. CASE past' = Erased(s)
  <2>1. PICK p : p = Early(s) OBVIOUS
  <2>2. /\ DOMAIN p = DOMAIN past /\ p.failed = past.failed /\ p.before = past.before
        /\ p.deleted = past.deleted /\ p.unread = past.unread /\ past.early \subseteq p.early
        /\ boot.stage = "waiting" => s \in p.early
    BY <2>1 DEF Early, Shaped
  <2>3. past' = p \/ past' = [p EXCEPT !.erased = @ \cup {s}] BY <1>2, <2>1 DEF Erased
  <2> QED BY <2>2, <2>3 DEF Shaped
<1> QED BY <1>1, <1>2

LEMMA RenamedInv == ASSUME ContextInv, PageInv', Renamed PROVE ContextInv'
<1>1. PICK op : op = Head(queue) OBVIOUS
<1>2. PICK result \in {"ok", "failed"} :
         /\ Heard("rename", result) /\ queue' = Tail(queue)
         /\ list' = IF result = "ok" THEN Listed(op.session, op.title) ELSE list
         /\ past' = Early(op.session)
         /\ UNCHANGED <<boot, active, ref, shown, loading, cache, saves, sender>>
  BY <1>1 DEF Renamed, Pops
<1>3. /\ op.kind = "rename" /\ op.result = result /\ MovesUp(queue, queue')
      /\ disk' = disk /\ sent' = sent /\ result = "failed" => past.failed
  BY <1>1, <1>2, HeardFacts
<1>4. Shaped BY QueueFacts DEF ContextInv
<1>5. /\ past'.failed = past.failed /\ past'.before = past.before
      /\ past'.deleted = past.deleted /\ past'.unread = past.unread
      /\ past.early \subseteq past'.early
      /\ boot.stage = "waiting" => op.session \in past'.early
  BY <1>2, <1>4, EarlyNotes
<1>6. Hearing BY <1>1, <1>2, <1>3, <1>5, HeardFacts DEF Hearing
<1>7. Listens BY <1>1, <1>2, <1>3, <1>5, HeardFacts DEF Listens, Changes
<1>8. MayMove BY <1>2 DEF MayMove
<1> QED BY <1>1, <1>2, <1>3, <1>5, <1>6, <1>7, <1>8, HeardFacts, HeardKeeps

LEMMA DeleteFailsInv == ASSUME ContextInv, PageInv', DeleteFails PROVE ContextInv'
<1>1. /\ Heard("delete", "failed") /\ queue' = Tail(queue)
      /\ UNCHANGED <<boot, list, active, ref, shown, loading, cache, saves, sender, past>>
  BY DEF DeleteFails, Pops, page
<1>2. /\ Head(queue).kind = "delete" /\ Head(queue).result = "failed" /\ past.failed
      /\ MovesUp(queue, queue') /\ disk' = disk /\ sent' = sent
  BY <1>1, HeardFacts
<1>3. Hearing BY <1>1, <1>2 DEF Hearing
<1>4. Listens BY <1>1, <1>2 DEF Listens
<1>5. MayMove BY <1>1 DEF MayMove
<1> QED BY <1>1, <1>2, <1>3, <1>4, <1>5, HeardKeeps

\* Creating the session failed, or naming it: the message is not sent.
LEMMA SendingFailsInv ==
    ASSUME ContextInv, PageInv', CreateFails \/ NamingFails
    PROVE  ContextInv'
<1>1. /\ Heard("create", "failed") \/ Heard("name", "failed")
      /\ queue' = Tail(queue) /\ sender' = Idle
      /\ UNCHANGED <<boot, list, active, ref, shown, loading, cache, saves, past>>
  BY DEF CreateFails, NamingFails, Pops
<1>2. /\ Head(queue).kind \in {"create", "name"} /\ Head(queue).result = "failed" /\ past.failed
      /\ MovesUp(queue, queue') /\ disk' = disk /\ sent' = sent
  BY <1>1, HeardFacts
<1>3. Hearing BY <1>1, <1>2 DEF Hearing
<1>4. Listens BY <1>1, <1>2 DEF Listens
<1> QED BY <1>1, <1>2, <1>3, <1>4, HeardKeeps

LEMMA NamedInv == ASSUME ContextInv, PageInv', Named PROVE ContextInv'
<1>1. PICK op : op = Head(queue) OBVIOUS
<1>2. /\ Heard("name", "ok") /\ queue' = Tail(queue)
      /\ list' = Listed(op.session, op.title) /\ past' = Early(op.session)
      /\ sender' = [sender EXCEPT !.stage = "streaming"]
      /\ UNCHANGED <<boot, active, ref, shown, loading, cache, saves>>
  BY <1>1 DEF Named, Pops
<1>3. /\ op.kind = "name" /\ op.result = "ok" /\ MovesUp(queue, queue')
      /\ disk' = disk /\ sent' = sent /\ Linked(op)
  BY <1>1, <1>2, HeardFacts
<1>4. Shaped BY QueueFacts DEF ContextInv
<1>5. /\ past'.failed = past.failed /\ past'.before = past.before
      /\ past'.deleted = past.deleted /\ past'.unread = past.unread
      /\ past.early \subseteq past'.early
      /\ boot.stage = "waiting" => op.session \in past'.early
  BY <1>2, <1>4, EarlyNotes
<1>6. Hearing BY <1>1, <1>2, <1>3, <1>5 DEF Hearing
<1>7. Listens BY <1>1, <1>2, <1>3, <1>5 DEF Listens, Changes
<1>8. MayMove BY <1>2, <1>3 DEF MayMove, Linked
<1> QED BY <1>1, <1>2, <1>3, <1>5, <1>6, <1>7, <1>8, HeardKeeps

LEMMA DeletedInv == ASSUME ContextInv, PageInv', Deleted PROVE ContextInv'
<1>1. PICK op : op = Head(queue) OBVIOUS
<1>2. PICK s : s = op.session OBVIOUS
<1>3. /\ Heard("delete", "ok") /\ queue' = Tail(queue)
      /\ cache' = [cache EXCEPT ![s] = Nothing] /\ list' = [list EXCEPT ![s] = NoTitle]
      /\ \/ s = ref /\ MayMove /\ active' = NoSession
         \/ s # ref /\ UNCHANGED <<sender, active>>
      /\ past' = Erased(s)
      /\ UNCHANGED <<boot, ref, shown, loading, saves>>
  BY <1>1, <1>2 DEF Deleted, Pops, StopIf, MayMove
<1>4. /\ op.kind = "delete" /\ op.result = "ok" /\ MovesUp(queue, queue')
      /\ disk' = disk /\ sent' = sent /\ Linked(op) /\ WellFormed(op)
  BY <1>1, <1>3, HeardFacts
<1>5. Shaped /\ NoSession \notin Sessions BY QueueFacts, BrowserAssumption DEF ContextInv
<1>6. /\ past'.failed = past.failed /\ past'.before = past.before
      /\ past'.deleted = past.deleted /\ past'.unread = past.unread
      /\ past.early \subseteq past'.early
      /\ boot.stage = "waiting" => s \in past'.early
  BY <1>3, <1>5, EarlyNotes
<1>7. Hearing BY <1>1, <1>3, <1>4, <1>6 DEF Hearing
<1>8. Listens BY <1>1, <1>2, <1>3, <1>4, <1>6 DEF Listens
<1>9. MayMove BY <1>3 DEF MayMove
<1>10. s \in Sessions /\ (active = s => ref = s) BY <1>2, <1>4 DEF WellFormed, Linked
<1>11. active' \in {active, NoSession} /\ active' # s BY <1>3, <1>5, <1>10
<1> QED BY <1>1, <1>2, <1>3, <1>4, <1>6, <1>7, <1>8, <1>9, <1>11, HeardKeeps

\* What is common to the ends of a load.
LEMMA LoadEnds ==
    ASSUME ContextInv, Hearing, Head(queue).kind = "load",
           UNCHANGED <<boot, list, active, ref, saves, sender>>
    PROVE  /\ Listens /\ SavesOK' /\ FailuresOK' /\ RecordsOK' /\ EarlyOK' /\ TitlesOK'
           /\ MayMove /\ ref \in Sessions \cup {NoSession} /\ \A s \in Sessions : SendsIn(s)' => SendsIn(s)
<1>1. Listens BY DEF Listens
<1>2. Head(queue).kind # "save" OBVIOUS
<1>3. SavesOK' /\ FailuresOK' BY <1>2, HearingSaves
<1>4. \A s : SendsIn(s)' => SendsIn(s) BY DEF SendsIn
<1>5. EarlyOK' /\ TitlesOK' BY <1>1, <1>4, HearingEarly, HearingTitles
<1>6. active' \in Sessions => active' = active \/ Recorded(active') OBVIOUS
<1>7. RecordsOK'
  <2>1. sender'.stage \in Holding => sender.stage \in Holding /\ sender'.session = sender.session
    OBVIOUS
  <2> QED BY <1>6, <2>1, HearingRecords
<1>8. MayMove BY DEF MayMove
<1>9. ref \in Sessions \cup {NoSession} BY QueueFacts DEF ContextInv, Shaped
<1> QED BY <1>1, <1>3, <1>4, <1>5, <1>7, <1>8, <1>9

LEMMA LoadFailsInv == ASSUME ContextInv, PageInv', LoadFails PROVE ContextInv'
<1>1. PICK op : op = Head(queue) OBVIOUS
<1>2. /\ Heard("load", "failed") /\ queue' = Tail(queue)
      /\ \/ /\ op.alive /\ loading' = FALSE
            /\ past' = [past EXCEPT !.unread = @ \cup {op.session}]
         \/ ~op.alive /\ UNCHANGED <<loading, past>>
      /\ UNCHANGED <<boot, list, active, ref, shown, cache, saves, sender>>
  BY <1>1 DEF LoadFails, Pops
<1>3. /\ op.kind = "load" /\ op.result = "failed" /\ MovesUp(queue, queue')
      /\ disk' = disk /\ sent' = sent /\ past.failed /\ op = queue[1] /\ 1 \in DOMAIN queue
  BY <1>1, <1>2, HeardFacts
<1>4. PageInv /\ Shaped /\ CopiesOK /\ LoadsOK /\ ScreenOK BY QueueFacts DEF ContextInv
<1>5. /\ past'.failed = past.failed /\ past'.before = past.before
      /\ past'.deleted = past.deleted /\ past.unread \subseteq past'.unread
      /\ past.early \subseteq past'.early
      /\ op.alive => op.session \in past'.unread
  BY <1>2, <1>4 DEF Shaped
<1>6. Hearing BY <1>1, <1>2, <1>3, <1>5 DEF Hearing
<1>7. /\ Listens /\ SavesOK' /\ FailuresOK' /\ RecordsOK' /\ EarlyOK' /\ TitlesOK'
      /\ MayMove /\ \A s \in Sessions : SendsIn(s)' => SendsIn(s)
  BY <1>1, <1>2, <1>3, <1>6, LoadEnds
<1>8. Head(queue).kind = "load" /\ Head(queue).kind # "save" BY <1>1, <1>3
<1>9. CopiesOK'
  <2>1. sender'.session \in Sessions => sender'.current \in AllCopies(sender'.session)
    BY <1>2, CopyCases
  <2>2. \A s \in Sessions : \A c \in cache'[s] : c \in AllCopies(s) BY <1>2, CopyCases
  <2> QED BY <1>2, <1>4, <1>6, <1>8, <2>1, <2>2, HearingCopies DEF CopiesOK
<1>10. SenderOK'
  <2>1. PICK s : s = sender.session OBVIOUS
  <2>2. Read(s)' => Read(s) BY <1>6 DEF Read, Hearing
  <2>3. sent \in Int /\ sent' \in Int /\ sent <= sent' BY <1>3, <1>4 DEF CopiesOK
  <2> QED BY <1>2, <1>7, <2>1, <2>2, <2>3, SenderStays
<1>11. CreatingOK'
  <2>1. Head(queue).kind # "create" BY <1>8
  <2> QED BY <1>2, <1>6, <2>1, HearingCreating
<1>12. DeletedOK'
  <2>1. Head(queue).kind # "delete" BY <1>8
  <2> QED BY <1>2, <1>6, <1>7, <2>1, HearingDeleted
<1>13. LoadsOK'
  <2>1. (active = ref /\ ref \in Sessions /\ ~loading /\ Read(ref) => cache[ref] # Nothing)'
    <3>1. CASE op.alive
      <4>1. Awaited(1) BY <1>3, <3>1 DEF Awaited
      <4>2. op.session = ref BY <1>3, <1>4, <4>1 DEF LoadsOK
      <4>3. ~Read(ref)' BY <1>2, <1>3, <1>5, <3>1, <4>2 DEF Read
      <4> QED BY <4>3
    <3>2. CASE ~op.alive BY <1>2, <1>4, <3>2 DEF LoadsOK, Read
    <3> QED BY <3>1, <3>2
  <2>2. Awaited(1) \/ loading' = loading BY <1>2, <1>3 DEF Awaited
  <2> QED BY <1>2, <1>6, <1>7, <2>1, <2>2, HearingLoads
<1>14. HistoryOK' BY <1>2, <1>6, HearingHistory
<1>15. StoredOK'
  <2>1. \A s \in Sessions : \A c \in cache'[s] : c \in cache[s] /\ ~IsDelete(Head(queue), s)
    BY <1>2, <1>8 DEF IsDelete
  <2> QED BY <1>2, <1>6, <1>8, <2>1, HearingStored
<1>16. PendingOK' BY <1>2, <1>6, <1>7, PendingStays DEF Hearing
<1>17. ScreenOK' BY <1>2, <1>4 DEF ScreenOK
<1> QED BY <1>7, <1>9, <1>10, <1>11, <1>12, <1>13, <1>14, <1>15, <1>16, <1>17 DEF ContextInv

LEMMA LoadedInv == ASSUME ContextInv, PageInv', Loaded PROVE ContextInv'
<1>1. PICK op : op = Head(queue) OBVIOUS
<1>2. PICK x : x = op.session OBVIOUS
<1>3. PICK c : c = Conversed(op.held) OBVIOUS
<1>4. /\ Heard("load", "ok") /\ queue' = Tail(queue)
      /\ \/ /\ op.alive /\ loading' = FALSE /\ shown' = c.timeline
            /\ cache' = [cache EXCEPT ![x] = {c}]
         \/ ~op.alive /\ UNCHANGED <<cache, shown, loading>>
      /\ UNCHANGED <<boot, list, active, ref, saves, sender, past>>
  BY <1>1, <1>2, <1>3 DEF Loaded, Pops
<1>5. /\ op.kind = "load" /\ op.result = "ok" /\ MovesUp(queue, queue') /\ op \in Ops(queue)
      /\ disk' = disk /\ sent' = sent /\ op = queue[1] /\ 1 \in DOMAIN queue /\ WellFormed(op)
  BY <1>1, <1>4, HeardFacts
<1>6. /\ PageInv /\ Shaped /\ CopiesOK /\ LoadsOK /\ ScreenOK /\ StoredOK /\ One(op.held)
      /\ x \in Sessions /\ DOMAIN cache = Sessions /\ NoSession \notin Sessions
  BY <1>2, <1>5, QueueFacts, BrowserAssumption DEF ContextInv, CopiesOK, WellFormed
<1>7. Hearing BY <1>1, <1>4, <1>5 DEF Hearing
<1>8. /\ Listens /\ SavesOK' /\ FailuresOK' /\ RecordsOK' /\ EarlyOK' /\ TitlesOK'
      /\ MayMove /\ \A s \in Sessions : SendsIn(s)' => SendsIn(s)
  BY <1>1, <1>4, <1>5, <1>7, LoadEnds
<1>9. Head(queue).kind = "load" /\ Head(queue).kind # "save" BY <1>1, <1>5
<1>10. op.held = {c} \/ (op.held = Nothing /\ c = Empty)
  BY <1>3, <1>6, HeldFacts
<1>11. op.alive =>
          /\ x = ref /\ loading
          /\ Read(x) => /\ OnlyStored(x) /\ \A d \in op.held : Upto(d, past.before)
                        /\ op.held = disk[x].held \/ (disk[x].held = Nothing /\ DeletedAfter(1, x))
  <2>1. op.alive => Awaited(1) BY <1>5 DEF Awaited
  <2> QED BY <1>2, <1>5, <1>6, <2>1 DEF LoadsOK
<1>12. \A s \in Sessions : \A d \in cache'[s] :
           d \in cache[s] \/ (op.alive /\ s = x /\ d = c)
  BY <1>4, <1>6
<1>13. \A s \in Sessions : cache'[s] = cache[s] \/ (op.alive /\ s = x /\ cache'[s] = {c})
  BY <1>4, <1>6
<1>14. CopiesOK'
  <2>1. sender'.session \in Sessions => sender'.current \in AllCopies(sender'.session)
    BY <1>4, CopyCases
  <2>2. c \in AllCopies(x) \/ c = Empty BY <1>2, <1>5, <1>10, CopyCases DEF IsLoad
  <2>3. \A s \in Sessions : \A d \in cache'[s] : d \in AllCopies(s) \/ d = Empty
    BY <1>12, <2>2, CopyCases
  <2>4. DOMAIN cache' = Sessions BY <1>4, <1>6
  <2>5. \A s \in Sessions : One(cache'[s]) BY <1>6, <1>13 DEF One, CopiesOK
  <2> QED BY <1>4, <1>7, <1>9, <2>1, <2>3, <2>4, <2>5, HearingCopies
<1>15. SenderOK'
  <2>1. PICK s : s = sender.session OBVIOUS
  <2>2. Read(s)' => Read(s) BY <1>4 DEF Read
  <2>3. sent \in Int /\ sent' \in Int /\ sent <= sent' BY <1>5, <1>6 DEF CopiesOK
  <2>4. SendsIn(s) => s \in Sessions BY <1>6, <2>1 DEF SendsIn, Shaped, Holding
  <2>5. SendsIn(s) /\ Read(s) => cache'[s] = cache[s]
    BY <1>11, <1>13, <2>4 DEF OnlyStored
  <2> QED BY <1>8, <2>1, <2>2, <2>3, <2>5, SenderStays
<1>16. CreatingOK'
  <2>1. Head(queue).kind # "create" BY <1>9
  <2>2. \A s \in Sessions : cache'[s] = cache[s] \/ IsLoad(Head(queue), s)
    BY <1>1, <1>2, <1>5, <1>13 DEF IsLoad
  <2> QED BY <1>4, <1>7, <2>1, <2>2, HearingCreating
<1>17. DeletedOK'
  <2>1. Head(queue).kind # "delete" BY <1>9
  <2>2. \A s \in Sessions : cache'[s] = Nothing => cache[s] = Nothing BY <1>13 DEF Nothing
  <2> QED BY <1>4, <1>7, <1>8, <2>1, <2>2, HearingDeleted
<1>18. LoadsOK'
  <2>1. (active = ref /\ ref \in Sessions /\ ~loading /\ Read(ref) => cache[ref] # Nothing)'
    <3>1. CASE op.alive
      <4>1. cache'[ref] = {c} BY <1>4, <1>6, <1>11, <3>1
      <4> QED BY <1>4, <4>1 DEF Nothing
    <3>2. CASE ~op.alive BY <1>4, <1>6, <3>2 DEF LoadsOK, Read
    <3> QED BY <3>1, <3>2
  <2>2. Awaited(1) \/ loading' = loading BY <1>4, <1>5 DEF Awaited
  <2> QED BY <1>4, <1>7, <1>8, <2>1, <2>2, HearingLoads
<1>19. c \in Conversations
  <2>1. CASE op.held = {c}
    <3>1. c \in AllCopies(x) BY <1>2, <1>5, <2>1, CopyCases DEF IsLoad
    <3> QED BY <1>6, <3>1 DEF CopiesOK, Sound
  <2> QED BY <1>10, <2>1, EmptyFacts
<1>20. HistoryOK'
  <2>1. ASSUME NEW s \in Sessions \ past'.unread, NEW d \in cache'[s]
        PROVE  d \in cache[s] \/ (saves[s] = <<>> /\ \A e \in disk[s].held : Extends(e, d))
    <3>1. CASE op.alive /\ s = x /\ d = c
      <4>1. Read(x) BY <1>4, <2>1, <3>1 DEF Read
      <4>2. saves[s] = <<>> BY <1>11, <3>1, <4>1 DEF OnlyStored
      <4>3. \A e \in disk[s].held : e = c BY <1>10, <1>11, <3>1, <4>1 DEF Nothing
      <4>4. Extends(c, c) BY <1>19, ExtendsItself
      <4> QED BY <3>1, <4>2, <4>3, <4>4
    <3> QED BY <1>12, <2>1, <3>1
  <2> QED BY <1>4, <1>7, <2>1, HearingHistory
<1>21. StoredOK'
  <2>1. ASSUME NEW s \in Sessions, NEW d \in cache'[s], ~past.failed
        PROVE  \/ d \in cache[s]
               \/ saves[s] = <<>> /\ Conversed(disk[s].held) = d
               \/ \E new \in Ops(queue') : IsDelete(new, s)
    <3>1. CASE op.alive /\ s = x /\ d = c
      <4>1. Read(x) BY <2>1 DEF Read
      <4>2. CASE op.held = disk[x].held
        BY <1>3, <1>11, <3>1, <4>1, <4>2 DEF OnlyStored
      <4>3. CASE DeletedAfter(1, x)
        <5>1. PICK m \in (1 + 1)..Len(queue) : IsDelete(queue[m], x) BY <4>3 DEF DeletedAfter
        <5>2. m \in DOMAIN queue /\ m # 1 BY <1>6, <5>1, QueueFacts
        <5>3. queue[m] \in Ops(queue') BY <1>5, <5>2 DEF MovesUp, Ops
        <5> QED BY <3>1, <5>1, <5>3
      <4> QED BY <1>11, <3>1, <4>1, <4>2, <4>3
    <3> QED BY <1>12, <2>1, <3>1
  <2>2. \A s : ~IsDelete(Head(queue), s) BY <1>9 DEF IsDelete
  <2>3. \A s \in Sessions : \A d \in cache'[s] :
           \/ d \in cache[s] /\ (IsDelete(Head(queue), s) => past.failed)
           \/ saves[s] = <<>> /\ Conversed(disk[s].held) = d
           \/ \E new \in Ops(queue') : IsDelete(new, s)
           \/ past.failed
    BY <2>1, <2>2
  <2> QED BY <1>4, <1>7, <1>9, <2>3, HearingStored
<1>22. PendingOK'
  <2>1. ASSUME NEW s \in Sessions, NEW d \in cache'[s], ~past'.failed
        PROVE  d \in cache[s] \/ Upto(d, past.before)
    <3>1. CASE op.alive /\ s = x /\ d = c
      <4>1. Read(x) BY <1>4, <2>1 DEF Read
      <4>2. Upto(c, past.before) BY <1>10, <1>11, <3>1, <4>1, EmptyFacts
      <4> QED BY <3>1, <4>2
    <3> QED BY <1>12, <2>1, <3>1
  <2> QED BY <1>4, <1>8, <2>1, PendingStays
<1>23. ScreenOK'
  <2>1. CASE op.alive BY <1>4, <1>6, <1>11, <2>1 DEF ScreenOK
  <2>2. CASE ~op.alive BY <1>4, <1>6, <2>2 DEF ScreenOK
  <2> QED BY <2>1, <2>2
<1> QED BY <1>8, <1>14, <1>15, <1>16, <1>17, <1>18, <1>20, <1>21, <1>22, <1>23 DEF ContextInv

LEMMA CreatedInv == ASSUME ContextInv, PageInv', Created PROVE ContextInv'
<1>1. PICK op : op = Head(queue) OBVIOUS
<1>2. PICK x : x = op.session OBVIOUS
<1>3. /\ Heard("create", "ok") /\ queue' = Tail(queue)
      /\ cache' = [cache EXCEPT ![x] = {Empty}] /\ list' = Listed(x, op.title) /\ active' = x
      /\ past' = Early(x) /\ UNCHANGED <<boot, ref, shown, loading, saves>>
      /\ sender'.stage = "provider" /\ sender'.session = x /\ sender'.current = Empty
      /\ sender'.request = sent' /\ sender'.got = "nothing"
  BY <1>1, <1>2 DEF Created, Pops, Prepare, Idle
<1>4. /\ op.kind = "create" /\ op.result = "ok" /\ MovesUp(queue, queue') /\ op \in Ops(queue)
      /\ disk' = disk /\ sent' = sent /\ op = queue[1] /\ 1 \in DOMAIN queue
      /\ WellFormed(op) /\ Linked(op)
  BY <1>1, <1>3, HeardFacts
<1>5. /\ PageInv /\ Shaped /\ CopiesOK /\ LoadsOK /\ ScreenOK /\ CreatingOK /\ RecordsOK
      /\ x \in Sessions /\ DOMAIN cache = Sessions /\ sent \in Int
  BY <1>2, <1>4, QueueFacts DEF ContextInv, CopiesOK, WellFormed
<1>6. /\ past'.failed = past.failed /\ past'.before = past.before
      /\ past'.deleted = past.deleted /\ past'.unread = past.unread
      /\ past.early \subseteq past'.early
      /\ boot.stage = "waiting" => x \in past'.early
  BY <1>3, <1>5, EarlyNotes
<1>7. Hearing BY <1>1, <1>3, <1>4, <1>6 DEF Hearing
<1>8. Listens BY <1>1, <1>2, <1>3, <1>4, <1>6 DEF Listens, Changes
<1>9. sender.stage = "creating" /\ sender.session = x BY <1>2, <1>4 DEF Linked
<1>10. /\ active # x /\ ref # x /\ cache[x] = Nothing /\ disk[x].held = Nothing
       /\ saves[x] = <<>> /\ \A o \in Ops(queue) : ~IsLoad(o, x)
  BY <1>5, <1>9 DEF CreatingOK
<1>11. Recorded(x) BY <1>2, <1>4, <1>5 DEF RecordsOK
<1>12. /\ Head(queue).kind # "save" /\ Head(queue).kind # "load" /\ Head(queue).kind # "delete"
       /\ Head(queue).kind = "create" /\ Head(queue).session = x
  BY <1>1, <1>2, <1>4
<1>13. /\ cache'[x] = {Empty} /\ DOMAIN cache' = Sessions
       /\ \A s \in Sessions : s # x => cache'[s] = cache[s]
  BY <1>3, <1>5
<1>14. \A s \in Sessions : \A c \in cache'[s] : c \in cache[s] \/ (s = x /\ c = Empty)
  BY <1>13
<1>15. \A s \in Sessions : SendsIn(s)' => s = x BY <1>3 DEF SendsIn
<1>16. CopiesOK'
  <2>1. \A s \in Sessions : One(cache'[s]) BY <1>5, <1>13 DEF One, CopiesOK
  <2>2. \A s \in Sessions : \A c \in cache'[s] : c \in AllCopies(s) \/ c = Empty
    BY <1>14, CopyCases
  <2> QED BY <1>3, <1>7, <1>12, <1>13, <2>1, <2>2, HearingCopies
<1>17. SavesOK' /\ FailuresOK' BY <1>3, <1>7, <1>12, HearingSaves
<1>18. SenderOK'
  <2>1. \A c \in cache'[x] : c = Empty BY <1>13
  <2>2. DOMAIN Empty.timeline = {} BY EmptyFacts
  <2> QED BY <1>3, <1>4, <1>5, <2>1, <2>2 DEF SenderOK, Holding
<1>19. CreatingOK' BY <1>3 DEF CreatingOK
<1>20. DeletedOK'
  <2>1. \A s \in Sessions : SendsIn(s)' => cache'[s] # Nothing BY <1>13, <1>15 DEF Nothing
  <2>2. \A s \in Sessions : cache'[s] = Nothing => cache[s] = Nothing BY <1>13 DEF Nothing
  <2> QED BY <1>3, <1>7, <1>8, <1>12, <2>1, <2>2, HearingDeleted
<1>21. LoadsOK'
  <2>1. (active = ref /\ ref \in Sessions /\ ~loading /\ Read(ref) => cache[ref] # Nothing)'
    BY <1>3, <1>10
  <2> QED BY <1>3, <1>7, <1>10, <1>15, <2>1, HearingLoads
<1>22. HistoryOK'
  <2>1. \A d \in disk[x].held : FALSE BY <1>10 DEF Nothing
  <2>2. \A s \in Sessions \ past'.unread : \A c \in cache'[s] :
           c \in cache[s] \/ (saves[s] = <<>> /\ \A d \in disk[s].held : Extends(d, c))
    BY <1>10, <1>14, <2>1
  <2>3. sender'.stage = "provider" =>
           saves[sender'.session] = <<>> /\ disk[sender'.session].held = Nothing
    BY <1>3, <1>4, <1>10
  <2> QED BY <1>3, <1>4, <1>7, <2>2, <2>3, HearingHistory
<1>23. StoredOK'
  <2>1. Conversed(disk[x].held) = Empty BY <1>10 DEF Conversed
  <2>2. \A s : ~IsDelete(Head(queue), s) BY <1>12 DEF IsDelete
  <2>3. \A s \in Sessions : \A c \in cache'[s] :
           \/ c \in cache[s] /\ (IsDelete(Head(queue), s) => past.failed)
           \/ saves[s] = <<>> /\ Conversed(disk[s].held) = c
    BY <1>10, <1>14, <2>1, <2>2
  <2> QED BY <1>3, <1>7, <1>12, <2>3, HearingStored
<1>24. PendingOK'
  <2>1. \A s \in Sessions : \A c \in cache'[s] : c \in cache[s] \/ Upto(c, past.before)
    BY <1>14, EmptyFacts
  <2>2. sender.stage \notin Replying BY <1>9 DEF Replying
  <2>3. Finished(sender'.current) BY <1>3, EmptyFinished
  <2> QED BY <1>6, <2>1, <2>2, <2>3, PendingStays
<1>25. ScreenOK' BY <1>3, <1>5, <1>10, <1>13 DEF ScreenOK
<1>26. RecordsOK' BY <1>3, <1>7, <1>11, HearingRecords
<1>27. EarlyOK'
  <2>1. active' \in Sessions => active' = Head(queue).session BY <1>3, <1>12
  <2> QED BY <1>3, <1>7, <1>8, <1>12, <1>15, <2>1, HearingEarly
<1>28. TitlesOK' BY <1>7, <1>8, HearingTitles
<1> QED BY <1>16, <1>17, <1>18, <1>19, <1>20, <1>21, <1>22, <1>23, <1>24, <1>25, <1>26, <1>27, <1>28
        DEF ContextInv

-----------------------------------------------------------------------------
(* The sidebar *)

LEMMA FillInv == ASSUME ContextInv, PageInv', Fill("ok") \/ Fill("failed") PROVE ContextInv'
<1>1. PICK op : op = Head(queue) OBVIOUS
<1>2. PICK result \in {"ok", "failed"} :
         /\ Heard("list", result) /\ queue' = Tail(queue)
         /\ boot' = IF result = "ok" THEN [stage |-> "waiting", titles |-> op.titles]
                    ELSE [stage |-> "done", titles |-> <<>>]
         /\ UNCHANGED <<list, active, ref, shown, loading, cache, saves, sender, past>>
  BY <1>1 DEF Fill, Pops
<1>3. /\ op.kind = "list" /\ op.result = result /\ MovesUp(queue, queue') /\ op \in Ops(queue)
      /\ disk' = disk /\ sent' = sent /\ op = queue[1] /\ 1 \in DOMAIN queue
      /\ WellFormed(op) /\ Linked(op)
  BY <1>1, <1>2, HeardFacts
<1>4. /\ PageInv /\ Shaped /\ CopiesOK /\ LoadsOK /\ ScreenOK /\ CreatingOK /\ RecordsOK /\ BootOK
      /\ SenderOK /\ DeletedOK /\ HistoryOK /\ TitlesOK /\ sent \in Int /\ NoSession \notin Sessions
  BY QueueFacts, BrowserAssumption DEF ContextInv, CopiesOK, PageInv, PageOK
<1>5. result = "failed" => past.failed BY <1>1, <1>2, HeardFacts
<1>6. boot.stage = "listing" BY <1>3 DEF Linked
<1>7. /\ Len(queue) = 1 /\ sender = Idle /\ \A s \in Sessions : ~Touched(s)
  BY <1>4, <1>6 DEF BootOK
<1>8. \A s \in Sessions : /\ list[s] = NoTitle /\ sender.session # s /\ saves[s] = <<>>
                          /\ active # s /\ ref # s
  BY <1>7 DEF Touched
<1>9. Hearing BY <1>1, <1>2, <1>3 DEF Hearing
<1>10. queue' = <<>> /\ Ops(queue') = {} /\ DOMAIN queue' = {}
  <2>1. queue # <<>> /\ IsSeq(queue) BY <1>2, <1>4, QueueFacts DEF Heard
  <2>2. IsSeq(queue') /\ Len(queue') = 0 BY <1>2, <1>7, <2>1, TailFacts
  <2>3. queue' = <<>> BY <2>2, SeqFacts
  <2> QED BY <2>3 DEF Ops
<1>11. MayMove BY <1>2 DEF MayMove
<1>12. Head(queue).kind = "list" /\ Head(queue).kind # "save" /\ Head(queue).kind # "create"
  BY <1>1, <1>3
<1>13. \A s \in Sessions : ~SendsIn(s)' BY <1>2, <1>8 DEF SendsIn
<1>14. CopiesOK'
  <2>1. sender'.session \in Sessions => sender'.current \in AllCopies(sender'.session)
    BY <1>2, CopyCases
  <2>2. \A s \in Sessions : \A c \in cache'[s] : c \in AllCopies(s) BY <1>2, CopyCases
  <2> QED BY <1>2, <1>4, <1>9, <1>12, <2>1, <2>2, HearingCopies DEF CopiesOK
<1>15. SavesOK' /\ FailuresOK' BY <1>2, <1>9, <1>12, HearingSaves
<1>16. SenderOK'
  <2>1. PICK s : s = sender.session OBVIOUS
  <2>2. sent' \in Int /\ sent <= sent' BY <1>3, <1>4
  <2>3. ~SendsIn(s) BY <1>7, IdleFacts DEF SendsIn, Holding
  <2> QED BY <1>4, <1>11, <2>1, <2>2, <2>3, SenderStays
<1>17. CreatingOK' BY <1>2, <1>7, IdleFacts DEF CreatingOK
<1>18. \A s \in past.deleted : disk[s].title = NoTitle BY <1>4 DEF DeletedOK
<1>19. result = "ok" => op.titles = Titles BY <1>3, <1>4 DEF TitlesOK
<1>20. boot'.stage \in {"waiting", "done"} BY <1>2
<1>21. boot'.stage = "waiting" => result = "ok" /\ boot'.titles = Titles BY <1>2, <1>19
<1>22. ASSUME boot'.stage = "waiting", NEW s \in Sessions PROVE boot'.titles[s] = disk[s].title
  BY <1>21, <1>22 DEF Titles
<1>23. boot'.stage # "waiting" => past.failed BY <1>2, <1>5
<1>24. DeletedOK'
  <2>1. ASSUME NEW s \in Sessions, Gone(s) PROVE Gone(s)'
    BY <1>2, <1>8, <1>10, <1>18, <1>22, <2>1 DEF Gone
  <2>2. ASSUME NEW s \in Sessions, OnlyStored(s) PROVE OnlyStored(s)'
    BY <1>2, <1>3, <1>13, <2>2 DEF OnlyStored
  <2>3. \A s \in Sessions : Read(s)' /\ cache'[s] = Nothing => Gone(s)' \/ OnlyStored(s)'
    BY <1>2, <1>4, <2>1, <2>2 DEF DeletedOK, Read
  <2> QED BY <1>2, <1>3, <1>10, <1>18, <2>3 DEF DeletedOK
<1>25. LoadsOK'
  <2>1. (active = ref /\ ref \in Sessions /\ ~loading /\ Read(ref) => cache[ref] # Nothing)'
    BY <1>2, <1>8
  <2> QED BY <1>2, <1>9, <1>13, <2>1, HearingLoads
<1>26. HistoryOK' BY <1>2, <1>9, HearingHistory
<1>27. StoredOK'
  <2>1. \A s \in Sessions : \A c \in cache'[s] : c \in cache[s] /\ ~IsDelete(Head(queue), s)
    BY <1>2, <1>12 DEF IsDelete
  <2> QED BY <1>2, <1>9, <1>12, <2>1, HearingStored
<1>28. PendingOK' BY <1>2, <1>11, PendingStays
<1>29. ScreenOK' BY <1>2, <1>4 DEF ScreenOK
<1>30. RecordsOK' BY <1>2, <1>9, HearingRecords
<1>31. EarlyOK' BY <1>2, <1>8, <1>10, <1>13 DEF EarlyOK
<1>32. TitlesOK'
  <2>1. \A s : Settled(s)' => ~past.failed BY <1>2 DEF Settled
  <2>2. ASSUME NEW s \in Sessions, Settled(s)' PROVE Listing(s)' = disk[s].title
    BY <1>22, <1>23, <2>1, <2>2 DEF Listing
  <2> QED BY <1>2, <1>3, <1>10, <1>18, <2>2 DEF TitlesOK
<1> QED BY <1>14, <1>15, <1>16, <1>17, <1>24, <1>25, <1>26, <1>27, <1>28, <1>29, <1>30, <1>31, <1>32
        DEF ContextInv

LEMMA FillSidebarInv == ASSUME ContextInv, PageInv', FillSidebar PROVE ContextInv'
<1>1. /\ boot.stage = "waiting" /\ boot'.stage = "done" /\ list' = boot.titles
      /\ active' = active \/ active' \in {s \in Sessions : boot.titles[s] # NoTitle}
      /\ UNCHANGED <<disk, queue, ref, shown, loading, cache, saves, sender, sent, past>>
  BY DEF FillSidebar
<1>2. /\ PageInv /\ BootOK /\ Shaped /\ CopiesOK /\ SavesOK /\ FailuresOK /\ SenderOK /\ CreatingOK
      /\ DeletedOK /\ LoadsOK /\ HistoryOK /\ StoredOK /\ PendingOK /\ ScreenOK /\ RecordsOK
      /\ TitlesOK
  BY QueueFacts DEF ContextInv, PageInv, PageOK
<1>3. \A s \in Sessions : active' = s => active = s \/ (~Touched(s) /\ Recorded(s)
                                                       /\ boot.titles[s] # NoTitle)
  BY <1>1, <1>2 DEF BootOK
<1>4. CopiesOK'
  <2>1. \A s, c : (c \in AllCopies(s))' => c \in AllCopies(s)
    BY <1>1, CopyCases, CopyCasesAfter
  <2>2. \A s \in Sessions : \A c : Sound(s, c) => Sound(s, c)' BY <1>1 DEF Sound
  <2>3. \A s \in Sessions : \A c \in AllCopies(s)' : Sound(s, c)'
    BY <1>2, <2>1, <2>2 DEF CopiesOK
  <2> QED BY <1>1, <1>2, <2>3 DEF CopiesOK
<1>5. SavesOK' /\ FailuresOK' BY <1>1, <1>2 DEF SavesOK, FailuresOK
<1>6. SenderOK'
  <2>1. PICK s : s = sender.session OBVIOUS
  <2>2. Read(s)' => Read(s) BY <1>1 DEF Read
  <2>3. sent \in Int /\ sent' \in Int /\ sent <= sent' BY <1>1, <1>2 DEF CopiesOK
  <2>4. MayMove BY <1>1 DEF MayMove
  <2> QED BY <1>1, <2>1, <2>2, <2>3, <2>4, SenderStays
<1>7. CreatingOK'
  <2>1. ASSUME sender.stage = "creating" PROVE active' # sender.session
    <3>1. sender.session \in Sessions BY <1>2, <2>1 DEF Shaped
    <3>2. active # sender.session BY <1>2, <2>1 DEF CreatingOK
    <3> QED BY <1>3, <3>1, <3>2 DEF Touched
  <2> QED BY <1>1, <1>2, <2>1 DEF CreatingOK
<1>8. DeletedOK'
  <2>1. ASSUME NEW s \in Sessions, Gone(s) PROVE Gone(s)'
    BY <1>1, <1>3, <2>1 DEF Gone
  <2>2. ASSUME NEW s \in Sessions, OnlyStored(s) PROVE OnlyStored(s)'
    BY <1>1, <2>2 DEF OnlyStored, SendsIn
  <2>3. \A s \in Sessions : Read(s)' /\ cache'[s] = Nothing => Gone(s)' \/ OnlyStored(s)'
    BY <1>1, <1>2, <2>1, <2>2 DEF DeletedOK, Read
  <2> QED BY <1>1, <1>2, <2>3 DEF DeletedOK
<1>9. LoadsOK'
  <2>1. \A n \in DOMAIN queue' : Awaited(n)' => Awaited(n) BY <1>1 DEF Awaited
  <2>2. \A s : /\ Read(s)' => Read(s)
               /\ OnlyStored(s) => OnlyStored(s)'
               /\ \A n \in DOMAIN queue : DeletedAfter(n, s) => DeletedAfter(n, s)'
    BY <1>1 DEF Read, OnlyStored, SendsIn, DeletedAfter
  <2>3. active' = ref' /\ ref' \in Sessions => active = ref
    BY <1>1, <1>3 DEF Touched
  <2>4. ASSUME NEW n \in DOMAIN queue', Awaited(n)', NEW op, op = queue'[n]
        PROVE  LET s == op.session
               IN  /\ loading' /\ s = ref'
                   /\ Read(s)' => /\ OnlyStored(s)'
                                  /\ \A c \in op.held : Upto(c, past'.before)
                   /\ Read(s)' /\ op.result = "ok" =>
                         \/ op.held = disk'[s].held
                         \/ disk'[s].held = Nothing /\ DeletedAfter(n, s)'
    <3>1. n \in DOMAIN queue /\ Awaited(n) /\ op = queue[n] BY <1>1, <2>1, <2>4
    <3>2. LET s == op.session
          IN  /\ loading /\ s = ref
              /\ Read(s) => OnlyStored(s) /\ \A c \in op.held : Upto(c, past.before)
              /\ Read(s) /\ op.result = "ok" =>
                    \/ op.held = disk[s].held
                    \/ disk[s].held = Nothing /\ DeletedAfter(n, s)
      BY <1>2, <3>1 DEF LoadsOK
    <3> QED BY <1>1, <2>2, <3>1, <3>2
  <2>5. \A n, m \in DOMAIN queue' : Awaited(n)' /\ Awaited(m)' => n = m
    BY <1>1, <1>2, <2>1 DEF LoadsOK
  <2>6. (active = ref /\ ref \in Sessions /\ ~loading /\ Read(ref) => cache[ref] # Nothing)'
    BY <1>1, <1>2, <2>2, <2>3 DEF LoadsOK
  <2> QED BY <2>4, <2>5, <2>6 DEF LoadsOK
<1>10. HistoryOK' BY <1>1, <1>2 DEF HistoryOK
<1>11. StoredOK'
  <2>1. \A s : \A n \in DOMAIN queue : DeletedAfter(n, s) => DeletedAfter(n, s)'
    BY <1>1 DEF DeletedAfter
  <2>2. ASSUME ~past.failed, NEW n \in DOMAIN queue, NEW op, op = queue[n],
               op.kind = "save", op.result = "ok"
        PROVE  op.held = disk[op.session].held \/ DeletedAfter(n, op.session)'
    BY <1>2, <2>1, <2>2 DEF StoredOK
  <2> QED BY <1>1, <1>2, <2>2 DEF StoredOK
<1>12. PendingOK' BY <1>1, <1>2 DEF PendingOK, Finished
<1>13. ScreenOK' BY <1>1, <1>2 DEF ScreenOK
<1>14. RecordsOK' BY <1>1, <1>2, <1>3 DEF RecordsOK, Recorded
<1>15. EarlyOK' BY <1>1 DEF EarlyOK
<1>16. TitlesOK'
  <2>1. \A s : Listing(s)' = Listing(s) BY <1>1 DEF Listing
  <2>2. \A s : \A n \in DOMAIN queue : RetitledAfter(n, s) => RetitledAfter(n, s)'
    BY <1>1 DEF RetitledAfter
  <2>3. Titles' = Titles BY <1>1 DEF Titles
  <2>4. ASSUME NEW s \in Sessions, Settled(s)'
        PROVE  /\ s \in past.deleted =>
                    \/ \E op \in Ops(queue) : IsDelete(op, s) /\ op.result = "ok"
                    \/ /\ Listing(s) = NoTitle
                       /\ \A op \in Ops(queue) : Retitles(op, s) => op.title = NoTitle
               /\ s \notin past.deleted =>
                    /\ (\A op \in Ops(queue) : ~Retitles(op, s)) => Listing(s) = disk[s].title
                    /\ \A n \in DOMAIN queue : Retitles(queue[n], s) =>
                          /\ queue[n].title # NoTitle
                          /\ queue[n].title = disk[s].title \/ RetitledAfter(n, s)'
    <3>1. Settled(s) /\ boot.stage # "listing" BY <1>1, <2>4 DEF Settled
    <3>2. /\ s \in past.deleted =>
                \/ \E op \in Ops(queue) : IsDelete(op, s) /\ op.result = "ok"
                \/ /\ Listing(s) = NoTitle
                   /\ \A op \in Ops(queue) : Retitles(op, s) => op.title = NoTitle
          /\ s \notin past.deleted =>
                /\ (\A op \in Ops(queue) : ~Retitles(op, s)) => Listing(s) = disk[s].title
                /\ \A n \in DOMAIN queue : Retitles(queue[n], s) =>
                      /\ queue[n].title # NoTitle
                      /\ queue[n].title = disk[s].title \/ RetitledAfter(n, s)
      BY <1>2, <3>1 DEF TitlesOK
    <3> QED BY <2>2, <3>2
  <2>5. \A op \in Ops(queue) : op.kind = "list" /\ op.result = "ok" => op.titles = Titles
    BY <1>2 DEF TitlesOK
  <2> QED BY <1>1, <2>1, <2>3, <2>4, <2>5 DEF TitlesOK
<1> QED BY <1>4, <1>5, <1>6, <1>7, <1>8, <1>9, <1>10, <1>11, <1>12, <1>13, <1>14, <1>15, <1>16
        DEF ContextInv

-----------------------------------------------------------------------------
(* The saves, one behind the other *)

LEMMA AppendMovesUp ==
    ASSUME NEW q, IsSeq(q), q # <<>>, NEW e, NextSave(e, Head(q))
    PROVE  MovesUp(q, Append(Tail(q), e))
<1>1. PICK t : t = Tail(q) OBVIOUS
<1>2. PICK r : r = Append(t, e) OBVIOUS
<1>3. /\ Len(q) \in Nat /\ DOMAIN q = 1..Len(q) /\ IsSeq(t) /\ DOMAIN t = 1..(Len(q) - 1)
      /\ \A n \in 1..(Len(q) - 1) : t[n] = q[n + 1]
      /\ Len(t) = Len(q) - 1 /\ Len(q) > 0
  BY <1>1, SeqFacts, TailFacts
<1>4. /\ IsSeq(r) /\ DOMAIN r = 1..(Len(t) + 1)
      /\ \A n \in 1..Len(t) : r[n] = t[n]
      /\ r[Len(t) + 1] = e
  <2>1. IsSeq(t) BY <1>3
  <2> QED BY <1>2, <2>1, AppendFacts
<1>5. \A n \in DOMAIN r : \/ n + 1 \in DOMAIN q /\ r[n] = q[n + 1]
                          \/ n = Len(q) /\ r[n] = e
  <2>1. ASSUME NEW n \in DOMAIN r, n # Len(q)
        PROVE  n + 1 \in DOMAIN q /\ n \in 1..(Len(q) - 1)
    BY <1>3, <1>4, <2>1
  <2>2. Len(t) + 1 = Len(q) BY <1>3
  <2> QED BY <1>3, <1>4, <2>1, <2>2
<1>6. ASSUME NEW n \in DOMAIN q, n # 1 PROVE n - 1 \in DOMAIN r /\ r[n - 1] = q[n]
  <2>1. n - 1 \in 1..(Len(q) - 1) /\ (n - 1) + 1 = n BY <1>3, <1>6
  <2> QED BY <1>3, <1>4, <2>1
<1> QED BY <1>1, <1>2, <1>4, <1>5, <1>6 DEF MovesUp

LEMMA SavedInv == ASSUME ContextInv, PageInv', Saved PROVE ContextInv'
<1>1. PICK op : op = Head(queue) OBVIOUS
<1>2. PICK x : x = op.session OBVIOUS
<1>3. PICK rest : rest = Tail(saves[x]) OBVIOUS
<1>4. PICK next : next = SaveOf(x, Head(rest)) OBVIOUS
<1>5. PICK result \in {"ok", "failed"} :
         /\ Heard("save", result)
         /\ saves' = [saves EXCEPT ![x] = rest]
         /\ \/ rest = <<>> /\ queue' = Tail(queue)
            \/ rest # <<>> /\ queue' = Append(Tail(queue), next)
         /\ list' = IF result = "ok" THEN Listed(x, op.title) ELSE list
         /\ UNCHANGED <<boot, active, ref, shown, loading, cache, sender, past>>
  BY <1>1, <1>2, <1>3, <1>4 DEF Saved
<1>6. /\ op.kind = "save" /\ op.result = result /\ MovesUp(queue, Tail(queue))
      /\ op \in Ops(queue) /\ disk' = disk /\ sent' = sent /\ op = queue[1] /\ 1 \in DOMAIN queue
      /\ WellFormed(op) /\ Linked(op) /\ queue # <<>> /\ (result = "failed" => past.failed)
  BY <1>1, <1>5, HeardFacts
<1>7. /\ PageInv /\ Shaped /\ CopiesOK /\ SavesOK /\ FailuresOK /\ LoadsOK /\ ScreenOK
      /\ HistoryOK /\ StoredOK /\ EarlyOK /\ x \in Sessions /\ saves[x] # <<>> /\ IsSeq(queue)
      /\ One(disk[x].held) /\ DOMAIN queue = 1..Len(queue)
  BY <1>2, <1>6, QueueFacts DEF ContextInv, CopiesOK, WellFormed, Linked
<1>8. PICK old : old = saves[x] OBVIOUS
<1>9. /\ IsSeq(old) /\ Len(old) \in Nat /\ Len(old) > 0 /\ DOMAIN old = 1..Len(old)
      /\ IsSeq(rest) /\ Len(rest) = Len(old) - 1 /\ DOMAIN rest = 1..(Len(old) - 1)
      /\ \A n \in 1..(Len(old) - 1) : rest[n] = old[n + 1]
      /\ op.held = {old[1]}
  BY <1>2, <1>3, <1>6, <1>7, <1>8, SeqFacts, TailFacts DEF Shaped, SavesOK
<1>10. /\ saves'[x] = rest
       /\ \A s \in Sessions : s # x => saves'[s] = saves[s]
  BY <1>5, <1>7 DEF Shaped
<1>11. rest # <<>> => Head(rest) = rest[1] BY <1>9, TailFacts
<1>12. /\ next.kind = "save" /\ next.session = x /\ next.result = "none"
       /\ next.held = {Head(rest)} /\ next.held # Nothing
  <2>1. next.kind = "save" /\ next.session = x /\ next.result = "none"
    BY <1>4, <1>7, SaveFacts
  <2>2. next.held = {Head(rest)} BY <1>4 DEF SaveOf, Operation
  <2> QED BY <2>1, <2>2 DEF Nothing
<1>13. MovesUp(queue, queue')
  <2>1. NextSave(next, Head(queue)) BY <1>1, <1>2, <1>6, <1>12 DEF NextSave
  <2> QED BY <1>5, <1>6, <1>7, <2>1, AppendMovesUp
<1>14. Hearing BY <1>1, <1>5, <1>6, <1>13 DEF Hearing
<1>15. boot.stage = "waiting" => past.failed \/ x \in past.early
  BY <1>2, <1>6, <1>7 DEF EarlyOK, Settled
<1>16. Listens BY <1>1, <1>2, <1>5, <1>6, <1>15 DEF Listens, Changes
<1>17. Head(queue).kind = "save" /\ Head(queue).session = x BY <1>1, <1>2, <1>6
<1>18. ASSUME NEW new \in Ops(queue')
       PROVE  \/ new = next /\ rest # <<>>
              \/ new \in Ops(queue) /\ (new.kind = "save" => new.session # x)
  <2>1. PICK n \in DOMAIN queue' : new = queue'[n] BY DEF Ops
  <2>2. PICK t : t = Tail(queue) OBVIOUS
  <2>3. IsSeq(t) /\ Len(t) \in Nat /\ DOMAIN t = 1..Len(t) BY <1>6, <1>7, <2>2, TailFacts, SeqFacts
  <2>4. (n \in DOMAIN t /\ new = t[n]) \/ (new = next /\ rest # <<>>)
    <3>1. ASSUME queue' = t PROVE n \in DOMAIN t /\ new = t[n] BY <2>1, <3>1
    <3>2. CASE rest # <<>> /\ queue' = Append(t, next)
      <4>1. /\ DOMAIN queue' = 1..(Len(t) + 1) /\ queue'[Len(t) + 1] = next
            /\ \A m \in 1..Len(t) : queue'[m] = t[m]
        BY <2>3, <3>2, AppendFacts
      <4> QED BY <2>1, <2>3, <3>2, <4>1
    <3> QED BY <1>5, <2>2, <3>1, <3>2
  <2>5. CASE n \in DOMAIN t /\ new = t[n]
    <3>1. new \in Ops(Tail(queue)) BY <2>2, <2>5 DEF Ops
    <3>2. QueueOK(queue, disk) BY <1>7 DEF PageInv
    <3>3. new \in Ops(queue) /\ InLine(Head(queue), new) BY <1>6, <3>1, <3>2, TailKeeps
    <3> QED BY <1>17, <3>3 DEF InLine, Changes
  <2> QED BY <2>4, <2>5
<1>19. \A o \in Ops(queue) : o = op \/ o \in Ops(queue') BY <1>1, <1>7, <1>14, HearingFacts
<1>20. rest # <<>> => next \in Ops(queue')
  <2>1. ASSUME rest # <<>> PROVE next \in Ops(queue')
    <3>1. IsSeq(Tail(queue)) BY <1>6, <1>7, TailFacts
    <3> QED BY <1>5, <2>1, <3>1, AppendFacts DEF Ops
  <2> QED BY <2>1
<1>21. MayMove BY <1>5 DEF MayMove
<1>22. CopiesOK'
  <2>1. \A s \in Sessions : Ops(saves'[s]) \subseteq Ops(saves[s])
    <3>1. Ops(rest) \subseteq Ops(old)
      <4>1. \A n \in DOMAIN rest : n + 1 \in DOMAIN old /\ rest[n] = old[n + 1] BY <1>9
      <4> QED BY <4>1 DEF Ops
    <3> QED BY <1>8, <1>10, <3>1
  <2>2. sender'.session \in Sessions => sender'.current \in AllCopies(sender'.session)
    BY <1>5, CopyCases
  <2>3. \A s \in Sessions : \A c \in cache'[s] : c \in AllCopies(s) BY <1>5, CopyCases
  <2> QED BY <1>5, <1>7, <1>14, <2>1, <2>2, <2>3, HearingCopies DEF CopiesOK
<1>23. SavesOK' /\ FailuresOK'
  <2>1. ASSUME NEW s \in Sessions, saves'[s] # <<>>
        PROVE  \E new \in Ops(queue') : IsSave(new, s)
    <3>1. CASE s = x BY <1>10, <1>12, <1>20, <2>1, <3>1 DEF IsSave
    <3>2. CASE s # x
      <4>1. PICK o \in Ops(queue) : IsSave(o, s) BY <1>7, <1>10, <2>1, <3>2 DEF SavesOK
      <4> QED BY <1>2, <1>19, <3>2, <4>1 DEF IsSave
    <3> QED BY <3>1, <3>2
  <2>2. ASSUME NEW new \in Ops(queue')
        PROVE  /\ new.kind = "save" => new.held = {saves'[new.session][1]}
               /\ new.result = "failed" => past.failed
    <3>1. CASE new = next /\ rest # <<>> BY <1>10, <1>11, <1>12, <3>1
    <3>2. CASE new \in Ops(queue) /\ (new.kind = "save" => new.session # x)
      <4>1. new.kind = "save" => new.session \in Sessions
        BY <1>7, <3>2, QueueFacts DEF WellFormed
      <4> QED BY <1>7, <1>10, <3>2, <4>1 DEF SavesOK, FailuresOK
    <3> QED BY <1>18, <3>1, <3>2
  <2> QED BY <1>5, <2>1, <2>2 DEF SavesOK, FailuresOK
<1>24. SenderOK'
  <2>1. PICK s : s = sender.session OBVIOUS
  <2>2. Read(s)' => Read(s) BY <1>5 DEF Read
  <2>3. sent' \in Int /\ sent <= sent' BY <1>6, <1>7 DEF CopiesOK
  <2> QED BY <1>5, <1>21, <2>1, <2>2, <2>3, SenderStays
<1>25. \A s \in Sessions : saves[s] = <<>> => saves'[s] = <<>> BY <1>7, <1>10
<1>26. CreatingOK'
  <2>1. Head(queue).kind # "create" BY <1>17
  <2> QED BY <1>5, <1>14, <1>25, <2>1, HearingCreating
<1>27. \A s : SendsIn(s)' => SendsIn(s) BY <1>5 DEF SendsIn
<1>28. DeletedOK'
  <2>1. Head(queue).kind # "delete" BY <1>17
  <2> QED BY <1>5, <1>14, <1>16, <1>25, <1>27, <2>1, HearingDeleted
<1>29. LoadsOK'
  <2>1. (active = ref /\ ref \in Sessions /\ ~loading /\ Read(ref) => cache[ref] # Nothing)'
    BY <1>5, <1>7 DEF LoadsOK, Read
  <2> QED BY <1>5, <1>14, <1>25, <1>27, <2>1, HearingLoads
<1>30. HistoryOK'
  <2>1. ASSUME NEW s \in Sessions \ past.unread, s # x
        PROVE  saves'[s] = saves[s]
    BY <1>10, <2>1
  <2>2. ASSUME x \notin past.unread, NEW i \in DOMAIN rest
        PROVE  /\ \A j \in (i + 1)..Len(rest) : Extends(rest[i], rest[j])
               /\ \A c \in cache[x] : Extends(rest[i], c)
               /\ sender.stage = "provider" /\ sender.session = x =>
                     Extends(rest[i], sender.current)
               /\ \A d \in disk[x].held : Extends(d, rest[i])
    <3>1. i + 1 \in DOMAIN saves[x] /\ rest[i] = saves[x][i + 1] BY <1>8, <1>9, <2>2
    <3>2. \A j \in (i + 1)..Len(rest) : /\ j + 1 \in (i + 1 + 1)..Len(saves[x])
                                        /\ rest[j] = saves[x][j + 1]
      BY <1>8, <1>9, <2>2
    <3>3. \A m \in DOMAIN saves[x] :
             /\ \A j \in (m + 1)..Len(saves[x]) : Extends(saves[x][m], saves[x][j])
             /\ \A c \in cache[x] : Extends(saves[x][m], c)
             /\ sender.stage = "provider" /\ sender.session = x =>
                   Extends(saves[x][m], sender.current)
             /\ \A d \in disk[x].held : Extends(d, saves[x][m])
      BY <1>7, <2>2 DEF HistoryOK
    <3>4. PICK m : m = i + 1 OBVIOUS
    <3>5. m \in DOMAIN saves[x] /\ rest[i] = saves[x][m] BY <3>1, <3>4
    <3>6. \A j \in (i + 1)..Len(rest) : Extends(rest[i], rest[j])
      BY <3>2, <3>3, <3>4, <3>5
    <3> QED BY <3>3, <3>5, <3>6
  <2>3. ASSUME NEW s \in Sessions \ past.unread
        PROVE  /\ \A i \in DOMAIN saves'[s] :
                     /\ \A j \in (i + 1)..Len(saves'[s]) : Extends(saves'[s][i], saves'[s][j])
                     /\ \A c \in cache[s] : Extends(saves'[s][i], c)
                     /\ sender.stage = "provider" /\ sender.session = s =>
                           Extends(saves'[s][i], sender.current)
                     /\ \A d \in disk[s].held : Extends(d, saves'[s][i])
               /\ \A d \in disk[s].held :
                     /\ \A c \in cache[s] : Extends(d, c)
                     /\ sender.stage = "provider" /\ sender.session = s =>
                           Extends(d, sender.current)
    <3>1. CASE s = x BY <1>7, <1>10, <2>2, <2>3, <3>1 DEF HistoryOK
    <3>2. CASE s # x BY <1>7, <2>1, <2>3, <3>2 DEF HistoryOK
    <3> QED BY <3>1, <3>2
  <2> QED BY <1>5, <1>6, <2>3 DEF HistoryOK
<1>31. StoredOK'
  <2>1. ASSUME ~past.failed, NEW s \in Sessions, NEW c \in cache[s]
        PROVE  \/ \E new \in Ops(queue') : IsDelete(new, s)
               \/ saves'[s] # <<>> /\ saves'[s][Len(saves'[s])] = c
               \/ saves'[s] = <<>> /\ Conversed(disk[s].held) = c
    <3>1. CASE \E o \in Ops(queue) : IsDelete(o, s) BY <1>6, <1>19, <3>1 DEF IsDelete
    <3>2. CASE s # x BY <1>7, <1>10, <2>1, <3>1, <3>2 DEF StoredOK
    <3>3. CASE s = x /\ old[Len(old)] = c
      <4>1. CASE rest # <<>>
        <5>1. Len(rest) > 0 BY <1>9, <4>1, SeqFacts
        <5>2. rest[Len(rest)] = old[Len(old)] BY <1>9, <5>1
        <5> QED BY <1>10, <3>3, <4>1, <5>2
      <4>2. CASE rest = <<>>
        <5>1. ~(Len(rest) > 0) BY <1>9, <4>2, SeqFacts
        <5>2. op.held = {c} BY <1>9, <3>3, <5>1
        <5>3. op.held = disk[x].held \/ DeletedAfter(1, x)
          BY <1>2, <1>5, <1>6, <1>7, <2>1 DEF StoredOK
        <5>4. CASE op.held = disk[x].held
          BY <1>7, <1>10, <3>3, <4>2, <5>2, <5>4, HeldFacts
        <5>5. CASE DeletedAfter(1, x)
          <6>1. PICK m \in (1 + 1)..Len(queue) : IsDelete(queue[m], x) BY <5>5 DEF DeletedAfter
          <6>2. Len(queue) \in Nat BY <1>7, QueueFacts
          <6>3. m \in DOMAIN queue /\ m # 1 BY <1>7, <6>1, <6>2
          <6>4. queue[m] \in Ops(queue') BY <1>13, <6>3 DEF MovesUp, Ops
          <6> QED BY <3>3, <6>1, <6>4
        <5> QED BY <5>3, <5>4, <5>5
      <4> QED BY <4>1, <4>2
    <3> QED BY <1>7, <1>8, <2>1, <3>1, <3>2, <3>3 DEF StoredOK
  <2>2. ASSUME ~past'.failed, NEW n \in DOMAIN queue', NEW o, o = queue'[n],
               o.kind = "save", o.result = "ok"
        PROVE  o.held = disk'[o.session].held \/ DeletedAfter(n, o.session)'
    BY <1>14, <2>2, HearingStoring
  <2> QED BY <1>5, <1>6, <2>1, <2>2 DEF StoredOK
<1>32. PendingOK' BY <1>5, <1>21, PendingStays
<1>33. ScreenOK' BY <1>5, <1>7 DEF ScreenOK
<1>34. RecordsOK' BY <1>5, <1>14, HearingRecords
<1>35. EarlyOK'
  <2>1. Head(queue).kind # "load" BY <1>17
  <2> QED BY <1>5, <1>14, <1>16, <1>27, <2>1, HearingEarly
<1>36. TitlesOK' BY <1>14, <1>16, HearingTitles
<1> QED BY <1>22, <1>23, <1>24, <1>26, <1>28, <1>29, <1>30, <1>31, <1>32, <1>33, <1>34, <1>35, <1>36
        DEF ContextInv

-----------------------------------------------------------------------------
(* What the message under way stores *)

\* It stores the conversation d; perhaps it names the session first.
Storing(q, d) ==
    /\ sender.stage \in Holding /\ Persist(q, sender.session, d)
    /\ Lengthens(queue, q)
    /\ \A op \in Added(queue, q) : op.kind = "name" /\ op.session = sender.session
    /\ UNCHANGED <<disk, boot, list, active, ref, loading, sent, past>>
    /\ \/ /\ sender'.stage \in Replying /\ sender'.session = sender.session
          /\ sender'.current = sender.current
       \/ sender' = Idle

LEMMA StoringFacts ==
    ASSUME ContextInv, NEW q, NEW d, Storing(q, d), NEW s, s = sender.session
    PROVE  /\ s \in Sessions /\ Calls /\ SendsIn(s)
           /\ \A op \in Added(queue, queue') :
                 \/ op.kind = "name"
                 \/ op.kind = "save" /\ op.session = s /\ op.held = {d} /\ saves[s] = <<>>
           /\ saves[s] = <<>> => \E op \in Ops(queue') : IsSave(op, s)
           /\ DOMAIN cache' = Sessions /\ cache'[s] = {d}
           /\ \A x \in Sessions : x # s => cache'[x] = cache[x] /\ saves'[x] = saves[x]
           /\ Len(saves[s]) \in Nat /\ DOMAIN saves[s] = 1..Len(saves[s])
           /\ Len(saves'[s]) = Len(saves[s]) + 1 /\ DOMAIN saves'[s] = 1..(Len(saves[s]) + 1)
           /\ \A n \in 1..Len(saves[s]) : saves'[s][n] = saves[s][n]
           /\ saves'[s][Len(saves[s]) + 1] = d /\ saves'[s] # <<>>
           /\ saves[s] = <<>> <=> Len(saves[s]) = 0
           /\ ref = s => shown' = d.timeline
           /\ ref # s => shown' = shown
<1>1. /\ PageInv /\ Shaped /\ CopiesOK /\ IsSeq(queue) /\ DOMAIN cache = Sessions
      /\ sent \in Int
  BY QueueFacts DEF ContextInv, CopiesOK
<1>2. s \in Sessions /\ SendsIn(s) BY <1>1 DEF Storing, Holding, Shaped, SendsIn
<1>3. /\ cache' = [cache EXCEPT ![s] = {d}]
      /\ shown' = IF ref = s THEN d.timeline ELSE shown
      /\ saves' = [saves EXCEPT ![s] = Append(@, d)]
      /\ \/ saves[s] = <<>> /\ queue' = Append(q, SaveOf(s, d))
         \/ saves[s] # <<>> /\ queue' = q
  BY DEF Storing, Persist
<1>4. saves'[s] = Append(saves[s], d) /\ \A x \in Sessions : x # s => saves'[x] = saves[x]
  BY <1>1, <1>2, <1>3 DEF Shaped
<1>5. /\ Len(saves[s]) \in Nat /\ DOMAIN saves[s] = 1..Len(saves[s])
      /\ Len(saves'[s]) = Len(saves[s]) + 1 /\ DOMAIN saves'[s] = 1..(Len(saves[s]) + 1)
      /\ \A n \in 1..Len(saves[s]) : saves'[s][n] = saves[s][n]
      /\ saves'[s][Len(saves[s]) + 1] = d /\ saves'[s] # <<>>
      /\ saves[s] # <<>> <=> Len(saves[s]) > 0
  <2>1. PICK t : t = saves[s] OBVIOUS
  <2>2. PICK r : r = Append(t, d) OBVIOUS
  <2>3. IsSeq(t) BY <1>1, <1>2, <2>1 DEF Shaped
  <2>4. /\ Len(t) \in Nat /\ DOMAIN t = 1..Len(t)
        /\ Len(r) = Len(t) + 1 /\ DOMAIN r = 1..(Len(t) + 1)
        /\ \A n \in 1..Len(t) : r[n] = t[n]
        /\ r[Len(t) + 1] = d /\ r # <<>>
        /\ t # <<>> <=> Len(t) > 0
    BY <2>2, <2>3, AppendFacts, SeqFacts
  <2> QED BY <1>4, <2>1, <2>2, <2>4
<1>6. PICK e : e = SaveOf(s, d) OBVIOUS
<1>7. e.kind = "save" /\ e.session = s /\ e.result = "none" /\ e.held = {d}
  <2>1. e.kind = "save" /\ e.session = s /\ e.result = "none" BY <1>2, <1>6, SaveFacts
  <2>2. e.held = {d} BY <1>6 DEF SaveOf, Operation
  <2> QED BY <2>1, <2>2
<1>8. /\ Lengthens(queue, queue')
      /\ \A op \in Added(queue, queue') :
            \/ op.kind = "name" /\ op.session = s
            \/ op = e /\ saves[s] = <<>>
      /\ saves[s] = <<>> => e \in Added(queue, queue')
  <2>1. /\ Lengthens(queue, q)
        /\ \A op \in Added(queue, q) : op.kind = "name" /\ op.session = s
    BY DEF Storing
  <2>2. CASE saves[s] = <<>> /\ queue' = Append(q, e)
    <3>1. Lengthens(queue, queue') /\ Added(queue, queue') = Added(queue, q) \cup {e}
      BY <1>1, <1>7, <2>1, <2>2, OneMore
    <3> QED BY <2>1, <2>2, <3>1
  <2>3. CASE saves[s] # <<>> /\ queue' = q BY <2>1, <2>3
  <2> QED BY <1>3, <1>6, <2>2, <2>3
<1>9. saves[s] = <<>> => \E op \in Ops(queue') : IsSave(op, s)
  <2>1. \A op \in Added(queue, queue') : op \in Ops(queue') BY <1>1, <1>8, LengthensFacts
  <2> QED BY <1>7, <1>8, <2>1 DEF IsSave
<1>10. Calls
  <2>1. UNCHANGED <<disk, boot, list, past>> /\ sent' = sent BY DEF Storing
  <2>2. sent' \in Int /\ sent <= sent' BY <1>1, <2>1
  <2> QED BY <1>2, <1>7, <1>8, <2>1, <2>2 DEF Calls
<1>11. /\ DOMAIN cache' = Sessions /\ cache'[s] = {d}
       /\ \A x \in Sessions : x # s => cache'[x] = cache[x]
  BY <1>1, <1>2, <1>3
<1>12. saves[s] = <<>> <=> Len(saves[s]) = 0 BY <1>5
<1> QED BY <1>2, <1>3, <1>4, <1>5, <1>7, <1>8, <1>9, <1>10, <1>11, <1>12

LEMMA StoringSaves ==
    ASSUME ContextInv, NEW q, NEW d, Storing(q, d)
    PROVE  SavesOK' /\ FailuresOK'
<1>1. PICK s : s = sender.session OBVIOUS
<1>2. /\ PageInv /\ SavesOK /\ FailuresOK /\ IsSeq(queue)
      /\ \A op \in Ops(queue) : WellFormed(op) /\ Linked(op)
  BY QueueFacts DEF ContextInv
<1>3. /\ s \in Sessions /\ Calls /\ past' = past
      /\ \A op \in Added(queue, queue') :
            \/ op.kind = "name"
            \/ op.kind = "save" /\ op.session = s /\ op.held = {d} /\ saves[s] = <<>>
      /\ saves[s] = <<>> => \E op \in Ops(queue') : IsSave(op, s)
      /\ \A x \in Sessions : x # s => saves'[x] = saves[x]
      /\ Len(saves[s]) \in Nat
      /\ \A n \in 1..Len(saves[s]) : saves'[s][n] = saves[s][n]
      /\ saves'[s][Len(saves[s]) + 1] = d
      /\ saves[s] = <<>> <=> Len(saves[s]) = 0
  BY <1>1, StoringFacts DEF Storing
<1>4. Lengthens(queue, queue') BY <1>3 DEF Calls
<1>5. ASSUME NEW x \in Sessions, saves'[x] # <<>> PROVE \E op \in Ops(queue') : IsSave(op, x)
  <2>1. CASE saves[x] # <<>>
    <3>1. PICK op \in Ops(queue) : IsSave(op, x) BY <1>2, <2>1 DEF SavesOK
    <3>2. PICK new \in Ops(queue') : Alike(op, new) BY <1>2, <1>4, LengthensFacts
    <3> QED BY <3>1, <3>2 DEF Alike, IsSave
  <2>2. CASE saves[x] = <<>> BY <1>3, <1>5, <2>2
  <2> QED BY <2>1, <2>2
<1>6. ASSUME NEW new \in Ops(queue'), new.kind = "save"
      PROVE  new.held = {saves'[new.session][1]}
  <2>1. CASE new \in Added(queue, queue') BY <1>3, <1>6, <2>1
  <2>2. ASSUME NEW op \in Ops(queue), Alike(op, new)
        PROVE  new.held = {saves'[new.session][1]}
    <3>1. op.kind = "save" /\ new.session = op.session /\ new.held = op.held
      BY <1>6, <2>2 DEF Alike
    <3>2. op.held = {saves[op.session][1]} /\ saves[op.session] # <<>> /\ op.session \in Sessions
      BY <1>2, <3>1 DEF SavesOK, Linked, WellFormed
    <3>3. CASE op.session = s
      <4>1. 1 \in 1..Len(saves[s]) BY <1>3, <3>2, <3>3
      <4> QED BY <1>3, <3>1, <3>2, <3>3, <4>1
    <3>4. CASE op.session # s BY <1>3, <3>1, <3>2, <3>4
    <3> QED BY <3>3, <3>4
  <2> QED BY <1>2, <1>4, <2>1, <2>2, LengthensFacts
<1>7. ASSUME NEW new \in Ops(queue'), new.result = "failed" PROVE past'.failed
  <2>1. new \notin Added(queue, queue') BY <1>2, <1>4, <1>7, LengthensFacts
  <2>2. PICK op \in Ops(queue) : Alike(op, new) BY <1>2, <1>4, <2>1, LengthensFacts
  <2> QED BY <1>2, <1>3, <1>7, <2>2 DEF Alike, FailuresOK
<1> QED BY <1>5, <1>6, <1>7 DEF SavesOK, FailuresOK

LEMMA StoringHistory ==
    ASSUME ContextInv, NEW q, NEW d, Storing(q, d), NEW s, s = sender.session,
           d \in Conversations,
           s \notin past.unread =>
              /\ \A n \in DOMAIN saves[s] : Extends(saves[s][n], d)
              /\ \A c \in disk[s].held : Extends(c, d)
    PROVE  HistoryOK'
<1>1. HistoryOK BY DEF ContextInv
<1>2. /\ s \in Sessions /\ DOMAIN cache' = Sessions /\ cache'[s] = {d}
      /\ \A x \in Sessions : x # s => cache'[x] = cache[x] /\ saves'[x] = saves[x]
      /\ Len(saves[s]) \in Nat /\ DOMAIN saves[s] = 1..Len(saves[s])
      /\ Len(saves'[s]) = Len(saves[s]) + 1 /\ DOMAIN saves'[s] = 1..(Len(saves[s]) + 1)
      /\ \A n \in 1..Len(saves[s]) : saves'[s][n] = saves[s][n]
      /\ saves'[s][Len(saves[s]) + 1] = d
  BY StoringFacts
<1>3. UNCHANGED <<disk, past>> BY DEF Storing
<1>4. sender'.stage # "provider" BY IdleFacts DEF Storing, Replying
<1>5. ASSUME NEW x \in Sessions \ past.unread, x # s
      PROVE  /\ \A i \in DOMAIN saves'[x] :
                   /\ \A j \in (i + 1)..Len(saves'[x]) : Extends(saves'[x][i], saves'[x][j])
                   /\ \A c \in cache'[x] : Extends(saves'[x][i], c)
                   /\ \A e \in disk[x].held : Extends(e, saves'[x][i])
             /\ \A e \in disk[x].held : \A c \in cache'[x] : Extends(e, c)
  BY <1>1, <1>2, <1>5 DEF HistoryOK
<1>6. ASSUME s \notin past.unread
      PROVE  /\ \A i \in DOMAIN saves'[s] :
                   /\ \A j \in (i + 1)..Len(saves'[s]) : Extends(saves'[s][i], saves'[s][j])
                   /\ \A c \in cache'[s] : Extends(saves'[s][i], c)
                   /\ \A e \in disk[s].held : Extends(e, saves'[s][i])
             /\ \A e \in disk[s].held : \A c \in cache'[s] : Extends(e, c)
  <2>1. Extends(d, d) BY ExtendsItself
  <2>2. ASSUME NEW i \in DOMAIN saves'[s]
        PROVE  /\ \A j \in (i + 1)..Len(saves'[s]) : Extends(saves'[s][i], saves'[s][j])
               /\ \A c \in cache'[s] : Extends(saves'[s][i], c)
               /\ \A e \in disk[s].held : Extends(e, saves'[s][i])
    <3>1. CASE i = Len(saves[s]) + 1
      <4>1. saves'[s][i] = d /\ \A j \in (i + 1)..Len(saves'[s]) : FALSE BY <1>2, <3>1
      <4> QED BY <1>2, <1>6, <2>1, <4>1
    <3>2. CASE i \in 1..Len(saves[s])
      <4>1. saves'[s][i] = saves[s][i] BY <1>2, <3>2
      <4>2. ASSUME NEW j \in (i + 1)..Len(saves'[s]) PROVE Extends(saves[s][i], saves'[s][j])
        <5>1. CASE j = Len(saves[s]) + 1 BY <1>2, <1>6, <3>2, <5>1
        <5>2. CASE j # Len(saves[s]) + 1
          <6>1. j \in (i + 1)..Len(saves[s]) /\ j \in 1..Len(saves[s]) BY <1>2, <3>2, <5>2
          <6> QED BY <1>1, <1>2, <1>6, <3>2, <6>1 DEF HistoryOK
        <5> QED BY <5>1, <5>2
      <4>3. \A c \in cache'[s] : Extends(saves[s][i], c) BY <1>2, <1>6, <3>2
      <4>4. \A e \in disk[s].held : Extends(e, saves[s][i])
        BY <1>1, <1>2, <1>6, <3>2 DEF HistoryOK
      <4> QED BY <4>1, <4>2, <4>3, <4>4
    <3>3. i = Len(saves[s]) + 1 \/ i \in 1..Len(saves[s]) BY <1>2
    <3> QED BY <3>1, <3>2, <3>3
  <2> QED BY <1>2, <1>6, <2>2
<1> QED BY <1>3, <1>4, <1>5, <1>6 DEF HistoryOK

LEMMA StoringStored ==
    ASSUME ContextInv, NEW q, NEW d, Storing(q, d)
    PROVE  StoredOK'
<1>1. PageInv /\ IsSeq(queue) /\ StoredOK BY QueueFacts DEF ContextInv
<1>2. PICK s : s = sender.session OBVIOUS
<1>3. /\ s \in Sessions /\ Calls /\ cache'[s] = {d}
      /\ \A x \in Sessions : x # s => cache'[x] = cache[x] /\ saves'[x] = saves[x]
      /\ Len(saves'[s]) = Len(saves[s]) + 1
      /\ saves'[s][Len(saves[s]) + 1] = d /\ saves'[s] # <<>>
  BY <1>2, StoringFacts
<1>4. UNCHANGED <<disk, past>> /\ Lengthens(queue, queue') BY <1>3 DEF Storing, Calls
<1>5. ASSUME NEW x, NEW op \in Ops(queue), IsDelete(op, x)
      PROVE  \E new \in Ops(queue') : IsDelete(new, x)
  <2>1. PICK new \in Ops(queue') : Alike(op, new) BY <1>1, <1>4, LengthensFacts
  <2> QED BY <1>5, <2>1 DEF Alike, IsDelete
<1>6. ASSUME NEW n \in DOMAIN queue', NEW op, op = queue'[n], op.kind = "save",
             op.result = "ok", ~past.failed
      PROVE  op.held = disk[op.session].held \/ DeletedAfter(n, op.session)'
  <2>1. n \in DOMAIN queue /\ op = queue[n]
    BY <1>1, <1>4, <1>6, LengthensFacts DEF Alike
  <2>2. CASE DeletedAfter(n, op.session) BY <1>1, <1>4, <2>1, <2>2, StillDeleted
  <2> QED BY <1>1, <1>6, <2>1, <2>2 DEF StoredOK
<1>7. ASSUME ~past.failed, NEW x \in Sessions, NEW c \in cache'[x]
      PROVE  \/ \E op \in Ops(queue') : IsDelete(op, x)
             \/ saves'[x] # <<>> /\ saves'[x][Len(saves'[x])] = c
             \/ saves'[x] = <<>> /\ Conversed(disk[x].held) = c
  <2>1. CASE x = s BY <1>3, <1>7, <2>1
  <2>2. CASE x # s
    <3>1. c \in cache[x] /\ saves'[x] = saves[x] BY <1>3, <1>7, <2>2
    <3>2. \/ \E op \in Ops(queue) : IsDelete(op, x)
          \/ saves[x] # <<>> /\ saves[x][Len(saves[x])] = c
          \/ saves[x] = <<>> /\ Conversed(disk[x].held) = c
      BY <1>1, <1>7, <3>1 DEF StoredOK
    <3> QED BY <1>5, <3>1, <3>2
  <2> QED BY <2>1, <2>2
<1> QED BY <1>4, <1>6, <1>7 DEF StoredOK

\* What the message may store.
LEMMA StoringKeeps ==
    ASSUME ContextInv, PageInv', NEW q, NEW d, Storing(q, d), NEW s, s = sender.session,
           Sound(s, d), SenderOK',
           s \notin past.unread =>
              /\ \A n \in DOMAIN saves[s] : Extends(saves[s][n], d)
              /\ \A c \in disk[s].held : Extends(c, d),
           ~past.failed => \A n \in DOMAIN d.timeline : d.timeline[n].state = "pending" =>
              \/ d.timeline[n].request <= past.before
              \/ sender'.stage \in Replying /\ d.timeline[n].request = sender'.request
    PROVE  ContextInv'
<1>1. PageInv /\ CopiesOK /\ PendingOK /\ ScreenOK /\ NoSession \notin Sessions
  BY BrowserAssumption DEF ContextInv
<1>2. /\ s \in Sessions /\ Calls /\ SendsIn(s) /\ DOMAIN cache' = Sessions /\ cache'[s] = {d}
      /\ \A x \in Sessions : x # s => cache'[x] = cache[x] /\ saves'[x] = saves[x]
      /\ Len(saves[s]) \in Nat /\ DOMAIN saves[s] = 1..Len(saves[s])
      /\ DOMAIN saves'[s] = 1..(Len(saves[s]) + 1)
      /\ \A n \in 1..Len(saves[s]) : saves'[s][n] = saves[s][n]
      /\ saves'[s][Len(saves[s]) + 1] = d
      /\ ref = s => shown' = d.timeline
      /\ ref # s => shown' = shown
      /\ \A op \in Added(queue, queue') : op.kind # "load"
  BY StoringFacts
<1>3. /\ UNCHANGED <<disk, boot, list, active, ref, loading, sent, past>>
      /\ \/ /\ sender'.stage \in Replying /\ sender'.session = s
            /\ sender'.current = sender.current
         \/ sender' = Idle
  BY DEF Storing
<1>4. SavesOK' /\ FailuresOK' /\ StoredOK' BY StoringSaves, StoringStored
<1>5. HistoryOK'
  <2>1. d \in Conversations BY DEF Sound
  <2> QED BY <2>1, StoringHistory
<1>6. CopiesOK'
  <2>0. One({d}) BY DEF One
  <2>1. \A x \in Sessions : One(cache'[x]) BY <1>1, <1>2, <2>0 DEF CopiesOK
  <2>2. ASSUME NEW x \in Sessions, NEW c, c \in cache'[x] \/ c \in Ops(saves'[x])
        PROVE  c \in AllCopies(x) \/ Sound(x, c)
    <3>1. CASE x = s
      <4>1. \A n \in DOMAIN saves'[s] : n \in DOMAIN saves[s] \/ n = Len(saves[s]) + 1 BY <1>2
      <4>2. \A e \in Ops(saves'[s]) : e = d \/ e \in Ops(saves[s]) BY <1>2, <4>1 DEF Ops
      <4> QED BY <1>2, <2>2, <3>1, <4>2, CopyCases
    <3>2. CASE x # s BY <1>2, <2>2, <3>2, CopyCases
    <3> QED BY <3>1, <3>2
  <2>3. sender'.session \in Sessions => sender'.current \in AllCopies(sender'.session) \cup {Empty}
    BY <1>1, <1>3, IdleFacts, CopyCases
  <2> QED BY <1>2, <2>1, <2>2, <2>3, CallsCopies
<1>7. CreatingOK' BY <1>3, IdleFacts DEF CreatingOK, Replying
<1>8. \A x \in Sessions : Unchanged(x) BY <1>2 DEF Unchanged, Nothing
<1>9. ASSUME NEW x \in Sessions, SendsIn(x)' PROVE SendsIn(x) /\ x = s
  BY <1>1, <1>2, <1>3, <1>9, IdleFacts DEF SendsIn, Holding
<1>10. DeletedOK' BY <1>2, <1>3, <1>8, <1>9, CallsDeleted
<1>11. LoadsOK' BY <1>2, <1>3, <1>8, <1>9, CallsLoads
<1>12. RecordsOK' /\ EarlyOK' /\ TitlesOK' BY <1>2, <1>3, <1>9, CallsTitles
<1>13. PendingOK'
  <2>1. ASSUME ~past.failed, NEW x \in Sessions, NEW c \in cache'[x],
               NEW n \in DOMAIN c.timeline, c.timeline[n].state = "pending"
        PROVE  \/ c.timeline[n].request <= past.before
               \/ /\ sender'.stage \in Replying /\ sender'.session = x
                  /\ c.timeline[n].request = sender'.request
    <3>1. CASE x = s BY <1>2, <1>3, <2>1, <3>1, IdleFacts DEF Replying
    <3>2. CASE x # s BY <1>1, <1>2, <2>1, <3>2 DEF PendingOK
    <3> QED BY <3>1, <3>2
  <2>2. ~past.failed => Finished(sender'.current)
    BY <1>1, <1>3, IdleFacts, EmptyFinished DEF PendingOK
  <2> QED BY <1>3, <2>1, <2>2 DEF PendingOK, Finished
<1>14. ScreenOK' BY <1>1, <1>2, <1>3 DEF ScreenOK
<1> QED BY <1>4, <1>5, <1>6, <1>7, <1>10, <1>11, <1>12, <1>13, <1>14 DEF ContextInv

\* Every copy is sound.
LEMMA CopiesSound ==
    ASSUME ContextInv, NEW s \in Sessions
    PROVE  /\ \A c \in cache[s] : Sound(s, c)
           /\ \A c \in disk[s].held : Sound(s, c)
           /\ \A n \in DOMAIN saves[s] : Sound(s, saves[s][n])
           /\ sender.session = s => Sound(s, sender.current)
           /\ One(cache[s]) /\ One(disk[s].held) /\ sent \in Int
BY CopyCases DEF ContextInv, CopiesOK, Ops

\* A conversation that extends what is cached extends what is saved.
LEMMA SavesExtend ==
    ASSUME ContextInv, NEW s \in Sessions, s \notin past.unread, NEW c, NEW d \in Conversations,
           c \in cache[s] \/ (sender.stage = "provider" /\ sender.session = s /\ c = sender.current),
           Extends(c, d)
    PROVE  /\ \A n \in DOMAIN saves[s] : Extends(saves[s][n], d)
           /\ \A e \in disk[s].held : Extends(e, d)
<1>1. c \in Conversations BY CopiesSound DEF Sound
<1>2. ASSUME NEW n \in DOMAIN saves[s] PROVE Extends(saves[s][n], d)
  <2>1. Extends(saves[s][n], c) BY DEF ContextInv, HistoryOK
  <2>2. saves[s][n] \in Conversations BY CopiesSound DEF Sound
  <2> QED BY <1>1, <2>1, <2>2, ExtendsMore
<1>3. ASSUME NEW e \in disk[s].held PROVE Extends(e, d)
  <2>1. Extends(e, c) BY DEF ContextInv, HistoryOK
  <2>2. e \in Conversations BY CopiesSound DEF Sound
  <2> QED BY <1>1, <2>1, <2>2, ExtendsMore
<1> QED BY <1>2, <1>3

LEMMA OptimisticInv == ASSUME ContextInv, PageInv', Optimistic PROVE ContextInv'
<1>1. PICK x : x = sender.current OBVIOUS
<1>2. PICK r : r = sender.request OBVIOUS
<1>3. PICK s : s = sender.session OBVIOUS
<1>4. PICK d : d = Sending(x, r) OBVIOUS
<1>5. PICK name : name = [Operation("name", s) EXCEPT !.title = "derived"] OBVIOUS
<1>6. PICK q : q = IF sender.rename THEN Append(queue, name) ELSE queue OBVIOUS
<1>7. /\ sender.stage = "provider" /\ Persist(q, s, d)
      /\ sender' = [sender EXCEPT !.stage = IF sender.rename THEN "naming" ELSE "streaming"]
      /\ UNCHANGED <<disk, boot, list, active, loading, ref, sent, past>>
  BY <1>1, <1>2, <1>3, <1>4, <1>5, <1>6 DEF Optimistic, Sending
<1>8. /\ PageInv /\ Shaped /\ SenderOK /\ PendingOK /\ IsSeq(queue) /\ s \in Sessions
  BY <1>3, <1>7, QueueFacts DEF ContextInv, Shaped
<1>9. /\ sender'.stage \in Replying /\ sender'.session = s /\ sender'.current = x
      /\ sender'.request = r /\ sender'.got = sender.got
  BY <1>1, <1>2, <1>3, <1>7, <1>8 DEF Shaped, Replying
<1>10. /\ r \in Int /\ r <= sent /\ sender.got = "nothing"
       /\ \A n \in DOMAIN x.timeline : x.timeline[n].request < r
  BY <1>1, <1>2, <1>7, <1>8 DEF SenderOK, Holding
<1>11. Sound(s, x) /\ x \in Conversations /\ sent \in Int
  BY <1>1, <1>3, <1>8, CopiesSound DEF Sound
<1>12. LET last == Len(x.timeline) + 1
       IN  /\ d \in Conversations /\ Upto(d, r)
           /\ Len(d.timeline) = last /\ d.timeline[last].request = r
           /\ d.timeline[last].state = "pending"
           /\ \A n \in 1..Len(x.timeline) : d.timeline[n] = x.timeline[n]
           /\ d.context = Append(x.context, Mark(r, FALSE))
           /\ Matches(x) => Matches(d) /\ Extends(x, d)
  <2>1. LET c == Sending(x, r)
            last == Len(x.timeline) + 1
        IN  /\ c \in Conversations /\ Upto(c, r)
            /\ Len(c.timeline) = last /\ c.timeline[last].request = r
            /\ c.timeline[last].state = "pending"
            /\ \A n \in 1..Len(x.timeline) : c.timeline[n] = x.timeline[n]
            /\ c.context = Append(x.context, Mark(r, FALSE))
            /\ Matches(x) => Matches(c) /\ Extends(x, c)
    BY <1>10, <1>11, SendingFacts
  <2> QED BY <1>4, <2>1, Zenon
<1>13. Storing(q, d)
  <2>1. name.kind = "name" /\ name.session = s /\ name.result = "none"
    BY <1>5 DEF Operation
  <2>2. Lengthens(queue, q) /\ \A op \in Added(queue, q) : op.kind = "name" /\ op.session = s
    <3>1. Lengthens(queue, queue) /\ Added(queue, queue) = {} BY <1>8, AsItWas
    <3>2. /\ Lengthens(queue, Append(queue, name))
          /\ Added(queue, Append(queue, name)) = {name}
      BY <1>8, <2>1, <3>1, OneMore
    <3> QED BY <1>6, <2>1, <3>1, <3>2
  <2> QED BY <1>1, <1>3, <1>7, <1>9, <2>2 DEF Storing, Holding
<1>14. Sound(s, d)
  <2>1. Upto(d, sent) BY <1>10, <1>11, <1>12, UptoLater
  <2> QED BY <1>11, <1>12, <2>1 DEF Sound
<1>15. Continues(d)'
  <2>1. d.timeline[Len(x.timeline) + 1].state # "done" BY <1>12
  <2>2. sender'.got = "nothing" BY <1>9, <1>10
  <2>3. Follows(d, x, r, "nothing") BY <1>12, <2>1, Zenon DEF Follows
  <2> QED BY <1>9, <2>2, <2>3 DEF Continues
<1>16. SenderOK'
  <2>1. \A c \in cache'[s] : c = d BY <1>3, <1>13, StoringFacts
  <2>2. sender'.stage \in Holding /\ sender'.stage \notin {"idle", "creating", "provider"}
    BY <1>9 DEF Replying, Holding
  <2> QED BY <1>7, <1>9, <1>10, <1>15, <2>1, <2>2 DEF SenderOK
<1>17. s \notin past.unread => /\ \A n \in DOMAIN saves[s] : Extends(saves[s][n], d)
                               /\ \A c \in disk[s].held : Extends(c, d)
  <2>1. s \notin past.unread => Extends(x, d) BY <1>11, <1>12 DEF Sound
  <2> QED BY <1>1, <1>3, <1>7, <1>8, <1>12, <2>1, SavesExtend
<1>18. ASSUME ~past.failed, NEW n \in DOMAIN d.timeline, d.timeline[n].state = "pending"
       PROVE  \/ d.timeline[n].request <= past.before
              \/ sender'.stage \in Replying /\ d.timeline[n].request = sender'.request
  <2>1. Finished(x) BY <1>1, <1>8, <1>18 DEF PendingOK
  <2>2. DOMAIN d.timeline = 1..Len(d.timeline) /\ Len(x.timeline) \in Nat
        /\ DOMAIN x.timeline = 1..Len(x.timeline)
    BY <1>11, <1>12, ConversationFacts
  <2>3. n = Len(x.timeline) + 1 \/ n \in DOMAIN x.timeline BY <1>12, <2>2
  <2> QED BY <1>9, <1>12, <1>18, <2>1, <2>2, <2>3 DEF Finished
<1> QED BY <1>3, <1>13, <1>14, <1>16, <1>17, <1>18, StoringKeeps

-----------------------------------------------------------------------------
(* The stream *)

\* What a change of the reply leaves pending.
LEMMA RevisedPending ==
    ASSUME ContextInv, ~past.failed, NEW s \in Sessions, s = sender.session, NEW c \in cache[s],
           NEW d, \/ Revises(c, d)
                  \/ d.timeline = c.timeline,
           NEW n \in DOMAIN d.timeline, d.timeline[n].state = "pending"
    PROVE  d.timeline[n].request <= past.before \/ d.timeline[n].request = sender.request
<1>1. c \in Conversations BY CopiesSound DEF Sound
<1>2. /\ DOMAIN c.timeline = 1..Len(c.timeline)
      /\ Revises(c, d) => DOMAIN d.timeline = 1..Len(c.timeline)
  BY <1>1, ConversationFacts DEF Revises
<1>3. /\ n \in DOMAIN c.timeline /\ d.timeline[n].request = c.timeline[n].request
      /\ \/ c.timeline[n].request = sender.request
         \/ c.timeline[n].state = "pending"
  BY <1>2 DEF Revises
<1> QED BY <1>3 DEF ContextInv, PendingOK

\* An event of the stream stores the conversation d in the place of c.
LEMMA EventStores ==
    ASSUME ContextInv, PageInv', NEW s, s = sender.session,
           sender.stage \in {"streaming", "stopping"},
           UNCHANGED <<disk, boot, list, active, ref, loading, sent, past>>,
           NEW c \in cache[s], NEW d \in Conversations, Persist(queue, s, d),
           Upto(c, sent) => Upto(d, sent),
           s \notin past.unread => Matches(d) /\ Extends(c, d),
           \/ sender' = Idle
           \/ /\ sender'.stage = sender.stage /\ sender'.session = s
              /\ sender'.current = sender.current /\ sender'.request = sender.request
              /\ sender'.got \in {"nothing", "snapshot", "done"}
              /\ Read(s) => Continues(d)',
           ~past.failed => \A n \in DOMAIN d.timeline : d.timeline[n].state = "pending" =>
              \/ d.timeline[n].request <= past.before
              \/ sender'.stage \in Replying /\ d.timeline[n].request = sender'.request
    PROVE  ContextInv'
<1>1. PageInv /\ Shaped /\ SenderOK /\ IsSeq(queue) BY QueueFacts DEF ContextInv
<1>2. s \in Sessions /\ sender.stage \in Holding BY <1>1 DEF Shaped, Holding
<1>3. Storing(queue, d)
  <2>1. Lengthens(queue, queue) /\ Added(queue, queue) = {} BY <1>1, AsItWas
  <2>2. sender'.stage = sender.stage => sender'.stage \in Replying BY DEF Replying
  <2> QED BY <1>2, <2>1, <2>2 DEF Storing
<1>4. Sound(s, c) BY <1>2, CopiesSound
<1>5. Sound(s, d) BY <1>4 DEF Sound
<1>6. SenderOK'
  <2>1. CASE sender' = Idle BY <2>1, IdleFacts DEF SenderOK, Holding
  <2>2. CASE sender' # Idle
    <3>1. \A e \in cache'[s] : e = d BY <1>3, StoringFacts
    <3>2. /\ sender.request \in Int /\ sender.request <= sent
          /\ \A n \in DOMAIN sender.current.timeline :
                sender.current.timeline[n].request < sender.request
      BY <1>1, <1>2 DEF SenderOK
    <3>3. Read(s)' => Read(s) BY DEF Read
    <3> QED BY <1>2, <2>2, <3>1, <3>2, <3>3 DEF SenderOK, Holding
  <2> QED BY <2>1, <2>2
<1>7. s \notin past.unread => /\ \A n \in DOMAIN saves[s] : Extends(saves[s][n], d)
                              /\ \A e \in disk[s].held : Extends(e, d)
  BY <1>2, SavesExtend
<1> QED BY <1>3, <1>5, <1>6, <1>7, StoringKeeps

\* The page hears of an event in a conversation that it does not know any more.
LEMMA GotKeeps ==
    ASSUME ContextInv, PageInv', NEW got \in {"nothing", "snapshot", "done"},
           sender.stage = "streaming", cache[sender.session] = Nothing,
           UNCHANGED <<disk, queue, boot, list, active, ref, shown, loading, cache, saves,
                       sent, past>>,
           sender' = [sender EXCEPT !.got = got]
    PROVE  ContextInv'
<1>1. /\ PageInv /\ Shaped /\ CopiesOK /\ SenderOK /\ PendingOK /\ ScreenOK /\ RecordsOK
      /\ IsSeq(queue) /\ sent \in Int
  BY QueueFacts DEF ContextInv, CopiesOK
<1>2. /\ sender'.stage = "streaming" /\ sender'.session = sender.session
      /\ sender'.current = sender.current /\ sender'.request = sender.request
      /\ sender'.got = got
  BY <1>1 DEF Shaped
<1>3. Calling BY <1>1, CallingNone DEF Calling, Calls
<1>4. Added(queue, queue') = {} BY <1>1, CallingNone
<1>5. \A s \in Sessions : SendsIn(s)' => SendsIn(s) BY <1>2 DEF SendsIn
<1>6. CopiesOK' BY <1>2, <1>3, CopyCases, CallingCopies
<1>7. SavesOK' /\ FailuresOK' /\ StoredOK' BY <1>3, CallingSaves, CallingStored
<1>8. SenderOK'
  <2>1. \A c \in cache'[sender.session] : FALSE BY DEF Nothing
  <2> QED BY <1>1, <1>2, <2>1 DEF SenderOK, Holding
<1>9. CreatingOK' BY <1>2 DEF CreatingOK
<1>10. DeletedOK' BY <1>3, <1>5, CallingDeleted
<1>11. LoadsOK' BY <1>3, <1>4, <1>5, CallingLoads
<1>12. HistoryOK' BY <1>2, <1>3, CallingHistory
<1>13. RecordsOK' /\ EarlyOK' /\ TitlesOK' BY <1>3, <1>4, <1>5, CallingTitles
<1>14. PendingOK' BY <1>1, <1>2 DEF PendingOK, Replying, Finished
<1>15. ScreenOK' BY <1>1 DEF ScreenOK
<1> QED BY <1>6, <1>7, <1>8, <1>9, <1>10, <1>11, <1>12, <1>13, <1>14, <1>15 DEF ContextInv

\* An event of the stream changes the reply.
LEMMA RevisionKeeps ==
    ASSUME ContextInv, PageInv', NEW s, s = sender.session,
           sender.stage \in {"streaming", "stopping"},
           UNCHANGED <<disk, boot, list, active, ref, loading, sent, past>>,
           NEW c \in cache[s], NEW d, Revises(c, d), Persist(queue, s, d),
           s \notin past.unread => \A n \in 1..Len(c.timeline) :
              c.timeline[n].request = sender.request /\ d.timeline[n].state = "done" =>
                  c.context[n].whole,
           \/ /\ sender' = Idle
              /\ \A n \in 1..Len(c.timeline) :
                    c.timeline[n].request = sender.request => d.timeline[n].state # "pending"
           \/ /\ sender'.stage = sender.stage /\ sender'.session = s
              /\ sender'.current = sender.current /\ sender'.request = sender.request
              /\ sender'.got \in {"nothing", "snapshot", "done"}
              /\ Read(s) => Continues(d)'
    PROVE  ContextInv'
<1>1. s \in Sessions BY QueueFacts DEF ContextInv, Shaped
<1>2. Sound(s, c) /\ c \in Conversations BY <1>1, CopiesSound DEF Sound
<1>3. /\ d \in Conversations /\ Extends(c, d)
      /\ Upto(c, sent) => Upto(d, sent)
      /\ Matches(c) /\ (\A n \in 1..Len(c.timeline) :
                           d.timeline[n].state = "done" => c.context[n].whole)
         => Matches(d)
  BY <1>2, RevisedFacts
<1>4. /\ DOMAIN c.timeline = 1..Len(c.timeline) /\ DOMAIN d.timeline = 1..Len(c.timeline)
      /\ \A n \in 1..Len(c.timeline) :
            /\ d.timeline[n].request = c.timeline[n].request
            /\ c.timeline[n].request # sender.request => d.timeline[n] = c.timeline[n]
  BY <1>2, <1>3, ConversationFacts DEF Revises
<1>5. ASSUME s \notin past.unread PROVE Matches(d) /\ Extends(c, d)
  <2>1. Matches(c) BY <1>2, <1>5 DEF Sound
  <2>2. ASSUME NEW n \in 1..Len(c.timeline), d.timeline[n].state = "done"
        PROVE  c.context[n].whole
    <3>1. CASE c.timeline[n].request = sender.request BY <1>5, <2>2, <3>1
    <3>2. CASE c.timeline[n].request # sender.request
      <4>1. c.timeline[n].state = "done" /\ n \in DOMAIN c.timeline BY <1>4, <2>2, <3>2
      <4> QED BY <2>1, <4>1, Zenon DEF Matches
    <3> QED BY <3>1, <3>2
  <2> QED BY <1>3, <2>1, <2>2
<1>6. ASSUME ~past.failed, NEW n \in DOMAIN d.timeline, d.timeline[n].state = "pending"
      PROVE  \/ d.timeline[n].request <= past.before
             \/ sender'.stage \in Replying /\ d.timeline[n].request = sender'.request
  <2>1. d.timeline[n].request <= past.before \/ d.timeline[n].request = sender.request
    BY <1>1, <1>6, RevisedPending
  <2> QED BY <1>4, <1>6, <2>1 DEF Replying
<1>7. \/ sender' = Idle
      \/ /\ sender'.stage = sender.stage /\ sender'.session = s
         /\ sender'.current = sender.current /\ sender'.request = sender.request
         /\ sender'.got \in {"nothing", "snapshot", "done"}
         /\ Read(s) => Continues(d)'
  OBVIOUS
<1> QED BY <1>3, <1>5, <1>6, <1>7, EventStores

\* The conversation of the message under way, which the page may not know any more.
LEMMA StreamFacts ==
    ASSUME ContextInv, sender.stage \in {"streaming", "stopping"}, NEW s, s = sender.session
    PROVE  /\ s \in Sessions /\ Underway
           /\ cache[s] # Nothing => Current(s) \in cache[s]
           /\ cache[s] = Nothing => Current(s) = Empty
           /\ \A c \in cache[s] : /\ c \in Conversations
                                  /\ Read(s) => Continues(c)
           /\ s \notin past.unread => Matches(sender.current) /\ Read(s)
           /\ sender.got \in {"nothing", "snapshot", "done"}
<1>1. PageInv /\ Shaped /\ SenderOK BY QueueFacts DEF ContextInv
<1>2. s \in Sessions BY <1>1 DEF Shaped
<1>3. /\ \A c \in cache[s] : c \in Conversations
      /\ sender.current \in Conversations /\ One(cache[s])
      /\ s \notin past.unread => Matches(sender.current)
  BY <1>2, CopiesSound DEF Sound
<1>4. Underway /\ sender.got \in {"nothing", "snapshot", "done"}
  BY <1>1, <1>3 DEF SenderOK, Holding, Underway
<1>5. Read(s) => \A c \in cache[s] : Continues(c) BY <1>1 DEF SenderOK, Holding
<1>6. /\ cache[s] # Nothing => Current(s) \in cache[s]
      /\ cache[s] = Nothing => Current(s) = Empty
  BY <1>3, HeldFacts DEF Current
<1> QED BY <1>2, <1>3, <1>4, <1>5, <1>6 DEF Read

\* An event that is not the last ones finds the reply.
LEMMA GeneratingFacts ==
    ASSUME ContextInv, Generating, NEW s, s = sender.session
    PROVE  /\ sender.stage = "streaming" /\ sender.got = "nothing"
           /\ UNCHANGED <<disk, boot, list, active, ref, loading, sent, past>>
           /\ cache[s] # Nothing
<1>1. /\ sender.stage = "streaming" /\ sender.got = "nothing"
      /\ UNCHANGED <<disk, boot, list, active, ref, loading, sent, past>>
      /\ ToSet(Current(s).timeline) # {}
  BY DEF Generating, Streams
<1>2. cache[s] = Nothing => Current(s).timeline = <<>> BY <1>1, StreamFacts, EmptyFacts
<1>3. ToSet(<<>>) = {} BY DEF ToSet
<1> QED BY <1>1, <1>2, <1>3

LEMMA TextDeltaInv == ASSUME ContextInv, PageInv', TextDelta PROVE ContextInv'
<1>1. PICK s : s = sender.session OBVIOUS
<1>2. PICK c : c = Current(s) OBVIOUS
<1>3. PICK d : d = WithText(c) OBVIOUS
<1>4. /\ sender.stage = "streaming" /\ sender.got = "nothing"
      /\ UNCHANGED <<disk, boot, list, active, ref, loading, sent, past>>
      /\ cache[s] # Nothing /\ sender' = sender
  BY <1>1, GeneratingFacts DEF TextDelta
<1>5. /\ s \in Sessions /\ Underway /\ c \in cache[s] /\ c \in Conversations
      /\ Read(s) => Continues(c)
      /\ s \notin past.unread => Read(s)
  BY <1>1, <1>2, <1>4, StreamFacts
<1>6. Persist(queue, s, d) BY <1>1, <1>2, <1>3, <1>4, TextStores DEF Stores
<1>7. /\ Revises(c, d)
      /\ \A n \in 1..Len(c.timeline) : d.timeline[n].state = c.timeline[n].state
  BY <1>3, <1>5, WithTextFacts
<1>8. s \notin past.unread => \A n \in 1..Len(c.timeline) :
         c.timeline[n].request = sender.request /\ d.timeline[n].state = "done" =>
             c.context[n].whole
  <2>1. s \notin past.unread => Matches(c) BY <1>5, CopiesSound DEF Sound
  <2>2. DOMAIN c.timeline = 1..Len(c.timeline) BY <1>5, ConversationFacts
  <2> QED BY <1>7, <2>1, <2>2, Zenon DEF Matches
<1>9. Read(s) => Continues(d)'
  <2>1. ASSUME Continues(c) PROVE Follows(d, sender.current, sender.request, "nothing")
    <3>1. PICK x : x = sender.current OBVIOUS
    <3>2. PICK r : r = sender.request OBVIOUS
    <3>3. /\ Len(d.timeline) = Len(x.timeline) + 1
          /\ d.timeline[Len(x.timeline) + 1].request = r
          /\ \A n \in 1..Len(x.timeline) : d.timeline[n] = x.timeline[n]
          /\ d.context = c.context
      BY <1>5, <1>7, <2>1, <3>1, <3>2, RevisedContinues
    <3>4. /\ c.context = Append(x.context, Mark(r, FALSE))
          /\ c.timeline[Len(x.timeline) + 1].state # "done"
      BY <1>4, <2>1, <3>1, <3>2, Zenon DEF Continues, Follows
    <3>5. Len(x.timeline) + 1 \in 1..Len(c.timeline) BY <1>5, <2>1, <3>1, ReplyIsLast
    <3>6. d.timeline[Len(x.timeline) + 1].state # "done" BY <1>7, <3>4, <3>5
    <3>7. d.context = Append(x.context, Mark(r, FALSE)) BY <3>3, <3>4, Zenon
    <3>8. Follows(d, x, r, "nothing") BY <3>3, <3>6, <3>7, Zenon DEF Follows
    <3> QED BY <3>1, <3>2, <3>8
  <2>2. Read(s) => Follows(d, sender.current, sender.request, "nothing") BY <1>5, <2>1
  <2> QED BY <1>4, <2>2 DEF Continues
<1>10. /\ sender'.stage = sender.stage /\ sender'.session = s
       /\ sender'.current = sender.current /\ sender'.request = sender.request
       /\ sender'.got \in {"nothing", "snapshot", "done"}
       /\ Read(s) => Continues(d)'
  BY <1>1, <1>4, <1>9
<1>11. /\ s = sender.session /\ sender.stage \in {"streaming", "stopping"} /\ c \in cache[s]
       /\ UNCHANGED <<disk, boot, list, active, ref, loading, sent, past>>
  BY <1>1, <1>4, <1>5
<1> QED BY <1>6, <1>7, <1>8, <1>10, <1>11, RevisionKeeps

LEMMA ErrorEventInv == ASSUME ContextInv, PageInv', ErrorEvent PROVE ContextInv'
<1>1. PICK s : s = sender.session OBVIOUS
<1>2. PICK c : c = Current(s) OBVIOUS
<1>3. PICK d : d = InState(c, "cut") OBVIOUS
<1>4. /\ sender.stage = "streaming" /\ sender.got = "nothing"
      /\ UNCHANGED <<disk, boot, list, active, ref, loading, sent, past>>
      /\ cache[s] # Nothing /\ sender' = sender
  BY <1>1, GeneratingFacts DEF ErrorEvent
<1>5. /\ s \in Sessions /\ Underway /\ c \in cache[s] /\ c \in Conversations
      /\ Read(s) => Continues(c)
  BY <1>1, <1>2, <1>4, StreamFacts
<1>6. Persist(queue, s, d)
  <2>1. Stores(InState(Current(sender.session), "cut")) BY SettleStores DEF ErrorEvent
  <2> QED BY <1>1, <1>2, <1>3, <1>4, <2>1 DEF Stores
<1>7. /\ Revises(c, d)
      /\ \A n \in 1..Len(c.timeline) :
            c.timeline[n].request = sender.request => d.timeline[n].state = "cut"
  BY <1>3, <1>5, InStateFacts
<1>8. s \notin past.unread => \A n \in 1..Len(c.timeline) :
         c.timeline[n].request = sender.request /\ d.timeline[n].state = "done" =>
             c.context[n].whole
  BY <1>7
<1>9. Read(s) => Continues(d)'
  <2>1. ASSUME Continues(c) PROVE Follows(d, sender.current, sender.request, "nothing")
    <3>1. PICK x : x = sender.current OBVIOUS
    <3>2. PICK r : r = sender.request OBVIOUS
    <3>3. /\ Len(d.timeline) = Len(x.timeline) + 1
          /\ d.timeline[Len(x.timeline) + 1].request = r
          /\ \A n \in 1..Len(x.timeline) : d.timeline[n] = x.timeline[n]
          /\ d.context = c.context
      BY <1>5, <1>7, <2>1, <3>1, <3>2, RevisedContinues
    <3>4. c.context = Append(x.context, Mark(r, FALSE))
      BY <1>4, <2>1, <3>1, <3>2, Zenon DEF Continues, Follows
    <3>5. /\ Len(x.timeline) + 1 \in 1..Len(c.timeline)
          /\ c.timeline[Len(x.timeline) + 1].request = sender.request
      BY <1>5, <2>1, <3>1, ReplyIsLast
    <3>6. d.timeline[Len(x.timeline) + 1].state # "done" BY <1>7, <3>5
    <3>7. d.context = Append(x.context, Mark(r, FALSE)) BY <3>3, <3>4, Zenon
    <3>8. Follows(d, x, r, "nothing") BY <3>3, <3>6, <3>7, Zenon DEF Follows
    <3> QED BY <3>1, <3>2, <3>8
  <2>2. Read(s) => Follows(d, sender.current, sender.request, "nothing") BY <1>5, <2>1
  <2> QED BY <1>4, <2>2 DEF Continues
<1>10. /\ sender'.stage = sender.stage /\ sender'.session = s
       /\ sender'.current = sender.current /\ sender'.request = sender.request
       /\ sender'.got \in {"nothing", "snapshot", "done"}
       /\ Read(s) => Continues(d)'
  BY <1>1, <1>4, <1>9
<1>11. /\ s = sender.session /\ sender.stage \in {"streaming", "stopping"} /\ c \in cache[s]
       /\ UNCHANGED <<disk, boot, list, active, ref, loading, sent, past>>
  BY <1>1, <1>4, <1>5
<1> QED BY <1>6, <1>7, <1>8, <1>10, <1>11, RevisionKeeps

LEMMA MarkAppended ==
    ASSUME NEW x \in Conversations, NEW k \in Marks, NEW w, w = Append(x.context, k)
    PROVE  /\ w \in Seq(Marks) /\ Len(w) = Len(x.context) + 1
           /\ \A n \in 1..Len(x.context) : w[n] = x.context[n]
           /\ w[Len(x.context) + 1] = k
<1>1. x.context \in Seq(Marks) /\ Len(x.context) \in Nat BY ConversationFacts
<1>2. w \in Seq(Marks) BY <1>1
<1>3. IsSeq(x.context) BY <1>1, OwnElements
<1> QED BY <1>2, <1>3, AppendFacts

\* What the server made of the conversation that was sent, x.
Served(x, r) == Append(x.context, Mark(r, TRUE))

LEMMA ServedFacts ==
    ASSUME NEW x \in Conversations, NEW r \in Int
    PROVE  /\ Served(x, r) \in Seq(Marks) /\ Len(Served(x, r)) = Len(x.context) + 1
           /\ \A n \in 1..Len(x.context) : Served(x, r)[n] = x.context[n]
           /\ Served(x, r)[Len(x.context) + 1].request = r
           /\ Served(x, r)[Len(x.context) + 1].whole
<1>1. PICK k : k = Mark(r, TRUE) OBVIOUS
<1>2. k \in Marks /\ k.request = r BY <1>1 DEF Mark, Marks
<1>3. k.whole BY <1>1 DEF Mark
<1>4. PICK w : w = Append(x.context, k) OBVIOUS
<1>5. /\ w \in Seq(Marks) /\ Len(w) = Len(x.context) + 1
      /\ \A n \in 1..Len(x.context) : w[n] = x.context[n]
      /\ w[Len(x.context) + 1] = k
  <2>1. x.context \in Seq(Marks) /\ Len(x.context) \in Nat BY ConversationFacts
  <2>2. PICK u : u = x.context OBVIOUS
  <2>3. w = Append(u, k) /\ u \in Seq(Marks) /\ k \in Marks BY <1>2, <1>4, <2>1, <2>2
  <2>4. /\ w \in Seq(Marks) /\ Len(w) = Len(u) + 1 /\ w[Len(u) + 1] = k
        /\ \A n \in 1..Len(u) : w[n] = u[n]
    BY <2>3
  <2> QED BY <2>2, <2>4
<1>6. w = Served(x, r) BY <1>1, <1>4, Zenon DEF Served
<1>7. w[Len(x.context) + 1].whole BY <1>3, <1>5, Zenon
<1> QED BY <1>2, <1>5, <1>6, <1>7

LEMMA DoneEventInv == ASSUME ContextInv, PageInv', DoneEvent PROVE ContextInv'
<1>1. PICK s : s = sender.session OBVIOUS
<1>2. PICK c : c = Current(s) OBVIOUS
<1>3. PICK d : d = InState(c, "done") OBVIOUS
<1>4. /\ sender.stage = "streaming" /\ sender.got = "snapshot"
      /\ UNCHANGED <<disk, boot, list, active, ref, loading, sent, past>>
      /\ sender' = [sender EXCEPT !.got = "done"]
      /\ Stores(InState(Current(sender.session), "done"))
  BY SettleStores DEF DoneEvent, Streams, Gets
<1>5. Shaped BY QueueFacts DEF ContextInv
<1>6. CASE cache[s] = Nothing
  <2>1. UNCHANGED <<queue, cache, shown, saves>> BY <1>1, <1>4, <1>6 DEF Stores
  <2> QED BY <1>1, <1>4, <1>6, <2>1, GotKeeps
<1>7. CASE cache[s] # Nothing
  <2>1. /\ s \in Sessions /\ Underway /\ c \in cache[s] /\ c \in Conversations
        /\ Read(s) => Continues(c)
        /\ s \notin past.unread => Matches(sender.current) /\ Read(s)
    BY <1>1, <1>2, <1>4, <1>7, StreamFacts
  <2>2. Persist(queue, s, d) BY <1>1, <1>2, <1>3, <1>4, <1>7 DEF Stores
  <2>3. /\ Revises(c, d)
        /\ \A n \in 1..Len(c.timeline) :
              c.timeline[n].request = sender.request => d.timeline[n].state = "done"
    BY <1>3, <2>1, InStateFacts
  <2>4. PICK x : x = sender.current OBVIOUS
  <2>5. PICK r : r = sender.request OBVIOUS
  <2>6. Continues(c) => c.context = Served(x, r)
    BY <1>4, <2>4, <2>5, Zenon DEF Continues, Follows, Served
  <2>7. Continues(c) =>
          /\ Len(x.timeline) + 1 \in 1..Len(c.timeline)
          /\ \A n \in 1..Len(c.timeline) :
                c.timeline[n].request = sender.request <=> n = Len(x.timeline) + 1
    BY <2>1, <2>4, ReplyIsLast
  <2>8. ASSUME s \notin past.unread, NEW n \in 1..Len(c.timeline),
               c.timeline[n].request = sender.request
        PROVE  c.context[n].whole
    <3>1. Continues(c) /\ Matches(x) BY <2>1, <2>4, <2>8
    <3>2. n = Len(x.context) + 1 BY <2>7, <2>8, <3>1 DEF Matches
    <3>3. x \in Conversations /\ r \in Int BY <2>1, <2>4, <2>5 DEF Underway
    <3>4. c.context[Len(x.context) + 1].whole BY <2>6, <3>1, <3>3, ServedFacts
    <3> QED BY <3>2, <3>4, Zenon
  <2>9. Read(s) => Continues(d)'
    <3>1. ASSUME Continues(c) PROVE Follows(d, x, r, "done")
      <4>1. /\ Len(d.timeline) = Len(x.timeline) + 1
            /\ d.timeline[Len(x.timeline) + 1].request = r
            /\ \A n \in 1..Len(x.timeline) : d.timeline[n] = x.timeline[n]
            /\ d.context = c.context
        BY <2>1, <2>3, <2>4, <2>5, <3>1, RevisedContinues
      <4>2. d.timeline[Len(x.timeline) + 1].state = "done" BY <2>3, <2>7, <3>1
      <4>3. d.context = Served(x, r) BY <2>6, <3>1, <4>1, Zenon
      <4> QED BY <4>1, <4>2, <4>3, Zenon DEF Follows, Served
    <3>2. Read(s) => Follows(d, x, r, "done") BY <2>1, <3>1
    <3>3. sender'.current = x /\ sender'.request = r /\ sender'.got = "done"
      BY <1>4, <1>5, <2>4, <2>5 DEF Shaped
    <3> QED BY <3>2, <3>3 DEF Continues
  <2>10. \/ sender' = Idle
         \/ /\ sender'.stage = sender.stage /\ sender'.session = s
            /\ sender'.current = sender.current /\ sender'.request = sender.request
            /\ sender'.got \in {"nothing", "snapshot", "done"}
            /\ Read(s) => Continues(d)'
    BY <1>1, <1>4, <1>5, <2>9 DEF Shaped
  <2>11. s \notin past.unread => \A n \in 1..Len(c.timeline) :
           c.timeline[n].request = sender.request /\ d.timeline[n].state = "done" =>
               c.context[n].whole
    BY <2>8
  <2> QED BY <1>1, <1>4, <2>1, <2>2, <2>3, <2>10, <2>11, RevisionKeeps
<1> QED BY <1>6, <1>7

LEMMA SnapshotFacts ==
    ASSUME NEW x \in Conversations, NEW r \in Int, NEW c \in Conversations,
           NEW w \in Seq(Marks), Len(w) = Len(x.context) + 1,
           \A n \in 1..Len(x.context) : w[n] = x.context[n],
           w[Len(x.context) + 1].request = r, w[Len(x.context) + 1].whole,
           NEW d, d = [c EXCEPT !.context = w]
    PROVE  /\ d \in Conversations /\ d.timeline = c.timeline /\ d.context = w
           /\ Follows(c, x, r, "nothing") /\ Matches(c) /\ Matches(x)
              => Matches(d) /\ Extends(c, d)
<1>1. c.timeline \in Seq(Entries) /\ d = [timeline |-> c.timeline, context |-> w]
  BY ConversationFacts DEF Conversations
<1>2. d \in Conversations /\ d.timeline = c.timeline /\ d.context = w
  BY <1>1 DEF Conversations
<1>3. ASSUME Follows(c, x, r, "nothing"), Matches(c), Matches(x)
      PROVE  Matches(d) /\ Extends(c, d)
  <2>1. /\ Len(c.timeline) \in Nat /\ DOMAIN c.timeline = 1..Len(c.timeline)
        /\ Len(x.timeline) \in Nat /\ Len(x.context) = Len(x.timeline)
        /\ Len(c.timeline) = Len(x.timeline) + 1
        /\ c.timeline[Len(x.timeline) + 1].request = r
    <3>1. Len(x.context) = Len(x.timeline) BY <1>3 DEF Matches
    <3>2. Len(c.timeline) = Len(x.timeline) + 1
          /\ c.timeline[Len(x.timeline) + 1].request = r
      BY <1>3 DEF Follows
    <3> QED BY <3>1, <3>2, ConversationFacts
  <2>2. \A n \in 1..Len(c.timeline) : n \in 1..Len(x.timeline) \/ n = Len(x.timeline) + 1
    BY <2>1
  <2>3. \A n \in 1..Len(x.timeline) : c.context[n] = w[n]
    <3>1. PICK k : k = Mark(r, FALSE) OBVIOUS
    <3>2. k \in Marks BY <3>1 DEF Mark, Marks
    <3>3. c.context = Append(x.context, k) BY <1>3, <3>1, Zenon DEF Follows
    <3>4. \A n \in 1..Len(x.context) : c.context[n] = x.context[n]
      <4>1. PICK v : v = c.context OBVIOUS
      <4>2. v = Append(x.context, k) BY <3>3, <4>1, Zenon
      <4>3. \A n \in 1..Len(x.context) : v[n] = x.context[n]
        BY <3>2, <4>2, MarkAppended
      <4> QED BY <4>1, <4>3
    <3> QED BY <2>1, <3>4
  <2>4. \A n \in 1..Len(c.timeline) : w[n].request = c.timeline[n].request
    <3>1. \A n \in 1..Len(c.timeline) : c.context[n].request = c.timeline[n].request
      BY <1>3, <2>1 DEF Matches
    <3>2. \A n \in 1..Len(x.timeline) : n \in 1..Len(c.timeline) BY <2>1
    <3> QED BY <2>1, <2>2, <2>3, <3>1, <3>2
  <2>5. \A n \in 1..Len(c.timeline) : c.context[n].whole => w[n].whole
    <3>1. w[Len(x.timeline) + 1].whole BY <2>1, Zenon
    <3> QED BY <2>2, <2>3, <3>1, Zenon
  <2>6. \A n \in 1..Len(c.timeline) : c.timeline[n].state = "done" => w[n].whole
    BY <1>3, <2>1, <2>5, Zenon DEF Matches
  <2>7. Matches(d)
    <3>1. Len(d.timeline) = Len(d.context) BY <1>2, <2>1
    <3>2. ASSUME NEW n \in DOMAIN d.timeline
          PROVE  /\ d.context[n].request = d.timeline[n].request
                 /\ \A m \in 1..(n - 1) : d.timeline[m].request < d.timeline[n].request
      BY <1>2, <1>3, <2>1, <2>4 DEF Matches
    <3>3. \A n \in DOMAIN d.timeline : d.timeline[n].state = "done" => d.context[n].whole
      BY <1>2, <2>1, <2>6, Zenon
    <3> QED BY <3>1, <3>2, <3>3, Zenon DEF Matches
  <2>8. Extends(c, d)
    <3>1. \A n \in 1..Len(c.timeline) :
             /\ c.timeline[n].request = d.timeline[n].request
             /\ c.timeline[n].text <= d.timeline[n].text
      BY <1>2, ConversationFacts
    <3>2. \A n \in 1..Len(c.timeline) : c.context[n].whole => d.context[n].whole
      BY <1>2, <2>5, Zenon
    <3>3. Len(c.timeline) <= Len(d.timeline) BY <1>2, <2>1
    <3> QED BY <3>1, <3>2, <3>3, Zenon DEF Extends
  <2> QED BY <2>7, <2>8
<1> QED BY <1>2, <1>3, Zenon

LEMMA StateEventInv == ASSUME ContextInv, PageInv', StateEvent PROVE ContextInv'
<1>1. PICK s : s = sender.session OBVIOUS
<1>2. PICK c : c = Current(s) OBVIOUS
<1>3. PICK d : d = WithSnapshot(c) OBVIOUS
<1>4. /\ sender.stage = "streaming" /\ sender.got = "nothing"
      /\ UNCHANGED <<disk, boot, list, active, ref, loading, sent, past>>
      /\ sender' = [sender EXCEPT !.got = "snapshot"]
      /\ Stores(WithSnapshot(Current(sender.session)))
  BY SnapshotStores DEF StateEvent, Streams, Gets
<1>5. Shaped BY QueueFacts DEF ContextInv
<1>6. CASE cache[s] = Nothing
  <2>1. UNCHANGED <<queue, cache, shown, saves>> BY <1>1, <1>4, <1>6 DEF Stores
  <2> QED BY <1>1, <1>4, <1>6, <2>1, GotKeeps
<1>7. CASE cache[s] # Nothing
  <2>1. /\ s \in Sessions /\ Underway /\ c \in cache[s] /\ c \in Conversations
        /\ Read(s) => Continues(c)
        /\ s \notin past.unread => Matches(sender.current) /\ Read(s)
    BY <1>1, <1>2, <1>4, <1>7, StreamFacts
  <2>2. Persist(queue, s, d) BY <1>1, <1>2, <1>3, <1>4, <1>7 DEF Stores
  <2>3. PICK x : x = sender.current OBVIOUS
  <2>4. PICK r : r = sender.request OBVIOUS
  <2>5. /\ d \in Conversations /\ d.timeline = c.timeline
        /\ d.context = Served(x, r)
        /\ Continues(c) /\ Matches(c) /\ Matches(x) => Matches(d) /\ Extends(c, d)
    <3>1. PICK w : w = Served(x, r) OBVIOUS
    <3>2. x \in Conversations BY <2>1, <2>3 DEF Underway
    <3>0. r \in Int BY <2>1, <2>4 DEF Underway
    <3>3. /\ w \in Seq(Marks) /\ Len(w) = Len(x.context) + 1
          /\ \A n \in 1..Len(x.context) : w[n] = x.context[n]
          /\ w[Len(x.context) + 1].request = r /\ w[Len(x.context) + 1].whole
      BY <3>0, <3>1, <3>2, ServedFacts
    <3>4. d = [c EXCEPT !.context = w]
      BY <1>3, <2>3, <2>4, <3>1, Zenon DEF WithSnapshot, Snapshot, Served
    <3>5. Continues(c) => Follows(c, x, r, "nothing")
      BY <1>4, <2>3, <2>4, Zenon DEF Continues
    <3>6. /\ d \in Conversations /\ d.timeline = c.timeline /\ d.context = w
          /\ Follows(c, x, r, "nothing") /\ Matches(c) /\ Matches(x)
             => Matches(d) /\ Extends(c, d)
      BY <2>1, <3>0, <3>2, <3>3, <3>4, SnapshotFacts
    <3> QED BY <3>1, <3>5, <3>6, Zenon
  <2>6. /\ sender'.stage = sender.stage /\ sender'.session = s
        /\ sender'.current = x /\ sender'.request = r /\ sender'.got = "snapshot"
    BY <1>1, <1>4, <1>5, <2>3, <2>4 DEF Shaped
  <2>7. Read(s) => Continues(d)'
    <3>1. ASSUME Continues(c) PROVE Follows(d, x, r, "snapshot")
      <4>1. /\ Len(c.timeline) = Len(x.timeline) + 1
            /\ c.timeline[Len(x.timeline) + 1].request = r
            /\ \A n \in 1..Len(x.timeline) : c.timeline[n] = x.timeline[n]
        BY <2>3, <2>4, <3>1 DEF Continues, Follows
      <4>2. /\ Len(d.timeline) = Len(x.timeline) + 1
            /\ d.timeline[Len(x.timeline) + 1].request = r
            /\ \A n \in 1..Len(x.timeline) : d.timeline[n] = x.timeline[n]
        BY <2>5, <4>1, Zenon
      <4>3. "snapshot" # "nothing" /\ "snapshot" # "done" OBVIOUS
      <4> QED BY <2>5, <4>2, <4>3, Zenon DEF Follows, Served
    <3>2. Read(s) => Follows(d, x, r, "snapshot") BY <2>1, <3>1
    <3> QED BY <2>6, <3>2 DEF Continues
  <2>8. Upto(c, sent) => Upto(d, sent) BY <2>5 DEF Upto
  <2>9. s \notin past.unread => Matches(d) /\ Extends(c, d)
    <3>1. s \notin past.unread => Matches(c) BY <2>1, CopiesSound DEF Sound
    <3> QED BY <2>1, <2>3, <2>5, <3>1, Zenon
  <2>10. ASSUME ~past.failed, NEW n \in DOMAIN d.timeline, d.timeline[n].state = "pending"
         PROVE  \/ d.timeline[n].request <= past.before
                \/ sender'.stage \in Replying /\ d.timeline[n].request = sender'.request
    <3>1. d.timeline[n].request <= past.before \/ d.timeline[n].request = sender.request
      BY <1>1, <2>1, <2>5, <2>10, RevisedPending
    <3>2. sender'.stage \in Replying BY <1>4, <2>6 DEF Replying
    <3> QED BY <2>4, <2>6, <3>1, <3>2
  <2>11. \/ sender' = Idle
         \/ /\ sender'.stage = sender.stage /\ sender'.session = s
            /\ sender'.current = sender.current /\ sender'.request = sender.request
            /\ sender'.got \in {"nothing", "snapshot", "done"}
            /\ Read(s) => Continues(d)'
    BY <2>3, <2>4, <2>6, <2>7
  <2>12. d \in Conversations BY <2>5
  <2> HIDE <2>5
  <2> QED BY <1>1, <1>4, <2>1, <2>2, <2>8, <2>9, <2>10, <2>11, <2>12, EventStores
<1> QED BY <1>6, <1>7

LEMMA StreamEndsInv == ASSUME ContextInv, PageInv', StreamEnds PROVE ContextInv'
<1>1. PICK s : s = sender.session OBVIOUS
<1>2. PICK c : c = Current(s) OBVIOUS
<1>3. PICK d : d = InState(c, "cut") OBVIOUS
<1>4. /\ sender.stage \in {"streaming", "stopping"} /\ sender' = Idle
      /\ UNCHANGED <<disk, boot, list, active, ref, loading, sent, past>>
      /\ \/ sender.got = "done" /\ UNCHANGED <<queue, cache, shown, saves>>
         \/ Stores(InState(Current(sender.session), "cut"))
  BY SettleStores DEF StreamEnds, Streams
<1>5. /\ s \in Sessions /\ Underway
      /\ cache[s] # Nothing => c \in cache[s]
      /\ \A e \in cache[s] : /\ e \in Conversations
                             /\ Read(s) => Continues(e)
  BY <1>1, <1>2, <1>4, StreamFacts
<1>6. CASE UNCHANGED <<queue, cache, shown, saves>> /\ (cache[s] = Nothing \/ sender.got = "done")
  <2>1. Calling BY <1>4, <1>6, CallingNone DEF Calling, Calls, ContextInv, CopiesOK
  <2>2. ASSUME ~past.failed, NEW e \in cache[s] PROVE Finished(e)
    <3>1. PICK x : x = sender.current OBVIOUS
    <3>2. Continues(e) /\ sender.got = "done" BY <1>5, <1>6, <2>2 DEF Read, Nothing
    <3>3. /\ Len(e.timeline) = Len(x.timeline) + 1
          /\ \A n \in 1..Len(x.timeline) : e.timeline[n] = x.timeline[n]
          /\ e.timeline[Len(x.timeline) + 1].state = "done"
      BY <3>1, <3>2, Zenon DEF Continues, Follows
    <3>4. /\ DOMAIN e.timeline = 1..Len(e.timeline) /\ Len(x.timeline) \in Nat
          /\ DOMAIN x.timeline = 1..Len(x.timeline)
      BY <1>5, <3>1, ConversationFacts DEF Underway
    <3>5. \A n \in DOMAIN e.timeline : n \in 1..Len(x.timeline) \/ n = Len(x.timeline) + 1
      BY <3>3, <3>4
    <3>6. Finished(x) BY <2>2, <3>1 DEF ContextInv, PendingOK
    <3> QED BY <3>3, <3>4, <3>5, <3>6 DEF Finished
  <2>3. past.failed \/ \A e \in cache[sender.session] : Finished(e) BY <1>1, <2>2
  <2> QED BY <1>4, <1>6, <2>1, <2>3, CallingNone, StayingKeeps DEF ContextInv
<1>7. CASE cache[s] # Nothing /\ Stores(InState(Current(sender.session), "cut"))
  <2>1. Persist(queue, s, d) BY <1>1, <1>2, <1>3, <1>7 DEF Stores
  <2>2. /\ Revises(c, d)
        /\ \A n \in 1..Len(c.timeline) :
              c.timeline[n].request = sender.request => d.timeline[n].state = "cut"
    BY <1>3, <1>5, <1>7, InStateFacts
  <2>3. s \notin past.unread => \A n \in 1..Len(c.timeline) :
           c.timeline[n].request = sender.request /\ d.timeline[n].state = "done" =>
               c.context[n].whole
    BY <2>2
  <2>4. \A n \in 1..Len(c.timeline) :
           c.timeline[n].request = sender.request => d.timeline[n].state # "pending"
    BY <2>2
  <2> QED BY <1>1, <1>4, <1>5, <1>7, <2>1, <2>2, <2>3, <2>4, RevisionKeeps
<1>8. \/ cache[s] # Nothing /\ Stores(InState(Current(sender.session), "cut"))
      \/ UNCHANGED <<queue, cache, shown, saves>> /\ (cache[s] = Nothing \/ sender.got = "done")
  BY <1>1, <1>4 DEF Stores
<1> QED BY <1>6, <1>7, <1>8

-----------------------------------------------------------------------------
(* What a transaction does *)

\* The operation op is over, as x: the transaction failed; the sessions are listed; or
\* it did to the session's record what it is called for.
Fails(x) == x.result = "failed" /\ past'.failed /\ UNCHANGED disk /\ past'.deleted = past.deleted

Lists(op, x) ==
    /\ op.kind = "list" /\ x.result = "ok" /\ x.titles = Titles
    /\ UNCHANGED <<disk, past>>

Does(op, x) ==
    LET s == op.session
    IN  /\ op.kind # "list" /\ x.result = "ok"
        /\ \A y \in Sessions : y # s => disk'[y] = disk[y]
        /\ x.title = disk'[s].title /\ x.held = disk'[s].held
        /\ op.kind = "save" => disk'[s].held = op.held
        /\ op.kind = "delete" => disk'[s].held = Nothing /\ disk'[s].title = NoTitle
        /\ op.kind \notin {"save", "delete"} => disk'[s].held = disk[s].held
        /\ op.kind = "create" => disk'[s].title # NoTitle
        /\ op.kind \in {"save", "load"} => disk'[s].title = disk[s].title
        /\ op.kind \in {"rename", "name"} => (disk'[s].title = NoTitle <=> disk[s].title = NoTitle)
        /\ op.kind = "delete" => past'.deleted = past.deleted \cup {s}
        /\ op.kind # "delete" => past'.deleted = past.deleted

Committing(n) ==
    LET op == queue[n]
        x == queue'[n]
    IN  /\ op.result = "none" /\ \A m \in 1..(n - 1) : queue[m].result # "none"
        /\ \A m \in n..Len(queue) : queue[m].result = "none"
        /\ Len(queue') = Len(queue) /\ DOMAIN queue' = DOMAIN queue
        /\ \A m \in DOMAIN queue : m # n => queue'[m] = queue[m]
        /\ x.kind = op.kind /\ x.session = op.session /\ x.alive = op.alive
        /\ op.kind \in Changes => op.session \in Sessions
        /\ UNCHANGED <<boot, list, active, ref, shown, loading, cache, saves, sender, sent>>
        /\ past'.unread = past.unread /\ past'.early = past.early /\ past'.before = past.before
        /\ past.failed => past'.failed
        /\ Fails(x) \/ Lists(op, x) \/ Does(op, x)
        /\ Fails(x) \/ Lists(op, x) => x.held = op.held

\* What the operation makes of the conversation.
LEMMA AfterHeld ==
    ASSUME Shaped, NEW op, WellFormed(op), op.kind # "list", op.result = "none"
    PROVE  LET x == disk[op.session]
               y == After(op)
           IN  /\ op.kind = "save" => y.held = op.held
               /\ op.kind = "delete" => y.held = Nothing /\ y.title = NoTitle
               /\ op.kind \notin {"save", "delete"} => y.held = x.held
               /\ op.kind \in {"rename", "name"} => (y.title = NoTitle <=> x.title = NoTitle)
<1> DEFINE x == disk[op.session]
<1>1. op.session \in Sessions /\ DOMAIN x = {"title", "held"}
  BY DEF WellFormed, Shaped
<1>2. CASE op.kind = "create" BY <1>1, <1>2 DEF After
<1>3. CASE op.kind = "save" BY <1>1, <1>3 DEF After
<1>4. CASE op.kind \in {"rename", "name"}
  <2>1. op.title # NoTitle BY <1>4 DEF WellFormed
  <2>2. After(op) = IF x.title = NoTitle THEN x ELSE [x EXCEPT !.title = op.title]
    BY <1>4 DEF After
  <2> QED BY <1>1, <1>4, <2>1, <2>2
<1>5. CASE op.kind = "delete"
  <2>1. After(op) = Absent BY <1>5 DEF After
  <2> QED BY <1>5, <2>1 DEF Absent
<1>6. CASE op.kind = "load"
  <2>1. After(op) = x BY <1>6 DEF After
  <2> QED BY <1>1, <1>6, <2>1
<1> QED BY <1>2, <1>3, <1>4, <1>5, <1>6 DEF WellFormed, Kinds

LEMMA CommittingFacts ==
    ASSUME PageInv, Commit
    PROVE  \E n \in DOMAIN queue : Committing(n)
<1>1. /\ Shaped /\ IsSeq(queue) /\ \A m \in DOMAIN queue : WellFormed(queue[m])
      /\ Len(queue) \in Nat /\ DOMAIN queue = 1..Len(queue)
      /\ \A k \in DOMAIN queue : \A m \in (k + 1)..Len(queue) : InLine(queue[k], queue[m])
  BY QueueFacts DEF PageInv, QueueOK
<1>2. PICK n \in DOMAIN queue :
         LET op == queue[n]
         IN  /\ op.result = "none" /\ \A m \in 1..(n - 1) : queue[m].result # "none"
             /\ \/ /\ queue' = [queue EXCEPT ![n] = Done(op)]
                   /\ disk' = IF op.kind = "list" THEN disk
                              ELSE [disk EXCEPT ![op.session] = After(op)]
                   /\ past' = IF op.kind = "delete"
                              THEN [past EXCEPT !.deleted = @ \cup {op.session}] ELSE past
                \/ /\ queue' = [queue EXCEPT ![n].result = "failed"]
                   /\ past' = [past EXCEPT !.failed = TRUE]
                   /\ disk' = disk
  BY DEF Commit
<1>3. PICK op : op = queue[n] OBVIOUS
<1>4. WellFormed(op) /\ op.result = "none" /\ (op.kind \in Changes => op.session \in Sessions)
  BY <1>1, <1>2, <1>3 DEF WellFormed, Changes
<1>5. UNCHANGED <<boot, list, active, ref, shown, loading, cache, saves, sender, sent>>
  BY DEF Commit, page
<1>6. \A m \in n..Len(queue) : queue[m].result = "none"
  <2> SUFFICES ASSUME NEW m \in n..Len(queue), m # n PROVE queue[m].result = "none"
    BY <1>2
  <2>1. m \in (n + 1)..Len(queue) BY <1>1
  <2>2. InLine(queue[n], queue[m]) BY <1>1, <2>1
  <2> QED BY <1>2, <2>2 DEF InLine
<1>7. ASSUME NEW x, queue' = [queue EXCEPT ![n] = x]
      PROVE  /\ Len(queue') = Len(queue) /\ DOMAIN queue' = DOMAIN queue
             /\ queue'[n] = x /\ \A m \in DOMAIN queue : m # n => queue'[m] = queue[m]
  BY <1>1, <1>7, ReplaceFacts
<1>8. CASE /\ queue' = [queue EXCEPT ![n].result = "failed"]
           /\ past' = [past EXCEPT !.failed = TRUE]
           /\ disk' = disk
  <2>1. PICK x : x = [op EXCEPT !.result = "failed"] OBVIOUS
  <2>2. /\ x.kind = op.kind /\ x.session = op.session /\ x.alive = op.alive
        /\ x.held = op.held /\ x.result = "failed" /\ queue' = [queue EXCEPT ![n] = x]
    BY <1>3, <1>4, <1>8, <2>1 DEF WellFormed, Fields
  <2>3. /\ past'.unread = past.unread /\ past'.early = past.early
        /\ past'.before = past.before /\ past'.deleted = past.deleted /\ past'.failed
    BY <1>1, <1>8 DEF Shaped
  <2>4. Fails(x) BY <1>8, <2>2, <2>3 DEF Fails
  <2> QED BY <1>2, <1>3, <1>4, <1>5, <1>6, <1>7, <2>2, <2>3, <2>4 DEF Committing
<1>9. CASE op.kind = "list" /\ queue' = [queue EXCEPT ![n] = Done(op)]
           /\ disk' = disk /\ past' = past
  <2>1. PICK x : x = Done(op) OBVIOUS
  <2>2. /\ x.kind = op.kind /\ x.session = op.session /\ x.alive = op.alive
        /\ x.held = op.held /\ x.result = "ok" /\ x.titles = Titles
    BY <1>4, <1>9, <2>1 DEF WellFormed, Fields, Done
  <2>3. Lists(op, x) BY <1>9, <2>2 DEF Lists
  <2> QED BY <1>2, <1>3, <1>4, <1>5, <1>6, <1>7, <1>9, <2>1, <2>2, <2>3 DEF Committing
<1>10. CASE /\ op.kind # "list" /\ queue' = [queue EXCEPT ![n] = Done(op)]
            /\ disk' = [disk EXCEPT ![op.session] = After(op)]
            /\ past' = IF op.kind = "delete"
                       THEN [past EXCEPT !.deleted = @ \cup {op.session}] ELSE past
  <2>1. PICK x : x = Done(op) OBVIOUS
  <2>2. PICK y : y = After(op) OBVIOUS
  <2>3. /\ x.kind = op.kind /\ x.session = op.session /\ x.alive = op.alive
        /\ x.result = "ok" /\ x.title = y.title /\ x.held = y.held
    BY <1>4, <1>10, <2>1, <2>2 DEF WellFormed, Fields, Done
  <2>4. /\ past'.unread = past.unread /\ past'.early = past.early
        /\ past'.before = past.before /\ (past'.failed <=> past.failed)
        /\ op.kind = "delete" => past'.deleted = past.deleted \cup {op.session}
    BY <1>1, <1>10 DEF Shaped
  <2>5. op.kind # "delete" => past'.deleted = past.deleted BY <1>10
  <2>6. op.session \in Sessions BY <1>4, <1>10 DEF WellFormed
  <2>7. disk'[op.session] = y /\ \A z \in Sessions : z # op.session => disk'[z] = disk[z]
    BY <1>1, <1>10, <2>2, <2>6 DEF Shaped
  <2>8. LET old == disk[op.session]
        IN  /\ op.kind = "save" => y.held = op.held
            /\ op.kind = "delete" => y.held = Nothing /\ y.title = NoTitle
            /\ op.kind \notin {"save", "delete"} => y.held = old.held
            /\ op.kind \in {"rename", "name"} => (y.title = NoTitle <=> old.title = NoTitle)
            /\ op.kind = "create" => y.title = "new"
            /\ op.kind \in {"save", "load"} => y.title = old.title
    BY <1>1, <1>4, <1>10, <2>2, AfterFacts, AfterHeld
  <2>9. Does(op, x) BY <1>10, <2>3, <2>4, <2>5, <2>7, <2>8 DEF Does, NoTitle
  <2>10. past.failed => past'.failed BY <2>4
  <2>11. ~Fails(x) /\ ~Lists(op, x) BY <1>10, <2>3 DEF Fails, Lists
  <2>12. past'.unread = past.unread /\ past'.early = past.early /\ past'.before = past.before
    BY <2>4
  <2> QED BY <1>2, <1>3, <1>4, <1>5, <1>6, <1>7, <1>10, <2>1, <2>3, <2>9, <2>10, <2>11, <2>12
          DEF Committing
<1> QED BY <1>2, <1>3, <1>8, <1>9, <1>10

\* What becomes of the conversations.
LEMMA CommittingHeld ==
    ASSUME ContextInv, PageInv', NEW n \in DOMAIN queue, Committing(n)
    PROVE  /\ n \in Nat /\ DOMAIN queue = 1..Len(queue) /\ DOMAIN queue' = DOMAIN queue
           /\ \A m \in DOMAIN queue :
                 /\ queue'[m].kind = queue[m].kind /\ queue'[m].session = queue[m].session
                 /\ queue'[m].alive = queue[m].alive
                 /\ m # n => queue'[m] = queue[m]
                 /\ m # n /\ queue[m].result # "none" => n \in (m + 1)..Len(queue)
           /\ queue[n].result = "none"
           /\ \A s \in Sessions :
                 \/ disk'[s].held = disk[s].held
                 \/ disk'[s].held = Nothing /\ IsDelete(queue[n], s)
                 \/ /\ IsSave(queue[n], s) /\ saves[s] # <<>>
                    /\ disk'[s].held = {saves[s][1]}
           /\ \/ queue'[n].held = queue[n].held
              \/ /\ queue'[n].session \in Sessions
                 /\ queue'[n].held = disk'[queue'[n].session].held
           /\ queue'[n].result = "ok" /\ queue'[n].kind # "list" =>
                 /\ queue'[n].held = disk'[queue'[n].session].held
                 /\ queue'[n].title = disk'[queue'[n].session].title
<1>1. /\ PageInv /\ SavesOK /\ Len(queue) \in Nat /\ DOMAIN queue = 1..Len(queue)
      /\ \A m \in DOMAIN queue : /\ queue[m] \in Ops(queue)
                                 /\ WellFormed(queue[m]) /\ Linked(queue[m])
  BY QueueFacts DEF ContextInv
<1>2. PICK op : op = queue[n] OBVIOUS
<1>3. PICK x : x = queue'[n] OBVIOUS
<1>4. /\ op.result = "none" /\ \A m \in n..Len(queue) : queue[m].result = "none"
      /\ DOMAIN queue' = DOMAIN queue
      /\ \A m \in DOMAIN queue : m # n => queue'[m] = queue[m]
      /\ x.kind = op.kind /\ x.session = op.session /\ x.alive = op.alive
      /\ Fails(x) \/ Lists(op, x) \/ Does(op, x)
      /\ Fails(x) \/ Lists(op, x) => x.held = op.held
  BY <1>2, <1>3 DEF Committing
<1>5. ASSUME NEW m \in DOMAIN queue, m # n, queue[m].result # "none"
      PROVE  n \in (m + 1)..Len(queue)
  <2>1. m \notin n..Len(queue) BY <1>4, <1>5
  <2> QED BY <1>1, <2>1
<1>6. op.kind # "list" => op.session \in Sessions BY <1>1, <1>2 DEF WellFormed
<1>7. op.kind = "save" => op.held = {saves[op.session][1]} /\ saves[op.session] # <<>>
  BY <1>1, <1>2 DEF SavesOK, Linked
<1>8. ASSUME NEW s \in Sessions
      PROVE  \/ disk'[s].held = disk[s].held
             \/ disk'[s].held = Nothing /\ IsDelete(op, s)
             \/ /\ IsSave(op, s) /\ saves[s] # <<>>
                /\ disk'[s].held = {saves[s][1]}
  <2>1. CASE Fails(x) \/ Lists(op, x) BY <2>1 DEF Fails, Lists
  <2>2. CASE Does(op, x) /\ s # op.session BY <2>2 DEF Does
  <2>3. CASE Does(op, x) /\ s = op.session
    <3>1. CASE op.kind = "save" BY <1>7, <2>3, <3>1 DEF Does, IsSave
    <3>2. CASE op.kind = "delete" BY <2>3, <3>2 DEF Does, IsDelete
    <3>3. CASE op.kind \notin {"save", "delete"} BY <2>3, <3>3 DEF Does
    <3> QED BY <3>1, <3>2, <3>3
  <2> QED BY <1>4, <2>1, <2>2, <2>3
<1>9. \/ x.held = op.held
      \/ x.session \in Sessions /\ x.held = disk'[x.session].held
  BY <1>4, <1>6 DEF Does
<1>10. x.result = "ok" /\ x.kind # "list" =>
          /\ x.held = disk'[x.session].held
          /\ x.title = disk'[x.session].title
  BY <1>4 DEF Does, Fails, Lists
<1> QED BY <1>1, <1>2, <1>3, <1>4, <1>5, <1>8, <1>9, <1>10

LEMMA CommittingCopies ==
    ASSUME ContextInv, PageInv', NEW n \in DOMAIN queue, Committing(n)
    PROVE  CopiesOK' /\ SavesOK' /\ FailuresOK'
<1>1. /\ PageInv /\ CopiesOK /\ SavesOK /\ FailuresOK /\ IsSeq(queue)
      /\ \A m \in DOMAIN queue : queue[m] \in Ops(queue)
      /\ \A op \in Ops(queue') : \E m \in DOMAIN queue' : op = queue'[m]
      /\ \A m \in DOMAIN queue' : queue'[m] \in Ops(queue')
      /\ \A s \in Sessions : IsSeq(saves[s])
  BY QueueFacts, QueueFactsAfter DEF ContextInv, Shaped
<1>2. /\ DOMAIN queue' = DOMAIN queue
      /\ \A m \in DOMAIN queue :
            /\ queue'[m].kind = queue[m].kind /\ queue'[m].session = queue[m].session
            /\ m # n => queue'[m] = queue[m]
      /\ \A s \in Sessions :
            \/ disk'[s].held = disk[s].held
            \/ disk'[s].held = Nothing /\ IsDelete(queue[n], s)
            \/ /\ IsSave(queue[n], s) /\ saves[s] # <<>>
               /\ disk'[s].held = {saves[s][1]}
      /\ \/ queue'[n].held = queue[n].held
         \/ /\ queue'[n].session \in Sessions
            /\ queue'[n].held = disk'[queue'[n].session].held
      /\ queue'[n].result = "ok" /\ queue'[n].kind # "list" =>
            queue'[n].held = disk'[queue'[n].session].held
  BY CommittingHeld
<1>3. UNCHANGED <<cache, saves, sender, sent>> /\ past'.unread = past.unread
  BY DEF Committing
<1>4. ASSUME NEW s \in Sessions, NEW c \in disk'[s].held
      PROVE  c \in AllCopies(s)
  <2>1. CASE c \in disk[s].held BY <2>1, CopyCases
  <2>2. CASE saves[s] # <<>> /\ c = saves[s][1]
    <3>1. 1 \in DOMAIN saves[s] BY <1>1, <2>2, SeqFacts
    <3> QED BY <2>2, <3>1, CopyCases DEF Ops
  <2> QED BY <1>2, <1>4, <2>1, <2>2 DEF Nothing
<1>5. ASSUME NEW s \in Sessions, NEW c \in AllCopies(s)' PROVE c \in AllCopies(s)
  <2>1. CASE c \in cache[s] \/ c \in Ops(saves[s]) \/ (sender.session = s /\ c = sender.current)
    BY <2>1, CopyCases
  <2>2. CASE c \in disk'[s].held BY <1>4, <2>2
  <2>3. CASE \E op \in Ops(queue') : IsLoad(op, s) /\ c \in op.held
    <3>1. PICK m \in DOMAIN queue : IsLoad(queue'[m], s) /\ c \in queue'[m].held
      BY <1>1, <1>2, <2>3
    <3>2. CASE queue'[m].held = queue[m].held
      <4>1. IsLoad(queue[m], s) BY <1>2, <3>1 DEF IsLoad
      <4> QED BY <1>1, <3>1, <3>2, <4>1, CopyCases
    <3>3. CASE queue'[m].held # queue[m].held
      <4>1. m = n /\ c \in disk'[s].held BY <1>2, <3>1, <3>3 DEF IsLoad
      <4> QED BY <1>4, <4>1
    <3> QED BY <3>2, <3>3
  <2> QED BY <1>3, <1>5, <2>1, <2>2, <2>3, CopyCasesAfter
<1>6. \A s \in Sessions : \A c \in AllCopies(s)' : Sound(s, c)'
  <2>1. \A s \in Sessions : \A c \in AllCopies(s)' : Sound(s, c) BY <1>1, <1>5 DEF CopiesOK
  <2> QED BY <1>3, <2>1 DEF Sound, Upto
<1>7. ASSUME NEW s \in Sessions PROVE One(disk'[s].held)
  <2>1. One(Nothing) /\ One({saves[s][1]}) BY DEF One
  <2> QED BY <1>1, <1>2, <2>1 DEF CopiesOK
<1>8. \A op \in Ops(queue') : op.kind = "load" => One(op.held)
  <2> SUFFICES ASSUME NEW m \in DOMAIN queue, queue'[m].kind = "load" PROVE One(queue'[m].held)
    BY <1>1, <1>2
  <2>1. One(queue[m].held) BY <1>1, <1>2 DEF CopiesOK
  <2> QED BY <1>2, <1>7, <2>1
<1>9. CopiesOK' BY <1>1, <1>3, <1>6, <1>7, <1>8 DEF CopiesOK
<1>10. ASSUME NEW s \in Sessions, saves[s] # <<>> PROVE \E op \in Ops(queue') : IsSave(op, s)
  <2>1. PICK m \in DOMAIN queue : IsSave(queue[m], s)
    BY <1>1, <1>10, QueueFacts DEF SavesOK
  <2> QED BY <1>1, <1>2, <2>1 DEF IsSave
<1>11. \A op \in Ops(queue') : op.kind = "save" => op.held = {saves[op.session][1]}
  <2> SUFFICES ASSUME NEW m \in DOMAIN queue, queue'[m].kind = "save"
               PROVE  queue'[m].held = {saves[queue'[m].session][1]}
    BY <1>1, <1>2
  <2>1. queue[m].held = {saves[queue[m].session][1]} BY <1>1, <1>2 DEF SavesOK
  <2>2. CASE queue'[m].held = queue[m].held BY <1>2, <2>1, <2>2
  <2>3. CASE queue'[m].held # queue[m].held
    <3>1. m = n /\ Does(queue[n], queue'[n])
      BY <1>2, <2>3 DEF Committing
    <3> QED BY <1>2, <2>1, <3>1 DEF Does
  <2> QED BY <2>2, <2>3
<1>12. \A op \in Ops(queue') : op.result = "failed" => past'.failed
  <2> SUFFICES ASSUME NEW m \in DOMAIN queue, queue'[m].result = "failed" PROVE past'.failed
    BY <1>1, <1>2
  <2>1. CASE m = n BY <2>1 DEF Committing, Fails, Lists, Does
  <2>2. CASE m # n BY <1>1, <1>2, <2>2 DEF FailuresOK, Committing
  <2> QED BY <2>1, <2>2
<1> QED BY <1>3, <1>9, <1>10, <1>11, <1>12 DEF SavesOK, FailuresOK

\* What becomes of what is deleted.
LEMMA CommittingDeleted ==
    ASSUME ContextInv, PageInv', NEW n \in DOMAIN queue, Committing(n)
    PROVE  /\ DeletedOK'
           /\ \A s \in Sessions : OnlyStored(s) => OnlyStored(s)'
<1>1. /\ PageInv /\ DeletedOK /\ SavesOK /\ Len(queue) \in Nat
      /\ \A m \in DOMAIN queue : queue[m] \in Ops(queue)
      /\ \A op \in Ops(queue') : \E m \in DOMAIN queue' : op = queue'[m]
      /\ \A k \in DOMAIN queue : \A m \in (k + 1)..Len(queue) : InLine(queue[k], queue[m])
      /\ \A m \in DOMAIN queue : WellFormed(queue[m])
  BY QueueFacts, QueueFactsAfter DEF ContextInv, PageInv, QueueOK
<1>2. /\ n \in Nat /\ DOMAIN queue' = DOMAIN queue /\ DOMAIN queue = 1..Len(queue)
      /\ \A m \in DOMAIN queue :
            /\ queue'[m].kind = queue[m].kind /\ queue'[m].session = queue[m].session
            /\ m # n => queue'[m] = queue[m]
      /\ \A s \in Sessions :
            \/ disk'[s].held = disk[s].held
            \/ disk'[s].held = Nothing /\ IsDelete(queue[n], s)
            \/ /\ IsSave(queue[n], s) /\ saves[s] # <<>>
               /\ disk'[s].held = {saves[s][1]}
      /\ queue'[n].result = "ok" /\ queue'[n].kind # "list" =>
            queue'[n].title = disk'[queue'[n].session].title
  BY CommittingHeld
<1>3. /\ UNCHANGED <<boot, list, active, ref, cache, saves, sender>>
      /\ past'.unread = past.unread /\ past'.before = past.before
      /\ past.failed => past'.failed
  BY DEF Committing
<1>4. past.deleted \subseteq Sessions /\ past'.deleted \subseteq Sessions
  BY QueueFacts, QueueFactsAfter, <1>1 DEF Shaped
<1>5. /\ past.deleted \subseteq past'.deleted
      /\ \A s \in past'.deleted : s \in past.deleted \/ IsDelete(queue[n], s)
  BY DEF Committing, Fails, Lists, Does, IsDelete
<1>6. ASSUME NEW s \in past'.deleted, NEW m \in DOMAIN queue
      PROVE  ~(queue[m].kind = "create" /\ queue[m].session = s)
  <2>1. CASE s \in past.deleted BY <1>1, <2>1 DEF DeletedOK
  <2>2. CASE IsDelete(queue[n], s)
    <3> SUFFICES ASSUME queue[m].kind = "create", queue[m].session = s PROVE FALSE
      OBVIOUS
    <3>1. m # n BY <2>2 DEF IsDelete
    <3>2. m \in (n + 1)..Len(queue) \/ n \in (m + 1)..Len(queue) BY <1>1, <1>2, <3>1
    <3>3. InLine(queue[n], queue[m]) \/ InLine(queue[m], queue[n]) BY <1>1, <1>2, <3>2
    <3> QED BY <2>2, <3>3 DEF IsDelete, InLine, Changes
  <2> QED BY <1>5, <2>1, <2>2
<1>7. ASSUME NEW s \in past'.deleted PROVE disk'[s].title = NoTitle
  <2>1. queue[n].kind = "create" => queue[n].session # s BY <1>6
  <2>2. s \in past.deleted => disk[s].title = NoTitle BY <1>1 DEF DeletedOK
  <2>3. CASE s \in past.deleted
    <3>1. CASE Does(queue[n], queue'[n]) /\ queue[n].session = s
      <4>1. queue[n].kind \in {"save", "load", "rename", "name", "delete"}
        BY <1>1, <2>1, <3>1 DEF WellFormed, Kinds, Does
      <4> QED BY <2>2, <2>3, <3>1, <4>1 DEF Does
    <3>2. CASE ~(Does(queue[n], queue'[n]) /\ queue[n].session = s)
      <4>1. disk'[s] = disk[s] BY <1>4, <3>2 DEF Committing, Fails, Lists, Does
      <4> QED BY <2>2, <2>3, <4>1
    <3> QED BY <3>1, <3>2
  <2>4. CASE s \notin past.deleted
    <3>1. Does(queue[n], queue'[n]) BY <2>4 DEF Committing, Fails, Lists
    <3>2. IsDelete(queue[n], s) BY <1>5, <2>4
    <3> QED BY <3>1, <3>2 DEF Does, IsDelete
  <2> QED BY <2>3, <2>4
<1>8. ASSUME NEW s \in Sessions, OnlyStored(s) PROVE OnlyStored(s)'
  <2>1. saves[s] = <<>> /\ ~SendsIn(s) /\ \A c \in disk[s].held : Upto(c, past.before)
    BY <1>8 DEF OnlyStored
  <2>2. disk'[s].held = disk[s].held \/ disk'[s].held = Nothing BY <1>2, <2>1
  <2>3. \A c \in disk'[s].held : Upto(c, past.before) BY <2>1, <2>2 DEF Nothing
  <2>4. ~SendsIn(s)' BY <1>3, <2>1 DEF SendsIn
  <2> QED BY <1>3, <2>1, <2>3, <2>4 DEF OnlyStored, Upto
<1>9. ASSUME NEW s \in Sessions, Gone(s) PROVE Gone(s)'
  <2>1. s \in past'.deleted /\ disk'[s].title = NoTitle BY <1>5, <1>7, <1>9 DEF Gone
  <2>2. ASSUME NEW m \in DOMAIN queue, queue'[m].kind \in Changes, queue'[m].session = s,
               queue'[m].result = "ok"
        PROVE  queue'[m].title = NoTitle
    <3>1. CASE m = n BY <1>2, <2>1, <2>2, <3>1 DEF Changes
    <3>2. CASE m # n BY <1>1, <1>2, <1>9, <2>2, <3>2 DEF Gone
    <3> QED BY <3>1, <3>2
  <2>3. \A op \in Ops(queue') : op.kind \in Changes /\ op.session = s /\ op.result = "ok"
           => op.title = NoTitle
    BY <1>1, <1>2, <2>2
  <2> QED BY <1>3, <1>9, <2>1, <2>3 DEF Gone
<1>10. ASSUME NEW s \in Sessions, Read(s)', cache[s] = Nothing PROVE Gone(s)' \/ OnlyStored(s)'
  <2>1. Read(s) BY <1>3, <1>10 DEF Read
  <2> QED BY <1>1, <1>8, <1>9, <1>10, <2>1 DEF DeletedOK
<1>11. \A s \in past'.deleted :
          /\ disk'[s].title = NoTitle
          /\ \A op \in Ops(queue') : ~(op.kind = "create" /\ op.session = s)
  BY <1>1, <1>2, <1>6, <1>7
<1> QED BY <1>3, <1>8, <1>10, <1>11 DEF DeletedOK

\* What was deleted behind an operation still is.
LEMMA CommittingAfter ==
    ASSUME ContextInv, PageInv', NEW n \in DOMAIN queue, Committing(n),
           NEW m \in DOMAIN queue, NEW s
    PROVE  /\ DeletedAfter(m, s) => DeletedAfter(m, s)'
           /\ n \in (m + 1)..Len(queue) /\ IsDelete(queue[n], s) => DeletedAfter(m, s)'
           /\ RetitledAfter(m, s) => RetitledAfter(m, s)'
           /\ n \in (m + 1)..Len(queue) /\ Retitles(queue'[n], s) => RetitledAfter(m, s)'
<1>1. /\ Len(queue') = Len(queue) /\ DOMAIN queue = 1..Len(queue) /\ Len(queue) \in Nat
      /\ queue[n].result = "none"
      /\ \A k \in DOMAIN queue :
            /\ queue'[k].kind = queue[k].kind /\ queue'[k].session = queue[k].session
            /\ k # n => queue'[k] = queue[k]
  BY QueueFacts, CommittingHeld DEF ContextInv, Committing
<1>2. \A k \in (m + 1)..Len(queue) : k \in DOMAIN queue BY <1>1
<1>3. \A k \in DOMAIN queue : /\ IsDelete(queue[k], s) => IsDelete(queue'[k], s)
                              /\ Retitles(queue[k], s) => Retitles(queue'[k], s)
  BY <1>1 DEF IsDelete, Retitles
<1> QED BY <1>1, <1>2, <1>3 DEF DeletedAfter, RetitledAfter

LEMMA CommittingLoads ==
    ASSUME ContextInv, PageInv', NEW n \in DOMAIN queue, Committing(n)
    PROVE  LoadsOK'
<1>1. PageInv /\ LoadsOK BY DEF ContextInv
<1>2. /\ DOMAIN queue' = DOMAIN queue
      /\ \A m \in DOMAIN queue :
            /\ queue'[m].kind = queue[m].kind /\ queue'[m].session = queue[m].session
            /\ queue'[m].alive = queue[m].alive
            /\ m # n => queue'[m] = queue[m]
            /\ m # n /\ queue[m].result # "none" => n \in (m + 1)..Len(queue)
      /\ \A s \in Sessions :
            \/ disk'[s].held = disk[s].held
            \/ disk'[s].held = Nothing /\ IsDelete(queue[n], s)
            \/ /\ IsSave(queue[n], s) /\ saves[s] # <<>>
               /\ disk'[s].held = {saves[s][1]}
      /\ \/ queue'[n].held = queue[n].held
         \/ /\ queue'[n].session \in Sessions
            /\ queue'[n].held = disk'[queue'[n].session].held
      /\ queue'[n].result = "ok" /\ queue'[n].kind # "list" =>
            queue'[n].held = disk'[queue'[n].session].held
  BY CommittingHeld
<1>3. /\ UNCHANGED <<active, ref, loading, cache>>
      /\ past'.unread = past.unread /\ past'.before = past.before
      /\ past.failed => past'.failed
  BY DEF Committing
<1>4. \A m \in DOMAIN queue : Awaited(m)' <=> Awaited(m) BY <1>2 DEF Awaited
<1>5. \A s : Read(s)' => Read(s) BY <1>3 DEF Read
<1>6. ASSUME NEW m \in DOMAIN queue, Awaited(m), NEW s, s = queue[m].session, Read(s)
      PROVE  /\ OnlyStored(s)'
             /\ \A c \in queue'[m].held : Upto(c, past.before)
             /\ queue'[m].result = "ok" =>
                  \/ queue'[m].held = disk'[s].held
                  \/ disk'[s].held = Nothing /\ DeletedAfter(m, s)'
  <2>1. /\ OnlyStored(s) /\ \A c \in queue[m].held : Upto(c, past.before)
        /\ queue[m].result = "ok" => \/ queue[m].held = disk[s].held
                                     \/ disk[s].held = Nothing /\ DeletedAfter(m, s)
    BY <1>1, <1>6 DEF LoadsOK
  <2>2. s \in Sessions /\ queue[m].kind = "load"
    BY <1>1, <1>6, QueueFacts DEF Awaited, WellFormed
  <2>3. OnlyStored(s)' BY <2>1, <2>2, CommittingDeleted
  <2>4. \A c \in disk'[s].held : Upto(c, past.before) BY <1>3, <2>3 DEF OnlyStored
  <2>5. \A c \in queue'[m].held : Upto(c, past.before)
    <3>1. CASE queue'[m].held = queue[m].held BY <2>1, <3>1
    <3>2. CASE queue'[m].held # queue[m].held
      <4>1. queue'[m].held = disk'[s].held BY <1>2, <1>6, <3>2
      <4> QED BY <2>4, <4>1
    <3> QED BY <3>1, <3>2
  <2>6. ASSUME queue'[m].result = "ok"
        PROVE  \/ queue'[m].held = disk'[s].held
               \/ disk'[s].held = Nothing /\ DeletedAfter(m, s)'
    <3>1. CASE m = n BY <1>2, <1>6, <2>2, <2>6, <3>1
    <3>2. CASE m # n
      <4>1. queue'[m] = queue[m] /\ n \in (m + 1)..Len(queue) BY <1>2, <2>6, <3>2
      <4>2. saves[s] = <<>> BY <2>1 DEF OnlyStored
      <4>3. CASE disk'[s].held = disk[s].held
        BY <2>1, <2>6, <4>1, <4>3, CommittingAfter
      <4>4. CASE disk'[s].held = Nothing /\ IsDelete(queue[n], s)
        BY <4>1, <4>4, CommittingAfter
      <4> QED BY <1>2, <2>2, <4>2, <4>3, <4>4
    <3> QED BY <3>1, <3>2
  <2> QED BY <2>3, <2>5, <2>6
<1>7. ASSUME NEW m \in DOMAIN queue, Awaited(m) PROVE loading /\ queue[m].session = ref
  BY <1>1, <1>7 DEF LoadsOK
<1>8. \A m, k \in DOMAIN queue : Awaited(m) /\ Awaited(k) => m = k BY <1>1 DEF LoadsOK
<1>9. active = ref /\ ref \in Sessions /\ ~loading /\ Read(ref) => cache[ref] # Nothing
  BY <1>1 DEF LoadsOK
<1>10. \A m \in DOMAIN queue', k \in DOMAIN queue' : Awaited(m)' /\ Awaited(k)' => m = k
  BY <1>2, <1>4, <1>8
<1>11. ASSUME NEW m \in DOMAIN queue', Awaited(m)', NEW s, s = queue'[m].session
       PROVE  /\ loading' /\ s = ref'
              /\ Read(s)' => OnlyStored(s)' /\ \A c \in queue'[m].held : Upto(c, past'.before)
              /\ Read(s)' /\ queue'[m].result = "ok" =>
                   \/ queue'[m].held = disk'[s].held
                   \/ disk'[s].held = Nothing /\ DeletedAfter(m, s)'
  <2>1. m \in DOMAIN queue /\ Awaited(m) /\ s = queue[m].session BY <1>2, <1>4, <1>11
  <2>2. loading' /\ s = ref' BY <1>3, <1>7, <2>1
  <2> QED BY <1>3, <1>5, <1>6, <2>1, <2>2
<1>12. active' = ref' /\ ref' \in Sessions /\ ~loading' /\ Read(ref)' => cache'[ref'] # Nothing
  BY <1>3, <1>9 DEF Read
<1> QED BY <1>10, <1>11, <1>12 DEF LoadsOK

LEMMA CommittingHistory ==
    ASSUME ContextInv, PageInv', NEW n \in DOMAIN queue, Committing(n)
    PROVE  HistoryOK'
<1>1. /\ HistoryOK /\ PageInv /\ \A s \in Sessions : IsSeq(saves[s])
  BY QueueFacts DEF ContextInv, Shaped
<1>2. /\ UNCHANGED <<cache, saves, sender>> /\ past'.unread = past.unread
  BY DEF Committing
<1>3. \A s \in Sessions :
         \/ disk'[s].held = disk[s].held
         \/ disk'[s].held = Nothing
         \/ saves[s] # <<>> /\ disk'[s].held = {saves[s][1]}
  BY CommittingHeld
<1>4. ASSUME NEW s \in Sessions \ past.unread, NEW d \in disk'[s].held
      PROVE  /\ \A i \in DOMAIN saves[s] : Extends(d, saves[s][i])
             /\ \A c \in cache[s] : Extends(d, c)
             /\ sender.stage = "provider" /\ sender.session = s => Extends(d, sender.current)
  <2>1. CASE d \in disk[s].held BY <1>1, <1>4, <2>1 DEF HistoryOK
  <2>2. CASE saves[s] # <<>> /\ d = saves[s][1]
    <3>1. /\ 1 \in DOMAIN saves[s] /\ Len(saves[s]) \in Nat
          /\ DOMAIN saves[s] = 1..Len(saves[s])
      BY <1>1, <2>2, SeqFacts
    <3>2. d \in Conversations BY <2>2, <3>1, CopiesSound DEF Sound
    <3>3. Extends(d, d) BY <3>2, ExtendsItself
    <3>4. \A i \in DOMAIN saves[s] : i = 1 \/ i \in (1 + 1)..Len(saves[s]) BY <3>1
    <3>5. /\ \A j \in (1 + 1)..Len(saves[s]) : Extends(saves[s][1], saves[s][j])
          /\ \A c \in cache[s] : Extends(saves[s][1], c)
          /\ sender.stage = "provider" /\ sender.session = s =>
                Extends(saves[s][1], sender.current)
      BY <1>1, <1>4, <3>1 DEF HistoryOK
    <3> QED BY <2>2, <3>3, <3>4, <3>5
  <2> QED BY <1>3, <1>4, <2>1, <2>2 DEF Nothing
<1>5. \A s \in Sessions \ past.unread : \A i \in DOMAIN saves[s] :
         /\ \A j \in (i + 1)..Len(saves[s]) : Extends(saves[s][i], saves[s][j])
         /\ \A c \in cache[s] : Extends(saves[s][i], c)
         /\ sender.stage = "provider" /\ sender.session = s =>
               Extends(saves[s][i], sender.current)
  BY <1>1 DEF HistoryOK
<1> QED BY <1>2, <1>4, <1>5 DEF HistoryOK

LEMMA CommittingStored ==
    ASSUME ContextInv, PageInv', NEW n \in DOMAIN queue, Committing(n)
    PROVE  StoredOK'
<1>1. /\ PageInv /\ StoredOK
      /\ \A op \in Ops(queue) : \E m \in DOMAIN queue : op = queue[m]
      /\ \A m \in DOMAIN queue' : queue'[m] \in Ops(queue')
      /\ \A k \in DOMAIN queue : \A m \in (k + 1)..Len(queue) : InLine(queue[k], queue[m])
      /\ \A m \in DOMAIN queue : WellFormed(queue[m])
  BY QueueFacts, QueueFactsAfter DEF ContextInv, PageInv, QueueOK
<1>2. /\ DOMAIN queue' = DOMAIN queue
      /\ \A m \in DOMAIN queue :
            /\ queue'[m].kind = queue[m].kind /\ queue'[m].session = queue[m].session
            /\ m # n => queue'[m] = queue[m]
            /\ m # n /\ queue[m].result # "none" => n \in (m + 1)..Len(queue)
      /\ \A s \in Sessions :
            \/ disk'[s].held = disk[s].held
            \/ disk'[s].held = Nothing /\ IsDelete(queue[n], s)
            \/ /\ IsSave(queue[n], s) /\ saves[s] # <<>>
               /\ disk'[s].held = {saves[s][1]}
      /\ queue'[n].result = "ok" /\ queue'[n].kind # "list" =>
            queue'[n].held = disk'[queue'[n].session].held
  BY CommittingHeld
<1>3. /\ UNCHANGED <<cache, saves>>
      /\ past.failed => past'.failed
  BY DEF Committing
<1>4. ASSUME ~past'.failed, NEW s \in Sessions, NEW c \in cache[s]
      PROVE  \/ \E op \in Ops(queue') : IsDelete(op, s)
             \/ saves[s] # <<>> /\ saves[s][Len(saves[s])] = c
             \/ saves[s] = <<>> /\ Conversed(disk'[s].held) = c
  <2>1. \A m \in DOMAIN queue : IsDelete(queue[m], s) => IsDelete(queue'[m], s)
    BY <1>2 DEF IsDelete
  <2>2. CASE \E op \in Ops(queue) : IsDelete(op, s) BY <1>1, <1>2, <2>1, <2>2
  <2>3. CASE saves[s] = <<>> /\ Conversed(disk[s].held) = c
    <3>1. disk'[s].held = disk[s].held \/ IsDelete(queue[n], s) BY <1>2, <2>3
    <3> QED BY <1>1, <1>2, <2>1, <2>3, <3>1
  <2> QED BY <1>1, <1>3, <1>4, <2>2, <2>3 DEF StoredOK
<1>5. ASSUME ~past'.failed, NEW m \in DOMAIN queue, queue'[m].kind = "save",
             queue'[m].result = "ok", NEW s, s = queue'[m].session
      PROVE  queue'[m].held = disk'[s].held \/ DeletedAfter(m, s)'
  <2>1. CASE m = n BY <1>2, <1>5, <2>1
  <2>2. CASE m # n
    <3>1. queue'[m] = queue[m] /\ n \in (m + 1)..Len(queue) BY <1>2, <1>5, <2>2
    <3>2. s \in Sessions BY <1>1, <1>5, <3>1 DEF WellFormed
    <3>3. ~IsSave(queue[n], s)
      <4>1. InLine(queue[m], queue[n]) BY <1>1, <3>1
      <4> QED BY <1>5, <3>1, <4>1 DEF InLine, IsSave, Changes
    <3>4. CASE IsDelete(queue[n], s) BY <3>1, <3>4, CommittingAfter
    <3>5. CASE disk'[s].held = disk[s].held
      <4>1. queue[m].held = disk[s].held \/ DeletedAfter(m, s)
        BY <1>1, <1>3, <1>5, <3>1 DEF StoredOK
      <4> QED BY <3>1, <3>5, <4>1, CommittingAfter
    <3> QED BY <1>2, <3>2, <3>3, <3>4, <3>5
  <2> QED BY <2>1, <2>2
<1>6. ASSUME NEW m \in DOMAIN queue', NEW op, op = queue'[m], op.kind = "save",
             op.result = "ok", ~past'.failed
      PROVE  op.held = disk'[op.session].held \/ DeletedAfter(m, op.session)'
  BY <1>2, <1>5, <1>6
<1> QED BY <1>3, <1>4, <1>6 DEF StoredOK

\* What becomes of the titles.
LEMMA CommittingRecords ==
    ASSUME ContextInv, PageInv', NEW n \in DOMAIN queue, Committing(n)
    PROVE  /\ RecordsOK' /\ EarlyOK'
           /\ \A s \in Sessions : Recorded(s) => Recorded(s)'
<1>1. /\ PageInv /\ Shaped /\ RecordsOK /\ EarlyOK
      /\ \A op \in Ops(queue') : \E m \in DOMAIN queue' : op = queue'[m]
      /\ \A m \in DOMAIN queue : queue[m] \in Ops(queue) /\ WellFormed(queue[m])
  BY QueueFacts, QueueFactsAfter DEF ContextInv
<1>2. /\ DOMAIN queue' = DOMAIN queue
      /\ \A m \in DOMAIN queue :
            /\ queue'[m].kind = queue[m].kind /\ queue'[m].session = queue[m].session
            /\ m # n => queue'[m] = queue[m]
  BY CommittingHeld
<1>3. /\ UNCHANGED <<boot, list, active, ref, sender>> /\ past'.early = past.early
      /\ past.failed => past'.failed
      /\ Fails(queue'[n]) \/ Lists(queue[n], queue'[n]) \/ Does(queue[n], queue'[n])
  BY DEF Committing
<1>4. ASSUME NEW s \in Sessions, Recorded(s) PROVE Recorded(s)'
  <2>1. past.deleted \subseteq past'.deleted BY <1>3 DEF Fails, Lists, Does
  <2>2. CASE disk[s].title # NoTitle /\ Does(queue[n], queue'[n]) /\ queue[n].session = s
    <3>1. queue[n].kind \in {"create", "save", "load", "rename", "name", "delete"}
      BY <1>1, <2>2 DEF WellFormed, Kinds, Does
    <3>2. disk'[s].title # NoTitle \/ s \in past'.deleted BY <2>2, <3>1 DEF Does
    <3> QED BY <3>2 DEF Recorded
  <2>3. CASE ~(Does(queue[n], queue'[n]) /\ queue[n].session = s)
    <3>1. disk'[s] = disk[s] BY <1>3, <2>3 DEF Fails, Lists, Does
    <3> QED BY <1>4, <2>1, <3>1 DEF Recorded
  <2> QED BY <1>4, <2>1, <2>2, <2>3 DEF Recorded
<1>5. ASSUME NEW m \in DOMAIN queue,
             queue'[m].kind \in {"save", "rename", "name", "delete"}
                \/ (queue'[m].kind = "create" /\ queue'[m].result = "ok"),
             NEW s, s = queue'[m].session
      PROVE  Recorded(s)'
  <2>1. s \in Sessions /\ s = queue[m].session
    BY <1>1, <1>2, <1>5 DEF WellFormed
  <2>2. CASE queue[m].kind \in {"save", "rename", "name", "delete"}
               \/ (queue[m].kind = "create" /\ queue[m].result = "ok")
    <3>1. Recorded(s) BY <1>1, <2>1, <2>2 DEF RecordsOK
    <3> QED BY <1>4, <2>1, <3>1
  <2>3. CASE m = n /\ queue[m].kind = "create"
    <3>1. Does(queue[n], queue'[n]) BY <1>2, <1>3, <1>5, <2>3 DEF Fails, Lists
    <3>2. disk'[s].title # NoTitle BY <2>1, <2>3, <3>1 DEF Does
    <3> QED BY <3>2 DEF Recorded
  <2> QED BY <1>2, <1>5, <2>2, <2>3
<1>6. RecordsOK'
  <2>1. sender.stage \in Holding => sender.session \in Sessions BY <1>1 DEF Shaped, Holding
  <2>2. ASSUME NEW s \in Sessions,
               s \in {active, ref} \/ (sender.stage \in Holding /\ s = sender.session)
        PROVE  Recorded(s)'
    BY <1>1, <1>4, <2>2 DEF RecordsOK
  <2>3. ASSUME NEW op \in Ops(queue'),
               op.kind \in {"save", "rename", "name", "delete"}
                  \/ (op.kind = "create" /\ op.result = "ok")
        PROVE  Recorded(op.session)'
    BY <1>1, <1>2, <1>5, <2>3
  <2> QED BY <1>3, <2>1, <2>2, <2>3 DEF RecordsOK, Recorded
<1>7. EarlyOK'
  <2>1. ASSUME boot.stage = "waiting", NEW s \in Sessions, Settled(s)'
        PROVE  /\ list[s] = NoTitle /\ active # s /\ ref # s /\ ~SendsIn(s)
               /\ \A m \in DOMAIN queue' :
                     queue'[m].session = s => queue'[m].kind \in {"create", "load"}
    <3>1. Settled(s) BY <1>3, <2>1 DEF Settled
    <3> QED BY <1>1, <1>2, <2>1, <3>1 DEF EarlyOK
  <2>2. \A s \in Sessions : SendsIn(s)' <=> SendsIn(s) BY <1>3 DEF SendsIn
  <2> QED BY <1>1, <1>3, <2>1, <2>2 DEF EarlyOK
<1> QED BY <1>4, <1>6, <1>7

LEMMA CommittingTitles ==
    ASSUME ContextInv, PageInv', NEW n \in DOMAIN queue, Committing(n)
    PROVE  TitlesOK'
<1>1. /\ PageInv /\ Shaped /\ TitlesOK /\ RecordsOK
      /\ \A op \in Ops(queue) : \E m \in DOMAIN queue : op = queue[m]
      /\ \A op \in Ops(queue') : \E m \in DOMAIN queue' : op = queue'[m]
      /\ \A m \in DOMAIN queue : queue[m] \in Ops(queue) /\ WellFormed(queue[m])
      /\ \A m \in DOMAIN queue' : queue'[m] \in Ops(queue')
      /\ \A op \in Ops(queue) : Linked(op)
      /\ BootOK
  BY QueueFacts, QueueFactsAfter DEF ContextInv, PageInv, PageOK
<1>2. /\ DOMAIN queue' = DOMAIN queue /\ DOMAIN queue = 1..Len(queue)
      /\ queue[n].result = "none"
      /\ \A m \in DOMAIN queue :
            /\ queue'[m].kind = queue[m].kind /\ queue'[m].session = queue[m].session
            /\ m # n => queue'[m] = queue[m]
            /\ m # n /\ queue[m].result # "none" => n \in (m + 1)..Len(queue)
      /\ queue'[n].result = "ok" /\ queue'[n].kind # "list" =>
            queue'[n].title = disk'[queue'[n].session].title
  BY CommittingHeld
<1>3. /\ UNCHANGED <<boot, list>> /\ past'.early = past.early
      /\ past.failed => past'.failed
      /\ Fails(queue'[n]) \/ Lists(queue[n], queue'[n]) \/ Does(queue[n], queue'[n])
  BY DEF Committing
<1>4. /\ past.deleted \subseteq past'.deleted
      /\ \A s \in past'.deleted : \/ s \in past.deleted
                                  \/ IsDelete(queue[n], s) /\ queue'[n].result = "ok"
      /\ past'.deleted \subseteq Sessions
  BY <1>3, QueueFactsAfter DEF Fails, Lists, Does, IsDelete, Shaped
<1>5. ASSUME NEW m \in DOMAIN queue, queue'[m].kind = "list", queue'[m].result = "ok"
      PROVE  queue'[m].titles = Titles'
  <2>1. queue[m].kind = "list" /\ Len(queue) = 1 BY <1>1, <1>2, <1>5 DEF Linked, BootOK
  <2>2. m = n BY <1>2, <2>1
  <2>3. Lists(queue[n], queue'[n]) BY <1>2, <1>3, <1>5, <2>2 DEF Fails, Does
  <2> QED BY <2>2, <2>3 DEF Lists, Titles
<1>6. \A s \in Sessions : /\ Settled(s)' => Settled(s) /\ ~past'.failed
                          /\ Listing(s)' = Listing(s)
  BY <1>3 DEF Settled, Listing
\* The session's title, where the operation does not tell it.
<1>7. ASSUME NEW s \in Sessions, ~past'.failed, ~Retitles(queue'[n], s)
      PROVE  disk'[s].title = disk[s].title
  <2>1. CASE queue[n].session = s /\ Does(queue[n], queue'[n])
    <3>1. queue[n].kind = "load"
      BY <1>1, <1>2, <1>7, <2>1 DEF Retitles, Does, WellFormed, Kinds, Changes
    <3> QED BY <2>1, <3>1 DEF Does
  <2>2. CASE ~(queue[n].session = s /\ Does(queue[n], queue'[n]))
    BY <1>3, <1>7, <2>2 DEF Fails, Lists, Does
  <2> QED BY <2>1, <2>2
<1>8. \A m \in DOMAIN queue, s \in Sessions : Retitles(queue[m], s) => m # n
  BY <1>2 DEF Retitles
<1>9. ASSUME boot.stage # "listing", NEW s \in Sessions, Settled(s)', s \in past'.deleted
      PROVE  \/ \E op \in Ops(queue') : IsDelete(op, s) /\ op.result = "ok"
             \/ /\ Listing(s)' = NoTitle
                /\ \A op \in Ops(queue') : Retitles(op, s) => op.title = NoTitle
  <2>1. CASE IsDelete(queue[n], s) /\ queue'[n].result = "ok"
    BY <1>1, <1>2, <2>1 DEF IsDelete
  <2>2. CASE s \in past.deleted
    <3>1. CASE \E op \in Ops(queue) : IsDelete(op, s) /\ op.result = "ok"
      <4>1. PICK m \in DOMAIN queue : IsDelete(queue[m], s) /\ queue[m].result = "ok"
        BY <1>1, <3>1
      <4>2. queue'[m] = queue[m] BY <1>2, <4>1
      <4> QED BY <1>1, <1>2, <4>1, <4>2
    <3>2. CASE Listing(s) = NoTitle
               /\ \A op \in Ops(queue) : Retitles(op, s) => op.title = NoTitle
      <4>1. disk'[s].title = NoTitle BY <1>4, <2>2, CommittingDeleted DEF DeletedOK
      <4>2. ASSUME NEW m \in DOMAIN queue, Retitles(queue'[m], s)
            PROVE  queue'[m].title = NoTitle
        <5>1. CASE m = n BY <1>2, <4>1, <4>2, <5>1 DEF Retitles, Changes
        <5>2. CASE m # n BY <1>1, <1>2, <3>2, <4>2, <5>2
        <5> QED BY <5>1, <5>2
      <4> QED BY <1>1, <1>2, <1>6, <3>2, <4>2
    <3> QED BY <1>1, <1>6, <1>9, <2>2, <3>1, <3>2 DEF TitlesOK
  <2> QED BY <1>4, <1>9, <2>1, <2>2
<1>10. ASSUME boot.stage # "listing", NEW s \in Sessions, Settled(s)', s \notin past'.deleted
       PROVE  /\ (\A op \in Ops(queue') : ~Retitles(op, s)) => Listing(s)' = disk'[s].title
              /\ \A m \in DOMAIN queue' : Retitles(queue'[m], s) =>
                    /\ queue'[m].title # NoTitle
                    /\ queue'[m].title = disk'[s].title \/ RetitledAfter(m, s)'
  <2>1. Settled(s) /\ ~past'.failed /\ s \notin past.deleted BY <1>4, <1>6, <1>10
  <2>2. /\ (\A op \in Ops(queue) : ~Retitles(op, s)) => Listing(s) = disk[s].title
        /\ \A m \in DOMAIN queue : Retitles(queue[m], s) =>
              /\ queue[m].title # NoTitle
              /\ queue[m].title = disk[s].title \/ RetitledAfter(m, s)
    BY <1>1, <1>10, <2>1 DEF TitlesOK
  <2>3. ASSUME \A op \in Ops(queue') : ~Retitles(op, s) PROVE Listing(s)' = disk'[s].title
    <3>1. \A op \in Ops(queue) : ~Retitles(op, s)
      <4> SUFFICES ASSUME NEW m \in DOMAIN queue PROVE ~Retitles(queue[m], s)
        BY <1>1
      <4> QED BY <1>1, <1>2, <1>8, <2>3
    <3>2. ~Retitles(queue'[n], s) BY <1>1, <1>2, <2>3
    <3> QED BY <1>6, <1>7, <2>1, <2>2, <3>1, <3>2
  <2>4. ASSUME NEW m \in DOMAIN queue, Retitles(queue'[m], s)
        PROVE  /\ queue'[m].title # NoTitle
               /\ queue'[m].title = disk'[s].title \/ RetitledAfter(m, s)'
    <3>1. CASE m = n
      <4>1. queue'[n].title = disk'[s].title /\ queue[n].session = s
            /\ Does(queue[n], queue'[n]) /\ queue[n].kind \in Changes
        BY <1>2, <1>3, <2>1, <2>4, <3>1 DEF Retitles, Changes, Fails, Lists
      <4>2. queue[n].kind # "delete" BY <1>10, <4>1 DEF Does
      <4>3. queue[n].kind \in {"save", "rename", "name"} => disk[s].title # NoTitle
        BY <1>1, <2>1, <4>1 DEF RecordsOK, Recorded
      <4>4. disk'[s].title # NoTitle BY <4>1, <4>2, <4>3 DEF Does, Changes
      <4> QED BY <3>1, <4>1, <4>4
    <3>2. CASE m # n
      <4>1. queue'[m] = queue[m] /\ Retitles(queue[m], s) BY <1>2, <2>4, <3>2
      <4>2. n \in (m + 1)..Len(queue) BY <1>2, <3>2, <4>1 DEF Retitles
      <4>3. CASE Retitles(queue'[n], s)
        <5>1. RetitledAfter(m, s)' BY <4>2, <4>3, CommittingAfter
        <5> QED BY <2>2, <4>1, <5>1
      <4>4. CASE ~Retitles(queue'[n], s)
        <5>1. disk'[s].title = disk[s].title BY <1>7, <2>1, <4>4
        <5>2. RetitledAfter(m, s) => RetitledAfter(m, s)' BY CommittingAfter
        <5> QED BY <2>2, <4>1, <5>1, <5>2
      <4> QED BY <4>3, <4>4
    <3> QED BY <3>1, <3>2
  <2> QED BY <1>2, <2>3, <2>4
<1>11. \A op \in Ops(queue') : op.kind = "list" /\ op.result = "ok" => op.titles = Titles'
  BY <1>1, <1>2, <1>5
<1> QED BY <1>3, <1>9, <1>10, <1>11 DEF TitlesOK

LEMMA CommittingCreating ==
    ASSUME ContextInv, PageInv', NEW n \in DOMAIN queue, Committing(n)
    PROVE  CreatingOK'
<1>1. /\ PageInv /\ Shaped /\ CreatingOK
      /\ \A op \in Ops(queue) : \E m \in DOMAIN queue : op = queue[m]
      /\ \A op \in Ops(queue') : \E m \in DOMAIN queue' : op = queue'[m]
      /\ \A m \in DOMAIN queue : queue[m] \in Ops(queue)
      /\ \A m \in DOMAIN queue' : queue'[m] \in Ops(queue')
  BY QueueFacts, QueueFactsAfter DEF ContextInv
<1>2. /\ DOMAIN queue' = DOMAIN queue
      /\ \A m \in DOMAIN queue :
            /\ queue'[m].kind = queue[m].kind /\ queue'[m].session = queue[m].session
      /\ \A s \in Sessions :
            \/ disk'[s].held = disk[s].held
            \/ disk'[s].held = Nothing /\ IsDelete(queue[n], s)
            \/ /\ IsSave(queue[n], s) /\ saves[s] # <<>>
               /\ disk'[s].held = {saves[s][1]}
  BY CommittingHeld
<1>3. UNCHANGED <<active, ref, cache, saves, sender>>
  BY DEF Committing
<1> SUFFICES ASSUME sender.stage = "creating", NEW s, s = sender.session
             PROVE  /\ \E op \in Ops(queue') : op.kind = "create" /\ op.session = s
                    /\ active # s /\ ref # s
                    /\ cache[s] = Nothing /\ disk'[s].held = Nothing /\ saves[s] = <<>>
                    /\ \A op \in Ops(queue') : ~IsLoad(op, s)
  BY <1>3 DEF CreatingOK
<1>4. /\ \E op \in Ops(queue) : op.kind = "create" /\ op.session = s
      /\ active # s /\ ref # s
      /\ cache[s] = Nothing /\ disk[s].held = Nothing /\ saves[s] = <<>>
      /\ \A op \in Ops(queue) : ~IsLoad(op, s)
  BY <1>1 DEF CreatingOK
<1>5. s \in Sessions BY <1>1 DEF Shaped
<1>6. PICK m \in DOMAIN queue : queue[m].kind = "create" /\ queue[m].session = s
  BY <1>1, <1>4
<1>7. queue'[m].kind = "create" /\ queue'[m].session = s /\ queue'[m] \in Ops(queue')
  BY <1>1, <1>2, <1>6
<1>8. disk'[s].held = Nothing BY <1>2, <1>4, <1>5
<1>9. \A op \in Ops(queue') : ~IsLoad(op, s) BY <1>1, <1>2, <1>4 DEF IsLoad
<1> QED BY <1>4, <1>7, <1>8, <1>9

LEMMA CommitInv == ASSUME ContextInv, PageInv', Commit PROVE ContextInv'
<1>1. PICK n \in DOMAIN queue : Committing(n) BY CommittingFacts DEF ContextInv
<1>2. /\ UNCHANGED <<boot, list, active, ref, shown, loading, cache, saves, sender, sent>>
      /\ past'.unread = past.unread /\ past'.before = past.before
      /\ past.failed => past'.failed
  BY <1>1 DEF Committing
<1>3. CopiesOK' /\ SavesOK' /\ FailuresOK' BY <1>1, CommittingCopies
<1>4. SenderOK'
  <2>1. PICK s : s = sender.session OBVIOUS
  <2>2. Read(s)' => Read(s) BY <1>2 DEF Read
  <2>3. sent \in Int BY DEF ContextInv, CopiesOK
  <2> QED BY <1>2, <2>1, <2>2, <2>3, SenderStays DEF MayMove
<1>5. CreatingOK' BY <1>1, CommittingCreating
<1>6. DeletedOK' /\ LoadsOK' BY <1>1, CommittingDeleted, CommittingLoads
<1>7. HistoryOK' /\ StoredOK' BY <1>1, CommittingHistory, CommittingStored
<1>8. PendingOK' BY <1>2, PendingStays DEF MayMove
<1>9. ScreenOK' BY <1>2 DEF ScreenOK, ContextInv
<1>10. RecordsOK' /\ EarlyOK' /\ TitlesOK' BY <1>1, CommittingRecords, CommittingTitles
<1> QED BY <1>3, <1>4, <1>5, <1>6, <1>7, <1>8, <1>9, <1>10 DEF ContextInv

-----------------------------------------------------------------------------
(* The page as it opens *)

Fresh ==
    /\ Opening /\ boot.stage = "listing" /\ shown = <<>>
    /\ cache = [s \in Sessions |-> Nothing]
    /\ sent \in Int /\ past.before = sent
    /\ \A s \in Sessions : One(disk[s].held) /\ \A c \in disk[s].held : Sound(s, c)
    /\ \A s \in past.deleted : disk[s].title = NoTitle

LEMMA FreshInv == Fresh => ContextInv
<1> SUFFICES ASSUME Fresh PROVE ContextInv
  OBVIOUS
<1>1. PageInv BY OpeningInv DEF Fresh
<1>2. PICK op : op = Operation("list", NoSession) OBVIOUS
<1>3. op.kind = "list" /\ op.result = "none" /\ op.session = NoSession BY <1>2, OperationFacts
<1>4. queue = <<op>> BY <1>2 DEF Fresh, Opening
<1>5. Ops(queue) = {op} /\ DOMAIN queue = {1} /\ queue[1] = op BY <1>4 DEF Ops
<1>6. /\ \A s \in Sessions : saves[s] = <<>> /\ cache[s] = Nothing
      /\ DOMAIN cache = Sessions /\ active = NoSession /\ ref = NoSession
      /\ sender = Idle /\ NoSession \notin Sessions
      /\ \A s \in Sessions : One(disk[s].held) /\ \A c \in disk[s].held : Sound(s, c)
      /\ sent \in Int /\ past.before = sent /\ boot.stage = "listing" /\ shown = <<>>
      /\ \A s \in past.deleted : disk[s].title = NoTitle
  BY BrowserAssumption DEF Fresh, Opening
<1>7. \A s \in Sessions : \A c \in AllCopies(s) : c \in disk[s].held
  <2>1. Ops(<<>>) = {} BY DEF Ops
  <2> QED BY <1>3, <1>5, <1>6, <2>1, IdleFacts, CopyCases DEF IsLoad, Nothing
<1>8. CopiesOK
  <2>1. One(Nothing) BY DEF One
  <2> QED BY <1>3, <1>5, <1>6, <1>7, <2>1 DEF CopiesOK
<1>9. SavesOK /\ FailuresOK BY <1>3, <1>5, <1>6 DEF SavesOK, FailuresOK
<1>10. SenderOK /\ CreatingOK BY <1>6, IdleFacts DEF SenderOK, CreatingOK, Holding
<1>11. DeletedOK
  <2>1. \A s \in Sessions : OnlyStored(s)
    BY <1>6, IdleFacts DEF OnlyStored, SendsIn, Holding, Sound
  <2> QED BY <1>3, <1>5, <1>6, <2>1 DEF DeletedOK
<1>12. LoadsOK BY <1>3, <1>5, <1>6 DEF LoadsOK, Awaited
<1>13. HistoryOK
  <2>1. \A s \in Sessions : DOMAIN saves[s] = {} BY <1>6
  <2> QED BY <1>6, <2>1, IdleFacts DEF HistoryOK, Nothing
<1>14. StoredOK BY <1>3, <1>5, <1>6 DEF StoredOK, Nothing
<1>15. PendingOK BY <1>6, IdleFacts, EmptyFinished DEF PendingOK, Nothing
<1>16. ScreenOK BY <1>6 DEF ScreenOK
<1>17. RecordsOK /\ EarlyOK /\ TitlesOK
  BY <1>3, <1>5, <1>6, IdleFacts DEF RecordsOK, EarlyOK, TitlesOK, Holding
<1> QED BY <1>1, <1>8, <1>9, <1>10, <1>11, <1>12, <1>13, <1>14, <1>15, <1>16, <1>17
        DEF ContextInv

LEMMA InitContextInv == Init => ContextInv
<1> SUFFICES ASSUME Init PROVE Fresh
  BY FreshInv
<1>1. /\ DOMAIN disk = Sessions /\ \A s \in Sessions : DOMAIN disk[s] = {"title", "held"}
      /\ \A s \in Sessions :
            \/ disk[s].held = Nothing
            \/ \E c \in disk[s].held : /\ disk[s].held = {c} /\ c \in Conversations
                                       /\ Matches(c) /\ Upto(c, 0)
  BY BrowserAssumption DEF Init
<1>2. past = Opened(0, {}, {}, {}) /\ sent = 0 BY DEF Init
<1>3. past.before = 0 /\ past.deleted = {} /\ past.erased = {}
      /\ DOMAIN past = {"unread", "failed", "early", "before", "deleted", "erased"}
  BY <1>2 DEF Opened
<1>4. Opening BY <1>1, <1>3 DEF Init, Opening
<1>5. ASSUME NEW s \in Sessions
      PROVE  One(disk[s].held) /\ \A c \in disk[s].held : Sound(s, c)
  <2>1. CASE disk[s].held = Nothing BY <2>1 DEF One, Nothing
  <2>2. ASSUME NEW c \in disk[s].held, disk[s].held = {c}, c \in Conversations, Matches(c),
               Upto(c, 0)
        PROVE  One(disk[s].held) /\ \A d \in disk[s].held : Sound(s, d)
    BY <1>2, <2>2 DEF One, Sound
  <2> QED BY <1>1, <2>1, <2>2
<1> QED BY <1>2, <1>3, <1>4, <1>5 DEF Fresh, Init

LEMMA ReloadInv == ContextInv /\ Reload => ContextInv'
<1>1. ContextInv /\ Reload => Fresh'
  <2> SUFFICES ASSUME ContextInv, Reload PROVE Fresh'
    OBVIOUS
  <2>1. Shaped /\ GoneOK /\ DeletedOK BY DEF ContextInv, PageInv, PageOK
  <2>2. Opening' BY <2>1 DEF Reload, Open, Opened, Opening, Shaped, GoneOK
  <2>3. disk' = disk /\ sent' = sent BY DEF Reload
  <2>4. /\ past' = Opened(sent, past.unread, past.deleted,
                          past.erased \cup {s \in past.deleted : disk[s] = Absent})
        /\ boot' = [stage |-> "listing", titles |-> <<>>]
        /\ shown' = <<>> /\ cache' = [s \in Sessions |-> Nothing]
    BY DEF Reload, Open
  <2>5. past'.unread = past.unread /\ past'.before = sent /\ past'.deleted = past.deleted
    BY <2>4 DEF Opened
  <2>6. sent \in Int BY DEF ContextInv, CopiesOK
  <2>7. ASSUME NEW s \in Sessions
        PROVE  One(disk'[s].held) /\ \A c \in disk'[s].held : Sound(s, c)'
    <3>1. One(disk[s].held) /\ \A c \in disk[s].held : Sound(s, c) BY CopiesSound
    <3> QED BY <2>3, <2>5, <3>1 DEF Sound, Upto
  <2>8. \A s \in past'.deleted : disk'[s].title = NoTitle BY <2>1, <2>3, <2>5 DEF DeletedOK
  <2> QED BY <2>2, <2>3, <2>4, <2>5, <2>6, <2>7, <2>8 DEF Fresh
<1>2. Fresh' => ContextInv' BY FreshInv, PTL
<1> QED BY <1>1, <1>2

-----------------------------------------------------------------------------
(* The theorems *)

LEMMA ContextNext == ContextInv /\ [Next]_vars => ContextInv'
<1> SUFFICES ASSUME ContextInv, [Next]_vars PROVE ContextInv'
  OBVIOUS
<1>0. PageInv' BY NextInv DEF ContextInv
<1>1. CASE Commit BY <1>0, <1>1, CommitInv
<1>2. CASE Fill("ok") \/ Fill("failed") BY <1>0, <1>2, FillInv
<1>3. CASE FillSidebar BY <1>0, <1>3, FillSidebarInv
<1>4. CASE Render BY <1>0, <1>4, RenderInv
<1>5. CASE Loaded BY <1>0, <1>5, LoadedInv
<1>6. CASE LoadFails BY <1>0, <1>6, LoadFailsInv
<1>7. CASE Saved BY <1>0, <1>7, SavedInv
<1>8. CASE Renamed BY <1>0, <1>8, RenamedInv
<1>9. CASE Deleted BY <1>0, <1>9, DeletedInv
<1>10. CASE DeleteFails BY <1>0, <1>10, DeleteFailsInv
<1>11. CASE Stop BY <1>0, <1>11, StopInv
<1>12. CASE \E s \in Sessions \cup {NoSession} : Switch(s) BY <1>0, <1>12, SwitchInv
<1>13. CASE \E s \in Sessions : Rename(s) \/ Delete(s) BY <1>0, <1>13, RenameInv, DeleteInv
<1>14. CASE Send BY <1>0, <1>14, SendInv
<1>15. CASE Created BY <1>0, <1>15, CreatedInv
<1>16. CASE CreateFails \/ NamingFails BY <1>0, <1>16, SendingFailsInv
<1>17. CASE NoProvider BY <1>0, <1>17, NoProviderInv
<1>18. CASE Optimistic BY <1>0, <1>18, OptimisticInv
<1>19. CASE Named BY <1>0, <1>19, NamedInv
<1>20. CASE TextDelta BY <1>0, <1>20, TextDeltaInv
<1>21. CASE ErrorEvent BY <1>0, <1>21, ErrorEventInv
<1>22. CASE StateEvent BY <1>0, <1>22, StateEventInv
<1>23. CASE DoneEvent BY <1>0, <1>23, DoneEventInv
<1>24. CASE StreamEnds BY <1>0, <1>24, StreamEndsInv
<1>25. CASE Reload BY <1>25, ReloadInv
<1>26. CASE UNCHANGED vars BY <1>0, <1>26, StutterInv
<1> QED
  BY <1>1, <1>2, <1>3, <1>4, <1>5, <1>6, <1>7, <1>8, <1>9, <1>10, <1>11, <1>12, <1>13,
     <1>14, <1>15, <1>16, <1>17, <1>18, <1>19, <1>20, <1>21, <1>22, <1>23, <1>24, <1>25,
     <1>26 DEF Next

\* Every copy of a conversation that the page, its saves, its loads and the database hold
\* is one that the page may continue, and the later copies extend the earlier ones
\* (persistConversation, updateAssistant and sendMessage in App.tsx over the transactions
\* of local.ts).
THEOREM ContextInvariant == Spec => []ContextInv
<1> QED BY InitContextInv, ContextNext, PTL DEF Spec

\* The timeline on the screen and the context that the next request carries speak of the
\* same exchanges, in the cache, in the database and in what a request is sent with: every
\* update of App.tsx stores both together, and no save, load or reload separates them.
THEOREM ContextsAlwaysMatch == Spec => []ContextsMatch
<1>1. ContextInv => ContextsMatch
  <2> SUFFICES ASSUME ContextInv, NEW s \in Sessions \ past.unread, NEW c \in Copies(s)
               PROVE  Matches(c)
    BY DEF ContextsMatch
  <2>1. c \in AllCopies(s) BY DEF Copies, AllCopies, InMessage
  <2>2. Sound(s, c) BY <2>1 DEF ContextInv, CopiesOK
  <2> QED BY <2>2 DEF Sound
<1> QED BY <1>1, ContextInvariant, PTL

\* A conversation that extends another has its requests first.
LEMMA ExtendsRequests ==
    ASSUME NEW c \in Conversations, NEW d \in Conversations, Extends(c, d)
    PROVE  /\ IsPrefix(Requests(c), Requests(d))
           /\ \A n \in DOMAIN c.timeline :
                 /\ c.timeline[n].text <= d.timeline[n].text
                 /\ c.context[n].whole => d.context[n].whole
<1>1. /\ Len(c.timeline) \in Nat /\ DOMAIN c.timeline = 1..Len(c.timeline)
      /\ Len(d.timeline) \in Nat /\ DOMAIN d.timeline = 1..Len(d.timeline)
      /\ \A n \in 1..Len(c.timeline) : c.timeline[n].request \in Int
      /\ \A n \in 1..Len(d.timeline) : d.timeline[n].request \in Int
  BY ConversationFacts
<1>2. /\ Len(c.timeline) <= Len(d.timeline)
      /\ \A n \in 1..Len(c.timeline) :
            /\ c.timeline[n].request = d.timeline[n].request
            /\ c.timeline[n].text <= d.timeline[n].text
  BY DEF Extends
<1>3. \A n \in DOMAIN c.timeline : c.context[n].whole => d.context[n].whole
  BY <1>1, Zenon DEF Extends
<1>4. PICK r : r = Requests(c) OBVIOUS
<1>5. PICK q : q = Requests(d) OBVIOUS
<1>6. /\ r \in Seq(Int) /\ Len(r) = Len(c.timeline)
      /\ \A n \in 1..Len(c.timeline) : r[n] = c.timeline[n].request
  BY <1>1, <1>4 DEF Requests
<1>7. /\ q \in Seq(Int) /\ Len(q) = Len(d.timeline)
      /\ \A n \in 1..Len(d.timeline) : q[n] = d.timeline[n].request
  BY <1>1, <1>5 DEF Requests
<1>8. Len(r) \in Nat /\ Len(q) \in Nat /\ Len(r) <= Len(q) BY <1>1, <1>2, <1>6, <1>7
<1>9. \A n \in 1..Len(r) : r[n] = q[n] BY <1>1, <1>2, <1>6, <1>7
<1>10. SubSeq(r, 1, Len(r)) = SubSeq(q, 1, Len(r))
  <2>1. PICK a : a = SubSeq(r, 1, Len(r)) OBVIOUS
  <2>2. PICK b : b = SubSeq(q, 1, Len(r)) OBVIOUS
  <2>3. a \in Seq(Int) /\ Len(a) = Len(r) /\ \A n \in 1..Len(r) : a[n] = r[n]
    BY <1>6, <1>8, <2>1
  <2>4. b \in Seq(Int) /\ Len(b) = Len(r) /\ \A n \in 1..Len(r) : b[n] = q[n]
    BY <1>7, <1>8, <2>2
  <2>5. a = [n \in 1..Len(r) |-> a[n]] BY <2>3
  <2>6. b = [n \in 1..Len(r) |-> b[n]] BY <2>4
  <2>7. \A n \in 1..Len(r) : a[n] = b[n] BY <1>9, <2>3, <2>4
  <2>8. a = b BY <2>5, <2>6, <2>7
  <2> QED BY <2>1, <2>2, <2>8
<1>11. IsPrefix(r, q) BY <1>8, <1>10 DEF IsPrefix
<1> QED BY <1>1, <1>2, <1>3, <1>4, <1>5, <1>11

\* What a transaction makes of a conversation that the database holds.
LEMMA StoresOnlyMore ==
    ASSUME ContextInv, PageInv', Commit, NEW s \in Sessions \ past.unread,
           NEW old \in disk[s].held, NEW new \in disk'[s].held
    PROVE  old = new \/ (old \in Conversations /\ new \in Conversations /\ Extends(old, new))
<1>1. PICK n \in DOMAIN queue : Committing(n) BY CommittingFacts DEF ContextInv
<1>2. \/ disk'[s].held = disk[s].held
      \/ disk'[s].held = Nothing
      \/ saves[s] # <<>> /\ disk'[s].held = {saves[s][1]}
  BY <1>1, CommittingHeld
<1>3. CASE disk'[s].held = disk[s].held
  BY <1>3, HeldFacts DEF ContextInv, CopiesOK
<1>4. CASE saves[s] # <<>> /\ disk'[s].held = {saves[s][1]}
  <2>0. PICK t : t = saves[s] OBVIOUS
  <2>a. IsSeq(t) /\ t # <<>> BY <1>4, <2>0, QueueFacts DEF ContextInv, Shaped
  <2>b. 1 \in DOMAIN t /\ t[1] \in Ops(t) BY <2>a, SeqFacts
  <2>1. 1 \in DOMAIN saves[s] /\ saves[s][1] \in Ops(saves[s]) BY <2>0, <2>b
  <2>2. old \in AllCopies(s) /\ saves[s][1] \in AllCopies(s) BY <2>1 DEF AllCopies
  <2>3. old \in Conversations /\ saves[s][1] \in Conversations
    BY <2>2 DEF ContextInv, CopiesOK, Sound
  <2>4. Extends(old, saves[s][1]) BY <2>1 DEF ContextInv, HistoryOK
  <2> QED BY <1>4, <2>3, <2>4
<1> QED BY <1>2, <1>3, <1>4 DEF Nothing

\* Only a transaction changes what is stored.
LEMMA OnlyCommits == ASSUME Next, disk' # disk PROVE Commit
<1>1. ~Fill("ok") /\ ~Fill("failed") /\ ~FillSidebar /\ ~Render
  BY DEF Fill, FillSidebar, Render, Heard
<1>2. ~Loaded /\ ~LoadFails /\ ~Saved /\ ~Renamed /\ ~Deleted /\ ~DeleteFails
  BY DEF Loaded, LoadFails, Saved, Renamed, Deleted, DeleteFails, Heard
<1>3. ~Stop /\ \A s : ~Switch(s) /\ ~Rename(s) /\ ~Delete(s)
  BY DEF Stop, Switch, Rename, Delete, Clicked
<1>4. ~Send /\ ~Created /\ ~CreateFails /\ ~NoProvider /\ ~Optimistic /\ ~Named
      /\ ~NamingFails
  BY DEF Send, Created, CreateFails, NoProvider, Optimistic, Named, NamingFails, Heard
<1>5. ~Generating /\ ~Streams("streaming") /\ ~Streams("stopping")
  BY DEF Generating, Streams
<1>6. ~TextDelta /\ ~ErrorEvent /\ ~StateEvent /\ ~DoneEvent /\ ~StreamEnds
  BY <1>5, Zenon DEF TextDelta, ErrorEvent, StateEvent, DoneEvent, StreamEnds
<1>7. ~Reload BY DEF Reload
<1> QED BY <1>1, <1>2, <1>3, <1>4, <1>6, <1>7 DEF Next

\* A transaction never takes an exchange away from a stored conversation, nor text of its
\* reply: the saves of a session follow one another in the order of persistConversation,
\* and each was made of the one before.
THEOREM HistoryAlwaysKept == Spec => HistoryKept
<1> DEFINE Kept ==
        \A s \in Sessions : \A old \in disk[s].held, new \in disk'[s].held :
          \/ old = new \/ s \in past.unread
          \/ /\ IsPrefix(Requests(old), Requests(new))
             /\ \A n \in DOMAIN old.timeline :
                   /\ old.timeline[n].text <= new.timeline[n].text
                   /\ old.context[n].whole => new.context[n].whole
<1>1. ContextInv /\ PageInv' /\ [Next]_vars => [Kept]_vars
  <2> SUFFICES ASSUME ContextInv, PageInv', Next PROVE Kept
    OBVIOUS
  <2>1. CASE Commit
    <3> SUFFICES ASSUME NEW s \in Sessions, NEW old \in disk[s].held,
                        NEW new \in disk'[s].held, s \notin past.unread, old # new
                 PROVE  /\ IsPrefix(Requests(old), Requests(new))
                        /\ \A n \in DOMAIN old.timeline :
                              /\ old.timeline[n].text <= new.timeline[n].text
                              /\ old.context[n].whole => new.context[n].whole
      BY Zenon
    <3>1. old \in Conversations /\ new \in Conversations /\ Extends(old, new)
      BY <2>1, StoresOnlyMore
    <3> QED BY <3>1, ExtendsRequests
  <2>2. CASE disk' = disk
    <3>1. \A s \in Sessions : \A old \in disk[s].held, new \in disk'[s].held : old = new
      BY <2>2, HeldFacts DEF ContextInv, CopiesOK
    <3> QED BY <3>1, Zenon
  <2>3. Commit \/ disk' = disk BY OnlyCommits
  <2> QED BY <2>1, <2>2, <2>3
<1>2. Spec => []ContextInv /\ []PageInv BY ContextInvariant, PageInvariant, PTL
<1> QED BY <1>1, <1>2, PTL DEF Spec, HistoryKept

\* When nothing is under way and no transaction failed, the database holds what the page
\* does, the screen shows the open conversation, and the sidebar names what is stored: no
\* order in which saves, loads, renames, deletions and replies come about leaves the page
\* and IndexedDB apart (App.tsx and local.ts).
THEOREM StoredAlwaysShown == Spec => []StoredIsShown
<1>1. ContextInv => StoredIsShown
  <2> SUFFICES ASSUME ContextInv, Quiet, ~past.failed
               PROVE  /\ \A s \in Sessions : cache[s] # Nothing =>
                            /\ Conversed(disk[s].held) = Current(s)
                            /\ \A e \in ToSet(Current(s).timeline) :
                                  e.state = "pending" => e.request <= past.before
                      /\ active = NoSession => shown = <<>>
                      /\ active # NoSession /\ ~loading =>
                            cache[active] # Nothing /\ shown = Current(active).timeline
                      /\ boot.stage = "done" =>
                            \A s \in Sessions \ past.early : list[s] = disk[s].title
    BY DEF StoredIsShown
  <2>1. queue = <<>> /\ sender = Idle /\ active = ref BY DEF Quiet
  <2>2. Ops(queue) = {} BY <2>1 DEF Ops
  <2>3. \A s \in Sessions : One(cache[s]) BY DEF ContextInv, CopiesOK
  <2>4. ASSUME NEW s \in Sessions, cache[s] # Nothing
        PROVE  /\ Conversed(disk[s].held) = Current(s)
               /\ \A e \in ToSet(Current(s).timeline) :
                     e.state = "pending" => e.request <= past.before
    <3>1. Current(s) \in cache[s] BY <2>3, <2>4, HeldFacts DEF Current
    <3>2. saves[s] = <<>> BY <2>2 DEF ContextInv, SavesOK
    <3>3. Conversed(disk[s].held) = Current(s)
      BY <2>2, <3>1, <3>2 DEF ContextInv, StoredOK
    <3>4. ~(sender.stage \in Replying) BY <2>1, IdleFacts DEF Replying
    <3>5. \A n \in DOMAIN Current(s).timeline :
             Current(s).timeline[n].state = "pending" =>
                 Current(s).timeline[n].request <= past.before
      BY <3>1, <3>4 DEF ContextInv, PendingOK
    <3>6. \A e \in ToSet(Current(s).timeline) :
             \E n \in DOMAIN Current(s).timeline : e = Current(s).timeline[n]
      BY DEF ToSet
    <3> QED BY <3>3, <3>5, <3>6
  <2>5. active = NoSession => shown = <<>> BY <2>1 DEF ContextInv, ScreenOK
  <2>6. ASSUME active # NoSession, ~loading
        PROVE  cache[active] # Nothing /\ shown = Current(active).timeline
    <3>1. ref \in Sessions BY <2>1, <2>6, QueueFacts DEF ContextInv, Shaped
    <3>2. cache[ref] # Nothing BY <2>1, <2>6, <3>1 DEF ContextInv, LoadsOK, Read
    <3>3. Current(ref) \in cache[ref] BY <2>3, <3>1, <3>2, HeldFacts DEF Current
    <3>4. shown = Current(ref).timeline BY <3>1, <3>3 DEF ContextInv, ScreenOK
    <3> QED BY <2>1, <3>2, <3>4
  <2>7. ASSUME boot.stage = "done", NEW s \in Sessions \ past.early
        PROVE  list[s] = disk[s].title
    <3>1. Settled(s) /\ Listing(s) = list[s] BY <2>7 DEF Settled, Listing
    <3>2. CASE s \in past.deleted
      <4>1. Listing(s) = NoTitle BY <2>2, <2>7, <3>1, <3>2 DEF ContextInv, TitlesOK
      <4>2. disk[s].title = NoTitle BY <3>2 DEF ContextInv, DeletedOK
      <4> QED BY <3>1, <4>1, <4>2
    <3>3. CASE s \notin past.deleted
      BY <2>2, <2>7, <3>1, <3>3 DEF ContextInv, TitlesOK
    <3> QED BY <3>2, <3>3
  <2> QED BY <2>4, <2>5, <2>6, <2>7
<1> QED BY <1>1, ContextInvariant, PTL
=============================================================================
