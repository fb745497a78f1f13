------------------------ MODULE ContextWindowProofs ------------------------
(***************************************************************************)
(* What compaction computes, for any budget, any trigger, any number of    *)
(* recent messages and histories of any length.  The operators on          *)
(* sequences are folds: their recursive functions are shown to exist by    *)
(* induction over the length, and each value follows from the one before.  *)
(* From that: the groups of a history are histories, histories put         *)
(* together are a history, the groups of a history put together are that   *)
(* history again, and each stage of prepare returns a history, within the  *)
(* budget where that can be had, with the newest group and the skills of   *)
(* the one it was given.                                                   *)
(***************************************************************************)
EXTENDS ContextWindow, TLAPS, WellFoundedInduction

-----------------------------------------------------------------------------
(* Induction, and the positions of a sequence in order *)

LEMMA LeastNatural ==
    ASSUME NEW T \in SUBSET Nat, T # {}
    PROVE  \E n \in T : \A m \in T : n <= m
<1>1. IsWellFoundedOn(OpToRel(<, Nat), Nat) BY NatLessThanWellFounded
<1>2. PICK R : R = OpToRel(<, Nat) OBVIOUS
<1>3. R = {ss \in Nat \X Nat : ss[1] < ss[2]} BY <1>2 DEF OpToRel
<1>4. PICK n \in T : \A m \in T : <<m, n>> \notin R BY <1>1, <1>2, WFMin
<1>5. \A m \in T : ~(m < n) BY <1>3, <1>4
<1> QED BY <1>4, <1>5

LEMMA Induction ==
    ASSUME NEW S, 0 \in S, \A n \in Nat : n \in S => n + 1 \in S
    PROVE  Nat \subseteq S
<1> DEFINE T == Nat \ S
<1> SUFFICES ASSUME T # {} PROVE FALSE OBVIOUS
<1>1. PICK n \in T : \A m \in T : n <= m BY LeastNatural
<1>2. n # 0 /\ n - 1 \in Nat /\ n - 1 \notin T BY <1>1
<1>3. n - 1 \in S BY <1>2
<1> QED BY <1>1, <1>2, <1>3

\* upto is the function that Ascending is defined by.
Climbs(upto, positions, n) ==
    upto = [i \in 0..n |-> IF i = 0 THEN <<>>
                           ELSE IF i \in positions THEN Append(upto[i - 1], i)
                           ELSE upto[i - 1]]

LEMMA ClimbsExists ==
    ASSUME NEW positions, NEW n \in Nat
    PROVE  \E upto : Climbs(upto, positions, n)
<1> DEFINE S == {m \in Nat : \E upto : Climbs(upto, positions, m)}
<1>1. 0 \in S
  <2>1. Climbs([i \in 0..0 |-> <<>>], positions, 0) BY DEF Climbs
  <2> QED BY <2>1
<1>2. ASSUME NEW m \in Nat, m \in S PROVE m + 1 \in S
  <2>1. PICK f : Climbs(f, positions, m) BY <1>2
  <2>2. PICK x : x = IF m + 1 \in positions THEN Append(f[m], m + 1) ELSE f[m] OBVIOUS
  <2>3. PICK g : g = [i \in 0..(m + 1) |-> IF i = m + 1 THEN x ELSE f[i]] OBVIOUS
  <2>4. \A i \in 0..(m + 1) : g[i] = IF i = 0 THEN <<>>
                           ELSE IF i \in positions THEN Append(g[i - 1], i)
                           ELSE g[i - 1]
    <3> SUFFICES ASSUME NEW i \in 0..(m + 1)
        PROVE g[i] = IF i = 0 THEN <<>>
                           ELSE IF i \in positions THEN Append(g[i - 1], i)
                           ELSE g[i - 1]
      OBVIOUS
    <3>1. CASE i = m + 1 BY <2>2, <2>3, <3>1
    <3>2. CASE i # m + 1
      <4>1. i \in 0..m /\ (i # 0 => i - 1 \in 0..m) BY <3>2
      <4>2. g[i] = f[i] /\ (i # 0 => g[i-1] = f[i-1]) BY <2>3, <4>1
      <4>3. f[i] =  IF i = 0 THEN <<>>
                           ELSE IF i \in positions THEN Append(f[i - 1], i)
                           ELSE f[i - 1] BY <2>1, <4>1 DEF Climbs
      <4> QED BY <4>2, <4>3
    <3> QED BY <3>1, <3>2
  <2>5. Climbs(g, positions, m + 1) BY <2>3, <2>4 DEF Climbs
  <2> QED BY <2>5
<1> HIDE DEF S
<1>3. n \in S BY <1>1, <1>2, Induction
<1> QED BY <1>3 DEF S

LEMMA AscendingClimbs ==
    ASSUME NEW positions, NEW n \in Nat
    PROVE  \E upto : Climbs(upto, positions, n) /\ Ascending(positions, n) = upto[n]
<1> DEFINE f == CHOOSE upto : Climbs(upto, positions, n)
<1>1. Climbs(f, positions, n) BY ClimbsExists
<1>2. Ascending(positions, n) = f[n] BY DEF Ascending, Climbs
<1> QED BY <1>1, <1>2

-----------------------------------------------------------------------------
(* Sequences of any values *)

IsSeq(q) == q \in Seq({q[n] : n \in DOMAIN q})

\* A sequence of some set is one of its own elements.
LEMMA OwnElements ==
    ASSUME NEW S, NEW q \in Seq(S)
    PROVE  IsSeq(q)
<1> DEFINE T == {q[n] : n \in DOMAIN q}
<1>1. /\ Len(q) \in Nat /\ DOMAIN q = 1..Len(q)
      /\ q = [n \in 1..Len(q) |-> q[n]]
  OBVIOUS
<1>2. \A n \in 1..Len(q) : q[n] \in T BY <1>1
<1>3. q \in [1..Len(q) -> T] BY <1>1, <1>2
<1> QED BY <1>1, <1>3 DEF IsSeq

LEMMA SeqFacts ==
    ASSUME NEW q, IsSeq(q)
    PROVE  Len(q) \in Nat /\ DOMAIN q = 1..Len(q) /\ (q = <<>> <=> Len(q) = 0)
BY DEF IsSeq

\* A function on 1..n is a sequence.
LEMMA FunctionFacts ==
    ASSUME NEW n \in Nat, NEW q, q = [k \in 1..n |-> q[k]]
    PROVE  IsSeq(q) /\ Len(q) = n /\ DOMAIN q = 1..n
<1> DEFINE T == {q[k] : k \in DOMAIN q}
<1>1. DOMAIN q = 1..n OBVIOUS
<1>2. \A k \in 1..n : q[k] \in T BY <1>1
<1>3. q \in [1..n -> T] BY <1>1, <1>2
<1>4. q \in Seq(T) BY <1>3
<1>5. Len(q) = n BY <1>1, <1>3
<1> QED BY <1>1, <1>4, <1>5 DEF IsSeq

LEMMA ConcatFacts ==
    ASSUME NEW a, NEW b, NEW c, IsSeq(a), IsSeq(b), c = a \o b
    PROVE  /\ IsSeq(c) /\ Len(c) = Len(a) + Len(b) /\ Len(a) \in Nat /\ Len(b) \in Nat
           /\ DOMAIN c = 1..(Len(a) + Len(b)) /\ DOMAIN a = 1..Len(a) /\ DOMAIN b = 1..Len(b)
           /\ \A i \in 1..Len(a) : c[i] = a[i]
           /\ \A i \in 1..Len(b) : c[Len(a) + i] = b[i]
           /\ \A k \in 1..Len(c) : k \in 1..Len(a) \/ k - Len(a) \in 1..Len(b)
<1> DEFINE S == {a[n] : n \in DOMAIN a} \cup {b[n] : n \in DOMAIN b}
<1>1. a \in Seq(S) /\ b \in Seq(S)
  <2>1. a \in Seq({a[n] : n \in DOMAIN a}) /\ b \in Seq({b[n] : n \in DOMAIN b}) BY DEF IsSeq
  <2>2. {a[n] : n \in DOMAIN a} \subseteq S /\ {b[n] : n \in DOMAIN b} \subseteq S OBVIOUS
  <2> HIDE DEF S
  <2> QED BY <2>1, <2>2
<1> HIDE DEF S
<1>2. c \in Seq(S) /\ Len(c) = Len(a) + Len(b) BY <1>1
<1>3. \A i \in 1..Len(a) : c[i] = a[i] BY <1>1
<1>4. \A i \in 1..Len(b) : c[Len(a) + i] = b[i] BY <1>1
<1>5. IsSeq(c) BY <1>2, OwnElements
<1>6. Len(a) \in Nat /\ Len(b) \in Nat /\ DOMAIN c = 1..(Len(a) + Len(b))
      /\ DOMAIN a = 1..Len(a) /\ DOMAIN b = 1..Len(b) BY <1>1, <1>2
<1> QED BY <1>2, <1>3, <1>4, <1>5, <1>6

LEMMA AppendFacts ==
    ASSUME NEW q, NEW e, NEW r, IsSeq(q), r = Append(q, e)
    PROVE  /\ IsSeq(r) /\ Len(r) = Len(q) + 1 /\ DOMAIN r = 1..(Len(q) + 1)
           /\ Len(q) \in Nat /\ DOMAIN q = 1..Len(q)
           /\ \A n \in 1..Len(q) : r[n] = q[n]
           /\ r[Len(q) + 1] = e
<1> DEFINE S == {q[n] : n \in DOMAIN q} \cup {e}
<1>1. q \in Seq(S) /\ e \in S
  <2>1. q \in Seq({q[n] : n \in DOMAIN q}) BY DEF IsSeq
  <2>2. {q[n] : n \in DOMAIN q} \subseteq S /\ e \in S OBVIOUS
  <2> HIDE DEF S
  <2> QED BY <2>1, <2>2
<1> HIDE DEF S
<1>2. r \in Seq(S) BY <1>1
<1>3. IsSeq(r) BY <1>2, OwnElements
<1> QED BY <1>1, <1>2, <1>3

LEMMA SubSeqFacts ==
    ASSUME NEW q, IsSeq(q), NEW m \in Nat, NEW n \in Nat, 1 <= m, m <= n + 1, n <= Len(q),
           NEW r, r = SubSeq(q, m, n)
    PROVE  /\ IsSeq(r) /\ Len(r) = n - m + 1 /\ DOMAIN r = 1..(n - m + 1)
           /\ \A i \in 1..(n - m + 1) : r[i] = q[m + i - 1]
<1>1. q \in Seq({q[i] : i \in DOMAIN q}) BY DEF IsSeq
<1>2. PICK S : S = {q[i] : i \in DOMAIN q} OBVIOUS
<1>3. q \in Seq(S) BY <1>1, <1>2
<1>4. r \in Seq(S) /\ Len(r) = n - m + 1 /\ \A i \in 1..(n - m + 1) : r[i] = q[m + i - 1]
  BY <1>3
<1>5. IsSeq(r) BY <1>4, OwnElements
<1> QED BY <1>4, <1>5, SeqFacts

\* upto climbs to the positions, in order.
LEMMA AscendingFacts ==
    ASSUME NEW positions, NEW n \in Nat, NEW at, at = Ascending(positions, n)
    PROVE  /\ IsSeq(at)
           /\ \A k \in 1..Len(at) : at[k] \in positions /\ at[k] \in 1..n
           /\ \A k \in 1..Len(at) : \A l \in (k + 1)..Len(at) : at[k] < at[l]
           /\ \A i \in 1..n : i \in positions => \E k \in 1..Len(at) : at[k] = i
<1>1. PICK f : Climbs(f, positions, n) /\ at = f[n] BY AscendingClimbs
<1> DEFINE Good(q, m) ==
        /\ IsSeq(q)
        /\ \A k \in 1..Len(q) : q[k] \in positions /\ q[k] \in 1..m
        /\ \A k \in 1..Len(q) : \A l \in (k + 1)..Len(q) : q[k] < q[l]
        /\ \A i \in 1..m : i \in positions => \E k \in 1..Len(q) : q[k] = i
<1> DEFINE S == {m \in Nat : m <= n => Good(f[m], m)}
<1>2. 0 \in S
  <2>1. f[0] = <<>> BY <1>1 DEF Climbs
  <2>2. IsSeq(<<>>) BY DEF IsSeq
  <2> QED BY <2>1, <2>2
<1>3. ASSUME NEW m \in Nat, m \in S PROVE m + 1 \in S
  <2> SUFFICES ASSUME m + 1 <= n PROVE Good(f[m + 1], m + 1)
    OBVIOUS
  <2>1. PICK q : q = f[m] OBVIOUS
  <2>2. Good(q, m) BY <1>3, <2>1
  <2>3. PICK r : r = f[m + 1] OBVIOUS
  <2>4. r = IF m + 1 \in positions THEN Append(q, m + 1) ELSE q
    <3>1. m + 1 \in 0..n /\ m + 1 # 0 /\ (m + 1) - 1 = m OBVIOUS
    <3>2. f[m + 1] = IF m + 1 \in positions THEN Append(f[m], m + 1) ELSE f[m]
      BY <1>1, <3>1 DEF Climbs
    <3> QED BY <2>1, <2>3, <3>2
  <2>5. Len(q) \in Nat BY <2>2, SeqFacts
  <2>6. CASE m + 1 \notin positions
    <3>1. r = q BY <2>4, <2>6
    <3>2. \A i \in 1..(m + 1) : i \in positions => i \in 1..m BY <2>6
    <3> QED BY <2>2, <2>3, <3>1, <3>2
  <2>7. CASE m + 1 \in positions
    <3>1. r = Append(q, m + 1) BY <2>4, <2>7
    <3>2. /\ IsSeq(r) /\ Len(r) = Len(q) + 1
          /\ \A k \in 1..Len(q) : r[k] = q[k]
          /\ r[Len(q) + 1] = m + 1
      <4>1. IsSeq(q) BY <2>2
      <4>2. PICK e : e = m + 1 OBVIOUS
      <4>3. r = Append(q, e) BY <3>1, <4>2
      <4> HIDE DEF Good
      <4>4. IsSeq(r) BY <4>1, <4>3, AppendFacts
      <4>5. Len(r) = Len(q) + 1 BY <4>1, <4>3, AppendFacts
      <4>6. \A k \in 1..Len(q) : r[k] = q[k] BY <4>1, <4>3, AppendFacts
      <4>7. r[Len(q) + 1] = e BY <4>1, <4>3, AppendFacts
      <4> QED BY <4>2, <4>4, <4>5, <4>6, <4>7
    <3>3. \A k \in 1..Len(r) : r[k] \in positions /\ r[k] \in 1..(m + 1)
      <4> SUFFICES ASSUME NEW k \in 1..Len(r) PROVE r[k] \in positions /\ r[k] \in 1..(m + 1)
        OBVIOUS
      <4>1. k \in 1..Len(q) \/ k = Len(q) + 1 BY <2>5, <3>2
      <4> QED BY <2>2, <2>7, <3>2, <4>1
    <3>4. \A k \in 1..Len(r) : \A l \in (k + 1)..Len(r) : r[k] < r[l]
      <4> SUFFICES ASSUME NEW k \in 1..Len(r), NEW l \in (k + 1)..Len(r) PROVE r[k] < r[l]
        OBVIOUS
      <4>1. k \in 1..Len(q) /\ (l \in (k + 1)..Len(q) \/ l = Len(q) + 1) BY <2>5, <3>2
      <4>2. CASE l \in (k + 1)..Len(q)
        <5>1. l \in 1..Len(q) BY <2>5, <4>1, <4>2
        <5> QED BY <2>2, <3>2, <4>1, <4>2, <5>1
      <4>3. CASE l = Len(q) + 1
        <5>1. r[k] = q[k] /\ q[k] \in 1..m /\ r[l] = m + 1 BY <2>2, <3>2, <4>1, <4>3
        <5> QED BY <5>1
      <4> QED BY <4>1, <4>2, <4>3
    <3>5. \A i \in 1..(m + 1) : i \in positions => \E k \in 1..Len(r) : r[k] = i
      <4> SUFFICES ASSUME NEW i \in 1..(m + 1), i \in positions
                   PROVE  \E k \in 1..Len(r) : r[k] = i
        OBVIOUS
      <4>1. CASE i = m + 1 BY <2>5, <3>2, <4>1
      <4>2. CASE i \in 1..m
        <5>1. PICK k \in 1..Len(q) : q[k] = i BY <2>2, <4>2
        <5> QED BY <2>5, <3>2, <5>1
      <4> QED BY <4>1, <4>2
    <3> QED BY <2>3, <3>2, <3>3, <3>4, <3>5
  <2> QED BY <2>6, <2>7
<1> HIDE DEF S
<1>4. n \in S BY <1>2, <1>3, Induction
<1> QED BY <1>1, <1>4 DEF S

-----------------------------------------------------------------------------
(* Picking and joining *)

\* The elements that are picked, in their order.
LEMMA PickFacts ==
    ASSUME NEW q, IsSeq(q), NEW positions, NEW r, r = Pick(q, positions)
    PROVE  /\ IsSeq(r) /\ DOMAIN r = 1..Len(r)
           /\ \E at : /\ IsSeq(at) /\ Len(at) = Len(r)
                      /\ at = Ascending(positions, Len(q))
                      /\ \A k \in 1..Len(r) : /\ at[k] \in positions /\ at[k] \in 1..Len(q)
                                              /\ r[k] = q[at[k]]
                      /\ \A k \in 1..Len(r) : \A l \in (k + 1)..Len(r) : at[k] < at[l]
                      /\ \A i \in 1..Len(q) : i \in positions =>
                            \E k \in 1..Len(r) : at[k] = i
<1>1. Len(q) \in Nat BY SeqFacts
<1>2. PICK at : at = Ascending(positions, Len(q)) OBVIOUS
<1>3. /\ IsSeq(at)
      /\ \A k \in 1..Len(at) : at[k] \in positions /\ at[k] \in 1..Len(q)
      /\ \A k \in 1..Len(at) : \A l \in (k + 1)..Len(at) : at[k] < at[l]
      /\ \A i \in 1..Len(q) : i \in positions => \E k \in 1..Len(at) : at[k] = i
  BY <1>1, <1>2, AscendingFacts
<1>4. r = [k \in 1..Len(at) |-> q[at[k]]] BY <1>2 DEF Pick
<1>5. Len(at) \in Nat BY <1>3, SeqFacts
<1>6. IsSeq(r) /\ Len(r) = Len(at) /\ DOMAIN r = 1..Len(at) BY <1>4, <1>5, FunctionFacts
<1>7. \A k \in 1..Len(r) : r[k] = q[at[k]] BY <1>4, <1>6
<1> QED BY <1>2, <1>3, <1>5, <1>6, <1>7

\* The function that FlattenSeq is defined by.
Joined(f, qs) == f = [i \in 1..Len(qs) |-> IF i = 1 THEN qs[i] ELSE f[i - 1] \o qs[i]]

LEMMA JoinedExists ==
    ASSUME NEW qs, IsSeq(qs)
    PROVE  \E f : Joined(f, qs)
<1> DEFINE Up(f, m) == f = [i \in 1..m |-> IF i = 1 THEN qs[i] ELSE f[i - 1] \o qs[i]]
           S == {m \in Nat : \E f : Up(f, m)}
<1>1. 0 \in S
  <2>1. Up([i \in 1..0 |-> <<>>], 0) OBVIOUS
  <2> QED BY <2>1
<1>2. ASSUME NEW m \in Nat, m \in S PROVE m + 1 \in S
  <2>1. PICK f : Up(f, m) BY <1>2
  <2>2. PICK x : x = IF m + 1 = 1 THEN qs[m + 1] ELSE f[m] \o qs[m + 1] OBVIOUS
  <2>3. PICK g : g = [i \in 1..(m + 1) |-> IF i = m + 1 THEN x ELSE f[i]] OBVIOUS
  <2>4. \A i \in 1..(m + 1) : g[i] = IF i = 1 THEN qs[i] ELSE g[i - 1] \o qs[i]
    <3> SUFFICES ASSUME NEW i \in 1..(m + 1)
                 PROVE  g[i] = IF i = 1 THEN qs[i] ELSE g[i - 1] \o qs[i]
      OBVIOUS
    <3>1. CASE i = m + 1
      <4>1. g[i] = x BY <2>3, <3>1
      <4>2. i # 1 => i - 1 \in 1..(m + 1) /\ i - 1 # m + 1 /\ i - 1 = m BY <3>1
      <4>3. i # 1 => g[i - 1] = f[m] BY <2>3, <4>2
      <4> QED BY <2>2, <3>1, <4>1, <4>3
    <3>2. CASE i # m + 1
      <4>1. i \in 1..m /\ (i # 1 => i - 1 \in 1..m) BY <3>2
      <4>2. g[i] = f[i] /\ (i # 1 => g[i - 1] = f[i - 1]) BY <2>3, <4>1
      <4>3. f[i] = IF i = 1 THEN qs[i] ELSE f[i - 1] \o qs[i] BY <2>1, <4>1
      <4> QED BY <4>2, <4>3
    <3> QED BY <3>1, <3>2
  <2>5. Up(g, m + 1) BY <2>3, <2>4
  <2> HIDE DEF Up
  <2> QED BY <2>5
<1> HIDE DEF S
<1>3. Len(qs) \in S BY <1>1, <1>2, Induction, SeqFacts
<1> QED BY <1>3 DEF S, Joined

\* Joining sequences one after the other.
LEMMA FlattenFacts ==
    ASSUME NEW qs, IsSeq(qs)
    PROVE  /\ qs = <<>> => Flatten(qs) = <<>>
           /\ qs # <<>> => \E f : /\ Flatten(qs) = f[Len(qs)] /\ f[1] = qs[1]
                                  /\ \A i \in 2..Len(qs) : f[i] = f[i - 1] \o qs[i]
<1>1. Len(qs) \in Nat /\ (qs = <<>> <=> Len(qs) = 0) BY SeqFacts
<1>2. CASE qs = <<>> BY <1>1, <1>2 DEF Flatten, FlattenSeq
<1>3. CASE qs # <<>>
  <2> DEFINE f == CHOOSE g : Joined(g, qs)
  <2>1. Joined(f, qs) BY JoinedExists
  <2>2. Flatten(qs) = f[Len(qs)] BY <1>1, <1>3 DEF Flatten, FlattenSeq, Joined
  <2> HIDE DEF f
  <2>3. f[1] = qs[1] BY <1>1, <1>3, <2>1 DEF Joined
  <2>4. ASSUME NEW i \in 2..Len(qs) PROVE f[i] = f[i - 1] \o qs[i]
    <3>1. i \in 1..Len(qs) /\ i # 1 BY <1>1
    <3> QED BY <2>1, <3>1 DEF Joined
  <2> QED BY <1>3, <2>2, <2>3, <2>4
<1> QED BY <1>2, <1>3

-----------------------------------------------------------------------------
(* Histories: calls and replies belong together *)

\* Every message has its shape.
Shaped(m) == IsMessage(m) /\ IsSeq(m.calls)
IsHistory(ms) == IsSeq(ms) /\ \A k \in DOMAIN ms : Shaped(ms[k])

\* Every reply belongs to the call of an assistant message, with only replies in between
\* that left one of its calls open.
Tied(ms) ==
    \A k \in DOMAIN ms : ms[k].role = "tool" =>
        \E i \in 1..(k - 1) : Joins(ms, i, k) /\ ms[k].reply \in CallIds(ms[i])

\* Every call has its reply.
Answered(ms) ==
    \A i \in DOMAIN ms :
        CallIds(ms[i]) \subseteq {ms[j].reply : j \in FollowingReplies(ms, i)}

LEMMA TiedAnsweredClosed ==
    ASSUME NEW ms, IsSeq(ms), Tied(ms), Answered(ms)
    PROVE  Closed(ms)
<1>1. Len(ms) \in Nat /\ DOMAIN ms = 1..Len(ms) BY SeqFacts
<1>2. ASSUME NEW k \in DOMAIN ms, ms[k].role = "tool"
      PROVE  \E i \in 1..(k - 1) : /\ ms[k].reply \in CallIds(ms[i])
                                   /\ k \in FollowingReplies(ms, i)
  <2>1. PICK i \in 1..(k - 1) : Joins(ms, i, k) /\ ms[k].reply \in CallIds(ms[i])
    BY <1>2 DEF Tied
  <2>2. \A j \in (i + 1)..k : ms[j].role = "tool" BY <2>1 DEF Joins
  <2>3. k \in (i + 1)..Len(ms) BY <1>1
  <2> QED BY <2>1, <2>2, <2>3 DEF FollowingReplies
<1> QED BY <1>2 DEF Closed, Answered

LEMMA ClosedAnswered == ASSUME NEW ms, Closed(ms) PROVE Answered(ms)
BY DEF Closed, Answered

\* The sequence a stands in c from position d + 1 on.
Within(a, c, d) ==
    /\ IsSeq(a) /\ IsSeq(c) /\ d \in Nat /\ d + Len(a) <= Len(c)
    /\ \A j \in 1..Len(a) : c[d + j] = a[j]

LEMMA JoinsWithin ==
    ASSUME NEW a, NEW c, NEW d, Within(a, c, d), NEW k \in 1..Len(a), NEW i \in 1..(k - 1)
    PROVE  /\ Joins(a, i, k) <=> Joins(c, d + i, d + k)
           /\ a[i] = c[d + i] /\ a[k] = c[d + k]
<1>1. /\ Len(a) \in Nat /\ Len(c) \in Nat /\ d \in Nat
      /\ \A j \in 1..Len(a) : c[d + j] = a[j]
  BY SeqFacts DEF Within
<1>2. PICK p : p = d + i OBVIOUS
<1>3. PICK q : q = d + k OBVIOUS
<1>4. k \in Nat /\ i \in 1..Len(a) /\ i \in Nat /\ p \in Nat /\ q \in Nat BY <1>1, <1>2, <1>3
<1>5. a[i] = c[p] /\ a[k] = c[q] BY <1>1, <1>2, <1>3, <1>4
<1>6. \A j \in (i + 1)..k : d + j \in (p + 1)..q /\ c[d + j] = a[j]
  <2> SUFFICES ASSUME NEW j \in (i + 1)..k
               PROVE  d + j \in (p + 1)..q /\ c[d + j] = a[j]
    OBVIOUS
  <2>1. j \in 1..Len(a) BY <1>1, <1>4
  <2>2. d + j \in (p + 1)..q BY <1>1, <1>2, <1>3, <1>4
  <2> QED BY <1>1, <2>1, <2>2
<1>7. \A l \in (p + 1)..q : l - d \in (i + 1)..k /\ d + (l - d) = l
  BY <1>1, <1>2, <1>3, <1>4
<1>8. \A l \in (p + 1)..q : \E j \in (i + 1)..k : l = d + j /\ c[l] = a[j] BY <1>6, <1>7
<1>9. (\A j \in (i + 1)..k : a[j].role = "tool") <=> (\A l \in (p + 1)..q : c[l].role = "tool")
  <2>1. ASSUME \A j \in (i + 1)..k : a[j].role = "tool", NEW l \in (p + 1)..q
        PROVE  c[l].role = "tool"
    BY <1>8, <2>1
  <2>2. ASSUME \A l \in (p + 1)..q : c[l].role = "tool", NEW j \in (i + 1)..k
        PROVE  a[j].role = "tool"
    BY <1>6, <2>2
  <2> QED BY <2>1, <2>2
<1>10. ASSUME NEW x
       PROVE  (\E j \in (i + 1)..(k - 1) : x = a[j].reply)
              <=> (\E l \in (p + 1)..(q - 1) : x = c[l].reply)
  <2>1. ASSUME NEW j \in (i + 1)..(k - 1), x = a[j].reply
        PROVE  \E l \in (p + 1)..(q - 1) : x = c[l].reply
    <3>1. j \in (i + 1)..k /\ d + j \in (p + 1)..(q - 1) BY <1>1, <1>2, <1>3, <1>4
    <3> QED BY <1>6, <2>1, <3>1
  <2>2. ASSUME NEW l \in (p + 1)..(q - 1), x = c[l].reply
        PROVE  \E j \in (i + 1)..(k - 1) : x = a[j].reply
    <3>1. l \in (p + 1)..q BY <1>4
    <3>2. PICK j \in (i + 1)..k : l = d + j /\ c[l] = a[j] BY <1>8, <3>1
    <3>3. j \in (i + 1)..(k - 1) BY <1>1, <1>3, <1>4, <3>2
    <3> QED BY <2>2, <3>2, <3>3
  <2> QED BY <2>1, <2>2
<1>11. {a[j].reply : j \in (i + 1)..(k - 1)} = {c[l].reply : l \in (p + 1)..(q - 1)}
  BY <1>10
<1>12. Joins(a, i, k) <=> Joins(c, p, q)
  <2>1. Joins(a, i, k) <=>
          /\ a[i].role = "assistant"
          /\ \A j \in (i + 1)..k : a[j].role = "tool"
          /\ ~(CallIds(a[i]) \subseteq {a[j].reply : j \in (i + 1)..(k - 1)})
    BY DEF Joins
  <2>2. Joins(c, p, q) <=>
          /\ c[p].role = "assistant"
          /\ \A l \in (p + 1)..q : c[l].role = "tool"
          /\ ~(CallIds(c[p]) \subseteq {c[l].reply : l \in (p + 1)..(q - 1)})
    BY DEF Joins
  <2> QED BY <1>5, <1>9, <1>11, <2>1, <2>2, Zenon
<1> QED BY <1>2, <1>3, <1>5, <1>12

LEMMA FollowingWithin ==
    ASSUME NEW a, NEW c, NEW d, Within(a, c, d), NEW i \in 1..Len(a),
           NEW j \in FollowingReplies(a, i)
    PROVE  j \in 1..Len(a) /\ d + j \in FollowingReplies(c, d + i)
<1>1. /\ Len(a) \in Nat /\ Len(c) \in Nat /\ d \in Nat /\ d + Len(a) <= Len(c)
      /\ \A n \in 1..Len(a) : c[d + n] = a[n]
  BY SeqFacts DEF Within
<1>2. j \in (i + 1)..Len(a) /\ \A n \in (i + 1)..j : a[n].role = "tool"
  BY DEF FollowingReplies
<1>3. ASSUME NEW n \in (d + i + 1)..(d + j) PROVE c[n].role = "tool"
  <2>1. n - d \in (i + 1)..j /\ d + (n - d) = n /\ n - d \in 1..Len(a) BY <1>1, <1>2
  <2>2. a[n - d].role = "tool" /\ c[d + (n - d)] = a[n - d] BY <1>1, <1>2, <2>1
  <2> QED BY <2>1, <2>2
<1>4. d + j \in (d + i + 1)..Len(c) BY <1>1, <1>2
<1> QED BY <1>1, <1>2, <1>3, <1>4 DEF FollowingReplies

LEMMA ConcatWithin ==
    ASSUME NEW a, NEW b, NEW c, IsSeq(a), IsSeq(b), c = a \o b
    PROVE  Within(a, c, 0) /\ Within(b, c, Len(a))
<1>1. /\ Len(c) = Len(a) + Len(b) /\ Len(a) \in Nat /\ Len(b) \in Nat
      /\ \A i \in 1..Len(a) : c[i] = a[i]
      /\ \A i \in 1..Len(b) : c[Len(a) + i] = b[i]
  BY ConcatFacts
<1>0. IsSeq(c) BY ConcatFacts
<1>2. Within(b, c, Len(a)) BY <1>0, <1>1 DEF Within
<1>3. \A j \in 1..Len(a) : 0 + j = j BY <1>1
<1>4. \A j \in 1..Len(a) : c[0 + j] = a[j] BY <1>1, <1>3
<1>5. 0 \in Nat /\ 0 + Len(a) <= Len(c) BY <1>1
<1>6. Within(a, c, 0) BY <1>0, <1>1, <1>4, <1>5 DEF Within
<1> QED BY <1>2, <1>6

LEMMA ConcatHistory ==
    ASSUME NEW a, NEW b, NEW c, IsHistory(a), IsHistory(b), c = a \o b
    PROVE  IsHistory(c)
<1>1. IsSeq(a) /\ IsSeq(b) BY DEF IsHistory
<1>2. /\ IsSeq(c) /\ DOMAIN c = 1..(Len(a) + Len(b)) /\ Len(c) = Len(a) + Len(b)
      /\ DOMAIN a = 1..Len(a) /\ DOMAIN b = 1..Len(b) /\ Len(a) \in Nat /\ Len(b) \in Nat
      /\ \A i \in 1..Len(a) : c[i] = a[i]
      /\ \A i \in 1..Len(b) : c[Len(a) + i] = b[i]
      /\ \A k \in 1..Len(c) : k \in 1..Len(a) \/ k - Len(a) \in 1..Len(b)
  <2>1. IsSeq(c) BY <1>1, ConcatFacts
  <2>2. DOMAIN c = 1..(Len(a) + Len(b)) /\ Len(c) = Len(a) + Len(b) BY <1>1, ConcatFacts
  <2>3. DOMAIN a = 1..Len(a) /\ Len(a) \in Nat BY <1>1, ConcatFacts
  <2>4. DOMAIN b = 1..Len(b) /\ Len(b) \in Nat BY <1>1, ConcatFacts
  <2>5. \A i \in 1..Len(a) : c[i] = a[i] BY <1>1, ConcatFacts
  <2>6. \A i \in 1..Len(b) : c[Len(a) + i] = b[i] BY <1>1, ConcatFacts
  <2>7. \A k \in 1..Len(c) : k \in 1..Len(a) \/ k - Len(a) \in 1..Len(b) BY <1>1, ConcatFacts
  <2> QED BY <2>1, <2>2, <2>3, <2>4, <2>5, <2>6, <2>7
<1>3. ASSUME NEW k \in DOMAIN c PROVE Shaped(c[k])
  <2>1. CASE k \in 1..Len(a) BY <1>2, <2>1 DEF IsHistory
  <2>2. CASE k - Len(a) \in 1..Len(b)
    <3>1. Len(a) + (k - Len(a)) = k BY <1>2
    <3>2. c[k] = b[k - Len(a)] BY <1>2, <2>2, <3>1
    <3> QED BY <1>2, <2>2, <3>2 DEF IsHistory
  <2> QED BY <1>2, <2>1, <2>2
<1> QED BY <1>2, <1>3 DEF IsHistory

\* Histories in which every reply is tied may follow one another.
LEMMA ConcatTied ==
    ASSUME NEW a, NEW b, NEW c, IsSeq(a), IsSeq(b), c = a \o b, Tied(a), Tied(b)
    PROVE  Tied(c)
<1>1. Within(a, c, 0) /\ Within(b, c, Len(a)) BY ConcatWithin
<1>2. /\ DOMAIN c = 1..(Len(a) + Len(b)) /\ Len(c) = Len(a) + Len(b)
      /\ DOMAIN a = 1..Len(a) /\ DOMAIN b = 1..Len(b) /\ Len(a) \in Nat /\ Len(b) \in Nat
      /\ \A i \in 1..Len(a) : c[i] = a[i]
      /\ \A i \in 1..Len(b) : c[Len(a) + i] = b[i]
      /\ \A k \in 1..Len(c) : k \in 1..Len(a) \/ k - Len(a) \in 1..Len(b)
  BY ConcatFacts
<1>3. ASSUME NEW k \in DOMAIN c, c[k].role = "tool"
      PROVE  \E i \in 1..(k - 1) : Joins(c, i, k) /\ c[k].reply \in CallIds(c[i])
  <2>1. CASE k \in 1..Len(a)
    <3>1. PICK i \in 1..(k - 1) : Joins(a, i, k) /\ a[k].reply \in CallIds(a[i])
      BY <1>2, <1>3, <2>1 DEF Tied
    <3>2. Joins(c, 0 + i, 0 + k) /\ a[i] = c[0 + i] /\ a[k] = c[0 + k]
      BY <1>1, <2>1, <3>1, JoinsWithin
    <3>3. 0 + i = i /\ 0 + k = k BY <1>2, <2>1
    <3> QED BY <3>1, <3>2, <3>3
  <2>2. CASE k - Len(a) \in 1..Len(b)
    <3>1. PICK l : l = k - Len(a) OBVIOUS
    <3>2. l \in 1..Len(b) /\ Len(a) + l = k BY <1>2, <2>2, <3>1
    <3>3. PICK i \in 1..(l - 1) : Joins(b, i, l) /\ b[l].reply \in CallIds(b[i])
      BY <1>2, <1>3, <3>2 DEF Tied
    <3>4. Joins(c, Len(a) + i, Len(a) + l) /\ b[i] = c[Len(a) + i] /\ b[l] = c[Len(a) + l]
      BY <1>1, <3>2, <3>3, JoinsWithin
    <3>5. Len(a) + i \in 1..(k - 1) BY <1>2, <3>2
    <3> QED BY <3>2, <3>3, <3>4, <3>5
  <2> QED BY <1>2, <2>1, <2>2
<1> QED BY <1>3 DEF Tied

LEMMA ConcatAnswered ==
    ASSUME NEW a, NEW b, NEW c, IsSeq(a), IsSeq(b), c = a \o b, Answered(a), Answered(b)
    PROVE  Answered(c)
<1>1. Within(a, c, 0) /\ Within(b, c, Len(a)) BY ConcatWithin
<1>2. /\ DOMAIN c = 1..(Len(a) + Len(b)) /\ Len(c) = Len(a) + Len(b)
      /\ DOMAIN a = 1..Len(a) /\ DOMAIN b = 1..Len(b) /\ Len(a) \in Nat /\ Len(b) \in Nat
      /\ \A i \in 1..Len(a) : c[i] = a[i]
      /\ \A i \in 1..Len(b) : c[Len(a) + i] = b[i]
      /\ \A k \in 1..Len(c) : k \in 1..Len(a) \/ k - Len(a) \in 1..Len(b)
  BY ConcatFacts
<1>3. ASSUME NEW q, NEW d, Within(q, c, d), Answered(q), NEW i \in 1..Len(q),
             NEW x \in CallIds(c[d + i])
      PROVE  x \in {c[j].reply : j \in FollowingReplies(c, d + i)}
  <2>1. DOMAIN q = 1..Len(q) /\ c[d + i] = q[i] /\ \A j \in 1..Len(q) : c[d + j] = q[j]
    BY <1>3, SeqFacts DEF Within
  <2>2. PICK j \in FollowingReplies(q, i) : x = q[j].reply BY <1>3, <2>1 DEF Answered
  <2>3. j \in 1..Len(q) /\ d + j \in FollowingReplies(c, d + i)
    BY <1>3, <2>2, FollowingWithin
  <2> QED BY <2>1, <2>2, <2>3
<1>4. ASSUME NEW i \in DOMAIN c, NEW x \in CallIds(c[i])
      PROVE  x \in {c[j].reply : j \in FollowingReplies(c, i)}
  <2>1. CASE i \in 1..Len(a)
    <3>1. 0 + i = i BY <1>2, <2>1
    <3>2. x \in {c[j].reply : j \in FollowingReplies(c, 0 + i)} BY <1>1, <1>3, <1>4, <2>1, <3>1
    <3> QED BY <3>1, <3>2
  <2>2. CASE i - Len(a) \in 1..Len(b)
    <3>1. PICK l : l = i - Len(a) OBVIOUS
    <3>2. l \in 1..Len(b) /\ Len(a) + l = i BY <1>2, <2>2, <3>1
    <3>3. x \in {c[j].reply : j \in FollowingReplies(c, Len(a) + l)}
      BY <1>1, <1>3, <1>4, <3>2
    <3> QED BY <3>2, <3>3
  <2> QED BY <1>2, <2>1, <2>2
<1> QED BY <1>4 DEF Answered

LEMMA EmptyHistory ==
    IsSeq(<<>>) /\ IsHistory(<<>>) /\ Tied(<<>>) /\ Answered(<<>>)
<1>1. <<>> \in Seq({}) OBVIOUS
<1>2. IsSeq(<<>>) BY <1>1, OwnElements
<1> QED BY <1>2 DEF IsHistory, Tied, Answered

\* So may any number of them.
LEMMA FlattenHistory ==
    ASSUME NEW qs, IsSeq(qs), \A n \in 1..Len(qs) : IsHistory(qs[n]) /\ Tied(qs[n])
    PROVE  IsHistory(Flatten(qs)) /\ Tied(Flatten(qs))
<1>1. CASE qs = <<>> BY <1>1, FlattenFacts, EmptyHistory
<1>2. CASE qs # <<>>
  <2>1. PICK f : /\ Flatten(qs) = f[Len(qs)] /\ f[1] = qs[1]
                 /\ \A i \in 2..Len(qs) : f[i] = f[i - 1] \o qs[i]
    BY <1>2, FlattenFacts
  <2>2. Len(qs) \in Nat /\ Len(qs) >= 1 BY <1>2, SeqFacts
  <2> DEFINE S == {n \in Nat : n \in 1..Len(qs) => IsHistory(f[n]) /\ Tied(f[n])}
  <2>3. 0 \in S OBVIOUS
  <2>4. ASSUME NEW n \in Nat, n \in S PROVE n + 1 \in S
    <3> SUFFICES ASSUME n + 1 \in 1..Len(qs) PROVE IsHistory(f[n + 1]) /\ Tied(f[n + 1])
      OBVIOUS
    <3>1. CASE n = 0 BY <2>1, <2>2, <3>1
    <3>2. CASE n # 0
      <4>1. n \in 1..Len(qs) /\ n + 1 \in 2..Len(qs) /\ (n + 1) - 1 = n BY <2>2, <3>2
      <4>2. PICK a : a = f[n] OBVIOUS
      <4>3. PICK b : b = qs[n + 1] OBVIOUS
      <4>4. PICK c : c = f[n + 1] OBVIOUS
      <4>5. c = a \o b BY <2>1, <4>1, <4>2, <4>3, <4>4
      <4>6. IsHistory(a) /\ Tied(a) /\ IsHistory(b) /\ Tied(b) BY <2>4, <4>1, <4>2, <4>3
      <4>7. IsSeq(a) /\ IsSeq(b) BY <4>6 DEF IsHistory
      <4>8. IsHistory(c) BY <4>5, <4>6, ConcatHistory
      <4>9. Tied(c) BY <4>5, <4>6, <4>7, ConcatTied
      <4> QED BY <4>4, <4>8, <4>9
    <3> QED BY <3>1, <3>2
  <2> HIDE DEF S
  <2>5. Len(qs) \in S BY <2>2, <2>3, <2>4, Induction
  <2> QED BY <2>1, <2>2, <2>5 DEF S
<1> QED BY <1>1, <1>2

LEMMA FlattenAnswered ==
    ASSUME NEW qs, IsSeq(qs), \A n \in 1..Len(qs) : IsHistory(qs[n]) /\ Answered(qs[n])
    PROVE  Answered(Flatten(qs))
<1>1. CASE qs = <<>> BY <1>1, FlattenFacts, EmptyHistory
<1>2. CASE qs # <<>>
  <2>1. PICK f : /\ Flatten(qs) = f[Len(qs)] /\ f[1] = qs[1]
                 /\ \A i \in 2..Len(qs) : f[i] = f[i - 1] \o qs[i]
    BY <1>2, FlattenFacts
  <2>2. Len(qs) \in Nat /\ Len(qs) >= 1 BY <1>2, SeqFacts
  <2> DEFINE S == {n \in Nat : n \in 1..Len(qs) => IsHistory(f[n]) /\ Answered(f[n])}
  <2>3. 0 \in S OBVIOUS
  <2>4. ASSUME NEW n \in Nat, n \in S PROVE n + 1 \in S
    <3> SUFFICES ASSUME n + 1 \in 1..Len(qs) PROVE IsHistory(f[n + 1]) /\ Answered(f[n + 1])
      OBVIOUS
    <3>1. CASE n = 0 BY <2>1, <2>2, <3>1
    <3>2. CASE n # 0
      <4>1. n \in 1..Len(qs) /\ n + 1 \in 2..Len(qs) /\ (n + 1) - 1 = n BY <2>2, <3>2
      <4>2. PICK a : a = f[n] OBVIOUS
      <4>3. PICK b : b = qs[n + 1] OBVIOUS
      <4>4. PICK c : c = f[n + 1] OBVIOUS
      <4>5. c = a \o b BY <2>1, <4>1, <4>2, <4>3, <4>4
      <4>6. IsHistory(a) /\ Answered(a) /\ IsHistory(b) /\ Answered(b)
        BY <2>4, <4>1, <4>2, <4>3
      <4>7. IsSeq(a) /\ IsSeq(b) BY <4>6 DEF IsHistory
      <4>8. IsHistory(c) BY <4>5, <4>6, ConcatHistory
      <4>9. Answered(c) BY <4>5, <4>6, <4>7, ConcatAnswered
      <4> QED BY <4>4, <4>8, <4>9
    <3> QED BY <3>1, <3>2
  <2> HIDE DEF S
  <2>5. Len(qs) \in S BY <2>2, <2>3, <2>4, Induction
  <2> QED BY <2>1, <2>2, <2>5 DEF S
<1> QED BY <1>1, <1>2

-----------------------------------------------------------------------------
(* Groups *)

LEMMA CopyWithin ==
    ASSUME NEW ms, IsSeq(ms), NEW s \in Nat, NEW e \in Nat, 1 <= s, s <= e, e <= Len(ms),
           NEW a, IsSeq(a), Len(a) = e - s + 1,
           \A i \in 1..(e - s + 1) : a[i] = ms[s + i - 1]
    PROVE  Within(a, ms, s - 1)
<1>1. Len(ms) \in Nat BY SeqFacts
<1>2. \A j \in 1..(e - s + 1) : (s - 1) + j = s + j - 1 OBVIOUS
<1>3. \A j \in 1..(e - s + 1) : ms[(s - 1) + j] = a[j] BY <1>2
<1>4. \A j \in 1..Len(a) : ms[(s - 1) + j] = a[j] BY <1>3
<1>5. s - 1 \in Nat /\ (s - 1) + Len(a) <= Len(ms) BY <1>1
<1> QED BY <1>4, <1>5 DEF Within

LEMMA WithinHistory ==
    ASSUME NEW a, NEW ms, NEW d, Within(a, ms, d), IsHistory(ms)
    PROVE  IsHistory(a)
<1>1. /\ Len(ms) \in Nat /\ DOMAIN ms = 1..Len(ms) /\ Len(a) \in Nat
      /\ DOMAIN a = 1..Len(a) /\ d \in Nat /\ d + Len(a) <= Len(ms) /\ IsSeq(a)
      /\ \A j \in 1..Len(a) : ms[d + j] = a[j]
  BY SeqFacts DEF Within
<1>2. ASSUME NEW k \in DOMAIN a PROVE Shaped(a[k])
  <2>1. k \in 1..Len(a) /\ d + k \in DOMAIN ms BY <1>1
  <2>2. ms[d + k] = a[k] BY <1>1, <2>1
  <2>3. Shaped(ms[d + k]) BY <2>1 DEF IsHistory
  <2> QED BY <2>2, <2>3
<1> QED BY <1>1, <1>2 DEF IsHistory

\* A stretch of a history that begins at a message that is no reply is tied.
LEMMA WithinTied ==
    ASSUME NEW a, NEW ms, NEW d, Within(a, ms, d), Tied(ms), ms[d + 1].role # "tool"
    PROVE  Tied(a)
<1>1. /\ Len(ms) \in Nat /\ DOMAIN ms = 1..Len(ms) /\ Len(a) \in Nat
      /\ DOMAIN a = 1..Len(a) /\ d \in Nat /\ d + Len(a) <= Len(ms)
      /\ \A j \in 1..Len(a) : ms[d + j] = a[j]
  BY SeqFacts DEF Within
<1>2. ASSUME NEW k \in DOMAIN a, a[k].role = "tool"
      PROVE  \E i \in 1..(k - 1) : Joins(a, i, k) /\ a[k].reply \in CallIds(a[i])
  <2>1. k \in 1..Len(a) /\ d + k \in DOMAIN ms /\ ms[d + k] = a[k] BY <1>1
  <2>2. PICK q : q = d + k OBVIOUS
  <2>3. q \in DOMAIN ms /\ ms[q].role = "tool" BY <1>2, <2>1, <2>2
  <2>4. PICK p \in 1..(q - 1) : Joins(ms, p, q) /\ ms[q].reply \in CallIds(ms[p])
    BY <2>3 DEF Tied
  <2>5. \A j \in (p + 1)..q : ms[j].role = "tool" BY <2>4 DEF Joins
  <2>6. q \in Nat /\ d + 1 <= q BY <1>1, <2>1, <2>2
  <2>7. p >= d + 1
    <3> SUFFICES ASSUME p < d + 1 PROVE FALSE BY <1>1, <2>6
    <3>1. d + 1 \in (p + 1)..q BY <1>1, <2>6
    <3> QED BY <2>5, <3>1
  <2>8. PICK i : i = p - d OBVIOUS
  <2>9. i \in 1..(k - 1) /\ d + i = p BY <1>1, <2>1, <2>2, <2>6, <2>7, <2>8
  <2>10. /\ Joins(a, i, k) <=> Joins(ms, d + i, d + k)
         /\ a[i] = ms[d + i] /\ a[k] = ms[d + k]
    BY <2>1, <2>9, JoinsWithin
  <2>11. Joins(a, i, k) BY <2>2, <2>4, <2>9, <2>10
  <2>12. a[i] = ms[p] /\ a[k] = ms[q] BY <2>2, <2>9, <2>10
  <2> QED BY <2>4, <2>9, <2>11, <2>12
<1> QED BY <1>2 DEF Tied

\* The message after position e, if there is one, is no reply.
EndsAt(ms, e) == e = Len(ms) \/ ms[e + 1].role # "tool"

\* If it ends before another such message, its calls have their replies.
LEMMA WithinAnswered ==
    ASSUME NEW a, NEW ms, NEW d, Within(a, ms, d), Answered(ms),
           EndsAt(ms, d + Len(a))
    PROVE  Answered(a)
<1>0. /\ Len(ms) \in Nat /\ DOMAIN ms = 1..Len(ms) /\ Len(a) \in Nat
      /\ DOMAIN a = 1..Len(a) /\ d \in Nat /\ d + Len(a) <= Len(ms)
      /\ \A j \in 1..Len(a) : ms[d + j] = a[j]
  BY SeqFacts DEF Within
<1>3. PICK last : last = d + Len(a) OBVIOUS
<1>4. last \in Nat BY <1>0, <1>3
<1>1. /\ Len(ms) \in Nat /\ DOMAIN ms = 1..Len(ms) /\ Len(a) \in Nat
      /\ DOMAIN a = 1..Len(a) /\ d \in Nat /\ last \in Nat /\ last <= Len(ms)
      /\ \A j \in 1..Len(a) : ms[d + j] = a[j]
  BY <1>0, <1>3
<1>5. d + Len(a) = last BY <1>3
<1>6. last = Len(ms) \/ ms[last + 1].role # "tool" BY <1>3 DEF EndsAt
<1>2. ASSUME NEW i \in DOMAIN a, NEW x \in CallIds(a[i])
      PROVE  x \in {a[j].reply : j \in FollowingReplies(a, i)}
  <2>1. PICK p : p = d + i OBVIOUS
  <2>2. i \in 1..Len(a) /\ p \in 1..last /\ p \in DOMAIN ms BY <1>1, <1>5, <2>1
  <2>3. ms[p] = a[i] BY <1>1, <2>1, <2>2
  <2>4. PICK q \in FollowingReplies(ms, p) : x = ms[q].reply
    BY <1>2, <2>2, <2>3 DEF Answered
  <2>5. q \in (p + 1)..Len(ms) /\ \A n \in (p + 1)..q : ms[n].role = "tool"
    BY <2>4 DEF FollowingReplies
  <2>6. p \in Nat /\ q \in Nat /\ q <= Len(ms) BY <1>1, <2>2, <2>5
  <2>7. q <= last
    <3> SUFFICES ASSUME q > last PROVE FALSE BY <1>1, <2>6
    <3>1. last + 1 \in (p + 1)..q BY <1>1, <2>2, <2>6
    <3>2. Len(ms) \in Nat /\ last \in Nat BY <1>1
    <3>3. last < q /\ q <= Len(ms) BY <2>6
    <3>4. last # Len(ms) BY <2>6, <3>2, <3>3
    <3> QED BY <1>6, <2>5, <3>1, <3>4
  <2>8. PICK j : j = q - d OBVIOUS
  <2>9. j \in (i + 1)..Len(a) /\ d + j = q BY <1>1, <1>5, <2>1, <2>2, <2>5, <2>6, <2>7, <2>8
  <2>10. ASSUME NEW n \in (i + 1)..j PROVE a[n].role = "tool"
    <3>1. PICK l : l = d + n OBVIOUS
    <3>2. l \in (p + 1)..q BY <1>1, <2>1, <2>2, <2>9, <3>1
    <3>3. n \in 1..Len(a) BY <1>1, <2>2, <2>9
    <3>4. ms[l] = a[n] BY <1>1, <3>1, <3>3
    <3> QED BY <2>5, <3>2, <3>4
  <2>11. j \in FollowingReplies(a, i) BY <2>9, <2>10 DEF FollowingReplies
  <2>12. j \in 1..Len(a) BY <1>1, <2>2, <2>9
  <2>13. a[j] = ms[q] BY <1>1, <2>9, <2>12
  <2> QED BY <2>4, <2>11, <2>13
<1> QED BY <1>2 DEF Answered

\* A group begins at each message that is no reply.
LEMMA StartsFacts ==
    ASSUME NEW ms, IsSeq(ms), Tied(ms)
    PROVE  GroupStarts(ms) = {k \in DOMAIN ms : ms[k].role # "tool"}
<1>1. Len(ms) \in Nat /\ DOMAIN ms = 1..Len(ms) BY SeqFacts
<1>2. ASSUME NEW k \in DOMAIN ms, ms[k].role = "tool"
      PROVE  \E i \in 1..(k - 1) : Joins(ms, i, k)
  BY <1>2 DEF Tied
<1>3. ASSUME NEW k \in DOMAIN ms, NEW i \in 1..(k - 1), Joins(ms, i, k)
      PROVE  ms[k].role = "tool"
  <2>1. k \in (i + 1)..k BY <1>1
  <2> QED BY <1>3, <2>1 DEF Joins
<1> QED BY <1>2, <1>3 DEF GroupStarts

\* The groups of a history: each a stretch of it, all of them together the whole.
LEMMA GroupsFacts ==
    ASSUME NEW ms, IsHistory(ms), Tied(ms), NEW groups, groups = MessageGroups(ms)
    PROVE  /\ IsSeq(groups)
           /\ \A g \in 1..Len(groups) :
                 /\ IsHistory(groups[g]) /\ Tied(groups[g])
                 /\ Answered(ms) => Answered(groups[g])
<1>1. IsSeq(ms) /\ Len(ms) \in Nat /\ DOMAIN ms = 1..Len(ms) BY SeqFacts DEF IsHistory
<1>2. PICK start : start = Ascending(GroupStarts(ms), Len(ms)) OBVIOUS
<1>3. /\ IsSeq(start) /\ Len(start) \in Nat
      /\ \A k \in 1..Len(start) : start[k] \in GroupStarts(ms) /\ start[k] \in 1..Len(ms)
      /\ \A k \in 1..Len(start) : \A l \in (k + 1)..Len(start) : start[k] < start[l]
      /\ \A i \in 1..Len(ms) : i \in GroupStarts(ms) => \E k \in 1..Len(start) : start[k] = i
  BY <1>1, <1>2, AscendingFacts, SeqFacts
<1>4. GroupStarts(ms) = {k \in DOMAIN ms : ms[k].role # "tool"} BY <1>1, StartsFacts
<1> DEFINE stop(g) == IF g = Len(start) THEN Len(ms) ELSE start[g + 1] - 1
<1>5. groups = [g \in 1..Len(start) |-> SubSeq(ms, start[g], stop(g))]
  BY <1>2 DEF MessageGroups
<1>6. IsSeq(groups) /\ Len(groups) = Len(start) BY <1>3, <1>5, FunctionFacts
<1>7. ASSUME NEW g \in 1..Len(groups)
      PROVE  /\ IsHistory(groups[g]) /\ Tied(groups[g])
             /\ Answered(ms) => Answered(groups[g])
  <2>1. PICK s : s = start[g] OBVIOUS
  <2>2. PICK e : e = stop(g) OBVIOUS
  <2>3. PICK a : a = groups[g] OBVIOUS
  <2>4. a = SubSeq(ms, s, e) BY <1>5, <1>6, <2>1, <2>2, <2>3
  <2>5. s \in 1..Len(ms) /\ ms[s].role # "tool" BY <1>3, <1>4, <1>6, <2>1
  <2>6. e \in s..Len(ms) /\ (e = Len(ms) \/ ms[e + 1].role # "tool")
    <3>1. CASE g = Len(start) BY <1>1, <2>2, <2>5, <3>1
    <3>2. CASE g # Len(start)
      <4>1. PICK n : n = start[g + 1] OBVIOUS
      <4>2. g + 1 \in 1..Len(start) /\ g + 1 \in (g + 1)..Len(start) /\ g \in 1..Len(start)
        BY <1>3, <1>6, <3>2
      <4>3. n \in 1..Len(ms) /\ ms[n].role # "tool" /\ s < n
        BY <1>3, <1>4, <2>1, <4>1, <4>2
      <4>4. e = n - 1 BY <2>2, <3>2, <4>1
      <4>5. e + 1 = n BY <4>3, <4>4
      <4>6. e \in s..Len(ms) BY <2>5, <4>3, <4>4
      <4> QED BY <4>3, <4>5, <4>6
    <3> QED BY <3>1, <3>2
  <2>16. s \in 1..Len(ms) /\ e \in s..Len(ms) BY <2>5, <2>6
  <2>9. s \in Nat /\ e \in Nat /\ 1 <= s /\ s <= e /\ s <= e + 1 /\ e <= Len(ms)
    BY <1>1, <2>16
  <2>10. IsSeq(a) BY <1>1, <2>4, <2>9, SubSeqFacts
  <2>11. Len(a) = e - s + 1 BY <1>1, <2>4, <2>9, SubSeqFacts
  <2>12. \A i \in 1..(e - s + 1) : a[i] = ms[s + i - 1] BY <1>1, <2>4, <2>9, SubSeqFacts
  <2>13. Within(a, ms, s - 1) BY <1>1, <2>9, <2>10, <2>11, <2>12, CopyWithin
  <2>14. PICK d : d = s - 1 OBVIOUS
  <2>15. Within(a, ms, d) /\ d + 1 = s /\ e = d + Len(a)
    BY <2>9, <2>11, <2>13, <2>14
  <2>7. IsHistory(a) /\ Tied(a) BY <2>5, <2>15, WithinHistory, WithinTied
  <2>8. Answered(ms) => Answered(a)
    <3>1. EndsAt(ms, e) BY <2>6 DEF EndsAt
    <3>2. EndsAt(ms, d + Len(a)) BY <2>15, <3>1
    <3> QED BY <2>15, <3>2, WithinAnswered
  <2> QED BY <2>3, <2>7, <2>8
<1> QED BY <1>6, <1>7

-----------------------------------------------------------------------------
(* Summaries and dropped groups *)

\* Some of the groups of a history, in order, are a history.
LEMMA PickedHistory ==
    ASSUME NEW groups, IsSeq(groups), NEW P,
           \A g \in 1..Len(groups) : IsHistory(groups[g]) /\ Tied(groups[g])
    PROVE  IsHistory(Flatten(Pick(groups, P))) /\ Tied(Flatten(Pick(groups, P)))
<1>1. PICK r : r = Pick(groups, P) OBVIOUS
<1>2. IsSeq(r) BY <1>1, PickFacts
<1>3. \A k \in 1..Len(r) : \E g \in 1..Len(groups) : r[k] = groups[g]
  <2>1. PICK at : \A k \in 1..Len(r) : at[k] \in 1..Len(groups) /\ r[k] = groups[at[k]]
    <3>1. PICK at : \A k \in 1..Len(r) : /\ at[k] \in P /\ at[k] \in 1..Len(groups)
                                         /\ r[k] = groups[at[k]]
      BY <1>1, PickFacts
    <3> QED BY <3>1
  <2> QED BY <2>1
<1>4. \A k \in 1..Len(r) : IsHistory(r[k]) /\ Tied(r[k]) BY <1>3
<1>5. IsHistory(Flatten(r)) /\ Tied(Flatten(r)) BY <1>2, <1>4, FlattenHistory
<1> QED BY <1>1, <1>5

LEMMA PickedAnswered ==
    ASSUME NEW groups, IsSeq(groups), NEW P,
           \A g \in 1..Len(groups) : IsHistory(groups[g]) /\ Answered(groups[g])
    PROVE  Answered(Flatten(Pick(groups, P)))
<1>1. PICK r : r = Pick(groups, P) OBVIOUS
<1>2. IsSeq(r) BY <1>1, PickFacts
<1>3. \A k \in 1..Len(r) : \E g \in 1..Len(groups) : r[k] = groups[g]
  <2>1. PICK at : \A k \in 1..Len(r) : at[k] \in 1..Len(groups) /\ r[k] = groups[at[k]]
    <3>1. PICK at : \A k \in 1..Len(r) : /\ at[k] \in P /\ at[k] \in 1..Len(groups)
                                         /\ r[k] = groups[at[k]]
      BY <1>1, PickFacts
    <3> QED BY <3>1
  <2> QED BY <2>1
<1>4. \A k \in 1..Len(r) : IsHistory(r[k]) /\ Answered(r[k]) BY <1>3
<1>5. Answered(Flatten(r)) BY <1>2, <1>4, FlattenAnswered
<1> QED BY <1>1, <1>5

\* A message that is no reply and calls nothing.
LEMMA SingleHistory ==
    ASSUME NEW m, Shaped(m), m.role # "tool", m.calls = <<>>, NEW ms, ms = <<m>>
    PROVE  IsHistory(ms) /\ Tied(ms) /\ Answered(ms)
<1>1. ms \in Seq({m}) /\ Len(ms) = 1 /\ ms[1] = m OBVIOUS
<1>2. IsSeq(ms) BY <1>1, OwnElements
<1>3. DOMAIN ms = 1..1 BY <1>1, <1>2, SeqFacts
<1>4. \A k \in DOMAIN ms : ms[k] = m BY <1>1, <1>3
<1>5. IsHistory(ms) BY <1>2, <1>4 DEF IsHistory
<1>6. Tied(ms) BY <1>4 DEF Tied
<1>7. CallIds(m) = {} BY DEF CallIds
<1>8. Answered(ms) BY <1>4, <1>7 DEF Answered
<1> QED BY <1>5, <1>6, <1>8

LEMMA EmptyCalls == IsSeq(<<>>)
BY EmptyHistory

LEMMA TextShaped ==
    ASSUME NEW role \in Roles, NEW kind \in Kinds, NEW size \in Nat
    PROVE  Shaped(Text(role, kind, size))
BY EmptyCalls DEF Shaped, IsMessage, Text

LEMMA SummaryHistory ==
    ASSUME NEW ms, ms = <<Summary>>
    PROVE  IsHistory(ms) /\ Tied(ms) /\ Answered(ms)
<1>1. PICK m : m = Summary OBVIOUS
<1>2. m.role = "user" /\ m.calls = <<>> BY <1>1 DEF Summary, Text
<1>3. Shaped(m)
  <2>1. "user" \in Roles /\ "context_summary" \in Kinds /\ 1 \in Nat BY DEF Roles, Kinds
  <2> QED BY <1>1, <2>1, TextShaped DEF Summary
<1>4. m.role # "tool" BY <1>2
<1>5. ms = <<m>> BY <1>1
<1> QED BY <1>2, <1>3, <1>4, <1>5, SingleHistory

\* Early groups replaced by a summary: what is left is a history, all of whose calls are
\* answered if they were.
LEMMA SummarisedHistory ==
    ASSUME NEW ms, IsHistory(ms), Tied(ms), NEW summaryOk \in BOOLEAN,
           NEW r, r = Summarised(ms, summaryOk)
    PROVE  IsHistory(r) /\ Tied(r) /\ (Answered(ms) => Answered(r))
<1>1. PICK groups : groups = MessageGroups(ms) OBVIOUS
<1>2. /\ IsSeq(groups)
      /\ \A g \in 1..Len(groups) : IsHistory(groups[g]) /\ Tied(groups[g])
      /\ Answered(ms) => \A g \in 1..Len(groups) : IsHistory(groups[g]) /\ Answered(groups[g])
  BY <1>1, GroupsFacts
<1>3. \E P, Q, s : /\ s \in {<<>>, <<Summary>>}
                   /\ r = Flatten(Pick(groups, P)) \o s \o Flatten(Pick(groups, Q))
  BY <1>1 DEF Summarised
<1>4. PICK P, Q, s : /\ s \in {<<>>, <<Summary>>}
                     /\ r = Flatten(Pick(groups, P)) \o s \o Flatten(Pick(groups, Q))
  BY <1>3
<1>5. PICK a : a = Flatten(Pick(groups, P)) OBVIOUS
<1>6. PICK b : b = Flatten(Pick(groups, Q)) OBVIOUS
<1>7. PICK c : c = a \o s OBVIOUS
<1>8. r = c \o b BY <1>4, <1>5, <1>6, <1>7
<1>9. IsHistory(a) /\ Tied(a) /\ IsHistory(b) /\ Tied(b)
  BY <1>2, <1>5, <1>6, PickedHistory
<1>10. IsHistory(s) /\ Tied(s) /\ Answered(s) BY <1>4, EmptyHistory, SummaryHistory
<1>11. IsSeq(a) /\ IsSeq(b) /\ IsSeq(s) BY <1>9, <1>10 DEF IsHistory
<1>12. IsHistory(c) BY <1>7, <1>9, <1>10, ConcatHistory
<1>13. IsSeq(c) BY <1>12 DEF IsHistory
<1>14. Tied(c) BY <1>7, <1>9, <1>10, <1>11, ConcatTied
<1>15. IsHistory(r) BY <1>8, <1>9, <1>12, ConcatHistory
<1>16. Tied(r) BY <1>8, <1>9, <1>11, <1>13, <1>14, ConcatTied
<1>17. ASSUME Answered(ms) PROVE Answered(r)
  <2>1. Answered(a) /\ Answered(b) BY <1>2, <1>5, <1>6, <1>17, PickedAnswered
  <2>2. Answered(c) BY <1>7, <1>10, <1>11, <2>1, ConcatAnswered
  <2> QED BY <1>8, <1>11, <1>13, <2>1, <2>2, ConcatAnswered
<1> QED BY <1>15, <1>16, <1>17

LEMMA DropGroupsPicks ==
    ASSUME NEW ms
    PROVE  \E P : DropGroups(ms) = Flatten(Pick(MessageGroups(ms), P))
<1> DEFINE groups == MessageGroups(ms)
           removable == Ascending({g \in 1..(Len(groups) - 1) : ~IsProtected(groups[g])},
                                  Len(groups))
           without(n) == Flatten(Pick(groups, DOMAIN groups \ {removable[k] : k \in 1..n}))
           fits == {n \in 0..Len(removable) : CountMessages(without(n)) <= Budget}
<1>1. DropGroups(ms) = IF fits = {} THEN without(Len(removable))
                       ELSE without(CHOOSE n \in fits : \A m \in fits : n <= m)
  BY DEF DropGroups
<1>2. PICK n : DropGroups(ms) = without(n) BY <1>1
<1> QED BY <1>2

LEMMA DropGroupsHistory ==
    ASSUME NEW ms, IsHistory(ms), Tied(ms), NEW r, r = DropGroups(ms)
    PROVE  IsHistory(r) /\ Tied(r) /\ (Answered(ms) => Answered(r))
<1>1. PICK groups : groups = MessageGroups(ms) OBVIOUS
<1>2. /\ IsSeq(groups)
      /\ \A g \in 1..Len(groups) : IsHistory(groups[g]) /\ Tied(groups[g])
      /\ Answered(ms) => \A g \in 1..Len(groups) : IsHistory(groups[g]) /\ Answered(groups[g])
  BY <1>1, GroupsFacts
<1>3. PICK P : r = Flatten(Pick(groups, P)) BY <1>1, DropGroupsPicks
<1>4. IsHistory(r) /\ Tied(r) BY <1>2, <1>3, PickedHistory
<1>5. Answered(ms) => Answered(r) BY <1>2, <1>3, PickedAnswered
<1> QED BY <1>4, <1>5

-----------------------------------------------------------------------------
(* Cut texts *)

\* total is the function that CountMessages is defined by.
Totals(total, ms, n) ==
    total = [i \in 0..n |-> IF i = 0 THEN 0 ELSE total[i - 1] + Tokens(ms[i])]

LEMMA TotalsExists ==
    ASSUME NEW ms, NEW n \in Nat
    PROVE  \E total : Totals(total, ms, n)
<1> DEFINE S == {m \in Nat : \E total : Totals(total, ms, m)}
<1>1. 0 \in S
  <2>1. Totals([i \in 0..0 |-> 0], ms, 0) BY DEF Totals
  <2> QED BY <2>1
<1>2. ASSUME NEW m \in Nat, m \in S PROVE m + 1 \in S
  <2>1. PICK f : Totals(f, ms, m) BY <1>2
  <2>2. PICK x : x = f[m] + Tokens(ms[m + 1]) OBVIOUS
  <2>3. PICK g : g = [i \in 0..(m + 1) |-> IF i = m + 1 THEN x ELSE f[i]] OBVIOUS
  <2>4. ASSUME NEW i \in 0..(m + 1)
        PROVE  g[i] = IF i = 0 THEN 0 ELSE g[i - 1] + Tokens(ms[i])
    <3>1. CASE i = m + 1
      <4>1. g[i] = x /\ g[i - 1] = f[m] /\ i # 0 BY <2>3, <3>1
      <4> QED BY <2>2, <3>1, <4>1
    <3>2. CASE i # m + 1
      <4>1. i \in 0..m /\ (i # 0 => i - 1 \in 0..m) BY <3>2
      <4>2. g[i] = f[i] /\ (i # 0 => g[i - 1] = f[i - 1]) BY <2>3, <4>1
      <4>3. f[i] = IF i = 0 THEN 0 ELSE f[i - 1] + Tokens(ms[i])
        BY <2>1, <4>1 DEF Totals
      <4> QED BY <4>2, <4>3
    <3> QED BY <3>1, <3>2
  <2>5. Totals(g, ms, m + 1) BY <2>3, <2>4 DEF Totals
  <2> QED BY <2>5
<1> HIDE DEF S
<1>3. n \in S BY <1>1, <1>2, Induction
<1> QED BY <1>3 DEF S

LEMMA CountTotals ==
    ASSUME NEW ms, Len(ms) \in Nat
    PROVE  \E total : Totals(total, ms, Len(ms)) /\ CountMessages(ms) = total[Len(ms)]
<1> DEFINE f == CHOOSE total : Totals(total, ms, Len(ms))
<1>1. Totals(f, ms, Len(ms)) BY TotalsExists
<1>2. CountMessages(ms) = f[Len(ms)] BY DEF CountMessages, Totals
<1> QED BY <1>1, <1>2

LEMMA TokensFacts ==
    ASSUME NEW m, Shaped(m)
    PROVE  Tokens(m) \in Nat
BY SeqFacts DEF Shaped, IsMessage, Tokens

LEMMA CountFacts ==
    ASSUME NEW ms, IsHistory(ms)
    PROVE  CountMessages(ms) \in Nat
<1>1. Len(ms) \in Nat /\ DOMAIN ms = 1..Len(ms) BY SeqFacts DEF IsHistory
<1>2. PICK f : Totals(f, ms, Len(ms)) /\ CountMessages(ms) = f[Len(ms)]
  BY <1>1, CountTotals
<1> DEFINE S == {i \in Nat : i \in 0..Len(ms) => f[i] \in Nat}
<1>3. 0 \in S BY <1>1, <1>2 DEF Totals
<1>4. ASSUME NEW i \in Nat, i \in S PROVE i + 1 \in S
  <2> SUFFICES ASSUME i + 1 \in 0..Len(ms) PROVE f[i + 1] \in Nat OBVIOUS
  <2>1. i \in 0..Len(ms) /\ i + 1 \in DOMAIN ms /\ i + 1 # 0 /\ (i + 1) - 1 = i BY <1>1
  <2>2. f[i + 1] = f[i] + Tokens(ms[i + 1]) BY <1>2, <2>1 DEF Totals
  <2>3. Tokens(ms[i + 1]) \in Nat BY <2>1, TokensFacts DEF IsHistory
  <2>4. f[i] \in Nat BY <1>4, <2>1
  <2> QED BY <2>2, <2>3, <2>4
<1> HIDE DEF S
<1>5. Len(ms) \in S BY <1>1, <1>3, <1>4, Induction
<1> QED BY <1>1, <1>2, <1>5 DEF S

-----------------------------------------------------------------------------
(* Cutting texts changes nothing that the protocol looks at *)

Alike(a, b) ==
    /\ Len(a) = Len(b)
    /\ \A k \in 1..Len(a) :
          a[k].role = b[k].role /\ a[k].calls = b[k].calls /\ a[k].reply = b[k].reply

LEMMA AlikeTied ==
    ASSUME NEW a, NEW b, IsSeq(a), IsSeq(b), Alike(a, b), Tied(a)
    PROVE  Tied(b)
<1>1. /\ Len(a) \in Nat /\ DOMAIN a = 1..Len(a) /\ DOMAIN b = 1..Len(a)
      /\ \A k \in 1..Len(a) :
            a[k].role = b[k].role /\ a[k].calls = b[k].calls /\ a[k].reply = b[k].reply
  BY SeqFacts DEF Alike
<1>2. \A k \in 1..Len(a) : CallIds(a[k]) = CallIds(b[k]) BY <1>1 DEF CallIds
<1>3. ASSUME NEW k \in 1..Len(a), NEW i \in 1..(k - 1), Joins(a, i, k)
      PROVE  Joins(b, i, k)
  <2>1. i \in 1..Len(a) BY <1>1
  <2>2. \A j \in (i + 1)..k : j \in 1..Len(a) BY <1>1
  <2>3. /\ a[i].role = "assistant"
        /\ \A j \in (i + 1)..k : a[j].role = "tool"
        /\ ~(CallIds(a[i]) \subseteq {a[j].reply : j \in (i + 1)..(k - 1)})
    BY <1>3 DEF Joins
  <2>4. b[i].role = "assistant" /\ \A j \in (i + 1)..k : b[j].role = "tool"
    BY <1>1, <2>1, <2>2, <2>3
  <2>5. PICK x \in CallIds(a[i]) : x \notin {a[j].reply : j \in (i + 1)..(k - 1)} BY <2>3
  <2>6. \A j \in (i + 1)..(k - 1) : j \in 1..Len(a) BY <1>1
  <2>7. x \notin {b[j].reply : j \in (i + 1)..(k - 1)} BY <1>1, <2>5, <2>6
  <2>8. x \in CallIds(b[i]) BY <1>2, <2>1, <2>5
  <2> QED BY <2>4, <2>7, <2>8 DEF Joins
<1>4. ASSUME NEW k \in DOMAIN b, b[k].role = "tool"
      PROVE  \E i \in 1..(k - 1) : Joins(b, i, k) /\ b[k].reply \in CallIds(b[i])
  <2>1. k \in DOMAIN a /\ a[k].role = "tool" BY <1>1, <1>4
  <2>2. PICK i \in 1..(k - 1) : Joins(a, i, k) /\ a[k].reply \in CallIds(a[i])
    BY <2>1 DEF Tied
  <2>3. i \in 1..Len(a) /\ k \in 1..Len(a) BY <1>1, <2>1
  <2>4. Joins(b, i, k) BY <1>3, <2>2, <2>3
  <2>5. b[k].reply \in CallIds(b[i]) BY <1>1, <1>2, <2>2, <2>3
  <2> QED BY <2>4, <2>5
<1> QED BY <1>4 DEF Tied

LEMMA AlikeAnswered ==
    ASSUME NEW a, NEW b, IsSeq(a), IsSeq(b), Alike(a, b), Answered(a)
    PROVE  Answered(b)
<1>1. /\ Len(a) \in Nat /\ DOMAIN a = 1..Len(a) /\ DOMAIN b = 1..Len(a) /\ Len(b) = Len(a)
      /\ \A k \in 1..Len(a) :
            a[k].role = b[k].role /\ a[k].calls = b[k].calls /\ a[k].reply = b[k].reply
  BY SeqFacts DEF Alike
<1>2. \A k \in 1..Len(a) : CallIds(a[k]) = CallIds(b[k]) BY <1>1 DEF CallIds
<1>3. ASSUME NEW i \in DOMAIN b, NEW x \in CallIds(b[i])
      PROVE  x \in {b[j].reply : j \in FollowingReplies(b, i)}
  <2>1. i \in DOMAIN a /\ x \in CallIds(a[i]) BY <1>1, <1>2, <1>3
  <2>2. PICK j \in FollowingReplies(a, i) : x = a[j].reply BY <2>1 DEF Answered
  <2>3. j \in (i + 1)..Len(a) /\ \A k \in (i + 1)..j : a[k].role = "tool"
    BY <2>2 DEF FollowingReplies
  <2>4. \A k \in (i + 1)..j : k \in 1..Len(a) BY <1>1, <2>1, <2>3
  <2>5. \A k \in (i + 1)..j : b[k].role = "tool" BY <1>1, <2>3, <2>4
  <2>6. j \in FollowingReplies(b, i) BY <1>1, <2>3, <2>5 DEF FollowingReplies
  <2>7. j \in 1..Len(a) BY <1>1, <2>1, <2>3
  <2>8. x = b[j].reply BY <1>1, <2>2, <2>7
  <2> QED BY <2>6, <2>8
<1> QED BY <1>3 DEF Answered

LEMMA CutTextFacts ==
    ASSUME NEW m, Shaped(m), NEW overflow \in Nat, overflow # 0, NEW c,
           c = CutText(m, overflow)
    PROVE  /\ Shaped(c)
           /\ c.role = m.role /\ c.calls = m.calls /\ c.reply = m.reply
           /\ c.kind = m.kind /\ c.skill = m.skill
<1>1. /\ DOMAIN m = {"role", "kind", "skill", "calls", "reply", "error",
                     "runtime", "size", "cut"}
      /\ m.size \in Nat
  BY DEF Shaped, IsMessage
<1>2. CASE overflow < m.size
  <2>1. c = [m EXCEPT !.size = @ - overflow, !.cut = TRUE] BY <1>2 DEF CutText
  <2>2. /\ DOMAIN c = DOMAIN m /\ c.size = m.size - overflow /\ c.cut = TRUE
        /\ c.role = m.role /\ c.calls = m.calls /\ c.reply = m.reply /\ c.kind = m.kind
        /\ c.skill = m.skill /\ c.error = m.error /\ c.runtime = m.runtime
    BY <1>1, <2>1
  <2>3. c.size \in Nat BY <1>1, <1>2, <2>2
  <2> QED BY <2>2, <2>3 DEF Shaped, IsMessage
<1>3. CASE ~(overflow < m.size)
  <2>1. c = [m EXCEPT !.size = 1, !.cut = TRUE, !.runtime = FALSE] BY <1>3 DEF CutText
  <2>2. /\ DOMAIN c = DOMAIN m /\ c.size = 1 /\ c.cut = TRUE
        /\ c.role = m.role /\ c.calls = m.calls /\ c.reply = m.reply /\ c.kind = m.kind
        /\ c.skill = m.skill /\ c.error = m.error /\ c.runtime = FALSE
    BY <1>1, <2>1
  <2>3. /\ c.cut \in BOOLEAN /\ c.runtime \in BOOLEAN
        /\ c.size \in Nat
    <3>1. c.cut = TRUE /\ c.runtime = FALSE /\ c.size = 1
      BY <1>1, <2>1
    <3>2. 1 \in Nat OBVIOUS
    <3> QED BY <3>1, <3>2, Zenon
  <2>4. c.error \in BOOLEAN BY <2>2 DEF Shaped, IsMessage
  <2>5. /\ DOMAIN c = DOMAIN m /\ c.role = m.role /\ c.calls = m.calls
        /\ c.kind = m.kind /\ c.skill = m.skill
    BY <2>2
  <2>6. Shaped(c) BY <2>3, <2>4, <2>5, Zenon DEF Shaped, IsMessage
  <2> QED BY <2>2, <2>6
<1> QED BY <1>2, <1>3

\* What CutTexts does to the message at i.
CutAt(ms, i) ==
    LET overflow == CountMessages(ms) - Budget
    IN  IF overflow <= 0 \/ ms[i].size = 0 THEN ms
        ELSE [ms EXCEPT ![i] = CutText(@, overflow)]

LEMMA CutAtFacts ==
    ASSUME NEW ms, IsHistory(ms), NEW i \in DOMAIN ms, NEW r, r = CutAt(ms, i)
    PROVE  /\ IsHistory(r) /\ Len(r) = Len(ms) /\ Alike(ms, r)
           /\ \A k \in 1..Len(ms) : ms[k].kind = r[k].kind /\ ms[k].skill = r[k].skill
           /\ \A k \in 1..Len(ms) : k # i => r[k] = ms[k]
<1>1. IsSeq(ms) /\ Len(ms) \in Nat /\ DOMAIN ms = 1..Len(ms) BY SeqFacts DEF IsHistory
<1>2. PICK overflow : overflow = CountMessages(ms) - Budget OBVIOUS
<1>3. overflow \in Int BY <1>2, CountFacts, ContextAssumption
<1>4. CASE overflow <= 0 \/ ms[i].size = 0
  <2>1. r = ms BY <1>2, <1>4 DEF CutAt
  <2> QED BY <2>1 DEF Alike
<1>5. CASE ~(overflow <= 0 \/ ms[i].size = 0)
  <2>1. overflow \in Nat /\ overflow # 0 BY <1>3, <1>5
  <2>2. PICK c : c = CutText(ms[i], overflow) OBVIOUS
  <2>3. r = [ms EXCEPT ![i] = c] BY <1>2, <1>5, <2>2 DEF CutAt
  <2>4. Shaped(ms[i]) BY DEF IsHistory
  <2>5. /\ Shaped(c)
        /\ c.role = ms[i].role /\ c.calls = ms[i].calls /\ c.reply = ms[i].reply
        /\ c.kind = ms[i].kind /\ c.skill = ms[i].skill
    BY <2>1, <2>2, <2>4, CutTextFacts
  <2>6. ms = [k \in 1..Len(ms) |-> ms[k]] BY <1>1 DEF IsSeq
  <2>7. r = [k \in 1..Len(ms) |-> IF k = i THEN c ELSE ms[k]] BY <1>1, <2>3, <2>6
  <2>8. r = [k \in 1..Len(ms) |-> r[k]] BY <2>7
  <2>9. IsSeq(r) /\ Len(r) = Len(ms) /\ DOMAIN r = 1..Len(ms)
    BY <1>1, <2>8, FunctionFacts
  <2>10. r[i] = c /\ \A k \in 1..Len(ms) : k # i => r[k] = ms[k] BY <1>1, <2>7
  <2>11. \A k \in 1..Len(ms) : Shaped(r[k]) BY <1>1, <2>5, <2>10 DEF IsHistory
  <2>12. IsHistory(r) BY <2>9, <2>11 DEF IsHistory
  <2>13. Alike(ms, r) BY <2>5, <2>9, <2>10 DEF Alike
  <2> QED BY <2>5, <2>9, <2>10, <2>12, <2>13
<1> QED BY <1>4, <1>5

\* cut is the function that CutTexts is defined by.
Cuts(cut, ms, n) ==
    cut = [i \in 0..n |-> IF i = 0 THEN ms ELSE CutAt(cut[i - 1], i)]

LEMMA CutsExists ==
    ASSUME NEW ms, NEW n \in Nat
    PROVE  \E cut : Cuts(cut, ms, n)
<1> DEFINE S == {m \in Nat : \E cut : Cuts(cut, ms, m)}
<1>1. 0 \in S
  <2>1. Cuts([i \in 0..0 |-> ms], ms, 0) BY DEF Cuts
  <2> QED BY <2>1
<1>2. ASSUME NEW m \in Nat, m \in S PROVE m + 1 \in S
  <2>1. PICK f : Cuts(f, ms, m) BY <1>2
  <2>2. PICK x : x = CutAt(f[m], m + 1) OBVIOUS
  <2>3. PICK g : g = [i \in 0..(m + 1) |-> IF i = m + 1 THEN x ELSE f[i]] OBVIOUS
  <2>4. ASSUME NEW i \in 0..(m + 1)
        PROVE  g[i] = IF i = 0 THEN ms ELSE CutAt(g[i - 1], i)
    <3>1. CASE i = m + 1
      <4>1. g[i] = x /\ g[i - 1] = f[m] /\ i # 0 BY <2>3, <3>1
      <4> QED BY <2>2, <3>1, <4>1
    <3>2. CASE i # m + 1
      <4>1. i \in 0..m /\ (i # 0 => i - 1 \in 0..m) BY <3>2
      <4>2. g[i] = f[i] /\ (i # 0 => g[i - 1] = f[i - 1]) BY <2>3, <4>1
      <4>3. f[i] = IF i = 0 THEN ms ELSE CutAt(f[i - 1], i) BY <2>1, <4>1 DEF Cuts
      <4> QED BY <4>2, <4>3
    <3> QED BY <3>1, <3>2
  <2>5. Cuts(g, ms, m + 1) BY <2>3, <2>4 DEF Cuts
  <2> QED BY <2>5
<1> HIDE DEF S
<1>3. n \in S BY <1>1, <1>2, Induction
<1> QED BY <1>3 DEF S

LEMMA CutTextsCuts ==
    ASSUME NEW ms, Len(ms) \in Nat
    PROVE  \E cut : Cuts(cut, ms, Len(ms)) /\ CutTexts(ms) = cut[Len(ms)]
<1> DEFINE f == CHOOSE cut : Cuts(cut, ms, Len(ms))
<1>1. Cuts(f, ms, Len(ms)) BY CutsExists
<1>2. CutTexts(ms) = f[Len(ms)] BY DEF CutTexts, Cuts, CutAt
<1> QED BY <1>1, <1>2

-----------------------------------------------------------------------------
(* Compaction keeps a history *)

LEMMA CutTextsHistory ==
    ASSUME NEW ms, IsHistory(ms), NEW r, r = CutTexts(ms)
    PROVE  /\ IsHistory(r) /\ Len(r) = Len(ms) /\ Alike(ms, r)
           /\ \A k \in 1..Len(ms) : ms[k].kind = r[k].kind /\ ms[k].skill = r[k].skill
<1>1. IsSeq(ms) /\ Len(ms) \in Nat /\ DOMAIN ms = 1..Len(ms) BY SeqFacts DEF IsHistory
<1>2. PICK cut : Cuts(cut, ms, Len(ms)) /\ r = cut[Len(ms)] BY <1>1, CutTextsCuts
<1> DEFINE Kept(c) == /\ IsHistory(c) /\ Len(c) = Len(ms) /\ Alike(ms, c)
                      /\ \A k \in 1..Len(ms) :
                            ms[k].kind = c[k].kind /\ ms[k].skill = c[k].skill
           S == {i \in Nat : i \in 0..Len(ms) => Kept(cut[i])}
<1>3. 0 \in S
  <2>1. cut[0] = ms BY <1>1, <1>2 DEF Cuts
  <2>2. Kept(ms) BY DEF Alike
  <2> QED BY <2>1, <2>2
<1>4. ASSUME NEW i \in Nat, i \in S PROVE i + 1 \in S
  <2> SUFFICES ASSUME i + 1 \in 0..Len(ms) PROVE Kept(cut[i + 1]) OBVIOUS
  <2>1. i \in 0..Len(ms) /\ i + 1 \in 1..Len(ms) /\ i + 1 # 0 /\ (i + 1) - 1 = i BY <1>1
  <2>2. PICK a : a = cut[i] OBVIOUS
  <2>3. PICK b : b = cut[i + 1] OBVIOUS
  <2>4. b = CutAt(a, i + 1) BY <1>2, <2>1, <2>2, <2>3 DEF Cuts
  <2>5. Kept(a) BY <1>4, <2>1, <2>2
  <2>6. i + 1 \in DOMAIN a /\ IsHistory(a) BY <2>1, <2>5, SeqFacts DEF IsHistory
  <2>7. /\ IsHistory(b) /\ Len(b) = Len(a) /\ Alike(a, b)
        /\ \A k \in 1..Len(a) : a[k].kind = b[k].kind /\ a[k].skill = b[k].skill
    BY <2>4, <2>6, CutAtFacts
  <2>8. Alike(ms, b) BY <2>5, <2>7 DEF Alike
  <2>9. Kept(b) BY <2>5, <2>7, <2>8
  <2> QED BY <2>3, <2>9
<1> HIDE DEF S
<1>5. Len(ms) \in S BY <1>1, <1>3, <1>4, Induction
<1>6. Kept(cut[Len(ms)]) BY <1>1, <1>5 DEF S
<1> QED BY <1>2, <1>6

\* What the compaction of a history leaves is a history, all of whose calls are answered if
\* they were.
THEOREM PrepareHistory ==
    ASSUME NEW ms, IsHistory(ms), Tied(ms), NEW summaryOk \in BOOLEAN,
           NEW r, r = Prepare(ms, summaryOk)
    PROVE  IsHistory(r) /\ Tied(r) /\ (Answered(ms) => Answered(r))
<1>1. CASE CountMessages(ms) <= Trigger BY <1>1 DEF Prepare
<1>2. CASE ~(CountMessages(ms) <= Trigger)
  <2>1. PICK a : a = Summarised(ms, summaryOk) OBVIOUS
  <2>2. PICK b : b = DropGroups(a) OBVIOUS
  <2>3. r = CutTexts(b) BY <1>2, <2>1, <2>2 DEF Prepare, FitBudget
  <2>4. IsHistory(a) /\ Tied(a) /\ (Answered(ms) => Answered(a)) BY <2>1, SummarisedHistory
  <2>5. IsHistory(b) /\ Tied(b) /\ (Answered(a) => Answered(b))
    BY <2>2, <2>4, DropGroupsHistory
  <2>6. IsHistory(r) /\ Alike(b, r) BY <2>3, <2>5, CutTextsHistory
  <2>7. IsSeq(b) /\ IsSeq(r) BY <2>5, <2>6 DEF IsHistory
  <2>8. Tied(r) BY <2>5, <2>6, <2>7, AlikeTied
  <2>9. Answered(b) => Answered(r) BY <2>6, <2>7, AlikeAnswered
  <2> QED BY <2>4, <2>5, <2>6, <2>8, <2>9
<1> QED BY <1>1, <1>2

-----------------------------------------------------------------------------
(* Equal sequences *)

\* Sequences with the same elements in the same places are the same.
LEMMA SameElements ==
    ASSUME NEW a, NEW b, IsSeq(a), IsSeq(b), Len(a) = Len(b),
           \A k \in 1..Len(a) : a[k] = b[k]
    PROVE  a = b
<1>1. PICK n : n = Len(a) OBVIOUS
<1>2. a = [k \in 1..n |-> a[k]] BY <1>1 DEF IsSeq
<1>3. b = [k \in 1..n |-> b[k]] BY <1>1 DEF IsSeq
<1>4. \A k \in 1..n : a[k] = b[k] BY <1>1
<1> QED BY <1>2, <1>3, <1>4

\* Positions that climb.
Climbing(at) ==
    /\ IsSeq(at)
    /\ \A k \in 1..Len(at) : at[k] \in Nat
    /\ \A k \in 1..Len(at) : \A l \in 1..Len(at) : k < l => at[k] < at[l]

LEMMA AscendingClimbing ==
    ASSUME NEW positions, NEW n \in Nat
    PROVE  Climbing(Ascending(positions, n))
<1>1. PICK at : at = Ascending(positions, n) OBVIOUS
<1>2. /\ IsSeq(at)
      /\ \A k \in 1..Len(at) : at[k] \in positions /\ at[k] \in 1..n
      /\ \A k \in 1..Len(at) : \A l \in (k + 1)..Len(at) : at[k] < at[l]
  BY <1>1, AscendingFacts
<1>3. Len(at) \in Nat BY <1>2, SeqFacts
<1>4. \A k \in 1..Len(at) : at[k] \in Nat BY <1>2
<1>5. \A k \in 1..Len(at) : \A l \in 1..Len(at) : k < l => l \in (k + 1)..Len(at) BY <1>3
<1>6. \A k \in 1..Len(at) : \A l \in 1..Len(at) : k < l => at[k] < at[l] BY <1>2, <1>5
<1>7. Climbing(at) BY <1>2, <1>4, <1>6 DEF Climbing
<1> QED BY <1>1, <1>7

\* They agree up to n.
Agree(a, b, n) ==
    \A k \in 1..n : (k <= Len(a) <=> k <= Len(b)) /\ (k <= Len(a) => a[k] = b[k])

LEMMA AgreeStep ==
    ASSUME NEW a, NEW b, Climbing(a), Climbing(b), NEW n \in Nat, Agree(a, b, n),
           \A k \in 1..Len(a) : \E l \in 1..Len(b) : a[k] = b[l], n + 1 <= Len(a)
    PROVE  n + 1 <= Len(b) /\ b[n + 1] <= a[n + 1]
<1>1. Len(a) \in Nat /\ Len(b) \in Nat BY SeqFacts DEF Climbing
<1>2. n + 1 \in 1..Len(a) BY <1>1
<1>3. PICK l \in 1..Len(b) : a[n + 1] = b[l] BY <1>2
<1>4. ~(l <= n)
  <2> SUFFICES ASSUME l <= n PROVE FALSE OBVIOUS
  <2>1. l \in 1..n BY <1>1
  <2>2. l <= Len(b) BY <1>1
  <2>3. l <= Len(a) /\ a[l] = b[l] BY <2>1, <2>2 DEF Agree
  <2>4. l \in 1..Len(a) /\ l < n + 1 BY <1>1, <2>1, <2>3
  <2>5. a[l] < a[n + 1] /\ a[l] \in Nat BY <1>2, <2>4 DEF Climbing
  <2> QED BY <1>3, <2>3, <2>5
<1>5. n + 1 \in 1..Len(b) /\ (l = n + 1 \/ n + 1 < l) BY <1>1, <1>4
<1>6. b[n + 1] \in Nat /\ b[l] \in Nat /\ (n + 1 < l => b[n + 1] < b[l])
  BY <1>5 DEF Climbing
<1> QED BY <1>1, <1>3, <1>5, <1>6

\* Climbing positions are determined by their set.
LEMMA SameClimb ==
    ASSUME NEW a, NEW b, Climbing(a), Climbing(b),
           \A k \in 1..Len(a) : \E l \in 1..Len(b) : a[k] = b[l],
           \A k \in 1..Len(b) : \E l \in 1..Len(a) : b[k] = a[l]
    PROVE  a = b
<1>1. Len(a) \in Nat /\ Len(b) \in Nat BY SeqFacts DEF Climbing
<1> DEFINE S == {n \in Nat : Agree(a, b, n)}
<1>2. 0 \in S BY DEF Agree
<1>3. ASSUME NEW n \in Nat, n \in S PROVE n + 1 \in S
  <2>1. Agree(a, b, n) /\ Agree(b, a, n) BY <1>3 DEF Agree
  <2>2. n + 1 <= Len(a) => n + 1 <= Len(b) /\ b[n + 1] <= a[n + 1] BY <2>1, AgreeStep
  <2>3. n + 1 <= Len(b) => n + 1 <= Len(a) /\ a[n + 1] <= b[n + 1] BY <2>1, AgreeStep
  <2>4. n + 1 <= Len(a) => a[n + 1] \in Nat BY <1>1 DEF Climbing
  <2>5. n + 1 <= Len(b) => b[n + 1] \in Nat BY <1>1 DEF Climbing
  <2>6. ASSUME n + 1 <= Len(a) PROVE a[n + 1] = b[n + 1]
    <3>1. n + 1 <= Len(b) /\ b[n + 1] <= a[n + 1] BY <2>2, <2>6
    <3>2. a[n + 1] <= b[n + 1] BY <2>3, <3>1
    <3>3. a[n + 1] \in Nat /\ b[n + 1] \in Nat BY <2>4, <2>5, <2>6, <3>1
    <3>4. \A x, y \in Nat : x <= y /\ y <= x => x = y OBVIOUS
    <3> QED BY <3>1, <3>2, <3>3, <3>4, Zenon
  <2>7. n + 1 <= Len(a) <=> n + 1 <= Len(b) BY <2>2, <2>3
  <2>8. \A k \in 1..(n + 1) : k \in 1..n \/ k = n + 1 OBVIOUS
  <2>9. Agree(a, b, n + 1) BY <2>1, <2>6, <2>7, <2>8 DEF Agree
  <2> QED BY <2>9
<1> HIDE DEF S
<1>4. Nat \subseteq S BY <1>2, <1>3, Induction
<1>5. \A n \in Nat : Agree(a, b, n) BY <1>4 DEF S
<1>6. \A k \in Nat : k >= 1 => (k <= Len(a) <=> k <= Len(b)) /\ (k <= Len(a) => a[k] = b[k])
  <2> SUFFICES ASSUME NEW k \in Nat, k >= 1
               PROVE (k <= Len(a) <=> k <= Len(b)) /\ (k <= Len(a) => a[k] = b[k])
    OBVIOUS
  <2>1. Agree(a, b, k) /\ k \in 1..k BY <1>5
  <2> QED BY <2>1 DEF Agree
<1>7. Len(a) = Len(b)
  <2>1. Len(a) >= 1 => Len(a) <= Len(b) BY <1>1, <1>6
  <2>2. Len(b) >= 1 => Len(b) <= Len(a) BY <1>1, <1>6
  <2> QED BY <1>1, <2>1, <2>2
<1>8. \A k \in 1..Len(a) : a[k] = b[k] BY <1>1, <1>6
<1>9. IsSeq(a) /\ IsSeq(b) BY DEF Climbing
<1> QED BY <1>7, <1>8, <1>9, SameElements

\* The sequence of all positions.
LEMMA PickAll ==
    ASSUME NEW q, IsSeq(q)
    PROVE  Pick(q, DOMAIN q) = q
<1>1. Len(q) \in Nat /\ DOMAIN q = 1..Len(q) BY SeqFacts
<1>2. PICK n : n = Len(q) OBVIOUS
<1>3. PICK a : a = Ascending(DOMAIN q, n) OBVIOUS
<1>4. PICK b : b = [k \in 1..n |-> k] OBVIOUS
<1>5. /\ IsSeq(a)
      /\ \A k \in 1..Len(a) : a[k] \in 1..n
      /\ \A i \in 1..n : i \in DOMAIN q => \E k \in 1..Len(a) : a[k] = i
  BY <1>1, <1>2, <1>3, AscendingFacts
<1>6. Climbing(a) BY <1>1, <1>2, <1>3, AscendingClimbing
<1>7. IsSeq(b) /\ Len(b) = n
  <2>1. b = [k \in 1..n |-> b[k]] BY <1>4
  <2> QED BY <1>1, <1>2, <2>1, FunctionFacts
<1>8. \A k \in 1..n : b[k] = k BY <1>4
<1>9. Climbing(b) BY <1>1, <1>2, <1>7, <1>8 DEF Climbing
<1>10. a = b
  <2>1. \A k \in 1..Len(a) : \E l \in 1..Len(b) : a[k] = b[l] BY <1>5, <1>7, <1>8
  <2>2. \A k \in 1..Len(b) : \E l \in 1..Len(a) : b[k] = a[l]
    BY <1>1, <1>2, <1>5, <1>7, <1>8
  <2> QED BY <1>6, <1>9, <2>1, <2>2, SameClimb
<1>11. Pick(q, DOMAIN q) = [k \in 1..Len(a) |-> q[a[k]]] BY <1>2, <1>3 DEF Pick
<1>12. Pick(q, DOMAIN q) = [k \in 1..n |-> q[k]] BY <1>7, <1>8, <1>10, <1>11
<1>13. q = [k \in 1..n |-> q[k]] BY <1>2 DEF IsSeq
<1> QED BY <1>12, <1>13

-----------------------------------------------------------------------------
(* Sequences made of sequences *)

\* The sequence r is made of the sequences qs, one after the other; qs[k] stands behind the
\* first off[k] elements.
Laid(r, qs, off) ==
    /\ IsSeq(r) /\ IsSeq(qs)
    /\ off[1] = 0 /\ off[Len(qs) + 1] = Len(r)
    /\ \A k \in 1..Len(qs) : Within(qs[k], r, off[k]) /\ off[k + 1] = off[k] + Len(qs[k])

LEMMA WithinLonger ==
    ASSUME NEW a, NEW b, NEW c, NEW d, Within(a, b, d), Within(b, c, 0)
    PROVE  Within(a, c, d)
<1>1. /\ Len(a) \in Nat /\ Len(b) \in Nat /\ Len(c) \in Nat /\ d \in Nat
      /\ d + Len(a) <= Len(b) /\ Len(b) <= Len(c) /\ IsSeq(a) /\ IsSeq(c)
      /\ \A j \in 1..Len(a) : b[d + j] = a[j]
      /\ \A j \in 1..Len(b) : c[0 + j] = b[j]
  BY SeqFacts DEF Within
<1>2. \A j \in 1..Len(a) : c[d + j] = a[j]
  <2> SUFFICES ASSUME NEW j \in 1..Len(a) PROVE c[d + j] = a[j] OBVIOUS
  <2>1. PICK l : l = d + j OBVIOUS
  <2>2. l \in 1..Len(b) /\ 0 + l = l BY <1>1, <2>1
  <2>3. c[l] = b[l] BY <1>1, <2>2
  <2>4. b[l] = a[j] BY <1>1, <2>1
  <2> QED BY <2>1, <2>3, <2>4
<1>3. d + Len(a) <= Len(c) BY <1>1
<1> QED BY <1>1, <1>2, <1>3 DEF Within

LEMMA LaidFacts ==
    ASSUME NEW r, NEW qs, NEW off, Laid(r, qs, off)
    PROVE  /\ Len(r) \in Nat /\ DOMAIN r = 1..Len(r) /\ Len(qs) \in Nat
           /\ DOMAIN qs = 1..Len(qs)
           /\ off[1] = 0 /\ off[Len(qs) + 1] = Len(r)
           /\ \A k \in 1..Len(qs) :
                 /\ IsSeq(qs[k]) /\ Len(qs[k]) \in Nat /\ off[k] \in Nat /\ off[k + 1] \in Nat
                 /\ off[k + 1] = off[k] + Len(qs[k]) /\ off[k + 1] <= Len(r)
                 /\ \A i \in 1..Len(qs[k]) : r[off[k] + i] = qs[k][i]
<1>1. Len(r) \in Nat /\ DOMAIN r = 1..Len(r) /\ Len(qs) \in Nat /\ DOMAIN qs = 1..Len(qs)
  BY SeqFacts DEF Laid
<1>2. off[1] = 0 /\ off[Len(qs) + 1] = Len(r) BY DEF Laid
<1>3. ASSUME NEW k \in 1..Len(qs)
      PROVE  /\ IsSeq(qs[k]) /\ Len(qs[k]) \in Nat /\ off[k] \in Nat /\ off[k + 1] \in Nat
             /\ off[k + 1] = off[k] + Len(qs[k]) /\ off[k + 1] <= Len(r)
             /\ \A i \in 1..Len(qs[k]) : r[off[k] + i] = qs[k][i]
  <2>1. PICK q : q = qs[k] OBVIOUS
  <2>2. PICK d : d = off[k] OBVIOUS
  <2>3. Within(q, r, d) /\ off[k + 1] = d + Len(q) BY <2>1, <2>2 DEF Laid
  <2>4. IsSeq(q) /\ d \in Nat /\ d + Len(q) <= Len(r) BY <2>3 DEF Within
  <2>5. \A i \in 1..Len(q) : r[d + i] = q[i] BY <2>3 DEF Within
  <2>6. Len(q) \in Nat BY <2>4, SeqFacts
  <2>7. d + Len(q) \in Nat BY <2>4, <2>6
  <2> QED BY <2>1, <2>2, <2>3, <2>4, <2>5, <2>6, <2>7
<1> QED BY <1>1, <1>2, <1>3

LEMMA FlattenLaid ==
    ASSUME NEW qs, IsSeq(qs), \A k \in 1..Len(qs) : IsSeq(qs[k])
    PROVE  \E off : Laid(Flatten(qs), qs, off)
<1>1. Len(qs) \in Nat /\ (qs = <<>> <=> Len(qs) = 0) BY SeqFacts
<1>2. CASE qs = <<>>
  <2>1. PICK r : r = Flatten(qs) OBVIOUS
  <2>2. r = <<>> BY <1>2, <2>1, FlattenFacts
  <2>3. IsSeq(r) /\ Len(r) = 0 BY <2>2, EmptyCalls
  <2>4. PICK off : off = [k \in 1..1 |-> 0] OBVIOUS
  <2>5. off[1] = 0 /\ Len(qs) + 1 = 1 BY <1>1, <1>2, <2>4
  <2>6. Laid(r, qs, off) BY <1>1, <1>2, <2>3, <2>5 DEF Laid
  <2> QED BY <2>1, <2>6
<1>3. CASE qs # <<>>
  <2>1. PICK f : /\ Flatten(qs) = f[Len(qs)] /\ f[1] = qs[1]
                 /\ \A i \in 2..Len(qs) : f[i] = f[i - 1] \o qs[i]
    BY <1>3, FlattenFacts
  <2>2. PICK n : n = Len(qs) OBVIOUS
  <2>3. n \in Nat /\ n >= 1 BY <1>1, <1>3, <2>2
  <2>4. PICK off : off = [k \in 1..(n + 1) |-> IF k = 1 THEN 0 ELSE Len(f[k - 1])] OBVIOUS
  <2>5. off[1] = 0 BY <2>3, <2>4
  <2>6. \A k \in 1..n : off[k + 1] = Len(f[k])
    <3> SUFFICES ASSUME NEW k \in 1..n PROVE off[k + 1] = Len(f[k]) OBVIOUS
    <3>1. k + 1 \in 1..(n + 1) /\ k + 1 # 1 /\ (k + 1) - 1 = k BY <2>3
    <3> QED BY <2>4, <3>1
  <2> DEFINE Upto(i) == /\ IsSeq(f[i]) /\ off[i + 1] = off[i] + Len(qs[i])
                        /\ \A k \in 1..i : Within(qs[k], f[i], off[k])
             S == {i \in Nat : i + 1 <= n => Upto(i + 1)}
  <2>7. 0 \in S
    <3>1. PICK q : q = qs[1] OBVIOUS
    <3>2. IsSeq(q) BY <2>2, <2>3, <3>1
    <3>3. Len(q) \in Nat BY <3>2, SeqFacts
    <3>4. Within(q, q, 0)
      <4>1. \A j \in 1..Len(q) : q[0 + j] = q[j]
        <5>1. \A j \in 1..Len(q) : 0 + j = j BY <3>3
        <5> QED BY <5>1
      <4>2. 0 + Len(q) <= Len(q) BY <3>3
      <4> QED BY <3>2, <4>1, <4>2 DEF Within
    <3>5. off[1 + 1] = Len(q) BY <2>1, <2>3, <2>6, <3>1
    <3>6. \A k \in 1..1 : k = 1 OBVIOUS
    <3>7. Upto(1)
      <4>1. IsSeq(f[1]) BY <2>1, <3>1, <3>2
      <4>2. off[1 + 1] = off[1] + Len(qs[1]) BY <2>5, <3>1, <3>3, <3>5
      <4>3. Within(qs[1], f[1], off[1]) BY <2>1, <2>5, <3>1, <3>4
      <4> QED BY <3>6, <4>1, <4>2, <4>3
    <3>8. 0 + 1 = 1 OBVIOUS
    <3> HIDE DEF Upto
    <3> QED BY <3>7, <3>8
  <2>8. ASSUME NEW i \in Nat, i \in S PROVE i + 1 \in S
    <3> SUFFICES ASSUME i + 1 + 1 <= n PROVE Upto(i + 1 + 1) OBVIOUS
    <3>1. PICK j : j = i + 1 OBVIOUS
    <3>2. j \in 1..n /\ j + 1 \in 1..n /\ j + 1 \in 2..n /\ (j + 1) - 1 = j BY <2>3, <3>1
    <3>3. Upto(j) BY <2>8, <3>1, <3>2
    <3>4. PICK a : a = f[j] OBVIOUS
    <3>5. PICK c : c = f[j + 1] OBVIOUS
    <3>6. PICK b : b = qs[j + 1] OBVIOUS
    <3>7. c = a \o b
      <4>1. f[j + 1] = f[(j + 1) - 1] \o qs[j + 1] BY <2>1, <2>2, <3>2
      <4> QED BY <3>2, <3>4, <3>5, <3>6, <4>1
    <3>8. IsSeq(a) /\ IsSeq(b) BY <2>2, <3>2, <3>3, <3>4, <3>6
    <3>9. Within(a, c, 0) /\ Within(b, c, Len(a)) BY <3>7, <3>8, ConcatWithin
    <3>10. IsSeq(c) BY <3>9 DEF Within
    <3>11. Len(c) = Len(a) + Len(b) BY <3>7, <3>8, ConcatFacts
    <3>12. off[j + 1] = Len(a) BY <2>6, <3>2, <3>4
    <3>13. off[j + 1 + 1] = Len(c) BY <2>6, <3>2, <3>5
    <3>14. \A k \in 1..(j + 1) : Within(qs[k], c, off[k])
      <4> SUFFICES ASSUME NEW k \in 1..(j + 1) PROVE Within(qs[k], c, off[k]) OBVIOUS
      <4>1. CASE k \in 1..j
        <5>1. PICK q : q = qs[k] OBVIOUS
        <5>2. PICK d : d = off[k] OBVIOUS
        <5>3. Within(q, a, d) BY <3>3, <3>4, <4>1, <5>1, <5>2
        <5>4. Within(q, c, d) BY <3>9, <5>3, WithinLonger
        <5> QED BY <5>1, <5>2, <5>4
      <4>2. CASE k = j + 1 BY <3>6, <3>9, <3>12, <4>2
      <4>3. k \in 1..j \/ k = j + 1 BY <3>2
      <4> QED BY <4>1, <4>2, <4>3
    <3>15. Upto(j + 1)
      <4>1. IsSeq(f[j + 1]) BY <3>5, <3>10
      <4>2. off[j + 1 + 1] = off[j + 1] + Len(qs[j + 1]) BY <3>6, <3>11, <3>12, <3>13
      <4>3. \A k \in 1..(j + 1) : Within(qs[k], f[j + 1], off[k]) BY <3>5, <3>14
      <4> QED BY <4>1, <4>2, <4>3
    <3> HIDE DEF Upto
    <3> QED BY <3>1, <3>15
  <2> HIDE DEF S
  <2>9. Nat \subseteq S BY <2>7, <2>8, Induction
  <2>10. \A i \in 1..n : Upto(i)
    <3> SUFFICES ASSUME NEW i \in 1..n PROVE Upto(i) OBVIOUS
    <3>1. i - 1 \in Nat /\ (i - 1) + 1 = i /\ i <= n BY <2>3
    <3> HIDE DEF Upto
    <3> QED BY <2>9, <3>1 DEF S
  <2>11. PICK r : r = f[n] OBVIOUS
  <2>12. n \in 1..n BY <2>3
  <2>13. IsSeq(r) /\ \A k \in 1..n : Within(qs[k], r, off[k]) BY <2>10, <2>11, <2>12
  <2>14. \A k \in 1..n : off[k + 1] = off[k] + Len(qs[k]) BY <2>10
  <2>15. off[n + 1] = Len(r) BY <2>6, <2>11, <2>12
  <2>16. Laid(r, qs, off) BY <2>2, <2>5, <2>13, <2>14, <2>15 DEF Laid
  <2> QED BY <2>1, <2>2, <2>11, <2>16
<1> QED BY <1>2, <1>3

\* Which of them holds the element at n.
LEMMA Located ==
    ASSUME NEW r, NEW qs, NEW off, Laid(r, qs, off), NEW n \in 1..Len(r)
    PROVE  \E k \in 1..Len(qs) : off[k] < n /\ n <= off[k + 1]
<1>1. PICK last : last = Len(qs) OBVIOUS
<1>2. /\ last \in Nat /\ Len(r) \in Nat /\ off[1] = 0 /\ off[last + 1] = Len(r)
      /\ \A k \in 1..last : off[k] \in Nat /\ off[k + 1] \in Nat
  BY <1>1, LaidFacts
<1> DEFINE S == {m \in Nat : m <= last => (n <= off[m + 1] =>
                      \E k \in 1..m : off[k] < n /\ n <= off[k + 1])}
<1>3. 0 \in S BY <1>2
<1>4. ASSUME NEW m \in Nat, m \in S PROVE m + 1 \in S
  <2> SUFFICES ASSUME m + 1 <= last, n <= off[m + 1 + 1]
               PROVE  \E k \in 1..(m + 1) : off[k] < n /\ n <= off[k + 1]
    OBVIOUS
  <2>1. m <= last /\ m + 1 \in 1..last BY <1>2
  <2>2. off[m + 1] \in Nat BY <1>2, <2>1
  <2>3. CASE n <= off[m + 1]
    <3>1. PICK k \in 1..m : off[k] < n /\ n <= off[k + 1] BY <1>4, <2>1, <2>3
    <3>2. k \in 1..(m + 1) OBVIOUS
    <3> QED BY <3>1, <3>2
  <2>4. CASE ~(n <= off[m + 1])
    <3>1. off[m + 1] < n BY <1>2, <2>2, <2>4
    <3>2. m + 1 \in 1..(m + 1) OBVIOUS
    <3> QED BY <3>1, <3>2
  <2> QED BY <2>3, <2>4
<1> HIDE DEF S
<1>5. last \in S BY <1>2, <1>3, <1>4, Induction
<1>6. n <= off[last + 1] BY <1>2
<1>7. last <= last BY <1>2
<1> QED BY <1>1, <1>5, <1>6, <1>7 DEF S

-----------------------------------------------------------------------------
(* Where each part stands *)

LEMMA OffsetsClimb ==
    ASSUME NEW r, NEW qs, NEW off, Laid(r, qs, off), NEW k \in 1..Len(qs),
           NEW l \in 1..Len(qs), k < l
    PROVE  off[k + 1] <= off[l]
<1>1. PICK last : last = Len(qs) OBVIOUS
<1>2. /\ last \in Nat
      /\ \A i \in 1..last : /\ off[i] \in Nat /\ off[i + 1] \in Nat /\ Len(qs[i]) \in Nat
                            /\ off[i + 1] = off[i] + Len(qs[i])
  BY <1>1, LaidFacts
<1>3. k \in 1..last /\ l \in 1..last BY <1>1
<1> DEFINE S == {m \in Nat : k + 1 + m <= last => off[k + 1] <= off[k + 1 + m]}
<1>4. 0 \in S
  <2>1. k + 1 + 0 = k + 1 BY <1>2, <1>3
  <2>2. off[k + 1] <= off[k + 1] BY <1>2, <1>3
  <2> QED BY <2>1, <2>2
<1>5. ASSUME NEW m \in Nat, m \in S PROVE m + 1 \in S
  <2> SUFFICES ASSUME k + 1 + (m + 1) <= last PROVE off[k + 1] <= off[k + 1 + (m + 1)]
    OBVIOUS
  <2>1. PICK i : i = k + 1 + m OBVIOUS
  <2>2. i \in 1..last /\ k + 1 + (m + 1) = i + 1 BY <1>2, <1>3, <2>1
  <2>3. off[k + 1] <= off[i] BY <1>2, <1>5, <2>1, <2>2
  <2>4. off[i] <= off[i + 1]
    <3>1. PICK d : d = off[i] OBVIOUS
    <3>2. PICK e : e = Len(qs[i]) OBVIOUS
    <3>3. d \in Nat /\ e \in Nat /\ off[i + 1] = d + e BY <1>2, <2>2, <3>1, <3>2
    <3> QED BY <3>1, <3>3
  <2>5. off[k + 1] \in Nat /\ off[i] \in Nat /\ off[i + 1] \in Nat BY <1>2, <1>3, <2>2
  <2> QED BY <2>2, <2>3, <2>4, <2>5
<1> HIDE DEF S
<1>6. PICK m : m = l - (k + 1) OBVIOUS
<1>7. m \in Nat /\ k + 1 + m = l BY <1>2, <1>3, <1>6
<1>8. m \in S BY <1>4, <1>5, <1>7, Induction
<1> QED BY <1>3, <1>7, <1>8 DEF S

\* An element is in one of them only.
LEMMA LocatedOnce ==
    ASSUME NEW r, NEW qs, NEW off, Laid(r, qs, off), NEW k \in 1..Len(qs),
           NEW l \in 1..Len(qs), NEW n \in Nat,
           off[k] < n, n <= off[k + 1], off[l] < n, n <= off[l + 1]
    PROVE  k = l
<1>1. PICK last : last = Len(qs) OBVIOUS
<1>2. last \in Nat /\ k \in 1..last /\ l \in 1..last BY <1>1, LaidFacts
<1>3. /\ off[k] \in Nat /\ off[k + 1] \in Nat /\ off[l] \in Nat /\ off[l + 1] \in Nat
  BY LaidFacts
<1>4. ~(k < l)
  <2>1. k < l => off[k + 1] <= off[l] BY OffsetsClimb
  <2> QED BY <1>3, <2>1
<1>5. ~(l < k)
  <2>1. l < k => off[l + 1] <= off[k] BY OffsetsClimb
  <2> QED BY <1>3, <2>1
<1> QED BY <1>2, <1>4, <1>5

LEMMA SameOffsets ==
    ASSUME NEW r, NEW s, NEW qs, NEW o, NEW p, Laid(r, qs, o), Laid(s, qs, p)
    PROVE  \A k \in 1..(Len(qs) + 1) : o[k] = p[k]
<1>1. PICK last : last = Len(qs) OBVIOUS
<1>2. /\ last \in Nat /\ o[1] = 0 /\ p[1] = 0
      /\ \A i \in 1..last : o[i + 1] = o[i] + Len(qs[i]) /\ p[i + 1] = p[i] + Len(qs[i])
  <2>1. Len(qs) \in Nat BY LaidFacts
  <2>2. o[1] = 0 /\ \A i \in 1..Len(qs) : o[i + 1] = o[i] + Len(qs[i]) BY DEF Laid
  <2>3. p[1] = 0 /\ \A i \in 1..Len(qs) : p[i + 1] = p[i] + Len(qs[i]) BY DEF Laid
  <2> QED BY <1>1, <2>1, <2>2, <2>3
<1> DEFINE S == {m \in Nat : m <= last => o[m + 1] = p[m + 1]}
<1>3. 0 \in S
  <2>1. 0 + 1 = 1 OBVIOUS
  <2> QED BY <1>2, <2>1
<1>4. ASSUME NEW m \in Nat, m \in S PROVE m + 1 \in S
  <2> SUFFICES ASSUME m + 1 <= last PROVE o[m + 1 + 1] = p[m + 1 + 1] OBVIOUS
  <2>1. m + 1 \in 1..last /\ m <= last BY <1>2
  <2> QED BY <1>2, <1>4, <2>1
<1> HIDE DEF S
<1>5. Nat \subseteq S BY <1>3, <1>4, Induction
<1>6. ASSUME NEW k \in 1..(last + 1) PROVE o[k] = p[k]
  <2>1. k - 1 \in Nat /\ k - 1 <= last /\ (k - 1) + 1 = k BY <1>2
  <2> QED BY <1>5, <2>1 DEF S
<1> QED BY <1>1, <1>6

\* There is one sequence that they make.
LEMMA LaidSame ==
    ASSUME NEW r, NEW s, NEW qs, NEW o, NEW p, Laid(r, qs, o), Laid(s, qs, p)
    PROVE  r = s
<1>1. IsSeq(r) /\ IsSeq(s) BY DEF Laid
<1>2. \A k \in 1..(Len(qs) + 1) : o[k] = p[k] BY SameOffsets
<1>3. Len(qs) \in Nat /\ Len(r) \in Nat BY LaidFacts
<1>4. Len(r) = Len(s)
  <2>1. Len(qs) + 1 \in 1..(Len(qs) + 1) BY <1>3
  <2>2. o[Len(qs) + 1] = Len(r) /\ p[Len(qs) + 1] = Len(s) BY LaidFacts
  <2> QED BY <1>2, <2>1, <2>2
<1>5. ASSUME NEW n \in 1..Len(r) PROVE r[n] = s[n]
  <2>1. PICK k \in 1..Len(qs) : o[k] < n /\ n <= o[k + 1] BY Located
  <2>2. /\ Len(qs[k]) \in Nat /\ o[k] \in Nat /\ o[k + 1] = o[k] + Len(qs[k])
        /\ \A i \in 1..Len(qs[k]) : r[o[k] + i] = qs[k][i]
    BY LaidFacts
  <2>3. \A i \in 1..Len(qs[k]) : s[p[k] + i] = qs[k][i] BY LaidFacts
  <2>4. o[k] = p[k]
    <3>1. k \in 1..(Len(qs) + 1) BY <1>3
    <3> QED BY <1>2, <3>1
  <2>5. PICK d : d = o[k] OBVIOUS
  <2>6. PICK q : q = qs[k] OBVIOUS
  <2>7. PICK i : i = n - d OBVIOUS
  <2>8. d \in Nat /\ Len(q) \in Nat /\ d < n /\ n <= d + Len(q) BY <2>1, <2>2, <2>5, <2>6
  <2>9. n \in Nat BY <1>3
  <2>10. i \in 1..Len(q) /\ d + i = n BY <2>7, <2>8, <2>9
  <2>11. r[d + i] = q[i] BY <2>2, <2>5, <2>6, <2>10
  <2>12. s[d + i] = q[i] BY <2>3, <2>4, <2>5, <2>6, <2>10
  <2> QED BY <2>10, <2>11, <2>12
<1> QED BY <1>1, <1>4, <1>5, SameElements

LEMMA LaidFlatten ==
    ASSUME NEW r, NEW qs, NEW off, Laid(r, qs, off)
    PROVE  Flatten(qs) = r
<1>1. IsSeq(qs) BY DEF Laid
<1>2. \A k \in 1..Len(qs) : IsSeq(qs[k]) BY LaidFacts
<1>3. PICK o : Laid(Flatten(qs), qs, o) BY <1>1, <1>2, FlattenLaid
<1>4. PICK s : s = Flatten(qs) OBVIOUS
<1>5. Laid(s, qs, o) BY <1>3, <1>4
<1>6. r = s BY <1>5, LaidSame
<1> QED BY <1>4, <1>6

LEMMA WithinShifted ==
    ASSUME NEW q, NEW b, NEW c, NEW d, NEW e, Within(q, b, d), Within(b, c, e)
    PROVE  Within(q, c, e + d)
<1>1. /\ Len(q) \in Nat /\ Len(b) \in Nat /\ Len(c) \in Nat /\ d \in Nat /\ e \in Nat
      /\ d + Len(q) <= Len(b) /\ e + Len(b) <= Len(c) /\ IsSeq(q) /\ IsSeq(c)
      /\ \A j \in 1..Len(q) : b[d + j] = q[j]
      /\ \A j \in 1..Len(b) : c[e + j] = b[j]
  BY SeqFacts DEF Within
<1>2. \A j \in 1..Len(q) : c[(e + d) + j] = q[j]
  <2> SUFFICES ASSUME NEW j \in 1..Len(q) PROVE c[(e + d) + j] = q[j] OBVIOUS
  <2>1. PICK l : l = d + j OBVIOUS
  <2>2. l \in 1..Len(b) /\ (e + d) + j = e + l BY <1>1, <2>1
  <2>3. c[e + l] = b[l] BY <1>1, <2>2
  <2>4. b[l] = q[j] BY <1>1, <2>1
  <2> QED BY <2>2, <2>3, <2>4
<1>3. (e + d) + Len(q) <= Len(c) /\ e + d \in Nat BY <1>1
<1> QED BY <1>1, <1>2, <1>3 DEF Within

LEMMA ConcatLaid ==
    ASSUME NEW a, NEW b, NEW p, NEW q, NEW o, NEW u, Laid(a, p, o), Laid(b, q, u),
           NEW c, c = a \o b, NEW qs, qs = p \o q
    PROVE  \E off : Laid(c, qs, off)
<1>1. IsSeq(a) /\ IsSeq(b) /\ IsSeq(p) /\ IsSeq(q) BY DEF Laid
<1>2. PICK n : n = Len(p) OBVIOUS
<1>3. PICK m : m = Len(q) OBVIOUS
<1>4. PICK d : d = Len(a) OBVIOUS
<1>5. n \in Nat /\ m \in Nat /\ d \in Nat /\ Len(b) \in Nat
  BY <1>2, <1>3, <1>4, LaidFacts
<1>6. Within(a, c, 0) /\ Within(b, c, d) BY <1>1, <1>4, ConcatWithin
<1>7. IsSeq(c) BY <1>6 DEF Within
<1>8. Len(c) = d + Len(b) BY <1>1, <1>4, ConcatFacts
<1>9. IsSeq(qs) BY <1>1, ConcatFacts
<1>10. Len(qs) = n + m BY <1>1, <1>2, <1>3, ConcatFacts
<1>11. \A k \in 1..n : qs[k] = p[k] BY <1>1, <1>2, ConcatFacts
<1>12. \A k \in 1..m : qs[n + k] = q[k] BY <1>1, <1>2, <1>3, ConcatFacts
<1>13. PICK off : off = [k \in 1..(n + m + 1) |-> IF k <= n THEN o[k] ELSE d + u[k - n]]
  OBVIOUS
<1>14. \A k \in 1..n : off[k] = o[k] BY <1>5, <1>13
<1>15. \A k \in 1..(m + 1) : off[n + k] = d + u[k]
  <2> SUFFICES ASSUME NEW k \in 1..(m + 1) PROVE off[n + k] = d + u[k] OBVIOUS
  <2>1. n + k \in 1..(n + m + 1) /\ ~(n + k <= n) /\ (n + k) - n = k BY <1>5
  <2> QED BY <1>13, <2>1
<1>16. /\ o[1] = 0 /\ o[n + 1] = d /\ u[1] = 0 /\ u[m + 1] = Len(b)
  BY <1>2, <1>3, <1>4, LaidFacts
<1>17. off[n + 1] = d
  <2>1. 1 \in 1..(m + 1) BY <1>5
  <2>2. off[n + 1] = d + u[1] BY <1>15, <2>1
  <2> QED BY <1>5, <1>16, <2>2
<1>18. off[1] = 0
  <2>1. CASE n = 0
    <3>1. n + 1 = 1 BY <2>1
    <3>2. d = 0 BY <1>16, <3>1
    <3> QED BY <1>17, <3>1, <3>2
  <2>2. CASE n # 0
    <3>1. 1 \in 1..n BY <1>5, <2>2
    <3> QED BY <1>14, <1>16, <3>1
  <2> QED BY <2>1, <2>2
<1>19. off[Len(qs) + 1] = Len(c)
  <2>1. m + 1 \in 1..(m + 1) /\ Len(qs) + 1 = n + (m + 1) BY <1>5, <1>10
  <2>2. off[n + (m + 1)] = d + u[m + 1] BY <1>15, <2>1
  <2> QED BY <1>8, <1>16, <2>1, <2>2
<1>20. ASSUME NEW k \in 1..Len(qs)
       PROVE  Within(qs[k], c, off[k]) /\ off[k + 1] = off[k] + Len(qs[k])
  <2>1. CASE k \in 1..n
    <3>1. PICK s : s = p[k] OBVIOUS
    <3>2. PICK e : e = o[k] OBVIOUS
    <3>3. Within(s, a, e) /\ o[k + 1] = e + Len(s)
      BY <1>2, <2>1, <3>1, <3>2 DEF Laid
    <3>4. Within(s, c, e) BY <1>6, <3>3, WithinLonger
    <3>5. off[k + 1] = o[k + 1]
      <4>1. CASE k = n BY <1>16, <1>17, <4>1
      <4>2. CASE k # n
        <5>1. k + 1 \in 1..n BY <1>5, <2>1, <4>2
        <5> QED BY <1>14, <5>1
      <4> QED BY <4>1, <4>2
    <3>6. qs[k] = s /\ off[k] = e BY <1>11, <1>14, <2>1, <3>1, <3>2
    <3> QED BY <3>3, <3>4, <3>5, <3>6
  <2>2. CASE ~(k \in 1..n)
    <3>1. PICK l : l = k - n OBVIOUS
    <3>2. l \in 1..m /\ n + l = k /\ l \in 1..(m + 1) /\ l + 1 \in 1..(m + 1)
          /\ k + 1 = n + (l + 1)
      BY <1>5, <1>10, <2>2, <3>1
    <3>3. PICK s : s = q[l] OBVIOUS
    <3>4. PICK e : e = u[l] OBVIOUS
    <3>5. Within(s, b, e) /\ u[l + 1] = e + Len(s)
      BY <1>3, <3>2, <3>3, <3>4 DEF Laid
    <3>6. Within(s, c, d + e) BY <1>6, <3>5, WithinShifted
    <3>7. qs[k] = s BY <1>12, <3>2, <3>3
    <3>8. off[k] = d + e BY <1>15, <3>2, <3>4
    <3>9. off[k + 1] = d + u[l + 1] BY <1>15, <3>2
    <3>10. e \in Nat BY <3>5 DEF Within
    <3>11. Len(s) \in Nat
      <4>1. IsSeq(s) BY <3>5 DEF Within
      <4> QED BY <4>1, SeqFacts
    <3>12. off[k + 1] = (d + e) + Len(s) BY <1>5, <3>5, <3>9, <3>10, <3>11
    <3> QED BY <3>6, <3>7, <3>8, <3>12
  <2> QED BY <2>1, <2>2
<1>21. Laid(c, qs, off) BY <1>7, <1>9, <1>18, <1>19, <1>20 DEF Laid
<1> QED BY <1>21

-----------------------------------------------------------------------------
(* Groups put together are the history again *)

\* A group: a message that is no reply, and the replies behind it.
IsGroup(q) ==
    /\ IsSeq(q) /\ Len(q) >= 1
    /\ q[1].role # "tool"
    /\ \A j \in 2..Len(q) : q[j].role = "tool"

\* Where the groups of a history begin, and where each ends.
Begins(start, ms) ==
    /\ Climbing(start)
    /\ \A k \in 1..Len(start) : start[k] \in 1..Len(ms) /\ ms[start[k]].role # "tool"
    /\ \A i \in 1..Len(ms) : ms[i].role # "tool" => \E k \in 1..Len(start) : start[k] = i

GroupEnds(start, ms, g) == IF g = Len(start) THEN Len(ms) ELSE start[g + 1] - 1

LEMMA GroupsBegin ==
    ASSUME NEW ms, IsHistory(ms), Tied(ms), NEW groups, groups = MessageGroups(ms)
    PROVE  \E start : /\ Begins(start, ms)
                      /\ IsSeq(groups) /\ Len(groups) = Len(start)
                      /\ \A g \in 1..Len(start) :
                            groups[g] = SubSeq(ms, start[g], GroupEnds(start, ms, g))
<1>1. IsSeq(ms) /\ Len(ms) \in Nat /\ DOMAIN ms = 1..Len(ms) BY SeqFacts DEF IsHistory
<1>2. PICK start : start = Ascending(GroupStarts(ms), Len(ms)) OBVIOUS
<1>3. /\ IsSeq(start) /\ Len(start) \in Nat
      /\ \A k \in 1..Len(start) : start[k] \in GroupStarts(ms) /\ start[k] \in 1..Len(ms)
      /\ \A i \in 1..Len(ms) : i \in GroupStarts(ms) => \E k \in 1..Len(start) : start[k] = i
  BY <1>1, <1>2, AscendingFacts, SeqFacts
<1>4. GroupStarts(ms) = {k \in DOMAIN ms : ms[k].role # "tool"} BY <1>1, StartsFacts
<1>5. Climbing(start) BY <1>1, <1>2, AscendingClimbing
<1>6. groups = [g \in 1..Len(start) |-> SubSeq(ms, start[g], GroupEnds(start, ms, g))]
  BY <1>2 DEF MessageGroups, GroupEnds
<1>7. IsSeq(groups) /\ Len(groups) = Len(start) BY <1>3, <1>6, FunctionFacts
<1>8. Begins(start, ms)
  <2>1. \A k \in 1..Len(start) : ms[start[k]].role # "tool" BY <1>3, <1>4
  <2>2. \A i \in 1..Len(ms) : ms[i].role # "tool" => \E k \in 1..Len(start) : start[k] = i
    BY <1>1, <1>3, <1>4
  <2> QED BY <1>3, <1>5, <2>1, <2>2 DEF Begins
<1>9. \A g \in 1..Len(start) : groups[g] = SubSeq(ms, start[g], GroupEnds(start, ms, g))
  BY <1>6
<1> QED BY <1>7, <1>8, <1>9

LEMMA BeginsFacts ==
    ASSUME NEW ms, IsHistory(ms), Tied(ms), NEW start, Begins(start, ms),
           NEW g \in 1..Len(start)
    PROVE  /\ start[g] \in Nat /\ start[g] \in 1..Len(ms)
           /\ GroupEnds(start, ms, g) \in Nat
           /\ start[g] <= GroupEnds(start, ms, g) /\ GroupEnds(start, ms, g) <= Len(ms)
           /\ \A j \in (start[g] + 1)..GroupEnds(start, ms, g) : ms[j].role = "tool"
<1>1. /\ IsSeq(ms) /\ Len(ms) \in Nat /\ Len(start) \in Nat
  BY SeqFacts DEF IsHistory, Begins, Climbing
<1>2. PICK s : s = start[g] OBVIOUS
<1>3. s \in Nat /\ s \in 1..Len(ms) BY <1>1, <1>2 DEF Begins
<1>4. PICK e : e = GroupEnds(start, ms, g) OBVIOUS
<1>5. e \in Nat /\ s <= e /\ e <= Len(ms)
  <2>1. CASE g = Len(start) BY <1>1, <1>3, <1>4, <2>1 DEF GroupEnds
  <2>2. CASE g # Len(start)
    <3>1. PICK n : n = start[g + 1] OBVIOUS
    <3>2. g + 1 \in 1..Len(start) /\ g < g + 1 BY <1>1, <2>2
    <3>3. n \in 1..Len(ms) /\ s < n BY <1>2, <3>1, <3>2 DEF Begins, Climbing
    <3>4. e = n - 1 BY <1>4, <2>2, <3>1 DEF GroupEnds
    <3> QED BY <1>1, <1>3, <3>3, <3>4
  <2> QED BY <2>1, <2>2
<1>6. ASSUME NEW j \in (s + 1)..e PROVE ms[j].role = "tool"
  <2> SUFFICES ASSUME ms[j].role # "tool" PROVE FALSE OBVIOUS
  <2>1. j \in 1..Len(ms) BY <1>1, <1>3, <1>5
  <2>2. PICK l \in 1..Len(start) : start[l] = j BY <2>1 DEF Begins
  <2>3. s < j /\ j <= e BY <1>3, <1>5
  <2>4. ~(l <= g)
    <3>1. l < g => start[l] < s BY <1>2 DEF Begins, Climbing
    <3>2. l = g => start[l] = s BY <1>2
    <3> QED BY <1>1, <1>3, <2>1, <2>2, <2>3, <3>1, <3>2
  <2>5. g # Len(start) /\ g + 1 \in 1..Len(start) BY <1>1, <2>4
  <2>6. PICK n : n = start[g + 1] OBVIOUS
  <2>7. n \in 1..Len(ms) BY <2>5, <2>6 DEF Begins
  <2>8. e = n - 1 BY <1>4, <2>5, <2>6 DEF GroupEnds
  <2>9. n <= j
    <3>1. l = g + 1 \/ g + 1 < l BY <1>1, <2>4
    <3>2. l = g + 1 => n = j BY <2>2, <2>6
    <3>3. g + 1 < l => n < j BY <2>2, <2>5, <2>6 DEF Begins, Climbing
    <3> QED BY <1>1, <2>1, <2>7, <3>1, <3>2, <3>3
  <2> QED BY <1>1, <2>1, <2>3, <2>7, <2>8, <2>9
<1> QED BY <1>2, <1>3, <1>4, <1>5, <1>6

\* The groups of a history make it up.
LEMMA GroupsLaid ==
    ASSUME NEW ms, IsHistory(ms), Tied(ms), NEW groups, groups = MessageGroups(ms)
    PROVE  /\ \E off : Laid(ms, groups, off)
           /\ \A g \in 1..Len(groups) : IsGroup(groups[g])
<1>1. IsSeq(ms) /\ Len(ms) \in Nat /\ DOMAIN ms = 1..Len(ms) BY SeqFacts DEF IsHistory
<1>2. PICK start : /\ Begins(start, ms)
                   /\ IsSeq(groups) /\ Len(groups) = Len(start)
                   /\ \A g \in 1..Len(start) :
                         groups[g] = SubSeq(ms, start[g], GroupEnds(start, ms, g))
  BY GroupsBegin
<1>3. PICK n : n = Len(start) OBVIOUS
<1>4. n \in Nat BY <1>2, <1>3, SeqFacts DEF Begins, Climbing
<1>5. ASSUME NEW g \in 1..n
      PROVE  /\ IsSeq(groups[g]) /\ Len(groups[g]) = GroupEnds(start, ms, g) - start[g] + 1
             /\ start[g] \in 1..Len(ms)
             /\ GroupEnds(start, ms, g) \in Nat /\ start[g] <= GroupEnds(start, ms, g)
             /\ Within(groups[g], ms, start[g] - 1)
             /\ IsGroup(groups[g])
  <2>1. PICK s : s = start[g] OBVIOUS
  <2>2. PICK e : e = GroupEnds(start, ms, g) OBVIOUS
  <2>3. PICK a : a = groups[g] OBVIOUS
  <2>4. a = SubSeq(ms, s, e) BY <1>2, <1>3, <2>1, <2>2, <2>3
  <2>5. /\ s \in Nat /\ s \in 1..Len(ms) /\ e \in Nat /\ s <= e /\ e <= Len(ms)
        /\ \A j \in (s + 1)..e : ms[j].role = "tool"
    BY <1>2, <1>3, <2>1, <2>2, BeginsFacts
  <2>6. 1 <= s /\ s <= e + 1 BY <2>5
  <2>7. /\ IsSeq(a) /\ Len(a) = e - s + 1 /\ \A i \in 1..(e - s + 1) : a[i] = ms[s + i - 1]
    <3>1. s \in Nat /\ e \in Nat /\ 1 <= s /\ s <= e + 1 /\ e <= Len(ms) BY <2>5, <2>6
    <3>2. IsSeq(a) BY <1>1, <2>4, <3>1, SubSeqFacts
    <3>3. Len(a) = e - s + 1 BY <1>1, <2>4, <3>1, SubSeqFacts
    <3>4. \A i \in 1..(e - s + 1) : a[i] = ms[s + i - 1] BY <1>1, <2>4, <3>1, SubSeqFacts
    <3> QED BY <3>2, <3>3, <3>4
  <2>8. Within(a, ms, s - 1) BY <1>1, <2>5, <2>6, <2>7, CopyWithin
  <2>9. IsGroup(a)
    <3>1. Len(a) >= 1 BY <2>5, <2>7
    <3>2. a[1].role # "tool"
      <4>1. 1 \in 1..(e - s + 1) /\ s + 1 - 1 = s BY <2>5
      <4>2. a[1] = ms[s] BY <2>7, <4>1
      <4>3. ms[s].role # "tool" BY <1>2, <1>3, <2>1 DEF Begins
      <4> QED BY <4>2, <4>3
    <3>3. ASSUME NEW j \in 2..Len(a) PROVE a[j].role = "tool"
      <4>1. j \in 1..(e - s + 1) /\ s + j - 1 \in (s + 1)..e BY <2>5, <2>7
      <4> QED BY <2>5, <2>7, <4>1
    <3> QED BY <2>7, <3>1, <3>2, <3>3 DEF IsGroup
  <2> QED BY <2>1, <2>2, <2>3, <2>5, <2>7, <2>8, <2>9
<1>6. PICK off : off = [g \in 1..(n + 1) |-> IF g = n + 1 THEN Len(ms) ELSE start[g] - 1]
  OBVIOUS
<1>7. \A g \in 1..n : off[g] = start[g] - 1 BY <1>4, <1>6
<1>8. off[n + 1] = Len(ms) BY <1>4, <1>6
<1>9. off[1] = 0
  <2>1. CASE Len(ms) = 0
    <3>1. n = 0
      <4>1. ~(1 \in 1..n) BY <1>2, <1>3, <2>1 DEF Begins
      <4> QED BY <1>4, <4>1
    <3> QED BY <1>8, <2>1, <3>1
  <2>2. CASE Len(ms) # 0
    <3>1. 1 \in 1..Len(ms) BY <1>1, <2>2
    <3>2. ms[1].role # "tool"
      <4>1. ~\E i \in 1..(1 - 1) : TRUE OBVIOUS
      <4> QED BY <1>1, <3>1, <4>1 DEF Tied
    <3>3. PICK k \in 1..n : start[k] = 1 BY <1>2, <1>3, <3>1, <3>2 DEF Begins
    <3>4. 1 \in 1..n BY <1>4
    <3>5. start[1] \in 1..Len(ms) BY <1>5, <3>4
    <3>6. 1 < k => start[1] < start[k] BY <1>2, <1>3, <3>4 DEF Begins, Climbing
    <3>7. k = 1 BY <1>1, <1>4, <3>3, <3>5, <3>6
    <3> QED BY <1>7, <3>3, <3>4, <3>7
  <2> QED BY <2>1, <2>2
<1>10. ASSUME NEW g \in 1..n
       PROVE  Within(groups[g], ms, off[g]) /\ off[g + 1] = off[g] + Len(groups[g])
  <2>1. off[g] = start[g] - 1 BY <1>7
  <2>2. off[g + 1] = GroupEnds(start, ms, g)
    <3>1. CASE g = n BY <1>3, <1>8, <3>1 DEF GroupEnds
    <3>2. CASE g # n
      <4>1. g + 1 \in 1..n BY <1>4, <3>2
      <4> QED BY <1>3, <1>7, <3>2, <4>1 DEF GroupEnds
    <3> QED BY <3>1, <3>2
  <2>3. PICK s : s = start[g] OBVIOUS
  <2>4. PICK e : e = GroupEnds(start, ms, g) OBVIOUS
  <2>5. s \in 1..Len(ms) /\ e \in Nat /\ Len(groups[g]) = e - s + 1
    BY <1>5, <2>3, <2>4
  <2>6. e = (s - 1) + Len(groups[g]) BY <1>1, <2>5
  <2> QED BY <1>5, <2>1, <2>2, <2>3, <2>4, <2>6
<1>11. Laid(ms, groups, off)
  BY <1>1, <1>2, <1>3, <1>8, <1>9, <1>10 DEF Laid
<1>12. \A g \in 1..Len(groups) : IsGroup(groups[g]) BY <1>2, <1>3, <1>5
<1> QED BY <1>11, <1>12

\* What is made of groups has these groups.
LEMMA LaidGroups ==
    ASSUME NEW ms, IsHistory(ms), Tied(ms), NEW qs, NEW off, Laid(ms, qs, off),
           \A k \in 1..Len(qs) : IsGroup(qs[k])
    PROVE  MessageGroups(ms) = qs
<1>1. IsSeq(ms) /\ Len(ms) \in Nat /\ IsSeq(qs) /\ Len(qs) \in Nat
  BY SeqFacts DEF IsHistory, Laid
<1>2. PICK groups : groups = MessageGroups(ms) OBVIOUS
<1>3. PICK start : /\ Begins(start, ms)
                   /\ IsSeq(groups) /\ Len(groups) = Len(start)
                   /\ \A g \in 1..Len(start) :
                         groups[g] = SubSeq(ms, start[g], GroupEnds(start, ms, g))
  BY <1>2, GroupsBegin
<1>4. PICK n : n = Len(qs) OBVIOUS
<1>5. PICK b : b = [k \in 1..n |-> off[k] + 1] OBVIOUS
<1>6. n \in Nat /\ \A k \in 1..n : b[k] = off[k] + 1 BY <1>1, <1>4, <1>5
<1>7. IsSeq(b) /\ Len(b) = n
  <2>1. b = [k \in 1..n |-> b[k]] BY <1>5
  <2> QED BY <1>6, <2>1, FunctionFacts
<1>8. ASSUME NEW k \in 1..n
      PROVE  /\ off[k] \in Nat /\ off[k + 1] \in Nat /\ Len(qs[k]) \in Nat /\ Len(qs[k]) >= 1
             /\ off[k + 1] = off[k] + Len(qs[k]) /\ off[k + 1] <= Len(ms)
             /\ IsSeq(qs[k])
             /\ \A i \in 1..Len(qs[k]) : ms[off[k] + i] = qs[k][i]
  <2>1. Len(qs[k]) >= 1 BY <1>4 DEF IsGroup
  <2> QED BY <1>4, <2>1, LaidFacts
<1>9. Climbing(b)
  <2>1. \A k \in 1..n : b[k] \in Nat BY <1>6, <1>8
  <2>2. ASSUME NEW k \in 1..n, NEW l \in 1..n, k < l PROVE b[k] < b[l]
    <3>1. off[k + 1] <= off[l] BY <1>4, <2>2, OffsetsClimb
    <3>2. PICK x : x = off[k] OBVIOUS
    <3>3. PICK y : y = off[l] OBVIOUS
    <3>4. PICK e : e = Len(qs[k]) OBVIOUS
    <3>5. x \in Nat /\ y \in Nat /\ e \in Nat /\ e >= 1 /\ x + e <= y
      BY <1>8, <3>1, <3>2, <3>3, <3>4
    <3>6. b[k] = x + 1 /\ b[l] = y + 1 BY <1>6, <3>2, <3>3
    <3> QED BY <3>5, <3>6
  <2> QED BY <1>7, <2>1, <2>2 DEF Climbing
<1>10. ASSUME NEW k \in 1..Len(b) PROVE \E l \in 1..Len(start) : b[k] = start[l]
  <2>1. k \in 1..n BY <1>7
  <2>2. PICK q : q = qs[k] OBVIOUS
  <2>3. IsGroup(q) BY <1>4, <2>1, <2>2
  <2>4. PICK d : d = off[k] OBVIOUS
  <2>5. d \in Nat /\ Len(q) \in Nat /\ Len(q) >= 1 /\ d + Len(q) <= Len(ms)
        /\ \A i \in 1..Len(q) : ms[d + i] = q[i]
    BY <1>8, <2>1, <2>2, <2>4
  <2>6. 1 \in 1..Len(q) /\ d + 1 \in 1..Len(ms) BY <1>1, <2>5
  <2>7. ms[d + 1].role # "tool" BY <2>3, <2>5, <2>6 DEF IsGroup
  <2>8. PICK l \in 1..Len(start) : start[l] = d + 1 BY <1>3, <2>6, <2>7 DEF Begins
  <2> QED BY <1>6, <2>1, <2>4, <2>8
<1>11. ASSUME NEW l \in 1..Len(start) PROVE \E k \in 1..Len(b) : start[l] = b[k]
  <2>1. PICK m : m = start[l] OBVIOUS
  <2>2. m \in 1..Len(ms) /\ ms[m].role # "tool" BY <1>3, <2>1 DEF Begins
  <2>3. PICK k \in 1..Len(qs) : off[k] < m /\ m <= off[k + 1] BY <2>2, Located
  <2>4. k \in 1..n BY <1>4
  <2>5. PICK q : q = qs[k] OBVIOUS
  <2>6. PICK d : d = off[k] OBVIOUS
  <2>7. IsGroup(q) BY <2>5
  <2>8. d \in Nat /\ Len(q) \in Nat /\ \A i \in 1..Len(q) : ms[d + i] = q[i]
    BY <1>8, <2>4, <2>5, <2>6
  <2>9. d < m /\ m <= d + Len(q) BY <1>8, <2>3, <2>4, <2>5, <2>6
  <2>10. PICK i : i = m - d OBVIOUS
  <2>11. i \in 1..Len(q) /\ d + i = m BY <1>1, <2>2, <2>8, <2>9, <2>10
  <2>12. q[i].role # "tool" BY <2>2, <2>8, <2>11
  <2>13. i = 1
    <3>1. i \in 2..Len(q) => q[i].role = "tool" BY <2>7 DEF IsGroup
    <3> QED BY <2>8, <2>11, <2>12, <3>1
  <2>14. m = d + 1 BY <2>8, <2>11, <2>13
  <2> QED BY <1>6, <1>7, <2>1, <2>4, <2>6, <2>14
<1>12. start = b
  <2>1. Climbing(start) BY <1>3 DEF Begins
  <2> QED BY <1>9, <1>10, <1>11, <2>1, SameClimb
<1>13. Len(groups) = n BY <1>3, <1>7, <1>12
<1>14. ASSUME NEW g \in 1..n PROVE groups[g] = qs[g]
  <2>1. PICK q : q = qs[g] OBVIOUS
  <2>2. PICK d : d = off[g] OBVIOUS
  <2>3. PICK a : a = groups[g] OBVIOUS
  <2>4. PICK e : e = off[g + 1] OBVIOUS
  <2>5. start[g] = d + 1 BY <1>6, <1>12, <2>2
  <2>6. GroupEnds(start, ms, g) = e
    <3>1. CASE g = n
      <4>1. GroupEnds(start, ms, g) = Len(ms) BY <1>7, <1>12, <3>1 DEF GroupEnds
      <4>2. off[n + 1] = Len(ms) BY <1>4, LaidFacts
      <4> QED BY <2>4, <3>1, <4>1, <4>2
    <3>2. CASE g # n
      <4>1. g + 1 \in 1..n BY <1>6, <3>2
      <4>2. GroupEnds(start, ms, g) = start[g + 1] - 1 BY <1>7, <1>12, <3>2 DEF GroupEnds
      <4>3. start[g + 1] = e + 1 BY <1>6, <1>12, <2>4, <4>1
      <4>4. e \in Nat BY <1>8, <2>4
      <4> QED BY <4>2, <4>3, <4>4
    <3> QED BY <3>1, <3>2
  <2>7. a = SubSeq(ms, d + 1, e)
    <3>1. g \in 1..Len(start) BY <1>7, <1>12
    <3> QED BY <1>3, <2>3, <2>5, <2>6, <3>1
  <2>8. /\ d \in Nat /\ e \in Nat /\ Len(q) \in Nat /\ Len(q) >= 1 /\ e = d + Len(q)
        /\ e <= Len(ms) /\ IsSeq(q) /\ \A i \in 1..Len(q) : ms[d + i] = q[i]
    BY <1>8, <2>1, <2>2, <2>4
  <2>9. d + 1 \in Nat /\ 1 <= d + 1 /\ d + 1 <= e + 1 /\ e - (d + 1) + 1 = Len(q) BY <2>8
  <2>10. PICK s : s = d + 1 OBVIOUS
  <2>11. s \in Nat /\ 1 <= s /\ s <= e + 1 /\ e - s + 1 = Len(q) /\ a = SubSeq(ms, s, e)
    BY <2>7, <2>9, <2>10
  <2>12. /\ IsSeq(a) /\ Len(a) = e - s + 1 /\ \A i \in 1..(e - s + 1) : a[i] = ms[s + i - 1]
    <3>1. s \in Nat /\ e \in Nat /\ 1 <= s /\ s <= e + 1 /\ e <= Len(ms) BY <2>8, <2>11
    <3>2. IsSeq(a) BY <1>1, <2>11, <3>1, SubSeqFacts
    <3>3. Len(a) = e - s + 1 BY <1>1, <2>11, <3>1, SubSeqFacts
    <3>4. \A i \in 1..(e - s + 1) : a[i] = ms[s + i - 1] BY <1>1, <2>11, <3>1, SubSeqFacts
    <3> QED BY <3>2, <3>3, <3>4
  <2>13. ASSUME NEW i \in 1..Len(a) PROVE a[i] = q[i]
    <3>1. i \in 1..(e - s + 1) /\ i \in 1..Len(q) BY <2>11, <2>12
    <3>2. s + i - 1 = d + i BY <2>8, <2>10, <3>1
    <3> QED BY <2>8, <2>12, <3>1, <3>2
  <2>14. a = q BY <2>8, <2>11, <2>12, <2>13, SameElements
  <2> QED BY <2>1, <2>3, <2>14
<1>15. groups = qs BY <1>1, <1>3, <1>4, <1>13, <1>14, SameElements
<1> QED BY <1>2, <1>15

LEMMA GroupsFlatten ==
    ASSUME NEW ms, IsHistory(ms), Tied(ms)
    PROVE  Flatten(MessageGroups(ms)) = ms
<1>1. PICK groups : groups = MessageGroups(ms) OBVIOUS
<1>2. PICK off : Laid(ms, groups, off) BY <1>1, GroupsLaid
<1> QED BY <1>1, <1>2, LaidFlatten

-----------------------------------------------------------------------------
(* What parts cost *)

LEMMA TotalsFacts ==
    ASSUME NEW ms, IsHistory(ms), NEW total, Totals(total, ms, Len(ms))
    PROVE  /\ total[0] = 0
           /\ \A k \in 0..Len(ms) : total[k] \in Nat
           /\ \A k \in 1..Len(ms) : /\ Tokens(ms[k]) \in Nat
                                    /\ total[k] = total[k - 1] + Tokens(ms[k])
<1>1. Len(ms) \in Nat /\ DOMAIN ms = 1..Len(ms) BY SeqFacts DEF IsHistory
<1>2. total[0] = 0
  <2>1. 0 \in 0..Len(ms) BY <1>1
  <2> QED BY <2>1 DEF Totals
<1>3. ASSUME NEW k \in 1..Len(ms)
      PROVE  Tokens(ms[k]) \in Nat /\ total[k] = total[k - 1] + Tokens(ms[k])
  <2>1. Tokens(ms[k]) \in Nat BY <1>1, TokensFacts DEF IsHistory
  <2>2. k \in 0..Len(ms) /\ k # 0 BY <1>1
  <2> QED BY <2>1, <2>2 DEF Totals
<1> DEFINE S == {k \in Nat : k <= Len(ms) => total[k] \in Nat}
<1>4. 0 \in S BY <1>2
<1>5. ASSUME NEW k \in Nat, k \in S PROVE k + 1 \in S
  <2> SUFFICES ASSUME k + 1 <= Len(ms) PROVE total[k + 1] \in Nat OBVIOUS
  <2>1. k + 1 \in 1..Len(ms) /\ k <= Len(ms) /\ (k + 1) - 1 = k BY <1>1
  <2>2. total[k] \in Nat BY <1>5, <2>1
  <2>3. Tokens(ms[k + 1]) \in Nat /\ total[k + 1] = total[k] + Tokens(ms[k + 1])
    BY <1>3, <2>1
  <2> QED BY <2>2, <2>3
<1> HIDE DEF S
<1>6. Nat \subseteq S BY <1>4, <1>5, Induction
<1>7. \A k \in 0..Len(ms) : total[k] \in Nat BY <1>1, <1>6 DEF S
<1> QED BY <1>2, <1>3, <1>7

\* The count when the message at i changes.
LEMMA CountUpdate ==
    ASSUME NEW ms, NEW r, IsHistory(ms), IsHistory(r), Len(r) = Len(ms),
           NEW i \in 1..Len(ms), \A k \in 1..Len(ms) : k # i => r[k] = ms[k]
    PROVE  CountMessages(r) + Tokens(ms[i]) = CountMessages(ms) + Tokens(r[i])
<1>1. Len(ms) \in Nat BY SeqFacts DEF IsHistory
<1>2. PICK f : Totals(f, ms, Len(ms)) /\ CountMessages(ms) = f[Len(ms)]
  BY <1>1, CountTotals
<1>3. PICK g : Totals(g, r, Len(r)) /\ CountMessages(r) = g[Len(r)]
  BY <1>1, CountTotals
<1>4. PICK n : n = Len(ms) OBVIOUS
<1>5. /\ f[0] = 0 /\ \A k \in 0..n : f[k] \in Nat
      /\ \A k \in 1..n : Tokens(ms[k]) \in Nat /\ f[k] = f[k - 1] + Tokens(ms[k])
  BY <1>2, <1>4, TotalsFacts
<1>6. /\ g[0] = 0 /\ \A k \in 0..n : g[k] \in Nat
      /\ \A k \in 1..n : Tokens(r[k]) \in Nat /\ g[k] = g[k - 1] + Tokens(r[k])
  <2>1. /\ g[0] = 0 /\ \A k \in 0..Len(r) : g[k] \in Nat
        /\ \A k \in 1..Len(r) : Tokens(r[k]) \in Nat /\ g[k] = g[k - 1] + Tokens(r[k])
    BY <1>3, TotalsFacts
  <2> QED BY <1>4, <2>1
<1>7. n \in Nat /\ i \in 1..n BY <1>1, <1>4
<1>8. PICK x : x = Tokens(ms[i]) OBVIOUS
<1>9. PICK y : y = Tokens(r[i]) OBVIOUS
<1>10. x \in Nat /\ y \in Nat BY <1>5, <1>6, <1>7, <1>8, <1>9
<1> DEFINE S == {k \in Nat : k <= n => IF k < i THEN g[k] = f[k] ELSE g[k] + x = f[k] + y}
<1>11. 0 \in S BY <1>5, <1>6, <1>7
<1>12. ASSUME NEW k \in Nat, k \in S PROVE k + 1 \in S
  <2> SUFFICES ASSUME k + 1 <= n
               PROVE  IF k + 1 < i THEN g[k + 1] = f[k + 1] ELSE g[k + 1] + x = f[k + 1] + y
    OBVIOUS
  <2>1. k + 1 \in 1..n /\ k <= n /\ (k + 1) - 1 = k /\ k \in 0..n BY <1>7
  <2>2. PICK a : a = Tokens(ms[k + 1]) OBVIOUS
  <2>3. PICK b : b = Tokens(r[k + 1]) OBVIOUS
  <2>4. /\ a \in Nat /\ b \in Nat /\ f[k] \in Nat /\ g[k] \in Nat
        /\ f[k + 1] = f[k] + a /\ g[k + 1] = g[k] + b
    BY <1>5, <1>6, <2>1, <2>2, <2>3
  <2>5. IF k < i THEN g[k] = f[k] ELSE g[k] + x = f[k] + y BY <1>12, <2>1
  <2>6. k + 1 # i => a = b
    <3>1. k + 1 # i => r[k + 1] = ms[k + 1] BY <1>4, <2>1
    <3> QED BY <2>2, <2>3, <3>1
  <2>7. k + 1 = i => a = x /\ b = y BY <1>8, <1>9, <2>2, <2>3
  <2>8. CASE k + 1 < i BY <1>7, <2>4, <2>5, <2>6, <2>8
  <2>9. CASE k + 1 = i
    <3>1. a = x /\ b = y /\ g[k] = f[k] BY <1>7, <2>5, <2>7, <2>9
    <3>2. g[k + 1] + x = f[k + 1] + y BY <1>10, <2>4, <3>1
    <3> QED BY <1>7, <2>9, <3>2
  <2>10. CASE i < k + 1
    <3>1. ~(k < i) /\ ~(k + 1 < i) BY <1>7, <2>10
    <3>2. g[k] + x = f[k] + y /\ a = b BY <1>7, <2>5, <2>6, <2>10, <3>1
    <3>3. PICK u : u = g[k] OBVIOUS
    <3>4. PICK v : v = f[k] OBVIOUS
    <3>5. /\ u \in Nat /\ v \in Nat /\ a \in Nat /\ b = a /\ u + x = v + y
          /\ g[k + 1] = u + a /\ f[k + 1] = v + a
      BY <2>4, <3>2, <3>3, <3>4
    <3>6. (u + a) + x = (v + a) + y BY <1>10, <3>5
    <3>7. g[k + 1] + x = f[k + 1] + y BY <3>5, <3>6
    <3> QED BY <3>1, <3>7
  <2> QED BY <1>7, <2>8, <2>9, <2>10
<1> HIDE DEF S
<1>13. n \in S BY <1>7, <1>11, <1>12, Induction
<1>14. ~(n < i) /\ n <= n BY <1>7
<1>15. g[n] + x = f[n] + y BY <1>13, <1>14 DEF S
<1> QED BY <1>2, <1>3, <1>4, <1>8, <1>9, <1>15

-----------------------------------------------------------------------------
(* What cutting keeps of a message, and how far it goes *)

\* The same message, but for the length of a text that is not empty.
Kin(a, b) ==
    /\ a.role = b.role /\ a.kind = b.kind /\ a.skill = b.skill
    /\ a.calls = b.calls /\ a.reply = b.reply /\ a.error = b.error
    /\ a.size = 0 <=> b.size = 0

LEMMA CutTextKin ==
    ASSUME NEW m, Shaped(m), NEW overflow \in Nat, overflow # 0, m.size # 0, NEW c,
           c = CutText(m, overflow)
    PROVE  /\ Kin(m, c)
           /\ IF overflow < m.size THEN c.size = m.size - overflow ELSE c.size = 1
<1>1. /\ DOMAIN m = {"role", "kind", "skill", "calls", "reply", "error",
                     "runtime", "size", "cut"}
      /\ m.size \in Nat
  BY DEF Shaped, IsMessage
<1>2. CASE overflow < m.size
  <2>1. c = [m EXCEPT !.size = @ - overflow, !.cut = TRUE] BY <1>2 DEF CutText
  <2>2. /\ c.size = m.size - overflow
        /\ c.role = m.role /\ c.calls = m.calls /\ c.reply = m.reply /\ c.kind = m.kind
        /\ c.skill = m.skill /\ c.error = m.error
    BY <1>1, <2>1
  <2>3. c.size # 0 BY <1>1, <1>2, <2>2
  <2> QED BY <1>2, <2>2, <2>3 DEF Kin
<1>3. CASE ~(overflow < m.size)
  <2>1. c = [m EXCEPT !.size = 1, !.cut = TRUE, !.runtime = FALSE] BY <1>3 DEF CutText
  <2>2. /\ c.size = 1
        /\ c.role = m.role /\ c.calls = m.calls /\ c.reply = m.reply /\ c.kind = m.kind
        /\ c.skill = m.skill /\ c.error = m.error
    BY <1>1, <2>1
  <2> QED BY <1>3, <2>2 DEF Kin
<1> QED BY <1>2, <1>3

KinAll(a, b) == Len(a) = Len(b) /\ \A k \in 1..Len(a) : Kin(a[k], b[k])

LEMMA KinSelf == ASSUME NEW a PROVE KinAll(a, a)
BY DEF KinAll, Kin

LEMMA KinTrans ==
    ASSUME NEW a, NEW b, NEW c, KinAll(a, b), KinAll(b, c)
    PROVE  KinAll(a, c)
BY DEF KinAll, Kin

\* A text that is cut brings the messages down to the budget, or is gone but for a marker.
LEMMA CutAtKin ==
    ASSUME NEW ms, IsHistory(ms), NEW i \in 1..Len(ms), NEW r, r = CutAt(ms, i)
    PROVE  /\ IsHistory(r) /\ KinAll(ms, r)
           /\ CountMessages(ms) <= Budget => r = ms
           /\ CountMessages(r) <= Budget \/ r[i].size <= 1
           /\ \A k \in 1..Len(ms) : k # i => r[k] = ms[k]
<1>1. IsSeq(ms) /\ Len(ms) \in Nat /\ DOMAIN ms = 1..Len(ms) BY SeqFacts DEF IsHistory
<1>2. PICK overflow : overflow = CountMessages(ms) - Budget OBVIOUS
<1>3. CountMessages(ms) \in Nat /\ Budget \in Nat BY CountFacts, ContextAssumption
<1>4. overflow \in Int BY <1>2, <1>3
<1>5. i \in DOMAIN ms BY <1>1
<1>6. /\ IsHistory(r) /\ Len(r) = Len(ms)
      /\ \A k \in 1..Len(ms) : k # i => r[k] = ms[k]
  BY <1>5, CutAtFacts
<1>7. Shaped(ms[i]) /\ ms[i].size \in Nat BY <1>5 DEF IsHistory, Shaped, IsMessage
<1>8. CASE overflow <= 0 \/ ms[i].size = 0
  <2>1. r = ms BY <1>2, <1>8 DEF CutAt
  <2>2. CountMessages(r) <= Budget \/ r[i].size <= 1
    <3>1. overflow <= 0 => CountMessages(ms) <= Budget BY <1>2, <1>3
    <3>2. ms[i].size = 0 => ms[i].size <= 1 OBVIOUS
    <3> QED BY <1>8, <2>1, <3>1, <3>2
  <2> QED BY <1>6, <2>1, <2>2, KinSelf
<1>9. CASE ~(overflow <= 0 \/ ms[i].size = 0)
  <2>1. overflow \in Nat /\ overflow # 0 /\ ms[i].size # 0 BY <1>4, <1>9
  <2>2. PICK m : m = ms[i] OBVIOUS
  <2>3. PICK c : c = CutText(m, overflow) OBVIOUS
  <2>4. Shaped(m) /\ m.size # 0 /\ m.size \in Nat BY <1>7, <2>1, <2>2
  <2>5. Kin(m, c) BY <2>1, <2>3, <2>4, CutTextKin
  <2>6. IF overflow < m.size THEN c.size = m.size - overflow ELSE c.size = 1
    BY <2>1, <2>3, <2>4, CutTextKin
  <2>7. r = [ms EXCEPT ![i] = c] BY <1>2, <1>9, <2>2, <2>3 DEF CutAt
  <2>8. r[i] = c BY <1>1, <1>5, <2>7
  <2>9. KinAll(ms, r)
    <3>1. \A k \in 1..Len(ms) : k # i => Kin(ms[k], r[k]) BY <1>6 DEF Kin
    <3>2. Kin(ms[i], r[i]) BY <2>2, <2>5, <2>8
    <3>3. \A k \in 1..Len(ms) : Kin(ms[k], r[k]) BY <3>1, <3>2
    <3> QED BY <1>6, <3>3 DEF KinAll
  <2>10. ~(CountMessages(ms) <= Budget) BY <1>2, <1>3, <2>1
  <2>11. CountMessages(r) <= Budget \/ r[i].size <= 1
    <3>1. CASE overflow < m.size
      <4>1. CountMessages(r) + Tokens(ms[i]) = CountMessages(ms) + Tokens(r[i])
        BY <1>6, CountUpdate
      <4>2. PICK l : l = Len(m.calls) OBVIOUS
      <4>3. l \in Nat BY <2>4, <4>2, SeqFacts DEF Shaped
      <4>4. Tokens(ms[i]) = 1 + m.size + l BY <2>2, <4>2 DEF Tokens
      <4>5. c.calls = m.calls BY <2>5 DEF Kin
      <4>6. Tokens(r[i]) = 1 + c.size + l BY <2>8, <4>2, <4>5 DEF Tokens
      <4>7. c.size = m.size - overflow BY <2>6, <3>1
      <4>8. PICK x : x = CountMessages(r) OBVIOUS
      <4>9. x \in Nat BY <1>6, <4>8, CountFacts
      <4>10. PICK y : y = CountMessages(ms) OBVIOUS
      <4>11. PICK z : z = m.size OBVIOUS
      <4>12. x + (1 + z + l) = y + (1 + (z - overflow) + l)
        BY <4>1, <4>4, <4>6, <4>7, <4>8, <4>10, <4>11
      <4>13. y \in Nat /\ z \in Nat /\ overflow = y - Budget BY <1>2, <1>3, <2>4, <4>10, <4>11
      <4>14. x = Budget BY <1>3, <4>3, <4>9, <4>12, <4>13
      <4> QED BY <1>3, <4>8, <4>14
    <3>2. CASE ~(overflow < m.size) BY <2>6, <2>8, <3>2
    <3> QED BY <3>1, <3>2
  <2> QED BY <1>6, <2>9, <2>10, <2>11
<1> QED BY <1>8, <1>9

LEMMA CutTextsKin ==
    ASSUME NEW ms, IsHistory(ms), NEW r, r = CutTexts(ms)
    PROVE  /\ IsHistory(r) /\ KinAll(ms, r)
           /\ CountMessages(ms) <= Budget => r = ms
           /\ CountMessages(r) <= Budget \/ \A k \in 1..Len(r) : r[k].size <= 1
<1>1. IsSeq(ms) /\ Len(ms) \in Nat /\ DOMAIN ms = 1..Len(ms) BY SeqFacts DEF IsHistory
<1>2. PICK cut : Cuts(cut, ms, Len(ms)) /\ r = cut[Len(ms)] BY <1>1, CutTextsCuts
<1> DEFINE Low(c, i) == CountMessages(c) <= Budget \/ \A k \in 1..i : c[k].size <= 1
           Kept(c, i) == /\ IsHistory(c) /\ KinAll(ms, c)
                         /\ CountMessages(ms) <= Budget => c = ms
                         /\ Low(c, i)
           S == {i \in Nat : i \in 0..Len(ms) => Kept(cut[i], i)}
<1>3. 0 \in S
  <2>1. cut[0] = ms BY <1>1, <1>2 DEF Cuts
  <2>2. Low(ms, 0) OBVIOUS
  <2>3. Kept(ms, 0) BY <2>2, KinSelf
  <2> QED BY <2>1, <2>3
<1>4. ASSUME NEW i \in Nat, i \in S PROVE i + 1 \in S
  <2> SUFFICES ASSUME i + 1 \in 0..Len(ms) PROVE Kept(cut[i + 1], i + 1) OBVIOUS
  <2>1. i \in 0..Len(ms) /\ i + 1 \in 1..Len(ms) /\ i + 1 # 0 /\ (i + 1) - 1 = i BY <1>1
  <2>2. PICK a : a = cut[i] OBVIOUS
  <2>3. PICK b : b = cut[i + 1] OBVIOUS
  <2>4. PICK j : j = i + 1 OBVIOUS
  <2>5. b = CutAt(a, j) BY <1>2, <2>1, <2>2, <2>3, <2>4 DEF Cuts
  <2>6. Kept(a, i) BY <1>4, <2>1, <2>2
  <2>7. IsHistory(a) /\ Len(a) = Len(ms) /\ j \in 1..Len(a) BY <2>1, <2>4, <2>6 DEF KinAll
  <2>8. /\ IsHistory(b) /\ KinAll(a, b)
        /\ CountMessages(a) <= Budget => b = a
        /\ CountMessages(b) <= Budget \/ b[j].size <= 1
        /\ \A k \in 1..Len(a) : k # j => b[k] = a[k]
    BY <2>5, <2>7, CutAtKin
  <2>9. KinAll(ms, b) BY <2>6, <2>8, KinTrans
  <2>10. CountMessages(ms) <= Budget => b = ms BY <2>6, <2>8
  <2>11. Low(b, j)
    <3>1. CASE CountMessages(a) <= Budget BY <2>8, <3>1
    <3>2. CASE CountMessages(b) <= Budget BY <3>2
    <3>3. CASE ~(CountMessages(a) <= Budget) /\ ~(CountMessages(b) <= Budget)
      <4>1. \A k \in 1..i : a[k].size <= 1 BY <2>6, <3>3
      <4>2. ASSUME NEW k \in 1..j PROVE b[k].size <= 1
        <5>1. CASE k = j BY <2>8, <3>3, <5>1
        <5>2. CASE k # j
          <6>1. k \in 1..i /\ k \in 1..Len(a) BY <1>1, <2>1, <2>4, <2>7, <5>2
          <6>2. b[k] = a[k] BY <2>8, <5>2, <6>1
          <6> QED BY <4>1, <6>1, <6>2
        <5> QED BY <5>1, <5>2
      <4> QED BY <4>2
    <3> QED BY <3>1, <3>2, <3>3
  <2> HIDE DEF Low
  <2>12. Kept(b, j) BY <2>8, <2>9, <2>10, <2>11
  <2> QED BY <2>3, <2>4, <2>12
<1> HIDE DEF S
<1>5. Len(ms) \in S BY <1>1, <1>3, <1>4, Induction
<1>6. Len(ms) \in 0..Len(ms) BY <1>1
<1>7. Kept(cut[Len(ms)], Len(ms)) BY <1>5, <1>6 DEF S
<1>8. Kept(r, Len(ms)) BY <1>2, <1>7
<1>9. Len(r) = Len(ms) BY <1>8 DEF KinAll
<1> QED BY <1>8, <1>9

-----------------------------------------------------------------------------
(* The groups of a history *)

\* A history and its groups.
Grouped(ms, qs) == IsHistory(ms) /\ Tied(ms) /\ MessageGroups(ms) = qs

\* Groups, each of them a history.
AreGroups(qs) ==
    /\ IsSeq(qs)
    /\ \A k \in 1..Len(qs) : IsGroup(qs[k]) /\ IsHistory(qs[k]) /\ Tied(qs[k])

LEMMA GroupedFacts ==
    ASSUME NEW ms, NEW qs, Grouped(ms, qs)
    PROVE  /\ AreGroups(qs)
           /\ \E off : Laid(ms, qs, off)
           /\ Flatten(qs) = ms
<1>1. IsHistory(ms) /\ Tied(ms) /\ qs = MessageGroups(ms) BY DEF Grouped
<1>2. IsSeq(qs) /\ \A g \in 1..Len(qs) : IsHistory(qs[g]) /\ Tied(qs[g])
  BY <1>1, GroupsFacts
<1>3. (\E off : Laid(ms, qs, off)) /\ \A g \in 1..Len(qs) : IsGroup(qs[g])
  BY <1>1, GroupsLaid
<1>4. Flatten(qs) = ms BY <1>1, GroupsFlatten
<1> QED BY <1>2, <1>3, <1>4 DEF AreGroups

LEMMA GroupedFlatten ==
    ASSUME NEW qs, AreGroups(qs)
    PROVE  Grouped(Flatten(qs), qs)
<1>1. /\ IsSeq(qs) /\ \A k \in 1..Len(qs) : IsHistory(qs[k]) /\ Tied(qs[k])
      /\ \A k \in 1..Len(qs) : IsGroup(qs[k])
  BY DEF AreGroups
<1>2. \A k \in 1..Len(qs) : IsSeq(qs[k]) BY <1>1 DEF IsGroup
<1>3. PICK r : r = Flatten(qs) OBVIOUS
<1>4. IsHistory(r) /\ Tied(r) BY <1>1, <1>3, FlattenHistory
<1>5. PICK off : Laid(r, qs, off) BY <1>1, <1>2, <1>3, FlattenLaid
<1>6. MessageGroups(r) = qs BY <1>1, <1>4, <1>5, LaidGroups
<1> QED BY <1>3, <1>4, <1>6 DEF Grouped

LEMMA GroupedConcat ==
    ASSUME NEW a, NEW p, NEW b, NEW q, Grouped(a, p), Grouped(b, q)
    PROVE  Grouped(a \o b, p \o q)
<1>1. PICK c : c = a \o b OBVIOUS
<1>2. PICK qs : qs = p \o q OBVIOUS
<1>3. IsHistory(a) /\ Tied(a) /\ IsHistory(b) /\ Tied(b) /\ IsSeq(a) /\ IsSeq(b)
  BY DEF Grouped, IsHistory
<1>4. IsHistory(c) /\ Tied(c) BY <1>1, <1>3, ConcatHistory, ConcatTied
<1>5. AreGroups(p) /\ AreGroups(q) BY GroupedFacts
<1>6. IsSeq(p) /\ IsSeq(q) BY <1>5 DEF AreGroups
<1>7. PICK o : Laid(a, p, o) BY GroupedFacts
<1>8. PICK u : Laid(b, q, u) BY GroupedFacts
<1>9. PICK off : Laid(c, qs, off) BY <1>1, <1>2, <1>7, <1>8, ConcatLaid
<1>10. ASSUME NEW k \in 1..Len(qs) PROVE IsGroup(qs[k])
  <2>1. /\ Len(p) \in Nat /\ \A i \in 1..Len(p) : qs[i] = p[i]
        /\ \A i \in 1..Len(q) : qs[Len(p) + i] = q[i]
        /\ k \in 1..Len(p) \/ k - Len(p) \in 1..Len(q)
    BY <1>2, <1>6, ConcatFacts
  <2>2. CASE k \in 1..Len(p) BY <1>5, <2>1, <2>2 DEF AreGroups
  <2>3. CASE k - Len(p) \in 1..Len(q)
    <3>1. PICK i : i = k - Len(p) OBVIOUS
    <3>2. i \in 1..Len(q) /\ Len(p) + i = k
      <4>1. k \in Int BY <2>1
      <4> QED BY <2>1, <2>3, <3>1, <4>1
    <3>3. qs[k] = q[i] BY <2>1, <3>2
    <3> QED BY <1>5, <3>2, <3>3 DEF AreGroups
  <2> QED BY <2>1, <2>2, <2>3
<1>11. MessageGroups(c) = qs BY <1>4, <1>9, <1>10, LaidGroups
<1> QED BY <1>1, <1>2, <1>4, <1>11 DEF Grouped

LEMMA SingleSeq ==
    ASSUME NEW e, NEW q, q = <<e>>
    PROVE  IsSeq(q) /\ Len(q) = 1 /\ q[1] = e
<1>1. q \in Seq({e}) OBVIOUS
<1>2. IsSeq(q) BY <1>1, OwnElements
<1> QED BY <1>2

LEMMA GroupedEmpty == Grouped(<<>>, <<>>)
<1>1. PICK q : q = <<>> OBVIOUS
<1>2. IsSeq(q) /\ Len(q) = 0 BY <1>1, EmptyCalls
<1>3. AreGroups(q) BY <1>2 DEF AreGroups
<1>4. Grouped(Flatten(q), q) BY <1>3, GroupedFlatten
<1>5. Flatten(q) = <<>> BY <1>1, <1>2, FlattenFacts
<1> QED BY <1>1, <1>4, <1>5

LEMMA SummaryFacts ==
    /\ Summary.role = "user" /\ Summary.kind = "context_summary" /\ Summary.calls = <<>>
    /\ Summary.size = 1
BY DEF Summary, Text

LEMMA GroupedSummary == Grouped(<<Summary>>, <<<<Summary>>>>)
<1>1. PICK r : r = <<Summary>> OBVIOUS
<1>2. PICK q : q = <<r>> OBVIOUS
<1>3. IsHistory(r) /\ Tied(r) BY <1>1, SummaryHistory
<1>4. IsSeq(r) /\ Len(r) = 1 /\ r[1] = Summary BY <1>1, SingleSeq
<1>5. IsSeq(q) /\ Len(q) = 1 /\ q[1] = r BY <1>2, SingleSeq
<1>6. IsGroup(r) BY <1>4, SummaryFacts DEF IsGroup
<1>7. AreGroups(q)
  <2>1. \A k \in 1..1 : k = 1 OBVIOUS
  <2> QED BY <1>3, <1>5, <1>6, <2>1 DEF AreGroups
<1>8. Grouped(Flatten(q), q) BY <1>7, GroupedFlatten
<1>9. PICK f : Flatten(q) = f[Len(q)] /\ f[1] = q[1]
  <2>1. q # <<>> BY <1>5, SeqFacts
  <2> QED BY <1>5, <2>1, FlattenFacts
<1>10. Flatten(q) = r BY <1>5, <1>9
<1> QED BY <1>1, <1>2, <1>8, <1>10

LEMMA GroupedPick ==
    ASSUME NEW qs, AreGroups(qs), NEW P
    PROVE  Grouped(Flatten(Pick(qs, P)), Pick(qs, P))
<1>1. PICK r : r = Pick(qs, P) OBVIOUS
<1>2. IsSeq(qs) BY DEF AreGroups
<1>3. IsSeq(r) BY <1>1, <1>2, PickFacts
<1>4. PICK at : \A k \in 1..Len(r) : at[k] \in 1..Len(qs) /\ r[k] = qs[at[k]]
  BY <1>1, <1>2, PickFacts
<1>5. \A k \in 1..Len(r) : IsGroup(r[k]) /\ IsHistory(r[k]) /\ Tied(r[k])
  BY <1>4 DEF AreGroups
<1>6. AreGroups(r) BY <1>3, <1>5 DEF AreGroups
<1> QED BY <1>1, <1>6, GroupedFlatten

-----------------------------------------------------------------------------
(* Where the recent groups begin *)

\* As RecentStart does: the greatest of these positions, or the first.
LEMMA GreatestFacts ==
    ASSUME NEW n \in Nat, NEW enough \in SUBSET (1..n), NEW g,
           g = IF enough = {} THEN 1 ELSE CHOOSE x \in enough : \A h \in enough : h <= x
    PROVE  g \in enough \/ g = 1
<1>1. CASE enough = {} BY <1>1
<1>2. CASE enough # {}
  <2>1. PICK T : T = {n - x : x \in enough} OBVIOUS
  <2>2. T \in SUBSET Nat /\ T # {}
    <3>1. ASSUME NEW x \in enough PROVE n - x \in Nat
      <4>1. x \in 1..n OBVIOUS
      <4> QED BY <4>1
    <3>2. PICK x : x \in enough BY <1>2
    <3>3. n - x \in T BY <2>1, <3>2
    <3>4. T \subseteq Nat BY <2>1, <3>1
    <3> QED BY <3>3, <3>4
  <2>3. PICK m \in T : \A l \in T : m <= l BY <2>2, LeastNatural
  <2>4. PICK x \in enough : m = n - x BY <2>1, <2>3
  <2>5. ASSUME NEW h \in enough PROVE h <= x
    <3>1. n - h \in T BY <2>1
    <3>2. n - x <= n - h BY <2>3, <2>4, <3>1
    <3>3. h \in 1..n /\ x \in 1..n OBVIOUS
    <3> QED BY <3>2, <3>3
  <2>6. \E y \in enough : \A h \in enough : h <= y BY <2>5
  <2>7. g = CHOOSE y \in enough : \A h \in enough : h <= y BY <1>2
  <2> QED BY <2>6, <2>7
<1> QED BY <1>1, <1>2

LEMMA RecentFacts ==
    ASSUME NEW groups, IsSeq(groups), NEW recent, recent = RecentStart(groups)
    PROVE  /\ recent \in Nat /\ recent >= 1
           /\ Len(groups) >= 1 => recent <= Len(groups)
           /\ \/ recent = 1
              \/ Len(Flatten(SubSeq(groups, recent, Len(groups)))) >= MinRecent
<1>1. Len(groups) \in Nat /\ DOMAIN groups = 1..Len(groups) BY SeqFacts
<1>2. PICK enough : enough = {g \in DOMAIN groups :
                        Len(Flatten(SubSeq(groups, g, Len(groups)))) >= MinRecent}
  OBVIOUS
<1>3. enough \in SUBSET (1..Len(groups)) BY <1>1, <1>2
<1>4. recent = IF enough = {} THEN 1 ELSE CHOOSE x \in enough : \A h \in enough : h <= x
  BY <1>2 DEF RecentStart
<1>5. recent \in enough \/ recent = 1 BY <1>1, <1>3, <1>4, GreatestFacts
<1>6. recent \in enough => recent \in 1..Len(groups) BY <1>3
<1>7. recent \in enough => Len(Flatten(SubSeq(groups, recent, Len(groups)))) >= MinRecent
  BY <1>2
<1> QED BY <1>1, <1>5, <1>6, <1>7

-----------------------------------------------------------------------------
(* Protected groups are kept *)

\* What replaces the early groups: those with skills, and perhaps a summary.
LEMMA SummarisedGroups ==
    ASSUME NEW ms, NEW groups, Grouped(ms, groups), NEW summaryOk \in BOOLEAN,
           NEW a, a = Summarised(ms, summaryOk),
           NEW recent, recent = RecentStart(groups),
           NEW protected, protected = {g \in 1..(recent - 1) : IsProtected(groups[g])}
    PROVE  \E s : /\ s = <<>> \/ s = <<<<Summary>>>>
                  /\ protected = 1..(recent - 1) => s = <<>>
                  /\ Grouped(a, (Pick(groups, protected) \o s)
                                    \o Pick(groups, recent..Len(groups)))
<1>1. MessageGroups(ms) = groups BY DEF Grouped
<1>2. AreGroups(groups) BY GroupedFacts
<1>3. PICK t : t = IF 1..(recent - 1) # protected /\ summaryOk THEN <<Summary>> ELSE <<>>
  OBVIOUS
<1>4. PICK p : p = Pick(groups, protected) OBVIOUS
<1>5. PICK q : q = Pick(groups, recent..Len(groups)) OBVIOUS
<1>6. a = Flatten(p) \o t \o Flatten(q) BY <1>1, <1>3, <1>4, <1>5 DEF Summarised
<1>7. Grouped(Flatten(p), p) BY <1>2, <1>4, GroupedPick
<1>8. Grouped(Flatten(q), q) BY <1>2, <1>5, GroupedPick
<1>9. PICK s : s = IF 1..(recent - 1) # protected /\ summaryOk THEN <<<<Summary>>>> ELSE <<>>
  OBVIOUS
<1>10. Grouped(t, s)
  <2>1. CASE 1..(recent - 1) # protected /\ summaryOk
    BY <1>3, <1>9, <2>1, GroupedSummary
  <2>2. CASE ~(1..(recent - 1) # protected /\ summaryOk)
    BY <1>3, <1>9, <2>2, GroupedEmpty
  <2> QED BY <2>1, <2>2
<1>11. Grouped(Flatten(p) \o t, p \o s) BY <1>7, <1>10, GroupedConcat
<1>12. Grouped((Flatten(p) \o t) \o Flatten(q), (p \o s) \o q) BY <1>8, <1>11, GroupedConcat
<1>13. s = <<>> \/ s = <<<<Summary>>>> BY <1>9
<1>14. protected = 1..(recent - 1) => s = <<>> BY <1>9
<1> QED BY <1>4, <1>5, <1>6, <1>12, <1>13, <1>14

\* What is left when the first n of these groups are dropped.
WithoutGroups(groups, removable, n) ==
    Flatten(Pick(groups, DOMAIN groups \ {removable[k] : k \in 1..n}))

\* Which groups dropping leaves, and when it stops.
LEMMA DropGroupsKeeps ==
    ASSUME NEW ms, NEW groups, Grouped(ms, groups), NEW b, b = DropGroups(ms)
    PROVE  \E P : /\ P \subseteq 1..Len(groups)
                  /\ Grouped(b, Pick(groups, P))
                  /\ \A g \in 1..Len(groups) :
                        IsProtected(groups[g]) \/ g = Len(groups) => g \in P
                  /\ CountMessages(ms) <= Budget => b = ms
                  /\ \/ CountMessages(b) <= Budget
                     \/ \A g \in P : IsProtected(groups[g]) \/ g = Len(groups)
<1>1. MessageGroups(ms) = groups BY DEF Grouped
<1>2. AreGroups(groups) /\ Flatten(groups) = ms BY GroupedFacts
<1>3. IsSeq(groups) BY <1>2 DEF AreGroups
<1>4. Len(groups) \in Nat /\ DOMAIN groups = 1..Len(groups) BY <1>3, SeqFacts
<1>5. PICK G : G = {g \in 1..(Len(groups) - 1) : ~IsProtected(groups[g])} OBVIOUS
<1>6. PICK removable : removable = Ascending(G, Len(groups)) OBVIOUS
<1>7. /\ IsSeq(removable)
      /\ \A k \in 1..Len(removable) : removable[k] \in G
      /\ \A i \in 1..Len(groups) : i \in G => \E k \in 1..Len(removable) : removable[k] = i
  BY <1>4, <1>6, AscendingFacts
<1>8. Len(removable) \in Nat BY <1>7, SeqFacts
<1>9. PICK fits : fits = {n \in 0..Len(removable) :
                             CountMessages(WithoutGroups(groups, removable, n)) <= Budget}
  OBVIOUS
<1>10. b = IF fits = {} THEN WithoutGroups(groups, removable, Len(removable))
           ELSE WithoutGroups(groups, removable, CHOOSE n \in fits : \A m \in fits : n <= m)
  BY <1>1, <1>5, <1>6, <1>9 DEF DropGroups, WithoutGroups
<1>11. PICK n \in 0..Len(removable) :
          /\ b = WithoutGroups(groups, removable, n)
          /\ n = Len(removable) \/ CountMessages(b) <= Budget
          /\ 0 \in fits => n = 0
  <2>1. CASE fits = {}
    <3>1. Len(removable) \in 0..Len(removable) BY <1>8
    <3> QED BY <1>10, <2>1, <3>1
  <2>2. CASE fits # {}
    <3>1. fits \subseteq 0..Len(removable) BY <1>9
    <3>2. fits \in SUBSET Nat BY <1>8, <3>1
    <3>3. \E m \in fits : \A l \in fits : m <= l BY <2>2, <3>2, LeastNatural
    <3>4. PICK m : m = CHOOSE x \in fits : \A l \in fits : x <= l OBVIOUS
    <3>5. m \in fits /\ \A l \in fits : m <= l BY <3>3, <3>4
    <3>6. b = WithoutGroups(groups, removable, m) BY <1>10, <2>2, <3>4
    <3>7. CountMessages(b) <= Budget BY <1>9, <3>5, <3>6
    <3>8. m \in 0..Len(removable) BY <3>1, <3>5
    <3>9. 0 \in fits => m = 0 BY <3>5, <3>8
    <3> QED BY <3>6, <3>7, <3>8, <3>9
  <2> QED BY <2>1, <2>2
<1>12. PICK R : R = {removable[k] : k \in 1..n} OBVIOUS
<1>13. R \subseteq G
  <2>1. \A k \in 1..n : k \in 1..Len(removable) BY <1>8
  <2> QED BY <1>7, <1>12, <2>1
<1>14. PICK P : P = (DOMAIN groups) \ R OBVIOUS
<1>15. b = Flatten(Pick(groups, P)) BY <1>11, <1>12, <1>14 DEF WithoutGroups
<1>16. Grouped(b, Pick(groups, P)) BY <1>2, <1>15, GroupedPick
<1>17. P \subseteq 1..Len(groups) BY <1>4, <1>14
<1>18. ASSUME NEW g \in 1..Len(groups), IsProtected(groups[g]) \/ g = Len(groups)
       PROVE  g \in P
  <2>1. Len(groups) \notin 1..(Len(groups) - 1) BY <1>4
  <2>2. g \notin G BY <1>5, <1>18, <2>1
  <2> QED BY <1>4, <1>13, <1>14, <2>2
<1>19. ASSUME CountMessages(ms) <= Budget PROVE b = ms
  <2>1. {removable[k] : k \in 1..0} = {} OBVIOUS
  <2>2. (DOMAIN groups) \ {} = DOMAIN groups OBVIOUS
  <2>3. Pick(groups, DOMAIN groups) = groups BY <1>3, PickAll
  <2>4. WithoutGroups(groups, removable, 0) = ms BY <1>2, <2>1, <2>2, <2>3 DEF WithoutGroups
  <2>5. 0 \in 0..Len(removable) BY <1>8
  <2>6. 0 \in fits BY <1>9, <1>19, <2>4, <2>5
  <2> QED BY <1>11, <2>4, <2>6
<1>20. ASSUME ~(CountMessages(b) <= Budget), NEW g \in P
       PROVE  IsProtected(groups[g]) \/ g = Len(groups)
  <2>1. n = Len(removable) BY <1>11, <1>20
  <2>2. g \notin R /\ g \in 1..Len(groups) BY <1>4, <1>14, <1>20
  <2>3. g \notin G
    <3>1. g \in G => \E k \in 1..Len(removable) : removable[k] = g BY <1>7, <2>2
    <3>2. R = {removable[k] : k \in 1..Len(removable)} BY <1>12, <2>1
    <3>3. g \in G => g \in R BY <3>1, <3>2
    <3> QED BY <2>2, <3>3
  <2>4. g = Len(groups) \/ g \in 1..(Len(groups) - 1)
    <3>1. \A n1 \in Nat : \A x \in 1..n1 : x = n1 \/ x \in 1..(n1 - 1) OBVIOUS
    <3>2. Len(groups) \in Nat BY <1>4
    <3> QED BY <2>2, <3>1, <3>2, Zenon
  <2> QED BY <1>5, <2>3, <2>4
<1> QED BY <1>16, <1>17, <1>18, <1>19, <1>20

\* Cutting texts leaves the groups what they are.
LEMMA KinGroups ==
    ASSUME NEW a, NEW p, Grouped(a, p), NEW b, NEW q, Grouped(b, q), KinAll(a, b)
    PROVE  Len(p) = Len(q) /\ \A g \in 1..Len(p) : KinAll(p[g], q[g])
<1>1. /\ IsHistory(a) /\ Tied(a) /\ p = MessageGroups(a)
      /\ IsHistory(b) /\ Tied(b) /\ q = MessageGroups(b)
  BY DEF Grouped
<1>2. /\ IsSeq(a) /\ IsSeq(b) /\ Len(a) \in Nat /\ Len(b) = Len(a)
      /\ \A k \in 1..Len(a) : Kin(a[k], b[k])
  BY <1>1, SeqFacts DEF IsHistory, KinAll
<1>3. PICK s : /\ Begins(s, a) /\ Len(p) = Len(s)
               /\ \A g \in 1..Len(s) : p[g] = SubSeq(a, s[g], GroupEnds(s, a, g))
  BY <1>1, GroupsBegin
<1>4. PICK t : /\ Begins(t, b) /\ Len(q) = Len(t)
               /\ \A g \in 1..Len(t) : q[g] = SubSeq(b, t[g], GroupEnds(t, b, g))
  BY <1>1, GroupsBegin
<1>5. \A k \in 1..Len(a) : a[k].role = b[k].role BY <1>2 DEF Kin
<1>6. s = t
  <2>1. Climbing(s) /\ Climbing(t) BY <1>3, <1>4 DEF Begins
  <2>2. \A k \in 1..Len(s) : \E l \in 1..Len(t) : s[k] = t[l]
    <3> SUFFICES ASSUME NEW k \in 1..Len(s) PROVE \E l \in 1..Len(t) : s[k] = t[l] OBVIOUS
    <3>1. PICK i : i = s[k] OBVIOUS
    <3>2. i \in 1..Len(a) /\ a[i].role # "tool" BY <1>3, <3>1 DEF Begins
    <3>3. i \in 1..Len(b) /\ b[i].role # "tool" BY <1>2, <1>5, <3>2
    <3>4. \E l \in 1..Len(t) : t[l] = i BY <1>4, <3>3 DEF Begins
    <3> QED BY <3>1, <3>4
  <2>3. \A k \in 1..Len(t) : \E l \in 1..Len(s) : t[k] = s[l]
    <3> SUFFICES ASSUME NEW k \in 1..Len(t) PROVE \E l \in 1..Len(s) : t[k] = s[l] OBVIOUS
    <3>1. PICK i : i = t[k] OBVIOUS
    <3>2. i \in 1..Len(b) /\ b[i].role # "tool" BY <1>4, <3>1 DEF Begins
    <3>3. i \in 1..Len(a) /\ a[i].role # "tool" BY <1>2, <1>5, <3>2
    <3>4. \E l \in 1..Len(s) : s[l] = i BY <1>3, <3>3 DEF Begins
    <3> QED BY <3>1, <3>4
  <2> QED BY <2>1, <2>2, <2>3, SameClimb
<1>7. ASSUME NEW g \in 1..Len(p) PROVE KinAll(p[g], q[g])
  <2>1. g \in 1..Len(s) /\ g \in 1..Len(t) BY <1>3, <1>6
  <2>2. PICK m : m = s[g] OBVIOUS
  <2>3. PICK n : n = GroupEnds(s, a, g) OBVIOUS
  <2>4. m \in Nat /\ m \in 1..Len(a) /\ n \in Nat /\ m <= n /\ n <= Len(a)
    BY <1>1, <1>3, <2>1, <2>2, <2>3, BeginsFacts
  <2>5. GroupEnds(t, b, g) = n BY <1>2, <1>6, <2>3 DEF GroupEnds
  <2>6. PICK x : x = p[g] OBVIOUS
  <2>7. PICK y : y = q[g] OBVIOUS
  <2>8. x = SubSeq(a, m, n) BY <1>3, <2>1, <2>2, <2>3, <2>6
  <2>9. y = SubSeq(b, m, n) BY <1>4, <1>6, <2>1, <2>2, <2>5, <2>7
  <2>10. 1 <= m /\ m <= n + 1 /\ n <= Len(b) BY <1>2, <2>4
  <2>11. Len(x) = n - m + 1 BY <1>2, <2>4, <2>8, <2>10, SubSeqFacts
  <2>12. \A i \in 1..(n - m + 1) : x[i] = a[m + i - 1]
    BY <1>2, <2>4, <2>8, <2>10, SubSeqFacts
  <2>13. Len(y) = n - m + 1 BY <1>2, <2>4, <2>9, <2>10, SubSeqFacts
  <2>14. \A i \in 1..(n - m + 1) : y[i] = b[m + i - 1]
    BY <1>2, <2>4, <2>9, <2>10, SubSeqFacts
  <2>15. ASSUME NEW i \in 1..(n - m + 1) PROVE Kin(x[i], y[i])
    <3>1. m + i - 1 \in 1..Len(a) BY <1>2, <2>4
    <3>2. Kin(a[m + i - 1], b[m + i - 1]) BY <1>2, <3>1
    <3> QED BY <2>12, <2>14, <3>2
  <2>16. KinAll(x, y) BY <2>11, <2>13, <2>15 DEF KinAll
  <2> QED BY <2>6, <2>7, <2>16
<1>8. Len(p) = Len(q) BY <1>3, <1>4, <1>6
<1> QED BY <1>7, <1>8

LEMMA KinProtected ==
    ASSUME NEW p, NEW q, IsSeq(p), IsSeq(q), KinAll(p, q)
    PROVE  IsProtected(p) <=> IsProtected(q)
<1>1. DOMAIN p = 1..Len(p) /\ DOMAIN q = 1..Len(p) BY SeqFacts DEF KinAll
<1>2. \A k \in 1..Len(p) : IsInjection(p[k]) <=> IsInjection(q[k])
  BY DEF KinAll, Kin, IsInjection
<1> QED BY <1>1, <1>2 DEF IsProtected

-----------------------------------------------------------------------------
(* The three stages, and the budget *)

\* Compaction in three stages, each a history with its groups.
LEMMA PrepareStages ==
    ASSUME NEW ms, IsHistory(ms), Tied(ms), NEW summaryOk \in BOOLEAN,
           NEW r, r = Prepare(ms, summaryOk), ~(CountMessages(ms) <= Trigger)
    PROVE  \E a, b : /\ a = Summarised(ms, summaryOk) /\ b = DropGroups(a) /\ r = CutTexts(b)
                     /\ IsHistory(a) /\ Tied(a) /\ IsHistory(b) /\ Tied(b)
                     /\ IsHistory(r) /\ Tied(r)
<1>1. PICK a : a = Summarised(ms, summaryOk) OBVIOUS
<1>2. PICK b : b = DropGroups(a) OBVIOUS
<1>3. r = CutTexts(b) BY <1>1, <1>2 DEF Prepare, FitBudget
<1>4. IsHistory(a) /\ Tied(a) BY <1>1, SummarisedHistory
<1>5. IsHistory(b) /\ Tied(b) BY <1>2, <1>4, DropGroupsHistory
<1>6. IsHistory(r) /\ Tied(r) BY PrepareHistory
<1> QED BY <1>1, <1>2, <1>3, <1>4, <1>5, <1>6

\* Over the budget, only the groups with skills and the newest one are left, cut to markers.
LEMMA PrepareBudget ==
    ASSUME NEW ms, IsHistory(ms), Tied(ms), NEW summaryOk \in BOOLEAN,
           NEW r, r = Prepare(ms, summaryOk), ~(CountMessages(r) <= Budget),
           NEW groups, groups = MessageGroups(r)
    PROVE  /\ \A g \in 1..(Len(groups) - 1) : IsProtected(groups[g])
           /\ \A i \in DOMAIN r : r[i].size <= 1
<1>1. ~(CountMessages(ms) <= Trigger)
  <2> SUFFICES ASSUME CountMessages(ms) <= Trigger PROVE FALSE OBVIOUS
  <2>1. r = ms BY DEF Prepare
  <2>2. CountMessages(ms) \in Nat BY CountFacts
  <2>3. Trigger \in Nat /\ Budget \in Nat /\ Trigger <= Budget BY ContextAssumption
  <2>4. CountMessages(r) <= Budget BY <2>1, <2>2, <2>3
  <2> QED BY <2>4
<1>2. PICK a, b : /\ r = CutTexts(b) /\ b = DropGroups(a)
                  /\ IsHistory(a) /\ Tied(a) /\ IsHistory(b) /\ Tied(b)
                  /\ IsHistory(r) /\ Tied(r)
  BY <1>1, PrepareStages
<1>3. KinAll(b, r) /\ (CountMessages(b) <= Budget => r = b)
      /\ \A k \in 1..Len(r) : r[k].size <= 1
  BY <1>2, CutTextsKin
<1>4. ~(CountMessages(b) <= Budget) BY <1>3
<1>5. PICK p : p = MessageGroups(a) OBVIOUS
<1>6. Grouped(a, p) BY <1>2, <1>5 DEF Grouped
<1>7. PICK P : /\ Grouped(b, Pick(p, P))
               /\ \A g \in P : IsProtected(p[g]) \/ g = Len(p)
  BY <1>2, <1>4, <1>6, DropGroupsKeeps
<1>8. PICK q : q = Pick(p, P) OBVIOUS
<1>9. Grouped(b, q) /\ Grouped(r, groups) BY <1>2, <1>7, <1>8 DEF Grouped
<1>10. AreGroups(p) /\ AreGroups(q) /\ AreGroups(groups) BY <1>6, <1>9, GroupedFacts
<1>11. IsSeq(p) /\ IsSeq(q) /\ Len(q) \in Nat /\ Len(p) \in Nat
  BY <1>10, SeqFacts DEF AreGroups
<1>12. PICK at : /\ \A k \in 1..Len(q) : at[k] \in P /\ at[k] \in 1..Len(p) /\ q[k] = p[at[k]]
                 /\ \A k \in 1..Len(q) : \A l \in (k + 1)..Len(q) : at[k] < at[l]
  <2>1. \E at : /\ IsSeq(at) /\ Len(at) = Len(q)
                /\ at = Ascending(P, Len(p))
                /\ \A k \in 1..Len(q) : /\ at[k] \in P /\ at[k] \in 1..Len(p)
                                        /\ q[k] = p[at[k]]
                /\ \A k \in 1..Len(q) : \A l \in (k + 1)..Len(q) : at[k] < at[l]
                /\ \A i \in 1..Len(p) : i \in P => \E k \in 1..Len(q) : at[k] = i
    BY <1>8, <1>11, PickFacts
  <2> QED BY <2>1
<1>13. Len(q) = Len(groups) /\ \A g \in 1..Len(q) : KinAll(q[g], groups[g])
  BY <1>3, <1>9, KinGroups
<1>14. ASSUME NEW g \in 1..(Len(groups) - 1) PROVE IsProtected(groups[g])
  <2>1. PICK n : n = Len(q) OBVIOUS
  <2>2. n \in Nat /\ g \in 1..(n - 1) BY <1>11, <1>13, <2>1
  <2>3. g \in 1..n /\ n \in 1..n /\ n \in (g + 1)..n BY <2>2
  <2>4. PICK x : x = at[g] OBVIOUS
  <2>5. PICK y : y = at[n] OBVIOUS
  <2>6. x \in P /\ x \in 1..Len(p) /\ y \in 1..Len(p) /\ x < y /\ q[g] = p[x]
    BY <1>12, <2>1, <2>3, <2>4, <2>5
  <2>7. x # Len(p) BY <1>11, <2>6
  <2>8. IsProtected(q[g]) BY <1>7, <2>6, <2>7
  <2>9. PICK u : u = q[g] OBVIOUS
  <2>10. PICK v : v = groups[g] OBVIOUS
  <2>11. g \in 1..Len(q) /\ g \in 1..Len(groups) BY <1>13, <2>1, <2>3
  <2>12. KinAll(u, v) BY <1>13, <2>9, <2>10, <2>11
  <2>13. IsSeq(u) /\ IsSeq(v) BY <1>10, <2>9, <2>10, <2>11 DEF AreGroups, IsGroup
  <2> QED BY <2>8, <2>9, <2>10, <2>12, <2>13, KinProtected
<1>15. DOMAIN r = 1..Len(r) BY <1>2, SeqFacts DEF IsHistory
<1> QED BY <1>3, <1>14, <1>15

-----------------------------------------------------------------------------
(* Skills brought along *)

\* The skills' instructions in r are those in ms, in their order: s tells where each came from.
Brought(r, ms, s) ==
    /\ \A i \in 1..Len(r) : IsInjection(r[i]) => s[i] \in 1..Len(ms) /\ Kin(ms[s[i]], r[i])
    /\ \A i \in 1..Len(r) : \A j \in 1..Len(r) :
          IsInjection(r[i]) /\ IsInjection(r[j]) /\ i < j => s[i] < s[j]
    /\ \A n \in 1..Len(ms) : IsInjection(ms[n]) =>
          \E i \in 1..Len(r) : IsInjection(r[i]) /\ s[i] = n

LEMMA KinInjection ==
    ASSUME NEW a, NEW b, Kin(a, b)
    PROVE  IsInjection(a) <=> IsInjection(b)
BY DEF Kin, IsInjection

LEMMA BroughtKin ==
    ASSUME NEW ms, NEW r, KinAll(ms, r)
    PROVE  \E s : Brought(r, ms, s)
<1>1. PICK s : s = [i \in 1..Len(r) |-> i] OBVIOUS
<1>2. Len(r) = Len(ms) /\ \A i \in 1..Len(r) : s[i] = i /\ Kin(ms[i], r[i])
  BY <1>1 DEF KinAll
<1>3. \A i \in 1..Len(r) : IsInjection(ms[i]) <=> IsInjection(r[i]) BY <1>2, KinInjection
<1>4. Brought(r, ms, s) BY <1>2, <1>3 DEF Brought
<1> QED BY <1>4

LEMMA BroughtTrans ==
    ASSUME NEW a, NEW b, NEW c, NEW s, NEW t, Brought(b, a, s), Brought(c, b, t)
    PROVE  \E u : Brought(c, a, u)
<1>1. PICK u : u = [i \in 1..Len(c) |-> s[t[i]]] OBVIOUS
<1>2. \A i \in 1..Len(c) : u[i] = s[t[i]] BY <1>1
<1>3. ASSUME NEW i \in 1..Len(c), IsInjection(c[i])
      PROVE  /\ t[i] \in 1..Len(b) /\ IsInjection(b[t[i]])
             /\ u[i] \in 1..Len(a) /\ Kin(a[u[i]], c[i])
  <2>1. t[i] \in 1..Len(b) /\ Kin(b[t[i]], c[i]) BY <1>3 DEF Brought
  <2>2. IsInjection(b[t[i]]) BY <1>3, <2>1, KinInjection
  <2>3. s[t[i]] \in 1..Len(a) /\ Kin(a[s[t[i]]], b[t[i]]) BY <2>1, <2>2 DEF Brought
  <2>4. Kin(a[s[t[i]]], c[i]) BY <2>1, <2>3 DEF Kin
  <2> QED BY <1>2, <2>1, <2>2, <2>3, <2>4
<1>4. ASSUME NEW i \in 1..Len(c), NEW j \in 1..Len(c), IsInjection(c[i]), IsInjection(c[j]),
             i < j
      PROVE  u[i] < u[j]
  <2>1. t[i] < t[j] BY <1>4 DEF Brought
  <2>2. s[t[i]] < s[t[j]] BY <1>3, <1>4, <2>1 DEF Brought
  <2> QED BY <1>2, <2>2
<1>5. ASSUME NEW n \in 1..Len(a), IsInjection(a[n])
      PROVE  \E i \in 1..Len(c) : IsInjection(c[i]) /\ u[i] = n
  <2>1. PICK j \in 1..Len(b) : IsInjection(b[j]) /\ s[j] = n BY <1>5 DEF Brought
  <2>2. PICK i \in 1..Len(c) : IsInjection(c[i]) /\ t[i] = j BY <2>1 DEF Brought
  <2> QED BY <1>2, <2>1, <2>2
<1>6. Brought(c, a, u) BY <1>3, <1>4, <1>5 DEF Brought
<1> QED BY <1>6

\* The same for the groups that hold them, those of K.
Sourced(ps, qs, src, K) ==
    /\ \A l \in 1..Len(ps) : IsProtected(ps[l]) =>
          src[l] \in K /\ src[l] \in 1..Len(qs) /\ ps[l] = qs[src[l]]
    /\ \A l \in 1..Len(ps) : \A m \in 1..Len(ps) :
          IsProtected(ps[l]) /\ IsProtected(ps[m]) /\ l < m => src[l] < src[m]
    /\ \A k \in K : k \in 1..Len(qs) /\ IsProtected(qs[k]) =>
          \E l \in 1..Len(ps) : IsProtected(ps[l]) /\ src[l] = k

\* Where a message of the group l stands.
Covers(o, qs, l, i) == l \in 1..Len(qs) /\ o[l] < i /\ i <= o[l + 1]

LEMMA AtFacts ==
    ASSUME NEW r, NEW qs, NEW o, Laid(r, qs, o), NEW i \in 1..Len(r), NEW l, Covers(o, qs, l, i)
    PROVE  /\ l \in Nat /\ o[l] \in Nat /\ i - o[l] \in 1..Len(qs[l])
           /\ r[i] = qs[l][i - o[l]]
           /\ IsInjection(r[i]) => IsProtected(qs[l])
<1>1. l \in 1..Len(qs) /\ o[l] < i /\ i <= o[l + 1] BY DEF Covers
<1>2. /\ Len(r) \in Nat /\ Len(qs) \in Nat
      /\ IsSeq(qs[l]) /\ Len(qs[l]) \in Nat /\ o[l] \in Nat
      /\ o[l + 1] = o[l] + Len(qs[l])
      /\ \A n \in 1..Len(qs[l]) : r[o[l] + n] = qs[l][n]
  BY <1>1, LaidFacts
<1>3. PICK q : q = qs[l] OBVIOUS
<1>4. PICK x : x = o[l] OBVIOUS
<1>5. PICK n : n = i - x OBVIOUS
<1>6. x \in Nat /\ i \in Nat /\ x < i /\ i <= x + Len(q) /\ Len(q) \in Nat
  BY <1>1, <1>2, <1>3, <1>4
<1>7. n \in 1..Len(q) /\ x + n = i BY <1>5, <1>6
<1>8. r[i] = q[n] BY <1>2, <1>3, <1>4, <1>7
<1>9. DOMAIN q = 1..Len(q) BY <1>2, <1>3, SeqFacts
<1>10. IsInjection(r[i]) => IsProtected(q) BY <1>7, <1>8, <1>9 DEF IsProtected
<1>11. l \in Nat BY <1>1, <1>2
<1> QED BY <1>3, <1>4, <1>5, <1>6, <1>7, <1>8, <1>10, <1>11

\* Two groups in order, and a message of each.
LEMMA AtOrder ==
    ASSUME NEW r, NEW qs, NEW o, Laid(r, qs, o), NEW i \in 1..Len(r), NEW j \in 1..Len(r),
           NEW l, NEW m, Covers(o, qs, l, i), Covers(o, qs, m, j)
    PROVE  /\ l < m => i < j
           /\ i < j => l <= m
<1>1. /\ l \in 1..Len(qs) /\ m \in 1..Len(qs)
      /\ o[l] < i /\ i <= o[l + 1] /\ o[m] < j /\ j <= o[m + 1]
  BY DEF Covers
<1>2. /\ Len(r) \in Nat /\ Len(qs) \in Nat
      /\ o[l] \in Nat /\ o[m] \in Nat /\ o[l + 1] \in Nat /\ o[m + 1] \in Nat
  BY <1>1, LaidFacts
<1>3. l < m => o[l + 1] <= o[m] BY <1>1, OffsetsClimb
<1>4. m < l => o[m + 1] <= o[l] BY <1>1, OffsetsClimb
<1>5. PICK a : a = o[l] OBVIOUS
<1>6. PICK b : b = o[l + 1] OBVIOUS
<1>7. PICK c : c = o[m] OBVIOUS
<1>8. PICK d : d = o[m + 1] OBVIOUS
<1>9. /\ a \in Nat /\ b \in Nat /\ c \in Nat /\ d \in Nat
      /\ a < i /\ i <= b /\ c < j /\ j <= d
      /\ l \in Nat /\ m \in Nat /\ i \in Nat /\ j \in Nat
  BY <1>1, <1>2, <1>5, <1>6, <1>7, <1>8
<1>10. l < m => i < j
  <2> SUFFICES ASSUME l < m PROVE i < j OBVIOUS
  <2>1. b <= c BY <1>3, <1>6, <1>7
  <2> QED BY <1>9, <2>1
<1>11. i < j => l <= m
  <2> SUFFICES ASSUME m < l PROVE ~(i < j)
    BY <1>9
  <2>1. d <= a BY <1>4, <1>5, <1>8
  <2> QED BY <1>9, <2>1
<1> QED BY <1>10, <1>11

-----------------------------------------------------------------------------
(* Skills of groups, brought along *)

\* The n-th message of the group l.
LEMMA AtPosition ==
    ASSUME NEW r, NEW qs, NEW o, Laid(r, qs, o), NEW l \in 1..Len(qs),
           NEW n \in 1..Len(qs[l]), NEW i, i = o[l] + n
    PROVE  /\ i \in 1..Len(r) /\ Covers(o, qs, l, i) /\ r[i] = qs[l][n]
           /\ o[l] \in Nat /\ i - o[l] = n
<1>1. /\ Len(r) \in Nat /\ Len(qs[l]) \in Nat /\ o[l] \in Nat
      /\ o[l + 1] = o[l] + Len(qs[l]) /\ o[l + 1] <= Len(r)
      /\ \A m \in 1..Len(qs[l]) : r[o[l] + m] = qs[l][m]
  BY LaidFacts
<1>2. PICK x : x = o[l] OBVIOUS
<1>3. PICK y : y = o[l + 1] OBVIOUS
<1>4. PICK q : q = qs[l] OBVIOUS
<1>5. x \in Nat /\ y = x + Len(q) /\ y <= Len(r) /\ Len(q) \in Nat /\ Len(r) \in Nat
      /\ n \in 1..Len(q) /\ i = x + n
  BY <1>1, <1>2, <1>3, <1>4
<1>6. i \in 1..Len(r) /\ x < i /\ i <= y /\ i - x = n BY <1>5
<1>7. r[i] = q[n] BY <1>1, <1>2, <1>4, <1>5
<1>8. Covers(o, qs, l, i) BY <1>2, <1>3, <1>6 DEF Covers
<1> QED BY <1>2, <1>4, <1>5, <1>6, <1>7, <1>8

LEMMA AtExists ==
    ASSUME NEW r, NEW qs, NEW o, Laid(r, qs, o), NEW i \in 1..Len(r)
    PROVE  \E l : Covers(o, qs, l, i)
<1>1. PICK l \in 1..Len(qs) : o[l] < i /\ i <= o[l + 1] BY Located
<1> QED BY <1>1 DEF Covers

LEMMA SourcedBrought ==
    ASSUME NEW r, NEW ps, NEW o, Laid(r, ps, o), NEW ms, NEW qs, NEW u, Laid(ms, qs, u),
           NEW src, Sourced(ps, qs, src, 1..Len(qs))
    PROVE  \E s : Brought(r, ms, s)
<1>1. PICK loc : loc = [i \in 1..Len(r) |-> CHOOSE l : Covers(o, ps, l, i)] OBVIOUS
<1>2. ASSUME NEW i \in 1..Len(r) PROVE Covers(o, ps, loc[i], i)
  <2>1. \E l : Covers(o, ps, l, i) BY AtExists
  <2>2. loc[i] = CHOOSE l : Covers(o, ps, l, i) BY <1>1
  <2> QED BY <2>1, <2>2
<1>3. PICK s : s = [i \in 1..Len(r) |-> u[src[loc[i]]] + (i - o[loc[i]])] OBVIOUS
<1>4. \A i \in 1..Len(r) : s[i] = u[src[loc[i]]] + (i - o[loc[i]]) BY <1>3
<1>5. ASSUME NEW i \in 1..Len(r), IsInjection(r[i])
      PROVE  /\ loc[i] \in 1..Len(ps) /\ IsProtected(ps[loc[i]])
             /\ s[i] \in 1..Len(ms) /\ ms[s[i]] = r[i]
             /\ Covers(u, qs, src[loc[i]], s[i])
             /\ u[src[loc[i]]] \in Nat
  <2>1. PICK l : l = loc[i] OBVIOUS
  <2>2. Covers(o, ps, l, i) BY <1>2, <2>1
  <2>3. /\ i - o[l] \in 1..Len(ps[l]) /\ r[i] = ps[l][i - o[l]]
        /\ IsInjection(r[i]) => IsProtected(ps[l])
    BY <2>2, AtFacts
  <2>4. l \in 1..Len(ps) /\ IsProtected(ps[l]) BY <1>5, <2>2, <2>3 DEF Covers
  <2>5. PICK k : k = src[l] OBVIOUS
  <2>6. k \in 1..Len(qs) /\ ps[l] = qs[k] BY <2>4, <2>5 DEF Sourced
  <2>7. PICK n : n = i - o[l] OBVIOUS
  <2>8. n \in 1..Len(qs[k]) /\ r[i] = qs[k][n] BY <2>3, <2>6, <2>7
  <2>9. PICK j : j = u[k] + n OBVIOUS
  <2>10. j \in 1..Len(ms) /\ Covers(u, qs, k, j) /\ ms[j] = qs[k][n] /\ u[k] \in Nat
    <3>1. k \in 1..Len(qs) /\ n \in 1..Len(qs[k]) BY <2>6, <2>8
    <3>2. j \in 1..Len(ms) BY <2>9, <3>1, AtPosition
    <3>3. Covers(u, qs, k, j) BY <2>9, <3>1, AtPosition
    <3>4. ms[j] = qs[k][n]
      <4>1. \A m \in 1..Len(qs[k]) : ms[u[k] + m] = qs[k][m] BY <3>1, LaidFacts
      <4> QED BY <2>9, <3>1, <4>1
    <3>5. u[k] \in Nat BY <2>9, <3>1, AtPosition
    <3> QED BY <3>2, <3>3, <3>4, <3>5
  <2>11. s[i] = j BY <1>4, <2>1, <2>5, <2>7, <2>9
  <2> QED BY <2>1, <2>4, <2>5, <2>8, <2>10, <2>11
<1>6. ASSUME NEW i \in 1..Len(r), NEW j \in 1..Len(r), IsInjection(r[i]), IsInjection(r[j]),
             i < j
      PROVE  s[i] < s[j]
  <2>1. PICK l : l = loc[i] OBVIOUS
  <2>2. PICK m : m = loc[j] OBVIOUS
  <2>3. l <= m
    <3>1. Covers(o, ps, l, i) /\ Covers(o, ps, m, j) BY <1>2, <2>1, <2>2
    <3> QED BY <1>6, <3>1, AtOrder
  <2>4. /\ l \in 1..Len(ps) /\ IsProtected(ps[l]) /\ m \in 1..Len(ps) /\ IsProtected(ps[m])
        /\ s[i] \in 1..Len(ms) /\ s[j] \in 1..Len(ms)
        /\ Covers(u, qs, src[l], s[i]) /\ Covers(u, qs, src[m], s[j])
        /\ u[src[l]] \in Nat
    BY <1>5, <1>6, <2>1, <2>2
  <2>5. CASE l < m
    <3>1. src[l] < src[m] BY <2>4, <2>5 DEF Sourced
    <3> QED BY <2>4, <3>1, AtOrder
  <2>6. CASE l = m
    <3>1. PICK x : x = u[src[l]] OBVIOUS
    <3>2. PICK y : y = o[l] OBVIOUS
    <3>3. s[i] = x + (i - y) /\ s[j] = x + (j - y) BY <1>4, <2>1, <2>2, <2>6, <3>1, <3>2
    <3>4. y \in Nat
      <4>1. Covers(o, ps, l, i) BY <1>2, <2>1
      <4> QED BY <3>2, <4>1, AtFacts
    <3>5. i \in Int /\ j \in Int /\ x \in Nat BY <2>4, <3>1
    <3>6. x + (i - y) < x + (j - y) BY <1>6, <3>4, <3>5
    <3> QED BY <3>3, <3>6
  <2>7. l < m \/ l = m
    <3>1. Len(ps) \in Nat BY LaidFacts
    <3>2. l \in Nat /\ m \in Nat BY <2>4, <3>1
    <3> QED BY <2>3, <3>2
  <2> QED BY <2>5, <2>6, <2>7
<1>7. ASSUME NEW n \in 1..Len(ms), IsInjection(ms[n])
      PROVE  \E i \in 1..Len(r) : IsInjection(r[i]) /\ s[i] = n
  <2>1. PICK k : Covers(u, qs, k, n) BY AtExists
  <2>2. /\ n - u[k] \in 1..Len(qs[k]) /\ ms[n] = qs[k][n - u[k]] /\ u[k] \in Nat
        /\ IsInjection(ms[n]) => IsProtected(qs[k])
    BY <2>1, AtFacts
  <2>3. k \in 1..Len(qs) /\ IsProtected(qs[k]) BY <1>7, <2>1, <2>2 DEF Covers
  <2>4. PICK l \in 1..Len(ps) : IsProtected(ps[l]) /\ src[l] = k BY <2>3 DEF Sourced
  <2>5. ps[l] = qs[k] BY <2>4 DEF Sourced
  <2>6. PICK d : d = n - u[k] OBVIOUS
  <2>7. d \in 1..Len(ps[l]) BY <2>2, <2>5, <2>6
  <2>8. PICK i : i = o[l] + d OBVIOUS
  <2>9. i \in 1..Len(r) /\ Covers(o, ps, l, i) /\ r[i] = ps[l][d] /\ i - o[l] = d
    <3>1. l \in 1..Len(ps) OBVIOUS
    <3>2. i \in 1..Len(r) BY <2>7, <2>8, <3>1, AtPosition
    <3>3. Covers(o, ps, l, i) BY <2>7, <2>8, <3>1, AtPosition
    <3>4. r[i] = ps[l][d]
      <4>1. \A m \in 1..Len(ps[l]) : r[o[l] + m] = ps[l][m] BY <3>1, LaidFacts
      <4> QED BY <2>7, <2>8, <4>1
    <3>5. i - o[l] = d BY <2>7, <2>8, <3>1, AtPosition
    <3> QED BY <3>2, <3>3, <3>4, <3>5
  <2>10. r[i] = ms[n] BY <2>2, <2>5, <2>6, <2>9
  <2>11. loc[i] = l
    <3>1. Covers(o, ps, loc[i], i) BY <1>2, <2>9
    <3>2. PICK m : m = loc[i] OBVIOUS
    <3>3. m \in 1..Len(ps) /\ o[m] < i /\ i <= o[m + 1] BY <3>1, <3>2 DEF Covers
    <3>4. l \in 1..Len(ps) /\ o[l] < i /\ i <= o[l + 1] BY <2>9 DEF Covers
    <3>5. Len(r) \in Nat BY LaidFacts
    <3>6. i \in Nat BY <2>9, <3>5
    <3>7. m = l BY <3>3, <3>4, <3>6, LocatedOnce
    <3> QED BY <3>2, <3>7
  <2>12. s[i] = u[k] + d BY <1>4, <2>4, <2>9, <2>11
  <2>13. s[i] = n
    <3>1. PICK x : x = u[k] OBVIOUS
    <3>2. x \in Nat /\ d = n - x /\ s[i] = x + d BY <2>2, <2>6, <2>12, <3>1
    <3>3. x + (n - x) = n BY <3>2
    <3> QED BY <3>2, <3>3
  <2> QED BY <1>7, <2>9, <2>10, <2>13
<1>8. \A i \in 1..Len(r) : IsInjection(r[i]) =>
        s[i] \in 1..Len(ms) /\ Kin(ms[s[i]], r[i])
  BY <1>5 DEF Kin
<1>9. Brought(r, ms, s) BY <1>6, <1>7, <1>8 DEF Brought
<1> QED BY <1>9

-----------------------------------------------------------------------------
(* Picked groups, joined *)

\* Groups picked so that none with skills among those of K is left out.
LEMMA PickSourced ==
    ASSUME NEW qs, IsSeq(qs), NEW P, NEW K, NEW ps, ps = Pick(qs, P), P \subseteq K,
           \A k \in K : k \in 1..Len(qs) /\ IsProtected(qs[k]) => k \in P
    PROVE  \E src : Sourced(ps, qs, src, K)
<1>1. \E at : /\ IsSeq(at) /\ Len(at) = Len(ps)
              /\ at = Ascending(P, Len(qs))
              /\ \A k \in 1..Len(ps) : /\ at[k] \in P /\ at[k] \in 1..Len(qs)
                                      /\ ps[k] = qs[at[k]]
              /\ \A k \in 1..Len(ps) : \A l \in (k + 1)..Len(ps) : at[k] < at[l]
              /\ \A i \in 1..Len(qs) : i \in P => \E k \in 1..Len(ps) : at[k] = i
  BY PickFacts
<1>2. PICK at : /\ \A k \in 1..Len(ps) : /\ at[k] \in P /\ at[k] \in 1..Len(qs)
                                         /\ ps[k] = qs[at[k]]
                /\ \A k \in 1..Len(ps) : \A l \in (k + 1)..Len(ps) : at[k] < at[l]
                /\ \A i \in 1..Len(qs) : i \in P => \E k \in 1..Len(ps) : at[k] = i
  BY <1>1
<1>3. Len(ps) \in Nat
  <2>1. IsSeq(ps) BY PickFacts
  <2> QED BY <2>1, SeqFacts
<1>4. ASSUME NEW l \in 1..Len(ps), NEW m \in 1..Len(ps), l < m PROVE at[l] < at[m]
  <2>1. m \in (l + 1)..Len(ps) BY <1>3, <1>4
  <2> QED BY <1>2, <2>1
<1>5. \A l \in 1..Len(ps) : at[l] \in K /\ at[l] \in 1..Len(qs) /\ ps[l] = qs[at[l]]
  BY <1>2
<1>6. ASSUME NEW k \in K, k \in 1..Len(qs), IsProtected(qs[k])
      PROVE  \E l \in 1..Len(ps) : IsProtected(ps[l]) /\ at[l] = k
  <2>1. k \in P BY <1>6
  <2>2. PICK l \in 1..Len(ps) : at[l] = k BY <1>2, <1>6, <2>1
  <2>3. ps[l] = qs[k] BY <1>2, <2>2
  <2> QED BY <1>6, <2>2, <2>3
<1>7. Sourced(ps, qs, at, K) BY <1>4, <1>5, <1>6 DEF Sourced
<1> QED BY <1>7

\* Groups from K, then groups from behind K.
LEMMA ConcatSourced ==
    ASSUME NEW qs, IsSeq(qs), NEW p, NEW q, IsSeq(p), IsSeq(q), NEW ps, ps = p \o q,
           NEW K, NEW L, NEW s, NEW t, Sourced(p, qs, s, K), Sourced(q, qs, t, L),
           \A k \in K : \A l \in L : k < l
    PROVE  \E src : Sourced(ps, qs, src, K \cup L)
<1>1. /\ Len(p) \in Nat /\ Len(q) \in Nat /\ Len(ps) = Len(p) + Len(q)
      /\ \A i \in 1..Len(p) : ps[i] = p[i]
      /\ \A i \in 1..Len(q) : ps[Len(p) + i] = q[i]
      /\ \A k \in 1..Len(ps) : k \in 1..Len(p) \/ k - Len(p) \in 1..Len(q)
  BY ConcatFacts
<1>2. PICK n : n = Len(p) OBVIOUS
<1>3. PICK src : src = [l \in 1..Len(ps) |-> IF l <= n THEN s[l] ELSE t[l - n]] OBVIOUS
<1>4. n \in Nat /\ Len(ps) \in Nat BY <1>1, <1>2
<1>5. ASSUME NEW l \in 1..n PROVE l \in 1..Len(ps) /\ src[l] = s[l] /\ ps[l] = p[l]
  <2>1. l \in 1..Len(ps) /\ l <= n BY <1>1, <1>2
  <2> QED BY <1>1, <1>2, <1>3, <2>1
<1>6. ASSUME NEW l \in 1..Len(q)
      PROVE  n + l \in 1..Len(ps) /\ src[n + l] = t[l] /\ ps[n + l] = q[l]
  <2>1. PICK m : m = n + l OBVIOUS
  <2>2. m \in 1..Len(ps) /\ ~(m <= n) /\ m - n = l
    <3>1. l \in 1..Len(q) /\ Len(q) \in Nat BY <1>1
    <3> QED BY <1>1, <1>2, <1>4, <2>1, <3>1
  <2>3. src[m] = t[l] BY <1>3, <2>2
  <2>4. ps[n + l] = q[l] BY <1>1, <1>2
  <2> QED BY <2>1, <2>2, <2>3, <2>4
<1>7. ASSUME NEW l \in 1..Len(ps)
      PROVE  \/ l \in 1..n
             \/ \E m \in 1..Len(q) : l = n + m
  <2>1. CASE l \in 1..Len(p) BY <1>2, <2>1
  <2>2. CASE l - Len(p) \in 1..Len(q)
    <3>1. l = n + (l - n) BY <1>4
    <3> QED BY <1>2, <2>2, <3>1
  <2> QED BY <1>1, <2>1, <2>2
<1>8. ASSUME NEW l \in 1..Len(ps), IsProtected(ps[l])
      PROVE  /\ src[l] \in K \cup L /\ src[l] \in 1..Len(qs) /\ ps[l] = qs[src[l]]
             /\ l \in 1..n => src[l] \in K
             /\ l \notin 1..n => src[l] \in L
  <2>1. CASE l \in 1..n
    <3>1. src[l] = s[l] /\ ps[l] = p[l] /\ l \in 1..Len(p) BY <1>2, <1>5, <2>1
    <3>2. s[l] \in K /\ s[l] \in 1..Len(qs) /\ p[l] = qs[s[l]] BY <1>8, <3>1 DEF Sourced
    <3> QED BY <2>1, <3>1, <3>2
  <2>2. CASE l \notin 1..n
    <3>1. PICK m \in 1..Len(q) : l = n + m BY <1>7, <2>2
    <3>2. src[l] = t[m] /\ ps[l] = q[m] BY <1>6, <3>1
    <3>3. t[m] \in L /\ t[m] \in 1..Len(qs) /\ q[m] = qs[t[m]] BY <1>8, <3>2 DEF Sourced
    <3> QED BY <2>2, <3>2, <3>3
  <2> QED BY <2>1, <2>2
<1>9. ASSUME NEW l \in 1..Len(ps), NEW m \in 1..Len(ps), IsProtected(ps[l]),
             IsProtected(ps[m]), l < m
      PROVE  src[l] < src[m]
  <2>1. CASE m \in 1..n
    <3>1. l \in 1..n BY <1>4, <1>9, <2>1
    <3>2. l \in 1..Len(p) /\ m \in 1..Len(p) BY <1>2, <2>1, <3>1
    <3>3. src[l] = s[l] /\ ps[l] = p[l] BY <1>5, <3>1
    <3>4. src[m] = s[m] /\ ps[m] = p[m] BY <1>5, <2>1
    <3>5. s[l] < s[m] BY <1>9, <3>2, <3>3, <3>4 DEF Sourced
    <3> QED BY <3>3, <3>4, <3>5
  <2>2. CASE m \notin 1..n /\ l \in 1..n
    <3>1. src[l] \in K BY <1>8, <1>9, <2>2
    <3>2. src[m] \in L BY <1>8, <1>9, <2>2
    <3> QED BY <3>1, <3>2
  <2>3. CASE m \notin 1..n /\ l \notin 1..n
    <3>1. PICK i \in 1..Len(q) : l = n + i BY <1>7, <2>3
    <3>2. PICK j \in 1..Len(q) : m = n + j BY <1>7, <2>3
    <3>3. i < j
      <4>1. i \in Nat /\ j \in Nat BY <1>1
      <4> QED BY <1>4, <1>9, <3>1, <3>2, <4>1
    <3>4. src[l] = t[i] /\ ps[l] = q[i] BY <1>6, <3>1
    <3>5. src[m] = t[j] /\ ps[m] = q[j] BY <1>6, <3>2
    <3>6. t[i] < t[j] BY <1>9, <3>3, <3>4, <3>5 DEF Sourced
    <3> QED BY <3>4, <3>5, <3>6
  <2> QED BY <2>1, <2>2, <2>3
<1>10. ASSUME NEW k \in K \cup L, k \in 1..Len(qs), IsProtected(qs[k])
       PROVE  \E l \in 1..Len(ps) : IsProtected(ps[l]) /\ src[l] = k
  <2>1. CASE k \in K
    <3>1. PICK l \in 1..Len(p) : IsProtected(p[l]) /\ s[l] = k BY <1>10, <2>1 DEF Sourced
    <3>2. l \in 1..n BY <1>2
    <3>3. l \in 1..Len(ps) /\ src[l] = s[l] /\ ps[l] = p[l] BY <1>5, <3>2
    <3> QED BY <3>1, <3>3
  <2>2. CASE k \in L
    <3>1. PICK l \in 1..Len(q) : IsProtected(q[l]) /\ t[l] = k BY <1>10, <2>2 DEF Sourced
    <3>2. n + l \in 1..Len(ps) /\ src[n + l] = t[l] /\ ps[n + l] = q[l] BY <1>6
    <3> QED BY <3>1, <3>2
  <2> QED BY <1>10, <2>1, <2>2
<1>11. Sourced(ps, qs, src, K \cup L) BY <1>8, <1>9, <1>10 DEF Sourced
<1> QED BY <1>11

-----------------------------------------------------------------------------
(* What prepare keeps *)

LEMMA PickLast ==
    ASSUME NEW qs, IsSeq(qs), NEW P, NEW ps, ps = Pick(qs, P), Len(qs) >= 1, Len(qs) \in P
    PROVE  Len(ps) >= 1 /\ ps[Len(ps)] = qs[Len(qs)]
<1>1. \E at : /\ IsSeq(at) /\ Len(at) = Len(ps)
              /\ at = Ascending(P, Len(qs))
              /\ \A k \in 1..Len(ps) : /\ at[k] \in P /\ at[k] \in 1..Len(qs)
                                      /\ ps[k] = qs[at[k]]
              /\ \A k \in 1..Len(ps) : \A l \in (k + 1)..Len(ps) : at[k] < at[l]
              /\ \A i \in 1..Len(qs) : i \in P => \E k \in 1..Len(ps) : at[k] = i
  BY PickFacts
<1>2. PICK at : /\ \A k \in 1..Len(ps) : at[k] \in 1..Len(qs) /\ ps[k] = qs[at[k]]
                /\ \A k \in 1..Len(ps) : \A l \in (k + 1)..Len(ps) : at[k] < at[l]
                /\ \A i \in 1..Len(qs) : i \in P => \E k \in 1..Len(ps) : at[k] = i
  BY <1>1
<1>3. IsSeq(ps) BY PickFacts
<1>4. Len(ps) \in Nat /\ Len(qs) \in Nat BY <1>3, SeqFacts
<1>5. Len(qs) \in 1..Len(qs) BY <1>4
<1>6. PICK k \in 1..Len(ps) : at[k] = Len(qs) BY <1>2, <1>5
<1>7. k = Len(ps)
  <2> SUFFICES ASSUME k # Len(ps) PROVE FALSE OBVIOUS
  <2>1. PICK n : n = Len(ps) OBVIOUS
  <2>2. k \in 1..n /\ n \in (k + 1)..n /\ n \in 1..n BY <1>4, <2>1
  <2>3. at[k] < at[n] /\ at[n] \in 1..Len(qs) BY <1>2, <2>1, <2>2
  <2> QED BY <1>4, <1>6, <2>3
<1>8. ps[k] = qs[at[k]] BY <1>2
<1>9. Len(ps) >= 1 BY <1>4, <1>6
<1> QED BY <1>6, <1>7, <1>8, <1>9

LEMMA ConcatLast ==
    ASSUME NEW p, NEW q, IsSeq(p), IsSeq(q), NEW ps, ps = p \o q, Len(q) >= 1
    PROVE  Len(ps) >= 1 /\ ps[Len(ps)] = q[Len(q)]
<1>1. /\ Len(p) \in Nat /\ Len(q) \in Nat /\ Len(ps) = Len(p) + Len(q)
      /\ \A i \in 1..Len(q) : ps[Len(p) + i] = q[i]
  BY ConcatFacts
<1>2. PICK n : n = Len(q) OBVIOUS
<1>3. n \in 1..Len(q) BY <1>1, <1>2
<1>4. ps[Len(p) + n] = q[n] BY <1>1, <1>3
<1> QED BY <1>1, <1>2, <1>3, <1>4

\* The groups of r come from those of ms: the ones with skills are all there, in order, and
\* the newest one is the same.
KeptGroups(ps, qs) ==
    /\ \E src : Sourced(ps, qs, src, 1..Len(qs))
    /\ Len(qs) >= 1 => Len(ps) >= 1 /\ ps[Len(ps)] = qs[Len(qs)]

LEMMA SummaryUnprotected == ~IsProtected(<<Summary>>)
<1>1. PICK q : q = <<Summary>> OBVIOUS
<1>2. IsSeq(q) /\ Len(q) = 1 /\ q[1] = Summary BY <1>1, SingleSeq
<1>3. DOMAIN q = 1..1 BY <1>2, SeqFacts
<1>4. \A i \in DOMAIN q : q[i] = Summary BY <1>2, <1>3
<1>5. Summary.kind # "skill_injection" BY SummaryFacts
<1> QED BY <1>1, <1>4, <1>5 DEF IsProtected, IsInjection

LEMMA SummarisedKept ==
    ASSUME NEW ms, NEW qs, Grouped(ms, qs), NEW summaryOk \in BOOLEAN,
           NEW a, a = Summarised(ms, summaryOk)
    PROVE  \E ps : Grouped(a, ps) /\ KeptGroups(ps, qs)
<1>1. AreGroups(qs) BY GroupedFacts
<1>2. IsSeq(qs) BY <1>1 DEF AreGroups
<1>3. Len(qs) \in Nat BY <1>2, SeqFacts
<1>4. PICK recent : recent = RecentStart(qs) OBVIOUS
<1>5. recent \in Nat /\ recent >= 1 /\ (Len(qs) >= 1 => recent <= Len(qs))
      /\ (Len(qs) = 0 => recent = 1)
  <2>1. recent \in Nat /\ recent >= 1 BY <1>2, <1>4, RecentFacts
  <2>2. Len(qs) >= 1 => recent <= Len(qs) BY <1>2, <1>4, RecentFacts
  <2>3. Len(qs) = 0 => recent = 1
    <3> SUFFICES ASSUME Len(qs) = 0 PROVE recent = 1 OBVIOUS
    <3>1. DOMAIN qs = {} BY <1>2, SeqFacts
    <3> QED BY <1>4, <3>1 DEF RecentStart
  <2> QED BY <2>1, <2>2, <2>3
<1>6. PICK protected : protected = {g \in 1..(recent - 1) : IsProtected(qs[g])} OBVIOUS
<1>7. PICK s : /\ s = <<>> \/ s = <<<<Summary>>>>
               /\ Grouped(a, (Pick(qs, protected) \o s) \o Pick(qs, recent..Len(qs)))
  BY <1>4, <1>6, SummarisedGroups
<1>8. PICK p : p = Pick(qs, protected) OBVIOUS
<1>9. PICK q : q = Pick(qs, recent..Len(qs)) OBVIOUS
<1>10. PICK t : t = p \o s OBVIOUS
<1>11. PICK ps : ps = t \o q OBVIOUS
<1>12. Grouped(a, ps) BY <1>7, <1>8, <1>9, <1>10, <1>11
<1>13. IsSeq(p) /\ IsSeq(q) BY <1>2, <1>8, <1>9, PickFacts
<1>14. IsSeq(s) /\ \A l \in 1..Len(s) : ~IsProtected(s[l])
  <2>1. CASE s = <<>>
    <3>1. IsSeq(s) BY <2>1, EmptyCalls
    <3>2. Len(s) = 0 BY <2>1, <3>1, SeqFacts
    <3> QED BY <3>1, <3>2
  <2>2. CASE s = <<<<Summary>>>>
    <3>1. PICK e : e = <<Summary>> OBVIOUS
    <3>2. IsSeq(s) /\ Len(s) = 1 /\ s[1] = e BY <2>2, <3>1, SingleSeq
    <3>3. ~IsProtected(s[1]) BY <3>1, <3>2, SummaryUnprotected
    <3>4. \A l \in 1..1 : l = 1 OBVIOUS
    <3> QED BY <3>2, <3>3, <3>4
  <2> QED BY <1>7, <2>1, <2>2
<1>15. PICK s1 : Sourced(p, qs, s1, 1..(recent - 1))
  <2>1. protected \subseteq 1..(recent - 1) BY <1>6
  <2>2. \A k \in 1..(recent - 1) : k \in 1..Len(qs) /\ IsProtected(qs[k]) => k \in protected
    BY <1>6
  <2> QED BY <1>2, <1>8, <2>1, <2>2, PickSourced
<1>16. Sourced(s, qs, s1, {}) BY <1>14 DEF Sourced
<1>17. PICK s2 : Sourced(q, qs, s2, recent..Len(qs)) BY <1>2, <1>9, PickSourced
<1>18. IsSeq(t) BY <1>10, <1>13, <1>14, ConcatFacts
<1>19. PICK s3 : Sourced(t, qs, s3, 1..(recent - 1))
  <2>1. (1..(recent - 1)) \cup {} = 1..(recent - 1) OBVIOUS
  <2>2. \A k \in 1..(recent - 1) : \A l \in {} : k < l OBVIOUS
  <2>3. \E x : Sourced(t, qs, x, (1..(recent - 1)) \cup {})
    BY <1>2, <1>10, <1>13, <1>14, <1>15, <1>16, <2>2, ConcatSourced
  <2> QED BY <2>1, <2>3
<1>20. PICK src : Sourced(ps, qs, src, 1..Len(qs))
  <2>1. (1..(recent - 1)) \cup (recent..Len(qs)) = 1..Len(qs) BY <1>3, <1>5
  <2>2. \A k \in 1..(recent - 1) : \A l \in recent..Len(qs) : k < l BY <1>3, <1>5
  <2>3. \E x : Sourced(ps, qs, x, (1..(recent - 1)) \cup (recent..Len(qs)))
    BY <1>2, <1>11, <1>13, <1>17, <1>18, <1>19, <2>2, ConcatSourced
  <2> QED BY <2>1, <2>3
<1>21. ASSUME Len(qs) >= 1 PROVE Len(ps) >= 1 /\ ps[Len(ps)] = qs[Len(qs)]
  <2>1. Len(qs) \in recent..Len(qs) BY <1>3, <1>5, <1>21
  <2>2. Len(q) >= 1 /\ q[Len(q)] = qs[Len(qs)] BY <1>2, <1>9, <1>21, <2>1, PickLast
  <2>3. Len(ps) >= 1 /\ ps[Len(ps)] = q[Len(q)] BY <1>11, <1>13, <1>18, <2>2, ConcatLast
  <2> QED BY <2>2, <2>3
<1>22. KeptGroups(ps, qs) BY <1>20, <1>21 DEF KeptGroups
<1> QED BY <1>12, <1>22

LEMMA DropGroupsKept ==
    ASSUME NEW ms, NEW qs, Grouped(ms, qs), NEW b, b = DropGroups(ms)
    PROVE  \E ps : Grouped(b, ps) /\ KeptGroups(ps, qs)
<1>1. AreGroups(qs) BY GroupedFacts
<1>2. IsSeq(qs) BY <1>1 DEF AreGroups
<1>3. Len(qs) \in Nat BY <1>2, SeqFacts
<1>4. PICK P : /\ P \subseteq 1..Len(qs)
               /\ Grouped(b, Pick(qs, P))
               /\ \A g \in 1..Len(qs) : IsProtected(qs[g]) \/ g = Len(qs) => g \in P
  BY DropGroupsKeeps
<1>5. PICK ps : ps = Pick(qs, P) OBVIOUS
<1>6. \E src : Sourced(ps, qs, src, 1..Len(qs)) BY <1>2, <1>4, <1>5, PickSourced
<1>7. ASSUME Len(qs) >= 1 PROVE Len(ps) >= 1 /\ ps[Len(ps)] = qs[Len(qs)]
  <2>1. Len(qs) \in 1..Len(qs) BY <1>3, <1>7
  <2>2. Len(qs) \in P BY <1>4, <2>1
  <2> QED BY <1>2, <1>5, <1>7, <2>2, PickLast
<1>8. KeptGroups(ps, qs) BY <1>6, <1>7 DEF KeptGroups
<1> QED BY <1>4, <1>5, <1>8

LEMMA KeptBrought ==
    ASSUME NEW r, NEW ps, Grouped(r, ps), NEW ms, NEW qs, Grouped(ms, qs), KeptGroups(ps, qs)
    PROVE  \E s : Brought(r, ms, s)
<1>1. PICK o : Laid(r, ps, o) BY GroupedFacts
<1>2. PICK u : Laid(ms, qs, u) BY GroupedFacts
<1>3. PICK src : Sourced(ps, qs, src, 1..Len(qs)) BY DEF KeptGroups
<1> QED BY <1>1, <1>2, <1>3, SourcedBrought

\* Compaction keeps the skills, and of the newest group all but the length of its texts.
LEMMA PrepareKeeps ==
    ASSUME NEW ms, NEW qs, Grouped(ms, qs), NEW summaryOk \in BOOLEAN,
           NEW r, r = Prepare(ms, summaryOk), NEW gs, gs = MessageGroups(r)
    PROVE  /\ Grouped(r, gs)
           /\ \E s : Brought(r, ms, s)
           /\ Len(qs) >= 1 => Len(gs) >= 1 /\ KinAll(qs[Len(qs)], gs[Len(gs)])
<1>1. IsHistory(ms) /\ Tied(ms) /\ qs = MessageGroups(ms) BY DEF Grouped
<1>2. IsHistory(r) /\ Tied(r) BY <1>1, PrepareHistory
<1>3. Grouped(r, gs) BY <1>2 DEF Grouped
<1>4. CASE CountMessages(ms) <= Trigger
  <2>1. r = ms /\ gs = qs BY <1>1, <1>4 DEF Prepare
  <2>2. KinAll(ms, r) BY <2>1, KinSelf
  <2>3. \E s : Brought(r, ms, s) BY <2>2, BroughtKin
  <2>4. KinAll(qs[Len(qs)], gs[Len(gs)]) BY <2>1, KinSelf
  <2> QED BY <1>3, <2>1, <2>3, <2>4
<1>5. CASE ~(CountMessages(ms) <= Trigger)
  <2>1. PICK a : a = Summarised(ms, summaryOk) OBVIOUS
  <2>2. PICK b : b = DropGroups(a) OBVIOUS
  <2>3. r = CutTexts(b) BY <1>5, <2>1, <2>2 DEF Prepare, FitBudget
  <2>4. PICK as : Grouped(a, as) /\ KeptGroups(as, qs) BY <2>1, SummarisedKept
  <2>5. PICK bs : Grouped(b, bs) /\ KeptGroups(bs, as) BY <2>2, <2>4, DropGroupsKept
  <2>6. PICK s : Brought(a, ms, s) BY <2>4, KeptBrought
  <2>7. PICK t : Brought(b, a, t) BY <2>4, <2>5, KeptBrought
  <2>8. PICK u : Brought(b, ms, u) BY <2>6, <2>7, BroughtTrans
  <2>9. IsHistory(b) BY <2>5 DEF Grouped
  <2>10. KinAll(b, r) BY <2>3, <2>9, CutTextsKin
  <2>11. PICK v : Brought(r, b, v) BY <2>10, BroughtKin
  <2>12. \E w : Brought(r, ms, w) BY <2>8, <2>11, BroughtTrans
  <2>13. Len(bs) = Len(gs) /\ \A g \in 1..Len(bs) : KinAll(bs[g], gs[g])
    BY <1>3, <2>5, <2>10, KinGroups
  <2>14. ASSUME Len(qs) >= 1
         PROVE  Len(gs) >= 1 /\ KinAll(qs[Len(qs)], gs[Len(gs)])
    <3>1. Len(as) >= 1 /\ as[Len(as)] = qs[Len(qs)] BY <2>4, <2>14 DEF KeptGroups
    <3>2. Len(bs) >= 1 /\ bs[Len(bs)] = qs[Len(qs)] BY <2>5, <3>1 DEF KeptGroups
    <3>3. AreGroups(bs) BY <2>5, GroupedFacts
    <3>4. Len(bs) \in Nat BY <3>3, SeqFacts DEF AreGroups
    <3>5. Len(bs) \in 1..Len(bs) BY <3>2, <3>4
    <3>6. KinAll(bs[Len(bs)], gs[Len(gs)]) BY <2>13, <3>5
    <3> QED BY <2>13, <3>2, <3>6
  <2> QED BY <1>3, <2>12, <2>14
<1> QED BY <1>4, <1>5

-----------------------------------------------------------------------------
(* What a tail counts *)

LEMMA CountConcat ==
    ASSUME NEW a, NEW b, IsHistory(a), IsHistory(b), NEW c, c = a \o b
    PROVE  CountMessages(c) = CountMessages(a) + CountMessages(b)
<1>1. IsSeq(a) /\ IsSeq(b) BY DEF IsHistory
<1>2. /\ Len(a) \in Nat /\ Len(b) \in Nat /\ Len(c) = Len(a) + Len(b)
      /\ \A i \in 1..Len(a) : c[i] = a[i]
      /\ \A i \in 1..Len(b) : c[Len(a) + i] = b[i]
  BY <1>1, ConcatFacts
<1>3. IsHistory(c) BY ConcatHistory
<1>4. PICK l : l = Len(a) OBVIOUS
<1>5. PICK m : m = Len(b) OBVIOUS
<1>6. l \in Nat /\ m \in Nat /\ Len(c) = l + m BY <1>2, <1>4, <1>5
<1>7. PICK f : Totals(f, a, Len(a)) /\ CountMessages(a) = f[Len(a)] BY <1>2, CountTotals
<1>8. PICK g : Totals(g, b, Len(b)) /\ CountMessages(b) = g[Len(b)] BY <1>2, CountTotals
<1>9. PICK h : Totals(h, c, Len(c)) /\ CountMessages(c) = h[Len(c)]
  <2>1. Len(c) \in Nat BY <1>6
  <2> QED BY <2>1, CountTotals
<1>10. /\ f[0] = 0 /\ \A k \in 0..l : f[k] \in Nat
       /\ \A k \in 1..l : Tokens(a[k]) \in Nat /\ f[k] = f[k - 1] + Tokens(a[k])
  BY <1>4, <1>7, TotalsFacts
<1>11. /\ g[0] = 0 /\ \A k \in 0..m : g[k] \in Nat
       /\ \A k \in 1..m : Tokens(b[k]) \in Nat /\ g[k] = g[k - 1] + Tokens(b[k])
  BY <1>5, <1>8, TotalsFacts
<1>12. /\ h[0] = 0
       /\ \A k \in 1..(l + m) : h[k] = h[k - 1] + Tokens(c[k])
  <2>1. /\ h[0] = 0
        /\ \A k \in 1..Len(c) : Tokens(c[k]) \in Nat /\ h[k] = h[k - 1] + Tokens(c[k])
    BY <1>3, <1>9, TotalsFacts
  <2> QED BY <1>6, <2>1
<1> DEFINE S == {k \in Nat : k <= l => h[k] = f[k]}
<1>13. 0 \in S BY <1>10, <1>12
<1>14. ASSUME NEW k \in Nat, k \in S PROVE k + 1 \in S
  <2> SUFFICES ASSUME k + 1 <= l PROVE h[k + 1] = f[k + 1] OBVIOUS
  <2>1. k + 1 \in 1..l /\ k + 1 \in 1..(l + m) /\ k <= l /\ (k + 1) - 1 = k BY <1>6
  <2>2. h[k] = f[k] BY <1>14, <2>1
  <2>3. h[k + 1] = h[k] + Tokens(c[k + 1]) BY <1>12, <2>1
  <2>4. f[k + 1] = f[k] + Tokens(a[k + 1]) BY <1>10, <2>1
  <2>5. c[k + 1] = a[k + 1] BY <1>2, <1>4, <2>1
  <2> QED BY <2>2, <2>3, <2>4, <2>5
<1> HIDE DEF S
<1>15. l \in S BY <1>6, <1>13, <1>14, Induction
<1>16. h[l] = f[l]
  <2>1. l <= l BY <1>6
  <2> QED BY <1>15, <2>1 DEF S
<1> DEFINE T == {k \in Nat : k <= m => h[l + k] = f[l] + g[k]}
<1>17. f[l] \in Nat
  <2>1. l \in 0..l BY <1>6
  <2> QED BY <1>10, <2>1
<1>18. 0 \in T
  <2>1. l + 0 = l BY <1>6
  <2>2. f[l] + g[0] = f[l] BY <1>11, <1>17
  <2> QED BY <1>16, <2>1, <2>2
<1>19. ASSUME NEW k \in Nat, k \in T PROVE k + 1 \in T
  <2> SUFFICES ASSUME k + 1 <= m PROVE h[l + (k + 1)] = f[l] + g[k + 1] OBVIOUS
  <2>1. PICK n : n = l + (k + 1) OBVIOUS
  <2>2. /\ k + 1 \in 1..m /\ n \in 1..(l + m) /\ k <= m /\ (k + 1) - 1 = k
        /\ n - 1 = l + k /\ k \in 0..m
    BY <1>6, <2>1
  <2>3. h[l + k] = f[l] + g[k] BY <1>19, <2>2
  <2>4. h[n] = h[l + k] + Tokens(c[n]) BY <1>12, <2>2
  <2>5. PICK t : t = Tokens(b[k + 1]) OBVIOUS
  <2>6. g[k + 1] = g[k] + t /\ t \in Nat /\ g[k] \in Nat BY <1>11, <2>2, <2>5
  <2>7. c[n] = b[k + 1] BY <1>2, <1>4, <1>5, <2>1, <2>2
  <2>8. PICK u : u = g[k] OBVIOUS
  <2>9. PICK v : v = f[l] OBVIOUS
  <2>10. h[n] = (v + u) + t BY <2>3, <2>4, <2>5, <2>7, <2>8, <2>9
  <2>11. (v + u) + t = v + (u + t) BY <1>17, <2>6, <2>8, <2>9
  <2> QED BY <2>1, <2>6, <2>8, <2>9, <2>10, <2>11
<1> HIDE DEF T
<1>20. m \in T BY <1>6, <1>18, <1>19, Induction
<1>21. h[l + m] = f[l] + g[m]
  <2>1. m <= m BY <1>6
  <2> QED BY <1>20, <2>1 DEF T
<1> QED BY <1>4, <1>5, <1>6, <1>7, <1>8, <1>9, <1>21

\* The last of a sequence, picked or cut out.
LEMMA PickFrom ==
    ASSUME NEW q, IsSeq(q), NEW m \in 1..Len(q), NEW r, r = SubSeq(q, m, Len(q))
    PROVE  Pick(q, m..Len(q)) = r
<1>1. PICK n : n = Len(q) OBVIOUS
<1>2. n \in Nat /\ m \in Nat /\ 1 <= m /\ m <= n
  <2>1. Len(q) \in Nat BY SeqFacts
  <2> QED BY <1>1, <2>1
<1>3. PICK l : l = n - m + 1 OBVIOUS
<1>4. l \in Nat BY <1>2, <1>3
<1>5. PICK a : a = Ascending(m..n, n) OBVIOUS
<1>6. PICK b : b = [k \in 1..l |-> m + k - 1] OBVIOUS
<1>7. /\ IsSeq(a)
      /\ \A k \in 1..Len(a) : a[k] \in m..n
      /\ \A i \in 1..n : i \in m..n => \E k \in 1..Len(a) : a[k] = i
  <2>1. PICK P : P = m..n OBVIOUS
  <2>2. a = Ascending(P, n) BY <1>5, <2>1
  <2>3. /\ IsSeq(a)
        /\ \A k \in 1..Len(a) : a[k] \in P /\ a[k] \in 1..n
        /\ \A k \in 1..Len(a) : \A j \in (k + 1)..Len(a) : a[k] < a[j]
        /\ \A i \in 1..n : i \in P => \E k \in 1..Len(a) : a[k] = i
    BY <1>2, <2>2, AscendingFacts
  <2> QED BY <2>1, <2>3
<1>8. Climbing(a) BY <1>2, <1>5, AscendingClimbing
<1>9. \A k \in 1..l : b[k] = m + k - 1 BY <1>6
<1>10. IsSeq(b) /\ Len(b) = l
  <2>1. b = [k \in 1..l |-> b[k]] BY <1>6
  <2> QED BY <1>4, <2>1, FunctionFacts
<1>11. Climbing(b)
  <2>1. \A k \in 1..l : b[k] \in Nat BY <1>2, <1>4, <1>9
  <2>2. ASSUME NEW k \in 1..l, NEW j \in 1..l, k < j PROVE b[k] < b[j]
    <3>1. b[k] = m + k - 1 /\ b[j] = m + j - 1 BY <1>9
    <3> QED BY <1>2, <1>4, <2>2, <3>1
  <2> QED BY <1>10, <2>1, <2>2 DEF Climbing
<1>12. a = b
  <2>1. ASSUME NEW k \in 1..Len(a) PROVE \E j \in 1..Len(b) : a[k] = b[j]
    <3>1. PICK i : i = a[k] OBVIOUS
    <3>2. i \in m..n BY <1>7, <3>1
    <3>3. PICK j : j = i - m + 1 OBVIOUS
    <3>4. j \in 1..l /\ m + j - 1 = i BY <1>2, <1>3, <3>2, <3>3
    <3>5. b[j] = i BY <1>9, <3>4
    <3> QED BY <1>10, <3>1, <3>4, <3>5
  <2>2. ASSUME NEW k \in 1..Len(b) PROVE \E j \in 1..Len(a) : b[k] = a[j]
    <3>1. k \in 1..l BY <1>10
    <3>2. PICK i : i = m + k - 1 OBVIOUS
    <3>3. i \in 1..n /\ i \in m..n BY <1>2, <1>3, <3>1, <3>2
    <3>4. b[k] = i BY <1>9, <3>1, <3>2
    <3> QED BY <1>7, <3>3, <3>4
  <2> QED BY <1>8, <1>11, <2>1, <2>2, SameClimb
<1>13. PICK p : p = Pick(q, m..Len(q)) OBVIOUS
<1>14. p = [k \in 1..Len(a) |-> q[a[k]]] BY <1>1, <1>5, <1>13 DEF Pick
<1>15. p = [k \in 1..l |-> q[b[k]]] BY <1>10, <1>12, <1>14
<1>16. \A k \in 1..l : p[k] = q[m + k - 1] BY <1>9, <1>15
<1>17. IsSeq(p) /\ Len(p) = l
  <2>1. p = [k \in 1..l |-> p[k]] BY <1>15
  <2> QED BY <1>4, <2>1, FunctionFacts
<1>18. r = SubSeq(q, m, n) /\ m <= n + 1 /\ n <= Len(q) BY <1>1, <1>2
<1>19. IsSeq(r) BY <1>2, <1>18, SubSeqFacts
<1>20. Len(r) = l
  <2>1. Len(r) = n - m + 1 BY <1>2, <1>18, SubSeqFacts
  <2> QED BY <1>3, <2>1
<1>21. \A k \in 1..l : r[k] = q[m + k - 1]
  <2>1. \A k \in 1..(n - m + 1) : r[k] = q[m + k - 1] BY <1>2, <1>18, SubSeqFacts
  <2> QED BY <1>3, <2>1
<1>22. \A k \in 1..Len(p) : p[k] = r[k] BY <1>16, <1>17, <1>21
<1>23. p = r BY <1>17, <1>19, <1>20, <1>22, SameElements
<1> QED BY <1>13, <1>23

\* The last groups of a history make up its end.
LEMMA TailFlatten ==
    ASSUME NEW ms, NEW qs, Grouped(ms, qs), NEW m \in 1..Len(qs), NEW q,
           q = SubSeq(qs, m, Len(qs))
    PROVE  \E n \in 0..Len(ms) : Flatten(q) = SubSeq(ms, n + 1, Len(ms))
<1>1. PICK off : Laid(ms, qs, off) BY GroupedFacts
<1>2. IsSeq(ms) /\ IsSeq(qs) BY <1>1 DEF Laid
<1>3. /\ Len(ms) \in Nat /\ Len(qs) \in Nat /\ off[Len(qs) + 1] = Len(ms)
      /\ \A k \in 1..Len(qs) :
            /\ IsSeq(qs[k]) /\ Len(qs[k]) \in Nat /\ off[k] \in Nat /\ off[k + 1] \in Nat
            /\ off[k + 1] = off[k] + Len(qs[k]) /\ off[k + 1] <= Len(ms)
            /\ \A i \in 1..Len(qs[k]) : ms[off[k] + i] = qs[k][i]
  BY <1>1, LaidFacts
<1>4. PICK e : e = Len(qs) OBVIOUS
<1>5. PICK l : l = Len(ms) OBVIOUS
<1>6. PICK n : n = off[m] OBVIOUS
<1>7. e \in Nat /\ l \in Nat /\ m \in Nat /\ 1 <= m /\ m <= e /\ m \in 1..e
  BY <1>3, <1>4, <1>5
<1>8. n \in Nat /\ n <= l
  <2>1. off[m] \in Nat /\ Len(qs[m]) \in Nat /\ off[m + 1] \in Nat
        /\ off[m + 1] = off[m] + Len(qs[m]) /\ off[m + 1] <= l
    BY <1>3, <1>5
  <2> QED BY <1>6, <1>7, <2>1
<1>9. \A k \in 1..e : m <= k => off[k] \in Nat /\ n <= off[k]
  <2> SUFFICES ASSUME NEW k \in 1..e, m <= k PROVE off[k] \in Nat /\ n <= off[k]
    OBVIOUS
  <2>1. off[k] \in Nat BY <1>3, <1>4
  <2>2. CASE k = m BY <1>6, <1>8, <2>1, <2>2
  <2>3. CASE m < k
    <3>1. off[m + 1] <= off[k] BY <1>1, <1>4, <2>3, OffsetsClimb
    <3>2. off[m + 1] = off[m] + Len(qs[m]) /\ Len(qs[m]) \in Nat BY <1>3
    <3>3. PICK x : x = Len(qs[m]) OBVIOUS
    <3>4. PICK y : y = off[k] OBVIOUS
    <3>5. x \in Nat /\ y \in Nat /\ n + x <= y BY <1>6, <2>1, <3>1, <3>2, <3>3, <3>4
    <3>6. n <= y BY <1>8, <3>5
    <3> QED BY <2>1, <3>4, <3>6
  <2>4. k = m \/ m < k BY <1>7
  <2> QED BY <2>2, <2>3, <2>4
<1>10. PICK x : x = SubSeq(ms, n + 1, l) OBVIOUS
<1>11. n + 1 \in Nat /\ 1 <= n + 1 /\ n + 1 <= l + 1 /\ l <= Len(ms) /\ l - (n + 1) + 1 = l - n
  BY <1>5, <1>7, <1>8
<1>12. IsSeq(x) BY <1>2, <1>7, <1>10, <1>11, SubSeqFacts
<1>13. Len(x) = l - n
  <2>1. Len(x) = l - (n + 1) + 1 BY <1>2, <1>7, <1>10, <1>11, SubSeqFacts
  <2> QED BY <1>11, <2>1
<1>14. \A i \in 1..(l - n) : x[i] = ms[n + i]
  <2>1. \A i \in 1..(l - (n + 1) + 1) : x[i] = ms[(n + 1) + i - 1]
    BY <1>2, <1>7, <1>10, <1>11, SubSeqFacts
  <2>2. \A i \in 1..(l - n) : (n + 1) + i - 1 = n + i BY <1>7, <1>8
  <2> QED BY <1>11, <2>1, <2>2
<1>15. q = SubSeq(qs, m, e) /\ m <= e + 1 /\ e <= Len(qs) BY <1>4, <1>7
<1>16. IsSeq(q) BY <1>2, <1>7, <1>15, SubSeqFacts
<1>17. Len(q) = e - m + 1 BY <1>2, <1>7, <1>15, SubSeqFacts
<1>18. \A k \in 1..(e - m + 1) : q[k] = qs[m + k - 1] BY <1>2, <1>7, <1>15, SubSeqFacts
<1>19. PICK o : o = [k \in 1..(e - m + 2) |-> off[m + k - 1] - n] OBVIOUS
<1>20. \A k \in 1..(e - m + 2) : o[k] = off[m + k - 1] - n BY <1>19
<1>21. o[1] = 0
  <2>1. 1 \in 1..(e - m + 2) /\ m + 1 - 1 = m BY <1>7
  <2>2. o[1] = off[m] - n BY <1>20, <2>1
  <2> QED BY <1>6, <1>8, <2>2
<1>22. o[Len(q) + 1] = Len(x)
  <2>1. PICK k : k = Len(q) + 1 OBVIOUS
  <2>2. k \in 1..(e - m + 2) /\ m + k - 1 = e + 1 BY <1>7, <1>17, <2>1
  <2>3. o[k] = off[e + 1] - n BY <1>20, <2>2
  <2>4. off[e + 1] = l BY <1>3, <1>4, <1>5
  <2> QED BY <1>13, <2>1, <2>3, <2>4
<1>23. ASSUME NEW k \in 1..Len(q)
       PROVE  Within(q[k], x, o[k]) /\ o[k + 1] = o[k] + Len(q[k])
  <2>1. PICK i : i = m + k - 1 OBVIOUS
  <2>2. /\ k \in 1..(e - m + 1) /\ i \in 1..e /\ m <= i
        /\ k \in 1..(e - m + 2) /\ k + 1 \in 1..(e - m + 2) /\ m + (k + 1) - 1 = i + 1
    BY <1>7, <1>17, <2>1
  <2>3. PICK g : g = q[k] OBVIOUS
  <2>4. g = qs[i] BY <1>18, <2>1, <2>2, <2>3
  <2>5. PICK y : y = off[i] OBVIOUS
  <2>6. y \in Nat /\ n <= y BY <1>9, <2>2, <2>5
  <2>7. /\ IsSeq(g) /\ Len(g) \in Nat /\ off[i + 1] = y + Len(g) /\ off[i + 1] <= l
        /\ \A j \in 1..Len(g) : ms[y + j] = g[j]
    BY <1>3, <1>4, <1>5, <2>2, <2>4, <2>5
  <2>8. o[k] = y - n BY <1>20, <2>1, <2>2, <2>5
  <2>9. o[k + 1] = off[i + 1] - n BY <1>20, <2>2
  <2>10. PICK z : z = o[k] OBVIOUS
  <2>11. z \in Nat /\ n + z = y BY <1>8, <2>6, <2>8, <2>10
  <2>12. y + Len(g) <= l BY <2>7
  <2>13. o[k + 1] = z + Len(g)
    <3>1. o[k + 1] = (y + Len(g)) - n BY <2>7, <2>9
    <3>2. PICK w : w = Len(g) OBVIOUS
    <3>3. w \in Nat /\ y = n + z /\ o[k + 1] = (y + w) - n BY <2>7, <2>11, <3>1, <3>2
    <3>4. ((n + z) + w) - n = z + w BY <1>8, <2>11, <3>3
    <3> QED BY <3>2, <3>3, <3>4
  <2>14. z + Len(g) <= l - n BY <1>7, <1>8, <2>6, <2>7, <2>11, <2>12
  <2>15. ASSUME NEW j \in 1..Len(g) PROVE x[z + j] = g[j]
    <3>1. z + j \in 1..(l - n) /\ n + (z + j) = y + j
      BY <1>7, <1>8, <2>6, <2>7, <2>11, <2>14
    <3>2. x[z + j] = ms[y + j] BY <1>14, <3>1
    <3> QED BY <2>7, <3>2
  <2>16. Within(g, x, z) BY <1>12, <1>13, <2>7, <2>11, <2>14, <2>15 DEF Within
  <2> QED BY <2>3, <2>10, <2>13, <2>16
<1>24. Laid(x, q, o) BY <1>12, <1>16, <1>21, <1>22, <1>23 DEF Laid
<1>25. Flatten(q) = x BY <1>24, LaidFlatten
<1>26. n \in 0..Len(ms) BY <1>5, <1>7, <1>8
<1> QED BY <1>5, <1>10, <1>25, <1>26

-----------------------------------------------------------------------------
(* Recent messages, untouched *)

\* A summary that is not there costs nothing.
LEMMA SummarisedCount ==
    ASSUME NEW ms, IsHistory(ms), Tied(ms), NEW summaryOk \in BOOLEAN,
           NEW a, a = Summarised(ms, summaryOk), NEW b, b = Summarised(ms, TRUE)
    PROVE  CountMessages(a) <= CountMessages(b)
<1>1. CASE summaryOk = TRUE
  <2>1. a = b BY <1>1
  <2>2. IsHistory(a) BY SummarisedHistory
  <2>3. CountMessages(a) \in Nat BY <2>2, CountFacts
  <2>4. \A n \in Nat : n <= n OBVIOUS
  <2> QED BY <2>1, <2>3, <2>4, Zenon
<1>2. CASE summaryOk = FALSE
  <2>1. PICK qs : qs = MessageGroups(ms) OBVIOUS
  <2>2. Grouped(ms, qs) BY <2>1 DEF Grouped
  <2>3. AreGroups(qs) BY <2>2, GroupedFacts
  <2>4. PICK recent : recent = RecentStart(qs) OBVIOUS
  <2>5. PICK protected : protected = {g \in 1..(recent - 1) : IsProtected(qs[g])} OBVIOUS
  <2>6. PICK x : x = Flatten(Pick(qs, protected)) OBVIOUS
  <2>7. PICK y : y = Flatten(Pick(qs, recent..Len(qs))) OBVIOUS
  <2>8. IsHistory(x) /\ IsHistory(y)
    <3>1. Grouped(x, Pick(qs, protected)) BY <2>3, <2>6, GroupedPick
    <3>2. Grouped(y, Pick(qs, recent..Len(qs))) BY <2>3, <2>7, GroupedPick
    <3> QED BY <3>1, <3>2 DEF Grouped
  <2>9. PICK e : e = <<>> OBVIOUS
  <2>10. PICK t : t = IF 1..(recent - 1) # protected THEN <<Summary>> ELSE <<>> OBVIOUS
  <2>11. IsHistory(e) /\ IsHistory(t) BY <2>9, <2>10, EmptyHistory, SummaryHistory
  <2>12. a = (x \o e) \o y
    BY <1>2, <2>1, <2>4, <2>5, <2>6, <2>7, <2>9 DEF Summarised
  <2>13. b = (x \o t) \o y
    BY <2>1, <2>4, <2>5, <2>6, <2>7, <2>10 DEF Summarised
  <2>14. PICK u : u = x \o e OBVIOUS
  <2>15. PICK v : v = x \o t OBVIOUS
  <2>16. IsHistory(u) /\ IsHistory(v) BY <2>8, <2>11, <2>14, <2>15, ConcatHistory
  <2>17. CountMessages(u) = CountMessages(x) + CountMessages(e)
    BY <2>8, <2>11, <2>14, CountConcat
  <2>18. CountMessages(v) = CountMessages(x) + CountMessages(t)
    BY <2>8, <2>11, <2>15, CountConcat
  <2>19. CountMessages(a) = CountMessages(u) + CountMessages(y)
    BY <2>8, <2>12, <2>14, <2>16, CountConcat
  <2>20. CountMessages(b) = CountMessages(v) + CountMessages(y)
    BY <2>8, <2>13, <2>15, <2>16, CountConcat
  <2>21. CountMessages(e) = 0
    <3>1. Len(e) \in Nat BY <2>11, SeqFacts DEF IsHistory
    <3>2. Len(e) = 0 BY <2>9, <2>11, SeqFacts DEF IsHistory
    <3>3. PICK f : Totals(f, e, Len(e)) /\ CountMessages(e) = f[Len(e)]
      BY <3>1, CountTotals
    <3>4. f[0] = 0 BY <2>11, <3>3, TotalsFacts
    <3> QED BY <3>2, <3>3, <3>4
  <2>22. /\ CountMessages(x) \in Nat /\ CountMessages(y) \in Nat /\ CountMessages(t) \in Nat
    BY <2>8, <2>11, CountFacts
  <2>23. \A k, l, m \in Nat : (k + 0) + l <= (k + m) + l OBVIOUS
  <2>24. CountMessages(a) = (CountMessages(x) + 0) + CountMessages(y) BY <2>17, <2>19, <2>21
  <2>25. CountMessages(b) = (CountMessages(x) + CountMessages(t)) + CountMessages(y)
    BY <2>18, <2>20
  <2> QED BY <2>22, <2>23, <2>24, <2>25, Zenon
<1> QED BY <1>1, <1>2

\* What the recent groups make up is the end of the history, long enough if it is not all.
LEMMA RecentTail ==
    ASSUME NEW ms, NEW qs, Grouped(ms, qs), NEW recent, recent = RecentStart(qs),
           NEW y, y = Flatten(Pick(qs, recent..Len(qs)))
    PROVE  \E n \in 0..Len(ms) : /\ y = SubSeq(ms, n + 1, Len(ms))
                                 /\ n = 0 \/ Len(ms) - n >= MinRecent
<1>1. AreGroups(qs) /\ Flatten(qs) = ms /\ \E off : Laid(ms, qs, off) BY GroupedFacts
<1>2. IsSeq(qs) BY <1>1 DEF AreGroups
<1>3. Len(qs) \in Nat /\ DOMAIN qs = 1..Len(qs) BY <1>2, SeqFacts
<1>4. IsSeq(ms) BY <1>1 DEF Laid
<1>5. Len(ms) \in Nat BY <1>4, SeqFacts
<1>6. CASE recent = 1
  <2>1. Pick(qs, recent..Len(qs)) = qs BY <1>2, <1>3, <1>6, PickAll
  <2>2. y = ms BY <1>1, <2>1
  <2>3. PICK n : n = Len(ms) OBVIOUS
  <2>4. PICK x : x = SubSeq(ms, 1, n) OBVIOUS
  <2>5. 1 \in Nat /\ n \in Nat /\ 1 <= 1 /\ 1 <= n + 1 /\ n <= Len(ms) /\ n - 1 + 1 = n
    BY <1>5, <2>3
  <2>6. IsSeq(x) BY <1>4, <2>4, <2>5, SubSeqFacts
  <2>7. Len(x) = n - 1 + 1 BY <1>4, <2>4, <2>5, SubSeqFacts
  <2>8. \A i \in 1..(n - 1 + 1) : x[i] = ms[1 + i - 1] BY <1>4, <2>4, <2>5, SubSeqFacts
  <2>9. \A i \in 1..n : 1 + i - 1 = i BY <2>5
  <2>10. \A i \in 1..Len(ms) : ms[i] = x[i] BY <2>3, <2>5, <2>8, <2>9
  <2>11. Len(ms) = Len(x) BY <2>3, <2>5, <2>7
  <2>12. ms = x BY <1>4, <2>6, <2>10, <2>11, SameElements
  <2>13. 0 \in 0..Len(ms) /\ 0 + 1 = 1 BY <1>5
  <2>14. y = SubSeq(ms, 0 + 1, Len(ms)) BY <2>2, <2>3, <2>4, <2>12, <2>13
  <2> QED BY <2>13, <2>14
<1>7. CASE recent # 1
  <2>1. recent \in Nat /\ recent >= 1 BY <1>2, RecentFacts
  <2>2. Len(qs) >= 1 => recent <= Len(qs) BY <1>2, RecentFacts
  <2>3. Len(Flatten(SubSeq(qs, recent, Len(qs)))) >= MinRecent BY <1>2, <1>7, RecentFacts
  <2>4. Len(qs) >= 1
    <3> SUFFICES ASSUME Len(qs) = 0 PROVE FALSE BY <1>3
    <3>1. DOMAIN qs = {} BY <1>3
    <3>2. recent = 1 BY <3>1 DEF RecentStart
    <3> QED BY <1>7, <3>2
  <2>5. recent \in 1..Len(qs) BY <1>3, <2>1, <2>2, <2>4
  <2>6. PICK q : q = SubSeq(qs, recent, Len(qs)) OBVIOUS
  <2>7. Pick(qs, recent..Len(qs)) = q BY <1>2, <2>5, <2>6, PickFrom
  <2>8. y = Flatten(q) BY <2>7
  <2>9. PICK n \in 0..Len(ms) : y = SubSeq(ms, n + 1, Len(ms)) BY <2>5, <2>6, <2>8, TailFlatten
  <2>10. PICK l : l = Len(ms) OBVIOUS
  <2>11. /\ n + 1 \in Nat /\ l \in Nat /\ 1 <= n + 1 /\ n + 1 <= l + 1 /\ l <= Len(ms)
         /\ l - (n + 1) + 1 = l - n /\ n \in Nat
    BY <1>5, <2>9, <2>10
  <2>12. y = SubSeq(ms, n + 1, l) BY <2>9, <2>10
  <2>13. Len(y) = l - (n + 1) + 1 BY <1>4, <2>11, <2>12, SubSeqFacts
  <2>14. Len(y) >= MinRecent BY <2>3, <2>6, <2>8
  <2>15. Len(ms) - n >= MinRecent BY <2>10, <2>11, <2>13, <2>14
  <2> QED BY <2>9, <2>15
<1> QED BY <1>6, <1>7

\* Nothing is dropped of what fits.
LEMMA DropGroupsFits ==
    ASSUME NEW a, IsHistory(a), Tied(a), CountMessages(a) <= Budget, NEW b, b = DropGroups(a)
    PROVE  b = a
<1>1. PICK as : as = MessageGroups(a) OBVIOUS
<1>2. Grouped(a, as) BY <1>1 DEF Grouped
<1>3. \E P : /\ P \subseteq 1..Len(as)
             /\ Grouped(b, Pick(as, P))
             /\ \A g \in 1..Len(as) :
                   IsProtected(as[g]) \/ g = Len(as) => g \in P
             /\ CountMessages(a) <= Budget => b = a
             /\ \/ CountMessages(b) <= Budget
                \/ \A g \in P : IsProtected(as[g]) \/ g = Len(as)
  BY <1>2, DropGroupsKeeps
<1> QED BY <1>3

\* Between the trigger and the budget the recent messages are left as they are.
LEMMA PrepareRecent ==
    ASSUME NEW ms, IsHistory(ms), Tied(ms), NEW summaryOk \in BOOLEAN,
           NEW r, r = Prepare(ms, summaryOk),
           CountMessages(Summarised(ms, TRUE)) <= Budget
    PROVE  \E n \in 0..Len(ms), d \in Nat :
              /\ n = 0 \/ Len(ms) - n >= MinRecent
              /\ Within(SubSeq(ms, n + 1, Len(ms)), r, d)
              /\ d + Len(SubSeq(ms, n + 1, Len(ms))) = Len(r)
<1>1. PICK qs : qs = MessageGroups(ms) OBVIOUS
<1>2. Grouped(ms, qs) BY <1>1 DEF Grouped
<1>3. AreGroups(qs) BY <1>2, GroupedFacts
<1>4. PICK recent : recent = RecentStart(qs) OBVIOUS
<1>5. PICK protected : protected = {g \in 1..(recent - 1) : IsProtected(qs[g])} OBVIOUS
<1>6. PICK y : y = Flatten(Pick(qs, recent..Len(qs))) OBVIOUS
<1>7. PICK n \in 0..Len(ms) : /\ y = SubSeq(ms, n + 1, Len(ms))
                              /\ n = 0 \/ Len(ms) - n >= MinRecent
  BY <1>2, <1>4, <1>6, RecentTail
<1>8. IsSeq(ms) /\ Len(ms) \in Nat BY SeqFacts DEF IsHistory
<1>9. IsSeq(y)
  <2>1. Grouped(y, Pick(qs, recent..Len(qs))) BY <1>3, <1>6, GroupedPick
  <2> QED BY <2>1 DEF Grouped, IsHistory
<1>10. PICK a : a = Summarised(ms, summaryOk) OBVIOUS
<1>11. PICK t : t = IF 1..(recent - 1) # protected /\ summaryOk THEN <<Summary>> ELSE <<>>
  OBVIOUS
<1>12. PICK x : x = Flatten(Pick(qs, protected)) \o t OBVIOUS
<1>13. a = x \o y
  BY <1>1, <1>4, <1>5, <1>6, <1>10, <1>11, <1>12 DEF Summarised
<1>14. IsSeq(x)
  <2>1. PICK z : z = Flatten(Pick(qs, protected)) OBVIOUS
  <2>2. Grouped(z, Pick(qs, protected)) BY <1>3, <2>1, GroupedPick
  <2>3. IsSeq(z) BY <2>2 DEF Grouped, IsHistory
  <2>4. IsSeq(t) BY <1>11, EmptyHistory, SummaryHistory DEF IsHistory
  <2>5. x = z \o t BY <1>12, <2>1
  <2> QED BY <2>3, <2>4, <2>5, ConcatFacts
<1>15. CASE CountMessages(ms) <= Trigger
  <2>1. r = ms BY <1>15 DEF Prepare
  <2>2. PICK z : z = SubSeq(ms, n + 1, Len(ms)) OBVIOUS
  <2>3. PICK l : l = Len(ms) OBVIOUS
  <2>4. /\ n + 1 \in Nat /\ l \in Nat /\ 1 <= n + 1 /\ n + 1 <= l + 1 /\ l <= Len(ms)
        /\ l - (n + 1) + 1 = l - n /\ n \in Nat /\ n <= l
    BY <1>7, <1>8, <2>3
  <2>5. z = SubSeq(ms, n + 1, l) BY <2>2, <2>3
  <2>6. Len(z) = l - n
    <3>1. Len(z) = l - (n + 1) + 1 BY <1>8, <2>4, <2>5, SubSeqFacts
    <3> QED BY <2>4, <3>1
  <2>7. \A i \in 1..(l - n) : z[i] = ms[n + i]
    <3>1. \A i \in 1..(l - (n + 1) + 1) : z[i] = ms[(n + 1) + i - 1]
      BY <1>8, <2>4, <2>5, SubSeqFacts
    <3>2. \A i \in 1..(l - n) : (n + 1) + i - 1 = n + i BY <2>4
    <3> QED BY <2>4, <3>1, <3>2
  <2>8. n + Len(z) = Len(ms) BY <2>3, <2>4, <2>6
  <2>9. IsSeq(z) BY <1>7, <1>9, <2>2
  <2>10. n + Len(z) <= Len(ms) BY <1>8, <2>8
  <2>11. Within(z, ms, n) BY <1>8, <2>4, <2>6, <2>7, <2>9, <2>10 DEF Within
  <2> QED BY <1>7, <2>1, <2>2, <2>4, <2>8, <2>11
<1>16. CASE ~(CountMessages(ms) <= Trigger)
  <2>1. PICK b : b = DropGroups(a) OBVIOUS
  <2>2. r = CutTexts(b) BY <1>10, <1>16, <2>1 DEF Prepare, FitBudget
  <2>3. IsHistory(a) /\ Tied(a) BY <1>10, SummarisedHistory
  <2>4. CountMessages(a) <= Budget
    <3>1. PICK c : c = Summarised(ms, TRUE) OBVIOUS
    <3>2. CountMessages(a) <= CountMessages(c) BY <1>10, <3>1, SummarisedCount
    <3>3. IsHistory(c) BY <3>1, SummarisedHistory
    <3>4. CountMessages(a) \in Nat /\ CountMessages(c) \in Nat /\ Budget \in Nat
      BY <2>3, <3>3, CountFacts, ContextAssumption
    <3>5. CountMessages(c) <= Budget BY <3>1
    <3> QED BY <3>2, <3>4, <3>5
  <2>5. PICK as : as = MessageGroups(a) OBVIOUS
  <2>6. Grouped(a, as) BY <2>3, <2>5 DEF Grouped
  <2>7. b = a BY <2>1, <2>3, <2>4, DropGroupsFits
  <2>8. r = a BY <2>2, <2>3, <2>4, <2>7, CutTextsKin
  <2>9. Within(y, a, Len(x)) BY <1>9, <1>13, <1>14, ConcatWithin
  <2>10. Len(x) \in Nat /\ Len(x) + Len(y) = Len(a) BY <1>9, <1>13, <1>14, ConcatFacts
  <2> QED BY <1>7, <2>8, <2>9, <2>10
<1> QED BY <1>15, <1>16

-----------------------------------------------------------------------------
(* Messages of the loop *)

\* The instructions of a skill, as the loop, the user or load_skill bring them.
LEMMA InjectionFacts ==
    ASSUME NEW s \in Skills, NEW role \in Roles, NEW id, NEW runtime \in BOOLEAN, NEW m,
           m = SkillInjection(s, role, id, runtime)
    PROVE  /\ Shaped(m) /\ m.role = role /\ m.reply = id /\ m.calls = <<>>
           /\ IsInjection(m) /\ m.skill = s
<1>1. "skill_injection" \in Kinds BY DEF Kinds
<1>2. SkillSize \in Nat BY ConversationAssumption
<1>3. PICK t : t = Text(role, "skill_injection", SkillSize) OBVIOUS
<1>4. Shaped(t) BY <1>1, <1>2, <1>3, TextShaped
<1>5. t.role = role /\ t.calls = <<>> /\ t.kind = "skill_injection" BY <1>3 DEF Text
<1>6. m = [t EXCEPT !.skill = s, !.reply = id, !.runtime = runtime]
  BY <1>3 DEF SkillInjection
<1>7. DOMAIN t = {"role", "kind", "skill", "calls", "reply", "error",
                  "runtime", "size", "cut"}
  BY <1>4 DEF Shaped, IsMessage
<1>8. /\ DOMAIN m = DOMAIN t /\ m.role = t.role /\ m.kind = t.kind /\ m.skill = s
      /\ m.calls = t.calls /\ m.reply = id /\ m.error = t.error /\ m.size = t.size
      /\ m.cut = t.cut
  BY <1>6, <1>7
<1>9. m.runtime = runtime BY <1>6, <1>7
<1>10. m.runtime \in BOOLEAN BY <1>9, Zenon
<1>11. Shaped(m) BY <1>4, <1>8, <1>10, Zenon DEF Shaped, IsMessage
<1> QED BY <1>5, <1>8, <1>11 DEF IsInjection

LEMMA ResultFacts ==
    ASSUME NEW id, NEW error \in BOOLEAN, NEW m, m = ToolResult(id, error)
    PROVE  /\ Shaped(m) /\ m.role = "tool" /\ m.reply = id /\ m.calls = <<>>
           /\ m.error = error /\ ~IsInjection(m)
<1>1. "tool" \in Roles /\ "tool_result" \in Kinds /\ 1 \in Nat BY DEF Roles, Kinds
<1>2. PICK t : t = Text("tool", "tool_result", 1) OBVIOUS
<1>3. Shaped(t) BY <1>1, <1>2, TextShaped
<1>4. t.role = "tool" /\ t.calls = <<>> /\ t.kind = "tool_result" BY <1>2 DEF Text
<1>5. m = [t EXCEPT !.reply = id, !.error = error] BY <1>2 DEF ToolResult
<1>6. DOMAIN t = {"role", "kind", "skill", "calls", "reply", "error",
                  "runtime", "size", "cut"}
  BY <1>3 DEF Shaped, IsMessage
<1>7. /\ DOMAIN m = DOMAIN t /\ m.role = t.role /\ m.kind = t.kind /\ m.skill = t.skill
      /\ m.calls = t.calls /\ m.reply = id /\ m.runtime = t.runtime /\ m.size = t.size
      /\ m.cut = t.cut
  BY <1>5, <1>6
<1>8. m.error = error BY <1>5, <1>6
<1>9. m.error \in BOOLEAN BY <1>8, Zenon
<1>10. Shaped(m) BY <1>3, <1>7, <1>9, Zenon DEF Shaped, IsMessage
<1>11. ~IsInjection(m) BY <1>4, <1>7 DEF IsInjection
<1> QED BY <1>4, <1>7, <1>8, <1>10, <1>11

LEMMA AssistantFacts ==
    ASSUME NEW size \in Nat, NEW ids, IsSeq(ids), NEW m, m = Assistant(size, ids)
    PROVE  Shaped(m) /\ m.role = "assistant" /\ m.calls = ids /\ ~IsInjection(m)
<1>1. "assistant" \in Roles /\ "none" \in Kinds BY DEF Roles, Kinds
<1>2. PICK t : t = Text("assistant", "none", size) OBVIOUS
<1>3. Shaped(t) BY <1>1, <1>2, TextShaped
<1>4. t.role = "assistant" /\ t.kind = "none" BY <1>2 DEF Text
<1>5. m = [t EXCEPT !.calls = ids] BY <1>2 DEF Assistant
<1>6. DOMAIN t = {"role", "kind", "skill", "calls", "reply", "error",
                  "runtime", "size", "cut"}
  BY <1>3 DEF Shaped, IsMessage
<1>7. /\ DOMAIN m = DOMAIN t /\ m.role = t.role /\ m.kind = t.kind /\ m.skill = t.skill
      /\ m.calls = ids /\ m.reply = t.reply /\ m.error = t.error /\ m.runtime = t.runtime
      /\ m.size = t.size /\ m.cut = t.cut
  BY <1>5, <1>6
<1>8. Shaped(m) BY <1>3, <1>7, Zenon DEF Shaped, IsMessage
<1>9. ~IsInjection(m) BY <1>4, <1>7 DEF IsInjection
<1> QED BY <1>4, <1>7, <1>8, <1>9

LEMMA TextFacts ==
    ASSUME NEW role \in Roles, NEW kind \in Kinds, kind # "skill_injection",
           NEW size \in Nat, NEW m, m = Text(role, kind, size)
    PROVE  Shaped(m) /\ m.role = role /\ m.calls = <<>> /\ ~IsInjection(m)
<1>1. Shaped(m) BY TextShaped
<1>2. m.role = role /\ m.calls = <<>> /\ m.kind = kind BY DEF Text
<1> QED BY <1>1, <1>2 DEF IsInjection

LEMMA RedactedFacts ==
    ASSUME NEW m, Shaped(m), NEW r, r = Redacted(m)
    PROVE  /\ Shaped(r) /\ r.role = m.role /\ r.calls = m.calls /\ r.reply = m.reply
           /\ ~IsInjection(r)
<1>1. DOMAIN m = {"role", "kind", "skill", "calls", "reply", "error",
                  "runtime", "size", "cut"}
  BY DEF Shaped, IsMessage
<1>2. /\ DOMAIN r = DOMAIN m /\ r.role = m.role /\ r.kind = "skill_removed"
      /\ r.skill = m.skill /\ r.calls = m.calls /\ r.reply = m.reply /\ r.error = m.error
      /\ r.size = 1
  BY <1>1 DEF Redacted
<1>3. r.runtime = FALSE /\ r.cut = FALSE BY <1>1 DEF Redacted
<1>4. r.runtime \in BOOLEAN /\ r.cut \in BOOLEAN BY <1>3, Zenon
<1>5. "skill_removed" \in Kinds /\ 1 \in Nat BY DEF Kinds
<1>6. Shaped(r) BY <1>2, <1>4, <1>5, Zenon DEF Shaped, IsMessage
<1>7. ~IsInjection(r) BY <1>2 DEF IsInjection
<1> QED BY <1>2, <1>6, <1>7

-----------------------------------------------------------------------------
(* Messages taken out, others rewritten *)

\* r is what is left of ms when messages that are neither replies nor call tools are taken
\* out and texts are rewritten; at tells where each message of r stood.
Thinned(r, ms, at) ==
    /\ IsSeq(r) /\ IsSeq(ms)
    /\ \A k \in 1..Len(r) : /\ at[k] \in 1..Len(ms)
                            /\ r[k].role = ms[at[k]].role
                            /\ r[k].calls = ms[at[k]].calls
                            /\ r[k].reply = ms[at[k]].reply
    /\ \A k, l \in 1..Len(r) : k < l => at[k] < at[l]
    /\ \A i \in 1..Len(ms) : ms[i].role = "tool" \/ ms[i].calls # <<>> =>
          \E k \in 1..Len(r) : at[k] = i

LEMMA ThinnedFacts ==
    ASSUME NEW r, NEW ms, NEW at, Thinned(r, ms, at)
    PROVE  /\ Len(r) \in Nat /\ Len(ms) \in Nat
           /\ DOMAIN r = 1..Len(r) /\ DOMAIN ms = 1..Len(ms)
           /\ \A k \in 1..Len(r) : /\ at[k] \in 1..Len(ms) /\ at[k] \in Nat
                                   /\ r[k].role = ms[at[k]].role
                                   /\ r[k].reply = ms[at[k]].reply
                                   /\ CallIds(r[k]) = CallIds(ms[at[k]])
           /\ \A i \in 1..Len(ms) : ms[i].role = "tool" => \E k \in 1..Len(r) : at[k] = i
           /\ \A i \in 1..Len(ms) : CallIds(ms[i]) # {} => \E k \in 1..Len(r) : at[k] = i
<1>1. /\ Len(r) \in Nat /\ Len(ms) \in Nat
      /\ DOMAIN r = 1..Len(r) /\ DOMAIN ms = 1..Len(ms)
  BY SeqFacts DEF Thinned
<1>2. ASSUME NEW k \in 1..Len(r)
      PROVE  /\ at[k] \in 1..Len(ms) /\ at[k] \in Nat
             /\ r[k].role = ms[at[k]].role
             /\ r[k].reply = ms[at[k]].reply
             /\ CallIds(r[k]) = CallIds(ms[at[k]])
  <2>1. /\ at[k] \in 1..Len(ms)
        /\ r[k].role = ms[at[k]].role /\ r[k].calls = ms[at[k]].calls
        /\ r[k].reply = ms[at[k]].reply
    BY DEF Thinned
  <2>2. CallIds(r[k]) = CallIds(ms[at[k]]) BY <2>1, Zenon DEF CallIds
  <2> QED BY <1>1, <2>1, <2>2
<1>3. \A i \in 1..Len(ms) : ms[i].role = "tool" => \E k \in 1..Len(r) : at[k] = i
  BY DEF Thinned
<1>4. \A i \in 1..Len(ms) : CallIds(ms[i]) # {} => ms[i].calls # <<>> BY DEF CallIds
<1>5. \A i \in 1..Len(ms) : CallIds(ms[i]) # {} => \E k \in 1..Len(r) : at[k] = i
  BY <1>4 DEF Thinned
<1> QED BY <1>1, <1>2, <1>3, <1>5

LEMMA ThinnedCaller ==
    ASSUME NEW r, NEW ms, NEW at, Thinned(r, ms, at), NEW i \in 1..Len(ms),
           CallIds(ms[i]) # {}
    PROVE  \E k \in 1..Len(r) : at[k] = i
<1>1. ms[i].calls # <<>>
  <2>1. CallIds(ms[i]) = {ms[i].calls[c] : c \in DOMAIN ms[i].calls} BY DEF CallIds
  <2> QED BY <2>1
<1> QED BY <1>1 DEF Thinned

LEMMA ThinnedOrder ==
    ASSUME NEW r, NEW ms, NEW at, Thinned(r, ms, at),
           NEW k \in 1..Len(r), NEW l \in 1..Len(r)
    PROVE  k < l <=> at[k] < at[l]
<1>1. Len(r) \in Nat /\ at[k] \in Nat /\ at[l] \in Nat BY ThinnedFacts
<1>2. PICK x : x = at[k] OBVIOUS
<1>3. PICK y : y = at[l] OBVIOUS
<1>4. k < l => x < y BY <1>2, <1>3 DEF Thinned
<1>5. l < k => y < x BY <1>2, <1>3 DEF Thinned
<1>6. k = l => x = y BY <1>2, <1>3
<1>7. k \in Nat /\ l \in Nat BY <1>1
<1>8. x \in Nat /\ y \in Nat BY <1>1, <1>2, <1>3
<1>9. k < l <=> x < y BY <1>4, <1>5, <1>6, <1>7, <1>8
<1> QED BY <1>2, <1>3, <1>9

\* Only replies stand after position i, up to k.
OnlyReplies(ms, i, k) == \A j \in (i + 1)..k : ms[j].role = "tool"

\* What is replied between two positions.
RepliesBetween(ms, i, k) == {ms[j].reply : j \in (i + 1)..(k - 1)}

\* A run of replies in ms is one in r, with the same replies.
LEMMA ThinnedRun ==
    ASSUME NEW r, NEW ms, NEW at, Thinned(r, ms, at),
           NEW i \in 1..Len(r), NEW k \in 1..Len(r), i < k, NEW p, p = at[i], NEW q, q = at[k],
           OnlyReplies(ms, p, q)
    PROVE  /\ OnlyReplies(r, i, k)
           /\ RepliesBetween(r, i, k) = RepliesBetween(ms, p, q)
<1>1. /\ Len(r) \in Nat /\ Len(ms) \in Nat /\ p \in Nat /\ q \in Nat
      /\ p \in 1..Len(ms) /\ q \in 1..Len(ms)
  BY ThinnedFacts
<1>2. i \in Nat /\ k \in Nat BY <1>1
<1>3. ASSUME NEW j \in 1..Len(r), NEW x, x = at[j], i < j
      PROVE  /\ p < x /\ x \in Nat /\ r[j].role = ms[x].role /\ r[j].reply = ms[x].reply
             /\ j < k => x < q
             /\ j <= k => x <= q
  <2>1. x \in Nat /\ r[j].role = ms[x].role /\ r[j].reply = ms[x].reply
    BY <1>3, ThinnedFacts
  <2>2. p < x BY <1>3, ThinnedOrder
  <2>3. j < k => x < q BY <1>3, ThinnedOrder
  <2>4. j = k => x = q BY <1>3
  <2>5. j <= k => j < k \/ j = k BY <1>1, <1>2
  <2>6. j <= k => x <= q BY <1>1, <2>1, <2>3, <2>4, <2>5
  <2> QED BY <2>1, <2>2, <2>3, <2>6
<1>4. ASSUME NEW j \in (i + 1)..k
      PROVE  r[j].role = "tool"
  <2>1. j \in 1..Len(r) /\ i < j /\ j <= k BY <1>1, <1>2
  <2>2. PICK x : x = at[j] OBVIOUS
  <2>3. p < x /\ x \in Nat /\ r[j].role = ms[x].role /\ x <= q BY <1>3, <2>1, <2>2
  <2>4. x \in (p + 1)..q BY <1>1, <2>3
  <2> QED BY <2>3, <2>4 DEF OnlyReplies
<1>5. ASSUME NEW j \in (i + 1)..(k - 1)
      PROVE  r[j].reply \in {ms[l].reply : l \in (p + 1)..(q - 1)}
  <2>1. j \in 1..Len(r) /\ i < j /\ j < k BY <1>1, <1>2
  <2>2. PICK x : x = at[j] OBVIOUS
  <2>3. p < x /\ x \in Nat /\ r[j].reply = ms[x].reply /\ x < q BY <1>3, <2>1, <2>2
  <2>4. x \in (p + 1)..(q - 1) BY <1>1, <2>3
  <2> QED BY <2>3, <2>4
<1>6. ASSUME NEW l \in (p + 1)..(q - 1)
      PROVE  ms[l].reply \in {r[j].reply : j \in (i + 1)..(k - 1)}
  <2>1. l \in 1..Len(ms) /\ l \in (p + 1)..q /\ p < l /\ l < q BY <1>1
  <2>2. ms[l].role = "tool" BY <2>1 DEF OnlyReplies
  <2>3. PICK j \in 1..Len(r) : at[j] = l BY <2>1, <2>2, ThinnedFacts
  <2>4. i < j BY <2>1, <2>3, ThinnedOrder
  <2>5. j < k BY <2>1, <2>3, ThinnedOrder
  <2>6. j \in (i + 1)..(k - 1) BY <1>1, <1>2, <2>4, <2>5
  <2>7. r[j].reply = ms[l].reply BY <2>3, ThinnedFacts
  <2> QED BY <2>6, <2>7
<1>7. {r[j].reply : j \in (i + 1)..(k - 1)} \subseteq {ms[j].reply : j \in (p + 1)..(q - 1)}
  BY <1>5
<1>8. {ms[j].reply : j \in (p + 1)..(q - 1)} \subseteq {r[j].reply : j \in (i + 1)..(k - 1)}
  BY <1>6
<1>9. RepliesBetween(r, i, k) = RepliesBetween(ms, p, q)
  BY <1>7, <1>8, Zenon DEF RepliesBetween
<1> QED BY <1>4, <1>9 DEF OnlyReplies

LEMMA ThinnedTied ==
    ASSUME NEW r, NEW ms, NEW at, Thinned(r, ms, at), Tied(ms)
    PROVE  Tied(r)
<1>1. Len(r) \in Nat /\ DOMAIN r = 1..Len(r) /\ Len(ms) \in Nat /\ DOMAIN ms = 1..Len(ms)
  BY ThinnedFacts
<1>2. ASSUME NEW k \in DOMAIN r, r[k].role = "tool"
      PROVE  \E i \in 1..(k - 1) : Joins(r, i, k) /\ r[k].reply \in CallIds(r[i])
  <2>1. PICK q : q = at[k] OBVIOUS
  <2>2. /\ q \in 1..Len(ms) /\ q \in Nat /\ k \in 1..Len(r) /\ k \in Nat
        /\ ms[q].role = "tool" /\ r[k].reply = ms[q].reply
    BY <1>1, <1>2, <2>1, ThinnedFacts
  <2>3. PICK p \in 1..(q - 1) : Joins(ms, p, q) /\ ms[q].reply \in CallIds(ms[p])
    BY <1>1, <2>2 DEF Tied
  <2>4. p \in 1..Len(ms) /\ p < q BY <1>1, <2>2
  <2>5. CallIds(ms[p]) # {} BY <2>3
  <2>6. PICK i \in 1..Len(r) : at[i] = p BY <2>4, <2>5, ThinnedCaller
  <2>7. i < k BY <2>1, <2>2, <2>4, <2>6, ThinnedOrder
  <2>8. i \in 1..(k - 1) BY <1>1, <2>2, <2>7
  <2>9. /\ ms[p].role = "assistant"
        /\ OnlyReplies(ms, p, q)
        /\ ~(CallIds(ms[p]) \subseteq RepliesBetween(ms, p, q))
    BY <2>3 DEF Joins, OnlyReplies, RepliesBetween
  <2>15. p = at[i] /\ q = at[k] /\ k \in 1..Len(r) BY <2>1, <2>2, <2>6
  <2>16. OnlyReplies(ms, p, q) BY <2>9
  <2>17. OnlyReplies(r, i, k) BY <2>7, <2>15, <2>16, ThinnedRun
  <2>18. RepliesBetween(r, i, k) = RepliesBetween(ms, p, q)
    BY <2>7, <2>15, <2>16, ThinnedRun
  <2>11. r[i].role = ms[p].role /\ CallIds(r[i]) = CallIds(ms[p]) BY <2>6, ThinnedFacts
  <2>12. Joins(r, i, k) BY <2>9, <2>17, <2>18, <2>11, Zenon
       DEF Joins, OnlyReplies, RepliesBetween
  <2> QED BY <2>2, <2>3, <2>8, <2>11, <2>12
<1> QED BY <1>2 DEF Tied

\* The call ids of the message at i are among the replies that follow it.
HasReplies(ms, i) == CallIds(ms[i]) \subseteq {ms[j].reply : j \in FollowingReplies(ms, i)}

LEMMA ThinnedReplies ==
    ASSUME NEW r, NEW ms, NEW at, Thinned(r, ms, at), NEW i \in 1..Len(r),
           HasReplies(ms, at[i])
    PROVE  HasReplies(r, i)
<1>1. Len(r) \in Nat /\ Len(ms) \in Nat BY ThinnedFacts
<1>2. PICK p : p = at[i] OBVIOUS
<1>3. p \in 1..Len(ms) /\ p \in Nat /\ i \in Nat /\ CallIds(r[i]) = CallIds(ms[p])
  BY <1>1, <1>2, ThinnedFacts
<1>4. ASSUME NEW x \in CallIds(ms[p])
      PROVE  \E k \in FollowingReplies(r, i) : x = r[k].reply
  <2>1. PICK q \in FollowingReplies(ms, p) : x = ms[q].reply
    BY <1>2, <1>4 DEF HasReplies
  <2>2. q \in (p + 1)..Len(ms) /\ OnlyReplies(ms, p, q)
    BY <2>1 DEF FollowingReplies, OnlyReplies
  <2>3. q \in 1..Len(ms) /\ p < q /\ q \in (p + 1)..q BY <1>1, <1>3, <2>2
  <2>4. ms[q].role = "tool" BY <2>2, <2>3 DEF OnlyReplies
  <2>5. PICK k \in 1..Len(r) : at[k] = q BY <2>3, <2>4, ThinnedFacts
  <2>6. i < k BY <1>2, <2>3, <2>5, ThinnedOrder
  <2>7. OnlyReplies(r, i, k) BY <1>2, <2>2, <2>5, <2>6, ThinnedRun
  <2>8. k \in (i + 1)..Len(r) BY <1>1, <1>3, <2>6
  <2>9. k \in FollowingReplies(r, i) BY <2>7, <2>8 DEF FollowingReplies, OnlyReplies
  <2>10. r[k].reply = ms[q].reply BY <2>5, ThinnedFacts
  <2> QED BY <2>1, <2>9, <2>10
<1> QED BY <1>3, <1>4 DEF HasReplies

-----------------------------------------------------------------------------
(* Groups that compaction leaves *)

\* Every group of ps is the summary or one of qs.
FromGroups(ps, qs) ==
    \A l \in 1..Len(ps) : ps[l] = <<Summary>> \/ \E k \in 1..Len(qs) : ps[l] = qs[k]

LEMMA PickedFrom ==
    ASSUME NEW qs, IsSeq(qs), NEW P, NEW ps, ps = Pick(qs, P)
    PROVE  IsSeq(ps) /\ FromGroups(ps, qs)
<1>1. IsSeq(ps) BY PickFacts
<1>2. PICK p : p = ps OBVIOUS
<1>3. p = Pick(qs, P) BY <1>2
<1>4. PICK at : \A k \in 1..Len(p) : at[k] \in 1..Len(qs) /\ p[k] = qs[at[k]]
  BY <1>3, PickFacts
<1> QED BY <1>1, <1>2, <1>4 DEF FromGroups

LEMMA ConcatFrom ==
    ASSUME NEW a, NEW b, IsSeq(a), IsSeq(b), NEW qs, FromGroups(a, qs), FromGroups(b, qs),
           NEW ps, ps = a \o b
    PROVE  IsSeq(ps) /\ FromGroups(ps, qs)
<1>1. IsSeq(ps) BY ConcatFacts
<1>2. Len(a) \in Nat BY ConcatFacts
<1>3. \A i \in 1..Len(a) : ps[i] = a[i] BY ConcatFacts
<1>4. \A i \in 1..Len(b) : ps[Len(a) + i] = b[i] BY ConcatFacts
<1>5. \A k \in 1..Len(ps) : k \in 1..Len(a) \/ k - Len(a) \in 1..Len(b) BY ConcatFacts
<1>6. ASSUME NEW l \in 1..Len(ps)
      PROVE  ps[l] = <<Summary>> \/ \E k \in 1..Len(qs) : ps[l] = qs[k]
  <2>1. CASE l \in 1..Len(a) BY <1>3, <2>1 DEF FromGroups
  <2>2. CASE l - Len(a) \in 1..Len(b)
    <3>1. PICK n : n = Len(a) OBVIOUS
    <3>2. PICK i : i = l - n OBVIOUS
    <3>3. n \in Nat /\ l \in Int BY <1>2, <3>1
    <3>4. l = n + i BY <3>2, <3>3
    <3>5. i \in 1..Len(b) BY <2>2, <3>1, <3>2
    <3>6. ps[l] = b[i] BY <1>4, <3>1, <3>4, <3>5
    <3> QED BY <3>5, <3>6 DEF FromGroups
  <2> QED BY <1>5, <2>1, <2>2
<1> QED BY <1>1, <1>6 DEF FromGroups

LEMMA FromTrans ==
    ASSUME NEW ps, NEW qs, NEW rs, FromGroups(ps, qs), FromGroups(qs, rs)
    PROVE  FromGroups(ps, rs)
<1>1. PICK e : e = <<Summary>> OBVIOUS
<1>2. \A l \in 1..Len(qs) : qs[l] = e \/ \E k \in 1..Len(rs) : qs[l] = rs[k]
  BY <1>1 DEF FromGroups
<1>3. ASSUME NEW l \in 1..Len(ps) PROVE ps[l] = e \/ \E k \in 1..Len(rs) : ps[l] = rs[k]
  <2>1. ps[l] = e \/ \E k \in 1..Len(qs) : ps[l] = qs[k] BY <1>1 DEF FromGroups
  <2> QED BY <1>2, <2>1
<1> QED BY <1>1, <1>3 DEF FromGroups

\* Compaction makes no group up but the summary.
LEMMA PrepareGroups ==
    ASSUME NEW ms, NEW qs, Grouped(ms, qs), NEW summaryOk \in BOOLEAN,
           NEW r, r = Prepare(ms, summaryOk), NEW gs, gs = MessageGroups(r)
    PROVE  /\ Grouped(r, gs)
           /\ \E ps : /\ FromGroups(ps, qs)
                      /\ Len(ps) = Len(gs) /\ \A g \in 1..Len(gs) : KinAll(ps[g], gs[g])
<1>1. IsHistory(ms) /\ Tied(ms) /\ qs = MessageGroups(ms) BY DEF Grouped
<1>2. IsHistory(r) /\ Tied(r) BY <1>1, PrepareHistory
<1>3. Grouped(r, gs) BY <1>2 DEF Grouped
<1>4. CASE CountMessages(ms) <= Trigger
  <2>1. r = ms /\ gs = qs BY <1>1, <1>4 DEF Prepare
  <2>2. FromGroups(qs, qs) BY DEF FromGroups
  <2>3. \A g \in 1..Len(gs) : KinAll(qs[g], gs[g]) BY <2>1, KinSelf
  <2> QED BY <1>3, <2>1, <2>2, <2>3
<1>5. CASE ~(CountMessages(ms) <= Trigger)
  <2>1. PICK a : a = Summarised(ms, summaryOk) OBVIOUS
  <2>2. PICK b : b = DropGroups(a) OBVIOUS
  <2>3. r = CutTexts(b) BY <1>5, <2>1, <2>2 DEF Prepare, FitBudget
  <2>4. AreGroups(qs) BY GroupedFacts
  <2>5. IsSeq(qs) BY <2>4 DEF AreGroups
  <2>6. PICK recent : recent = RecentStart(qs) OBVIOUS
  <2>7. PICK protected : protected = {g \in 1..(recent - 1) : IsProtected(qs[g])} OBVIOUS
  <2>8. PICK s : /\ s = <<>> \/ s = <<<<Summary>>>>
                 /\ Grouped(a, (Pick(qs, protected) \o s) \o Pick(qs, recent..Len(qs)))
    BY <2>1, <2>6, <2>7, SummarisedGroups
  <2>9. PICK as : as = (Pick(qs, protected) \o s) \o Pick(qs, recent..Len(qs)) OBVIOUS
  <2>10. Grouped(a, as) BY <2>8, <2>9
  <2>11. IsSeq(s) /\ FromGroups(s, qs)
    <3>1. CASE s = <<>>
      <4>1. IsSeq(s) BY <3>1, EmptyCalls
      <4>2. Len(s) = 0 BY <3>1, <4>1, SeqFacts
      <4> QED BY <4>1, <4>2 DEF FromGroups
    <3>2. CASE s = <<<<Summary>>>>
      <4>1. PICK e : e = <<Summary>> OBVIOUS
      <4>2. IsSeq(s) /\ Len(s) = 1 /\ s[1] = e BY <3>2, <4>1, SingleSeq
      <4>3. \A l \in 1..1 : l = 1 OBVIOUS
      <4> QED BY <4>1, <4>2, <4>3 DEF FromGroups
    <3> QED BY <2>8, <3>1, <3>2
  <2>12. FromGroups(as, qs)
    <3>1. PICK p : p = Pick(qs, protected) OBVIOUS
    <3>2. PICK q : q = Pick(qs, recent..Len(qs)) OBVIOUS
    <3>3. PICK t : t = p \o s OBVIOUS
    <3>4. IsSeq(p) /\ FromGroups(p, qs) BY <2>5, <3>1, PickedFrom
    <3>5. IsSeq(q) /\ FromGroups(q, qs) BY <2>5, <3>2, PickedFrom
    <3>6. IsSeq(t) /\ FromGroups(t, qs) BY <2>11, <3>3, <3>4, ConcatFrom
    <3>7. as = t \o q BY <2>9, <3>1, <3>2, <3>3
    <3> QED BY <3>5, <3>6, <3>7, ConcatFrom
  <2>13. AreGroups(as) BY <2>10, GroupedFacts
  <2>14. IsSeq(as) BY <2>13 DEF AreGroups
  <2>15. PICK P : /\ P \subseteq 1..Len(as)
                  /\ Grouped(b, Pick(as, P))
                  /\ \A g \in 1..Len(as) : IsProtected(as[g]) \/ g = Len(as) => g \in P
    BY <2>2, <2>10, DropGroupsKeeps
  <2>16. PICK bs : bs = Pick(as, P) OBVIOUS
  <2>17. Grouped(b, bs) BY <2>15, <2>16
  <2>18. FromGroups(bs, as) BY <2>14, <2>16, PickedFrom
  <2>19. FromGroups(bs, qs) BY <2>12, <2>18, FromTrans
  <2>20. IsHistory(b) BY <2>17 DEF Grouped
  <2>21. KinAll(b, r) BY <2>3, <2>20, CutTextsKin
  <2>22. Len(bs) = Len(gs) /\ \A g \in 1..Len(bs) : KinAll(bs[g], gs[g])
    BY <1>3, <2>17, <2>21, KinGroups
  <2> QED BY <1>3, <2>19, <2>22
<1> QED BY <1>4, <1>5

-----------------------------------------------------------------------------
(* Replies that compaction leaves *)

\* All replies in ms are to calls of R.
RepliesIn(ms, R) == \A k \in 1..Len(ms) : ms[k].role = "tool" => ms[k].reply \in R

\* The replies of S stand last in their groups.
LastReplies(ms, S) ==
    \A k \in 1..Len(ms) : ms[k].role = "tool" /\ ms[k].reply \in S => EndsAt(ms, k)

\* A reply that compaction leaves, where it stood: the same place of a group of the history.
LEMMA PrepareReply ==
    ASSUME NEW ms, IsHistory(ms), Tied(ms), NEW summaryOk \in BOOLEAN,
           NEW r, r = Prepare(ms, summaryOk), NEW k \in 1..Len(r), r[k].role = "tool"
    PROVE  \E i \in 1..Len(ms) : /\ ms[i].role = "tool" /\ ms[i].reply = r[k].reply
                                 /\ EndsAt(ms, i) => EndsAt(r, k)
<1>1. PICK qs : qs = MessageGroups(ms) OBVIOUS
<1>2. PICK gs : gs = MessageGroups(r) OBVIOUS
<1>3. Grouped(ms, qs) BY <1>1 DEF Grouped
<1>4. Grouped(r, gs) BY <1>2, <1>3, PrepareGroups
<1>5. PICK ps : /\ FromGroups(ps, qs)
                /\ Len(ps) = Len(gs) /\ \A g \in 1..Len(gs) : KinAll(ps[g], gs[g])
  BY <1>2, <1>3, PrepareGroups
<1>6. PICK u : Laid(ms, qs, u) BY <1>3, GroupedFacts
<1>7. PICK o : Laid(r, gs, o) BY <1>4, GroupedFacts
<1>8. AreGroups(qs) /\ AreGroups(gs) BY <1>3, <1>4, GroupedFacts
<1>9. PICK g : Covers(o, gs, g, k) BY <1>7, AtExists
<1>10. g \in 1..Len(gs) BY <1>9 DEF Covers
<1>11. PICK n : n = k - o[g] OBVIOUS
<1>12. PICK b : b = gs[g] OBVIOUS
<1>13. PICK a : a = ps[g] OBVIOUS
<1>14. g \in Nat /\ o[g] \in Nat BY <1>7, <1>9, AtFacts
<1>15. n \in 1..Len(b) BY <1>7, <1>9, <1>11, <1>12, AtFacts
<1>16. r[k] = b[n] BY <1>7, <1>9, <1>11, <1>12, AtFacts
<1>17. Len(a) = Len(b) /\ \A i \in 1..Len(a) : Kin(a[i], b[i])
  BY <1>5, <1>10, <1>12, <1>13 DEF KinAll
<1>18. a[n].role = "tool" /\ a[n].reply = r[k].reply BY <1>15, <1>16, <1>17 DEF Kin
<1>19. a # <<Summary>>
  <2> SUFFICES ASSUME a = <<Summary>> PROVE FALSE OBVIOUS
  <2>1. Len(a) = 1 /\ a[1] = Summary BY SingleSeq
  <2>2. n = 1 BY <1>15, <1>17, <2>1
  <2> QED BY <1>18, <2>1, <2>2, SummaryFacts
<1>20. PICK h \in 1..Len(qs) : a = qs[h] BY <1>5, <1>10, <1>13, <1>19 DEF FromGroups
<1>21. IsGroup(a) /\ IsGroup(b) BY <1>8, <1>10, <1>12, <1>20 DEF AreGroups
<1>22. IsSeq(a) /\ Len(a) \in Nat /\ n \in Nat /\ n \in 1..Len(a)
  <2>1. IsSeq(a) BY <1>21 DEF IsGroup
  <2>2. Len(a) \in Nat BY <2>1, SeqFacts
  <2> QED BY <1>15, <1>17, <2>1, <2>2
<1>23. PICK i : i = u[h] + n OBVIOUS
<1>24. n \in 1..Len(qs[h]) BY <1>20, <1>22
<1>25. i \in 1..Len(ms) BY <1>6, <1>23, <1>24, AtPosition
<1>26. ms[i] = qs[h][n] BY <1>6, <1>23, <1>24, AtPosition
<1>27. ms[i].role = "tool" /\ ms[i].reply = r[k].reply BY <1>18, <1>20, <1>26
<1>28. /\ Len(ms) \in Nat /\ Len(r) \in Nat /\ Len(gs) \in Nat BY <1>6, <1>7, LaidFacts
<1>29. u[h] \in Nat BY <1>6, <1>24, AtPosition
<1>30. ASSUME EndsAt(ms, i) PROVE EndsAt(r, k)
  <2>1. n = Len(a)
    <3> SUFFICES ASSUME n # Len(a) PROVE FALSE OBVIOUS
    <3>1. n + 1 \in 1..Len(a) /\ n + 1 \in 2..Len(a) BY <1>22
    <3>2. a[n + 1].role = "tool" BY <1>21, <3>1 DEF IsGroup
    <3>3. PICK m : m = n + 1 OBVIOUS
    <3>4. PICK j : j = u[h] + m OBVIOUS
    <3>5. m \in 1..Len(qs[h]) BY <1>20, <3>1, <3>3
    <3>6. j \in 1..Len(ms) BY <1>6, <3>4, <3>5, AtPosition
    <3>7. ms[j] = qs[h][m] BY <1>6, <3>4, <3>5, AtPosition
    <3>8. j = i + 1
      <4>1. PICK d : d = u[h] OBVIOUS
      <4>2. d \in Nat /\ i = d + n /\ j = d + m BY <1>23, <1>29, <3>4, <4>1
      <4> QED BY <1>22, <3>3, <4>2
    <3>9. ms[i + 1].role = "tool" BY <1>20, <3>2, <3>3, <3>7, <3>8
    <3>10. i # Len(ms) BY <1>25, <1>28, <3>6, <3>8
    <3> QED BY <1>30, <3>9, <3>10 DEF EndsAt
  <2>2. /\ o[g + 1] = o[g] + Len(gs[g]) /\ o[Len(gs) + 1] = Len(r)
    BY <1>7, <1>10, LaidFacts
  <2>3. PICK x : x = o[g] OBVIOUS
  <2>4. PICK y : y = o[g + 1] OBVIOUS
  <2>5. y = x + Len(b) /\ x \in Nat /\ n = k - x /\ n = Len(b)
    BY <1>11, <1>12, <1>14, <1>17, <2>1, <2>2, <2>3, <2>4
  <2>6. k \in Nat BY <1>28
  <2>7. k = y BY <1>22, <2>5, <2>6
  <2>8. CASE g = Len(gs) BY <2>2, <2>4, <2>7, <2>8 DEF EndsAt
  <2>9. CASE g # Len(gs)
    <3>1. g + 1 \in 1..Len(gs) BY <1>10, <1>28, <2>9
    <3>2. PICK f : f = g + 1 OBVIOUS
    <3>3. PICK c : c = gs[f] OBVIOUS
    <3>4. IsGroup(c) BY <1>8, <3>1, <3>2, <3>3 DEF AreGroups
    <3>5. c[1].role # "tool" /\ IsSeq(c) /\ Len(c) >= 1 BY <3>4 DEF IsGroup
    <3>6. Len(c) \in Nat BY <3>5, SeqFacts
    <3>7. 1 \in 1..Len(gs[f]) BY <3>3, <3>5, <3>6
    <3>8. f \in 1..Len(gs) BY <3>1, <3>2
    <3>9. PICK j : j = o[f] + 1 OBVIOUS
    <3>10. r[j] = gs[f][1] BY <1>7, <3>7, <3>8, <3>9, AtPosition
    <3>11. j = k + 1 BY <2>4, <2>7, <3>2, <3>9
    <3> QED BY <3>3, <3>5, <3>10, <3>11 DEF EndsAt
  <2> QED BY <2>8, <2>9
<1> QED BY <1>25, <1>27, <1>30

LEMMA PrepareLast ==
    ASSUME NEW ms, IsHistory(ms), Tied(ms), NEW summaryOk \in BOOLEAN,
           NEW r, r = Prepare(ms, summaryOk)
    PROVE  /\ \A R : RepliesIn(ms, R) => RepliesIn(r, R)
           /\ \A S : LastReplies(ms, S) => LastReplies(r, S)
<1>1. \A k \in 1..Len(r) : r[k].role = "tool" =>
          \E i \in 1..Len(ms) : /\ ms[i].role = "tool" /\ ms[i].reply = r[k].reply
                                /\ EndsAt(ms, i) => EndsAt(r, k)
  BY PrepareReply
<1>2. \A R : RepliesIn(ms, R) => RepliesIn(r, R) BY <1>1 DEF RepliesIn
<1>3. \A S : LastReplies(ms, S) => LastReplies(r, S) BY <1>1 DEF LastReplies
<1> QED BY <1>2, <1>3

\* The same when messages are taken out.
LEMMA ThinnedEnds ==
    ASSUME NEW r, NEW ms, NEW at, Thinned(r, ms, at), Tied(ms), NEW k \in 1..Len(r),
           EndsAt(ms, at[k])
    PROVE  EndsAt(r, k)
<1> SUFFICES ASSUME k # Len(r), r[k + 1].role = "tool" PROVE FALSE BY DEF EndsAt
<1>1. Len(r) \in Nat /\ Len(ms) \in Nat BY ThinnedFacts
<1>2. PICK l : l = k + 1 OBVIOUS
<1>3. l \in 1..Len(r) /\ k < l /\ k \in Nat /\ l \in Nat BY <1>1, <1>2
<1>4. PICK p : p = at[k] OBVIOUS
<1>5. PICK q : q = at[l] OBVIOUS
<1>6. p \in 1..Len(ms) /\ p \in Nat BY <1>4, ThinnedFacts
<1>7. q \in 1..Len(ms) /\ q \in Nat /\ ms[q].role = "tool"
  <2>1. q \in 1..Len(ms) /\ q \in Nat /\ r[l].role = ms[q].role
    BY <1>3, <1>5, ThinnedFacts
  <2> QED BY <1>2, <2>1
<1>8. p < q BY <1>3, <1>4, <1>5, ThinnedOrder
<1>9. DOMAIN ms = 1..Len(ms) BY ThinnedFacts
<1>10. PICK i \in 1..(q - 1) : Joins(ms, i, q) /\ ms[q].reply \in CallIds(ms[i])
  BY <1>7, <1>9 DEF Tied
<1>11. i \in 1..Len(ms) /\ i \in Nat /\ i < q BY <1>1, <1>7
<1>12. OnlyReplies(ms, i, q) BY <1>10 DEF Joins, OnlyReplies
<1>13. ms[i].role = "assistant" BY <1>10 DEF Joins
<1>14. CallIds(ms[i]) # {} BY <1>10
<1>15. PICK j \in 1..Len(r) : at[j] = i BY <1>11, <1>14, ThinnedCaller
<1>16. ~(p < i)
  <2> SUFFICES ASSUME p < i PROVE FALSE OBVIOUS
  <2>1. k < j BY <1>4, <1>15, ThinnedOrder
  <2>2. j < l BY <1>3, <1>5, <1>11, <1>15, ThinnedOrder
  <2> QED BY <1>1, <1>2, <1>3, <2>1, <2>2
<1>17. p + 1 \in (i + 1)..q BY <1>6, <1>7, <1>8, <1>11, <1>16
<1>18. ms[p + 1].role = "tool" BY <1>12, <1>17 DEF OnlyReplies
<1>19. p # Len(ms) BY <1>1, <1>6, <1>7, <1>8
<1> QED BY <1>4, <1>18, <1>19 DEF EndsAt

LEMMA ThinnedLast ==
    ASSUME NEW r, NEW ms, NEW at, Thinned(r, ms, at), Tied(ms)
    PROVE  /\ \A R : RepliesIn(ms, R) => RepliesIn(r, R)
           /\ \A S : LastReplies(ms, S) => LastReplies(r, S)
<1>1. \A k \in 1..Len(r) : /\ at[k] \in 1..Len(ms) /\ r[k].role = ms[at[k]].role
                           /\ r[k].reply = ms[at[k]].reply
  BY DEF Thinned
<1>2. \A k \in 1..Len(r) : EndsAt(ms, at[k]) => EndsAt(r, k) BY ThinnedEnds
<1>3. \A R : RepliesIn(ms, R) => RepliesIn(r, R) BY <1>1 DEF RepliesIn
<1>4. \A S : LastReplies(ms, S) => LastReplies(r, S) BY <1>1, <1>2 DEF LastReplies
<1> QED BY <1>3, <1>4
=============================================================================
