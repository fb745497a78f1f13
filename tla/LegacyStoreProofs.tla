--------------------------- MODULE LegacyStoreProofs ---------------------------
(***************************************************************************)
(* Theorems about LegacyStore for any number of sessions, tasks, rows,     *)
(* operations, failing Redis calls, cancelled callers and restarts: the    *)
(* tables keep their links, the caches are stale only where a write was    *)
(* overtaken or abandoned, and through the adapter the tables implement    *)
(* ConversationPort. The lemmas on sequences are those of                  *)
(* ContextWindowProofs; nothing here depends on the budget that its        *)
(* constants describe.                                                     *)
(***************************************************************************)
EXTENDS LegacyStore, ContextWindowProofs, FiniteSetTheorems

-----------------------------------------------------------------------------
(* Sequence numbers *)

\* A non-empty set of row ids has a least member.
LEMMA LeastId ==
    ASSUME NEW S, S \subseteq Nat, S # {}
    PROVE  Min(S) \in S /\ \A i \in S : Min(S) <= i
<1>1. PICK i \in S : \A j \in S : i <= j
  BY LeastNatural
<1>2. QED
  BY <1>1 DEF Min

\* A non-empty set of ids up to MaxRows has a greatest member.
LEMMA GreatestId ==
    ASSUME NEW S, S \subseteq Ids, S # {}
    PROVE  Max(S) \in S /\ \A i \in S : i <= Max(S)
<1> USE RowsAssumption
<1> DEFINE Below == {MaxRows - i : i \in S}
<1>1. PICK n \in Below : \A m \in Below : n <= m
  <2>1. \A i \in S : MaxRows - i \in Nat
    BY DEF Ids
  <2>2. Below \subseteq Nat /\ Below # {}
    BY <2>1
  <2>3. QED
    BY <2>2, LeastNatural
<1>2. PICK i \in S : n = MaxRows - i
  BY <1>1
<1>3. \A j \in S : j <= i
  <2> TAKE j \in S
  <2>1. n <= MaxRows - j
    BY <1>1
  <2>2. QED
    BY <2>1, <1>2 DEF Ids
<1>4. QED
  BY <1>3 DEF Max

\* A new row takes an id that no row has.
LEMMA NextIdIsNew ==
    ASSUME NEW rows, DOMAIN rows \subseteq Ids
    PROVE  NextId(rows) \in Nat \ {NoLink} /\ NextId(rows) \notin DOMAIN rows
<1>1. CASE DOMAIN rows = {}
  BY <1>1 DEF NextId, NoLink
<1>2. CASE DOMAIN rows # {}
  <2>1. Max(DOMAIN rows) \in DOMAIN rows /\ \A i \in DOMAIN rows : i <= Max(DOMAIN rows)
    BY <1>2, GreatestId
  <2>2. QED
    BY <1>2, <2>1, RowsAssumption DEF NextId, NoLink, Ids
<1>3. QED
  BY <1>1, <1>2

\* Only an injected skill makes a row of kind "skill".
LEMMA OnlyInjectionsAreSkills ==
    ASSUME NEW m
    PROVE  KindFor(m) = "skill" <=> IsInjection(m)
BY DEF KindFor

-----------------------------------------------------------------------------
(* The transactions keep the tables of one session in order *)

InOrderly(x) == IsSession(x) /\ LinksHold(x)

\* A transaction on the messages moves no session to another owner or state.
SameSession(x, y) == y.status = x.status /\ y.workspace = x.workspace

\* add_message
LEMMA AddRowKeeps ==
    ASSUME NEW x, InOrderly(x), HasRoom(x), NEW m, ~IsInjection(m)
    PROVE  InOrderly(AddRow(x, m)) /\ SameSession(x, AddRow(x, m))
<1> DEFINE id == NextId(x.rows)
           rows == With(x.rows, id, RowOf(m))
<1>1. id \in Ids /\ id \notin DOMAIN x.rows
  BY NextIdIsNew DEF InOrderly, IsSession, HasRoom
<1>2. /\ DOMAIN rows = DOMAIN x.rows \cup {id}
      /\ \A i \in DOMAIN x.rows : rows[i] = x.rows[i]
      /\ rows[id].kind # "skill"
  BY <1>1, OnlyInjectionsAreSkills DEF With, RowOf
<1>3. AddRow(x, m) = [x EXCEPT !.rows = rows]
  BY DEF AddRow
<1> HIDE DEF rows, id
<1>4. IsSession(AddRow(x, m)) /\ SameSession(x, AddRow(x, m))
  BY <1>1, <1>2, <1>3 DEF InOrderly, IsSession, SameSession
<1>5. LinksHold(AddRow(x, m))
  BY <1>1, <1>2, <1>3 DEF InOrderly, IsSession, LinksHold
<1>6. QED
  BY <1>4, <1>5 DEF InOrderly

\* inject_skill_message
LEMMA InjectRowKeeps ==
    ASSUME NEW x, InOrderly(x), HasRoom(x), NEW m, IsInjection(m), m.skill \in Skills,
           x.links[m.skill] = NoLink
    PROVE  LET y == InjectRow(x, m.skill, m) IN InOrderly(y) /\ SameSession(x, y)
<1> DEFINE id == NextId(x.rows)
           rows == With(x.rows, id, RowOf(m))
           y == InjectRow(x, m.skill, m)
<1>1. id \in Ids /\ id # NoLink /\ id \notin DOMAIN x.rows
  BY NextIdIsNew DEF InOrderly, IsSession, HasRoom
<1>2. /\ DOMAIN rows = DOMAIN x.rows \cup {id}
      /\ \A i \in DOMAIN x.rows : rows[i] = x.rows[i]
      /\ rows[id].kind = "skill" /\ rows[id].message = m
  BY <1>1, OnlyInjectionsAreSkills DEF With, RowOf
<1>3. y = [[x EXCEPT !.rows = rows] EXCEPT !.links[m.skill] = id]
  BY DEF AddRow, InjectRow
<1> HIDE DEF rows, id, y
<1>4. /\ y.rows = rows /\ y.links = [x.links EXCEPT ![m.skill] = id]
      /\ IsSession(y) /\ SameSession(x, y)
  BY <1>1, <1>2, <1>3 DEF InOrderly, IsSession, SameSession
<1>5. LinksHold(y)
  <2> USE DEF InOrderly, IsSession, LinksHold
  <2>1. \A h \in Skills : y.links[h] # NoLink =>
           /\ y.links[h] \in DOMAIN y.rows
           /\ y.rows[y.links[h]].kind = "skill"
           /\ y.rows[y.links[h]].message.skill = h
    BY <1>1, <1>2, <1>4
  <2>2. ASSUME NEW i \in DOMAIN y.rows, y.rows[i].kind = "skill"
        PROVE  /\ y.rows[i].message.skill \in Skills
               /\ y.links[y.rows[i].message.skill] = i
    <3>1. CASE i = id
      BY <1>2, <1>4, <3>1
    <3>2. CASE i # id
      <4>1. i \in DOMAIN x.rows /\ y.rows[i] = x.rows[i]
        BY <1>2, <1>4, <3>2
      <4>2. x.rows[i].message.skill \in Skills /\ x.links[x.rows[i].message.skill] = i
        BY <2>2, <4>1
      <4>3. x.rows[i].message.skill # m.skill
        BY <1>1, <4>1, <4>2 DEF NoLink, Ids
      <4>4. QED
        BY <1>4, <4>1, <4>2, <4>3
    <3>3. QED
      BY <3>1, <3>2
  <2>3. QED
    BY <2>1, <2>2
<1>6. QED
  BY <1>4, <1>5 DEF InOrderly, y

\* remove_skill
LEMMA RemoveRowKeeps ==
    ASSUME NEW x, InOrderly(x), NEW k \in Skills, x.links[k] # NoLink
    PROVE  InOrderly(RemoveRow(x, k)) /\ SameSession(x, RemoveRow(x, k))
<1> DEFINE id == x.links[k]
           y == RemoveRow(x, k)
<1>1. id \in DOMAIN x.rows /\ x.rows[id].kind = "skill" /\ x.rows[id].message.skill = k
  BY DEF InOrderly, LinksHold
<1>2. /\ DOMAIN y.rows \subseteq DOMAIN x.rows
      /\ \A i \in DOMAIN x.rows \ {id} : i \in DOMAIN y.rows /\ y.rows[i] = x.rows[i]
      /\ id \in DOMAIN y.rows => y.rows[id].kind # "skill"
  <2>1. CASE x.rows[id].message.role = "tool"
    <3>1. y.rows = With(x.rows, id, RedactedRow(x.rows[id]))
      BY <2>1 DEF RemoveRow, InOrderly, IsSession
    <3>2. QED
      BY <3>1, <1>1 DEF With, RedactedRow
  <2>2. CASE x.rows[id].message.role # "tool"
    <3>1. y.rows = Without(x.rows, {id})
      BY <2>2 DEF RemoveRow, InOrderly, IsSession
    <3>2. QED
      BY <3>1 DEF Without
  <2>3. QED
    BY <2>1, <2>2
<1>3. /\ y.links = [x.links EXCEPT ![k] = NoLink] /\ SameSession(x, y)
      /\ y = [status |-> y.status, workspace |-> y.workspace, title |-> y.title,
              rows |-> y.rows, links |-> y.links]
  BY DEF RemoveRow, InOrderly, IsSession, SameSession
<1> HIDE DEF id, y
<1>4. IsSession(y)
  BY <1>2, <1>3 DEF InOrderly, IsSession, SameSession
<1>5. LinksHold(y)
  <2> USE DEF InOrderly, IsSession, LinksHold
  <2>1. ASSUME NEW h \in Skills, y.links[h] # NoLink
        PROVE  /\ y.links[h] \in DOMAIN y.rows
               /\ y.rows[y.links[h]].kind = "skill"
               /\ y.rows[y.links[h]].message.skill = h
    <3>1. h # k /\ y.links[h] = x.links[h]
      BY <1>3, <2>1
    <3>2. x.links[h] \in DOMAIN x.rows \ {id} /\ x.rows[x.links[h]].kind = "skill"
          /\ x.rows[x.links[h]].message.skill = h
      BY <1>1, <2>1, <3>1
    <3>3. QED
      BY <1>2, <3>1, <3>2
  <2>2. ASSUME NEW i \in DOMAIN y.rows, y.rows[i].kind = "skill"
        PROVE  /\ y.rows[i].message.skill \in Skills
               /\ y.links[y.rows[i].message.skill] = i
    <3>1. i \in DOMAIN x.rows \ {id} /\ y.rows[i] = x.rows[i]
      BY <1>2, <2>2
    <3>2. x.rows[i].message.skill # k
      BY <2>2, <3>1 DEF id
    <3>3. QED
      BY <1>3, <2>2, <3>1, <3>2
  <2>3. QED
    BY <2>1, <2>2
<1>6. QED
  BY <1>3, <1>4, <1>5 DEF InOrderly, y

\* replace_all_messages: of messages that inject a skill at most once.
LEMMA ReplaceRowsKeeps ==
    ASSUME NEW x, InOrderly(x), NEW messages, DOMAIN messages \subseteq Ids,
           InjectsOnce(messages)
    PROVE  LET y == ReplaceRows(x, messages) IN InOrderly(y) /\ SameSession(x, y)
<1> DEFINE rows == [i \in DOMAIN messages |-> RowOf(messages[i])]
           Of(k) == {i \in DOMAIN rows : rows[i].kind = "skill" /\ messages[i].skill = k}
           links == [k \in Skills |-> IF Of(k) = {} THEN NoLink ELSE Min(Of(k))]
           y == ReplaceRows(x, messages)
<1>1. y = [[x EXCEPT !.rows = rows] EXCEPT !.links = links]
  BY DEF ReplaceRows
<1>2. \A i \in DOMAIN rows :
        /\ rows[i].message = messages[i]
        /\ rows[i].kind = "skill" <=> IsInjection(messages[i])
  BY OnlyInjectionsAreSkills DEF RowOf
<1>3. \A k \in Skills : \A i, j \in Of(k) : i = j
  BY <1>2 DEF InjectsOnce, Injects
<1>4. \A k \in Skills : Of(k) # {} => Min(Of(k)) \in Of(k)
  <2> TAKE k \in Skills
  <2>1. Of(k) \subseteq Nat
    BY RowsAssumption DEF Ids
  <2> HIDE DEF Of
  <2>2. QED
    BY <2>1, LeastId
<1>5. \A k \in Skills : links[k] \in Of(k) \/ (links[k] = NoLink /\ Of(k) = {})
  BY <1>4
<1>6. /\ y.rows = rows /\ y.links = links /\ SameSession(x, y) /\ IsSession(y)
  <2>1. links \in [Skills -> Ids \cup {NoLink}]
    BY <1>5
  <2> HIDE DEF links, rows, y
  <2>2. DOMAIN rows \subseteq Ids
    BY DEF rows
  <2>3. QED
    BY <2>1, <2>2, <1>1 DEF InOrderly, IsSession, SameSession
<1>7. LinksHold(y)
  <2>1. \A k \in Skills : links[k] # NoLink =>
          /\ links[k] \in DOMAIN rows
          /\ rows[links[k]].kind = "skill" /\ rows[links[k]].message.skill = k
    BY <1>2, <1>5
  <2>2. \A i \in DOMAIN rows : rows[i].kind = "skill" =>
          /\ rows[i].message.skill \in Skills
          /\ links[rows[i].message.skill] = i
    <3> SUFFICES ASSUME NEW i \in DOMAIN rows, rows[i].kind = "skill"
                 PROVE  /\ messages[i].skill \in Skills
                        /\ links[messages[i].skill] = i
      BY <1>2
    <3>1. messages[i].skill \in Skills /\ i \in Of(messages[i].skill)
      BY <1>2 DEF InjectsOnce
    <3> DEFINE skill == messages[i].skill
    <3>2. links[skill] \in Of(skill)
      BY <3>1, <1>5
    <3> HIDE DEF Of, links
    <3>3. QED
      BY <3>1, <3>2, <1>3
  <2> HIDE DEF links, rows, y
  <2>3. QED
    BY <2>1, <2>2, <1>6 DEF LinksHold
<1>8. QED
  BY <1>6, <1>7 DEF InOrderly

\* compact_messages leaves the rows of skills alone.
LEMMA CompactRowsKeeps ==
    ASSUME NEW x, InOrderly(x), NEW ids
    PROVE  InOrderly(CompactRows(x, ids)) /\ SameSession(x, CompactRows(x, ids))
<1> DEFINE selected == {i \in ids \cap DOMAIN x.rows : x.rows[i].kind # "skill"}
           y == CompactRows(x, ids)
<1>1. CASE selected = {}
  BY <1>1 DEF CompactRows, Compacted, SameSession
<1>2. CASE selected # {}
  <2>1. Min(selected) \in selected
    <3>1. selected \subseteq Nat
      BY RowsAssumption DEF InOrderly, IsSession, Ids
    <3> HIDE DEF selected
    <3>2. QED
      BY <3>1, <1>2, LeastId
  <2>2. y = [x EXCEPT !.rows = With(Without(x.rows, selected), Min(selected), SummaryRow)]
    BY <1>2 DEF CompactRows, Compacted
  <2>3. /\ DOMAIN y.rows \subseteq DOMAIN x.rows
        /\ \A i \in DOMAIN x.rows : x.rows[i].kind = "skill" =>
              i \in DOMAIN y.rows /\ y.rows[i] = x.rows[i]
        /\ \A i \in DOMAIN y.rows : y.rows[i].kind = "skill" => y.rows[i] = x.rows[i]
    <3> DEFINE rows == With(Without(x.rows, selected), Min(selected), SummaryRow)
    <3>1. DOMAIN rows = (DOMAIN x.rows \ selected) \cup {Min(selected)}
      BY DEF With, Without
    <3>2. \A i \in DOMAIN rows :
             rows[i] = IF i = Min(selected) THEN SummaryRow ELSE x.rows[i]
      BY DEF With, Without
    <3>3. SummaryRow.kind # "skill"
      BY DEF SummaryRow
    <3>4. y.rows = rows
      BY <2>2 DEF InOrderly, IsSession
    <3> HIDE DEF rows, y
    <3>5. QED
      BY <3>1, <3>2, <3>3, <3>4, <2>1
  <2>4. /\ y.links = x.links /\ SameSession(x, y)
        /\ y = [status |-> y.status, workspace |-> y.workspace, title |-> y.title,
                rows |-> y.rows, links |-> y.links]
    BY <2>2 DEF InOrderly, IsSession, SameSession
  <2> HIDE DEF y
  <2>5. IsSession(y) /\ LinksHold(y)
    BY <2>3, <2>4 DEF InOrderly, IsSession, LinksHold, SameSession
  <2>6. QED
    BY <2>4, <2>5 DEF InOrderly, y
<1>3. QED
  BY <1>1, <1>2

-----------------------------------------------------------------------------
(* What every write brings about, whichever transaction it is *)

Sweeps(sweep, key) == \E i \in DOMAIN sweep : key \in sweep[i]

\* The session was not deleted yet and ends in order, with an owner that exists.
Settled(s, x) ==
    /\ s \in Sessions /\ db[s].status # "deleted"
    /\ InOrderly(x)
    /\ Live(x) => x.workspace \in workspaces'
    /\ workspaces \subseteq workspaces' /\ workspaces' \subseteq Workspaces

\* Task t is, or becomes, the only one that works for the agent of session r.
Working(t, r) == tasks[t].agent = r \/ AgentFree(r)

\* The invalidation covers all that a write outdates; and only the agent that works
\* on a session outdates what the agent reads, or the one who deletes the session.
Proper(t, s, x, sweep, agent) ==
    /\ Settled(s, x)
    /\ sweep \in Seq(SUBSET Keys) /\ sweep # <<>>
    /\ \A key \in Changed(s, x) : Sweeps(sweep, key)
    /\ agent \in Sessions \cup {NoSession}
    /\ agent # NoSession => Working(t, agent)
    /\ \A r \in Sessions : AgentKey(r) \in Changed(s, x) /\ x.status # "deleted" =>
          agent = r

\* A transaction whose task goes on to invalidate.
Awaited(t, s, x, sweep, agent) ==
    /\ Commit(t, s, x, sweep, agent) /\ Proper(t, s, x, sweep, agent)
    /\ tasks[t].step \in {"idle", "listed"}
    /\ Served \/ UNCHANGED served

\* A transaction whose caller was cancelled, before this step or by it.
Unattended(s, x) ==
    /\ LateCommit(s, x) /\ Settled(s, x)
    /\ \/ Mishap /\ UNCHANGED tasks /\ Served
       \/ /\ \E t \in Tasks : tasks[t].step = "abandoned" /\ Ends(t)
          /\ UNCHANGED <<served, faults>>

\* The keys of the caches, and what is stored under each.
LEMMA AnswersByKey ==
    ASSUME NEW d
    PROVE  /\ \A w \in Scopes, s \in Sessions :
                Answer(d, SessionKey(w, s)) = SessionAnswer(d, w, s)
           /\ \A w \in Workspaces : Answer(d, ListKey(w)) = ListAnswer(d, w)
           /\ \A w \in Scopes, s \in Sessions, window \in Windows :
                Answer(d, MessagesKey(s, w, window)) = MessagesAnswer(d, s, w, window)
BY DEF Answer, SessionKey, ListKey, MessagesKey

\* The prefixes that a write deletes hold only keys of the cache.
LEMMA SweptPrefixes ==
    ASSUME NEW w \in Workspaces, NEW s \in Sessions
    PROVE  SessionKeys \subseteq Keys /\ {ListKey(w)} \subseteq Keys /\ MessagesKeys(s) \subseteq Keys
BY DEF Keys

\* A transaction on s outdates the lists of its owners, before and after, the
\* sessions of its id, and its message pages.
LEMMA ChangedKeys ==
    ASSUME DOMAIN db = Sessions, NEW s \in Sessions, NEW x, NEW key, key \in Changed(s, x)
    PROVE  /\ key \in SessionKeys \cup {ListKey(w) : w \in Workspaces} \cup MessagesKeys(s)
           /\ \A w \in Workspaces : key = ListKey(w) => Visible(db[s], w) \/ Visible(x, w)
           /\ key \in SessionKeys \cup MessagesKeys(s) => Live(db[s])
           /\ key \in MessagesKeys(s) =>
                 \/ x.rows # db[s].rows \/ x.status # db[s].status
                 \/ x.workspace # db[s].workspace
<1> DEFINE after == [db EXCEPT ![s] = x]
<1>1. /\ after[s] = x /\ \A r \in Sessions : r # s => after[r] = db[r]
      /\ Answer(db, key) # Nothing /\ Answer(db, key) # Answer(after, key)
  BY DEF Changed
<1> HIDE DEF after
<1>2. ASSUME NEW w \in Scopes, NEW r \in Sessions, key = SessionKey(w, r)
      PROVE  Live(db[s])
  <2>1. SessionAnswer(db, w, r) # Nothing /\ SessionAnswer(db, w, r) # SessionAnswer(after, w, r)
    BY <1>1, <1>2, AnswersByKey
  <2>2. QED
    BY <1>1, <2>1 DEF SessionAnswer, SessionDict, Visible
<1>3. ASSUME NEW w \in Workspaces, key = ListKey(w)
      PROVE  Visible(db[s], w) \/ Visible(x, w)
  <2>1. SUFFICES ASSUME ~Visible(db[s], w), ~Visible(x, w) PROVE FALSE
    OBVIOUS
  <2>2. \A r \in Sessions : Visible(after[r], w) <=> Visible(db[r], w)
    BY <1>1, <2>1
  <2>3. \A r \in Sessions : Visible(db[r], w) => SessionDict(after, r) = SessionDict(db, r)
    BY <1>1, <2>1 DEF SessionDict
  <2>4. {SessionDict(after, r) : r \in {q \in Sessions : Visible(after[q], w)}}
          = {SessionDict(db, r) : r \in {q \in Sessions : Visible(db[q], w)}}
    BY <2>2, <2>3
  <2>5. ListAnswer(after, w) = ListAnswer(db, w)
    BY <2>4 DEF ListAnswer
  <2>6. QED
    BY <1>1, <1>3, <2>5, AnswersByKey
<1>4. ASSUME NEW r \in Sessions, NEW w \in Scopes, NEW window \in Windows,
             key = MessagesKey(r, w, window)
      PROVE  /\ r = s /\ Live(db[s])
             /\ \/ x.rows # db[s].rows \/ x.status # db[s].status
                \/ x.workspace # db[s].workspace
  <2>1. /\ MessagesAnswer(db, r, w, window) # Nothing
        /\ MessagesAnswer(db, r, w, window) # MessagesAnswer(after, r, w, window)
    BY <1>1, <1>4, AnswersByKey
  <2>2. r = s /\ Visible(db[s], w)
    BY <1>1, <2>1 DEF MessagesAnswer
  <2>3. QED
    BY <1>1, <2>1, <2>2 DEF MessagesAnswer, Visible, Live
<1>5. key \in Keys
  BY DEF Changed
<1>6. key \in SessionKeys \cup {ListKey(w) : w \in Workspaces} \cup MessagesKeys(s)
  BY <1>4, <1>5 DEF Keys, MessagesKeys
<1>7. key \in SessionKeys => Live(db[s])
  BY <1>2 DEF SessionKeys
<1>8. key \in MessagesKeys(s) =>
        /\ Live(db[s])
        /\ \/ x.rows # db[s].rows \/ x.status # db[s].status
           \/ x.workspace # db[s].workspace
  BY <1>4 DEF MessagesKeys
<1>9. QED
  BY <1>3, <1>6, <1>7, <1>8

\* The sequences of prefixes that the transactions invalidate.
LEMMA SweptKeys ==
    ASSUME NEW w \in Workspaces, NEW s \in Sessions
    PROVE  /\ \A sweep \in {AfterMessage(w, s), AfterDeletion(w, s)} :
                /\ sweep \in Seq(SUBSET Keys) /\ sweep # <<>>
                /\ \A key \in SessionKeys \cup {ListKey(w)} \cup MessagesKeys(s) : Sweeps(sweep, key)
           /\ AfterSession(w) \in Seq(SUBSET Keys) /\ AfterSession(w) # <<>>
           /\ \A key \in SessionKeys \cup {ListKey(w)} : Sweeps(AfterSession(w), key)
           /\ <<{ListKey(w)}>> \in Seq(SUBSET Keys) /\ <<{ListKey(w)}>> # <<>>
           /\ Sweeps(<<{ListKey(w)}>>, ListKey(w))
<1> DEFINE A == SessionKeys  B == {ListKey(w)}  C == MessagesKeys(s)
<1>1. A \in SUBSET Keys /\ B \in SUBSET Keys /\ C \in SUBSET Keys
  BY SweptPrefixes
<1>2. ListKey(w) \in B
  OBVIOUS
<1> HIDE DEF A, B, C
<1>3. /\ <<C, A, B>> \in Seq(SUBSET Keys) /\ <<A, B, C>> \in Seq(SUBSET Keys)
      /\ <<A, B>> \in Seq(SUBSET Keys) /\ <<B>> \in Seq(SUBSET Keys)
  BY <1>1
<1>4. /\ \A key \in A \cup B \cup C : Sweeps(<<C, A, B>>, key) /\ Sweeps(<<A, B, C>>, key)
      /\ \A key \in A \cup B : Sweeps(<<A, B>>, key)
      /\ \A key \in B : Sweeps(<<B>>, key)
  BY DEF Sweeps
<1>5. <<C, A, B>> # <<>> /\ <<A, B, C>> # <<>> /\ <<A, B>> # <<>> /\ <<B>> # <<>>
  OBVIOUS
<1>6. /\ AfterMessage(w, s) = <<C, A, B>> /\ AfterDeletion(w, s) = <<A, B, C>>
      /\ AfterSession(w) = <<A, B>> /\ <<{ListKey(w)}>> = <<B>>
      /\ SessionKeys = A /\ {ListKey(w)} = B /\ MessagesKeys(s) = C
  BY DEF AfterMessage, AfterDeletion, AfterSession, A, B, C
<1>7. QED
  BY <1>2, <1>3, <1>4, <1>5, <1>6

TablesInv == TypeOK /\ SkillLinksHold

\* What the agent reads changes only with the messages of its session.
LEMMA AgentAnswers ==
    ASSUME DOMAIN db = Sessions, NEW s \in Sessions, NEW x, NEW r \in Sessions,
           AgentKey(r) \in Changed(s, x)
    PROVE  /\ r = s /\ Live(db[s])
           /\ x.rows # db[s].rows \/ x.status # db[s].status
                 \/ x.workspace # db[s].workspace
<1> DEFINE key == AgentKey(r)
<1>1. key \notin SessionKeys /\ key \notin {ListKey(w) : w \in Workspaces}
  BY DEF AgentKey, MessagesKey, SessionKey, ListKey, SessionKeys
<1>2. key \in MessagesKeys(s) => r = s
  BY DEF AgentKey, MessagesKeys, MessagesKey
<1> HIDE DEF key
<1>3. key \in Changed(s, x)
  BY DEF key
<1>4. QED
  BY <1>1, <1>2, <1>3, ChangedKeys

\* A session in order that keeps its owner keeps what the owner's existence rests on.
LEMMA OwnersKnown ==
    ASSUME TablesInv, NEW s \in Sessions, Live(db[s])
    PROVE  /\ db[s].workspace \in workspaces /\ workspaces \subseteq Workspaces
           /\ db[s].workspace \in Workspaces /\ InOrderly(db[s])
           /\ DOMAIN db = Sessions
           /\ \A w \in Workspaces : Visible(db[s], w) => w = db[s].workspace
BY RowsAssumption DEF TablesInv, TypeOK, SkillLinksHold, InOrderly, Visible

\* What a session's rows become concerns its owner alone: it stays settled, and
\* the prefixes cover it.
LEMMA MessagesSettled ==
    ASSUME TablesInv, NEW s \in Sessions, NEW x, Live(db[s]),
           InOrderly(x), SameSession(db[s], x), UNCHANGED workspaces
    PROVE  /\ Settled(s, x)
           /\ LET sweep == AfterMessage(db[s].workspace, s)
              IN  /\ sweep \in Seq(SUBSET Keys) /\ sweep # <<>>
                  /\ \A key \in Changed(s, x) : Sweeps(sweep, key)
           /\ \A r \in Sessions : AgentKey(r) \in Changed(s, x) => s = r
<1> DEFINE w == db[s].workspace
           sweep == AfterMessage(w, s)
<1>1. /\ w \in workspaces /\ w \in Workspaces /\ workspaces' = workspaces
      /\ workspaces \subseteq Workspaces /\ DOMAIN db = Sessions
      /\ Live(x) /\ x.workspace = w /\ db[s].status = "live" /\ x.status = "live"
  BY OwnersKnown DEF SameSession, Live
<1>2. \A u \in Workspaces : Visible(db[s], u) \/ Visible(x, u) => u = w
  BY <1>1, OwnersKnown, RowsAssumption DEF Visible
<1>3. \A key \in Changed(s, x) : Sweeps(sweep, key)
  <2> TAKE key \in Changed(s, x)
  <2>1. key \in SessionKeys \cup {ListKey(u) : u \in Workspaces} \cup MessagesKeys(s)
        /\ \A u \in Workspaces : key = ListKey(u) => u = w
    BY <1>1, <1>2, ChangedKeys
  <2>2. QED
    BY <2>1, <1>1, SweptKeys
<1>4. sweep \in Seq(SUBSET Keys) /\ sweep # <<>>
  BY <1>1, SweptKeys
<1>5. \A r \in Sessions : AgentKey(r) \in Changed(s, x) => s = r
  BY <1>1, AgentAnswers
<1>6. Settled(s, x)
  BY <1>1 DEF Settled
<1>7. QED
  BY <1>3, <1>4, <1>5, <1>6

\* The transactions on messages.
LEMMA MessageWritesProper ==
    ASSUME TablesInv, NEW t \in Tasks, NEW s \in Sessions, NEW x, Live(db[s]),
           InOrderly(x), SameSession(db[s], x), WriteMessages(t, s, x)
    PROVE  (\E sweep, agent : Awaited(t, s, x, sweep, agent)) \/ Unattended(s, x)
<1>1. UNCHANGED workspaces
  BY DEF WriteMessages
<1> DEFINE sweep == AfterMessage(db[s].workspace, s)
<1>2. /\ Settled(s, x)
      /\ sweep \in Seq(SUBSET Keys) /\ sweep # <<>>
      /\ \A key \in Changed(s, x) : Sweeps(sweep, key)
      /\ \A r \in Sessions : AgentKey(r) \in Changed(s, x) => s = r
  BY <1>1, MessagesSettled
<1>3. CASE Starts(t) /\ AgentFree(s) /\ Commit(t, s, x, sweep, s)
  <2>1. tasks[t].step = "idle" /\ Served
    BY <1>3 DEF Starts, Idle
  <2> HIDE DEF sweep
  <2>2. Proper(t, s, x, sweep, s)
    BY <1>2, <1>3 DEF Proper, Working
  <2>3. QED
    BY <1>3, <2>1, <2>2 DEF Awaited
<1>4. CASE LateWrite(t, s, x)
  BY <1>2, <1>4 DEF LateWrite, Starts, Unattended
<1>5. QED
  BY <1>3, <1>4 DEF WriteMessages

\* The transactions of a browser.
LEMMA BrowserWrites ==
    ASSUME NEW t \in Tasks, NEW s, NEW x, NEW sweep, Write(t, s, x, sweep),
           Proper(t, s, x, sweep, NoSession)
    PROVE  Awaited(t, s, x, sweep, NoSession) \/ Unattended(s, x)
BY DEF Write, LateWrite, Starts, Idle, Awaited, Unattended, Proper

\* A session that was just created, or deleted, has no rows and no links, so both
\* agree (create_session, delete_session).
LEMMA NewSessionsInOrder ==
    ASSUME NEW status \in {"live", "deleted"}, NEW w, NEW title
    PROVE  InOrderly(Session(status, w, title))
<1>1. NoLinks \in [Skills -> Ids \cup {NoLink}] /\ \A k \in Skills : NoLinks[k] = NoLink
  BY DEF NoLinks
<1>2. DOMAIN NoRows = {}
  BY DEF NoRows
<1> DEFINE x == Session(status, w, title)
<1>3. /\ x = [status |-> x.status, workspace |-> x.workspace, title |-> x.title,
              rows |-> x.rows, links |-> x.links]
      /\ x.status \in {"unborn", "live", "deleted"} /\ x.rows = NoRows /\ x.links = NoLinks
  <2> HIDE DEF NoRows, NoLinks
  <2>1. QED
    BY DEF Session
<1> HIDE DEF NoRows, NoLinks, x
<1>4. IsSession(x)
  BY <1>1, <1>2, <1>3 DEF IsSession
<1>5. LinksHold(x)
  BY <1>1, <1>2, <1>3 DEF LinksHold
<1>6. QED
  BY <1>4, <1>5 DEF InOrderly, x

\* The transactions on the sessions themselves.
LEMMA SessionWritesProper ==
    ASSUME TablesInv, NEW t \in Tasks,
           CreateSession(t) \/ RenameSession(t) \/ DeleteSession(t)
    PROVE  \/ \E s, x, sweep, agent : Awaited(t, s, x, sweep, agent)
           \/ \E s, x : Unattended(s, x)
<1> USE DEF TablesInv
<1>0. DOMAIN db = Sessions /\ workspaces \subseteq Workspaces
  BY DEF TypeOK
<1>1. CASE CreateSession(t)
  <2>1. PICK w \in Workspaces, s \in Sessions, title \in Titles :
           /\ db[s].status = "unborn"
           /\ Write(t, s, Born(w, title), <<{ListKey(w)}>>)
           /\ workspaces' = workspaces \cup {w}
    BY <1>1 DEF CreateSession
  <2> DEFINE x == Born(w, title)
  <2>2. x.status = "live" /\ x.workspace = w
    BY DEF Born, Session
  <2>3. InOrderly(x)
    BY NewSessionsInOrder DEF Born
  <2> HIDE DEF x
  <2>4. \A u \in Workspaces : ~Visible(db[s], u) /\ (Visible(x, u) => u = w)
    BY <2>1, <2>2, RowsAssumption DEF Visible, Live
  <2>5. \A key \in Changed(s, x) : key = ListKey(w)
    BY <1>0, <2>1, <2>4, ChangedKeys DEF Live
  <2>6. \A r \in Sessions : AgentKey(r) \notin Changed(s, x)
    BY <1>0, <2>1, AgentAnswers DEF Live
  <2>7. Proper(t, s, x, <<{ListKey(w)}>>, NoSession)
    BY <1>0, <2>1, <2>2, <2>3, <2>5, <2>6, SweptKeys, LegacyAssumption DEF Proper, Settled
  <2>8. QED
    BY <2>1, <2>7, BrowserWrites DEF x
<1>2. CASE RenameSession(t)
  <2>1. PICK u \in Scopes, s \in Sessions, title \in Titles :
           /\ Visible(db[s], u)
           /\ Write(t, s, [db[s] EXCEPT !.title = title],
                    AfterSession(db[s].workspace))
           /\ UNCHANGED workspaces
    BY <1>2 DEF RenameSession
  <2> DEFINE x == [db[s] EXCEPT !.title = title]
             w == db[s].workspace
  <2>2. Live(db[s])
    BY <2>1 DEF Visible
  <2>3. /\ x.status = "live" /\ x.workspace = w
        /\ x.rows = db[s].rows /\ x.links = db[s].links /\ IsSession(x)
    BY <2>2 DEF TypeOK, IsSession, Live
  <2>4. w \in workspaces /\ w \in Workspaces /\ InOrderly(db[s]) /\ db[s].status = "live"
    BY <2>2, OwnersKnown DEF Live
  <2> HIDE DEF x, w
  <2>5. InOrderly(x)
    BY <2>3, <2>4 DEF InOrderly, LinksHold
  <2>6. \A v \in Workspaces : Visible(db[s], v) \/ Visible(x, v) => v = w
    BY <2>2, <2>3, OwnersKnown, RowsAssumption DEF Visible, w
  <2>7. \A key \in Changed(s, x) : key \in SessionKeys \cup {ListKey(w)}
    BY <1>0, <2>3, <2>4, <2>6, ChangedKeys DEF w
  <2>8. \A key \in Changed(s, x) : Sweeps(AfterSession(w), key)
    BY <2>4, <2>7, SweptKeys
  <2>9. \A r \in Sessions : AgentKey(r) \notin Changed(s, x)
    BY <1>0, <2>3, <2>4, AgentAnswers DEF w
  <2>10. Proper(t, s, x, AfterSession(w), NoSession)
    BY <1>0, <2>1, <2>3, <2>4, <2>5, <2>8, <2>9, SweptKeys, LegacyAssumption DEF Proper, Settled
  <2>11. QED
    BY <2>1, <2>10, BrowserWrites DEF x, w
<1>3. CASE DeleteSession(t)
  <2>1. PICK u \in Scopes, s \in Sessions :
           /\ Visible(db[s], u)
           /\ Write(t, s, Dropped, AfterDeletion(db[s].workspace, s))
           /\ UNCHANGED workspaces
    BY <1>3 DEF DeleteSession
  <2> DEFINE w == db[s].workspace
             sweep == AfterDeletion(w, s)
  <2>2. Live(db[s])
    BY <2>1 DEF Visible
  <2>3. w \in Workspaces /\ db[s].status = "live"
    BY <2>2, OwnersKnown DEF Live
  <2>4. Dropped.status = "deleted" /\ ~Live(Dropped)
    BY DEF Dropped, Session, Live
  <2>5. InOrderly(Dropped)
    BY NewSessionsInOrder DEF Dropped
  <2>6. \A v \in Workspaces : Visible(db[s], v) \/ Visible(Dropped, v) => v = w
    BY <2>2, <2>4, OwnersKnown DEF Visible
  <2> HIDE DEF w
  <2>7. \A key \in Changed(s, Dropped) : key \in SessionKeys \cup {ListKey(w)} \cup MessagesKeys(s)
    BY <1>0, <2>6, ChangedKeys
  <2>8. \A key \in Changed(s, Dropped) : Sweeps(sweep, key)
    BY <2>3, <2>7, SweptKeys
  <2>9. sweep \in Seq(SUBSET Keys) /\ sweep # <<>>
    BY <2>3, SweptKeys
  <2> HIDE DEF sweep
  <2>10. Proper(t, s, Dropped, sweep, NoSession)
    BY <1>0, <2>1, <2>3, <2>4, <2>5, <2>8, <2>9, LegacyAssumption DEF Proper, Settled
  <2>11. QED
    BY <2>1, <2>10, BrowserWrites DEF sweep, w
<1>4. QED
  BY <1>1, <1>2, <1>3

\* A task that holds a list works for an agent.
LEMMA HoldersAreAgents ==
    ASSUME TablesInv, NEW t \in Tasks, tasks[t].step \in Holding
    PROVE  tasks[t].agent \in Sessions /\ tasks[t].held # Nothing
BY DEF TablesInv, TypeOK, IsTask

\* However old the list, what replaces the rows leaves the session in order.
LEMMA ReplacementsKeep ==
    ASSUME TablesInv, NEW t \in Tasks, NEW s \in Sessions, Live(db[s]),
           NEW x \in Replacements(t, s)
    PROVE  InOrderly(x) /\ SameSession(db[s], x)
<1>1. PICK messages : /\ DOMAIN messages \subseteq Ids /\ InjectsOnce(messages)
                      /\ x = ReplaceRows(db[s], messages)
  BY DEF Replacements
<1>2. InOrderly(db[s])
  BY OwnersKnown
<1>3. QED
  BY <1>1, <1>2, ReplaceRowsKeeps

\* Every transaction is proper.
LEMMA WritesProper ==
    ASSUME TablesInv, NEW t \in Tasks,
           \/ CreateSession(t) \/ RenameSession(t) \/ DeleteSession(t)
           \/ AddMessageRow(t) \/ InjectSkillMessage(t) \/ RemoveSkill(t)
           \/ ReplaceAllMessages(t) \/ LateReplace(t) \/ CompactMessages(t)
    PROVE  \/ \E s, x, sweep, agent : Awaited(t, s, x, sweep, agent)
           \/ \E s, x : Unattended(s, x)
<1>1. CASE CreateSession(t) \/ RenameSession(t) \/ DeleteSession(t)
  BY <1>1, SessionWritesProper
<1>2. CASE AddMessageRow(t)
  <2>1. PICK s \in Sessions, m \in Messages :
           Live(db[s]) /\ HasRoom(db[s]) /\ WriteMessages(t, s, AddRow(db[s], m))
    BY <1>2 DEF AddMessageRow
  <2>2. InOrderly(AddRow(db[s], m)) /\ SameSession(db[s], AddRow(db[s], m))
    BY <2>1, OwnersKnown, AddRowKeeps, LegacyAssumption
  <2>3. QED
    BY <2>1, <2>2, MessageWritesProper
<1>3. CASE InjectSkillMessage(t)
  <2>1. PICK s \in Sessions, m \in Injections :
           /\ Live(db[s]) /\ HasRoom(db[s])
           /\ db[s].links[m.skill] = NoLink
           /\ WriteMessages(t, s, InjectRow(db[s], m.skill, m))
    BY <1>3 DEF InjectSkillMessage
  <2> DEFINE x == InjectRow(db[s], m.skill, m)
  <2>2. InOrderly(x) /\ SameSession(db[s], x)
    BY <2>1, OwnersKnown, InjectRowKeeps, LegacyAssumption
  <2> HIDE DEF x
  <2>3. WriteMessages(t, s, x)
    BY <2>1 DEF x
  <2>4. QED
    BY <2>1, <2>2, <2>3, MessageWritesProper
<1>4. CASE RemoveSkill(t)
  <2>1. PICK s \in Sessions, k \in Skills :
           /\ Live(db[s]) /\ db[s].links[k] # NoLink
           /\ WriteMessages(t, s, RemoveRow(db[s], k))
    BY <1>4 DEF RemoveSkill
  <2>2. InOrderly(RemoveRow(db[s], k)) /\ SameSession(db[s], RemoveRow(db[s], k))
    BY <2>1, OwnersKnown, RemoveRowKeeps
  <2>3. QED
    BY <2>1, <2>2, MessageWritesProper
<1>5. CASE ReplaceAllMessages(t)
  <2> DEFINE s == tasks[t].agent
  <2>1. PICK x \in Replacements(t, s) : Commit(t, s, x, AfterMessage(db[s].workspace, s), s)
    BY <1>5 DEF ReplaceAllMessages
  <2>2. tasks[t].step = "listed" /\ Live(db[s]) /\ UNCHANGED <<workspaces, served>>
    BY <1>5 DEF ReplaceAllMessages
  <2>3. s \in Sessions
    BY <2>2, HoldersAreAgents DEF Holding
  <2> HIDE DEF s
  <2>4. InOrderly(x) /\ SameSession(db[s], x)
    BY <2>1, <2>2, <2>3, ReplacementsKeep
  <2>5. Working(t, s)
    BY DEF Working, s
  <2> DEFINE sweep == AfterMessage(db[s].workspace, s)
  <2>6. /\ Settled(s, x)
        /\ sweep \in Seq(SUBSET Keys) /\ sweep # <<>>
        /\ \A key \in Changed(s, x) : Sweeps(sweep, key)
        /\ \A r \in Sessions : AgentKey(r) \in Changed(s, x) => s = r
    BY <2>2, <2>3, <2>4, MessagesSettled
  <2>7. Commit(t, s, x, sweep, s)
    BY <2>1 DEF s
  <2> HIDE DEF sweep
  <2>8. Proper(t, s, x, sweep, s)
    BY <2>3, <2>5, <2>6 DEF Proper
  <2>9. QED
    BY <2>2, <2>7, <2>8 DEF Awaited
<1>6. CASE LateReplace(t)
  <2> DEFINE s == tasks[t].agent
  <2>1. PICK x \in Replacements(t, s) : LateCommit(s, x)
    BY <1>6 DEF LateReplace
  <2>2. /\ tasks[t].step = "abandoned" /\ Live(db[s]) /\ Ends(t)
        /\ UNCHANGED <<workspaces, served, faults>>
    BY <1>6 DEF LateReplace
  <2>3. s \in Sessions
    BY <2>2, HoldersAreAgents DEF Holding
  <2> HIDE DEF s
  <2>4. InOrderly(x) /\ SameSession(db[s], x)
    BY <2>1, <2>2, <2>3, ReplacementsKeep
  <2>5. Settled(s, x)
    BY <2>2, <2>3, <2>4, MessagesSettled
  <2>6. QED
    BY <2>1, <2>2, <2>5 DEF Unattended
<1>7. CASE CompactMessages(t)
  <2>1. PICK s \in Sessions : \E ids \in SUBSET DOMAIN db[s].rows :
           Live(db[s]) /\ WriteMessages(t, s, CompactRows(db[s], ids))
    BY <1>7 DEF CompactMessages
  <2>2. PICK ids \in SUBSET DOMAIN db[s].rows :
           Live(db[s]) /\ WriteMessages(t, s, CompactRows(db[s], ids))
    BY <2>1
  <2>3. InOrderly(CompactRows(db[s], ids)) /\ SameSession(db[s], CompactRows(db[s], ids))
    BY <2>2, OwnersKnown, CompactRowsKeeps
  <2>4. QED
    BY <2>2, <2>3, MessageWritesProper
<1>8. QED
  BY <1>1, <1>2, <1>3, <1>4, <1>5, <1>6, <1>7

-----------------------------------------------------------------------------
(* The tables *)

\* The steps of StoreNext other than the transactions.
CacheStep ==
    \/ \E t \in Tasks :
          \/ TakeAnswer(t) \/ Query(t) \/ QueryRows(t) \/ Fill(t) \/ FillRedis(t)
          \/ CancelRead(t) \/ Sweep(t) \/ SweepRedis(t) \/ CancelSweep(t)
          \/ ReadForBrowser(t) \/ ListMessages(t) \/ AbandonReplace(t) \/ LetGo(t)
    \/ \E w \in Workspaces : EnsureWorkspace(w)
    \/ Expire \/ Restart

\* Every step is one of the cache or of a task's reading, or a transaction that
\* leaves a settled session behind.
LEMMA StoreSteps ==
    ASSUME TablesInv, StoreNext
    PROVE  \/ CacheStep
           \/ \E t \in Tasks : \E s, x, sweep, agent : Awaited(t, s, x, sweep, agent)
           \/ \E s, x : Unattended(s, x)
BY WritesProper DEF StoreNext, CacheStep

\* The tasks that come about are well formed.
LEMMA TasksFormed ==
    /\ IsTask(Idle)
    /\ \A held : \A step \in Reading, key \in Keys, agent \in Sessions \cup {NoSession} :
          IsTask(Reader(step, key, held, agent))
    /\ \A sweep \in Seq(SUBSET Keys), changed \in SUBSET Keys,
          agent \in Sessions \cup {NoSession} :
          sweep # <<>> => IsTask(Writer(sweep, changed, agent))
    /\ \A held : \A agent \in Sessions :
          held # Nothing => IsTask(Reader("listed", NoKey, held, agent))
<1>1. IsTask(Idle)
  BY DEF Idle, IsTask, Steps, Reading, Sweeping, Holding
<1>2. ASSUME NEW step \in Reading, NEW key \in Keys, NEW held,
             NEW agent \in Sessions \cup {NoSession}
      PROVE  IsTask(Reader(step, key, held, agent))
  BY DEF Reader, IsTask, Steps, Reading, Sweeping, Holding
<1>3. ASSUME NEW sweep \in Seq(SUBSET Keys), NEW changed \in SUBSET Keys,
             NEW agent \in Sessions \cup {NoSession}, sweep # <<>>
      PROVE  IsTask(Writer(sweep, changed, agent))
  <2> DEFINE y == Writer(sweep, changed, agent)
  <2>1. /\ y = [step |-> y.step, key |-> y.key, held |-> y.held, sweep |-> y.sweep,
                changed |-> y.changed, agent |-> y.agent]
        /\ y.step = "sweep" /\ y.key = NoKey /\ y.sweep = sweep /\ y.changed = changed
        /\ y.agent = agent
    BY DEF Writer
  <2> HIDE DEF y
  <2>2. QED
    BY <1>3, <2>1 DEF y, IsTask, Steps, Reading, Sweeping, Holding
<1>4. ASSUME NEW held, NEW agent \in Sessions, held # Nothing
      PROVE  IsTask(Reader("listed", NoKey, held, agent))
  BY <1>4 DEF Reader, IsTask, Steps, Reading, Sweeping, Holding
<1>5. QED
  BY <1>1, <1>2, <1>3, <1>4

\* A task goes on.
LEMMA TasksGoOn ==
    ASSUME NEW task, IsTask(task), NEW step,
           \/ task.step \in Reading /\ step \in Reading
           \/ task.step \in Sweeping /\ step \in Sweeping
           \/ task.step \in Holding /\ step \in Holding
    PROVE  IsTask([task EXCEPT !.step = step])
<1> USE DEF IsTask, Steps, Reading, Sweeping, Holding
<1> DEFINE y == [task EXCEPT !.step = step]
<1>1. /\ y = [step |-> y.step, key |-> y.key, held |-> y.held, sweep |-> y.sweep,
              changed |-> y.changed, agent |-> y.agent]
      /\ y.step = step /\ y.key = task.key /\ y.sweep = task.sweep
      /\ y.changed = task.changed /\ y.agent = task.agent /\ y.held = task.held
  OBVIOUS
<1> HIDE DEF y
<1>2. IsTask(y)
  BY <1>1
<1>3. QED
  BY <1>2 DEF y

\* One task changes into a well-formed one.
LEMMA OneTaskMoves ==
    ASSUME TypeOK, NEW t \in Tasks, NEW task, IsTask(task), Goes(t, task)
    PROVE  /\ DOMAIN tasks' = Tasks /\ \A r \in Tasks : IsTask(tasks'[r])
           /\ tasks'[t] = task /\ \A r \in Tasks \ {t} : tasks'[r] = tasks[r]
BY DEF TypeOK, Goes

\* The parts of TypeOK that a change of one task leaves to show.
LEMMA TypedStep ==
    ASSUME TypeOK, NEW t \in Tasks, NEW task, IsTask(task), Goes(t, task),
           DOMAIN primary' = Keys, DOMAIN fallback' = Keys, suspect' \subseteq Keys,
           UNCHANGED <<workspaces, db, redis, restarts>>,
           Served \/ UNCHANGED served, Mishap \/ UNCHANGED faults
    PROVE  TypeOK'
<1>1. /\ served' \in 0..MaxOps
      /\ faults' \in 0..MaxMishaps /\ restarts' \in 0..(MaxMishaps - faults')
  BY LegacyAssumption DEF TypeOK, Served, Mishap
<1>2. QED
  BY <1>1, OneTaskMoves DEF TypeOK

\* A read in progress has a key.
LEMMA ReadersHaveKeys ==
    ASSUME TypeOK, NEW t \in Tasks, tasks[t].step \in Reading
    PROVE  tasks[t].key \in Keys /\ IsTask(tasks[t])
BY DEF TypeOK, IsTask

\* What becomes of a task whose read returns: an agent keeps what it found.
Returned(task, answer, agent) ==
    /\ IsTask(task) /\ task.key = NoKey /\ task.changed = {}
    /\ task.step \in {"idle", "listed"}
    /\ task.step = "idle" => task.agent = NoSession
    /\ task.step = "listed" => task.agent = agent /\ task.held = answer /\ answer # Nothing

\* A read that returns leaves such a task.
LEMMA ReadsReturn ==
    ASSUME NEW t \in Tasks, NEW answer, NEW agent \in Sessions \cup {NoSession},
           Returns(t, answer, agent)
    PROVE  \E task : Returned(task, answer, agent) /\ Goes(t, task)
<1>1. CASE agent = NoSession \/ answer = Nothing
  <2>1. Returned(Idle, answer, agent)
    BY TasksFormed DEF Returned, Idle
  <2>2. QED
    BY <1>1, <2>1 DEF Returns, Ends
<1>2. CASE ~(agent = NoSession \/ answer = Nothing)
  <2> DEFINE task == Reader("listed", NoKey, answer, agent)
  <2>1. /\ task.step = "listed" /\ task.key = NoKey /\ task.held = answer
        /\ task.changed = {} /\ task.agent = agent
    BY DEF Reader
  <2>2. IsTask(task)
    BY <1>2, TasksFormed
  <2>3. Goes(t, task)
    BY <1>2 DEF Returns
  <2> HIDE DEF task
  <2>4. QED
    BY <1>2, <2>1, <2>2, <2>3 DEF Returned
<1>3. QED
  BY <1>1, <1>2

\* What becomes of a task that reads key for an agent: it has the answer of the
\* process's own cache, or goes on.
LEMMA OwnAnswers ==
    ASSUME NEW t \in Tasks, NEW key \in Keys, NEW agent \in Sessions \cup {NoSession},
           AskOwn(t, key, agent)
    PROVE  \/ \E task : Returned(task, fallback[key], agent) /\ Goes(t, task)
           \/ Goes(t, Reader("query", key, Nothing, agent))
BY ReadsReturn DEF AskOwn

\* A task that goes on reading.
LEMMA ReadersFormed ==
    ASSUME NEW step \in Reading, NEW key \in Keys, NEW held,
           NEW agent \in Sessions \cup {NoSession}
    PROVE  \E task : /\ task = Reader(step, key, held, agent) /\ IsTask(task)
                     /\ task.step = step /\ task.key = key /\ task.held = held
                     /\ task.agent = agent /\ task.changed = {}
<1> DEFINE task == Reader(step, key, held, agent)
<1>1. /\ task.step = step /\ task.key = key /\ task.held = held
      /\ task.agent = agent /\ task.changed = {}
  BY DEF Reader
<1>2. IsTask(task)
  BY TasksFormed
<1>3. QED
  BY <1>1, <1>2

\* The steps of the caches keep the tables, and the types.
LEMMA ReadsTyped ==
    ASSUME TypeOK, NEW t \in Tasks, NEW key \in Keys,
           NEW agent \in Sessions \cup {NoSession}, Read(t, key, agent)
    PROVE  TypeOK' /\ db' = db /\ workspaces' = workspaces
<1>1. DOMAIN primary = Keys /\ DOMAIN fallback = Keys /\ suspect \subseteq Keys
  BY DEF TypeOK
<1>2. CASE AskRedis(t, key, agent)
  <2>1. /\ UNCHANGED <<workspaces, db, redis, primary, fallback, restarts>> /\ Served
        /\ suspect' = suspect \cup ({key} \cap Unswept)
    BY <1>2 DEF AskRedis
  <2>2. PICK held : /\ Goes(t, Reader("answered", key, held, agent))
                    /\ Mishap \/ UNCHANGED faults
    BY <1>2 DEF AskRedis, RedisAnswers, RedisFails
  <2>3. PICK task : task = Reader("answered", key, held, agent) /\ IsTask(task)
    BY ReadersFormed DEF Reading
  <2>4. Goes(t, task)
    BY <2>2, <2>3
  <2>5. QED
    BY <1>1, <2>1, <2>2, <2>3, <2>4, TypedStep
<1>3. CASE LookUp(t, key, agent)
  <2>1. /\ UNCHANGED <<workspaces, db, redis, primary, fallback, faults, restarts, suspect>>
        /\ Served /\ AskOwn(t, key, agent)
    BY <1>3 DEF LookUp
  <2>2. IsTask(Reader("query", key, Nothing, agent))
    BY TasksFormed DEF Reading
  <2>3. PICK task : IsTask(task) /\ Goes(t, task)
    BY <2>1, <2>2, OwnAnswers DEF Returned
  <2>4. QED
    BY <1>1, <2>1, <2>3, TypedStep
<1>4. QED
  BY <1>2, <1>3 DEF Read

\* Reading, sweeping, expiring and restarting keep the types and touch no session.
LEMMA CacheStepsTyped ==
    ASSUME TypeOK, CacheStep
    PROVE  TypeOK' /\ db' = db /\ workspaces \subseteq workspaces'
<1> USE LegacyAssumption
<1>1. DOMAIN primary = Keys /\ DOMAIN fallback = Keys /\ suspect \subseteq Keys
  BY DEF TypeOK
<1>2. ASSUME NEW t \in Tasks, TakeAnswer(t) PROVE TypeOK' /\ db' = db /\ workspaces' = workspaces
  <2>1. /\ UNCHANGED <<workspaces, db, redis, primary, served, faults, restarts, suspect>>
        /\ tasks[t].step = "answered" /\ DOMAIN fallback' = Keys
        /\ \/ Returns(t, tasks[t].held, tasks[t].agent)
           \/ AskOwn(t, tasks[t].key, tasks[t].agent)
    BY <1>1, <1>2 DEF TakeAnswer
  <2>2. tasks[t].key \in Keys /\ tasks[t].agent \in Sessions \cup {NoSession}
    BY <2>1, ReadersHaveKeys DEF Reading, IsTask
  <2>3. IsTask(Reader("query", tasks[t].key, Nothing, tasks[t].agent))
    BY <2>2, TasksFormed DEF Reading
  <2>4. PICK task : IsTask(task) /\ Goes(t, task)
    BY <2>1, <2>2, <2>3, OwnAnswers, ReadsReturn DEF Returned
  <2>5. QED
    BY <1>1, <2>1, <2>4, TypedStep
<1>3. ASSUME NEW t \in Tasks, Query(t) \/ QueryRows(t)
      PROVE  TypeOK' /\ db' = db /\ workspaces' = workspaces
  <2>1. /\ UNCHANGED <<workspaces, db, redis, primary, fallback, served, faults, restarts, suspect>>
        /\ tasks[t].step \in {"query", "rows"}
        /\ \/ Goes(t, Idle) \/ Goes(t, [tasks[t] EXCEPT !.step = "rows"])
           \/ \E held : Goes(t, Reader("filling", tasks[t].key, held, tasks[t].agent))
    BY <1>3 DEF Query, QueryRows, Hold, Ends
  <2>2. tasks[t].step \in Reading /\ "rows" \in Reading /\ "filling" \in Reading
    BY <2>1 DEF Reading
  <2>3. /\ IsTask([tasks[t] EXCEPT !.step = "rows"])
        /\ \A held : IsTask(Reader("filling", tasks[t].key, held, tasks[t].agent))
    <3>1. tasks[t].key \in Keys /\ tasks[t].agent \in Sessions \cup {NoSession}
      BY <2>2, ReadersHaveKeys DEF IsTask
    <3>2. IsTask([tasks[t] EXCEPT !.step = "rows"])
      BY <2>2, ReadersHaveKeys, TasksGoOn
    <3>3. QED
      BY <2>2, <3>1, <3>2, TasksFormed
  <2>4. QED
    BY <1>1, <2>1, <2>3, TasksFormed, TypedStep
<1>4. ASSUME NEW t \in Tasks, Fill(t) PROVE TypeOK' /\ db' = db /\ workspaces' = workspaces
  <2>1. /\ UNCHANGED <<workspaces, db, redis, primary, served, faults, restarts, suspect>>
        /\ tasks[t].step = "filling" /\ DOMAIN fallback' = Keys
        /\ \/ Returns(t, tasks[t].held, tasks[t].agent)
           \/ Goes(t, [tasks[t] EXCEPT !.step = "storing"])
    BY <1>1, <1>4 DEF Fill
  <2>2. IsTask([tasks[t] EXCEPT !.step = "storing"])
    BY <2>1, ReadersHaveKeys, TasksGoOn DEF Reading
  <2>3. tasks[t].agent \in Sessions \cup {NoSession}
    BY <2>1, ReadersHaveKeys DEF Reading, IsTask
  <2>4. PICK task : IsTask(task) /\ Goes(t, task)
    BY <2>1, <2>2, <2>3, ReadsReturn DEF Returned
  <2>5. QED
    BY <1>1, <2>1, <2>4, TypedStep
<1>5. ASSUME NEW t \in Tasks, FillRedis(t) PROVE TypeOK' /\ db' = db /\ workspaces' = workspaces
  <2>1. /\ UNCHANGED <<workspaces, db, redis, fallback, served, restarts, suspect>>
        /\ DOMAIN primary' = Keys /\ Returns(t, tasks[t].held, tasks[t].agent)
        /\ Mishap \/ UNCHANGED faults
        /\ tasks[t].step = "storing"
    BY <1>1, <1>5 DEF FillRedis, RedisAnswers, RedisFails
  <2>2. tasks[t].agent \in Sessions \cup {NoSession}
    BY DEF TypeOK, IsTask
  <2>3. PICK task : IsTask(task) /\ Goes(t, task)
    BY <2>1, <2>2, ReadsReturn DEF Returned
  <2>4. QED
    BY <1>1, <2>1, <2>3, TypedStep
<1>6. ASSUME NEW t \in Tasks, Sweep(t) PROVE TypeOK' /\ db' = db /\ workspaces' = workspaces
  <2>1. /\ UNCHANGED <<workspaces, db, redis, primary, served, faults, restarts, suspect>>
        /\ tasks[t].step = "sweep" /\ DOMAIN fallback' = Keys
        /\ Goes(t, Idle) \/ Goes(t, [tasks[t] EXCEPT !.step = "sweeping"])
    BY <1>6 DEF Sweep, Ends, Emptied
  <2>2. IsTask([tasks[t] EXCEPT !.step = "sweeping"])
    BY <2>1, TasksGoOn DEF Sweeping, TypeOK
  <2>3. QED
    BY <1>1, <2>1, <2>2, TasksFormed, TypedStep
<1>7. ASSUME NEW t \in Tasks, SweepRedis(t) PROVE TypeOK' /\ db' = db /\ workspaces' = workspaces
  <2> DEFINE rest == Tail(tasks[t].sweep)
  <2>1. /\ UNCHANGED <<workspaces, db, redis, fallback, served, restarts>>
        /\ tasks[t].step = "sweeping" /\ DOMAIN primary' = Keys
        /\ suspect' \subseteq suspect \cup Head(tasks[t].sweep)
        /\ Mishap \/ UNCHANGED faults
        /\ \/ Goes(t, Idle)
           \/ rest # <<>> /\ Goes(t, Writer(rest, tasks[t].changed, tasks[t].agent))
    BY <1>7 DEF SweepRedis, RedisAnswers, RedisFails, Ends, Emptied
  <2>2. /\ IsTask(tasks[t]) /\ tasks[t].sweep \in Seq(SUBSET Keys) /\ tasks[t].sweep # <<>>
        /\ tasks[t].changed \in SUBSET Keys /\ tasks[t].agent \in Sessions \cup {NoSession}
    BY <2>1 DEF TypeOK, IsTask, Sweeping
  <2>3. rest \in Seq(SUBSET Keys) /\ Head(tasks[t].sweep) \in SUBSET Keys
    BY <2>2
  <2> HIDE DEF rest
  <2>4. rest # <<>> => IsTask(Writer(rest, tasks[t].changed, tasks[t].agent))
    BY <2>2, <2>3, TasksFormed
  <2>5. suspect' \subseteq Keys
    BY <1>1, <2>1, <2>3
  <2>6. QED
    BY <1>1, <2>1, <2>4, <2>5, TasksFormed, TypedStep
<1>8. ASSUME NEW t \in Tasks, ReadForBrowser(t) \/ ListMessages(t)
      PROVE  TypeOK' /\ db' = db /\ workspaces' = workspaces
  BY <1>8, ReadsTyped DEF ReadForBrowser, ListMessages
<1>9. ASSUME NEW w \in Workspaces, EnsureWorkspace(w)
      PROVE  TypeOK' /\ db' = db /\ workspaces \subseteq workspaces'
  BY <1>9 DEF EnsureWorkspace, TypeOK, Served
<1>10. CASE Expire
  <2>1. DOMAIN primary' = Keys /\ DOMAIN fallback' = Keys
    BY <1>1, <1>10 DEF Expire, Emptied
  <2>2. QED
    BY <2>1, <1>10 DEF Expire, TypeOK
<1>11. CASE Restart
  <2>1. suspect' \subseteq Keys
    BY <1>11 DEF Restart, Unswept, TypeOK, IsTask
  <2>2. DOMAIN tasks' = Tasks /\ \A t \in Tasks : IsTask(tasks'[t])
    BY <1>11, TasksFormed DEF Restart
  <2>3. DOMAIN fallback' = Keys
    BY <1>11 DEF Restart, NoEntries
  <2>4. restarts' \in 0..(MaxMishaps - faults')
    BY <1>11 DEF Restart, TypeOK
  <2>5. QED
    BY <1>11, <2>1, <2>2, <2>3, <2>4 DEF Restart, TypeOK
<1>12. ASSUME NEW t \in Tasks, CancelRead(t) \/ CancelSweep(t) \/ LetGo(t)
       PROVE  TypeOK' /\ db' = db /\ workspaces' = workspaces
  <2>1. /\ UNCHANGED <<workspaces, db, redis, primary, fallback, served, restarts>>
        /\ Goes(t, Idle) /\ (Mishap \/ UNCHANGED faults)
        /\ suspect' \in {suspect, suspect \cup tasks[t].changed}
    BY <1>12 DEF CancelRead, CancelSweep, LetGo, Ends
  <2>2. suspect' \subseteq Keys
    BY <1>1, <2>1 DEF TypeOK, IsTask
  <2>3. QED
    BY <1>1, <2>1, <2>2, TasksFormed, TypedStep
<1>13. ASSUME NEW t \in Tasks, AbandonReplace(t)
       PROVE  TypeOK' /\ db' = db /\ workspaces' = workspaces
  <2>1. /\ UNCHANGED <<workspaces, db, redis, primary, fallback, served, restarts, suspect>>
        /\ Goes(t, [tasks[t] EXCEPT !.step = "abandoned"]) /\ Mishap
        /\ tasks[t].step \in Holding /\ "abandoned" \in Holding /\ IsTask(tasks[t])
    BY <1>13 DEF AbandonReplace, Holding, TypeOK
  <2>2. IsTask([tasks[t] EXCEPT !.step = "abandoned"])
    BY <2>1, TasksGoOn
  <2>3. QED
    BY <1>1, <2>1, <2>2, TypedStep
<1>14. QED
  BY <1>2, <1>3, <1>4, <1>5, <1>6, <1>7, <1>8, <1>9, <1>10, <1>11, <1>12, <1>13 DEF CacheStep

\* What a transaction leaves behind.
LEMMA WriteOutcome ==
    ASSUME TablesInv, NEW t \in Tasks, NEW s, NEW x, NEW sweep, NEW agent,
           Awaited(t, s, x, sweep, agent)
    PROVE  /\ s \in Sessions /\ db' = [db EXCEPT ![s] = x] /\ DOMAIN db' = Sessions
           /\ db'[s] = x /\ \A r \in Sessions \ {s} : db'[r] = db[r]
           /\ tasks[t].step \in {"idle", "listed"}
           /\ tasks'[t] = Writer(sweep, Changed(s, x), agent)
           /\ \A r \in Tasks \ {t} : tasks'[r] = tasks[r]
           /\ suspect' = suspect \cup {key \in Changed(s, x) : \E r \in Tasks : tasks[r].key = key}
           /\ UNCHANGED <<redis, primary, fallback, faults, restarts>>
           /\ Changed(s, x) \subseteq Keys /\ IsTask(Writer(sweep, Changed(s, x), agent))
           /\ TypeOK'
<1>1. /\ s \in Sessions /\ agent \in Sessions \cup {NoSession}
      /\ sweep \in Seq(SUBSET Keys) /\ sweep # <<>>
      /\ workspaces' \subseteq Workspaces /\ InOrderly(x)
  BY DEF Awaited, Proper, Settled
<1>2. Changed(s, x) \subseteq Keys
  BY DEF Changed
<1>3. /\ db' = [db EXCEPT ![s] = x] /\ tasks[t].step \in {"idle", "listed"}
      /\ Served \/ UNCHANGED served
      /\ UNCHANGED <<redis, primary, fallback, faults, restarts>>
      /\ Goes(t, Writer(sweep, Changed(s, x), agent))
      /\ suspect' = suspect \cup {key \in Changed(s, x) : \E r \in Tasks : tasks[r].key = key}
  BY DEF Awaited, Commit
<1>4. IsTask(Writer(sweep, Changed(s, x), agent))
  BY <1>1, <1>2, TasksFormed
<1>5. TypeOK
  BY DEF TablesInv
<1>6. /\ DOMAIN db' = Sessions
      /\ db'[s] = x /\ \A r \in Sessions \ {s} : db'[r] = db[r]
  BY <1>1, <1>3, <1>5 DEF TypeOK
<1> DEFINE task == Writer(sweep, Changed(s, x), agent)
<1> HIDE DEF task
<1>7. IsTask(task) /\ Goes(t, task)
  BY <1>3, <1>4 DEF task
<1>8. /\ DOMAIN tasks' = Tasks /\ \A r \in Tasks : IsTask(tasks'[r])
      /\ tasks'[t] = task /\ \A r \in Tasks \ {t} : tasks'[r] = tasks[r]
  BY <1>5, <1>7, OneTaskMoves
<1>9. \A r \in Sessions : IsSession(db'[r])
  BY <1>1, <1>5, <1>6 DEF TypeOK, InOrderly
<1>10. served' \in 0..MaxOps
  BY <1>3, <1>5, LegacyAssumption DEF Served, TypeOK
<1>11. suspect' \subseteq Keys
  BY <1>2, <1>3, <1>5 DEF TypeOK
<1>12. TypeOK'
  BY <1>1, <1>3, <1>5, <1>6, <1>8, <1>9, <1>10, <1>11 DEF TypeOK
<1>13. QED
  BY <1>1, <1>2, <1>3, <1>4, <1>6, <1>8, <1>12 DEF task

\* What the transaction of a cancelled caller leaves behind: the answers that it
\* outdates are suspect.
LEMMA LateOutcome ==
    ASSUME TablesInv, NEW s, NEW x, Unattended(s, x)
    PROVE  /\ s \in Sessions /\ db' = [db EXCEPT ![s] = x] /\ DOMAIN db' = Sessions
           /\ db'[s] = x /\ \A r \in Sessions \ {s} : db'[r] = db[r]
           /\ \A r \in Tasks : \/ tasks'[r] = tasks[r]
                               \/ tasks[r].step = "abandoned" /\ tasks'[r] = Idle
           /\ suspect' = suspect \cup Changed(s, x)
           /\ UNCHANGED <<redis, primary, fallback, restarts>>
           /\ TypeOK'
<1>1. s \in Sessions /\ workspaces' \subseteq Workspaces /\ InOrderly(x) /\ TypeOK
  BY DEF Unattended, Settled, TablesInv
<1>2. /\ db' = [db EXCEPT ![s] = x] /\ suspect' = suspect \cup Changed(s, x)
      /\ UNCHANGED <<redis, primary, fallback, restarts>>
      /\ (Mishap /\ Served) \/ UNCHANGED <<served, faults>>
  BY DEF Unattended, LateCommit
<1>3. /\ DOMAIN db' = Sessions
      /\ db'[s] = x /\ \A r \in Sessions \ {s} : db'[r] = db[r]
  BY <1>1, <1>2 DEF TypeOK
<1>4. /\ DOMAIN tasks' = Tasks /\ \A r \in Tasks : IsTask(tasks'[r])
      /\ \A r \in Tasks : \/ tasks'[r] = tasks[r]
                          \/ tasks[r].step = "abandoned" /\ tasks'[r] = Idle
  <2>1. CASE UNCHANGED tasks
    BY <1>1, <2>1 DEF TypeOK
  <2>2. ASSUME NEW t \in Tasks, tasks[t].step = "abandoned", Goes(t, Idle)
        PROVE  /\ DOMAIN tasks' = Tasks /\ \A r \in Tasks : IsTask(tasks'[r])
               /\ \A r \in Tasks : \/ tasks'[r] = tasks[r]
                                   \/ tasks[r].step = "abandoned" /\ tasks'[r] = Idle
    BY <1>1, <2>2, TasksFormed, OneTaskMoves
  <2>3. QED
    BY <2>1, <2>2 DEF Unattended, Ends
<1>5. \A r \in Sessions : IsSession(db'[r])
  BY <1>1, <1>3 DEF TypeOK, InOrderly
<1>6. /\ served' \in 0..MaxOps
      /\ faults' \in 0..MaxMishaps /\ restarts' \in 0..(MaxMishaps - faults')
  BY <1>1, <1>2, LegacyAssumption DEF Served, Mishap, TypeOK
<1>7. suspect' \subseteq Keys
  BY <1>1, <1>2 DEF TypeOK, Changed
<1>8. TypeOK'
  BY <1>1, <1>2, <1>3, <1>4, <1>5, <1>6, <1>7 DEF TypeOK
<1>9. QED
  BY <1>1, <1>2, <1>3, <1>4, <1>8

\* The links of every session stay with its messages, and the owners exist.
LEMMA TablesStep ==
    TablesInv /\ [StoreNext]_storeVars => TablesInv'
<1> SUFFICES ASSUME TablesInv, [StoreNext]_storeVars PROVE TablesInv'
  OBVIOUS
<1>1. ASSUME NEW s, NEW x,
             \/ \E t \in Tasks : \E sweep, agent : Awaited(t, s, x, sweep, agent)
             \/ Unattended(s, x)
      PROVE  TablesInv'
  <2>1. /\ TypeOK' /\ s \in Sessions
        /\ db'[s] = x /\ \A r \in Sessions \ {s} : db'[r] = db[r]
    BY <1>1, WriteOutcome, LateOutcome
  <2>2. LinksHold(x) /\ (Live(x) => x.workspace \in workspaces') /\ workspaces \subseteq workspaces'
    BY <1>1 DEF Awaited, Unattended, Proper, Settled, InOrderly
  <2>3. SkillLinksHold'
    BY <2>1, <2>2 DEF TablesInv, SkillLinksHold
  <2>4. QED
    BY <2>1, <2>3 DEF TablesInv
<1>2. CASE CacheStep
  <2>1. TypeOK' /\ db' = db /\ workspaces \subseteq workspaces'
    BY <1>2, CacheStepsTyped DEF TablesInv
  <2>2. QED
    BY <2>1 DEF TablesInv, SkillLinksHold
<1>3. CASE UNCHANGED storeVars
  <2>1. TypeOK'
    BY <1>3 DEF TablesInv, TypeOK, storeVars
  <2>2. SkillLinksHold'
    BY <1>3 DEF TablesInv, SkillLinksHold, storeVars
  <2>3. QED
    BY <2>1, <2>2 DEF TablesInv
<1>4. QED
  BY <1>1, <1>2, <1>3, StoreSteps

\* A server starts on tables that an earlier run left in order.
LEMMA TablesInit == StoreInit => TablesInv
<1> SUFFICES ASSUME StoreInit PROVE TablesInv
  OBVIOUS
<1>1. /\ db \in Stored /\ DOMAIN db = Sessions
      /\ \A s \in Sessions : /\ IsSession(db[s]) /\ LinksHold(db[s])
                             /\ Live(db[s]) => db[s].workspace \in Workspaces
  <2>1. db \in Stored
    BY DEF StoreInit
  <2>2. QED
    BY <2>1, StoredAssumption
<1>2. /\ workspaces \subseteq Workspaces
      /\ \A s \in Sessions : Live(db[s]) => db[s].workspace \in workspaces
  BY <1>1 DEF StoreInit
<1>3. DOMAIN tasks = Tasks /\ \A t \in Tasks : IsTask(tasks[t])
  BY TasksFormed DEF StoreInit
<1>4. DOMAIN primary = Keys /\ DOMAIN fallback = Keys
  BY DEF StoreInit, NoEntries
<1>5. /\ served \in 0..MaxOps /\ faults \in 0..MaxMishaps
      /\ restarts \in 0..(MaxMishaps - faults) /\ redis \in BOOLEAN /\ suspect \subseteq Keys
  BY LegacyAssumption DEF StoreInit
<1>6. QED
  BY <1>1, <1>2, <1>3, <1>4, <1>5 DEF TablesInv, TypeOK, SkillLinksHold

\* The tables are in order in every behaviour.
LEMMA TablesAlways == StoreSpec => []TablesInv
BY TablesInit, TablesStep, PTL DEF StoreSpec

\* Tables, caches and tasks keep their shape in every behaviour.
THEOREM StoreTyped == StoreSpec => []TypeOK
<1>1. TablesInv => TypeOK
  BY DEF TablesInv
<1>2. QED
  BY <1>1, TablesAlways, PTL

\* However messages are added, injected, removed, replaced and compacted, by
\* whatever number of tasks: a link always leads to the message that injects its
\* skill, every skill message is linked, and every session's owner is known.
THEOREM SkillLinksAlwaysHold == StoreSpec => []SkillLinksHold
<1>1. TablesInv => SkillLinksHold
  BY DEF TablesInv
<1>2. QED
  BY <1>1, TablesAlways, PTL

-----------------------------------------------------------------------------
(* The caches. The inductive invariant says who will delete a stale entry: *)
(* a task that has its prefix still before it; and that a read which no     *)
(* write overtook holds the database's answer.                              *)

\* The task has yet to delete key from the process's own cache, from Redis.
SweepsHere(task, key) ==
    \/ task.step = "sweep" /\ Sweeps(task.sweep, key)
    \/ task.step = "sweeping" /\ Sweeps(Tail(task.sweep), key)

SweepsRedis(task, key) == task.step \in Sweeping /\ Sweeps(task.sweep, key)

Current(key) == {Nothing, Answer(db, key)}

FallbackOK ==
    \A key \in Keys \ suspect :
        \/ fallback[key] \in Current(key)
        \/ \E t \in Tasks : key \in tasks[t].changed /\ SweepsHere(tasks[t], key)

PrimaryOK ==
    \A key \in Keys \ suspect :
        \/ primary[key] \in Current(key)
        \/ \E t \in Tasks : key \in tasks[t].changed /\ SweepsRedis(tasks[t], key)

\* The second SELECT of list_messages finds the session that the first one found.
ReadsRows(key) == key[1] = "messages" /\ Visible(db[key[2]], key[3])

ReadersOK ==
    \A t \in Tasks : tasks[t].step \in Reading /\ tasks[t].key \notin suspect =>
        /\ tasks[t].held \in Current(tasks[t].key)
        /\ tasks[t].step = "rows" => ReadsRows(tasks[t].key)

\* Without Redis nothing is kept there, and nobody waits for it.
OneTier ==
    ~redis => /\ \A key \in Keys : primary[key] = Nothing
              /\ \A t \in Tasks : tasks[t].step \notin {"answered", "storing", "sweeping"}

CachesInv == FallbackOK /\ PrimaryOK /\ ReadersOK /\ OneTier

\* The next prefix goes, the others are still to come.
LEMMA SweepGoesOn ==
    ASSUME NEW sweep \in Seq(SUBSET Keys), sweep # <<>>, NEW key, Sweeps(sweep, key)
    PROVE  key \in Head(sweep) \/ (Tail(sweep) # <<>> /\ Sweeps(Tail(sweep), key))
<1>1. PICK i \in DOMAIN sweep : key \in sweep[i]
  BY DEF Sweeps
<1>2. CASE i = 1
  BY <1>1, <1>2
<1>3. CASE i # 1
  <2>1. /\ i - 1 \in DOMAIN Tail(sweep) /\ Tail(sweep)[i - 1] = sweep[i]
        /\ Tail(sweep) # <<>>
    BY <1>1, <1>3
  <2>2. QED
    BY <1>1, <2>1 DEF Sweeps
<1>4. QED
  BY <1>2, <1>3

\* What the two SELECTs of list_messages amount to.
LEMMA RowsAnswer ==
    ASSUME NEW d, NEW key \in Keys, key[1] = "messages"
    PROVE  /\ Visible(d[key[2]], key[3]) =>
                /\ Answer(d, key) = Found(Page(d[key[2]].rows, key[4]))
                /\ Answer(d, key) # Nothing
           /\ ~Visible(d[key[2]], key[3]) => Answer(d, key) = Nothing
<1>1. PICK s \in Sessions, w \in Scopes, window \in Windows : key = MessagesKey(s, w, window)
  BY DEF Keys, SessionKeys, SessionKey, ListKey, MessagesKeys
<1>2. Answer(d, key) = MessagesAnswer(d, s, w, window)
  BY <1>1, AnswersByKey
<1>3. key[2] = s /\ key[3] = w /\ key[4] = window
  BY <1>1 DEF MessagesKey
<1>4. QED
  BY <1>2, <1>3 DEF MessagesAnswer, Found, Nothing

\* A step of a task that sweeps nothing leaves the sweeping to the same tasks.
LEMMA OthersSweep ==
    ASSUME NEW t \in Tasks, tasks[t].step \notin Sweeping, NEW key,
           \A r \in Tasks \ {t} : tasks'[r] = tasks[r]
    PROVE  /\ (\E r \in Tasks : key \in tasks[r].changed /\ SweepsHere(tasks[r], key)) =>
                \E r \in Tasks : key \in tasks'[r].changed /\ SweepsHere(tasks'[r], key)
           /\ (\E r \in Tasks : key \in tasks[r].changed /\ SweepsRedis(tasks[r], key)) =>
                \E r \in Tasks : key \in tasks'[r].changed /\ SweepsRedis(tasks'[r], key)
BY DEF SweepsHere, SweepsRedis, Sweeping

\* A session that list_messages found is there as long as its answer does not change.
LEMMA RowsStay ==
    ASSUME NEW r \in Tasks, tasks'[r] = tasks[r], tasks[r].key \in Keys,
           ReadsRows(tasks[r].key),
           Answer(db, tasks[r].key) \in {Nothing, Answer(db', tasks[r].key)}
    PROVE  ReadsRows(tasks[r].key)'
<1>1. PICK key : key = tasks[r].key
  OBVIOUS
<1>2. key \in Keys /\ key[1] = "messages" /\ Visible(db[key[2]], key[3])
  BY <1>1 DEF ReadsRows
<1>3. Answer(db, key) # Nothing
  BY <1>2, RowsAnswer
<1>4. Answer(db', key) # Nothing
  BY <1>1, <1>3
<1>5. Visible(db'[key[2]], key[3])
  BY <1>2, <1>4, RowsAnswer
<1>6. tasks'[r].key = key
  BY <1>1
<1>7. QED
  BY <1>2, <1>5, <1>6 DEF ReadsRows

\* A transaction: what it outdates it will delete, and no read of it goes on unnoticed.
LEMMA WriteKeepsCaches ==
    ASSUME TablesInv, CachesInv, NEW t \in Tasks, NEW s, NEW x, NEW sweep, NEW agent,
           Awaited(t, s, x, sweep, agent)
    PROVE  CachesInv'
<1> DEFINE lost == Changed(s, x)
           task == Writer(sweep, lost, agent)
<1>1. /\ db' = [db EXCEPT ![s] = x] /\ tasks[t].step \in {"idle", "listed"} /\ tasks'[t] = task
      /\ \A r \in Tasks \ {t} : tasks'[r] = tasks[r]
      /\ suspect' = suspect \cup {key \in lost : \E r \in Tasks : tasks[r].key = key}
      /\ UNCHANGED <<redis, primary, fallback>>
  BY WriteOutcome
<1>2. task.step = "sweep" /\ task.sweep = sweep /\ task.changed = lost
  BY DEF Writer
<1>3. tasks[t].step \notin Sweeping
  BY <1>1 DEF Sweeping
<1>4. \A key \in lost : SweepsHere(task, key) /\ SweepsRedis(task, key)
  BY <1>2 DEF Awaited, Proper, SweepsHere, SweepsRedis, Sweeping
<1>5. \A key \in Keys \ lost : Answer(db, key) \in {Nothing, Answer(db', key)}
  BY <1>1 DEF Changed
<1>6. \A key \in Keys \ lost : Current(key) \subseteq Current(key)'
  BY <1>5 DEF Current
<1> HIDE DEF lost, task
<1>7. FallbackOK'
  <2> SUFFICES ASSUME NEW key \in Keys, key \notin suspect'
               PROVE  \/ fallback[key] \in Current(key)'
                      \/ \E r \in Tasks : key \in tasks'[r].changed /\ SweepsHere(tasks'[r], key)
    BY <1>1 DEF FallbackOK
  <2>1. CASE key \in lost
    BY <1>1, <1>2, <1>4, <2>1
  <2>2. CASE key \notin lost
    <3>1. \/ fallback[key] \in Current(key)
          \/ \E r \in Tasks : key \in tasks[r].changed /\ SweepsHere(tasks[r], key)
      BY <1>1 DEF CachesInv, FallbackOK
    <3>2. QED
      BY <1>1, <1>3, <1>6, <2>2, <3>1, OthersSweep
  <2>3. QED
    BY <2>1, <2>2
<1>8. PrimaryOK'
  <2> SUFFICES ASSUME NEW key \in Keys, key \notin suspect'
               PROVE  \/ primary[key] \in Current(key)'
                      \/ \E r \in Tasks : key \in tasks'[r].changed /\ SweepsRedis(tasks'[r], key)
    BY <1>1 DEF PrimaryOK
  <2>1. CASE key \in lost
    BY <1>1, <1>2, <1>4, <2>1
  <2>2. CASE key \notin lost
    <3>1. \/ primary[key] \in Current(key)
          \/ \E r \in Tasks : key \in tasks[r].changed /\ SweepsRedis(tasks[r], key)
      BY <1>1 DEF CachesInv, PrimaryOK
    <3>2. QED
      BY <1>1, <1>3, <1>6, <2>2, <3>1, OthersSweep
  <2>3. QED
    BY <2>1, <2>2
<1>9. ReadersOK'
  <2> SUFFICES ASSUME NEW r \in Tasks, tasks'[r].step \in Reading, tasks'[r].key \notin suspect'
               PROVE  /\ tasks'[r].held \in Current(tasks[r].key)'
                      /\ tasks'[r].key = tasks[r].key
                      /\ tasks'[r].step = "rows" => ReadsRows(tasks[r].key)'
    BY DEF ReadersOK
  <2>1. r # t /\ tasks'[r] = tasks[r]
    BY <1>1, <1>2 DEF Reading
  <2> DEFINE key == tasks[r].key
  <2>2. key \in Keys /\ key \notin suspect /\ key \notin lost
    BY <1>1, <2>1, ReadersHaveKeys DEF TablesInv
  <2>3. tasks[r].held \in Current(key) /\ (tasks[r].step = "rows" => ReadsRows(key))
    BY <2>1, <2>2 DEF CachesInv, ReadersOK
  <2>4. ASSUME tasks[r].step = "rows" PROVE ReadsRows(key)'
    BY <1>5, <2>1, <2>2, <2>3, <2>4, RowsStay
  <2>5. QED
    BY <1>6, <2>1, <2>2, <2>3, <2>4
<1>10. OneTier'
  BY <1>1, <1>2 DEF CachesInv, OneTier
<1>11. QED
  BY <1>7, <1>8, <1>9, <1>10 DEF CachesInv

\* The transaction of a cancelled caller: what it outdates is suspect.
LEMMA LateKeepsCaches ==
    ASSUME TablesInv, CachesInv, NEW s, NEW x, Unattended(s, x)
    PROVE  CachesInv'
<1> DEFINE lost == Changed(s, x)
<1>1. /\ db' = [db EXCEPT ![s] = x] /\ suspect' = suspect \cup lost
      /\ \A r \in Tasks : \/ tasks'[r] = tasks[r]
                          \/ tasks[r].step = "abandoned" /\ tasks'[r] = Idle
      /\ UNCHANGED <<redis, primary, fallback>>
  BY LateOutcome
<1>2. Idle.step = "idle"
  BY DEF Idle
<1>3. \A r \in Tasks : \A key :
        /\ SweepsHere(tasks[r], key) => tasks'[r] = tasks[r]
        /\ SweepsRedis(tasks[r], key) => tasks'[r] = tasks[r]
  BY <1>1 DEF SweepsHere, SweepsRedis, Sweeping
<1>4. \A key \in Keys \ lost : Answer(db, key) \in {Nothing, Answer(db', key)}
  BY <1>1 DEF Changed
<1>5. \A key \in Keys \ lost : Current(key) \subseteq Current(key)'
  BY <1>4 DEF Current
<1> HIDE DEF lost
<1>6. FallbackOK'
  <2> SUFFICES ASSUME NEW key \in Keys, key \notin suspect'
               PROVE  \/ fallback[key] \in Current(key)'
                      \/ \E r \in Tasks : key \in tasks'[r].changed /\ SweepsHere(tasks'[r], key)
    BY <1>1 DEF FallbackOK
  <2>1. \/ fallback[key] \in Current(key)
        \/ \E r \in Tasks : key \in tasks[r].changed /\ SweepsHere(tasks[r], key)
    BY <1>1 DEF CachesInv, FallbackOK
  <2>2. QED
    BY <1>1, <1>3, <1>5, <2>1
<1>7. PrimaryOK'
  <2> SUFFICES ASSUME NEW key \in Keys, key \notin suspect'
               PROVE  \/ primary[key] \in Current(key)'
                      \/ \E r \in Tasks : key \in tasks'[r].changed /\ SweepsRedis(tasks'[r], key)
    BY <1>1 DEF PrimaryOK
  <2>1. \/ primary[key] \in Current(key)
        \/ \E r \in Tasks : key \in tasks[r].changed /\ SweepsRedis(tasks[r], key)
    BY <1>1 DEF CachesInv, PrimaryOK
  <2>2. QED
    BY <1>1, <1>3, <1>5, <2>1
<1>8. ReadersOK'
  <2> SUFFICES ASSUME NEW r \in Tasks, tasks'[r].step \in Reading, tasks'[r].key \notin suspect'
               PROVE  /\ tasks'[r].held \in Current(tasks[r].key)'
                      /\ tasks'[r].key = tasks[r].key
                      /\ tasks'[r].step = "rows" => ReadsRows(tasks[r].key)'
    BY DEF ReadersOK
  <2>1. tasks'[r] = tasks[r]
    BY <1>1, <1>2 DEF Reading
  <2> DEFINE key == tasks[r].key
  <2>2. key \in Keys /\ key \notin suspect /\ key \notin lost
    BY <1>1, <2>1, ReadersHaveKeys DEF TablesInv
  <2>3. tasks[r].held \in Current(key) /\ (tasks[r].step = "rows" => ReadsRows(key))
    BY <2>1, <2>2 DEF CachesInv, ReadersOK
  <2>4. ASSUME tasks[r].step = "rows" PROVE ReadsRows(key)'
    BY <1>4, <2>1, <2>2, <2>3, <2>4, RowsStay
  <2>5. QED
    BY <1>5, <2>1, <2>2, <2>3, <2>4
<1>9. OneTier'
  BY <1>1, <1>2 DEF CachesInv, OneTier
<1>10. QED
  BY <1>6, <1>7, <1>8, <1>9 DEF CachesInv

\* A task that sweeps nothing moves on and becomes one that sweeps nothing: what it
\* stores in a cache, and what it holds, is current unless suspect.
LEMMA ReaderKeepsCaches ==
    ASSUME TypeOK, CachesInv, NEW t \in Tasks, tasks[t].step \notin Sweeping,
           UNCHANGED <<db, redis>>, suspect \subseteq suspect',
           \A r \in Tasks \ {t} : tasks'[r] = tasks[r],
           \A key \in Keys \ suspect' :
              /\ fallback'[key] = fallback[key] \/ fallback'[key] \in Current(key)
              /\ primary'[key] = primary[key] \/ primary'[key] \in Current(key),
           redis \/ primary' = primary,
           tasks'[t].step \in Reading /\ tasks'[t].key \notin suspect' =>
              /\ tasks'[t].held \in Current(tasks'[t].key)
              /\ tasks'[t].step = "rows" => ReadsRows(tasks'[t].key),
           redis \/ tasks'[t].step \notin {"answered", "storing", "sweeping"}
    PROVE  CachesInv'
<1>1. \A key : Current(key)' = Current(key) /\ (ReadsRows(key)' <=> ReadsRows(key))
  BY DEF Current, ReadsRows
<1>2. FallbackOK'
  <2> SUFFICES ASSUME NEW key \in Keys, key \notin suspect'
               PROVE  \/ fallback'[key] \in Current(key)
                      \/ \E r \in Tasks : key \in tasks'[r].changed /\ SweepsHere(tasks'[r], key)
    BY <1>1 DEF FallbackOK
  <2>1. \/ fallback[key] \in Current(key)
        \/ \E r \in Tasks : key \in tasks[r].changed /\ SweepsHere(tasks[r], key)
    BY DEF CachesInv, FallbackOK
  <2>2. QED
    BY <2>1, OthersSweep
<1>3. PrimaryOK'
  <2> SUFFICES ASSUME NEW key \in Keys, key \notin suspect'
               PROVE  \/ primary'[key] \in Current(key)
                      \/ \E r \in Tasks : key \in tasks'[r].changed /\ SweepsRedis(tasks'[r], key)
    BY <1>1 DEF PrimaryOK
  <2>1. \/ primary[key] \in Current(key)
        \/ \E r \in Tasks : key \in tasks[r].changed /\ SweepsRedis(tasks[r], key)
    BY DEF CachesInv, PrimaryOK
  <2>2. QED
    BY <2>1, OthersSweep
<1>4. ReadersOK'
  <2> SUFFICES ASSUME NEW r \in Tasks, tasks'[r].step \in Reading, tasks'[r].key \notin suspect'
               PROVE  /\ tasks'[r].held \in Current(tasks'[r].key)
                      /\ tasks'[r].step = "rows" => ReadsRows(tasks'[r].key)
    BY <1>1 DEF ReadersOK, Current, ReadsRows
  <2>1. CASE r = t
    BY <2>1
  <2>2. CASE r # t
    BY <2>2 DEF CachesInv, ReadersOK
  <2>3. QED
    BY <2>1, <2>2
<1>5. OneTier'
  BY DEF CachesInv, OneTier
<1>6. QED
  BY <1>2, <1>3, <1>4, <1>5 DEF CachesInv

\* A task that swept nothing stops reading.
LEMMA ReturnKeepsCaches ==
    ASSUME TypeOK, CachesInv, NEW t \in Tasks, tasks[t].step \notin Sweeping,
           NEW task, NEW answer, NEW agent, Returned(task, answer, agent), Goes(t, task),
           UNCHANGED <<db, redis, suspect>>,
           \A key \in Keys \ suspect :
              /\ fallback'[key] = fallback[key] \/ fallback'[key] \in Current(key)
              /\ primary'[key] = primary[key] \/ primary'[key] \in Current(key),
           redis \/ primary' = primary
    PROVE  CachesInv'
<1>1. IsTask(task) /\ task.step \in {"idle", "listed"}
  BY DEF Returned
<1>2. tasks'[t] = task /\ \A r \in Tasks \ {t} : tasks'[r] = tasks[r]
  BY <1>1, OneTaskMoves
<1>3. tasks'[t].step \notin Reading /\ tasks'[t].step \notin {"answered", "storing", "sweeping"}
  BY <1>1, <1>2 DEF Reading
<1>4. QED
  BY <1>2, <1>3, ReaderKeepsCaches

\* A read starts: an answer of Redis that a task has yet to delete is suspect.
LEMMA ReadKeepsCaches ==
    ASSUME TypeOK, CachesInv, NEW t \in Tasks, NEW key \in Keys,
           NEW agent \in Sessions \cup {NoSession}, Read(t, key, agent)
    PROVE  CachesInv'
<1>1. tasks[t] = Idle /\ UNCHANGED <<db, redis, primary, fallback>>
  BY DEF Read, AskRedis, LookUp
<1>2. tasks[t].step \notin Sweeping
  BY <1>1 DEF Idle, Sweeping
<1>3. CASE AskRedis(t, key, agent)
  <2>1. PICK held \in {Nothing, primary[key]} : Goes(t, Reader("answered", key, held, agent))
    BY <1>3 DEF AskRedis
  <2>2. redis /\ suspect' = suspect \cup ({key} \cap Unswept)
    BY <1>3 DEF AskRedis
  <2>3. PICK task : /\ task = Reader("answered", key, held, agent) /\ IsTask(task)
                    /\ task.step = "answered" /\ task.key = key /\ task.held = held
    BY ReadersFormed DEF Reading
  <2>4. Goes(t, task)
    BY <2>1, <2>3
  <2>5. tasks'[t] = task /\ \A r \in Tasks \ {t} : tasks'[r] = tasks[r]
    BY <2>3, <2>4, OneTaskMoves
  <2>6. key \notin suspect' => held \in Current(key)
    <3>1. CASE held = Nothing
      BY <3>1 DEF Current
    <3>2. CASE held = primary[key] /\ key \notin suspect'
      <4>1. \A r \in Tasks : key \notin tasks[r].changed
        BY <2>2, <3>2 DEF Unswept
      <4>2. QED
        BY <2>2, <3>2, <4>1 DEF CachesInv, PrimaryOK
    <3>3. QED
      BY <3>1, <3>2
  <2>7. QED
    BY <1>1, <1>2, <2>2, <2>3, <2>5, <2>6, ReaderKeepsCaches
<1>4. CASE LookUp(t, key, agent)
  <2>1. suspect' = suspect /\ AskOwn(t, key, agent)
    BY <1>4 DEF LookUp
  <2>2. Nothing \in Current(key)
    BY DEF Current
  <2>3. ASSUME NEW task, Returned(task, fallback[key], agent), Goes(t, task)
        PROVE  CachesInv'
    BY <1>1, <1>2, <2>1, <2>3, ReturnKeepsCaches
  <2>4. ASSUME Goes(t, Reader("query", key, Nothing, agent))
        PROVE  CachesInv'
    <3>1. PICK task : /\ task = Reader("query", key, Nothing, agent) /\ IsTask(task)
                      /\ task.step = "query" /\ task.key = key /\ task.held = Nothing
      BY ReadersFormed DEF Reading
    <3>2. Goes(t, task)
      BY <2>4, <3>1
    <3>3. tasks'[t] = task /\ \A r \in Tasks \ {t} : tasks'[r] = tasks[r]
      BY <3>1, <3>2, OneTaskMoves
    <3>4. QED
      BY <1>1, <1>2, <2>1, <2>2, <3>1, <3>3, ReaderKeepsCaches
  <2>5. QED
    BY <2>1, <2>3, <2>4, OwnAnswers
<1>5. QED
  BY <1>3, <1>4 DEF Read

\* A read ends, or goes on holding what is current.
LEMMA AnswersKeepCaches ==
    ASSUME TypeOK, CachesInv, NEW t \in Tasks,
           TakeAnswer(t) \/ Query(t) \/ QueryRows(t) \/ Fill(t) \/ FillRedis(t)
    PROVE  CachesInv'
<1> DEFINE key == tasks[t].key
           held == tasks[t].held
<1>1. /\ tasks[t].step \in Reading /\ tasks[t].step \notin Sweeping
      /\ UNCHANGED <<db, redis, suspect>>
  BY DEF TakeAnswer, Query, QueryRows, Fill, FillRedis, Reading, Sweeping
<1>2. key \in Keys /\ IsTask(tasks[t]) /\ tasks[t].agent \in Sessions \cup {NoSession}
  BY <1>1, ReadersHaveKeys DEF IsTask
<1>3. DOMAIN primary = Keys /\ DOMAIN fallback = Keys
  BY DEF TypeOK
<1>4. key \notin suspect =>
        /\ held \in Current(key)
        /\ tasks[t].step = "rows" => ReadsRows(key)
  BY <1>1 DEF CachesInv, ReadersOK
<1>5. ASSUME Goes(t, Idle)
      PROVE  tasks'[t].step = "idle" /\ \A r \in Tasks \ {t} : tasks'[r] = tasks[r]
  BY <1>5, TasksFormed, OneTaskMoves DEF Idle
<1>6. ASSUME NEW step \in Reading, Goes(t, [tasks[t] EXCEPT !.step = step])
      PROVE  /\ tasks'[t].step = step /\ tasks'[t].key = key /\ tasks'[t].held = held
             /\ \A r \in Tasks \ {t} : tasks'[r] = tasks[r]
  <2> DEFINE task == [tasks[t] EXCEPT !.step = step]
  <2>1. task.step = step /\ task.key = key /\ task.held = held
    BY <1>2 DEF IsTask
  <2>2. IsTask(task)
    BY <1>1, <1>2, TasksGoOn
  <2> HIDE DEF task
  <2>3. Goes(t, task)
    BY <1>6 DEF task
  <2>4. QED
    BY <2>1, <2>2, <2>3, OneTaskMoves
<1>7. ASSUME NEW answer, Goes(t, Reader("filling", key, answer, tasks[t].agent))
      PROVE  /\ tasks'[t].step = "filling" /\ tasks'[t].key = key /\ tasks'[t].held = answer
             /\ \A r \in Tasks \ {t} : tasks'[r] = tasks[r]
  <2> DEFINE task == Reader("filling", key, answer, tasks[t].agent)
  <2>1. task.step = "filling" /\ task.key = key /\ task.held = answer
    BY DEF Reader
  <2>2. IsTask(task)
    BY <1>2, TasksFormed DEF Reading
  <2> HIDE DEF task
  <2>3. Goes(t, task)
    BY <1>7 DEF task
  <2>4. QED
    BY <2>1, <2>2, <2>3, OneTaskMoves
<1> HIDE DEF key, held
<1>8. CASE TakeAnswer(t)
  <2>1. /\ primary' = primary
        /\ \A k \in Keys : fallback'[k] = fallback[k] \/ (k = key /\ fallback'[k] = held)
        /\ \/ Returns(t, held, tasks[t].agent)
           \/ AskOwn(t, key, tasks[t].agent)
    BY <1>3, <1>8 DEF TakeAnswer, key, held
  <2>2. \A k \in Keys \ suspect : fallback'[k] = fallback[k] \/ fallback'[k] \in Current(k)
    BY <1>4, <2>1
  <2>3. ASSUME NEW task, NEW answer, Returned(task, answer, tasks[t].agent), Goes(t, task)
        PROVE  CachesInv'
    BY <1>1, <2>1, <2>2, <2>3, ReturnKeepsCaches
  <2>4. ASSUME Goes(t, Reader("query", key, Nothing, tasks[t].agent))
        PROVE  CachesInv'
    <3>1. PICK task : /\ task = Reader("query", key, Nothing, tasks[t].agent) /\ IsTask(task)
                      /\ task.step = "query" /\ task.key = key /\ task.held = Nothing
      BY <1>2, ReadersFormed DEF Reading
    <3>2. Goes(t, task)
      BY <2>4, <3>1
    <3>3. tasks'[t] = task /\ \A r \in Tasks \ {t} : tasks'[r] = tasks[r]
      BY <3>1, <3>2, OneTaskMoves
    <3>4. Nothing \in Current(key)
      BY DEF Current
    <3>5. QED
      BY <1>1, <2>1, <2>2, <3>1, <3>3, <3>4, ReaderKeepsCaches
  <2>5. QED
    BY <1>2, <2>1, <2>3, <2>4, ReadsReturn, OwnAnswers
<1>9. CASE Query(t)
  <2>1. UNCHANGED <<primary, fallback>>
    BY <1>9 DEF Query
  <2>2. \/ Goes(t, Idle)
        \/ ReadsRows(key) /\ Goes(t, [tasks[t] EXCEPT !.step = "rows"])
        \/ Goes(t, Reader("filling", key, Answer(db, key), tasks[t].agent))
    BY <1>9 DEF Query, Hold, Ends, ReadsRows, key
  <2>3. "rows" \in Reading /\ "idle" \notin Reading
    BY DEF Reading
  <2>4. Answer(db, key) \in Current(key)
    BY DEF Current
  <2>5. CASE Goes(t, Idle)
    BY <1>1, <1>5, <2>1, <2>3, <2>5, ReaderKeepsCaches
  <2>6. CASE ReadsRows(key) /\ Goes(t, [tasks[t] EXCEPT !.step = "rows"])
    <3>1. /\ tasks'[t].step = "rows" /\ tasks'[t].key = key /\ tasks'[t].held = held
          /\ \A r \in Tasks \ {t} : tasks'[r] = tasks[r]
      BY <1>6, <2>3, <2>6
    <3>2. QED
      BY <1>1, <1>4, <2>1, <2>6, <3>1, ReaderKeepsCaches
  <2>7. CASE Goes(t, Reader("filling", key, Answer(db, key), tasks[t].agent))
    BY <1>1, <1>7, <2>1, <2>4, <2>7, ReaderKeepsCaches
  <2>8. QED
    BY <2>2, <2>5, <2>6, <2>7
<1>10. CASE QueryRows(t)
  <2> DEFINE page == Found(Page(db[key[2]].rows, key[4]))
  <2>1. UNCHANGED <<primary, fallback>> /\ tasks[t].step = "rows"
    BY <1>10 DEF QueryRows
  <2>2. Goes(t, Idle) \/ Goes(t, Reader("filling", key, page, tasks[t].agent))
    BY <1>10 DEF QueryRows, Hold, Ends, key
  <2>3. key \notin suspect => page \in Current(key)
    <3> SUFFICES ASSUME key \notin suspect PROVE page \in Current(key)
      OBVIOUS
    <3>1. key[1] = "messages" /\ Visible(db[key[2]], key[3])
      BY <1>4, <2>1 DEF ReadsRows
    <3>2. Answer(db, key) = page
      BY <1>2, <3>1, RowsAnswer
    <3>3. QED
      BY <3>2 DEF Current
  <2> HIDE DEF page
  <2>4. "idle" \notin Reading
    BY DEF Reading
  <2>5. CASE Goes(t, Idle)
    BY <1>1, <1>5, <2>1, <2>4, <2>5, ReaderKeepsCaches
  <2>6. CASE Goes(t, Reader("filling", key, page, tasks[t].agent))
    BY <1>1, <1>7, <2>1, <2>3, <2>6, ReaderKeepsCaches
  <2>7. QED
    BY <2>2, <2>5, <2>6
<1>11. CASE Fill(t)
  <2>1. /\ primary' = primary
        /\ \A k \in Keys : fallback'[k] = fallback[k] \/ (k = key /\ fallback'[k] = held)
        /\ \/ Returns(t, held, tasks[t].agent)
           \/ redis /\ Goes(t, [tasks[t] EXCEPT !.step = "storing"])
    BY <1>3, <1>11 DEF Fill, key, held
  <2>2. \A k \in Keys \ suspect : fallback'[k] = fallback[k] \/ fallback'[k] \in Current(k)
    BY <1>4, <2>1
  <2>3. ASSUME NEW task, Returned(task, held, tasks[t].agent), Goes(t, task)
        PROVE  CachesInv'
    BY <1>1, <2>1, <2>2, <2>3, ReturnKeepsCaches
  <2>4. ASSUME redis, Goes(t, [tasks[t] EXCEPT !.step = "storing"])
        PROVE  CachesInv'
    <3>1. "storing" \in Reading
      BY DEF Reading
    <3>2. /\ tasks'[t].step = "storing" /\ tasks'[t].key = key /\ tasks'[t].held = held
          /\ \A r \in Tasks \ {t} : tasks'[r] = tasks[r]
      BY <1>6, <2>4, <3>1
    <3>3. QED
      BY <1>1, <1>4, <2>1, <2>2, <2>4, <3>2, ReaderKeepsCaches
  <2>5. QED
    BY <1>2, <2>1, <2>3, <2>4, ReadsReturn
<1>12. CASE FillRedis(t)
  <2>1. /\ fallback' = fallback
        /\ \A k \in Keys : primary'[k] = primary[k] \/ (k = key /\ primary'[k] = held)
        /\ Returns(t, held, tasks[t].agent) /\ tasks[t].step = "storing"
    BY <1>3, <1>12 DEF FillRedis, key, held
  <2>2. redis
    BY <2>1 DEF CachesInv, OneTier
  <2>3. \A k \in Keys \ suspect : primary'[k] = primary[k] \/ primary'[k] \in Current(k)
    BY <1>4, <2>1
  <2>4. PICK task : Returned(task, held, tasks[t].agent) /\ Goes(t, task)
    BY <1>2, <2>1, ReadsReturn
  <2>5. QED
    BY <1>1, <2>1, <2>2, <2>3, <2>4, ReturnKeepsCaches
<1>13. QED
  BY <1>8, <1>9, <1>10, <1>11, <1>12

\* A read is cancelled, or an agent goes on without its list.
LEMMA StopsKeepCaches ==
    ASSUME TypeOK, CachesInv, NEW t \in Tasks, CancelRead(t) \/ LetGo(t) \/ AbandonReplace(t)
    PROVE  CachesInv'
<1>1. /\ tasks[t].step \notin Sweeping /\ IsTask(tasks[t])
      /\ UNCHANGED <<db, redis, primary, fallback, suspect>>
  BY DEF CancelRead, LetGo, AbandonReplace, Sweeping, TypeOK
<1>2. ASSUME NEW task, IsTask(task), Goes(t, task), task.step \in {"idle", "abandoned"}
      PROVE  CachesInv'
  <2>1. tasks'[t] = task /\ \A r \in Tasks \ {t} : tasks'[r] = tasks[r]
    BY <1>2, OneTaskMoves
  <2>2. tasks'[t].step \notin Reading \cup {"answered", "storing", "sweeping"}
    BY <1>2, <2>1 DEF Reading
  <2>3. QED
    BY <1>1, <2>1, <2>2, ReaderKeepsCaches
<1>3. CASE CancelRead(t) \/ LetGo(t)
  <2>1. Goes(t, Idle) /\ Idle.step = "idle"
    BY <1>3 DEF CancelRead, LetGo, Ends, Idle
  <2>2. QED
    BY <1>2, <2>1, TasksFormed
<1>4. CASE AbandonReplace(t)
  <2> DEFINE task == [tasks[t] EXCEPT !.step = "abandoned"]
  <2>1. tasks[t].step \in Holding /\ "abandoned" \in Holding /\ Goes(t, task)
    BY <1>4 DEF AbandonReplace, Holding
  <2>2. IsTask(task) /\ task.step = "abandoned"
    BY <1>1, <2>1, TasksGoOn DEF IsTask
  <2> HIDE DEF task
  <2>3. QED
    BY <1>2, <2>1, <2>2
<1>5. QED
  BY <1>3, <1>4

\* The next prefix leaves the process's own cache.
LEMMA SweepKeepsCaches ==
    ASSUME TypeOK, CachesInv, NEW t \in Tasks, Sweep(t)
    PROVE  CachesInv'
<1> DEFINE sweep == tasks[t].sweep
           task == [tasks[t] EXCEPT !.step = "sweeping"]
<1>1. /\ tasks[t].step = "sweep" /\ IsTask(tasks[t]) /\ UNCHANGED <<db, redis, primary, suspect>>
      /\ sweep \in Seq(SUBSET Keys) /\ sweep # <<>>
  BY DEF Sweep, TypeOK, IsTask, Sweeping
<1>2. \A key \in Keys : Current(key)' = Current(key) /\ Nothing \in Current(key)
  BY <1>1 DEF Current
<1>3. CASE redis
  <2>1. /\ task.step = "sweeping" /\ task.sweep = sweep /\ task.changed = tasks[t].changed
        /\ IsTask(task)
    BY <1>1, TasksGoOn DEF IsTask, Sweeping
  <2>2. Goes(t, task) /\ fallback' = Emptied(fallback, Head(sweep))
    BY <1>3 DEF Sweep
  <2> HIDE DEF task, sweep
  <2>3. tasks'[t] = task /\ \A r \in Tasks \ {t} : tasks'[r] = tasks[r]
    BY <2>1, <2>2, OneTaskMoves
  <2>4. \A key \in Keys : fallback'[key] = IF key \in Head(sweep) THEN Nothing ELSE fallback[key]
    BY <2>2 DEF Emptied
  <2>5. \A key : SweepsHere(tasks[t], key) => key \in Head(sweep) \/ SweepsHere(tasks'[t], key)
    BY <1>1, <2>1, <2>3, SweepGoesOn DEF SweepsHere, sweep
  <2>6. \A key : SweepsRedis(tasks[t], key) => SweepsRedis(tasks'[t], key)
    BY <1>1, <2>1, <2>3 DEF SweepsRedis, Sweeping, sweep
  <2>7. FallbackOK'
    <3> SUFFICES ASSUME NEW key \in Keys, key \notin suspect
                 PROVE  \/ fallback'[key] \in Current(key)
                        \/ \E r \in Tasks : key \in tasks'[r].changed /\ SweepsHere(tasks'[r], key)
      BY <1>1, <1>2 DEF FallbackOK
    <3>1. CASE key \in Head(sweep)
      BY <1>2, <2>4, <3>1
    <3>2. CASE key \notin Head(sweep)
      <4>1. \/ fallback[key] \in Current(key)
            \/ \E r \in Tasks : key \in tasks[r].changed /\ SweepsHere(tasks[r], key)
        BY DEF CachesInv, FallbackOK
      <4>2. ASSUME NEW r \in Tasks, key \in tasks[r].changed, SweepsHere(tasks[r], key)
            PROVE  key \in tasks'[r].changed /\ SweepsHere(tasks'[r], key)
        <5>1. CASE r = t
          BY <2>1, <2>3, <2>5, <3>2, <4>2, <5>1
        <5>2. CASE r # t
          BY <2>3, <4>2, <5>2
        <5>3. QED
          BY <5>1, <5>2
      <4>3. QED
        BY <2>4, <3>2, <4>1, <4>2
    <3>3. QED
      BY <3>1, <3>2
  <2>8. PrimaryOK'
    <3> SUFFICES ASSUME NEW key \in Keys, key \notin suspect
                 PROVE  \/ primary[key] \in Current(key)
                        \/ \E r \in Tasks : key \in tasks'[r].changed /\ SweepsRedis(tasks'[r], key)
      BY <1>1, <1>2 DEF PrimaryOK
    <3>1. \/ primary[key] \in Current(key)
          \/ \E r \in Tasks : key \in tasks[r].changed /\ SweepsRedis(tasks[r], key)
      BY DEF CachesInv, PrimaryOK
    <3>2. ASSUME NEW r \in Tasks, key \in tasks[r].changed, SweepsRedis(tasks[r], key)
          PROVE  key \in tasks'[r].changed /\ SweepsRedis(tasks'[r], key)
      <4>1. CASE r = t
        BY <2>1, <2>3, <2>6, <3>2, <4>1
      <4>2. CASE r # t
        BY <2>3, <3>2, <4>2
      <4>3. QED
        BY <4>1, <4>2
    <3>3. QED
      BY <3>1, <3>2
  <2>9. ReadersOK'
    <3> SUFFICES ASSUME NEW r \in Tasks, tasks'[r].step \in Reading, tasks'[r].key \notin suspect
                 PROVE  /\ tasks'[r].held \in Current(tasks'[r].key)
                        /\ tasks'[r].step = "rows" => ReadsRows(tasks'[r].key)
      BY <1>1 DEF ReadersOK, Current, ReadsRows
    <3>1. r # t /\ tasks'[r] = tasks[r]
      BY <2>1, <2>3 DEF Reading
    <3>2. QED
      BY <3>1 DEF CachesInv, ReadersOK
  <2>10. OneTier'
    BY <1>1, <1>3 DEF OneTier
  <2>11. QED
    BY <2>7, <2>8, <2>9, <2>10 DEF CachesInv
<1>4. CASE ~redis
  <2>1. Goes(t, Idle) /\ fallback' = Emptied(fallback, UNION ToSet(sweep))
    BY <1>4 DEF Sweep, Ends
  <2>2. tasks'[t] = Idle /\ \A r \in Tasks \ {t} : tasks'[r] = tasks[r]
    BY <2>1, TasksFormed, OneTaskMoves
  <2>3. Idle.step = "idle"
    BY DEF Idle
  <2>4. \A key \in Keys : primary[key] = Nothing
    BY <1>4 DEF CachesInv, OneTier
  <2>5. \A key \in Keys : /\ Sweeps(sweep, key) => fallback'[key] = Nothing
                         /\ fallback'[key] \in {fallback[key], Nothing}
    BY <2>1 DEF Emptied, Sweeps, ToSet
  <2>6. FallbackOK'
    <3> SUFFICES ASSUME NEW key \in Keys, key \notin suspect
                 PROVE  \/ fallback'[key] \in Current(key)
                        \/ \E r \in Tasks : key \in tasks'[r].changed /\ SweepsHere(tasks'[r], key)
      BY <1>1, <1>2 DEF FallbackOK
    <3>1. \/ fallback[key] \in Current(key)
          \/ \E r \in Tasks : key \in tasks[r].changed /\ SweepsHere(tasks[r], key)
      BY DEF CachesInv, FallbackOK
    <3>2. CASE fallback[key] \in Current(key)
      BY <1>2, <2>5, <3>2
    <3>3. ASSUME NEW r \in Tasks, key \in tasks[r].changed, SweepsHere(tasks[r], key)
          PROVE  fallback'[key] = Nothing \/
                    (key \in tasks'[r].changed /\ SweepsHere(tasks'[r], key))
      <4>1. CASE r = t
        BY <1>1, <2>5, <3>3, <4>1 DEF SweepsHere
      <4>2. CASE r # t
        BY <2>2, <3>3, <4>2
      <4>3. QED
        BY <4>1, <4>2
    <3>4. QED
      BY <1>2, <3>1, <3>2, <3>3
  <2>7. PrimaryOK'
    BY <1>1, <1>2, <2>4 DEF PrimaryOK
  <2>8. ReadersOK'
    <3> SUFFICES ASSUME NEW r \in Tasks, tasks'[r].step \in Reading, tasks'[r].key \notin suspect
                 PROVE  /\ tasks'[r].held \in Current(tasks'[r].key)
                        /\ tasks'[r].step = "rows" => ReadsRows(tasks'[r].key)
      BY <1>1 DEF ReadersOK, Current, ReadsRows
    <3>1. r # t /\ tasks'[r] = tasks[r]
      BY <2>2, <2>3 DEF Reading
    <3>2. QED
      BY <3>1 DEF CachesInv, ReadersOK
  <2>9. OneTier'
    BY <1>1, <2>2, <2>3 DEF CachesInv, OneTier
  <2>10. QED
    BY <2>6, <2>7, <2>8, <2>9 DEF CachesInv
<1>5. QED
  BY <1>3, <1>4

\* The next prefix leaves Redis; what a failing call leaves there is suspect.
LEMMA SweepRedisKeepsCaches ==
    ASSUME TypeOK, CachesInv, NEW t \in Tasks, SweepRedis(t)
    PROVE  CachesInv'
<1> DEFINE sweep == tasks[t].sweep
           rest == Tail(sweep)
           task == IF rest = <<>> THEN Idle
                   ELSE Writer(rest, tasks[t].changed, tasks[t].agent)
<1>1. /\ tasks[t].step = "sweeping" /\ IsTask(tasks[t]) /\ UNCHANGED <<db, redis, fallback>>
      /\ sweep \in Seq(SUBSET Keys) /\ sweep # <<>>
      /\ tasks[t].changed \in SUBSET Keys /\ tasks[t].agent \in Sessions \cup {NoSession}
  BY DEF SweepRedis, TypeOK, IsTask, Sweeping
<1>2. \A key \in Keys : Current(key)' = Current(key) /\ Nothing \in Current(key)
  BY <1>1 DEF Current
<1>3. /\ suspect \subseteq suspect'
      /\ \A key \in Keys : primary'[key] \in {primary[key], Nothing}
      /\ \A key \in Keys \ suspect' : key \in Head(sweep) => primary'[key] = Nothing
  BY DEF SweepRedis, Emptied
<1>4. Goes(t, task)
  BY DEF SweepRedis, Ends
<1>5. rest \in Seq(SUBSET Keys)
  BY <1>1
<1>6. /\ task.step \notin Reading
      /\ rest # <<>> => /\ task.step = "sweep" /\ task.sweep = rest
                        /\ task.changed = tasks[t].changed
      /\ task.step \in {"idle", "sweep"}
  <2> HIDE DEF rest
  <2>1. QED
    BY DEF Idle, Writer, Reading
<1>7. IsTask(task)
  <2> HIDE DEF rest
  <2>1. QED
    BY <1>1, <1>5, TasksFormed
<1>8. redis
  BY <1>1 DEF CachesInv, OneTier
<1>9. \A key : SweepsHere(tasks[t], key) => rest # <<>> /\ Sweeps(rest, key)
  BY <1>1 DEF SweepsHere, Sweeps
<1>10. \A key : SweepsRedis(tasks[t], key) =>
          key \in Head(sweep) \/ (rest # <<>> /\ Sweeps(rest, key))
  BY <1>1, SweepGoesOn DEF SweepsRedis
<1> HIDE DEF task, sweep, rest
<1>11. tasks'[t] = task /\ \A r \in Tasks \ {t} : tasks'[r] = tasks[r]
  BY <1>4, <1>7, OneTaskMoves
<1>12. FallbackOK'
  <2> SUFFICES ASSUME NEW key \in Keys, key \notin suspect'
               PROVE  \/ fallback[key] \in Current(key)
                      \/ \E r \in Tasks : key \in tasks'[r].changed /\ SweepsHere(tasks'[r], key)
    BY <1>1, <1>2 DEF FallbackOK
  <2>1. \/ fallback[key] \in Current(key)
        \/ \E r \in Tasks : key \in tasks[r].changed /\ SweepsHere(tasks[r], key)
    BY <1>3 DEF CachesInv, FallbackOK
  <2>2. ASSUME NEW r \in Tasks, key \in tasks[r].changed, SweepsHere(tasks[r], key)
        PROVE  key \in tasks'[r].changed /\ SweepsHere(tasks'[r], key)
    <3>1. CASE r = t
      BY <1>6, <1>9, <1>11, <2>2, <3>1 DEF SweepsHere
    <3>2. CASE r # t
      BY <1>11, <2>2, <3>2
    <3>3. QED
      BY <3>1, <3>2
  <2>3. QED
    BY <2>1, <2>2
<1>13. PrimaryOK'
  <2> SUFFICES ASSUME NEW key \in Keys, key \notin suspect'
               PROVE  \/ primary'[key] \in Current(key)
                      \/ \E r \in Tasks : key \in tasks'[r].changed /\ SweepsRedis(tasks'[r], key)
    BY <1>1, <1>2 DEF PrimaryOK
  <2>1. \/ primary[key] \in Current(key)
        \/ \E r \in Tasks : key \in tasks[r].changed /\ SweepsRedis(tasks[r], key)
    BY <1>3 DEF CachesInv, PrimaryOK
  <2>2. CASE primary[key] \in Current(key)
    BY <1>2, <1>3, <2>2
  <2>3. ASSUME NEW r \in Tasks, key \in tasks[r].changed, SweepsRedis(tasks[r], key)
        PROVE  primary'[key] = Nothing \/
                  (key \in tasks'[r].changed /\ SweepsRedis(tasks'[r], key))
    <3>1. CASE r = t
      <4>1. CASE key \in Head(sweep)
        BY <1>3, <4>1
      <4>2. CASE rest # <<>> /\ Sweeps(rest, key)
        BY <1>6, <1>11, <2>3, <3>1, <4>2 DEF SweepsRedis, Sweeping
      <4>3. QED
        BY <1>10, <2>3, <3>1, <4>1, <4>2
    <3>2. CASE r # t
      BY <1>11, <2>3, <3>2
    <3>3. QED
      BY <3>1, <3>2
  <2>4. QED
    BY <1>2, <2>1, <2>2, <2>3
<1>14. ReadersOK'
  <2> SUFFICES ASSUME NEW r \in Tasks, tasks'[r].step \in Reading, tasks'[r].key \notin suspect'
               PROVE  /\ tasks'[r].held \in Current(tasks'[r].key)
                      /\ tasks'[r].step = "rows" => ReadsRows(tasks'[r].key)
    BY <1>1 DEF ReadersOK, Current, ReadsRows
  <2>1. r # t /\ tasks'[r] = tasks[r]
    BY <1>6, <1>11
  <2>2. QED
    BY <1>3, <2>1 DEF CachesInv, ReadersOK
<1>15. OneTier'
  BY <1>1, <1>8 DEF OneTier
<1>16. QED
  BY <1>12, <1>13, <1>14, <1>15 DEF CachesInv

\* Whoever was to sweep is cancelled: what it had changed is suspect.
LEMMA CancelledSweepKeepsCaches ==
    ASSUME TypeOK, CachesInv, NEW t \in Tasks, CancelSweep(t)
    PROVE  CachesInv'
<1>1. /\ UNCHANGED <<db, redis, primary, fallback>> /\ Goes(t, Idle)
      /\ suspect' = suspect \cup tasks[t].changed
  BY DEF CancelSweep, Ends
<1>2. /\ tasks'[t] = Idle /\ \A r \in Tasks \ {t} : tasks'[r] = tasks[r]
      /\ Idle.step = "idle"
  BY <1>1, TasksFormed, OneTaskMoves DEF Idle
<1>3. \A key : Current(key)' = Current(key) /\ (ReadsRows(key)' <=> ReadsRows(key))
  BY <1>1 DEF Current, ReadsRows
<1>4. FallbackOK'
  <2> SUFFICES ASSUME NEW key \in Keys, key \notin suspect'
               PROVE  \/ fallback[key] \in Current(key)
                      \/ \E r \in Tasks : key \in tasks'[r].changed /\ SweepsHere(tasks'[r], key)
    BY <1>1, <1>3 DEF FallbackOK
  <2>1. \/ fallback[key] \in Current(key)
        \/ \E r \in Tasks : key \in tasks[r].changed /\ SweepsHere(tasks[r], key)
    BY <1>1 DEF CachesInv, FallbackOK
  <2>2. QED
    BY <1>1, <1>2, <2>1
<1>5. PrimaryOK'
  <2> SUFFICES ASSUME NEW key \in Keys, key \notin suspect'
               PROVE  \/ primary[key] \in Current(key)
                      \/ \E r \in Tasks : key \in tasks'[r].changed /\ SweepsRedis(tasks'[r], key)
    BY <1>1, <1>3 DEF PrimaryOK
  <2>1. \/ primary[key] \in Current(key)
        \/ \E r \in Tasks : key \in tasks[r].changed /\ SweepsRedis(tasks[r], key)
    BY <1>1 DEF CachesInv, PrimaryOK
  <2>2. QED
    BY <1>1, <1>2, <2>1
<1>6. ReadersOK'
  <2> SUFFICES ASSUME NEW r \in Tasks, tasks'[r].step \in Reading, tasks'[r].key \notin suspect'
               PROVE  /\ tasks'[r].held \in Current(tasks'[r].key)
                      /\ tasks'[r].step = "rows" => ReadsRows(tasks'[r].key)
    BY <1>1, <1>3 DEF ReadersOK, Current, ReadsRows
  <2>1. r # t /\ tasks'[r] = tasks[r]
    BY <1>2 DEF Reading
  <2>2. QED
    BY <1>1, <2>1 DEF CachesInv, ReadersOK
<1>7. OneTier'
  BY <1>1, <1>2 DEF CachesInv, OneTier
<1>8. QED
  BY <1>4, <1>5, <1>6, <1>7 DEF CachesInv

\* No step lets a cache, or a read in progress, hold an outdated answer that is
\* neither suspect nor about to be swept.
LEMMA CachesStep ==
    ASSUME TablesInv, CachesInv, [StoreNext]_storeVars
    PROVE  CachesInv'
<1>0. TypeOK
  BY DEF TablesInv
<1>1. ASSUME NEW s, NEW x,
             \/ \E t \in Tasks : \E sweep, agent : Awaited(t, s, x, sweep, agent)
             \/ Unattended(s, x)
      PROVE  CachesInv'
  BY <1>1, WriteKeepsCaches, LateKeepsCaches
<1>2. ASSUME NEW t \in Tasks,
             TakeAnswer(t) \/ Query(t) \/ QueryRows(t) \/ Fill(t) \/ FillRedis(t)
      PROVE  CachesInv'
  BY <1>0, <1>2, AnswersKeepCaches
<1>3. ASSUME NEW t \in Tasks, Sweep(t) \/ SweepRedis(t) PROVE CachesInv'
  BY <1>0, <1>3, SweepKeepsCaches, SweepRedisKeepsCaches
<1>4. ASSUME NEW t \in Tasks, ReadForBrowser(t) \/ ListMessages(t) PROVE CachesInv'
  BY <1>0, <1>4, LegacyAssumption, ReadKeepsCaches DEF ReadForBrowser, ListMessages
<1>5. CASE UNCHANGED <<db, redis, primary, fallback, tasks, suspect>>
  BY <1>5 DEF CachesInv, FallbackOK, PrimaryOK, ReadersOK, OneTier, Current, ReadsRows
<1>6. CASE Expire
  <2>1. /\ UNCHANGED <<db, redis, tasks, suspect>>
        /\ \A key \in Keys : /\ fallback'[key] \in {fallback[key], Nothing}
                             /\ primary'[key] \in {primary[key], Nothing}
    BY <1>0, <1>6 DEF Expire, Emptied, TypeOK
  <2>2. \A key : Current(key)' = Current(key) /\ Nothing \in Current(key)
    BY <2>1 DEF Current
  <2>3. FallbackOK'
    BY <2>1, <2>2 DEF CachesInv, FallbackOK
  <2>4. PrimaryOK'
    BY <2>1, <2>2 DEF CachesInv, PrimaryOK
  <2>5. ReadersOK' /\ OneTier'
    BY <2>1, <2>2 DEF CachesInv, ReadersOK, OneTier, ReadsRows
  <2>6. QED
    BY <2>3, <2>4, <2>5 DEF CachesInv
<1>7. CASE Restart
  <2>1. /\ UNCHANGED <<db, redis, primary>> /\ suspect' = suspect \cup Unswept
        /\ \A key \in Keys : fallback'[key] = Nothing
        /\ \A t \in Tasks : tasks'[t].step = "idle"
    BY <1>7 DEF Restart, NoEntries, Idle
  <2>2. \A key : Current(key)' = Current(key) /\ Nothing \in Current(key)
    BY <2>1 DEF Current
  <2>3. FallbackOK'
    BY <2>1, <2>2 DEF FallbackOK
  <2>4. PrimaryOK'
    <3> SUFFICES ASSUME NEW key \in Keys, key \notin suspect' PROVE primary[key] \in Current(key)
      BY <2>1, <2>2 DEF PrimaryOK
    <3>1. \A t \in Tasks : key \notin tasks[t].changed
      BY <2>1 DEF Unswept
    <3>2. QED
      BY <2>1, <3>1 DEF CachesInv, PrimaryOK
  <2>5. ReadersOK' /\ OneTier'
    BY <2>1 DEF CachesInv, ReadersOK, OneTier, Reading
  <2>6. QED
    BY <2>3, <2>4, <2>5 DEF CachesInv
<1>8. ASSUME NEW w \in Workspaces, EnsureWorkspace(w) PROVE CachesInv'
  BY <1>5, <1>8 DEF EnsureWorkspace
<1>9. ASSUME NEW t \in Tasks,
             CancelRead(t) \/ LetGo(t) \/ AbandonReplace(t) \/ CancelSweep(t)
      PROVE  CachesInv'
  BY <1>0, <1>9, StopsKeepCaches, CancelledSweepKeepsCaches
<1>10. CASE CacheStep
  BY <1>2, <1>3, <1>4, <1>6, <1>7, <1>8, <1>9, <1>10 DEF CacheStep
<1>11. CASE UNCHANGED storeVars
  BY <1>5, <1>11 DEF storeVars
<1>12. QED
  BY <1>1, <1>10, <1>11, StoreSteps

-----------------------------------------------------------------------------
(* The agent reads its own writes, and replaces what it has read: nobody     *)
(* else reads its keys, and nobody else outdates them but who deletes the    *)
(* session, as long as nothing fails.                                        *)

Quiet == faults = 0 /\ restarts = 0

Undeleted(s) == db[s].status # "deleted"

\* A task reads an agent's key for that agent and for no one else, nobody else
\* changes it, and a list that the agent holds is what the session's rows are.
OfAgent(task) ==
    /\ \A s \in Sessions :
          /\ task.key = AgentKey(s) => task.agent = s
          /\ task.agent = s /\ task.step \in Reading => task.key = AgentKey(s)
          /\ Undeleted(s) =>
                /\ AgentKey(s) \in task.changed => task.agent = s
                /\ task.agent = s /\ task.step = "listed" => task.held = Answer(db, AgentKey(s))
    /\ task.step # "abandoned"

AgentAlone == \A t, r \in Tasks : tasks[t].agent = tasks[r].agent =>
                 t = r \/ tasks[t].agent \notin Sessions

AgentUnsuspected == \A s \in Sessions : Undeleted(s) => AgentKey(s) \notin suspect

AgentInv == Quiet => /\ \A t \in Tasks : OfAgent(tasks[t])
                     /\ AgentAlone /\ AgentUnsuspected

\* Each session has a key that only its agent reads (AgentStoreAdapter.list_messages).
LEMMA AgentKeys ==
    /\ \A s \in Sessions : /\ AgentKey(s) \in Keys /\ AgentKey(s) \notin ReadKeys
                           /\ AgentKey(s) # NoKey
    /\ \A r, s \in Sessions : AgentKey(r) = AgentKey(s) => r = s
<1>1. \A s \in Sessions : /\ AgentKey(s) \in Keys /\ AgentKey(s) \notin ReadKeys
                         /\ AgentKey(s) # NoKey
  BY LegacyAssumption
<1>2. \A r, s \in Sessions : AgentKey(r) = AgentKey(s) => r = s
  BY DEF AgentKey, MessagesKey
<1>3. QED
  BY <1>1, <1>2

\* As long as nothing fails, an agent is free when no task works for it.
LEMMA FreeAgents ==
    ASSUME AgentInv, Quiet, NEW s, AgentFree(s)
    PROVE  \A t \in Tasks : tasks[t].agent # s
BY DEF AgentInv, OfAgent, AgentFree

\* A step that changes one task and no table.
LEMMA TaskKeepsAgent ==
    ASSUME TypeOK, AgentInv, Quiet, NEW t \in Tasks, NEW task, IsTask(task), Goes(t, task),
           db' = db, OfAgent(task),
           task.agent \in Sessions => task.agent = tasks[t].agent \/ AgentFree(task.agent),
           \A s \in Sessions : Undeleted(s) => AgentKey(s) \notin suspect'
    PROVE  AgentInv'
<1>1. tasks'[t] = task /\ \A r \in Tasks \ {t} : tasks'[r] = tasks[r]
  BY OneTaskMoves
<1>2. \A s : Undeleted(s)' <=> Undeleted(s)
  BY DEF Undeleted
<1>3. \A r \in Tasks : OfAgent(tasks[r])' <=> OfAgent(tasks'[r])
  BY <1>2 DEF OfAgent
<1>4. \A r \in Tasks : OfAgent(tasks'[r])
  BY <1>1 DEF AgentInv
<1>5. AgentAlone'
  <2> SUFFICES ASSUME NEW q \in Tasks, NEW r \in Tasks, tasks'[q].agent = tasks'[r].agent,
                      tasks'[q].agent \in Sessions, q # r
               PROVE  FALSE
    BY DEF AgentAlone
  <2>1. ASSUME NEW p \in Tasks \ {t}, tasks[p].agent = task.agent, task.agent \in Sessions
        PROVE  FALSE
    <3>1. CASE task.agent = tasks[t].agent
      BY <2>1, <3>1 DEF AgentInv, AgentAlone
    <3>2. CASE AgentFree(task.agent)
      BY <2>1, <3>2, FreeAgents
    <3>3. QED
      BY <2>1, <3>1, <3>2
  <2>2. CASE q = t
    BY <1>1, <2>1, <2>2
  <2>3. CASE r = t
    BY <1>1, <2>1, <2>3
  <2>4. CASE q # t /\ r # t
    BY <1>1, <2>4 DEF AgentInv, AgentAlone
  <2>5. QED
    BY <2>2, <2>3, <2>4
<1>6. AgentUnsuspected'
  BY <1>2 DEF AgentUnsuspected
<1>7. QED
  BY <1>3, <1>4, <1>5, <1>6 DEF AgentInv

\* A task that stops is nobody's.
LEMMA IdleOfAgent == OfAgent(Idle) /\ Idle.agent \notin Sessions
BY AgentKeys, LegacyAssumption DEF OfAgent, Idle, Reading

\* What an agent takes from a cache is what the session's rows are.
LEMMA AgentCached ==
    ASSUME TypeOK, CachesInv, AgentInv, Quiet, NEW s \in Sessions, Undeleted(s),
           \A t \in Tasks : AgentKey(s) \notin tasks[t].changed
    PROVE  /\ fallback[AgentKey(s)] \in Current(AgentKey(s))
           /\ primary[AgentKey(s)] \in Current(AgentKey(s))
<1>1. AgentKey(s) \in Keys /\ AgentKey(s) \notin suspect
  BY AgentKeys DEF AgentInv, AgentUnsuspected
<1>2. QED
  BY <1>1 DEF CachesInv, FallbackOK, PrimaryOK

\* A read of key that returns leaves a task that AgentInv allows.
LEMMA ReturnOfAgent ==
    ASSUME NEW task, NEW answer, NEW agent, Returned(task, answer, agent),
           \A s \in Sessions : agent = s /\ Undeleted(s) => answer \in Current(AgentKey(s))
    PROVE  OfAgent(task)
<1>1. /\ task.key = NoKey /\ task.changed = {} /\ task.step \notin Reading
      /\ task.step # "abandoned"
      /\ task.step = "listed" => task.agent = agent /\ task.held = answer /\ answer # Nothing
  BY DEF Returned, Reading
<1>2. QED
  BY <1>1, AgentKeys DEF OfAgent, Current

\* So does one that goes on with the key.
LEMMA ReaderOfAgent ==
    ASSUME NEW task, task.step \in Reading,
           \A s \in Sessions : task.key = AgentKey(s) <=> task.agent = s,
           \A s \in Sessions : Undeleted(s) /\ AgentKey(s) \in task.changed => task.agent = s
    PROVE  OfAgent(task)
BY DEF OfAgent, Reading

\* A read for the agent starts when no task of the agent is left on the session;
\* another read has another key.
LEMMA ReadKeepsAgent ==
    ASSUME TypeOK, CachesInv, AgentInv, Quiet, Quiet', NEW t \in Tasks,
           ReadForBrowser(t) \/ ListMessages(t)
    PROVE  AgentInv'
<1>1. PICK key \in Keys, agent \in Sessions \cup {NoSession} :
        /\ Read(t, key, agent)
        /\ \/ key \in ReadKeys /\ agent = NoSession
           \/ \E s \in Sessions : key = AgentKey(s) /\ agent = s /\ AgentFree(s)
  BY AgentKeys, LegacyAssumption DEF ReadForBrowser, ListMessages
<1>2. \A s \in Sessions : key = AgentKey(s) <=> agent = s
  BY <1>1, AgentKeys, LegacyAssumption
<1>3. agent \in Sessions => AgentFree(agent)
  BY <1>1, LegacyAssumption
<1>4. db' = db /\ suspect' \subseteq suspect \cup ({key} \cap Unswept)
  BY <1>1 DEF Read, AskRedis, LookUp
<1>5. \A s \in Sessions : Undeleted(s) /\ agent = s =>
         \A r \in Tasks : AgentKey(s) \notin tasks[r].changed
  BY <1>3, FreeAgents DEF AgentInv, OfAgent
<1>6. \A s \in Sessions : Undeleted(s) => AgentKey(s) \notin suspect'
  BY <1>2, <1>4, <1>5 DEF AgentInv, AgentUnsuspected, Unswept
<1>7. ASSUME NEW step \in Reading, NEW held, Goes(t, Reader(step, key, held, agent))
      PROVE  AgentInv'
  <2>1. PICK task : /\ task = Reader(step, key, held, agent) /\ IsTask(task)
                    /\ task.step = step /\ task.key = key
                    /\ task.agent = agent /\ task.changed = {}
    BY ReadersFormed
  <2>2. OfAgent(task)
    BY <1>2, <2>1, ReaderOfAgent
  <2>3. Goes(t, task)
    BY <1>7, <2>1
  <2>4. QED
    BY <1>3, <1>4, <1>6, <2>1, <2>2, <2>3, TaskKeepsAgent
<1>8. ASSUME NEW task, Returned(task, fallback[key], agent), Goes(t, task)
      PROVE  AgentInv'
  <2>1. \A s \in Sessions : agent = s /\ Undeleted(s) => fallback[key] \in Current(AgentKey(s))
    BY <1>2, <1>5, AgentCached
  <2>2. OfAgent(task)
    BY <1>8, <2>1, ReturnOfAgent
  <2>3. IsTask(task) /\ (task.agent \in Sessions => AgentFree(task.agent))
    BY <1>3, <1>8, LegacyAssumption DEF Returned
  <2>4. QED
    BY <1>4, <1>6, <1>8, <2>2, <2>3, TaskKeepsAgent
<1>9. CASE AskRedis(t, key, agent)
  <2>1. "answered" \in Reading
    BY DEF Reading
  <2>2. QED
    BY <1>7, <1>9, <2>1 DEF AskRedis
<1>10. CASE LookUp(t, key, agent)
  <2>1. "query" \in Reading
    BY DEF Reading
  <2>2. QED
    BY <1>7, <1>8, <1>10, <2>1, OwnAnswers DEF LookUp
<1>11. QED
  BY <1>1, <1>9, <1>10 DEF Read

\* The steps of a read, and of an invalidation, keep what an agent's messages owe
\* to its own writes.
LEMMA TaskStepsKeepAgent ==
    ASSUME TypeOK, CachesInv, AgentInv, Quiet, Quiet', NEW t \in Tasks,
           \/ TakeAnswer(t) \/ Query(t) \/ QueryRows(t) \/ Fill(t) \/ FillRedis(t)
           \/ CancelRead(t) \/ Sweep(t) \/ SweepRedis(t) \/ CancelSweep(t)
           \/ AbandonReplace(t) \/ LetGo(t)
    PROVE  AgentInv'
<1> DEFINE key == tasks[t].key  agent == tasks[t].agent  changed == tasks[t].changed
           held == tasks[t].held  rest == Tail(tasks[t].sweep)
<1>1. IsTask(tasks[t]) /\ agent \in Sessions \cup {NoSession} /\ changed \in SUBSET Keys
  BY DEF TypeOK, IsTask
<1>2. ~Mishap
  BY DEF Quiet, Mishap
<1>3. db' = db /\ suspect' = suspect
  BY <1>2 DEF TakeAnswer, Query, QueryRows, Fill, FillRedis, CancelRead, Sweep, SweepRedis,
              CancelSweep, AbandonReplace, LetGo, RedisFails
<1>4. \A s \in Sessions : Undeleted(s) => AgentKey(s) \notin suspect'
  BY <1>3 DEF AgentInv, AgentUnsuspected
<1>5. OfAgent(tasks[t])
  BY DEF AgentInv
<1>6. CASE Goes(t, Idle)
  BY <1>3, <1>4, <1>6, IdleOfAgent, TasksFormed, TaskKeepsAgent
<1>7. ASSUME NEW task, IsTask(task), Goes(t, task), task.key = key, task.agent = agent,
             task.changed = changed,
             \/ task.step \in Reading /\ tasks[t].step \in Reading
             \/ task.step \in Sweeping
      PROVE  AgentInv'
  <2>1. task.step \in Sweeping => task.step \notin Reading /\ task.step \notin Holding
    BY DEF Sweeping, Reading, Holding
  <2>2. task.step \in Reading => task.step \notin Holding
    BY DEF Reading, Holding
  <2>3. OfAgent(task)
    BY <1>5, <1>7, <2>1, <2>2 DEF OfAgent, Holding
  <2>4. QED
    BY <1>3, <1>4, <1>7, <2>3, TaskKeepsAgent
<1>8. ASSUME NEW step \in Reading, tasks[t].step \in Reading, NEW answer,
             Goes(t, Reader(step, key, answer, agent))
      PROVE  AgentInv'
  <2>1. key \in Keys
    BY <1>8, ReadersHaveKeys
  <2> HIDE DEF key, agent
  <2>2. PICK task : /\ task = Reader(step, key, answer, agent) /\ IsTask(task)
                    /\ task.step = step /\ task.key = key
                    /\ task.agent = agent /\ task.changed = {}
    BY <1>1, <2>1, ReadersFormed
  <2>3. OfAgent(task)
    BY <1>5, <1>8, <2>2, ReaderOfAgent DEF OfAgent, key, agent
  <2>4. QED
    BY <1>3, <1>4, <1>8, <2>2, <2>3, TaskKeepsAgent DEF agent
<1>9. ASSUME NEW step,
             \/ tasks[t].step \in Reading /\ step \in Reading
             \/ tasks[t].step \in Sweeping /\ step \in Sweeping,
             Goes(t, [tasks[t] EXCEPT !.step = step])
      PROVE  AgentInv'
  <2> DEFINE task == [tasks[t] EXCEPT !.step = step]
  <2>1. /\ task.key = key /\ task.agent = agent /\ task.changed = changed
        /\ task.step = step
    BY <1>1 DEF IsTask
  <2>2. IsTask(task)
    BY <1>1, <1>9, TasksGoOn
  <2> HIDE DEF task
  <2>3. Goes(t, task)
    BY <1>9 DEF task
  <2>4. QED
    BY <1>7, <1>9, <2>1, <2>2, <2>3
<1>10. ASSUME tasks[t].step \in Reading, NEW answer, NEW task, Returned(task, answer, agent),
              Goes(t, task),
              \A s \in Sessions : agent = s /\ Undeleted(s) => answer \in Current(AgentKey(s))
       PROVE  AgentInv'
  <2>1. OfAgent(task)
    BY <1>10, ReturnOfAgent
  <2>2. IsTask(task) /\ (task.agent \in Sessions => task.agent = agent)
    BY <1>10, LegacyAssumption DEF Returned
  <2>3. QED
    BY <1>3, <1>4, <1>10, <2>1, <2>2, TaskKeepsAgent
<1>11. ASSUME tasks[t].step \in Reading
       PROVE  \A s \in Sessions : agent = s /\ Undeleted(s) =>
                 key = AgentKey(s) /\ held \in Current(AgentKey(s))
  <2> SUFFICES ASSUME NEW s \in Sessions, agent = s, Undeleted(s)
               PROVE  key = AgentKey(s) /\ held \in Current(AgentKey(s))
    OBVIOUS
  <2>1. key = AgentKey(s)
    BY <1>5, <1>11 DEF OfAgent
  <2>2. key \notin suspect
    BY <2>1 DEF AgentInv, AgentUnsuspected
  <2>3. QED
    BY <1>11, <2>1, <2>2 DEF CachesInv, ReadersOK
<1>12. CASE TakeAnswer(t)
  <2>1. /\ tasks[t].step \in Reading /\ key \in Keys /\ "query" \in Reading
        /\ \/ Returns(t, held, agent) \/ AskOwn(t, key, agent)
    BY <1>12, ReadersHaveKeys DEF TakeAnswer, Reading
  <2>2. ASSUME NEW s \in Sessions, agent = s, Undeleted(s)
        PROVE  fallback[key] \in Current(AgentKey(s))
    <3>1. key = AgentKey(s)
      BY <1>11, <2>1, <2>2
    <3>2. \A r \in Tasks : AgentKey(s) \in tasks[r].changed => r = t
      BY <2>2 DEF AgentInv, OfAgent, AgentAlone
    <3>3. ~SweepsHere(tasks[t], key)
      BY <1>12 DEF TakeAnswer, SweepsHere
    <3>4. key \notin suspect
      BY <2>2, <3>1 DEF AgentInv, AgentUnsuspected
    <3>5. QED
      BY <2>1, <3>1, <3>2, <3>3, <3>4 DEF CachesInv, FallbackOK
  <2>3. QED
    BY <1>1, <1>8, <1>10, <1>11, <2>1, <2>2, ReadsReturn, OwnAnswers
<1>13. CASE Query(t) \/ QueryRows(t)
  <2>1. /\ tasks[t].step \in Reading
        /\ \/ Goes(t, Idle) \/ Goes(t, [tasks[t] EXCEPT !.step = "rows"])
           \/ \E answer : Goes(t, Reader("filling", key, answer, agent))
    BY <1>13 DEF Query, QueryRows, Hold, Ends, Reading
  <2>2. "rows" \in Reading /\ "filling" \in Reading
    BY DEF Reading
  <2>3. QED
    BY <1>6, <1>8, <1>9, <2>1, <2>2
<1>14. CASE Fill(t) \/ FillRedis(t)
  <2>1. /\ tasks[t].step \in Reading /\ "storing" \in Reading
        /\ \/ Returns(t, held, agent) \/ Goes(t, [tasks[t] EXCEPT !.step = "storing"])
    BY <1>14 DEF Fill, FillRedis, Reading
  <2>2. QED
    BY <1>1, <1>9, <1>10, <1>11, <2>1, ReadsReturn
<1>15. CASE Sweep(t) \/ SweepRedis(t)
  <2>1. /\ tasks[t].step \in Sweeping /\ "sweeping" \in Sweeping
        /\ \/ Goes(t, Idle) \/ Goes(t, [tasks[t] EXCEPT !.step = "sweeping"])
           \/ rest # <<>> /\ Goes(t, Writer(rest, changed, agent))
    BY <1>15 DEF Sweep, SweepRedis, Ends, Sweeping
  <2>2. ASSUME rest # <<>>, Goes(t, Writer(rest, changed, agent))
        PROVE  AgentInv'
    <3> DEFINE task == Writer(rest, changed, agent)
    <3>1. /\ task.key = NoKey /\ task.agent = agent /\ task.changed = changed
          /\ task.step = "sweep"
      BY DEF Writer
    <3>2. tasks[t].sweep \in Seq(SUBSET Keys) /\ tasks[t].sweep # <<>> /\ key = NoKey
      BY <1>1, <2>1 DEF IsTask, Reading, Sweeping
    <3>3. rest \in Seq(SUBSET Keys)
      BY <3>2
    <3> HIDE DEF rest
    <3>4. IsTask(task)
      BY <1>1, <2>2, <3>3, TasksFormed
    <3> HIDE DEF task
    <3>5. Goes(t, task) /\ task.step \in Sweeping
      BY <2>2, <3>1 DEF task, Sweeping
    <3>6. QED
      BY <1>7, <3>1, <3>2, <3>4, <3>5
  <2>3. QED
    BY <1>6, <1>9, <2>1, <2>2
<1>16. CASE CancelRead(t) \/ LetGo(t)
  BY <1>6, <1>16 DEF CancelRead, LetGo, Ends
<1>17. ~(CancelSweep(t) \/ AbandonReplace(t))
  BY <1>2 DEF CancelSweep, AbandonReplace
<1>18. QED
  BY <1>12, <1>13, <1>14, <1>15, <1>16, <1>17

\* A transaction that outdates an agent's key is that agent's, and it has no other
\* task that reads the key or holds its list.
LEMMA WriteKeepsAgent ==
    ASSUME TablesInv, AgentInv, Quiet, NEW t \in Tasks, NEW s, NEW x, NEW sweep, NEW agent,
           Awaited(t, s, x, sweep, agent)
    PROVE  AgentInv'
<1> DEFINE task == Writer(sweep, Changed(s, x), agent)
<1>1. /\ s \in Sessions /\ db'[s] = x /\ \A r \in Sessions \ {s} : db'[r] = db[r]
      /\ db' = [db EXCEPT ![s] = x]
      /\ tasks'[t] = task /\ \A r \in Tasks \ {t} : tasks'[r] = tasks[r]
      /\ suspect' = suspect \cup {key \in Changed(s, x) : \E r \in Tasks : tasks[r].key = key}
  BY WriteOutcome
<1>2. /\ task.key = NoKey /\ task.changed = Changed(s, x) /\ task.agent = agent
      /\ task.step = "sweep"
  BY DEF Writer
<1> HIDE DEF task
<1>3. /\ Undeleted(s) /\ (Undeleted(s)' <=> x.status # "deleted")
      /\ agent \in Sessions \cup {NoSession}
      /\ agent # NoSession => tasks[t].agent = agent \/ AgentFree(agent)
      /\ tasks[t].step \in {"idle", "listed"}
  BY <1>1 DEF Awaited, Proper, Settled, Working, Undeleted
<1>4. \A r \in Sessions : Undeleted(r)' => Undeleted(r)
  BY <1>1, <1>3 DEF Undeleted
<1>5. \A r \in Sessions : AgentKey(r) \in Changed(s, x) /\ Undeleted(r)' => agent = r
  <2> SUFFICES ASSUME NEW r \in Sessions, AgentKey(r) \in Changed(s, x), Undeleted(r)'
               PROVE  agent = r
    OBVIOUS
  <2>1. DOMAIN db = Sessions
    BY DEF TablesInv, TypeOK
  <2>2. r = s
    BY <1>1, <2>1, AgentAnswers
  <2>3. QED
    BY <1>3, <2>2 DEF Awaited, Proper
<1>6. \A r \in Tasks \ {t} : tasks[r].agent = agent => agent \notin Sessions
  <2> SUFFICES ASSUME NEW r \in Tasks \ {t}, tasks[r].agent = agent, agent \in Sessions
               PROVE  FALSE
    OBVIOUS
  <2>1. CASE tasks[t].agent = agent
    BY <2>1 DEF AgentInv, AgentAlone
  <2>2. CASE AgentFree(agent)
    BY <2>2, FreeAgents
  <2>3. QED
    BY <1>3, <2>1, <2>2, LegacyAssumption
<1>7. ASSUME NEW r \in Tasks, r = t PROVE OfAgent(tasks[r])'
  BY <1>1, <1>2, <1>5, <1>7, AgentKeys DEF OfAgent, Reading
<1>8. ASSUME NEW r \in Tasks \ {t} PROVE OfAgent(tasks[r])'
  <2>1. OfAgent(tasks[r]) /\ tasks'[r] = tasks[r]
    BY <1>1 DEF AgentInv
  <2>2. ASSUME NEW q \in Sessions, Undeleted(q)', tasks[r].agent = q, tasks[r].step = "listed"
        PROVE  tasks[r].held = Answer(db', AgentKey(q))
    <3>1. tasks[r].held = Answer(db, AgentKey(q))
      BY <1>4, <2>1, <2>2 DEF OfAgent
    <3>2. tasks[r].held # Nothing
      BY <2>2, HoldersAreAgents DEF Holding
    <3>3. AgentKey(q) \notin Changed(s, x)
      BY <1>5, <1>6, <2>2
    <3>4. QED
      BY <1>1, <3>1, <3>2, <3>3, AgentKeys DEF Changed
  <2>3. QED
    BY <1>4, <2>1, <2>2 DEF OfAgent
<1>9. AgentAlone'
  BY <1>1, <1>2, <1>6 DEF AgentInv, AgentAlone
<1>10. AgentUnsuspected'
  <2> SUFFICES ASSUME NEW q \in Sessions, Undeleted(q)'
               PROVE  AgentKey(q) \notin suspect'
    BY DEF AgentUnsuspected
  <2>1. AgentKey(q) \notin suspect
    BY <1>4 DEF AgentInv, AgentUnsuspected
  <2>2. ASSUME AgentKey(q) \in Changed(s, x), NEW r \in Tasks, tasks[r].key = AgentKey(q)
        PROVE  FALSE
    <3>1. agent = q /\ tasks[r].agent = q
      BY <1>5, <2>2 DEF AgentInv, OfAgent
    <3>2. r = t
      BY <1>6, <3>1
    <3>3. tasks[t].key = NoKey
      BY <1>3 DEF TablesInv, TypeOK, IsTask, Reading
    <3>4. QED
      BY <2>2, <3>2, <3>3, AgentKeys
  <2>3. QED
    BY <1>1, <2>1, <2>2
<1>11. ASSUME NEW r \in Tasks PROVE OfAgent(tasks[r])'
  BY <1>7, <1>8
<1>12. QED
  BY <1>9, <1>10, <1>11 DEF AgentInv

\* No failure and no restart is forgotten.
LEMMA QuietBefore ==
    ASSUME TablesInv, [StoreNext]_storeVars, Quiet'
    PROVE  Quiet
<1>1. faults \in Nat /\ restarts \in Nat
  BY LegacyAssumption DEF TablesInv, TypeOK
<1>2. SUFFICES /\ faults' = faults \/ faults' = faults + 1
               /\ restarts' = restarts \/ restarts' = restarts + 1
  BY <1>1 DEF Quiet
<1>3. CASE CacheStep
  <2>1. ASSUME NEW t \in Tasks,
               \/ TakeAnswer(t) \/ Query(t) \/ QueryRows(t) \/ Fill(t) \/ FillRedis(t)
               \/ CancelRead(t) \/ Sweep(t) \/ SweepRedis(t) \/ CancelSweep(t)
               \/ AbandonReplace(t) \/ LetGo(t)
        PROVE  /\ faults' = faults \/ faults' = faults + 1
               /\ restarts' = restarts
    BY <2>1 DEF TakeAnswer, Query, QueryRows, Fill, FillRedis, CancelRead, Sweep, SweepRedis,
                CancelSweep, AbandonReplace, LetGo, RedisFails, RedisAnswers, Mishap
  <2>2. ASSUME NEW t \in Tasks, ReadForBrowser(t) \/ ListMessages(t)
        PROVE  /\ faults' = faults \/ faults' = faults + 1
               /\ restarts' = restarts
    BY <2>2 DEF ReadForBrowser, ListMessages, Read, AskRedis, LookUp, RedisFails, RedisAnswers,
                Mishap
  <2>3. ASSUME NEW w \in Workspaces, EnsureWorkspace(w)
        PROVE  faults' = faults /\ restarts' = restarts
    BY <2>3 DEF EnsureWorkspace
  <2>4. CASE Expire \/ Restart
    BY <2>4 DEF Expire, Restart
  <2>5. QED
    BY <1>3, <2>1, <2>2, <2>3, <2>4 DEF CacheStep
<1>4. ASSUME NEW s, NEW x,
             \/ \E t \in Tasks : \E sweep, agent : Awaited(t, s, x, sweep, agent)
             \/ Unattended(s, x)
      PROVE  /\ faults' = faults \/ faults' = faults + 1
             /\ restarts' = restarts
  BY <1>4 DEF Awaited, Unattended, Commit, LateCommit, Mishap
<1>5. CASE UNCHANGED storeVars
  BY <1>5 DEF storeVars
<1>6. QED
  BY <1>3, <1>4, <1>5, StoreSteps

\* No step puts the agent's own key under suspicion, or its list out of date, unless
\* Redis failed, a writer was cancelled or the server stopped.
LEMMA AgentStep ==
    ASSUME TablesInv, CachesInv, AgentInv, [StoreNext]_storeVars
    PROVE  AgentInv'
<1>0. SUFFICES ASSUME Quiet' PROVE AgentInv'
  BY DEF AgentInv
<1>1. TypeOK /\ Quiet
  BY <1>0, QuietBefore DEF TablesInv
<1>2. faults' # faults + 1 /\ restarts' # restarts + 1
  BY <1>0, <1>1 DEF Quiet
<1>3. ASSUME NEW t \in Tasks, NEW s, NEW x, NEW sweep, NEW agent,
             Awaited(t, s, x, sweep, agent)
      PROVE  AgentInv'
  BY <1>1, <1>3, WriteKeepsAgent
<1>4. ASSUME NEW s, NEW x, Unattended(s, x) PROVE FALSE
  BY <1>1, <1>2, <1>4 DEF Unattended, Mishap, AgentInv, OfAgent
<1>5. CASE UNCHANGED <<db, tasks, faults, restarts, suspect>>
  BY <1>5 DEF AgentInv, OfAgent, AgentAlone, AgentUnsuspected, Undeleted, Quiet
<1>6. CASE CacheStep
  <2>1. ASSUME NEW t \in Tasks,
               \/ TakeAnswer(t) \/ Query(t) \/ QueryRows(t) \/ Fill(t) \/ FillRedis(t)
               \/ CancelRead(t) \/ Sweep(t) \/ SweepRedis(t) \/ CancelSweep(t)
               \/ AbandonReplace(t) \/ LetGo(t)
        PROVE  AgentInv'
    BY <1>0, <1>1, <2>1, TaskStepsKeepAgent
  <2>2. ASSUME NEW t \in Tasks, ReadForBrowser(t) \/ ListMessages(t) PROVE AgentInv'
    BY <1>0, <1>1, <2>2, ReadKeepsAgent
  <2>3. ASSUME NEW w \in Workspaces, EnsureWorkspace(w) PROVE AgentInv'
    BY <1>5, <2>3 DEF EnsureWorkspace
  <2>4. CASE Expire
    BY <1>5, <2>4 DEF Expire
  <2>5. ~Restart
    BY <1>2 DEF Restart
  <2>6. QED
    BY <1>6, <2>1, <2>2, <2>3, <2>4, <2>5 DEF CacheStep
<1>7. CASE UNCHANGED storeVars
  BY <1>5, <1>7 DEF storeVars
<1>8. QED
  BY <1>3, <1>4, <1>6, <1>7, StoreSteps

-----------------------------------------------------------------------------
(* The promise of the caches *)

StoreInv == TablesInv /\ CachesInv /\ AgentInv

\* The invariant holds of a server that starts with empty caches.
LEMMA StoreInvInit == StoreInit => StoreInv
<1> SUFFICES ASSUME StoreInit PROVE StoreInv
  OBVIOUS
<1>1. /\ \A key \in Keys : primary[key] = Nothing /\ fallback[key] = Nothing
      /\ \A t \in Tasks : tasks[t] = Idle /\ tasks[t].step = "idle"
      /\ suspect = {}
  BY DEF StoreInit, NoEntries, Idle
<1>2. CachesInv
  BY <1>1 DEF CachesInv, FallbackOK, PrimaryOK, ReadersOK, OneTier, Current, Reading
<1>3. AgentInv
  BY <1>1, IdleOfAgent DEF AgentInv, AgentAlone, AgentUnsuspected
<1>4. QED
  BY <1>2, <1>3, TablesInit DEF StoreInv

\* Every step keeps the invariant.
LEMMA StoreInvStep == StoreInv /\ [StoreNext]_storeVars => StoreInv'
BY TablesStep, CachesStep, AgentStep DEF StoreInv

\* The invariant says that only an overtaken answer is stale (SideCache), and that an
\* agent's list is not.
LEMMA StoreInvStale == StoreInv => StaleOnlyIfOvertaken
<1> SUFFICES ASSUME StoreInv PROVE StaleOnlyIfOvertaken
  OBVIOUS
<1>1. ASSUME NEW key \in Keys, key \notin suspect, key \notin Unswept
      PROVE  Fresh(key)
  <2>1. \A t \in Tasks : key \notin tasks[t].changed
    BY <1>1 DEF Unswept
  <2>2. fallback[key] \in Current(key) /\ primary[key] \in Current(key)
    BY <1>1, <2>1 DEF StoreInv, CachesInv, FallbackOK, PrimaryOK
  <2>3. QED
    BY <2>2 DEF Fresh, Current
<1>2. ASSUME faults = 0, restarts = 0, NEW s \in Sessions, Live(db[s])
      PROVE  /\ AgentFree(s) => Fresh(AgentKey(s))
             /\ \A t \in Tasks :
                   tasks[t].step \in Holding /\ tasks[t].agent = s => UpToDate(t, s)
  <2>1. Undeleted(s) /\ Quiet
    BY <1>2 DEF Live, Undeleted, Quiet
  <2>2. AgentKey(s) \notin suspect /\ AgentKey(s) \in Keys
    BY <2>1, AgentKeys DEF StoreInv, AgentInv, AgentUnsuspected
  <2>3. ASSUME AgentFree(s) PROVE Fresh(AgentKey(s))
    <3>1. \A t \in Tasks : tasks[t].agent # s
      BY <2>1, <2>3, FreeAgents DEF StoreInv
    <3>2. \A t \in Tasks : AgentKey(s) \notin tasks[t].changed
      BY <2>1, <3>1 DEF StoreInv, AgentInv, OfAgent
    <3>3. QED
      BY <1>1, <2>2, <3>2 DEF Unswept
  <2>4. ASSUME NEW t \in Tasks, tasks[t].step \in Holding, tasks[t].agent = s
        PROVE  UpToDate(t, s)
    <3>1. OfAgent(tasks[t])
      BY <2>1 DEF StoreInv, AgentInv
    <3>2. tasks[t].step = "listed"
      BY <2>4, <3>1 DEF OfAgent, Holding
    <3>3. QED
      BY <2>1, <2>4, <3>1, <3>2 DEF OfAgent, UpToDate
  <2>5. QED
    BY <2>3, <2>4
<1>3. QED
  BY <1>1, <1>2 DEF StaleOnlyIfOvertaken

\* With any number of readers and writers, with or without Redis, whatever fails and
\* whoever is cancelled: a cached answer that no read overtook, no failure left behind,
\* no cancelled writer changed and no write still deletes is the database's. And unless
\* something failed or was cancelled, the agent reads its own writes, and replaces
\* nothing but what it has read.
THEOREM CachesStaleOnlyIfOvertaken == StoreSpec => []StaleOnlyIfOvertaken
BY StoreInvInit, StoreInvStep, StoreInvStale, PTL DEF StoreSpec

-----------------------------------------------------------------------------
(* Sets of numbers in ascending order *)

\* at lists D in ascending order.
Enumerates(at, D) ==
    /\ IsSeq(at)
    /\ \A k \in 1..Len(at) : at[k] \in D
    /\ \A k \in 1..Len(at) : \A l \in (k + 1)..Len(at) : at[k] < at[l]
    /\ \A i \in D : \E k \in 1..Len(at) : at[k] = i

\* Ascending lists its set.
LEMMA AscendingEnumerates ==
    ASSUME NEW n \in Nat, NEW D, D \subseteq 1..n, NEW at, at = Ascending(D, n)
    PROVE  Enumerates(at, D)
<1>1. IsSeq(at) BY AscendingFacts
<1>2. \A k \in 1..Len(at) : at[k] \in D /\ at[k] \in 1..n BY AscendingFacts
<1>3. \A k \in 1..Len(at) : \A l \in (k + 1)..Len(at) : at[k] < at[l] BY AscendingFacts
<1>4. \A i \in 1..n : i \in D => \E k \in 1..Len(at) : at[k] = i BY AscendingFacts
<1>5. \A i \in D : i \in 1..n OBVIOUS
<1> QED BY <1>1, <1>2, <1>3, <1>4, <1>5 DEF Enumerates

\* Two listings of a set that agree up to some place: at that place, the second is not ahead.
LEMMA NotAhead ==
    ASSUME NEW D, D \subseteq Nat, NEW f, NEW g, Enumerates(f, D), Enumerates(g, D),
           NEW i \in 1..Len(f), \A j \in 1..(i - 1) : j \in 1..Len(g) /\ g[j] = f[j]
    PROVE  i \in 1..Len(g) /\ g[i] <= f[i]
<1>1. Len(f) \in Nat /\ Len(g) \in Nat BY SeqFacts DEF Enumerates
<1>2. \A k \in 1..Len(f) : f[k] \in Nat BY DEF Enumerates
<1>3. \A k \in 1..Len(g) : g[k] \in Nat BY DEF Enumerates
<1>4. f[i] \in D BY DEF Enumerates
<1>5. PICK k \in 1..Len(g) : g[k] = f[i] BY <1>4 DEF Enumerates
<1>6. ~(k < i)
  <2>1. SUFFICES ASSUME k < i PROVE FALSE OBVIOUS
  <2>2. k \in 1..(i - 1) /\ k \in 1..Len(f) /\ i \in (k + 1)..Len(f) BY <1>1, <2>1
  <2>3. f[k] < f[i] BY <2>2 DEF Enumerates
  <2>4. g[k] = f[k] BY <2>2
  <2>5. f[i] \in Nat BY <1>2
  <2> QED BY <1>5, <2>3, <2>4, <2>5
<1>7. i \in 1..Len(g) BY <1>1, <1>6
<1>8. CASE k = i BY <1>3, <1>5, <1>7, <1>8
<1>9. CASE k # i
  <2>1. k \in (i + 1)..Len(g) BY <1>1, <1>6, <1>9
  <2>2. g[i] < g[k] BY <1>7, <2>1 DEF Enumerates
  <2>3. g[i] \in Nat /\ g[k] \in Nat BY <1>3, <1>7
  <2> QED BY <1>5, <1>7, <2>2, <2>3
<1> QED BY <1>8, <1>9

\* A set has one listing.
LEMMA OneEnumeration ==
    ASSUME NEW D, D \subseteq Nat, NEW f, NEW g, Enumerates(f, D), Enumerates(g, D)
    PROVE  f = g
<1> DEFINE Differs(i) == /\ i \in 1..Len(f) \/ i \in 1..Len(g)
                         /\ ~(i \in 1..Len(f) /\ i \in 1..Len(g) /\ f[i] = g[i])
           Bad == {i \in Nat \ {0} : Differs(i)}
<1>1. Len(f) \in Nat /\ Len(g) \in Nat BY SeqFacts DEF Enumerates
<1>2. \A k \in 1..Len(f) : f[k] \in Nat BY DEF Enumerates
<1>3. \A k \in 1..Len(g) : g[k] \in Nat BY DEF Enumerates
<1>4. Bad = {}
  <2>1. SUFFICES ASSUME Bad # {} PROVE FALSE OBVIOUS
  <2>2. Bad \subseteq Nat OBVIOUS
  <2> HIDE DEF Bad
  <2>3. PICK i \in Bad : \A j \in Bad : i <= j BY <2>1, <2>2, LeastNatural
  <2>4. i \in Nat \ {0} /\ Differs(i) BY <2>3 DEF Bad
  <2>5. ASSUME NEW j \in 1..(i - 1)
        PROVE  j \in 1..Len(f) /\ j \in 1..Len(g) /\ f[j] = g[j]
    <3>1. j \in Nat \ {0} /\ ~(i <= j) BY <2>4
    <3>2. ~Differs(j) BY <2>3, <3>1 DEF Bad
    <3>3. j \in 1..Len(f) \/ j \in 1..Len(g) BY <1>1, <2>4, <3>1
    <3> QED BY <3>2, <3>3
  <2>6. \A j \in 1..(i - 1) : j \in 1..Len(g) /\ g[j] = f[j] BY <2>5
  <2>7. \A j \in 1..(i - 1) : j \in 1..Len(f) /\ f[j] = g[j] BY <2>5
  <2>8. CASE i \in 1..Len(f)
    <3>1. i \in 1..Len(g) /\ g[i] <= f[i] BY <2>6, <2>8, NotAhead
    <3>2. f[i] <= g[i] BY <2>7, <3>1, NotAhead
    <3>3. f[i] \in Nat /\ g[i] \in Nat BY <1>2, <1>3, <2>8, <3>1
    <3>4. f[i] = g[i] BY <3>1, <3>2, <3>3
    <3> QED BY <2>4, <2>8, <3>1, <3>4
  <2>9. CASE i \in 1..Len(g)
    <3>1. i \in 1..Len(f) /\ f[i] <= g[i] BY <2>7, <2>9, NotAhead
    <3> QED BY <2>8, <3>1
  <2> QED BY <2>4, <2>8, <2>9
<1>5. \A i \in Nat \ {0} : ~Differs(i) BY <1>4
<1> HIDE DEF Bad
<1>6. Len(f) = Len(g)
  <2>1. ASSUME NEW i \in Nat \ {0} PROVE i \in 1..Len(f) <=> i \in 1..Len(g) BY <1>5
  <2>2. Len(f) # 0 => Len(f) \in 1..Len(g) BY <1>1, <2>1
  <2>3. Len(g) # 0 => Len(g) \in 1..Len(f) BY <1>1, <2>1
  <2> QED BY <1>1, <2>2, <2>3
<1>7. \A i \in 1..Len(f) : f[i] = g[i] BY <1>1, <1>5
<1> HIDE DEF Differs
<1>8. PICK S : S = {f[k] : k \in DOMAIN f} \cup {g[k] : k \in DOMAIN g} OBVIOUS
<1>9. f \in Seq(S)
  <2>1. f \in Seq({f[k] : k \in DOMAIN f}) BY DEF Enumerates, IsSeq
  <2> QED BY <1>8, <2>1
<1>10. g \in Seq(S)
  <2>1. g \in Seq({g[k] : k \in DOMAIN g}) BY DEF Enumerates, IsSeq
  <2> QED BY <1>8, <2>1
<1> QED BY <1>6, <1>7, <1>9, <1>10

-----------------------------------------------------------------------------
(* What the agent sees of a session: its messages in order, and which skills are *)
(* active *)

\* The messages of rows, in their order.
Listed(rows) ==
    LET at == Ascending(DOMAIN rows, MaxRows)
    IN  [n \in 1..Len(at) |-> rows[at[n]].message]

Active(x) == {k \in Skills : x.links[k] # NoLink}

View(x) == Store(Listed(x.rows), Active(x))

\* ms holds the messages of rows, which at lists.
Shows(ms, rows, at) ==
    /\ Enumerates(at, DOMAIN rows)
    /\ ms = [n \in 1..Len(at) |-> rows[at[n]].message]

\* Such a list of messages has one for each row.
LEMMA ShowsFacts ==
    ASSUME NEW ms, NEW rows, NEW at, Shows(ms, rows, at)
    PROVE  /\ IsSeq(ms) /\ Len(ms) = Len(at) /\ DOMAIN ms = 1..Len(at) /\ Len(at) \in Nat
           /\ \A n \in 1..Len(at) : at[n] \in DOMAIN rows /\ ms[n] = rows[at[n]].message
<1>1. IsSeq(at) BY DEF Shows, Enumerates
<1>2. PICK n : n = Len(at) OBVIOUS
<1>3. n \in Nat BY <1>1, <1>2, SeqFacts
<1>4. ms = [k \in 1..n |-> rows[at[k]].message] BY <1>2 DEF Shows
<1>5. \A k \in 1..n : ms[k] = rows[at[k]].message BY <1>4
<1>6. ms = [k \in 1..n |-> ms[k]] BY <1>4
<1>7. IsSeq(ms) BY <1>3, <1>6, FunctionFacts
<1>8. Len(ms) = n BY <1>3, <1>6, FunctionFacts
<1>9. DOMAIN ms = 1..n BY <1>4
<1>10. \A k \in 1..n : at[k] \in DOMAIN rows BY <1>2 DEF Shows, Enumerates
<1> QED BY <1>2, <1>3, <1>5, <1>7, <1>8, <1>9, <1>10

\* Listed holds the messages of the rows that it lists.
LEMMA ListedShows ==
    ASSUME NEW rows, DOMAIN rows \subseteq Ids
    PROVE  \E at : Shows(Listed(rows), rows, at)
<1>1. MaxRows \in Nat BY RowsAssumption
<1>2. PICK D : D = DOMAIN rows OBVIOUS
<1>3. D \subseteq 1..MaxRows BY <1>2 DEF Ids
<1>4. PICK at : at = Ascending(D, MaxRows) OBVIOUS
<1>5. Enumerates(at, D) BY <1>1, <1>3, <1>4, AscendingEnumerates
<1>6. Listed(rows) = [n \in 1..Len(at) |-> rows[at[n]].message] BY <1>2, <1>4 DEF Listed
<1> QED BY <1>2, <1>5, <1>6 DEF Shows

\* There is no other such list.
LEMMA ListedOnly ==
    ASSUME NEW rows, DOMAIN rows \subseteq Ids, NEW ms, NEW at, Shows(ms, rows, at)
    PROVE  ms = Listed(rows)
<1>1. PICK f : Shows(Listed(rows), rows, f) BY ListedShows
<1>2. DOMAIN rows \subseteq Nat BY RowsAssumption DEF Ids
<1>3. Enumerates(f, DOMAIN rows) /\ Enumerates(at, DOMAIN rows) BY <1>1 DEF Shows
<1>4. PICK D : D = DOMAIN rows OBVIOUS
<1>5. D \subseteq Nat /\ Enumerates(f, D) /\ Enumerates(at, D) BY <1>2, <1>3, <1>4
<1>6. f = at BY <1>5, OneEnumeration
<1> QED BY <1>1, <1>6 DEF Shows

\* A new row comes last.
LEMMA NextIdIsLast ==
    ASSUME NEW rows, DOMAIN rows \subseteq Ids
    PROVE  \A i \in DOMAIN rows : i < NextId(rows)
<1>1. SUFFICES ASSUME NEW i \in DOMAIN rows PROVE i < NextId(rows) OBVIOUS
<1>2. DOMAIN rows # {} BY <1>1
<1>3. PICK D : D = DOMAIN rows OBVIOUS
<1>4. D \subseteq Ids /\ D # {} BY <1>2, <1>3
<1>5. Max(D) \in D /\ \A j \in D : j <= Max(D) BY <1>4, GreatestId
<1>6. NextId(rows) = Max(D) + 1 BY <1>2, <1>3 DEF NextId
<1>7. Max(D) \in Nat /\ i \in Nat BY <1>3, <1>4, <1>5, RowsAssumption DEF Ids
<1> QED BY <1>3, <1>5, <1>6, <1>7

\* A row that is added brings its message to the end of the list.
LEMMA ListedGrows ==
    ASSUME NEW rows, DOMAIN rows \subseteq Ids, NextId(rows) \in Ids, NEW m,
           NEW more, more = With(rows, NextId(rows), RowOf(m))
    PROVE  /\ IsSeq(Listed(rows))
           /\ DOMAIN more \subseteq Ids
           /\ Listed(more) = Append(Listed(rows), m)
<1>1. PICK id : id = NextId(rows) OBVIOUS
<1>2. id \in Ids /\ id \in Nat BY <1>1, NextIdIsNew
<1>3. id \notin DOMAIN rows BY <1>1, NextIdIsNew
<1>4. \A i \in DOMAIN rows : i < id BY <1>1, NextIdIsLast
<1>5. PICK ms : ms = Listed(rows) OBVIOUS
<1>6. PICK at : Shows(ms, rows, at) BY <1>5, ListedShows
<1>7. /\ IsSeq(ms) /\ Len(ms) = Len(at) /\ DOMAIN ms = 1..Len(at) /\ Len(at) \in Nat
      /\ \A n \in 1..Len(at) : at[n] \in DOMAIN rows /\ ms[n] = rows[at[n]].message
  BY <1>6, ShowsFacts
<1>8. PICK size : size = Len(at) OBVIOUS
<1>9. PICK to : to = Append(at, id) OBVIOUS
<1>10. IsSeq(at) BY <1>6 DEF Shows, Enumerates
<1>11. IsSeq(to) BY <1>9, <1>10, AppendFacts
<1>12. Len(to) = size + 1 BY <1>8, <1>9, <1>10, AppendFacts
<1>13. \A n \in 1..size : to[n] = at[n] BY <1>8, <1>9, <1>10, AppendFacts
<1>14. to[size + 1] = id BY <1>8, <1>9, <1>10, AppendFacts
<1>15. size \in Nat BY <1>7, <1>8
<1>16. PICK row : row = RowOf(m) OBVIOUS
<1>17. more = With(rows, id, row) BY <1>1, <1>16
<1>18. /\ DOMAIN more = DOMAIN rows \cup {id}
       /\ more[id] = row /\ \A i \in DOMAIN rows : more[i] = rows[i]
  BY <1>3, <1>17 DEF With
<1>19. row.message = m BY <1>16 DEF RowOf
<1>20. Enumerates(to, DOMAIN more)
  <2>1. \A k \in 1..(size + 1) : to[k] \in DOMAIN rows \cup {id}
    <3>1. SUFFICES ASSUME NEW k \in 1..(size + 1) PROVE to[k] \in DOMAIN rows \cup {id} OBVIOUS
    <3>2. k \in 1..size \/ k = size + 1 BY <1>15
    <3> QED BY <1>7, <1>8, <1>13, <1>14, <3>2
  <2>2. \A k \in 1..(size + 1) : \A l \in (k + 1)..(size + 1) : to[k] < to[l]
    <3>1. SUFFICES ASSUME NEW k \in 1..(size + 1), NEW l \in (k + 1)..(size + 1)
                   PROVE  to[k] < to[l]
      OBVIOUS
    <3>2. k \in 1..size /\ (l = size + 1 \/ l \in (k + 1)..size) BY <1>15
    <3>3. CASE l = size + 1 BY <1>4, <1>7, <1>8, <1>13, <1>14, <3>2, <3>3
    <3>4. CASE l \in (k + 1)..size
      <4>1. l \in 1..size BY <1>15, <3>2, <3>4
      <4>2. at[k] < at[l] BY <1>6, <1>8, <3>2, <3>4 DEF Shows, Enumerates
      <4> QED BY <1>13, <3>2, <4>1, <4>2
    <3> QED BY <3>2, <3>3, <3>4
  <2>3. \A i \in DOMAIN rows \cup {id} : \E k \in 1..(size + 1) : to[k] = i
    <3>1. SUFFICES ASSUME NEW i \in DOMAIN rows \cup {id} PROVE \E k \in 1..(size + 1) : to[k] = i
      OBVIOUS
    <3>2. CASE i = id
      <4>1. size + 1 \in 1..(size + 1) BY <1>15
      <4> QED BY <1>14, <3>2, <4>1
    <3>3. CASE i \in DOMAIN rows
      <4>1. PICK k \in 1..size : at[k] = i BY <1>6, <1>8, <3>3 DEF Shows, Enumerates
      <4>2. k \in 1..(size + 1) BY <1>15
      <4> QED BY <1>13, <4>1, <4>2
    <3> QED BY <3>1, <3>2, <3>3
  <2> QED BY <1>11, <1>12, <1>18, <2>1, <2>2, <2>3 DEF Enumerates
<1>21. PICK r : r = Append(ms, m) OBVIOUS
<1>22. IsSeq(r) BY <1>7, <1>21, AppendFacts
<1>23. Len(r) = size + 1 BY <1>7, <1>8, <1>21, AppendFacts
<1>24. \A n \in 1..size : r[n] = ms[n] BY <1>7, <1>8, <1>21, AppendFacts
<1>25. r[size + 1] = m BY <1>7, <1>8, <1>21, AppendFacts
<1>26. \A n \in 1..(size + 1) : r[n] = more[to[n]].message
  <2>1. SUFFICES ASSUME NEW n \in 1..(size + 1) PROVE r[n] = more[to[n]].message OBVIOUS
  <2>2. CASE n = size + 1 BY <1>14, <1>18, <1>19, <1>25, <2>2
  <2>3. CASE n \in 1..size
    <3>1. PICK i : i = at[n] OBVIOUS
    <3>2. i \in DOMAIN rows /\ ms[n] = rows[i].message BY <1>7, <1>8, <2>3, <3>1
    <3>3. to[n] = i /\ more[i] = rows[i] BY <1>13, <1>18, <2>3, <3>1, <3>2
    <3> QED BY <1>24, <2>3, <3>2, <3>3
  <2> QED BY <1>15, <2>2, <2>3
<1>27. r = [n \in 1..(size + 1) |-> more[to[n]].message]
  <2>1. r = [n \in 1..Len(r) |-> r[n]] BY <1>22 DEF IsSeq
  <2> QED BY <1>23, <1>26, <2>1
<1>28. DOMAIN more \subseteq Ids BY <1>2, <1>18
<1>29. Shows(r, more, to) BY <1>12, <1>20, <1>27 DEF Shows
<1>30. r = Listed(more) BY <1>28, <1>29, ListedOnly
<1> QED BY <1>5, <1>7, <1>21, <1>28, <1>30

-----------------------------------------------------------------------------
(* The port's operators are those of Conversation *)

\* On messages and empty stores.
LEMMA PortMessages ==
    /\ \A m : Port!IsInjection(m) = IsInjection(m)
    /\ \A m, k : Port!Injects(m, k) = Injects(m, k)
    /\ \A m : Port!Redacted(m) = Redacted(m)
    /\ \A messages, skills : Port!Store(messages, skills) = Store(messages, skills)
    /\ Port!EmptyStore = EmptyStore
BY Zenon DEF Port!IsInjection, Port!Injects, IsInjection, Injects, Port!Redacted, Redacted,
   Port!Store, Store, Port!EmptyStore, EmptyStore

\* On sets.
LEMMA PortCounts == \A S : Port!Cardinality(S) = Cardinality(S)
BY Zenon DEF Port!Cardinality, Cardinality

\* On the order of positions.
LEMMA PortAscending ==
    ASSUME NEW positions, NEW n
    PROVE  Port!Ascending(positions, n) = Ascending(positions, n)
BY Zenon DEF Port!Ascending, Ascending

\* On the elements picked.
LEMMA PortPick ==
    ASSUME NEW q, NEW positions
    PROVE  Port!Pick(q, positions) = Pick(q, positions)
BY Zenon, PortAscending DEF Port!Pick, Pick

\* On the removal of a skill.
LEMMA PortRemoves ==
    ASSUME NEW c, NEW k
    PROVE  Port!RemoveSessionSkill(c, k) = RemoveSessionSkill(c, k)
BY Zenon, PortPick, PortMessages
   DEF Port!RemoveSessionSkill, RemoveSessionSkill, Port!Retain, Retain

\* On the other operations of a store.
LEMMA PortStores ==
    /\ \A c, m : Port!AddMessage(c, m) = AddMessage(c, m)
    /\ \A c, messages : Port!ReplaceMessages(c, messages) = ReplaceMessages(c, messages)
    /\ \A c, k, m : Port!InjectSkill(c, k, m) = InjectSkill(c, k, m)
    /\ \A q : Port!ToSet(q) = ToSet(q)
BY Zenon, PortMessages DEF Port!AddMessage, AddMessage, Port!ReplaceMessages, ReplaceMessages,
   Port!InjectSkill, InjectSkill, Port!ToSet, ToSet

-----------------------------------------------------------------------------
(* A row's kind is its message's, whichever transaction wrote it *)

\* KindsHold, of one row.
IsRow(row) == /\ "kind" \in DOMAIN row.message
              /\ row.kind = "skill" <=> IsInjection(row.message)

\* Every row that a transaction writes has the kind of its message (_kind_for, and the
\* kinds that remove_skill and compact_messages name).
LEMMA RowsOfMessages ==
    /\ \A m : "kind" \in DOMAIN m => IsRow(RowOf(m))
    /\ \A row : "kind" \in DOMAIN row.message => IsRow(RedactedRow(row))
    /\ IsRow(SummaryRow)
<1>1. ASSUME NEW m, "kind" \in DOMAIN m PROVE IsRow(RowOf(m))
  <2>1. PICK row : row = RowOf(m) OBVIOUS
  <2>2. row.message = m /\ row.kind = KindFor(m) BY <2>1 DEF RowOf
  <2> QED BY <1>1, <2>1, <2>2, OnlyInjectionsAreSkills DEF IsRow
<1>2. ASSUME NEW row, "kind" \in DOMAIN row.message PROVE IsRow(RedactedRow(row))
  <2>1. PICK m : m = Redacted(row.message) OBVIOUS
  <2>2. "kind" \in DOMAIN m /\ m.kind = "skill_removed" BY <1>2, <2>1 DEF Redacted
  <2>3. PICK redacted : redacted = RedactedRow(row) OBVIOUS
  <2>4. redacted.message = m /\ redacted.kind = "skill_removed" BY <2>1, <2>3 DEF RedactedRow
  <2> QED BY <2>2, <2>3, <2>4 DEF IsRow, IsInjection
<1>3. IsRow(SummaryRow)
  <2>1. PICK m : m = Text("system", "none", 1) OBVIOUS
  <2>2. "kind" \in DOMAIN m /\ m.kind = "none" BY <2>1 DEF Text
  <2>3. SummaryRow.message = m /\ SummaryRow.kind = "summary" BY <2>1 DEF SummaryRow
  <2> QED BY <2>2, <2>3 DEF IsRow, IsInjection
<1> QED BY <1>1, <1>2, <1>3

\* Rows that are kept, with one of them new.
LEMMA KindsKept ==
    ASSUME NEW x, KindsHold(x), NEW y,
           \A i \in DOMAIN y.rows :
              IsRow(y.rows[i]) \/ (i \in DOMAIN x.rows /\ y.rows[i] = x.rows[i])
    PROVE  KindsHold(y)
BY DEF KindsHold, IsRow

\* add_message, inject_skill_message
LEMMA AddRowKinds ==
    ASSUME NEW x, KindsHold(x), IsSession(x), NEW m, "kind" \in DOMAIN m, NEW y,
           y.rows = With(x.rows, NextId(x.rows), RowOf(m))
    PROVE  KindsHold(y)
<1>1. IsRow(RowOf(m)) BY RowsOfMessages
<1> QED BY <1>1, KindsKept DEF With

\* remove_skill
LEMMA RemoveRowKinds ==
    ASSUME NEW x, KindsHold(x), InOrderly(x), NEW k \in Skills, x.links[k] # NoLink
    PROVE  KindsHold(RemoveRow(x, k))
<1>1. PICK id : id = x.links[k] OBVIOUS
<1>2. PICK y : y = RemoveRow(x, k) OBVIOUS
<1>3. id \in DOMAIN x.rows BY <1>1 DEF InOrderly, LinksHold
<1>4. CASE x.rows[id].message.role = "tool"
  <2>1. y.rows = With(x.rows, id, RedactedRow(x.rows[id]))
    BY <1>1, <1>2, <1>4 DEF RemoveRow, InOrderly, IsSession
  <2>2. IsRow(RedactedRow(x.rows[id])) BY <1>3, RowsOfMessages DEF KindsHold
  <2> QED BY <1>2, <2>1, <2>2, KindsKept DEF With
<1>5. CASE x.rows[id].message.role # "tool"
  <2>1. y.rows = Without(x.rows, {id})
    BY <1>1, <1>2, <1>5 DEF RemoveRow, InOrderly, IsSession
  <2> QED BY <1>2, <2>1, KindsKept DEF Without
<1> QED BY <1>4, <1>5

\* compact_messages
LEMMA CompactRowsKinds ==
    ASSUME NEW x, KindsHold(x), IsSession(x), NEW ids
    PROVE  KindsHold(CompactRows(x, ids))
<1>1. PICK selected : selected = {i \in ids \cap DOMAIN x.rows : x.rows[i].kind # "skill"}
  OBVIOUS
<1>2. CompactRows(x, ids) = Compacted(x, selected) BY <1>1 DEF CompactRows
<1>3. CASE selected = {} BY <1>2, <1>3 DEF Compacted
<1>4. CASE selected # {}
  <2>1. PICK y : y = Compacted(x, selected) OBVIOUS
  <2>2. y.rows = With(Without(x.rows, selected), Min(selected), SummaryRow)
    BY <1>4, <2>1 DEF Compacted, IsSession
  <2>3. PICK id : id = Min(selected) OBVIOUS
  <2>4. PICK kept : kept = Without(x.rows, selected) OBVIOUS
  <2>5. \A i \in DOMAIN kept : i \in DOMAIN x.rows /\ kept[i] = x.rows[i]
    BY <2>4 DEF Without
  <2>6. PICK rows : rows = With(kept, id, SummaryRow) OBVIOUS
  <2>7. \A i \in DOMAIN rows : rows[i] = SummaryRow \/ (i \in DOMAIN kept /\ rows[i] = kept[i])
    BY <2>6 DEF With
  <2>8. y.rows = rows BY <2>2, <2>3, <2>4, <2>6
  <2> QED BY <1>2, <2>1, <2>5, <2>7, <2>8, RowsOfMessages, KindsKept
<1> QED BY <1>3, <1>4

\* replace_all_messages
LEMMA ReplaceRowsKinds ==
    ASSUME NEW x, IsSession(x), NEW messages,
           \A i \in DOMAIN messages : "kind" \in DOMAIN messages[i]
    PROVE  KindsHold(ReplaceRows(x, messages))
<1>1. PICK y : y = ReplaceRows(x, messages) OBVIOUS
<1>2. PICK rows : rows = [i \in DOMAIN messages |-> RowOf(messages[i])] OBVIOUS
<1>3. y.rows = rows BY <1>1, <1>2 DEF ReplaceRows, IsSession
<1>4. \A i \in DOMAIN rows : IsRow(rows[i]) BY <1>2, RowsOfMessages
<1> QED BY <1>1, <1>3, <1>4 DEF KindsHold, IsRow

-----------------------------------------------------------------------------
(* What the agent sees of a session is kept as the port expects it *)

Sound(x) == InOrderly(x) /\ KindsHold(x)

\* A message of the view comes from a row, and injects a skill exactly if the
\* skill's link leads to that row.
LEMMA ViewRows ==
    ASSUME NEW x, Sound(x), NEW ms, NEW at, Shows(ms, x.rows, at), NEW n \in 1..Len(at),
           NEW k \in Skills
    PROVE  /\ at[n] \in DOMAIN x.rows /\ ms[n] = x.rows[at[n]].message
           /\ Injects(ms[n], k) <=> x.links[k] = at[n]
<1>1. at[n] \in DOMAIN x.rows /\ ms[n] = x.rows[at[n]].message BY ShowsFacts
<1>2. PICK id : id = at[n] OBVIOUS
<1>3. PICK row : row = x.rows[id] OBVIOUS
<1>4. PICK m : m = ms[n] OBVIOUS
<1>5. id \in DOMAIN x.rows /\ m = row.message BY <1>1, <1>2, <1>3, <1>4
<1>6. id # NoLink
  <2>1. id \in Ids BY <1>5 DEF Sound, InOrderly, IsSession
  <2> QED BY <2>1, RowsAssumption DEF Ids, NoLink
<1>7. row.kind = "skill" <=> IsInjection(m) BY <1>3, <1>5 DEF Sound, KindsHold
<1>8. row.kind = "skill" => m.skill \in Skills /\ x.links[m.skill] = id
  BY <1>3, <1>5 DEF Sound, InOrderly, LinksHold
<1>9. x.links[k] = id => row.kind = "skill" /\ m.skill = k
  BY <1>3, <1>5, <1>6 DEF Sound, InOrderly, LinksHold
<1>10. Injects(m, k) <=> x.links[k] = id BY <1>7, <1>8, <1>9 DEF Injects
<1> QED BY <1>1, <1>2, <1>4, <1>10

\* A list in ascending order holds each of its members once.
LEMMA ListedOnce ==
    ASSUME NEW D, D \subseteq Nat, NEW at, Enumerates(at, D),
           NEW i \in 1..Len(at), NEW j \in 1..Len(at), at[i] = at[j]
    PROVE  i = j
<1>1. Len(at) \in Nat BY SeqFacts DEF Enumerates
<1>2. at[i] \in Nat /\ at[j] \in Nat BY DEF Enumerates
<1>3. i < j => j \in (i + 1)..Len(at) BY <1>1
<1>4. j < i => i \in (j + 1)..Len(at) BY <1>1
<1>5. i < j => at[i] < at[j] BY <1>3 DEF Enumerates
<1>6. j < i => at[j] < at[i] BY <1>4 DEF Enumerates
<1> QED BY <1>2, <1>5, <1>6

\* In the view, a skill is active exactly if one message injects it.
LEMMA ViewBookkept ==
    ASSUME NEW x, Sound(x)
    PROVE  Port!Bookkept(View(x))
<1>1. PICK ms : ms = Listed(x.rows) OBVIOUS
<1>2. DOMAIN x.rows \subseteq Ids /\ DOMAIN x.rows \subseteq Nat
  BY RowsAssumption DEF Sound, InOrderly, IsSession, Ids
<1>3. PICK at : Shows(ms, x.rows, at) BY <1>1, <1>2, ListedShows
<1>4. DOMAIN ms = 1..Len(at) BY <1>3, ShowsFacts
<1>5. Enumerates(at, DOMAIN x.rows) BY <1>3 DEF Shows
<1>6. View(x).messages = ms /\ View(x).skills = Active(x) BY <1>1 DEF View, Store
<1>7. ASSUME NEW k \in Skills
      PROVE  Cardinality({i \in DOMAIN ms : Injects(ms[i], k)}) = IF k \in Active(x) THEN 1 ELSE 0
  <2>1. PICK P : P = {i \in DOMAIN ms : Injects(ms[i], k)} OBVIOUS
  <2>2. \A i \in DOMAIN ms : i \in P <=> x.links[k] = at[i]
    BY <1>3, <1>4, <2>1, ViewRows
  <2>3. P \subseteq DOMAIN ms BY <2>1
  <2>4. CASE x.links[k] = NoLink
    <3>1. P = {}
      <4>1. \A i \in DOMAIN ms : at[i] # NoLink
        <5>1. \A i \in DOMAIN ms : at[i] \in DOMAIN x.rows BY <1>3, <1>4, ShowsFacts
        <5> QED BY <1>2, <5>1, RowsAssumption DEF Ids, NoLink
      <4> QED BY <2>2, <2>3, <2>4, <4>1
    <3>2. Cardinality(P) = 0 BY <3>1, FS_EmptySet
    <3>3. k \notin Active(x) BY <2>4 DEF Active
    <3> QED BY <2>1, <3>2, <3>3
  <2>5. CASE x.links[k] # NoLink
    <3>1. x.links[k] \in DOMAIN x.rows BY <2>5 DEF Sound, InOrderly, LinksHold
    <3>2. PICK n \in 1..Len(at) : at[n] = x.links[k] BY <1>5, <3>1 DEF Enumerates
    <3>3. \A i \in DOMAIN ms : at[i] = x.links[k] => i = n
      BY <1>2, <1>4, <1>5, <3>2, ListedOnce
    <3>4. P = {n} BY <1>4, <2>2, <2>3, <3>2, <3>3
    <3>5. Cardinality(P) = 1 BY <3>4, FS_Singleton
    <3>6. k \in Active(x) BY <2>5 DEF Active
    <3> QED BY <2>1, <3>5, <3>6
  <2> QED BY <2>4, <2>5
<1>8. PICK store : store = View(x) OBVIOUS
<1>9. \A k \in Skills :
        Cardinality({i \in DOMAIN store.messages : Injects(store.messages[i], k)})
            = IF k \in store.skills THEN 1 ELSE 0
  BY <1>6, <1>7, <1>8
<1>10. ASSUME NEW k \in Skills
       PROVE  Port!Cardinality({i \in DOMAIN store.messages : Port!Injects(store.messages[i], k)})
                  = IF k \in store.skills THEN 1 ELSE 0
  <2>1. {i \in DOMAIN store.messages : Port!Injects(store.messages[i], k)}
            = {i \in DOMAIN store.messages : Injects(store.messages[i], k)}
    BY Zenon DEF Port!Injects, Port!IsInjection, Injects, IsInjection
  <2>2. \A S : Port!Cardinality(S) = Cardinality(S) BY PortCounts
  <2> QED BY Zenon, <1>9, <2>1, <2>2
<1>11. Port!Bookkept(store) BY Zenon, <1>10 DEF Port!Bookkept
<1> QED BY <1>8, <1>11

\* kept are the places of at whose members belong to E.
PlacesOf(kept, at, E) ==
    /\ kept \subseteq 1..Len(at)
    /\ \A i \in 1..Len(at) : at[i] \in E <=> i \in kept

\* A list of some of what another list holds.
LEMMA ComposeEnumerates ==
    ASSUME NEW D, D \subseteq Nat, NEW at, Enumerates(at, D), NEW E, E \subseteq D,
           NEW kept, PlacesOf(kept, at, E), NEW b, Enumerates(b, kept),
           NEW c, c = [j \in 1..Len(b) |-> at[b[j]]]
    PROVE  Enumerates(c, E) /\ Len(c) = Len(b)
<1>0. kept \subseteq 1..Len(at) /\ \A i \in 1..Len(at) : at[i] \in E <=> i \in kept
  BY DEF PlacesOf
<1>1. Len(at) \in Nat /\ Len(b) \in Nat BY SeqFacts DEF Enumerates
<1>2. PICK n : n = Len(b) OBVIOUS
<1>3. n \in Nat BY <1>1, <1>2
<1>4. DOMAIN c = 1..n /\ \A j \in 1..n : c[j] = at[b[j]] BY <1>2
<1>5. c = [j \in 1..n |-> c[j]] BY <1>2
<1>6. IsSeq(c) /\ Len(c) = n BY <1>3, <1>5, FunctionFacts
<1>7. \A j \in 1..n : b[j] \in kept BY <1>2 DEF Enumerates
<1>8. \A j \in 1..n : c[j] \in E BY <1>0, <1>4, <1>7
<1>9. ASSUME NEW k \in 1..n, NEW l \in (k + 1)..n PROVE c[k] < c[l]
  <2>1. l \in 1..n BY <1>3
  <2>2. b[k] < b[l] BY <1>2 DEF Enumerates
  <2>3. PICK u : u = b[k] OBVIOUS
  <2>4. PICK v : v = b[l] OBVIOUS
  <2>5. u \in 1..Len(at) /\ v \in 1..Len(at) /\ u < v BY <1>0, <1>7, <2>1, <2>2, <2>3, <2>4
  <2>6. v \in (u + 1)..Len(at) BY <1>1, <2>5
  <2>7. at[u] < at[v] BY <2>5, <2>6 DEF Enumerates
  <2> QED BY <1>4, <2>1, <2>3, <2>4, <2>7
<1>10. ASSUME NEW e \in E PROVE \E j \in 1..n : c[j] = e
  <2>1. e \in D OBVIOUS
  <2>2. PICK i \in 1..Len(at) : at[i] = e BY <2>1 DEF Enumerates
  <2>3. i \in kept BY <1>0, <2>2
  <2>4. PICK j \in 1..Len(b) : b[j] = i BY <2>3 DEF Enumerates
  <2> QED BY <1>2, <1>4, <2>2, <2>4
<1> QED BY <1>2, <1>6, <1>8, <1>9, <1>10 DEF Enumerates

-----------------------------------------------------------------------------
(* What each transaction does to the view *)

\* add_message
LEMMA AddedView ==
    ASSUME NEW x, IsSession(x), HasRoom(x), NEW m, NEW y, y = AddRow(x, m)
    PROVE  View(y) = AddMessage(View(x), m) /\ m \in ToSet(View(y).messages)
<1>1. PICK more : more = With(x.rows, NextId(x.rows), RowOf(m)) OBVIOUS
<1>2. y.rows = more /\ y.links = x.links BY <1>1 DEF AddRow, IsSession
<1>3. DOMAIN x.rows \subseteq Ids /\ NextId(x.rows) \in Ids BY DEF IsSession, HasRoom
<1>4. PICK ms : ms = Listed(x.rows) OBVIOUS
<1>5. PICK r : r = Listed(more) OBVIOUS
<1>6. IsSeq(ms) BY <1>1, <1>3, <1>4, ListedGrows
<1>7. r = Append(ms, m) BY <1>1, <1>3, <1>4, <1>5, ListedGrows
<1>8. Active(y) = Active(x) BY <1>2 DEF Active
<1>9. View(y) = Store(r, Active(x)) /\ View(x) = Store(ms, Active(x))
  BY <1>2, <1>4, <1>5, <1>8 DEF View
<1>10. View(y) = AddMessage(View(x), m) BY <1>7, <1>9 DEF AddMessage, Store
<1>11. View(y).messages = r BY <1>9 DEF Store
<1>12. Len(ms) \in Nat BY <1>6, SeqFacts
<1>13. DOMAIN r = 1..(Len(ms) + 1) BY <1>6, <1>7, AppendFacts
<1>14. r[Len(ms) + 1] = m BY <1>6, <1>7, AppendFacts
<1>15. m \in ToSet(r) BY <1>12, <1>13, <1>14 DEF ToSet
<1> QED BY <1>10, <1>11, <1>15

\* inject_skill_message
LEMMA InjectedView ==
    ASSUME NEW x, IsSession(x), HasRoom(x), NEW m, NEW k \in Skills, x.links[k] = NoLink,
           NEW y, y = InjectRow(x, k, m)
    PROVE  View(y) = InjectSkill(View(x), k, m) /\ m \in ToSet(View(y).messages)
<1>1. PICK z : z = AddRow(x, m) OBVIOUS
<1>2. y = [z EXCEPT !.links[k] = NextId(x.rows)] BY <1>1 DEF InjectRow
<1>3. PICK id : id = NextId(x.rows) OBVIOUS
<1>4. id # NoLink BY <1>3, NextIdIsNew DEF IsSession
<1>5. PICK more : more = With(x.rows, id, RowOf(m)) OBVIOUS
<1>6. z = [x EXCEPT !.rows = more] BY <1>1, <1>3, <1>5 DEF AddRow
<1>7. y.rows = more /\ y.links = [x.links EXCEPT ![k] = id]
  BY <1>2, <1>3, <1>6 DEF IsSession
<1>8. x.links \in [Skills -> Ids \cup {NoLink}] BY DEF IsSession
<1>9. Active(y) = Active(x) \cup {k}
  <2>1. PICK links : links = y.links OBVIOUS
  <2>2. links[k] = id /\ \A h \in Skills \ {k} : links[h] = x.links[h] BY <1>7, <1>8, <2>1
  <2> QED BY <1>4, <2>1, <2>2 DEF Active
<1>10. k \notin Active(x) BY DEF Active
<1>11. PICK ms : ms = Listed(x.rows) OBVIOUS
<1>12. PICK r : r = Listed(more) OBVIOUS
<1>13. View(z) = AddMessage(View(x), m) /\ m \in ToSet(View(z).messages) BY <1>1, AddedView
<1>14. z.rows = more BY <1>6 DEF IsSession
<1>15. View(z).messages = r BY <1>12, <1>14 DEF View, Store
<1>16. View(x) = Store(ms, Active(x)) BY <1>11 DEF View
<1>17. r = Append(ms, m) BY <1>13, <1>15, <1>16 DEF AddMessage, Store
<1>18. View(y) = Store(r, Active(x) \cup {k}) BY <1>7, <1>9, <1>12 DEF View
<1>19. View(y) = InjectSkill(View(x), k, m)
  BY <1>10, <1>16, <1>17, <1>18 DEF InjectSkill, Store
<1>20. View(y).messages = r BY <1>18 DEF Store
<1> QED BY <1>13, <1>15, <1>19, <1>20

\* remove_skill: the rows that are left, the tool's reply redacted.
LEMMA RemovedView ==
    ASSUME NEW x, Sound(x), NEW k \in Skills, x.links[k] # NoLink, NEW y, y = RemoveRow(x, k)
    PROVE  View(y) = RemoveSessionSkill(View(x), k)
<1>0. IsSession(x) /\ DOMAIN x.rows \subseteq Ids /\ DOMAIN x.rows \subseteq Nat
  BY RowsAssumption DEF Sound, InOrderly, IsSession, Ids
<1>1. PICK id : id = x.links[k] OBVIOUS
<1>2. id \in DOMAIN x.rows BY <1>1 DEF Sound, InOrderly, LinksHold
<1>3. PICK ms : ms = Listed(x.rows) OBVIOUS
<1>4. PICK at : Shows(ms, x.rows, at) BY <1>0, <1>3, ListedShows
<1>5. /\ IsSeq(ms) /\ Len(ms) = Len(at) /\ DOMAIN ms = 1..Len(at) /\ Len(at) \in Nat
      /\ \A n \in 1..Len(at) : at[n] \in DOMAIN x.rows /\ ms[n] = x.rows[at[n]].message
  BY <1>4, ShowsFacts
<1>6. PICK size : size = Len(at) OBVIOUS
<1>7. \A n \in 1..size : Injects(ms[n], k) <=> at[n] = id BY <1>1, <1>4, <1>6, ViewRows
<1>8. PICK kept : kept = {i \in DOMAIN ms : Injects(ms[i], k) => ms[i].role = "tool"}
  OBVIOUS
<1>9. PICK q : q = Pick(ms, kept) OBVIOUS
<1>10. PICK r : r = [j \in 1..Len(q) |-> IF Injects(q[j], k) THEN Redacted(q[j]) ELSE q[j]]
  OBVIOUS
<1>11. PICK c : c = View(x) OBVIOUS
<1>12. c.messages = ms /\ c.skills = Active(x) /\ k \in c.skills
  <2>1. c = Store(ms, Active(x)) BY <1>3, <1>11 DEF View
  <2>2. k \in Active(x) BY DEF Active
  <2> QED BY <2>1, <2>2 DEF Store
<1>13. RemoveSessionSkill(c, k) = Store(r, c.skills \ {k})
  BY <1>8, <1>9, <1>10, <1>12 DEF RemoveSessionSkill, Retain
<1>14. PICK b : b = Ascending(kept, size) OBVIOUS
<1>15. kept \subseteq 1..size BY <1>5, <1>6, <1>8
<1>16. size \in Nat BY <1>5, <1>6
<1>17. Enumerates(b, kept) BY <1>14, <1>15, <1>16, AscendingEnumerates
<1>18. q = [j \in 1..Len(b) |-> ms[b[j]]] BY <1>5, <1>6, <1>9, <1>14 DEF Pick
<1>19. PICK to : to = [j \in 1..Len(b) |-> at[b[j]]] OBVIOUS
<1>20. PICK rows : rows = y.rows OBVIOUS
<1>21. Active(y) = Active(x) \ {k}
  <2>1. y.links = [x.links EXCEPT ![k] = NoLink] BY <1>0 DEF RemoveRow, IsSession
  <2>2. x.links \in [Skills -> Ids \cup {NoLink}] BY <1>0 DEF IsSession
  <2>3. PICK links : links = y.links OBVIOUS
  <2>4. links[k] = NoLink /\ \A h \in Skills \ {k} : links[h] = x.links[h] BY <2>1, <2>2, <2>3
  <2> QED BY <2>3, <2>4 DEF Active
<1>22. PICK tool : tool = (x.rows[id].message.role = "tool") OBVIOUS
<1>23. /\ DOMAIN rows = {i \in DOMAIN x.rows : i = id => tool}
       /\ \A i \in DOMAIN rows :
             rows[i].message = IF i = id THEN Redacted(x.rows[i].message) ELSE x.rows[i].message
  <2>1. CASE tool
    <3>1. PICK row : row = RedactedRow(x.rows[id]) OBVIOUS
    <3>2. rows = With(x.rows, id, row)
      BY <1>0, <1>1, <1>20, <1>22, <2>1, <3>1 DEF RemoveRow, IsSession
    <3>3. row.message = Redacted(x.rows[id].message) BY <3>1 DEF RedactedRow
    <3>4. DOMAIN rows = DOMAIN x.rows BY <1>2, <3>2 DEF With
    <3>5. \A i \in DOMAIN rows : rows[i] = IF i = id THEN row ELSE x.rows[i]
      BY <3>2 DEF With
    <3> QED BY <2>1, <3>3, <3>4, <3>5
  <2>2. CASE ~tool
    <3>1. rows = Without(x.rows, {id})
      BY <1>0, <1>1, <1>20, <1>22, <2>2 DEF RemoveRow, IsSession
    <3> QED BY <2>2, <3>1 DEF Without
  <2> QED BY <1>22, <2>1, <2>2
<1>24. \A i \in 1..size : i \in kept <=> (at[i] = id => tool)
  <2> SUFFICES ASSUME NEW i \in 1..size PROVE i \in kept <=> (at[i] = id => tool) OBVIOUS
  <2>1. i \in DOMAIN ms /\ ms[i] = x.rows[at[i]].message BY <1>5, <1>6
  <2>2. Injects(ms[i], k) <=> at[i] = id BY <1>7
  <2> QED BY <1>8, <1>22, <2>1, <2>2
<1>25. \A i \in 1..size : at[i] \in DOMAIN rows <=> i \in kept BY <1>5, <1>6, <1>23, <1>24
<1>26. Enumerates(to, DOMAIN rows) /\ Len(to) = Len(b)
  <2>1. PICK D : D = DOMAIN x.rows OBVIOUS
  <2>2. PICK E : E = DOMAIN rows OBVIOUS
  <2>3. D \subseteq Nat /\ E \subseteq D BY <1>0, <1>23, <2>1, <2>2
  <2>4. Enumerates(at, D) BY <1>4, <2>1 DEF Shows
  <2>5. PlacesOf(kept, at, E) BY <1>6, <1>15, <1>25, <2>2 DEF PlacesOf
  <2>6. Enumerates(to, E) BY <1>17, <1>19, <2>3, <2>4, <2>5, ComposeEnumerates
  <2>7. Len(to) = Len(b) BY <1>17, <1>19, <2>3, <2>4, <2>5, ComposeEnumerates
  <2> QED BY <2>2, <2>6, <2>7
<1>27. Len(b) \in Nat BY <1>17, SeqFacts DEF Enumerates
<1>28. Len(q) = Len(b)
  <2>1. q = [j \in 1..Len(b) |-> q[j]] BY <1>18
  <2> QED BY <1>27, <2>1, FunctionFacts
<1>29. \A j \in 1..Len(b) : r[j] = rows[to[j]].message
  <2> SUFFICES ASSUME NEW j \in 1..Len(b) PROVE r[j] = rows[to[j]].message OBVIOUS
  <2>1. PICK i : i = b[j] OBVIOUS
  <2>2. i \in kept /\ i \in 1..size BY <1>15, <1>17, <2>1 DEF Enumerates
  <2>3. to[j] = at[i] /\ q[j] = ms[i] BY <1>18, <1>19, <2>1
  <2>4. PICK e : e = at[i] OBVIOUS
  <2>5. e \in DOMAIN rows /\ ms[i] = x.rows[e].message BY <1>5, <1>6, <1>25, <2>2, <2>4
  <2>6. Injects(ms[i], k) <=> e = id BY <1>7, <2>2, <2>4
  <2>7. r[j] = IF Injects(q[j], k) THEN Redacted(q[j]) ELSE q[j] BY <1>10, <1>28
  <2> QED BY <1>23, <2>3, <2>4, <2>5, <2>6, <2>7
<1>30. Shows(r, rows, to)
  <2>1. r = [j \in 1..Len(b) |-> r[j]] BY <1>10, <1>28
  <2>2. r = [j \in 1..Len(to) |-> rows[to[j]].message] BY <1>26, <1>29, <2>1
  <2> QED BY <1>26, <2>2 DEF Shows
<1>31. DOMAIN rows \subseteq Ids BY <1>0, <1>23
<1>32. r = Listed(rows) BY <1>30, <1>31, ListedOnly
<1>33. View(y) = Store(r, Active(x) \ {k}) BY <1>20, <1>21, <1>32 DEF View
<1> QED BY <1>11, <1>12, <1>13, <1>33

\* create_session, delete_session
LEMMA NewView ==
    ASSUME NEW status, NEW w, NEW title
    PROVE  View(Session(status, w, title)) = EmptyStore /\ KindsHold(Session(status, w, title))
<1>1. PICK x : x = Session(status, w, title) OBVIOUS
<1>2. x.rows = NoRows /\ x.links = NoLinks BY <1>1 DEF Session
<1>3. DOMAIN x.rows = {} BY <1>2 DEF NoRows
<1>4. PICK at : at = <<>> OBVIOUS
<1>5. IsSeq(at) /\ Len(at) = 0 BY <1>4 DEF IsSeq
<1>6. Enumerates(at, DOMAIN x.rows) BY <1>3, <1>5 DEF Enumerates
<1>7. PICK ms : ms = <<>> OBVIOUS
<1>8. ms = [n \in 1..Len(at) |-> x.rows[at[n]].message] BY <1>5, <1>7
<1>9. Shows(ms, x.rows, at) BY <1>6, <1>8 DEF Shows
<1>10. DOMAIN x.rows \subseteq Ids BY <1>3
<1>11. ms = Listed(x.rows) BY <1>9, <1>10, ListedOnly
<1>12. Active(x) = {} BY <1>2 DEF Active, NoLinks
<1>13. View(x) = EmptyStore BY <1>7, <1>11, <1>12 DEF View, EmptyStore
<1>14. KindsHold(x) BY <1>3 DEF KindsHold
<1> QED BY <1>1, <1>13, <1>14

\* The rows that replace_all_messages writes show the messages it was given.
LEMMA ReplacedListing ==
    ASSUME NEW x, IsSession(x), NEW messages, IsSeq(messages), DOMAIN messages \subseteq Ids
    PROVE  Listed(ReplaceRows(x, messages).rows) = messages
<1>1. PICK rows : rows = [i \in DOMAIN messages |-> RowOf(messages[i])] OBVIOUS
<1>2. PICK y : y = ReplaceRows(x, messages) OBVIOUS
<1>3. y.rows = rows BY <1>1, <1>2 DEF ReplaceRows, IsSession
<1>4. PICK n : n = Len(messages) OBVIOUS
<1>5. n \in Nat /\ DOMAIN messages = 1..n BY <1>4, SeqFacts
<1>6. PICK at : at = [i \in 1..n |-> i] OBVIOUS
<1>7. at = [i \in 1..n |-> at[i]] /\ \A i \in 1..n : at[i] = i BY <1>6
<1>8. IsSeq(at) /\ Len(at) = n BY <1>5, <1>7, FunctionFacts
<1>9. DOMAIN rows = 1..n /\ \A i \in 1..n : rows[i].message = messages[i]
  BY <1>1, <1>5 DEF RowOf
<1>10. Enumerates(at, DOMAIN rows)
  <2>1. \A k \in 1..n : at[k] \in 1..n BY <1>7
  <2>2. \A k \in 1..n : \A l \in (k + 1)..n : at[k] < at[l] BY <1>5, <1>7
  <2>3. \A i \in 1..n : \E k \in 1..n : at[k] = i BY <1>7
  <2> QED BY <1>8, <1>9, <2>1, <2>2, <2>3 DEF Enumerates
<1>11. messages = [i \in 1..n |-> messages[i]] BY <1>4, <1>5 DEF IsSeq
<1>12. messages = [i \in 1..Len(at) |-> rows[at[i]].message] BY <1>7, <1>8, <1>9, <1>11
<1>13. Shows(messages, rows, at) BY <1>10, <1>12 DEF Shows
<1>14. DOMAIN rows \subseteq Ids BY <1>5, <1>9
<1>15. messages = Listed(rows) BY <1>13, <1>14, ListedOnly
<1> QED BY <1>2, <1>3, <1>15

\* The messages of a list that a caller got.
MessagesOf(list) == [i \in DOMAIN list |-> list[i].row.message]

\* Condensed, of the messages themselves.
CondensedOf(ms) ==
    {Pick(ms, {i \in DOMAIN ms : IsInjection(ms[i])}) \o <<ContextSummary>> \o Pick(ms, kept) :
        kept \in SUBSET (DOMAIN ms \ {i \in DOMAIN ms : IsInjection(ms[i])})}

\* Condensed looks at the messages alone.
LEMMA CondensedMessages ==
    ASSUME NEW list
    PROVE  Condensed(list) = CondensedOf(MessagesOf(list))
BY Zenon DEF Condensed, CondensedOf, MessagesOf

\* The rows in order bear the messages that the view shows.
LEMMA InOrderLists ==
    ASSUME NEW rows, DOMAIN rows \subseteq Ids, NEW list, list = InOrder(rows)
    PROVE  /\ IsSeq(list) /\ MessagesOf(list) = Listed(rows)
           /\ \A i \in DOMAIN list : \E id \in DOMAIN rows : list[i] = [id |-> id, row |-> rows[id]]
<1>1. PICK to : to = Ascending(DOMAIN rows, MaxRows) OBVIOUS
<1>2. PICK D : D = DOMAIN rows OBVIOUS
<1>3. D \subseteq 1..MaxRows BY <1>2 DEF Ids
<1>4. Enumerates(to, D) BY <1>1, <1>2, <1>3, RowsAssumption, AscendingEnumerates
<1>5. PICK n : n = Len(to) OBVIOUS
<1>6. n \in Nat BY <1>4, <1>5, SeqFacts DEF Enumerates
<1>7. list = [k \in 1..n |-> [id |-> to[k], row |-> rows[to[k]]]] BY <1>1, <1>5 DEF InOrder
<1>8. list = [k \in 1..n |-> list[k]] BY <1>7
<1>9. IsSeq(list) /\ DOMAIN list = 1..n BY <1>6, <1>8, FunctionFacts
<1>10. MessagesOf(list) = [k \in 1..n |-> rows[to[k]].message]
  <2>1. \A k \in 1..n : list[k].row.message = rows[to[k]].message BY <1>7
  <2> QED BY <1>9, <2>1 DEF MessagesOf
<1>11. MessagesOf(list) = Listed(rows) BY <1>1, <1>5, <1>10 DEF Listed
<1>12. \A k \in 1..n : to[k] \in D BY <1>4, <1>5 DEF Enumerates
<1> QED BY <1>2, <1>7, <1>9, <1>11, <1>12

\* What the context manager hands back: messages that the agent read, all those of
\* skills among them, and a summary.
LEMMA CondensedFacts ==
    ASSUME NEW ms, IsSeq(ms), NEW messages \in CondensedOf(ms)
    PROVE  /\ IsSeq(messages)
           /\ \A i \in DOMAIN messages :
                 messages[i] = ContextSummary \/ \E j \in DOMAIN ms : messages[i] = ms[j]
           /\ \A j \in DOMAIN ms : IsInjection(ms[j]) =>
                 \E i \in DOMAIN messages : messages[i] = ms[j]
<1>3. IsSeq(ms) OBVIOUS
<1>4. PICK skills : skills = {i \in DOMAIN ms : IsInjection(ms[i])} OBVIOUS
<1>5. \E kept \in SUBSET (DOMAIN ms \ skills) :
         messages = Pick(ms, skills) \o <<ContextSummary>> \o Pick(ms, kept)
  BY <1>4 DEF CondensedOf
<1>6. PICK kept : messages = Pick(ms, skills) \o <<ContextSummary>> \o Pick(ms, kept) BY <1>5
<1>7. PICK a : a = Pick(ms, skills) OBVIOUS
<1>8. PICK b : b = <<ContextSummary>> OBVIOUS
<1>9. PICK c : c = Pick(ms, kept) OBVIOUS
<1>10. PICK d : d = a \o b OBVIOUS
<1>11. messages = d \o c BY <1>6, <1>7, <1>8, <1>9, <1>10
<1>12. IsSeq(a) /\ DOMAIN a = 1..Len(a) BY <1>3, <1>7, PickFacts
<1>13. /\ \A k \in 1..Len(a) : \E j \in 1..Len(ms) : a[k] = ms[j]
       /\ \A i \in 1..Len(ms) : i \in skills => \E k \in 1..Len(a) : a[k] = ms[i]
  <2>1. \E f : /\ IsSeq(f) /\ Len(f) = Len(a)
               /\ f = Ascending(skills, Len(ms))
               /\ \A k \in 1..Len(a) : /\ f[k] \in skills /\ f[k] \in 1..Len(ms)
                                       /\ a[k] = ms[f[k]]
               /\ \A k \in 1..Len(a) : \A l \in (k + 1)..Len(a) : f[k] < f[l]
               /\ \A i \in 1..Len(ms) : i \in skills => \E k \in 1..Len(a) : f[k] = i
    BY <1>3, <1>7, PickFacts
  <2>2. PICK f : /\ \A k \in 1..Len(a) : f[k] \in 1..Len(ms) /\ a[k] = ms[f[k]]
                 /\ \A i \in 1..Len(ms) : i \in skills => \E k \in 1..Len(a) : f[k] = i
    BY <2>1
  <2> QED BY <2>2
<1>14. IsSeq(c) /\ DOMAIN c = 1..Len(c) BY <1>3, <1>9, PickFacts
<1>15. \A k \in 1..Len(c) : \E j \in 1..Len(ms) : c[k] = ms[j]
  <2>1. \E f : /\ IsSeq(f) /\ Len(f) = Len(c)
               /\ f = Ascending(kept, Len(ms))
               /\ \A k \in 1..Len(c) : /\ f[k] \in kept /\ f[k] \in 1..Len(ms)
                                       /\ c[k] = ms[f[k]]
               /\ \A k \in 1..Len(c) : \A l \in (k + 1)..Len(c) : f[k] < f[l]
               /\ \A i \in 1..Len(ms) : i \in kept => \E k \in 1..Len(c) : f[k] = i
    BY <1>3, <1>9, PickFacts
  <2>2. PICK f : \A k \in 1..Len(c) : f[k] \in 1..Len(ms) /\ c[k] = ms[f[k]] BY <2>1
  <2> QED BY <2>2
<1>16. IsSeq(b) /\ Len(b) = 1 /\ b[1] = ContextSummary
  <2>1. PICK e : e = ContextSummary OBVIOUS
  <2>2. b = [n \in 1..1 |-> b[n]] /\ b[1] = e BY <1>8, <2>1
  <2> QED BY <2>1, <2>2, FunctionFacts
<1>17. /\ IsSeq(d) /\ Len(d) = Len(a) + 1 /\ Len(a) \in Nat
       /\ \A i \in 1..Len(a) : d[i] = a[i]
       /\ d[Len(a) + 1] = ContextSummary
  <2>0. IsSeq(a) /\ IsSeq(b) BY <1>12, <1>16
  <2>1. IsSeq(d) /\ Len(d) = Len(a) + Len(b) /\ Len(a) \in Nat
    <3>1. IsSeq(d) BY <1>10, <2>0, ConcatFacts
    <3>2. Len(d) = Len(a) + Len(b) BY <1>10, <2>0, ConcatFacts
    <3> QED BY <2>0, <3>1, <3>2, SeqFacts
  <2>2. \A i \in 1..Len(a) : d[i] = a[i] BY <1>10, <2>0, ConcatFacts
  <2>3. \A i \in 1..Len(b) : d[Len(a) + i] = b[i] BY <1>10, <2>0, ConcatFacts
  <2>4. 1 \in 1..Len(b) BY <1>16
  <2>5. d[Len(a) + 1] = b[1] BY <2>3, <2>4
  <2> QED BY <1>16, <2>1, <2>2, <2>5
<1>18. PICK n : n = Len(d) OBVIOUS
<1>19. IsSeq(messages) /\ DOMAIN messages = 1..(n + Len(c)) /\ n \in Nat /\ Len(c) \in Nat
  <2>0. IsSeq(c) /\ IsSeq(d) BY <1>14, <1>17
  <2>1. IsSeq(messages) BY <1>11, <2>0, ConcatFacts
  <2>2. DOMAIN messages = 1..(Len(d) + Len(c)) BY <1>11, <2>0, ConcatFacts
  <2>3. Len(d) \in Nat /\ Len(c) \in Nat BY <1>11, <2>0, ConcatFacts
  <2> QED BY <1>18, <2>1, <2>2, <2>3
<1>20. \A i \in 1..n : messages[i] = d[i]
  <2>1. \A i \in 1..Len(d) : messages[i] = d[i] BY <1>11, <1>14, <1>17, ConcatFacts
  <2> QED BY <1>18, <2>1
<1>21. \A i \in 1..Len(c) : messages[n + i] = c[i]
  <2>0. IsSeq(c) /\ IsSeq(d) BY <1>14, <1>17
  <2>1. \A i \in 1..Len(c) : messages[Len(d) + i] = c[i] BY <1>11, <2>0, ConcatFacts
  <2> QED BY <1>18, <2>1
<1>22. DOMAIN ms = 1..Len(ms) BY <1>3, SeqFacts
<1>23. PICK u : u = Len(a) OBVIOUS
<1>24. n = u + 1 /\ u \in Nat BY <1>17, <1>18, <1>23
<1>25. ASSUME NEW i \in DOMAIN messages
       PROVE  messages[i] = ContextSummary \/ \E j \in DOMAIN ms : messages[i] = ms[j]
  <2>1. CASE i \in 1..u
    <3>1. i \in 1..n BY <1>24, <2>1
    <3>2. messages[i] = a[i] BY <1>17, <1>20, <1>23, <2>1, <3>1
    <3> QED BY <1>13, <1>22, <1>23, <2>1, <3>2
  <2>2. CASE i = n
    <3>1. n \in 1..n BY <1>24
    <3>2. messages[n] = d[n] BY <1>20, <3>1
    <3>3. d[n] = ContextSummary BY <1>17, <1>18
    <3> QED BY <2>2, <3>2, <3>3
  <2>3. CASE i \notin 1..u /\ i # n
    <3>1. i - n \in 1..Len(c) /\ i = n + (i - n) BY <1>19, <1>24, <2>3
    <3>2. PICK k : k = i - n OBVIOUS
    <3>3. k \in 1..Len(c) /\ i = n + k BY <3>1, <3>2
    <3>4. messages[i] = c[k] BY <1>21, <3>3
    <3> QED BY <1>15, <1>22, <3>3, <3>4
  <2> QED BY <2>1, <2>2, <2>3
<1>26. ASSUME NEW j \in DOMAIN ms, IsInjection(ms[j])
       PROVE  \E i \in DOMAIN messages : messages[i] = ms[j]
  <2>1. j \in skills BY <1>4, <1>26
  <2>2. PICK k \in 1..Len(a) : a[k] = ms[j] BY <1>13, <1>22, <2>1
  <2>3. k \in 1..n /\ k \in 1..(n + Len(c)) BY <1>19, <1>23, <1>24
  <2>4. messages[k] = a[k] BY <1>17, <1>20, <2>3
  <2> QED BY <1>19, <2>2, <2>3, <2>4
<1> QED BY <1>19, <1>25, <1>26

\* A skill is active exactly if a message injects it.
LEMMA ActiveInjected ==
    ASSUME NEW x, Sound(x), NEW ms, ms = Listed(x.rows), NEW k \in Skills
    PROVE  k \in Active(x) <=> \E i \in DOMAIN ms : Injects(ms[i], k)
<1>1. DOMAIN x.rows \subseteq Ids BY DEF Sound, InOrderly, IsSession
<1>2. PICK at : Shows(ms, x.rows, at) BY <1>1, ListedShows
<1>3. DOMAIN ms = 1..Len(at) BY <1>2, ShowsFacts
<1>4. \A i \in 1..Len(at) : at[i] \in DOMAIN x.rows BY <1>2, ShowsFacts
<1>5. \A i \in 1..Len(at) : Injects(ms[i], k) <=> x.links[k] = at[i] BY <1>2, ViewRows
<1>6. ASSUME k \in Active(x) PROVE \E i \in DOMAIN ms : Injects(ms[i], k)
  <2>1. x.links[k] # NoLink BY <1>6 DEF Active
  <2>2. x.links[k] \in DOMAIN x.rows BY <2>1 DEF Sound, InOrderly, LinksHold
  <2>3. PICK i \in 1..Len(at) : at[i] = x.links[k] BY <1>2, <2>2 DEF Shows, Enumerates
  <2> QED BY <1>3, <1>5, <2>3
<1>7. ASSUME NEW i \in DOMAIN ms, Injects(ms[i], k) PROVE k \in Active(x)
  <2>1. x.links[k] = at[i] /\ at[i] \in DOMAIN x.rows BY <1>3, <1>4, <1>5, <1>7
  <2>2. x.links[k] \in Ids BY <1>1, <2>1
  <2>3. x.links[k] # NoLink BY <2>2, RowsAssumption DEF Ids, NoLink
  <2> QED BY <2>3 DEF Active
<1> QED BY <1>6, <1>7

\* replace_all_messages
LEMMA ReplacedView ==
    ASSUME NEW x, Sound(x), NEW messages \in CondensedOf(Listed(x.rows)),
           DOMAIN messages \subseteq Ids, InjectsOnce(messages),
           NEW y, y = ReplaceRows(x, messages)
    PROVE  Sound(y) /\ View(y) = ReplaceMessages(View(x), messages)
<1>1. IsSession(x) /\ InOrderly(x) /\ KindsHold(x) BY DEF Sound, InOrderly
<1>2. PICK ms : ms = Listed(x.rows) OBVIOUS
<1>3. IsSeq(messages)
      /\ (\A i \in DOMAIN messages :
             messages[i] = ContextSummary \/ \E j \in DOMAIN ms : messages[i] = ms[j])
      /\ \A j \in DOMAIN ms : IsInjection(ms[j]) =>
            \E i \in DOMAIN messages : messages[i] = ms[j]
  <2>1. IsSeq(ms) BY <1>1, <1>2, ListedShows, ShowsFacts DEF IsSession
  <2> QED BY <1>2, <2>1, CondensedFacts
<1>4. \A i \in DOMAIN messages :
         messages[i] = ContextSummary \/ \E j \in DOMAIN ms : messages[i] = ms[j]
  BY <1>3
<1>5. \A j \in DOMAIN ms : IsInjection(ms[j]) =>
         \E i \in DOMAIN messages : messages[i] = ms[j]
  BY <1>3
<1>6. "kind" \in DOMAIN ContextSummary /\ ~IsInjection(ContextSummary)
  BY DEF ContextSummary, Text, IsInjection
<1>7. \A j \in DOMAIN ms : "kind" \in DOMAIN ms[j]
  <2>1. DOMAIN x.rows \subseteq Ids BY <1>1 DEF IsSession
  <2>2. PICK at : Shows(ms, x.rows, at) BY <1>2, <2>1, ListedShows
  <2>3. /\ DOMAIN ms = 1..Len(at)
        /\ \A n \in 1..Len(at) : at[n] \in DOMAIN x.rows /\ ms[n] = x.rows[at[n]].message
    BY <2>2, ShowsFacts
  <2> QED BY <1>1, <2>3 DEF KindsHold
<1>8. \A i \in DOMAIN messages : "kind" \in DOMAIN messages[i] BY <1>4, <1>6, <1>7
<1>9. KindsHold(y) BY <1>1, <1>8, ReplaceRowsKinds
<1>10. InOrderly(ReplaceRows(x, messages)) BY <1>1, ReplaceRowsKeeps
<1>11. Sound(y) BY <1>9, <1>10 DEF Sound
<1>12. messages = Listed(y.rows) BY <1>1, <1>3, ReplacedListing
<1>13. \A k \in Skills : k \in Active(y) <=> k \in Active(x)
  <2> SUFFICES ASSUME NEW k \in Skills PROVE k \in Active(y) <=> k \in Active(x) OBVIOUS
  <2>1. k \in Active(x) <=> \E i \in DOMAIN ms : Injects(ms[i], k) BY <1>2, ActiveInjected
  <2>2. k \in Active(y) <=> \E i \in DOMAIN messages : Injects(messages[i], k)
    BY <1>11, <1>12, ActiveInjected
  <2> QED BY <1>4, <1>5, <1>6, <2>1, <2>2 DEF Injects
<1>14. Active(y) = Active(x) BY <1>13 DEF Active
<1>15. View(y) = Store(messages, Active(x)) BY <1>12, <1>14 DEF View
<1>16. View(x) = Store(ms, Active(x)) BY <1>2 DEF View
<1>17. View(y) = ReplaceMessages(View(x), messages) BY <1>15, <1>16 DEF ReplaceMessages, Store
<1> QED BY <1>11, <1>17

\* compact_messages
LEMMA CompactedView ==
    ASSUME NEW x, Sound(x), NEW ids, NEW y, y = CompactRows(x, ids)
    PROVE  Sound(y) /\ View(y) = ReplaceMessages(View(x), View(y).messages)
<1>1. InOrderly(y) BY CompactRowsKeeps DEF Sound
<1>2. KindsHold(y) BY CompactRowsKinds DEF Sound, InOrderly
<1>3. y.links = x.links
  <2>1. PICK selected : selected = {i \in ids \cap DOMAIN x.rows : x.rows[i].kind # "skill"}
    OBVIOUS
  <2>2. y = Compacted(x, selected) BY <2>1 DEF CompactRows
  <2>3. CASE selected = {} BY <2>2, <2>3 DEF Compacted
  <2>4. CASE selected # {}
    BY <2>2, <2>4 DEF Compacted, Sound, InOrderly, IsSession
  <2> QED BY <2>3, <2>4
<1>4. Active(y) = Active(x) BY <1>3 DEF Active
<1>5. View(y) = Store(Listed(y.rows), Active(x)) BY <1>4 DEF View
<1>6. PICK r : r = Listed(y.rows) OBVIOUS
<1>7. View(y) = Store(r, Active(x)) BY <1>5, <1>6
<1>8. View(y).messages = r BY <1>7 DEF Store
<1>9. PICK ms : ms = Listed(x.rows) OBVIOUS
<1>10. View(x) = Store(ms, Active(x)) BY <1>9 DEF View
<1>11. ReplaceMessages(View(x), r) = Store(r, Active(x)) BY <1>10 DEF ReplaceMessages, Store
<1>12. Sound(y) BY <1>1, <1>2 DEF Sound
<1> QED BY <1>7, <1>8, <1>11, <1>12

-----------------------------------------------------------------------------
(* What a transaction on a session means for the port *)

\* The views before and after are those of an operation of the port, or the same.
Moves(c, d) ==
    \/ d = c
    \/ \E m \in ToSet(d.messages) : ~IsInjection(m) /\ d = AddMessage(c, m)
    \/ Port!Bookkept(d) /\ d = ReplaceMessages(c, d.messages)
    \/ \E k \in Skills : \E m \in ToSet(d.messages) : Injects(m, k) /\ d = InjectSkill(c, k, m)
    \/ \E k \in Skills : d = RemoveSessionSkill(c, k)
    \/ d = EmptyStore

\* The outcomes of the transactions on a session, but for a list that is out of date.
Outcome(x, y) ==
    \/ \E w \in Workspaces, title \in Titles : y = Born(w, title)
    \/ \E title \in Titles : y = [x EXCEPT !.title = title]
    \/ y = Dropped
    \/ \E m \in Messages : HasRoom(x) /\ y = AddRow(x, m)
    \/ \E m \in Injections : /\ HasRoom(x) /\ x.links[m.skill] = NoLink
                             /\ y = InjectRow(x, m.skill, m)
    \/ \E k \in Skills : x.links[k] # NoLink /\ y = RemoveRow(x, k)
    \/ \E messages \in CondensedOf(Listed(x.rows)) :
          /\ DOMAIN messages \subseteq Ids /\ InjectsOnce(messages)
          /\ y = ReplaceRows(x, messages)
    \/ \E ids \in SUBSET DOMAIN x.rows : y = CompactRows(x, ids)

\* What a transaction leaves has kinds that hold, and a view that an operation made.
LEMMA OutcomesMove ==
    ASSUME NEW x, Sound(x), NEW y, Outcome(x, y)
    PROVE  KindsHold(y) /\ Moves(View(x), View(y))
<1>1. InOrderly(x) /\ IsSession(x) /\ KindsHold(x) BY DEF Sound, InOrderly
<1>2. CASE (\E w \in Workspaces, title \in Titles : y = Born(w, title)) \/ y = Dropped
  <2>1. PICK status, w, title : y = Session(status, w, title) BY <1>2 DEF Born, Dropped
  <2>2. View(y) = EmptyStore /\ KindsHold(y) BY <2>1, NewView
  <2> QED BY <2>2 DEF Moves
<1>3. CASE \E title \in Titles : y = [x EXCEPT !.title = title]
  <2>1. PICK title : y = [x EXCEPT !.title = title] BY <1>3
  <2>2. y.rows = x.rows /\ y.links = x.links BY <1>1, <2>1 DEF IsSession
  <2>3. View(y) = View(x) BY <2>2 DEF View, Active
  <2>4. KindsHold(y) BY <1>1, <2>2 DEF KindsHold
  <2> QED BY <2>3, <2>4 DEF Moves
<1>4. CASE \E m \in Messages : HasRoom(x) /\ y = AddRow(x, m)
  <2>1. PICK m \in Messages : HasRoom(x) /\ y = AddRow(x, m) BY <1>4
  <2>2. "kind" \in DOMAIN m /\ ~IsInjection(m) BY <2>1, LegacyAssumption DEF IsMessage
  <2>3. y.rows = With(x.rows, NextId(x.rows), RowOf(m)) BY <1>1, <2>1 DEF AddRow, IsSession
  <2>4. KindsHold(y) BY <1>1, <2>2, <2>3, AddRowKinds
  <2>5. View(y) = AddMessage(View(x), m) BY <1>1, <2>1, AddedView
  <2>6. m \in ToSet(View(y).messages) BY <1>1, <2>1, AddedView
  <2> QED BY <2>2, <2>4, <2>5, <2>6 DEF Moves
<1>5. CASE \E m \in Injections : /\ HasRoom(x) /\ x.links[m.skill] = NoLink
                                /\ y = InjectRow(x, m.skill, m)
  <2>1. PICK m \in Injections : /\ HasRoom(x) /\ x.links[m.skill] = NoLink
                                /\ y = InjectRow(x, m.skill, m)
    BY <1>5
  <2>2. PICK k : k = m.skill OBVIOUS
  <2>3. "kind" \in DOMAIN m /\ IsInjection(m) /\ k \in Skills
    BY <2>1, <2>2, LegacyAssumption DEF IsMessage
  <2>4. HasRoom(x) /\ x.links[k] = NoLink /\ y = InjectRow(x, k, m) BY <2>1, <2>2
  <2>5. y.rows = With(x.rows, NextId(x.rows), RowOf(m))
    BY <1>1, <2>4 DEF InjectRow, AddRow, IsSession
  <2>6. KindsHold(y) BY <1>1, <2>3, <2>5, AddRowKinds
  <2>7. View(y) = InjectSkill(View(x), k, m) BY <1>1, <2>3, <2>4, InjectedView
  <2>8. m \in ToSet(View(y).messages) BY <1>1, <2>3, <2>4, InjectedView
  <2>9. Injects(m, k) BY <2>2, <2>3 DEF Injects
  <2> QED BY <2>3, <2>6, <2>7, <2>8, <2>9 DEF Moves
<1>6. CASE \E k \in Skills : x.links[k] # NoLink /\ y = RemoveRow(x, k)
  <2>1. PICK k \in Skills : x.links[k] # NoLink /\ y = RemoveRow(x, k) BY <1>6
  <2>2. KindsHold(y) BY <1>1, <2>1, RemoveRowKinds
  <2>3. View(y) = RemoveSessionSkill(View(x), k) BY <2>1, RemovedView
  <2> QED BY <2>2, <2>3 DEF Moves
<1>7. CASE \E messages \in CondensedOf(Listed(x.rows)) :
              /\ DOMAIN messages \subseteq Ids /\ InjectsOnce(messages)
              /\ y = ReplaceRows(x, messages)
  <2>1. PICK messages \in CondensedOf(Listed(x.rows)) :
              /\ DOMAIN messages \subseteq Ids /\ InjectsOnce(messages)
              /\ y = ReplaceRows(x, messages)
    BY <1>7
  <2>2. Sound(y) BY <2>1, ReplacedView
  <2>3. View(y) = ReplaceMessages(View(x), messages) BY <2>1, ReplacedView
  <2>4. PICK c : c = View(x) OBVIOUS
  <2>5. PICK d : d = View(y) OBVIOUS
  <2>6. d = [c EXCEPT !.messages = messages] BY <2>3, <2>4, <2>5 DEF ReplaceMessages
  <2>7. c = Store(Listed(x.rows), Active(x)) BY <2>4 DEF View
  <2>8. d.messages = messages BY <2>6, <2>7 DEF Store
  <2>9. Port!Bookkept(d) BY <2>2, <2>5, ViewBookkept
  <2>10. d = ReplaceMessages(c, d.messages) BY <2>3, <2>4, <2>5, <2>8
  <2>11. KindsHold(y) BY <2>2 DEF Sound
  <2> QED BY <2>4, <2>5, <2>9, <2>10, <2>11 DEF Moves
<1>8. CASE \E ids \in SUBSET DOMAIN x.rows : y = CompactRows(x, ids)
  <2>1. PICK ids : y = CompactRows(x, ids) BY <1>8
  <2>2. Sound(y) BY <2>1, CompactedView
  <2>3. View(y) = ReplaceMessages(View(x), View(y).messages) BY <2>1, CompactedView
  <2>4. Port!Bookkept(View(y)) BY <2>2, ViewBookkept
  <2>5. KindsHold(y) BY <2>2 DEF Sound
  <2> QED BY <2>3, <2>4, <2>5 DEF Moves
<1> QED BY <1>2, <1>3, <1>4, <1>5, <1>6, <1>7, <1>8 DEF Outcome

\* What the agent sees of every session: the conversations of the port.
Seen == [s \in Sessions |-> AgentView(s)]

\* They are the views of the rows and links, before a step and after it.
LEMMA SeenViews ==
    /\ Seen = [s \in Sessions |-> View(db[s])]
    /\ Seen' = [s \in Sessions |-> View(db'[s])]
<1>1. ASSUME NEW x
      PROVE  LET at == Ascending(DOMAIN x.rows, MaxRows)
             IN  Store([n \in 1..Len(at) |-> x.rows[at[n]].message],
                       {k \in Skills : x.links[k] # NoLink}) = View(x)
  BY Zenon DEF View, Listed, Active
<1>2. \A s : AgentView(s) = View(db[s])
  <2> SUFFICES ASSUME NEW s PROVE AgentView(s) = View(db[s]) OBVIOUS
  <2> QED BY Zenon, <1>1 DEF AgentView
<1>3. \A s : AgentView(s)' = View(db'[s])
  <2> SUFFICES ASSUME NEW s PROVE AgentView(s)' = View(db'[s]) OBVIOUS
  <2> QED BY Zenon, <1>1 DEF AgentView
<1>4. Seen = [s \in Sessions |-> View(db[s])] BY <1>2 DEF Seen
<1>5. Seen' = [s \in Sessions |-> View(db'[s])] BY <1>3 DEF Seen
<1> QED BY <1>4, <1>5

KindsInv == \A s \in Sessions : KindsHold(db[s])

\* Every session is in order when the invariants hold.
LEMMA SessionsSound ==
    ASSUME TablesInv, KindsInv
    PROVE  DOMAIN db = Sessions /\ \A s \in Sessions : Sound(db[s])
BY DEF TablesInv, KindsInv, TypeOK, SkillLinksHold, InOrderly, Sound

-----------------------------------------------------------------------------
(* What an agent has listed are messages, however old *)

IsListing(list) == LET ms == MessagesOf(list)
                   IN  IsSeq(ms) /\ \A i \in DOMAIN ms : "kind" \in DOMAIN ms[i]

\* What a read found: no list, or one of messages.
Listing(held) == \A list \in held : IsListing(list)

\* A task that reads for an agent has the agent's key, and what it holds are messages.
ListTask(task) ==
    /\ \A s \in Sessions :
          /\ task.agent = s /\ task.step \in Reading => task.key = AgentKey(s)
          /\ task.key = AgentKey(s) => Listing(task.held)
    /\ task.step \in Holding => Listing(task.held)

ListCaches ==
    \A s \in Sessions : Listing(primary[AgentKey(s)]) /\ Listing(fallback[AgentKey(s)])

ListsInv == ListCaches /\ \A t \in Tasks : ListTask(tasks[t])

\* All rows, in order.
LEMMA WholePage ==
    ASSUME NEW x, IsSession(x)
    PROVE  Page(x.rows, [limit |-> 0, before |-> 0]) = InOrder(x.rows)
<1>1. PICK window : window = [limit |-> 0, before |-> 0] OBVIOUS
<1>2. window.limit = 0 /\ window.before = 0 BY <1>1
<1>3. PICK rows : rows = x.rows OBVIOUS
<1>4. PICK below : below = {i \in DOMAIN rows : window.before = 0 \/ i < window.before} OBVIOUS
<1>5. below = DOMAIN rows BY <1>2, <1>4
<1>6. PICK same : same = [i \in below |-> rows[i]] OBVIOUS
<1>7. DOMAIN same = DOMAIN rows /\ \A i \in DOMAIN rows : same[i] = rows[i] BY <1>5, <1>6
<1>8. DOMAIN same \subseteq Ids /\ DOMAIN rows \subseteq Ids BY <1>3, <1>7 DEF IsSession
<1>9. PICK list : list = InOrder(same) OBVIOUS
<1>10. IsSeq(list) BY <1>8, <1>9, InOrderLists
<1>11. InOrder(rows) = list
  <2>1. PICK to : to = Ascending(DOMAIN rows, MaxRows) OBVIOUS
  <2>2. Enumerates(to, DOMAIN rows)
    <3>1. PICK D : D = DOMAIN rows OBVIOUS
    <3>2. D \subseteq 1..MaxRows /\ MaxRows \in Nat BY <1>8, <3>1, RowsAssumption DEF Ids
    <3> QED BY <2>1, <3>1, <3>2, AscendingEnumerates
  <2>3. \A k \in 1..Len(to) : to[k] \in DOMAIN rows BY <2>2 DEF Enumerates
  <2>4. InOrder(rows) = [k \in 1..Len(to) |-> [id |-> to[k], row |-> rows[to[k]]]]
    BY <2>1 DEF InOrder
  <2>5. list = [k \in 1..Len(to) |-> [id |-> to[k], row |-> same[to[k]]]]
    BY <1>7, <1>9, <2>1 DEF InOrder
  <2> QED BY <1>7, <2>3, <2>4, <2>5
<1>12. Page(rows, window) = SubSeq(list, 1, Len(list))
  BY <1>2, <1>4, <1>6, <1>9 DEF Page
<1>13. SubSeq(list, 1, Len(list)) = list
  <2>1. PICK n : n = Len(list) OBVIOUS
  <2>2. n \in Nat /\ list = [k \in 1..n |-> list[k]] BY <1>10, <2>1, SeqFacts DEF IsSeq
  <2>3. PICK q : q = SubSeq(list, 1, n) OBVIOUS
  <2>4. /\ 1 \in Nat /\ 1 <= 1 /\ 1 <= n + 1 /\ n <= Len(list) /\ n - 1 + 1 = n
        /\ \A i \in 1..n : 1 + i - 1 = i
    BY <2>1, <2>2
  <2>5. IsSeq(q) BY <1>10, <2>2, <2>3, <2>4, SubSeqFacts
  <2>6. DOMAIN q = 1..n /\ \A i \in 1..n : q[i] = list[i]
    <3>1. DOMAIN q = 1..(n - 1 + 1) BY <1>10, <2>2, <2>3, <2>4, SubSeqFacts
    <3>2. \A i \in 1..(n - 1 + 1) : q[i] = list[1 + i - 1]
      BY <1>10, <2>2, <2>3, <2>4, SubSeqFacts
    <3> QED BY <2>4, <3>1, <3>2
  <2>7. q = [k \in 1..n |-> q[k]] BY <2>5, <2>6 DEF IsSeq
  <2> QED BY <2>1, <2>2, <2>3, <2>6, <2>7
<1> QED BY <1>1, <1>3, <1>11, <1>12, <1>13

\* The answer to an agent's question is the session's rows.
LEMMA AgentsAnswer ==
    ASSUME TablesInv, KindsInv, NEW s \in Sessions
    PROVE  /\ Listing(Answer(db, AgentKey(s))) /\ Listing(Nothing)
           /\ Listing(Found(Page(db[s].rows, [limit |-> 0, before |-> 0])))
           /\ Live(db[s]) => Answer(db, AgentKey(s)) = Found(InOrder(db[s].rows))
<1>1. PICK x : x = db[s] OBVIOUS
<1>2. Sound(x) BY <1>1, SessionsSound
<1>3. IsSession(x) /\ KindsHold(x) /\ DOMAIN x.rows \subseteq Ids
  BY <1>2 DEF Sound, InOrderly, IsSession
<1>4. PICK list : list = InOrder(x.rows) OBVIOUS
<1>5. Page(x.rows, [limit |-> 0, before |-> 0]) = list BY <1>3, <1>4, WholePage
<1>6. Answer(db, AgentKey(s)) = IF Live(x) THEN Found(list) ELSE Nothing
  <2>1. AnyWorkspace \in {AnyWorkspace, x.workspace} OBVIOUS
  <2>2. PICK window : window = [limit |-> 0, before |-> 0] OBVIOUS
  <2>3. Answer(db, AgentKey(s)) = MessagesAnswer(db, s, AnyWorkspace, window)
    BY <2>2 DEF Answer, AgentKey, MessagesKey
  <2> QED BY <1>1, <1>5, <2>1, <2>2, <2>3 DEF MessagesAnswer, Visible
<1>7. IsListing(list)
  <2>1. PICK ms : ms = MessagesOf(list) OBVIOUS
  <2>2. ms = Listed(x.rows) BY <1>3, <1>4, <2>1, InOrderLists
  <2>3. PICK at : Shows(ms, x.rows, at) BY <1>3, <2>2, ListedShows
  <2>4. IsSeq(ms) /\ \A i \in DOMAIN ms : \E id \in DOMAIN x.rows : ms[i] = x.rows[id].message
    BY <2>3, ShowsFacts
  <2>5. \A i \in DOMAIN ms : "kind" \in DOMAIN ms[i] BY <1>3, <2>4 DEF KindsHold
  <2> QED BY <2>1, <2>4, <2>5 DEF IsListing
<1>8. Listing(Found(list)) /\ Listing(Nothing) BY <1>7 DEF Listing, Found, Nothing
<1> QED BY <1>1, <1>4, <1>5, <1>6, <1>8

\* The tasks that hold nothing, or what they were given.
LEMMA ListTasks ==
    /\ Listing(Nothing)
    /\ \A task : task.key = NoKey /\ task.step \notin Reading \cup Holding => ListTask(task)
    /\ ListTask(Idle)
    /\ \A task, answer, agent :
          Returned(task, answer, agent) /\ (agent \in Sessions => Listing(answer))
              => ListTask(task)
<1>1. Listing(Nothing) BY DEF Listing, Nothing
<1>2. ASSUME NEW task, task.key = NoKey, task.step \notin Reading \cup Holding
      PROVE  ListTask(task)
  BY <1>2, AgentKeys DEF ListTask
<1>3. ListTask(Idle)
  <2>1. Idle.key = NoKey /\ Idle.step \notin Reading \cup Holding BY DEF Idle, Reading, Holding
  <2> QED BY <1>2, <2>1
<1>4. ASSUME NEW task, NEW answer, NEW agent, Returned(task, answer, agent),
             agent \in Sessions => Listing(answer)
      PROVE  ListTask(task)
  <2>1. task.key = NoKey /\ task.step \notin Reading BY <1>4 DEF Returned, Reading
  <2>2. task.step \in Holding => task.held = answer /\ task.agent \in Sessions
    BY <1>4 DEF Returned, Holding, IsTask
  <2>3. task.step \in Holding => Listing(answer) BY <1>4, <2>2 DEF Returned, Holding
  <2> QED BY <2>1, <2>2, <2>3, AgentKeys DEF ListTask
<1> QED BY <1>1, <1>2, <1>3, <1>4

\* One task moves.
LEMMA TaskKeepsLists ==
    ASSUME TypeOK, ListsInv, NEW t \in Tasks, NEW task, Goes(t, task), ListTask(task),
           ListCaches'
    PROVE  ListsInv'
<1>1. \A r \in Tasks : tasks'[r] = task \/ tasks'[r] = tasks[r] BY DEF TypeOK, Goes
<1>2. \A r \in Tasks : ListTask(tasks'[r]) BY <1>1 DEF ListsInv
<1> QED BY <1>2 DEF ListsInv

\* A caches' entry is replaced by what a task holds, or the caches lose entries.
LEMMA CachesKeepLists ==
    ASSUME TypeOK, ListsInv, NEW t \in Tasks,
           \A key \in Keys :
              /\ \/ fallback'[key] \in {fallback[key], Nothing}
                 \/ key = tasks[t].key /\ fallback'[key] = tasks[t].held
              /\ \/ primary'[key] \in {primary[key], Nothing}
                 \/ key = tasks[t].key /\ primary'[key] = tasks[t].held
    PROVE  ListCaches'
<1> SUFFICES ASSUME NEW s \in Sessions
             PROVE  Listing(primary'[AgentKey(s)]) /\ Listing(fallback'[AgentKey(s)])
  BY DEF ListCaches
<1>1. PICK key : key = AgentKey(s) OBVIOUS
<1>2. key \in Keys BY <1>1, AgentKeys
<1>3. Listing(primary[key]) /\ Listing(fallback[key]) /\ Listing(Nothing)
  BY <1>1, ListTasks DEF ListsInv, ListCaches
<1>4. key = tasks[t].key => Listing(tasks[t].held) BY <1>1 DEF ListsInv, ListTask
<1> QED BY <1>1, <1>2, <1>3, <1>4

\* A read starts with an answer from a cache.
LEMMA ReadKeepsLists ==
    ASSUME TypeOK, ListsInv, NEW t \in Tasks, ReadForBrowser(t) \/ ListMessages(t)
    PROVE  ListsInv'
<1>1. PICK key \in Keys, agent \in Sessions \cup {NoSession} :
        /\ Read(t, key, agent)
        /\ \A s \in Sessions : key = AgentKey(s) <=> agent = s
  <2>1. CASE ReadForBrowser(t)
    BY <2>1, AgentKeys, LegacyAssumption DEF ReadForBrowser
  <2>2. CASE ListMessages(t)
    BY <2>2, AgentKeys, LegacyAssumption DEF ListMessages
  <2> QED BY <2>1, <2>2
<1>2. UNCHANGED <<primary, fallback>> BY <1>1 DEF Read, AskRedis, LookUp
<1>3. ListCaches' BY <1>2 DEF ListsInv, ListCaches
<1>4. \A s \in Sessions : key = AgentKey(s) => Listing(primary[key]) /\ Listing(fallback[key])
  BY DEF ListsInv, ListCaches
<1>5. ASSUME NEW step \in Reading, NEW held, Goes(t, Reader(step, key, held, agent)),
             \A s \in Sessions : key = AgentKey(s) => Listing(held)
      PROVE  ListsInv'
  <2>1. PICK task : /\ task = Reader(step, key, held, agent) /\ task.held = held
                    /\ task.step = step /\ task.key = key /\ task.agent = agent
    BY ReadersFormed
  <2>2. task.step \notin Holding BY <2>1 DEF Reading, Holding
  <2>3. ListTask(task) BY <1>1, <1>5, <2>1, <2>2 DEF ListTask
  <2> QED BY <1>3, <1>5, <2>1, <2>3, TaskKeepsLists
<1>6. ASSUME NEW task, Returned(task, fallback[key], agent), Goes(t, task)
      PROVE  ListsInv'
  <2>1. agent \in Sessions => Listing(fallback[key]) BY <1>1, <1>4
  <2>2. ListTask(task) BY <1>6, <2>1, ListTasks
  <2> QED BY <1>3, <1>6, <2>2, TaskKeepsLists
<1>7. CASE AskRedis(t, key, agent)
  <2>1. "answered" \in Reading BY DEF Reading
  <2> QED BY <1>4, <1>5, <1>7, <2>1, ListTasks DEF AskRedis
<1>8. CASE LookUp(t, key, agent)
  <2>1. "query" \in Reading BY DEF Reading
  <2>2. AskOwn(t, key, agent) BY <1>8 DEF LookUp
  <2> QED BY <1>5, <1>6, <2>1, <2>2, OwnAnswers, ListTasks
<1> QED BY <1>1, <1>7, <1>8 DEF Read

\* The other steps of a task pass on what it holds, or ask the database.
LEMMA TaskStepsKeepLists ==
    ASSUME TablesInv, KindsInv, ListsInv, NEW t \in Tasks,
           \/ TakeAnswer(t) \/ Query(t) \/ QueryRows(t) \/ Fill(t) \/ FillRedis(t)
           \/ CancelRead(t) \/ Sweep(t) \/ SweepRedis(t) \/ CancelSweep(t)
           \/ AbandonReplace(t) \/ LetGo(t)
    PROVE  ListsInv'
<1> DEFINE key == tasks[t].key  agent == tasks[t].agent  held == tasks[t].held
           rest == Tail(tasks[t].sweep)
<1>1. TypeOK /\ IsTask(tasks[t]) /\ agent \in Sessions \cup {NoSession} /\ ListTask(tasks[t])
  BY DEF TablesInv, TypeOK, IsTask, ListsInv
<1>2. \A cache, keys : \A k \in Keys : Emptied(cache, keys)[k] \in {cache[k], Nothing}
  BY DEF Emptied
<1>3. \A k \in Keys :
        /\ fallback'[k] \in {fallback[k], Nothing} \/ (k = key /\ fallback'[k] = held)
        /\ primary'[k] \in {primary[k], Nothing} \/ (k = key /\ primary'[k] = held)
  <2>1. DOMAIN primary = Keys /\ DOMAIN fallback = Keys BY <1>1 DEF TypeOK
  <2>2. CASE TakeAnswer(t) \/ Fill(t) \/ FillRedis(t)
    BY <2>1, <2>2 DEF TakeAnswer, Fill, FillRedis
  <2>3. CASE Sweep(t) \/ SweepRedis(t)
    BY <1>2, <2>1, <2>3 DEF Sweep, SweepRedis
  <2>4. CASE \/ Query(t) \/ QueryRows(t) \/ CancelRead(t) \/ CancelSweep(t)
             \/ AbandonReplace(t) \/ LetGo(t)
    BY <2>1, <2>4 DEF Query, QueryRows, CancelRead, CancelSweep, AbandonReplace, LetGo
  <2> QED BY <2>2, <2>3, <2>4
<1>4. ListCaches' BY <1>1, <1>3, CachesKeepLists
<1>5. CASE Goes(t, Idle) BY <1>1, <1>4, <1>5, ListTasks, TaskKeepsLists
<1>6. ASSUME NEW step,
             \/ tasks[t].step \in Reading /\ step \in Reading
             \/ tasks[t].step \in Sweeping /\ step \in Sweeping
             \/ tasks[t].step \in Holding /\ step \in Holding,
             Goes(t, [tasks[t] EXCEPT !.step = step])
      PROVE  ListsInv'
  <2> DEFINE task == [tasks[t] EXCEPT !.step = step]
  <2>1. task.key = key /\ task.agent = agent /\ task.held = held /\ task.step = step
    BY <1>1 DEF IsTask
  <2>2. /\ step \in Reading => tasks[t].step \in Reading
        /\ step \in Holding => tasks[t].step \in Holding
    BY <1>6 DEF Reading, Sweeping, Holding
  <2> HIDE DEF task
  <2>3. ListTask(task) BY <1>1, <2>1, <2>2 DEF ListTask
  <2>4. Goes(t, task) BY <1>6 DEF task
  <2> QED BY <1>1, <1>4, <2>3, <2>4, TaskKeepsLists
<1>7. ASSUME NEW step \in Reading, tasks[t].step \in Reading, NEW answer,
             \A s \in Sessions : key = AgentKey(s) => Listing(answer),
             Goes(t, Reader(step, key, answer, agent))
      PROVE  ListsInv'
  <2>1. key \in Keys BY <1>1, <1>7, ReadersHaveKeys
  <2> HIDE DEF key, agent
  <2>2. PICK task : /\ task = Reader(step, key, answer, agent) /\ task.held = answer
                    /\ task.step = step /\ task.key = key /\ task.agent = agent
    BY <1>1, <2>1, ReadersFormed
  <2>3. task.step \notin Holding BY <2>2 DEF Reading, Holding
  <2>4. \A s \in Sessions : agent = s => key = AgentKey(s)
    BY <1>1, <1>7 DEF ListTask, key, agent
  <2>5. ListTask(task) BY <1>7, <2>2, <2>3, <2>4 DEF ListTask
  <2> QED BY <1>1, <1>4, <1>7, <2>2, <2>5, TaskKeepsLists
<1>8. ASSUME NEW answer, NEW task, Returned(task, answer, agent), Goes(t, task),
             agent \in Sessions => Listing(answer)
      PROVE  ListsInv'
  <2>1. ListTask(task) BY <1>8, ListTasks
  <2> QED BY <1>1, <1>4, <1>8, <2>1, TaskKeepsLists
<1>9. tasks[t].step \in Reading /\ agent \in Sessions =>
        key = AgentKey(agent) /\ Listing(held) /\ Listing(fallback[key])
  BY <1>1 DEF ListTask, ListsInv, ListCaches
<1>10. CASE TakeAnswer(t)
  <2>1. /\ tasks[t].step \in Reading /\ key \in Keys /\ "query" \in Reading
        /\ \/ Returns(t, held, agent) \/ AskOwn(t, key, agent)
    BY <1>1, <1>10, ReadersHaveKeys DEF TakeAnswer, Reading
  <2>2. CASE Returns(t, held, agent)
    BY <1>1, <1>8, <1>9, <2>1, <2>2, ReadsReturn
  <2>3. CASE AskOwn(t, key, agent)
    BY <1>1, <1>7, <1>8, <1>9, <2>1, <2>3, OwnAnswers, ListTasks
  <2> QED BY <2>1, <2>2, <2>3
<1>11. ASSUME tasks[t].step \in Reading, NEW answer, Hold(t, answer),
              \A s \in Sessions : key = AgentKey(s) => Listing(answer)
       PROVE  ListsInv'
  <2>1. "filling" \in Reading BY DEF Reading
  <2> QED BY <1>5, <1>7, <1>11, <2>1 DEF Hold, Ends
<1>12. CASE Query(t)
  <2>1. tasks[t].step \in Reading /\ "rows" \in Reading BY <1>12 DEF Query, Reading
  <2>2. \A s \in Sessions : key = AgentKey(s) => Listing(Answer(db, key)) BY AgentsAnswer
  <2>3. Goes(t, [tasks[t] EXCEPT !.step = "rows"]) \/ Hold(t, Answer(db, key))
    BY <1>12 DEF Query
  <2> QED BY <1>6, <1>11, <2>1, <2>2, <2>3
<1>13. CASE QueryRows(t)
  <2>1. tasks[t].step \in Reading BY <1>13 DEF QueryRows, Reading
  <2>2. ASSUME NEW s \in Sessions, key = AgentKey(s)
        PROVE  Listing(Found(Page(db[key[2]].rows, key[4])))
    <3>1. key[2] = s /\ key[4] = [limit |-> 0, before |-> 0] BY <2>2 DEF AgentKey, MessagesKey
    <3> QED BY <3>1, AgentsAnswer
  <2>3. Hold(t, Found(Page(db[key[2]].rows, key[4]))) BY <1>13 DEF QueryRows
  <2> QED BY <1>11, <2>1, <2>2, <2>3
<1>14. CASE Fill(t) \/ FillRedis(t)
  <2>1. /\ tasks[t].step \in Reading /\ "storing" \in Reading
        /\ \/ Returns(t, held, agent) \/ Goes(t, [tasks[t] EXCEPT !.step = "storing"])
    BY <1>14 DEF Fill, FillRedis, Reading
  <2>2. CASE Returns(t, held, agent)
    BY <1>1, <1>8, <1>9, <2>1, <2>2, ReadsReturn
  <2> QED BY <1>6, <2>1, <2>2
<1>15. CASE Sweep(t) \/ SweepRedis(t)
  <2>1. /\ tasks[t].step \in Sweeping /\ "sweeping" \in Sweeping
        /\ \/ Goes(t, Idle) \/ Goes(t, [tasks[t] EXCEPT !.step = "sweeping"])
           \/ Goes(t, Writer(rest, tasks[t].changed, agent))
    BY <1>15 DEF Sweep, SweepRedis, Ends, Sweeping
  <2>2. CASE Goes(t, Writer(rest, tasks[t].changed, agent))
    <3> DEFINE task == Writer(rest, tasks[t].changed, agent)
    <3>1. task.key = NoKey /\ task.step \notin Reading \cup Holding
      BY DEF Writer, Reading, Holding
    <3> HIDE DEF task
    <3>2. ListTask(task) /\ Goes(t, task) BY <2>2, <3>1, ListTasks DEF task
    <3> QED BY <1>1, <1>4, <3>2, TaskKeepsLists
  <2> QED BY <1>5, <1>6, <2>1, <2>2
<1>16. CASE AbandonReplace(t)
  <2>1. tasks[t].step \in Holding /\ "abandoned" \in Holding
    BY <1>16 DEF AbandonReplace, Holding
  <2> QED BY <1>6, <1>16, <2>1 DEF AbandonReplace
<1>17. CASE CancelRead(t) \/ CancelSweep(t) \/ LetGo(t)
  BY <1>5, <1>17 DEF CancelRead, CancelSweep, LetGo, Ends
<1> QED BY <1>10, <1>12, <1>13, <1>14, <1>15, <1>16, <1>17

\* Every step keeps what an agent may have listed a list of messages.
LEMMA ListsStep ==
    ASSUME TablesInv, KindsInv, ListsInv, [StoreNext]_storeVars
    PROVE  ListsInv'
<1>1. TypeOK BY DEF TablesInv
<1>2. ASSUME UNCHANGED <<primary, fallback>>,
             \A r \in Tasks : tasks'[r] = tasks[r] \/ ListTask(tasks'[r])
      PROVE  ListsInv'
  <2>1. ListCaches' BY <1>2 DEF ListsInv, ListCaches
  <2>2. \A r \in Tasks : ListTask(tasks'[r]) BY <1>2 DEF ListsInv
  <2> QED BY <2>1, <2>2 DEF ListsInv
<1>3. ASSUME NEW t \in Tasks, NEW s, NEW x, NEW sweep, NEW agent,
             Awaited(t, s, x, sweep, agent)
      PROVE  ListsInv'
  <2> DEFINE task == Writer(sweep, Changed(s, x), agent)
  <2>1. /\ tasks'[t] = task /\ \A r \in Tasks \ {t} : tasks'[r] = tasks[r]
        /\ UNCHANGED <<primary, fallback>>
    BY <1>3, WriteOutcome
  <2>2. task.key = NoKey /\ task.step \notin Reading \cup Holding
    BY DEF Writer, Reading, Holding
  <2> HIDE DEF task
  <2>3. ListTask(task) BY <2>2, ListTasks
  <2> QED BY <1>2, <2>1, <2>3
<1>4. ASSUME NEW s, NEW x, Unattended(s, x) PROVE ListsInv'
  <2>1. /\ \A r \in Tasks : tasks'[r] = tasks[r] \/ tasks'[r] = Idle
        /\ UNCHANGED <<primary, fallback>>
    BY <1>4, LateOutcome
  <2> QED BY <1>2, <2>1, ListTasks
<1>5. ASSUME UNCHANGED <<primary, fallback, tasks>> PROVE ListsInv'
  BY <1>2, <1>5
<1>6. CASE Expire
  <2>1. \A key \in Keys : /\ fallback'[key] \in {fallback[key], Nothing}
                          /\ primary'[key] \in {primary[key], Nothing}
    BY <1>1, <1>6 DEF Expire, Emptied, TypeOK
  <2>2. ListCaches' BY <2>1, AgentKeys, ListTasks DEF ListsInv, ListCaches
  <2> QED BY <1>6, <2>2 DEF Expire, ListsInv
<1>7. CASE Restart
  <2>1. \A key \in Keys : fallback'[key] = Nothing /\ primary'[key] = primary[key]
    BY <1>7 DEF Restart, NoEntries
  <2>2. ListCaches' BY <2>1, AgentKeys, ListTasks DEF ListsInv, ListCaches
  <2>3. \A r \in Tasks : tasks'[r] = Idle BY <1>7 DEF Restart
  <2>4. \A r \in Tasks : ListTask(tasks'[r]) BY <2>3, ListTasks
  <2> QED BY <2>2, <2>4 DEF ListsInv
<1>8. CASE CacheStep
  <2>1. ASSUME NEW t \in Tasks,
               \/ TakeAnswer(t) \/ Query(t) \/ QueryRows(t) \/ Fill(t) \/ FillRedis(t)
               \/ CancelRead(t) \/ Sweep(t) \/ SweepRedis(t) \/ CancelSweep(t)
               \/ AbandonReplace(t) \/ LetGo(t)
        PROVE  ListsInv'
    BY <2>1, TaskStepsKeepLists
  <2>2. ASSUME NEW t \in Tasks, ReadForBrowser(t) \/ ListMessages(t) PROVE ListsInv'
    BY <1>1, <2>2, ReadKeepsLists
  <2>3. ASSUME NEW w \in Workspaces, EnsureWorkspace(w) PROVE ListsInv'
    BY <1>5, <2>3 DEF EnsureWorkspace
  <2> QED BY <1>6, <1>7, <1>8, <2>1, <2>2, <2>3 DEF CacheStep
<1>9. CASE UNCHANGED storeVars BY <1>5, <1>9 DEF storeVars
<1> QED BY <1>3, <1>4, <1>8, <1>9, StoreSteps

\* A server starts with empty caches.
LEMMA ListsInit == StoreInit => ListsInv
<1> SUFFICES ASSUME StoreInit PROVE ListsInv OBVIOUS
<1>1. \A key \in Keys : primary[key] = Nothing /\ fallback[key] = Nothing
  BY DEF StoreInit, NoEntries
<1>2. \A t \in Tasks : ListTask(tasks[t]) BY ListTasks DEF StoreInit
<1> QED BY <1>1, <1>2, AgentKeys, ListTasks DEF ListsInv, ListCaches

-----------------------------------------------------------------------------
(* What each step does to the tables *)

\* An agent whose list is out of date puts other messages in the place of the rows.
Overwrites(s, x) == s \in Overtaken /\ Sound(x)

\* What a list makes of the rows: a replacement of what the agent has read, or, when
\* the list is out of date, a session that is in order all the same.
LEMMA ReplacementsMove ==
    ASSUME TablesInv, KindsInv, ListsInv, NEW t \in Tasks, tasks[t].step \in Holding,
           NEW s, s = tasks[t].agent, Live(db[s]), NEW x \in Replacements(t, s)
    PROVE  s \in Sessions /\ (Outcome(db[s], x) \/ Overwrites(s, x))
<1>1. s \in Sessions BY HoldersAreAgents
<1>2. PICK list \in tasks[t].held : \E messages \in Condensed(list) :
        /\ DOMAIN messages \subseteq Ids /\ InjectsOnce(messages)
        /\ x = ReplaceRows(db[s], messages)
  BY DEF Replacements
<1>3. PICK messages \in Condensed(list) :
        /\ DOMAIN messages \subseteq Ids /\ InjectsOnce(messages)
        /\ x = ReplaceRows(db[s], messages)
  BY <1>2
<1>4. PICK ms : ms = MessagesOf(list) OBVIOUS
<1>5. messages \in CondensedOf(ms) BY <1>3, <1>4, CondensedMessages
<1>6. CASE UpToDate(t, s)
  <2>1. tasks[t].held = Found(InOrder(db[s].rows)) BY <1>1, <1>6, AgentsAnswer DEF UpToDate
  <2>2. list = InOrder(db[s].rows) BY <2>1 DEF Found
  <2>3. DOMAIN db[s].rows \subseteq Ids
    BY <1>1, SessionsSound DEF Sound, InOrderly, IsSession
  <2>4. ms = Listed(db[s].rows) BY <1>4, <2>2, <2>3, InOrderLists
  <2>5. Outcome(db[s], x) BY <1>3, <1>5, <2>4 DEF Outcome
  <2> QED BY <1>1, <2>5
<1>7. CASE ~UpToDate(t, s)
  <2>1. s \in Overtaken BY <1>1, <1>7 DEF Overtaken
  <2>2. IsSeq(ms) /\ \A i \in DOMAIN ms : "kind" \in DOMAIN ms[i]
    <3>1. IsListing(list) BY DEF ListsInv, ListTask, Listing
    <3> QED BY <1>4, <3>1 DEF IsListing
  <2>3. "kind" \in DOMAIN ContextSummary BY DEF ContextSummary, Text
  <2>4. \A i \in DOMAIN messages : "kind" \in DOMAIN messages[i]
    BY <1>5, <2>2, <2>3, CondensedFacts
  <2>5. IsSession(db[s]) BY <1>1, SessionsSound DEF Sound, InOrderly
  <2>6. KindsHold(x) BY <1>3, <2>4, <2>5, ReplaceRowsKinds
  <2>7. InOrderly(x) BY <1>1, ReplacementsKeep
  <2> QED BY <1>1, <2>1, <2>6, <2>7 DEF Overwrites, Sound
<1> QED BY <1>6, <1>7

\* Every transaction, awaited or not, makes the session what it says.
LEMMA WritesMake ==
    /\ \A t, s, x, sweep : Write(t, s, x, sweep) => db' = [db EXCEPT ![s] = x]
    /\ \A t, s, x : WriteMessages(t, s, x) => db' = [db EXCEPT ![s] = x]
BY DEF Write, LateWrite, WriteMessages, Commit, LateCommit

\* Every step leaves the tables alone or is a transaction on one session.
LEMMA StepsWrite ==
    ASSUME TablesInv, KindsInv, ListsInv, [StoreNext]_storeVars
    PROVE  \/ db' = db
           \/ \E s \in Sessions : \E x : /\ Outcome(db[s], x) \/ Overwrites(s, x)
                                         /\ db' = [db EXCEPT ![s] = x]
<1> DEFINE Made == \E s \in Sessions : \E x : /\ Outcome(db[s], x) \/ Overwrites(s, x)
                                              /\ db' = [db EXCEPT ![s] = x]
<1>1. CASE UNCHANGED storeVars BY <1>1 DEF storeVars
<1>2. CASE CacheStep BY <1>2, CacheStepsTyped DEF TablesInv
<1>3. ASSUME NEW t \in Tasks, CreateSession(t) PROVE Made
  BY <1>3, WritesMake DEF CreateSession, Outcome
<1>4. ASSUME NEW t \in Tasks, RenameSession(t) PROVE Made
  BY <1>4, WritesMake DEF RenameSession, Outcome
<1>5. ASSUME NEW t \in Tasks, DeleteSession(t) PROVE Made
  <2>1. PICK s \in Sessions : \E sweep : Write(t, s, Dropped, sweep)
    BY <1>5 DEF DeleteSession
  <2>2. Outcome(db[s], Dropped) BY DEF Outcome
  <2> QED BY <2>1, <2>2, WritesMake
<1>6. ASSUME NEW t \in Tasks, AddMessageRow(t) PROVE Made
  BY <1>6, WritesMake DEF AddMessageRow, Outcome
<1>7. ASSUME NEW t \in Tasks, InjectSkillMessage(t) PROVE Made
  BY <1>7, WritesMake DEF InjectSkillMessage, Outcome
<1>8. ASSUME NEW t \in Tasks, RemoveSkill(t) PROVE Made
  BY <1>8, WritesMake DEF RemoveSkill, Outcome
<1>9. ASSUME NEW t \in Tasks, ReplaceAllMessages(t) \/ LateReplace(t) PROVE Made
  <2>1. PICK s : s = tasks[t].agent OBVIOUS
  <2>2. /\ tasks[t].step \in Holding /\ Live(db[s])
        /\ \E x \in Replacements(t, s) : db' = [db EXCEPT ![s] = x]
    BY <1>9, <2>1 DEF ReplaceAllMessages, LateReplace, Commit, LateCommit, Holding
  <2> QED BY <2>1, <2>2, ReplacementsMove
<1>10. ASSUME NEW t \in Tasks, CompactMessages(t) PROVE Made
  BY <1>10, WritesMake DEF CompactMessages, Outcome
<1>11. StoreNext => \/ CacheStep
                    \/ \E t \in Tasks :
                          \/ CreateSession(t) \/ RenameSession(t) \/ DeleteSession(t)
                          \/ AddMessageRow(t) \/ InjectSkillMessage(t) \/ RemoveSkill(t)
                          \/ ReplaceAllMessages(t) \/ LateReplace(t) \/ CompactMessages(t)
  BY DEF StoreNext, CacheStep
<1> QED BY <1>1, <1>2, <1>3, <1>4, <1>5, <1>6, <1>7, <1>8, <1>9, <1>10, <1>11

-----------------------------------------------------------------------------
(* The refinement *)

\* No transaction leaves a row whose kind is not its message's.
LEMMA KindsStep ==
    ASSUME TablesInv, KindsInv, ListsInv, [StoreNext]_storeVars
    PROVE  KindsInv'
<1>1. DOMAIN db = Sessions /\ \A s \in Sessions : Sound(db[s]) BY SessionsSound
<1>2. CASE db' = db BY <1>2 DEF KindsInv
<1>3. ASSUME NEW s \in Sessions, NEW x, db' = [db EXCEPT ![s] = x],
             Outcome(db[s], x) \/ Overwrites(s, x)
      PROVE  KindsInv'
  <2>1. KindsHold(x) BY <1>1, <1>3, OutcomesMove DEF Overwrites, Sound
  <2>2. \A r \in Sessions : db'[r] = x \/ db'[r] = db[r] BY <1>1, <1>3
  <2> QED BY <2>1, <2>2 DEF KindsInv
<1> QED BY <1>2, <1>3, StepsWrite

\* The server starts on tables in which the kinds hold.
LEMMA KindsInit == StoreInit => KindsInv
BY StoredAssumption DEF StoreInit, KindsInv

\* The tables that a server finds are a store that the port may start with.
LEMMA PortStarts == TablesInv /\ KindsInv => Port!PortInit
<1> SUFFICES ASSUME TablesInv, KindsInv PROVE Port!PortInit OBVIOUS
<1>1. \A s \in Sessions : Port!Bookkept(View(db[s])) BY SessionsSound, ViewBookkept
<1>2. \A s \in Sessions : Seen[s] = View(db[s]) BY SeenViews
<1>3. \A s \in Sessions : Port!Bookkept(Seen[s]) BY <1>1, <1>2
<1> QED BY <1>3 DEF Port!PortInit, Seen

\* A transaction is an operation of the port, or the agent sees nothing of it.
LEMMA PortSteps ==
    ASSUME TablesInv, KindsInv, ListsInv, [StoreNext]_storeVars
    PROVE  [Port!PortNext]_Seen
<1>1. DOMAIN db = Sessions /\ \A s \in Sessions : Sound(db[s]) BY SessionsSound
<1>2. CASE db' = db BY <1>2, SeenViews
<1>3. ASSUME NEW s \in Sessions, NEW x, db' = [db EXCEPT ![s] = x],
             Outcome(db[s], x) \/ Overwrites(s, x), Seen' # Seen
      PROVE  Port!PortNext
  <2>1. PICK c : c = View(db[s]) OBVIOUS
  <2>2. PICK d : d = View(x) OBVIOUS
  <2>3. Moves(c, d) \/ Overwrites(s, x) BY <1>1, <1>3, <2>1, <2>2, OutcomesMove
  <2>4. Seen[s] = c BY <2>1, SeenViews
  <2>5. Seen' = [Seen EXCEPT ![s] = d]
    <3>1. \A r \in Sessions : db'[r] = IF r = s THEN x ELSE db[r] BY <1>1, <1>3
    <3>2. \A r \in Sessions : View(db'[r]) = IF r = s THEN d ELSE View(db[r])
      BY <2>2, <3>1
    <3>3. DOMAIN Seen = Sessions /\ \A r \in Sessions : Seen[r] = View(db[r]) BY SeenViews
    <3>4. [Seen EXCEPT ![s] = d] = [r \in Sessions |-> IF r = s THEN d ELSE Seen[r]]
      BY <3>3
    <3> QED BY <3>2, <3>3, <3>4, SeenViews
  <2>6. Seen'[s] = d BY <2>5, SeenViews
  <2>7. d # c
    <3>1. DOMAIN Seen = Sessions BY SeenViews
    <3>2. Seen = [Seen EXCEPT ![s] = Seen[s]] BY <3>1, SeenViews
    <3> QED BY <1>3, <2>4, <2>5, <3>2
  <2>8. Port!Becomes(s, d) BY Zenon, <2>5 DEF Port!Becomes, Seen
  <2>9. Port!Written(s) = ToSet(d.messages)
    BY Zenon, <2>6, PortStores DEF Port!Written, Seen
  <2>10. ASSUME \E m \in ToSet(d.messages) : ~IsInjection(m) /\ d = AddMessage(c, m)
         PROVE  Port!AddTo(s)
    <3>1. PICK m \in ToSet(d.messages) : ~IsInjection(m) /\ d = AddMessage(c, m) BY <2>10
    <3>2. m \in Port!Written(s) /\ ~Port!IsInjection(m) BY <2>9, <3>1, PortMessages
    <3>3. d = Port!AddMessage(Seen[s], m) BY <2>4, <3>1, PortStores
    <3>4. Port!Becomes(s, Port!AddMessage(Seen[s], m)) BY Zenon, <2>8, <3>3
    <3> QED BY Zenon, <3>2, <3>4 DEF Port!AddTo, Seen
  <2>11. ASSUME Port!Bookkept(d) /\ d = ReplaceMessages(c, d.messages)
         PROVE  Port!ReplaceIn(s)
    <3>1. d = Port!ReplaceMessages(Seen[s], d.messages) BY <2>4, <2>11, PortStores
    <3>2. Port!ReplaceMessages(Seen[s], Seen'[s].messages) = d BY <2>6, <3>1
    <3>3. Port!Bookkept(Port!ReplaceMessages(Seen[s], Seen'[s].messages)) BY Zenon, <2>11, <3>2
    <3>4. Port!Becomes(s, Port!ReplaceMessages(Seen[s], Seen'[s].messages)) BY Zenon, <2>8, <3>2
    <3> QED BY Zenon, <3>3, <3>4 DEF Port!ReplaceIn, Seen
  <2>12. ASSUME \E k \in Skills : \E m \in ToSet(d.messages) :
                   Injects(m, k) /\ d = InjectSkill(c, k, m)
         PROVE  Port!InjectInto(s)
    <3>1. PICK k \in Skills : \E m \in ToSet(d.messages) :
                 Injects(m, k) /\ d = InjectSkill(c, k, m)
      BY <2>12
    <3>2. PICK m \in ToSet(d.messages) : Injects(m, k) /\ d = InjectSkill(c, k, m) BY <3>1
    <3>3. m \in Port!Written(s) /\ Port!Injects(m, k) BY <2>9, <3>2, PortMessages
    <3>4. d = Port!InjectSkill(Seen[s], k, m) BY <2>4, <3>2, PortStores
    <3>5. Port!Becomes(s, Port!InjectSkill(Seen[s], k, m)) BY Zenon, <2>8, <3>4
    <3> QED BY Zenon, <3>3, <3>5 DEF Port!InjectInto, Seen
  <2>13. ASSUME \E k \in Skills : d = RemoveSessionSkill(c, k)
         PROVE  Port!RemoveFrom(s)
    <3>1. PICK k \in Skills : d = RemoveSessionSkill(c, k) BY <2>13
    <3>2. d = Port!RemoveSessionSkill(Seen[s], k) BY <2>4, <3>1, PortRemoves
    <3>3. Port!Becomes(s, Port!RemoveSessionSkill(Seen[s], k)) BY Zenon, <2>8, <3>2
    <3> QED BY Zenon, <3>3 DEF Port!RemoveFrom, Seen
  <2>14. ASSUME d = EmptyStore
         PROVE  Port!Forget(s)
    <3>1. Port!Becomes(s, Port!EmptyStore) BY Zenon, <2>8, <2>14, PortMessages
    <3> QED BY Zenon, <3>1 DEF Port!Forget
  <2>15. ASSUME Overwrites(s, x)
         PROVE  Port!OverwriteIn(s)
    <3>1. s \in Overtaken /\ Port!Bookkept(d) BY <2>2, <2>15, ViewBookkept DEF Overwrites
    <3>2. Port!Bookkept(Seen'[s]) /\ Port!Becomes(s, Seen'[s]) BY Zenon, <2>6, <2>8, <3>1
    <3> QED BY Zenon, <3>1, <3>2 DEF Port!OverwriteIn, Seen
  <2>16. \/ Port!AddTo(s) \/ Port!ReplaceIn(s) \/ Port!OverwriteIn(s)
         \/ Port!InjectInto(s) \/ Port!RemoveFrom(s) \/ Port!Forget(s)
    BY <2>3, <2>7, <2>10, <2>11, <2>12, <2>13, <2>14, <2>15 DEF Moves
  <2>17. Seen'[s] # Seen[s] BY <2>4, <2>6, <2>7
  <2> QED BY Zenon, <2>16, <2>17 DEF Port!PortNext, Seen
<1> QED BY <1>2, <1>3, StepsWrite

\* Through the adapter, the tables are a conversation store: whatever the caches,
\* other tasks, cancelled callers and restarts do in between, each step of the
\* database is one operation of the port on one session, or hidden from the agent
\* (AgentStoreAdapter).
THEOREM AdapterImplementsPort == StoreSpec => ImplementsPort
<1> DEFINE Inv == TablesInv /\ KindsInv /\ ListsInv
<1>1. StoreInit => Inv BY TablesInit, KindsInit, ListsInit
<1>2. Inv /\ [StoreNext]_storeVars => Inv'
  BY TablesStep, KindsStep, ListsStep
<1>3. Inv => Port!PortInit BY PortStarts
<1>4. Inv /\ [StoreNext]_storeVars
          => [Port!PortNext]_([s \in Sessions |-> AgentView(s)])
  BY PortSteps DEF Seen
<1> QED BY <1>1, <1>2, <1>3, <1>4, PTL DEF StoreSpec, ImplementsPort, Port!PortSpec
=============================================================================
