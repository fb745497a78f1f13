------------------------------ MODULE LegacyRows ------------------------------
(***************************************************************************)
(* The tables of the session store (server/storage/sqlite.py): the rows of *)
(* a session, what each transaction does to them, and the answers that are *)
(* cached (server/storage/cache.py), by key.                               *)
(*                                                                         *)
(* Times are left out: updated_at, and the order it gives the session list.*)
(* A message's id is its sequence number, which no other row of the        *)
(* session has and which it keeps until it is deleted.                     *)
(***************************************************************************)
EXTENDS Conversation

CONSTANTS
    Sessions, Workspaces,
    AnyWorkspace,    \* the "*" of a key: read without a workspace
    MaxRows,         \* bound on sequence numbers
    Windows          \* the pages of a message list: [limit, before], 0 for none

ASSUME RowsAssumption == MaxRows \in Nat /\ AnyWorkspace \notin Workspaces

\* What a read finds, or a cache holds: nothing (None), or one value.
Nothing == {}
Found(value) == {value}

-----------------------------------------------------------------------------
(* Rows *)

Ids == 1..MaxRows
NoLink == 0

NoRows == <<>>
NoLinks == [k \in Skills |-> NoLink]

\* A session: rows by id, and for each active skill the id of its message.
Session(status, workspace, title) ==
    [status |-> status, workspace |-> workspace, title |-> title,
     rows |-> NoRows, links |-> NoLinks]

Unborn == Session("unborn", AnyWorkspace, Nothing)
Born(w, title) == Session("live", w, title)
Dropped == Session("deleted", AnyWorkspace, Nothing)

\* _kind_for
KindFor(m) == IF IsInjection(m) THEN "skill"
              ELSE IF m.kind = "context_summary" THEN "summary"
              ELSE IF m.role = "tool" THEN "tool_result"
              ELSE IF m.calls # <<>> THEN "tool_call" ELSE "message"

RowOf(m) == [kind |-> KindFor(m), message |-> m]

\* MAX(sequence) + 1
NextId(rows) == IF DOMAIN rows = {} THEN 1 ELSE Max(DOMAIN rows) + 1

\* The rows without those of the ids given.
Without(rows, ids) == [i \in DOMAIN rows \ ids |-> rows[i]]

\* The rows with one more, or another one at that id.
With(rows, id, row) == [i \in DOMAIN rows \cup {id} |-> IF i = id THEN row ELSE rows[i]]

\* ORDER BY sequence
InOrder(rows) ==
    LET at == Ascending(DOMAIN rows, MaxRows)
    IN  [n \in 1..Len(at) |-> [id |-> at[n], row |-> rows[at[n]]]]

-----------------------------------------------------------------------------
(* The transactions, on one session *)

Live(x) == x.status = "live"

\* The session is there, and in the caller's workspace when it names one.
Visible(x, w) == Live(x) /\ w \in {AnyWorkspace, x.workspace}

AddRow(x, m) == [x EXCEPT !.rows = With(@, NextId(@), RowOf(m))]

\* Mutant of ReplaceRows: enumerate starts at 0.
ReplaceRowsFromZero(x, messages) ==
    LET rows == [i \in 0..(Len(messages) - 1) |-> RowOf(messages[i + 1])]
        Of(k) == {i \in DOMAIN rows : rows[i].kind = "skill" /\ rows[i].message.skill = k}
    IN  [x EXCEPT !.rows = rows,
                  !.links = [k \in Skills |-> IF Of(k) = {} THEN NoLink ELSE Min(Of(k))]]

\* replace_all_messages: the links are rebuilt from the rows, the first wins.
ReplaceRows(x, messages) ==
    LET rows == [i \in DOMAIN messages |-> RowOf(messages[i])]
        Of(k) == {i \in DOMAIN rows : rows[i].kind = "skill" /\ messages[i].skill = k}
    IN  [x EXCEPT !.rows = rows,
                  !.links = [k \in Skills |-> IF Of(k) = {} THEN NoLink ELSE Min(Of(k))]]

InjectRow(x, k, m) ==
    IF x.links[k] # NoLink THEN x
    ELSE [AddRow(x, m) EXCEPT !.links[k] = NextId(x.rows)]

\* What replied to a tool call stays, redacted.
RedactedRow(row) == [kind |-> "skill_removed", message |-> Redacted(row.message)]

\* Mutant of RemoveRow: a tool's reply is deleted like any other message.
RemoveReply(x, k) ==
    IF x.links[k] = NoLink THEN x
    ELSE [x EXCEPT !.links[k] = NoLink, !.rows = Without(@, {x.links[k]})]

RemoveRow(x, k) ==
    LET id == x.links[k]
    IN  IF id = NoLink THEN x
        ELSE [x EXCEPT !.links[k] = NoLink,
                       !.rows = IF @[id].message.role = "tool"
                                THEN With(@, id, RedactedRow(@[id]))
                                ELSE Without(@, {id})]

\* The record that compact_messages writes: its metadata names no kind.
SummaryRow == [kind |-> "summary", message |-> Text("system", "none", 1)]

\* The summary takes the place of the first row that it replaces.
Compacted(x, selected) ==
    IF selected = {} THEN x
    ELSE [x EXCEPT !.rows = With(Without(@, selected), Min(selected), SummaryRow)]

\* Mutant of CompactRows: the messages of skills are compacted too.
CompactEverything(x, ids) == Compacted(x, ids \cap DOMAIN x.rows)

CompactRows(x, ids) ==
    Compacted(x, {i \in ids \cap DOMAIN x.rows : x.rows[i].kind # "skill"})

-----------------------------------------------------------------------------
(* Cache keys and the answers they stand for *)

SessionKey(w, s) == <<"session", w, s>>
ListKey(w) == <<"sessions", w>>
MessagesKey(s, w, window) == <<"messages", s, w, window>>

Scopes == Workspaces \cup {AnyWorkspace}
SessionKeys == {SessionKey(w, s) : w \in Scopes, s \in Sessions}
MessagesKeys(s) == {MessagesKey(s, w, window) : w \in Scopes, window \in Windows}
Keys == SessionKeys \cup {ListKey(w) : w \in Workspaces}
            \cup UNION {MessagesKeys(s) : s \in Sessions}

SessionDict(d, s) == [id |-> s, title |-> d[s].title, count |-> Cardinality(DOMAIN d[s].rows)]

SessionAnswer(d, w, s) == IF Visible(d[s], w) THEN Found(SessionDict(d, s)) ELSE Nothing

ListAnswer(d, w) == Found({SessionDict(d, s) : s \in {x \in Sessions : Visible(d[x], w)}})

\* The newest `limit` rows below `before`, oldest first.
Page(rows, window) ==
    LET below == {i \in DOMAIN rows : window.before = 0 \/ i < window.before}
        list == InOrder([i \in below |-> rows[i]])
        skip == IF window.limit = 0 \/ Len(list) <= window.limit THEN 0
                ELSE Len(list) - window.limit
    IN  SubSeq(list, skip + 1, Len(list))

MessagesAnswer(d, s, w, window) ==
    IF Visible(d[s], w) THEN Found(Page(d[s].rows, window)) ELSE Nothing

Answer(d, key) == CASE key[1] = "session"  -> SessionAnswer(d, key[2], key[3])
                    [] key[1] = "sessions" -> ListAnswer(d, key[2])
                    [] key[1] = "messages" -> MessagesAnswer(d, key[2], key[3], key[4])

\* _invalidate_session, _invalidate_after_message: prefixes, in the order deleted.
AfterSession(w) == <<SessionKeys, {ListKey(w)}>>

\* Mutant of AfterMessage: the sessions' message counts are forgotten.
AfterMessageOnly(w, s) == <<MessagesKeys(s)>>

AfterMessage(w, s) == <<MessagesKeys(s), SessionKeys, {ListKey(w)}>>

AfterDeletion(w, s) == <<SessionKeys, {ListKey(w)}, MessagesKeys(s)>>
=============================================================================
