------------------------- MODULE BrowserConversations -------------------------
(***************************************************************************)
(* The browser's conversations: the page (web/src/App.tsx) with its cache, *)
(* its queues of saves and the one message that it may be sending, over    *)
(* IndexedDB (web/src/storage/local.ts), the only place where              *)
(* conversations survive.                                                  *)
(*                                                                         *)
(* Page code runs to its next await; each step is one such piece. Opening  *)
(* the database and running a transaction follow the order of the calls;   *)
(* a transaction takes effect (Commit) before the page hears of it. After  *)
(* a click React runs the effects of a changed conversation at once; after *)
(* a change from page code some time later (Render), before the next click.*)
(* One tab is open.                                                        *)
(***************************************************************************)
EXTENDS Integers, SequencesExt

CONSTANTS
    Sessions, NoSession,
    Databases,       \* what the browser may have stored when the page is opened
    MaxText, Terse,  \* bound on the text deltas of a reply; requests answered without
    MaxSends,        \* bound on the messages sent
    MaxMishaps,      \* bound on failing transactions and reloads together
    MaxActs          \* bound on messages sent, other clicks and mishaps together

\* A conversation: its timeline, one entry for each exchange, and the runtime context
\* that the next request carries, one mark for each exchange that it contains: with
\* what the server made of it (whole), or only with the user's message.
Entries == [request : Int, text : Nat, state : {"pending", "done", "cut"}]
Marks == [request : Int, whole : BOOLEAN]
Conversations == [timeline : Seq(Entries), context : Seq(Marks)]

Nothing == {}

\* The timeline and the context speak of the same exchanges, each once and in order; an
\* exchange that is shown as done is one that the next request carries whole.
Matches(c) ==
    /\ Len(c.timeline) = Len(c.context)
    /\ \A n \in DOMAIN c.timeline :
          /\ c.context[n].request = c.timeline[n].request
          /\ c.timeline[n].state = "done" => c.context[n].whole
          /\ \A m \in 1..(n - 1) : c.timeline[m].request < c.timeline[n].request

\* The requests of a conversation are none but the first ones.
Upto(c, request) == \A n \in DOMAIN c.timeline : c.timeline[n].request <= request

\* A database holds for each session its title and its conversation: what pages before
\* this one, whose requests count up to 0, may have left.
ASSUME BrowserAssumption ==
    /\ NoSession \notin Sessions
    /\ \A d \in Databases :
          /\ DOMAIN d = Sessions
          /\ \A s \in Sessions :
                /\ DOMAIN d[s] = {"title", "held"}
                /\ \/ d[s].held = Nothing
                   \/ \E c \in d[s].held : /\ d[s].held = {c} /\ c \in Conversations
                                           /\ Matches(c) /\ Upto(c, 0)

VARIABLES
    disk,       \* IndexedDB: for each session its record's title, and what is held
                \* of the conversation (timeline and runtime are stored together)
    queue,      \* the operations on the database under way
    boot,       \* how far the page is in loading, and the titles that it listed
    list,       \* sessions: the titles in the sidebar
    active,     \* activeSessionId
    ref,        \* activeSessionRef: the conversation that React last rendered
    shown,      \* messages: the timeline on the screen
    loading,    \* loadingMessages
    cache,      \* cacheRef: for each session nothing, or its conversation
    saves,      \* savesRef: for each session the saves still to be done
    sender,     \* the call of sendMessage under way
    sent,       \* messages sent so far; a request is its number
    clicks,     \* clicks so far
    mishaps,    \* failed transactions and reloads so far
    past        \* what happened (ghost): see Opened

vars == <<disk, queue, boot, list, active, ref, shown, loading, cache, saves, sender,
          sent, clicks, mishaps, past>>

page == <<boot, list, active, ref, shown, loading, cache, saves, sender>>

NoTitle == "none"

\* One more of the acts that are bounded.
May == sent + clicks + mishaps < MaxActs

Conversation(timeline, context) == [timeline |-> timeline, context |-> context]
Empty == Conversation(<<>>, <<>>)

Entry(request) == [request |-> request, text |-> 0, state |-> "pending"]
Mark(request, whole) == [request |-> request, whole |-> whole]

\* A conversation of which nothing is held is empty.
Conversed(held) == IF held = Nothing THEN Empty ELSE CHOOSE c \in held : TRUE

\* The record of a session, and its conversation.
Absent == [title |-> NoTitle, held |-> Nothing]

Operation(kind, s) ==
    [kind |-> kind, session |-> s, result |-> "none", title |-> NoTitle, held |-> Nothing,
     titles |-> <<>>, alive |-> TRUE, streaming |-> FALSE]

Idle == [stage |-> "idle", session |-> NoSession, current |-> Empty, request |-> 0,
         rename |-> FALSE, got |-> "nothing"]

\* unread: sessions that once could not be loaded; failed: a transaction failed; early:
\* sessions that changed before the sidebar was filled; before: the requests sent
\* before the page was opened; deleted: sessions deleted, erased: those of them that
\* nothing was storing when the page heard of it, or was closed.
Opened(requests, unread, deleted, erased) ==
    [unread |-> unread, failed |-> FALSE, early |-> {}, before |-> requests,
     deleted |-> deleted, erased |-> erased]

\* The page as it opens. It begins by listing the sessions.
Open ==
    /\ queue' = <<Operation("list", NoSession)>>
    /\ boot' = [stage |-> "listing", titles |-> <<>>]
    /\ list' = [s \in Sessions |-> NoTitle]
    /\ active' = NoSession /\ ref' = NoSession
    /\ shown' = <<>> /\ loading' = FALSE
    /\ cache' = [s \in Sessions |-> Nothing]
    /\ saves' = [s \in Sessions |-> <<>>]
    /\ sender' = Idle
    /\ past' = Opened(sent, past.unread, past.deleted,
                      past.erased \cup {s \in past.deleted : disk[s] = Absent})

Init ==
    /\ disk \in Databases
    /\ queue = <<Operation("list", NoSession)>>
    /\ boot = [stage |-> "listing", titles |-> <<>>]
    /\ list = [s \in Sessions |-> NoTitle]
    /\ active = NoSession /\ ref = NoSession
    /\ shown = <<>> /\ loading = FALSE
    /\ cache = [s \in Sessions |-> Nothing]
    /\ saves = [s \in Sessions |-> <<>>]
    /\ sender = Idle
    /\ sent = 0 /\ clicks = 0 /\ mishaps = 0
    /\ past = Opened(0, {}, {}, {})

-----------------------------------------------------------------------------
(* IndexedDB *)

\* What the operation makes of its session: createSession, saveConversation,
\* renameSession, deleteSession; loadConversation changes nothing. A save of a session
\* without a record stores the conversation all the same.
After(op) ==
    LET x == disk[op.session]
    IN  CASE op.kind = "create" -> [x EXCEPT !.title = "new"]
          [] op.kind = "save" -> [x EXCEPT !.held = op.held]
          [] op.kind \in {"rename", "name"} ->
                 IF x.title = NoTitle THEN x ELSE [x EXCEPT !.title = op.title]
          [] op.kind = "delete" -> Absent
          [] op.kind = "load" -> x

Titles == [s \in Sessions |-> disk[s].title]

\* What the page gets to know of it: the title that the session now has, or none; what
\* is held of its conversation; the titles of all.
Done(op) ==
    IF op.kind = "list" THEN [op EXCEPT !.result = "ok", !.titles = Titles]
    ELSE [op EXCEPT !.result = "ok", !.title = After(op).title, !.held = After(op).held]

\* The next transaction is over.
Commit ==
    \E n \in DOMAIN queue :
        LET op == queue[n]
        IN  /\ op.result = "none" /\ \A m \in 1..(n - 1) : queue[m].result # "none"
            /\ \/ /\ queue' = [queue EXCEPT ![n] = Done(op)]
                  /\ disk' = IF op.kind = "list" THEN disk
                             ELSE [disk EXCEPT ![op.session] = After(op)]
                  /\ past' = IF op.kind = "delete"
                             THEN [past EXCEPT !.deleted = @ \cup {op.session}] ELSE past
                  /\ UNCHANGED mishaps
               \/ /\ May /\ mishaps < MaxMishaps /\ mishaps' = mishaps + 1
                  /\ queue' = [queue EXCEPT ![n].result = "failed"]
                  /\ past' = [past EXCEPT !.failed = TRUE]
                  /\ UNCHANGED disk
            /\ UNCHANGED <<page, sent, clicks>>

\* The page hears of its oldest operation.
Heard(kind, result) ==
    /\ queue # <<>> /\ Head(queue).kind = kind /\ Head(queue).result = result
    /\ UNCHANGED <<disk, sent, clicks, mishaps>>

Pops == queue' = Tail(queue)

\* The page is told of the title: updateSession. Without a record there is none.
Listed(s, title) == IF title = NoTitle THEN list ELSE [list EXCEPT ![s] = title]

\* The page heard of a change of s: before the sidebar is filled, or after.
Early(s) == IF boot.stage = "done" THEN past ELSE [past EXCEPT !.early = @ \cup {s}]

\* It heard that s is deleted: while something stores it, or not.
Erased(s) == IF sender.session = s \/ saves[s] # <<>> THEN Early(s)
             ELSE [Early(s) EXCEPT !.erased = @ \cup {s}]

-----------------------------------------------------------------------------
(* The effects of App: loading the page, and the conversation that is shown *)

Fill(result) ==
    /\ Heard("list", result)
    /\ boot' = IF result = "ok" THEN [stage |-> "waiting", titles |-> Head(queue).titles]
               ELSE [stage |-> "done", titles |-> <<>>]
    /\ Pops
    /\ UNCHANGED <<list, active, ref, shown, loading, cache, saves, sender, past>>

\* The skills and the configuration have arrived too: the sidebar is filled, and the
\* newest conversation is opened.
FillSidebar ==
    /\ boot.stage = "waiting"
    /\ boot' = [stage |-> "done", titles |-> <<>>]
    /\ list' = boot.titles
    /\ LET stored == {s \in Sessions : boot.titles[s] # NoTitle}
       IN  IF stored = {} THEN UNCHANGED active ELSE active' \in stored
    /\ UNCHANGED <<disk, queue, ref, shown, loading, cache, saves, sender, sent, clicks,
                   mishaps, past>>

\* The cleanup of the last effect: nobody waits for that load any more.
Abandoned == [n \in DOMAIN queue |-> IF queue[n].kind = "load"
                                     THEN [queue[n] EXCEPT !.alive = FALSE] ELSE queue[n]]

\* The effect of a change of activeSessionId to s.
Rendered(s) ==
    /\ ref' = s
    /\ \/ /\ s = NoSession
          /\ shown' = <<>>
          /\ queue' = Abandoned
          /\ UNCHANGED loading
       \/ /\ s # NoSession /\ cache[s] # Nothing
          /\ \E c \in cache[s] : shown' = c.timeline
          /\ queue' = Abandoned
          /\ UNCHANGED loading
       \/ /\ s # NoSession /\ cache[s] = Nothing
          /\ loading' = TRUE
          /\ queue' = Append(Abandoned, Operation("load", s))
          /\ UNCHANGED shown

Render ==
    /\ active # ref
    /\ Rendered(active)
    /\ UNCHANGED <<disk, boot, list, active, cache, saves, sender, sent, clicks, mishaps, past>>

Loaded ==
    LET op == Head(queue)
        c == Conversed(op.held)
    IN  /\ Heard("load", "ok")
        /\ IF op.alive
           THEN /\ cache' = [cache EXCEPT ![op.session] = {c}]
                /\ shown' = c.timeline
                /\ loading' = FALSE
           ELSE UNCHANGED <<cache, shown, loading>>
        /\ Pops
        /\ UNCHANGED <<boot, list, active, ref, saves, sender, past>>

LoadFails ==
    LET op == Head(queue)
    IN  /\ Heard("load", "failed")
        /\ IF op.alive THEN /\ loading' = FALSE
                            /\ past' = [past EXCEPT !.unread = @ \cup {op.session}]
           ELSE UNCHANGED <<loading, past>>
        /\ Pops
        /\ UNCHANGED <<boot, list, active, ref, shown, cache, saves, sender>>

-----------------------------------------------------------------------------
(* persistConversation: the saves of a session, one behind the other *)

SaveOf(s, c) == [Operation("save", s) EXCEPT !.held = {c}]

\* Mutant of Persist: while a save is under way there is no other.
PersistOnce(q, s, c) ==
    /\ cache' = [cache EXCEPT ![s] = {c}]
    /\ shown' = IF ref = s THEN c.timeline ELSE shown
    /\ saves' = IF saves[s] = <<>> THEN [saves EXCEPT ![s] = <<c>>] ELSE saves
    /\ queue' = IF saves[s] = <<>> THEN Append(q, SaveOf(s, c)) ELSE q

\* q: the operations under way, without those that are over.
Persist(q, s, c) ==
    /\ cache' = [cache EXCEPT ![s] = {c}]
    /\ shown' = IF ref = s THEN c.timeline ELSE shown
    /\ saves' = [saves EXCEPT ![s] = Append(@, c)]
    /\ queue' = IF saves[s] = <<>> THEN Append(q, SaveOf(s, c)) ELSE q

\* The next save follows whether or not this one failed.
Saved ==
    \E result \in {"ok", "failed"} :
        LET op == Head(queue)
            s == op.session
            rest == Tail(saves[s])
        IN  /\ Heard("save", result)
            /\ saves' = [saves EXCEPT ![s] = rest]
            /\ queue' = IF rest = <<>> THEN Tail(queue)
                        ELSE Append(Tail(queue), SaveOf(s, Head(rest)))
            /\ list' = IF result = "ok" THEN Listed(s, op.title) ELSE list
            /\ UNCHANGED <<boot, active, ref, shown, loading, cache, sender, past>>

-----------------------------------------------------------------------------
(* Clicks other than sending *)

Clicked == /\ active = ref /\ May /\ clicks' = clicks + 1
           /\ UNCHANGED <<disk, sent, mishaps>>

Streaming == sender.stage \in {"streaming", "stopping"}

\* stopCurrentStream, when the clicked button believes that there is a stream.
StopIf(streaming) ==
    sender' = IF streaming /\ sender.stage = "streaming"
              THEN [sender EXCEPT !.stage = "stopping"] ELSE sender

Stop == /\ Clicked /\ sender.stage = "streaming"
        /\ StopIf(TRUE)
        /\ UNCHANGED <<queue, boot, list, active, ref, shown, loading, cache, saves, past>>

\* beginNewConversation, selectSession. After a click the effects run at once.
Switch(s) ==
    /\ Clicked
    /\ s # ref \/ (s = NoSession /\ Streaming)
    /\ s # NoSession => list[s] # NoTitle
    /\ StopIf(Streaming)
    /\ active' = s
    /\ IF s = ref THEN UNCHANGED <<ref, shown, queue, loading>> ELSE Rendered(s)
    /\ UNCHANGED <<boot, list, cache, saves, past>>

Rename(s) ==
    /\ Clicked /\ list[s] # NoTitle
    /\ queue' = Append(queue, [Operation("rename", s) EXCEPT !.title = "given"])
    /\ UNCHANGED <<page, past>>

Renamed ==
    \E result \in {"ok", "failed"} :
        LET op == Head(queue)
        IN  /\ Heard("rename", result) /\ Pops
            /\ list' = IF result = "ok" THEN Listed(op.session, op.title) ELSE list
            /\ past' = Early(op.session)
            /\ UNCHANGED <<boot, active, ref, shown, loading, cache, saves, sender>>

Delete(s) ==
    /\ Clicked /\ list[s] # NoTitle
    /\ queue' = Append(queue, [Operation("delete", s) EXCEPT !.streaming = Streaming])
    /\ UNCHANGED <<page, past>>

\* Mutant of Deleted: the conversation stays open.
DeletedStaysOpen ==
    LET op == Head(queue)
        s == op.session
    IN  /\ Heard("delete", "ok") /\ Pops
        /\ cache' = [cache EXCEPT ![s] = Nothing]
        /\ list' = [list EXCEPT ![s] = NoTitle]
        /\ past' = Erased(s)
        /\ UNCHANGED <<boot, active, ref, shown, loading, saves, sender>>

\* Whether there was a stream is what was rendered when the user clicked.
Deleted ==
    LET op == Head(queue)
        s == op.session
    IN  /\ Heard("delete", "ok") /\ Pops
        /\ cache' = [cache EXCEPT ![s] = Nothing]
        /\ list' = [list EXCEPT ![s] = NoTitle]
        /\ IF s = ref THEN StopIf(op.streaming) /\ active' = NoSession
           ELSE UNCHANGED <<sender, active>>
        /\ past' = Erased(s)
        /\ UNCHANGED <<boot, ref, shown, loading, saves>>

DeleteFails == Heard("delete", "failed") /\ Pops /\ UNCHANGED <<page, past>>

-----------------------------------------------------------------------------
(* sendMessage *)

Current(s) == Conversed(cache[s])

\* The conversation that the message continues is looked up, and the provider's
\* configuration is asked for.
Prepare(s, conversation, rename) ==
    sender' = [Idle EXCEPT !.stage = "provider", !.session = s, !.current = conversation,
                           !.request = sent', !.rename = rename]

\* Mutant of MaySend: the conversation may still be loading.
MaySendEarly == sender = Idle /\ boot.stage # "listing"

\* The provider is known to be configured, a little after the sessions were listed.
MaySend == sender = Idle /\ ~loading /\ boot.stage # "listing"

\* The first message of a new conversation creates its session; its title is given by
\* the second, for the list that the handler knows does not contain it.
Send ==
    /\ active = ref /\ MaySend
    /\ May /\ sent < MaxSends /\ sent' = sent + 1
    /\ \/ /\ ref # NoSession
          /\ Prepare(ref, Current(ref), list[ref] = "new")
          /\ UNCHANGED queue
       \/ /\ ref = NoSession
          /\ \E s \in Sessions :
                /\ disk[s] = Absent /\ s \notin past.deleted /\ cache[s] = Nothing
                /\ \A n \in DOMAIN queue : queue[n].session # s
                /\ queue' = Append(queue, Operation("create", s))
                /\ sender' = [Idle EXCEPT !.stage = "creating", !.session = s]
    /\ UNCHANGED <<disk, boot, list, active, ref, shown, loading, cache, saves, clicks,
                   mishaps, past>>

Created ==
    LET s == Head(queue).session
    IN  /\ Heard("create", "ok") /\ Pops
        /\ cache' = [cache EXCEPT ![s] = {Empty}]
        /\ list' = Listed(s, Head(queue).title)
        /\ active' = s
        /\ Prepare(s, Empty, FALSE)
        /\ past' = Early(s)
        /\ UNCHANGED <<boot, ref, shown, loading, saves>>

CreateFails == /\ Heard("create", "failed") /\ Pops
               /\ sender' = Idle
               /\ UNCHANGED <<boot, list, active, ref, shown, loading, cache, saves, past>>

\* There is no configuration, or it cannot be decrypted.
NoProvider ==
    /\ sender.stage = "provider"
    /\ sender' = Idle
    /\ UNCHANGED <<disk, queue, boot, list, active, ref, shown, loading, cache, saves, sent,
                   clicks, mishaps, past>>

\* The message and an empty reply are shown and saved, and the stream is opened with
\* the context without them.
Optimistic ==
    LET c == sender.current
        s == sender.session
    IN  /\ sender.stage = "provider"
        /\ Persist(IF sender.rename
                   THEN Append(queue, [Operation("name", s) EXCEPT !.title = "derived"])
                   ELSE queue,
                   s, Conversation(Append(c.timeline, Entry(sender.request)),
                                   Append(c.context, Mark(sender.request, FALSE))))
        /\ sender' = [sender EXCEPT !.stage = IF sender.rename THEN "naming" ELSE "streaming"]
        /\ UNCHANGED <<disk, boot, list, active, loading, ref, sent, clicks, mishaps, past>>

Named ==
    /\ Heard("name", "ok") /\ Pops
    /\ list' = Listed(Head(queue).session, Head(queue).title)
    /\ past' = Early(Head(queue).session)
    /\ sender' = [sender EXCEPT !.stage = "streaming"]
    /\ UNCHANGED <<boot, active, ref, shown, loading, cache, saves>>

NamingFails == /\ Heard("name", "failed") /\ Pops
               /\ sender' = Idle
               /\ UNCHANGED <<boot, list, active, ref, shown, loading, cache, saves, past>>

-----------------------------------------------------------------------------
(* The stream: handleAgentEvent *)

Ours(e) == e.request = sender.request

\* updateAssistant: nothing happens to a conversation that is not cached.
Update(Change(_)) ==
    IF cache[sender.session] = Nothing THEN UNCHANGED <<queue, cache, shown, saves>>
    ELSE LET c == Current(sender.session)
         IN  Persist(queue, sender.session, Change(c))

InReply(c, Change(_)) ==
    [c EXCEPT !.timeline = [n \in DOMAIN @ |-> IF Ours(@[n]) THEN Change(@[n]) ELSE @[n]]]

Streams(stage) ==
    /\ sender.stage = stage
    /\ UNCHANGED <<disk, boot, list, active, ref, loading, sent, clicks, mishaps, past>>

\* The run goes on: an error is its last event but the snapshot and done (AgentLoop).
\* Where the reply is no longer in the conversation, an event of it would only save the
\* conversation as it is, any number of times: this is left out.
Generating ==
    /\ Streams("streaming") /\ sender.got = "nothing"
    /\ \E e \in ToSet(Current(sender.session).timeline) : Ours(e) /\ e.state = "pending"

TextDelta ==
    /\ Generating /\ sender.request \notin Terse
    /\ \A e \in ToSet(Current(sender.session).timeline) : Ours(e) => e.text < MaxText
    /\ Update(LAMBDA c : InReply(c, LAMBDA e : [e EXCEPT !.text = @ + 1]))
    /\ UNCHANGED sender

Settle(state) == Update(LAMBDA c : InReply(c, LAMBDA e : [e EXCEPT !.state = state]))

ErrorEvent == Generating /\ Settle("cut") /\ UNCHANGED sender

Gets(what) == sender' = [sender EXCEPT !.got = what]

\* conversation_state: what was sent, with this exchange.
Snapshot == Append(sender.current.context, Mark(sender.request, TRUE))

\* Mutant of StateEvent: the snapshot is stored with the conversation that was sent.
StateEventStale ==
    /\ Streams("streaming") /\ sender.got = "nothing" /\ Gets("snapshot")
    /\ Update(LAMBDA c : Conversation(sender.current.timeline, Snapshot))

StateEvent ==
    /\ Streams("streaming") /\ sender.got = "nothing" /\ Gets("snapshot")
    /\ Update(LAMBDA c : [c EXCEPT !.context = Snapshot])

\* done follows the snapshot (ChatRuns!StateBeforeDone).
DoneEvent == /\ Streams("streaming") /\ sender.got = "snapshot" /\ Gets("done")
             /\ Settle("done")

\* The stream ends, with done or without; or it fails, or was stopped.
StreamEnds ==
    /\ \/ /\ Streams("streaming") /\ sender.got = "done"
          /\ UNCHANGED <<queue, cache, shown, saves>>
       \/ (Streams("streaming") \/ Streams("stopping")) /\ Settle("cut")
    /\ sender' = Idle

-----------------------------------------------------------------------------
\* The page is closed, or reloaded: what was committed stays.
Reload ==
    /\ May /\ mishaps < MaxMishaps /\ mishaps' = mishaps + 1
    /\ Open
    /\ UNCHANGED <<disk, sent, clicks>>

Next ==
    \/ Commit \/ Fill("ok") \/ Fill("failed") \/ FillSidebar \/ Render
    \/ Loaded \/ LoadFails \/ Saved \/ Renamed \/ Deleted \/ DeleteFails
    \/ Stop \/ \E s \in Sessions \cup {NoSession} : Switch(s)
    \/ \E s \in Sessions : Rename(s) \/ Delete(s)
    \/ Send \/ Created \/ CreateFails \/ NoProvider \/ Optimistic \/ Named \/ NamingFails
    \/ TextDelta \/ ErrorEvent \/ StateEvent \/ DoneEvent \/ StreamEnds
    \/ Reload

Spec == Init /\ [][Next]_vars

-----------------------------------------------------------------------------
(* Properties *)

\* The copies of the session's conversation; a save that waits is a copy of what was
\* cached.
Copies(s) == cache[s] \cup disk[s].held
             \cup (IF sender.session = s THEN {sender.current} ELSE {})

Requests(c) == [n \in DOMAIN c.timeline |-> c.timeline[n].request]

\* The timeline and the runtime context speak of the same exchanges, each once and in
\* order, and an exchange that is shown as done is one that the next request carries
\* whole: in the cache, in the database whenever the page is closed, and in what a
\* request is sent with. A conversation that once could not be loaded is left out: what
\* is sent in it begins from nothing, and a second load may bring the old one back.
ContextsMatch == \A s \in Sessions \ past.unread : \A c \in Copies(s) : Matches(c)

Quiet == queue = <<>> /\ sender = Idle /\ active = ref

\* When nothing is under way and no transaction failed since the page was opened: the
\* database holds what the page does of every conversation, in which nothing that this
\* page sent is still pending; the screen shows the open conversation; the sidebar
\* names what is stored, except for what changed while it was filled.
StoredIsShown ==
    Quiet /\ ~past.failed =>
        /\ \A s \in Sessions : cache[s] # Nothing =>
              /\ Conversed(disk[s].held) = Current(s)
              /\ \A e \in ToSet(Current(s).timeline) :
                    e.state = "pending" => e.request <= past.before
        /\ active = NoSession => shown = <<>>
        /\ active # NoSession /\ ~loading =>
              cache[active] # Nothing /\ shown = Current(active).timeline
        /\ boot.stage = "done" =>
              \A s \in Sessions \ past.early : list[s] = disk[s].title

\* A save never takes an exchange away, nor the text of its reply, unless the
\* conversation could not be loaded before.
HistoryKept ==
    [][\A s \in Sessions : \A old \in disk[s].held, new \in disk'[s].held :
          \/ old = new \/ s \in past.unread
          \/ /\ IsPrefix(Requests(old), Requests(new))
             /\ \A n \in DOMAIN old.timeline :
                   /\ old.timeline[n].text <= new.timeline[n].text
                   /\ old.context[n].whole => new.context[n].whole]_vars

\* A conversation that is deleted while nothing stores it is gone for good, also when
\* the page is opened again.
DeletedStaysGone ==
    \A s \in past.erased : disk[s] = Absent /\ s # sender.session /\ saves[s] = <<>>
=============================================================================
