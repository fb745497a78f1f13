------------------------------ MODULE LegacyStore ------------------------------
(***************************************************************************)
(* The session store that main.py no longer wires but server.storage still *)
(* offers: SQLiteStore (server/storage/sqlite.py) behind the two-tier      *)
(* SideCache (server/storage/cache.py), and the adapter that makes it a    *)
(* ConversationStore for the agent (storage/agent_adapter.py).             *)
(*                                                                         *)
(* A write is one transaction under _write_lock, so one step; what it      *)
(* invalidates in the cache comes after, one await at a time. A read asks  *)
(* Redis, then the process's own cache, then the database, and stores what *)
(* it got; it takes no lock. Each of these is a step. Without Redis no     *)
(* cache operation suspends. A call that changes nothing (an unknown       *)
(* session, a skill injected already, a browser's hit in the process's own *)
(* cache) is a stuttering step.                                            *)
(*                                                                         *)
(* A caller can be cancelled at each of its awaits. A read stops there. A  *)
(* write's thread goes on: _write (sqlite.py) gives the lock back, the     *)
(* thread commits later, and nobody invalidates. A deletion under way      *)
(* leaves what it has not come to. A Redis command of a cancelled caller   *)
(* takes effect at its step or not at all.                                 *)
(***************************************************************************)
EXTENDS LegacyRows

CONSTANTS
    Titles, Tasks,
    Messages,        \* what add_message is called with
    Injections,      \* what inject_skill is called with
    ReadKeys,        \* what the callers read
    Stored,          \* the databases a server may find when it starts
    NoSession,       \* a task that does no work of an agent
    NoKey,           \* a task that reads nothing
    MaxOps,          \* bound on the operations of a run
    MaxMishaps       \* bound on failing Redis calls, cancelled writes and restarts

\* What AgentStoreAdapter.list_messages reads: no workspace, no page.
AgentKey(s) == MessagesKey(s, AnyWorkspace, [limit |-> 0, before |-> 0])

ASSUME LegacyAssumption ==
    /\ ReadKeys \subseteq Keys /\ \A s \in Sessions : AgentKey(s) \in Keys \ ReadKeys
    /\ NoSession \notin Sessions /\ NoKey \notin Keys
    /\ \A m \in Messages \cup Injections : IsMessage(m)
    /\ \A m \in Messages : ~IsInjection(m)
    /\ \A m \in Injections : IsInjection(m) /\ m.skill \in Skills
    /\ MaxOps \in Nat /\ MaxMishaps \in Nat

VARIABLES
    workspaces,   \* table workspaces
    db,           \* tables sessions, messages and session_skills, by session
    redis,        \* a Redis server is configured
    primary,      \* SideCache.primary: what Redis holds
    fallback,     \* SideCache.fallback: what the process's own cache holds
    tasks,        \* the store operations in progress
    served,       \* operations started so far
    faults,       \* failed Redis calls and cancelled writes so far
    restarts,     \* restarts so far
    suspect       \* keys that a race or a mishap may have made stale (ghost)

storeVars == <<workspaces, db, redis, primary, fallback, tasks, served, faults,
               restarts, suspect>>

NoEntries == [key \in Keys |-> Nothing]

Idle == [step |-> "idle", key |-> NoKey, held |-> Nothing, sweep |-> <<>>,
         changed |-> {}, agent |-> NoSession]

\* A read of key, with the answer that it holds; an agent holds its answer longer.
Reader(step, key, held, agent) ==
    [step |-> step, key |-> key, held |-> held, sweep |-> <<>>, changed |-> {},
     agent |-> agent]

\* A write, with the prefixes it has to delete.
Writer(sweep, changed, agent) ==
    [step |-> "sweep", key |-> NoKey, held |-> Nothing, sweep |-> sweep,
     changed |-> changed, agent |-> agent]

StoreInit ==
    /\ db \in Stored
    /\ workspaces = {db[s].workspace : s \in {x \in Sessions : Live(db[x])}}
    /\ redis \in BOOLEAN
    /\ primary = NoEntries /\ fallback = NoEntries
    /\ tasks = [t \in Tasks |-> Idle]
    /\ served = 0 /\ faults = 0 /\ restarts = 0
    /\ suspect = {}

\* The answers changed by writes that still invalidate.
Unswept == UNION {tasks[t].changed : t \in Tasks}

Emptied(cache, keys) == [key \in Keys |-> IF key \in keys THEN Nothing ELSE cache[key]]

Mishap == faults + restarts < MaxMishaps /\ faults' = faults + 1

\* The call to Redis raises: SideCache logs it once and goes on.
RedisFails == Mishap
RedisAnswers == UNCHANGED faults

Served == served < MaxOps /\ served' = served + 1

Goes(t, task) == tasks' = [tasks EXCEPT ![t] = task]
Ends(t) == Goes(t, Idle)

\* The read returns. An agent that got its session's messages works with them.
Returns(t, answer, agent) ==
    IF agent = NoSession \/ answer = Nothing THEN Ends(t)
    ELSE Goes(t, Reader("listed", NoKey, answer, agent))

-----------------------------------------------------------------------------
(* Reading through the cache *)

\* SideCache.get: the answer of Redis, or none.
AskRedis(t, key, agent) ==
    /\ redis /\ tasks[t] = Idle /\ Served
    /\ \/ RedisAnswers /\ Goes(t, Reader("answered", key, primary[key], agent))
       \/ RedisFails /\ Goes(t, Reader("answered", key, Nothing, agent))
    /\ suspect' = suspect \cup ({key} \cap Unswept)
    /\ UNCHANGED <<workspaces, db, redis, primary, fallback, restarts>>

\* The process's own cache answers, or the database is asked.
AskOwn(t, key, agent) ==
    IF fallback[key] # Nothing THEN Returns(t, fallback[key], agent)
    ELSE Goes(t, Reader("query", key, Nothing, agent))

\* Without Redis; a browser's hit is a stuttering step.
LookUp(t, key, agent) ==
    /\ ~redis /\ tasks[t] = Idle /\ Served
    /\ fallback[key] # Nothing => agent # NoSession
    /\ AskOwn(t, key, agent)
    /\ UNCHANGED <<workspaces, db, redis, primary, fallback, faults, restarts, suspect>>

Read(t, key, agent) == AskRedis(t, key, agent) \/ LookUp(t, key, agent)

\* Redis's answer arrives: it is kept, or the process's own cache is asked.
TakeAnswer(t) ==
    LET key == tasks[t].key
    IN  /\ tasks[t].step = "answered"
        /\ \/ /\ tasks[t].held # Nothing
              /\ fallback' = [fallback EXCEPT ![key] = tasks[t].held]
              /\ Returns(t, tasks[t].held, tasks[t].agent)
           \/ /\ tasks[t].held = Nothing
              /\ AskOwn(t, key, tasks[t].agent)
              /\ UNCHANGED fallback
        /\ UNCHANGED <<workspaces, db, redis, primary, served, faults, restarts, suspect>>

\* A missing session is not cached.
Hold(t, answer) ==
    IF answer = Nothing THEN Ends(t)
    ELSE Goes(t, Reader("filling", tasks[t].key, answer, tasks[t].agent))

\* get_session and list_sessions are one SELECT; list_messages is two, and no
\* transaction holds them together.
Query(t) ==
    LET key == tasks[t].key
    IN  /\ tasks[t].step = "query"
        /\ IF key[1] = "messages" /\ Visible(db[key[2]], key[3])
           THEN Goes(t, [tasks[t] EXCEPT !.step = "rows"])
           ELSE Hold(t, Answer(db, key))
        /\ UNCHANGED <<workspaces, db, redis, primary, fallback, served, faults,
                       restarts, suspect>>

QueryRows(t) ==
    LET key == tasks[t].key
    IN  /\ tasks[t].step = "rows"
        /\ Hold(t, Found(Page(db[key[2]].rows, key[4])))
        /\ UNCHANGED <<workspaces, db, redis, primary, fallback, served, faults,
                       restarts, suspect>>

\* SideCache.set: the process's own cache first, then Redis.
Fill(t) ==
    /\ tasks[t].step = "filling"
    /\ fallback' = [fallback EXCEPT ![tasks[t].key] = tasks[t].held]
    /\ IF redis THEN Goes(t, [tasks[t] EXCEPT !.step = "storing"])
       ELSE Returns(t, tasks[t].held, tasks[t].agent)
    /\ UNCHANGED <<workspaces, db, redis, primary, served, faults, restarts, suspect>>

FillRedis(t) ==
    /\ tasks[t].step = "storing"
    /\ \/ RedisAnswers /\ primary' = [primary EXCEPT ![tasks[t].key] = tasks[t].held]
       \/ RedisFails /\ UNCHANGED primary
    /\ Returns(t, tasks[t].held, tasks[t].agent)
    /\ UNCHANGED <<workspaces, db, redis, fallback, served, restarts, suspect>>

\* The caller is cancelled: what it read is not stored.
CancelRead(t) ==
    /\ tasks[t].step \in {"answered", "query", "rows", "filling", "storing"}
    /\ Ends(t)
    /\ UNCHANGED <<workspaces, db, redis, primary, fallback, served, faults, restarts,
                   suspect>>

\* An entry outlives its time to live, or makes room for another.
Expire ==
    /\ \E key \in Keys : \/ /\ fallback[key] # Nothing
                            /\ fallback' = Emptied(fallback, {key})
                            /\ UNCHANGED primary
                         \/ /\ primary[key] # Nothing
                            /\ primary' = Emptied(primary, {key})
                            /\ UNCHANGED fallback
    /\ UNCHANGED <<workspaces, db, redis, tasks, served, faults, restarts, suspect>>

-----------------------------------------------------------------------------
(* Writing, then invalidating *)

\* The answers that a cache, or a read in progress, may still hold when the
\* transaction makes x of session s.
Changed(s, x) ==
    {key \in Keys : Answer(db, key) \notin {Nothing, Answer([db EXCEPT ![s] = x], key)}}

\* The transaction; sweep lists the prefixes to delete.
Commit(t, s, x, sweep, agent) ==
    /\ db' = [db EXCEPT ![s] = x]
    /\ Goes(t, Writer(sweep, Changed(s, x), agent))
    /\ suspect' = suspect \cup {key \in Changed(s, x) : \E r \in Tasks : tasks[r].key = key}
    /\ UNCHANGED <<redis, primary, fallback, faults, restarts>>

Starts(t) == tasks[t] = Idle /\ Served

\* The thread of a caller that was cancelled commits: nothing is deleted.
LateCommit(s, x) ==
    /\ db' = [db EXCEPT ![s] = x]
    /\ suspect' = suspect \cup Changed(s, x)
    /\ UNCHANGED <<redis, primary, fallback, restarts>>

LateWrite(t, s, x) == Starts(t) /\ Mishap /\ LateCommit(s, x) /\ UNCHANGED tasks

Write(t, s, x, sweep) ==
    (Starts(t) /\ Commit(t, s, x, sweep, NoSession)) \/ LateWrite(t, s, x)

\* SideCache.delete_prefix: the process's own cache; without Redis nothing
\* suspends, and the remaining prefixes go in the same step.
Sweep(t) ==
    LET sweep == tasks[t].sweep
    IN  /\ tasks[t].step = "sweep"
        /\ fallback' = Emptied(fallback, IF redis THEN Head(sweep) ELSE UNION ToSet(sweep))
        /\ IF redis THEN Goes(t, [tasks[t] EXCEPT !.step = "sweeping"]) ELSE Ends(t)
        /\ UNCHANGED <<workspaces, db, redis, primary, served, faults, restarts, suspect>>

\* RedisJSONCache.delete_prefix scans and deletes in batches: a failure may come
\* after some of them.
SweepRedis(t) ==
    LET prefix == Head(tasks[t].sweep)
        rest == Tail(tasks[t].sweep)
        present == {key \in prefix : primary[key] # Nothing}
    IN  /\ tasks[t].step = "sweeping"
        /\ \/ /\ RedisAnswers
              /\ primary' = Emptied(primary, prefix)
              /\ UNCHANGED suspect
           \/ /\ RedisFails
              /\ \E gone \in SUBSET present :
                    /\ primary' = Emptied(primary, gone)
                    /\ suspect' = suspect \cup (present \ gone)
        /\ IF rest = <<>> THEN Ends(t)
           ELSE Goes(t, Writer(rest, tasks[t].changed, tasks[t].agent))
        /\ UNCHANGED <<workspaces, db, redis, fallback, served, restarts>>

\* The caller is cancelled with prefixes left to delete.
CancelSweep(t) ==
    /\ tasks[t].step \in {"sweep", "sweeping"}
    /\ Mishap /\ Ends(t)
    /\ suspect' = suspect \cup tasks[t].changed
    /\ UNCHANGED <<workspaces, db, redis, primary, fallback, served, restarts>>

\* The server stops and starts again: what Redis holds and the database stay.
Restart ==
    /\ faults + restarts < MaxMishaps
    /\ restarts' = restarts + 1
    /\ tasks' = [t \in Tasks |-> Idle]
    /\ fallback' = NoEntries
    /\ suspect' = suspect \cup Unswept
    /\ UNCHANGED <<workspaces, db, redis, primary, served, faults>>

-----------------------------------------------------------------------------
(* The sessions, as their owners' browsers see them *)

EnsureWorkspace(w) ==
    /\ Served /\ w \notin workspaces
    /\ workspaces' = workspaces \cup {w}
    /\ UNCHANGED <<db, redis, primary, fallback, tasks, faults, restarts, suspect>>

CreateSession(t) ==
    \E w \in Workspaces, s \in Sessions, title \in Titles :
        /\ db[s].status = "unborn"
        /\ Write(t, s, Born(w, title), <<{ListKey(w)}>>)
        /\ workspaces' = workspaces \cup {w}

RenameSession(t) ==
    \E w \in Scopes, s \in Sessions, title \in Titles :
        /\ Visible(db[s], w)
        /\ Write(t, s, [db[s] EXCEPT !.title = title], AfterSession(db[s].workspace))
        /\ UNCHANGED workspaces

DeleteSession(t) ==
    \E w \in Scopes, s \in Sessions :
        /\ Visible(db[s], w)
        /\ Write(t, s, Dropped, AfterDeletion(db[s].workspace, s))
        /\ UNCHANGED workspaces

ReadForBrowser(t) == \E key \in ReadKeys : Read(t, key, NoSession)

-----------------------------------------------------------------------------
(* The agent's adapter: one agent at a time works on a session *)

\* Of an agent that was cancelled, a thread may remain.
AgentFree(s) == \A t \in Tasks : tasks[t].agent = s => tasks[t].step = "abandoned"

HasRoom(x) == NextId(x.rows) \in Ids

WriteMessages(t, s, x) ==
    /\ \/ /\ Starts(t) /\ AgentFree(s)
          /\ Commit(t, s, x, AfterMessage(db[s].workspace, s), s)
       \/ LateWrite(t, s, x)
    /\ UNCHANGED workspaces

ListMessages(t) == \E s \in Sessions : AgentFree(s) /\ Read(t, AgentKey(s), s)

AddMessageRow(t) ==
    \E s \in Sessions, m \in Messages :
        Live(db[s]) /\ HasRoom(db[s]) /\ WriteMessages(t, s, AddRow(db[s], m))

InjectSkillMessage(t) ==
    \E s \in Sessions, m \in Injections :
        /\ Live(db[s]) /\ HasRoom(db[s])
        /\ db[s].links[m.skill] = NoLink
        /\ WriteMessages(t, s, InjectRow(db[s], m.skill, m))

RemoveSkill(t) ==
    \E s \in Sessions, k \in Skills :
        /\ Live(db[s]) /\ db[s].links[k] # NoLink
        /\ WriteMessages(t, s, RemoveRow(db[s], k))

ContextSummary == Text("user", "context_summary", 1)

\* What the context manager makes of a list of messages (ContextWindow): the
\* skills, a summary, and some of the rest.
Condensed(list) ==
    LET messages == [i \in DOMAIN list |-> list[i].row.message]
        skills == {i \in DOMAIN messages : IsInjection(messages[i])}
    IN  {Pick(messages, skills) \o <<ContextSummary>> \o Pick(messages, kept) :
            kept \in SUBSET (DOMAIN messages \ skills)}

\* A skill is injected once (AgentLoop.SkillBookkeeping).
InjectsOnce(messages) ==
    \A i \in DOMAIN messages : IsInjection(messages[i]) =>
        /\ messages[i].skill \in Skills
        /\ \A j \in DOMAIN messages : Injects(messages[j], messages[i].skill) => j = i

\* What replace_messages may make of session s with the list that a task holds.
Replacements(t, s) ==
    {ReplaceRows(db[s], messages) :
        messages \in {m \in UNION {Condensed(list) : list \in tasks[t].held} :
                         DOMAIN m \subseteq Ids /\ InjectsOnce(m)}}

\* prepare_context: what was listed is condensed and put in place of the rows.
ReplaceAllMessages(t) ==
    LET s == tasks[t].agent
    IN  /\ tasks[t].step = "listed" /\ Live(db[s])
        /\ \E x \in Replacements(t, s) :
              Commit(t, s, x, AfterMessage(db[s].workspace, s), s)
        /\ UNCHANGED <<workspaces, served>>

\* The agent is cancelled while its thread replaces the messages: another agent
\* may work on the session when the thread commits.
AbandonReplace(t) ==
    /\ tasks[t].step = "listed"
    /\ Mishap
    /\ Goes(t, [tasks[t] EXCEPT !.step = "abandoned"])
    /\ UNCHANGED <<workspaces, db, redis, primary, fallback, served, restarts, suspect>>

LateReplace(t) ==
    LET s == tasks[t].agent
    IN  /\ tasks[t].step = "abandoned" /\ Live(db[s])
        /\ \E x \in Replacements(t, s) : LateCommit(s, x)
        /\ Ends(t)
        /\ UNCHANGED <<workspaces, served, faults>>

\* The list needs no condensing, or the session is gone.
LetGo(t) ==
    /\ tasks[t].step \in {"listed", "abandoned"}
    /\ Ends(t)
    /\ UNCHANGED <<workspaces, db, redis, primary, fallback, served, faults, restarts,
                   suspect>>

CompactMessages(t) ==
    \E s \in Sessions : \E ids \in SUBSET DOMAIN db[s].rows :
        /\ Live(db[s]) /\ CompactRows(db[s], ids) # db[s]
        /\ WriteMessages(t, s, CompactRows(db[s], ids))

StoreNext ==
    \/ \E t \in Tasks :
          \/ TakeAnswer(t) \/ Query(t) \/ QueryRows(t) \/ Fill(t) \/ FillRedis(t)
          \/ CancelRead(t) \/ Sweep(t) \/ SweepRedis(t) \/ CancelSweep(t)
          \/ CreateSession(t) \/ RenameSession(t) \/ DeleteSession(t) \/ ReadForBrowser(t)
          \/ ListMessages(t) \/ AddMessageRow(t) \/ InjectSkillMessage(t) \/ RemoveSkill(t)
          \/ ReplaceAllMessages(t) \/ AbandonReplace(t) \/ LateReplace(t) \/ LetGo(t)
          \/ CompactMessages(t)
    \/ \E w \in Workspaces : EnsureWorkspace(w)
    \/ Expire \/ Restart

StoreSpec == StoreInit /\ [][StoreNext]_storeVars

-----------------------------------------------------------------------------
(* Properties *)

Reading == {"answered", "query", "rows", "filling", "storing"}
Sweeping == {"sweep", "sweeping"}
Holding == {"listed", "abandoned"}
Steps == {"idle"} \cup Reading \cup Sweeping \cup Holding

\* A task has a key exactly while it reads, and prefixes exactly while it sweeps;
\* an agent holds a list after it read.
IsTask(task) ==
    /\ task = [step |-> task.step, key |-> task.key, held |-> task.held,
               sweep |-> task.sweep, changed |-> task.changed, agent |-> task.agent]
    /\ task.step \in Steps
    /\ task.key \in IF task.step \in Reading THEN Keys ELSE {NoKey}
    /\ task.sweep \in Seq(SUBSET Keys)
    /\ (task.sweep # <<>>) = (task.step \in Sweeping)
    /\ task.changed \subseteq Keys
    /\ task.agent \in Sessions \cup {NoSession}
    /\ task.step \in Holding => task.agent \in Sessions /\ task.held # Nothing

\* The columns of a session, and its rows within the bound.
IsSession(x) ==
    /\ x = [status |-> x.status, workspace |-> x.workspace, title |-> x.title,
            rows |-> x.rows, links |-> x.links]
    /\ x.status \in {"unborn", "live", "deleted"}
    /\ DOMAIN x.rows \subseteq Ids
    /\ x.links \in [Skills -> Ids \cup {NoLink}]

\* The tables keep their columns, the caches their keys, and the tasks their fields.
TypeOK ==
    /\ DOMAIN db = Sessions /\ \A s \in Sessions : IsSession(db[s])
    /\ workspaces \subseteq Workspaces
    /\ DOMAIN primary = Keys /\ DOMAIN fallback = Keys
    /\ DOMAIN tasks = Tasks /\ \A t \in Tasks : IsTask(tasks[t])
    /\ redis \in BOOLEAN /\ suspect \subseteq Keys
    /\ served \in 0..MaxOps
    /\ faults \in 0..MaxMishaps /\ restarts \in 0..(MaxMishaps - faults)

Fresh(key) == \A cache \in {primary, fallback} :
                  cache[key] # Nothing => cache[key] = Answer(db, key)

\* A task has the rows of session s as they are.
UpToDate(t, s) == tasks[t].held = Answer(db, AgentKey(s))

\* "SQLite is always authoritative" (cache.py): a cached answer differs from the
\* database's only while the write that changed it still invalidates, or after a
\* read overlapped that write, Redis failed to delete, the writer was cancelled or
\* the server stopped in between. And the agent, whose key nobody else reads, reads
\* its own writes as long as the session lives, and replaces nothing but what it
\* has read, unless Redis failed, a writer was cancelled or the server stopped.
StaleOnlyIfOvertaken ==
    /\ \A key \in Keys \ (suspect \cup Unswept) : Fresh(key)
    /\ faults = 0 /\ restarts = 0 =>
          \A s \in Sessions : Live(db[s]) =>
              /\ AgentFree(s) => Fresh(AgentKey(s))
              /\ \A t \in Tasks :
                    tasks[t].step \in Holding /\ tasks[t].agent = s => UpToDate(t, s)

\* A link leads to the message that injects its skill, and every skill message is
\* linked as one of its skill.
LinksHold(x) ==
    /\ \A k \in Skills : x.links[k] # NoLink =>
          /\ x.links[k] \in DOMAIN x.rows
          /\ x.rows[x.links[k]].kind = "skill"
          /\ x.rows[x.links[k]].message.skill = k
    /\ \A i \in DOMAIN x.rows : x.rows[i].kind = "skill" =>
          /\ x.rows[i].message.skill \in Skills
          /\ x.links[x.rows[i].message.skill] = i

\* A row is one of a skill exactly if its message injects one (_kind_for).
KindsHold(x) ==
    \A i \in DOMAIN x.rows : /\ "kind" \in DOMAIN x.rows[i].message
                             /\ x.rows[i].kind = "skill" <=> IsInjection(x.rows[i].message)

\* An earlier run of the server left these databases.
ASSUME StoredAssumption ==
    \A d \in Stored :
        /\ DOMAIN d = Sessions
        /\ \A s \in Sessions : /\ IsSession(d[s]) /\ LinksHold(d[s]) /\ KindsHold(d[s])
                               /\ Live(d[s]) => d[s].workspace \in Workspaces

\* The tables keep the promises that a later injection, removal or compaction
\* builds on, and a session without a row in workspaces does not exist.
SkillLinksHold ==
    \A s \in Sessions : /\ LinksHold(db[s])
                        /\ Live(db[s]) => db[s].workspace \in workspaces

\* What the agent reads from the tables.
AgentView(s) ==
    LET at == Ascending(DOMAIN db[s].rows, MaxRows)
    IN  Store([n \in 1..Len(at) |-> db[s].rows[at[n]].message],
              {k \in Skills : db[s].links[k] # NoLink})

\* The sessions of which an agent has a list that is out of date.
Overtaken == {s \in Sessions : \E t \in Tasks : /\ tasks[t].step \in Holding
                                             /\ tasks[t].agent = s
                                             /\ ~UpToDate(t, s)}

Port == INSTANCE ConversationPort WITH
            conversations <- [s \in Sessions |-> AgentView(s)], overtaken <- Overtaken

\* Through the adapter, the tables behave as the in-memory store does: each
\* transaction is an operation of the port, or invisible to the agent. Only an agent
\* whose list is out of date may put other skills in place of those there are.
ImplementsPort == Port!PortSpec
=============================================================================
