---------------------------- MODULE Conversation ----------------------------
(***************************************************************************)
(* The messages of a conversation and the operations on them: the          *)
(* ConversationStore port as InMemoryConversationStore implements it       *)
(* (server/agent/memory.py), and the rebuilding of a store from what a     *)
(* browser sends back (_trusted_messages in server/request_runtime.py).    *)
(*                                                                         *)
(* A text is a size (0: no text) and a flag saying that it was cut; a tool *)
(* call is its id.                                                         *)
(***************************************************************************)
EXTENDS Integers, Sequences, FiniteSets, SequencesExt, Positions

CONSTANTS
    Skills,      \* the packaged skills of the catalogue
    NoSkill,     \* a message that injects no skill
    NoCall,      \* a message that replies to no tool call
    SkillSize    \* the size of a rendered skill

ASSUME ConversationAssumption ==
    /\ NoSkill \notin Skills
    /\ SkillSize \in Nat \ {0}

Roles == {"user", "assistant", "tool"}
Kinds == {"none", "skill_injection", "skill_removed", "tool_result",
          "agent_control", "agent_limit", "context_summary"}

IsMessage(m) ==
    /\ DOMAIN m = {"role", "kind", "skill", "calls", "reply", "error",
                   "runtime", "size", "cut"}
    /\ m.role \in Roles
    /\ m.kind \in Kinds
    /\ m.skill \in Skills \cup {NoSkill}
    /\ m.error \in BOOLEAN /\ m.runtime \in BOOLEAN /\ m.cut \in BOOLEAN
    /\ m.size \in Nat

-----------------------------------------------------------------------------
(* Messages *)

Text(role, kind, size) ==
    [role |-> role, kind |-> kind, skill |-> NoSkill, calls |-> <<>>,
     reply |-> NoCall, error |-> FALSE, runtime |-> FALSE, size |-> size,
     cut |-> FALSE]

\* An assistant turn: its text and the ids of the tools it calls.
Assistant(size, calls) ==
    [Text("assistant", "none", size) EXCEPT !.calls = calls]

ToolResult(id, error) ==
    [Text("tool", "tool_result", 1) EXCEPT !.reply = id, !.error = error]

\* SkillManager.build_injection; runtime: a runtime_context block is appended.
SkillInjection(s, role, id, runtime) ==
    [Text(role, "skill_injection", SkillSize) EXCEPT
        !.skill = s, !.reply = id, !.runtime = runtime]

IsInjection(m) == m.kind = "skill_injection"
Injects(m, s) == IsInjection(m) /\ m.skill = s

\* The neutral reply that takes the place of a removed skill.
Redacted(m) == [m EXCEPT !.kind = "skill_removed", !.size = 1, !.runtime = FALSE,
                         !.cut = FALSE]

-----------------------------------------------------------------------------
(* The store: one session's messages and active skills *)

Store(messages, skills) == [messages |-> messages, skills |-> skills]

EmptyStore == Store(<<>>, {})

AddMessage(store, m) == [store EXCEPT !.messages = Append(@, m)]

ReplaceMessages(store, messages) == [store EXCEPT !.messages = messages]

\* Mutant of InjectSkill: the active set is not consulted.
InjectSkillAgain(store, s, m) ==
    Store(Append(store.messages, m), store.skills \cup {s})

\* Once per skill: a second injection of an active skill changes nothing.
InjectSkill(store, s, m) ==
    IF s \in store.skills THEN store
    ELSE Store(Append(store.messages, m), store.skills \cup {s})

\* The messages at the given positions, in order, each rewritten by Rewrite.
Retain(messages, positions, Rewrite(_)) ==
    LET kept == Pick(messages, positions)
    IN  [k \in 1..Len(kept) |-> Rewrite(kept[k])]

\* The skill's text goes away; what it replied to keeps a reply.
RemoveSessionSkill(store, s) ==
    LET messages == store.messages
        kept == {i \in DOMAIN messages :
                    Injects(messages[i], s) => messages[i].role = "tool"}
        Neutral(m) == IF Injects(m, s) THEN Redacted(m) ELSE m
    IN  IF s \notin store.skills THEN store
        ELSE Store(Retain(messages, kept, Neutral), store.skills \ {s})

-----------------------------------------------------------------------------
(* A new request: the store is rebuilt from the browser's context *)

\* Instruction text never comes from the browser: an injection is rendered
\* afresh, without a runtime_context, and only the first of an active skill.
TrustedMessages(messages, active) ==
    LET kept == {i \in DOMAIN messages :
                    IsInjection(messages[i]) =>
                        /\ messages[i].skill \in active
                        /\ ~\E j \in 1..(i - 1) : Injects(messages[j], messages[i].skill)}
        Fresh(m) == IF IsInjection(m) THEN SkillInjection(m.skill, m.role, m.reply, FALSE)
                    ELSE m
        missing == {s \in active : ~\E i \in DOMAIN messages : Injects(messages[i], s)}
        inserted == [k \in 1..Cardinality(missing) |->
                        SkillInjection(SetToSeq(missing)[k], "user", NoCall, FALSE)]
    IN  inserted \o Retain(messages, kept, Fresh)

\* RequestRuntimeFactory.create: the seeded store of a request.
Seeded(context) == Store(TrustedMessages(context.messages, context.skills),
                         context.skills)

-----------------------------------------------------------------------------
(* The tool protocol of chat providers *)

CallIds(m) == {m.calls[c] : c \in DOMAIN m.calls}

\* The tool messages that directly follow position i.
FollowingReplies(messages, i) ==
    {j \in (i + 1)..Len(messages) : \A k \in (i + 1)..j : messages[k].role = "tool"}

\* Every assistant message that calls tools is followed by all their replies, and
\* every tool message follows the assistant message that made its call.
Closed(messages) ==
    /\ \A i \in DOMAIN messages :
          CallIds(messages[i]) \subseteq
              {messages[j].reply : j \in FollowingReplies(messages, i)}
    /\ \A k \in DOMAIN messages : messages[k].role = "tool" =>
          \E i \in 1..(k - 1) : /\ messages[k].reply \in CallIds(messages[i])
                               /\ k \in FollowingReplies(messages, i)
=============================================================================
