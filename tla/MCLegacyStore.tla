---------------------------- MODULE MCLegacyStore ----------------------------
(* An instance of the session store. *)
EXTENDS LegacyStore

CONSTANTS w1, w2, s1, k1, k2, t1, t2, a1, a2

All == [limit |-> 0, before |-> 0]
Earlier == [limit |-> 1, before |-> 2]
Pages == {All, Earlier}

Question == Text("user", "none", 1)
SomeMessages == {Question}
SomeInjections == {SkillInjection(k1, "user", NoCall, FALSE),
                   SkillInjection(k2, "tool", 1, FALSE)}

BrowserKeys == {SessionKey(w1, s1), ListKey(w1), MessagesKey(s1, w1, Earlier)}

\* A new server, and one that goes on with a session that has a question and a
\* skill that a tool loaded.
Empty == [s \in {s1} |-> Unborn]
InUse == [Empty EXCEPT ![s1] = InjectRow(AddRow(Born(w1, t1), Question), k2,
                                         SkillInjection(k2, "tool", 1, FALSE))]
Databases == {Empty, InUse}

Interchangeable == Permutations({a1, a2})
=============================================================================
