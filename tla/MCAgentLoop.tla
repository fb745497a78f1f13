---------------------------- MODULE MCAgentLoop ----------------------------
(* Instances of AgentLoop. *)
EXTENDS AgentLoop

CONSTANTS wenqu, draft

\* The packaged default, as server/config.py deploys it.
OneDefault == <<wenqu>>

\* The user selects nothing, or the default again and one more skill.
NoneOrDraft == {<<>>, <<wenqu, draft>>}
NothingSelected == {<<>>}

\* Calls per turn.
One == <<1>>
OneOne == <<1, 1>>
TwoTwo == <<2, 2>>
TwoOneOne == <<2, 1, 1>>
=============================================================================
