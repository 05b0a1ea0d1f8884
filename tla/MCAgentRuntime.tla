--------------------------- MODULE MCAgentRuntime ---------------------------
(* Small instances of AgentRuntime for TLC. *)
EXTENDS AgentRuntime, TLC

CONSTANTS e1, e2, k1, k2, p1, p2

(* One rule that asks; two of them; one that asks and one that may act. *)
AskSignals == {<<k1, "ask">>}
TwoQuestions == {<<k1, "ask">>, <<k2, "ask">>}
MixedSignals == {<<k1, "ask">>, <<k2, "auto">>}

(* Event ids are random and all handlers run the same code. *)
Symmetry == Permutations(Events) \cup Permutations(Workers)
=============================================================================
