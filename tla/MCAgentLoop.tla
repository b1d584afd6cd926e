----------------------------- MODULE MCAgentLoop ----------------------------
(* The dals checked: a member and a leader with a fallback, one whose       *)
(* provider is the daemon's fallback, a member without a fallback, a member *)
(* without a bridge, which has its periodic task only.                      *)
EXTENDS AgentLoop, FiniteSets

(* Bound on the kinds of changes at a time. *)
MaxKinds == 1

MCLeft == {w \in Work : Cardinality(w.mod) + Cardinality(w.new) <= MaxKinds}

MCDals ==
  {[own |-> "claude", fb |-> "codex",  member |-> TRUE,  bridge |-> TRUE],
   [own |-> "codex",  fb |-> "claude", member |-> FALSE, bridge |-> TRUE],
   [own |-> "claude", fb |-> "none",   member |-> TRUE,  bridge |-> TRUE],
   [own |-> "claude", fb |-> "codex",  member |-> TRUE,  bridge |-> FALSE]}
=============================================================================
