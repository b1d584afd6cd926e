--------------------------- MODULE MCBridgeRelay ---------------------------
(* Two dals of one team, which also post, and the channel's webhook. *)
EXTENDS BridgeRelay

CONSTANTS a, b, hook

MCGateway == [x \in Client \cup Poster |-> IF x = hook THEN "none" ELSE "team"]
MCMaxPosts == [p \in Poster |-> IF p = hook THEN 1 ELSE 3]
=============================================================================
