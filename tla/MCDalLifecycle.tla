--------------------------- MODULE MCDalLifecycle ---------------------------
(* Small instances of DalLifecycle. *)
EXTENDS DalLifecycle, TLC

CONSTANTS lead, dev, h1, h2, h3

Requests == Permutations(Handler)

(* Of an id only this matters: none, the container under the dal's name, or *)
(* one that is gone for good.  No step compares an id with anything but the *)
(* id under the name, so states that agree on this behave alike.            *)
Ref(d, i) == CASE i = None -> "none" [] d # None /\ i = box[d].id -> "this"
               [] OTHER -> "other"
Refs(s) == [s EXCEPT !.seen = Ref(s.dal, @), !.made = Ref(s.dal, @)]

UpToIds ==
  <<[d \in Dal |-> <<box[d] = Gone, box[d].up, Ref(d, reg[d])>>],
    [r \in Handler |->
       [Refs(h[r]) EXCEPT !.todo = {<<p[1], Ref(p[1], p[2])>> : p \in @}]],
    Refs(w), failed, slipped, clashed>>

(* With one dal nothing is claimed after a clash or a slip until the daemon *)
(* starts again, and then it starts as from an initial state.               *)
Undisturbed == clashed = {} /\ slipped = {}
=============================================================================
