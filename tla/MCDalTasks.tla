----------------------------- MODULE MCDalTasks -----------------------------
(* A small instance of DalTasks: two requests, a leader and a member. *)
EXTENDS DalTasks

CONSTANTS t1, t2, lead, dev

TwoTasks == {t1, t2}
=============================================================================
