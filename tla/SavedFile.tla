----------------------------- MODULE SavedFile ------------------------------
(***************************************************************************)
(* What a store of the daemon expects of its file (persist.go): a save      *)
(* replaces one whole version by the current one in a single step, and a    *)
(* daemon that starts again finds the last version saved.                   *)
(***************************************************************************)
EXTENDS Naturals

VARIABLES
  mem,   \* the version of the store in memory
  saved  \* the version in the file, 0 when there is none

Init == mem = 0 /\ saved = 0

Change == mem' \in {mem, mem + 1} /\ UNCHANGED saved

Save == saved' = mem /\ UNCHANGED mem

Restart == mem' = saved /\ UNCHANGED saved

Next == Change \/ Save \/ Restart

Spec == Init /\ [][Next]_<<mem, saved>>
=============================================================================
