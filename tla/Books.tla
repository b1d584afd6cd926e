------------------------------- MODULE Books --------------------------------
(***************************************************************************)
(* What a store of the daemon holds in memory, and its file (persist.go).  *)
(* persistJSON replaces the file as a whole, under the store's lock; where *)
(* it cannot, it writes a line to the log and the file stays as it was.    *)
(***************************************************************************)
EXTENDS Sequences

NewBook == [memory |-> <<>>, file |-> <<>>]
Book(S) == [memory : Seq(S), file : Seq(S)]

(* The store b when it has become s, and so has its file, or not. *)
Saved(s) == [memory |-> s, file |-> s]
Unsaved(b, s) == [memory |-> s, file |-> b.file]

(* loadJSON, when the daemon starts. *)
Reread(b) == Saved(b.file)
=============================================================================
