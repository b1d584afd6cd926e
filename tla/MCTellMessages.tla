--------------------------- MODULE MCTellMessages ---------------------------
(***************************************************************************)
(* Small instances of TellMessages.  The run TellCrash asks two questions, *)
(* each of which needs room elsewhere: whether a restart can multiply the  *)
(* copies of two messages, and what three messages in a buffer of two push *)
(* out of it when no time passes and the daemon lives.                     *)
(***************************************************************************)
EXTENDS TellMessages, TLC

CONSTANTS m1, m2, m3

VARIABLE question  \* of TellCrash: "crash" or "evict"

TwoMessages == {m1, m2}
ThreeMessages == {m1, m2, m3}
TwoSymmetry == Permutations(TwoMessages)

Told == {m \in Msg : pc[m] # "idle"}

AskInit == Init /\ question \in {"crash", "evict"}
AskNext ==
  /\ Next /\ UNCHANGED question
  /\ IF question = "crash" THEN Told' \subseteq TwoMessages
                           ELSE UNCHANGED <<aged, disk, restarts>>

CrashOrEvict == AskInit /\ [][AskNext]_<<vars, question>>

(* No step of that run reads what the receiver and the client know, for no  *)
(* client waits, and neither does what it asks.                             *)
Unread == <<storeVars, disk, pc, posts, shown, wdVars, restarts, question>>

(* The other run asks neither. *)
LiveInit == Init /\ question = "none"
LiveNext == Next /\ UNCHANGED question
LiveSpec == LiveInit /\ [][LiveNext]_<<vars, question>> /\ Fairness
=============================================================================
