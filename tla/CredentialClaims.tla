-------------------------- MODULE CredentialClaims --------------------------
(***************************************************************************)
(* Claims of the dals and the credential syncs they start (claim.go,       *)
(* credential_ops.go, credential_watcher.go, and the reporting side in     *)
(* cmd/dalcli/cmd_run.go).  One provider's credential on one host: the key *)
(* of the cooldown.  A claim store call holds the lock and writes the file,*)
(* which may fail; cooldowns and syncs are in memory.                      *)
(***************************************************************************)
EXTENDS Integers, SequencesExt, Books

CONSTANTS
  Reporter,        \* the dals that report
  MaxClaims,       \* maxClaims = 200
  Slot,            \* room for syncs that overlap
  MaxId,           \* bound on the claims that are filed
  MaxClaimTrouble  \* bound on expiries, failures and crashes

ASSUME ClaimAssumption ==
  MaxClaims \in Nat \ {0} /\ MaxId \in Nat /\ MaxClaimTrouble \in Nat

VARIABLES
  claims,    \* claimStore.items, oldest first, and its file
  seq,       \* claimStore.seq
  filed,     \* the numbers that were on file at some time
  handler,   \* per reporter: its POST /api/claim
  cooling,   \* credSyncLast is less than credentialSyncCooldown ago
  sync,      \* per slot: a credential sync
  valid,     \* the credential on the host
  claimTrouble

claimVars ==
  <<claims, seq, filed, handler, cooling, sync, valid, claimTrouble>>
store == <<claims, seq, filed>>

-----------------------------------------------------------------------------
Settled == {"resolved", "rejected"}
Status == {"open", "acknowledged"} \cup Settled
Claim == [id : 1..MaxId, credential : BOOLEAN, status : Status]
Free == [at |-> "free", claim |-> 0]
Away == [at |-> "away", claim |-> 0]

ClaimTypeOK ==
  /\ claims \in Book(Claim) /\ seq \in 0..MaxId /\ filed \subseteq 1..MaxId
  /\ Len(claims.memory) <= MaxClaims /\ Len(claims.file) <= MaxClaims
  /\ handler \in [Reporter -> [at : {"away", "filed", "denied"}, claim : 0..MaxId]]
  /\ cooling \in BOOLEAN /\ valid \in BOOLEAN
  /\ sync \in [Slot -> [at : {"free", "start", "run", "ok", "stale", "failed"},
                        claim : 0..MaxId]]
  /\ claimTrouble \in 0..MaxClaimTrouble

ClaimInit ==
  /\ claims = NewBook /\ seq = 0 /\ filed = {}
  /\ handler = [d \in Reporter |-> Away]
  /\ cooling = FALSE /\ sync = [s \in Slot |-> Free] /\ valid = TRUE
  /\ claimTrouble = 0

ClaimTrouble == claimTrouble < MaxClaimTrouble /\ claimTrouble' = claimTrouble + 1

-----------------------------------------------------------------------------
(* claimStore. *)

Ids(list) == {list[k].id : k \in DOMAIN list}

(* save, under the lock. *)
SaveClaims(list) ==
  \/ claims' = Saved(list) /\ filed' = filed \cup Ids(list) /\ UNCHANGED claimTrouble
  \/ claims' = Unsaved(claims, list) /\ UNCHANGED filed /\ ClaimTrouble

(* Add: the oldest claims are dropped. *)
Add(credential) ==
  LET all == Append(claims.memory,
                    [id |-> seq + 1, credential |-> credential, status |-> "open"])
  IN /\ seq < MaxId /\ seq' = seq + 1
     /\ SaveClaims(SubSeq(all, IF Len(all) > MaxClaims THEN 2 ELSE 1, Len(all)))
(* Respond: whatever the claim's status is; nothing when it was dropped. *)
Respond(id, status) ==
  IF id \in Ids(claims.memory)
  THEN SaveClaims([k \in DOMAIN claims.memory |->
                IF claims.memory[k].id = id THEN [claims.memory[k] EXCEPT !.status = status]
                                            ELSE claims.memory[k]])
  ELSE UNCHANGED <<claims, filed, claimTrouble>>
(* ResolveStaleCredentialClaims: what is open or acknowledged, but keep. *)
Stale(keep) ==
  {k \in DOMAIN claims.memory :
     /\ claims.memory[k].id # keep /\ claims.memory[k].credential
     /\ claims.memory[k].status \notin Settled}
ResolveStale(keep) ==
  IF Stale(keep) # {}
  THEN SaveClaims([k \in DOMAIN claims.memory |->
                IF k \in Stale(keep) THEN [claims.memory[k] EXCEPT !.status = "resolved"]
                                     ELSE claims.memory[k]])
  ELSE UNCHANGED <<claims, filed, claimTrouble>>

(* Mutant of LastId: numbering goes on after the number of claims. *)
LastIdCount(list) == Len(list)
(* load: numbering goes on after the highest id. *)
LastId(list) == Max(Ids(list) \cup {0})

-----------------------------------------------------------------------------
(* The reporters and the host. *)

(* notifyCredentialRefresh after a failed login; the claim may not get       *)
(* through.  The reporter's own cooldown, a matter of time, is left out.     *)
Reports(d) ==
  /\ ~valid /\ handler[d] = Away
  /\ \/ /\ Add(TRUE)
        /\ handler' = [handler EXCEPT ![d] = [at |-> "filed", claim |-> seq + 1]]
     \/ ClaimTrouble /\ UNCHANGED <<store, handler>>
  /\ UNCHANGED <<cooling, sync, valid>>
(* A claim about something else. *)
OtherClaim ==
  /\ Add(FALSE)
  /\ UNCHANGED <<handler, cooling, sync, valid>>
(* handleClaimRespond; the host's answers to other claims, which nobody else *)
(* touches, are left out.                                                    *)
HostResponds ==
  /\ \E k \in DOMAIN claims.memory, status \in {"acknowledged"} \cup Settled :
       claims.memory[k].credential /\ Respond(claims.memory[k].id, status)
  /\ UNCHANGED <<seq, handler, cooling, sync, valid>>
Expires ==
  /\ ClaimTrouble /\ valid /\ valid' = FALSE
  /\ UNCHANGED <<store, handler, cooling, sync>>

-----------------------------------------------------------------------------
(* Syncs. *)

(* reserveCredentialSync. *)
Reserve == ~cooling /\ cooling' = TRUE
(* requestCredentialSync: a reservation, and a goroutine. *)
RequestSync(id) ==
  /\ Reserve
  /\ \E s \in Slot : sync[s] = Free
  /\ sync' = [sync EXCEPT ![CHOOSE s \in Slot : sync[s] = Free] =
                 [at |-> "start", claim |-> id]]
(* Mutant of Cools: the time of a sync that failed stays. *)
CoolsUnlessInvalid ==
  /\ cooling /\ cooling' = FALSE /\ valid
  /\ UNCHANGED <<store, handler, sync, valid, claimTrouble>>
(* The cooldown is over, whatever became of the sync that began it. *)
Cools ==
  /\ cooling /\ cooling' = FALSE
  /\ UNCHANGED <<store, handler, sync, valid, claimTrouble>>

(* handleCredentialSyncClaim after Add: a sync, or none so soon ... *)
HandlerSyncs(d) ==
  /\ handler[d].at = "filed" /\ RequestSync(handler[d].claim)
  /\ handler' = [handler EXCEPT ![d] = Away]
  /\ UNCHANGED <<store, valid, claimTrouble>>
HandlerDenied(d) ==
  /\ handler[d].at = "filed" /\ cooling
  /\ handler' = [handler EXCEPT ![d].at = "denied"]
  /\ UNCHANGED <<store, cooling, sync, valid, claimTrouble>>
(* ... and then the claim is acknowledged, after whatever happened to it.    *)
HandlerAnswers(d) ==
  /\ handler[d].at = "denied" /\ handler' = [handler EXCEPT ![d] = Away]
  /\ Respond(handler[d].claim, "acknowledged")
  /\ UNCHANGED <<seq, cooling, sync, valid>>

(* checkAndRefresh: an expired credential asks for a sync of its own. *)
WatcherAsks ==
  /\ ~valid /\ RequestSync(0)
  /\ UNCHANGED <<store, handler, valid, claimTrouble>>

(* runCredentialSync, step by step. *)
At(s, x, y) == sync[s].at = x /\ sync' = [sync EXCEPT ![s].at = y]
SyncStarts(s) ==
  /\ At(s, "start", "run") /\ Respond(sync[s].claim, "acknowledged")
  /\ UNCHANGED <<seq, handler, cooling, valid>>
(* Its commands ended well and the file of the credential is there; whether  *)
(* the credential in it is valid nobody looks.                               *)
SyncWorks(s) ==
  /\ At(s, "run", "ok")
  /\ \/ valid' = TRUE /\ UNCHANGED claimTrouble
     \/ UNCHANGED valid /\ ClaimTrouble
  /\ UNCHANGED <<store, handler, cooling>>
SyncBreaks(s) ==
  /\ ClaimTrouble /\ At(s, "run", "failed")
  /\ UNCHANGED <<store, handler, cooling, valid>>
SyncResolves(s) ==
  /\ At(s, "ok", "stale") /\ Respond(sync[s].claim, "resolved")
  /\ UNCHANGED <<seq, handler, cooling, valid>>
SyncSweeps(s) ==
  /\ sync[s].at = "stale" /\ sync' = [sync EXCEPT ![s] = Free]
  /\ ResolveStale(sync[s].claim)
  /\ UNCHANGED <<seq, handler, cooling, valid>>
SyncRejects(s) ==
  /\ sync[s].at = "failed" /\ sync' = [sync EXCEPT ![s] = Free]
  /\ Respond(sync[s].claim, "rejected")
  /\ UNCHANGED <<seq, handler, cooling, valid>>

(* A restart of the daemon. *)
ClaimCrash ==
  /\ ClaimTrouble /\ claims' = Reread(claims) /\ seq' = LastId(claims.file)
  /\ handler' = [d \in Reporter |-> Away] /\ sync' = [s \in Slot |-> Free]
  /\ cooling' = FALSE
  /\ UNCHANGED <<filed, valid>>

ClaimNext ==
  \/ \E d \in Reporter :
       Reports(d) \/ HandlerSyncs(d) \/ HandlerDenied(d)
         \/ HandlerAnswers(d)
  \/ OtherClaim \/ HostResponds \/ Expires \/ Cools \/ WatcherAsks \/ ClaimCrash
  \/ \E s \in Slot :
       SyncStarts(s) \/ SyncWorks(s) \/ SyncBreaks(s) \/ SyncResolves(s)
         \/ SyncSweeps(s) \/ SyncRejects(s)

(* Time passes, the watcher looks again and again, and goroutines run; the   *)
(* commands of a sync end.                                                   *)
ClaimFairness ==
  /\ WF_claimVars(Cools) /\ SF_claimVars(WatcherAsks)
  /\ \A s \in Slot :
       WF_claimVars(SyncStarts(s)) /\ WF_claimVars(SyncWorks(s) \/ SyncBreaks(s))
         /\ WF_claimVars(SyncResolves(s)) /\ WF_claimVars(SyncSweeps(s))
         /\ WF_claimVars(SyncRejects(s))

ClaimSpec == ClaimInit /\ [][ClaimNext]_claimVars /\ ClaimFairness

-----------------------------------------------------------------------------
(* The host reads a claim and answers it later by its number, and a sync     *)
(* does the same.  No number that was ever on file is given to another       *)
(* claim, however many claims are dropped, saves fail and restarts come      *)
(* between: an answer may come too late, but not to the wrong claim.         *)
NumbersMoveOn == \A n \in filed : n <= seq

(* The cooldown never keeps an expired credential for good, although it is   *)
(* taken before the sync and kept when the sync fails.                       *)
CredentialRefreshed == <>[]valid
=============================================================================
