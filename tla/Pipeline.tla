------------------------------ MODULE Pipeline ------------------------------
(***************************************************************************)
(* The dalroot pipeline (pipeline.go, pipeline_handlers.go): every pane of *)
(* dalroot has a Mattermost channel named after it, and the daemon keeps   *)
(* which panes are registered, in memory and in a file.  The file is saved *)
(* after the lock is given back, under the lock for readers: saves may be  *)
(* under way together, with one path.tmp.                                  *)
(*                                                                         *)
(* A channel is its pane.  Posts are left out but for the way to them;     *)
(* Receive hands out the last ten, whether they were read or not.          *)
(***************************************************************************)
EXTENDS Integers, FiniteSets

CONSTANTS
  Pane,
  Caller,         \* the requests that may be under way
  Paper,          \* files on disk, named or open
  MaxPaneTrouble  \* bound on failures of Mattermost and of the disk, and restarts

ASSUME PaneAssumption ==
  /\ MaxPaneTrouble \in Nat /\ IsFiniteSet(Caller) /\ IsFiniteSet(Paper)
  /\ Paper \subseteq Nat \ {0} /\ Cardinality(Paper) >= Cardinality(Caller) + 2

VARIABLES
  channels,    \* DalrootPipeline.channels
  exists,      \* the channels in Mattermost
  call,        \* per caller: where its request is, for which panes
  snapshot,    \* per caller: what it saves, and into which file
  paneTmp, paneFile, \* the files that path.tmp and path name, 0 for none
  written,     \* per file: what it holds
  spoiled,     \* a save has failed, and none has begun by itself since
  paneTrouble

paneVars ==
  <<channels, exists, call, snapshot, paneTmp, paneFile, written, spoiled, paneTrouble>>
disk == <<snapshot, paneTmp, paneFile, written, spoiled>>

-----------------------------------------------------------------------------
NoCall == [at |-> "none", sync |-> FALSE, panes |-> {}]
NoSave == [set |-> {}, fd |-> 0]
Torn == [whole |-> FALSE, set |-> {}]

PaneTypeOK ==
  /\ channels \subseteq exists /\ exists \subseteq Pane
  /\ call \in [Caller -> [at : {"none", "look", "create", "store", "save", "open", "write",
                                "rename", "post"}, sync : BOOLEAN, panes : SUBSET Pane]]
  /\ snapshot \in [Caller -> [set : SUBSET Pane, fd : Paper \cup {0}]]
  /\ {paneTmp, paneFile} \subseteq Paper \cup {0}
  /\ written \in [Paper -> [whole : BOOLEAN, set : SUBSET Pane]]
  /\ spoiled \in BOOLEAN /\ paneTrouble \in 0..MaxPaneTrouble

PaneInit ==
  /\ channels = {} /\ exists = {}
  /\ call = [c \in Caller |-> NoCall] /\ snapshot = [c \in Caller |-> NoSave]
  /\ paneTmp = 0 /\ paneFile = 0 /\ written = [f \in Paper |-> Torn]
  /\ spoiled = FALSE /\ paneTrouble = 0

PaneTrouble == paneTrouble < MaxPaneTrouble /\ paneTrouble' = paneTrouble + 1
Reaches(c, place) == call' = [call EXCEPT ![c].at = place]
Saving(c) == call[c].at \in {"open", "write", "rename"}

-----------------------------------------------------------------------------
(* Init looks for the channel of its pane, creates it if there is none ...   *)
PaneInits(c) ==
  /\ call[c] = NoCall
  /\ \E p \in Pane :
       call' = [call EXCEPT ![c] = [at |-> "look", sync |-> FALSE, panes |-> {p}]]
  /\ UNCHANGED <<channels, exists, disk, paneTrouble>>
(* An error when the team is looked up; a lookup of the channel that fails   *)
(* is taken for a channel that is not there.                                 *)
PaneLooks(c) ==
  /\ call[c].at = "look"
  /\ \/ /\ Reaches(c, IF call[c].panes \subseteq exists THEN "store" ELSE "create")
        /\ UNCHANGED paneTrouble
     \/ Reaches(c, "create") /\ PaneTrouble
     \/ call' = [call EXCEPT ![c] = NoCall] /\ PaneTrouble
  /\ UNCHANGED <<channels, exists, disk>>
(* Names are unique: a channel another request has just made is an error.    *)
PaneCreates(c) ==
  /\ call[c].at = "create"
  /\ \/ /\ call[c].panes \cap exists = {}
        /\ exists' = exists \cup call[c].panes /\ Reaches(c, "store")
        /\ UNCHANGED paneTrouble
     \/ /\ call' = [call EXCEPT ![c] = NoCall] /\ UNCHANGED exists
        /\ IF call[c].panes \cap exists = {} THEN PaneTrouble ELSE UNCHANGED paneTrouble
  /\ UNCHANGED <<channels, disk>>

(* Mutant of PaneStores: the saves hold no lock while they write. *)
PaneStoresUnlocked(c) ==
  /\ call[c].at = "store"
  /\ channels' = channels \cup call[c].panes /\ Reaches(c, "save")
  /\ UNCHANGED <<exists, disk, paneTrouble>>
(* ... registers it under the lock, which no save may hold for reading ...   *)
PaneStores(c) ==
  /\ call[c].at = "store" /\ \A b \in Caller : ~Saving(b)
  /\ channels' = channels \cup call[c].panes /\ Reaches(c, "save")
  /\ UNCHANGED <<exists, disk, paneTrouble>>
(* ... and saves: persist encodes, opens path.tmp and empties it ... *)
SaveEncodes(c) ==
  /\ call[c].at = "save" /\ Reaches(c, "open")
  /\ snapshot' = [snapshot EXCEPT ![c].set = channels]
  /\ spoiled' = (spoiled /\ \E b \in Caller : Saving(b))
  /\ UNCHANGED <<channels, exists, paneTmp, paneFile, written, paneTrouble>>
FreePaper == Paper \ ({paneTmp, paneFile} \cup {snapshot[b].fd : b \in Caller})
SaveOpens(c) ==
  /\ call[c].at = "open" /\ Reaches(c, "write")
  /\ paneTmp' = IF paneTmp = 0 THEN CHOOSE f \in FreePaper : TRUE ELSE paneTmp
  /\ snapshot' = [snapshot EXCEPT ![c].fd = paneTmp']
  /\ written' = [written EXCEPT ![paneTmp'] = Torn]
  /\ UNCHANGED <<channels, exists, paneFile, spoiled, paneTrouble>>
(* ... writes what it has encoded to the file it has open ... *)
SaveWrites(c) ==
  /\ call[c].at = "write" /\ Reaches(c, "rename")
  /\ written' = [written EXCEPT ![snapshot[c].fd] = [whole |-> TRUE, set |-> snapshot[c].set]]
  /\ snapshot' = [snapshot EXCEPT ![c] = NoSave]
  /\ UNCHANGED <<channels, exists, paneTmp, paneFile, spoiled, paneTrouble>>
(* os.WriteFile fails: it cannot open the file, or writes less than all of   *)
(* it, which does no harm to what another save has written in full.  Nobody  *)
(* looks, and path.tmp is renamed all the same.                              *)
SaveWritesShort(c) ==
  /\ call[c].at \in {"open", "write"} /\ Reaches(c, "rename")
  /\ PaneTrouble /\ spoiled' = TRUE
  /\ snapshot' = [snapshot EXCEPT ![c] = NoSave]
  /\ UNCHANGED <<channels, exists, paneTmp, paneFile, written>>
(* ... and renames path.tmp, unless another save has done so.  Nobody looks  *)
(* whether this worked either.                                               *)
SaveEnds(c) == call' = [call EXCEPT ![c] = IF @.sync THEN [@ EXCEPT !.at = "post"] ELSE NoCall]
SaveRenames(c) ==
  /\ call[c].at = "rename" /\ SaveEnds(c)
  /\ IF paneTmp # 0 THEN paneFile' = paneTmp /\ paneTmp' = 0
                    ELSE UNCHANGED <<paneTmp, paneFile>>
  /\ UNCHANGED <<channels, exists, snapshot, written, spoiled, paneTrouble>>
SaveStaysTmp(c) ==
  /\ call[c].at = "rename" /\ SaveEnds(c)
  /\ PaneTrouble /\ spoiled' = TRUE
  /\ UNCHANGED <<channels, exists, snapshot, paneTmp, paneFile, written>>

-----------------------------------------------------------------------------
(* Send: an error for a pane that is not registered. *)
PaneSends(c) ==
  /\ call[c] = NoCall
  /\ \E p \in channels :
       call' = [call EXCEPT ![c] = [at |-> "post", sync |-> FALSE, panes |-> {p}]]
  /\ UNCHANGED <<channels, exists, disk, paneTrouble>>
(* Sync: Init first for a pane that is not registered. *)
PaneSyncs(c) ==
  /\ call[c] = NoCall
  /\ \E p \in Pane :
       call' = [call EXCEPT ![c] = [at |-> IF p \in channels THEN "post" ELSE "look",
                                    sync |-> TRUE, panes |-> {p}]]
  /\ UNCHANGED <<channels, exists, disk, paneTrouble>>
(* Broadcast: to the panes registered when it begins, one after the other. *)
PaneBroadcasts(c) ==
  /\ call[c] = NoCall /\ channels # {}
  /\ call' = [call EXCEPT ![c] = [at |-> "post", sync |-> FALSE, panes |-> channels]]
  /\ UNCHANGED <<channels, exists, disk, paneTrouble>>
(* postToChannel; one that fails does not keep Broadcast from the others. *)
PanePosts(c) ==
  /\ call[c].at = "post"
  /\ \E p \in call[c].panes :
       call' = [call EXCEPT ![c] = IF call[c].panes = {p} THEN NoCall
                                   ELSE [call[c] EXCEPT !.panes = @ \ {p}]]
  /\ UNCHANGED <<channels, exists, disk, paneTrouble>>

(* load takes what can be decoded, and nothing else. *)
Loaded == IF paneFile = 0 THEN {} ELSE written[paneFile].set
PaneCrash ==
  /\ PaneTrouble /\ channels' = Loaded /\ spoiled' = FALSE
  /\ call' = [c \in Caller |-> NoCall] /\ snapshot' = [c \in Caller |-> NoSave]
  /\ UNCHANGED <<exists, paneTmp, paneFile, written>>

PaneNext ==
  \/ \E c \in Caller :
       \/ PaneInits(c) \/ PaneLooks(c) \/ PaneCreates(c) \/ PaneStores(c)
       \/ SaveEncodes(c) \/ SaveOpens(c) \/ SaveWrites(c) \/ SaveWritesShort(c)
       \/ SaveRenames(c) \/ SaveStaysTmp(c)
       \/ PaneSends(c) \/ PaneSyncs(c) \/ PaneBroadcasts(c) \/ PanePosts(c)
  \/ PaneCrash

PaneSpec == PaneInit /\ [][PaneNext]_paneVars

-----------------------------------------------------------------------------
(* However the saves of several requests overlap, once they are over the     *)
(* file holds every registered pane: a restart between requests forgets      *)
(* none.  What makes it so is that no pane is registered while a save writes *)
(* (pipeline.go: persist holds the lock for reading to its end).  A save     *)
(* that fails may leave a file that cannot be decoded; the next one that     *)
(* begins when no other is under way, and does not fail, makes up for it.    *)
RegisteredIsKept ==
  (\A c \in Caller : call[c].at # "save" /\ ~Saving(c)) => spoiled \/ Loaded = channels
=============================================================================
