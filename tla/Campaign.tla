------------------------------- MODULE Campaign -------------------------------
(***************************************************************************)
(* The work directory of a fuzzing campaign: a Parent clears and prepares  *)
(* it and has its QEMU write a snapshot into it, Child instances wait for  *)
(* that snapshot, and remove_work_dir() removes the directory in the end   *)
(* (fuzz_runner/src/nyx/qemu_process.rs, params.rs).                       *)
(*                                                                         *)
(* The processes share nothing but the file system: a child learns of the  *)
(* snapshot by polling for file names, one after the other, while the      *)
(* parent removes and creates files of those names.  Campaigns follow each *)
(* other in one directory; every entry is tagged with the campaign that    *)
(* created it, which the code cannot see.                                  *)
(***************************************************************************)
EXTENDS Naturals, Sequences, SequencesExt

CONSTANTS
  Child,         \* the Child instances
  EarlyChild,    \* may one be started while files of an old campaign are there?
  ReuseOwn,      \* may a parent reuse the snapshot of an earlier campaign?
  MaxCampaign,   \* bound: campaigns in the directory
  MaxRemove      \* bound: calls of remove_work_dir()

ASSUME CampaignAssumption ==
  /\ EarlyChild \in BOOLEAN
  /\ ReuseOwn \in BOOLEAN
  /\ MaxCampaign \in Nat
  /\ MaxRemove \in Nat

(* The sub directories, of which these stand for the eight in the code. *)
Folders == <<"corpus", "seeds", "snapshot">>
Folder  == ToSet(Folders)

(* Faulty: page_cache.addr is left to QEMU. *)
PreparedNoAddr == Folders \o <<"filter", "lock", "dump", "program">>

(* What prepare_workdir() creates, in its order. *)
Prepared == Folders \o <<"filter", "lock", "dump", "addr", "program">>

(* What QEMU writes into snapshot/, the state last. *)
Snapshot == <<"mem", "state">>

(* Faulty: the page cache alone is waited for. *)
WaitForPageCache == <<"lock", "addr", "addr">>

(* What wait_for_workdir() waits for, in its order. *)
WaitFor == <<"lock", "addr", "addr", "state">>

(* What the QEMU of a child maps. *)
Needed == {"lock", "dump", "addr", "mem", "state"}

Entry == ToSet(Prepared) \cup ToSet(Snapshot) \cup {"addr", "redqueen"}

VARIABLES
  disk,       \* entry |-> the campaign that created it, 0 if it does not exist
  campaign,   \* the campaigns so far
  parent,     \* "idle", "clear", "prepare", "boot" or "ended"
  reuse,      \* is its reuse_snapshot_path the snapshot/ of this directory?
  todo,       \* entries that remove_dir_all() has yet to unlink
  made,       \* how much of Prepared, or of Snapshot, is done
  child,      \* child |-> "idle", "wait", "load", "running" or "ended"
  seen,       \* child |-> how much of WaitFor it has found
  user,       \* remove_work_dir(): "idle", "check", "remove", "rest"
  done,       \* how many of Folders it has checked, or removed
  result,     \* of its last call: "none", "Ok" or "Err"
  deleted,    \* has the call removed anything?
  whole,      \* history: prepared to the end, and no removal begun since
  removals    \* its calls so far

parents  == <<campaign, parent, reuse, todo, made>>
children == <<child, seen>>
users    == <<user, done, result, deleted, removals>>
vars     == <<disk, parents, children, users, whole>>

-----------------------------------------------------------------------------
(* The types, and that the entries form a tree: what is in snapshot/ is     *)
(* never there without it.                                                  *)
TypeOK ==
  /\ disk \in [Entry -> 0 .. MaxCampaign]
  /\ \A e \in ToSet(Snapshot) : disk[e] # 0 => disk["snapshot"] # 0
  /\ campaign \in 0 .. MaxCampaign
  /\ parent \in {"idle", "clear", "prepare", "boot", "ended"}
  /\ reuse \in BOOLEAN
  /\ todo \subseteq Entry
  /\ made \in 0 .. Len(Prepared)
  /\ child \in [Child -> {"idle", "wait", "load", "running", "ended"}]
  /\ seen \in [Child -> 0 .. Len(WaitFor)]
  /\ user \in {"idle", "check", "remove", "rest"}
  /\ done \in 0 .. Len(Folders)
  /\ result \in {"none", "Ok", "Err"}
  /\ {deleted, whole} \subseteq BOOLEAN
  /\ removals \in 0 .. MaxRemove

Init ==
  /\ disk = [e \in Entry |-> 0]
  /\ campaign = 0 /\ parent = "idle" /\ reuse = FALSE /\ todo = {} /\ made = 0
  /\ child = [c \in Child |-> "idle"]
  /\ seen = [c \in Child |-> 0]
  /\ user = "idle" /\ done = 0 /\ result = "none" /\ deleted = FALSE /\ removals = 0
  /\ whole = FALSE

Exists(e) == disk[e] # 0
Present   == {e \in Entry : Exists(e)}

(* Faulty: remove_dir() for remove_dir_all(). *)
WithoutFolder(f) == [disk EXCEPT ![f] = 0]

(* What is left of it when a folder, with all that is in it, is gone. *)
Without(f) ==
  [e \in Entry |-> IF e = f \/ (f = "snapshot" /\ e \in ToSet(Snapshot)) THEN 0 ELSE disk[e]]

(* redqueen_workdir_<id> is created unless it exists; one entry for all ids. *)
WithRedqueen ==
  IF Exists("redqueen") THEN disk ELSE [disk EXCEPT !["redqueen"] = campaign]

ParentGone == parent \in {"idle", "ended"}
(* Nothing is left of an earlier campaign. *)
Fresh == Present = {} \/ (~ParentGone /\ \A e \in Present : disk[e] = campaign)

Started(c) == child[c] \in {"wait", "load", "running"}

-----------------------------------------------------------------------------
(* The parent *)

(* A campaign begins in a directory that no instance is using. *)
MayBegin ==
  /\ ParentGone
  /\ user = "idle"
  /\ campaign < MaxCampaign
  /\ \A c \in Child : Started(c) => child[c] = "wait" /\ (EarlyChild \/ Present = {})

(* Faulty: the directory is not cleared. *)
ParentStartUncleared ==
  /\ MayBegin
  /\ campaign' = campaign + 1
  /\ parent' = "prepare"
  /\ made' = 0
  /\ whole' = FALSE
  /\ UNCHANGED <<disk, reuse, todo, children, users>>

(* prepare_workdir() enters clear_workdir(); set_reuse_snapshot_path() asks *)
(* before that for a path which exists.                                     *)
ParentStart ==
  /\ MayBegin
  /\ campaign' = campaign + 1
  /\ reuse' \in IF ReuseOwn /\ Exists("state") THEN BOOLEAN ELSE {FALSE}
  /\ parent' = "clear"
  /\ todo' = Present
  /\ made' = 0
  /\ whole' = FALSE
  /\ UNCHANGED <<disk, children, users>>

(* remove_dir_all(), entry by entry, a folder after what is in it. *)
ParentUnlink ==
  /\ parent = "clear"
  /\ \E e \in todo :
       /\ e = "snapshot" => todo \cap ToSet(Snapshot) = {}
       /\ todo' = todo \ {e}
       /\ disk' = [disk EXCEPT ![e] = 0]
  /\ UNCHANGED <<campaign, parent, reuse, made, children, users, whole>>

ParentCleared ==
  /\ parent = "clear"
  /\ todo = {}
  /\ parent' = "prepare"
  /\ UNCHANGED <<disk, campaign, reuse, todo, made, children, users, whole>>

(* The next entry is created, unless it exists; nothing is truncated. *)
ParentPrepare ==
  /\ parent = "prepare"
  /\ made < Len(Prepared)
  /\ LET e == Prepared[made + 1]
     IN disk' = IF Exists(e) THEN disk ELSE [disk EXCEPT ![e] = campaign]
  /\ made' = made + 1
  /\ UNCHANGED <<campaign, parent, reuse, todo, children, users, whole>>

(* prepare_redqueen_workdir(); QEMU is spawned, with load=off unless it is   *)
(* to reuse a snapshot.                                                      *)
ParentBoot ==
  /\ parent = "prepare"
  /\ made = Len(Prepared)
  /\ parent' = "boot"
  /\ made' = 0
  /\ disk' = WithRedqueen
  /\ whole' = TRUE
  /\ UNCHANGED <<campaign, reuse, todo, children, users>>

(* QEMU serializes the root snapshot. *)
QemuSerialize ==
  /\ parent = "boot" /\ ~reuse
  /\ made < Len(Snapshot)
  /\ disk' = [disk EXCEPT ![Snapshot[made + 1]] = campaign]
  /\ made' = made + 1
  /\ UNCHANGED <<campaign, parent, reuse, todo, children, users, whole>>

(* The parent ends, by shutdown() or at any other point by a crash. *)
ParentEnd ==
  /\ ~ParentGone
  /\ parent' = "ended"
  /\ todo' = {}
  /\ made' = 0
  /\ UNCHANGED <<disk, campaign, reuse, children, users, whole>>

-----------------------------------------------------------------------------
(* A child *)

ChildStart(c) ==
  /\ child[c] = "idle"
  /\ user = "idle"
  /\ EarlyChild \/ Fresh
  /\ child' = [child EXCEPT ![c] = "wait"]
  /\ UNCHANGED <<disk, parents, seen, users, whole>>

(* exists() for the next file of the list; a missing one is polled for. *)
ChildPoll(c) ==
  /\ child[c] = "wait"
  /\ seen[c] < Len(WaitFor)
  /\ Exists(WaitFor[seen[c] + 1])
  /\ seen' = [seen EXCEPT ![c] = @ + 1]
  /\ UNCHANGED <<disk, parents, child, users, whole>>

(* Faulty: the wait has an end of its own. *)
ChildFoundImpatient(c) ==
  /\ child[c] = "wait"
  /\ child' = [child EXCEPT ![c] = "load"]
  /\ UNCHANGED <<disk, parents, seen, users, whole>>

ChildFound(c) ==
  /\ child[c] = "wait"
  /\ seen[c] = Len(WaitFor)
  /\ child' = [child EXCEPT ![c] = "load"]
  /\ UNCHANGED <<disk, parents, seen, users, whole>>

(* prepare_redqueen_workdir(), then QEMU is spawned with load=on. *)
ChildLoad(c) ==
  /\ child[c] = "load"
  /\ child' = [child EXCEPT ![c] = "running"]
  /\ disk' = WithRedqueen
  /\ UNCHANGED <<parents, seen, users, whole>>

ChildEnd(c) ==
  /\ Started(c)
  /\ child' = [child EXCEPT ![c] = "ended"]
  /\ UNCHANGED <<disk, parents, seen, users, whole>>

-----------------------------------------------------------------------------
(* remove_work_dir(), called when the campaign is over *)

RemoveStart ==
  /\ user = "idle"
  /\ removals < MaxRemove
  /\ ParentGone /\ \A c \in Child : ~Started(c)
  /\ user' = "check"
  /\ done' = 0 /\ result' = "none" /\ deleted' = FALSE
  /\ removals' = removals + 1
  /\ UNCHANGED <<disk, parents, children, whole>>

Refuse ==
  /\ user' = "idle"
  /\ result' = "Err"
  /\ UNCHANGED <<disk, done, deleted>>

(* Faulty: each sub directory is removed as soon as it is found. *)
RemoveCheckEager ==
  /\ user = "check"
  /\ IF done < Len(Folders)
     THEN IF Exists(Folders[done + 1])
          THEN /\ done' = done + 1
               /\ disk' = Without(Folders[done + 1])
               /\ deleted' = TRUE
               /\ UNCHANGED <<user, result>>
          ELSE Refuse
     ELSE user' = "rest" /\ UNCHANGED <<disk, done, result, deleted>>
  /\ UNCHANGED <<parents, children, removals, whole>>

(* All sub directories have to be there. *)
RemoveCheck ==
  /\ user = "check"
  /\ IF done < Len(Folders)
     THEN IF Exists(Folders[done + 1])
          THEN done' = done + 1 /\ UNCHANGED <<disk, user, result, deleted>>
          ELSE Refuse
     ELSE user' = "remove" /\ done' = 0 /\ UNCHANGED <<disk, result, deleted>>
  /\ UNCHANGED <<parents, children, removals, whole>>

RemoveFolder ==
  /\ user = "remove"
  /\ IF done < Len(Folders)
     THEN /\ disk' = Without(Folders[done + 1])
          /\ deleted' = TRUE /\ whole' = FALSE
          /\ done' = done + 1
          /\ UNCHANGED user
     ELSE user' = "rest" /\ UNCHANGED <<disk, deleted, done, whole>>
  /\ UNCHANGED <<result, removals, parents, children>>

(* Whatever is left goes too. *)
RemoveRest ==
  /\ user = "rest"
  /\ user' = "idle"
  /\ result' = "Ok"
  /\ disk' = [e \in Entry |-> 0]
  /\ UNCHANGED <<done, deleted, removals, parents, children, whole>>

(* The caller dies on the way. *)
RemoveCrash ==
  /\ user # "idle"
  /\ user' = "idle"
  /\ UNCHANGED <<disk, done, result, deleted, removals, parents, children, whole>>

-----------------------------------------------------------------------------
Preparing == ParentUnlink \/ ParentCleared \/ ParentPrepare \/ ParentBoot \/ QemuSerialize
Waiting(c) == ChildPoll(c) \/ ChildFound(c) \/ ChildLoad(c)
Removing == RemoveCheck \/ RemoveFolder \/ RemoveRest

Next ==
  \/ ParentStart \/ Preparing \/ ParentEnd
  \/ \E c \in Child : ChildStart(c) \/ Waiting(c) \/ ChildEnd(c)
  \/ RemoveStart \/ Removing \/ RemoveCrash

Spec == Init /\ [][Next]_vars

(* Each process runs on until it ends, and QEMU writes its snapshot. *)
FairSpec == Spec /\ WF_vars(Preparing) /\ \A c \in Child : WF_vars(Waiting(c))

-----------------------------------------------------------------------------
(* Properties *)

(* A child that stops waiting finds what it is about to map, all of it, and  *)
(* of the campaign of its own parent.                                        *)
SnapshotComplete ==
  \A c \in Child : child[c] = "load" => \A e \in Needed : disk[e] = campaign

(* A snapshot that is to be reused is there when QEMU loads it. *)
ReusedSnapshotThere ==
  parent = "boot" /\ reuse => \A e \in ToSet(Snapshot) : Exists(e)

(* The QEMU of a parent never starts on files of an earlier campaign, whose  *)
(* page cache or input filter would not be that of this target.              *)
BootsOnOwnFiles ==
  parent = "boot" => \A e \in ToSet(Prepared) : disk[e] = campaign

(* remove_work_dir() refuses only a directory that no parent has prepared to *)
(* the end, or whose removal was begun before and killed; what lives in      *)
(* between, and dies, never makes it unremovable.  A refusal has not removed *)
(* anything.                                                                 *)
RefusalExplained ==
  [][user = "check" /\ result' = "Err" => ~whole /\ ~deleted]_vars

(* A child waits no longer than its parent's preparations last, unless the   *)
(* parent is gone.                                                           *)
ChildrenStart ==
  \A c \in Child : child[c] = "wait" /\ parent = "boot" ~> child[c] # "wait" \/ ParentGone

(* The directory implements SnapshotStore: a snapshot is stored while all    *)
(* that a child maps is there and of this campaign, and is over with the     *)
(* parent that could have written it.                                        *)
Complete == \A e \in Needed : Exists(e) /\ disk[e] = campaign

Stored ==
  CASE Complete                -> "stored"
    [] ~Complete /\ ParentGone -> "gone"
    [] OTHER                   -> "none"

Attached == {c \in Child : child[c] \in {"load", "running"}}
Spent    == {c \in Child : child[c] = "ended"}

Store == INSTANCE SnapshotStore
           WITH latest <- campaign, stored <- Stored, attached <- Attached, spent <- Spent

(* A snapshot is published once, and as a whole; a child attaches to that of *)
(* its own campaign; nobody withdraws it while a child is attached, not even *)
(* by killing the parent or a removal on the way (see SnapshotStore).        *)
StoreSpec == Store!Spec

=============================================================================
