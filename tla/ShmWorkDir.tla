------------------------------ MODULE ShmWorkDir ------------------------------
(***************************************************************************)
(* The per-VM directories /dev/shm/nyx_<pid>_<tid>/ and the links to them  *)
(* from the work directories (fuzz_runner/src/nyx/qemu_process.rs).        *)
(*                                                                         *)
(* A VM's directory is owned through an flock() on its file "lock".  Every *)
(* StandAlone or Parent instance sweeps /dev/shm before it starts: it      *)
(* removes each directory whose lock it can take.  Sweeps, creations and   *)
(* shutdowns of different processes interleave system call by system call, *)
(* and each process may be killed between any two of them; reading a       *)
(* directory, and copying the bytes of a file, count as one call.          *)
(*                                                                         *)
(* Each thread of the model is a process of its own, so that its name is   *)
(* its pid and tid; a restarted process is another thread.  The files      *)
(* bitmap, ijon and input, which the code treats alike one after the       *)
(* other, are one file here, and so are the links bitmap_<id>, ijon_<id>   *)
(* and payload_<id>.                                                       *)
(***************************************************************************)
EXTENDS Naturals, FiniteSets

CONSTANTS
  Thread,       \* the threads that create instances; also the directory names
  Collector,    \* those of role StandAlone or Parent, which sweep first
  SlotOf,       \* thread |-> <<work directory, worker id>>
  NoLink,       \* no bitmap_<id> in the work directory
  PartFile,     \* bitmap_<id> is a copy that shutdown() has begun
  PlainFile,    \* bitmap_<id> is the copy that shutdown() leaves
  MaxNew,       \* bound: calls of new() by one thread
  OneAtATime    \* does a thread keep at most one instance alive?

ASSUME ShmAssumption ==
  /\ Collector \subseteq Thread
  /\ {NoLink, PartFile, PlainFile} \cap Thread = {}
  /\ NoLink \notin {PartFile, PlainFile} /\ PartFile # PlainFile
  /\ MaxNew \in Nat
  /\ OneAtATime \in BOOLEAN

Slot == {SlotOf[t] : t \in Thread}

(* The lock file of a directory, told apart from later ones of that name. *)
LockFile == Thread \X Nat
NoFile   == <<>>

VARIABLES
  \* /dev/shm and the work directories
  dir,      \* the names under which a directory exists
  lock,     \* name |-> number of the file "lock" in its directory, 0 if none
  made,     \* name |-> how many lock files were ever created under it
  data,     \* the names whose directory has the file bitmap
  link,     \* slot |-> the name its link leads to, NoLink, PartFile or PlainFile
  \* the threads
  pc,       \* where each thread is
  calls,    \* calls of new() so far
  todo,     \* names the sweep under way has yet to visit
  fd,       \* the lock file the call under way works with
  rm,       \* entries that remove_dir_all() still has to unlink
  held,     \* the lock files each thread has locked
  live      \* the lock files of its running instances

tmpfs  == <<dir, lock, made, data>>
locals == <<todo, fd, rm>>
vars   == <<tmpfs, link, pc, calls, locals, held, live>>

-----------------------------------------------------------------------------
Dead == {"crashed", "panicked"}

(* The types, and what flock() means: a lock file has one holder at most. *)
TypeOK ==
  /\ dir \subseteq Thread
  /\ lock \in [Thread -> Nat]
  /\ made \in [Thread -> Nat]
  /\ data \subseteq Thread
  /\ link \in [Slot -> Thread \cup {NoLink, PartFile, PlainFile}]
  /\ pc \in [Thread -> {"idle", "sweep", "try", "scan", "remove", "mkdir", "openLock",
                        "lock", "openData", "link", "unlink", "symlink", "boot",
                        "replace", "copy", "fill"} \cup Dead]
  /\ calls \in [Thread -> Nat]
  /\ todo \in [Thread -> SUBSET Thread]
  /\ fd \in [Thread -> LockFile \cup {NoFile}]
  /\ rm \in [Thread -> SUBSET {"lock", "data"}]
  /\ held \in [Thread -> SUBSET LockFile]
  /\ live \in [Thread -> SUBSET LockFile]
  /\ \A t, u \in Thread : t # u => held[t] \cap held[u] = {}

Init ==
  /\ dir = {} /\ data = {}
  /\ lock = [n \in Thread |-> 0]
  /\ made = [n \in Thread |-> 0]
  /\ link = [s \in Slot |-> NoLink]
  /\ pc = [t \in Thread |-> "idle"]
  /\ calls = [t \in Thread |-> 0]
  /\ todo = [t \in Thread |-> {}]
  /\ fd = [t \in Thread |-> NoFile]
  /\ rm = [t \in Thread |-> {}]
  /\ held = [t \in Thread |-> {}]
  /\ live = [t \in Thread |-> {}]

-----------------------------------------------------------------------------
Goto(t, there) == pc' = [pc EXCEPT ![t] = there]

Active(t) == pc[t] \notin Dead /\ (pc[t] # "idle" \/ live[t] # {})

(* Nobody has it locked, through whatever file descriptor. *)
Free(f) == \A t \in Thread : f \notin held[t]

Entries(n) ==
  {e \in {"lock", "data"} : IF e = "lock" THEN lock[n] # 0 ELSE n \in data}

(* The thread is in the last step of shutdown(), not in a sweep. *)
Own(t) == fd[t] \in live[t]

(* The process ends, by a panic or killed: the kernel drops its locks. *)
End(t, how) ==
  /\ Goto(t, how)
  /\ todo' = [todo EXCEPT ![t] = {}]
  /\ fd' = [fd EXCEPT ![t] = NoFile]
  /\ rm' = [rm EXCEPT ![t] = {}]
  /\ held' = [held EXCEPT ![t] = {}]
  /\ live' = [live EXCEPT ![t] = {}]
  /\ UNCHANGED <<tmpfs, link, calls>>

(* Path::exists() follows the link. *)
LinkExists(s) == link[s] \in {PartFile, PlainFile} \cup data

-----------------------------------------------------------------------------
(* NyxProcess::new(): the sweep *)

(* What the caller owes: worker ids of a work directory are not in use      *)
(* twice at a time, nor is a work directory that a parent is to clear.      *)
MayStart(t) ==
  \A u \in Thread \ {t} :
    \/ ~Active(u)
    \/ IF t \in Collector THEN SlotOf[u][1] # SlotOf[t][1] ELSE SlotOf[u] # SlotOf[t]

(* Faulty: a child clears the work directory, too. *)
NewClearing(t) ==
  /\ pc[t] = "idle"
  /\ calls[t] < MaxNew
  /\ OneAtATime => live[t] = {}
  /\ MayStart(t)
  /\ calls' = [calls EXCEPT ![t] = @ + 1]
  /\ link' = [s \in Slot |-> IF s[1] = SlotOf[t][1] THEN NoLink ELSE link[s]]
  /\ IF t \in Collector
     THEN Goto(t, "sweep") /\ todo' = [todo EXCEPT ![t] = dir]
     ELSE Goto(t, "mkdir") /\ UNCHANGED todo
  /\ UNCHANGED <<tmpfs, fd, rm, held, live>>

(* A Parent or StandAlone clears its work directory and globs /dev/shm. *)
New(t) ==
  /\ pc[t] = "idle"
  /\ calls[t] < MaxNew
  /\ OneAtATime => live[t] = {}
  /\ MayStart(t)
  /\ calls' = [calls EXCEPT ![t] = @ + 1]
  /\ IF t \in Collector
     THEN /\ Goto(t, "sweep")
          /\ todo' = [todo EXCEPT ![t] = dir]
          /\ link' = [s \in Slot |-> IF s[1] = SlotOf[t][1] THEN NoLink ELSE link[s]]
     ELSE /\ Goto(t, "mkdir")
          /\ UNCHANGED <<todo, link>>
  /\ UNCHANGED <<tmpfs, fd, rm, held, live>>

(* The next directory; one without a lock file is passed over. *)
SweepNext(t) ==
  /\ pc[t] = "sweep"
  /\ \E n \in todo[t] :
       /\ todo' = [todo EXCEPT ![t] = @ \ {n}]
       /\ IF lock[n] # 0
          THEN Goto(t, "try") /\ fd' = [fd EXCEPT ![t] = <<n, lock[n]>>]
          ELSE UNCHANGED <<pc, fd>>
  /\ UNCHANGED <<tmpfs, link, calls, rm, held, live>>

SweepEnd(t) ==
  /\ pc[t] = "sweep"
  /\ todo[t] = {}
  /\ Goto(t, "mkdir")
  /\ UNCHANGED <<tmpfs, link, calls, locals, held, live>>

(* Faulty: the directory is removed whether or not its lock is free. *)
TryLockIgnored(t) ==
  /\ pc[t] = "try"
  /\ Goto(t, "scan")
  /\ held' = IF Free(fd[t]) THEN [held EXCEPT ![t] = @ \cup {fd[t]}] ELSE held
  /\ UNCHANGED <<tmpfs, link, calls, locals, live>>

(* Faulty: a lock that was taken is not followed by the removal. *)
TryLockOnly(t) ==
  /\ pc[t] = "try"
  /\ Goto(t, "sweep")
  /\ fd' = [fd EXCEPT ![t] = NoFile]
  /\ UNCHANGED <<tmpfs, link, calls, todo, rm, held, live>>

(* try_lock_exclusive(): a directory whose lock is taken is left alone. *)
TryLock(t) ==
  /\ pc[t] = "try"
  /\ IF Free(fd[t])
     THEN /\ Goto(t, "scan")
          /\ held' = [held EXCEPT ![t] = @ \cup {fd[t]}]
          /\ UNCHANGED fd
     ELSE /\ Goto(t, "sweep")
          /\ fd' = [fd EXCEPT ![t] = NoFile]
          /\ UNCHANGED held
  /\ UNCHANGED <<tmpfs, link, calls, todo, rm, live>>

-----------------------------------------------------------------------------
(* remove_dir_all(), in a sweep and at the end of shutdown() *)

(* The directory was handled, successfully or not; an instance keeps its    *)
(* lock until it is dropped.                                                *)
Leave(t, unlock) ==
  /\ fd' = [fd EXCEPT ![t] = NoFile]
  /\ rm' = [rm EXCEPT ![t] = {}]
  /\ Goto(t, IF Own(t) THEN "idle" ELSE "sweep")
  /\ live' = [live EXCEPT ![t] = @ \ {fd[t]}]
  /\ held' = IF unlock THEN [held EXCEPT ![t] = @ \ {fd[t]}] ELSE held
  /\ UNCHANGED <<link, calls, todo>>

(* Faulty: the file with the lock outlives its turn of the sweep. *)
RemovedKeepingLock(t) == Leave(t, FALSE)

(* A sweep lets go of the lock with the file that it goes out of scope with.*)
Removed(t) == Leave(t, ~Own(t))

(* An error is a warning for a sweep and a panic for shutdown(). *)
RemoveFails(t) ==
  IF Own(t) THEN End(t, "panicked") ELSE Removed(t) /\ UNCHANGED tmpfs

ScanDir(t) ==
  /\ pc[t] = "scan"
  /\ IF fd[t][1] \in dir
     THEN /\ Goto(t, "remove")
          /\ rm' = [rm EXCEPT ![t] = Entries(fd[t][1])]
          /\ UNCHANGED <<tmpfs, link, calls, todo, fd, held, live>>
     ELSE RemoveFails(t)

Unlink(t) ==
  /\ pc[t] = "remove"
  /\ \E e \in rm[t] :
       /\ rm' = [rm EXCEPT ![t] = @ \ {e}]
       /\ lock' = IF e = "lock" THEN [lock EXCEPT ![fd[t][1]] = 0] ELSE lock
       /\ data' = IF e = "data" THEN data \ {fd[t][1]} ELSE data
  /\ UNCHANGED <<dir, made, link, pc, calls, todo, fd, held, live>>

RemoveDir(t) ==
  /\ pc[t] = "remove"
  /\ rm[t] = {}
  /\ IF fd[t][1] \in dir /\ Entries(fd[t][1]) = {}
     THEN Removed(t) /\ dir' = dir \ {fd[t][1]} /\ UNCHANGED <<lock, made, data>>
     ELSE RemoveFails(t)

-----------------------------------------------------------------------------
(* QemuProcess::new(): create_shm_work_dir(), the shared files, the links *)

MakeDir(t) ==
  /\ pc[t] = "mkdir"
  /\ Goto(t, "openLock")
  /\ dir' = dir \cup {t}
  /\ UNCHANGED <<lock, made, data, link, calls, locals, held, live>>

(* The lock file is created unless it exists; without a directory, a panic. *)
OpenLock(t) ==
  /\ pc[t] = "openLock"
  /\ IF t \in dir
     THEN /\ Goto(t, "lock")
          /\ IF lock[t] = 0
             THEN /\ made' = [made EXCEPT ![t] = @ + 1]
                  /\ lock' = [lock EXCEPT ![t] = made[t] + 1]
             ELSE UNCHANGED <<made, lock>>
          /\ fd' = [fd EXCEPT ![t] = <<t, lock'[t]>>]
          /\ UNCHANGED <<dir, data, link, calls, todo, rm, held, live>>
     ELSE End(t, "panicked")

(* Faulty: a shared lock. *)
LockDirShared(t) ==
  /\ pc[t] = "lock"
  /\ Goto(t, "openData")
  /\ held' = [held EXCEPT ![t] = @ \cup {fd[t]}]
  /\ UNCHANGED <<tmpfs, link, calls, locals, live>>

(* lock_exclusive() waits until the lock is free. *)
LockDir(t) ==
  /\ pc[t] = "lock"
  /\ Free(fd[t])
  /\ Goto(t, "openData")
  /\ held' = [held EXCEPT ![t] = @ \cup {fd[t]}]
  /\ UNCHANGED <<tmpfs, link, calls, locals, live>>

OpenData(t) ==
  /\ pc[t] = "openData"
  /\ IF t \in dir
     THEN /\ Goto(t, "link")
          /\ data' = data \cup {t}
          /\ UNCHANGED <<dir, lock, made, link, calls, locals, held, live>>
     ELSE End(t, "panicked")

(* Faulty: nothing is removed before the symlink(). *)
LookAtLinkNot(t) ==
  /\ pc[t] = "link"
  /\ Goto(t, "symlink")
  /\ UNCHANGED <<tmpfs, link, calls, locals, held, live>>

(* Is there an old link, or copy, under the name?  A dangling link does not *)
(* exist for Path::exists().                                                *)
LookAtLink(t) ==
  /\ pc[t] = "link"
  /\ Goto(t, IF LinkExists(SlotOf[t]) THEN "unlink" ELSE "symlink")
  /\ UNCHANGED <<tmpfs, link, calls, locals, held, live>>

(* remove_file() and go on there, or panic if there is nothing to remove. *)
RemoveLink(t, there) ==
  IF link[SlotOf[t]] # NoLink
  THEN /\ Goto(t, there)
       /\ link' = [link EXCEPT ![SlotOf[t]] = NoLink]
       /\ UNCHANGED <<tmpfs, calls, locals, held, live>>
  ELSE End(t, "panicked")

RemoveOldLink(t) == pc[t] = "unlink" /\ RemoveLink(t, "symlink")

(* symlink() fails on a name that is taken, if only by a dangling link. *)
MakeLink(t) ==
  /\ pc[t] = "symlink"
  /\ IF link[SlotOf[t]] = NoLink
     THEN /\ Goto(t, "boot")
          /\ link' = [link EXCEPT ![SlotOf[t]] = t]
          /\ UNCHANGED <<tmpfs, calls, locals, held, live>>
     ELSE End(t, "panicked")

(* QEMU is spawned and boots: Ok, or an Err that drops what new() had.  The *)
(* panics on this way are those of Crash.                                   *)
Boot(t) ==
  /\ pc[t] = "boot"
  /\ Goto(t, "idle")
  /\ fd' = [fd EXCEPT ![t] = NoFile]
  /\ \/ live' = [live EXCEPT ![t] = @ \cup {fd[t]}] /\ UNCHANGED held
     \/ held' = [held EXCEPT ![t] = @ \ {fd[t]}] /\ UNCHANGED live
  /\ UNCHANGED <<tmpfs, link, calls, todo, rm>>

-----------------------------------------------------------------------------
(* The end of an instance *)

(* shutdown() kills QEMU and waits for it. *)
Shutdown(t) ==
  /\ pc[t] = "idle"
  /\ \E f \in live[t] : fd' = [fd EXCEPT ![t] = f]
  /\ Goto(t, "replace")
  /\ UNCHANGED <<tmpfs, link, calls, todo, rm, held, live>>

(* The link is replaced by a copy of what it led to: it is removed first. *)
TakeBack(t) == pc[t] = "replace" /\ RemoveLink(t, "copy")

(* fs::copy() opens the original and makes an empty file, *)
BeginCopy(t) ==
  /\ pc[t] = "copy"
  /\ IF t \in data
     THEN /\ Goto(t, "fill")
          /\ link' = [link EXCEPT ![SlotOf[t]] = PartFile]
          /\ UNCHANGED <<tmpfs, calls, locals, held, live>>
     ELSE End(t, "panicked")

(* and copies the bytes. *)
EndCopy(t) ==
  /\ pc[t] = "fill"
  /\ Goto(t, "scan")
  /\ link' = [link EXCEPT ![SlotOf[t]] = PlainFile]
  /\ UNCHANGED <<tmpfs, calls, locals, held, live>>

(* A NyxProcess is dropped, after shutdown() or without it: its lock is     *)
(* released.  The C interface never does this.                              *)
Drop(t) ==
  /\ pc[t] = "idle"
  /\ \E f \in held[t] :
       /\ held' = [held EXCEPT ![t] = @ \ {f}]
       /\ live' = [live EXCEPT ![t] = @ \ {f}]
  /\ UNCHANGED <<tmpfs, link, pc, calls, locals>>

Crash(t) ==
  /\ pc[t] \notin Dead
  /\ calls[t] > 0
  /\ End(t, "crashed")

-----------------------------------------------------------------------------
Library(t) ==
  \/ SweepNext(t) \/ SweepEnd(t) \/ TryLock(t)
  \/ ScanDir(t) \/ Unlink(t) \/ RemoveDir(t)
  \/ MakeDir(t) \/ OpenLock(t) \/ LockDir(t)
  \/ OpenData(t) \/ LookAtLink(t) \/ RemoveOldLink(t) \/ MakeLink(t) \/ Boot(t)
  \/ TakeBack(t) \/ BeginCopy(t) \/ EndCopy(t)

User(t) == New(t) \/ Shutdown(t) \/ Drop(t)

Next == \E t \in Thread : Library(t) \/ User(t) \/ Crash(t)

Spec == Init /\ [][Next]_vars

(* A thread inside the library keeps running until it crashes. *)
FairSpec == Spec /\ \A t \in Thread : WF_vars(Library(t))

-----------------------------------------------------------------------------
(* Properties *)

(* A running VM keeps its directory and its shared files, whatever other    *)
(* processes sweep, crash or retry, and its link leads there.               *)
LiveDirIntact ==
  \A t \in Thread :
    live[t] # {} /\ pc[t] = "idle" =>
      /\ t \in dir
      /\ t \in data
      /\ link[SlotOf[t]] = t

(* The owner of a directory is gone, or has no further use for it. *)
Orphan(n) == ~Active(n)

(* shutdown() never panics: the link is there to be replaced, the files to   *)
(* be copied and the directory to be removed, whatever others do.  And new() *)
(* never misses the old link it has seen, and trips over one it has not seen *)
(* only if another process left it behind, one that ended before it replaced *)
(* the link and whose directory has been swept since.                        *)
PanicsExplained ==
  [][\A t \in Thread :
       pc[t] \notin Dead /\ pc'[t] = "panicked" =>
         /\ ~Own(t)
         /\ pc[t] # "unlink"
         /\ pc[t] = "symlink" =>
              /\ link[SlotOf[t]] \in Thread \ {t}
              /\ Orphan(link[SlotOf[t]])]_vars

(* Only orphaned directories are swept. *)
SweepsOnlyOrphans ==
  \A t \in Thread :
    pc[t] \in {"scan", "remove"} /\ ~Own(t) => Orphan(fd[t][1])

(* The directories implement SharedStore: a file counts as stored only in a  *)
(* directory that exists, a VM runs until shutdown() takes its link back and *)
(* is then saved until the copy is complete.                                 *)
Storage == dir \cap data
Running == {t \in Thread : live[t] # {} /\ pc[t] \in {"idle", "replace"}}
Saving  == {t \in Thread : pc[t] \in {"copy", "fill"}}

Store == INSTANCE SharedStore
           WITH storage <- Storage, view <- link, running <- Running, saving <- Saving

(* The files and the link of a VM are complete before it runs and until its  *)
(* end, and its files are there until they are copied; a copy that is whole  *)
(* stays until its name is used again or the work directory is cleared.  No  *)
(* other VM's start, end or sweep does any of this, and a process killed     *)
(* between two calls leaves no more behind than what it had got to: a name   *)
(* with nothing under it, half a copy, or its last link.                     *)
StoreSpec == Store!Spec

(* Every new() and shutdown() comes to an end. *)
CallsReturn ==
  \A t \in Thread : Active(t) /\ pc[t] # "idle" ~> pc[t] \in {"idle"} \cup Dead

(* An orphaned directory with a lock file that a sweep finds is removed by  *)
(* it, or by another sweep that was faster, unless a sweep is killed.       *)
SweepCollects ==
  \A n \in Thread :
    (Orphan(n) /\ lock[n] # 0 /\ \E t \in Thread : n \in todo[t])
      ~> (n \notin dir \/ Active(n) \/ \E t \in Collector : pc[t] \in Dead)

=============================================================================
