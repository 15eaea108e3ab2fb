--------------------------- MODULE ShmWorkDirProofs ---------------------------
(***************************************************************************)
(* A running VM never loses its directory, for any number of processes,    *)
(* calls, sweeps and crashes, as long as no sweep works under a lock file  *)
(* that has been replaced since it was opened (SweepsFresh).  Then the     *)
(* lock that the sweep holds and the one that the VM holds are not the     *)
(* same.  Nothing in the code sees to it; it cannot happen if no directory *)
(* name is used twice (MaxNew = 1), and it does with MaxNew = 2.           *)
(***************************************************************************)
EXTENDS ShmWorkDir, TLAPS

-----------------------------------------------------------------------------
(* The lock under which a directory is emptied is the newest of its name. *)
SweepsFresh ==
  \A t \in Thread : pc[t] \in {"scan", "remove"} => fd[t][2] = made[fd[t][1]]

(* A thread has one VM at a time. *)
NewAlone == OneAtATime \/ MaxNew = 1

-----------------------------------------------------------------------------
(* The inductive invariant *)

(* On the way to the link, and from the link to the copy. *)
Linking == {"link", "unlink", "symlink"}
Ending  == {"replace", "copy", "fill"}

(* The lock file in a directory is the newest of that name, and a thread     *)
(* that has not called new() has nothing.                                    *)
Locks ==
  \A t \in Thread :
    /\ lock[t] \in {0, made[t]}
    /\ calls[t] <= MaxNew
    /\ calls[t] = 0 => pc[t] = "idle" /\ live[t] = {}

(* What a thread works with, and what it holds, at each place.               *)
Stages ==
  \A t \in Thread :
    /\ pc[t] \in {"try", "scan", "remove"} => fd[t] # NoFile
    /\ pc[t] \in {"lock", "openData", "boot"} \cup Linking \cup Ending =>
         fd[t] = <<t, made[t]>>
    /\ pc[t] \in {"openData", "boot", "scan", "remove"} \cup Linking \cup Ending =>
         fd[t] \in held[t]
    /\ live[t] \subseteq held[t] \cap {<<t, made[t]>>}
    /\ live[t] # {} => pc[t] \in {"idle", "scan", "remove"} \cup Ending
    /\ live[t] # {} /\ pc[t] \in {"scan", "remove"} => Own(t)
    /\ pc[t] \in Ending => Own(t)

(* Who holds the lock of a directory is the only one to empty it. *)
DataThere ==
  \A t \in Thread :
    pc[t] \in {"boot"} \cup Linking \/ (live[t] # {} /\ pc[t] # "remove") =>
      t \in dir /\ t \in data

LinkThere ==
  \A t \in Thread :
    pc[t] = "boot" \/ (live[t] # {} /\ pc[t] \in {"idle", "replace"}) =>
      link[SlotOf[t]] = t

(* What the caller owes is kept. *)
Apart ==
  \A t, u \in Thread :
    t # u /\ Active(t) /\ Active(u) => SlotOf[t] # SlotOf[u]

IInv == TypeOK /\ Locks /\ Stages /\ DataThere /\ LinkThere /\ Apart

USE DEF Linking, Ending

-----------------------------------------------------------------------------
LEMMA InitInvariant == Init => IInv
  BY ShmAssumption
     DEF Init, IInv, TypeOK, Locks, Stages, DataThere, LinkThere, Apart, Active, Own,
         Slot, LockFile, NoFile

LEMMA FileFacts ==
  /\ NoFile \notin LockFile
  /\ \A n \in Thread, k \in Nat :
       /\ <<n, k>> \in LockFile /\ <<n, k>> # NoFile
       /\ <<n, k>>[1] = n /\ <<n, k>>[2] = k
  /\ \A f \in LockFile : f[1] \in Thread /\ f[2] \in Nat /\ f = <<f[1], f[2]>>
  BY DEF LockFile, NoFile

-----------------------------------------------------------------------------
(* Types and locks, for any number of calls of new() by a thread *)

(* There is an open lock file wherever one is needed. *)
Opened ==
  \A t \in Thread :
    pc[t] \in {"try", "scan", "remove", "lock", "openData", "boot"} \cup Linking \cup Ending =>
      fd[t] \in LockFile

LEMMA StepTypes == TypeOK /\ Opened /\ [Next]_vars => TypeOK' /\ Opened'
<1> SUFFICES ASSUME TypeOK, Opened, [Next]_vars PROVE TypeOK' /\ Opened'
  OBVIOUS
<1> USE ShmAssumption, FileFacts
<1>1. CASE UNCHANGED vars
  BY <1>1 DEF vars, tmpfs, locals, TypeOK, Opened
<1>2. ASSUME NEW t \in Thread, NEW how \in Dead, End(t, how) PROVE TypeOK' /\ Opened'
  BY <1>2 DEF End, Dead, tmpfs, Goto, TypeOK, Opened
<1>3. ASSUME NEW t \in Thread, Removed(t), dir' \subseteq dir, UNCHANGED <<lock, made, data>>
      PROVE  TypeOK' /\ Opened'
  BY <1>3 DEF Removed, Leave, Goto, TypeOK, Opened
<1>4. ASSUME NEW t \in Thread, RemoveFails(t) PROVE TypeOK' /\ Opened'
  BY <1>2, <1>3, <1>4 DEF RemoveFails, Dead, tmpfs
<1>5. ASSUME NEW t \in Thread, Library(t) \/ User(t) \/ Crash(t) PROVE TypeOK' /\ Opened'
  <2>1. CASE New(t)
    BY <2>1 DEF New, Goto, tmpfs, TypeOK, Opened
  <2>2. CASE SweepNext(t)
    <3>1. \A n \in todo[t] : <<n, lock[n]>> \in LockFile
      BY DEF TypeOK
    <3> QED BY <2>2, <3>1 DEF SweepNext, Goto, tmpfs, TypeOK, Opened
  <2>3. CASE SweepEnd(t) \/ Shutdown(t)
    BY <2>3 DEF SweepEnd, Shutdown, Goto, tmpfs, locals, TypeOK, Opened
  <2>4. CASE TryLock(t)
    BY <2>4 DEF TryLock, Free, Goto, tmpfs, TypeOK, Opened
  <2>5. CASE ScanDir(t)
    <3>1. CASE fd[t][1] \in dir
      <4>1. Entries(fd[t][1]) \subseteq {"lock", "data"}
        BY DEF Entries
      <4> QED BY <2>5, <3>1, <4>1 DEF ScanDir, Goto, tmpfs, TypeOK, Opened
    <3>2. CASE fd[t][1] \notin dir
      BY <2>5, <3>2, <1>4 DEF ScanDir
    <3> QED BY <3>1, <3>2
  <2>6. CASE Unlink(t)
    BY <2>6 DEF Unlink, TypeOK, Opened
  <2>7. CASE RemoveDir(t)
    BY <2>7, <1>3, <1>4 DEF RemoveDir
  <2>8. CASE MakeDir(t)
    BY <2>8 DEF MakeDir, Goto, locals, TypeOK, Opened
  <2>9. CASE OpenLock(t)
    <3>1. CASE t \in dir
      <4>1. lock'[t] \in Nat
        BY <2>9, <3>1 DEF OpenLock, TypeOK
      <4> QED BY <2>9, <3>1, <4>1 DEF OpenLock, Goto, TypeOK, Opened
    <3>2. CASE t \notin dir
      BY <2>9, <3>2, <1>2 DEF OpenLock, Dead
    <3> QED BY <3>1, <3>2
  <2>10. CASE LockDir(t)
    BY <2>10 DEF LockDir, Free, Goto, tmpfs, locals, TypeOK, Opened
  <2>11. CASE OpenData(t)
    BY <2>11, <1>2 DEF OpenData, Dead, Goto, locals, TypeOK, Opened
  <2>12. CASE LookAtLink(t) \/ MakeLink(t) \/ BeginCopy(t) \/ EndCopy(t)
    <3>1. SlotOf[t] \in Slot
      BY DEF Slot
    <3> QED BY <2>12, <3>1, <1>2 DEF LookAtLink, MakeLink, BeginCopy, EndCopy, Dead, Goto, tmpfs,
               locals, TypeOK, Opened
  <2>13. CASE Boot(t)
    BY <2>13 DEF Boot, Goto, tmpfs, TypeOK, Opened
  <2>14. CASE RemoveOldLink(t) \/ TakeBack(t)
    <3>1. SlotOf[t] \in Slot
      BY DEF Slot
    <3> QED BY <2>14, <3>1, <1>2 DEF RemoveOldLink, TakeBack, RemoveLink, Dead, Goto, tmpfs,
       locals,
               TypeOK, Opened
  <2>15. CASE Drop(t)
    BY <2>15 DEF Drop, tmpfs, locals, TypeOK, Opened
  <2>16. CASE Crash(t)
    BY <2>16, <1>2 DEF Crash, Dead
  <2> QED BY <1>5, <2>1, <2>2, <2>3, <2>4, <2>5, <2>6, <2>7, <2>8, <2>9, <2>10, <2>11, <2>12,
             <2>13, <2>14, <2>15, <2>16 DEF Library, User
<1> QED BY <1>1, <1>5 DEF Next

(* Types, and one holder for each lock file at a time.                       *)
THEOREM TypeCorrect == Spec => []TypeOK
<1>1. Init => TypeOK /\ Opened
  BY InitInvariant DEF IInv, Init, Opened
<1> QED BY <1>1, StepTypes, PTL DEF Spec

-----------------------------------------------------------------------------
(* The steps of the invariant *)

LEMMA StepTypeOK == IInv /\ [Next]_vars => TypeOK'
<1>1. IInv => TypeOK /\ Opened
  <2> SUFFICES ASSUME IInv, NEW t \in Thread,
                      pc[t] \in {"try", "scan", "remove", "lock", "openData", "boot"}
                                \cup Linking \cup Ending
               PROVE  fd[t] \in LockFile
    BY DEF IInv, Opened
  <2>1. CASE pc[t] \in {"try", "scan", "remove"}
    BY <2>1 DEF IInv, Stages, TypeOK
  <2>2. CASE pc[t] \in {"lock", "openData", "boot"} \cup Linking \cup Ending
    <3>1. fd[t] = <<t, made[t]>> /\ made[t] \in Nat
      BY <2>2 DEF IInv, Stages, TypeOK
    <3> QED BY <3>1, FileFacts
  <2> QED BY <2>1, <2>2
<1> QED BY <1>1, StepTypes

(* The directory under work belongs to nobody who needs it.                  *)
LEMMA WorksOnNoVM ==
  ASSUME IInv, SweepsFresh, NEW t \in Thread, pc[t] \in {"scan", "remove"},
         NEW u \in Thread, u # t,
         pc[u] \in {"openData", "boot"} \cup Linking \cup Ending \/ live[u] # {}
  PROVE  u # fd[t][1]
<1>1. fd[t] \in held[t] /\ fd[t] = <<fd[t][1], made[fd[t][1]]>>
  BY FileFacts DEF IInv, Stages, SweepsFresh, TypeOK
<1>2. <<u, made[u]>> \in held[u]
  <2>1. CASE live[u] # {}
    BY <2>1 DEF IInv, Stages
  <2>2. CASE pc[u] \in {"openData", "boot"} \cup Linking \cup Ending
    BY <2>2 DEF IInv, Stages
  <2> QED BY <2>1, <2>2
<1> QED BY <1>1, <1>2 DEF IInv, TypeOK

(* A process may end anywhere. *)
LEMMA EndInvariant ==
  ASSUME NEW t \in Thread, NEW how \in Dead, IInv, TypeOK', calls[t] # 0, End(t, how)
  PROVE  IInv'
<1> USE ShmAssumption DEF IInv, End, tmpfs, Dead
<1>1. Locks'
  BY FileFacts DEF Locks, Stages, TypeOK, Goto
<1>2. Stages'
  BY FileFacts DEF Stages, Locks, TypeOK, Own, Goto
<1>3. DataThere'
  BY FileFacts DEF DataThere, Stages, TypeOK, Own, Goto
<1>4. LinkThere'
  BY FileFacts DEF LinkThere, Stages, TypeOK, Own, Goto
<1>5. Apart'
  BY FileFacts DEF Apart, Active, Dead, TypeOK, Goto
<1> QED BY <1>1, <1>2, <1>3, <1>4, <1>5

(* The end of remove_dir_all(). *)
LEMMA RemovedInvariant ==
  ASSUME NEW t \in Thread, IInv, TypeOK', SweepsFresh, pc[t] \in {"scan", "remove"},
         Removed(t), dir' \in {dir, dir \ {fd[t][1]}}, UNCHANGED <<lock, made, data>>
  PROVE  IInv'
<1> USE ShmAssumption DEF IInv, Removed, Leave
<1>1. Locks'
  BY FileFacts DEF Locks, Stages, TypeOK, Goto
<1>2. Stages'
  BY FileFacts DEF Stages, Locks, TypeOK, Own, Goto
<1>3. DataThere'
  <2>1. live'[t] = {} /\ pc'[t] \in {"idle", "sweep"}
    BY DEF Stages, Own, Goto, TypeOK
  <2>2. \A u \in Thread \ {t} : pc'[u] = pc[u] /\ live'[u] = live[u]
    BY DEF Goto, TypeOK
  <2>3. ASSUME NEW u \in Thread, u # t, pc[u] \in {"boot"} \cup Linking \/ live[u] # {}
        PROVE  u # fd[t][1]
    BY <2>3, WorksOnNoVM
  <2> QED BY <2>1, <2>2, <2>3 DEF DataThere
<1>4. LinkThere'
  BY FileFacts DEF LinkThere, Stages, TypeOK, Own, Goto
<1>5. Apart'
  BY FileFacts DEF Apart, Active, Dead, TypeOK, Goto
<1> QED BY <1>1, <1>2, <1>3, <1>4, <1>5

(* The steps on the name in the work directory, but for their panics. *)
NameStep(t) ==
  \E there, x :
    /\ \/ pc[t] = "link" /\ there \in {"unlink", "symlink"}
       \/ pc[t] = "unlink" /\ there = "symlink"
       \/ pc[t] = "symlink" /\ there = "boot" /\ x = t
       \/ pc[t] = "replace" /\ there = "copy"
       \/ pc[t] = "copy" /\ there = "fill"
       \/ pc[t] = "fill" /\ there = "scan"
    /\ Goto(t, there)
    /\ link' = [link EXCEPT ![SlotOf[t]] = x]
    /\ UNCHANGED <<tmpfs, calls, locals, held, live>>

Naming(t) ==
  \/ LookAtLink(t) \/ RemoveOldLink(t) \/ MakeLink(t)
  \/ TakeBack(t) \/ BeginCopy(t) \/ EndCopy(t)

LEMMA NamingSteps ==
  ASSUME TypeOK, NEW t \in Thread, Naming(t)
  PROVE  /\ pc[t] \in Linking \cup Ending
         /\ NameStep(t) \/ End(t, "panicked")
<1>1. link = [link EXCEPT ![SlotOf[t]] = link[SlotOf[t]]]
  BY DEF TypeOK, Slot
<1>2. CASE LookAtLink(t)
  BY <1>1, <1>2 DEF LookAtLink, NameStep
<1>3. CASE RemoveOldLink(t) \/ TakeBack(t)
  BY <1>3 DEF RemoveOldLink, TakeBack, RemoveLink, NameStep
<1>4. CASE MakeLink(t)
  BY <1>4 DEF MakeLink, NameStep
<1>5. CASE BeginCopy(t) \/ EndCopy(t)
  BY <1>5 DEF BeginCopy, EndCopy, NameStep
<1> QED BY <1>2, <1>3, <1>4, <1>5 DEF Naming

LEMMA NameInvariant ==
  ASSUME NEW t \in Thread, IInv, TypeOK', NameStep(t)
  PROVE  IInv'
<1> USE ShmAssumption DEF IInv, tmpfs, locals
<1>1. PICK there, x : NameStep(t)!(there, x)
  BY DEF NameStep
<1>2. Locks'
  BY <1>1, FileFacts DEF Locks, Stages, TypeOK, Goto
<1>3. Stages'
  BY <1>1, FileFacts DEF Stages, Locks, TypeOK, Own, Goto
<1>4. DataThere'
  BY <1>1, FileFacts DEF DataThere, Stages, TypeOK, Own, Goto
<1>5. LinkThere'
  <2>1. \A u \in Thread : u # t /\ Active(u) => SlotOf[u] # SlotOf[t]
    BY <1>1 DEF Apart, Active, Dead
  <2>2. \A u \in Thread : u # t /\ Active(u) => link'[SlotOf[u]] = link[SlotOf[u]]
    BY <1>1, <2>1 DEF TypeOK, Slot
  <2>3. link'[SlotOf[t]] = x
    BY <1>1 DEF TypeOK, Slot
  <2>4. \A u \in Thread : pc[u] = "boot" \/ live[u] # {} => Active(u)
    BY DEF Active, Stages, Dead
  <2>5. pc' = [pc EXCEPT ![t] = there] /\ UNCHANGED live
    BY <1>1 DEF Goto
  <2>6. there = "boot" => x = t
    BY <1>1
  <2>7. there \notin {"idle", "replace"}
    BY <1>1
  <2> QED BY <2>2, <2>3, <2>4, <2>5, <2>6, <2>7 DEF LinkThere, TypeOK
<1>6. Apart'
  BY <1>1, FileFacts DEF Apart, Active, Dead, TypeOK, Goto
<1> QED BY <1>2, <1>3, <1>4, <1>5, <1>6

LEMMA StepInvariant ==
  ASSUME NewAlone
  PROVE  IInv /\ SweepsFresh /\ [Next]_vars => IInv'
<1> SUFFICES ASSUME IInv, SweepsFresh, [Next]_vars PROVE IInv'
  OBVIOUS
<1>0. TypeOK'
  BY StepTypeOK
<1> USE ShmAssumption, <1>0 DEF IInv, tmpfs, locals
<1>1. ASSUME NEW t \in Thread, SweepNext(t) PROVE IInv'
  <2>1. Locks'
    BY <1>1, FileFacts DEF Locks, Stages, TypeOK, Goto, SweepNext
  <2>2. Stages'
    BY <1>1, FileFacts DEF Stages, Locks, TypeOK, Own, Goto, SweepNext
  <2>3. DataThere'
    BY <1>1, FileFacts DEF DataThere, Stages, TypeOK, Own, Goto, SweepNext
  <2>4. LinkThere'
    BY <1>1, FileFacts DEF LinkThere, Stages, TypeOK, Own, Goto, SweepNext
  <2>5. Apart'
    BY <1>1, FileFacts DEF Apart, Active, Dead, TypeOK, Goto, SweepNext
  <2> QED BY <2>1, <2>2, <2>3, <2>4, <2>5
<1>2. ASSUME NEW t \in Thread, SweepEnd(t) PROVE IInv'
  <2>1. Locks'
    BY <1>2, FileFacts DEF Locks, Stages, TypeOK, Goto, SweepEnd
  <2>2. Stages'
    BY <1>2, FileFacts DEF Stages, Locks, TypeOK, Own, Goto, SweepEnd
  <2>3. DataThere'
    BY <1>2, FileFacts DEF DataThere, Stages, TypeOK, Own, Goto, SweepEnd
  <2>4. LinkThere'
    BY <1>2, FileFacts DEF LinkThere, Stages, TypeOK, Own, Goto, SweepEnd
  <2>5. Apart'
    BY <1>2, FileFacts DEF Apart, Active, Dead, TypeOK, Goto, SweepEnd
  <2> QED BY <2>1, <2>2, <2>3, <2>4, <2>5
<1>3. ASSUME NEW t \in Thread, TryLock(t) PROVE IInv'
  <2>1. Locks'
    BY <1>3, FileFacts DEF Locks, Stages, TypeOK, Goto, TryLock
  <2>2. Stages'
    BY <1>3, FileFacts DEF Stages, Locks, TypeOK, Own, Goto, TryLock
  <2>3. DataThere'
    BY <1>3, FileFacts DEF DataThere, Stages, TypeOK, Own, Goto, TryLock
  <2>4. LinkThere'
    BY <1>3, FileFacts DEF LinkThere, Stages, TypeOK, Own, Goto, TryLock
  <2>5. Apart'
    BY <1>3, FileFacts DEF Apart, Active, Dead, TypeOK, Goto, TryLock
  <2> QED BY <2>1, <2>2, <2>3, <2>4, <2>5
<1>4. ASSUME NEW t \in Thread, Unlink(t) PROVE IInv'
  <2>1. Locks'
    BY <1>4, FileFacts DEF Locks, Stages, TypeOK, Goto, Unlink
  <2>2. Stages'
    BY <1>4, FileFacts DEF Stages, Locks, TypeOK, Own, Goto, Unlink
  <2>3. DataThere'
    <3>1. ASSUME NEW u \in Thread, u # t, pc[u] \in {"boot"} \cup Linking \/ live[u] # {}
          PROVE  u # fd[t][1]
      BY <1>4, <3>1, WorksOnNoVM DEF Unlink
    <3>2. /\ data \ {fd[t][1]} \subseteq data'
          /\ pc[t] = "remove"
          /\ UNCHANGED <<dir, pc, live>>
      BY <1>4 DEF Unlink
    <3> QED BY <3>1, <3>2 DEF DataThere
  <2>4. LinkThere'
    BY <1>4, FileFacts DEF LinkThere, Stages, TypeOK, Own, Goto, Unlink
  <2>5. Apart'
    BY <1>4, FileFacts DEF Apart, Active, Dead, TypeOK, Goto, Unlink
  <2> QED BY <2>1, <2>2, <2>3, <2>4, <2>5
<1>5. ASSUME NEW t \in Thread, MakeDir(t) PROVE IInv'
  <2>1. Locks'
    BY <1>5, FileFacts DEF Locks, Stages, TypeOK, Goto, MakeDir
  <2>2. Stages'
    BY <1>5, FileFacts DEF Stages, Locks, TypeOK, Own, Goto, MakeDir
  <2>3. DataThere'
    BY <1>5, FileFacts DEF DataThere, Stages, TypeOK, Own, Goto, MakeDir
  <2>4. LinkThere'
    BY <1>5, FileFacts DEF LinkThere, Stages, TypeOK, Own, Goto, MakeDir
  <2>5. Apart'
    BY <1>5, FileFacts DEF Apart, Active, Dead, TypeOK, Goto, MakeDir
  <2> QED BY <2>1, <2>2, <2>3, <2>4, <2>5
<1>6. ASSUME NEW t \in Thread, LockDir(t) PROVE IInv'
  <2>1. Locks'
    BY <1>6, FileFacts DEF Locks, Stages, TypeOK, Goto, LockDir
  <2>2. Stages'
    BY <1>6, FileFacts DEF Stages, Locks, TypeOK, Own, Goto, LockDir
  <2>3. DataThere'
    BY <1>6, FileFacts DEF DataThere, Stages, TypeOK, Own, Goto, LockDir
  <2>4. LinkThere'
    BY <1>6, FileFacts DEF LinkThere, Stages, TypeOK, Own, Goto, LockDir
  <2>5. Apart'
    BY <1>6, FileFacts DEF Apart, Active, Dead, TypeOK, Goto, LockDir
  <2> QED BY <2>1, <2>2, <2>3, <2>4, <2>5
<1>7. ASSUME NEW t \in Thread, Boot(t) PROVE IInv'
  <2>1. Locks'
    BY <1>7, FileFacts DEF Locks, Stages, TypeOK, Goto, Boot
  <2>2. Stages'
    BY <1>7, FileFacts DEF Stages, Locks, TypeOK, Own, Goto, Boot
  <2>3. DataThere'
    BY <1>7, FileFacts DEF DataThere, Stages, TypeOK, Own, Goto, Boot
  <2>4. LinkThere'
    BY <1>7, FileFacts DEF LinkThere, Stages, TypeOK, Own, Goto, Boot
  <2>5. Apart'
    BY <1>7, FileFacts DEF Apart, Active, Dead, TypeOK, Goto, Boot
  <2> QED BY <2>1, <2>2, <2>3, <2>4, <2>5
<1>8. ASSUME NEW t \in Thread, New(t) PROVE IInv'
  <2>1. Locks'
    BY <1>8, FileFacts DEF Locks, Stages, TypeOK, Goto, New, MayStart, Slot, NewAlone
  <2>2. Stages'
    BY <1>8, FileFacts DEF Stages, Locks, TypeOK, Own, Goto, New, MayStart, Slot, NewAlone
  <2>3. DataThere'
    BY <1>8 DEF DataThere, TypeOK, Goto, New
  <2>4. LinkThere'
    <3>1. pc'[t] \in {"sweep", "mkdir"} /\ UNCHANGED live
      BY <1>8 DEF New, Goto, TypeOK
    <3>2. ASSUME NEW u \in Thread, u # t, Active(u)
          PROVE  pc'[u] = pc[u] /\ link'[SlotOf[u]] = link[SlotOf[u]]
      <4>1. t \in Collector => SlotOf[u][1] # SlotOf[t][1]
        BY <1>8, <3>2 DEF New, MayStart
      <4>2. SlotOf[u] \in Slot
        BY DEF Slot
      <4> QED BY <1>8, <3>2, <4>1, <4>2 DEF New, Goto, TypeOK
    <3>3. \A u \in Thread : pc[u] = "boot" \/ live[u] # {} => Active(u)
      BY DEF Active, Stages, Dead
    <3>4. live[t] = {}
      BY <1>8 DEF New, NewAlone, Locks, TypeOK
    <3>5. ASSUME NEW u \in Thread, pc'[u] = "boot" \/ (live'[u] # {} /\ pc'[u] \in {"idle", "replace"})
          PROVE  link'[SlotOf[u]] = u
      <4>1. u # t
        BY <3>1, <3>4, <3>5
      <4>2. pc'[u] = pc[u] /\ live'[u] = live[u]
        BY <1>8, <3>1, <4>1 DEF New, Goto, TypeOK
      <4> QED BY <3>2, <3>3, <3>5, <4>1, <4>2 DEF LinkThere
    <3> QED BY <3>5 DEF LinkThere
  <2>5. Apart'
    BY <1>8 DEF Apart, Active, Dead, TypeOK, Goto, New, MayStart
  <2> QED BY <2>1, <2>2, <2>3, <2>4, <2>5
<1>9. ASSUME NEW t \in Thread, Shutdown(t) PROVE IInv'
  <2>1. Locks'
    BY <1>9, FileFacts DEF Locks, Stages, TypeOK, Goto, Shutdown
  <2>2. Stages'
    BY <1>9, FileFacts DEF Stages, Locks, TypeOK, Own, Goto, Shutdown
  <2>3. DataThere'
    BY <1>9, FileFacts DEF DataThere, Stages, TypeOK, Own, Goto, Shutdown
  <2>4. LinkThere'
    BY <1>9, FileFacts DEF LinkThere, Stages, TypeOK, Own, Goto, Shutdown
  <2>5. Apart'
    BY <1>9, FileFacts DEF Apart, Active, Dead, TypeOK, Goto, Shutdown
  <2> QED BY <2>1, <2>2, <2>3, <2>4, <2>5
<1>10. ASSUME NEW t \in Thread, Drop(t) PROVE IInv'
  <2>1. Locks'
    BY <1>10, FileFacts DEF Locks, Stages, TypeOK, Goto, Drop
  <2>2. Stages'
    BY <1>10, FileFacts DEF Stages, Locks, TypeOK, Own, Goto, Drop
  <2>3. DataThere'
    BY <1>10, FileFacts DEF DataThere, Stages, TypeOK, Own, Goto, Drop
  <2>4. LinkThere'
    BY <1>10, FileFacts DEF LinkThere, Stages, TypeOK, Own, Goto, Drop
  <2>5. Apart'
    BY <1>10, FileFacts DEF Apart, Active, Dead, TypeOK, Goto, Drop
  <2> QED BY <2>1, <2>2, <2>3, <2>4, <2>5
<1>11. ASSUME NEW t \in Thread, OpenLock(t) PROVE IInv'
  <2>1. CASE t \in dir
    <3>1. Locks'
      BY <1>11, <2>1, FileFacts DEF Locks, Stages, TypeOK, Goto, OpenLock
    <3>2. Stages'
      BY <1>11, <2>1, FileFacts DEF Stages, Locks, TypeOK, Own, Goto, OpenLock
    <3>3. DataThere'
      BY <1>11, <2>1, FileFacts DEF DataThere, Stages, TypeOK, Own, Goto, OpenLock
    <3>4. LinkThere'
      BY <1>11, <2>1, FileFacts DEF LinkThere, Stages, TypeOK, Own, Goto, OpenLock
    <3>5. Apart'
      BY <1>11, <2>1, FileFacts DEF Apart, Active, Dead, TypeOK, Goto, OpenLock
    <3> QED BY <3>1, <3>2, <3>3, <3>4, <3>5
  <2>2. CASE ~(t \in dir)
    <3>1. End(t, "panicked") /\ calls[t] # 0
      BY <1>11, <2>2 DEF OpenLock, Locks
    <3> QED BY <3>1, EndInvariant DEF Dead
  <2> QED BY <2>1, <2>2
<1>12. ASSUME NEW t \in Thread, OpenData(t) PROVE IInv'
  <2>1. CASE t \in dir
    <3>1. Locks'
      BY <1>12, <2>1, FileFacts DEF Locks, Stages, TypeOK, Goto, OpenData
    <3>2. Stages'
      BY <1>12, <2>1, FileFacts DEF Stages, Locks, TypeOK, Own, Goto, OpenData
    <3>3. DataThere'
      BY <1>12, <2>1, FileFacts DEF DataThere, Stages, TypeOK, Own, Goto, OpenData
    <3>4. LinkThere'
      BY <1>12, <2>1, FileFacts DEF LinkThere, Stages, TypeOK, Own, Goto, OpenData
    <3>5. Apart'
      BY <1>12, <2>1, FileFacts DEF Apart, Active, Dead, TypeOK, Goto, OpenData
    <3> QED BY <3>1, <3>2, <3>3, <3>4, <3>5
  <2>2. CASE ~(t \in dir)
    <3>1. End(t, "panicked") /\ calls[t] # 0
      BY <1>12, <2>2 DEF OpenData, Locks
    <3> QED BY <3>1, EndInvariant DEF Dead
  <2> QED BY <2>1, <2>2
<1>13. ASSUME NEW t \in Thread, Naming(t) PROVE IInv'
  <2>1. CASE NameStep(t)
    BY <2>1, NameInvariant
  <2>2. CASE End(t, "panicked")
    <3>1. calls[t] # 0
      BY <1>13, NamingSteps DEF Locks
    <3> QED BY <2>2, <3>1, EndInvariant DEF Dead
  <2> QED BY <1>13, <2>1, <2>2, NamingSteps
<1>15. ASSUME NEW t \in Thread, ScanDir(t) PROVE IInv'
  <2>1. CASE fd[t][1] \in dir
    <3>1. Locks'
      BY <1>15, <2>1, FileFacts DEF Locks, Stages, TypeOK, Goto, ScanDir
    <3>2. Stages'
      BY <1>15, <2>1, FileFacts DEF Stages, Locks, TypeOK, Own, Goto, ScanDir
    <3>3. DataThere'
      BY <1>15, <2>1, FileFacts DEF DataThere, Stages, TypeOK, Own, Goto, ScanDir
    <3>4. LinkThere'
      BY <1>15, <2>1, FileFacts DEF LinkThere, Stages, TypeOK, Own, Goto, ScanDir
    <3>5. Apart'
      BY <1>15, <2>1, FileFacts DEF Apart, Active, Dead, TypeOK, Goto, ScanDir
    <3> QED BY <3>1, <3>2, <3>3, <3>4, <3>5
  <2>2. CASE fd[t][1] \notin dir
    <3>1. RemoveFails(t) /\ pc[t] = "scan" /\ calls[t] # 0
      BY <1>15, <2>2 DEF ScanDir, Locks
    <3>2. CASE Own(t)
      BY <3>1, <3>2, EndInvariant DEF RemoveFails, Dead
    <3>3. CASE ~Own(t)
      BY <3>1, <3>3, RemovedInvariant DEF RemoveFails
    <3> QED BY <3>2, <3>3
  <2> QED BY <2>1, <2>2
<1>16. ASSUME NEW t \in Thread, RemoveDir(t) PROVE IInv'
  <2>1. CASE fd[t][1] \in dir /\ Entries(fd[t][1]) = {}
    BY <1>16, <2>1, RemovedInvariant DEF RemoveDir
  <2>2. CASE ~(fd[t][1] \in dir /\ Entries(fd[t][1]) = {})
    <3>1. RemoveFails(t) /\ pc[t] = "remove" /\ calls[t] # 0
      BY <1>16, <2>2 DEF RemoveDir, Locks
    <3>2. CASE Own(t)
      BY <3>1, <3>2, EndInvariant DEF RemoveFails, Dead
    <3>3. CASE ~Own(t)
      BY <3>1, <3>3, RemovedInvariant DEF RemoveFails
    <3> QED BY <3>2, <3>3
  <2> QED BY <2>1, <2>2
<1>17. ASSUME NEW t \in Thread, Crash(t) PROVE IInv'
  <2>1. End(t, "crashed") /\ calls[t] # 0
    BY <1>17 DEF Crash
  <2> QED BY <2>1, EndInvariant DEF Dead
<1>18. CASE UNCHANGED vars
  BY <1>18 DEF vars, TypeOK, Locks, Stages, DataThere, LinkThere, Apart, Active, Own
<1> QED BY <1>1, <1>2, <1>3, <1>4, <1>5, <1>6, <1>7, <1>8, <1>9, <1>10,
          <1>11, <1>12, <1>13, <1>15, <1>16, <1>17, <1>18 DEF Next, Library, User, Naming

(* The invariant, for any number of calls if the sweeps are fresh.           *)
THEOREM Invariant ==
  ASSUME NewAlone
  PROVE  Spec /\ []SweepsFresh => []IInv
<1>1. IInv /\ SweepsFresh /\ [Next]_vars => IInv'
  BY StepInvariant
<1> QED BY <1>1, InitInvariant, PTL DEF Spec

(* Whatever the processes do, and however often they call new(), a running   *)
(* VM keeps its files: only a sweep under a replaced lock file can take them.*)
THEOREM FreshSweepsAreSafe ==
  ASSUME NewAlone
  PROVE  Spec /\ []SweepsFresh => []LiveDirIntact
<1>1. IInv => LiveDirIntact
  BY DEF IInv, DataThere, LinkThere, LiveDirIntact
<1> QED BY <1>1, Invariant, PTL

-----------------------------------------------------------------------------
(* Where no directory name is used twice *)

(* The thread has not created the lock file of its own directory yet. *)
Early(t) ==
  \/ calls[t] = 0
  \/ pc[t] \in {"sweep", "try", "mkdir", "openLock"}
  \/ pc[t] \in {"scan", "remove"} /\ ~Own(t)

(* There is one lock file per name at most, ever: the one a sweep has opened.*)
Once ==
  \A t \in Thread :
    /\ Early(t) => made[t] = 0
    /\ pc[t] \in {"try", "scan", "remove"} =>
         /\ fd[t][2] = made[fd[t][1]]
         /\ Own(t) \/ made[fd[t][1]] # 0

LEMMA StepOnce ==
  ASSUME MaxNew = 1, IInv, Once, [Next]_vars
  PROVE  Once'
<1> USE ShmAssumption, FileFacts DEF IInv
<1>1. CASE UNCHANGED vars
  BY <1>1 DEF vars, tmpfs, locals, Once, Early, Own
<1>2. ASSUME NEW u \in Thread, Library(u) \/ User(u) \/ Crash(u) PROVE Once'
  <2>1. CASE SweepNext(u)
    BY <1>2, <2>1 DEF SweepNext, Once, Early, Own, Locks, Stages, TypeOK, Goto, tmpfs
  <2>2. CASE TryLock(u)
    BY <2>2 DEF TryLock, Once, Early, Own, Stages, TypeOK, Goto, tmpfs
  <2>3. CASE Naming(u)
    <3>1. CASE NameStep(u)
      BY <3>1 DEF NameStep, Once, Early, Own, Locks, Stages, TypeOK, Goto, tmpfs, locals
    <3>2. CASE End(u, "panicked")
      BY <2>3, <3>2, NamingSteps DEF End, Once, Early, Own, Locks, Stages, TypeOK, Goto, tmpfs
    <3> QED BY <2>3, <3>1, <3>2, NamingSteps
  <2>4. CASE OpenLock(u)
    BY <2>4 DEF OpenLock, End, Once, Early, Own, Locks, Stages, TypeOK, Goto, tmpfs
  <2>5. CASE ScanDir(u) \/ RemoveDir(u)
    BY <2>5 DEF ScanDir, RemoveDir, RemoveFails, Removed, Leave, End, Once, Early, Own, Locks,
                Stages, TypeOK, Goto, tmpfs
  <2>6. CASE Unlink(u)
    BY <2>6 DEF Unlink, Once, Early, Own
  <2>7. CASE SweepEnd(u) \/ MakeDir(u) \/ LockDir(u) \/ OpenData(u) \/ Boot(u)
    BY <2>7 DEF SweepEnd, MakeDir, LockDir, OpenData, Boot, End, Once, Early, Own, Locks,
                Stages, TypeOK, Goto, tmpfs, locals
  <2>8. CASE User(u)
    BY <2>8 DEF User, New, Shutdown, Drop, Once, Early, Own, Locks,
                Stages, TypeOK, Goto, tmpfs, locals
  <2>9. CASE Crash(u)
    BY <2>9 DEF Crash, End, Once, Early, Own, Locks, Stages, TypeOK, Goto, tmpfs, Dead
  <2> QED BY <1>2, <2>1, <2>2, <2>3, <2>4, <2>5, <2>6, <2>7, <2>8, <2>9 DEF Library, Naming
<1> QED BY <1>1, <1>2 DEF Next

(* If no directory name is used twice, no sweep works under a replaced lock  *)
(* file: the assumption of the theorems above and below is met.              *)
THEOREM SweepsAreFresh ==
  ASSUME MaxNew = 1
  PROVE  Spec => []SweepsFresh
<1>1. Init => IInv /\ Once
  BY InitInvariant DEF Init, Once, Early
<1>2. IInv /\ Once => SweepsFresh
  BY DEF Once, SweepsFresh
<1>3. NewAlone
  BY DEF NewAlone
<1>4. IInv /\ SweepsFresh /\ [Next]_vars => IInv'
  BY <1>3, StepInvariant
<1>5. IInv /\ Once /\ [Next]_vars => Once'
  BY StepOnce
<1> QED BY <1>1, <1>2, <1>4, <1>5, PTL DEF Spec

(* If no directory name is used twice, no sweep ever takes anything from a   *)
(* running VM, however many processes sweep, start, stop and crash.          *)
THEOREM LiveDirIsSafe ==
  ASSUME MaxNew = 1
  PROVE  Spec => []LiveDirIntact
<1>1. NewAlone
  BY DEF NewAlone
<1> QED BY <1>1, SweepsAreFresh, FreshSweepsAreSafe, PTL

-----------------------------------------------------------------------------
(* Panics *)

(* A link that leads to a thread's directory is in that thread's slot. *)
LinkSlots ==
  \A s \in Slot : link[s] \in Thread => SlotOf[link[s]] = s

(* While shutdown() empties its directory nothing new appears in it. *)
OwnRemoval ==
  \A t \in Thread :
    pc[t] = "remove" /\ Own(t) => t \in dir /\ Entries(t) \subseteq rm[t]

(* An old link that was seen is there until it is removed; one that was not  *)
(* seen was dangling, and that of another thread.                            *)
Seen ==
  \A t \in Thread :
    /\ pc[t] = "unlink" => link[SlotOf[t]] # NoLink
    /\ pc[t] = "symlink" => link[SlotOf[t]] \in {NoLink} \cup (Thread \ {t})

LEMMA InitPanics == Init => LinkSlots /\ OwnRemoval /\ Seen
  BY ShmAssumption DEF Init, LinkSlots, OwnRemoval, Seen

LEMMA StepLinkSlots == IInv /\ LinkSlots /\ [Next]_vars => LinkSlots'
<1> SUFFICES ASSUME IInv, LinkSlots, [Next]_vars PROVE LinkSlots'
  OBVIOUS
<1> USE ShmAssumption DEF IInv, TypeOK, LinkSlots
<1>1. CASE UNCHANGED link
  BY <1>1
<1>2. ASSUME NEW t \in Thread, New(t) PROVE LinkSlots'
  <2>1. \A s \in Slot : link'[s] \in {link[s], NoLink}
    BY <1>2 DEF New
  <2> QED BY <2>1
<1>3. ASSUME NEW t \in Thread, Naming(t) PROVE LinkSlots'
  <2>1. SlotOf[t] \in Slot
    BY DEF Slot
  <2>2. \E x \in {NoLink, PartFile, PlainFile, t, link[SlotOf[t]]} :
          link' = [link EXCEPT ![SlotOf[t]] = x]
    BY <1>3, <2>1 DEF Naming, LookAtLink, RemoveOldLink, MakeLink, TakeBack, RemoveLink,
       BeginCopy,
       EndCopy, End
  <2> QED
    BY <2>1, <2>2
<1>5. ASSUME NEW t \in Thread,
             \/ SweepNext(t) \/ SweepEnd(t) \/ TryLock(t)
             \/ ScanDir(t) \/ Unlink(t) \/ RemoveDir(t)
             \/ MakeDir(t) \/ OpenLock(t) \/ LockDir(t)
             \/ OpenData(t) \/ Boot(t)
             \/ Shutdown(t) \/ Drop(t) \/ Crash(t)
      PROVE  UNCHANGED link
  BY <1>5 DEF SweepNext, SweepEnd, TryLock, ScanDir, RemoveFails, Removed, Leave,
     Unlink, RemoveDir, MakeDir, OpenLock, LockDir, OpenData, Boot, Shutdown, Drop,
     Crash, End
<1> QED
  BY <1>1, <1>2, <1>3, <1>5 DEF Next, Library, User, Naming, vars

(* A call under way keeps its name in the work directory to itself. *)
LEMMA OthersNames ==
  ASSUME IInv, NEW t \in Thread, NEW u \in Thread, u # t, Library(u) \/ User(u) \/ Crash(u)
  PROVE  /\ pc'[t] = pc[t]
         /\ Active(t) => link'[SlotOf[t]] = link[SlotOf[t]]
<1> USE ShmAssumption DEF IInv
<1>1. pc'[t] = pc[t]
  BY DEF TypeOK, Library, User, SweepNext, SweepEnd, TryLock, ScanDir,
     RemoveFails, Removed, Leave, Unlink, RemoveDir, MakeDir, OpenLock, LockDir, OpenData,
     LookAtLink, RemoveOldLink, MakeLink, TakeBack, RemoveLink, BeginCopy, EndCopy, Boot,
     New, Shutdown, Drop, Crash, End, Goto, tmpfs, locals
<1>2. ASSUME Active(t) PROVE link'[SlotOf[t]] = link[SlotOf[t]]
  <2>1. SlotOf[t] \in Slot
    BY DEF Slot
  <2>2. CASE New(u)
    BY <1>2, <2>1, <2>2 DEF New, MayStart, TypeOK
  <2>3. CASE Naming(u)
    <3>1. SlotOf[u] # SlotOf[t]
      BY <1>2, <2>3, NamingSteps DEF Apart, Active, Dead
    <3> QED BY <2>1, <2>3, <3>1 DEF Naming, LookAtLink, RemoveOldLink, MakeLink, TakeBack,
               RemoveLink, BeginCopy, EndCopy, End, TypeOK
  <2>4. CASE ~New(u) /\ ~Naming(u)
    BY <2>4 DEF Library, User, Naming, SweepNext, SweepEnd, TryLock, ScanDir,
       RemoveFails, Removed, Leave, Unlink, RemoveDir, MakeDir, OpenLock, LockDir, OpenData,
       Boot, Shutdown, Drop, Crash, End
  <2> QED BY <2>2, <2>3, <2>4
<1> QED BY <1>1, <1>2

LEMMA StepSeen == IInv /\ Seen /\ [Next]_vars => Seen'
<1> SUFFICES ASSUME IInv, Seen, [Next]_vars,
                    NEW t \in Thread, pc'[t] \in {"unlink", "symlink"}
             PROVE  /\ pc'[t] = "unlink" => link'[SlotOf[t]] # NoLink
                    /\ pc'[t] = "symlink" => link'[SlotOf[t]] \in {NoLink} \cup (Thread \ {t})
  BY DEF Seen
<1> USE ShmAssumption DEF IInv
<1>1. CASE UNCHANGED <<link, pc>>
  BY <1>1 DEF Seen
<1>2. SlotOf[t] \in Slot
  BY DEF Slot
<1>3. ASSUME NEW u \in Thread, Library(u) \/ User(u) \/ Crash(u), u # t
      PROVE  pc'[t] = pc[t] /\ link'[SlotOf[t]] = link[SlotOf[t]]
  BY <1>3, OthersNames DEF Active, Dead
<1>4. CASE LookAtLink(t)
  <2>1. t \in data
    BY <1>4 DEF LookAtLink, DataThere
  <2>2. link[SlotOf[t]] \in Thread \cup {NoLink, PartFile, PlainFile}
    BY <1>2 DEF TypeOK
  <2> QED BY <1>4, <2>1, <2>2 DEF LookAtLink, LinkExists, Goto, TypeOK
<1>5. CASE RemoveOldLink(t)
  BY <1>2, <1>5 DEF RemoveOldLink, RemoveLink, End, Goto, TypeOK
<1>6. ASSUME Library(t) \/ User(t) \/ Crash(t), ~LookAtLink(t), ~RemoveOldLink(t)
      PROVE  FALSE
  BY <1>6 DEF TypeOK, Library, User, SweepNext, SweepEnd, TryLock, ScanDir, RemoveFails,
     Removed, Leave, Unlink, RemoveDir, MakeDir, OpenLock, LockDir, OpenData,
     MakeLink, TakeBack, RemoveLink, BeginCopy, EndCopy, Boot, New, Shutdown, Drop, Crash, End,
     Goto
<1>7. CASE UNCHANGED vars
  BY <1>1, <1>7 DEF vars
<1> QED BY <1>3, <1>4, <1>5, <1>6, <1>7 DEF Next, Seen

LEMMA StepOwnRemoval == IInv /\ SweepsFresh /\ OwnRemoval /\ [Next]_vars => OwnRemoval'
<1> SUFFICES ASSUME IInv, SweepsFresh, OwnRemoval, [Next]_vars,
                    NEW t \in Thread, pc'[t] = "remove", Own(t)'
             PROVE  t \in dir' /\ Entries(t)' \subseteq rm'[t]
  BY DEF OwnRemoval
<1> USE ShmAssumption DEF IInv
<1>1. CASE UNCHANGED vars
  BY <1>1 DEF OwnRemoval, Own, Entries, vars, tmpfs, locals
<1>2. ASSUME NEW u \in Thread, Library(u) \/ User(u) \/ Crash(u), u # t
      PROVE  t \in dir' /\ Entries(t)' \subseteq rm'[t]
  <2>1. pc'[t] = pc[t] /\ fd'[t] = fd[t] /\ rm'[t] = rm[t] /\ live'[t] = live[t]
    BY <1>2 DEF TypeOK, Library, User, SweepNext, SweepEnd, TryLock, ScanDir,
       RemoveFails,
       Removed, Leave, Unlink, RemoveDir, MakeDir, OpenLock, LockDir, OpenData,
       LookAtLink,
         RemoveOldLink, MakeLink, TakeBack, RemoveLink, BeginCopy, EndCopy, Boot, New, Shutdown,
         Drop, Crash, End, Goto, tmpfs, locals
  <2>2. t \in dir /\ Entries(t) \subseteq rm[t]
    BY <2>1 DEF OwnRemoval, Own
  <2>3. lock'[t] \in {lock[t], 0} /\ (t \in data' => t \in data)
    BY <1>2 DEF TypeOK, Library, User, SweepNext, SweepEnd, TryLock, ScanDir,
       RemoveFails,
       Removed, Leave, Unlink, RemoveDir, MakeDir, OpenLock, LockDir, OpenData,
       LookAtLink,
         RemoveOldLink, MakeLink, TakeBack, RemoveLink, BeginCopy, EndCopy, Boot, New, Shutdown,
         Drop, Crash, End, tmpfs
  <2>4. Entries(t)' \subseteq Entries(t)
    BY <2>3 DEF Entries
  <2>5. t \in dir'
    <3>1. CASE RemoveDir(u)
      <4>1. t # fd[u][1]
        BY <1>2, <2>1, <3>1, WorksOnNoVM DEF RemoveDir, Own
      <4> QED
        BY <2>2, <3>1, <4>1 DEF RemoveDir, RemoveFails, End, tmpfs
    <3>2. CASE ~RemoveDir(u)
      BY <1>2, <2>2, <3>2 DEF Library, User, SweepNext, SweepEnd, TryLock, ScanDir,
         RemoveFails, Removed, Leave, Unlink, MakeDir, OpenLock, LockDir, OpenData,
         LookAtLink,
         RemoveOldLink, MakeLink, TakeBack, RemoveLink, BeginCopy, EndCopy, Boot, New, Shutdown,
         Drop, Crash, End, tmpfs
    <3> QED
      BY <3>1, <3>2
  <2> QED
    BY <2>1, <2>2, <2>4, <2>5
<1>3. CASE ScanDir(t)
  <2>1. Own(t)
    BY <1>3 DEF ScanDir, RemoveFails, Removed, Leave, End, Goto, Own, TypeOK
  <2>2. fd[t][1] = t
    BY <2>1, FileFacts DEF Own, Stages
  <2>3. t \in data /\ t \in dir
    BY <1>3, <2>1 DEF ScanDir, DataThere, Own
  <2> QED
    BY <1>3, <2>2, <2>3 DEF ScanDir, Entries, tmpfs, TypeOK
<1>4. CASE Unlink(t)
  <2>1. Own(t) /\ pc[t] = "remove"
    BY <1>4 DEF Unlink, Own
  <2>2. fd[t][1] = t
    BY <2>1, FileFacts DEF Own, Stages
  <2>3. t \in dir /\ Entries(t) \subseteq rm[t]
    BY <2>1 DEF OwnRemoval
  <2> QED
    BY <1>4, <2>2, <2>3 DEF Unlink, Entries, TypeOK
<1>5. ASSUME Library(t) \/ User(t) \/ Crash(t), ~ScanDir(t), ~Unlink(t)
      PROVE  pc'[t] # "remove"
  BY <1>5 DEF TypeOK, Library, User, SweepNext, SweepEnd, TryLock, RemoveFails,
     Removed, Leave, RemoveDir, MakeDir, OpenLock, LockDir, OpenData, LookAtLink,
         RemoveOldLink, MakeLink, TakeBack, RemoveLink, BeginCopy, EndCopy, Boot, New, Shutdown,
         Drop, Crash, End, Goto
<1> QED
  BY <1>1, <1>2, <1>3, <1>4, <1>5 DEF Next

(* Under the same assumption shutdown() never panics, nor does new() on the *)
(* removal of a link it has seen, and it trips over a link only if it is    *)
(* that of another process, which ended before it replaced the link.        *)
THEOREM FreshPanics ==
  ASSUME NewAlone
  PROVE  Spec /\ []SweepsFresh => PanicsExplained
<1> DEFINE Explained(t) ==
      /\ ~Own(t)
      /\ pc[t] # "unlink"
      /\ pc[t] = "symlink" =>
           /\ link[SlotOf[t]] \in Thread \ {t}
           /\ Orphan(link[SlotOf[t]])
<1>1. ASSUME IInv, LinkSlots, OwnRemoval, Seen, [Next]_vars,
             NEW t \in Thread, pc[t] \notin Dead, pc'[t] = "panicked"
      PROVE  Explained(t)
  <2> USE DEF IInv
  <2>1. \/ ScanDir(t) \/ RemoveDir(t) \/ OpenLock(t) \/ OpenData(t)
        \/ RemoveOldLink(t) \/ MakeLink(t) \/ TakeBack(t) \/ BeginCopy(t)
    <3>1. PICK u \in Thread : Library(u) \/ User(u) \/ Crash(u)
      BY <1>1 DEF Next, vars, Dead
    <3>2. u = t
      BY <1>1, <3>1 DEF TypeOK, Library, User, SweepNext, SweepEnd, TryLock,
         ScanDir,
         RemoveFails, Removed, Leave, Unlink, RemoveDir, MakeDir, OpenLock, LockDir,
         OpenData, LookAtLink,
         RemoveOldLink, MakeLink, TakeBack, RemoveLink, BeginCopy, EndCopy, Boot, New, Shutdown,
         Drop, Crash, End, Goto,
         Dead
    <3> QED
      BY <1>1, <3>1, <3>2 DEF TypeOK, Library, User, SweepNext, SweepEnd, TryLock,
         Unlink,
         MakeDir, LockDir, LookAtLink, EndCopy, Boot, New, Shutdown, Drop, Crash, End, Goto, Dead
  <2>2. ASSUME Own(t) PROVE FALSE
    <3>1. /\ fd[t][1] = t /\ live[t] # {}
          /\ pc[t] \in {"idle", "scan", "remove"} \cup Ending
      <4>1. fd[t] \in live[t] /\ live[t] \subseteq {<<t, made[t]>>}
        BY <1>1, <2>2 DEF Own, Stages
      <4>2. fd[t] = <<t, made[t]>>
        BY <4>1
      <4> QED
        BY <1>1, <4>1, <4>2, FileFacts DEF Stages
    <3>2. CASE ScanDir(t)
      BY <1>1, <3>1, <3>2 DEF ScanDir, DataThere, Goto, TypeOK
    <3>3. CASE RemoveDir(t)
      BY <1>1, <2>2, <3>1, <3>3 DEF RemoveDir, OwnRemoval, Removed, Leave, Goto,
         TypeOK
    <3>4. CASE TakeBack(t) \/ BeginCopy(t)
      BY <1>1, <3>1, <3>4, ShmAssumption DEF TakeBack, RemoveLink, BeginCopy, DataThere,
         LinkThere, Goto, TypeOK
    <3>5. CASE OpenLock(t) \/ OpenData(t) \/ RemoveOldLink(t) \/ MakeLink(t)
      BY <3>1, <3>5 DEF OpenLock, OpenData, RemoveOldLink, MakeLink
    <3> QED
      BY <2>1, <3>2, <3>3, <3>4, <3>5
  <2>3. pc[t] # "unlink"
    BY <1>1, <2>1 DEF Seen, RemoveOldLink, RemoveLink, ScanDir, RemoveDir, OpenLock, OpenData,
       MakeLink, TakeBack, BeginCopy, Goto, TypeOK
  <2>4. ASSUME pc[t] = "symlink"
        PROVE  link[SlotOf[t]] \in Thread \ {t} /\ Orphan(link[SlotOf[t]])
    <3> DEFINE n == link[SlotOf[t]]
    <3>1. n # NoLink
      BY <1>1, <2>1, <2>4 DEF ScanDir, RemoveDir, OpenLock, OpenData, RemoveOldLink, TakeBack,
         BeginCopy, MakeLink, Goto, TypeOK
    <3>2. n \in Thread \ {t}
      BY <1>1, <2>4, <3>1 DEF Seen
    <3>3. SlotOf[n] = SlotOf[t]
      BY <1>1, <3>2 DEF LinkSlots, Slot
    <3>4. ~Active(n)
      BY <1>1, <2>4, <3>2, <3>3 DEF Apart, Active, Dead
    <3> QED
      BY <3>2, <3>4 DEF Orphan
  <2> QED
    BY <2>2, <2>3, <2>4
<1>2. IInv /\ LinkSlots /\ OwnRemoval /\ Seen /\ [Next]_vars =>
        [\A t \in Thread : pc[t] \notin Dead /\ pc'[t] = "panicked" => Explained(t)]_vars
  BY <1>1
<1> QED
  BY <1>2, Invariant, InitPanics, StepLinkSlots, StepOwnRemoval, StepSeen, PTL
     DEF Spec, PanicsExplained

(* The same where no directory name is used twice.                           *)
THEOREM PanicsAreExplained ==
  ASSUME MaxNew = 1
  PROVE  Spec => PanicsExplained
<1>1. NewAlone
  BY DEF NewAlone
<1> QED BY <1>1, SweepsAreFresh, FreshPanics, PTL

-----------------------------------------------------------------------------
(* The refinement of SharedStore *)

(* A step of one thread is no start and no end of another's VM. *)
LEMMA OthersRun ==
  ASSUME IInv, NEW t \in Thread, Library(t) \/ User(t) \/ Crash(t)
  PROVE  Running' \ {t} = Running \ {t} /\ Saving' \ {t} = Saving \ {t}
<1>1. ASSUME NEW u \in Thread, u # t
      PROVE  pc'[u] = pc[u] /\ live'[u] = live[u]
  BY <1>1 DEF IInv, TypeOK, Library, User, SweepNext, SweepEnd, TryLock, ScanDir,
     RemoveFails, Removed, Leave, Unlink, RemoveDir, MakeDir, OpenLock, LockDir, OpenData,
     LookAtLink, RemoveOldLink, MakeLink, TakeBack, RemoveLink, BeginCopy, EndCopy, Boot, New,
     Shutdown, Drop, Crash, End, Goto, tmpfs, locals
<1> QED BY <1>1 DEF Running, Saving

(* A VM that runs or is being saved is at one of few places, with its own.  *)
LEMMA RunningVM ==
  ASSUME IInv, NEW u \in Running \cup Saving
  PROVE  /\ u \in Thread /\ Active(u)
         /\ pc[u] \in {"idle"} \cup Ending
         /\ live[u] # {}
         /\ u \in Storage
         /\ u \in Running => link[SlotOf[u]] = u
<1>1. u \in Thread /\ live[u] # {} /\ pc[u] \in {"idle"} \cup Ending
  BY DEF Running, Saving, IInv, Stages, Own
<1>2. u \in dir /\ u \in data
  BY <1>1 DEF IInv, DataThere
<1>3. u \in Running => link[SlotOf[u]] = u
  BY DEF IInv, LinkThere, Running
<1> QED BY <1>1, <1>2, <1>3 DEF Active, Dead, Storage

(* Nor is its name that of a thread in the middle of a call. *)
LEMMA NameFree ==
  ASSUME IInv, NEW t \in Thread, Active(t), NEW u \in Running \cup Saving, u # t
  PROVE  SlotOf[u] # SlotOf[t]
BY RunningVM DEF IInv, Apart

(* What remove_dir_all() works on belongs to no such VM. *)
LEMMA RemovesNoVM ==
  ASSUME IInv, SweepsFresh, NEW t \in Thread, pc[t] \in {"scan", "remove"}
  PROVE  fd[t][1] \in Thread \ (Running \cup Saving)
<1>1. fd[t][1] \in Thread
  BY FileFacts DEF IInv, Stages, TypeOK
<1>2. ASSUME NEW u \in Running \cup Saving PROVE u # fd[t][1]
  <2>1. u \in Thread /\ u # t /\ live[u] # {}
    BY RunningVM
  <2> QED BY <2>1, WorksOnNoVM
<1> QED BY <1>1, <1>2

(* Steps that leave the files and the links as they are: at most the VM ends.*)
LEMMA QuietStep ==
  ASSUME NEW t \in Thread, UNCHANGED <<dir, data, link>>,
         \/ UNCHANGED <<Running, Saving>>
         \/ Running' = Running \ {t} /\ Saving' = Saving \ {t}
  PROVE  [Store!Next]_(Store!vars)
BY DEF Store!Next, Store!Stop, Store!vars, Storage

(* The step is no start, no end and no part of the shutdown of t's VM. *)
Aside(t) == t \notin Running \cup Saving /\ t \notin (Running \cup Saving)'

LEMMA AsideStep ==
  ASSUME IInv, NEW t \in Thread, Library(t) \/ User(t) \/ Crash(t), Aside(t)
  PROVE  UNCHANGED <<Running, Saving>>
BY OthersRun DEF Aside

(* A process ends. *)
LEMMA EndStep ==
  ASSUME IInv, NEW t \in Thread, Library(t) \/ User(t) \/ Crash(t), NEW how \in Dead, End(t, how)
  PROVE  [Store!Next]_(Store!vars)
<1>1. t \notin Running' /\ t \notin Saving'
  BY DEF IInv, TypeOK, End, Goto, Dead, Running, Saving
<1>2. Running' = Running \ {t} /\ Saving' = Saving \ {t}
  BY <1>1, OthersRun
<1> QED BY <1>2, QuietStep DEF End, tmpfs

(* remove_dir_all() comes to an end, with the directory or without. *)
LEMMA RemovedStep ==
  ASSUME IInv, SweepsFresh, NEW t \in Thread, ScanDir(t) \/ RemoveDir(t),
         pc[t] \in {"scan", "remove"},
         Removed(t), dir' \in {dir, dir \ {fd[t][1]}}, UNCHANGED data
  PROVE  [Store!Next]_(Store!vars)
<1>1. t \notin Running /\ t \notin Saving
  BY DEF Running, Saving
<1>2. t \notin Running' /\ t \notin Saving'
  BY DEF IInv, Stages, TypeOK, Removed, Leave, Own, Goto, Running, Saving
<1>3. UNCHANGED <<Running, Saving>>
  BY <1>1, <1>2, OthersRun DEF Library
<1>4. fd[t][1] \in Thread \ (Running \cup Saving)
  BY RemovesNoVM
<1>5. Storage' \in {Storage, Storage \ {fd[t][1]}} /\ UNCHANGED link
  BY DEF Storage, Removed, Leave
<1> QED BY <1>3, <1>4, <1>5 DEF Store!Next, Store!Collect, Store!vars

(* While the results are saved nobody else uses the name. *)
Copying ==
  \A t \in Thread :
    /\ pc[t] = "copy" => link[SlotOf[t]] = NoLink
    /\ pc[t] = "fill" => link[SlotOf[t]] = PartFile

LEMMA StepCopying == IInv /\ Copying /\ [Next]_vars => Copying'
<1> SUFFICES ASSUME IInv, Copying, [Next]_vars,
                    NEW t \in Thread, pc'[t] \in {"copy", "fill"}
             PROVE  /\ pc'[t] = "copy" => link'[SlotOf[t]] = NoLink
                    /\ pc'[t] = "fill" => link'[SlotOf[t]] = PartFile
  BY DEF Copying
<1> USE ShmAssumption DEF IInv
<1>1. SlotOf[t] \in Slot
  BY DEF Slot
<1>2. ASSUME NEW u \in Thread, Library(u) \/ User(u) \/ Crash(u), u # t
      PROVE  pc'[t] = pc[t] /\ link'[SlotOf[t]] = link[SlotOf[t]]
  BY <1>2, OthersNames DEF Active, Dead, Ending
<1>3. CASE TakeBack(t) \/ BeginCopy(t)
  BY <1>1, <1>3 DEF TakeBack, RemoveLink, BeginCopy, End, Goto, TypeOK
<1>4. ASSUME Library(t) \/ User(t) \/ Crash(t), ~TakeBack(t), ~BeginCopy(t)
      PROVE  FALSE
  BY <1>4 DEF TypeOK, Library, User, SweepNext, SweepEnd, TryLock, ScanDir, RemoveFails,
     Removed, Leave, Unlink, RemoveDir, MakeDir, OpenLock, LockDir, OpenData,
     LookAtLink, RemoveOldLink, MakeLink, RemoveLink, EndCopy, Boot, New, Shutdown, Drop, Crash,
     End,
     Goto
<1>5. CASE UNCHANGED vars
  BY <1>5 DEF vars, Copying
<1> QED BY <1>2, <1>3, <1>4, <1>5 DEF Next, Copying

LEMMA InitStore == Init => Store!Init
BY DEF Init, Store!Init, Storage, Running, Saving, Slot, Store!Slot

LEMMA StepStore ==
  ASSUME NewAlone, IInv, Copying, SweepsFresh, [Next]_vars
  PROVE  [Store!Next]_(Store!vars)
<1>1. CASE UNCHANGED vars
  BY <1>1 DEF vars, tmpfs, Store!vars, Storage, Running, Saving
<1>2. ASSUME NEW t \in Thread, Library(t) \/ User(t) \/ Crash(t)
      PROVE  [Store!Next]_(Store!vars)
  <2>0. Running' \ {t} = Running \ {t} /\ Saving' \ {t} = Saving \ {t}
    BY <1>2, OthersRun
  <2>1. CASE New(t)
    <3>1. Aside(t)
      BY <2>1, ShmAssumption DEF New, NewAlone, IInv, Locks, TypeOK, Running, Saving, Aside, Goto
    <3>2. UNCHANGED <<Running, Saving>>
      BY <1>2, <3>1, AsideStep
    <3>3. CASE t \in Collector
      <4>1. \A u \in Running \cup Saving : SlotOf[u][1] # SlotOf[t][1]
        BY <2>1, <3>1, <3>3, RunningVM DEF New, MayStart, Aside
      <4>2. Store!Clear(SlotOf[t][1])
        BY <2>1, <3>2, <3>3, <4>1 DEF New, Store!Clear, Store!Slot, Slot, Storage, tmpfs
      <4> QED BY <4>2 DEF Store!Next
    <3>4. CASE t \notin Collector
      BY <2>1, <3>2, <3>4, QuietStep DEF New, tmpfs
    <3> QED BY <3>3, <3>4
  <2>2. CASE SweepNext(t) \/ SweepEnd(t) \/ TryLock(t) \/ LockDir(t)
    <3>1. Aside(t)
      BY <2>2 DEF SweepNext, SweepEnd, TryLock, LockDir, IInv, TypeOK, Running, Saving, Aside,
         Goto
    <3>2. UNCHANGED <<dir, data, link>>
      BY <2>2 DEF SweepNext, SweepEnd, TryLock, LockDir, tmpfs
    <3> QED BY <1>2, <3>1, <3>2, AsideStep, QuietStep
  <2>3. CASE ScanDir(t)
    <3>1. CASE fd[t][1] \in dir
      <4>1. Aside(t) /\ UNCHANGED <<dir, data, link>>
        BY <2>3, <3>1 DEF ScanDir, IInv, TypeOK, Running, Saving, Aside, Goto, tmpfs
      <4> QED BY <1>2, <4>1, AsideStep, QuietStep
    <3>2. CASE fd[t][1] \notin dir
      <4>1. RemoveFails(t) /\ pc[t] = "scan"
        BY <2>3, <3>2 DEF ScanDir
      <4>2. CASE Own(t)
        BY <1>2, <4>1, <4>2, EndStep DEF RemoveFails, Dead
      <4>3. CASE ~Own(t)
        BY <2>3, <4>1, <4>3, RemovedStep DEF RemoveFails, tmpfs
      <4> QED BY <4>2, <4>3
    <3> QED BY <3>1, <3>2
  <2>4. CASE Unlink(t)
    <3>1. Aside(t)
      BY <2>4 DEF Unlink, Running, Saving, Aside
    <3>2. fd[t][1] \in Thread \ (Running \cup Saving)
      BY <2>4, RemovesNoVM DEF Unlink
    <3>3. Storage' \in {Storage, Storage \ {fd[t][1]}} /\ UNCHANGED link
      BY <2>4 DEF Unlink, Storage
    <3>4. UNCHANGED <<Running, Saving>>
      BY <1>2, <3>1, AsideStep
    <3> QED BY <3>2, <3>3, <3>4 DEF Store!Next, Store!Collect, Store!vars
  <2>5. CASE RemoveDir(t)
    <3>1. CASE fd[t][1] \in dir /\ Entries(fd[t][1]) = {}
      BY <2>5, <3>1, RemovedStep DEF RemoveDir
    <3>2. CASE ~(fd[t][1] \in dir /\ Entries(fd[t][1]) = {})
      <4>1. RemoveFails(t) /\ pc[t] = "remove"
        BY <2>5, <3>2 DEF RemoveDir
      <4>2. CASE Own(t)
        BY <1>2, <4>1, <4>2, EndStep DEF RemoveFails, Dead
      <4>3. CASE ~Own(t)
        BY <2>5, <4>1, <4>3, RemovedStep DEF RemoveFails, tmpfs
      <4> QED BY <4>2, <4>3
    <3> QED BY <3>1, <3>2
  <2>6. CASE MakeDir(t)
    <3>1. Aside(t)
      BY <2>6 DEF MakeDir, IInv, TypeOK, Running, Saving, Aside, Goto
    <3>2. Storage' \in {Storage, Storage \cup {t}} /\ UNCHANGED link
      BY <2>6 DEF MakeDir, Storage
    <3>3. UNCHANGED <<Running, Saving>>
      BY <1>2, <3>1, AsideStep
    <3> QED BY <3>1, <3>2, <3>3 DEF Store!Next, Store!Provide, Store!vars, Aside
  <2>7. CASE OpenLock(t)
    <3>1. CASE t \in dir
      <4>1. Aside(t) /\ UNCHANGED <<dir, data, link>>
        BY <2>7, <3>1 DEF OpenLock, IInv, TypeOK, Running, Saving, Aside, Goto
      <4> QED BY <1>2, <4>1, AsideStep, QuietStep
    <3>2. CASE t \notin dir
      BY <1>2, <2>7, <3>2, EndStep DEF OpenLock, Dead
    <3> QED BY <3>1, <3>2
  <2>8. CASE OpenData(t)
    <3>1. CASE t \in dir
      <4>1. Aside(t)
        BY <2>8, <3>1 DEF OpenData, IInv, TypeOK, Running, Saving, Aside, Goto
      <4>2. Storage' = Storage \cup {t} /\ UNCHANGED link
        BY <2>8, <3>1 DEF OpenData, Storage
      <4>3. UNCHANGED <<Running, Saving>>
        BY <1>2, <4>1, AsideStep
      <4> QED BY <4>1, <4>2, <4>3 DEF Store!Next, Store!Provide, Aside
    <3>2. CASE t \notin dir
      BY <1>2, <2>8, <3>2, EndStep DEF OpenData, Dead
    <3> QED BY <3>1, <3>2
  <2>9. CASE LookAtLink(t) \/ RemoveOldLink(t) \/ MakeLink(t)
    <3>1. CASE End(t, "panicked")
      BY <1>2, <3>1, EndStep DEF Dead
    <3>2. CASE ~End(t, "panicked")
      <4>1. Aside(t) /\ UNCHANGED <<dir, data>> /\ pc[t] \in Linking
        BY <2>9, <3>2 DEF LookAtLink, RemoveOldLink, RemoveLink, MakeLink, IInv, TypeOK, Running,
           Saving, Aside, Goto, tmpfs
      <4>2. UNCHANGED <<Running, Saving, Storage>>
        BY <1>2, <4>1, AsideStep DEF Storage
      <4>3. t \in Storage
        BY <4>1 DEF IInv, DataThere, Storage
      <4>4. ~Store!Named(SlotOf[t])
        <5>1. Active(t)
          BY <4>1 DEF Active, Dead
        <5> QED BY <4>1, <5>1, NameFree DEF Store!Named, Aside
      <4>5. CASE LookAtLink(t)
        BY <4>2, <4>5 DEF LookAtLink, Store!vars
      <4>6. CASE RemoveOldLink(t)
        <5>1. Store!Detach(t)
          BY <3>2, <4>2, <4>3, <4>4, <4>6 DEF RemoveOldLink, RemoveLink, Store!Detach
        <5> QED BY <5>1 DEF Store!Next
      <4>7. CASE MakeLink(t)
        <5>1. Store!Attach(t)
          BY <3>2, <4>2, <4>3, <4>4, <4>7 DEF MakeLink, Store!Attach
        <5> QED BY <5>1 DEF Store!Next
      <4> QED BY <2>9, <4>5, <4>6, <4>7
    <3> QED BY <3>1, <3>2
  <2>10. CASE Boot(t)
    <3>1. t \notin Running /\ UNCHANGED <<dir, data, link>>
      BY <2>10 DEF Boot, Running, tmpfs
    <3>2. t \in Storage /\ link[SlotOf[t]] = t
      BY <2>10 DEF Boot, IInv, DataThere, LinkThere, Storage
    <3>3. t \notin Saving /\ t \notin Saving'
      BY <2>10 DEF Boot, IInv, TypeOK, Goto, Saving
    <3>4. Running' \in {Running, Running \cup {t}} /\ UNCHANGED <<Saving, Storage>>
      BY <2>0, <3>1, <3>3 DEF Running, Storage
    <3> QED BY <3>1, <3>2, <3>4 DEF Store!Next, Store!Start, Store!vars
  <2>11. CASE Shutdown(t)
    <3>1. /\ UNCHANGED <<dir, data, link>>
          /\ (t \in Running' <=> t \in Running) /\ (t \in Saving' <=> t \in Saving)
      BY <2>11 DEF Shutdown, IInv, TypeOK, Running, Saving, Goto, tmpfs
    <3> QED BY <2>0, <3>1, QuietStep
  <2>12. CASE TakeBack(t) \/ BeginCopy(t) \/ EndCopy(t)
    <3>1. CASE End(t, "panicked")
      BY <1>2, <3>1, EndStep DEF Dead
    <3>2. CASE ~End(t, "panicked")
      <4>1. pc[t] \in Ending /\ live[t] # {} /\ UNCHANGED <<Storage, live>>
        BY <2>12, <3>2 DEF TakeBack, RemoveLink, BeginCopy, EndCopy, tmpfs, Storage, IInv,
           Stages, Own
      <4>2. CASE TakeBack(t)
        <5>1. t \in Running /\ t \notin Saving /\ t \notin Running' /\ t \in Saving'
          BY <3>2, <4>1, <4>2 DEF TakeBack, RemoveLink, IInv, TypeOK, Running, Saving, Goto
        <5>2. Running' = Running \ {t} /\ Saving' = Saving \cup {t}
          BY <2>0, <5>1
        <5>3. Store!Finish(t)
          BY <3>2, <4>1, <4>2, <5>1, <5>2 DEF TakeBack, RemoveLink, Store!Finish
        <5> QED BY <5>3 DEF Store!Next
      <4>3. CASE BeginCopy(t)
        <5>1. t \in Saving /\ t \notin Running /\ t \notin Running' /\ t \in Saving'
          BY <3>2, <4>3 DEF BeginCopy, IInv, TypeOK, Running, Saving, Goto
        <5>2. UNCHANGED <<Running, Saving>>
          BY <2>0, <5>1
        <5>3. t \in Storage /\ link[SlotOf[t]] = NoLink
          BY <4>1, <4>3 DEF BeginCopy, IInv, DataThere, Storage, Copying
        <5>4. Store!BeginSave(t)
          BY <3>2, <4>1, <4>3, <5>1, <5>2, <5>3 DEF BeginCopy, Store!BeginSave
        <5> QED BY <5>4 DEF Store!Next
      <4>4. CASE EndCopy(t)
        <5>1. t \in Saving /\ t \notin Running /\ t \notin Running' /\ t \notin Saving'
          BY <4>4 DEF EndCopy, IInv, TypeOK, Running, Saving, Goto
        <5>2. UNCHANGED Running /\ Saving' = Saving \ {t}
          BY <2>0, <5>1
        <5>3. t \in Storage /\ link[SlotOf[t]] = PartFile
          BY <4>1, <4>4 DEF EndCopy, IInv, DataThere, Storage, Copying
        <5>4. Store!EndSave(t)
          BY <4>1, <4>4, <5>1, <5>2, <5>3 DEF EndCopy, Store!EndSave
        <5> QED BY <5>4 DEF Store!Next
      <4> QED BY <2>12, <4>2, <4>3, <4>4
    <3> QED BY <3>1, <3>2
  <2>13. CASE Drop(t)
    <3>1. /\ UNCHANGED <<dir, data, link>> /\ t \notin Saving /\ t \notin Saving'
          /\ (t \in Running' => t \in Running)
      BY <2>13 DEF Drop, IInv, TypeOK, Running, Saving, tmpfs
    <3> QED BY <2>0, <3>1, QuietStep
  <2>14. CASE Crash(t)
    BY <1>2, <2>14, EndStep DEF Crash, Dead
  <2> QED BY <1>2, <2>1, <2>2, <2>3, <2>4, <2>5, <2>6, <2>7, <2>8, <2>9, <2>10, <2>11,
             <2>12, <2>13, <2>14 DEF Library, User
<1> QED BY <1>1, <1>2 DEF Next

(* The directories of /dev/shm and their links implement SharedStore, for    *)
(* any processes, calls, sweeps and crashes, if the sweeps are fresh.        *)
THEOREM FreshSweepsImplementStore ==
  ASSUME NewAlone
  PROVE  Spec /\ []SweepsFresh => StoreSpec
<1>1. Init => Store!Init /\ Copying
  BY InitStore DEF Init, Copying
<1>2. IInv /\ Copying /\ SweepsFresh /\ [Next]_vars => [Store!Next]_(Store!vars)
  BY StepStore
<1> QED BY <1>1, <1>2, Invariant, StepCopying, PTL DEF Spec, StoreSpec, Store!Spec

(* The same where no directory name is used twice.                           *)
THEOREM ShmImplementsStore ==
  ASSUME MaxNew = 1
  PROVE  Spec => StoreSpec
<1>1. NewAlone
  BY DEF NewAlone
<1> QED BY <1>1, SweepsAreFresh, FreshSweepsImplementStore, PTL

=============================================================================
