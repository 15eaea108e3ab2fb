------------------------------ MODULE SharedStore ------------------------------
(***************************************************************************)
(* What /dev/shm and the work directories promise the VMs: a VM runs only  *)
(* while its files are stored and the name it has in its work directory    *)
(* leads to them, whatever others sweep, clear, start, shut down or crash. *)
(* When it is shut down its results are saved from the files, which stay   *)
(* until then.  Locks, sweeps, directories and the order of the system     *)
(* calls are left out.                                                     *)
(***************************************************************************)
CONSTANTS
  Thread,     \* a thread stands for the VM it starts and for its files
  SlotOf,     \* thread |-> <<work directory, worker id>>
  NoLink,     \* nothing under the VM's name in the work directory
  PartFile,   \* a copy that was begun there
  PlainFile   \* a copy that a VM has left there

Slot == {SlotOf[t] : t \in Thread}

VARIABLES
  storage,    \* the threads whose files are there
  view,       \* slot |-> the thread whose files it shows, or one of the above
  running,    \* the threads with a running VM
  saving      \* those whose VM is down and whose results are not saved yet

vars == <<storage, view, running, saving>>

Init ==
  /\ storage = {}
  /\ view = [s \in Slot |-> NoLink]
  /\ running = {} /\ saving = {}

(* The name is in use. *)
Named(s) == \E u \in running \cup saving : SlotOf[u] = s

(* The files of a VM that is to be started. *)
Provide(t) ==
  /\ t \notin running
  /\ storage' = storage \cup {t}
  /\ UNCHANGED <<view, running, saving>>

(* What is left under its name is taken away, *)
Detach(t) ==
  /\ t \in storage
  /\ ~Named(SlotOf[t])
  /\ view' = [view EXCEPT ![SlotOf[t]] = NoLink]
  /\ UNCHANGED <<storage, running, saving>>

(* and replaced by the new files. *)
Attach(t) ==
  /\ t \in storage
  /\ ~Named(SlotOf[t])
  /\ view[SlotOf[t]] = NoLink
  /\ view' = [view EXCEPT ![SlotOf[t]] = t]
  /\ UNCHANGED <<storage, running, saving>>

Start(t) ==
  /\ t \in storage
  /\ view[SlotOf[t]] = t
  /\ running' = running \cup {t}
  /\ UNCHANGED <<storage, view, saving>>

(* A VM is shut down: its name no longer leads to its files. *)
Finish(t) ==
  /\ t \in running
  /\ running' = running \ {t}
  /\ saving' = saving \cup {t}
  /\ view' = [view EXCEPT ![SlotOf[t]] = NoLink]
  /\ UNCHANGED storage

BeginSave(t) ==
  /\ t \in saving /\ t \in storage
  /\ view[SlotOf[t]] = NoLink
  /\ view' = [view EXCEPT ![SlotOf[t]] = PartFile]
  /\ UNCHANGED <<storage, running, saving>>

(* Its last results are under its name. *)
EndSave(t) ==
  /\ t \in saving /\ t \in storage
  /\ view[SlotOf[t]] = PartFile
  /\ view' = [view EXCEPT ![SlotOf[t]] = PlainFile]
  /\ saving' = saving \ {t}
  /\ UNCHANGED <<storage, running>>

(* A VM that is dropped, or whose process dies, leaves things as they are. *)
Stop(t) ==
  /\ running' = running \ {t}
  /\ saving' = saving \ {t}
  /\ UNCHANGED <<storage, view>>

(* What no VM uses and what need not be saved may go. *)
Collect(t) ==
  /\ t \notin running \cup saving
  /\ storage' = storage \ {t}
  /\ UNCHANGED <<view, running, saving>>

(* A campaign begins in the work directory w. *)
Clear(w) ==
  /\ \A u \in running \cup saving : SlotOf[u][1] # w
  /\ view' = [s \in Slot |-> IF s[1] = w THEN NoLink ELSE view[s]]
  /\ UNCHANGED <<storage, running, saving>>

Next ==
  \E t \in Thread :
    \/ Provide(t) \/ Detach(t) \/ Attach(t) \/ Start(t)
    \/ Finish(t) \/ BeginSave(t) \/ EndSave(t) \/ Stop(t) \/ Collect(t)
    \/ Clear(SlotOf[t][1])

Spec == Init /\ [][Next]_vars

=============================================================================
