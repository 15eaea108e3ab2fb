----------------------------- MODULE ExecService -----------------------------
(***************************************************************************)
(* What NyxProcess::exec() promises its caller, with the control socket,   *)
(* the shared aux buffer, the page dumps and the hprintf stops left out.   *)
(*                                                                         *)
(* A call is answered either with the verdict of a guest execution that    *)
(* completed after the call began, while QEMU was alive, or with IoError,  *)
(* and IoError only when QEMU is gone.  An outcome the library decides to  *)
(* re-run (a page had to be dumped first) is discarded, never returned.    *)
(***************************************************************************)

Verdicts == {"Normal", "Crash", "Timeout", "InvalidWriteToPayload", "Abort"}

VARIABLES
  phase,    \* "idle" between calls, "busy" inside one, "panicked" afterwards
  alive,    \* the QEMU process exists
  outcome,  \* what the guest has produced in this call so far, or "none"
  ret       \* what the last call returned; "none" while a call is running

vars == <<phase, alive, outcome, ret>>

TypeOK ==
  /\ phase \in {"idle", "busy", "panicked"}
  /\ alive \in BOOLEAN
  /\ outcome \in Verdicts \cup {"none", "unknown"}
  /\ ret \in Verdicts \cup {"none", "IoError"}

Init ==
  /\ phase = "idle"
  /\ alive = TRUE
  /\ outcome = "none"
  /\ ret = "none"

(* The caller enters exec(). *)
Call ==
  /\ phase = "idle"
  /\ phase' = "busy"
  /\ ret' = "none"
  /\ UNCHANGED <<alive, outcome>>

(* A guest execution completes; "unknown" is a result code exec() cannot name. *)
Complete ==
  /\ phase = "busy"
  /\ alive
  /\ outcome = "none"
  /\ outcome' \in Verdicts \cup {"unknown"}
  /\ UNCHANGED <<phase, alive, ret>>

(* The execution has to be repeated: its outcome is dropped. *)
Discard ==
  /\ phase = "busy"
  /\ outcome # "none"
  /\ outcome' = "none"
  /\ UNCHANGED <<phase, alive, ret>>

Return ==
  /\ phase = "busy"
  /\ outcome \in Verdicts
  /\ phase' = "idle"
  /\ ret' = outcome
  /\ outcome' = "none"
  /\ UNCHANGED alive

(* The call fails, which takes a dead QEMU that left no outcome behind. *)
Fail ==
  /\ phase = "busy"
  /\ ~alive
  /\ outcome = "none"
  /\ phase' = "idle"
  /\ ret' = "IoError"
  /\ UNCHANGED <<alive, outcome>>

(* An unknown outcome, or a second shutdown, panics the calling thread. *)
Panic ==
  /\ \/ phase = "busy" /\ outcome = "unknown"
     \/ phase = "idle" /\ ~alive
  /\ phase' = "panicked"
  /\ outcome' = "none"
  /\ UNCHANGED <<alive, ret>>

Die ==
  /\ alive
  /\ alive' = FALSE
  /\ UNCHANGED <<phase, outcome, ret>>

Next == Call \/ Complete \/ Discard \/ Return \/ Fail \/ Panic \/ Die

Spec == Init /\ [][Next]_vars

=============================================================================
