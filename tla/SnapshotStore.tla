----------------------------- MODULE SnapshotStore -----------------------------
(***************************************************************************)
(* What a work directory promises the instances of a campaign, with the    *)
(* files, the order in which they are created, looked for and removed, and *)
(* crashes left out.                                                       *)
(*                                                                         *)
(* A campaign publishes its snapshot at most once, and all of it at once.  *)
(* A child attaches to the snapshot of the campaign that is under way, and *)
(* to no other; a snapshot is withdrawn, by the next campaign or by a      *)
(* removal of the directory, only when no child is attached.               *)
(***************************************************************************)
EXTENDS Naturals

CONSTANT Child

VARIABLES
  latest,    \* the campaigns so far
  stored,    \* the snapshot of the latest: "none" as yet, "stored" or "gone"
  attached,  \* the children that use it
  spent      \* the children that do so no more

vars == <<latest, stored, attached, spent>>

Init ==
  /\ latest = 0
  /\ stored = "gone"
  /\ attached = {}
  /\ spent = {}

(* A campaign begins, without a snapshot. *)
Begin ==
  /\ attached = {}
  /\ latest' = latest + 1
  /\ stored' = "none"
  /\ UNCHANGED <<attached, spent>>

Publish ==
  /\ stored = "none"
  /\ stored' = "stored"
  /\ UNCHANGED <<latest, attached, spent>>

(* The snapshot is removed, or its campaign ends without one. *)
Withdraw ==
  /\ attached = {}
  /\ stored' = "gone"
  /\ UNCHANGED <<latest, attached, spent>>

Attach(c) ==
  /\ stored = "stored"
  /\ c \notin attached \cup spent
  /\ attached' = attached \cup {c}
  /\ UNCHANGED <<latest, stored, spent>>

(* The instance ends, or did so before it had a snapshot. *)
Detach(c) ==
  /\ c \notin spent
  /\ attached' = attached \ {c}
  /\ spent' = spent \cup {c}
  /\ UNCHANGED <<latest, stored>>

Next ==
  \/ Begin \/ Publish \/ Withdraw
  \/ \E c \in Child : Attach(c) \/ Detach(c)

Spec == Init /\ [][Next]_vars

=============================================================================
