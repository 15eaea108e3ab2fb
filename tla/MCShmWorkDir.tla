----------------------------- MODULE MCShmWorkDir -----------------------------
(***************************************************************************)
(* Threads and work directories for ShmWorkDir: p and c are the parent and *)
(* a child of one campaign, r is the child restarted under its worker id   *)
(* by another process, q runs a campaign of its own.                       *)
(***************************************************************************)
EXTENDS ShmWorkDir

CONSTANTS p, c, r, q

MCSlotOf ==
  [t \in Thread |-> CASE t = p -> <<"w1", 0>>
                      [] t = c -> <<"w1", 1>>
                      [] t = r -> <<"w1", 1>>
                      [] t = q -> <<"w2", 0>>]

=============================================================================
