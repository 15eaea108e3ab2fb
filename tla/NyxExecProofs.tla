---------------------------- MODULE NyxExecProofs ----------------------------
(***************************************************************************)
(* Proofs about NyxExec, for every set of pages, messages, options and     *)
(* values and every bound.  One inductive invariant carries all of them;   *)
(* the runs of NyxExec check the same properties on small instances.       *)
(***************************************************************************)
EXTENDS NyxExec, TLAPS

-----------------------------------------------------------------------------
(* The inductive invariant *)

(* The byte that is the right to touch the aux buffer: during a wait it is  *)
(* on its way to QEMU, inside QEMU, or on its way back, or QEMU died; at    *)
(* any other time libnyx holds it.                                          *)
Turn ==
  IF pc \in {"recv", "dumpRecv"}
  THEN \/ qemu = "parked" /\ toQemu = 1 /\ toHost = 0
       \/ qemu \in {"running", "posted"} /\ toQemu = 0 /\ toHost = 0
       \/ qemu = "parked" /\ toQemu = 0 /\ toHost = 1
       \/ qemu = "dead" /\ toQemu = 0 /\ toHost \in {0, 1}
  ELSE qemu \in {"parked", "dead"} /\ toQemu = 0 /\ toHost = 0

(* QEMU's copy of the options is current unless a rescan is due, and it     *)
(* never runs with one due.                                                 *)
Scanned ==
  /\ ~changed => \A o \in Option \ staged : shadow[o] = opts[o]
  /\ qemu \in {"running", "posted"} => ~changed

(* What is known of the page last asked for, once a result is accepted.     *)
Attempted ==
  /\ old_address \in tried \cup {0}
  /\ pc \in {"match", "map"} /\ page # NoPage => page = old_address

(* A result that libnyx has, or is about to have, to look at. *)
Posted == pc = "recv" /\ (qemu = "posted" \/ toHost = 1)

(* At most the last posted message is still to be printed, and while it is, *)
(* it is the one in misc.                                                   *)
Messages ==
  /\ due = printed \/ due = Append(printed, misc)
  /\ pc \in {"send", "dumpSend", "dumpRecv", "map"} => due = printed
  /\ pc = "recv" /\ (toQemu = 1 \/ qemu = "running") => due = printed
  /\ Posted \/ pc \in {"check", "match"} =>
       IF code = "HPRINTF" THEN due = Append(printed, misc) /\ page = NoPage
                           ELSE due = printed
  /\ pc = "map" => code \in Final

(* A call fails only on a dead QEMU with nothing left to read. *)
Broken ==
  /\ qemu = "dead"
  /\ toHost = 0
  /\ pc \in {"idle", "send", "panicked"}
  /\ ret \in {"IoError", "none"}

Gone ==
  /\ reaped => qemu = "dead"
  /\ ret = "IoError" => Broken

IInv == TypeOK /\ Turn /\ Scanned /\ Attempted /\ Messages /\ Gone

(* Where a page dump is between the request and its execution.  It holds    *)
(* only if QEMU does not interrupt a dump for an hprintf.                   *)
DumpStage ==
  qemu # "dead" =>
    CASE pc = "dumpSend" ->
           changed /\ dump = old_address /\ request = NoPage
      [] pc = "dumpRecv" ->
           \/ toQemu = 1 /\ changed /\ dump = old_address /\ request = NoPage
           \/ qemu = "running" /\ dump = NoPage /\ request = old_address
           \/ (qemu = "posted" \/ toHost = 1) /\ dump = NoPage /\ request = NoPage
      [] OTHER -> dump = NoPage /\ request = NoPage

-----------------------------------------------------------------------------
LEMMA InitInvariant == Init => IInv
<1> SUFFICES ASSUME Init PROVE IInv
  OBVIOUS
<1> USE ExecAssumption DEF Init, InitFlagged
<1>1. TypeOK
  <2>1. printed \in Seq(Msg) /\ due \in Seq(Msg)
    OBVIOUS
  <2>2. changed \in BOOLEAN /\ reaped \in BOOLEAN
    OBVIOUS
  <2>3. opts \in [Option -> Value] /\ shadow \in [Option -> Value]
    OBVIOUS
  <2> QED
    BY <2>1, <2>2, <2>3 DEF TypeOK, Code, Final
<1>2. Turn /\ Scanned /\ Attempted /\ Messages /\ Gone
  BY DEF Turn, Scanned, Attempted, Messages, Posted, Gone
<1> QED
  BY <1>1, <1>2 DEF IInv

LEMMA StepInvariant == IInv /\ [Next]_vars => IInv'
<1> SUFFICES ASSUME IInv, [Next]_vars PROVE IInv'
  OBVIOUS
<1> USE ExecAssumption DEF IInv, host, wire, cfg, res, guest, hist
<1>1. CASE Exec
  <2>1. TypeOK'
    BY <1>1 DEF TypeOK, Exec
  <2>2. Turn'
    BY <1>1 DEF Turn, Exec
  <2>3. Scanned'
    BY <1>1 DEF Scanned, Exec
  <2>4. Attempted'
    BY <1>1 DEF Attempted, Exec
  <2>5. Messages'
    BY <1>1 DEF Messages, Exec, Posted
  <2>6. Gone'
    BY <1>1 DEF Gone, Exec
  <2> QED
    BY <2>1, <2>2, <2>3, <2>4, <2>5, <2>6
<1>2. ASSUME NEW o \in Option, NEW v \in Value, OptionSet(o, v)
       PROVE  IInv'
  <2>1. TypeOK'
    BY <1>2 DEF TypeOK, OptionSet
  <2>2. Turn'
    BY <1>2 DEF Turn, OptionSet
  <2>3. Scanned'
    BY <1>2 DEF Scanned, OptionSet
  <2>4. Attempted'
    BY <1>2 DEF Attempted, OptionSet
  <2>5. Messages'
    BY <1>2 DEF Messages, OptionSet, Posted
  <2>6. Gone'
    BY <1>2 DEF Gone, OptionSet, Broken
  <2> QED
    BY <2>1, <2>2, <2>3, <2>4, <2>5, <2>6
<1>3. CASE OptionApply
  <2>1. TypeOK'
    BY <1>3 DEF TypeOK, OptionApply
  <2>2. Turn'
    BY <1>3 DEF Turn, OptionApply
  <2>3. Scanned'
    BY <1>3 DEF Scanned, OptionApply, Turn
  <2>4. Attempted'
    BY <1>3 DEF Attempted, OptionApply
  <2>5. Messages'
    BY <1>3 DEF Messages, OptionApply, Posted
  <2>6. Gone'
    BY <1>3 DEF Gone, OptionApply, Broken
  <2> QED
    BY <2>1, <2>2, <2>3, <2>4, <2>5, <2>6
<1>4. ASSUME NEW v \in Value, SetTimeout(v)
       PROVE  IInv'
  <2>1. TypeOK'
    BY <1>4 DEF TypeOK, SetTimeout
  <2>2. Turn'
    BY <1>4 DEF Turn, SetTimeout
  <2>3. Scanned'
    BY <1>4 DEF Scanned, SetTimeout, Turn
  <2>4. Attempted'
    BY <1>4 DEF Attempted, SetTimeout
  <2>5. Messages'
    BY <1>4 DEF Messages, SetTimeout, Posted
  <2>6. Gone'
    BY <1>4 DEF Gone, SetTimeout, Broken
  <2> QED
    BY <2>1, <2>2, <2>3, <2>4, <2>5, <2>6
<1>5. CASE Shutdown
  <2>1. TypeOK'
    <3>1. CASE reaped
      BY <1>5, <3>1 DEF TypeOK, Shutdown
    <3>2. CASE ~reaped
      BY <1>5, <3>2 DEF TypeOK, Shutdown
    <3> QED
      BY <3>1, <3>2
  <2>2. Turn'
    BY <1>5 DEF Turn, Shutdown
  <2>3. Scanned'
    BY <1>5 DEF Scanned, Shutdown
  <2>4. Attempted'
    BY <1>5 DEF Attempted, Shutdown
  <2>5. Messages'
    BY <1>5 DEF Messages, Shutdown, Posted
  <2>6. Gone'
    BY <1>5 DEF Gone, Shutdown, Broken
  <2> QED
    BY <2>1, <2>2, <2>3, <2>4, <2>5, <2>6
<1>6. CASE ExecuteQemu("send", "recv")
  <2>1. TypeOK'
    BY <1>6 DEF TypeOK, ExecuteQemu, IoFail
  <2>2. Turn'
    BY <1>6 DEF Turn, ExecuteQemu, IoFail
  <2>3. Scanned'
    BY <1>6 DEF Scanned, ExecuteQemu, IoFail
  <2>4. Attempted'
    BY <1>6 DEF Attempted, ExecuteQemu, IoFail
  <2>5. Messages'
    BY <1>6 DEF Messages, ExecuteQemu, IoFail, Turn, Posted
  <2>6. Gone'
    BY <1>6 DEF Gone, ExecuteQemu, IoFail, Turn, Broken
  <2> QED
    BY <2>1, <2>2, <2>3, <2>4, <2>5, <2>6
<1>7. CASE WaitQemu("recv", "check")
  <2>1. TypeOK'
    BY <1>7 DEF TypeOK, WaitQemu, IoFail
  <2>2. Turn'
    BY <1>7 DEF Turn, WaitQemu, IoFail
  <2>3. Scanned'
    BY <1>7 DEF Scanned, WaitQemu, IoFail
  <2>4. Attempted'
    BY <1>7 DEF Attempted, WaitQemu, IoFail
  <2>5. Messages'
    BY <1>7 DEF Messages, WaitQemu, IoFail, Turn, Posted
  <2>6. Gone'
    BY <1>7 DEF Gone, WaitQemu, IoFail, Broken
  <2> QED
    BY <2>1, <2>2, <2>3, <2>4, <2>5, <2>6
<1>8. CASE CheckPage
  <2>1. TypeOK'
    BY <1>8 DEF TypeOK, CheckPage, RequestDump, AskForPage, NoDump
  <2>2. Turn'
    BY <1>8 DEF Turn, CheckPage, RequestDump, AskForPage, NoDump
  <2>3. Scanned'
    BY <1>8 DEF Scanned, CheckPage, RequestDump, AskForPage, NoDump, Turn
  <2>4. Attempted'
    BY <1>8 DEF Attempted, CheckPage, RequestDump, AskForPage, NoDump
  <2>5. Messages'
    BY <1>8 DEF Messages, CheckPage, RequestDump, AskForPage, NoDump
  <2>6. Gone'
    BY <1>8 DEF Gone, CheckPage, RequestDump, AskForPage, NoDump, Broken
  <2> QED
    BY <2>1, <2>2, <2>3, <2>4, <2>5, <2>6
<1>9. CASE ExecuteQemu("dumpSend", "dumpRecv")
  <2>1. TypeOK'
    BY <1>9 DEF TypeOK, ExecuteQemu, IoFail
  <2>2. Turn'
    BY <1>9 DEF Turn, ExecuteQemu, IoFail
  <2>3. Scanned'
    BY <1>9 DEF Scanned, ExecuteQemu, IoFail
  <2>4. Attempted'
    BY <1>9 DEF Attempted, ExecuteQemu, IoFail
  <2>5. Messages'
    BY <1>9 DEF Messages, ExecuteQemu, IoFail, Posted
  <2>6. Gone'
    BY <1>9 DEF Gone, ExecuteQemu, IoFail, Turn, Broken
  <2> QED
    BY <2>1, <2>2, <2>3, <2>4, <2>5, <2>6
<1>10. CASE WaitQemu("dumpRecv", "send")
  <2>1. TypeOK'
    BY <1>10 DEF TypeOK, WaitQemu, IoFail
  <2>2. Turn'
    BY <1>10 DEF Turn, WaitQemu, IoFail
  <2>3. Scanned'
    BY <1>10 DEF Scanned, WaitQemu, IoFail
  <2>4. Attempted'
    BY <1>10 DEF Attempted, WaitQemu, IoFail
  <2>5. Messages'
    BY <1>10 DEF Messages, WaitQemu, IoFail, Posted
  <2>6. Gone'
    BY <1>10 DEF Gone, WaitQemu, IoFail, Broken
  <2> QED
    BY <2>1, <2>2, <2>3, <2>4, <2>5, <2>6
<1>11. CASE MatchResult
  <2>1. TypeOK'
    <3>1. CASE code = "HPRINTF"
      <4>1. printed' = Append(printed, misc) /\ pc' = "send"
        BY <1>11, <3>1 DEF MatchResult, Final
      <4>2. printed' \in Seq(Msg)
        BY <4>1 DEF TypeOK
      <4> QED
        BY <1>11, <4>1, <4>2 DEF TypeOK, MatchResult
    <3>2. CASE code # "HPRINTF"
      BY <1>11, <3>2 DEF TypeOK, MatchResult
    <3> QED
      BY <3>1, <3>2
  <2>2. Turn'
    BY <1>11 DEF Turn, MatchResult
  <2>3. Scanned'
    BY <1>11 DEF Scanned, MatchResult
  <2>4. Attempted'
    BY <1>11 DEF Attempted, MatchResult
  <2>5. Messages'
    BY <1>11 DEF Messages, MatchResult, Posted, Final
  <2>6. Gone'
    BY <1>11 DEF Gone, MatchResult, Broken
  <2> QED
    BY <2>1, <2>2, <2>3, <2>4, <2>5, <2>6
<1>12. CASE MapResult
  <2>1. TypeOK'
    BY <1>12 DEF TypeOK, MapResult, Messages, Final, Returned, ReturnValue
  <2>2. Turn'
    BY <1>12 DEF Turn, MapResult
  <2>3. Scanned'
    BY <1>12 DEF Scanned, MapResult
  <2>4. Attempted'
    BY <1>12 DEF Attempted, MapResult
  <2>5. Messages'
    BY <1>12 DEF Messages, MapResult, Final
  <2>6. Gone'
    BY <1>12 DEF Gone, MapResult, ReturnValue
  <2> QED
    BY <2>1, <2>2, <2>3, <2>4, <2>5, <2>6
<1>13. CASE QemuResume
  <2>1. TypeOK'
    <3>1. toQemu' \in Nat
      BY <1>13 DEF TypeOK, QemuResume
    <3>2. CASE changed
      BY <1>13, <3>1, <3>2 DEF TypeOK, QemuResume
    <3>3. CASE ~changed
      BY <1>13, <3>1, <3>3 DEF TypeOK, QemuResume
    <3> QED
      BY <3>2, <3>3
  <2>2. Turn'
    BY <1>13 DEF Turn, QemuResume
  <2>3. Scanned'
    BY <1>13 DEF Scanned, QemuResume
  <2>4. Attempted'
    BY <1>13 DEF Attempted, QemuResume
  <2>5. Messages'
    BY <1>13 DEF Messages, QemuResume, Turn, Posted
  <2>6. Gone'
    BY <1>13 DEF Gone, QemuResume, Broken
  <2> QED
    BY <2>1, <2>2, <2>3, <2>4, <2>5, <2>6
<1>14. ASSUME NEW m \in Msg, QemuHprintf(m)
       PROVE  IInv'
  <2>1. TypeOK'
    BY <1>14 DEF TypeOK, QemuHprintf, Code
  <2>2. Turn'
    BY <1>14 DEF Turn, QemuHprintf
  <2>3. Scanned'
    BY <1>14 DEF Scanned, QemuHprintf
  <2>4. Attempted'
    BY <1>14 DEF Attempted, QemuHprintf
  <2>5. Messages'
    BY <1>14 DEF Messages, QemuHprintf, Turn, Posted
  <2>6. Gone'
    BY <1>14 DEF Gone, QemuHprintf, Broken
  <2> QED
    BY <2>1, <2>2, <2>3, <2>4, <2>5, <2>6
<1>15. ASSUME NEW c \in Final \cup {"UNKNOWN"}, NEW p \in missing \cup {NoPage}, QemuVerdict(c, p)
       PROVE  IInv'
  <2>1. TypeOK'
    BY <1>15 DEF TypeOK, QemuVerdict, Code
  <2>2. Turn'
    BY <1>15 DEF Turn, QemuVerdict
  <2>3. Scanned'
    BY <1>15 DEF Scanned, QemuVerdict
  <2>4. Attempted'
    BY <1>15 DEF Attempted, QemuVerdict, Turn
  <2>5. Messages'
    BY <1>15 DEF Messages, QemuVerdict, Turn, Final
  <2>6. Gone'
    BY <1>15 DEF Gone, QemuVerdict, Broken
  <2> QED
    BY <2>1, <2>2, <2>3, <2>4, <2>5, <2>6
<1>16. CASE QemuSignal
  <2>1. TypeOK'
    BY <1>16 DEF TypeOK, QemuSignal
  <2>2. Turn'
    BY <1>16 DEF Turn, QemuSignal
  <2>3. Scanned'
    BY <1>16 DEF Scanned, QemuSignal
  <2>4. Attempted'
    BY <1>16 DEF Attempted, QemuSignal
  <2>5. Messages'
    BY <1>16 DEF Messages, QemuSignal, Posted
  <2>6. Gone'
    BY <1>16 DEF Gone, QemuSignal, Broken
  <2> QED
    BY <2>1, <2>2, <2>3, <2>4, <2>5, <2>6
<1>17. CASE QemuDie
  <2>1. TypeOK'
    BY <1>17 DEF TypeOK, QemuDie
  <2>2. Turn'
    BY <1>17 DEF Turn, QemuDie
  <2>3. Scanned'
    BY <1>17 DEF Scanned, QemuDie
  <2>4. Attempted'
    BY <1>17 DEF Attempted, QemuDie
  <2>5. Messages'
    BY <1>17 DEF Messages, QemuDie, Posted
  <2>6. Gone'
    BY <1>17 DEF Gone, QemuDie, Broken
  <2> QED
    BY <2>1, <2>2, <2>3, <2>4, <2>5, <2>6
<1>18. CASE UNCHANGED vars
  BY <1>18 DEF TypeOK, Turn, Scanned, Attempted, Messages, Posted, Gone, Broken,
     vars
<1> QED
  BY <1>1, <1>2, <1>3, <1>4, <1>5, <1>6, <1>7, <1>8, <1>9, <1>10, <1>11, <1>12,
     <1>13, <1>14, <1>15, <1>16, <1>17, <1>18
     DEF Next, Api, SendPayload, QemuRun, Panicked

-----------------------------------------------------------------------------
(* The inductive invariant holds of every behaviour. *)
THEOREM Invariant == Spec => []IInv
  BY InitInvariant, StepInvariant, PTL DEF Spec

(* All variables keep their types; exec() never returns the catch-all Error *)
(* of its match.                                                            *)
THEOREM TypeCorrect == Spec => []TypeOK
<1>1. IInv => TypeOK
  BY DEF IInv
<1> QED
  BY <1>1, Invariant, PTL

(* libnyx never touches the aux buffer while QEMU may, and never leaves a   *)
(* call with a byte still in flight.                                        *)
THEOREM BufferIsExclusive == Spec => []ExclusiveAux
<1>1. IInv => ExclusiveAux
  BY DEF IInv, Turn, ExclusiveAux
<1> QED
  BY <1>1, Invariant, PTL

(* Options that were applied are those of every later execution. *)
THEOREM OptionsInForce == Spec => []AppliedInForce
<1>1. IInv => AppliedInForce
  BY DEF IInv, Scanned, AppliedInForce
<1> QED
  BY <1>1, Invariant, PTL

LEMMA PrefixOfAppend ==
  ASSUME NEW s \in Seq(Msg), NEW m \in Msg
  PROVE  IsPrefix(s, s) /\ IsPrefix(s, Append(s, m))
<1>1. SubSeq(Append(s, m), 1, Len(s)) = SubSeq(s, 1, Len(s))
  OBVIOUS
<1>2. Len(s) <= Len(s) /\ Len(s) <= Len(Append(s, m))
  OBVIOUS
<1> QED
  BY <1>1, <1>2 DEF IsPrefix

(* hprintf messages come out once and in order, all of them before the      *)
(* verdict.                                                                 *)
THEOREM HprintfIsOrdered == Spec => []HprintfInOrder
<1>1. IInv => HprintfInOrder
  BY PrefixOfAppend DEF IInv, TypeOK, Messages, HprintfInOrder
<1> QED
  BY <1>1, Invariant, PTL

(* Unless the page at address 0 may be missing, exec() never gives up on a  *)
(* page it has not tried to have dumped.                                    *)
THEOREM GivesUpAfterAttempt ==
  ASSUME 0 \notin Page
  PROVE  Spec => []GiveUpAfterAttempt
<1>1. IInv => GiveUpAfterAttempt
  BY ExecAssumption DEF IInv, TypeOK, Attempted, GiveUpAfterAttempt
<1> QED
  BY <1>1, Invariant, PTL

-----------------------------------------------------------------------------
(* After an IoError QEMU is dead, nothing is left to read, and this stays so.*)
LEMMA StaysBroken == Broken /\ [Next]_vars => Broken'
<1> SUFFICES ASSUME Broken, [Next]_vars PROVE Broken'
  OBVIOUS
<1> USE DEF Broken, host, wire
<1>1. CASE Api
  BY <1>1 DEF Api, Exec, OptionSet, OptionApply, SetTimeout, Shutdown
<1>2. CASE SendPayload
  BY <1>2 DEF SendPayload, ExecuteQemu, WaitQemu, IoFail, CheckPage, RequestDump,
     AskForPage, NoDump, MatchResult, MapResult
<1>3. CASE QemuRun \/ QemuDie
  BY <1>3 DEF QemuRun, QemuResume, QemuHprintf, QemuVerdict, QemuSignal, QemuDie
<1>4. CASE UNCHANGED vars
  BY <1>4 DEF vars
<1> QED
  BY <1>1, <1>2, <1>3, <1>4 DEF Next, Panicked

(* No verdict is ever reported again once a call has failed with IoError. *)
THEOREM ErrorsAreFinal == Spec => NoVerdictAfterIoError
<1>1. IInv /\ ret = "IoError" => Broken
  BY DEF IInv, Gone
<1>2. Broken => ret \in {"IoError", "none"}
  BY DEF Broken
<1> QED
  BY <1>1, <1>2, Invariant, StaysBroken, PTL DEF Spec, NoVerdictAfterIoError

-----------------------------------------------------------------------------
(* The page dumps *)

LEMMA InitDumpStage == Init => DumpStage
  BY DEF Init, InitFlagged, DumpStage

LEMMA StepDumpStage ==
  ASSUME HprintfInDump = FALSE
  PROVE  IInv /\ DumpStage /\ [Next]_vars => DumpStage'
<1> SUFFICES ASSUME IInv, DumpStage, [Next]_vars PROVE DumpStage'
  OBVIOUS
<1> USE ExecAssumption DEF IInv, Turn, DumpStage, host, wire, cfg, res, guest
<1>1. CASE Api
  BY <1>1 DEF Api, Exec, OptionSet, OptionApply, SetTimeout, Shutdown
<1>2. CASE ExecuteQemu("send", "recv") \/ ExecuteQemu("dumpSend", "dumpRecv")
  BY <1>2 DEF ExecuteQemu, IoFail
<1>3. CASE WaitQemu("recv", "check") \/ WaitQemu("dumpRecv", "send")
  BY <1>3 DEF WaitQemu, IoFail
<1>4. CASE CheckPage
  BY <1>4 DEF CheckPage, RequestDump, AskForPage, NoDump
<1>5. CASE MatchResult \/ MapResult
  BY <1>5 DEF MatchResult, MapResult
<1>6. CASE QemuResume
  BY <1>6 DEF QemuResume
<1>7. ASSUME NEW m \in Msg, QemuHprintf(m) PROVE DumpStage'
  <2>1. qemu = "running" /\ request = NoPage
    BY <1>7 DEF QemuHprintf
  <2>2. pc # "dumpRecv"
    BY <2>1 DEF TypeOK, Attempted
  <2> QED
    BY <1>7, <2>1, <2>2 DEF QemuHprintf
<1>8. ASSUME NEW c \in Final \cup {"UNKNOWN"}, NEW p \in missing \cup {NoPage},
             QemuVerdict(c, p)
      PROVE  DumpStage'
  BY <1>8 DEF QemuVerdict
<1>9. CASE QemuSignal \/ QemuDie
  BY <1>9 DEF QemuSignal, QemuDie
<1>10. CASE UNCHANGED vars
  BY <1>10 DEF vars
<1> QED
  BY <1>1, <1>2, <1>3, <1>4, <1>5, <1>6, <1>7, <1>8, <1>9, <1>10
     DEF Next, SendPayload, QemuRun, Panicked

(* If QEMU does not interrupt a page dump, normal runs and dump runs are     *)
(* never mistaken for one another.                                           *)
THEOREM RunsStayInStep ==
  ASSUME HprintfInDump = FALSE
  PROVE  Spec => []RunsMatchRequests
<1>1. IInv /\ DumpStage => RunsMatchRequests
  BY DEF IInv, Turn, DumpStage, RunsMatchRequests
<1> QED
  BY <1>1, Invariant, InitDumpStage, StepDumpStage, PTL DEF Spec

-----------------------------------------------------------------------------
(* No page is asked for twice *)

(* Every page that was asked for in this call, and can be dumped, has been.  *)
Landed == tried \cap missing \subseteq Undumpable

(* The last request is still on its way to QEMU, or QEMU has it.             *)
Pending ==
  \/ changed /\ dump = old_address
  \/ ~changed /\ dump = NoPage /\ request = old_address

(* The result of an execution that ended is there, or about to be. *)
Judged == (Posted \/ pc \in {"check", "match", "map"}) /\ code # "HPRINTF"

(* At most the last request is open, and none is once an execution, be it    *)
(* the dump or the run after it, has ended.                                  *)
Requests ==
  /\ tried \cap missing \subseteq Undumpable \cup {old_address}
  /\ Judged => Landed
  /\ dump # NoPage => changed
  /\ Posted \/ pc = "check" => page \in missing \cup {NoPage, old_address}
  /\ qemu # "dead" =>
       /\ dump \in {NoPage, old_address} /\ request \in {NoPage, old_address}
       /\ Landed \/ Pending
       /\ pc = "idle" => Landed
       /\ pc = "idle" \/ Judged => dump = NoPage /\ request = NoPage

LEMMA InitRequests == Init => Requests
  BY ExecAssumption DEF Init, InitFlagged, Requests, Landed, Pending, Judged, Posted

LEMMA StepRequests == IInv /\ Requests /\ [Next]_vars => Requests'
<1> SUFFICES ASSUME IInv, Requests, [Next]_vars PROVE Requests'
  OBVIOUS
<1> USE ExecAssumption DEF IInv, Requests, Landed, Pending, Judged, Posted,
      host, wire, cfg, res, guest, hist
<1>1. CASE Exec
  BY <1>1 DEF Exec, Turn
<1>2. CASE Shutdown
  BY <1>2 DEF Shutdown, Turn
<1>3. CASE \/ \E o \in Option, v \in Value : OptionSet(o, v)
           \/ OptionApply
           \/ \E v \in Value : SetTimeout(v)
  BY <1>3 DEF OptionSet, OptionApply, SetTimeout, Turn
<1>4. CASE ExecuteQemu("send", "recv") \/ ExecuteQemu("dumpSend", "dumpRecv")
  BY <1>4 DEF ExecuteQemu, IoFail, Turn
<1>5. CASE WaitQemu("recv", "check") \/ WaitQemu("dumpRecv", "send")
  <2>1. CASE qemu = "dead" /\ toHost = 0
    <3>1. pc' = "idle" /\ qemu' = "dead" /\ UNCHANGED <<old_address, changed, dump, missing, tried>>
      BY <1>5, <2>1 DEF WaitQemu, IoFail
    <3> QED BY <3>1
  <2>2. CASE WaitQemu("recv", "check") /\ toHost > 0
    <3>1. Posted /\ pc' = "check"
      BY <2>2 DEF WaitQemu, Turn
    <3> QED BY <2>2, <3>1 DEF WaitQemu
  <2>3. CASE WaitQemu("dumpRecv", "send") /\ toHost > 0
    <3>1. pc' = "send"
      BY <2>3 DEF WaitQemu
    <3> QED BY <2>3, <3>1 DEF WaitQemu
  <2> QED BY <1>5, <2>1, <2>2, <2>3 DEF WaitQemu
<1>6. CASE CheckPage
  <2>1. CASE NoDump
    BY <2>1 DEF NoDump
  <2>2. CASE RequestDump("dumpSend")
    <3>1. page # NoPage /\ code # "HPRINTF"
      BY <2>2 DEF RequestDump, AskForPage, Messages
    <3> QED BY <2>2, <3>1 DEF RequestDump, AskForPage
  <2> QED BY <1>6, <2>1, <2>2 DEF CheckPage
<1>7. CASE MatchResult
  BY <1>7 DEF MatchResult, Final
<1>8. CASE MapResult
  <2>1. code # "HPRINTF"
    BY <1>8 DEF MapResult, Messages, Final
  <2> QED BY <1>8, <2>1 DEF MapResult
<1>9. CASE QemuResume
  BY <1>9 DEF QemuResume, Turn
<1>10. ASSUME NEW m \in Msg, QemuHprintf(m) PROVE Requests'
  BY <1>10 DEF QemuHprintf, Turn
<1>11. ASSUME NEW c \in Final \cup {"UNKNOWN"}, NEW p \in missing \cup {NoPage}, QemuVerdict(c, p)
       PROVE  Requests'
  <2>1. /\ qemu = "running" /\ qemu' = "posted" /\ ~changed /\ pc \in {"recv", "dumpRecv"}
        /\ page' = p /\ missing' = missing \ ({request} \ Undumpable) /\ request' = NoPage
        /\ UNCHANGED <<pc, old_address, tried, changed, dump>>
    BY <1>11 DEF QemuVerdict, Scanned, Turn
  <2>2. dump = NoPage
    BY <2>1
  <2>3. Landed'
    BY <2>1
  <2>4. p \in missing' \cup {NoPage, old_address}
    BY <2>1
  <2> QED BY <2>1, <2>2, <2>3, <2>4
<1>12. CASE QemuSignal \/ QemuDie
  BY <1>12 DEF QemuSignal, QemuDie, Turn
<1>13. CASE UNCHANGED vars
  BY <1>13 DEF vars
<1> QED
  BY <1>1, <1>2, <1>3, <1>4, <1>5, <1>6, <1>7, <1>8, <1>9, <1>10, <1>11, <1>12, <1>13
     DEF Next, Api, SendPayload, QemuRun, Panicked

(* For any pages, any of which QEMU may be unable to dump, and any hprintfs, *)
(* also while it dumps: no exec() asks twice for a page that can be dumped.  *)
THEOREM PagesAreAskedOnce == Spec => []AskedOnce
<1>1. IInv /\ Requests => AskedOnce
  <2> SUFFICES ASSUME IInv, Requests, pc = "check", page \notin {NoPage, old_address}
               PROVE  page \notin tried \ Undumpable
    BY DEF AskedOnce
  <2>1. code # "HPRINTF"
    BY DEF IInv, Messages
  <2>2. page \in missing
    BY DEF Requests
  <2> QED BY <2>1, <2>2 DEF Requests, Judged, Landed
<1> QED
  BY <1>1, Invariant, InitRequests, StepRequests, PTL DEF Spec

-----------------------------------------------------------------------------
(* exec() implements ExecService *)

LEMMA InitService == Init => Service!Init
  BY DEF Init, InitFlagged, Service!Init, Phase, Outcome

LEMMA StepService == IInv /\ [Next]_vars => [Service!Next]_Service!vars
<1> SUFFICES ASSUME IInv, [Next]_vars PROVE [Service!Next]_Service!vars
  OBVIOUS
<1> USE ExecAssumption DEF IInv, Turn, Phase, Outcome, host, wire, cfg, res, guest,
        Service!vars
<1>1. CASE Exec
  BY <1>1 DEF Exec, Service!Next, Service!Call
<1>2. ASSUME NEW o \in Option, NEW v \in Value, OptionSet(o, v)
      PROVE  UNCHANGED Service!vars
  BY <1>2 DEF OptionSet
<1>3. CASE OptionApply
  BY <1>3 DEF OptionApply
<1>4. ASSUME NEW v \in Value, SetTimeout(v) PROVE UNCHANGED Service!vars
  BY <1>4 DEF SetTimeout
<1>5. CASE Shutdown
  BY <1>5 DEF Shutdown, Gone, Service!Next, Service!Panic, Service!Die
<1>6. CASE ExecuteQemu("send", "recv") \/ ExecuteQemu("dumpSend", "dumpRecv")
  BY <1>6 DEF ExecuteQemu, IoFail, Service!Next, Service!Fail
<1>7. CASE WaitQemu("recv", "check") \/ WaitQemu("dumpRecv", "send")
  BY <1>7 DEF WaitQemu, IoFail, Service!Next, Service!Fail
<1>8. CASE CheckPage
  BY <1>8 DEF CheckPage, RequestDump, AskForPage, NoDump, Service!Next,
     Service!Discard
<1>9. CASE MatchResult
  BY <1>9 DEF MatchResult, Service!Next, Service!Panic
<1>10. CASE MapResult
  BY <1>10 DEF MapResult, Messages, Final, ReturnValue, Service!Next,
     Service!Return,
     Service!Verdicts
<1>11. CASE QemuResume
  BY <1>11 DEF QemuResume
<1>12. ASSUME NEW m \in Msg, QemuHprintf(m) PROVE UNCHANGED Service!vars
  BY <1>12 DEF QemuHprintf
<1>13. ASSUME NEW c \in Final \cup {"UNKNOWN"}, NEW p \in missing \cup {NoPage},
              QemuVerdict(c, p)
       PROVE  UNCHANGED Service!vars
  BY <1>13 DEF QemuVerdict
<1>14. CASE QemuSignal
  BY <1>14 DEF QemuSignal, TypeOK, Code, Final, ReturnValue, Service!Next,
     Service!Complete, Service!Verdicts
<1>15. CASE QemuDie
  BY <1>15 DEF QemuDie, Service!Next, Service!Die
<1>16. CASE UNCHANGED vars
  BY <1>16 DEF vars
<1> QED
  BY <1>1, <1>2, <1>3, <1>4, <1>5, <1>6, <1>7, <1>8, <1>9, <1>10, <1>11, <1>12,
     <1>13, <1>14, <1>15, <1>16 DEF Next, Api, SendPayload, QemuRun, Panicked

(* Every behaviour of exec() is one of the abstract service: a verdict is    *)
(* that of an execution completed in the call, only a dead QEMU fails it.    *)
THEOREM ExecImplementsService == Spec => ServiceSpec
  BY Invariant, InitService, StepService, PTL DEF Spec, ServiceSpec, Service!Spec

=============================================================================
