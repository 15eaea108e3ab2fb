---------------------------- MODULE SessionProofs ----------------------------
(***************************************************************************)
(* Proofs about Session, for every message, descriptor, buffer size, input *)
(* and bound.  Each invariant below holds at every point of new() and of   *)
(* what comes after; the property it carries speaks of a few of them.      *)
(***************************************************************************)
EXTENDS Session, TLAPS

-----------------------------------------------------------------------------
(* The invariants *)

Stopped == {"attach", "match", "state", "send", "adopt", "configure", "panicked"}

(* Who may go on: the byte on the socket, QEMU while it runs, or libnyx.     *)
Turn ==
  /\ pc \in Stopped \cup {"idle", "connect", "hello", "recv"}
  /\ pc \in Stopped \cup {"idle", "connect"} => toQemu = 0 /\ toHost = 0
  /\ pc \in Stopped => qemu \in {"parked", "dead"}
  /\ pc = "connect" => qemu \in {"starting", "listening", "dead"}
  /\ pc \in {"hello", "recv"} =>
       \/ qemu = "parked" /\ toQemu = 1 /\ toHost = 0 /\ pc = "recv"
       \/ qemu = "running" /\ toQemu = 0 /\ toHost = 0
       \/ qemu = "parked" /\ toQemu = 0 /\ toHost = 1
       \/ qemu = "dead" /\ toQemu = 0 /\ toHost \in {0, 1}
  /\ pc = "idle" => qemu \in IF outcome = "Ok" THEN {"parked", "dead"} ELSE {"none", "dead"}
  /\ outcome \in {"none", "Ok", "Err"}
  /\ pc \notin {"idle", "panicked"} => outcome = "none"
  /\ pc = "panicked" => outcome # "Err"

(* The write protection is off until libnyx attaches; from then on QEMU has  *)
(* seen what libnyx wants, or will at its next rescan.                       *)
Protection ==
  /\ changed \in BOOLEAN /\ protect \in BOOLEAN /\ shadow \in BOOLEAN
  /\ pc = "attach" \/ (pc = "hello" /\ toHost = 1) => ~changed /\ ~protect /\ ~shadow
  /\ pc \in {"match", "state", "send", "recv"} => protect = Protect /\ (changed \/ shadow = Protect)
  /\ pc = "recv" /\ qemu = "running" => shadow = Protect

(* A descriptor is closed only after it has become an hprintf_file, and one  *)
(* that is in use has just become one.                                       *)
Descriptors ==
  /\ handed \in [Fd -> 0 .. 2]
  /\ open \subseteq Fd /\ {cfgFd, file} \subseteq Fd \cup {NoFd}
  /\ \A f \in Fd : f \notin open \/ f = file => handed[f] >= 1
  /\ ClosedOnlyIfHandedTwice

(* No size is larger than the mapping it belongs to. *)
Buffers ==
  /\ bitmap \in [map : Nat, size : Nat] /\ payload \in [map : Nat, size : Nat]
  /\ cap.bitmap \in Nat /\ cap.input \in Nat
  /\ BuffersMapped

-----------------------------------------------------------------------------
(* The steps *)

(* What each step does to the variables of Launch. *)
Step ==
  \/ New
  \/ Launching
  \/ QemuListen \/ QemuHello \/ QemuResume \/ QemuDie
  \/ \E c \in Code, m \in Msg, p \in Caps : QemuStop(c, m, p)
  \/ \E n \in Input : SetInput(n)
  \/ Executing
  \/ PrintFails \/ FuzzHprintfFails
  \/ \E f \in Fd : ConfigSetFd(f)
  \/ \E f \in Fd : SetHprintfFd(f) \/ SetHprintfFdUnchecked(f)
  \/ Shutdown \/ ShutdownUndropped
  \/ UNCHANGED vars

LEMMA Steps ==
  ASSUME [SessionNext]_svars PROVE Step
<1>1. CASE UNCHANGED svars
  BY <1>1 DEF Step, svars
<1>2. CASE (New \/ Launching) /\ KeepBuffers
  BY <1>2 DEF Step
<1>3. CASE Booting
  BY <1>3 DEF Step, Booting
<1>4. CASE (QemuDie \/ Panicked) /\ UNCHANGED user
  BY <1>4 DEF Step, Panicked
<1>5. CASE Used
  BY <1>5 DEF Step, Used
<1> QED BY <1>1, <1>2, <1>3, <1>4, <1>5 DEF SessionNext

(* Whoever has the turn passes it on as a whole. *)
LEMMA TurnKept ==
  ASSUME Turn, Step
  PROVE  Turn'
<1>1. CASE New
  BY <1>1 DEF New, Turn, Stopped, vars, host, fds, wire, boot, cfg
<1>2. CASE Connect
  BY <1>2 DEF Connect, Turn, Stopped, vars, host, fds, wire, boot, cfg
<1>3. CASE Wait("hello", "attach")
  BY <1>3 DEF Wait, Fail, Drop, Forget, Goto, Turn, Stopped, vars, host, fds, wire, boot, cfg
<1>4. CASE Attach
  BY <1>4 DEF Attach, Fail, Drop, Forget, Goto, Kill, Turn, Stopped, vars, host, fds, wire, boot,
     cfg
<1>5. CASE MatchStop
  BY <1>5 DEF MatchStop, Printed, Fail, Drop, Forget, Goto, Kill, Turn, Stopped, vars, host, fds,
     wire, boot, cfg
<1>6. CASE CheckState
  BY <1>6 DEF CheckState, Goto, Turn, Stopped, vars, host, fds, wire, boot, cfg
<1>7. CASE Resume
  BY <1>7 DEF Resume, Fail, Drop, Forget, Goto, Turn, Stopped, vars, host, fds, wire, boot, cfg
<1>8. CASE Wait("recv", "match")
  BY <1>8 DEF Wait, Fail, Drop, Forget, Goto, Turn, Stopped, vars, host, fds, wire, boot, cfg
<1>9. CASE AdoptSizes
  BY <1>9 DEF AdoptSizes, Turn, Stopped, vars, host, fds, wire, boot, cfg
<1>10. CASE Configure
  BY <1>10 DEF Configure, Turn, Stopped, vars, host, fds, wire, boot, cfg
<1>11. CASE QemuListen
  BY <1>11 DEF QemuListen, Turn, Stopped, vars, host, fds, wire, boot, cfg
<1>12. CASE QemuHello
  BY <1>12 DEF QemuHello, Turn, Stopped, vars, host, fds, wire, boot, cfg
<1>13. CASE QemuResume
  BY <1>13 DEF QemuResume, Turn, Stopped, vars, host, fds, wire, boot, cfg
<1>14. CASE QemuDie
  BY <1>14 DEF QemuDie, Turn, Stopped, vars, host, fds, wire, boot, cfg
<1>15. CASE \E c \in Code, m \in Msg, p \in Caps : QemuStop(c, m, p)
  <2>1. PICK c \in Code, m \in Msg, p \in Caps : QemuStop(c, m, p)
    BY <1>15
  <2> QED BY <2>1 DEF QemuStop, Turn, Stopped, vars, host, fds, wire, boot, cfg
<1>16. CASE \E n \in Input : SetInput(n)
  BY <1>16 DEF SetInput, InUse, Turn, Stopped, vars, host, fds, wire, boot, cfg
<1>17. CASE Executing
  BY <1>17 DEF Executing, Execute, ExecuteIoError, InUse, Turn, Stopped, vars, host, fds, wire,
     boot, cfg
<1>18. CASE PrintFails
  BY <1>18 DEF PrintFails, InUse, Turn, Stopped, vars, host, fds, wire, boot, cfg
<1>19. CASE FuzzHprintfFails
  BY <1>19 DEF FuzzHprintfFails, Turn, Stopped, vars, host, fds, wire, boot, cfg
<1>20. CASE \E f \in Fd : ConfigSetFd(f)
  BY <1>20 DEF ConfigSetFd, Turn, Stopped, vars, host, fds, wire, boot, cfg
<1>21. CASE \E f \in Fd : SetHprintfFd(f) \/ SetHprintfFdUnchecked(f)
  <2>1. PICK f \in Fd : SetHprintfFd(f) \/ SetHprintfFdUnchecked(f)
    BY <1>21
  <2> QED BY <2>1 DEF SetHprintfFd, SetHprintfFdUnchecked, InUse, Turn, Stopped, vars, host, fds,
     wire, boot, cfg
<1>22. CASE Shutdown
  BY <1>22 DEF Shutdown, Drop, Forget, Kill, Turn, Stopped, vars, host, fds, wire, boot, cfg
<1>23. CASE ShutdownUndropped
  BY <1>23 DEF ShutdownUndropped, Forget, Kill, InUse, Turn, Stopped, vars, host, fds, wire,
     boot, cfg
<1>24. CASE UNCHANGED vars
  BY <1>24 DEF Turn, Stopped, vars, host, fds, wire, boot, cfg
<1> QED BY <1>1, <1>2, <1>3, <1>4, <1>5, <1>6, <1>7, <1>8, <1>9, <1>10, <1>11, <1>12, <1>13,
   <1>14, <1>15, <1>16, <1>17, <1>18, <1>19, <1>20, <1>21, <1>22, <1>23, <1>24 DEF Step, Launching

(* A rescan takes over what libnyx has asked for since the last one. *)
LEMMA ProtectionKept ==
  ASSUME Turn, Protection, Step
  PROVE  Protection'
<1>1. CASE \/ New
          \/ (\E n \in Input : SetInput(n))
          \/ PrintFails
          \/ FuzzHprintfFails
          \/ (\E f \in Fd : ConfigSetFd(f))
          \/ UNCHANGED vars
  <2>1. /\ UNCHANGED <<changed, protect, shadow>>
        /\ pc' \in {"connect", "idle", "panicked"} \/ UNCHANGED <<pc, qemu, toHost>>
    BY <1>1 DEF New, SetInput, InUse, PrintFails, FuzzHprintfFails, ConfigSetFd, Turn, Stopped,
       vars, host, fds, wire, boot, cfg
  <2> QED BY <2>1 DEF Protection
<1>2. CASE Connect
  BY <1>2, LaunchAssumption DEF Connect, Turn, Stopped, Protection, vars, host, fds, wire, boot,
     cfg
<1>3. CASE Wait("hello", "attach")
  <2>1. CASE toHost > 0 /\ pc' = "attach" /\ UNCHANGED <<changed, protect, shadow>>
    <3>1. toHost = 1
      BY <2>1, <1>3 DEF Wait, Turn, Stopped
    <3> QED BY <2>1, <3>1, <1>3 DEF Wait, Protection
  <2>2. CASE Fail
    BY <2>2 DEF Fail, Drop, Forget, Protection
  <2> QED BY <2>1, <2>2, <1>3 DEF Wait, Goto, cfg
<1>4. CASE Attach
  BY <1>4, LaunchAssumption DEF Attach, Fail, Drop, Forget, Goto, Kill, Turn, Stopped,
     Protection, vars, host, fds, wire, boot, cfg
<1>5. CASE MatchStop
  BY <1>5, LaunchAssumption DEF MatchStop, Printed, Fail, Drop, Forget, Goto, Kill, Turn,
     Stopped, Protection, vars, host, fds, wire, boot, cfg
<1>6. CASE CheckState
  BY <1>6, LaunchAssumption DEF CheckState, Goto, Turn, Stopped, Protection, vars, host, fds,
     wire, boot, cfg
<1>7. CASE Resume
  BY <1>7, LaunchAssumption DEF Resume, Fail, Drop, Forget, Goto, Turn, Stopped, Protection,
     vars, host, fds, wire, boot, cfg
<1>8. CASE Wait("recv", "match")
  BY <1>8, LaunchAssumption DEF Wait, Fail, Drop, Forget, Goto, Turn, Stopped, Protection, vars,
     host, fds, wire, boot, cfg
<1>9. CASE AdoptSizes
  BY <1>9, LaunchAssumption DEF AdoptSizes, Turn, Stopped, Protection, vars, host, fds, wire,
     boot, cfg
<1>10. CASE Configure
  BY <1>10, LaunchAssumption DEF Configure, Turn, Stopped, Protection, vars, host, fds, wire,
     boot, cfg
<1>11. CASE QemuListen
  BY <1>11, LaunchAssumption DEF QemuListen, Turn, Stopped, Protection, vars, host, fds, wire,
     boot, cfg
<1>12. CASE QemuHello
  BY <1>12, LaunchAssumption DEF QemuHello, Turn, Stopped, Protection, vars, host, fds, wire,
     boot, cfg
<1>13. CASE QemuResume
  BY <1>13, LaunchAssumption DEF QemuResume, Turn, Stopped, Protection, vars, host, fds, wire,
     boot, cfg
<1>14. CASE QemuDie
  BY <1>14, LaunchAssumption DEF QemuDie, Turn, Stopped, Protection, vars, host, fds, wire, boot,
     cfg
<1>15. CASE \E c \in Code, m \in Msg, p \in Caps : QemuStop(c, m, p)
  <2>1. PICK c \in Code, m \in Msg, p \in Caps : QemuStop(c, m, p)
    BY <1>15
  <2> QED BY <2>1, LaunchAssumption DEF QemuStop, Turn, Stopped, Protection, vars, host, fds,
     wire, boot, cfg
<1>16. CASE Executing
  BY <1>16, LaunchAssumption DEF Executing, Execute, ExecuteIoError, InUse, Turn, Stopped,
     Protection, vars, host, fds, wire, boot, cfg
<1>17. CASE \E f \in Fd : SetHprintfFd(f) \/ SetHprintfFdUnchecked(f)
  <2>1. PICK f \in Fd : SetHprintfFd(f) \/ SetHprintfFdUnchecked(f)
    BY <1>17
  <2> QED BY <2>1, LaunchAssumption DEF SetHprintfFd, SetHprintfFdUnchecked, InUse, Turn,
     Stopped, Protection, vars, host, fds, wire, boot, cfg
<1>18. CASE Shutdown
  BY <1>18, LaunchAssumption DEF Shutdown, Drop, Forget, Kill, Turn, Stopped, Protection, vars,
     host, fds, wire, boot, cfg
<1>19. CASE ShutdownUndropped
  BY <1>19, LaunchAssumption DEF ShutdownUndropped, Forget, Kill, InUse, Turn, Stopped,
     Protection, vars, host, fds, wire, boot, cfg
<1> QED BY <1>1, <1>2, <1>3, <1>4, <1>5, <1>6, <1>7, <1>8, <1>9, <1>10, <1>11, <1>12, <1>13,
   <1>14, <1>15, <1>16, <1>17, <1>18, <1>19 DEF Step, Launching

(* Every way to close a descriptor counts it first. *)
LEMMA DescriptorsKept ==
  ASSUME Descriptors, Step
  PROVE  Descriptors'
<1>1. CASE \/ New
          \/ Connect
          \/ CheckState
          \/ AdoptSizes
          \/ Configure
          \/ QemuListen
          \/ QemuHello
          \/ QemuResume
          \/ QemuDie
          \/ (\E c \in Code, m \in Msg, p \in Caps : QemuStop(c, m, p))
          \/ (\E n \in Input : SetInput(n))
          \/ Executing
          \/ PrintFails
          \/ FuzzHprintfFails
          \/ UNCHANGED vars
  <2>1. UNCHANGED fds
    BY <1>1 DEF New, Connect, CheckState, Goto, AdoptSizes, Configure, QemuListen, QemuHello,
       QemuResume, QemuDie, QemuStop, SetInput, InUse, Executing, Execute, ExecuteIoError,
       PrintFails, FuzzHprintfFails, vars, host, fds, wire, boot, cfg
  <2> QED BY <2>1 DEF fds, Descriptors, ClosedOnlyIfHandedTwice
<1>2. CASE Wait("hello", "attach")
  BY <1>2, LaunchAssumption DEF Wait, Fail, Drop, Forget, Goto, Descriptors,
     ClosedOnlyIfHandedTwice, HandedOver, Closed, vars, host, fds, wire, boot, cfg
<1>3. CASE Attach
  BY <1>3, LaunchAssumption DEF Attach, Fail, Drop, Forget, Goto, Kill, Descriptors,
     ClosedOnlyIfHandedTwice, HandedOver, Closed, vars, host, fds, wire, boot, cfg
<1>4. CASE MatchStop
  BY <1>4, LaunchAssumption DEF MatchStop, Printed, Fail, Drop, Forget, Goto, Kill, Descriptors,
     ClosedOnlyIfHandedTwice, HandedOver, Closed, vars, host, fds, wire, boot, cfg
<1>5. CASE Resume
  BY <1>5, LaunchAssumption DEF Resume, Fail, Drop, Forget, Goto, Descriptors,
     ClosedOnlyIfHandedTwice, HandedOver, Closed, vars, host, fds, wire, boot, cfg
<1>6. CASE Wait("recv", "match")
  BY <1>6, LaunchAssumption DEF Wait, Fail, Drop, Forget, Goto, Descriptors,
     ClosedOnlyIfHandedTwice, HandedOver, Closed, vars, host, fds, wire, boot, cfg
<1>7. CASE \E f \in Fd : ConfigSetFd(f)
  BY <1>7, LaunchAssumption DEF ConfigSetFd, Descriptors, ClosedOnlyIfHandedTwice, HandedOver,
     Closed, vars, host, fds, wire, boot, cfg
<1>8. CASE \E f \in Fd : SetHprintfFd(f) \/ SetHprintfFdUnchecked(f)
  <2>1. PICK f \in Fd : SetHprintfFd(f) \/ SetHprintfFdUnchecked(f)
    BY <1>8
  <2> QED BY <2>1, LaunchAssumption DEF SetHprintfFd, SetHprintfFdUnchecked, InUse, Descriptors,
     ClosedOnlyIfHandedTwice, HandedOver, Closed, vars, host, fds, wire, boot, cfg
<1>9. CASE Shutdown
  BY <1>9, LaunchAssumption DEF Shutdown, Drop, Forget, Kill, Descriptors,
     ClosedOnlyIfHandedTwice, HandedOver, Closed, vars, host, fds, wire, boot, cfg
<1>10. CASE ShutdownUndropped
  BY <1>10, LaunchAssumption DEF ShutdownUndropped, Forget, Kill, InUse, Descriptors,
     ClosedOnlyIfHandedTwice, HandedOver, Closed, vars, host, fds, wire, boot, cfg
<1> QED BY <1>1, <1>2, <1>3, <1>4, <1>5, <1>6, <1>7, <1>8, <1>9, <1>10 DEF Step, Launching

(* A larger size comes with a larger mapping. *)
LEMMA BuffersKept ==
  ASSUME Buffers, Step
  PROVE  Buffers'
<1>1. CASE \/ Connect
          \/ CheckState
          \/ Configure
          \/ QemuListen
          \/ QemuResume
          \/ QemuDie
          \/ (\E n \in Input : SetInput(n))
          \/ Executing
          \/ PrintFails
          \/ FuzzHprintfFails
          \/ (\E f \in Fd : ConfigSetFd(f))
          \/ (\E f \in Fd : SetHprintfFd(f) \/ SetHprintfFdUnchecked(f))
          \/ UNCHANGED vars
  <2>1. UNCHANGED <<bitmap, payload, cap>>
    BY <1>1 DEF Connect, CheckState, Goto, Configure, QemuListen, QemuResume, QemuDie, SetInput,
       InUse, Executing, Execute, ExecuteIoError, PrintFails, FuzzHprintfFails, ConfigSetFd,
       SetHprintfFd, SetHprintfFdUnchecked, vars, host, fds, wire, boot, cfg
  <2> QED BY <2>1 DEF Buffers, BuffersMapped
<1>2. CASE New
  BY <1>2, LaunchAssumption DEF New, Buffers, BuffersMapped, Unmapped, NoCap, Adopted, Caps,
     vars, host, fds, wire, boot, cfg, LaunchAssumption
<1>3. CASE Wait("hello", "attach")
  BY <1>3 DEF Wait, Fail, Drop, Forget, Goto, Buffers, BuffersMapped, Unmapped, NoCap, Adopted,
     Caps, vars, host, fds, wire, boot, cfg
<1>4. CASE Attach
  BY <1>4 DEF Attach, Fail, Drop, Forget, Goto, Kill, Buffers, BuffersMapped, Unmapped, NoCap,
     Adopted, Caps, vars, host, fds, wire, boot, cfg
<1>5. CASE MatchStop
  BY <1>5 DEF MatchStop, Printed, Fail, Drop, Forget, Goto, Kill, Buffers, BuffersMapped,
     Unmapped, NoCap, Adopted, Caps, vars, host, fds, wire, boot, cfg
<1>6. CASE Resume
  BY <1>6 DEF Resume, Fail, Drop, Forget, Goto, Buffers, BuffersMapped, Unmapped, NoCap, Adopted,
     Caps, vars, host, fds, wire, boot, cfg
<1>7. CASE Wait("recv", "match")
  BY <1>7 DEF Wait, Fail, Drop, Forget, Goto, Buffers, BuffersMapped, Unmapped, NoCap, Adopted,
     Caps, vars, host, fds, wire, boot, cfg
<1>8. CASE AdoptSizes
  BY <1>8 DEF AdoptSizes, Buffers, BuffersMapped, Unmapped, NoCap, Adopted, Caps, vars, host,
     fds, wire, boot, cfg
<1>9. CASE QemuHello
  BY <1>9 DEF QemuHello, Buffers, BuffersMapped, Unmapped, NoCap, Adopted, Caps, vars, host, fds,
     wire, boot, cfg
<1>10. CASE \E c \in Code, m \in Msg, p \in Caps : QemuStop(c, m, p)
  <2>1. PICK c \in Code, m \in Msg, p \in Caps : QemuStop(c, m, p)
    BY <1>10
  <2>2. p.bitmap \in Nat /\ p.input \in Nat
    <3>1. p.bitmap \in AgentBitmap \cup {0} /\ p.input \in AgentInput \cup {0}
      BY DEF Caps
    <3>2. \A size \in AgentBitmap \cup AgentInput \cup {0} : size \in Nat
      BY LaunchAssumption DEF LaunchAssumption
    <3> QED BY <3>1, <3>2
  <2> QED BY <2>1, <2>2 DEF QemuStop, Buffers, BuffersMapped, host
<1>11. CASE Shutdown
  BY <1>11 DEF Shutdown, Drop, Forget, Kill, Buffers, BuffersMapped, Unmapped, NoCap, Adopted,
     Caps, vars, host, fds, wire, boot, cfg
<1>12. CASE ShutdownUndropped
  BY <1>12 DEF ShutdownUndropped, Forget, Kill, InUse, Buffers, BuffersMapped, Unmapped, NoCap,
     Adopted, Caps, vars, host, fds, wire, boot, cfg
<1> QED BY <1>1, <1>2, <1>3, <1>4, <1>5, <1>6, <1>7, <1>8, <1>9, <1>10, <1>11, <1>12 DEF Step,
   Launching

(* There is always a message, if only the empty one of a fresh buffer. *)
LEMMA MessageKept ==
  ASSUME misc \in Msg, Step
  PROVE  misc' \in Msg
<1>1. CASE \/ New
          \/ Connect
          \/ CheckState
          \/ AdoptSizes
          \/ Configure
          \/ QemuListen
          \/ QemuResume
          \/ QemuDie
          \/ (\E n \in Input : SetInput(n))
          \/ PrintFails
          \/ FuzzHprintfFails
          \/ (\E f \in Fd : ConfigSetFd(f))
          \/ (\E f \in Fd : SetHprintfFd(f) \/ SetHprintfFdUnchecked(f))
          \/ UNCHANGED vars
  <2>1. UNCHANGED misc
    BY <1>1 DEF New, Connect, CheckState, Goto, AdoptSizes, Configure, QemuListen, QemuResume,
       QemuDie, SetInput, InUse, PrintFails, FuzzHprintfFails, ConfigSetFd, SetHprintfFd,
       SetHprintfFdUnchecked, vars, host, fds, wire, boot, cfg
  <2> QED BY <2>1 DEF boot
<1>2. CASE Wait("hello", "attach")
  BY <1>2, LaunchAssumption DEF Wait, Fail, Drop, Forget, Goto, vars, host, fds, wire, boot, cfg
<1>3. CASE Attach
  BY <1>3, LaunchAssumption DEF Attach, Fail, Drop, Forget, Goto, Kill, vars, host, fds, wire,
     boot, cfg
<1>4. CASE MatchStop
  BY <1>4, LaunchAssumption DEF MatchStop, Printed, Fail, Drop, Forget, Goto, Kill, vars, host,
     fds, wire, boot, cfg
<1>5. CASE Resume
  BY <1>5, LaunchAssumption DEF Resume, Fail, Drop, Forget, Goto, vars, host, fds, wire, boot, cfg
<1>6. CASE Wait("recv", "match")
  BY <1>6, LaunchAssumption DEF Wait, Fail, Drop, Forget, Goto, vars, host, fds, wire, boot, cfg
<1>7. CASE QemuHello
  BY <1>7, LaunchAssumption DEF QemuHello, vars, host, fds, wire, boot, cfg
<1>8. CASE \E c \in Code, m \in Msg, p \in Caps : QemuStop(c, m, p)
  <2>1. PICK c \in Code, m \in Msg, p \in Caps : QemuStop(c, m, p)
    BY <1>8
  <2> QED BY <2>1, LaunchAssumption DEF QemuStop, vars, host, fds, wire, boot, cfg
<1>9. CASE Executing
  BY <1>9, LaunchAssumption DEF Executing, Execute, ExecuteIoError, InUse, vars, host, fds, wire,
     boot, cfg
<1>10. CASE Shutdown
  BY <1>10, LaunchAssumption DEF Shutdown, Drop, Forget, Kill, vars, host, fds, wire, boot, cfg
<1>11. CASE ShutdownUndropped
  BY <1>11, LaunchAssumption DEF ShutdownUndropped, Forget, Kill, InUse, vars, host, fds, wire,
     boot, cfg
<1> QED BY <1>1, <1>2, <1>3, <1>4, <1>5, <1>6, <1>7, <1>8, <1>9, <1>10, <1>11 DEF Step, Launching

-----------------------------------------------------------------------------
(* The theorems *)

IInv == Turn /\ Protection /\ Descriptors /\ Buffers /\ misc \in Msg

LEMMA InitEstablishes == SessionInit => IInv
<1> SUFFICES ASSUME SessionInit PROVE IInv
  OBVIOUS
<1>1. Turn
  BY DEF SessionInit, Init, Turn, Stopped
<1>2. Protection
  BY DEF SessionInit, Init, Protection
<1>3. Descriptors
  BY LaunchAssumption DEF SessionInit, Init, Descriptors, ClosedOnlyIfHandedTwice,
     LaunchAssumption
<1>4. Buffers
  BY DEF SessionInit, Init, Buffers, BuffersMapped, Unmapped, NoCap
<1>5. misc \in Msg
  BY LaunchAssumption DEF SessionInit, Init, LaunchAssumption
<1> QED BY <1>1, <1>2, <1>3, <1>4, <1>5 DEF IInv

(* The inductive invariant: the turn, the write protection, the descriptors  *)
(* and the buffers of an instance, from its first system call to its end.    *)
THEOREM Invariant == Session => []IInv
<1>1. SessionInit => IInv
  BY InitEstablishes
<1>2. IInv /\ [SessionNext]_svars => IInv'
  BY Steps, TurnKept, ProtectionKept, DescriptorsKept, BuffersKept, MessageKept DEF IInv
<1> QED BY <1>1, <1>2, PTL DEF Session

(* For any agent, message and number of calls: no Err leaves a QEMU behind,  *)
(* and no panic one that runs.                                               *)
THEOREM LeavesNoQemu == Session => []NoStrayQemu
<1>1. IInv => NoStrayQemu
  BY DEF IInv, Turn, Stopped, NoStrayQemu
<1> QED BY <1>1, Invariant, PTL

(* The agent never runs with a buffer that is not protected as asked for.    *)
THEOREM ProtectedThroughout == Session => []ProtectedFromAttach
<1>1. IInv => ProtectedFromAttach
  BY DEF IInv, Protection, ProtectedFromAttach
<1> QED BY <1>1, Invariant, PTL

(* Through either interface a descriptor in use is open unless the user has  *)
(* handed it over more than once.                                            *)
THEOREM ClosedOnlyIfTwice == Session => []ClosedOnlyIfHandedTwice
<1>1. IInv => ClosedOnlyIfHandedTwice
  BY DEF IInv, Descriptors
<1> QED BY <1>1, Invariant, PTL

(* Whatever sizes are configured and asked for, the buffers are mapped.      *)
THEOREM BuffersAlwaysMapped == Session => []BuffersMapped
<1>1. IInv => BuffersMapped
  BY DEF IInv, Buffers
<1> QED BY <1>1, Invariant, PTL

(* A message that the boot loop cannot slice reaches beyond 4 KB. *)
LEMMA UnreadableIsLong ==
  ASSUME misc \in Msg, ~Readable
  PROVE  MISC_OFFSET + LEN_SIZE + misc > AUX_BUFFER_SIZE
<1>1. misc \in Nat
  BY LaunchAssumption DEF LaunchAssumption
<1> QED
  BY <1>1 DEF Readable, InArray, DataArray, MISC_SIZE, MISC_OFFSET, HEADER_SIZE, CAP_SIZE,
              CONFIG_SIZE, STATE_SIZE, LEN_SIZE, AUX_BUFFER_SIZE

(* What an exec() leaves as it is, and what it may change. *)
LEMMA ExecutingDoes ==
  ASSUME Executing
  PROVE  /\ pc = "idle" /\ outcome = "Ok" /\ printed' = <<>> /\ due' = <<>>
         /\ UNCHANGED <<outcome, calls, bitmap, payload, fds, wire, stops, header, ready, cap,
                        protect, input>>
         /\ pc' = "idle" \/ (pc' = "panicked" /\ code' = "UNKNOWN")
         /\ \/ UNCHANGED <<misc, foreign>>
            \/ \E m \in Msg :
                 /\ misc' = m
                 /\ foreign' = IF m = misc THEN foreign ELSE Overwritten(foreign, m, Foreign)
<1>1. CASE ExecuteIoError
  BY <1>1 DEF ExecuteIoError, InUse, cfg, user
<1>2. CASE \E c \in {"SUCCESS", "CRASH", "UNKNOWN"}, m \in Msg : Execute(c, m)
  <2>1. PICK c \in {"SUCCESS", "CRASH", "UNKNOWN"}, m \in Msg : Execute(c, m)
    BY <1>2
  <2> QED BY <2>1 DEF Execute, InUse
<1> QED BY <1>1, <1>2 DEF Executing

Cause ==
  \/ pc = "match" /\ code \in {"CRASH", "UNKNOWN"}
  \/ pc = "idle" /\ code' = "UNKNOWN"
  \/ pc = "adopt" /\ cap.trace # 0
  \/ pc = "match" /\ MISC_OFFSET + LEN_SIZE + misc > AUX_BUFFER_SIZE
  \/ file # NoFd /\ handed[file] > 1
  \/ pc = "idle" /\ foreign # {}

LEMMA PanicCauses ==
  ASSUME IInv, Step, pc # "panicked", pc' = "panicked"
  PROVE  Cause
<1>1. ~Writable => file # NoFd /\ handed[file] > 1
  BY DEF IInv, Descriptors, ClosedOnlyIfHandedTwice, Writable
<1>2. CASE MatchStop
  <2>1. BootPanics /\ pc = "match"
    BY <1>2 DEF MatchStop, Printed, Fail, Goto
  <2>2. misc \in Msg
    BY DEF IInv
  <2> QED BY <2>1, <2>2, <1>1, UnreadableIsLong DEF BootPanics, Cause
<1>3. CASE AdoptSizes
  BY <1>3 DEF AdoptSizes, Cause
<1>4. CASE PrintFails
  BY <1>4 DEF PrintFails, InUse, ArrayIsText, Cause
<1>5. CASE FuzzHprintfFails
  BY <1>5, <1>1 DEF FuzzHprintfFails, Cause
<1>6. CASE \/ New \/ Connect \/ Attach \/ CheckState \/ Resume \/ Configure
           \/ Wait("hello", "attach") \/ Wait("recv", "match")
  BY <1>6 DEF New, Connect, Attach, CheckState, Resume, Configure, Wait, Goto, Fail
<1>7. CASE \/ QemuListen \/ QemuHello \/ QemuResume \/ QemuDie
           \/ \E c \in Code, m \in Msg, p \in Caps : QemuStop(c, m, p)
  BY <1>7 DEF QemuListen, QemuHello, QemuResume, QemuDie, QemuStop, host
<1>8. CASE \/ \E n \in Input : SetInput(n)
           \/ \E f \in Fd : ConfigSetFd(f)
           \/ \E f \in Fd : SetHprintfFd(f) \/ SetHprintfFdUnchecked(f)
           \/ Shutdown \/ ShutdownUndropped \/ UNCHANGED vars
  BY <1>8 DEF SetInput, ConfigSetFd, SetHprintfFd, SetHprintfFdUnchecked, Shutdown,
              ShutdownUndropped, vars, host
<1>9. CASE Executing
  BY <1>9, ExecutingDoes DEF Cause
<1> QED BY <1>2, <1>3, <1>4, <1>5, <1>6, <1>7, <1>8, <1>9 DEF Step, Launching

(* Every panic on the way to the fuzzing loop and in it has one of the five  *)
(* causes that PanicsExplained lists.                                        *)
THEOREM PanicsAreExplained == Session => PanicsExplained
<1>1. IInv /\ [SessionNext]_svars => [pc # "panicked" /\ pc' = "panicked" => Cause]_svars
  BY Steps, PanicCauses DEF IInv
<1>2. Session => [][pc # "panicked" /\ pc' = "panicked" => Cause]_svars
  BY <1>1, Invariant, PTL DEF Session
<1> QED BY <1>2 DEF PanicsExplained, Cause

(* What the boot loop lets through to the end is no abort and no crash.      *)
Bootable ==
  /\ code \in Code
  /\ pc \in {"state", "adopt", "configure"} => code \in {"SUCCESS", "HPRINTF"}

LEMMA BootableKept ==
  ASSUME Bootable, Step
  PROVE  Bootable'
<1>1. CASE \/ New \/ Connect \/ Resume \/ Wait("hello", "attach") \/ Wait("recv", "match") \/ Attach
           \/ QemuHello \/ Shutdown \/ ShutdownUndropped
  BY <1>1 DEF New, Connect, Resume, Wait, Attach, QemuHello, Shutdown, ShutdownUndropped, InUse,
              Fail, Drop, Forget, Goto, Kill, Bootable, Code, host, boot
<1>2. CASE MatchStop
  BY <1>2 DEF MatchStop, Printed, Fail, Drop, Forget, Goto, Bootable, Code, boot
<1>3. CASE CheckState \/ AdoptSizes \/ Configure
  BY <1>3 DEF CheckState, AdoptSizes, Configure, Goto, Bootable, boot
<1>4. CASE \E c \in Code, m \in Msg, p \in Caps : QemuStop(c, m, p)
  <2>1. PICK c \in Code, m \in Msg, p \in Caps : QemuStop(c, m, p)
    BY <1>4
  <2> QED BY <2>1 DEF QemuStop, Bootable, host
<1>5. CASE Executing
  BY <1>5 DEF Executing, Execute, ExecuteIoError, InUse, Bootable, Code
<1>6. CASE QemuListen \/ QemuResume \/ QemuDie \/ UNCHANGED vars
  BY <1>6 DEF QemuListen, QemuResume, QemuDie, Bootable, vars, host, boot
<1>7. CASE \/ \E n \in Input : SetInput(n)
           \/ PrintFails \/ FuzzHprintfFails
           \/ \E f \in Fd : ConfigSetFd(f)
           \/ \E f \in Fd : SetHprintfFd(f) \/ SetHprintfFdUnchecked(f)
  BY <1>7 DEF SetInput, InUse, PrintFails, FuzzHprintfFails, ConfigSetFd, SetHprintfFd,
              SetHprintfFdUnchecked, Bootable, vars, host, boot
<1> QED BY <1>1, <1>2, <1>3, <1>4, <1>5, <1>6, <1>7 DEF Step, Launching

(* Only the end of new() makes an instance.                                  *)
LEMMA OkIsConfigured ==
  ASSUME Step, outcome # "Ok", outcome' = "Ok"
  PROVE  Configure
<1>1. CASE \/ New \/ Connect \/ Attach \/ MatchStop \/ CheckState \/ Resume \/ AdoptSizes
           \/ Wait("hello", "attach") \/ Wait("recv", "match")
  BY <1>1 DEF New, Connect, Attach, MatchStop, Printed, CheckState, Resume, AdoptSizes, Wait,
     Goto, Fail
<1>2. CASE \/ QemuListen \/ QemuHello \/ QemuResume \/ QemuDie
           \/ \E c \in Code, m \in Msg, p \in Caps : QemuStop(c, m, p)
  BY <1>2 DEF QemuListen, QemuHello, QemuResume, QemuDie, QemuStop, host
<1>3. CASE \/ \E n \in Input : SetInput(n)
           \/ Executing
           \/ PrintFails \/ FuzzHprintfFails
           \/ \E f \in Fd : ConfigSetFd(f)
           \/ \E f \in Fd : SetHprintfFd(f) \/ SetHprintfFdUnchecked(f)
           \/ Shutdown \/ ShutdownUndropped \/ UNCHANGED vars
  BY <1>3 DEF SetInput, InUse, Executing, Execute, ExecuteIoError, PrintFails, FuzzHprintfFails,
     ConfigSetFd, SetHprintfFd,
              SetHprintfFdUnchecked, Shutdown, ShutdownUndropped, vars, host
<1> QED BY <1>1, <1>2, <1>3 DEF Step, Launching

(* An Ok is an initial state of the fuzzing loop, for every agent, message   *)
(* and size; so what NyxExecProofs proves of its behaviors starts here.      *)
THEOREM OkIsExecInit == Session => OkStartsExec
<1>1. SessionInit => Bootable
  BY DEF SessionInit, Init, Bootable, Code
<1>2. Bootable /\ [SessionNext]_svars => Bootable'
  BY Steps, BootableKept
<1>3. Session => []Bootable
  BY <1>1, <1>2, PTL DEF Session
<1>4. ASSUME IInv, Bootable, Configure
      PROVE  Exec!Init'
  <2>1. /\ pc' = "idle" /\ changed' = TRUE
        /\ code' \in {"SUCCESS", "HPRINTF"} /\ misc' \in Msg
    BY <1>4 DEF Configure, Bootable, IInv, boot
  <2>2. toQemu' = 0 /\ toHost' = 0 /\ qemu' \in {"parked", "dead"}
    BY <1>4 DEF Configure, IInv, Turn, Stopped, wire
  <2> QED BY <2>1, <2>2 DEF Exec!Init, Exec!InitFlagged
<1>5. IInv /\ Bootable /\ [SessionNext]_svars => [outcome # "Ok" /\ outcome' = "Ok" => Exec!Init']_vars
  BY <1>4, Steps, OkIsConfigured
<1> QED BY <1>3, <1>5, Invariant, PTL DEF Session, OkStartsExec

-----------------------------------------------------------------------------
(* What is in the buffers *)

(* Before and after an instance there is no input; in between it was cut     *)
(* where the mapping ends, and the mapping stays.                            *)
Delivered ==
  /\ input \in [len : Nat, bytes : Nat]
  /\ InputDelivered
  /\ pc \notin {"idle", "panicked"} \/ (pc = "idle" /\ outcome # "Ok") => input = NoInput

(* What is not text lies behind a message that is.                           *)
TextFirst ==
  misc \notin Foreign => \A b \in foreign : b >= misc

LEMMA NoInputDelivered ==
  ASSUME payload \in [map : Nat, size : Nat], input = NoInput
  PROVE  input \in [len : Nat, bytes : Nat] /\ InputDelivered
BY DEF InputDelivered, NoInput, InputFieldSize

LEMMA DeliveredKept ==
  ASSUME IInv, IInv', Delivered, [SessionNext]_svars
  PROVE  Delivered'
<1>1. payload \in [map : Nat, size : Nat] /\ payload.size <= payload.map
  BY DEF IInv, Buffers, BuffersMapped
<1>2. (payload \in [map : Nat, size : Nat])'
  BY DEF IInv, Buffers
<1>3. ASSUME (input = NoInput)' PROVE Delivered'
  BY <1>3, <1>2, NoInputDelivered DEF Delivered, InputDelivered, NoInput, InputFieldSize
<1>4. ASSUME UNCHANGED <<input, payload>>, pc' \in {"idle", "panicked"},
             pc' = "idle" => outcome' = "Ok"
      PROVE  Delivered'
  BY <1>4 DEF Delivered, InputDelivered
<1>5. ASSUME UNCHANGED <<input, payload, pc, outcome>> PROVE Delivered'
  BY <1>5 DEF Delivered, InputDelivered
<1>6. CASE (New \/ Launching) /\ KeepBuffers
  <2>1. CASE pc' = "idle" /\ outcome' # "Ok"
    BY <1>6, <2>1, <1>3 DEF KeepBuffers
  <2>2. CASE ~(pc' = "idle" /\ outcome' # "Ok")
    <3>1. UNCHANGED input
      BY <1>6, <2>2 DEF KeepBuffers, user
    <3>2. pc \notin {"idle", "panicked"} \/ (pc = "idle" /\ outcome # "Ok")
      BY <1>6 DEF New, Launching, Connect, Wait, Attach, MatchStop, CheckState, Resume,
         AdoptSizes, Configure
    <3> QED BY <3>1, <3>2, <1>3 DEF Delivered
  <2> QED BY <2>1, <2>2
<1>7. CASE Booting \/ ((QemuDie \/ Panicked) /\ UNCHANGED user) \/ UNCHANGED svars
  <2>1. UNCHANGED <<input, payload, pc, outcome>>
    BY <1>7 DEF Booting, QemuListen, QemuResume, QemuHello, QemuStop, QemuDie, Panicked, svars,
                user, vars, host
  <2> QED BY <2>1, <1>5
<1>8. CASE \E n \in Input : SetInput(n)
  <2>1. PICK n \in Input : SetInput(n)
    BY <1>8
  <2>2. n \in Nat
    BY SessionAssumption DEF SessionAssumption
  <2>3. input' = [len |-> n, bytes |-> Cut(n)] /\ UNCHANGED <<payload, pc, outcome>>
    BY <2>1 DEF SetInput, vars, host
  <2>4. pc = "idle" /\ outcome = "Ok"
    BY <2>1 DEF SetInput, InUse
  <2>5. payload.map \in Nat /\ payload.size \in Nat
    BY <1>1
  <2> QED BY <2>2, <2>3, <2>4, <2>5, <1>1 DEF Delivered, InputDelivered, Cut, InputFieldSize
<1>9. CASE (Shutdown \/ ShutdownUndropped) /\ KeepBuffers
  <2>1. input' = NoInput
    BY <1>9 DEF Shutdown, ShutdownUndropped, InUse, KeepBuffers
  <2> QED BY <2>1, <1>3
<1>10. CASE \/ Executing
            \/ PrintFails
            \/ FuzzHprintfFails /\ UNCHANGED user
            \/ \E f \in Fd : (ConfigSetFd(f) \/ SetHprintfFd(f)) /\ UNCHANGED user
            \/ \E f \in Fd : SetHprintfFdUnchecked(f)
  <2>1. \/ UNCHANGED <<input, payload, pc, outcome>>
        \/ pc' = "panicked" /\ UNCHANGED <<input, payload>>
    BY <1>10 DEF Executing, Execute, ExecuteIoError, PrintFails, FuzzHprintfFails, ConfigSetFd,
       SetHprintfFd,
                 SetHprintfFdUnchecked, InUse, user, host
  <2> QED BY <2>1, <1>4, <1>5
<1> QED BY <1>6, <1>7, <1>8, <1>9, <1>10 DEF SessionNext, Used

LEMMA TextFirstKept ==
  ASSUME IInv, IInv', TextFirst, [SessionNext]_svars
  PROVE  TextFirst'
<1>1. misc' \in Nat
  BY LaunchAssumption DEF IInv, LaunchAssumption
<1>2. ASSUME foreign' = {} PROVE TextFirst'
  BY <1>2 DEF TextFirst
<1>3. ASSUME UNCHANGED <<misc, foreign>> PROVE TextFirst'
  BY <1>3 DEF TextFirst
<1>4. ASSUME NEW m \in Msg, misc' = m,
             foreign' = IF m = misc THEN foreign ELSE Overwritten(foreign, m, Foreign)
      PROVE  TextFirst'
  BY <1>4 DEF TextFirst, Overwritten, NotText
<1>5. CASE (New \/ Launching) /\ KeepBuffers
  <2>1. CASE pc' = "idle" /\ outcome' # "Ok"
    BY <1>5, <2>1, <1>2 DEF KeepBuffers
  <2>2. CASE ~(pc' = "idle" /\ outcome' # "Ok")
    <3>1. UNCHANGED foreign
      BY <1>5, <2>2 DEF KeepBuffers, user
    <3>2. ~Fail
      BY <2>2 DEF Fail
    <3>3. UNCHANGED misc
      BY <1>5, <3>2 DEF New, Launching, Connect, Wait, Attach, MatchStop, Printed, CheckState,
         Resume,
                        AdoptSizes, Configure, boot
    <3> QED BY <3>1, <3>3, <1>3
  <2> QED BY <2>1, <2>2
<1>6. CASE Booting
  <2>1. CASE (QemuListen \/ QemuResume) /\ UNCHANGED user
    BY <2>1, <1>3 DEF QemuListen, QemuResume, user, boot
  <2>2. CASE QemuHello /\ foreign' = {} /\ UNCHANGED input
    BY <2>2, <1>2
  <2>3. CASE \E c \in Code, m \in Msg, p \in Caps :
               /\ QemuStop(c, m, p)
               /\ foreign' = IF m = misc THEN foreign ELSE Overwritten(foreign, m, Foreign)
               /\ UNCHANGED input
    BY <2>3, <1>4 DEF QemuStop
  <2> QED BY <2>1, <2>2, <2>3, <1>6 DEF Booting
<1>7. CASE (Shutdown \/ ShutdownUndropped) /\ KeepBuffers
  BY <1>7, <1>2 DEF Shutdown, ShutdownUndropped, InUse, KeepBuffers
<1>8. CASE Executing
  BY <1>8, <1>3, <1>4, ExecutingDoes
<1>9. CASE \/ (QemuDie \/ Panicked) /\ UNCHANGED user
           \/ \E n \in Input : SetInput(n)
           \/ PrintFails
           \/ FuzzHprintfFails /\ UNCHANGED user
           \/ \E f \in Fd : (ConfigSetFd(f) \/ SetHprintfFd(f)) /\ UNCHANGED user
           \/ \E f \in Fd : SetHprintfFdUnchecked(f)
           \/ UNCHANGED svars
  <2>1. UNCHANGED <<misc, foreign>>
    BY <1>9 DEF QemuDie, Panicked, SetInput, PrintFails, FuzzHprintfFails, ConfigSetFd,
       SetHprintfFd,
                SetHprintfFdUnchecked, svars, user, vars, boot
  <2> QED BY <2>1, <1>3
<1> QED BY <1>5, <1>6, <1>7, <1>8, <1>9 DEF SessionNext, Used

(* Whatever sizes are configured, agreed on and sent, an input that fits     *)
(* into the buffer arrives whole.                                            *)
THEOREM InputsArrive == Session => []InputDelivered
<1>1. SessionInit => Delivered
  BY DEF SessionInit, Init, Unmapped, NoInput, InputFieldSize, Delivered, InputDelivered
<1>2. IInv /\ IInv' /\ Delivered /\ [SessionNext]_svars => Delivered'
  BY DeliveredKept
<1>3. Delivered => InputDelivered
  BY DEF Delivered
<1> QED BY <1>1, <1>2, <1>3, Invariant, PTL DEF Session

(* Whatever was posted before it, acat shows a text that ends within 4 KB.   *)
THEOREM TextsAreReadable == Session => []MessagesReadable
<1>1. SessionInit => TextFirst
  BY DEF SessionInit, TextFirst
<1>2. IInv /\ IInv' /\ TextFirst /\ [SessionNext]_svars => TextFirst'
  BY TextFirstKept
<1>3. IInv /\ TextFirst => MessagesReadable
  <2>1. misc \in Msg => misc \in Nat
    BY LaunchAssumption DEF LaunchAssumption
  <2>2. misc \in Nat => (InArray(misc) <=> MISC_OFFSET + LEN_SIZE + misc <= AUX_BUFFER_SIZE)
    BY DEF InArray, DataArray, MISC_SIZE, MISC_OFFSET, HEADER_SIZE, CAP_SIZE, CONFIG_SIZE,
       STATE_SIZE,
           LEN_SIZE, AUX_BUFFER_SIZE
  <2> QED BY <2>1, <2>2 DEF IInv, TextFirst, MessagesReadable, AcatShows
<1> QED BY <1>1, <1>2, <1>3, Invariant, PTL DEF Session

-----------------------------------------------------------------------------
(* The messages of the boot *)

(* A message that QEMU has stopped for, and libnyx has not matched yet.      *)
Pending == code = "HPRINTF" /\ (pc = "match" \/ (pc = "recv" /\ toHost = 1))

Posted ==
  /\ printed \in Seq(Msg)
  /\ pc = "attach" \/ (pc = "hello" /\ toHost = 1) => code = "SUCCESS"
  /\ pc # "panicked" => due = IF Pending THEN Append(printed, misc) ELSE printed
  /\ pc = "panicked" => due = printed \/ (due = Append(printed, misc) /\ outcome # "Ok")

LEMMA PostedKept ==
  ASSUME Turn, misc \in Msg, Posted, Step
  PROVE  Posted'
<1>1. CASE New
  BY <1>1 DEF New, Posted, Pending, Turn, Stopped
<1>2. CASE Connect
  BY <1>2 DEF Connect, Posted, Pending, Turn, Stopped, boot
<1>3. CASE Fail
  BY <1>3 DEF Fail, Drop, Forget, Posted, Pending
<1>4. CASE Wait("hello", "attach")
  <2>1. CASE toHost > 0 /\ toHost' = toHost - 1 /\ Goto("attach") /\ UNCHANGED boot
    <3>1. pc = "hello" /\ toHost = 1
      BY <1>4, <2>1 DEF Wait, Turn, Stopped
    <3> QED BY <2>1, <3>1 DEF Goto, Posted, Pending, boot
  <2> QED BY <1>4, <2>1, <1>3 DEF Wait
<1>5. CASE Attach
  <2>1. CASE pc = "attach" /\ Goto("match") /\ UNCHANGED boot
    BY <2>1 DEF Goto, Posted, Pending, boot
  <2> QED BY <1>5, <2>1, <1>3 DEF Attach
<1>6. CASE MatchStop
  <2>1. CASE pc = "match" /\ Printed /\ pc' = "state"
    BY <2>1 DEF Printed, Posted, Pending, boot
  <2>2. CASE pc = "match" /\ code = "SUCCESS" /\ Goto("state") /\ UNCHANGED boot
    BY <2>2 DEF Goto, Posted, Pending, boot
  <2>3. CASE pc = "match" /\ BootPanics /\ Goto("panicked") /\ UNCHANGED boot
    BY <2>3 DEF Goto, Posted, Pending, Turn, Stopped, boot
  <2> QED BY <1>6, <2>1, <2>2, <2>3, <1>3 DEF MatchStop
<1>7. CASE CheckState \/ Configure
  BY <1>7 DEF CheckState, Configure, Goto, Posted, Pending, boot
<1>8. CASE AdoptSizes
  BY <1>8 DEF AdoptSizes, Posted, Pending, boot
<1>9. CASE Resume
  <2>1. CASE pc = "send" /\ Goto("recv") /\ UNCHANGED <<toHost, boot>>
    BY <2>1 DEF Goto, Posted, Pending, Turn, Stopped, boot
  <2> QED BY <1>9, <2>1, <1>3 DEF Resume
<1>10. CASE Wait("recv", "match")
  <2>1. CASE toHost > 0 /\ Goto("match") /\ UNCHANGED boot
    <3>1. pc = "recv" /\ toHost = 1
      BY <1>10, <2>1 DEF Wait, Turn, Stopped
    <3> QED BY <2>1, <3>1 DEF Goto, Posted, Pending, boot
  <2> QED BY <1>10, <2>1, <1>3 DEF Wait
<1>11. CASE QemuHello
  BY <1>11 DEF QemuHello, Posted, Pending, host
<1>12. CASE \E c \in Code, m \in Msg, p \in Caps : QemuStop(c, m, p)
  <2>1. PICK c \in Code, m \in Msg, p \in Caps : QemuStop(c, m, p)
    BY <1>12
  <2>2. pc = "recv" /\ toHost = 0 /\ ~Pending
    BY <2>1 DEF QemuStop, Turn, Stopped, Pending
  <2>3. printed' = printed /\ pc' = "recv" /\ toHost' = 1 /\ code' = c /\ misc' = m
    BY <2>1, <2>2 DEF QemuStop, host
  <2>4. due' = IF c = "HPRINTF" THEN Append(printed, m) ELSE printed
    BY <2>1, <2>2 DEF QemuStop, Posted
  <2> QED BY <2>3, <2>4 DEF Posted, Pending
<1>13. CASE Executing
  BY <1>13, ExecutingDoes DEF Posted, Pending
<1>14. CASE Shutdown \/ ShutdownUndropped
  <2>1. pc' = "idle" /\ printed' = <<>> /\ due' = <<>>
    BY <1>14 DEF Shutdown, ShutdownUndropped, Drop, Forget, InUse
  <2> QED BY <2>1 DEF Posted, Pending
<1>15. CASE QemuListen \/ QemuResume \/ QemuDie \/ UNCHANGED vars
  <2>1. UNCHANGED <<host, boot, toHost>>
    BY <1>15 DEF QemuListen, QemuResume, QemuDie, vars, wire
  <2>2. UNCHANGED <<pc, outcome, printed, toHost, due, code, misc>>
    BY <2>1 DEF host, boot
  <2> QED BY <2>2 DEF Posted, Pending
<1>16. CASE PrintFails \/ FuzzHprintfFails
  BY <1>16 DEF PrintFails, FuzzHprintfFails, InUse, Posted, Pending, boot
<1>17. CASE \/ \E n \in Input : SetInput(n)
            \/ \E f \in Fd : ConfigSetFd(f)
            \/ \E f \in Fd : SetHprintfFd(f) \/ SetHprintfFdUnchecked(f)
  <2>1. UNCHANGED <<pc, outcome, printed, toHost, due, code, misc>>
    BY <1>17 DEF SetInput, ConfigSetFd, SetHprintfFd, SetHprintfFdUnchecked, vars, host, boot,
       wire
  <2> QED BY <2>1 DEF Posted, Pending
<1> QED BY <1>1, <1>2, <1>4, <1>5, <1>6, <1>7, <1>8, <1>9, <1>10, <1>11, <1>12, <1>13, <1>14,
   <1>15,
           <1>16, <1>17 DEF Step, Launching

LEMMA PrefixOfMore ==
  ASSUME NEW S, NEW s \in Seq(S), NEW e \in S
  PROVE  IsPrefix(s, s) /\ IsPrefix(s, Append(s, e))
<1>1. SubSeq(Append(s, e), 1, Len(s)) = SubSeq(s, 1, Len(s))
  OBVIOUS
<1> QED BY <1>1 DEF IsPrefix

(* Whatever the agent prints on its way to the fuzzing loop is output once   *)
(* and in order, all of it before new() returns Ok.                          *)
THEOREM BootHprintfIsOrdered == Session => []BootHprintfInOrder
<1>1. SessionInit => Posted
  BY DEF SessionInit, Init, Posted, Pending
<1>2. IInv /\ Posted /\ [SessionNext]_svars => Posted'
  BY Steps, PostedKept DEF IInv
<1>3. IInv /\ Posted => BootHprintfInOrder
  BY PrefixOfMore DEF IInv, Turn, Stopped, Posted, Pending, BootHprintfInOrder
<1> QED BY <1>1, <1>2, <1>3, Invariant, PTL DEF Session

-----------------------------------------------------------------------------
(* The types *)

(* The types the other invariants do not imply.  The last stop within the    *)
(* bound is the one that is ready to fuzz, so that none comes after it.      *)
Bounded ==
  /\ calls \in 0 .. MaxNew
  /\ stops \in 0 .. MaxStops
  /\ header \in BOOLEAN /\ ready \in BOOLEAN
  /\ cap \in Caps
  /\ pc \in {"connect", "hello", "attach"} => stops = 0
  /\ stops = MaxStops => ready
  /\ pc = "send" \/ (pc = "recv" /\ toHost = 0) => ~ready

LEMMA BoundedKept ==
  ASSUME Turn, Bounded, Step
  PROVE  Bounded'
<1> USE LaunchAssumption DEF LaunchAssumption
<1>1. NoCap \in Caps
  BY DEF NoCap, Caps
<1>2. ASSUME Forget, pc' = "idle" PROVE Bounded'
  <2>1. 0 \in 0 .. MaxStops /\ 0 # MaxStops
    OBVIOUS
  <2>2. /\ stops' = 0 /\ header' = FALSE /\ ready' = FALSE /\ cap' = NoCap /\ calls' = calls
        /\ pc' = "idle"
    BY <1>2 DEF Forget
  <2> QED BY <1>1, <2>1, <2>2 DEF Bounded
<1>3. ASSUME UNCHANGED <<calls, boot>>,
             pc' \in {"idle", "panicked", "match", "state", "adopt", "configure"}
      PROVE  Bounded'
  BY <1>3 DEF Bounded, boot
<1>4. ASSUME UNCHANGED <<calls, pc, toHost, boot>> PROVE Bounded'
  BY <1>4 DEF Bounded, boot
<1>5. CASE New
  BY <1>5 DEF New, Bounded
<1>6. CASE Connect
  BY <1>6 DEF Connect, Bounded, boot
<1>7. CASE Wait("hello", "attach") \/ Wait("recv", "match")
  <2>1. CASE Wait("hello", "attach") /\ Goto("attach") /\ UNCHANGED boot
    BY <2>1 DEF Wait, Goto, Bounded, boot
  <2>2. CASE Wait("recv", "match") /\ Goto("match") /\ UNCHANGED boot
    BY <2>2, <1>3 DEF Goto
  <2> QED BY <1>7, <2>1, <2>2, <1>2 DEF Wait, Fail, Drop
<1>8. CASE Attach \/ MatchStop
  <2>1. CASE Attach /\ Goto("match") /\ UNCHANGED boot
    BY <2>1, <1>3 DEF Goto
  <2>2. CASE MatchStop /\ ~Fail
    <3>1. UNCHANGED <<calls, boot>> /\ pc' \in {"state", "panicked"}
      BY <2>2 DEF MatchStop, Printed, Goto
    <3> QED BY <3>1, <1>3
  <2> QED BY <1>8, <2>1, <2>2, <1>2 DEF Attach, Fail, Drop
<1>9. CASE CheckState
  <2>1. UNCHANGED <<calls, boot>> /\ pc' = IF ready THEN "adopt" ELSE "send"
    BY <1>9 DEF CheckState, Goto
  <2> QED BY <2>1 DEF Bounded, boot
<1>10. CASE Resume
  <2>1. CASE pc = "send" /\ Goto("recv") /\ UNCHANGED boot
    BY <2>1 DEF Goto, Bounded, boot
  <2> QED BY <1>10, <2>1, <1>2 DEF Resume, Fail, Drop
<1>11. CASE AdoptSizes \/ Configure
  BY <1>11, <1>3 DEF AdoptSizes, Configure
<1>12. CASE QemuHello
  BY <1>12, <1>1 DEF QemuHello, Turn, Stopped, Bounded, host
<1>13. CASE \E c \in Code, m \in Msg, p \in Caps : QemuStop(c, m, p)
  <2>1. PICK c \in Code, m \in Msg, p \in Caps : QemuStop(c, m, p)
    BY <1>13
  <2>2. /\ pc = "recv" /\ toHost = 0 /\ toHost' = 1
        /\ UNCHANGED <<calls, pc, header>>
        /\ stops' = stops + 1 /\ cap' = p
    BY <2>1 DEF QemuStop, Turn, Stopped, host
  <2>3. ready' \in BOOLEAN /\ (stops' = MaxStops => ready')
    BY <2>1 DEF QemuStop
  <2>4. stops \in 0 .. MaxStops /\ stops # MaxStops
    BY <2>2 DEF Bounded
  <2>5. stops' \in 0 .. MaxStops
    BY <2>2, <2>4
  <2>6. header' \in BOOLEAN
    BY <2>2 DEF Bounded
  <2> QED BY <2>2, <2>3, <2>5, <2>6 DEF Bounded
<1>14. CASE Shutdown \/ ShutdownUndropped
  BY <1>14, <1>2 DEF Shutdown, ShutdownUndropped, Drop, InUse
<1>15. CASE QemuListen \/ QemuResume \/ QemuDie \/ UNCHANGED vars
  BY <1>15, <1>4 DEF QemuListen, QemuResume, QemuDie, vars, host, wire
<1>16. CASE Executing
  <2>1. UNCHANGED <<calls, stops, header, ready, cap>> /\ pc = "idle" /\ pc' \in {"idle", "panicked"}
    BY <1>16, ExecutingDoes
  <2> QED BY <2>1 DEF Bounded
<1>17. CASE PrintFails \/ FuzzHprintfFails
  BY <1>17, <1>3 DEF PrintFails, FuzzHprintfFails
<1>18. CASE \/ \E n \in Input : SetInput(n)
            \/ \E f \in Fd : ConfigSetFd(f)
            \/ \E f \in Fd : SetHprintfFd(f) \/ SetHprintfFdUnchecked(f)
  BY <1>18, <1>4 DEF SetInput, ConfigSetFd, SetHprintfFd, SetHprintfFdUnchecked, vars, host, wire
<1> QED BY <1>5, <1>6, <1>7, <1>8, <1>9, <1>10, <1>11, <1>12, <1>13, <1>14, <1>15, <1>16, <1>17,
   <1>18
        DEF Step, Launching

UserTypes ==
  /\ input \in [len : Input \cup {0}, bytes : Nat]
  /\ foreign \subseteq 0 .. MiscDataSlice(AuxSize) - 1
  /\ foreign # {} => Foreign # {}

LEMMA UserTypesKept ==
  ASSUME IInv, UserTypes, [SessionNext]_svars
  PROVE  UserTypes'
<1>1. ASSUME NEW m \in Msg PROVE NotText(m, Foreign) \subseteq 0 .. MiscDataSlice(AuxSize) - 1
  <2>1. m \in Nat /\ m <= MiscDataSlice(AuxSize) /\ AuxSize \in Nat
    BY LaunchAssumption DEF LaunchAssumption, Postable, InSlice
  <2>2. MiscDataSlice(AuxSize) \in Int
    BY <2>1 DEF MiscDataSlice, MiscSlice, MISC_OFFSET, HEADER_SIZE, CAP_SIZE, CONFIG_SIZE,
       STATE_SIZE,
                LEN_SIZE
  <2> QED BY <2>1, <2>2 DEF NotText
<1>2. ASSUME NEW m \in Msg, foreign' = IF m = misc THEN foreign ELSE Overwritten(foreign, m, Foreign)
      PROVE  foreign' \subseteq 0 .. MiscDataSlice(AuxSize) - 1 /\ (foreign' # {} => Foreign # {})
  <2>1. foreign' \subseteq foreign \cup NotText(m, Foreign)
    BY <1>2 DEF Overwritten
  <2>2. NotText(m, Foreign) # {} => Foreign # {}
    BY DEF NotText
  <2> QED BY <1>1, <2>1, <2>2 DEF UserTypes
<1>3. ASSUME UNCHANGED user PROVE UserTypes'
  BY <1>3 DEF UserTypes, user
<1>4. ASSUME KeepBuffers PROVE UserTypes'
  BY <1>4, <1>3 DEF KeepBuffers, UserTypes, NoInput
<1>5. CASE Booting
  <2>1. CASE QemuHello /\ foreign' = {} /\ UNCHANGED input
    BY <2>1 DEF UserTypes
  <2>2. CASE \E c \in Code, m \in Msg, p \in Caps :
               /\ QemuStop(c, m, p)
               /\ foreign' = IF m = misc THEN foreign ELSE Overwritten(foreign, m, Foreign)
               /\ UNCHANGED input
    BY <2>2, <1>2 DEF UserTypes
  <2> QED BY <1>5, <2>1, <2>2, <1>3 DEF Booting
<1>6. CASE \E n \in Input : SetInput(n)
  <2>1. PICK n \in Input : SetInput(n)
    BY <1>6
  <2>2. n \in Nat /\ payload.map \in Nat
    BY SessionAssumption DEF SessionAssumption, IInv, Buffers
  <2>3. Cut(n) \in Nat
    BY <2>2 DEF Cut
  <2> QED BY <2>1, <2>3 DEF SetInput, UserTypes
<1>7. CASE Executing
  <2>1. UNCHANGED input
    BY <1>7, ExecutingDoes
  <2>2. CASE UNCHANGED foreign
    BY <2>1, <2>2 DEF UserTypes
  <2>3. CASE \E m \in Msg :
               foreign' = IF m = misc THEN foreign ELSE Overwritten(foreign, m, Foreign)
    BY <2>1, <2>3, <1>2 DEF UserTypes
  <2> QED BY <1>7, <2>2, <2>3, ExecutingDoes
<1>8. CASE PrintFails \/ \E f \in Fd : SetHprintfFdUnchecked(f)
  BY <1>8, <1>3 DEF PrintFails, SetHprintfFdUnchecked
<1> QED BY <1>3, <1>4, <1>5, <1>6, <1>7, <1>8 DEF SessionNext, Used, svars

(* Type correctness: never more than one byte is under way.                  *)
THEOREM TypeCorrect == Session => []SessionTypeOK
<1>1. SessionInit => Bounded /\ UserTypes
  <2>1. 0 \in 0 .. MaxStops /\ 0 # MaxStops /\ 0 \in 0 .. MaxNew
    BY LaunchAssumption DEF LaunchAssumption
  <2>2. NoCap \in Caps
    BY DEF NoCap, Caps
  <2>3. NoInput \in [len : Input \cup {0}, bytes : Nat]
    BY DEF NoInput
  <2> QED BY <2>1, <2>2, <2>3 DEF SessionInit, Init, Bounded, UserTypes
<1>2. IInv /\ Bounded /\ [SessionNext]_svars => Bounded'
  BY Steps, BoundedKept DEF IInv
<1>3. IInv /\ UserTypes /\ [SessionNext]_svars => UserTypes'
  BY UserTypesKept
<1>4. SessionInit => Posted /\ Bootable
  BY DEF SessionInit, Init, Posted, Pending, Bootable, Code
<1>5. IInv /\ Posted /\ [SessionNext]_svars => Posted'
  BY Steps, PostedKept DEF IInv
<1>6. Bootable /\ [SessionNext]_svars => Bootable'
  BY Steps, BootableKept
<1>7. IInv /\ Bounded /\ UserTypes /\ Posted /\ Bootable => SessionTypeOK
  <2> SUFFICES ASSUME IInv, Bounded, UserTypes, Posted, Bootable PROVE SessionTypeOK
    OBVIOUS
  <2>1. /\ pc \in Stopped \cup {"idle", "connect", "hello", "recv"}
        /\ outcome \in {"none", "Ok", "Err"}
        /\ toQemu \in 0 .. 1 /\ toHost \in 0 .. 1
        /\ qemu \in {"none", "starting", "listening", "running", "parked", "dead"}
    BY DEF IInv, Turn, Stopped
  <2>2. due \in Seq(Msg)
    BY DEF Posted, IInv
  <2>3. /\ {bitmap, payload} \subseteq [map : Nat, size : Nat]
        /\ open \subseteq Fd /\ {cfgFd, file} \subseteq Fd \cup {NoFd}
        /\ handed \in [Fd -> 0 .. 2]
        /\ {header, changed, protect, ready, shadow} \subseteq BOOLEAN
    BY DEF IInv, Buffers, Descriptors, Protection, Bounded
  <2> QED BY <2>1, <2>2, <2>3 DEF SessionTypeOK, TypeOK, Stopped, IInv, Bounded, UserTypes,
     Posted,
                                  Bootable, Caps
<1> QED BY <1>1, <1>2, <1>3, <1>4, <1>5, <1>6, <1>7, Invariant, PTL DEF Session

==============================================================================
