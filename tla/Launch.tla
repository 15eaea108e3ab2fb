-------------------------------- MODULE Launch --------------------------------
(***************************************************************************)
(* QemuProcess::new() from the mapping of the shared files to Ok or Err    *)
(* (fuzz_runner/src/nyx/qemu_process.rs), and who owns the descriptor that *)
(* hprintf output goes to.                                                 *)
(*                                                                         *)
(* One thread calls new() again and again on one config object; each call  *)
(* spawns a QEMU.  QEMU is not part of the repository; its actions are     *)
(* what new() relies on, and it may die at any point.  Whatever new() does *)
(* while QEMU is stopped and nothing else can happen is one step.          *)
(***************************************************************************)
EXTENDS Naturals, Sequences, SequencesExt, AuxLayout

CONSTANTS
  Msg,          \* messages of the guest, each given by its length
  Fd,           \* file descriptors of the user
  NoFd,         \* hprintf output goes to stdout
  ConfigSize,   \* bitmap_size and input_buffer_size of the config
  AgentBitmap,  \* bitmap sizes an agent may ask for; 0 asks for none
  AgentInput,   \* and sizes of the input buffer
  AuxSize,      \* aux_buffer_size of the config
  Protect,      \* is the input buffer to be write protected?
  DiesEarly,    \* may QEMU exit before its control socket exists?
  MaxNew,       \* bound: calls of new()
  MaxStops      \* bound: stops of QEMU on its way to the fuzzing loop

(* What a fresh aux buffer has in misc. *)
NoText == 0

ASSUME LaunchAssumption ==
  /\ NoFd \notin Fd
  /\ AuxSize \in Nat /\ AuxSize >= AUX_BUFFER_SIZE
  /\ Msg \subseteq Nat /\ \A m \in Msg : Postable(m, AuxSize)
  /\ NoText \in Msg
  /\ ConfigSize \in Nat \ {0}
  /\ AgentBitmap \subseteq Nat /\ AgentInput \subseteq Nat
  /\ Protect \in BOOLEAN
  /\ DiesEarly \in BOOLEAN
  /\ MaxNew \in Nat
  /\ MaxStops \in Nat \ {0}

VARIABLES
  \* the libnyx thread
  pc,         \* where it is; "idle" between calls of the API
  outcome,    \* of the last new(): "Ok" while its instance exists, "Err", "none"
  calls,      \* calls of new() so far
  printed,    \* boot messages this new() has output
  bitmap,     \* [map |-> bytes mapped, size |-> bitmap_size]
  payload,    \* [map |-> bytes mapped, size |-> input_buffer_size]
  \* file descriptors
  open,       \* the user's descriptors that are open
  cfgFd,      \* hprintf_fd of the config
  file,       \* hprintf_file of the instance, or of new()
  handed,     \* how often each descriptor became an hprintf_file, 2 for more
  \* the control socket and the process behind it
  toQemu,     \* bytes under way to QEMU
  toHost,     \* bytes under way to libnyx
  qemu,       \* "none", "starting", "listening", "running", "parked", "dead"
  stops,      \* boot stops of this QEMU
  due,        \* messages of this QEMU's boot stops
  \* the aux buffer, and what QEMU took over from it
  header,     \* is the header what this libnyx expects?
  changed,    \* config.changed
  protect,    \* config.protect_payload_buffer
  code,       \* result.exec_result_code
  ready,      \* result.state = 3
  misc,       \* the message in misc
  cap,        \* [bitmap, input |-> sizes, trace |-> agent_trace_bitmap]
  shadow      \* protect_payload_buffer at QEMU's last rescan of config

host  == <<pc, outcome, calls, printed, bitmap, payload>>
fds   == <<open, cfgFd, file, handed>>
wire  == <<toQemu, toHost, qemu>>
boot  == <<stops, due, header, code, ready, misc, cap>>
cfg   == <<changed, protect, shadow>>
vars  == <<host, fds, wire, boot, cfg>>

-----------------------------------------------------------------------------
(* CRASH stands for the codes that only the fuzzing loop knows, and UNKNOWN  *)
(* for those that neither loop does.                                         *)
Code == {"SUCCESS", "HPRINTF", "ABORT", "CRASH", "UNKNOWN"}
Unmapped == [map |-> 0, size |-> 0]
NoCap == [bitmap |-> 0, input |-> 0, trace |-> 0]

(* The types, and that there is never more than one byte under way. *)
TypeOK ==
  /\ pc \in {"idle", "connect", "hello", "attach", "match", "state", "send", "recv",
             "adopt", "configure", "panicked"}
  /\ outcome \in {"none", "Ok", "Err"}
  /\ calls \in 0 .. MaxNew
  /\ printed \in Seq(Msg)
  /\ {bitmap, payload} \subseteq [map : Nat, size : Nat]
  /\ open \subseteq Fd
  /\ {cfgFd, file} \subseteq Fd \cup {NoFd}
  /\ handed \in [Fd -> 0 .. 2]
  /\ toQemu \in 0 .. 1 /\ toHost \in 0 .. 1
  /\ qemu \in {"none", "starting", "listening", "running", "parked", "dead"}
  /\ stops \in 0 .. MaxStops
  /\ due \in Seq(Msg)
  /\ {header, changed, protect, ready, shadow} \subseteq BOOLEAN
  /\ code \in Code
  /\ misc \in Msg
  /\ cap \in [bitmap : AgentBitmap \cup {0}, input : AgentInput \cup {0}, trace : {0, 2}]

Init ==
  /\ pc = "idle" /\ outcome = "none" /\ calls = 0 /\ printed = <<>>
  /\ bitmap = Unmapped /\ payload = Unmapped
  /\ open = Fd /\ cfgFd = NoFd /\ file = NoFd /\ handed = [f \in Fd |-> 0]
  /\ toQemu = 0 /\ toHost = 0 /\ qemu = "none" /\ stops = 0 /\ due = <<>>
  /\ header = FALSE /\ changed = FALSE /\ protect = FALSE /\ shadow = FALSE
  /\ code = "SUCCESS" /\ ready = FALSE /\ misc = NoText /\ cap = NoCap

-----------------------------------------------------------------------------
(* The hprintf descriptor *)

(* An hprintf_file goes away: File closes its descriptor. *)
Closed == open \ {file}

HandedOver(f) == [handed EXCEPT ![f] = IF @ < 2 THEN @ + 1 ELSE 2]

(* NyxConfig::set_hprintf_fd() asserts that the descriptor is valid. *)
ConfigSetFd(f) ==
  /\ pc = "idle"
  /\ f \in open
  /\ cfgFd' = f
  /\ UNCHANGED <<host, open, file, handed, wire, boot, cfg>>

(* Faulty: the descriptor is closed that was just handed over. *)
SetHprintfFdClosing(f) ==
  /\ pc = "idle" /\ outcome = "Ok"
  /\ f \in open
  /\ file' = f
  /\ open' = open \ {f}
  /\ handed' = HandedOver(f)
  /\ UNCHANGED <<host, cfgFd, wire, boot, cfg>>

(* NyxProcess::set_hprintf_fd(): the File of before is dropped, which closes *)
(* its descriptor, after the new one was made, be it for the same one.       *)
SetHprintfFd(f) ==
  /\ pc = "idle" /\ outcome = "Ok"
  /\ f \in open
  /\ file' = f
  /\ open' = Closed
  /\ handed' = HandedOver(f)
  /\ UNCHANGED <<host, cfgFd, wire, boot, cfg>>

(* output_hprintf() panics if write() does. *)
Writable == file \in open \cup {NoFd}

(* An hprintf of the fuzzing loop has nowhere to go. *)
FuzzHprintfFails ==
  /\ pc = "idle" /\ outcome = "Ok"
  /\ ~Writable
  /\ pc' = "panicked"
  /\ UNCHANGED <<outcome, calls, printed, bitmap, payload, fds, wire, boot, cfg>>

-----------------------------------------------------------------------------
(* new() *)

(* The files are mapped and QEMU is spawned. *)
New ==
  /\ pc = "idle" /\ outcome # "Ok"
  /\ calls < MaxNew
  /\ calls' = calls + 1
  /\ pc' = "connect"
  /\ outcome' = "none" /\ printed' = <<>>
  /\ bitmap' = [map |-> ConfigSize, size |-> ConfigSize]
  /\ payload' = [map |-> ConfigSize, size |-> ConfigSize]
  /\ qemu' = "starting" /\ toQemu' = 0 /\ toHost' = 0 /\ stops' = 0 /\ due' = <<>>
  /\ UNCHANGED <<fds, header, code, ready, misc, cap, cfg>>

(* The loop around connect() ends when somebody listens, and no other way. *)
Connect ==
  /\ pc = "connect"
  /\ qemu = "listening"
  /\ pc' = "hello"
  /\ qemu' = "running"
  /\ UNCHANGED <<outcome, calls, printed, bitmap, payload, fds, toQemu, toHost, boot, cfg>>

(* Nobody can reach an instance, or what it had in common with its QEMU. *)
Forget ==
  /\ file' = NoFd
  /\ printed' = <<>> /\ bitmap' = Unmapped /\ payload' = Unmapped
  /\ stops' = 0 /\ due' = <<>>
  /\ header' = FALSE /\ code' = "SUCCESS" /\ ready' = FALSE /\ misc' = NoText /\ cap' = NoCap
  /\ changed' = FALSE /\ protect' = FALSE /\ shadow' = FALSE
  /\ UNCHANGED <<calls, cfgFd, handed>>

(* It is dropped, and with it its hprintf_file. *)
Drop == Forget /\ open' = Closed

(* new() returns Err. *)
Fail ==
  /\ pc' = "idle"
  /\ outcome' = "Err"
  /\ Drop

Goto(there) ==
  /\ pc' = there
  /\ UNCHANGED <<outcome, calls, printed, bitmap, payload>>

(* kill() and wait() on the child. *)
Kill == qemu' = "dead" /\ toQemu' = 0 /\ UNCHANGED toHost

(* Faulty: libnyx goes on while the guest runs. *)
WaitNot(here, there) ==
  /\ pc = here
  /\ Goto(there)
  /\ UNCHANGED <<wire, fds, boot, cfg>>

(* Faulty: the state is looked at before the result. *)
WaitStateFirst(here, there) ==
  /\ pc = here
  /\ \/ /\ toHost > 0
        /\ toHost' = toHost - 1
        /\ Goto(IF here = "recv" /\ ready THEN "adopt" ELSE there)
        /\ UNCHANGED <<toQemu, qemu, fds, boot, cfg>>
     \/ /\ toHost = 0 /\ qemu = "dead"
        /\ Fail
        /\ UNCHANGED wire

(* wait_qemu(), for the hello and in the boot loop: end of file is an Err. *)
Wait(here, there) ==
  /\ pc = here
  /\ \/ /\ toHost > 0
        /\ toHost' = toHost - 1
        /\ Goto(there)
        /\ UNCHANGED <<toQemu, qemu, fds, boot, cfg>>
     \/ /\ toHost = 0 /\ qemu = "dead"
        /\ Fail
        /\ UNCHANGED wire

(* Faulty: the protection is not flagged for a rescan. *)
AttachUnflagged ==
  /\ pc = "attach"
  /\ \/ ~header /\ Fail /\ Kill
     \/ /\ header
        /\ Goto("match")
        /\ protect' = (protect \/ Protect)
        /\ file' = cfgFd
        /\ handed' = IF cfgFd = NoFd THEN handed ELSE HandedOver(cfgFd)
        /\ UNCHANGED <<open, cfgFd, wire, boot, changed, shadow>>

(* The aux buffer is mapped and its header validated; the write protection  *)
(* is requested; the config's descriptor, open or not, becomes a File.      *)
Attach ==
  /\ pc = "attach"
  /\ \/ ~header /\ Fail /\ Kill
     \/ /\ header
        /\ Goto("match")
        /\ IF Protect
           THEN protect' = TRUE /\ changed' = TRUE
           ELSE UNCHANGED <<protect, changed>>
        /\ file' = cfgFd
        /\ handed' = IF cfgFd = NoFd THEN handed ELSE HandedOver(cfgFd)
        /\ UNCHANGED <<open, cfgFd, wire, boot, shadow>>

(* The boot loop slices the array, the fuzzing loop the mapped buffer. *)
Readable == InArray(misc)

Printed ==
  /\ code = "HPRINTF" /\ Readable /\ Writable
  /\ printed' = Append(printed, misc)
  /\ UNCHANGED <<outcome, calls, bitmap, payload, fds, wire, boot, cfg>>

BootPanics ==
  \/ code \in {"CRASH", "UNKNOWN"}
  \/ code \in {"HPRINTF", "ABORT"} /\ ~Readable
  \/ code = "HPRINTF" /\ ~Writable

(* Faulty: an agent that aborts leaves its QEMU behind. *)
MatchStopNoKill ==
  /\ pc = "match"
  /\ \/ Printed /\ pc' = "state"
     \/ code = "SUCCESS" /\ Goto("state") /\ UNCHANGED <<fds, wire, boot, cfg>>
     \/ code = "ABORT" /\ Readable /\ Fail /\ UNCHANGED wire
     \/ /\ BootPanics
        /\ Goto("panicked")
        /\ UNCHANGED <<fds, wire, boot, cfg>>

(* The match of the boot loop: output, give up and get rid of the process,  *)
(* go on, or panic.                                                         *)
MatchStop ==
  /\ pc = "match"
  /\ \/ Printed /\ pc' = "state"
     \/ code = "SUCCESS" /\ Goto("state") /\ UNCHANGED <<fds, wire, boot, cfg>>
     \/ code = "ABORT" /\ Readable /\ Fail /\ Kill
     \/ /\ BootPanics
        /\ Goto("panicked")
        /\ UNCHANGED <<fds, wire, boot, cfg>>

(* Faulty: the result of a stop is looked at twice. *)
CheckStateAgain ==
  /\ pc = "state"
  /\ Goto(IF ready THEN "adopt" ELSE "match")
  /\ UNCHANGED <<fds, wire, boot, cfg>>

CheckState ==
  /\ pc = "state"
  /\ Goto(IF ready THEN "adopt" ELSE "send")
  /\ UNCHANGED <<fds, wire, boot, cfg>>

(* The byte of run_qemu() that lets QEMU go on. *)
Resume ==
  /\ pc = "send"
  /\ \/ qemu # "dead" /\ Goto("recv") /\ toQemu' = toQemu + 1
        /\ UNCHANGED <<toHost, qemu, fds, boot, cfg>>
     \/ qemu = "dead" /\ Fail /\ UNCHANGED wire

(* Faulty: a size is adopted without a new mapping. *)
AdoptedUnmapped(buffer, asked) ==
  IF asked = 0 THEN buffer ELSE [buffer EXCEPT !.size = asked]

(* A size the agent asked for is adopted, in a new mapping if it is larger. *)
Adopted(buffer, asked) ==
  IF asked = 0
  THEN buffer
  ELSE [map |-> IF asked > buffer.map THEN asked ELSE buffer.map, size |-> asked]

AdoptSizes ==
  /\ pc = "adopt"
  /\ bitmap' = Adopted(bitmap, cap.bitmap)
  /\ payload' = Adopted(payload, cap.input)
  /\ pc' = IF cap.trace = 0 THEN "configure" ELSE "panicked"
  /\ UNCHANGED <<outcome, calls, printed, fds, wire, boot, cfg>>

(* Faulty: the first configuration is not flagged for a rescan. *)
ConfigureUnflagged ==
  /\ pc = "configure"
  /\ pc' = "idle"
  /\ outcome' = "Ok"
  /\ UNCHANGED <<calls, printed, bitmap, payload, fds, wire, boot, cfg>>

(* reload_mode and the timeout are set and flagged, and new() is Ok. *)
Configure ==
  /\ pc = "configure"
  /\ pc' = "idle"
  /\ outcome' = "Ok"
  /\ changed' = TRUE
  /\ UNCHANGED <<calls, printed, bitmap, payload, fds, wire, boot, protect, shadow>>

(* shutdown(), after which the instance is dropped. *)
Shutdown ==
  /\ pc = "idle" /\ outcome = "Ok"
  /\ outcome' = "none"
  /\ Drop
  /\ Kill
  /\ UNCHANGED pc

-----------------------------------------------------------------------------
(* QEMU *)

(* The socket exists. *)
QemuListen ==
  /\ qemu = "starting"
  /\ qemu' = "listening"
  /\ UNCHANGED <<host, fds, toQemu, toHost, boot, cfg>>

(* A fresh aux buffer is announced by the first byte; the versions may not match. *)
QemuHello ==
  /\ qemu = "running" /\ pc = "hello"
  /\ qemu' = "parked"
  /\ toHost' = toHost + 1
  /\ header' \in BOOLEAN
  /\ changed' = FALSE /\ protect' = FALSE /\ shadow' = FALSE
  /\ code' = "SUCCESS" /\ ready' = FALSE /\ misc' = NoText /\ cap' = NoCap
  /\ UNCHANGED <<host, fds, toQemu, stops, due>>

(* A byte arrives, and the config part is scanned if it is flagged. *)
QemuResume ==
  /\ qemu = "parked" /\ toQemu > 0
  /\ toQemu' = toQemu - 1
  /\ qemu' = "running"
  /\ changed' = FALSE
  /\ shadow' = IF changed THEN protect ELSE shadow
  /\ UNCHANGED <<host, fds, toHost, boot, protect>>

(* The guest boots up to its next stop; the last one is ready to fuzz, and  *)
(* what the agent wants is looked at no earlier.                            *)
QemuStop(c, m, p) ==
  /\ qemu = "running" /\ pc = "recv"
  /\ stops' = stops + 1
  /\ qemu' = "parked"
  /\ toHost' = toHost + 1
  /\ code' = c
  /\ misc' = m
  /\ c \in {"HPRINTF", "ABORT"} \/ m = misc
  /\ due' = IF c = "HPRINTF" THEN Append(due, m) ELSE due
  /\ cap' = p
  /\ ready' \in IF stops + 1 = MaxStops THEN {TRUE} ELSE BOOLEAN
  /\ ready' \/ p = NoCap
  /\ UNCHANGED <<host, fds, toQemu, header, cfg>>

QemuDie ==
  /\ qemu \notin {"none", "dead"}
  /\ DiesEarly \/ qemu \notin {"starting", "listening"}
  /\ qemu' = "dead"
  /\ toQemu' = 0
  /\ UNCHANGED <<host, fds, toHost, boot, cfg>>

-----------------------------------------------------------------------------
(* A trace of 2 stands for the values the code refuses, 0 for 0 and 1. *)
Caps == [bitmap : AgentBitmap \cup {0}, input : AgentInput \cup {0}, trace : {0, 2}]

Api ==
  \/ New
  \/ \E f \in Fd : ConfigSetFd(f) \/ SetHprintfFd(f)
  \/ Shutdown

Launching ==
  \/ Connect \/ Wait("hello", "attach") \/ Attach
  \/ MatchStop \/ CheckState \/ Resume \/ Wait("recv", "match")
  \/ AdoptSizes \/ Configure

QemuBoot ==
  \/ QemuListen \/ QemuHello \/ QemuResume
  \/ \E c \in Code, m \in Msg, p \in Caps : QemuStop(c, m, p)

(* A panic ends the session. *)
Panicked == pc = "panicked" /\ UNCHANGED vars

Next == Api \/ Launching \/ FuzzHprintfFails \/ QemuBoot \/ QemuDie \/ Panicked

Spec == Init /\ [][Next]_vars

(* The thread runs on, and a QEMU that is let go gets to its next stop. *)
FairSpec == Spec /\ WF_vars(Launching) /\ WF_vars(QemuBoot)

-----------------------------------------------------------------------------
(* Properties *)

(* An Err leaves no QEMU behind: it was killed, or it is the one that died. *)
(* A panic does not kill it, but the QEMU it leaves behind is waiting at the *)
(* socket: its guest never runs without a libnyx that waits for it.          *)
NoStrayQemu ==
  /\ outcome = "Err" => qemu \in {"none", "dead"}
  /\ pc = "panicked" => qemu \in {"parked", "dead"}

(* Every hprintf on the way to the fuzzing loop is output once and in order, *)
(* all of them before new() returns Ok.                                      *)
BootHprintfInOrder ==
  /\ IsPrefix(printed, due)
  /\ outcome = "Ok" => printed = due

(* The guest never runs unprotected once libnyx has attached: the agent of a *)
(* write-protected input buffer finds it protected at its first step.        *)
ProtectedFromAttach ==
  qemu = "running" /\ pc = "recv" => shadow = Protect

(* The buffers given to the user lie inside what is mapped, whatever sizes   *)
(* the config and the agent ask for: the slices bitmap[.. bitmap_size] and   *)
(* payload[..] are never cut beyond their end.                               *)
BuffersMapped ==
  /\ bitmap.size <= bitmap.map
  /\ payload.size <= payload.map

(* A descriptor is closed under the instance that writes to it only if it   *)
(* was handed to the library before, for another instance or for the same.  *)
ClosedOnlyIfHandedTwice ==
  file # NoFd /\ file \notin open => handed[file] > 1

(* Every new() comes to an end. *)
LaunchReturns == pc = "connect" ~> pc \in {"idle", "panicked"}

(* What new() returns with Ok is a state in which NyxExec may start, but for *)
(* a QEMU that has died since its last stop.                                 *)
Exec == INSTANCE NyxExec WITH
  Page <- {}, NoPage <- "NoPage", Undumpable <- {},
  Option <- {"timeout"}, Timeout <- "timeout", Value <- {0},
  MaxHprintf <- MaxStops, HprintfInDump <- FALSE,
  old_address <- 0, ret <- "none", reaped <- FALSE, printed <- <<>>,
  qemu <- IF qemu = "dead" THEN "parked" ELSE qemu,
  opts <- [o \in {"timeout"} |-> 0], dump <- "NoPage", page <- "NoPage",
  shadow <- [o \in {"timeout"} |-> 0], request <- "NoPage", missing <- {},
  due <- <<>>, tried <- {}, staged <- {}

OkStartsExec == [][outcome # "Ok" /\ outcome' = "Ok" => Exec!Init']_vars

=============================================================================
