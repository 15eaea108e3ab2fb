------------------------------- MODULE Session -------------------------------
(***************************************************************************)
(* What a user does with the instances that Launch creates: inputs,        *)
(* executions, messages and the end, through the Rust interface            *)
(* (libnyx/src/lib.rs) and the C interface (libnyx/src/ffi.rs).            *)
(*                                                                         *)
(* An execution is one step here: ExecService, which NyxExec implements,   *)
(* says what exec() returns.  What the step leaves in the aux buffer is    *)
(* what the readers of messages find there.  The input buffer is given by  *)
(* its length field and by how many bytes of the input follow it.          *)
(***************************************************************************)
EXTENDS Launch

CONSTANTS
  Input,        \* sizes of the user's inputs
  Foreign       \* messages that are not UTF-8, each in its last byte

ASSUME SessionAssumption ==
  /\ Input \subseteq Nat
  /\ Foreign \subseteq Msg

VARIABLES
  input,        \* the input buffer: [len |-> length field, bytes |-> copied]
  foreign       \* the bytes in misc.data that are not UTF-8

user  == <<input, foreign>>
svars == <<vars, user>>

InputFieldSize == 4
NoInput == [len |-> 0, bytes |-> 0]

SessionTypeOK ==
  /\ TypeOK
  /\ input \in [len : Input \cup {0}, bytes : Nat]
  /\ foreign \subseteq 0 .. MiscDataSlice(AuxSize) - 1
  /\ foreign # {} => Foreign # {}

SessionInit == Init /\ input = NoInput /\ foreign = {}

InUse == pc = "idle" /\ outcome = "Ok"

-----------------------------------------------------------------------------
(* Inputs *)

(* Faulty: the agreed size is what the configuration says. *)
CutToConfig(n) == IF n < ConfigSize THEN n ELSE ConfigSize

(* min(size, input_buffer_size()): the length of the mapping, not the size   *)
(* that was agreed on, and without the length field.                         *)
Cut(n) == IF n < payload.map THEN n ELSE payload.map

(* set_input() and nyx_set_afl_input(): the length field gets the whole size. *)
SetInput(n) ==
  /\ InUse
  /\ input' = [len |-> n, bytes |-> Cut(n)]
  /\ UNCHANGED <<vars, foreign>>

-----------------------------------------------------------------------------
(* Executions and their messages *)

(* exec() runs to the result code c, CRASH for any that leaves a report; a   *)
(* code that it does not know is a panic.  The message m is the last one on  *)
(* the way, or its report, or the message of before.                         *)
Execute(c, m) ==
  /\ InUse
  /\ qemu = "parked"
  /\ code' = c
  /\ misc' = m
  /\ foreign' = IF m = misc THEN foreign ELSE Overwritten(foreign, m, Foreign)
  /\ changed' = FALSE
  /\ shadow' = IF changed THEN protect ELSE shadow
  /\ printed' = <<>> /\ due' = <<>>
  /\ pc' = IF c = "UNKNOWN" THEN "panicked" ELSE pc
  /\ UNCHANGED <<outcome, calls, bitmap, payload, fds, wire, stops, header, ready, cap,
                 protect, input>>

(* The IoError of a QEMU that has died: what its last message left stays.    *)
ExecuteIoError ==
  /\ InUse
  /\ qemu = "dead"
  /\ printed' = <<>> /\ due' = <<>>
  /\ UNCHANGED <<pc, outcome, calls, bitmap, payload, fds, wire, stops, header, code, ready,
                 misc, cap, cfg, user>>

Executing ==
  \/ \E c \in {"SUCCESS", "CRASH", "UNKNOWN"}, m \in Msg : Execute(c, m)
  \/ ExecuteIoError

(* nyx_print_aux_buffer() decodes the whole array, also what earlier and     *)
(* longer messages have left there, and panics if it cannot.                 *)
PrintFails ==
  /\ InUse
  /\ code # "SUCCESS"
  /\ ~ArrayIsText(foreign)
  /\ pc' = "panicked"
  /\ UNCHANGED <<outcome, calls, printed, bitmap, payload, fds, wire, boot, cfg, user>>

-----------------------------------------------------------------------------
(* What the C interface does differently *)

(* nyx_set_hprintf_fd() does not look at the descriptor. *)
SetHprintfFdUnchecked(f) ==
  /\ InUse
  /\ f \notin open
  /\ file' = f
  /\ open' = Closed
  /\ handed' = HandedOver(f)
  /\ UNCHANGED <<host, cfgFd, wire, boot, cfg, user>>

(* nyx_shutdown() does not drop the instance: its files stay open for good. *)
ShutdownUndropped ==
  /\ InUse
  /\ outcome' = "none"
  /\ Forget
  /\ Kill
  /\ UNCHANGED <<pc, open>>

-----------------------------------------------------------------------------
(* The buffers stay, unless the instance goes. *)
KeepBuffers ==
  IF pc' = "idle" /\ outcome' # "Ok"
  THEN input' = NoInput /\ foreign' = {}
  ELSE UNCHANGED user

(* QEMU makes a new aux buffer and posts messages. *)
Booting ==
  \/ (QemuListen \/ QemuResume) /\ UNCHANGED user
  \/ QemuHello /\ foreign' = {} /\ UNCHANGED input
  \/ \E c \in Code, m \in Msg, p \in Caps :
       /\ QemuStop(c, m, p)
       /\ foreign' = IF m = misc THEN foreign ELSE Overwritten(foreign, m, Foreign)
       /\ UNCHANGED input

Used ==
  \/ \E n \in Input : SetInput(n)
  \/ Executing
  \/ PrintFails
  \/ FuzzHprintfFails /\ UNCHANGED user
  \/ \E f \in Fd : (ConfigSetFd(f) \/ SetHprintfFd(f)) /\ UNCHANGED user
  \/ \E f \in Fd : SetHprintfFdUnchecked(f)
  \/ (Shutdown \/ ShutdownUndropped) /\ KeepBuffers

SessionNext ==
  \/ (New \/ Launching) /\ KeepBuffers
  \/ Booting
  \/ (QemuDie \/ Panicked) /\ UNCHANGED user
  \/ Used

Session == SessionInit /\ [][SessionNext]_svars

(* The assumptions of Launch; nobody has to use an instance. *)
FairSession ==
  Session /\ WF_svars(Launching /\ KeepBuffers) /\ WF_svars(Booting)

-----------------------------------------------------------------------------
(* Properties *)

(* An input that fits into the buffer the agent has agreed on, behind the    *)
(* length field, arrives whole, whatever sizes were configured and asked for. *)
(* A longer one is cut where the mapping ends, but for the four bytes that   *)
(* the length field has moved it.                                           *)
InputDelivered ==
  /\ InputFieldSize + input.len <= payload.size => input.bytes = input.len
  /\ input.bytes <= payload.map

(* acat shows a message that is text if it ends within the first 4 KB,       *)
(* whatever longer messages that were not text have left behind it, in every *)
(* state of an instance; it gives up on those that reach beyond, although    *)
(* the buffer may be larger.                                                 *)
MessagesReadable ==
  InUse /\ misc \notin Foreign =>
    (AcatShows(misc, foreign) <=> MISC_OFFSET + LEN_SIZE + misc <= AUX_BUFFER_SIZE)

(* With the default aux buffer, messages that are text, codes and            *)
(* capabilities that this libnyx knows, and no descriptor handed over twice, *)
(* no call on the way to the fuzzing loop or in it panics.                   *)
PanicsExplained ==
  [][pc # "panicked" /\ pc' = "panicked" =>
       \/ pc = "match" /\ code \in {"CRASH", "UNKNOWN"}
       \/ pc = "idle" /\ code' = "UNKNOWN"
       \/ pc = "adopt" /\ cap.trace # 0
       \/ pc = "match" /\ MISC_OFFSET + LEN_SIZE + misc > AUX_BUFFER_SIZE
       \/ file # NoFd /\ handed[file] > 1
       \/ pc = "idle" /\ foreign # {}]_svars

=============================================================================
