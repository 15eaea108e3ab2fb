------------------------------- MODULE NyxExec -------------------------------
(***************************************************************************)
(* The fuzzing loop: NyxProcess::exec() (libnyx/src/lib.rs) over           *)
(* QemuProcess::send_payload() (fuzz_runner/src/nyx/qemu_process.rs).      *)
(*                                                                         *)
(* One libnyx thread and one QEMU process share the aux buffer and talk    *)
(* over the control socket, one byte each way: a byte to QEMU runs the     *)
(* guest, a byte back says that QEMU has stopped and that the result part  *)
(* of the aux buffer is valid.  Nothing else orders the two sides.         *)
(*                                                                         *)
(* The model starts where QemuProcess::new() has returned Ok.  QEMU is not *)
(* part of the repository; its actions are the least that the code in src/ *)
(* relies on, and it may die at any point.                                 *)
(***************************************************************************)
EXTENDS Naturals, Sequences, SequencesExt

CONSTANTS
  Page,           \* guest page addresses that may be missing from the page cache
  NoPage,         \* page_not_found = 0, or page_dump_mode = 0
  Undumpable,     \* pages that QEMU can never dump
  Msg,            \* contents of hprintf messages
  Option,         \* fields of the config part that option_set_*() write
  Timeout,        \* the option that set_timeout() writes
  Value,          \* values of options
  MaxHprintf,     \* bound: hprintf stops of the normal runs of one exec() call
  HprintfInDump   \* may QEMU stop for an hprintf while it dumps a page?

ASSUME ExecAssumption ==
  /\ Page \subseteq Nat
  /\ NoPage \notin Page
  /\ NoPage # 0
  /\ Undumpable \subseteq Page
  /\ Timeout \in Option
  /\ MaxHprintf \in Nat
  /\ HprintfInDump \in BOOLEAN

VARIABLES
  \* the libnyx thread
  pc,           \* where it is; "idle" between calls of the API
  old_address,  \* local of send_payload(): the page it last asked for
  ret,          \* what the last exec() returned, "none" during a call
  reaped,       \* shutdown() has killed QEMU and waited for it
  printed,      \* hprintf messages output during the current call
  \* the control socket and the process behind it
  toQemu,       \* bytes under way to QEMU
  toHost,       \* bytes under way to libnyx
  qemu,         \* "parked" on a read, "running" the guest, "posted", "dead"
  \* the aux buffer
  changed,      \* config.changed
  opts,         \* the options of config
  dump,         \* config.page_addr if config.page_dump_mode = 1, else NoPage
  code,         \* result.exec_result_code
  page,         \* result.page_not_found_addr if page_not_found # 0, else NoPage
  misc,         \* the message in misc
  \* inside QEMU
  shadow,       \* the options QEMU read at its last rescan of config
  request,      \* the page it has to dump, or NoPage
  missing,      \* the pages not yet in its page cache
  \* history, read by the properties only
  due,          \* hprintf messages posted by the normal runs of this call
  tried,        \* pages whose dump was requested in this call
  staged        \* options written since config.changed was last raised

host  == <<pc, old_address, ret, reaped, printed>>
wire  == <<toQemu, toHost, qemu>>
cfg   == <<changed, opts, dump>>
res   == <<code, page, misc>>
guest == <<shadow, request, missing>>
hist  == <<due, tried, staged>>
vars  == <<host, wire, cfg, res, guest, hist>>

-----------------------------------------------------------------------------
Final == {"SUCCESS", "CRASH", "TIMEOUT", "INPUT_WRITE", "ABORT"}
Code  == Final \cup {"HPRINTF", "UNKNOWN"}

(* NyxReturnValue of a result code, as the match in exec() maps it. *)
ReturnValue(c) ==
  CASE c = "SUCCESS"     -> "Normal"
    [] c = "CRASH"       -> "Crash"
    [] c = "TIMEOUT"     -> "Timeout"
    [] c = "INPUT_WRITE" -> "InvalidWriteToPayload"
    [] c = "ABORT"       -> "Abort"
    [] OTHER             -> "Error"

Returned == {"Normal", "Crash", "Timeout", "InvalidWriteToPayload", "Abort"}

(* The types; in particular exec() never returns NyxReturnValue::Error, the *)
(* catch-all of its match, because send_payload() lets no such code out.    *)
TypeOK ==
  /\ pc \in {"idle", "send", "recv", "check", "dumpSend", "dumpRecv",
             "match", "map", "panicked"}
  /\ old_address \in Page \cup {0}
  /\ ret \in Returned \cup {"none", "IoError"}
  /\ reaped \in BOOLEAN
  /\ printed \in Seq(Msg)
  /\ toQemu \in Nat
  /\ toHost \in Nat
  /\ qemu \in {"parked", "running", "posted", "dead"}
  /\ changed \in BOOLEAN
  /\ opts \in [Option -> Value]
  /\ dump \in Page \cup {NoPage}
  /\ code \in Code
  /\ page \in Page \cup {NoPage}
  /\ misc \in Msg
  /\ shadow \in [Option -> Value]
  /\ request \in Page \cup {NoPage}
  /\ missing \subseteq Page
  /\ due \in Seq(Msg)
  /\ tried \subseteq Page
  /\ staged \subseteq Option

-----------------------------------------------------------------------------
(* The state new() leaves behind: QEMU parked after a boot stop that was    *)
(* either plain or an hprintf, the options written and flagged for rescan,  *)
(* whatever QEMU had configured itself with before.                         *)
InitFlagged(flag) ==
  /\ pc = "idle" /\ old_address = 0 /\ ret = "none" /\ reaped = FALSE
  /\ printed = <<>>
  /\ toQemu = 0 /\ toHost = 0 /\ qemu = "parked"
  /\ changed = flag
  /\ opts \in [Option -> Value]
  /\ dump = NoPage
  /\ code \in {"SUCCESS", "HPRINTF"}
  /\ page = NoPage
  /\ misc \in Msg
  /\ shadow \in [Option -> Value]
  /\ request = NoPage
  /\ missing = Page
  /\ due = <<>> /\ tried = {} /\ staged = {}

(* Faulty: new() forgets to raise config.changed. *)
InitUnflagged == InitFlagged(FALSE)

Init == InitFlagged(TRUE)

-----------------------------------------------------------------------------
(* The calls between executions *)

(* Faulty: old_address lives as long as the process. *)
ExecKeepingAddress ==
  /\ pc = "idle"
  /\ pc' = "send"
  /\ ret' = "none"
  /\ printed' = <<>> /\ due' = <<>> /\ tried' = {}
  /\ UNCHANGED <<old_address, reaped, wire, cfg, res, guest, staged>>

(* exec() enters send_payload(). *)
Exec ==
  /\ pc = "idle"
  /\ pc' = "send"
  /\ old_address' = 0
  /\ ret' = "none"
  /\ printed' = <<>> /\ due' = <<>> /\ tried' = {}
  /\ UNCHANGED <<reaped, wire, cfg, res, guest, staged>>

(* option_set_reload_mode(), _redqueen_mode(), _trace_mode(),               *)
(* _delete_incremental_snapshot() and _timeout(): the field and no flag.    *)
OptionSet(o, v) ==
  /\ pc = "idle"
  /\ opts' = [opts EXCEPT ![o] = v]
  /\ staged' = staged \cup {o}
  /\ UNCHANGED <<host, wire, changed, dump, res, guest, due, tried>>

OptionApply ==
  /\ pc = "idle"
  /\ changed' = TRUE
  /\ staged' = {}
  /\ UNCHANGED <<host, wire, opts, dump, res, guest, due, tried>>

(* QemuProcess::set_timeout() writes the option and raises the flag. *)
SetTimeout(v) ==
  /\ pc = "idle"
  /\ opts' = [opts EXCEPT ![Timeout] = v]
  /\ changed' = TRUE
  /\ staged' = {}
  /\ UNCHANGED <<host, wire, dump, res, guest, due, tried>>

(* shutdown() kills QEMU and reaps it.  A second one has no shm work        *)
(* directory left to copy from and panics.                                  *)
Shutdown ==
  /\ pc = "idle"
  /\ IF reaped
     THEN pc' = "panicked" /\ UNCHANGED <<reaped, wire>>
     ELSE reaped' = TRUE /\ qemu' = "dead" /\ toQemu' = 0 /\ UNCHANGED <<pc, toHost>>
  /\ UNCHANGED <<old_address, ret, printed, cfg, res, guest, hist>>

-----------------------------------------------------------------------------
(* send_payload() *)

(* Err from the socket: send_payload() returns it and exec() says IoError. *)
IoFail ==
  /\ pc' = "idle"
  /\ ret' = "IoError"

(* execute_qemu(): one byte to QEMU, or an error if the peer is gone. *)
ExecuteQemu(here, there) ==
  /\ pc = here
  /\ \/ qemu # "dead" /\ pc' = there /\ toQemu' = toQemu + 1 /\ UNCHANGED ret
     \/ qemu = "dead" /\ IoFail /\ UNCHANGED toQemu
  /\ UNCHANGED <<old_address, reaped, printed, toHost, qemu, cfg, res, guest, hist>>

(* Faulty: a wait that gives up while the guest runs on. *)
WaitQemuTimeout(here, there) ==
  /\ pc = here
  /\ \/ toHost > 0 /\ pc' = there /\ toHost' = toHost - 1 /\ UNCHANGED ret
     \/ toHost = 0 /\ qemu \in {"running", "dead"} /\ IoFail /\ UNCHANGED toHost
  /\ UNCHANGED <<old_address, reaped, printed, toQemu, qemu, cfg, res, guest, hist>>

(* Faulty: read() for read_exact(), whose end of file is zero bytes and Ok. *)
WaitQemuShort(here, there) ==
  /\ pc = here
  /\ \/ toHost > 0 /\ pc' = there /\ toHost' = toHost - 1 /\ UNCHANGED ret
     \/ toHost = 0 /\ qemu = "dead" /\ pc' = there /\ UNCHANGED <<toHost, ret>>
  /\ UNCHANGED <<old_address, reaped, printed, toQemu, qemu, cfg, res, guest, hist>>

(* Faulty: the wait is skipped. *)
WaitQemuNot(here, there) ==
  /\ pc = here
  /\ pc' = there
  /\ UNCHANGED <<old_address, ret, reaped, printed, wire, cfg, res, guest, hist>>

(* wait_qemu(): blocks for one byte; end of file, once QEMU is dead and its *)
(* last byte consumed, is an error.                                         *)
WaitQemu(here, there) ==
  /\ pc = here
  /\ \/ toHost > 0 /\ pc' = there /\ toHost' = toHost - 1 /\ UNCHANGED ret
     \/ toHost = 0 /\ qemu = "dead" /\ IoFail /\ UNCHANGED toHost
  /\ UNCHANGED <<old_address, reaped, printed, toQemu, qemu, cfg, res, guest, hist>>

(* Faulty: config.changed is left as it is. *)
AskForPageUnflagged(then) ==
  /\ pc = "check"
  /\ page # NoPage /\ page # old_address
  /\ dump' = page
  /\ tried' = tried \cup {page}
  /\ pc' = then
  /\ UNCHANGED <<ret, reaped, printed, wire, changed, opts, res, guest, due, staged>>

(* The page that was missed goes into the config part for a run of its own. *)
AskForPage(then) ==
  /\ pc = "check"
  /\ page # NoPage /\ page # old_address
  /\ dump' = page
  /\ changed' = TRUE
  /\ staged' = {}
  /\ tried' = tried \cup {page}
  /\ pc' = then
  /\ UNCHANGED <<ret, reaped, printed, wire, opts, res, guest, due>>

(* Faulty: the page asked for is not remembered. *)
RequestDumpForgetting(then) == AskForPage(then) /\ UNCHANGED old_address

(* A missing page other than the one asked for just before is requested. *)
RequestDump(then) == AskForPage(then) /\ old_address' = page

(* No page is missing, or the same one as before: "cannot dump missing page". *)
NoDump ==
  /\ pc = "check"
  /\ page = NoPage \/ page = old_address
  /\ pc' = "match"
  /\ UNCHANGED <<old_address, ret, reaped, printed, wire, cfg, res, guest, hist>>

(* Faulty: no run of its own for the dump. *)
CheckPageNoDumpRun == RequestDump("send") \/ NoDump

CheckPage == RequestDump("dumpSend") \/ NoDump

(* Faulty: an hprintf stop ends the loop. *)
MatchResultBreak ==
  /\ pc = "match"
  /\ \/ code = "HPRINTF" /\ pc' = "map" /\ printed' = Append(printed, misc)
     \/ code \in Final /\ pc' = "map" /\ UNCHANGED printed
     \/ code = "UNKNOWN" /\ pc' = "panicked" /\ UNCHANGED printed
  /\ UNCHANGED <<old_address, ret, reaped, wire, cfg, res, guest, hist>>

(* Faulty: an hprintf stop is passed over. *)
MatchResultSilent ==
  /\ pc = "match"
  /\ \/ code = "HPRINTF" /\ pc' = "send"
     \/ code \in Final /\ pc' = "map"
     \/ code = "UNKNOWN" /\ pc' = "panicked"
  /\ UNCHANGED <<old_address, ret, reaped, printed, wire, cfg, res, guest, hist>>

(* The match on exec_result_code: print and continue, break, or panic. *)
MatchResult ==
  /\ pc = "match"
  /\ \/ code = "HPRINTF" /\ pc' = "send" /\ printed' = Append(printed, misc)
     \/ code \in Final /\ pc' = "map" /\ UNCHANGED printed
     \/ code = "UNKNOWN" /\ pc' = "panicked" /\ UNCHANGED printed
  /\ UNCHANGED <<old_address, ret, reaped, wire, cfg, res, guest, hist>>

(* Back in exec(): the result code is read once more from the aux buffer. *)
MapResult ==
  /\ pc = "map"
  /\ pc' = "idle"
  /\ ret' = ReturnValue(code)
  /\ UNCHANGED <<old_address, reaped, printed, wire, cfg, res, guest, hist>>

-----------------------------------------------------------------------------
(* QEMU *)

(* A byte arrives.  If config.changed is raised the config part is scanned: *)
(* options are taken over, a dump request is picked up, both are cleared.   *)
QemuResume ==
  /\ qemu = "parked"
  /\ toQemu > 0
  /\ toQemu' = toQemu - 1
  /\ qemu' = "running"
  /\ IF changed
     THEN /\ shadow' = opts
          /\ request' = dump
          /\ changed' = FALSE
          /\ dump' = NoPage
          /\ staged' = {}
     ELSE UNCHANGED <<shadow, request, changed, dump, staged>>
  /\ UNCHANGED <<host, toHost, opts, res, missing, due, tried>>

(* The guest calls hprintf.  Only a normal run owes its message to the user. *)
QemuHprintf(m) ==
  /\ qemu = "running"
  /\ HprintfInDump \/ request = NoPage
  /\ Len(due) < MaxHprintf
  /\ qemu' = "posted"
  /\ code' = "HPRINTF"
  /\ page' = NoPage
  /\ misc' = m
  /\ due' = IF pc = "recv" THEN Append(due, m) ELSE due
  /\ UNCHANGED <<host, toQemu, toHost, cfg, guest, tried, staged>>

(* The execution ends, possibly short of a page; a requested page is in the *)
(* page cache from now on, unless it cannot be dumped.                      *)
QemuVerdict(c, p) ==
  /\ qemu = "running"
  /\ qemu' = "posted"
  /\ code' = c
  /\ page' = p
  /\ missing' = missing \ ({request} \ Undumpable)
  /\ request' = NoPage
  /\ UNCHANGED <<host, toQemu, toHost, cfg, misc, shadow, hist>>

QemuSignal ==
  /\ qemu = "posted"
  /\ qemu' = "parked"
  /\ toHost' = toHost + 1
  /\ UNCHANGED <<host, toQemu, cfg, res, guest, hist>>

(* The process dies: its end of the socket closes, unread bytes are lost. *)
QemuDie ==
  /\ qemu # "dead"
  /\ qemu' = "dead"
  /\ toQemu' = 0
  /\ UNCHANGED <<host, toHost, cfg, res, guest, hist>>

-----------------------------------------------------------------------------
Api ==
  \/ Exec
  \/ \E o \in Option, v \in Value : OptionSet(o, v)
  \/ OptionApply
  \/ \E v \in Value : SetTimeout(v)
  \/ Shutdown

(* The steps of a call under way. *)
SendPayload ==
  \/ ExecuteQemu("send", "recv")
  \/ WaitQemu("recv", "check")
  \/ CheckPage
  \/ ExecuteQemu("dumpSend", "dumpRecv")
  \/ WaitQemu("dumpRecv", "send")
  \/ MatchResult
  \/ MapResult

QemuRun ==
  \/ QemuResume
  \/ \E m \in Msg : QemuHprintf(m)
  \/ \E c \in Final \cup {"UNKNOWN"}, p \in missing \cup {NoPage} : QemuVerdict(c, p)
  \/ QemuSignal

(* A panic unwinds out of the library and ends the session. *)
Panicked ==
  /\ pc = "panicked"
  /\ UNCHANGED vars

Next == Api \/ SendPayload \/ QemuRun \/ QemuDie \/ Panicked

Spec == Init /\ [][Next]_vars

(* The libnyx thread keeps running, and QEMU stops every execution it       *)
(* starts, because it enforces the timeout it was configured with.  Nothing *)
(* is assumed of the caller, nor that QEMU dies or stays alive.             *)
FairSpec == Spec /\ WF_vars(SendPayload) /\ WF_vars(QemuRun)

-----------------------------------------------------------------------------
(* Properties *)

(* The aux buffer has one owner at a time.  Outside the two waits of        *)
(* run_qemu() no execution is under way and no byte is in flight, so        *)
(* send_payload(), exec() and the option setters never touch the buffer     *)
(* while QEMU may write it, also after errors and after death.              *)
ExclusiveAux ==
  pc \notin {"recv", "dumpRecv"} =>
    /\ qemu \in {"parked", "dead"}
    /\ toQemu = 0
    /\ toHost = 0

(* exec() gives up on a missing page, and takes the verdict of the          *)
(* execution that missed it, only after it asked for that page in this call.*)
GiveUpAfterAttempt ==
  pc = "map" /\ page # NoPage => page \in tried

(* No request is wasted: a page that can be dumped is asked for once in a    *)
(* call, whatever is missed and printed in between and even if QEMU stops a  *)
(* dump for an hprintf.                                                      *)
AskedOnce ==
  pc = "check" /\ page \notin {NoPage, old_address} => page \notin tried \ Undumpable

(* The two kinds of runs stay in step with QEMU: the execution whose verdict *)
(* is looked at is a normal one, with no dump left pending, and the run      *)
(* between two of them dumps exactly the page last asked for.                *)
RunsMatchRequests ==
  /\ pc = "recv" /\ qemu \in {"running", "posted"} => request = NoPage
  /\ pc = "dumpRecv" /\ qemu = "running" => request = old_address

(* Every hprintf of the normal runs is output once and in order, and all of *)
(* them are out before exec() returns a verdict.                            *)
HprintfInOrder ==
  /\ IsPrefix(printed, due)
  /\ pc = "map" => printed = due

(* An option that was applied is in force in every later execution, the     *)
(* first one and the page dumps included, until it is set again.            *)
AppliedInForce ==
  qemu \in {"running", "posted"} =>
    \A o \in Option \ staged : shadow[o] = opts[o]

(* After an IoError no later exec() of this process reports a verdict: the  *)
(* result left in the aux buffer by the dead QEMU is never taken for one.   *)
NoVerdictAfterIoError ==
  [](ret = "IoError" => [](ret \in {"IoError", "none"}))

(* Every exec() returns, or panics on a result code it does not know.  Not   *)
(* so with two pages that cannot be dumped: old_address is the last one      *)
(* only, and missed in turn neither is ever given up (qemu_process.rs:372).  *)
ExecReturns == pc = "send" ~> pc \in {"idle", "panicked"}

(* What keeps a call from returning is nothing else: QEMU is asked for two   *)
(* pages that it cannot dump, again and again.  Any number of pages that can *)
(* be dumped, one that cannot, hprintfs at any point, in a dump too, and a   *)
(* QEMU that dies let every call come to an end.                             *)
ExecReturnsUnlessPagesAlternate ==
  \/ ExecReturns
  \/ \E p, q \in Undumpable : p # q /\ []<>(dump = p) /\ []<>(dump = q)

(* exec() implements its abstract specification. *)
Phase ==
  CASE pc = "idle"     -> "idle"
    [] pc = "panicked" -> "panicked"
    [] OTHER           -> "busy"

(* The outcome exists from QEMU's signal on, as long as it may be returned. *)
Outcome ==
  IF (pc = "recv" /\ toHost > 0) \/ pc \in {"check", "match", "map"}
  THEN CASE code = "HPRINTF" -> "none"
         [] code = "UNKNOWN" -> "unknown"
         [] OTHER            -> ReturnValue(code)
  ELSE "none"

Service == INSTANCE ExecService
             WITH phase <- Phase, alive <- (qemu # "dead"), outcome <- Outcome

(* A returned verdict is that of an execution which completed within the    *)
(* call, and only a dead QEMU makes a call fail (see ExecService).          *)
ServiceSpec == Service!Spec

=============================================================================
