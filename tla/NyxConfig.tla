------------------------------- MODULE NyxConfig -------------------------------
(***************************************************************************)
(* From the two configuration files of a share directory to the command    *)
(* line of QEMU: NyxConfig::load() and the setters (libnyx/src/lib.rs),    *)
(* Config::new_from_sharedir() (config/src/config.rs) and QemuParams::new()*)
(* (fuzz_runner/src/nyx/params.rs).                                        *)
(*                                                                         *)
(* One config object is loaded, changed by setters in any order and used   *)
(* for any number of instances.  time_limit stands for all options that    *)
(* config.ron may leave to the default configuration, such as              *)
(* workdir_path; input_buffer_size and the filters are read from           *)
(* config.ron alone.  A path is what it takes to make it absolute, but for *)
(* the work directories, which are told apart.  What new() does to them is *)
(* the subject of Campaign.                                                *)
(***************************************************************************)
EXTENDS Naturals, Sequences

CONSTANTS
  None,         \* an option that a file does not give
  TimeLimit,    \* seconds that a file may give as time_limit
  FileSize,     \* input_buffer_size in config.ron
  SetSize,      \* arguments of set_input_buffer_size()
  AuxSize,      \* arguments of set_aux_buffer_size()
  Slots,        \* sets of slots with a filter in config.ron
  WorkDir,      \* work directories
  Worker,       \* worker ids
  MaxNew        \* bound: QEMUs started

(* A path in a file: absolute, relative to something or to nothing, empty.   *)
Path == {"absolute", "relative", "dangling", ""}

ASSUME ConfigAssumption ==
  /\ TimeLimit \subseteq Nat /\ FileSize \subseteq Nat /\ SetSize \subseteq Nat
  /\ AuxSize \subseteq Nat /\ Worker \subseteq Nat
  /\ Slots \subseteq SUBSET (1 .. 4)
  /\ None \notin TimeLimit \cup FileSize /\ None \notin Path
  /\ "reuse" \notin WorkDir
  /\ MaxNew \in Nat

PageSize == 4096
DefaultInputSize == 131072  \* 1 << 17
DEFAULT_AUX_BUFFER_SIZE == 4096

Role   == {"StandAlone", "Parent", "Child"}
Runner == {"QemuKernel", "QemuSnapshot"}

VARIABLES
  pc,        \* "unloaded", "loaded", "panicked"
  config,    \* the config object
  params     \* the QemuParams of the QEMUs that were started, in order

vars == <<pc, config, params>>

-----------------------------------------------------------------------------
(* Loading *)

(* A filter ip0 .. ip3 is its number from 1 on if both bounds are given. *)
Filters == {[k \in 1 .. 4 |-> IF k \in used THEN k ELSE 0] : used \in Slots}
NoFilters == [k \in 1 .. 4 |-> 0]

(* into_absolute_path(): the empty path is relative and names the folder     *)
(* itself; it is a panic if a relative path leads nowhere.                   *)
IntoAbsolutePath(path) ==
  CASE path = ""         -> "folder"
    [] path = "relative" -> "absolute"
    [] OTHER             -> path

NoConfig ==
  [runner |-> "QemuKernel", workdir |-> None, time_limit |-> 0, input_buffer_size |-> 0,
   ipt_filters |-> NoFilters, presnapshot |-> "", seed_path |-> None,
   role |-> "StandAlone", reuse |-> FALSE, worker_id |-> 0,
   aux_buffer_size |-> DEFAULT_AUX_BUFFER_SIZE]

Configs ==
  [runner : Runner, workdir : WorkDir \cup {None}, time_limit : TimeLimit \cup {0},
   input_buffer_size : Nat,
   ipt_filters : Filters \cup {NoFilters}, presnapshot : {"absolute", "folder", ""},
   seed_path : {"absolute", None}, role : Role, reuse : BOOLEAN,
   worker_id : Worker \cup {0}, aux_buffer_size : Nat]

Init ==
  /\ pc = "unloaded"
  /\ config = NoConfig
  /\ params = <<>>

(* config.x.or(default.x) *)
Or(own, default) == IF own # None THEN own ELSE default

(* A config.ron that cannot be read or names no default configuration, and   *)
(* one of the latter that cannot be read, give an Err and no config.         *)
LoadFails ==
  /\ pc = "unloaded"
  /\ UNCHANGED vars

(* seed_path is tested before it is made absolute. *)
SeedPath(seed) == IF seed = "" THEN None ELSE IntoAbsolutePath(seed)

(* The files are merged.  An option that neither gives, runners of two      *)
(* kinds and a relative path to nothing are a panic: include is the one     *)
(* to the default configuration, pre that of the presnapshot.               *)
Load(include, run, defRun, work, time, defTime, size, filters, pre, seed, defSeed) ==
  /\ pc = "unloaded"
  /\ LET lost == {include, Or(seed, defSeed)} \cup (IF run = "QemuSnapshot" THEN {pre} ELSE {})
     IN IF run # defRun \/ None \in {Or(time, defTime), Or(seed, defSeed)} \/ "dangling" \in lost
        THEN pc' = "panicked" /\ UNCHANGED config
        ELSE /\ pc' = "loaded"
             /\ config' = [NoConfig EXCEPT
                  !.runner = run,
                  !.workdir = work,
                  !.time_limit = Or(time, defTime),
                  !.input_buffer_size = IF size = None THEN DefaultInputSize ELSE size,
                  !.ipt_filters = filters,
                  !.presnapshot = IF run = "QemuSnapshot" THEN IntoAbsolutePath(pre) ELSE "",
                  !.seed_path = SeedPath(Or(seed, defSeed))]
  /\ UNCHANGED params

-----------------------------------------------------------------------------
(* Setters *)

(* Faulty: any size goes. *)
SetInputBufferSizeUnchecked(size) ==
  /\ pc = "loaded"
  /\ config' = [config EXCEPT !.input_buffer_size = size]
  /\ UNCHANGED <<pc, params>>

(* A size that is not a number of pages is a panic; zero is one. *)
SetInputBufferSize(size) ==
  /\ pc = "loaded"
  /\ IF size % PageSize # 0
     THEN pc' = "panicked" /\ UNCHANGED config
     ELSE config' = [config EXCEPT !.input_buffer_size = size] /\ UNCHANGED pc
  /\ UNCHANGED params

AuxSizeOk(size) == size >= DEFAULT_AUX_BUFFER_SIZE /\ size % PageSize = 0

(* A size that is refused changes nothing. *)
SetAuxBufferSize(size) ==
  /\ pc = "loaded"
  /\ AuxSizeOk(size)
  /\ config' = [config EXCEPT !.aux_buffer_size = size]
  /\ UNCHANGED <<pc, params>>

SetWorkdirPath(path) ==
  /\ pc = "loaded"
  /\ config' = [config EXCEPT !.workdir = path]
  /\ UNCHANGED <<pc, params>>

SetProcessRole(role) ==
  /\ pc = "loaded"
  /\ config' = [config EXCEPT !.role = role]
  /\ UNCHANGED <<pc, params>>

(* The path exists, canonicalize() would panic without it. *)
SetReuseSnapshotPath ==
  /\ pc = "loaded"
  /\ config' = [config EXCEPT !.reuse = TRUE]
  /\ UNCHANGED <<pc, params>>

-----------------------------------------------------------------------------
(* QemuParams::new() *)

(* Faulty: every filter is counted. *)
NumberFilterByPlace(acc, filter) ==
  [i |-> acc.i + 1, ip |-> IF filter = 0 THEN acc.ip ELSE Append(acc.ip, <<acc.i, filter>>)]

(* One round of the loop over the filters, with its counter. *)
NumberFilter(acc, filter) ==
  IF filter = 0 THEN acc
  ELSE [i |-> acc.i + 1, ip |-> Append(acc.ip, <<acc.i, filter>>)]

(* The four rounds. *)
NumberFilters(filters) ==
  LET one   == NumberFilter([i |-> 0, ip |-> <<>>], filters[1])
      two   == NumberFilter(one, filters[2])
      three == NumberFilter(two, filters[3])
  IN NumberFilter(three, filters[4]).ip

(* pre_path: only a StandAlone looks whether there is one, and always finds  *)
(* one: the loader has made an empty path the folder by then.                *)
PrePath(c) ==
  IF c.runner = "QemuKernel" \/ c.role = "Child" \/ (c.role = "StandAlone" /\ c.presnapshot = "")
  THEN None ELSE c.presnapshot

(* The argument of -fast_vm_reload: path is that of a snapshot to be reused, *)
(* or the snapshot directory of the work directory.                          *)
FastVmReload(c) ==
  IF c.reuse
  THEN [path |-> "reuse", load |-> TRUE, skip |-> FALSE, pre |-> None]
  ELSE [path |-> c.workdir,
        load |-> c.role = "Child",
        skip |-> c.role = "StandAlone",
        pre  |-> PrePath(c)]

(* Faulty: milliseconds, with no cast. *)
TimeoutMillis(time) == 1000 * time

(* time_limit.as_secs() as u8, in QemuProcess::new() *)
TimeoutSec(time) == time % 256

Clears(role) == role \in {"StandAlone", "Parent"}

Params(c) ==
  [input  |-> c.input_buffer_size,
   aux    |-> c.aux_buffer_size,
   workdir |-> c.workdir,
   worker |-> c.worker_id,
   ip     |-> NumberFilters(c.ipt_filters),
   fast   |-> FastVmReload(c),
   seeds  |-> IF Clears(c.role) THEN c.seed_path ELSE None,
   role   |-> c.role,
   timeout_sec |-> TimeoutSec(c.time_limit)]

(* NyxProcess::new(): the worker id goes into the config, whatever comes of  *)
(* the call.  A Parent or StandAlone with another id than 0 is a panic, and  *)
(* a call may end in a panic before QEMU is started (the seeds, a link, a    *)
(* mapping of no bytes, the binary), and in a panic or an Err after that.    *)
New(w) ==
  /\ pc = "loaded"
  /\ Len(params) < MaxNew
  /\ config' = [config EXCEPT !.worker_id = w]
  /\ \/ pc' = "panicked" /\ UNCHANGED params
     \/ /\ Clears(config.role) => w = 0
        /\ config.input_buffer_size > 0
        /\ params' = Append(params, Params(config'))
        /\ pc' \in {"loaded", "panicked"}

-----------------------------------------------------------------------------
Panicked == pc = "panicked" /\ UNCHANGED vars

Loading ==
  /\ pc = "unloaded"
  /\ \E include \in Path \ {""}, run, defRun \in Runner, work \in WorkDir,
        time, defTime \in TimeLimit \cup {None},
        size \in FileSize \cup {None}, filters \in Filters,
        pre \in Path, seed, defSeed \in Path \cup {None} :
       Load(include, run, defRun, work, time, defTime, size, filters, pre, seed, defSeed)

Next ==
  \/ LoadFails
  \/ Loading
  \/ \E size \in SetSize : SetInputBufferSize(size)
  \/ \E size \in AuxSize : SetAuxBufferSize(size)
  \/ \E path \in WorkDir : SetWorkdirPath(path)
  \/ \E role \in Role : SetProcessRole(role)
  \/ SetReuseSnapshotPath
  \/ \E w \in Worker : New(w)
  \/ Panicked

Spec == Init /\ [][Next]_vars

-----------------------------------------------------------------------------
(* Properties *)

Started == {params[k] : k \in DOMAIN params}

(* The types; an instance exists only of a config that was loaded, and runs  *)
(* in a work directory.                                                      *)
TypeOK ==
  /\ pc \in {"unloaded", "loaded", "panicked"}
  /\ config \in Configs
  /\ Len(params) <= MaxNew
  /\ \A p \in Started : p.timeout_sec < 256 /\ p.worker \in Worker /\ p.workdir \in WorkDir
  /\ pc = "unloaded" => params = <<>>

(* The sizes QEMU is started with, whatever was set, in whatever order: the  *)
(* input buffer has bytes, and a number of pages of them unless config.ron   *)
(* itself gives another size, which nobody checks; the aux buffer has whole  *)
(* pages, at least the one that its fixed parts need.                        *)
SizesArePages ==
  \A p \in Started :
    /\ p.input > 0
    /\ p.input % PageSize = 0 \/ p.input \in FileSize
    /\ p.aux >= DEFAULT_AUX_BUFFER_SIZE /\ p.aux % PageSize = 0

(* QEMU gets the filters that are in use, each once, in their order, and     *)
(* numbered from 0 without a gap.                                            *)
FiltersNumbered ==
  \A p \in Started :
    /\ {p.ip[n][2] : n \in DOMAIN p.ip} = {config.ipt_filters[k] : k \in 1 .. 4} \ {0}
    /\ \A m, n \in DOMAIN p.ip : m < n => p.ip[m][2] < p.ip[n][2]
    /\ \A n \in DOMAIN p.ip : p.ip[n][1] = n - 1

=============================================================================
