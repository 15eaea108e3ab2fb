----------------------------- MODULE ConfigProofs -----------------------------
(***************************************************************************)
(* Proofs about NyxFfi, for every pair of files, every order of the        *)
(* setters, both interfaces and any number of instances.                   *)
(***************************************************************************)
EXTENDS NyxFfi, SequenceTheorems, TLAPS

-----------------------------------------------------------------------------
(* The inductive invariant *)

(* A number of pages, as a setter leaves it, or what config.ron gives. *)
InputOk(size) == size % PageSize = 0 \/ size \in FileSize

(* What new() turns into a command line: a config that was loaded, has been  *)
(* through any setters, and still has the filters of its files.              *)
Startable ==
  {c \in Configs :
     /\ c.input_buffer_size > 0
     /\ InputOk(c.input_buffer_size)
     /\ AuxSizeOk(c.aux_buffer_size)
     /\ c.worker_id \in Worker
     /\ c.workdir \in WorkDir
     /\ c.ipt_filters = config.ipt_filters}

(* The config object. *)
ConfigInv ==
  /\ config \in Configs
  /\ AuxSizeOk(config.aux_buffer_size)
  /\ pc = "loaded" => InputOk(config.input_buffer_size) /\ config.workdir \in WorkDir

(* What was done with it. *)
UseInv ==
  /\ params \in Seq({Params(c) : c \in Startable})
  /\ Len(params) <= MaxNew
  /\ pc = "unloaded" => params = <<>>

StateInv ==
  /\ pc \in {"unloaded", "loaded", "panicked"}
  /\ interface \in {"Rust", "C"}
  /\ handle \in {"none", "null", "valid", "freed"}
  /\ process \in {"none", "null", "valid"}
  /\ handle = "valid" => pc # "unloaded"

IInv == ConfigInv /\ UseInv /\ StateInv

(* The setters that check nothing. *)
SetOther ==
  \/ \E path \in WorkDir : SetWorkdirPath(path)
  \/ \E role \in Role : SetProcessRole(role)
  \/ SetReuseSnapshotPath

-----------------------------------------------------------------------------
(* The actions that are common to both interfaces *)

LEMMA DefaultSizes ==
  /\ DefaultInputSize \in Nat /\ DEFAULT_AUX_BUFFER_SIZE \in Nat
  /\ InputOk(DefaultInputSize)
  /\ AuxSizeOk(DEFAULT_AUX_BUFFER_SIZE)
BY DEF InputOk, DefaultInputSize, PageSize, AuxSizeOk, DEFAULT_AUX_BUFFER_SIZE

LEMMA FileSizes ==
  ASSUME NEW size \in FileSize
  PROVE  size \in Nat /\ InputOk(size)
BY ConfigAssumption DEF ConfigAssumption, InputOk

(* What a call that is not new() must keep, but for the config it leaves.    *)
LEMMA LoadingKeeps ==
  ASSUME ConfigInv, Loading
  PROVE  /\ ConfigInv'
         /\ UNCHANGED params
         /\ pc = "unloaded" /\ pc' \in {"loaded", "panicked"}
<1>1. PICK include \in Path \ {""}, run \in Runner, defRun \in Runner, work \in WorkDir,
           time \in TimeLimit \cup {None}, defTime \in TimeLimit \cup {None},
           size \in FileSize \cup {None}, filters \in Filters, pre \in Path,
           seed \in Path \cup {None}, defSeed \in Path \cup {None} :
        Load(include, run, defRun, work, time, defTime, size, filters, pre, seed, defSeed)
  BY DEF Loading
<1> SUFFICES ConfigInv'
  BY <1>1 DEF Load
<1>2. CASE pc' = "panicked" /\ UNCHANGED config
  BY <1>2 DEF ConfigInv
<1>3. CASE pc' # "panicked"
  <2> DEFINE input == IF size = None THEN DefaultInputSize ELSE size
             start == IF run = "QemuSnapshot" THEN IntoAbsolutePath(pre) ELSE ""
             seeds == SeedPath(Or(seed, defSeed))
  <2>1. config' = [NoConfig EXCEPT
                     !.runner = run, !.workdir = work, !.time_limit = Or(time, defTime),
                     !.input_buffer_size = input, !.ipt_filters = filters,
                     !.presnapshot = start, !.seed_path = seeds]
        /\ None \notin {Or(time, defTime), Or(seed, defSeed)}
        /\ "dangling" # Or(seed, defSeed)
        /\ (run = "QemuSnapshot" => pre # "dangling")
    BY <1>1, <1>3 DEF Load
  <2>2. input \in Nat /\ InputOk(input)
    BY DefaultSizes, FileSizes
  <2>3. start \in {"absolute", "folder", ""}
    BY <2>1 DEF IntoAbsolutePath, Path
  <2>4. Or(seed, defSeed) \in Path \ {"dangling"}
    BY <2>1 DEF Or
  <2>5. seeds \in {"absolute", None}
    BY <2>4 DEF SeedPath, IntoAbsolutePath, Path
  <2>6. Or(time, defTime) \in TimeLimit
    BY <2>1 DEF Or
  <2> HIDE DEF input, start, seeds
  <2>7. config' = [runner |-> run, workdir |-> work, time_limit |-> Or(time, defTime),
                   input_buffer_size |-> input,
                   ipt_filters |-> filters, presnapshot |-> start, seed_path |-> seeds,
                   role |-> "StandAlone", reuse |-> FALSE, worker_id |-> 0,
                   aux_buffer_size |-> DEFAULT_AUX_BUFFER_SIZE]
    BY <2>1 DEF NoConfig
  <2>8. config' \in Configs
    BY <2>7, <2>2, <2>3, <2>5, <2>6, DefaultSizes DEF Configs, Role
  <2>9. AuxSizeOk(config'.aux_buffer_size)
    BY <2>7, DefaultSizes
  <2>10. config'.input_buffer_size = input /\ config'.workdir \in WorkDir
    BY <2>7
  <2> QED BY <2>8, <2>9, <2>10, <2>2 DEF ConfigInv
<1> QED BY <1>1, <1>2, <1>3 DEF Load

(* What was started stays as it was made: no setter touches what Startable   *)
(* compares with the config of now.                                          *)
LEMMA UseKept ==
  ASSUME UseInv, UNCHANGED params, pc' = "unloaded" => pc = "unloaded",
         config'.ipt_filters = config.ipt_filters
  PROVE  UseInv'
<1>1. Startable' = Startable
  BY DEF Startable
<1>2. {Params(c) : c \in Startable}' = {Params(c) : c \in Startable}
  BY <1>1
<1> QED BY <1>2 DEF UseInv

LEMMA UseKeptByLoading ==
  ASSUME UseInv, UNCHANGED params, pc = "unloaded"
  PROVE  UseInv'
BY DEF UseInv

(* The setters that change what is checked. *)
LEMMA SetInputKeeps ==
  ASSUME ConfigInv, UseInv, NEW size \in SetSize, SetInputBufferSize(size)
  PROVE  ConfigInv' /\ UseInv' /\ pc' \in {"loaded", "panicked"}
<1>1. size \in Nat
  BY ConfigAssumption DEF ConfigAssumption
<1>2. CASE size % PageSize # 0
  <2>1. pc' = "panicked" /\ UNCHANGED <<config, params>>
    BY <1>2 DEF SetInputBufferSize
  <2> QED BY <2>1, UseKept DEF ConfigInv
<1>3. CASE size % PageSize = 0
  <2>1. config' = [config EXCEPT !.input_buffer_size = size] /\ pc = "loaded"
        /\ UNCHANGED <<pc, params>>
    BY <1>3 DEF SetInputBufferSize
  <2>2. config' \in Configs /\ config'.input_buffer_size = size
        /\ config'.aux_buffer_size = config.aux_buffer_size
        /\ config'.workdir = config.workdir
        /\ config'.ipt_filters = config.ipt_filters
    BY <2>1, <1>1 DEF ConfigInv, Configs
  <2>3. UseInv'
    BY <2>1, <2>2, UseKept
  <2>4. InputOk(config'.input_buffer_size)
    BY <2>2, <1>3 DEF InputOk
  <2> QED BY <2>1, <2>2, <2>3, <2>4 DEF ConfigInv
<1> QED BY <1>2, <1>3

LEMMA SetAuxKeeps ==
  ASSUME ConfigInv, UseInv, NEW size \in AuxSize, SetAuxBufferSize(size)
  PROVE  ConfigInv' /\ UseInv' /\ pc' = "loaded"
<1>1. size \in Nat
  BY ConfigAssumption DEF ConfigAssumption
<1>2. config' = [config EXCEPT !.aux_buffer_size = size] /\ pc = "loaded" /\ pc' = "loaded"
      /\ AuxSizeOk(size) /\ UNCHANGED params
  BY DEF SetAuxBufferSize
<1>3. config' \in Configs /\ config'.aux_buffer_size = size
      /\ config'.input_buffer_size = config.input_buffer_size
      /\ config'.workdir = config.workdir
      /\ config'.ipt_filters = config.ipt_filters
  BY <1>1, <1>2 DEF ConfigInv, Configs
<1>4. UseInv'
  BY <1>2, <1>3, UseKept
<1> QED BY <1>2, <1>3, <1>4 DEF ConfigInv

LEMMA SetOtherKeeps ==
  ASSUME ConfigInv, UseInv, SetOther
  PROVE  ConfigInv' /\ UseInv' /\ pc' = "loaded"
<1>1. pc = "loaded" /\ pc' = "loaded" /\ UNCHANGED params
      /\ \/ \E path \in WorkDir : config' = [config EXCEPT !.workdir = path]
         \/ \E role \in Role : config' = [config EXCEPT !.role = role]
         \/ config' = [config EXCEPT !.reuse = TRUE]
  BY DEF SetOther, SetWorkdirPath, SetProcessRole, SetReuseSnapshotPath
<1>2. config \in Configs /\ config.workdir \in WorkDir
  BY <1>1 DEF ConfigInv
<1>3. config' \in Configs /\ config'.aux_buffer_size = config.aux_buffer_size
      /\ config'.input_buffer_size = config.input_buffer_size
      /\ config'.workdir \in WorkDir /\ config'.ipt_filters = config.ipt_filters
  BY <1>1, <1>2 DEF Configs
<1>4. UseInv'
  BY <1>1, <1>3, UseKept
<1> QED BY <1>1, <1>3, <1>4 DEF ConfigInv

(* new(): what is appended to params was made from a config that may start.  *)
LEMMA NewKeeps ==
  ASSUME ConfigInv, UseInv, NEW w \in Worker, New(w)
  PROVE  ConfigInv' /\ UseInv' /\ pc' \in {"loaded", "panicked"}
<1>1. /\ pc = "loaded" /\ Len(params) < MaxNew
      /\ config' = [config EXCEPT !.worker_id = w]
      /\ pc' \in {"loaded", "panicked"}
      /\ \/ UNCHANGED params
         \/ config.input_buffer_size > 0 /\ params' = Append(params, Params(config'))
  BY DEF New
<1>2. w \in Nat /\ MaxNew \in Nat
  BY ConfigAssumption DEF ConfigAssumption
<1>3. /\ config' \in Configs /\ config'.worker_id = w
      /\ config'.input_buffer_size = config.input_buffer_size
      /\ config'.aux_buffer_size = config.aux_buffer_size
      /\ config'.workdir = config.workdir /\ config'.ipt_filters = config.ipt_filters
  BY <1>1, <1>2 DEF ConfigInv, Configs
<1>4. ConfigInv'
  BY <1>1, <1>3 DEF ConfigInv
<1>5. CASE UNCHANGED params
  BY <1>5, <1>1, <1>3, <1>4, UseKept
<1>6. CASE config.input_buffer_size > 0 /\ params' = Append(params, Params(config'))
  <2> DEFINE PP == {Params(c) : c \in Startable}
  <2>1. PP' = PP
    BY <1>3 DEF Startable
  <2>2. config' \in Startable
    BY <1>1, <1>3, <1>6 DEF ConfigInv, Startable
  <2>3. Params(config') \in PP
    BY <2>2
  <2>4. params \in Seq(PP) /\ Len(params) <= MaxNew
    BY DEF UseInv
  <2> HIDE DEF PP
  <2>5. params' \in Seq(PP') /\ Len(params') <= MaxNew
    BY <1>1, <1>2, <1>6, <2>1, <2>3, <2>4
  <2> QED BY <1>1, <1>4, <2>5 DEF UseInv, PP
<1> QED BY <1>1, <1>5, <1>6

-----------------------------------------------------------------------------
(* Every step *)

LEMMA InitEstablishes == FfiInit => IInv
<1> SUFFICES ASSUME FfiInit PROVE IInv
  OBVIOUS
<1>1. ConfigInv
  <2>1. config = NoConfig /\ pc = "unloaded"
    BY DEF FfiInit, Init
  <2>2. NoConfig \in Configs /\ NoConfig.aux_buffer_size = DEFAULT_AUX_BUFFER_SIZE
    BY DefaultSizes DEF NoConfig, Configs, Runner, Role
  <2> QED BY <2>1, <2>2, DefaultSizes DEF ConfigInv
<1>2. UseInv
  BY ConfigAssumption DEF FfiInit, Init, UseInv, ConfigAssumption
<1>3. StateInv
  BY DEF FfiInit, Init, StateInv
<1> QED BY <1>1, <1>2, <1>3 DEF IInv

(* A step that calls no function, or one that does not concern the config.   *)
LEMMA IdleKeeps ==
  ASSUME ConfigInv, UseInv, UNCHANGED <<config, params>>,
         pc' \in {pc, "panicked"}
  PROVE  ConfigInv' /\ UseInv'
BY UseKept DEF ConfigInv

LEMMA StepKeeps ==
  ASSUME IInv, [FfiNext]_cvars
  PROVE  IInv'
<1> USE DEF IInv
<1>1. CASE UNCHANGED cvars
  BY <1>1, IdleKeeps DEF cvars, vars, ffi, StateInv
<1>2. CASE InRust
  <2>1. UNCHANGED <<interface, handle, process>> /\ interface = "Rust"
    BY <1>2 DEF InRust, ffi
  <2>2. CASE LoadFails \/ Panicked
    <3>1. UNCHANGED <<pc, config, params>>
      BY <2>2 DEF LoadFails, Panicked, vars
    <3>2. ConfigInv' /\ UseInv'
      BY <3>1, IdleKeeps
    <3> QED BY <3>1, <3>2, <2>1 DEF StateInv
  <2>3. CASE Loading
    <3>1. UNCHANGED params /\ pc = "unloaded" /\ pc' \in {"loaded", "panicked"}
      BY <2>3, LoadingKeeps
    <3>2. ConfigInv'
      BY <2>3, LoadingKeeps
    <3>3. UseInv'
      BY <3>1, UseKeptByLoading
    <3> QED BY <3>1, <3>2, <3>3, <2>1 DEF StateInv
  <2>4. CASE \E size \in SetSize : SetInputBufferSize(size)
    <3>1. PICK size \in SetSize : SetInputBufferSize(size)
      BY <2>4
    <3>2. UNCHANGED params
      BY <3>1 DEF SetInputBufferSize
    <3>3. ConfigInv' /\ UseInv' /\ pc' \in {"loaded", "panicked"}
      BY <3>1, SetInputKeeps
    <3> QED BY <3>2, <3>3, <2>1 DEF StateInv
  <2>5. CASE \E size \in AuxSize : SetAuxBufferSize(size)
    <3>1. PICK size \in AuxSize : SetAuxBufferSize(size)
      BY <2>5
    <3>2. UNCHANGED params
      BY <3>1 DEF SetAuxBufferSize
    <3>3. ConfigInv' /\ UseInv' /\ pc' = "loaded"
      BY <3>1, SetAuxKeeps
    <3> QED BY <3>2, <3>3, <2>1 DEF StateInv
  <2>6. CASE SetOther
    <3>1. UNCHANGED params
      BY <2>6 DEF SetOther, SetWorkdirPath, SetProcessRole, SetReuseSnapshotPath
    <3>2. ConfigInv' /\ UseInv' /\ pc' = "loaded"
      BY <2>6, SetOtherKeeps
    <3> QED BY <3>1, <3>2, <2>1 DEF StateInv
  <2>7. CASE \E w \in Worker : New(w)
    <3>1. PICK w \in Worker : New(w)
      BY <2>7
    <3>2. ConfigInv' /\ UseInv' /\ pc' \in {"loaded", "panicked"}
      BY <3>1, NewKeeps
    <3> QED BY <3>2, <2>1 DEF StateInv
  <2> QED BY <1>2, <2>2, <2>3, <2>4, <2>5, <2>6, <2>7 DEF InRust, Next, SetOther
<1>3. CASE ConfigLoad
  <2>1. interface' = interface /\ process' = process
    BY <1>3 DEF ConfigLoad
  <2>2. CASE LoadFails /\ handle' = "null"
    <3>1. UNCHANGED <<pc, config, params>>
      BY <2>2 DEF LoadFails, vars
    <3>2. ConfigInv' /\ UseInv'
      BY <3>1, IdleKeeps
    <3> QED BY <3>1, <3>2, <2>1, <2>2 DEF StateInv
  <2>3. CASE Loading /\ handle' = IF pc' = "loaded" THEN "valid" ELSE "none"
    <3>1. UNCHANGED params /\ pc = "unloaded" /\ pc' \in {"loaded", "panicked"}
      BY <2>3, LoadingKeeps
    <3>2. ConfigInv'
      BY <2>3, LoadingKeeps
    <3>3. UseInv'
      BY <3>1, UseKeptByLoading
    <3> QED BY <3>1, <3>2, <3>3, <2>1, <2>3 DEF StateInv
  <2> QED BY <1>3, <2>2, <2>3 DEF ConfigLoad
<1>4. CASE CheckPtr
  <2>1. UNCHANGED <<config, params, interface, handle, process>> /\ pc' = "panicked"
    BY <1>4 DEF CheckPtr, ffi
  <2>2. ConfigInv' /\ UseInv'
    BY <2>1, IdleKeeps
  <2> QED BY <2>1, <2>2 DEF StateInv
<1>5. CASE ConfigFree
  <2>1. UNCHANGED <<pc, config, params, interface, process>>
        /\ handle' \in {"null", "freed"}
    BY <1>5 DEF ConfigFree, vars
  <2>2. ConfigInv' /\ UseInv'
    BY <2>1, IdleKeeps
  <2> QED BY <2>1, <2>2 DEF StateInv
<1>6. CASE ConfigSet
  <2>1. /\ UNCHANGED <<params, interface, handle, process>>
        /\ SetOther
    BY <1>6 DEF ConfigSet, SetOther, SetWorkdirPath, SetProcessRole, SetReuseSnapshotPath, ffi
  <2>2. ConfigInv' /\ UseInv' /\ pc' = "loaded"
    BY <2>1, SetOtherKeeps
  <2> QED BY <2>1, <2>2 DEF StateInv
<1>7. CASE \E size \in SetSize : ConfigSetInputBufferSize(size)
  <2>1. PICK size \in SetSize : ConfigSetInputBufferSize(size)
    BY <1>7
  <2>2. UNCHANGED <<params, interface, handle, process>> /\ pc # "unloaded"
    BY <2>1 DEF ConfigSetInputBufferSize, SetInputBufferSize, ffi, InC, StateInv
  <2>3. CASE size = 0
    <3>1. pc' = "panicked" /\ config' = config
      BY <2>1, <2>3 DEF ConfigSetInputBufferSize
    <3>2. ConfigInv' /\ UseInv'
      BY <3>1, <2>2, IdleKeeps
    <3> QED BY <3>1, <3>2, <2>2 DEF StateInv
  <2>4. CASE size # 0
    <3>1. SetInputBufferSize(size)
      BY <2>1, <2>4 DEF ConfigSetInputBufferSize
    <3>2. ConfigInv' /\ UseInv' /\ pc' \in {"loaded", "panicked"}
      BY <3>1, SetInputKeeps
    <3> QED BY <3>2, <2>2 DEF StateInv
  <2> QED BY <2>3, <2>4
<1>8. CASE \E size \in AuxSize : ConfigSetAuxBufferSize(size)
  <2>1. PICK size \in AuxSize : ConfigSetAuxBufferSize(size)
    BY <1>8
  <2>2. UNCHANGED <<params, interface, handle, process>>
    BY <2>1 DEF ConfigSetAuxBufferSize, SetAuxBufferSize, ffi
  <2>3. CASE size = 0
    <3>1. pc' = "panicked" /\ config' = config
      BY <2>1, <2>3 DEF ConfigSetAuxBufferSize
    <3>2. ConfigInv' /\ UseInv'
      BY <3>1, <2>2, IdleKeeps
    <3> QED BY <3>1, <3>2, <2>2 DEF StateInv
  <2>4. CASE size # 0
    <3>1. SetAuxBufferSize(size)
      BY <2>1, <2>4 DEF ConfigSetAuxBufferSize
    <3>2. ConfigInv' /\ UseInv' /\ pc' = "loaded"
      BY <3>1, SetAuxKeeps
    <3> QED BY <3>2, <2>2 DEF StateInv
  <2> QED BY <2>3, <2>4
<1>9. CASE \E w \in Worker : NyxNew(w)
  <2>1. PICK w \in Worker : NyxNew(w)
    BY <1>9
  <2>2. /\ New(w) /\ UNCHANGED <<interface, handle>>
        /\ process' \in {process, "null", "valid"}
    BY <2>1 DEF NyxNew
  <2>3. ConfigInv' /\ UseInv' /\ pc' \in {"loaded", "panicked"}
    BY <2>2, NewKeeps
  <2> QED BY <2>2, <2>3 DEF StateInv
<1> HIDE DEF IInv
<1> QED BY <1>1, <1>2, <1>3, <1>4, <1>5, <1>6, <1>7, <1>8, <1>9 DEF FfiNext

-----------------------------------------------------------------------------
(* The theorems *)

(* The inductive invariant: whatever the order of the calls, what new()      *)
(* starts has passed a setter or comes from a file.                          *)
THEOREM Invariant == FfiSpec => []IInv
<1>1. FfiInit => IInv
  BY InitEstablishes
<1>2. IInv /\ [FfiNext]_cvars => IInv'
  BY StepKeeps
<1> QED BY <1>1, <1>2, PTL DEF FfiSpec

(* Every instance was made of a config that may start.                       *)
LEMMA StartedIsStartable ==
  ASSUME IInv, NEW p \in Started
  PROVE  \E c \in Startable : p = Params(c)
<1>1. PICK k \in DOMAIN params : p = params[k]
  BY DEF Started
<1> QED BY <1>1 DEF IInv, UseInv

(* Type correctness, for any files, sizes and worker ids.                    *)
THEOREM TypeCorrect == FfiSpec => []FfiTypeOK
<1>1. IInv => FfiTypeOK
  <2> SUFFICES ASSUME IInv PROVE FfiTypeOK
    OBVIOUS
  <2>1. ASSUME NEW p \in Started
        PROVE  p.timeout_sec < 256 /\ p.worker \in Worker /\ p.workdir \in WorkDir
    <3>1. PICK c \in Startable : p = Params(c)
      BY StartedIsStartable
    <3>2. c.time_limit \in Nat /\ c.worker_id \in Worker /\ c.workdir \in WorkDir
      <4>1. c \in Configs /\ c.worker_id \in Worker /\ c.workdir \in WorkDir
        BY DEF Startable
      <4>2. c.time_limit \in TimeLimit \cup {0}
        BY <4>1 DEF Configs
      <4>3. \A time \in TimeLimit \cup {0} : time \in Nat
        BY ConfigAssumption DEF ConfigAssumption
      <4>4. c.time_limit \in Nat
        BY <4>2, <4>3, Zenon
      <4> QED BY <4>1, <4>4
    <3>3. p.worker = c.worker_id /\ p.workdir = c.workdir
          /\ p.timeout_sec = TimeoutSec(c.time_limit)
      BY <3>1 DEF Params
    <3> QED BY <3>2, <3>3 DEF TimeoutSec
  <2> QED BY <2>1 DEF IInv, ConfigInv, UseInv, StateInv, FfiTypeOK, TypeOK
<1> QED BY <1>1, Invariant, PTL

(* Whatever config.ron gives and the setters were given, in whatever order,  *)
(* QEMU is started with an input buffer of some bytes, of whole pages unless *)
(* config.ron gives another size, and with an aux buffer of whole pages.     *)
THEOREM SizesAlwaysPages == FfiSpec => []SizesArePages
<1>1. IInv => SizesArePages
  <2> SUFFICES ASSUME IInv, NEW p \in Started
               PROVE  p.input > 0 /\ InputOk(p.input) /\ AuxSizeOk(p.aux)
    BY DEF SizesArePages, AuxSizeOk, InputOk
  <2>1. PICK c \in Startable : p = Params(c)
    BY StartedIsStartable
  <2>2. p.input = c.input_buffer_size /\ p.aux = c.aux_buffer_size
    BY <2>1 DEF Params
  <2>3. c.input_buffer_size > 0 /\ InputOk(c.input_buffer_size)
        /\ AuxSizeOk(c.aux_buffer_size)
    BY DEF Startable
  <2> QED BY <2>2, <2>3
<1> QED BY <1>1, Invariant, PTL

-----------------------------------------------------------------------------
(* The numbers of the filters *)

(* What the loop has in hand after the first n slots: the filters in use     *)
(* among them, in order, numbered from 0.                                    *)
Numbered(acc, n, filters) ==
  /\ acc.i \in Nat
  /\ acc.ip \in Seq(Nat \X Nat)
  /\ Len(acc.ip) = acc.i
  /\ \A m \in DOMAIN acc.ip : acc.ip[m][1] = m - 1 /\ acc.ip[m][2] <= n
  /\ \A m \in DOMAIN acc.ip : \E k \in 1 .. n : filters[k] # 0 /\ acc.ip[m][2] = filters[k]
  /\ \A k \in 1 .. n : filters[k] # 0 => \E m \in DOMAIN acc.ip : acc.ip[m][2] = filters[k]
  /\ \A m, l \in DOMAIN acc.ip : m < l => acc.ip[m][2] < acc.ip[l][2]

(* One round of it. *)
LEMMA RoundNumbers ==
  ASSUME NEW filters \in [1 .. 4 -> 0 .. 4], \A k \in 1 .. 4 : filters[k] \in {0, k},
         NEW n \in 0 .. 3, NEW acc, Numbered(acc, n, filters)
  PROVE  Numbered(NumberFilter(acc, filters[n + 1]), n + 1, filters)
<1> DEFINE f == filters[n + 1]
           S == Nat \X Nat
<1>1. f \in {0, n + 1} /\ n + 1 \in 1 .. 4
  OBVIOUS
<1>2. acc.ip \in Seq(S) /\ acc.i \in Nat /\ Len(acc.ip) = acc.i
  BY DEF Numbered
<1>3. CASE f = 0
  <2>1. NumberFilter(acc, f) = acc
    BY <1>3 DEF NumberFilter
  <2>2. \A k \in 1 .. n + 1 : filters[k] # 0 => k \in 1 .. n
    BY <1>3
  <2>3. \A m \in DOMAIN acc.ip : acc.ip[m] \in S /\ acc.ip[m][2] <= n
    BY <1>2 DEF Numbered
  <2>4. \A m \in DOMAIN acc.ip : acc.ip[m][2] <= n + 1
    BY <2>3
  <2>5. \A k \in 1 .. n : k \in 1 .. n + 1
    OBVIOUS
  <2> HIDE DEF f, S
  <2>6. Numbered(acc, n + 1, filters)
    BY <2>2, <2>4, <2>5, Zenon DEF Numbered
  <2> QED BY <2>1, <2>6 DEF f
<1>4. CASE f = n + 1
  <2> DEFINE ip == Append(acc.ip, <<acc.i, f>>)
             next == NumberFilter(acc, f)
  <2>1. next.i = acc.i + 1 /\ next.ip = ip
    BY <1>4 DEF NumberFilter
  <2>2. <<acc.i, f>> \in S
    BY <1>2, <1>4
  <2>3. ip \in Seq(S) /\ Len(ip) = acc.i + 1
    BY <1>2, <2>2
  <2>4. /\ \A m \in DOMAIN acc.ip : ip[m] = acc.ip[m] /\ m \in DOMAIN ip
        /\ ip[acc.i + 1] = <<acc.i, f>> /\ acc.i + 1 \in DOMAIN ip
        /\ \A m \in DOMAIN ip : m \in DOMAIN acc.ip \/ m = acc.i + 1
    <3> DEFINE e == <<acc.i, f>>
    <3>1. acc.ip \in Seq(S) /\ e \in S
      BY <1>2, <2>2
    <3> HIDE DEF e, S
    <3>2. /\ Len(Append(acc.ip, e)) = Len(acc.ip) + 1
          /\ \A m \in 1 .. Len(acc.ip) : Append(acc.ip, e)[m] = acc.ip[m]
          /\ Append(acc.ip, e)[Len(acc.ip) + 1] = e
          /\ DOMAIN acc.ip = 1 .. Len(acc.ip)
          /\ DOMAIN Append(acc.ip, e) = 1 .. Len(Append(acc.ip, e))
      BY <3>1, AppendProperties
    <3> QED BY <3>2, <1>2 DEF e
  <2>5. /\ \A m \in DOMAIN ip : ip[m][1] = m - 1 /\ ip[m][2] <= n + 1
        /\ \A m \in DOMAIN acc.ip : acc.ip[m][2] < n + 1
    <3>1. ASSUME NEW m \in DOMAIN acc.ip
          PROVE  ip[m][1] = m - 1 /\ ip[m][2] <= n + 1 /\ acc.ip[m][2] < n + 1
      <4>1. acc.ip[m] \in S
        BY <1>2
      <4>2. acc.ip[m][2] \in Nat
        BY <4>1
      <4>3. acc.ip[m][1] = m - 1 /\ acc.ip[m][2] <= n /\ ip[m] = acc.ip[m]
        BY <2>4, Zenon DEF Numbered
      <4>4. ip[m][1] = m - 1 /\ ip[m][2] = acc.ip[m][2]
        BY <4>3, Zenon
      <4>5. \A k \in Nat : k <= n => k <= n + 1 /\ k < n + 1
        OBVIOUS
      <4>6. acc.ip[m][2] <= n + 1 /\ acc.ip[m][2] < n + 1
        BY <4>2, <4>3, <4>5, Zenon
      <4> QED BY <4>4, <4>6, Zenon
    <3>2. ip[acc.i + 1][1] = (acc.i + 1) - 1 /\ ip[acc.i + 1][2] <= n + 1
      BY <1>2, <1>4, <2>4
    <3> QED BY <3>1, <3>2, <2>4, Zenon
  <2>6. \A m \in DOMAIN ip : \E k \in 1 .. n + 1 : filters[k] # 0 /\ ip[m][2] = filters[k]
    <3> SUFFICES ASSUME NEW m \in DOMAIN ip
                 PROVE  \E k \in 1 .. n + 1 : filters[k] # 0 /\ ip[m][2] = filters[k]
      OBVIOUS
    <3>1. CASE m \in DOMAIN acc.ip
      <4>1. PICK k \in 1 .. n : filters[k] # 0 /\ acc.ip[m][2] = filters[k]
        BY <3>1 DEF Numbered
      <4>2. k \in 1 .. n + 1 /\ ip[m][2] = acc.ip[m][2]
        BY <2>4, <3>1
      <4> QED BY <4>1, <4>2
    <3>2. CASE m = acc.i + 1
      BY <3>2, <2>4, <1>4
    <3> QED BY <3>1, <3>2, <2>4
  <2>7. \A k \in 1 .. n + 1 : filters[k] # 0 => \E m \in DOMAIN ip : ip[m][2] = filters[k]
    BY <2>4, <1>1, <1>4 DEF Numbered
  <2>9. \A m, l \in DOMAIN ip : m < l => ip[m][2] < ip[l][2]
    <3> SUFFICES ASSUME NEW m \in DOMAIN ip, NEW l \in DOMAIN ip, m < l
                 PROVE  ip[m][2] < ip[l][2]
      OBVIOUS
    <3>1. DOMAIN acc.ip = 1 .. acc.i
      BY <1>2
    <3>2. m \in DOMAIN acc.ip
      BY <3>1, <2>4, <1>2
    <3>3. CASE l \in DOMAIN acc.ip
      <4>1. acc.ip[m][2] < acc.ip[l][2]
        BY <3>2, <3>3 DEF Numbered
      <4> QED BY <4>1, <3>2, <3>3, <2>4
    <3>4. CASE l = acc.i + 1
      <4>1. ip[l][2] = n + 1
        BY <3>4, <2>4, <1>4
      <4> QED BY <4>1, <3>2, <2>4, <2>5
    <3> QED BY <3>3, <3>4, <2>4
  <2> HIDE DEF ip, S
  <2>10. Numbered(next, n + 1, filters)
    BY <2>1, <2>3, <2>5, <2>6, <2>7, <2>9, <1>2 DEF Numbered, S
  <2> QED BY <2>10
<1> QED BY <1>1, <1>3, <1>4

(* The four rounds.                                                          *)
LEMMA LoopNumbers ==
  ASSUME NEW filters \in [1 .. 4 -> 0 .. 4], \A k \in 1 .. 4 : filters[k] \in {0, k}
  PROVE  \E acc : NumberFilters(filters) = acc.ip /\ Numbered(acc, 4, filters)
<1> DEFINE start == [i |-> 0, ip |-> <<>>]
           one   == NumberFilter(start, filters[1])
           two   == NumberFilter(one, filters[2])
           three == NumberFilter(two, filters[3])
           four  == NumberFilter(three, filters[4])
<1>1. Numbered(start, 0, filters)
  BY DEF Numbered
<1> HIDE DEF start
<1>2. Numbered(one, 1, filters)
  BY <1>1, RoundNumbers, 0 + 1 = 1
<1> HIDE DEF one
<1>3. Numbered(two, 2, filters)
  BY <1>2, RoundNumbers, 1 + 1 = 2
<1> HIDE DEF two
<1>4. Numbered(three, 3, filters)
  BY <1>3, RoundNumbers, 2 + 1 = 3
<1> HIDE DEF three
<1>5. Numbered(four, 4, filters)
  BY <1>4, RoundNumbers, 3 + 1 = 4
<1>6. NumberFilters(filters) = four.ip
  BY DEF NumberFilters, three, two, one, start
<1> QED BY <1>5, <1>6

(* QEMU gets the filters in use, in order, with numbers without a gap, for   *)
(* every set of slots.                                                       *)
THEOREM FiltersAreNumbered == FfiSpec => []FiltersNumbered
<1>1. IInv => FiltersNumbered
  <2> SUFFICES ASSUME IInv, NEW p \in Started
               PROVE  /\ {p.ip[n][2] : n \in DOMAIN p.ip}
                            = {config.ipt_filters[k] : k \in 1 .. 4} \ {0}
                      /\ \A m, n \in DOMAIN p.ip : m < n => p.ip[m][2] < p.ip[n][2]
                      /\ \A n \in DOMAIN p.ip : p.ip[n][1] = n - 1
    BY DEF FiltersNumbered
  <2> DEFINE filters == config.ipt_filters
  <2>1. filters \in [1 .. 4 -> 0 .. 4] /\ \A k \in 1 .. 4 : filters[k] \in {0, k}
    <3>1. filters \in Filters \cup {NoFilters}
      BY DEF IInv, ConfigInv, Configs
    <3> HIDE DEF filters
    <3>2. CASE filters = NoFilters
      BY <3>2 DEF NoFilters
    <3>3. CASE filters \in Filters
      <4>1. PICK used \in Slots : filters = [k \in 1 .. 4 |-> IF k \in used THEN k ELSE 0]
        BY <3>3 DEF Filters
      <4> QED BY <4>1
    <3> QED BY <3>1, <3>2, <3>3
  <2>2. PICK c \in Startable : p = Params(c)
    BY StartedIsStartable
  <2>3. p.ip = NumberFilters(filters)
    BY <2>2 DEF Params, Startable
  <2> HIDE DEF filters
  <2>4. PICK acc : NumberFilters(filters) = acc.ip /\ Numbered(acc, 4, filters)
    BY <2>1, LoopNumbers
  <2>5. {p.ip[n][2] : n \in DOMAIN p.ip} = {filters[k] : k \in 1 .. 4} \ {0}
    <3>1. ASSUME NEW n \in DOMAIN p.ip
          PROVE  p.ip[n][2] \in {filters[k] : k \in 1 .. 4} \ {0}
      <4>1. PICK k \in 1 .. 4 : filters[k] # 0 /\ acc.ip[n][2] = filters[k]
        BY <2>3, <2>4 DEF Numbered
      <4> QED BY <4>1, <2>3, <2>4
    <3>2. ASSUME NEW k \in 1 .. 4, filters[k] # 0
          PROVE  \E n \in DOMAIN p.ip : p.ip[n][2] = filters[k]
      BY <3>2, <2>3, <2>4 DEF Numbered
    <3> QED BY <3>1, <3>2
  <2> QED BY <2>3, <2>4, <2>5 DEF Numbered, filters
<1> QED BY <1>1, Invariant, PTL

=============================================================================
