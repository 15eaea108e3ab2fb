# libnyx in TLA+

Models, checks and proofs of libnyx, the library that starts QEMU-Nyx virtual
machines and runs fuzzing inputs in them. Every definition is translated from
the Rust code; `PROJECT.json` ("map") gives the lines each one stands for.
QEMU-Nyx is not part of the repository: its actions are what the code in `src/`
relies on, and are marked `external` in the map.

## 1. The system

A user program (a fuzzer) calls the Rust interface (`libnyx/src/lib.rs`) or the C
interface (`libnyx/src/ffi.rs`), a layer over it with a few checks more and a few
less. It loads a
`NyxConfig` from a share directory, changes it with setters, and creates
`NyxProcess` instances: one QEMU process each. An instance and its QEMU share
three kinds of memory (aux buffer, input buffer, bitmaps) and a UNIX socket that
carries one byte each way: a byte to QEMU lets the guest run, a byte back says
it has stopped. Several instances, usually one process each, form a campaign:
one *Parent* boots the guest and writes a snapshot into the work directory, the
*Child* instances wait for it there. Instances of all campaigns share `/dev/shm`.

| Component | State | Operations | Interacts with |
|---|---|---|---|
| Fuzzing loop (`qemu_process.rs` 319-440, `lib.rs` 300-393, `aux_buffer.rs`) | program counter, `old_address`, aux buffer (config, result, misc), socket bytes | `exec`, `option_set_*`, `option_apply`, `set_timeout`, `shutdown` | QEMU by shared memory and socket |
| Launch (`qemu_process.rs` 107-317) | mapped sizes, hprintf file, header, boot results | `new`, `set_hprintf_fd` | QEMU; the config's descriptor |
| Shared directories (`qemu_process.rs` 107-145, 385-440, 507-573) | `/dev/shm/nyx_<pid>_<tid>/`, its lock file, the links from the work directory | sweep, create, link, copy back, remove | other processes, by file system and `flock` |
| Work directory (`qemu_process.rs` 442-504, 545-608, `params.rs` 148-200) | files of the work directory | `prepare_workdir`, `wait_for_workdir`, `remove_work_dir` | parent, children, QEMU, user, by file names only |
| Configuration (`config.rs`, `loader.rs`, `lib.rs` 60-260, `params.rs`) | the config object, the QEMU command line | `load`, setters, `QemuParams::new` | launch, by the parameters |
| C interface (`ffi.rs`) | who owns a config or an instance behind a raw pointer | `nyx_config_load`, `nyx_config_free`, `nyx_new`, `nyx_shutdown`, `nyx_print_aux_buffer`, wrappers with pointer checks | the above |
| Buffers (`lib.rs` 262-304, 335-350, 368-377) | input, bitmap and IJON bytes, their sizes and mappings | `set_input_ptr`, slices | QEMU, user |
| `acat` (`acat/src/main.rs`) | none | prints an aux buffer file | an instance, by its aux buffer |
| Exit reasons, IJON data, build files | data types | - | - |

### What is hard

- **Two sides, no lock.** The aux buffer is plain shared memory. Only the
  alternation of single bytes on the socket says whose it is, and QEMU may die
  between any two of them.
- **Loops with a memory of one address.** `send_payload()` repeats an execution
  when a page was missing and after each hprintf; what ends it is one local variable.
- **Options take effect later.** Setters write the buffer; QEMU reads it when
  somebody else raises `changed`.
- **Cleaning up after strangers.** Each Parent or StandAlone removes the shared
  directories of dead processes while live ones create theirs, and anybody may be
  killed between two system calls.
- **Names instead of messages.** A child learns of the snapshot by polling for
  files, which an earlier campaign may have left.
- **Failure on the way up.** `new()` returns Err in four places after it has spawned
  QEMU, and panics in others.
- **Two sizes of one buffer.** The aux buffer may be larger than the layout it is
  read with, and a mapping larger than the buffer the agent has asked for: some
  readers use one size, some the other.
- **What a message leaves behind.** A shorter message is written over a longer one,
  and not every reader looks at the length.
- **Two interfaces.** The C interface repeats some checks, drops others, and does
  not drop instances.
- **Numbers.** Sizes in pages, seconds in a byte, filters that are renumbered.

`PROJECT.json` ("hazards") lists these one by one, at the line where they bite,
with the properties that cover them.

## 2. The modules

| Module | What it is |
|---|---|
| `ExecService` | What `exec()` promises: abstract specification with four variables |
| `NyxExec` | The fuzzing loop; implements `ExecService` |
| `NyxExecProofs` | Theorems about `NyxExec` |
| `AuxLayout` | The parts of the aux buffer, and who can read how much of a message: operators only |
| `Launch` | `QemuProcess::new()`; its Ok states are initial states of `NyxExec` (`INSTANCE`) |
| `Session` | Launch and what a user does with the instance: inputs, executions, messages, descriptors, both kinds of shutdown |
| `SessionProofs` | Theorems about `Session` and with it about `Launch` |
| `SharedStore` | What the directories in `/dev/shm` promise a VM: abstract specification with four variables |
| `ShmWorkDir`, `MCShmWorkDir` | Shared directories; implements `SharedStore`. Four threads for the runs |
| `ShmWorkDirProofs` | Theorems about `ShmWorkDir` |
| `SnapshotStore` | What a work directory promises the instances of a campaign: abstract specification with four variables |
| `Campaign` | The work directory protocol; implements `SnapshotStore` |
| `CampaignProofs` | Theorems about `Campaign` |
| `NyxConfig` | From the configuration files to the command line |
| `NyxFfi` | The config object behind the pointers of the C interface, or in a Rust program |
| `ConfigProofs` | Theorems about `NyxFfi` and with it about `NyxConfig` |

`Session` extends `Launch`, which extends `AuxLayout`; `NyxFfi` extends `NyxConfig`.
The extending module takes every action of the extended one into its next-state
relation, so that one run checks both.

Operators named after a *Faulty* comment are not part of any specification. Each
is a plausible bug in the definition that follows it, and each property was
checked to fail when that definition is replaced by it ("mutants").

### NyxExec

`pc` names the point the libnyx thread has reached: `send`/`recv` are the two
halves of `run_qemu()` for a normal run, `check` is the test for a missing page,
`dumpSend`/`dumpRecv` are the run that dumps it, `match` is the match on the
result code, and `map` is the second look at the code in `exec()`. The config
part of the aux buffer is `changed`, `opts`, `dump`; the result part is `code`,
`page`, `misc`. QEMU is parked on a read, running, or has posted a result; at
each resumption it rescans a flagged config part, as the comments on
`run_qemu()` and the use of `changed` require. An execution may miss any page
QEMU has not dumped yet. `QemuDie` may happen at any time; a byte already sent is
still delivered, which is why a dead QEMU can leave one valid verdict behind.

What ends the loop over missing pages is that a page is not asked for twice in a row.
For pages that QEMU keeps once it has dumped them that is enough (`AskedOnce`), for
one page that it cannot dump, too; for two of those it is not
(`ExecReturns`, `ExecReturnsUnlessPagesAlternate`).

### ShmWorkDir

One thread of the model is one process, so its name is its pid and tid and also
the name of its directory. Each system call is a step: `glob`, `open`, `flock`,
the entries of `remove_dir_all()`, `mkdir`; `exists`, `remove_file` and `symlink` for
a link (`LookAtLink`, `RemoveOldLink`, `MakeLink`); `remove_file`, the opening and the
filling of the copy at the end (`TakeBack`, `BeginCopy`, `EndCopy`). A process that is
killed in between leaves no link, or half a copy (`PartFile`). A lock file is a pair of
name and generation: an `flock` holds on a file, not on its name. `Crash` may
happen anywhere and releases locks and nothing else. The three files of a directory,
which the code treats one after the other in the same way, are one. The caller's
part (`MayStart`): no two live instances of one work directory and worker id, and
no parent started in a work directory that others still use.

`SharedStore` has no locks, sweeps or system calls. Under the mapping (`Storage`,
`Running`, `Saving`, `link`) files are stored only in a directory that exists, a VM runs
from the end of `new()` until `shutdown()` takes its link back, and is then being saved
until the copy is whole. A name may change only while no VM runs or is saved under it,
and then by one of its own steps: an old link is taken away before a new one is made, and
a link before a copy is begun. A VM that dies between two of them leaves what is there.

### Launch

One thread calls `new()` repeatedly on one config object. `connect`, `hello`,
`attach`, the boot loop `match`-`state`-`send`-`recv`, `adopt` (sizes the agent
asked for) and `configure` follow the code; `Fail` is every `return Err`, which
drops what `new()` had built, including the hprintf `File` and thus the
descriptor it took over (`Drop`). Panics end the session. A message is its length:
the boot loop slices the array of the 4 KB layout with it (`Readable`) and panics
if it is longer, although a larger aux buffer has room for it. `mmap()` and
`spawn()` succeed.

### Session

Between `Ok` and the end of an instance, `SetInput` writes the length field and
copies `Cut(n)` bytes, where the mapping ends and not where the agreed buffer does;
`Execute` is a whole `exec()`, of which `ExecService` says how it ends and `NyxExec` why,
here with the message it leaves, and a panic if the code is unknown; `ExecuteIoError` is
one whose QEMU has died; `PrintFails` is the panic of
`nyx_print_aux_buffer()`, which decodes the whole array. `foreign` holds the places
in `misc.data` that are not UTF-8: a message covers those before its end, the ones
behind stay (`Overwritten`). `SetHprintfFdUnchecked` and `ShutdownUndropped` are
what the C interface does instead of the checked setter and of dropping the
instance. `KeepBuffers` ties the life of the buffers to that of the instance.

### Campaign

Every directory entry carries the number of the campaign that created it, which
the code cannot see. The parent clears entry by entry, prepares in the order of
`prepare_workdir()`, boots, and its QEMU writes the snapshot, the state file last.
A child polls for the files in the order of `wait_for_workdir()`. Three sub
directories stand for eight. The caller's part: campaigns of one directory do not
overlap, and `remove_work_dir()` is called when no instance runs. A QEMU ends with
the process that started it: its end of the socket is closed.

`SnapshotStore` has no files. Under the mapping (`Stored`, `Attached`, `Spent`) the
snapshot is stored while all that a child maps is there and carries the number of
the present campaign; a child is attached from the end of its wait to its own end.

### NyxConfig

`Load` merges the two files; `time_limit` and `seed_path` stand for the options that
may come from the default file, `input_buffer_size` and the filters for those that
come from `config.ron` alone, and may have any size, zero included. A path is absolute,
relative, dangling (relative to nothing: `canonicalize().unwrap()` panics) or empty;
`into_absolute_path()` turns the empty one into the folder itself, `seed_path` is tested
before it gets there. The work directory is a value of its own, which a setter can change
between two instances. The setters come in any order, then `New` builds the command line
(`Params`), in which `FastVmReload` is the argument that says what to load and what to
save. `params` records the QEMUs that were started. A call of `new()` that panics did so
before that or after; which of the many panics it was, and whether the work directory
had been cleared by then, is not modelled here.

### NyxFfi

A program uses one interface. In C the config pointer is null if loading failed, and
`nyx_new()` returns null for an Err; a null pointer that is passed on is a panic
(`CheckPtr`) but for `nyx_config_free()`. The size setters assert a size larger than
zero before they do what the Rust ones do. Use of a pointer after `nyx_config_free()`
is the program's mistake and does not occur.

## 3. The runs

| Run | Shows | Bounds, and why they are enough |
|---|---|---|
| `exec_safety` | Buffer exclusive, page dumps and normal runs in step, hprintf order, options in force, `exec()` implements `ExecService` | Two pages, one of which QEMU can never dump: dumping, giving up, and both in one call. Two messages and two stops: order and duplication. Two options, one with its own setter. QEMU dies anywhere. 750,104 states |
| `exec_liveness` | Every `exec()` returns unless QEMU misses two pages it cannot dump in turn, also when it stops for an hprintf while dumping; no page that can be dumped is asked for twice in a call; no verdict after an IoError | Two pages that can never be dumped and one that can, so that neither the alternation nor its absence is due to the bounds; one message and option. 51,814 states |
| `shm_safety` | Running VMs keep directory, files and link; the panics that can happen; the directories implement `SharedStore` | Parent, child, the child restarted as a new process under its worker id, a parent of another campaign; one `new()` each, killed between any two system calls. 2,359,310 states |
| `shm_liveness` | Calls return; a sweep gets rid of the orphans it finds | Three of the threads. 79,809 states |
| `launch_safety` (`Session`) | No QEMU left behind by an Err and none running after a panic, boot hprintfs, protection before the agent runs, mappings cover sizes, inputs arrive whole, `acat` shows texts, descriptors, the causes of panics, Ok hands over to `NyxExec`, every `new()` ends | Two launches, two stops each, two descriptors; agent sizes below and above the configured one; inputs that just fit into the smallest and the largest buffer and one that fits into none; messages that are empty, that fill the 4 KB exactly (this one not UTF-8) and that are one byte longer, in an aux buffer of 8 KB. 468,974 states |
| `campaign_safety` | Children find a complete snapshot of their own campaign and get to start; a directory is refused for removal only if it was never complete or a removal was killed; the directory implements `SnapshotStore` | Two campaigns, two children, two removals, everybody may die anywhere. 1,495,729 states |
| `config_safety` (`NyxFfi`) | Every size QEMU is started with is positive, and whole pages unless `config.ron` gave another; filters numbered | Sizes on both sides of each check, zero and 5000 from `config.ron`; slots in use with gaps and none; every kind of path, a time limit over 256 s, two work directories, two worker ids, two instances, both interfaces. 5,207,046 states |

`CHECK_DEADLOCK FALSE` is given where the number of calls is bounded (`Launch`, `Session`,
`ShmWorkDir`, `Campaign`): the system stops when the bound is used up and everybody
is idle or dead. `NyxExec` and `NyxFfi` are checked for deadlock.

### What the code does not keep

Five runs end in a violation. Each is recorded under "findings" with the line
it contradicts.

1. `shm_sweep_race`: the lock file exists before it is locked
   (`qemu_process.rs:569`). A sweep in between takes the lock, removes a directory
   that is not orphaned, and the creator panics. `PanicsExplained`, in the passing
   run, shows that this cannot hit a VM that has its files, and that
   `shutdown()` is never hit.
2. `shm_two_vms`: a second instance of one thread waits for the lock of the first
   one for ever (`qemu_process.rs:554`): the directory name is pid and tid.
3. `launch_dies_early`: `new()` never returns if QEMU exits before its socket
   exists (`qemu_process.rs:198`).
4. `campaign_stale`: a child started in a directory used before takes the old
   snapshot for the new one while the parent is removing it (`qemu_process.rs:442`).
5. `campaign_reuse`: a snapshot to be reused that lies in the work directory is
   removed before it is loaded (`params.rs:175`).

More is outside what the passing runs promise, and stated as hazards:

- Two pages that QEMU cannot dump, missed in turn, keep `exec()` in its loop:
  `old_address` is the last page only (`qemu_process.rs:355`). `ExecReturns` fails with
  the constants of `exec_liveness`. It takes a guest whose repetitions differ; one that
  runs the same way twice misses the same page again and is given up.
  `ExecReturnsUnlessPagesAlternate` says that nothing else keeps a call from returning.
- A missing page at address 0 is given up without having been asked for
  (`GiveUpAfterAttempt` fails with `0 \in Page`).
- With `MaxNew = 2` a sweep that opened the lock file of a directory's former
  generation removes the present one (`LiveDirIntact` fails).
- A size of the input buffer from `config.ron` reaches QEMU as it is (`config.rs:186`),
  while the setter, whose comment (`lib.rs:179`) asks for whole pages, panics on others.
  `SizesArePages` excepts it.
- An empty presnapshot is the folder of the default configuration by the time it is
  tested for being empty (`config.rs:83`, `params.rs:153`): in the model `PrePath` is
  never `None` for a StandAlone with a snapshot runner, and QEMU gets the folder.
- A Parent on a config with a snapshot to be reused loads that one and writes none
  (`params.rs:125`), whatever the comment on the roles says (`config.rs:235`); a Child in
  its work directory waits for ever. `Campaign` has reuse only of a snapshot in the work
  directory itself.

### Fairness

- `NyxExec`: weak fairness of the thread's steps and of QEMU's. The thread is
  sequential code with no waits but on QEMU; QEMU ends each execution because it
  enforces the timeout from the config part. QEMU need not stay alive nor die, and
  nobody is bound to call. Hprintf stops per call are bounded (`MaxHprintf`): a
  guest that prints for ever keeps `exec()` for ever. Which pages are missed is free;
  `ExecReturnsUnlessPagesAlternate` names the one way in which they can hold up a call.
- `ShmWorkDir`: weak fairness of each thread inside the library. `lock_exclusive()`
  is enabled when the lock is free; weak fairness is enough as no third party
  takes the lock again and again within the bounds.
- `Launch`, `Session`: the thread goes on inside `new()` and QEMU gets to its next
  stop; the boot has at most `MaxStops` stops. Nobody has to use an instance or shut
  it down. `QemuDie` has no fairness.
- `NyxFfi`: none; its properties are safety.
- `Campaign`: the parent's preparation and QEMU's snapshot, and each child's polling,
  go on; crashes are never forced.

## 4. The theorems

For every value of the constants, under the assumptions that the modules name
(`ExecAssumption`, `ShmAssumption`, `LaunchAssumption`, `SessionAssumption`,
`CampaignAssumption`, `ConfigAssumption`). All follow the same argument: an inductive
invariant `IInv` holds initially, is kept by every action (one step per action or group
of actions that leave the same variables alone), and implies the property.

`NyxExecProofs`. The properties alone are not inductive. That the buffer is
exclusive when the thread is outside a wait needs to be known *during* the wait: `Turn` says
where the single byte is at each point (on its way out, inside QEMU, on its way back,
lost with a dead QEMU). `Scanned` adds that QEMU never runs with a flagged config
part; `Attempted` ties `old_address` to the pages asked for; `Messages` says
that at most the last message is outstanding and is then the one in `misc`;
`Gone` describes the state after an IoError. From it:

- `TypeCorrect`, `BufferIsExclusive`, `OptionsInForce`, `HprintfIsOrdered`, `ErrorsAreFinal`;
- `GivesUpAfterAttempt`, if `0 \notin Page`;
- `PagesAreAskedOnce`, with the invariant `Requests`: what was asked for in this call
  is dumped (`Landed`), or is the request under way (`Pending`), or cannot be dumped, at
  every point at which the missing page is looked at (`Judged`);
- `RunsStayInStep`, if QEMU does not stop for an hprintf inside a dump run
  (`HprintfInDump = FALSE`), with `DumpStage` as a further invariant;
- `ExecImplementsService`: initial states map to initial states, each step to a
  step of `ExecService` or a stutter.

`ShmWorkDirProofs`, for any threads, work directories and worker ids. `TypeCorrect`
holds for any number of calls. The others come in two forms:

- `FreshSweepsAreSafe`, `FreshPanics`, `FreshSweepsImplementStore`: for any number of calls
  of `new()`, one VM per thread at a time (`NewAlone`), as long as no sweep works under a
  lock file that was replaced after it was opened (`SweepsFresh`). The code does not see
  to that: as said above, `LiveDirIntact` fails with `MaxNew = 2`. The theorems say that
  nothing else goes wrong.
- `LiveDirIsSafe`, `PanicsAreExplained`, `ShmImplementsStore`: without that hypothesis, if
  each thread calls `new()` at most once (`MaxNew = 1`, no directory name is used twice).
  `SweepsAreFresh` derives it: there is at most one lock file per name, ever (`Once`).

`Locks` says that the lock file in a directory is the newest of its name, `Stages`
what is held at each program point: a VM holds the newest lock of its name, and under
`SweepsFresh` so does who empties a directory, so they are the same (`WorksOnNoVM`).
`DataThere` and `LinkThere` follow; `Apart` carries the caller's part. For the refinement
each action maps to one step of `SharedStore` (`StepStore`); the hard ones are the
removal of an entry or of a directory, which must not be a running VM's
(`RemovesNoVM`), and the steps on a link, whose name must not be another's (`OthersRun`,
`NameFree`). `Copying` says what is under the name at each step of saving.

`SessionProofs`. `IInv` has four parts, each with a lemma that says it is kept. `Turn` is
where the byte is and what QEMU does at each point of `new()`; the hard points are
`hello` and `recv`, where QEMU may be on its way, have answered, or have died before
or after that. `Protection` says that QEMU has seen the write protection or that
`changed` makes it look at the next resumption. `Descriptors` counts: what is closed
or in use was handed over before. `Buffers` keeps sizes below mappings. `Step`
lists what happens to the variables of `Launch`, so that the lemmas need not look at
those of `Session`. From it and from one further invariant each:

- `LeavesNoQemu`, `ProtectedThroughout`, `ClosedOnlyIfTwice`, `BuffersAlwaysMapped`,
  `PanicsAreExplained`;
- `InputsArrive` (`Delivered`: there is an input only while there is an instance, and
  the mapping does not change then), `TextsAreReadable` (`TextFirst`: behind the end of
  a text is all that is not text), `BootHprintfIsOrdered` (`Posted`: at most the
  message of the present stop is outstanding), `OkIsExecInit` (`Bootable`), `TypeCorrect`
  (`Bounded`, `UserTypes`).

`OkIsExecInit` says that what `new()` hands over satisfies the initial predicate of
`NyxExec`, instantiated as `Launch` does: with the timeout as the only option and
no page missing, and a QEMU that has died since its last stop taken as parked. That
is the state from which the theorems of `NyxExecProofs` argue; about missing pages
`Launch` and `Session` say nothing.

`CampaignProofs`, for any children, campaigns and removals. `Stages` says what the
numbers of the entries can be at each point of the parent's way: when it clears, what is
older is still to be removed; when it prepares, the first `made` entries are new and
there is no snapshot; when it boots, all entries are its own and the snapshot is
as long as `made`. `Removals` says that a removal is alone and that a directory prepared
to the end has every folder until one of them is removed. From these two:

- `TypeCorrect`, `ParentBootsOnOwnFiles`, `RefusalIsExplained`, and
  `OwnSnapshotIsNeverReused`: the finding of `campaign_reuse` is no accident, a parent
  that is to reuse a snapshot of its own work directory *never* finds one;
- `SnapshotIsComplete` and `CampaignImplementsStore`, if no child is started among
  files of an old campaign (`~EarlyChild`, the caller's part; `campaign_stale` shows
  that the first one fails otherwise). The further invariant `Sightings` says that what a
  child has seen so far is still there and that the state file, once there, comes last:
  nobody removes anything while a child is there.

`ConfigProofs`, for both interfaces, any files and any order of the setters; of the
sizes in `config.ron` nothing is assumed. The invariant says of the config object
(`ConfigInv`) what loading and the setters leave of it, and of the command lines built so
far (`UseInv`) that each comes from a config whose sizes have passed a setter or stand in
`config.ron` and whose filters are those of the load. From it:

- `TypeCorrect`, `SizesAlwaysPages`;
- `FiltersAreNumbered`, by lemmas about one round of the loop over the four filters
  (`RoundNumbers`) and about all of them (`LoopNumbers`).

Only model-checked: liveness (`ExecReturnsUnlessPagesAlternate`, `CallsReturn`, `SweepCollects`,
`LaunchReturns`, `ChildrenStart`), since fairness and ENABLED are beyond the prover.
Every other property of a passing run has a theorem.

## 5. What is not modelled

- Contents of the input, bitmap and IJON buffers: byte copies. The bytes that an input
  longer than the mapping puts behind it are not modelled; `InputDelivered` excepts it.
- Text: hprintf and crash messages as strings (only their lengths and the places of
  bytes that are not UTF-8), file names, the target hash, the dictionary.
- What QEMU does with a snapshot of other sizes: a config whose sizes are changed
  between a Parent and a Child that loads its snapshot.
- Seeds, file by file.
- In `NyxConfig`, what becomes of a work directory when `new()` panics, and a second Parent
  or StandAlone with worker id 0, which the assertion at `params.rs:174` does not refuse and
  which clears the directory of the first; `Campaign` and `ShmWorkDir` leave that to
  the caller.
- A clearing of a work directory that fails half-way (`qemu_process.rs:549` ignores it).
- `mem_barrier.rs`: the model's steps are ordered, as the barriers make them.
- `nyx_get_aux_string()`, the getters of the hash and the debug printers.
- `exitreason.rs`: used by nothing else in the repository.
- File system errors other than a missing file, and failing `mmap()` and `spawn()`.
- `remove_work_dir()` next to a running instance: it ignores every error, so that
  nothing it returns says anything about the directory.
- Two threads that use one `NyxProcess` at a time: the interface takes `&mut self`.

## 6. Plan

Done, in this order: fuzzing loop, its abstract specification and proofs; shared
directories and proofs; launch; campaign; configuration; the layout of the aux
buffer, sessions with inputs and messages and their proofs; the C interface; proofs
about configurations and about campaigns; the abstract specifications of the work
directory and of the shared directories, and that they are implemented.

Next:

1. A measure for one `exec()`: how many runs it takes at most, given the pages and the
   hprintf stops, while at most one page can never be dumped.
2. Several instances of one process at a time: descriptors shared between them and
   zombies of failed launches.
