# TLA+ models of SiliFuzz's tracers, register checksums and hash-test runner

This directory holds TLA+ models of the parts of this repository (`src/`)
that have control flow worth model checking, the TLC configurations that
check them, and `PROJECT.json`. `PROJECT.json` maps every definition to the
source lines it models, lists the runs and their mutants, and records the
findings and the hazards the properties are aimed at.

## 1. Inventory

### Components

| Component | Source | State it keeps | Operations |
|---|---|---|---|
| Emulation tracer backend | `src/tracing/unicorn_tracer.h` | `uc_` (engine handle), `code_start_address_`, `code_end_address_`, `num_instructions_`, `max_instructions_`, `should_be_stopped_`, three `std::function` callbacks | `InitSnippet`, `Set*Callback`, `Run`, `Stop`, `HookCode` (engine callback), `PartialChecksumOfMutableMemory`, `InstructionIsInRange`, register/memory accessors, `Destroy` |
| Hardware tracer backend | `src/tracing/native_tracer.h` (the `.cc` is not in `src/`) | `state_` (kInit → kReady → kPreTracing → kTracing → kFinished), `snapshot_`, `gregs_cache_`, `pid_`, `stop_requested_`, `insn_limit_reached_` | `InitSnippet`, `Run`, `Stop`, `ShouldStopTracing`/`NextContinuationMode` (per-instruction decision), register/memory accessors, `IterateMappedMemory` |
| Tracer contract | spec 4.1 and 7 (`tracing/tracer.h` is not in `src/`) | - | the operation set both backends implement, and the error kinds Run reports |
| Register checksum engine | `src/util/reg_group_io.cc` | none (pure) | `GetRegisterGroupsChecksum<X86_64>`, `GetRegisterGroupsChecksum<AArch64>` |
| Memory checksum sampler | `src/tracing/unicorn_tracer.h:203-234` | none (reads engine memory) | first 8 pages of each writable region folded into one CRC |
| Fuzzing configuration | `src/common/proxy_config.h` | process-wide constants | `DEFAULT_FUZZING_CONFIG`, `LIMITED_MEMORY_FUZZING_CONFIG` (ranges must not overlap; code size a power of two, data sizes page multiples) |
| Hash-test runner | `src/fuzzer/hashtest/hashtest_runner.cc` | the corpus mapping, `end_states`, `ResultReporter::hits` | `SynthesizeTest`/`SynthesizeCorpus`, `ComputeEndStates`, `ReconcileEndState(s)` (2-of-3 vote), `RunTests`/`RunBatch`/`RunTest` (batched sweep, hit reporting), `~MemoryMapping` |
| CPU affinity cache | `src/util/cpu_id.cc` | global `std::atomic<int> cpu_affinity_plus_one` | `SetCPUAffinity`, `GetCPUAffinityNoSyscall`, `GetCPUIdUsingSyscall` |
| Platform table | `src/util/platform.cc` | constant name table | `PlatformArchitecture` (switch, LOG_FATAL on meta/reserved IDs) |
| CPU feature enum | `src/util/cpu_features.h` | enum + name table | none (declaration of `HasX86CPUFeature`) |
| Test snapshot table | `src/common/snapshot_test_config.cc` | generated constant table | `GetTestSnapshotConfig` (linear search) |
| Tests | `src/util/cpu_id_test.cc`, `src/orchestrator/corpus_util_test.cc` | - | unit tests (the corpus code they test is not in `src/`) |

### How they interact

A caller builds a tracer, calls `InitSnippet` (which turns raw instructions
into a Snapshot and maps its memory), optionally registers callbacks, then
calls `Run(max_insn_executed)` one or more times and reads registers,
memory and `PartialChecksumOfMutableMemory()`. Inside `Run` the Unicorn
backend hands control to the emulator (`uc_emu_start`). The emulator calls
back into the tracer on every instruction (`HookCode`), and `HookCode` calls
the user's before-instruction callback. Any callback may call `Stop()`,
which asks the emulator to halt (`uc_emu_stop`). The emulator may not
honour that request: the code says so at `unicorn_tracer.h:296`. A timer
thread inside Unicorn stops the run after 1 s. The hardware backend drives a
ptrace'd process instead and decides at every instruction boundary whether
to keep tracing (`NextContinuationMode`). The register checksum engine is a
pure function over a buffer filled by a backend's `GetRegisters`. The
hash-test runner does not use the tracers: it runs synthesized code natively
three times to compute end states, reconciles them by majority, then sweeps
tests × inputs in batches and reports mismatches.

### What is hard

* **Callbacks and an unreliable engine.** Stop requests are asynchronous
  and may be dropped. Cap, user stop and timer race inside one run. The
  order of Run's five checks decides which failure kind the caller sees.
* **Boundaries.** "Exactly at the cap is not an error." A cap of 0, a batch
  size that does not divide the test count, a batch size of 0, a region
  shorter than 8 pages, zero tests.
* **State across runs.** `Run` may be called again on the same tracer, and
  flags from the previous run must not leak into it.
* **Shared global state.** The CPU affinity cache is one process-wide
  variable written after a syscall.
* **Index arithmetic.** End states are a flat `tests × inputs` array that
  `RunTests` slices per batch. Hits must name the global test index.

### Properties that make each component correct

* Unicorn tracer: OK only for a snippet that ended within the cap with a
  legal end state. Exactly-at-cap is accepted. Clients see a clean cutoff of
  callbacks. A bounded number of instructions run after the cap even when
  stop requests are lost. Every run returns without relying on the timer.
  Every failure kind is justified (refinement of the tracer contract). A
  callback's Stop() ends the run promptly (spec 8).
* Native tracer: the state machine only moves forward. Tracing stops at
  kFinished, on Stop() or at the cap. Cached registers are never used after
  a resume.
* Register checksums: the result's group set equals the input's group set
  (width included), so checksums over different groups are never equal as
  records. Only the active bytes of variable-width registers are folded.
  Groups are folded in the documented order.
* Hash-test runner: the reconciled end state is the value at least two of
  the three runs produced, else "could not be computed", and the fail count
  counts exactly those. Each (test, input) pair with a computed end state is
  run `num_repeat` times against its own end state. A hit names the global
  test index. `RunTests` terminates.
* CPU affinity cache: for a single thread, the cache agrees with the CPU
  `getcpu` reports; a failed syscall leaves the cache unchanged.
* Fuzzing configuration: every shipped configuration can be mapped by
  `InitSnippet` without a fatal error.

## 2. Plan

Modules, in the order they are (to be) written; the most important
behaviour first.

1. `UnicornTracer` + `MC_UnicornTracer` (**done**): the emulation backend.
2. `TracerContract` (**done**): the abstract contract. `MC_UnicornTracer`
   shows `UnicornTracer` implements it through `INSTANCE ... WITH`.
3. `HashTestRunner` + `MC_HashTestRunner` (**done**): `RunTests`/`RunBatch`/`RunTest`
   together with `ComputeEndStates` and `ReconcileEndStates`.
4. `RegisterChecksum` + `MC_RegisterChecksum` (**done**): the two
   `GetRegisterGroupsChecksum` specialisations.
5. `CpuAffinity` + `MC_CpuAffinity` (**done**): threads calling
   `SetCPUAffinity` and `GetCPUAffinityNoSyscall` against the global cache.
6. `NativeTracer` + `MC_NativeTracer` (**done**, partly from the spec,
   since the `.cc` is not in `src/`): the five-state machine, the
   continuation decision and the register cache. The spec gives no Run
   statuses for this backend, so it is not checked against `TracerContract`.
7. `MemorySampler` + `MC_MemorySampler` (**done**):
   `PartialChecksumOfMutableMemory` over small region maps.
8. `FuzzingConfig` (**done**): the three configurations as constants, used
   by `UnicornTracer`'s `InitSnippet`, whose memory setup aborts the process
   on a range Unicorn refuses.
9. `HashTestCorpus` + `MC_HashTestCorpus` (**done**): `SynthesizeCorpus` and
   `~MemoryMapping`: the unchecked `mmap`, zero tests, and the teardown
   CHECK.

## 3. Modules and runs

### UnicornTracer (`src/tracing/unicorn_tracer.h`)

State: `phase` (constructed/ready/running/finished/destroyed), the snippet,
the registered callbacks, the tracer's fields `num_instructions_`,
`max_instructions_` and `should_be_stopped_`, and the engine's observable
state: instructions executed (`pos`), whether the hook fired for the current
instruction, halted, error, a pending stop request, dropped requests,
timer fired. History variables record the instruction count at the first
user and cap `Stop()`.

The snippet is abstracted to its behaviour: it ends after `len`
instructions, it faults on instruction `len+1`, or it loops. Its end state
is legal or not. The emulator acts at each instruction boundary. It
reaches the end address (`ReachEnd`), honours a pending stop (`HonorStop`)
or drops it (`DropStop`, at most `MaxDrops` per run). Otherwise it calls
`HookCode` and then executes the instruction (`Execute`), which may fault.
`Timeout` is the 1 s timer. `HookCode` is three actions, one per branch:
`HookAtLimit`, `HookCallback` and `HookSuppressed`. `Run` is two actions.
The first is everything up to `uc_emu_start`; a Stop() from the
before-execution callback is lost there, because `uc_emu_start` begins with
no stop request. The second, `RunFinish`, is the after-execution callback
followed by `RunStatus`, the checks in code order. The small operators
`MaxInstructions`, `StopReset`, `AtLimit`, `CapStop`, `CallbacksSuppressed`
and `RunStatus` each stand for one line or one check of the code. The
mutants replace exactly one of them.

The engine handle is `uc_` (`"nullptr"` or `"open"`). The history
variables `opened` and `closed` count `InitUnicorn` and `uc_close` calls.
`InitSnippet` opens the engine. `Destroy()` and the destructor are the same
step, `LifeEnd`: the destructor calls `Destroy()` once more, and its phase
`gone` is the end of the tracer's life. `DestroyEngine` is the body of
`Destroy()`: close the engine if the handle is not null, then null it.
`EngineClosedOnce` says no engine is closed twice, whether through repeated
`Destroy()` calls or through `Destroy()` followed by the destructor. It also
says a tracer that is gone has closed its engine. Its mutant leaves `uc_`
set after `uc_close`. The refinement maps `gone` to the contract's
`destroyed`.

`InitSnippet(s, cfg)` takes one of the three fuzzing configurations
(`FuzzingConfigs`) and keeps it in `fuzzing_config`. Its memory setup is
`SetupSnippetMemory`: `MapMemory` for each range in turn. `MapMemory`
calls `uc_mem_map`, which refuses a range that is not 4 KiB aligned, is
empty, or overlaps an earlier mapping. It then LOG_FATALs, which the model
records as the phase `aborted`. `ConfigWellFormed` says the given
configuration satisfies the constraints the struct comments state: the code
range is aligned and a power of two, the data ranges are aligned non-zero
page multiples, and no two ranges overlap.

| Run | cfg | Checks | Result |
|---|---|---|---|
| `unicorn_run` | `MC_UnicornTracer.cfg` | TypeOK, ConfigWellFormed, EngineClosedOnce, VerdictSound, ExactCapAccepted, CleanCutoff, CapStopBounded, RunTerminates, CallbacksComplete, ContractSpec | pass (116,592 states) |
| `unicorn_user_stop` | `MC_UnicornTracer_userstop.cfg` | UserStopBounded | violation (finding) |

Bounds: snippets of length 0..3 against caps 0..2, so there are snippets
exactly at, below and above every cap. A cap of 0 is included. There are
faulting snippets and a self-loop (kRunaway in the test table). One
dropped stop per run (`MaxDrops = 1`) is enough to show every
lost-request path. `MaxRuns = 2` exercises re-running a tracer.

Fairness: weak fairness on the emulator's steps and on `RunFinish`, because
`uc_emu_start` is a blocking call on the tracer's thread that keeps
executing. There is none on the timer, the dropped requests or the caller.
`RunTerminates` therefore shows that the cap alone ends a runaway snippet.

**Finding** (`unicorn_user_stop`): `HookCode` repeats `Stop()` only past
the cap. A `Stop()` from a before-instruction callback is issued once. If
the engine ignores it, which is the case the comment at line 296
describes, the snippet keeps running to its end or to the cap. Spec 4.3
and 8 say a callback's stop is honoured like the cap's.

### FuzzingConfig (`src/common/proxy_config.h`)

This module has no variables. It holds the three configurations
`DEFAULT_FUZZING_CONFIG<X86_64>`, `DEFAULT_FUZZING_CONFIG<AArch64>` and
`LIMITED_MEMORY_FUZZING_CONFIG<AArch64>` as records of `MemoryRange`s, with
every address kept exactly. TLC's integers are 32 bits wide, so a
`uint64_t` is split into a pair: its 64 KiB units and the bytes below them.
`Plus` and `LessEq` are exact on these pairs. `CodeRangeOk` and
`DataRangeOk` are the constraints the struct comments state. `Ranges`
lists a configuration's ranges in declaration order. The module is checked
through `unicorn_run`, which lets `InitSnippet` take each of the three
configurations. Each mutant of a configuration, an x86-64 code range of
1.5 GB or two AArch64 data ranges at the same address, is caught there.

### HashTestRunner (`src/fuzzer/hashtest/hashtest_runner.cc`)

State: the end-state arrays the three `ComputeEndStates` calls produced
(`passes`), the reconciled `end_states` and `fail_count`, the loop indices
`g` (RunTests), `r`, `i` and `t` (RunBatch), and `hits`. End states are one
flat array indexed `test * inputs + input`, as in the code, and a batch reads
it at `g * inputs + t * inputs + i` (the subspan offset plus the local
index). A hash is abstracted to the pair it was computed for: `<<t, i>>`
when right, `<<t, i, v>>` for one of `NumBadValues` wrong values when a
silent data corruption (SDC) hit that computation. Since hashes of different
pairs never coincide, comparing a test with another pair's end state always
shows. The hardware may corrupt at most `MaxSDC` computations in total.
History variables record which pairs were corrupted (`sdc_cells`, `run_sdc`),
how often each pair was run (`ran`), and the previous test run.

`ComputePass` is one whole `ComputeEndStates` call: it is a sequential loop
with no observable intermediate state. `ReconcileEndStates` is one step over
all cells. `RunBatchStep` is one iteration of RunBatch's innermost loop:
`SkipPair` (the `continue`), or `RunTest` and a possible `ReportHit`.
`Advance` then moves the `t`/`i`/`r` loop heads and RunTests'
`g += batch_size`. The loop bounds are `BatchLen` and `MoreRepeats`. The caller that
makes the three calls and then calls `RunTests` is not in `src/`; its order
is `Init` and the phase variable `pc`, and `test_offset` is 0.

| Run | cfg | Checks | Result |
|---|---|---|---|
| `hashtest_run` | `MC_HashTestRunner.cfg` | TypeOK, ReconcileIsMajority, EveryPairRun, HitsNameCorruptedPair, NoMissedSDC | pass (11,426 states) |
| `hashtest_order` | `MC_HashTestRunner_order.cfg` | NoTestTwiceInARow | violation (finding) |

`ReconcileIsMajority` compares the vote with an independent reference: the
value at least two of the three runs agree on. `EveryPairRun` says that at
the end every pair with a computed end state ran exactly `num_repeat` times
and the others never ran. `HitsNameCorruptedPair` says every hit names a
pair that was really corrupted: the test was compared with its own end
state. `NoMissedSDC` says every corrupted run of a pair whose end state is
right was reported under that pair's global index.

Bounds: 3 tests, 2 inputs, batch size 2, so there is a full batch and a
shorter last batch, and a non-zero subspan offset. Two repeats. Two
corruptions with two distinct wrong values are enough to reach every vote
outcome: all three agree, two agree on the right value, two agree on a wrong
value (the vote then picks it), and all three differ. A corrupted test run
can also meet a right or a wrong end state.

No fairness is assumed and no liveness property is checked: the loops step
`k` and `g` by construction, so a claim that `RunTests` returns would hold by
the shape of the model. The model assumes a batch size of at least 1. A batch size of 0 would loop forever, but no statement
allows it, and `RunConfig` is not in `src/` (see the hazards).
`ReportHit` keeps the hit record of `ResultReporter::ReportHit`. Its seeds
are abstracted to the indices, and its printing is left out.

**Finding** (`hashtest_order`): the comment at lines 245-246 says that a
batch size above 1 keeps the same test from running several times in a row.
The skip at line 250 (an end state that could not be computed) and the
shorter last batch (line 268) both let one test run back to back.

### RegisterChecksum (`src/util/reg_group_io.cc`)

The two specialisations are operators. A checksum is modelled as the
sequence of `crc32c` calls it makes, `Fold(b, field, length)`. Each item
records the field, the length and what those bytes hold: the field's
active bytes, plus its tail when the length runs past them. A length short
of the active bytes gives a "partial" item that cannot tell contents apart.
CRC32C collisions are not modelled. The active size of an SVE field at
width `w` is `w / 8` bytes for FFR, `w / 8 * 16` for the p registers and
`w * 32` for the z registers, packed. The buffer layout and
`sve_constants.h` are not in `src/`; the constants get their architectural
values in the cfg. To compare checksums, two runs each fill a buffer
(`GetRegisters`, per spec 4.1: registers of absent groups are zero, the bytes
past the active width are unspecified) and checksum it (`Checksum`).

| Run | cfg | Checks | Result |
|---|---|---|---|
| `regchk_run` | `MC_RegisterChecksum.cfg` | TypeOK, SameChecksumSameState | pass (22,570 states) |
| `regchk_active` | `MC_RegisterChecksum_active.cfg` | ActiveBytesOnly | violation (finding) |

`SameChecksumSameState`: equal checksums imply equal groups, equal width and
equal valid registers, so no register difference hides behind a checksum
match. Bounds: both architectures, every x86 group set, SVE absent, at width
16 (bytes past the active width exist) and at 256 (none), and two register
contents.

**Finding.** `regchk_active`: FFR is folded at `sizeof(buffer.ffr)`,
the maximum-width size (line 76). Below the maximum width, bytes past the
active ones enter the checksum, against spec 4.4. A second mismatch, ymm
folded whenever AVX is set (line 46) where the comment says only without
AVX512F, is listed as a hazard; no run checks it.

### CpuAffinity (`src/util/cpu_id.cc`)

State: the global `cpu_affinity_plus_one`, the kernel's affinity of each
thread, and per thread whether it is between the syscall and the store. A
call with `cpu_id >= kMaxCpus` fails the CHECK and aborts the process.
`sched_setaffinity` fails for a CPU that is not online, and then
`SetCPUAffinity` returns errno before the store. The store is a separate
step, so other threads can act between the syscall and the store.

| Run | cfg | Checks | Result |
|---|---|---|---|
| `cpu_threads` | `MC_CpuAffinity.cfg` (2 threads, symmetric) | TypeOK, CacheNamesBoundThread | pass (7,080 states) |
| `cpu_single` | `MC_CpuAffinity_single.cfg` (1 thread) | NoSyscallAgreesWithGetcpu | pass (345 states) |

`CacheNamesBoundThread` is the last-writer-wins guarantee of spec 9: when no
call is between its syscall and its store, the cache names a CPU that some
thread is bound to now. `GetCPUIdUsingSyscall` is `sys_getcpu`: it returns
a CPU the thread's affinity allows, or `kUnknownCPUId` when the syscall
fails. `NoSyscallAgreesWithGetcpu` is the promise of lines 59-60 and 65-68:
for a single-threaded caller, the cache is an answer to the CPU id. Whenever
getcpu reports a CPU, `GetCPUAffinityNoSyscall` returns -1 or that same
CPU, also after calls that failed in the kernel. It does not hold with two
threads, and the code says so, so it is checked with one. Bounds: `kMaxCpus = 3` with CPUs 0 and 2 online, and arguments 0..3.
Together these reach success, a kernel failure, a CHECK failure, and the
largest stored value. A thread makes up to 2 calls (5 with one thread).

### MemorySampler (`src/tracing/unicorn_tracer.h:203-234`)

State: the region list `uc_mem_regions` returns (begin, inclusive end,
perms), the contents of each page, the last checksum, and the stores made.
`PartialChecksumOfMutableMemory` is one action. It walks the regions in
order, skips read-only ones, computes `end_offset = min(8 * 4096, end -
begin + 1)`, checks `end_offset % 4096 == 0`, and folds the pages below
`end_offset`. A failed CHECK yields the distinct value `CheckFailed`. The
CRC is abstracted to the list of `(address, content)` pages folded.
`Store` is the snippet writing a page of a writable region during a run.

| Run | cfg | Checks | Result |
|---|---|---|---|
| `memory_sample` | `MC_MemorySampler.cfg` | TypeOK, SampleIsFirstPages | pass (6,963 states) |

`SampleIsFirstPages` compares every checksum with a reference. The
reference is the set of the first eight pages of every writable region,
listed by rank (k-th smallest address) with their current contents. The
code builds its list by nested loops instead. Bounds: one or two regions of
1, 8 or 9 pages, below, at and above the cut-off, and every mix of writable
and read-only. Up to two stores, so that sampled and unsampled pages
change.

### HashTestCorpus (`src/fuzzer/hashtest/hashtest_runner.cc:52-56, 82-144`)

State: a program counter, why the process died (if it did), `num_tests`,
mmap's result `ptr`, `mapping_size`, the running `offset`, and the tests
placed so far (`code` address and padded size). The actions follow
`SynthesizeCorpus` in order:

* `Mmap` maps `RoundUpToPageAlignment(1024 * num_tests)` bytes. A zero
  length always fails. With `MmapMayFail`, a non-empty mapping may fail
  too. The result is not checked.
* `Synthesize` is one loop iteration. A body is abstracted to its size
  before `SynthesizeTest` pads it to a multiple of 16 plus 16 trap bytes.
  `CHECK_LE(test_size, 1024)` comes first. Then the `memcpy`, which faults
  through `MAP_FAILED`. Then the offset advances. The loop bound is
  `MoreTests` and the size check is `TestFits`. The two mutants replace
  exactly these.
* `Return` is the ignored `mprotect` and the return of the Corpus.
* `DestroyMapping` is `~MemoryMapping`. It skips only a null pointer, then
  `CHECK_EQ(munmap(ptr_, allocated_size_), 0)`. `allocated_size_` is
  taken to be `mapping_size`, the constructor's second argument.

| Run | cfg | Checks | Result |
|---|---|---|---|
| `corpus_run` | `MC_HashTestCorpus.cfg` | TypeOK, TestsInMapping | pass (496 states) |
| `corpus_zero` | `MC_HashTestCorpus_zero.cfg` | TeardownSucceeds | violation |

`TestsInMapping`: every test lies inside the mapping, starts 16-byte
aligned, and follows the previous test directly. Bounds: 0 to 4 tests.
Bodies pad to 32, 48 and 1024 bytes, plus one body that pads to 1040,
over the limit. Four tests are needed because three 1040-byte tests still
fit one page; four of them overrun it, so without the CHECK the property
fails.

`corpus_zero`: with `num_tests = 0`, `mmap` of length 0 returns
`MAP_FAILED`, and the Corpus is returned holding it. Its destructor then
calls `munmap(MAP_FAILED, 0)`, the call fails, and the CHECK aborts. This
is a code bug: the `mmap` is at line 107 and its TODO at line 109.

### NativeTracer (`src/tracing/native_tracer.h`, spec 4.2, 5)

The header has the fields, the five `TracerState`s, `Stop()` and
`ShouldStopTracing`/`NextContinuationMode`. `InitSnippet` and `Run`'s loop
are in `native_tracer.cc`, which is not under `src/`. Those parts follow
spec 4.2 and 5 and are marked `spec_modelled` in the map.

The tracee starts in harness code (position 0) and then enters the
snippet. A snippet of length n either reaches its end address (position
n + 1) or loops. At each boundary the tracee is stopped, and callbacks may
read registers (`GetGRegStruct`, which fills the cache) or call `Stop`.
`Boundary` then runs the hook:

* reaching the snippet moves the tracer to `kTracing`;
* reaching the end address moves it to `kFinished`;
* in `kTracing`, `insn_limit_reached_` is set once the count reaches the
  cap.

`NextContinuationMode` then either ends tracing or resumes the tracee for
one instruction. Resuming invalidates the cache (`ResumeCache`); that
invalidation is in `native_tracer.cc`, so `ResumeCache` is modelled from
spec 4.2. Only the last lines of `NextContinuationMode` (85-88) and the state
names are in the header, which is what `Boundary` maps to. `Return` is `Run`
returning.

| Run | cfg | Checks | Result |
|---|---|---|---|
| `native_run` | `MC_NativeTracer.cfg` | TypeOK, RunReturns | pass (506 states) |

* TypeOK includes `count <= cap`.
* `RunReturns`: every `Run` returns, under weak fairness of the tracer's
  own boundary step and return. The tracer's loop drives the tracee, so it
  always takes the next step. Callers get no fairness.

Bounds: two snippets, one that ends after two instructions and one that
loops over two. Caps 0 to 3 cover below, at and above the snippet length.

### TracerContract (spec 4.1, 7)

This module is the abstract tracer. It has `InitSnippet`, `Run(c)`,
`Interrupt` (a Stop() or the timer), `Return` and `Destroy`. `Return`
picks a status from `Justified(snippet, cap, interrupted)`. OK requires an
end within the cap and a legal end state. too_many requires the snippet to
run past the cap. emu_error requires a fault. timed_out and not_end
require an interruption. illegal_end requires an illegal end state. An
uninterrupted run of a snippet that ends legally within the cap must be OK.
`MC_UnicornTracer!ContractSpec` maps `max_instructions_` to the cap,
"a callback called Stop() or the timer fired" to `interrupted`, and the
Run status to the result.

## 4. Not modelled, and why

* Register/memory accessors, `IterateMappedMemory`, `ReadMemory`: pure
  I/O through the engine or ptrace with no control flow.
* `InitSnippet`'s failure path: `InstructionsToSnapshot` returns an error
  before any field changes, so in the model it is a stutter. Calling `Run`
  after a failed `InitSnippet` dereferences a null engine. That is a
  caller contract, not modelled.
* `NativeTracer`'s `SetRegisters`, `SetInstructionPointer`, `ReadMemory`
  and `PartialChecksumOfMutableMemory`: their bodies are in the `.cc`,
  which is not under `src/`.
* The instruction filter of the fuzzing configurations
  (`static_insn_filter.h` is not in `src/`), and the body of
  `FuzzConfigToMappedMemoryMap`, which is only declared in `src/`. The
  model takes it to be the configuration's ranges in declaration order.
* `SynthesizeLoopBody` and `DumpTest`: they produce and print instruction
  bytes. Only the size of a body matters to the corpus layout.
* `platform.cc`, `cpu_features.h`, `snapshot_test_config.cc`: constant
  tables and a switch with no state.
* The tests (`cpu_id_test.cc`, `corpus_util_test.cc`). The corpus code
  they exercise is not in `src/`.
* CRC32C and CityHash: the models keep the sequence of bytes folded, not
  the hash value.
* `InstructionIsInRange`: a single comparison of two addresses. Its only
  hazard would be `address + size` wrapping past 2^64. That cannot happen,
  because every configuration maps code far below 2^63.
* `RunHashTest`'s vector-width dispatch and `RandomizeEntropyBuffer`: hash
  values are abstracted to the pair they were computed for, so the width
  and the input bytes do not change any modelled state.

With these exclusions, every operation in `src/` that changes state is an
action of some module. The components left `partly` modelled are partial
only because their remaining code is I/O, lies outside `src/`, or is the
pure helper listed above.
