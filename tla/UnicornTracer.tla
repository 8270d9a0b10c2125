--------------------------- MODULE UnicornTracer ---------------------------
(***************************************************************************)
(* UnicornTracer<Arch> (src/tracing/unicorn_tracer.h): runs a code snippet *)
(* inside the Unicorn emulator under an instruction cap and a wall-clock   *)
(* timeout.  The tracer installs HookCode on every instruction; HookCode   *)
(* counts instructions, invokes the user's before-instruction callback,    *)
(* and calls Stop() once the cap is reached.  Unicorn (QEMU) may ignore an *)
(* uc_emu_stop() request, so HookCode keeps calling Stop() on every later  *)
(* hook.                                                                   *)
(*                                                                         *)
(* The emulator is modelled by what the tracer can observe of it: at each  *)
(* instruction boundary it either reaches the snippet's end address (the   *)
(* `until` argument of uc_emu_start), acts on a pending stop request       *)
(* (honours it, or drops it up to MaxDrops times per run), or invokes the  *)
(* code hook and then executes the instruction, which may fault.  The      *)
(* 1-second timer may fire at any point of a run.                          *)
(*                                                                         *)
(* InitSnippet is given a FuzzingConfig and maps its ranges into Unicorn   *)
(* with MapMemory, which dies when uc_mem_map refuses a range.             *)
(***************************************************************************)
EXTENDS Integers, Sequences, FuzzingConfig

CONSTANTS
  Snippets,       \* behaviours of the snippets InitSnippet may be given:
                  \*   [kind |-> "ends", len |-> n, legal |-> b]: reaches the
                  \*     end address after n instructions;
                  \*   [kind |-> "faults", len |-> n, ...]: instruction n+1 faults;
                  \*   [kind |-> "loops", ...]: never reaches the end address.
                  \*   legal: whether ValidateArchEndState() accepts the end state.
  MaxInsnValues,  \* values a caller passes as Run(max_insn_executed)
  MaxDrops,       \* uc_emu_stop() requests the engine may ignore in one run
  MaxRuns,        \* Run() calls per tracer (re-running is allowed by the code)
  FuzzingConfigs  \* the fuzzing_config arguments InitSnippet may be given

ASSUME MaxInsnValues \subseteq Nat /\ MaxInsnValues # {}
ASSUME MaxDrops \in Nat /\ MaxRuns \in Nat \ {0}

CallbackKinds == {"before_execution", "before_instruction", "after_execution"}
Statuses == {"none", "ok", "emu_error", "too_many", "timed_out", "not_end",
             "illegal_end"}
NoSnippet == [kind |-> "none", len |-> 0, legal |-> TRUE]
NoConfig == [arch |-> "none"]

\* HookCode never runs more often than this in a run of a correct tracer; the
\* bound only keeps a broken tracer's run finite so that TLC can report it.
HookBound == LET m == CHOOSE x \in MaxInsnValues : \A y \in MaxInsnValues : y <= x
             IN m + MaxDrops + 2

VARIABLES
  phase,              \* "constructed" | "ready" | "running" | "finished" | "destroyed"
                      \* | "aborted" (LOG_FATAL) | "gone" (~UnicornTracer ran)
  snippet,            \* the snippet placed by InitSnippet
  registered,         \* callbacks whose std::function is set
  num_instructions,   \* num_instructions_
  max_instructions,   \* max_instructions_
  should_be_stopped,  \* should_be_stopped_
  pos,                \* instructions the engine has executed in this run
  hooked,             \* the hook has fired for the instruction at pos
  halted,             \* the engine has stopped; uc_emu_start() returns
  emu_err,            \* uc_emu_start() returns an error (the snippet faulted)
  stop_pending,       \* a uc_emu_stop() request the engine has not acted on
  drops,              \* stop requests the engine ignored in this run
  timed_out,          \* uc_query(UC_QUERY_TIMEOUT) reports the timer fired
  bi_count,           \* before-instruction callbacks invoked in this run
  user_stop_at,       \* num_instructions_ when a user callback called Stop(), or -1
  cap_stop_at,        \* num_instructions_ when HookCode first called Stop(), or -1
  status,             \* the absl::Status the last Run() returned
  runs,               \* Run() calls so far
  fuzzing_config,     \* the FuzzingConfig InitSnippet was given
  uc_,                \* the engine handle: "nullptr" or "open"
  opened,             \* engines InitUnicorn opened (history)
  closed              \* uc_close() calls (history)

vars == <<phase, snippet, registered, num_instructions, max_instructions,
          should_be_stopped, pos, hooked, halted, emu_err, stop_pending, drops,
          timed_out, bi_count, user_stop_at, cap_stop_at, status, runs,
          fuzzing_config, uc_, opened, closed>>
handle == <<uc_, opened, closed>>
engine == <<pos, hooked, halted, emu_err, stop_pending, drops, timed_out>>

\* The engine's pc equals code_end_address_.
AtEnd == snippet.kind = "ends" /\ pos = snippet.len

\* The instruction at pos faults when executed.
Faults == snippet.kind = "faults" /\ pos = snippet.len

-----------------------------------------------------------------------------
(* Tracer operations                                                       *)

\* Stop(): uc_emu_stop() and should_be_stopped_ = true.
Stop ==
  /\ stop_pending' = TRUE
  /\ should_be_stopped' = TRUE

Init ==
  /\ phase = "constructed"
  /\ snippet = NoSnippet
  /\ registered = {}
  /\ num_instructions = 0 /\ max_instructions = 0
  /\ should_be_stopped = FALSE
  /\ pos = 0 /\ hooked = FALSE /\ halted = FALSE /\ emu_err = FALSE
  /\ stop_pending = FALSE /\ drops = 0 /\ timed_out = FALSE
  /\ bi_count = 0 /\ user_stop_at = -1 /\ cap_stop_at = -1
  /\ status = "none" /\ runs = 0
  /\ fuzzing_config = NoConfig
  /\ uc_ = "nullptr" /\ opened = 0 /\ closed = 0

\* uc_mem_map(uc_, addr, size, prot) refuses (UC_ERR_ARG) an address or a
\* size that is not 4 KiB aligned and a zero size, and (UC_ERR_MAP) a range
\* overlapping an existing mapping.
UcMemMapOk(mapped, r) ==
  /\ PageAligned(r.start_address) /\ PageAligned(r.num_bytes)
  /\ ~IsZero(r.num_bytes)
  /\ \A m \in mapped : Disjoint(m, r)

\* MapMemory, range after range: it LOG_FATALs on the first uc_mem_map error.
RECURSIVE MapMemoryAll(_, _)
MapMemoryAll(rs, mapped) ==
  \/ rs = <<>>
  \/ /\ UcMemMapOk(mapped, Head(rs))
     /\ MapMemoryAll(Tail(rs), mapped \cup {Head(rs)})

\* SetupSnippetMemory maps every range of the configuration.
SetupSnippetMemory(cfg) == MapMemoryAll(Ranges(cfg), {})

\* InitSnippet: build the Snapshot, open Unicorn, map memory, set registers,
\* remember start and end address and install HookCode.  A snippet that
\* InstructionsToSnapshot rejects returns early and leaves the tracer as it
\* was (a stutter); a mapping Unicorn refuses kills the process.
InitSnippet(s, cfg) ==
  /\ phase = "constructed"
  /\ phase' = IF SetupSnippetMemory(cfg) THEN "ready" ELSE "aborted"
  /\ snippet' = s /\ fuzzing_config' = cfg
  /\ uc_' = "open" /\ opened' = opened + 1 /\ UNCHANGED closed
  /\ UNCHANGED <<registered, num_instructions, max_instructions,
                 should_be_stopped, engine, bi_count, user_stop_at,
                 cap_stop_at, status, runs>>

\* Set{BeforeExecution,BeforeInstruction,AfterExecution}Callback: each
\* CHECKs that its callback is not already set.
SetCallback(k) ==
  /\ phase \in {"constructed", "ready", "finished"}
  /\ k \notin registered
  /\ registered' = registered \cup {k}
  /\ UNCHANGED <<phase, snippet, fuzzing_config, handle, num_instructions, max_instructions,
                 should_be_stopped, engine, bi_count, user_stop_at,
                 cap_stop_at, status, runs>>

\* BeforeExecution(), BeforeInstruction(), AfterExecution(): the user's
\* callback of kind k runs only if its std::function is set.
Invokes(k) == k \in registered

\* Mutant: max_instructions_ = max_insn_executed - 1 (size_t arithmetic).
MaxInstructionsOffByOne(max) == max - 1

\* max_instructions_ = max_insn_executed.
MaxInstructions(max) == max

\* Mutant: should_be_stopped_ is not reset, a Stop() of the last run persists.
StopResetKept(be_stops) == be_stops \/ should_be_stopped

\* should_be_stopped_ = false, then the before-execution callback, which
\* may call Stop().
StopReset(be_stops) == be_stops

\* Run(max_insn_executed) up to and including uc_emu_start(): reset the
\* counters, invoke the before-execution callback, start the engine.  A
\* Stop() from the before-execution callback sets should_be_stopped_; its
\* uc_emu_stop() reaches an engine that is not emulating yet, and
\* uc_emu_start() begins with no stop request.
Run(max) ==
  /\ phase \in {"ready", "finished"}
  /\ runs < MaxRuns
  /\ \E be_stops \in IF Invokes("before_execution")
                     THEN BOOLEAN ELSE {FALSE} :
       /\ should_be_stopped' = StopReset(be_stops)
       /\ user_stop_at' = IF be_stops THEN 0 ELSE -1
  /\ num_instructions' = 0
  /\ max_instructions' = MaxInstructions(max)
  /\ pos' = 0 /\ hooked' = FALSE /\ halted' = FALSE /\ emu_err' = FALSE
  /\ stop_pending' = FALSE /\ drops' = 0 /\ timed_out' = FALSE
  /\ bi_count' = 0 /\ cap_stop_at' = -1
  /\ phase' = "running"
  /\ status' = "none"
  /\ runs' = runs + 1
  /\ UNCHANGED <<snippet, fuzzing_config, handle, registered>>

(* HookCode(address, size), one action per branch.  Each runs at an        *)
(* instruction boundary the engine has not reached the end address at, and *)
(* each ends with num_instructions_++.                                     *)
HookStep ==
  /\ phase = "running" /\ ~halted /\ ~hooked /\ ~stop_pending /\ ~AtEnd
  /\ num_instructions < HookBound
  /\ num_instructions' = num_instructions + 1
  /\ hooked' = TRUE

\* Mutant: the limit is tested one instruction early.
AtLimitOffByOne == num_instructions + 1 >= max_instructions

\* num_instructions_ >= max_instructions_.
AtLimit == num_instructions >= max_instructions

\* Mutant: Stop() is requested only the first time the limit is seen; later
\* hooks past the limit only suppress the callback.
CapStopOnce ==
  /\ stop_pending' = (cap_stop_at = -1)
  /\ should_be_stopped' = TRUE
  /\ cap_stop_at' = IF cap_stop_at = -1 THEN num_instructions ELSE cap_stop_at

\* Mutant: at the limit the callback is suppressed but Stop() is not called.
CapStopNone == UNCHANGED <<stop_pending, should_be_stopped, cap_stop_at>>

\* At the limit HookCode calls Stop() again on every hook.
CapStop ==
  /\ Stop
  /\ cap_stop_at' = IF cap_stop_at = -1 THEN num_instructions ELSE cap_stop_at

\* num_instructions_ >= max_instructions_: Stop(), no callback.
HookAtLimit ==
  /\ HookStep
  /\ AtLimit
  /\ CapStop
  /\ UNCHANGED <<phase, snippet, fuzzing_config, handle, registered, max_instructions, pos, halted,
                 emu_err, drops, timed_out, bi_count, user_stop_at, status, runs>>

\* Mutant: the callback is not suppressed after Stop().
CallbacksNeverSuppressed == FALSE

\* "If Stop() has been called, we suppress further callbacks."
CallbacksSuppressed == should_be_stopped

\* Below the limit and not stopped: the before-instruction callback, which
\* may itself call Stop().
HookCallback ==
  /\ HookStep
  /\ ~AtLimit
  /\ ~CallbacksSuppressed
  /\ \/ /\ Invokes("before_instruction")
        /\ bi_count' = bi_count + 1
        /\ \/ /\ Stop
              /\ user_stop_at' = IF user_stop_at = -1 THEN num_instructions
                                 ELSE user_stop_at
           \/ UNCHANGED <<stop_pending, should_be_stopped, user_stop_at>>
     \/ /\ ~Invokes("before_instruction")
        /\ UNCHANGED <<bi_count, stop_pending, should_be_stopped, user_stop_at>>
  /\ UNCHANGED <<phase, snippet, fuzzing_config, handle, registered, max_instructions, pos, halted,
                 emu_err, drops, timed_out, cap_stop_at, status, runs>>

\* Below the limit after Stop(): the callback is suppressed.
HookSuppressed ==
  /\ HookStep
  /\ ~AtLimit
  /\ CallbacksSuppressed
  /\ UNCHANGED <<phase, snippet, fuzzing_config, handle, registered, max_instructions,
                 should_be_stopped, pos, halted, emu_err, stop_pending, drops,
                 timed_out, bi_count, user_stop_at, cap_stop_at, status, runs>>

-----------------------------------------------------------------------------
(* The emulator inside uc_emu_start()                                      *)

EngineUnchanged ==
  UNCHANGED <<phase, snippet, fuzzing_config, handle, registered, num_instructions, max_instructions,
              should_be_stopped, bi_count, user_stop_at, cap_stop_at, status,
              runs>>

\* The pc reached the `until` address: emulation ends.
ReachEnd ==
  /\ phase = "running" /\ ~halted /\ AtEnd
  /\ halted' = TRUE /\ stop_pending' = FALSE
  /\ UNCHANGED <<pos, hooked, emu_err, drops, timed_out>>
  /\ EngineUnchanged

\* The engine acts on uc_emu_stop() and leaves emulation.
HonorStop ==
  /\ phase = "running" /\ ~halted /\ stop_pending
  /\ halted' = TRUE /\ stop_pending' = FALSE
  /\ UNCHANGED <<pos, hooked, emu_err, drops, timed_out>>
  /\ EngineUnchanged

\* "QEMU x86_64 may not always respect uc_emu_stop()": the request is lost.
DropStop ==
  /\ phase = "running" /\ ~halted /\ stop_pending
  /\ drops < MaxDrops
  /\ stop_pending' = FALSE /\ drops' = drops + 1
  /\ UNCHANGED <<pos, hooked, halted, emu_err, timed_out>>
  /\ EngineUnchanged

\* The hooked instruction executes: it faults, or the pc moves on.
Execute ==
  /\ phase = "running" /\ ~halted /\ hooked /\ ~stop_pending
  /\ \/ /\ Faults
        /\ halted' = TRUE /\ emu_err' = TRUE
        /\ UNCHANGED <<pos, hooked>>
     \/ /\ ~Faults
        /\ pos' = pos + 1 /\ hooked' = FALSE
        /\ UNCHANGED <<halted, emu_err>>
  /\ UNCHANGED <<stop_pending, drops, timed_out>>
  /\ EngineUnchanged

\* The 1 s timer of uc_emu_start() expires and calls uc_emu_stop().
Timeout ==
  /\ phase = "running" /\ ~halted /\ ~timed_out
  /\ timed_out' = TRUE /\ stop_pending' = TRUE
  /\ UNCHANGED <<pos, hooked, halted, emu_err, drops>>
  /\ EngineUnchanged

-----------------------------------------------------------------------------

\* Mutant: the instruction-count check is missing.
RunStatusNoCountCheck ==
  CASE emu_err    -> "emu_error"
    [] timed_out  -> "timed_out"
    [] ~AtEnd     -> "not_end"
    [] ~snippet.legal -> "illegal_end"
    [] OTHER      -> "ok"

\* Mutant: the end-address check comes before the instruction-count check.
RunStatusEndBeforeCount ==
  CASE emu_err    -> "emu_error"
    [] ~AtEnd     -> "not_end"
    [] num_instructions > max_instructions -> "too_many"
    [] timed_out  -> "timed_out"
    [] ~snippet.legal -> "illegal_end"
    [] OTHER      -> "ok"

\* The status Run() returns: the checks in the code's order.
RunStatus ==
  CASE emu_err    -> "emu_error"
    [] num_instructions > max_instructions -> "too_many"
    [] timed_out  -> "timed_out"
    [] ~AtEnd     -> "not_end"
    [] ~snippet.legal -> "illegal_end"
    [] OTHER      -> "ok"

\* Run() after uc_emu_start() returned: the after-execution callback (it
\* may call Stop(), which no longer affects the engine), then RunStatus.
RunFinish ==
  /\ phase = "running" /\ halted
  /\ phase' = "finished"
  /\ status' = RunStatus
  /\ UNCHANGED <<snippet, fuzzing_config, handle, registered, num_instructions, max_instructions,
                 should_be_stopped, engine, bi_count, user_stop_at,
                 cap_stop_at, runs>>

\* Mutant: uc_ is closed but not reset to nullptr.
DestroyNoReset ==
  /\ closed' = IF uc_ = "open" THEN closed + 1 ELSE closed
  /\ UNCHANGED uc_

\* The body of Destroy(): if uc_ != nullptr, uc_close(uc_) and
\* uc_ = nullptr.
DestroyEngine ==
  /\ closed' = IF uc_ = "open" THEN closed + 1 ELSE closed
  /\ uc_' = "nullptr"

\* Destroy(), which may be called more than once, and ~UnicornTracer(),
\* which calls it once more before the tracer is gone.
LifeEnd(next) ==
  /\ phase \in {"constructed", "ready", "finished", "destroyed"}
  /\ phase' = next
  /\ DestroyEngine
  /\ UNCHANGED <<opened, snippet, fuzzing_config, registered,
                 num_instructions, max_instructions, should_be_stopped, engine,
                 bi_count, user_stop_at, cap_stop_at, status, runs>>

Destroy == LifeEnd("destroyed")

Destruct == LifeEnd("gone")

EngineStep ==
  HookAtLimit \/ HookCallback \/ HookSuppressed \/ ReachEnd \/ HonorStop
  \/ Execute

Next ==
  \/ \E s \in Snippets, cfg \in FuzzingConfigs : InitSnippet(s, cfg)
  \/ \E k \in CallbackKinds : SetCallback(k)
  \/ \E m \in MaxInsnValues : Run(m)
  \/ EngineStep \/ DropStop \/ Timeout
  \/ RunFinish
  \/ Destroy
  \/ Destruct

\* uc_emu_start() is a blocking call on the tracer's thread: the emulator
\* keeps executing and Run() returns once it does.  The caller, the timer
\* and the engine's lost stop requests get no fairness.
Fairness ==
  /\ WF_vars(HookAtLimit) /\ WF_vars(HookCallback) /\ WF_vars(HookSuppressed)
  /\ WF_vars(ReachEnd) /\ WF_vars(HonorStop) /\ WF_vars(Execute)
  /\ WF_vars(RunFinish)

Spec == Init /\ [][Next]_vars /\ Fairness

-----------------------------------------------------------------------------
(* Properties                                                              *)

TypeOK ==
  /\ phase \in {"constructed", "ready", "running", "finished", "destroyed",
                "aborted", "gone"}
  /\ uc_ \in {"nullptr", "open"} /\ opened \in 0..1 /\ closed \in Nat
  /\ snippet \in Snippets \cup {NoSnippet}
  /\ fuzzing_config \in FuzzingConfigs \cup {NoConfig}
  /\ registered \subseteq CallbackKinds
  /\ num_instructions \in Nat /\ max_instructions \in Nat
  /\ should_be_stopped \in BOOLEAN
  /\ pos \in Nat /\ drops \in 0..MaxDrops
  /\ {hooked, halted, emu_err, stop_pending, timed_out} \subseteq BOOLEAN
  /\ bi_count \in Nat /\ user_stop_at \in Int /\ cap_stop_at \in Int
  /\ status \in Statuses /\ runs \in 0..MaxRuns

\* Spec 2 and 8: in the configuration InitSnippet was given, the code
\* range starts page aligned and spans a power of two, every other range
\* starts page aligned and spans a non-zero multiple of the page size, and
\* no two ranges overlap.
ConfigWellFormed ==
  fuzzing_config # NoConfig =>
    LET rs == Ranges(fuzzing_config) IN
    /\ CodeRangeOk(rs[1])
    /\ \A n \in 2..Len(rs) : DataRangeOk(rs[n])
    /\ \A m, n \in 1..Len(rs) : m # n => Disjoint(rs[m], rs[n])

\* Every Unicorn engine is closed exactly once: Destroy() and the
\* destructor that calls it again never uc_close() the same engine twice,
\* and once the tracer is gone its engine has been closed.
EngineClosedOnce ==
  /\ closed <= opened
  /\ phase = "gone" => closed = opened

\* Run() returns OK only for a snippet that really reached its end address
\* within max_insn_executed instructions and whose end state is legal.  An
\* over-long snippet whose cap Stop() the engine ignores still reaches the
\* end address; only the count check of Run() rejects it.
VerdictSound ==
  status = "ok" => /\ snippet.kind = "ends"
                   /\ snippet.len <= max_instructions
                   /\ snippet.legal

\* "Exactly at the limit is not an error": a snippet that ends within the
\* cap, with a legal end state, no timeout and no Stop() from a callback, is
\* reported OK by Run().
ExactCapAccepted ==
  (/\ phase = "finished" /\ snippet.kind = "ends"
   /\ snippet.len <= max_instructions /\ snippet.legal
   /\ ~timed_out /\ user_stop_at = -1) => status = "ok"

\* Clients see a clean cutoff: the before-instruction callback fires at
\* most max_insn_executed times in a run, and never again after a Stop()
\* from a callback (HookCode suppresses it while the engine keeps going).
CleanCutoff ==
  /\ bi_count <= max_instructions
  /\ user_stop_at # -1 => bi_count <= user_stop_at + 1

\* When Run() returns from a run without a Stop() from a callback, the
\* before-instruction callback has fired for every instruction HookCode saw
\* below the cap, also in a second Run() after a run that was stopped.
CallbacksComplete ==
  [][(/\ phase = "running" /\ phase' = "finished"
      /\ "before_instruction" \in registered /\ user_stop_at = -1)
       => bi_count = IF num_instructions < max_instructions
                     THEN num_instructions ELSE max_instructions]_vars

\* Once the cap is reached, the engine executes at most MaxDrops + 1 more
\* hooked instructions, however many stop requests it ignores: HookCode
\* repeats Stop() on every hook past the limit.
CapStopBounded ==
  cap_stop_at # -1 => num_instructions <= cap_stop_at + 1 + MaxDrops

\* Every Run() returns, a runaway snippet included, without the timer:
\* the instruction cap alone ends it.
RunTerminates == phase = "running" ~> phase = "finished"

\* Spec 4.3 and 8: a Stop() called from a before-instruction callback is
\* honoured like the cap's, so the run ends within MaxDrops + 1 more hooked
\* instructions.  (A stop from that callback is one with bi_count > 0: after
\* a stop from the before-execution callback no callback fires.)
UserStopBounded ==
  (user_stop_at # -1 /\ bi_count > 0)
    => num_instructions <= user_stop_at + 1 + MaxDrops

=============================================================================
