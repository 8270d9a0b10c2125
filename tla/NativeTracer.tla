---------------------------- MODULE NativeTracer ----------------------------
(***************************************************************************)
(* The hardware tracer backend (src/tracing/native_tracer.h, spec 4.2).    *)
(* The header gives the tracer's fields, its five states, Stop() and the   *)
(* continuation decision taken at every instruction boundary of the        *)
(* traced process (ShouldStopTracing / NextContinuationMode).  Run's loop  *)
(* and InitSnippet live in native_tracer.cc, which is not part of the      *)
(* sources here; they are modelled from spec 4.2 and 5.                    *)
(*                                                                         *)
(* The tracee runs harness code (position 0) until it reaches the         *)
(* snippet's first instruction (position 1); a snippet either reaches its *)
(* end address (position len + 1) or loops.  At each boundary the tracee  *)
(* is stopped: callbacks may read registers (filling the cache) or call   *)
(* Stop(), then the tracer decides whether to resume it for one more      *)
(* instruction.  Register contents are abstracted to a small set.         *)
(***************************************************************************)
EXTENDS Integers

CONSTANTS
  Snippets,   \* [kind : {"ends", "loops"}, len : Nat]
  CapValues,  \* max_insn_executed arguments to Run
  Regs        \* what the tracee's general registers may hold

NoRegs == "nullopt"

VARIABLES
  state_,              \* TracerState
  stop_requested_,
  insn_limit_reached_,
  gregs_cache_,        \* std::optional<user_regs_struct>
  snippet,             \* the snippet InitSnippet was given
  cap,                 \* Run's max_insn_executed
  count,               \* snippet instructions executed in this Run
  pos,                 \* the tracee's position (0: harness code)
  regs,                \* the tracee's general registers
  hook                 \* "none" | "boundary" (tracee stopped) | "done" | "returned"

vars == <<state_, stop_requested_, insn_limit_reached_, gregs_cache_,
          snippet, cap, count, pos, regs, hook>>

\* The address the snippet ends at.
EndPos(s) == s.len + 1

Init ==
  /\ state_ = "kInit"
  /\ stop_requested_ = FALSE /\ insn_limit_reached_ = FALSE
  /\ gregs_cache_ = NoRegs
  /\ snippet = CHOOSE s \in Snippets : TRUE
  /\ cap = 0 /\ count = 0 /\ pos = 0
  /\ regs \in Regs
  /\ hook = "none"

\* ShouldStopTracing, evaluated on the fields as the boundary leaves them.
ShouldStopTracing ==
  state_' = "kFinished" \/ stop_requested_' \/ insn_limit_reached_'

\* Mutant: the limit is reached only past the cap.
InsnLimitReachedLate(n, c) == n > c

\* The instruction cap is hit.
InsnLimitReached(n, c) == n >= c

\* Mutant: instructions are counted while the tracee is in harness code.
CountedPreTracing(st) == st = "kPreTracing"

\* Instructions executed in this state count towards the cap.
Counted(st) == st = "kTracing"

\* Resuming the tracee invalidates the register cache.
ResumeCache(c) == NoRegs

\* InitSnippet: a snapshot is bound and the tracee is prepared.
InitSnippet(s) ==
  /\ state_ = "kInit"
  /\ state_' = "kReady" /\ snippet' = s
  /\ UNCHANGED <<stop_requested_, insn_limit_reached_, gregs_cache_, cap,
                 count, pos, regs, hook>>

\* Stop(): stop_requested_ = true.  Callers call it before Run or from a
\* callback, while the tracee is stopped at a boundary.
Stop ==
  /\ state_ = "kReady" \/ hook = "boundary"
  /\ stop_requested_' = TRUE
  /\ UNCHANGED <<state_, insn_limit_reached_, gregs_cache_, snippet, cap,
                 count, pos, regs, hook>>

\* Run(max_insn_executed): the tracee starts in the harness code.
Run(c) ==
  /\ state_ = "kReady"
  /\ state_' = "kPreTracing" /\ cap' = c /\ hook' = "boundary"
  /\ UNCHANGED <<stop_requested_, insn_limit_reached_, gregs_cache_,
                 snippet, count, pos, regs>>

\* GetGRegStruct: from the cache, else from the kernel, filling the cache.
GetGRegStruct ==
  /\ hook = "boundary" /\ gregs_cache_ = NoRegs
  /\ gregs_cache_' = regs
  /\ UNCHANGED <<state_, stop_requested_, insn_limit_reached_, snippet, cap,
                 count, pos, regs, hook>>

\* The tracee's next position after one instruction.
NextPos(s, p) ==
  IF p = 0 THEN 1
  ELSE IF s.kind = "loops" /\ p = s.len THEN 1 ELSE p + 1

\* The boundary hook: the tracee reaching the snippet moves the tracer to
\* kTracing, reaching the end address to kFinished; in kTracing the cap is
\* checked.  NextContinuationMode then stops tracing, or resumes the
\* tracee for one instruction, which invalidates the register cache.
Boundary ==
  /\ hook = "boundary"
  /\ state_' = CASE state_ = "kPreTracing" /\ pos = 1 -> "kTracing"
                 [] state_ = "kTracing" /\ pos = EndPos(snippet) -> "kFinished"
                 [] OTHER -> state_
  /\ insn_limit_reached_' =
       (insn_limit_reached_ \/ (Counted(state_') /\ InsnLimitReached(count, cap)))
  /\ UNCHANGED <<stop_requested_, snippet, cap>>
  /\ IF ShouldStopTracing
     THEN hook' = "done" /\ UNCHANGED <<gregs_cache_, count, pos, regs>>
     ELSE /\ pos' = NextPos(snippet, pos)
          /\ count' = IF Counted(state_') THEN count + 1 ELSE count
          /\ regs' \in Regs
          /\ gregs_cache_' = ResumeCache(gregs_cache_)
          /\ UNCHANGED hook

\* Run returns once tracing stopped.
Return ==
  /\ hook = "done"
  /\ hook' = "returned"
  /\ UNCHANGED <<state_, stop_requested_, insn_limit_reached_, gregs_cache_,
                 snippet, cap, count, pos, regs>>

Next ==
  \/ \E s \in Snippets : InitSnippet(s)
  \/ Stop
  \/ \E c \in CapValues : Run(c)
  \/ GetGRegStruct
  \/ Boundary
  \/ Return

\* The tracer's own loop always takes the boundary step and returns; the
\* callers' Stop and register reads get no fairness.
Spec == Init /\ [][Next]_vars /\ WF_vars(Boundary) /\ WF_vars(Return)

-----------------------------------------------------------------------------
(* Properties                                                              *)

TypeOK ==
  /\ state_ \in {"kInit", "kReady", "kPreTracing", "kTracing", "kFinished"}
  /\ stop_requested_ \in BOOLEAN /\ insn_limit_reached_ \in BOOLEAN
  /\ gregs_cache_ \in Regs \cup {NoRegs}
  /\ snippet \in Snippets
  /\ cap \in CapValues \cup {0}
  /\ count \in 0..cap
  /\ pos \in 0..EndPos(snippet)
  /\ hook \in {"none", "boundary", "done", "returned"}

\* Every Run returns, also for a snippet that loops forever: the cap, the
\* end address or a stop request ends tracing.
RunReturns == hook = "boundary" ~> hook = "returned"

=============================================================================
