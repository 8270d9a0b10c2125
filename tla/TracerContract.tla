--------------------------- MODULE TracerContract ---------------------------
(***************************************************************************)
(* What every tracer backend promises its caller (spec 4.1 and 7): a       *)
(* tracer is given one snippet, is run any number of times under an        *)
(* instruction cap, and each Run() returns a status whose kind is          *)
(* justified by what the snippet does:                                     *)
(*   ok          - the snippet reached its end address within the cap and  *)
(*                 its end state is legal;                                 *)
(*   too_many    - the snippet executes more instructions than the cap;    *)
(*   emu_error   - the engine failed (the snippet faulted);                *)
(*   timed_out, not_end - the run was interrupted (Stop() or the timer);   *)
(*   illegal_end - the end state is not legal.                             *)
(* A run that is not interrupted, of a snippet that ends within the cap    *)
(* with a legal end state, is ok.                                          *)
(***************************************************************************)
EXTENDS Integers

CONSTANTS Snippets, MaxInsnValues

VARIABLES
  phase,        \* "constructed" | "ready" | "running" | "finished" | "destroyed"
  snippet,      \* the snippet given to InitSnippet
  cap,          \* max_insn_executed of the current run
  interrupted,  \* a Stop() or the timer interrupted the current run
  result        \* the status of the last Run()

vars == <<phase, snippet, cap, interrupted, result>>

NoSnippet == [kind |-> "none", len |-> 0, legal |-> TRUE]

\* The snippet reaches its end address after at most c instructions.
EndsWithin(s, c) == s.kind = "ends" /\ s.len <= c

\* The snippet executes instruction c + 1 (it is longer than the cap, loops,
\* or faults no earlier than on instruction c + 1).
RunsPast(s, c) ==
  \/ s.kind = "loops"
  \/ s.kind = "ends" /\ s.len > c
  \/ s.kind = "faults" /\ s.len >= c

\* The status kinds a run of s under cap c may return.
Justified(s, c, intr) ==
  { r \in {"ok", "too_many", "emu_error", "timed_out", "not_end",
           "illegal_end"} :
      /\ r = "ok"          => EndsWithin(s, c) /\ s.legal
      /\ r = "too_many"    => RunsPast(s, c)
      /\ r = "emu_error"   => s.kind = "faults"
      /\ r \in {"timed_out", "not_end"} => intr
      /\ r = "illegal_end" => ~s.legal
      /\ (EndsWithin(s, c) /\ s.legal /\ ~intr) => r = "ok" }

Init ==
  /\ phase = "constructed" /\ snippet = NoSnippet
  /\ cap = 0 /\ interrupted = FALSE /\ result = "none"

InitSnippet(s) ==
  /\ phase = "constructed"
  /\ phase' = "ready" /\ snippet' = s
  /\ UNCHANGED <<cap, interrupted, result>>

\* Run() starts; a stop may already be requested before the first
\* instruction (from a before-execution callback).
Run(c) ==
  /\ phase \in {"ready", "finished"}
  /\ phase' = "running" /\ cap' = c /\ result' = "none"
  /\ interrupted' \in BOOLEAN
  /\ UNCHANGED snippet

\* Stop() or the timer, during a run.
Interrupt ==
  /\ phase = "running"
  /\ interrupted' = TRUE
  /\ UNCHANGED <<phase, snippet, cap, result>>

\* Run() returns.
Return ==
  /\ phase = "running"
  /\ phase' = "finished"
  /\ result' \in Justified(snippet, cap, interrupted)
  /\ UNCHANGED <<snippet, cap, interrupted>>

Destroy ==
  /\ phase \in {"constructed", "ready", "finished"}
  /\ phase' = "destroyed"
  /\ UNCHANGED <<snippet, cap, interrupted, result>>

Next ==
  \/ \E s \in Snippets : InitSnippet(s)
  \/ \E c \in MaxInsnValues : Run(c)
  \/ Interrupt \/ Return \/ Destroy

\* A started run returns.
Spec == Init /\ [][Next]_vars /\ WF_vars(Return)

=============================================================================
