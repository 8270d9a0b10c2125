------------------------- MODULE MC_UnicornTracer -------------------------
(* Instantiates UnicornTracer for TLC.                                      *)
EXTENDS UnicornTracer

\* Snippets ending after 0..3 instructions with a legal or illegal end state
\* (3 exceeds every cap below), snippets faulting on their first or second
\* instruction, and a snippet jumping to itself (kRunaway: `jmp .`).
MCSnippets ==
  [kind : {"ends"}, len : 0..3, legal : BOOLEAN]
  \cup [kind : {"faults"}, len : 0..1, legal : {TRUE}]
  \cup [kind : {"loops"}, len : {0}, legal : {TRUE}]

\* Caps 0 (every instruction is over the limit), 1 and 2.
MCMaxInsnValues == 0..2

\* The three shipped configurations of proxy_config.h.
MCFuzzingConfigs ==
  {DEFAULT_FUZZING_CONFIG_X86_64, DEFAULT_FUZZING_CONFIG_AARCH64,
   LIMITED_MEMORY_FUZZING_CONFIG_AARCH64}

\* Refinement mapping onto the backend-independent contract: the run is
\* interrupted once a callback called Stop() or the timer fired; a tracer
\* whose destructor ran is a destroyed one.
Contract == INSTANCE TracerContract WITH
  phase       <- IF phase = "gone" THEN "destroyed" ELSE phase,
  cap         <- max_instructions,
  interrupted <- (user_stop_at # -1 \/ timed_out),
  result      <- status

\* UnicornTracer implements the tracer contract: every status Run()
\* returns is one the snippet's behaviour justifies, and every run returns.
ContractSpec == Contract!Spec
====
