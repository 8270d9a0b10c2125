-------------------------- MODULE HashTestCorpus --------------------------
(***************************************************************************)
(* SynthesizeCorpus, SynthesizeTest's padding and ~MemoryMapping           *)
(* (src/fuzzer/hashtest/hashtest_runner.cc).  SynthesizeCorpus maps        *)
(* RoundUpToPageAlignment(1024 * num_tests) bytes (the mmap result is not  *)
(* checked), synthesizes the tests one after the other into the mapping   *)
(* at a running offset (CHECK_LE(test_size, 1024) each), makes the mapping *)
(* read-only executable (result ignored) and returns the tests with the    *)
(* mapping, whose destructor CHECKs munmap.  A test body is abstracted to  *)
(* its size before SynthesizeTest pads it.                                 *)
(***************************************************************************)
EXTENDS Integers, Sequences

CONSTANTS
  NumTestsValues, \* num_tests arguments
  BodySizes,      \* sizes of a synthesized body up to its return instruction
  kMaxTestBytes,  \* 1024
  kPageSize,      \* 4096
  MapBase,        \* a page-aligned address mmap may return
  MmapMayFail     \* whether mmap may fail (ENOMEM) for a non-empty mapping

ASSUME NumTestsValues \subseteq Nat /\ BodySizes \subseteq Nat \ {0}
ASSUME kMaxTestBytes \in Nat \ {0} /\ kPageSize \in Nat \ {0}
ASSUME MapBase \in Nat /\ MapBase % kPageSize = 0 /\ MmapMayFail \in BOOLEAN

MAP_FAILED == -1
nullptr == 0

\* RoundUpToPageAlignment (util/page_util.h).
RoundUpToPageAlignment(x) == ((x + kPageSize - 1) \div kPageSize) * kPageSize

\* SynthesizeTest after SynthesizeReturn: padding = (16 - size % 16) % 16,
\* then 16 + padding breakpoint traps.
SynthesizeTestSize(s) ==
  LET padding == (16 - (s % 16)) % 16 IN s + 16 + padding

VARIABLES
  pc,           \* "mmap" | "loop" | "returned" | "destroyed" | "crashed"
  crash,        \* why the process died: "none" | "check_le" | "segv" | "munmap"
  num_tests,
  ptr,          \* mmap's result
  mapping_size,
  offset,
  tests         \* the tests synthesized so far: [code, size]

vars == <<pc, crash, num_tests, ptr, mapping_size, offset, tests>>

Init ==
  /\ pc = "mmap" /\ crash = "none"
  /\ num_tests \in NumTestsValues
  /\ ptr = nullptr /\ mapping_size = 0 /\ offset = 0 /\ tests = <<>>

\* mmap(0, mapping_size, ...): a zero length always fails (EINVAL).
Mmap ==
  /\ pc = "mmap"
  /\ LET size == RoundUpToPageAlignment(kMaxTestBytes * num_tests) IN
       /\ mapping_size' = size
       /\ ptr' \in IF size = 0 THEN {MAP_FAILED}
                   ELSE IF MmapMayFail THEN {MapBase, MAP_FAILED} ELSE {MapBase}
  /\ pc' = "loop"
  /\ UNCHANGED <<crash, num_tests, offset, tests>>

\* Mutant: the CHECK_LE on the test size is missing.
TestFitsUnchecked(test_size) == TRUE

\* CHECK_LE(test_size, kMaxTestBytes)
TestFits(test_size) == test_size <= kMaxTestBytes

\* Mutant: the loop runs while i <= num_tests.
MoreTestsOffByOne(n) == n <= num_tests

\* for (size_t i = 0; i < num_tests; ++i), with i the tests made so far.
MoreTests(n) == n < num_tests

\* One iteration of the loop: synthesize a test, CHECK_LE(test_size,
\* kMaxTestBytes), memcpy it to ptr + offset (a store through MAP_FAILED
\* faults), advance the offset.
Synthesize ==
  /\ pc = "loop" /\ MoreTests(Len(tests))
  /\ \E s \in BodySizes :
       LET test_size == SynthesizeTestSize(s) IN
       \/ /\ ~TestFits(test_size)
          /\ pc' = "crashed" /\ crash' = "check_le" /\ UNCHANGED <<offset, tests>>
       \/ /\ TestFits(test_size) /\ ptr = MAP_FAILED
          /\ pc' = "crashed" /\ crash' = "segv" /\ UNCHANGED <<offset, tests>>
       \/ /\ TestFits(test_size) /\ ptr # MAP_FAILED
          /\ tests' = Append(tests, [code |-> ptr + offset, size |-> test_size])
          /\ offset' = offset + test_size
          /\ UNCHANGED <<pc, crash>>
  /\ UNCHANGED <<num_tests, ptr, mapping_size>>

\* mprotect (result ignored) and return the Corpus.
Return ==
  /\ pc = "loop" /\ ~MoreTests(Len(tests))
  /\ pc' = "returned"
  /\ UNCHANGED <<crash, num_tests, ptr, mapping_size, offset, tests>>

\* ~MemoryMapping: CHECK_EQ(munmap(ptr_, allocated_size_), 0) unless ptr_
\* is null; munmap fails for MAP_FAILED or a zero length.  allocated_size_
\* is the constructor's second argument, mapping_size (the class is
\* declared in hashtest_runner.h, which is not part of the sources here).
DestroyMapping ==
  /\ pc = "returned"
  /\ IF ptr # nullptr /\ (ptr = MAP_FAILED \/ mapping_size = 0)
     THEN pc' = "crashed" /\ crash' = "munmap"
     ELSE pc' = "destroyed" /\ UNCHANGED crash
  /\ UNCHANGED <<num_tests, ptr, mapping_size, offset, tests>>

Next == Mmap \/ Synthesize \/ Return \/ DestroyMapping

Spec == Init /\ [][Next]_vars

-----------------------------------------------------------------------------
(* Properties                                                              *)

TypeOK ==
  /\ pc \in {"mmap", "loop", "returned", "destroyed", "crashed"}
  /\ crash \in {"none", "check_le", "segv", "munmap"}
  /\ num_tests \in NumTestsValues
  /\ ptr \in {nullptr, MAP_FAILED, MapBase}
  /\ offset \in Nat
  /\ tests \in Seq([code : Int, size : Int])
  /\ Len(tests) <= num_tests

\* Every test synthesized lies inside the mapping, after the previous one,
\* and starts 16-byte aligned: the per-test CHECK and the padding keep the
\* running offset within 1024 * num_tests rounded up to a page.
TestsInMapping ==
  \A n \in 1..Len(tests) :
    /\ ptr <= tests[n].code
    /\ tests[n].code + tests[n].size <= ptr + mapping_size
    /\ tests[n].code % 16 = 0
    /\ n > 1 => tests[n].code = tests[n - 1].code + tests[n - 1].size

\* A corpus that SynthesizeCorpus returned is torn down without a failed
\* CHECK.
TeardownSucceeds == crash # "munmap"

=============================================================================
