--------------------------- MODULE HashTestRunner ---------------------------
(***************************************************************************)
(* The hash-test runner (src/fuzzer/hashtest/hashtest_runner.cc).  End     *)
(* states are computed three times (ComputeEndStates), reconciled by a     *)
(* 2-of-3 vote (ReconcileEndStates), then RunTests sweeps the tests in     *)
(* batches: for every repeat, every input, every test of the batch it runs *)
(* the test and reports a hit when the hash differs from the end state.    *)
(*                                                                         *)
(* End states live in one flat array indexed test * |inputs| + input, and  *)
(* RunTests hands each batch a subspan of it; that index arithmetic is     *)
(* kept.  A hash is abstracted to the cell it was computed for: the        *)
(* correct value <<t, i>>, or one of NumBadValues wrong values <<t, i, v>> *)
(* when a silent data corruption hit that computation.  At most MaxSDC     *)
(* corruptions happen in the whole execution.                              *)
(***************************************************************************)
EXTENDS Integers, Sequences, FiniteSets

CONSTANTS
  NumTests,    \* tests.size()
  NumInputs,   \* inputs.size()
  BatchSize,   \* RunConfig::batch_size
  NumRepeat,   \* RunConfig::num_repeat
  MaxSDC,      \* corruptions the hardware may produce in one execution
  NumBadValues \* distinct wrong hashes a corrupted computation may produce

ASSUME NumTests \in Nat \ {0} /\ NumInputs \in Nat \ {0}
ASSUME BatchSize \in Nat \ {0} /\ NumRepeat \in Nat \ {0}
ASSUME MaxSDC \in Nat /\ NumBadValues \in Nat \ {0}

Tests == 0..NumTests - 1
Inputs == 0..NumInputs - 1
Cells == 0..NumTests * NumInputs - 1

BadValues == 1..NumBadValues
\* The hash of test t run on input i: right (v = 0) or corrupted (v > 0).
Hash(t, i, v) == IF v = 0 THEN <<t, i>> ELSE <<t, i, v>>
Good(t, i) == Hash(t, i, 0)
\* EndState::SetCouldNotBeComputed(): a value no hash takes.
CouldNotBeComputed == <<>>
Hashes == {Hash(t, i, v) : t \in Tests, i \in Inputs, v \in 0..NumBadValues}

VARIABLES
  pc,           \* "compute" | "reconcile" | "run" | "done"
  passes,       \* the end-state arrays of the ComputeEndStates calls so far
  end_states,   \* the reconciled end states
  fail_count,   \* ReconcileEndStates' result
  g, r, i, t,   \* RunTests / RunBatch loop indices
  hits,         \* ResultReporter::hits, as <<test_index, input_index>>
  sdc_left,     \* corruptions the hardware may still produce
  sdc_cells,    \* <<test, input>> pairs some computation of which was corrupted
  run_sdc,      \* <<test, input>> pairs a RunTest of which was corrupted
  ran,          \* RunTest calls per <<test, input>>
  prev_test     \* the test of the previous RunTest call, or -1

vars == <<pc, passes, end_states, fail_count, g, r, i, t, hits, sdc_left,
          sdc_cells, run_sdc, ran, prev_test>>

-----------------------------------------------------------------------------
(* ComputeEndStates and the 2-of-3 vote                                    *)

\* end_states[t * inputs.size() + i] = hash of test t run on input i, where
\* sdc[<<t, i>>] says which corruption, if any, hit that run.
ComputeEndStates(sdc) ==
  [c \in Cells |->
     LET tt == c \div NumInputs
         ii == c % NumInputs
     IN Hash(tt, ii, sdc[<<tt, ii>>])]

\* The pairs a corruption assignment hits.
Hit(sdc) == {p \in DOMAIN sdc : sdc[p] # 0}

\* Mutant: an end state matching only other2 is not recognised.
ReconcileEndStateNoOther2(e, o1, o2) ==
  IF e = o1 THEN <<e, TRUE>>
  ELSE IF o1 = o2 THEN <<o1, TRUE>>
  ELSE <<CouldNotBeComputed, FALSE>>

\* ReconcileEndState: <<the reconciled end state, whether it succeeded>>.
ReconcileEndState(e, o1, o2) ==
  IF e = o1 THEN <<e, TRUE>>
  ELSE IF e = o2 THEN <<e, TRUE>>
  ELSE IF o1 = o2 THEN <<o1, TRUE>>
  ELSE <<CouldNotBeComputed, FALSE>>

ComputePass ==
  /\ pc = "compute"
  /\ \E sdc \in [Tests \X Inputs -> 0..NumBadValues] :
       /\ Cardinality(Hit(sdc)) <= sdc_left
       /\ passes' = Append(passes, ComputeEndStates(sdc))
       /\ sdc_left' = sdc_left - Cardinality(Hit(sdc))
       /\ sdc_cells' = sdc_cells \cup Hit(sdc)
  /\ pc' = IF Len(passes) = 2 THEN "reconcile" ELSE "compute"
  /\ UNCHANGED <<end_states, fail_count, g, r, i, t, hits, run_sdc, ran,
                 prev_test>>

\* ReconcileEndStates(end_state = passes[1], other1, other2).
ReconcileEndStates ==
  /\ pc = "reconcile"
  /\ LET res == [c \in Cells |->
                   ReconcileEndState(passes[1][c], passes[2][c], passes[3][c])]
     IN /\ end_states' = [c \in Cells |-> res[c][1]]
        /\ fail_count' = Cardinality({c \in Cells : ~res[c][2]})
  /\ pc' = "run"
  /\ UNCHANGED <<passes, g, r, i, t, hits, sdc_left, sdc_cells, run_sdc, ran,
                 prev_test>>

-----------------------------------------------------------------------------
(* RunTests / RunBatch / RunTest                                           *)

\* Mutant: the test loop stops one test early in batches of several tests.
BatchLenShort(gg) ==
  LET bl == IF BatchSize < NumTests - gg THEN BatchSize ELSE NumTests - gg
  IN IF bl > 1 THEN bl - 1 ELSE 1

\* batch_size = min(config.batch_size, tests.size() - g)
BatchLen(gg) == IF BatchSize < NumTests - gg THEN BatchSize ELSE NumTests - gg

\* Mutant: the subspan starts at g instead of g * inputs.size().
ExpectedIndexNoScale(gg, tt, ii) == gg + (tt * NumInputs + ii)

\* end_states.subspan(g * inputs.size(), ...)[t * inputs.size() + i]
ExpectedIndex(gg, tt, ii) == gg * NumInputs + (tt * NumInputs + ii)

\* Mutant: the hit names the test's index within its batch.
TestIndexNoOffset(gg, tt) == tt

\* test_index = test_offset + t, with RunBatch's test_offset = g.
TestIndex(gg, tt) == gg + tt

\* Mutant: the repeat loop runs num_repeat + 1 times.
MoreRepeatsOffByOne(rr) == rr < NumRepeat

\* for (size_t r = 0; r < config.num_repeat; ++r): another repeat follows r.
MoreRepeats(rr) == rr + 1 < NumRepeat

\* The loop heads of RunBatch (t, then i, then r) and RunTests (g).
Advance ==
  IF t + 1 < BatchLen(g) THEN /\ t' = t + 1 /\ UNCHANGED <<i, r, g, pc>>
  ELSE IF i + 1 < NumInputs THEN /\ t' = 0 /\ i' = i + 1 /\ UNCHANGED <<r, g, pc>>
  ELSE IF MoreRepeats(r) THEN /\ t' = 0 /\ i' = 0 /\ r' = r + 1 /\ UNCHANGED <<g, pc>>
  ELSE /\ t' = 0 /\ i' = 0 /\ r' = 0 /\ g' = g + BatchSize
       /\ pc' = IF g + BatchSize < NumTests THEN "run" ELSE "done"

\* ResultReporter::ReportHit: the hit is appended to the reporter's list
\* (the seeds it also records and prints are abstracted to the indices).
ReportHit(hs, test_index, input_index) == Append(hs, <<test_index, input_index>>)

\* if (expected.CouldNotBeComputed()) continue;
SkipPair ==
  /\ UNCHANGED <<hits, sdc_left, sdc_cells, run_sdc, ran, prev_test>>
  /\ Advance

\* RunTest: run test k on input ii (the hardware may corrupt the result,
\* v > 0) and report a hit if the hash differs from the expected one.
RunTest(k, ii, expected) ==
  /\ \E v \in IF sdc_left > 0 THEN 0..NumBadValues ELSE {0} :
       LET corrupted == v # 0 IN
       /\ hits' = IF expected = Hash(k, ii, v) THEN hits
                  ELSE ReportHit(hits, TestIndex(g, t), ii)
       /\ sdc_left' = IF corrupted THEN sdc_left - 1 ELSE sdc_left
       /\ sdc_cells' = IF corrupted THEN sdc_cells \cup {<<k, ii>>} ELSE sdc_cells
       /\ run_sdc' = IF corrupted THEN run_sdc \cup {<<k, ii>>} ELSE run_sdc
  /\ ran' = [ran EXCEPT ![<<k, ii>>] = @ + 1]
  /\ prev_test' = k

\* One iteration of RunBatch's innermost loop: skip an end state that could
\* not be computed, else RunTest, then step the loops.
RunBatchStep ==
  /\ pc = "run"
  /\ LET expected == end_states[ExpectedIndex(g, t, i)] IN
     \/ /\ expected = CouldNotBeComputed
        /\ SkipPair
     \/ /\ expected # CouldNotBeComputed
        /\ RunTest(g + t, i, expected)
        /\ Advance
  /\ UNCHANGED <<passes, end_states, fail_count>>

-----------------------------------------------------------------------------

Init ==
  /\ pc = "compute"
  /\ passes = <<>>
  /\ end_states = [c \in Cells |-> CouldNotBeComputed]
  /\ fail_count = 0
  /\ g = 0 /\ r = 0 /\ i = 0 /\ t = 0
  /\ hits = <<>>
  /\ sdc_left = MaxSDC
  /\ sdc_cells = {} /\ run_sdc = {}
  /\ ran = [p \in Tests \X Inputs |-> 0]
  /\ prev_test = -1

Next == ComputePass \/ ReconcileEndStates \/ RunBatchStep

Spec == Init /\ [][Next]_vars

-----------------------------------------------------------------------------
(* Properties                                                              *)

TypeOK ==
  /\ pc \in {"compute", "reconcile", "run", "done"}
  /\ passes \in Seq([Cells -> Hashes]) /\ Len(passes) <= 3
  /\ end_states \in [Cells -> Hashes \cup {CouldNotBeComputed}]
  /\ fail_count \in 0..NumTests * NumInputs
  /\ g \in 0..NumTests + BatchSize /\ t \in Tests /\ i \in Inputs
  /\ r \in 0..NumRepeat - 1
  /\ hits \in Seq(Tests \X Inputs)
  /\ ran \in [Tests \X Inputs -> 0..NumRepeat]

\* The value at least two of three runs agree on, else could-not-be-computed.
Majority(a, b, c) ==
  LET vs == <<a, b, c>>
      agreed == {v \in {a, b, c} :
                   Cardinality({j \in 1..3 : vs[j] = v}) >= 2}
  IN IF agreed = {} THEN CouldNotBeComputed ELSE CHOOSE v \in agreed : TRUE

\* After reconciliation each end state is the value at least two of the
\* three ComputeEndStates calls produced for that test and input, or
\* could-not-be-computed, and fail_count counts exactly the latter.
ReconcileIsMajority ==
  pc \in {"run", "done"} =>
    /\ \A c \in Cells :
         end_states[c] = Majority(passes[1][c], passes[2][c], passes[3][c])
    /\ fail_count = Cardinality({c \in Cells :
                                   end_states[c] = CouldNotBeComputed})

\* When RunTests returns, every test was run on every input NumRepeat
\* times, except the pairs whose end state could not be computed, which
\* were never run; the last, shorter batch included.
EveryPairRun ==
  pc = "done" =>
    \A k \in Tests, ii \in Inputs :
      ran[<<k, ii>>] =
        IF end_states[k * NumInputs + ii] = CouldNotBeComputed
        THEN 0 ELSE NumRepeat

\* A hit names a test and input some computation of which was really
\* corrupted: the test was compared with its own end state, and the hit
\* carries the test's global index, not its index within the batch.
HitsNameCorruptedPair ==
  \A n \in 1..Len(hits) : hits[n] \in sdc_cells

\* Every corrupted RunTest of a pair whose reconciled end state is correct
\* is reported.
NoMissedSDC ==
  pc = "done" =>
    \A p \in run_sdc :
      end_states[p[1] * NumInputs + p[2]] = Good(p[1], p[2])
        => \E n \in 1..Len(hits) : hits[n] = p

\* "The point of having a batch size > 1 is that the same test will not be
\* run multiple times in a row."
NoTestTwiceInARow ==
  [][(pc = "run" /\ BatchSize > 1 /\ ran' # ran) => prev_test' # prev_test]_vars

=============================================================================
