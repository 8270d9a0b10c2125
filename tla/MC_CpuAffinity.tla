--------------------------- MODULE MC_CpuAffinity ---------------------------
(* kMaxCpus = 3 with CPUs 0 and 2 online: a call may bind, fail in the    *)
(* kernel (CPU 1), or fail the CHECK (CPU 3).  CPU 2 is the highest id,   *)
(* so the stored cpu_id + 1 reaches kMaxCpus.                             *)
EXTENDS CpuAffinity, TLC

CONSTANTS t1, t2

MCThreads2 == {t1, t2}
MCThreads1 == {t1}
MCCpuIds == 0..3
MCOnline == {0, 2}
MCSymmetry == Permutations(MCThreads2)
=============================================================================
