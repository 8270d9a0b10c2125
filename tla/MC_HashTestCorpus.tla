------------------------- MODULE MC_HashTestCorpus -------------------------
(* SynthesizeCorpus for up to four tests: bodies that pad to 32, 48 and    *)
(* 1024 bytes, and one (1010 bytes) that pads past the 1024-byte limit.    *)
(* Four 1040-byte tests would overrun the one-page mapping, so the per-    *)
(* test CHECK is what keeps four tests inside it.                          *)
EXTENDS HashTestCorpus

MCNumTests == 0..4
MCNumTestsZero == {0}
MCNumTestsNonZero == 1..4
MCBodySizes == {16, 17, 31, 1000, 1010}
====
