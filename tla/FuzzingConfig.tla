--------------------------- MODULE FuzzingConfig ---------------------------
(***************************************************************************)
(* The fuzzing configurations (src/common/proxy_config.h): the memory      *)
(* ranges where a snippet's code and data are placed, per architecture,    *)
(* and the three process-wide constants DEFAULT_FUZZING_CONFIG<X86_64>,    *)
(* DEFAULT_FUZZING_CONFIG<AArch64> and LIMITED_MEMORY_FUZZING_CONFIG       *)
(* <AArch64>.  The instruction filter is left out.                         *)
(*                                                                         *)
(* A uint64_t byte value is kept exactly, as the pair of its 64 KiB units  *)
(* (hi) and the bytes below them (lo), so that the configured addresses    *)
(* fit TLC's integers.                                                     *)
(***************************************************************************)
EXTENDS Integers

kUnit == 65536
kPageSize == 4096

\* The value hi * 2^16 + lo.
Bytes(hi, lo) == [hi |-> hi, lo |-> lo]

Plus(a, b) ==
  LET lo == a.lo + b.lo IN Bytes(a.hi + b.hi + lo \div kUnit, lo % kUnit)

LessEq(a, b) == a.hi < b.hi \/ (a.hi = b.hi /\ a.lo <= b.lo)

IsZero(a) == a.hi = 0 /\ a.lo = 0

PageAligned(a) == a.lo % kPageSize = 0

RECURSIVE IsPowerOfTwoNat(_)
IsPowerOfTwoNat(n) == n = 1 \/ (n > 1 /\ n % 2 = 0 /\ IsPowerOfTwoNat(n \div 2))

PowerOfTwo(a) ==
  \/ a.lo = 0 /\ IsPowerOfTwoNat(a.hi)
  \/ a.hi = 0 /\ IsPowerOfTwoNat(a.lo)

\* struct MemoryRange: [start_address; start_address + num_bytes).
MemoryRange(start, num) == [start_address |-> start, num_bytes |-> num]

RangeLimit(r) == Plus(r.start_address, r.num_bytes)

Disjoint(r1, r2) ==
  LessEq(RangeLimit(r1), r2.start_address) \/ LessEq(RangeLimit(r2), r1.start_address)

\* Mutant: the x86-64 code range is 1.5 GB, not a power of two.
DEFAULT_FUZZING_CONFIG_X86_64_CodeSize ==
  [arch        |-> "x86_64",
   code_range  |-> MemoryRange(Bytes(\h3000, 0), Bytes(\h6000, 0)),
   data1_range |-> MemoryRange(Bytes(\h1, 0), Bytes(\h2000, 0)),
   data2_range |-> MemoryRange(Bytes(\h100001, 0), Bytes(\h2000, 0))]

DEFAULT_FUZZING_CONFIG_X86_64 ==
  [arch        |-> "x86_64",
   code_range  |-> MemoryRange(Bytes(\h3000, 0), Bytes(\h8000, 0)),
   data1_range |-> MemoryRange(Bytes(\h1, 0), Bytes(\h2000, 0)),
   data2_range |-> MemoryRange(Bytes(\h100001, 0), Bytes(\h2000, 0))]

DEFAULT_FUZZING_CONFIG_AARCH64 ==
  [arch        |-> "aarch64",
   code_range  |-> MemoryRange(Bytes(\h3000, 0), Bytes(\h8000, 0)),
   stack_range |-> MemoryRange(Bytes(\h200, 0), Bytes(0, \h1000)),
   data1_range |-> MemoryRange(Bytes(\h70000, 0), Bytes(\h40, 0)),
   data2_range |-> MemoryRange(Bytes(\h10070000, 0), Bytes(\h40, 0))]

\* Mutant: data2 is placed at data1's address (a copy-paste slip).
LIMITED_MEMORY_FUZZING_CONFIG_AARCH64_Overlap ==
  [arch        |-> "aarch64",
   code_range  |-> MemoryRange(Bytes(\h3000, 0), Bytes(\h8000, 0)),
   stack_range |-> MemoryRange(Bytes(\h200, 0), Bytes(0, \h1000)),
   data1_range |-> MemoryRange(Bytes(\h70000, 0), Bytes(0, \h4000)),
   data2_range |-> MemoryRange(Bytes(\h70000, 0), Bytes(0, \h4000))]

LIMITED_MEMORY_FUZZING_CONFIG_AARCH64 ==
  [arch        |-> "aarch64",
   code_range  |-> MemoryRange(Bytes(\h3000, 0), Bytes(\h8000, 0)),
   stack_range |-> MemoryRange(Bytes(\h200, 0), Bytes(0, \h1000)),
   data1_range |-> MemoryRange(Bytes(\h70000, 0), Bytes(0, \h4000)),
   data2_range |-> MemoryRange(Bytes(\h10070000, 0), Bytes(0, \h4000))]

\* The ranges of FuzzingConfig<X86_64> and FuzzingConfig<AArch64>, in the
\* order the structs declare them.
X86Ranges(cfg) == <<cfg.code_range, cfg.data1_range, cfg.data2_range>>

AArch64Ranges(cfg) ==
  <<cfg.code_range, cfg.stack_range, cfg.data1_range, cfg.data2_range>>

Ranges(cfg) == IF cfg.arch = "x86_64" THEN X86Ranges(cfg) ELSE AArch64Ranges(cfg)

\* The constraints the structs' comments and spec 2 state: the code range
\* starts page aligned and spans a power of two; every other range starts
\* page aligned and spans a non-zero multiple of the page size.
CodeRangeOk(r) == PageAligned(r.start_address) /\ PowerOfTwo(r.num_bytes)

DataRangeOk(r) ==
  PageAligned(r.start_address) /\ PageAligned(r.num_bytes) /\ ~IsZero(r.num_bytes)

=============================================================================
