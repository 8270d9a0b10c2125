-------------------------- MODULE RegisterChecksum --------------------------
(***************************************************************************)
(* The register checksum engine (src/util/reg_group_io.cc): the two        *)
(* GetRegisterGroupsChecksum specialisations, and a producer that fills    *)
(* RegisterGroupIOBuffers (a backend's GetRegisters, spec 4.1, 4.4), so    *)
(* that the checksums of two runs can be compared, the way a snapshot's    *)
(* expected checksum is compared with a replay's.                          *)
(*                                                                         *)
(* A buffer field's bytes are abstracted to the content of its active      *)
(* bytes and the content of the bytes past them (the tail, which exists    *)
(* only for SVE fields below the maximum vector width).  A crc32c call is  *)
(* abstracted to the item it appends to the folded byte stream: the field, *)
(* the length, and what those bytes hold.  A length short of the active    *)
(* bytes folds only part of them, and the item then cannot tell contents   *)
(* apart.  CRC32C collisions are not modelled: a checksum is its stream.   *)
(***************************************************************************)
EXTENDS Integers, Sequences, FiniteSets

CONSTANTS
  Values,               \* register contents a run may produce
  TailValues,           \* what may lie in a buffer past the active bytes
  SveWidths,            \* SVE vector widths in bytes the host may run at
  kSveZRegMaxSizeBytes, \* sve_constants.h
  kSvePRegSizeZRegFactor,
  kSveNumPReg,
  kSveNumZReg,
  kYmmBytes,            \* sizeof(buffer.ymm), sizeof(buffer.zmm),
  kZmmBytes,            \* sizeof(buffer.opmask)
  kOpmaskBytes

ASSUME \A w \in SveWidths : w % 16 = 0 /\ 16 <= w /\ w <= kSveZRegMaxSizeBytes

Arches == {"x86_64", "aarch64"}
X86Fields == {"ymm", "zmm", "opmask"}
SveFields == {"ffr", "p", "z"}

\* sizeof(buffer.ffr): one predicate register at the maximum width.
kSvePRegMaxSizeBytes == kSveZRegMaxSizeBytes \div kSvePRegSizeZRegFactor

\* A RegisterChecksum: the register groups (for x86-64 the set of AVX and
\* AVX512 bits, for AArch64 the SVE vector width, 0 without SVE) and the
\* folded stream.  NoChecksum and NoBuffer stand for "not computed yet".
NoChecksum == [groups |-> {}, width |-> -1, stream |-> <<>>]
NoBuffer == [arch |-> "none", groups |-> {}, width |-> -1, content |-> <<>>]

\* The active bytes of a field: all of an x86 field; for SVE, packed at
\* width w, one predicate register is w / 8 bytes, the 16 p registers
\* w / 8 * 16 bytes and the 32 z registers w * 32 bytes.
ActiveBytes(f, w) ==
  CASE f = "ymm"    -> kYmmBytes
    [] f = "zmm"    -> kZmmBytes
    [] f = "opmask" -> kOpmaskBytes
    [] f = "ffr"    -> w \div kSvePRegSizeZRegFactor
    [] f = "p"      -> (w \div kSvePRegSizeZRegFactor) * kSveNumPReg
    [] f = "z"      -> w * kSveNumZReg

\* crc32c(crc, buffer.f, len): the item appended to the folded stream.
Fold(b, f, len) ==
  LET active == ActiveBytes(f, b.width) IN
  IF len < active THEN <<f, len, "partial">>
  ELSE IF len = active THEN <<f, len, b.content[f].active>>
  ELSE <<f, len, b.content[f].active, b.content[f].tail>>

\* Mutant: the AVX512 branch folds the zmm registers but not the opmasks.
X86ChecksumNoOpmask(b) ==
  LET ymm == IF "AVX" \in b.groups THEN <<Fold(b, "ymm", kYmmBytes)>> ELSE <<>>
      avx512 == IF "AVX512" \in b.groups
                THEN <<Fold(b, "zmm", kZmmBytes)>> ELSE <<>>
  IN [groups |-> b.groups, width |-> 0, stream |-> ymm \o avx512]

\* GetRegisterGroupsChecksum<X86_64>: ymm if AVX is set; zmm then opmask if
\* AVX512 is set; the result carries the groups it folded.
X86Checksum(b) ==
  LET ymm == IF "AVX" \in b.groups THEN <<Fold(b, "ymm", kYmmBytes)>> ELSE <<>>
      avx512 == IF "AVX512" \in b.groups
                THEN <<Fold(b, "zmm", kZmmBytes), Fold(b, "opmask", kOpmaskBytes)>>
                ELSE <<>>
  IN [groups |-> (IF "AVX" \in b.groups THEN {"AVX"} ELSE {})
                 \cup (IF "AVX512" \in b.groups THEN {"AVX512"} ELSE {}),
      width |-> 0, stream |-> ymm \o avx512]

\* Mutant: the p registers are folded as one register's worth of bytes.
SveChecksumOnePReg(b) ==
  LET w == b.width IN
  IF w = 0 THEN [groups |-> {}, width |-> 0, stream |-> <<>>]
  ELSE [groups |-> {}, width |-> w,
        stream |-> <<Fold(b, "ffr", kSvePRegMaxSizeBytes),
                     Fold(b, "p", w \div kSvePRegSizeZRegFactor),
                     Fold(b, "z", w * kSveNumZReg)>>]

\* GetRegisterGroupsChecksum<AArch64>: with SVE, ffr (sizeof(buffer.ffr)
\* bytes), then p and z at the current width; the width is recorded.
SveChecksum(b) ==
  LET w == b.width IN
  IF w = 0 THEN [groups |-> {}, width |-> 0, stream |-> <<>>]
  ELSE [groups |-> {}, width |-> w,
        stream |-> <<Fold(b, "ffr", kSvePRegMaxSizeBytes),
                     Fold(b, "p", (w \div kSvePRegSizeZRegFactor) * kSveNumPReg),
                     Fold(b, "z", w * kSveNumZReg)>>]

GetRegisterGroupsChecksum(b) ==
  IF b.arch = "x86_64" THEN X86Checksum(b) ELSE SveChecksum(b)

-----------------------------------------------------------------------------

\* The fields a buffer's groups make valid.
ValidFields(b) ==
  IF b.arch = "x86_64"
  THEN (IF "AVX" \in b.groups THEN {"ymm"} ELSE {})
       \cup (IF "AVX512" \in b.groups THEN {"zmm", "opmask"} ELSE {})
  ELSE IF b.width > 0 THEN SveFields ELSE {}

\* The buffers a backend's GetRegisters may produce on a host of `arch`:
\* valid fields hold the registers; registers of absent groups are left
\* zero; the bytes past the active width are not specified.
Buffers(arch) ==
  LET fields == IF arch = "x86_64" THEN X86Fields ELSE SveFields
      gs == IF arch = "x86_64" THEN SUBSET {"AVX", "AVX512"} ELSE {{}}
      ws == IF arch = "x86_64" THEN {0} ELSE SveWidths \cup {0}
      Mk(g, w, c) == [arch |-> arch, groups |-> g, width |-> w, content |-> c]
  IN {b \in {Mk(g, w, c) : g \in gs, w \in ws,
                           c \in [fields -> [active : Values \cup {"zero"},
                                             tail : TailValues]]} :
        /\ \A f \in fields :
             /\ f \notin ValidFields(b) => b.content[f].active = "zero"
             /\ f \notin ValidFields(b) \/ arch = "x86_64"
                \/ b.width = kSveZRegMaxSizeBytes => b.content[f].tail = "zero"
        /\ \A f \in ValidFields(b) : b.content[f].active \in Values}

\* Buffers, per architecture (a constant, so that it is computed once).
BuffersOf == [a \in Arches |-> Buffers(a)]

VARIABLES arch, buf, sum

vars == <<arch, buf, sum>>

Runs == {1, 2}

Init ==
  /\ arch \in Arches
  /\ buf = [k \in Runs |-> NoBuffer]
  /\ sum = [k \in Runs |-> NoChecksum]

\* Run k reads its registers into a buffer.
GetRegisters(k) ==
  /\ buf[k].arch = "none"
  /\ buf' \in {[buf EXCEPT ![k] = b] : b \in BuffersOf[arch]}
  /\ UNCHANGED <<arch, sum>>

\* Run k checksums its buffer.
Checksum(k) ==
  /\ buf[k].arch # "none" /\ sum[k].width = -1
  /\ sum' = [sum EXCEPT ![k] = GetRegisterGroupsChecksum(buf[k])]
  /\ UNCHANGED <<arch, buf>>

Next == \E k \in Runs : GetRegisters(k) \/ Checksum(k)

Spec == Init /\ [][Next]_vars

-----------------------------------------------------------------------------
(* Properties                                                              *)

Done(k) == sum[k].width # -1

\* The architectural state a buffer describes: its groups (or width) and
\* the contents of the fields they make valid.
ValidState(b) ==
  <<b.groups, b.width, [f \in ValidFields(b) |-> b.content[f].active]>>

TypeOK ==
  /\ arch \in Arches
  /\ \A k \in Runs : buf[k] = NoBuffer \/ buf[k] \in BuffersOf[arch]
  /\ \A k \in Runs : Done(k) =>
       /\ sum[k].groups = buf[k].groups /\ sum[k].width = buf[k].width
       /\ Len(sum[k].stream) = Cardinality(ValidFields(buf[k]))

\* Equal checksums of two runs mean equal register groups (the same SVE
\* width) and equal contents of every register the groups make valid: no
\* difference in a checked register can hide behind a checksum match.
SameChecksumSameState ==
  (Done(1) /\ Done(2) /\ sum[1] = sum[2])
    => ValidState(buf[1]) = ValidState(buf[2])

\* Spec 4.4: two runs that leave the same valid registers under the same
\* groups get the same checksum; only the active bytes of variable-width
\* registers are folded.
ActiveBytesOnly ==
  (Done(1) /\ Done(2) /\ ValidState(buf[1]) = ValidState(buf[2]))
    => sum[1] = sum[2]

=============================================================================
