------------------------- MODULE MC_RegisterChecksum -------------------------
(* Two register contents, a zero or a stale tail past the active bytes,   *)
(* and the SVE widths 16 (with a tail) and 256 (the maximum, without one). *)
(* The sizes are those of sve_constants.h and of the x86-64 buffer.       *)
EXTENDS RegisterChecksum

MCValues == {"a", "b"}
MCTailValues == {"zero", "stale"}
MCSveWidths == {16, 256}
=============================================================================
