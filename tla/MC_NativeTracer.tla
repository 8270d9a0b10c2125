-------------------------- MODULE MC_NativeTracer --------------------------
(* A snippet of two instructions that ends, one that loops over two        *)
(* instructions; caps 0 to 3, below, at and above the snippet's length.     *)
EXTENDS NativeTracer

MCSnippets == {[kind |-> "ends", len |-> 2], [kind |-> "loops", len |-> 2]}
MCCapValues == 0..3
MCRegs == {"r0", "r1"}
====
