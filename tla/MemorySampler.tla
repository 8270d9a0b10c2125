--------------------------- MODULE MemorySampler ---------------------------
(***************************************************************************)
(* UnicornTracer::PartialChecksumOfMutableMemory                           *)
(* (src/tracing/unicorn_tracer.h): for every region Unicorn reports, in    *)
(* the order uc_mem_regions returns them, if the region is writable, read  *)
(* its first min(8 pages, size) bytes one 4096-byte page at a time and     *)
(* extend a CRC32C with each page.  A region's end is inclusive, so its    *)
(* size is end - begin + 1.  The CRC is abstracted to the sequence of      *)
(* pages it was extended with (address and content).  Between checksums   *)
(* the snippet stores to writable pages.                                   *)
(***************************************************************************)
EXTENDS Integers, Sequences, FiniteSets

CONSTANTS
  RegionMaps,   \* the region lists uc_mem_regions may return
  kPageBytes,   \* sizeof(data)
  kMaxPages,    \* pages checksummed per region (8)
  MaxStores     \* stores the snippet makes

\* uc_mem_region: begin, inclusive end, perms.
Writable(r) == "write" \in r.perms

PageAddrs(rs) ==
  UNION {{r.begin + k * kPageBytes : k \in 0..((r.end - r.begin + 1) \div kPageBytes) - 1}
           : r \in {rs[n] : n \in 1..Len(rs)}}

\* What lies in the pages the snippet did not store to.
Initial == "initial"
Dirty == "stored"
\* A failed CHECK, and "no checksum taken yet", as page lists no fold yields.
CheckFailed == <<<<-1, "CHECK_EQ failed">>>>
NoSum == <<<<-1, "none">>>>

\* Mutant: the region size is taken as end - begin.
RegionBytesNoPlusOne(r) == r.end - r.begin

\* regions[i].end - regions[i].begin + 1
RegionBytes(r) == r.end - r.begin + 1

\* Pages folded for one writable region: offsets 0, 4096, ... below
\* end_offset = min(8 * 4096, size), after CHECK_EQ(end_offset % 4096, 0).
RegionPages(r, mem) ==
  LET size == RegionBytes(r)
      end_offset == IF kMaxPages * kPageBytes < size
                    THEN kMaxPages * kPageBytes ELSE size
  IN IF end_offset % kPageBytes # 0 THEN CheckFailed
     ELSE [k \in 1..end_offset \div kPageBytes |->
             LET a == r.begin + (k - 1) * kPageBytes IN <<a, mem[a]>>]

\* Mutant: the perms test is dropped and read-only regions are folded too.
RECURSIVE PartialChecksumAllRegions(_, _)
PartialChecksumAllRegions(rs, mem) ==
  IF rs = <<>> THEN <<>>
  ELSE LET here == RegionPages(Head(rs), mem)
           rest == PartialChecksumAllRegions(Tail(rs), mem)
       IN IF here = CheckFailed \/ rest = CheckFailed THEN CheckFailed
          ELSE here \o rest

\* The loop over the regions.
RECURSIVE PartialChecksum(_, _)
PartialChecksum(rs, mem) ==
  IF rs = <<>> THEN <<>>
  ELSE LET here == IF Writable(Head(rs)) THEN RegionPages(Head(rs), mem) ELSE <<>>
           rest == PartialChecksum(Tail(rs), mem)
       IN IF here = CheckFailed \/ rest = CheckFailed THEN CheckFailed
          ELSE here \o rest

VARIABLES regions, mem, sum, stores

vars == <<regions, mem, sum, stores>>

Init ==
  /\ regions \in RegionMaps
  /\ mem = [a \in PageAddrs(regions) |-> Initial]
  /\ sum = NoSum
  /\ stores = 0

\* The snippet, run by the tracer, stores to a page of a writable region.
Store ==
  /\ stores < MaxStores
  /\ \E n \in 1..Len(regions), a \in PageAddrs(regions) :
       /\ Writable(regions[n])
       /\ regions[n].begin <= a /\ a <= regions[n].end
       /\ mem' = [mem EXCEPT ![a] = Dirty]
  /\ stores' = stores + 1
  /\ UNCHANGED <<regions, sum>>

PartialChecksumOfMutableMemory ==
  /\ sum' = PartialChecksum(regions, mem)
  /\ UNCHANGED <<regions, mem, stores>>

Next == Store \/ PartialChecksumOfMutableMemory

Spec == Init /\ [][Next]_vars

-----------------------------------------------------------------------------
(* Properties                                                              *)

TypeOK ==
  /\ mem \in [PageAddrs(regions) -> {Initial, Dirty}]
  /\ stores \in 0..MaxStores
  /\ sum = NoSum \/ sum \in Seq(PageAddrs(regions) \X {Initial, Dirty})

\* The pages the checksum is meant to cover: the first kMaxPages pages of
\* every writable region.
SampledPages ==
  {a \in PageAddrs(regions) :
     \E n \in 1..Len(regions) :
       /\ Writable(regions[n])
       /\ regions[n].begin <= a /\ a <= regions[n].end
       /\ a < regions[n].begin + kMaxPages * kPageBytes}

\* The k-th smallest element of a set of numbers.
KthSmallest(S, k) == CHOOSE a \in S : Cardinality({b \in S : b < a}) = k - 1

\* Every checksum is taken, without failing its CHECK, over exactly the
\* first eight pages of each writable region (all of a shorter one), each
\* once, in ascending address order, with their current contents.
SampleIsFirstPages ==
  [][PartialChecksumOfMutableMemory =>
       sum' = [k \in 1..Cardinality(SampledPages) |->
                 LET a == KthSmallest(SampledPages, k) IN <<a, mem[a]>>]]_vars

=============================================================================
