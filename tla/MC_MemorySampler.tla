-------------------------- MODULE MC_MemorySampler --------------------------
(* One or two regions, one page apart, of 1, 8 or 9 pages (below, at and  *)
(* above the eight sampled pages), writable or read-only.                 *)
EXTENDS MemorySampler

Page == 4096
Region(b, pages, perms) == [begin |-> b, end |-> b + pages * Page - 1, perms |-> perms]
Sizes == {1, 8, 9}
Perms == {{"read"}, {"read", "write"}}

MCRegionMaps ==
  {<<Region(0, s, p)>> : s \in Sizes, p \in Perms}
  \cup {<<Region(0, s1, p1), Region((s1 + 1) * Page, s2, p2)>> :
          s1 \in Sizes, p1 \in Perms, s2 \in Sizes, p2 \in Perms}
=============================================================================
