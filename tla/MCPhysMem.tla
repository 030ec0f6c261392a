------------------------------ MODULE MCPhysMem ------------------------------
(* Instances of PhysMem for TLC, in units of half a page.                  *)
EXTENDS PhysMem

Region(b, l, t) == [base |-> b, length |-> l, type |-> t]

\* The shape of a PC: low memory at 0 (never used), a reserved hole, a small
\* usable region whose length is no multiple of a page, a reserved region
\* right behind it, and the large region, with more pages than table entries.
PcMap == <<Region(0, 2, 1), Region(2, 2, 2), Region(4, 5, 1), Region(9, 1, 3),
           Region(10, 22, 1), Region(32, 2, 2)>>
=============================================================================
