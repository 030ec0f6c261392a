------------------------------- MODULE MCHeap -------------------------------
(* Instances of Heap for TLC.                                              *)
EXTENDS Heap

CONSTANT MaxLive  \* bound: pieces that are held at a time

\* Bound: no more pieces than MaxLive are held.
FewLive == Cardinality(live) <= MaxLive
=============================================================================
