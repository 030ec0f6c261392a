------------------------------- MODULE MCBoot -------------------------------
(* Instances of Boot for TLC: all lists of up to three regions.            *)
EXTENDS Boot

Entry(cx, valid, length) == [cx |-> cx, valid |-> valid, length |-> length]

Kinds == {Entry(0, TRUE, 0), Entry(20, TRUE, 1), Entry(20, TRUE, 0),
          Entry(24, TRUE, 1), Entry(24, FALSE, 1)}

SmallLists == UNION {[1 .. n -> Kinds] : n \in 0 .. 3}
=============================================================================
