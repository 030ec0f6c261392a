-------------------------------- MODULE Pool --------------------------------
(***************************************************************************)
(* What a frame allocator promises, without maps, tables or an order of    *)
(* search: memory is free or handed out, in pieces of one size; a piece    *)
(* comes out of free memory as a whole and goes back as a whole, and       *)
(* nothing else happens.  A call that fails does nothing.                  *)
(***************************************************************************)
EXTENDS Integers

CONSTANTS Memory,  \* the addresses there are
          Size     \* of a piece

VARIABLES avail,   \* the addresses that are free
          taken    \* where the pieces that were handed out start

Piece(a) == a .. a + Size - 1

Init == avail = Memory /\ taken = {}

Take(a) ==
    /\ a # 0 /\ Piece(a) \subseteq avail
    /\ avail' = avail \ Piece(a)
    /\ taken' = taken \cup {a}

Give(a) ==
    /\ a \in taken
    /\ avail' = avail \cup Piece(a)
    /\ taken' = taken \ {a}

Next == (\E a \in avail : Take(a)) \/ (\E a \in taken : Give(a))

Spec == Init /\ [][Next]_<<avail, taken>>
=============================================================================
