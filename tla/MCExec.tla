------------------------------- MODULE MCExec -------------------------------
(* Instances of Exec for TLC, with pages of two units.  Page numbers keep   *)
(* the order of the real layout: kernel, pages for next_virtual, frames, of *)
(* which the first lie below the end of the first table, programs, stack.   *)
EXTENDS Exec

Region(b, l, t) == [base |-> b, length |-> l, type |-> t]

\* n frames behind a reserved region.
Machine(n) == <<Region(0, 4, 1), Region(4, 4, 2), Region(8, 2 * n, 1)>>

BigMap == Machine(15)

\* Not enough for the first program, for its stack, for a second process, for
\* its exec.
AllMachines == {Machine(n) : n \in {3, 5, 6, 8, 11, 15}}

Segment(v, o, f, m) == [load |-> TRUE, vaddr |-> v, offset |-> o, filesz |-> f, memsz |-> m]
NoSegment == [load |-> FALSE, vaddr |-> 0, offset |-> 0, filesz |-> 0, memsz |-> 0]

File(machine, type, entry, segments) ==
    [magic |-> TRUE, class32 |-> TRUE, i386 |-> machine, current |-> TRUE,
     type |-> type, entry |-> entry, segments |-> segments]

\* A program with a segment that starts inside a page and ends in zeros, one
\* at the same page with two segments, a relocatable file, and one for
\* another machine.
SomeFiles ==
    [elf_test |-> File(TRUE, "EXEC", 41, <<NoSegment, Segment(41, 1, 1, 2)>>),
     hello |-> File(TRUE, "EXEC", 40, <<Segment(40, 0, 2, 2), Segment(42, 3, 1, 1)>>),
     object |-> File(TRUE, "REL", 0, <<>>),
     foreign |-> File(FALSE, "EXEC", 40, <<Segment(40, 0, 2, 2)>>)]
=============================================================================
