------------------------------ MODULE MCProcess ------------------------------
(* The instances of Process that TLC checks; the constants are in the cfgs. *)
EXTENDS Process

\* ContextsKept and Esp0Safe say nothing of states behind a mishap, and in them
\* ReadyRuns has what it asks for: the first state with one is checked and not
\* explored further.
UntilMixed == mishaps = {}
=============================================================================
