------------------------------ MODULE MCConsole ------------------------------
(* The command that runs a program is the one character there is. *)
EXTENDS Console

MCHello == <<"a">>
=============================================================================
