---------------------------- MODULE MCConsoleShell ----------------------------
(* A small instance of ConsoleShell for TLC. *)
EXTENDS ConsoleShell
=============================================================================
