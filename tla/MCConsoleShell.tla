--------------------------- MODULE MCConsoleShell ---------------------------
(***************************************************************************)
(* TLC instance of ConsoleShell.  One key, right or wrong or none; two     *)
(* requests of a kind, so that answers overtake each other; a user who     *)
(* goes to and fro and an outage that ends.                                *)
(***************************************************************************)
EXTENDS ConsoleShell

MCMaxFlight  == 2
MCMaxMoves   == 2
MCMaxChanges == 1
=============================================================================
