--------------------------- MODULE MCPortAllocator ---------------------------
(***************************************************************************)
(* TLC instance of PortAllocator: two clients compete for a range of three *)
(* ports (the smallest in which a scan that starts in the middle wraps     *)
(* with a port on each side) and for one fixed port outside it.            *)
(***************************************************************************)
EXTENDS PortAllocator

CONSTANTS c1, c2

MCClients == {c1, c2}
===============================================================================
