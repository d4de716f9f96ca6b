---------------------------- MODULE MCProcessHandle ----------------------------
(***************************************************************************)
(* TLC instances of ProcessHandle.  Shutdown and an unload may terminate   *)
(* the same process, hence two callers; a pipe that holds one line makes   *)
(* its writer wait, two lines make an order and a loss visible.            *)
(***************************************************************************)
EXTENDS ProcessHandle, TLC

CONSTANTS t1, t2

MCCallers  == {t1, t2}
EveryFault == AllFaults
HelperOnly == {"helper"}
LongOnly   == {"longLine"}
===============================================================================
