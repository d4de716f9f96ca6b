-------------------------- MODULE MCRuntimeLogStream --------------------------
(***************************************************************************)
(* TLC instance of RuntimeLogStream.  A log that overflows the buffer, the *)
(* snapshot and the panel, a channel and a connection that fill up, three  *)
(* faults, so that a retry fails again, and two servers.                   *)
(***************************************************************************)
EXTENDS RuntimeLogStream

MCCap       == 3
MCReplay    == 2
MCQueueCap  == 2
MCWireCap   == 3
MCMaxShown  == 2
MCMaxLines  == 5
MCMaxBoots  == 2
MCMaxFaults == 3
===============================================================================
