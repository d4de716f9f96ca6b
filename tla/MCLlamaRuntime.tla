---------------------------- MODULE MCLlamaRuntime ----------------------------
(***************************************************************************)
(* TLC instances of LlamaRuntime.  m1 takes any port of a range of two, m2 *)
(* is configured with one of them, so the two compete for it.  Three       *)
(* instance objects: one in the map for each model, and one more that an   *)
(* earlier load left behind (its monitor has not run yet).                 *)
(***************************************************************************)
EXTENDS LlamaRuntime, TLC

CONSTANTS m1, m2, i1, i2, i3, p1, p2, c1

MCModels  == {m1, m2}
MCModels1 == {m2}
MCInsts   == {i1, i2, i3}
MCInsts2  == {i1, i2}
MCPorts   == {p1, p2}
MCPorts1  == {p2}
MCClients   == {c1}
MCNoClients == {}
MCPortsOf == [m \in MCModels |-> IF m = m2 THEN {p2} ELSE {p1, p2}]

MCPortsOf1 == [m \in MCModels1 |-> MCPorts1]

\* What the code handles as documented: every failure of a process, except in
\* the short window after the health answer, and an orderly shutdown.
HandledFaults == {"startFails", "crashStart", "crashRun", "helper"}
VisionCrash   == {"crashVision"}
TimeoutOnly   == {"waitEnds"}
OverrunOnly   == {"overrun"}
NoFaults      == {}

MCSymmetry == Permutations(MCInsts)
===============================================================================
