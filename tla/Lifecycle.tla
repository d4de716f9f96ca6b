------------------------------- MODULE Lifecycle -------------------------------
(***************************************************************************)
(* What a process-backed runtime promises to the service and to the users  *)
(* who poll it: the status reported for each model moves along the life    *)
(* cycle of docs/api.md, one edge at a time, and a load that has been      *)
(* started is eventually settled.  In particular a model that has failed   *)
(* is running again only after a new load.                                 *)
(***************************************************************************)
CONSTANT Models

VARIABLE status  \* status[m]: the state reported for model m

Init == status = [m \in Models |-> "stopped"]

Move(m, from, to) ==
  /\ status[m] \in from
  /\ status' = [status EXCEPT ![m] = to]

Load(m)   == Move(m, {"stopped", "failed"}, "starting")
Ready(m)  == Move(m, {"starting"}, "running")
Fail(m)   == Move(m, {"starting", "running"}, "failed")
Stop(m)   == Move(m, {"running"}, "stopping")
Unload(m) == Move(m, {"stopping", "failed"}, "stopped")

\* The server exits, and everything it ran has been stopped.
Exit == status' = [m \in Models |-> "stopped"]

Next ==
  \/ \E m \in Models : Load(m) \/ Ready(m) \/ Fail(m) \/ Stop(m) \/ Unload(m)
  \/ Exit

Spec == Init /\ [][Next]_status
===============================================================================
