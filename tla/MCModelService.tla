---------------------------- MODULE MCModelService ----------------------------
(***************************************************************************)
(* TLC instances of ModelService.  One model is enough for the races: rows *)
(* and locks of different models do not touch.  Two requests are the       *)
(* smallest race, and with two mutex objects a newcomer finds the lock map *)
(* changed by a Delete while another still waits on the old mutex.         *)
(***************************************************************************)
EXTENDS ModelService, TLC

CONSTANTS d1, r1, r2, x1, x2, llamacpp, onnx

MCIds       == {d1}
OneReq      == {r1}
TwoReqs     == {r1, r2}
MCMutexes   == {x1, x2}
OneRuntime  == {llamacpp}
TwoRuntimes == {llamacpp, onnx}
OneField    == {"name"}
TwoFields   == {"name", "model_path"}
RuntimeField == {"name", "runtime"}
MCValues    == {0, 1}

NoFaults    == {}
RaceFaults  == {"cancel", "loadFails", "unloadFails", "overrun"}
BootFaults  == {"loadFails", "unloadFails", "crash", "serverDies"}
OverrunFault == {"overrun"}
DeleteAndLoad == {"create", "delete", "load"}
CreateUpdate  == {"create", "update"}
CreateLoad    == {"create", "load"}

PairSymmetry == Permutations(TwoReqs) \cup Permutations(MCMutexes)
===============================================================================
