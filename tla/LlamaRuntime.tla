------------------------------ MODULE LlamaRuntime ------------------------------
(***************************************************************************)
(* The llama.cpp runtime (src/internal/runtime/llamacpp/runtime.go) with    *)
(* the process handles it holds (src/internal/process/process.go) and the   *)
(* ports it hands out (src/internal/process/ports.go, at the level of      *)
(* PortPool).                                                              *)
(*                                                                         *)
(* Every model has an API worker (the service serializes the calls for one *)
(* model) and a shutdown worker, the goroutine that Shutdown starts for it *)
(* without that lock.  A step of a worker is one critical section, or one  *)
(* return from a wait.  A monitor goroutine per started process, and the   *)
(* llama-server processes, take steps of their own.  A client's request    *)
(* for a model reads under the locks where it has to go, and is sent there *)
(* when the locks are released.                                            *)
(*                                                                         *)
(* Faults names what can go wrong in the environment, so that a run says   *)
(* under which faults a property holds.                                    *)
(***************************************************************************)
EXTENDS Naturals, FiniteSets

CONSTANTS
  Models,     \* model IDs
  Insts,      \* instance objects; one is reused when nothing refers to it
  Ports,      \* port numbers
  PortsOf,    \* PortsOf[m]: the port m is configured with, or the whole range
  Clients,    \* requests for models in flight at once
  Faults,     \* what may go wrong, a subset of AllFaults
  NoInst, NoPort, NoModel

AllFaults ==
  {"startFails",  \* the binary does not start
   "crashStart",  \* the process dies while it loads the model
   "crashVision", \* it dies between the health answer and the end of Load
   "crashRun",    \* it dies at any other time
   "waitEnds",    \* the startup timeout, or a cancelled request context
   "lateNotice",  \* an exit during startup is noticed late: a tick wins the
                  \* select, or the monitor does not run within 10 ms
   "helper",      \* it leaves a program behind that has its pipes open
   "killFails",   \* Terminate returns an error and the process lives on
   "overrun",     \* requests outlive the 30 s the HTTP server drains for
   "serverDies"}  \* the model server is killed; its children live on

ASSUME NullAssumption ==
  NoInst \notin Insts /\ NoPort \notin Ports /\ NoModel \notin Models
ASSUME PortsAssumption == PortsOf \in [Models -> SUBSET Ports]
ASSUME FaultsAssumption == Faults \subseteq AllFaults

VARIABLES
  instances, \* Runtime.instances
  inst,      \* the instance objects and the process and monitor of each
  reserved,  \* PortAllocator.reserved
  pc, cur,   \* per worker: where it is, and the instance it works on
  requests,  \* per client: the instance its request was routed to
  phase      \* of the model server: serving, shutdown or exited

vars == <<instances, inst, reserved, pc, cur, requests, phase>>

Workers == Models \X {"api", "shutdown"}
Api(m) == <<m, "api">>
ModelOf(w) == w[1]

States == {"none", "starting", "running", "stopping", "stopped", "failed"}
Labels == {"idle", "port", "start", "record", "wait", "vision", "failing",
           "terminate", "unload", "stop", "delete"}

\* proc is none, up (loading), listening (bound to base) or dead; mon is none
\* until the handle is recorded, then waiting, then done; held while a program
\* the process has started has its pipes open.
Blank == [owner |-> NoModel, state |-> "none", port |-> NoPort, base |-> NoPort,
          proc |-> "none", held |-> FALSE, mon |-> "none"]

\* A request remembers the instance (its base does not change any more) and,
\* for RequestsArrive alone, whether a monitor watched the process.
NoRequest == [to |-> NoInst, watched |-> FALSE]

Alive(i)  == inst[i].proc \in {"up", "listening"}

\* handle.Done is closed when the process is gone and both pipes have ended.
Done(i)   == inst[i].proc = "dead" /\ ~inst[i].held

Mapped(m) == instances[m] # NoInst
Bound     == {inst[i].base : i \in {j \in Insts : inst[j].proc = "listening"}}

\* Bug variant: the reservations are not looked at, only the probe is.
UsableProbeOnly(p) == p \notin Bound

\* What the allocator gives out: see PortPool.
Usable(p) == p \notin reserved /\ p \notin Bound

Referenced(i) ==
  \/ \E m \in Models : instances[m] = i
  \/ \E w \in Workers : cur[w] = i
  \/ \E c \in Clients : requests[c].to = i
  \/ inst[i].mon = "waiting"
  \/ Alive(i)

Goto(w, l) == pc' = [pc EXCEPT ![w] = l] /\ UNCHANGED cur

Return(w) ==
  /\ pc' = [pc EXCEPT ![w] = "idle"]
  /\ cur' = [cur EXCEPT ![w] = NoInst]

Init ==
  /\ instances = [m \in Models |-> NoInst]
  /\ inst = [i \in Insts |-> Blank]
  /\ reserved = {}
  /\ pc = [w \in Workers |-> "idle"]
  /\ cur = [w \in Workers |-> NoInst]
  /\ requests = [c \in Clients |-> NoRequest]
  /\ phase = "serving"

-------------------------------------------------------------------------------
(* Load                                                                    *)

\* Requests arrive while the server serves, and go on arriving at the
\* runtime during Shutdown only when they outlived the drain.
Accepting == phase = "serving" \/ (phase = "shutdown" /\ "overrun" \in Faults)

\* Otherwise Load returns ErrAlreadyLoaded, and nothing has changed.
Replaceable(m) == Mapped(m) => inst[instances[m]].state \notin {"running", "starting"}

BeginLoad(m, i) ==
  /\ Accepting
  /\ pc[Api(m)] = "idle"
  /\ Replaceable(m)
  /\ ~Referenced(i)
  /\ inst' = [inst EXCEPT ![i] = [Blank EXCEPT !.owner = m, !.state = "starting"]]
  /\ instances' = [instances EXCEPT ![m] = i]
  /\ pc' = [pc EXCEPT ![Api(m)] = "port"]
  /\ cur' = [cur EXCEPT ![Api(m)] = i]
  /\ UNCHANGED <<reserved, requests, phase>>

\* Bug variant: the port is forgotten, but not given back.
FailNoRelease(w) ==
  /\ inst' = [inst EXCEPT ![cur[w]] = [@ EXCEPT !.state = "failed", !.port = NoPort]]
  /\ Return(w)
  /\ UNCHANGED <<instances, reserved, requests, phase>>

\* fail: NoPort is in no reservation, so the release is a no-op without one.
Fail(w) ==
  /\ inst' = [inst EXCEPT ![cur[w]] = [@ EXCEPT !.state = "failed", !.port = NoPort]]
  /\ reserved' = reserved \ {inst[cur[w]].port}
  /\ Return(w)
  /\ UNCHANGED <<instances, requests, phase>>

TakePort(w) ==
  /\ pc[w] = "port"
  /\ \E p \in PortsOf[ModelOf(w)] :
       /\ Usable(p)
       /\ reserved' = reserved \cup {p}
       /\ inst' = [inst EXCEPT ![cur[w]] = [@ EXCEPT !.port = p, !.base = p]]
  /\ Goto(w, "start")
  /\ UNCHANGED <<instances, requests, phase>>

NoFreePort(w) ==
  /\ pc[w] = "port"
  /\ \A p \in PortsOf[ModelOf(w)] : ~Usable(p)
  /\ Fail(w)

StartServer(w) ==
  /\ pc[w] = "start"
  /\ inst' = [inst EXCEPT ![cur[w]].proc = "up"]
  /\ Goto(w, "record")
  /\ UNCHANGED <<instances, reserved, requests, phase>>

\* The process may have died by now; until here the instance has no handle.
RecordHandle(w) ==
  /\ pc[w] = "record"
  /\ inst' = [inst EXCEPT ![cur[w]].mon = "waiting"]
  /\ Goto(w, "wait")
  /\ UNCHANGED <<instances, reserved, requests, phase>>

StartFails(w) ==
  /\ "startFails" \in Faults
  /\ pc[w] = "start"
  /\ Fail(w)

\* Somebody answers at base: the probe cannot tell who.
Healthy(w) ==
  /\ pc[w] = "wait"
  /\ inst[cur[w]].base \in Bound
  /\ ~Done(cur[w]) \/ "lateNotice" \in Faults
  /\ Goto(w, "vision")
  /\ UNCHANGED <<instances, inst, reserved, requests, phase>>

\* waitHealthy returns an error: the time is up, or the process exited, and
\* then it sleeps for 10 ms to let the monitor run first.
NotHealthy(w) ==
  /\ pc[w] = "wait"
  /\ \/ "waitEnds" \in Faults
     \/ /\ Done(cur[w])
        /\ inst[cur[w]].mon = "done" \/ "lateNotice" \in Faults
  /\ Goto(w, "failing")
  /\ UNCHANGED <<instances, inst, reserved, requests, phase>>

\* The monitor has recorded the failure already.
AlreadyFailed(w) ==
  /\ pc[w] = "failing"
  /\ inst[cur[w]].state = "failed"
  /\ Return(w)
  /\ UNCHANGED <<instances, inst, reserved, requests, phase>>

GiveUp(w) ==
  /\ pc[w] = "failing"
  /\ inst[cur[w]].state # "failed"
  /\ Goto(w, "terminate")
  /\ UNCHANGED <<instances, inst, reserved, requests, phase>>

\* Terminate has returned, and what it returned is not looked at.
FailTerminated(w) ==
  /\ pc[w] = "terminate"
  /\ Done(cur[w])
  /\ Fail(w)

FailUnkilled(w) ==
  /\ "killFails" \in Faults
  /\ pc[w] = "terminate"
  /\ Fail(w)

\* Load is done, whatever became of the instance since the health probe.
MarkRunning(w) ==
  /\ pc[w] = "vision"
  /\ inst' = [inst EXCEPT ![cur[w]].state = "running"]
  /\ Return(w)
  /\ UNCHANGED <<instances, reserved, requests, phase>>

LoadStep(w) ==
  \/ TakePort(w) \/ NoFreePort(w) \/ StartServer(w) \/ StartFails(w)
  \/ RecordHandle(w) \/ Healthy(w) \/ NotHealthy(w) \/ AlreadyFailed(w)
  \/ GiveUp(w) \/ FailTerminated(w) \/ MarkRunning(w)

-------------------------------------------------------------------------------
(* Unload, called through the API or by Shutdown                           *)

\* Bug variant: the instance is taken out of the map before it is stopped.
StopInstanceLate(w, i) ==
  IF inst[i].state \in {"stopped", "failed"} \/ inst[i].mon = "none"
  THEN /\ inst' = [inst EXCEPT ![i].state = "stopped"]
       /\ pc' = [pc EXCEPT ![w] = "delete"]
  ELSE /\ inst' = [inst EXCEPT ![i].state = "stopping"]
       /\ pc' = [pc EXCEPT ![w] = "delete"]

\* What Unload decides under the instance's mutex.
StopInstance(w, i) ==
  IF inst[i].state \in {"stopped", "failed"} \/ inst[i].mon = "none"
  THEN /\ inst' = [inst EXCEPT ![i].state = "stopped"]
       /\ pc' = [pc EXCEPT ![w] = "delete"]
  ELSE /\ inst' = [inst EXCEPT ![i].state = "stopping"]
       /\ pc' = [pc EXCEPT ![w] = "stop"]

\* ErrNotLoaded, without effect, when the model is not in the map.
BeginUnload(m) ==
  /\ Accepting
  /\ pc[Api(m)] = "idle"
  /\ Mapped(m)
  /\ StopInstance(Api(m), instances[m])
  /\ cur' = [cur EXCEPT ![Api(m)] = instances[m]]
  /\ UNCHANGED <<instances, reserved, requests, phase>>

ShutdownUnload(w) ==
  /\ pc[w] = "unload"
  /\ \/ /\ Mapped(ModelOf(w))
        /\ StopInstance(w, instances[ModelOf(w)])
        /\ cur' = [cur EXCEPT ![w] = instances[ModelOf(w)]]
     \/ /\ ~Mapped(ModelOf(w))
        /\ Return(w)
        /\ UNCHANGED inst
  /\ UNCHANGED <<instances, reserved, requests, phase>>

Terminated(w) ==
  /\ pc[w] = "stop"
  /\ Done(cur[w])
  /\ Goto(w, "delete")
  /\ UNCHANGED <<instances, inst, reserved, requests, phase>>

\* Unload returns the error; the instance stays in the map, stopping.
TerminateFails(w) ==
  /\ "killFails" \in Faults
  /\ pc[w] = "stop"
  /\ Return(w)
  /\ UNCHANGED <<instances, inst, reserved, requests, phase>>

\* The entry is deleted by model ID, whichever instance it names by now.
DeleteEntry(w) ==
  /\ pc[w] = "delete"
  /\ instances' = [instances EXCEPT ![ModelOf(w)] = NoInst]
  /\ Return(w)
  /\ UNCHANGED <<inst, reserved, requests, phase>>

UnloadStep(w) == ShutdownUnload(w) \/ Terminated(w) \/ DeleteEntry(w)

\* Terminate returns an error, in Load or in Unload.
KillFailure(w) == FailUnkilled(w) \/ TerminateFails(w)

-------------------------------------------------------------------------------
(* Requests for a model                                                    *)

\* Bug variant: the state is not looked at.
RouteAnyState(c, m) ==
  /\ Accepting
  /\ requests[c].to = NoInst
  /\ Mapped(m)
  /\ requests' = [requests EXCEPT ![c] =
       [to |-> instances[m], watched |-> inst[instances[m]].mon = "waiting"]]
  /\ UNCHANGED <<instances, inst, reserved, pc, cur, phase>>

\* Infer and ProxyHandler read state and base under the instance's mutex; a
\* model that is not running refuses the request.
Route(c, m) ==
  /\ Accepting
  /\ requests[c].to = NoInst
  /\ Mapped(m)
  /\ inst[instances[m]].state = "running"
  /\ requests' = [requests EXCEPT ![c] =
       [to |-> instances[m], watched |-> inst[instances[m]].mon = "waiting"]]
  /\ UNCHANGED <<instances, inst, reserved, pc, cur, phase>>

\* The locks are free again when base is dialled: whoever listens there now
\* gets the request, and an answer or an error comes back.
Answered(c) ==
  /\ requests[c].to # NoInst
  /\ requests' = [requests EXCEPT ![c] = NoRequest]
  /\ UNCHANGED <<instances, inst, reserved, pc, cur, phase>>

-------------------------------------------------------------------------------
(* Monitors and processes                                                  *)

\* Bug variant: the port is given back only after an unexpected exit.
MonitorKeepsPort(i) ==
  /\ inst[i].mon = "waiting"
  /\ Done(i)
  /\ IF inst[i].state \in {"stopping", "stopped"}
     THEN /\ inst' = [inst EXCEPT ![i] = [@ EXCEPT !.mon = "done", !.state = "stopped"]]
          /\ UNCHANGED reserved
     ELSE /\ inst' = [inst EXCEPT ![i] = [@ EXCEPT !.mon = "done", !.state = "failed"]]
          /\ reserved' = reserved \ {inst[i].port}
  /\ UNCHANGED <<instances, pc, cur, requests, phase>>

\* Bug variant: every exit is recorded as a stop that was asked for.
MonitorNoFailure(i) ==
  /\ inst[i].mon = "waiting"
  /\ Done(i)
  /\ reserved' = reserved \ {inst[i].port}
  /\ inst' = [inst EXCEPT ![i] = [@ EXCEPT !.mon = "done", !.state = "stopped"]]
  /\ UNCHANGED <<instances, pc, cur, requests, phase>>

\* The port is released; the instance keeps its number (no reset to 0).
Monitor(i) ==
  /\ inst[i].mon = "waiting"
  /\ Done(i)
  /\ reserved' = reserved \ {inst[i].port}
  /\ inst' = [inst EXCEPT ![i] = [@ EXCEPT
       !.mon = "done",
       !.state = IF inst[i].state \in {"stopping", "stopped"} THEN "stopped" ELSE "failed"]]
  /\ UNCHANGED <<instances, pc, cur, requests, phase>>

ProcBecomes(i, s) ==
  /\ inst' = [inst EXCEPT ![i].proc = s]
  /\ UNCHANGED <<instances, reserved, pc, cur, requests, phase>>

\* llama-server binds its port, or exits because it cannot.
Listen(i)    == inst[i].proc = "up" /\ inst[i].base \notin Bound /\ ProcBecomes(i, "listening")
BindFails(i) == inst[i].proc = "up" /\ inst[i].base \in Bound /\ ProcBecomes(i, "dead")

Working(i, labels) == \E w \in Workers : cur[w] = i /\ pc[w] \in labels

\* Bug variant: no SIGKILL follows, and a server that serves ignores SIGTERM.
KilledPolitely(i) ==
  /\ inst[i].proc = "up"
  /\ Working(i, {"terminate", "stop"})
  /\ ProcBecomes(i, "dead")

\* SIGTERM, then SIGKILL after the stop timeout.
Killed(i) ==
  /\ Alive(i)
  /\ Working(i, {"terminate", "stop"})
  /\ ProcBecomes(i, "dead")

Crash(i) ==
  /\ \/ "crashStart" \in Faults /\ inst[i].proc = "up"
     \/ /\ inst[i].proc = "listening"
        /\ (IF Working(i, {"vision"}) THEN "crashVision" ELSE "crashRun") \in Faults
  /\ ProcBecomes(i, "dead")

\* The process starts a program that inherits its pipes and may outlive it.
HelperStarts(i) ==
  /\ "helper" \in Faults
  /\ Alive(i)
  /\ inst' = [inst EXCEPT ![i].held = TRUE]
  /\ UNCHANGED <<instances, reserved, pc, cur, requests, phase>>

HelperEnds(i) ==
  /\ inst[i].held
  /\ inst' = [inst EXCEPT ![i].held = FALSE]
  /\ UNCHANGED <<instances, reserved, pc, cur, requests, phase>>

-------------------------------------------------------------------------------
(* The model server                                                        *)

\* The HTTP server has drained, or its 30 seconds are over; Shutdown starts
\* one worker for each model in the map.
BeginShutdown ==
  /\ phase = "serving"
  /\ \/ "overrun" \in Faults
     \/ /\ \A m \in Models : pc[Api(m)] = "idle"
        /\ \A c \in Clients : requests[c] = NoRequest
  /\ phase' = "shutdown"
  /\ pc' = [w \in Workers |->
              IF w[2] = "shutdown" /\ Mapped(w[1]) THEN "unload" ELSE pc[w]]
  /\ UNCHANGED <<instances, inst, reserved, cur, requests>>

\* The server is gone, and with it everything but the processes: they run in
\* process groups of their own.
ServerGone ==
  /\ phase' = "exited"
  /\ instances' = [m \in Models |-> NoInst]
  /\ reserved' = {}
  /\ pc' = [w \in Workers |-> "idle"]
  /\ cur' = [w \in Workers |-> NoInst]
  /\ requests' = [c \in Clients |-> NoRequest]
  /\ inst' = [i \in Insts |->
       [inst[i] EXCEPT !.state = "none", !.port = NoPort, !.held = FALSE, !.mon = "none"]]

EndShutdown ==
  /\ phase = "shutdown"
  /\ \A m \in Models : pc[<<m, "shutdown">>] = "idle"
  /\ ServerGone

ServerDies == "serverDies" \in Faults /\ phase # "exited" /\ ServerGone

Boot ==
  /\ phase = "exited"
  /\ phase' = "serving"
  /\ UNCHANGED <<instances, inst, reserved, pc, cur, requests>>

Step(w) == LoadStep(w) \/ UnloadStep(w)

Next ==
  \/ \E m \in Models : BeginUnload(m) \/ \E i \in Insts : BeginLoad(m, i)
  \/ \E w \in Workers : Step(w) \/ KillFailure(w)
  \/ \E c \in Clients : Answered(c) \/ \E m \in Models : Route(c, m)
  \/ \E i \in Insts : Monitor(i) \/ Listen(i) \/ BindFails(i) \/ Killed(i) \/ Crash(i)
  \/ \E i \in Insts : HelperStarts(i) \/ HelperEnds(i)
  \/ BeginShutdown \/ EndShutdown \/ ServerDies \/ Boot

Spec == Init /\ [][Next]_vars

\* The goroutines of the server are scheduled, a process that is killed dies,
\* and the startup timer fires (NotHealthy, with "waitEnds" in Faults).  Not
\* assumed: that anybody calls the API, that a process ever binds its port or
\* exits by itself, that a helper ends, or that a signal is ever refused.
Fairness ==
  /\ \A w \in Workers : WF_vars(Step(w))
  /\ \A i \in Insts : WF_vars(Monitor(i)) /\ WF_vars(Killed(i))
  /\ WF_vars(EndShutdown)

FairSpec == Spec /\ Fairness

-------------------------------------------------------------------------------
(* Properties                                                              *)

InstType ==
  [owner : Models \cup {NoModel}, state : States,
   port : Ports \cup {NoPort}, base : Ports \cup {NoPort},
   proc : {"none", "up", "listening", "dead"}, held : BOOLEAN,
   mon : {"none", "waiting", "done"}]

TypeOK ==
  /\ instances \in [Models -> Insts \cup {NoInst}]
  /\ inst \in [Insts -> InstType]
  /\ reserved \subseteq Ports
  /\ pc \in [Workers -> Labels]
  /\ cur \in [Workers -> Insts \cup {NoInst}]
  /\ requests \in [Clients -> [to : Insts \cup {NoInst}, watched : BOOLEAN]]
  /\ phase \in {"serving", "shutdown", "exited"}

\* Someone is bound to give p back: the load that is about to start a process
\* on it, or the monitor of the process that was started.
WillRelease(i) == inst[i].mon = "waiting" \/ Working(i, {"start", "record"})

\* No port leaks: whatever fails, a reserved port has somebody left who will
\* release it (Load's fail and monitor share that duty, runtime.go 242-245
\* and 392-394).
NoPortLeak == \A p \in reserved : \E i \in Insts : inst[i].port = p /\ WillRelease(i)

\* A program that a dead process left behind keeps Done from being closed.
Held(i) == inst[i].proc = "dead" /\ inst[i].held

\* A port that is reserved is released again, serves a process, or waits for
\* the end of what its process has left behind: a failed or unloaded model
\* does not keep the range exhausted.
PortsComeBack ==
  \A p \in Ports :
    p \in reserved ~> \/ p \notin reserved
                      \/ \E i \in Insts : inst[i].base = p /\ (Alive(i) \/ Held(i))

\* Load, Unload and Shutdown return, unless they wait for what a process that
\* is dead has left behind (process.go 128 has no limit).
OperationsReturn ==
  \A w \in Workers :
    pc[w] # "idle" ~> pc[w] = "idle" \/ \E i \in Insts : cur[w] = i /\ Held(i)

\* The runtime never loses track of a process: a live one belongs to the
\* instance its model's map entry names, so that Unload and Shutdown find it,
\* and so a model never has two processes.
Tracked ==
  phase # "exited" => \A i \in Insts : Alive(i) => instances[inst[i].owner] = i

\* The port of a live process stays reserved, and no two live processes have
\* the same one (ports.go 12-13).
DistinctPorts ==
  \A i \in Insts : Alive(i) =>
    /\ phase # "exited" => inst[i].base \in reserved
    /\ \A j \in Insts : j # i /\ Alive(j) => inst[j].base # inst[i].base

\* A model that is reported running has a monitor that will notice when its
\* process exits (runtime.go 383).
RunningWatched ==
  \A m \in Models : Mapped(m) /\ inst[instances[m]].state = "running"
    => inst[instances[m]].mon = "waiting"

\* Those who answer at the URL a request is sent to.
Answering(c) == {j \in Insts : inst[j].proc = "listening" /\ inst[j].base = inst[requests[c].to].base}

\* A request reaches the llama-server it was routed to, or nobody (server.go
\* 482), unless the exit of that process was noticed on the way: then its port
\* may serve another model by now.  A request routed after that never gets to
\* another one.
RequestsArrive ==
  \A c \in Clients : requests[c].to # NoInst =>
    \/ Answering(c) \subseteq {requests[c].to}
    \/ requests[c].watched /\ inst[requests[c].to].mon = "done"

\* A request reaches the llama-server it was routed to, or nobody, whatever
\* happens before it is sent.  The code does not keep this (README, 4).
NeverAstray ==
  \A c \in Clients : requests[c].to # NoInst => Answering(c) \subseteq {requests[c].to}

\* When the server has shut down, no llama-server is left (runtime.go 79 of
\* the runtime interface: "Shutdown unloads everything").
ShutdownStopsAll == phase = "exited" => \A i \in Insts : ~Alive(i)

\* Status can report every live instance: it reads base, which Load sets
\* after the instance is in the map (runtime.go 228 and 265, 466).
StatusReadable ==
  \A m \in Models : Mapped(m) /\ inst[instances[m]].state \in {"starting", "running", "stopping"}
    => inst[instances[m]].base # NoPort

\* When Unload has returned, the model's port is back in the pool and the
\* model can be loaded again on it.
UnloadFreesPort ==
  \A m \in Models : ~Mapped(m) /\ pc[Api(m)] = "idle"
    => \A i \in Insts : inst[i].owner = m => inst[i].port \notin reserved

\* What Status reports for a model.
StatusOf(m) == IF Mapped(m) THEN inst[instances[m]].state ELSE "stopped"

Reported == INSTANCE Lifecycle WITH status <- [m \in Models |-> StatusOf(m)]

\* The reported status follows the life cycle that Lifecycle promises.
ImplementsLifecycle == Reported!Spec
===============================================================================
