--------------------------- MODULE LlamaRuntimeProofs ---------------------------
(***************************************************************************)
(* Proofs about the llama.cpp runtime, for every set of models, instances, *)
(* ports and faults.                                                       *)
(***************************************************************************)
EXTENDS LlamaRuntime, TLAPS

(* A worker that is past its first step has an instance to work on. *)
CurKnown ==
  \A w \in Workers : pc[w] \notin {"idle", "unload"} => cur[w] \in Insts

(* TypeOK is not inductive alone: a step writes the instance cur names. *)
TypeInv == TypeOK /\ CurKnown

LEMMA WorkersFacts ==
  /\ \A w \in Workers : ModelOf(w) \in Models
  /\ \A m \in Models : Api(m) \in Workers /\ ModelOf(Api(m)) = m
  BY DEF Workers, ModelOf, Api

LEMMA BlankType == Blank \in InstType
  BY DEF Blank, InstType, States

LEMMA InstUpdate ==
  ASSUME TypeOK, NEW i \in Insts, NEW r \in InstType, inst' = [inst EXCEPT ![i] = r]
  PROVE  inst' \in [Insts -> InstType]
  BY DEF TypeOK

(* The updates that the steps make to an instance stay within its type. *)
LEMMA RecordUpdates ==
  ASSUME NEW r \in InstType
  PROVE  /\ [r EXCEPT !.state = "failed", !.port = NoPort] \in InstType
         /\ \A p \in Ports : [r EXCEPT !.port = p, !.base = p] \in InstType
         /\ \A q \in {"up", "listening", "dead"} : [r EXCEPT !.proc = q] \in InstType
         /\ \A t \in {"running", "stopping", "stopped"} : [r EXCEPT !.state = t] \in InstType
         /\ [r EXCEPT !.mon = "waiting"] \in InstType
         /\ \A b \in BOOLEAN : [r EXCEPT !.held = b] \in InstType
         /\ [r EXCEPT !.mon = "done", !.state =
               IF r.state \in {"stopping", "stopped"} THEN "stopped" ELSE "failed"] \in InstType
         /\ [r EXCEPT !.state = "none", !.port = NoPort, !.held = FALSE, !.mon = "none"] \in InstType
<1>1. [r EXCEPT !.state = "failed", !.port = NoPort] \in InstType
  BY DEF InstType, States
<1>2. ASSUME NEW p \in Ports PROVE [r EXCEPT !.port = p, !.base = p] \in InstType
  BY DEF InstType
<1>3. /\ \A q \in {"up", "listening", "dead"} : [r EXCEPT !.proc = q] \in InstType
      /\ [r EXCEPT !.mon = "waiting"] \in InstType
  BY DEF InstType
<1>4. \A t \in {"running", "stopping", "stopped"} : [r EXCEPT !.state = t] \in InstType
  BY DEF InstType, States
<1>5. ASSUME NEW s \in {"stopped", "failed"}
      PROVE [r EXCEPT !.mon = "done", !.state = s] \in InstType
  BY DEF InstType, States
<1>6. [r EXCEPT !.state = "none", !.port = NoPort, !.held = FALSE, !.mon = "none"] \in InstType
  BY DEF InstType, States
<1>7. \A b \in BOOLEAN : [r EXCEPT !.held = b] \in InstType
  BY DEF InstType
<1>8. QED
  BY <1>1, <1>2, <1>3, <1>4, <1>5, <1>6, <1>7

LEMMA TypeInit == Init => TypeInv
  BY BlankType DEF Init, TypeInv, TypeOK, CurKnown, Labels, NoRequest

LEMMA GotoType ==
  ASSUME TypeInv, NEW w \in Workers, pc[w] \notin {"idle", "unload"},
         NEW l \in Labels, Goto(w, l)
  PROVE  /\ pc' \in [Workers -> Labels] /\ cur' \in [Workers -> Insts \cup {NoInst}]
         /\ CurKnown'
  BY DEF TypeInv, TypeOK, CurKnown, Goto

LEMMA ReturnType ==
  ASSUME TypeInv, NEW w \in Workers, Return(w)
  PROVE  /\ pc' \in [Workers -> Labels] /\ cur' \in [Workers -> Insts \cup {NoInst}]
         /\ CurKnown'
  BY DEF TypeInv, TypeOK, CurKnown, Return, Labels

LEMMA FailType ==
  ASSUME TypeInv, NEW w \in Workers, pc[w] \notin {"idle", "unload"}, Fail(w)
  PROVE  TypeInv'
<1>1. cur[w] \in Insts
  BY DEF TypeInv, CurKnown
<1>2. inst' \in [Insts -> InstType]
  BY <1>1, RecordUpdates, InstUpdate DEF TypeInv, TypeOK, Fail
<1>3. QED
  BY <1>2, ReturnType DEF TypeInv, TypeOK, Fail

LEMMA LoadStepType ==
  ASSUME TypeInv, NEW w \in Workers, LoadStep(w)
  PROVE  TypeInv'
<1>1. CASE TakePort(w)
  <2>1. cur[w] \in Insts /\ PortsOf[ModelOf(w)] \subseteq Ports
    BY <1>1, PortsAssumption, WorkersFacts DEF TakePort, TypeInv, CurKnown
  <2>2. inst' \in [Insts -> InstType] /\ reserved' \subseteq Ports
    BY <1>1, <2>1, RecordUpdates, InstUpdate DEF TakePort, TypeInv, TypeOK
  <2>3. QED
    BY <1>1, <2>2, GotoType DEF TakePort, TypeInv, TypeOK, Labels
<1>2. CASE NoFreePort(w)
  BY <1>2, FailType DEF NoFreePort
<1>3. CASE StartServer(w) \/ RecordHandle(w)
  <2>1. cur[w] \in Insts
    BY <1>3 DEF StartServer, RecordHandle, TypeInv, CurKnown
  <2>2. \/ inst' = [inst EXCEPT ![cur[w]] = [inst[cur[w]] EXCEPT !.proc = "up"]]
        \/ inst' = [inst EXCEPT ![cur[w]] = [inst[cur[w]] EXCEPT !.mon = "waiting"]]
    BY <1>3 DEF StartServer, RecordHandle
  <2>3. inst' \in [Insts -> InstType]
    BY <2>1, <2>2, RecordUpdates, InstUpdate DEF TypeInv, TypeOK
  <2>4. QED
    BY <1>3, <2>3, GotoType DEF StartServer, RecordHandle, TypeInv, TypeOK, Labels
<1>4. CASE StartFails(w)
  BY <1>4, FailType DEF StartFails
<1>5. CASE Healthy(w) \/ NotHealthy(w) \/ GiveUp(w)
  BY <1>5, GotoType DEF Healthy, NotHealthy, GiveUp, TypeInv, TypeOK, Labels
<1>6. CASE AlreadyFailed(w)
  BY <1>6, ReturnType DEF AlreadyFailed, TypeInv, TypeOK
<1>7. CASE FailTerminated(w)
  BY <1>7, FailType DEF FailTerminated
<1>8. CASE MarkRunning(w)
  <2>1. cur[w] \in Insts
    BY <1>8 DEF MarkRunning, TypeInv, CurKnown
  <2>2. inst' \in [Insts -> InstType]
    <3>1. inst' = [inst EXCEPT ![cur[w]] = [inst[cur[w]] EXCEPT !.state = "running"]]
      BY <1>8 DEF MarkRunning
    <3>2. QED
      BY <2>1, <3>1, RecordUpdates, InstUpdate DEF TypeInv, TypeOK
  <2>3. QED
    BY <1>8, <2>2, ReturnType DEF MarkRunning, TypeInv, TypeOK
<1>9. QED
  BY <1>1, <1>2, <1>3, <1>4, <1>5, <1>6, <1>7, <1>8 DEF LoadStep

LEMMA StopInstanceType ==
  ASSUME TypeInv, NEW w \in Workers, NEW i \in Insts, StopInstance(w, i),
         cur' = [cur EXCEPT ![w] = i]
  PROVE  /\ inst' \in [Insts -> InstType]
         /\ pc' \in [Workers -> Labels] /\ cur' \in [Workers -> Insts \cup {NoInst}]
         /\ CurKnown'
<1>1. inst' \in [Insts -> InstType]
  <2>1. PICK t \in {"stopping", "stopped"} : inst' = [inst EXCEPT ![i] = [inst[i] EXCEPT !.state = t]]
    BY DEF StopInstance
  <2>2. QED
    BY <2>1, RecordUpdates, InstUpdate DEF TypeInv, TypeOK
<1>2. pc' \in [Workers -> Labels]
  BY DEF StopInstance, TypeInv, TypeOK, Labels
<1>3. \A v \in Workers : v # w => pc'[v] = pc[v] /\ cur'[v] = cur[v]
  BY DEF StopInstance, TypeInv, TypeOK
<1>4. QED
  BY <1>1, <1>2, <1>3 DEF TypeInv, TypeOK, CurKnown

LEMMA UnloadStepType ==
  ASSUME TypeInv, NEW w \in Workers, UnloadStep(w)
  PROVE  TypeInv'
<1>1. CASE ShutdownUnload(w)
  <2>1. CASE Mapped(ModelOf(w)) /\ StopInstance(w, instances[ModelOf(w)])
             /\ cur' = [cur EXCEPT ![w] = instances[ModelOf(w)]]
    <3>1. instances[ModelOf(w)] \in Insts
      BY <2>1, WorkersFacts DEF Mapped, TypeInv, TypeOK
    <3>2. QED
      BY <1>1, <2>1, <3>1, StopInstanceType DEF ShutdownUnload, TypeInv, TypeOK
  <2>2. CASE Return(w) /\ UNCHANGED inst
    BY <1>1, <2>2, ReturnType DEF ShutdownUnload, TypeInv, TypeOK
  <2>3. QED
    BY <1>1, <2>1, <2>2 DEF ShutdownUnload
<1>2. CASE Terminated(w)
  BY <1>2, GotoType DEF Terminated, TypeInv, TypeOK, Labels
<1>3. CASE DeleteEntry(w)
  BY <1>3, ReturnType DEF DeleteEntry, TypeInv, TypeOK
<1>4. QED
  BY <1>1, <1>2, <1>3 DEF UnloadStep

LEMMA KillFailureType ==
  ASSUME TypeInv, NEW w \in Workers, KillFailure(w)
  PROVE  TypeInv'
<1>1. CASE FailUnkilled(w)
  BY <1>1, FailType DEF FailUnkilled
<1>2. CASE TerminateFails(w)
  BY <1>2, ReturnType DEF TerminateFails, TypeInv, TypeOK
<1>3. QED
  BY <1>1, <1>2 DEF KillFailure

(* A request changes nothing but itself.                                   *)
RestStays == UNCHANGED <<instances, inst, reserved, pc, cur, phase>>

LEMMA RequestType ==
  ASSUME TypeInv, NEW c \in Clients, Answered(c) \/ \E m \in Models : Route(c, m)
  PROVE  TypeInv' /\ RestStays
<1>1. RestStays
  BY DEF Answered, Route, RestStays
<1>2. requests' \in [Clients -> [to : Insts \cup {NoInst}, watched : BOOLEAN]]
  <2>1. CASE Answered(c)
    BY <2>1 DEF Answered, NoRequest, TypeInv, TypeOK
  <2>2. ASSUME NEW m \in Models, Route(c, m)
        PROVE  requests' \in [Clients -> [to : Insts \cup {NoInst}, watched : BOOLEAN]]
    <3>1. instances[m] \in Insts \cup {NoInst} /\ (inst[instances[m]].mon = "waiting") \in BOOLEAN
      BY DEF TypeInv, TypeOK
    <3>2. [to |-> instances[m], watched |-> inst[instances[m]].mon = "waiting"]
            \in [to : Insts \cup {NoInst}, watched : BOOLEAN]
      BY <3>1
    <3>3. QED
      BY <2>2, <3>2 DEF Route, TypeInv, TypeOK
  <2>3. QED
    BY <2>1, <2>2
<1>3. QED
  BY <1>1, <1>2 DEF RestStays, TypeInv, TypeOK, CurKnown

(* A helper of a process comes or goes: no field but held changes.         *)
HelperMoves(i) == HelperStarts(i) \/ HelperEnds(i)

LEMMA HelperStep ==
  ASSUME TypeInv, NEW i \in Insts, HelperMoves(i)
  PROVE  /\ TypeInv'
         /\ UNCHANGED <<instances, reserved, pc, cur, phase>>
         /\ \A j \in Insts :
              /\ inst'[j].owner = inst[j].owner /\ inst'[j].state = inst[j].state
              /\ inst'[j].port = inst[j].port /\ inst'[j].base = inst[j].base
              /\ inst'[j].proc = inst[j].proc /\ inst'[j].mon = inst[j].mon
              /\ inst'[j].held => inst[j].held \/ Alive(j)
<1>1. PICK b \in BOOLEAN : /\ inst' = [inst EXCEPT ![i] = [inst[i] EXCEPT !.held = b]]
                           /\ b => Alive(i)
  BY DEF HelperMoves, HelperStarts, HelperEnds
<1>2. UNCHANGED <<instances, reserved, pc, cur, requests, phase>>
  BY DEF HelperMoves, HelperStarts, HelperEnds
<1>3. inst' \in [Insts -> InstType]
  BY <1>1, RecordUpdates, InstUpdate DEF TypeInv, TypeOK
<1>4. TypeInv'
  BY <1>2, <1>3 DEF TypeInv, TypeOK, CurKnown
<1>5. \A j \in Insts :
        /\ inst'[j].owner = inst[j].owner /\ inst'[j].state = inst[j].state
        /\ inst'[j].port = inst[j].port /\ inst'[j].base = inst[j].base
        /\ inst'[j].proc = inst[j].proc /\ inst'[j].mon = inst[j].mon
        /\ inst'[j].held => inst[j].held \/ Alive(j)
  BY <1>1 DEF TypeInv, TypeOK, InstType
<1>6. QED
  BY <1>2, <1>4, <1>5

LEMMA BeginType ==
  ASSUME TypeInv, NEW m \in Models
  PROVE  /\ BeginUnload(m) => TypeInv'
         /\ \A i \in Insts : BeginLoad(m, i) => TypeInv'
<1>1. ASSUME BeginUnload(m) PROVE TypeInv'
  <2>1. instances[m] \in Insts
    BY <1>1 DEF BeginUnload, Mapped, TypeInv, TypeOK
  <2>2. QED
    BY <1>1, <2>1, WorkersFacts, StopInstanceType DEF BeginUnload, TypeInv, TypeOK
<1>2. ASSUME NEW i \in Insts, BeginLoad(m, i) PROVE TypeInv'
  <2>1. inst' \in [Insts -> InstType]
    BY <1>2 DEF BeginLoad, TypeInv, TypeOK, InstType, States, Blank
  <2>2. Api(m) \in Workers
    BY WorkersFacts
  <2>3. /\ pc' \in [Workers -> Labels] /\ cur' \in [Workers -> Insts \cup {NoInst}]
        /\ instances' \in [Models -> Insts \cup {NoInst}]
    BY <1>2, <2>2 DEF BeginLoad, TypeInv, TypeOK, Labels
  <2>4. CurKnown'
    BY <1>2, <2>2 DEF BeginLoad, TypeInv, TypeOK, CurKnown
  <2>5. QED
    BY <1>2, <2>1, <2>3, <2>4 DEF BeginLoad, TypeInv, TypeOK
<1>3. QED
  BY <1>1, <1>2

LEMMA ProcessType ==
  ASSUME TypeInv, NEW i \in Insts,
         Monitor(i) \/ Listen(i) \/ BindFails(i) \/ Killed(i) \/ Crash(i)
  PROVE  TypeInv'
<1>1. inst' \in [Insts -> InstType] /\ reserved' \subseteq Ports
  <2>1. CASE Monitor(i)
    BY <2>1, RecordUpdates, InstUpdate DEF Monitor, TypeInv, TypeOK
  <2>2. CASE ProcBecomes(i, "dead") \/ ProcBecomes(i, "listening")
    <3>1. PICK q \in {"dead", "listening"} :
            inst' = [inst EXCEPT ![i] = [inst[i] EXCEPT !.proc = q]]
      BY <2>2 DEF ProcBecomes
    <3>2. QED
      BY <2>2, <3>1, RecordUpdates, InstUpdate DEF ProcBecomes, TypeInv, TypeOK
  <2>3. QED
    BY <2>1, <2>2 DEF Listen, BindFails, Killed, Crash
<1>2. UNCHANGED <<instances, pc, cur, requests, phase>>
  BY DEF Monitor, Listen, BindFails, Killed, Crash, ProcBecomes
<1>3. QED
  BY <1>1, <1>2 DEF TypeInv, TypeOK, CurKnown

LEMMA ServerType ==
  ASSUME TypeInv, BeginShutdown \/ EndShutdown \/ ServerDies \/ Boot
  PROVE  TypeInv'
<1>1. CASE BeginShutdown
  BY <1>1 DEF BeginShutdown, TypeInv, TypeOK, CurKnown, Labels
<1>2. CASE ServerGone
  <2>1. inst' \in [Insts -> InstType]
    BY <1>2, RecordUpdates DEF ServerGone, TypeInv, TypeOK
  <2>2. QED
    BY <1>2, <2>1 DEF ServerGone, TypeInv, TypeOK, CurKnown, Labels, NoRequest
<1>3. CASE Boot
  BY <1>3 DEF Boot, TypeInv, TypeOK, CurKnown
<1>4. QED
  BY <1>1, <1>2, <1>3 DEF EndShutdown, ServerDies

LEMMA TypeStep == TypeInv /\ [Next]_vars => TypeInv'
<1> SUFFICES ASSUME TypeInv, [Next]_vars
             PROVE  TypeInv'
  OBVIOUS
<1>1. CASE UNCHANGED vars
  BY <1>1 DEF vars, TypeInv, TypeOK, CurKnown
<1>2. QED
  BY <1>1, BeginType, LoadStepType, UnloadStepType, KillFailureType, RequestType,
     HelperStep, ProcessType, ServerType
  DEF Next, Step, HelperMoves

LEMMA TypeInvariant == Spec => []TypeInv
  BY TypeInit, TypeStep, PTL DEF Spec

(* The state of the runtime stays within its types. *)
THEOREM TypeCorrect == Spec => []TypeOK
<1>1. TypeInv => TypeOK
  BY DEF TypeInv
<1>2. QED
  BY <1>1, TypeInvariant, PTL

-------------------------------------------------------------------------------
(***************************************************************************)
(* No port leaks.  NoPortLeak is not inductive: that the load about to     *)
(* start a process is still bound to release its port needs that no other  *)
(* worker is before that point with the same instance, and that this       *)
(* instance has no monitor yet.                                            *)
(***************************************************************************)
Fresh(w) == pc[w] \in {"port", "start", "record"}

FreshAlone ==
  /\ \A w \in Workers : Fresh(w) => w[2] = "api"
  /\ \A w \in Workers : Fresh(w) => inst[cur[w]].mon = "none"
  /\ \A v, w \in Workers : Fresh(v) /\ Fresh(w) /\ cur[v] = cur[w] => v = w

LeakInv == FreshAlone /\ NoPortLeak

(* What a step may do to the ports: it keeps who is bound to release each  *)
(* one that stays reserved.                                                *)
LEMMA LeakKept ==
  ASSUME NoPortLeak, reserved' \subseteq reserved,
         \A i \in Insts : inst[i].port \in reserved' /\ WillRelease(i)
           => inst'[i].port = inst[i].port /\ WillRelease(i)'
  PROVE  NoPortLeak'
  BY DEF NoPortLeak

(* A step that only moves one worker on, to a point past the start.        *)
LEMMA MoveLeak ==
  ASSUME TypeInv, LeakInv, NEW w \in Workers, NEW l \in Labels \ {"port", "start", "record"},
         pc' = [pc EXCEPT ![w] = l], pc[w] \notin {"start", "record"},
         \A v \in Workers : v # w => cur'[v] = cur[v],
         \A i \in Insts : inst'[i].mon = inst[i].mon /\ inst'[i].port = inst[i].port,
         reserved' = reserved
  PROVE  LeakInv'
<1>1. \A v \in Workers : Fresh(v)' => v # w /\ Fresh(v) /\ cur'[v] = cur[v] /\ cur[v] \in Insts
  BY DEF Fresh, TypeInv, TypeOK, CurKnown
<1>2. FreshAlone'
  BY <1>1 DEF LeakInv, FreshAlone
<1>3. \A i \in Insts : WillRelease(i) => WillRelease(i)'
  <2>1. \A v \in Workers : pc[v] \in {"start", "record"}
                           => v # w /\ pc'[v] = pc[v] /\ cur'[v] = cur[v]
    BY DEF TypeInv, TypeOK
  <2>2. QED
    BY <2>1 DEF WillRelease, Working
<1>4. QED
  BY <1>2, <1>3, LeakKept DEF LeakInv

(* fail gives back the port of the instance, and nothing else changes. *)
LEMMA FailLeak ==
  ASSUME TypeInv, LeakInv, NEW w \in Workers, pc[w] \notin {"idle", "unload"}, Fail(w)
  PROVE  LeakInv'
<1> DEFINE c == cur[w]
<1>1. c \in Insts
  BY DEF TypeInv, CurKnown
<1>2. inst' = [inst EXCEPT ![c] = [inst[c] EXCEPT !.state = "failed", !.port = NoPort]]
      /\ reserved' = reserved \ {inst[c].port}
  BY DEF Fail
<1>3. \A i \in Insts : inst'[i].mon = inst[i].mon /\ (i # c => inst'[i] = inst[i])
  BY <1>1, <1>2 DEF TypeInv, TypeOK, InstType
<1>4. \A v \in Workers : v # w => pc'[v] = pc[v] /\ cur'[v] = cur[v]
  BY DEF Fail, Return, TypeInv, TypeOK
<1>5. pc'[w] = "idle"
  BY DEF Fail, Return, TypeInv, TypeOK
<1>6. FreshAlone'
  <2>1. \A v \in Workers : Fresh(v)' => v # w /\ Fresh(v) /\ cur'[v] = cur[v] /\ cur[v] \in Insts
    BY <1>4, <1>5 DEF Fresh, TypeInv, CurKnown
  <2>2. QED
    BY <2>1, <1>3 DEF LeakInv, FreshAlone
<1>7. ASSUME NEW i \in Insts, inst[i].port \in reserved', WillRelease(i)
      PROVE  inst'[i].port = inst[i].port /\ WillRelease(i)'
  <2>1. i # c
    BY <1>2, <1>7
  <2>2. \A v \in Workers : cur[v] = i => v # w
    BY <2>1
  <2>3. WillRelease(i)'
    BY <1>3, <1>4, <1>7, <2>2 DEF WillRelease, Working
  <2>4. QED
    BY <1>3, <2>1, <2>3
<1>8. QED
  BY <1>2, <1>6, <1>7, LeakKept DEF LeakInv

LEMMA LoadStepLeak ==
  ASSUME TypeInv, LeakInv, NEW w \in Workers, LoadStep(w)
  PROVE  LeakInv'
<1> DEFINE c == cur[w]
<1>1. CASE TakePort(w)
  <2>1. c \in Insts /\ pc[w] = "port"
    BY <1>1 DEF TakePort, TypeInv, CurKnown
  <2>2. PICK p \in PortsOf[ModelOf(w)] :
          /\ reserved' = reserved \cup {p}
          /\ inst' = [inst EXCEPT ![c] = [inst[c] EXCEPT !.port = p, !.base = p]]
    BY <1>1 DEF TakePort
  <2>3. \A i \in Insts : inst'[i].mon = inst[i].mon /\ (i # c => inst'[i] = inst[i])
    BY <2>1, <2>2 DEF TypeInv, TypeOK, InstType
  <2>4. inst'[c].port = p
    BY <2>1, <2>2 DEF TypeInv, TypeOK, InstType
  <2>5. cur' = cur /\ pc'[w] = "start" /\ \A v \in Workers : v # w => pc'[v] = pc[v]
    BY <1>1 DEF TakePort, Goto, TypeInv, TypeOK
  <2>6. \A v \in Workers : Fresh(v)' => Fresh(v) /\ cur[v] \in Insts
    BY <2>1, <2>5 DEF Fresh, TypeInv, CurKnown
  <2>7. FreshAlone'
    BY <2>3, <2>5, <2>6 DEF LeakInv, FreshAlone
  <2>8. ~WillRelease(c)
    BY <2>1 DEF WillRelease, Working, LeakInv, FreshAlone, Fresh
  <2>9. \A i \in Insts : i = c => WillRelease(i)'
    BY <2>1, <2>5 DEF WillRelease, Working
  <2>10. ASSUME NEW i \in Insts, WillRelease(i)
         PROVE  i # c /\ WillRelease(i)'
    <3>1. i # c
      BY <2>8, <2>10
    <3>2. \A v \in Workers : cur[v] = i => v # w
      BY <3>1
    <3>3. QED
      BY <2>3, <2>5, <2>10, <3>1, <3>2 DEF WillRelease, Working
  <2>11. NoPortLeak'
    <3> SUFFICES ASSUME NEW q \in reserved'
                 PROVE  \E i \in Insts : inst'[i].port = q /\ WillRelease(i)'
      BY DEF NoPortLeak
    <3>1. CASE q = p
      BY <2>1, <2>4, <2>9, <3>1
    <3>2. CASE q \in reserved
      BY <2>3, <2>10, <3>2 DEF LeakInv, NoPortLeak
    <3>3. QED
      BY <2>2, <3>1, <3>2
  <2>12. QED
    BY <2>7, <2>11 DEF LeakInv
<1>2. CASE NoFreePort(w) \/ StartFails(w) \/ FailTerminated(w)
  BY <1>2, FailLeak DEF NoFreePort, StartFails, FailTerminated
<1>7. CASE StartServer(w)
  <2>1. c \in Insts /\ pc[w] = "start"
    BY <1>7 DEF StartServer, TypeInv, CurKnown
  <2>2. inst' = [inst EXCEPT ![c] = [inst[c] EXCEPT !.proc = "up"]] /\ reserved' = reserved
    BY <1>7 DEF StartServer
  <2>3. \A i \in Insts : inst'[i].mon = inst[i].mon /\ inst'[i].port = inst[i].port
    BY <2>1, <2>2 DEF TypeInv, TypeOK, InstType
  <2>4. cur' = cur /\ pc'[w] = "record" /\ \A v \in Workers : v # w => pc'[v] = pc[v]
    BY <1>7 DEF StartServer, Goto, TypeInv, TypeOK
  <2>5. \A v \in Workers : Fresh(v)' => Fresh(v) /\ cur[v] \in Insts
    BY <2>1, <2>4 DEF Fresh, TypeInv, CurKnown
  <2>6. FreshAlone'
    BY <2>3, <2>4, <2>5 DEF LeakInv, FreshAlone
  <2>7. \A v \in Workers : pc[v] \in {"start", "record"} => pc'[v] \in {"start", "record"}
    BY <2>4
  <2>8. \A i \in Insts : WillRelease(i) => WillRelease(i)'
    BY <2>3, <2>4, <2>7 DEF WillRelease, Working
  <2>9. QED
    BY <2>2, <2>3, <2>6, <2>8, LeakKept DEF LeakInv
<1>3. CASE RecordHandle(w)
  <2>1. c \in Insts /\ pc[w] = "record"
    BY <1>3 DEF RecordHandle, TypeInv, CurKnown
  <2>2. inst' = [inst EXCEPT ![c] = [inst[c] EXCEPT !.mon = "waiting"]]
    BY <1>3 DEF RecordHandle
  <2>3. \A i \in Insts : inst'[i].port = inst[i].port /\ (i # c => inst'[i] = inst[i])
    BY <2>1, <2>2 DEF TypeInv, TypeOK, InstType
  <2>4. inst'[c].mon = "waiting"
    BY <2>1, <2>2 DEF TypeInv, TypeOK, InstType
  <2>5. cur' = cur /\ pc'[w] = "wait" /\ \A v \in Workers : v # w => pc'[v] = pc[v]
    BY <1>3 DEF RecordHandle, Goto, TypeInv, TypeOK
  <2>6. \A v \in Workers : Fresh(v)' => Fresh(v) /\ v # w /\ cur[v] \in Insts
    BY <2>5 DEF Fresh, TypeInv, CurKnown
  <2>7. \A v \in Workers : Fresh(v)' => cur[v] # c
    BY <2>1, <2>6 DEF LeakInv, FreshAlone, Fresh
  <2>8. FreshAlone'
    BY <2>3, <2>5, <2>6, <2>7 DEF LeakInv, FreshAlone
  <2>9. ASSUME NEW i \in Insts, WillRelease(i)
        PROVE  WillRelease(i)'
    <3>1. CASE i = c
      BY <2>4, <3>1 DEF WillRelease
    <3>2. CASE i # c
      <4>1. \A v \in Workers : cur[v] = i => v # w
        BY <3>2
      <4>2. QED
        BY <2>3, <2>5, <2>9, <3>2, <4>1 DEF WillRelease, Working
    <3>3. QED
      BY <3>1, <3>2
  <2>10. reserved' = reserved
    BY <1>3 DEF RecordHandle
  <2>11. QED
    BY <2>3, <2>8, <2>9, <2>10, LeakKept DEF LeakInv
<1>4. CASE Healthy(w) \/ NotHealthy(w) \/ GiveUp(w) \/ AlreadyFailed(w)
  BY <1>4, MoveLeak
  DEF Healthy, NotHealthy, GiveUp, AlreadyFailed, Goto, Return, Labels, TypeInv, TypeOK
<1>5. CASE MarkRunning(w)
  <2>1. c \in Insts
    BY <1>5 DEF MarkRunning, TypeInv, CurKnown
  <2>2. inst' = [inst EXCEPT ![c] = [inst[c] EXCEPT !.state = "running"]]
    BY <1>5 DEF MarkRunning
  <2>3. \A i \in Insts : inst'[i].mon = inst[i].mon /\ inst'[i].port = inst[i].port
    BY <2>1, <2>2 DEF TypeInv, TypeOK, InstType
  <2>4. QED
    BY <1>5, <2>3, MoveLeak DEF MarkRunning, Return, Labels, TypeInv, TypeOK
<1>6. QED
  BY <1>1, <1>2, <1>3, <1>4, <1>5, <1>7 DEF LoadStep

LEMMA StopInstanceLeak ==
  ASSUME TypeInv, LeakInv, NEW w \in Workers, NEW i \in Insts, StopInstance(w, i),
         cur' = [cur EXCEPT ![w] = i], pc[w] \notin {"start", "record"}, reserved' = reserved
  PROVE  LeakInv'
<1>1. PICK s \in {"stopped", "stopping"}, l \in {"delete", "stop"} :
        /\ inst' = [inst EXCEPT ![i] = [inst[i] EXCEPT !.state = s]]
        /\ pc' = [pc EXCEPT ![w] = l]
  BY DEF StopInstance
<1>2. \A j \in Insts : inst'[j].mon = inst[j].mon /\ inst'[j].port = inst[j].port
  BY <1>1 DEF TypeInv, TypeOK, InstType
<1>3. QED
  BY <1>1, <1>2, MoveLeak DEF Labels, TypeInv, TypeOK

LEMMA UnloadStepLeak ==
  ASSUME TypeInv, LeakInv, NEW w \in Workers, UnloadStep(w)
  PROVE  LeakInv'
<1>1. CASE ShutdownUnload(w)
  <2>1. CASE Mapped(ModelOf(w)) /\ StopInstance(w, instances[ModelOf(w)])
             /\ cur' = [cur EXCEPT ![w] = instances[ModelOf(w)]]
    <3>1. instances[ModelOf(w)] \in Insts
      BY <2>1, WorkersFacts DEF Mapped, TypeInv, TypeOK
    <3>2. QED
      BY <1>1, <2>1, <3>1, StopInstanceLeak DEF ShutdownUnload
  <2>2. CASE Return(w) /\ UNCHANGED inst
    BY <1>1, <2>2, MoveLeak DEF ShutdownUnload, Return, Labels, TypeInv, TypeOK
  <2>3. QED
    BY <1>1, <2>1, <2>2 DEF ShutdownUnload
<1>2. CASE Terminated(w) \/ DeleteEntry(w)
  BY <1>2, MoveLeak
  DEF Terminated, DeleteEntry, Goto, Return, Labels, TypeInv, TypeOK
<1>3. QED
  BY <1>1, <1>2 DEF UnloadStep

LEMMA KillFailureLeak ==
  ASSUME TypeInv, LeakInv, NEW w \in Workers, KillFailure(w)
  PROVE  LeakInv'
<1>1. CASE FailUnkilled(w)
  BY <1>1, FailLeak DEF FailUnkilled
<1>2. CASE TerminateFails(w)
  BY <1>2, MoveLeak DEF TerminateFails, Return, Labels, TypeInv, TypeOK
<1>3. QED
  BY <1>1, <1>2 DEF KillFailure

LEMMA BeginLeak ==
  ASSUME TypeInv, LeakInv, NEW m \in Models
  PROVE  /\ BeginUnload(m) => LeakInv'
         /\ \A i \in Insts : BeginLoad(m, i) => LeakInv'
<1> DEFINE w == Api(m)
<1>0. w \in Workers
  BY WorkersFacts
<1>1. ASSUME BeginUnload(m) PROVE LeakInv'
  <2>1. instances[m] \in Insts
    BY <1>1 DEF BeginUnload, Mapped, TypeInv, TypeOK
  <2>2. QED
    BY <1>0, <1>1, <2>1, StopInstanceLeak DEF BeginUnload
<1>2. ASSUME NEW i \in Insts, BeginLoad(m, i) PROVE LeakInv'
  <2>1. /\ inst'[i].mon = "none" /\ inst'[i].port = NoPort
        /\ \A j \in Insts : j # i => inst'[j] = inst[j]
    BY <1>2 DEF BeginLoad, TypeInv, TypeOK, Blank
  <2>2. /\ pc'[w] = "port" /\ cur'[w] = i
        /\ \A v \in Workers : v # w => pc'[v] = pc[v] /\ cur'[v] = cur[v]
    BY <1>0, <1>2 DEF BeginLoad, TypeInv, TypeOK
  <2>3. /\ \A v \in Workers : cur[v] # i
        /\ inst[i].mon # "waiting" /\ pc[w] = "idle" /\ reserved' = reserved
    BY <1>2 DEF BeginLoad, Referenced
  <2>4. \A v \in Workers : Fresh(v)' /\ v # w => Fresh(v) /\ cur'[v] = cur[v] /\ cur[v] \in Insts
    BY <2>2 DEF Fresh, TypeInv, CurKnown
  <2>5. FreshAlone'
    <3>1. ASSUME NEW v \in Workers, Fresh(v)' PROVE inst'[cur'[v]].mon = "none"
      BY <2>1, <2>2, <2>3, <2>4, <3>1 DEF LeakInv, FreshAlone
    <3>2. ASSUME NEW u \in Workers, NEW v \in Workers, Fresh(u)', Fresh(v)', cur'[u] = cur'[v]
          PROVE  u = v
      BY <2>2, <2>3, <2>4, <3>2 DEF LeakInv, FreshAlone
    <3>3. \A v \in Workers : Fresh(v)' => v[2] = "api"
      BY <2>4 DEF LeakInv, FreshAlone, Api
    <3>4. QED
      BY <3>1, <3>2, <3>3 DEF FreshAlone
  <2>6. \A j \in Insts : WillRelease(j) => j # i
    BY <2>3 DEF WillRelease, Working
  <2>7. \A j \in Insts : WillRelease(j) => WillRelease(j)'
    <3>1. \A v \in Workers : pc[v] \in {"start", "record"} => v # w
      BY <2>3
    <3>2. QED
      BY <2>1, <2>2, <2>6, <3>1 DEF WillRelease, Working
  <2>8. QED
    BY <2>1, <2>3, <2>5, <2>6, <2>7, LeakKept DEF LeakInv
<1>3. QED
  BY <1>1, <1>2

(* The monitor is bound to release the port, and does. *)
LEMMA ProcessLeak ==
  ASSUME TypeInv, LeakInv, NEW i \in Insts,
         Monitor(i) \/ Listen(i) \/ BindFails(i) \/ Killed(i) \/ Crash(i)
  PROVE  LeakInv'
<1>1. UNCHANGED <<pc, cur>>
  BY DEF Monitor, Listen, BindFails, Killed, Crash, ProcBecomes
<1>2. CASE Monitor(i)
  <2>1. PICK s \in {"stopped", "failed"} :
          inst' = [inst EXCEPT ![i] = [inst[i] EXCEPT !.mon = "done", !.state = s]]
    BY <1>2 DEF Monitor
  <2>2. /\ reserved' = reserved \ {inst[i].port} /\ inst[i].mon = "waiting"
        /\ \A j \in Insts : inst'[j].port = inst[j].port /\ (j # i => inst'[j] = inst[j])
    BY <1>2, <2>1 DEF Monitor, TypeInv, TypeOK, InstType
  <2>3. \A v \in Workers : Fresh(v) => cur[v] # i /\ cur[v] \in Insts
    BY <2>2 DEF LeakInv, FreshAlone, Fresh, TypeInv, CurKnown
  <2>4. FreshAlone'
    BY <1>1, <2>2, <2>3 DEF LeakInv, FreshAlone, Fresh
  <2>5. ASSUME NEW j \in Insts, inst[j].port \in reserved', WillRelease(j)
        PROVE  WillRelease(j)'
    BY <1>1, <2>2, <2>5 DEF WillRelease, Working
  <2>6. QED
    BY <2>2, <2>4, <2>5, LeakKept DEF LeakInv
<1>3. CASE ProcBecomes(i, "dead") \/ ProcBecomes(i, "listening")
  <2>1. PICK s \in {"dead", "listening"} : inst' = [inst EXCEPT ![i] = [inst[i] EXCEPT !.proc = s]]
    BY <1>3 DEF ProcBecomes
  <2>2. /\ \A j \in Insts : inst'[j].mon = inst[j].mon /\ inst'[j].port = inst[j].port
        /\ reserved' = reserved
    BY <1>3, <2>1 DEF ProcBecomes, TypeInv, TypeOK, InstType
  <2>3. FreshAlone'
    BY <1>1, <2>2 DEF LeakInv, FreshAlone, Fresh, TypeInv, CurKnown
  <2>4. \A j \in Insts : WillRelease(j) => WillRelease(j)'
    BY <1>1, <2>2 DEF WillRelease, Working
  <2>5. QED
    BY <2>2, <2>3, <2>4, LeakKept DEF LeakInv
<1>4. QED
  BY <1>2, <1>3 DEF Listen, BindFails, Killed, Crash

LEMMA HelperLeak ==
  ASSUME TypeInv, LeakInv, NEW i \in Insts, HelperMoves(i)
  PROVE  LeakInv'
<1>1. /\ UNCHANGED <<reserved, pc, cur>>
      /\ \A j \in Insts : inst'[j].mon = inst[j].mon /\ inst'[j].port = inst[j].port
  BY HelperStep
<1>2. FreshAlone'
  BY <1>1 DEF LeakInv, FreshAlone, Fresh, TypeInv, CurKnown
<1>3. \A j \in Insts : WillRelease(j) => WillRelease(j)'
  BY <1>1 DEF WillRelease, Working
<1>4. QED
  BY <1>1, <1>2, <1>3, LeakKept DEF LeakInv

LEMMA ServerLeak ==
  ASSUME TypeInv, LeakInv, BeginShutdown \/ EndShutdown \/ ServerDies \/ Boot
  PROVE  LeakInv'
<1>1. CASE BeginShutdown
  <2>1. /\ UNCHANGED <<inst, reserved, cur>>
        /\ \A v \in Workers : pc'[v] = pc[v] \/ (v[2] = "shutdown" /\ pc'[v] = "unload")
    BY <1>1 DEF BeginShutdown
  <2>2. \A v \in Workers : Fresh(v)' <=> Fresh(v)
    BY <2>1 DEF Fresh, LeakInv, FreshAlone
  <2>3. FreshAlone'
    BY <2>1, <2>2 DEF LeakInv, FreshAlone
  <2>4. \A v \in Workers : pc[v] \in {"start", "record"} => pc'[v] = pc[v]
    BY <2>1 DEF Fresh, LeakInv, FreshAlone
  <2>5. \A i \in Insts : WillRelease(i) => WillRelease(i)'
    BY <2>1, <2>4 DEF WillRelease, Working
  <2>6. QED
    BY <2>1, <2>3, <2>5, LeakKept DEF LeakInv
<1>2. CASE ServerGone
  BY <1>2 DEF ServerGone, LeakInv, FreshAlone, Fresh, NoPortLeak
<1>3. CASE Boot
  <2>1. UNCHANGED <<inst, reserved, pc, cur>>
    BY <1>3 DEF Boot
  <2>2. QED
    BY <2>1 DEF LeakInv, FreshAlone, Fresh, NoPortLeak, WillRelease, Working
<1>4. QED
  BY <1>1, <1>2, <1>3 DEF EndShutdown, ServerDies

LEMMA LeakStep == TypeInv /\ LeakInv /\ [Next]_vars => LeakInv'
<1> SUFFICES ASSUME TypeInv, LeakInv, [Next]_vars
             PROVE  LeakInv'
  OBVIOUS
<1>1. CASE RestStays
  BY <1>1 DEF RestStays, LeakInv, FreshAlone, Fresh, NoPortLeak, WillRelease, Working
<1>2. CASE UNCHANGED vars
  BY <1>1, <1>2 DEF vars, RestStays
<1>3. CASE \E c \in Clients : Answered(c) \/ \E m \in Models : Route(c, m)
  BY <1>1, <1>3, RequestType
<1>4. QED
  BY <1>2, <1>3, BeginLeak, LoadStepLeak, UnloadStepLeak, KillFailureLeak, HelperLeak,
     ProcessLeak, ServerLeak
  DEF Next, Step, HelperMoves

LEMMA LeakInvariant == Spec => []LeakInv
<1>1. Init => LeakInv
  BY DEF Init, LeakInv, FreshAlone, Fresh, NoPortLeak
<1>2. QED
  BY <1>1, LeakStep, TypeInvariant, PTL DEF Spec

(* Whatever fails, in any order, a reserved port has a load or a monitor   *)
(* left that will release it.                                              *)
THEOREM PortsNeverLeak == Spec => []NoPortLeak
<1>1. LeakInv => NoPortLeak
  BY DEF LeakInv
<1>2. QED
  BY <1>1, LeakInvariant, PTL

-------------------------------------------------------------------------------
(***************************************************************************)
(* No process is lost.  While the server is not killed, no signal is       *)
(* refused and no request outlives the drain, a live process is always the *)
(* one its model's entry names.  The invariant says who may be at work on  *)
(* a model at all (its API worker while the server serves, its shutdown    *)
(* worker while it stops), that a worker works on the model's own entry,   *)
(* and what a live process implies for the instance.                       *)
(***************************************************************************)
Orderly == Faults \cap {"killFails", "overrun", "serverDies"} = {}

LoadLabels == {"port", "start", "record", "wait", "vision", "failing", "terminate"}

Roles ==
  \A w \in Workers :
    /\ pc[w] \in LoadLabels => w[2] = "api"
    /\ pc[w] = "unload" => w[2] = "shutdown"
    /\ pc[w] # "idle" => phase = (IF w[2] = "api" THEN "serving" ELSE "shutdown")

(* The instance r of a load at l that has not recorded its handle.         *)
AtStart(r, l) ==
  /\ l \in {"port", "start", "record"} => r.state = "starting" /\ r.mon = "none"
  /\ l \in {"port", "start"} => r.proc = "none"

AtWork ==
  \A w \in Workers :
    /\ pc[w] \notin {"idle", "unload"} => instances[ModelOf(w)] = cur[w]
    /\ AtStart(inst[cur[w]], pc[w])
    /\ pc[w] = "delete" => ~Alive(cur[w])

Owned == \A m \in Models : Mapped(m) => inst[instances[m]].owner = m

LiveOwned ==
  \A i \in Insts : Alive(i) =>
    /\ inst[i].owner \in Models
    /\ instances[inst[i].owner] = i
    /\ inst[i].mon = "waiting" \/ \E w \in Workers : cur[w] = i /\ pc[w] = "record"
    /\ inst[i].state \in {"starting", "running", "stopping"}
    /\ inst[i].state = "stopping" => \E w \in Workers : cur[w] = i /\ pc[w] = "stop"

(* In a shutdown, a model whose worker is done is out of the map. *)
Unmapped ==
  /\ phase = "shutdown" => \A w \in Workers : w[2] = "shutdown" /\ pc[w] = "idle" => ~Mapped(ModelOf(w))
  /\ phase = "exited" => \A m \in Models : ~Mapped(m)

TrackInv == Roles /\ AtWork /\ Owned /\ LiveOwned /\ Unmapped

LEMMA WorkerPair ==
  /\ \A v, w \in Workers : ModelOf(v) = ModelOf(w) /\ v[2] = w[2] => v = w
  /\ \A w \in Workers : w[2] \in {"api", "shutdown"}
  /\ \A m \in Models : Api(m)[2] = "api" /\ <<m, "shutdown">> \in Workers
  BY DEF Workers, ModelOf, Api

(* A worker entitled to work on the entry c of its model is alone with it. *)
LEMMA Alone ==
  ASSUME TypeInv, TrackInv, NEW w \in Workers, NEW c \in Insts,
         instances[ModelOf(w)] = c,
         phase = (IF w[2] = "api" THEN "serving" ELSE "shutdown"),
         NEW v \in Workers, v # w, pc[v] \notin {"idle", "unload"}
  PROVE  cur[v] # c /\ ModelOf(v) # ModelOf(w)
<1>1. v[2] = w[2]
  BY WorkerPair DEF TrackInv, Roles
<1>2. ModelOf(v) # ModelOf(w)
  BY <1>1, WorkerPair
<1>3. ASSUME cur[v] = c PROVE FALSE
  <2>1. instances[ModelOf(v)] = c /\ c # NoInst
    BY <1>3, NullAssumption DEF TrackInv, AtWork
  <2>2. inst[c].owner = ModelOf(v) /\ inst[c].owner = ModelOf(w)
    BY <2>1, WorkersFacts DEF TrackInv, Owned, Mapped
  <2>3. QED
    BY <1>2, <2>2
<1>4. QED
  BY <1>2, <1>3

(* A step of worker w on the entry c of its model keeps the invariant when *)
(* it leaves the process of c, if that is alive, with its monitor (or with *)
(* w about to start it) and in a state that is still to be stopped, or     *)
(* being stopped by w.                                                     *)
LEMMA LocalStep ==
  ASSUME TypeInv, TrackInv, NEW w \in Workers, NEW c \in Insts, NEW l \in Labels \ {"unload"},
         instances[ModelOf(w)] = c,
         phase = (IF w[2] = "api" THEN "serving" ELSE "shutdown"),
         UNCHANGED <<instances, phase>>,
         pc' = [pc EXCEPT ![w] = l],
         \A v \in Workers : v # w => cur'[v] = cur[v],
         l = "idle" \/ cur'[w] = c,
         l \in LoadLabels \cup {"idle"} => w[2] = "api",
         \A j \in Insts : j # c => inst'[j] = inst[j],
         inst'[c].owner = inst[c].owner,
         AtStart(inst'[c], l),
         l = "delete" => inst'[c].proc \notin {"up", "listening"},
         inst'[c].proc \in {"up", "listening"} =>
           /\ inst'[c].mon = "waiting" \/ l = "record"
           /\ inst'[c].state \in {"starting", "running", "stopping"}
           /\ inst'[c].state = "stopping" => l = "stop"
  PROVE  TrackInv'
<1> USE DEF TrackInv
<1>1. /\ pc'[w] = l
      /\ \A v \in Workers : v # w => pc'[v] = pc[v] /\ cur'[v] = cur[v]
  BY DEF TypeInv, TypeOK
<1>2. \A v \in Workers : v # w /\ pc[v] \notin {"idle", "unload"} => cur[v] # c /\ cur[v] \in Insts
  BY Alone DEF TypeInv, CurKnown
<1>3. Roles'
  BY <1>1 DEF Roles, LoadLabels
<1>4. AtWork'
  <2> SUFFICES ASSUME NEW v \in Workers
               PROVE  /\ pc'[v] \notin {"idle", "unload"} => instances'[ModelOf(v)] = cur'[v]
                      /\ AtStart(inst'[cur'[v]], pc'[v])
                      /\ pc'[v] = "delete" => inst'[cur'[v]].proc \notin {"up", "listening"}
    BY DEF AtWork, AtStart, Alive, ModelOf
  <2>1. CASE v = w
    BY <1>1, <2>1 DEF AtStart
  <2>2. CASE v # w
    BY <1>1, <1>2, <2>2 DEF AtWork, AtStart, Alive
  <2>3. QED
    BY <2>1, <2>2
<1>5. Owned'
  <2>1. \A j \in Insts : inst'[j].owner = inst[j].owner
    OBVIOUS
  <2>2. \A m \in Models : Mapped(m) => instances[m] \in Insts
    BY DEF Mapped, TypeInv, TypeOK
  <2>3. QED
    BY <2>1, <2>2 DEF Owned, Mapped
<1>6. LiveOwned'
  <2> SUFFICES ASSUME NEW i \in Insts, inst'[i].proc \in {"up", "listening"}
               PROVE  /\ inst'[i].owner \in Models
                      /\ instances'[inst'[i].owner] = i
                      /\ \/ inst'[i].mon = "waiting"
                         \/ \E v \in Workers : cur'[v] = i /\ pc'[v] = "record"
                      /\ inst'[i].state \in {"starting", "running", "stopping"}
                      /\ inst'[i].state = "stopping" =>
                           \E v \in Workers : cur'[v] = i /\ pc'[v] = "stop"
    BY DEF LiveOwned, Alive
  <2>1. CASE i = c
    <3>1. inst[c].owner = ModelOf(w)
      BY WorkersFacts, NullAssumption DEF Owned, Mapped
    <3>2. QED
      BY <1>1, <2>1, <3>1, WorkersFacts
  <2>2. CASE i # c
    <3>1. inst'[i] = inst[i] /\ Alive(i)
      BY <2>2 DEF Alive
    <3>2. ASSUME NEW v \in Workers, cur[v] = i, pc[v] \in {"record", "stop"}
          PROVE  cur'[v] = i /\ pc'[v] = pc[v]
      <4>1. v # w
        BY <2>2, <3>2 DEF AtWork
      <4>2. QED
        BY <1>1, <3>2, <4>1
    <3>3. QED
      BY <3>1, <3>2 DEF LiveOwned
  <2>3. QED
    BY <2>1, <2>2
<1>7. Unmapped'
  BY <1>1, WorkerPair DEF Unmapped, Mapped, ModelOf
<1>8. QED
  BY <1>3, <1>4, <1>5, <1>6, <1>7

LEMMA LoadStepTrack ==
  ASSUME Orderly, TypeInv, TrackInv, NEW w \in Workers, LoadStep(w)
  PROVE  TrackInv'
<1> DEFINE c == cur[w]
<1>1. pc[w] \in LoadLabels
  BY DEF LoadStep, TakePort, NoFreePort, StartServer, RecordHandle, StartFails, Healthy,
         NotHealthy, AlreadyFailed, GiveUp, FailTerminated, MarkRunning, LoadLabels
<1>2. /\ c \in Insts /\ instances[ModelOf(w)] = c /\ w[2] = "api" /\ phase = "serving"
  BY <1>1 DEF TypeInv, CurKnown, TrackInv, AtWork, Roles, LoadLabels
<1>3. Alive(c) => /\ inst[c].mon = "waiting" \/ pc[w] = "record"
                  /\ inst[c].state \in {"starting", "running"}
  <2>1. ASSUME NEW v \in Workers, cur[v] = c, pc[v] \in {"record", "stop"} PROVE v = w
    BY <1>2, <2>1, Alone
  <2>2. pc[w] # "stop"
    BY <1>1 DEF LoadLabels
  <2>3. QED
    BY <1>2, <2>1, <2>2 DEF TrackInv, LiveOwned
<1>4. AtStart(inst[c], pc[w])
  BY DEF TrackInv, AtWork
<1>5. ASSUME Fail(w), ~Alive(c) PROVE TrackInv'
  <2>1. inst' = [inst EXCEPT ![c] = [inst[c] EXCEPT !.state = "failed", !.port = NoPort]]
        /\ pc' = [pc EXCEPT ![w] = "idle"] /\ cur' = [cur EXCEPT ![w] = NoInst]
        /\ UNCHANGED <<instances, phase>>
    BY <1>5 DEF Fail, Return
  <2>2. /\ \A j \in Insts : j # c => inst'[j] = inst[j]
        /\ inst'[c].owner = inst[c].owner /\ inst'[c].proc = inst[c].proc
        /\ \A v \in Workers : v # w => cur'[v] = cur[v]
    BY <1>2, <2>1 DEF TypeInv, TypeOK, InstType
  <2>3. inst'[c].proc \notin {"up", "listening"} /\ AtStart(inst'[c], "idle")
    BY <1>5, <2>2 DEF Alive, AtStart
  <2>4. QED
    BY <1>2, <2>1, <2>2, <2>3, LocalStep DEF Labels
<1>6. CASE TakePort(w)
  <2>1. PICK p \in Ports : inst' = [inst EXCEPT ![c] = [inst[c] EXCEPT !.port = p, !.base = p]]
    BY <1>6, PortsAssumption, WorkersFacts DEF TakePort
  <2>2. /\ \A j \in Insts : j # c => inst'[j] = inst[j]
        /\ inst'[c].owner = inst[c].owner /\ inst'[c].proc = inst[c].proc
        /\ inst'[c].state = inst[c].state /\ inst'[c].mon = inst[c].mon
    BY <1>2, <2>1 DEF TypeInv, TypeOK, InstType
  <2>3. /\ pc' = [pc EXCEPT ![w] = "start"] /\ cur' = cur /\ UNCHANGED <<instances, phase>>
        /\ pc[w] = "port"
    BY <1>6 DEF TakePort, Goto
  <2>4. AtStart(inst'[c], "start") /\ inst'[c].proc = "none"
    BY <1>4, <2>2, <2>3 DEF AtStart
  <2>5. QED
    BY <1>2, <2>2, <2>3, <2>4, LocalStep DEF Labels
<1>7. CASE NoFreePort(w) \/ StartFails(w)
  BY <1>4, <1>5, <1>7 DEF NoFreePort, StartFails, Alive, AtStart
<1>8. CASE StartServer(w)
  <2>1. inst' = [inst EXCEPT ![c] = [inst[c] EXCEPT !.proc = "up"]]
    BY <1>8 DEF StartServer
  <2>2. /\ \A j \in Insts : j # c => inst'[j] = inst[j]
        /\ inst'[c].owner = inst[c].owner /\ inst'[c].state = inst[c].state
        /\ inst'[c].mon = inst[c].mon
    BY <1>2, <2>1 DEF TypeInv, TypeOK, InstType
  <2>3. /\ pc' = [pc EXCEPT ![w] = "record"] /\ cur' = cur /\ UNCHANGED <<instances, phase>>
        /\ pc[w] = "start"
    BY <1>8 DEF StartServer, Goto
  <2>4. AtStart(inst'[c], "record") /\ inst'[c].state = "starting"
    BY <1>4, <2>2, <2>3 DEF AtStart
  <2>5. QED
    BY <1>2, <2>2, <2>3, <2>4, LocalStep DEF Labels
<1>14. CASE RecordHandle(w)
  <2>1. inst' = [inst EXCEPT ![c] = [inst[c] EXCEPT !.mon = "waiting"]]
    BY <1>14 DEF RecordHandle
  <2>2. /\ \A j \in Insts : j # c => inst'[j] = inst[j]
        /\ inst'[c].owner = inst[c].owner /\ inst'[c].state = inst[c].state
        /\ inst'[c].mon = "waiting"
    BY <1>2, <2>1 DEF TypeInv, TypeOK, InstType
  <2>3. /\ pc' = [pc EXCEPT ![w] = "wait"] /\ cur' = cur /\ UNCHANGED <<instances, phase>>
        /\ pc[w] = "record"
    BY <1>14 DEF RecordHandle, Goto
  <2>4. AtStart(inst'[c], "wait") /\ inst'[c].state = "starting"
    BY <1>4, <2>2, <2>3 DEF AtStart
  <2>5. QED
    BY <1>2, <2>2, <2>3, <2>4, LocalStep DEF Labels
<1>9. CASE Healthy(w) \/ NotHealthy(w) \/ GiveUp(w)
  <2>1. PICK l \in {"vision", "failing", "terminate"} : pc' = [pc EXCEPT ![w] = l]
    BY <1>9 DEF Healthy, NotHealthy, GiveUp, Goto
  <2>2. UNCHANGED <<instances, inst, cur, phase>> /\ pc[w] # "record"
    BY <1>9 DEF Healthy, NotHealthy, GiveUp, Goto
  <2>3. AtStart(inst'[c], l)
    BY DEF AtStart
  <2>4. QED
    BY <1>2, <1>3, <2>1, <2>2, <2>3, LocalStep DEF Labels, LoadLabels, Alive
<1>10. CASE AlreadyFailed(w)
  <2>1. /\ pc' = [pc EXCEPT ![w] = "idle"] /\ cur' = [cur EXCEPT ![w] = NoInst]
        /\ UNCHANGED <<instances, inst, phase>> /\ pc[w] = "failing"
    BY <1>10 DEF AlreadyFailed, Return
  <2>2. \A v \in Workers : v # w => cur'[v] = cur[v]
    BY <2>1 DEF TypeInv, TypeOK
  <2>3. AtStart(inst'[c], "idle")
    BY DEF AtStart
  <2>4. QED
    BY <1>2, <1>3, <2>1, <2>2, <2>3, LocalStep DEF Labels, Alive
<1>11. CASE FailTerminated(w)
  BY <1>5, <1>11 DEF FailTerminated, Done, Alive
<1>12. CASE MarkRunning(w)
  <2>1. /\ inst' = [inst EXCEPT ![c] = [inst[c] EXCEPT !.state = "running"]]
        /\ pc' = [pc EXCEPT ![w] = "idle"] /\ cur' = [cur EXCEPT ![w] = NoInst]
        /\ UNCHANGED <<instances, phase>> /\ pc[w] = "vision"
    BY <1>12 DEF MarkRunning, Return
  <2>2. /\ \A j \in Insts : j # c => inst'[j] = inst[j]
        /\ inst'[c].owner = inst[c].owner /\ inst'[c].state = "running"
        /\ inst'[c].proc = inst[c].proc /\ inst'[c].mon = inst[c].mon
        /\ \A v \in Workers : v # w => cur'[v] = cur[v]
    BY <1>2, <2>1 DEF TypeInv, TypeOK, InstType
  <2>3. inst'[c].proc \in {"up", "listening"} =>
          inst'[c].mon = "waiting" /\ inst'[c].state = "running"
    BY <1>3, <2>1, <2>2 DEF Alive
  <2>4. AtStart(inst'[c], "idle")
    BY DEF AtStart
  <2>5. QED
    BY <1>2, <2>1, <2>2, <2>3, <2>4, LocalStep DEF Labels
<1>13. QED
  BY <1>6, <1>7, <1>8, <1>9, <1>10, <1>11, <1>12, <1>14 DEF LoadStep

(* What Unload decides under the mutex of the instance. *)
LEMMA StopInstanceTrack ==
  ASSUME TypeInv, TrackInv, NEW w \in Workers, NEW c \in Insts,
         instances[ModelOf(w)] = c, pc[w] \in {"idle", "unload"},
         phase = (IF w[2] = "api" THEN "serving" ELSE "shutdown"),
         StopInstance(w, c), cur' = [cur EXCEPT ![w] = c], UNCHANGED <<instances, phase>>
  PROVE  TrackInv'
<1>1. /\ cur'[w] = c
      /\ \A v \in Workers : v # w => cur'[v] = cur[v]
  BY DEF TypeInv, TypeOK
<1>2. Alive(c) => inst[c].mon = "waiting" /\ inst[c].state \in {"starting", "running", "stopping"}
  <2>1. ~\E v \in Workers : cur[v] = c /\ pc[v] = "record"
    BY Alone
  <2>2. QED
    BY <2>1 DEF TrackInv, LiveOwned
<1>3. ASSUME NEW s \in {"stopped", "stopping"}, NEW l \in {"delete", "stop"},
             inst' = [inst EXCEPT ![c].state = s], pc' = [pc EXCEPT ![w] = l],
             l = "delete" => ~Alive(c), l = "stop" => s = "stopping"
      PROVE  TrackInv'
  <2>1. /\ \A j \in Insts : j # c => inst'[j] = inst[j]
        /\ inst'[c].owner = inst[c].owner /\ inst'[c].state = s
        /\ inst'[c].proc = inst[c].proc /\ inst'[c].mon = inst[c].mon
    BY <1>3 DEF TypeInv, TypeOK, InstType
  <2>2. inst'[c].proc \in {"up", "listening"} =>
          inst'[c].mon = "waiting" /\ s = "stopping" /\ l = "stop"
    BY <1>2, <1>3, <2>1 DEF Alive
  <2>3. l = "delete" => inst'[c].proc \notin {"up", "listening"}
    BY <1>3, <2>1 DEF Alive
  <2>4. /\ l \in Labels \ {"unload"} /\ l \notin LoadLabels \cup {"idle"}
        /\ AtStart(inst'[c], l)
    BY DEF Labels, LoadLabels, AtStart
  <2>5. /\ l \in LoadLabels \cup {"idle"} => w[2] = "api"
        /\ inst'[c].proc \in {"up", "listening"} =>
             /\ inst'[c].mon = "waiting"
             /\ inst'[c].state \in {"starting", "running", "stopping"}
             /\ inst'[c].state = "stopping" => l = "stop"
    BY <2>1, <2>2, <2>4
  <2>6. pc' = [pc EXCEPT ![w] = l]
    BY <1>3
  <2>7. QED
    BY <1>1, <2>1, <2>3, <2>4, <2>5, <2>6, LocalStep
<1>4. CASE inst[c].state \in {"stopped", "failed"} \/ inst[c].mon = "none"
  BY <1>2, <1>3, <1>4 DEF StopInstance
<1>5. CASE ~(inst[c].state \in {"stopped", "failed"} \/ inst[c].mon = "none")
  BY <1>3, <1>5 DEF StopInstance
<1>6. QED
  BY <1>4, <1>5

(* A worker that returns and leaves its model out of the map. *)
LEMMA LeaveTrack ==
  ASSUME TypeInv, TrackInv, NEW w \in Workers,
         instances' = [instances EXCEPT ![ModelOf(w)] = NoInst],
         Return(w), UNCHANGED <<inst, phase>>,
         \A v \in Workers : v # w /\ pc[v] \notin {"idle", "unload"} => ModelOf(v) # ModelOf(w),
         pc[w] \notin {"record", "stop"},
         \A i \in Insts : Alive(i) => inst[i].owner # ModelOf(w)
  PROVE  TrackInv'
<1> USE DEF TrackInv
<1>1. /\ pc'[w] = "idle"
      /\ \A v \in Workers : v # w => pc'[v] = pc[v] /\ cur'[v] = cur[v]
      /\ instances'[ModelOf(w)] = NoInst
      /\ \A m \in Models : m # ModelOf(w) => instances'[m] = instances[m]
  BY WorkersFacts DEF TypeInv, TypeOK, Return
<1>2. Roles'
  BY <1>1 DEF Roles, LoadLabels
<1>3. AtWork'
  <2>1. \A v \in Workers : v # w /\ pc[v] \notin {"idle", "unload"}
                           => instances'[ModelOf(v)] = instances[ModelOf(v)]
    BY <1>1, WorkersFacts
  <2>2. QED
    BY <1>1, <2>1 DEF AtWork, AtStart, Alive, ModelOf
<1>4. Owned'
  BY <1>1 DEF Owned, Mapped
<1>5. LiveOwned'
  <2> SUFFICES ASSUME NEW i \in Insts, Alive(i)
               PROVE  /\ inst[i].owner \in Models
                      /\ instances'[inst[i].owner] = i
                      /\ \/ inst[i].mon = "waiting"
                         \/ \E v \in Workers : cur'[v] = i /\ pc'[v] = "record"
                      /\ inst[i].state \in {"starting", "running", "stopping"}
                      /\ inst[i].state = "stopping" =>
                           \E v \in Workers : cur'[v] = i /\ pc'[v] = "stop"
    BY DEF LiveOwned, Alive
  <2>1. \A v \in Workers : pc[v] \in {"record", "stop"} => cur'[v] = cur[v] /\ pc'[v] = pc[v]
    BY <1>1
  <2>2. QED
    BY <1>1, <2>1 DEF LiveOwned
<1>6. Unmapped'
  <2>1. \A m \in Models : ~Mapped(m) => instances'[m] = NoInst
    BY <1>1 DEF Mapped
  <2>2. QED
    BY <1>1, <2>1, WorkersFacts DEF Unmapped, Mapped, ModelOf
<1>7. QED
  BY <1>2, <1>3, <1>4, <1>5, <1>6

LEMMA UnloadStepTrack ==
  ASSUME Orderly, TypeInv, TrackInv, NEW w \in Workers, UnloadStep(w)
  PROVE  TrackInv'
<1> DEFINE m == ModelOf(w)
<1>1. m \in Models /\ instances[m] \in Insts \cup {NoInst}
  BY WorkersFacts DEF TypeInv, TypeOK
<1>2. CASE ShutdownUnload(w)
  <2>1. pc[w] = "unload" /\ w[2] = "shutdown" /\ phase = "shutdown"
        /\ UNCHANGED <<instances, phase>>
    BY <1>2, WorkerPair DEF ShutdownUnload, TrackInv, Roles
  <2>2. CASE Mapped(m)
    <3>1. StopInstance(w, instances[m]) /\ cur' = [cur EXCEPT ![w] = instances[m]]
      BY <1>2, <2>2 DEF ShutdownUnload
    <3>2. QED
      BY <1>1, <2>1, <2>2, <3>1, StopInstanceTrack DEF Mapped
  <2>3. CASE ~Mapped(m)
    <3>1. Return(w) /\ UNCHANGED <<inst, phase>>
      BY <1>2, <2>3 DEF ShutdownUnload
    <3>2. instances' = [instances EXCEPT ![m] = NoInst]
      BY <1>1, <2>1, <2>3 DEF Mapped, TypeInv, TypeOK
    <3>3. ASSUME NEW v \in Workers, v # w, pc[v] \notin {"idle", "unload"}
          PROVE  ModelOf(v) # m
      BY <2>1, <3>3, WorkerPair DEF TrackInv, Roles
    <3>4. ASSUME NEW i \in Insts, Alive(i) PROVE inst[i].owner # m
      BY <2>3, <3>4, NullAssumption DEF TrackInv, LiveOwned, Mapped
    <3>5. QED
      BY <2>1, <3>1, <3>2, <3>3, <3>4, LeaveTrack
  <2>4. QED
    BY <2>2, <2>3
<1>3. ASSUME pc[w] \in {"stop", "delete"}
      PROVE  /\ cur[w] \in Insts /\ instances[m] = cur[w]
             /\ phase = (IF w[2] = "api" THEN "serving" ELSE "shutdown")
  BY <1>3 DEF TypeInv, CurKnown, TrackInv, AtWork, Roles
<1>4. CASE Terminated(w)
  <2>1. /\ pc[w] = "stop" /\ inst[cur[w]].proc = "dead"
        /\ pc' = [pc EXCEPT ![w] = "delete"] /\ cur' = cur
        /\ UNCHANGED <<instances, inst, phase>>
    BY <1>4 DEF Terminated, Done, Goto
  <2>2. /\ "delete" \in Labels \ {"unload"} /\ "delete" \notin LoadLabels \cup {"idle"}
        /\ AtStart(inst'[cur[w]], "delete")
    BY DEF Labels, LoadLabels, AtStart
  <2>3. QED
    BY <1>3, <2>1, <2>2, LocalStep
<1>6. CASE DeleteEntry(w)
  <2>1. /\ pc[w] = "delete" /\ instances' = [instances EXCEPT ![m] = NoInst]
        /\ Return(w) /\ UNCHANGED <<inst, phase>>
    BY <1>6 DEF DeleteEntry
  <2>2. ASSUME NEW v \in Workers, v # w, pc[v] \notin {"idle", "unload"}
        PROVE  ModelOf(v) # m
    BY <1>3, <2>1, <2>2, Alone
  <2>3. ASSUME NEW i \in Insts, Alive(i) PROVE inst[i].owner # m
    BY <1>3, <2>1, <2>3 DEF TrackInv, LiveOwned, AtWork
  <2>4. QED
    BY <2>1, <2>2, <2>3, LeaveTrack
<1>7. QED
  BY <1>2, <1>4, <1>6 DEF UnloadStep

LEMMA NoKillFailure == Orderly => \A w \in Workers : ~KillFailure(w)
  BY DEF Orderly, KillFailure, FailUnkilled, TerminateFails

(* Load may put a new instance in the place of another only when nothing   *)
(* of its model is alive: a live one would be starting or running, or have *)
(* a worker that is stopping it.                                           *)
LEMMA BeginLoadTrack ==
  ASSUME Orderly, TypeInv, TrackInv, NEW m \in Models, NEW i \in Insts, BeginLoad(m, i)
  PROVE  TrackInv'
<1> USE DEF TrackInv
<1> DEFINE a == Api(m)
<1>1. /\ phase = "serving" /\ phase' = "serving"
      /\ a \in Workers /\ ModelOf(a) = m /\ a[2] = "api" /\ pc[a] = "idle"
  BY WorkersFacts, WorkerPair DEF BeginLoad, Accepting, Orderly
<1>2. /\ \A n \in Models : instances[n] # i
      /\ \A v \in Workers : cur[v] # i
      /\ ~Alive(i)
  BY DEF BeginLoad, Referenced
<1>3. /\ \A j \in Insts : j # i => inst'[j] = inst[j]
      /\ inst'[i].owner = m /\ inst'[i].state = "starting" /\ inst'[i].proc = "none"
      /\ inst'[i].mon = "none"
  BY DEF BeginLoad, Blank, TypeInv, TypeOK
<1>4. /\ pc'[a] = "port" /\ cur'[a] = i /\ instances'[m] = i
      /\ \A v \in Workers : v # a => pc'[v] = pc[v] /\ cur'[v] = cur[v]
      /\ \A n \in Models : n # m => instances'[n] = instances[n]
  BY <1>1 DEF BeginLoad, TypeInv, TypeOK
<1>5. ASSUME NEW v \in Workers, v # a, pc[v] # "idle" PROVE ModelOf(v) # m /\ pc[v] # "unload"
  BY <1>1, <1>5, WorkerPair DEF Roles
<1>6. ASSUME NEW j \in Insts, Alive(j), inst[j].owner = m PROVE FALSE
  <2>1. instances[m] = j /\ Mapped(m) /\ inst[j].state = "stopping"
    BY <1>6, NullAssumption DEF LiveOwned, BeginLoad, Replaceable, Mapped
  <2>2. PICK v \in Workers : cur[v] = j /\ pc[v] = "stop"
    BY <1>6, <2>1 DEF LiveOwned
  <2>3. v # a /\ ModelOf(v) \in Models /\ instances[ModelOf(v)] = j
    BY <1>1, <2>2, WorkersFacts DEF AtWork
  <2>4. inst[j].owner = ModelOf(v)
    BY <2>1, <2>3 DEF Owned, Mapped
  <2>5. QED
    BY <1>5, <1>6, <2>2, <2>3, <2>4
<1>7. Roles'
  BY <1>1, <1>4 DEF Roles, LoadLabels
<1>8. AtWork'
  <2> SUFFICES ASSUME NEW v \in Workers
               PROVE  /\ pc'[v] \notin {"idle", "unload"} => instances'[ModelOf(v)] = cur'[v]
                      /\ AtStart(inst'[cur'[v]], pc'[v])
                      /\ pc'[v] = "delete" => inst'[cur'[v]].proc \notin {"up", "listening"}
    BY DEF AtWork, AtStart, Alive, ModelOf
  <2>1. CASE v = a
    BY <1>1, <1>3, <1>4, <2>1 DEF AtStart
  <2>2. CASE v # a
    <3>1. pc[v] \notin {"idle", "unload"} => cur[v] \in Insts
      BY DEF TypeInv, CurKnown
    <3>2. QED
      BY <1>2, <1>3, <1>4, <1>5, <2>2, <3>1, WorkersFacts DEF AtWork, AtStart, Alive
  <2>3. QED
    BY <2>1, <2>2
<1>9. Owned'
  <2>1. \A n \in Models : Mapped(n) => instances[n] \in Insts /\ instances[n] # i
    BY <1>2 DEF Mapped, TypeInv, TypeOK
  <2>2. QED
    BY <1>3, <1>4, <2>1 DEF Owned, Mapped
<1>10. LiveOwned'
  <2> SUFFICES ASSUME NEW j \in Insts, inst'[j].proc \in {"up", "listening"}
               PROVE  /\ inst'[j].owner \in Models
                      /\ instances'[inst'[j].owner] = j
                      /\ \/ inst'[j].mon = "waiting"
                         \/ \E v \in Workers : cur'[v] = j /\ pc'[v] = "record"
                      /\ inst'[j].state \in {"starting", "running", "stopping"}
                      /\ inst'[j].state = "stopping" =>
                           \E v \in Workers : cur'[v] = j /\ pc'[v] = "stop"
    BY DEF LiveOwned, Alive
  <2>1. j # i /\ inst'[j] = inst[j] /\ Alive(j) /\ inst[j].owner # m
    BY <1>3, <1>6 DEF Alive
  <2>2. \A v \in Workers : pc[v] \in {"record", "stop"} => cur'[v] = cur[v] /\ pc'[v] = pc[v]
    BY <1>1, <1>4
  <2>3. QED
    BY <1>4, <2>1, <2>2 DEF LiveOwned
<1>11. Unmapped'
  BY <1>1 DEF Unmapped
<1>12. QED
  BY <1>7, <1>8, <1>9, <1>10, <1>11

LEMMA BeginUnloadTrack ==
  ASSUME Orderly, TypeInv, TrackInv, NEW m \in Models, BeginUnload(m)
  PROVE  TrackInv'
<1>1. /\ phase = "serving" /\ Api(m)[2] = "api" /\ Api(m) \in Workers /\ ModelOf(Api(m)) = m
  BY WorkersFacts, WorkerPair DEF BeginUnload, Accepting, Orderly
<1>2. instances[m] \in Insts
  BY DEF BeginUnload, Mapped, TypeInv, TypeOK
<1>3. QED
  BY <1>1, <1>2, StopInstanceTrack DEF BeginUnload

(* A step of a process or a monitor: it changes one instance, and a live   *)
(* process it leaves alive keeps its monitor and its state.                *)
LEMMA InstanceStep ==
  ASSUME TypeInv, TrackInv, NEW i \in Insts, UNCHANGED <<instances, pc, cur, phase>>,
         \A j \in Insts : j # i => inst'[j] = inst[j],
         inst'[i].owner = inst[i].owner,
         inst[i].proc # "none",
         inst[i].mon = "none" => inst'[i].mon = "none" /\ inst'[i].state = inst[i].state,
         inst'[i].proc \in {"up", "listening"} =>
           Alive(i) /\ inst'[i].mon = inst[i].mon /\ inst'[i].state = inst[i].state
  PROVE  TrackInv'
<1> USE DEF TrackInv
<1>1. \A v \in Workers : pc[v] \notin {"idle", "unload"} => cur[v] \in Insts
  BY DEF TypeInv, CurKnown
<1>2. Roles'
  BY DEF Roles
<1>3. AtWork'
  <2> SUFFICES ASSUME NEW v \in Workers
               PROVE  /\ pc[v] \notin {"idle", "unload"} => instances[ModelOf(v)] = cur[v]
                      /\ AtStart(inst'[cur[v]], pc[v])
                      /\ pc[v] = "delete" => inst'[cur[v]].proc \notin {"up", "listening"}
    BY DEF AtWork, AtStart, Alive, ModelOf
  <2>1. CASE cur[v] = i
    BY <2>1 DEF AtWork, AtStart, Alive
  <2>2. CASE cur[v] # i
    BY <1>1, <2>2 DEF AtWork, AtStart, Alive
  <2>3. QED
    BY <2>1, <2>2
<1>4. Owned'
  <2>1. \A m \in Models : Mapped(m) => instances[m] \in Insts
    BY DEF Mapped, TypeInv, TypeOK
  <2>2. \A j \in Insts : inst'[j].owner = inst[j].owner
    OBVIOUS
  <2>3. QED
    BY <2>1, <2>2 DEF Owned, Mapped
<1>5. LiveOwned'
  <2>1. ASSUME NEW j \in Insts, inst'[j].proc \in {"up", "listening"}
        PROVE  /\ Alive(j) /\ inst'[j].owner = inst[j].owner
               /\ inst'[j].mon = inst[j].mon /\ inst'[j].state = inst[j].state
    BY <2>1 DEF Alive
  <2>2. QED
    BY <2>1 DEF LiveOwned, Alive
<1>6. Unmapped'
  BY DEF Unmapped, Mapped, ModelOf
<1>7. QED
  BY <1>2, <1>3, <1>4, <1>5, <1>6

LEMMA ProcessTrack ==
  ASSUME TypeInv, TrackInv, NEW i \in Insts,
         Monitor(i) \/ Listen(i) \/ BindFails(i) \/ Killed(i) \/ Crash(i)
  PROVE  TrackInv'
<1>1. CASE Monitor(i)
  <2>1. PICK s \in States :
          inst' = [inst EXCEPT ![i] = [inst[i] EXCEPT !.mon = "done", !.state = s]]
    BY <1>1 DEF Monitor, States
  <2>2. /\ \A j \in Insts : j # i => inst'[j] = inst[j]
        /\ inst'[i].owner = inst[i].owner /\ inst'[i].proc = inst[i].proc
    BY <2>1 DEF TypeInv, TypeOK, InstType
  <2>3. inst[i].proc = "dead" /\ inst[i].mon = "waiting" /\ UNCHANGED <<instances, pc, cur, phase>>
    BY <1>1 DEF Monitor, Done
  <2>4. QED
    BY <2>2, <2>3, InstanceStep
<1>2. ASSUME NEW s \in {"listening", "dead"}, ProcBecomes(i, s),
             inst[i].proc \in {"up", "listening"}
      PROVE  TrackInv'
  <2>1. /\ \A j \in Insts : j # i => inst'[j] = inst[j]
        /\ inst'[i].owner = inst[i].owner /\ inst'[i].mon = inst[i].mon
        /\ inst'[i].state = inst[i].state
    BY <1>2 DEF ProcBecomes, TypeInv, TypeOK, InstType
  <2>2. UNCHANGED <<instances, pc, cur, phase>>
    BY <1>2 DEF ProcBecomes
  <2>3. QED
    BY <1>2, <2>1, <2>2, InstanceStep DEF Alive
<1>3. CASE Listen(i)
  BY <1>2, <1>3 DEF Listen
<1>4. CASE BindFails(i) \/ Killed(i) \/ Crash(i)
  BY <1>2, <1>4 DEF BindFails, Killed, Crash, Alive
<1>5. QED
  BY <1>1, <1>3, <1>4

LEMMA HelperTrack ==
  ASSUME TypeInv, TrackInv, NEW i \in Insts, HelperMoves(i)
  PROVE  TrackInv'
<1>1. /\ UNCHANGED <<instances, pc, cur, phase>>
      /\ \A j \in Insts :
           /\ inst'[j].owner = inst[j].owner /\ inst'[j].state = inst[j].state
           /\ inst'[j].proc = inst[j].proc /\ inst'[j].mon = inst[j].mon
  BY HelperStep
<1>2. \A v \in Workers : pc[v] \notin {"idle", "unload"} => cur[v] \in Insts
  BY DEF TypeInv, CurKnown
<1>3. AtWork'
  BY <1>1, <1>2 DEF TrackInv, AtWork, AtStart, Alive, ModelOf
<1>4. Owned'
  <2>1. \A m \in Models : Mapped(m) => instances[m] \in Insts
    BY DEF Mapped, TypeInv, TypeOK
  <2>2. QED
    BY <1>1, <2>1 DEF TrackInv, Owned, Mapped
<1>5. LiveOwned'
  BY <1>1 DEF TrackInv, LiveOwned, Alive
<1>6. QED
  BY <1>1, <1>3, <1>4, <1>5 DEF TrackInv, Roles, Unmapped, Mapped, ModelOf

LEMMA ServerTrack ==
  ASSUME Orderly, TypeInv, TrackInv, BeginShutdown \/ EndShutdown \/ ServerDies \/ Boot
  PROVE  TrackInv'
<1> USE DEF TrackInv
<1>1. CASE BeginShutdown
  <2>1. /\ phase = "serving" /\ phase' = "shutdown" /\ UNCHANGED <<instances, inst, cur>>
        /\ \A m \in Models : pc[Api(m)] = "idle"
        /\ \A w \in Workers : pc'[w] = IF w[2] = "shutdown" /\ Mapped(w[1]) THEN "unload" ELSE pc[w]
    BY <1>1 DEF BeginShutdown, Orderly
  <2>2. ASSUME NEW w \in Workers PROVE pc[w] = "idle"
    <3>1. CASE w[2] = "api"
      <4>1. w = Api(ModelOf(w)) /\ ModelOf(w) \in Models
        BY <3>1 DEF Workers, ModelOf, Api
      <4>2. QED
        BY <2>1, <4>1
    <3>2. CASE w[2] = "shutdown"
      BY <2>1, <3>2 DEF Roles
    <3>3. QED
      BY <3>1, <3>2, WorkerPair
  <2>3. \A w \in Workers :
          pc'[w] = "idle" \/ (pc'[w] = "unload" /\ w[2] = "shutdown")
    BY <2>1, <2>2
  <2>4. Roles'
    BY <2>1, <2>3 DEF Roles, LoadLabels
  <2>5. AtWork'
    BY <2>3 DEF AtWork, AtStart
  <2>6. Owned'
    BY <2>1 DEF Owned, Mapped
  <2>7. LiveOwned'
    <3>1. \A i \in Insts : Alive(i) => inst[i].mon = "waiting" /\ inst[i].state # "stopping"
      BY <2>2 DEF LiveOwned
    <3>2. QED
      BY <2>1, <3>1 DEF LiveOwned, Alive
  <2>8. Unmapped'
    BY <2>1 DEF Unmapped, Mapped, ModelOf
  <2>9. QED
    BY <2>4, <2>5, <2>6, <2>7, <2>8
<1>2. CASE EndShutdown
  <2>1. /\ phase = "shutdown" /\ phase' = "exited"
        /\ \A m \in Models : pc[<<m, "shutdown">>] = "idle"
        /\ \A m \in Models : instances'[m] = NoInst
        /\ \A w \in Workers : pc'[w] = "idle"
        /\ inst' = [i \in Insts |->
              [inst[i] EXCEPT !.state = "none", !.port = NoPort, !.held = FALSE, !.mon = "none"]]
    BY <1>2 DEF EndShutdown, ServerGone
  <2>2. \A m \in Models : ~Mapped(m)
    BY <2>1, WorkerPair DEF Unmapped, ModelOf
  <2>3. \A i \in Insts : ~Alive(i)
    BY <2>2, NullAssumption DEF LiveOwned, Mapped
  <2>4. ASSUME NEW i \in Insts PROVE inst'[i].proc = inst[i].proc
    <3>1. inst'[i] =
            [inst[i] EXCEPT !.state = "none", !.port = NoPort, !.held = FALSE, !.mon = "none"]
      BY <2>1
    <3>2. inst[i] \in InstType
      BY DEF TypeInv, TypeOK
    <3>3. QED
      BY <3>1, <3>2 DEF InstType
  <2>5. Roles' /\ AtWork'
    BY <2>1 DEF Roles, AtWork, AtStart, LoadLabels
  <2>6. Owned' /\ Unmapped'
    BY <2>1 DEF Owned, Unmapped, Mapped
  <2>7. LiveOwned'
    BY <2>3, <2>4 DEF LiveOwned, Alive
  <2>8. QED
    BY <2>5, <2>6, <2>7
<1>3. ~ServerDies
  BY DEF ServerDies, Orderly
<1>4. CASE Boot
  <2>1. phase = "exited" /\ phase' = "serving" /\ UNCHANGED <<instances, inst, pc, cur>>
    BY <1>4 DEF Boot
  <2>2. \A w \in Workers : pc[w] = "idle"
    BY <2>1 DEF Roles
  <2>3. Roles'
    BY <2>1, <2>2 DEF Roles, LoadLabels
  <2>4. AtWork' /\ Owned'
    BY <2>1 DEF AtWork, AtStart, Owned, Mapped, Alive, ModelOf
  <2>5. LiveOwned'
    BY <2>1 DEF LiveOwned, Alive
  <2>6. Unmapped'
    BY <2>1 DEF Unmapped
  <2>7. QED
    BY <2>3, <2>4, <2>5, <2>6
<1>5. QED
  BY <1>1, <1>2, <1>3, <1>4

LEMMA TrackStep == Orderly /\ TypeInv /\ TrackInv /\ [Next]_vars => TrackInv'
<1> SUFFICES ASSUME Orderly, TypeInv, TrackInv, [Next]_vars PROVE TrackInv'
  OBVIOUS
<1>1. CASE RestStays
  BY <1>1 DEF RestStays, TrackInv, Roles, AtWork, AtStart, Owned, LiveOwned, Unmapped, Mapped,
              Alive, ModelOf
<1>2. CASE UNCHANGED vars
  BY <1>1, <1>2 DEF vars, RestStays
<1>3. CASE \E c \in Clients : Answered(c) \/ \E m \in Models : Route(c, m)
  BY <1>1, <1>3, RequestType
<1>4. QED
  BY <1>2, <1>3, LoadStepTrack, UnloadStepTrack, NoKillFailure, BeginLoadTrack, BeginUnloadTrack,
     ProcessTrack, HelperTrack, ServerTrack
  DEF Next, Step, HelperMoves

LEMMA TrackInit == Init => TrackInv
<1> SUFFICES ASSUME Init PROVE TrackInv
  OBVIOUS
<1>1. /\ \A w \in Workers : pc[w] = "idle"
      /\ \A m \in Models : ~Mapped(m)
      /\ \A i \in Insts : ~Alive(i)
      /\ phase = "serving"
  BY DEF Init, Mapped, Alive, Blank
<1>2. QED
  BY <1>1 DEF TrackInv, Roles, AtWork, AtStart, Owned, LiveOwned, Unmapped, LoadLabels

LEMMA TrackInvariant == Orderly => (Spec => []TrackInv)
<1> SUFFICES ASSUME Orderly PROVE Spec => []TrackInv
  OBVIOUS
<1>1. TypeInv /\ TrackInv /\ [Next]_vars => TrackInv'
  BY TrackStep
<1>2. QED
  BY <1>1, TrackInit, TypeInvariant, PTL DEF Spec

(* The runtime never loses track of a live process, as long as the server  *)
(* is not killed, no Terminate fails and no request outlives the drain:    *)
(* Unload and Shutdown can reach every llama-server they have to stop.     *)
THEOREM NoProcessLost == Orderly => (Spec => []Tracked)
<1> SUFFICES ASSUME Orderly PROVE Spec => []Tracked
  OBVIOUS
<1>1. TrackInv => Tracked
  BY DEF TrackInv, LiveOwned, Tracked
<1>2. QED
  BY <1>1, TrackInvariant, PTL

(* Under the same conditions a server that has shut down leaves no         *)
(* llama-server behind.                                                    *)
THEOREM ShutdownComplete == Orderly => (Spec => []ShutdownStopsAll)
<1> SUFFICES ASSUME Orderly PROVE Spec => []ShutdownStopsAll
  OBVIOUS
<1>1. TrackInv => ShutdownStopsAll
  BY NullAssumption DEF TrackInv, LiveOwned, Unmapped, Mapped, ShutdownStopsAll
<1>2. QED
  BY <1>1, TrackInvariant, PTL

-------------------------------------------------------------------------------
(***************************************************************************)
(* Ports.  A port that is released twice takes it from whoever got it in   *)
(* between.  Load gives up on a process that is there only when its time   *)
(* is up or it notices an exit before the monitor does; without these      *)
(* faults, and in an Orderly server, the releases meet: whoever is bound   *)
(* to release has its port, reserved and to itself, and a load that fails  *)
(* after its process has gone finds the failure recorded.                  *)
(***************************************************************************)
Calm == Orderly /\ Faults \cap {"waitEnds", "lateNotice"} = {}

PortsHeld ==
  /\ \A i \in Insts : WillRelease(i) => inst[i].port \in reserved /\ inst[i].base = inst[i].port
  /\ \A i, j \in Insts : i # j /\ WillRelease(i) /\ WillRelease(j) => inst[i].port # inst[j].port

LoadState(w) ==
  /\ pc[w] # "terminate"
  /\ pc[w] = "port" => inst[cur[w]].port = NoPort
  /\ pc[w] = "wait" =>
       \/ inst[cur[w]].mon = "waiting" /\ inst[cur[w]].state = "starting"
       \/ inst[cur[w]].mon = "done" /\ inst[cur[w]].state = "failed" /\ Done(cur[w])
  /\ pc[w] = "failing" => inst[cur[w]].state = "failed"

PortInv == PortsHeld /\ \A w \in Workers : LoadState(w)

(* At most one worker works on an instance.                                *)
LEMMA WorksAlone ==
  ASSUME TypeInv, TrackInv, NEW w \in Workers, pc[w] \notin {"idle", "unload"}
  PROVE  /\ cur[w] \in Insts /\ instances[ModelOf(w)] = cur[w]
         /\ phase = (IF w[2] = "api" THEN "serving" ELSE "shutdown")
         /\ \A v \in Workers : v # w /\ pc[v] \notin {"idle", "unload"} =>
              cur[v] # cur[w] /\ ModelOf(v) # ModelOf(w)
<1>1. /\ cur[w] \in Insts /\ instances[ModelOf(w)] = cur[w]
      /\ phase = (IF w[2] = "api" THEN "serving" ELSE "shutdown")
  BY DEF TypeInv, CurKnown, TrackInv, AtWork, Roles
<1>2. QED
  BY <1>1, Alone

(* A step that touches the instance c alone keeps the ports when it takes  *)
(* none, and releases only the one of c, together with the duty to do so.  *)
LEMMA HeldLocal ==
  ASSUME TypeInv, PortsHeld, NEW c \in Insts,
         \A i \in Insts \ {c} :
           /\ inst'[i] = inst[i]
           /\ Working(i, {"start", "record"})' => Working(i, {"start", "record"}),
         WillRelease(c)' =>
           /\ WillRelease(c) /\ inst'[c].port = inst[c].port /\ inst'[c].base = inst[c].base
           /\ reserved' = reserved,
         \/ reserved' = reserved
         \/ /\ reserved' = reserved \ {inst[c].port}
            /\ WillRelease(c) \/ inst[c].port = NoPort
  PROVE  PortsHeld'
<1>1. \A i \in Insts : WillRelease(i)' =>
        /\ WillRelease(i) /\ inst'[i].port = inst[i].port /\ inst'[i].base = inst[i].base
  BY DEF WillRelease
<1>2. ASSUME NEW i \in Insts, WillRelease(i)' PROVE inst[i].port \in reserved'
  <2>1. CASE i = c
    BY <1>2, <2>1 DEF PortsHeld
  <2>2. CASE i # c
    <3>1. inst[i].port \in reserved /\ inst[i].port # NoPort
      BY <1>1, <1>2, NullAssumption DEF PortsHeld, TypeInv, TypeOK
    <3>2. WillRelease(c) => inst[i].port # inst[c].port
      BY <1>1, <1>2, <2>2 DEF PortsHeld
    <3>3. QED
      BY <3>1, <3>2
  <2>3. QED
    BY <2>1, <2>2
<1>3. QED
  BY <1>1, <1>2 DEF PortsHeld

(* What a step of a worker leaves alone.                                   *)
OthersStay(w, c) ==
  /\ \A v \in Workers : v # w => pc'[v] = pc[v] /\ cur'[v] = cur[v]
  /\ \A i \in Insts : i # c => inst'[i] = inst[i]

LEMMA OthersLoad ==
  ASSUME TypeInv, PortInv, NEW w \in Workers, NEW c \in Insts, OthersStay(w, c),
         \A v \in Workers : v # w /\ pc[v] \notin {"idle", "unload"} => cur[v] # c
  PROVE  \A v \in Workers : v # w => LoadState(v)'
<1> SUFFICES ASSUME NEW v \in Workers, v # w PROVE LoadState(v)'
  OBVIOUS
<1>1. pc'[v] = pc[v] /\ cur'[v] = cur[v]
  BY DEF OthersStay
<1>2. CASE pc[v] \in {"idle", "unload"}
  BY <1>1, <1>2 DEF LoadState
<1>3. CASE pc[v] \notin {"idle", "unload"}
  <2>1. cur[v] \in Insts /\ cur[v] # c
    BY <1>3 DEF TypeInv, CurKnown
  <2>2. inst'[cur[v]] = inst[cur[v]]
    BY <2>1 DEF OthersStay
  <2>3. QED
    BY <1>1, <2>2 DEF PortInv, LoadState, Done
<1>4. QED
  BY <1>2, <1>3

(* The two together, for a step that starts no process.                    *)
LEMMA PortLocal ==
  ASSUME TypeInv, PortInv, NEW w \in Workers, NEW c \in Insts, OthersStay(w, c),
         \A v \in Workers : v # w /\ pc[v] \notin {"idle", "unload"} => cur[v] # c,
         pc'[w] \notin {"start", "record"}, LoadState(w)',
         inst'[c].mon = "waiting" =>
           /\ WillRelease(c) /\ inst'[c].port = inst[c].port /\ inst'[c].base = inst[c].base
           /\ reserved' = reserved,
         \/ reserved' = reserved
         \/ /\ reserved' = reserved \ {inst[c].port}
            /\ WillRelease(c) \/ inst[c].port = NoPort
  PROVE  PortInv'
<1>1. \A i \in Insts :
        Working(i, {"start", "record"})' => i # c /\ Working(i, {"start", "record"})
  <2> SUFFICES ASSUME NEW i \in Insts, NEW v \in Workers, cur'[v] = i,
                      pc'[v] \in {"start", "record"}
               PROVE  i # c /\ Working(i, {"start", "record"})
    BY DEF Working
  <2>1. v # w /\ pc[v] \in {"start", "record"} /\ cur[v] = i
    BY DEF OthersStay
  <2>2. QED
    BY <2>1 DEF Working
<1>2. PortsHeld'
  BY <1>1, HeldLocal DEF PortInv, OthersStay, WillRelease
<1>3. QED
  BY <1>2, OthersLoad DEF PortInv

LEMMA FailPorts ==
  ASSUME TypeInv, LeakInv, TrackInv, PortInv, NEW w \in Workers, Fresh(w), Fail(w)
  PROVE  PortInv'
<1> DEFINE c == cur[w]
<1>1. /\ c \in Insts
      /\ \A v \in Workers : v # w /\ pc[v] \notin {"idle", "unload"} => cur[v] # c
  BY WorksAlone DEF Fresh
<1>2. inst' = [inst EXCEPT ![c] = [inst[c] EXCEPT !.state = "failed", !.port = NoPort]]
      /\ pc' = [pc EXCEPT ![w] = "idle"] /\ cur' = [cur EXCEPT ![w] = NoInst]
      /\ reserved' = reserved \ {inst[c].port}
  BY DEF Fail, Return
<1>3. OthersStay(w, c) /\ pc'[w] = "idle" /\ inst'[c].mon = inst[c].mon
  BY <1>1, <1>2 DEF OthersStay, TypeInv, TypeOK, InstType
<1>4. inst[c].mon = "none"
  BY DEF LeakInv, FreshAlone
<1>5. WillRelease(c) \/ inst[c].port = NoPort
  BY DEF Fresh, WillRelease, Working, PortInv, LoadState
<1>6. LoadState(w)'
  BY <1>3 DEF LoadState
<1>7. QED
  BY <1>1, <1>2, <1>3, <1>4, <1>5, <1>6, PortLocal

LEMMA TakePorts ==
  ASSUME TypeInv, LeakInv, TrackInv, PortInv, NEW w \in Workers, TakePort(w)
  PROVE  PortInv'
<1> DEFINE c == cur[w]
<1>1. /\ pc[w] = "port" /\ c \in Insts
      /\ \A v \in Workers : v # w /\ pc[v] \notin {"idle", "unload"} => cur[v] # c
  BY WorksAlone DEF TakePort
<1>2. PICK p \in Ports : /\ p \notin reserved /\ reserved' = reserved \cup {p}
                         /\ inst' = [inst EXCEPT ![c] = [inst[c] EXCEPT !.port = p, !.base = p]]
  BY PortsAssumption, WorkersFacts DEF TakePort, Usable
<1>3. /\ OthersStay(w, c) /\ pc'[w] = "start" /\ cur'[w] = c
      /\ inst'[c].mon = inst[c].mon /\ inst'[c].port = p /\ inst'[c].base = p
  BY <1>1, <1>2 DEF TakePort, Goto, OthersStay, TypeInv, TypeOK, InstType
<1>4. ASSUME NEW i \in Insts, i # c, WillRelease(i)'
      PROVE  WillRelease(i) /\ inst'[i] = inst[i]
  BY <1>3, <1>4 DEF OthersStay, WillRelease, Working
<1>5. PortsHeld'
  BY <1>2, <1>3, <1>4 DEF PortInv, PortsHeld
<1>6. QED
  BY <1>1, <1>3, <1>5, OthersLoad DEF PortInv, LoadState

LEMMA LoadStepPorts ==
  ASSUME Calm, TypeInv, LeakInv, TrackInv, PortInv, NEW w \in Workers, LoadStep(w)
  PROVE  PortInv'
<1> DEFINE c == cur[w]
<1>1. pc[w] \in LoadLabels
  BY DEF LoadStep, TakePort, NoFreePort, StartServer, RecordHandle, StartFails, Healthy,
         NotHealthy, AlreadyFailed, GiveUp, FailTerminated, MarkRunning, LoadLabels
<1>2. /\ c \in Insts
      /\ \A v \in Workers : v # w /\ pc[v] \notin {"idle", "unload"} => cur[v] # c
  BY <1>1, WorksAlone DEF LoadLabels
<1>3. LoadState(w)
  BY DEF PortInv
<1>4. CASE TakePort(w)
  BY <1>4, TakePorts
<1>5. CASE NoFreePort(w) \/ StartFails(w)
  BY <1>5, FailPorts DEF NoFreePort, StartFails, Fresh
<1>6. CASE StartServer(w)
  <2>1. /\ pc[w] = "start" /\ pc' = [pc EXCEPT ![w] = "record"] /\ UNCHANGED <<cur, reserved>>
        /\ inst' = [inst EXCEPT ![c] = [inst[c] EXCEPT !.proc = "up"]]
    BY <1>6 DEF StartServer, Goto
  <2>2. /\ OthersStay(w, c) /\ pc'[w] = "record" /\ cur'[w] = c /\ inst'[c].mon = inst[c].mon
        /\ inst'[c].port = inst[c].port /\ inst'[c].base = inst[c].base
    BY <1>2, <2>1 DEF OthersStay, TypeInv, TypeOK, InstType
  <2>3. WillRelease(c)
    BY <2>1 DEF WillRelease, Working
  <2>4. \A i \in Insts \ {c} :
          Working(i, {"start", "record"})' => Working(i, {"start", "record"})
    BY <2>2 DEF Working, OthersStay
  <2>5. PortsHeld'
    BY <1>2, <2>1, <2>2, <2>3, <2>4, HeldLocal DEF PortInv, OthersStay
  <2>6. LoadState(w)'
    BY <2>2 DEF LoadState
  <2>7. QED
    BY <1>2, <2>2, <2>5, <2>6, OthersLoad DEF PortInv
<1>13. CASE RecordHandle(w)
  <2>1. /\ pc[w] = "record" /\ pc' = [pc EXCEPT ![w] = "wait"] /\ UNCHANGED <<cur, reserved>>
        /\ inst' = [inst EXCEPT ![c] = [inst[c] EXCEPT !.mon = "waiting"]]
    BY <1>13 DEF RecordHandle, Goto
  <2>2. /\ OthersStay(w, c) /\ pc'[w] = "wait" /\ cur'[w] = c
        /\ inst'[c].mon = "waiting" /\ inst'[c].state = inst[c].state
        /\ inst'[c].port = inst[c].port /\ inst'[c].base = inst[c].base
    BY <1>2, <2>1 DEF OthersStay, TypeInv, TypeOK, InstType
  <2>3. inst[c].state = "starting" /\ WillRelease(c)
    BY <2>1 DEF TrackInv, AtWork, AtStart, WillRelease, Working
  <2>4. LoadState(w)'
    BY <2>2, <2>3 DEF LoadState
  <2>5. QED
    BY <1>2, <2>1, <2>2, <2>3, <2>4, PortLocal
<1>7. CASE Healthy(w)
  <2>1. /\ OthersStay(w, c) /\ pc'[w] = "vision" /\ UNCHANGED <<inst, reserved>>
    BY <1>7 DEF Healthy, Goto, OthersStay, TypeInv, TypeOK
  <2>2. LoadState(w)'
    BY <2>1 DEF LoadState
  <2>3. QED
    BY <1>2, <2>1, <2>2, PortLocal DEF WillRelease
<1>8. CASE NotHealthy(w)
  <2>1. /\ OthersStay(w, c) /\ pc'[w] = "failing" /\ UNCHANGED <<inst, cur, reserved>>
        /\ pc[w] = "wait" /\ inst[c].mon = "done"
    BY <1>8 DEF NotHealthy, Goto, OthersStay, TypeInv, TypeOK, Calm
  <2>2. LoadState(w)'
    BY <1>3, <2>1 DEF LoadState
  <2>3. QED
    BY <1>2, <2>1, <2>2, PortLocal DEF WillRelease
<1>9. CASE AlreadyFailed(w)
  <2>1. /\ OthersStay(w, c) /\ pc'[w] = "idle" /\ UNCHANGED <<inst, reserved>>
    BY <1>9 DEF AlreadyFailed, Return, OthersStay, TypeInv, TypeOK
  <2>2. LoadState(w)'
    BY <2>1 DEF LoadState
  <2>3. QED
    BY <1>2, <2>1, <2>2, PortLocal DEF WillRelease
<1>10. ~GiveUp(w) /\ ~FailTerminated(w)
  BY <1>3 DEF GiveUp, FailTerminated, LoadState
<1>11. CASE MarkRunning(w)
  <2>1. /\ pc' = [pc EXCEPT ![w] = "idle"] /\ cur' = [cur EXCEPT ![w] = NoInst]
        /\ inst' = [inst EXCEPT ![c] = [inst[c] EXCEPT !.state = "running"]] /\ UNCHANGED reserved
    BY <1>11 DEF MarkRunning, Return
  <2>2. /\ OthersStay(w, c) /\ pc'[w] = "idle" /\ inst'[c].mon = inst[c].mon
        /\ inst'[c].port = inst[c].port /\ inst'[c].base = inst[c].base
    BY <1>2, <2>1 DEF OthersStay, TypeInv, TypeOK, InstType
  <2>3. LoadState(w)'
    BY <2>2 DEF LoadState
  <2>4. QED
    BY <1>2, <2>1, <2>2, <2>3, PortLocal DEF WillRelease
<1>12. QED
  BY <1>4, <1>5, <1>6, <1>7, <1>8, <1>9, <1>10, <1>11, <1>13 DEF LoadStep

(* A worker that stops c, or is done with it.                              *)
LEMMA StopInstancePorts ==
  ASSUME TypeInv, TrackInv, PortInv, NEW w \in Workers, NEW c \in Insts,
         instances[ModelOf(w)] = c,
         phase = (IF w[2] = "api" THEN "serving" ELSE "shutdown"),
         StopInstance(w, c), cur' = [cur EXCEPT ![w] = c], UNCHANGED reserved
  PROVE  PortInv'
<1>1. \A v \in Workers : v # w /\ pc[v] \notin {"idle", "unload"} => cur[v] # c
  BY Alone
<1>2. PICK s \in States, l \in {"delete", "stop"} :
        inst' = [inst EXCEPT ![c] = [inst[c] EXCEPT !.state = s]] /\ pc' = [pc EXCEPT ![w] = l]
  BY DEF StopInstance, States
<1>3. /\ OthersStay(w, c) /\ pc'[w] = l /\ inst'[c].mon = inst[c].mon
      /\ inst'[c].port = inst[c].port /\ inst'[c].base = inst[c].base
  BY <1>2 DEF OthersStay, TypeInv, TypeOK, InstType
<1>4. LoadState(w)'
  BY <1>3 DEF LoadState
<1>5. QED
  BY <1>1, <1>3, <1>4, PortLocal DEF WillRelease

LEMMA UnloadStepPorts ==
  ASSUME Calm, TypeInv, TrackInv, PortInv, NEW w \in Workers, UnloadStep(w)
  PROVE  PortInv'
<1>1. CASE ShutdownUnload(w) /\ Mapped(ModelOf(w))
  <2>1. /\ StopInstance(w, instances[ModelOf(w)]) /\ cur' = [cur EXCEPT ![w] = instances[ModelOf(w)]]
        /\ UNCHANGED reserved /\ pc[w] = "unload"
    BY <1>1 DEF ShutdownUnload
  <2>2. instances[ModelOf(w)] \in Insts /\ w[2] = "shutdown" /\ phase = "shutdown"
    BY <1>1, <2>1, WorkersFacts DEF Mapped, TypeInv, TypeOK, TrackInv, Roles
  <2>3. QED
    BY <2>1, <2>2, StopInstancePorts
<1>2. CASE (ShutdownUnload(w) /\ ~Mapped(ModelOf(w))) \/ Terminated(w) \/ DeleteEntry(w)
  <2>1. /\ UNCHANGED <<inst, reserved>> /\ pc'[w] \in {"idle", "delete"}
        /\ \A v \in Workers : v # w => pc'[v] = pc[v] /\ cur'[v] = cur[v]
    BY <1>2 DEF ShutdownUnload, Terminated, DeleteEntry, Goto, Return, TypeInv, TypeOK
  <2>2. \A i \in Insts : WillRelease(i)' => WillRelease(i)
    BY <2>1 DEF WillRelease, Working
  <2>3. PortsHeld'
    BY <2>1, <2>2 DEF PortInv, PortsHeld
  <2>4. ASSUME NEW v \in Workers PROVE LoadState(v)'
    BY <2>1 DEF PortInv, LoadState, Done
  <2>5. QED
    BY <2>3, <2>4 DEF PortInv
<1>3. QED
  BY <1>1, <1>2 DEF UnloadStep

LEMMA BeginPorts ==
  ASSUME Calm, TypeInv, TrackInv, PortInv, NEW m \in Models,
         BeginUnload(m) \/ \E i \in Insts : BeginLoad(m, i)
  PROVE  PortInv'
<1>1. CASE BeginUnload(m)
  <2>1. /\ phase = "serving" /\ Api(m)[2] = "api" /\ Api(m) \in Workers /\ ModelOf(Api(m)) = m
        /\ instances[m] \in Insts
    BY <1>1, WorkersFacts, WorkerPair
    DEF BeginUnload, Accepting, Calm, Orderly, Mapped, TypeInv, TypeOK
  <2>2. QED
    BY <1>1, <2>1, StopInstancePorts DEF BeginUnload
<1>2. ASSUME NEW i \in Insts, BeginLoad(m, i) PROVE PortInv'
  <2>1. Api(m) \in Workers /\ \A v \in Workers : cur[v] # i
    BY <1>2, WorkersFacts DEF BeginLoad, Referenced
  <2>2. /\ OthersStay(Api(m), i) /\ pc'[Api(m)] = "port" /\ cur'[Api(m)] = i
        /\ inst'[i].port = NoPort /\ inst'[i].mon = "none" /\ UNCHANGED reserved
    BY <1>2, <2>1 DEF BeginLoad, OthersStay, Blank, TypeInv, TypeOK
  <2>3. LoadState(Api(m))'
    BY <2>2 DEF LoadState
  <2>4. QED
    BY <2>1, <2>2, <2>3, PortLocal
<1>3. QED
  BY <1>1, <1>2

(* A monitor finds the load it has overtaken waiting, not about to start.  *)
LEMMA MonitorPorts ==
  ASSUME TypeInv, TrackInv, PortInv, NEW i \in Insts, Monitor(i)
  PROVE  PortInv'
<1>1. PICK s \in States :
        /\ inst' = [inst EXCEPT ![i] = [inst[i] EXCEPT !.mon = "done", !.state = s]]
        /\ inst[i].state \in {"starting", "failed"} => s = "failed"
  BY DEF Monitor, States
<1>2. /\ \A j \in Insts \ {i} : inst'[j] = inst[j]
      /\ inst'[i].mon = "done" /\ inst'[i].state = s /\ inst'[i].port = inst[i].port
      /\ inst'[i].proc = inst[i].proc /\ inst'[i].held = inst[i].held
  BY <1>1 DEF TypeInv, TypeOK, InstType
<1>3. /\ inst[i].mon = "waiting" /\ Done(i) /\ UNCHANGED <<pc, cur>>
      /\ reserved' = reserved \ {inst[i].port}
  BY DEF Monitor
<1>4. ~Working(i, {"start", "record"})'
  BY <1>3 DEF Working, TrackInv, AtWork, AtStart
<1>5. PortsHeld'
  BY <1>2, <1>3, <1>4, HeldLocal DEF PortInv, WillRelease, Working
<1>6. ASSUME NEW w \in Workers PROVE LoadState(w)'
  <2>1. CASE pc[w] \in {"idle", "unload"}
    BY <1>3, <2>1 DEF LoadState
  <2>2. CASE pc[w] \notin {"idle", "unload"}
    <3>1. cur[w] \in Insts /\ LoadState(w)
      BY <2>2 DEF TypeInv, CurKnown, PortInv
    <3>2. QED
      BY <1>1, <1>2, <1>3, <3>1 DEF LoadState, Done
  <2>3. QED
    BY <2>1, <2>2
<1>7. QED
  BY <1>5, <1>6 DEF PortInv

LEMMA ProcessPorts ==
  ASSUME TypeInv, PortInv, NEW i \in Insts, Listen(i) \/ BindFails(i) \/ Killed(i) \/ Crash(i)
  PROVE  PortInv'
<1>1. PICK s \in {"listening", "dead"} : ProcBecomes(i, s)
  BY DEF Listen, BindFails, Killed, Crash
<1>2. \A j \in Insts : /\ inst'[j].mon = inst[j].mon /\ inst'[j].state = inst[j].state
                       /\ inst'[j].port = inst[j].port /\ inst'[j].base = inst[j].base
                       /\ Done(j) => Done(j)'
  <2>1. Alive(i)
    BY DEF Listen, BindFails, Killed, Crash, Alive
  <2>2. QED
    BY <1>1, <2>1 DEF ProcBecomes, Done, Alive, TypeInv, TypeOK, InstType
<1>3. UNCHANGED <<reserved, pc, cur>>
  BY <1>1 DEF ProcBecomes
<1>4. PortsHeld'
  BY <1>2, <1>3 DEF PortInv, PortsHeld, WillRelease, Working
<1>5. ASSUME NEW w \in Workers PROVE LoadState(w)'
  <2>1. pc[w] \notin {"idle", "unload"} => cur[w] \in Insts
    BY DEF TypeInv, CurKnown
  <2>2. QED
    BY <1>2, <1>3, <2>1 DEF PortInv, LoadState
<1>6. QED
  BY <1>4, <1>5 DEF PortInv

LEMMA HelperPorts ==
  ASSUME TypeInv, PortInv, NEW i \in Insts, HelperMoves(i)
  PROVE  PortInv'
<1>1. /\ UNCHANGED <<reserved, pc, cur>>
      /\ \A j \in Insts : /\ inst'[j].mon = inst[j].mon /\ inst'[j].state = inst[j].state
                           /\ inst'[j].port = inst[j].port /\ inst'[j].base = inst[j].base
  BY HelperStep
<1>2. \A j \in Insts : Done(j) => Done(j)'
  BY HelperStep DEF Done, Alive
<1>3. PortsHeld'
  BY <1>1 DEF PortInv, PortsHeld, WillRelease, Working
<1>4. ASSUME NEW w \in Workers PROVE LoadState(w)'
  <2>1. pc[w] \notin {"idle", "unload"} => cur[w] \in Insts
    BY DEF TypeInv, CurKnown
  <2>2. QED
    BY <1>1, <1>2, <2>1 DEF PortInv, LoadState
<1>5. QED
  BY <1>3, <1>4 DEF PortInv

LEMMA ServerPorts ==
  ASSUME TypeInv, PortInv, BeginShutdown \/ EndShutdown \/ ServerDies \/ Boot
  PROVE  PortInv'
<1>1. CASE BeginShutdown \/ Boot
  <2>1. /\ UNCHANGED <<inst, reserved, cur>>
        /\ \A w \in Workers : pc'[w] = pc[w] \/ pc'[w] = "unload"
    BY <1>1 DEF BeginShutdown, Boot
  <2>2. \A i \in Insts : WillRelease(i)' => WillRelease(i)
    BY <2>1 DEF WillRelease, Working
  <2>3. PortsHeld'
    BY <2>1, <2>2 DEF PortInv, PortsHeld
  <2>4. \A w \in Workers : LoadState(w)'
    BY <2>1 DEF PortInv, LoadState, Done
  <2>5. QED
    BY <2>3, <2>4 DEF PortInv
<1>2. CASE EndShutdown \/ ServerDies
  <2>1. /\ \A w \in Workers : pc'[w] = "idle"
        /\ inst' = [i \in Insts |->
              [inst[i] EXCEPT !.state = "none", !.port = NoPort, !.held = FALSE, !.mon = "none"]]
    BY <1>2 DEF EndShutdown, ServerDies, ServerGone
  <2>2. ASSUME NEW i \in Insts PROVE inst'[i].mon = "none"
    <3>1. inst'[i] = [inst[i] EXCEPT !.state = "none", !.port = NoPort, !.held = FALSE, !.mon = "none"]
      BY <2>1
    <3>2. inst[i] \in InstType
      BY DEF TypeInv, TypeOK
    <3>3. QED
      BY <3>1, <3>2 DEF InstType
  <2>3. \A i \in Insts : ~WillRelease(i)'
    BY <2>1, <2>2 DEF WillRelease, Working
  <2>4. QED
    BY <2>1, <2>3 DEF PortInv, PortsHeld, LoadState
<1>3. QED
  BY <1>1, <1>2

LEMMA PortStep == Calm /\ TypeInv /\ LeakInv /\ TrackInv /\ PortInv /\ [Next]_vars => PortInv'
<1> SUFFICES ASSUME Calm, TypeInv, LeakInv, TrackInv, PortInv, [Next]_vars PROVE PortInv'
  OBVIOUS
<1>1. CASE RestStays
  BY <1>1 DEF RestStays, PortInv, PortsHeld, WillRelease, Working, LoadState, Done
<1>2. CASE UNCHANGED vars
  BY <1>1, <1>2 DEF vars, RestStays
<1>3. CASE \E c \in Clients : Answered(c) \/ \E m \in Models : Route(c, m)
  BY <1>1, <1>3, RequestType
<1>4. QED
  BY <1>2, <1>3, LoadStepPorts, UnloadStepPorts, NoKillFailure, BeginPorts, MonitorPorts,
     ProcessPorts, HelperPorts, ServerPorts
  DEF Next, Step, HelperMoves, Calm

LEMMA PortInit == Init => PortInv
<1> SUFFICES ASSUME Init PROVE PortInv
  OBVIOUS
<1>1. /\ \A w \in Workers : pc[w] = "idle"
      /\ \A i \in Insts : inst[i].mon = "none"
  BY DEF Init, Blank
<1>2. QED
  BY <1>1 DEF PortInv, PortsHeld, WillRelease, Working, LoadState

LEMMA PortInvariant == Calm => (Spec => []PortInv)
<1> SUFFICES ASSUME Calm PROVE Spec => []PortInv
  OBVIOUS
<1>1. TypeInv /\ LeakInv /\ TrackInv /\ PortInv /\ [Next]_vars => PortInv'
  BY PortStep
<1>2. Orderly
  BY DEF Calm
<1>3. Spec => []TrackInv
  BY <1>2, TrackInvariant
<1>4. QED
  BY <1>1, <1>3, PortInit, LeakInvariant, TypeInvariant, PTL DEF Spec

(* The port of a live process stays reserved and is nobody else's, while   *)
(* no load runs out of time or overtakes its monitor, whatever processes   *)
(* crash, also just before Load ends (ports.go 12-13, runtime.go 242-245   *)
(* and 392-394).                                                           *)
THEOREM PortsDistinct == Calm => (Spec => []DistinctPorts)
<1> SUFFICES ASSUME Calm PROVE Spec => []DistinctPorts
  OBVIOUS
<1>1. ASSUME TrackInv, PortInv PROVE DistinctPorts
  <2>1. \A i \in Insts : Alive(i) => WillRelease(i)
    BY <1>1 DEF TrackInv, LiveOwned, WillRelease, Working
  <2>2. QED
    BY <1>1, <2>1 DEF PortInv, PortsHeld, DistinctPorts
<1>2. Spec => []TrackInv
  BY TrackInvariant DEF Calm
<1>3. QED
  BY <1>1, <1>2, PortInvariant, PTL

-------------------------------------------------------------------------------
(***************************************************************************)
(* The life cycle.  When no process dies between the health answer and the *)
(* end of Load either, the state of an entry is always the one its worker  *)
(* has brought it to, and an entry nobody works on has failed or is        *)
(* running with a monitor.  From this follow the refinement of Lifecycle   *)
(* and where a request is routed to.                                       *)
(***************************************************************************)
Handled == Calm /\ "crashVision" \notin Faults

LifeAt(w) ==
  /\ pc[w] = "vision" => inst[cur[w]].proc = "listening" /\ inst[cur[w]].state = "starting"
  /\ pc[w] \in {"stop", "delete"} => inst[cur[w]].state \in {"stopping", "stopped"}

Resting(m) == \A w \in Workers : ModelOf(w) = m => pc[w] \in {"idle", "unload"}

Settled(m) ==
  Mapped(m) /\ Resting(m) =>
    \/ inst[instances[m]].state = "failed"
    \/ inst[instances[m]].state = "running" /\ inst[instances[m]].mon = "waiting"

LifeInv == (\A w \in Workers : LifeAt(w)) /\ (\A m \in Models : Settled(m))

(* The edges of Lifecycle, and a step that moves one model along one.      *)
Edge(s, t) ==
  \/ s = t
  \/ s \in {"stopped", "failed"} /\ t = "starting"
  \/ s = "starting" /\ t = "running"
  \/ s \in {"starting", "running"} /\ t = "failed"
  \/ s = "running" /\ t = "stopping"
  \/ s \in {"stopping", "failed"} /\ t = "stopped"

Follows ==
  \/ \A n \in Models : StatusOf(n)' = StatusOf(n)
  \/ \E m \in Models : /\ Edge(StatusOf(m), StatusOf(m)')
                       /\ \A n \in Models \ {m} : StatusOf(n)' = StatusOf(n)

LEMMA OtherEntries ==
  ASSUME TypeInv, TrackInv, NEW m \in Models, NEW n \in Models, n # m, Mapped(m), Mapped(n)
  PROVE  instances[n] # instances[m] /\ instances[n] \in Insts
  BY DEF TrackInv, Owned, Mapped, TypeInv, TypeOK

LEMMA FollowsStep ==
  ASSUME NEW m \in Models, Edge(StatusOf(m), StatusOf(m)'),
         \A n \in Models \ {m} : StatusOf(n)' = StatusOf(n)
  PROVE  Follows
  BY DEF Follows

(* A step of a worker on the entry of its model.                           *)
LEMMA LifeLocal ==
  ASSUME TypeInv, TrackInv, LifeInv, NEW w \in Workers, NEW c \in Insts,
         instances[ModelOf(w)] = c,
         phase = (IF w[2] = "api" THEN "serving" ELSE "shutdown"),
         OthersStay(w, c), UNCHANGED instances,
         Edge(inst[c].state, inst'[c].state), LifeAt(w)',
         pc'[w] \in {"idle", "unload"} =>
           \/ inst'[c].state = "failed"
           \/ inst'[c].state = "running" /\ inst'[c].mon = "waiting"
  PROVE  LifeInv' /\ Follows
<1> DEFINE m == ModelOf(w)
<1>1. m \in Models /\ Mapped(m)
  BY WorkersFacts, NullAssumption DEF Mapped
<1>2. ASSUME NEW v \in Workers, v # w PROVE LifeAt(v)'
  <2>1. pc'[v] = pc[v] /\ cur'[v] = cur[v] /\ LifeAt(v)
    BY <1>2 DEF OthersStay, LifeInv
  <2>2. CASE pc[v] \in {"idle", "unload"}
    BY <2>1, <2>2 DEF LifeAt
  <2>3. CASE pc[v] \notin {"idle", "unload"}
    <3>1. cur[v] \in Insts /\ cur[v] # c
      BY <1>2, <2>3, Alone DEF TypeInv, CurKnown
    <3>2. inst'[cur[v]] = inst[cur[v]]
      BY <3>1 DEF OthersStay
    <3>3. QED
      BY <2>1, <3>2 DEF LifeAt
  <2>4. QED
    BY <2>2, <2>3
<1>3. ASSUME NEW n \in Models, n # m, Mapped(n) PROVE inst'[instances[n]] = inst[instances[n]]
  BY <1>1, <1>3, OtherEntries DEF OthersStay
<1>4. ASSUME NEW n \in Models PROVE Settled(n)'
  <2>1. CASE n = m
    BY <2>1 DEF Settled, Resting
  <2>2. CASE n # m
    <3>1. Resting(n)' => Resting(n)
      BY <2>2 DEF Resting, OthersStay, ModelOf
    <3>2. QED
      BY <1>3, <2>2, <3>1 DEF LifeInv, Settled, Mapped
  <2>3. QED
    BY <2>1, <2>2
<1>5. Follows
  <2>1. StatusOf(m) = inst[c].state /\ StatusOf(m)' = inst'[c].state
    BY <1>1 DEF StatusOf, Mapped
  <2>2. \A n \in Models \ {m} : StatusOf(n)' = StatusOf(n)
    BY <1>3 DEF StatusOf, Mapped
  <2>3. QED
    BY <1>1, <2>1, <2>2, FollowsStep
<1>6. QED
  BY <1>2, <1>4, <1>5 DEF LifeInv

(* Nobody else answers at the URL of an instance whose port is held.       *)
LEMMA OwnAnswers ==
  ASSUME TrackInv, PortInv, NEW c \in Insts, WillRelease(c),
         NEW j \in Insts, Alive(j), inst[j].base = inst[c].base
  PROVE  j = c
<1>1. WillRelease(j)
  BY DEF TrackInv, LiveOwned, WillRelease, Working
<1>2. QED
  BY <1>1 DEF PortInv, PortsHeld

LEMMA LoadStepLife ==
  ASSUME Handled, TypeInv, TrackInv, PortInv, LifeInv, NEW w \in Workers, LoadStep(w)
  PROVE  LifeInv' /\ Follows
<1> DEFINE c == cur[w]
<1>1. pc[w] \in LoadLabels
  BY DEF LoadStep, TakePort, NoFreePort, StartServer, RecordHandle, StartFails, Healthy,
         NotHealthy, AlreadyFailed, GiveUp, FailTerminated, MarkRunning, LoadLabels
<1>2. /\ c \in Insts /\ inst[c] \in InstType /\ instances[ModelOf(w)] = c
      /\ phase = (IF w[2] = "api" THEN "serving" ELSE "shutdown")
  BY <1>1, WorksAlone DEF LoadLabels, TypeInv, TypeOK
<1>3. /\ LoadState(w) /\ LifeAt(w) /\ UNCHANGED instances
      /\ pc[w] \in {"port", "start", "record"} => inst[c].state = "starting"
  <2>1. UNCHANGED instances
    BY DEF LoadStep, TakePort, NoFreePort, StartServer, RecordHandle, StartFails, Healthy,
           NotHealthy, AlreadyFailed, GiveUp, FailTerminated, MarkRunning, Fail
  <2>2. QED
    BY <2>1 DEF PortInv, LifeInv, TrackInv, AtWork, AtStart
<1>4. CASE TakePort(w)
  <2>1. PICK p \in Ports : inst' = [inst EXCEPT ![c] = [inst[c] EXCEPT !.port = p, !.base = p]]
    BY <1>4, PortsAssumption, WorkersFacts DEF TakePort
  <2>2. OthersStay(w, c) /\ pc'[w] = "start" /\ inst'[c].state = inst[c].state
    BY <1>2, <1>4, <2>1 DEF TakePort, Goto, OthersStay, TypeInv, TypeOK, InstType
  <2>3. LifeAt(w)' /\ Edge(inst[c].state, inst'[c].state)
    BY <2>2 DEF LifeAt, Edge
  <2>4. QED
    BY <1>2, <1>3, <2>2, <2>3, LifeLocal
<1>5. CASE NoFreePort(w) \/ StartFails(w)
  <2>1. /\ pc[w] \in {"port", "start"} /\ pc' = [pc EXCEPT ![w] = "idle"]
        /\ cur' = [cur EXCEPT ![w] = NoInst]
        /\ inst' = [inst EXCEPT ![c] = [inst[c] EXCEPT !.state = "failed", !.port = NoPort]]
    BY <1>5 DEF NoFreePort, StartFails, Fail, Return
  <2>2. OthersStay(w, c) /\ pc'[w] = "idle" /\ inst'[c].state = "failed"
    BY <1>2, <2>1 DEF OthersStay, TypeInv, TypeOK, InstType
  <2>3. LifeAt(w)' /\ Edge(inst[c].state, inst'[c].state)
    BY <1>3, <2>1, <2>2 DEF LifeAt, Edge
  <2>4. QED
    BY <1>2, <1>3, <2>2, <2>3, LifeLocal
<1>6. CASE StartServer(w) \/ RecordHandle(w)
  <2>1. /\ UNCHANGED cur
        /\ pc' = [pc EXCEPT ![w] = "record"] \/ pc' = [pc EXCEPT ![w] = "wait"]
        /\ \/ inst' = [inst EXCEPT ![c] = [inst[c] EXCEPT !.proc = "up"]]
           \/ inst' = [inst EXCEPT ![c] = [inst[c] EXCEPT !.mon = "waiting"]]
    BY <1>6 DEF StartServer, RecordHandle, Goto
  <2>2. OthersStay(w, c) /\ pc'[w] \in {"record", "wait"} /\ inst'[c].state = inst[c].state
    BY <1>2, <2>1 DEF OthersStay, TypeInv, TypeOK, InstType
  <2>3. LifeAt(w)' /\ Edge(inst[c].state, inst'[c].state)
    BY <2>2 DEF LifeAt, Edge
  <2>4. QED
    BY <1>2, <1>3, <2>2, <2>3, LifeLocal
<1>7. CASE Healthy(w)
  <2>1. /\ OthersStay(w, c) /\ pc'[w] = "vision" /\ UNCHANGED <<inst, cur>> /\ pc[w] = "wait"
        /\ inst[c].base \in Bound /\ ~Done(c)
    BY <1>7 DEF Healthy, Goto, OthersStay, TypeInv, TypeOK, Handled, Calm
  <2>2. inst[c].state = "starting" /\ WillRelease(c)
    BY <1>3, <2>1 DEF LoadState, WillRelease
  <2>3. PICK j \in Insts : inst[j].proc = "listening" /\ inst[j].base = inst[c].base
    BY <2>1 DEF Bound
  <2>4. inst[c].proc = "listening"
    BY <1>2, <2>2, <2>3, OwnAnswers DEF Alive
  <2>5. inst[c].state = "starting"
    BY <2>2
  <2>6. LifeAt(w)' /\ Edge(inst[c].state, inst'[c].state)
    BY <2>1, <2>4, <2>5 DEF LifeAt, Edge
  <2>7. QED
    BY <1>2, <1>3, <2>1, <2>6, LifeLocal
<1>8. CASE NotHealthy(w)
  <2>1. OthersStay(w, c) /\ pc'[w] = "failing" /\ UNCHANGED inst
    BY <1>8 DEF NotHealthy, Goto, OthersStay, TypeInv, TypeOK
  <2>2. LifeAt(w)' /\ Edge(inst[c].state, inst'[c].state)
    BY <2>1 DEF LifeAt, Edge
  <2>3. QED
    BY <1>2, <1>3, <2>1, <2>2, LifeLocal
<1>9. CASE AlreadyFailed(w)
  <2>1. OthersStay(w, c) /\ pc'[w] = "idle" /\ UNCHANGED inst /\ inst[c].state = "failed"
    BY <1>9 DEF AlreadyFailed, Return, OthersStay, TypeInv, TypeOK
  <2>2. LifeAt(w)' /\ Edge(inst[c].state, inst'[c].state)
    BY <2>1 DEF LifeAt, Edge
  <2>3. QED
    BY <1>2, <1>3, <2>1, <2>2, LifeLocal
<1>10. ~GiveUp(w) /\ ~FailTerminated(w)
  BY <1>3 DEF GiveUp, FailTerminated, LoadState
<1>11. CASE MarkRunning(w)
  <2>1. /\ pc[w] = "vision" /\ pc' = [pc EXCEPT ![w] = "idle"] /\ cur' = [cur EXCEPT ![w] = NoInst]
        /\ inst' = [inst EXCEPT ![c] = [inst[c] EXCEPT !.state = "running"]]
    BY <1>11 DEF MarkRunning, Return
  <2>2. /\ OthersStay(w, c) /\ pc'[w] = "idle" /\ inst'[c].mon = inst[c].mon
        /\ inst'[c].state = "running"
    BY <1>2, <2>1 DEF OthersStay, TypeInv, TypeOK, InstType
  <2>3. inst[c].state = "starting" /\ inst[c].mon = "waiting"
    <3>1. ASSUME NEW v \in Workers, cur[v] = c, pc[v] = "record" PROVE FALSE
      <4>1. v # w
        BY <2>1, <3>1
      <4>2. QED
        BY <1>1, <3>1, <4>1, WorksAlone DEF LoadLabels
    <3>2. QED
      BY <1>2, <1>3, <2>1, <3>1 DEF LifeAt, Alive, TrackInv, LiveOwned
  <2>4. LifeAt(w)' /\ Edge(inst[c].state, inst'[c].state)
    BY <2>2, <2>3 DEF LifeAt, Edge
  <2>5. QED
    BY <1>2, <1>3, <2>2, <2>3, <2>4, LifeLocal
<1>12. QED
  BY <1>4, <1>5, <1>6, <1>7, <1>8, <1>9, <1>10, <1>11 DEF LoadStep

(* An entry at rest that a worker begins to stop.                          *)
LEMMA StopLife ==
  ASSUME TypeInv, TrackInv, LifeInv, NEW w \in Workers, NEW c \in Insts,
         instances[ModelOf(w)] = c,
         phase = (IF w[2] = "api" THEN "serving" ELSE "shutdown"),
         Resting(ModelOf(w)),
         StopInstance(w, c), cur' = [cur EXCEPT ![w] = c], UNCHANGED instances
  PROVE  LifeInv' /\ Follows
<1>1. \/ inst[c].state = "failed"
      \/ inst[c].state = "running" /\ inst[c].mon = "waiting"
  BY WorkersFacts, NullAssumption DEF LifeInv, Settled, Mapped
<1>2. PICK s \in {"stopped", "stopping"}, l \in {"delete", "stop"} :
        /\ inst' = [inst EXCEPT ![c] = [inst[c] EXCEPT !.state = s]] /\ pc' = [pc EXCEPT ![w] = l]
        /\ inst[c].state = "failed" => s = "stopped"
        /\ inst[c].state = "running" => s = "stopping"
  BY <1>1 DEF StopInstance
<1>3. OthersStay(w, c) /\ pc'[w] = l /\ cur'[w] = c /\ inst'[c].state = s
  BY <1>2 DEF OthersStay, TypeInv, TypeOK, InstType
<1>4. LifeAt(w)' /\ Edge(inst[c].state, inst'[c].state) /\ pc'[w] \notin {"idle", "unload"}
  BY <1>1, <1>2, <1>3 DEF LifeAt, Edge
<1>5. QED
  BY <1>3, <1>4, LifeLocal

(* A worker that returns and leaves its model out of the map.              *)
LEMMA LeaveLife ==
  ASSUME TypeInv, TrackInv, LifeInv, NEW w \in Workers,
         instances' = [instances EXCEPT ![ModelOf(w)] = NoInst],
         Return(w), UNCHANGED inst, Edge(StatusOf(ModelOf(w)), "stopped")
  PROVE  LifeInv' /\ Follows
<1> DEFINE m == ModelOf(w)
<1>1. /\ m \in Models /\ pc'[w] = "idle"
      /\ \A v \in Workers : v # w => pc'[v] = pc[v] /\ cur'[v] = cur[v]
      /\ instances'[m] = NoInst
      /\ \A n \in Models : n # m => instances'[n] = instances[n]
  BY WorkersFacts DEF TypeInv, TypeOK, Return
<1>2. \A v \in Workers : LifeAt(v)'
  BY <1>1 DEF LifeInv, LifeAt
<1>3. ASSUME NEW n \in Models PROVE Settled(n)'
  <2>1. CASE n = m
    BY <1>1, <2>1 DEF Settled, Mapped
  <2>2. CASE n # m
    <3>1. Resting(n)' => Resting(n)
      BY <1>1, <2>2 DEF Resting, ModelOf
    <3>2. QED
      BY <1>1, <2>2, <3>1 DEF LifeInv, Settled, Mapped
  <2>3. QED
    BY <2>1, <2>2
<1>4. StatusOf(m)' = "stopped" /\ \A n \in Models \ {m} : StatusOf(n)' = StatusOf(n)
  BY <1>1 DEF StatusOf, Mapped
<1>5. QED
  BY <1>1, <1>2, <1>3, <1>4, FollowsStep DEF LifeInv

LEMMA UnloadStepLife ==
  ASSUME Handled, TypeInv, TrackInv, LifeInv, NEW w \in Workers, UnloadStep(w)
  PROVE  LifeInv' /\ Follows
<1> DEFINE m == ModelOf(w)
<1>1. m \in Models /\ instances[m] \in Insts \cup {NoInst}
  BY WorkersFacts DEF TypeInv, TypeOK
<1>2. CASE ShutdownUnload(w)
  <2>1. pc[w] = "unload" /\ w[2] = "shutdown" /\ phase = "shutdown" /\ UNCHANGED instances
    BY <1>2, WorkerPair DEF ShutdownUnload, TrackInv, Roles
  <2>2. CASE Mapped(m)
    <3>1. StopInstance(w, instances[m]) /\ cur' = [cur EXCEPT ![w] = instances[m]]
      BY <1>2, <2>2 DEF ShutdownUnload
    <3>2. Resting(m)
      BY <2>1, WorkerPair DEF Resting, TrackInv, Roles
    <3>3. QED
      BY <1>1, <2>1, <2>2, <3>1, <3>2, StopLife DEF Mapped
  <2>3. CASE ~Mapped(m)
    <3>1. Return(w) /\ UNCHANGED inst
      BY <1>2, <2>3 DEF ShutdownUnload
    <3>2. instances' = [instances EXCEPT ![m] = NoInst]
      BY <1>1, <2>1, <2>3 DEF Mapped, TypeInv, TypeOK
    <3>3. Edge(StatusOf(m), "stopped")
      BY <2>3 DEF StatusOf, Edge
    <3>4. QED
      BY <3>1, <3>2, <3>3, LeaveLife
  <2>4. QED
    BY <2>2, <2>3
<1>3. ASSUME pc[w] \in {"stop", "delete"}
      PROVE  /\ cur[w] \in Insts /\ instances[m] = cur[w] /\ Mapped(m)
             /\ phase = (IF w[2] = "api" THEN "serving" ELSE "shutdown")
             /\ inst[cur[w]].state \in {"stopping", "stopped"}
  BY <1>3, WorksAlone, NullAssumption DEF LifeInv, LifeAt, Mapped
<1>4. CASE Terminated(w)
  <2>1. /\ pc[w] = "stop" /\ pc'[w] = "delete" /\ cur'[w] = cur[w]
        /\ OthersStay(w, cur[w]) /\ UNCHANGED <<instances, inst>>
    BY <1>4 DEF Terminated, Goto, OthersStay, TypeInv, TypeOK
  <2>2. LifeAt(w)' /\ Edge(inst[cur[w]].state, inst'[cur[w]].state)
    BY <1>3, <2>1 DEF LifeAt, Edge
  <2>3. QED
    BY <1>3, <2>1, <2>2, LifeLocal
<1>6. CASE DeleteEntry(w)
  <2>1. /\ pc[w] = "delete" /\ instances' = [instances EXCEPT ![m] = NoInst]
        /\ Return(w) /\ UNCHANGED inst
    BY <1>6 DEF DeleteEntry
  <2>2. Edge(StatusOf(m), "stopped")
    BY <1>3, <2>1 DEF StatusOf, Edge
  <2>3. QED
    BY <2>1, <2>2, LeaveLife
<1>7. QED
  BY <1>2, <1>4, <1>6 DEF UnloadStep

(* Load replaces an entry at rest, which has failed.                       *)
LEMMA BeginLife ==
  ASSUME Handled, TypeInv, TrackInv, LifeInv, NEW m \in Models,
         BeginUnload(m) \/ \E i \in Insts : BeginLoad(m, i)
  PROVE  LifeInv' /\ Follows
<1> DEFINE a == Api(m)
<1>1. /\ phase = "serving" /\ a \in Workers /\ ModelOf(a) = m /\ a[2] = "api" /\ pc[a] = "idle"
  BY WorkersFacts, WorkerPair
  DEF BeginUnload, BeginLoad, Accepting, Handled, Calm, Orderly
<1>2. Resting(m)
  BY <1>1, WorkerPair DEF Resting, TrackInv, Roles
<1>3. CASE BeginUnload(m)
  <2>1. instances[m] \in Insts
    BY <1>3 DEF BeginUnload, Mapped, TypeInv, TypeOK
  <2>2. QED
    BY <1>1, <1>2, <1>3, <2>1, StopLife DEF BeginUnload
<1>4. ASSUME NEW i \in Insts, BeginLoad(m, i) PROVE LifeInv' /\ Follows
  <2>1. /\ \A n \in Models : instances[n] # i
        /\ \A v \in Workers : cur[v] # i
    BY <1>4 DEF BeginLoad, Referenced
  <2>2. /\ \A j \in Insts : j # i => inst'[j] = inst[j]
        /\ inst'[i].state = "starting"
        /\ pc'[a] = "port" /\ instances'[m] = i
        /\ \A v \in Workers : v # a => pc'[v] = pc[v] /\ cur'[v] = cur[v]
        /\ \A n \in Models : n # m => instances'[n] = instances[n]
    BY <1>1, <1>4 DEF BeginLoad, Blank, TypeInv, TypeOK
  <2>3. ASSUME NEW v \in Workers PROVE LifeAt(v)'
    <3>1. CASE v = a
      BY <2>2, <3>1 DEF LifeAt
    <3>2. CASE v # a
      <4>1. pc[v] \notin {"idle", "unload"} => cur[v] \in Insts
        BY DEF TypeInv, CurKnown
      <4>2. QED
        BY <2>1, <2>2, <3>2, <4>1 DEF LifeInv, LifeAt
    <3>3. QED
      BY <3>1, <3>2
  <2>4. \A n \in Models : n # m /\ Mapped(n) => inst'[instances[n]] = inst[instances[n]]
    BY <2>1, <2>2 DEF Mapped, TypeInv, TypeOK
  <2>5. ASSUME NEW n \in Models PROVE Settled(n)'
    <3>1. CASE n = m
      BY <1>1, <2>2, <3>1 DEF Settled, Resting, ModelOf
    <3>2. CASE n # m
      <4>1. Resting(n)' => Resting(n)
        BY <1>1, <2>2, <3>2 DEF Resting, ModelOf
      <4>2. QED
        BY <2>2, <2>4, <3>2, <4>1 DEF LifeInv, Settled, Mapped
    <3>3. QED
      BY <3>1, <3>2
  <2>6. Edge(StatusOf(m), StatusOf(m)')
    <3>1. StatusOf(m) \in {"stopped", "failed"}
      BY <1>2, <1>4 DEF BeginLoad, Replaceable, LifeInv, Settled, StatusOf
    <3>2. StatusOf(m)' = "starting"
      BY <2>2, NullAssumption DEF StatusOf, Mapped
    <3>3. QED
      BY <3>1, <3>2 DEF Edge
  <2>7. \A n \in Models \ {m} : StatusOf(n)' = StatusOf(n)
    BY <2>2, <2>4 DEF StatusOf, Mapped
  <2>8. QED
    BY <2>3, <2>5, <2>6, <2>7, FollowsStep DEF LifeInv
<1>5. QED
  BY <1>3, <1>4

(* What the state of an entry tells, whether it is worked on or at rest.   *)
LEMMA EntryState ==
  ASSUME TypeInv, TrackInv, PortInv, LifeInv, NEW m \in Models, Mapped(m)
  PROVE  /\ instances[m] \in Insts
         /\ inst[instances[m]].state # "none"
         /\ inst[instances[m]].state = "running" => inst[instances[m]].mon = "waiting"
<1> DEFINE c == instances[m]
<1>1. c \in Insts
  BY DEF Mapped, TypeInv, TypeOK
<1>2. CASE Resting(m)
  BY <1>1, <1>2 DEF LifeInv, Settled
<1>3. CASE ~Resting(m)
  <2>1. PICK w \in Workers : ModelOf(w) = m /\ pc[w] \notin {"idle", "unload"}
    BY <1>3 DEF Resting
  <2>2. /\ c = cur[w] /\ LoadState(w) /\ LifeAt(w) /\ pc[w] \in Labels
        /\ pc[w] \in {"port", "start", "record"} => inst[c].state = "starting"
    BY <2>1 DEF TrackInv, AtWork, AtStart, PortInv, LifeInv, TypeInv, TypeOK
  <2>3. inst[c].state \in {"starting", "failed", "stopping", "stopped"}
    BY <2>1, <2>2 DEF LoadState, LifeAt, Labels
  <2>4. QED
    BY <1>1, <2>3
<1>4. QED
  BY <1>2, <1>3

LEMMA MonitorLife ==
  ASSUME TypeInv, TrackInv, PortInv, LifeInv, NEW i \in Insts, Monitor(i)
  PROVE  LifeInv' /\ Follows
<1> DEFINE s == IF inst[i].state \in {"stopping", "stopped"} THEN "stopped" ELSE "failed"
<1>1. /\ \A j \in Insts : j # i => inst'[j] = inst[j]
      /\ inst'[i].state = s /\ inst'[i].proc = inst[i].proc /\ inst[i].proc = "dead"
      /\ UNCHANGED <<instances, pc, cur>>
  BY DEF Monitor, Done, TypeInv, TypeOK, InstType
<1>2. ASSUME NEW w \in Workers PROVE LifeAt(w)'
  <2>1. pc[w] \notin {"idle", "unload"} => cur[w] \in Insts
    BY DEF TypeInv, CurKnown
  <2>2. QED
    BY <1>1, <2>1 DEF LifeInv, LifeAt
<1>3. ASSUME NEW n \in Models PROVE Settled(n)'
  <2>1. Resting(n)' = Resting(n) /\ Mapped(n)' = Mapped(n)
    BY <1>1 DEF Resting, Mapped, ModelOf
  <2>2. Mapped(n) => instances[n] \in Insts
    BY EntryState
  <2>3. QED
    BY <1>1, <2>1, <2>2 DEF LifeInv, Settled
<1>4. CASE \E m \in Models : instances[m] = i
  <2>1. PICK m \in Models : instances[m] = i
    BY <1>4
  <2>2. Mapped(m) /\ inst[i].state \in States \ {"none"}
    BY <2>1, EntryState, NullAssumption DEF Mapped, TypeInv, TypeOK, InstType
  <2>3. Edge(StatusOf(m), StatusOf(m)')
    BY <1>1, <2>1, <2>2 DEF StatusOf, Mapped, Edge, States
  <2>4. ASSUME NEW n \in Models, n # m PROVE StatusOf(n)' = StatusOf(n)
    <3>1. Mapped(n) => instances[n] # i /\ instances[n] \in Insts
      BY <2>1, <2>2, <2>4, OtherEntries
    <3>2. QED
      BY <1>1, <3>1 DEF StatusOf, Mapped
  <2>5. QED
    BY <1>2, <1>3, <2>3, <2>4, FollowsStep DEF LifeInv
<1>5. CASE \A m \in Models : instances[m] # i
  <2>1. ASSUME NEW n \in Models PROVE StatusOf(n)' = StatusOf(n)
    BY <1>1, <1>5, EntryState DEF StatusOf, Mapped
  <2>2. QED
    BY <1>2, <1>3, <2>1 DEF LifeInv, Follows
<1>6. QED
  BY <1>4, <1>5

(* A load that asks for the vision abilities keeps its process.            *)
LEMMA VisionLives ==
  ASSUME Handled, TypeInv, TrackInv, LifeInv, NEW i \in Insts,
         Listen(i) \/ BindFails(i) \/ Killed(i) \/ Crash(i),
         NEW w \in Workers, pc[w] = "vision"
  PROVE  cur[w] # i
<1> SUFFICES ASSUME cur[w] = i PROVE FALSE
  OBVIOUS
<1>1. inst[i].proc = "listening" /\ Working(i, {"vision"})
  BY DEF LifeInv, LifeAt, Working
<1>2. ~Listen(i) /\ ~BindFails(i)
  BY <1>1 DEF Listen, BindFails
<1>3. ~Killed(i)
  <2> SUFFICES ASSUME NEW v \in Workers, cur[v] = i, pc[v] \in {"terminate", "stop"}
               PROVE  FALSE
    BY DEF Killed, Working
  <2>1. v # w
    OBVIOUS
  <2>2. QED
    BY <2>1, WorksAlone
<1>4. ~Crash(i)
  BY <1>1 DEF Crash, Handled
<1>5. QED
  BY <1>2, <1>3, <1>4

LEMMA ProcessLife ==
  ASSUME Handled, TypeInv, TrackInv, PortInv, LifeInv, NEW i \in Insts,
         Listen(i) \/ BindFails(i) \/ Killed(i) \/ Crash(i)
  PROVE  LifeInv' /\ Follows
<1>1. PICK s \in {"listening", "dead"} : ProcBecomes(i, s)
  BY DEF Listen, BindFails, Killed, Crash
<1>2. /\ \A j \in Insts : inst'[j].mon = inst[j].mon /\ inst'[j].state = inst[j].state
      /\ \A j \in Insts : j # i => inst'[j].proc = inst[j].proc
      /\ inst'[i].proc = s /\ UNCHANGED <<instances, pc, cur>>
  BY <1>1 DEF ProcBecomes, TypeInv, TypeOK, InstType
<1>3. ASSUME NEW w \in Workers PROVE LifeAt(w)'
  <2>1. pc[w] \notin {"idle", "unload"} => cur[w] \in Insts
    BY DEF TypeInv, CurKnown
  <2>2. pc[w] = "vision" => cur[w] # i
    BY VisionLives
  <2>3. LifeAt(w)
    BY DEF LifeInv
  <2>4. CASE pc[w] \in {"idle", "unload"}
    BY <1>2, <2>4 DEF LifeAt
  <2>5. CASE pc[w] \notin {"idle", "unload"}
    BY <1>2, <2>1, <2>2, <2>3, <2>5 DEF LifeAt
  <2>6. QED
    BY <2>4, <2>5
<1>4. ASSUME NEW n \in Models
      PROVE  Settled(n)' /\ StatusOf(n)' = StatusOf(n)
  <2>1. Resting(n)' = Resting(n) /\ Mapped(n)' = Mapped(n)
    BY <1>2 DEF Resting, Mapped, ModelOf
  <2>2. Mapped(n) => instances[n] \in Insts
    BY EntryState
  <2>3. QED
    BY <1>2, <2>1, <2>2 DEF LifeInv, Settled, StatusOf
<1>5. QED
  BY <1>3, <1>4 DEF LifeInv, Follows

LEMMA HelperLife ==
  ASSUME TypeInv, TrackInv, PortInv, LifeInv, NEW i \in Insts, HelperMoves(i)
  PROVE  LifeInv' /\ Follows
<1>1. /\ UNCHANGED <<instances, pc, cur>>
      /\ \A j \in Insts : /\ inst'[j].state = inst[j].state
                           /\ inst'[j].proc = inst[j].proc /\ inst'[j].mon = inst[j].mon
  BY HelperStep
<1>2. ASSUME NEW w \in Workers PROVE LifeAt(w)'
  <2>1. pc[w] \notin {"idle", "unload"} => cur[w] \in Insts
    BY DEF TypeInv, CurKnown
  <2>2. QED
    BY <1>1, <2>1 DEF LifeInv, LifeAt
<1>3. ASSUME NEW n \in Models PROVE Settled(n)' /\ StatusOf(n)' = StatusOf(n)
  <2>1. Resting(n)' = Resting(n) /\ Mapped(n)' = Mapped(n)
    BY <1>1 DEF Resting, Mapped, ModelOf
  <2>2. Mapped(n) => instances[n] \in Insts
    BY EntryState
  <2>3. QED
    BY <1>1, <2>1, <2>2 DEF LifeInv, Settled, StatusOf
<1>4. QED
  BY <1>2, <1>3 DEF LifeInv, Follows

LEMMA ServerLife ==
  ASSUME Handled, TypeInv, TrackInv, LifeInv, BeginShutdown \/ EndShutdown \/ ServerDies \/ Boot
  PROVE  LifeInv' /\ Follows
<1>1. CASE BeginShutdown
  <2>1. /\ phase = "serving" /\ UNCHANGED <<instances, inst, cur>>
        /\ \A w \in Workers : pc'[w] = pc[w] \/ (pc'[w] = "unload" /\ w[2] = "shutdown")
    BY <1>1 DEF BeginShutdown
  <2>2. \A w \in Workers : pc'[w] = "unload" => pc[w] \in {"idle", "unload"}
    BY <2>1, WorkerPair DEF TrackInv, Roles
  <2>3. ASSUME NEW w \in Workers PROVE LifeAt(w)'
    BY <2>1 DEF LifeInv, LifeAt
  <2>4. ASSUME NEW n \in Models
        PROVE  Settled(n)' /\ StatusOf(n)' = StatusOf(n)
    <3>1. Resting(n)' => Resting(n)
      BY <2>1, <2>2 DEF Resting, ModelOf
    <3>2. QED
      BY <2>1, <3>1 DEF LifeInv, Settled, StatusOf, Mapped
  <2>5. QED
    BY <2>3, <2>4 DEF LifeInv, Follows
<1>2. CASE EndShutdown
  <2>1. /\ phase = "shutdown"
        /\ \A m \in Models : pc[<<m, "shutdown">>] = "idle"
        /\ \A m \in Models : instances'[m] = NoInst
        /\ \A w \in Workers : pc'[w] = "idle"
    BY <1>2 DEF EndShutdown, ServerGone
  <2>2. \A m \in Models : ~Mapped(m) /\ ~Mapped(m)'
    BY <2>1, WorkerPair DEF TrackInv, Unmapped, ModelOf, Mapped
  <2>3. \A m \in Models : Settled(m)' /\ StatusOf(m)' = StatusOf(m)
    BY <2>2 DEF Settled, StatusOf
  <2>4. \A w \in Workers : LifeAt(w)'
    BY <2>1 DEF LifeAt
  <2>5. QED
    BY <2>3, <2>4 DEF LifeInv, Follows
<1>3. ~ServerDies
  BY DEF ServerDies, Handled, Calm, Orderly
<1>4. CASE Boot
  <2>1. UNCHANGED <<instances, inst, pc, cur>>
    BY <1>4 DEF Boot
  <2>2. QED
    BY <2>1 DEF LifeInv, LifeAt, Settled, Resting, Follows, StatusOf, Mapped, ModelOf
<1>5. QED
  BY <1>1, <1>2, <1>3, <1>4

LEMMA LifeStep ==
  Handled /\ TypeInv /\ TrackInv /\ PortInv /\ LifeInv /\ [Next]_vars => LifeInv' /\ Follows
<1> SUFFICES ASSUME Handled, TypeInv, TrackInv, PortInv, LifeInv, [Next]_vars
             PROVE  LifeInv' /\ Follows
  OBVIOUS
<1>1. CASE RestStays
  BY <1>1 DEF RestStays, LifeInv, LifeAt, Settled, Resting, Follows, StatusOf, Mapped, ModelOf
<1>2. CASE UNCHANGED vars
  BY <1>1, <1>2 DEF vars, RestStays
<1>3. CASE \E c \in Clients : Answered(c) \/ \E m \in Models : Route(c, m)
  BY <1>1, <1>3, RequestType
<1>4. QED
  BY <1>2, <1>3, LoadStepLife, UnloadStepLife, NoKillFailure, BeginLife, MonitorLife, ProcessLife,
     HelperLife, ServerLife
  DEF Next, Step, HelperMoves, Handled, Calm

LEMMA LifeInit == Init => LifeInv
<1> SUFFICES ASSUME Init PROVE LifeInv
  OBVIOUS
<1>1. (\A w \in Workers : pc[w] = "idle") /\ \A m \in Models : ~Mapped(m)
  BY DEF Init, Mapped
<1>2. QED
  BY <1>1 DEF LifeInv, LifeAt, Settled

LEMMA LifeInvariant == Handled => (Spec => [](TypeInv /\ TrackInv /\ PortInv /\ LifeInv))
<1> SUFFICES ASSUME Handled PROVE Spec => [](TypeInv /\ TrackInv /\ PortInv /\ LifeInv)
  OBVIOUS
<1>1. TypeInv /\ TrackInv /\ PortInv /\ LifeInv /\ [Next]_vars => LifeInv'
  BY LifeStep
<1>2. Spec => []TrackInv
  BY TrackInvariant DEF Handled, Calm
<1>3. Spec => []PortInv
  BY PortInvariant DEF Handled
<1>4. QED
  BY <1>1, <1>2, <1>3, LifeInit, TypeInvariant, PTL DEF Spec

(* An instance a request was routed to had a monitor then, and keeps it    *)
(* until it has done its work.                                             *)
RouteInv ==
  \A c \in Clients : requests[c].to # NoInst =>
    requests[c].watched /\ inst[requests[c].to].mon \in {"waiting", "done"}

(* No step takes the monitor of an instance away while a request holds it. *)
LEMMA MonitorKept ==
  ASSUME TypeInv, [Next]_vars, phase' # "exited" \/ phase = "exited",
         NEW c \in Clients, requests[c].to # NoInst,
         inst[requests[c].to].mon \in {"waiting", "done"}
  PROVE  inst'[requests[c].to].mon \in {"waiting", "done"}
<1> DEFINE x == requests[c].to
<1>1. x \in Insts
  BY DEF TypeInv, TypeOK
<1>2. ASSUME NEW m \in Models, NEW i \in Insts, BeginLoad(m, i) PROVE inst'[x] = inst[x]
  BY <1>1, <1>2 DEF BeginLoad, Referenced, TypeInv, TypeOK
<1>3. ASSUME NEW w \in Workers, LoadStep(w) \/ UnloadStep(w) \/ KillFailure(w)
      PROVE  inst'[x].mon = inst[x].mon \/ inst'[x].mon = "waiting"
  <2>1. CASE UNCHANGED inst
    BY <2>1
  <2>2. CASE \/ TakePort(w) \/ StartServer(w) \/ RecordHandle(w) \/ MarkRunning(w)
             \/ (Fail(w) /\ pc[w] \notin {"idle", "unload"})
    <3>1. cur[w] \in Insts /\ inst[cur[w]] \in InstType
      BY <2>2 DEF TakePort, StartServer, RecordHandle, MarkRunning, TypeInv, TypeOK, CurKnown
    <3>2. ASSUME NEW r, inst' = [inst EXCEPT ![cur[w]] = r], r.mon \in {inst[cur[w]].mon, "waiting"}
          PROVE  inst'[x].mon \in {inst[x].mon, "waiting"}
      BY <1>1, <3>1, <3>2 DEF TypeInv, TypeOK
    <3>3. ASSUME NEW q \in InstType
          PROVE  /\ \A p \in Ports : [q EXCEPT !.port = p, !.base = p].mon = q.mon
                 /\ [q EXCEPT !.proc = "up"].mon = q.mon
                 /\ [q EXCEPT !.mon = "waiting"].mon = "waiting"
                 /\ [q EXCEPT !.state = "running"].mon = q.mon
                 /\ [q EXCEPT !.state = "failed", !.port = NoPort].mon = q.mon
      BY DEF InstType
    <3>4. CASE TakePort(w)
      <4>1. PICK p \in Ports :
              inst' = [inst EXCEPT ![cur[w]] = [inst[cur[w]] EXCEPT !.port = p, !.base = p]]
        BY <3>4, PortsAssumption, WorkersFacts DEF TakePort
      <4>2. QED
        BY <3>1, <3>2, <3>3, <4>1
    <3>5. CASE StartServer(w) \/ RecordHandle(w)
      BY <3>1, <3>2, <3>3, <3>5 DEF StartServer, RecordHandle
    <3>6. CASE MarkRunning(w) \/ Fail(w)
      BY <3>1, <3>2, <3>3, <3>6 DEF MarkRunning, Fail
    <3>7. QED
      BY <2>2, <3>4, <3>5, <3>6
  <2>3. ASSUME NEW i, StopInstance(w, i) PROVE inst'[x].mon = inst[x].mon
    BY <1>1, <2>3 DEF StopInstance, TypeInv, TypeOK, InstType
  <2>4. QED
    BY <1>3, <2>1, <2>2, <2>3
    DEF LoadStep, NoFreePort, StartFails, Healthy, NotHealthy, AlreadyFailed, GiveUp,
        FailTerminated, UnloadStep, ShutdownUnload, Terminated, DeleteEntry, KillFailure,
        FailUnkilled, TerminateFails
<1>4. ASSUME NEW m \in Models, BeginUnload(m) PROVE inst'[x].mon = inst[x].mon
  BY <1>1, <1>4 DEF BeginUnload, StopInstance, TypeInv, TypeOK, InstType
<1>5. ASSUME NEW i \in Insts, Monitor(i) PROVE inst'[x].mon \in {inst[x].mon, "done"}
  BY <1>1, <1>5 DEF Monitor, TypeInv, TypeOK, InstType
<1>6. ASSUME NEW i \in Insts, Listen(i) \/ BindFails(i) \/ Killed(i) \/ Crash(i)
      PROVE  inst'[x].mon = inst[x].mon
  BY <1>1, <1>6 DEF Listen, BindFails, Killed, Crash, ProcBecomes, TypeInv, TypeOK, InstType
<1>7. ASSUME NEW i \in Insts, HelperMoves(i) PROVE inst'[x].mon = inst[x].mon
  BY <1>1, <1>7, HelperStep
<1>9. CASE RestStays
  BY <1>9 DEF RestStays
<1>10. CASE UNCHANGED vars
  BY <1>9, <1>10 DEF vars, RestStays
<1>11. CASE \E d \in Clients : Answered(d) \/ \E m \in Models : Route(d, m)
  BY <1>9, <1>11, RequestType
<1>12. CASE \/ \E m \in Models : BeginUnload(m) \/ \E i \in Insts : BeginLoad(m, i)
            \/ \E w \in Workers : Step(w) \/ KillFailure(w)
  BY <1>2, <1>3, <1>4, <1>12 DEF Step
<1>13. CASE \/ \E i \in Insts : Monitor(i) \/ Listen(i) \/ BindFails(i) \/ Killed(i) \/ Crash(i)
            \/ \E i \in Insts : HelperStarts(i) \/ HelperEnds(i)
  BY <1>5, <1>6, <1>7, <1>13 DEF HelperMoves
<1>14. CASE BeginShutdown \/ Boot
  BY <1>14 DEF BeginShutdown, Boot
<1>15. CASE EndShutdown \/ ServerDies
  BY <1>15 DEF EndShutdown, ServerDies, ServerGone
<1>16. QED
  BY <1>10, <1>11, <1>12, <1>13, <1>14, <1>15 DEF Next

LEMMA RouteStep ==
  TypeInv /\ TrackInv /\ PortInv /\ LifeInv /\ RouteInv /\ [Next]_vars => RouteInv'
<1> SUFFICES ASSUME TypeInv, TrackInv, PortInv, LifeInv, RouteInv, [Next]_vars
             PROVE  RouteInv'
  OBVIOUS
<1>1. CASE EndShutdown \/ ServerDies
  <2>1. requests' = [c \in Clients |-> [to |-> NoInst, watched |-> FALSE]]
    BY <1>1 DEF EndShutdown, ServerDies, ServerGone, NoRequest
  <2>2. QED
    BY <2>1 DEF RouteInv
<1>2. ASSUME NEW c \in Clients, NEW m \in Models, Route(c, m) PROVE RouteInv'
  <2>1. /\ instances[m] \in Insts /\ inst[instances[m]].mon = "waiting"
        /\ UNCHANGED inst
    BY <1>2, EntryState DEF Route
  <2>2. \A d \in Clients :
          \/ requests'[d] = requests[d]
          \/ requests'[d] = [to |-> instances[m], watched |-> TRUE]
    BY <1>2, <2>1 DEF Route, TypeInv, TypeOK
  <2>3. QED
    BY <2>1, <2>2 DEF RouteInv
<1>3. ASSUME NEW c \in Clients, Answered(c) PROVE RouteInv'
  BY <1>3 DEF Answered, NoRequest, RouteInv, TypeInv, TypeOK
<1>4. ASSUME UNCHANGED requests, phase' # "exited" \/ phase = "exited" PROVE RouteInv'
  BY <1>4, MonitorKept DEF RouteInv
<1>5. CASE UNCHANGED vars
  BY <1>4, <1>5 DEF vars
<1>6. ASSUME NEW w \in Workers, Step(w) \/ KillFailure(w) PROVE UNCHANGED <<requests, phase>>
  BY <1>6
  DEF Step, LoadStep, TakePort, NoFreePort, StartServer, RecordHandle, StartFails, Healthy,
      NotHealthy, AlreadyFailed, GiveUp, FailTerminated, MarkRunning, Fail, UnloadStep,
      ShutdownUnload, Terminated, DeleteEntry, KillFailure, FailUnkilled, TerminateFails
<1>7. ASSUME NEW i \in Insts,
             \/ Monitor(i) \/ Listen(i) \/ BindFails(i) \/ Killed(i) \/ Crash(i)
             \/ HelperStarts(i) \/ HelperEnds(i)
      PROVE  UNCHANGED <<requests, phase>>
  BY <1>7 DEF Monitor, Listen, BindFails, Killed, Crash, ProcBecomes, HelperStarts, HelperEnds
<1>8. ASSUME \E m \in Models : BeginUnload(m) \/ \E i \in Insts : BeginLoad(m, i)
      PROVE  UNCHANGED <<requests, phase>>
  BY <1>8 DEF BeginUnload, BeginLoad
<1>9. ASSUME BeginShutdown \/ Boot
      PROVE  UNCHANGED requests /\ phase' # "exited"
  BY <1>9 DEF BeginShutdown, Boot
<1>10. QED
  BY <1>1, <1>2, <1>3, <1>4, <1>5, <1>6, <1>7, <1>8, <1>9 DEF Next

(* A request reaches the llama-server of the model it is for, or nobody,   *)
(* even though it is sent when no lock protects its URL any more           *)
(* (server.go 482), until the exit of that process is noticed.             *)
THEOREM RequestsReachOwn == Handled => (Spec => []RequestsArrive)
<1> SUFFICES ASSUME Handled PROVE Spec => []RequestsArrive
  OBVIOUS
<1>1. Init => RouteInv
  BY DEF Init, NoRequest, RouteInv
<1>2. TypeInv /\ TrackInv /\ PortInv /\ LifeInv /\ RouteInv /\ [Next]_vars => RouteInv'
  BY RouteStep
<1>3. ASSUME TypeInv, TrackInv, PortInv, RouteInv PROVE RequestsArrive
  <2> SUFFICES ASSUME NEW c \in Clients, requests[c].to # NoInst,
                      inst[requests[c].to].mon = "waiting",
                      NEW j \in Answering(c)
               PROVE  j = requests[c].to
    BY <1>3 DEF RequestsArrive, RouteInv
  <2>1. /\ requests[c].to \in Insts /\ WillRelease(requests[c].to)
        /\ j \in Insts /\ Alive(j) /\ inst[j].base = inst[requests[c].to].base
    BY <1>3 DEF TypeInv, TypeOK, WillRelease, Answering, Alive
  <2>2. QED
    BY <1>3, <2>1, OwnAnswers
<1>4. QED
  BY <1>1, <1>2, <1>3, LifeInvariant, PTL DEF Spec

(* A model that is reported running has a monitor waiting on its process,  *)
(* which will record an exit (runtime.go 383).                             *)
THEOREM RunningIsWatched == Handled => (Spec => []RunningWatched)
<1> SUFFICES ASSUME Handled PROVE Spec => []RunningWatched
  OBVIOUS
<1>1. TypeInv /\ TrackInv /\ PortInv /\ LifeInv => RunningWatched
  BY EntryState DEF RunningWatched
<1>2. QED
  BY <1>1, LifeInvariant, PTL

(* The statuses the service and the users read follow the life cycle of    *)
(* docs/api.md, one edge at a time: a model that has failed is starting    *)
(* again before it is running, and one that is unloaded never comes back   *)
(* by itself.                                                              *)
THEOREM LifecycleImplemented == Handled => (Spec => ImplementsLifecycle)
<1> SUFFICES ASSUME Handled PROVE Spec => ImplementsLifecycle
  OBVIOUS
<1> DEFINE bar == [m \in Models |-> StatusOf(m)]
<1>1. Init => Reported!Init
  BY DEF Init, Reported!Init, StatusOf, Mapped
<1>2. ASSUME Follows PROVE [Reported!Next]_bar
  <2>1. CASE \A n \in Models : StatusOf(n)' = StatusOf(n)
    BY <2>1
  <2>2. ASSUME NEW m \in Models, Edge(StatusOf(m), StatusOf(m)'),
               \A n \in Models \ {m} : StatusOf(n)' = StatusOf(n)
        PROVE  [Reported!Next]_bar
    <3>1. bar' = [bar EXCEPT ![m] = StatusOf(m)']
      BY <2>2
    <3>2. bar[m] = StatusOf(m)
      OBVIOUS
    <3>3. CASE StatusOf(m)' = StatusOf(m)
      BY <2>2, <3>3
    <3>4. CASE StatusOf(m)' # StatusOf(m)
      <4>1. \/ Reported!Load(m) \/ Reported!Ready(m) \/ Reported!Fail(m)
            \/ Reported!Stop(m) \/ Reported!Unload(m)
        BY <2>2, <3>1, <3>2, <3>4
        DEF Edge, Reported!Load, Reported!Ready, Reported!Fail, Reported!Stop, Reported!Unload,
            Reported!Move
      <4>2. QED
        BY <4>1 DEF Reported!Next
    <3>5. QED
      BY <3>3, <3>4
  <2>3. QED
    BY <1>2, <2>1, <2>2 DEF Follows
<1>3. TypeInv /\ TrackInv /\ PortInv /\ LifeInv /\ [Next]_vars => [Reported!Next]_bar
  BY <1>2, LifeStep
<1>4. QED
  BY <1>1, <1>3, LifeInvariant, PTL DEF Spec, ImplementsLifecycle, Reported!Spec

===============================================================================
