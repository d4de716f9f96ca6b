-------------------------- MODULE ModelServiceProofs --------------------------
(***************************************************************************)
(* Safety of ModelService for any number of models, requests, mutexes and  *)
(* runtimes and any faults: the lock guards the row and a deleted model    *)
(* stays deleted, whatever the requests are.  While no two requests are    *)
(* for one model, and none changes a model's runtime, no model is left     *)
(* loaded without a row and the statuses at rest are right.                *)
(***************************************************************************)
EXTENDS ModelService, TLAPS

-------------------------------------------------------------------------------
(* Types                                                                   *)

(* A request that is under way has a model and the copy of its row.        *)
Resolved ==
  \A r \in Reqs : req[r].pc # "idle" =>
    req[r].id \in Ids /\ req[r].m \in Row /\ req[r].op \in AllOps \ {"create"}

TypeInv == TypeOK /\ Resolved

LEMMA IdleType == Idle \in Request
  BY DEF Idle, Request

(* What the steps change in a request.                                     *)
LEMMA RequestUpdates ==
  ASSUME NEW q \in Request
  PROVE  /\ \A l \in Critical \cup {"idle", "lock", "acquire"} : [q EXCEPT !.pc = l] \in Request
         /\ [q EXCEPT !.cancelled = TRUE] \in Request
         /\ \A x \in Mutexes : [q EXCEPT !.lock = x, !.pc = "acquire"] \in Request
<1>1. \A l \in Critical \cup {"idle", "lock", "acquire"} : [q EXCEPT !.pc = l] \in Request
  BY DEF Request
<1>2. [q EXCEPT !.cancelled = TRUE] \in Request
  BY DEF Request
<1>3. \A x \in Mutexes : [q EXCEPT !.lock = x, !.pc = "acquire"] \in Request
  BY DEF Request
<1>4. QED
  BY <1>1, <1>2, <1>3

(* A patched copy is a row.                                                *)
LEMMA PatchedType ==
  ASSUME NEW m \in Row, NEW patch \in Patches \cup {NoPatch}
  PROVE  Patched(m, patch) \in Row
<1> DEFINE data == [f \in Columns |-> IF f \in DOMAIN patch THEN patch[f] ELSE m.data[f]]
           t == IF "runtime" \in DOMAIN patch THEN patch["runtime"] ELSE m.runtime
<1>1. m.data \in [Columns -> Values] /\ m.runtime \in Runtimes
  BY DEF Row
<1>2. ASSUME NEW f \in DOMAIN patch
      PROVE  IF f = "runtime" THEN patch[f] \in Runtimes ELSE patch[f] \in Values
  <2>1. CASE patch = NoPatch
    BY <2>1 DEF NoPatch
  <2>2. CASE patch \in Patches
    <3>1. PICK F \in SUBSET Fields : patch \in {p \in [F -> Values \cup Runtimes] :
            \A g \in F : IF g = "runtime" THEN p[g] \in Runtimes ELSE p[g] \in Values}
      BY <2>2 DEF Patches
    <3>2. DOMAIN patch = F
      BY <3>1
    <3>3. QED
      BY <3>1, <3>2
  <2>3. QED
    BY <2>1, <2>2
<1>3. data \in [Columns -> Values]
  BY <1>1, <1>2 DEF Columns
<1>4. t \in Runtimes
  BY <1>1, <1>2
<1>5. Patched(m, patch) = [m EXCEPT !.data = data, !.runtime = t]
  BY DEF Patched
<1> HIDE DEF data, t
<1>6. QED
  BY <1>3, <1>4, <1>5 DEF Row

LEMMA GotoType ==
  ASSUME TypeInv, NEW r \in Reqs, req[r].pc # "idle", NEW l \in Critical, Goto(r, l)
  PROVE  req' \in [Reqs -> Request] /\ Resolved'
<1>1. req' = [req EXCEPT ![r] = [req[r] EXCEPT !.pc = l]]
  BY DEF Goto
<1>2. req' \in [Reqs -> Request]
  BY <1>1, RequestUpdates DEF TypeInv, TypeOK
<1>3. \A q \in Reqs : /\ req'[q].id = req[q].id /\ req'[q].m = req[q].m /\ req'[q].op = req[q].op
                      /\ req'[q].pc # "idle" => req[q].pc # "idle"
  BY <1>1 DEF TypeInv, TypeOK, Request
<1>4. QED
  BY <1>2, <1>3 DEF TypeInv, Resolved

LEMMA ReturnType ==
  ASSUME TypeInv, NEW r \in Reqs, Return(r)
  PROVE  req' \in [Reqs -> Request] /\ Resolved'
<1>1. req' \in [Reqs -> Request]
  BY IdleType DEF Return, TypeInv, TypeOK
<1>2. Idle.pc = "idle"
  BY DEF Idle
<1>3. QED
  BY <1>1, <1>2 DEF Return, TypeInv, TypeOK, Resolved

LEMMA SetStatusType ==
  ASSUME TypeInv, NEW r \in Reqs, req[r].pc # "idle", NEW s \in Statuses, SetStatus(r, s)
  PROVE  rows' \in [Ids -> Row \cup {Unused, Gone}]
<1>1. req[r].id \in Ids
  BY DEF TypeInv, Resolved
<1>2. CASE req[r].cancelled \/ ~IsRow(rows[req[r].id])
  BY <1>2 DEF SetStatus, TypeInv, TypeOK
<1>3. CASE ~(req[r].cancelled \/ ~IsRow(rows[req[r].id]))
  <2>1. rows[req[r].id] \in Row
    BY <1>1, <1>3 DEF IsRow, TypeInv, TypeOK
  <2>2. [rows[req[r].id] EXCEPT !.status = s] \in Row
    BY <2>1 DEF Row
  <2>3. rows' = [rows EXCEPT ![req[r].id] = [rows[req[r].id] EXCEPT !.status = s]]
    BY <1>3 DEF SetStatus
  <2>4. QED
    BY <1>1, <2>2, <2>3 DEF TypeInv, TypeOK
<1>4. QED
  BY <1>2, <1>3

LEMMA AllStoppedType ==
  ASSUME TypeInv
  PROVE  AllStopped \in [Ids -> Row \cup {Unused, Gone}]
<1>1. \A x \in Row : [x EXCEPT !.status = "stopped"] \in Row
  BY DEF Row, Statuses
<1>2. \A id \in Ids : IsRow(rows[id]) => rows[id] \in Row
  BY DEF IsRow, TypeInv, TypeOK
<1>3. QED
  BY <1>1, <1>2 DEF AllStopped, TypeInv, TypeOK

LEMMA LoadStepType ==
  ASSUME TypeInv, NEW r \in Reqs,
         SetStarting(r) \/ RtLoad(r) \/ RtLoaded(r) \/ RtLoadFails(r) \/ SetLoaded(r)
  PROVE  TypeInv'
<1>1. CASE SetStarting(r)
  BY <1>1, GotoType, SetStatusType DEF SetStarting, TypeInv, TypeOK, Critical, Statuses
<1>2. CASE RtLoad(r)
  <2>1. live' \in [Runtimes -> [Ids -> Statuses]]
    BY <1>2 DEF RtLoad, TypeInv, TypeOK, Statuses
  <2>2. req' \in [Reqs -> Request] /\ Resolved'
    BY <1>2, GotoType, ReturnType DEF RtLoad, Critical
  <2>3. QED
    BY <1>2, <2>1, <2>2 DEF RtLoad, TypeInv, TypeOK
<1>3. CASE RtLoaded(r)
  <2>1. live' \in [Runtimes -> [Ids -> Statuses]]
    BY <1>3 DEF RtLoaded, TypeInv, TypeOK, Statuses
  <2>2. QED
    BY <1>3, <2>1, GotoType DEF RtLoaded, TypeInv, TypeOK, Critical
<1>4. CASE RtLoadFails(r)
  <2>1. live' \in [Runtimes -> [Ids -> Statuses]]
    BY <1>4 DEF RtLoadFails, TypeInv, TypeOK, Statuses
  <2>2. QED
    BY <1>4, <2>1, GotoType DEF RtLoadFails, TypeInv, TypeOK, Critical
<1>5. CASE SetLoaded(r)
  BY <1>5, ReturnType, SetStatusType DEF SetLoaded, TypeInv, TypeOK, Statuses
<1>6. QED
  BY <1>1, <1>2, <1>3, <1>4, <1>5

LEMMA StopStepType ==
  ASSUME TypeInv, NEW r \in Reqs,
         \/ SetStopping(r) \/ RtUnload(r) \/ RtUnloadFails(r) \/ SetStopped(r)
         \/ DeleteRow(r) \/ DropLock(r)
  PROVE  TypeInv'
<1>1. CASE SetStopping(r)
  BY <1>1, GotoType, SetStatusType DEF SetStopping, TypeInv, TypeOK, Critical, Statuses
<1>2. CASE RtUnload(r)
  <2>1. live' \in [Runtimes -> [Ids -> Statuses]]
    BY <1>2 DEF RtUnload, TypeInv, TypeOK, Statuses
  <2>2. req' \in [Reqs -> Request] /\ Resolved'
    BY <1>2, GotoType DEF RtUnload, Critical
  <2>3. QED
    BY <1>2, <2>1, <2>2 DEF RtUnload, TypeInv, TypeOK
<1>3. CASE RtUnloadFails(r)
  <2>1. live' \in [Runtimes -> [Ids -> Statuses]]
    BY <1>3 DEF RtUnloadFails, TypeInv, TypeOK, Statuses
  <2>2. req' \in [Reqs -> Request] /\ Resolved'
    BY <1>3, GotoType, ReturnType DEF RtUnloadFails, Critical
  <2>3. QED
    BY <1>3, <2>1, <2>2 DEF RtUnloadFails, TypeInv, TypeOK
<1>4. CASE SetStopped(r)
  <2>1. req' \in [Reqs -> Request] /\ Resolved'
    BY <1>4, GotoType, ReturnType DEF SetStopped, Critical
  <2>2. rows' \in [Ids -> Row \cup {Unused, Gone}]
    BY <1>4, SetStatusType DEF SetStopped, Statuses
  <2>3. QED
    BY <1>4, <2>1, <2>2 DEF SetStopped, TypeInv, TypeOK
<1>5. CASE DeleteRow(r)
  <2>1. req' \in [Reqs -> Request] /\ Resolved'
    BY <1>5, GotoType, ReturnType DEF DeleteRow, Critical
  <2>2. QED
    BY <1>5, <2>1 DEF DeleteRow, TypeInv, TypeOK
<1>6. CASE DropLock(r)
  BY <1>6, ReturnType DEF DropLock, TypeInv, TypeOK
<1>7. QED
  BY <1>1, <1>2, <1>3, <1>4, <1>5, <1>6

LEMMA LockStepType ==
  ASSUME TypeInv, NEW r \in Reqs,
         GetLock(r) \/ Acquire(r) \/ Busy(r) \/ WriteRow(r) \/ WriteRefused(r)
  PROVE  TypeInv'
<1>1. CASE GetLock(r)
  <2>1. PICK x \in Mutexes :
          /\ locks' = [locks EXCEPT ![req[r].id] = x]
          /\ req' = [req EXCEPT ![r] = [req[r] EXCEPT !.lock = x, !.pc = "acquire"]]
    BY <1>1 DEF GetLock, TypeInv, TypeOK, Request
  <2>2. req' \in [Reqs -> Request]
    BY <2>1, RequestUpdates DEF TypeInv, TypeOK
  <2>3. \A q \in Reqs : /\ req'[q].id = req[q].id /\ req'[q].m = req[q].m /\ req'[q].op = req[q].op
                        /\ req'[q].pc # "idle" => req[q].pc # "idle"
    BY <1>1, <2>1 DEF GetLock, TypeInv, TypeOK, Request
  <2>4. Resolved'
    BY <2>3 DEF TypeInv, Resolved
  <2>5. QED
    BY <1>1, <2>1, <2>2, <2>4 DEF GetLock, TypeInv, TypeOK
<1>2. CASE Acquire(r)
  <2>1. FirstStep(req[r].op) \in Critical
    BY <1>2 DEF Acquire, TypeInv, Resolved, AllOps, FirstStep, Critical
  <2>2. QED
    BY <1>2, <2>1, GotoType DEF Acquire, TypeInv, TypeOK
<1>3. CASE Busy(r) \/ WriteRefused(r)
  BY <1>3, ReturnType DEF Busy, WriteRefused, TypeInv, TypeOK
<1>4. CASE WriteRow(r)
  <2>1. req[r].m \in Row /\ req[r].patch \in Patches \cup {NoPatch}
    BY <1>4 DEF WriteRow, TypeInv, TypeOK, Resolved, Request
  <2>2. rows' \in [Ids -> Row \cup {Unused, Gone}]
    BY <1>4, <2>1, PatchedType DEF WriteRow, TypeInv, TypeOK
  <2>3. QED
    BY <1>4, <2>2, ReturnType DEF WriteRow, TypeInv, TypeOK
<1>5. QED
  BY <1>1, <1>2, <1>3, <1>4

LEMMA StepType ==
  ASSUME TypeInv, NEW r \in Reqs, Step(r)
  PROVE  TypeInv'
  BY LockStepType, LoadStepType, StopStepType DEF Step

(* The server's end: nothing but rows is left.                             *)
LEMMA GoneType ==
  ASSUME TypeInv, ServerGone, rows' = AllStopped \/ UNCHANGED rows
  PROVE  TypeInv'
<1>1. req' \in [Reqs -> Request] /\ Resolved'
  BY IdleType DEF ServerGone, Resolved, Idle
<1>2. rows' \in [Ids -> Row \cup {Unused, Gone}]
  BY AllStoppedType DEF TypeInv, TypeOK
<1>3. QED
  BY <1>1, <1>2 DEF ServerGone, TypeInv, TypeOK, Statuses

LEMMA TypeNext == TypeInv /\ [Next]_vars => TypeInv'
<1> SUFFICES ASSUME TypeInv, [Next]_vars PROVE TypeInv'
  OBVIOUS
<1>1. ASSUME NEW id \in Ids, Create(id) PROVE TypeInv'
  <2>1. rows' \in [Ids -> Row \cup {Unused, Gone}]
    BY <1>1 DEF Create, TypeInv, TypeOK, Row, Statuses
  <2>2. QED
    BY <1>1, <2>1 DEF Create, TypeInv, TypeOK, Resolved
<1>2. ASSUME NEW r \in Reqs, NEW id \in Ids, NEW op \in Ops \ {"create"}, Resolve(r, op, id)
      PROVE  TypeInv'
  <2>1. op \in AllOps \ {"create"} /\ rows[id] \in Row
    BY <1>2, OpsAssumption DEF Resolve, IsRow, TypeInv, TypeOK
  <2>2. PICK patch \in Patches \cup {NoPatch} :
          req' = [req EXCEPT ![r] = [Idle EXCEPT !.op = op, !.pc = "lock", !.id = id,
                                                 !.patch = patch, !.m = rows[id]]]
    BY <1>2 DEF Resolve
  <2> DEFINE q == [Idle EXCEPT !.op = op, !.pc = "lock", !.id = id, !.patch = patch, !.m = rows[id]]
  <2>3. q \in Request /\ q.id = id /\ q.m = rows[id] /\ q.op = op
    BY <2>1 DEF Idle, Request
  <2> HIDE DEF q
  <2>4. req' = [req EXCEPT ![r] = q]
    BY <2>2 DEF q
  <2>5. req' \in [Reqs -> Request] /\ Resolved'
    BY <2>1, <2>3, <2>4 DEF TypeInv, TypeOK, Resolved
  <2>6. QED
    BY <1>2, <2>5 DEF Resolve, TypeInv, TypeOK
<1>3. ASSUME NEW r \in Reqs, Step(r) PROVE TypeInv'
  BY <1>3, StepType
<1>4. ASSUME NEW r \in Reqs, Cancel(r) PROVE TypeInv'
  <2>1. req' = [req EXCEPT ![r] = [req[r] EXCEPT !.cancelled = TRUE]]
    BY <1>4 DEF Cancel
  <2>2. req' \in [Reqs -> Request]
    BY <2>1, RequestUpdates DEF TypeInv, TypeOK
  <2>3. \A q \in Reqs : /\ req'[q].id = req[q].id /\ req'[q].m = req[q].m
                        /\ req'[q].op = req[q].op /\ req'[q].pc = req[q].pc
    BY <2>1 DEF TypeInv, TypeOK, Request
  <2>4. QED
    BY <1>4, <2>2, <2>3 DEF Cancel, TypeInv, TypeOK, Resolved
<1>5. ASSUME NEW t \in Runtimes, NEW id \in Ids, Crash(t, id) PROVE TypeInv'
  <2>1. live' \in [Runtimes -> [Ids -> Statuses]]
    BY <1>5 DEF Crash, TypeInv, TypeOK, Statuses
  <2>2. QED
    BY <1>5, <2>1 DEF Crash, TypeInv, TypeOK, Resolved
<1>6. CASE Shutdown \/ ShutdownExpired \/ ServerDies
  BY <1>6, GoneType DEF Shutdown, ShutdownExpired, ServerDies
<1>7. CASE Boot
  BY <1>7, AllStoppedType DEF Boot, TypeInv, TypeOK, Resolved
<1>8. CASE UNCHANGED vars
  BY <1>8 DEF vars, TypeInv, TypeOK, Resolved
<1>9. QED
  BY <1>1, <1>2, <1>3, <1>4, <1>5, <1>6, <1>7, <1>8 DEF Next

LEMMA TypeInit == Init => TypeInv
<1> SUFFICES ASSUME Init PROVE TypeInv
  OBVIOUS
<1>1. req \in [Reqs -> Request] /\ Resolved
  BY IdleType DEF Init, Resolved, Idle
<1>2. QED
  BY <1>1 DEF Init, TypeInv, TypeOK, Statuses

LEMMA TypeInvariant == Spec => []TypeInv
  BY TypeInit, TypeNext, PTL DEF Spec

(* Rows, locks, requests and what the runtimes report keep their types.    *)
THEOREM TypeCorrect == Spec => []TypeOK
<1>1. TypeInv => TypeOK
  BY DEF TypeInv
<1>2. QED
  BY <1>1, TypeInvariant, PTL

-------------------------------------------------------------------------------
(* Rows                                                                    *)

(* All that a step ever does to a row: it appears where there was never    *)
(* one, is written while it is there, or goes for good.                    *)
RowsMove ==
  \A id \in Ids :
    \/ rows'[id] = rows[id]
    \/ rows[id] = Unused /\ IsRow(rows'[id])
    \/ IsRow(rows[id]) /\ rows'[id] # Unused

LEMMA RowFacts == Unused # Gone /\ \A x \in Row : IsRow(x)
  BY RowAssumption DEF IsRow

LEMMA AllStoppedMoves == TypeInv /\ (rows' = AllStopped \/ UNCHANGED rows) => RowsMove
<1> SUFFICES ASSUME TypeInv, rows' = AllStopped \/ UNCHANGED rows, NEW id \in Ids
             PROVE  rows'[id] = rows[id] \/ (IsRow(rows[id]) /\ rows'[id] # Unused)
  BY DEF RowsMove
<1>1. AllStopped[id] \in Row \cup {Unused, Gone}
  BY AllStoppedType
<1>2. ASSUME IsRow(rows[id]) PROVE AllStopped[id] # Unused
  <2>1. rows[id] \in Row
    BY <1>2 DEF IsRow, TypeInv, TypeOK
  <2>2. AllStopped[id] = [rows[id] EXCEPT !.status = "stopped"]
    BY <1>2 DEF AllStopped
  <2>3. [rows[id] EXCEPT !.status = "stopped"] \in Row
    BY <2>1 DEF Row, Statuses
  <2>4. QED
    BY <2>2, <2>3, RowFacts DEF IsRow
<1>3. ~IsRow(rows[id]) => AllStopped[id] = rows[id]
  BY DEF AllStopped
<1>4. QED
  BY <1>2, <1>3

LEMMA SetStatusMoves ==
  ASSUME TypeInv, NEW r \in Reqs, req[r].pc # "idle", NEW s \in Statuses, SetStatus(r, s)
  PROVE  RowsMove
<1>1. req[r].id \in Ids
  BY DEF TypeInv, Resolved
<1>2. CASE req[r].cancelled \/ ~IsRow(rows[req[r].id])
  BY <1>2 DEF SetStatus, RowsMove
<1>3. CASE ~(req[r].cancelled \/ ~IsRow(rows[req[r].id]))
  <2>1. rows[req[r].id] \in Row
    BY <1>1, <1>3 DEF IsRow, TypeInv, TypeOK
  <2>2. [rows[req[r].id] EXCEPT !.status = s] \in Row
    BY <2>1 DEF Row
  <2>3. rows' = [rows EXCEPT ![req[r].id] = [rows[req[r].id] EXCEPT !.status = s]]
    BY <1>3 DEF SetStatus
  <2>4. \A id \in Ids : rows'[id] = IF id = req[r].id THEN [rows[req[r].id] EXCEPT !.status = s]
                                    ELSE rows[id]
    BY <2>3 DEF TypeInv, TypeOK
  <2>5. [rows[req[r].id] EXCEPT !.status = s] # Unused
    BY <2>2, RowFacts DEF IsRow
  <2>6. QED
    BY <1>3, <2>4, <2>5 DEF RowsMove
<1>4. QED
  BY <1>2, <1>3

LEMMA StepMoves ==
  ASSUME TypeInv, NEW r \in Reqs, Step(r)
  PROVE  RowsMove
<1>1. CASE WriteRow(r)
  <2>1. req[r].m \in Row /\ req[r].patch \in Patches \cup {NoPatch}
    BY <1>1 DEF WriteRow, TypeInv, TypeOK, Resolved, Request
  <2>2. Patched(req[r].m, req[r].patch) # Unused
    BY <2>1, PatchedType, RowFacts DEF IsRow
  <2>3. \A id \in Ids : rows'[id] = IF id = req[r].id THEN Patched(req[r].m, req[r].patch)
                                    ELSE rows[id]
    BY <1>1 DEF WriteRow, TypeInv, TypeOK
  <2>4. IsRow(rows[req[r].id])
    BY <1>1 DEF WriteRow
  <2>5. QED
    BY <2>2, <2>3, <2>4 DEF RowsMove
<1>2. CASE DeleteRow(r)
  BY <1>2, RowFacts DEF DeleteRow, RowsMove, TypeInv, TypeOK
<1>3. CASE SetStarting(r) \/ SetStopping(r) \/ SetStopped(r)
  BY <1>3, SetStatusMoves DEF SetStarting, SetStopping, SetStopped, Statuses
<1>4. CASE SetLoaded(r)
  BY <1>4, SetStatusMoves DEF SetLoaded, Statuses
<1>5. CASE ~(WriteRow(r) \/ DeleteRow(r) \/ SetStarting(r) \/ SetStopping(r) \/ SetStopped(r)
             \/ SetLoaded(r))
  <2>1. UNCHANGED rows
    BY <1>5 DEF Step, GetLock, Acquire, Busy, WriteRefused, RtLoad, RtLoaded, RtLoadFails,
                RtUnload, RtUnloadFails, DropLock
  <2>2. QED
    BY <2>1 DEF RowsMove
<1>6. QED
  BY <1>1, <1>2, <1>3, <1>4, <1>5

LEMMA NextMoves == TypeInv /\ [Next]_vars => RowsMove
<1> SUFFICES ASSUME TypeInv, [Next]_vars PROVE RowsMove
  OBVIOUS
<1>1. ASSUME NEW id \in Ids, Create(id) PROVE RowsMove
  <2>1. PICK d \in [Columns -> Values], t \in Runtimes :
          rows' = [rows EXCEPT ![id] = [data |-> d, runtime |-> t, status |-> "stopped"]]
    BY <1>1 DEF Create
  <2>2. [data |-> d, runtime |-> t, status |-> "stopped"] \in Row
    BY DEF Row, Statuses
  <2>3. QED
    BY <1>1, <2>1, <2>2, RowFacts DEF Create, RowsMove, TypeInv, TypeOK
<1>2. ASSUME NEW r \in Reqs, Step(r) PROVE RowsMove
  BY <1>2, StepMoves
<1>3. CASE Shutdown \/ ShutdownExpired \/ ServerDies \/ Boot
  BY <1>3, AllStoppedMoves DEF Shutdown, ShutdownExpired, ServerDies, Boot
<1>4. CASE \/ UNCHANGED vars
           \/ \E r \in Reqs, id \in Ids, op \in Ops \ {"create"} : Resolve(r, op, id)
           \/ \E r \in Reqs : Cancel(r)
           \/ \E t \in Runtimes, id \in Ids : Crash(t, id)
  <2>1. UNCHANGED rows
    BY <1>4 DEF vars, Resolve, Cancel, Crash
  <2>2. QED
    BY <2>1 DEF RowsMove
<1>5. QED
  BY <1>1, <1>2, <1>3, <1>4 DEF Next

(* A deleted model does not come back, whatever was on its way for it.     *)
THEOREM DeletedForGood == Spec => DeletedStaysDeleted
<1>1. TypeInv /\ [Next]_vars => [\A id \in Ids : rows[id] = Gone => rows'[id] = Gone]_vars
  BY NextMoves, RowFacts DEF RowsMove, IsRow
<1>2. QED
  BY <1>1, TypeInvariant, PTL DEF Spec, DeletedStaysDeleted

-------------------------------------------------------------------------------
(***************************************************************************)
(* The lock guards the row.  The mutual exclusion of one mutex object      *)
(* (HeldOnce) says nothing of a model whose mutex left the map: what makes *)
(* the difference is that while the row is there, the map names the mutex  *)
(* that everyone with the model has (MapCurrent), because a mutex leaves   *)
(* the map only after the row is gone for good.                            *)
(***************************************************************************)
LockShape ==
  \A r \in Reqs :
    /\ req[r].pc = "idle" => req[r].id = NoId /\ req[r].lock = NoMutex
    /\ req[r].pc = "lock" => req[r].lock = NoMutex
    /\ req[r].pc \in Critical \cup {"acquire"} => req[r].lock \in Mutexes
    /\ req[r].pc # "idle" => rows[req[r].id] # Unused
    /\ req[r].pc = "dropLock" => rows[req[r].id] = Gone

HeldOnce ==
  \A q, r \in Reqs :
    q # r /\ req[q].pc \in Critical /\ req[r].pc \in Critical => req[q].lock # req[r].lock

MapCurrent ==
  \A r \in Reqs :
    req[r].lock # NoMutex /\ IsRow(rows[req[r].id]) => locks[req[r].id] = req[r].lock

LockInv == LockShape /\ HeldOnce /\ MapCurrent

(* What a request does inside its critical section, or to leave it: it     *)
(* keeps its model and its mutex, and only its own Delete touches the map. *)
Inside(r) ==
  /\ \A q \in Reqs \ {r} : req'[q] = req[q]
  /\ \/ req'[r] = Idle
     \/ /\ req[r].pc \in Critical /\ req'[r].pc \in Critical
        /\ req'[r].id = req[r].id /\ req'[r].lock = req[r].lock
        /\ req'[r].pc = "dropLock" => rows'[req[r].id] = Gone
  /\ \/ UNCHANGED locks
     \/ /\ locks' = [locks EXCEPT ![req[r].id] = NoMutex]
        /\ req[r].pc = "dropLock"

LEMMA GotoInside ==
  ASSUME TypeInv, NEW r \in Reqs, req[r].pc \in Critical, NEW l \in Critical, Goto(r, l),
         UNCHANGED locks, l = "dropLock" => rows'[req[r].id] = Gone
  PROVE  Inside(r)
<1>1. req' = [req EXCEPT ![r] = [req[r] EXCEPT !.pc = l]]
  BY DEF Goto
<1>2. QED
  BY <1>1 DEF Inside, TypeInv, TypeOK, Request

LEMMA ReturnInside ==
  ASSUME TypeInv, NEW r \in Reqs, Return(r),
         \/ UNCHANGED locks
         \/ locks' = [locks EXCEPT ![req[r].id] = NoMutex] /\ req[r].pc = "dropLock"
  PROVE  Inside(r)
  BY DEF Return, Inside, TypeInv, TypeOK

LEMMA StepInside ==
  ASSUME TypeInv, NEW r \in Reqs, Step(r)
  PROVE  GetLock(r) \/ Acquire(r) \/ Inside(r)
<1>1. CASE Busy(r) \/ WriteRow(r) \/ WriteRefused(r) \/ SetLoaded(r) \/ DropLock(r)
  BY <1>1, ReturnInside DEF Busy, WriteRow, WriteRefused, SetLoaded, DropLock
<1>2. CASE SetStarting(r) \/ RtLoaded(r) \/ RtLoadFails(r) \/ SetStopping(r)
  BY <1>2, GotoInside DEF SetStarting, RtLoaded, RtLoadFails, SetStopping, Critical
<1>3. CASE RtLoad(r)
  BY <1>3, GotoInside, ReturnInside DEF RtLoad, Critical
<1>4. CASE RtUnload(r)
  BY <1>4, GotoInside DEF RtUnload, Critical
<1>5. CASE RtUnloadFails(r)
  BY <1>5, GotoInside, ReturnInside DEF RtUnloadFails, Critical
<1>6. CASE SetStopped(r)
  BY <1>6, GotoInside, ReturnInside DEF SetStopped, Critical
<1>7. CASE DeleteRow(r)
  <2>1. req[r].id \in Ids
    BY <1>7 DEF DeleteRow, TypeInv, Resolved
  <2>2. QED
    BY <1>7, <2>1, GotoInside, ReturnInside DEF DeleteRow, Critical, TypeInv, TypeOK
<1>8. QED
  BY <1>1, <1>2, <1>3, <1>4, <1>5, <1>6, <1>7 DEF Step

LEMMA InsideKeepsLock ==
  ASSUME TypeInv, TypeInv', LockInv, RowsMove, NEW r \in Reqs, Inside(r)
  PROVE  LockInv'
<1>1. Idle.pc = "idle" /\ Idle.id = NoId /\ Idle.lock = NoMutex
  BY DEF Idle
<1>2. "idle" \notin Critical \cup {"acquire"} /\ "lock" \notin Critical /\ "acquire" \notin Critical
      /\ "dropLock" \in Critical
  BY DEF Critical
<1>3. \A q \in Reqs : req[q].pc # "idle" => req[q].id \in Ids
  BY DEF TypeInv, Resolved
<1>4. LockShape'
  BY <1>1, <1>2, <1>3, RowFacts DEF LockInv, LockShape, Inside, RowsMove, IsRow
<1>5. HeldOnce'
  BY <1>1, <1>2 DEF LockInv, HeldOnce, Inside
<1>6. ASSUME NEW q \in Reqs, req'[q].lock # NoMutex, IsRow(rows'[req'[q].id])
      PROVE  locks'[req'[q].id] = req'[q].lock
  <2>1. req'[q].pc # "idle" /\ req[q].pc # "idle"
        /\ req'[q].id = req[q].id /\ req'[q].lock = req[q].lock /\ req[q].id \in Ids
    BY <1>1, <1>2, <1>3, <1>4, <1>6 DEF LockShape, Inside
  <2>2. IsRow(rows[req[q].id])
    BY <1>6, <2>1, RowFacts DEF LockInv, LockShape, RowsMove, IsRow
  <2>3. locks[req[q].id] = req[q].lock
    BY <1>6, <2>1, <2>2 DEF LockInv, MapCurrent
  <2>4. CASE UNCHANGED locks
    BY <2>1, <2>3, <2>4
  <2>5. CASE locks' = [locks EXCEPT ![req[r].id] = NoMutex] /\ req[r].pc = "dropLock"
    <3>1. rows[req[r].id] = Gone
      BY <2>5 DEF LockInv, LockShape
    <3>2. req[q].id # req[r].id
      BY <2>2, <3>1 DEF IsRow
    <3>3. QED
      BY <2>1, <2>3, <2>5, <3>2 DEF TypeInv, TypeOK
  <2>6. QED
    BY <2>4, <2>5 DEF Inside
<1>7. QED
  BY <1>4, <1>5, <1>6 DEF LockInv, MapCurrent

LEMMA GetLockKeepsLock ==
  ASSUME TypeInv, LockInv, NEW r \in Reqs, GetLock(r)
  PROVE  LockInv'
<1>1. req[r].pc = "lock" /\ req[r].id \in Ids /\ req[r].lock = NoMutex
  BY DEF GetLock, TypeInv, Resolved, LockInv, LockShape
<1>2. PICK x \in Mutexes :
        /\ IF locks[req[r].id] # NoMutex THEN x = locks[req[r].id]
           ELSE /\ \A i \in Ids : locks[i] # x
                /\ \A q \in Reqs : req[q].lock # x
        /\ locks' = [locks EXCEPT ![req[r].id] = x]
        /\ req' = [req EXCEPT ![r] = [req[r] EXCEPT !.lock = x, !.pc = "acquire"]]
  BY DEF GetLock, TypeInv, TypeOK, Request
<1>3. /\ req'[r].id = req[r].id /\ req'[r].lock = x /\ req'[r].pc = "acquire"
      /\ \A q \in Reqs \ {r} : req'[q] = req[q]
  BY <1>2 DEF TypeInv, TypeOK, Request
<1>4. UNCHANGED rows /\ x # NoMutex
  BY NullAssumption DEF GetLock
<1>5. LockShape'
  BY <1>1, <1>3, <1>4 DEF LockInv, LockShape
<1>6. HeldOnce'
  BY <1>3 DEF LockInv, HeldOnce, Critical
<1>7. ASSUME NEW q \in Reqs, req'[q].lock # NoMutex, IsRow(rows'[req'[q].id])
      PROVE  locks'[req'[q].id] = req'[q].lock
  <2>1. CASE q = r
    BY <1>1, <1>2, <1>3, <2>1 DEF TypeInv, TypeOK
  <2>2. CASE q # r
    <3>1. req'[q] = req[q] /\ req[q].pc # "idle" /\ req[q].id \in Ids
      BY <1>3, <1>7, <2>2 DEF LockInv, LockShape, TypeInv, Resolved
    <3>2. locks[req[q].id] = req[q].lock
      BY <1>4, <1>7, <3>1 DEF LockInv, MapCurrent
    <3>3. CASE req[q].id = req[r].id
      BY <1>1, <1>2, <1>7, <3>1, <3>2, <3>3 DEF TypeInv, TypeOK
    <3>4. CASE req[q].id # req[r].id
      BY <1>2, <3>1, <3>2, <3>4 DEF TypeInv, TypeOK
    <3>5. QED
      BY <3>3, <3>4
  <2>3. QED
    BY <2>1, <2>2
<1>8. QED
  BY <1>5, <1>6, <1>7 DEF LockInv, MapCurrent

LEMMA AcquireKeepsLock ==
  ASSUME TypeInv, LockInv, NEW r \in Reqs, Acquire(r)
  PROVE  LockInv'
<1>1. req' = [req EXCEPT ![r] = [req[r] EXCEPT !.pc = FirstStep(req[r].op)]]
      /\ UNCHANGED <<rows, locks>> /\ req[r].pc = "acquire" /\ ~Held(req[r].lock)
  BY DEF Acquire, Goto
<1>2. FirstStep(req[r].op) \in Critical \ {"dropLock"}
  BY <1>1 DEF TypeInv, Resolved, AllOps, FirstStep, Critical
<1>3. /\ req'[r].id = req[r].id /\ req'[r].lock = req[r].lock
      /\ req'[r].pc \in Critical \ {"dropLock"}
      /\ \A q \in Reqs \ {r} : req'[q] = req[q]
  BY <1>1, <1>2 DEF TypeInv, TypeOK, Request
<1>4. "idle" \notin Critical /\ "lock" \notin Critical
  BY DEF Critical
<1>5. LockShape'
  BY <1>1, <1>3, <1>4 DEF LockInv, LockShape
<1>6. HeldOnce'
  BY <1>1, <1>3 DEF LockInv, HeldOnce, Held
<1>7. MapCurrent'
  BY <1>1, <1>3 DEF LockInv, MapCurrent
<1>8. QED
  BY <1>5, <1>6, <1>7 DEF LockInv

LEMMA LockNext == TypeInv /\ TypeInv' /\ LockInv /\ [Next]_vars => LockInv'
<1> SUFFICES ASSUME TypeInv, TypeInv', LockInv, [Next]_vars PROVE LockInv'
  OBVIOUS
<1>1. RowsMove
  BY NextMoves
<1>2. ASSUME NEW r \in Reqs, Step(r) PROVE LockInv'
  BY <1>1, <1>2, StepInside, InsideKeepsLock, GetLockKeepsLock, AcquireKeepsLock
<1>3. ASSUME NEW r \in Reqs, NEW id \in Ids, NEW op \in Ops \ {"create"}, Resolve(r, op, id)
      PROVE  LockInv'
  <2>1. /\ req'[r].pc = "lock" /\ req'[r].lock = NoMutex /\ req'[r].id = id
        /\ \A q \in Reqs \ {r} : req'[q] = req[q]
        /\ UNCHANGED <<rows, locks>> /\ IsRow(rows[id])
    BY <1>3 DEF Resolve, TypeInv, TypeOK, Idle
  <2>2. LockShape'
    BY <2>1 DEF LockInv, LockShape, Critical, IsRow
  <2>3. HeldOnce'
    BY <2>1 DEF LockInv, HeldOnce, Critical
  <2>4. MapCurrent'
    BY <2>1 DEF LockInv, MapCurrent
  <2>5. QED
    BY <2>2, <2>3, <2>4 DEF LockInv
<1>4. ASSUME NEW r \in Reqs, Cancel(r) PROVE LockInv'
  <2>1. req' = [req EXCEPT ![r] = [req[r] EXCEPT !.cancelled = TRUE]] /\ UNCHANGED <<rows, locks>>
    BY <1>4 DEF Cancel
  <2>2. \A q \in Reqs : req'[q].pc = req[q].pc /\ req'[q].id = req[q].id /\ req'[q].lock = req[q].lock
    BY <2>1 DEF TypeInv, TypeOK, Request
  <2>3. QED
    BY <2>1, <2>2 DEF LockInv, LockShape, HeldOnce, MapCurrent
<1>5. CASE Shutdown \/ ShutdownExpired \/ ServerDies
  <2>1. \A q \in Reqs : req'[q] = Idle
    BY <1>5 DEF Shutdown, ShutdownExpired, ServerDies, ServerGone
  <2>2. QED
    BY <2>1 DEF LockInv, LockShape, HeldOnce, MapCurrent, Idle, Critical
<1>6. CASE \/ UNCHANGED vars \/ Boot \/ \E id \in Ids : Create(id)
           \/ \E t \in Runtimes, id \in Ids : Crash(t, id)
  <2>1. UNCHANGED <<req, locks>>
    BY <1>6 DEF vars, Boot, Create, Crash
  <2>2. \A q \in Reqs : req[q].pc # "idle" => req[q].id \in Ids
    BY DEF TypeInv, Resolved
  <2>3. LockShape'
    BY <1>1, <2>1, <2>2, RowFacts DEF LockInv, LockShape, RowsMove, Critical, IsRow
  <2>4. HeldOnce'
    BY <2>1 DEF LockInv, HeldOnce
  <2>5. ASSUME NEW q \in Reqs, req'[q].lock # NoMutex, IsRow(rows'[req'[q].id])
        PROVE  locks'[req'[q].id] = req'[q].lock
    <3>1. req[q].pc # "idle" /\ req[q].id \in Ids
      BY <2>1, <2>2, <2>5 DEF LockInv, LockShape
    <3>2. IsRow(rows[req[q].id])
      BY <1>1, <2>1, <2>5, <3>1, RowFacts DEF LockInv, LockShape, RowsMove, IsRow
    <3>3. QED
      BY <2>1, <2>5, <3>2 DEF LockInv, MapCurrent
  <2>6. QED
    BY <2>3, <2>4, <2>5 DEF LockInv, MapCurrent
<1>7. QED
  BY <1>2, <1>3, <1>4, <1>5, <1>6 DEF Next

LEMMA LockInit == Init => LockInv
  BY DEF Init, LockInv, LockShape, HeldOnce, MapCurrent, Idle, Critical

LEMMA LockInvariant == Spec => []LockInv
  BY TypeInvariant, LockInit, LockNext, PTL DEF Spec

(* The lock of a registered model is held by one request at a time, for    *)
(* any number of requests and with any of them cancelled: Delete may take  *)
(* the mutex out of the map while others wait for it.                      *)
THEOREM RowsGuarded == Spec => []LockGuardsRows
<1>1. TypeInv /\ LockInv => LockGuardsRows
  <2> SUFFICES ASSUME TypeInv, LockInv, NEW q \in Reqs, NEW r \in Reqs,
                      q # r, req[q].id = req[r].id,
                      req[q].pc \in Critical, req[r].pc \in Critical, IsRow(rows[req[q].id])
               PROVE  FALSE
    BY DEF LockGuardsRows
  <2>1. req[q].lock # NoMutex /\ req[r].lock # NoMutex
    BY NullAssumption DEF LockInv, LockShape
  <2>2. locks[req[q].id] = req[q].lock /\ locks[req[r].id] = req[r].lock
    BY <2>1 DEF LockInv, MapCurrent
  <2>3. QED
    BY <2>2 DEF LockInv, HeldOnce
<1>2. QED
  BY <1>1, TypeInvariant, LockInvariant, PTL

-------------------------------------------------------------------------------
(***************************************************************************)
(* Nothing is left loaded.  A request that was resolved before another     *)
(* one's Delete can load a model that has no row any more, and a patch can *)
(* point a row to another runtime, so this is a theorem about requests     *)
(* that leave the runtime alone and meet no other for the same model:      *)
(* while one is under way for a model, the row is there with the runtime   *)
(* the copy names, and only that runtime can have the model loaded.        *)
(***************************************************************************)
OnePerModel ==
  \A q, r \in Reqs : q # r /\ req[q].id = req[r].id => req[q].id = NoId

RowOf(r) == rows[req[r].id]
LiveOf(r) == live[req[r].m.runtime][req[r].id]

(* Only the runtime the row names has the model.                           *)
Clean(id) ==
  \A t \in Runtimes : Live(t, id) => IsRow(rows[id]) /\ t = rows[id].runtime

CopyRight(r) ==
  req[r].pc \notin {"idle", "dropLock"} =>
    IsRow(RowOf(r)) /\ RowOf(r).runtime = req[r].m.runtime

HasStopped(r) == req[r].pc \in {"setStopped", "deleteRow"} => LiveOf(r) = "stopped"

ZombieInv == (\A id \in Ids : Clean(id)) /\ \A r \in Reqs : CopyRight(r) /\ HasStopped(r)

LEMMA SetStatusEffect ==
  ASSUME TypeInv, NEW r \in Reqs, req[r].pc # "idle", NEW s \in Statuses, SetStatus(r, s)
  PROVE  /\ \A id \in Ids : id # req[r].id => rows'[id] = rows[id]
         /\ IsRow(RowOf(r)) =>
              /\ IsRow(rows'[req[r].id])
              /\ rows'[req[r].id].runtime = RowOf(r).runtime
              /\ rows'[req[r].id].status = IF req[r].cancelled THEN RowOf(r).status ELSE s
<1>1. req[r].id \in Ids
  BY DEF TypeInv, Resolved
<1>2. CASE req[r].cancelled \/ ~IsRow(RowOf(r))
  BY <1>2 DEF SetStatus, RowOf
<1>3. CASE ~(req[r].cancelled \/ ~IsRow(RowOf(r)))
  <2>1. RowOf(r) \in Row
    BY <1>1, <1>3 DEF IsRow, RowOf, TypeInv, TypeOK
  <2> DEFINE row == [RowOf(r) EXCEPT !.status = s]
  <2>2. row \in Row /\ row.runtime = RowOf(r).runtime /\ row.status = s
    BY <2>1 DEF Row
  <2>3. rows' = [rows EXCEPT ![req[r].id] = row]
    BY <1>3 DEF SetStatus, RowOf
  <2> HIDE DEF row
  <2>4. \A id \in Ids : rows'[id] = IF id = req[r].id THEN row ELSE rows[id]
    BY <2>3 DEF TypeInv, TypeOK
  <2>5. QED
    BY <1>1, <1>3, <2>2, <2>4, RowFacts
<1>4. QED
  BY <1>2, <1>3

(* A request touches nothing of other requests and other models.           *)
LEMMA StepLocal ==
  ASSUME TypeInv, NEW r \in Reqs, Step(r)
  PROVE  /\ req[r].pc # "idle" /\ req[r].id \in Ids /\ req[r].m \in Row
         /\ \A q \in Reqs \ {r} : req'[q] = req[q]
         /\ \A id \in Ids : id # req[r].id =>
              rows'[id] = rows[id] /\ \A t \in Runtimes : live'[t][id] = live[t][id]
<1>1. req[r].pc # "idle"
  BY DEF Step, GetLock, Acquire, Busy, WriteRow, WriteRefused, SetStarting, RtLoad, RtLoaded,
         RtLoadFails, SetLoaded, SetStopping, RtUnload, RtUnloadFails, SetStopped, DeleteRow, DropLock
<1>2. req[r].id \in Ids /\ req[r].m \in Row
  BY <1>1 DEF TypeInv, Resolved
<1>3. \A q \in Reqs \ {r} : req'[q] = req[q]
  BY DEF TypeInv, TypeOK, Goto, Return,
         Step, GetLock, Acquire, Busy, WriteRow, WriteRefused, SetStarting, RtLoad, RtLoaded,
         RtLoadFails, SetLoaded, SetStopping, RtUnload, RtUnloadFails, SetStopped, DeleteRow, DropLock
<1>4. ASSUME NEW id \in Ids, id # req[r].id
      PROVE  rows'[id] = rows[id]
  <2>1. CASE SetStarting(r) \/ SetStopping(r) \/ SetStopped(r) \/ SetLoaded(r)
    BY <1>1, <1>4, <2>1, SetStatusEffect
    DEF SetStarting, SetStopping, SetStopped, SetLoaded, Statuses
  <2>2. CASE WriteRow(r) \/ DeleteRow(r)
    BY <1>4, <2>2 DEF WriteRow, DeleteRow, TypeInv, TypeOK
  <2>3. QED
    BY <2>1, <2>2 DEF Step, GetLock, Acquire, Busy, WriteRefused, RtLoad, RtLoaded, RtLoadFails,
                      RtUnload, RtUnloadFails, DropLock
<1>5. ASSUME NEW id \in Ids, id # req[r].id, NEW t \in Runtimes
      PROVE  live'[t][id] = live[t][id]
  <2>1. CASE RtLoad(r) \/ RtLoaded(r) \/ RtLoadFails(r)
    BY <1>5, <2>1 DEF RtLoad, RtLoaded, RtLoadFails, TypeInv, TypeOK
  <2>2. CASE RtUnload(r) \/ RtUnloadFails(r)
    BY <1>5, <2>2 DEF RtUnload, RtUnloadFails, TypeInv, TypeOK
  <2>3. QED
    BY <2>1, <2>2 DEF Step, GetLock, Acquire, Busy, WriteRow, WriteRefused, SetStarting, SetLoaded,
                      SetStopping, SetStopped, DeleteRow, DropLock
<1>6. QED
  BY <1>1, <1>2, <1>3, <1>4, <1>5

(* What a runtime reports after it was told to change it.                  *)
LEMMA LiveUpdate ==
  ASSUME TypeInv, NEW t \in Runtimes, NEW id \in Ids, NEW s \in Statuses,
         live' = [live EXCEPT ![t][id] = s]
  PROVE  \A u \in Runtimes : live'[u][id] = IF u = t THEN s ELSE live[u][id]
  BY DEF TypeInv, TypeOK

LEMMA GotoEffect ==
  ASSUME TypeInv, NEW r \in Reqs, NEW l \in Critical, Goto(r, l)
  PROVE  /\ req'[r].pc = l /\ req'[r].id = req[r].id /\ req'[r].m = req[r].m
         /\ req'[r].op = req[r].op /\ req'[r].cancelled = req[r].cancelled
  BY DEF Goto, TypeInv, TypeOK, Request

LEMMA ReturnEffect ==
  ASSUME TypeInv, NEW r \in Reqs, Return(r)
  PROVE  req'[r] = Idle /\ req'[r].pc = "idle"
  BY DEF Return, TypeInv, TypeOK, Idle

(* What a step of a request leaves behind for its own model.               *)
LEMMA ZombieLocal ==
  ASSUME "runtime" \notin Fields, TypeInv, ZombieInv, NEW r \in Reqs, Step(r),
         NEW id \in Ids, id = req[r].id
  PROVE  Clean(id)' /\ CopyRight(r)' /\ HasStopped(r)'
<1> DEFINE t == req[r].m.runtime
<1>1. /\ req[r].pc # "idle" /\ req[r].m \in Row
      /\ Clean(id) /\ CopyRight(r) /\ HasStopped(r)
  BY StepLocal DEF ZombieInv
<1>2. t \in Runtimes
  BY <1>1 DEF Row
<1>3. req[r].pc # "dropLock" => IsRow(rows[id]) /\ rows[id].runtime = t
  BY <1>1 DEF CopyRight, RowOf
<1>4. CASE GetLock(r) \/ Acquire(r) \/ Busy(r) \/ WriteRefused(r)
  <2>1. UNCHANGED <<rows, live>>
    BY <1>4 DEF GetLock, Acquire, Busy, WriteRefused
  <2>2. \/ req'[r].pc = "idle"
        \/ /\ req'[r].id = req[r].id /\ req'[r].m = req[r].m /\ req[r].pc \in {"lock", "acquire"}
           /\ req'[r].pc \notin {"setStopped", "deleteRow"}
    <3>1. CASE GetLock(r)
      BY <3>1 DEF GetLock, TypeInv, TypeOK, Request
    <3>2. CASE Acquire(r)
      <4>1. FirstStep(req[r].op) \in Critical \ {"setStopped", "deleteRow"}
        BY <3>2 DEF Acquire, TypeInv, Resolved, AllOps, FirstStep, Critical
      <4>2. QED
        BY <3>2, <4>1, GotoEffect DEF Acquire
    <3>3. CASE Busy(r) \/ WriteRefused(r)
      BY <3>3, ReturnEffect DEF Busy, WriteRefused
    <3>4. QED
      BY <1>4, <3>1, <3>2, <3>3
  <2>3. QED
    BY <1>1, <2>1, <2>2 DEF Clean, Live, CopyRight, RowOf, HasStopped, LiveOf
<1>5. CASE WriteRow(r)
  <2>1. req[r].patch \in Patches \cup {NoPatch}
    BY DEF TypeInv, TypeOK, Request
  <2>2. Patched(req[r].m, req[r].patch) \in Row
    BY <1>1, <2>1, PatchedType
  <2>3. "runtime" \notin DOMAIN req[r].patch
    BY <2>1 DEF Patches, NoPatch
  <2>4. Patched(req[r].m, req[r].patch).runtime = t
    BY <1>1, <2>3 DEF Patched, Row
  <2>5. rows'[id] = Patched(req[r].m, req[r].patch) /\ UNCHANGED live /\ req'[r].pc = "idle"
    BY <1>5, ReturnEffect DEF WriteRow, TypeInv, TypeOK
  <2>6. IsRow(rows'[id]) /\ rows'[id].runtime = rows[id].runtime
    BY <1>3, <1>5, <2>2, <2>4, <2>5, RowFacts DEF WriteRow
  <2>7. QED
    BY <1>1, <2>5, <2>6 DEF Clean, Live, CopyRight, HasStopped
<1>6. CASE SetStarting(r) \/ SetLoaded(r) \/ SetStopping(r) \/ SetStopped(r)
  <2>1. UNCHANGED live /\ IsRow(rows'[id]) /\ rows'[id].runtime = t /\ rows[id].runtime = t
    BY <1>1, <1>3, <1>6, SetStatusEffect
    DEF SetStarting, SetLoaded, SetStopping, SetStopped, RowOf, Statuses
  <2>2. \/ req'[r].pc = "idle"
        \/ /\ req'[r].id = req[r].id /\ req'[r].m = req[r].m
           /\ req'[r].pc \notin {"setStopped", "deleteRow"}
    BY <1>6, GotoEffect, ReturnEffect DEF SetStarting, SetLoaded, SetStopping, SetStopped, Critical
  <2>3. QED
    BY <1>1, <2>1, <2>2 DEF Clean, Live, CopyRight, RowOf, HasStopped
<1>7. CASE RtLoad(r) \/ RtLoaded(r) \/ RtLoadFails(r) \/ RtUnload(r) \/ RtUnloadFails(r)
  <2>1. IsRow(rows[id]) /\ rows[id].runtime = t /\ UNCHANGED rows
    BY <1>3, <1>7 DEF RtLoad, RtLoaded, RtLoadFails, RtUnload, RtUnloadFails
  <2>2. live \in [Runtimes -> [Ids -> Statuses]] /\ id \in Ids
    BY StepLocal DEF TypeInv, TypeOK
  <2>3. \A u \in Runtimes \ {t} : live'[u][id] = live[u][id]
    <3>1. CASE RtUnload(r) \/ RtUnloadFails(r)
      BY <1>2, <2>2, <3>1 DEF RtUnload, RtUnloadFails
    <3>2. CASE RtLoad(r)
      BY <1>2, <2>2, <3>2 DEF RtLoad
    <3>3. CASE RtLoaded(r) \/ RtLoadFails(r)
      BY <1>2, <2>2, <3>3 DEF RtLoaded, RtLoadFails
    <3>4. QED
      BY <1>7, <3>1, <3>2, <3>3
  <2>4. \/ req'[r].pc = "idle"
        \/ /\ req'[r].id = req[r].id /\ req'[r].m = req[r].m
           /\ req'[r].pc \in {"setStopped", "deleteRow"} => RtUnload(r)
    <3>1. CASE RtUnload(r)
      BY <3>1, GotoEffect DEF RtUnload, Critical
    <3>2. CASE RtUnloadFails(r)
      BY <3>2, GotoEffect, ReturnEffect DEF RtUnloadFails, Critical
    <3>3. CASE RtLoad(r)
      BY <3>3, GotoEffect, ReturnEffect DEF RtLoad, Critical
    <3>4. CASE RtLoaded(r) \/ RtLoadFails(r)
      BY <3>4, GotoEffect DEF RtLoaded, RtLoadFails, Critical
    <3>5. QED
      BY <1>7, <3>1, <3>2, <3>3, <3>4
  <2>5. RtUnload(r) => live'[t][id] = "stopped"
    BY <1>2, <2>2 DEF RtUnload
  <2>6. Clean(id)'
    BY <1>1, <2>1, <2>3 DEF Clean, Live
  <2>7. CopyRight(r)' /\ HasStopped(r)'
    BY <2>1, <2>4, <2>5 DEF CopyRight, RowOf, HasStopped, LiveOf
  <2>8. QED
    BY <2>6, <2>7
<1>8. CASE DeleteRow(r)
  <2>1. \A u \in Runtimes : ~Live(u, id)
    BY <1>1, <1>3, <1>8 DEF DeleteRow, Clean, HasStopped, LiveOf, Live
  <2>2. UNCHANGED live /\ req'[r].pc \in {"idle", "dropLock"}
    BY <1>8, GotoEffect, ReturnEffect DEF DeleteRow, Critical
  <2>3. QED
    BY <2>1, <2>2 DEF Clean, Live, CopyRight, HasStopped
<1>9. CASE DropLock(r)
  <2>1. UNCHANGED <<rows, live>> /\ req'[r].pc = "idle"
    BY <1>9, ReturnEffect DEF DropLock
  <2>2. QED
    BY <1>1, <2>1 DEF Clean, Live, CopyRight, HasStopped
<1>10. QED
  BY <1>4, <1>5, <1>6, <1>7, <1>8, <1>9 DEF Step

(* And for the others, whose models are not this one.                      *)
LEMMA ZombieStep ==
  ASSUME "runtime" \notin Fields, TypeInv, ZombieInv, OnePerModel, NEW r \in Reqs, Step(r)
  PROVE  ZombieInv'
<1>1. /\ req[r].id \in Ids /\ \A q \in Reqs \ {r} : req'[q] = req[q]
      /\ \A id \in Ids : id # req[r].id =>
           rows'[id] = rows[id] /\ \A t \in Runtimes : live'[t][id] = live[t][id]
  BY StepLocal
<1>2. ASSUME NEW id \in Ids PROVE Clean(id)'
  <2>1. CASE id = req[r].id
    BY <2>1, ZombieLocal
  <2>2. CASE id # req[r].id
    BY <1>1, <2>2 DEF ZombieInv, Clean, Live
  <2>3. QED
    BY <2>1, <2>2
<1>3. ASSUME NEW q \in Reqs PROVE CopyRight(q)' /\ HasStopped(q)'
  <2>1. CASE q = r
    BY <1>1, <2>1, ZombieLocal
  <2>2. CASE q # r /\ req[q].pc # "idle"
    <3>1. req[q].id \in Ids /\ req[q].m.runtime \in Runtimes
      BY <2>2 DEF TypeInv, Resolved, Row
    <3>2. req[q].id # req[r].id
      BY <2>2, <3>1, NullAssumption DEF OnePerModel
    <3>3. rows'[req[q].id] = rows[req[q].id]
          /\ live'[req[q].m.runtime][req[q].id] = live[req[q].m.runtime][req[q].id]
      BY <1>1, <3>1, <3>2
    <3>4. req'[q] = req[q]
      BY <1>1, <2>2
    <3>5. QED
      BY <3>3, <3>4 DEF ZombieInv, CopyRight, RowOf, HasStopped, LiveOf
  <2>3. CASE q # r /\ req[q].pc = "idle"
    BY <1>1, <2>3 DEF CopyRight, HasStopped
  <2>4. QED
    BY <2>1, <2>2, <2>3
<1>4. QED
  BY <1>2, <1>3 DEF ZombieInv

LEMMA GoneNothing ==
  ASSUME ServerGone
  PROVE  ZombieInv'
<1>1. \A t \in Runtimes, id \in Ids : live'[t][id] = "stopped"
  BY DEF ServerGone
<1>2. \A r \in Reqs : req'[r].pc = "idle"
  BY DEF ServerGone, Idle
<1>3. QED
  BY <1>1, <1>2 DEF ZombieInv, Clean, Live, CopyRight, HasStopped

(* The server's stop and start change no row's runtime.                    *)
LEMMA AllStoppedEffect ==
  ASSUME TypeInv, NEW id \in Ids, IsRow(rows[id])
  PROVE  /\ IsRow(AllStopped[id]) /\ AllStopped[id].runtime = rows[id].runtime
         /\ AllStopped[id].status = "stopped"
<1>1. rows[id] \in Row
  BY DEF IsRow, TypeInv, TypeOK
<1> DEFINE row == [rows[id] EXCEPT !.status = "stopped"]
<1>2. row \in Row /\ row.runtime = rows[id].runtime /\ row.status = "stopped"
  BY <1>1 DEF Row, Statuses
<1>3. AllStopped[id] = row
  BY DEF AllStopped
<1> HIDE DEF row
<1>4. QED
  BY <1>2, <1>3, RowFacts

LEMMA ZombieNext ==
  ASSUME "runtime" \notin Fields, TypeInv, ZombieInv, OnePerModel, [Next]_vars
  PROVE  ZombieInv'
<1>1. ASSUME NEW id \in Ids, Create(id) PROVE ZombieInv'
  <2>1. /\ UNCHANGED <<live, req>> /\ ~IsRow(rows[id])
        /\ \A i \in Ids : i # id => rows'[i] = rows[i]
    BY <1>1 DEF Create, IsRow, TypeInv, TypeOK
  <2>2. ASSUME NEW i \in Ids PROVE Clean(i)'
    BY <2>1 DEF ZombieInv, Clean, Live
  <2>3. ASSUME NEW r \in Reqs PROVE CopyRight(r)' /\ HasStopped(r)'
    <3>1. req[r].pc # "idle" => req[r].id \in Ids
      BY DEF TypeInv, Resolved
    <3>2. QED
      BY <2>1, <3>1 DEF ZombieInv, CopyRight, RowOf, HasStopped, LiveOf
  <2>4. QED
    BY <2>2, <2>3 DEF ZombieInv
<1>2. ASSUME NEW r \in Reqs, NEW id \in Ids, NEW op \in Ops, Resolve(r, op, id)
      PROVE  ZombieInv'
  <2>1. UNCHANGED <<rows, live>> /\ IsRow(rows[id])
    BY <1>2 DEF Resolve
  <2>2. /\ req'[r].id = id /\ req'[r].m = rows[id] /\ req'[r].pc = "lock"
        /\ \A q \in Reqs \ {r} : req'[q] = req[q]
    BY <1>2 DEF Resolve, Idle, TypeInv, TypeOK
  <2>3. QED
    BY <2>1, <2>2 DEF ZombieInv, Clean, Live, CopyRight, RowOf, HasStopped, LiveOf
<1>3. ASSUME NEW r \in Reqs, Step(r) PROVE ZombieInv'
  BY <1>3, ZombieStep
<1>4. ASSUME NEW r \in Reqs, Cancel(r) PROVE ZombieInv'
  <2>1. UNCHANGED <<rows, live>>
    BY <1>4 DEF Cancel
  <2>2. \A q \in Reqs : req'[q].id = req[q].id /\ req'[q].m = req[q].m /\ req'[q].pc = req[q].pc
    BY <1>4 DEF Cancel, TypeInv, TypeOK, Request
  <2>3. QED
    BY <2>1, <2>2 DEF ZombieInv, Clean, Live, CopyRight, RowOf, HasStopped, LiveOf
<1>5. ASSUME NEW t \in Runtimes, NEW id \in Ids, Crash(t, id) PROVE ZombieInv'
  <2>1. UNCHANGED <<rows, req>>
    BY <1>5 DEF Crash
  <2>2. \A u \in Runtimes, i \in Ids :
          live'[u][i] = live[u][i] \/ (live[u][i] = "running" /\ live'[u][i] = "failed")
    BY <1>5 DEF Crash, TypeInv, TypeOK
  <2>3. \A i \in Ids : Clean(i)'
    BY <2>1, <2>2 DEF ZombieInv, Clean, Live
  <2>4. ASSUME NEW r \in Reqs PROVE CopyRight(r)' /\ HasStopped(r)'
    <3>1. req[r].pc # "idle" => req[r].id \in Ids /\ req[r].m.runtime \in Runtimes
      BY DEF TypeInv, Resolved, Row
    <3>2. QED
      BY <2>1, <2>2, <3>1 DEF ZombieInv, CopyRight, RowOf, HasStopped, LiveOf
  <2>5. QED
    BY <2>3, <2>4 DEF ZombieInv
<1>6. CASE Shutdown \/ ShutdownExpired \/ ServerDies
  BY <1>6, GoneNothing DEF Shutdown, ShutdownExpired, ServerDies
<1>7. CASE Boot
  <2>1. UNCHANGED <<live, req>> /\ rows' = AllStopped
    BY <1>7 DEF Boot
  <2>2. \A id \in Ids : IsRow(rows[id]) => IsRow(rows'[id]) /\ rows'[id].runtime = rows[id].runtime
    BY <2>1, AllStoppedEffect
  <2>3. \A r \in Reqs : req[r].pc # "idle" => req[r].id \in Ids
    BY DEF TypeInv, Resolved
  <2>4. QED
    BY <2>1, <2>2, <2>3 DEF ZombieInv, Clean, Live, CopyRight, RowOf, HasStopped, LiveOf
<1>8. CASE UNCHANGED vars
  BY <1>8 DEF vars, ZombieInv, Clean, Live, CopyRight, RowOf, HasStopped, LiveOf
<1>9. QED
  BY <1>1, <1>2, <1>3, <1>4, <1>5, <1>6, <1>7, <1>8 DEF Next

LEMMA ZombieInit == Init => ZombieInv
  BY DEF Init, Idle, ZombieInv, Clean, Live, CopyRight, HasStopped

LEMMA ZombieInvariant == "runtime" \notin Fields => (Spec /\ []OnePerModel => []ZombieInv)
<1> SUFFICES ASSUME "runtime" \notin Fields PROVE Spec /\ []OnePerModel => []ZombieInv
  OBVIOUS
<1>1. TypeInv /\ OnePerModel /\ ZombieInv /\ [Next]_vars => ZombieInv'
  BY ZombieNext
<1>2. QED
  BY <1>1, ZombieInit, TypeInvariant, PTL DEF Spec

(* When requests for a model come one after another and none moves it to   *)
(* another runtime, no runtime keeps a model that has no row, whatever     *)
(* loads, unloads, cancellations, crashes and stops of the server fail or  *)
(* come between: Delete unloads before it deletes (service.go 226-257).    *)
THEOREM NoZombies == "runtime" \notin Fields => (Spec /\ []OnePerModel => []NoZombie)
<1> SUFFICES ASSUME "runtime" \notin Fields PROVE Spec /\ []OnePerModel => []NoZombie
  OBVIOUS
<1>1. ZombieInv => NoZombie
  BY DEF ZombieInv, Clean, NoZombie
<1>2. QED
  BY <1>1, ZombieInvariant, PTL

-------------------------------------------------------------------------------
(* The statuses at rest.  A cancelled request can load a model and fail to *)
(* say so, hence the third assumption.  The row of a model is right while  *)
(* no request is between a status it has written and what it does to the   *)
(* runtime, or the other way round.                                        *)
Honest(id) == live[rows[id].runtime][id] \in MayReport(rows[id].status)

Writing(r) ==
  \/ req[r].pc \in {"rtLoad", "rtLoading", "setRunning", "setFailed", "setStopped", "deleteRow"}
  \/ req[r].pc = "rtUnload" /\ req[r].op # "delete"

AtRest(id) ==
  phase = "serving" /\ IsRow(rows[id]) /\ (\A r \in Reqs : req[r].id = id => ~Writing(r))
    => Honest(id)

(* What a request under way knows of its row and of the runtime.           *)
Working(r) ==
  /\ ~req[r].cancelled
  /\ req[r].pc = "setStopping" => req[r].op # "delete"
  /\ req[r].pc \in {"lock", "acquire", "writeRow"} => RowOf(r) = req[r].m
  /\ req[r].pc \in {"rtLoad", "rtLoading", "setRunning"} => RowOf(r).status = "starting"
  /\ req[r].pc = "rtLoading" => LiveOf(r) = "starting"
  /\ req[r].pc = "setRunning" => LiveOf(r) \in {"running", "failed"}
  /\ req[r].pc = "setFailed" => LiveOf(r) \in {"failed", "stopping"}

(* A model is starting while a request loads it, and no longer.            *)
Loading ==
  \A t \in Runtimes, id \in Ids : live[t][id] = "starting" =>
    \E r \in Reqs : req[r].id = id /\ req[r].pc = "rtLoading"

(* No runtime has heard of a model that is not registered yet.             *)
Fresh ==
  \A id \in Ids : rows[id] = Unused => \A t \in Runtimes : live[t][id] = "stopped"

Down ==
  phase = "exited" =>
    /\ \A t \in Runtimes, id \in Ids : live[t][id] = "stopped"
    /\ \A r \in Reqs : req[r].pc = "idle"

HonestInv ==
  (\A id \in Ids : AtRest(id)) /\ (\A r \in Reqs : Working(r)) /\ Loading /\ Fresh /\ Down

(* The steps up to the lock and the ones of an update.                     *)
LEMMA HonestLock ==
  ASSUME "runtime" \notin Fields, TypeInv, ZombieInv, NEW r \in Reqs, Working(r),
         NEW id \in Ids, id = req[r].id, Honest(id),
         GetLock(r) \/ Acquire(r) \/ Busy(r) \/ WriteRow(r) \/ WriteRefused(r)
  PROVE  Working(r)' /\ Honest(id)'
<1>1. req[r].pc # "idle"
  BY DEF GetLock, Acquire, Busy, WriteRow, WriteRefused
<1>2. req[r].id \in Ids /\ req[r].m \in Row
  BY <1>1 DEF TypeInv, Resolved
<1>3. CASE GetLock(r)
  <2>1. PICK x \in Mutexes : req' = [req EXCEPT ![r] = [req[r] EXCEPT !.lock = x, !.pc = "acquire"]]
    BY <1>3 DEF GetLock, TypeInv, TypeOK, Request
  <2>2. /\ req'[r].pc = "acquire" /\ req'[r].id = req[r].id /\ req'[r].m = req[r].m
        /\ req'[r].cancelled = req[r].cancelled
    BY <2>1 DEF TypeInv, TypeOK, Request
  <2>3. QED
    BY <1>3, <2>2 DEF GetLock, Working, RowOf, Honest
<1>4. CASE Acquire(r)
  <2>1. FirstStep(req[r].op) \in {"writeRow", "rtUnload", "setStarting", "setStopping"}
    BY <1>4 DEF Acquire, TypeInv, Resolved, AllOps, FirstStep
  <2>2. FirstStep(req[r].op) = "setStopping" => req[r].op # "delete"
    BY DEF FirstStep
  <2>3. QED
    BY <1>4, <2>1, <2>2, GotoEffect DEF Acquire, Critical, Working, RowOf, Honest
<1>5. CASE Busy(r) \/ WriteRefused(r)
  BY <1>5, ReturnEffect DEF Busy, WriteRefused, Idle, Working, Honest
<1>6. CASE WriteRow(r)
  <2>1. req[r].patch \in Patches \cup {NoPatch} /\ "runtime" \notin DOMAIN req[r].patch
    BY DEF TypeInv, TypeOK, Request, Patches, NoPatch
  <2>2. /\ Patched(req[r].m, req[r].patch).runtime = req[r].m.runtime
        /\ Patched(req[r].m, req[r].patch).status = req[r].m.status
    BY <1>2, <2>1 DEF Patched, Row
  <2>3. /\ rows'[id] = Patched(req[r].m, req[r].patch) /\ RowOf(r) = req[r].m
        /\ UNCHANGED live /\ req'[r] = Idle
    BY <1>2, <1>6, ReturnEffect DEF WriteRow, Working, TypeInv, TypeOK
  <2>4. QED
    BY <2>2, <2>3 DEF RowOf, Honest, Working, Idle
<1>7. QED
  BY <1>3, <1>4, <1>5, <1>6

(* The steps that write a status.                                          *)
LEMMA HonestStatus ==
  ASSUME TypeInv, ZombieInv, NEW r \in Reqs, Working(r),
         NEW id \in Ids, id = req[r].id,
         SetStarting(r) \/ SetLoaded(r) \/ SetStopping(r) \/ SetStopped(r)
  PROVE  Working(r)' /\ (Writing(r)' \/ Honest(id)')
<1> DEFINE t == req[r].m.runtime
<1>1. req[r].pc \notin {"idle", "dropLock"}
  BY DEF SetStarting, SetLoaded, SetStopping, SetStopped
<1>2. id \in Ids /\ IsRow(RowOf(r)) /\ RowOf(r).runtime = t /\ Clean(id) /\ HasStopped(r)
  BY <1>1 DEF TypeInv, Resolved, ZombieInv, CopyRight
<1>3. UNCHANGED live /\ ~req[r].cancelled
  BY DEF SetStarting, SetLoaded, SetStopping, SetStopped, Working
<1>4. \A s \in Statuses : SetStatus(r, s) =>
        IsRow(rows'[id]) /\ rows'[id].runtime = t /\ rows'[id].status = s
  BY <1>1, <1>2, <1>3, SetStatusEffect
<1>5. CASE SetStarting(r)
  <2>1. rows'[id].status = "starting"
    BY <1>4, <1>5 DEF SetStarting, Statuses
  <2>2. QED
    BY <1>3, <1>5, <2>1, GotoEffect DEF SetStarting, Critical, Working, Writing, RowOf
<1>6. CASE SetStopping(r)
  <2>1. rows'[id].status = "stopping"
    BY <1>4, <1>6 DEF SetStopping, Statuses
  <2>2. QED
    BY <1>3, <1>6, <2>1, GotoEffect DEF SetStopping, Critical, Working, Writing
<1>7. CASE SetStopped(r)
  <2>1. rows'[id].status = "stopped" /\ live'[t][id] = "stopped"
    BY <1>2, <1>3, <1>4, <1>7 DEF SetStopped, Statuses, HasStopped, LiveOf
  <2>2. rows'[id].runtime = t
    BY <1>4, <1>7 DEF SetStopped, Statuses
  <2>3. Working(r)'
    BY <1>3, <1>7, GotoEffect, ReturnEffect DEF SetStopped, Critical, Idle, Working
  <2>4. QED
    BY <2>1, <2>2, <2>3 DEF Honest, MayReport
<1>8. CASE SetLoaded(r)
  <2>1. req'[r] = Idle
    BY <1>8, ReturnEffect DEF SetLoaded
  <2>2. CASE req[r].pc = "setFailed"
    <3>1. /\ rows'[id].status = "failed" /\ rows'[id].runtime = t
          /\ live'[t][id] \in {"failed", "stopping"}
      BY <1>3, <1>4, <1>8, <2>2 DEF SetLoaded, Statuses, Working, LiveOf
    <3>2. QED
      BY <2>1, <3>1 DEF Honest, MayReport, Working, Idle
  <2>3. CASE req[r].pc = "setRunning"
    <3>1. /\ rows'[id].status = "running" /\ rows'[id].runtime = t
          /\ live'[t][id] \in {"running", "failed"}
      BY <1>3, <1>4, <1>8, <2>3 DEF SetLoaded, Statuses, Working, LiveOf
    <3>2. QED
      BY <2>1, <3>1 DEF Honest, MayReport, Working, Idle
  <2>4. QED
    BY <1>8, <2>2, <2>3 DEF SetLoaded
<1>9. QED
  BY <1>5, <1>6, <1>7, <1>8

(* The calls of the runtime, and the end of a delete.                      *)
LEMMA HonestRuntime ==
  ASSUME TypeInv, ZombieInv, NEW r \in Reqs, Working(r),
         NEW id \in Ids, id = req[r].id, IsRow(rows[id]) /\ ~Writing(r) => Honest(id),
         LiveOf(r) = "starting" => req[r].pc = "rtLoading",
         \/ RtLoad(r) \/ RtLoaded(r) \/ RtLoadFails(r) \/ RtUnload(r) \/ RtUnloadFails(r)
         \/ DeleteRow(r) \/ DropLock(r)
  PROVE  Working(r)' /\ (IsRow(rows'[id]) => Writing(r)' \/ Honest(id)')
<1> DEFINE t == req[r].m.runtime
<1>1. req[r].pc # "idle" /\ req[r].m \in Row /\ t \in Runtimes
  BY DEF RtLoad, RtLoaded, RtLoadFails, RtUnload, RtUnloadFails, DeleteRow, DropLock,
         TypeInv, Resolved, Row
<1>2. live \in [Runtimes -> [Ids -> Statuses]] /\ ~req[r].cancelled
  BY DEF TypeInv, TypeOK, Working
<1>3. CASE RtLoad(r)
  <2>1. UNCHANGED rows /\ rows[id].status = "starting"
    BY <1>3 DEF RtLoad, Working, RowOf
  <2>2. CASE live[t][id] \in {"starting", "running"}
    <3>1. req'[r] = Idle /\ UNCHANGED live /\ live[t][id] = "running"
      BY <1>3, <2>2, ReturnEffect DEF RtLoad, LiveOf
    <3>2. rows[id].runtime = t
      BY <1>3 DEF RtLoad, ZombieInv, CopyRight, RowOf
    <3>3. QED
      BY <2>1, <3>1, <3>2 DEF Idle, Working, Honest, MayReport
  <2>3. CASE live[t][id] \notin {"starting", "running"}
    <3>1. Goto(r, "rtLoading") /\ live'[t][id] = "starting"
      BY <1>1, <1>2, <1>3, <2>3 DEF RtLoad
    <3>2. QED
      BY <1>2, <2>1, <3>1, GotoEffect DEF Critical, Working, Writing, RowOf, LiveOf
  <2>4. QED
    BY <2>2, <2>3
<1>4. CASE RtLoaded(r)
  <2>1. UNCHANGED rows /\ rows[id].status = "starting" /\ live'[t][id] = "running"
    BY <1>1, <1>2, <1>4 DEF RtLoaded, Working, RowOf
  <2>2. QED
    BY <1>2, <1>4, <2>1, GotoEffect DEF RtLoaded, Critical, Working, Writing, RowOf, LiveOf
<1>5. CASE RtLoadFails(r)
  <2>1. live'[t][id] = "failed"
    BY <1>1, <1>2, <1>5 DEF RtLoadFails, Working, LiveOf
  <2>2. QED
    BY <1>2, <1>5, <2>1, GotoEffect DEF RtLoadFails, Critical, Working, Writing, LiveOf
<1>6. CASE RtUnload(r)
  BY <1>2, <1>6, GotoEffect DEF RtUnload, Critical, Working, Writing
<1>7. CASE RtUnloadFails(r)
  <2>1. CASE Goto(r, "setFailed")
    <3>1. live'[t][id] = "stopping"
      BY <1>1, <1>2, <1>7 DEF RtUnloadFails
    <3>2. QED
      BY <1>2, <2>1, <3>1, GotoEffect DEF Critical, Working, Writing, LiveOf
  <2>2. CASE req[r].op = "delete" /\ req'[r] = Idle
    <3>1. UNCHANGED rows /\ IsRow(rows[id]) /\ rows[id].runtime = t /\ Live(t, id)
      BY <1>7 DEF RtUnloadFails, Live, ZombieInv, CopyRight, RowOf
    <3>2. Honest(id)
      BY <1>7, <2>2, <3>1 DEF RtUnloadFails, Writing
    <3>3. live'[t][id] = "stopping"
      BY <1>1, <1>2, <1>7 DEF RtUnloadFails
    <3>4. rows[id].status \in Statuses
      BY <3>1 DEF TypeInv, TypeOK, IsRow, Row
    <3>5. "stopping" \in MayReport(rows[id].status)
      BY <3>1, <3>2, <3>4 DEF Honest, MayReport, Live, Statuses
    <3>6. QED
      BY <2>2, <3>1, <3>3, <3>5 DEF Honest, Working, Idle
  <2>3. QED
    BY <1>7, <2>1, <2>2, ReturnEffect DEF RtUnloadFails
<1>8. CASE DeleteRow(r)
  <2>1. IsRow(rows[id])
    BY <1>8 DEF DeleteRow, ZombieInv, CopyRight, RowOf
  <2>2. rows'[id] = Gone /\ Goto(r, "dropLock")
    BY <1>2, <1>8, <2>1 DEF DeleteRow, TypeInv, TypeOK
  <2>3. Working(r)'
    BY <1>2, <2>2, GotoEffect DEF Critical, Working
  <2>4. QED
    BY <2>2, <2>3 DEF IsRow
<1>9. CASE DropLock(r)
  <2>1. req'[r] = Idle /\ UNCHANGED <<rows, live>> /\ ~Writing(r)
    BY <1>9, ReturnEffect DEF DropLock, Writing
  <2>2. QED
    BY <2>1 DEF Idle, Working, Honest
<1>10. QED
  BY <1>3, <1>4, <1>5, <1>6, <1>7, <1>8, <1>9

LEMMA HonestLocal ==
  ASSUME "runtime" \notin Fields, TypeInv, ZombieInv, NEW r \in Reqs, Step(r), Working(r),
         NEW id \in Ids, id = req[r].id, IsRow(rows[id]) /\ ~Writing(r) => Honest(id),
         LiveOf(r) = "starting" => req[r].pc = "rtLoading"
  PROVE  Working(r)' /\ (IsRow(rows'[id]) => Writing(r)' \/ Honest(id)')
<1>1. CASE GetLock(r) \/ Acquire(r) \/ Busy(r) \/ WriteRow(r) \/ WriteRefused(r)
  <2>1. req[r].pc \in {"lock", "acquire", "writeRow"}
    BY <1>1 DEF GetLock, Acquire, Busy, WriteRow, WriteRefused
  <2>2. Honest(id)
    BY <2>1 DEF ZombieInv, CopyRight, RowOf, Writing
  <2>3. QED
    BY <1>1, <2>2, HonestLock
<1>2. CASE SetStarting(r) \/ SetLoaded(r) \/ SetStopping(r) \/ SetStopped(r)
  BY <1>2, HonestStatus
<1>3. CASE \/ RtLoad(r) \/ RtLoaded(r) \/ RtLoadFails(r) \/ RtUnload(r) \/ RtUnloadFails(r)
           \/ DeleteRow(r) \/ DropLock(r)
  BY <1>3, HonestRuntime
<1>4. QED
  BY <1>1, <1>2, <1>3 DEF Step

LEMMA LoadingLocal ==
  ASSUME TypeInv, ZombieInv, NEW r \in Reqs, Step(r), NEW id \in Ids, id = req[r].id,
         \A t \in Runtimes : live[t][id] = "starting" => req[r].pc = "rtLoading"
  PROVE  \A t \in Runtimes :
           live'[t][id] = "starting" => req'[r].id = id /\ req'[r].pc = "rtLoading"
<1> DEFINE t == req[r].m.runtime
<1>1. live \in [Runtimes -> [Ids -> Statuses]]
  BY DEF TypeInv, TypeOK
<1>2. CASE RtLoad(r)
  <2>1. CASE UNCHANGED live
    BY <1>2, <2>1 DEF RtLoad
  <2>2. CASE Goto(r, "rtLoading")
    BY <2>2, GotoEffect DEF Critical
  <2>3. QED
    BY <1>2, <2>1, <2>2 DEF RtLoad
<1>3. CASE RtLoaded(r) \/ RtLoadFails(r)
  <2>1. /\ req[r].pc = "rtLoading" /\ t \in Runtimes
        /\ \A u \in Runtimes : u # t => live'[u][id] = live[u][id]
        /\ live'[t][id] # "starting"
    BY <1>1, <1>3 DEF RtLoaded, RtLoadFails, TypeInv, Resolved, Row
  <2>2. \A u \in Runtimes : live[u][id] = "starting" => u = t
    BY <2>1 DEF ZombieInv, Clean, Live, CopyRight, RowOf
  <2>3. QED
    BY <2>1, <2>2
<1>4. CASE RtUnload(r) \/ RtUnloadFails(r)
  <2>1. req[r].pc = "rtUnload" /\ t \in Runtimes
    BY <1>4 DEF RtUnload, RtUnloadFails, TypeInv, Resolved, Row
  <2>2. PICK s \in {"stopped", "stopping"} : live' = [live EXCEPT ![t][id] = s]
    BY <1>4 DEF RtUnload, RtUnloadFails
  <2>3. \A u \in Runtimes : live'[u][id] = IF u = t THEN s ELSE live[u][id]
    BY <1>1, <2>1, <2>2
  <2>4. QED
    BY <2>1, <2>3
<1>5. CASE \/ GetLock(r) \/ Acquire(r) \/ Busy(r) \/ WriteRow(r) \/ WriteRefused(r)
           \/ SetStarting(r) \/ SetLoaded(r) \/ SetStopping(r) \/ SetStopped(r)
           \/ DeleteRow(r) \/ DropLock(r)
  BY <1>5 DEF GetLock, Acquire, Busy, WriteRow, WriteRefused, SetStarting, SetLoaded,
              SetStopping, SetStopped, DeleteRow, DropLock
<1>6. QED
  BY <1>2, <1>3, <1>4, <1>5 DEF Step

(* A step of one request, seen by the other requests and models.           *)
LEMMA HonestStep ==
  ASSUME "runtime" \notin Fields, TypeInv, ZombieInv, OnePerModel, HonestInv,
         NEW r \in Reqs, Step(r)
  PROVE  HonestInv'
<1>1. /\ req[r].pc # "idle" /\ req[r].id \in Ids /\ \A q \in Reqs \ {r} : req'[q] = req[q]
      /\ \A id \in Ids : id # req[r].id =>
           rows'[id] = rows[id] /\ \A t \in Runtimes : live'[t][id] = live[t][id]
  BY StepLocal
<1>2. phase \in {"serving", "exited"} /\ phase = "serving"
  BY <1>1 DEF HonestInv, Down, TypeInv, TypeOK
<1>3. UNCHANGED phase
  BY DEF Step, GetLock, Acquire, Busy, WriteRow, WriteRefused, SetStarting, RtLoad, RtLoaded,
         RtLoadFails, SetLoaded, SetStopping, RtUnload, RtUnloadFails, SetStopped, DeleteRow, DropLock
<1>4. \A q \in Reqs \ {r} : req[q].id # req[r].id
  BY <1>1, NullAssumption DEF OnePerModel
<1>5. IsRow(rows[req[r].id]) /\ ~Writing(r) => Honest(req[r].id)
  <2>1. AtRest(req[r].id)
    BY <1>1 DEF HonestInv
  <2>2. QED
    BY <1>2, <1>4, <2>1 DEF AtRest
<1>6. Working(r)
  BY DEF HonestInv
<1>7. ASSUME NEW t \in Runtimes, live[t][req[r].id] = "starting"
      PROVE  req[r].pc = "rtLoading"
  <2>1. PICK q \in Reqs : req[q].id = req[r].id /\ req[q].pc = "rtLoading"
    BY <1>1, <1>7 DEF HonestInv, Loading
  <2>2. QED
    BY <1>4, <2>1
<1>8. LiveOf(r) = "starting" => req[r].pc = "rtLoading"
  <2>1. req[r].m.runtime \in Runtimes
    BY <1>1 DEF TypeInv, Resolved, Row
  <2>2. QED
    BY <1>7, <2>1 DEF LiveOf
<1>9. ASSUME NEW id \in Ids, id = req[r].id
      PROVE  Working(r)' /\ (IsRow(rows'[id]) => Writing(r)' \/ Honest(id)')
  BY <1>5, <1>6, <1>8, <1>9, HonestLocal
<1>10. req'[r].id = req[r].id \/ req'[r].pc = "idle"
  <2>1. req \in [Reqs -> Request]
    BY DEF TypeInv, TypeOK
  <2>2. CASE GetLock(r) \/ Acquire(r) \/ Busy(r) \/ WriteRow(r) \/ WriteRefused(r)
    <3>1. CASE GetLock(r)
      BY <2>1, <3>1 DEF GetLock, Request
    <3>2. CASE Acquire(r)
      BY <2>1, <3>2 DEF Acquire, Goto, Request
    <3>3. CASE Busy(r) \/ WriteRow(r) \/ WriteRefused(r)
      BY <3>3, ReturnEffect DEF Busy, WriteRow, WriteRefused
    <3>4. QED
      BY <2>2, <3>1, <3>2, <3>3
  <2>3. CASE SetStarting(r) \/ RtLoad(r) \/ RtLoaded(r) \/ RtLoadFails(r) \/ SetLoaded(r)
    BY <2>1, <2>3 DEF SetStarting, RtLoad, RtLoaded, RtLoadFails, SetLoaded, Goto, Return, Idle, Request
  <2>4. CASE \/ SetStopping(r) \/ RtUnload(r) \/ RtUnloadFails(r) \/ SetStopped(r)
             \/ DeleteRow(r) \/ DropLock(r)
    BY <2>1, <2>4 DEF SetStopping, RtUnload, RtUnloadFails, SetStopped, DeleteRow, DropLock,
                      Goto, Return, Idle, Request
  <2>5. QED
    BY <2>2, <2>3, <2>4 DEF Step
<1>11. ASSUME NEW id \in Ids PROVE AtRest(id)'
  <2>1. CASE id = req[r].id
    <3>1. Writing(r)' => req'[r].id = id
      BY <1>10, <2>1 DEF Writing
    <3>2. QED
      BY <1>9, <2>1, <3>1 DEF AtRest
  <2>2. CASE id # req[r].id
    <3>1. Honest(id) => rows[id].runtime \in Runtimes \/ ~IsRow(rows[id])
      BY DEF TypeInv, TypeOK, IsRow, Row
    <3>2. \A q \in Reqs : q # r => req'[q] = req[q]
      BY <1>1
    <3>3. (\A q \in Reqs : req'[q].id = id => ~Writing(q)') =>
            \A q \in Reqs : req[q].id = id => ~Writing(q)
      BY <2>2, <3>2 DEF Writing
    <3>4. AtRest(id)
      BY DEF HonestInv
    <3>5. IsRow(rows[id]) /\ Honest(id) => Honest(id)'
      <4>1. rows'[id] = rows[id] /\ \A t \in Runtimes : live'[t][id] = live[t][id]
        BY <1>1, <2>2
      <4>2. QED
        BY <3>1, <4>1 DEF Honest
    <3>6. QED
      BY <1>1, <1>2, <1>3, <2>2, <3>3, <3>4, <3>5 DEF AtRest
  <2>3. QED
    BY <2>1, <2>2
<1>12. ASSUME NEW q \in Reqs PROVE Working(q)'
  <2>1. CASE q = r
    BY <1>1, <1>9, <2>1
  <2>2. CASE q # r
    <3>1. req'[q] = req[q] /\ Working(q) /\ req[q].id # req[r].id
      BY <1>1, <1>4, <2>2 DEF HonestInv
    <3>2. req[q].pc # "idle" => req[q].id \in Ids /\ req[q].m.runtime \in Runtimes
      BY DEF TypeInv, Resolved, Row
    <3>3. QED
      BY <1>1, <3>1, <3>2 DEF Working, RowOf, LiveOf
  <2>3. QED
    BY <2>1, <2>2
<1>13. Loading'
  <2>1. SUFFICES ASSUME NEW t \in Runtimes, NEW id \in Ids, live'[t][id] = "starting"
                 PROVE  \E q \in Reqs : req'[q].id = id /\ req'[q].pc = "rtLoading"
    BY DEF Loading
  <2>2. CASE id = req[r].id
    BY <1>7, <2>1, <2>2, LoadingLocal
  <2>3. CASE id # req[r].id
    BY <1>1, <2>1, <2>3 DEF HonestInv, Loading
  <2>4. QED
    BY <2>2, <2>3
<1>14. Fresh'
  <2>1. SUFFICES ASSUME NEW id \in Ids, rows'[id] = Unused
                 PROVE  \A t \in Runtimes : live'[t][id] = "stopped"
    BY DEF Fresh
  <2>2. CASE id # req[r].id
    BY <1>1, <2>1, <2>2 DEF HonestInv, Fresh
  <2>3. CASE id = req[r].id
    <3>1. ~IsRow(rows[id])
      BY <2>1, StepMoves, RowAssumption DEF RowsMove, IsRow
    <3>2. DropLock(r)
      <4>1. req[r].pc = "dropLock"
        BY <1>1, <2>3, <3>1 DEF ZombieInv, CopyRight, RowOf
      <4>2. QED
        BY <4>1 DEF Step, GetLock, Acquire, Busy, WriteRow, WriteRefused, SetStarting, RtLoad,
                    RtLoaded, RtLoadFails, SetLoaded, SetStopping, RtUnload, RtUnloadFails,
                    SetStopped, DeleteRow
    <3>3. QED
      BY <2>1, <3>2 DEF DropLock, HonestInv, Fresh
  <2>4. QED
    BY <2>2, <2>3
<1>15. QED
  BY <1>2, <1>3, <1>11, <1>12, <1>13, <1>14 DEF HonestInv, Down

LEMMA HonestNext ==
  ASSUME "runtime" \notin Fields, "cancel" \notin Faults, TypeInv, ZombieInv, OnePerModel,
         HonestInv, [Next]_vars
  PROVE  HonestInv'
<1>1. \A r \in Reqs : Working(r) /\ (req[r].pc # "idle" => req[r].id \in Ids)
  BY DEF HonestInv, TypeInv, Resolved
<1>2. ASSUME NEW id \in Ids, Create(id) PROVE HonestInv'
  <2>1. /\ UNCHANGED <<live, req, phase>> /\ rows'[id].status = "stopped"
        /\ \A i \in Ids : i # id => rows'[i] = rows[i]
        /\ ~IsRow(rows[id])
    BY <1>2 DEF Create, IsRow, TypeInv, TypeOK
  <2>2. rows'[id].runtime \in Runtimes /\ \A t \in Runtimes : live[t][id] = "stopped"
    BY <1>2 DEF Create, HonestInv, Fresh, TypeInv, TypeOK
  <2>3. AtRest(id)'
    BY <2>1, <2>2 DEF AtRest, Honest, MayReport
  <2>4. ASSUME NEW i \in Ids, i # id PROVE AtRest(i)'
    BY <2>1, <2>4 DEF HonestInv, AtRest, Honest, Writing
  <2>5. ASSUME NEW r \in Reqs PROVE Working(r)'
    BY <1>1, <2>1 DEF ZombieInv, CopyRight, Working, RowOf, LiveOf
  <2>6. rows'[id] # Unused
    BY <1>2, RowAssumption DEF Create, Row, TypeInv, TypeOK, Statuses
  <2>7. Loading' /\ Fresh'
    BY <2>1, <2>6 DEF HonestInv, Loading, Fresh
  <2>8. QED
    BY <2>1, <2>3, <2>4, <2>5, <2>7 DEF HonestInv, Down
<1>3. ASSUME NEW r \in Reqs, NEW id \in Ids, NEW op \in Ops, Resolve(r, op, id)
      PROVE  HonestInv'
  <2>1. UNCHANGED <<rows, live, phase>> /\ phase = "serving" /\ req[r].pc = "idle"
    BY <1>3 DEF Resolve
  <2>2. /\ req'[r].id = id /\ req'[r].m = rows[id] /\ req'[r].pc = "lock" /\ ~req'[r].cancelled
        /\ \A q \in Reqs \ {r} : req'[q] = req[q]
    BY <1>3 DEF Resolve, Idle, TypeInv, TypeOK
  <2>3. ASSUME NEW i \in Ids PROVE AtRest(i)'
    <3>1. \A q \in Reqs : req[q].id = i /\ Writing(q) => req'[q].id = i /\ Writing(q)'
      BY <2>1, <2>2 DEF Writing
    <3>2. AtRest(i)
      BY DEF HonestInv
    <3>3. QED
      BY <2>1, <3>1, <3>2 DEF AtRest, Honest
  <2>4. ASSUME NEW q \in Reqs PROVE Working(q)'
    BY <1>1, <2>1, <2>2 DEF Working, RowOf, LiveOf
  <2>5. Loading' /\ Fresh'
    <3>1. \A q \in Reqs : req[q].pc = "rtLoading" => req'[q] = req[q]
      BY <2>1, <2>2
    <3>2. QED
      BY <2>1, <3>1 DEF HonestInv, Loading, Fresh
  <2>6. QED
    BY <2>1, <2>3, <2>4, <2>5 DEF HonestInv, Down
<1>4. ASSUME NEW r \in Reqs, Step(r) PROVE HonestInv'
  BY <1>4, HonestStep
<1>5. ASSUME NEW r \in Reqs, Cancel(r) PROVE HonestInv'
  BY <1>5 DEF Cancel
<1>6. ASSUME NEW t \in Runtimes, NEW id \in Ids, Crash(t, id) PROVE HonestInv'
  <2>1. UNCHANGED <<rows, req, phase>>
    BY <1>6 DEF Crash
  <2>2. \A u \in Runtimes, i \in Ids :
          live'[u][i] = live[u][i] \/ (live[u][i] = "running" /\ live'[u][i] = "failed")
    BY <1>6 DEF Crash, TypeInv, TypeOK
  <2>3. ASSUME NEW i \in Ids PROVE AtRest(i)'
    <3>1. IsRow(rows[i]) => rows[i].runtime \in Runtimes
      BY DEF TypeInv, TypeOK, IsRow, Row
    <3>2. IsRow(rows[i]) /\ Honest(i) => Honest(i)'
      <4>1. IsRow(rows[i]) => rows[i].status \in Statuses
        BY DEF TypeInv, TypeOK, IsRow, Row
      <4>2. \A s \in Statuses : "running" \in MayReport(s) => "failed" \in MayReport(s)
        BY DEF MayReport, Statuses
      <4>3. QED
        BY <2>1, <2>2, <3>1, <4>1, <4>2 DEF Honest
    <3>3. QED
      BY <2>1, <3>2 DEF HonestInv, AtRest, Writing
  <2>4. ASSUME NEW r \in Reqs PROVE Working(r)'
    <3>1. req[r].pc # "idle" => req[r].m.runtime \in Runtimes
      BY DEF TypeInv, Resolved, Row
    <3>2. QED
      BY <1>1, <2>1, <2>2, <3>1 DEF Working, RowOf, LiveOf
  <2>5. live[t][id] = "running"
    BY <1>6 DEF Crash
  <2>6. Loading' /\ Fresh'
    BY <2>1, <2>2 DEF HonestInv, Loading, Fresh
  <2>7. QED
    BY <2>1, <2>3, <2>4, <2>5, <2>6 DEF HonestInv, Down
<1>7. CASE Shutdown \/ ShutdownExpired \/ ServerDies
  <2>1. /\ phase' = "exited" /\ \A r \in Reqs : req'[r] = Idle
        /\ \A t \in Runtimes, id \in Ids : live'[t][id] = "stopped"
    BY <1>7 DEF Shutdown, ShutdownExpired, ServerDies, ServerGone
  <2>2. QED
    BY <2>1 DEF HonestInv, AtRest, Working, Loading, Fresh, Down, Idle
<1>8. CASE Boot
  <2>1. UNCHANGED <<live, req>> /\ rows' = AllStopped /\ phase' = "serving" /\ phase = "exited"
    BY <1>8 DEF Boot
  <2>2. /\ \A t \in Runtimes, id \in Ids : live[t][id] = "stopped"
        /\ \A r \in Reqs : req[r].pc = "idle"
    BY <2>1 DEF HonestInv, Down
  <2>3. \A id \in Ids : IsRow(rows'[id]) => rows'[id].status = "stopped"
    <3>1. \A id \in Ids : IsRow(AllStopped[id]) => IsRow(rows[id])
      BY DEF AllStopped
    <3>2. QED
      BY <2>1, <3>1, AllStoppedEffect
  <2>4. ASSUME NEW id \in Ids PROVE AtRest(id)'
    <3>1. IsRow(rows'[id]) => rows'[id].runtime \in Runtimes
      BY <2>1, AllStoppedType DEF IsRow, Row
    <3>2. QED
      BY <2>1, <2>2, <2>3, <3>1 DEF AtRest, Honest, MayReport
  <2>5. \A r \in Reqs : Working(r)'
    BY <1>1, <2>1, <2>2 DEF Working
  <2>6. QED
    BY <2>1, <2>2, <2>4, <2>5 DEF HonestInv, Loading, Fresh, Down
<1>9. CASE UNCHANGED vars
  BY <1>9 DEF vars, HonestInv, AtRest, Honest, Writing, Working, RowOf, LiveOf, Loading, Fresh, Down
<1>10. QED
  BY <1>2, <1>3, <1>4, <1>5, <1>6, <1>7, <1>8, <1>9 DEF Next

LEMMA HonestInit == Init => HonestInv
  BY DEF Init, Idle, IsRow, HonestInv, AtRest, Working, Loading, Fresh, Down

(* Under the same conditions and when no request is cancelled, the table   *)
(* is right about every model at rest, also after a load or an unload that *)
(* failed, a crash of the server, and a restart (service.go 259-306, 340-373). *)
THEOREM StatusesHonest ==
  "runtime" \notin Fields /\ "cancel" \notin Faults
    => (Spec /\ []OnePerModel => []StatusHonest)
<1> SUFFICES ASSUME "runtime" \notin Fields, "cancel" \notin Faults
             PROVE  Spec /\ []OnePerModel => []StatusHonest
  OBVIOUS
<1>1. TypeInv /\ ZombieInv /\ OnePerModel /\ HonestInv /\ [Next]_vars => HonestInv'
  BY HonestNext
<1>2. HonestInv /\ ZombieInv => StatusHonest
  BY DEF HonestInv, ZombieInv, Clean, AtRest, Honest, StatusHonest, Quiet
<1>3. Spec /\ []OnePerModel => []ZombieInv
  BY ZombieInvariant
<1>4. QED
  BY <1>1, <1>2, <1>3, HonestInit, TypeInvariant, PTL DEF Spec
===============================================================================
