------------------------------ MODULE ModelService ------------------------------
(***************************************************************************)
(* The service layer (src/internal/service/service.go) over the registry   *)
(* of models in SQLite (src/internal/registry/registry.go): concurrent     *)
(* requests for models, the per-model lifecycle locks and the map that     *)
(* holds them, the rows, and what the runtimes have loaded.                *)
(*                                                                         *)
(* A request resolves its model to a copy of the row BEFORE it takes the   *)
(* model's lock, and works on that copy.  Every access to the database, to *)
(* the lock map or to a runtime is a step.  A runtime is seen through      *)
(* Lifecycle here: how it loads and stops a model is LlamaRuntime's part.  *)
(* IDs are random and never used again, so a deleted one stays deleted.    *)
(***************************************************************************)
EXTENDS Naturals, FiniteSets

CONSTANTS
  Ids,        \* model IDs
  Reqs,       \* concurrent requests
  Mutexes,    \* lock objects; one is reused when nothing refers to it
  Runtimes,
  Fields,     \* the columns a PATCH may set, "runtime" possibly among them
  Values,     \* what the other columns may hold
  Ops,        \* the operations requests call, a subset of AllOps
  Faults,     \* a subset of AllFaults
  Unused, Gone, NoMutex, NoId

AllOps == {"create", "update", "delete", "load", "unload", "restart"}

AllFaults ==
  {"cancel",      \* a client goes away, and its request context is cancelled
   "loadFails",   \* a runtime cannot load a model
   "unloadFails", \* a runtime cannot stop a model, which stays "stopping"
   "crash",       \* the process of a running model exits
   "overrun",     \* requests or streams outlive the 30 s the HTTP server drains for
   "serverDies"}  \* the model server is killed

ASSUME NullAssumption == NoMutex \notin Mutexes /\ NoId \notin Ids
ASSUME OpsAssumption == Ops \subseteq AllOps /\ Faults \subseteq AllFaults
ASSUME PoolAssumption == IsFiniteSet(Reqs) /\ IsFiniteSet(Mutexes)

VARIABLES
  rows,    \* the models table
  live,    \* live[t][id]: what runtime t reports for model id
  locks,   \* Service.locks: the mutex object of each model
  req,     \* the requests in flight
  phase    \* of the server: serving or exited

vars == <<rows, live, locks, req, phase>>

Columns == Fields \ {"runtime"}
Statuses == {"stopped", "starting", "running", "stopping", "failed"}
Row == [data : [Columns -> Values], runtime : Runtimes, status : Statuses]
IsRow(x) == x \notin {Unused, Gone}

ASSUME RowAssumption == Unused # Gone /\ {Unused, Gone} \cap Row = {}

\* What a PATCH sets: some of the fields, to values of their kind.
Patches ==
  UNION {{p \in [F -> Values \cup Runtimes] :
            \A f \in F : IF f = "runtime" THEN p[f] \in Runtimes ELSE p[f] \in Values} :
         F \in SUBSET Fields}
NoPatch == <<>>

\* patch is the body of an update; m the copy of the row; lock the mutex
\* object got from the map.
Idle == [op |-> "none", pc |-> "idle", id |-> NoId, patch |-> NoPatch, m |-> Unused,
         lock |-> NoMutex, cancelled |-> FALSE]

Critical == {"setStarting", "rtLoad", "rtLoading", "setRunning", "setFailed",
             "setStopping", "rtUnload", "setStopped", "writeRow", "deleteRow",
             "dropLock"}

Live(t, id) == live[t][id] \in {"starting", "running", "stopping"}
Held(x) == \E r \in Reqs : req[r].lock = x /\ req[r].pc \in Critical
Quiet(id) == \A r \in Reqs : req[r].id # id

Request ==
  [op : AllOps \cup {"none"}, pc : Critical \cup {"idle", "lock", "acquire"},
   id : Ids \cup {NoId}, patch : Patches \cup {NoPatch}, m : Row \cup {Unused},
   lock : Mutexes \cup {NoMutex}, cancelled : BOOLEAN]

Init ==
  /\ rows = [id \in Ids |-> Unused]
  /\ live = [t \in Runtimes |-> [id \in Ids |-> "stopped"]]
  /\ locks = [id \in Ids |-> NoMutex]
  /\ req = [r \in Reqs |-> Idle]
  /\ phase = "serving"

Goto(r, l)  == req' = [req EXCEPT ![r].pc = l]
Return(r)   == req' = [req EXCEPT ![r] = Idle]

\* A statement of a cancelled request does nothing and returns an error; one
\* that finds no row changes nothing.
SetStatus(r, s) ==
  rows' = IF req[r].cancelled \/ ~IsRow(rows[req[r].id]) THEN rows
          ELSE [rows EXCEPT ![req[r].id].status = s]

-------------------------------------------------------------------------------
(* Create, Resolve and the lock                                            *)

Create(id) ==
  /\ phase = "serving"
  /\ "create" \in Ops
  /\ rows[id] = Unused
  /\ \E d \in [Columns -> Values], t \in Runtimes :
       rows' = [rows EXCEPT ![id] = [data |-> d, runtime |-> t, status |-> "stopped"]]
  /\ UNCHANGED <<live, locks, req, phase>>

\* ErrNotFound otherwise.
Resolve(r, op, id) ==
  /\ phase = "serving"
  /\ req[r].pc = "idle"
  /\ IsRow(rows[id])
  /\ \E patch \in IF op = "update" THEN Patches ELSE {NoPatch} :
       req' = [req EXCEPT ![r] = [Idle EXCEPT !.op = op, !.pc = "lock", !.id = id,
                                              !.patch = patch, !.m = rows[id]]]
  /\ UNCHANGED <<rows, live, locks, phase>>

\* Service.lock: the model's mutex object, a new one if the map has none.
GetLock(r) ==
  /\ req[r].pc = "lock"
  /\ LET id == req[r].id IN
     \E x \in Mutexes :
       /\ IF locks[id] # NoMutex THEN x = locks[id]
          ELSE /\ \A i \in Ids : locks[i] # x
               /\ \A q \in Reqs : req[q].lock # x
       /\ locks' = [locks EXCEPT ![id] = x]
       /\ req' = [req EXCEPT ![r].lock = x, ![r].pc = "acquire"]
  /\ UNCHANGED <<rows, live, phase>>

FirstStep(op) ==
  CASE op = "update"               -> "writeRow"
    [] op = "delete"               -> "rtUnload"
    [] op = "load"                 -> "setStarting"
    [] op \in {"unload", "restart"} -> "setStopping"

Acquire(r) ==
  /\ req[r].pc = "acquire"
  /\ ~Held(req[r].lock)
  /\ Goto(r, FirstStep(req[r].op))
  /\ UNCHANGED <<rows, live, locks, phase>>

\* ErrModelBusy; Update and Delete wait instead.
Busy(r) ==
  /\ req[r].pc = "acquire"
  /\ req[r].op \notin {"update", "delete"}
  /\ Held(req[r].lock)
  /\ Return(r)
  /\ UNCHANGED <<rows, live, locks, phase>>

-------------------------------------------------------------------------------
(* Update                                                                  *)

\* The fields the patch names are set on the copy m.
Patched(m, patch) ==
  [m EXCEPT !.data = [f \in Columns |-> IF f \in DOMAIN patch THEN patch[f] ELSE @[f]],
            !.runtime = IF "runtime" \in DOMAIN patch THEN patch["runtime"] ELSE @]

\* Bug variant: the row is written whether or not it is still there.
WriteRowUpsert(r) ==
  /\ req[r].pc = "writeRow"
  /\ ~req[r].cancelled
  /\ rows' = [rows EXCEPT ![req[r].id] = Patched(req[r].m, req[r].patch)]
  /\ Return(r)
  /\ UNCHANGED <<live, locks, phase>>

\* Every column of the row is written from the copy, the status included.
WriteRow(r) ==
  /\ req[r].pc = "writeRow"
  /\ ~req[r].cancelled
  /\ IsRow(rows[req[r].id])
  /\ rows' = [rows EXCEPT ![req[r].id] = Patched(req[r].m, req[r].patch)]
  /\ Return(r)
  /\ UNCHANGED <<live, locks, phase>>

\* The patch is not valid, its name is taken, the row is gone or the request
\* is cancelled.
WriteRefused(r) ==
  /\ req[r].pc = "writeRow"
  /\ Return(r)
  /\ UNCHANGED <<rows, live, locks, phase>>

-------------------------------------------------------------------------------
(* Load, and the second half of Restart                                    *)

SetStarting(r) ==
  /\ req[r].pc = "setStarting"
  /\ SetStatus(r, "starting")
  /\ Goto(r, "rtLoad")
  /\ UNCHANGED <<live, locks, phase>>

\* The runtime's Load, by the runtime the copy names.  ErrAlreadyLoaded
\* returns at once, and the status stays as SetStarting left it.
RtLoad(r) ==
  /\ req[r].pc = "rtLoad"
  /\ LET t == req[r].m.runtime  id == req[r].id IN
     IF live[t][id] \in {"starting", "running"}
     THEN Return(r) /\ UNCHANGED live
     ELSE Goto(r, "rtLoading") /\ live' = [live EXCEPT ![t][id] = "starting"]
  /\ UNCHANGED <<rows, locks, phase>>

RtLoaded(r) ==
  /\ req[r].pc = "rtLoading"
  /\ LET t == req[r].m.runtime  id == req[r].id IN
     /\ live[t][id] = "starting"
     /\ live' = [live EXCEPT ![t][id] = "running"]
  /\ Goto(r, "setRunning")
  /\ UNCHANGED <<rows, locks, phase>>

\* Also when the model was unloaded meanwhile, which takes another lock: it
\* is not reported any more then.
RtLoadFails(r) ==
  /\ req[r].pc = "rtLoading"
  /\ LET t == req[r].m.runtime  id == req[r].id IN
     /\ \/ live[t][id] # "starting"
        \/ "loadFails" \in Faults
        \/ req[r].cancelled
     /\ live' = [live EXCEPT ![t][id] = IF @ = "starting" THEN "failed" ELSE @]
  /\ Goto(r, "setFailed")
  /\ UNCHANGED <<rows, locks, phase>>

SetLoaded(r) ==
  /\ \/ req[r].pc = "setRunning" /\ SetStatus(r, "running")
     \/ req[r].pc = "setFailed" /\ SetStatus(r, "failed")
  /\ Return(r)
  /\ UNCHANGED <<live, locks, phase>>

-------------------------------------------------------------------------------
(* Unload, the first half of Restart, and Delete                           *)

SetStopping(r) ==
  /\ req[r].pc = "setStopping"
  /\ SetStatus(r, "stopping")
  /\ Goto(r, "rtUnload")
  /\ UNCHANGED <<live, locks, phase>>

\* Bug variant: Delete does not unload the model.
RtUnloadNotForDelete(r) ==
  /\ req[r].pc = "rtUnload"
  /\ live' = IF req[r].op = "delete" THEN live
             ELSE [live EXCEPT ![req[r].m.runtime][req[r].id] = "stopped"]
  /\ Goto(r, IF req[r].op = "delete" THEN "deleteRow" ELSE "setStopped")
  /\ UNCHANGED <<rows, locks, phase>>

\* The runtime's Unload, by the runtime the copy names; ErrNotLoaded counts
\* as success.
RtUnload(r) ==
  /\ req[r].pc = "rtUnload"
  /\ live' = [live EXCEPT ![req[r].m.runtime][req[r].id] = "stopped"]
  /\ Goto(r, IF req[r].op = "delete" THEN "deleteRow" ELSE "setStopped")
  /\ UNCHANGED <<rows, locks, phase>>

\* Bug variant: a failed unload leaves the row as it is, like a failed delete.
RtUnloadFailsUnmarked(r) ==
  /\ "unloadFails" \in Faults
  /\ req[r].pc = "rtUnload"
  /\ LET t == req[r].m.runtime  id == req[r].id IN
     /\ live[t][id] \in {"starting", "running", "stopping"}
     /\ live' = [live EXCEPT ![t][id] = "stopping"]
  /\ Return(r)
  /\ UNCHANGED <<rows, locks, phase>>

\* Delete gives up; the others mark the row failed and return.
RtUnloadFails(r) ==
  /\ "unloadFails" \in Faults
  /\ req[r].pc = "rtUnload"
  /\ LET t == req[r].m.runtime  id == req[r].id IN
     /\ live[t][id] \in {"starting", "running", "stopping"}
     /\ live' = [live EXCEPT ![t][id] = "stopping"]
  /\ IF req[r].op = "delete" THEN Return(r) ELSE Goto(r, "setFailed")
  /\ UNCHANGED <<rows, locks, phase>>

SetStopped(r) ==
  /\ req[r].pc = "setStopped"
  /\ SetStatus(r, "stopped")
  /\ IF req[r].op = "restart" THEN Goto(r, "setStarting") ELSE Return(r)
  /\ UNCHANGED <<live, locks, phase>>

\* Bug variant: the mutex leaves the map even when the row could not be deleted.
DeleteRowAnyway(r) ==
  /\ req[r].pc = "deleteRow"
  /\ Goto(r, "dropLock")
  /\ rows' = IF req[r].cancelled \/ ~IsRow(rows[req[r].id]) THEN rows
             ELSE [rows EXCEPT ![req[r].id] = Gone]
  /\ UNCHANGED <<live, locks, phase>>

DeleteRow(r) ==
  /\ req[r].pc = "deleteRow"
  /\ IF req[r].cancelled \/ ~IsRow(rows[req[r].id])
     THEN Return(r) /\ UNCHANGED rows
     ELSE Goto(r, "dropLock") /\ rows' = [rows EXCEPT ![req[r].id] = Gone]
  /\ UNCHANGED <<live, locks, phase>>

\* The mutex leaves the map while it is held, and is released on return.
DropLock(r) ==
  /\ req[r].pc = "dropLock"
  /\ locks' = [locks EXCEPT ![req[r].id] = NoMutex]
  /\ Return(r)
  /\ UNCHANGED <<rows, live, phase>>

-------------------------------------------------------------------------------
(* The world                                                               *)

Cancel(r) ==
  /\ "cancel" \in Faults
  /\ req[r].pc # "idle"
  /\ ~req[r].cancelled
  /\ req' = [req EXCEPT ![r].cancelled = TRUE]
  /\ UNCHANGED <<rows, live, locks, phase>>

\* Nobody tells the registry.
Crash(t, id) ==
  /\ "crash" \in Faults
  /\ live[t][id] = "running"
  /\ live' = [live EXCEPT ![t][id] = "failed"]
  /\ UNCHANGED <<rows, locks, req, phase>>

AllStopped == [id \in Ids |-> IF IsRow(rows[id]) THEN [rows[id] EXCEPT !.status = "stopped"]
                              ELSE rows[id]]

ServerGone ==
  /\ phase = "serving"
  /\ phase' = "exited"
  /\ live' = [t \in Runtimes |-> [id \in Ids |-> "stopped"]]
  /\ locks' = [id \in Ids |-> NoMutex]
  /\ req' = [r \in Reqs |-> Idle]

\* The HTTP server has drained: every runtime is shut down, and the rows are
\* marked stopped.
Shutdown ==
  /\ \A r \in Reqs : req[r].pc = "idle"
  /\ ServerGone
  /\ rows' = AllStopped

\* It has not drained in 30 s, for which an open stream of logs is enough:
\* Shutdown gets the context that has expired, and its List fails.
ShutdownExpired ==
  /\ "overrun" \in Faults
  /\ ServerGone
  /\ UNCHANGED rows

ServerDies ==
  /\ "serverDies" \in Faults
  /\ ServerGone
  /\ UNCHANGED rows

\* ResetStatuses, then serve.
Boot ==
  /\ phase = "exited"
  /\ phase' = "serving"
  /\ rows' = AllStopped
  /\ UNCHANGED <<live, locks, req>>

Step(r) ==
  \/ GetLock(r) \/ Acquire(r) \/ Busy(r)
  \/ WriteRow(r) \/ WriteRefused(r)
  \/ SetStarting(r) \/ RtLoad(r) \/ RtLoaded(r) \/ RtLoadFails(r) \/ SetLoaded(r)
  \/ SetStopping(r) \/ RtUnload(r) \/ RtUnloadFails(r) \/ SetStopped(r)
  \/ DeleteRow(r) \/ DropLock(r)

Next ==
  \/ \E id \in Ids : Create(id)
  \/ \E r \in Reqs, id \in Ids, op \in Ops \ {"create"} : Resolve(r, op, id)
  \/ \E r \in Reqs : Step(r) \/ Cancel(r)
  \/ \E t \in Runtimes, id \in Ids : Crash(t, id)
  \/ Shutdown \/ ShutdownExpired \/ ServerDies \/ Boot

Spec == Init /\ [][Next]_vars

\* A handler's goroutine is scheduled, and a runtime answers.  Go's mutexes
\* hand over to a waiter that has waited for long (and TryLock fails
\* meanwhile), so one that can acquire the lock again and again does.
FairSpec ==
  /\ Spec
  /\ \A r \in Reqs : WF_vars(Step(r)) /\ SF_vars(Acquire(r))

-------------------------------------------------------------------------------
(* Properties                                                              *)

TypeOK ==
  /\ rows \in [Ids -> Row \cup {Unused, Gone}]
  /\ live \in [Runtimes -> [Ids -> Statuses]]
  /\ locks \in [Ids -> Mutexes \cup {NoMutex}]
  /\ req \in [Reqs -> Request]
  /\ phase \in {"serving", "exited"}

\* The lock of a model that is registered is held by one request at a time,
\* although Delete takes the mutex out of the map while others wait for it
\* and a later request creates another (service.go 56-65, 250-255).
LockGuardsRows ==
  \A q, r \in Reqs :
    /\ q # r /\ req[q].id = req[r].id
    /\ req[q].pc \in Critical /\ req[r].pc \in Critical
    => ~IsRow(rows[req[q].id])

\* A deleted model does not come back: an update or a status that was on its
\* way finds no row (registry.go 57-86).
DeletedStaysDeleted == [][\A id \in Ids : rows[id] = Gone => rows'[id] = Gone]_vars

\* Every request returns: it is not left waiting for a lock.
RequestsReturn == \A r \in Reqs : req[r].pc # "idle" ~> req[r].pc = "idle"

\* When nothing is in flight for a model that is not registered, no runtime
\* has it loaded: nobody could reach it to unload it (docs/api.md: DELETE is
\* "Unload and remove a model.").
NoZombie ==
  \A id \in Ids, t \in Runtimes : Live(t, id) => IsRow(rows[id]) \/ ~Quiet(id)

\* What a runtime may report of a model at rest whose row has the status.  A
\* model fails behind the row's back, and a Delete that could not stop it
\* leaves it stopping; "starting" is what a load of a loaded model leaves.
MayReport(status) ==
  CASE status = "stopped"                -> {"stopped"}
    [] status \in {"starting", "running"} -> {"running", "failed", "stopping"}
    [] status = "failed"                 -> {"failed", "stopping"}
    [] status = "stopping"               -> {}

\* When nothing is in flight for a model, its row and the runtimes agree,
\* whatever the row says and also after failed calls, crashes and restarts of
\* the server: no other runtime has the model, and its own reports what the
\* status allows.
StatusHonest ==
  \A id \in Ids : phase = "serving" /\ Quiet(id) /\ IsRow(rows[id]) =>
    /\ live[rows[id].runtime][id] \in MayReport(rows[id].status)
    /\ \A t \in Runtimes \ {rows[id].runtime} : ~Live(t, id)

\* An update changes the columns its patch names and no other (service.go 83:
\* "nil fields are left unchanged"): the old and the new row differ by a patch.
NilFieldsKept ==
  [][\A r \in Reqs : WriteRow(r) =>
       \A f \in Columns \ DOMAIN req[r].patch : rows'[req[r].id].data[f] = rows[req[r].id].data[f]]_vars

\* Shutdown marks every model stopped (service.go 422).
ShutdownMarksStopped ==
  [][Shutdown \/ ShutdownExpired
       => \A id \in Ids : IsRow(rows'[id]) => rows'[id].status = "stopped"]_vars
===============================================================================
