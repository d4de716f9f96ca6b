------------------------------ MODULE OnnxRuntime ------------------------------
(***************************************************************************)
(* The ONNX runtime (src/internal/runtime/onnx/runtime.go and session.go): *)
(* models loaded into the server's own process, as native sessions that    *)
(* are freed by hand.                                                      *)
(*                                                                         *)
(* A client is a request in progress.  It loads, unloads or infers, and a  *)
(* step of it is one critical section.  The service serializes the loads   *)
(* and unloads of one model (service.go 297-301); nothing serializes       *)
(* inference against them.  Shutdown runs beside all of it.                *)
(***************************************************************************)
EXTENDS Naturals, FiniteSets

CONSTANTS
  Models,      \* model IDs
  TextModels,  \* those with a tokenizer: task classification or embedding
  Sessions,    \* session objects; one is reused when nothing refers to it
  Clients,     \* requests in progress
  Overrun,     \* TRUE: requests outlive the 30 s the HTTP server drains for
  NoSession, NoModel

ASSUME NullAssumption == NoSession \notin Sessions /\ NoModel \notin Models
ASSUME TextAssumption == TextModels \subseteq Models
ASSUME OverrunAssumption == Overrun \in BOOLEAN

VARIABLES
  sessions, \* Runtime.sessions
  sess,     \* the session objects
  pc, cur,  \* per client: where it is, and the session it works on
  closing,  \* the sessions that Shutdown has taken and not closed yet
  phase     \* of the server: serving, shutdown or exited

vars == <<sessions, sess, pc, cur, closing, phase>>

States == {"none", "starting", "running", "stopped", "failed"}
Labels == {"idle", "create", "publish", "close", "check", "tokenize", "ready", "run"}

\* open: sess.sess is a native session that has not been destroyed.
\* locked: runMu is held.
Blank == [owner |-> NoModel, state |-> "none", open |-> FALSE, locked |-> FALSE]

Mapped(m) == sessions[m] # NoSession

Referenced(s) ==
  \/ \E m \in Models : sessions[m] = s
  \/ \E c \in Clients : cur[c] = s
  \/ s \in closing
  \/ sess[s].open

Goto(c, l) == pc' = [pc EXCEPT ![c] = l] /\ UNCHANGED cur

At(c, l, s) ==
  /\ pc' = [pc EXCEPT ![c] = l]
  /\ cur' = [cur EXCEPT ![c] = s]

Return(c) == At(c, "idle", NoSession)

Init ==
  /\ sessions = [m \in Models |-> NoSession]
  /\ sess = [s \in Sessions |-> Blank]
  /\ pc = [c \in Clients |-> "idle"]
  /\ cur = [c \in Clients |-> NoSession]
  /\ closing = {}
  /\ phase = "serving"

Arrives(c) ==
  /\ pc[c] = "idle"
  /\ phase = "serving" \/ (phase = "shutdown" /\ Overrun)

\* The model's lock in the service is held by another load or unload.
Locked(m) ==
  \E c \in Clients : pc[c] \in {"create", "publish", "close"} /\ sess[cur[c]].owner = m

-------------------------------------------------------------------------------
(* Load                                                                    *)

\* Bug variant: a load never looks at what is there.
ReplaceableAlways(m) == TRUE

\* Otherwise Load returns ErrAlreadyLoaded, and nothing has changed.
Replaceable(m) == Mapped(m) => sess[sessions[m]].state # "running"

\* What Status reports while the session is being created.
Placeholder(m) == [Blank EXCEPT !.owner = m, !.state = "starting"]

BeginLoad(c, m, s) ==
  /\ Arrives(c) /\ ~Locked(m)
  /\ Replaceable(m)
  /\ ~Referenced(s)
  /\ sess' = [sess EXCEPT ![s] = Placeholder(m)]
  /\ sessions' = [sessions EXCEPT ![m] = s]
  /\ At(c, "create", s)
  /\ UNCHANGED <<closing, phase>>

\* newSession, without a lock: s is not visible to anyone yet.
Create(c, s) ==
  /\ pc[c] = "create"
  /\ ~Referenced(s)
  /\ sess' = [sess EXCEPT ![s] =
       [Blank EXCEPT !.owner = sess[cur[c]].owner, !.state = "running", !.open = TRUE]]
  /\ At(c, "publish", s)
  /\ UNCHANGED <<sessions, closing, phase>>

CreateFails(c) ==
  /\ pc[c] = "create"
  /\ sess' = [sess EXCEPT ![cur[c]].state = "failed"]
  /\ Return(c)
  /\ UNCHANGED <<sessions, closing, phase>>

Publish(c) ==
  /\ pc[c] = "publish"
  /\ sessions' = [sessions EXCEPT ![sess[cur[c]].owner] = cur[c]]
  /\ Return(c)
  /\ UNCHANGED <<sess, closing, phase>>

-------------------------------------------------------------------------------
(* Unload                                                                  *)

\* Without an entry Unload returns ErrNotLoaded.
BeginUnload(c, m) ==
  /\ Arrives(c) /\ ~Locked(m)
  /\ Mapped(m)
  /\ sessions' = [sessions EXCEPT ![m] = NoSession]
  /\ At(c, "close", sessions[m])
  /\ UNCHANGED <<sess, closing, phase>>

Closed(s) == [sess EXCEPT ![s].state = "stopped", ![s].open = FALSE]

\* Bug variant: the native session is destroyed without runMu.
CanCloseAlways(s) == TRUE

\* close takes runMu, so it waits for the inference in progress.
CanClose(s) == ~sess[s].locked

Close(c) ==
  /\ pc[c] = "close"
  /\ CanClose(cur[c])
  /\ sess' = Closed(cur[c])
  /\ Return(c)
  /\ UNCHANGED <<sessions, closing, phase>>

-------------------------------------------------------------------------------
(* Infer                                                                   *)

\* The session is looked up under mu and used after it.
BeginInfer(c, m) ==
  /\ Arrives(c)
  /\ Mapped(m)
  /\ At(c, "check", sessions[m])
  /\ UNCHANGED <<sessions, sess, closing, phase>>

\* A session that is not running is ErrNotLoaded, an input of the wrong form
\* an ErrValidation.
Check(c) ==
  /\ pc[c] = "check"
  /\ \/ Return(c)
     \/ /\ sess[cur[c]].state = "running"
        /\ Goto(c, IF sess[cur[c]].owner \in TextModels THEN "tokenize" ELSE "ready")
  /\ UNCHANGED <<sessions, sess, closing, phase>>

Tokenize(c) ==
  /\ pc[c] = "tokenize"
  /\ Goto(c, "ready") \/ Return(c)
  /\ UNCHANGED <<sessions, sess, closing, phase>>

\* Under runMu a closed session is ErrNotLoaded.
BeginRun(c) ==
  /\ pc[c] = "ready"
  /\ ~sess[cur[c]].locked
  /\ IF sess[cur[c]].open
       THEN sess' = [sess EXCEPT ![cur[c]].locked = TRUE] /\ Goto(c, "run")
       ELSE Return(c) /\ UNCHANGED sess
  /\ UNCHANGED <<sessions, closing, phase>>

\* Bug variant: a run that fails returns before the unlock.
EndRunLocked(c) ==
  /\ pc[c] = "run"
  /\ sess' \in {sess, [sess EXCEPT ![cur[c]].locked = FALSE]}
  /\ Return(c)
  /\ UNCHANGED <<sessions, closing, phase>>

EndRun(c) ==
  /\ pc[c] = "run"
  /\ sess' = [sess EXCEPT ![cur[c]].locked = FALSE]
  /\ Return(c)
  /\ UNCHANGED <<sessions, closing, phase>>

-------------------------------------------------------------------------------
(* Shutdown and the whole runtime                                          *)

\* Bug variant: the runtimes are shut down before the HTTP server.
DrainedNever == TRUE

\* http.Server.Shutdown returned: without error, no request is in progress.
Drained == Overrun \/ \A c \in Clients : pc[c] = "idle"

BeginShutdown ==
  /\ phase = "serving"
  /\ Drained
  /\ closing' = {s \in Sessions : \E m \in Models : sessions[m] = s}
  /\ sessions' = [m \in Models |-> NoSession]
  /\ phase' = "shutdown"
  /\ UNCHANGED <<sess, pc, cur>>

ShutdownClose(s) ==
  /\ s \in closing
  /\ CanClose(s)
  /\ sess' = Closed(s)
  /\ closing' = closing \ {s}
  /\ UNCHANGED <<sessions, pc, cur, phase>>

EndShutdown ==
  /\ phase = "shutdown"
  /\ closing = {}
  /\ phase' = "exited"
  /\ UNCHANGED <<sessions, sess, pc, cur, closing>>

\* The process is gone, and a new one serves with nothing loaded.
Boot ==
  /\ phase = "exited"
  /\ sessions' = [m \in Models |-> NoSession]
  /\ sess' = [s \in Sessions |-> Blank]
  /\ pc' = [c \in Clients |-> "idle"]
  /\ cur' = [c \in Clients |-> NoSession]
  /\ phase' = "serving"
  /\ UNCHANGED closing

Begin(c) ==
  \E m \in Models : BeginUnload(c, m) \/ BeginInfer(c, m) \/ \E s \in Sessions : BeginLoad(c, m, s)

Step(c) ==
  /\ phase # "exited"
  /\ \/ \E s \in Sessions : Create(c, s)
     \/ CreateFails(c) \/ Publish(c) \/ Close(c)
     \/ Check(c) \/ Tokenize(c) \/ BeginRun(c) \/ EndRun(c)

Next ==
  \/ \E c \in Clients : Begin(c) \/ Step(c)
  \/ BeginShutdown
  \/ \E s \in Sessions : ShutdownClose(s)
  \/ EndShutdown
  \/ Boot

Spec == Init /\ [][Next]_vars

\* Goroutines are scheduled, a run of the model ends, and a mutex that becomes
\* free again and again is not withheld from a goroutine for ever (a Go mutex
\* hands itself to a waiter that has been starved for a millisecond).
Fairness ==
  /\ \A c \in Clients : SF_vars(Step(c))
  /\ \A s \in Sessions : SF_vars(ShutdownClose(s))
  /\ WF_vars(EndShutdown)

FairSpec == Spec /\ Fairness

-------------------------------------------------------------------------------
(* Properties                                                              *)

SessionType ==
  [owner : Models \cup {NoModel}, state : States, open : BOOLEAN, locked : BOOLEAN]

Types ==
  /\ sessions \in [Models -> Sessions \cup {NoSession}]
  /\ sess \in [Sessions -> SessionType]
  /\ pc \in [Clients -> Labels]
  /\ cur \in [Clients -> Sessions \cup {NoSession}]
  /\ closing \subseteq Sessions
  /\ phase \in {"serving", "shutdown", "exited"}

HasSession ==
  \A c \in Clients : pc[c] # "idle" <=> cur[c] # NoSession

\* The types of the state; no request works on a nil session.
TypeOK == Types /\ HasSession

\* The native session is never destroyed under an inference, nor run after it
\* has been destroyed: Infer looks the session up before it uses it, and an
\* unload or a shutdown may come between (runtime.go 228-234, session.go
\* 137-149 and 290-297).
NoUseAfterDestroy ==
  \A c \in Clients : pc[c] = "run" => sess[cur[c]].open

\* Every native session has someone who can still free it: the map (a later
\* unload or shutdown), the load that is about to publish it, or the unload or
\* shutdown that has taken it out of the map.
OpenTracked ==
  \A s \in Sessions : sess[s].open =>
    \/ \E m \in Models : sessions[m] = s
    \/ \E c \in Clients : pc[c] \in {"publish", "close"} /\ cur[c] = s
    \/ s \in closing

\* A model that Status reports as running is served by its own open session.
RunningMeansOpen ==
  \A m \in Models : Mapped(m) /\ sess[sessions[m]].state = "running"
    => sess[sessions[m]].open /\ sess[sessions[m]].owner = m

\* The tokenizer of a session is used by one request at a time: runMu is
\* there because it "isn't guaranteed to be" thread-safe (session.go 33).
TokenizerExclusive ==
  \A c, d \in Clients :
    pc[c] = "tokenize" /\ pc[d] = "tokenize" /\ cur[c] = cur[d] => c = d

\* "Shutdown unloads everything" (runtime.go 79 of the runtime interface).
ShutdownClosesAll == phase = "exited" => \A s \in Sessions : ~sess[s].open

\* Load, Unload and Infer return: an unload waits for the inference in
\* progress and for those that queue before it, and for no more.
CallsReturn == \A c \in Clients : pc[c] # "idle" ~> pc[c] = "idle"
===============================================================================
