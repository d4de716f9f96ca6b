----------------------------- MODULE ProcessHandle -----------------------------
(***************************************************************************)
(* One child process and its handle (src/internal/process/process.go and   *)
(* sysproc_*.go): a pump goroutine for each output pipe, the goroutine     *)
(* that waits for the process, and any number of callers of Terminate.     *)
(* Lines are counted and not told apart: a pipe keeps their order.         *)
(***************************************************************************)
EXTENDS Naturals, Sequences

CONSTANTS
  Callers,   \* goroutines that may call Terminate
  PipeCap,   \* lines a pipe holds before a writer blocks
  MaxLines,  \* bound: lines written to each pipe
  Faults     \* what may go wrong, a subset of AllFaults

AllFaults ==
  {"longLine",    \* a line is longer than the pump's buffer of 1 MiB
   "helper",      \* the child starts a program that inherits its pipes
   "noConsole",   \* Windows: there is no graceful way to stop the child
   "signalFails", \* the stop signal cannot be sent, though the child runs
   "killFails"}   \* nor can the kill

ASSUME PipeAssumption == PipeCap \in Nat /\ MaxLines \in Nat
ASSUME FaultsAssumption == Faults \subseteq AllFaults

Sources == {"stdout", "stderr"}

VARIABLES
  child,     \* unstarted, running, zombie (exited, not waited for) or reaped
  status,    \* how it ended
  asked,     \* the signals sent to it
  helper,    \* whether a helper holds the write ends of the pipes
  pipe,      \* per source: what was written and not yet read
  written,   \* per source: lines written so far
  delivered, \* per source: lines given to OnLine so far
  pump,      \* per source: reading, ended or cut (by a line too long)
  waiter,    \* pumps, set, close or over, where done is closed
  err,       \* execHandle.err
  pc,        \* per caller of Terminate: where it is
  result     \* per caller: what its last call returned

outputVars == <<helper, pipe, written, delivered, pump>>
callVars   == <<pc, result>>
vars == <<child, status, asked, outputVars, waiter, err, callVars>>

Statuses == {"exit", "term", "kill"}
Done     == waiter = "over"

Init ==
  /\ child = "unstarted" /\ status = "none" /\ asked = {}
  /\ helper = FALSE
  /\ pipe = [s \in Sources |-> <<>>]
  /\ written = [s \in Sources |-> 0]
  /\ delivered = [s \in Sources |-> 0]
  /\ pump = [s \in Sources |-> "none"]
  /\ waiter = "none" /\ err = "none"
  /\ pc = [t \in Callers |-> "idle"]
  /\ result = [t \in Callers |-> "none"]

\* When cmd.Start fails there is no handle, and nothing was launched.
Start ==
  /\ child = "unstarted"
  /\ child' = "running"
  /\ pump' = [s \in Sources |-> "reading"]
  /\ waiter' = "pumps"
  /\ UNCHANGED <<status, asked, helper, pipe, written, delivered, err, callVars>>

-------------------------------------------------------------------------------
(* The child, and the helper it may leave behind                           *)

Writers == child = "running" \/ helper

Write(s) ==
  /\ Writers /\ waiter = "pumps"
  /\ written[s] < MaxLines
  /\ Len(pipe[s]) < PipeCap
  /\ \E x \in {"line"} \cup (Faults \cap {"longLine"}) :
       pipe' = [pipe EXCEPT ![s] = Append(@, x)]
  /\ written' = [written EXCEPT ![s] = @ + 1]
  /\ UNCHANGED <<child, status, asked, helper, delivered, pump, waiter, err, callVars>>

Exit ==
  /\ child = "running"
  /\ child' = "zombie"
  /\ status' \in {"exit"} \cup (asked \cap {"term"})
  /\ UNCHANGED <<asked, outputVars, waiter, err, callVars>>

Killed ==
  /\ child = "running" /\ "kill" \in asked
  /\ child' = "zombie" /\ status' = "kill"
  /\ UNCHANGED <<asked, outputVars, waiter, err, callVars>>

HelperStarts ==
  /\ "helper" \in Faults
  /\ child = "running" /\ ~helper
  /\ helper' = TRUE
  /\ UNCHANGED <<child, status, asked, pipe, written, delivered, pump, waiter, err, callVars>>

HelperExits ==
  /\ helper
  /\ helper' = FALSE
  /\ UNCHANGED <<child, status, asked, pipe, written, delivered, pump, waiter, err, callVars>>

-------------------------------------------------------------------------------
(* The pumps and the waiter                                                *)

PumpLine(s) ==
  /\ pump[s] = "reading"
  /\ pipe[s] # <<>> /\ Head(pipe[s]) = "line"
  /\ pipe' = [pipe EXCEPT ![s] = Tail(@)]
  /\ delivered' = [delivered EXCEPT ![s] = @ + 1]
  /\ UNCHANGED <<child, status, asked, helper, written, pump, waiter, err, callVars>>

\* The scanner gives up for good, and nobody reads this pipe any more.
PumpTooLong(s) ==
  /\ pump[s] = "reading"
  /\ pipe[s] # <<>> /\ Head(pipe[s]) = "longLine"
  /\ pump' = [pump EXCEPT ![s] = "cut"]
  /\ UNCHANGED <<child, status, asked, helper, pipe, written, delivered, waiter, err, callVars>>

PumpEOF(s) ==
  /\ pump[s] = "reading"
  /\ pipe[s] = <<>> /\ ~Writers
  /\ pump' = [pump EXCEPT ![s] = "ended"]
  /\ UNCHANGED <<child, status, asked, helper, pipe, written, delivered, waiter, err, callVars>>

\* Bug variant: the process is waited for while its output is still read.
PumpsFinishedAlways == TRUE

\* Bug variant: a pump that gives up forgets to say so.
PumpsFinishedAtEOF == \A s \in Sources : pump[s] = "ended"

PumpsFinished == \A s \in Sources : pump[s] # "reading"

\* cmd.Wait also closes the read ends: a pump that were still reading would
\* stop there, whatever the pipe holds.
WaitChild ==
  /\ waiter = "pumps" /\ PumpsFinished
  /\ child = "zombie"
  /\ child' = "reaped"
  /\ pump' = [s \in Sources |-> IF pump[s] = "reading" THEN "ended" ELSE pump[s]]
  /\ waiter' = "set"
  /\ UNCHANGED <<status, asked, helper, pipe, written, delivered, err, callVars>>

SetErr ==
  /\ waiter = "set"
  /\ err' = status
  /\ waiter' = "close"
  /\ UNCHANGED <<child, status, asked, outputVars, callVars>>

CloseDone ==
  /\ waiter = "close"
  /\ waiter' = "over"
  /\ UNCHANGED <<child, status, asked, outputVars, err, callVars>>

-------------------------------------------------------------------------------
(* Terminate                                                               *)

Goto(t, l) == pc' = [pc EXCEPT ![t] = l] /\ UNCHANGED result

Return(t, r) ==
  /\ pc' = [pc EXCEPT ![t] = "idle"]
  /\ result' = [result EXCEPT ![t] = r]

Terminate(t) ==
  /\ pc[t] = "idle" /\ child # "unstarted"
  /\ IF Done THEN Return(t, "nil") ELSE Goto(t, "signal")
  /\ UNCHANGED <<child, status, asked, outputVars, waiter, err>>

\* Until it is reaped a process takes signals, though a zombie ignores them;
\* then os.ErrProcessDone says so, and the caller goes on to the kill.
SignalStop(t) ==
  /\ pc[t] = "signal"
  /\ \/ /\ child # "reaped"
        /\ asked' = asked \cup {"term"}
        /\ Goto(t, "grace")
     \/ /\ child = "reaped" \/ "noConsole" \in Faults
        /\ Goto(t, "kill")
        /\ UNCHANGED asked
     \/ /\ child # "reaped" /\ "signalFails" \in Faults
        /\ Return(t, "error")
        /\ UNCHANGED asked
  /\ UNCHANGED <<child, status, outputVars, waiter, err>>

\* Bug variant: the caller is told that the process stopped.
GraceEndsAnyway(t) ==
  /\ pc[t] = "grace"
  /\ Return(t, "nil")
  /\ UNCHANGED <<child, status, asked, outputVars, waiter, err>>

\* Bug variant: after the timeout it only goes on waiting.
GraceEndsWaiting(t) ==
  /\ pc[t] = "grace"
  /\ IF Done THEN Return(t, "nil") ELSE Goto(t, "await")
  /\ UNCHANGED <<child, status, asked, outputVars, waiter, err>>

\* The timer may fire first even when done is closed already.
GraceEnds(t) ==
  /\ pc[t] = "grace"
  /\ \/ Done /\ Return(t, "nil")
     \/ Goto(t, "kill")
  /\ UNCHANGED <<child, status, asked, outputVars, waiter, err>>

Kill(t) ==
  /\ pc[t] = "kill"
  /\ \/ /\ asked' = IF child = "reaped" THEN asked ELSE asked \cup {"kill"}
        /\ Goto(t, "await")
     \/ /\ child # "reaped" /\ "killFails" \in Faults
        /\ Return(t, "error")
        /\ UNCHANGED asked
  /\ UNCHANGED <<child, status, outputVars, waiter, err>>

AwaitDone(t) ==
  /\ pc[t] = "await"
  /\ Done
  /\ Return(t, "nil")
  /\ UNCHANGED <<child, status, asked, outputVars, waiter, err>>

-------------------------------------------------------------------------------
PumpStep(s) == PumpLine(s) \/ PumpTooLong(s) \/ PumpEOF(s)
WaiterStep == WaitChild \/ SetErr \/ CloseDone
CallerStep(t) == SignalStop(t) \/ GraceEnds(t) \/ Kill(t) \/ AwaitDone(t)

Next ==
  \/ Start \/ Exit \/ Killed \/ HelperStarts \/ HelperExits
  \/ WaiterStep
  \/ \E s \in Sources : Write(s) \/ PumpStep(s)
  \/ \E t \in Callers : Terminate(t) \/ CallerStep(t)

\* The server's goroutines run, and a timer fires; the kernel ends a process
\* it was told to kill.  Whether the child or the helper ever exits by
\* itself, or heeds the stop signal, is up to them.
Fairness ==
  /\ \A s \in Sources : WF_vars(PumpStep(s))
  /\ WF_vars(WaiterStep)
  /\ WF_vars(Killed)
  /\ \A t \in Callers : WF_vars(CallerStep(t))

Spec == Init /\ [][Next]_vars /\ Fairness

-------------------------------------------------------------------------------
(* Properties                                                              *)

TypeOK ==
  /\ child \in {"unstarted", "running", "zombie", "reaped"}
  /\ status \in Statuses \cup {"none"}
  /\ asked \subseteq {"term", "kill"}
  /\ helper \in BOOLEAN
  /\ pipe \in [Sources -> Seq({"line", "longLine"})]
  /\ \A s \in Sources : Len(pipe[s]) <= PipeCap
  /\ written \in [Sources -> 0..MaxLines]
  /\ delivered \in [Sources -> 0..MaxLines]
  /\ pump \in [Sources -> {"none", "reading", "ended", "cut"}]
  /\ waiter \in {"none", "pumps", "set", "close", "over"}
  /\ err \in Statuses \cup {"none"}
  /\ pc \in [Callers -> {"idle", "signal", "grace", "kill", "await"}]
  /\ result \in [Callers -> {"none", "nil", "error"}]

\* Once done is closed the process is gone, and Err is how it ended
\* (process.go 32-34): monitor reads it then, without looking again.
DoneTells == Done => child = "reaped" /\ status # "none" /\ err = status

\* Nothing that a process wrote is lost when it exits: unless a line was too
\* long, OnLine has had every line before done is closed (process.go 25).
AllLinesDelivered ==
  Done => \A s \in Sources : pump[s] = "cut" \/ delivered[s] = written[s]

\* A caller that was told that the process terminated can rely on it.
TerminatedIsGone == \A t \in Callers : result[t] = "nil" => child = "reaped"

\* The exit of the process is noticed, whatever it printed, once no helper
\* holds its pipes.
ExitIsNoticed == child = "zombie" /\ ~helper ~> Done

\* Terminate returns, whatever the process makes of its signals, unless a
\* helper outlives it.
TerminateReturns == \A t \in Callers : pc[t] # "idle" ~> pc[t] = "idle" \/ helper

\* "Done is closed once the process has exited" (process.go 32).
DoneOnceExited == child = "zombie" ~> Done

\* "OnLine receives each line of stdout/stderr" (process.go 25).
EveryLineDelivered == Done => \A s \in Sources : delivered[s] = written[s]
===============================================================================
