---------------------------- MODULE RuntimeLogStream ----------------------------
(***************************************************************************)
(* The log of a runtime from the server to the screen: the event stream of *)
(* the API (src/internal/api/server.go, streamRuntimeLogs), the client     *)
(* that keeps it open (src/web/src/lib/api.ts, streamRuntimeLogs), the     *)
(* panel that shows it (src/web/src/components/RuntimeLogs.tsx), and the   *)
(* life of the server process under them (src/internal/cli/serve.go,       *)
(* runServe), which waits for open streams when it shuts down.             *)
(*                                                                         *)
(* The panel and the client are one thread: each handler is one step.  The *)
(* browser's EventSource is external; it reports nothing after close().    *)
(* Its error event comes with one of two states: CONNECTING (the browser   *)
(* dials again by itself) and CLOSED (it gave up, e.g. on an HTTP error).  *)
(* The log is as LogStore promises: the most recent lines, and a           *)
(* subscriber that gets every new line unless its channel is full.         *)
(*                                                                         *)
(* Left out: labels and error texts, and how long a retry waits.           *)
(***************************************************************************)
EXTENDS Naturals, Sequences

CONSTANTS
  Cap,        \* lines a buffer keeps (logs.lines_per_model)
  Replay,     \* lines a snapshot asks for (500 in the code)
  QueueCap,   \* lines the handler's channel holds (256 in the code)
  WireCap,    \* events on their way before the handler's write blocks
  MaxShown,   \* MAX_LINES of the panel (500 in the code)
  MaxLines,   \* bound of the model: lines logged by one server
  MaxBoots,   \* bound of the model: servers, one after the other
  MaxFaults   \* bound of the model: faults of the network and HTTP errors

ASSUME BoundAssumption ==
  /\ {Cap, Replay, QueueCap, MaxShown, MaxLines, MaxBoots} \subseteq Nat \ {0}
  /\ WireCap \in Nat /\ WireCap >= 2
  /\ MaxFaults \in Nat

VARIABLES
  phase,   \* runServe: "up", "draining", "closing" or "down"
  expired, \* shutdownCtx has expired before a.Close was called
  boot,    \* number of the server
  count,   \* lines this server has logged
  conn,    \* the stream's handler: its channel, and the events under way
  es,      \* source, the EventSource: "none", "connecting", "open",
           \* or "waiting" to be dialled again by the browser
  retryTimer, \* it is armed
  wanted,  \* the panel is open and not paused
  shown,   \* lines of the panel
  faults   \* faults so far

process == <<phase, expired, boot, count>>
client == <<es, retryTimer, wanted, shown>>
vars == <<process, conn, client, faults>>

Line == [boot : 1 .. MaxBoots, n : 1 .. MaxLines]

\* The last k lines of the server's log, all of them if there are fewer.
Recent(k) ==
  LET first == IF count > k THEN count - k ELSE 0
  IN  [i \in 1 .. count - first |-> [boot |-> boot, n |-> first + i]]

\* Array.slice(-k).
LastOf(seq, k) == IF Len(seq) > k THEN SubSeq(seq, Len(seq) - k + 1, Len(seq)) ELSE seq

Least(a, b) == IF a < b THEN a ELSE b

NoConn == [live |-> FALSE, queue |-> <<>>, wire |-> <<>>, dropped |-> FALSE]

Event(kind, seq) == [kind |-> kind, lines |-> seq]

Events == [kind : {"open", "snapshot", "line"}, lines : Seq(Line)]

\* The panel is hidden or paused when the server starts; booting logs a line
\* about the runtime.
Init ==
  /\ phase = "up" /\ expired = FALSE /\ boot = 1 /\ count = 1
  /\ conn = NoConn
  /\ es = "none" /\ retryTimer = FALSE /\ wanted = FALSE /\ shown = <<>>
  /\ faults = 0

-------------------------------------------------------------------------------
(* The client                                                              *)

\* onerror with readyState CONNECTING leaves the rest to the browser.
Reconnecting == es' = "waiting" /\ UNCHANGED retryTimer

\* Bug variant: every error is left to the browser.
GivesUpUnnoticed == es' = "none" /\ UNCHANGED retryTimer

\* onerror with readyState CLOSED: the source is dropped and a retry armed.
Closed == es' = "none" /\ retryTimer' = TRUE

OnError == (Reconnecting \/ Closed) /\ UNCHANGED <<wanted, shown>>

\* setTimeout's callback: connect().
TimerFires ==
  /\ retryTimer
  /\ retryTimer' = FALSE /\ es' = "connecting"
  /\ UNCHANGED <<process, conn, wanted, shown, faults>>

Redial ==
  /\ es = "waiting"
  /\ es' = "connecting"
  /\ UNCHANGED <<process, conn, retryTimer, wanted, shown, faults>>

\* The panel is shown or resumed: its effect clears the lines and subscribes.
Show ==
  /\ ~wanted
  /\ wanted' = TRUE /\ shown' = <<>> /\ es' = "connecting"
  /\ UNCHANGED <<process, conn, retryTimer, faults>>

\* Bug variant: the retry is not cleared.
HideKeepsRetry ==
  /\ wanted
  /\ wanted' = FALSE /\ es' = "none"
  /\ conn' = NoConn
  /\ UNCHANGED <<process, retryTimer, shown, faults>>

\* Hidden or paused: the effect's cleanup stops timer and source.  The
\* server sees the request's context end.
Hide ==
  /\ wanted
  /\ wanted' = FALSE /\ retryTimer' = FALSE /\ es' = "none"
  /\ conn' = NoConn
  /\ UNCHANGED <<process, shown, faults>>

\* Bug variant: a snapshot is added to the lines that are shown.
SnapshotAdded(seq) == shown' = LastOf(shown \o seq, MaxShown)

OnSnapshot(seq) == shown' = LastOf(seq, MaxShown)

OnLine(seq) == shown' = LastOf(shown \o seq, MaxShown)

Receive ==
  /\ conn.wire # <<>>
  /\ LET e == Head(conn.wire) IN
     \/ e.kind = "open" /\ es' = "open" /\ UNCHANGED shown
     \/ e.kind = "snapshot" /\ OnSnapshot(e.lines) /\ UNCHANGED es
     \/ e.kind = "line" /\ OnLine(e.lines) /\ UNCHANGED es
  /\ conn' = [conn EXCEPT !.wire = Tail(@)]
  /\ UNCHANGED <<process, retryTimer, wanted, faults>>

-------------------------------------------------------------------------------
(* The connection                                                          *)

Dialing == es = "connecting" /\ ~conn.live

\* SubscribeWithReplay, the headers and the snapshot.
Accept ==
  /\ Dialing /\ phase = "up"
  /\ conn' = [NoConn EXCEPT !.live = TRUE,
       !.wire = <<Event("open", <<>>), Event("snapshot", Recent(Least(Replay, Cap)))>>]
  /\ UNCHANGED <<process, client, faults>>

\* An HTTP error (401, 404, a proxy's 502): CLOSED.
Refuse ==
  /\ Dialing /\ phase = "up" /\ faults < MaxFaults
  /\ faults' = faults + 1
  /\ Closed
  /\ UNCHANGED <<process, conn, wanted, shown>>

\* The address does not answer, as always once the drain has begun: browsers
\* differ in which error they make of it.
Unreachable ==
  /\ Dialing
  /\ IF phase # "up" THEN UNCHANGED faults
     ELSE faults < MaxFaults /\ faults' = faults + 1
  /\ OnError
  /\ UNCHANGED <<process, conn>>

\* The connection is cut, and the handler's context ends.
Break ==
  /\ conn.live /\ faults < MaxFaults
  /\ faults' = faults + 1
  /\ conn' = NoConn
  /\ OnError
  /\ UNCHANGED process

-------------------------------------------------------------------------------
(* The server                                                              *)

\* A line is logged: it goes into the channel of the stream unless it is full.
LogLine ==
  /\ phase # "down" /\ count < MaxLines
  /\ count' = count + 1
  /\ conn' = IF ~conn.live THEN conn
             ELSE IF Len(conn.queue) < QueueCap
                  THEN [conn EXCEPT !.queue = Append(@, [boot |-> boot, n |-> count + 1])]
                  ELSE [conn EXCEPT !.dropped = TRUE]
  /\ UNCHANGED <<phase, expired, boot, client, faults>>

\* The handler's loop sends the next line.
StreamLine ==
  /\ conn.queue # <<>> /\ Len(conn.wire) < WireCap
  /\ conn' = [conn EXCEPT !.queue = Tail(@),
                          !.wire = Append(@, Event("line", <<Head(conn.queue)>>))]
  /\ UNCHANGED <<process, client, faults>>

\* SIGINT or SIGTERM: srv.Shutdown closes the listener and waits.
Signalled ==
  /\ phase = "up"
  /\ phase' = "draining"
  /\ UNCHANGED <<expired, boot, count, conn, client, faults>>

\* srv.Serve fails: a.Close without a drain and with a context of its own.
ServeFails ==
  /\ phase = "up" /\ faults < MaxFaults
  /\ faults' = faults + 1
  /\ phase' = "closing"
  /\ UNCHANGED <<expired, boot, count, conn, client>>

\* srv.Shutdown returns when no connection is active.
Drained ==
  /\ phase = "draining" /\ ~conn.live
  /\ phase' = "closing"
  /\ UNCHANGED <<expired, boot, count, conn, client, faults>>

\* Bug variant: srv.Shutdown(context.Background()).
WaitsForStreams ==
  /\ phase = "draining" /\ ~conn.live
  /\ phase' = "closing" /\ expired' = TRUE
  /\ UNCHANGED <<boot, count, conn, client, faults>>

\* shutdownCtx expires after 30 s.  Shutdown does not end the context of a
\* request, and only its client ends a stream.
DrainTimesOut ==
  /\ phase = "draining" /\ conn.live
  /\ phase' = "closing" /\ expired' = TRUE
  /\ UNCHANGED <<boot, count, conn, client, faults>>

\* The process ends, after a.Close or because it was killed; the open
\* connection goes with it.
Exit ==
  /\ phase = "closing" \/ (phase \in {"up", "draining"} /\ faults < MaxFaults)
  /\ faults' = IF phase = "closing" THEN faults ELSE faults + 1
  /\ phase' = "down" /\ conn' = NoConn
  /\ IF conn.live THEN OnError ELSE UNCHANGED client
  /\ UNCHANGED <<expired, boot, count>>

\* A new server: the log is empty but for what booting says.
Boot ==
  /\ phase = "down" /\ boot < MaxBoots
  /\ phase' = "up" /\ expired' = FALSE /\ boot' = boot + 1 /\ count' = 1
  /\ UNCHANGED <<conn, client, faults>>

-------------------------------------------------------------------------------
Next ==
  \/ TimerFires \/ Redial \/ Show \/ Hide \/ Receive
  \/ Accept \/ Refuse \/ Unreachable \/ Break
  \/ LogLine \/ StreamLine
  \/ Signalled \/ ServeFails \/ Drained \/ DrainTimesOut \/ Exit \/ Boot

\* The server's goroutines, the browser's timers and the network run, and the
\* drain's context expires.  Nobody has to log, show the panel, or start and
\* stop the server, and a.Close need not return: it waits for processes and for
\* a running inference.
Fairness ==
  /\ WF_vars(TimerFires) /\ WF_vars(Redial) /\ WF_vars(Receive)
  /\ WF_vars(Accept \/ Refuse \/ Unreachable)
  /\ WF_vars(StreamLine)
  /\ WF_vars(Drained \/ DrainTimesOut)

Spec == Init /\ [][Next]_vars /\ Fairness

-------------------------------------------------------------------------------
(* Properties                                                              *)

\* The scalars, the panel's lines and the connection have their types, and the
\* bounds of the queues hold.
ScalarsOK ==
  /\ phase \in {"up", "draining", "closing", "down"} /\ expired \in BOOLEAN
  /\ boot \in 1 .. MaxBoots /\ count \in 1 .. MaxLines
  /\ es \in {"none", "connecting", "open", "waiting"}
  /\ retryTimer \in BOOLEAN /\ wanted \in BOOLEAN /\ faults \in 0 .. MaxFaults

ShownOK == shown \in Seq(Line) /\ Len(shown) <= MaxShown

ConnOK ==
  /\ conn \in [live : BOOLEAN, queue : Seq(Line), wire : Seq(Events), dropped : BOOLEAN]
  /\ Len(conn.queue) <= QueueCap /\ Len(conn.wire) <= WireCap

TypeOK == ScalarsOK /\ ShownOK /\ ConnOK

\* What was sent and is not shown yet, once a snapshot is: events of one line.
UnderWay == [i \in DOMAIN conn.wire |-> conn.wire[i].lines[1]] \o conn.queue

HasSnapshot ==
  es = "open" /\ \A i \in DOMAIN conn.wire : conn.wire[i].kind = "line"

\* The panel never shows a line twice, out of order, or next to a line of
\* another server, whatever reconnects lie between (docs/api.md 47-49).  Once
\* the snapshot of a connection is shown, and as long as the server dropped
\* nothing, the lines shown and the ones under way are the end of the log,
\* and as much of it as the panel has room for.
ShownIsLog ==
  /\ \A i, j \in DOMAIN shown : i < j =>
       shown[i].boot = shown[j].boot /\ shown[i].n < shown[j].n
  /\ conn.live /\ HasSnapshot /\ ~conn.dropped =>
       LET seq == shown \o UnderWay IN
       /\ seq = Recent(Len(seq))
       /\ Len(shown) >= Least(Least(MaxShown, Least(Replay, Cap)), count - Len(UnderWay))

\* A panel that is shown always has exactly one thing that will bring it
\* lines: a source or an armed retry.  A hidden or paused one has neither, so
\* no stream is left open (docs/api.md 51, api.ts 170-190, 193-200).
OneStream ==
  /\ wanted => (retryTimer <=> es = "none")
  /\ ~wanted => ~retryTimer /\ es = "none"
  /\ conn.live => es \in {"connecting", "open"}

\* However often the connection broke and servers came and went: if the panel
\* stays open and a server stays up, the panel comes to show the end of its
\* log and goes on showing it, or the server dropped lines of this stream.
ViewerCatchesUp ==
  <>[](wanted /\ phase = "up") =>
    <>[](conn.live /\ (conn.dropped \/ (shown # <<>> /\ shown = Recent(Len(shown)))))

\* The drain of a signalled server ends, with streams open that never end by
\* themselves and are dialled again when they break: the models are told to
\* stop (serve.go 101-104).  That a.Close returns is not said.
DrainEnds == phase = "draining" ~> phase # "draining"

\* Not so: open streams are over before the deadline of the drain, so that
\* the runtimes and the rows are stopped with a context that is still valid.
ClosedInTime == [][phase = "draining" /\ phase' = "closing" => ~expired']_vars
================================================================================
