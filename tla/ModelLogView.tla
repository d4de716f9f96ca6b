------------------------------ MODULE ModelLogView ------------------------------
(***************************************************************************)
(* The Logs tab of a model's page (src/web/src/pages/ModelDetail.tsx,      *)
(* LogViewer) and its event stream (src/web/src/lib/api.ts, streamLogs),   *)
(* on top of the server's log store: from the line that is appended to the *)
(* line that is on the screen.                                             *)
(*                                                                         *)
(* The page is one thread, each handler one step.  The server's handler of *)
(* its stream is a subscriber of LogStore; when the browser closes the     *)
(* stream or loses it, the handler goes on until it notices.  EventSource  *)
(* is external: after an error it dials again by itself or gives up, and   *)
(* streamLogs does nothing about either.                                   *)
(*                                                                         *)
(* Left out: the filter and the scroll position, which only say what of    *)
(* the lines is looked at.                                                 *)
(***************************************************************************)
EXTENDS LogStore

CONSTANTS
  MaxView,   \* lines after which the viewer is cut (3000 in the code)
  KeepView,  \* lines that a cut leaves (2500 in the code)
  Replay,    \* lines the handler replays (200 in the code)
  MaxBreaks  \* bound of the model: lost connections since the lines were cleared

ASSUME ViewAssumption ==
  /\ {MaxView, KeepView, Replay} \subseteq Nat \ {0} /\ KeepView <= MaxView
  /\ MaxBreaks \in Nat

VARIABLES
  viewed,  \* the model whose Logs tab is shown, None: there is none
  es,      \* the EventSource: "none", "connecting", "open" or "closed"
  link,    \* the subscriber at its other end, None: not connected
  heard,   \* lines of link that the page has got
  shown,   \* lines of LogViewer
  paused,
  mark,    \* history: heard when the lines were last cleared or resumed
  breaks   \* history: connections lost since the lines were last cleared

stream == <<es, link, heard>>
view == <<viewed, stream, shown, paused, mark, breaks>>

ViewInit ==
  /\ Init
  /\ viewed = None /\ es = "none" /\ link = None /\ heard = 0
  /\ shown = <<>> /\ paused = FALSE /\ mark = 0 /\ breaks = 0

-------------------------------------------------------------------------------
(* streamLogs                                                              *)

\* new EventSource
Connects == es' = "connecting" /\ link' = None /\ heard' = 0

\* es.close(): nothing that is under way is heard any more.
Disconnects == es' = "none" /\ link' = None /\ heard' = 0

\* onerror is not listened to: the browser dials again, or the stream is over.
Lost == (Connects \/ (es' = "closed" /\ link' = None /\ heard' = 0))

-------------------------------------------------------------------------------
(* LogViewer                                                               *)

\* Bug variant: the line that finds the viewer full only cuts it.
AddedAfterCut(seq, l) ==
  IF Len(seq) > MaxView THEN LastOf(seq, KeepView) ELSE Append(seq, l)

Added(seq, l) ==
  IF Len(seq) > MaxView THEN Append(LastOf(seq, KeepView), l) ELSE Append(seq, l)

Emptied == shown' = <<>> /\ breaks' = 0

\* The tab is opened, or the page gets another model: the effect empties the
\* viewer and subscribes.
OpenViewer(id) ==
  /\ viewed # id
  /\ viewed' = id
  /\ Emptied /\ Connects
  /\ mark' = 0
  /\ paused' = (paused /\ viewed # None)
  /\ UNCHANGED vars

\* Another tab or another page: LogViewer is gone with its state.
CloseViewer ==
  /\ viewed # None
  /\ viewed' = None
  /\ Emptied /\ Disconnects
  /\ mark' = 0 /\ paused' = FALSE
  /\ UNCHANGED vars

TogglePause ==
  /\ viewed # None
  /\ paused' = ~paused
  /\ mark' = heard
  /\ UNCHANGED <<vars, viewed, stream, shown, breaks>>

ClearView ==
  /\ viewed # None
  /\ Emptied
  /\ mark' = heard
  /\ UNCHANGED <<vars, viewed, stream, paused>>

\* A log event.  A paused viewer forgets the line.
Hear ==
  /\ link # None /\ heard < Len(sub[link].got)
  /\ heard' = heard + 1
  /\ shown' = IF paused THEN shown ELSE Added(shown, sub[link].got[heard'])
  /\ UNCHANGED <<vars, viewed, es, link, paused, mark, breaks>>

-------------------------------------------------------------------------------
(* Between browser and server                                              *)

\* The handler finds the model and its buffer, subscribes and answers.
Accept(s) ==
  /\ es = "connecting"
  /\ store[viewed] # None
  /\ Subscribe(s, store[viewed], Replay)
  /\ es' = "open" /\ link' = s
  /\ UNCHANGED <<viewed, heard, shown, paused, mark, breaks>>

\* An HTTP error: there is no such model any more, or the key is wrong.
Refuse ==
  /\ es = "connecting"
  /\ es' = "closed"
  /\ UNCHANGED <<vars, viewed, link, heard, shown, paused, mark, breaks>>

Break ==
  /\ es = "open" /\ breaks < MaxBreaks
  /\ Lost
  /\ breaks' = breaks + 1 /\ mark' = 0
  /\ UNCHANGED <<vars, viewed, shown, paused>>

\* The handler's context has ended with the connection.
HandlerEnds(s) == s # link /\ Cancel(s) /\ UNCHANGED view

-------------------------------------------------------------------------------
\* What models, other clients and the handlers do.
LogStep ==
  /\ \/ \E b \in AllBufs : AppendLine(b) \/ MirrorLine(b)
     \/ \E s \in Subs, b \in AllBufs, n \in Replays : Subscribe(s, b, n)
     \/ \E s \in Subs : Send(s)
     \/ \E id \in Ids, b \in Bufs : Get(id, b) \/ \E t \in Runtimes : BindModel(id, b, t)
     \/ \E id \in Ids : RemoveModel(id)
  /\ UNCHANGED view

ViewNext ==
  \/ LogStep
  \/ \E s \in Subs : HandlerEnds(s) \/ Accept(s)
  \/ \E id \in Ids : OpenViewer(id)
  \/ CloseViewer \/ TogglePause \/ ClearView \/ Hear \/ Refuse \/ Break

ViewSpec == ViewInit /\ [][ViewNext]_<<vars, view>>

-------------------------------------------------------------------------------
(* Properties                                                              *)

ViewTypeOK ==
  /\ viewed \in Ids \cup {None} /\ link \in Subs \cup {None}
  /\ es \in {"none", "connecting", "open", "closed"}
  /\ (viewed = None <=> es = "none") /\ (link # None <=> es = "open")
  /\ heard \in 0 .. MaxTotal /\ mark \in 0 .. MaxTotal
  /\ IsLineSeq(shown, MaxView + 1)
  /\ paused \in BOOLEAN /\ breaks \in 0 .. MaxBreaks

\* Where the next line that is shown is not a later one of the same log.
Repeats ==
  {i \in 1 .. Len(shown) - 1 :
     ~(shown[i].from = shown[i + 1].from /\ shown[i].n < shown[i + 1].n)}

\* What arrived since the viewer was last connected, cleared or resumed is on
\* the screen, as much of it as a cut leaves, and continues up to the end of
\* the log with what is under way, unless the server dropped lines.  A line
\* comes again or out of order only where a connection was lost, and the
\* viewer never grows beyond its bound (ModelDetail.tsx 176-183).
ViewFollows ==
  /\ link # None /\ ~paused =>
       LET fresh == SubSeq(sub[link].got, mark + 1, heard)
           ahead == SubSeq(sub[link].got, heard + 1, Len(sub[link].got)) \o sub[link].queue
       IN  /\ IsSuffix(LastOf(fresh, KeepView + 1), shown)
           /\ ~sub[link].dropped => IsSuffix(fresh \o ahead, hist[sub[link].buf])
  /\ Len(shown) <= MaxView + 1
  /\ Cardinality(Repeats) <= breaks

\* Not so: no line is shown twice.  streamLogs takes the replay that follows
\* each reconnect for new lines, where streamRuntimeLogs has a snapshot.
NoLineTwice == Repeats = {}

\* Not so: the lines shown have no gap.  The lines of a pause are forgotten,
\* and not fetched when it ends (ModelDetail.tsx 180).
NothingMissed ==
  link # None /\ breaks = 0 /\ ~sub[link].dropped =>
    \A i \in 1 .. Len(shown) - 1 : shown[i + 1].n = shown[i].n + 1
===============================================================================
