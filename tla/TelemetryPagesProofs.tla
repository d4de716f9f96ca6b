------------------------- MODULE TelemetryPagesProofs -------------------------
(***************************************************************************)
(* Safety of the two parts of a telemetry page, for every size of their    *)
(* buffers and any number of requests, servers and faults.                 *)
(*                                                                         *)
(* RuntimeLogStream: the types, that a log panel has exactly one way to    *)
(* get at the log while it is shown and none while it is not, and that it  *)
(* shows the log in order and without a gap.                               *)
(*                                                                         *)
(* ConsoleShell: telemetry is polled by one loop with one request, and     *)
(* what a page shows of it never goes back.                                *)
(***************************************************************************)
EXTENDS RuntimeLogStream, ConsoleShell, SequenceTheorems, FiniteSetTheorems,
        FunctionTheorems, TLAPS

-------------------------------------------------------------------------------
(* RuntimeLogStream: the invariant                                         *)

\* Nothing is on its way without a connection.
Quiet == ~conn.live => conn = NoConn

IInv == TypeOK /\ Quiet /\ OneStream

-------------------------------------------------------------------------------
(* The cuts of the log                                                     *)

\* slice(-k) of lines is a sequence of lines, no longer than k.
LEMMA LastOfType ==
  ASSUME NEW S, NEW seq \in Seq(S), NEW k \in Nat \ {0}
  PROVE  LastOf(seq, k) \in Seq(S) /\ Len(LastOf(seq, k)) <= k
BY DEF LastOf

\* The end of the server's log is a sequence of lines.
LEMMA RecentType ==
  ASSUME TypeOK, NEW k \in Nat
  PROVE  Recent(k) \in Seq(Line)
<1> DEFINE first == IF count > k THEN count - k ELSE 0
           n == count - first
<1>1. count \in Nat /\ first \in Nat /\ n \in Nat
  BY BoundAssumption DEF TypeOK, ScalarsOK
<1>2. ASSUME NEW i \in 1 .. n
      PROVE  [boot |-> boot, n |-> first + i] \in Line
  BY <1>1, <1>2, BoundAssumption DEF TypeOK, ScalarsOK, Line
<1>3. Recent(k) = [i \in 1 .. n |-> [boot |-> boot, n |-> first + i]]
  BY DEF Recent
<1> HIDE DEF first, n
<1>4. [i \in 1 .. n |-> [boot |-> boot, n |-> first + i]] \in [1 .. n -> Line]
  BY <1>2
<1> DEFINE f == [i \in 1 .. n |-> [boot |-> boot, n |-> first + i]]
<1>5. f \in [1 .. n -> Line] /\ Recent(k) = f
  BY <1>3, <1>4
<1> HIDE DEF f
<1>6. f \in Seq(Line)
  BY <1>1, <1>5
<1>7. QED
  BY <1>5, <1>6

-------------------------------------------------------------------------------
(* The steps                                                               *)

\* The bounds, one by one.
LEMMA Sizes ==
  /\ Cap \in Nat /\ Cap > 0 /\ Replay \in Nat /\ Replay > 0
  /\ QueueCap \in Nat /\ QueueCap > 0 /\ WireCap \in Nat /\ WireCap >= 2
  /\ MaxShown \in Nat /\ MaxShown > 0 /\ MaxLines \in Nat /\ MaxLines > 0
  /\ MaxBoots \in Nat /\ MaxBoots > 0 /\ MaxFaults \in Nat
BY BoundAssumption

\* No lines are lines, few enough for every bound.
LEMMA Empty ==
  /\ <<>> \in Seq(Line) /\ <<>> \in Seq(Events) /\ Len(<<>>) = 0
OBVIOUS

\* Without a connection both of its queues are empty.
LEMMA NoConnOK ==
  ASSUME conn' = NoConn
  PROVE  ConnOK' /\ Quiet' /\ ~conn'.live
<1>1. conn' = [live |-> FALSE, queue |-> <<>>, wire |-> <<>>, dropped |-> FALSE]
  BY DEF NoConn
<1>2. conn' \in [live : BOOLEAN, queue : Seq(Line), wire : Seq(Events), dropped : BOOLEAN]
  BY <1>1, Empty
<1>3. QED
  BY <1>1, <1>2, Empty, Sizes DEF ConnOK, Quiet

\* A connection that is left alone keeps its type, and so does the panel.
LEMMA Kept ==
  /\ ConnOK /\ Quiet /\ UNCHANGED conn => ConnOK' /\ Quiet'
  /\ ShownOK /\ UNCHANGED shown => ShownOK'
BY DEF ConnOK, Quiet, ShownOK, NoConn

\* The lines a panel is given are what it shows.
LEMMA ShownTyped ==
  ASSUME NEW seq \in Seq(Line), Len(seq) <= MaxShown, shown' = seq
  PROVE  ShownOK'
BY DEF ShownOK

\* A connection has its type when its fields have theirs.
LEMMA ConnTyped ==
  ASSUME NEW live \in BOOLEAN, NEW queue \in Seq(Line), NEW wire \in Seq(Events),
         NEW dropped \in BOOLEAN, Len(queue) <= QueueCap, Len(wire) <= WireCap,
         conn' = [live |-> live, queue |-> queue, wire |-> wire, dropped |-> dropped]
  PROVE  ConnOK' /\ conn'.live = live
<1>1. conn' \in [live : BOOLEAN, queue : Seq(Line), wire : Seq(Events), dropped : BOOLEAN]
  OBVIOUS
<1>2. conn'.live = live /\ conn'.queue = queue /\ conn'.wire = wire
  OBVIOUS
<1>3. QED
  BY <1>1, <1>2 DEF ConnOK

\* The fields of the connection.
LEMMA ConnIs ==
  ASSUME ConnOK
  PROVE  /\ conn = [live |-> conn.live, queue |-> conn.queue,
                    wire |-> conn.wire, dropped |-> conn.dropped]
         /\ conn.live \in BOOLEAN /\ conn.dropped \in BOOLEAN
         /\ conn.queue \in Seq(Line) /\ conn.wire \in Seq(Events)
         /\ Len(conn.queue) <= QueueCap /\ Len(conn.wire) <= WireCap
BY DEF ConnOK

\* Init: the panel is hidden and nothing is connected.
LEMMA InitHolds == Init => IInv
<1> SUFFICES ASSUME Init PROVE IInv
  OBVIOUS
<1>1. conn = [live |-> FALSE, queue |-> <<>>, wire |-> <<>>, dropped |-> FALSE]
  BY DEF Init, NoConn
<1>2. conn \in [live : BOOLEAN, queue : Seq(Line), wire : Seq(Events), dropped : BOOLEAN]
  BY <1>1, Empty
<1>3. ConnOK /\ ~conn.live
  BY <1>1, <1>2, Empty, Sizes DEF ConnOK
<1>4. boot \in 1 .. MaxBoots /\ count \in 1 .. MaxLines /\ faults \in 0 .. MaxFaults
      /\ 0 <= MaxShown
  BY Sizes DEF Init
<1>5. ScalarsOK /\ ShownOK
  BY <1>4, Empty, Zenon DEF Init, ScalarsOK, ShownOK
<1>6. Quiet /\ OneStream
  BY <1>3 DEF Init, Quiet, OneStream
<1>7. QED
  BY <1>3, <1>5, <1>6 DEF IInv, TypeOK

\* The steps of the panel and of the browser's timers.
LEMMA ClientHolds ==
  IInv /\ (TimerFires \/ Redial \/ Show \/ Hide) => IInv'
<1> SUFFICES ASSUME IInv, TimerFires \/ Redial \/ Show \/ Hide PROVE IInv'
  OBVIOUS
<1> USE DEF IInv, TypeOK, process
<1>1. ScalarsOK'
  BY DEF ScalarsOK, TimerFires, Redial, Show, Hide
<1>2. shown' = shown \/ shown' = <<>>
  BY DEF TimerFires, Redial, Show, Hide
<1>3. ShownOK'
  <2>1. CASE shown' = shown
    BY <2>1, Kept
  <2>2. CASE shown' = <<>>
    <3>1. Len(<<>>) <= MaxShown
      BY Empty, Sizes
    <3>2. QED
      BY <2>2, <3>1, Empty, ShownTyped
  <2>3. QED
    BY <1>2, <2>1, <2>2
<1>4. conn' = conn \/ conn' = NoConn
  BY DEF TimerFires, Redial, Show, Hide
<1>5. ConnOK' /\ Quiet' /\ (conn'.live => conn' = conn)
  BY <1>4, Kept, NoConnOK
<1>6. OneStream'
  BY <1>5, NoConnOK DEF ScalarsOK, OneStream, TimerFires, Redial, Show, Hide
<1>7. QED
  BY <1>1, <1>3, <1>5, <1>6

\* An event arrives at the client.
LEMMA ReceiveHolds == IInv /\ Receive => IInv'
<1> SUFFICES ASSUME IInv, Receive PROVE IInv'
  OBVIOUS
<1> USE DEF IInv, TypeOK, process
<1> DEFINE e == Head(conn.wire)
<1>1. conn.live /\ es \in {"connecting", "open"} /\ wanted /\ ~retryTimer
  BY DEF Receive, Quiet, OneStream, NoConn
<1>2. conn.wire \in Seq(Events) /\ conn.wire # <<>>
  BY DEF Receive, ConnOK
<1>3. e \in Events
  BY <1>2
<1>4. e.lines \in Seq(Line)
  BY <1>3 DEF Events
<1>5. Tail(conn.wire) \in Seq(Events) /\ Len(Tail(conn.wire)) <= Len(conn.wire)
  BY <1>2
<1>6. conn' = [conn EXCEPT !.wire = Tail(conn.wire)]
  BY DEF Receive
<1>7. shown' = shown \/ shown' = LastOf(e.lines, MaxShown)
      \/ shown' = LastOf(shown \o e.lines, MaxShown)
  BY DEF Receive, OnSnapshot, OnLine
<1>8. (es' = es \/ es' = "open") /\ retryTimer' = retryTimer /\ wanted' = wanted
  BY DEF Receive
<1>9. ScalarsOK'
  BY <1>8 DEF Receive, ScalarsOK
<1> HIDE DEF e
<1>10. shown \o e.lines \in Seq(Line)
  BY <1>4 DEF ShownOK
<1>11. ShownOK'
  <2>1. MaxShown \in Nat \ {0}
    BY Sizes
  <2>2. /\ LastOf(e.lines, MaxShown) \in Seq(Line)
        /\ Len(LastOf(e.lines, MaxShown)) <= MaxShown
    BY <1>4, <2>1, LastOfType
  <2>3. /\ LastOf(shown \o e.lines, MaxShown) \in Seq(Line)
        /\ Len(LastOf(shown \o e.lines, MaxShown)) <= MaxShown
    BY <1>10, <2>1, LastOfType
  <2>4. CASE shown' = shown
    BY <2>4, Kept
  <2>5. CASE shown' = LastOf(e.lines, MaxShown)
    BY <2>2, <2>5, ShownTyped
  <2>6. CASE shown' = LastOf(shown \o e.lines, MaxShown)
    BY <2>3, <2>6, ShownTyped
  <2>7. QED
    BY <1>7, <2>4, <2>5, <2>6
<1>12. ConnOK' /\ conn'.live
  <2>1. Len(Tail(conn.wire)) <= WireCap
    BY <1>2, <1>5, ConnIs, Sizes
  <2>2. conn' = [live |-> conn.live, queue |-> conn.queue,
                 wire |-> Tail(conn.wire), dropped |-> conn.dropped]
    BY <1>6, ConnIs
  <2>3. QED
    BY <1>1, <1>5, <2>1, <2>2, ConnIs, ConnTyped
<1>13. Quiet' /\ OneStream'
  BY <1>1, <1>8, <1>12 DEF Quiet, OneStream
<1>14. QED
  BY <1>9, <1>11, <1>12, <1>13

\* The handler subscribes and sends the snapshot.
LEMMA AcceptHolds == IInv /\ Accept => IInv'
<1> SUFFICES ASSUME IInv, Accept PROVE IInv'
  OBVIOUS
<1> USE DEF IInv, TypeOK, process, client
<1>1. Least(Replay, Cap) \in Nat
  BY Sizes DEF Least
<1>2. Recent(Least(Replay, Cap)) \in Seq(Line)
  BY <1>1, RecentType
<1>3. /\ Event("open", <<>>) \in Events
      /\ Event("snapshot", Recent(Least(Replay, Cap))) \in Events
  BY <1>2, Empty DEF Event, Events
<1> DEFINE both == <<Event("open", <<>>), Event("snapshot", Recent(Least(Replay, Cap)))>>
<1>4. both \in Seq(Events) /\ Len(both) = 2
  BY <1>3
<1>5. conn' = [NoConn EXCEPT !.live = TRUE, !.wire = both]
  BY DEF Accept
<1> HIDE DEF both
<1>6. conn' = [live |-> TRUE, queue |-> <<>>, wire |-> both, dropped |-> FALSE]
  BY <1>5 DEF NoConn
<1>7. ConnOK' /\ conn'.live
  <2>1. Len(<<>>) <= QueueCap /\ Len(both) <= WireCap
    BY <1>4, Empty, Sizes
  <2>2. QED
    BY <1>4, <1>6, <2>1, Empty, ConnTyped
<1>8. ScalarsOK' /\ ShownOK'
  BY Kept DEF Accept, ScalarsOK
<1>9. Quiet' /\ OneStream'
  BY <1>7 DEF Accept, Dialing, Quiet, OneStream
<1>10. QED
  BY <1>7, <1>8, <1>9

\* A connection that is refused, fails or breaks leaves a source or a retry.
LEMMA ErrorHolds ==
  IInv /\ (Refuse \/ Unreachable \/ Break) => IInv'
<1> SUFFICES ASSUME IInv, Refuse \/ Unreachable \/ Break PROVE IInv'
  OBVIOUS
<1> USE DEF IInv, TypeOK, process
<1>1. wanted /\ ~retryTimer
  BY DEF Refuse, Unreachable, Break, Dialing, OneStream
<1>2. (es' = "waiting" /\ retryTimer' = retryTimer) \/ (es' = "none" /\ retryTimer' = TRUE)
  BY DEF Refuse, Unreachable, Break, OnError, Reconnecting, Closed
<1>3. wanted' = wanted /\ shown' = shown /\ UNCHANGED <<phase, expired, boot, count>>
  BY DEF Refuse, Unreachable, Break, OnError
<1>4. conn' = NoConn
  BY DEF Refuse, Unreachable, Break, Dialing, Quiet
<1>5. faults' \in 0 .. MaxFaults
  BY Sizes DEF Refuse, Unreachable, Break, ScalarsOK
<1>6. ScalarsOK' /\ ShownOK'
  BY <1>2, <1>3, <1>5, Kept DEF ScalarsOK
<1>7. OneStream'
  BY <1>1, <1>2, <1>3, <1>4, NoConnOK DEF OneStream
<1>8. QED
  BY <1>4, <1>6, <1>7, NoConnOK

\* A line is logged.
LEMMA LogLineHolds == IInv /\ LogLine => IInv'
<1> SUFFICES ASSUME IInv, LogLine PROVE IInv'
  OBVIOUS
<1> USE DEF IInv, TypeOK, client
<1> DEFINE l == [boot |-> boot, n |-> count + 1]
<1>1. l \in Line /\ count + 1 \in 1 .. MaxLines
  BY Sizes DEF LogLine, ScalarsOK, Line
<1>2. \/ conn' = conn
      \/ conn.live /\ Len(conn.queue) < QueueCap /\ conn' = [conn EXCEPT !.queue = Append(conn.queue, l)]
      \/ conn.live /\ conn' = [conn EXCEPT !.dropped = TRUE]
  BY DEF LogLine
<1> HIDE DEF l
<1>3. conn.queue \in Seq(Line)
  BY DEF ConnOK
<1>4. Append(conn.queue, l) \in Seq(Line) /\ Len(Append(conn.queue, l)) = Len(conn.queue) + 1
      /\ Len(conn.queue) \in Nat
  BY <1>1, <1>3
<1>5. CASE conn' = conn
  BY <1>1, <1>5, Kept DEF LogLine, ScalarsOK, OneStream
<1>6. CASE conn.live /\ Len(conn.queue) < QueueCap
           /\ conn' = [conn EXCEPT !.queue = Append(conn.queue, l)]
  <2>1. ConnOK' /\ conn'.live
    <3>1. Len(Append(conn.queue, l)) <= QueueCap
      BY <1>4, <1>6, Sizes
    <3>2. conn' = [live |-> conn.live, queue |-> Append(conn.queue, l),
                   wire |-> conn.wire, dropped |-> conn.dropped]
      BY <1>6, ConnIs
    <3>3. QED
      BY <1>4, <1>6, <3>1, <3>2, ConnIs, ConnTyped
  <2>2. ScalarsOK' /\ ShownOK' /\ Quiet' /\ OneStream'
    BY <1>1, <1>6, <2>1, Kept DEF LogLine, ScalarsOK, OneStream, Quiet
  <2>3. QED
    BY <2>1, <2>2
<1>7. CASE conn.live /\ conn' = [conn EXCEPT !.dropped = TRUE]
  <2>1. ConnOK' /\ conn'.live
    BY <1>7 DEF ConnOK
  <2>2. ScalarsOK' /\ ShownOK' /\ Quiet' /\ OneStream'
    BY <1>1, <1>7, <2>1, Kept DEF LogLine, ScalarsOK, OneStream, Quiet
  <2>3. QED
    BY <2>1, <2>2
<1>8. QED
  BY <1>2, <1>5, <1>6, <1>7

\* A line is sent.
LEMMA StreamLineHolds == IInv /\ StreamLine => IInv'
<1> SUFFICES ASSUME IInv, StreamLine PROVE IInv'
  OBVIOUS
<1> USE DEF IInv, TypeOK, process, client
<1>1. conn.live
  BY DEF StreamLine, Quiet, NoConn
<1>2. conn.queue \in Seq(Line) /\ conn.wire \in Seq(Events) /\ conn.queue # <<>>
  BY DEF StreamLine, ConnOK
<1>3. Head(conn.queue) \in Line /\ Tail(conn.queue) \in Seq(Line)
      /\ Len(Tail(conn.queue)) <= Len(conn.queue)
  BY <1>2
<1> DEFINE e == Event("line", <<Head(conn.queue)>>)
<1>4. e \in Events
  BY <1>3 DEF Event, Events
<1>5. conn' = [conn EXCEPT !.queue = Tail(conn.queue), !.wire = Append(conn.wire, e)]
      /\ Len(conn.wire) < WireCap
  BY DEF StreamLine
<1> HIDE DEF e
<1>6. Append(conn.wire, e) \in Seq(Events) /\ Len(Append(conn.wire, e)) = Len(conn.wire) + 1
      /\ Len(conn.wire) \in Nat
  BY <1>2, <1>4
<1>7. ConnOK' /\ conn'.live
  <2>1. Len(Tail(conn.queue)) <= QueueCap
    BY <1>2, <1>3, ConnIs, Sizes
  <2>2. Len(Append(conn.wire, e)) <= WireCap
    BY <1>5, <1>6, Sizes
  <2>3. conn' = [live |-> conn.live, queue |-> Tail(conn.queue),
                 wire |-> Append(conn.wire, e), dropped |-> conn.dropped]
    BY <1>5, ConnIs
  <2>4. QED
    BY <1>1, <1>3, <1>6, <2>1, <2>2, <2>3, ConnIs, ConnTyped
<1>8. ScalarsOK' /\ ShownOK' /\ Quiet' /\ OneStream'
  BY <1>1, <1>7, Kept DEF StreamLine, ScalarsOK, OneStream, Quiet
<1>9. QED
  BY <1>7, <1>8

\* The server stops and starts.
LEMMA ServerHolds ==
  IInv /\ (Signalled \/ ServeFails \/ Drained \/ DrainTimesOut \/ Boot) => IInv'
<1> SUFFICES ASSUME IInv, Signalled \/ ServeFails \/ Drained \/ DrainTimesOut \/ Boot
             PROVE IInv'
  OBVIOUS
<1> USE DEF IInv, TypeOK
<1>1. UNCHANGED <<conn, es, retryTimer, wanted, shown>>
  BY DEF client, Signalled, ServeFails, Drained, DrainTimesOut, Boot
<1>2. boot' \in 1 .. MaxBoots /\ count' \in 1 .. MaxLines /\ faults' \in 0 .. MaxFaults
  BY Sizes DEF ScalarsOK, Signalled, ServeFails, Drained, DrainTimesOut, Boot
<1>3. phase' \in {"up", "draining", "closing", "down"} /\ expired' \in BOOLEAN
  BY Zenon DEF ScalarsOK, Signalled, ServeFails, Drained, DrainTimesOut, Boot
<1>4. ScalarsOK'
  BY <1>1, <1>2, <1>3 DEF ScalarsOK
<1>5. QED
  BY <1>1, <1>4, Kept DEF OneStream

\* The process ends.
LEMMA ExitHolds == IInv /\ Exit => IInv'
<1> SUFFICES ASSUME IInv, Exit PROVE IInv'
  OBVIOUS
<1> USE DEF IInv, TypeOK
<1>1. conn' = NoConn
  BY DEF Exit
<1>2. shown' = shown /\ wanted' = wanted
  BY DEF Exit, OnError, client
<1>3. \/ es' = es /\ retryTimer' = retryTimer
      \/ conn.live /\ es' = "waiting" /\ retryTimer' = retryTimer
      \/ conn.live /\ es' = "none" /\ retryTimer' = TRUE
  BY DEF Exit, OnError, Reconnecting, Closed, client
<1>4. faults' \in 0 .. MaxFaults /\ phase' = "down" /\ UNCHANGED <<expired, boot, count>>
  BY Sizes DEF Exit, ScalarsOK
<1>5. ScalarsOK' /\ ShownOK'
  BY <1>2, <1>3, <1>4, Kept DEF ScalarsOK
<1>6. OneStream'
  BY <1>1, <1>2, <1>3, NoConnOK DEF OneStream
<1>7. QED
  BY <1>1, <1>5, <1>6, NoConnOK

\* Every step, and a step that changes nothing.
LEMMA NextHolds == IInv /\ [Next]_vars => IInv'
<1> SUFFICES ASSUME IInv, [Next]_vars PROVE IInv'
  OBVIOUS
<1>1. CASE UNCHANGED vars
  BY <1>1, Kept DEF vars, process, client, IInv, TypeOK, ScalarsOK, OneStream
<1>2. CASE Next
  BY <1>2, ClientHolds, ReceiveHolds, AcceptHolds, ErrorHolds, LogLineHolds, StreamLineHolds,
     ServerHolds, ExitHolds
     DEF Next
<1>3. QED
  BY <1>1, <1>2

\* The invariant holds in every state of every behavior.
LEMMA Invariance == Spec => []IInv
BY InitHolds, NextHolds, PTL DEF Spec

-------------------------------------------------------------------------------
\* The stream stays within its types, whatever the sizes of the buffers.
THEOREM TypeCorrect == Spec => []TypeOK
<1>1. IInv => TypeOK
  BY DEF IInv
<1>2. QED
  BY <1>1, Invariance, PTL

\* A shown panel has exactly one source or armed retry, a hidden one neither,
\* for any number of faults and servers.
THEOREM OneWayToTheLog == Spec => []OneStream
<1>1. IInv => OneStream
  BY DEF IInv
<1>2. QED
  BY <1>1, Invariance, PTL

-------------------------------------------------------------------------------
(***************************************************************************)
(* What the panel shows.  The lines that are shown, or that the snapshot   *)
(* under way will show, are followed by the lines of the events behind it  *)
(* and then by those in the channel.  All of them are of this server and   *)
(* in its order, and as long as nothing was dropped they are the end of    *)
(* its log without a gap.                                                  *)
(***************************************************************************)
Ordered(seq) ==
  \A i, j \in 1 .. Len(seq) : i < j => seq[i].boot = seq[j].boot /\ seq[i].n < seq[j].n

\* The events before the first line: open and the snapshot, or one of them.
Greeting ==
  IF es = "connecting" THEN 2
  ELSE IF conn.wire # <<>> /\ conn.wire[1].kind = "snapshot" THEN 1 ELSE 0

Base == IF Greeting = 0 THEN shown ELSE conn.wire[Greeting].lines

Sent == Len(conn.wire) - Greeting

Behind ==
  [i \in 1 .. Sent + Len(conn.queue) |->
     IF i <= Sent THEN conn.wire[Greeting + i].lines[1] ELSE conn.queue[i - Sent]]

WireShape ==
  /\ Greeting <= Len(conn.wire)
  /\ Greeting = 2 => conn.wire[1].kind = "open" /\ conn.wire[2].kind = "snapshot"
  /\ \A i \in DOMAIN conn.wire : i > Greeting =>
       conn.wire[i].kind = "line" /\ Len(conn.wire[i].lines) = 1

\* Lines of server b up to its line c, base before rest.
Chain(b, base, rest, c) ==
  /\ \A i \in 1 .. Len(base) : base[i].boot = b /\ base[i].n <= c
  /\ \A i \in 1 .. Len(rest) : rest[i].boot = b /\ rest[i].n <= c
  /\ Ordered(base) /\ Ordered(rest)
  /\ \A i \in 1 .. Len(base), j \in 1 .. Len(rest) : base[i].n < rest[j].n

\* They are the last ones up to line c, and base is long enough.
Whole(base, rest, c) ==
  /\ Len(base) + Len(rest) <= c
  /\ \A i \in 1 .. Len(rest) : rest[i].n = c - Len(rest) + i
  /\ \A i \in 1 .. Len(base) : base[i].n = c - Len(rest) - Len(base) + i
  /\ Len(base) >= Least(Least(MaxShown, Least(Replay, Cap)), c - Len(rest))

Flow ==
  /\ WireShape
  /\ Chain(boot, Base, Behind, count)
  /\ ~conn.dropped => Whole(Base, Behind, count)

StreamInv ==
  /\ Ordered(shown)
  /\ phase = "down" => ~conn.live
  /\ conn.live => Flow

\* The fields of the lines of a sequence.
LEMMA LineNumbers ==
  ASSUME NEW seq \in Seq(Line)
  PROVE  Len(seq) \in Nat /\ \A i \in 1 .. Len(seq) : seq[i].n \in Nat /\ seq[i].boot \in Nat
<1>1. \A i \in 1 .. Len(seq) : seq[i] \in Line
  OBVIOUS
<1>2. QED
  BY <1>1, Sizes DEF Line

\* slice(-k) is a suffix.
LEMMA LastOfIs ==
  ASSUME NEW seq \in Seq(Line), NEW k \in Nat \ {0}
  PROVE  \E d \in Nat :
           /\ Len(LastOf(seq, k)) = Len(seq) - d /\ d <= Len(seq)
           /\ d = (IF Len(seq) > k THEN Len(seq) - k ELSE 0)
           /\ \A i \in 1 .. Len(seq) - d : LastOf(seq, k)[i] = seq[i + d]
<1>1. CASE Len(seq) > k
  <2> DEFINE d == Len(seq) - k
  <2>1. /\ LastOf(seq, k) = SubSeq(seq, d + 1, Len(seq)) /\ d \in Nat /\ d < Len(seq)
        /\ \A i \in d + 1 .. Len(seq) : seq[i] \in Line
    BY <1>1 DEF LastOf
  <2> HIDE DEF d
  <2>2. PICK e \in Int : e = d + 1
    BY <2>1
  <2>3. Len(seq) \in Nat /\ e <= Len(seq) /\ Len(seq) - e + 1 = Len(seq) - d
    BY <2>1, <2>2
  <2>4. /\ Len(SubSeq(seq, e, Len(seq))) = Len(seq) - d
        /\ \A i \in 1 .. Len(seq) - e + 1 : SubSeq(seq, e, Len(seq))[i] = seq[e + i - 1]
    BY <2>1, <2>2, <2>3, SubSeqProperties
  <2>5. ASSUME NEW i \in 1 .. Len(seq) - d PROVE LastOf(seq, k)[i] = seq[i + d]
    <3>1. e + i - 1 = i + d /\ i \in 1 .. Len(seq) - e + 1
      BY <2>1, <2>2, <2>3
    <3>2. SubSeq(seq, e, Len(seq))[i] = seq[e + i - 1]
      BY <2>4, <3>1
    <3>3. QED
      BY <2>1, <2>2, <3>1, <3>2
  <2>6. QED
    BY <1>1, <2>1, <2>2, <2>4, <2>5 DEF d
<1>2. CASE ~(Len(seq) > k)
  <2>1. LastOf(seq, k) = seq
    BY <1>2 DEF LastOf
  <2>2. \A i \in 1 .. Len(seq) - 0 : LastOf(seq, k)[i] = seq[i + 0]
    BY <2>1
  <2>3. QED
    BY <1>2, <2>1, <2>2
<1>3. QED
  BY <1>1, <1>2

\* What joining sequences gives.
LEMMA JoinIs ==
  ASSUME NEW S, NEW s \in Seq(S), NEW t \in Seq(S)
  PROVE  /\ s \o t \in Seq(S) /\ Len(s \o t) = Len(s) + Len(t)
         /\ \A i \in 1 .. Len(s) + Len(t) : (s \o t)[i] = IF i <= Len(s) THEN s[i] ELSE t[i - Len(s)]
BY ConcatProperties

LEMMA AppendIs ==
  ASSUME NEW S, NEW s \in Seq(S), NEW x \in S, NEW N \in Nat, Len(s) = N
  PROVE  Append(s, x) = [i \in 1 .. N + 1 |-> IF i = N + 1 THEN x ELSE s[i]]
<1> DEFINE a == Append(s, x)
<1>1. a \in Seq(S) /\ Len(a) = N + 1 /\ \A i \in 1 .. N + 1 : a[i] = IF i = N + 1 THEN x ELSE s[i]
  BY AppendProperties
<1>2. a = [i \in 1 .. N + 1 |-> a[i]]
  BY <1>1, LenProperties
<1> HIDE DEF a
<1>3. a = [i \in 1 .. N + 1 |-> IF i = N + 1 THEN x ELSE s[i]]
  BY <1>1, <1>2
<1>4. QED
  BY <1>3 DEF a

\* The lesser of two numbers.
LEMMA LeastBelow ==
  ASSUME NEW a \in Int, NEW b \in Int
  PROVE  Least(a, b) \in Int /\ Least(a, b) <= a /\ Least(a, b) <= b
BY DEF Least

\* A panel with less room cuts the base.
LEMMA CutBase ==
  ASSUME NEW b, NEW base \in Seq(Line), NEW rest \in Seq(Line), NEW c \in Nat,
         Chain(b, base, rest, c)
  PROVE  /\ Chain(b, LastOf(base, MaxShown), rest, c)
         /\ Whole(base, rest, c) => Whole(LastOf(base, MaxShown), rest, c)
<1> DEFINE cut == LastOf(base, MaxShown)
<1>1. MaxShown \in Nat \ {0} /\ Replay \in Nat /\ Cap \in Nat /\ Len(base) \in Nat /\ Len(rest) \in Nat
  BY Sizes
<1>2. PICK d \in Nat :
        /\ Len(cut) = Len(base) - d /\ d <= Len(base)
        /\ d = (IF Len(base) > MaxShown THEN Len(base) - MaxShown ELSE 0)
        /\ \A i \in 1 .. Len(base) - d : cut[i] = base[i + d]
  BY <1>1, LastOfIs
<1> HIDE DEF cut
<1>3. Len(cut) \in Nat /\ \A i \in 1 .. Len(cut) : i + d \in 1 .. Len(base) /\ cut[i] = base[i + d]
  BY <1>1, <1>2
<1>4. Chain(b, cut, rest, c)
  <2>1. Ordered(cut)
    <3> SUFFICES ASSUME NEW i \in 1 .. Len(cut), NEW j \in 1 .. Len(cut), i < j
                 PROVE  cut[i].boot = cut[j].boot /\ cut[i].n < cut[j].n
      BY DEF Ordered
    <3>1. i + d \in 1 .. Len(base) /\ j + d \in 1 .. Len(base) /\ i + d < j + d
      BY <1>3
    <3>2. QED
      BY <1>3, <3>1 DEF Chain, Ordered
  <2>2. QED
    BY <1>3, <2>1 DEF Chain
<1>5. ASSUME Whole(base, rest, c) PROVE Whole(cut, rest, c)
  <2>1. Len(cut) + Len(rest) <= c
    BY <1>1, <1>2, <1>5 DEF Whole
  <2>2. \A i \in 1 .. Len(cut) : cut[i].n = c - Len(rest) - Len(cut) + i
    <3> SUFFICES ASSUME NEW i \in 1 .. Len(cut) PROVE cut[i].n = c - Len(rest) - Len(cut) + i
      OBVIOUS
    <3>1. cut[i].n = c - Len(rest) - Len(base) + (i + d)
      BY <1>3, <1>5 DEF Whole
    <3>2. QED
      BY <1>1, <1>2, <3>1
  <2>3. Len(cut) >= Least(Least(MaxShown, Least(Replay, Cap)), c - Len(rest))
    <3> DEFINE r == Least(Replay, Cap)
    <3>1. r \in Nat /\ Len(base) >= Least(Least(MaxShown, r), c - Len(rest))
      BY <1>1, <1>5 DEF Whole, Least
    <3> HIDE DEF r
    <3>2. CASE Len(base) > MaxShown
      <4>1. Len(cut) = MaxShown /\ c - Len(rest) \in Int /\ Least(MaxShown, r) \in Int
        BY <1>1, <1>2, <3>1, <3>2 DEF Least
      <4>2. Least(Least(MaxShown, r), c - Len(rest)) <= Least(MaxShown, r)
            /\ Least(MaxShown, r) <= MaxShown
            /\ Least(Least(MaxShown, r), c - Len(rest)) \in Int
        BY <1>1, <3>1, <4>1, LeastBelow
      <4>3. QED
        BY <1>1, <3>1, <4>1, <4>2, LeastBelow DEF r
    <3>3. CASE ~(Len(base) > MaxShown)
      <4>1. Len(cut) = Len(base)
        BY <1>1, <1>2, <3>3
      <4>2. QED
        BY <3>1, <4>1 DEF r
    <3>4. QED
      BY <3>2, <3>3
  <2>4. QED
    BY <1>5, <2>1, <2>2, <2>3 DEF Whole
<1>6. QED
  BY <1>4, <1>5 DEF cut

\* The first line behind the base joins it.
LEMMA TakeNext ==
  ASSUME NEW b, NEW base \in Seq(Line), NEW rest \in Seq(Line), rest # <<>>, NEW c \in Nat,
         Chain(b, base, rest, c)
  PROVE  /\ Chain(b, base \o <<rest[1]>>, Tail(rest), c)
         /\ Whole(base, rest, c) => Whole(base \o <<rest[1]>>, Tail(rest), c)
<1> DEFINE more == base \o <<rest[1]>>
           left == Tail(rest)
<1>1. /\ Len(more) = Len(base) + 1 /\ Len(left) = Len(rest) - 1
      /\ Len(base) \in Nat /\ Len(rest) \in Nat \ {0}
      /\ \A i \in 1 .. Len(base) + 1 : IF i = Len(base) + 1 THEN more[i] = rest[1]
                                       ELSE i \in 1 .. Len(base) /\ more[i] = base[i]
      /\ \A i \in 1 .. Len(rest) - 1 : i + 1 \in 1 .. Len(rest) /\ left[i] = rest[i + 1]
  OBVIOUS
<1> HIDE DEF more, left
<1>2. Chain(b, more, left, c)
  <2>1. ASSUME NEW i \in 1 .. Len(more) PROVE more[i].boot = b /\ more[i].n <= c
    <3>1. i \in 1 .. Len(base) + 1 /\ 1 \in 1 .. Len(rest)
      BY <1>1
    <3>2. CASE i = Len(base) + 1
      <4>1. more[i] = rest[1]
        BY <1>1, <3>1, <3>2
      <4>2. QED
        BY <3>1, <4>1 DEF Chain
    <3>3. CASE i # Len(base) + 1
      <4>1. i \in 1 .. Len(base) /\ more[i] = base[i]
        BY <1>1, <3>1, <3>3
      <4>2. QED
        BY <4>1 DEF Chain
    <3>4. QED
      BY <3>2, <3>3
  <2>6. ASSUME NEW i \in 1 .. Len(left) PROVE left[i].boot = b /\ left[i].n <= c
    <3>1. i + 1 \in 1 .. Len(rest) /\ left[i] = rest[i + 1]
      BY <1>1
    <3>2. QED
      BY <3>1 DEF Chain
  <2>2. Ordered(more)
    <3> SUFFICES ASSUME NEW i \in 1 .. Len(more), NEW j \in 1 .. Len(more), i < j
                 PROVE  more[i].boot = more[j].boot /\ more[i].n < more[j].n
      BY DEF Ordered
    <3>1. CASE j = Len(base) + 1
      BY <1>1, <3>1 DEF Chain
    <3>2. CASE j # Len(base) + 1
      BY <1>1, <3>2 DEF Chain, Ordered
    <3>3. QED
      BY <3>1, <3>2
  <2>3. Ordered(left)
    <3> SUFFICES ASSUME NEW i \in 1 .. Len(left), NEW j \in 1 .. Len(left), i < j
                 PROVE  left[i].boot = left[j].boot /\ left[i].n < left[j].n
      BY DEF Ordered
    <3>1. /\ i + 1 \in 1 .. Len(rest) /\ j + 1 \in 1 .. Len(rest) /\ i + 1 < j + 1
          /\ left[i] = rest[i + 1] /\ left[j] = rest[j + 1]
      BY <1>1
    <3>2. QED
      BY <3>1 DEF Chain, Ordered
  <2>4. ASSUME NEW i \in 1 .. Len(more), NEW j \in 1 .. Len(left) PROVE more[i].n < left[j].n
    <3>1. j + 1 \in 1 .. Len(rest) /\ left[j] = rest[j + 1] /\ 1 < j + 1 /\ 1 \in 1 .. Len(rest)
      BY <1>1
    <3>2. CASE i = Len(base) + 1
      BY <1>1, <3>1, <3>2 DEF Chain, Ordered
    <3>3. CASE i # Len(base) + 1
      BY <1>1, <3>1, <3>3 DEF Chain
    <3>4. QED
      BY <3>2, <3>3
  <2>5. QED
    BY <2>1, <2>2, <2>3, <2>4, <2>6 DEF Chain
<1>3. ASSUME Whole(base, rest, c) PROVE Whole(more, left, c)
  <2>1. ASSUME NEW i \in 1 .. Len(left) PROVE left[i].n = c - Len(left) + i
    <3>1. i + 1 \in 1 .. Len(rest) /\ left[i] = rest[i + 1]
      BY <1>1
    <3>2. left[i].n = c - Len(rest) + (i + 1)
      BY <1>3, <3>1 DEF Whole
    <3>3. QED
      BY <1>1, <3>2
  <2>2. ASSUME NEW i \in 1 .. Len(more) PROVE more[i].n = c - Len(left) - Len(more) + i
    <3>1. CASE i = Len(base) + 1
      BY <1>1, <1>3, <3>1 DEF Whole
    <3>2. CASE i # Len(base) + 1
      BY <1>1, <1>3, <3>2 DEF Whole
    <3>3. QED
      BY <3>1, <3>2
  <2>3. Len(more) >= Least(Least(MaxShown, Least(Replay, Cap)), c - Len(left))
    <3> DEFINE r == Least(MaxShown, Least(Replay, Cap))
    <3>1. r \in Nat
      BY Sizes DEF Least
    <3>2. Len(base) >= Least(r, c - Len(rest))
      BY <1>3 DEF Whole
    <3> HIDE DEF r
    <3>3. Len(more) >= Least(r, c - Len(left))
      BY <1>1, <3>1, <3>2 DEF Least
    <3>4. QED
      BY <3>3 DEF r
  <2>4. Len(more) + Len(left) <= c
    BY <1>1, <1>3 DEF Whole
  <2>5. QED
    BY <2>1, <2>2, <2>3, <2>4 DEF Whole
<1>4. QED
  BY <1>2, <1>3 DEF more, left

\* A new line comes last.
LEMMA AddLine ==
  ASSUME NEW b \in Nat, NEW base \in Seq(Line), NEW rest \in Seq(Line), NEW c \in Nat,
         Chain(b, base, rest, c), NEW l \in Line, l.boot = b, l.n = c + 1
  PROVE  /\ Chain(b, base, rest, c + 1) /\ Chain(b, base, Append(rest, l), c + 1)
         /\ Whole(base, rest, c) => Whole(base, Append(rest, l), c + 1)
<1> DEFINE more == Append(rest, l)
<1>1. /\ Len(more) = Len(rest) + 1 /\ Len(base) \in Nat /\ Len(rest) \in Nat
      /\ \A i \in 1 .. Len(rest) + 1 : IF i = Len(rest) + 1 THEN more[i] = l
                                       ELSE i \in 1 .. Len(rest) /\ more[i] = rest[i]
  OBVIOUS
<1> HIDE DEF more
<1>2. /\ \A i \in 1 .. Len(base) : base[i].n < c + 1 /\ base[i].n <= c + 1
      /\ \A i \in 1 .. Len(rest) : rest[i].n < c + 1 /\ rest[i].n <= c + 1
  <2>1. /\ \A i \in 1 .. Len(base) : base[i].n \in Nat
        /\ \A i \in 1 .. Len(rest) : rest[i].n \in Nat
    BY LineNumbers
  <2>2. QED
    BY <2>1 DEF Chain
<1>3. Chain(b, base, rest, c + 1)
  BY <1>2 DEF Chain
<1>4. Chain(b, base, more, c + 1)
  <2>1. \A i \in 1 .. Len(more) : more[i].boot = b /\ more[i].n <= c + 1
    BY <1>1, <1>2 DEF Chain
  <2>2. Ordered(more)
    <3> SUFFICES ASSUME NEW i \in 1 .. Len(more), NEW j \in 1 .. Len(more), i < j
                 PROVE  more[i].boot = more[j].boot /\ more[i].n < more[j].n
      BY DEF Ordered
    <3>1. CASE j = Len(rest) + 1
      BY <1>1, <1>2, <3>1 DEF Chain
    <3>2. CASE j # Len(rest) + 1
      BY <1>1, <3>2 DEF Chain, Ordered
    <3>3. QED
      BY <3>1, <3>2
  <2>3. \A i \in 1 .. Len(base), j \in 1 .. Len(more) : base[i].n < more[j].n
    BY <1>1, <1>2 DEF Chain
  <2>4. /\ \A i \in 1 .. Len(base) : base[i].boot = b /\ base[i].n <= c + 1
        /\ Ordered(base)
    BY <1>2 DEF Chain
  <2>5. QED
    BY <2>1, <2>2, <2>3, <2>4 DEF Chain
<1>5. ASSUME Whole(base, rest, c) PROVE Whole(base, more, c + 1)
  <2>1. c + 1 - Len(more) = c - Len(rest) /\ Len(base) + Len(more) <= c + 1
    BY <1>1, <1>5 DEF Whole
  <2>2. ASSUME NEW i \in 1 .. Len(more) PROVE more[i].n = c + 1 - Len(more) + i
    <3>1. CASE i = Len(rest) + 1
      BY <1>1, <3>1
    <3>2. CASE i # Len(rest) + 1
      <4>1. i \in 1 .. Len(rest) /\ more[i] = rest[i]
        BY <1>1, <3>2
      <4>2. QED
        BY <1>5, <2>1, <4>1 DEF Whole
    <3>3. QED
      BY <3>1, <3>2
  <2>3. \A i \in 1 .. Len(base) : base[i].n = c + 1 - Len(more) - Len(base) + i
    BY <1>1, <1>5, <2>1 DEF Whole
  <2>4. Len(base) >= Least(Least(MaxShown, Least(Replay, Cap)), c + 1 - Len(more))
    BY <1>5, <2>1 DEF Whole
  <2>5. QED
    BY <2>1, <2>2, <2>3, <2>4 DEF Whole
<1>6. QED
  BY <1>3, <1>4, <1>5 DEF more

\* The lines under way are lines.
LEMMA FlowType ==
  ASSUME TypeOK, conn.live, WireShape
  PROVE  /\ Base \in Seq(Line) /\ Behind \in Seq(Line) /\ Greeting \in 0 .. 2
         /\ Sent \in Nat /\ Len(conn.queue) \in Nat
         /\ Len(Behind) = Sent + Len(conn.queue)
         /\ DOMAIN Behind = 1 .. Sent + Len(conn.queue)
<1>1. /\ conn.wire \in Seq(Events) /\ conn.queue \in Seq(Line) /\ shown \in Seq(Line)
      /\ Greeting \in 0 .. 2 /\ Greeting <= Len(conn.wire)
  BY DEF TypeOK, ConnOK, ShownOK, Greeting, WireShape
<1>2. \A i \in DOMAIN conn.wire : conn.wire[i].lines \in Seq(Line)
  <2> SUFFICES ASSUME NEW i \in DOMAIN conn.wire PROVE conn.wire[i].lines \in Seq(Line)
    OBVIOUS
  <2>1. conn.wire[i] \in Events
    BY <1>1
  <2>2. QED
    BY <2>1 DEF Events
<1>3. Base \in Seq(Line)
  BY <1>1, <1>2 DEF Base
<1>4. Sent \in Nat /\ Len(conn.queue) \in Nat
  BY <1>1 DEF Sent
<1>5. ASSUME NEW i \in 1 .. Sent + Len(conn.queue)
      PROVE  (IF i <= Sent THEN conn.wire[Greeting + i].lines[1] ELSE conn.queue[i - Sent]) \in Line
  <2>1. CASE i <= Sent
    <3>1. Greeting + i \in DOMAIN conn.wire /\ Greeting + i > Greeting
      BY <1>1, <1>4, <2>1 DEF Sent
    <3>2. conn.wire[Greeting + i].lines \in Seq(Line) /\ Len(conn.wire[Greeting + i].lines) = 1
      BY <1>2, <3>1 DEF WireShape
    <3>3. QED
      BY <2>1, <3>2
  <2>2. CASE ~(i <= Sent)
    BY <1>1, <1>4, <2>2
  <2>3. QED
    BY <2>1, <2>2
<1> DEFINE N == Sent + Len(conn.queue)
<1>6. N \in Nat /\ Behind \in [1 .. N -> Line]
  BY <1>4, <1>5 DEF Behind
<1> HIDE DEF N
<1>7. Behind \in Seq(Line) /\ Len(Behind) = N /\ DOMAIN Behind = 1 .. N
  BY <1>6
<1>8. QED
  BY <1>1, <1>3, <1>4, <1>7 DEF N

\* A step that leaves the stream and the panel alone.
LEMMA FlowKept ==
  ASSUME StreamInv, UNCHANGED <<conn, es, shown, boot, count>>, phase' = "down" => ~conn.live
  PROVE  StreamInv'
BY DEF StreamInv, Flow, WireShape, Base, Behind, Sent, Greeting

\* A step after which nothing is connected, and what is shown stays or goes.
LEMMA FlowGone ==
  ASSUME StreamInv, ~conn'.live, shown' = shown \/ shown' = <<>>
  PROVE  StreamInv'
BY DEF StreamInv, Ordered

\* The handler subscribes: a snapshot of the end of the log, and nothing more yet.
LEMMA AcceptFlow ==
  ASSUME IInv, StreamInv, Accept
  PROVE  StreamInv'
<1> DEFINE R == Least(Replay, Cap)
<1>1. R \in Nat /\ boot \in Nat /\ count \in Nat /\ MaxShown \in Nat
  BY Sizes DEF IInv, TypeOK, ScalarsOK, Least
<1> DEFINE first == IF count > R THEN count - R ELSE 0
           snap == Recent(R)
<1>2. /\ conn'.live /\ ~conn'.dropped /\ conn'.queue = <<>>
      /\ conn'.wire = <<Event("open", <<>>), Event("snapshot", snap)>>
      /\ es' = "connecting" /\ UNCHANGED <<shown, boot, count, phase>> /\ phase = "up"
  BY DEF Accept, Dialing, NoConn, process, client
<1>3. first \in Nat /\ count - first \in Nat
      /\ snap = [i \in 1 .. count - first |-> [boot |-> boot, n |-> first + i]]
  BY <1>1 DEF Recent
<1> HIDE DEF R, first
<1>4. /\ Len(snap) = count - first
      /\ \A i \in 1 .. Len(snap) : snap[i].boot = boot /\ snap[i].n = first + i
  BY <1>3
<1> HIDE DEF snap
<1>5. Greeting' = 2 /\ Len(conn'.wire) = 2 /\ Sent' = 0
      /\ conn'.wire[1].kind = "open" /\ conn'.wire[2].kind = "snapshot" /\ Base' = snap
  BY <1>2 DEF Greeting, Sent, Base, Event
<1>6. Len(Behind') = 0
  BY <1>2, <1>5 DEF Behind
<1>7. WireShape'
  BY <1>2, <1>5 DEF WireShape
<1>8. Chain(boot', Base', Behind', count')
  <2>1. \A i \in 1 .. Len(snap) : first + i <= count
    BY <1>1, <1>3, <1>4
  <2>2. /\ \A i \in 1 .. Len(snap) : snap[i].boot = boot /\ snap[i].n <= count
        /\ Ordered(snap) /\ Len(snap) \in Nat
    BY <1>3, <1>4, <2>1 DEF Ordered
  <2>3. Ordered(Behind') /\ 1 .. Len(Behind') = {}
    BY <1>6 DEF Ordered
  <2>4. QED
    BY <1>2, <1>5, <2>2, <2>3 DEF Chain
<1>9. Whole(Base', Behind', count')
  <2>1. Len(snap) >= Least(Least(MaxShown, R), count - 0)
    BY <1>1, <1>3, <1>4 DEF Least, first
  <2>2. \A i \in 1 .. Len(snap) : snap[i].n = count - 0 - Len(snap) + i
    BY <1>1, <1>3, <1>4
  <2>3. QED
    BY <1>1, <1>2, <1>3, <1>4, <1>5, <1>6, <2>1, <2>2 DEF Whole, R
<1>10. QED
  BY <1>2, <1>7, <1>8, <1>9 DEF StreamInv, Flow

\* A line goes from the channel to the wire: the same lines are under way.
LEMMA StreamLineFlow ==
  ASSUME IInv, StreamInv, StreamLine
  PROVE  StreamInv'
<1>1. /\ conn.live /\ conn.queue \in Seq(Line) /\ conn.wire \in Seq(Events) /\ conn.queue # <<>>
      /\ WireShape /\ Flow /\ TypeOK
  BY DEF StreamLine, IInv, Quiet, NoConn, TypeOK, ConnOK, StreamInv, Flow
<1> DEFINE e == Event("line", <<conn.queue[1]>>)
<1>2. /\ conn'.live /\ conn'.dropped = conn.dropped /\ conn'.queue = Tail(conn.queue)
      /\ conn'.wire = Append(conn.wire, e)
      /\ UNCHANGED <<es, shown, boot, count, phase>>
  BY <1>1 DEF StreamLine, process, client, IInv, TypeOK, ConnOK
<1>3. /\ e.kind = "line" /\ Len(e.lines) = 1 /\ e.lines[1] = conn.queue[1]
  BY DEF Event
<1> HIDE DEF e
<1>4. /\ Len(conn'.wire) = Len(conn.wire) + 1 /\ Len(conn.wire) \in Nat
      /\ \A i \in 1 .. Len(conn.wire) : conn'.wire[i] = conn.wire[i]
      /\ conn'.wire[Len(conn.wire) + 1] = e
      /\ DOMAIN conn'.wire = 1 .. Len(conn.wire) + 1 /\ DOMAIN conn.wire = 1 .. Len(conn.wire)
      /\ conn'.wire # <<>>
  BY <1>1, <1>2
<1>5. Len(conn'.queue) = Len(conn.queue) - 1 /\ Len(conn.queue) \in Nat \ {0}
      /\ \A i \in 1 .. Len(conn.queue) - 1 : conn'.queue[i] = conn.queue[i + 1]
  BY <1>1, <1>2
<1>6. Greeting' = Greeting /\ Greeting \in 0 .. 2 /\ Greeting <= Len(conn.wire)
  <2>1. CASE conn.wire = <<>>
    BY <1>1, <1>2, <1>3, <1>4, <2>1 DEF Greeting, WireShape
  <2>2. CASE conn.wire # <<>>
    <3>1. 1 \in 1 .. Len(conn.wire)
      BY <1>1, <2>2
    <3>2. QED
      BY <1>1, <1>2, <1>4, <2>2, <3>1 DEF Greeting, WireShape
  <2>3. QED
    BY <2>1, <2>2
<1>7. Base' = Base
  <2>1. Greeting # 0 => Greeting \in 1 .. Len(conn.wire)
    BY <1>4, <1>6
  <2>2. QED
    BY <1>2, <1>4, <1>6, <2>1 DEF Base
<1>8. Sent' = Sent + 1 /\ Sent \in Nat
  BY <1>4, <1>6 DEF Sent
<1>9. Behind' = Behind
  <2> DEFINE N == Sent + Len(conn.queue)
  <2>1. Sent' + Len(conn'.queue) = N /\ N \in Nat
    <3>1. /\ Len(conn'.queue) = Len(conn.queue) - 1 /\ Len(conn.queue) \in Nat
          /\ Sent' = Sent + 1 /\ Sent \in Nat
      BY <1>5, <1>8
    <3>2. \A a, b \in Nat : (a + 1) + (b - 1) = a + b /\ a + b \in Nat
      OBVIOUS
    <3>3. QED
      BY <3>1, <3>2, Zenon
  <2>2. ASSUME NEW i \in 1 .. N
        PROVE  (IF i <= Sent' THEN conn'.wire[Greeting' + i].lines[1] ELSE conn'.queue[i - Sent'])
             = (IF i <= Sent THEN conn.wire[Greeting + i].lines[1] ELSE conn.queue[i - Sent])
    <3>1. CASE i <= Sent
      <4>1. Greeting + i \in 1 .. Len(conn.wire) /\ i <= Sent'
        BY <1>4, <1>6, <1>8, <3>1 DEF Sent
      <4>2. QED
        BY <1>4, <1>6, <3>1, <4>1
    <3>2. CASE i = Sent + 1
      <4>1. Greeting + i = Len(conn.wire) + 1 /\ i <= Sent' /\ ~(i <= Sent) /\ i - Sent = 1
        BY <1>4, <1>6, <1>8, <3>2 DEF Sent
      <4>2. QED
        BY <1>3, <1>4, <1>6, <4>1
    <3>3. CASE i > Sent + 1
      <4>1. /\ i - Sent' \in 1 .. Len(conn.queue) - 1 /\ (i - Sent') + 1 = i - Sent
            /\ ~(i <= Sent') /\ ~(i <= Sent)
        BY <1>5, <1>8, <2>1, <3>3
      <4>2. QED
        BY <1>5, <4>1
    <3>4. QED
      BY <1>8, <3>1, <3>2, <3>3
  <2>3. QED
    BY <2>1, <2>2 DEF Behind
<1>10. WireShape'
  <2>1. ASSUME NEW i \in DOMAIN conn'.wire, i > Greeting'
        PROVE  conn'.wire[i].kind = "line" /\ Len(conn'.wire[i].lines) = 1
    <3>1. CASE i = Len(conn.wire) + 1
      BY <1>3, <1>4, <3>1
    <3>2. CASE i # Len(conn.wire) + 1
      BY <1>1, <1>4, <1>6, <2>1, <3>2 DEF WireShape
    <3>3. QED
      BY <3>1, <3>2
  <2>2. Greeting = 2 => 1 \in 1 .. Len(conn.wire) /\ 2 \in 1 .. Len(conn.wire)
    BY <1>4, <1>6
  <2>3. QED
    BY <1>1, <1>4, <1>6, <2>1, <2>2 DEF WireShape
<1>11. QED
  BY <1>1, <1>2, <1>7, <1>9, <1>10 DEF StreamInv, Flow

\* A line is logged: it comes last, or the stream has a gap from now on.
LEMMA LogLineFlow ==
  ASSUME IInv, StreamInv, LogLine
  PROVE  StreamInv'
<1>1. /\ UNCHANGED <<es, shown, boot, phase>> /\ phase # "down" /\ count' = count + 1
      /\ TypeOK /\ Ordered(shown)
  BY DEF LogLine, client, IInv, StreamInv
<1>2. CASE ~conn.live
  <2>1. conn' = conn
    BY <1>2 DEF LogLine
  <2>2. QED
    BY <1>1, <1>2, <2>1, FlowGone
<1>3. CASE conn.live
  <2> DEFINE l == [boot |-> boot, n |-> count + 1]
  <2>1. /\ l \in Line /\ l.boot = boot /\ l.n = count + 1 /\ boot \in Nat /\ count \in Nat
    BY Sizes DEF LogLine, IInv, TypeOK, ScalarsOK, Line
  <2>2. /\ Flow /\ WireShape /\ Chain(boot, Base, Behind, count)
        /\ Base \in Seq(Line) /\ Behind \in Seq(Line) /\ Greeting \in 0 .. 2
        /\ Sent \in Nat /\ Len(conn.queue) \in Nat /\ conn.queue \in Seq(Line)
        /\ Len(Behind) = Sent + Len(conn.queue)
    BY <1>1, <1>3, FlowType DEF StreamInv, Flow, TypeOK, ConnOK
  <2>3. CASE Len(conn.queue) < QueueCap
    <3>1. /\ conn'.live /\ conn'.dropped = conn.dropped /\ conn'.wire = conn.wire
          /\ conn'.queue = Append(conn.queue, l)
      BY <1>1, <1>3, <2>3 DEF LogLine, TypeOK, ConnOK
    <3> HIDE DEF l
    <3>2. /\ Greeting' = Greeting /\ Base' = Base /\ Sent' = Sent /\ WireShape'
          /\ Len(conn'.queue) = Len(conn.queue) + 1
          /\ conn'.queue[Len(conn.queue) + 1] = l
          /\ \A i \in 1 .. Len(conn.queue) : conn'.queue[i] = conn.queue[i]
      BY <1>1, <2>2, <3>1 DEF Greeting, Base, Sent, WireShape
    <3>3. Behind' = Append(Behind, l)
      <4> DEFINE N == Sent + Len(conn.queue)
                 f == [i \in 1 .. N + 1 |->
                        IF i <= Sent' THEN conn'.wire[Greeting' + i].lines[1] ELSE conn'.queue[i - Sent']]
      <4>1. N \in Nat /\ Sent' + Len(conn'.queue) = N + 1
        BY <2>2, <3>2
      <4>2. Behind' = f
        BY <4>1 DEF Behind
      <4>3. ASSUME NEW i \in 1 .. N PROVE f[i] = Behind[i]
        <5>1. i \in 1 .. N + 1 /\ (~(i <= Sent) => i - Sent \in 1 .. Len(conn.queue))
          BY <2>2, <4>1
        <5>2. QED
          BY <3>1, <3>2, <5>1 DEF Behind
      <4>4. f[N + 1] = l
        <5>1. N + 1 \in 1 .. N + 1 /\ ~(N + 1 <= Sent) /\ (N + 1) - Sent = Len(conn.queue) + 1
          BY <2>2, <4>1
        <5>2. QED
          BY <3>2, <5>1
      <4>5. f = [i \in 1 .. N + 1 |-> IF i = N + 1 THEN l ELSE Behind[i]]
        <5>1. DOMAIN f = 1 .. N + 1 /\ f = [i \in 1 .. N + 1 |-> f[i]]
          OBVIOUS
        <5> HIDE DEF f
        <5>2. \A i \in 1 .. N + 1 : f[i] = IF i = N + 1 THEN l ELSE Behind[i]
          BY <4>1, <4>3, <4>4
        <5>3. QED
          BY <5>1, <5>2
      <4>6. Behind \in Seq(Line) /\ l \in Line /\ Len(Behind) = N
        BY <2>1, <2>2 DEF l
      <4>7. Append(Behind, l) = [i \in 1 .. N + 1 |-> IF i = N + 1 THEN l ELSE Behind[i]]
        <5> HIDE DEF N
        <5>1. QED
          BY <4>1, <4>6, AppendIs
      <4>8. QED
        BY <4>2, <4>5, <4>7
    <3>4. Chain(boot, Base, Append(Behind, l), count + 1)
          /\ (Whole(Base, Behind, count) => Whole(Base, Append(Behind, l), count + 1))
      BY <2>1, <2>2, AddLine
    <3>5. QED
      BY <1>1, <1>3, <2>2, <3>1, <3>2, <3>3, <3>4 DEF StreamInv, Flow
  <2>4. CASE ~(Len(conn.queue) < QueueCap)
    <3>1. /\ conn'.live /\ conn'.dropped /\ conn'.wire = conn.wire /\ conn'.queue = conn.queue
      BY <1>1, <1>3, <2>4 DEF LogLine, TypeOK, ConnOK
    <3>2. Greeting' = Greeting /\ Base' = Base /\ Behind' = Behind /\ WireShape'
      BY <1>1, <2>2, <3>1 DEF Greeting, Base, Behind, Sent, WireShape
    <3>3. Chain(boot, Base, Behind, count + 1)
      BY <2>1, <2>2, AddLine
    <3>4. QED
      BY <1>1, <3>1, <3>2, <3>3 DEF StreamInv, Flow
  <2>5. QED
    BY <2>3, <2>4
<1>4. QED
  BY <1>2, <1>3

\* The head of the wire arrives.
LEMMA ReceiveFlow ==
  ASSUME IInv, StreamInv, Receive
  PROVE  StreamInv'
<1> DEFINE e == Head(conn.wire)
<1>1. /\ conn.live /\ conn.wire \in Seq(Events) /\ conn.wire # <<>>
      /\ Flow /\ WireShape /\ Chain(boot, Base, Behind, count) /\ TypeOK /\ Ordered(shown)
      /\ es \in {"connecting", "open"} /\ count \in Nat
  BY BoundAssumption
  DEF Receive, IInv, Quiet, NoConn, TypeOK, ScalarsOK, ConnOK, StreamInv, Flow, OneStream
<1>2. /\ Base \in Seq(Line) /\ Behind \in Seq(Line) /\ Greeting \in 0 .. 2
      /\ Sent \in Nat /\ Len(conn.queue) \in Nat /\ shown \in Seq(Line)
      /\ Len(Behind) = Sent + Len(conn.queue)
      /\ DOMAIN Behind = 1 .. Sent + Len(conn.queue)
  BY <1>1, FlowType DEF TypeOK, ShownOK
<1>3. /\ conn'.live /\ conn'.dropped = conn.dropped /\ conn'.queue = conn.queue
      /\ conn'.wire = Tail(conn.wire) /\ UNCHANGED <<boot, count, phase>>
  BY <1>1 DEF Receive, process, TypeOK, ConnOK
<1>4. /\ Len(conn.wire) \in Nat /\ Len(conn.wire) > 0 /\ Len(conn'.wire) = Len(conn.wire) - 1
      /\ \A i \in 1 .. Len(conn.wire) - 1 : conn'.wire[i] = conn.wire[i + 1]
      /\ DOMAIN conn.wire = 1 .. Len(conn.wire) /\ DOMAIN conn'.wire = 1 .. Len(conn.wire) - 1
      /\ e = conn.wire[1] /\ (Len(conn.wire) = 1 <=> conn'.wire = <<>>)
      /\ Sent = Len(conn.wire) - Greeting
  <2>1. Len(conn.wire) \in Nat /\ Len(conn.wire) > 0 /\ DOMAIN conn.wire = 1 .. Len(conn.wire)
    BY <1>1, EmptySeq, LenProperties
  <2>2. /\ Tail(conn.wire) \in Seq(Events) /\ Len(Tail(conn.wire)) = Len(conn.wire) - 1
        /\ \A i \in 1 .. Len(Tail(conn.wire)) : Tail(conn.wire)[i] = conn.wire[i + 1]
    BY <1>1, HeadTailProperties
  <2>3. Len(conn.wire) = 1 <=> Tail(conn.wire) = <<>>
    <3> DEFINE t == Tail(conn.wire)
    <3>1. t \in Seq(Events) /\ Len(t) = Len(conn.wire) - 1
      BY <2>2
    <3>2. t = <<>> <=> Len(t) = 0
      BY <3>1, EmptySeq
    <3> HIDE DEF t
    <3>3. t = <<>> <=> Len(conn.wire) = 1
      BY <2>1, <3>1, <3>2
    <3>4. QED
      BY <3>3 DEF t
  <2>4. e = conn.wire[1]
    BY <1>1
  <2>5. QED
    BY <1>3, <2>1, <2>2, <2>3, <2>4 DEF Sent
<1> HIDE DEF e
<1>5. Ordered(Base) => Ordered(LastOf(Base, MaxShown))
  BY <1>1, <1>2, CutBase DEF Chain
<1>6. ASSUME NEW g \in 0 .. 1, Greeting = g + 1, Greeting' = g
      PROVE  Behind' = Behind /\ WireShape'
  <2>1. Sent' = Sent
    BY <1>4, <1>6 DEF Sent
  <2>2. ASSUME NEW i \in 1 .. Sent PROVE conn'.wire[Greeting' + i] = conn.wire[Greeting + i]
    <3>1. g + i \in 1 .. Len(conn.wire) - 1 /\ (g + i) + 1 = Greeting + i
      BY <1>2, <1>4, <1>6
    <3>2. QED
      BY <1>4, <1>6, <3>1
  <2>3. Behind' = Behind
    <3>1. ASSUME NEW i \in 1 .. Sent + Len(conn.queue), i <= Sent
          PROVE  conn'.wire[Greeting' + i] = conn.wire[Greeting + i]
      BY <1>2, <2>2, <3>1
    <3>2. QED
      BY <1>3, <2>1, <3>1 DEF Behind
  <2>4. WireShape'
    <3>1. g + 1 <= Len(conn.wire)
      BY <1>1, <1>6 DEF WireShape
    <3>2. ASSUME NEW i \in 1 .. Len(conn.wire) - 1, i > g
          PROVE  conn'.wire[i].kind = "line" /\ Len(conn'.wire[i].lines) = 1
      <4>1. i + 1 \in DOMAIN conn.wire /\ i + 1 > Greeting /\ conn'.wire[i] = conn.wire[i + 1]
        BY <1>4, <1>6, <3>2
      <4>2. QED
        BY <1>1, <4>1 DEF WireShape
    <3>3. QED
      BY <1>4, <1>6, <3>1, <3>2 DEF WireShape
  <2>5. QED
    BY <2>3, <2>4
<1>7. CASE es = "connecting"
  <2>1. Greeting = 2 /\ e.kind = "open" /\ conn.wire[2].kind = "snapshot" /\ 2 <= Len(conn.wire)
    BY <1>1, <1>4, <1>7 DEF Greeting, WireShape
  <2>2. es' = "open" /\ UNCHANGED shown
    BY <2>1 DEF Receive, e
  <2>3. conn'.wire[1] = conn.wire[2] /\ conn'.wire # <<>>
    <3>1. 1 \in 1 .. Len(conn.wire) - 1 /\ Len(conn.wire) # 1
      BY <1>4, <2>1
    <3>2. QED
      BY <1>4, <3>1
  <2>4. Greeting' = 1
    BY <2>1, <2>2, <2>3 DEF Greeting
  <2>5. Base' = Base
    BY <2>1, <2>3, <2>4 DEF Base
  <2>6. Behind' = Behind /\ WireShape'
    BY <1>6, <2>1, <2>4
  <2>7. QED
    BY <1>1, <1>3, <2>2, <2>5, <2>6 DEF StreamInv, Flow
<1>8. CASE es = "open" /\ Greeting = 1
  <2>1. e.kind = "snapshot"
    BY <1>1, <1>4, <1>8 DEF Greeting
  <2>2. es' = "open" /\ shown' = LastOf(e.lines, MaxShown)
    BY <1>8, <2>1 DEF Receive, e, OnSnapshot
  <2>3. Greeting' = 0
    <3>1. CASE Len(conn.wire) = 1
      BY <1>4, <2>2, <3>1 DEF Greeting
    <3>2. CASE Len(conn.wire) # 1
      <4>1. 1 \in 1 .. Len(conn.wire) - 1 /\ 2 \in DOMAIN conn.wire
        BY <1>4, <3>2
      <4>2. conn'.wire[1].kind = "line"
        BY <1>1, <1>4, <1>8, <4>1 DEF WireShape
      <4>3. QED
        BY <2>2, <4>2 DEF Greeting
    <3>3. QED
      BY <3>1, <3>2
  <2>4. Behind' = Behind /\ WireShape'
    BY <1>6, <1>8, <2>3
  <2>5. Base = e.lines /\ Base' = LastOf(Base, MaxShown) /\ shown' = LastOf(Base, MaxShown)
    BY <1>4, <1>8, <2>2, <2>3 DEF Base
  <2>6. /\ Chain(boot, LastOf(Base, MaxShown), Behind, count)
        /\ Whole(Base, Behind, count) => Whole(LastOf(Base, MaxShown), Behind, count)
    BY <1>1, <1>2, CutBase
  <2>7. Ordered(shown')
    BY <2>5, <2>6 DEF Chain
  <2>8. Flow'
    BY <1>1, <1>3, <2>4, <2>5, <2>6 DEF Flow
  <2>9. QED
    BY <1>1, <1>3, <2>7, <2>8 DEF StreamInv, Ordered
<1>9. CASE es = "open" /\ Greeting = 0
  <2>1. e.kind = "line" /\ Len(e.lines) = 1 /\ e.lines \in Seq(Line)
    <3>1. 1 \in DOMAIN conn.wire /\ 1 > Greeting /\ e \in Events
      BY <1>1, <1>4, <1>9
    <3>2. QED
      BY <1>1, <1>4, <3>1 DEF WireShape, Events
  <2>2. es' = "open" /\ shown' = LastOf(shown \o e.lines, MaxShown)
    BY <1>9, <2>1 DEF Receive, e, OnLine
  <2>3. Greeting' = 0
    <3>1. CASE Len(conn.wire) = 1
      BY <1>4, <2>2, <3>1 DEF Greeting
    <3>2. CASE Len(conn.wire) # 1
      <4>1. 1 \in 1 .. Len(conn.wire) - 1 /\ 2 \in DOMAIN conn.wire /\ 2 > Greeting
        BY <1>4, <1>9, <3>2
      <4>2. conn'.wire[1].kind = "line"
        BY <1>1, <1>4, <4>1 DEF WireShape
      <4>3. QED
        BY <2>2, <4>2 DEF Greeting
    <3>3. QED
      BY <3>1, <3>2
  <2>4. /\ Sent = Len(conn.wire) /\ Sent > 0 /\ Sent' = Sent - 1 /\ Base = shown
        /\ \A i \in Nat : Greeting + i = i /\ Greeting' + i = i
    BY <1>2, <1>4, <1>9, <2>3 DEF Sent, Base
  <2>16. PICK N \in Nat : N = Sent + Len(conn.queue) /\ N > 0
    <3>1. \A a, b \in Nat : a > 0 => a + b \in Nat /\ a + b > 0
      OBVIOUS
    <3>2. Sent \in Nat /\ Len(conn.queue) \in Nat /\ Sent > 0
      BY <1>2, <2>4
    <3>3. Sent + Len(conn.queue) \in Nat /\ Sent + Len(conn.queue) > 0
      BY <3>1, <3>2, Zenon
    <3>4. QED
      BY <3>3, Zenon
  <2>17. 1 \in 1 .. N /\ 1 <= Sent /\ Len(Behind) = N
    <3>1. \A a \in Nat : a > 0 => 1 \in 1 .. a /\ 1 <= a
      OBVIOUS
    <3>2. Sent \in Nat /\ Sent > 0 /\ Len(Behind) = Sent + Len(conn.queue)
      BY <1>2, <2>4
    <3>3. QED
      BY <2>16, <3>1, <3>2, Zenon
  <2>5. Behind # <<>> /\ Behind[1] = e.lines[1]
    <3>1. Behind[1] = conn.wire[Greeting + 1].lines[1]
      BY <2>16, <2>17 DEF Behind
    <3>2. QED
      BY <1>4, <2>4, <2>17, <3>1, EmptySeq
  <2>6. e.lines = <<Behind[1]>>
    BY <2>1, <2>5
  <2>7. Behind' = Tail(Behind)
    <3> DEFINE f == [i \in 1 .. N - 1 |->
                      IF i <= Sent' THEN conn'.wire[Greeting' + i].lines[1] ELSE conn'.queue[i - Sent']]
               t == Tail(Behind)
    <3>1. Sent' + Len(conn'.queue) = N - 1
      <4>1. \A a, b \in Nat : (a - 1) + b = (a + b) - 1
        OBVIOUS
      <4>2. QED
        <5>1. Sent \in Nat /\ Len(conn.queue) \in Nat /\ Sent' = Sent - 1
              /\ Len(conn'.queue) = Len(conn.queue) /\ N = Sent + Len(conn.queue)
          BY <1>2, <1>3, <2>4, <2>16
        <5>2. (Sent - 1) + Len(conn.queue) = (Sent + Len(conn.queue)) - 1
          BY <4>1, <5>1, Zenon
        <5>3. QED
          BY <5>1, <5>2, Zenon
    <3>2. Behind' = f
      BY <3>1 DEF Behind
    <3>3. ASSUME NEW i \in 1 .. N - 1
          PROVE  (IF i <= Sent' THEN conn'.wire[Greeting' + i].lines[1] ELSE conn'.queue[i - Sent'])
               = Behind[i + 1]
      <4>1. Behind[i + 1] = IF i + 1 <= Sent THEN conn.wire[Greeting + (i + 1)].lines[1]
                            ELSE conn.queue[(i + 1) - Sent]
        <5>1. i + 1 \in 1 .. Sent + Len(conn.queue)
          BY <2>16
        <5>2. QED
          BY <5>1 DEF Behind
      <4>2. CASE i <= Sent'
        <5>1. /\ i \in 1 .. Len(conn.wire) - 1 /\ i + 1 <= Sent
              /\ Greeting' + i = i /\ Greeting + (i + 1) = i + 1
          BY <1>2, <2>4, <4>2
        <5>2. QED
          BY <1>4, <4>1, <4>2, <5>1
      <4>3. CASE ~(i <= Sent')
        <5>1. ~(i + 1 <= Sent) /\ (i + 1) - Sent = i - Sent'
          BY <1>2, <2>4, <4>3
        <5>2. QED
          BY <1>3, <4>1, <4>3, <5>1
      <4>4. QED
        BY <4>2, <4>3
    <3>4. t \in Seq(Line) /\ Len(t) = N - 1 /\ \A i \in 1 .. N - 1 : t[i] = Behind[i + 1]
      BY <1>2, <2>5, <2>17, HeadTailProperties
    <3>5. t = [i \in 1 .. N - 1 |-> t[i]]
      BY <3>4, LenProperties
    <3> HIDE DEF t
    <3>6. f = t
      BY <3>3, <3>4, <3>5
    <3>7. QED
      BY <3>2, <3>6 DEF t
  <2>8. WireShape'
    <3>1. ASSUME NEW i \in 1 .. Len(conn.wire) - 1
          PROVE  conn'.wire[i].kind = "line" /\ Len(conn'.wire[i].lines) = 1
      <4>1. i + 1 \in DOMAIN conn.wire /\ i + 1 > Greeting /\ conn'.wire[i] = conn.wire[i + 1]
        BY <1>4, <1>9
      <4>2. QED
        BY <1>1, <4>1 DEF WireShape
    <3>2. QED
      BY <1>4, <2>3, <3>1 DEF WireShape
  <2> DEFINE more == shown \o <<Behind[1]>>
  <2>9. more \in Seq(Line) /\ Tail(Behind) \in Seq(Line)
    <3>1. Behind[1] \in Line
      BY <1>2, <2>17
    <3>2. QED
      BY <1>2, <2>5, <3>1
  <2>10. /\ Chain(boot, more, Tail(Behind), count)
         /\ Whole(shown, Behind, count) => Whole(more, Tail(Behind), count)
    BY <1>1, <1>2, <2>4, <2>5, TakeNext
  <2> HIDE DEF more
  <2>11. /\ Chain(boot, LastOf(more, MaxShown), Tail(Behind), count)
         /\ Whole(more, Tail(Behind), count) => Whole(LastOf(more, MaxShown), Tail(Behind), count)
    BY <1>1, <2>9, <2>10, CutBase
  <2>12. shown' = LastOf(more, MaxShown) /\ Base' = LastOf(more, MaxShown)
    BY <2>2, <2>3, <2>6 DEF Base, more
  <2>13. Ordered(shown')
    BY <2>11, <2>12 DEF Chain
  <2>14. Flow'
    BY <1>1, <1>3, <2>4, <2>7, <2>8, <2>10, <2>11, <2>12 DEF Flow
  <2>15. QED
    BY <1>1, <1>3, <2>13, <2>14 DEF StreamInv, Ordered
<1>10. Greeting = 2 => es = "connecting"
  BY DEF Greeting
<1>11. QED
  BY <1>1, <1>2, <1>7, <1>8, <1>9, <1>10

\* Nothing is shown and nothing is connected at first.
LEMMA FlowInit == Init => StreamInv
<1> SUFFICES ASSUME Init PROVE StreamInv
  OBVIOUS
<1>1. shown = <<>> /\ ~conn.live
  BY DEF Init, NoConn
<1>2. Len(<<>>) = 0
  OBVIOUS
<1>3. 1 .. 0 = {}
  OBVIOUS
<1>4. Ordered(shown)
  BY <1>1, <1>2, <1>3, Zenon DEF Ordered
<1>5. QED
  BY <1>1, <1>4 DEF StreamInv

\* The client's steps and every end of a connection.
LEMMA ClientFlow ==
  ASSUME IInv, StreamInv,
         TimerFires \/ Redial \/ Show \/ Hide \/ Refuse \/ Unreachable \/ Break \/ Exit \/ Boot
  PROVE  StreamInv'
<1>1. ~conn'.live
  <2>1. CASE TimerFires \/ Redial \/ Show
    BY <2>1 DEF TimerFires, Redial, Show, IInv, OneStream
  <2>2. CASE Refuse \/ Unreachable
    BY <2>2 DEF Refuse, Unreachable, Dialing
  <2>3. CASE Hide \/ Break \/ Exit
    BY <2>3 DEF Hide, Break, Exit, NoConn
  <2>4. CASE Boot
    BY <2>4 DEF Boot, StreamInv
  <2>5. QED
    BY <2>1, <2>2, <2>3, <2>4
<1>2. shown' = shown \/ shown' = <<>>
  BY DEF TimerFires, Redial, Show, Hide, Refuse, Unreachable, Break, Exit, Boot, OnError, client
<1>3. QED
  BY <1>1, <1>2, FlowGone

\* Every step, and a step that changes nothing.
LEMMA FlowStep ==
  IInv /\ StreamInv /\ [Next]_vars => StreamInv'
<1> SUFFICES ASSUME IInv, StreamInv, [Next]_vars PROVE StreamInv'
  OBVIOUS
<1>1. CASE UNCHANGED vars
  BY <1>1, FlowKept DEF vars, process, client, StreamInv
<1>2. CASE Signalled \/ ServeFails \/ Drained \/ DrainTimesOut
  <2>1. UNCHANGED <<conn, es, shown, boot, count>> /\ phase' # "down"
    BY <1>2 DEF Signalled, ServeFails, Drained, DrainTimesOut, client
  <2>2. QED
    BY <2>1, FlowKept
<1>3. CASE Next
  BY <1>2, <1>3, ClientFlow, AcceptFlow, ReceiveFlow, LogLineFlow, StreamLineFlow DEF Next
<1>4. QED
  BY <1>1, <1>3

\* The lines are in order in every state of every behavior.
LEMMA FlowInvariance == Spec => []StreamInv
BY FlowInit, FlowStep, Invariance, PTL DEF Spec

\* Once the snapshot is shown, the lines and the ones under way are the end of
\* the log.
LEMMA EndOfLog ==
  ASSUME IInv, StreamInv, conn.live, HasSnapshot, ~conn.dropped
  PROVE  /\ shown \o UnderWay = Recent(Len(shown \o UnderWay))
         /\ Len(shown) >= Least(Least(MaxShown, Least(Replay, Cap)), count - Len(UnderWay))
<1>1. /\ TypeOK /\ Flow /\ WireShape /\ es = "open"
      /\ conn.wire \in Seq(Events) /\ conn.queue \in Seq(Line) /\ shown \in Seq(Line)
      /\ count \in Nat
  BY Sizes DEF IInv, StreamInv, Flow, HasSnapshot, TypeOK, ScalarsOK, ConnOK, ShownOK
<1>2. Greeting = 0
  <2>1. CASE conn.wire = <<>>
    BY <1>1, <2>1 DEF Greeting
  <2>2. CASE conn.wire # <<>>
    <3>1. 1 \in DOMAIN conn.wire
      BY <1>1, <2>2
    <3>2. QED
      BY <1>1, <3>1 DEF Greeting, HasSnapshot
  <2>3. QED
    BY <2>1, <2>2
<1>3. Base = shown /\ Sent = Len(conn.wire)
  BY <1>1, <1>2 DEF Base, Sent
<1>4. /\ Behind \in Seq(Line) /\ Len(Behind) = Len(conn.wire) + Len(conn.queue)
      /\ Chain(boot, shown, Behind, count) /\ Whole(shown, Behind, count)
  BY <1>1, <1>3, FlowType DEF Flow
<1>5. Behind = UnderWay
  <2> DEFINE w == [i \in DOMAIN conn.wire |-> conn.wire[i].lines[1]]
  <2>1. ASSUME NEW i \in DOMAIN conn.wire PROVE conn.wire[i].lines[1] \in Line
    <3>1. conn.wire[i] \in Events /\ i > Greeting
      BY <1>1, <1>2
    <3>2. conn.wire[i].lines \in Seq(Line) /\ Len(conn.wire[i].lines) = 1
      BY <1>1, <3>1 DEF Events, WireShape
    <3>3. QED
      BY <3>2
  <2>2. DOMAIN conn.wire = 1 .. Len(conn.wire) /\ Len(conn.wire) \in Nat
    BY <1>1
  <2>3. w \in [1 .. Len(conn.wire) -> Line]
    BY <2>1, <2>2
  <2>4. w \in Seq(Line) /\ Len(w) = Len(conn.wire)
        /\ \A i \in 1 .. Len(conn.wire) : w[i] = conn.wire[i].lines[1]
    BY <2>2, <2>3
  <2> HIDE DEF w
  <2> DEFINE N == Len(conn.wire) + Len(conn.queue)
             u == w \o conn.queue
  <2>5. /\ u \in Seq(Line) /\ Len(u) = Len(w) + Len(conn.queue)
        /\ \A i \in 1 .. Len(w) + Len(conn.queue) :
             u[i] = IF i <= Len(w) THEN w[i] ELSE conn.queue[i - Len(w)]
    <3>1. w \in Seq(Line) /\ conn.queue \in Seq(Line)
      BY <1>1, <2>4
    <3>2. QED
      BY <3>1, JoinIs, Zenon
  <2>6. Behind = [i \in 1 .. N |-> IF i <= Len(conn.wire) THEN conn.wire[0 + i].lines[1]
                                                           ELSE conn.queue[i - Len(conn.wire)]]
    BY <1>2, <1>3 DEF Behind
  <2>7. u = [i \in 1 .. N |-> u[i]]
    BY <2>4, <2>5, LenProperties
  <2>8. ASSUME NEW i \in 1 .. N
        PROVE  u[i] = IF i <= Len(conn.wire) THEN conn.wire[0 + i].lines[1]
                                             ELSE conn.queue[i - Len(conn.wire)]
    <3>1. CASE i <= Len(conn.wire)
      <4>1. i \in 1 .. Len(conn.wire) /\ 0 + i = i
        BY <2>2, <3>1
      <4>2. u[i] = w[i]
        BY <2>4, <2>5, <3>1
      <4>3. QED
        BY <2>4, <3>1, <4>1, <4>2
    <3>2. CASE ~(i <= Len(conn.wire))
      BY <2>4, <2>5, <3>2
    <3>3. QED
      BY <3>1, <3>2
  <2> HIDE DEF u, N
  <2>9. Behind = u
    BY <2>6, <2>7, <2>8
  <2>10. QED
    BY <2>9 DEF u, w, UnderWay
<1>6. /\ Len(UnderWay) \in Nat /\ Len(shown) \in Nat /\ UnderWay \in Seq(Line)
      /\ Whole(shown, UnderWay, count) /\ Chain(boot, shown, UnderWay, count)
  BY <1>1, <1>4, <1>5, LenProperties
<1> HIDE DEF UnderWay
<1> DEFINE s == shown \o UnderWay
           k == Len(shown) + Len(UnderWay)
<1>7. /\ s \in Seq(Line) /\ Len(s) = k /\ k \in Nat /\ k <= count
      /\ \A i \in 1 .. k : s[i] = IF i <= Len(shown) THEN shown[i] ELSE UnderWay[i - Len(shown)]
  BY <1>1, <1>6, ConcatProperties DEF Whole
<1>8. ASSUME NEW i \in 1 .. k
      PROVE  s[i] \in Line /\ s[i].boot = boot /\ s[i].n = (count - k) + i
  <2>1. s[i] \in Line
    BY <1>7
  <2>2. CASE i <= Len(shown)
    <3>1. i \in 1 .. Len(shown) /\ s[i] = shown[i]
      BY <1>6, <1>7, <2>2
    <3>2. shown[i].boot = boot /\ shown[i].n = count - Len(UnderWay) - Len(shown) + i
      BY <1>6, <3>1 DEF Chain, Whole
    <3>3. count - Len(UnderWay) - Len(shown) + i = (count - k) + i
      BY <1>1, <1>6
    <3>4. QED
      BY <2>1, <3>1, <3>2, <3>3
  <2>3. CASE ~(i <= Len(shown))
    <3> DEFINE j == i - Len(shown)
    <3>1. j \in 1 .. Len(UnderWay) /\ s[i] = UnderWay[j]
          /\ count - Len(UnderWay) + j = (count - k) + i
      BY <1>1, <1>6, <1>7, <2>3
    <3> HIDE DEF j
    <3>2. UnderWay[j].boot = boot /\ UnderWay[j].n = count - Len(UnderWay) + j
      BY <1>6, <3>1 DEF Chain, Whole
    <3>3. QED
      BY <2>1, <3>1, <3>2
  <2>4. QED
    BY <2>2, <2>3
<1>9. s = [i \in 1 .. k |-> [boot |-> boot, n |-> (count - k) + i]]
  <2>1. s = [i \in 1 .. k |-> s[i]]
    BY <1>7, LenProperties
  <2>2. ASSUME NEW i \in 1 .. k PROVE s[i] = [boot |-> boot, n |-> (count - k) + i]
    BY <1>8 DEF Line
  <2> HIDE DEF s, k
  <2>3. QED
    BY <2>1, <2>2
<1> HIDE DEF s, k
<1>10. Recent(k) = [i \in 1 .. k |-> [boot |-> boot, n |-> (count - k) + i]]
  <2> DEFINE first == IF count > k THEN count - k ELSE 0
  <2>1. first = count - k /\ count - first = k
    BY <1>1, <1>7
  <2>2. Recent(k) = [i \in 1 .. count - first |-> [boot |-> boot, n |-> first + i]]
    BY DEF Recent
  <2> HIDE DEF first
  <2>3. QED
    BY <2>1, <2>2
<1>11. s = Recent(Len(s))
  BY <1>7, <1>9, <1>10
<1>12. Len(shown) >= Least(Least(MaxShown, Least(Replay, Cap)), count - Len(UnderWay))
  BY <1>6 DEF Whole
<1>13. QED
  BY <1>11, <1>12 DEF s

\* The panel shows no line twice or out of order, none of another server, and
\* without a gap what the server logged, for every size of the buffers and any
\* number of lines, servers and faults (docs/api.md 47-49).
THEOREM PanelShowsTheLog == Spec => []ShownIsLog
<1>1. IInv /\ StreamInv => ShownIsLog
  <2> SUFFICES ASSUME IInv, StreamInv PROVE ShownIsLog
    OBVIOUS
  <2>1. \A i, j \in DOMAIN shown : i < j =>
          shown[i].boot = shown[j].boot /\ shown[i].n < shown[j].n
    <3>1. DOMAIN shown = 1 .. Len(shown)
      BY DEF IInv, TypeOK, ShownOK
    <3>2. QED
      BY <3>1 DEF StreamInv, Ordered
  <2>2. QED
    BY <2>1, EndOfLog DEF ShownIsLog
<1>2. QED
  BY <1>1, Invariance, FlowInvariance, PTL

-------------------------------------------------------------------------------
(* ConsoleShell: requests and telemetry                                    *)

USE ShellAssumption

Requests == [kind: {"system", "health"}, key: Keys \cup {NoKey},
             home: BOOLEAN, phase: {"sent", "answered"},
             answer: {"ok", "denied", "failed"}, sample: Nat,
             n: 1..MaxFlight]

\* The requests of a set that the page awaits; Asked is AskedIn(flight).
AskedIn(fl) == {r \in fl : r.kind = "system" /\ r.home}

\* What is shown, and what the awaited answer tells, is not from the future,
\* and the answer is not older than what is shown.
Forward ==
    /\ \A r \in flight : r.sample <= sample
    /\ info # Nothing =>
         /\ info <= sample
         /\ \A r \in Asked : r.phase = "answered" => info <= r.sample

ShellIInv == ShellTypeOK /\ IsFiniteSet(flight) /\ OneQuery /\ Forward

-------------------------------------------------------------------------------
(* Requests                                                                *)

LEMMA AskedIs == Asked = AskedIn(flight)
  BY DEF Asked, AskedIn, Of

LEMMA FlightType == ShellTypeOK => flight \subseteq Requests
  BY DEF ShellTypeOK, Requests

\* TypeOK apart from the requests.
ServerTypes == up \in BOOLEAN /\ serverKey \in Keys \cup {NoKey} /\ sample \in Nat
LayoutTypes ==
    /\ stored \in Keys \cup {NoKey} /\ typedKey \in Keys \cup {NoKey}
    /\ keyOpen \in BOOLEAN /\ online \in BOOLEAN \cup {Nothing}
HookTypes ==
    /\ page \in {"telemetry", "other"}
    /\ info \in Nat \cup {Nothing} /\ error \in BOOLEAN
    /\ refreshing \in BOOLEAN /\ pending \in BOOLEAN
    /\ waiting \in BOOLEAN /\ timer \in BOOLEAN
CountTypes == moves \in Nat /\ changes \in Nat

StateTypes == ServerTypes /\ LayoutTypes /\ HookTypes /\ CountTypes

LEMMA TypeParts == ShellTypeOK <=> StateTypes /\ flight \subseteq Requests
  BY DEF ShellTypeOK, StateTypes, ServerTypes, LayoutTypes, HookTypes, CountTypes, Requests
LEMMA TypePartsNext == ShellTypeOK' <=> StateTypes' /\ flight' \subseteq Requests
  BY DEF ShellTypeOK, StateTypes, ServerTypes, LayoutTypes, HookTypes, CountTypes, Requests

\* A request finds a free number when there is room for it.
LEMMA FreeNumber ==
  ASSUME NEW fl, IsFiniteSet(fl), NEW kind, HasRoom(fl, kind)
  PROVE  \E n \in 1..MaxFlight : \A r \in Of(fl, kind) : r.n # n
<1> SUFFICES ASSUME \A n \in 1..MaxFlight : \E r \in Of(fl, kind) : r.n = n
             PROVE  FALSE
  OBVIOUS
<1> DEFINE S == 1..MaxFlight
           T == Of(fl, kind)
           f == [n \in S |-> CHOOSE r \in T : r.n = n]
<1>1. IsFiniteSet(T)
  BY FS_Subset DEF Of
<1>2. IsFiniteSet(S) /\ Cardinality(S) = MaxFlight
  BY FS_Interval
<1>3. Cardinality(T) < Cardinality(S)
  BY <1>2 DEF HasRoom
<1>4. \A n \in S : f[n] \in T /\ f[n].n = n
  OBVIOUS
<1>5. f \in [S -> T]
  BY <1>4
<1> HIDE DEF S, T, f
<1>6. \E m, n \in S : m # n /\ f[m] = f[n]
  BY <1>1, <1>2, <1>3, <1>5, FS_PigeonHole
<1>7. QED
  BY <1>4, <1>6

LEMMA RequestType ==
  ASSUME NEW fl, IsFiniteSet(fl), NEW kind \in {"system", "health"},
         HasRoom(fl, kind), stored \in Keys \cup {NoKey}
  PROVE  /\ Request(fl, kind) \in Requests
         /\ Request(fl, kind).kind = kind
         /\ Request(fl, kind).home = TRUE
         /\ Request(fl, kind).phase = "sent"
         /\ Request(fl, kind).sample = 0
<1>1. PICK n \in 1..MaxFlight : \A r \in Of(fl, kind) : r.n # n
  BY FreeNumber
<1>2. (CHOOSE k \in 1..MaxFlight : \A r \in Of(fl, kind) : r.n # k) \in 1..MaxFlight
  BY <1>1
<1>3. QED
  BY <1>2 DEF Request, Requests

LEMMA NoneInFlight ==
  ASSUME NEW kind
  PROVE  IsFiniteSet({}) /\ HasRoom({}, kind)
<1>1. Of({}, kind) = {}
  BY DEF Of
<1>2. QED
  BY <1>1, FS_EmptySet DEF HasRoom

\* With a page that is left its request is nobody's.
LEMMA OrphanedType ==
  ASSUME NEW fl \in SUBSET Requests, IsFiniteSet(fl)
  PROVE  /\ Orphaned(fl) \subseteq Requests
         /\ IsFiniteSet(Orphaned(fl))
         /\ AskedIn(Orphaned(fl)) = {}
         /\ \A r \in Orphaned(fl) : \E q \in fl : r.sample = q.sample
<1> DEFINE g(r) == IF r.kind = "system" THEN [r EXCEPT !.home = FALSE] ELSE r
<1>1. \A r \in fl : /\ g(r) \in Requests /\ g(r).sample = r.sample
                     /\ ~(g(r).kind = "system" /\ g(r).home)
  <2> SUFFICES ASSUME NEW r \in fl
               PROVE  /\ g(r) \in Requests /\ g(r).sample = r.sample
                      /\ ~(g(r).kind = "system" /\ g(r).home)
    OBVIOUS
  <2>1. r \in Requests
    OBVIOUS
  <2>2. QED
    BY <2>1 DEF Requests
<1>2. Orphaned(fl) = {g(r) : r \in fl}
  BY DEF Orphaned
<1>3. [r \in fl |-> g(r)] \in Surjection(fl, Orphaned(fl))
  BY <1>2 DEF Surjection
<1>4. IsFiniteSet(Orphaned(fl))
  BY <1>3, FS_Surjection
<1> HIDE DEF g
<1>5. QED
  BY <1>1, <1>2, <1>4 DEF AskedIn

\* A further request of the page is the one it awaits, if it awaits none.
LEMMA AskedMore ==
  ASSUME NEW fl, NEW r
  PROVE  AskedIn(fl \cup {r}) =
           AskedIn(fl) \cup (IF r.kind = "system" /\ r.home THEN {r} ELSE {})
  BY DEF AskedIn

\* OneQuery by its parts, for a step that says what is asked for after it.
LEMMA OneQueryNext ==
  ASSUME NEW A, Asked' = A,
         IF pending' THEN \E r \in A : A = {r} ELSE A = {},
         waiting' => pending',
         page' = "telemetry" <=> (waiting' \/ timer'),
         ~(waiting' /\ timer')
  PROVE  OneQuery'
<1>1. A \subseteq flight'
  BY DEF Asked, Of
<1>2. QED
  BY <1>1 DEF OneQuery

-------------------------------------------------------------------------------
(* The poll                                                                *)

\* What Joins leaves in flight.
LEMMA JoinsOne ==
  ASSUME ShellIInv, HasRoom(flight, "system"), flight' = Joins(flight).flight
  PROVE  /\ flight' \subseteq Requests /\ IsFiniteSet(flight')
         /\ \E r \in Asked' : Asked' = {r}
         /\ \A r \in flight' : r \in flight \/ (r.phase = "sent" /\ r.sample = 0)
         /\ Joins(flight).asks \in BOOLEAN
<1>1. flight \subseteq Requests /\ stored \in Keys \cup {NoKey} /\ pending \in BOOLEAN
      /\ IsFiniteSet(flight)
  BY FlightType DEF ShellIInv, ShellTypeOK
<1>2. Asked' = AskedIn(flight')
  BY DEF Asked, AskedIn, Of
<1>3. CASE pending
  <2>1. flight' = flight /\ Joins(flight).asks = FALSE
    BY <1>3 DEF Joins
  <2>2. \E r \in flight : Asked = {r}
    BY <1>3 DEF ShellIInv, OneQuery
  <2>3. Asked' = Asked
    BY <2>1, <1>2, AskedIs
  <2>4. QED
    BY <1>1, <2>1, <2>2, <2>3
<1>4. CASE ~pending
  <2> DEFINE q == Request(flight, "system")
  <2>1. flight' = flight \cup {q} /\ Joins(flight).asks = TRUE
    BY <1>4 DEF Joins
  <2>2. q \in Requests /\ q.kind = "system" /\ q.home = TRUE /\ q.phase = "sent" /\ q.sample = 0
    BY <1>1, RequestType
  <2> HIDE DEF q
  <2>3. Asked = {}
    BY <1>4 DEF ShellIInv, OneQuery
  <2>4. AskedIn(flight \cup {q}) = {q}
    BY <2>2, <2>3, AskedMore, AskedIs
  <2>5. Asked' = {q}
    BY <1>2, <2>1, <2>4
  <2>6. IsFiniteSet(flight \cup {q})
    BY <1>1, FS_AddElement
  <2>7. QED
    BY <1>1, <2>1, <2>2, <2>5, <2>6
<1>5. QED
  BY <1>3, <1>4

\* Nothing in flight becomes newer by a poll.
LEMMA JoinsForward ==
  ASSUME ShellIInv, UNCHANGED <<info, sample>>,
         \A r \in flight' : r \in flight \/ (r.phase = "sent" /\ r.sample = 0)
  PROVE  Forward'
<1>1. sample \in Nat /\ info \in Nat \cup {Nothing}
  BY DEF ShellIInv, ShellTypeOK
<1>2. \A r \in flight' : r.sample <= sample
  BY <1>1 DEF ShellIInv, Forward
<1>3. ASSUME info # Nothing, NEW r \in Asked', r.phase = "answered"
      PROVE  info <= r.sample
  <2>1. r \in flight' /\ r.kind = "system" /\ r.home
    BY <1>3 DEF Asked, Of
  <2>2. r \in Asked
    BY <1>3, <2>1 DEF Asked, Of
  <2>3. QED
    BY <1>3, <2>2 DEF ShellIInv, Forward
<1>4. QED
  BY <1>2, <1>3 DEF ShellIInv, Forward

LEMMA PollsStep ==
  ASSUME ShellIInv, HasRoom(flight, "system"), page = "telemetry", Polls,
         UNCHANGED <<server, layout, page, info, error>>,
         moves' \in Nat, changes' \in Nat
  PROVE  ShellIInv'
<1>1. flight' = Joins(flight).flight /\ waiting' = TRUE /\ timer' = FALSE /\ pending' = TRUE
      /\ refreshing' = (refreshing \/ Joins(flight).asks)
  BY DEF Polls
<1>2. /\ flight' \subseteq Requests /\ IsFiniteSet(flight')
      /\ \E r \in Asked' : Asked' = {r}
      /\ \A r \in flight' : r \in flight \/ (r.phase = "sent" /\ r.sample = 0)
      /\ Joins(flight).asks \in BOOLEAN
  BY <1>1, JoinsOne
<1>3. OneQuery'
  BY <1>1, <1>2, OneQueryNext
<1>4. Forward'
  BY <1>2, JoinsForward DEF server
<1>5. ShellTypeOK'
  BY <1>1, <1>2 DEF ShellIInv, ShellTypeOK, Requests, server, layout
<1>6. QED
  BY <1>2, <1>3, <1>4, <1>5 DEF ShellIInv

LEMMA RefreshStep ==
  ASSUME ShellIInv, Refresh
  PROVE  ShellIInv'
<1>1. /\ flight' = Joins(flight).flight /\ HasRoom(flight, "system")
      /\ pending' = TRUE /\ refreshing' = TRUE /\ page = "telemetry"
      /\ UNCHANGED <<server, layout, page, info, error, waiting, timer>>
      /\ moves' = moves + 1 /\ changes' = changes
  BY DEF Refresh, Moved
<1>2. /\ flight' \subseteq Requests /\ IsFiniteSet(flight')
      /\ \E r \in Asked' : Asked' = {r}
      /\ \A r \in flight' : r \in flight \/ (r.phase = "sent" /\ r.sample = 0)
  BY <1>1, JoinsOne
<1>3. OneQuery'
  BY <1>1, <1>2, OneQueryNext DEF ShellIInv, OneQuery
<1>4. Forward'
  BY <1>1, <1>2, JoinsForward DEF server
<1>5. ShellTypeOK'
  BY <1>1, <1>2 DEF ShellIInv, ShellTypeOK, Requests, server, layout
<1>6. QED
  BY <1>2, <1>3, <1>4, <1>5 DEF ShellIInv

LEMMA MountsStep ==
  ASSUME ShellIInv, NEW p \in {"telemetry", "other"}, Mounts(p, flight),
         p = "telemetry" => HasRoom(flight, "system"),
         UNCHANGED <<server, layout>>, moves' \in Nat, changes' \in Nat
  PROVE  ShellIInv'
<1> DEFINE t == p = "telemetry"
           q == Request(flight, "system")
           more == IF p = "telemetry" THEN {q} ELSE {}
<1>1. flight \subseteq Requests /\ stored \in Keys \cup {NoKey} /\ IsFiniteSet(flight)
  BY FlightType DEF ShellIInv, ShellTypeOK
<1>2. /\ page' = p /\ info' = Nothing /\ error' = FALSE /\ timer' = FALSE
      /\ waiting' = t /\ pending' = t /\ refreshing' = t
      /\ flight' = Orphaned(flight) \cup more
  BY DEF Mounts
<1>3. /\ Orphaned(flight) \subseteq Requests /\ IsFiniteSet(Orphaned(flight))
      /\ AskedIn(Orphaned(flight)) = {}
      /\ \A r \in Orphaned(flight) : \E o \in flight : r.sample = o.sample
  BY <1>1, OrphanedType
<1>4. t => q \in Requests /\ q.kind = "system" /\ q.home = TRUE /\ q.sample = 0
  BY <1>1, RequestType
<1> HIDE DEF q
<1>5. IsFiniteSet(flight') /\ flight' \subseteq Requests
  <2>1. CASE t
    BY <1>2, <1>3, <1>4, <2>1, FS_AddElement
  <2>2. CASE ~t
    BY <1>2, <1>3, <2>2
  <2>3. QED
    BY <2>1, <2>2
<1>6. AskedIn(flight') = more
  BY <1>2, <1>3, <1>4, AskedMore
<1>7. Asked' = more
  BY <1>6 DEF Asked, AskedIn, Of
<1>8. OneQuery'
  BY <1>2, <1>7, OneQueryNext
<1>9. sample' = sample /\ sample \in Nat
  BY DEF server, ShellIInv, ShellTypeOK
<1>10. \A r \in flight' : r.sample <= sample
  BY <1>2, <1>3, <1>4, <1>9 DEF ShellIInv, Forward
<1>11. Forward'
  BY <1>2, <1>9, <1>10 DEF Forward
<1>12. ShellTypeOK'
  BY <1>2, <1>5 DEF ShellIInv, ShellTypeOK, Requests, server, layout
<1>13. QED
  BY <1>5, <1>8, <1>11, <1>12 DEF ShellIInv

-------------------------------------------------------------------------------
(* Answers                                                                 *)

LEMMA ServeStep ==
  ASSUME ShellIInv, NEW r \in flight, Serve(r)
  PROVE  ShellIInv'
<1>1. PICK a \in {"ok", "denied", "failed"} :
        flight' = (flight \ {r}) \cup
          {[r EXCEPT !.phase = "answered", !.answer = a, !.sample = sample]}
  BY DEF Serve
<1> DEFINE q == [r EXCEPT !.phase = "answered", !.answer = a, !.sample = sample]
<1>2. /\ UNCHANGED <<server, layout, page, hook, moves, changes>>
      /\ flight \subseteq Requests /\ r \in Requests /\ sample \in Nat /\ IsFiniteSet(flight)
      /\ info \in Nat \cup {Nothing} /\ pending \in BOOLEAN
  BY FlightType DEF Serve, ShellIInv, ShellTypeOK
<1>3. q \in Requests /\ q.kind = r.kind /\ q.home = r.home /\ q.sample = sample
  BY <1>2 DEF Requests
<1>4. flight' = (flight \ {r}) \cup {q}
  BY <1>1
<1> HIDE DEF q
<1>5. flight' \subseteq Requests
  BY <1>2, <1>3, <1>4
<1>6. IsFiniteSet(flight')
  <2>1. IsFiniteSet(flight \ {r})
    BY <1>2, FS_RemoveElement
  <2>2. QED
    BY <1>4, <2>1, FS_AddElement
<1>7. Asked' = AskedIn(flight')
  BY DEF Asked, AskedIn, Of
<1>8. IF pending THEN \E x \in Asked' : Asked' = {x} ELSE Asked' = {}
  <2>1. AskedIn(flight') = (Asked \ {r}) \cup (IF r \in Asked THEN {q} ELSE {})
    BY <1>3, <1>4 DEF AskedIn, Asked, Of
  <2>2. IF pending THEN \E x \in flight : Asked = {x} ELSE Asked = {}
    BY DEF ShellIInv, OneQuery
  <2>3. QED
    BY <1>2, <1>7, <2>1, <2>2
<1>9. OneQuery'
  BY <1>2, <1>8, OneQueryNext DEF ShellIInv, OneQuery, hook
<1>10. Forward'
  <2>1. \A x \in flight' : x.sample <= sample
    BY <1>2, <1>3, <1>4 DEF ShellIInv, Forward
  <2>2. ASSUME info # Nothing, NEW x \in Asked', x.phase = "answered"
        PROVE  info <= x.sample
    <3>1. x = q \/ x \in Asked
      BY <2>2, <1>4 DEF Asked, Of
    <3>2. QED
      BY <1>2, <1>3, <2>2, <3>1 DEF ShellIInv, Forward
  <2>3. QED
    BY <1>2, <2>1, <2>2 DEF ShellIInv, Forward, server, hook
<1>11. ShellTypeOK'
  BY <1>2, <1>5 DEF ShellIInv, ShellTypeOK, Requests, server, layout, hook
<1>12. QED
  BY <1>6, <1>9, <1>10, <1>11 DEF ShellIInv

LEMMA SystemAnsweredStep ==
  ASSUME ShellIInv, NEW r \in flight, SystemAnswered(r)
  PROVE  ShellIInv' /\ (page' = page /\ info # Nothing /\ info' # Nothing => info' >= info)
<1>1. /\ flight' = flight \ {r} /\ r.kind = "system" /\ r.phase = "answered"
      /\ keyOpen' = (keyOpen \/ AsksForKey(r))
      /\ UNCHANGED <<server, stored, typedKey, online, page, moves, changes>>
  BY DEF SystemAnswered
<1>2. /\ flight \subseteq Requests /\ r \in Requests /\ IsFiniteSet(flight)
      /\ sample \in Nat /\ info \in Nat \cup {Nothing}
      /\ pending \in BOOLEAN /\ waiting \in BOOLEAN /\ timer \in BOOLEAN
  BY FlightType DEF ShellIInv, ShellTypeOK
<1>3. r.answer \in {"ok", "denied", "failed"} /\ r.sample \in Nat /\ r.home \in BOOLEAN
  BY <1>2 DEF Requests
<1>4. IsFiniteSet(flight') /\ flight' \subseteq Requests
  BY <1>1, <1>2, FS_RemoveElement
<1>5. \A x \in flight' : x.sample <= sample
  BY <1>1 DEF ShellIInv, Forward
<1>6. Asked' = Asked \ {r}
  BY <1>1 DEF Asked, Of
<1>7. CASE ~r.home
  <2>1. UNCHANGED hook
    BY <1>7 DEF SystemAnswered
  <2>2. Asked' = Asked
    BY <1>6, <1>7 DEF Asked, Of
  <2>3. OneQuery'
    BY <1>1, <2>1, <2>2, OneQueryNext DEF ShellIInv, OneQuery, hook
  <2>4. Forward'
    BY <1>1, <1>5, <2>1, <2>2 DEF ShellIInv, Forward, server, hook
  <2>5. ShellTypeOK'
    BY <1>1, <1>4, <2>1 DEF ShellIInv, ShellTypeOK, Requests, server, hook, AsksForKey
  <2>6. QED
    BY <1>2, <1>4, <2>1, <2>3, <2>4, <2>5 DEF ShellIInv, hook
<1>8. CASE r.home
  <2>1. r \in Asked
    BY <1>1, <1>8 DEF Asked, Of
  <2>2. pending /\ Asked' = {}
    BY <1>2, <1>6, <2>1 DEF ShellIInv, OneQuery
  <2>3. /\ info' = IF r.answer = "ok" THEN r.sample ELSE info
        /\ error' = (r.answer # "ok")
        /\ pending' = FALSE /\ refreshing' = FALSE
        /\ timer' = (timer \/ (waiting /\ GoesOn(r)))
        /\ waiting' = FALSE
    BY <1>8 DEF SystemAnswered
  <2>4. GoesOn(r)
    BY <1>3 DEF GoesOn
  <2>5. OneQuery'
    BY <1>1, <1>2, <2>2, <2>3, <2>4, OneQueryNext DEF ShellIInv, OneQuery
  <2>6. info' \in Nat \cup {Nothing} /\ (info' # Nothing => info' <= sample)
    BY <1>2, <1>3, <2>3 DEF ShellIInv, Forward
  <2>7. Forward'
    BY <1>1, <1>5, <2>2, <2>6 DEF Forward, server
  <2>8. ShellTypeOK'
    BY <1>1, <1>2, <1>4, <2>3, <2>4, <2>6 DEF ShellIInv, ShellTypeOK, Requests, server, AsksForKey
  <2>9. info # Nothing => info <= r.sample
    BY <1>1, <2>1 DEF ShellIInv, Forward
  <2>10. info # Nothing /\ info' # Nothing => info' >= info
    BY <1>2, <1>3, <2>3, <2>9
  <2>11. QED
    BY <1>4, <2>5, <2>7, <2>8, <2>10 DEF ShellIInv
<1>9. QED
  BY <1>3, <1>7, <1>8

\* The requests of the lamp are none of the page's.
LEMMA HealthStep ==
  ASSUME ShellIInv, UNCHANGED <<server, page, hook, moves, changes>>,
         stored' = stored, typedKey' = typedKey, keyOpen' = keyOpen,
         online' \in BOOLEAN \cup {Nothing},
         flight' \subseteq Requests, IsFiniteSet(flight'), AskedIn(flight') = Asked,
         \A r \in flight' : r \in flight \/ r.sample = 0
  PROVE  ShellIInv'
<1>1. Asked' = Asked
  BY DEF Asked, AskedIn, Of
<1>2. OneQuery'
  BY <1>1, OneQueryNext DEF ShellIInv, OneQuery, hook
<1>3. sample \in Nat
  BY DEF ShellIInv, ShellTypeOK
<1>4. \A r \in flight' : r.sample <= sample
  BY <1>3 DEF ShellIInv, Forward
<1>5. Forward'
  BY <1>1, <1>4 DEF ShellIInv, Forward, server, hook
<1>6. ShellTypeOK'
  BY DEF ShellIInv, ShellTypeOK, Requests, server, hook
<1>7. QED
  BY <1>2, <1>5, <1>6 DEF ShellIInv

LEMMA HealthTickStep ==
  ASSUME ShellIInv, HealthTick
  PROVE  ShellIInv'
<1> DEFINE q == Request(flight, "health")
<1>1. flight \subseteq Requests /\ stored \in Keys \cup {NoKey} /\ IsFiniteSet(flight)
      /\ online \in BOOLEAN \cup {Nothing}
  BY FlightType DEF ShellIInv, ShellTypeOK
<1>2. flight' = flight \cup {q} /\ HasRoom(flight, "health")
      /\ UNCHANGED <<server, layout, page, hook, moves, changes>>
  BY DEF HealthTick
<1>3. q \in Requests /\ q.kind = "health" /\ q.sample = 0
  BY <1>1, <1>2, RequestType
<1> HIDE DEF q
<1>4. IsFiniteSet(flight') /\ flight' \subseteq Requests
  BY <1>1, <1>2, <1>3, FS_AddElement
<1>5. AskedIn(flight') = Asked
  BY <1>2, <1>3, AskedMore, AskedIs
<1>6. QED
  BY <1>1, <1>2, <1>3, <1>4, <1>5, HealthStep DEF layout

LEMMA HealthAnsweredStep ==
  ASSUME ShellIInv, NEW r \in flight, HealthAnswered(r)
  PROVE  ShellIInv'
<1>1. flight \subseteq Requests /\ IsFiniteSet(flight)
  BY FlightType DEF ShellIInv, ShellTypeOK
<1>2. flight' = flight \ {r} /\ r.kind = "health" /\ online' = Lamp(r)
      /\ UNCHANGED <<server, stored, typedKey, keyOpen, page, hook, moves, changes>>
  BY DEF HealthAnswered
<1>3. IsFiniteSet(flight') /\ flight' \subseteq Requests
  BY <1>1, <1>2, FS_RemoveElement
<1>4. AskedIn(flight') = Asked
  BY <1>2 DEF AskedIn, Asked, Of
<1>5. online' \in BOOLEAN
  BY <1>2 DEF Lamp
<1>6. QED
  BY <1>2, <1>3, <1>4, <1>5, HealthStep

-------------------------------------------------------------------------------
(* The key                                                                 *)

\* A page that is loaded with a key asks once.
LEMMA FirstRequestsType ==
  ASSUME NEW p \in {"telemetry", "other"}, NEW key \in Keys \cup {NoKey},
         stored \in Keys \cup {NoKey}
  PROVE  /\ FirstRequests(p, key) \subseteq Requests
         /\ IsFiniteSet(FirstRequests(p, key))
         /\ IF p = "telemetry"
            THEN \E r \in FirstRequests(p, key) : AskedIn(FirstRequests(p, key)) = {r}
            ELSE AskedIn(FirstRequests(p, key)) = {}
         /\ \A r \in FirstRequests(p, key) : r.sample = 0
<1> DEFINE first(kind) == [Request({}, kind) EXCEPT !.key = key]
           h == first("health")
           s == first("system")
<1>1. ASSUME NEW kind \in {"system", "health"}
      PROVE  /\ first(kind) \in Requests /\ first(kind).kind = kind
             /\ first(kind).home = TRUE /\ first(kind).sample = 0
  <2>1. Request({}, kind) \in Requests /\ Request({}, kind).kind = kind
        /\ Request({}, kind).home = TRUE /\ Request({}, kind).sample = 0
    BY NoneInFlight, RequestType
  <2>2. QED
    BY <2>1 DEF Requests
<1>2. h \in Requests /\ h.kind = "health" /\ h.sample = 0
  BY <1>1
<1>3. s \in Requests /\ s.kind = "system" /\ s.home = TRUE /\ s.sample = 0
  BY <1>1
<1>4. FirstRequests(p, key) = IF p = "telemetry" THEN {h, s} ELSE {h}
  BY DEF FirstRequests
<1> HIDE DEF h, s
<1>5. IsFiniteSet({h}) /\ IsFiniteSet({h} \cup {s}) /\ {h, s} = {h} \cup {s}
  BY FS_Singleton, FS_AddElement
<1>6. AskedIn({h}) = {} /\ AskedIn({h, s}) = {s}
  BY <1>2, <1>3 DEF AskedIn
<1>7. QED
  BY <1>2, <1>3, <1>4, <1>5, <1>6

LEMMA SaveKeyStep ==
  ASSUME ShellIInv, SaveKey
  PROVE  ShellIInv'
<1> DEFINE fl == FirstRequests(page, typedKey)
<1>1. /\ stored' = typedKey /\ typedKey' = typedKey /\ keyOpen' = FALSE /\ online' = Nothing
      /\ page' = page /\ info' = Nothing /\ error' = FALSE /\ timer' = FALSE
      /\ waiting' = (page = "telemetry") /\ pending' = (page = "telemetry")
      /\ refreshing' = (page = "telemetry")
      /\ flight' = fl /\ UNCHANGED server
      /\ moves' = moves + 1 /\ changes' = changes
  BY DEF SaveKey, Moved
<1>2. page \in {"telemetry", "other"} /\ typedKey \in Keys \cup {NoKey}
      /\ stored \in Keys \cup {NoKey} /\ sample \in Nat
  BY DEF ShellIInv, ShellTypeOK
<1>3. /\ fl \subseteq Requests /\ IsFiniteSet(fl)
      /\ IF page = "telemetry" THEN \E r \in fl : AskedIn(fl) = {r} ELSE AskedIn(fl) = {}
      /\ \A r \in fl : r.sample = 0
  BY <1>2, FirstRequestsType
<1> HIDE DEF fl
<1>4. Asked' = AskedIn(fl)
  BY <1>1 DEF Asked, AskedIn, Of
<1>5. OneQuery'
  BY <1>1, <1>3, <1>4, OneQueryNext
<1>6. Forward'
  BY <1>1, <1>2, <1>3 DEF Forward, server
<1>7. ShellTypeOK'
  <2>1. StateTypes
    BY TypeParts DEF ShellIInv
  <2>2. ServerTypes'
    BY <1>1, <2>1 DEF StateTypes, ServerTypes, server
  <2>3. LayoutTypes'
    BY <1>1, <1>2 DEF LayoutTypes
  <2>4. HookTypes'
    BY <1>1, <1>2, Zenon DEF HookTypes
  <2>5. CountTypes'
    BY <1>1, <2>1 DEF StateTypes, CountTypes
  <2>6. QED
    BY <1>1, <1>3, <2>2, <2>3, <2>4, <2>5, TypePartsNext DEF StateTypes
<1>8. QED
  BY <1>1, <1>3, <1>5, <1>6, <1>7 DEF ShellIInv

\* Steps that leave the page and its requests alone.
LEMMA QuietStep ==
  ASSUME ShellIInv, UNCHANGED <<page, hook, flight>>, ShellTypeOK', sample' >= sample
  PROVE  ShellIInv'
<1>1. Asked' = Asked
  BY DEF Asked, Of
<1>2. OneQuery'
  BY <1>1 DEF ShellIInv, OneQuery, hook
<1>3. sample \in Nat /\ sample' \in Nat /\ info \in Nat \cup {Nothing}
      /\ flight \subseteq Requests
  BY FlightType DEF ShellIInv, ShellTypeOK
<1>4. \A r \in flight : r.sample \in Nat /\ r.sample <= sample'
  BY <1>3 DEF ShellIInv, Forward, Requests
<1>5. info # Nothing => info <= sample'
  BY <1>3 DEF ShellIInv, Forward
<1>6. Forward'
  BY <1>1, <1>4, <1>5 DEF ShellIInv, Forward, hook
<1>7. QED
  BY <1>2, <1>6 DEF ShellIInv

-------------------------------------------------------------------------------
LEMMA InitInv == ShellInit => ShellIInv
<1> SUFFICES ASSUME ShellInit
             PROVE  ShellIInv
  OBVIOUS
<1>1. page \in {"telemetry", "other"} /\ stored \in Keys \cup {NoKey}
      /\ flight = FirstRequests(page, stored) /\ sample = 0 /\ info = Nothing
  BY DEF ShellInit
<1>2. /\ flight \subseteq Requests /\ IsFiniteSet(flight)
      /\ IF page = "telemetry" THEN \E r \in flight : AskedIn(flight) = {r}
                               ELSE AskedIn(flight) = {}
      /\ \A r \in flight : r.sample = 0
  BY <1>1, FirstRequestsType
<1>3. OneQuery
  BY <1>2, AskedIs DEF ShellInit, OneQuery
<1>4. Forward
  BY <1>1, <1>2 DEF Forward
<1>5. ShellTypeOK
  BY <1>2 DEF ShellInit, ShellTypeOK, Requests
<1>6. QED
  BY <1>2, <1>3, <1>4, <1>5 DEF ShellIInv

\* Every step keeps the invariant and takes nothing shown back.
LEMMA NextInv ==
  ASSUME ShellIInv, [ShellNext]_shellVars
  PROVE  ShellIInv' /\ (page' = page /\ info # Nothing /\ info' # Nothing => info' >= info)
<1>0. moves \in Nat /\ changes \in Nat /\ sample \in Nat /\ info \in Nat \cup {Nothing}
  BY DEF ShellIInv, ShellTypeOK
<1>1. ASSUME NEW p \in {"telemetry", "other"}, Navigate(p)
      PROVE  ShellIInv' /\ info' = Nothing
  <2>1. Mounts(p, flight) /\ (p = "telemetry" => HasRoom(flight, "system"))
        /\ UNCHANGED <<server, layout>> /\ moves' \in Nat /\ changes' \in Nat
    BY <1>0, <1>1 DEF Navigate, Moved
  <2>2. ShellIInv'
    BY <2>1, MountsStep
  <2>3. QED
    BY <2>1, <2>2 DEF Mounts
<1>2. CASE EffectAgain
  <2>1. ShellIInv'
    BY <1>0, <1>2, PollsStep DEF EffectAgain, Moved
  <2>2. QED
    BY <1>0, <1>2, <2>1 DEF EffectAgain
<1>3. CASE Timeout
  <2>1. page = "telemetry"
    BY <1>3 DEF Timeout, ShellIInv, OneQuery
  <2>2. ShellIInv'
    BY <1>0, <1>3, <2>1, PollsStep DEF Timeout
  <2>3. QED
    BY <1>0, <1>3, <2>2 DEF Timeout
<1>4. CASE Refresh
  BY <1>0, <1>4, RefreshStep DEF Refresh
<1>5. CASE HealthTick
  BY <1>0, <1>5, HealthTickStep DEF HealthTick, hook
<1>6. ASSUME NEW r \in flight, Serve(r)
      PROVE  ShellIInv' /\ info' = info
  BY <1>6, ServeStep DEF Serve, hook
<1>7. ASSUME NEW r \in flight, SystemAnswered(r)
      PROVE  ShellIInv' /\ (page' = page /\ info # Nothing /\ info' # Nothing => info' >= info)
  BY <1>7, SystemAnsweredStep
<1>8. ASSUME NEW r \in flight, HealthAnswered(r)
      PROVE  ShellIInv' /\ info' = info
  BY <1>8, HealthAnsweredStep DEF HealthAnswered, hook
<1>9. CASE \/ \E open \in BOOLEAN : SetKeyOpen(open)
           \/ \E k \in Keys \cup {NoKey} : TypeKey(k)
           \/ ClearKey
  <2>1. StateTypes /\ flight \subseteq Requests
    BY TypeParts DEF ShellIInv
  <2>2. UNCHANGED <<server, page, hook, flight>>
    BY <1>9 DEF SetKeyOpen, TypeKey, ClearKey
  <2>3. StateTypes'
    <3>1. ServerTypes' /\ HookTypes'
      BY <2>1, <2>2, Zenon DEF StateTypes, ServerTypes, HookTypes, server, hook
    <3>2. CountTypes'
      BY <1>9, <2>1 DEF SetKeyOpen, TypeKey, ClearKey, Moved, StateTypes, CountTypes
    <3>3. LayoutTypes'
      BY <1>9, <2>1, Zenon DEF SetKeyOpen, TypeKey, ClearKey, StateTypes, LayoutTypes
    <3>4. QED
      BY <3>1, <3>2, <3>3 DEF StateTypes
  <2>4. ShellTypeOK'
    BY <2>1, <2>2, <2>3, TypePartsNext
  <2>5. QED
    BY <1>0, <2>2, <2>4, QuietStep DEF server, hook
<1>10. CASE SaveKey
  BY <1>10, SaveKeyStep DEF SaveKey
<1>11. CASE World
  <2>1. UNCHANGED <<layout, page, hook, flight>> /\ sample' \in {sample, sample + 1}
    BY <1>11 DEF World, Outage, NewSample, Restart
  <2>2. StateTypes /\ flight \subseteq Requests
    BY TypeParts DEF ShellIInv
  <2>3. StateTypes'
    <3>1. LayoutTypes' /\ HookTypes'
      BY <2>1, <2>2, Zenon DEF StateTypes, LayoutTypes, HookTypes, layout, hook
    <3>2. CountTypes'
      BY <1>11, <2>2 DEF World, Outage, NewSample, Restart, Changed, StateTypes, CountTypes
    <3>3. sample' \in Nat
      BY <1>0, <2>1
    <3>4. up' \in BOOLEAN /\ serverKey' \in Keys \cup {NoKey}
      BY <1>11, <2>2, Zenon
      DEF World, Outage, NewSample, Restart, StateTypes, ServerTypes
    <3>5. QED
      BY <2>2, <3>1, <3>2, <3>3, <3>4 DEF StateTypes, ServerTypes
  <2>4. ShellTypeOK'
    BY <2>1, <2>2, <2>3, TypePartsNext
  <2>5. QED
    BY <1>0, <2>1, <2>4, QuietStep DEF hook
<1>12. CASE UNCHANGED shellVars
  <2>1. ShellTypeOK'
    BY <1>12 DEF shellVars, server, layout, hook, ShellIInv, ShellTypeOK
  <2>2. QED
    BY <1>0, <1>12, <2>1, QuietStep DEF shellVars, server, hook
<1>13. QED
  BY <1>0, <1>1, <1>2, <1>3, <1>4, <1>5, <1>6, <1>7, <1>8, <1>9, <1>10, <1>11, <1>12
  DEF ShellNext, Deliver

(* The states of the frame and of the hook and the requests keep their     *)
(* types, and a request always finds a number (Layout.tsx, useSystem.ts).  *)
THEOREM ShellTypeCorrect == ShellSpec => []ShellTypeOK
<1>1. ShellIInv => ShellTypeOK
  BY DEF ShellIInv
<1>2. ShellIInv /\ [ShellNext]_shellVars => ShellIInv'
  BY NextInv
<1>3. QED
  BY <1>1, <1>2, InitInv, PTL DEF ShellSpec

(* Slow telemetry never makes a page ask twice: one loop, one request,     *)
(* whatever the button, the timeout and a repeated effect do, in any order *)
(* of the answers (useSystem.ts).                                          *)
THEOREM OneQueryAtATime == ShellSpec => []OneQuery
<1>1. ShellIInv => OneQuery
  BY DEF ShellIInv
<1>2. ShellIInv /\ [ShellNext]_shellVars => ShellIInv'
  BY NextInv
<1>3. QED
  BY <1>1, <1>2, InitInv, PTL DEF ShellSpec

(* What a page shows of the telemetry is never replaced by an older        *)
(* answer.                                                                 *)
THEOREM TelemetryNeverBack == ShellSpec => TelemetryForward
<1>1. ShellIInv /\ [ShellNext]_shellVars => ShellIInv'
  BY NextInv
<1>2. ShellIInv /\ [ShellNext]_shellVars =>
        [page' = page /\ info # Nothing /\ info' # Nothing => info' >= info]_shellVars
  BY NextInv
<1>3. QED
  BY <1>1, <1>2, InitInv, PTL DEF ShellSpec, TelemetryForward
===============================================================================
