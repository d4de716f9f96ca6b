-------------------------------- MODULE LogStore --------------------------------
(***************************************************************************)
(* The in-memory logs (src/internal/logs/logs.go): one bounded buffer per  *)
(* model, mirrored line by line into the buffer of its runtime, and live   *)
(* subscribers, the event streams of the API, that get a replay of recent  *)
(* lines and then every new one.                                           *)
(*                                                                         *)
(* Buffers are objects: Remove only takes one out of the store, and the    *)
(* processes, streams and loads that hold it go on using it.  An append    *)
(* keeps the mutex of the model's buffer while it takes the mutex of the   *)
(* runtime's, so it is two steps with the first buffer locked between.     *)
(***************************************************************************)
EXTENDS Naturals, FiniteSets, Sequences, SequencesExt

CONSTANTS
  Ids,       \* model IDs
  Bufs,      \* buffer objects of models
  Runtimes,  \* the buffers of the runtimes, which are never removed
  Subs,      \* subscribers
  Cap,       \* lines a buffer keeps
  QueueCap,  \* lines a subscriber's channel holds (256 in the code)
  Replays,   \* numbers of lines a subscriber asks to be replayed
  MaxLines,  \* bound of the model: lines first appended to one buffer
  None

ASSUME BoundAssumption ==
  Cap \in Nat \ {0} /\ QueueCap \in Nat \ {0} /\ MaxLines \in Nat /\ Replays \subseteq Nat

AllBufs == Bufs \cup Runtimes
MaxTotal == MaxLines * (Cardinality(Bufs) + 1)

VARIABLES
  store,   \* Store.buffers: the buffer object of each model
  lines,   \* Buffer.lines
  mirror,  \* Buffer.mirror
  pending, \* the line a locked buffer is about to mirror, None: not locked
  sub,     \* subscribers: buffer, channel, what was sent to the client
  hist,    \* history: every line ever appended to a buffer
  since    \* history: length of the buffer's hist when it was last bound

vars == <<store, lines, mirror, pending, sub, hist, since>>

\* A line is the buffer it was first appended to and its number there.
Line == [from : AllBufs, n : 1 .. MaxLines]

\* A runtime's buffer is named "runtime:...", a model's is its id (logs.go 143).
ASSUME NamesAssumption == Bufs \cap Runtimes = {} /\ None \notin AllBufs \cup Line

\* The last n elements; all of them for n = 0, or when there are fewer.
LastOf(seq, n) ==
  IF n = 0 \/ n > Len(seq) THEN seq ELSE SubSeq(seq, Len(seq) - n + 1, Len(seq))

Push(seq, l) == IF Len(seq) >= Cap THEN Append(Tail(seq), l) ELSE Append(seq, l)

NoSub == [buf |-> None, queue |-> <<>>, got |-> <<>>, dropped |-> FALSE]

Known(b) == b \in Runtimes \/ (\E id \in Ids : store[id] = b) \/ hist[b] # <<>>
            \/ mirror[b] # None \/ \E s \in Subs : sub[s].buf = b
Unlocked(b) == pending[b] = None

\* Lines first appended to b, not mirrored into it.
Own(b) == Cardinality({k \in DOMAIN hist[b] : hist[b][k].from = b})

Init ==
  /\ store = [id \in Ids |-> None]
  /\ lines = [b \in AllBufs |-> <<>>]
  /\ mirror = [b \in AllBufs |-> None]
  /\ pending = [b \in AllBufs |-> None]
  /\ sub = [s \in Subs |-> NoSub]
  /\ hist = [b \in AllBufs |-> <<>>]
  /\ since = [b \in AllBufs |-> 0]

-------------------------------------------------------------------------------
(* Append                                                                  *)

\* The line goes into b and into the channels of b's subscribers, except the
\* ones that are full.
Deliver(b, l) ==
  /\ lines' = [lines EXCEPT ![b] = Push(@, l)]
  /\ hist' = [hist EXCEPT ![b] = Append(@, l)]
  /\ sub' = [s \in Subs |->
       IF sub[s].buf # b THEN sub[s]
       ELSE IF Len(sub[s].queue) < QueueCap
            THEN [sub[s] EXCEPT !.queue = Append(@, l)]
            ELSE [sub[s] EXCEPT !.dropped = TRUE]]

\* Bug variant: the mutex is released before the line is mirrored.
AppendUnlocked(b) ==
  /\ Known(b) /\ Own(b) < MaxLines
  /\ LET l == [from |-> b, n |-> Own(b) + 1] IN
     /\ Deliver(b, l)
     /\ pending' = [pending EXCEPT ![b] = IF mirror[b] = None THEN None ELSE l]
  /\ UNCHANGED <<store, mirror, since>>

AppendLine(b) ==
  /\ Known(b) /\ Unlocked(b) /\ Own(b) < MaxLines
  /\ LET l == [from |-> b, n |-> Own(b) + 1] IN
     /\ Deliver(b, l)
     /\ pending' = [pending EXCEPT ![b] = IF mirror[b] = None THEN None ELSE l]
  /\ UNCHANGED <<store, mirror, since>>

MirrorLine(b) ==
  /\ ~Unlocked(b)
  /\ Deliver(mirror[b], pending[b])
  /\ pending' = [pending EXCEPT ![b] = None]
  /\ UNCHANGED <<store, mirror, since>>

-------------------------------------------------------------------------------
(* Subscribers                                                             *)

\* Bug variant: the replay is the oldest lines of the buffer.
SubscribeOldest(s, b, n) ==
  /\ sub[s].buf = None /\ Known(b) /\ Unlocked(b)
  /\ sub' = [sub EXCEPT ![s] =
       [NoSub EXCEPT !.buf = b, !.got = IF n = 0 \/ n > Len(lines[b]) THEN lines[b]
                                        ELSE SubSeq(lines[b], 1, n)]]
  /\ UNCHANGED <<store, lines, mirror, pending, hist, since>>

\* SubscribeWithReplay: snapshot and registration under one lock; the handler
\* sends the replay to the client first.
Subscribe(s, b, n) ==
  /\ sub[s].buf = None /\ Known(b) /\ Unlocked(b)
  /\ sub' = [sub EXCEPT ![s] =
       [buf |-> b, queue |-> <<>>, got |-> LastOf(lines[b], n), dropped |-> FALSE]]
  /\ UNCHANGED <<store, lines, mirror, pending, hist, since>>

Send(s) ==
  /\ sub[s].queue # <<>>
  /\ sub' = [sub EXCEPT ![s].queue = Tail(@), ![s].got = Append(@, Head(sub[s].queue))]
  /\ UNCHANGED <<store, lines, mirror, pending, hist, since>>

Cancel(s) ==
  /\ sub[s].buf # None /\ Unlocked(sub[s].buf)
  /\ sub' = [sub EXCEPT ![s] = NoSub]
  /\ UNCHANGED <<store, lines, mirror, pending, hist, since>>

-------------------------------------------------------------------------------
(* The store                                                               *)

\* Store.Get, which creates a buffer on first use: b is what it returns.
Getting(id, b) ==
  IF store[id] # None THEN b = store[id] /\ UNCHANGED store
  ELSE ~Known(b) /\ store' = [store EXCEPT ![id] = b]

Get(id, b) ==
  /\ store[id] = None
  /\ Getting(id, b)
  /\ UNCHANGED <<lines, mirror, pending, sub, hist, since>>

\* BindModel: at registration and at every load.
BindModel(id, b, t) ==
  /\ Getting(id, b)
  /\ Unlocked(b)
  /\ mirror' = [mirror EXCEPT ![b] = t]
  /\ since' = IF mirror[b] = t THEN since ELSE [since EXCEPT ![b] = Len(hist[b])]
  /\ UNCHANGED <<lines, pending, sub, hist>>

RemoveModel(id) ==
  /\ store[id] # None
  /\ store' = [store EXCEPT ![id] = None]
  /\ UNCHANGED <<lines, mirror, pending, sub, hist, since>>

Next ==
  \/ \E b \in AllBufs : AppendLine(b) \/ MirrorLine(b)
  \/ \E s \in Subs, b \in AllBufs, n \in Replays : Subscribe(s, b, n)
  \/ \E s \in Subs : Send(s) \/ Cancel(s)
  \/ \E id \in Ids, b \in Bufs : Get(id, b) \/ \E t \in Runtimes : BindModel(id, b, t)
  \/ \E id \in Ids : RemoveModel(id)

Spec == Init /\ [][Next]_vars

-------------------------------------------------------------------------------
(* Properties                                                              *)

IsLineSeq(seq, n) == Len(seq) <= n /\ \A k \in DOMAIN seq : seq[k] \in Line

TypeOK ==
  /\ store \in [Ids -> Bufs \cup {None}]
  /\ mirror \in [AllBufs -> Runtimes \cup {None}]
  /\ pending \in [AllBufs -> Line \cup {None}]
  /\ since \in [AllBufs -> 0 .. MaxLines]
  /\ \A b \in AllBufs : IsLineSeq(lines[b], Cap) /\ IsLineSeq(hist[b], MaxTotal)
  /\ \A s \in Subs :
       /\ sub[s].buf \in AllBufs \cup {None}
       /\ IsLineSeq(sub[s].queue, QueueCap) /\ IsLineSeq(sub[s].got, MaxTotal)
       /\ sub[s].dropped \in BOOLEAN

\* A buffer holds exactly the most recent lines, as many as it has room for.
KeepsMostRecent == \A b \in AllBufs : lines[b] = LastOf(hist[b], Cap)

Stream(s) == sub[s].got \o sub[s].queue

\* A subscriber gets replay and live lines without a gap or a repetition
\* between them: what it was sent and what waits in its channel is the tail
\* of the log.  A slow one loses lines, but none is repeated or out of order
\* (logs.go 82-85).
NoGap ==
  \A s \in Subs : sub[s].buf # None =>
    LET log == hist[sub[s].buf] IN
    /\ ~sub[s].dropped => IsSuffix(Stream(s), log)
    /\ \A i, j \in DOMAIN Stream(s) : i < j =>
         \E k, l \in DOMAIN log : k < l /\ log[k] = Stream(s)[i] /\ log[l] = Stream(s)[j]

\* How many lines of a buffer have been passed on to the runtime's log.
Mirrored(b) == IF Unlocked(b) THEN Len(hist[b]) ELSE Len(hist[b]) - 1

\* The runtime's log has every line of a model since the model was bound to
\* it, once and in order, however the lines of other models come between.
MirrorFollows ==
  \A b \in Bufs : mirror[b] # None =>
    LET log == hist[mirror[b]]
        its == {k \in DOMAIN log : log[k].from = b /\ log[k].n > since[b]}
    IN  /\ {log[k] : k \in its} = {hist[b][n] : n \in since[b] + 1 .. Mirrored(b)}
        /\ \A i, j \in its : i < j => log[i].n < log[j].n
===============================================================================
