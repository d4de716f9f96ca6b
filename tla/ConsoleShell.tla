---------------------------- MODULE ConsoleShell ----------------------------
(***************************************************************************)
(* The frame of the dashboard (components/Layout.tsx) with its connection  *)
(* lamp and the API key it keeps in the browser (lib/api.ts), around a     *)
(* page that polls the telemetry of the machine (hooks/useSystem.ts, used  *)
(* by pages/System.tsx and pages/Dashboard.tsx).  Each action is one turn  *)
(* of the browser's event loop.  Answers arrive in any order, and tell how *)
(* far the server's telemetry was when they were made.                     *)
(***************************************************************************)
EXTENDS Naturals, FiniteSets

CONSTANTS
  Keys,       \* API keys
  NoKey,      \* no key: nothing stored, nothing asked for
  Nothing,    \* nothing shown yet
  MaxFlight,  \* bound: requests of a kind in flight
  MaxMoves,   \* bound: steps of the user
  MaxChanges  \* bound: outages, restarts with another key, new telemetry

ASSUME ShellAssumption ==
    /\ NoKey \notin Keys
    /\ Nothing \notin Nat /\ Nothing \notin BOOLEAN
    /\ MaxFlight \in Nat \ {0} /\ MaxMoves \in Nat /\ MaxChanges \in Nat

VARIABLES
  up, serverKey, sample, \* the server: reachable, its key, its telemetry
  stored,                \* localStorage: the key requests carry
  typedKey, keyOpen,     \* Layout: the text of the key field, its dialog
  online,                \* Layout: the connection lamp
  page,                  \* telemetry or other
  info, error,           \* useSystem: the last answer, a failure
  refreshing,            \* useSystem: the refresh button is off
  pending,               \* useSystem: refresh has a request in flight
  waiting, timer,        \* useSystem: where its poll loop is
  flight,                \* requests whose answer is awaited
  moves, changes         \* steps of the user, and of the world, so far

server == <<up, serverKey, sample>>
layout == <<stored, typedKey, keyOpen, online>>
hook   == <<info, error, refreshing, pending, waiting, timer>>
shellVars   == <<server, layout, page, hook, flight, moves, changes>>

Moved   == moves < MaxMoves /\ moves' = moves + 1 /\ UNCHANGED changes
Changed == changes < MaxChanges /\ changes' = changes + 1 /\ UNCHANGED moves

------------------------------------------------------------------------------
\* Requests.

Of(fl, kind) == {r \in fl : r.kind = kind}
HasRoom(fl, kind) == Cardinality(Of(fl, kind)) < MaxFlight

\* request: the key is read from the storage when the request is sent.
Request(fl, kind) ==
    [kind |-> kind, key |-> stored, home |-> TRUE, phase |-> "sent",
     answer |-> "failed", sample |-> 0,
     n |-> CHOOSE n \in 1..MaxFlight : \A r \in Of(fl, kind) : r.n # n]

\* What a page that is loaded with a key asks for first.
FirstRequests(p, key) ==
    {[Request({}, kind) EXCEPT !.key = key] :
       kind \in {"health"} \cup IF p = "telemetry" THEN {"system"} ELSE {}}

Orphaned(fl) == {IF r.kind = "system" THEN [r EXCEPT !.home = FALSE] ELSE r : r \in fl}

\* The server answers.  Its health is told to everybody.
Serve(r) ==
    /\ r.phase = "sent"
    /\ LET answer == IF ~up THEN "failed"
                     ELSE IF r.kind = "system" /\ serverKey \notin {NoKey, r.key}
                          THEN "denied" ELSE "ok"
       IN flight' = (flight \ {r}) \cup
            {[r EXCEPT !.phase = "answered", !.answer = answer, !.sample = sample]}
    /\ UNCHANGED <<server, layout, page, hook, moves, changes>>

------------------------------------------------------------------------------
\* useSystem.

\* Mutant: every caller has its own request.
JoinsNothing(fl) == [flight |-> fl \cup {Request(fl, "system")}, asks |-> TRUE]

\* refresh: join the request in flight, or send one.
Joins(fl) == IF pending THEN [flight |-> fl, asks |-> FALSE]
             ELSE [flight |-> fl \cup {Request(fl, "system")}, asks |-> TRUE]

\* The effect: the loop calls refresh and waits for it.
Polls ==
    /\ flight' = Joins(flight).flight
    /\ refreshing' = (refreshing \/ Joins(flight).asks)
    /\ pending' = TRUE
    /\ waiting' = TRUE /\ timer' = FALSE

\* A page with telemetry is mounted anew, with the request of its first poll,
\* or it is left: alive goes down, the timeout is cleared, and a request that
\* is in flight stays so.
Mounts(p, fl) ==
    /\ page' = p
    /\ info' = Nothing /\ error' = FALSE
    /\ timer' = FALSE
    /\ waiting' = (p = "telemetry") /\ pending' = (p = "telemetry")
    /\ refreshing' = (p = "telemetry")
    /\ flight' = Orphaned(fl) \cup IF p = "telemetry" THEN {Request(fl, "system")} ELSE {}

\* From the dashboard to the system page is from telemetry to telemetry.
Navigate(p) ==
    /\ Moved
    /\ p = "telemetry" \/ page # p
    /\ p = "telemetry" => HasRoom(flight, "system")
    /\ Mounts(p, flight)
    /\ UNCHANGED <<server, layout>>

\* React runs the effect again on the same component, as StrictMode does: the
\* old loop is inactive, the new one joins its request.
EffectAgain ==
    /\ Moved /\ page = "telemetry" /\ HasRoom(flight, "system")
    /\ Polls
    /\ UNCHANGED <<server, layout, page, info, error>>

\* The loop's timeout.
Timeout ==
    /\ timer /\ HasRoom(flight, "system")
    /\ Polls
    /\ UNCHANGED <<server, layout, page, info, error, moves, changes>>

\* The refresh button, and Retry.
Refresh ==
    /\ Moved /\ page = "telemetry" /\ ~refreshing /\ HasRoom(flight, "system")
    /\ flight' = Joins(flight).flight
    /\ refreshing' = TRUE /\ pending' = TRUE
    /\ UNCHANGED <<server, layout, page, info, error, waiting, timer>>

\* Mutant: a failure ends the loop.
GoesOnIfOk(r) == r.answer = "ok"

\* After its refresh the loop sets its timeout, whatever the answer was.
GoesOn(r) == r.answer \in {"ok", "denied", "failed"}

\* parseError: a refused key opens the dialog of the frame.
AsksForKey(r) == r.answer = "denied"

\* refresh is answered.  Who awaits it goes on: the loop sets its timeout.
SystemAnswered(r) ==
    /\ r.kind = "system" /\ r.phase = "answered"
    /\ flight' = flight \ {r}
    /\ keyOpen' = (keyOpen \/ AsksForKey(r))
    /\ IF ~r.home THEN UNCHANGED hook
       ELSE /\ info' = IF r.answer = "ok" THEN r.sample ELSE info
            /\ error' = (r.answer # "ok")
            /\ pending' = FALSE /\ refreshing' = FALSE
            /\ timer' = (timer \/ (waiting /\ GoesOn(r)))
            /\ waiting' = FALSE
    /\ UNCHANGED <<server, stored, typedKey, online, page, moves, changes>>

------------------------------------------------------------------------------
\* Layout.

\* The interval of the connection lamp, which does not wait for answers.
HealthTick ==
    /\ HasRoom(flight, "health")
    /\ flight' = flight \cup {Request(flight, "health")}
    /\ UNCHANGED <<server, layout, page, hook, moves, changes>>

Lamp(r) == r.answer = "ok"

HealthAnswered(r) ==
    /\ r.kind = "health" /\ r.phase = "answered"
    /\ flight' = flight \ {r}
    /\ online' = Lamp(r)
    /\ UNCHANGED <<server, stored, typedKey, keyOpen, page, hook, moves, changes>>

\* The dialog is opened by its button and dismissed with Escape.
SetKeyOpen(open) ==
    /\ Moved /\ keyOpen # open
    /\ keyOpen' = open
    /\ UNCHANGED <<server, stored, typedKey, online, page, hook, flight>>

TypeKey(k) ==
    /\ Moved /\ keyOpen /\ typedKey # k
    /\ typedKey' = k
    /\ UNCHANGED <<server, stored, keyOpen, online, page, hook, flight>>

ClearKey ==
    /\ Moved /\ keyOpen
    /\ typedKey' = NoKey /\ stored' = NoKey /\ keyOpen' = FALSE
    /\ UNCHANGED <<server, online, page, hook, flight>>

\* Save stores the key and loads the page anew: whatever was in flight ends.
SaveKey ==
    /\ Moved /\ keyOpen
    /\ stored' = typedKey
    /\ UNCHANGED <<server, typedKey>>
    /\ keyOpen' = FALSE /\ online' = Nothing
    /\ page' = page
    /\ info' = Nothing /\ error' = FALSE /\ timer' = FALSE
    /\ waiting' = (page = "telemetry") /\ pending' = (page = "telemetry")
    /\ refreshing' = (page = "telemetry")
    /\ flight' = FirstRequests(page, typedKey)

------------------------------------------------------------------------------
\* The server.

Outage == Changed /\ up' = ~up /\ UNCHANGED <<serverKey, sample>>
Restart(k) == Changed /\ k # serverKey /\ serverKey' = k /\ UNCHANGED <<up, sample>>
NewSample == Changed /\ sample' = sample + 1 /\ UNCHANGED <<up, serverKey>>

World ==
    /\ Outage \/ NewSample \/ \E k \in Keys \cup {NoKey} : Restart(k)
    /\ UNCHANGED <<layout, page, hook, flight>>

ShellInit ==
    /\ up \in BOOLEAN /\ serverKey \in Keys \cup {NoKey} /\ sample = 0
    /\ stored \in Keys \cup {NoKey}
    /\ typedKey = stored /\ keyOpen = FALSE /\ online = Nothing
    /\ page \in {"telemetry", "other"}
    /\ info = Nothing /\ error = FALSE /\ timer = FALSE
    /\ waiting = (page = "telemetry") /\ pending = (page = "telemetry")
    /\ refreshing = (page = "telemetry")
    /\ flight = FirstRequests(page, stored)
    /\ moves = 0 /\ changes = 0

Deliver(r) == SystemAnswered(r) \/ HealthAnswered(r)

ShellNext ==
    \/ \E p \in {"telemetry", "other"} : Navigate(p)
    \/ EffectAgain
    \/ Timeout
    \/ Refresh
    \/ HealthTick
    \/ \E r \in flight : Serve(r) \/ Deliver(r)
    \/ \E open \in BOOLEAN : SetKeyOpen(open)
    \/ \E k \in Keys \cup {NoKey} : TypeKey(k)
    \/ ClearKey
    \/ SaveKey
    \/ World

ShellSpec == ShellInit /\ [][ShellNext]_shellVars

\* Timers fire, the server answers or the connection fails, and the browser
\* hands over what has arrived; no answer is overtaken for ever.
At(kind, n) == {r \in Of(flight, kind) : r.n = n}

ShellFairness ==
    /\ WF_shellVars(Timeout)
    /\ WF_shellVars(HealthTick)
    /\ \A kind \in {"system", "health"}, n \in 1..MaxFlight :
         /\ WF_shellVars(\E r \in At(kind, n) : Serve(r))
         /\ WF_shellVars(\E r \in At(kind, n) : Deliver(r))

LiveSpec == ShellSpec /\ ShellFairness

------------------------------------------------------------------------------
\* Properties.

\* The types of the states of Layout and useSystem and of the requests.
ShellTypeOK ==
    /\ up \in BOOLEAN /\ serverKey \in Keys \cup {NoKey} /\ sample \in Nat
    /\ stored \in Keys \cup {NoKey} /\ typedKey \in Keys \cup {NoKey}
    /\ keyOpen \in BOOLEAN /\ online \in BOOLEAN \cup {Nothing}
    /\ page \in {"telemetry", "other"}
    /\ info \in Nat \cup {Nothing} /\ error \in BOOLEAN
    /\ refreshing \in BOOLEAN /\ pending \in BOOLEAN
    /\ waiting \in BOOLEAN /\ timer \in BOOLEAN
    /\ flight \subseteq [kind: {"system", "health"}, key: Keys \cup {NoKey},
                         home: BOOLEAN, phase: {"sent", "answered"},
                         answer: {"ok", "denied", "failed"}, sample: Nat,
                         n: 1..MaxFlight]
    /\ moves \in Nat /\ changes \in Nat

Asked == {r \in Of(flight, "system") : r.home}

\* The telemetry of a page is polled by one loop with one request: it has a
\* request in flight exactly when refresh says so, never a second one, and
\* while the page is shown its loop either waits for that request or has its
\* timeout armed (useSystem: "Poll sequentially so slow hardware queries cannot
\* pile up", with the button and the effect that runs again beside the loop).
OneQuery ==
    /\ IF pending THEN \E r \in flight : Asked = {r} ELSE Asked = {}
    /\ waiting => pending
    /\ page = "telemetry" <=> (waiting \/ timer)
    /\ ~(waiting /\ timer)

\* What a page shows never goes back to an older answer.
TelemetryForward ==
    [][page' = page /\ info # Nothing /\ info' # Nothing => info' >= info]_shellVars

Fits == serverKey \in {NoKey, stored}
Current == page = "telemetry" /\ info = sample /\ ~error

\* A page that stays, with a key that fits and a server that stays up, shows
\* the newest telemetry in the end and no failure; the lamp tells in the end
\* whether the server is there; and where the key does not fit the user is asked
\* for it again and again.
ShellCatchesUp ==
    /\ <>[](page = "telemetry" /\ up /\ Fits) => <>[]Current
    /\ <>[]up => <>[](online = TRUE)
    /\ <>[]~up => <>[](online = FALSE)
    /\ <>[](page = "telemetry" /\ up /\ ~Fits) => []<>keyOpen

------------------------------------------------------------------------------
\* What does not hold; TLC shows how.

\* "Slow hardware queries cannot pile up": a page that is left does not cancel
\* its query, and the next page begins its own.
NoPileUp == Cardinality(Of(flight, "system")) <= 1

\* The label of the key button tells whether a key is stored: it tells what
\* stands in the field, also after the dialog was dismissed.
LabelIsStored == ~keyOpen => (typedKey # NoKey <=> stored # NoKey)
=============================================================================
