--------------------------- MODULE OnnxRuntimeProofs ---------------------------
(***************************************************************************)
(* Proofs about OnnxRuntime, for any models, session objects and requests. *)
(* Only Overrun = FALSE is an assumption, and only of the last theorem.    *)
(***************************************************************************)
EXTENDS OnnxRuntime, TLAPS

\* A session is open exactly while it is marked as running, and the map's
\* entry for a model is a session of that model.
OpenIffRunning == \A s \in Sessions : sess[s].open <=> sess[s].state = "running"
OwnEntries     == \A m \in Models : Mapped(m) => sess[sessions[m]].owner = m

\* The lock of the model: two of these steps are never in progress on it.
Serialized ==
  \A c, d \in Clients :
    /\ pc[c] \in {"create", "publish", "close"}
    /\ pc[d] \in {"create", "publish", "close"}
    /\ sess[cur[c]].owner = sess[cur[d]].owner
    => c = d

\* A run holds its session's runMu, and alone.
RunLocks ==
  \A c \in Clients : pc[c] = "run" => sess[cur[c]].open /\ sess[cur[c]].locked
RunExclusive ==
  \A c, d \in Clients : pc[c] = "run" /\ pc[d] = "run" /\ cur[c] = cur[d] => c = d

\* While a load is under way the entry it will overwrite is not open, nor is
\* its own placeholder; nobody else can reach the session it will publish.
LoadSafe ==
  /\ \A c \in Clients : pc[c] = "create" => ~sess[cur[c]].open
  /\ \A c \in Clients : pc[c] \in {"create", "publish", "close"} => sess[cur[c]].owner \in Models
  /\ \A c \in Clients : pc[c] \in {"create", "publish"} =>
       LET m == sess[cur[c]].owner IN Mapped(m) => ~sess[sessions[m]].open

\* After the drain nothing is under way and nothing is in the map.
ShutDown ==
  phase # "serving" =>
    /\ \A c \in Clients : pc[c] = "idle"
    /\ \A m \in Models : ~Mapped(m)

Inv == OpenIffRunning /\ OwnEntries /\ Serialized /\ LoadSafe /\ OpenTracked

-------------------------------------------------------------------------------
(* Types                                                                   *)

\* Sessions are being closed by Shutdown only while it runs.
ClosingInShutdown == phase # "shutdown" => closing = {}

\* The types, and what the types of a step need.
Base == Types /\ HasSession /\ ClosingInShutdown

LEMMA BaseInit == Init => Base
BY NullAssumption DEF Init, Base, ClosingInShutdown, HasSession, Types, Blank, SessionType, States, Labels

LEMMA ClosedType ==
  ASSUME NEW s \in Sessions, sess \in [Sessions -> SessionType]
  PROVE  /\ Closed(s) \in [Sessions -> SessionType]
         /\ \A r \in Sessions : Closed(s)[r].owner = sess[r].owner
         /\ \A r \in Sessions : Closed(s)[r].locked = sess[r].locked
         /\ \A r \in Sessions : r # s => Closed(s)[r] = sess[r]
         /\ ~Closed(s)[s].open /\ Closed(s)[s].state = "stopped"
<1> DEFINE f == [sess EXCEPT ![s].state = "stopped"]
<1>1. f \in [Sessions -> SessionType]
  BY DEF SessionType, States
<1>2. Closed(s) = [f EXCEPT ![s].open = FALSE]
  BY DEF Closed
<1>3. /\ f[s].owner = sess[s].owner /\ f[s].locked = sess[s].locked /\ f[s].state = "stopped"
      /\ \A r \in Sessions : r # s => f[r] = sess[r]
  BY DEF SessionType
<1> HIDE DEF f
<1> QED
  BY <1>1, <1>2, <1>3 DEF SessionType

LEMMA BaseStep == Base /\ [Next]_vars => Base'
<1> SUFFICES ASSUME Base, [Next]_vars PROVE Base'
  OBVIOUS
<1> USE NullAssumption DEF Base, ClosingInShutdown, HasSession, Types, SessionType, States, Labels, At, Goto, Return
<1>1. ASSUME NEW c \in Clients, NEW m \in Models, NEW s \in Sessions, BeginLoad(c, m, s)
      PROVE  Base'
  BY <1>1 DEF BeginLoad, Placeholder, Arrives, Blank
<1>2. ASSUME NEW c \in Clients, NEW m \in Models, BeginUnload(c, m)
      PROVE  Base'
  BY <1>2 DEF BeginUnload, Arrives, Mapped
<1>3. ASSUME NEW c \in Clients, NEW m \in Models, BeginInfer(c, m)
      PROVE  Base'
  BY <1>3 DEF BeginInfer, Arrives, Mapped
<1>4. ASSUME NEW c \in Clients, NEW s \in Sessions, Create(c, s)
      PROVE  Base'
  <2>1. cur[c] \in Sessions
    BY <1>4 DEF Create
  <2>2. [Blank EXCEPT !.owner = sess[cur[c]].owner, !.state = "running", !.open = TRUE] \in SessionType
    BY <2>1 DEF Blank
  <2>3. sess' \in [Sessions -> SessionType]
    BY <1>4, <2>2 DEF Create
  <2> QED
    BY <1>4, <2>3 DEF Create
<1>5. ASSUME NEW c \in Clients, CreateFails(c)
      PROVE  Base'
  BY <1>5 DEF CreateFails
<1>6. ASSUME NEW c \in Clients, Publish(c)
      PROVE  Base'
  BY <1>6 DEF Publish
<1>7. ASSUME NEW c \in Clients, Close(c)
      PROVE  Base'
  <2>1. cur[c] \in Sessions
    BY <1>7 DEF Close
  <2>2. sess' \in [Sessions -> SessionType]
    BY <1>7, <2>1, ClosedType DEF Close
  <2> QED
    BY <1>7, <2>2 DEF Close
<1>8. ASSUME NEW c \in Clients, Check(c)
      PROVE  Base'
  BY <1>8 DEF Check
<1>9. ASSUME NEW c \in Clients, Tokenize(c)
      PROVE  Base'
  BY <1>9 DEF Tokenize
<1>10. ASSUME NEW c \in Clients, BeginRun(c)
      PROVE  Base'
  <2>1. cur[c] \in Sessions
    BY <1>10 DEF BeginRun
  <2>2. sess' \in [Sessions -> SessionType]
    <3>1. [sess EXCEPT ![cur[c]].locked = TRUE] \in [Sessions -> SessionType]
      BY <2>1
    <3> QED
      BY <1>10, <3>1 DEF BeginRun
  <2> QED
    BY <1>10, <2>2 DEF BeginRun
<1>11. ASSUME NEW c \in Clients, EndRun(c)
      PROVE  Base'
  BY <1>11 DEF EndRun
<1>12. ASSUME BeginShutdown
      PROVE  Base'
  BY <1>12 DEF BeginShutdown
<1>13. ASSUME NEW s \in Sessions, ShutdownClose(s)
      PROVE  Base'
  BY <1>13, ClosedType DEF ShutdownClose
<1>14. ASSUME EndShutdown
      PROVE  Base'
  BY <1>14 DEF EndShutdown
<1>15. ASSUME Boot
      PROVE  Base'
  BY <1>15 DEF Boot, Blank
<1>16. CASE UNCHANGED vars
  BY <1>16 DEF vars
<1> QED
  BY <1>1, <1>2, <1>3, <1>4, <1>5, <1>6, <1>7, <1>8, <1>9, <1>10, <1>11, <1>12, <1>13, <1>14, <1>15, <1>16 DEF Next, Begin, Step

-------------------------------------------------------------------------------
(* No session is used after it has been destroyed                          *)

LEMMA RunStep == Base /\ RunLocks /\ RunExclusive /\ [Next]_vars => (RunLocks /\ RunExclusive)'
<1> SUFFICES ASSUME Base, RunLocks, RunExclusive, [Next]_vars
             PROVE  (RunLocks /\ RunExclusive)'
  OBVIOUS
<1> USE NullAssumption DEF Base, ClosingInShutdown, HasSession, Types, SessionType, RunLocks, RunExclusive, At, Goto, Return
<1>1. ASSUME NEW c \in Clients, NEW m \in Models, NEW s \in Sessions, BeginLoad(c, m, s)
      PROVE  (RunLocks /\ RunExclusive)'
  BY <1>1 DEF BeginLoad, Placeholder, Arrives, Blank, Referenced
<1>2. ASSUME NEW c \in Clients, NEW m \in Models, BeginUnload(c, m)
      PROVE  (RunLocks /\ RunExclusive)'
  BY <1>2 DEF BeginUnload, Arrives, Mapped
<1>3. ASSUME NEW c \in Clients, NEW m \in Models, BeginInfer(c, m)
      PROVE  (RunLocks /\ RunExclusive)'
  BY <1>3 DEF BeginInfer, Arrives, Mapped
<1>4. ASSUME NEW c \in Clients, NEW s \in Sessions, Create(c, s)
      PROVE  (RunLocks /\ RunExclusive)'
  BY <1>4 DEF Create, Blank, Referenced
<1>5. ASSUME NEW c \in Clients, CreateFails(c)
      PROVE  (RunLocks /\ RunExclusive)'
  BY <1>5 DEF CreateFails
<1>6. ASSUME NEW c \in Clients, Publish(c)
      PROVE  (RunLocks /\ RunExclusive)'
  BY <1>6 DEF Publish
<1>7. ASSUME NEW c \in Clients, Close(c)
      PROVE  (RunLocks /\ RunExclusive)'
  <2>1. cur[c] \in Sessions /\ ~sess[cur[c]].locked
    BY <1>7 DEF Close, CanClose
  <2>2. \A d \in Clients : pc'[d] = "run" => pc[d] = "run" /\ cur'[d] = cur[d] /\ cur[d] # cur[c]
    BY <1>7, <2>1 DEF Close
  <2>3. \A d \in Clients : pc[d] # "idle" => cur[d] \in Sessions
    OBVIOUS
  <2> QED
    BY <1>7, <2>1, <2>2, <2>3, ClosedType DEF Close
<1>8. ASSUME NEW c \in Clients, Check(c)
      PROVE  (RunLocks /\ RunExclusive)'
  BY <1>8 DEF Check
<1>9. ASSUME NEW c \in Clients, Tokenize(c)
      PROVE  (RunLocks /\ RunExclusive)'
  BY <1>9 DEF Tokenize
<1>10. ASSUME NEW c \in Clients, BeginRun(c)
      PROVE  (RunLocks /\ RunExclusive)'
  <2>1. CASE sess[cur[c]].open
    <3>1. cur[c] \in Sessions /\ pc[c] = "ready" /\ ~sess[cur[c]].locked
      BY <1>10 DEF BeginRun
    <3>2. sess'[cur[c]].open /\ sess'[cur[c]].locked
      BY <1>10, <2>1, <3>1 DEF BeginRun
    <3>3. \A d \in Clients : d # c /\ pc'[d] = "run" =>
            /\ pc[d] = "run" /\ cur'[d] = cur[d]
            /\ cur[d] \in Sessions /\ cur[d] # cur[c] /\ sess'[cur[d]] = sess[cur[d]]
      BY <1>10, <2>1, <3>1 DEF BeginRun
    <3>4. cur'[c] = cur[c]
      BY <1>10, <2>1 DEF BeginRun
    <3> QED
      BY <3>2, <3>3, <3>4
  <2>2. CASE ~sess[cur[c]].open
    BY <1>10, <2>2 DEF BeginRun
  <2> QED
    BY <2>1, <2>2
<1>11. ASSUME NEW c \in Clients, EndRun(c)
      PROVE  (RunLocks /\ RunExclusive)'
  <2>1. cur[c] \in Sessions /\ pc[c] = "run"
    BY <1>11 DEF EndRun
  <2>2. \A d \in Clients : pc'[d] = "run" =>
          /\ pc[d] = "run" /\ cur'[d] = cur[d]
          /\ cur[d] \in Sessions /\ cur[d] # cur[c]
    BY <1>11, <2>1 DEF EndRun
  <2>3. \A s \in Sessions : s # cur[c] => sess'[s] = sess[s]
    BY <1>11, <2>1 DEF EndRun
  <2> QED
    BY <2>2, <2>3
<1>12. ASSUME BeginShutdown
      PROVE  (RunLocks /\ RunExclusive)'
  BY <1>12 DEF BeginShutdown
<1>13. ASSUME NEW s \in Sessions, ShutdownClose(s)
      PROVE  (RunLocks /\ RunExclusive)'
  <2>1. \A d \in Clients : pc[d] = "run" => cur[d] \in Sessions /\ cur[d] # s
    BY <1>13 DEF ShutdownClose, CanClose
  <2> QED
    BY <1>13, <2>1, ClosedType DEF ShutdownClose
<1>14. ASSUME EndShutdown
      PROVE  (RunLocks /\ RunExclusive)'
  BY <1>14 DEF EndShutdown
<1>15. ASSUME Boot
      PROVE  (RunLocks /\ RunExclusive)'
  BY <1>15 DEF Boot, Blank
<1>16. CASE UNCHANGED vars
  BY <1>16 DEF vars
<1> QED
  BY <1>1, <1>2, <1>3, <1>4, <1>5, <1>6, <1>7, <1>8, <1>9, <1>10, <1>11, <1>12, <1>13, <1>14, <1>15, <1>16 DEF Next, Begin, Step

\* A native session is never destroyed under an inference, nor used after it
\* was destroyed, however infers, unloads and the shutdown overlap.
THEOREM NoDanglingUse == Spec => []NoUseAfterDestroy
<1>1. Init => Base /\ RunLocks /\ RunExclusive
  BY BaseInit DEF Init, RunLocks, RunExclusive
<1>2. Base /\ RunLocks /\ RunExclusive /\ [Next]_vars => (Base /\ RunLocks /\ RunExclusive)'
  BY BaseStep, RunStep
<1>3. RunLocks => NoUseAfterDestroy
  BY DEF RunLocks, NoUseAfterDestroy
<1> QED
  BY <1>1, <1>2, <1>3, PTL DEF Spec

-------------------------------------------------------------------------------
(* No session is lost                                                      *)

LEMMA InvInit == Init => Inv
BY NullAssumption DEF Init, Inv, OpenIffRunning, OwnEntries, Serialized, LoadSafe, OpenTracked, Mapped, Blank

LEMMA InvStep == Base /\ Inv /\ [Next]_vars => Inv'
<1> SUFFICES ASSUME Base, Inv, [Next]_vars PROVE Inv'
  OBVIOUS
<1> USE NullAssumption DEF Base, ClosingInShutdown, HasSession, Types, SessionType, At, Goto, Return, Locked, Mapped,
        Inv, OpenIffRunning, OwnEntries, Serialized, LoadSafe, OpenTracked
<1>1. ASSUME NEW c \in Clients, NEW m \in Models, NEW s \in Sessions, BeginLoad(c, m, s)
      PROVE  Inv'
  <2>1. /\ pc[c] = "idle" /\ \A d \in Clients : cur[d] # s
        /\ \A n \in Models : sessions[n] # s
        /\ \A d \in Clients : pc[d] \in {"create", "publish", "close"} => sess[cur[d]].owner # m
        /\ Mapped(m) => ~sess[sessions[m]].open
    BY <1>1 DEF BeginLoad, Arrives, Referenced, Replaceable
  <2>2. /\ sess'[s].owner = m /\ sess'[s].state = "starting" /\ ~sess'[s].open
        /\ \A q \in Sessions : q # s => sess'[q] = sess[q]
    BY <1>1 DEF BeginLoad, Placeholder, Blank
  <2>3. /\ pc'[c] = "create" /\ cur'[c] = s /\ sessions'[m] = s
        /\ \A d \in Clients : d # c => pc'[d] = pc[d] /\ cur'[d] = cur[d]
        /\ \A n \in Models : n # m => sessions'[n] = sessions[n]
        /\ closing' = closing
    BY <1>1 DEF BeginLoad
  <2>4. \A d \in Clients : pc[d] # "idle" => cur[d] \in Sessions
    OBVIOUS
  <2>5. OpenIffRunning'
    BY <1>1, <2>1, <2>2, <2>3, <2>4
  <2>6. OwnEntries'
    BY <1>1, <2>1, <2>2, <2>3, <2>4
  <2>7. Serialized'
    BY <1>1, <2>1, <2>2, <2>3, <2>4
  <2>8. LoadSafe'
    BY <1>1, <2>1, <2>2, <2>3, <2>4
  <2>9. OpenTracked'
    BY <1>1, <2>1, <2>2, <2>3, <2>4
  <2> QED
    BY <2>5, <2>6, <2>7, <2>8, <2>9
<1>2. ASSUME NEW c \in Clients, NEW m \in Models, BeginUnload(c, m)
      PROVE  Inv'
  BY <1>2 DEF BeginUnload, Arrives, Mapped
<1>3. ASSUME NEW c \in Clients, NEW m \in Models, BeginInfer(c, m)
      PROVE  Inv'
  BY <1>3 DEF BeginInfer, Arrives, Mapped
<1>4. ASSUME NEW c \in Clients, NEW s \in Sessions, Create(c, s)
      PROVE  Inv'
  BY <1>4 DEF Create, Blank, Referenced
<1>5. ASSUME NEW c \in Clients, CreateFails(c)
      PROVE  Inv'
  BY <1>5 DEF CreateFails
<1>6. ASSUME NEW c \in Clients, Publish(c)
      PROVE  Inv'
  BY <1>6 DEF Publish
<1>7. ASSUME NEW c \in Clients, Close(c)
      PROVE  Inv'
  <2>1. pc[c] = "close" /\ cur[c] \in Sessions
    BY <1>7 DEF Close
  <2>2. /\ pc'[c] = "idle" /\ sessions' = sessions /\ closing' = closing
        /\ \A d \in Clients : d # c => pc'[d] = pc[d] /\ cur'[d] = cur[d]
    BY <1>7 DEF Close
  <2>3. /\ \A q \in Sessions : sess'[q].owner = sess[q].owner
        /\ \A q \in Sessions : q # cur[c] => sess'[q] = sess[q]
        /\ ~sess'[cur[c]].open /\ sess'[cur[c]].state = "stopped"
    BY <1>7, <2>1, ClosedType DEF Close
  <2>4. \A d \in Clients : pc[d] # "idle" => cur[d] \in Sessions
    OBVIOUS
  <2>5. OpenIffRunning'
    BY <1>7, <2>1, <2>2, <2>3, <2>4
  <2>6. OwnEntries'
    BY <1>7, <2>1, <2>2, <2>3, <2>4
  <2>7. Serialized'
    BY <1>7, <2>1, <2>2, <2>3, <2>4
  <2>8. LoadSafe'
    <3>1. \A q \in Sessions : sess'[q].open => sess[q].open
      BY <2>1, <2>3
    <3>2. \A d \in Clients : pc'[d] \in {"create", "publish", "close"} =>
            /\ pc[d] = pc'[d] /\ cur'[d] = cur[d] /\ cur[d] \in Sessions
            /\ sess'[cur[d]].owner = sess[cur[d]].owner
      BY <2>2, <2>3, <2>4
    <3>3. ASSUME NEW d \in Clients, pc'[d] \in {"create", "publish", "close"}
          PROVE  /\ sess'[cur'[d]].owner \in Models
                 /\ pc'[d] = "create" => ~sess'[cur'[d]].open
      BY <3>1, <3>2, <3>3
    <3>4. ASSUME NEW d \in Clients, pc'[d] \in {"create", "publish"},
                 sessions'[sess'[cur'[d]].owner] # NoSession
          PROVE  ~sess'[sessions'[sess'[cur'[d]].owner]].open
      <4>1. /\ sess'[cur'[d]].owner = sess[cur[d]].owner /\ sess[cur[d]].owner \in Models
            /\ pc[d] \in {"create", "publish"}
        BY <3>2, <3>4
      <4>2. sessions[sess[cur[d]].owner] \in Sessions /\ ~sess[sessions[sess[cur[d]].owner]].open
        BY <2>2, <3>4, <4>1
      <4> QED
        BY <2>2, <3>1, <4>1, <4>2
    <3> QED
      BY <3>3, <3>4
  <2>9. OpenTracked'
    <3>1. ASSUME NEW q \in Sessions, sess'[q].open
          PROVE  \/ \E m \in Models : sessions'[m] = q
                 \/ \E d \in Clients : pc'[d] \in {"publish", "close"} /\ cur'[d] = q
                 \/ q \in closing'
      <4>1. sess[q].open /\ q # cur[c]
        BY <2>1, <2>3, <3>1
      <4>2. CASE \E d \in Clients : pc[d] \in {"publish", "close"} /\ cur[d] = q
        BY <2>2, <4>1, <4>2
      <4>3. CASE (\E m \in Models : sessions[m] = q) \/ q \in closing
        BY <2>2, <4>3
      <4> QED
        BY <4>1, <4>2, <4>3
    <3> QED
      BY <3>1
  <2> QED
    BY <2>5, <2>6, <2>7, <2>8, <2>9
<1>8. ASSUME NEW c \in Clients, Check(c)
      PROVE  Inv'
  <2>1. /\ pc[c] = "check" /\ sess' = sess /\ sessions' = sessions /\ closing' = closing
        /\ \A d \in Clients : d # c => pc'[d] = pc[d] /\ cur'[d] = cur[d]
        /\ pc'[c] \in {"idle", "tokenize", "ready"}
    BY <1>8 DEF Check
  <2>2. OpenIffRunning'
    BY <1>8, <2>1
  <2>3. OwnEntries'
    BY <1>8, <2>1
  <2>4. Serialized'
    BY <1>8, <2>1
  <2>5. LoadSafe'
    BY <1>8, <2>1
  <2>6. OpenTracked'
    BY <1>8, <2>1
  <2> QED
    BY <2>2, <2>3, <2>4, <2>5, <2>6
<1>9. ASSUME NEW c \in Clients, Tokenize(c)
      PROVE  Inv'
  BY <1>9 DEF Tokenize
<1>10. ASSUME NEW c \in Clients, BeginRun(c)
      PROVE  Inv'
  <2>1. /\ pc[c] = "ready" /\ sessions' = sessions /\ closing' = closing
        /\ \A d \in Clients : d # c => pc'[d] = pc[d] /\ cur'[d] = cur[d]
        /\ pc'[c] \in {"idle", "run"} /\ cur[c] \in Sessions
    BY <1>10 DEF BeginRun
  <2>2. \A q \in Sessions : /\ sess'[q].owner = sess[q].owner
                           /\ sess'[q].state = sess[q].state
                           /\ sess'[q].open = sess[q].open
    BY <1>10, <2>1 DEF BeginRun
  <2>3. \A d \in Clients : pc[d] # "idle" => cur[d] \in Sessions
    OBVIOUS
  <2>4. OpenIffRunning'
    BY <1>10, <2>1, <2>2, <2>3
  <2>5. OwnEntries'
    BY <1>10, <2>1, <2>2, <2>3
  <2>6. Serialized'
    BY <1>10, <2>1, <2>2, <2>3
  <2>7. LoadSafe'
    BY <1>10, <2>1, <2>2, <2>3
  <2>8. OpenTracked'
    <3>1. \A d \in Clients : pc[d] \in {"publish", "close"} => pc'[d] = pc[d] /\ cur'[d] = cur[d]
      BY <2>1
    <3>2. ASSUME NEW q \in Sessions, sess'[q].open
          PROVE  \/ \E m \in Models : sessions'[m] = q
                 \/ \E d \in Clients : pc'[d] \in {"publish", "close"} /\ cur'[d] = q
                 \/ q \in closing'
      <4>1. sess[q].open
        BY <2>2, <3>2
      <4>2. CASE \E d \in Clients : pc[d] \in {"publish", "close"} /\ cur[d] = q
        BY <3>1, <4>2
      <4>3. CASE (\E m \in Models : sessions[m] = q) \/ q \in closing
        BY <2>1, <4>3
      <4> QED
        BY <4>1, <4>2, <4>3
    <3> QED
      BY <3>2
  <2> QED
    BY <2>4, <2>5, <2>6, <2>7, <2>8
<1>11. ASSUME NEW c \in Clients, EndRun(c)
      PROVE  Inv'
  BY <1>11 DEF EndRun
<1>12. ASSUME BeginShutdown
      PROVE  Inv'
  <2>1. /\ sess' = sess /\ pc' = pc /\ cur' = cur
        /\ \A m \in Models : sessions'[m] = NoSession
        /\ closing' = {s \in Sessions : \E m \in Models : sessions[m] = s}
    BY <1>12 DEF BeginShutdown
  <2>2. OpenIffRunning'
    BY <1>12, <2>1
  <2>3. OwnEntries'
    BY <1>12, <2>1
  <2>4. Serialized'
    BY <1>12, <2>1
  <2>5. LoadSafe'
    BY <1>12, <2>1
  <2>6. OpenTracked'
    <3>1. SUFFICES ASSUME NEW q \in Sessions, sess[q].open
                   PROVE  \/ \E d \in Clients : pc[d] \in {"publish", "close"} /\ cur[d] = q
                          \/ \E m \in Models : sessions[m] = q
      BY <2>1
    <3>2. q \notin closing
      BY <1>12 DEF BeginShutdown
    <3> QED
      BY <3>1, <3>2
  <2> QED
    BY <2>2, <2>3, <2>4, <2>5, <2>6
<1>13. ASSUME NEW s \in Sessions, ShutdownClose(s)
      PROVE  Inv'
  <2>1. /\ sessions' = sessions /\ pc' = pc /\ cur' = cur /\ closing' = closing \ {s}
    BY <1>13 DEF ShutdownClose
  <2>2. /\ \A q \in Sessions : sess'[q].owner = sess[q].owner
        /\ \A q \in Sessions : q # s => sess'[q] = sess[q]
        /\ ~sess'[s].open /\ sess'[s].state = "stopped"
    BY <1>13, ClosedType DEF ShutdownClose
  <2>3. \A d \in Clients : pc[d] # "idle" => cur[d] \in Sessions
    OBVIOUS
  <2>4. OpenIffRunning'
    BY <1>13, <2>1, <2>2, <2>3
  <2>5. OwnEntries'
    BY <1>13, <2>1, <2>2, <2>3
  <2>6. Serialized'
    BY <1>13, <2>1, <2>2, <2>3
  <2>7. LoadSafe'
    BY <1>13, <2>1, <2>2, <2>3
  <2>8. OpenTracked'
    BY <1>13, <2>1, <2>2, <2>3
  <2> QED
    BY <2>4, <2>5, <2>6, <2>7, <2>8
<1>14. ASSUME EndShutdown
      PROVE  Inv'
  BY <1>14 DEF EndShutdown
<1>15. ASSUME Boot
      PROVE  Inv'
  BY <1>15 DEF Boot, Blank
<1>16. CASE UNCHANGED vars
  BY <1>16 DEF vars
<1> QED
  BY <1>1, <1>2, <1>3, <1>4, <1>5, <1>6, <1>7, <1>8, <1>9, <1>10, <1>11, <1>12, <1>13, <1>14, <1>15, <1>16 DEF Next, Begin, Step

LEMMA Invariant == Spec => [](Base /\ Inv)
<1>1. Init => Base /\ Inv
  BY BaseInit, InvInit
<1>2. Base /\ Inv /\ [Next]_vars => (Base /\ Inv)'
  BY BaseStep, InvStep
<1> QED
  BY <1>1, <1>2, PTL DEF Spec

\* The types of the state.
THEOREM TypeCorrect == Spec => []TypeOK
<1>1. Base => TypeOK
  BY DEF Base, TypeOK
<1> QED
  BY <1>1, Invariant, PTL

\* No native session is ever lost, not even when a load outlives the shutdown:
\* the map, a load, an unload or the shutdown still has it.
THEOREM NoSessionLost == Spec => []OpenTracked
<1>1. Base /\ Inv => OpenTracked
  BY DEF Inv
<1> QED
  BY <1>1, Invariant, PTL

\* A model reported as running is served by its own open session.
THEOREM RunningIsServed == Spec => []RunningMeansOpen
<1>1. Base /\ Inv => RunningMeansOpen
  BY DEF Base, Types, Inv, OpenIffRunning, OwnEntries, RunningMeansOpen, Mapped
<1> QED
  BY <1>1, Invariant, PTL

-------------------------------------------------------------------------------
(* Shutdown                                                                *)

LEMMA ShutDownStep ==
  ASSUME ~Overrun
  PROVE  Base /\ ShutDown /\ [Next]_vars => ShutDown'
<1> SUFFICES ASSUME Base, ShutDown, [Next]_vars PROVE ShutDown'
  OBVIOUS
<1> USE NullAssumption DEF Base, HasSession, Types, ShutDown, At, Goto, Return, Mapped, Arrives
<1>1. ASSUME NEW c \in Clients, NEW m \in Models, NEW s \in Sessions, BeginLoad(c, m, s)
      PROVE  ShutDown'
  BY <1>1 DEF BeginLoad, Placeholder, Arrives, Blank, Referenced
<1>2. ASSUME NEW c \in Clients, NEW m \in Models, BeginUnload(c, m)
      PROVE  ShutDown'
  BY <1>2 DEF BeginUnload, Arrives, Mapped
<1>3. ASSUME NEW c \in Clients, NEW m \in Models, BeginInfer(c, m)
      PROVE  ShutDown'
  BY <1>3 DEF BeginInfer, Arrives, Mapped
<1>4. ASSUME NEW c \in Clients, NEW s \in Sessions, Create(c, s)
      PROVE  ShutDown'
  BY <1>4 DEF Create, Blank, Referenced
<1>5. ASSUME NEW c \in Clients, CreateFails(c)
      PROVE  ShutDown'
  BY <1>5 DEF CreateFails
<1>6. ASSUME NEW c \in Clients, Publish(c)
      PROVE  ShutDown'
  BY <1>6 DEF Publish
<1>7. ASSUME NEW c \in Clients, Close(c)
      PROVE  ShutDown'
  BY <1>7, ClosedType DEF Close
<1>8. ASSUME NEW c \in Clients, Check(c)
      PROVE  ShutDown'
  BY <1>8 DEF Check
<1>9. ASSUME NEW c \in Clients, Tokenize(c)
      PROVE  ShutDown'
  BY <1>9 DEF Tokenize
<1>10. ASSUME NEW c \in Clients, BeginRun(c)
      PROVE  ShutDown'
  BY <1>10 DEF BeginRun
<1>11. ASSUME NEW c \in Clients, EndRun(c)
      PROVE  ShutDown'
  BY <1>11 DEF EndRun
<1>12. ASSUME BeginShutdown
      PROVE  ShutDown'
  BY <1>12 DEF BeginShutdown, Drained
<1>13. ASSUME NEW s \in Sessions, ShutdownClose(s)
      PROVE  ShutDown'
  BY <1>13, ClosedType DEF ShutdownClose
<1>14. ASSUME EndShutdown
      PROVE  ShutDown'
  BY <1>14 DEF EndShutdown
<1>15. ASSUME Boot
      PROVE  ShutDown'
  BY <1>15 DEF Boot, Blank
<1>16. CASE UNCHANGED vars
  BY <1>16 DEF vars
<1> QED
  BY <1>1, <1>2, <1>3, <1>4, <1>5, <1>6, <1>7, <1>8, <1>9, <1>10, <1>11, <1>12, <1>13, <1>14, <1>15, <1>16 DEF Next, Begin, Step

\* When no request outlives the drain, the shutdown closes every session.
THEOREM ShutdownComplete == ~Overrun => (Spec => []ShutdownClosesAll)
<1> SUFFICES ASSUME ~Overrun PROVE Spec => []ShutdownClosesAll
  OBVIOUS
<1>1. Init => ShutDown
  BY DEF Init, ShutDown
<1>2. Base /\ Inv /\ ShutDown /\ [Next]_vars => ShutDown'
  BY ShutDownStep
<1>3. Base /\ Inv /\ ShutDown => ShutdownClosesAll
  <2> SUFFICES ASSUME Base, Inv, ShutDown, phase = "exited", NEW s \in Sessions, sess[s].open
               PROVE  FALSE
    BY DEF ShutdownClosesAll
  <2>1. closing = {} /\ \A c \in Clients : pc[c] = "idle"
    BY DEF Base, ClosingInShutdown, ShutDown
  <2>2. \A m \in Models : sessions[m] = NoSession
    BY DEF ShutDown, Mapped
  <2> QED
    BY <2>1, <2>2, NullAssumption DEF Inv, OpenTracked
<1> QED
  BY <1>1, <1>2, <1>3, Invariant, PTL DEF Spec
===============================================================================
