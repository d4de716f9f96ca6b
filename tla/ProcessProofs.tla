---------------------------- MODULE ProcessProofs ----------------------------
(***************************************************************************)
(* Proofs about the two parts of internal/process.  The port allocator:    *)
(* for every range, every set of fixed ports and every set of clients.     *)
(* The process handle: for any number of callers, any pipe size, any       *)
(* amount of output and all faults.                                        *)
(***************************************************************************)
EXTENDS PortAllocator, ProcessHandle, TLAPS

-------------------------------------------------------------------------------
(* Ports                                                                   *)


LEMMA SizeFacts == Size \in Nat /\ Size >= 1 /\ Size = RangeEnd - RangeStart + 1
  BY RangeAssumption DEF Size

LEMMA AdvanceInRange == \A p \in PortRange : Advance(p) \in PortRange
  BY RangeAssumption DEF Advance, PortRange

(* The state stays within its types: in particular the scan position never *)
(* leaves the configured range.                                            *)
THEOREM PortsTypeCorrect == PortsSpec => []PortsTypeOK
<1>1. PortsInit => PortsTypeOK
  BY RangeAssumption, ClientAssumption, SizeFacts
  DEF PortsInit, PortsTypeOK, PortRange, Ports
<1>2. PortsTypeOK /\ [PortsNext]_portVars => PortsTypeOK'
  <2> SUFFICES ASSUME PortsTypeOK, [PortsNext]_portVars
               PROVE  PortsTypeOK'
    OBVIOUS
  <2> USE DEF PortsTypeOK
  <2>1. ASSUME NEW c \in Clients, BeginAllocate(c)
        PROVE  PortsTypeOK'
    BY <2>1, SizeFacts DEF BeginAllocate
  <2>2. CASE SkipCandidate
    BY <2>2, SizeFacts, AdvanceInRange DEF SkipCandidate
  <2>3. CASE TakeCandidate
    <3>1. holder \in Clients /\ next \in Ports
      BY <2>3 DEF TakeCandidate, Ports
    <3>2. held' \in [Clients -> SUBSET Ports] /\ reserved' \subseteq Ports
      BY <2>3, <3>1 DEF TakeCandidate, Hand
    <3>3. QED
      BY <2>3, <3>2, SizeFacts, AdvanceInRange DEF TakeCandidate, Unlock
  <2>4. CASE GiveUp
    BY <2>4, SizeFacts DEF GiveUp, Unlock
  <2>5. ASSUME NEW c \in Clients, NEW p \in Ports, Reserve(c, p)
        PROVE  PortsTypeOK'
    BY <2>5 DEF Reserve, Hand
  <2>6. ASSUME NEW c \in Clients, NEW p \in Ports, Release(c, p)
        PROVE  PortsTypeOK'
    BY <2>6 DEF Release
  <2>7. ASSUME NEW p \in Ports, HostBind(p) \/ HostUnbind(p)
        PROVE  PortsTypeOK'
    BY <2>7 DEF HostBind, HostUnbind
  <2>8. CASE UNCHANGED portVars
    BY <2>8 DEF portVars
  <2>9. QED
    BY <2>1, <2>2, <2>3, <2>4, <2>5, <2>6, <2>7, <2>8 DEF PortsNext, Scan
<1>3. QED
  BY <1>1, <1>2, PTL DEF PortsSpec

-------------------------------------------------------------------------------
LEMMA HandExclusive ==
  ASSUME PortsTypeOK, Exclusive, NEW c \in Clients, NEW p \in Ports,
         p \notin reserved, Hand(c, p)
  PROVE  Exclusive'
<1>1. held' = [held EXCEPT ![c] = held[c] \cup {p}] /\ reserved' = reserved \cup {p}
  BY DEF Hand
<1>2. \A d \in Clients : p \notin held[d]
  BY DEF Exclusive
<1>3. \A d \in Clients : held'[d] = IF d = c THEN held[d] \cup {p} ELSE held[d]
  BY <1>1 DEF PortsTypeOK
<1>4. \A d, e \in Clients : d # e => held'[d] \cap held'[e] = {}
  BY <1>2, <1>3 DEF Exclusive
<1>5. reserved' = UNION {held'[d] : d \in Clients}
  BY <1>1, <1>3 DEF Exclusive
<1>6. QED
  BY <1>4, <1>5 DEF Exclusive

(* No two clients ever hold the same port, and the reserved set is exactly *)
(* what they hold.                                                         *)
THEOREM PortsExclusive == PortsSpec => []Exclusive
<1>1. PortsInit => Exclusive
  BY DEF PortsInit, Exclusive
<1>2. PortsTypeOK /\ Exclusive /\ [PortsNext]_portVars => Exclusive'
  <2> SUFFICES ASSUME PortsTypeOK, Exclusive, [PortsNext]_portVars
               PROVE  Exclusive'
    OBVIOUS
  <2>1. CASE TakeCandidate
    <3>1. holder \in Clients /\ next \in Ports /\ next \notin reserved
      BY <2>1 DEF TakeCandidate, Usable, PortsTypeOK, Ports
    <3>2. QED
      BY <2>1, <3>1, HandExclusive DEF TakeCandidate
  <2>2. ASSUME NEW c \in Clients, NEW p \in Ports, Reserve(c, p)
        PROVE  Exclusive'
    BY <2>2, HandExclusive DEF Reserve, Usable
  <2>3. ASSUME NEW c \in Clients, NEW p \in Ports, Release(c, p)
        PROVE  Exclusive'
    <3>1. \A d \in Clients : held'[d] = IF d = c THEN held[d] \ {p} ELSE held[d]
      BY <2>3 DEF Release, PortsTypeOK
    <3>2. \A d \in Clients : d # c => p \notin held[d]
      BY <2>3 DEF Release, Exclusive
    <3>3. reserved' = UNION {held'[d] : d \in Clients}
      BY <2>3, <3>1, <3>2 DEF Release, Exclusive
    <3>4. \A d, e \in Clients : d # e => held'[d] \cap held'[e] = {}
      BY <3>1 DEF Exclusive
    <3>5. QED
      BY <3>3, <3>4 DEF Exclusive
  <2>4. CASE UNCHANGED <<reserved, held>>
    BY <2>4 DEF Exclusive
  <2>5. QED
    BY <2>1, <2>2, <2>3, <2>4
    DEF PortsNext, Scan, BeginAllocate, SkipCandidate, GiveUp, Unlock,
        HostBind, HostUnbind, portVars
<1>3. QED
  BY <1>1, <1>2, PortsTypeCorrect, PTL DEF PortsSpec
-------------------------------------------------------------------------------
LEMMA HandTakes ==
  ASSUME PortsTypeOK, Exclusive, NEW c \in Clients, NEW p \in Ports,
         p \notin reserved, Hand(c, p)
  PROVE  Pool!Next
<1>1. p \notin Pool!Taken
  BY DEF Exclusive, Pool!Taken
<1>2. Pool!Take(c, p)
  BY <1>1 DEF Hand, Pool!Take
<1>3. QED
  BY <1>2 DEF Pool!Next

(* The round-robin allocator is a port pool: a port is handed out, by a    *)
(* scan or by reservation, only when nobody has it, and comes back only    *)
(* from the client that has it (Allocate, Reserve, Release).               *)
THEOREM PoolImplemented == PortsSpec => ImplementsPool
<1>1. PortsInit => Pool!Init
  BY DEF PortsInit, Pool!Init
<1>2. PortsTypeOK /\ Exclusive /\ [PortsNext]_portVars => [Pool!Next]_held
  <2> SUFFICES ASSUME PortsTypeOK, Exclusive, [PortsNext]_portVars
               PROVE  Pool!Next \/ UNCHANGED held
    OBVIOUS
  <2>1. CASE TakeCandidate
    <3>1. holder \in Clients /\ next \in Ports /\ next \notin reserved
      BY <2>1 DEF TakeCandidate, Usable, PortsTypeOK, Ports
    <3>2. QED
      BY <2>1, <3>1, HandTakes DEF TakeCandidate
  <2>2. ASSUME NEW c \in Clients, NEW p \in Ports, Reserve(c, p)
        PROVE  Pool!Next
    BY <2>2, HandTakes DEF Reserve, Usable
  <2>3. ASSUME NEW c \in Clients, NEW p \in Ports, Release(c, p)
        PROVE  Pool!Next
    <3>1. Pool!Give(c, p)
      BY <2>3 DEF Release, Pool!Give
    <3>2. QED
      BY <3>1 DEF Pool!Next
  <2>4. CASE UNCHANGED held
    BY <2>4
  <2>5. QED
    BY <2>1, <2>2, <2>3, <2>4
    DEF PortsNext, Scan, BeginAllocate, SkipCandidate, GiveUp, Unlock,
        HostBind, HostUnbind, portVars
<1>3. QED
  BY <1>1, <1>2, PortsTypeCorrect, PortsExclusive, PTL DEF PortsSpec, ImplementsPool, Pool!Spec

-------------------------------------------------------------------------------
\* The ports the scan in progress has looked at: from first up to next, or,
\* when it has wrapped around, up to the end and from the start up to next.
Scanned(p) ==
  \/ tried = next - first /\ first <= p /\ p < next
  \/ tried = Size + next - first /\ (first <= p \/ p < next)

\* What makes NoFalseExhaustion inductive: the loop counter says where the scan
\* is, and no port it has looked at, or that is taken now, counts as open.
ScanInv ==
  holder # Nobody =>
    /\ \/ first <= next /\ tried = next - first
       \/ next <= first /\ tried = Size + next - first
    /\ \A p \in openPorts : p \notin reserved /\ p \notin bound /\ ~Scanned(p)

LEMMA SkipScans ==
  ASSUME PortsTypeOK, ScanInv, SkipCandidate
  PROVE  ScanInv'
<1> USE DEF PortsTypeOK, PortRange, SkipCandidate
<1>0. /\ RangeStart \in Nat /\ RangeEnd \in Nat /\ RangeStart <= RangeEnd
      /\ Size = RangeEnd - RangeStart + 1
  BY RangeAssumption, SizeFacts
<1>1. next \in Nat /\ first \in Nat /\ tried \in Nat /\ next >= RangeStart /\ next <= RangeEnd
      /\ first >= RangeStart /\ first <= RangeEnd /\ tried < Size
  BY <1>0
<1>2. next' = (IF next + 1 > RangeEnd THEN RangeStart ELSE next + 1) /\ tried' = tried + 1
      /\ first' = first /\ openPorts' = openPorts
  BY DEF Advance
<1>3. \/ first <= next' /\ tried' = next' - first'
      \/ next' <= first' /\ tried' = Size + next' - first'
  BY <1>0, <1>1, <1>2 DEF ScanInv
<1>4. ASSUME NEW p \in openPorts
      PROVE  p \notin reserved /\ p \notin bound /\ ~Scanned(p)'
  <2>1. p \notin reserved /\ p \notin bound /\ ~Scanned(p) /\ p # next
    BY DEF ScanInv, Usable
  <2>2. p \in Nat /\ p >= RangeStart /\ p <= RangeEnd
    BY <1>0
  <2>3. QED
    BY <1>0, <1>1, <1>2, <2>1, <2>2 DEF Scanned, ScanInv
<1>5. QED
  BY <1>2, <1>3, <1>4 DEF ScanInv

(* ErrNoFreePort is never a false alarm: a scan that gives up has looked   *)
(* at every port of the range, and none of them was usable throughout.     *)
THEOREM ExhaustionHonest == PortsSpec => []NoFalseExhaustion
<1>1. PortsInit => ScanInv
  BY DEF PortsInit, ScanInv
<1>2. PortsTypeOK /\ ScanInv /\ [PortsNext]_portVars => ScanInv'
  <2> SUFFICES ASSUME PortsTypeOK, ScanInv, [PortsNext]_portVars
               PROVE  ScanInv'
    OBVIOUS
  <2>1. ASSUME NEW c \in Clients, BeginAllocate(c)
        PROVE  ScanInv'
    <3>1. next \in Nat /\ Size \in Nat /\ Size >= 1
      BY RangeAssumption, SizeFacts DEF PortsTypeOK, PortRange
    <3>2. tried' = 0 /\ first' = next /\ next' = next
      BY <2>1 DEF BeginAllocate
    <3>3. \A p \in openPorts' : p \notin reserved' /\ p \notin bound' /\ ~Scanned(p)'
      <4> SUFFICES ASSUME NEW p \in openPorts'
                   PROVE  p \notin reserved' /\ p \notin bound' /\ ~Scanned(p)'
        OBVIOUS
      <4>1. p \in PortRange /\ Usable(p) /\ UNCHANGED <<reserved, bound>>
        BY <2>1 DEF BeginAllocate
      <4>2. p \in Nat
        BY <4>1, RangeAssumption DEF PortRange
      <4>3. ~Scanned(p)'
        BY <3>1, <3>2, <4>2 DEF Scanned
      <4>4. QED
        BY <4>1, <4>3 DEF Usable
    <3>4. QED
      BY <3>1, <3>2, <3>3 DEF ScanInv
  <2>2. CASE SkipCandidate
    BY <2>2, SkipScans
  <2>3. CASE TakeCandidate \/ GiveUp
    BY <2>3 DEF TakeCandidate, GiveUp, Unlock, ScanInv
  <2>4. ASSUME NEW c \in Clients, NEW p \in Ports, Reserve(c, p) \/ Release(c, p)
        PROVE  ScanInv'
    BY <2>4 DEF Reserve, Release, ScanInv
  <2>5. ASSUME NEW p \in Ports, HostBind(p) \/ HostUnbind(p)
        PROVE  ScanInv'
    BY <2>5 DEF HostBind, HostUnbind, ScanInv, Scanned
  <2>6. CASE UNCHANGED portVars
    BY <2>6 DEF portVars, ScanInv, Scanned
  <2>7. QED
    BY <2>1, <2>2, <2>3, <2>4, <2>5, <2>6 DEF PortsNext, Scan
<1>3. PortsTypeOK /\ ScanInv => NoFalseExhaustion
  <2> SUFFICES ASSUME PortsTypeOK, ScanInv, holder # Nobody, tried >= Size
               PROVE  openPorts = {}
    BY DEF NoFalseExhaustion
  <2>1. /\ RangeStart \in Nat /\ RangeEnd \in Nat /\ RangeStart <= RangeEnd
        /\ Size = RangeEnd - RangeStart + 1
    BY RangeAssumption, SizeFacts
  <2>2. next \in RangeStart .. RangeEnd /\ first \in RangeStart .. RangeEnd /\ tried \in Nat
    BY SizeFacts, <2>1 DEF PortsTypeOK, PortRange
  <2>3. next = first /\ tried = Size + next - first
    BY <2>1, <2>2 DEF ScanInv
  <2>4. \A p \in openPorts : p \in Nat
    BY <2>1 DEF PortsTypeOK, PortRange
  <2>5. \A p \in openPorts : Scanned(p)
    BY <2>1, <2>2, <2>3, <2>4 DEF Scanned
  <2>6. QED
    BY <2>5 DEF ScanInv
<1>4. QED
  BY <1>1, <1>2, <1>3, PortsTypeCorrect, PTL DEF PortsSpec

-------------------------------------------------------------------------------
(* The process handle                                                      *)


\* What TypeOK says of the variables that the waiter does not touch is kept
\* apart from the stages of the child and the waiter.
Types ==
  /\ child \in {"unstarted", "running", "zombie", "reaped"}
  /\ status \in Statuses \cup {"none"}
  /\ asked \subseteq {"term", "kill"}
  /\ helper \in BOOLEAN
  /\ pipe \in [Sources -> Seq({"line", "longLine"})]
  /\ written \in [Sources -> Nat]
  /\ delivered \in [Sources -> Nat]
  /\ pump \in [Sources -> {"none", "reading", "ended", "cut"}]
  /\ waiter \in {"none", "pumps", "set", "close", "over"}
  /\ err \in Statuses \cup {"none"}
  /\ pc \in [Callers -> {"idle", "signal", "grace", "kill", "await"}]
  /\ result \in [Callers -> {"none", "nil", "error"}]

\* How far the child, the waiter and the error have come together.
Stages ==
  /\ waiter = "none" <=> child = "unstarted"
  /\ waiter \in {"set", "close", "over"} <=> child = "reaped"
  /\ status = "none" <=> child \in {"unstarted", "running"}
  /\ waiter \in {"close", "over"} => err = status
  /\ waiter \in {"none", "pumps", "set"} => err = "none"

\* Where the lines are, and that a pump only ends when all of its own have
\* been read and no more can come.
Flow ==
  \A s \in Sources :
    /\ Len(pipe[s]) <= PipeCap
    /\ written[s] <= MaxLines
    /\ written[s] = delivered[s] + Len(pipe[s])
    /\ pump[s] = "ended" => pipe[s] = <<>> /\ ~Writers
    /\ pump[s] = "none" <=> waiter = "none"
    /\ waiter \in {"set", "close", "over"} => pump[s] # "reading"

IInv == Types /\ Stages /\ Flow /\ TerminatedIsGone

\* The initial state, in which nothing was started.
LEMMA InitHolds == Init => IInv
<1> SUFFICES ASSUME Init PROVE IInv
  OBVIOUS
<1> USE PipeAssumption DEF Init
<1>0. <<>> \in Seq({"line", "longLine"})
  OBVIOUS
<1>1. Types
  BY <1>0 DEF Types
<1>2. Stages
  BY DEF Stages
<1>3. Flow
  BY DEF Flow, Sources
<1>4. TerminatedIsGone
  BY DEF TerminatedIsGone
<1>5. QED
  BY <1>1, <1>2, <1>3, <1>4 DEF IInv

\* A step of the child, the helper or the waiter that leaves the pipes alone.
LEMMA ChildSteps ==
  ASSUME IInv, Start \/ Exit \/ Killed \/ HelperStarts \/ HelperExits \/ WaiterStep
  PROVE  IInv'
<1> USE DEF IInv, callVars, outputVars
<1>1. CASE Start
  <2>1. Types'
    BY <1>1 DEF Start, Types
  <2>2. Stages'
    BY <1>1 DEF Start, Stages, Types
  <2>3. Flow'
    BY <1>1 DEF Start, Flow, Types, Stages, Writers
  <2>4. TerminatedIsGone'
    BY <1>1 DEF Start, TerminatedIsGone, Types
  <2>5. QED
    BY <2>1, <2>2, <2>3, <2>4
<1>2. CASE Exit
  <2>1. Types'
    BY <1>2 DEF Exit, Types, Statuses
  <2>2. Stages'
    BY <1>2 DEF Exit, Stages, Types, Statuses
  <2>3. Flow'
    BY <1>2 DEF Exit, Flow, Types, Stages, Writers
  <2>4. TerminatedIsGone'
    BY <1>2 DEF Exit, TerminatedIsGone, Types
  <2>5. QED
    BY <2>1, <2>2, <2>3, <2>4
<1>3. CASE Killed
  <2>1. Types'
    BY <1>3 DEF Killed, Types, Statuses
  <2>2. Stages'
    BY <1>3 DEF Killed, Stages, Types, Statuses
  <2>3. Flow'
    BY <1>3 DEF Killed, Flow, Types, Stages, Writers
  <2>4. TerminatedIsGone'
    BY <1>3 DEF Killed, TerminatedIsGone, Types
  <2>5. QED
    BY <2>1, <2>2, <2>3, <2>4
<1>4. CASE HelperStarts
  BY <1>4 DEF HelperStarts, Types, Stages, Flow, Writers, TerminatedIsGone
<1>5. CASE HelperExits
  BY <1>5 DEF HelperExits, Types, Stages, Flow, Writers, TerminatedIsGone
<1>6. CASE WaitChild
  <2>1. \A s \in Sources : pump[s] # "reading"
    BY <1>6 DEF WaitChild, PumpsFinished
  <2>2. pump' = pump
    BY <1>6, <2>1 DEF WaitChild, Types
  <2>3. Types'
    BY <1>6, <2>2 DEF WaitChild, Types
  <2>4. Stages'
    BY <1>6 DEF WaitChild, Stages, Types, Statuses
  <2>5. Flow'
    BY <1>6, <2>1, <2>2 DEF WaitChild, Flow, Types, Stages, Writers
  <2>6. TerminatedIsGone'
    BY <1>6 DEF WaitChild, TerminatedIsGone, Types
  <2>7. QED
    BY <2>3, <2>4, <2>5, <2>6
<1>7. CASE SetErr
  <2>1. Types' /\ Stages' /\ TerminatedIsGone'
    BY <1>7 DEF SetErr, Types, Stages, TerminatedIsGone
  <2>2. Flow'
    BY <1>7 DEF SetErr, Flow, Types, Stages, Writers
  <2>3. QED
    BY <2>1, <2>2
<1>8. CASE CloseDone
  <2>1. Types' /\ Stages' /\ TerminatedIsGone'
    BY <1>8 DEF CloseDone, Types, Stages, TerminatedIsGone
  <2>2. Flow'
    BY <1>8 DEF CloseDone, Flow, Types, Stages, Writers
  <2>3. QED
    BY <2>1, <2>2
<1>9. QED
  BY <1>1, <1>2, <1>3, <1>4, <1>5, <1>6, <1>7, <1>8 DEF WaiterStep

\* A step that writes to a pipe or reads from it: the line is counted where
\* it goes, and the child, the waiter and the callers are left alone.
LEMMA PipeSteps ==
  ASSUME IInv, NEW s \in Sources, Write(s) \/ PumpStep(s)
  PROVE  IInv'
<1> USE PipeAssumption DEF IInv, callVars, outputVars
<1>0. /\ UNCHANGED <<child, status, asked, waiter, err, pc, result, helper>>
      /\ Stages'
      /\ TerminatedIsGone'
      /\ Writers' = Writers
  BY DEF Write, PumpStep, PumpLine, PumpTooLong, PumpEOF, Stages, TerminatedIsGone, Writers
<1>1. CASE Write(s)
  <2>1. PICK x \in {"line", "longLine"} : pipe' = [pipe EXCEPT ![s] = Append(@, x)]
    BY <1>1 DEF Write
  <2>2. pipe[s] \in Seq({"line", "longLine"})
    BY DEF Types
  <2>3. /\ Append(pipe[s], x) \in Seq({"line", "longLine"})
        /\ Len(Append(pipe[s], x)) = Len(pipe[s]) + 1
        /\ Len(pipe[s]) \in Nat
    BY <2>2
  <2>4. pump[s] # "ended"
    BY <1>1 DEF Write, Flow
  <2>5. Types'
    BY <1>1, <1>0, <2>1, <2>3 DEF Write, Types
  <2>6. /\ Len(pipe'[s]) <= PipeCap /\ written'[s] <= MaxLines
        /\ written'[s] = delivered'[s] + Len(pipe'[s])
    BY <1>1, <2>1, <2>3 DEF Write, Flow, Types
  <2>7. \A u \in Sources \ {s} : pipe'[u] = pipe[u] /\ written'[u] = written[u]
    BY <1>1, <2>1 DEF Write, Types
  <2>8. Flow'
    BY <1>1, <1>0, <2>4, <2>6, <2>7 DEF Write, Flow
  <2>9. QED
    BY <1>0, <2>5, <2>8
<1>2. CASE PumpLine(s)
  <2>1. pipe[s] \in Seq({"line", "longLine"}) /\ pipe[s] # <<>>
    BY <1>2 DEF PumpLine, Types
  <2>2. /\ Tail(pipe[s]) \in Seq({"line", "longLine"})
        /\ Len(Tail(pipe[s])) = Len(pipe[s]) - 1
        /\ Len(pipe[s]) \in Nat
    BY <2>1
  <2>3. Types'
    BY <1>2, <1>0, <2>2 DEF PumpLine, Types
  <2>4. /\ Len(pipe'[s]) <= PipeCap /\ written'[s] <= MaxLines
        /\ written'[s] = delivered'[s] + Len(pipe'[s])
    <3>1. pipe'[s] = Tail(pipe[s]) /\ delivered'[s] = delivered[s] + 1 /\ written' = written
      BY <1>2 DEF PumpLine, Types
    <3>2. /\ Len(pipe[s]) <= PipeCap /\ written[s] <= MaxLines
          /\ written[s] = delivered[s] + Len(pipe[s])
      BY DEF Flow
    <3>3. written[s] \in Nat /\ delivered[s] \in Nat
      BY DEF Types
    <3>4. QED
      BY <2>2, <3>1, <3>2, <3>3
  <2>5. \A u \in Sources \ {s} : pipe'[u] = pipe[u] /\ delivered'[u] = delivered[u]
    BY <1>2 DEF PumpLine, Types
  <2>6. Flow'
    BY <1>2, <1>0, <2>4, <2>5 DEF PumpLine, Flow
  <2>7. QED
    BY <1>0, <2>3, <2>6
<1>3. CASE PumpTooLong(s)
  <2>1. Types'
    BY <1>3, <1>0 DEF PumpTooLong, Types
  <2>2. Flow'
    BY <1>3, <1>0 DEF PumpTooLong, Flow, Types
  <2>3. QED
    BY <1>0, <2>1, <2>2
<1>4. CASE PumpEOF(s)
  <2>1. Types'
    BY <1>4, <1>0 DEF PumpEOF, Types
  <2>2. Flow'
    BY <1>4, <1>0 DEF PumpEOF, Flow, Types
  <2>3. QED
    BY <1>0, <2>1, <2>2
<1>5. QED
  BY <1>1, <1>2, <1>3, <1>4 DEF PumpStep

\* A step of a caller, who only ever reports success when done is closed.
LEMMA CallerSteps ==
  ASSUME IInv, NEW t \in Callers, Terminate(t) \/ CallerStep(t)
  PROVE  IInv'
<1> USE DEF IInv, callVars, outputVars
<1>0. UNCHANGED <<child, status, outputVars, waiter, err>>
  BY DEF Terminate, CallerStep, SignalStop, GraceEnds, Kill, AwaitDone
<1>1. Stages' /\ Flow'
  BY <1>0 DEF Stages, Flow, Writers
<1>2. asked' \subseteq {"term", "kill"}
  BY DEF Terminate, CallerStep, SignalStop, GraceEnds, Kill, AwaitDone, Types
<1>3. /\ pc' \in [Callers -> {"idle", "signal", "grace", "kill", "await"}]
      /\ result' \in [Callers -> {"none", "nil", "error"}]
  BY DEF Terminate, CallerStep, SignalStop, GraceEnds, Kill, AwaitDone, Types, Goto, Return
<1>4. result' = result \/ result' = [result EXCEPT ![t] = "error"] \/ (Done /\ result' = [result EXCEPT ![t] = "nil"])
  BY DEF Terminate, CallerStep, SignalStop, GraceEnds, Kill, AwaitDone, Goto, Return
<1>5. TerminatedIsGone'
  BY <1>0, <1>4 DEF TerminatedIsGone, Done, Stages, Types
<1>6. Types'
  BY <1>0, <1>2, <1>3 DEF Types
<1>7. QED
  BY <1>1, <1>5, <1>6

LEMMA StepHolds == IInv /\ [Next]_vars => IInv'
<1> SUFFICES ASSUME IInv, [Next]_vars PROVE IInv'
  OBVIOUS
<1>1. CASE UNCHANGED vars
  BY <1>1 DEF vars, outputVars, callVars, IInv, Types, Stages, Flow, Writers, TerminatedIsGone
<1>2. CASE Next
  BY <1>2, ChildSteps, PipeSteps, CallerSteps DEF Next
<1>3. QED
  BY <1>1, <1>2

LEMMA Invariance == Spec => []IInv
  BY InitHolds, StepHolds, PTL DEF Spec

\* The handle stays within its types: in particular no pump delivers more
\* than was written, and a pipe holds no more than its capacity.
THEOREM TypeCorrect == Spec => []TypeOK
<1>1. IInv => TypeOK
  <2> SUFFICES ASSUME IInv PROVE TypeOK
    OBVIOUS
  <2>1. \A s \in Sources : Len(pipe[s]) \in Nat /\ Len(pipe[s]) <= PipeCap
    BY DEF IInv, Types, Flow
  <2>2. \A s \in Sources : written[s] \in 0..MaxLines /\ delivered[s] \in 0..MaxLines
    BY <2>1, PipeAssumption DEF IInv, Types, Flow
  <2>3. written \in [Sources -> 0..MaxLines] /\ delivered \in [Sources -> 0..MaxLines]
    BY <2>2 DEF IInv, Types
  <2>4. QED
    BY <2>1, <2>3 DEF IInv, Types, TypeOK
<1>2. QED
  BY <1>1, Invariance, PTL

\* Whoever waits for done may rely on Err and on the process being gone
\* (monitor and waitHealthy do, runtime.go 343-409).
THEOREM DoneIsTrue == Spec => []DoneTells
<1>1. IInv => DoneTells
  BY DEF IInv, Stages, DoneTells, Done
<1>2. QED
  BY <1>1, Invariance, PTL

\* Whoever was told that Terminate succeeded may rely on it (Unload gives the
\* model up, runtime.go 443-451).
THEOREM TerminateIsTrue == Spec => []TerminatedIsGone
<1>1. IInv => TerminatedIsGone
  BY DEF IInv
<1>2. QED
  BY <1>1, Invariance, PTL

\* The log has the last words of a process before its exit is reported.
THEOREM OutputIsComplete == Spec => []AllLinesDelivered
<1>1. IInv => AllLinesDelivered
  <2> SUFFICES ASSUME IInv, Done, NEW s \in Sources, pump[s] # "cut"
              PROVE  delivered[s] = written[s]
    BY DEF AllLinesDelivered
  <2>1. pump[s] = "ended"
    BY DEF IInv, Types, Flow, Done
  <2>2. pipe[s] = <<>> /\ Len(pipe[s]) = 0
    BY <2>1 DEF IInv, Flow
  <2>3. QED
    BY <2>2 DEF IInv, Types, Flow
<1>2. QED
  BY <1>1, Invariance, PTL
===============================================================================
