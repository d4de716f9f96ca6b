----------------------------- MODULE PortAllocator -----------------------------
(***************************************************************************)
(* The internal port allocator (src/internal/process/ports.go): a fixed    *)
(* range scanned round-robin under one mutex, plus explicit reservations   *)
(* of ports a model configuration names, which may lie outside the range.  *)
(* The probe (canBind) is I/O against a host that binds and unbinds ports  *)
(* on its own while the mutex is held, so every iteration of the scan is a *)
(* step of its own.                                                        *)
(*                                                                         *)
(* Clients return only ports they hold: that is the contract the allocator *)
(* relies on, since Release does not know who calls it.                    *)
(***************************************************************************)
EXTENDS Naturals, FiniteSets

CONSTANTS
  RangeStart,   \* the configured range: PortRangeStart
  RangeEnd,     \* and PortRangeEnd
  FixedPorts,   \* ports that model configurations name themselves
  Clients,      \* the loads that ask for ports
  Nobody        \* no client: the mutex is free

\* Config.Validate rejects an empty range and a range that starts at 0.
ASSUME RangeAssumption ==
  /\ RangeStart \in Nat \ {0}
  /\ RangeEnd \in Nat
  /\ RangeStart <= RangeEnd

ASSUME FixedAssumption == FixedPorts \subseteq Nat \ {0}

ASSUME ClientAssumption == Nobody \notin Clients

PortRange == RangeStart .. RangeEnd
Size  == RangeEnd - RangeStart + 1
Ports == PortRange \cup FixedPorts

VARIABLES
  next,      \* where the next scan starts
  reserved,  \* ports handed out and not released
  holder,    \* the client inside Allocate, which owns the mutex meanwhile
  tried,     \* iterations of its loop so far
  bound,     \* the host: ports some process is bound to
  held,      \* history: the ports each client was given and has not returned
  first,     \* history: where the scan in progress started
  openPorts  \* history: range ports usable during the whole scan so far

portVars == <<next, reserved, holder, tried, bound, held, first, openPorts>>

\* Bug variant: the scan only probes, without looking at the reservations.
UsableProbeOnly(p) == p \notin bound

Usable(p) == p \notin reserved /\ p \notin bound

\* Bug variant: the wrap-around test is one port early.
AdvanceEarly(p) == IF p + 1 >= RangeEnd THEN RangeStart ELSE p + 1

Advance(p) == IF p + 1 > RangeEnd THEN RangeStart ELSE p + 1

PortsInit ==
  /\ next = RangeStart
  /\ reserved = {}
  /\ holder = Nobody
  /\ tried = 0
  /\ bound \in SUBSET Ports
  /\ held = [c \in Clients |-> {}]
  /\ first = RangeStart
  /\ openPorts = {}

Hand(c, p) ==
  /\ reserved' = reserved \cup {p}
  /\ held' = [held EXCEPT ![c] = @ \cup {p}]

Unlock ==
  /\ holder' = Nobody
  /\ tried' = 0
  /\ openPorts' = {}
  /\ UNCHANGED first

-------------------------------------------------------------------------------
(* Allocate: lock, then scan at most Size candidates from next.            *)

BeginAllocate(c) ==
  /\ holder = Nobody
  /\ holder' = c
  /\ tried' = 0
  /\ first' = next
  /\ openPorts' = {p \in PortRange : Usable(p)}
  /\ UNCHANGED <<next, reserved, bound, held>>

\* The candidate is reserved or the probe fails: go on with the next one.
SkipCandidate ==
  /\ holder # Nobody
  /\ tried < Size
  /\ ~Usable(next)
  /\ next' = Advance(next)
  /\ tried' = tried + 1
  /\ UNCHANGED <<reserved, holder, bound, held, first, openPorts>>

TakeCandidate ==
  /\ holder # Nobody
  /\ tried < Size
  /\ Usable(next)
  /\ Hand(holder, next)
  /\ next' = Advance(next)
  /\ Unlock
  /\ UNCHANGED bound

\* ErrNoFreePort
GiveUp ==
  /\ holder # Nobody
  /\ tried >= Size
  /\ Unlock
  /\ UNCHANGED <<next, reserved, bound, held>>

-------------------------------------------------------------------------------
\* Reserve a specific port; refused when reserved or bound, with no effect.
Reserve(c, p) ==
  /\ holder = Nobody
  /\ Usable(p)
  /\ Hand(c, p)
  /\ UNCHANGED <<next, holder, tried, bound, first, openPorts>>

Release(c, p) ==
  /\ holder = Nobody
  /\ p \in held[c]
  /\ reserved' = reserved \ {p}
  /\ held' = [held EXCEPT ![c] = @ \ {p}]
  /\ UNCHANGED <<next, holder, tried, bound, first, openPorts>>

\* The host: some process (possibly a child that was given p) binds p, or
\* stops being bound to it.
HostBind(p) ==
  /\ p \notin bound
  /\ bound' = bound \cup {p}
  /\ openPorts' = openPorts \ {p}
  /\ UNCHANGED <<next, reserved, holder, tried, held, first>>

HostUnbind(p) ==
  /\ p \in bound
  /\ bound' = bound \ {p}
  /\ UNCHANGED <<next, reserved, holder, tried, held, first, openPorts>>

Scan == SkipCandidate \/ TakeCandidate \/ GiveUp

PortsNext ==
  \/ \E c \in Clients : BeginAllocate(c)
  \/ Scan
  \/ \E c \in Clients, p \in Ports : Reserve(c, p) \/ Release(c, p)
  \/ \E p \in Ports : HostBind(p) \/ HostUnbind(p)

PortsSpec == PortsInit /\ [][PortsNext]_portVars

\* The loop runs in a goroutine of the server that nothing else blocks.
PortsFairSpec == PortsSpec /\ WF_portVars(Scan)

-------------------------------------------------------------------------------
PortsTypeOK ==
  /\ next \in PortRange
  /\ reserved \subseteq Ports
  /\ holder \in Clients \cup {Nobody}
  /\ tried \in 0 .. Size
  /\ bound \subseteq Ports
  /\ held \in [Clients -> SUBSET Ports]
  /\ first \in PortRange
  /\ openPorts \subseteq PortRange

\* No port is held by two clients, and the reserved set is exactly what the
\* clients hold: nothing leaks out of the pool and nothing in use is back in
\* it (ports.go 12-13, "skipping ports that are already reserved").
Exclusive ==
  /\ \A c, d \in Clients : c # d => held[c] \cap held[d] = {}
  /\ reserved = UNION {held[c] : c \in Clients}

\* Allocate reports ErrNoFreePort only when every port of the range was
\* refused for a reason: no port stayed usable during the whole scan.  This
\* is what the round-robin position, the wrap-around and the loop bound have
\* to get right together.
NoFalseExhaustion == holder # Nobody /\ tried >= Size => openPorts = {}

\* A caller of Allocate gets its answer, however the host binds and unbinds
\* ports meanwhile.
AllocateReturns == \A c \in Clients : holder = c ~> holder # c

Pool == INSTANCE PortPool

\* The round-robin allocator implements the abstract pool.
ImplementsPool == Pool!Spec
===============================================================================
