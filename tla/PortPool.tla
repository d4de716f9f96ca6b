------------------------------- MODULE PortPool -------------------------------
(***************************************************************************)
(* What a port allocator promises to its callers, without saying how it    *)
(* finds a port: a port is handed to one client at a time, and it becomes  *)
(* available again when that client gives it back.  The round-robin        *)
(* allocator of src/internal/process/ports.go (module PortAllocator) is    *)
(* shown to implement this.                                                *)
(***************************************************************************)
CONSTANTS Ports, Clients

VARIABLE held   \* held[c]: the ports client c has been given and not returned

Taken == UNION {held[c] : c \in Clients}

Init == held = [c \in Clients |-> {}]

Take(c, p) ==
  /\ p \notin Taken
  /\ held' = [held EXCEPT ![c] = @ \cup {p}]

Give(c, p) ==
  /\ p \in held[c]
  /\ held' = [held EXCEPT ![c] = @ \ {p}]

Next == \E c \in Clients, p \in Ports : Take(c, p) \/ Give(c, p)

Spec == Init /\ [][Next]_held
===============================================================================
