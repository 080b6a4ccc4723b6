----------------------------- MODULE MCProcess -----------------------------
(* What the processes of one machine keep: the tunnels of the proxy, the   *)
(* sessions with the cache that spares their touches, and the files that   *)
(* servers and commands share.  They meet only in the store, whose         *)
(* statements each module has as steps of its own, so that a behaviour     *)
(* follows one of them; clients of the proxy meet only at the semaphore,   *)
(* so that it has one client beside the control plane, or all of them      *)
(* while that rests.                                                       *)
EXTENDS Tunnel, Sessions, Boot

CONSTANTS k1, k2, p0, p1, p2, p3, n1, n2

MCKeys == {k1, k2}
MCUses == <<k1, k1, k2>>
MCProcs == {p0, p1, p2, p3}
MCPorts == {n1, n2}

VARIABLE focus

(* A new directory, or the one that p0 left when it was killed.            *)
KilledServer ==
  /\ pidfile = p0 /\ db = 1
  /\ \E rec \in {Plaintext(p0), Wrapped(p0)} :
       record = [d \in 1..MaxDb |-> IF d = 1 THEN rec ELSE None]
  /\ secrets = [d \in 1..MaxDb |-> IF d = 1 THEN {[key |-> p0, crossed |-> FALSE]} ELSE {}]
  /\ caFiles = [cert |-> p0, key |-> [of |-> p0, key |-> p0, crossed |-> FALSE]]
  /\ ports = [n \in Ports |-> None]

OneState == config = "unmatched" /\ policy = "deny"

MCInit ==
  /\ focus \in {"control", "clients", "sessions", "boot"}
  /\ Init /\ (focus \in {"sessions", "boot"} => OneState)
  /\ SessionsInit
  /\ Nothing \/ (focus = "boot" /\ KilledServer)
  /\ proc = [p \in Procs |-> IF p = p0 THEN Gone ELSE New]

MCNext ==
  \/ /\ focus \in {"control", "clients"}
     /\ \/ \E c \in Clients : (focus = "control" => c = 1) /\ Serve(c)
        \/ focus = "control" /\ Control
        \/ Restart
     /\ UNCHANGED <<sessionVars, bootVars>>
  \/ focus = "sessions" /\ SessionsNext /\ UNCHANGED <<vars, bootVars>>
  \/ focus = "boot" /\ BootNext /\ UNCHANGED <<vars, sessionVars>>

MCSpec == MCInit /\ [][MCNext /\ UNCHANGED focus]_<<vars, sessionVars, bootVars, focus>>
=============================================================================
