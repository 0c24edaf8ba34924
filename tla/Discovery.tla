------------------------------ MODULE Discovery ------------------------------
(***************************************************************************)
(* How etherload and mega65_ftp find the MEGA65 (etherload_common.c): the  *)
(* address given by the user, or a socket per interface that waits for the *)
(* announcement of a MEGA65, read in turns until one is found, a call      *)
(* fails or the time is over.                                              *)
(***************************************************************************)
EXTENDS Integers, Sequences, FiniteSets, Functions

CONSTANTS
  Systems,         \* what the system may tell of its addresses: sequences of
                   \* [family, up, link_local, scope_id]
  MAX_INTERFACES,
  Targets,         \* what stands behind -i, cut at each %, or none
  Known,           \* addresses that are valid, and names of interfaces: name -> scope
  Machines,        \* MEGA65s and others that send: [addr, scope_id, says]
  Rounds,          \* rounds until the time is over
  MaxPackets       \* bound on what is sent

DiscoveryAssumption ==
  /\ \A s \in Systems : IsFiniteSet(DOMAIN s)
  /\ \A t \in Targets : t \in Seq(STRING)
  /\ MAX_INTERFACES \in Nat /\ Rounds \in Nat \ {0} /\ MaxPackets \in Nat

VARIABLES
  system, target,
  if_addrs,    \* the scopes of the interfaces that are listened on
  open,        \* discoverfd[]: the sockets that are open
  waiting,     \* socket -> packets that wait there
  idx,         \* the socket that is read next, or opened
  round,       \* stands for the time since the start
  servaddr,    \* the MEGA65: address and scope
  broadcast,   \* the scope of broadcast_addr
  heard,       \* history: who announced itself
  sent,        \* counts packets
  phase        \* "start", "opening", "probing", "found", "ready" or "failed"

vars == <<system, target, if_addrs, open, waiting, idx, round, servaddr, broadcast,
          heard, sent, phase>>

Nobody == [addr |-> "none", scope_id |-> 0]

Nth(S, n) == CHOOSE i \in S : Cardinality({j \in S : j <= i}) = n

\* Addresses of interfaces that are up and link-local, as many as there is room for.
enumerate_interfaces ==
  LET usable == {i \in DOMAIN system :
                   system[i].family = "inet6" /\ system[i].up /\ system[i].link_local}
      some == IF Cardinality(usable) < MAX_INTERFACES THEN Cardinality(usable) ELSE MAX_INTERFACES
  IN [n \in 1 .. some |-> system[Nth(usable, n)].scope_id]

\* Empty parts do not count: %eth0 has an address but no interface.
parse_ipv6_and_interface(parts) ==
  LET kept == {i \in DOMAIN parts : parts[i] # ""}
  IN [n \in 1 .. Cardinality(kept) |-> parts[Nth(kept, n)]]

\* An address that was given is not looked for.
ethl_configure_ip_address_and_interface ==
  /\ phase = "start" /\ target # << >>
  /\ LET p == parse_ipv6_and_interface(target)
         good == Len(p) >= 2 /\ p[1] \in Known.addresses /\ p[2] \in DOMAIN Known.interfaces
     IN /\ servaddr' = IF good THEN [addr |-> p[1], scope_id |-> Known.interfaces[p[2]]] ELSE servaddr
        /\ phase' = IF good THEN "found" ELSE "failed"
  /\ UNCHANGED <<system, target, if_addrs, open, waiting, idx, round, broadcast, heard, sent>>

Probe ==
  /\ phase = "start" /\ target = << >>
  /\ if_addrs' = enumerate_interfaces /\ idx' = 1
  /\ waiting' = [i \in DOMAIN if_addrs' |-> << >>]
  /\ phase' = IF if_addrs' = << >> THEN "failed" ELSE "opening"
  /\ UNCHANGED <<system, target, open, round, servaddr, broadcast, heard, sent>>

OpenSocket ==
  /\ phase = "opening" /\ idx <= Len(if_addrs)
  /\ open' = open \cup {idx}
  /\ idx' = IF idx = Len(if_addrs) THEN 1 ELSE idx + 1
  /\ phase' = IF idx = Len(if_addrs) THEN "probing" ELSE phase
  /\ UNCHANGED <<system, target, if_addrs, waiting, round, servaddr, broadcast, heard, sent>>

\* leave_probe_mega65: the sockets are closed up to the first that was not opened.
CloseSockets ==
  open' = {i \in open : \E k \in 1 .. i : k \notin open}

\* A call for a socket fails, with the socket made or not.
OpenFails ==
  /\ phase = "opening"
  /\ CloseSockets /\ phase' = "failed"
  /\ UNCHANGED <<system, target, if_addrs, waiting, idx, round, servaddr, broadcast, heard, sent>>

\* With the round it came in and how many are before it.
Packet(m, i) ==
  [addr |-> m.addr, scope_id |-> m.scope_id, says |-> m.says, round |-> round,
   behind |-> Len(waiting[i])]

\* All sockets have the same port, and the system hands a packet to some of them.
Sends ==
  /\ phase \in {"opening", "probing"} /\ sent < MaxPackets
  /\ \E m \in Machines, to \in SUBSET open \ {{ }} :
       /\ \E i \in DOMAIN if_addrs : if_addrs[i] = m.scope_id
       /\ waiting' = [i \in DOMAIN waiting |-> IF i \in to THEN Append(waiting[i], Packet(m, i)) ELSE waiting[i]]
       /\ heard' = IF m.says = "mega65" THEN heard \cup {[addr |-> m.addr, scope_id |-> m.scope_id]}
                   ELSE heard
  /\ sent' = sent + 1
  /\ UNCHANGED <<system, target, if_addrs, open, idx, round, servaddr, broadcast, phase>>

\* One packet of each socket in a round; where it came from tells the interface.
Receive ==
  /\ phase = "probing"
  /\ LET m == Head(waiting[idx])
         any == waiting[idx] # << >>
         last == idx = Len(if_addrs)
         over == last /\ round + 1 >= Rounds
     IN /\ waiting' = IF any THEN [waiting EXCEPT ![idx] = Tail(@)] ELSE waiting
        /\ idx' = IF last THEN 1 ELSE idx + 1
        /\ round' = IF last THEN round + 1 ELSE round
        /\ IF any /\ m.says = "mega65"
           THEN /\ servaddr' = [addr |-> m.addr, scope_id |-> m.scope_id]
                /\ phase' = "found" /\ CloseSockets
           ELSE IF over THEN phase' = "failed" /\ CloseSockets /\ UNCHANGED servaddr
           ELSE UNCHANGED <<servaddr, phase, open>>
  /\ UNCHANGED <<system, target, if_addrs, broadcast, heard, sent>>

ReceiveFails ==
  /\ phase = "probing" /\ phase' = "failed" /\ CloseSockets
  /\ UNCHANGED <<system, target, if_addrs, waiting, idx, round, servaddr, broadcast, heard, sent>>

\* The rest of etherload_init: what is sent to all goes out where the MEGA65 is.
etherload_init ==
  /\ phase = "found" /\ phase' = "ready" /\ broadcast' = servaddr.scope_id
  /\ UNCHANGED <<system, target, if_addrs, open, waiting, idx, round, servaddr, heard, sent>>

Init ==
  /\ system \in Systems /\ target \in Targets
  /\ if_addrs = << >> /\ open = {} /\ waiting = << >> /\ idx = 1 /\ round = 0
  /\ servaddr = Nobody /\ broadcast = 0 /\ heard = {} /\ sent = 0 /\ phase = "start"

Next ==
  \/ ethl_configure_ip_address_and_interface \/ Probe \/ OpenSocket \/ OpenFails \/ Sends
  \/ Receive \/ ReceiveFails \/ etherload_init

-----------------------------------------------------------------------------
(* Properties *)

\* A MEGA65 that was found has announced itself at the interface that is used for
\* it, though every socket hears what comes in at any interface; one that was
\* given is the one used.
FoundIsThere ==
  phase \in {"found", "ready"} =>
    IF target = << >> THEN servaddr \in heard
    ELSE /\ servaddr.addr \in Range(target)
         /\ \E name \in DOMAIN Known.interfaces :
              name \in Range(target) /\ servaddr.scope_id = Known.interfaces[name]
\* What starts the program there goes to the same network.
BroadcastsGoThere == phase = "ready" => broadcast = servaddr.scope_id
\* However the search ends, no socket keeps the port, on which others wait.
SocketsAreClosed == phase \in {"found", "ready", "failed"} => open = {}
\* When the time is over, an announcement that was not read came in the last
\* rounds or stood behind as many other packets.
NothingOverlooked ==
  phase = "failed" /\ round >= Rounds =>
    \A i \in DOMAIN waiting : \A k \in DOMAIN waiting[i] :
      waiting[i][k].says = "mega65" => waiting[i][k].round + waiting[i][k].behind + 1 >= Rounds
=============================================================================
