------------------------------- MODULE DhcpLink ------------------------------
(***************************************************************************)
(* The hosts on the USB link and the DHCP server of Dhcp.  Hosts behave as *)
(* RFC 2131 has it, with options in any order: DISCOVER until there is an  *)
(* OFFER, REQUEST what was offered, use the address for the lease counted  *)
(* from that REQUEST; after a reboot they may ask for the old address at   *)
(* once.  Other stations send anything at any time.  A message or its      *)
(* answer may be lost: the host is slow, the server is out of memory       *)
(* (dhcp_socket_sendto()), and a lease stands although its ACK is lost.    *)
(* The hosts are external; every step of the server is one of Dhcp's.      *)
(***************************************************************************)
EXTENDS Dhcp, FiniteSets

CONSTANTS
    Host         \* the stations that follow the protocol

ASSUME LinkAssumption == Host \subseteq Mac

VARIABLES
    phase,       \* of each host: "init", "ask" or "bound"
    ip,          \* the address it was offered, remembers, or uses
    left,        \* ticks it may use it
    tried        \* the hosts that have sent a message in this tick

hostVars == <<phase, ip, left, tried>>
vars == <<serverVars, hostVars>>

TypeOK ==
    /\ ServerTypeOK
    /\ phase \in [Host -> {"init", "ask", "bound"}]
    /\ ip \in [Host -> Ip \cup {NoIp}]
    /\ left \in [Host -> 0..Lease]
    /\ tried \subseteq Host

Init ==
    /\ ServerInit
    /\ phase = [h \in Host |-> "init"] /\ ip = [h \in Host |-> NoIp]
    /\ left = [h \in Host |-> 0] /\ tried = {}
------------------------------------------------------------------------------
\* What hosts send: the type and the address in either order, with an option of
\* others around them whose data look like codes.
Filler == <<55, 3, MSG_TYPE, END, REQUESTED_IP>>
Type(t) == <<MSG_TYPE, 1, t>>
Want(i) == IF i = NoIp THEN <<>> ELSE <<REQUESTED_IP, 1, i>>
Message(t, i) == {Type(t) \o Filler \o Want(i) \o <<END>>, Filler \o Want(i) \o Type(t) \o <<END>>}

Messages(t) ==
    UNION {{[sent |-> i, read |-> Read(opt)] : opt \in Message(t, i)} : i \in Ip \cup {NoIp}}
Discovers == {q \in Messages(DHCPDISCOVER) : q.sent = NoIp}
Requests == Messages(DHCPREQUEST)

\* What other stations send: the same, or padded in front, or without a type.
Odd == {<<PAD, MSG_TYPE, 1, DHCPDISCOVER, END>>, <<REQUESTED_IP, 1, 1, END>>}
Anything == {q.read : q \in Discovers \cup Requests} \cup {Read(opt) : opt \in Odd}

Becomes(h, p, i, n) ==
    /\ phase' = [phase EXCEPT ![h] = p]
    /\ ip' = [ip EXCEPT ![h] = i]
    /\ left' = [left EXCEPT ![h] = n]

HostDiscovers(h) ==
    /\ phase[h] = "init" /\ h \notin tried
    /\ tried' = tried \cup {h}
    /\ \E q \in Discovers :
         /\ Process(h, q.read)
         /\ IF Answer(h, q.read).kind = "offer" THEN Becomes(h, "ask", Answer(h, q.read).ip, 0)
            ELSE Becomes(h, "init", NoIp, 0)

HostAsks(h) ==
    /\ phase[h] = "ask" /\ UNCHANGED tried
    /\ \E q \in Requests :
         /\ q.sent = ip[h]
         /\ Process(h, q.read)
         /\ IF Answer(h, q.read) = [kind |-> "ack", ip |-> ip[h]] THEN Becomes(h, "bound", ip[h], Lease)
            ELSE Becomes(h, "init", NoIp, 0)

\* A message is lost, or its answer; the host tries again later, from the start.
Lose(h) ==
    /\ phase[h] # "bound" /\ h \notin tried
    /\ tried' = tried \cup {h}
    /\ Becomes(h, "init", NoIp, 0)
    /\ \/ UNCHANGED serverVars
       \/ phase[h] = "init" /\ Discover(h)
       \/ phase[h] = "ask" /\ Request(h, ip[h])

\* The host is restarted, and remembers its address or not.
Reboot(h) ==
    /\ phase[h] = "bound"
    /\ \/ Becomes(h, "init", NoIp, 0) \/ Becomes(h, "ask", ip[h], 0)
    /\ UNCHANGED <<serverVars, tried>>

\* The board is restarted; the link goes down with it, and the hosts start over.
BoardRestarts ==
    /\ Restart
    /\ \E R \in SUBSET {h \in Host : phase[h] = "bound"} :
         /\ phase' = [h \in Host |-> IF h \in R THEN "ask" ELSE "init"]
         /\ ip' = [h \in Host |-> IF h \in R THEN ip[h] ELSE NoIp]
    /\ left' = [h \in Host |-> 0] /\ tried' = {}

StrangerSends(m) ==
    /\ m \notin Host /\ UNCHANGED hostVars
    /\ \E q \in Anything : Process(m, q)

\* A renewal has the address in ciaddr and no option 50.
Renew(h) ==
    /\ phase[h] = "bound"
    /\ \E q \in Requests : q.sent = NoIp /\ Process(h, q.read)
    /\ UNCHANGED hostVars

\* A tick is longer than the time in which a host tries again: seconds, where a
\* granule of the lease is a minute.
TimePasses ==
    /\ \A h \in Host : phase[h] = "bound" \/ h \in tried
    /\ Tick
    /\ left' = [h \in Host |-> IF left[h] > 0 THEN left[h] - 1 ELSE 0]
    /\ phase' = [h \in Host |-> IF phase[h] = "bound" /\ left'[h] = 0 THEN "init" ELSE phase[h]]
    /\ ip' = [h \in Host |-> IF phase'[h] = "init" THEN NoIp ELSE ip[h]]
    /\ tried' = {}

Trouble ==
    \/ BoardRestarts
    \/ \E h \in Host : Lose(h) \/ Reboot(h)
    \/ \E m \in Mac : StrangerSends(m)

Progress == TimePasses \/ \E h \in Host : HostDiscovers(h) \/ HostAsks(h)

Next == Trouble \/ Progress \/ \E h \in Host : Renew(h)

\* Hosts keep trying and time goes on.
Spec == Init /\ [][Next]_vars /\ WF_vars(Progress)
------------------------------------------------------------------------------
(* Properties *)

\* What DHCP is for: a host that uses an address, by its own clock and after
\* whatever was lost, is the one the server has it bound to, so that no two
\* stations ever use one address.
UseIsGranted ==
    \A h \in Host : phase[h] = "bound" => lease[ip[h]].mac = h

\* Every host gets an address and gets it back when its time is over, unless
\* strangers, losses and restarts go on for ever: the pool that strangers have
\* emptied comes back as their leases run out.
HostsGetAddresses ==
    []<><<Trouble>>_vars \/ \A h \in Host : []<>(phase[h] = "bound")
==============================================================================
