-------------------------------- MODULE Dhcp ---------------------------------
(***************************************************************************)
(* The DHCP server of src/dhcpserver/dhcpserver.c: DHCPS_MAX_IP leases,    *)
(* each a MAC and an expiry, kept for one run of the board.  The clock is  *)
(* the 32 bit millisecond tick, which wraps; a lease keeps only its upper  *)
(* half (expiry is a uint16_t), and whether it has run out is a signed     *)
(* comparison.  Here the clock counts modulo Wrap and a lease keeps the    *)
(* quotient by Granule.  A message is a row of option bytes behind a MAC.  *)
(***************************************************************************)
EXTENDS Integers, Sequences

CONSTANTS
    Mac,         \* the hosts on the link
    Free,        \* an all-zero MAC: nobody
    MaxIp,       \* DHCPS_MAX_IP
    Wrap,        \* 2^32 milliseconds
    Granule,     \* 2^16 milliseconds
    Lease        \* DEFAULT_LEASE_TIME_S * 1000

Half == Wrap \div 2

ASSUME DhcpAssumption ==
    /\ Free \notin Mac /\ MaxIp \in Nat \ {0}
    /\ Granule \in Nat \ {0} /\ Wrap \in Nat /\ Wrap % (2 * Granule) = 0
    /\ Lease \in Nat \ {0} /\ Lease + Granule < Half

Ip == 1..MaxIp
NoIp == 0

VARIABLES
    lease,     \* d->lease[]: who an address is bound to, and until when
    now,       \* get_ticks_ms()
    holder,    \* history: whom the last DHCPACK for an address went to
    age        \* history: time since that DHCPACK

serverVars == <<lease, now, holder, age>>

\* Where age stops counting: beyond it nothing new can happen to a lease.
MaxAge == Lease + Half + 1

ServerTypeOK ==
    /\ lease \in [Ip -> [mac : Mac \cup {Free}, expiry : 0..(Wrap \div Granule - 1)]]
    /\ now \in 0..(Wrap - 1)
    /\ holder \in [Ip -> Mac \cup {Free}]
    /\ age \in [Ip -> 0..MaxAge]

NoLeases == [i \in Ip |-> [mac |-> Free, expiry |-> 0]]

\* The board starts with an empty table, and its clock with it.
ServerInit ==
    /\ lease = NoLeases /\ now = 0
    /\ holder = [i \in Ip |-> Free]
    /\ age = [i \in Ip |-> 0]
------------------------------------------------------------------------------
(* The options: a code, a length and that many bytes, up to END.  The codes  *)
(* are those of the source where it looks for one; a row always has an END.  *)

DHCPDISCOVER == 1
DHCPREQUEST == 3
PAD == 0
REQUESTED_IP == 50
MSG_TYPE == 53
END == 255

\* Where the option starts, or 0.  PAD is taken for an option with a length.
opt_find(opt, cmd) ==
    LET walk[i \in 1..(Len(opt) + 1)] ==
          CASE i > Len(opt) \/ opt[i] = END -> 0
            [] opt[i] = cmd -> i
            [] i + 2 + opt[i + 1] > Len(opt) -> 0
            [] OTHER -> walk[i + 2 + opt[i + 1]]
    IN  walk[1]

\* What a row of options comes to: its type, or 0, and the address it asks for.
Read(opt) ==
    LET type == opt_find(opt, MSG_TYPE)
        wanted == opt_find(opt, REQUESTED_IP)
    IN  [type |-> IF type = 0 THEN 0 ELSE opt[type + 2],
         ip |-> IF wanted = 0 THEN NoIp ELSE opt[wanted + 2]]
------------------------------------------------------------------------------
\* Mutant: an unsigned comparison, wrong around the wrap of the clock.
ExpiredUnsigned(i) == lease[i].expiry * Granule + Granule - 1 < now

\* (int32_t)((expiry << 16 | 0xffff) - get_ticks_ms()) < 0
Expired(i) == (lease[i].expiry * Granule + Granule - 1 - now) % Wrap >= Half

Smallest(i, S) == i \in S /\ \A j \in S : i <= j
First(S) == IF \E i \in S : Smallest(i, S) THEN CHOOSE i \in S : Smallest(i, S) ELSE NoIp

OwnIp(m) == First({i \in Ip : lease[i].mac = m})

\* The free or expired address the scan meets first, and before the client's own.
ReusableIp(m) ==
    First({i \in Ip : /\ lease[i].mac = Free \/ Expired(i)
                      /\ OwnIp(m) # NoIp => i < OwnIp(m)})

OfferTo(m) == IF OwnIp(m) # NoIp THEN OwnIp(m) ELSE ReusableIp(m)

\* Mutant: the expired lease is offered and not taken from its client.
DiscoverKeepsMac(m) == m \in Mac /\ UNCHANGED serverVars

\* DHCPDISCOVER: an expired address that the scan meets loses its MAC even if
\* the client turns out to have an address of its own further down the table.
Discover(m) ==
    /\ lease' = [i \in Ip |-> IF i = ReusableIp(m) THEN [lease[i] EXCEPT !.mac = Free]
                              ELSE lease[i]]
    /\ UNCHANGED <<now, holder, age>>

\* Mutant: the sum is kept wider than the clock.
ExpiryWide(t) == (t + Lease) \div Granule

\* Mutant: seconds are added to milliseconds, which is next to nothing.
ExpirySeconds(t) == (t % Wrap) \div Granule

\* (get_ticks_ms() + DEFAULT_LEASE_TIME_S * 1000) >> 16
ExpiryAt(t) == ((t + Lease) % Wrap) \div Granule
NewLease(m, t) == [mac |-> m, expiry |-> ExpiryAt(t)]

\* Mutant: an address that is in use is granted again.
TakesAny(m, i) == i \in Ip /\ m \in Mac

\* An address of the pool that is the client's own or nobody's.
MayHave(m, i) == i \in Ip /\ lease[i].mac \in {m, Free}

\* DHCPREQUEST.
Request(m, i) ==
    /\ MayHave(m, i)
    /\ lease' = [lease EXCEPT ![i] = NewLease(m, now)]
    /\ holder' = [holder EXCEPT ![i] = m]
    /\ age' = [age EXCEPT ![i] = 0]
    /\ UNCHANGED now

\* dhcp_server_process() on a message it reads as q.
Process(m, q) ==
    \/ q.type = DHCPDISCOVER /\ Discover(m)
    \/ q.type = DHCPREQUEST /\ Request(m, q.ip)
    \/ q.type = DHCPREQUEST /\ ~MayHave(m, q.ip) /\ UNCHANGED serverVars
    \/ q.type \notin {DHCPDISCOVER, DHCPREQUEST} /\ UNCHANGED serverVars

Silence == [kind |-> "none", ip |-> NoIp]

\* What it answers.  It keeps silent for a type it does not know or cannot find,
\* and for a REQUEST with no option 50 (as in a renewal) or for somebody else's
\* address, where a NACK is due.
Answer(m, q) ==
    CASE q.type = DHCPDISCOVER /\ OfferTo(m) # NoIp -> [kind |-> "offer", ip |-> OfferTo(m)]
      [] q.type = DHCPREQUEST /\ MayHave(m, q.ip) -> [kind |-> "ack", ip |-> q.ip]
      [] OTHER -> Silence

Tick ==
    /\ now' = (now + 1) % Wrap
    /\ age' = [i \in Ip |-> IF age[i] < MaxAge THEN age[i] + 1 ELSE MaxAge]
    /\ UNCHANGED <<lease, holder>>

\* The board restarts: leases and clock are gone.
Restart ==
    /\ lease' = NoLeases /\ now' = 0
    /\ holder' = [i \in Ip |-> Free] /\ age' = [i \in Ip |-> 0]
------------------------------------------------------------------------------
(* Properties *)

\* An address a client was granted stays its own until the granted time is
\* over, whatever the clock does and although the expiry is kept in half of
\* the bits: nobody else is offered or granted it (dhcpserver.c:231-236).
GrantsAreKept ==
    \A i \in Ip : holder[i] # Free /\ age[i] < Lease => lease[i].mac = holder[i]

\* A DISCOVER goes unanswered only while every address is bound to another
\* client whose time is not over, give or take a granule; or was over for more
\* than half a clock period, when the signed comparison has turned round.
NoNeedlessSilence ==
    \A m \in Mac : OfferTo(m) = NoIp =>
        \A i \in Ip : /\ holder[i] \notin {m, Free}
                      /\ age[i] < Lease + Granule \/ age[i] > Lease + Half
==============================================================================
