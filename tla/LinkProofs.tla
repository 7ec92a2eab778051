------------------------------ MODULE LinkProofs -----------------------------
(***************************************************************************)
(* The link between the board and its hosts.  UsbNetwork: who owns a frame *)
(* and when the OUT endpoint is armed, for every pool of pbufs.  Dhcp and  *)
(* DhcpLink: that nobody loses an address it was granted and nobody is     *)
(* refused one without a reason, for every lease time, every width of the  *)
(* clock and every part of it a lease keeps.  Liveness stays with TLC.     *)
(***************************************************************************)
EXTENDS UsbNetwork, DhcpLink, NumberFacts, TLAPS

(* UsbNetwork.                                                                  *)

\* While lwIP works on a frame the shared pointer still shows it and lwIP owns
\* it; at any other time a pointer that is set shows one the driver owns.  All of
\* it holds until the host re-initialises while a frame is worked on.
HandOff ==
    at # "down" /\ ~nested =>
        /\ input # None => received_frame = input /\ owner[input] = "lwip"
        /\ input = None /\ received_frame # None => owner[received_frame] = "driver"

UsbInv == UsbTypeOK /\ ReceiverAlive /\ FramesAreOwned /\ HandOff

LEMMA InitUsbInv == UsbInit => UsbInv
  BY UsbAssumption
     DEF UsbInit, UsbInv, UsbTypeOK, ReceiverAlive, FramesAreOwned, HandOff

LEMMA NextUsbInv == UsbInv /\ [UsbNext]_usbVars => UsbInv'
<1> SUFFICES ASSUME UsbInv, [UsbNext]_usbVars PROVE UsbInv'
  OBVIOUS
<1> USE UsbAssumption DEF UsbInv, UsbTypeOK, ReceiverAlive, FramesAreOwned, HandOff, InTask,
                        Reentrant
<1>1. ASSUME NEW p \in Pbuf, RecvStored(p) PROVE UsbInv'
  BY <1>1 DEF RecvStored
<1>2. ASSUME NEW p \in Pbuf, QueueFreed(p) PROVE UsbInv'
  BY <1>2 DEF QueueFreed
<1>3. CASE RecvLost
  BY <1>3 DEF RecvLost
<1>4. CASE Reinit
  BY <1>4 DEF Reinit
<1>5. CASE TaskDone \/ ServiceNothing \/ TimersDone
  BY <1>5 DEF TaskDone, ServiceNothing, TimersDone
<1>6. CASE ServiceFrame
  BY <1>6 DEF ServiceFrame
<1>7. CASE OutputBegin \/ OutputEnd
  BY <1>7 DEF OutputBegin, OutputEnd
<1>8. CASE InputReturns
  BY <1>8 DEF InputReturns, InputEnds
<1>9. CASE UNCHANGED usbVars
  BY <1>9 DEF usbVars
<1>10. CASE Start
  BY <1>10 DEF Start
<1>11. CASE Deinit
  BY <1>11 DEF Deinit
<1>12. CASE Reset
  BY <1>12 DEF Reset
<1> QED BY <1>1, <1>2, <1>3, <1>4, <1>5, <1>6, <1>7, <1>8, <1>9, <1>10, <1>11,
          <1>12 DEF UsbNext

\* The inductive invariant of the hand-off.
THEOREM UsbInvariance == UsbSpec => []UsbInv
  BY InitUsbInv, NextUsbInv, PTL DEF UsbSpec

\* Type correctness: where the thread is, and whether lwIP has a frame there.
THEOREM UsbTypeCorrect == UsbSpec => []UsbTypeOK
<1>1. UsbInv => UsbTypeOK
  BY DEF UsbInv
<1> QED BY <1>1, UsbInvariance, PTL

\* usb_network.c:102: nobody frees a frame that is not its own, and no stored frame
\* is forgotten, as long as no re-initialisation comes from within tud_output().
THEOREM FrameOwnership == UsbSpec => []FramesAreOwned
<1>1. UsbInv => FramesAreOwned
  BY DEF UsbInv
<1> QED BY <1>1, UsbInvariance, PTL

\* usb_network.c:111: a frame never arrives on top of a pending one ("this
\* shouldn't happen"), and the endpoint is deaf only after a lost frame.
THEOREM EndpointIsArmed == UsbSpec => []ReceiverAlive
<1>1. UsbInv => ReceiverAlive
  BY DEF UsbInv
<1> QED BY <1>1, UsbInvariance, PTL
------------------------------------------------------------------------------
(* Dhcp and DhcpLink.                                                           *)

\* How far ahead of the clock the end of a lease is, around the wrap.
Ahead(i) == ((lease[i].expiry * Granule) + Granule - 1 - now) % Wrap

LeaseTypes ==
    /\ lease \in [Ip -> [mac : Mac \cup {Free}, expiry : Int]]
    /\ now \in 0..(Wrap - 1)
    /\ holder \in [Ip -> Mac \cup {Free}]
    /\ age \in [Ip -> Nat]

\* A grant that is not over is in the table, and ends neither before its time nor
\* a granule after it.
Kept(i) ==
    holder[i] # Free /\ age[i] < Lease =>
        /\ lease[i].mac = holder[i]
        /\ Lease - age[i] <= Ahead(i) /\ Ahead(i) < Lease - age[i] + Granule

LeaseInv == LeaseTypes /\ \A i \in Ip : Kept(i)

ServerNext ==
    \/ Tick \/ Restart
    \/ \E m \in Mac : Discover(m) \/ \E i \in Ip : Request(m, i)

LEMMA Clock ==
    /\ Wrap \in Nat \ {0} /\ Granule \in Nat \ {0} /\ Lease \in Nat \ {0} /\ Half \in Int
    /\ Lease + Granule < Half /\ Half <= Wrap /\ Lease < MaxAge /\ MaxAge \in Nat
<1>1. /\ Wrap \in Nat /\ Granule \in Nat \ {0} /\ Lease \in Nat \ {0}
      /\ Lease + Granule < Half
  BY DhcpAssumption
<1>2. Half \in Int /\ Half <= Wrap
  BY <1>1 DEF Half
<1> QED BY <1>1, <1>2 DEF MaxAge

\* The next tick of the clock, around the wrap.
LEMMA NextTick ==
    ASSUME NEW t \in 0..(Wrap - 1)
    PROVE  \/ (t + 1) % Wrap = t + 1 /\ t + 1 \in 0..(Wrap - 1)
           \/ (t + 1) % Wrap = t + 1 - Wrap /\ t + 1 - Wrap \in 0..(Wrap - 1)
<1>1. CASE t + 1 < Wrap
  <2>1. t + 1 \in 0..(Wrap - 1) /\ (0 * Wrap) + (t + 1) = t + 1
    BY <1>1, Clock
  <2>2. ((0 * Wrap) + (t + 1)) % Wrap = t + 1
    BY <2>1, Clock, ModUnique
  <2> QED BY <2>1, <2>2
<1>2. CASE ~(t + 1 < Wrap)
  <2>1. t + 1 = Wrap /\ 0 \in 0..(Wrap - 1) /\ (1 * Wrap) + 0 = t + 1
    BY <1>2, Clock
  <2>2. ((1 * Wrap) + 0) % Wrap = 0
    BY <2>1, Clock, ModUnique
  <2> QED BY <2>1, <2>2, Clock
<1> QED BY <1>1, <1>2

\* One less, whether the clock wraps meanwhile or not.
LEMMA OneLess ==
    ASSUME NEW x \in Int, x % Wrap >= 1
    PROVE  (x - 1) % Wrap = (x % Wrap) - 1 /\ (x - 1 + Wrap) % Wrap = (x % Wrap) - 1
<1> DEFINE d == x \div Wrap
           r == x % Wrap
<1>1. d \in Int /\ r \in 0..(Wrap - 1) /\ x = (d * Wrap) + r
  BY DivMod, Clock
<1>2. r >= 1
  OBVIOUS
<1> HIDE DEF d, r
<1>3. r - 1 \in 0..(Wrap - 1)
  BY <1>1, <1>2, Clock
<1>4. d * Wrap \in Int /\ (d + 1) * Wrap = (d * Wrap) + Wrap
  BY <1>1, Clock
<1>5. ((d * Wrap) + (r - 1)) % Wrap = r - 1 /\ (((d + 1) * Wrap) + (r - 1)) % Wrap = r - 1
  BY <1>1, <1>3, Clock, ModUnique
<1>6. x - 1 = (d * Wrap) + (r - 1) /\ x - 1 + Wrap = ((d + 1) * Wrap) + (r - 1)
  BY <1>1, <1>4, Clock
<1> QED BY <1>5, <1>6 DEF r

\* A new lease, kept in granules, ends within a granule after its time.
LEMMA GrantLasts ==
    ASSUME NEW t \in 0..(Wrap - 1)
    PROVE  /\ ExpiryAt(t) \in Int
           /\ Lease <= ((ExpiryAt(t) * Granule) + Granule - 1 - t) % Wrap
           /\ ((ExpiryAt(t) * Granule) + Granule - 1 - t) % Wrap < Lease + Granule
<1> DEFINE u == (t + Lease) % Wrap
           e == u \div Granule
           d == u % Granule
           r == Lease + Granule - 1 - d
<1>1. \E q \in {0, 1} : u = t + Lease - (q * Wrap) /\ u \in Int
  <2>1. CASE t + Lease < Wrap
    <3>1. t + Lease \in 0..(Wrap - 1) /\ (0 * Wrap) + (t + Lease) = t + Lease
      BY <2>1, Clock
    <3>2. ((0 * Wrap) + (t + Lease)) % Wrap = t + Lease
      BY <3>1, Clock, ModUnique
    <3> QED BY <3>1, <3>2, Clock
  <2>2. CASE ~(t + Lease < Wrap)
    <3>1. t + Lease - Wrap \in 0..(Wrap - 1) /\ (1 * Wrap) + (t + Lease - Wrap) = t + Lease
      BY <2>2, Clock
    <3>2. ((1 * Wrap) + (t + Lease - Wrap)) % Wrap = t + Lease - Wrap
      BY <3>1, Clock, ModUnique
    <3> QED BY <3>1, <3>2, Clock
  <2> QED BY <2>1, <2>2
<1>2. PICK q \in {0, 1} : u = t + Lease - (q * Wrap) /\ u \in Int
  BY <1>1
<1> HIDE DEF u
<1>3. e \in Int /\ d \in 0..(Granule - 1) /\ u = (e * Granule) + d
  BY <1>2, Clock, DivMod
<1> HIDE DEF e, d
<1>4. r \in 0..(Wrap - 1) /\ Lease <= r /\ r < Lease + Granule
  BY <1>3, Clock
<1>5. (e * Granule) + Granule - 1 - t = ((0 - q) * Wrap) + r
  <2>1. e * Granule \in Int /\ q * Wrap \in Int /\ (0 - q) * Wrap = 0 - (q * Wrap)
    BY <1>3, Clock
  <2> QED BY <1>2, <1>3, <2>1, Clock
<1> HIDE DEF r
<1>6. (((0 - q) * Wrap) + r) % Wrap = r
  <2>1. 0 - q \in Int
    OBVIOUS
  <2> QED BY <2>1, <1>4, Clock, ModUnique
<1>7. ExpiryAt(t) = e
  BY DEF ExpiryAt, u, e
<1> QED BY <1>3, <1>4, <1>5, <1>6, <1>7
------------------------------------------------------------------------------
LEMMA FirstIn ==
    ASSUME NEW S, First(S) # NoIp
    PROVE  First(S) \in S
BY DEF First, Smallest

LEMMA AheadType ==
    ASSUME LeaseTypes, NEW i \in Ip
    PROVE  Ahead(i) \in Int
<1> DEFINE x == (lease[i].expiry * Granule) + Granule - 1 - now
<1>1. lease[i].expiry \in Int /\ now \in Int
  BY DEF LeaseTypes
<1>2. lease[i].expiry * Granule \in Int
  BY <1>1, Clock
<1>3. x \in Int
  BY <1>1, <1>2, Clock
<1>4. Ahead(i) = x % Wrap
  BY DEF Ahead
<1> HIDE DEF x
<1> QED BY <1>3, <1>4, Clock, DivMod

\* An address whose grant is not over is not offered to anybody else.
LEMMA KeptIsNotReused ==
    ASSUME LeaseInv, NEW m \in Mac, NEW i \in Ip, holder[i] # Free, age[i] < Lease
    PROVE  ReusableIp(m) # i
<1>1. i # NoIp
  BY DEF Ip, NoIp
<1>2. lease[i].mac # Free /\ Ahead(i) < Lease - age[i] + Granule /\ age[i] \in Nat
  BY DEF LeaseInv, Kept, LeaseTypes
<1>3. Ahead(i) < Half
  <2>1. Ahead(i) \in Int
    BY AheadType DEF LeaseInv
  <2> QED BY <1>2, <2>1, Clock
<1>4. ~Expired(i)
  <2>1. Expired(i) <=> Ahead(i) >= Half
    BY Zenon DEF Expired, Ahead
  <2>2. Ahead(i) \in Int
    BY AheadType DEF LeaseInv
  <2> QED BY <1>3, <2>1, <2>2, Clock
<1>5. CASE ReusableIp(m) = NoIp
  BY <1>1, <1>5
<1>6. CASE ReusableIp(m) # NoIp
  <2>1. lease[ReusableIp(m)].mac = Free \/ Expired(ReusableIp(m))
    BY <1>6, FirstIn DEF ReusableIp
  <2> QED BY <1>2, <1>4, <2>1
<1> QED BY <1>5, <1>6

LEMMA EmptyTable ==
    ASSUME lease' = NoLeases, now' = 0,
           holder' = [i \in Ip |-> Free], age' = [i \in Ip |-> 0]
    PROVE  LeaseInv'
<1>1. lease' \in [Ip -> [mac : Mac \cup {Free}, expiry : Int]]
  BY DEF NoLeases
<1>2. now' \in 0..(Wrap - 1)
  BY Clock
<1>3. holder' \in [Ip -> Mac \cup {Free}] /\ age' \in [Ip -> Nat]
  BY SMT
<1>4. \A i \in Ip : Kept(i)'
  BY DEF Kept
<1> QED BY <1>1, <1>2, <1>3, <1>4 DEF LeaseInv, LeaseTypes

LEMMA InitLeases == ServerInit => LeaseInv
<1> SUFFICES ASSUME ServerInit PROVE LeaseInv
  OBVIOUS
<1>1. lease \in [Ip -> [mac : Mac \cup {Free}, expiry : Int]]
  BY DEF NoLeases, ServerInit
<1>2. now \in 0..(Wrap - 1)
  BY Clock DEF ServerInit
<1>3. holder \in [Ip -> Mac \cup {Free}] /\ age \in [Ip -> Nat]
  BY DEF ServerInit
<1>4. \A i \in Ip : Kept(i)
  BY DEF Kept, ServerInit
<1> QED BY <1>1, <1>2, <1>3, <1>4 DEF LeaseInv, LeaseTypes

LEMMA TickKeeps == LeaseInv /\ Tick => LeaseInv'
<1> SUFFICES ASSUME LeaseInv, Tick PROVE LeaseInv'
  OBVIOUS
<1>1. now' \in 0..(Wrap - 1)
  BY NextTick DEF Tick, LeaseInv, LeaseTypes
<1>2. \A i \in Ip : age[i] \in Nat /\ age'[i] = IF age[i] < MaxAge THEN age[i] + 1 ELSE MaxAge
  BY DEF Tick, LeaseInv, LeaseTypes
<1>3. \A i \in Ip : age'[i] \in Nat
  BY <1>2, Clock
<1>4. LeaseTypes'
  <2>1. age' \in [Ip -> Nat]
    BY <1>3, Zenon DEF Tick
  <2> QED BY <1>1, <2>1 DEF Tick, LeaseInv, LeaseTypes
<1>5. ASSUME NEW i \in Ip PROVE Kept(i)'
  <2> SUFFICES ASSUME holder'[i] # Free, age'[i] < Lease
               PROVE  /\ lease'[i].mac = holder'[i]
                      /\ Lease - age'[i] <= Ahead(i)' /\ Ahead(i)' < Lease - age'[i] + Granule
    BY DEF Kept
  <2>1. age'[i] = age[i] + 1 /\ age[i] \in Nat /\ age[i] < Lease
    BY <1>2, Clock
  <2>2. lease' = lease /\ holder' = holder /\ now' = (now + 1) % Wrap /\ now \in 0..(Wrap - 1)
    BY DEF Tick, LeaseInv, LeaseTypes
  <2>3. /\ lease[i].mac = holder[i]
        /\ Lease - age[i] <= Ahead(i) /\ Ahead(i) < Lease - age[i] + Granule
    BY <2>1, <2>2 DEF LeaseInv, Kept
  <2> DEFINE x == (lease[i].expiry * Granule) + Granule - 1 - now
  <2>4. x \in Int
    <3>1. lease[i].expiry \in Int
      BY DEF LeaseInv, LeaseTypes
    <3>2. lease[i].expiry * Granule \in Int
      BY <3>1, Clock
    <3> QED BY <2>2, <3>2, Clock
  <2>5. Ahead(i) = x % Wrap
    BY DEF Ahead
  <2>6. x % Wrap \in Int
    BY <2>4, Clock, DivMod
  <2>7. x % Wrap >= 1
    BY <2>1, <2>3, <2>5, <2>6, Clock
  <2>8. Ahead(i)' = (x - 1) % Wrap \/ Ahead(i)' = (x - 1 + Wrap) % Wrap
    <3>1. Ahead(i)' = ((lease[i].expiry * Granule) + Granule - 1 - now') % Wrap
      BY <2>2 DEF Ahead
    <3> DEFINE y == (lease[i].expiry * Granule)
    <3>2. y \in Int
      <4>1. lease[i].expiry \in Int
        BY DEF LeaseInv, LeaseTypes
      <4> QED BY <4>1, Clock
    <3>3. x = y + Granule - 1 - now /\ Ahead(i)' = (y + Granule - 1 - now') % Wrap
      BY <3>1
    <3> HIDE DEF x, y
    <3>4. CASE now' = now + 1
      <4>1. y + Granule - 1 - now' = x - 1
        BY <2>2, <3>2, <3>3, <3>4, Clock
      <4> QED BY <3>3, <4>1
    <3>5. CASE now' = now + 1 - Wrap
      <4>1. y + Granule - 1 - now' = x - 1 + Wrap
        BY <2>2, <3>2, <3>3, <3>5, Clock
      <4> QED BY <3>3, <4>1
    <3> QED BY <2>2, <3>4, <3>5, NextTick
  <2> HIDE DEF x
  <2>9. Ahead(i)' = Ahead(i) - 1
    BY <2>4, <2>5, <2>7, <2>8, OneLess
  <2> QED BY <2>1, <2>2, <2>3, <2>5, <2>6, <2>9, Clock
<1> QED BY <1>4, <1>5 DEF LeaseInv

LEMMA DiscoverKeeps == ASSUME LeaseInv, NEW m \in Mac, Discover(m) PROVE LeaseInv'
<1>1. /\ lease' = [i \in Ip |-> IF i = ReusableIp(m) THEN [lease[i] EXCEPT !.mac = Free] ELSE lease[i]]
      /\ now' = now /\ holder' = holder /\ age' = age
  BY DEF Discover
<1>2. \A i \in Ip : lease[i] \in [mac : Mac \cup {Free}, expiry : Int]
  BY DEF LeaseInv, LeaseTypes
<1>3. \A i \in Ip : lease'[i] = IF i = ReusableIp(m) THEN [lease[i] EXCEPT !.mac = Free] ELSE lease[i]
  BY <1>1, Zenon
<1>4. lease' \in [Ip -> [mac : Mac \cup {Free}, expiry : Int]]
  <2>1. \A i \in Ip : lease'[i] \in [mac : Mac \cup {Free}, expiry : Int]
    BY <1>2, <1>3
  <2> QED BY <1>1, <2>1, Zenon
<1>5. ASSUME NEW i \in Ip PROVE Kept(i)'
  <2> SUFFICES ASSUME holder[i] # Free, age[i] < Lease
               PROVE  /\ lease'[i].mac = holder[i]
                      /\ Lease - age[i] <= Ahead(i)' /\ Ahead(i)' < Lease - age[i] + Granule
    BY <1>1 DEF Kept
  <2>1. lease'[i] = lease[i]
    BY <1>3, KeptIsNotReused
  <2>2. Ahead(i)' = Ahead(i)
    BY <1>1, <2>1 DEF Ahead
  <2> QED BY <2>1, <2>2 DEF LeaseInv, Kept
<1> QED BY <1>1, <1>4, <1>5 DEF LeaseInv, LeaseTypes

LEMMA RequestKeeps == ASSUME LeaseInv, NEW m \in Mac, NEW i \in Ip, Request(m, i) PROVE LeaseInv'
<1>1. /\ lease' = [lease EXCEPT ![i] = [mac |-> m, expiry |-> ExpiryAt(now)]]
      /\ now' = now /\ holder' = [holder EXCEPT ![i] = m] /\ age' = [age EXCEPT ![i] = 0]
  BY DEF Request, NewLease
<1>2. now \in 0..(Wrap - 1)
  BY DEF LeaseInv, LeaseTypes
<1>3. LeaseTypes'
  BY <1>1, <1>2, GrantLasts DEF LeaseInv, LeaseTypes
<1>4. ASSUME NEW j \in Ip, j # i PROVE Kept(j)'
  <2>1. lease'[j] = lease[j] /\ holder'[j] = holder[j] /\ age'[j] = age[j]
    BY <1>1, <1>4 DEF LeaseInv, LeaseTypes
  <2> QED BY <1>1, <2>1 DEF Kept, Ahead, LeaseInv
<1>5. Kept(i)'
  <2>1. lease'[i] = [mac |-> m, expiry |-> ExpiryAt(now)] /\ holder'[i] = m /\ age'[i] = 0
    BY <1>1 DEF LeaseInv, LeaseTypes
  <2>2. Ahead(i)' = ((ExpiryAt(now) * Granule) + Granule - 1 - now) % Wrap
    BY <1>1, <2>1 DEF Ahead
  <2>3. Lease <= Ahead(i)' /\ Ahead(i)' < Lease + Granule
    BY <1>2, <2>2, GrantLasts
  <2>4. Lease - age'[i] = Lease
    BY <2>1, Clock
  <2> QED BY <2>1, <2>3, <2>4 DEF Kept
<1> QED BY <1>3, <1>4, <1>5 DEF LeaseInv
------------------------------------------------------------------------------
(* What a step of the link is to the server.                                   *)

LEMMA Processed ==
    ASSUME NEW m \in Mac, NEW q, Process(m, q)
    PROVE  Discover(m) \/ (\E i \in Ip : Request(m, i)) \/ UNCHANGED serverVars
BY DEF Process, Request, MayHave

LEMMA LinkStep == Next => ServerNext \/ UNCHANGED serverVars
<1> SUFFICES ASSUME Next PROVE ServerNext \/ UNCHANGED serverVars
  OBVIOUS
<1>1. \A h \in Host : h \in Mac
  BY LinkAssumption
<1>2. CASE \E m \in Mac, q \in Anything : Process(m, q)
  BY <1>2, Processed DEF ServerNext
<1>3. CASE \E h \in Host, q \in Discovers \cup Requests : Process(h, q.read)
  BY <1>1, <1>3, Processed DEF ServerNext
<1>4. CASE \E h \in Host : Lose(h)
  BY <1>1, <1>4 DEF Lose, ServerNext, Request, MayHave
<1>5. CASE BoardRestarts \/ TimePasses \/ \E h \in Host : Reboot(h)
  BY <1>5 DEF BoardRestarts, TimePasses, Reboot, ServerNext
<1> QED
  BY <1>2, <1>3, <1>4, <1>5
     DEF Next, Trouble, Progress, StrangerSends, HostDiscovers, HostAsks, Renew

LEMMA LeasesHold == Spec => []LeaseInv
<1>1. Init => LeaseInv
  BY InitLeases DEF Init
<1>2. LeaseInv /\ [Next]_vars => LeaseInv'
  <2> SUFFICES ASSUME LeaseInv, [Next]_vars PROVE LeaseInv'
    OBVIOUS
  <2>1. CASE UNCHANGED serverVars
    BY <2>1 DEF serverVars, LeaseInv, LeaseTypes, Kept, Ahead
  <2>2. CASE Tick
    BY <2>2, TickKeeps
  <2>3. CASE Restart
    BY <2>3, EmptyTable DEF Restart
  <2>4. CASE \E m \in Mac : Discover(m) \/ \E i \in Ip : Request(m, i)
    BY <2>4, DiscoverKeeps, RequestKeeps
  <2> QED BY <2>1, <2>2, <2>3, <2>4, LinkStep DEF ServerNext, vars
<1> QED BY <1>1, <1>2, PTL DEF Spec

\* No address is lost before its time: for every lease time, width of the clock and
\* share of it that a lease keeps, and whatever the hosts and strangers send.
THEOREM NoGrantIsBroken == Spec => []GrantsAreKept
<1>1. LeaseInv => GrantsAreKept
  BY DEF LeaseInv, Kept, GrantsAreKept
<1> QED BY <1>1, LeasesHold, PTL

\* A host that uses an address has been granted it, for at least as long.
Uses(h) ==
    phase[h] = "bound" =>
        /\ ip[h] \in Ip /\ holder[ip[h]] = h
        /\ left[h] \in Nat \ {0} /\ age[ip[h]] + left[h] <= Lease

HostTypes ==
    /\ phase \in [Host -> {"init", "ask", "bound"}]
    /\ ip \in [Host -> Int]
    /\ left \in [Host -> Nat]

HostInv == HostTypes /\ \A h \in Host : Uses(h)

\* Whatever the server does for anybody, a host that holds an address keeps it.
LEMMA HolderStays ==
    ASSUME LeaseInv, NEW h \in Host, HostTypes, Uses(h), phase[h] = "bound",
           \/ \E m \in Mac : Discover(m) \/ \E i \in Ip : Request(m, i)
           \/ UNCHANGED serverVars
    PROVE  holder'[ip[h]] = h /\ age'[ip[h]] \in {0, age[ip[h]]}
<1>1. /\ ip[h] \in Ip /\ holder[ip[h]] = h /\ left[h] \in Nat \ {0}
      /\ age[ip[h]] \in Nat /\ age[ip[h]] + left[h] <= Lease /\ h \in Mac
  BY LinkAssumption DEF Uses, LeaseInv, LeaseTypes
<1>2. lease[ip[h]].mac = h
  <2>1. holder[ip[h]] # Free /\ age[ip[h]] < Lease
    BY <1>1, Clock, DhcpAssumption
  <2> QED BY <1>1, <2>1 DEF LeaseInv, Kept
<1>3. CASE UNCHANGED serverVars \/ \E m \in Mac : Discover(m)
  BY <1>1, <1>3 DEF serverVars, Discover
<1>4. ASSUME NEW m \in Mac, NEW i \in Ip, Request(m, i)
      PROVE  holder'[ip[h]] = h /\ age'[ip[h]] \in {0, age[ip[h]]}
  <2>1. /\ holder' = [holder EXCEPT ![i] = m] /\ age' = [age EXCEPT ![i] = 0]
        /\ lease[i].mac \in {m, Free}
    BY <1>4 DEF Request, MayHave
  <2>2. holder \in [Ip -> Mac \cup {Free}] /\ age \in [Ip -> Nat]
    BY DEF LeaseInv, LeaseTypes
  <2>3. CASE i = ip[h]
    BY <1>1, <1>2, <2>1, <2>2, <2>3, DhcpAssumption
  <2>4. CASE i # ip[h]
    BY <1>1, <2>1, <2>2, <2>4
  <2> QED BY <2>3, <2>4
<1> QED BY <1>3, <1>4

LEMMA UsesStay ==
    ASSUME LeaseInv, NEW h \in Host, HostTypes, Uses(h),
           \/ \E m \in Mac : Discover(m) \/ \E i \in Ip : Request(m, i)
           \/ UNCHANGED serverVars,
           phase'[h] = phase[h], ip'[h] = ip[h], left'[h] = left[h]
    PROVE  Uses(h)'
<1> SUFFICES ASSUME phase[h] = "bound"
             PROVE  /\ ip[h] \in Ip /\ holder'[ip[h]] = h
                    /\ left[h] \in Nat \ {0} /\ age'[ip[h]] + left[h] <= Lease
  BY Zenon DEF Uses
<1>1. /\ ip[h] \in Ip /\ left[h] \in Nat \ {0}
      /\ age[ip[h]] \in Nat /\ age[ip[h]] + left[h] <= Lease
  BY DEF Uses, LeaseInv, LeaseTypes
<1>2. holder'[ip[h]] = h /\ age'[ip[h]] \in {0, age[ip[h]]}
  BY HolderStays
<1> QED BY <1>1, <1>2, Clock

LEMMA NotBoundUses == ASSUME NEW h, phase'[h] # "bound" PROVE Uses(h)'
BY DEF Uses

\* One host moves on, and the others keep what they have.
LEMMA OneMoves ==
    ASSUME LeaseInv, HostInv, NEW h \in Host, NEW p \in {"init", "ask", "bound"},
           NEW i \in Int, NEW n \in Nat, Becomes(h, p, i, n),
           \/ \E m \in Mac : Discover(m) \/ \E j \in Ip : Request(m, j)
           \/ UNCHANGED serverVars,
           p = "bound" => Uses(h)'
    PROVE  HostInv'
<1>1. /\ phase' = [phase EXCEPT ![h] = p] /\ ip' = [ip EXCEPT ![h] = i]
      /\ left' = [left EXCEPT ![h] = n]
  BY DEF Becomes
<1>2. HostTypes /\ HostTypes'
  BY <1>1 DEF HostInv, HostTypes
<1>3. ASSUME NEW g \in Host PROVE Uses(g)'
  <2>1. CASE g = h
    <3>1. phase'[h] = p
      BY <1>1, <1>2 DEF HostTypes
    <3> QED BY <2>1, <3>1, NotBoundUses
  <2>2. CASE g # h
    <3>1. phase'[g] = phase[g] /\ ip'[g] = ip[g] /\ left'[g] = left[g]
      BY <1>1, <1>2, <2>2 DEF HostTypes
    <3> QED BY <1>2, <3>1, UsesStay DEF HostInv
  <2> QED BY <2>1, <2>2
<1> QED BY <1>2, <1>3 DEF HostInv

LEMMA AllStay ==
    ASSUME LeaseInv, HostInv, UNCHANGED hostVars,
           \/ \E m \in Mac : Discover(m) \/ \E j \in Ip : Request(m, j)
           \/ UNCHANGED serverVars
    PROVE  HostInv'
<1>1. phase' = phase /\ ip' = ip /\ left' = left
  BY DEF hostVars
<1>2. \A h \in Host : Uses(h)'
  BY <1>1, UsesStay DEF HostInv
<1> QED BY <1>1, <1>2 DEF HostInv, HostTypes

LEMMA OfferIn == ASSUME NEW m \in Mac, OfferTo(m) # NoIp PROVE OfferTo(m) \in Ip
<1>1. CASE OwnIp(m) # NoIp
  BY <1>1, FirstIn DEF OfferTo, OwnIp
<1>2. CASE OwnIp(m) = NoIp
  BY <1>2, FirstIn DEF OfferTo, ReusableIp
<1> QED BY <1>1, <1>2

LEMMA NumbersOfIp == NoIp \in Int /\ (\A i \in Ip : i \in Int) /\ 0 \in Nat /\ Lease \in Nat
BY Clock, DhcpAssumption DEF NoIp, Ip

\* An offer names an address, and an ACK the one that was asked for and granted.
LEMMA OfferNames ==
    ASSUME NEW m \in Mac, NEW q, Answer(m, q).kind = "offer"
    PROVE  Answer(m, q).ip \in Ip
<1>1. CASE q.type = DHCPDISCOVER /\ OfferTo(m) # NoIp
  BY <1>1, OfferIn DEF Answer
<1>2. CASE ~(q.type = DHCPDISCOVER /\ OfferTo(m) # NoIp)
  BY <1>2 DEF Answer, Silence
<1> QED BY <1>1, <1>2

LEMMA AckGrants ==
    ASSUME NEW m \in Mac, NEW q, NEW i, Process(m, q), Answer(m, q) = [kind |-> "ack", ip |-> i]
    PROVE  i \in Ip /\ Request(m, i)
<1>1. Answer(m, q).kind = "ack" /\ Answer(m, q).ip = i
  OBVIOUS
<1>2. CASE q.type = DHCPREQUEST /\ MayHave(m, q.ip)
  <2>1. Answer(m, q).ip = q.ip
    BY <1>2 DEF Answer, DHCPDISCOVER, DHCPREQUEST
  <2>2. Request(m, q.ip)
    BY <1>2 DEF Process, DHCPDISCOVER, DHCPREQUEST
  <2> QED BY <1>1, <1>2, <2>1, <2>2 DEF MayHave
<1>3. CASE ~(q.type = DHCPREQUEST /\ MayHave(m, q.ip))
  BY <1>1, <1>3 DEF Answer, Silence
<1> QED BY <1>2, <1>3

LEMMA DiscoverStep == ASSUME LeaseInv, HostInv, NEW h \in Host, HostDiscovers(h) PROVE HostInv'
<1>1. h \in Mac
  BY LinkAssumption
<1>2. PICK q \in Discovers :
         /\ Process(h, q.read)
         /\ IF Answer(h, q.read).kind = "offer" THEN Becomes(h, "ask", Answer(h, q.read).ip, 0)
            ELSE Becomes(h, "init", NoIp, 0)
  BY DEF HostDiscovers
<1>3. (\E m \in Mac : Discover(m) \/ \E j \in Ip : Request(m, j)) \/ UNCHANGED serverVars
  BY <1>1, <1>2, Processed
<1>4. CASE Answer(h, q.read).kind = "offer"
  <2>1. Answer(h, q.read).ip \in Int
    BY <1>1, <1>4, OfferNames, NumbersOfIp
  <2> QED BY <1>2, <1>3, <1>4, <2>1, OneMoves, NumbersOfIp
<1>5. CASE Answer(h, q.read).kind # "offer"
  BY <1>2, <1>3, <1>5, OneMoves, NumbersOfIp
<1> QED BY <1>4, <1>5

LEMMA AskStep == ASSUME LeaseInv, HostInv, NEW h \in Host, HostAsks(h) PROVE HostInv'
<1>1. h \in Mac
  BY LinkAssumption
<1>2. PICK q \in Requests :
         /\ Process(h, q.read)
         /\ IF Answer(h, q.read) = [kind |-> "ack", ip |-> ip[h]] THEN Becomes(h, "bound", ip[h], Lease)
            ELSE Becomes(h, "init", NoIp, 0)
  BY DEF HostAsks
<1>3. (\E m \in Mac : Discover(m) \/ \E j \in Ip : Request(m, j)) \/ UNCHANGED serverVars
  BY <1>1, <1>2, Processed
<1>4. CASE Answer(h, q.read) = [kind |-> "ack", ip |-> ip[h]]
  <2>1. ip[h] \in Ip /\ Request(h, ip[h]) /\ Becomes(h, "bound", ip[h], Lease)
    BY <1>1, <1>2, <1>4, AckGrants
  <2>2. Uses(h)'
    <3>1. ip'[h] = ip[h] /\ left'[h] = Lease
      BY <2>1 DEF Becomes, HostInv, HostTypes
    <3>2. holder'[ip[h]] = h /\ age'[ip[h]] = 0
      BY <2>1 DEF Request, LeaseInv, LeaseTypes
    <3> QED BY <2>1, <3>1, <3>2, Clock DEF Uses
  <2> QED BY <1>3, <2>1, <2>2, OneMoves, NumbersOfIp
<1>5. CASE Answer(h, q.read) # [kind |-> "ack", ip |-> ip[h]]
  BY <1>2, <1>3, <1>5, OneMoves, NumbersOfIp
<1> QED BY <1>4, <1>5

LEMMA LoseStep == ASSUME LeaseInv, HostInv, NEW h \in Host, Lose(h) PROVE HostInv'
<1>1. h \in Mac
  BY LinkAssumption
<1>2. (\E m \in Mac : Discover(m) \/ \E j \in Ip : Request(m, j)) \/ UNCHANGED serverVars
  BY <1>1 DEF Lose, Request, MayHave
<1>3. Becomes(h, "init", NoIp, 0)
  BY DEF Lose
<1> QED BY <1>2, <1>3, OneMoves, NumbersOfIp

LEMMA RebootStep == ASSUME LeaseInv, HostInv, NEW h \in Host, Reboot(h) PROVE HostInv'
<1>1. ip[h] \in Int
  BY DEF HostInv, HostTypes
<1>2. UNCHANGED serverVars /\ (Becomes(h, "init", NoIp, 0) \/ Becomes(h, "ask", ip[h], 0))
  BY DEF Reboot
<1> QED BY <1>1, <1>2, OneMoves, NumbersOfIp

LEMMA BoardStep == ASSUME LeaseInv, HostInv, BoardRestarts PROVE HostInv'
<1>1. PICK R \in SUBSET Host :
         /\ phase' = [h \in Host |-> IF h \in R THEN "ask" ELSE "init"]
         /\ ip' = [h \in Host |-> IF h \in R THEN ip[h] ELSE NoIp]
         /\ left' = [h \in Host |-> 0]
  BY DEF BoardRestarts
<1>2. phase' \in [Host -> {"init", "ask", "bound"}]
  BY <1>1
<1>3. ip' \in [Host -> Int]
  <2>1. \A h \in Host : ip[h] \in Int
    BY DEF HostInv, HostTypes
  <2>2. \A h \in Host : ip'[h] = IF h \in R THEN ip[h] ELSE NoIp
    BY <1>1, Zenon
  <2>3. \A h \in Host : ip'[h] \in Int
    BY <2>1, <2>2, NumbersOfIp
  <2> QED BY <1>1, <2>3, Zenon
<1>4. left' \in [Host -> Nat]
  BY <1>1
<1>5. \A h \in Host : Uses(h)'
  BY <1>1, NotBoundUses
<1> QED BY <1>2, <1>3, <1>4, <1>5 DEF HostInv, HostTypes

LEMMA TimeStep == ASSUME LeaseInv, HostInv, TimePasses PROVE HostInv'
<1>1. /\ left' = [h \in Host |-> IF left[h] > 0 THEN left[h] - 1 ELSE 0]
      /\ phase' = [h \in Host |-> IF phase[h] = "bound" /\ left'[h] = 0 THEN "init" ELSE phase[h]]
      /\ ip' = [h \in Host |-> IF phase'[h] = "init" THEN NoIp ELSE ip[h]]
      /\ age' = [i \in Ip |-> IF age[i] < MaxAge THEN age[i] + 1 ELSE MaxAge] /\ holder' = holder
  BY DEF TimePasses, Tick
<1>2. \A h \in Host :
        /\ left'[h] = IF left[h] > 0 THEN left[h] - 1 ELSE 0
        /\ phase'[h] = IF phase[h] = "bound" /\ left'[h] = 0 THEN "init" ELSE phase[h]
        /\ ip'[h] = IF phase'[h] = "init" THEN NoIp ELSE ip[h]
  BY <1>1, Zenon
<1>3. \A h \in Host : phase[h] \in {"init", "ask", "bound"} /\ ip[h] \in Int /\ left[h] \in Nat
  BY DEF HostInv, HostTypes
<1>4. HostTypes'
  <2>1. \A h \in Host : phase'[h] \in {"init", "ask", "bound"}
    BY <1>2, <1>3
  <2>2. \A h \in Host : ip'[h] \in Int
    BY <1>2, <1>3, NumbersOfIp
  <2>3. \A h \in Host : left'[h] \in Nat
    BY <1>2, <1>3
  <2> QED BY <1>1, <2>1, <2>2, <2>3, Zenon DEF HostTypes
<1>5. ASSUME NEW h \in Host PROVE Uses(h)'
  <2> SUFFICES ASSUME phase'[h] = "bound"
               PROVE  /\ ip'[h] \in Ip /\ holder'[ip'[h]] = h
                      /\ left'[h] \in Nat \ {0} /\ age'[ip'[h]] + left'[h] <= Lease
    BY Zenon DEF Uses
  <2>1. phase[h] = "bound" /\ left'[h] # 0 /\ ip'[h] = ip[h]
    BY <1>2
  <2>2. /\ ip[h] \in Ip /\ holder[ip[h]] = h
        /\ left[h] \in Nat \ {0} /\ age[ip[h]] + left[h] <= Lease
    BY <2>1 DEF HostInv, Uses
  <2>3. left'[h] = left[h] - 1
    BY <1>2, <2>2
  <2>4. age[ip[h]] \in Nat
    BY <2>2 DEF LeaseInv, LeaseTypes
  <2>5. age'[ip[h]] = age[ip[h]] + 1
    <3>1. age'[ip[h]] = IF age[ip[h]] < MaxAge THEN age[ip[h]] + 1 ELSE MaxAge
      BY <1>1, <2>2, Zenon
    <3> QED BY <2>2, <2>4, <3>1, Clock
  <2> QED BY <1>1, <2>1, <2>2, <2>3, <2>4, <2>5, Clock
<1> QED BY <1>4, <1>5 DEF HostInv
------------------------------------------------------------------------------
\* No two stations use one address: a host uses what it is granted, and by its own
\* clock no longer than the server keeps it for it.
THEOREM HostsUseTheirOwn == Spec => []UseIsGranted
<1>1. Init => HostInv
  <2> SUFFICES ASSUME Init PROVE HostInv
    OBVIOUS
  <2>1. HostTypes
    BY NumbersOfIp DEF Init, HostTypes
  <2>2. \A h \in Host : Uses(h)
    BY DEF Init, Uses
  <2> QED BY <2>1, <2>2 DEF HostInv
<1>2. LeaseInv /\ HostInv /\ [Next]_vars => HostInv'
  <2> SUFFICES ASSUME LeaseInv, HostInv, [Next]_vars PROVE HostInv'
    OBVIOUS
  <2>1. CASE UNCHANGED vars
    BY <2>1, AllStay DEF vars
  <2>2. CASE \E m \in Mac : StrangerSends(m)
    <3>1. UNCHANGED hostVars
      BY <2>2 DEF StrangerSends
    <3>2. (\E m \in Mac : Discover(m) \/ \E j \in Ip : Request(m, j)) \/ UNCHANGED serverVars
      BY <2>2, Processed DEF StrangerSends
    <3> QED BY <3>1, <3>2, AllStay
  <2>3. CASE \E h \in Host : Renew(h)
    <3>1. UNCHANGED hostVars
      BY <2>3 DEF Renew
    <3>2. (\E m \in Mac : Discover(m) \/ \E j \in Ip : Request(m, j)) \/ UNCHANGED serverVars
      BY <2>3, Processed, LinkAssumption DEF Renew
    <3> QED BY <3>1, <3>2, AllStay
  <2>4. CASE BoardRestarts \/ TimePasses
    BY <2>4, BoardStep, TimeStep
  <2>5. CASE \E h \in Host : HostDiscovers(h) \/ HostAsks(h) \/ Lose(h) \/ Reboot(h)
    BY <2>5, DiscoverStep, AskStep, LoseStep, RebootStep
  <2> QED BY <2>1, <2>2, <2>3, <2>4, <2>5 DEF Next, Trouble, Progress
<1>3. LeaseInv /\ HostInv => UseIsGranted
  <2> SUFFICES ASSUME LeaseInv, HostInv, NEW h \in Host, phase[h] = "bound"
               PROVE  lease[ip[h]].mac = h
    BY DEF UseIsGranted
  <2>1. /\ ip[h] \in Ip /\ holder[ip[h]] = h /\ left[h] \in Nat \ {0}
        /\ age[ip[h]] \in Nat /\ age[ip[h]] + left[h] <= Lease /\ h \in Mac
    BY LinkAssumption DEF HostInv, Uses, LeaseInv, LeaseTypes
  <2>2. holder[ip[h]] # Free /\ age[ip[h]] < Lease
    BY <2>1, Clock, DhcpAssumption
  <2> QED BY <2>1, <2>2 DEF LeaseInv, Kept
<1> QED BY <1>1, <1>2, <1>3, LeasesHold, PTL DEF Spec
------------------------------------------------------------------------------
(* Why a DISCOVER goes unanswered.  What is bound is bound to its last holder,  *)
(* and the end of its lease is followed around the wrap for half a period more. *)

\* How far ahead of the clock a lease is, from the time it was granted.
Followed(i) ==
    lease[i].mac # Free =>
        /\ lease[i].mac = holder[i]
        /\ age[i] <= Lease + Half =>
              \E x \in Lease..(Lease + Granule - 1) : Ahead(i) = (x - age[i]) % Wrap

TableInv == ServerTypeOK /\ \A i \in Ip : Followed(i)

\* The number of granules there are.
LEMMA Granules ==
    /\ Wrap \div Granule \in Nat \ {0} /\ Wrap = (Wrap \div Granule) * Granule
    /\ Half + Half <= Wrap
<1> DEFINE g == 2 * Granule
           q == Wrap \div g
           n == 2 * q
           k == Wrap \div Granule
<1>1. Wrap \in Nat \ {0} /\ Granule \in Nat \ {0} /\ Wrap % g = 0
  BY Clock, DhcpAssumption
<1>2. g \in Nat \ {0}
  BY <1>1
<1> HIDE DEF g
<1>3. q \in Int /\ Wrap = (q * g) + (Wrap % g)
  BY <1>1, <1>2, DivMod
<1> HIDE DEF q
<1>4. n \in Int /\ Wrap = (n * Granule) + 0
  <2>1. q * g = n * Granule
    BY <1>1, <1>3 DEF g
  <2>2. q * g \in Int
    BY <1>2, <1>3
  <2> QED BY <1>1, <1>3, <2>1, <2>2
<1> HIDE DEF n
<1>5. Wrap % Granule = 0
  <2>1. ((n * Granule) + 0) % Granule = 0
    <3>1. 0 \in 0..(Granule - 1)
      BY <1>1
    <3> QED BY <1>1, <1>4, <3>1, ModUnique
  <2> QED BY <1>4, <2>1
<1>6. k \in Int /\ Wrap = (k * Granule) + 0
  BY <1>1, <1>5, DivMod
<1> HIDE DEF k
<1>7. k > 0
  <2>1. \A e \in Nat \ {0}, f \in Int : f * e > 0 => f > 0
    OBVIOUS
  <2> QED BY <1>1, <1>6, <2>1
<1>8. k * Granule \in Int
  BY <1>1, <1>6
<1>9. Half + Half <= Wrap
  BY <1>1 DEF Half
<1> QED BY <1>6, <1>7, <1>8, <1>9 DEF k

\* What is kept of the end of a lease fits the field.
LEMMA ExpiryFits ==
    ASSUME NEW t \in 0..(Wrap - 1)
    PROVE  ExpiryAt(t) \in 0..(Wrap \div Granule - 1)
<1> DEFINE u == (t + Lease) % Wrap
           e == u \div Granule
           k == Wrap \div Granule
<1>1. u \in 0..(Wrap - 1)
  <2>1. t + Lease \in Int
    BY Clock
  <2> QED BY <2>1, Clock, DivMod
<1> HIDE DEF u
<1>2. e \in Int /\ u % Granule \in 0..(Granule - 1) /\ u = (e * Granule) + (u % Granule)
  BY <1>1, Clock, DivMod
<1>3. k \in Nat \ {0} /\ Wrap = k * Granule /\ Granule \in Nat \ {0}
  BY Granules, Clock
<1> HIDE DEF e, k
<1>4. \A g \in Nat \ {0}, m, n \in Int : m * g < n * g => m < n
  OBVIOUS
<1>5. e < k
  <2>1. e * Granule \in Int
    BY <1>2, <1>3
  <2>2. e * Granule < k * Granule
    BY <1>1, <1>2, <1>3, <2>1
  <2> QED BY <1>2, <1>3, <1>4, <2>2
<1>6. e > -1
  <2>1. e * Granule \in Int /\ (-1) * Granule = -Granule
    BY <1>2, <1>3
  <2>2. (-1) * Granule < e * Granule
    BY <1>1, <1>2, <1>3, <2>1
  <2> QED BY <1>2, <1>3, <1>4, <2>2
<1>7. ExpiryAt(t) = e
  BY DEF ExpiryAt, u, e
<1> QED BY <1>2, <1>3, <1>5, <1>6, <1>7 DEF k

\* Two numbers that agree around the wrap still do a tick later.
LEMMA AgreeLater ==
    ASSUME NEW a \in Int, NEW b \in Int, a % Wrap = b % Wrap
    PROVE  (a - 1) % Wrap = (b - 1) % Wrap /\ (a - 1 + Wrap) % Wrap = (b - 1) % Wrap
<1> DEFINE r == (b - 1) % Wrap
           p == a \div Wrap
           q == b \div Wrap
           s == (b - 1) \div Wrap
<1>1. Wrap \in Nat \ {0}
  BY Clock
<1>2. p \in Int /\ q \in Int /\ a = (p * Wrap) + (a % Wrap) /\ b = (q * Wrap) + (b % Wrap)
  BY <1>1, DivMod
<1>3. b - 1 \in Int /\ a % Wrap \in Int
  BY <1>1
<1>4. s \in Int /\ r \in 0..(Wrap - 1) /\ b - 1 = (s * Wrap) + r
  BY <1>1, <1>3, DivMod
<1> HIDE DEF p, q, r, s
<1>5. /\ p * Wrap \in Int /\ q * Wrap \in Int /\ s * Wrap \in Int
      /\ (s + p - q) * Wrap = (s * Wrap) + (p * Wrap) - (q * Wrap)
      /\ (s + p - q + 1) * Wrap = (s * Wrap) + (p * Wrap) - (q * Wrap) + Wrap
  BY <1>1, <1>2, <1>4
<1>6. a - 1 = ((s + p - q) * Wrap) + r /\ a - 1 + Wrap = ((s + p - q + 1) * Wrap) + r
  BY <1>1, <1>2, <1>3, <1>4, <1>5
<1>7. s + p - q \in Int /\ s + p - q + 1 \in Int
  BY <1>2, <1>4
<1>8. (((s + p - q) * Wrap) + r) % Wrap = r /\ (((s + p - q + 1) * Wrap) + r) % Wrap = r
  BY <1>1, <1>4, <1>7, ModUnique
<1> QED BY <1>6, <1>8 DEF r

LEMMA TableTypes == ServerTypeOK => LeaseTypes
<1> SUFFICES ASSUME ServerTypeOK PROVE LeaseTypes
  OBVIOUS
<1>1. \A i \in Ip : lease[i] \in [mac : Mac \cup {Free}, expiry : Int]
  BY DEF ServerTypeOK
<1>2. lease \in [Ip -> [mac : Mac \cup {Free}, expiry : Int]]
  BY <1>1 DEF ServerTypeOK
<1>3. age \in [Ip -> Nat]
  BY Clock DEF ServerTypeOK
<1> QED BY <1>2, <1>3 DEF ServerTypeOK, LeaseTypes

LEMMA EmptyTableInv ==
    ASSUME lease = NoLeases, now = 0, holder = [i \in Ip |-> Free], age = [i \in Ip |-> 0]
    PROVE  TableInv
<1>1. 0 \in 0..(Wrap \div Granule - 1) /\ 0 \in 0..(Wrap - 1) /\ 0 \in 0..MaxAge
  BY Granules, Clock
<1>2. ServerTypeOK
  BY <1>1 DEF ServerTypeOK, NoLeases
<1>3. \A i \in Ip : lease[i].mac = Free
  BY DEF NoLeases
<1> QED BY <1>2, <1>3 DEF TableInv, Followed

\* A tick later every lease is a tick nearer to its end, around the wrap.
LEMMA TickFollows == ASSUME TableInv, Tick PROVE TableInv'
<1>1. /\ now' = (now + 1) % Wrap /\ now \in 0..(Wrap - 1) /\ lease' = lease /\ holder' = holder
      /\ age' = [i \in Ip |-> IF age[i] < MaxAge THEN age[i] + 1 ELSE MaxAge]
  BY DEF Tick, TableInv, ServerTypeOK
<1>2. \A i \in Ip : age[i] \in 0..MaxAge /\ age'[i] = IF age[i] < MaxAge THEN age[i] + 1 ELSE MaxAge
  BY <1>1 DEF TableInv, ServerTypeOK
<1>3. ServerTypeOK'
  <2>1. now' \in 0..(Wrap - 1)
    BY <1>1, NextTick
  <2>2. \A i \in Ip : age'[i] \in 0..MaxAge
    BY <1>2, Clock
  <2>3. age' \in [Ip -> 0..MaxAge]
    BY <1>1, <2>2, Zenon
  <2> QED BY <1>1, <2>1, <2>3 DEF TableInv, ServerTypeOK
<1>4. ASSUME NEW i \in Ip, lease[i].mac # Free, age'[i] <= Lease + Half
      PROVE  \E x \in Lease..(Lease + Granule - 1) : Ahead(i)' = (x - age'[i]) % Wrap
  <2>1. age'[i] = age[i] + 1 /\ age[i] \in Nat /\ age[i] <= Lease + Half
    BY <1>2, <1>4, Clock DEF MaxAge
  <2>2. PICK x \in Lease..(Lease + Granule - 1) : Ahead(i) = (x - age[i]) % Wrap
    BY <1>4, <2>1 DEF TableInv, Followed
  <2> DEFINE y == (lease[i].expiry * Granule)
             a == y + Granule - 1 - now
             b == x - age[i]
  <2>3. y \in Int
    <3>1. lease[i].expiry \in Int
      BY TableTypes DEF TableInv, LeaseTypes
    <3> QED BY <3>1, Clock
  <2>4. Ahead(i) = a % Wrap /\ Ahead(i)' = (y + Granule - 1 - now') % Wrap
    BY <1>1 DEF Ahead
  <2> HIDE DEF y
  <2>5. a \in Int /\ b \in Int /\ x \in Int /\ x - age'[i] = b - 1
    BY <1>1, <2>1, <2>3, Clock
  <2>6. y + Granule - 1 - now' = a - 1 \/ y + Granule - 1 - now' = a - 1 + Wrap
    <3>1. CASE now' = now + 1
      BY <1>1, <2>3, <3>1, Clock
    <3>2. CASE now' = now + 1 - Wrap
      BY <1>1, <2>3, <3>2, Clock
    <3> QED BY <1>1, <3>1, <3>2, NextTick
  <2> HIDE DEF a, b
  <2>7. a % Wrap = b % Wrap
    BY <2>2, <2>4 DEF b
  <2>8. (a - 1) % Wrap = (b - 1) % Wrap /\ (a - 1 + Wrap) % Wrap = (b - 1) % Wrap
    BY <2>5, <2>7, AgreeLater
  <2> QED BY <2>4, <2>5, <2>6, <2>8
<1>5. ASSUME NEW i \in Ip PROVE Followed(i)'
  BY <1>1, <1>4 DEF TableInv, Followed
<1> QED BY <1>3, <1>5 DEF TableInv

LEMMA DiscoverFollows == ASSUME TableInv, NEW m \in Mac, Discover(m) PROVE TableInv'
<1>1. /\ lease' = [i \in Ip |-> IF i = ReusableIp(m) THEN [lease[i] EXCEPT !.mac = Free] ELSE lease[i]]
      /\ now' = now /\ holder' = holder /\ age' = age
  BY DEF Discover
<1>2. \A i \in Ip : lease[i] \in [mac : Mac \cup {Free}, expiry : 0..(Wrap \div Granule - 1)]
  BY DEF TableInv, ServerTypeOK
<1>3. \A i \in Ip : lease'[i] = IF i = ReusableIp(m) THEN [lease[i] EXCEPT !.mac = Free] ELSE lease[i]
  BY <1>1, Zenon
<1>4. \A i \in Ip : lease'[i] \in [mac : Mac \cup {Free}, expiry : 0..(Wrap \div Granule - 1)]
  BY <1>2, <1>3
<1>5. ServerTypeOK'
  BY <1>1, <1>4 DEF TableInv, ServerTypeOK
<1>6. ASSUME NEW i \in Ip PROVE Followed(i)'
  <2>1. lease'[i] = lease[i] \/ lease'[i].mac = Free
    BY <1>2, <1>3
  <2>2. lease'[i] = lease[i] => Ahead(i)' = Ahead(i)
    BY <1>1 DEF Ahead
  <2> QED BY <1>1, <2>1, <2>2 DEF TableInv, Followed
<1> QED BY <1>5, <1>6 DEF TableInv

LEMMA RequestFollows == ASSUME TableInv, NEW m \in Mac, NEW i \in Ip, Request(m, i) PROVE TableInv'
<1>1. /\ lease' = [lease EXCEPT ![i] = [mac |-> m, expiry |-> ExpiryAt(now)]]
      /\ now' = now /\ holder' = [holder EXCEPT ![i] = m] /\ age' = [age EXCEPT ![i] = 0]
  BY DEF Request, NewLease
<1>2. now \in 0..(Wrap - 1) /\ 0 \in 0..MaxAge
  BY Clock DEF TableInv, ServerTypeOK
<1>3. ServerTypeOK'
  BY <1>1, <1>2, ExpiryFits DEF TableInv, ServerTypeOK
<1>4. ASSUME NEW j \in Ip, j # i PROVE Followed(j)'
  <2>1. lease'[j] = lease[j] /\ holder'[j] = holder[j] /\ age'[j] = age[j]
    BY <1>1, <1>4 DEF TableInv, ServerTypeOK
  <2>2. Ahead(j)' = Ahead(j)
    BY <1>1, <2>1 DEF Ahead
  <2> QED BY <2>1, <2>2 DEF TableInv, Followed
<1>5. Followed(i)'
  <2>1. lease'[i] = [mac |-> m, expiry |-> ExpiryAt(now)] /\ holder'[i] = m /\ age'[i] = 0
    BY <1>1 DEF TableInv, ServerTypeOK
  <2>2. Ahead(i)' = ((ExpiryAt(now) * Granule) + Granule - 1 - now) % Wrap
    BY <1>1, <2>1 DEF Ahead
  <2> DEFINE x == Ahead(i)'
  <2>3. x \in Int
    <3> DEFINE y == ExpiryAt(now) * Granule
               z == y + Granule - 1 - now
    <3>1. y \in Int
      BY <1>2, GrantLasts, Clock
    <3>2. x = z % Wrap
      BY <2>2
    <3> HIDE DEF x, y
    <3>3. z \in Int
      BY <1>2, <3>1, Clock
    <3> HIDE DEF z
    <3> QED BY <3>2, <3>3, Clock, DivMod
  <2>4. Lease <= x /\ x < Lease + Granule
    BY <1>2, <2>2, GrantLasts
  <2>5. x \in Lease..(Lease + Granule - 1) /\ x \in 0..(Wrap - 1)
    BY <2>3, <2>4, Clock
  <2>6. (x - age'[i]) % Wrap = x
    <3> HIDE DEF x
    <3>1. x - age'[i] = (0 * Wrap) + x
      BY <2>1, <2>5, Clock
    <3>2. ((0 * Wrap) + x) % Wrap = x
      BY <2>5, Clock, ModUnique
    <3> QED BY <3>1, <3>2
  <2>7. \E z \in Lease..(Lease + Granule - 1) : Ahead(i)' = (z - age'[i]) % Wrap
    BY <2>5, <2>6, Zenon
  <2> QED BY <2>1, <2>7 DEF Followed
<1> QED BY <1>3, <1>4, <1>5 DEF TableInv

LEMMA TableFollows == Spec => []TableInv
<1>1. Init => TableInv
  BY EmptyTableInv DEF Init, ServerInit
<1>2. TableInv /\ [Next]_vars => TableInv'
  <2> SUFFICES ASSUME TableInv, [Next]_vars PROVE TableInv'
    OBVIOUS
  <2>1. CASE UNCHANGED serverVars
    BY <2>1 DEF serverVars, TableInv, ServerTypeOK, Followed, Ahead
  <2>2. CASE Tick
    BY <2>2, TickFollows
  <2>3. CASE Restart
    <3>1. ServerInit'
      BY <2>3, Zenon DEF Restart, ServerInit
    <3> QED BY <3>1, EmptyTableInv, PTL DEF ServerInit
  <2>4. CASE \E m \in Mac : Discover(m) \/ \E i \in Ip : Request(m, i)
    BY <2>4, DiscoverFollows, RequestFollows
  <2> QED BY <2>1, <2>2, <2>3, <2>4, LinkStep DEF ServerNext, vars
<1> QED BY <1>1, <1>2, PTL DEF Spec

\* The scan of the table finds an address if there is one to find.
LEMMA FirstFinds ==
    ASSUME NEW S \in SUBSET Ip, First(S) = NoIp
    PROVE  S = {}
<1> SUFFICES ASSUME S # {} PROVE FALSE
  OBVIOUS
<1>1. S \in SUBSET Nat /\ NoIp \notin S
  BY DEF Ip, NoIp
<1>2. \E i \in S : Smallest(i, S)
  BY <1>1, LeastNat DEF Smallest
<1>3. Smallest(First(S), S)
  BY <1>2 DEF First
<1> QED BY <1>1, <1>3 DEF Smallest

\* Once the time of a lease has been over for a granule, the signed comparison
\* sees it, for half a period.
LEMMA SeenExpired ==
    ASSUME TableInv, NEW i \in Ip, lease[i].mac # Free,
           Lease + Granule <= age[i], age[i] <= Lease + Half
    PROVE  Expired(i)
<1>1. PICK x \in Lease..(Lease + Granule - 1) : Ahead(i) = (x - age[i]) % Wrap
  BY DEF TableInv, Followed
<1>2. age[i] \in Int /\ x \in Int
  BY Clock DEF TableInv, ServerTypeOK
<1> DEFINE r == x - age[i] + Wrap
<1>3. r \in 0..(Wrap - 1) /\ r >= Half /\ x - age[i] = ((-1) * Wrap) + r
  BY <1>2, Clock, Granules
<1> HIDE DEF r
<1>4. (((-1) * Wrap) + r) % Wrap = r
  BY <1>3, Clock, ModUnique
<1>5. Expired(i) <=> Ahead(i) >= Half
  BY Zenon DEF Expired, Ahead
<1> QED BY <1>1, <1>3, <1>4, <1>5

\* A DISCOVER is left unanswered only while every address is bound to another
\* client whose time is not over, or was over for more than half a period: for
\* every lease time and width of the clock (dhcpserver.c, DHCPDISCOVER).
THEOREM SilenceHasAReason == Spec => []NoNeedlessSilence
<1>1. TableInv => NoNeedlessSilence
  <2> SUFFICES ASSUME TableInv, NEW m \in Mac, OfferTo(m) = NoIp, NEW i \in Ip
               PROVE  /\ holder[i] \notin {m, Free}
                      /\ age[i] < Lease + Granule \/ age[i] > Lease + Half
    BY DEF NoNeedlessSilence
  <2>1. OwnIp(m) = NoIp /\ ReusableIp(m) = NoIp
    BY Zenon DEF OfferTo
  <2>2. lease[i].mac # m
    BY <2>1, FirstFinds DEF OwnIp
  <2>3. lease[i].mac # Free /\ ~Expired(i)
    <3> DEFINE S == {j \in Ip : /\ lease[j].mac = Free \/ Expired(j)
                                /\ OwnIp(m) # NoIp => j < OwnIp(m)}
    <3>1. S \in SUBSET Ip /\ First(S) = NoIp
      BY <2>1, Zenon DEF ReusableIp
    <3>2. S = {}
      BY <3>1, FirstFinds
    <3> QED BY <2>1, <3>2
  <2>4. holder[i] = lease[i].mac
    BY <2>3 DEF TableInv, Followed
  <2>5. age[i] \in Int
    BY Clock DEF TableInv, ServerTypeOK
  <2>6. age[i] < Lease + Granule \/ age[i] > Lease + Half
    BY <2>3, <2>5, SeenExpired, Clock
  <2> QED BY <2>2, <2>3, <2>4, <2>6
<1> QED BY <1>1, TableFollows, PTL
------------------------------------------------------------------------------
\* What a host remembers of its address and of the time it may use it.
HostMemory ==
    /\ phase \in [Host -> {"init", "ask", "bound"}]
    /\ ip \in [Host -> Ip \cup {NoIp}]
    /\ left \in [Host -> 0..Lease]
    /\ tried \subseteq Host

LEMMA MemoryStays ==
    ASSUME HostMemory, NEW h \in Host, NEW p \in {"init", "ask", "bound"},
           NEW i \in Ip \cup {NoIp}, NEW n \in 0..Lease, Becomes(h, p, i, n),
           tried' \in {tried, tried \cup {h}}
    PROVE  HostMemory'
BY DEF HostMemory, Becomes

LEMMA MemoryStep == HostMemory /\ [Next]_vars => HostMemory'
<1> SUFFICES ASSUME HostMemory, [Next]_vars PROVE HostMemory'
  OBVIOUS
<1>1. NoIp \in Ip \cup {NoIp} /\ 0 \in 0..Lease /\ Lease \in 0..Lease
  BY Clock
<1>2. \A h \in Host : h \in Mac /\ ip[h] \in Ip \cup {NoIp}
  BY LinkAssumption DEF HostMemory
<1>3. ASSUME NEW h \in Host, HostDiscovers(h) PROVE HostMemory'
  <2>1. PICK q \in Discovers :
           IF Answer(h, q.read).kind = "offer" THEN Becomes(h, "ask", Answer(h, q.read).ip, 0)
           ELSE Becomes(h, "init", NoIp, 0)
    BY <1>3 DEF HostDiscovers
  <2>2. tried' = tried \cup {h}
    BY <1>3 DEF HostDiscovers
  <2>3. CASE Answer(h, q.read).kind = "offer"
    <3>1. Answer(h, q.read).ip \in Ip \cup {NoIp}
      BY <1>2, <2>3, OfferNames
    <3> QED BY <1>1, <2>1, <2>2, <2>3, <3>1, MemoryStays
  <2>4. CASE Answer(h, q.read).kind # "offer"
    BY <1>1, <2>1, <2>2, <2>4, MemoryStays
  <2> QED BY <2>3, <2>4
<1>4. ASSUME NEW h \in Host, HostAsks(h) \/ Lose(h) \/ Reboot(h) PROVE HostMemory'
  <2>1. \E p \in {"init", "ask", "bound"}, i \in {NoIp, ip[h]}, n \in {0, Lease} : Becomes(h, p, i, n)
    BY <1>4 DEF HostAsks, Lose, Reboot
  <2>2. tried' \in {tried, tried \cup {h}}
    BY <1>4 DEF HostAsks, Lose, Reboot
  <2> QED BY <1>1, <1>2, <2>1, <2>2, MemoryStays
<1>5. CASE BoardRestarts
  <2>1. PICK R \in SUBSET Host :
           /\ phase' = [h \in Host |-> IF h \in R THEN "ask" ELSE "init"]
           /\ ip' = [h \in Host |-> IF h \in R THEN ip[h] ELSE NoIp]
           /\ left' = [h \in Host |-> 0] /\ tried' = {}
    BY <1>5 DEF BoardRestarts
  <2>2. ip' \in [Host -> Ip \cup {NoIp}]
    BY <1>1, <1>2, <2>1
  <2>3. phase' \in [Host -> {"init", "ask", "bound"}] /\ left' \in [Host -> 0..Lease]
    BY <1>1, <2>1
  <2> QED BY <2>1, <2>2, <2>3 DEF HostMemory
<1>6. CASE TimePasses
  <2>1. /\ left' = [h \in Host |-> IF left[h] > 0 THEN left[h] - 1 ELSE 0]
        /\ phase' = [h \in Host |-> IF phase[h] = "bound" /\ left'[h] = 0 THEN "init" ELSE phase[h]]
        /\ ip' = [h \in Host |-> IF phase'[h] = "init" THEN NoIp ELSE ip[h]]
        /\ tried' = {}
    BY <1>6 DEF TimePasses
  <2>2. \A h \in Host : left'[h] \in 0..Lease
    <3>1. \A h \in Host : left[h] \in 0..Lease /\ left'[h] = IF left[h] > 0 THEN left[h] - 1 ELSE 0
      BY <2>1 DEF HostMemory
    <3> QED BY <3>1, Clock
  <2>3. \A h \in Host : phase'[h] \in {"init", "ask", "bound"}
    BY <2>1 DEF HostMemory
  <2>4. \A h \in Host : ip'[h] \in Ip \cup {NoIp}
    <3>1. \A h \in Host : ip'[h] \in {NoIp, ip[h]}
      BY <2>1
    <3> QED BY <1>1, <1>2, <3>1
  <2> QED BY <2>1, <2>2, <2>3, <2>4, Zenon DEF HostMemory
<1>7. CASE UNCHANGED hostVars
  BY <1>7 DEF hostVars, HostMemory
<1> QED BY <1>3, <1>4, <1>5, <1>6, <1>7 DEF Next, Trouble, Progress, StrangerSends, Renew, vars

\* Types: the expiry never outgrows the half of the clock it is kept in, and no
\* host holds an address outside the pool (dhcp_server_lease_t, dhcpserver.h).
THEOREM TypeCorrect == Spec => []TypeOK
<1>1. Init => HostMemory
  <2> SUFFICES ASSUME Init PROVE HostMemory
    OBVIOUS
  <2>1. 0 \in 0..Lease
    BY Clock
  <2> QED BY <2>1 DEF Init, HostMemory
<1>2. HostMemory /\ [Next]_vars => HostMemory'
  BY MemoryStep
<1>3. TableInv /\ HostMemory => TypeOK
  BY DEF TableInv, HostMemory, TypeOK
<1> QED BY <1>1, <1>2, <1>3, TableFollows, PTL DEF Spec
==============================================================================
