------------------------------ MODULE UsbNetwork -----------------------------
(***************************************************************************)
(* The frame hand-off of src/usb_network.c: one received frame at a time   *)
(* travels from TinyUSB's receive callback through the shared pointer      *)
(* received_frame to lwIP, and the OUT endpoint is re-armed only when it   *)
(* has.  Everything runs in one thread, but tud_output(), called from deep *)
(* inside lwIP or from one of its timers, runs tud_task() while it waits   *)
(* for room, and with it every TinyUSB callback.  A wait that takes too    *)
(* long ends in a reset by the watchdog (StallsRecover of MainLoop).       *)
(* TinyUSB, lwIP and the USB host are external.                            *)
(***************************************************************************)
EXTENDS FiniteSets

CONSTANTS
    Pbuf,     \* the pbuf pool
    None      \* a null pointer

ASSUME UsbAssumption == None \notin Pbuf

VARIABLES
    at,              \* "down", "task", "service", "input" (in lwIP), "timers" (in
                     \* lwIP, too) or "output" (waiting, called from one of these)
    received_frame,  \* the shared pointer
    input,           \* the frame netif_usb.input() is working on, or None
    owner,           \* who has each pbuf: "pool", "driver" or "lwip"
    armed,           \* the OUT endpoint is armed: the host can send
    lost,            \* history: a frame was lost, and the endpoint not armed since
    nested,          \* history: the host re-initialised while a frame was worked on
    corrupted        \* history: a pbuf was freed by one that did not own it

usbVars == <<at, received_frame, input, owner, armed, lost, nested, corrupted>>

UsbTypeOK ==
    /\ at \in {"down", "task", "service", "input", "timers", "output"}
    /\ received_frame \in Pbuf \cup {None}
    /\ input \in Pbuf \cup {None}
    /\ owner \in [Pbuf -> {"pool", "driver", "lwip"}]
    /\ {armed, lost, nested, corrupted} \subseteq BOOLEAN
    /\ at = "input" => input # None
    /\ at \in {"task", "service", "timers"} => input = None

UsbInit ==
    /\ at = "down"
    /\ received_frame = None /\ input = None
    /\ owner = [p \in Pbuf |-> "pool"]
    /\ armed = TRUE /\ lost = FALSE /\ nested = FALSE /\ corrupted = FALSE

\* usb_network_init() after a reset, and the host configures the device.
Start ==
    /\ at = "down" /\ at' = "task"
    /\ received_frame' = None /\ input' = None
    /\ owner' = [p \in Pbuf |-> "pool"]
    /\ armed' = TRUE /\ lost' = FALSE /\ nested' = FALSE /\ corrupted' = FALSE

\* usb_network_deinit() on the way out of app_main(), between two iterations.
Deinit ==
    /\ at = "task" /\ at' = "down"
    /\ UNCHANGED <<received_frame, input, owner, armed, lost, nested, corrupted>>

\* The watchdog or a power cut; what RAM held is of no use any more.
Reset ==
    /\ at # "down" /\ at' = "down"
    /\ UNCHANGED <<received_frame, input, owner, armed, lost, nested, corrupted>>

InTask == at = "task" \/ at = "output"

\* tud_output() waits for room on behalf of the frame lwIP works on.
Reentrant == at = "output" /\ input # None
------------------------------------------------------------------------------
\* tud_network_recv_cb(): a pbuf is allocated and left for service_traffic();
\* nobody re-arms yet.  With a frame pending it would refuse, which ReceiverAlive
\* shows it never has to.
RecvStored(p) ==
    /\ InTask /\ armed /\ received_frame = None
    /\ owner[p] = "pool"
    /\ owner' = [owner EXCEPT ![p] = "driver"]
    /\ received_frame' = p
    /\ armed' = FALSE
    /\ UNCHANGED <<at, input, lost, nested, corrupted>>

\* No pbuf, or an empty frame: "accepted", but nothing is left to be serviced.
RecvLost ==
    /\ InTask /\ armed /\ received_frame = None
    /\ armed' = FALSE /\ lost' = TRUE
    /\ UNCHANGED <<at, received_frame, input, owner, nested, corrupted>>

\* Mutant: the pointer is cleared, the leftover packet is not freed.
ReinitLeaks ==
    /\ at = "task"
    /\ received_frame' = None
    /\ armed' = TRUE /\ lost' = FALSE
    /\ UNCHANGED <<at, input, owner, nested, corrupted>>

\* tud_network_init_cb(), then TinyUSB arms the endpoint of the new connection.
Reinit ==
    /\ InTask
    /\ IF received_frame = None THEN UNCHANGED <<owner, corrupted>>
       ELSE /\ owner' = [owner EXCEPT ![received_frame] = "pool"]
            /\ corrupted' = (corrupted \/ owner[received_frame] # "driver")
    /\ received_frame' = None
    /\ armed' = TRUE /\ lost' = FALSE
    /\ nested' = (nested \/ Reentrant)
    /\ UNCHANGED <<at, input>>

TaskDone ==
    /\ at = "task" /\ at' = "service"
    /\ UNCHANGED <<received_frame, input, owner, armed, lost, nested, corrupted>>
------------------------------------------------------------------------------
\* service_traffic() hands the pending frame to lwIP ...
\* Mutant: a pending frame is passed over.
ServiceSkips ==
    /\ at = "service"
    /\ at' = "timers"
    /\ UNCHANGED <<received_frame, input, owner, armed, lost, nested, corrupted>>

ServiceNothing ==
    /\ at = "service" /\ received_frame = None
    /\ at' = "timers"
    /\ UNCHANGED <<received_frame, input, owner, armed, lost, nested, corrupted>>

\* Mutant: the null check is missing.
ServiceAnything ==
    /\ at = "service"
    /\ at' = "input"
    /\ input' = received_frame
    /\ owner' = [p \in Pbuf |-> IF p = received_frame THEN "lwip" ELSE owner[p]]
    /\ UNCHANGED <<received_frame, armed, lost, nested, corrupted>>

ServiceFrame ==
    /\ at = "service" /\ received_frame # None
    /\ at' = "input"
    /\ input' = received_frame
    /\ owner' = [owner EXCEPT ![received_frame] = "lwip"]
    /\ UNCHANGED <<received_frame, armed, lost, nested, corrupted>>

\* ... which answers through tud_output(), waiting there for the host to read.
\* sys_check_timeouts() may send as well: retransmissions and delayed answers.
OutputBegin ==
    /\ at \in {"input", "timers"} /\ at' = "output"
    /\ UNCHANGED <<received_frame, input, owner, armed, lost, nested, corrupted>>

\* There is room, or TinyUSB is not ready and ERR_USE tells lwIP so.
OutputEnd ==
    /\ at = "output" /\ at' = IF input # None THEN "input" ELSE "timers"
    /\ UNCHANGED <<received_frame, input, owner, armed, lost, nested, corrupted>>

\* The frame is freed by lwIP or queued; or refused, and whatever the shared
\* pointer shows by now is freed here.
InputEnds ==
    \/ /\ \E o \in {"pool", "lwip"} : owner' = [owner EXCEPT ![input] = o]
       /\ corrupted' = (corrupted \/ owner[input] # "lwip")
    \/ /\ received_frame # None
       /\ owner' = [owner EXCEPT ![received_frame] = "pool"]
       /\ corrupted' = (corrupted \/ owner[received_frame] # "lwip")
    \/ received_frame = None /\ UNCHANGED <<owner, corrupted>>

\* Mutant: tud_network_recv_renew() is missing.
InputReturnsDeaf ==
    /\ at = "input" /\ at' = "timers"
    /\ InputEnds
    /\ input' = None
    /\ received_frame' = None
    /\ UNCHANGED <<armed, lost, nested>>

\* netif_usb.input() returns; the pointer is cleared and the endpoint re-armed.
InputReturns ==
    /\ at = "input" /\ at' = "timers"
    /\ InputEnds
    /\ input' = None
    /\ received_frame' = None
    /\ armed' = TRUE /\ lost' = FALSE
    /\ UNCHANGED nested

\* A timer or a later segment lets lwIP free what it had queued.
QueueFreed(p) ==
    /\ at \in {"input", "timers"} /\ p # input /\ owner[p] = "lwip"
    /\ owner' = [owner EXCEPT ![p] = "pool"]
    /\ UNCHANGED <<at, received_frame, input, armed, lost, nested, corrupted>>

TimersDone ==
    /\ at = "timers" /\ at' = "task"
    /\ UNCHANGED <<received_frame, input, owner, armed, lost, nested, corrupted>>

UsbNext ==
    \/ Start \/ Deinit \/ Reset
    \/ RecvLost \/ Reinit \/ TaskDone
    \/ ServiceNothing \/ ServiceFrame \/ OutputBegin \/ OutputEnd \/ InputReturns
    \/ TimersDone
    \/ \E p \in Pbuf : RecvStored(p) \/ QueueFreed(p)

\* The main loop keeps calling usb_network_update(); a host that does not read
\* brings the watchdog in.
UsbFairness ==
    /\ WF_usbVars(TaskDone) /\ WF_usbVars(ServiceNothing) /\ WF_usbVars(ServiceFrame)
    /\ WF_usbVars(OutputEnd \/ Reset) /\ SF_usbVars(InputReturns) /\ SF_usbVars(TimersDone)

UsbSpec == UsbInit /\ [][UsbNext]_usbVars /\ UsbFairness
------------------------------------------------------------------------------
(* Properties *)

\* A frame belongs to one side at a time: nobody frees what the other holds,
\* and a stored frame is never forgotten.  The one exception is a
\* re-initialisation that reaches tud_network_init_cb() from within tud_output()
\* while lwIP works on a frame: that one is its "leftover packet" (usb_network.c:103).
\* From within a timer's tud_output() the same is safe.
FramesAreOwned ==
    ~nested => /\ ~corrupted
               /\ \A p \in Pbuf : owner[p] = "driver" => p = received_frame

\* The host can send exactly while no frame is pending: a frame on its way will
\* let it send again, and none arrives that recv_cb would have to refuse.  Only a
\* lost frame leaves the endpoint deaf, until another frame's service or the next
\* initialisation arms it.
ReceiverAlive == armed <=> received_frame = None /\ ~lost

\* A stored frame reaches lwIP, or is dropped by a re-initialisation, if the board
\* stays up; also one that arrives while a timer waits in tud_output().
FramesAreServed ==
    \A p \in Pbuf : owner[p] = "driver" ~> owner[p] # "driver" \/ nested \/ at = "down"
==============================================================================
