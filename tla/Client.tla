-------------------------------- MODULE Client -------------------------------
(***************************************************************************)
(* A client that provisions the board, over Keystore.  UsbNetClient of     *)
(* src/debug_tool.py makes one request at a time and never repeats one:    *)
(* whether POST /write is sent again, and when POST /sign is asked for the *)
(* acceptance check of README.md "POST /write", is up to whoever uses it,  *)
(* so that here any request may follow any other.  A reply can be lost:    *)
(* tcp_write() fails, the board dies, or the client gives up and its       *)
(* request arrives all the same.  Meanwhile anybody may ask the board for  *)
(* anything.  Faults are counted, and MaxFaults bounds them.               *)
(***************************************************************************)
EXTENDS Keystore

CONSTANTS
    MySeed, MyPub, MyId,    \* the record the client wants filed
    MaxFaults               \* crashes, flash errors, lost replies and timeouts

ASSUME ClientAssumption ==
    MySeed \in Seed /\ MyPub \in Pub /\ MyId \in Id /\ MaxFaults \in Nat

Mine == [seed |-> MySeed, pub |-> MyPub, id |-> MyId]

VARIABLES
    at,       \* "ready", "sent", "served", "answered"
    asks,     \* what it asked last: "write" or "sign"
    result    \* status and record of the answer on its way, then of the last Result

VARIABLES
    late,     \* a request the client gave up on is still on its way
    others,   \* history: others changed the record "never", "before" or "since"
              \* the client's latest request was served
    told,     \* history: a Result of /write had status 200 or 403
    faults    \* faults so far

clientVars == <<at, asks, result, late, others, told, faults>>

NoResult == [status |-> 0, rec |-> Nothing]

ClientTypeOK ==
    /\ at \in {"ready", "sent", "served", "answered"}
    /\ asks \in {"write", "sign"}
    /\ result \in [status : Status, rec : Record \cup {Nothing}]
    /\ late \in BOOLEAN /\ told \in BOOLEAN
    /\ others \in {"never", "before", "since"}
    /\ faults \in 0..MaxFaults

ClientInit ==
    /\ Init
    /\ at = "ready" /\ asks = "write" /\ result = NoResult
    /\ late = FALSE /\ others = "never" /\ told = FALSE /\ faults = 0
------------------------------------------------------------------------------
Fault == faults < MaxFaults /\ faults' = faults + 1

\* The record changed hands: unless the client did it, it was others.
Touched == others' = "since"

\* The answer is there, and travels to the client.
Answered == at' = "answered" /\ result' = [status |-> reply'.status, rec |-> reply'.rec]

\* UsbNetClient.request(): connect and send.
Send ==
    /\ at = "ready" /\ at' = "sent" /\ result' = NoResult
    /\ asks' \in {"write", "sign"}
    /\ UNCHANGED <<vars, late, others, told, faults>>

\* The board gets to a well formed POST /write of the client's record ...
TakeWrite == WriteRefused \/ \E half \in {MyPub, Bare} : Provision(Mine, half)

\* ... or to its POST /sign.
Serve ==
    /\ at = "sent"
    /\ IF asks = "write" THEN TakeWrite ELSE Sign
    /\ others' = IF others = "since" THEN "before" ELSE others
    /\ IF pc' = "idle" THEN Answered ELSE at' = "served" /\ UNCHANGED result
    /\ UNCHANGED <<asks, late, told, faults>>

\* A request the client gave up on is served, and its answer goes nowhere.
ServeLate ==
    /\ late /\ late' = FALSE
    /\ TakeWrite
    /\ others' = IF others = "never" THEN "never" ELSE "since"
    /\ UNCHANGED <<at, asks, result, told, faults>>

\* Whatever anybody else may ask for.
OthersAsk ==
    /\ Request
    /\ IF job'.op \in {"write", "wipe"} THEN Touched ELSE UNCHANGED others
    /\ UNCHANGED <<at, asks, result, late, told, faults>>

\* A step of the handler in progress, the client's or another one.  The client
\* sends all the fields of POST /sign, so that its 400 is not for the client.
Work ==
    /\ Continue
    /\ IF pc = "compare" /\ pc' = "erase" THEN Touched ELSE UNCHANGED others
    /\ IF FlashFails THEN Fault ELSE UNCHANGED faults
    /\ IF at = "served" /\ pc' = "idle"
       THEN Answered /\ (asks = "sign" => reply'.status # 400)
       ELSE UNCHANGED <<at, result>>
    /\ UNCHANGED <<asks, late, told>>

PowerUp == Boot /\ UNCHANGED clientVars
------------------------------------------------------------------------------
\* The request returns a Result with a status.
Receive ==
    /\ at = "answered" /\ at' = "ready"
    /\ told' = (told \/ (asks = "write" /\ result.status \in {200, 403}))
    /\ UNCHANGED <<vars, asks, result, late, others, faults>>

\* tcp_write() runs out of memory, or the link drops the reply: no status.
Lose ==
    /\ at = "answered" /\ Fault
    /\ at' = "ready" /\ result' = NoResult
    /\ UNCHANGED <<vars, asks, late, others, told>>

\* The timeout of urlopen() strikes before the board got to the request, which
\* may then still be delivered: one such POST /write at a time.
GiveUp ==
    /\ at = "sent" /\ ~(late /\ asks = "write") /\ Fault
    /\ at' = "ready" /\ late' = (late \/ asks = "write")
    /\ UNCHANGED <<vars, asks, result, others, told>>

\* The request is lost instead: the closed connection takes it with it.
DropLate ==
    /\ late /\ late' = FALSE
    /\ UNCHANGED <<vars, at, asks, result, others, told, faults>>

\* The board dies: its connections, and what was on its way over them, are gone.
Die ==
    /\ Crash /\ Fault
    /\ at' = "ready" /\ result' = IF at = "ready" THEN result ELSE NoResult
    /\ late' = FALSE
    /\ UNCHANGED <<asks, others, told>>

ClientNext ==
    \/ Send \/ Serve \/ Receive \/ Lose \/ GiveUp
    \/ ServeLate \/ DropLate
    \/ OthersAsk \/ Work \/ PowerUp \/ Die

ClientSpec == ClientInit /\ [][ClientNext]_<<vars, clientVars>>
------------------------------------------------------------------------------
(* Properties *)

\* README.md:48: a lost 200 makes the retry a 403.  As long as nobody else has
\* filed or released a record, that 403 means what the 200 would have: from then
\* on the board holds exactly the client's record, through every further request,
\* loss, cut and flash error.
RetryIsSafe ==
    others = "never" /\ told => storage_writen(flash) /\ storage_read(flash) = Mine

\* README.md:75: on a provisioned board the acceptance check tells the client's
\* record from any other, and from one that does not decrypt, for as long as
\* nobody changes it again.
Accepted == result.status = 200 /\ result.rec = Mine
Concludes == at = "ready" /\ asks = "sign" /\ result.status # 0
ConclusionHolds ==
    told /\ Concludes /\ others # "since" /\ storage_writen(flash)
        => (Accepted <=> storage_read(flash) = Mine)
==============================================================================
