-------------------------- MODULE ProvisioningProofs -------------------------
(***************************************************************************)
(* What is built on Keystore, for every set of records and keys and any    *)
(* number of faults: a client that sends POST /write and POST /sign as it  *)
(* likes, and the report of a death inside a marked handler.  Every step   *)
(* of Client and of Diag is one of Keystore, so that KeystoreProofs' IInv  *)
(* says what a handler is at each point.                                   *)
(***************************************************************************)
EXTENDS Client, Diag, KeystoreProofs

(* Client: a retry means what the lost answer would have meant.                *)

\* While nobody else interferes all writing is of the client's record, nothing is
\* erased but for that, and what the client was told has been true ever since.
OwnWork ==
    others = "never" =>
        /\ storage_writen(flash) => storage_read(flash) = Mine
        /\ job.op = "write" => job.rec = Mine
        /\ pc = "erase" => job.op = "write"
        /\ told => storage_writen(flash)
        /\ at = "answered" /\ asks = "write" /\ result.status \in {200, 403} => storage_writen(flash)

\* The handler that serves the client is the one it asked for.
OwnHandler ==
    /\ asks \in {"write", "sign"}
    /\ at = "served" => pc \notin {"off", "idle"} /\ (asks = "write" => job.op = "write")

ClientInv == OwnWork /\ OwnHandler

LEMMA ClientStepIsStep == ClientNext => Next \/ UNCHANGED vars
<1> SUFFICES ASSUME ClientNext PROVE Next \/ UNCHANGED vars
  OBVIOUS
<1>1. CASE TakeWrite \/ Sign
  BY <1>1, ClientAssumption DEF TakeWrite, Next, Request, Write, Record, Mine
<1>2. CASE Request \/ Continue \/ Boot \/ Crash
  BY <1>2 DEF Next
<1> QED BY <1>1, <1>2 DEF ClientNext, Send, Serve, Receive, Lose, GiveUp, ServeLate,
                          DropLate, OthersAsk, Work, PowerUp, Die

\* Whatever the network loses or delays and whoever else asks, the board only ever does
\* what the handlers of http_server.c do one request at a time.
LEMMA ClientIsKeystore == ClientSpec => Spec
<1>1. ClientInit => Init
  BY DEF ClientInit
<1>2. [ClientNext]_<<vars, clientVars>> => [Next]_vars
  BY ClientStepIsStep
<1> QED BY <1>1, <1>2, PTL DEF ClientSpec, Spec

\* So the one filing that POST /write promises holds end to end: for clients that retry
\* over a network that loses answers and delivers requests after they were given up.
THEOREM PromiseOverTheNetwork ==
    ASSUME AscendingPage
    PROVE  ClientSpec => KeepsPromise
BY ClientIsKeystore, Implementation, PTL
------------------------------------------------------------------------------
LEMMA SameFlash ==
    ASSUME UNCHANGED flash
    PROVE  /\ storage_writen(flash)' = storage_writen(flash)
           /\ storage_read(flash)' = storage_read(flash)
BY DEF storage_writen, storage_read, Opens, storage_available

\* The client's own steps.
LEMMA ClientMoves ==
    ASSUME ClientInv, Send \/ Receive \/ Lose \/ GiveUp \/ DropLate
    PROVE  ClientInv'
<1>1. UNCHANGED <<flash, pc, job, others>> /\ asks' \in {"write", "sign"}
  BY DEF Send, Receive, Lose, GiveUp, DropLate, vars, ClientInv, OwnHandler
<1>2. at' \notin {"served", "answered"} \/ UNCHANGED <<at, asks, result>>
  BY DEF Send, Receive, Lose, GiveUp, DropLate, vars
<1>3. told' => told \/ (at = "answered" /\ asks = "write" /\ result.status \in {200, 403})
  BY DEF Send, Receive, Lose, GiveUp, DropLate, vars
<1>4. OwnWork'
  BY <1>1, <1>2, <1>3, SameFlash DEF ClientInv, OwnWork
<1>5. OwnHandler'
  BY <1>1, <1>2 DEF ClientInv, OwnHandler
<1> QED BY <1>4, <1>5 DEF ClientInv

\* A POST /write of the client's record is taken up, or refused.
LEMMA TakenWrite ==
    ASSUME TakeWrite
    PROVE  /\ pc = "idle" /\ UNCHANGED flash
           /\ \/ storage_writen(flash) /\ Answer("write", 403, Nothing)
              \/ ~storage_writen(flash) /\ pc' = "entropy" /\ job' = Doing("write", Mine, Nothing)
BY DEF TakeWrite, WriteRefused, Provision, Enter

LEMMA ServeStep ==
    ASSUME ClientInv, Serve \/ ServeLate
    PROVE  ClientInv'
<1>1. others' = "never" => others = "never"
  BY DEF Serve, ServeLate
<1>2. CASE Serve /\ asks = "write"
  <2>1. TakeWrite /\ asks' = "write" /\ told' = told
    BY <1>2 DEF Serve
  <2>2. CASE storage_writen(flash) /\ Answer("write", 403, Nothing)
    <3>1. /\ UNCHANGED flash /\ pc' = "idle" /\ job'.op = "none" /\ at' = "answered"
          /\ result'.status = 403
      BY <1>2, <2>1, <2>2, TakenWrite DEF Serve, Answered, Answer, NoJob, Doing
    <3> QED BY <1>1, <2>1, <2>2, <3>1, SameFlash DEF ClientInv, OwnWork, OwnHandler
  <2>3. CASE ~storage_writen(flash) /\ pc' = "entropy" /\ job' = Doing("write", Mine, Nothing)
    <3>1. UNCHANGED <<flash, result>> /\ at' = "served"
      BY <1>2, <2>1, <2>3, TakenWrite DEF Serve
    <3>2. job'.op = "write" /\ job'.rec = Mine
      BY <2>3 DEF Doing
    <3> QED BY <1>1, <1>2, <2>1, <2>3, <3>1, <3>2, SameFlash DEF ClientInv, OwnWork, OwnHandler
  <2> QED BY <2>1, <2>2, <2>3, TakenWrite
<1>3. CASE Serve /\ asks # "write"
  <2>1. /\ UNCHANGED flash /\ pc' = "key" /\ job'.op = "sign" /\ UNCHANGED <<asks, result, told>>
        /\ at' = "served"
    BY <1>3 DEF Serve, Sign, Enter, Doing
  <2> QED BY <1>1, <1>3, <2>1, SameFlash DEF ClientInv, OwnWork, OwnHandler
<1>4. CASE ServeLate
  <2>1. TakeWrite /\ UNCHANGED <<at, asks, result, told>>
    BY <1>4 DEF ServeLate
  <2>2. UNCHANGED flash /\ pc = "idle"
    BY <2>1, TakenWrite
  <2>3. pc' # "erase" /\ (job'.op = "write" => job'.rec = Mine)
    BY <2>1, TakenWrite DEF Answer, NoJob, Doing
  <2> QED BY <1>1, <2>1, <2>2, <2>3, SameFlash DEF ClientInv, OwnWork, OwnHandler
<1> QED BY <1>2, <1>3, <1>4

LEMMA OthersStep ==
    ASSUME ClientInv, OthersAsk
    PROVE  ClientInv'
<1>1. /\ pc = "idle" /\ UNCHANGED <<flash, at, asks, result, told>>
      /\ pc' = "erase" => job'.op = "wipe"
  BY DEF OthersAsk, Request, WriteRefused, WriteMalformed, Write, Provision, WriteMismatched,
         ClearMalformed, ClearNothing, Clear, DebugClear, SignEmpty, Sign, Info, Snapshot,
         Enter, Answer, Doing
<1>2. others' = "never" => others = "never" /\ job'.op \notin {"write", "wipe"}
  BY DEF OthersAsk, Touched
<1> QED BY <1>1, <1>2, SameFlash DEF ClientInv, OwnWork, OwnHandler
------------------------------------------------------------------------------
\* Of a handler that goes on: what the client is told when it is done.
LEMMA WorkTells ==
    ASSUME ClientInv, Work
    PROVE  /\ asks' = asks /\ told' = told
           /\ \/ UNCHANGED <<at, result>> /\ (at = "served" => pc' # "idle")
              \/ at = "served" /\ pc' = "idle" /\ at' = "answered" /\ result'.status = reply'.status
BY DEF Work, Answered

LEMMA Untouched ==
    ASSUME Work, others' = "never"
    PROVE  others = "never" /\ ~(pc = "compare" /\ pc' = "erase")
BY DEF Work, Touched

\* Steps inside a handler that leave the flash alone.
LEMMA QuietWork ==
    ASSUME ClientInv, IInv, Work, GenerateKeys \/ BoxPayload \/ SignLoaded \/ ClearAuthorised
    PROVE  ClientInv'
<1>1. UNCHANGED flash /\ pc' \notin {"off", "idle"} /\ job'.op = job.op
  BY DEF GenerateKeys, BoxPayload, SignLoaded, ClearAuthorised, Step, IInv, TypeOK, Job
<1>2. job.op = "write" => job'.rec = job.rec
  BY DEF GenerateKeys, BoxPayload, SignLoaded, ClearAuthorised, Step, IInv, TypeOK, Job,
         SigningHasTheKey
<1>3. pc' = "erase" /\ others' = "never" => job.op = "write"
  BY Untouched DEF GenerateKeys, BoxPayload, SignLoaded, ClearAuthorised, Step, IInv,
                   WritingIsUnprotected
<1>4. UNCHANGED <<at, result, asks, told>>
  BY <1>1, WorkTells
<1> QED BY <1>1, <1>2, <1>3, <1>4, Untouched, SameFlash DEF ClientInv, OwnWork, OwnHandler

\* Handlers that end without having changed the flash.
LEMMA QuietEnd ==
    ASSUME ClientInv, IInv, Work, FlashFails \/ ClearDenied \/ SignRefused \/ SignDone
    PROVE  ClientInv'
<1>1. UNCHANGED flash /\ pc' = "idle" /\ job'.op = "none"
  BY DEF FlashFails, ClearDenied, SignRefused, SignDone, Answer, NoJob, Doing
<1>2. job.op = "write" => reply'.status = 500
  <2>1. CASE FlashFails
    BY <2>1 DEF FlashFails, Answer
  <2>2. CASE ClearDenied
    BY <2>2 DEF ClearDenied, IInv, ErasureIsEntitled
  <2>3. CASE SignRefused \/ SignDone
    BY <2>3 DEF SignRefused, SignDone, IInv, SigningHasTheKey
  <2> QED BY <2>1, <2>2, <2>3
<1>3. OwnHandler'
  BY <1>1, WorkTells DEF ClientInv, OwnHandler
<1>4. OwnWork'
  <2> SUFFICES ASSUME others' = "never" PROVE OwnWork'
    BY DEF OwnWork
  <2>1. CASE UNCHANGED <<at, result>>
    BY <1>1, <2>1, WorkTells, Untouched, SameFlash DEF ClientInv, OwnWork
  <2>2. CASE at = "served" /\ result'.status = reply'.status
    <3>1. asks = "sign" \/ result'.status = 500
      BY <1>2, <2>2 DEF ClientInv, OwnHandler
    <3> QED BY <1>1, <2>2, <3>1, WorkTells, Untouched, SameFlash DEF ClientInv, OwnWork
  <2> QED BY <2>1, <2>2, WorkTells
<1> QED BY <1>3, <1>4 DEF ClientInv
------------------------------------------------------------------------------
\* The sector is erased to be written: it held no record, and holds none.
LEMMA EraseWork ==
    ASSUME ClientInv, IInv, Work, EraseForWrite \/ EraseForClear
    PROVE  ClientInv'
<1>1. ~storage_writen(flash)'
  BY BlankSector DEF EraseForWrite, EraseForClear, storage_writen
<1>2. CASE EraseForWrite
  <2>1. pc' = "page0" /\ UNCHANGED job /\ job.op = "write" /\ ~storage_writen(flash)
    BY <1>2 DEF EraseForWrite, Step, IInv, WritingIsUnprotected
  <2>2. UNCHANGED <<at, result, asks, told>>
    BY <2>1, WorkTells
  <2> QED BY <1>1, <2>1, <2>2, Untouched DEF ClientInv, OwnWork, OwnHandler
<1>3. CASE EraseForClear
  <2>1. pc = "erase" /\ pc' = "idle" /\ job.op # "write"
    BY <1>3 DEF EraseForClear, Answer
  <2>2. others' # "never"
    BY <2>1, Untouched DEF ClientInv, OwnWork
  <2>3. OwnHandler'
    BY <2>1, WorkTells DEF ClientInv, OwnHandler
  <2> QED BY <2>2, <2>3 DEF ClientInv, OwnWork
<1> QED BY <1>2, <1>3

\* The first page carries no marker.
LEMMA FirstPageWork ==
    ASSUME ClientInv, IInv, Work, ProgramPage0
    PROVE  ClientInv'
<1>1. /\ pc = "page0" /\ pc' = "page1" /\ UNCHANGED job /\ flash = Blank
      /\ flash' = Programmed(Blank, Page0, Staged) /\ ~storage_writen(flash)
      /\ job.op = "write" /\ Staged \in Image
  BY StagedImage DEF ProgramPage0, Step, IInv, WritingIsUnprotected
<1>2. ~storage_writen(flash)'
  BY <1>1, FirstPage, StorageAssumption DEF storage_writen
<1>3. UNCHANGED <<at, result, asks, told>>
  BY <1>1, WorkTells
<1> QED BY <1>1, <1>2, <1>3, Untouched DEF ClientInv, OwnWork, OwnHandler

\* The record is filed: it is the client's, and so is the 200 if it is served.
LEMMA SecondPageWork ==
    ASSUME ClientInv, IInv, Work, ProgramPage1
    PROVE  ClientInv'
<1>1. /\ pc' = "idle" /\ job.op = "write" /\ job'.op = "none"
      /\ flash' = Programmed(Programmed(Blank, Page0, Staged), Page1, Staged)
      /\ Staged \in Image /\ Staged.rec = job.rec
  BY StagedImage DEF ProgramPage1, Answer, NoJob, Doing, IInv, WritingIsUnprotected, Staged
<1>2. storage_writen(flash)' /\ storage_read(flash)' = job.rec
  BY <1>1, FullSector DEF storage_writen, storage_read, Opens, storage_available
<1>3. OwnHandler'
  BY <1>1, WorkTells DEF ClientInv, OwnHandler
<1> QED BY <1>1, <1>2, <1>3, Untouched DEF ClientInv, OwnWork

LEMMA WorkStep ==
    ASSUME ClientInv, IInv, Work
    PROVE  ClientInv'
BY QuietWork, QuietEnd, EraseWork, FirstPageWork, SecondPageWork DEF Work, Continue
------------------------------------------------------------------------------
\* The board starts, and dies: a cut of provisioning files all of it or nothing.
LEMMA PowerStep ==
    ASSUME AscendingPage, ClientInv, IInv, PowerUp \/ Die
    PROVE  ClientInv'
<1>1. CASE PowerUp
  <2>1. pc = "off" /\ pc' = "idle" /\ UNCHANGED <<flash, job, at, asks, result, others, told>>
    BY <1>1 DEF PowerUp, Boot, clientVars
  <2> QED BY <2>1, SameFlash DEF ClientInv, OwnWork, OwnHandler
<1>2. CASE Die
  <2>1. /\ pc' = "off" /\ job'.op = "none" /\ UNCHANGED <<asks, others, told>>
        /\ at' = "ready"
    BY <1>2 DEF Die, Crash, NoJob, Doing
  <2>2. OwnHandler'
    BY <2>1 DEF ClientInv, OwnHandler
  <2>3. CASE job.op = "write" /\ storage_writen(flash')
    <3>1. ~storage_writen(flash) /\ storage_read(flash') = job.rec
      BY <1>2, <2>3, CutIsClean DEF Die
    <3>2. storage_writen(flash)' /\ storage_read(flash)' = storage_read(flash')
      BY <2>3 DEF storage_writen, storage_read, Opens, storage_available
    <3> QED BY <2>1, <2>2, <2>3, <3>1, <3>2 DEF ClientInv, OwnWork, NoResult
  <2>4. CASE job.op = "write" /\ ~storage_writen(flash')
    <3>1. ~storage_writen(flash) /\ ~storage_writen(flash)'
      <4>1. pc \in {"entropy", "boxing", "erase", "page0", "page1"}
        BY <1>2, <2>4 DEF Die, Crash, IInv, TypeOK, ErasureIsEntitled, SigningHasTheKey,
                          IdleHasNoJob, NoJob, Doing
      <4> QED BY <2>4, <4>1 DEF IInv, WritingIsUnprotected, storage_writen
    <3> QED BY <2>1, <2>2, <3>1 DEF ClientInv, OwnWork, NoResult
  <2>5. CASE job.op # "write" /\ others = "never"
    <3>1. pc \notin {"erase", "page0", "page1"}
      BY <2>5 DEF ClientInv, OwnWork, IInv, WritingIsUnprotected
    <3>2. UNCHANGED flash
      BY <1>2, <3>1 DEF Die, Crash, AfterCut
    <3> QED BY <2>1, <2>2, <3>2, SameFlash DEF ClientInv, OwnWork, NoResult
  <2>6. CASE others # "never"
    BY <2>1, <2>2, <2>6 DEF ClientInv, OwnWork
  <2> QED BY <2>3, <2>4, <2>5, <2>6
<1> QED BY <1>1, <1>2

LEMMA StartsInvariant == ClientInit => ClientInv
BY BlankSector DEF ClientInit, Init, NoJob, Doing, NoResult, ClientInv, OwnWork, OwnHandler

LEMMA ClientStep ==
    ASSUME AscendingPage, ClientInv, IInv, [ClientNext]_<<vars, clientVars>>
    PROVE  ClientInv'
<1>1. CASE UNCHANGED <<vars, clientVars>>
  BY <1>1, SameFlash DEF vars, clientVars, ClientInv, OwnWork, OwnHandler
<1> QED BY <1>1, ClientMoves, ServeStep, OthersStep, WorkStep, PowerStep DEF ClientNext

\* README.md:48: as long as nobody else files or releases a record, a 403 to the
\* retry of a provisioning request means that the record is on the board.
THEOREM RetriesAreSafe ==
    ASSUME AscendingPage
    PROVE  ClientSpec => []RetryIsSafe
<1>1. ClientInv => RetryIsSafe
  BY DEF ClientInv, OwnWork, RetryIsSafe
<1>2. ClientInv /\ IInv /\ [ClientNext]_<<vars, clientVars>> => ClientInv'
  BY ClientStep
<1>3. Spec => []IInv
  BY Invariance
<1> QED BY <1>1, <1>2, <1>3, StartsInvariant, ClientIsKeystore, PTL DEF ClientSpec
------------------------------------------------------------------------------
(* What POST /sign tells the client stays true until others change the record.  *)

\* The answer to the client's latest request is on its way, or arrived.
HasAnswer == at = "answered" \/ (at = "ready" /\ result.status # 0)

\* Unless others changed the record since its request was served, whatever is
\* written is the client's, nothing is erased but for that, and once it has an
\* answer only a late request of its own can be at work.
OwnHands ==
    others # "since" =>
        /\ job.op = "write" => job.rec = Mine
        /\ pc = "erase" => job.op = "write"
        /\ HasAnswer /\ job.op = "write" => others = "never"

\* The handler that serves the client's POST /sign is one, and no answer is there
\* before it ends.
OwnAnswer ==
    /\ at = "served" /\ asks = "sign" => job.op = "sign"
    /\ at \in {"sent", "served"} => result.status = 0

\* What POST /sign has told the client is true of the board.
Told ==
    told /\ HasAnswer /\ asks = "sign" /\ others # "since" /\ storage_writen(flash)
        => (Accepted <=> storage_read(flash) = Mine)

Concluded == OwnHands /\ OwnAnswer /\ Told

\* The client takes its answer, or loses it.
LEMMA MovesConclude ==
    ASSUME ClientInv, Concluded, Send \/ Receive \/ Lose \/ GiveUp \/ DropLate
    PROVE  Concluded'
<1>1. UNCHANGED <<flash, pc, job, others>>
  BY DEF Send, Receive, Lose, GiveUp, DropLate, vars
<1>2. /\ at' # "served" \/ UNCHANGED <<at, asks, result>>
      /\ at' = "sent" => result'.status = 0 \/ UNCHANGED <<at, result>>
      /\ HasAnswer' => HasAnswer /\ UNCHANGED <<asks, result>>
      /\ told' /\ asks' = "sign" /\ HasAnswer' => told
  <2>1. CASE Send \/ Lose \/ DropLate
    BY <2>1 DEF Send, Lose, DropLate, vars, HasAnswer, NoResult
  <2>2. CASE Receive
    BY <2>2 DEF Receive, vars, HasAnswer
  <2>3. CASE GiveUp
    <3>1. at = "sent" /\ result.status = 0
      BY <2>3 DEF GiveUp, Concluded, OwnAnswer
    <3> QED BY <2>3, <3>1 DEF GiveUp, vars, HasAnswer
  <2> QED BY <2>1, <2>2, <2>3
<1>3. OwnHands' /\ OwnAnswer'
  BY <1>1, <1>2 DEF Concluded, OwnHands, OwnAnswer
<1>4. Told'
  BY <1>1, <1>2, SameFlash DEF Concluded, Told, Accepted
<1> QED BY <1>3, <1>4 DEF Concluded

\* The board takes up what the client asks, or asked and gave up on.
LEMMA ServeConcludes ==
    ASSUME ClientInv, Concluded, Serve \/ ServeLate
    PROVE  Concluded'
<1>1. CASE Serve /\ asks = "write"
  <2>1. TakeWrite /\ asks' = "write" /\ UNCHANGED flash
    BY <1>1, TakenWrite DEF Serve
  <2>2. CASE storage_writen(flash) /\ Answer("write", 403, Nothing)
    <3>1. pc' = "idle" /\ job'.op = "none" /\ at' = "answered"
      BY <1>1, <2>1, <2>2 DEF Serve, Answered, Answer, NoJob, Doing
    <3> QED BY <2>1, <3>1 DEF Concluded, OwnHands, OwnAnswer, Told
  <2>3. CASE ~storage_writen(flash) /\ pc' = "entropy" /\ job' = Doing("write", Mine, Nothing)
    <3>1. at = "sent" /\ at' = "served" /\ UNCHANGED result /\ job'.rec = Mine
      BY <1>1, <2>1, <2>3 DEF Serve, Doing
    <3> QED BY <2>1, <2>3, <3>1 DEF Concluded, OwnHands, OwnAnswer, Told, HasAnswer
  <2> QED BY <2>1, <2>2, <2>3, TakenWrite
<1>2. CASE Serve /\ asks # "write"
  <2>1. /\ pc' = "key" /\ job'.op = "sign"
        /\ at = "sent" /\ at' = "served" /\ UNCHANGED result
    BY <1>2 DEF Serve, Sign, Enter, Doing
  <2> QED BY <2>1 DEF Concluded, OwnHands, OwnAnswer, Told, HasAnswer
<1>3. CASE ServeLate
  <2>1. /\ TakeWrite /\ UNCHANGED <<at, asks, result, told, flash>> /\ pc = "idle"
        /\ others' # "since" => others = "never" /\ others' = "never"
    BY <1>3, TakenWrite DEF ServeLate
  <2>2. pc' # "erase" /\ (job'.op = "write" => job'.rec = Mine)
    BY <2>1, TakenWrite DEF Answer, NoJob, Doing
  <2>3. at # "served"
    BY <2>1 DEF ClientInv, OwnHandler
  <2>4. OwnHands' /\ OwnAnswer'
    BY <2>1, <2>2, <2>3 DEF Concluded, OwnHands, OwnAnswer, HasAnswer
  <2>5. Told'
    BY <2>1, SameFlash DEF Concluded, Told, Accepted, HasAnswer
  <2> QED BY <2>4, <2>5 DEF Concluded
<1> QED BY <1>1, <1>2, <1>3

LEMMA OthersConclude ==
    ASSUME ClientInv, Concluded, OthersAsk
    PROVE  Concluded'
<1>1. /\ pc = "idle" /\ UNCHANGED <<flash, at, asks, result, told>>
      /\ pc' = "erase" => job'.op = "wipe"
  BY DEF OthersAsk, Request, WriteRefused, WriteMalformed, Write, Provision, WriteMismatched,
         ClearMalformed, ClearNothing, Clear, DebugClear, SignEmpty, Sign, Info, Snapshot,
         Enter, Answer, Doing
<1>2. others' # "since" => others' = others /\ job'.op \notin {"write", "wipe"}
  BY DEF OthersAsk, Touched
<1>3. at # "served"
  BY <1>1 DEF ClientInv, OwnHandler
<1>4. OwnHands' /\ OwnAnswer'
  BY <1>1, <1>2, <1>3 DEF Concluded, OwnHands, OwnAnswer, HasAnswer
<1>5. Told'
  BY <1>1, <1>2, SameFlash DEF Concluded, Told, Accepted, HasAnswer
<1> QED BY <1>4, <1>5 DEF Concluded
------------------------------------------------------------------------------
LEMMA StillOurs ==
    ASSUME Work, others' # "since"
    PROVE  others' = others /\ ~(pc = "compare" /\ pc' = "erase")
BY DEF Work, Touched

\* What the client was told survives any step that leaves it and the sector alone.
LEMMA ToldStays ==
    ASSUME Told, UNCHANGED <<at, asks, result, told, flash>>, others' # "since" => others # "since"
    PROVE  Told'
BY SameFlash DEF Told, Accepted, HasAnswer

LEMMA QuietConcludes ==
    ASSUME ClientInv, IInv, Concluded, Work,
           GenerateKeys \/ BoxPayload \/ SignLoaded \/ ClearAuthorised
    PROVE  Concluded'
<1>1. UNCHANGED flash /\ pc' \notin {"off", "idle"} /\ job'.op = job.op
  BY DEF GenerateKeys, BoxPayload, SignLoaded, ClearAuthorised, Step, IInv, TypeOK, Job
<1>2. job.op = "write" => job'.rec = job.rec
  BY DEF GenerateKeys, BoxPayload, SignLoaded, ClearAuthorised, Step, IInv, TypeOK, Job,
         SigningHasTheKey
<1>3. pc' = "erase" /\ others' # "since" => job.op = "write"
  BY StillOurs DEF GenerateKeys, BoxPayload, SignLoaded, ClearAuthorised, Step, IInv,
                   WritingIsUnprotected
<1>4. UNCHANGED <<at, result, asks, told>>
  BY <1>1, WorkTells
<1>5. OwnHands' /\ OwnAnswer'
  BY <1>1, <1>2, <1>3, <1>4, StillOurs DEF Concluded, OwnHands, OwnAnswer, HasAnswer
<1>6. Told'
  BY <1>1, <1>4, StillOurs, ToldStays DEF Concluded
<1> QED BY <1>5, <1>6 DEF Concluded

\* A signature is made with the key of the record that is stored, and a refusal
\* means that none decrypts.
LEMMA SignTells ==
    ASSUME IInv, SignRefused \/ SignDone, reply'.status # 400, storage_writen(flash)
    PROVE  reply'.status = 200 /\ reply'.rec = Mine <=> storage_read(flash) = Mine
<1>0. Mine \in Record /\ Mine # Nothing
  BY ClientAssumption, StorageAssumption DEF Mine, Record
<1>1. CASE SignRefused
  <2>1. Loaded = Nothing /\ reply'.status = 503
    BY <1>1 DEF SignRefused, Answer
  <2>2. storage_read(flash) = Nothing
    BY <2>1 DEF Loaded
  <2> QED BY <1>0, <2>1, <2>2
<1>2. CASE SignDone
  <2>1. reply'.status = 200 /\ reply'.rec = job.rec /\ cache = job.rec /\ job.rec \in Record
    BY <1>2 DEF SignDone, Answer, IInv, SigningHasTheKey
  <2>2. cache = storage_read(flash)
    BY <2>1, StorageAssumption DEF IInv, CacheSound
  <2> QED BY <2>1, <2>2
<1> QED BY <1>1, <1>2

LEMMA EndConcludes ==
    ASSUME ClientInv, IInv, Concluded, Work,
           FlashFails \/ ClearDenied \/ SignRefused \/ SignDone
    PROVE  Concluded'
<1>1. UNCHANGED flash /\ pc' = "idle" /\ job'.op = "none" /\ asks' = asks /\ told' = told
  BY WorkTells DEF FlashFails, ClearDenied, SignRefused, SignDone, Answer, NoJob, Doing
<1>2. at' # "served" /\ (at' = "sent" => UNCHANGED <<at, result>>)
  BY <1>1, WorkTells
<1>3. OwnHands' /\ OwnAnswer'
  BY <1>1, <1>2 DEF Concluded, OwnHands, OwnAnswer
<1>4. Told'
  <2>1. CASE UNCHANGED <<at, result>>
    BY <1>1, <2>1, StillOurs, ToldStays DEF Concluded
  <2>2. CASE at = "served" /\ at' = "answered"
    <3>1. /\ result'.status = reply'.status /\ result'.rec = reply'.rec
          /\ asks = "sign" => reply'.status # 400
      BY <2>2, <1>1 DEF Work, Answered
    <3>2. CASE asks = "write"
      BY <1>1, <3>2 DEF Told
    <3>3. CASE asks = "sign"
      <4>1. job.op = "sign"
        BY <2>2, <3>3 DEF Concluded, OwnAnswer
      <4>2. SignRefused \/ SignDone
        BY <4>1 DEF FlashFails, ClearDenied, IInv, ErasureIsEntitled, WritingIsUnprotected
      <4>3. storage_writen(flash) => (Accepted' <=> storage_read(flash) = Mine)
        BY <3>1, <3>3, <4>2, SignTells DEF Accepted
      <4> QED BY <1>1, <3>3, <4>3, SameFlash DEF Told
    <3> QED BY <3>2, <3>3 DEF ClientInv, OwnHandler
  <2> QED BY <2>1, <2>2, WorkTells
<1> QED BY <1>3, <1>4 DEF Concluded
------------------------------------------------------------------------------
\* Once the client has its answer the sector can only change under a late request
\* of its own, which needs it unprovisioned: the client was never told otherwise.
LEMMA NeverTold ==
    ASSUME ClientInv, IInv, Concluded, others # "since", HasAnswer,
           job.op = "write", ~storage_writen(flash)
    PROVE  ~told
BY DEF Concluded, OwnHands, ClientInv, OwnWork

LEMMA FlashConcludes ==
    ASSUME ClientInv, IInv, Concluded, Work,
           EraseForWrite \/ EraseForClear \/ ProgramPage0 \/ ProgramPage1
    PROVE  Concluded'
<1>1. CASE EraseForClear
  <2>1. pc = "erase" /\ pc' = "idle" /\ job.op # "write" /\ job'.op = "none"
    BY <1>1 DEF EraseForClear, Answer, NoJob, Doing
  <2>2. others' = "since"
    BY <2>1, StillOurs DEF Work, Touched, Concluded, OwnHands
  <2>3. at' # "served" /\ (at' = "sent" => UNCHANGED <<at, result>>)
    BY <2>1, WorkTells
  <2>4. OwnAnswer'
    BY <2>3 DEF Concluded, OwnAnswer
  <2> QED BY <2>2, <2>4 DEF Concluded, OwnHands, Told
<1>2. CASE EraseForWrite \/ ProgramPage0
  <2>1. /\ pc' \in {"page0", "page1"} /\ UNCHANGED job
        /\ ~storage_writen(flash)'
    <3>1. CASE EraseForWrite
      BY <3>1, BlankSector DEF EraseForWrite, Step, storage_writen
    <3>2. CASE ProgramPage0
      <4>1. flash' = Programmed(Blank, Page0, Staged) /\ Staged \in Image
        BY <3>2, StagedImage DEF ProgramPage0, Step, IInv, WritingIsUnprotected
      <4>2. ~storage_writen(flash)'
        BY <4>1, FirstPage, StorageAssumption DEF storage_writen
      <4> QED BY <3>2, <4>2 DEF ProgramPage0, Step
    <3> QED BY <1>2, <3>1, <3>2
  <2>2. UNCHANGED <<at, result, asks, told>>
    BY <2>1, WorkTells
  <2>3. OwnHands' /\ OwnAnswer'
    BY <2>1, <2>2, StillOurs DEF Concluded, OwnHands, OwnAnswer, HasAnswer
  <2>4. Told'
    BY <2>1, <2>2, StillOurs DEF Concluded, Told
  <2> QED BY <2>3, <2>4 DEF Concluded
<1>3. CASE ProgramPage1
  <2>1. /\ pc' = "idle" /\ job.op = "write" /\ job'.op = "none" /\ ~storage_writen(flash)
        /\ flash' = Programmed(Programmed(Blank, Page0, Staged), Page1, Staged)
        /\ Staged \in Image /\ Staged.rec = job.rec
    BY <1>3, StagedImage DEF ProgramPage1, Answer, NoJob, Doing, IInv, WritingIsUnprotected, Staged
  <2>2. asks' = asks /\ told' = told /\ at' # "served" /\ (at' = "sent" => UNCHANGED <<at, result>>)
    BY <2>1, WorkTells
  <2>3. OwnHands' /\ OwnAnswer'
    BY <2>1, <2>2 DEF Concluded, OwnHands, OwnAnswer
  <2>4. Told'
    <3> SUFFICES ASSUME HasAnswer', asks' = "sign", others' # "since", told' PROVE FALSE
      BY DEF Told
    <3>1. others # "since"
      BY <2>1, StillOurs
    <3>2. CASE UNCHANGED <<at, result>>
      BY <2>1, <2>2, <3>1, <3>2, NeverTold DEF HasAnswer
    <3>3. CASE at = "served" /\ at' = "answered"
      BY <2>1, <2>2, <3>3 DEF Concluded, OwnAnswer
    <3> QED BY <3>2, <3>3, WorkTells
  <2> QED BY <2>3, <2>4 DEF Concluded
<1> QED BY <1>1, <1>2, <1>3

LEMMA PowerConcludes ==
    ASSUME AscendingPage, ClientInv, IInv, Concluded, PowerUp \/ Die
    PROVE  Concluded'
<1>1. CASE PowerUp
  <2>1. pc' = "idle" /\ UNCHANGED <<flash, job, at, asks, result, others, told>>
    BY <1>1 DEF PowerUp, Boot, clientVars
  <2>2. OwnHands' /\ OwnAnswer'
    BY <2>1 DEF Concluded, OwnHands, OwnAnswer, HasAnswer
  <2> QED BY <2>1, <2>2, ToldStays DEF Concluded
<1>2. CASE Die
  <2>1. /\ Crash /\ pc' = "off" /\ job'.op = "none" /\ UNCHANGED <<asks, others, told>>
        /\ at' = "ready" /\ (HasAnswer' => at = "ready" /\ UNCHANGED result)
    BY <1>2 DEF Die, Crash, NoJob, Doing, HasAnswer, NoResult
  <2>2. OwnHands' /\ OwnAnswer'
    BY <2>1 DEF Concluded, OwnHands, OwnAnswer
  <2>3. Told'
    <3> SUFFICES ASSUME HasAnswer', others # "since" PROVE Told'
      BY <2>1 DEF Told
    <3>1. at = "ready" /\ UNCHANGED <<at, result>> /\ HasAnswer
      BY <2>1 DEF HasAnswer
    <3>2. CASE job.op = "write"
      <4>1. ~storage_writen(flash)
        <5>1. pc \in {"entropy", "boxing", "erase", "page0", "page1"}
          BY <2>1, <3>2 DEF Crash, IInv, TypeOK, ErasureIsEntitled, SigningHasTheKey,
                            IdleHasNoJob, NoJob, Doing
        <5> QED BY <3>2, <5>1 DEF IInv, WritingIsUnprotected
      <4> QED BY <2>1, <3>1, <3>2, <4>1, NeverTold DEF Told
    <3>3. CASE job.op # "write"
      <4>1. pc \notin {"erase", "page0", "page1"}
        BY <3>3 DEF Concluded, OwnHands, IInv, WritingIsUnprotected
      <4>2. UNCHANGED flash
        BY <2>1, <4>1 DEF Crash, AfterCut
      <4> QED BY <2>1, <3>1, <4>2, ToldStays DEF Concluded
    <3> QED BY <3>2, <3>3
  <2> QED BY <2>2, <2>3 DEF Concluded
<1> QED BY <1>1, <1>2

LEMMA StepConcludes ==
    ASSUME AscendingPage, ClientInv, IInv, Concluded, [ClientNext]_<<vars, clientVars>>
    PROVE  Concluded'
<1>1. CASE UNCHANGED <<vars, clientVars>>
  <2>1. UNCHANGED <<flash, pc, job, at, asks, result, others, told>>
    BY <1>1 DEF vars, clientVars
  <2>2. OwnHands' /\ OwnAnswer'
    BY <2>1 DEF Concluded, OwnHands, OwnAnswer, HasAnswer
  <2> QED BY <2>1, <2>2, ToldStays DEF Concluded
<1>2. CASE Work
  BY <1>2, QuietConcludes, EndConcludes, FlashConcludes DEF Work, Continue
<1> QED BY <1>1, <1>2, MovesConclude, ServeConcludes, OthersConclude, PowerConcludes DEF ClientNext

\* README.md:75: on a provisioned board the acceptance check tells the client's
\* record from any other, for every set of records and any number of faults, as
\* long as nobody changes it again.
THEOREM ConclusionsHold ==
    ASSUME AscendingPage
    PROVE  ClientSpec => []ConclusionHolds
<1>1. ClientInit => Concluded
  BY DEF ClientInit, Init, NoJob, Doing, NoResult, Concluded, OwnHands, OwnAnswer, Told, HasAnswer
<1>2. Concluded => ConclusionHolds
  BY DEF Concluded, Told, ConclusionHolds, Concludes, HasAnswer
<1>3. ClientInv /\ IInv /\ [ClientNext]_<<vars, clientVars>> => ClientInv'
  BY ClientStep
<1>4. ClientInv /\ IInv /\ Concluded /\ [ClientNext]_<<vars, clientVars>> => Concluded'
  BY StepConcludes
<1>5. Spec => []IInv
  BY Invariance
<1> QED BY <1>1, <1>2, <1>3, <1>4, <1>5, StartsInvariant, ClientIsKeystore, PTL DEF ClientSpec
------------------------------------------------------------------------------
(* Diag: a death is reported under its step.                                   *)

\* Where the run is now, as StageOfDeath has it.
Here == [pc |-> pc, op |-> job.op]

\* The register holds a stage of the step in progress, and between two runs one
\* of the step the last one died in; what was captured at boot stays.
Marked ==
    /\ pc # "off" => stage \in StageOfDeath(Here)
    /\ pc = "off" /\ reset = "watchdog" => stage \in StageOfDeath(died)
    /\ DeathIsNamed

\* Whatever step a run died in, it left one of diag.h's stages.
LEMMA DeathHasStage == \A d : StageOfDeath(d) \subseteq Stage
BY DEF StageOfDeath, Stage, WriteStage, SignStage, Checking

LEMMA DiagStepIsStep == DiagNext => Next
<1> SUFFICES ASSUME DiagNext PROVE Next
  OBVIOUS
<1> USE DEF Next, Request, Continue, Write
<1>1. CASE DiagBoot
  BY <1>1 DEF DiagBoot
<1>2. CASE PowerCut \/ WatchdogReset
  BY <1>2 DEF PowerCut, WatchdogReset, Death
<1>3. CASE Unmarked
  BY <1>3 DEF Unmarked
<1>4. CASE MarkedRefusal
  BY <1>4 DEF MarkedRefusal
<1>5. CASE MarkedWrite
  BY <1>5 DEF MarkedWrite
<1>6. CASE MarkedClear
  BY <1>6 DEF MarkedClear
<1>7. CASE MarkedSign
  BY <1>7 DEF MarkedSign
<1> QED BY <1>1, <1>2, <1>3, <1>4, <1>5, <1>6, <1>7 DEF DiagNext

\* The calls of diag_stage() change nothing of what the keystore does.
LEMMA DiagIsKeystore == DiagSpec => Spec
<1>1. DiagInit => Init
  BY DEF DiagInit
<1>2. [DiagNext]_<<vars, diagVars>> => [Next]_vars
  BY DiagStepIsStep DEF vars
<1> QED BY <1>1, <1>2, PTL DEF DiagSpec, Spec
------------------------------------------------------------------------------
\* A step of a handler sets a stage or leaves every breadcrumb alone.
LEMMA StepMarks ==
    ASSUME IInv, Unmarked \/ MarkedRefusal \/ MarkedWrite \/ MarkedClear \/ MarkedSign
    PROVE  /\ pc # "off" /\ pc' # "off"
           /\ UNCHANGED diagVars \/ \E s \in Stage : diag_stage(s)
<1> USE DEF Enter, Step, Answer
<1>1. CASE Unmarked
  BY <1>1 DEF Unmarked, WriteRefused, ClearMalformed, ClearNothing, DebugClear, Info,
     Snapshot, FlashFails, EraseForClear, ProgramPage0, ClearDenied
<1>2. CASE MarkedRefusal
  <2>1. \A s \in {"write-received", "fields-ok", "pair-check", "sign-enter", "sign-key",
                  "sign-parse"} : s \in Stage
    BY DEF Stage, WriteStage, SignStage, Checking
  <2>2. CASE WriteMalformed
    BY <1>2, <2>1, <2>2 DEF MarkedRefusal, WriteMalformed, WriteMismatched, SignEmpty, SignRefused
  <2>3. CASE ~WriteMalformed
    BY <1>2, <2>1, <2>3 DEF MarkedRefusal, WriteMismatched, SignEmpty, SignRefused
  <2> QED BY <2>2, <2>3
<1>3. CASE MarkedWrite
  <2>1. \A s \in {"entropy", "boxing", "erase", "program", "done"} : s \in Stage
    BY DEF Stage, WriteStage
  <2> QED BY <1>3, <2>1 DEF MarkedWrite, Provision, GenerateKeys, BoxPayload, EraseForWrite,
                            ProgramPage1
<1>4. CASE MarkedClear
  BY <1>4 DEF MarkedClear, Clear, ClearAuthorised, Stage
<1>5. CASE MarkedSign
  BY <1>5 DEF MarkedSign, Sign, SignLoaded, SignDone, Stage, SignStage
<1> QED BY <1>1, <1>2, <1>3, <1>4, <1>5
------------------------------------------------------------------------------
\* A handler that returns leaves nothing that Marked speaks of.
LEMMA AnswerIsUnmarked ==
    ASSUME Marked, pc # "off", NEW op, NEW status, NEW rec, Answer(op, status, rec),
           UNCHANGED <<reset, boot_stage, died>>, stage' \in Stage
    PROVE  Marked'
<1>1. pc' = "idle" /\ job'.op = "none"
  BY DEF Answer, NoJob, Doing
<1>2. StageOfDeath(Here)' = Stage
  BY <1>1 DEF Here, StageOfDeath
<1>3. DeathIsNamed'
  BY <1>1 DEF Marked, DeathIsNamed, StageOfDeath
<1> QED BY <1>1, <1>2, <1>3 DEF Marked

\* A handler that goes on has to have set the stage it is in now.
LEMMA StepIsMarked ==
    ASSUME Marked, pc # "off", pc' # "off", UNCHANGED <<reset, boot_stage, died>>,
           stage' \in StageOfDeath(Here)'
    PROVE  Marked'
<1>1. DeathIsNamed'
  BY DEF Marked, DeathIsNamed, StageOfDeath
<1> QED BY <1>1 DEF Marked

LEMMA BootMarks == Marked /\ IInv /\ DiagBoot => Marked'
<1> SUFFICES ASSUME Marked, IInv, DiagBoot PROVE Marked'
  OBVIOUS
<1>1. /\ pc = "off" /\ pc' = "idle" /\ job' = job
      /\ boot_stage' = PreviousStage /\ stage' = "none"
      /\ reset' = reset /\ died' = died
  BY DEF DiagBoot, Boot
<1>2. job'.op = "none"
  BY <1>1 DEF IInv, IdleHasNoJob, NoJob, Doing
<1>3. StageOfDeath(Here)' = Stage /\ stage' \in Stage
  BY <1>1, <1>2 DEF Here, StageOfDeath, Stage
<1>4. StageOfDeath(died)' = StageOfDeath(died)
  BY <1>1 DEF StageOfDeath
<1>5. reset = "watchdog" => PreviousStage = stage /\ stage \in StageOfDeath(died)
  BY <1>1, DeathHasStage DEF PreviousStage, Marked
<1>6. DeathIsNamed'
  BY <1>1, <1>4, <1>5 DEF PreviousStage, DeathIsNamed
<1> QED BY <1>1, <1>3, <1>6 DEF Marked

\* What a step may have set on its way is among the stages of that step.
LEMMA OnTheWayIsHere == ASSUME IInv PROVE OnTheWay \subseteq StageOfDeath(Here)
<1>1. CASE pc = "idle"
  <2>1. job.op = "none"
    BY <1>1 DEF IInv, IdleHasNoJob, NoJob, Doing
  <2>2. StageOfDeath(Here) = Stage
    BY <1>1, <2>1 DEF StageOfDeath, Here
  <2>3. OnTheWay = {"sign-enter"} \cup IF storage_writen(flash) THEN {} ELSE Checking
    BY <1>1 DEF OnTheWay
  <2>4. "sign-enter" \in Stage /\ Checking \subseteq Stage
    BY DEF Stage, WriteStage, SignStage
  <2> QED BY <2>2, <2>3, <2>4
<1>2. CASE pc = "page1"
  <2>1. StageOfDeath(Here) = {"program", "done"}
    BY <1>2 DEF StageOfDeath, Here, IInv, WritingIsUnprotected
  <2>2. OnTheWay = IF flash' = Programmed(flash, Page1, Staged) THEN {"done"} ELSE {}
    BY <1>2 DEF OnTheWay
  <2>3. OnTheWay \subseteq {"done"}
    BY <2>2
  <2> QED BY <2>1, <2>3
<1>3. CASE pc \in {"key", "crypto"}
  <2>1. job.op = "sign"
    BY <1>3 DEF IInv, SigningHasTheKey
  <2> QED BY <1>3, <2>1 DEF OnTheWay, StageOfDeath, Here
<1>4. CASE pc \notin {"idle", "page1", "key", "crypto"}
  BY <1>4 DEF OnTheWay
<1> QED BY <1>1, <1>2, <1>3, <1>4

LEMMA DeathMarks == ASSUME Marked, IInv, NEW cause, Death(cause) PROVE Marked'
<1>1. /\ pc # "off" /\ pc' = "off" /\ reset' = cause
      /\ died'.pc = Here.pc /\ died'.op = Here.op
      /\ cause # "power" => stage' \in {stage} \cup OnTheWay
  BY DEF Death, Crash, Here
<1>2. StageOfDeath(died)' = StageOfDeath(Here)
  BY <1>1 DEF StageOfDeath
<1> QED BY <1>1, <1>2, OnTheWayIsHere DEF Marked, DeathIsNamed

LEMMA UnmarkedMarks == ASSUME Marked, IInv, Unmarked PROVE Marked'
<1>0. stage' = stage /\ reset' = reset /\ boot_stage' = boot_stage /\ died' = died
  BY DEF Unmarked, diagVars
<1>4. pc # "off" /\ pc' # "off"
  BY StepMarks
<1>5. stage' \in Stage
  BY <1>0, <1>4, DeathHasStage DEF Marked
<1>1. CASE WriteRefused \/ ClearMalformed \/ ClearNothing \/ Info \/ Snapshot \/ FlashFails
           \/ EraseForClear \/ ClearDenied
  <2>1. pc # "off" /\ \E op, status, rec : Answer(op, status, rec)
    BY <1>1 DEF WriteRefused, ClearMalformed, ClearNothing, Info, Snapshot, FlashFails,
                EraseForClear, ClearDenied
  <2> QED BY <1>0, <1>5, <2>1, AnswerIsUnmarked
<1>2. CASE DebugClear
  <2>1. pc = "idle" /\ pc' = "erase" /\ job'.op = "wipe"
    BY <1>2 DEF DebugClear, Enter, Doing
  <2>2. StageOfDeath(Here)' = Stage
    BY <2>1 DEF StageOfDeath, Here
  <2> QED BY <1>0, <1>5, <2>1, <2>2, StepIsMarked
<1>3. CASE ProgramPage0
  <2>1. pc = "page0" /\ pc' = "page1" /\ job' = job /\ job.op = "write"
    BY <1>3 DEF ProgramPage0, Step, IInv, WritingIsUnprotected
  <2>2. StageOfDeath(Here) = {"program"} /\ StageOfDeath(Here)' = {"program", "done"}
    BY <2>1 DEF StageOfDeath, Here
  <2>3. stage' = "program"
    BY <1>0, <2>1, <2>2 DEF Marked
  <2> QED BY <1>0, <2>1, <2>2, <2>3, StepIsMarked
<1> QED BY <1>1, <1>2, <1>3 DEF Unmarked

LEMMA RefusalMarks == ASSUME Marked, IInv, MarkedRefusal PROVE Marked'
<1>1. pc # "off" /\ \E op, status, rec : Answer(op, status, rec)
  BY DEF MarkedRefusal, WriteMalformed, WriteMismatched, SignEmpty, SignRefused
<1>2. UNCHANGED <<reset, boot_stage, died>>
  BY DEF MarkedRefusal, diag_stage, diagVars
<1>3. stage' \in Stage
  BY <1>1, StepMarks, DeathHasStage DEF Marked, diag_stage, diagVars
<1> QED BY <1>1, <1>2, <1>3, AnswerIsUnmarked

LEMMA WriteMarks == ASSUME Marked, IInv, MarkedWrite PROVE Marked'
<1>0. UNCHANGED <<reset, boot_stage, died>>
  BY DEF MarkedWrite, diag_stage
<1>1. CASE ProgramPage1 /\ diag_stage("done")
  <2>1. pc # "off" /\ \E op, status, rec : Answer(op, status, rec)
    BY <1>1 DEF ProgramPage1
  <2>2. stage' \in Stage
    BY <1>1 DEF diag_stage, Stage, WriteStage
  <2> QED BY <1>0, <2>1, <2>2, AnswerIsUnmarked
<1>2. CASE GenerateKeys /\ diag_stage("boxing")
  <2>1. pc = "entropy" /\ pc' = "boxing" /\ stage' = "boxing" /\ job'.op = "write"
    BY <1>2 DEF GenerateKeys, Step, diag_stage, IInv, TypeOK, Job, WritingIsUnprotected
  <2>2. StageOfDeath(Here)' = {"boxing"}
    BY <2>1 DEF StageOfDeath, Here
  <2> QED BY <1>0, <2>1, <2>2, StepIsMarked
<1>3. CASE BoxPayload /\ diag_stage("erase")
  <2>1. pc = "boxing" /\ pc' = "erase" /\ stage' = "erase" /\ job' = job
    BY <1>3 DEF BoxPayload, Step, diag_stage
  <2>2. job.op = "write"
    BY <2>1 DEF IInv, WritingIsUnprotected
  <2>3. StageOfDeath(Here)' = {"erase"}
    BY <2>1, <2>2 DEF StageOfDeath, Here
  <2> QED BY <1>0, <2>1, <2>3, StepIsMarked
<1>4. CASE EraseForWrite /\ diag_stage("program")
  <2>1. pc = "erase" /\ pc' = "page0" /\ stage' = "program" /\ job'.op = "write"
    BY <1>4 DEF EraseForWrite, Step, diag_stage
  <2>2. StageOfDeath(Here)' = {"program"}
    BY <2>1 DEF StageOfDeath, Here
  <2> QED BY <1>0, <2>1, <2>2, StepIsMarked
<1>5. CASE (\E rec \in Record, half \in Pub \cup {Bare} : Provision(rec, half)) /\ diag_stage("entropy")
  <2>1. pc = "idle" /\ pc' = "entropy" /\ stage' = "entropy" /\ job'.op = "write"
    BY <1>5 DEF Provision, Enter, Doing, diag_stage
  <2>2. StageOfDeath(Here)' = {"entropy"}
    BY <2>1 DEF StageOfDeath, Here
  <2> QED BY <1>0, <2>1, <2>2, StepIsMarked
<1> QED BY <1>1, <1>2, <1>3, <1>4, <1>5 DEF MarkedWrite

LEMMA ClearMarks == ASSUME Marked, IInv, MarkedClear PROVE Marked'
<1>1. CASE Clear /\ diag_stage("clear")
  <2>1. /\ pc = "idle" /\ pc' = "compare" /\ job'.op = "clear" /\ stage' = "clear"
        /\ UNCHANGED <<reset, boot_stage, died>>
    BY <1>1 DEF Clear, Enter, Doing, diag_stage
  <2>2. StageOfDeath(Here)' = {"clear"}
    BY <2>1 DEF StageOfDeath, Here
  <2> QED BY <2>1, <2>2, StepIsMarked
<1>2. CASE ClearAuthorised /\ UNCHANGED diagVars
  <2>1. /\ pc = "compare" /\ pc' = "erase" /\ job' = job
        /\ stage' = stage /\ UNCHANGED <<reset, boot_stage, died>>
    BY <1>2 DEF ClearAuthorised, Step, diagVars
  <2>2. job.op = "clear"
    BY <2>1 DEF IInv, ErasureIsEntitled
  <2>3. StageOfDeath(Here) = {"clear"} /\ StageOfDeath(Here)' = {"clear"}
    BY <2>1, <2>2 DEF StageOfDeath, Here
  <2>4. stage = "clear"
    BY <2>1, <2>3 DEF Marked
  <2> QED BY <2>1, <2>3, <2>4, StepIsMarked
<1> QED BY <1>1, <1>2 DEF MarkedClear

LEMMA SignMarks == ASSUME Marked, IInv, MarkedSign PROVE Marked'
<1>0. UNCHANGED <<reset, boot_stage, died>>
  BY DEF MarkedSign, diag_stage
<1>1. CASE Sign /\ diag_stage("sign-key")
  <2>1. pc = "idle" /\ pc' = "key" /\ job'.op = "sign" /\ stage' = "sign-key"
    BY <1>1 DEF Sign, Enter, Doing, diag_stage
  <2>2. StageOfDeath(Here)' = {"sign-key", "sign-parse"}
    BY <2>1 DEF StageOfDeath, Here
  <2> QED BY <1>0, <2>1, <2>2, StepIsMarked
<1>2. CASE SignLoaded /\ diag_stage("sign-crypto")
  <2>1. /\ pc = "key" /\ pc' = "crypto" /\ stage' = "sign-crypto"
        /\ job' = [job EXCEPT !.rec = Loaded] /\ job \in Job
    BY <1>2 DEF SignLoaded, Step, diag_stage, IInv, TypeOK
  <2>2. job'.op = "sign"
    BY <2>1 DEF IInv, SigningHasTheKey, Job
  <2>3. StageOfDeath(Here)' = {"sign-crypto", "sign-reply", "sign-done"}
    BY <2>1, <2>2 DEF StageOfDeath, Here
  <2> QED BY <1>0, <2>1, <2>3, StepIsMarked
<1>3. CASE SignDone /\ diag_stage("sign-done")
  <2>1. pc # "off" /\ \E op, status, rec : Answer(op, status, rec)
    BY <1>3 DEF SignDone
  <2>2. stage' \in Stage
    BY <1>3 DEF diag_stage, Stage, SignStage
  <2> QED BY <1>0, <2>1, <2>2, AnswerIsUnmarked
<1> QED BY <1>1, <1>2, <1>3 DEF MarkedSign
------------------------------------------------------------------------------
\* README "Troubleshooting": roman.last_stage is the step a watchdog reset hit.
THEOREM StageIsReported == DiagSpec => []DeathIsNamed
<1>1. DiagInit => Marked
  BY DEF DiagInit, Init, Marked, DeathIsNamed
<1>2. Marked /\ IInv /\ [DiagNext]_<<vars, diagVars>> => Marked'
  <2> SUFFICES ASSUME Marked, IInv, [DiagNext]_<<vars, diagVars>> PROVE Marked'
    OBVIOUS
  <2>1. CASE UNCHANGED <<vars, diagVars>>
    BY <2>1 DEF vars, diagVars, Marked, DeathIsNamed, Here, StageOfDeath
  <2>2. CASE DiagBoot \/ PowerCut \/ WatchdogReset
    BY <2>2, BootMarks, DeathMarks DEF PowerCut, WatchdogReset
  <2>3. CASE Unmarked \/ MarkedRefusal \/ MarkedWrite \/ MarkedClear \/ MarkedSign
    BY <2>3, UnmarkedMarks, RefusalMarks, WriteMarks, ClearMarks, SignMarks
  <2> QED BY <2>1, <2>2, <2>3 DEF DiagNext
<1>3. Marked => DeathIsNamed
  BY DEF Marked
<1> QED BY <1>1, <1>2, <1>3, DiagIsKeystore, Invariance, PTL DEF DiagSpec
------------------------------------------------------------------------------
\* A register that says something was written by this run, and between two runs
\* by the one that just ended.
Fresh ==
    /\ pc # "off" /\ ~marked => stage = "none"
    /\ pc = "off" /\ reset = "watchdog" /\ ~died.marked => stage = "none"
    /\ NoStaleStage

\* diag.c:32: no boot reports the stage of a run that was already reported.
THEOREM StageIsReportedOnce == DiagSpec => []NoStaleStage
<1>1. DiagInit => Fresh
  BY DEF DiagInit, Init, Fresh, NoStaleStage
<1>2. Fresh /\ IInv /\ [DiagNext]_<<vars, diagVars>> => Fresh'
  <2> SUFFICES ASSUME Fresh, IInv, [DiagNext]_<<vars, diagVars>> PROVE Fresh'
    OBVIOUS
  <2> USE DEF Fresh, NoStaleStage
  <2>1. CASE UNCHANGED <<vars, diagVars>>
    BY <2>1 DEF vars, diagVars
  <2>2. CASE DiagBoot
    <3>1. pc = "off" /\ pc' = "idle" /\ stage' = "none" /\ UNCHANGED <<reset, died>>
      BY <2>2 DEF DiagBoot, Boot
    <3>2. boot_stage' = PreviousStage
      BY <2>2 DEF DiagBoot
    <3> QED BY <3>1, <3>2 DEF PreviousStage
  <2>3. CASE PowerCut \/ WatchdogReset
    <3>1. PICK cause : Death(cause)
      BY <2>3 DEF PowerCut, WatchdogReset
    <3>2. pc # "off" /\ pc' = "off" /\ reset' = cause
      BY <3>1 DEF Death, Crash
    <3>3. PICK last \in {stage} \cup OnTheWay :
            /\ stage' = IF cause = "power" THEN "junk" ELSE last
            /\ died'.marked = (marked \/ last \in OnTheWay)
      BY <3>1 DEF Death
    <3>4. cause = "watchdog" => stage' = last
      BY <3>3
    <3>5. ~died'.marked => ~marked /\ last = stage
      BY <3>3, Zenon
    <3> QED BY <3>2, <3>4, <3>5
  <2>4. CASE Unmarked \/ MarkedRefusal \/ MarkedWrite \/ MarkedClear \/ MarkedSign
    <3>1. pc # "off" /\ pc' # "off"
      BY <2>4, StepMarks
    <3>2. UNCHANGED diagVars \/ \E s \in Stage : diag_stage(s)
      BY <2>4, StepMarks
    <3> QED BY <3>1, <3>2 DEF diagVars, diag_stage
  <2> QED BY <2>1, <2>2, <2>3, <2>4 DEF DiagNext
<1>3. Fresh => NoStaleStage
  BY DEF Fresh
<1> QED BY <1>1, <1>2, <1>3, DiagIsKeystore, Invariance, PTL DEF DiagSpec
==============================================================================
