---------------------------- MODULE KeystoreProofs ---------------------------
(***************************************************************************)
(* The safety of the provisioning store, for any number of records, keys   *)
(* and device ids, with and without the bench wipe.  IInv is the inductive *)
(* invariant: beside the type invariant and the two properties of interest *)
(* it says what each step of a handler may rely on.                        *)
(***************************************************************************)
EXTENDS Keystore, TLAPS

(* Facts about the flash images of Storage: what a blank, a half programmed, a *)
(* fully programmed and a partly erased sector look like to its readers.       *)

\* An erased sector holds no record and carries no stored flag.
LEMMA BlankSector ==
    /\ Blank \in [Field -> Cell]
    /\ ~storage_writen(Blank) /\ ~Opens(Blank)
    /\ storage_read(Blank) = Nothing
  BY StorageAssumption
     DEF Blank, Field, Page0, Page1, Cell, storage_writen, Opens, storage_available,
         storage_read

\* Programming is total on sectors, and the first page never sets the flag.
LEMMA ProgrammedSector ==
    ASSUME NEW f \in [Field -> Cell], NEW img \in Image, NEW page \in SUBSET Field
    PROVE  Programmed(f, page, img) \in [Field -> Cell]
  BY DEF Programmed, Cell

\* After the first page of a blank sector, only that page holds the image.
LEMMA FirstPage ==
    ASSUME NEW img \in Image
    PROVE  LET f == Programmed(Blank, Page0, img) IN
           /\ f["magic"] = img /\ f["len"] = img /\ f["keys"] = img
           /\ f["box"] = Erased /\ f["marker"] = Erased
  BY DEF Programmed, Blank, Field, Page0, Page1

\* Both pages on a blank sector: the record reads back exactly and is flagged.
LEMMA FullSector ==
    ASSUME NEW img \in Image
    PROVE  LET f == Programmed(Programmed(Blank, Page0, img), Page1, img) IN
           /\ storage_writen(f) /\ Opens(f)
           /\ storage_read(f) = img.rec
  BY FirstPage
     DEF Programmed, Field, Page0, Page1, storage_writen, Opens,
         storage_available, storage_read

\* A cut-off erase leaves a sector in which no field gained a valid content.
LEMMA CutErase ==
    ASSUME NEW f \in [Field -> Cell], NEW g \in PartlyErased(f)
    PROVE  /\ g \in [Field -> Cell]
           /\ \A c \in Field : g[c] = f[c] \/ g[c] \notin Image
  BY StorageAssumption DEF PartlyErased, Garbage, Cell

\* A cut-off page program touches no other page and leaves a typed sector.
LEMMA CutProgram ==
    ASSUME NEW f \in [Field -> Cell], NEW img \in Image, NEW page \in SUBSET Field,
           NEW g \in PartlyProgrammed(f, page, img)
    PROVE  /\ g \in [Field -> Cell]
           /\ \A c \in Field \ page : g[c] = f[c]
  BY DEF PartlyProgrammed, Cell

\* storage.c:21: on a part that programs a page in address order, a cut while
\* the second page lands cannot leave the flag without the ciphertext.
LEMMA MarkerIsLast ==
    ASSUME AscendingPage, NEW img \in Image,
           NEW g \in PartlyProgrammed(Programmed(Blank, Page0, img), Page1, img),
           storage_writen(g)
    PROVE  Opens(g) /\ storage_read(g) = img.rec
<1> DEFINE f == Programmed(Blank, Page0, img)
<1>1. f \in [Field -> Cell] /\ f["box"] = Erased /\ f["marker"] = Erased
           /\ f["magic"] = img /\ f["len"] = img /\ f["keys"] = img
  BY BlankSector, ProgrammedSector, FirstPage DEF Field
<1>2. g["magic"] = img /\ g["len"] = img /\ g["keys"] = img
  BY <1>1, CutProgram DEF Field, Page0, Page1
<1>3. Programmed(f, Page1, img)["box"] = img
  BY <1>1 DEF Programmed, Field, Page1
<1>4. g["marker"] # f["marker"]
  BY <1>1, StorageAssumption DEF storage_writen
<1>5. g["box"] = img
  <2>1. PICK m : /\ g = [c \in Field |-> IF c \in Page1 THEN m[c] ELSE f[c]]
                 /\ \A c, d \in Page1 : Before(c, d) /\ m[d] # f[d] 
                       => m[c] = Programmed(f, Page1, img)[c]
    BY DEF PartlyProgrammed
  <2>2. g["marker"] = m["marker"] /\ g["box"] = m["box"]
    BY <2>1 DEF Field, Page1
  <2>3. Before("box", "marker") /\ "box" \in Page1 /\ "marker" \in Page1
    BY DEF Before, Page1
  <2> QED BY <2>1, <2>2, <2>3, <1>3, <1>4
<1> QED BY <1>2, <1>5 DEF Opens, storage_available, storage_read
------------------------------------------------------------------------------
(* The invariant of Keystore.                                                  *)

LEMMA StagedImage ==
    ASSUME job.box \in BoxKey, job.rec \in Record
    PROVE  Staged \in Image
  BY DEF Staged, Image

\* What keystore_load() hands out, and what it leaves in the cache.
LEMMA LoadedSound ==
    ASSUME TypeOK, CacheSound
    PROVE  /\ Loaded \in Record \cup {Nothing}
           /\ Loaded # Nothing /\ (storage_writen(flash) \/ Opens(flash))
                 => Loaded = storage_read(flash)
           /\ storage_writen(flash) /\ Loaded # Nothing => Opens(flash)
<1>1. storage_read(flash) \in Record \cup {Nothing}
  BY DEF TypeOK, storage_read, Opens, Image, Field, Page0, Page1
<1>2. storage_read(flash) # Nothing => Opens(flash)
  BY DEF storage_read
<1> QED BY <1>1, <1>2 DEF Loaded, TypeOK, CacheSound

\* Every sector an interrupted handler can leave is a sector.
LEMMA AfterCutType ==
    ASSUME IInv
    PROVE  AfterCut \subseteq [Field -> Cell]
<1>1. flash \in [Field -> Cell]
  BY DEF IInv, TypeOK
<1>2. pc \in {"page0", "page1"} => Staged \in Image
  BY StagedImage DEF IInv, WritingIsUnprotected
<1>3. Page0 \in SUBSET Field /\ Page1 \in SUBSET Field
  BY DEF Field
<1> QED BY <1>1, <1>2, <1>3, CutErase, CutProgram, BlankSector DEF AfterCut

LEMMA InitIInv == Init => IInv
<1> SUFFICES ASSUME Init PROVE IInv
  OBVIOUS
<1>1. TypeOK
  BY BlankSector DEF Init, TypeOK, NoJob, Doing, NoReply, Job, Reply, Op, Status
<1> QED
  BY <1>1 DEF Init, IInv, CacheSound, AnswersTrue, WritingIsUnprotected, ErasureIsEntitled,
              SigningHasTheKey, IdleHasNoJob, NoReply
------------------------------------------------------------------------------
\* Boot is the only step that fills the cache without a request.
LEMMA BootStep == IInv /\ Boot => IInv'
<1> SUFFICES ASSUME IInv, Boot PROVE IInv'
  OBVIOUS
<1>1. storage_read(flash) \in Record \cup {Nothing}
  BY DEF IInv, TypeOK, storage_read, Opens, Image, Field, Page0, Page1
<1>2. storage_read(flash) # Nothing => Opens(flash)
  BY DEF storage_read
<1>3. TypeOK'
  BY <1>1 DEF IInv, Boot, TypeOK
<1>4. CacheSound'
  BY <1>2 DEF Boot, CacheSound, storage_writen, Opens, storage_available, storage_read
<1>5. AnswersTrue'
  BY DEF IInv, Boot, IdleHasNoJob, AnswersTrue, NoReply
<1>6. (WritingIsUnprotected /\ ErasureIsEntitled /\ SigningHasTheKey /\ IdleHasNoJob)'
  BY DEF IInv, Boot, WritingIsUnprotected, ErasureIsEntitled, SigningHasTheKey, IdleHasNoJob
<1> QED BY <1>3, <1>4, <1>5, <1>6 DEF IInv
\* Idle handlers that answer at once: the flash is unchanged, the cache is
\* either unchanged or loaded, and the answer is true of the flash.
LEMMA AnswerStep ==
    ASSUME IInv, pc # "off", UNCHANGED flash, cache' \in {cache, Loaded},
           NEW op \in Op \ {"none"}, NEW status \in Status \ {0}, NEW rec \in Record \cup {Nothing},
           Answer(op, status, rec),
           op = "write" => status # 200 /\ (status = 403 <=> storage_writen(flash)),
           op \in {"clear", "wipe"} /\ status = 200 => ~storage_writen(flash),
           op = "sign" /\ status = 200 /\ storage_writen(flash) => rec = storage_read(flash)
    PROVE  IInv'
<1>1. /\ Loaded \in Record \cup {Nothing}
      /\ Loaded # Nothing /\ (storage_writen(flash) \/ Opens(flash))
            => Loaded = storage_read(flash)
  BY LoadedSound DEF IInv
<1>2. storage_writen(flash)' = storage_writen(flash) /\ Opens(flash)' = Opens(flash)
        /\ storage_read(flash)' = storage_read(flash)
  BY DEF storage_writen, Opens, storage_available, storage_read
<1>3. TypeOK'
  BY <1>1 DEF IInv, TypeOK, Answer, NoJob, Doing, Job, Op, Reply
<1>4. CacheSound'
  BY <1>1, <1>2 DEF IInv, CacheSound
<1>5. AnswersTrue'
  BY <1>2 DEF AnswersTrue, Answer
<1>6. (WritingIsUnprotected /\ ErasureIsEntitled /\ SigningHasTheKey /\ IdleHasNoJob)'
  BY DEF Answer, WritingIsUnprotected, ErasureIsEntitled, SigningHasTheKey, IdleHasNoJob
<1> QED BY <1>3, <1>4, <1>5, <1>6 DEF IInv
\* Every handler that answers at once, or gives up, answers the truth.
LEMMA AnsweringSteps ==
    ASSUME IInv,
           \/ WriteRefused \/ WriteMalformed
           \/ \E rec \in Record, half \in Pub \cup {Bare} : WriteMismatched(rec, half)
           \/ ClearMalformed \/ ClearNothing \/ ClearDenied
           \/ SignEmpty \/ SignRefused \/ SignDone \/ Info \/ Snapshot \/ FlashFails
    PROVE  IInv'
<1>1. Loaded \in Record \cup {Nothing}
  BY LoadedSound DEF IInv
<1>2. 0 \in Status /\ 200 \in Status /\ {400, 403, 413, 500, 503} \subseteq Status \ {0}
  BY DEF Status
<1> USE <1>2 DEF Op
<1>3. CASE WriteRefused
  BY <1>3, AnswerStep DEF WriteRefused
<1>4. CASE WriteMalformed
  BY <1>4, AnswerStep DEF WriteMalformed
<1>5. CASE \E rec \in Record, half \in Pub \cup {Bare} : WriteMismatched(rec, half)
  BY <1>5, AnswerStep DEF WriteMismatched
<1>6. CASE ClearMalformed
  BY <1>6, AnswerStep DEF ClearMalformed
<1>7. CASE ClearNothing
  BY <1>7, AnswerStep DEF ClearNothing
<1>8. CASE ClearDenied
  BY <1>8, AnswerStep DEF ClearDenied
<1>9. CASE SignEmpty
  BY <1>9, AnswerStep DEF SignEmpty
<1>10. CASE SignRefused
  BY <1>10, AnswerStep DEF SignRefused
<1>11. CASE SignDone
  <2>1. job.rec \in Record /\ cache = job.rec
    BY <1>11 DEF SignDone, IInv, SigningHasTheKey
  <2>2. storage_writen(flash) => job.rec = storage_read(flash)
    BY <2>1, StorageAssumption DEF IInv, CacheSound
  <2> QED BY <1>11, <2>1, <2>2, AnswerStep DEF SignDone
<1>12. CASE Info
  BY <1>1, <1>12, AnswerStep DEF Info
<1>13. CASE Snapshot
  BY <1>1, <1>13, AnswerStep DEF Snapshot
<1>14. CASE FlashFails
  <2>1. job.op \in {"write", "clear", "wipe"}
    BY <1>14 DEF FlashFails, IInv, WritingIsUnprotected, ErasureIsEntitled
  <2>2. job.op = "write" => ~storage_writen(flash)
    BY <1>14 DEF FlashFails, IInv, WritingIsUnprotected
  <2> QED BY <1>14, <2>1, <2>2, AnswerStep DEF FlashFails
<1> QED BY <1>3, <1>4, <1>5, <1>6, <1>7, <1>8, <1>9, <1>10, <1>11, <1>12, <1>13, <1>14
------------------------------------------------------------------------------
\* A request is taken up: nothing but pc and the job changes.
LEMMA EnteringSteps ==
    ASSUME IInv,
           \/ \E rec \in Record, half \in Pub \cup {Bare} : Provision(rec, half)
           \/ Clear \/ DebugClear \/ Sign
    PROVE  IInv'
<1> USE DEF Enter, Doing, NoJob, NoReply
<1>1. UNCHANGED <<flash, cache>> /\ reply' = NoReply /\ pc' # "off"
  BY DEF Provision, Clear, DebugClear, Sign
<1>2. TypeOK'
  BY <1>1 DEF IInv, TypeOK, Provision, Clear, DebugClear, Sign, Job, Reply, Op, Status
<1>3. CacheSound' /\ AnswersTrue'
  BY <1>1 DEF IInv, CacheSound, AnswersTrue, storage_writen, Opens, storage_available,
              storage_read
<1>4. WritingIsUnprotected'
  BY <1>1 DEF WritingIsUnprotected, Provision, Clear, DebugClear, Sign, storage_writen
<1>5. ErasureIsEntitled'
  BY <1>1 DEF ErasureIsEntitled, Provision, Clear, DebugClear, Sign, storage_writen
<1>6. SigningHasTheKey'
  BY DEF SigningHasTheKey, Provision, Clear, DebugClear, Sign
<1>7. IdleHasNoJob'
  BY <1>1 DEF IdleHasNoJob, Provision, Clear, DebugClear, Sign
<1> QED BY <1>2, <1>3, <1>4, <1>5, <1>6, <1>7 DEF IInv

\* Steps inside a handler that leave the sector alone.
LEMMA QuietSteps ==
    ASSUME IInv, GenerateKeys \/ BoxPayload \/ ClearAuthorised \/ SignLoaded
    PROVE  IInv'
<1> USE DEF Step
<1>1. /\ Loaded \in Record \cup {Nothing}
      /\ Loaded # Nothing /\ (storage_writen(flash) \/ Opens(flash))
            => Loaded = storage_read(flash)
      /\ storage_writen(flash) /\ Loaded # Nothing => Opens(flash)
  BY LoadedSound DEF IInv
<1>2. /\ UNCHANGED <<flash, reply>> /\ cache' \in {cache, Loaded}
      /\ pc \notin {"off", "idle"} /\ pc' \notin {"off", "idle"}
  BY DEF GenerateKeys, BoxPayload, ClearAuthorised, SignLoaded
<1>3. storage_writen(flash)' = storage_writen(flash) /\ Opens(flash)' = Opens(flash)
        /\ storage_read(flash)' = storage_read(flash)
  BY <1>2 DEF storage_writen, Opens, storage_available, storage_read
<1>4. TypeOK'
  <2>1. job' \in Job
    BY <1>1 DEF IInv, TypeOK, GenerateKeys, BoxPayload, ClearAuthorised, SignLoaded, Job
  <2> QED
    BY <1>1, <1>2, <2>1 DEF IInv, TypeOK, GenerateKeys, BoxPayload, ClearAuthorised, SignLoaded
<1>5. CacheSound'
  BY <1>1, <1>2, <1>3 DEF IInv, CacheSound
<1>6. AnswersTrue'
  BY <1>2 DEF IInv, AnswersTrue, IdleHasNoJob, NoReply
<1>7. WritingIsUnprotected'
  BY <1>2, <1>3 DEF IInv, TypeOK, Job, WritingIsUnprotected, ErasureIsEntitled, GenerateKeys,
                    BoxPayload, ClearAuthorised, SignLoaded
<1>8. ErasureIsEntitled'
  BY <1>1, <1>2, <1>3 DEF IInv, WritingIsUnprotected, ErasureIsEntitled, GenerateKeys,
                          BoxPayload, ClearAuthorised, SignLoaded
<1>9. SigningHasTheKey'
  BY <1>1, <1>2 DEF IInv, TypeOK, Job, SigningHasTheKey, GenerateKeys, BoxPayload,
                    ClearAuthorised, SignLoaded
<1>10. IdleHasNoJob'
  <2>1. job' # NoJob
    BY DEF IInv, TypeOK, Job, WritingIsUnprotected, ErasureIsEntitled, SigningHasTheKey,
           GenerateKeys, BoxPayload, ClearAuthorised, SignLoaded, NoJob, Doing
  <2> QED BY <1>2, <2>1 DEF IInv, IdleHasNoJob
<1> QED BY <1>4, <1>5, <1>6, <1>7, <1>8, <1>9, <1>10 DEF IInv
------------------------------------------------------------------------------
\* The flash operations of storage_write() and storage_clear().
LEMMA EraseStep ==
    ASSUME IInv, EraseForWrite \/ EraseForClear
    PROVE  IInv'
<1> USE DEF Step
<1>1. /\ flash' = Blank /\ flash' \in [Field -> Cell]
      /\ ~storage_writen(flash)' /\ ~Opens(flash)'
  BY BlankSector DEF EraseForWrite, EraseForClear, storage_writen, Opens, storage_available
<1>2. CASE EraseForWrite
  <2>1. job.op = "write" /\ job.rec \in Record /\ job.box \in BoxKey /\ reply = NoReply
    BY <1>2 DEF EraseForWrite, IInv, WritingIsUnprotected, IdleHasNoJob
  <2>2. TypeOK' /\ CacheSound' /\ AnswersTrue'
    BY <1>1, <1>2, <2>1 DEF EraseForWrite, IInv, TypeOK, CacheSound, AnswersTrue, NoReply
  <2>3. WritingIsUnprotected' /\ ErasureIsEntitled' /\ SigningHasTheKey'
    BY <1>1, <1>2, <2>1 DEF EraseForWrite, WritingIsUnprotected, ErasureIsEntitled,
                            SigningHasTheKey
  <2>4. IdleHasNoJob'
    BY <1>2, <2>1 DEF EraseForWrite, IdleHasNoJob, NoJob, Doing
  <2> QED BY <2>2, <2>3, <2>4 DEF IInv
<1>3. CASE EraseForClear
  <2>1. TypeOK'
    BY <1>1, <1>3 DEF EraseForClear, IInv, TypeOK, Answer, NoJob, Doing, Job, Op, Reply, Status
  <2>2. CacheSound' /\ AnswersTrue'
    BY <1>1, <1>3 DEF EraseForClear, CacheSound, AnswersTrue, Answer
  <2>3. (WritingIsUnprotected /\ ErasureIsEntitled /\ SigningHasTheKey /\ IdleHasNoJob)'
    BY <1>3 DEF EraseForClear, Answer, WritingIsUnprotected, ErasureIsEntitled,
                SigningHasTheKey, IdleHasNoJob
  <2> QED BY <2>1, <2>2, <2>3 DEF IInv
<1> QED BY <1>2, <1>3

LEMMA ProgramPage0Step ==
    ASSUME IInv, ProgramPage0
    PROVE  IInv'
<1> USE DEF Step
<1>1. /\ job.op = "write" /\ job.rec \in Record /\ job.box \in BoxKey
      /\ reply = NoReply /\ flash = Blank
  BY DEF ProgramPage0, IInv, WritingIsUnprotected, IdleHasNoJob
<1>2. Staged \in Image /\ Staged' = Staged
  BY <1>1, StagedImage DEF ProgramPage0, Staged
<1>3. flash' \in [Field -> Cell] /\ flash'["marker"] = Erased /\ flash'["box"] = Erased
  BY <1>1, <1>2, FirstPage, BlankSector, ProgrammedSector DEF ProgramPage0, Field
<1>4. ~storage_writen(flash)' /\ ~Opens(flash)'
  BY <1>3, StorageAssumption DEF storage_writen, Opens
<1>5. TypeOK' /\ CacheSound' /\ AnswersTrue'
  BY <1>1, <1>3, <1>4 DEF ProgramPage0, IInv, TypeOK, CacheSound, AnswersTrue, NoReply
<1>6. WritingIsUnprotected' /\ ErasureIsEntitled' /\ SigningHasTheKey'
  BY <1>1, <1>2, <1>4 DEF ProgramPage0, WritingIsUnprotected, ErasureIsEntitled, SigningHasTheKey
<1>7. IdleHasNoJob'
  BY <1>1 DEF ProgramPage0, IdleHasNoJob, NoJob, Doing
<1> QED BY <1>5, <1>6, <1>7 DEF IInv

LEMMA ProgramPage1Step ==
    ASSUME IInv, ProgramPage1
    PROVE  IInv'
<1>1. job.rec \in Record /\ job.box \in BoxKey /\ flash = Programmed(Blank, Page0, Staged)
  BY DEF ProgramPage1, IInv, WritingIsUnprotected
<1>2. Staged \in Image /\ Staged.rec = job.rec
  BY <1>1, StagedImage DEF Staged
<1>3. /\ flash' \in [Field -> Cell]
      /\ storage_writen(flash') /\ Opens(flash') /\ storage_read(flash') = job.rec
  <2>1. flash' = Programmed(Programmed(Blank, Page0, Staged), Page1, Staged)
    BY <1>1 DEF ProgramPage1
  <2>2. flash \in [Field -> Cell] /\ Page1 \in SUBSET Field
    BY DEF IInv, TypeOK, Field
  <2> QED BY <1>1, <1>2, <2>1, <2>2, FullSector, ProgrammedSector
<1>4. TypeOK'
  BY <1>1, <1>3 DEF ProgramPage1, IInv, TypeOK, Answer, NoJob, Doing, Job, Op, Reply, Status
<1>5. CacheSound' /\ AnswersTrue'
  BY <1>1, <1>3 DEF ProgramPage1, CacheSound, AnswersTrue, Answer
<1>6. (WritingIsUnprotected /\ ErasureIsEntitled /\ SigningHasTheKey /\ IdleHasNoJob)'
  BY DEF ProgramPage1, Answer, WritingIsUnprotected, ErasureIsEntitled, SigningHasTheKey,
         IdleHasNoJob
<1> QED BY <1>4, <1>5, <1>6 DEF IInv

\* Losing power at any point keeps the invariant: only flash survives.
LEMMA CrashStep ==
    ASSUME IInv, Crash
    PROVE  IInv'
<1>1. flash' \in [Field -> Cell]
  BY AfterCutType DEF Crash
<1>2. TypeOK'
  BY <1>1 DEF Crash, TypeOK, NoJob, Doing, NoReply, Job, Op, Reply, Status
<1>3. CacheSound' /\ AnswersTrue'
  BY DEF Crash, CacheSound, AnswersTrue, NoReply
<1>4. (WritingIsUnprotected /\ ErasureIsEntitled /\ SigningHasTheKey /\ IdleHasNoJob)'
  BY DEF Crash, WritingIsUnprotected, ErasureIsEntitled, SigningHasTheKey, IdleHasNoJob
<1> QED BY <1>2, <1>3, <1>4 DEF IInv

LEMMA StutterStep ==
    ASSUME IInv, UNCHANGED vars
    PROVE  IInv'
  BY DEF vars, IInv, TypeOK, CacheSound, AnswersTrue, WritingIsUnprotected, ErasureIsEntitled,
         SigningHasTheKey, IdleHasNoJob, storage_writen, Opens, storage_available,
         storage_read, Staged

LEMMA NextIInv == IInv /\ [Next]_vars => IInv'
<1> SUFFICES ASSUME IInv, [Next]_vars PROVE IInv'
  OBVIOUS
<1>1. CASE Boot
  BY <1>1, BootStep
<1>2. CASE Request
  BY <1>2, AnsweringSteps, EnteringSteps DEF Request, Write
<1>3. CASE Continue
  BY <1>3, AnsweringSteps, QuietSteps, EraseStep, ProgramPage0Step, ProgramPage1Step
     DEF Continue
<1>4. CASE Crash
  BY <1>4, CrashStep
<1>5. CASE UNCHANGED vars
  BY <1>5, StutterStep
<1> QED BY <1>1, <1>2, <1>3, <1>4, <1>5 DEF Next
------------------------------------------------------------------------------
\* The inductive invariant, and with it types, the cache and the answers.
THEOREM Invariance == Spec => []IInv
  BY InitIInv, NextIInv, PTL DEF Spec

\* Type correctness of the keystore and its flash.
THEOREM TypeCorrect == Spec => []TypeOK
<1>1. IInv => TypeOK
  BY DEF IInv
<1> QED BY <1>1, Invariance, PTL

\* keystore.c:12: the RAM cache never disagrees with a record that decrypts and
\* never stands in for a flagged one that does not.
THEOREM CacheCoherence == Spec => []CacheSound
<1>1. IInv => CacheSound
  BY DEF IInv
<1> QED BY <1>1, Invariance, PTL

\* What POST /write, /clear, /sign and the bench wipe answer is true of flash.
THEOREM Truthfulness == Spec => []AnswersTrue
<1>1. IInv => AnswersTrue
  BY DEF IInv
<1> QED BY <1>1, Invariance, PTL
------------------------------------------------------------------------------
\* A cut of provisioning that leaves the flag set leaves the record, too.
LEMMA CutIsClean ==
    ASSUME AscendingPage, IInv, Crash, job.op = "write", storage_writen(flash')
    PROVE  ~storage_writen(flash) /\ storage_read(flash') = job.rec
<1>1. pc \in {"entropy", "boxing", "erase", "page0", "page1"}
  BY DEF Crash, IInv, TypeOK, ErasureIsEntitled, SigningHasTheKey, IdleHasNoJob, NoJob, Doing
<1>2. ~storage_writen(flash) /\ job.rec \in Record
  BY <1>1 DEF IInv, WritingIsUnprotected
<1>3. flash' \in AfterCut /\ flash \in [Field -> Cell]
  BY DEF Crash, IInv, TypeOK
<1>4. CASE pc \in {"entropy", "boxing"}
  BY <1>2, <1>3, <1>4 DEF AfterCut
<1>5. CASE pc = "erase"
  BY <1>2, <1>3, <1>5, CutErase, BlankSector DEF AfterCut, storage_writen, Field, Page1
<1>6. CASE pc = "page0"
  <2>1. Staged \in Image
    BY <1>2, <1>6, StagedImage DEF IInv, WritingIsUnprotected
  <2>2. flash'["marker"] = flash["marker"]
    BY <1>3, <1>6, <2>1, CutProgram DEF AfterCut, Field, Page0, Page1
  <2> QED BY <1>2, <2>2 DEF storage_writen
<1>7. CASE pc = "page1"
  <2>1. Staged \in Image /\ Staged.rec = job.rec /\ flash = Programmed(Blank, Page0, Staged)
    BY <1>2, <1>7, StagedImage DEF IInv, WritingIsUnprotected, Staged
  <2> QED BY <1>2, <1>3, <1>7, <2>1, MarkerIsLast DEF AfterCut
<1> QED BY <1>1, <1>4, <1>5, <1>6, <1>7

\* storage.c:21: on a flash part that programs a page in address order, cutting
\* the power anywhere in provisioning leaves the board empty or provisioned.
THEOREM NoLockoutByProvisioning ==
    ASSUME AscendingPage
    PROVE  Spec => CutLeavesNoLockout
<1>1. IInv /\ [Next]_vars
        => [pc' = "off" /\ job.op = "write" /\ storage_writen(flash')
               => storage_read(flash') = job.rec]_vars
  <2> SUFFICES ASSUME IInv, Next, pc' = "off", job.op = "write", storage_writen(flash')
               PROVE  storage_read(flash') = job.rec
    BY DEF vars
  <2>1. Crash
    BY DEF Next, Request, Continue, Boot, WriteRefused, WriteMalformed, Write, Provision,
           WriteMismatched, ClearMalformed, ClearNothing, Clear, DebugClear, SignEmpty,
           Sign, Info, Snapshot, GenerateKeys, BoxPayload, EraseForWrite, EraseForClear,
           FlashFails, ProgramPage0, ProgramPage1, ClearDenied, ClearAuthorised,
           SignLoaded, SignRefused, SignDone, Answer, Enter, Step
  <2> QED BY <2>1, CutIsClean
<1> QED BY <1>1, Invariance, PTL DEF Spec, CutLeavesNoLockout

\* README.md "POST /clear": a record that no longer decrypts is final, but for the
\* bench wipe.
THEOREM CorruptNeedsTheBench == Spec => CorruptIsFinal
<1>1. IInv /\ [Next]_vars
        => [storage_writen(flash) /\ ~Opens(flash) /\ flash' # flash
               => DebugAvailable /\ job.op = "wipe"]_vars
  <2> SUFFICES ASSUME IInv, Next, storage_writen(flash), ~Opens(flash), flash' # flash
               PROVE  DebugAvailable /\ job.op = "wipe"
    BY DEF vars
  <2>1. pc \notin {"entropy", "boxing", "page0", "page1"}
    BY DEF IInv, WritingIsUnprotected
  <2>2. pc = "erase" => job.op = "wipe" /\ DebugAvailable
    BY DEF IInv, WritingIsUnprotected, ErasureIsEntitled
  <2>3. CASE Boot \/ Request
    BY <2>3 DEF Boot, Request, WriteRefused, WriteMalformed, Write, Provision,
                WriteMismatched, ClearMalformed, ClearNothing, Clear, DebugClear,
                SignEmpty, Sign, Info, Snapshot
  <2>4. CASE Continue
    BY <2>1, <2>2, <2>4 DEF Continue, GenerateKeys, BoxPayload, EraseForWrite,
                      EraseForClear, FlashFails, ProgramPage0, ProgramPage1, ClearDenied,
                      ClearAuthorised, SignLoaded, SignRefused, SignDone, Step
  <2>5. CASE Crash
    BY <2>1, <2>2, <2>5 DEF Crash, AfterCut
  <2> QED BY <2>3, <2>4, <2>5 DEF Next
<1> QED BY <1>1, Invariance, PTL DEF Spec, CorruptIsFinal
------------------------------------------------------------------------------
(* The keystore implements OneShot.                                          *)

\* A cut-off erase can only keep, empty or damage the vault.
LEMMA CutEraseVault ==
    ASSUME NEW f \in [Field -> Cell], NEW g \in PartlyErased(f)
    PROVE  VaultOf(g) \in {VaultOf(f), Nothing, Torn}
<1>1. \A c \in Field : g[c] = f[c] \/ g[c] \notin Image
  BY CutErase
<1>2. CASE storage_writen(g) /\ Opens(g)
  <2>1. g["marker"] = f["marker"] /\ g["box"] = f["box"] /\ g["magic"] = f["magic"]
    BY <1>1, <1>2 DEF storage_writen, Opens, storage_available, Field, Page0, Page1
  <2>2. g["len"] \in Image /\ g["keys"] \in Image
    BY <1>2 DEF Opens
  <2>3. g["len"] = f["len"] /\ g["keys"] = f["keys"]
    BY <1>1, <2>2 DEF Field, Page0
  <2> QED
    BY <1>2, <2>1, <2>2, <2>3 DEF VaultOf, storage_writen, Opens, storage_available, storage_read
<1> QED BY <1>2 DEF VaultOf

\* Requests that are answered at once, and handlers that give up, abandon the claim.
LEMMA AnswerAbandons ==
    ASSUME UNCHANGED flash, NEW op, NEW status, NEW rec, Answer(op, status, rec)
    PROVE  Vault!Abandon
  BY DEF Answer, Vault!Abandon, Vault!NoClaim, Vault!Claim, ClaimOf, NoJob, Doing, VaultOf,
         storage_writen, Opens, storage_available, storage_read

LEMMA RequestImplements ==
    ASSUME IInv, Request
    PROVE  Vault!Submit \/ Vault!Abandon \/ UNCHANGED <<VaultOf(flash), ClaimOf(job)>>
<1> USE DEF Enter, Doing
<1>1. UNCHANGED flash /\ UNCHANGED VaultOf(flash)
  BY DEF Request, WriteRefused, WriteMalformed, Write, Provision, WriteMismatched,
         ClearMalformed, ClearNothing, Clear, DebugClear, SignEmpty, Sign, Info,
         Snapshot, VaultOf, storage_writen, Opens, storage_available, storage_read
<1>2. ClaimOf(job) = Vault!NoClaim
  BY DEF Request, WriteRefused, WriteMalformed, Write, Provision, WriteMismatched,
         ClearMalformed, ClearNothing, Clear, DebugClear, SignEmpty, Sign, Info,
         Snapshot, IInv, IdleHasNoJob, NoJob, ClaimOf, Vault!NoClaim, Vault!Claim
<1>3. CASE \E rec \in Record, half \in Pub \cup {Bare} : Provision(rec, half)
  <2>1. PICK rec \in Record : job' = Doing("write", rec, Nothing)
    BY <1>3 DEF Provision
  <2>2. ClaimOf(job)' = Vault!Claim("file", rec, Nothing)
    BY <2>1 DEF ClaimOf, Vault!Claim
  <2> QED BY <1>1, <1>2, <2>2 DEF Vault!Submit
<1>4. CASE Clear
  <2>1. PICK given \in Secret \cup {Nothing} : job' = Doing("clear", Nothing, given)
    BY <1>4 DEF Clear
  <2>2. ClaimOf(job)' = Vault!Claim("release", Nothing, given)
    BY <2>1 DEF ClaimOf, Vault!Claim
  <2> QED BY <1>1, <1>2, <2>2 DEF Vault!Submit
<1>5. CASE DebugClear
  <2>1. ClaimOf(job)' = Vault!Wipe /\ DebugAvailable
    BY <1>5 DEF DebugClear, ClaimOf, Vault!Wipe, Vault!Claim
  <2> QED BY <1>1, <1>2, <2>1 DEF Vault!Submit
<1>6. CASE Sign
  <2>1. ClaimOf(job)' = ClaimOf(job)
    BY <1>2, <1>6 DEF Sign, ClaimOf, Vault!NoClaim, Vault!Claim
  <2> QED BY <1>1, <2>1
<1>7. CASE \/ WriteRefused \/ WriteMalformed
           \/ \E rec \in Record, half \in Pub \cup {Bare} : WriteMismatched(rec, half)
           \/ ClearMalformed \/ ClearNothing \/ SignEmpty \/ Info \/ Snapshot
  <2>1. \E op, status, rec : Answer(op, status, rec)
    BY <1>7 DEF WriteRefused, WriteMalformed, WriteMismatched, ClearMalformed,
                ClearNothing, SignEmpty, Info, Snapshot
  <2> QED BY <1>1, <2>1, AnswerAbandons
<1> QED BY <1>3, <1>4, <1>5, <1>6, <1>7 DEF Request, Write

LEMMA ContinueImplements ==
    ASSUME IInv, Continue
    PROVE  Vault!Next \/ UNCHANGED <<VaultOf(flash), ClaimOf(job)>>
<1> USE DEF Step
<1>1. CASE GenerateKeys \/ BoxPayload \/ ClearAuthorised \/ SignLoaded
  <2>1. UNCHANGED VaultOf(flash)
    BY <1>1 DEF GenerateKeys, BoxPayload, ClearAuthorised, SignLoaded, VaultOf,
                storage_writen, Opens, storage_available, storage_read
  <2>2. UNCHANGED ClaimOf(job)
    <3>1. CASE GenerateKeys
      BY <1>1, <3>1 DEF GenerateKeys, ClaimOf, IInv, TypeOK, Job
    <3>2. CASE BoxPayload \/ ClearAuthorised
      BY <3>2 DEF BoxPayload, ClearAuthorised, ClaimOf
    <3>3. CASE SignLoaded
      <4>1. job.op = "sign" /\ job'.op = "sign" /\ job'.given = job.given
        BY <3>3 DEF SignLoaded, IInv, TypeOK, Job, SigningHasTheKey
      <4> QED BY <4>1 DEF ClaimOf
    <3> QED BY <1>1, <3>1, <3>2, <3>3
  <2> QED BY <2>1, <2>2
<1>2. CASE EraseForWrite
  <2>1. VaultOf(flash) = Nothing /\ VaultOf(flash)' = Nothing
    BY <1>2, BlankSector DEF EraseForWrite, IInv, WritingIsUnprotected, VaultOf
  <2>2. UNCHANGED ClaimOf(job)
    BY <1>2 DEF EraseForWrite, ClaimOf
  <2> QED BY <2>1, <2>2
<1>3. CASE EraseForClear
  <2>1. VaultOf(flash)' = Nothing /\ ClaimOf(job)' = Vault!NoClaim
    BY <1>3, BlankSector DEF EraseForClear, VaultOf, Answer, NoJob, Doing, ClaimOf,
                             Vault!NoClaim, Vault!Claim
  <2>2. Vault!Entitled
    <3>1. CASE job.op = "wipe"
      BY <3>1 DEF Vault!Entitled, ClaimOf
    <3>2. CASE job.op = "clear"
      <4>1. /\ storage_writen(flash) /\ Opens(flash) /\ job.given # Nothing
            /\ Matches(job.given, storage_read(flash))
        BY <1>3, <3>2 DEF EraseForClear, IInv, ErasureIsEntitled
      <4>2. VaultOf(flash) = storage_read(flash) /\ VaultOf(flash) \in Record
        BY <4>1 DEF VaultOf, storage_read, Opens, Image
      <4>3. job.given \in Secret
        BY <4>1 DEF IInv, TypeOK, Job
      <4> QED BY <3>2, <4>1, <4>2, <4>3 DEF Vault!Entitled, ClaimOf
    <3> QED BY <1>3, <3>1, <3>2 DEF EraseForClear
  <2> QED BY <2>1, <2>2 DEF Vault!Erase, Vault!Next
<1>4. CASE ProgramPage0
  <2>1. VaultOf(flash) = Nothing
    BY <1>4 DEF ProgramPage0, IInv, WritingIsUnprotected, VaultOf
  <2>2. ~storage_writen(flash')
    <3>1. Staged \in Image /\ flash = Blank
      BY <1>4, StagedImage DEF ProgramPage0, IInv, WritingIsUnprotected
    <3> QED BY <1>4, <3>1, FirstPage, StorageAssumption DEF ProgramPage0, storage_writen
  <2>3. UNCHANGED ClaimOf(job) /\ VaultOf(flash)' = Nothing
    BY <1>4, <2>2 DEF ProgramPage0, ClaimOf, VaultOf
  <2> QED BY <2>1, <2>3
<1>5. CASE ProgramPage1
  <2>1. /\ job.op = "write" /\ job.rec \in Record /\ job.box \in BoxKey
        /\ ~storage_writen(flash) /\ flash = Programmed(Blank, Page0, Staged)
    BY <1>5 DEF ProgramPage1, IInv, WritingIsUnprotected
  <2>2. Staged \in Image /\ Staged.rec = job.rec
    BY <2>1, StagedImage DEF Staged
  <2>3. VaultOf(flash) = Nothing /\ VaultOf(flash)' = job.rec
    BY <1>5, <2>1, <2>2, FullSector DEF ProgramPage1, VaultOf
  <2>4. ClaimOf(job).kind = "file" /\ ClaimOf(job).rec = job.rec
    BY <2>1 DEF ClaimOf
  <2>5. ClaimOf(job)' = Vault!NoClaim
    BY <1>5 DEF ProgramPage1, Answer, NoJob, Doing, ClaimOf, Vault!NoClaim, Vault!Claim
  <2> QED BY <2>3, <2>4, <2>5 DEF Vault!Provision, Vault!Next
<1>6. CASE FlashFails \/ ClearDenied \/ SignRefused \/ SignDone
  <2>1. UNCHANGED flash /\ \E op, status, rec : Answer(op, status, rec)
    BY <1>6 DEF FlashFails, ClearDenied, SignRefused, SignDone
  <2> QED BY <2>1, AnswerAbandons DEF Vault!Next
<1> QED BY <1>1, <1>2, <1>3, <1>4, <1>5, <1>6 DEF Continue
\* A crash abandons the claim, or completes it unnoticed, or damages the vault
\* in the middle of an erase its caller was entitled to.
LEMMA CrashImplements ==
    ASSUME IInv, Crash, AscendingPage
    PROVE  Vault!Next
<1>1. ClaimOf(job)' = Vault!NoClaim
  BY DEF Crash, NoJob, Doing, ClaimOf, Vault!NoClaim, Vault!Claim
<1>2. flash' \in AfterCut /\ flash \in [Field -> Cell] /\ VaultOf(flash)' = VaultOf(flash')
  BY DEF Crash, IInv, TypeOK, VaultOf, storage_writen, Opens, storage_available, storage_read
<1>3. CASE VaultOf(flash') = VaultOf(flash)
  BY <1>1, <1>2, <1>3 DEF Vault!Abandon, Vault!Next
<1>4. CASE pc \notin {"erase", "page0", "page1"}
  BY <1>2, <1>3, <1>4 DEF AfterCut
<1>5. CASE pc = "erase"
  <2>1. VaultOf(flash') \in {VaultOf(flash), Nothing, Torn}
    BY <1>2, <1>5, CutEraseVault, BlankSector DEF AfterCut, VaultOf
  <2>2. CASE job.op = "write"
    <3>1. ~storage_writen(flash)
      BY <1>5, <2>2 DEF IInv, WritingIsUnprotected
    <3>2. ~storage_writen(flash')
      BY <1>2, <1>5, <3>1, CutErase, BlankSector DEF AfterCut, storage_writen, Field, Page1
    <3> QED BY <1>3, <3>1, <3>2 DEF VaultOf
  <2>3. CASE job.op = "wipe"
    <3>1. Vault!Entitled
      BY <2>3 DEF Vault!Entitled, ClaimOf
    <3> QED BY <1>1, <1>2, <1>3, <2>1, <3>1 DEF Vault!Erase, Vault!Next
  <2>4. CASE job.op = "clear"
    <3>1. /\ storage_writen(flash) /\ Opens(flash) /\ job.given # Nothing
          /\ Matches(job.given, storage_read(flash))
      BY <1>5, <2>4 DEF IInv, ErasureIsEntitled
    <3>2. VaultOf(flash) = storage_read(flash) /\ VaultOf(flash) \in Record
      BY <3>1 DEF VaultOf, storage_read, Opens, Image
    <3>3. job.given \in Secret
      BY <3>1 DEF IInv, TypeOK, Job
    <3>4. Vault!Entitled
      BY <2>4, <3>1, <3>2, <3>3 DEF Vault!Entitled, ClaimOf
    <3> QED BY <1>1, <1>2, <1>3, <2>1, <3>4 DEF Vault!Erase, Vault!Next
  <2> QED BY <1>5, <2>2, <2>3, <2>4 DEF IInv, ErasureIsEntitled
<1>6. CASE pc \in {"page0", "page1"}
  <2>1. /\ job.op = "write" /\ job.rec \in Record /\ job.box \in BoxKey
        /\ ~storage_writen(flash) /\ Staged \in Image /\ Staged.rec = job.rec
    BY <1>6, StagedImage DEF IInv, WritingIsUnprotected, Staged
  <2>2. CASE ~storage_writen(flash')
    BY <1>3, <2>1, <2>2 DEF VaultOf
  <2>3. CASE pc = "page0"
    <3>1. flash'["marker"] = flash["marker"]
      BY <1>2, <2>1, <2>3, CutProgram DEF AfterCut, Field, Page0, Page1
    <3> QED BY <2>1, <2>2, <3>1 DEF storage_writen
  <2>4. CASE pc = "page1" /\ storage_writen(flash')
    <3>1. flash = Programmed(Blank, Page0, Staged)
      BY <2>4 DEF IInv, WritingIsUnprotected
    <3>2. Opens(flash') /\ storage_read(flash') = job.rec
      BY <1>2, <2>1, <2>4, <3>1, MarkerIsLast DEF AfterCut
    <3>3. VaultOf(flash) = Nothing /\ VaultOf(flash)' = job.rec
      BY <1>2, <2>1, <2>4, <3>2 DEF VaultOf
    <3>4. ClaimOf(job).kind = "file" /\ ClaimOf(job).rec = job.rec
      BY <2>1 DEF ClaimOf
    <3> QED BY <1>1, <3>3, <3>4 DEF Vault!Provision, Vault!Next
  <2> QED BY <1>6, <2>2, <2>3, <2>4
<1> QED BY <1>4, <1>5, <1>6

\* The provisioning store keeps the promise of OneShot: one filing, exactly as
\* submitted; release to the holder of the secret only; damage only by a cut erase.
THEOREM Implementation ==
    ASSUME AscendingPage
    PROVE  Spec => KeepsPromise
<1>1. Init => Vault!Init
  BY BlankSector DEF Init, Vault!Init, VaultOf, ClaimOf, NoJob, Doing, Vault!NoClaim, Vault!Claim
<1>2. IInv /\ [Next]_vars => [Vault!Next]_<<VaultOf(flash), ClaimOf(job)>>
  <2> SUFFICES ASSUME IInv, [Next]_vars
               PROVE  Vault!Next \/ UNCHANGED <<VaultOf(flash), ClaimOf(job)>>
    OBVIOUS
  <2>1. CASE Boot \/ UNCHANGED vars
    BY <2>1 DEF Boot, vars, VaultOf, ClaimOf, storage_writen, Opens, storage_available,
                storage_read
  <2>2. CASE Request
    BY <2>2, RequestImplements DEF Vault!Next
  <2>3. CASE Continue
    BY <2>3, ContinueImplements
  <2>4. CASE Crash
    BY <2>4, CrashImplements
  <2> QED BY <2>1, <2>2, <2>3, <2>4 DEF Next
<1> QED BY <1>1, <1>2, Invariance, PTL DEF Spec, KeepsPromise, Vault!Spec
==============================================================================
