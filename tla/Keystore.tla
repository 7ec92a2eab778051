------------------------------- MODULE Keystore ------------------------------
(***************************************************************************)
(* Roman's provisioning policy: src/keystore.c over src/storage.c, driven  *)
(* by the request handlers of src/http_server.c (/write, /clear, /sign,    *)
(* /info, /debug).  The firmware is single threaded, so one request is     *)
(* served at a time; what makes it hard is that the board can lose power   *)
(* or be reset by its watchdog between any two steps of a handler, and     *)
(* that a flash operation can fail half way through one.                   *)
(*                                                                         *)
(* pc says where the board is:                                             *)
(*   "off"      powered down, or in reset                                  *)
(*   "idle"     in the main loop, no request in a handler                  *)
(*   "entropy", "boxing", "erase", "page0", "page1"                        *)
(*              the steps of storage_write() (and of storage_clear())      *)
(*   "compare"  keystore_clear() decrypting and comparing the key          *)
(*   "key", "crypto"   the two heavy steps of POST /sign                   *)
(***************************************************************************)
EXTENDS Storage, Naturals

CONSTANTS
    Bare,             \* a secret sent as a 32 byte seed, without its public half
    DebugAvailable    \* DEBUG_AVAILABLE of http_server.h

ASSUME KeystoreAssumption == Bare \notin Pub /\ DebugAvailable \in BOOLEAN

\* A decoded "sk" field: a seed, alone or followed by the public key.
Secret == [seed : Seed, half : Pub \cup {Bare}]

VARIABLES
    flash,    \* the sector: field -> cell
    cache,    \* cached_pk/cached_sk/cached_id, or Nothing when cache_valid is false
    pc,       \* where the board is
    job,      \* the request in a handler, with the handler's working copies
    reply     \* the last answer handed to TCP since the board was last busy

vars == <<flash, cache, pc, job, reply>>

Op == {"none", "write", "clear", "wipe", "sign", "info", "snapshot"}
Job == [op : Op, rec : Record \cup {Nothing}, box : BoxKey \cup {Nothing},
        given : Secret \cup {Nothing}]

Doing(op, rec, given) == [op |-> op, rec |-> rec, box |-> Nothing, given |-> given]
NoJob == Doing("none", Nothing, Nothing)

Status == {0, 200, 400, 403, 413, 500, 503}
Reply == [to : Op, status : Status, rec : Record \cup {Nothing}]
NoReply == [to |-> "none", status |-> 0, rec |-> Nothing]

Staged == [box |-> job.box, rec |-> job.rec]      \* storage_buf

TypeOK ==
    /\ flash \in [Field -> Cell]
    /\ cache \in Record \cup {Nothing}
    /\ pc \in {"off", "idle", "entropy", "boxing", "erase", "page0", "page1",
               "compare", "key", "crypto"}
    /\ job \in Job
    /\ reply \in Reply

Init ==
    /\ flash = Blank
    /\ cache = Nothing
    /\ pc = "off"
    /\ job = NoJob
    /\ reply = NoReply
------------------------------------------------------------------------------
\* keystore_load(): the cached record, or the one that decrypts now.
Loaded == IF cache # Nothing THEN cache ELSE storage_read(flash)

\* The handler hands its answer to TCP and returns to the main loop.
Answer(op, status, rec) ==
    /\ reply' = [to |-> op, status |-> status, rec |-> rec]
    /\ pc' = "idle"
    /\ job' = NoJob

\* The handler of a request that takes several steps is entered.
Enter(step, j) == pc = "idle" /\ pc' = step /\ job' = j /\ reply' = NoReply

\* One step of the handler in progress.
Step(from, to) == pc = from /\ pc' = to /\ UNCHANGED reply

\* keystore_clear()'s check: the seed, and the public half when it was sent.
Matches(given, rec) ==
    given.seed = rec.seed /\ given.half \in {rec.pub, Bare}
------------------------------------------------------------------------------
\* http_server_init(): keystore_state() decrypts the record if there is one.
Boot ==
    /\ pc = "off"
    /\ pc' = "idle"
    /\ cache' = IF storage_writen(flash) THEN storage_read(flash) ELSE Nothing
    /\ UNCHANGED <<flash, job, reply>>

\* POST /write: the stored flag is checked before anything else.
WriteRefused ==
    /\ pc = "idle" /\ storage_writen(flash)
    /\ Answer("write", 403, Nothing)
    /\ UNCHANGED <<flash, cache>>

\* Empty body, missing field, bad device id or base64 (400); too large (413).
WriteMalformed ==
    /\ pc = "idle" /\ ~storage_writen(flash)
    /\ \E status \in {400, 413} : Answer("write", status, Nothing)
    /\ UNCHANGED <<flash, cache>>

\* Mutant: the stored flag is not looked at.
ProvisionAgain(rec, half) ==
    /\ half \in {rec.pub, Bare}
    /\ Enter("entropy", Doing("write", rec, Nothing))
    /\ UNCHANGED <<flash, cache>>

\* keystore_provision(): well formed fields that pass the structural pair check.
Provision(rec, half) ==
    /\ ~storage_writen(flash)
    /\ half \in {rec.pub, Bare}
    /\ Enter("entropy", Doing("write", rec, Nothing))
    /\ UNCHANGED <<flash, cache>>

\* A full 64 byte sk that embeds another public key than the one sent.
WriteMismatched(rec, half) ==
    /\ pc = "idle" /\ ~storage_writen(flash)
    /\ half \notin {rec.pub, Bare}
    /\ Answer("write", 400, Nothing)
    /\ UNCHANGED <<flash, cache>>

Write == \E rec \in Record, half \in Pub \cup {Bare} :
            Provision(rec, half) \/ WriteMismatched(rec, half)

\* storage_write(): a fresh X25519 key pair and nonce, ...
GenerateKeys ==
    /\ Step("entropy", "boxing")
    /\ \E box \in BoxKey : job' = [job EXCEPT !.box = box]
    /\ UNCHANGED <<flash, cache>>

\* ... the payload is boxed into the staging buffer, marker last.
BoxPayload ==
    /\ Step("boxing", "erase")
    /\ UNCHANGED <<flash, cache, job>>
------------------------------------------------------------------------------
\* Mutant: the pages are programmed over whatever the sector holds.
ProgramWithoutErase ==
    /\ job.op = "write"
    /\ Step("erase", "page0")
    /\ UNCHANGED <<flash, cache, job>>

\* flash_safe_execute(storage_erase_cb): shared by /write, /clear and /debug.
EraseForWrite ==
    /\ job.op = "write"
    /\ Step("erase", "page0")
    /\ flash' = Blank
    /\ UNCHANGED <<cache, job>>

\* storage_clear() succeeded: the cache is dropped and 200 answered.
EraseForClear ==
    /\ pc = "erase" /\ job.op \in {"clear", "wipe"}
    /\ flash' = Blank
    /\ cache' = Nothing
    /\ Answer(job.op, 200, Nothing)

\* flash_safe_execute() refused to run the callback: flash is as it was, and
\* the early return of storage_write() and storage_clear() leaves the cache.
FlashFails ==
    /\ pc = "erase" \/ pc = "page0"
    /\ Answer(job.op, 500, Nothing)
    /\ UNCHANGED <<flash, cache>>

\* flash_range_program() walks the two pages in ascending order.
ProgramPage0 ==
    /\ Step("page0", "page1")
    /\ flash' = Programmed(flash, Page0, Staged)
    /\ UNCHANGED <<cache, job>>

\* Mutant: keystore_provision() does not invalidate the cache.
ProgramKeepsCache ==
    /\ pc = "page1"
    /\ flash' = Programmed(flash, Page1, Staged)
    /\ Answer("write", 200, job.rec)
    /\ UNCHANGED cache

\* The marker lands, keystore_invalidate() drops the cache, 200 is answered.
ProgramPage1 ==
    /\ pc = "page1"
    /\ flash' = Programmed(flash, Page1, Staged)
    /\ cache' = Nothing
    /\ Answer("write", 200, job.rec)
------------------------------------------------------------------------------
\* POST /clear: empty body or missing field (400), too large (413).  Unlike
\* /write, these are looked at before the stored flag.
ClearMalformed ==
    /\ pc = "idle"
    /\ \E status \in {400, 413} : Answer("clear", status, Nothing)
    /\ UNCHANGED <<flash, cache>>

\* KEYSTORE_CLEAR_EMPTY: nothing stored, so there is nothing to do.
ClearNothing ==
    /\ pc = "idle" /\ ~storage_writen(flash)
    /\ Answer("clear", 200, Nothing)
    /\ UNCHANGED <<flash, cache>>

\* keystore_clear() is about to load the record; Nothing is a malformed key.
Clear ==
    /\ storage_writen(flash)
    /\ \E given \in Secret \cup {Nothing} :
          Enter("compare", Doing("clear", Nothing, given))
    /\ UNCHANGED <<flash, cache>>

\* The record does not decrypt, or the key is another one: 403; malformed: 400.
ClearDenied ==
    /\ pc = "compare"
    /\ cache' = Loaded
    /\ \/ Loaded = Nothing /\ Answer("clear", 403, Nothing)
       \/ Loaded # Nothing /\ job.given = Nothing /\ Answer("clear", 400, Nothing)
       \/ /\ Loaded # Nothing /\ job.given # Nothing
          /\ ~Matches(job.given, Loaded)
          /\ Answer("clear", 403, Nothing)
    /\ UNCHANGED flash

\* Mutant: any well formed key is accepted.
ClearUnchecked ==
    /\ job.given # Nothing
    /\ Step("compare", "erase")
    /\ cache' = Loaded
    /\ UNCHANGED <<flash, job>>

ClearAuthorised ==
    /\ Loaded # Nothing /\ job.given # Nothing /\ Matches(job.given, Loaded)
    /\ Step("compare", "erase")
    /\ cache' = Loaded
    /\ UNCHANGED <<flash, job>>

\* POST /debug {"action":"clear"}: no credential, whatever is stored.
DebugClear ==
    /\ DebugAvailable
    /\ Enter("erase", Doing("wipe", Nothing, Nothing))
    /\ UNCHANGED <<flash, cache>>
------------------------------------------------------------------------------
\* POST /sign without a body.
SignEmpty ==
    /\ pc = "idle"
    /\ Answer("sign", 400, Nothing)
    /\ UNCHANGED <<flash, cache>>

Sign ==
    /\ Enter("key", Doing("sign", Nothing, Nothing))
    /\ UNCHANGED <<flash, cache>>

\* keystore_signing_key() and keystore_device_id(): the handler's own copies.
SignLoaded ==
    /\ Loaded # Nothing
    /\ Step("key", "crypto")
    /\ cache' = Loaded
    /\ job' = [job EXCEPT !.rec = Loaded]
    /\ UNCHANGED flash

\* 503 when no record decrypts, 400 when challenge, context or timestamp is missing.
SignRefused ==
    /\ pc = "key"
    /\ cache' = Loaded
    /\ \/ Loaded = Nothing /\ Answer("sign", 503, Nothing)
       \/ Loaded # Nothing /\ Answer("sign", 400, Nothing)
    /\ UNCHANGED flash

\* crypto_sign() under the copied key; the reply carries the device id.
SignDone ==
    /\ pc = "crypto"
    /\ Answer("sign", 200, job.rec)
    /\ UNCHANGED <<flash, cache>>

\* GET /info reports the device id of whatever record decrypts, or null.
Info ==
    /\ pc = "idle"
    /\ cache' = Loaded
    /\ Answer("info", 200, Loaded)
    /\ UNCHANGED flash

\* POST /debug: keystore_public_key() and keystore_device_id() load the cache.
Snapshot ==
    /\ pc = "idle" /\ DebugAvailable
    /\ cache' = Loaded
    /\ Answer("snapshot", 200, Loaded)
    /\ UNCHANGED flash
------------------------------------------------------------------------------
\* What the sector can hold after the board died at pc.
AfterCut ==
    CASE pc = "erase" -> PartlyErased(flash) \cup {Blank, flash}
      [] pc = "page0" -> PartlyProgrammed(flash, Page0, Staged)
      [] pc = "page1" -> PartlyProgrammed(flash, Page1, Staged)
      [] OTHER -> {flash}

\* Power cut, watchdog reset or fault: RAM is lost, flash is what it is.
Crash ==
    /\ pc # "off"
    /\ pc' = "off"
    /\ flash' \in AfterCut
    /\ cache' = Nothing
    /\ job' = NoJob
    /\ reply' = NoReply

\* The rest of a handler that has been entered.
Continue ==
    \/ GenerateKeys \/ BoxPayload
    \/ EraseForWrite \/ EraseForClear \/ FlashFails
    \/ ProgramPage0 \/ ProgramPage1
    \/ ClearDenied \/ ClearAuthorised
    \/ SignLoaded \/ SignRefused \/ SignDone

\* A request arrives at an idle board.
Request ==
    \/ WriteRefused \/ WriteMalformed \/ Write
    \/ ClearMalformed \/ ClearNothing \/ Clear
    \/ DebugClear \/ SignEmpty \/ Sign \/ Info \/ Snapshot

Next == Boot \/ Request \/ Continue \/ Crash

Spec == Init /\ [][Next]_vars
------------------------------------------------------------------------------
(* Properties *)

\* The RAM cache is dropped on success only, by the two functions that change
\* the record (keystore.c:12, keystore_invalidate).  It must never disagree
\* with a record that decrypts, and never hide that a stored one does not.
CacheSound ==
    cache # Nothing /\ (storage_writen(flash) \/ Opens(flash))
        => cache = storage_read(flash)

\* An answer stays true for as long as nothing else is asked of the board:
\* a 200 of /write means that the record reads back exactly, its 403 that the
\* flag is set and its 500 that it is not, a 200 of /clear or of the bench
\* wipe that the board is empty, and a signature made on a provisioned board
\* is made with the stored key.
AnswersTrue ==
    /\ reply.to = "write" /\ reply.status = 200
          => storage_writen(flash) /\ storage_read(flash) = reply.rec
    /\ reply.to = "write" /\ reply.status = 403 => storage_writen(flash)
    /\ reply.to = "write" /\ reply.status = 500 => ~storage_writen(flash)
    /\ reply.to \in {"clear", "wipe"} /\ reply.status = 200
          => ~storage_writen(flash)
    /\ reply.to = "sign" /\ reply.status = 200 /\ storage_writen(flash)
          => storage_read(flash) = reply.rec

\* storage.c:21: a power cut in the middle of provisioning leaves the board
\* either empty, to be provisioned again, or fully provisioned with the record
\* that was being filed; never locked out with a record that does not decrypt.
CutLeavesNoLockout ==
    [][pc' = "off" /\ job.op = "write" /\ storage_writen(flash')
          => storage_read(flash') = job.rec]_vars

\* README.md "POST /clear": once the stored record no longer decrypts, nothing
\* but the bench wipe of a build with DEBUG_AVAILABLE 1 changes a single bit of
\* the sector: no sequence of requests, failures and resets.
CorruptIsFinal ==
    [][storage_writen(flash) /\ ~Opens(flash) /\ flash' # flash
          => DebugAvailable /\ job.op = "wipe"]_vars

\* The abstract promise, OneShot: filed once and as submitted, released only to
\* the holder of the stored secret, damaged only by a cut-off erase.
VaultOf(f) ==
    IF ~storage_writen(f) THEN Nothing
    ELSE IF Opens(f) THEN storage_read(f) ELSE Torn

ClaimOf(j) ==
    [kind |-> CASE j.op = "write" -> "file"
                [] j.op = "clear" -> "release"
                [] j.op = "wipe" -> "wipe"
                [] OTHER -> "none",
     rec |-> IF j.op = "write" THEN j.rec ELSE Nothing,
     secret |-> j.given]

Vault == INSTANCE OneShot WITH
    Secret <- Secret \cup {Nothing},
    Holds <- {h \in Secret \X Record : Matches(h[1], h[2])},
    Empty <- Nothing, Damaged <- Torn, Bench <- DebugAvailable,
    vault <- VaultOf(flash), claim <- ClaimOf(job)

\* Every step of the keystore is a step of OneShot, or changes nothing it sees.
KeepsPromise == Vault!Spec
------------------------------------------------------------------------------
(* The inductive invariant *)

\* Nothing is erased or programmed under a record the stored flag protects.
WritingIsUnprotected ==
    /\ pc \in {"entropy", "boxing", "page0", "page1"} \/ (pc = "erase" /\ job.op = "write")
          => ~storage_writen(flash) /\ job.op = "write" /\ job.rec \in Record
    /\ pc \in {"boxing", "page0", "page1"} \/ (pc = "erase" /\ job.op = "write")
          => job.box \in BoxKey
    /\ pc = "page0" => flash = Blank
    /\ pc = "page1" => flash = Programmed(Blank, Page0, Staged)

\* A handler that reached the erase of /clear has shown the stored secret.
ErasureIsEntitled ==
    /\ pc = "compare" => job.op = "clear" /\ storage_writen(flash)
    /\ pc = "erase" => job.op \in {"write", "clear", "wipe"}
    /\ pc = "erase" /\ job.op = "wipe" => DebugAvailable
    /\ pc = "erase" /\ job.op = "clear"
          => /\ storage_writen(flash) /\ Opens(flash)
             /\ job.given # Nothing /\ Matches(job.given, storage_read(flash))

SigningHasTheKey ==
    /\ pc = "key" => job.op = "sign"
    /\ pc = "crypto" => job.op = "sign" /\ job.rec \in Record /\ cache = job.rec

IdleHasNoJob ==
    /\ pc \in {"off", "idle"} <=> job = NoJob
    /\ pc = "off" => cache = Nothing
    /\ pc # "idle" => reply = NoReply

IInv ==
    /\ TypeOK /\ CacheSound /\ AnswersTrue
    /\ WritingIsUnprotected /\ ErasureIsEntitled /\ SigningHasTheKey /\ IdleHasNoJob
==============================================================================
