# Roman: a TLA+ model of the firmware

Roman is firmware for a Raspberry Pi Pico 2 (RP2350), which appears to its host as a
USB network interface, hands the host an address over DHCP and serves a small HTTP API. It is
provisioned once with an Ed25519 key pair (`POST /write`), signs with it
(`POST /sign`), and can be emptied again by whoever shows the stored secret
(`POST /clear`). The record lives encrypted in one flash sector, has to survive
power cuts, and a hardware watchdog restarts the firmware when it hangs.

This directory holds TLA+ modules for the parts of the firmware in which order,
failure and time decide about correctness, TLC configurations that check them on
small instances, and TLAPS proofs, for every value of the constants, of nearly every
safety property that the runs check. `PROJECT.json` maps each definition to the lines it
stands for.

    tlc -config MCKeystore.cfg MCKeystore       # any run, see the table below
    tlapm KeystoreProofs.tla                    # the proofs

## 1. The system

| component | source | state it keeps | operations | module |
|---|---|---|---|---|
| encrypted flash store | `storage.c` | one 4 KiB sector: magic, length, keys, ciphertext, stored marker | read, write (erase, page 0, page 1), clear | `Storage`, used by `Keystore` |
| keystore and request policy | `keystore.c`, handlers of `http_server.c` | RAM copy of the record (`cached_*`), the handlers' static buffers | provision, clear, signing key, device id, public key | `Keystore`, `OneShot` |
| provisioning client | `debug_tool.py:86-140`, `README.md` | what it asks and what it was told | send `/write` or `/sign`, receive, give up | `Client`, over `Keystore` |
| stage breadcrumbs | `diag.c` | one scratch register that survives a watchdog reset, `boot_stage` | mark, capture at boot, report | `Diag`, over `Keystore` |
| HTTP connections | `http_server.c` | pool of four states, receive buffer per state, lwIP's callback arguments | accept, receive, send, acknowledge, close, error | `HttpConn` |
| request fields, record codec | `http_server.c`, `keystore.c`, `record.c` | none | find a field, check a device id, decode base64, compare the pair, encode and decode a record | `Base64`, `Fields`, `Codec` |
| main loop and watchdog | `main.c` | the watchdog's load value and counter | set-up, loop, feed, shutdown, reboot request | `MainLoop` |
| LED | `led.c` | pattern, phase, time of the next one | five signals, tick | `Led`, `Board` over `MainLoop` |
| entropy | `storage.c:82-200` | mixing state | wait for a sample up to a deadline, draw a word | its waiting in `MainLoop`, its result a choice in `Keystore` |
| USB network interface | `usb_network.c` | `received_frame`, whether the OUT endpoint is armed | bring-up, receive, re-initialise, service, timers, output, shutdown | `UsbNetwork` |
| DHCP server | `dhcpserver.c` | eight leases, a wrapping 32 bit clock | walk of the options, DISCOVER, REQUEST | `Dhcp`, `DhcpLink` with its hosts |
| stack gauge | `stack.c` | paint in the stack, `used_max` | paint, sample | `Stack` |
| bench tool | `debug_tool.py` | two queues, `inflight`, `pending_reset`, `previous_snapshot` | click, auto refresh, pump, worker | `BenchTool` |
| cryptography | `tweetnacl.c` | | | assumed perfect |
| descriptors, build, host tests | | | | not modelled |

How they interact. There is one core and one thread: `app_main()` loops over
`usb_network_update()`, `led_tick()`, `stack_check()` and `watchdog_update()`.
`usb_network_update()` runs TinyUSB, whose receive callback leaves a frame in
`received_frame`; `service_traffic()` gives it to lwIP, lwIP calls the DHCP
server or the callbacks of the HTTP server, and a complete request runs its
handler to the end inside that call. A reply goes the other way through
`tud_output()`, which calls TinyUSB again while it waits for the host. The
handlers call the keystore, the keystore calls the store, and the store runs the
flash with interrupts off. The watchdog, interrupts, the host and the power
supply are the other actors. The bench tool on the host has two threads.

What is hard, and the properties that answer to it:

* **A cut anywhere in a flash update.** An erase or a page program can stop half
  way, by a power cut or by the watchdog, and what it leaves is read at the next
  boot. The board must be empty, or provisioned as submitted; a damaged record
  must never be taken for a good one (`KeepsPromise`, `CutLeavesNoLockout`,
  `CorruptIsFinal`).
* **A copy of the record in RAM** that is trusted without looking at flash, and
  dropped only on success (`CacheSound`, `AnswersTrue`).
* **A client that cannot see the board**: an answer is lost, a request arrives
  after its sender gave up, others provision and clear meanwhile, and still a
  retry must not hide a failure (`RetryIsSafe`), and what the client concludes must
  be so (`ConclusionHolds`).
* **Memory shared with callbacks**: connection states with lwIP, frames with
  TinyUSB and lwIP, with re-entry from inside lwIP (`StatesAreOwned`,
  `SlotsComeBack`, `FramesAreOwned`, `ReceiverAlive`, `FramesAreServed`).
* **Requests cut anywhere by TCP, with bytes behind them** (`HandledOnce`,
  `DispatchedWhole`), fields searched for in JSON that nobody parses
  (`FieldsAreFound`, `FiledIsWhatWasSent`), and the lengths that base64, buffers and
  the record have to agree on (`DecodesExactly`, `SoundIsFiled`, `BadIdIsRefused`).
* **Time**: a watchdog whose period changes under a loop that feeds it, with
  handlers of many steps some of which wait for hardware (`EnoughTimeLeft`,
  `NoSpuriousReset`, `StallsRecover`, `ResetHappens`), a LED that the same loop
  has to advance (`ReadyIsLit`, `LedSettles`), leases on a clock that wraps
  (`GrantsAreKept`, `NoNeedlessSilence`).
* **A protocol over a link that loses messages**, with restarts on both sides
  (`UseIsGranted`, `HostsGetAddresses`).
* **What survives a reset** to explain it (`DeathIsNamed`, `NoStaleStage`).
* **Two threads** in the bench tool (`NoBacklog`, `ShownInTheEnd`).

`PROJECT.json` lists the hazards one by one, at their lines.

## 2. The modules

**`Storage`** has no state. It cuts the sector into five fields; a field holds
the image it was programmed from, is erased, or is garbage. The readers
(`storage_writen`, `storage_available`, `storage_read`) and the flash operations
(`Programmed`, `PartlyProgrammed`, `PartlyErased`) are operators on such a
sector. A ciphertext is the image it was boxed from and `crypto_box_open()`
succeeds when length, keys and ciphertext come from one image: cryptography is
perfect. A length that is garbage may still be in range (`Stray`), since the
reader tests only its range before it decrypts. `AscendingPage` says whether the
bytes of one page land in address order; `storage.c:21-23` relies on it.

**`Keystore`** serves one request at a time, as the firmware does. `pc` is the
point a handler has reached; between any two values of it the board may die
(`Crash`), and then flash is one of the sectors `Storage` allows for that point.
A handler that takes no time is one action with its answer (`WriteRefused`,
`ClearNothing`, `Info`, ...); provisioning is `Provision`, `GenerateKeys`,
`BoxPayload`, `EraseForWrite`, `ProgramPage0`, `ProgramPage1`. `FlashFails` is
`flash_safe_execute()` returning an error with flash untouched, at either of its
two calls. `reply` is the last answer: it exists for `AnswersTrue`.

**`OneShot`** is what `POST /write` and `POST /clear` promise: a vault that is
filed once, exactly as submitted, that is emptied only for a caller who holds
the stored secret (or by the bench wipe), and that only such an entitled erase
can damage. `Keystore` implements it under the mapping `VaultOf`, `ClaimOf`.

**`Diag`** conjoins every action of `Keystore` with the `diag_stage()` calls on
its path, and adds the scratch register with its two ways to start: junk after a
power cycle, kept over a watchdog reset. All the stages of `diag.h` are there. Where
one action of `Keystore` stands for several statements, a reset can leave any of the
stages on its way (`OnTheWay`); `PreviousStage` is `diag_previous_stage()` with its
range check. `marked` and `died` are history: whether this run has set a stage, and
where the last one ended.

**`Client`** adds a client to `Keystore`. `UsbNetClient.request()` makes one request
and returns one `Result`; it never repeats one, and no code in the repository decides
when to send `/write` again or to go on to `/sign`. So the client sends either at any
time, any number of times. A reply can be lost (`Lose`),
the client can give up on a request the board then serves all the same (`GiveUp`,
`ServeLate`), the board can die with everything on its way (`Die`), a flash
operation can fail, and between any two steps of this anybody may ask for anything
(`OthersAsk`). Every step is a step of `Keystore` or leaves it alone. `others` and
`told` are history: whether somebody else has changed the record, before or since the
client's latest request was served, and whether a `/write` was answered with 200 or
403. There is no liveness property: silent connections can hold every slot for ever,
so that nothing ensures that a request is served.

**`HttpConn`** models a connection from accept to the end of the TCP connection.
A request is a row of tokens (request line, Content-Length up to its first digit,
its other digits, blank line, body, trailing bytes), and a segment any run of
them. `pcb` is lwIP's side, `arg` whether callbacks are still registered, `slot`
the pool, `st` the `http_state_t`. `http_send_response` has the failing
`tcp_write()` as its second disjunct: it closes with the callbacks registered.
`http_server_deinit` closes every state in the pool on the way out of
`app_main()`; after it `up` is false and no callback runs until `Restart`, which
may also come in the middle of anything.

**`MainLoop`** counts the watchdog down against handlers of several steps, each
with its worst case: opening the record, deriving and boxing, erase, program,
signature. Provisioning begins with fourteen random words, and each may wait for
the TRNG up to `STORAGE_TRNG_TIMEOUT_US` (`TrngAnswers`, `DrawWord`). The bring-up
comes after `watchdog_enable()` and before the first `watchdog_update()`, so it
shares a period with the first iteration. A handler may also stall for good, and
`AckReset` is `http_sent_cb()` asking for a reboot. `GET /info` and the snapshot of
`POST /debug` decrypt the record up to three times when it does not open ("report").
**`Led`** has the five signals
and `led_tick()`. **`Board`** conjoins each action of `MainLoop` with the calls
into `led.c` on its path: the callbacks signal, several of them in one
`usb_network_update()` if need be, the loop ticks once per iteration
and only after whatever the handler took.

**`UsbNetwork`** follows pbufs through owners (`pool`, `driver`, `lwip`). `at`
tells where the thread is; TinyUSB's callbacks run in `task` and, through
`tud_output()`, in the middle of `netif_usb.input()` or of a timer of lwIP
(`output`, with or without a frame in `input`). `Start`, `Deinit` and `Reset` bring
the interface up and down.

**`Dhcp`** keeps the clock modulo `Wrap` and an expiry as its quotient by
`Granule`, as the code keeps milliseconds and a `uint16_t`. `Expired` is the
signed comparison. `opt_find` walks a row of option bytes as the code does; a
message comes to its type and the address it asks for (`Read`), `Process` is what
the server does to its table and `Answer` what it sends. `holder` and `age` are
history: who was promised what, and for how long. **`DhcpLink`** puts hosts on the
link: DISCOVER, REQUEST, use for the time of the lease, each message or its answer
lost at will, reboots of the host with and without memory of its address, restarts
of the board, and strangers who send anything. The hosts are written from RFC 2131
and are external to the repository.

**`Base64`** decodes quartet by quartet with the code's order of checks. Its
alphabet has a parameter: a symbol is three units wide and a byte four (`Unit` is 4,
that is two bits, in the code and 2 in the run), so that the proofs hold for the code
and TLC can enumerate all strings of a quartet.
**`Fields`** is `json_get_string()` on the characters of a body. What a client means is
a list of members (key, white space behind the colon, value with each letter written
plainly or as an escape); `JSON` writes it, and the board sees nothing but that text. So
escapes, quotes in values, newlines, members nobody asks for and values that are no
strings are all in it. `strstr`, `strchr`, `ColonAt`, `OpenAt`, `CloseAt` and `Cut` are
the calls of the code. An escape is a backslash and one character (no `\u0041`),
white space is a blank or a line end, and a comma or a brace is any other character
(`Alien`). What the search finds differs from what a parser would in three ways, each
of them in the exceptions of the properties: a quoted key that stands in front of its
member (`Astray`), an escape in the value, which is taken as it is or ends the value at
its quote, and a newline behind the colon, which `json_get_string()` does not skip
(`Plainly`). A client whose encoder writes `/` as `\/` therefore gets a 400 for a sound
key.
**`Codec`** joins them into the path from the text of `POST /write` to the stored
record and back: fields, device id, public key, secret key with or without its
public half, comparison of the two, `record_encode()`, `record_decode()`. The
reference is an encoder written from RFC 4648. **`Stack`** paints, writes and samples
cell by cell. **`BenchTool`** splits the worker's loop into its statements. `_pump`
handles one result per step and ends when it finds the queue empty (`PumpEnds`), so the
worker can answer in the middle of it; the other Tk callbacks are atomic and wait for
it, as they run on the same thread. A result is of one of four kinds: no answer, a
status other than 2xx, a 2xx, and a snapshot whose values `_handle_result()` cannot show
(`format_uptime(NaN)`, an unhashable `selftest`). The last one raises inside `_pump()`,
which catches only `queue.Empty` and sets its timer behind the `try`: the pump is dead
from then on, and the other callbacks go on.

**`KeystoreProofs`, `ProvisioningProofs`, `HttpConnProofs`, `LinkProofs`,
`BoardProofs`, `CodecProofs`, `BenchToolProofs`** hold the theorems of section 4;
`NumberFacts` has what several of them need of quotients, remainders, least and
greatest numbers. The names of a specification are prefixed where a proof module
extends two of them (`UsbSpec`, `StackSpec`, `BoardSpec`, `ClientSpec`, `DiagSpec`).

## 3. The runs

| run | instance | what it shows |
|---|---|---|
| `keystore` | 2 seeds, 2 public keys, 1 id, 2 box keys; bytes in address order; debug build | `CacheSound`, `AnswersTrue`, the inductive invariant `IInv` with its type invariant, `CutLeavesNoLockout`, `CorruptIsFinal`, refinement of `OneShot` (`KeepsPromise`); with the breadcrumbs of `Diag` beside it, a watchdog reset in a marked step is reported under that step and no stage twice (`DeathIsNamed`, `NoStaleStage`) |
| `client` | 1 seed, 2 public keys, 2 box keys, 3 faults | a 403 to a retry means what the 200 would have; conclusions hold |
| `http_conn` | 2 clients, 1 slot, bodies of 0 to 2 units over a limit of 1, buffer of 7 tokens | ownership of states, one dispatch of a whole request, slots come back |
| `main_loop` | period 60, reset delay 2, 14 words of 1, opening 3, boxing 6, erase 8, program 1, signature 12, beat 1 | no reset of work in progress unless one was asked for; stalls end; the LED is lit when ready and comes to rest |
| `usb_network` | 4 pbufs | ownership of frames, the endpoint is armed, frames are served |
| `dhcp` | 2 hosts and a stranger, 2 addresses, clock of 12 in granules of 2, lease 3 | leases kept, one host per address, silence only when justified, every host gets an address |
| `bench_tool` | 2 clicks, queues of 2, 2 runs of the board | no backlog, every outcome is shown unless the pump has died |
| `codec` | 3 bit symbols, keys of 2 bytes, id limit 2 | fields found in any order among anything; exactly the canonical encodings accepted; filed is what was sent, and what is sound and plain is filed |
| `stack` | 6 cells | watermark never too low, never too high, with the stated exceptions |
| `bad_id` | as `codec` | violation, see section 6 |
| `acked_reset` | 1 client | violation, see section 6 |
| `reset_happens` | as `main_loop` | violation, see section 6 |

Why these bounds are enough. The keystore compares records, keys and images only
for equality, so two of each give every pattern of equal and different ones; one
handler runs at a time, and two successive generations of a record are there with
two box keys. The run is of `DiagSpec`, which has every action of `Keystore`, with the
stages it sets. The client's record and one other in its public key are all it
tells apart; three faults are a loss, the death of the retry and a loss after
that, or any other three. One slot for two clients has the pool both full and
handed over while the old connection is still closing; two units over a limit of
one give a length that is right, too small and over the limit. The watchdog run
has ticks of 50 ms with every duration rounded up, and keeps the order poll <
reset delay < erase < signature < period and the sums that decide every comparison
(assumed by name in `MainLoopAssumption`). A clock of 12 wraps within a lease and
is followed for more than half a turn past its end; two addresses for three
stations let the pool run out. Half-width symbols keep the shape of base64 (four
symbols of three quarters of a byte) and let all strings of a quartet be
enumerated; the buffers keep their remainders modulo 4, which is what lets a text
that was cut be told from one that was not. Every escape and every gap is tried on each
letter of each value of a good pair; what else may stand in a body is one member of each
telling shape (`Others`), in front of and between the known ones. Two places in a queue
of the bench tool are what the auto refresh and a click fill. Symmetry is used only in `keystore`
(seeds, public keys, box keys), where nothing orders them and no liveness is
checked. `MaxFaults`, `MaxAge`, `QueueBound`, `MaxRun`, `Clicks` and the single
`AckReset` per run are the bounds on counters; the proofs of section 4 need none
of them to be small.

Deadlock is checked except in `codec` and `bad_id`, which compute a result and stop.

Fairness. *HttpConn*: lwIP ends every connection with a reply out or one it was
asked to close: the peer acknowledges, or a retransmission or closing timer gives
up and reports it to `http_err_cb()`; nothing is assumed of a client that never
sends its request. *Board*: code that runs
keeps running, and time passes, although the TRNG may always answer at once
(strong fairness of `BoardTick`, which it can disable); a stall, a key press, a
request or an acknowledgement is never assumed. *UsbNetwork*: the main loop keeps
calling `usb_network_update()`, lwIP lets go of a frame and is done with its timers
in the end, although it may go through `tud_output()` many times before (strong
fairness of `InputReturns` and `TimersDone`), and a wait there ends because the
host reads or because the watchdog resets the board (`OutputEnd \/ Reset`, which
`StallsRecover` of the main loop justifies). *DhcpLink*:
hosts keep trying and time goes on. A tick is longer than a host's retry
(`TimePasses` waits for a message of every host without an address): DHCP clients
retry within seconds, a granule is 65 s. *BenchTool*: both threads are scheduled
and Tk runs its timers; the board need not answer. The other modules have no liveness
property.

## 4. What is proved

The safety properties of the runs but for three of `Codec`, as theorems of the
specification that the property is about, for every value of its constants. "Needs"
names what is assumed of them beyond the `ASSUME`s of the modules, which TLC evaluates
in every run.

| module | theorem | says | needs |
|---|---|---|---|
| `KeystoreProofs` | `Invariance`, `TypeCorrect`, `CacheCoherence`, `Truthfulness` | `[]IInv`, `[]TypeOK`, `[]CacheSound`, `[]AnswersTrue` for any seeds, keys, ids, with and without `/debug` | |
| | `CorruptNeedsTheBench` | `CorruptIsFinal` | |
| | `NoLockoutByProvisioning` | `CutLeavesNoLockout` | `AscendingPage` |
| | `Implementation` | `Keystore` implements `OneShot` (`KeepsPromise`) | `AscendingPage` |
| `ProvisioningProofs` | `PromiseOverTheNetwork` | `KeepsPromise` over the network of `Client` | `AscendingPage` |
| | `RetriesAreSafe`, `ConclusionsHold` | `[]RetryIsSafe`, `[]ConclusionHolds` for any number of faults | `AscendingPage` |
| | `StageIsReported`, `StageIsReportedOnce` | `[]DeathIsNamed`, `[]NoStaleStage` | |
| `HttpConnProofs` | `TypeCorrect`, `StateOwnership`, `OneHandlerRun`, `WholeRequests` | `[]TypeOK`, `[]StatesAreOwned`, `[]HandledOnce`, `[]DispatchedWhole` for any connections, slots, sizes and segmentation | |
| `LinkProofs` | `UsbTypeCorrect`, `FrameOwnership`, `EndpointIsArmed` | `[]UsbTypeOK`, `[]FramesAreOwned`, `[]ReceiverAlive` for any pool of pbufs | |
| | `TypeCorrect`, `NoGrantIsBroken`, `HostsUseTheirOwn`, `SilenceHasAReason` | `[]TypeOK`, `[]GrantsAreKept`, `[]UseIsGranted`, `[]NoNeedlessSilence` for any clock, granule, lease time, pool and hosts | |
| `BoardProofs` | `BoardTypeCorrect`, `WorkHasTime`, `ResetsAreAsked`, `LitWhenReady` | `[]BoardTypeOK`, `[]EnoughTimeLeft`, `NoSpuriousReset`, `[]ReadyIsLit` for all periods and durations | |
| | `StackTypes`, `WatermarkReachesDown`, `WatermarkIsExact` | `[]StackTypeOK`, `[]NeverTooLow`, `[]NeverTooHigh` for any stack, frame and slack | |
| `CodecProofs` | `DecoderIsExact`, `NoEncodingRefused` | `[]DecodesExactly`, and its second half for every sequence of bytes | |
| | `CodecTypes` | `[]TypeOK` for any width of a symbol, length of a key and order of members | |
| | `FiledStands` | `[]FiledStandsInRequest`: whatever the body, the filed keys stand in it as whole quoted texts behind their names, and the record can be read back | |
| | `NothingFoundRefused` | a write in which the search found a matching pair and a valid id is not answered with a 400 | |
| `BenchToolProofs` | `RefreshesDoNotPileUp`, `BenchTypes` | `[]NoBacklog`, `[]TypeOK` for any clicks, queues and reboots | |

The bounds that stay in a theorem are those of the model's guards (`QueueBound`,
`MaxRun`, `MaxFaults`, `MaxAge`): the theorem holds for every value of them.

### The arguments

*Keystore.* None of the properties is inductive: that a cut-off erase cannot
damage somebody's record needs to know that a handler that reached its erase had
either found the sector unprotected or shown the secret. `IInv` adds four parts.
`WritingIsUnprotected`: from the check of the stored flag to the last page nothing
sets the flag, and between the pages the sector is exactly what page 0 made of a
blank one. `ErasureIsEntitled`: the comparison of `/clear` still holds when its
erase begins. `SigningHasTheKey`: the handler's copy is the cached record.
`IdleHasNoJob` ties `pc`, `job` and `reply` together. Lemmas say what the flash
operations do: programming a blank sector in two pages gives back the record
(`FullSector`), a cut-off erase leaves every field as it was or unusable
(`CutErase`), and with ascending bytes a torn second page has its marker only if the
ciphertext is complete (`MarkerIsLast`). The last one is where `AscendingPage`
enters, and without it the theorems that need it are false.

*Client and Diag.* Each step is by construction one of `Keystore` or none, so `IInv`
holds there too, and
each module carries a part of its own. `OwnWork`: as long as nobody else
interferes, what is on the board or under way is the client's record, nothing is
erased but to write it, and what the client was told is still so. `ConclusionHolds`
is about more, a client whose record others may have changed before it asked:
`Concluded` says that since its request was served (`OwnHands`) whatever is written
is the client's, that the handler serving its `/sign` is one (`OwnAnswer`), and that
what it was told is true of the board (`Told`); the answer of the handler makes it
true, and each step of another handler, a cut and a late duplicate of the client's
own `/write` keep it true. `Marked` says of each point of a handler which stages the
scratch register may hold, and `Fresh` that a run which has set none has an empty one.

*HttpConn.* `HandledOnce` is not inductive: that a second handler cannot run needs
to know that a connection which may still dispatch has run none. `Budget` says so;
it holds through a failed `tcp_write()` because that connection is closing and
receives nothing more. A new connection starts from a fresh state because `Budget`
also ties a state without callbacks to `Fresh`, and `StatesAreOwned` rules out that
a connection that does not exist has callbacks. `Whole` adds what `DispatchedWhole`
rests on: until it has dispatched, a live connection has in its buffer exactly what
was sent, so that `req_len` measures the request and not what was kept of it.

*UsbNetwork.* `HandOff` ties the shared pointer `received_frame` to the owner of the
frame in each phase of `usb_network_update()`: while lwIP has a frame the pointer
shows it and lwIP owns it, otherwise a set pointer is owned by the driver. It is what
stops the release after `netif_usb.input()` from freeing a frame twice.

*Dhcp.* `GrantsAreKept` is about a history variable and a comparison modulo `Wrap`.
`Kept` relates them: the distance from the clock to the end of a granted lease
(`Ahead`) lies between what is left of the granted time and that plus a granule.
`GrantLasts` shows it for a new lease, `OneLess` and `NextTick` carry it over a tick
whether or not the clock wraps, and `Lease + Granule < Half` makes the signed
comparison say "not expired" for every such distance. `UseIsGranted` adds for each
host that it stops using its address no later than the granted time ends.
`NoNeedlessSilence` needs the other direction, and past the end of the lease:
`Followed` says that what is bound is bound to its last holder and that `Ahead` is
some number from `Lease` to `Lease + Granule - 1` less the age, modulo `Wrap`, until
the age passes `Lease + Half`; in that window the code's comparison finds the end of
every lease that is over (`SeenExpired`), and the search takes the first one
(`FirstFinds`).

*Board.* `EnoughTimeLeft` is inductive only together with what each iteration starts
with: until a reset is asked for the watchdog holds its long period, and what
bring-up used of it is at most `InitTime` when the first poll begins (`PeriodLeft`).
`StepsFit` says that random words are drawn only in the entropy step of a write and
none is under way when a poll or an iteration begins; `TimeNeeded` sums the steps
that are left, and drawing a word, waiting and advancing each take from it exactly
what they take from the counter. `ReadyIsLit` needs to know of each phase of a
pattern in which state it leaves the pin.

*Stack.* `StackInv` says which cells hold the paint: while `stack_init()` paints,
the ones it has passed, and afterwards all those below the deepest byte written,
unless an interrupt came in between. `stack_watermark()` is a maximum; `Watermark`
says what it returns, `DepthIsSeen` and `PaintIsSeen` compare it with one cell.

*Codec.* `Decoded` relates the decoder to an encoder written from RFC 4648: the
quartets read so far are the encoding of the bytes stored so far, and a text that
was refused is the encoding of nothing that fits. A quartet that passes the tests
has as its symbols the digits of its number, and the bytes that are not taken are
zero (`PassingQuartet`, from the test of the left over bits by `OneByteShort` and
`TwoBytesShort`); a quartet of an encoding passes them (`EncodingPasses`, by
`OneDigitShort` and `TwoDigitsShort`). Both rest on three bytes and four symbols
being two ways to write one number (`DigitsOfNumber`, `NumberOfDigits`,
`BytesOfNumber`, `NumberOfBytes`). `EncodeInjective`, that no two keys have one
encoding, turns "the decoder returned something else" into "the text found was
something else", which is what `NothingFoundRefused` needs at each refusal
(`PkRefused`, `SkRefused`). `Searched` says that each field is what the search finds in
the body, and `FoundStands` that what it finds stands there between two quotes, behind
the quoted key, unless it was cut. `CodecInv` ties the stage
to the text being decoded, and a refusal to its reason. That no cut text is ever
taken for a key rests on the size of the buffers, 63 and 127 characters: a text that
fills one has a length that is 3 modulo 4, which no encoding has (`KeyStands`). The
sizes are in `CodecAssumption`, as the arrays in `handle_write_post()` have them.

*BenchTool.* `NoBacklog` follows from `OneWaits`, that the queue holds at most one
auto refresh: it is only put into an empty one. That `timers` is bounded is not inductive:
`Typed` keeps a ledger of resets (clicks to come, tasks, the worker's job, results,
timers), whose sum never grows.

Sequences of any length are argued about without induction over data: where a least
or greatest element is needed, `LeastNat` of `NumberFacts` gives one from the
well-foundedness of the natural numbers, and what a decoder has done so far is an
invariant of its steps.

### What the proofs said of the model

* In `Stack` the cell to paint can be one past the last; the type said otherwise.
* `BenchTool` had the whole of `_pump()` as one step. The bound on its answers could
  not be stated without saying how long it goes on, and in the program the worker may
  add one meanwhile: it is now one result per step.
* `DecodesExactly` names one candidate for what a text encodes, since TLC cannot look
  at all sequences of bytes. `NoEncodingRefused` says it of all.
* Assumptions that the runs met without naming them are named: the sizes of the two
  buffers for keys, that no field is called "missing", that the handler which asks for
  a device id asks for both keys too.

### Only model-checked

Liveness: `SlotsComeBack`, `StallsRecover`, `LedSettles`, `FramesAreServed`,
`HostsGetAddresses`, `ShownInTheEnd`. Fairness and `ENABLED` are outside the prover.

`FieldsAreFound`, `FiledIsWhatWasSent` and `SoundIsFiled`. They compare what the search
returns with what the client meant by its members, through `JSON`, which joins the texts
of the members into one. To place a member in that text is an induction over the
members, which the prover cannot do. The theorems say what holds for the text as such:
`FiledStands` of every record that is filed, `NothingFoundRefused` of every request
that is refused. `DecoderIsExact` is proved of every text.

The three runs of section 6 that find a violation have nothing to prove.

## 5. What is abstracted

Logging, counters and the wording of answers; HTTP routing (`HttpConn` has one
dispatch whose status depends on the length); the UDP plumbing of the DHCP server;
what random numbers are like (that a key pair is fresh is a choice in `Keystore`,
how long it takes is in `MainLoop`); the MAC address; widgets
and presentation of the bench tool. `Keystore` and `HttpConn` are not composed: a
handler runs inside one `RecvDispatch`, since nothing else runs meanwhile, and
`Client` has the connection as a message that is answered or lost.

Not modelled at all: `tweetnacl.c`, which is vendored; tables and build options
(`usb_descriptors.c`, `tusb_config.h`, `lwipopts.h`); the host programs under
`tools/`, whose expectations `Codec` and `Stack` cover; the build.

## 6. What was found

Three runs are expected to fail, each against a sentence of the documentation:

* `bad_id`: "`device_id` must be 1..32 characters" (`src/README.md:38`), and a bad
  device id is answered with 400 (`:65`); `src/tools/record_test.c:83` has the check
  "id 33 chars rejected". `record_device_id_valid()` does reject it, but never sees it:
  `json_get_string()` has cut the text to its buffer of 32 characters
  (`http_server.c:133`), and the board files the shortened id with a 200.
* `acked_reset`: "reboots the board ~100 ms after the reply has been
  acknowledged" (`src/README.md:151`). If the client's FIN arrives before its
  acknowledgement, `http_recv_cb()` closes the connection and frees the state
  with `reset_after_send` in it; the acknowledgement finds no callback.
* `reset_happens`: the same sentence. `watchdog_reboot(0, 0, 100)` sets a
  period of 100 ms, and the main loop then reloads it every iteration.

The following came up while the modules were written. The passing properties
carry the exception each of them needs, so that they say precisely what holds:

* `keystore_load()` never looks at the stored flag. A `/clear` cut off in its
  erase, after the marker is gone and before the record is, leaves a board that
  counts as unprovisioned and still signs (`README.md:121` says 503).
  `AnswersTrue` therefore speaks of signatures of a provisioned board.
* `keystore_provision()` returns on a flash error without dropping the cache,
  although `keystore.c:12-13` says that it does. `CacheSound` says what is left:
  the cache never contradicts a record that can be read.
* Marker and ciphertext are two ends of one page program. If a chip does not
  program a page in address order, a cut can set the marker on a record that does
  not decrypt (`AscendingPage = FALSE` in `MCKeystore.cfg` shows it).
* A request that was refused, or a `/clear` that is over, leaves its stage in the
  scratch register, and a watchdog reset of the same run in the main loop is reported
  under it. `DeathIsNamed` is about runs that died inside a marked handler, and
  `NoStaleStage` about runs that set no stage at all.
* Content-Length is parsed once, from whatever the first segment held. A header
  cut before or in the field gives a number that is too small: the handler's limit
  is not applied and the body may be dispatched short. `DispatchedWhole` assumes
  the number was read whole.
* After an acknowledged reset the watchdog's period (100 ms) is shorter than a
  sector erase, and requests are still served (`~asked` in `EnoughTimeLeft` and
  `NoSpuriousReset`).
* After key `s` the watchdog stays armed, so a shutdown lasts three seconds
  (`StallsRecover` includes `ended`).
* A re-initialisation delivered inside `tud_output()` while lwIP works on a frame
  frees that frame, and a frame received right after it is forgotten when lwIP returns
  (`nested` in `FramesAreOwned` and `FramesAreServed`).
* When `pbuf_alloc()` fails the frame counts as accepted, nothing is serviced and
  the endpoint stays unarmed until the host re-initialises (`lost` in
  `ReceiverAlive`).
* `_auto_tick()` can slip in between `get()` and `inflight = True` and queue a
  refresh behind a request (the two of `NoBacklog`).
* `json_get_string()` knows no escapes and skips only blanks and tabs behind the colon:
  sound JSON with `\/` in a key, or with a newline in front of a value, is answered with
  400 (`Plainly` in `FieldsAreFound` and `SoundIsFiled`). No document promises more than
  the bodies it shows. A quoted key that stands in front of its member, as a value, in
  a nested object or at the end of a text, diverts the search (`Astray`).
* `_pump()` catches `queue.Empty` only. A snapshot whose values cannot be shown raises in
  `_handle_result()`, the timer is not set again, and the window shows no answer any more
  (`pump = "dead"` in `ShownInTheEnd`).
* An interrupt while `stack_init()` paints is painted over or counted, depending on where
  it wrote: `NeverTooLow` counts from the end of painting, `NeverTooHigh` excepts it.
* After a flash error in a `/write` that follows somebody's cut-off `/clear`, the
  cache of the old record stands, and `/sign` answers from it for a board that
  counts as unprovisioned. `ConclusionHolds` is about provisioned boards.
* A `/write` its sender gave up on can be served after somebody else's `/clear`
  and file the record again (`ServeLate`); the client's conclusion is then about
  the past (`others # "since"`).
* The error pattern of the LED stays until the next signal; nothing else ends it
  (`LedSettles` lets it come to rest there).
* The first iteration of the main loop shares its watchdog period with bring-up,
  which decrypts the record and may wait for the TRNG; the sum still fits
  (`MainLoopAssumption`), and would not be noticed by a test that starts later.
* `opt_find()` takes a PAD option for one with a length, so a message that is
  padded in front is misread and not answered; one without END is read beyond what
  was received, into whatever the buffer on the stack held. The model sends rows
  that have an END.
* A connection has no idle timeout; a reply that runs into `ERR_MEM` after a
  successful `/write` makes the client's retry a 403 (`RetryIsSafe` says what that
  is worth); a DHCP renewal (without option 50) is ignored and lapses; a lease that
  ended more than half a clock period ago looks live again; a client may come to
  hold two leases; a snapshot that is answered between a reset's reply and the
  reboot is subtracted from the next run's counters.

## 7. Plan

Done: `Storage` and `Keystore` with `OneShot`, `Diag`, `HttpConn`, `UsbNetwork`,
`BenchTool`, `Stack`; then `Client` over `Keystore`, `MainLoop` with its steps,
the entropy's deadlines and the LED (`Board`), `Dhcp` with its hosts (`DhcpLink`),
and `Base64` and `Fields` joined into `Codec`. Every safety property that a run
checks is a theorem but for the three of `Codec` that section 4 names.

Left, the model:

1. `MainLoop` composed with `UsbNetwork`, so that a stall is a host that stops
   reading.
2. `Keystore` under `HttpConn`, with `Client`'s message replaced by a connection.
3. The counters of `/debug` against the connections they count.

Left, the proofs:

1. That `DhcpLink` implements an address allocator (a binding is made to one host,
   lasts its lease, and is then free), as a refinement beside `UseIsGranted`.
2. Where a member begins in the text that `JSON` makes of a body, without an induction,
   for `FieldsAreFound` and the two properties that rest on it.
3. The safety half of the liveness properties: a measure that each fair step
   lowers, for `StallsRecover`, `SlotsComeBack` and `ShownInTheEnd`.
