------------------------------- MODULE MainLoop ------------------------------
(***************************************************************************)
(* app_main() of src/main.c against the hardware watchdog: one loop that   *)
(* polls USB and lwIP, runs whatever handler a packet leads to, and feeds  *)
(* the watchdog once per iteration.  A handler is a row of steps, each     *)
(* with a worst case; provisioning starts with the entropy of              *)
(* src/storage.c, fourteen words for a key pair and a nonce, and waits for *)
(* the TRNG at each of them.  The watchdog counts down on its own and is   *)
(* external (the Pico SDK); watchdog_update() reloads the counter with the *)
(* period of the latest watchdog_enable() or watchdog_reboot().            *)
(***************************************************************************)
EXTENDS Naturals

CONSTANTS
    Period,       \* watchdog_enable(3000), in ticks
    ResetDelay,   \* watchdog_reboot(0, 0, 100), in ticks
    Words,        \* 32 bit words of a key pair and a nonce: 8 + 6
    WordTime,     \* STORAGE_TRNG_TIMEOUT_US, what a word may wait for the TRNG
    PollTime,     \* worst case of an iteration without work in it
    OpenTime,     \* worst case of decrypting the record
    BoxTime,      \* worst case of deriving the public key and boxing the payload
    EraseTime,    \* worst case of a sector erase, "~0.4 s" (main.c:66)
    ProgramTime,  \* worst case of programming two pages
    CryptoTime    \* worst case of a signature

\* What follows watchdog_enable() before the first watchdog_update() may come.
InitTime == OpenTime + WordTime

WriteTime == BoxTime + EraseTime + ProgramTime

ASSUME MainLoopAssumption ==
    /\ {Period, ResetDelay, Words, WordTime, PollTime, OpenTime, BoxTime,
        EraseTime, ProgramTime, CryptoTime} \subseteq Nat \ {0}
    /\ PollTime < ResetDelay /\ ResetDelay < EraseTime
    /\ InitTime + Words * WordTime + WriteTime < Period
    /\ InitTime + OpenTime + EraseTime < Period
    /\ InitTime + OpenTime + CryptoTime < Period
    /\ InitTime + 3 * OpenTime < Period
    /\ InitTime + PollTime < Period

VARIABLES
    at,       \* "off", "setup", "poll", "work", "stalled", "loop", "ended"
    doing,    \* "init", "idle", or the handler: "write", "clear", "sign" or "report"
    step,     \* the step of it
    words,    \* random words still to be drawn after this one
    work,     \* ticks the step still takes
    load,     \* the SDK's load_value
    left,     \* the hardware counter
    asked     \* history: a reset was acknowledged in this run

workVars == <<doing, step, words, work>>
vars == <<at, workVars, load, left, asked>>

\* "report" is GET /info and the snapshot of POST /debug; the bench wipe is a
\* "clear" that has less to do.
Doing == {"idle", "init", "write", "clear", "sign", "report"}
Step == {"none", "poll", "open", "probe", "entropy", "boxing", "erase", "program", "crypto",
         "reread"}

TypeOK ==
    /\ at \in {"off", "setup", "poll", "work", "stalled", "loop", "ended"}
    /\ doing \in Doing /\ step \in Step
    /\ words \in 0..Words
    /\ work \in 0..Period
    /\ load \in {Period, ResetDelay}
    /\ left \in 0..Period
    /\ asked \in BOOLEAN

Init ==
    /\ at = "off" /\ doing = "idle" /\ step = "none" /\ words = 0 /\ work = 0
    /\ load = Period /\ left = Period
    /\ asked = FALSE

\* Mutant: the watchdog is disarmed on the way out.
WatchdogStopsAtEnd == at \notin {"off", "setup", "ended"}

WatchdogRunning == at \notin {"off", "setup"}
------------------------------------------------------------------------------
FirstStep(d) ==
    CASE d = "write" -> "entropy" [] d = "idle" -> "poll" [] d = "report" -> "reread"
      [] OTHER -> "open"

\* The handler goes on after the step, unless it returns early.
NextStep(d, s) ==
    CASE s = "entropy" -> "boxing"
      [] s = "boxing" -> "erase"
      [] s = "erase" /\ d = "write" -> "program"
      [] s = "open" /\ d = "init" -> "probe"
      [] s = "open" /\ d = "clear" -> "erase"
      [] s = "open" /\ d = "sign" -> "crypto"
      [] OTHER -> "none"

\* Worst case of a step; of the entropy, that of one word.  A report looks for the
\* self test, the key and the id: a record that does not open is tried three times.
StepTime(s) ==
    CASE s \in {"entropy", "probe"} -> WordTime
      [] s = "poll" -> PollTime
      [] s = "open" -> OpenTime
      [] s = "boxing" -> BoxTime
      [] s = "erase" -> EraseTime
      [] s = "program" -> ProgramTime
      [] s = "crypto" -> CryptoTime
      [] s = "reread" -> 3 * OpenTime
      [] OTHER -> 0

\* Worst case of the steps that come after it.
TimeAfter(d, s) ==
    CASE s = "entropy" -> BoxTime + EraseTime + ProgramTime
      [] s = "boxing" -> EraseTime + ProgramTime
      [] s = "erase" /\ d = "write" -> ProgramTime
      [] s = "open" /\ d = "init" -> WordTime
      [] s = "open" /\ d = "clear" -> EraseTime
      [] s = "open" /\ d = "sign" -> CryptoTime
      [] OTHER -> 0

TimeNeeded == work + words * WordTime + TimeAfter(doing, step)

\* The thread takes up step s of d.
Begin(d, s) ==
    /\ at' = "work" /\ doing' = d /\ step' = s
    /\ words' = IF s = "entropy" THEN Words - 1 ELSE 0
    /\ work' = StepTime(s)
------------------------------------------------------------------------------
\* Reset is released: stack, UART and LED first, the watchdog is not armed yet.
Start ==
    /\ at = "off" /\ at' = "setup"
    /\ UNCHANGED <<workVars, load, left, asked>>

\* watchdog_enable(3000, true), then everything is brought up: of that,
\* keystore_state() and storage_trng_probe() take their time.
Setup ==
    /\ at = "setup"
    /\ Begin("init", "open")
    /\ load' = Period /\ left' = Period
    /\ asked' = FALSE

\* usb_network_init() failed, and app_main() returns.
InitFails ==
    /\ at = "work" /\ doing = "init" /\ step = "open"
    /\ at' = "ended" /\ doing' = "idle" /\ step' = "none" /\ work' = 0
    /\ UNCHANGED <<words, load, left, asked>>

\* usb_network_update(): nothing to do, or a request with work in it.
Poll(d) ==
    /\ at = "poll" /\ d # "init"
    /\ Begin(d, FirstStep(d))
    /\ UNCHANGED <<load, left, asked>>

\* Mutant: a reboot without a delay.
AckResetAtOnce ==
    /\ at = "poll" /\ ~asked
    /\ at' = "loop"
    /\ load' = 0 /\ left' = 0
    /\ asked' = TRUE
    /\ UNCHANGED workVars

\* usb_network_update() delivers the acknowledgement of a reset reply:
\* http_sent_cb() calls watchdog_reboot(), which restarts the count.  One
\* request per run bounds the model; a second one would only repeat this.
AckReset ==
    /\ at = "poll" /\ ~asked
    /\ at' = "loop"
    /\ load' = ResetDelay /\ left' = ResetDelay
    /\ asked' = TRUE
    /\ UNCHANGED workVars
------------------------------------------------------------------------------
\* trng_sample() gets its sample before the deadline: it is mixed into the state.
TrngAnswers ==
    /\ at = "work" /\ step \in {"entropy", "probe"} /\ work > 0
    /\ work' = 0
    /\ UNCHANGED <<at, doing, step, words, load, left, asked>>

\* Mutant: as get_rand_32() of the SDK, the next word waits for the TRNG
\* however long that takes.
DrawUnbounded ==
    /\ at = "work" /\ step = "entropy" /\ work = 0 /\ words > 0
    /\ words' = words - 1
    /\ work' \in {WordTime, Period}
    /\ UNCHANGED <<at, doing, step, load, left, asked>>

\* randombytes(): the next word, whether the sample came or the deadline passed.
DrawWord ==
    /\ at = "work" /\ step = "entropy" /\ work = 0 /\ words > 0
    /\ words' = words - 1
    /\ work' = WordTime
    /\ UNCHANGED <<at, doing, step, load, left, asked>>

\* The step is done, and there is another one.
Advance ==
    /\ at = "work" /\ work = 0 /\ words = 0 /\ NextStep(doing, step) # "none"
    /\ Begin(doing, NextStep(doing, step))
    /\ UNCHANGED <<load, left, asked>>

\* The handler is done, or returns early: a record that does not decrypt or a key
\* that does not match, a failed flash operation.
Return ==
    /\ at = "work" /\ work = 0 /\ words = 0
    /\ \/ NextStep(doing, step) = "none"
       \/ doing # "init" /\ step \in {"open", "erase"}
    /\ at' = IF doing = "init" THEN "poll" ELSE "loop"
    /\ doing' = "idle" /\ step' = "none"
    /\ UNCHANGED <<words, work, load, left, asked>>

\* A handler that never returns: a fault, or tud_output() waiting for the host.
Stall ==
    /\ at = "work" /\ at' = "stalled"
    /\ UNCHANGED <<workVars, load, left, asked>>

\* Mutant: watchdog_update() is missing.
Unfed ==
    /\ at = "loop" /\ at' = "poll"
    /\ UNCHANGED <<left, workVars, load, asked>>

\* led_tick(), stack_check(), watchdog_update(), and no key from the UART.
Feed ==
    /\ at = "loop" /\ at' = "poll"
    /\ left' = load
    /\ UNCHANGED <<workVars, load, asked>>

\* Key 's' ends the loop: everything is taken down and app_main() returns.
Shutdown ==
    /\ at = "loop" /\ at' = "ended"
    /\ left' = load
    /\ UNCHANGED <<workVars, load, asked>>

\* Time passes: in a handler, in a stall, or with nothing running any more.
Tick ==
    /\ WatchdogRunning /\ left > 0
    /\ at \in {"work", "stalled", "ended"} /\ (at = "work" => work > 0)
    /\ left' = left - 1
    /\ work' = IF work > 0 THEN work - 1 ELSE 0
    /\ UNCHANGED <<at, doing, step, words, load, asked>>

\* The counter has run out: the chip is reset, all of the firmware's state with it.
Reset ==
    /\ WatchdogRunning /\ left = 0
    /\ at' = "off" /\ doing' = "idle" /\ step' = "none" /\ words' = 0 /\ work' = 0
    /\ load' = Period /\ left' = Period /\ asked' = FALSE

Next ==
    \/ Start \/ Setup \/ InitFails \/ AckReset \/ TrngAnswers \/ DrawWord \/ Advance
    \/ Return \/ Stall \/ Feed \/ Shutdown \/ Tick \/ Reset
    \/ \E d \in Doing : Poll(d)

Spec == Init /\ [][Next]_vars
------------------------------------------------------------------------------
(* Properties *)

\* main.c:63, storage.c:88: three seconds are far above the longest handler, and
\* every wait has a deadline, so that the watchdog interrupts a handler that
\* makes progress only if a reset has been asked for in this run, however often
\* the TRNG stays silent; otherwise it ends a stall or a firmware that is over.
NoSpuriousReset ==
    [][at = "work" /\ at' = "off" => asked]_vars

\* The counter always covers all the steps that are left, until a reset is asked
\* for: also in the first iteration, which has to share its period with bring-up.
EnoughTimeLeft == at = "work" /\ ~asked => TimeNeeded < left

\* main.c:63: a handler that stalls, or a start that fails, does not leave the
\* board dead until it is unplugged: it boots again some time later.
StallsRecover == at \in {"stalled", "ended"} ~> at = "setup"
------------------------------------------------------------------------------
(* What the documentation says and the code does not keep *)

\* README.md "POST /debug": reset reboots the board ~100 ms after the reply has
\* been acknowledged; but the loop goes on and feeds the shorter period.
ResetHappens == asked ~> at = "off"
==============================================================================
