----------------------------- MODULE BoardProofs -----------------------------
(***************************************************************************)
(* What runs on the board itself.  MainLoop and Led: that the watchdog     *)
(* never cuts work in progress, for every choice of the durations that     *)
(* MainLoopAssumption allows, and that the LED is lit when it says ready.  *)
(* Stack: that the gauge is exact.  Liveness stays with TLC.               *)
(***************************************************************************)
EXTENDS Board, Stack, NumberFacts, TLAPS

\* Until a reset is asked for the watchdog runs on its long period, of which
\* bring-up takes no more than InitTime from the first iteration.
PeriodLeft ==
    /\ ~asked => load = Period
    /\ at = "poll" /\ ~asked => Period <= left + InitTime
    /\ at = "work" /\ ~asked /\ doing = "init"
          => Period + TimeNeeded <= left + InitTime

\* Random words are drawn in the entropy step and in no other; nothing is under
\* way at a poll.
StepsFit ==
    /\ words > 0 => step = "entropy" /\ doing = "write"
    /\ at \in {"poll", "loop"} => words = 0

WatchInv == TypeOK /\ PeriodLeft /\ StepsFit /\ EnoughTimeLeft

LEMMA Times ==
    /\ Period \in Nat /\ ResetDelay \in Nat /\ Words \in Nat /\ WordTime \in Nat
    /\ PollTime \in Nat /\ OpenTime \in Nat /\ BoxTime \in Nat /\ EraseTime \in Nat
    /\ ProgramTime \in Nat /\ CryptoTime \in Nat
    /\ Words >= 1 /\ Words * WordTime \in Nat /\ ResetDelay < Period
<1>1. {Period, ResetDelay, Words, WordTime, PollTime, OpenTime, BoxTime, EraseTime,
       ProgramTime, CryptoTime} \subseteq Nat \ {0}
  BY MainLoopAssumption
<1>2. /\ Period \in Nat /\ ResetDelay \in Nat /\ Words \in Nat \ {0} /\ WordTime \in Nat
      /\ PollTime \in Nat /\ OpenTime \in Nat /\ BoxTime \in Nat /\ EraseTime \in Nat
      /\ ProgramTime \in Nat /\ CryptoTime \in Nat
  BY <1>1
<1>3. \A a, b \in Nat : a * b \in Nat
  OBVIOUS
<1>4. Words * WordTime \in Nat
  BY <1>2, <1>3
<1>5. ResetDelay < Period
  BY <1>2, MainLoopAssumption DEF InitTime
<1> QED BY <1>2, <1>4, <1>5

LEMMA LessIsEnough ==
    \A a, b, c, d \in Int : a <= b /\ c + b <= d => c + a <= d
  OBVIOUS

LEMMA StepTimeFits == \A s \in Step : StepTime(s) \in Nat /\ StepTime(s) < Period
  BY Times, MainLoopAssumption DEF Step, StepTime, InitTime, WriteTime

LEMMA TimeAfterType == \A d \in Doing, s \in Step : TimeAfter(d, s) \in Nat
  BY Times DEF Doing, Step, TimeAfter

\* What a step leaves for the ones after it is enough for them.
LEMMA AdvanceFits ==
    \A d \in Doing, s \in Step : NextStep(d, s) # "none" =>
        LET n == NextStep(d, s) IN
        n \in Step \ {"entropy"} /\ StepTime(n) + TimeAfter(d, n) <= TimeAfter(d, s)
  BY Times DEF Doing, Step, NextStep, StepTime, TimeAfter

\* A handler fits in what bring-up leaves of the period.
LEMMA HandlerFits ==
    \A d \in Doing \ {"init"} :
        LET s == FirstStep(d)
            w == IF s = "entropy" THEN Words - 1 ELSE 0
        IN  /\ s \in Step /\ w \in 0..Words /\ (w > 0 => d = "write")
            /\ InitTime + StepTime(s) + w * WordTime + TimeAfter(d, s) < Period
<1> SUFFICES ASSUME NEW d \in Doing \ {"init"}
    PROVE  LET s == FirstStep(d)
               w == IF s = "entropy" THEN Words - 1 ELSE 0
           IN  /\ s \in Step /\ w \in 0..Words /\ (w > 0 => d = "write")
               /\ InitTime + StepTime(s) + w * WordTime + TimeAfter(d, s) < Period
  OBVIOUS
<1>1. CASE d = "write"
  <2>1. FirstStep(d) = "entropy"
    BY <1>1 DEF FirstStep
  <2>2. (Words - 1) * WordTime + WordTime = Words * WordTime
    BY Times
  <2>3. StepTime("entropy") = WordTime /\ TimeAfter(d, "entropy") = WriteTime
    BY DEF StepTime, TimeAfter, WriteTime
  <2>4. (Words - 1) * WordTime \in Int
    BY Times
  <2>5. InitTime + WordTime + (Words - 1) * WordTime + WriteTime < Period
    BY <2>2, <2>4, Times, MainLoopAssumption DEF InitTime, WriteTime
  <2> QED BY <1>1, <2>1, <2>3, <2>5, Times DEF Step
<1>2. CASE d # "write"
  <2>1. /\ FirstStep(d) \in {"poll", "open", "reread"}
        /\ (d = "idle" <=> FirstStep(d) = "poll") /\ (d = "report" <=> FirstStep(d) = "reread")
    BY <1>2 DEF FirstStep, Doing
  <2>2. 0 * WordTime = 0
    BY Times
  <2>3. InitTime + StepTime(FirstStep(d)) + TimeAfter(d, FirstStep(d)) < Period
    BY <1>2, <2>1, Times, MainLoopAssumption DEF StepTime, TimeAfter, InitTime, Doing
  <2>4. StepTime(FirstStep(d)) \in Nat /\ TimeAfter(d, FirstStep(d)) \in Nat
    BY <2>1, StepTimeFits, TimeAfterType DEF Step
  <2> QED BY <1>2, <2>1, <2>2, <2>3, <2>4, Times DEF Step, InitTime
<1> QED BY <1>1, <1>2

LEMMA InitWatchInv == Init => WatchInv
<1> SUFFICES ASSUME Init PROVE WatchInv
  OBVIOUS
<1>1. 0 \in 0..Period /\ Period \in 0..Period /\ 0 \in 0..Words
  BY Times
<1>2. TypeOK
  BY <1>1 DEF Init, TypeOK, Doing, Step
<1>3. PeriodLeft /\ EnoughTimeLeft /\ StepsFit
  BY DEF Init, PeriodLeft, EnoughTimeLeft, StepsFit
<1> QED BY <1>2, <1>3 DEF WatchInv

LEMMA NextWatchInv == WatchInv /\ [Next]_vars => WatchInv'
<1> SUFFICES ASSUME WatchInv, [Next]_vars PROVE WatchInv'
  OBVIOUS
<1> USE DEF WatchInv
<1>0. /\ 0 \in 0..Period /\ Period \in 0..Period /\ ResetDelay \in 0..Period
      /\ 0 \in 0..Words /\ Words - 1 \in 0..Words
      /\ words \in Nat /\ work \in Nat /\ left \in Nat
      /\ words * WordTime \in Nat /\ 0 * WordTime = 0 /\ asked \in BOOLEAN
  <2>1. \A a, b \in Nat : a * b \in Nat
    OBVIOUS
  <2>2. words \in Nat /\ work \in Nat /\ left \in Nat /\ asked \in BOOLEAN
    BY Times DEF TypeOK
  <2> QED BY Times, <2>1, <2>2
<1>1. CASE Start
  BY <1>1 DEF Start, workVars, TypeOK, PeriodLeft, StepsFit, EnoughTimeLeft
<1>2. CASE Setup
  <2>1. /\ at' = "work" /\ doing' = "init" /\ step' = "open" /\ words' = 0
        /\ work' = OpenTime /\ load' = Period /\ left' = Period /\ asked' = FALSE
    BY <1>2 DEF Setup, Begin, StepTime
  <2>2. OpenTime \in 0..Period /\ asked' \in BOOLEAN
    <3>1. "open" \in Step /\ StepTime("open") = OpenTime
      BY DEF Step, StepTime
    <3>2. OpenTime \in Nat /\ OpenTime < Period
      BY <3>1, StepTimeFits
    <3>3. OpenTime \in 0..Period
      BY <3>2, Times
    <3> QED BY <2>1, <3>3
  <2>3. TypeOK'
    BY <2>1, <2>2, <1>0 DEF TypeOK, Doing, Step
  <2>4. TimeNeeded' = InitTime
    BY <2>1, <1>0, Times DEF TimeNeeded, TimeAfter, InitTime
  <2>5. InitTime < Period /\ InitTime \in Nat
    BY Times, MainLoopAssumption DEF InitTime, WriteTime
  <2> QED BY <2>1, <2>3, <2>4, <2>5, Times DEF PeriodLeft, StepsFit, EnoughTimeLeft
<1>3. CASE InitFails
  BY <1>3, <1>0 DEF InitFails, TypeOK, Doing, Step, PeriodLeft, StepsFit, EnoughTimeLeft
<1>4. ASSUME NEW d \in Doing, Poll(d) PROVE WatchInv'
  <2> DEFINE s == FirstStep(d)
             w == IF s = "entropy" THEN Words - 1 ELSE 0
  <2>1. /\ at = "poll" /\ at' = "work" /\ doing' = d /\ step' = s /\ words' = w
        /\ work' = StepTime(s) /\ load' = load /\ left' = left /\ asked' = asked
        /\ d # "init"
    BY <1>4 DEF Poll, Begin
  <2>2. /\ s \in Step /\ w \in 0..Words /\ (w > 0 => d = "write")
        /\ InitTime + StepTime(s) + w * WordTime + TimeAfter(d, s) < Period
    BY <2>1, HandlerFits
  <2>3. StepTime(s) \in 0..Period
    BY <2>2, StepTimeFits, Times
  <2>4. TypeOK'
    BY <2>1, <2>2, <2>3 DEF TypeOK
  <2>5. StepsFit'
    BY <2>1, <2>2 DEF StepsFit
  <2>6. PeriodLeft'
    BY <2>1 DEF PeriodLeft
  <2>7. EnoughTimeLeft'
    <3>1. TimeNeeded' = StepTime(s) + w * WordTime + TimeAfter(d, s)
      BY <2>1 DEF TimeNeeded
    <3>2. /\ StepTime(s) \in Nat /\ TimeAfter(d, s) \in Nat /\ w * WordTime \in Nat
          /\ InitTime \in Nat
      <4>1. w \in Nat
        BY <2>2, Times
      <4>2. \A a, b \in Nat : a * b \in Nat
        OBVIOUS
      <4> QED BY <4>1, <4>2, <2>2, StepTimeFits, TimeAfterType, Times DEF InitTime
    <3>3. ~asked => Period <= left + InitTime
      BY <2>1 DEF PeriodLeft
    <3>4. ~asked => StepTime(s) + w * WordTime + TimeAfter(d, s) < left
      <4> DEFINE p == w * WordTime
                 a == StepTime(s)
                 b == TimeAfter(d, s)
      <4>1. p \in Nat /\ a \in Nat /\ b \in Nat /\ InitTime + a + p + b < Period
        BY <2>2, <3>2
      <4> HIDE DEF p, a, b
      <4>2. ~asked => a + p + b < left
        BY <4>1, <3>2, <3>3, <1>0, Times
      <4> QED BY <4>2 DEF p, a, b
    <3> QED BY <2>1, <3>1, <3>4 DEF EnoughTimeLeft
  <2> QED BY <2>4, <2>5, <2>6, <2>7
<1>5. CASE AckReset
  BY <1>5, <1>0 DEF AckReset, workVars, TypeOK, PeriodLeft, StepsFit, EnoughTimeLeft
<1>6. CASE TrngAnswers
  <2>1. TypeOK' /\ StepsFit'
    BY <1>6, <1>0 DEF TrngAnswers, TypeOK, StepsFit
  <2>2. TimeNeeded' <= TimeNeeded /\ TimeNeeded' \in Int /\ TimeNeeded \in Int
    <3>1. TimeAfter(doing, step) \in Nat
      BY TimeAfterType DEF TypeOK
    <3> QED BY <1>6, <1>0, <3>1 DEF TrngAnswers, TimeNeeded
  <2>3. at' = at /\ doing' = doing /\ load' = load /\ left' = left /\ asked' = asked
    BY <1>6 DEF TrngAnswers
  <2>4. left \in Nat /\ InitTime \in Nat /\ Period \in Nat /\ asked \in BOOLEAN
    BY <1>0, Times DEF InitTime
  <2>5. PeriodLeft'
    <3>1. at' = "work" /\ at = "work"
      BY <1>6 DEF TrngAnswers
    <3>2. ~asked' => load' = Period
      BY <2>3 DEF PeriodLeft
    <3>3. ASSUME ~asked', doing' = "init" PROVE Period + TimeNeeded' <= left' + InitTime
      <4>1. Period + TimeNeeded <= left + InitTime
        BY <2>3, <3>1, <3>3 DEF PeriodLeft
      <4>2. left + InitTime \in Int /\ Period \in Int
        BY <2>4
      <4> QED BY <4>1, <4>2, <2>2, <2>3, LessIsEnough
    <3> QED BY <3>1, <3>2, <3>3 DEF PeriodLeft
  <2>6. EnoughTimeLeft'
    BY <2>2, <2>3, <2>4 DEF EnoughTimeLeft
  <2> QED BY <2>1, <2>5, <2>6
<1>7. CASE DrawWord
  <2>1. words - 1 \in 0..Words /\ WordTime \in 0..Period
    BY <1>7, <1>0, Times, MainLoopAssumption DEF DrawWord, TypeOK, InitTime
  <2>2. /\ at' = at /\ doing' = doing /\ step' = step /\ load' = load /\ left' = left
        /\ asked' = asked /\ words' = words - 1 /\ work' = WordTime /\ work = 0
        /\ words > 0 /\ step = "entropy" /\ at = "work"
    BY <1>7 DEF DrawWord
  <2>3. TypeOK' /\ StepsFit'
    BY <2>1, <2>2 DEF TypeOK, StepsFit
  <2>4. TimeNeeded' = TimeNeeded
    <3>1. (words - 1) * WordTime + WordTime = words * WordTime
      BY <1>0, Times
    <3>2. (words - 1) * WordTime \in Int
      BY <1>0, Times
    <3>3. TimeAfter(doing, step) \in Nat
      BY TimeAfterType DEF TypeOK
    <3> QED BY <2>2, <3>1, <3>2, <3>3, <1>0, Times DEF TimeNeeded
  <2> QED BY <2>2, <2>3, <2>4 DEF PeriodLeft, EnoughTimeLeft
<1>8. CASE Advance
  <2> DEFINE n == NextStep(doing, step)
  <2>1. /\ n \in Step \ {"entropy"} /\ StepTime(n) + TimeAfter(doing, n) <= TimeAfter(doing, step)
        /\ StepTime(n) \in Nat /\ TimeAfter(doing, n) \in Nat /\ StepTime(n) <= Period
        /\ TimeAfter(doing, step) \in Nat
    BY <1>8, AdvanceFits, StepTimeFits, TimeAfterType, Times DEF Advance, TypeOK
  <2>2. /\ at' = "work" /\ at = "work" /\ doing' = doing /\ step' = n /\ words' = 0
        /\ words = 0 /\ work = 0 /\ work' = StepTime(n)
        /\ load' = load /\ left' = left /\ asked' = asked
    BY <1>8, <2>1 DEF Advance, Begin
  <2>3. StepTime(n) \in 0..Period
    BY <2>1, Times
  <2>4. TypeOK' /\ StepsFit'
    BY <2>1, <2>2, <2>3, <1>0 DEF TypeOK, StepsFit
  <2>5. TimeNeeded' <= TimeNeeded /\ TimeNeeded' \in Int /\ TimeNeeded \in Int
    <3>1. TimeNeeded' = StepTime(n) + TimeAfter(doing, n)
      BY <2>1, <2>2, <1>0 DEF TimeNeeded
    <3>2. TimeNeeded = TimeAfter(doing, step)
      BY <2>1, <2>2, <1>0 DEF TimeNeeded
    <3> QED BY <2>1, <3>1, <3>2
  <2>6. left \in Nat /\ InitTime \in Nat /\ Period \in Nat /\ asked \in BOOLEAN
    BY <1>0, Times DEF InitTime
  <2>7. PeriodLeft'
    <3>1. ~asked' => load' = Period
      BY <2>2 DEF PeriodLeft
    <3>2. ASSUME ~asked', doing' = "init" PROVE Period + TimeNeeded' <= left' + InitTime
      <4>1. Period + TimeNeeded <= left + InitTime
        BY <2>2, <3>2 DEF PeriodLeft
      <4>2. left + InitTime \in Int /\ Period \in Int
        BY <2>6
      <4> QED BY <4>1, <4>2, <2>2, <2>5, LessIsEnough
    <3> QED BY <2>2, <3>1, <3>2 DEF PeriodLeft
  <2>8. EnoughTimeLeft'
    BY <2>2, <2>5, <2>6 DEF EnoughTimeLeft
  <2> QED BY <2>4, <2>7, <2>8
<1>9. CASE Return
  <2>1. TypeOK' /\ StepsFit'
    BY <1>9 DEF Return, TypeOK, Doing, Step, StepsFit
  <2>2. EnoughTimeLeft'
    BY <1>9 DEF Return, EnoughTimeLeft
  <2>3. TimeNeeded \in Nat
    BY <1>0, TimeAfterType DEF TimeNeeded, TypeOK
  <2>4. PeriodLeft'
    <3>1. /\ load' = load /\ left' = left /\ asked' = asked /\ doing' = "idle"
          /\ at = "work" /\ (at' = "poll" <=> doing = "init") /\ at' # "work"
      BY <1>9 DEF Return
    <3>2. InitTime \in Nat
      BY Times DEF InitTime
    <3> QED BY <3>1, <3>2, <2>3, <1>0, Times DEF PeriodLeft
  <2> QED BY <2>1, <2>2, <2>4
<1>10. CASE Stall
  BY <1>10 DEF Stall, workVars, TypeOK, PeriodLeft, StepsFit, EnoughTimeLeft
<1>11. CASE Feed
  <2>1. TypeOK'
    <3>1. load \in 0..Period
      BY <1>0 DEF TypeOK
    <3> QED BY <1>11, <3>1 DEF Feed, workVars, TypeOK
  <2>2. StepsFit' /\ EnoughTimeLeft'
    BY <1>11 DEF Feed, workVars, StepsFit, EnoughTimeLeft
  <2>3. /\ at' = "poll" /\ left' = load /\ load' = load /\ asked' = asked
    BY <1>11 DEF Feed
  <2>4. InitTime \in Nat
    BY Times DEF InitTime
  <2>5. PeriodLeft'
    BY <2>3, <2>4, <1>0, Times DEF PeriodLeft
  <2> QED BY <2>1, <2>2, <2>5
<1>12. CASE Shutdown
  BY <1>12, <1>0 DEF Shutdown, workVars, TypeOK, PeriodLeft, StepsFit, EnoughTimeLeft
<1>13. CASE Tick
  <2>1. left - 1 \in 0..Period /\ work' \in 0..Period
    BY <1>13, <1>0, Times DEF Tick, TypeOK
  <2>2. TypeOK' /\ StepsFit'
    BY <1>13, <2>1 DEF Tick, TypeOK, StepsFit
  <2>3. CASE at = "work"
    <3>1. TimeAfter(doing, step) \in Nat
      BY TimeAfterType DEF TypeOK
    <3>2. TimeNeeded' = TimeNeeded - 1 /\ TimeNeeded \in Nat
      BY <1>13, <2>3, <3>1, <1>0 DEF Tick, TimeNeeded
    <3> QED BY <1>13, <2>2, <2>3, <3>2, <1>0, Times DEF Tick, PeriodLeft, EnoughTimeLeft, InitTime
  <2>4. CASE at # "work"
    BY <1>13, <2>2, <2>4 DEF Tick, PeriodLeft, EnoughTimeLeft
  <2> QED BY <2>3, <2>4
<1>14. CASE Reset
  <2>1. TypeOK'
    BY <1>14, <1>0 DEF Reset, TypeOK, Doing, Step
  <2> QED BY <1>14, <2>1 DEF Reset, PeriodLeft, StepsFit, EnoughTimeLeft
<1>15. CASE UNCHANGED vars
  BY <1>15 DEF vars, workVars, TypeOK, PeriodLeft, StepsFit, EnoughTimeLeft, TimeNeeded
<1> QED BY <1>1, <1>2, <1>3, <1>4, <1>5, <1>6, <1>7, <1>8, <1>9, <1>10, <1>11, <1>12,
           <1>13, <1>14, <1>15 DEF Next

\* Every step of the board is one of the main loop with the LED's part beside it.
LEMMA BoardIsMainLoop == BoardSpec => Spec
<1>1. BoardInit => Init
  BY DEF BoardInit
<1>2. BoardNext => Next
  BY DEF BoardNext, BoardStart, BoardReturn, Signal, QuietPoll, BoardFeed,
         BoardShutdown, BoardTick, BoardReset, Dark, Next, Doing
<1>3. UNCHANGED boardVars => UNCHANGED vars
  BY DEF boardVars
<1> QED BY <1>1, <1>2, <1>3, PTL DEF BoardSpec, Spec

\* Type correctness, and time left for the work in progress, whatever the durations.
LEMMA WatchdogInvariance == Spec => []WatchInv
  BY InitWatchInv, NextWatchInv, PTL DEF Spec

\* The watchdog covers all the steps a handler still has before it, bring-up and
\* fourteen silent waits for the TRNG included, until a reset is asked for.
THEOREM WorkHasTime == BoardSpec => []EnoughTimeLeft
<1>1. WatchInv => EnoughTimeLeft
  BY DEF WatchInv
<1> QED BY <1>1, BoardIsMainLoop, WatchdogInvariance, PTL

\* Work that makes progress is cut only by a reset that was asked for.
THEOREM ResetsAreAsked == BoardSpec => NoSpuriousReset
<1>1. WatchInv /\ [Next]_vars => [at = "work" /\ at' = "off" => asked]_vars
  <2> SUFFICES ASSUME WatchInv, Next, at = "work", at' = "off" PROVE asked
    OBVIOUS
  <2>1. Reset
    BY DEF Next, Start, Setup, InitFails, AckReset, TrngAnswers, DrawWord, Advance, Return,
           Stall, Feed, Shutdown, Tick, Poll, Begin, workVars
  <2>2. left = 0
    BY <2>1 DEF Reset
  <2>3. ~asked => TimeNeeded < left
    BY DEF WatchInv, EnoughTimeLeft
  <2>4. TimeNeeded \in Nat
    <3>1. words \in Nat /\ work \in Nat
      BY Times DEF WatchInv, TypeOK
    <3>2. \A a, b \in Nat : a * b \in Nat
      OBVIOUS
    <3>3. words * WordTime \in Nat
      BY <3>1, <3>2, Times
    <3> QED BY <3>1, <3>3, TimeAfterType DEF TimeNeeded, WatchInv, TypeOK
  <2> QED BY <2>2, <2>3, <2>4
<1> QED BY <1>1, BoardIsMainLoop, WatchdogInvariance, PTL DEF Spec, NoSpuriousReset
------------------------------------------------------------------------------
\* Which phase a pattern is in, and that the way back to ready lights the pin.
Phases ==
    /\ pattern = "activity" => phase = 0
    /\ pattern = "signing" => phase < 5
    /\ at \in {"poll", "loop"} => doing # "init"

LedInv == LedTypeOK /\ Phases /\ ReadyIsLit

LEMMA Beats ==
    /\ Beat \in Nat \ {0}
    /\ {0, Beat, 2 * Beat, 3 * Beat, 10 * Beat, 20 * Beat} \subseteq 0..(20 * Beat)
<1>1. Beat \in Nat \ {0}
  BY LedAssumption
<1> QED BY <1>1

LEMMA InitLedInv == BoardInit => LedInv
<1>1. 0 \in 0..(20 * Beat) /\ 0 \in 0..5
  BY Beats
<1>2. BoardInit => LedTypeOK
  BY <1>1, Zenon DEF BoardInit, LedInit, LedTypeOK
<1>3. BoardInit => Phases /\ ReadyIsLit
  BY DEF BoardInit, Init, LedInit, Phases, ReadyIsLit
<1> QED BY <1>2, <1>3 DEF LedInv

\* A signal starts its pattern at the first phase; only led_init() and
\* led_set_ready() show ready, and the latter lights it.
LEMMA ShowKeepsLedType ==
    \A p \in {"ready", "activity", "signing", "error"}, v \in BOOLEAN, n \in {1, 2, 3, 10} :
        Show(p, v, n) => LedTypeOK'
<1> SUFFICES ASSUME NEW p \in {"ready", "activity", "signing", "error"}, NEW v \in BOOLEAN,
                    NEW n \in {1, 2, 3, 10}, Show(p, v, n)
    PROVE  LedTypeOK'
  OBVIOUS
<1>1. n * Beat \in 0..(20 * Beat)
  BY Beats
<1>2. pattern' = p /\ phase' = 0 /\ pin' = v /\ due' = n * Beat
  BY DEF Show
<1> QED BY <1>1, <1>2 DEF LedTypeOK

\* led_tick() keeps the patterns in their phases, and lights the pin with ready.
LEMMA TickKeepsLed ==
    LedInv /\ led_tick =>
        /\ LedTypeOK'
        /\ pattern' = "activity" => phase' = 0
        /\ pattern' = "signing" => phase' < 5
        /\ pattern' = "ready" => pin' \/ (pattern = "ready" /\ pin' = pin)
<1> SUFFICES ASSUME LedInv, led_tick
    PROVE  /\ LedTypeOK'
           /\ pattern' = "activity" => phase' = 0
           /\ pattern' = "signing" => phase' < 5
           /\ pattern' = "ready" => pin' \/ (pattern = "ready" /\ pin' = pin)
  OBVIOUS
<1>0. /\ phase \in 0..5 /\ pin \in BOOLEAN /\ due \in 0..(20 * Beat)
      /\ pattern \in {"ready", "activity", "signing", "error"}
      /\ (pattern = "activity" => phase = 0) /\ (pattern = "signing" => phase < 5)
  BY DEF LedInv, LedTypeOK, Phases
<1>1. CASE UNCHANGED ledVars
  BY <1>1, <1>0 DEF ledVars, LedTypeOK
<1>2. CASE TickReady
  <2>1. due' \in 0..(20 * Beat)
    BY <1>2, Beats DEF TickReady
  <2> QED BY <1>2, <1>0, <2>1 DEF TickReady, LedTypeOK
<1>3. CASE TickActivity
  <2>1. phase' \in 0..5
    BY <1>3, <1>0 DEF TickActivity
  <2> QED BY <1>3, <1>0, <2>1 DEF TickActivity, LedTypeOK
<1>4. CASE TickSigning
  <2>1. pattern = "signing" /\ phase' = phase + 1 /\ phase \in 0..4 /\ phase' \in 1..5
    BY <1>4, <1>0 DEF TickSigning
  <2>2. due' \in 0..(20 * Beat)
    BY <1>4, Beats DEF TickSigning
  <2>3. pin' = (phase' \notin {1, 3}) /\ pin' \in BOOLEAN
    BY <1>4 DEF TickSigning
  <2>4. pattern' = IF phase' < 5 THEN "signing" ELSE "ready"
    BY <1>4 DEF TickSigning
  <2>5. ~(phase' < 5) => phase' = 5 /\ phase' \notin {1, 3}
    BY <2>1
  <2>6. LedTypeOK'
    BY <2>1, <2>2, <2>3, <2>4 DEF LedTypeOK
  <2>7. pattern' = "ready" => pin'
    <3>1. pattern' = "ready" => ~(phase' < 5)
      BY <2>4
    <3> QED BY <2>3, <2>5, <3>1, Zenon
  <2> QED BY <2>4, <2>6, <2>7
<1>5. CASE TickError
  <2>1. due' \in 0..(20 * Beat)
    BY <1>5, Beats DEF TickError
  <2> QED BY <1>5, <1>0, <2>1 DEF TickError, LedTypeOK
<1> QED BY <1>1, <1>2, <1>3, <1>4, <1>5 DEF led_tick

LEMMA NextLedInv == WatchInv /\ LedInv /\ [BoardNext]_boardVars => LedInv'
<1> SUFFICES ASSUME WatchInv, LedInv, [BoardNext]_boardVars PROVE LedInv'
  OBVIOUS
<1>0. LedTypeOK /\ Phases /\ ReadyIsLit /\ pin \in BOOLEAN
  BY DEF LedInv, LedTypeOK
<1>1. CASE BoardStart
  <2>1. LedTypeOK'
    BY <1>1, ShowKeepsLedType DEF BoardStart, led_init
  <2> QED BY <1>1, <2>1 DEF BoardStart, Start, led_init, Show, LedInv, Phases, ReadyIsLit
<1>2. CASE BoardReturn
  <2>1. CASE doing = "init"
    <3>1. LedTypeOK'
      BY <1>2, <2>1, ShowKeepsLedType DEF BoardReturn, led_set_ready
    <3> QED BY <1>2, <2>1, <3>1
            DEF BoardReturn, Return, led_set_ready, Show, LedInv, Phases, ReadyIsLit
  <2>2. CASE doing # "init"
    BY <1>0, <1>2, <2>2
       DEF BoardReturn, Return, ledVars, LedTypeOK, LedInv, Phases, ReadyIsLit
  <2> QED BY <2>1, <2>2
<1>3. CASE Signal
  <2>1. LedTypeOK'
    BY <1>3, ShowKeepsLedType DEF Signal, led_signal_activity, led_signal_error, led_signal_signing
  <2>2. pattern' # "ready" /\ phase' = 0
    BY <1>3 DEF Signal, led_signal_activity, led_signal_error, led_signal_signing, Show
  <2>3. at' \in {"poll", "loop"} => doing' # "init"
    BY <1>0, <1>3 DEF Signal, Poll, Begin, AckReset, Return, workVars, Phases
  <2> QED BY <2>1, <2>2, <2>3 DEF LedInv, Phases, ReadyIsLit
<1>4. CASE QuietPoll
  <2>1. PICK d \in Doing : Poll(d) /\ UNCHANGED ledVars
    BY <1>4 DEF QuietPoll
  <2> QED BY <1>0, <2>1 DEF Poll, Begin, ledVars, LedTypeOK, LedInv, Phases, ReadyIsLit
<1>5. CASE BoardFeed \/ BoardShutdown
  <2>1. led_tick /\ at = "loop" /\ at' \in {"poll", "ended"} /\ doing' = doing
    BY <1>5 DEF BoardFeed, BoardShutdown, Feed, Shutdown, workVars
  <2> QED BY <1>0, <2>1, TickKeepsLed DEF LedInv, Phases, ReadyIsLit
<1>6. CASE BoardTick
  <2>1. due' \in 0..(20 * Beat)
    <3>1. due \in 0..(20 * Beat) /\ (due' = IF due > 0 THEN due - 1 ELSE 0)
      BY <1>0, <1>6 DEF BoardTick, LedTimePasses, LedTypeOK
    <3> QED BY <3>1, Beats
  <2> QED BY <1>0, <1>6, <2>1
          DEF BoardTick, Tick, LedTimePasses, LedTypeOK, LedInv, Phases, ReadyIsLit
<1>7. CASE BoardReset
  <2>1. 0 \in 0..(20 * Beat) /\ 0 \in 0..5
    BY Beats
  <2>2. LedTypeOK'
    BY <1>7, <2>1, Zenon DEF BoardReset, LedTypeOK
  <2> QED BY <1>7, <2>2 DEF BoardReset, Reset, LedInv, Phases, ReadyIsLit
<1>8. CASE Dark
  <2>1. UNCHANGED ledVars
    BY <1>8 DEF Dark
  <2>2. LedTypeOK'
    BY <1>0, <2>1 DEF ledVars, LedTypeOK
  <2>3. CASE Setup \/ InitFails
    BY <1>0, <2>1, <2>2, <2>3
       DEF Setup, Begin, InitFails, ledVars, LedInv, Phases, ReadyIsLit
  <2>4. CASE AckReset \/ TrngAnswers \/ DrawWord \/ Advance \/ Stall
    BY <1>0, <2>1, <2>2, <2>4
       DEF AckReset, TrngAnswers, DrawWord, Advance, Stall, Begin, workVars, ledVars, LedInv,
           Phases, ReadyIsLit
  <2> QED BY <1>8, <2>3, <2>4 DEF Dark
<1>9. CASE UNCHANGED boardVars
  BY <1>0, <1>9 DEF boardVars, vars, workVars, ledVars, LedTypeOK, LedInv, Phases, ReadyIsLit
<1> QED BY <1>1, <1>2, <1>3, <1>4, <1>5, <1>6, <1>7, <1>8, <1>9 DEF BoardNext

\* While the board serves, a LED in the ready pattern is lit, however the times of
\* the handlers and of the beats relate.
THEOREM LitWhenReady == BoardSpec => []ReadyIsLit
<1>1. LedInv => ReadyIsLit
  BY DEF LedInv
<1> QED BY <1>1, InitLedInv, NextLedInv, BoardIsMainLoop, WatchdogInvariance, PTL DEF BoardSpec

\* Type correctness of the loop and the LED.
THEOREM BoardTypeCorrect == BoardSpec => []BoardTypeOK
<1>1. WatchInv /\ LedInv => BoardTypeOK
  BY DEF WatchInv, LedInv, BoardTypeOK
<1> QED BY <1>1, InitLedInv, NextLedInv, BoardIsMainLoop, WatchdogInvariance, PTL DEF BoardSpec
------------------------------------------------------------------------------
(* The stack gauge: exact, for every stack, frame and slack.                    *)

LEMMA StackSizes ==
    /\ Size \in Nat \ {0} /\ Entry \in Nat /\ Slack \in Nat
    /\ Limit \in 1..Size /\ Limit = Size - (Entry + Slack)
BY StackAssumption DEF Limit

\* The watermark: so many cells hold the paint, and no more.
LEMMA Watermark ==
    ASSUME NEW m
    PROVE  /\ stack_watermark(m) \in 0..Size
           /\ \A c \in 1..stack_watermark(m) : m[c] = "paint"
           /\ \A n \in 0..Size : (\A c \in 1..n : m[c] = "paint") => n <= stack_watermark(m)
<1> DEFINE P(n) == \A c \in 1..n : m[c] = "paint"
           T == {n \in 0..Size : P(n)}
<1>1. 0 \in T
  BY StackSizes
<1>2. T \in SUBSET Nat /\ T # {} /\ \A x \in T : x <= Size
  BY <1>1, StackSizes
<1>3. stack_watermark(m) = Max(T)
  BY DEF stack_watermark
<1>4. Max(T) \in T /\ \A x \in T : x <= Max(T)
  BY <1>2, StackSizes, Greatest
<1> QED BY <1>3, <1>4

\* The gauge reads at least as deep as the deepest byte that lost its paint ...
LEMMA DepthIsSeen ==
    ASSUME NEW m, NEW d \in 1..Size, m[Size - d + 1] # "paint"
    PROVE  d <= Used(m)
<1>1. stack_watermark(m) \in 0..Size /\ \A c \in 1..stack_watermark(m) : m[c] = "paint"
  BY Watermark
<1>2. Size - d + 1 \in 1..Size
  BY StackSizes
<1>3. ~(Size - d + 1 <= stack_watermark(m))
  <2> DEFINE w == stack_watermark(m)
             e == Size - d + 1
  <2> SUFFICES ASSUME e <= w PROVE FALSE
    OBVIOUS
  <2>1. w \in 0..Size /\ e \in 1..Size /\ (\A c \in 1..w : m[c] = "paint") /\ m[e] # "paint"
    BY <1>1, <1>2
  <2> HIDE DEF w, e
  <2> QED BY <2>1, StackSizes
<1> QED BY <1>1, <1>2, <1>3, StackSizes DEF Used

\* ... and no deeper than to where all cells hold it.
LEMMA PaintIsSeen ==
    ASSUME NEW m, NEW n \in 0..Size, \A c \in 1..n : m[c] = "paint"
    PROVE  Used(m) \in 0..Size /\ Used(m) <= Size - n
<1>1. stack_watermark(m) \in 0..Size /\ n <= stack_watermark(m)
  BY Watermark
<1> QED BY <1>1, StackSizes DEF Used
------------------------------------------------------------------------------
\* What is painted stays painted but for the cells the stack has reached, and the
\* gauge has seen it all when it was last looked at.
Painted ==
    /\ next > 0 => used_max = 0 /\ ~sampled
    /\ ~tainted /\ next > 0 => \A c \in 1..(next - 1) : mem[c] = "paint"
    /\ ~tainted /\ next = 0 => \A c \in 1..Limit : c <= Size - deepest => mem[c] = "paint"
    /\ sampled => used_max >= Used(mem)

StackInv == StackTypeOK /\ Painted /\ NeverTooHigh

\* The gauge never reads deeper than was used, or than what is never painted.
LEMMA NotTooDeep ==
    ASSUME NEW m, NEW d \in 0..Size, \A c \in 1..Limit : c <= Size - d => m[c] = "paint"
    PROVE  Used(m) <= Max({d, Entry + Slack})
<1> DEFINE M == Max({d, Entry + Slack})
<1>1. M \in {d, Entry + Slack} /\ d <= M /\ Entry + Slack <= M
  BY StackSizes, GreaterOfTwo
<1> HIDE DEF M
<1>2. M \in 0..Size /\ Size - M \in 0..Size
  BY <1>1, StackSizes
<1>3. \A c \in 1..(Size - M) : m[c] = "paint"
  <2> SUFFICES ASSUME NEW c \in 1..(Size - M) PROVE m[c] = "paint"
    OBVIOUS
  <2>1. c \in 1..Limit /\ c <= Size - d
    BY <1>1, <1>2, StackSizes
  <2> QED BY <2>1
<1>4. Used(m) \in 0..Size /\ Used(m) <= Size - (Size - M)
  BY <1>2, <1>3, PaintIsSeen
<1> QED BY <1>2, <1>4, StackSizes DEF M

LEMMA UsedType == ASSUME NEW m PROVE Used(m) \in 0..Size
<1>1. \A c \in 1..0 : m[c] = "paint"
  OBVIOUS
<1> QED BY <1>1, StackSizes, PaintIsSeen

LEMMA InitStackInv == StackInit => StackInv
<1> SUFFICES ASSUME StackInit PROVE StackInv
  OBVIOUS
<1>1. StackTypeOK
  <2>1. 1 \in 0..(Limit + 1) /\ 0 \in 0..Size
    BY StackSizes
  <2>2. FALSE \in BOOLEAN
    OBVIOUS
  <2> QED BY <2>1, <2>2, Zenon DEF StackInit, StackTypeOK
<1>2. Painted
  BY DEF StackInit, Painted
<1>3. NeverTooHigh
  <2>1. 0 <= Max({0, Entry + Slack})
    BY StackSizes, GreaterOfTwo
  <2> QED BY <2>1 DEF StackInit, NeverTooHigh
<1> QED BY <1>1, <1>2, <1>3 DEF StackInv

LEMMA PaintStep == ASSUME StackInv, PaintCell PROVE StackInv'
<1>1. /\ next \in 1..Limit /\ next' = next + 1 /\ mem' = [mem EXCEPT ![next] = "paint"]
      /\ UNCHANGED <<used_max, deepest, tainted, sampled>>
  BY DEF PaintCell
<1>2. mem \in [Cell -> Value] /\ next \in Cell
  BY <1>1, StackSizes DEF StackInv, StackTypeOK, Cell
<1>3. StackTypeOK'
  BY <1>1, <1>2, StackSizes DEF StackInv, StackTypeOK, Value
<1>4. ~tainted => \A c \in 1..(next' - 1) : mem'[c] = "paint"
  <2> SUFFICES ASSUME ~tainted, NEW c \in 1..next PROVE mem'[c] = "paint"
    BY <1>1, StackSizes
  <2>1. c \in Cell
    BY <1>1, StackSizes DEF Cell
  <2>2. c # next => mem[c] = "paint"
    BY <1>1, StackSizes DEF StackInv, Painted
  <2> QED BY <1>1, <1>2, <2>1, <2>2
<1>5. Painted'
  BY <1>1, <1>4, StackSizes DEF StackInv, Painted
<1>6. NeverTooHigh'
  BY <1>1 DEF StackInv, NeverTooHigh
<1> QED BY <1>3, <1>5, <1>6 DEF StackInv

LEMMA PaintDoneStep == ASSUME StackInv, PaintDone PROVE StackInv'
<1>1. /\ next > Limit /\ next' = 0 /\ used_max' = Used(mem) /\ deepest' = 0 /\ sampled' = TRUE
      /\ mem' = mem /\ tainted' = tainted
  BY DEF PaintDone
<1>2. next = Limit + 1 /\ Used(mem) \in 0..Size
  BY <1>1, StackSizes, UsedType DEF StackInv, StackTypeOK
<1>3. StackTypeOK'
  BY <1>1, <1>2, StackSizes DEF StackInv, StackTypeOK
<1>4. ~tainted => \A c \in 1..Limit : mem[c] = "paint"
  BY <1>2, StackSizes DEF StackInv, Painted
<1>5. Painted'
  <2>1. Used(mem)' = Used(mem)
    BY <1>1 DEF Used, stack_watermark
  <2> QED BY <1>1, <1>2, <1>4, <2>1 DEF Painted
<1>6. NeverTooHigh'
  <2>1. 0 \in 0..Size
    BY StackSizes
  <2>2. ~tainted => Used(mem) <= Max({0, Entry + Slack})
    BY <1>4, <2>1, NotTooDeep
  <2> QED BY <1>1, <2>2 DEF NeverTooHigh
<1> QED BY <1>3, <1>5, <1>6 DEF StackInv

LEMMA WriteStep == ASSUME StackInv, NEW c \in Cell, NEW v \in Value, Write(c, v) PROVE StackInv'
<1> DEFINE d == Size - c + 1
<1>1. /\ mem' = [mem EXCEPT ![c] = v] /\ deepest' = Max({deepest, d}) /\ sampled' = FALSE
      /\ tainted' = (tainted \/ next > 0) /\ next' = next /\ used_max' = used_max
  BY DEF Write
<1>2. /\ mem \in [Cell -> Value] /\ deepest \in 0..Size /\ used_max \in 0..Size
      /\ next \in 0..(Limit + 1) /\ tainted \in BOOLEAN
  BY DEF StackInv, StackTypeOK
<1>3. d \in 1..Size /\ c \in 1..Size
  BY StackSizes DEF Cell
<1>4. deepest' \in {deepest, d} /\ deepest <= deepest' /\ d <= deepest'
  BY <1>1, <1>2, <1>3, StackSizes, GreaterOfTwo
<1>5. deepest' \in 0..Size
  BY <1>2, <1>3, <1>4
<1>6. StackTypeOK'
  <2>1. mem' \in [Cell -> Value] /\ tainted' \in BOOLEAN
    BY <1>1, <1>2
  <2> QED BY <1>1, <1>2, <1>5, <2>1 DEF StackTypeOK
<1>7. Painted'
  <2>1. ASSUME ~tainted', NEW e \in 1..Limit, e <= Size - deepest' PROVE mem'[e] = "paint"
    <3>0. ~tainted /\ ~(next > 0)
      BY <1>1, <2>1, Zenon
    <3>1. next = 0 /\ ~tainted
      BY <1>2, <3>0, StackSizes
    <3>2. e # c /\ e <= Size - deepest /\ e \in Cell
      <4>1. e \in 1..Size /\ e <= Size - deepest'
        BY <2>1, StackSizes
      <4>2. Size \in Nat /\ deepest' \in 0..Size /\ deepest \in 0..Size
        BY <1>2, <1>5, StackSizes
      <4>3. deepest <= deepest' /\ Size - c + 1 <= deepest'
        BY <1>4
      <4> HIDE DEF d
      <4>4. c \in 1..Size
        BY <1>3
      <4>5. e # c /\ e <= Size - deepest
        <5> DEFINE q == deepest'
        <5>1. deepest <= q /\ Size - c + 1 <= q
          BY <4>3
        <5>2. e <= Size - q
          BY <4>1
        <5>3. q \in Int
          BY <4>2
        <5>4. deepest \in Int
          BY <4>2
        <5>5. Size \in Int /\ e \in Int
          BY <4>1, <4>2
        <5>6. c \in Int
          BY <4>4
        <5> HIDE DEF q
        <5> QED BY <5>1, <5>2, <5>3, <5>4, <5>5, <5>6
      <4> QED BY <4>1, <4>5 DEF Cell
    <3>3. mem[e] = "paint"
      BY <3>1, <3>2 DEF StackInv, Painted
    <3> QED BY <1>1, <1>2, <3>2, <3>3
  <2> QED BY <1>1, <2>1 DEF StackInv, Painted
<1>8. NeverTooHigh'
  <2> DEFINE B == Entry + Slack
  <2>1. B \in Nat /\ deepest \in Nat /\ deepest' \in Nat
    BY <1>2, <1>5, StackSizes
  <2> HIDE DEF B
  <2>2. Max({deepest, B}) \in {deepest, B} /\ B <= Max({deepest', B}) /\ deepest' <= Max({deepest', B})
        /\ Max({deepest', B}) \in {deepest', B}
    BY <2>1, GreaterOfTwo
  <2>3. Max({deepest, B}) <= Max({deepest', B})
    BY <1>4, <2>1, <2>2
  <2>4. ~tainted' => used_max <= Max({deepest, B})
    BY <1>1 DEF StackInv, NeverTooHigh, B
  <2>5. ~tainted' => used_max <= Max({deepest', B})
    BY <1>2, <2>1, <2>2, <2>3, <2>4
  <2> QED BY <1>1, <2>5 DEF NeverTooHigh, B
<1> QED BY <1>6, <1>7, <1>8 DEF StackInv

LEMMA CheckStep == ASSUME StackInv, stack_check PROVE StackInv'
<1>1. /\ next = 0 /\ used_max' = Max({used_max, Used(mem)}) /\ sampled' = TRUE
      /\ UNCHANGED <<mem, next, deepest, tainted>>
  BY DEF stack_check
<1>2. used_max \in 0..Size /\ deepest \in 0..Size /\ Used(mem) \in 0..Size
  BY UsedType DEF StackInv, StackTypeOK
<1>3. used_max' \in {used_max, Used(mem)} /\ Used(mem) <= used_max'
  <2>1. used_max \in Nat /\ Used(mem) \in Nat
    BY <1>2, StackSizes
  <2> HIDE DEF Used
  <2> QED BY <1>1, <2>1, GreaterOfTwo
<1>4. StackTypeOK'
  BY <1>1, <1>2, <1>3 DEF StackInv, StackTypeOK
<1>5. Used(mem)' = Used(mem)
  BY <1>1 DEF Used, stack_watermark
<1>6. Painted'
  BY <1>1, <1>2, <1>3, <1>5, StackSizes DEF StackInv, Painted
<1>7. NeverTooHigh'
  <2>1. ~tainted => Used(mem) <= Max({deepest, Entry + Slack})
    BY <1>1, <1>2, NotTooDeep DEF StackInv, Painted
  <2> QED BY <1>1, <1>3, <2>1 DEF StackInv, NeverTooHigh
<1> QED BY <1>4, <1>6, <1>7 DEF StackInv

LEMMA StackInvariance == StackSpec => []StackInv
<1>1. StackInv /\ [StackNext]_stackVars => StackInv'
  <2> SUFFICES ASSUME StackInv, [StackNext]_stackVars PROVE StackInv'
    OBVIOUS
  <2>1. CASE UNCHANGED stackVars
    BY <2>1 DEF stackVars, StackInv, StackTypeOK, Painted, NeverTooHigh, Used, stack_watermark
  <2> QED BY <2>1, PaintStep, PaintDoneStep, WriteStep, CheckStep DEF StackNext
<1> QED BY <1>1, InitStackInv, PTL DEF StackSpec

\* Types: painting ends at its limit, and no depth is more than the stack.
THEOREM StackTypes == StackSpec => []StackTypeOK
<1>1. StackInv => StackTypeOK
  BY DEF StackInv
<1> QED BY <1>1, StackInvariance, PTL

\* README.md "Stack budget": the watermark never reports less than the deepest
\* byte that differs from the paint, for every stack, frame and slack.
THEOREM WatermarkReachesDown == StackSpec => []NeverTooLow
<1>1. StackInv => NeverTooLow
  <2> SUFFICES ASSUME StackInv, sampled, deepest > 0, mem[Size - deepest + 1] = "other"
               PROVE  used_max >= deepest
    BY DEF NeverTooLow
  <2>1. deepest \in 1..Size /\ used_max \in 0..Size /\ used_max >= Used(mem) /\ Used(mem) \in 0..Size
    BY UsedType DEF StackInv, StackTypeOK, Painted
  <2>2. deepest <= Used(mem)
    BY <2>1, DepthIsSeen
  <2> QED BY <2>1, <2>2
<1> QED BY <1>1, StackInvariance, PTL

\* And never more than was used, but for what is never painted, unless an interrupt
\* came while the paint went on.
THEOREM WatermarkIsExact == StackSpec => []NeverTooHigh
<1>1. StackInv => NeverTooHigh
  BY DEF StackInv
<1> QED BY <1>1, StackInvariance, PTL
==============================================================================
