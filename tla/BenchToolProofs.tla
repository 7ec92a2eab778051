--------------------------- MODULE BenchToolProofs ---------------------------
(* What holds of the request plumbing of the bench tool for every number of    *)
(* clicks, every bound of the queues and every number of reboots.              *)
EXTENDS BenchTool, FiniteSetTheorems, TLAPS

\* The tasks that wait hold one of the auto refresh at most.
OneWaits ==
    /\ tasks \in Seq(Label)
    /\ \A m, n \in DOMAIN tasks : tasks[m] = "auto" /\ tasks[n] = "auto" => m = n

\* Of what a set with one element at most counts.
LEMMA AtMostOne ==
    ASSUME NEW T, \A x, y \in T : x = y
    PROVE  Cardinality(T) \in {0, 1}
<1>1. CASE T = {}
  BY <1>1, FS_EmptySet
<1>2. CASE T # {}
  <2>1. PICK x \in T : T = {x}
    BY <1>2
  <2> QED BY <2>1, FS_Singleton
<1> QED BY <1>1, <1>2

\* Only _auto_tick() puts an auto refresh into the queue, and only an empty one.
LEMMA OneWaitsInvariance == Spec => []OneWaits
<1>1. Init => OneWaits
  BY DEF Init, OneWaits, Label
<1>2. OneWaits /\ [Next]_vars => OneWaits'
  <2> SUFFICES ASSUME OneWaits, [Next]_vars PROVE OneWaits'
    OBVIOUS
  <2> USE DEF OneWaits
  <2>1. ASSUME NEW label \in Label \ {"auto"}, _submit(label) PROVE OneWaits'
    <3>1. tasks' = Append(tasks, label) /\ tasks' \in Seq(Label) /\ Len(tasks') = Len(tasks) + 1
      BY <2>1 DEF _submit
    <3>2. \A n \in DOMAIN tasks' : tasks'[n] = "auto" => n \in DOMAIN tasks /\ tasks[n] = "auto"
      BY <3>1
    <3> QED BY <3>1, <3>2
  <2>2. CASE _auto_tick
    BY <2>2 DEF _auto_tick, _submit, Label
  <2>3. CASE _post_reset_snapshot
    BY <2>1, <2>3 DEF _post_reset_snapshot, Label
  <2>4. ASSUME NEW label \in {"snapshot", "reset", "clear", "other"}, Click(label) PROVE OneWaits'
    BY <2>1, <2>4 DEF Click, Label
  <2>5. CASE Get
    <3>1. tasks' = Tail(tasks) /\ tasks # <<>>
      BY <2>5 DEF Get
    <3>2. tasks' \in Seq(Label) /\ \A n \in DOMAIN tasks' : n + 1 \in DOMAIN tasks /\ tasks'[n] = tasks[n + 1]
      BY <3>1
    <3> QED BY <3>2
  <2>6. CASE UNCHANGED tasks
    BY <2>6
  <2> QED BY <2>2, <2>3, <2>4, <2>5, <2>6
       DEF Next, _pump, PumpEnds, Begin, Finish, Report, GoDown, ComeBack, vars
<1> QED BY <1>1, <1>2, PTL DEF Spec

\* A slow or dead link builds up no backlog of snapshots, however often the user
\* clicks and the refresh fires: one waits at most, and one is in the worker's hands.
THEOREM RefreshesDoNotPileUp == Spec => []NoBacklog
<1>1. OneWaits => NoBacklog
  <2> SUFFICES ASSUME OneWaits PROVE NoBacklog
    OBVIOUS
  <2>1. Autos(tasks) \in {0, 1}
    BY AtMostOne DEF OneWaits, Autos
  <2> QED BY <2>1 DEF NoBacklog
<1> QED BY <1>1, OneWaitsInvariance, PTL
------------------------------------------------------------------------------
(* Every reset that is answered owes one look at the board, and comes from a   *)
(* click: what bounds the looks that are owed at one time.                     *)

\* The places of a sequence that hold one of L.
Places(s, L) == {n \in DOMAIN s : s[n] \in L}

Reset == [label : {"reset"}, result : Result]

Ledger ==
    clicks + timers + (IF job = "reset" THEN 1 ELSE 0)
      + Cardinality(Places(tasks, {"reset"})) + Cardinality(Places(results, Reset))

Typed ==
    /\ TypeOK
    /\ board = "down" => run < MaxRun
    /\ worker = "waiting" <=> job = "none"
    /\ Ledger <= Clicks

LEMMA PlacesFinite ==
    ASSUME NEW S, NEW s \in Seq(S), NEW L
    PROVE  IsFiniteSet(Places(s, L)) /\ Cardinality(Places(s, L)) \in Nat
<1>1. IsFiniteSet(1..Len(s))
  BY FS_Interval
<1>2. Places(s, L) \subseteq 1..Len(s)
  BY DEF Places
<1> QED BY <1>1, <1>2, FS_Subset, FS_CardinalityType

LEMMA PlacesOfAppend ==
    ASSUME NEW S, NEW s \in Seq(S), NEW e \in S, NEW L
    PROVE  Cardinality(Places(Append(s, e), L))
             = Cardinality(Places(s, L)) + (IF e \in L THEN 1 ELSE 0)
<1>1. CASE e \in L
  <2>1. Places(Append(s, e), L) = Places(s, L) \cup {Len(s) + 1} /\ Len(s) + 1 \notin Places(s, L)
    BY <1>1 DEF Places
  <2> QED BY <2>1, <1>1, PlacesFinite, FS_AddElement
<1>2. CASE e \notin L
  <2>1. Places(Append(s, e), L) = Places(s, L)
    BY <1>2 DEF Places
  <2> QED BY <2>1, <1>2, PlacesFinite
<1> QED BY <1>1, <1>2

LEMMA PlacesOfTail ==
    ASSUME NEW S, NEW s \in Seq(S), s # <<>>, NEW L
    PROVE  Cardinality(Places(s, L))
             = Cardinality(Places(Tail(s), L)) + (IF Head(s) \in L THEN 1 ELSE 0)
<1> DEFINE T == Places(Tail(s), L)
           U == Places(s, L) \ {1}
           f == [n \in T |-> n + 1]
<1>1. Tail(s) \in Seq(S) /\ Len(Tail(s)) = Len(s) - 1 /\ \A n \in 1..(Len(s) - 1) : Tail(s)[n] = s[n + 1]
  OBVIOUS
<1>2. f \in Bijection(T, U)
  <2>1. \A n \in T : n + 1 \in U
    BY <1>1 DEF Places
  <2>2. \A u \in U : u - 1 \in T /\ (u - 1) + 1 = u
    BY <1>1 DEF Places
  <2>3. \A m, n \in T : m + 1 = n + 1 => m = n
    BY <1>1 DEF Places
  <2>4. f \in [T -> U]
    BY <2>1
  <2>5. \A u \in U : \E n \in T : f[n] = u
    BY <2>2
  <2>6. \A m, n \in T : f[m] = f[n] => m = n
    BY <2>3
  <2> QED BY <2>4, <2>5, <2>6 DEF Bijection, Injection, Surjection, IsInjective
<1>3. IsFiniteSet(T) /\ IsFiniteSet(Places(s, L))
  BY <1>1, PlacesFinite
<1>4. IsFiniteSet(U) /\ Cardinality(U) = Cardinality(T) /\ Cardinality(T) \in Nat
  <2>1. ExistsBijection(T, U)
    BY <1>2 DEF ExistsBijection
  <2> QED BY <2>1, <1>3, FS_Bijection, FS_CardinalityType
<1> HIDE DEF T, U
<1>5. CASE Head(s) \in L
  <2>1. Places(s, L) = U \cup {1} /\ 1 \notin U
    BY <1>5 DEF Places, U
  <2>2. Cardinality(Places(s, L)) = Cardinality(U) + 1
    BY <2>1, <1>4, FS_AddElement
  <2> QED BY <2>2, <1>4, <1>5 DEF T
<1>6. CASE Head(s) \notin L
  <2>1. Places(s, L) = U
    BY <1>6 DEF Places, U
  <2> QED BY <2>1, <1>4, <1>6 DEF T
<1> QED BY <1>5, <1>6

\* What a button or the refresh puts into the queue.
LEMMA SubmitTyped ==
    ASSUME TypeOK, NEW label \in Label, _submit(label)
    PROVE  /\ tasks' \in Seq(Label) /\ Len(tasks') <= QueueBound
           /\ Cardinality(Places(tasks', {"reset"}))
                = Cardinality(Places(tasks, {"reset"})) + (IF label = "reset" THEN 1 ELSE 0)
<1>1. tasks \in Seq(Label) /\ tasks' = Append(tasks, label) /\ Len(tasks) < QueueBound
  BY DEF TypeOK, _submit
<1>2. Cardinality(Places(Append(tasks, label), {"reset"}))
        = Cardinality(Places(tasks, {"reset"})) + (IF label \in {"reset"} THEN 1 ELSE 0)
  BY <1>1, PlacesOfAppend, Zenon
<1>3. label \in {"reset"} <=> label = "reset"
  OBVIOUS
<1>4. Len(tasks') = Len(tasks) + 1 /\ tasks' \in Seq(Label)
  BY <1>1
<1>5. QueueBound \in Nat
  BY BenchAssumption
<1> QED BY <1>1, <1>2, <1>3, <1>4, <1>5

\* Two entries of the ledger change, and their sum does not grow.
LEMMA Balance ==
    ASSUME NEW most \in Nat, NEW c \in Nat, NEW t \in Nat, NEW h \in Nat, NEW a \in Nat, NEW b \in Nat,
           c + t + h + a + b <= most
    PROVE  /\ \A t1, b1 \in Nat : t1 + b1 <= t + b => c + t1 + h + a + b1 <= most /\ t1 <= most
           /\ \A h1, a1 \in Nat : h1 + a1 <= h + a => c + t + h1 + a1 + b <= most
           /\ \A h1, b1 \in Nat : h1 + b1 <= h + b => c + t + h1 + a + b1 <= most
           /\ t > 0 => c + (t - 1) + h + a + b <= most /\ t - 1 \in 0..most
OBVIOUS

LEMMA TypedInvariance == Spec => []Typed
<1>1. Init => Typed
  <2> SUFFICES ASSUME Init PROVE Typed
    OBVIOUS
  <2>1. Places(tasks, {"reset"}) = {} /\ Places(results, Reset) = {}
    BY DEF Init, Places
  <2>2. Ledger = Clicks
    <3>1. Cardinality(Places(tasks, {"reset"})) = 0 /\ Cardinality(Places(results, Reset)) = 0
      BY <2>1, FS_EmptySet
    <3>2. clicks = Clicks /\ timers = 0 /\ (IF job = "reset" THEN 1 ELSE 0) = 0
      BY DEF Init
    <3> QED BY <3>1, <3>2, BenchAssumption DEF Ledger
  <2>3. tasks \in Seq(Label) /\ Len(tasks) = 1 /\ results \in Seq(Answered) /\ Len(results) = 0
    BY DEF Init, Label
  <2>4. Clicks \in Nat /\ QueueBound \in Nat \ {0} /\ MaxRun \in Nat \ {0}
    BY BenchAssumption
  <2>5. TypeOK
    <3>1. timers \in 0..Clicks /\ clicks \in 0..Clicks
      BY <2>4 DEF Init
    <3>2. result \in Result /\ previous_snapshot \in 0..MaxRun /\ run \in 1..MaxRun
      BY <2>4 DEF Init, Failure, Result, Kind
    <3>3. Len(tasks) <= QueueBound /\ Len(results) <= QueueBound
      BY <2>3, <2>4
    <3>4. /\ pump \in {"waiting", "draining", "dead"} /\ shown \in Label \cup {"none"}
          /\ pending_reset \in BOOLEAN /\ job \in Label \cup {"none"}
      BY DEF Init
    <3>5. worker \in {"waiting", "got", "busy", "done"} /\ board \in {"up", "rebooting", "down"}
      BY DEF Init
    <3> QED BY <2>3, <3>1, <3>2, <3>3, <3>4, <3>5 DEF TypeOK
  <2>6. (board = "down" => run < MaxRun) /\ (worker = "waiting" <=> job = "none")
    BY DEF Init
  <2>7. Ledger <= Clicks
    BY <2>2, <2>4
  <2> QED BY <2>5, <2>6, <2>7 DEF Typed
<1>2. Typed /\ [Next]_vars => Typed'
  <2> SUFFICES ASSUME Typed, [Next]_vars PROVE Typed'
    OBVIOUS
  <2> DEFINE inTasks == Cardinality(Places(tasks, {"reset"}))
             inResults == Cardinality(Places(results, Reset))
             inHand == IF job = "reset" THEN 1 ELSE 0
  <2>0. TypeOK /\ tasks \in Seq(Label) /\ results \in Seq(Answered)
    BY DEF Typed, TypeOK
  <2>1. inTasks \in Nat /\ inResults \in Nat
    BY <2>0, PlacesFinite
  <2>2. /\ timers \in Nat /\ clicks \in Nat /\ inHand \in Nat /\ Clicks \in Nat
        /\ clicks + timers + inHand + inTasks + inResults <= Clicks
    BY BenchAssumption DEF Typed, TypeOK, Ledger
  <2>3. QueueBound \in Nat \ {0} /\ MaxRun \in Nat \ {0}
    BY BenchAssumption
  <2> HIDE DEF inTasks, inResults, inHand
  <2>20. /\ \A t1, b1 \in Nat : t1 + b1 <= timers + inResults =>
              clicks + t1 + inHand + inTasks + b1 <= Clicks /\ t1 <= Clicks
         /\ \A h1, a1 \in Nat : h1 + a1 <= inHand + inTasks =>
              clicks + timers + h1 + a1 + inResults <= Clicks
         /\ \A h1, b1 \in Nat : h1 + b1 <= inHand + inResults =>
              clicks + timers + h1 + inTasks + b1 <= Clicks
         /\ timers > 0 => /\ clicks + (timers - 1) + inHand + inTasks + inResults <= Clicks
                          /\ timers - 1 \in 0..Clicks
    BY <2>1, <2>2, Balance, Zenon
  <2>4. ASSUME TypeOK', (board = "down" => run < MaxRun)', (worker = "waiting" <=> job = "none")',
               clicks' + timers' + inHand' + inTasks' + inResults' <= Clicks
        PROVE  Typed'
    BY <2>4 DEF Typed, Ledger, inTasks, inResults, inHand
  <2>5. results' = results => inResults' = inResults
    BY DEF inResults
  <2>6. tasks' = tasks => inTasks' = inTasks
    BY DEF inTasks
  <2>7. job' = job => inHand' = inHand
    BY DEF inHand
  <2>8. CASE _auto_tick
    <3>1. tasks' \in Seq(Label) /\ Len(tasks') <= QueueBound /\ inTasks' = inTasks
      BY <2>0, <2>1, <2>8, SubmitTyped DEF _auto_tick, Label, inTasks
    <3> QED BY <3>1, <2>1, <2>2, <2>4, <2>5, <2>7, <2>8 DEF _auto_tick, Typed, TypeOK
  <2>9. CASE _post_reset_snapshot
    <3>1. tasks' \in Seq(Label) /\ Len(tasks') <= QueueBound /\ inTasks' = inTasks
      BY <2>0, <2>1, <2>9, SubmitTyped DEF _post_reset_snapshot, Label, inTasks
    <3>2. timers' = timers - 1 /\ timers > 0
      BY <2>9 DEF _post_reset_snapshot
    <3>3. UNCHANGED <<worker, job, result, results, pump, shown, previous_snapshot, clicks, run, board>>
      BY <2>9 DEF _post_reset_snapshot
    <3>4. pending_reset' = FALSE
      BY <2>9 DEF _post_reset_snapshot
    <3>5. clicks' + timers' + inHand' + inTasks' + inResults' <= Clicks /\ timers' \in 0..Clicks
      <4>1. clicks' = clicks /\ inHand' = inHand /\ inTasks' = inTasks /\ inResults' = inResults
        BY <3>1, <3>3, <2>5, <2>7
      <4> QED BY <4>1, <3>2, <2>20
    <3> QED BY <3>1, <3>2, <3>3, <3>4, <3>5, <2>4 DEF Typed, TypeOK
  <2>10. ASSUME NEW label \in {"snapshot", "reset", "clear", "other"}, Click(label) PROVE Typed'
    <3>1. label \in Label /\ clicks' = clicks - 1 /\ clicks > 0
      BY <2>10 DEF Click, Label
    <3>2. /\ tasks' \in Seq(Label) /\ Len(tasks') <= QueueBound
          /\ inTasks' = inTasks + (IF label = "reset" THEN 1 ELSE 0)
      BY <2>0, <2>1, <2>10, <3>1, SubmitTyped DEF Click, inTasks
    <3> QED BY <3>1, <3>2, <2>1, <2>2, <2>4, <2>5, <2>7, <2>10 DEF Click, Typed, TypeOK
  <2>11. CASE _pump
    <3> DEFINE r == Head(results)
               ui == Handle([pending |-> pending_reset, previous |-> previous_snapshot,
                             timers |-> timers], r)
    <3>1. /\ r \in Answered /\ results' = Tail(results) /\ results # <<>>
          /\ results' \in Seq(Answered) /\ Len(results') <= QueueBound
      BY <2>0, <2>3, <2>11 DEF _pump, Typed, TypeOK
    <3>2. inResults = inResults' + (IF r \in Reset THEN 1 ELSE 0)
      BY <2>0, <3>1, PlacesOfTail DEF inResults
    <3>3. /\ pending_reset' = ui.pending /\ previous_snapshot' = ui.previous
          /\ timers' = ui.timers
      BY <2>11 DEF _pump
    <3>4. inResults' \in Nat
      BY <3>1, PlacesFinite DEF inResults
    <3>5. /\ pending_reset' \in BOOLEAN /\ previous_snapshot' \in 0..MaxRun
          /\ timers' \in {timers, timers + 1} /\ (timers' = timers + 1 => r \in Reset)
      <4>1. pending_reset \in BOOLEAN /\ previous_snapshot \in 0..MaxRun /\ timers \in Nat
        BY <2>2 DEF Typed, TypeOK
      <4>2. r.result.run \in 0..MaxRun /\ r.label \in Label
        BY <3>1 DEF Answered, Result
      <4>3. r.label = "reset" => r \in Reset
        BY <3>1 DEF Answered, Reset
      <4> HIDE DEF r
      <4>4. \/ ui = [pending |-> pending_reset, previous |-> previous_snapshot, timers |-> timers]
            \/ ui = [pending |-> pending_reset, previous |-> r.result.run, timers |-> timers]
            \/ ui = [pending |-> pending_reset, previous |-> 0, timers |-> timers]
            \/ /\ r.label = "reset"
               /\ ui = [pending |-> TRUE, previous |-> 0, timers |-> timers + 1]
        BY DEF Handle
      <4>5. 0 \in 0..MaxRun
        BY <2>3
      <4>6. CASE ui = [pending |-> pending_reset, previous |-> previous_snapshot, timers |-> timers]
        BY <4>1, <4>6, <3>3
      <4>7. CASE ui = [pending |-> pending_reset, previous |-> r.result.run, timers |-> timers]
        BY <4>1, <4>2, <4>7, <3>3
      <4>8. CASE ui = [pending |-> pending_reset, previous |-> 0, timers |-> timers]
        BY <4>1, <4>5, <4>8, <3>3
      <4>9. CASE /\ r.label = "reset"
                 /\ ui = [pending |-> TRUE, previous |-> 0, timers |-> timers + 1]
        <5>1. r \in Reset
          BY <4>3, <4>9
        <5>2. timers' = timers + 1 /\ previous_snapshot' = 0 /\ pending_reset' = TRUE
          BY <4>9, <3>3
        <5> QED BY <5>1, <5>2, <4>5
      <4> QED BY <4>4, <4>6, <4>7, <4>8, <4>9
    <3>6. timers' \in Nat /\ timers' + inResults' <= timers + inResults
      <4>0. \A t, b, b1 \in Nat :
              /\ t + b <= t + b /\ t + 1 \in Nat
              /\ b = b1 + 1 => t + b1 <= t + b /\ (t + 1) + b1 <= t + b
        OBVIOUS
      <4>1. CASE r \in Reset
        <5>1. inResults = inResults' + 1
          BY <4>1, <3>2
        <5>2. timers + inResults' <= timers + inResults /\ (timers + 1) + inResults' <= timers + inResults
          BY <4>0, <5>1, <2>1, <2>2, <3>4, Zenon
        <5>3. timers + 1 \in Nat
          BY <2>2
        <5> QED BY <5>2, <5>3, <2>2, <3>5, Zenon
      <4>2. CASE r \notin Reset
        <5>1. inResults = inResults' /\ timers' = timers
          <6>1. inResults = inResults' + 0 /\ timers' = timers
            BY <4>2, <3>2, <3>5
          <6>2. \A n \in Nat : n + 0 = n
            OBVIOUS
          <6>3. inResults' + 0 = inResults'
            BY <6>2, <3>4, Zenon
          <6> QED BY <6>1, <6>3, Zenon
        <5>2. timers + inResults <= timers + inResults
          BY <4>0, <2>1, <2>2, Zenon
        <5>3. timers' + inResults' = timers + inResults
          BY <5>1
        <5> QED BY <5>1, <5>2, <5>3, <2>2, Zenon
      <4> QED BY <4>1, <4>2
    <3>7. UNCHANGED <<tasks, worker, job, result, clicks, run, board>>
      BY <2>11 DEF _pump
    <3>9. pump' \in {"draining", "dead"} /\ shown' \in Label \cup {"none"}
      <4>1. r.label \in Label
        BY <3>1 DEF Answered
      <4> QED BY <2>11, <4>1 DEF _pump
    <3> HIDE DEF r, ui
    <3>8. clicks' + timers' + inHand' + inTasks' + inResults' <= Clicks /\ timers' <= Clicks
      <4>1. clicks' = clicks /\ inHand' = inHand /\ inTasks' = inTasks
        BY <2>6, <2>7, <3>7
      <4>2. clicks + timers' + inHand + inTasks + inResults' <= Clicks /\ timers' <= Clicks
        BY <2>20, <3>4, <3>6, Zenon
      <4> QED BY <4>1, <4>2
    <3> QED BY <2>2, <2>4, <3>1, <3>5, <3>6, <3>7, <3>8, <3>9 DEF Typed, TypeOK
  <2>12. CASE PumpEnds
    BY <2>2, <2>4, <2>5, <2>6, <2>7, <2>12 DEF PumpEnds, Typed, TypeOK
  <2>13. CASE Get
    <3>1. /\ tasks' = Tail(tasks) /\ tasks # <<>> /\ job' = Head(tasks) /\ job' \in Label
          /\ tasks' \in Seq(Label) /\ Len(tasks') <= QueueBound /\ job = "none"
      BY <2>0, <2>3, <2>13 DEF Get, Typed, TypeOK
    <3>2. inTasks = inTasks' + (IF Head(tasks) \in {"reset"} THEN 1 ELSE 0) /\ inTasks' \in Nat
      BY <2>0, <3>1, PlacesOfTail, PlacesFinite DEF inTasks
    <3>3. inHand = 0 /\ inHand' = (IF Head(tasks) \in {"reset"} THEN 1 ELSE 0)
      BY <3>1 DEF inHand
    <3>4. "none" \notin Label
      BY DEF Label
    <3>5. UNCHANGED <<result, results, pump, shown, pending_reset, previous_snapshot, timers, clicks,
                      run, board>> /\ worker' = "got"
      BY <2>13 DEF Get
    <3>6. inResults' = inResults
      BY <3>5, <2>5
    <3>7. inHand' + inTasks' = inHand + inTasks /\ inHand' \in Nat
      <4>1. \A h, a \in Nat : h + a = a + h /\ 0 + (a + h) = h + a
        OBVIOUS
      <4>2. (IF Head(tasks) \in {"reset"} THEN 1 ELSE 0) \in 0..1
        OBVIOUS
      <4> QED BY <4>1, <4>2, <3>2, <3>3
    <3>8. clicks' + timers' + inHand' + inTasks' + inResults' <= Clicks
      <4>1. clicks' = clicks /\ timers' = timers
        BY <3>5
      <4>2. inHand' \in Nat /\ inHand' + inTasks' <= inHand + inTasks
        BY <3>7, <2>1, <2>2
      <4>3. clicks + timers + inHand' + inTasks' + inResults <= Clicks
        BY <4>2, <3>2, <2>20, Zenon
      <4> QED BY <4>1, <4>3, <3>6
    <3> QED BY <3>1, <3>4, <3>5, <3>8, <2>4 DEF Typed, TypeOK
  <2>14. CASE Begin
    BY <2>2, <2>4, <2>5, <2>6, <2>7, <2>14 DEF Begin, Typed, TypeOK
  <2>15. CASE Finish
    <3>1. result' \in Result /\ board' \in {"up", "rebooting", "down"} /\ (board' = "down" => board = "down")
      <4>1. run \in 0..MaxRun /\ 0 \in 0..MaxRun /\ board \in {"up", "rebooting", "down"}
        BY <2>3 DEF Typed, TypeOK
      <4> QED BY <2>15, <4>1 DEF Finish, request, Result, Kind, Failure
    <3>2. UNCHANGED <<tasks, job, results, pump, shown, pending_reset, previous_snapshot, timers,
                      clicks, run>> /\ worker = "busy" /\ worker' = "done"
      BY <2>15 DEF Finish
    <3> QED BY <3>1, <3>2, <2>2, <2>3, <2>4, <2>5, <2>6, <2>7 DEF Typed, TypeOK
  <2>16. CASE Report
    <3> DEFINE r == [label |-> job, result |-> result]
    <3>1. job \in Label /\ r \in Answered
      BY <2>16 DEF Report, Typed, TypeOK, Answered
    <3>2. /\ \/ results' = results
             \/ results' = Append(results, r) /\ Len(results) < QueueBound
          /\ job' = "none" /\ worker = "done" /\ worker' = "waiting" /\ result' \in Result
          /\ UNCHANGED <<tasks, pump, shown, pending_reset, previous_snapshot, timers, clicks, run,
                         board>>
      <4>1. Failure("error") \in Result
        BY <2>3 DEF Failure, Result, Kind
      <4> QED BY <2>16, <4>1 DEF Report
    <3>3. results' \in Seq(Answered) /\ Len(results') <= QueueBound
      <4>1. Len(results) <= QueueBound
        BY DEF Typed, TypeOK
      <4> QED BY <4>1, <2>0, <2>3, <3>1, <3>2
    <3>4. inResults' = inResults \/ inResults' = inResults + (IF r \in Reset THEN 1 ELSE 0)
      <4>1. CASE results' = results
        BY <4>1, <2>5
      <4>2. CASE results' = Append(results, r)
        BY <2>0, <3>1, <4>2, PlacesOfAppend DEF inResults
      <4> QED BY <3>2, <4>1, <4>2
    <3>5. inHand' = 0 /\ inHand = (IF r \in Reset THEN 1 ELSE 0)
      <4>1. result \in Result
        BY DEF Typed, TypeOK
      <4> QED BY <3>1, <3>2, <4>1 DEF inHand, Reset
    <3>6. inHand' + inResults' <= inHand + inResults
      BY <3>4, <3>5, <2>1
    <3> HIDE DEF r
    <3>7. clicks' + timers' + inHand' + inTasks' + inResults' <= Clicks
      <4>1. clicks' = clicks /\ timers' = timers /\ inTasks' = inTasks
        BY <3>2, <2>6
      <4>2. inResults' \in Nat
        BY <3>3, PlacesFinite DEF inResults
      <4>3. inHand' + inResults' <= inHand + inResults /\ inHand' \in Nat
        BY <3>5, <3>6
      <4>4. clicks + timers + inHand' + inTasks + inResults' <= Clicks
        BY <4>2, <4>3, <2>20, Zenon
      <4> QED BY <4>1, <4>4
    <3> QED BY <3>2, <3>3, <3>7, <2>3, <2>4 DEF Typed, TypeOK
  <2>17. CASE GoDown
    BY <2>2, <2>4, <2>5, <2>6, <2>7, <2>17 DEF GoDown, Typed, TypeOK
  <2>18. CASE ComeBack
    BY <2>2, <2>3, <2>4, <2>5, <2>6, <2>7, <2>18 DEF ComeBack, Typed, TypeOK
  <2>19. CASE UNCHANGED vars
    BY <2>2, <2>4, <2>5, <2>6, <2>7, <2>19 DEF vars, Typed, TypeOK
  <2> QED BY <2>8, <2>9, <2>10, <2>11, <2>12, <2>13, <2>14, <2>15, <2>16, <2>17, <2>18, <2>19
       DEF Next
<1> QED BY <1>1, <1>2, PTL DEF Spec

\* The state has its type: the queues keep to their bounds, and no more looks at the
\* board are owed than resets were clicked, since one answer owes one look.
THEOREM BenchTypes == Spec => []TypeOK
<1>1. Typed => TypeOK
  BY DEF Typed
<1> QED BY <1>1, TypedInvariance, PTL
==============================================================================
