------------------------------ MODULE BenchTool ------------------------------
(***************************************************************************)
(* The request plumbing of src/debug_tool.py: the Tk thread puts tasks in  *)
(* a queue, one worker thread runs them against the board one at a time,   *)
(* and the Tk thread pumps the results.  The two threads interleave        *)
(* between any two of the worker's statements, and so may the worker while *)
(* _pump() goes through the results; no other Tk callback runs meanwhile.   *)
(* An answer _handle_result() trips over ends _pump() for good: only        *)
(* queue.Empty is caught, and the timer is set again behind the try.  The   *)
(* rest of the window goes on.  The board, external, reboots some time     *)
(* after a reset reached it, whether or not its reply came back.           *)
(***************************************************************************)
EXTENDS Naturals, FiniteSets, SequencesExt

CONSTANTS
    Clicks,      \* how often the user presses a button
    QueueBound,  \* bound on the tasks and results that wait
    MaxRun       \* bound on the reboots of the board

ASSUME BenchAssumption == Clicks \in Nat /\ {QueueBound, MaxRun} \subseteq Nat \ {0}

VARIABLES
    tasks,              \* the task queue: snapshots (a click's, or the auto refresh's)
                        \* and the other buttons
    worker,             \* "waiting", "got", "busy" or "done"
    job,                \* the label in the worker's hands
    result,             \* the Result it got for it
    results,            \* the result queue
    pump,               \* "waiting" for its timer, "draining" the queue, or "dead"
    shown,              \* label of the answer this drain has just put in the window
    pending_reset,
    previous_snapshot,  \* the run of the board it was taken in, 0 for None
    timers,             \* _post_reset_snapshot() calls Tk still owes
    clicks,             \* buttons the user will still press
    run,                \* the board's run
    board               \* "up", "rebooting" (a reset reached it) or "down"

vars == <<tasks, worker, job, result, results, pump, shown, pending_reset,
          previous_snapshot, timers, clicks, run, board>>

Label == {"snapshot", "auto", "reset", "clear", "other"}

\* What a Result says: nobody answered, a status other than 2xx (or, asked for a
\* snapshot, a body that is none), a 2xx, or a body whose values cannot be shown.
Kind == {"error", "refused", "ok", "broken"}
Result == [kind : Kind, run : 0..MaxRun]           \* the run it is about, 0: none
Failure(kind) == [kind |-> kind, run |-> 0]
Answered == [label : Label, result : Result]

TypeOK ==
    /\ tasks \in Seq(Label) /\ Len(tasks) <= QueueBound
    /\ worker \in {"waiting", "got", "busy", "done"}
    /\ job \in Label \cup {"none"}
    /\ result \in Result
    /\ results \in Seq(Answered) /\ Len(results) <= QueueBound
    /\ pump \in {"waiting", "draining", "dead"} /\ shown \in Label \cup {"none"}
    /\ pending_reset \in BOOLEAN
    /\ previous_snapshot \in 0..MaxRun
    /\ timers \in 0..Clicks /\ clicks \in 0..Clicks
    /\ run \in 1..MaxRun /\ board \in {"up", "rebooting", "down"}

Init ==
    /\ tasks = <<"snapshot">> /\ results = <<>>           \* _initial_probe()
    /\ worker = "waiting" /\ job = "none"
    /\ result = Failure("error") /\ pump = "waiting" /\ shown = "none"
    /\ pending_reset = FALSE /\ previous_snapshot = 0 /\ timers = 0
    /\ clicks = Clicks /\ run = 1 /\ board = "up"

inflight == worker = "busy"

_submit(label) ==
    /\ Len(tasks) < QueueBound /\ tasks' = Append(tasks, label)
------------------------------------------------------------------------------
(* The Tk thread *)

Click(label) ==
    /\ pump # "draining" /\ clicks > 0 /\ clicks' = clicks - 1
    /\ _submit(label)
    /\ UNCHANGED <<worker, job, result, results, pump, shown, pending_reset, previous_snapshot,
                   timers, run, board>>

\* Mutant: the queue is not looked at, only the request under way.
TickBehindQueue ==
    /\ pump # "draining" /\ ~pending_reset /\ ~inflight
    /\ _submit("auto")
    /\ UNCHANGED <<worker, job, result, results, pump, shown, pending_reset, previous_snapshot,
                   timers, clicks, run, board>>

\* The auto refresh fires with nothing running and nothing queued.
_auto_tick ==
    /\ pump # "draining" /\ ~pending_reset /\ ~inflight /\ tasks = <<>>
    /\ _submit("auto")
    /\ UNCHANGED <<worker, job, result, results, pump, shown, pending_reset, previous_snapshot,
                   timers, clicks, run, board>>

\* Mutant: every answer schedules a look at the board after its reset.
HandleRetries(ui, r) ==
    IF r.result.kind = "error" THEN ui
    ELSE [pending |-> TRUE, previous |-> 0, timers |-> ui.timers + 1]

\* One answer, seen by _handle_result(): an error or a refusal changes nothing, and
\* only a snapshot that can be shown is remembered.
Handle(ui, r) ==
    CASE r.label \in {"snapshot", "auto"} /\ r.result.kind = "ok" ->
            [ui EXCEPT !.previous = r.result.run]
      [] r.label = "reset" /\ r.result.kind = "ok" ->
            [pending |-> TRUE, previous |-> 0, timers |-> ui.timers + 1]
      [] r.label = "clear" /\ r.result.kind = "ok" -> [ui EXCEPT !.previous = 0]
      [] OTHER -> ui

\* _pump(), every 50 ms: the results that are there, one after the other.
_pump ==
    LET r == Head(results)
        ui == Handle([pending |-> pending_reset, previous |-> previous_snapshot,
                      timers |-> timers], r)
    IN  /\ pump # "dead" /\ results # <<>> /\ results' = Tail(results)
        /\ IF r.result.kind = "broken" THEN pump' = "dead" /\ shown' = "none"
                                      ELSE pump' = "draining" /\ shown' = r.label
        /\ pending_reset' = ui.pending
        /\ previous_snapshot' = ui.previous
        /\ timers' = ui.timers
        /\ UNCHANGED <<tasks, worker, job, result, clicks, run, board>>

\* queue.Empty.
PumpEnds ==
    /\ pump = "draining" /\ results = <<>> /\ pump' = "waiting" /\ shown' = "none"
    /\ UNCHANGED <<tasks, worker, job, result, results, pending_reset,
                   previous_snapshot, timers, clicks, run, board>>

\* Six seconds after a reset was answered.
_post_reset_snapshot ==
    /\ pump # "draining" /\ timers > 0 /\ timers' = timers - 1
    /\ pending_reset' = FALSE
    /\ _submit("snapshot")
    /\ UNCHANGED <<worker, job, result, results, pump, shown, previous_snapshot, clicks, run, board>>
------------------------------------------------------------------------------
(* The worker thread *)

\* self._tasks.get() returns ...
Get ==
    /\ worker = "waiting" /\ tasks # <<>>
    /\ worker' = "got"
    /\ job' = Head(tasks) /\ tasks' = Tail(tasks)
    /\ UNCHANGED <<result, results, pump, shown, pending_reset, previous_snapshot, timers,
                   clicks, run, board>>

\* ... and only the next statement says that a request is under way.
Begin ==
    /\ worker = "got" /\ worker' = "busy"
    /\ UNCHANGED <<tasks, job, result, results, pump, shown, pending_reset, previous_snapshot,
                   timers, clicks, run, board>>

\* UsbNetClient.request(): the board answers, or a timeout or an exception is
\* turned into a Result of its own, here or in the worker.  A reset whose reply is
\* lost has reached the board all the same, or not.
request ==
    \/ /\ board # "down" /\ result' = [kind |-> "ok", run |-> run]
       /\ board' = IF job = "reset" THEN "rebooting" ELSE board
    \/ /\ board # "down" /\ UNCHANGED board
       /\ \E kind \in {"refused", "broken"} :
            /\ kind = "broken" => job \in {"snapshot", "auto"}
            /\ result' = Failure(kind)
    \/ /\ result' = Failure("error")
       /\ \/ UNCHANGED board
          \/ board # "down" /\ job = "reset" /\ board' = "rebooting"

Finish ==
    /\ worker = "busy" /\ worker' = "done"
    /\ request
    /\ UNCHANGED <<tasks, job, results, pump, shown, pending_reset, previous_snapshot,
                   timers, clicks, run>>

\* Mutant: put() inside the try, so that what failed is not reported.
ReportSuccess ==
    /\ worker = "done" /\ worker' = "waiting"
    /\ pump # "dead" => Len(results) < QueueBound
    /\ results' = IF pump = "dead" \/ result.kind = "error" THEN results
                  ELSE Append(results, [label |-> job, result |-> result])
    /\ job' = "none" /\ result' = Failure("error")
    /\ UNCHANGED <<tasks, pump, shown, pending_reset, previous_snapshot, timers, clicks, run,
                   board>>

\* self._results.put(); what nobody will ever get() is not kept here.
Report ==
    /\ worker = "done" /\ worker' = "waiting"
    /\ pump # "dead" => Len(results) < QueueBound
    /\ results' = IF pump = "dead" THEN results
                  ELSE Append(results, [label |-> job, result |-> result])
    /\ job' = "none" /\ result' = Failure("error")
    /\ UNCHANGED <<tasks, pump, shown, pending_reset, previous_snapshot, timers, clicks, run,
                   board>>

\* The board goes down after a reset, and comes back with its counters at zero.
GoDown ==
    /\ board = "rebooting" /\ run < MaxRun
    /\ board' = "down"
    /\ UNCHANGED <<tasks, worker, job, result, results, pump, shown, pending_reset,
                   previous_snapshot, timers, clicks, run>>

ComeBack ==
    /\ board = "down" /\ board' = "up" /\ run' = run + 1
    /\ UNCHANGED <<tasks, worker, job, result, results, pump, shown, pending_reset,
                   previous_snapshot, timers, clicks>>

Next ==
    \/ _auto_tick \/ _pump \/ PumpEnds \/ _post_reset_snapshot
    \/ \E label \in {"snapshot", "reset", "clear", "other"} : Click(label)
    \/ Get \/ Begin \/ Finish \/ Report
    \/ GoDown \/ ComeBack

\* The Tk main loop and the worker thread are both scheduled.
Fairness ==
    /\ WF_vars(_pump) /\ WF_vars(PumpEnds) /\ WF_vars(Get) /\ WF_vars(Begin) /\ WF_vars(Finish)
    /\ WF_vars(Report)

Spec == Init /\ [][Next]_vars
FairSpec == Spec /\ Fairness
------------------------------------------------------------------------------
(* Properties *)

Autos(s) == Cardinality({n \in DOMAIN s : s[n] = "auto"})

\* _auto_tick: a slow or dead link does not build up a backlog of snapshots.  Of
\* the auto refresh at most two are out, one of them in the worker's hands: the
\* second slips in between get() and inflight = True (debug_tool.py:554-555).
NoBacklog == Autos(tasks) + (IF job = "auto" THEN 1 ELSE 0) <= 2

\* "never kill the worker" (debug_tool.py:558): whatever waits in the queue is run
\* and its outcome, an error included, reaches the window, whether the board
\* answers, reboots or is gone, as long as _pump() has not died of an answer it
\* could not show.
ShownInTheEnd == \A label \in Label :
    (\E n \in DOMAIN tasks : tasks[n] = label) ~> (shown = label \/ pump = "dead")
==============================================================================
