--------------------------------- MODULE Diag --------------------------------
(***************************************************************************)
(* The stage breadcrumbs of src/diag.c, on top of Keystore: every handler  *)
(* leaves its latest stage in a watchdog scratch register, which survives  *)
(* a watchdog reset, and the next boot reports it as roman.last_stage.     *)
(* Each action is the Keystore action with the diag_stage() calls on its   *)
(* path; `marked` and `died` are history: whether this run has set a stage *)
(* at all, and where the previous run ended.                               *)
(***************************************************************************)
EXTENDS Keystore

VARIABLES
    stage,        \* watchdog_hw->scratch[0]
    reset,        \* what watchdog_caused_reboot() will be told: the reset reason
    boot_stage,   \* captured at boot, what POST /debug reports
    marked,       \* this run has set a stage since it captured the last one's
    died          \* where the last run ended: its pc, its operation, its `marked`

diagVars == <<stage, reset, boot_stage, marked, died>>

\* The stages of one POST /write before it reaches the storage path, in order.
Checking == {"write-received", "fields-ok", "pair-check", "pair-ok"}
WriteStage == Checking \cup {"entropy", "boxing", "erase", "program", "done"}
SignStage == {"sign-enter", "sign-key", "sign-parse", "sign-crypto", "sign-reply",
              "sign-done"}
Stage == {"none", "clear"} \cup WriteStage \cup SignStage

DiagTypeOK ==
    /\ stage \in Stage \cup {"junk"}
    /\ reset \in {"power", "watchdog"}
    /\ boot_stage \in Stage
    /\ marked \in BOOLEAN
    /\ died \in [pc : {"off", "idle", "entropy", "boxing", "erase", "page0",
                       "page1", "compare", "key", "crypto"},
                 op : Op, marked : BOOLEAN]

DiagInit ==
    /\ Init
    /\ stage = "junk" /\ reset = "power" /\ boot_stage = "none"
    /\ marked = FALSE /\ died = [pc |-> "off", op |-> "none", marked |-> FALSE]

\* diag_stage(s), the last one on the path of the step.
diag_stage(s) == stage' = s /\ marked' = TRUE /\ UNCHANGED <<reset, boot_stage, died>>
------------------------------------------------------------------------------
\* Mutant: the register is cleared before it is captured.
BootClearsFirst ==
    /\ Boot
    /\ boot_stage' = "none"
    /\ stage' = "none"
    /\ marked' = FALSE
    /\ UNCHANGED <<reset, died>>

\* What diag_previous_stage() makes of the register: the range check is `\in Stage`.
PreviousStage == IF reset = "watchdog" /\ stage \in Stage THEN stage ELSE "none"

\* Mutant: the register is left as it is after it was captured.
BootKeepsRegister ==
    /\ Boot
    /\ boot_stage' = PreviousStage
    /\ marked' = FALSE
    /\ UNCHANGED <<stage, reset, died>>

\* diag_capture_boot_stage(), first thing in app_main(): this run starts clean.
DiagBoot ==
    /\ Boot
    /\ boot_stage' = PreviousStage
    /\ stage' = "none"
    /\ marked' = FALSE
    /\ UNCHANGED <<reset, died>>

\* Stages the step in progress may have set by the time it is cut off.
OnTheWay ==
    CASE pc = "idle" ->
            {"sign-enter"} \cup IF storage_writen(flash) THEN {} ELSE Checking
      [] pc = "page1" ->
            IF flash' = Programmed(flash, Page1, Staged) THEN {"done"} ELSE {}
      [] pc = "key" -> IF Loaded = Nothing THEN {} ELSE {"sign-parse"}
      [] pc = "crypto" -> {"sign-reply", "sign-done"}
      [] OTHER -> {}

\* The scratch register survives the watchdog, not a power cycle.
Death(cause) ==
    /\ Crash
    /\ reset' = cause
    /\ \E last \in {stage} \cup OnTheWay :
          /\ stage' = IF cause = "power" THEN "junk" ELSE last
          /\ died' = [pc |-> pc, op |-> job.op, marked |-> marked \/ last \in OnTheWay]
    /\ UNCHANGED <<boot_stage, marked>>

PowerCut == Death("power")
WatchdogReset == Death("watchdog")

\* The paths through the handlers that set no stage at all.
Unmarked ==
    /\ \/ WriteRefused \/ ClearMalformed \/ ClearNothing \/ DebugClear
       \/ Info \/ Snapshot 
       \/ FlashFails \/ EraseForClear \/ ProgramPage0 \/ ClearDenied
    /\ UNCHANGED diagVars

\* A request that is turned down: stages reached before the field it fails on.
MarkedRefusal ==
    \/ WriteMalformed /\ UNCHANGED diagVars
    \/ /\ WriteMalformed /\ reply'.status # 413
       /\ \E s \in {"write-received", "fields-ok"} : diag_stage(s)
    \/ /\ \E rec \in Record, half \in Pub \cup {Bare} : WriteMismatched(rec, half)
       /\ diag_stage("pair-check")
    \/ SignEmpty /\ diag_stage("sign-enter")
    \/ SignRefused /\ diag_stage(IF Loaded = Nothing THEN "sign-key" ELSE "sign-parse")

MarkedWrite ==
    \/ /\ \E rec \in Record, half \in Pub \cup {Bare} : Provision(rec, half)
       /\ diag_stage("entropy")
    \/ GenerateKeys /\ diag_stage("boxing")
    \/ BoxPayload /\ diag_stage("erase")
    \/ EraseForWrite /\ diag_stage("program")
    \/ ProgramPage1 /\ diag_stage("done")

MarkedClear == 
    \/ Clear /\ diag_stage("clear")
    \/ ClearAuthorised /\ UNCHANGED diagVars

MarkedSign ==
    \/ Sign /\ diag_stage("sign-key")
    \/ SignLoaded /\ diag_stage("sign-crypto")
    \/ SignDone /\ diag_stage("sign-done")

DiagNext ==
    \/ DiagBoot \/ PowerCut \/ WatchdogReset
    \/ Unmarked \/ MarkedRefusal \/ MarkedWrite \/ MarkedClear \/ MarkedSign

DiagSpec == DiagInit /\ [][DiagNext]_<<vars, diagVars>>
------------------------------------------------------------------------------
(* Properties *)

\* The stages a run that died there may have left behind, for the two paths
\* that carry markers (diag.h:1): provisioning and signing, and POST /clear.
StageOfDeath(d) ==
    CASE d.pc = "entropy" -> {"entropy"}
      [] d.pc = "boxing" -> {"boxing"}
      [] d.pc = "erase" /\ d.op = "write" -> {"erase"}
      [] d.pc = "page0" -> {"program"}
      [] d.pc = "page1" -> {"program", "done"}
      [] d.op = "clear" -> {"clear"}
      [] d.pc = "key" -> {"sign-key", "sign-parse"}
      [] d.pc = "crypto" -> {"sign-crypto", "sign-reply", "sign-done"}
      [] OTHER -> Stage

\* README "Troubleshooting": a watchdog reset in the middle of provisioning,
\* signing or /clear is reported under the step it hit and no other; after a
\* power cycle nothing is reported, however the run before it ended.
DeathIsNamed ==
    pc # "off" =>
        /\ reset = "watchdog" => boot_stage \in StageOfDeath(died)
        /\ reset = "power" => boot_stage = "none"

\* diag.c:32, "this run starts clean": a stage is reported once.  When the
\* watchdog resets a run that reached no marker, the boot after it reports
\* nothing, whatever the runs before that one had left in the register.
NoStaleStage ==
    pc # "off" /\ reset = "watchdog" /\ ~died.marked => boot_stage = "none"
==============================================================================
