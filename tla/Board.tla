--------------------------------- MODULE Board -------------------------------
(***************************************************************************)
(* The main loop with its LED: the callbacks of src/http_server.c that run *)
(* inside usb_network_update() signal a pattern, and the loop advances it  *)
(* once per iteration, after whatever the handler took.  Each action is    *)
(* the MainLoop action with the calls into src/led.c on its path.          *)
(***************************************************************************)
EXTENDS MainLoop, Led

boardVars == <<vars, ledVars>>

BoardTypeOK == TypeOK /\ LedTypeOK

BoardInit == Init /\ LedInit
------------------------------------------------------------------------------
BoardStart == Start /\ led_init

\* app_main() calls led_set_ready() when everything is up.
BoardReturn ==
    /\ Return
    /\ IF doing = "init" THEN led_set_ready ELSE UNCHANGED ledVars

\* http_accept_cb(), http_err_cb(), and the first line of handle_sign_post().  One
\* usb_network_update() may run several of them, around a handler too, before
\* led_tick(): each starts its pattern afresh, and the last one counts.
Signal ==
    \/ Poll("sign") /\ led_signal_signing
    \/ /\ \/ \E d \in Doing \ {"sign"} : Poll(d)
          \/ AckReset
          \/ doing # "init" /\ Return
       /\ led_signal_activity \/ led_signal_error

QuietPoll ==
    /\ \E d \in Doing \ {"sign"} : Poll(d)
    /\ UNCHANGED ledVars

\* led_tick() comes right after usb_network_update().
BoardFeed == Feed /\ led_tick
BoardShutdown == Shutdown /\ led_tick

BoardTick == Tick /\ LedTimePasses

\* The pins float, and what RAM held is lost.
BoardReset ==
    /\ Reset
    /\ pattern' = "ready" /\ phase' = 0 /\ pin' = FALSE /\ due' = 0

\* The steps that have nothing to do with the LED.
Dark ==
    /\ \/ Setup \/ InitFails \/ AckReset \/ TrngAnswers \/ DrawWord \/ Advance \/ Stall
    /\ UNCHANGED ledVars

BoardNext ==
    \/ BoardStart \/ BoardReturn \/ Signal \/ QuietPoll \/ BoardFeed \/ BoardShutdown
    \/ BoardTick \/ BoardReset \/ Dark

\* Code that runs keeps running; and time passes, although the TRNG may always
\* answer at once.  Nothing is assumed of what arrives or of keys on the UART.
Running ==
    BoardStart \/ BoardReturn \/ Signal \/ QuietPoll \/ BoardFeed \/ BoardReset
Working == (Setup \/ DrawWord \/ Advance) /\ UNCHANGED ledVars

BoardSpec ==
    /\ BoardInit /\ [][BoardNext]_boardVars
    /\ WF_boardVars(Running) /\ WF_boardVars(Working) /\ SF_boardVars(BoardTick)
------------------------------------------------------------------------------
(* Properties *)

\* While the board serves and nothing is signalled, the LED is on: every way back
\* to the ready pattern, at whatever moment of a long handler its time came,
\* leaves it so.
ReadyIsLit ==
    pattern = "ready" /\ at \in {"poll", "loop", "work", "stalled"} /\ doing # "init" => pin

\* A blink ends by itself: unless callbacks keep signalling, the LED comes to
\* rest in ready, or in error, which only another signal clears.
LedSettles ==
    []<><<Signal>>_boardVars \/ <>[](pattern \in {"ready", "error"})
==============================================================================
