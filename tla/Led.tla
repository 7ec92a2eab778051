---------------------------------- MODULE Led --------------------------------
(***************************************************************************)
(* The status LED of src/led.c: a pattern, its phase, the pin, and the     *)
(* time until next_toggle.  The signals start a pattern from anywhere; the *)
(* main loop calls led_tick(), which moves on once the time has come.      *)
(* Times are in beats of 50 ms.                                            *)
(***************************************************************************)
EXTENDS Naturals

CONSTANT Beat       \* 50 ms, in ticks

ASSUME LedAssumption == Beat \in Nat \ {0}

VARIABLES
    pattern,   \* current_pattern
    phase,     \* pattern_step
    pin,       \* LED_PIN is high
    due        \* ticks until next_toggle, 0 when it is reached

ledVars == <<pattern, phase, pin, due>>

LedTypeOK ==
    /\ pattern \in {"ready", "activity", "signing", "error"}
    /\ phase \in 0..5
    /\ pin \in BOOLEAN
    /\ due \in 0..(20 * Beat)

LedInit == pattern = "ready" /\ phase = 0 /\ pin = FALSE /\ due = 0

\* Pattern p from its first phase, with the pin at v for n beats.
Show(p, v, n) ==
    pattern' = p /\ phase' = 0 /\ pin' = v /\ due' = n * Beat

led_init == Show("ready", FALSE, 2)
led_set_ready == Show("ready", TRUE, 2)
led_signal_activity == Show("activity", FALSE, 1)
led_signal_signing == Show("signing", FALSE, 3)
led_signal_error == Show("error", FALSE, 10)
------------------------------------------------------------------------------
TickReady ==
    /\ pattern = "ready"
    /\ pin' = TRUE /\ due' = 2 * Beat
    /\ UNCHANGED <<pattern, phase>>

\* One blink, and next_toggle is left as it is: the next tick is due at once.
TickActivity ==
    /\ pattern = "activity"
    /\ pattern' = "ready" /\ pin' = TRUE /\ phase' = phase + 1
    /\ UNCHANGED due

\* Mutant: the last phase does not go back to ready.
TickSigningForever ==
    /\ pattern = "signing"
    /\ phase' = IF phase < 4 THEN phase + 1 ELSE 1
    /\ pin' = (phase' % 2 = 0)
    /\ due' = IF phase' < 4 THEN 3 * Beat ELSE 20 * Beat
    /\ UNCHANGED pattern

\* Mutant: the pin is left off when the pattern ends.
TickSigningDark ==
    /\ pattern = "signing"
    /\ phase' = phase + 1
    /\ pattern' = IF phase < 3 THEN "signing" ELSE "ready"
    /\ pin' = (phase' = 2)
    /\ due' = 3 * Beat

\* Off, on, off, then on for a second, and back to ready.
TickSigning ==
    /\ pattern = "signing"
    /\ phase' = phase + 1
    /\ pin' = (phase' \notin {1, 3})
    /\ due' = CASE phase' < 4 -> 3 * Beat [] phase' = 4 -> 20 * Beat [] OTHER -> 2 * Beat
    /\ pattern' = IF phase' < 5 THEN "signing" ELSE "ready"

\* Blinks until another signal: nothing else takes an error off the LED.
TickError ==
    /\ pattern = "error"
    /\ pin' = ~pin /\ due' = 10 * Beat
    /\ UNCHANGED <<pattern, phase>>

led_tick ==
    \/ due > 0 /\ UNCHANGED ledVars
    \/ due = 0 /\ (TickReady \/ TickActivity \/ TickSigning \/ TickError)

LedTimePasses ==
    /\ due' = IF due > 0 THEN due - 1 ELSE 0
    /\ UNCHANGED <<pattern, phase, pin>>
==============================================================================
