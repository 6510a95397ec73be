------------------------------- MODULE Button -------------------------------
(***************************************************************************)
(* The tick counter of avr/Timer.c and the button of avr/LufaLayer.c. The  *)
(* counter has four bytes, which millis10 reads one by one, the lowest     *)
(* first, while the timer interrupt may increment it: if the increment     *)
(* carries in between, the value read is neither the old nor the new one.  *)
(* Ticks are about 10 ms apart: at most one falls into a reading.          *)
(***************************************************************************)
EXTENDS Integers

CONSTANTS
  Modulus,     \* 2^32: where current_time overflows
  Boundaries,  \* 2^8, 2^16, 2^24: where one of its bytes ends
  MaxHeld      \* bound: the ticks that a press lasts

ASSUME ButtonAssumption ==
  /\ Modulus \in Nat \ {0} /\ Boundaries \subseteq 1..(Modulus - 1)
  /\ MaxHeld \in 1..(Modulus - 1)

VARIABLES
  current_time,
  down,                      \* the button itself
  button_is_pressed, button_pressed_timestamp,
  held,                      \* ghost: ticks since the button was found pressed
  torn                       \* ghost: a reading made for this press was torn

button == <<current_time, down, button_is_pressed, button_pressed_timestamp, held, torn>>

Times == 0..(Modulus - 1)

ButtonTypeOK ==
  /\ current_time \in Times /\ button_pressed_timestamp \in Times
  /\ down \in BOOLEAN /\ button_is_pressed \in BOOLEAN /\ torn \in BOOLEAN
  /\ held \in 0..MaxHeld

ButtonInit ==
  /\ current_time = 0 /\ down = FALSE
  /\ button_is_pressed = FALSE /\ button_pressed_timestamp = 0
  /\ held = 0 /\ torn = FALSE

Plus1(t) == (t + 1) % Modulus
Minus(t, u) == (t - u) % Modulus

\* The timer interrupt, for a button last found in state `pressed`
Ticks(pressed) ==
  /\ held < MaxHeld
  /\ current_time' = Plus1(current_time)
  /\ held' = IF pressed THEN held + 1 ELSE 0

Tick == Ticks(button_is_pressed) /\ UNCHANGED <<down, button_is_pressed, button_pressed_timestamp, torn>>

\* What is read when the carry out of the bytes below b comes in between
TornAt(b) == (current_time % b) + (Plus1(current_time) - (Plus1(current_time) % b))
Torn == {TornAt(b) : b \in Boundaries} \ {current_time, Plus1(current_time)}

\* millis10: a reading with no tick in it, or with one
Reads(value, pressed, damaged) ==
  \/ /\ value = current_time /\ damaged = FALSE
     /\ UNCHANGED current_time /\ held' = IF pressed THEN held ELSE 0
  \/ /\ Ticks(pressed)
     /\ \/ value \in {current_time, Plus1(current_time)} /\ damaged = FALSE
        \/ value \in Torn /\ damaged = TRUE

\* The user
PressOrRelease == down' = ~down /\ UNCHANGED <<current_time, button_is_pressed, button_pressed_timestamp, held, torn>>

\* service_button: a press begins, goes on, or is over
Begins ==
  /\ down /\ ~button_is_pressed
  /\ \E value \in Times, damaged \in BOOLEAN :
       Reads(value, TRUE, damaged) /\ button_pressed_timestamp' = value /\ torn' = damaged
  /\ button_is_pressed' = TRUE /\ UNCHANGED down

GoesOn ==
  /\ down /\ button_is_pressed
  /\ UNCHANGED button

\* (the time of a press that is over is not used again: it is forgotten here)
IsOver ==
  /\ ~down
  /\ button_is_pressed' = FALSE /\ button_pressed_timestamp' = 0
  /\ held' = 0 /\ torn' = FALSE
  /\ UNCHANGED <<current_time, down>>

service_button == Begins \/ GoesOn \/ IsOver

\* button_pressed_for
button_pressed_for(length) ==
  /\ IF button_is_pressed
     THEN \E value \in Times, damaged \in BOOLEAN :
            /\ Reads(value, TRUE, damaged) /\ torn' = (torn \/ damaged)
            /\ length = Minus(value, button_pressed_timestamp)
     ELSE length = 0 /\ UNCHANGED <<current_time, held, torn>>
  /\ UNCHANGED <<down, button_is_pressed, button_pressed_timestamp>>
=============================================================================
