------------------------------- MODULE Panel -------------------------------
(***************************************************************************)
(* The main loop of avr/sha204_playground.cpp between the user's two       *)
(* inputs: the button, whose presses it announces once they have lasted 70 *)
(* ms, and the line editor, which serves the button while it waits for the *)
(* digits of a parameter and announces nothing. The Arduino sketch has the *)
(* line input only.                                                        *)
(***************************************************************************)
EXTENDS Button, LineInput

CONSTANT Hold   \* 7: the ticks after which a press is announced

\* (more than the two ticks that fall into a turn of the main loop at most)
ASSUME PanelAssumption == Hold \in 3..(MaxHeld - 1)

VARIABLES
  pc,                       \* "service", "measure": main loop; "command"; "line"; "lost"
  button_press_registered,
  announced,                \* ghost: how often this press was announced
  carried                   \* ghost: this press began in a line, with one before it still registered

panel == <<button_press_registered, announced, carried>>
vars == <<button, board, line, pc, panel>>

TypeOK ==
  /\ ButtonTypeOK /\ LineTypeOK
  /\ pc \in {"service", "measure", "command", "line", "lost"}
  /\ pc # "lost" => (reading <=> pc = "line")
  /\ button_press_registered \in BOOLEAN /\ announced \in Nat /\ carried \in BOOLEAN

Init ==
  /\ ButtonInit /\ LineInit
  /\ pc = "service" /\ button_press_registered = FALSE /\ announced = 0 /\ carried = FALSE

Presses(inLine) ==
  /\ announced' = IF button_is_pressed /\ button_is_pressed' THEN announced ELSE 0
  /\ carried' = (button_is_pressed' /\
                   IF button_is_pressed THEN carried ELSE inLine /\ button_press_registered)
  /\ UNCHANGED button_press_registered

Service ==
  /\ pc = "service" /\ board = "avr"
  /\ service_button /\ Presses(FALSE)
  /\ pc' = "measure" /\ UNCHANGED <<board, line>>

\* mutants: a press is announced at every turn; a press is never forgotten
AnnouncesAgain(length) == length >= Hold
NeverReleased(length) == FALSE

Announces(length) == length >= Hold /\ ~button_press_registered
Released(length) == button_press_registered /\ length < Hold

\* button_pressed_for, the announcement, and whether a command was typed
Measure ==
  /\ pc = "measure"
  /\ \E length \in Times :
       /\ button_pressed_for(length)
       /\ button_press_registered' =
            (Announces(length) \/ (button_press_registered /\ ~Released(length)))
       /\ announced' = IF Announces(length) THEN announced + 1 ELSE announced
  /\ pc' \in {"service", "command"}
  /\ UNCHANGED <<board, line, carried>>

SketchTurn ==
  /\ pc = "service" /\ board = "arduino" /\ pc' = "command"
  /\ UNCHANGED <<button, board, line, panel>>

\* The commands ask for their parameters one after the other
AskFor ==
  /\ pc = "command" /\ \E n \in Lengths : Ask(n)
  /\ pc' = "line" /\ UNCHANGED <<button, board, panel>>

CommandEnds ==
  /\ pc = "command" /\ Forget /\ pc' = "service" /\ UNCHANGED <<button, board, panel>>

\* A turn of usb_serial_readline: a key or none, then the button
LineTurn ==
  /\ pc = "line" /\ board = "avr"
  /\ (\E c \in Chars : Typed(c)) \/ Backspace \/ UNCHANGED line
  /\ service_button /\ Presses(TRUE)
  /\ UNCHANGED <<board, pc>>

LineReturns ==
  /\ pc = "line"
  /\ \/ board = "avr" /\ InBuffer /\ Enter /\ pc' = "command"
     \/ board = "arduino" /\ Pause /\ pc' = "command"
     \/ /\ board = "arduino" /\ \E c \in Chars : Received(c)
        /\ pc' = IF reading' THEN "line" ELSE "command"
  /\ UNCHANGED <<button, board, panel>>

\* Enter with a cursor past the buffer: what is undefined, is not described
LineLost ==
  /\ pc = "line" /\ board = "avr" /\ ~InBuffer
  /\ pc' = "lost" /\ UNCHANGED <<button, board, line, panel>>

\* (service_button and button_pressed_for follow each other at once: a tick between
\* them falls into one of their readings)
TimePasses == pc # "measure" /\ Tick /\ UNCHANGED <<board, line, pc, panel>>
Finger == PressOrRelease /\ UNCHANGED <<board, line, pc, panel>>

Next ==
  \/ Service \/ Measure \/ SketchTurn
  \/ AskFor \/ CommandEnds \/ LineTurn \/ LineReturns \/ LineLost
  \/ TimePasses \/ Finger

Spec == Init /\ [][Next]_vars

-----------------------------------------------------------------------------
\* Unless a reading of the clock was torn, a press is announced no more than once, and
\* not before it has lasted Hold ticks: whichever of them fall between or into the
\* readings, and whatever lines are typed meanwhile.
AnnouncedPress ==
  (button_is_pressed /\ ~torn) => (announced <= 1 /\ (announced = 1 => held >= Hold))

\* A press that lasts is not missed: the turn of the main loop that finds it more than
\* Hold ticks long leaves it announced. Excepted are a press with a torn reading, and one
\* that began, while a line was typed, after a press that the loop had yet to see end.
NothingMissed ==
  [][(Measure /\ button_is_pressed /\ held > Hold /\ ~torn' /\ ~carried) => announced' = 1]_vars
=============================================================================
