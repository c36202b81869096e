-------------------------------- MODULE Console --------------------------------
(***************************************************************************)
(* The console: BasicRenderer (basic_renderer.cpp), which the main program *)
(* prints with and the keyboard's handler (input/keyboard.cpp,             *)
(* kb_scancode_trans.cpp) echoes with, both at the one cursor_position.    *)
(*                                                                         *)
(* The main program goes load by load and store by store; the handler runs *)
(* with interrupts off and is one step.  x is in pixels, y in lines of 16  *)
(* pixels: the code changes y by whole lines only.                         *)
(***************************************************************************)
EXTENDS Pic, Sequences

CONSTANTS
  CharWidth,     \* 8
  Widths,        \* the widths of line, in pixels, the firmware may have set
  MappedLines,   \* lines that are mapped whole; the next one may be in part
  MaxText,       \* bound: characters in one print
  MaxLine,       \* bound: nothing more is printed or typed from this line on
  MaxQueue       \* bound: scancodes waiting in the keyboard

ASSUME ConsoleAssumption ==
  /\ {CharWidth, MaxQueue} \subseteq Nat \ {0}
  /\ {MappedLines, MaxText, MaxLine} \subseteq Nat
  /\ \A w \in Widths : w \in Nat /\ w >= CharWidth

VARIABLES
  width,      \* target_framebuffer->width: never changes
  pc,         \* what the main program does next
  left,       \* characters of the print under way, the current one included
  reg,        \* the register the program adds in
  at,         \* where it is about to draw: <<x, y>>
  x, y,       \* cursor_position
  left_shift_pressed, right_shift_pressed,
  queue,      \* scancodes in the keyboard, oldest first
  held,       \* shift keys that are down
  panicked,   \* a page fault: panic, then a loop with interrupts off
  \* History:
  began       \* <<x, y, length>> of the last print, or <<>> once anything
              \* else has moved the cursor

cursor == <<x, y>>
shift == <<left_shift_pressed, right_shift_pressed>>
keyboard == <<queue, held>>
vars == <<picVars, width, pc, left, reg, at, cursor, shift, keyboard, panicked, began>>

(***************************************************************************)
(* Scancodes, by what handle_keyboard and translate do with them: "letter" *)
(* stands for the keys that have a character, "none" for those with a 0 in *)
(* ascii_table (Ctrl, Alt, Tab), "caps" for 58, one beyond the table, and  *)
(* "other" for what is above it, such as releases.                         *)
(***************************************************************************)
ShiftKeys == {"left shift", "right shift"}
Releases == {"left shift up", "right shift up"}
Scancodes ==
  {"letter", "none", "caps", "other", "enter", "space", "backspace"}
    \union ShiftKeys \union Releases

-------------------------------------------------------------------------------
\* A mutation: the last column is not used.
no_room_Early(px) == px + CharWidth >= width

\* A mutation: room for the cursor, not for the character after it.
no_room_Late(px) == px > width

\* cursor_position.x + 8 > target_framebuffer->width
no_room(px) == px + CharWidth > width

\* What nextln and draw_char(chr) do to the cursor c.
nextln(c) == <<0, c[2] + 1>>
draw_char(c) ==
  IF no_room(c[1] + CharWidth) THEN nextln(c) ELSE <<c[1] + CharWidth, c[2]>>

\* To the right edge of the line above; the first line stays the first.
line_up(c) == <<width, Max({c[2] - 1, 0})>>

\* What clear_char does: it first leaves column 0, erases the character to the
\* left, and moves there.
before_erasing(c) == IF c[1] = 0 THEN line_up(c) ELSE c
clear_char(c) ==
  LET e == before_erasing(c)
      moved == <<e[1] - CharWidth, e[2]>>
  IN  IF moved[1] < 0 THEN line_up(moved) ELSE moved

\* Whether drawing on this line writes outside the mapped framebuffer: a blank
\* sets no pixel, and a line mapped in part may hold the pixels that are set.
faults(glyph, line) ==
  IF glyph = "blank" \/ line < MappedLines THEN {FALSE}
  ELSE IF line = MappedLines THEN BOOLEAN
  ELSE {TRUE}

\* Whether clear_char does so.  At less than a character from the left edge
\* x_off - 8 is a huge unsigned number, and nothing is erased.
erasing_faults ==
  LET e == before_erasing(cursor)
  IN  IF e[1] < CharWidth THEN {FALSE} ELSE faults("erased", e[2])

\* translate: the glyphs that scancode may give.  With shift, 32 is taken off
\* the 0 of a key without a character as well, which is then drawn; entry 58 is
\* whatever follows the table.
translate(code) ==
  CASE code = "letter" -> {"visible"}
    [] code = "none" ->
         IF left_shift_pressed \/ right_shift_pressed THEN {"visible", "blank"}
         ELSE {"nothing"}
    [] code = "caps" -> {"visible", "blank", "nothing"}
    [] code = "other" -> {"nothing"}

Init ==
  /\ PicInit
  /\ width \in Widths
  /\ pc = "ready" /\ left = 0 /\ reg = 0 /\ at = <<0, 0>>
  /\ x = 0 /\ y = 0
  /\ left_shift_pressed = FALSE /\ right_shift_pressed = FALSE
  /\ queue = <<>> /\ held = {}
  /\ panicked = FALSE /\ began = <<>>

-------------------------------------------------------------------------------
(***************************************************************************)
(* The main program, between whose steps the handler may run.              *)
(***************************************************************************)
step(from, to) ==
  /\ Quiescent /\ ~panicked
  /\ pc = from /\ pc' = to
  /\ UNCHANGED <<picVars, width, shift, keyboard>>

\* global_renderer->print(str), for a str that is not empty
print ==
  /\ step("ready", "load_y")
  /\ y < MaxLine
  /\ left' \in 1 .. MaxText
  /\ began' = <<x, y, left'>>
  /\ UNCHANGED <<reg, at, cursor, panicked>>

\* global_renderer->nextln(): print's line feed is the same three steps.
call_nextln ==
  /\ step("ready", "clear_x")
  /\ y < MaxLine
  /\ began' = <<>>
  /\ UNCHANGED <<left, reg, at, cursor, panicked>>

\* draw_char(*chr, cursor_position.x, cursor_position.y)
load_y ==
  /\ step("load_y", "load_x")
  /\ at' = <<0, y>>
  /\ UNCHANGED <<left, reg, cursor, panicked, began>>

load_x ==
  /\ step("load_x", "draw")
  /\ at' = <<x, at[2]>>
  /\ UNCHANGED <<left, reg, cursor, panicked, began>>

draw ==
  /\ step("draw", "add_x")
  /\ at' = <<0, 0>>
  /\ \E glyph \in {"visible", "blank"} : panicked' \in faults(glyph, at[2])
  /\ UNCHANGED <<left, reg, cursor, began>>

\* cursor_position.x += 8
add_x ==
  /\ step("add_x", "store_x")
  /\ reg' = x + CharWidth
  /\ UNCHANGED <<left, at, cursor, panicked, began>>

store_x ==
  /\ step("store_x", "test_x")
  /\ x' = reg /\ reg' = 0
  /\ UNCHANGED <<left, at, y, panicked, began>>

\* chr++ and the loop's test
after_char == IF left > 1 THEN "load_y" ELSE "ready"
one_less == Max({left - 1, 0})

test_x ==
  /\ step("test_x", IF no_room(x) THEN "clear_x" ELSE after_char)
  /\ left' = IF no_room(x) THEN left ELSE one_less
  /\ UNCHANGED <<reg, at, cursor, panicked, began>>

\* cursor_position.x = 0
clear_x ==
  /\ step("clear_x", "add_y")
  /\ x' = 0
  /\ UNCHANGED <<left, reg, at, y, panicked, began>>

\* cursor_position.y += 16
add_y ==
  /\ step("add_y", "store_y")
  /\ reg' = y + 1
  /\ UNCHANGED <<left, at, cursor, panicked, began>>

store_y ==
  /\ step("store_y", after_char)
  /\ y' = reg /\ reg' = 0
  /\ left' = one_less
  /\ UNCHANGED <<at, x, panicked, began>>

MainStep ==
  \/ print \/ call_nextln
  \/ load_y \/ load_x \/ draw \/ add_x \/ store_x \/ test_x
  \/ clear_x \/ add_y \/ store_y

-------------------------------------------------------------------------------
(***************************************************************************)
(* The keyboard and its handler.                                           *)
(***************************************************************************)
\* The shift keys that are down after a scancode, of those down before it.
held_after(down, code) ==
  CASE code \in ShiftKeys -> down \union {code}
    [] code = "left shift up" -> down \ {"left shift"}
    [] code = "right shift up" -> down \ {"right shift"}
    [] OTHER -> down

\* The keyboard keeps what is typed and asks for each scancode in turn.  A key
\* that is held repeats, and only a held key is released.
key_pressed ==
  /\ Len(queue) < MaxQueue /\ y < MaxLine /\ ~panicked
  /\ \E code \in Scancodes :
       /\ code = "left shift up" => "left shift" \in held
       /\ code = "right shift up" => "right shift" \in held
       /\ queue' = Append(queue, [code |-> code, held |-> held])
       /\ held' = held_after(held, code)
  /\ IF queue = <<>> THEN Raise(KEYBOARD_IRQ) ELSE UNCHANGED picVars
  /\ UNCHANGED <<width, pc, left, reg, at, cursor, shift, panicked, began>>

\* uint8_t scancode = inb(0x60)
scancode == Head(queue).code

\* What a handler that returns does around the work of handle_keyboard.
received ==
  /\ queue # <<>> /\ ~panicked
  /\ Serve(KEYBOARD_IRQ, Len(queue) > 1)
  /\ queue' = Tail(queue)
  /\ UNCHANGED <<width, pc, left, reg, at, held, panicked>>

moves(c) == x' = c[1] /\ y' = c[2] /\ began' = <<>>

\* A mutation: a release clears both flags.
pressed_after_Both(flag, key, release) ==
  IF scancode \in Releases THEN FALSE ELSE flag \/ scancode = key

\* A shift flag after this scancode: its own key sets it, its release clears it.
pressed_after(flag, key, release) ==
  IF scancode = release THEN FALSE ELSE flag \/ scancode = key

on_shift ==
  /\ received
  /\ scancode \in ShiftKeys \union Releases
  /\ left_shift_pressed' = pressed_after(left_shift_pressed, "left shift", "left shift up")
  /\ right_shift_pressed' = pressed_after(right_shift_pressed, "right shift", "right shift up")
  /\ UNCHANGED <<cursor, began>>

on_enter ==
  /\ received
  /\ scancode = "enter"
  /\ moves(nextln(cursor))
  /\ UNCHANGED shift

on_space ==
  /\ received
  /\ scancode = "space"
  /\ moves(draw_char(cursor))
  /\ UNCHANGED shift

on_backspace ==
  /\ received
  /\ scancode = "backspace"
  /\ FALSE \in erasing_faults
  /\ moves(clear_char(cursor))
  /\ UNCHANGED shift

on_character ==
  /\ received
  /\ scancode \in {"letter", "none", "caps", "other"}
  /\ \E glyph \in translate(scancode) :
       IF glyph = "nothing" THEN UNCHANGED <<cursor, began>>
       ELSE FALSE \in faults(glyph, y) /\ moves(draw_char(cursor))
  /\ UNCHANGED shift

\* Drawing below the framebuffer faults inside the handler: panic never returns.
\* It leaves the cursor on its own message; nothing reads it any more.
handler_faults ==
  /\ queue # <<>> /\ ~panicked
  /\ \/ /\ scancode = "backspace"
        /\ TRUE \in faults("erased", before_erasing(cursor)[2])
     \/ /\ scancode \in {"letter", "none", "caps", "other"}
        /\ \E glyph \in translate(scancode) \ {"nothing"} : TRUE \in faults(glyph, y)
  /\ Enter(KEYBOARD_IRQ)
  /\ queue' = Tail(queue)
  /\ panicked' = TRUE
  /\ UNCHANGED <<width, pc, left, reg, at, cursor, shift, held, began>>

keyboard_int_handler ==
  \/ on_shift \/ on_enter \/ on_space \/ on_backspace \/ on_character
  \/ handler_faults

Next == MainStep \/ key_pressed \/ keyboard_int_handler

\* A pending interrupt is taken.
Fairness == WF_vars(keyboard_int_handler)

Spec == Init /\ [][Next]_vars /\ Fairness

-------------------------------------------------------------------------------
(***************************************************************************)
(* Properties.                                                             *)
(***************************************************************************)
MainPoints ==
  {"ready", "load_y", "load_x", "draw", "add_x", "store_x", "test_x",
   "clear_x", "add_y", "store_y"}

TypeOK ==
  /\ PicTypeOK
  /\ width \in Widths
  /\ pc \in MainPoints
  /\ left \in 0 .. MaxText
  /\ {reg, x, y, at[1], at[2]} \subseteq Nat
  /\ {left_shift_pressed, right_shift_pressed, panicked} \subseteq BOOLEAN
  /\ queue \in Seq([code : Scancodes, held : SUBSET ShiftKeys])
  /\ Len(queue) <= MaxQueue
  /\ held \subseteq ShiftKeys
  /\ ~panicked => isr = {}

\* How far beyond the right edge a character may begin: not at all, unless the
\* width is not a whole number of characters.
Overhang == IF width % CharWidth = 0 THEN 0 ELSE CharWidth

\* However the main program and the handler move the one cursor under each
\* other's hands, an update lost between a load and a store never takes it past
\* the right edge, and no character begins beyond it
\* (basic_renderer.cpp:43-50, 28-34).
CursorStaysInLine ==
  /\ x <= width + Overhang
  /\ pc = "draw" => at[1] <= width + Overhang

\* Between two characters there is room for the next one, unless the width is
\* not a whole number of characters: then Backspace in the first column can
\* leave the cursor at the right edge itself (basic_renderer.cpp:46, 101-103).
RoomForNext ==
  pc \in {"ready", "load_y"} =>
    \/ x + CharWidth <= width
    \/ x = width /\ width % CharWidth # 0

\* A print that no key disturbs fills the rest of its line and then whole
\* lines, and ends after its last character (basic_renderer.cpp:37-54).
PrintFillsLines ==
  pc = "ready" /\ began # <<>> =>
    LET columns == width \div CharWidth
        fit  == Max({1, (width - began[1]) \div CharWidth})
        over == began[3] - fit
    IN  cursor = IF over < 0 THEN <<began[1] + began[3] * CharWidth, began[2]>>
                 ELSE <<(over % columns) * CharWidth,
                        began[2] + 1 + over \div columns>>

\* When the handler comes to a key, the shift flags are the shift keys that
\* were down when that key was struck, with both keys, repeats and keys that
\* waited (keyboard.cpp:8-21, 33).
ShiftAsTyped ==
  LET typed == IF queue = <<>> THEN held ELSE Head(queue).held
  IN  /\ left_shift_pressed <=> "left shift" \in typed
      /\ right_shift_pressed <=> "right shift" \in typed

\* No key waits for ever: the handler acknowledges every interrupt and leaves
\* the keyboard free to raise the next (interrupts.cpp:24-31, 40-43).
KeysAreHandled ==
  []<>(queue = <<>> \/ panicked) \/ []<><<keyboard_int_handler>>_vars

\* "Nach dem Sprung zur anderen Funktion kann die CPU wieder bei der letzten
\* ausgefuehrten Anweisung fortfahren" (docs/eta-os-docs.tex:59): every
\* interrupt handler returns to the program it interrupted.
HandlersReturn == [][keyboard_int_handler => ~panicked']_vars
================================================================================
