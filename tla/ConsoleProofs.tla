----------------------------- MODULE ConsoleProofs -----------------------------
(***************************************************************************)
(* Proofs about Console for every width of the screen, every text, and any *)
(* number of keys at any moment.                                           *)
(***************************************************************************)
EXTENDS Console, TLAPS

-------------------------------------------------------------------------------
(***************************************************************************)
(* Lemmas: whole characters, counted in pixels.                            *)
(***************************************************************************)
LEMMA RemainderUnique ==
  ASSUME NEW M \in Nat \ {0}, NEW q \in Int, NEW r \in 0 .. M - 1
  PROVE  (M * q + r) % M = r
OBVIOUS

LEMMA WholeCharacters ==
  ASSUME NEW a \in Nat, a % CharWidth = 0
  PROVE  /\ (a + CharWidth) % CharWidth = 0
         /\ a > 0 => a >= CharWidth
         /\ (a - CharWidth) % CharWidth = 0
<1> DEFINE M == CharWidth
           q == a \div M
<1>1. M \in Nat \ {0}
  BY ConsoleAssumption
<1>2. q \in Int /\ a = M * q
  BY <1>1
<1> HIDE DEF M, q
<1>3. /\ (M * (q + 1) + 0) % M = 0
      /\ (M * (q - 1) + 0) % M = 0
  <2>1. q + 1 \in Int /\ q - 1 \in Int /\ 0 \in 0 .. M - 1
    BY <1>1, <1>2
  <2> QED
    BY <1>1, <2>1, RemainderUnique
<1>4. M * (q + 1) + 0 = a + M /\ M * (q - 1) + 0 = a - M
  BY <1>1, <1>2
<1>5. a > 0 => a >= M
  <2>1. a < M => a % M = a
    BY <1>1
  <2> QED
    BY <2>1, <1>1, a % M = 0 DEF M
<1> QED
  BY <1>3, <1>4, <1>5 DEF M

-------------------------------------------------------------------------------
(***************************************************************************)
(* The inductive invariant of the cursor.  Between two characters it has   *)
(* Room; after the store of a print it is at most at the Edge, until the   *)
(* test that follows sends it back.                                        *)
(***************************************************************************)
Whole == width % CharWidth = 0

Room(px) == px + CharWidth <= width \/ (px = width /\ ~Whole)
Edge(px) == px <= width \/ (px = width + CharWidth /\ ~Whole)

CursorInv ==
  /\ width \in Widths
  /\ pc \in MainPoints
  /\ x \in Nat
  /\ IF pc \in {"test_x", "clear_x"} THEN Edge(x) ELSE Room(x)
  /\ Whole => x % CharWidth = 0
  /\ pc = "draw" => at[1] \in Nat /\ at[1] <= width
  /\ pc = "store_x" => /\ reg \in Nat /\ Edge(reg)
                       /\ Whole => reg % CharWidth = 0

\* What the handler does with the cursor when it draws, erases or goes to the
\* next line leaves it with room, wherever the program was interrupted.
LEMMA HandlerLeavesRoom ==
  ASSUME width \in Widths, x \in Nat, Edge(x), Whole => x % CharWidth = 0,
         NEW c \in {nextln(cursor), draw_char(cursor), clear_char(cursor)}
  PROVE  c[1] \in Nat /\ Room(c[1]) /\ (Whole => c[1] % CharWidth = 0)
<1>1. /\ CharWidth \in Nat \ {0} /\ width \in Nat /\ width >= CharWidth
      /\ 0 % CharWidth = 0
  BY ConsoleAssumption
<1>2. /\ Whole => (x + CharWidth) % CharWidth = 0 /\ (x - CharWidth) % CharWidth = 0
      /\ Whole => (width - CharWidth) % CharWidth = 0
      /\ Whole /\ x > 0 => x >= CharWidth
  BY <1>1, WholeCharacters DEF Whole
<1>3. CASE c = nextln(cursor)
  BY <1>1, <1>3 DEF nextln, Room
<1>4. CASE c = draw_char(cursor)
  <2>1. c[1] = 0 \/ (c[1] = x + CharWidth /\ x + CharWidth + CharWidth <= width)
    BY <1>1, <1>4 DEF draw_char, nextln, no_room, cursor
  <2> QED
    BY <2>1, <1>1, <1>2 DEF Room
<1>5. CASE c = clear_char(cursor)
  <2>1. CASE x = 0
    <3>1. c[1] = width - CharWidth
      BY <2>1, <1>1, <1>5 DEF clear_char, before_erasing, line_up, cursor
    <3> QED
      BY <3>1, <1>1, <1>2 DEF Room
  <2>2. CASE x > 0 /\ x < CharWidth
    <3>1. c[1] = width
      BY <2>2, <1>1, <1>5 DEF clear_char, before_erasing, line_up, cursor
    <3> QED
      BY <3>1, <2>2, <1>1, <1>2 DEF Room
  <2>3. CASE x > 0 /\ x >= CharWidth
    <3>1. c[1] = x - CharWidth
      BY <2>3, <1>1, <1>5 DEF clear_char, before_erasing, line_up, cursor
    <3> QED
      BY <3>1, <2>3, <1>1, <1>2 DEF Room, Edge
  <2> QED
    BY <2>1, <2>2, <2>3, <1>1
<1> QED
  BY <1>3, <1>4, <1>5
-------------------------------------------------------------------------------
(***************************************************************************)
(* The invariant holds at first and every step keeps it.                   *)
(***************************************************************************)
LEMMA CursorInit == Init => CursorInv
<1>1. /\ CharWidth \in Nat \ {0} /\ 0 % CharWidth = 0
      /\ \A w \in Widths : w \in Nat /\ w >= CharWidth
  BY ConsoleAssumption
<1> QED
  BY <1>1 DEF Init, CursorInv, Room, MainPoints

\* The program's own steps.
LEMMA CursorMain ==
  ASSUME CursorInv, MainStep
  PROVE  CursorInv'
<1> USE DEF CursorInv, MainPoints
<1>1. /\ CharWidth \in Nat \ {0} /\ width \in Nat /\ width >= CharWidth
      /\ 0 % CharWidth = 0
  BY ConsoleAssumption
<1>2. width' = width
  BY DEF MainStep, step, print, call_nextln, load_y, load_x, draw, add_x, store_x,
         test_x, clear_x, add_y, store_y
<1>3. Whole' = Whole /\ (\A px : (Room(px)' <=> Room(px)) /\ (Edge(px)' <=> Edge(px)))
  BY <1>2 DEF Whole, Room, Edge
<1>4. CASE print
  BY <1>2, <1>3, <1>4 DEF print, step, Room, Edge, Whole, cursor
<1>5. CASE call_nextln
  BY <1>1, <1>2, <1>3, <1>5 DEF call_nextln, step, Room, Edge, Whole, cursor
<1>6. CASE load_y
  BY <1>2, <1>3, <1>6 DEF load_y, step, Room, Edge, Whole, cursor
<1>7. CASE load_x
  BY <1>1, <1>2, <1>3, <1>7 DEF load_x, step, Room, Edge, Whole, cursor
<1>8. CASE draw
  BY <1>2, <1>3, <1>8 DEF draw, step, Room, Edge, Whole, cursor
<1>9. CASE add_x
  <2>1. reg' = x + CharWidth /\ x' = x /\ pc = "add_x" /\ pc' = "store_x"
    BY <1>9 DEF add_x, step, cursor
  <2>2. Whole => (x + CharWidth) % CharWidth = 0
    BY WholeCharacters
  <2>3. Edge(x + CharWidth)
    BY <2>1, <1>1 DEF Edge, Room
  <2> QED
    BY <2>1, <2>2, <2>3, <1>1, <1>2 DEF Whole, Room, Edge
<1>10. CASE store_x
  BY <1>2, <1>3, <1>10 DEF store_x, step, Room, Edge, Whole
<1>11. CASE test_x
  BY <1>1, <1>2, <1>3, <1>11 DEF test_x, step, Room, Edge, Whole, cursor, no_room, after_char
<1>12. CASE clear_x
  BY <1>1, <1>2, <1>3, <1>12 DEF clear_x, step, Room, Edge, Whole
<1>13. CASE add_y
  BY <1>2, <1>3, <1>13 DEF add_y, step, Room, Edge, Whole, cursor
<1>14. CASE store_y
  BY <1>2, <1>3, <1>14 DEF store_y, step, Room, Edge, Whole, after_char
<1> QED
  BY <1>4, <1>5, <1>6, <1>7, <1>8, <1>9, <1>10, <1>11, <1>12, <1>13, <1>14 DEF MainStep

\* The handler, at any point of the program.
LEMMA CursorHandler ==
  ASSUME CursorInv, keyboard_int_handler
  PROVE  CursorInv'
<1> USE DEF CursorInv
<1>1. UNCHANGED <<width, pc, at, reg>>
  BY DEF keyboard_int_handler, on_shift, on_enter, on_space, on_backspace, on_character,
         handler_faults, received
<1>2. \/ x' = x
      \/ \E c \in {nextln(cursor), draw_char(cursor), clear_char(cursor)} : x' = c[1]
  BY DEF keyboard_int_handler, on_shift, on_enter, on_space, on_backspace, on_character,
         handler_faults, moves, cursor
<1>3. CASE x' = x
  BY <1>1, <1>3 DEF Whole, Room, Edge
<1>4. ASSUME NEW c \in {nextln(cursor), draw_char(cursor), clear_char(cursor)}, x' = c[1]
      PROVE  CursorInv'
  <2>1. Edge(x)
    BY ConsoleAssumption DEF Edge, Room
  <2>2. c[1] \in Nat /\ Room(c[1]) /\ Edge(c[1]) /\ (Whole => c[1] % CharWidth = 0)
    <3>1. c[1] \in Nat /\ Room(c[1]) /\ (Whole => c[1] % CharWidth = 0)
      BY <2>1, HandlerLeavesRoom
    <3> QED
      BY <3>1, ConsoleAssumption DEF Room, Edge
  <2> QED
    BY <1>1, <1>4, <2>2 DEF Whole, Room, Edge
<1> QED
  BY <1>2, <1>3, <1>4

LEMMA CursorNext == CursorInv /\ [Next]_vars => CursorInv'
<1> SUFFICES ASSUME CursorInv, [Next]_vars PROVE CursorInv'
  OBVIOUS
<1>1. CASE MainStep
  BY <1>1, CursorMain
<1>2. CASE keyboard_int_handler
  BY <1>2, CursorHandler
<1>3. CASE key_pressed \/ UNCHANGED vars
  <2>1. UNCHANGED <<width, pc, at, reg, x>>
    BY <1>3 DEF key_pressed, vars, cursor
  <2> QED
    BY <2>1 DEF CursorInv, Whole, Room, Edge
<1> QED
  BY <1>1, <1>2, <1>3 DEF Next

LEMMA CursorInvariant == Spec => []CursorInv
BY CursorInit, CursorNext, PTL DEF Spec

\* However a print and the keyboard's handler interleave, at every width, the
\* cursor never passes the right edge and no character begins beyond it.
THEOREM CursorIsInLine == Spec => []CursorStaysInLine
<1>1. CursorInv => CursorStaysInLine
  BY ConsoleAssumption DEF CursorInv, CursorStaysInLine, Overhang, Room, Edge, Whole
<1> QED
  BY <1>1, CursorInvariant, PTL

\* Between two characters the cursor has room for the next one, except at the
\* right edge of a screen that is not a whole number of characters wide.
THEOREM NextHasRoom == Spec => []RoomForNext
<1>1. CursorInv => RoomForNext
  BY DEF CursorInv, RoomForNext, Room, Whole
<1> QED
  BY <1>1, CursorInvariant, PTL
-------------------------------------------------------------------------------
(***************************************************************************)
(* The shift keys.  What ties the flags to the keys that are down now is   *)
(* the queue: each scancode leads from the keys down before it to those    *)
(* down before the next one.                                               *)
(***************************************************************************)
Entries == [code : Scancodes, held : SUBSET ShiftKeys]

\* The keys down when the entry after the i-th was struck, or now.
before_next(i) == IF i = Len(queue) THEN held ELSE queue[i + 1].held

KeysInv ==
  /\ queue \in Seq(Entries)
  /\ held \in SUBSET ShiftKeys
  /\ left_shift_pressed \in BOOLEAN /\ right_shift_pressed \in BOOLEAN
  /\ \A i \in 1 .. Len(queue) : held_after(queue[i].held, queue[i].code) = before_next(i)
  /\ ShiftAsTyped

LEMMA HeldType ==
  ASSUME NEW down \in SUBSET ShiftKeys, NEW code \in Scancodes
  PROVE  held_after(down, code) \in SUBSET ShiftKeys
BY DEF held_after, ShiftKeys

LEMMA KeysInit == Init => KeysInv
<1> SUFFICES ASSUME Init PROVE KeysInv
  OBVIOUS
<1>1. queue = <<>> /\ held = {} /\ ~left_shift_pressed /\ ~right_shift_pressed
      /\ left_shift_pressed \in BOOLEAN /\ right_shift_pressed \in BOOLEAN
  BY DEF Init
<1>2. queue \in Seq(Entries) /\ 1 .. Len(queue) = {}
  BY <1>1
<1>3. ShiftAsTyped
  BY <1>1 DEF ShiftAsTyped
<1> QED
  BY <1>1, <1>2, <1>3 DEF KeysInv

\* A key joins the end of the queue.
LEMMA KeysPressed ==
  ASSUME KeysInv, key_pressed
  PROVE  KeysInv'
<1> USE DEF KeysInv
<1>1. PICK code \in Scancodes :
        /\ queue' = Append(queue, [code |-> code, held |-> held])
        /\ held' = held_after(held, code)
  BY DEF key_pressed
<1>2. UNCHANGED <<left_shift_pressed, right_shift_pressed>>
  BY DEF key_pressed, shift
<1> DEFINE entry == [code |-> code, held |-> held]
<1>3. entry \in Entries
  BY DEF Entries
<1>4. /\ queue' \in Seq(Entries) /\ Len(queue') = Len(queue) + 1
      /\ \A i \in 1 .. Len(queue) : queue'[i] = queue[i]
      /\ queue'[Len(queue) + 1] = entry
  BY <1>1, <1>3
<1>5. held' \in SUBSET ShiftKeys
  BY <1>1, HeldType
<1>6. ASSUME NEW i \in 1 .. Len(queue')
      PROVE  held_after(queue'[i].held, queue'[i].code) = before_next(i)'
  <2>1. CASE i = Len(queue) + 1
    BY <2>1, <1>1, <1>4 DEF before_next
  <2>2. CASE i \in 1 .. Len(queue)
    <3>1. /\ queue'[i] = queue[i] /\ i # Len(queue')
          /\ before_next(i)' = queue'[i + 1].held
      BY <2>2, <1>4 DEF before_next
    <3>2. queue'[i + 1].held = before_next(i)
      BY <2>2, <1>4 DEF before_next
    <3> QED
      BY <3>1, <3>2, <2>2
  <2> QED
    BY <2>1, <2>2, <1>4
<1>7. ShiftAsTyped'
  <2>1. CASE queue = <<>>
    <3>1. queue' # <<>> /\ Head(queue').held = held
      BY <2>1, <1>1, <1>4
    <3> QED
      BY <3>1, <2>1, <1>2 DEF ShiftAsTyped
  <2>2. CASE queue # <<>>
    <3>1. queue' # <<>> /\ Head(queue').held = Head(queue).held
      BY <2>2, <1>4
    <3> QED
      BY <3>1, <2>2, <1>2 DEF ShiftAsTyped
  <2> QED
    BY <2>1, <2>2
<1>8. \A i \in 1 .. Len(queue') : held_after(queue'[i].held, queue'[i].code) = before_next(i)'
  BY <1>6
<1>9. \A i \in 1 .. Len(queue') :
        held_after(queue[i].held, queue[i].code)' = before_next(i)'
  BY <1>8 DEF held_after
<1> QED
  BY <1>2, <1>4, <1>5, <1>7, <1>9

\* The handler takes a scancode from the front of the queue, and does to the
\* flags what striking it did to the keys that were down.
LEMMA KeysReceived ==
  ASSUME KeysInv, keyboard_int_handler
  PROVE  KeysInv'
<1> USE DEF KeysInv
<1>1. queue # <<>> /\ queue' = Tail(queue) /\ held' = held
  BY DEF keyboard_int_handler, on_shift, on_enter, on_space, on_backspace, on_character,
         handler_faults, received
<1>2. /\ queue' \in Seq(Entries) /\ Len(queue) \in Nat \ {0}
      /\ Len(queue') = Len(queue) - 1
      /\ \A i \in 1 .. Len(queue') : queue'[i] = queue[i + 1]
  BY <1>1
<1>3. Head(queue) = queue[1] /\ queue[1] \in Entries
  BY <1>1, <1>2
<1>4. ASSUME NEW i \in Nat, 1 <= i, i <= Len(queue')
      PROVE  before_next(i)' = before_next(i + 1)
  <2>1. i + 1 = Len(queue) <=> i = Len(queue')
    BY <1>2, <1>4
  <2>2. i # Len(queue') => queue'[i + 1] = queue[i + 2]
    <3>1. i # Len(queue') => i + 1 \in 1 .. Len(queue') /\ (i + 1) + 1 = i + 2
      BY <1>2, <1>4
    <3> QED
      BY <3>1, <1>2
  <2>3. before_next(i)' = IF i = Len(queue') THEN held' ELSE queue'[i + 1].held
    BY DEF before_next
  <2>4. before_next(i + 1) = IF i + 1 = Len(queue) THEN held ELSE queue[i + 2].held
    BY (i + 1) + 1 = i + 2 DEF before_next
  <2> QED
    BY <2>1, <2>2, <2>3, <2>4, <1>1
<1>5. \A i \in 1 .. Len(queue') : held_after(queue'[i].held, queue'[i].code) = before_next(i)'
  BY <1>2, <1>4
<1>6. \A i \in 1 .. Len(queue') : held_after(queue[i].held, queue[i].code)' = before_next(i)'
  BY <1>5 DEF held_after
<1> DEFINE down == Head(queue).held
           typed == IF queue' = <<>> THEN held ELSE Head(queue').held
<1>7. typed = held_after(down, scancode)
  <2>1. held_after(down, scancode) = before_next(1)
    BY <1>2, <1>3 DEF scancode
  <2>2. CASE queue' = <<>>
    BY <2>1, <2>2, <1>2 DEF before_next
  <2>3. CASE queue' # <<>>
    <3>1. Head(queue') = queue[2] /\ Len(queue) # 1
      BY <2>3, <1>2
    <3> QED
      BY <3>1, <2>1, <2>3 DEF before_next
  <2> QED
    BY <2>2, <2>3
<1>8. /\ down \in SUBSET ShiftKeys
      /\ left_shift_pressed <=> "left shift" \in down
      /\ right_shift_pressed <=> "right shift" \in down
  BY <1>1, <1>3 DEF ShiftAsTyped, Entries
<1>9. /\ left_shift_pressed' \in BOOLEAN /\ right_shift_pressed' \in BOOLEAN
      /\ left_shift_pressed' <=> "left shift" \in typed
      /\ right_shift_pressed' <=> "right shift" \in typed
  <2> HIDE DEF typed, down
  <2>1. CASE on_shift
    <3>1. /\ left_shift_pressed' =
               pressed_after(left_shift_pressed, "left shift", "left shift up")
          /\ right_shift_pressed' =
               pressed_after(right_shift_pressed, "right shift", "right shift up")
          /\ scancode \in {"left shift", "right shift", "left shift up", "right shift up"}
      BY <2>1 DEF on_shift, ShiftKeys, Releases
    <3> QED
      BY <3>1, <1>7, <1>8 DEF pressed_after, held_after, ShiftKeys
  <2>2. CASE ~on_shift
    <3>1. /\ UNCHANGED <<left_shift_pressed, right_shift_pressed>>
          /\ scancode \in {"letter", "none", "caps", "other", "enter", "space", "backspace"}
      BY <2>2 DEF keyboard_int_handler, on_enter, on_space, on_backspace, on_character,
                  handler_faults, shift
    <3>2. typed = down
      BY <3>1, <1>7 DEF held_after, ShiftKeys
    <3> QED
      BY <3>1, <3>2, <1>8
  <2> QED
    BY <2>1, <2>2
<1>10. ShiftAsTyped'
  BY <1>9, <1>1 DEF ShiftAsTyped
<1> QED
  BY <1>1, <1>2, <1>6, <1>9, <1>10

LEMMA KeysNext == KeysInv /\ [Next]_vars => KeysInv'
<1> SUFFICES ASSUME KeysInv, [Next]_vars PROVE KeysInv'
  OBVIOUS
<1>1. CASE key_pressed
  BY <1>1, KeysPressed
<1>2. CASE keyboard_int_handler
  BY <1>2, KeysReceived
<1>3. CASE MainStep \/ UNCHANGED vars
  <2>1. UNCHANGED <<left_shift_pressed, right_shift_pressed, queue, held>>
    BY <1>3 DEF MainStep, step, print, call_nextln, load_y, load_x, draw, add_x, store_x,
                test_x, clear_x, add_y, store_y, vars, shift, keyboard
  <2> QED
    BY <2>1 DEF KeysInv, ShiftAsTyped, before_next, held_after
<1> QED
  BY <1>1, <1>2, <1>3 DEF Next

\* However many keys wait in the keyboard, and in whatever order the two shift
\* keys are pressed, repeated and released, the handler finds the flags as the
\* keys were when the scancode it reads was struck.
THEOREM ShiftIsAsTyped == Spec => []ShiftAsTyped
<1>1. KeysInv => ShiftAsTyped
  BY DEF KeysInv
<1> QED
  BY <1>1, KeysInit, KeysNext, PTL DEF Spec

-------------------------------------------------------------------------------
(***************************************************************************)
(* Where a print comes to.  place is PrintFillsLines' closed form; that    *)
(* one more character takes it to its next value is arithmetic, and the    *)
(* rest of the proof only follows the program from character to character. *)
(***************************************************************************)
columns == width \div CharWidth
fit(b) == Max({1, (width - b[1]) \div CharWidth})
place(b, k) ==
  IF k - fit(b) < 0 THEN <<b[1] + k * CharWidth, b[2]>>
  ELSE <<((k - fit(b)) % columns) * CharWidth, b[2] + 1 + (k - fit(b)) \div columns>>

LEMMA GreaterOfTwo ==
  ASSUME NEW a \in Int, NEW b \in Int
  PROVE  Max({a, b}) = IF a >= b THEN a ELSE b
<1> DEFINE m == IF a >= b THEN a ELSE b
<1>1. m \in {a, b} /\ \A z \in {a, b} : m >= z
  OBVIOUS
<1>2. \A w \in {a, b} : (\A z \in {a, b} : w >= z) => w = m
  OBVIOUS
<1> QED
  BY <1>1, <1>2 DEF Max

LEMMA MoreCharacters ==
  ASSUME NEW a \in Int, NEW b \in Int, NEW M \in Nat, a <= b
  PROVE  a * M <= b * M
<1>1. (b - a) * M >= 0 /\ b * M = a * M + (b - a) * M
  <2>1. b - a \in Nat
    OBVIOUS
  <2>2. \A d \in Nat : d * M \in Nat /\ (a + d) * M = a * M + d * M
    OBVIOUS
  <2> QED
    BY <2>1, <2>2
<1> QED
  BY <1>1

LEMMA QuotientBounds ==
  ASSUME NEW a \in Nat, NEW M \in Nat \ {0}
  PROVE  /\ a \div M \in Nat
         /\ (a \div M) * M <= a
         /\ a < (a \div M + 1) * M
OBVIOUS

\* Counting goes on in the row, or begins the next.
LEMMA NextInRow ==
  ASSUME NEW o \in Nat, NEW M \in Nat \ {0}
  PROVE  /\ o % M \in 0 .. M - 1 /\ o \div M \in Nat
         /\ (o % M) + 1 < M => (o + 1) % M = (o % M) + 1 /\ (o + 1) \div M = o \div M
         /\ (o % M) + 1 = M => (o + 1) % M = 0 /\ (o + 1) \div M = (o \div M) + 1
<1> DEFINE q == o \div M
           r == o % M
<1>1. q \in Nat /\ r \in 0 .. M - 1 /\ o = M * q + r
  OBVIOUS
<1> HIDE DEF q, r
<1>2. \A p \in Nat, s \in 0 .. M - 1 : (M * p + s) % M = s /\ (M * p + s) \div M = p
  OBVIOUS
<1>3. ASSUME r + 1 < M PROVE (o + 1) % M = r + 1 /\ (o + 1) \div M = q
  <2>1. r + 1 \in 0 .. M - 1 /\ o + 1 = M * q + (r + 1)
    BY <1>1, <1>3
  <2> QED
    BY <1>1, <1>2, <2>1
<1>4. ASSUME r + 1 = M PROVE (o + 1) % M = 0 /\ (o + 1) \div M = q + 1
  <2>1. 0 \in 0 .. M - 1 /\ q + 1 \in Nat /\ o + 1 = M * (q + 1) + 0
    BY <1>1, <1>4
  <2> QED
    BY <1>2, <2>1
<1> QED
  BY <1>1, <1>3, <1>4 DEF q, r

\* A print may begin at <<x, y>>.
Begins(b) == b[1] \in Nat /\ Room(b[1]) /\ b[2] \in Nat

LEMMA WidthFacts ==
  ASSUME width \in Widths
  PROVE  /\ CharWidth \in Nat \ {0} /\ width \in Nat /\ columns \in Nat \ {0}
         /\ columns * CharWidth <= width /\ width < (columns + 1) * CharWidth
<1>1. CharWidth \in Nat \ {0} /\ width \in Nat /\ width >= CharWidth
  BY ConsoleAssumption
<1>2. /\ columns \in Nat /\ columns * CharWidth <= width
      /\ width < (columns + 1) * CharWidth
  BY <1>1, QuotientBounds DEF columns
<1>3. columns # 0
  <2>1. columns = 0 => (columns + 1) * CharWidth = CharWidth
    BY <1>1
  <2> QED
    BY <1>1, <1>2, <2>1
<1> QED
  BY <1>1, <1>2, <1>3

LEMMA FitFacts ==
  ASSUME width \in Widths, NEW b, Begins(b)
  PROVE  /\ fit(b) \in Nat \ {0}
         /\ fit(b) > 1 => b[1] + fit(b) * CharWidth <= width
         /\ width < b[1] + (fit(b) + 1) * CharWidth
<1>1. CharWidth \in Nat \ {0} /\ width \in Nat /\ b[1] \in Nat /\ b[1] <= width
  BY WidthFacts DEF Begins, Room
<1> DEFINE d == (width - b[1]) \div CharWidth
<1>2. d \in Nat /\ d * CharWidth <= width - b[1] /\ width - b[1] < (d + 1) * CharWidth
  BY <1>1, QuotientBounds
<1> HIDE DEF d
<1>3. fit(b) = IF 1 >= d THEN 1 ELSE d
  BY <1>2, GreaterOfTwo DEF fit, d
<1>4. (d + 1) * CharWidth <= (fit(b) + 1) * CharWidth
  <2>1. d + 1 \in Int /\ fit(b) + 1 \in Int /\ d + 1 <= fit(b) + 1
    BY <1>2, <1>3
  <2> QED
    BY <1>1, <2>1, MoreCharacters
<1>5. (fit(b) + 1) * CharWidth \in Int /\ (d + 1) * CharWidth \in Int /\ d * CharWidth \in Int
  BY <1>1, <1>2, <1>3
<1>6. width < b[1] + (fit(b) + 1) * CharWidth
  BY <1>1, <1>2, <1>4, <1>5
<1>7. fit(b) > 1 => b[1] + fit(b) * CharWidth <= width
  BY <1>1, <1>2, <1>3, <1>5
<1> QED
  BY <1>2, <1>3, <1>6, <1>7

\* One more character.
LEMMA PlaceAdvances ==
  ASSUME width \in Widths, NEW b, Begins(b), NEW k \in Nat
  PROVE  place(b, k + 1) = draw_char(place(b, k))
<1> DEFINE C == CharWidth
           f == fit(b)
<1>1. /\ C \in Nat \ {0} /\ width \in Nat /\ columns \in Nat \ {0}
      /\ columns * C <= width /\ width < (columns + 1) * C
  BY WidthFacts
<1>2. f \in Nat \ {0} /\ (f > 1 => b[1] + f * C <= width) /\ width < b[1] + (f + 1) * C
  BY FitFacts
<1>3. b[1] \in Nat /\ b[2] \in Nat
  BY DEF Begins
<1>4. /\ k * C \in Nat /\ (k + 1) * C = k * C + C /\ (k + 2) * C = k * C + C + C
      /\ f * C \in Nat /\ (f + 1) * C = f * C + C
      /\ columns * C \in Nat /\ (columns + 1) * C = columns * C + C
  BY <1>1, <1>2
<1> HIDE DEF C, f
<1>5. ASSUME NEW c
      PROVE  draw_char(c) = IF c[1] + C + C > width THEN <<0, c[2] + 1>>
                            ELSE <<c[1] + C, c[2]>>
  BY DEF draw_char, no_room, nextln, C
<1>6. CASE k + 1 < f
  <2>1. place(b, k) = <<b[1] + k * C, b[2]>> /\ place(b, k + 1) = <<b[1] + (k + 1) * C, b[2]>>
    BY <1>2, <1>6 DEF place, C, f
  <2>2. (k + 2) * C <= f * C
    <3>1. k + 2 \in Int /\ f \in Int /\ k + 2 <= f /\ C \in Nat
      BY <1>1, <1>2, <1>6
    <3> QED
      BY <3>1, MoreCharacters
  <2>3. ~(b[1] + k * C + C + C > width)
    BY <1>1, <1>2, <1>3, <1>4, <1>6, <2>2
  <2>4. b[1] + (k + 1) * C = b[1] + k * C + C
    BY <1>1, <1>3, <1>4
  <2> QED
    BY <1>5, <2>1, <2>3, <2>4
<1>7. CASE k + 1 = f
  <2>1. place(b, k) = <<b[1] + k * C, b[2]>>
    BY <1>2, <1>7 DEF place, C, f
  <2>2. place(b, k + 1) = <<0, b[2] + 1>>
    <3>1. place(b, k + 1) = <<(0 % columns) * C, b[2] + 1 + 0 \div columns>>
      BY <1>2, <1>7 DEF place, C, f
    <3>2. 0 % columns = 0 /\ 0 \div columns = 0 /\ 0 * C = 0
      BY <1>1
    <3> QED
      BY <1>3, <3>1, <3>2
  <2>3. b[1] + k * C + C + C > width
    <3>1. f * C = k * C + C
      BY <1>4, <1>7
    <3> QED
      BY <1>1, <1>2, <1>3, <1>4, <3>1
  <2> QED
    BY <1>5, <2>1, <2>2, <2>3
<1>8. CASE k >= f
  <2>1. PICK o \in Nat : o = k - f
    BY <1>2, <1>8
  <2> DEFINE r == o % columns
             q == o \div columns
  <2>2. /\ r \in 0 .. columns - 1 /\ q \in Nat
        /\ r + 1 < columns => (o + 1) % columns = r + 1 /\ (o + 1) \div columns = q
        /\ r + 1 = columns => (o + 1) % columns = 0 /\ (o + 1) \div columns = q + 1
    BY <1>1, NextInRow
  <2>3. /\ place(b, k) = <<r * C, b[2] + 1 + q>>
        /\ place(b, k + 1) =
             <<((o + 1) % columns) * C, b[2] + 1 + (o + 1) \div columns>>
    <3>1. k - f = o /\ (k + 1) - f = o + 1 /\ ~(o < 0) /\ ~(o + 1 < 0)
      BY <1>2, <2>1
    <3>2. place(b, k) = <<(o % columns) * C, b[2] + 1 + o \div columns>>
      BY <3>1 DEF place, C, f
    <3>3. place(b, k + 1) = <<((o + 1) % columns) * C, b[2] + 1 + (o + 1) \div columns>>
      BY <3>1 DEF place, C, f
    <3> QED
      BY <3>2, <3>3
  <2> HIDE DEF r, q
  <2>4. r * C \in Nat /\ (r + 1) * C = r * C + C /\ (r + 2) * C = r * C + C + C /\ 0 * C = 0
    BY <1>1, <2>2
  <2>5. CASE r + 1 < columns
    <3>1. (r + 2) * C <= columns * C
      <4>1. r + 2 \in Int /\ columns \in Int /\ r + 2 <= columns /\ C \in Nat
        BY <1>1, <2>2, <2>5
      <4> QED
        BY <4>1, MoreCharacters
    <3>2. ~(r * C + C + C > width)
      BY <1>1, <1>4, <2>4, <3>1
    <3>3. place(b, k + 1) = <<r * C + C, b[2] + 1 + q>>
      BY <2>2, <2>3, <2>4, <2>5
    <3> QED
      BY <1>5, <2>3, <3>2, <3>3
  <2>6. CASE r + 1 = columns
    <3>1. r * C + C + C > width
      <4>1. columns * C = r * C + C
        BY <2>4, <2>6
      <4> QED
        BY <1>1, <1>4, <2>4, <4>1
    <3>2. place(b, k + 1) = <<0, b[2] + 1 + q + 1>>
      <4>1. b[2] + 1 + (q + 1) = b[2] + 1 + q + 1
        BY <1>3, <2>2
      <4> QED
        BY <2>2, <2>3, <2>4, <2>6, <4>1
    <3> QED
      BY <1>5, <2>3, <3>1, <3>2
  <2> QED
    BY <1>1, <2>2, <2>5, <2>6
<1> QED
  BY <1>2, <1>6, <1>7, <1>8

(***************************************************************************)
(* The invariant: as long as nothing else has moved the cursor, it is      *)
(* where the characters printed so far leave it; in the middle of a        *)
(* character, where it was before that character or where it will be.      *)
(***************************************************************************)
printed == began[3] - left
behind == <<x - CharWidth, y>>

PrintInv ==
  /\ y \in Nat /\ (pc = "store_y" => reg \in Nat)
  /\ began # << >> =>
       /\ Begins(began) /\ began[3] \in Nat /\ left \in 0 .. began[3]
       /\ pc = "ready" => left = 0 /\ cursor = place(began, began[3])
       /\ pc # "ready" => left > 0
       /\ pc \in {"load_y", "load_x", "draw", "add_x", "store_x"} =>
            cursor = place(began, printed)
       /\ pc = "store_x" => reg = x + CharWidth
       /\ pc = "test_x" => behind = place(began, printed)
       /\ pc \in {"clear_x", "add_y"} => <<0, y + 1>> = place(began, printed + 1)
       /\ pc \in {"add_y", "store_y"} => x = 0
       /\ pc = "store_y" => reg = y + 1 /\ <<0, reg>> = place(began, printed + 1)

LEMMA PrintInit == Init => PrintInv
BY DEF Init, PrintInv

\* A print begins where the cursor is.
LEMMA PlaceBegins ==
  ASSUME width \in Widths, NEW b, Begins(b)
  PROVE  place(b, 0) = <<b[1], b[2]>>
<1>1. fit(b) \in Nat \ {0} /\ b[1] \in Nat /\ CharWidth \in Nat
  BY FitFacts, WidthFacts DEF Begins
<1>2. 0 - fit(b) < 0 /\ b[1] + 0 * CharWidth = b[1]
  BY <1>1
<1> QED
  BY <1>2 DEF place

LEMMA SamePlace ==
  ASSUME width' = width
  PROVE  /\ \A b, k : place(b, k)' = place(b, k)
         /\ \A b : Begins(b)' <=> Begins(b)
BY DEF place, fit, columns, Begins, Room, Whole

LEMMA PrintMain ==
  ASSUME CursorInv, PrintInv, MainStep
  PROVE  PrintInv'
<1>1. /\ width \in Widths /\ x \in Nat /\ CharWidth \in Nat \ {0} /\ width \in Nat
      /\ y \in Nat
  BY WidthFacts DEF CursorInv, PrintInv
<1>2. width' = width
  BY DEF MainStep, step, print, call_nextln, load_y, load_x, draw, add_x, store_x,
         test_x, clear_x, add_y, store_y
<1>3. /\ \A b, k : place(b, k)' = place(b, k)
      /\ \A b : Begins(b)' <=> Begins(b)
  BY <1>2, SamePlace
<1> DEFINE P(k) == place(began, k)
<1>4. ASSUME began # << >> PROVE Begins(began) /\ began[3] \in Nat /\ left \in 0 .. began[3]
  BY <1>4 DEF PrintInv
<1>5. CASE print
  <2>1. /\ left' \in Nat \ {0} /\ began' = <<x, y, left'>> /\ x' = x /\ y' = y
        /\ pc = "ready" /\ pc' = "load_y" /\ width' = width
    BY <1>5 DEF print, step, cursor
  <2>2. PICK b : b = <<x, y, left'>>
    OBVIOUS
  <2>3. Begins(b) /\ b[3] = left'
    BY <1>1, <2>1, <2>2 DEF CursorInv, Begins
  <2>4. place(b, 0) = <<x, y>>
    BY <1>1, <2>2, <2>3, PlaceBegins
  <2>5. printed' = 0
    <3>1. PICK n \in Nat : n = left'
      BY <2>1
    <3>2. printed' = n - n
      BY <2>1, <2>2, <2>3, <3>1 DEF printed
    <3> QED
      BY <3>2
  <2>6. cursor' = place(began, printed)'
    BY <1>3, <2>1, <2>2, <2>4, <2>5 DEF cursor
  <2> QED
    BY <1>1, <1>3, <2>1, <2>2, <2>3, <2>6 DEF PrintInv
<1>6. CASE call_nextln
  BY <1>6, <1>1 DEF call_nextln, step, PrintInv, cursor
<1>7. CASE load_y \/ load_x \/ draw
  <2>1. UNCHANGED <<x, y, left, began, reg>>
    BY <1>7 DEF load_y, load_x, draw, cursor
  <2>2. pc \in {"load_y", "load_x", "draw"} /\ pc' \in {"load_x", "draw", "add_x"}
    BY <1>7 DEF load_y, load_x, draw, step
  <2>3. place(began, printed)' = place(began, printed) /\ cursor' = cursor
        /\ (Begins(began)' <=> Begins(began))
    BY <1>3, <2>1 DEF printed, cursor
  <2> QED
    BY <2>1, <2>2, <2>3 DEF PrintInv
<1>8. CASE add_x
  <2>1. /\ UNCHANGED <<x, y, left, began>> /\ reg' = x + CharWidth
        /\ pc = "add_x" /\ pc' = "store_x"
    BY <1>8 DEF add_x, step, cursor
  <2>2. place(began, printed)' = place(began, printed) /\ cursor' = cursor
        /\ (Begins(began)' <=> Begins(began))
    BY <1>3, <2>1 DEF printed, cursor
  <2> QED
    BY <2>1, <2>2 DEF PrintInv
<1>9. CASE store_x
  <2>1. /\ UNCHANGED <<y, left, began>> /\ x' = reg /\ pc = "store_x" /\ pc' = "test_x"
    BY <1>9 DEF store_x, step, cursor
  <2>2. place(began, printed)' = place(began, printed) /\ (Begins(began)' <=> Begins(began))
    BY <1>3, <2>1 DEF printed
  <2>3. began # << >> => behind' = cursor
    BY <1>1, <2>1 DEF PrintInv, behind, cursor
  <2> QED
    BY <2>1, <2>2, <2>3 DEF PrintInv
<1>10. ASSUME began # << >>, pc = "test_x"
       PROVE  /\ no_room(x) => P(printed + 1) = <<0, y + 1>>
              /\ ~no_room(x) => P(printed + 1) = <<x, y>>
  <2>1. printed \in Nat
    BY <1>4, <1>10 DEF printed
  <2>2. P(printed + 1) = draw_char(P(printed))
    BY <1>1, <1>4, <1>10, <2>1, PlaceAdvances
  <2>3. P(printed) = behind
    BY <1>10 DEF PrintInv
  <2>4. behind[1] + CharWidth = x /\ behind[2] = y
    BY <1>1 DEF behind
  <2> QED
    BY <2>2, <2>3, <2>4 DEF draw_char, nextln
<1>11. ASSUME began # << >>, left > 0, left' = one_less, began' = began
       PROVE  /\ left' \in 0 .. began[3] /\ printed' = printed + 1
              /\ left' = left - 1
              /\ after_char = "ready" => left' = 0 /\ printed' = began[3]
              /\ after_char # "ready" => left' > 0 /\ after_char = "load_y"
  <2>1. left \in Nat /\ left \in 0 .. began[3] /\ left - 1 \in Int
    BY <1>4, <1>11
  <2>2. one_less = left - 1
    <3>1. Max({left - 1, 0}) = IF left - 1 >= 0 THEN left - 1 ELSE 0
      BY <2>1, GreaterOfTwo
    <3> QED
      BY <1>11, <2>1, <3>1 DEF one_less
  <2> QED
    BY <1>4, <1>11, <2>1, <2>2 DEF after_char, printed
<1>12. CASE test_x
  <2>1. /\ UNCHANGED <<x, y, began, reg>> /\ pc = "test_x"
        /\ pc' = IF no_room(x) THEN "clear_x" ELSE after_char
        /\ left' = IF no_room(x) THEN left ELSE one_less
    BY <1>12 DEF test_x, step, cursor
  <2>2. CASE no_room(x)
    <3>1. place(began, printed + 1)' = place(began, printed + 1)
          /\ (Begins(began)' <=> Begins(began))
      BY <1>3, <2>1, <2>2 DEF printed
    <3> QED
      BY <1>10, <2>1, <2>2, <3>1 DEF PrintInv
  <2>3. CASE ~no_room(x) /\ began # << >>
    <3>1. /\ left' \in 0 .. began[3] /\ printed' = printed + 1
          /\ after_char = "ready" => left' = 0 /\ printed' = began[3]
          /\ after_char # "ready" => left' > 0 /\ after_char = "load_y"
      BY <1>11, <2>1, <2>3 DEF PrintInv
    <3>2. cursor' = place(began, printed)'
      BY <1>3, <1>10, <2>1, <2>3, <3>1 DEF cursor
    <3>3. Begins(began)' /\ began[3] \in Nat
      BY <1>3, <1>4, <2>1, <2>3
    <3>4. pc' = "ready" => cursor' = place(began, began[3])'
      BY <2>1, <2>3, <3>1, <3>2
    <3> QED
      BY <1>1, <2>1, <2>3, <3>1, <3>2, <3>3, <3>4 DEF PrintInv
  <2>4. CASE ~no_room(x) /\ began = << >>
    BY <1>1, <2>1, <2>4 DEF PrintInv, after_char
  <2> QED
    BY <2>2, <2>3, <2>4
<1>13. CASE clear_x
  <2>1. UNCHANGED <<y, left, began, reg>> /\ x' = 0 /\ pc = "clear_x" /\ pc' = "add_y"
    BY <1>13 DEF clear_x, step
  <2>2. place(began, printed + 1)' = place(began, printed + 1)
        /\ (Begins(began)' <=> Begins(began))
    BY <1>3, <2>1 DEF printed
  <2> QED
    BY <2>1, <2>2 DEF PrintInv
<1>14. CASE add_y
  <2>1. UNCHANGED <<x, y, left, began>> /\ reg' = y + 1 /\ pc = "add_y" /\ pc' = "store_y"
    BY <1>14 DEF add_y, step, cursor
  <2>2. place(began, printed + 1)' = place(began, printed + 1)
        /\ (Begins(began)' <=> Begins(began))
    BY <1>3, <2>1 DEF printed
  <2> QED
    BY <1>1, <2>1, <2>2 DEF PrintInv
<1>15. CASE store_y
  <2>1. /\ UNCHANGED <<x, began>> /\ y' = reg /\ left' = one_less
        /\ pc = "store_y" /\ pc' = after_char
    BY <1>15 DEF store_y, step
  <2>2. y' \in Nat
    BY <2>1 DEF PrintInv
  <2>3. CASE began # << >>
    <3>1. /\ left' \in 0 .. began[3] /\ printed' = printed + 1
          /\ after_char = "ready" => left' = 0 /\ printed' = began[3]
          /\ after_char # "ready" => left' > 0 /\ after_char = "load_y"
      BY <1>11, <2>1, <2>3 DEF PrintInv
    <3>2. cursor' = place(began, printed)'
      BY <1>3, <2>1, <2>3, <3>1 DEF cursor, PrintInv
    <3>3. Begins(began)' /\ began[3] \in Nat
      BY <1>3, <1>4, <2>1, <2>3
    <3>4. pc' = "ready" => cursor' = place(began, began[3])'
      BY <2>1, <2>3, <3>1, <3>2
    <3> QED
      BY <2>1, <2>2, <2>3, <3>1, <3>2, <3>3, <3>4 DEF PrintInv
  <2>4. CASE began = << >>
    BY <2>1, <2>2, <2>4 DEF PrintInv, after_char
  <2> QED
    BY <2>3, <2>4
<1> QED
  BY <1>5, <1>6, <1>7, <1>8, <1>9, <1>12, <1>13, <1>14, <1>15 DEF MainStep

\* The handler leaves the cursor alone, or the print is no longer undisturbed.
LEMMA PrintHandler ==
  ASSUME PrintInv, keyboard_int_handler
  PROVE  PrintInv'
<1>1. UNCHANGED <<width, pc, left, reg>>
  BY DEF keyboard_int_handler, on_shift, on_enter, on_space, on_backspace, on_character,
         handler_faults, received
<1>2. \/ UNCHANGED <<cursor, began>>
      \/ \E c \in {nextln(cursor), draw_char(cursor), clear_char(cursor)} : moves(c)
  BY DEF keyboard_int_handler, on_shift, on_enter, on_space, on_backspace, on_character,
         handler_faults
<1>3. CASE UNCHANGED <<cursor, began>>
  <2>1. UNCHANGED <<x, y, began>>
    BY <1>3 DEF cursor
  <2>2. /\ place(began, printed)' = place(began, printed)
        /\ place(began, printed + 1)' = place(began, printed + 1)
        /\ place(began, began[3])' = place(began, began[3])
        /\ Begins(began)' <=> Begins(began)
        /\ cursor' = cursor /\ behind' = behind
    BY <1>1, <2>1, SamePlace DEF printed, cursor, behind
  <2> QED
    BY <1>1, <2>1, <2>2 DEF PrintInv
<1>4. ASSUME NEW c \in {nextln(cursor), draw_char(cursor), clear_char(cursor)}, moves(c)
      PROVE  PrintInv'
  <2>1. y \in Nat
    BY DEF PrintInv
  <2>2. /\ Max({y - 1, 0}) \in Nat
        /\ \A n \in Nat : Max({n - 1, 0}) \in Nat
    <3>1. \A n \in Nat : n - 1 \in Int /\ (n - 1 >= 0 => n - 1 \in Nat)
      OBVIOUS
    <3>2. \A n \in Nat : Max({n - 1, 0}) = IF n - 1 >= 0 THEN n - 1 ELSE 0
      BY <3>1, GreaterOfTwo
    <3> QED
      BY <2>1, <3>1, <3>2
  <2>3. c[2] \in Nat
    BY <2>1, <2>2 DEF nextln, draw_char, clear_char, before_erasing, line_up, cursor
  <2> QED
    BY <1>1, <1>4, <2>3 DEF PrintInv, moves
<1> QED
  BY <1>2, <1>3, <1>4

LEMMA PrintNext == CursorInv /\ PrintInv /\ [Next]_vars => PrintInv'
<1> SUFFICES ASSUME CursorInv, PrintInv, [Next]_vars PROVE PrintInv'
  OBVIOUS
<1>1. CASE MainStep
  BY <1>1, PrintMain
<1>2. CASE keyboard_int_handler
  BY <1>2, PrintHandler
<1>3. CASE key_pressed \/ UNCHANGED vars
  <2>1. UNCHANGED <<width, pc, left, reg, x, y, began>>
    BY <1>3 DEF key_pressed, vars, cursor
  <2>2. /\ place(began, printed)' = place(began, printed)
        /\ place(began, printed + 1)' = place(began, printed + 1)
        /\ place(began, began[3])' = place(began, began[3])
        /\ Begins(began)' <=> Begins(began)
        /\ cursor' = cursor /\ behind' = behind
    BY <2>1, SamePlace DEF printed, cursor, behind
  <2> QED
    BY <2>1, <2>2 DEF PrintInv
<1> QED
  BY <1>1, <1>2, <1>3 DEF Next

\* A print that no key disturbs ends where its length says, at every width and from
\* every place a print can begin at (basic_renderer.cpp:37-54).
THEOREM PrintsFillLines == Spec => []PrintFillsLines
<1>1. PrintInv => PrintFillsLines
  <2> SUFFICES ASSUME PrintInv, pc = "ready", began # << >>
               PROVE  cursor = place(began, began[3])
    BY DEF PrintFillsLines, place, fit, columns
  <2> QED
    BY DEF PrintInv
<1> QED
  BY <1>1, CursorInit, CursorNext, PrintInit, PrintNext, PTL DEF Spec
===============================================================================
