----------------------------- MODULE TimerProofs -----------------------------
(***************************************************************************)
(* Proofs about Timer for every frequency, every sleep, every moment at    *)
(* which it is called, and any interrupts between its steps.               *)
(***************************************************************************)
EXTENDS Timer, TLAPS

\* A period of the clock is longer than two rounds of sleepd's loop, which is a few
\* instructions: a millisecond on the machine.
QuietSuffices == MinQuiet >= 9

-------------------------------------------------------------------------------
(***************************************************************************)
(* The inductive invariant.                                                *)
(***************************************************************************)
InSleepd == {"load_start", "add_seconds", "load_time", "compare", "hlt", "halted", "done"}

\* No tick comes before n more steps of the main program have been taken.
NoTickFor(n) == PIT_IRQ \notin irr /\ quiet + n < MinQuiet

\* The registers hold what the source's expressions stand for.
Operands ==
  /\ pc = "load_1000" => xmm0 = ms * One
  /\ pc = "divide" => xmm0 = ms * One /\ xmm1 = MsPerSecond * One
  /\ pc = "call_sleepd" => xmm0 = Wanted
  /\ pc = "add_seconds" => xmm0 = start_time
  /\ pc = "load_time" => xmm0 = start_time + seconds
  /\ pc = "compare" => xmm0 = start_time + seconds /\ xmm1 = time_since_boot

\* A tick that falls upon the clock's value puts the new one in its place.
ClockInv == pc = "set_start" => xmm0 = time_since_boot

OperandsInv ==
  ~clobbered =>
    /\ Operands
    /\ pc \in {"read_clock", "set_start"} \union InSleepd => seconds = Wanted

\* Until the clock is read one tick may come, and then the next is far.
Called(n) ==
  time_since_boot = called_at \/ (time_since_boot = called_at + Period /\ NoTickFor(n))

CalledInv ==
  ~clobbered =>
    /\ pc = "convert"     => Called(6)
    /\ pc = "load_1000"   => Called(5)
    /\ pc = "divide"      => Called(4)
    /\ pc = "call_sleepd" => Called(3)
    /\ pc = "read_clock"  => Called(2)
    /\ pc = "set_start"   => Called(1)
    /\ pc \in InSleepd => start_time - called_at \in {0, Period}

Deadline == start_time + seconds
Slack == IF clobbered THEN Period ELSE 0

\* The round is made with the registers as they should be, and is the last one: a
\* tick that comes before it ends is the first since the deadline.
LastRound(n) ==
  /\ Operands
  /\ time_since_boot < Deadline + 2 * Period + Slack
  /\ ~NoTickFor(n) => time_since_boot < Deadline + Period

\* The loop goes round once more, with a tick or without, and then comes to its last.
OnceMore(n) ==
  /\ time_since_boot < Deadline + Period + Slack
  /\ NoTickFor(n)

LateInv ==
  time_since_boot >= Deadline =>
    /\ pc = "load_start"  => LastRound(4)
    /\ pc = "add_seconds" => LastRound(3) \/ (clobbered /\ OnceMore(8))
    /\ pc = "load_time"   => LastRound(2) \/ (clobbered /\ OnceMore(7))
    /\ pc = "compare"     => LastRound(1) \/ (clobbered /\ OnceMore(6))
    /\ pc = "hlt"         => OnceMore(5)
    /\ pc = "halted" =>
         /\ time_since_boot < Deadline + Period + Slack
         /\ quiet + 4 < MinQuiet
    /\ pc = "done" =>
         /\ time_since_boot < Deadline + 2 * Period + Slack
         /\ ~NoTickFor(0) =>
              time_since_boot < Deadline + Period + Slack

DoneInv == pc = "done" /\ ~clobbered => time_since_boot >= Deadline

TimerInv ==
  TypeOK /\ ClockInv /\ OperandsInv /\ CalledInv /\ LateInv /\ DoneInv

-------------------------------------------------------------------------------
(***************************************************************************)
(* Lemmas: seconds, and the controller.                                    *)
(***************************************************************************)
LEMMA Constants ==
  /\ Freq \in Nat \ {0} /\ MsPerSecond \in Nat \ {0} /\ MinQuiet \in Nat \ {0}
  /\ Period \in Nat \ {0} /\ One \in Nat \ {0} /\ MsPerSecond * One \in Nat \ {0}
<1>1. Freq \in Nat \ {0} /\ MsPerSecond \in Nat \ {0} /\ MinQuiet \in Nat \ {0}
  BY TimerAssumption
<1>2. \A a, b \in Nat \ {0} : a * b \in Nat \ {0}
  OBVIOUS
<1> QED
  BY <1>1, <1>2 DEF Period, One

LEMMA QuotientUnique ==
  ASSUME NEW b \in Nat \ {0}, NEW q \in Nat
  PROVE  (q * b) \div b = q
OBVIOUS

\* ms / 1000.0 is ms as a number of seconds.
LEMMA Seconds ==
  ASSUME NEW m \in Nat
  PROVE  ((m * One) * One) \div (MsPerSecond * One) = m * Freq
<1> DEFINE b == MsPerSecond * One
<1>1. b \in Nat \ {0} /\ m * Freq \in Nat
  BY Constants
<1>2. (m * One) * One = (m * Freq) * b
  <2>1. \A f, k, o \in Nat : o = f * k => (m * o) * o = (m * f) * (k * o)
    OBVIOUS
  <2> QED
    BY <2>1, Constants DEF One
<1> HIDE DEF b
<1>3. ((m * Freq) * b) \div b = m * Freq
  BY <1>1, QuotientUnique
<1> QED
  BY <1>2, <1>3 DEF b

LEMMA QuotientIsNat ==
  ASSUME NEW a \in Nat, NEW b \in Nat \ {0}
  PROVE  a \div b \in Nat
OBVIOUS

\* An interrupt that is taken is acknowledged; keys wait for the timer.
LEMMA Served ==
  ASSUME TypeOK, NEW line \in {PIT_IRQ, KEYBOARD_IRQ}, Serve(line, FALSE)
  PROVE  /\ isr' = {} /\ irr' = irr \ {line} /\ irr' \subseteq Unmasked
         /\ line = KEYBOARD_IRQ => PIT_IRQ \notin irr
<1>1. isr = {} /\ irr \subseteq Unmasked
  BY DEF TypeOK, PicTypeOK
<1>2. pic_end_master({line}) = {}
  <2>1. Min({line}) = line
    BY DEF Min, PIT_IRQ, KEYBOARD_IRQ
  <2> QED
    BY <2>1 DEF pic_end_master
<1>3. line = KEYBOARD_IRQ => PIT_IRQ \notin irr
  BY <1>1 DEF Serve, Passed, Asking, PIT_IRQ, KEYBOARD_IRQ, Unmasked
<1> QED
  BY <1>1, <1>2, <1>3 DEF Serve

\* The program runs only when no tick waits, and every step is one step nearer to
\* the next.
LEMMA Steps ==
  ASSUME TypeOK, NEW from, NEW to, step(from, to)
  PROVE  /\ PIT_IRQ \notin irr
         /\ irr' = irr /\ isr' = isr /\ time_since_boot' = time_since_boot
         /\ clobbered' = clobbered /\ pc = from /\ pc' = to /\ quiet' \in 0 .. MinQuiet
         /\ \A n \in Nat : NoTickFor(n)' <=> NoTickFor(n + 1)
         /\ Slack' = Slack
<1>1. PIT_IRQ \notin irr
  BY DEF step, Quiescent, Passed, Asking, Unmasked, PIT_IRQ, TypeOK, PicTypeOK
<1>2. /\ irr' = irr /\ isr' = isr /\ time_since_boot' = time_since_boot
      /\ clobbered' = clobbered /\ pc = from /\ pc' = to
  BY DEF step, picVars
<1>3. quiet \in Nat /\ quiet <= MinQuiet /\ MinQuiet \in Nat
  BY Constants DEF TypeOK
<1>4. quiet' = IF quiet < MinQuiet THEN quiet + 1 ELSE quiet
  BY DEF step
<1>5. \A n \in Nat : quiet' + n < MinQuiet <=> quiet + (n + 1) < MinQuiet
  BY <1>3, <1>4
<1> QED
  BY <1>1, <1>2, <1>3, <1>4, <1>5 DEF NoTickFor, Slack, Period

-------------------------------------------------------------------------------
(***************************************************************************)
(* The invariant holds at first and every step keeps it.                   *)
(***************************************************************************)
LEMMA TimerStart == Init => TimerInv
<1> SUFFICES ASSUME Init PROVE TimerInv
  OBVIOUS
<1>1. time_since_boot \in Nat
  <2>1. \A t \in StartTimes : t \in Nat /\ Period \in Nat /\ t * Period \in Nat
    BY TimerAssumption, Constants
  <2> QED
    BY <2>1 DEF Init
<1>2. TypeOK
  <2>1. quiet \in 0 .. MinQuiet
    BY Constants DEF Init
  <2>2. {xmm0, xmm1, ms, seconds, start_time, time_since_boot, called_at} \subseteq Nat
    BY <1>1 DEF Init
  <2> QED
    BY <2>1, <2>2 DEF Init, TypeOK, PicInit, PicTypeOK
<1> QED
  BY <1>2 DEF TimerInv, Init, ClockInv, OperandsInv, Operands, CalledInv, LateInv, DoneInv,
              InSleepd

LEMMA TypeMain ==
  ASSUME TypeOK, MainStep
  PROVE  TypeOK'
<1> USE DEF TypeOK, PicTypeOK
<1>1. /\ One \in Nat \ {0} /\ Period \in Nat \ {0} /\ MsPerSecond * One \in Nat \ {0}
      /\ \A m \in Nat : m * One \in Nat
      /\ \A m \in Sleeps : m \in Nat
  <2>1. \A m, n \in Nat : m * n \in Nat
    OBVIOUS
  <2> QED
    BY <2>1, Constants, TimerAssumption
<1>2. CASE sleep
  BY <1>2, <1>1, Steps DEF sleep
<1>3. CASE convert
  BY <1>3, <1>1, Steps DEF convert, locals
<1>4. CASE load_1000
  BY <1>4, <1>1, Steps DEF load_1000, locals
<1>5. CASE divide
  <2>1. xmm0 * One \in Nat /\ xmm1 \in Nat \ {0}
    BY <1>1, <1>5 DEF divide, step
  <2>2. (xmm0 * One) \div xmm1 \in Nat
    BY <2>1, QuotientIsNat
  <2> QED
    BY <1>5, <2>2, Steps DEF divide, locals
<1>6. CASE call_sleepd
  BY <1>6, <1>1, Steps DEF call_sleepd
<1>7. CASE read_clock
  BY <1>7, <1>1, Steps DEF read_clock, locals
<1>8. CASE set_start
  BY <1>8, <1>1, Steps DEF set_start
<1>9. CASE load_start
  BY <1>9, <1>1, Steps DEF load_start, locals
<1>10. CASE add_seconds
  BY <1>10, <1>1, Steps DEF add_seconds, locals
<1>11. CASE load_time
  BY <1>11, <1>1, Steps DEF load_time, locals
<1>12. CASE compare
  BY <1>12, <1>1, Steps DEF compare, locals
<1>13. CASE hlt
  BY <1>13, <1>1, Steps DEF hlt, locals
<1> QED
  BY <1>2, <1>3, <1>4, <1>5, <1>6, <1>7, <1>8, <1>9, <1>10, <1>11, <1>12, <1>13 DEF MainStep

LEMMA TimerMain ==
  ASSUME TimerInv, MainStep
  PROVE  TimerInv'
<1> DEFINE T == time_since_boot
<1>1. TypeOK /\ TypeOK'
  BY TypeMain DEF TimerInv
<1>2. /\ Period \in Nat \ {0} /\ One \in Nat \ {0} /\ MinQuiet \in Nat \ {0}
      /\ {xmm0, xmm1, ms, seconds, start_time, T, called_at, quiet} \subseteq Nat
      /\ {xmm0', xmm1', ms', seconds', start_time', T', called_at', quiet'} \subseteq Nat
      /\ Slack = IF clobbered THEN Period ELSE 0
  BY <1>1, Constants DEF TypeOK, Slack
<1>3. /\ ClockInv /\ OperandsInv /\ CalledInv /\ LateInv /\ DoneInv
  BY DEF TimerInv
<1>4. /\ PIT_IRQ \notin irr /\ PIT_IRQ \notin irr' /\ T' = T /\ clobbered' = clobbered /\ Slack' = Slack
      /\ \A n \in Nat : NoTickFor(n)' <=> NoTickFor(n + 1)
      /\ pc' # "idle"
  BY <1>1, Steps DEF MainStep, sleep, convert, load_1000, divide, call_sleepd, read_clock, set_start, load_start, add_seconds, load_time, compare, hlt
<1>6. CASE sleep
  BY <1>6, <1>1, <1>2, <1>3, <1>4
     DEF sleep, TimerInv, step, locals, ClockInv, OperandsInv, Operands, CalledInv, LateInv, DoneInv, Called, OnceMore, LastRound, Deadline, InSleepd, Wanted, still_early
<1>7. CASE convert
  BY <1>7, <1>1, <1>2, <1>3, <1>4
     DEF convert, TimerInv, step, locals, ClockInv, OperandsInv, Operands, CalledInv, LateInv, DoneInv, Called, OnceMore, LastRound, Deadline, InSleepd, Wanted, still_early
<1>8. CASE load_1000
  BY <1>8, <1>1, <1>2, <1>3, <1>4
     DEF load_1000, TimerInv, step, locals, ClockInv, OperandsInv, Operands, CalledInv, LateInv, DoneInv, Called, OnceMore, LastRound, Deadline, InSleepd, Wanted, still_early
<1>9. CASE divide
  <2>1. ~clobbered => xmm0' = Wanted
    BY <1>9, <1>1, <1>3, Seconds DEF divide, step, OperandsInv, Operands, Wanted, TypeOK
  <2>2. Wanted' = Wanted
    BY <1>9 DEF divide, locals, Wanted
  <2> QED
    BY <1>9, <2>1, <2>2, <1>1, <1>2, <1>3, <1>4
       DEF divide, TimerInv, step, locals, ClockInv, OperandsInv, Operands, CalledInv, LateInv, DoneInv, Called, InSleepd
<1>10. CASE call_sleepd
  BY <1>10, <1>1, <1>2, <1>3, <1>4
     DEF call_sleepd, TimerInv, step, locals, ClockInv, OperandsInv, Operands, CalledInv, LateInv, DoneInv, Called, OnceMore, LastRound, Deadline, InSleepd, Wanted, still_early
<1>11. CASE read_clock
  BY <1>11, <1>1, <1>2, <1>3, <1>4
     DEF read_clock, TimerInv, step, locals, ClockInv, OperandsInv, Operands, CalledInv, LateInv, DoneInv, Called, OnceMore, LastRound, Deadline, InSleepd, Wanted, still_early
<1>12. CASE set_start
  BY <1>12, <1>1, <1>2, <1>3, <1>4
     DEF set_start, TimerInv, step, locals, ClockInv, OperandsInv, Operands, CalledInv, LateInv, DoneInv, Called, OnceMore, LastRound, Deadline, InSleepd, Wanted, still_early
<1>13. CASE load_start
  BY <1>13, <1>1, <1>2, <1>3, <1>4
     DEF load_start, TimerInv, step, locals, ClockInv, OperandsInv, Operands, CalledInv, LateInv, DoneInv, Called, OnceMore, LastRound, Deadline, InSleepd, Wanted, still_early
<1>14. CASE add_seconds
  BY <1>14, <1>1, <1>2, <1>3, <1>4
     DEF add_seconds, TimerInv, step, locals, ClockInv, OperandsInv, Operands, CalledInv, LateInv, DoneInv, Called, OnceMore, LastRound, Deadline, InSleepd, Wanted, still_early
<1>15. CASE load_time
  BY <1>15, <1>1, <1>2, <1>3, <1>4
     DEF load_time, TimerInv, step, locals, ClockInv, OperandsInv, Operands, CalledInv, LateInv, DoneInv, Called, OnceMore, LastRound, Deadline, InSleepd, Wanted, still_early
<1>16. CASE compare
  BY <1>16, <1>1, <1>2, <1>3, <1>4
     DEF compare, TimerInv, step, locals, ClockInv, OperandsInv, Operands, CalledInv, LateInv, DoneInv, Called, OnceMore, LastRound, Deadline, InSleepd, Wanted, still_early
<1>17. CASE hlt
  BY <1>17, <1>1, <1>2, <1>3, <1>4
     DEF hlt, TimerInv, NoTickFor, step, locals, ClockInv, OperandsInv, Operands, CalledInv, LateInv, DoneInv, Called, OnceMore, LastRound, Deadline, InSleepd, Wanted, still_early
<1> QED
  BY <1>1, <1>6, <1>7, <1>8, <1>9, <1>10, <1>11, <1>12, <1>13, <1>14, <1>15, <1>16, <1>17 DEF MainStep, TimerInv

\* Lines that rise.
LEMMA TimerRaises ==
  ASSUME TimerInv, pit_rises \/ key_pressed
  PROVE  TimerInv'
<1> USE DEF TimerInv
<1>1. /\ Period \in Nat \ {0} /\ MinQuiet \in Nat \ {0} /\ time_since_boot \in Nat
      /\ start_time \in Nat /\ seconds \in Nat /\ called_at \in Nat /\ quiet \in Nat
      /\ Slack = (IF clobbered THEN Period ELSE 0) /\ Slack' = Slack
  BY Constants DEF TypeOK, Slack, pit_rises, key_pressed, history, Period
<1>2. /\ UNCHANGED <<isr, pc, xmm0, xmm1, ms, seconds, start_time, time_since_boot, quiet,
                     called_at, clobbered>>
      /\ irr' \subseteq Unmasked
  BY DEF pit_rises, key_pressed, Raise, locals, history, TypeOK, PicTypeOK, Unmasked,
         PIT_IRQ, KEYBOARD_IRQ
<1>3. TypeOK'
  BY <1>2 DEF TypeOK, PicTypeOK
<1>4. CASE pit_rises
  <2>1. quiet = MinQuiet \/ pc = "halted"
    BY <1>4 DEF pit_rises
  <2> QED
    BY <1>1, <1>2, <1>3, <2>1
       DEF ClockInv, OperandsInv, Operands, CalledInv, LateInv, DoneInv, Called, OnceMore, LastRound, Deadline, InSleepd, Wanted, NoTickFor
<1>5. CASE key_pressed
  <2>1. PIT_IRQ \in irr' <=> PIT_IRQ \in irr
    BY <1>5 DEF key_pressed, Raise, PIT_IRQ, KEYBOARD_IRQ
  <2> QED
    BY <1>1, <1>2, <1>3, <2>1
       DEF ClockInv, OperandsInv, Operands, CalledInv, LateInv, DoneInv, Called, OnceMore, LastRound, Deadline, InSleepd, Wanted, NoTickFor
<1> QED
  BY <1>4, <1>5

\* A tick: the clock goes on by a period, and the next is as far away as it can be.
LEMMA TimerTick ==
  ASSUME QuietSuffices, TimerInv, pit_int_handler
  PROVE  TimerInv'
<1> DEFINE T == time_since_boot
<1>1. /\ Period \in Nat \ {0} /\ MinQuiet \in Nat \ {0} /\ MinQuiet >= 9
      /\ {xmm0, xmm1, ms, seconds, start_time, T, called_at, quiet} \subseteq Nat
      /\ Slack = IF clobbered THEN Period ELSE 0
      /\ Slack' = IF clobbered' THEN Period ELSE 0
      /\ clobbered \in BOOLEAN
  BY Constants DEF TimerInv, TypeOK, Slack, QuietSuffices, Period
<1>2. /\ T' = T + Period /\ xmm0' = T + Period /\ xmm1' = Period
      /\ pc' = resumed /\ quiet' = 0 /\ clobbered' = (clobbered \/ pc \in OperandsLive)
      /\ UNCHANGED <<ms, seconds, start_time, called_at>>
  BY DEF pit_int_handler, locals
<1>3. /\ PIT_IRQ \in irr /\ PIT_IRQ \notin irr' /\ irr' \subseteq Unmasked /\ isr' = {}
  BY Served DEF pit_int_handler, Serve, Passed, Asking, TimerInv
<1>4. TypeOK'
  BY <1>1, <1>2, <1>3 DEF TimerInv, TypeOK, PicTypeOK, resumed
<1>5. ClockInv' /\ OperandsInv'
  BY <1>2 DEF TimerInv, ClockInv, OperandsInv, Operands, resumed, OperandsLive, InSleepd, Wanted
<1>6. CalledInv'
  BY <1>1, <1>2, <1>3
     DEF TimerInv, CalledInv, Called, NoTickFor, resumed, OperandsLive, InSleepd
<1>7. DoneInv'
  BY <1>1, <1>2 DEF TimerInv, DoneInv, Deadline, resumed
<1>8. LateInv'
  <2> DEFINE D == Deadline
  <2>1. D \in Nat /\ D' = D /\ T \in Nat /\ T' \in Nat /\ Slack \in Nat /\ Slack' \in Nat
    BY <1>1, <1>2 DEF Deadline
  <2>2. /\ clobbered \/ pc \in OperandsLive => clobbered'
        /\ pc' = IF pc = "halted" THEN "load_start" ELSE pc
    BY <1>1, <1>2 DEF resumed
  <2>3. /\ \A n \in 0 .. 8 : NoTickFor(n)'
        /\ quiet' + 4 < MinQuiet
    BY <1>1, <1>2, <1>3 DEF NoTickFor
  <2>4. CASE T < D
    <3>1. T' < D' + Period
      BY <1>1, <1>2, <2>1, <2>4
    <3>2. pc' \in {"add_seconds", "load_time", "compare"} => clobbered'
      BY <2>2 DEF OperandsLive
    <3> HIDE DEF D, T
    <3> QED
      BY <1>1, <2>1, <2>2, <2>3, <3>1, <3>2 DEF LateInv, LastRound, OnceMore, D, T, Operands
  <2>5. CASE T >= D
    <3>1. ~\E n \in 0 .. 8 : NoTickFor(n)
      BY <1>3 DEF NoTickFor
    <3>2. /\ pc \in {"load_start", "add_seconds", "load_time", "compare"} => T < D + Period
          /\ pc \in {"halted", "done"} => T < D + Period + Slack
          /\ pc # "hlt"
      BY <2>5, <3>1 DEF TimerInv, LateInv, LastRound, OnceMore
    <3>3. /\ pc \in {"load_start", "add_seconds", "load_time", "compare"} => T' < D' + 2 * Period
          /\ pc \in {"halted", "done"} => T' < D' + 2 * Period + Slack'
          /\ pc' \in {"add_seconds", "load_time", "compare"} => clobbered' /\ Slack' = Period
      <4>1. pc' \in {"add_seconds", "load_time", "compare"} => clobbered'
        BY <2>2 DEF OperandsLive
      <4>2. T' = T + Period /\ Slack' >= Slack
        BY <1>1, <1>2, <2>2
      <4> HIDE DEF D, T
      <4> QED
        BY <1>1, <2>1, <3>2, <4>1, <4>2
    <3> HIDE DEF D, T
    <3> QED
      BY <1>1, <2>1, <2>2, <2>3, <3>2, <3>3
         DEF LateInv, LastRound, OnceMore, D, T, Operands
  <2> QED
    BY <2>1, <2>4, <2>5
<1> QED
  BY <1>4, <1>5, <1>6, <1>7, <1>8 DEF TimerInv

\* A key: the program goes round once more if it was waiting.
LEMMA TimerKey ==
  ASSUME TimerInv, keyboard_int_handler
  PROVE  TimerInv'
<1> DEFINE T == time_since_boot
<1>1. /\ Period \in Nat \ {0} /\ MinQuiet \in Nat \ {0}
      /\ {xmm0, xmm1, ms, seconds, start_time, T, called_at, quiet} \subseteq Nat
      /\ Slack = (IF clobbered THEN Period ELSE 0) /\ Slack' = Slack
  BY Constants DEF TimerInv, TypeOK, Slack, Period, keyboard_int_handler, history
<1>2. /\ pc' = resumed
      /\ UNCHANGED <<xmm0, xmm1, ms, seconds, start_time, T, quiet, called_at, clobbered>>
  BY DEF keyboard_int_handler, locals, history
<1>3. /\ PIT_IRQ \notin irr /\ PIT_IRQ \notin irr' /\ irr' \subseteq Unmasked /\ isr' = {}
  BY Served DEF keyboard_int_handler, TimerInv
<1>4. TypeOK'
  BY <1>2, <1>3 DEF TimerInv, TypeOK, PicTypeOK, resumed
<1> QED
  BY <1>1, <1>2, <1>3, <1>4 DEF TimerInv, resumed, ClockInv, OperandsInv, Operands, CalledInv, LateInv, DoneInv, Called, OnceMore, LastRound, Deadline, InSleepd, Wanted, NoTickFor

LEMMA TimerInvariant == ASSUME QuietSuffices PROVE Spec => []TimerInv
<1>1. TimerInv /\ [Next]_vars => TimerInv'
  <2> SUFFICES ASSUME TimerInv, [Next]_vars PROVE TimerInv'
    OBVIOUS
  <2>1. CASE Next
    BY <2>1, TimerMain, TimerRaises, TimerTick, TimerKey DEF Next
  <2>2. CASE UNCHANGED vars
    BY <2>2 DEF vars, picVars, locals, history, Slack, TypeOK, PicTypeOK, TimerInv, ClockInv, OperandsInv, Operands, CalledInv, LateInv, DoneInv, Called, OnceMore, LastRound, Deadline, InSleepd, Wanted, NoTickFor
  <2> QED
    BY <2>1, <2>2
<1> QED
  BY <1>1, TimerStart, PTL DEF Spec

-------------------------------------------------------------------------------
\* A sleep whose operands no tick falls upon takes the time it was asked for, and
\* at most one whole tick more, at every frequency (pit.cpp:9-17).
THEOREM SleepTakesItsTime == ASSUME QuietSuffices PROVE Spec => []SleepIsExact
<1>1. TimerInv => SleepIsExact
  <2> SUFFICES ASSUME TimerInv, pc = "done", ~clobbered
               PROVE  /\ start_time - called_at \in {0, Period}
                      /\ start_time + Wanted <= time_since_boot
                      /\ time_since_boot < start_time + Wanted + 2 * Period
    BY DEF SleepIsExact
  <2>1. start_time - called_at \in {0, Period} /\ seconds = Wanted
    BY DEF TimerInv, CalledInv, OperandsInv, InSleepd
  <2>2. time_since_boot >= Deadline /\ time_since_boot < Deadline + 2 * Period + Slack
    BY DEF TimerInv, DoneInv, LateInv
  <2>3. {start_time, seconds, time_since_boot, Period} \subseteq Nat /\ Slack = 0
    BY Constants DEF TimerInv, TypeOK, Slack
  <2> HIDE DEF Wanted
  <2> QED
    BY <2>1, <2>2, <2>3 DEF Deadline
<1> QED
  BY <1>1, TimerInvariant, PTL

\* Whatever the ticks leave in the registers, sleepd goes on for at most three
\* periods after the seconds it was called with (pit.cpp:13-16).
THEOREM SleepdEndsInTime == ASSUME QuietSuffices PROVE Spec => []SleepdIsNotLate
<1>1. TimerInv => SleepdIsNotLate
  <2> SUFFICES ASSUME TimerInv, pc \in InSleepd
               PROVE  time_since_boot < Deadline + 3 * Period
    BY DEF SleepdIsNotLate, InSleepd, Deadline
  <2>1. {Deadline, time_since_boot, Slack} \subseteq Nat /\ Period \in Nat \ {0} /\ Slack <= Period
    BY Constants DEF TimerInv, TypeOK, Slack, Deadline
  <2>2. time_since_boot >= Deadline => time_since_boot < Deadline + 2 * Period + Slack
    BY <2>1 DEF TimerInv, LateInv, LastRound, OnceMore, InSleepd
  <2> QED
    BY <2>1, <2>2
<1> QED
  BY <1>1, TimerInvariant, PTL
===============================================================================
