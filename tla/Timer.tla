--------------------------------- MODULE Timer ---------------------------------
(***************************************************************************)
(* The clock: PIT::sleep and sleepd in the main program, PIT::tick in the  *)
(* timer's handler (scheduling/pit/pit.cpp), interleaved at the loads and  *)
(* operations the two expressions are evaluated by.                        *)
(*                                                                         *)
(* The two work on double, in the processor's floating-point registers.    *)
(* interrupts.cpp is built with -mgeneral-regs-only, so that its handlers  *)
(* save no such register, and pit.cpp is not (kernel/Makefile:29-37): tick *)
(* leaves its own operands behind in xmm0 and xmm1.                        *)
(*                                                                         *)
(* A number r of seconds is r * One, where One == Freq * MsPerSecond: all  *)
(* values that occur are whole.                                            *)
(***************************************************************************)
EXTENDS Pic

CONSTANTS
  Freq,          \* get_freq(): ticks the clock counts as a second
  MsPerSecond,   \* 1000
  Sleeps,        \* the ms that callers ask for
  StartTimes,    \* ticks since boot when the program goes to sleep
  MinQuiet,      \* bound: a period is at least this many steps of the loop
  MaxTicks       \* bound on the clock

ASSUME TimerAssumption ==
  /\ {Freq, MsPerSecond, MinQuiet} \subseteq Nat \ {0}
  /\ Sleeps \subseteq Nat /\ StartTimes \subseteq Nat

VARIABLES
  pc,               \* what the main program does next
  xmm0, xmm1,
  ms, seconds,      \* the parameters of sleep and sleepd
  start_time,
  time_since_boot,
  quiet,            \* steps of the main program since the last tick, at most MinQuiet
  \* History:
  called_at,        \* time_since_boot when sleep was called
  clobbered         \* a tick came while a register held an operand

locals == <<ms, seconds, start_time>>
history == <<called_at, clobbered>>
vars == <<picVars, pc, xmm0, xmm1, locals, time_since_boot, quiet, history>>

One == Freq * MsPerSecond
Period == MsPerSecond       \* 1 / (double)get_freq()

Init ==
  /\ PicInit
  /\ pc = "idle"
  /\ xmm0 = 0 /\ xmm1 = 0
  /\ ms = 0 /\ seconds = 0 /\ start_time = 0
  /\ time_since_boot \in {t * Period : t \in StartTimes}
  /\ quiet = MinQuiet
  /\ called_at = 0 /\ clobbered = FALSE

-------------------------------------------------------------------------------
(***************************************************************************)
(* The main program: PIT::sleep(ms), which calls sleepd((double)ms / 1000).*)
(***************************************************************************)
step(from, to) ==
  /\ Quiescent
  /\ pc = from /\ pc' = to
  /\ quiet' = IF quiet < MinQuiet THEN quiet + 1 ELSE quiet
  /\ UNCHANGED <<picVars, time_since_boot, clobbered>>

sleep ==
  /\ step("idle", "convert")
  /\ ms' \in Sleeps
  /\ called_at' = time_since_boot
  /\ UNCHANGED <<xmm0, xmm1, seconds, start_time>>

\* (double)ms, 1000.0, their quotient
convert ==
  /\ step("convert", "load_1000")
  /\ xmm0' = ms * One
  /\ UNCHANGED <<xmm1, locals, called_at>>

load_1000 ==
  /\ step("load_1000", "divide")
  /\ xmm1' = MsPerSecond * One
  /\ UNCHANGED <<xmm0, locals, called_at>>

divide ==
  /\ step("divide", "call_sleepd")
  /\ xmm0' = (xmm0 * One) \div xmm1
  /\ UNCHANGED <<xmm1, locals, called_at>>

\* sleepd's parameter comes in xmm0 and is kept on the stack.
call_sleepd ==
  /\ step("call_sleepd", "read_clock")
  /\ seconds' = xmm0
  /\ UNCHANGED <<xmm0, xmm1, ms, start_time, called_at>>

\* double start_time = time_since_boot;
read_clock ==
  /\ step("read_clock", "set_start")
  /\ xmm0' = time_since_boot
  /\ UNCHANGED <<xmm1, locals, called_at>>

set_start ==
  /\ step("set_start", "load_start")
  /\ start_time' = xmm0
  /\ UNCHANGED <<xmm0, xmm1, ms, seconds, called_at>>

\* A mutation: the time to wait for is computed anew from the present.
load_start_Rereads ==
  /\ step("load_start", "add_seconds")
  /\ xmm0' = time_since_boot
  /\ UNCHANGED <<xmm1, locals, called_at>>

\* while (time_since_boot < start_time + seconds)
load_start ==
  /\ step("load_start", "add_seconds")
  /\ xmm0' = start_time
  /\ UNCHANGED <<xmm1, locals, called_at>>

add_seconds ==
  /\ step("add_seconds", "load_time")
  /\ xmm0' = xmm0 + seconds
  /\ UNCHANGED <<xmm1, locals, called_at>>

load_time ==
  /\ step("load_time", "compare")
  /\ xmm1' = time_since_boot
  /\ UNCHANGED <<xmm0, locals, called_at>>

\* A mutation: <= instead of <.
still_early_AlsoEqual(now, deadline) == now <= deadline

still_early(now, deadline) == now < deadline

compare ==
  /\ step("compare", IF still_early(xmm1, xmm0) THEN "hlt" ELSE "done")
  /\ UNCHANGED <<xmm0, xmm1, locals, called_at>>

\* The processor stops at hlt until the next interrupt, even if one came since
\* the comparison.
hlt ==
  /\ step("hlt", "halted")
  /\ UNCHANGED <<xmm0, xmm1, locals, called_at>>

MainStep ==
  \/ sleep \/ convert \/ load_1000 \/ divide \/ call_sleepd
  \/ read_clock \/ set_start
  \/ load_start \/ add_seconds \/ load_time \/ compare \/ hlt

-------------------------------------------------------------------------------
(***************************************************************************)
(* Devices and handlers.                                                   *)
(***************************************************************************)

\* A mutation: an interrupt does not end hlt, which is executed again.
resumed_Never == pc

\* iretq continues after the hlt that was interrupted.
resumed == IF pc = "halted" THEN "load_start" ELSE pc

\* The timer's line rises once per period.
pit_rises ==
  /\ quiet = MinQuiet \/ pc = "halted"
  /\ time_since_boot < MaxTicks * Period
  /\ PIT_IRQ \notin irr
  /\ Raise(PIT_IRQ)
  /\ UNCHANGED <<pc, xmm0, xmm1, locals, time_since_boot, quiet, history>>

key_pressed ==
  /\ KEYBOARD_IRQ \notin irr
  /\ Raise(KEYBOARD_IRQ)
  /\ UNCHANGED <<pc, xmm0, xmm1, locals, time_since_boot, quiet, history>>

\* Points of the main program at which a register holds an operand.
OperandsLive ==
  {"load_1000", "divide", "call_sleepd", "set_start", "add_seconds", "load_time", "compare"}

\* time_since_boot += 1 / (double)get_freq(), computed in xmm0 and xmm1.
pit_int_handler ==
  /\ Serve(PIT_IRQ, FALSE)
  /\ time_since_boot' = time_since_boot + Period
  /\ xmm0' = time_since_boot' /\ xmm1' = Period
  /\ pc' = resumed
  /\ quiet' = 0
  /\ clobbered' = (clobbered \/ pc \in OperandsLive)
  /\ UNCHANGED <<locals, called_at>>

\* Here only: any other interrupt also ends hlt.  It computes with integers.
keyboard_int_handler ==
  /\ Serve(KEYBOARD_IRQ, FALSE)
  /\ pc' = resumed
  /\ UNCHANGED <<xmm0, xmm1, locals, time_since_boot, quiet, history>>

Next == MainStep \/ pit_rises \/ key_pressed \/ pit_int_handler \/ keyboard_int_handler

(***************************************************************************)
(* The timer keeps running, a pending interrupt is taken, and keys come    *)
(* slowly enough for the interrupted program to go on between them.        *)
(***************************************************************************)
Fairness ==
  /\ WF_vars(pit_rises)
  /\ WF_vars(pit_int_handler) /\ WF_vars(keyboard_int_handler)
  /\ SF_vars(MainStep)

Spec == Init /\ [][Next]_vars /\ Fairness
-------------------------------------------------------------------------------
(***************************************************************************)
(* Properties.                                                             *)
(***************************************************************************)
\* ms as a number of seconds.
Wanted == ms * Freq

TypeOK ==
  /\ PicTypeOK /\ isr = {}
  /\ pc \in {"idle", "convert", "load_1000", "divide", "call_sleepd", "read_clock",
             "set_start", "load_start", "add_seconds", "load_time", "compare", "hlt",
             "halted", "done"}
  /\ {xmm0, xmm1, ms, seconds, start_time, time_since_boot, called_at} \subseteq Nat
  /\ pc = "divide" => xmm1 > 0
  /\ quiet \in 0 .. MinQuiet
  /\ clobbered \in BOOLEAN

\* A sleep whose operands no tick fell upon takes the time it was asked for: it
\* is not short, and at most one whole tick long, the one that may come between
\* the comparison and hlt (pit.cpp:9-17).
SleepIsExact ==
  pc = "done" /\ ~clobbered =>
    /\ start_time - called_at \in {0, Period}
    /\ start_time + Wanted <= time_since_boot
    /\ time_since_boot < start_time + Wanted + 2 * Period

\* Whatever a tick leaves in the registers, sleepd goes on for more than
\* two ticks after the first that reaches the seconds it was called with
\* (pit.cpp:13-16).
SleepdIsNotLate ==
  pc \in {"load_start", "add_seconds", "load_time", "compare", "hlt", "halted", "done"} =>
    time_since_boot < start_time + seconds + 3 * Period

\* Every sleep ends: neither a tick between the comparison and hlt nor other
\* interrupts make it wait for ever (pit.cpp:13-16, interrupts.cpp:33-38).
SleepEnds == (pc = "convert") ~> (pc = "done")

\* "Nach dem Sprung zur anderen Funktion kann die CPU wieder bei der letzten
\* ausgefuehrten Anweisung fortfahren" (docs/eta-os-docs.tex:59): after an
\* interrupt the interrupted program goes on as if nothing had happened, so that
\* sleep(ms) never returns before ms have passed.
SleepIsNotShort == pc = "done" => time_since_boot >= called_at + Wanted
===============================================================================
