---------------------------------- MODULE Pic ----------------------------------
(***************************************************************************)
(* The master interrupt controller (8259A) as init_kernel leaves it, and   *)
(* how the processor takes an interrupt (interrupts/interrupts.cpp,        *)
(* kernel_util.cpp).                                                       *)
(*                                                                         *)
(* All gates are interrupt gates: a handler runs with interrupts off and   *)
(* is one step.  A pending interrupt is taken before the next instruction, *)
(* so the interrupted program takes a step only when Quiescent.            *)
(***************************************************************************)
EXTENDS Integers, FiniteSetsExt

PIT_IRQ == 0         \* gate 0x20
KEYBOARD_IRQ == 1    \* gate 0x21

VARIABLES
  irr,    \* lines that have asked and have not been taken
  isr     \* lines taken and not acknowledged

picVars == <<irr, isr>>

\* outb(PIC1_DATA, 0b11111000): lines 0, 1 and the slave's.
Unmasked == {0, 1, 2}

\* A mutation: the handler does not acknowledge.
pic_end_master_Missing(lines) == lines

\* PIC_EOI, not naming a line, ends the one with the highest priority.
pic_end_master(lines) == lines \ {Min(lines)}

PicInit == irr = {} /\ isr = {}

\* A line asks: a second time before it is taken leaves no trace.
Raise(line) == irr' = irr \union {line} /\ UNCHANGED isr

\* The line the controller passes on: the most urgent that asks and is not
\* masked, unless one at least as urgent is in service.
Asking == irr \cap Unmasked
Passed == {l \in Asking : /\ \A other \in Asking \ {l} : l < other
                          /\ \A other \in isr : l < other}

Quiescent == Passed = {}

\* The processor takes line and its handler runs to its acknowledgement.
\* asks: the device asks again while it is served.
Serve(line, asks) ==
  /\ line \in Passed
  /\ irr' = (irr \ {line}) \union (IF asks THEN {line} ELSE {})
  /\ isr' = pic_end_master(isr \union {line})

\* The processor takes line and its handler never returns.
Enter(line) ==
  /\ line \in Passed
  /\ irr' = irr \ {line}
  /\ isr' = isr \union {line}

PicTypeOK == irr \subseteq Unmasked /\ isr \subseteq Unmasked
================================================================================
