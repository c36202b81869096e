----------------------------- MODULE AddressSpace -----------------------------
(***************************************************************************)
(* What the page tables promise: a partial map from virtual pages to       *)
(* frames.  A caller asks for one page to be mapped, and when it is served *)
(* that page and no other has changed.  The promise lapses when the        *)
(* machine has no frame left for a table.                                  *)
(***************************************************************************)
EXTENDS Naturals

CONSTANTS VirtualPages

VARIABLES
  mapping,      \* what each mapped virtual page translates to
  call,         \* the mapping asked for and not served yet, if any
  exhausted     \* a frame for a table was asked for in vain

vars == <<mapping, call, exhausted>>

Init ==
  /\ mapping = << >>
  /\ call = {}
  /\ exhausted = FALSE

Ask ==
  /\ call = {}
  /\ \E c \in call' : call' = {c} /\ c.virt \in VirtualPages /\ c.phys \in Nat
  /\ UNCHANGED <<mapping, exhausted>>

Serve ==
  /\ ~exhausted
  /\ \E c \in call :
       mapping' = [v \in DOMAIN mapping \union {c.virt} |->
                     IF v = c.virt THEN c.phys ELSE mapping[v]]
  /\ call' = {}
  /\ UNCHANGED exhausted

Lapse == exhausted' = TRUE

Next == Ask \/ Serve \/ Lapse

Spec == Init /\ [][Next]_vars
===============================================================================
