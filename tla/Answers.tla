------------------------------- MODULE Answers -------------------------------
(***************************************************************************)
(* One call of a function that keeps no state: what it was given, and what *)
(* it gave back.                                                           *)
(***************************************************************************)
EXTENDS Integers, Sequences

VARIABLE answer        \* [of: the function, in: its arguments, out: its result]

AnswerInit == answer = [of |-> "none", in |-> 0, out |-> 0]

Unanswered == answer.of = "none"

Answers(of, in, out) == answer' = [of |-> of, in |-> in, out |-> out]
===============================================================================
