------------------------------- MODULE PathList -------------------------------
(***************************************************************************)
(* What a caller of gnu-efi's device path functions has in mind: a device  *)
(* path is a list of instances, an instance a list of nodes.  Extending    *)
(* the path lengthens its only instance; of several, the first is          *)
(* lengthened and the others are gone.                                     *)
(***************************************************************************)
EXTENDS Sequences, SequencesExt

CONSTANTS Pieces,       \* lists of instances that are appended
          NodeText(_)   \* what is shown of a node

VARIABLES instances, spoilt, shown,
          called         \* the call that was made last, and with what

Extended(piece) == <<instances[1] \o piece[1]>> \o Tail(piece)

\* Memory behind the new path may be written as well, when there were several.
Extend ==
  \E piece \in Pieces :
    /\ called' = <<"extend", piece>> /\ instances' = Extended(piece)
    /\ spoilt' = FALSE \/ (spoilt' = TRUE /\ Len(instances) > 1)

AddInstances ==
  \E piece \in Pieces :
    /\ called' = <<"add", piece>> /\ instances' = instances \o piece
    /\ spoilt' = FALSE

Copy == called' = <<"copy", << >>>> /\ UNCHANGED <<instances, spoilt>>

\* The copy of the first instance ends behind its first node.
KeepFirst ==
  \E k \in DOMAIN instances[1] :
    /\ k = 1 /\ called' = <<"first", << >>>>
    /\ instances' = <<<<instances[1][k]>>>> /\ spoilt' = FALSE

\* Nodes are separated; an instance after the first begins with a separator too.
Text == FlattenSeq([n \in DOMAIN instances |->
          (IF n > 1 THEN <<",">> ELSE << >>)
            \o FlattenSeq([k \in DOMAIN instances[n] |->
                 (IF n > 1 \/ k > 1 THEN <<"/">> ELSE << >>) \o <<NodeText(instances[n][k])>>])])

Show == called' = <<"show", << >>>> /\ shown' = Text /\ UNCHANGED <<instances, spoilt>>

Init == instances \in Pieces /\ spoilt = FALSE /\ shown = << >> /\ called = <<"none", << >>>>
Next == ((Extend \/ AddInstances \/ Copy \/ KeepFirst) /\ UNCHANGED shown) \/ Show
Spec == Init /\ [][~spoilt /\ Next]_<<instances, spoilt, shown, called>>
===============================================================================
