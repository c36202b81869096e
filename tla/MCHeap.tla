-------------------------------- MODULE MCHeap --------------------------------
(***************************************************************************)
(* A small heap: a grain of 2 bytes, headers of 4, pages of 16.  Two       *)
(* initial pages hold a segment of 28 bytes.                               *)
(***************************************************************************)
EXTENDS Heap

\* 0: refused.  3: rounded up.  6: leaves a rest that can be split, or not.
\* 14: within a header of a page, so that one extension may not be enough.
SmallSizes == {0, 3, 6, 14}
===============================================================================
