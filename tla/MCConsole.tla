-------------------------------- MODULE MCConsole --------------------------------
(* Characters of two pixels, two to a line: exactly, and with one pixel to
   spare. *)
EXTENDS Console

MCWidths == {4, 5}
================================================================================
