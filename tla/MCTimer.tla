-------------------------------- MODULE MCTimer --------------------------------
(* Two ticks in a second of three "milliseconds": a sleep of 1 is two thirds of
   a tick, one of 2 is one and a third, one of 3 is two. *)
EXTENDS Timer

MCSleeps == 0 .. 3
MCStartTimes == {0, 1, 4}
================================================================================
