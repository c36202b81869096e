------------------------------ MODULE FramePool ------------------------------
(***************************************************************************)
(* What the page-frame allocator promises its callers, with no bitmap and  *)
(* no counters: a frame that is handed out lies in the pool, is held by    *)
(* nobody else, and stays held until it is given back.                     *)
(***************************************************************************)
CONSTANT Frames     \* every frame number of the machine

VARIABLES
  pool,             \* frames that may be handed out
  held              \* frames handed out and not given back

vars == <<pool, held>>

Init ==
  /\ pool \in SUBSET Frames
  /\ held = {}

\* A caller asks for a frame and gets one; being refused changes nothing.
Grant ==
  /\ \E frame \in pool \ held : held' = held \union {frame}
  /\ UNCHANGED pool

\* A caller gives frames back.
Return ==
  /\ held' \in SUBSET held
  /\ UNCHANGED pool

\* Frames are taken out of circulation for good; a held one is not revoked.
Withdraw ==
  /\ pool' \in SUBSET pool
  /\ held \subseteq pool'
  /\ UNCHANGED held

Next == Grant \/ Return \/ Withdraw

Spec == Init /\ [][Next]_vars
===============================================================================
