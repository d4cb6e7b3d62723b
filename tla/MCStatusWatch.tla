---------------------------- MODULE MCStatusWatch ----------------------------
(* One XR and two pods, a watch goroutine for each kind, and a channel that   *)
(* two statuses fill.                                                         *)
EXTENDS StatusWatch

CONSTANTS xr, Xr

MCKindOf == [o \in Objs |-> IF o = xr THEN Xr ELSE Pod]
==============================================================================
