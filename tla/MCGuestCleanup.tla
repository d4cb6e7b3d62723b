--------------------------- MODULE MCGuestCleanup ----------------------------
(* Sandboxes of one or two names, and as many faults as the sweep's threshold *)
(* can tell apart.                                                            *)
EXTENDS GuestCleanup, TLC

Symmetric == Permutations(Names)
==============================================================================
