---------------------------- MODULE MCGuestPhases ----------------------------
(* Records of one sandbox and of the next one of that name: the map, the      *)
(* budget and the file are kept per name, so only the semaphore would join    *)
(* two names, and it does not ask for whom a place is taken.                  *)
EXTENDS GuestPhases
==============================================================================
