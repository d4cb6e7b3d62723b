---------------------------- MODULE MCGuestSlots -----------------------------
(* Two concurrent creates and one reader, as many slots as sandboxes allowed, *)
(* one name more than that.                                                   *)
EXTENDS GuestSlots, TLC

MCAllTroubles == {"fetch", "lag", "lost", "phase"}
MCNoTroubles  == {}

\* One kind of trouble per behaviour is enough to see each of them bite.
OneTrouble == Cardinality(upset) <= 1

Symmetric == Permutations(Names) \cup Permutations(Slots) \cup Permutations(Creators)
==============================================================================
