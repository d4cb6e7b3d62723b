----------------------------- MODULE AtomicRepo ------------------------------
(* What a caller of githubClient's writers may rely on.  A write lands whole  *)
(* on top of whatever main holds at that instant, so nothing another writer   *)
(* committed is lost; "ok" means it landed between call and answer; "error"   *)
(* promises nothing except that the answer itself changed nothing: a request  *)
(* sent and never answered may still land, once the caller has moved on.      *)
EXTENDS RepoTrees

CONSTANT Calls,  \* the write calls, each made once
         Ops     \* the writes they may ask for

VARIABLES main,    \* the tree on branch main
          status,  \* per call: "new", "open", "ok" or "error"
          op,      \* per call: the write asked for
          copies   \* the calls with a request still under way that could land

vars == <<main, status, op, copies>>

Init ==
    /\ main \in Trees
    /\ status = [c \in Calls |-> "new"]
    /\ op \in [Calls -> Ops]
    /\ copies = {}

Begin(c) ==
    /\ status[c] = "new"
    /\ status' = [status EXCEPT ![c] = "open"]
    /\ UNCHANGED <<main, op, copies>>

\* The write lands, and with the answer no request of the call is left over.
Commit(c) ==
    /\ status[c] = "open"
    /\ main' = Overlay(main, op[c].files)
    /\ status' = [status EXCEPT ![c] = "ok"]
    /\ copies' \in SUBSET (copies \ {c})
    /\ UNCHANGED op

Refuse(c) ==
    /\ status[c] = "open"
    /\ status' = [status EXCEPT ![c] = "error"]
    /\ copies' \in SUBSET (copies \cup {c})
    /\ UNCHANGED <<main, op>>

\* A request is left without an answer and the call tries again.
Scatter(c) ==
    /\ status[c] = "open"
    /\ copies' \in SUBSET (copies \cup {c})
    /\ UNCHANGED <<main, status, op>>

\* A request nobody waits for any more lands, whole, on the main of that moment.
Stray(c) ==
    /\ c \in copies
    /\ main' = Overlay(main, op[c].files)
    /\ copies' \in SUBSET copies
    /\ UNCHANGED <<status, op>>

Lose ==
    /\ copies' \in SUBSET copies
    /\ UNCHANGED <<main, status, op>>

\* CI and people commit to the same branch.
Outside ==
    /\ main' \in Trees
    /\ copies' \in SUBSET copies
    /\ UNCHANGED <<status, op>>

Next ==
    \/ \E c \in Calls : Begin(c) \/ Commit(c) \/ Refuse(c) \/ Scatter(c) \/ Stray(c)
    \/ Lose
    \/ Outside

Spec == Init /\ [][Next]_vars
==============================================================================
