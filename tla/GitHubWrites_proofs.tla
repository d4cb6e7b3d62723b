------------------------- MODULE GitHubWrites_proofs --------------------------
(* Proofs about GitHubWrites for every set of calls, files and writes, and    *)
(* every bound.                                                               *)
EXTENDS GitHubWrites, TLAPS

\* A commit leaves a tree.
LEMMA OverlayTree ==
    ASSUME NEW t \in Trees, NEW w \in Ops
    PROVE  Overlay(t, w.files) \in Trees
<1>1. w.files \in Changes /\ w \in Writes
  BY OpsAssumption DEF Writes
<1>2. PICK P \in SUBSET Paths : w.files \in [P -> Held]
  BY <1>1 DEF Changes
<1> QED
  BY <1>2 DEF Overlay, Trees, Held

\* Setting one file leaves a tree.
LEMMA OneFileTree ==
    ASSUME NEW t \in Trees, NEW p \in Paths, NEW f \in Held
    PROVE  [t EXCEPT ![p] = f] \in Trees
BY DEF Trees

\* The type invariant: TypeOK holds in every reachable state, whatever the
\* writers and GitHub do.
THEOREM TypeCorrect == Safety => []TypeOK
<1>1. Init => TypeOK
  BY DEF Init, TypeOK, Waiting, Drafts, Held
<1>2. TypeOK /\ [Next]_vars => TypeOK'
  <2> SUFFICES ASSUME TypeOK, [Next]_vars PROVE TypeOK'
    OBVIOUS
  <2> USE DEF TypeOK
  <2>1. ASSUME NEW c \in Calls, Call(c) PROVE TypeOK'
    BY <2>1 DEF Call, Goto, ghVars, Waiting
  <2>2. ASSUME NEW c \in Calls, Acquire(c) PROVE TypeOK'
    BY <2>2 DEF Acquire, ghVars, Critical
  <2>3. ASSUME NEW c \in Calls, Step(c) PROVE TypeOK'
    <3>1. CASE FetchSHA(c)
      BY <3>1 DEF FetchSHA, Return, Goto, Fault, ghVars, Critical, Returned
    <3>2. CASE PutLands(c)
      <4>1. op[c] \in Ops
        OBVIOUS
      <4>2. Overlay(main, op[c].files) \in Trees
        BY <4>1, OverlayTree
      <4> QED
        BY <3>2, <4>2 DEF PutLands, Land, Return, Returned
    <3>3. CASE PutConflict(c)
      BY <3>3 DEF PutConflict, Return, Goto, ghVars, Critical, Returned
    <3>4. CASE GetBranch(c)
      BY <3>4 DEF GetBranch, Goto, ghVars, Critical, Drafts
    <3>5. CASE CreateTree(c)
      <4>1. op[c] \in Ops /\ draft[c] \in Drafts /\ draft[c].tree \in Trees
        BY DEF Drafts
      <4>2. Overlay(draft[c].tree, op[c].files) \in Trees
        BY <4>1, OverlayTree
      <4> QED
        BY <3>5, <4>1, <4>2 DEF CreateTree, Goto, ghVars, Critical, Drafts
    <3>6. CASE CreateCommit(c)
      BY <3>6 DEF CreateCommit, Goto, ghVars, Critical
    <3>7. CASE BuildFails(c)
      BY <3>7 DEF BuildFails, Return, Fault, ghVars, Returned
    <3>8. CASE RefLands(c)
      <4>1. draft[c].tree \in Trees
        BY DEF Drafts
      <4> QED
        BY <3>8, <4>1 DEF RefLands, Land, Return, Returned
    <3>9. CASE RefRejected(c)
      BY <3>9 DEF RefRejected, Retry, Return, Goto, ghVars, Critical, Returned
    <3>10. CASE PutTimesOut(c)
      BY <3>10 DEF PutTimesOut, Return, Fault, Request, Requests, Returned
    <3>11. CASE RefTimesOut(c)
      <4>1. Request(c) \in Requests
        BY DEF Request, Requests
      <4> QED
        BY <3>11, <4>1 DEF RefTimesOut, Retry, Return, Goto, Fault, Critical,
                           Returned
    <3> QED
      BY <2>3, <3>1, <3>2, <3>3, <3>4, <3>5, <3>6, <3>7, <3>8, <3>9, <3>10,
         <3>11 DEF Step
  <2>4. ASSUME NEW r \in late, LateLands(r) PROVE TypeOK'
    <3>1. r.call \in Calls /\ op[r.call] \in Ops /\ r.draft.tree \in Trees
      BY DEF Requests, Drafts
    <3>2. Overlay(main, op[r.call].files) \in Trees
      BY <3>1, OverlayTree
    <3> QED
      BY <2>4, <3>1, <3>2 DEF LateLands, Land, callVars
  <2>5. ASSUME NEW r \in late, LateLost(r) PROVE TypeOK'
    BY <2>5 DEF LateLost, callVars
  <2>6. CASE OutsideCommit
    <3>1. main' \in Trees /\ tip' \in Nat
      <4>1. PICK p \in Paths, f \in Held : Land([main EXCEPT ![p] = f])
        BY <2>6 DEF OutsideCommit
      <4>2. [main EXCEPT ![p] = f] \in Trees
        BY OneFileTree
      <4> QED
        BY <4>1, <4>2 DEF Land
    <3>2. outside' = outside + 1 /\ UNCHANGED <<callVars, op, late, faults, strays>>
      BY <2>6 DEF OutsideCommit
    <3> QED
      BY <3>1, <3>2 DEF callVars
  <2>7. CASE UNCHANGED vars
    BY <2>7 DEF vars
  <2> QED
    BY <2>1, <2>2, <2>3, <2>4, <2>5, <2>6, <2>7 DEF Next, Terminating
<1> QED
  BY <1>1, <1>2, PTL DEF Safety

------------------------------------------------------------------------------
(* The inductive invariant, conjunct by conjunct.                             *)

\* writeMu admits one call at a time.
LEMMA LockStep == TypeOK /\ LockInv /\ [Next]_vars => LockInv'
<1> SUFFICES ASSUME TypeOK, LockInv, [Next]_vars PROVE LockInv'
  OBVIOUS
<1> USE DEF LockInv, Critical
<1>0. pc \in [Calls -> Waiting \cup Critical \cup Returned]
  BY DEF TypeOK
<1>1. ASSUME NEW c \in Calls, Call(c) PROVE LockInv'
  BY <1>0, <1>1 DEF Call, Goto
<1>2. ASSUME NEW c \in Calls, Acquire(c) PROVE LockInv'
  BY <1>0, <1>2, CallsAssumption DEF Acquire
<1>3. ASSUME NEW c \in Calls, NEW a, pc[c] \in Critical, Return(c, a),
             a \in Returned
      PROVE  LockInv'
  BY <1>0, <1>3, CallsAssumption DEF Return, Returned
<1>4. ASSUME NEW c \in Calls, NEW l \in Critical, pc[c] \in Critical, Goto(c, l)
      PROVE  LockInv'
  BY <1>0, <1>4 DEF Goto
<1>5. ASSUME NEW c \in Calls, Step(c) PROVE LockInv'
  <2> USE DEF Returned
  <2>1. CASE FetchSHA(c)
    BY <2>1, <1>3, <1>4 DEF FetchSHA
  <2>2. CASE PutLands(c)
    BY <2>2, <1>3 DEF PutLands
  <2>3. CASE PutConflict(c)
    BY <2>3, <1>3, <1>4 DEF PutConflict
  <2>4. CASE GetBranch(c)
    BY <2>4, <1>4 DEF GetBranch
  <2>5. CASE CreateTree(c)
    BY <2>5, <1>4 DEF CreateTree
  <2>6. CASE CreateCommit(c)
    BY <2>6, <1>4 DEF CreateCommit
  <2>7. CASE BuildFails(c)
    BY <2>7, <1>3 DEF BuildFails
  <2>8. CASE RefLands(c)
    BY <2>8, <1>3 DEF RefLands
  <2>9. CASE RefRejected(c)
    BY <2>9, <1>3, <1>4 DEF RefRejected, Retry
  <2>10. CASE PutTimesOut(c)
    BY <2>10, <1>3 DEF PutTimesOut
  <2>11. CASE RefTimesOut(c)
    BY <2>11, <1>3, <1>4 DEF RefTimesOut, Retry
  <2> QED
    BY <1>5, <2>1, <2>2, <2>3, <2>4, <2>5, <2>6, <2>7, <2>8, <2>9, <2>10, <2>11
       DEF Step
<1>6. CASE UNCHANGED <<pc, writeMu>>
  BY <1>6
<1> QED
  BY <1>1, <1>2, <1>5, <1>6
     DEF Next, LateLands, LateLost, OutsideCommit, Terminating, callVars, vars

\* Each call runs the code of its kind of write.
LEMMA KindStep == TypeOK /\ KindInv /\ [Next]_vars => KindInv'
<1> SUFFICES ASSUME TypeOK, KindInv, [Next]_vars PROVE KindInv'
  OBVIOUS
<1> USE DEF KindInv
<1>0. pc \in [Calls -> Waiting \cup Critical \cup Returned]
  BY DEF TypeOK
<1>1. ASSUME NEW c \in Calls, Call(c) PROVE KindInv'
  BY <1>0, <1>1 DEF Call, Goto
<1>2. ASSUME NEW c \in Calls, Acquire(c) PROVE KindInv'
  BY <1>0, <1>2 DEF Acquire
<1>3. ASSUME NEW c \in Calls, Step(c) PROVE KindInv'
  <2> USE DEF Returned, Goto, Return, Retry
  <2>1. CASE FetchSHA(c)
    BY <1>0, <2>1 DEF FetchSHA
  <2>2. CASE PutLands(c)
    BY <1>0, <2>2 DEF PutLands
  <2>3. CASE PutConflict(c)
    BY <1>0, <2>3 DEF PutConflict
  <2>4. CASE GetBranch(c)
    BY <1>0, <2>4 DEF GetBranch
  <2>5. CASE CreateTree(c)
    BY <1>0, <2>5 DEF CreateTree
  <2>6. CASE CreateCommit(c)
    BY <1>0, <2>6 DEF CreateCommit
  <2>7. CASE BuildFails(c)
    BY <1>0, <2>7 DEF BuildFails
  <2>8. CASE RefLands(c)
    BY <1>0, <2>8 DEF RefLands
  <2>9. CASE RefRejected(c)
    BY <1>0, <2>9 DEF RefRejected
  <2>10. CASE PutTimesOut(c)
    BY <1>0, <2>10 DEF PutTimesOut
  <2>11. CASE RefTimesOut(c)
    BY <1>0, <2>11 DEF RefTimesOut
  <2> QED
    BY <1>3, <2>1, <2>2, <2>3, <2>4, <2>5, <2>6, <2>7, <2>8, <2>9, <2>10, <2>11
       DEF Step
<1>4. CASE UNCHANGED <<pc, op>>
  BY <1>4
<1> QED
  BY <1>1, <1>2, <1>3, <1>4
     DEF Next, LateLands, LateLost, OutsideCommit, Terminating, callVars, vars

\* A draft whose base is the tip holds main plus the call's own files.
LEMMA DraftStep == TypeOK /\ DraftInv /\ [Next]_vars => DraftInv'
<1> SUFFICES ASSUME TypeOK, DraftInv, [Next]_vars PROVE DraftInv'
  OBVIOUS
<1>0. /\ tip \in Nat
      /\ pc \in [Calls -> Waiting \cup Critical \cup Returned]
      /\ draft \in [Calls -> [base : Nat, tree : Trees]]
  BY DEF TypeOK, Drafts
\* Whoever lands moves the tip past every base.
<1>1. ASSUME tip' = tip + 1, draft' = draft,
             \A c \in Calls : pc'[c] # pc[c] => pc'[c] \notin {"tree", "commit", "ref"}
      PROVE  DraftInv'
  <2> SUFFICES ASSUME NEW c \in Calls, pc'[c] \in {"tree", "commit", "ref"}
               PROVE  draft[c].base <= tip /\ draft[c].base \in Nat
    BY <1>0, <1>1 DEF DraftInv
  <2> QED
    BY <1>0, <1>1 DEF DraftInv
\* Who neither lands nor reads only moves along.
<1>2. ASSUME UNCHANGED <<main, tip, op, draft>>,
             \A c \in Calls :
                \/ pc'[c] = pc[c]
                \/ pc'[c] \notin {"tree", "commit", "ref"}
                \/ pc[c] = "commit" /\ pc'[c] = "ref"
      PROVE  DraftInv'
  BY <1>2 DEF DraftInv
<1>3. ASSUME NEW c \in Calls, Call(c) PROVE DraftInv'
  BY <1>0, <1>2, <1>3 DEF Call, Goto, ghVars
<1>4. ASSUME NEW c \in Calls, Acquire(c) PROVE DraftInv'
  BY <1>0, <1>2, <1>4 DEF Acquire, ghVars
<1>5. ASSUME NEW c \in Calls, Step(c) PROVE DraftInv'
  <2> USE <1>0 DEF Returned, Goto, Return, Retry, ghVars
  <2>1. CASE FetchSHA(c)
    BY <1>2, <2>1 DEF FetchSHA
  <2>2. CASE PutLands(c)
    BY <1>1, <2>2 DEF PutLands, Land
  <2>3. CASE PutConflict(c)
    BY <1>2, <2>3 DEF PutConflict
  <2>4. CASE GetBranch(c)
    BY <2>4 DEF GetBranch, DraftInv
  <2>5. CASE CreateTree(c)
    BY <2>5 DEF CreateTree, DraftInv
  <2>6. CASE CreateCommit(c)
    BY <1>2, <2>6 DEF CreateCommit
  <2>7. CASE BuildFails(c)
    BY <1>2, <2>7 DEF BuildFails
  <2>8. CASE RefLands(c)
    BY <1>1, <2>8 DEF RefLands, Land
  <2>9. CASE RefRejected(c)
    BY <1>2, <2>9 DEF RefRejected
  <2>10. CASE PutTimesOut(c)
    BY <1>2, <2>10 DEF PutTimesOut
  <2>11. CASE RefTimesOut(c)
    BY <1>2, <2>11 DEF RefTimesOut
  <2> QED
    BY <1>5, <2>1, <2>2, <2>3, <2>4, <2>5, <2>6, <2>7, <2>8, <2>9, <2>10, <2>11
       DEF Step
<1>6. ASSUME NEW r \in late, LateLands(r) PROVE DraftInv'
  BY <1>1, <1>6 DEF LateLands, Land, callVars
<1>7. CASE OutsideCommit
  BY <1>1, <1>7 DEF OutsideCommit, Land, callVars
<1>8. CASE UNCHANGED <<main, tip, op, draft, pc>>
  BY <1>2, <1>8
<1> QED
  BY <1>3, <1>4, <1>5, <1>6, <1>7, <1>8
     DEF Next, LateLost, Terminating, callVars, vars

\* What an unanswered request can still do.
LEMMA LateStep ==
    TypeOK /\ KindInv /\ DraftInv /\ LateInv /\ [Next]_vars => LateInv'
<1> SUFFICES ASSUME TypeOK, KindInv, DraftInv, LateInv, [Next]_vars PROVE LateInv'
  OBVIOUS
<1>0. /\ tip \in Nat
      /\ pc \in [Calls -> Waiting \cup Critical \cup Returned]
      /\ \A r \in late : r.call \in Calls /\ r.draft.base \in Nat
  BY DEF TypeOK, Requests, Drafts
<1>1. ASSUME late' \subseteq late, op' = op, tip' = tip + 1,
             \A c \in Calls : pc'[c] # pc[c] =>
                /\ pc'[c] \in Returned /\ pc[c] \in Critical
                /\ op[c].kind # "batch" => pc[c] = "put"
      PROVE  LateInv'
  <2> SUFFICES ASSUME NEW r \in late PROVE
         IF op[r.call].kind = "batch"
         THEN /\ r.draft.base < tip + 1
              /\ pc'[r.call] \in Critical \cup Returned
         ELSE pc'[r.call] = "error"
    BY <1>0, <1>1 DEF LateInv
  <2>1. r.call \in Calls /\ r.draft.base \in Nat
    BY <1>0
  <2>2. CASE op[r.call].kind = "batch"
    BY <1>0, <1>1, <2>1, <2>2 DEF LateInv
  <2>3. CASE op[r.call].kind # "batch"
    BY <1>1, <2>1, <2>3 DEF LateInv
  <2> QED
    BY <2>2, <2>3
<1>2. ASSUME late' \subseteq late, UNCHANGED <<op, main, tip>>,
             \A c \in Calls : pc'[c] # pc[c] =>
                \/ pc[c] \in Waiting
                \/ /\ pc[c] \in Critical
                   /\ pc'[c] \in Critical \cup {"error"}
      PROVE  LateInv'
  <2> SUFFICES ASSUME NEW r \in late PROVE
         IF op[r.call].kind = "batch"
         THEN /\ pc'[r.call] \in Critical \cup Returned
              /\ pc'[r.call] = "ok" => pc[r.call] = "ok"
         ELSE pc'[r.call] = "error"
    BY <1>0, <1>2 DEF LateInv
  <2>1. r.call \in Calls
    BY <1>0
  <2> QED
    BY <1>2, <2>1 DEF LateInv, Waiting, Critical, Returned
<1>3. ASSUME NEW c \in Calls, Call(c) PROVE LateInv'
  BY <1>0, <1>2, <1>3 DEF Call, Goto, ghVars, Waiting
<1>4. ASSUME NEW c \in Calls, Acquire(c) PROVE LateInv'
  BY <1>0, <1>2, <1>4 DEF Acquire, ghVars, Waiting
<1>5. ASSUME NEW c \in Calls, Step(c) PROVE LateInv'
  <2> USE <1>0 DEF Returned, Critical, Goto, Return, Retry, ghVars
  <2>1. CASE FetchSHA(c)
    BY <1>2, <2>1 DEF FetchSHA
  <2>2. CASE PutLands(c)
    BY <1>1, <2>2 DEF PutLands, Land
  <2>3. CASE PutConflict(c)
    BY <1>2, <2>3 DEF PutConflict
  <2>4. CASE GetBranch(c)
    BY <1>2, <2>4 DEF GetBranch
  <2>5. CASE CreateTree(c)
    BY <1>2, <2>5 DEF CreateTree
  <2>6. CASE CreateCommit(c)
    BY <1>2, <2>6 DEF CreateCommit
  <2>7. CASE BuildFails(c)
    BY <1>2, <2>7 DEF BuildFails
  <2>8. CASE RefLands(c)
    BY <1>1, <2>8 DEF RefLands, Land, KindInv
  <2>9. CASE RefRejected(c)
    BY <1>2, <2>9 DEF RefRejected
  <2>10. CASE PutTimesOut(c)
    BY <2>10 DEF PutTimesOut, Request, LateInv, KindInv
  <2>11. CASE RefTimesOut(c)
    BY <2>11 DEF RefTimesOut, Request, LateInv, KindInv, DraftInv
  <2> QED
    BY <1>5, <2>1, <2>2, <2>3, <2>4, <2>5, <2>6, <2>7, <2>8, <2>9, <2>10, <2>11
       DEF Step
<1>6. ASSUME NEW r \in late, LateLands(r) PROVE LateInv'
  BY <1>1, <1>6 DEF LateLands, Land, callVars
<1>7. ASSUME NEW r \in late, LateLost(r) PROVE LateInv'
  BY <1>2, <1>7 DEF LateLost, callVars
<1>8. CASE OutsideCommit
  BY <1>1, <1>8 DEF OutsideCommit, Land, callVars
<1>9. CASE UNCHANGED vars
  BY <1>2, <1>9 DEF vars
<1> QED
  BY <1>3, <1>4, <1>5, <1>6, <1>7, <1>8, <1>9 DEF Next, Terminating

\* While nothing fails, a lost attempt is accounted for by a commit from outside.
LEMMA AttemptStep ==
    TypeOK /\ LockInv /\ KindInv /\ AttemptInv /\ [Next]_vars => AttemptInv'
<1> SUFFICES ASSUME TypeOK, LockInv, KindInv, AttemptInv, [Next]_vars, faults' = 0
             PROVE  AttemptInv'
  BY DEF AttemptInv
<1>0. /\ tip \in Nat /\ faults \in Nat /\ outside \in Nat
      /\ pc \in [Calls -> Waiting \cup Critical \cup Returned]
      /\ sha \in [Calls -> Held]
      /\ draft \in [Calls -> Drafts]
      /\ attempt \in [Calls -> Nat]
  BY DEF TypeOK
<1>1. UNCHANGED vars => AttemptInv'
  BY DEF vars, AttemptInv, Stale, Fresh
<1>2. ASSUME faults' # faults + 1, ~ UNCHANGED vars, Next PROVE faults = 0
  <2> SUFFICES faults' = faults \/ Fault
    BY <1>0, <1>2 DEF Fault
  <2>1. ASSUME NEW c \in Calls, Call(c) \/ Acquire(c) PROVE faults' = faults
    BY <2>1 DEF Call, Acquire
  <2>2. ASSUME NEW c \in Calls, Step(c) PROVE faults' = faults \/ Fault
    BY <2>2 DEF Step, FetchSHA, PutLands, PutConflict, GetBranch, CreateTree,
         CreateCommit, BuildFails, RefLands, RefRejected, PutTimesOut, RefTimesOut
  <2>3. ASSUME NEW r \in late, LateLands(r) \/ LateLost(r) PROVE faults' = faults
    BY <2>3 DEF LateLands, LateLost
  <2> QED
    BY <1>2, <2>1, <2>2, <2>3 DEF Next, OutsideCommit, Terminating
\* Of the calls only the holder of writeMu can be Critical.
<1>3. ASSUME NEW c \in Calls, pc[c] \in Critical, UNCHANGED <<op, outside>>,
             late' = late, faults = 0, ~ pc'[c] \in Waiting,
             \A d \in Calls \ {c} : pc'[d] = pc[d] /\ attempt'[d] = attempt[d],
             pc'[c] \in Critical =>
                attempt'[c] + (IF Stale(c)' THEN 1 ELSE 0) <= outside
      PROVE  AttemptInv'
  BY <1>3 DEF AttemptInv, LockInv, Waiting, Critical
<1>4. ASSUME faults = 0 PROVE
         /\ late = {}
         /\ \A c \in Calls :
              /\ pc[c] \in Waiting => attempt[c] = 0
              /\ pc[c] \in Critical =>
                   /\ attempt[c] <= outside
                   /\ Stale(c) => attempt[c] + 1 <= outside
  BY <1>0, <1>4 DEF AttemptInv
<1>5. ASSUME NEW c \in Calls, Call(c), faults = 0 PROVE AttemptInv'
  BY <1>0, <1>5 DEF Call, Goto, ghVars, AttemptInv, Stale, Fresh, Waiting, Critical
<1>6. ASSUME NEW c \in Calls, Acquire(c), faults = 0 PROVE AttemptInv'
  BY <1>0, <1>4, <1>6 DEF Acquire, ghVars, AttemptInv, Stale, Fresh, Waiting, Critical
<1>7. ASSUME NEW c \in Calls, Step(c), faults = 0 PROVE AttemptInv'
  <2> USE <1>0, <1>7 DEF Returned, Critical, Waiting, Goto, Return, Retry, ghVars
  <2>1. CASE FetchSHA(c)
    BY <1>3, <1>4, <2>1 DEF FetchSHA, Stale, Fresh, Fault
  <2>2. CASE PutLands(c)
    BY <1>3, <2>2 DEF PutLands, Land
  <2>3. CASE PutConflict(c)
    BY <1>3, <1>4, <2>3 DEF PutConflict, Stale
  <2>4. CASE GetBranch(c)
    BY <1>3, <1>4, <2>4 DEF GetBranch, Stale, Drafts
  <2>5. CASE CreateTree(c)
    BY <1>3, <1>4, <2>5 DEF CreateTree, Stale, Drafts
  <2>6. CASE CreateCommit(c)
    BY <1>3, <1>4, <2>6 DEF CreateCommit, Stale
  <2>7. CASE BuildFails(c)
    BY <1>3, <2>7 DEF BuildFails, Fault
  <2>8. CASE RefLands(c)
    BY <1>3, <2>8 DEF RefLands, Land
  <2>9. CASE RefRejected(c)
    BY <1>3, <1>4, <2>9 DEF RefRejected, Stale
  <2>10. CASE PutTimesOut(c)
    BY <2>10 DEF PutTimesOut, Fault
  <2>11. CASE RefTimesOut(c)
    BY <2>11 DEF RefTimesOut, Fault
  <2> QED
    BY <2>1, <2>2, <2>3, <2>4, <2>5, <2>6, <2>7, <2>8, <2>9, <2>10, <2>11
       DEF Step
<1>8. ASSUME OutsideCommit, faults = 0 PROVE AttemptInv'
  <2>1. /\ outside' = outside + 1
        /\ UNCHANGED <<late, pc, attempt>>
    BY <1>8 DEF OutsideCommit, callVars
  <2> SUFFICES ASSUME NEW c \in Calls, pc[c] \in Critical
               PROVE  attempt[c] + (IF Stale(c)' THEN 1 ELSE 0) <= outside + 1
    BY <1>0, <1>4, <1>8, <2>1 DEF AttemptInv
  <2> QED
    BY <1>0, <1>4, <1>8
<1> QED
  BY <1>0, <1>1, <1>2, <1>4, <1>5, <1>6, <1>7, <1>8
     DEF Next, Terminating, LateLands, LateLost

\* A call that errs has used up its allowance of lost attempts.
LEMMA DefeatStep ==
    TypeOK /\ KindInv /\ AttemptInv /\ OnlyOutsidersDefeat /\ [Next]_vars
        => OnlyOutsidersDefeat'
<1> SUFFICES ASSUME TypeOK, KindInv, AttemptInv, OnlyOutsidersDefeat, [Next]_vars
             PROVE  OnlyOutsidersDefeat'
  OBVIOUS
<1>0. /\ faults \in Nat /\ outside \in Nat
      /\ pc \in [Calls -> Waiting \cup Critical \cup Returned]
      /\ attempt \in [Calls -> Nat]
      /\ MaxAttempts \in Nat
  BY AttemptsAssumption DEF TypeOK
<1>1. ASSUME NEW c \in Calls, UNCHANGED op, outside' \in {outside, outside + 1},
             faults' = 0 => faults = 0,
             \A d \in Calls \ {c} : pc'[d] = pc[d],
             pc'[c] = "error" /\ faults' = 0 =>
                pc[c] = "error" \/ Allowance(c) <= outside
      PROVE  OnlyOutsidersDefeat'
  <2>0. ASSUME NEW d \in Calls
        PROVE  \/ Allowance(d)' = Allowance(d) /\ Allowance(d) \in Nat
               \/ op[d].kind \notin {"batch", "upsert", "delete"}
    BY <1>0, <1>1 DEF Allowance
  <2>1. \A d \in Calls : op[d].kind \in {"batch", "upsert", "delete"}
    BY OpsAssumption DEF TypeOK, Writes
  <2>2. \A d \in Calls : pc'[d] = "error" /\ faults' = 0 => Allowance(d) <= outside
    BY <1>1 DEF OnlyOutsidersDefeat
  <2> QED
    BY <1>0, <1>1, <2>0, <2>1, <2>2 DEF OnlyOutsidersDefeat
<1>2. ASSUME UNCHANGED <<op, pc>>, outside' \in {outside, outside + 1},
             faults' = faults
      PROVE  OnlyOutsidersDefeat'
  BY <1>1, <1>2 DEF OnlyOutsidersDefeat
<1>3. ASSUME faults = 0, NEW c \in Calls, pc[c] \in Critical PROVE
         attempt[c] \in Nat /\ (Stale(c) => attempt[c] + 1 <= outside)
  BY <1>0, <1>3 DEF AttemptInv
<1>4. ASSUME NEW c \in Calls, Call(c) PROVE OnlyOutsidersDefeat'
  BY <1>0, <1>1, <1>4 DEF Call, Goto
<1>5. ASSUME NEW c \in Calls, Acquire(c) PROVE OnlyOutsidersDefeat'
  BY <1>0, <1>1, <1>5 DEF Acquire
<1>6. ASSUME NEW c \in Calls, Step(c) PROVE OnlyOutsidersDefeat'
  <2> USE <1>0 DEF Returned, Critical, Goto, Return, Retry
  <2>1. CASE FetchSHA(c)
    BY <1>1, <2>1 DEF FetchSHA, Fault, Allowance
  <2>2. CASE PutLands(c)
    BY <1>1, <2>2 DEF PutLands
  <2>3. CASE PutConflict(c)
    <3>0. op[c].kind \in {"upsert", "delete"}
      BY <2>3, OpsAssumption DEF PutConflict, KindInv, TypeOK, Writes
    <3>1. faults = 0 => attempt[c] + 1 <= outside
      BY <1>3, <2>3 DEF PutConflict, Stale
    <3> QED
      BY <1>1, <2>3, <3>0, <3>1 DEF PutConflict, Allowance
  <2>4. CASE GetBranch(c)
    BY <1>1, <2>4 DEF GetBranch
  <2>5. CASE CreateTree(c)
    BY <1>1, <2>5 DEF CreateTree
  <2>6. CASE CreateCommit(c)
    BY <1>1, <2>6 DEF CreateCommit
  <2>7. CASE BuildFails(c)
    BY <1>1, <2>7 DEF BuildFails, Fault
  <2>8. CASE RefLands(c)
    BY <1>1, <2>8 DEF RefLands
  <2>9. CASE RefRejected(c)
    <3>0. op[c].kind = "batch"
      BY <2>9 DEF RefRejected, KindInv
    <3>1. faults = 0 => attempt[c] + 1 <= outside
      BY <1>3, <2>9 DEF RefRejected, Stale
    <3> QED
      BY <1>1, <2>9, <3>0, <3>1 DEF RefRejected, Allowance
  <2>10. CASE PutTimesOut(c)
    BY <1>1, <2>10 DEF PutTimesOut, Fault
  <2>11. CASE RefTimesOut(c)
    BY <1>1, <2>11 DEF RefTimesOut, Fault
  <2> QED
    BY <1>6, <2>1, <2>2, <2>3, <2>4, <2>5, <2>6, <2>7, <2>8, <2>9, <2>10, <2>11
       DEF Step
<1> QED
  BY <1>2, <1>4, <1>5, <1>6
     DEF Next, LateLands, LateLost, OutsideCommit, Terminating, callVars, vars

\* The inductive invariant of the writers, with their types.
THEOREM InvCorrect == Safety => [](TypeOK /\ IInv)
<1>1. Init => IInv
  <2> SUFFICES ASSUME Init PROVE IInv
    OBVIOUS
  <2>1. \A c \in Calls : pc[c] = "new" /\ attempt[c] = 0
    BY DEF Init
  <2>2. late = {} /\ writeMu = NoCall
    BY DEF Init
  <2> QED
    BY <2>1, <2>2, CallsAssumption
       DEF IInv, LockInv, KindInv, DraftInv, LateInv, AttemptInv,
           OnlyOutsidersDefeat, Critical
<1>2. TypeOK /\ IInv /\ [Next]_vars => IInv'
  BY LockStep, KindStep, DraftStep, LateStep, AttemptStep, DefeatStep DEF IInv
<1> QED
  BY <1>1, <1>2, TypeCorrect, PTL DEF Safety

\* Writes that take turns are defeated only by commits from outside, and each
\* such commit defeats at most one attempt (github.go:23-25, write.go:124-129).
THEOREM OutsidersCorrect == Safety => []OnlyOutsidersDefeat
BY InvCorrect, PTL DEF IInv

------------------------------------------------------------------------------
(* GitHubWrites implements AtomicRepo: what a caller may rely on.             *)

\* The tip moves forward, so a request that could not land never can again.
LEMMA CopiesShrink ==
    ASSUME TypeOK, LateInv, late' \subseteq late, op' = op, tip' \in {tip, tip + 1}
    PROVE  Copies' \subseteq Copies
<1>1. \A r \in late :
         /\ r.draft.base \in Nat /\ tip \in Nat
         /\ op[r.call].kind = "batch" => r.draft.base <= tip
  BY DEF TypeOK, Requests, Drafts, LateInv
<1>2. ASSUME NEW r \in late, CouldLand(r)' PROVE CouldLand(r)
  <2>1. op[r.call].kind = "batch" => r.draft.base \in {tip, tip + 1}
    BY <1>2 DEF CouldLand
  <2> QED
    BY <1>1, <2>1 DEF CouldLand
<1> QED
  BY <1>2 DEF Copies

\* Setting the pc of one call sets its status.
LEMMA StatusMoves ==
    ASSUME TypeOK, NEW c \in Calls, NEW l \in Critical \cup Returned \cup {"lock"},
           pc' = [pc EXCEPT ![c] = l]
    PROVE  Status' = [Status EXCEPT ![c] = IF l \in Returned THEN l ELSE "open"]
<1>1. pc \in [Calls -> Waiting \cup Critical \cup Returned]
  BY DEF TypeOK
<1> QED
  BY <1>1 DEF Status, Critical, Returned

LEMMA StatusOpen ==
    ASSUME NEW c \in Calls, pc[c] \in Critical \cup {"lock"}
    PROVE  Status[c] = "open" /\ [Status EXCEPT ![c] = "open"] = Status
BY DEF Status, Critical, Returned

\* A step of a call that neither lands nor leaves a request behind: for the
\* caller it is nothing, or the answer "error".
LEMMA QuietStep ==
    ASSUME TypeOK, LateInv, NEW c \in Calls, pc[c] \in Critical \cup {"lock"},
           NEW l \in Critical \cup {"error"}, pc' = [pc EXCEPT ![c] = l],
           UNCHANGED <<main, tip, late, op>>
    PROVE  Repo!Refuse(c) \/ UNCHANGED Repo!vars
<1>1. Copies' = Copies
  BY DEF Copies, CouldLand
<1>2. Status' = [Status EXCEPT ![c] = IF l = "error" THEN l ELSE "open"]
  BY StatusMoves DEF Critical, Returned
<1>3. CASE l = "error"
  <2>1. Repo!Refuse(c)
    BY <1>1, <1>2, <1>3, StatusOpen DEF Repo!Refuse
  <2> QED
    BY <2>1
<1>4. CASE l # "error"
  <2>1. Status' = Status
    BY <1>2, <1>4, StatusOpen
  <2> QED
    BY <1>1, <2>1 DEF Repo!vars
<1> QED
  BY <1>3, <1>4

\* A step of a call that lands its write: for the caller, the commit.
LEMMA LandingStep ==
    ASSUME TypeOK, LateInv, NEW c \in Calls, pc[c] \in Critical,
           op[c].kind # "batch" => pc[c] = "put",
           pc' = [pc EXCEPT ![c] = "ok"], UNCHANGED <<late, op>>,
           main' = Overlay(main, op[c].files), tip' = tip + 1
    PROVE  Repo!Commit(c)
<1>1. Status' = [Status EXCEPT ![c] = "ok"] /\ Status[c] = "open"
  BY StatusMoves, StatusOpen DEF Returned
<1>2. Copies' \subseteq Copies
  BY CopiesShrink
<1>3. c \notin Copies'
  <2> SUFFICES ASSUME NEW r \in late, r.call = c, op[c].kind = "batch" => r.draft.base = tip + 1
               PROVE  FALSE
    BY DEF Copies, CouldLand
  <2>1. op[c].kind = "batch" /\ r.draft.base <= tip
    BY DEF LateInv
  <2>2. r.draft.base \in Nat /\ tip \in Nat
    BY DEF TypeOK, Requests, Drafts
  <2> QED
    BY <2>1, <2>2
<1>4. Copies' \in SUBSET (Copies \ {c})
  BY <1>2, <1>3
<1> QED
  BY <1>1, <1>4 DEF Repo!Commit, Repo!Overlay, Overlay

\* Every step of the writers, of GitHub or of another committer is a step of
\* AtomicRepo or invisible to it.
LEMMA RefinementStep == TypeOK /\ IInv /\ [Next]_vars => [Repo!Next]_(Repo!vars)
<1> SUFFICES ASSUME TypeOK, IInv, [Next]_vars PROVE [Repo!Next]_(Repo!vars)
  OBVIOUS
<1> USE DEF IInv
<1>0. pc \in [Calls -> Waiting \cup Critical \cup Returned]
  BY DEF TypeOK
<1>1. ASSUME NEW c \in Calls, Call(c) PROVE Repo!Begin(c)
  <2>1. pc' = [pc EXCEPT ![c] = "lock"] /\ Status[c] = "new"
    BY <1>1 DEF Call, Goto, Status
  <2>2. Status' = [Status EXCEPT ![c] = "open"]
    BY <2>1, StatusMoves DEF Returned
  <2>3. Copies' = Copies
    BY <1>1 DEF Call, ghVars, Copies, CouldLand
  <2> QED
    BY <1>1, <2>1, <2>2, <2>3 DEF Repo!Begin, Call, ghVars
<1>2. ASSUME NEW c \in Calls, Acquire(c) PROVE Repo!Refuse(c) \/ UNCHANGED Repo!vars
  BY <1>2, QuietStep DEF Acquire, ghVars, Critical
<1>3. ASSUME NEW c \in Calls, Step(c)
      PROVE  Repo!Refuse(c) \/ Repo!Commit(c) \/ Repo!Scatter(c) \/ UNCHANGED Repo!vars
  <2>1. CASE FetchSHA(c)
    BY <2>1, QuietStep DEF FetchSHA, Goto, Return, ghVars, Critical
  <2>2. CASE PutLands(c)
    BY <2>2, LandingStep DEF PutLands, Land, Return, Critical
  <2>3. CASE PutConflict(c)
    BY <2>3, QuietStep DEF PutConflict, Goto, Return, ghVars, Critical
  <2>4. CASE GetBranch(c)
    BY <2>4, QuietStep DEF GetBranch, Goto, ghVars, Critical
  <2>5. CASE CreateTree(c)
    BY <2>5, QuietStep DEF CreateTree, Goto, ghVars, Critical
  <2>6. CASE CreateCommit(c)
    BY <2>6, QuietStep DEF CreateCommit, Goto, ghVars, Critical
  <2>7. CASE BuildFails(c)
    BY <2>7, QuietStep DEF BuildFails, Return, ghVars, Critical
  <2>8. CASE RefLands(c)
    <3>1. op[c].kind = "batch" /\ draft[c].tree = Overlay(main, op[c].files)
      BY <2>8 DEF RefLands, KindInv, DraftInv
    <3> QED
      BY <2>8, <3>1, LandingStep DEF RefLands, Land, Return, Critical
  <2>9. CASE RefRejected(c)
    BY <2>9, QuietStep DEF RefRejected, Retry, Goto, Return, ghVars, Critical
  <2>10. CASE PutTimesOut(c)
    <3>1. Status' = [Status EXCEPT ![c] = "error"] /\ Status[c] = "open"
      BY <2>10, StatusMoves, StatusOpen DEF PutTimesOut, Return, Returned, Critical
    <3>2. Copies' \in SUBSET (Copies \cup {c})
      BY <2>10 DEF PutTimesOut, Copies, CouldLand, Request
    <3> QED
      BY <2>10, <3>1, <3>2 DEF PutTimesOut, Repo!Refuse
  <2>11. CASE RefTimesOut(c)
    <3>1. Copies' \in SUBSET (Copies \cup {c})
      BY <2>11 DEF RefTimesOut, Copies, CouldLand, Request
    <3>2. Status[c] = "open" /\ Status' \in {Status, [Status EXCEPT ![c] = "error"]}
      <4>1. PICK l \in {"branch", "error"} : pc' = [pc EXCEPT ![c] = l]
        BY <2>11 DEF RefTimesOut, Retry, Goto, Return
      <4> QED
        BY <2>11, <4>1, StatusMoves, StatusOpen DEF RefTimesOut, Critical, Returned
    <3> QED
      BY <2>11, <3>1, <3>2 DEF RefTimesOut, Repo!Refuse, Repo!Scatter
  <2> QED
    BY <1>3, <2>1, <2>2, <2>3, <2>4, <2>5, <2>6, <2>7, <2>8, <2>9, <2>10, <2>11
       DEF Step
<1>4. ASSUME NEW r \in late, LateLands(r) PROVE r.call \in Calls /\ Repo!Stray(r.call)
  <2>1. r.call \in Calls /\ r.call \in Copies
    BY <1>4 DEF LateLands, Acceptable, CouldLand, Copies, TypeOK, Requests
  <2>2. Copies' \in SUBSET Copies
    BY <1>4, CopiesShrink DEF LateLands, Land
  <2>3. main' = Overlay(main, op[r.call].files)
    BY <1>4 DEF LateLands, Land, Acceptable, LateInv
  <2>4. UNCHANGED <<Status, op>>
    BY <1>4 DEF LateLands, callVars, Status
  <2> QED
    BY <2>1, <2>2, <2>3, <2>4 DEF Repo!Stray, Repo!Overlay, Overlay
<1>5. ASSUME NEW r \in late, LateLost(r) PROVE Repo!Lose
  <2>1. Copies' \in SUBSET Copies
    BY <1>5, CopiesShrink DEF LateLost
  <2>2. UNCHANGED <<main, Status, op>>
    BY <1>5 DEF LateLost, callVars, Status
  <2> QED
    BY <2>1, <2>2 DEF Repo!Lose
<1>6. ASSUME OutsideCommit PROVE Repo!Outside
  <2>1. /\ tip' = tip + 1 /\ UNCHANGED <<callVars, op, late>>
        /\ main' \in Trees
    <3>1. PICK p \in Paths, f \in Held : Land([main EXCEPT ![p] = f])
      BY <1>6 DEF OutsideCommit
    <3>2. [main EXCEPT ![p] = f] \in Trees
      BY OneFileTree DEF TypeOK
    <3> QED
      BY <1>6, <3>1, <3>2 DEF OutsideCommit, Land
  <2>2. Copies' \in SUBSET Copies
    BY <2>1, CopiesShrink
  <2>3. Status' = Status
    BY <2>1 DEF callVars, Status
  <2> QED
    BY <2>1, <2>2, <2>3
       DEF Repo!Outside, Repo!Trees, Repo!Held, Trees, Held
<1>7. CASE UNCHANGED vars
  BY <1>7 DEF vars, Repo!vars, Status, Copies, CouldLand
<1> QED
  BY <1>1, <1>2, <1>3, <1>4, <1>5, <1>6, <1>7 DEF Next, Terminating, Repo!Next

\* Refinement: a write lands whole on the main of that moment, exactly when it
\* is answered "ok" or, after an answer that never came, at most as a stray.
THEOREM AtomicWritesCorrect == Safety => AtomicWrites
<1>1. Init => Repo!Init
  <2> SUFFICES ASSUME Init PROVE Repo!Init
    OBVIOUS
  <2>1. Status = [c \in Calls |-> "new"] /\ Copies = {}
    BY DEF Init, Status, Copies
  <2> QED
    BY <2>1 DEF Init, Repo!Init, Repo!Trees, Repo!Held, Trees, Held
<1> QED
  BY <1>1, RefinementStep, InvCorrect, PTL DEF Safety, AtomicWrites, Repo!Spec
==============================================================================
