---------------------------- MODULE GitHubWrites -----------------------------
(* write.go: the three writers of githubClient, upsertFile, deleteFile and    *)
(* upsertFilesAtomic, and the GitHub side they talk to.  Each call is one     *)
(* goroutine's; every HTTP request is a step of its own, because main can     *)
(* move between any two.  A request that times out (http.Client.Timeout 10 s) *)
(* or whose caller hung up is not taken back: it waits in `late`, and GitHub  *)
(* may act on it at any later time, also after writeMu is released.           *)
EXTENDS RepoTrees, Integers

CONSTANTS Calls,        \* the write calls, each made once
          NoCall,       \* nobody holds writeMu
          Ops,          \* the writes the handlers ask for
          MaxAttempts,  \* write.go:140 maxAttempts
          MaxOutside,   \* bound: commits from outside the process
          MaxFaults     \* bound: failed or unanswered requests, wrong SHA reads

ASSUME CallsAssumption    == NoCall \notin Calls
ASSUME OpsAssumption      == Ops \subseteq Writes
ASSUME AttemptsAssumption == MaxAttempts \in Nat \ {0}

VARIABLES main,     \* the tree on branch main
          tip,      \* how many commits main has: its identity
          writeMu,  \* githubClient.writeMu: the holder or NoCall
          pc,       \* per call: where it is, "ok" or "error" once it returned
          op,       \* per call: its write
          sha,      \* per call: upsertFile, deleteFile's sha
          draft,    \* per call: upsertFilesAtomic's base commit and its tree
          attempt,  \* per call: the loop variable
          late,     \* requests without an answer that GitHub may still act on
          outside,  \* commits made by others
          faults,   \* requests that failed or went unanswered, wrong SHA reads
          strays    \* late requests that landed

ghVars   == <<main, tip, late, strays>>
callVars == <<writeMu, pc, sha, draft, attempt>>
vars     == <<main, tip, writeMu, pc, op, sha, draft, attempt, late,
              outside, faults, strays>>

Waiting  == {"new", "lock"}
Returned == {"ok", "error"}
Critical == {"sha", "put", "branch", "tree", "commit", "ref"}
Drafts   == [base : Nat, tree : Trees]
Requests == [call : Calls, sha : Held, draft : Drafts]

Init ==
    /\ main \in Trees
    /\ tip = 0
    /\ writeMu = NoCall
    /\ pc = [c \in Calls |-> "new"]
    /\ op \in [Calls -> Ops]
    /\ sha = [c \in Calls |-> NoFile]
    /\ draft = [c \in Calls |-> [base |-> 0, tree |-> main]]
    /\ attempt = [c \in Calls |-> 0]
    /\ late = {}
    /\ outside = 0
    /\ faults = 0
    /\ strays = 0

------------------------------------------------------------------------------
Fault == faults < MaxFaults /\ faults' = faults + 1

\* Wrong on purpose: an error path without its Unlock.
ReturnLocked(c, answer) ==
    /\ pc' = [pc EXCEPT ![c] = answer]
    /\ writeMu' = IF answer = "ok" THEN NoCall ELSE writeMu

\* Return from the function: the answer, and the deferred writeMu.Unlock().
Return(c, answer) ==
    /\ pc' = [pc EXCEPT ![c] = answer]
    /\ writeMu' = NoCall

Goto(c, label) ==
    /\ pc' = [pc EXCEPT ![c] = label]
    /\ UNCHANGED writeMu

Land(tree) ==
    /\ main' = tree
    /\ tip' = tip + 1

Call(c) ==
    /\ pc[c] = "new"
    /\ Goto(c, "lock")
    /\ UNCHANGED <<ghVars, op, sha, draft, attempt, outside, faults>>

\* Wrong on purpose: a writer that takes no lock.
AcquireUnlocked(c) ==
    /\ pc[c] = "lock"
    /\ writeMu' = c
    /\ pc' = [pc EXCEPT ![c] = IF op[c].kind = "batch" THEN "branch" ELSE "sha"]
    /\ UNCHANGED <<ghVars, op, sha, draft, attempt, outside, faults>>

\* writeMu.Lock(), the first line of all three writers.
Acquire(c) ==
    /\ pc[c] = "lock"
    /\ writeMu = NoCall
    /\ writeMu' = c
    /\ pc' = [pc EXCEPT ![c] = IF op[c].kind = "batch" THEN "branch" ELSE "sha"]
    /\ UNCHANGED <<ghVars, op, sha, draft, attempt, outside, faults>>

------------------------------------------------------------------------------
(* upsertFile and deleteFile                                                  *)

\* currentSHA: the blob SHA of the file, "" when there is none.  It swallows
\* every error into "" and reads an API that lags commits: both are faults.
FetchSHA(c) ==
    /\ pc[c] = "sha"
    /\ \E s \in Held :
        /\ \/ (\A p \in DOMAIN op[c].files : s = main[p]) /\ UNCHANGED faults
           \/ (\E p \in DOMAIN op[c].files : s # main[p]) /\ Fault
        /\ sha' = [sha EXCEPT ![c] = s]
        /\ IF op[c].kind = "delete" /\ s = NoFile
           THEN Return(c, "error")
           ELSE Goto(c, "put")
    /\ UNCHANGED <<ghVars, op, draft, attempt, outside>>

\* GitHub takes a PUT or DELETE whose sha is the file's, "" for a new file.
Fresh(files, s) == \A p \in DOMAIN files : s = main[p]

PutLands(c) ==
    /\ pc[c] = "put"
    /\ Fresh(op[c].files, sha[c])
    /\ Land(Overlay(main, op[c].files))
    /\ Return(c, "ok")
    /\ UNCHANGED <<op, sha, draft, attempt, late, strays, outside, faults>>

\* 409: upsertFile looks the SHA up once more, deleteFile gives up.
PutConflict(c) ==
    /\ pc[c] = "put"
    /\ ~ Fresh(op[c].files, sha[c])
    /\ IF op[c].kind = "upsert" /\ attempt[c] = 0
       THEN Goto(c, "sha") /\ attempt' = [attempt EXCEPT ![c] = 1]
       ELSE Return(c, "error") /\ UNCHANGED attempt
    /\ UNCHANGED <<ghVars, op, sha, draft, outside, faults>>

------------------------------------------------------------------------------
(* upsertFilesAtomic                                                          *)

\* GET branches/main: tip commit and its tree in one answer.
GetBranch(c) ==
    /\ pc[c] = "branch"
    /\ draft' = [draft EXCEPT ![c] = [base |-> tip, tree |-> main]]
    /\ Goto(c, "tree")
    /\ UNCHANGED <<ghVars, op, sha, attempt, outside, faults>>

\* POST git/trees with base_tree and the batch's entries.
CreateTree(c) ==
    /\ pc[c] = "tree"
    /\ draft' = [draft EXCEPT ![c].tree = Overlay(draft[c].tree, op[c].files)]
    /\ Goto(c, "commit")
    /\ UNCHANGED <<ghVars, op, sha, attempt, outside, faults>>

\* POST git/commits with the base commit as only parent.
CreateCommit(c) ==
    /\ pc[c] = "commit"
    /\ Goto(c, "ref")
    /\ UNCHANGED <<ghVars, op, sha, draft, attempt, outside, faults>>

\* Any of those three failing ends the call.
BuildFails(c) ==
    /\ pc[c] \in {"branch", "tree", "commit"}
    /\ Fault
    /\ Return(c, "error")
    /\ UNCHANGED <<ghVars, op, sha, draft, attempt, outside>>

\* Wrong on purpose: a PATCH with "force": true.
RefForced(c) ==
    /\ pc[c] = "ref"
    /\ Land(draft[c].tree)
    /\ Return(c, "ok")
    /\ UNCHANGED <<op, sha, draft, attempt, late, strays, outside, faults>>

\* PATCH git/refs/heads/main: a fast-forward or nothing.
RefLands(c) ==
    /\ pc[c] = "ref"
    /\ draft[c].base = tip
    /\ Land(draft[c].tree)
    /\ Return(c, "ok")
    /\ UNCHANGED <<op, sha, draft, attempt, late, strays, outside, faults>>

\* The next turn of the loop starts over from the branch's tip.
Retry(c) ==
    IF attempt[c] + 1 < MaxAttempts
    THEN Goto(c, "branch") /\ attempt' = [attempt EXCEPT ![c] = @ + 1]
    ELSE Return(c, "error") /\ UNCHANGED attempt

RefRejected(c) ==
    /\ pc[c] = "ref"
    /\ draft[c].base # tip
    /\ Retry(c)
    /\ UNCHANGED <<ghVars, op, sha, draft, outside, faults>>

------------------------------------------------------------------------------
(* Requests without an answer, and other committers                           *)

Request(c) == [call |-> c, sha |-> sha[c], draft |-> draft[c]]

\* The PUT or DELETE times out: client.Do returns an error, and so does the call.
PutTimesOut(c) ==
    /\ pc[c] = "put"
    /\ Fault
    /\ late' = late \cup {Request(c)}
    /\ Return(c, "error")
    /\ UNCHANGED <<main, tip, op, sha, draft, attempt, outside, strays>>

\* The PATCH times out: an error like any other, so the loop goes on.
RefTimesOut(c) ==
    /\ pc[c] = "ref"
    /\ Fault
    /\ late' = late \cup {Request(c)}
    /\ Retry(c)
    /\ UNCHANGED <<main, tip, op, sha, draft, outside, strays>>

Acceptable(r) ==
    IF op[r.call].kind = "batch" THEN r.draft.base = tip
                                 ELSE Fresh(op[r.call].files, r.sha)

LateLands(r) ==
    /\ Acceptable(r)
    /\ Land(IF op[r.call].kind = "batch" THEN r.draft.tree
                                         ELSE Overlay(main, op[r.call].files))
    /\ late' = late \ {r}
    /\ strays' = strays + 1
    /\ UNCHANGED <<callVars, op, outside, faults>>

LateLost(r) ==
    /\ late' = late \ {r}
    /\ UNCHANGED <<main, tip, callVars, op, outside, faults, strays>>

\* "Commits from outside this process, such as CI deploys" (write.go:139).
OutsideCommit ==
    /\ outside < MaxOutside
    /\ \E p \in Paths, f \in Held : Land([main EXCEPT ![p] = f])
    /\ outside' = outside + 1
    /\ UNCHANGED <<callVars, op, late, faults, strays>>

------------------------------------------------------------------------------
Step(c) ==
    \/ FetchSHA(c)
    \/ PutLands(c)
    \/ PutConflict(c)
    \/ GetBranch(c)
    \/ CreateTree(c)
    \/ CreateCommit(c)
    \/ BuildFails(c)
    \/ RefLands(c)
    \/ RefRejected(c)
    \/ PutTimesOut(c)
    \/ RefTimesOut(c)

\* Every call returned and no request is under way: the run is over.
Terminating ==
    /\ \A c \in Calls : pc[c] \in Returned
    /\ late = {}
    /\ UNCHANGED vars

Next ==
    \/ \E c \in Calls : Call(c) \/ Acquire(c) \/ Step(c)
    \/ \E r \in late : LateLands(r) \/ LateLost(r)
    \/ OutsideCommit
    \/ Terminating

Safety == Init /\ [][Next]_vars

\* A goroutine keeps running and each request is answered or timed out; a
\* sync.Mutex hands itself to a waiter that has starved for 1 ms.
Fairness == \A c \in Calls : WF_vars(Step(c)) /\ SF_vars(Acquire(c))

Spec == Safety /\ Fairness
------------------------------------------------------------------------------
TypeOK ==
    /\ main \in Trees
    /\ tip \in Nat
    /\ writeMu \in Calls \cup {NoCall}
    /\ pc \in [Calls -> Waiting \cup Critical \cup Returned]
    /\ op \in [Calls -> Ops]
    /\ sha \in [Calls -> Held]
    /\ draft \in [Calls -> Drafts]
    /\ attempt \in [Calls -> Nat]
    /\ late \in SUBSET Requests
    /\ outside \in Nat
    /\ faults \in Nat
    /\ strays \in Nat

\* Writes that "take turns" (github.go:23-25) never make each other stale: with
\* every request answered, only commits from outside can defeat a write, and it
\* takes one per attempt, all MaxAttempts of a batch, both of an upsert.
Allowance(c) == CASE op[c].kind = "batch"  -> MaxAttempts
                  [] op[c].kind = "upsert" -> 2
                  [] op[c].kind = "delete" -> 0

OnlyOutsidersDefeat ==
    \A c \in Calls : pc[c] = "error" /\ faults = 0 => outside >= Allowance(c)

\* The inductive invariant.  writeMu: one call at a time is between Lock and
\* Unlock.
LockInv == \A c \in Calls : pc[c] \in Critical <=> writeMu = c

KindInv == \A c \in Calls :
    /\ pc[c] \in {"sha", "put"} => op[c].kind # "batch"
    /\ pc[c] \in {"branch", "tree", "commit", "ref"} => op[c].kind = "batch"

\* A batch whose base is still the tip has built exactly "main plus my files";
\* one whose base is not cannot be taken.
DraftInv == \A c \in Calls : pc[c] \in {"tree", "commit", "ref"} =>
    /\ draft[c].base <= tip
    /\ draft[c].base = tip =>
         draft[c].tree = IF pc[c] = "tree" THEN main
                                           ELSE Overlay(main, op[c].files)

\* The same of an unanswered PATCH, which moreover cannot land any more once its
\* call answered "ok"; an unanswered PUT or DELETE has ended its call.
LateInv == \A r \in late :
    IF op[r.call].kind = "batch"
    THEN /\ r.draft.base <= tip
         /\ r.draft.base = tip => r.draft.tree = Overlay(main, op[r.call].files)
         /\ pc[r.call] \in Critical \cup Returned
         /\ pc[r.call] = "ok" => r.draft.base < tip
    ELSE pc[r.call] = "error"

\* c works from something that has moved since it was read.
Stale(c) == \/ pc[c] \in {"tree", "commit", "ref"} /\ draft[c].base # tip
            \/ pc[c] = "put" /\ ~ Fresh(op[c].files, sha[c])

\* While every request is answered, each lost attempt was lost to a commit from
\* outside, and no two of them to the same one.
AttemptInv == faults = 0 =>
    /\ late = {}
    /\ \A c \in Calls :
         /\ pc[c] \in Waiting => attempt[c] = 0
         /\ pc[c] \in Critical =>
              attempt[c] + (IF Stale(c) THEN 1 ELSE 0) <= outside

IInv == LockInv /\ KindInv /\ DraftInv /\ LateInv /\ AttemptInv
        /\ OnlyOutsidersDefeat

\* Refinement: the lock, the SHA looked up before a PUT, and the rebuild of tree
\* and commit on every retry together make each write land whole on the current
\* main, exactly when it is answered "ok", and never again after that answer.
CouldLand(r) == op[r.call].kind = "batch" => r.draft.base = tip

Status == [c \in Calls |-> IF pc[c] \in Returned \cup {"new"} THEN pc[c] ELSE "open"]
Copies == {r.call : r \in {q \in late : CouldLand(q)}}

Repo == INSTANCE AtomicRepo WITH status <- Status, copies <- Copies

AtomicWrites == Repo!Spec

\* No call waits for writeMu, or loops, for ever: every path of every writer
\* unlocks, and the retries are bounded.
EveryCallReturns == \A c \in Calls : pc[c] = "lock" ~> pc[c] \in Returned
==============================================================================
