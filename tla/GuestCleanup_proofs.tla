-------------------------- MODULE GuestCleanup_proofs --------------------------
(* Proofs about GuestCleanup, for any set of sandboxes, every TTL, threshold  *)
(* and number of attempts, and any bounds on creates, writes and faults.      *)
EXTENDS GuestCleanup, TLAPS

Passes == [pc : {"off", "list", "delete"}, todo : SUBSET Files, ok : BOOLEAN]
Sweeps == [pc : {"off", "list", "visit", "start", "remove"},
           todo : SUBSET Names, at : Names \cup {None},
           attempt : 0..SweepAttempts, failed : BOOLEAN]

\* The dummies of a pass and of a sweep are a pass and a sweep.
LEMMA Dummies == /\ NoPass \in Passes /\ NewPass \in Passes
                 /\ NoPass.pc = "off" /\ NewPass.pc = "list"
                 /\ NoSweep \in Sweeps /\ NoSweep.pc = "off" /\ NoSweep.at = None
                 /\ Files # {} /\ Sweeper \notin Names /\ None \notin Names
  BY NameAssumption, NumberAssumption
  DEF Passes, Sweeps, NoPass, NewPass, NoSweep, Files

\* A deadline a tick nearer is a deadline still.
LEMMA TickTypes == TypeOK /\ Tick => TypeOK'
  <1> SUFFICES ASSUME TypeOK, Tick PROVE TypeOK'
    OBVIOUS
  <1>1. left' = [n \in Names |-> [k \in Clocks |->
                   IF left[n][k] > 0 THEN left[n][k] - 1 ELSE 0]]
    BY DEF Tick
  <1>2. ASSUME NEW n \in Names, NEW k \in Clocks
        PROVE  (IF left[n][k] > 0 THEN left[n][k] - 1 ELSE 0) \in 0..TTL
    <2>1. left[n][k] \in 0..TTL
      BY <1>2 DEF TypeOK
    <2> QED
      BY <2>1, NumberAssumption
  <1>3. left' \in [Names -> [Clocks -> 0..TTL]]
    BY <1>1, <1>2
  <1> QED
    BY <1>3 DEF TypeOK, Tick, temporal, requests, counts

\* Starting a run starts no delete.
LEMMA StartTypes ==
    ASSUME TypeOK, NEW n \in Names, NEW ticks \in 0..TTL, StartCleanup(n, ticks)
    PROVE  /\ run' \in [Names -> {"none", "sleep", "delete"}]
           /\ left' \in [Names -> [Clocks -> 0..TTL]]
           /\ \A m \in Names : run'[m] = "delete" <=> run[m] = "delete"
  <1>1. CASE run[n] = "none"
    <2>1. run' = [run EXCEPT ![n] = "sleep"] /\ left' = [left EXCEPT ![n].run = ticks]
      BY <1>1 DEF StartCleanup
    <2> QED
      BY <1>1, <2>1 DEF TypeOK, Clocks
  <1>2. CASE run[n] # "none"
    BY <1>2 DEF StartCleanup, TypeOK
  <1> QED
    BY <1>1, <1>2

\* What lands in a sandbox keeps the types.
LEMMA WriteTypes ==
    ASSUME TypeOK, NEW n \in Names,
           \/ Create(n) \/ CreateStarts(n) \/ BuildChecks(n) \/ PatchChecks(n)
           \/ DemoLands(n) \/ PhaseReads(n) \/ PhaseWrites(n)
    PROVE  TypeOK'
  <1>1. CASE Create(n)
    <2>1. files' \in [Names -> SUBSET Files]
      BY <1>1 DEF TypeOK, Create, Put, Files
    <2>2. left' \in [Names -> [Clocks -> 0..TTL]]
      <3>1. \/ left' = [left EXCEPT ![n].file = TTL, ![n].create = TTL]
            \/ left' = [left EXCEPT ![n].file = TTL]
        BY <1>1 DEF Create
      <3>2. [left[n] EXCEPT !.file = TTL] \in [Clocks -> 0..TTL]
        BY NumberAssumption DEF TypeOK
      <3>3. [left[n] EXCEPT !.file = TTL, !.create = TTL] \in [Clocks -> 0..TTL]
        BY <3>2, NumberAssumption DEF TypeOK, Clocks
      <3> QED
        BY <3>1, <3>2, <3>3 DEF TypeOK
    <2>3. /\ creating' \in Names \cup {None} /\ reused' \in SUBSET Names
          /\ creates' \in Nat /\ faults' \in Nat
      BY <1>1 DEF TypeOK, Create, Fault
    <2> QED
      BY <1>1, <2>1, <2>2, <2>3 DEF TypeOK, Create, temporal
  <1>2. CASE CreateStarts(n)
    <2>1. left[n].create \in 0..TTL
      BY DEF TypeOK, Clocks
    <2>2. /\ run' \in [Names -> {"none", "sleep", "delete"}]
          /\ left' \in [Names -> [Clocks -> 0..TTL]]
          /\ \A m \in Names : run'[m] = "delete" <=> run[m] = "delete"
      BY <1>2, <2>1, StartTypes DEF TypeOK, CreateStarts
    <2>3. creating' = None /\ faults' \in Nat
      BY <1>2 DEF TypeOK, CreateStarts, Fault
    <2> QED
      BY <1>2, <2>2, <2>3 DEF TypeOK, CreateStarts
  <1>3. CASE BuildChecks(n) \/ PatchChecks(n)
    BY <1>3 DEF TypeOK, BuildChecks, PatchChecks, DemoAccepted, temporal
  <1>4. CASE DemoLands(n)
    BY <1>4 DEF TypeOK, DemoLands, Put, Files, temporal, counts
  <1>5. CASE PhaseReads(n)
    <2>1. left' \in [Names -> [Clocks -> 0..TTL]]
      BY <1>5 DEF TypeOK, PhaseReads, Clocks
    <2> QED
      BY <1>5, <2>1 DEF TypeOK, PhaseReads, temporal
  <1>6. CASE PhaseWrites(n)
    <2>1. left' \in [Names -> [Clocks -> 0..TTL]]
      BY <1>6 DEF TypeOK, PhaseWrites, Clocks
    <2> QED
      BY <1>6, <2>1 DEF TypeOK, PhaseWrites, Put, Files, temporal, counts
  <1> QED
    BY <1>1, <1>2, <1>3, <1>4, <1>5, <1>6

\* The end of a pass leaves its run and the sweep in step with it.
LEMMA ConcludeTypes ==
    ASSUME TypeOK, NEW d \in Deleters, del[d].pc # "off", NEW ok \in BOOLEAN, Conclude(d, ok)
    PROVE  /\ del' \in [Deleters -> Passes] /\ sweep' \in Sweeps
           /\ run' \in [Names -> {"none", "sleep", "delete"}]
           /\ misses' \in [Names -> Nat]
           /\ sweep'.at \in Names <=> sweep'.pc \in {"start", "remove"}
           /\ del'[Sweeper].pc # "off" <=> sweep'.pc = "remove"
           /\ \A n \in Names : del'[n].pc # "off" <=> run'[n] = "delete"
  <1>1. CASE d = Sweeper
    <2>1. /\ del' = [del EXCEPT ![d] = NoPass]
          /\ misses' = IF ok THEN [misses EXCEPT ![sweep.at] = 0] ELSE misses
          /\ sweep' = [sweep EXCEPT !.pc = "visit", !.at = None, !.failed = @ \/ ~ ok]
          /\ UNCHANGED run
      BY <1>1 DEF Conclude
    <2>2. sweep' \in Sweeps /\ sweep'.pc = "visit" /\ sweep'.at = None
      BY <2>1 DEF TypeOK, Sweeps
    <2>3. misses' \in [Names -> Nat]
      BY <2>1 DEF TypeOK
    <2> QED
      BY <1>1, <2>1, <2>2, <2>3, Dummies DEF TypeOK, Passes, Deleters
  <1>2. CASE d # Sweeper
    <2>1. /\ del' = [del EXCEPT ![d] = IF ok THEN NoPass ELSE NewPass]
          /\ run' = [run EXCEPT ![d] = IF ok THEN "none" ELSE "delete"]
          /\ UNCHANGED <<misses, sweep>>
      BY <1>2 DEF Conclude
    <2>2. d \in Names
      BY <1>2 DEF Deleters
    <2> QED
      BY <1>2, <2>1, <2>2, Dummies DEF TypeOK, Passes, Sweeps, Deleters
  <1> QED
    BY <1>1, <1>2

\* A delete pass keeps the types.
LEMMA PassTypes ==
    ASSUME TypeOK, NEW d \in Deleters, Pass(d)
    PROVE  TypeOK'
  <1>1. CASE ListDir(d)
    <2>1. Target(d) \in Names
      <3>1. del[d].pc # "off"
        BY <1>1 DEF ListDir
      <3> QED
        BY <3>1 DEF TypeOK, Target, Deleters
    <2>2. /\ del' = [del EXCEPT ![d].pc = "delete", ![d].todo = files[Target(d)]]
          /\ del[d].pc = "list"
          /\ UNCHANGED <<files, left, run, sweep, misses, requests, counts, tally>>
      BY <1>1 DEF ListDir
    <2>3. del' \in [Deleters -> Passes] /\ \A e \in Deleters : del'[e].pc = "off" <=> del[e].pc = "off"
      BY <2>1, <2>2, ZenonT(60) DEF TypeOK, Passes
    <2> QED
      BY <2>2, <2>3, ZenonT(60) DEF TypeOK, Passes, Deleters, requests, counts
  <1>2. CASE ListDirFails(d)
    <2>1. del[d].pc # "off" /\ Conclude(d, FALSE)
      BY <1>2 DEF ListDirFails
    <2>2. faults' \in Nat
      BY <1>2 DEF ListDirFails, Fault, TypeOK
    <2> QED
      BY <1>2, <2>1, <2>2, ConcludeTypes DEF TypeOK, ListDirFails, Passes, Sweeps, requests
  <1>3. ASSUME NEW f \in Files, DeleteFile(d, f) \/ DeleteFileFails(d, f) PROVE TypeOK'
    <2>1. PICK ok \in BOOLEAN : Deleted(d, f, ok)
      <3>1. CASE DeleteFile(d, f)
        <4>1. (f \in files[Target(d)]) \in BOOLEAN /\ Deleted(d, f, f \in files[Target(d)])
          BY <3>1 DEF DeleteFile
        <4> QED
          BY <4>1
      <3>2. CASE DeleteFileFails(d, f)
        BY <3>2 DEF DeleteFileFails
      <3> QED
        BY <1>3, <3>1, <3>2
    <2>2. del' = [del EXCEPT ![d].todo = @ \ {f}, ![d].ok = @ /\ ok]
      BY <2>1 DEF Deleted
    <2>3. /\ del' \in [Deleters -> Passes]
          /\ \A e \in Deleters : del'[e].pc = del[e].pc
      <3>1. /\ del[d] \in Passes /\ (del[d].ok /\ ok) \in BOOLEAN
            /\ del[d].todo \ {f} \in SUBSET Files
        BY DEF TypeOK, Passes
      <3>2. [del[d] EXCEPT !.todo = @ \ {f}, !.ok = @ /\ ok] \in Passes
        BY <3>1 DEF Passes
      <3> QED
        BY <2>2, <3>2 DEF TypeOK, Passes
    <2>4. files' = files \/ Cut(Target(d), f)
      BY <1>3 DEF DeleteFile, DeleteFileFails
    <2>5. files' \in [Names -> SUBSET Files]
      BY <2>4 DEF Cut, TypeOK
    <2>6. faults' = faults \/ Fault
      BY <1>3 DEF DeleteFile, DeleteFileFails, counts
    <2>7. faults' \in Nat
      BY <2>6 DEF Fault, TypeOK
    <2>8. UNCHANGED <<left, run, sweep, misses, requests, creates, writes, reused,
                      unread, tally>>
      BY <1>3 DEF DeleteFile, DeleteFileFails, counts
    <2> QED
      BY <2>3, <2>5, <2>7, <2>8 DEF TypeOK, Passes, Deleters, requests
  <1>4. CASE EndPass(d)
    <2>1. del[d].pc # "off" /\ Conclude(d, del[d].ok) /\ del[d].ok \in BOOLEAN
      BY <1>4 DEF EndPass, TypeOK
    <2> QED
      BY <1>4, <2>1, ConcludeTypes DEF TypeOK, EndPass, Passes, Sweeps, requests, counts
  <1> QED
    BY <1>1, <1>2, <1>3, <1>4 DEF Pass

\* A run that wakes starts its pass.
LEMMA WakeTypes ==
    ASSUME TypeOK, NEW n \in Names, RunWakes(n)
    PROVE  TypeOK'
  <1>1. /\ run' = [run EXCEPT ![n] = "delete"]
        /\ del' = [del EXCEPT ![n] = NewPass]
        /\ UNCHANGED <<files, left, sweep, misses, requests, counts, tally>>
    BY DEF RunWakes
  <1> QED
    BY <1>1, Dummies DEF TypeOK, Passes, Deleters, requests, counts

\* An attempt at a sweep ends as no sweep or as the next attempt.
LEMMA EndTypes ==
    ASSUME TypeOK, NEW failed \in BOOLEAN, EndAttempt(failed)
    PROVE  sweep' \in Sweeps /\ sweep'.pc \in {"off", "list"} /\ sweep'.at = None
  <1>1. CASE failed /\ sweep.attempt < SweepAttempts
    <2>1. sweep.attempt + 1 \in 0..SweepAttempts
      BY <1>1, NumberAssumption DEF TypeOK
    <2>2. sweep' = [NoSweep EXCEPT !.pc = "list", !.attempt = sweep.attempt + 1]
      BY <1>1 DEF EndAttempt
    <2> QED
      BY <2>1, <2>2, Dummies DEF Sweeps
  <1>2. CASE ~ (failed /\ sweep.attempt < SweepAttempts)
    BY <1>2, Dummies DEF EndAttempt
  <1> QED
    BY <1>1, <1>2

\* A step of the sweep that deletes nothing keeps the types.
LEMMA SweepTypes ==
    ASSUME TypeOK, Sweep
    PROVE  TypeOK'
  <1>1. CASE StartSweep
    <2>1. sweep' = [NoSweep EXCEPT !.pc = "list", !.attempt = 1] /\ sweep.pc = "off"
      BY <1>1 DEF StartSweep
    <2>2. sweep' \in Sweeps /\ sweep'.pc = "list" /\ sweep'.at = None
      <3>1. 1 \in 0..SweepAttempts
        BY NumberAssumption
      <3> QED
        BY <2>1, <3>1, Dummies DEF Sweeps
    <2> QED
      BY <1>1, <2>1, <2>2, Dummies DEF TypeOK, Sweeps, StartSweep, temporal, requests, counts
  <1>2. CASE SweepList
    <2>1. /\ sweep' = [sweep EXCEPT !.pc = "visit", !.todo = {n \in Names : files[n] # {}}]
          /\ sweep.pc = "list"
      BY <1>2 DEF SweepList
    <2>2. sweep' \in Sweeps /\ sweep'.pc = "visit" /\ sweep'.at = sweep.at
      BY <2>1 DEF Sweeps, TypeOK
    <2> QED
      BY <1>2, <2>1, <2>2 DEF TypeOK, Sweeps, SweepList, temporal, requests, counts
  <1>3. CASE SweepListFails
    <2>1. sweep' \in Sweeps /\ sweep'.pc \in {"off", "list"} /\ sweep'.at = None
      BY <1>3, EndTypes DEF SweepListFails
    <2>2. faults' \in Nat /\ sweep.pc = "list"
      BY <1>3 DEF SweepListFails, Fault, TypeOK
    <2> QED
      BY <1>3, <2>1, <2>2, Dummies DEF TypeOK, Sweeps, SweepListFails, temporal, requests
  <1>4. ASSUME NEW n \in Names, SweepReads(n) PROVE TypeOK'
    <2>1. /\ sweep' = [sweep EXCEPT !.pc = "start", !.at = n, !.todo = @ \ {n}]
          /\ sweep.pc = "visit"
      BY <1>4 DEF SweepReads
    <2>2. sweep' \in Sweeps /\ sweep'.pc = "start" /\ sweep'.at = n
      BY <2>1 DEF Sweeps, TypeOK
    <2>3. left' \in [Names -> [Clocks -> 0..TTL]]
      BY <1>4 DEF TypeOK, SweepReads, Clocks
    <2>4. misses' \in [Names -> Nat]
      BY <1>4 DEF TypeOK, SweepReads
    <2> QED
      BY <1>4, <2>1, <2>2, <2>3, <2>4 DEF TypeOK, Sweeps, SweepReads, temporal, requests, counts
  <1>5. ASSUME NEW n \in Names, SweepMisses(n) PROVE TypeOK'
    <2>1. /\ misses' \in [Names -> Nat]
          /\ faults' \in Nat /\ unread' \in Nat
          /\ sweep.pc = "visit" /\ del[Sweeper].pc = "off"
      BY <1>5 DEF TypeOK, SweepMisses, Fault
    <2>2. UNCHANGED <<files, left, run, requests, creates, writes, reused, tally>>
      BY <1>5 DEF SweepMisses
    <2>3. CASE misses[n] + 1 >= StaleThreshold
      <3>1. /\ sweep' = [sweep EXCEPT !.pc = "remove", !.at = n, !.todo = @ \ {n}]
            /\ del' = [del EXCEPT ![Sweeper] = NewPass]
        BY <1>5, <2>3 DEF SweepMisses
      <3>2. sweep' \in Sweeps /\ sweep'.pc = "remove" /\ sweep'.at = n
        BY <3>1 DEF Sweeps, TypeOK
      <3>3. /\ del' \in [Deleters -> Passes] /\ del'[Sweeper].pc # "off"
            /\ \A m \in Names : del'[m] = del[m]
        BY <3>1, Dummies DEF Passes, TypeOK, Deleters
      <3> QED
        BY <2>1, <2>2, <3>2, <3>3 DEF TypeOK, Sweeps, Passes, requests
    <2>4. CASE ~ (misses[n] + 1 >= StaleThreshold)
      <3>1. sweep' = [sweep EXCEPT !.todo = @ \ {n}] /\ UNCHANGED del
        BY <1>5, <2>4 DEF SweepMisses
      <3>2. sweep' \in Sweeps /\ sweep'.pc = "visit" /\ sweep'.at = sweep.at
        BY <2>1, <3>1 DEF Sweeps, TypeOK
      <3> QED
        BY <2>1, <2>2, <3>1, <3>2 DEF TypeOK, Sweeps, requests
    <2> QED
      BY <2>3, <2>4
  <1>6. ASSUME NEW n \in Names, SweepStarts(n) PROVE TypeOK'
    <2>1. /\ sweep.pc = "start"
          /\ sweep' \in {[sweep EXCEPT !.pc = "visit", !.at = None],
                         [sweep EXCEPT !.pc = "visit", !.at = None, !.failed = TRUE]}
      BY <1>6 DEF SweepStarts
    <2>2. sweep' \in Sweeps /\ sweep'.pc = "visit" /\ sweep'.at = None
      BY <2>1 DEF Sweeps, TypeOK
    <2>3. left[n].sweep \in 0..TTL
      BY DEF TypeOK, Clocks
    <2>4. /\ run' \in [Names -> {"none", "sleep", "delete"}]
          /\ left' \in [Names -> [Clocks -> 0..TTL]]
          /\ \A m \in Names : run'[m] = "delete" <=> run[m] = "delete"
      BY <1>6, <2>3, StartTypes DEF TypeOK, SweepStarts
    <2>5. faults' \in Nat
      BY <1>6 DEF SweepStarts, Fault, TypeOK
    <2> QED
      BY <1>6, <2>1, <2>2, <2>4, <2>5, Dummies DEF TypeOK, Sweeps, SweepStarts, requests
  <1>7. CASE SweepEnds
    <2>1. sweep' \in Sweeps /\ sweep'.pc \in {"off", "list"} /\ sweep'.at = None
      BY <1>7, EndTypes DEF SweepEnds, TypeOK
    <2>2. sweep.pc = "visit"
      BY <1>7 DEF SweepEnds
    <2> QED
      BY <1>7, <2>1, <2>2, Dummies DEF TypeOK, Sweeps, SweepEnds, temporal, requests, counts
  <1> QED
    BY <1>1, <1>2, <1>3, <1>4, <1>5, <1>6, <1>7 DEF Sweep

\* So does a restart.
LEMMA RestartTypes ==
    ASSUME TypeOK, Restart
    PROVE  TypeOK'
  <1>1. /\ del' \in [Deleters -> Passes] /\ del'[Sweeper].pc = "off"
        /\ \A n \in Names : del'[n].pc # "off" <=> run[n] = "delete"
    BY Dummies DEF Restart, Passes, Deleters
  <1>2. sweep' \in Sweeps /\ sweep'.pc \in {"off", "list"} /\ sweep'.at = None
    <2>1. CASE sweep.pc = "off"
      BY <2>1 DEF Restart, TypeOK, Sweeps
    <2>2. CASE sweep.pc # "off"
      BY <2>2, EndTypes DEF Restart
    <2> QED
      BY <2>1, <2>2
  <1>3. /\ misses' \in [Names -> Nat] /\ tally' \in [Names -> Nat]
        /\ faults' \in Nat /\ creating' = None /\ builds' = {} /\ phases' = {}
    BY DEF Restart, Fault, TypeOK
  <1>4. UNCHANGED <<files, left, run, creates, writes, reused, unread>>
    BY DEF Restart
  <1> QED
    BY <1>1, <1>2, <1>3, <1>4, Dummies DEF TypeOK, Passes, Sweeps

\* At first nothing is there.
LEMMA InitTypes == Init => TypeOK
  <1> SUFFICES ASSUME Init PROVE TypeOK
    OBVIOUS
  <1>1. sweep \in Sweeps /\ sweep.pc = "off" /\ sweep.at = None
    BY Dummies DEF Init
  <1>2. /\ del \in [Deleters -> Passes]
        /\ \A d \in Deleters : del[d].pc = "off"
    BY Dummies DEF Init
  <1>3. left \in [Names -> [Clocks -> 0..TTL]]
    BY NumberAssumption DEF Init
  <1> QED
    BY <1>1, <1>2, <1>3, Dummies DEF Init, TypeOK, Sweeps, Passes, Deleters

\* No step breaks the types.
LEMMA NextTypes == TypeOK /\ [Next]_vars => TypeOK'
  <1> SUFFICES ASSUME TypeOK, [Next]_vars PROVE TypeOK'
    OBVIOUS
  <1>1. ASSUME NEW n \in Names,
               \/ Create(n) \/ BuildChecks(n) \/ PatchChecks(n) \/ PhaseReads(n)
               \/ Request(n)
        PROVE  TypeOK'
    BY <1>1, WriteTypes DEF Request
  <1>2. ASSUME NEW n \in Names, RunWakes(n) PROVE TypeOK'
    BY <1>2, WakeTypes
  <1>3. ASSUME NEW d \in Deleters, Pass(d) PROVE TypeOK'
    BY <1>3, PassTypes
  <1>4. CASE Sweep
    BY <1>4, SweepTypes
  <1>5. CASE Restart
    BY <1>5, RestartTypes
  <1>6. CASE Tick
    BY <1>6, TickTypes
  <1>7. CASE UNCHANGED vars
    BY <1>7 DEF TypeOK, vars, temporal, requests, counts
  <1> QED
    BY <1>1, <1>2, <1>3, <1>4, <1>5, <1>6, <1>7 DEF Next

\* GuestCleanup!TypeOK: above all, a pass is under way exactly while its run or the
\* sweep is deleting (SandboxCleanupWorkflow, SweepGuests, deleteGuestWorkspaceFiles).
THEOREM TypeCorrect == Spec => []TypeOK
  <1> QED
    BY InitTypes, NextTypes, PTL DEF Spec, Safety

------------------------------------------------------------------------------
(* Nothing goes before its time.  By itself NoEarlyCleanup does not survive a *)
(* step: whether a pass may delete was settled when its run was started, by a *)
(* deadline somebody had read before.  Safe follows each of these copies.     *)

\* What NoEarlyCleanup excuses.
Excused(n) == n \in reused \/ unread >= StaleThreshold

\* The sweep removes what was missed often enough.
Counted == sweep.pc = "remove" => misses[sweep.at] >= StaleThreshold

\* While the sandbox has time left it has its guest.yaml, no run deletes it, and every
\* miss counted against it was a failed read; and no copy of its deadline, in a run,
\* a create, the sweep or a phase record, ends before the deadline itself.
Safe(n) ==
    /\ left[n].file > 0 => Held(n) /\ run[n] # "delete" /\ misses[n] <= unread
    /\ run[n] = "sleep" => left[n].file <= left[n].run
    /\ creating = n => left[n].file <= left[n].create
    /\ sweep.pc = "start" /\ sweep.at = n => left[n].file <= left[n].sweep
    /\ n \in phases => left[n].phase = left[n].file

IInv == TypeOK /\ Counted /\ \A n \in Names : Excused(n) \/ Safe(n)

\* A deadline is a number of ticks.
LEMMA Deadlines ==
    ASSUME TypeOK, NEW n \in Names, NEW k \in Clocks
    PROVE  left[n][k] \in Nat
  BY NumberAssumption DEF TypeOK

\* An excuse is for good.
LEMMA ExcusedStays ==
    ASSUME TypeOK, [Next]_vars, NEW n \in Names, Excused(n)
    PROVE  Excused(n)'
  <1>1. reused \subseteq reused' /\ (unread' = unread \/ unread' = unread + 1)
    <2>1. ASSUME NEW m \in Names, Create(m) PROVE reused \subseteq reused' /\ unread' = unread
      BY <2>1 DEF Create
    <2>2. ASSUME NEW m \in Names, SweepMisses(m)
          PROVE  reused' = reused /\ unread' \in {unread, unread + 1}
      BY <2>2 DEF SweepMisses
    <2>3. ASSUME NEW m \in Names,
                 \/ BuildChecks(m) \/ PatchChecks(m) \/ PhaseReads(m) \/ Request(m)
                 \/ RunWakes(m) \/ SweepReads(m) \/ SweepStarts(m)
          PROVE  UNCHANGED <<reused, unread>>
      BY <2>3 DEF BuildChecks, PatchChecks, DemoAccepted, PhaseReads, Request, CreateStarts,
                  DemoLands, PhaseWrites, RunWakes, SweepReads, SweepStarts, counts
    <2>4. ASSUME NEW d \in Deleters, Pass(d) PROVE UNCHANGED <<reused, unread>>
      BY <2>4 DEF Pass, ListDir, ListDirFails, DeleteFile, DeleteFileFails, EndPass, counts
    <2>5. CASE StartSweep \/ SweepList \/ SweepListFails \/ SweepEnds \/ Restart \/ Tick
      BY <2>5 DEF StartSweep, SweepList, SweepListFails, SweepEnds, Restart, Tick, counts
    <2>6. CASE UNCHANGED vars
      BY <2>6 DEF vars, counts
    <2> QED
      BY <2>1, <2>2, <2>3, <2>4, <2>5, <2>6 DEF Next, Sweep
  <1>2. unread \in Nat /\ StaleThreshold \in Nat
    BY NumberAssumption DEF TypeOK
  <1> QED
    BY <1>1, <1>2 DEF Excused

\* All deadlines come nearer together, and none passes zero.
LEMMA TickSafe ==
    ASSUME TypeOK, Tick, NEW n \in Names, Safe(n)
    PROVE  Safe(n)'
  <1>1. ASSUME NEW k \in Clocks
        PROVE  left'[n][k] = IF left[n][k] > 0 THEN left[n][k] - 1 ELSE 0
    BY DEF Tick
  <1>2. /\ left[n].file \in Nat /\ left[n].run \in Nat /\ left[n].create \in Nat
        /\ left[n].sweep \in Nat /\ left[n].phase \in Nat
    BY Deadlines DEF Clocks
  <1>3. UNCHANGED <<files, run, misses, unread, creating, sweep, phases>>
    BY DEF Tick, temporal, requests, counts
  <1> QED
    BY <1>1, <1>2, <1>3 DEF Safe, Held, Clocks

\* A run is started with a copy of the deadline that has not ended before it.
LEMMA StartSafe ==
    ASSUME TypeOK, NEW m \in Names, NEW ticks \in 0..TTL, StartCleanup(m, ticks),
           left[m].file <= ticks,
           NEW n \in Names, Safe(n)
    PROVE  /\ run'[n] = "delete" <=> run[n] = "delete"
           /\ \A k \in Clocks \ {"run"} : left'[n][k] = left[n][k]
           /\ run'[n] = "sleep" => left'[n].file <= left'[n].run
  <1>1. CASE run[m] = "none"
    <2>1. run' = [run EXCEPT ![m] = "sleep"] /\ left' = [left EXCEPT ![m].run = ticks]
      BY <1>1 DEF StartCleanup
    <2> QED
      BY <1>1, <2>1 DEF TypeOK, Clocks, Safe
  <1>2. CASE run[m] # "none"
    BY <1>2 DEF StartCleanup, Safe
  <1> QED
    BY <1>1, <1>2

\* What lands in a sandbox leaves it Safe, or takes its name again too soon.
LEMMA WriteSafe ==
    ASSUME IInv, NEW m \in Names,
           \/ Create(m) \/ CreateStarts(m) \/ BuildChecks(m) \/ PatchChecks(m)
           \/ DemoLands(m) \/ PhaseReads(m) \/ PhaseWrites(m),
           NEW n \in Names, Safe(n)
    PROVE  Excused(n)' \/ Safe(n)'
  <1> USE DEF IInv
  <1>1. CASE Create(m)
    <2>1. /\ UNCHANGED <<run, del, sweep, misses, phases, unread>>
          /\ files' = [files EXCEPT ![m] = @ \cup {"namespace", "guest"}]
          /\ creating = None /\ None \notin Names
      BY <1>1, NameAssumption DEF Create, Put, temporal
    <2>2. CASE n = m
      <3>1. CASE Busy(m)
        BY <1>1, <2>2, <3>1 DEF Create, Excused
      <3>2. CASE ~ Busy(m)
        <4>1. /\ run'[n] = "none" /\ sweep'.at # n /\ n \notin phases'
              /\ misses'[n] = 0 /\ unread' \in Nat
          BY <2>1, <2>2, <3>2 DEF Busy, TypeOK
        <4>2. Held(n)'
          BY <2>1, <2>2 DEF Held, TypeOK
        <4>3. creating' = n => left'[n].file = TTL /\ left'[n].create = TTL
          BY <1>1, <2>1, <2>2 DEF Create, TypeOK, Clocks
        <4> QED
          BY <4>1, <4>2, <4>3, NumberAssumption DEF Safe
      <3> QED
        BY <3>1, <3>2
    <2>3. CASE n # m
      <3>1. left'[n] = left[n] /\ files'[n] = files[n] /\ creating' # n
        BY <1>1, <2>1, <2>3 DEF Create, TypeOK
      <3> QED
        BY <2>1, <3>1 DEF Safe, Held
    <2> QED
      BY <2>2, <2>3
  <1>2. CASE CreateStarts(m)
    <2>1. /\ creating = m /\ creating' = None /\ None \notin Names
          /\ UNCHANGED <<files, sweep, misses, phases, unread>>
      BY <1>2, NameAssumption DEF CreateStarts
    <2>2. CASE StartCleanup(m, left[m].create)
      <3>1. CASE n = m
        <4>1. left[m].create \in 0..TTL /\ left[m].file <= left[m].create
          BY <2>1, <3>1 DEF TypeOK, Clocks, Safe
        <4> QED
          BY <2>1, <2>2, <4>1, StartSafe DEF Safe, Held, Clocks
      <3>2. CASE n # m
        <4>1. run'[n] = run[n] /\ left'[n] = left[n]
          BY <2>2, <3>2 DEF StartCleanup, TypeOK
        <4> QED
          BY <2>1, <4>1 DEF Safe, Held
      <3> QED
        BY <3>1, <3>2
    <2>3. CASE UNCHANGED <<run, left>>
      BY <2>1, <2>3 DEF Safe, Held
    <2> QED
      BY <1>2, <2>2, <2>3 DEF CreateStarts
  <1>3. CASE BuildChecks(m) \/ PatchChecks(m)
    BY <1>3 DEF BuildChecks, PatchChecks, DemoAccepted, temporal, Safe, Held
  <1>4. CASE DemoLands(m)
    <2>1. files'[n] \in {files[n], files[n] \cup {"demo"}}
      BY <1>4 DEF DemoLands, Put, TypeOK
    <2> QED
      BY <1>4, <2>1 DEF DemoLands, temporal, counts, Safe, Held
  <1>5. CASE PhaseReads(m)
    <2>1. /\ \A k \in Clocks \ {"phase"} : left'[n][k] = left[n][k]
          /\ n \in phases' => \/ n = m /\ left'[n].phase = left[n].file
                              \/ n # m /\ n \in phases /\ left'[n].phase = left[n].phase
      BY <1>5 DEF PhaseReads, TypeOK, Clocks
    <2> QED
      BY <1>5, <2>1 DEF PhaseReads, temporal, Safe, Held, Clocks
  <1>6. CASE PhaseWrites(m)
    <2>1. CASE n = m
      <3>1. left' = left
        <4>1. left' = [left EXCEPT ![n].file = left[n].file]
          BY <1>6, <2>1 DEF PhaseWrites, Safe
        <4> QED
          BY <4>1 DEF TypeOK
      <3>2. Held(n)' /\ phases' \subseteq phases
        BY <1>6, <2>1 DEF PhaseWrites, Put, Held, TypeOK
      <3> QED
        BY <1>6, <3>1, <3>2 DEF PhaseWrites, temporal, counts, Safe
    <2>2. CASE n # m
      <3>1. left'[n] = left[n] /\ files'[n] = files[n] /\ phases' \subseteq phases
        BY <1>6, <2>2 DEF PhaseWrites, Put, TypeOK
      <3> QED
        BY <1>6, <3>1 DEF PhaseWrites, temporal, counts, Safe, Held
    <2> QED
      BY <2>1, <2>2
  <1> QED
    BY <1>1, <1>2, <1>3, <1>4, <1>5, <1>6

\* A pass that may delete files of a sandbox finds it expired, or excused.
LEMMA PassIsLate ==
    ASSUME IInv, NEW d \in Deleters, del[d].pc # "off", Safe(Target(d))
    PROVE  /\ Target(d) \in Names
           /\ left[Target(d)].file > 0 => Excused(Target(d))
  <1>1. CASE d = Sweeper
    <2>1. /\ sweep.pc = "remove" /\ Target(d) = sweep.at /\ sweep.at \in Names
          /\ misses[sweep.at] >= StaleThreshold
      BY <1>1 DEF IInv, TypeOK, Counted, Target
    <2>2. misses[sweep.at] \in Nat /\ unread \in Nat /\ StaleThreshold \in Nat
      BY <2>1, NumberAssumption DEF IInv, TypeOK
    <2> QED
      BY <2>1, <2>2 DEF Safe, Excused
  <1>2. CASE d # Sweeper
    <2>1. Target(d) = d /\ d \in Names /\ run[d] = "delete"
      BY <1>2 DEF IInv, TypeOK, Target, Deleters
    <2> QED
      BY <2>1 DEF Safe
  <1> QED
    BY <1>1, <1>2

\* So a pass leaves every sandbox Safe.
LEMMA PassSafe ==
    ASSUME IInv, NEW d \in Deleters, Pass(d), NEW n \in Names, Safe(n), ~ Excused(n)
    PROVE  Safe(n)'
  <1> USE DEF IInv
  <1>1. del[d].pc # "off" /\ UNCHANGED <<left, creating, phases, unread>>
    BY DEF Pass, ListDir, ListDirFails, DeleteFile, DeleteFileFails, EndPass, requests, counts
  <1>2. files'[n] = files[n] \/ left[n].file = 0
    <2>1. ASSUME NEW f \in Files, DeleteFile(d, f) \/ DeleteFileFails(d, f), Target(d) = n
          PROVE  left[n].file = 0
      <3>1. ~ (left[n].file > 0)
        BY <1>1, <2>1, PassIsLate
      <3> QED
        BY <3>1, Deadlines DEF Clocks
    <2>2. ASSUME NEW f \in Files, DeleteFile(d, f) \/ DeleteFileFails(d, f), Target(d) # n
          PROVE  files'[n] = files[n]
      BY <2>2 DEF DeleteFile, DeleteFileFails, Cut, TypeOK
    <2>3. CASE ListDir(d) \/ ListDirFails(d) \/ EndPass(d)
      BY <2>3 DEF ListDir, ListDirFails, EndPass
    <2> QED
      BY <2>1, <2>2, <2>3 DEF Pass
  <1>3. CASE UNCHANGED <<run, sweep, misses>>
    BY <1>1, <1>2, <1>3 DEF Safe, Held
  <1>4. ASSUME NEW ok \in BOOLEAN, Conclude(d, ok) PROVE Safe(n)'
    <2>1. CASE d = Sweeper
      <3>1. /\ run' = run /\ sweep'.pc = "visit"
            /\ misses'[n] = misses[n] \/ misses'[n] = 0
        BY <1>4, <2>1 DEF Conclude, TypeOK
      <3>2. misses[n] \in Nat /\ unread \in Nat
        BY DEF TypeOK
      <3> QED
        BY <1>1, <1>2, <3>1, <3>2 DEF Safe, Held
    <2>2. CASE d # Sweeper
      <3>1. d \in Names /\ run[d] = "delete"
        BY <1>1, <2>2 DEF Deleters, TypeOK
      <3>2. /\ UNCHANGED <<misses, sweep>>
            /\ run'[n] = run[n] \/ (run'[n] \in {"none", "delete"} /\ run[n] = "delete")
        BY <1>4, <2>2, <3>1 DEF Conclude, TypeOK
      <3> QED
        BY <1>1, <1>2, <3>2 DEF Safe, Held
    <2> QED
      BY <2>1, <2>2
  <1>5. CASE ListDir(d) \/ \E f \in Files : DeleteFile(d, f) \/ DeleteFileFails(d, f)
    BY <1>3, <1>5 DEF ListDir, DeleteFile, DeleteFileFails
  <1>6. CASE ListDirFails(d)
    BY <1>4, <1>6 DEF ListDirFails
  <1>7. CASE EndPass(d)
    BY <1>4, <1>7 DEF EndPass, TypeOK
  <1> QED
    BY <1>5, <1>6, <1>7 DEF Pass

\* A run that wakes has slept until the sandbox was over.
LEMMA WakeSafe ==
    ASSUME IInv, NEW m \in Names, RunWakes(m), NEW n \in Names, Safe(n)
    PROVE  Safe(n)'
  <1>1. UNCHANGED <<files, left, sweep, misses, creating, phases, unread>>
    BY DEF RunWakes, requests, counts
  <1>2. run'[n] = run[n] \/ (run'[n] = "delete" /\ ~ (left[n].file > 0))
    <2>1. CASE n = m
      <3>1. left[n].run = 0 /\ left[n].file <= left[n].run /\ left[n].file \in Nat
        BY <2>1, Deadlines DEF IInv, RunWakes, Safe, Clocks
      <3>2. run'[n] = "delete"
        BY <2>1 DEF IInv, TypeOK, RunWakes
      <3> QED
        BY <3>1, <3>2
    <2>2. CASE n # m
      BY <2>2 DEF IInv, TypeOK, RunWakes
    <2> QED
      BY <2>1, <2>2
  <1> QED
    BY <1>1, <1>2 DEF Safe, Held

\* The sweep copies the deadline it reads, and counts a miss against a sandbox with
\* time left only as a failed read.
LEMMA SweepSafe ==
    ASSUME IInv, Sweep, NEW n \in Names, Safe(n)
    PROVE  Safe(n)'
  <1> USE DEF IInv
  <1>1. CASE StartSweep \/ SweepList \/ SweepListFails \/ SweepEnds
    <2>1. sweep'.pc # "start"
      <3>1. CASE StartSweep
        BY <3>1, SweepTypes, Dummies DEF StartSweep, NoSweep
      <3>2. CASE SweepList
        BY <3>2 DEF SweepList, TypeOK
      <3>3. CASE SweepListFails \/ SweepEnds
        BY <3>3, EndTypes DEF SweepListFails, SweepEnds, TypeOK
      <3> QED
        BY <1>1, <3>1, <3>2, <3>3
    <2>2. UNCHANGED <<files, left, run, misses, creating, phases, unread>>
      BY <1>1 DEF StartSweep, SweepList, SweepListFails, SweepEnds, temporal, requests, counts
    <2> QED
      BY <2>1, <2>2 DEF Safe, Held
  <1>2. ASSUME NEW m \in Names, SweepReads(m) PROVE Safe(n)'
    <2>1. /\ misses'[n] = misses[n] \/ misses'[n] = 0
          /\ UNCHANGED <<files, run, creating, phases, unread>>
      BY <1>2 DEF SweepReads, TypeOK, temporal, requests, counts
    <2>2. /\ \A k \in Clocks \ {"sweep"} : left'[n][k] = left[n][k]
          /\ sweep'.at = n => left'[n].sweep = left[n].file
      BY <1>2 DEF SweepReads, TypeOK, Clocks
    <2>3. misses[n] \in Nat /\ unread \in Nat /\ left[n].file \in Nat
      BY Deadlines DEF TypeOK, Clocks
    <2> QED
      BY <2>1, <2>2, <2>3 DEF Safe, Held, Clocks
  <1>3. ASSUME NEW m \in Names, SweepMisses(m) PROVE Safe(n)'
    <2>1. /\ UNCHANGED <<files, left, run, creating, phases>>
          /\ sweep'.pc # "start"
      BY <1>3 DEF SweepMisses, TypeOK, requests
    <2>2. left[n].file > 0 => misses'[n] <= unread'
      <3>1. misses[n] \in Nat /\ unread \in Nat
        BY DEF TypeOK
      <3>2. /\ misses' = [misses EXCEPT ![m] = @ + 1]
            /\ unread' = IF Held(m) THEN unread + 1 ELSE unread
        BY <1>3 DEF SweepMisses
      <3>3. CASE n = m
        BY <3>1, <3>2, <3>3 DEF Safe, TypeOK
      <3>4. CASE n # m
        BY <3>1, <3>2, <3>4 DEF Safe, TypeOK
      <3> QED
        BY <3>3, <3>4
    <2> QED
      BY <2>1, <2>2 DEF Safe, Held
  <1>4. ASSUME NEW m \in Names, SweepStarts(m) PROVE Safe(n)'
    <2>1. /\ UNCHANGED <<files, misses, creating, phases, unread>>
          /\ sweep.pc = "start" /\ sweep.at = m /\ sweep'.pc = "visit"
      BY <1>4 DEF SweepStarts, TypeOK, requests
    <2>2. CASE StartCleanup(m, left[m].sweep)
      <3>1. CASE n = m
        <4>1. left[m].sweep \in 0..TTL /\ left[m].file <= left[m].sweep
          BY <2>1, <3>1 DEF TypeOK, Clocks, Safe
        <4> QED
          BY <2>1, <2>2, <4>1, StartSafe DEF Safe, Held, Clocks
      <3>2. CASE n # m
        <4>1. run'[n] = run[n] /\ left'[n] = left[n]
          BY <2>2, <3>2 DEF StartCleanup, TypeOK
        <4> QED
          BY <2>1, <4>1 DEF Safe, Held
      <3> QED
        BY <3>1, <3>2
    <2>3. CASE UNCHANGED <<run, left>>
      BY <2>1, <2>3 DEF Safe, Held
    <2> QED
      BY <1>4, <2>2, <2>3 DEF SweepStarts
  <1> QED
    BY <1>1, <1>2, <1>3, <1>4 DEF Sweep

\* A restart forgets misses, creates and records; the runs and their timers stay.
LEMMA RestartSafe ==
    ASSUME IInv, Restart, NEW n \in Names, Safe(n)
    PROVE  Safe(n)'
  <1>1. /\ UNCHANGED <<files, left, run, unread>>
        /\ misses'[n] = 0 /\ creating' = None /\ phases' = {}
    BY DEF Restart
  <1>2. sweep'.pc # "start"
    <2>1. CASE sweep.pc = "off"
      BY <2>1 DEF Restart
    <2>2. CASE sweep.pc # "off"
      BY <2>2, EndTypes DEF IInv, Restart
    <2> QED
      BY <2>1, <2>2
  <1>3. unread \in Nat /\ None \notin Names
    BY NameAssumption DEF IInv, TypeOK
  <1> QED
    BY <1>1, <1>2, <1>3 DEF Safe, Held

\* Only a miss takes the sweep to a removal, and no miss is forgotten in it.
LEMMA CountedStays ==
    ASSUME IInv, [Next]_vars
    PROVE  Counted'
  <1> USE DEF IInv
  <1>1. ASSUME NEW n \in Names, SweepMisses(n) PROVE Counted'
    <2>1. CASE misses[n] + 1 >= StaleThreshold
      <3>1. sweep'.at = n /\ misses'[n] = misses[n] + 1
        BY <1>1, <2>1 DEF SweepMisses, TypeOK
      <3> QED
        BY <2>1, <3>1 DEF Counted
    <2>2. CASE ~ (misses[n] + 1 >= StaleThreshold)
      BY <1>1, <2>2 DEF SweepMisses, TypeOK, Counted
    <2> QED
      BY <2>1, <2>2
  <1>2. ASSUME NEW n \in Names, SweepReads(n) \/ SweepStarts(n) PROVE Counted'
    BY <1>2 DEF SweepReads, SweepStarts, TypeOK, Counted
  <1>3. CASE StartSweep \/ SweepList
    BY <1>3, Dummies DEF StartSweep, SweepList, NoSweep, TypeOK, Counted
  <1>4. CASE SweepListFails \/ SweepEnds
    BY <1>4, EndTypes DEF SweepListFails, SweepEnds, TypeOK, Counted
  <1>5. ASSUME NEW d \in Deleters, Pass(d) PROVE Counted'
    <2>1. CASE UNCHANGED <<sweep, misses>>
      BY <2>1 DEF Counted
    <2>2. ASSUME NEW ok \in BOOLEAN, Conclude(d, ok) PROVE Counted'
      BY <2>2 DEF Conclude, TypeOK, Counted
    <2> QED
      BY <1>5, <2>1, <2>2
      DEF Pass, ListDir, ListDirFails, DeleteFile, DeleteFileFails, EndPass, TypeOK
  <1>6. CASE Restart
    <2>1. CASE sweep.pc = "off"
      BY <1>6, <2>1 DEF Restart, Counted
    <2>2. CASE sweep.pc # "off"
      BY <1>6, <2>2, EndTypes DEF Restart, Counted
    <2> QED
      BY <2>1, <2>2
  <1>7. ASSUME NEW n \in Names,
               \/ Create(n) \/ BuildChecks(n) \/ PatchChecks(n) \/ PhaseReads(n)
               \/ Request(n) \/ RunWakes(n)
        PROVE  UNCHANGED <<sweep, misses>>
    BY <1>7 DEF Create, BuildChecks, PatchChecks, DemoAccepted, PhaseReads, Request,
                CreateStarts, DemoLands, PhaseWrites, RunWakes
  <1>8. CASE Tick \/ UNCHANGED vars
    BY <1>8 DEF Tick, vars, Counted
  <1> QED
    BY <1>1, <1>2, <1>3, <1>4, <1>5, <1>6, <1>7, <1>8 DEF Next, Sweep, Counted

\* Nothing is there, and nothing is excused.
LEMMA InitIInv == Init => IInv
  <1> SUFFICES ASSUME Init PROVE IInv
    OBVIOUS
  <1>1. Counted
    BY Dummies DEF Init, Counted
  <1>2. ASSUME NEW n \in Names PROVE Safe(n)
    <2>1. /\ left[n] = [k \in Clocks |-> 0] /\ run[n] = "none"
          /\ creating # n /\ sweep.at # n /\ phases = {}
      BY Dummies DEF Init
    <2> QED
      BY <2>1 DEF Safe, Clocks
  <1> QED
    BY <1>1, <1>2, InitTypes DEF IInv

\* No step leaves a copy of a deadline behind that ends too soon.
LEMMA NextIInv == IInv /\ [Next]_vars => IInv'
  <1> SUFFICES ASSUME IInv, [Next]_vars PROVE IInv'
    OBVIOUS
  <1>1. TypeOK /\ TypeOK' /\ Counted'
    BY NextTypes, CountedStays DEF IInv
  <1>2. ASSUME NEW n \in Names PROVE Excused(n)' \/ Safe(n)'
    <2>1. CASE Excused(n)
      BY <1>1, <2>1, ExcusedStays
    <2>2. CASE ~ Excused(n)
      <3> SUFFICES ASSUME Safe(n) PROVE Excused(n)' \/ Safe(n)'
        BY <2>2 DEF IInv
      <3>1. ASSUME NEW m \in Names,
                   \/ Create(m) \/ BuildChecks(m) \/ PatchChecks(m) \/ PhaseReads(m)
                   \/ Request(m)
            PROVE  Excused(n)' \/ Safe(n)'
        BY <3>1, WriteSafe DEF Request
      <3>2. ASSUME NEW m \in Names, RunWakes(m) PROVE Safe(n)'
        BY <3>2, WakeSafe
      <3>3. ASSUME NEW d \in Deleters, Pass(d) PROVE Safe(n)'
        BY <2>2, <3>3, PassSafe
      <3>4. CASE Sweep
        BY <3>4, SweepSafe
      <3>5. CASE Restart
        BY <3>5, RestartSafe
      <3>6. CASE Tick
        BY <1>1, <3>6, TickSafe
      <3>7. CASE UNCHANGED vars
        BY <3>7 DEF vars, temporal, requests, counts, Safe, Held
      <3> QED
        BY <3>1, <3>2, <3>3, <3>4, <3>5, <3>6, <3>7 DEF Next
    <2> QED
      BY <2>1, <2>2
  <1> QED
    BY <1>1, <1>2 DEF IInv

\* Every copy of a deadline stays behind the deadline, in every behaviour.
THEOREM Invariance == Spec => []IInv
  <1> QED
    BY InitIInv, NextIInv, PTL DEF Spec, Safety

\* Only a pass takes files from a sandbox, one at a time and its own target's.
LEMMA OnlyPassesDelete ==
    ASSUME TypeOK, Next, NEW n \in Names, NEW g \in files[n], g \notin files'[n]
    PROVE  \E d \in Deleters :
             /\ DeleteFile(d, g) \/ DeleteFileFails(d, g)
             /\ Target(d) = n /\ del[d].pc = "delete"
  <1>1. ASSUME NEW m \in Names, Create(m) \/ DemoLands(m) \/ PhaseWrites(m)
        PROVE  files[n] \subseteq files'[n]
    BY <1>1 DEF TypeOK, Create, DemoLands, PhaseWrites, Put
  <1>2. ASSUME NEW m \in Names,
               \/ BuildChecks(m) \/ PatchChecks(m) \/ PhaseReads(m) \/ CreateStarts(m)
               \/ RunWakes(m)
        PROVE  files' = files
    BY <1>2 DEF BuildChecks, PatchChecks, DemoAccepted, PhaseReads, CreateStarts, RunWakes
  <1>3. Sweep \/ Restart \/ Tick => files' = files
    BY DEF Sweep, StartSweep, SweepList, SweepListFails, SweepReads, SweepMisses,
           SweepStarts, SweepEnds, Restart, Tick
  <1>4. ASSUME NEW d \in Deleters, ListDir(d) \/ ListDirFails(d) \/ EndPass(d)
        PROVE  files' = files
    BY <1>4 DEF ListDir, ListDirFails, EndPass
  <1>5. PICK d \in Deleters, f \in Files : DeleteFile(d, f) \/ DeleteFileFails(d, f)
    BY <1>1, <1>2, <1>3, <1>4 DEF Next, Request, Pass
  <1>6. Cut(Target(d), f) /\ del[d].pc = "delete"
    BY <1>5 DEF DeleteFile, DeleteFileFails
  <1>7. Target(d) = n /\ f = g
    BY <1>6 DEF Cut, TypeOK
  <1> QED
    BY <1>5, <1>6, <1>7

\* GuestCleanup!NoEarlyCleanup: no pass deletes a file of a sandbox that has a guest.yaml
\* and time left (deleteGuestWorkspaceFiles), unless the name was taken again while
\* something of its last life went on, or guest.yaml could not be read
\* staleGuestSweepThreshold times.
THEOREM NothingGoesEarly == Spec => NoEarlyCleanup
  <1>1. ASSUME IInv, Next, NEW n \in Names, Lost(n)
        PROVE  n \in reused \/ unread >= StaleThreshold
    <2>1. left[n].file > 0
      BY <1>1 DEF Lost
    <2>2. PICK d \in Deleters : Target(d) = n /\ del[d].pc = "delete"
      BY <1>1, OnlyPassesDelete DEF IInv, Lost
    <2>3. CASE Safe(n)
      BY <1>1, <2>1, <2>2, <2>3, PassIsLate DEF Excused
    <2> QED
      BY <1>1, <2>3 DEF IInv, Excused
  <1>2. IInv /\ [Next]_vars =>
          [\A n \in Names : Lost(n) => n \in reused \/ unread >= StaleThreshold]_vars
    BY <1>1
  <1> QED
    BY <1>2, Invariance, PTL DEF Spec, Safety, NoEarlyCleanup

------------------------------------------------------------------------------
(* namespace.yaml goes last.  A run and the sweep may both be deleting, each  *)
(* with the list it read: what counts is that neither list lacks a file.      *)

\* No pass over the sandbox has less to do than there are files.
Listed(n) ==
    \A d \in Deleters :
        del[d].pc = "delete" /\ Target(d) = n => files[n] \subseteq del[d].todo

\* Nothing was written and no request has failed.
Quiet == writes = 0 /\ faults = 0

LInv ==
    /\ TypeOK
    /\ writes = 0 => builds = {} /\ phases = {}
    /\ Quiet => \A n \in Names \ reused : Listed(n)

\* Quiet was never otherwise, and without writes nothing is under way that may land.
LEMMA QuietBefore ==
    ASSUME LInv, [Next]_vars
    PROVE  /\ Quiet' => Quiet
           /\ writes' = 0 => writes = 0 /\ builds' = {} /\ phases' = {}
  <1> USE DEF LInv
  <1>1. writes' \in {writes, writes + 1} /\ faults' \in {faults, faults + 1}
    <2>1. ASSUME NEW n \in Names,
                 \/ Create(n) \/ BuildChecks(n) \/ PatchChecks(n) \/ PhaseReads(n)
                 \/ Request(n) \/ RunWakes(n)
          PROVE  writes' \in {writes, writes + 1} /\ faults' \in {faults, faults + 1}
      BY <2>1 DEF Create, BuildChecks, PatchChecks, DemoAccepted, PhaseReads, Request,
                  CreateStarts, DemoLands, PhaseWrites, RunWakes, Fault, counts
    <2>2. ASSUME NEW d \in Deleters, Pass(d)
          PROVE  writes' = writes /\ faults' \in {faults, faults + 1}
      BY <2>2 DEF Pass, ListDir, ListDirFails, DeleteFile, DeleteFileFails, EndPass,
                  Fault, counts
    <2>3. CASE Sweep
      BY <2>3 DEF Sweep, StartSweep, SweepList, SweepListFails, SweepReads, SweepMisses,
                  SweepStarts, SweepEnds, Fault, counts
    <2>4. CASE Restart \/ Tick \/ UNCHANGED vars
      BY <2>4 DEF Restart, Tick, Fault, vars, counts
    <2> QED
      BY <2>1, <2>2, <2>3, <2>4 DEF Next
  <1>2. writes \in Nat /\ faults \in Nat
    BY DEF TypeOK
  <1>3. writes' = 0 => builds' \subseteq builds /\ phases' \subseteq phases
    <2>1. ASSUME NEW n \in Names, BuildChecks(n) \/ PatchChecks(n) \/ PhaseReads(n)
          PROVE  writes' # 0
      BY <1>2, <2>1 DEF BuildChecks, PatchChecks, DemoAccepted, PhaseReads
    <2>2. ASSUME NEW n \in Names, Create(n) \/ Request(n) \/ RunWakes(n)
          PROVE  builds' \subseteq builds /\ phases' \subseteq phases
      BY <2>2 DEF Create, Request, CreateStarts, DemoLands, PhaseWrites, RunWakes, requests
    <2>3. ASSUME NEW d \in Deleters, Pass(d) PROVE UNCHANGED requests
      BY <2>3 DEF Pass, ListDir, ListDirFails, DeleteFile, DeleteFileFails, EndPass
    <2>4. Sweep \/ Tick => UNCHANGED requests
      BY DEF Sweep, StartSweep, SweepList, SweepListFails, SweepReads, SweepMisses,
             SweepStarts, SweepEnds, Tick
    <2>5. CASE Restart \/ UNCHANGED vars
      BY <2>5 DEF Restart, vars, requests
    <2> QED
      BY <2>1, <2>2, <2>3, <2>4, <2>5 DEF Next, requests
  <1> QED
    BY <1>1, <1>2, <1>3 DEF Quiet

\* A pass keeps its list up with the files: whatever it takes from the list is gone,
\* and what another pass takes is missing from the files alone.
LEMMA PassListed ==
    ASSUME LInv, Quiet, Quiet', NEW d \in Deleters, Pass(d), NEW n \in Names, Listed(n)
    PROVE  Listed(n)'
  <1> USE DEF LInv
  <1>1. faults \in Nat /\ faults' = faults
    BY DEF Quiet, TypeOK
  <1>2. CASE ListDir(d)
    <2>1. /\ del' = [del EXCEPT ![d].pc = "delete", ![d].todo = files[Target(d)]]
          /\ UNCHANGED <<files, sweep>>
      BY <1>2 DEF ListDir
    <2>2. \A e \in Deleters : Target(e)' = Target(e)
      BY <2>1 DEF Target
    <2>3. /\ del'[d].todo = files[Target(d)]
          /\ \A e \in Deleters \ {d} : del'[e] = del[e]
      BY <2>1 DEF TypeOK
    <2> QED
      BY <2>1, <2>2, <2>3 DEF Listed
  <1>3. ASSUME NEW f \in Files, DeleteFile(d, f) PROVE Listed(n)'
    <2>1. /\ del[d].pc = "delete"
          /\ files' = [files EXCEPT ![Target(d)] = @ \ {f}]
          /\ del' = [del EXCEPT ![d].todo = @ \ {f},
                                ![d].ok = @ /\ f \in files[Target(d)]]
          /\ UNCHANGED sweep
      BY <1>3 DEF DeleteFile, Cut, Deleted
    <2>2. \A e \in Deleters : Target(e)' = Target(e)
      BY <2>1 DEF Target
    <2>3. /\ del'[d].todo = del[d].todo \ {f}
          /\ \A e \in Deleters \ {d} : del'[e] = del[e]
          /\ files'[n] \subseteq files[n]
          /\ Target(d) = n => files'[n] = files[n] \ {f}
      BY <2>1 DEF TypeOK
    <2> QED
      BY <2>1, <2>2, <2>3 DEF Listed
  <1>4. ~ ListDirFails(d) /\ \A f \in Files : ~ DeleteFileFails(d, f)
    <2>1. ~ Fault
      BY <1>1 DEF Fault
    <2> QED
      BY <2>1 DEF ListDirFails, DeleteFileFails
  <1>5. CASE EndPass(d)
    <2>1. UNCHANGED files /\ Conclude(d, del[d].ok)
      BY <1>5 DEF EndPass
    <2>2. del'[d].pc # "delete" /\ \A e \in Deleters \ {d} : del'[e] = del[e]
      BY <2>1, Dummies DEF Conclude, TypeOK
    <2>3. \A e \in Deleters \ {d} : Target(e)' = Target(e)
      <3>1. CASE d = Sweeper
        BY <3>1 DEF Target
      <3>2. CASE d # Sweeper
        BY <2>1, <3>2 DEF Conclude, Target
      <3> QED
        BY <3>1, <3>2
    <2> QED
      BY <2>1, <2>2, <2>3 DEF Listed
  <1> QED
    BY <1>2, <1>3, <1>4, <1>5 DEF Pass

\* Nothing else adds a file to a sandbox a pass is over, but a create, which then is
\* one too soon.
LEMMA StepListed ==
    ASSUME LInv, [Next]_vars, Quiet', NEW n \in Names, n \notin reused'
    PROVE  Listed(n)'
  <1> USE DEF LInv
  <1>1. Quiet /\ builds = {} /\ phases = {} /\ faults' = faults /\ faults \in Nat
        /\ writes' = writes /\ writes \in Nat
    BY QuietBefore DEF Quiet, TypeOK
  <1>2. n \notin reused => Listed(n)
    BY <1>1
  <1>3. CASE /\ files'[n] = files[n] /\ n \notin reused
             /\ \A d \in Deleters : \/ del'[d] = del[d] /\ Target(d)' = Target(d)
                                    \/ del'[d].pc # "delete"
    BY <1>2, <1>3 DEF Listed
  <1>4. ASSUME NEW m \in Names, Create(m) PROVE Listed(n)'
    <2>1. UNCHANGED <<run, del, sweep>> /\ n \notin reused
      BY <1>4 DEF Create, temporal
    <2>2. CASE n = m
      <3>1. run[n] = "none" /\ sweep.at # n
        BY <1>4, <2>2 DEF Create, Busy
      <3>2. ASSUME NEW d \in Deleters, del[d].pc = "delete" PROVE Target(d) # n
        BY <3>1, <3>2 DEF TypeOK, Target, Deleters
      <3> QED
        BY <2>1, <3>2 DEF Listed, Target
    <2>3. CASE n # m
      BY <1>3, <1>4, <2>1, <2>3 DEF Create, Put, TypeOK, Target
    <2> QED
      BY <2>2, <2>3
  <1>5. ASSUME NEW m \in Names, CreateStarts(m) PROVE Listed(n)'
    BY <1>3, <1>5 DEF CreateStarts, Target
  <1>6. ASSUME NEW m \in Names,
               \/ BuildChecks(m) \/ PatchChecks(m) \/ PhaseReads(m)
               \/ DemoLands(m) \/ PhaseWrites(m)
        PROVE  FALSE
    BY <1>1, <1>6 DEF BuildChecks, PatchChecks, DemoAccepted, PhaseReads, DemoLands, PhaseWrites
  <1>7. ASSUME NEW m \in Names, RunWakes(m) PROVE Listed(n)'
    <2>1. /\ del' = [del EXCEPT ![m] = NewPass]
          /\ UNCHANGED <<files, sweep, reused>>
      BY <1>7 DEF RunWakes, counts
    <2>2. /\ \A d \in Deleters \ {m} : del'[d] = del[d]
          /\ del'[m].pc # "delete" \/ m \notin Deleters
      BY <2>1, Dummies DEF TypeOK
    <2> QED
      BY <1>3, <2>1, <2>2 DEF Target
  <1>8. ASSUME NEW d \in Deleters, Pass(d) PROVE Listed(n)'
    <2>1. reused' = reused
      BY <1>8 DEF Pass, ListDir, ListDirFails, DeleteFile, DeleteFileFails, EndPass, counts
    <2> QED
      BY <1>1, <1>2, <1>8, <2>1, PassListed
  <1>9. CASE Sweep
    <2>1. UNCHANGED <<files, reused>>
      BY <1>9 DEF Sweep, StartSweep, SweepList, SweepListFails, SweepReads, SweepMisses,
                  SweepStarts, SweepEnds, counts
    <2>2. del' = del \/ del' = [del EXCEPT ![Sweeper] = NewPass]
      BY <1>9 DEF Sweep, StartSweep, SweepList, SweepListFails, SweepReads,
                  SweepMisses, SweepStarts, SweepEnds, temporal
    <2>3. del'[Sweeper].pc # "delete"
      <3>1. del[Sweeper].pc = "off"
        BY <1>9 DEF TypeOK, Sweep, StartSweep, SweepList, SweepListFails, SweepReads,
                    SweepMisses, SweepStarts, SweepEnds
      <3> QED
        BY <2>2, <3>1, Dummies DEF TypeOK, Deleters
    <2>4. \A d \in Names : del'[d] = del[d]
      BY <2>2, Dummies DEF TypeOK, Deleters
    <2> QED
      BY <1>3, <2>1, <2>3, <2>4 DEF Target, Deleters
  <1>10. ~ Restart
    <2>1. ~ Fault
      BY <1>1 DEF Fault
    <2> QED
      BY <2>1 DEF Restart
  <1>11. CASE Tick \/ UNCHANGED vars
    BY <1>3, <1>11 DEF Tick, vars, temporal, counts, Target
  <1> QED
    BY <1>4, <1>5, <1>6, <1>7, <1>8, <1>9, <1>10, <1>11 DEF Next, Request

\* Every behaviour keeps the lists of its passes.
THEOREM ListsComplete == Spec => []LInv
  <1>1. Init => LInv
    <2> SUFFICES ASSUME Init PROVE LInv
      OBVIOUS
    <2>1. \A d \in Deleters : del[d].pc = "off"
      BY Dummies DEF Init
    <2> QED
      BY <2>1, InitTypes DEF Init, LInv, Listed
  <1>2. LInv /\ [Next]_vars => LInv'
    BY NextTypes, QuietBefore, StepListed DEF LInv
  <1> QED
    BY <1>1, <1>2, PTL DEF Spec, Safety

\* GuestCleanup!NamespaceLastUnlessUpset: while no request fails and nothing is written,
\* namespace.yaml is the last file of its sandbox to go (deleteGuestWorkspaceFiles),
\* however the passes of a run and of the sweep interleave.
THEOREM NamespaceGoesLast == Spec => NamespaceLastUnlessUpset
  <1>1. ASSUME LInv, Next, faults = 0, writes = 0, NEW n \in Names \ reused
        PROVE  ~ Early(n)
    <2> SUFFICES ASSUME "namespace" \in files[n], "namespace" \notin files'[n]
                 PROVE  files[n] = {"namespace"}
      BY DEF Early
    <2>1. PICK d \in Deleters : /\ DeleteFile(d, "namespace") \/ DeleteFileFails(d, "namespace")
                                /\ Target(d) = n /\ del[d].pc = "delete"
      BY <1>1, OnlyPassesDelete DEF LInv
    <2>2. del[d].todo = {"namespace"}
      BY <2>1 DEF DeleteFile, DeleteFileFails, NextFile
    <2> QED
      BY <1>1, <2>1, <2>2 DEF LInv, Quiet, Listed
  <1>2. LInv /\ [Next]_vars =>
          [faults = 0 /\ writes = 0 => \A n \in Names \ reused : ~ Early(n)]_vars
    BY <1>1
  <1> QED
    BY <1>2, ListsComplete, PTL DEF Spec, Safety, NamespaceLastUnlessUpset
================================================================================
