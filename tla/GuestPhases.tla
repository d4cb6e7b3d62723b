----------------------------- MODULE GuestPhases ------------------------------
(* guest.go and main.go: phase records.  handleRecordGuestPhase takes a place *)
(* in guestPhaseSem and leaves the rest to a goroutine: persistGuestPhase     *)
(* takes the sandbox's mutex out of a map, and under it reads guest.yaml, has *)
(* the commit counted against a budget, and writes the file back.  The map    *)
(* and the budgets forget a sandbox when a delete pass over it ends, and when *)
(* its guest.yaml cannot be read.                                             *)
EXTENDS Integers, FiniteSets

CONSTANTS Records,    \* goroutines of persistGuestPhase
          Names,      \* sandbox names
          Mutexes,    \* as many as are ever in use at once: one per record or name
          None,       \* no name, no mutex
          Keys,       \* "0" to "4" and done: what is recorded once
          Reset,      \* the request that clears them all
          Places,     \* capacity of guestPhaseSem (main.go:146)
          MaxWrites,  \* guestMaxPhaseWrites
          MaxAsks,    \* bound: records asked for
          MaxLives,   \* bound: sandboxes created
          MaxFaults   \* bound: requests that fail, delete passes that fail, restarts

ASSUME NoneAssumption   == None \notin Names \cup Mutexes
ASSUME KeyAssumption    == Reset \notin Keys
ASSUME NumberAssumption == Places \in Nat \ {0} /\ MaxWrites \in Nat
ASSUME FiniteAssumption == IsFiniteSet(Records) /\ IsFiniteSet(Names) /\ IsFiniteSet(Mutexes)
ASSUME MutexAssumption ==
    Cardinality(Mutexes) >= Cardinality(Records) + Cardinality(Names) - 1

VARIABLES file,    \* per name: guest.yaml on main
          lives,   \* sandboxes created so far: the last one's createdAt
          locks,   \* guestMetaLk: the mutex of each name, or None
          held,    \* the mutexes that are locked
          budget,  \* guestPhaseWrites
          sem,     \* guestPhaseSem: places taken
          pc,      \* per record
          job,     \* per record: name, request, time, mutex, and the file it read
          passes,  \* names whose guest.yaml a delete pass has removed
          asked, faults,  \* how many there were
          split    \* names with records in flight under different mutexes (history)

memory == <<locks, held, budget, sem, pc, job, passes>>
vars   == <<file, lives, memory, asked, faults, split>>

\* A file is the sandbox it belongs to and the time recorded for each key, 0 for
\* none.
NoTimes == [k \in Keys |-> 0]
Gone    == [life |-> 0, times |-> NoTimes]
Files   == [life : Nat, times : [Keys -> Nat]]
NoJob   == [name |-> None, what |-> Reset, now |-> 0, lk |-> None, raw |-> Gone]

\* Records between their handler's answer and their end; past the map's lookup.
InFlight(n) == {r \in Records : job[r].name = n}
Locking(n)  == {r \in InFlight(n) : pc[r] # "lookup"}

Init ==
    /\ file = [n \in Names |-> Gone]
    /\ lives = 0
    /\ locks = [n \in Names |-> None]
    /\ held = {}
    /\ budget = [n \in Names |-> 0]
    /\ sem = 0
    /\ pc = [r \in Records |-> "idle"]
    /\ job = [r \in Records |-> NoJob]
    /\ passes = {}
    /\ asked = 0
    /\ faults = 0
    /\ split = {}

------------------------------------------------------------------------------
Fault == faults < MaxFaults /\ faults' = faults + 1

Goto(r, label) == pc' = [pc EXCEPT ![r] = label]

\* Wrong on purpose: the lock stays in the map.
ForgetBudget(n) ==
    /\ budget' = [budget EXCEPT ![n] = 0]
    /\ UNCHANGED locks

\* forgetGuestMeta: whoever has the mutex already keeps it.
Forget(n) ==
    /\ locks' = [locks EXCEPT ![n] = None]
    /\ budget' = [budget EXCEPT ![n] = 0]

\* handleRecordGuestPhase answers 204; without a free place it answers 429.  One
\* goroutine is as good as another.  The time only tells the records apart, so each
\* has its own, and has it from the start.
Record(r) ==
    /\ pc[r] = "idle"
    /\ r = CHOOSE q \in Records : pc[q] = "idle"
    /\ sem < Places
    /\ asked < MaxAsks
    /\ asked' = asked + 1
    /\ sem' = sem + 1
    /\ \E n \in Names, w \in Keys \cup {Reset} :
         job' = [job EXCEPT ![r] = [NoJob EXCEPT !.name = n, !.what = w,
                                                    !.now = asked']]
    /\ Goto(r, "lookup")
    /\ UNCHANGED <<file, lives, locks, held, budget, passes, faults, split>>

\* &sync.Mutex{}: one that neither the map nor a record knows.
NewMutex == CHOOSE m \in Mutexes :
    /\ \A n \in Names : locks[n] # m
    /\ \A r \in Records : job[r].lk # m

\* Wrong on purpose: a mutex for each record.
LookupFresh(r) ==
    /\ pc[r] = "lookup"
    /\ job' = [job EXCEPT ![r].lk = NewMutex]
    /\ locks' = [locks EXCEPT ![job[r].name] = NewMutex]
    /\ Goto(r, "lock")
    /\ UNCHANGED <<file, lives, held, budget, sem, passes, asked, faults, split>>

\* lockGuestMeta: the sandbox's mutex, made if the map has none.
Lookup(r) ==
    /\ pc[r] = "lookup"
    /\ LET n == job[r].name IN
         IF locks[n] # None
         THEN /\ job' = [job EXCEPT ![r].lk = locks[n]]
              /\ UNCHANGED <<locks, split>>
         ELSE /\ job' = [job EXCEPT ![r].lk = NewMutex]
              /\ locks' = [locks EXCEPT ![n] = NewMutex]
              /\ split' = IF Locking(n) = {} THEN split ELSE split \cup {n}
    /\ Goto(r, "lock")
    /\ UNCHANGED <<file, lives, held, budget, sem, passes, asked, faults>>

Lock(r) ==
    /\ pc[r] = "lock"
    /\ job[r].lk \notin held
    /\ held' = held \cup {job[r].lk}
    /\ Goto(r, "read")
    /\ UNCHANGED <<file, lives, locks, budget, sem, job, passes, asked, faults,
                   split>>

Read(r) ==
    /\ pc[r] = "read"
    /\ file[job[r].name] # Gone
    /\ job' = [job EXCEPT ![r].raw = file[job[r].name]]
    /\ Goto(r, "modify")
    /\ UNCHANGED <<file, lives, locks, held, budget, sem, passes, asked, faults,
                   split>>

\* No such file, or no answer: the two are the same to the code, which "drop[s] its
\* lock rather than keep one per guess" (guest.go:643).
ReadFails(r) ==
    /\ pc[r] = "read"
    /\ IF file[job[r].name] = Gone THEN UNCHANGED faults ELSE Fault
    /\ Forget(job[r].name)
    /\ Goto(r, "unlock")
    /\ UNCHANGED <<file, lives, held, sem, job, passes, asked, split>>

\* What the request makes of the file: times are written once, a reset clears them.
Updated(r) ==
    LET raw == job[r].raw IN
      IF job[r].what = Reset THEN [raw EXCEPT !.times = NoTimes]
      ELSE IF raw.times[job[r].what] # 0 THEN raw
      ELSE [raw EXCEPT !.times[job[r].what] = job[r].now]

\* Wrong on purpose: the budget is counted and not enforced.
TakeAnyway(r) ==
    /\ pc[r] = "modify"
    /\ Updated(r) # job[r].raw
    /\ budget' = [budget EXCEPT ![job[r].name] = @ + 1]
    /\ Goto(r, "write")
    /\ UNCHANGED <<file, lives, locks, held, sem, job, passes, asked, faults, split>>

\* takeGuestPhaseWrite, for a file that changes.
Take(r) ==
    /\ pc[r] = "modify"
    /\ Updated(r) # job[r].raw
    /\ budget[job[r].name] < MaxWrites
    /\ budget' = [budget EXCEPT ![job[r].name] = @ + 1]
    /\ Goto(r, "write")
    /\ UNCHANGED <<file, lives, locks, held, sem, job, passes, asked, faults, split>>

\* Nothing to write, or nothing left to write it with.
NothingToWrite(r) ==
    /\ pc[r] = "modify"
    /\ Updated(r) = job[r].raw \/ budget[job[r].name] >= MaxWrites
    /\ Goto(r, "unlock")
    /\ UNCHANGED <<file, lives, locks, held, budget, sem, job, passes, asked,
                   faults, split>>

\* upsertFile: it replaces whatever is there by now, and creates what is not.
Write(r) ==
    /\ pc[r] = "write"
    /\ file' = [file EXCEPT ![job[r].name] = Updated(r)]
    /\ Goto(r, "unlock")
    /\ UNCHANGED <<lives, locks, held, budget, sem, job, passes, asked, faults,
                   split>>

\* The write fails for good, or lands without an answer.
WriteFails(r) ==
    /\ pc[r] = "write"
    /\ Fault
    /\ \/ file' = [file EXCEPT ![job[r].name] = Updated(r)]
       \/ UNCHANGED file
    /\ Goto(r, "unlock")
    /\ UNCHANGED <<lives, locks, held, budget, sem, job, passes, asked, split>>

\* Wrong on purpose: the goroutine ends with the mutex locked.
EndLocked(r) ==
    /\ pc[r] = "unlock"
    /\ sem' = sem - 1
    /\ job' = [job EXCEPT ![r] = NoJob]
    /\ Goto(r, "idle")
    /\ UNCHANGED <<file, lives, locks, held, budget, passes, asked, faults, split>>

\* Wrong on purpose: the place in the semaphore is given back twice.
EndTwice(r) ==
    /\ pc[r] = "unlock"
    /\ held' = held \ {job[r].lk}
    /\ sem' = sem - 2
    /\ job' = [job EXCEPT ![r] = NoJob]
    /\ Goto(r, "idle")
    /\ UNCHANGED <<file, lives, locks, budget, passes, asked, faults, split>>

\* The deferred calls: the mutex and the place in the semaphore are free again.
End(r) ==
    /\ pc[r] = "unlock"
    /\ held' = held \ {job[r].lk}
    /\ sem' = sem - 1
    /\ job' = [job EXCEPT ![r] = NoJob]
    /\ split' = IF InFlight(job[r].name) = {r} THEN split \ {job[r].name} ELSE split
    /\ Goto(r, "idle")
    /\ UNCHANGED <<file, lives, locks, budget, passes, asked, faults>>

------------------------------------------------------------------------------
(* What happens to guest.yaml besides                                         *)

Create(n) ==
    /\ file[n] = Gone
    /\ lives < MaxLives
    /\ lives' = lives + 1
    /\ file' = [file EXCEPT ![n] = [Gone EXCEPT !.life = lives']]
    /\ UNCHANGED <<memory, asked, faults, split>>

\* deleteGuestWorkspaceFiles deletes guest.yaml ...
DeleteMeta(n) ==
    /\ file[n] # Gone
    /\ file' = [file EXCEPT ![n] = Gone]
    /\ passes' = passes \cup {n}
    /\ UNCHANGED <<lives, locks, held, budget, sem, pc, job, asked, faults, split>>

\* ... and when it returns, forgets the sandbox: also when it has failed, and
\* guest.yaml may still be there.
PassEnds(n) ==
    /\ IF n \in passes THEN UNCHANGED faults ELSE Fault
    /\ passes' = passes \ {n}
    /\ Forget(n)
    /\ UNCHANGED <<file, lives, held, sem, pc, job, asked, split>>

Restart ==
    /\ Fault
    /\ locks' = [n \in Names |-> None]
    /\ held' = {}
    /\ budget' = [n \in Names |-> 0]
    /\ sem' = 0
    /\ pc' = [r \in Records |-> "idle"]
    /\ job' = [r \in Records |-> NoJob]
    /\ passes' = {}
    /\ split' = {}
    /\ UNCHANGED <<file, lives, asked>>

\* No record is under way: the server waits for the next request.
Idle ==
    /\ \A r \in Records : pc[r] = "idle"
    /\ UNCHANGED vars

------------------------------------------------------------------------------
Step(r) ==
    \/ Lookup(r)
    \/ Read(r)
    \/ ReadFails(r)
    \/ Take(r)
    \/ NothingToWrite(r)
    \/ Write(r)
    \/ WriteFails(r)
    \/ End(r)

Next ==
    \/ \E r \in Records : Record(r) \/ Lock(r) \/ Step(r)
    \/ \E n \in Names : Create(n) \/ DeleteMeta(n) \/ PassEnds(n)
    \/ Restart
    \/ Idle

Safety == Init /\ [][Next]_vars

\* A goroutine runs on, its requests are answered or time out after 15 seconds,
\* and a mutex hands itself to a waiter that has starved.
Fairness == \A r \in Records : WF_vars(Step(r)) /\ SF_vars(Lock(r))

Spec == Safety /\ Fairness
------------------------------------------------------------------------------
TypeOK ==
    /\ file \in [Names -> Files]
    /\ lives \in Nat
    /\ locks \in [Names -> Mutexes \cup {None}]
    /\ held \in SUBSET Mutexes
    /\ budget \in [Names -> 0..MaxWrites]
    /\ sem \in 0..Places
    /\ pc \in [Records -> {"idle", "lookup", "lock", "read", "modify", "write", "unlock"}]
    /\ job \in [Records -> [name : Names \cup {None}, what : Keys \cup {Reset},
                            now : Nat, lk : Mutexes \cup {None}, raw : Files]]
    /\ passes \in SUBSET Names
    /\ asked \in Nat /\ faults \in Nat
    /\ split \in SUBSET Names

\* A time once recorded for a sandbox is neither lost nor changed, but by a reset
\* or the sandbox's deletion ("write-once", guest.go:661).
Loses(n) ==
    /\ file'[n].life = file[n].life /\ file'[n].times # NoTimes
    /\ \E k \in Keys : file[n].times[k] # 0 /\ file'[n].times[k] # file[n].times[k]

\* ... as long as forgetGuestMeta has not put its records under two mutexes.
TimesKeptUnlessSplit == [][\A n \in Names : Loses(n) => n \in split]_vars

\* The map does not grow with deleted sandboxes or wrong guesses (main.go:74,
\* guest.go:643): no file, no pass and no record means no entry.
LocksForgotten ==
    \A n \in Names :
        file[n] = Gone /\ n \notin passes /\ InFlight(n) = {} => locks[n] = None

\* As many places are taken as there are records under way ...
PlacesMatch == sem = Cardinality({r \in Records : pc[r] # "idle"})

\* ... and once requests stop coming all places are free again: whatever fails, no
\* record keeps its mutex or waits for one for ever.
PlacesComeBack == sem > 0 ~> sem = 0

\* What main.go:58 says of the mutex without proviso: it makes phase updates to the
\* same guest.yaml "serialize instead of racing a read-modify-write".
TimesKept == [][\A n \in Names : ~ Loses(n)]_vars
==============================================================================
