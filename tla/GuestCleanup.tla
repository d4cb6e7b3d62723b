---------------------------- MODULE GuestCleanup -----------------------------
(* cleanup.go and guest.go: how sandboxes go away.  A create starts a durable *)
(* Temporal run that sleeps until the sandbox expires and then retries        *)
(* DeleteGuestWorkspace until it succeeds; every minute a sweep starts the    *)
(* run of any sandbox that has none, and removes directories whose guest.yaml *)
(* stays missing.  A delete is a pass over the directory, one commit per      *)
(* file, so creates, demo builds and phase records land in the middle of it.  *)
(* Only differences of times matter: `left` counts down to every deadline.    *)
EXTENDS Integers, FiniteSets

CONSTANTS Names,           \* sandbox names
          None,            \* no name
          Sweeper,         \* the delete pass of the sweep
          TTL,             \* guestTTL, in ticks
          StaleThreshold,  \* staleGuestSweepThreshold
          SweepAttempts,   \* MaximumAttempts of the sweep's activity
          MaxCreates,      \* bound: creates that land
          MaxWrites,       \* bound: demo builds or patches, and phase records
          MaxFaults        \* bound: requests that fail, attempts that time out, restarts

ASSUME NameAssumption   == None \notin Names /\ Sweeper \notin Names
ASSUME NumberAssumption == /\ TTL \in Nat
                           /\ StaleThreshold \in Nat \ {0}
                           /\ SweepAttempts \in Nat \ {0}

VARIABLES files,     \* per name: the files in its directory on main
          left,      \* per name: ticks until each deadline that mentions it
          run,       \* per name: its cleanup run at Temporal
          del,       \* the delete passes, one per run and one of the sweep
          sweep,     \* the SweepGuests attempt
          misses,    \* staleGuestMisses
          creating,  \* the create between its commit and startCleanup, or None
          builds,    \* the demo writes between their checks and their commit
          phases,    \* the phase records between reading and writing guest.yaml
          creates, writes, faults,  \* how many there were
          reused,    \* names taken again while something of the old one went on (history)
          unread,    \* failed reads of a guest.yaml that is there (history)
          tally      \* staleGuestMisses when the sweep began (history)

temporal == <<run, del>>
requests == <<creating, builds, phases>>
counts   == <<creates, writes, faults, reused, unread>>
vars == <<files, left, temporal, sweep, misses, requests, counts, tally>>

Files    == {"namespace", "guest", "demo"}
Clocks   == {"file", "create", "run", "sweep", "phase"}
Deleters == Names \cup {Sweeper}

NoPass  == [pc |-> "off", todo |-> {}, ok |-> TRUE]
NewPass == [pc |-> "list", todo |-> {}, ok |-> TRUE]
NoSweep == [pc |-> "off", todo |-> {}, at |-> None, attempt |-> 0, failed |-> FALSE]

Init ==
    /\ files = [n \in Names |-> {}]
    /\ left = [n \in Names |-> [k \in Clocks |-> 0]]
    /\ run = [n \in Names |-> "none"]
    /\ del = [d \in Deleters |-> NoPass]
    /\ sweep = NoSweep
    /\ misses = [n \in Names |-> 0]
    /\ creating = None
    /\ builds = {}
    /\ phases = {}
    /\ creates = 0
    /\ writes = 0
    /\ faults = 0
    /\ reused = {}
    /\ unread = 0
    /\ tally = misses

------------------------------------------------------------------------------
Fault == faults < MaxFaults /\ faults' = faults + 1

Held(n)    == "guest" \in files[n]
Put(n, fs) == files' = [files EXCEPT ![n] = @ \cup fs]
Cut(n, f)  == files' = [files EXCEPT ![n] = @ \ {f}]

Tick ==
    /\ \E n \in Names, k \in Clocks : left[n][k] > 0
    /\ left' = [n \in Names |-> [k \in Clocks |->
                   IF left[n][k] > 0 THEN left[n][k] - 1 ELSE 0]]
    /\ UNCHANGED <<files, temporal, sweep, misses, requests, counts, tally>>

------------------------------------------------------------------------------
(* What lands in a sandbox                                                    *)

\* Something still goes on under the name of a sandbox that was there before.
Busy(n) == run[n] # "none" \/ sweep.at = n \/ misses[n] > 0 \/ n \in phases

\* The commit of handleCreateGuestWorkspace, under guestCreateMu; GuestSlots has
\* the checks before it.  Without its answer the handler starts no cleanup.
Create(n) ==
    /\ creating = None
    /\ ~ Held(n)
    /\ creates < MaxCreates
    /\ creates' = creates + 1
    /\ Put(n, {"namespace", "guest"})
    /\ reused' = IF Busy(n) THEN reused \cup {n} ELSE reused
    /\ \/ /\ creating' = n
          /\ left' = [left EXCEPT ![n].file = TTL, ![n].create = TTL]
          /\ UNCHANGED faults
       \/ /\ Fault
          /\ left' = [left EXCEPT ![n].file = TTL]
          /\ UNCHANGED creating
    /\ UNCHANGED <<temporal, sweep, misses, builds, phases, writes, unread, tally>>

\* Wrong on purpose: TERMINATE_EXISTING in place of USE_EXISTING.  The run sleeps again
\* while the pass of the one before goes on deleting.
StartAnew(n, ticks) ==
    /\ run' = [run EXCEPT ![n] = "sleep"]
    /\ left' = [left EXCEPT ![n].run = ticks]

\* ExecuteWorkflow with USE_EXISTING and ALLOW_DUPLICATE: a run that is under way
\* is kept, whatever it waits for; one that is over is no obstacle.
StartCleanup(n, ticks) ==
    IF run[n] = "none"
    THEN /\ run' = [run EXCEPT ![n] = "sleep"]
         /\ left' = [left EXCEPT ![n].run = ticks]
    ELSE UNCHANGED <<run, left>>

CreateStarts(n) ==
    /\ creating = n
    /\ creating' = None
    /\ \/ StartCleanup(n, left[n].create) /\ UNCHANGED faults
       \/ Fault /\ UNCHANGED <<run, left>>
    /\ UNCHANGED <<files, del, sweep, misses, builds, phases, creates, writes, reused,
                   unread, tally>>

DemoAccepted(n) ==
    /\ left[n].file > 0
    /\ writes < MaxWrites
    /\ writes' = writes + 1
    /\ builds' = builds \cup {n}
    /\ UNCHANGED <<files, left, temporal, sweep, misses, creating, phases, creates,
                   faults, reused, unread, tally>>

\* handleCreateGuestResourceBatch reads guest.yaml and the directory: the sandbox
\* is unexpired and without a demo ...
BuildChecks(n) ==
    /\ Held(n)
    /\ "demo" \notin files[n]
    /\ DemoAccepted(n)

\* ... or handlePatchGuestResource finds it unexpired in the list, which may be a
\* cached one, and the demo's file in the directory ...
PatchChecks(n) ==
    /\ "demo" \in files[n]
    /\ DemoAccepted(n)

\* ... and its commit, which looks at nothing again.
DemoLands(n) ==
    /\ n \in builds
    /\ builds' = builds \ {n}
    /\ Put(n, {"demo"})
    /\ UNCHANGED <<left, temporal, sweep, misses, creating, phases, counts, tally>>

\* persistGuestPhase reads guest.yaml ...
PhaseReads(n) ==
    /\ Held(n) /\ n \notin phases
    /\ writes < MaxWrites
    /\ writes' = writes + 1
    /\ phases' = phases \cup {n}
    /\ left' = [left EXCEPT ![n].phase = left[n].file]
    /\ UNCHANGED <<files, temporal, sweep, misses, creating, builds, creates, faults,
                   reused, unread, tally>>

\* ... and writes it back with the createdAt it read: upsertFile creates a file
\* that is not there any more.
PhaseWrites(n) ==
    /\ n \in phases
    /\ phases' = phases \ {n}
    /\ Put(n, {"guest"})
    /\ left' = [left EXCEPT ![n].file = left[n].phase]
    /\ UNCHANGED <<temporal, sweep, misses, creating, builds, counts, tally>>

------------------------------------------------------------------------------
(* deleteGuestWorkspaceFiles                                                  *)

Target(d) == IF d = Sweeper THEN sweep.at ELSE d

\* The pass is over.  Temporal retries the activity of a run until it succeeds;
\* the sweep goes on with the next name.
Conclude(d, ok) ==
    IF d = Sweeper
    THEN /\ del' = [del EXCEPT ![d] = NoPass]
         /\ misses' = IF ok THEN [misses EXCEPT ![sweep.at] = 0] ELSE misses
         /\ sweep' = [sweep EXCEPT !.pc = "visit", !.at = None, !.failed = @ \/ ~ ok]
         /\ UNCHANGED run
    ELSE /\ del' = [del EXCEPT ![d] = IF ok THEN NoPass ELSE NewPass]
         /\ run' = [run EXCEPT ![d] = IF ok THEN "none" ELSE "delete"]
         /\ UNCHANGED <<misses, sweep>>

\* listDir of the sandbox; a directory that is gone has no entries.
ListDir(d) ==
    /\ del[d].pc = "list"
    /\ del' = [del EXCEPT ![d].pc = "delete", ![d].todo = files[Target(d)]]
    /\ UNCHANGED <<files, left, run, sweep, misses, requests, counts, tally>>

ListDirFails(d) ==
    /\ del[d].pc = "list"
    /\ Fault
    /\ Conclude(d, FALSE)
    /\ UNCHANGED <<files, left, requests, creates, writes, reused, unread, tally>>

\* Wrong on purpose: files go in any order.
AnyFile(d, f) == f \in del[d].todo

\* namespace.yaml goes last.
NextFile(d, f) == f \in del[d].todo /\ (f = "namespace" => del[d].todo = {f})

Deleted(d, f, ok) ==
    del' = [del EXCEPT ![d].todo = @ \ {f}, ![d].ok = @ /\ ok]

\* deleteFile, up to three times.  The SHA lookup of a file that is gone fails.
DeleteFile(d, f) ==
    /\ del[d].pc = "delete"
    /\ NextFile(d, f)
    /\ Cut(Target(d), f)
    /\ Deleted(d, f, f \in files[Target(d)])
    /\ UNCHANGED <<left, run, sweep, misses, requests, counts, tally>>

\* All three fail, or the first one landed unanswered: the pass goes on with the
\* next file either way.
DeleteFileFails(d, f) ==
    /\ del[d].pc = "delete"
    /\ NextFile(d, f)
    /\ Fault
    /\ Cut(Target(d), f) \/ UNCHANGED files
    /\ Deleted(d, f, FALSE)
    /\ UNCHANGED <<left, run, sweep, misses, requests, creates, writes, reused,
                   unread, tally>>

EndPass(d) ==
    /\ del[d].pc = "delete"
    /\ del[d].todo = {}
    /\ Conclude(d, del[d].ok)
    /\ UNCHANGED <<files, left, requests, counts, tally>>

\* SandboxCleanupWorkflow: the sleep is over.
RunWakes(n) ==
    /\ run[n] = "sleep"
    /\ left[n].run = 0
    /\ run' = [run EXCEPT ![n] = "delete"]
    /\ del' = [del EXCEPT ![n] = NewPass]
    /\ UNCHANGED <<files, left, sweep, misses, requests, counts, tally>>

------------------------------------------------------------------------------
(* GuestSweepWorkflow and SweepGuests                                         *)

StartSweep ==
    /\ sweep.pc = "off"
    /\ sweep' = [NoSweep EXCEPT !.pc = "list", !.attempt = 1]
    /\ tally' = misses
    /\ UNCHANGED <<files, left, temporal, misses, requests, counts>>

\* An attempt is over; Temporal tries a failed one again, SweepAttempts in all.
EndAttempt(failed) ==
    sweep' = IF failed /\ sweep.attempt < SweepAttempts
             THEN [NoSweep EXCEPT !.pc = "list", !.attempt = sweep.attempt + 1]
             ELSE NoSweep

SweepList ==
    /\ sweep.pc = "list"
    /\ sweep' = [sweep EXCEPT !.pc = "visit", !.todo = {n \in Names : files[n] # {}}]
    /\ UNCHANGED <<files, left, temporal, misses, requests, counts, tally>>

SweepListFails ==
    /\ sweep.pc = "list"
    /\ Fault
    /\ EndAttempt(TRUE)
    /\ UNCHANGED <<files, left, temporal, misses, requests, creates, writes, reused,
                   unread, tally>>

\* fetchGuestExpiry finds one: the sandbox gets its run in the next step.
SweepReads(n) ==
    /\ sweep.pc = "visit" /\ n \in sweep.todo
    /\ Held(n)
    /\ misses' = [misses EXCEPT ![n] = 0]
    /\ sweep' = [sweep EXCEPT !.pc = "start", !.at = n, !.todo = @ \ {n}]
    /\ left' = [left EXCEPT ![n].sweep = left[n].file]
    /\ UNCHANGED <<files, temporal, requests, counts, tally>>

\* Wrong on purpose: the threshold is one miss too low.
MissesEarly(n) ==
    /\ sweep.pc = "visit" /\ n \in sweep.todo
    /\ IF Held(n) THEN Fault /\ unread' = unread + 1 ELSE UNCHANGED <<faults, unread>>
    /\ misses' = [misses EXCEPT ![n] = @ + 1]
    /\ IF misses[n] + 2 >= StaleThreshold
       THEN /\ sweep' = [sweep EXCEPT !.pc = "remove", !.at = n, !.todo = @ \ {n}]
            /\ del' = [del EXCEPT ![Sweeper] = NewPass]
       ELSE /\ sweep' = [sweep EXCEPT !.todo = @ \ {n}]
            /\ UNCHANGED del
    /\ UNCHANGED <<files, left, run, requests, creates, writes, reused, tally>>

\* Wrong on purpose: leftovers are counted and never removed.
MissesOnly(n) ==
    /\ sweep.pc = "visit" /\ n \in sweep.todo
    /\ IF Held(n) THEN Fault /\ unread' = unread + 1 ELSE UNCHANGED <<faults, unread>>
    /\ misses' = [misses EXCEPT ![n] = StaleThreshold]
    /\ sweep' = [sweep EXCEPT !.todo = @ \ {n}]
    /\ UNCHANGED <<files, left, temporal, requests, creates, writes, reused, tally>>

\* guest.yaml is not there or, all the same to fetchGuestMeta, cannot be read.
SweepMisses(n) ==
    /\ sweep.pc = "visit" /\ n \in sweep.todo
    /\ IF Held(n) THEN Fault /\ unread' = unread + 1 ELSE UNCHANGED <<faults, unread>>
    /\ misses' = [misses EXCEPT ![n] = @ + 1]
    /\ IF misses[n] + 1 >= StaleThreshold
       THEN /\ sweep' = [sweep EXCEPT !.pc = "remove", !.at = n, !.todo = @ \ {n}]
            /\ del' = [del EXCEPT ![Sweeper] = NewPass]
       ELSE /\ sweep' = [sweep EXCEPT !.todo = @ \ {n}]
            /\ UNCHANGED del
    /\ UNCHANGED <<files, left, run, requests, creates, writes, reused, tally>>

SweepStarts(n) ==
    /\ sweep.pc = "start" /\ sweep.at = n
    /\ \/ /\ StartCleanup(n, left[n].sweep)
          /\ sweep' = [sweep EXCEPT !.pc = "visit", !.at = None]
          /\ UNCHANGED faults
       \/ /\ Fault
          /\ sweep' = [sweep EXCEPT !.pc = "visit", !.at = None, !.failed = TRUE]
          /\ UNCHANGED <<run, left>>
    /\ UNCHANGED <<files, del, misses, requests, creates, writes, reused, unread, tally>>

SweepEnds ==
    /\ sweep.pc = "visit" /\ sweep.todo = {}
    /\ EndAttempt(sweep.failed)
    /\ UNCHANGED <<files, left, temporal, misses, requests, counts, tally>>

\* The process restarts.  Temporal keeps its runs and times the attempts out;
\* requests are gone, and so is everything in memory.
Restart ==
    /\ Fault
    /\ del' = [d \in Deleters |-> IF d # Sweeper /\ run[d] = "delete" THEN NewPass
                                                                      ELSE NoPass]
    /\ IF sweep.pc = "off" THEN UNCHANGED sweep ELSE EndAttempt(TRUE)
    /\ misses' = [n \in Names |-> 0]
    /\ tally' = misses'
    /\ creating' = None
    /\ builds' = {}
    /\ phases' = {}
    /\ UNCHANGED <<files, left, run, creates, writes, reused, unread>>

------------------------------------------------------------------------------
Pass(d) ==
    \/ ListDir(d)
    \/ ListDirFails(d)
    \/ \E f \in Files : DeleteFile(d, f) \/ DeleteFileFails(d, f)
    \/ EndPass(d)

Sweep ==
    \/ StartSweep
    \/ SweepList
    \/ SweepListFails
    \/ \E n \in Names : SweepReads(n) \/ SweepMisses(n) \/ SweepStarts(n)
    \/ SweepEnds

Request(n) == CreateStarts(n) \/ DemoLands(n) \/ PhaseWrites(n)

Next ==
    \/ \E n \in Names : Create(n) \/ BuildChecks(n) \/ PatchChecks(n) \/ PhaseReads(n)
    \/ \E n \in Names : Request(n) \/ RunWakes(n)
    \/ \E d \in Deleters : Pass(d)
    \/ Sweep
    \/ Restart
    \/ Tick

Safety == Init /\ [][Next]_vars

\* Time passes, timers fire, the worker works its queue, the schedule triggers a
\* sweep, and an HTTP handler comes to its end.
Fairness ==
    /\ WF_vars(Tick)
    /\ WF_vars(Sweep)
    /\ \A n \in Names : WF_vars(Request(n)) /\ WF_vars(RunWakes(n))
    /\ \A d \in Deleters : WF_vars(Pass(d))

Spec == Safety /\ Fairness
------------------------------------------------------------------------------
TypeOK ==
    /\ files \in [Names -> SUBSET Files]
    /\ left \in [Names -> [Clocks -> 0..TTL]]
    /\ run \in [Names -> {"none", "sleep", "delete"}]
    /\ del \in [Deleters -> [pc : {"off", "list", "delete"}, todo : SUBSET Files,
                             ok : BOOLEAN]]
    /\ sweep \in [pc : {"off", "list", "visit", "start", "remove"},
                  todo : SUBSET Names, at : Names \cup {None},
                  attempt : 0..SweepAttempts, failed : BOOLEAN]
    /\ misses \in [Names -> Nat]
    /\ creating \in Names \cup {None}
    /\ builds \in SUBSET Names
    /\ phases \in SUBSET Names
    /\ creates \in Nat /\ writes \in Nat /\ faults \in Nat /\ unread \in Nat
    /\ reused \in SUBSET Names
    /\ tally \in [Names -> Nat]
    /\ sweep.at \in Names <=> sweep.pc \in {"start", "remove"}
    /\ del[Sweeper].pc # "off" <=> sweep.pc = "remove"
    /\ \A n \in Names : del[n].pc # "off" <=> run[n] = "delete"

\* Nothing of a sandbox with a guest.yaml is deleted before the sandbox expires
\* (cleanup.go:24), unless its name was taken again too soon or the sweep failed
\* to read guest.yaml StaleThreshold times.
Lost(n) == Held(n) /\ left[n].file > 0 /\ ~ files[n] \subseteq files'[n]

NoEarlyCleanup ==
    [][\A n \in Names :
         Lost(n) => n \in reused \/ unread >= StaleThreshold]_vars

\* namespace.yaml never goes before the other files of its sandbox (guest.go:830)
\* as long as every request works and nothing is written, although a run and the
\* sweep may both be deleting.
Early(n) == "namespace" \in files[n] \ files'[n] /\ files[n] # {"namespace"}

NamespaceLastUnlessUpset ==
    [][faults = 0 /\ writes = 0 => \A n \in Names \ reused : ~ Early(n)]_vars

\* Once nobody creates or writes any more and faults have ended, every file of
\* every sandbox goes, and no run is left behind.
AllCleanedUp ==
    <>[](\A n \in Names : files[n] = {} /\ run[n] = "none")

\* What the docs say without proviso.  "It sleeps until the sandbox expires, then
\* deletes it" (cleanup.go:24).
NotBeforeExpiry == [][\A n \in Names : ~ Lost(n)]_vars

\* "namespace.yaml goes last" (guest.go:830).
NamespaceLast == [][\A n \in Names : ~ Early(n)]_vars

\* A leftover goes after staleGuestSweepThreshold sweeps, "a minute apart"
\* (guest.go:795): the sweep that removes it adds at most one miss to the others'.
SweepsApart == sweep.pc = "remove" => tally[sweep.at] + 1 >= StaleThreshold
==============================================================================
