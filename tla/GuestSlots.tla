----------------------------- MODULE GuestSlots ------------------------------
(* guest.go: who gets which name and which DNS slot.  A create takes          *)
(* guestCreateMu, asks loadGuestWorkspaces what is in use, commits            *)
(* namespace.yaml and guest.yaml in one upsertFilesAtomic and seeds the guest *)
(* list cache; GET /api/guest/workspaces, /metrics and patch run the same     *)
(* load without that mutex.  The load reads GitHub in several requests and    *)
(* only then stores what it found, so others move between the two.  The       *)
(* commit itself is AtomicRepo's: whole, refused, or with an answer that      *)
(* never comes.                                                               *)
EXTENDS Integers, FiniteSets

CONSTANTS Creators,    \* requests handled by handleCreateGuestWorkspace
          Readers,     \* other requests that load the guest list
          NoOne,       \* nobody holds guestCreateMu
          Names,       \* the workspace names clients suggest
          NoName,      \* a missing or malformed suggestion
          Slots,       \* guestSlots
          NoSlot,      \* no guest.yaml
          MaxCount,    \* guestMaxCount
          Troubles,    \* which of "fetch", "lag", "lost", "phase" may happen
          MaxAsks      \* bound: creates asked for and phase records begun

ASSUME ProcAssumption  == Creators \cap Readers = {} /\ NoOne \notin Creators
ASSUME NameAssumption  == NoName \notin Names /\ IsFiniteSet(Names)
ASSUME SlotAssumption  == NoSlot \notin Slots /\ IsFiniteSet(Slots)
ASSUME CountAssumption == MaxCount \in Nat
ASSUME TroubleAssumption == Troubles \subseteq {"fetch", "lag", "lost", "phase"}

VARIABLES meta,     \* guest.yaml on main: the slot of each name, or NoSlot
          before,   \* the names the root listing showed before the last commit
          cache,    \* guestListCache and whether guestListCacheAt is set
          mu,       \* guestCreateMu
          pc,       \* per request
          want,     \* per creator: the suggested name
          pick,     \* per creator: the slot it picked
          dirs,     \* per request: listed directories whose guest.yaml is not in yet
          got,      \* per request: entriesOut, then `existing`
          cleaning, \* names whose files are gone and whose cleanup has yet to return
          strays,   \* creates whose commit was not answered and may still land
          phases,   \* guest.yaml files persistGuestPhase read and is to write back
          asked,    \* how many creates and phase records there were
          upset     \* what went wrong so far (history)

vars == <<meta, before, cache, mu, pc, want, pick, dirs, got, cleaning, strays,
          phases, asked, upset>>
repo == <<meta, before>>
others == <<cleaning, strays, phases, asked>>

Procs   == Creators \cup Readers
Entries == [name : Names, slot : Slots]
Invalid == [set |-> FALSE, list |-> {}]
Filled(list) == [set |-> TRUE, list |-> list]

Live == {n \in Names : meta[n] # NoSlot}
Entry(n)    == [name |-> n, slot |-> meta[n]]
LiveEntries == {Entry(n) : n \in Live}

\* `created`: the entry of the sandbox a create is about to commit.
Created(c) == [name |-> want[c], slot |-> pick[c]]

Used(list)  == {e.name : e \in list}
Taken(list) == {e.slot : e \in list}

Init ==
    /\ meta = [n \in Names |-> NoSlot]
    /\ before = {}
    /\ cache = Invalid
    /\ mu = NoOne
    /\ pc = [p \in Procs |-> "idle"]
    /\ want = [c \in Creators |-> NoName]
    /\ pick = [c \in Creators |-> NoSlot]
    /\ dirs = [p \in Procs |-> {}]
    /\ got = [p \in Procs |-> {}]
    /\ cleaning = {}
    /\ strays = {}
    /\ phases = {}
    /\ asked = 0
    /\ upset = {}

------------------------------------------------------------------------------
Goto(p, label) == pc' = [pc EXCEPT ![p] = label]

\* The handler returns: its deferred guestCreateMu.Unlock(), and locals gone.
Finish(p) ==
    /\ Goto(p, "idle")
    /\ mu' = IF mu = p THEN NoOne ELSE mu
    /\ dirs' = [dirs EXCEPT ![p] = {}]
    /\ got' = [got EXCEPT ![p] = {}]

Trouble(t) == t \in Troubles /\ upset' = upset \cup {t}

Write(n, s) ==
    /\ before' = Live
    /\ meta' = [meta EXCEPT ![n] = s]

------------------------------------------------------------------------------
(* loadGuestWorkspaces                                                        *)

\* A cached list younger than guestListCacheTTL answers at once.
CacheHit(p) ==
    /\ pc[p] = "load"
    /\ cache.set
    /\ IF p \in Creators
       THEN Goto(p, "decide") /\ got' = [got EXCEPT ![p] = cache.list]
                              /\ UNCHANGED <<mu, dirs>>
       ELSE Finish(p)
    /\ UNCHANGED <<repo, cache, want, pick, others, upset>>

\* listDir(""): the root listing "can lag a fresh directory" (guest.go:226).
ListRoot(p) ==
    /\ pc[p] = "load"
    /\ ~ cache.set
    /\ Goto(p, "fetch")
    /\ \/ dirs' = [dirs EXCEPT ![p] = Live] /\ UNCHANGED upset
       \/ dirs' = [dirs EXCEPT ![p] = before] /\ before # Live /\ Trouble("lag")
    /\ UNCHANGED <<repo, cache, mu, want, pick, got, others>>

\* An error from listDir is the caller's: 502, or the last metrics.
ListFails(p) ==
    /\ pc[p] = "load"
    /\ ~ cache.set
    /\ Finish(p)
    /\ UNCHANGED <<repo, cache, want, pick, others, upset>>

\* One of the concurrent guest.yaml reads; an error of any kind skips the entry.
FetchMeta(p, n) ==
    /\ pc[p] = "fetch"
    /\ n \in dirs[p]
    /\ dirs' = [dirs EXCEPT ![p] = @ \ {n}]
    /\ \/ /\ got' = IF n \in Live
                    THEN [got EXCEPT ![p] = @ \cup {Entry(n)}]
                    ELSE got
          /\ UNCHANGED upset
       \/ n \in Live /\ UNCHANGED got /\ Trouble("fetch")
    /\ UNCHANGED <<repo, cache, mu, pc, want, pick, others>>

\* wg.Wait() is over: the result goes into the cache, whatever happened meanwhile.
StoreList(p) ==
    /\ pc[p] = "fetch"
    /\ dirs[p] = {}
    /\ cache' = Filled(got[p])
    /\ IF p \in Creators THEN Goto(p, "decide") /\ UNCHANGED <<mu, dirs, got>>
                         ELSE Finish(p)
    /\ UNCHANGED <<repo, want, pick, others, upset>>

\* guestListCacheTTL passes.
CacheExpires ==
    /\ cache.set
    /\ cache' = Invalid
    /\ UNCHANGED <<repo, mu, pc, want, pick, dirs, got, others, upset>>

Read(p) ==
    /\ pc[p] = "idle"
    /\ Goto(p, "load")
    /\ UNCHANGED <<repo, cache, mu, want, pick, dirs, got, others, upset>>

------------------------------------------------------------------------------
(* handleCreateGuestWorkspace                                                 *)

Ask(c) ==
    /\ pc[c] = "idle"
    /\ asked < MaxAsks
    /\ asked' = asked + 1
    /\ \E n \in Names \cup {NoName} : want' = [want EXCEPT ![c] = n]
    /\ Goto(c, "lock")
    /\ UNCHANGED <<repo, cache, mu, pick, dirs, got, cleaning, strays, phases, upset>>

\* Wrong on purpose: a create that does not take guestCreateMu.
CreateUnlocked(c) ==
    /\ pc[c] = "lock"
    /\ mu' = c
    /\ Goto(c, "load")
    /\ UNCHANGED <<repo, cache, want, pick, dirs, got, others, upset>>

LockCreate(c) ==
    /\ pc[c] = "lock"
    /\ mu = NoOne
    /\ mu' = c
    /\ Goto(c, "load")
    /\ UNCHANGED <<repo, cache, want, pick, dirs, got, others, upset>>

\* Wrong on purpose: names in use are not refused.
AdmitsUsedName(c) ==
    /\ Cardinality(got[c]) < MaxCount
    /\ want[c] \in Names
    /\ Slots \ Taken(got[c]) # {}

\* Wrong on purpose: a create without a name is not refused.
AdmitsNoName(c) ==
    /\ Cardinality(got[c]) < MaxCount
    /\ want[c] \notin Used(got[c])
    /\ Slots \ Taken(got[c]) # {}

\* 429 at the cap or without a free slot, 409 for a name in use, 400 for no name.
Admissible(c) ==
    /\ Cardinality(got[c]) < MaxCount
    /\ want[c] \in Names \ Used(got[c])
    /\ Slots \ Taken(got[c]) # {}

Reject(c) ==
    /\ pc[c] = "decide"
    /\ ~ Admissible(c)
    /\ Finish(c)
    /\ UNCHANGED <<repo, cache, want, pick, others, upset>>

\* pickGuestSlot: any slot not in the list.
PickSlot(c) ==
    /\ pc[c] = "decide"
    /\ Admissible(c)
    /\ \E s \in Slots \ Taken(got[c]) : pick' = [pick EXCEPT ![c] = s]
    /\ Goto(c, "commit")
    /\ UNCHANGED <<repo, cache, mu, want, dirs, got, others, upset>>

\* upsertFilesAtomic answers nil: both files are on main.  A load that listed
\* before and has not stored yet has been overtaken.
CommitLands(c) ==
    /\ pc[c] = "commit"
    /\ Write(want[c], pick[c])
    /\ upset' = IF \E p \in Procs : pc[p] = "fetch" THEN upset \cup {"overlap"} ELSE upset
    /\ Goto(c, "invalidate")
    /\ UNCHANGED <<cache, mu, want, pick, dirs, got, others>>

\* upsertFilesAtomic fails and nothing landed: 500.
CommitRefused(c) ==
    /\ pc[c] = "commit"
    /\ Finish(c)
    /\ UNCHANGED <<repo, cache, want, pick, others, upset>>

\* It fails for want of an answer: the same 500, but the commit may have landed,
\* or land later.  Neither cache is touched.
CommitLost(c) ==
    /\ pc[c] = "commit"
    /\ Trouble("lost")
    /\ strays' = strays \cup {Created(c)}
    /\ Finish(c)
    /\ UNCHANGED <<repo, cache, want, pick, cleaning, phases, asked>>

StrayLands(e) ==
    /\ Write(e.name, e.slot)
    /\ strays' = strays \ {e}
    /\ UNCHANGED <<cache, mu, pc, want, pick, dirs, got, cleaning, phases, asked, upset>>

\* invalidateWorkspacesCache(), then in a second critical section the seed.
InvalidateList(c) ==
    /\ pc[c] = "invalidate"
    /\ cache' = Invalid
    /\ Goto(c, "seed")
    /\ UNCHANGED <<repo, mu, want, pick, dirs, got, others, upset>>

\* Wrong on purpose: the seed forgets the sandboxes that were there.
SeedCreated(c) ==
    /\ pc[c] = "seed"
    /\ cache' = Filled({Created(c)})
    /\ Finish(c)
    /\ UNCHANGED <<repo, want, pick, others, upset>>

SeedList(c) ==
    /\ pc[c] = "seed"
    /\ cache' = Filled(got[c] \cup {Created(c)})
    /\ Finish(c)
    /\ UNCHANGED <<repo, want, pick, others, upset>>

------------------------------------------------------------------------------
(* deleteGuestWorkspaceFiles, as far as the list is concerned, and restarts   *)

DeleteMeta(n) ==
    /\ n \in Live
    /\ Write(n, NoSlot)
    /\ cleaning' = cleaning \cup {n}
    /\ UNCHANGED <<cache, mu, pc, want, pick, dirs, got, strays, phases, asked, upset>>

\* Its deferred invalidateWorkspacesCache().
CleanupReturns(n) ==
    /\ n \in cleaning
    /\ cleaning' = cleaning \ {n}
    /\ cache' = Invalid
    /\ UNCHANGED <<repo, mu, pc, want, pick, dirs, got, strays, phases, asked, upset>>

\* persistGuestPhase reads guest.yaml ...
PhaseReads(n) ==
    /\ n \in Live
    /\ asked < MaxAsks
    /\ asked' = asked + 1
    /\ phases' = phases \cup {Entry(n)}
    /\ UNCHANGED <<repo, cache, mu, pc, want, pick, dirs, got, cleaning, strays, upset>>

\* ... and writes it back with the slot it read; upsertFile creates a file that is
\* not there any more, and replaces one that is another sandbox's by now.
PhaseWrites(e) ==
    /\ phases' = phases \ {e}
    /\ IF meta[e.name] = e.slot
       THEN UNCHANGED <<repo, upset>>
       ELSE Write(e.name, e.slot) /\ Trouble("phase")
    /\ UNCHANGED <<cache, mu, pc, want, pick, dirs, got, cleaning, strays, asked>>

\* Nothing to change, no write left in the budget, or the write failed.
PhaseEnds(e) ==
    /\ phases' = phases \ {e}
    /\ UNCHANGED <<repo, cache, mu, pc, want, pick, dirs, got, cleaning, strays,
                   asked, upset>>

\* The process restarts: requests, caches and mutexes are gone; a PATCH that was
\* out on the wire is as good as unanswered.
Restart ==
    /\ \E p \in Procs : pc[p] # "idle"
    /\ LET out == {c \in Creators : pc[c] = "commit"} IN
         IF out = {} THEN UNCHANGED <<strays, upset>>
         ELSE /\ Trouble("lost")
              /\ strays' = strays \cup {Created(c) : c \in out}
    /\ pc' = [p \in Procs |-> "idle"]
    /\ dirs' = [p \in Procs |-> {}]
    /\ got' = [p \in Procs |-> {}]
    /\ cache' = Invalid
    /\ mu' = NoOne
    /\ cleaning' = {}
    /\ phases' = {}
    /\ UNCHANGED <<repo, want, pick, asked>>

------------------------------------------------------------------------------
Load(p) ==
    \/ CacheHit(p)
    \/ ListRoot(p)
    \/ ListFails(p)
    \/ \E n \in Names : FetchMeta(p, n)
    \/ StoreList(p)

Create(c) ==
    \/ Reject(c)
    \/ PickSlot(c)
    \/ CommitLands(c)
    \/ CommitRefused(c)
    \/ CommitLost(c)
    \/ InvalidateList(c)
    \/ SeedList(c)

Next ==
    \/ \E p \in Readers : Read(p)
    \/ \E p \in Procs : Load(p)
    \/ \E c \in Creators : Ask(c) \/ LockCreate(c) \/ Create(c)
    \/ \E e \in strays : StrayLands(e)
    \/ \E n \in Names : DeleteMeta(n) \/ CleanupReturns(n) \/ PhaseReads(n)
    \/ \E e \in phases : PhaseWrites(e) \/ PhaseEnds(e)
    \/ CacheExpires
    \/ Restart

Spec == Init /\ [][Next]_vars

------------------------------------------------------------------------------
TypeOK ==
    /\ meta \in [Names -> Slots \cup {NoSlot}]
    /\ before \in SUBSET Names
    /\ cache \in [set : BOOLEAN, list : SUBSET Entries]
    /\ mu \in Creators \cup {NoOne}
    /\ pc \in [Procs -> {"idle", "lock", "load", "fetch", "decide", "commit",
                         "invalidate", "seed"}]
    /\ want \in [Creators -> Names \cup {NoName}]
    /\ pick \in [Creators -> Slots \cup {NoSlot}]
    /\ dirs \in [Procs -> SUBSET Names]
    /\ got \in [Procs -> SUBSET Entries]
    /\ cleaning \in SUBSET Names
    /\ strays \in SUBSET Entries
    /\ phases \in SUBSET Entries
    /\ asked \in Nat
    /\ upset \in SUBSET {"fetch", "lag", "lost", "phase", "overlap"}
    /\ \A c \in Creators :
         pc[c] \in {"commit", "invalidate", "seed"} => Created(c) \in Entries

\* Two live sandboxes never share a DNS slot.
SlotsUnique ==
    \A m, n \in Live : meta[m] = meta[n] => m = n

\* ... unless one of five things happened: a guest.yaml read failed, the root
\* listing lagged, a commit went unanswered, a commit overtook another request's
\* load, or a phase record brought back a guest.yaml deleted meanwhile.  In particular
\* deletes, rejected creates, expiring caches and restarts may come at any moment.
SlotsUniqueUnlessUpset == upset = {} => SlotsUnique

\* The inductive invariant behind it.  guestCreateMu: one create at a time is
\* between Lock and Unlock.
Creating == {"load", "fetch", "decide", "commit", "invalidate", "seed"}
MutexInv == \A c \in Creators : pc[c] \in Creating <=> mu = c

\* Whatever a load or a create works from, and whatever the cache answers, lists
\* every live sandbox; only the one just committed may be missing, and only
\* until its own create has invalidated the cache.
CacheComplete ==
    cache.set => LiveEntries \subseteq cache.list
                     \cup {Created(c) : c \in {d \in Creators : pc[d] = "invalidate"}}

LoadsComplete ==
    \A p \in Procs : pc[p] = "fetch" =>
        \A n \in Live : n \in dirs[p] \/ Entry(n) \in got[p]

CreatesComplete ==
    \A c \in Creators :
        /\ pc[c] \in {"decide", "commit"} => LiveEntries \subseteq got[c]
        /\ pc[c] = "commit" => Admissible(c) /\ pick[c] \in Slots \ Taken(got[c])
        /\ pc[c] \in {"invalidate", "seed"} =>
             LiveEntries \subseteq got[c] \cup {Created(c)}

ListsComplete == strays = {} /\ CacheComplete /\ LoadsComplete /\ CreatesComplete

SlotInv == MutexInv /\ (upset = {} => ListsComplete /\ SlotsUnique)

\* Nor does a create, under the same proviso, take over the name of a live
\* sandbox: the only change to a guest.yaml is its deletion.
NoTakeover ==
    [][upset' = {} => \A n \in Live : meta'[n] \in {meta[n], NoSlot}]_vars

\* Nor is the number of sandboxes ever above the cap.
CapRespected == upset = {} => Cardinality(Live) <= MaxCount

\* What guestCreateMu is for (main.go:44): "two requests can't both pass the
\* slot-cap check".
CapHolds == Cardinality(Live) <= MaxCount
==============================================================================
