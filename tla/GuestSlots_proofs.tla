-------------------------- MODULE GuestSlots_proofs ---------------------------
(* Proofs about GuestSlots for every set of requests, names and slots.        *)
EXTENDS GuestSlots, FunctionTheorems, FiniteSetTheorems, TLAPS

\* The type invariant: TypeOK holds in every reachable state.
THEOREM TypeCorrect == Spec => []TypeOK
<1>1. Init => TypeOK
  <2> SUFFICES ASSUME Init PROVE TypeOK
    OBVIOUS
  <2> QED
    BY DEF Init, TypeOK, Invalid, Procs
<1>2. TypeOK /\ [Next]_vars => TypeOK'
  <2> SUFFICES ASSUME TypeOK, [Next]_vars PROVE TypeOK'
    OBVIOUS
  <2> USE DEF TypeOK, repo, others, Goto, Procs, Created
  <2>0. \A n \in Live : Entry(n) \in Entries
    BY DEF Live, Entry, Entries
  <2>1. ASSUME NEW p \in Readers, Read(p) PROVE TypeOK'
    BY <2>1 DEF Read
  <2>2. ASSUME NEW p \in Procs, Load(p) PROVE TypeOK'
    <3>1. CASE CacheHit(p)
      BY <3>1 DEF CacheHit, Finish
    <3>2. CASE ListRoot(p)
      <4>1. Live \in SUBSET Names
        BY DEF Live
      <4>2. dirs' \in [Procs -> SUBSET Names]
        BY <3>2, <4>1 DEF ListRoot
      <4>3. upset' \in SUBSET {"fetch", "lag", "lost", "phase", "overlap"}
        BY <3>2 DEF ListRoot, Trouble
      <4> QED
        BY <3>2, <4>2, <4>3 DEF ListRoot
    <3>3. CASE ListFails(p)
      BY <3>3 DEF ListFails, Finish
    <3>4. ASSUME NEW n \in Names, FetchMeta(p, n) PROVE TypeOK'
      <4>1. got' \in [Procs -> SUBSET Entries]
        BY <3>4, <2>0 DEF FetchMeta
      <4>2. upset' \in SUBSET {"fetch", "lag", "lost", "phase", "overlap"}
        BY <3>4 DEF FetchMeta, Trouble
      <4> QED
        BY <3>4, <4>1, <4>2 DEF FetchMeta
    <3>5. CASE StoreList(p)
      BY <3>5 DEF StoreList, Finish, Filled
    <3> QED
      BY <2>2, <3>1, <3>2, <3>3, <3>4, <3>5 DEF Load
  <2>3. ASSUME NEW c \in Creators, Ask(c) PROVE TypeOK'
    BY <2>3 DEF Ask
  <2>4. ASSUME NEW c \in Creators, LockCreate(c) PROVE TypeOK'
    BY <2>4 DEF LockCreate
  <2>5. ASSUME NEW c \in Creators, Create(c) PROVE TypeOK'
    <3>1. CASE Reject(c)
      BY <3>1 DEF Reject, Finish
    <3>2. CASE PickSlot(c)
      BY <3>2 DEF PickSlot, Admissible, Entries
    <3>3. CASE CommitLands(c)
      <4>1. pick[c] \in Slots
        BY <3>3 DEF CommitLands, Entries
      <4> QED
        BY <3>3, <4>1 DEF CommitLands, Write, Live
    <3>4. CASE CommitRefused(c)
      BY <3>4 DEF CommitRefused, Finish
    <3>5. CASE CommitLost(c)
      <4>1. strays' \in SUBSET Entries
        BY <3>5 DEF CommitLost
      <4>2. upset' \in SUBSET {"fetch", "lag", "lost", "phase", "overlap"}
        BY <3>5 DEF CommitLost, Trouble
      <4> QED
        BY <3>5, <4>1, <4>2 DEF CommitLost, Finish
    <3>6. CASE InvalidateList(c)
      BY <3>6 DEF InvalidateList, Invalid
    <3>7. CASE SeedList(c)
      <4>1. cache' \in [set : BOOLEAN, list : SUBSET Entries]
        BY <3>7 DEF SeedList, Filled
      <4> QED
        BY <3>7, <4>1 DEF SeedList, Finish
    <3> QED
      BY <2>5, <3>1, <3>2, <3>3, <3>4, <3>5, <3>6, <3>7 DEF Create
  <2>6. ASSUME NEW e \in strays, StrayLands(e) PROVE TypeOK'
    BY <2>6 DEF StrayLands, Write, Live, Entries
  <2>7. ASSUME NEW n \in Names, DeleteMeta(n) PROVE TypeOK'
    BY <2>7 DEF DeleteMeta, Write, Live
  <2>8. ASSUME NEW n \in Names, CleanupReturns(n) PROVE TypeOK'
    BY <2>8 DEF CleanupReturns, Invalid
  <2>9. CASE CacheExpires
    BY <2>9 DEF CacheExpires, Invalid
  <2>10. CASE Restart
    <3>1. \A c \in Creators : pc[c] = "commit" => Created(c) \in Entries
      OBVIOUS
    <3>2. strays' \in SUBSET Entries
      <4> HIDE DEF Created
      <4> QED
        BY <2>10, <3>1 DEF Restart
    <3>3. upset' \in SUBSET {"fetch", "lag", "lost", "phase", "overlap"}
      BY <2>10 DEF Restart, Trouble
    <3> QED
      BY <2>10, <3>2, <3>3 DEF Restart, Invalid
  <2>11. ASSUME NEW n \in Names, PhaseReads(n) PROVE TypeOK'
    BY <2>0, <2>11 DEF PhaseReads
  <2>12. ASSUME NEW e \in phases, PhaseWrites(e) PROVE TypeOK'
    <3>1. upset' \in SUBSET {"fetch", "lag", "lost", "phase", "overlap"}
      BY <2>12 DEF PhaseWrites, Trouble
    <3>2. meta' \in [Names -> Slots \cup {NoSlot}] /\ before' \in SUBSET Names
      BY <2>12 DEF PhaseWrites, Write, Live, Entries
    <3> QED
      BY <2>12, <3>1, <3>2 DEF PhaseWrites
  <2>13. ASSUME NEW e \in phases, PhaseEnds(e) PROVE TypeOK'
    BY <2>13 DEF PhaseEnds
  <2>14. CASE UNCHANGED vars
    BY <2>14 DEF vars
  <2> QED
    BY <2>1, <2>2, <2>3, <2>4, <2>5, <2>6, <2>7, <2>8, <2>9, <2>10, <2>11, <2>12,
       <2>13, <2>14 DEF Next
<1> QED
  BY <1>1, <1>2, PTL DEF Spec

------------------------------------------------------------------------------
\* guestCreateMu admits one create at a time.
LEMMA MutexStep == TypeOK /\ MutexInv /\ [Next]_vars => MutexInv'
<1> SUFFICES ASSUME TypeOK, MutexInv, [Next]_vars PROVE MutexInv'
  OBVIOUS
<1> USE DEF MutexInv, Creating, Goto, Finish
<1>0. /\ pc \in [Procs -> {"idle", "lock", "load", "fetch", "decide", "commit",
                          "invalidate", "seed"}]
      /\ Creators \subseteq Procs /\ Readers \subseteq Procs
      /\ Creators \cap Readers = {} /\ NoOne \notin Creators
      /\ mu \in Creators \cup {NoOne}
  BY ProcAssumption DEF TypeOK, Procs
<1>1. ASSUME NEW p \in Readers, Read(p) PROVE MutexInv'
  BY <1>0, <1>1 DEF Read
<1>2. ASSUME NEW p \in Procs, Load(p) PROVE MutexInv'
  <2>1. CASE CacheHit(p)
    BY <1>0, <2>1 DEF CacheHit
  <2>2. CASE ListRoot(p)
    BY <1>0, <2>2 DEF ListRoot
  <2>3. CASE ListFails(p)
    BY <1>0, <2>3 DEF ListFails
  <2>4. ASSUME NEW n \in Names, FetchMeta(p, n) PROVE MutexInv'
    BY <1>0, <2>4 DEF FetchMeta
  <2>5. CASE StoreList(p)
    BY <1>0, <2>5 DEF StoreList
  <2> QED
    BY <1>2, <2>1, <2>2, <2>3, <2>4, <2>5 DEF Load
<1>3. ASSUME NEW c \in Creators, Ask(c) \/ LockCreate(c) PROVE MutexInv'
  BY <1>0, <1>3 DEF Ask, LockCreate
<1>4. ASSUME NEW c \in Creators, Create(c) PROVE MutexInv'
  <2>1. CASE Reject(c) \/ CommitRefused(c) \/ CommitLost(c) \/ SeedList(c)
    BY <1>0, <2>1 DEF Reject, CommitRefused, CommitLost, SeedList
  <2>2. CASE PickSlot(c) \/ CommitLands(c) \/ InvalidateList(c)
    BY <1>0, <2>2 DEF PickSlot, CommitLands, InvalidateList
  <2> QED
    BY <1>4, <2>1, <2>2 DEF Create
<1>5. CASE Restart
  BY <1>0, <1>5 DEF Restart
<1>6. CASE UNCHANGED <<pc, mu>>
  BY <1>6
<1> QED
  BY <1>1, <1>2, <1>3, <1>4, <1>5, <1>6
     DEF Next, StrayLands, DeleteMeta, CleanupReturns, CacheExpires, PhaseReads,
         PhaseWrites, PhaseEnds, vars

\* The history only grows.
LEMMA UpsetGrows == [Next]_vars => upset \subseteq upset'
BY DEF Next, vars, Read, Load, CacheHit, ListRoot, ListFails, FetchMeta, StoreList,
       Ask, LockCreate, Create, Reject, PickSlot, CommitLands, CommitRefused,
       CommitLost, InvalidateList, SeedList, StrayLands, DeleteMeta,
       CleanupReturns, CacheExpires, PhaseReads, PhaseWrites, PhaseEnds, Restart,
       Trouble

\* What a guest.yaml says names its sandbox.
LEMMA EntriesOfLive ==
    ASSUME NEW list
    PROVE  LiveEntries \subseteq list <=> \A n \in Live : Entry(n) \in list
BY DEF LiveEntries

\* Deleting a guest.yaml leaves fewer live sandboxes, each as it was.
LEMMA FewerLive ==
    ASSUME TypeOK, NEW n \in Names, meta' = [meta EXCEPT ![n] = NoSlot]
    PROVE  /\ Live' = Live \ {n}
           /\ \A m \in Live' : Entry(m)' = Entry(m) /\ meta'[m] = meta[m]
BY DEF TypeOK, Live, Entry

\* Committing a guest.yaml adds its sandbox.
LEMMA OneMoreLive ==
    ASSUME TypeOK, NEW n \in Names, NEW s \in Slots,
           meta' = [meta EXCEPT ![n] = s]
    PROVE  /\ Live' = Live \cup {n}
           /\ Entry(n)' = [name |-> n, slot |-> s]
           /\ \A m \in Live \ {n} : Entry(m)' = Entry(m) /\ meta'[m] = meta[m]
BY SlotAssumption DEF TypeOK, Live, Entry

\* A step that leaves guest.yaml files alone leaves the live sandboxes alone.
LEMMA SameLive ==
    ASSUME meta' = meta
    PROVE  /\ Live' = Live /\ LiveEntries' = LiveEntries
           /\ \A n : Entry(n)' = Entry(n)
           /\ SlotsUnique => SlotsUnique'
BY DEF Live, LiveEntries, Entry, SlotsUnique

\* While nothing upsets them, the lists stay complete and the slots distinct.
LEMMA ListsStep ==
    ASSUME TypeOK, MutexInv, upset = {}, upset' = {}, ListsComplete, SlotsUnique,
           [Next]_vars
    PROVE  ListsComplete' /\ SlotsUnique'
<1> USE DEF ListsComplete, repo, others, Goto, Finish
<1>0. /\ pc \in [Procs -> {"idle", "lock", "load", "fetch", "decide", "commit",
                          "invalidate", "seed"}]
      /\ Creators \subseteq Procs /\ Readers \subseteq Procs
      /\ Creators \cap Readers = {} /\ NoOne \notin Creators
      /\ dirs \in [Procs -> SUBSET Names] /\ got \in [Procs -> SUBSET Entries]
      /\ want \in [Creators -> Names \cup {NoName}]
      /\ pick \in [Creators -> Slots \cup {NoSlot}]
  BY ProcAssumption DEF TypeOK, Procs
\* Requests that neither load nor create do not matter.
<1>1. ASSUME UNCHANGED <<meta, cache, want, pick, dirs, got, strays>>,
             \A p \in Procs : \/ pc'[p] = pc[p]
                               \/ /\ pc[p] \in {"idle", "lock", "load"}
                                  /\ pc'[p] \in {"idle", "lock", "load"}
      PROVE  ListsComplete' /\ SlotsUnique'
  <2>1. CacheComplete'
    BY <1>0, <1>1, SameLive DEF CacheComplete, Created
  <2>2. LoadsComplete'
    BY <1>1, SameLive DEF LoadsComplete
  <2>3. CreatesComplete'
    BY <1>0, <1>1, SameLive DEF CreatesComplete, Created, Admissible
  <2> QED
    BY <1>1, <2>1, <2>2, <2>3, SameLive
<1>2. ASSUME NEW p \in Readers, Read(p) PROVE ListsComplete' /\ SlotsUnique'
  BY <1>0, <1>1, <1>2 DEF Read
<1>3. ASSUME NEW c \in Creators, LockCreate(c) PROVE ListsComplete' /\ SlotsUnique'
  BY <1>0, <1>1, <1>3 DEF LockCreate
<1>4. ASSUME NEW c \in Creators, Ask(c) PROVE ListsComplete' /\ SlotsUnique'
  <2>1. UNCHANGED <<meta, cache, pick, dirs, got, strays>>
    BY <1>4 DEF Ask
  <2>2. /\ pc[c] = "idle" /\ pc' = [pc EXCEPT ![c] = "lock"]
        /\ \A d \in Creators \ {c} : want'[d] = want[d]
    BY <1>0, <1>4 DEF Ask
  <2>3. CacheComplete'
    BY <1>0, <2>1, <2>2, SameLive DEF CacheComplete, Created
  <2>4. LoadsComplete'
    BY <1>0, <2>1, <2>2, SameLive DEF LoadsComplete
  <2>5. CreatesComplete'
    BY <1>0, <2>1, <2>2, SameLive DEF CreatesComplete, Created, Admissible
  <2> QED
    BY <2>1, <2>3, <2>4, <2>5, SameLive
\* A request that gives up, or has only read, takes its locals with it.
<1>5. ASSUME NEW p \in Procs, Finish(p), UNCHANGED <<meta, want, pick, strays>>,
             cache'.set => LiveEntries \subseteq cache'.list \/
                           (cache' = cache /\ pc[p] # "invalidate")
      PROVE  ListsComplete' /\ SlotsUnique'
  <2>1. CacheComplete'
    <3> SUFFICES ASSUME cache'.set PROVE
          LiveEntries \subseteq cache'.list
              \cup {Created(c) : c \in {d \in Creators : pc'[d] = "invalidate"}}
      BY <1>5, SameLive DEF CacheComplete, Created
    <3>1. CASE LiveEntries \subseteq cache'.list
      BY <3>1
    <3>2. CASE cache' = cache /\ pc[p] # "invalidate"
      <4>1. \A d \in Creators : pc[d] = "invalidate" => pc'[d] = "invalidate"
        BY <1>0, <1>5, <3>2
      <4> QED
        BY <3>2, <4>1 DEF CacheComplete
    <3> QED
      BY <1>5, <3>1, <3>2
  <2>2. LoadsComplete'
    BY <1>0, <1>5, SameLive DEF LoadsComplete
  <2>3. CreatesComplete'
    BY <1>0, <1>5, SameLive DEF CreatesComplete, Created, Admissible
  <2> QED
    BY <1>5, <2>1, <2>2, <2>3, SameLive
<1>6. ASSUME NEW p \in Procs, Load(p) PROVE ListsComplete' /\ SlotsUnique'
  \* A create past Lock is the only one, so none has yet to invalidate.
  <2>0. p \in Creators /\ pc[p] \in {"load", "fetch"} =>
            \A d \in Creators : pc[d] # "invalidate"
    BY DEF MutexInv, Creating
  <2>1. CASE CacheHit(p)
    <3>1. CASE p \in Creators
      <4>1. pc' = [pc EXCEPT ![p] = "decide"] /\ got' = [got EXCEPT ![p] = cache.list]
            /\ UNCHANGED <<meta, cache, want, pick, dirs, strays>>
        BY <2>1, <3>1 DEF CacheHit
      <4>2. LiveEntries \subseteq cache.list
        BY <2>0, <2>1, <3>1 DEF CacheHit, CacheComplete
      <4>3. CacheComplete'
        BY <4>1, <4>2, SameLive DEF CacheComplete
      <4>4. LoadsComplete'
        BY <1>0, <4>1, SameLive DEF LoadsComplete
      <4>5. CreatesComplete'
        BY <1>0, <4>1, <4>2, SameLive DEF CreatesComplete, Created, Admissible
      <4> QED
        BY <4>1, <4>3, <4>4, <4>5, SameLive
    <3>2. CASE p \notin Creators
      BY <1>5, <2>1, <3>2 DEF CacheHit
    <3> QED
      BY <3>1, <3>2
  <2>2. CASE ListRoot(p)
    <3>1. /\ pc[p] = "load" /\ pc' = [pc EXCEPT ![p] = "fetch"]
          /\ UNCHANGED <<meta, cache, want, pick, got, strays>>
          /\ dirs' = [dirs EXCEPT ![p] = Live]
      BY <2>2 DEF ListRoot, Trouble
    <3>2. CacheComplete'
      BY <1>0, <3>1, SameLive DEF CacheComplete, Created
    <3>3. LoadsComplete'
      BY <1>0, <3>1, SameLive DEF LoadsComplete
    <3>4. CreatesComplete'
      BY <1>0, <3>1, SameLive DEF CreatesComplete, Created, Admissible
    <3> QED
      BY <3>1, <3>2, <3>3, <3>4, SameLive
  <2>3. CASE ListFails(p)
    BY <1>5, <2>3 DEF ListFails
  <2>4. ASSUME NEW n \in Names, FetchMeta(p, n) PROVE ListsComplete' /\ SlotsUnique'
    <3>1. /\ pc[p] = "fetch" /\ UNCHANGED <<meta, cache, want, pick, pc, strays>>
          /\ dirs' = [dirs EXCEPT ![p] = @ \ {n}]
          /\ got' = IF n \in Live THEN [got EXCEPT ![p] = @ \cup {Entry(n)}] ELSE got
      BY <2>4 DEF FetchMeta, Trouble
    <3>2. CacheComplete'
      BY <3>1, SameLive DEF CacheComplete, Created
    <3>3. LoadsComplete'
      BY <1>0, <3>1, SameLive DEF LoadsComplete
    <3>4. CreatesComplete'
      BY <1>0, <3>1, SameLive DEF CreatesComplete, Created, Admissible
    <3> QED
      BY <3>1, <3>2, <3>3, <3>4, SameLive
  <2>5. CASE StoreList(p)
    <3>1. LiveEntries \subseteq got[p] /\ cache' = Filled(got[p])
      BY <2>5, EntriesOfLive DEF StoreList, LoadsComplete
    <3>2. CASE p \in Creators
      <4>1. /\ pc[p] = "fetch" /\ pc' = [pc EXCEPT ![p] = "decide"]
            /\ UNCHANGED <<meta, got, want, pick, dirs, strays>>
        BY <2>5, <3>2 DEF StoreList
      <4>2. CacheComplete'
        BY <3>1, <4>1, SameLive DEF CacheComplete, Filled
      <4>3. LoadsComplete'
        BY <1>0, <4>1, SameLive DEF LoadsComplete
      <4>4. CreatesComplete'
        BY <1>0, <3>1, <4>1, SameLive DEF CreatesComplete, Created, Admissible
      <4> QED
        BY <4>1, <4>2, <4>3, <4>4, SameLive
    <3>3. CASE p \notin Creators
      BY <1>5, <2>5, <3>1, <3>3 DEF StoreList, Filled
    <3> QED
      BY <3>2, <3>3
  <2> QED
    BY <1>6, <2>1, <2>2, <2>3, <2>4, <2>5 DEF Load
<1>7. ASSUME NEW c \in Creators, Create(c) PROVE ListsComplete' /\ SlotsUnique'
  <2>0. pc[c] \in Creating => \A d \in Creators \ {c} : pc[d] \notin Creating
    BY DEF MutexInv
  <2>1. CASE Reject(c) \/ CommitRefused(c)
    BY <1>0, <1>5, <2>1 DEF Reject, CommitRefused
  <2>2. CASE PickSlot(c)
    <3>1. /\ pc[c] = "decide" /\ pc' = [pc EXCEPT ![c] = "commit"] /\ Admissible(c)
          /\ UNCHANGED <<meta, cache, want, dirs, got, strays>>
          /\ pick'[c] \in Slots \ Taken(got[c])
          /\ \A d \in Creators \ {c} : pick'[d] = pick[d]
      BY <1>0, <2>2 DEF PickSlot
    <3>2. CacheComplete'
      BY <1>0, <3>1, SameLive DEF CacheComplete, Created
    <3>3. LoadsComplete'
      BY <1>0, <3>1, SameLive DEF LoadsComplete
    <3>4. CreatesComplete'
      <4>1. Admissible(c)'
        BY <3>1 DEF Admissible
      <4> QED
        BY <1>0, <2>0, <3>1, <4>1, SameLive DEF CreatesComplete, Creating
    <3> QED
      BY <3>1, <3>2, <3>3, <3>4, SameLive
  <2>3. CASE CommitLands(c)
    <3>1. /\ pc[c] = "commit" /\ pc' = [pc EXCEPT ![c] = "invalidate"]
          /\ UNCHANGED <<cache, want, pick, dirs, got, strays>>
          /\ meta' = [meta EXCEPT ![want[c]] = pick[c]]
          /\ \A p \in Procs : pc[p] # "fetch"
      BY <2>3 DEF CommitLands, Write
    <3>2. want[c] \in Names /\ pick[c] \in Slots
      BY <3>1 DEF TypeOK, Created, Entries
    <3>3. /\ want[c] \notin Used(got[c]) /\ pick[c] \notin Taken(got[c])
          /\ \A n \in Live : Entry(n) \in got[c]
      BY <3>1, EntriesOfLive DEF CreatesComplete, Admissible
    <3>4. ASSUME NEW n \in Live PROVE n # want[c] /\ meta[n] # pick[c]
      <4>1. Entry(n) \in got[c] /\ Entry(n).name = n /\ Entry(n).slot = meta[n]
        BY <3>3 DEF Entry
      <4>2. n \in Used(got[c]) /\ meta[n] \in Taken(got[c])
        BY <4>1 DEF Used, Taken
      <4> QED
        BY <3>3, <4>2
    <3>5. /\ Live' = Live \cup {want[c]}
          /\ Entry(want[c])' = Created(c) /\ meta'[want[c]] = pick[c]
          /\ \A n \in Live : Entry(n)' = Entry(n) /\ meta'[n] = meta[n]
      <4>1. /\ Live' = Live \cup {want[c]}
            /\ meta'[want[c]] = pick[c]
            /\ \A n \in Live \ {want[c]} : Entry(n)' = Entry(n) /\ meta'[n] = meta[n]
        <5>1. /\ Live' = Live \cup {want[c]}
              /\ \A n \in Live \ {want[c]} : Entry(n)' = Entry(n) /\ meta'[n] = meta[n]
          BY <3>1, <3>2, OneMoreLive
        <5>2. meta'[want[c]] = pick[c]
          BY <3>1, <3>2 DEF TypeOK
        <5> QED
          BY <5>1, <5>2
      <4>2. want[c] \notin Live
        BY <3>4
      <4> QED
        BY <3>1, <4>1, <4>2 DEF Created, Entry
    <3>6. LiveEntries' \subseteq LiveEntries \cup {Created(c)}
      <4>1. ASSUME NEW n \in Live'
            PROVE  Entry(n)' \in LiveEntries \cup {Created(c)}
        <5>1. CASE n = want[c]
          BY <3>1, <3>5, <5>1 DEF Entry, Created
        <5>2. CASE n # want[c]
          <6>1. n \in Live /\ Entry(n)' = Entry(n)
            BY <3>5, <4>1, <5>2
          <6> QED
            BY <6>1 DEF LiveEntries
        <5> QED
          BY <5>1, <5>2
      <4>2. LiveEntries' = {Entry(n)' : n \in Live'}
        BY DEF LiveEntries
      <4> QED
        BY <4>1, <4>2
    <3>7. SlotsUnique'
      BY <3>4, <3>5 DEF SlotsUnique
    <3>8. CacheComplete'
      <4>1. cache.set => LiveEntries \subseteq cache.list
        BY <2>0, <3>1 DEF CacheComplete, Creating
      <4>2. Created(c)' = Created(c) /\ pc'[c] = "invalidate"
        BY <1>0, <3>1 DEF Created
      <4> QED
        BY <3>1, <3>6, <4>1, <4>2 DEF CacheComplete
    <3>9. LoadsComplete'
      BY <1>0, <3>1 DEF LoadsComplete
    <3>10. CreatesComplete'
      BY <1>0, <2>0, <3>1, <3>6 DEF CreatesComplete, Creating, Created
    <3> QED
      BY <3>1, <3>7, <3>8, <3>9, <3>10
  <2>4. CASE CommitLost(c)
    BY <2>4 DEF CommitLost, Trouble
  <2>5. CASE InvalidateList(c)
    <3>1. /\ pc[c] = "invalidate" /\ pc' = [pc EXCEPT ![c] = "seed"]
          /\ UNCHANGED <<meta, want, pick, dirs, got, strays>>
          /\ cache' = Invalid
      BY <2>5 DEF InvalidateList
    <3>2. CacheComplete'
      BY <3>1 DEF CacheComplete, Invalid
    <3>3. LoadsComplete'
      BY <1>0, <3>1, SameLive DEF LoadsComplete
    <3>4. CreatesComplete'
      BY <1>0, <3>1, SameLive DEF CreatesComplete, Created, Admissible
    <3> QED
      BY <3>1, <3>2, <3>3, <3>4, SameLive
  <2>6. CASE SeedList(c)
    <3>1. LiveEntries \subseteq got[c] \cup {Created(c)}
      BY <2>6 DEF SeedList, CreatesComplete
    <3> QED
      BY <1>0, <1>5, <2>6, <3>1 DEF SeedList, Filled
  <2> QED
    BY <1>7, <2>1, <2>2, <2>3, <2>4, <2>5, <2>6 DEF Create
<1>8. ASSUME NEW n \in Names, DeleteMeta(n) PROVE ListsComplete' /\ SlotsUnique'
  <2>1. /\ meta' = [meta EXCEPT ![n] = NoSlot]
        /\ UNCHANGED <<cache, pc, want, pick, dirs, got, strays>>
    BY <1>8 DEF DeleteMeta, Write
  <2>2. /\ Live' \subseteq Live
        /\ \A m \in Live' : Entry(m)' = Entry(m) /\ meta'[m] = meta[m]
    BY <2>1, FewerLive
  <2>3. LiveEntries' \subseteq LiveEntries
    BY <2>2 DEF LiveEntries
  <2>4. CacheComplete'
    BY <2>1, <2>3 DEF CacheComplete, Created
  <2>5. LoadsComplete'
    BY <2>1, <2>2 DEF LoadsComplete
  <2>6. CreatesComplete'
    BY <2>1, <2>3 DEF CreatesComplete, Created, Admissible
  <2>7. SlotsUnique'
    BY <2>2 DEF SlotsUnique
  <2> QED
    BY <2>1, <2>4, <2>5, <2>6, <2>7
<1>9. ASSUME cache' = Invalid,
             UNCHANGED <<meta, pc, want, pick, dirs, got, strays>>
      PROVE  ListsComplete' /\ SlotsUnique'
  <2>1. CacheComplete'
    BY <1>9 DEF CacheComplete, Invalid
  <2>2. LoadsComplete'
    BY <1>9, SameLive DEF LoadsComplete
  <2>3. CreatesComplete'
    BY <1>9, SameLive DEF CreatesComplete, Created, Admissible
  <2> QED
    BY <1>9, <2>1, <2>2, <2>3, SameLive
<1>10. CASE Restart
  <2>1. /\ cache' = Invalid /\ meta' = meta /\ strays' = strays
        /\ pc' = [p \in Procs |-> "idle"]
    BY <1>10 DEF Restart, Trouble
  <2> QED
    BY <1>0, <2>1, SameLive DEF CacheComplete, LoadsComplete, CreatesComplete, Invalid
\* A phase record that finds another guest.yaml than it read is an upset.
<1>11. ASSUME \/ \E n \in Names : PhaseReads(n)
              \/ \E e \in phases : PhaseWrites(e) \/ PhaseEnds(e)
       PROVE  ListsComplete' /\ SlotsUnique'
  <2>1. UNCHANGED <<meta, cache, pc, want, pick, dirs, got, strays>>
    BY <1>11 DEF PhaseReads, PhaseWrites, PhaseEnds, Trouble
  <2> QED
    BY <1>1, <2>1
<1>12. CASE UNCHANGED vars
  BY <1>1, <1>12 DEF vars
<1> QED
  BY <1>2, <1>3, <1>4, <1>6, <1>7, <1>8, <1>9, <1>10, <1>11, <1>12
     DEF Next, CleanupReturns, CacheExpires

\* The inductive invariant, with the types.
THEOREM SlotInvCorrect == Spec => [](TypeOK /\ SlotInv)
<1>1. Init => SlotInv
  <2> SUFFICES ASSUME Init PROVE SlotInv
    OBVIOUS
  <2>1. /\ \A p \in Procs : pc[p] = "idle"
        /\ Live = {} /\ mu = NoOne /\ strays = {} /\ ~ cache.set
    BY DEF Init, Live, Invalid
  <2>2. MutexInv
    BY <2>1, ProcAssumption DEF MutexInv, Creating, Procs
  <2> QED
    BY <2>1, <2>2 DEF SlotInv, ListsComplete, CacheComplete, LoadsComplete,
                      CreatesComplete, SlotsUnique, Procs
<1>2. TypeOK /\ SlotInv /\ [Next]_vars => SlotInv'
  <2> SUFFICES ASSUME TypeOK, SlotInv, [Next]_vars PROVE SlotInv'
    OBVIOUS
  <2>1. MutexInv'
    BY MutexStep DEF SlotInv
  <2>2. ASSUME upset' = {} PROVE ListsComplete' /\ SlotsUnique'
    <3>1. upset = {}
      BY <2>2, UpsetGrows
    <3> QED
      BY <2>2, <3>1, ListsStep DEF SlotInv
  <2> QED
    BY <2>1, <2>2 DEF SlotInv
<1> QED
  BY <1>1, <1>2, TypeCorrect, PTL DEF Spec

\* No two live sandboxes share a DNS slot unless a guest.yaml read failed, the
\* root listing lagged, a commit went unanswered, a commit overtook a load or a
\* phase record brought a deleted guest.yaml back.
THEOREM SlotsUniqueCorrect == Spec => []SlotsUniqueUnlessUpset
<1>1. SlotInv => SlotsUniqueUnlessUpset
  BY DEF SlotInv, SlotsUniqueUnlessUpset
<1> QED
  BY <1>1, SlotInvCorrect, PTL

\* Under the same proviso a create never takes over the name of a live sandbox.
THEOREM NoTakeoverCorrect == Spec => NoTakeover
<1> DEFINE Kept == upset' = {} => \A n \in Live : meta'[n] \in {meta[n], NoSlot}
<1>1. TypeOK /\ SlotInv /\ [Next]_vars => [Kept]_vars
  <2> SUFFICES ASSUME TypeOK, SlotInv, [Next]_vars, upset' = {}, NEW n \in Live
               PROVE  meta'[n] \in {meta[n], NoSlot}
    OBVIOUS
  <2>0. upset = {} /\ ListsComplete /\ meta \in [Names -> Slots \cup {NoSlot}] /\ n \in Names
    BY UpsetGrows DEF SlotInv, TypeOK, Live
  <2>1. ASSUME NEW c \in Creators, CommitLands(c) PROVE meta'[n] \in {meta[n], NoSlot}
    <3>1. Entry(n) \in got[c] /\ want[c] \notin Used(got[c])
      BY <2>0, <2>1, EntriesOfLive
         DEF CommitLands, ListsComplete, CreatesComplete, Admissible
    <3>2. n # want[c]
      BY <3>1 DEF Entry, Used
    <3> QED
      BY <2>0, <2>1, <3>2 DEF CommitLands, Write
  <2>2. ASSUME NEW e \in strays, StrayLands(e) PROVE FALSE
    BY <2>0 DEF ListsComplete
  <2>3. ASSUME NEW m \in Names, DeleteMeta(m) PROVE meta'[n] \in {meta[n], NoSlot}
    BY <2>0, <2>3 DEF DeleteMeta, Write
  <2>4. CASE meta' = meta
    BY <2>4
  <2> QED
    BY <2>1, <2>2, <2>3, <2>4
       DEF Next, vars, repo, Read, Load, CacheHit, ListRoot, ListFails, FetchMeta,
           StoreList, Ask, LockCreate, Create, Reject, PickSlot, CommitRefused,
           CommitLost, InvalidateList, SeedList, CleanupReturns, CacheExpires, PhaseReads,
           PhaseWrites, PhaseEnds, Trouble, Restart
<1> QED
  BY <1>1, SlotInvCorrect, PTL DEF Spec, NoTakeover

\* A list of entries is finite.
LEMMA ListsFinite == ASSUME NEW list \in SUBSET Entries PROVE IsFiniteSet(list)
<1> DEFINE f == [e \in Entries |-> <<e.name, e.slot>>]
<1>1. IsFiniteSet(Names \X Slots)
  BY NameAssumption, SlotAssumption, FS_Product
<1>2. f \in Injection(Entries, Names \X Slots)
  BY DEF Injection, IsInjective, Entries
<1>3. IsFiniteSet(Entries)
  BY <1>1, <1>2, FS_Injection
<1> QED
  BY <1>3, FS_Subset

\* A list with every live sandbox on it has at least as many entries.
LEMMA ListsCount ==
    ASSUME NEW list \in SUBSET Entries, LiveEntries \subseteq list
    PROVE  IsFiniteSet(Live) /\ Cardinality(Live) <= Cardinality(list)
<1> DEFINE f == [n \in Live |-> Entry(n)]
<1>1. f \in Injection(Live, list)
  BY EntriesOfLive DEF Injection, IsInjective, Entry
<1> QED
  BY <1>1, ListsFinite, FS_Injection

\* There are never more live sandboxes than guestMaxCount, under the proviso of
\* SlotsUniqueUnlessUpset.
THEOREM CapCorrect == Spec => []CapRespected
<1>0. IsFiniteSet(Live)
  BY NameAssumption, FS_Subset DEF Live
<1>1. Init => CapRespected
  <2>1. Init => Live = {}
    BY DEF Init, Live
  <2> QED
    BY <2>1, FS_EmptySet, CountAssumption DEF CapRespected
<1>2. TypeOK /\ SlotInv /\ CapRespected /\ [Next]_vars => CapRespected'
  <2> SUFFICES ASSUME TypeOK, SlotInv, CapRespected, [Next]_vars, upset' = {}
               PROVE  Cardinality(Live') <= MaxCount
    BY DEF CapRespected
  <2>0. /\ upset = {} /\ ListsComplete /\ Cardinality(Live) <= MaxCount
        /\ Cardinality(Live) \in Nat /\ MaxCount \in Nat
    BY <1>0, UpsetGrows, CountAssumption, FS_CardinalityType DEF SlotInv, CapRespected
  <2>1. ASSUME NEW c \in Creators, CommitLands(c) PROVE Cardinality(Live') <= MaxCount
    <3>1. pc[c] = "commit" /\ meta' = [meta EXCEPT ![want[c]] = pick[c]]
      BY <2>1 DEF CommitLands, Write
    <3>2. /\ want[c] \in Names /\ pick[c] \in Slots
          /\ got[c] \in SUBSET Entries
      BY <3>1 DEF TypeOK, Created, Entries, Procs
    <3>3. LiveEntries \subseteq got[c] /\ Cardinality(got[c]) < MaxCount
      BY <2>0, <3>1 DEF ListsComplete, CreatesComplete, Admissible
    <3>4. Cardinality(Live) < MaxCount
      <4>1. Cardinality(got[c]) \in Nat
        BY <3>2, ListsFinite, FS_CardinalityType
      <4>2. Cardinality(Live) <= Cardinality(got[c])
        BY <3>2, <3>3, ListsCount
      <4> QED
        BY <2>0, <3>3, <4>1, <4>2
    <3>5. Live' = Live \cup {want[c]}
      BY <3>1, <3>2, OneMoreLive
    <3>6. Cardinality(Live \cup {want[c]}) \in {Cardinality(Live), Cardinality(Live) + 1}
      BY <1>0, FS_AddElement
    <3> QED
      BY <2>0, <3>4, <3>5, <3>6
  <2>2. ASSUME NEW e \in strays, StrayLands(e) PROVE FALSE
    BY <2>0 DEF ListsComplete
  <2>3. ASSUME NEW n \in Names, DeleteMeta(n) PROVE Cardinality(Live') <= MaxCount
    <3>1. Live' = Live \ {n}
      BY <2>3, FewerLive DEF DeleteMeta, Write
    <3>2. Cardinality(Live \ {n}) \in Nat /\ Cardinality(Live \ {n}) <= Cardinality(Live)
      <4>1. Live \ {n} \in SUBSET Live
        OBVIOUS
      <4> QED
        BY <1>0, <4>1, FS_Subset, FS_CardinalityType
    <3> QED
      BY <2>0, <3>1, <3>2
  <2>4. CASE meta' = meta
    BY <2>0, <2>4, SameLive
  <2> QED
    BY <2>1, <2>2, <2>3, <2>4
       DEF Next, vars, repo, Read, Load, CacheHit, ListRoot, ListFails, FetchMeta,
           StoreList, Ask, LockCreate, Create, Reject, PickSlot, CommitRefused,
           CommitLost, InvalidateList, SeedList, CleanupReturns, CacheExpires, PhaseReads,
           PhaseWrites, PhaseEnds, Trouble, Restart
<1> QED
  BY <1>1, <1>2, SlotInvCorrect, PTL DEF Spec
==============================================================================
