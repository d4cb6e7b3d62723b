-------------------------- MODULE GuestPhases_proofs --------------------------
(* Proofs about GuestPhases, for any number of records, names and keys, any   *)
(* capacity of the semaphore and any budget.                                  *)
EXTENDS GuestPhases, FiniteSetTheorems, TLAPS

\* A record has the mutex.
Holding(r) == pc[r] \in {"read", "modify", "write", "unlock"}

\* A file is gone, or belongs to a sandbox that was created.
FileFits(n) == file[n] = Gone \/ file[n].life \in 1..lives

\* What a record read is of a sandbox that was created, and is still what there is
\* unless that sandbox is gone.  It is this that the mutex keeps true, and a split
\* of it does not.
RawFits(r) ==
    LET n == job[r].name IN
      /\ job[r].raw.life \in 1..lives
      /\ n \in split \/ job[r].raw.life # file[n].life \/ job[r].raw = file[n]

\* How far a record is, what it knows, and which mutex is locked for it.
RecordFits(r) ==
    /\ pc[r] = "idle" => job[r] = NoJob
    /\ pc[r] # "idle" => job[r].name \in Names
    /\ pc[r] = "lookup" => job[r].lk = None
    /\ pc[r] \notin {"idle", "lookup"} => job[r].lk \in Mutexes
    /\ Holding(r) => job[r].lk \in held
    /\ pc[r] \in {"modify", "write"} => RawFits(r)

\* No two records hold one mutex.
Exclusive ==
    \A q, r \in Records : q # r /\ Holding(q) /\ Holding(r) => job[q].lk # job[r].lk

\* But for split names, the records of a name have one mutex, the map's if it has one.
OneMutex(n) ==
    n \notin split =>
        \A q, r \in Locking(n) : /\ job[q].lk = job[r].lk
                                 /\ locks[n] \in {None, job[r].lk}

\* An entry of the map without a file and a pass is there for a record that has yet
\* to find out that the file is gone, and will then forget the entry.
Remembered(n) ==
    file[n] = Gone /\ n \notin passes /\ locks[n] # None =>
        \E r \in InFlight(n) : pc[r] \in {"lock", "read"}

IInv ==
    /\ TypeOK
    /\ PlacesMatch
    /\ \A n \in Names : FileFits(n) /\ OneMutex(n) /\ Remembered(n)
    /\ \A r \in Records : RecordFits(r)
    /\ Exclusive

\* The server starts with no file, no mutex and no record.
LEMMA InitIInv == Init => IInv
  <1> SUFFICES ASSUME Init PROVE IInv
    OBVIOUS
  <1>1. Gone \in Files /\ NoJob \in [name : Names \cup {None}, what : Keys \cup {Reset},
                            now : Nat, lk : Mutexes \cup {None}, raw : Files]
    BY DEF Gone, Files, NoTimes, NoJob
  <1>2. TypeOK
    BY <1>1, NumberAssumption DEF Init, TypeOK
  <1>3. PlacesMatch
    <2>1. {r \in Records : pc[r] # "idle"} = {}
      BY DEF Init
    <2> QED
      BY <2>1, FS_EmptySet DEF Init, PlacesMatch
  <1>4. ASSUME NEW n \in Names PROVE FileFits(n) /\ OneMutex(n) /\ Remembered(n)
    BY NoneAssumption DEF Init, FileFits, OneMutex, Remembered, Locking, InFlight, NoJob
  <1>5. (\A r \in Records : RecordFits(r)) /\ Exclusive
    BY DEF Init, RecordFits, Exclusive, Holding
  <1> QED
    BY <1>2, <1>3, <1>4, <1>5 DEF IInv

\* &sync.Mutex{}: there is a mutex that nobody has, however many are in use, because a
\* record that looks for one has none yet, and neither has its name.
LEMMA FreshMutex ==
    ASSUME IInv, NEW r \in Records, pc[r] = "lookup", locks[job[r].name] = None
    PROVE  /\ NewMutex \in Mutexes
           /\ \A n \in Names : locks[n] # NewMutex
           /\ \A q \in Records : job[q].lk # NewMutex
  <1> DEFINE n == job[r].name
             others == Records \ {r}
             names == Names \ {n}
             theirs == {job[q].lk : q \in others}
             kept == {locks[m] : m \in names}
  <1>1. n \in Names /\ job[r].lk = None
    BY DEF IInv, RecordFits
  <1>2. /\ IsFiniteSet(others) /\ Cardinality(others) = Cardinality(Records) - 1
        /\ IsFiniteSet(names) /\ Cardinality(names) = Cardinality(Names) - 1
    BY <1>1, FiniteAssumption, FS_RemoveElement
  <1>3. IsFiniteSet(theirs) /\ Cardinality(theirs) <= Cardinality(Records) - 1
    <2> DEFINE f == [q \in others |-> job[q].lk]
    <2>1. f \in Surjection(others, theirs)
      BY DEF Surjection
    <2> QED
      BY <1>2, <2>1, FS_Surjection
  <1>4. IsFiniteSet(kept) /\ Cardinality(kept) <= Cardinality(Names) - 1
    <2> DEFINE f == [m \in names |-> locks[m]]
    <2>1. f \in Surjection(names, kept)
      BY DEF Surjection
    <2> QED
      BY <1>2, <2>1, FS_Surjection
  <1>5. ~ (Mutexes \subseteq theirs \cup kept)
    <2> HIDE DEF theirs, kept
    <2>1. /\ IsFiniteSet(theirs \cup kept)
          /\ Cardinality(theirs \cup kept) =
               Cardinality(theirs) + Cardinality(kept) - Cardinality(theirs \cap kept)
      BY <1>3, <1>4, FS_Union
    <2>2. IsFiniteSet(theirs \cap kept)
      BY <1>3, FS_Subset
    <2>3. /\ Cardinality(theirs) \in Nat /\ Cardinality(kept) \in Nat
          /\ Cardinality(theirs \cap kept) \in Nat /\ Cardinality(Mutexes) \in Nat
          /\ Cardinality(Records) \in Nat /\ Cardinality(Names) \in Nat
      BY <1>3, <1>4, <2>2, FiniteAssumption, FS_CardinalityType
    <2>4. Cardinality(theirs \cup kept) < Cardinality(Mutexes)
      BY <1>3, <1>4, <2>1, <2>3, MutexAssumption
    <2>5. Mutexes \subseteq theirs \cup kept =>
             Cardinality(Mutexes) <= Cardinality(theirs \cup kept)
      BY <2>1, FS_Subset
    <2> QED
      BY <2>1, <2>3, <2>4, <2>5
  <1>6. PICK m \in Mutexes : m \notin theirs /\ m \notin kept
    BY <1>5
  <1>7. m # None
    BY NoneAssumption
  <1>8. (\A x \in Names : locks[x] # m) /\ (\A q \in Records : job[q].lk # m)
    BY <1>1, <1>6, <1>7
  <1> QED
    BY <1>8 DEF NewMutex

\* A record that moves from one label to a later one leaves the place it has taken
\* taken, and the records in flight of every name the same.
LEMMA MoveKeeps ==
    ASSUME IInv, NEW r \in Records,
           NEW label \in {"lock", "read", "modify", "write", "unlock"},
           pc[r] # "idle", pc' = [pc EXCEPT ![r] = label],
           \A q \in Records : job'[q].name = job[q].name,
           sem' = sem
    PROVE  /\ PlacesMatch'
           /\ \A n \in Names : InFlight(n)' = InFlight(n)
           /\ \A n \in Names : Locking(n)' = Locking(n) \cup
                  (IF n = job[r].name THEN {r} ELSE {})
  <1>1. {q \in Records : pc'[q] # "idle"} = {q \in Records : pc[q] # "idle"}
    BY DEF IInv, TypeOK
  <1>2. PlacesMatch'
    BY <1>1 DEF IInv, PlacesMatch
  <1>3. \A n \in Names : InFlight(n)' = InFlight(n)
    BY DEF InFlight
  <1>4. ASSUME NEW n \in Names
        PROVE  Locking(n)' = Locking(n) \cup (IF n = job[r].name THEN {r} ELSE {})
    BY DEF Locking, InFlight, IInv, TypeOK
  <1> QED
    BY <1>2, <1>3, <1>4

\* ... and if it had the mutex already, and the map at most forgets, names and records
\* keep theirs.
LEMMA HolderKeeps ==
    ASSUME IInv, NEW r \in Records, NEW label \in {"read", "modify", "write", "unlock"},
           pc[r] \notin {"idle", "lookup"}, pc' = [pc EXCEPT ![r] = label],
           \A q \in Records : job'[q].name = job[q].name /\ job'[q].lk = job[q].lk,
           \A n \in Names : locks'[n] \in {locks[n], None},
           UNCHANGED <<sem, split>>
    PROVE  /\ PlacesMatch'
           /\ \A n \in Names : OneMutex(n)'
           /\ Holding(r) => Exclusive'
  <1>1. PlacesMatch' /\ \A n \in Names : Locking(n)' = Locking(n)
    <2>1. /\ PlacesMatch'
          /\ \A n \in Names : Locking(n)' = Locking(n) \cup
                 (IF n = job[r].name THEN {r} ELSE {})
      BY MoveKeeps
    <2>2. \A n \in Names : n = job[r].name => r \in Locking(n)
      BY DEF Locking, InFlight
    <2> QED
      BY <2>1, <2>2, ZenonT(60)
  <1>2. ASSUME NEW n \in Names PROVE OneMutex(n)'
    <2>1. \A q \in Locking(n) : q \in Records
      BY DEF Locking, InFlight
    <2> QED
      BY <1>1, <2>1 DEF OneMutex, IInv
  <1>3. Holding(r) => Exclusive'
    BY DEF Exclusive, Holding, IInv, TypeOK
  <1> QED
    BY <1>1, <1>2, <1>3

\* The job of a record that begins.
LEMMA NewJob ==
    ASSUME NEW n, NEW w, NEW t
    PROVE  [NoJob EXCEPT !.name = n, !.what = w, !.now = t] =
             [name |-> n, what |-> w, now |-> t, lk |-> None, raw |-> Gone]
  <1>1. NoJob \in [name : {None}, what : {Reset}, now : {0}, lk : {None}, raw : {Gone}]
    BY DEF NoJob
  <1> DEFINE job1 == [NoJob EXCEPT !.name = n, !.what = w, !.now = t]
  <1>2. job1 \in [name : {n}, what : {w}, now : {t}, lk : {None}, raw : {Gone}]
    BY <1>1
  <1> HIDE DEF job1
  <1>3. job1 = [name |-> n, what |-> w, now |-> t, lk |-> None, raw |-> Gone]
    BY <1>2
  <1> QED
    BY <1>3 DEF job1

\* A record gets a place in the semaphore with its job, and no mutex yet.
LEMMA RecordKeeps ==
    ASSUME IInv, NEW r \in Records, Record(r)
    PROVE  IInv'
  <1>1. PICK n \in Names, w \in Keys \cup {Reset} :
          job' = [job EXCEPT ![r] = [NoJob EXCEPT !.name = n, !.what = w, !.now = asked']]
    BY DEF Record
  <1>2. /\ pc[r] = "idle" /\ pc' = [pc EXCEPT ![r] = "lookup"]
        /\ sem < Places /\ sem' = sem + 1 /\ asked' = asked + 1
        /\ UNCHANGED <<file, lives, locks, held, budget, passes, faults, split>>
    BY DEF Record, Goto
  <1>3. /\ job'[r].name = n /\ job'[r].lk = None
        /\ \A q \in Records \ {r} : job'[q] = job[q] /\ pc'[q] = pc[q]
        /\ job[r].name = None /\ pc'[r] = "lookup"
    BY <1>1, <1>2 DEF IInv, TypeOK, RecordFits, NoJob
  <1>4. TypeOK'
    <2>1. [NoJob EXCEPT !.name = n, !.what = w, !.now = asked'] \in
            [name : Names \cup {None}, what : Keys \cup {Reset}, now : Nat,
             lk : Mutexes \cup {None}, raw : Files]
      <3>1. [NoJob EXCEPT !.name = n, !.what = w, !.now = asked'] =
              [name |-> n, what |-> w, now |-> asked', lk |-> None, raw |-> Gone]
        BY NewJob
      <3>2. asked' \in Nat
        BY <1>2 DEF IInv, TypeOK
      <3>3. Gone \in Files
        BY DEF Gone, NoTimes, Files
      <3> QED
        BY <3>1, <3>2, <3>3
    <2>2. sem' \in 0..Places
      BY <1>2, NumberAssumption DEF IInv, TypeOK
    <2> QED
      BY <1>1, <1>2, <2>1, <2>2 DEF IInv, TypeOK
  <1>5. PlacesMatch'
    <2> DEFINE busy == {q \in Records : pc[q] # "idle"}
    <2>1. {q \in Records : pc'[q] # "idle"} = busy \cup {r}
      BY <1>3
    <2>2. IsFiniteSet(busy) /\ r \notin busy
      BY <1>2, FiniteAssumption, FS_Subset
    <2>3. Cardinality(busy \cup {r}) = Cardinality(busy) + 1
      BY <2>2, FS_AddElement
    <2> QED
      BY <1>2, <2>1, <2>3 DEF IInv, PlacesMatch
  <1>6. ASSUME NEW m \in Names
        PROVE  Locking(m)' = Locking(m) /\ InFlight(m) \subseteq InFlight(m)'
    BY <1>2, <1>3, NoneAssumption DEF Locking, InFlight
  <1>7. ASSUME NEW m \in Names PROVE FileFits(m)' /\ OneMutex(m)' /\ Remembered(m)'
    <2>1. FileFits(m)'
      BY <1>2 DEF IInv, FileFits
    <2>2. OneMutex(m)'
      <3>1. r \notin Locking(m) /\ Locking(m) \subseteq Records
        BY <1>3, NoneAssumption DEF Locking, InFlight
      <3> QED
        BY <1>2, <1>3, <1>6, <3>1 DEF IInv, OneMutex
    <2>3. Remembered(m)'
      <3>1. r \notin InFlight(m) /\ InFlight(m) \subseteq Records
        BY <1>3, NoneAssumption DEF InFlight
      <3> QED
        BY <1>2, <1>3, <1>6, <3>1 DEF IInv, Remembered
    <2> QED
      BY <2>1, <2>2, <2>3
  <1>8. ASSUME NEW q \in Records PROVE RecordFits(q)'
    <2>1. CASE q = r
      BY <1>3, <2>1 DEF RecordFits, Holding
    <2>2. CASE q # r
      BY <1>2, <1>3, <2>2 DEF IInv, RecordFits, RawFits, Holding
    <2> QED
      BY <2>1, <2>2
  <1>9. Exclusive'
    BY <1>3 DEF IInv, Exclusive, Holding
  <1> QED
    BY <1>4, <1>5, <1>7, <1>8, <1>9 DEF IInv

\* A record that looks its name up has the mutex of those before it, or they are split
\* from it.
LEMMA LookupKeeps ==
    ASSUME IInv, NEW r \in Records, Lookup(r)
    PROVE  IInv'
  <1> DEFINE n == job[r].name
             m == IF locks[n] # None THEN locks[n] ELSE NewMutex
  <1>1. /\ pc[r] = "lookup" /\ pc' = [pc EXCEPT ![r] = "lock"]
        /\ job' = [job EXCEPT ![r].lk = m]
        /\ UNCHANGED <<file, lives, held, budget, sem, passes, asked, faults>>
    BY DEF Lookup, Goto
  <1>2. /\ locks' = [locks EXCEPT ![n] = m]
        /\ split' = IF locks[n] # None \/ Locking(n) = {} THEN split ELSE split \cup {n}
    BY DEF Lookup, IInv, TypeOK
  <1>3. n \in Names /\ job[r] \in [name : Names \cup {None}, what : Keys \cup {Reset},
                            now : Nat, lk : Mutexes \cup {None}, raw : Files]
    BY <1>1 DEF IInv, TypeOK, RecordFits
  <1>4. m \in Mutexes
    BY <1>1, <1>3, FreshMutex DEF IInv, TypeOK
  <1> HIDE DEF m
  <1>5. /\ job'[r].lk = m /\ job'[r].name = n /\ pc'[r] = "lock"
        /\ \A q \in Records \ {r} : job'[q] = job[q] /\ pc'[q] = pc[q]
    BY <1>1, <1>3 DEF IInv, TypeOK
  <1>6. TypeOK'
    BY <1>1, <1>2, <1>3, <1>4 DEF IInv, TypeOK
  <1>7. /\ PlacesMatch'
        /\ \A x \in Names : InFlight(x)' = InFlight(x)
        /\ \A x \in Names : Locking(x)' = Locking(x) \cup (IF x = n THEN {r} ELSE {})
    BY <1>1, <1>5, MoveKeeps
  <1>8. ASSUME NEW x \in Names PROVE FileFits(x)' /\ OneMutex(x)' /\ Remembered(x)'
    <2>1. FileFits(x)'
      BY <1>1 DEF IInv, FileFits
    <2>2. r \notin Locking(x) /\ Locking(x) \subseteq Records
      BY <1>1 DEF Locking, InFlight
    <2>3. OneMutex(x)'
      <3>1. CASE x = n
        <4>1. CASE locks[n] # None
          <5>1. m = locks[n] /\ locks'[n] = m /\ split' = split
            BY <1>2, <1>3, <4>1 DEF m, IInv, TypeOK
          <5> QED
            BY <1>5, <1>7, <2>2, <3>1, <4>1, <5>1 DEF IInv, OneMutex
        <4>2. CASE Locking(n) = {}
          <5>1. locks'[n] = m
            BY <1>2, <1>3 DEF IInv, TypeOK
          <5>2. Locking(x)' = Locking(x) \cup {r}
            BY <1>7, <3>1
          <5> QED
            BY <1>5, <3>1, <4>2, <5>1, <5>2 DEF OneMutex
        <4>3. CASE locks[n] = None /\ Locking(n) # {}
          BY <1>2, <3>1, <4>3 DEF OneMutex
        <4> QED
          BY <4>1, <4>2, <4>3
      <3>2. CASE x # n
        <4>1. locks'[x] = locks[x] /\ (x \in split' <=> x \in split)
          BY <1>2, <3>2 DEF IInv, TypeOK
        <4> QED
          BY <1>5, <1>7, <2>2, <3>2, <4>1 DEF IInv, OneMutex
      <3> QED
        BY <3>1, <3>2
    <2>4. Remembered(x)'
      <3>1. CASE x = n
        <4>1. r \in InFlight(n)'
          BY <1>5 DEF InFlight
        <4> QED
          BY <1>5, <3>1, <4>1 DEF Remembered
      <3>2. CASE x # n
        <4>1. locks'[x] = locks[x] /\ r \notin InFlight(x) /\ InFlight(x) \subseteq Records
          BY <1>2, <3>2 DEF IInv, TypeOK, InFlight
        <4> QED
          BY <1>1, <1>5, <1>7, <4>1 DEF IInv, Remembered
      <3> QED
        BY <3>1, <3>2
    <2> QED
      BY <2>1, <2>3, <2>4
  <1>9. ASSUME NEW q \in Records PROVE RecordFits(q)'
    <2>1. CASE q = r
      BY <1>3, <1>4, <1>5, <2>1 DEF RecordFits, Holding
    <2>2. CASE q # r
      BY <1>1, <1>2, <1>5, <2>2 DEF IInv, RecordFits, RawFits, Holding
    <2> QED
      BY <2>1, <2>2
  <1>10. Exclusive'
    BY <1>5 DEF IInv, Exclusive, Holding
  <1> QED
    BY <1>6, <1>7, <1>8, <1>9, <1>10 DEF IInv

\* The mutex goes to one record at a time.
LEMMA LockKeeps ==
    ASSUME IInv, NEW r \in Records, Lock(r)
    PROVE  IInv'
  <1>1. /\ pc[r] = "lock" /\ pc' = [pc EXCEPT ![r] = "read"]
        /\ job[r].lk \notin held /\ held' = held \cup {job[r].lk}
        /\ UNCHANGED <<file, lives, locks, budget, sem, job, passes, asked, faults, split>>
    BY DEF Lock, Goto
  <1>2. job[r].lk \in Mutexes /\ pc'[r] = "read" /\ \A q \in Records \ {r} : pc'[q] = pc[q]
    BY <1>1 DEF IInv, TypeOK, RecordFits
  <1>3. TypeOK'
    BY <1>1, <1>2 DEF IInv, TypeOK
  <1>4. PlacesMatch' /\ \A n \in Names : OneMutex(n)'
    BY <1>1, HolderKeeps
  <1>5. ASSUME NEW n \in Names PROVE FileFits(n)' /\ Remembered(n)'
    BY <1>1, <1>2 DEF IInv, FileFits, Remembered, InFlight
  <1>6. ASSUME NEW q \in Records PROVE RecordFits(q)'
    BY <1>1, <1>2 DEF IInv, RecordFits, RawFits, Holding
  <1>7. Exclusive'
    BY <1>1, <1>2 DEF IInv, Exclusive, Holding, RecordFits
  <1> QED
    BY <1>3, <1>4, <1>5, <1>6, <1>7 DEF IInv

\* What a record has read is what there is.
LEMMA ReadKeeps ==
    ASSUME IInv, NEW r \in Records, Read(r)
    PROVE  IInv'
  <1> DEFINE n == job[r].name
  <1>1. /\ pc[r] = "read" /\ pc' = [pc EXCEPT ![r] = "modify"]
        /\ file[n] # Gone /\ job' = [job EXCEPT ![r].raw = file[n]]
        /\ UNCHANGED <<file, lives, locks, held, budget, sem, passes, asked, faults, split>>
    BY DEF Read, Goto
  <1>2. n \in Names /\ file[n].life \in 1..lives /\ file[n] \in Files
    BY <1>1 DEF IInv, TypeOK, RecordFits, FileFits
  <1>3. /\ job'[r].name = n /\ job'[r].lk = job[r].lk /\ job'[r].raw = file[n]
        /\ pc'[r] = "modify"
        /\ \A q \in Records \ {r} : job'[q] = job[q] /\ pc'[q] = pc[q]
    BY <1>1 DEF IInv, TypeOK
  <1>4. TypeOK'
    BY <1>1, <1>2 DEF IInv, TypeOK
  <1>5. PlacesMatch' /\ Exclusive' /\ \A m \in Names : OneMutex(m)'
    BY <1>1, <1>3, HolderKeeps DEF Holding
  <1>6. ASSUME NEW m \in Names PROVE FileFits(m)' /\ Remembered(m)'
    BY <1>1, <1>3 DEF IInv, FileFits, Remembered, InFlight
  <1>7. ASSUME NEW q \in Records PROVE RecordFits(q)'
    BY <1>1, <1>2, <1>3 DEF IInv, RecordFits, RawFits, Holding
  <1> QED
    BY <1>4, <1>5, <1>6, <1>7 DEF IInv

\* The map forgets a name: nobody has to remember it any more.
LEMMA ForgetIsTyped ==
    ASSUME TypeOK, NEW n \in Names, Forget(n)
    PROVE  /\ locks' \in [Names -> Mutexes \cup {None}]
           /\ budget' \in [Names -> 0..MaxWrites]
           /\ locks'[n] = None
           /\ \A m \in Names \ {n} : locks'[m] = locks[m]
  BY NumberAssumption DEF TypeOK, Forget

\* A record that finds no file forgets its name.
LEMMA ReadFailsKeeps ==
    ASSUME IInv, NEW r \in Records, ReadFails(r)
    PROVE  IInv'
  <1> DEFINE n == job[r].name
  <1>1. /\ pc[r] = "read" /\ pc' = [pc EXCEPT ![r] = "unlock"] /\ Forget(n)
        /\ faults' \in {faults, faults + 1}
        /\ UNCHANGED <<file, lives, held, sem, job, passes, asked, split>>
    BY DEF ReadFails, Goto, Fault
  <1>2. /\ n \in Names /\ pc'[r] = "unlock" /\ \A q \in Records \ {r} : pc'[q] = pc[q]
    BY <1>1 DEF IInv, TypeOK, RecordFits
  <1>3. /\ locks' \in [Names -> Mutexes \cup {None}] /\ budget' \in [Names -> 0..MaxWrites]
        /\ locks'[n] = None /\ \A m \in Names \ {n} : locks'[m] = locks[m]
    BY <1>1, <1>2, ForgetIsTyped DEF IInv
  <1>4. TypeOK'
    BY <1>1, <1>3 DEF IInv, TypeOK
  <1>5. PlacesMatch' /\ Exclusive' /\ \A m \in Names : OneMutex(m)'
    <2>1. \A m \in Names : locks'[m] \in {locks[m], None}
      BY <1>3
    <2>2. \A q \in Records : job'[q].name = job[q].name /\ job'[q].lk = job[q].lk
      BY <1>1
    <2> QED
      BY <1>1, <2>1, <2>2, HolderKeeps DEF Holding
  <1>6. ASSUME NEW m \in Names PROVE FileFits(m)' /\ Remembered(m)'
    <2>1. FileFits(m)'
      BY <1>1 DEF IInv, FileFits
    <2>2. CASE m = n
      BY <1>3, <2>1, <2>2 DEF Remembered
    <2>3. CASE m # n
      BY <1>1, <1>2, <1>3, <2>1, <2>3 DEF IInv, Remembered, InFlight
    <2> QED
      BY <2>2, <2>3
  <1>7. ASSUME NEW q \in Records PROVE RecordFits(q)'
    BY <1>1, <1>2 DEF IInv, RecordFits, RawFits, Holding
  <1> QED
    BY <1>4, <1>5, <1>6, <1>7 DEF IInv

\* The budget is counted, and spent as long as there is some.
LEMMA TakeKeeps ==
    ASSUME IInv, NEW r \in Records, Take(r) \/ NothingToWrite(r)
    PROVE  IInv'
  <1>1. PICK label \in {"write", "unlock"} : pc' = [pc EXCEPT ![r] = label]
    BY DEF Take, NothingToWrite, Goto
  <1>2. /\ pc[r] = "modify"
        /\ UNCHANGED <<file, lives, locks, held, sem, job, passes, asked, faults, split>>
    BY DEF Take, NothingToWrite
  <1>3. pc'[r] = label /\ \A q \in Records \ {r} : pc'[q] = pc[q]
    BY <1>1 DEF IInv, TypeOK
  <1>4. TypeOK'
    <2>1. job[r].name \in Names
      BY <1>2 DEF IInv, RecordFits
    <2>2. budget' \in [Names -> 0..MaxWrites]
      <3>1. CASE Take(r)
        BY <2>1, <3>1, NumberAssumption DEF Take, IInv, TypeOK
      <3>2. CASE NothingToWrite(r)
        BY <3>2 DEF NothingToWrite, IInv, TypeOK
      <3> QED
        BY <3>1, <3>2
    <2> QED
      BY <1>1, <1>2, <2>2 DEF IInv, TypeOK
  <1>5. PlacesMatch' /\ Exclusive' /\ \A m \in Names : OneMutex(m)'
    BY <1>1, <1>2, HolderKeeps DEF Holding
  <1>6. ASSUME NEW m \in Names PROVE FileFits(m)' /\ Remembered(m)'
    BY <1>2, <1>3 DEF IInv, FileFits, Remembered, InFlight
  <1>7. ASSUME NEW q \in Records PROVE RecordFits(q)'
    BY <1>2, <1>3 DEF IInv, RecordFits, RawFits, Holding
  <1> QED
    BY <1>4, <1>5, <1>6, <1>7 DEF IInv

\* What a record writes is of the sandbox it read, and each time is what it read, or one
\* that was not there.
LEMMA UpdatedFits ==
    ASSUME IInv, NEW r \in Records, pc[r] \in {"modify", "write"}
    PROVE  /\ Updated(r) \in Files
           /\ Updated(r).life = job[r].raw.life
           /\ job[r].raw.life \in 1..lives
           /\ \/ Updated(r).times = NoTimes
              \/ \A k \in Keys : \/ job[r].raw.times[k] = 0
                                  \/ Updated(r).times[k] = job[r].raw.times[k]
  <1> DEFINE raw == job[r].raw
             what == job[r].what
  <1>1. raw \in Files /\ what \in Keys \cup {Reset} /\ job[r].now \in Nat
    BY DEF IInv, TypeOK
  <1>2. raw.life \in 1..lives
    BY DEF IInv, RecordFits, RawFits
  <1>3. CASE what = Reset
    <2>1. Updated(r) = [raw EXCEPT !.times = NoTimes]
      BY <1>3 DEF Updated
    <2> QED
      BY <1>1, <1>2, <2>1 DEF Files, NoTimes
  <1>4. CASE what # Reset /\ raw.times[what] # 0
    BY <1>1, <1>2, <1>4 DEF Updated
  <1>5. CASE what # Reset /\ raw.times[what] = 0
    <2>1. Updated(r) = [raw EXCEPT !.times[what] = job[r].now]
      BY <1>5 DEF Updated
    <2> QED
      BY <1>1, <1>2, <1>5, <2>1 DEF Files
  <1> QED
    BY <1>3, <1>4, <1>5

\* Nobody else of that name is between reading and writing, unless it is split; and the
\* file there is now has its name remembered.
LEMMA WriteKeeps ==
    ASSUME IInv, NEW r \in Records, Write(r) \/ WriteFails(r)
    PROVE  IInv'
  <1> DEFINE n == job[r].name
  <1>1. /\ pc[r] = "write" /\ pc' = [pc EXCEPT ![r] = "unlock"]
        /\ faults' \in {faults, faults + 1}
        /\ file' \in {file, [file EXCEPT ![n] = Updated(r)]}
        /\ UNCHANGED <<lives, locks, held, budget, sem, job, passes, asked, split>>
    BY DEF Write, WriteFails, Goto, Fault
  <1>2. n \in Names /\ pc'[r] = "unlock" /\ \A q \in Records \ {r} : pc'[q] = pc[q]
    BY <1>1 DEF IInv, TypeOK, RecordFits
  <1>3. Updated(r) \in Files /\ Updated(r).life \in 1..lives
    BY <1>1, UpdatedFits
  <1>4. /\ \A m \in Names \ {n} : file'[m] = file[m]
        /\ file'[n] \in {file[n], Updated(r)}
        /\ Updated(r) # Gone
    BY <1>1, <1>2, <1>3 DEF IInv, TypeOK, Gone
  <1> HIDE DEF n
  <1>5. TypeOK'
    BY <1>1, <1>3 DEF IInv, TypeOK
  <1>6. PlacesMatch' /\ Exclusive' /\ \A m \in Names : OneMutex(m)'
    BY <1>1, HolderKeeps DEF Holding
  <1>7. ASSUME NEW m \in Names PROVE FileFits(m)' /\ Remembered(m)'
    <2>1. FileFits(m)'
      BY <1>1, <1>3, <1>4 DEF IInv, FileFits
    <2>2. file'[m] = Gone => file[m] = Gone
      BY <1>4
    <2>3. Remembered(m)'
      BY <1>1, <1>2, <2>2 DEF IInv, Remembered, InFlight
    <2> QED
      BY <2>1, <2>3
  <1>8. ASSUME NEW q \in Records PROVE RecordFits(q)'
    <2>1. CASE pc'[q] \in {"modify", "write"}
      <3>1. q # r /\ pc'[q] = pc[q] /\ job'[q] = job[q]
        BY <1>1, <1>2, <2>1
      <3>2. job[q].name \in Names /\ RawFits(q)
        BY <2>1, <3>1 DEF IInv, RecordFits
      <3>3. n \in split \/ job[q].name # n
        <4>1. job[q].lk # job[r].lk
          BY <1>1, <2>1, <3>1 DEF IInv, Exclusive, Holding
        <4> QED
          BY <1>1, <1>2, <2>1, <3>1, <4>1 DEF IInv, OneMutex, Locking, InFlight, n
      <3>4. RawFits(q)'
        BY <1>1, <1>4, <3>1, <3>2, <3>3 DEF RawFits
      <3> QED
        BY <1>1, <2>1, <3>1, <3>4 DEF IInv, RecordFits, Holding
    <2>2. CASE pc'[q] \notin {"modify", "write"}
      BY <1>1, <1>2, <2>2 DEF IInv, RecordFits, Holding
    <2> QED
      BY <2>1, <2>2
  <1> QED
    BY <1>5, <1>6, <1>7, <1>8 DEF IInv

\* A record that ends leaves the mutex and the place to others; the last one of a name
\* also ends its split.
LEMMA EndKeeps ==
    ASSUME IInv, NEW r \in Records, End(r)
    PROVE  IInv'
  <1>1. PICK n \in Names : n = job[r].name
    BY DEF End, IInv, RecordFits
  <1>2. /\ pc[r] = "unlock" /\ pc' = [pc EXCEPT ![r] = "idle"]
        /\ job' = [job EXCEPT ![r] = NoJob]
        /\ held' = held \ {job[r].lk} /\ sem' = sem - 1
        /\ split' = IF InFlight(n) = {r} THEN split \ {n} ELSE split
        /\ UNCHANGED <<file, lives, locks, budget, passes, asked, faults>>
    BY <1>1 DEF End, Goto
  <1>3. /\ pc'[r] = "idle" /\ job'[r] = NoJob
        /\ \A q \in Records \ {r} : job'[q] = job[q] /\ pc'[q] = pc[q]
    BY <1>2 DEF IInv, TypeOK
  <1>4. sem \in Nat /\ sem # 0 /\ PlacesMatch'
    <2> DEFINE busy == {q \in Records : pc[q] # "idle"}
    <2>1. {q \in Records : pc'[q] # "idle"} = busy \ {r}
      BY <1>3
    <2>2. IsFiniteSet(busy) /\ r \in busy
      BY <1>2, FiniteAssumption, FS_Subset
    <2>3. Cardinality(busy \ {r}) = Cardinality(busy) - 1 /\ Cardinality(busy) # 0
      BY <2>2, FS_RemoveElement, FS_EmptySet
    <2>4. sem = Cardinality(busy) /\ Cardinality(busy) \in Nat
      BY <2>2, FS_CardinalityType DEF IInv, PlacesMatch
    <2> QED
      BY <1>2, <2>1, <2>3, <2>4 DEF PlacesMatch
  <1>5. TypeOK'
    <2>1. NoJob \in [name : Names \cup {None}, what : Keys \cup {Reset}, now : Nat,
                     lk : Mutexes \cup {None}, raw : Files]
      BY DEF NoJob, Gone, NoTimes, Files
    <2>2. sem' \in 0..Places
      BY <1>2, <1>4, NumberAssumption DEF IInv, TypeOK
    <2> QED
      BY <1>2, <2>1, <2>2 DEF IInv, TypeOK
  <1>6. ASSUME NEW m \in Names
        PROVE  InFlight(m)' = InFlight(m) \ {r} /\ Locking(m)' = Locking(m) \ {r}
    BY <1>2, <1>3, NoneAssumption DEF Locking, InFlight, NoJob
  <1>7. ASSUME NEW m \in Names PROVE FileFits(m)' /\ OneMutex(m)' /\ Remembered(m)'
    <2>1. FileFits(m)'
      BY <1>2 DEF IInv, FileFits
    <2>2. OneMutex(m)'
      <3>1. Locking(m) \subseteq InFlight(m) /\ InFlight(m) \subseteq Records
        BY DEF Locking, InFlight
      <3>2. CASE m = n /\ InFlight(n) = {r}
        BY <1>6, <3>1, <3>2 DEF OneMutex
      <3>3. CASE ~ (m = n /\ InFlight(n) = {r})
        <4>1. m \in split' <=> m \in split
          BY <1>2, <3>3
        <4> QED
          BY <1>2, <1>3, <1>6, <3>1, <4>1 DEF IInv, OneMutex
      <3> QED
        BY <3>2, <3>3
    <2>3. Remembered(m)'
      <3>1. InFlight(m) \subseteq Records
        BY DEF InFlight
      <3> QED
        BY <1>2, <1>3, <1>6, <3>1 DEF IInv, Remembered
    <2> QED
      BY <2>1, <2>2, <2>3
  <1>8. ASSUME NEW q \in Records PROVE RecordFits(q)'
    <2>1. CASE q = r
      BY <1>3, <2>1 DEF RecordFits, Holding
    <2>2. CASE q # r
      <3>1. job'[q] = job[q] /\ pc'[q] = pc[q] /\ RecordFits(q)
        BY <1>3, <2>2 DEF IInv
      <3>2. Holding(q) => job[q].lk \in held'
        BY <1>2, <2>2, <3>1 DEF IInv, RecordFits, Exclusive, Holding
      <3>3. RawFits(q) => RawFits(q)'
        <4>1. job[q].name \in split => job[q].name \in split'
          BY <1>2, <2>2 DEF InFlight
        <4> QED
          BY <1>2, <3>1, <4>1 DEF RawFits
      <3> QED
        BY <3>1, <3>2, <3>3 DEF RecordFits, Holding
    <2> QED
      BY <2>1, <2>2
  <1>9. Exclusive'
    BY <1>3 DEF IInv, Exclusive, Holding
  <1> QED
    BY <1>4, <1>5, <1>7, <1>8, <1>9 DEF IInv

\* Steps that leave the records and the mutexes alone.
LEMMA RecordsStay ==
    ASSUME IInv, UNCHANGED <<held, sem, pc, job, split>>,
           \A n \in Names : locks'[n] \in {locks[n], None}
    PROVE  /\ PlacesMatch' /\ Exclusive'
           /\ \A n \in Names : OneMutex(n)' /\ InFlight(n)' = InFlight(n)
  <1>1. PlacesMatch' /\ Exclusive'
    BY DEF IInv, PlacesMatch, Exclusive, Holding
  <1>2. ASSUME NEW n \in Names PROVE OneMutex(n)' /\ InFlight(n)' = InFlight(n)
    <2>1. Locking(n)' = Locking(n) /\ InFlight(n)' = InFlight(n)
      BY DEF Locking, InFlight
    <2> QED
      BY <2>1 DEF IInv, OneMutex
  <1> QED
    BY <1>1, <1>2

\* A sandbox's file is not mistaken for an earlier one's: its life is its own.
LEMMA CreateKeeps ==
    ASSUME IInv, NEW n \in Names, Create(n)
    PROVE  IInv'
  <1> DEFINE new == [life |-> lives + 1, times |-> NoTimes]
  <1>1. /\ file[n] = Gone /\ lives' = lives + 1 /\ file' = [file EXCEPT ![n] = new]
        /\ UNCHANGED <<locks, held, budget, sem, pc, job, passes, asked, faults, split>>
    <2>1. Gone \in [life : {0}, times : {NoTimes}]
      BY DEF Gone
    <2>2. [Gone EXCEPT !.life = lives'] \in [life : {lives'}, times : {NoTimes}]
      BY <2>1
    <2>3. [Gone EXCEPT !.life = lives'] = [life |-> lives', times |-> NoTimes]
      BY <2>2
    <2> QED
      BY <2>3 DEF Create, memory
  <1>2. lives \in Nat /\ new \in Files /\ new # Gone
    BY DEF IInv, TypeOK, Files, NoTimes, Gone
  <1>3. file'[n] = new /\ \A m \in Names \ {n} : file'[m] = file[m]
    BY <1>1 DEF IInv, TypeOK
  <1>4. TypeOK'
    BY <1>1, <1>2 DEF IInv, TypeOK
  <1>5. PlacesMatch' /\ Exclusive' /\ \A m \in Names : OneMutex(m)' /\ InFlight(m)' = InFlight(m)
    BY <1>1, RecordsStay
  <1>6. ASSUME NEW m \in Names PROVE FileFits(m)' /\ Remembered(m)'
    <2>1. CASE m = n
      BY <1>1, <1>2, <1>3, <2>1 DEF FileFits, Remembered
    <2>2. CASE m # n
      BY <1>1, <1>2, <1>3, <1>5, <2>2 DEF IInv, FileFits, Remembered
    <2> QED
      BY <2>1, <2>2
  <1>7. ASSUME NEW q \in Records PROVE RecordFits(q)'
    BY <1>1, <1>2, <1>3 DEF IInv, RecordFits, RawFits, Holding
  <1> QED
    BY <1>4, <1>5, <1>6, <1>7 DEF IInv

\* A deleted file takes its sandbox's life with it, and the pass has yet to forget it.
LEMMA DeleteKeeps ==
    ASSUME IInv, NEW n \in Names, DeleteMeta(n)
    PROVE  IInv'
  <1>1. /\ file' = [file EXCEPT ![n] = Gone] /\ passes' = passes \cup {n}
        /\ UNCHANGED <<lives, locks, held, budget, sem, pc, job, asked, faults, split>>
    BY DEF DeleteMeta
  <1>2. file'[n] = Gone /\ \A m \in Names \ {n} : file'[m] = file[m]
    BY <1>1 DEF IInv, TypeOK
  <1>3. TypeOK'
    BY <1>1 DEF IInv, TypeOK, Gone, NoTimes, Files
  <1>4. PlacesMatch' /\ Exclusive' /\ \A m \in Names : OneMutex(m)' /\ InFlight(m)' = InFlight(m)
    BY <1>1, RecordsStay
  <1>5. ASSUME NEW m \in Names PROVE FileFits(m)' /\ Remembered(m)'
    BY <1>1, <1>2, <1>4 DEF IInv, FileFits, Remembered
  <1>6. ASSUME NEW q \in Records PROVE RecordFits(q)'
    BY <1>1, <1>2 DEF IInv, RecordFits, RawFits, Holding, Gone
  <1> QED
    BY <1>3, <1>4, <1>5, <1>6 DEF IInv

\* A pass that ends forgets the name.
LEMMA PassEndsKeeps ==
    ASSUME IInv, NEW n \in Names, PassEnds(n)
    PROVE  IInv'
  <1>1. /\ passes' = passes \ {n} /\ Forget(n) /\ faults' \in {faults, faults + 1}
        /\ UNCHANGED <<file, lives, held, sem, pc, job, asked, split>>
    BY DEF PassEnds, Fault
  <1>2. /\ locks' \in [Names -> Mutexes \cup {None}] /\ budget' \in [Names -> 0..MaxWrites]
        /\ locks'[n] = None /\ \A m \in Names \ {n} : locks'[m] = locks[m]
    BY <1>1, ForgetIsTyped DEF IInv
  <1>3. TypeOK'
    BY <1>1, <1>2 DEF IInv, TypeOK
  <1>4. PlacesMatch' /\ Exclusive' /\ \A m \in Names : OneMutex(m)' /\ InFlight(m)' = InFlight(m)
    BY <1>1, <1>2, RecordsStay
  <1>5. ASSUME NEW m \in Names PROVE FileFits(m)' /\ Remembered(m)'
    BY <1>1, <1>2, <1>4 DEF IInv, FileFits, Remembered
  <1>6. ASSUME NEW q \in Records PROVE RecordFits(q)'
    BY <1>1 DEF IInv, RecordFits, RawFits, Holding
  <1> QED
    BY <1>3, <1>4, <1>5, <1>6 DEF IInv

\* A restart leaves the files, and no record to have read one.
LEMMA RestartKeeps ==
    ASSUME IInv, Restart
    PROVE  IInv'
  <1>1. Gone \in Files /\ NoJob \in [name : Names \cup {None}, what : Keys \cup {Reset},
                            now : Nat, lk : Mutexes \cup {None}, raw : Files]
    BY DEF Gone, Files, NoTimes, NoJob
  <1>2. TypeOK'
    BY <1>1, NumberAssumption DEF Restart, Fault, IInv, TypeOK
  <1>3. PlacesMatch'
    <2>1. {r \in Records : pc'[r] # "idle"} = {}
      BY DEF Restart
    <2> QED
      BY <2>1, FS_EmptySet DEF Restart, PlacesMatch
  <1>4. ASSUME NEW n \in Names PROVE FileFits(n)' /\ OneMutex(n)' /\ Remembered(n)'
    BY NoneAssumption DEF Restart, IInv, FileFits, OneMutex, Remembered, Locking, InFlight, NoJob
  <1>5. (\A r \in Records : RecordFits(r)') /\ Exclusive'
    BY DEF Restart, RecordFits, Exclusive, Holding
  <1> QED
    BY <1>2, <1>3, <1>4, <1>5 DEF IInv

\* Every step of the server, of a create and of a delete pass keeps it.
LEMMA NextKeeps == IInv /\ [Next]_vars => IInv'
  <1> SUFFICES ASSUME IInv, [Next]_vars PROVE IInv'
    OBVIOUS
  <1>1. ASSUME NEW r \in Records, Record(r) \/ Lock(r) \/ Step(r) PROVE IInv'
    BY <1>1, RecordKeeps, LockKeeps, LookupKeeps, ReadKeeps, ReadFailsKeeps, TakeKeeps,
       WriteKeeps, EndKeeps DEF Step
  <1>2. ASSUME NEW n \in Names, Create(n) \/ DeleteMeta(n) \/ PassEnds(n) PROVE IInv'
    BY <1>2, CreateKeeps, DeleteKeeps, PassEndsKeeps
  <1>3. CASE UNCHANGED vars
    <2>1. UNCHANGED <<held, sem, pc, job, split, file, lives, locks, budget, passes, asked, faults>>
      BY <1>3 DEF vars, memory
    <2>2. TypeOK'
      BY <2>1 DEF IInv, TypeOK
    <2>3. PlacesMatch' /\ Exclusive' /\ \A m \in Names : OneMutex(m)' /\ InFlight(m)' = InFlight(m)
      BY <2>1, RecordsStay
    <2>4. ASSUME NEW m \in Names PROVE FileFits(m)' /\ Remembered(m)'
      BY <2>1, <2>3 DEF IInv, FileFits, Remembered
    <2>5. ASSUME NEW q \in Records PROVE RecordFits(q)'
      BY <2>1 DEF IInv, RecordFits, RawFits, Holding
    <2> QED
      BY <2>2, <2>3, <2>4, <2>5 DEF IInv
  <1> QED
    BY <1>1, <1>2, <1>3, RestartKeeps DEF Next, Idle

\* What the theorems below have in common.
LEMMA Inductive == Safety => []IInv
  BY InitIInv, NextKeeps, PTL DEF Safety

\* The variables keep their types: in particular the semaphore is neither overdrawn nor
\* freed twice, and a budget is never exceeded (guestPhaseSem, takeGuestPhaseWrite).
THEOREM TypeCorrect == Safety => []TypeOK
  <1>1. IInv => TypeOK
    BY DEF IInv
  <1> QED
    BY <1>1, Inductive, PTL

\* As many places are taken as there are records under way, whichever way each of them
\* ended (handleRecordGuestPhase and its goroutine).
THEOREM PlacesAreCounted == Safety => []PlacesMatch
  <1>1. IInv => PlacesMatch
    BY DEF IInv
  <1> QED
    BY <1>1, Inductive, PTL

\* A name without a file, a pass and a record has no entry in guestMetaLk, however many
\* guesses there were (forgetGuestMeta, guest.go:643).
THEOREM NoLockLeaks == Safety => []LocksForgotten
  <1>1. IInv => LocksForgotten
    BY DEF IInv, Remembered, LocksForgotten
  <1> QED
    BY <1>1, Inductive, PTL

\* A recorded time is written once, as long as the records of its name were not put
\* under two mutexes (persistGuestPhase, lockGuestMeta).
THEOREM TimesAreWrittenOnce == Safety => TimesKeptUnlessSplit
  <1>1. ASSUME IInv, [Next]_vars, NEW n \in Names, Loses(n)
        PROVE  n \in split
    <2>1. PICK k \in Keys : file[n].times[k] # 0 /\ file'[n].times[k] # file[n].times[k]
      BY <1>1 DEF Loses
    <2>2. file'[n] # file[n]
      BY <2>1
    <2>3. CASE \E r \in Records : Write(r) \/ WriteFails(r)
      <3>1. PICK r \in Records : Write(r) \/ WriteFails(r)
        BY <2>3
      <3>2. pc[r] = "write" /\ file' \in {file, [file EXCEPT ![job[r].name] = Updated(r)]}
        BY <3>1 DEF Write, WriteFails
      <3>3. job[r].name = n /\ file'[n] = Updated(r)
        BY <1>1, <2>2, <3>2 DEF IInv, TypeOK
      <3>4. n \in split \/ job[r].raw = file[n]
        <4>1. RawFits(r) /\ Updated(r).life = job[r].raw.life
          BY <1>1, <3>2, UpdatedFits DEF IInv, RecordFits
        <4> QED
          BY <1>1, <3>3, <4>1 DEF RawFits, Loses
      <3>5. job[r].raw # file[n]
        BY <1>1, <2>1, <3>2, <3>3, UpdatedFits DEF Loses
      <3> QED
        BY <3>4, <3>5
    <2>4. CASE \E m \in Names : Create(m) \/ DeleteMeta(m)
      <3>1. PICK m \in Names : Create(m) \/ DeleteMeta(m)
        BY <2>4
      <3>2. m = n
        BY <1>1, <2>2, <3>1 DEF Create, DeleteMeta, IInv, TypeOK
      <3>3. file'[n].times = NoTimes
        BY <1>1, <3>1, <3>2 DEF Create, DeleteMeta, Gone, IInv, TypeOK
      <3> QED
        BY <1>1, <3>3 DEF Loses
    <2>5. CASE file' = file
      BY <2>2, <2>5
    <2> QED
      BY <1>1, <2>3, <2>4, <2>5 DEF Next, Step, Record, Lock, Lookup, Read, ReadFails, Take,
         NothingToWrite, End, PassEnds, Restart, Idle, vars
  <1>2. IInv /\ [Next]_vars => [\A n \in Names : Loses(n) => n \in split]_vars
    BY <1>1
  <1> QED
    BY <1>2, Inductive, PTL DEF Safety, TimesKeptUnlessSplit

==============================================================================
