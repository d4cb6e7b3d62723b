-------------------------- MODULE Workspaces_proofs ---------------------------
(* Proofs about Workspaces, for any number of requests, pages, workspaces and *)
(* resources, and any bounds.                                                 *)
EXTENDS Workspaces, TLAPS

\* A request that was let in is a contributor's, is at a step of its kind, and changes
\* a sandbox only to delete it, or that is noted.
JobFits(r) ==
    pc[r] # "idle" =>
        /\ job[r].token = "contributor"
        /\ job[r].kind = "delete" <=> pc[r] \in {"list", "delete"}
        /\ job[r].kind = "remove" <=> pc[r] = "remove"
        /\ pc[r] = "resource" => job[r].kind = "add"
        /\ job[r].kind = "delete" \/ job[r].ws \in Tenants \/ "meddled" \in upset
        /\ job[r].kind \in {"add", "remove"} => job[r].name # "namespace" \/ "named" \in upset

\* So is a write that may land late, and does.
LateFits(l) ==
    /\ "late" \in upset
    /\ l.token = "contributor"
    /\ l.ws \in Tenants \/ (l.file = "namespace" /\ l.to = "no") \/ "meddled" \in upset

\* Nothing went wrong that NoOrphans excepts.  NoOrphans says that the namespace.yaml is
\* there; why it stays is said by the requests under way, each of which counts on what
\* it has read or written before.
Calm == upset \cap {"overlap", "late", "named", "blind"} = {}

Founded(w)    == dirs[w]["namespace"] = "namespace" \/ (w \in Guests /\ "left" \in upset)
Apart(q, r)   == pc[q] = "delete" /\ pc[r] # "idle" /\ job[r].kind = "add"
                     => job[q].ws # job[r].ws
FoundEmpty(r) == pc[r] = "delete" => Emptied(job[r].ws)
Begun(r)      == pc[r] = "resource" => Founded(job[r].ws)
Whole(w)      == There(w) => Founded(w)

Ordered ==
    /\ \A q, r \in Requests : Apart(q, r)
    /\ \A r \in Requests : FoundEmpty(r) /\ Begun(r)
    /\ \A w \in Names : Whole(w)

WritesFit ==
    /\ \A r \in Requests : JobFits(r)
    /\ \A l \in late : LateFits(l)
    /\ Calm => Ordered

\* Nothing went wrong that GuestsListed excepts.  What a page has got so far and what it
\* has still to fetch are then the sandboxes there are; and those in the cache are, too,
\* and have their guest.yaml, so that a contributor's request to delete one changes
\* nothing about it being there.
Steady   == upset \cap {"fill", "lag", "left", "meddled"} = {}
Dated(g) == dirs[g]["guest"] = "guest"

FillFits(p) ==
    todo[p] # Idle =>
        /\ \A g \in Guests : There(g) => g \in todo[p] \/ \E e \in got[p] : e.name = g
        /\ \A e \in got[p] : e.name \in Guests /\ e.dated => Dated(e.name)

Fresh == wsCache.set /\ owed = {}
Listed ==
    /\ {e \in wsCache.list : e.name \in Guests} =
           [name : {g \in Guests : There(g)}, dated : {TRUE}]
    /\ \A g \in Guests : There(g) => Dated(g)

PagesFit == Steady => (Fresh => Listed) /\ \A p \in Pages : FillFits(p)

IInv == TypeOK /\ WritesFit /\ PagesFit

------------------------------------------------------------------------------
\* A directory is there when one of its files is.
LEMMA ThereFacts ==
    ASSUME NEW d \in [Files -> Kept]
    PROVE  d # Nothing <=> \E f \in Files : d[f] # "no"
  BY DEF Nothing

\* Every workspace has a directory, and every file of it a content.
LEMMA DirFacts ==
    ASSUME TypeOK
    PROVE  /\ \A w \in Names : dirs[w] \in [Files -> Kept]
           /\ "namespace" \in Files /\ "guest" \in Files /\ Resources \subseteq Files
           /\ Tenants \subseteq Names /\ Guests \subseteq Names
           /\ \A w \in Names : There(w) <=> \E f \in Files : dirs[w][f] # "no"
           /\ \A w \in Names : Dated(w) => There(w)
  <1>1. \A w \in Names : dirs[w] \in [Files -> Kept]
    BY DEF TypeOK
  <1>2. /\ "namespace" \in Files /\ "guest" \in Files /\ Resources \subseteq Files
        /\ Tenants \subseteq Names /\ Guests \subseteq Names
    BY DEF Files, Names
  <1>3. \A w \in Names : There(w) <=> \E f \in Files : dirs[w][f] # "no"
    BY <1>1, ThereFacts DEF There
  <1> QED
    BY <1>1, <1>2, <1>3 DEF Dated

\* A write changes one file.
LEMMA PutFacts ==
    ASSUME TypeOK, NEW w \in Names, NEW f \in Files, NEW to \in Kept,
           dirs' = [dirs EXCEPT ![w][f] = to]
    PROVE  /\ dirs' \in [Names -> [Files -> Kept]]
           /\ dirs'[w][f] = to
           /\ \A h \in Files \ {f} : dirs'[w][h] = dirs[w][h]
           /\ \A v \in Names \ {w} : dirs'[v] = dirs[v]
           /\ \A v \in Names : There(v)' <=> \E h \in Files : dirs'[v][h] # "no"
  <1>1. dirs \in [Names -> [Files -> Kept]] /\ dirs[w] \in [Files -> Kept]
    BY DEF TypeOK
  <1>2. dirs' = [dirs EXCEPT ![w] = [dirs[w] EXCEPT ![f] = to]]
    BY <1>1
  <1>3. /\ dirs'[w] = [dirs[w] EXCEPT ![f] = to]
        /\ dirs'[w] \in [Files -> Kept]
        /\ dirs' \in [Names -> [Files -> Kept]]
        /\ \A v \in Names \ {w} : dirs'[v] = dirs[v]
    BY <1>1, <1>2
  <1>4. dirs'[w][f] = to /\ \A h \in Files \ {f} : dirs'[w][h] = dirs[w][h]
    BY <1>1, <1>3
  <1>5. ASSUME NEW v \in Names PROVE There(v)' <=> \E h \in Files : dirs'[v][h] # "no"
    <2>1. dirs'[v] \in [Files -> Kept]
      BY <1>3
    <2>2. dirs'[v] # Nothing <=> \E h \in Files : dirs'[v][h] # "no"
      BY <2>1, ThereFacts
    <2> QED
      BY <2>2 DEF There, Nothing
  <1> QED
    BY <1>3, <1>4, <1>5

\* What a request writes, and where.
LEMMA TargetFacts ==
    ASSUME IInv, NEW r \in Requests, Writing(r)
    PROVE  /\ job[r].ws \in Names /\ Target(r) \in Files /\ Content(r) \in Kept
           /\ pc[r] \in {"namespace", "resource", "delete", "remove"}
           /\ JobFits(r) /\ pc[r] # "idle"
           /\ job[r].ws \notin Tenants /\ "meddled" \notin upset
                  => Target(r) = "namespace" /\ Content(r) = "no"
  <1>1. job[r] \in Jobs /\ pc[r] \in {"namespace", "resource", "delete", "remove"} /\ JobFits(r)
    BY DEF IInv, TypeOK, WritesFit, Writing
  <1>2. job[r].ws \in Names /\ job[r].name \in Files
    BY <1>1 DEF Jobs
  <1>3. Target(r) \in Files /\ Content(r) \in Kept
    BY <1>1, <1>2 DEF Target, Content, Files, Kept
  <1>4. ASSUME job[r].ws \notin Tenants, "meddled" \notin upset
        PROVE  Target(r) = "namespace" /\ Content(r) = "no"
    <2>1. pc[r] = "delete"
      BY <1>1, <1>4 DEF JobFits
    <2> QED
      BY <2>1 DEF Target, Content
  <1> QED
    BY <1>1, <1>2, <1>3, <1>4

------------------------------------------------------------------------------
\* Where nothing is written and no request moves, what they count on stays.
LEMMA WritesStay ==
    ASSUME WritesFit, UNCHANGED <<dirs, late, pc, job>>, upset \subseteq upset'
    PROVE  WritesFit'
  <1>1. UNCHANGED <<dirs, late, pc, job>>
    OBVIOUS
  <1>2. \A r \in Requests : JobFits(r)'
    BY <1>1 DEF WritesFit, JobFits
  <1>3. \A l \in late' : LateFits(l)'
    BY <1>1 DEF WritesFit, LateFits
  <1>4. Calm' => Calm
    BY DEF Calm
  <1>5. Ordered => Ordered'
    BY <1>1 DEF Ordered, Apart, FoundEmpty, Emptied, Begun, Whole, Founded, There
  <1> QED
    BY <1>2, <1>3, <1>4, <1>5 DEF WritesFit

\* Where no sandbox changes and no page moves, what the pages have got still fits.
LEMMA PagesStay ==
    ASSUME PagesFit, UNCHANGED <<dirs, wsCache, owed, todo, got>>, upset \subseteq upset'
    PROVE  PagesFit'
  <1>1. UNCHANGED <<dirs, wsCache, owed, todo, got>>
    OBVIOUS
  <1>2. Steady' => Steady
    BY DEF Steady
  <1>3. \A p \in Pages : FillFits(p) => FillFits(p)'
    BY <1>1 DEF FillFits, There, Dated
  <1>4. (Fresh => Listed) => (Fresh => Listed)'
    BY <1>1 DEF Fresh, Listed, There, Dated
  <1> QED
    BY <1>2, <1>3, <1>4 DEF PagesFit

\* A request that is answered counts on nothing any more.
LEMMA AnsweredKeeps ==
    ASSUME IInv, NEW r \in Requests, Answer(r), UNCHANGED dirs, upset \subseteq upset',
           \A l \in late' : LateFits(l)'
    PROVE  WritesFit'
  <1>1. /\ pc'[r] = "idle"
        /\ \A q \in Requests \ {r} : pc'[q] = pc[q] /\ job'[q] = job[q]
        /\ UNCHANGED dirs
    BY DEF Answer, Goto, IInv, TypeOK
  <1>2. ASSUME NEW q \in Requests PROVE JobFits(q)'
    <2>1. JobFits(q)
      BY DEF IInv, WritesFit
    <2> QED
      BY <1>1, <2>1 DEF JobFits
  <1>3. ASSUME Calm' PROVE Ordered'
    <2>1. Ordered
      BY <1>3 DEF Calm, IInv, WritesFit
    <2>2. \A p, q \in Requests : Apart(p, q)'
      BY <1>1, <2>1 DEF Ordered, Apart
    <2>3. \A w : Founded(w) => Founded(w)'
      BY <1>1 DEF Founded
    <2>4. \A q \in Requests : FoundEmpty(q)' /\ Begun(q)'
      BY <1>1, <2>1, <2>3 DEF Ordered, FoundEmpty, Emptied, Begun
    <2>5. \A w \in Names : Whole(w)'
      BY <1>1, <2>1, <2>3 DEF Ordered, Whole, There
    <2> QED
      BY <2>2, <2>4, <2>5 DEF Ordered
  <1> QED
    BY <1>2, <1>3 DEF WritesFit

\* An answer leaves everything in its range.
LEMMA AnswerTypes ==
    ASSUME Parameters, TypeOK, NEW r \in Requests, Answer(r),
           dirs' \in [Names -> [Files -> Kept]], late' \in SUBSET Late,
           before' \in SUBSET Names, UNCHANGED faults \/ Fault,
           upset' \in SUBSET Upsets,
           UNCHANGED <<wsCache, todo, got, answer, open, owed, asked, lives>>
    PROVE  TypeOK'
  <1>1. NoJob \in Jobs
    BY DEF NoJob, Jobs, Names, Files, Tokens, Parameters
  <1>2. /\ pc' = [pc EXCEPT ![r] = "idle"] /\ job' = [job EXCEPT ![r] = NoJob]
        /\ UNCHANGED <<wsCache, todo, got, answer, open, owed, asked, lives>>
    BY DEF Answer, Goto
  <1>3. /\ pc' \in [Requests -> {"idle", "namespace", "resource", "list", "delete", "remove"}]
        /\ job' \in [Requests -> Jobs]
    BY <1>1, <1>2 DEF TypeOK
  <1>4. faults' \in 0..MaxFaults
    BY DEF TypeOK, Fault, Parameters
  <1> QED
    BY <1>2, <1>3, <1>4 DEF TypeOK

\* Where no sandbox appears and none loses its guest.yaml, what the pages have got fits.
LEMMA PagesKeep ==
    ASSUME PagesFit, UNCHANGED <<wsCache, owed, todo, got>>, upset \subseteq upset',
           ASSUME Steady', NEW g \in Guests
           PROVE  (There(g)' => There(g)) /\ (Dated(g) => Dated(g)') /\ (Dated(g)' => There(g)')
    PROVE  PagesFit'
  <1> SUFFICES ASSUME Steady' PROVE (Fresh => Listed)' /\ \A p \in Pages : FillFits(p)'
    BY DEF PagesFit
  <1>1. UNCHANGED <<wsCache, owed, todo, got>>
    OBVIOUS
  <1>2. \A g \in Guests : (There(g)' => There(g)) /\ (Dated(g) => Dated(g)')
                           /\ (Dated(g)' => There(g)')
    OBVIOUS
  <1>3. (Fresh => Listed) /\ \A p \in Pages : FillFits(p)
    BY DEF Steady, PagesFit
  <1>4. ASSUME NEW p \in Pages PROVE FillFits(p)'
    BY <1>1, <1>2, <1>3 DEF FillFits
  <1>5. ASSUME Fresh' PROVE Listed'
    <2>1. Listed
      BY <1>1, <1>3, <1>5 DEF Fresh
    <2>2. \A g \in Guests : There(g)' <=> There(g)
      BY <1>2, <2>1 DEF Listed
    <2>3. {g \in Guests : There(g)}' = {g \in Guests : There(g)}
      BY <2>2
    <2> QED
      BY <1>1, <1>2, <2>1, <2>2, <2>3 DEF Listed
  <1> QED
    BY <1>4, <1>5

\* A contributor's write takes no more from a sandbox than its namespace.yaml, or that
\* is noted, and one that is listed has its guest.yaml.
LEMMA PagesKeepPut ==
    ASSUME IInv, NEW w \in Names, NEW f \in Files, NEW to \in Kept,
           dirs' = [dirs EXCEPT ![w][f] = to],
           w \in Guests /\ "meddled" \notin upset' => f = "namespace" /\ to = "no",
           UNCHANGED <<wsCache, owed, todo, got>>, upset \subseteq upset'
    PROVE  PagesFit'
  <1>1. TypeOK /\ PagesFit /\ UNCHANGED <<wsCache, owed, todo, got>>
    BY DEF IInv
  <1>2. ASSUME Steady', NEW g \in Guests
        PROVE  (There(g)' => There(g)) /\ (Dated(g) => Dated(g)') /\ (Dated(g)' => There(g)')
    <2>1. g \in Names /\ "guest" \in Files /\ "guest" # "namespace"
      BY DEF Names, Files
    <2>2. w \in Guests => f = "namespace" /\ to = "no"
      BY <1>2 DEF Steady
    <2>3. dirs'[g]["guest"] = dirs[g]["guest"]
      BY <1>1, <2>1, <2>2, PutFacts
    <2>4. \A h \in Files : dirs'[g][h] # "no" => dirs[g][h] # "no"
      BY <1>1, <2>1, <2>2, PutFacts
    <2>5. There(g)' <=> \E h \in Files : dirs'[g][h] # "no"
      BY <1>1, <2>1, PutFacts
    <2> QED
      BY <1>1, <2>1, <2>3, <2>4, <2>5, DirFacts DEF Dated
  <1> QED
    BY <1>1, <1>2, PagesKeep

------------------------------------------------------------------------------
\* There is nothing at first.
LEMMA InitIInv ==
    ASSUME Parameters, Init
    PROVE  IInv
  <1>1. NoJob \in Jobs
    <2>1. (CHOOSE w \in Names : TRUE) \in Names
      BY DEF Parameters, Names
    <2> QED
      BY <2>1 DEF NoJob, Jobs, Files, Tokens
  <1>2. TypeOK
    BY <1>1 DEF Init, TypeOK, Parameters, Nothing, Kept, Invalid
  <1>3. \A w \in Names : ~ There(w)
    BY DEF Init, There
  <1>4. WritesFit
    <2>1. \A r \in Requests : pc[r] = "idle"
      BY DEF Init
    <2>2. Ordered
      BY <1>3, <2>1 DEF Ordered, Apart, FoundEmpty, Begun, Whole
    <2> QED
      BY <2>1, <2>2 DEF Init, WritesFit, JobFits
  <1>5. PagesFit
    BY DEF Init, PagesFit, FillFits, Fresh, Invalid
  <1> QED
    BY <1>2, <1>4, <1>5 DEF IInv

\* A request is let in with the role, and takes note of what it overlaps with.
LEMMA ArriveKeeps ==
    ASSUME Parameters, IInv, NEW r \in Requests, Arrive(r)
    PROVE  IInv'
  <1>1. TypeOK /\ WritesFit /\ PagesFit
    BY DEF IInv
  <1>2. PICK j \in Jobs :
           /\ j.kind \in {"create", "delete"} => j.name = "namespace"
           /\ Admitted(j)
           /\ job' = [job EXCEPT ![r] = j]
           /\ Goto(r, CASE j.kind \in {"create", "add"} -> "namespace"
                        [] j.kind = "delete" -> "list"
                        [] j.kind = "remove" -> "remove")
           /\ upset' = upset
                \cup (IF j.kind \in {"add", "remove"} /\ j.name = "namespace" THEN {"named"} ELSE {})
                \cup (IF j.kind # "delete" /\ j.ws \in Guests THEN {"meddled"} ELSE {})
                \cup (IF j.kind = "add" /\ Deleting(j.ws) # {} THEN {"overlap"} ELSE {})
    BY DEF Arrive
  <1>3. /\ asked < MaxAsks /\ asked' = asked + 1 /\ pc[r] = "idle"
        /\ UNCHANGED <<dirs, before, open, late, wsCache, todo, got, answer, owed, lives, faults>>
    BY DEF Arrive, repo, reads
  <1>4. /\ j.kind \in {"create", "delete", "add", "remove"} /\ j.ws \in Names /\ j.name \in Files
        /\ j.token = "contributor"
    BY <1>2 DEF Jobs, Admitted
  <1>5. PICK label \in {"namespace", "list", "remove"} :
           /\ pc' = [pc EXCEPT ![r] = label]
           /\ label = "namespace" <=> j.kind \in {"create", "add"}
           /\ label = "list" <=> j.kind = "delete"
           /\ label = "remove" <=> j.kind = "remove"
    BY <1>2, <1>4 DEF Goto
  <1>6. /\ pc'[r] = label /\ job'[r] = j
        /\ \A q \in Requests \ {r} : pc'[q] = pc[q] /\ job'[q] = job[q]
    BY <1>1, <1>2, <1>5 DEF TypeOK
  <1>7. TypeOK'
    <2>1. asked' \in 0..MaxAsks
      BY <1>1, <1>3 DEF TypeOK, Parameters
    <2>2. upset' \in SUBSET Upsets
      BY <1>1, <1>2 DEF TypeOK, Upsets
    <2>3. job' \in [Requests -> Jobs]
      BY <1>1, <1>2 DEF TypeOK
    <2>4. pc' \in [Requests -> {"idle", "namespace", "resource", "list", "delete", "remove"}]
      BY <1>1, <1>5 DEF TypeOK
    <2> QED
      BY <1>1, <1>3, <2>1, <2>2, <2>3, <2>4 DEF TypeOK
  <1>8. upset \subseteq upset'
    BY <1>2
  <1>9. ASSUME NEW q \in Requests PROVE JobFits(q)'
    <2>1. CASE q = r
      <3>1. j.kind \in {"add", "remove"} => j.name # "namespace" \/ "named" \in upset'
        BY <1>2
      <3>2. j.kind = "delete" \/ j.ws \in Tenants \/ "meddled" \in upset'
        BY <1>2, <1>4 DEF Names
      <3> QED
        BY <1>4, <1>5, <1>6, <2>1, <3>1, <3>2 DEF JobFits
    <2>2. CASE q # r
      BY <1>1, <1>6, <1>8, <2>2 DEF WritesFit, JobFits
    <2> QED
      BY <2>1, <2>2
  <1>10. \A l \in late' : LateFits(l)'
    BY <1>1, <1>3, <1>8 DEF WritesFit, LateFits
  <1>11. ASSUME Calm' PROVE Ordered'
    <2>1. Ordered
      BY <1>1, <1>8, <1>11 DEF Calm, WritesFit
    <2>2. j.kind = "add" => \A q \in Requests : pc[q] = "delete" => job[q].ws # j.ws
      BY <1>2, <1>11 DEF Calm, Deleting
    <2>3. ASSUME NEW p \in Requests, NEW q \in Requests PROVE Apart(p, q)'
      <3>1. CASE p = r
        BY <1>6, <3>1 DEF Apart
      <3>2. CASE p # r /\ q = r
        BY <1>6, <2>2, <3>2 DEF Apart
      <3>3. CASE p # r /\ q # r
        BY <1>6, <2>1, <3>3 DEF Apart, Ordered
      <3> QED
        BY <3>1, <3>2, <3>3
    <2>4. \A w : Founded(w) => Founded(w)'
      BY <1>3, <1>8 DEF Founded
    <2>5. ASSUME NEW q \in Requests PROVE FoundEmpty(q)' /\ Begun(q)'
      BY <1>3, <1>6, <2>1, <2>4 DEF Ordered, FoundEmpty, Emptied, Begun
    <2>6. \A w \in Names : Whole(w)'
      BY <1>3, <2>1, <2>4 DEF Ordered, Whole, There
    <2> QED
      BY <2>3, <2>5, <2>6 DEF Ordered
  <1>12. PagesFit'
    BY <1>1, <1>3, <1>8, PagesStay
  <1> QED
    BY <1>7, <1>9, <1>10, <1>11, <1>12 DEF IInv, WritesFit

\* A request's write leaves what the others count on: none of them adds to a workspace
\* that this one deletes, or deletes one that this one adds to.
LEMMA WriteKeeps ==
    ASSUME Parameters, IInv, NEW r \in Requests, Write(r)
    PROVE  IInv'
  <1>1. TypeOK /\ WritesFit /\ PagesFit
    BY DEF IInv
  <1>2. PICK w, f, to : w = job[r].ws /\ f = Target(r) /\ to = Content(r)
    OBVIOUS
  <1>3. /\ w \in Names /\ f \in Files /\ to \in Kept
        /\ pc[r] \in {"namespace", "resource", "delete", "remove"} /\ JobFits(r)
        /\ w \in Guests /\ "meddled" \notin upset => f = "namespace" /\ to = "no"
    BY <1>2, TargetFacts DEF Write, Parameters
  <1>4. /\ dirs' = [dirs EXCEPT ![w][f] = to]
        /\ before' = {v \in Names : There(v)}
        /\ UNCHANGED <<late, wsCache, todo, got, answer, open, owed, asked, lives, faults, upset>>
    BY <1>2 DEF Write, Put, reads, counts
  <1>5. \/ /\ job[r].kind = "add" /\ pc[r] = "namespace"
           /\ pc' = [pc EXCEPT ![r] = "resource"] /\ job' = job
        \/ /\ ~ (job[r].kind = "add" /\ pc[r] = "namespace")
           /\ pc' = [pc EXCEPT ![r] = "idle"] /\ job' = [job EXCEPT ![r] = NoJob]
    BY DEF Write, Answer, Goto
  <1>6. NoJob \in Jobs
    BY DEF NoJob, Jobs, Names, Files, Tokens, Parameters
  <1>7. /\ \A q \in Requests \ {r} : pc'[q] = pc[q] /\ job'[q] = job[q]
        /\ \/ /\ pc'[r] = "resource" /\ job'[r] = job[r] /\ job[r].kind = "add"
              /\ pc[r] = "namespace"
           \/ pc'[r] = "idle"
    BY <1>1, <1>5 DEF TypeOK
  <1>8. /\ dirs' \in [Names -> [Files -> Kept]]
        /\ dirs'[w][f] = to
        /\ \A h \in Files \ {f} : dirs'[w][h] = dirs[w][h]
        /\ \A v \in Names \ {w} : dirs'[v] = dirs[v]
        /\ \A v \in Names : There(v)' <=> \E h \in Files : dirs'[v][h] # "no"
        /\ \A v \in Names : There(v) <=> \E h \in Files : dirs[v][h] # "no"
    BY <1>1, <1>3, <1>4, PutFacts, DirFacts
  <1>9. TypeOK'
    <2>1. pc' \in [Requests -> {"idle", "namespace", "resource", "list", "delete", "remove"}]
      BY <1>1, <1>5 DEF TypeOK
    <2>2. job' \in [Requests -> Jobs]
      BY <1>1, <1>5, <1>6 DEF TypeOK
    <2> QED
      BY <1>1, <1>4, <1>8, <2>1, <2>2 DEF TypeOK
  <1>10. PagesFit'
    BY <1>3, <1>4, PagesKeepPut
  <1>11. ASSUME NEW q \in Requests PROVE JobFits(q)'
    <2>1. JobFits(q)
      BY <1>1 DEF WritesFit
    <2> QED
      BY <1>4, <1>7, <2>1 DEF JobFits
  <1>12. ASSUME Calm' PROVE Ordered'
    <2>1. Ordered /\ FoundEmpty(r) /\ Begun(r) /\ "named" \notin upset
      BY <1>1, <1>4, <1>12 DEF Calm, WritesFit, Ordered
    <2>2. /\ pc[r] = "namespace" => f = "namespace" /\ to = "namespace"
          /\ pc[r] = "resource" => f # "namespace" /\ to = "resource" /\ job[r].kind = "add"
          /\ pc[r] = "delete" => f = "namespace" /\ to = "no"
          /\ pc[r] = "remove" => f # "namespace" /\ to = "no"
      BY <1>2, <1>3, <2>1 DEF Target, Content, JobFits
    <2>3. /\ "namespace" \in Files
          /\ pc[r] = "delete" \/ (f # "namespace" \/ to = "namespace")
          /\ \A v : v # w => (Founded(v) => Founded(v)')
      BY <1>3, <1>4, <1>8, <2>2 DEF Files, Founded
    <2>4. ASSUME NEW p \in Requests, NEW q \in Requests PROVE Apart(p, q)'
      <3>1. Apart(p, q) /\ Apart(p, r)
        BY <2>1 DEF Ordered
      <3> QED
        BY <1>7, <3>1 DEF Apart
    <2>5. ASSUME pc[r] # "delete", Founded(w) \/ f = "namespace" PROVE Founded(w)'
      <3>1. CASE f = "namespace"
        BY <1>8, <2>3, <2>5, <3>1 DEF Founded
      <3>2. CASE f # "namespace"
        BY <1>4, <1>8, <2>3, <2>5, <3>2 DEF Founded
      <3> QED
        BY <3>1, <3>2
    <2>6. ASSUME NEW v \in Names PROVE Whole(v)'
      <3>1. Whole(v)
        BY <2>1 DEF Ordered
      <3>2. CASE v # w
        BY <1>8, <2>3, <3>1, <3>2 DEF Whole
      <3>3. CASE v = w /\ pc[r] = "delete"
        <4>1. \A h \in Files \ {"namespace"} : dirs[w][h] = "no"
          BY <1>2, <2>1, <3>3 DEF FoundEmpty, Emptied
        <4>2. \A h \in Files : dirs'[w][h] = "no"
          BY <1>8, <2>2, <3>3, <4>1
        <4> QED
          BY <1>8, <3>3, <4>2 DEF Whole
      <3>4. CASE v = w /\ pc[r] # "delete"
        <4>1. There(w)' => There(w) \/ pc[r] = "resource" \/ f = "namespace"
          BY <1>3, <1>8, <2>2, <2>3, <3>4
        <4> QED
          BY <1>2, <2>1, <2>5, <3>1, <3>4, <4>1 DEF Whole, Begun
      <3> QED
        BY <3>2, <3>3, <3>4
    <2>7. ASSUME NEW q \in Requests PROVE FoundEmpty(q)'
      <3> SUFFICES ASSUME pc'[q] = "delete", NEW h \in Files \ {"namespace"}
                   PROVE  dirs'[job'[q].ws][h] = "no"
        BY DEF FoundEmpty, Emptied
      <3>1. q # r /\ pc[q] = "delete" /\ job'[q] = job[q]
        BY <1>7
      <3>2. job[q].ws \in Names /\ dirs[job[q].ws][h] = "no"
        BY <1>1, <2>1, <3>1 DEF TypeOK, Jobs, Ordered, FoundEmpty, Emptied
      <3>3. CASE job[q].ws # w
        BY <1>8, <3>1, <3>2, <3>3
      <3>4. CASE job[q].ws = w
        <4>1. pc[r] # "resource"
          BY <1>2, <1>3, <2>1, <2>2, <3>1, <3>4 DEF Ordered, Apart
        <4>2. f = "namespace" \/ to = "no"
          BY <1>3, <2>2, <4>1
        <4> QED
          BY <1>8, <3>1, <3>2, <3>4, <4>2
      <3> QED
        BY <3>3, <3>4
    <2>8. ASSUME NEW q \in Requests PROVE Begun(q)'
      <3> SUFFICES ASSUME pc'[q] = "resource" PROVE Founded(job[q].ws)' /\ job'[q] = job[q]
        BY DEF Begun, Founded
      <3>1. CASE q = r
        BY <1>2, <1>7, <2>2, <2>5, <3>1
      <3>2. CASE q # r
        <4>1. /\ pc[q] = "resource" /\ job'[q] = job[q] /\ job[q].kind = "add"
              /\ job[q].ws \in Names /\ Founded(job[q].ws)
          BY <1>1, <1>7, <2>1, <3>2 DEF TypeOK, Jobs, Ordered, Begun, WritesFit, JobFits
        <4>2. CASE job[q].ws # w
          BY <2>3, <4>1, <4>2
        <4>3. CASE job[q].ws = w
          <5>1. pc[r] # "delete"
            BY <1>2, <2>1, <4>1, <4>3 DEF Ordered, Apart
          <5> QED
            BY <2>5, <4>1, <4>3, <5>1
        <4> QED
          BY <4>2, <4>3
      <3> QED
        BY <3>1, <3>2
    <2> QED
      BY <2>4, <2>6, <2>7, <2>8 DEF Ordered
  <1>13. \A l \in late' : LateFits(l)'
    BY <1>1, <1>4 DEF WritesFit, LateFits
  <1> QED
    BY <1>9, <1>10, <1>11, <1>12, <1>13 DEF IInv, WritesFit

\* A write that fails, or finds nothing to delete, is answered.
LEMMA WriteRefusedKeeps ==
    ASSUME Parameters, IInv, NEW r \in Requests, WriteRefused(r)
    PROVE  IInv'
  <1>1. /\ Answer(r) /\ (UNCHANGED faults \/ Fault)
        /\ UNCHANGED <<dirs, before, open, late, wsCache, todo, got, answer, owed, asked, lives, upset>>
    BY DEF WriteRefused, repo, reads
  <1>2. TypeOK'
    <2>1. /\ dirs' \in [Names -> [Files -> Kept]] /\ late' \in SUBSET Late
          /\ before' \in SUBSET Names
          /\ upset' \in SUBSET Upsets
      BY <1>1 DEF IInv, TypeOK
    <2> QED
      BY <1>1, <2>1, AnswerTypes DEF IInv
  <1>3. \A l \in late' : LateFits(l)'
    BY <1>1 DEF IInv, WritesFit, LateFits
  <1> QED
    BY <1>1, <1>2, <1>3, AnsweredKeeps, PagesStay DEF IInv

\* So is one without an answer; it is a contributor's all the same.
LEMMA WriteLostKeeps ==
    ASSUME Parameters, IInv, NEW r \in Requests, WriteLost(r)
    PROVE  IInv'
  <1>1. PICK l : l = [ws |-> job[r].ws, file |-> Target(r), to |-> Content(r),
                      from |-> dirs[job[r].ws][Target(r)], token |-> job[r].token]
    OBVIOUS
  <1>2. /\ Writing(r) /\ Answer(r) /\ Fault
        /\ late' = late \cup {l} /\ upset' = upset \cup {"late"}
        /\ UNCHANGED <<dirs, before, open, wsCache, todo, got, answer, owed, asked, lives>>
    BY <1>1 DEF WriteLost, repo, reads
  <1>3. /\ job[r].ws \in Names /\ Target(r) \in Files /\ Content(r) \in Kept /\ JobFits(r)
        /\ pc[r] # "idle" /\ job[r].token \in Tokens
        /\ dirs[job[r].ws][Target(r)] \in Kept
        /\ \/ job[r].ws \in Tenants \/ "meddled" \in upset
           \/ Target(r) = "namespace" /\ Content(r) = "no"
    BY <1>2, TargetFacts DEF Names, IInv, TypeOK, Jobs
  <1>4. l \in Late /\ l.token = "contributor"
        /\ \/ l.ws \in Tenants \/ "meddled" \in upset
           \/ l.file = "namespace" /\ l.to = "no"
    BY <1>1, <1>3 DEF Late, JobFits
  <1>5. upset \subseteq upset' /\ "late" \in upset'
    BY <1>2
  <1>6. \A k \in late' : LateFits(k)'
    BY <1>2, <1>4, <1>5 DEF IInv, WritesFit, LateFits
  <1>7. TypeOK'
    <2>1. /\ dirs' \in [Names -> [Files -> Kept]] /\ late' \in SUBSET Late
          /\ before' \in SUBSET Names
          /\ upset' \in SUBSET Upsets
      BY <1>2, <1>4 DEF IInv, TypeOK, Upsets
    <2> QED
      BY <1>2, <2>1, AnswerTypes DEF IInv
  <1> QED
    BY <1>2, <1>5, <1>6, <1>7, AnsweredKeeps, PagesStay DEF IInv

\* When one lands late, nothing is said any more of what others count on.
LEMMA LateWriteKeeps ==
    ASSUME Parameters, IInv, NEW l \in late, LateWrite(l)
    PROVE  IInv'
  <1>1. PICK w, f, to : w = l.ws /\ f = l.file /\ to = l.to
    OBVIOUS
  <1>2. /\ dirs' = [dirs EXCEPT ![w][f] = to]
        /\ before' = {v \in Names : There(v)} /\ late' = late \ {l}
        /\ UNCHANGED <<pc, job, wsCache, todo, got, answer, open, owed, asked, lives, faults, upset>>
    BY <1>1 DEF LateWrite, Put, writes, reads, counts
  <1>3. /\ TypeOK /\ WritesFit /\ PagesFit /\ LateFits(l)
        /\ w \in Names /\ f \in Files /\ to \in Kept
    BY <1>1 DEF IInv, WritesFit, TypeOK, Late
  <1>4. w \in Guests /\ "meddled" \notin upset' => f = "namespace" /\ to = "no"
    BY <1>1, <1>2, <1>3 DEF LateFits, Parameters
  <1>5. /\ dirs' \in [Names -> [Files -> Kept]]
        /\ dirs'[w][f] = to
        /\ \A h \in Files \ {f} : dirs'[w][h] = dirs[w][h]
        /\ \A v \in Names \ {w} : dirs'[v] = dirs[v]
    BY <1>2, <1>3, PutFacts, ZenonT(60)
  <1>6. TypeOK'
    BY <1>2, <1>3, <1>5 DEF TypeOK
  <1>7. PagesFit'
    BY <1>2, <1>3, <1>4, PagesKeepPut
  <1>8. /\ \A r \in Requests : JobFits(r)'
        /\ \A k \in late' : LateFits(k)'
        /\ ~ Calm'
    BY <1>2, <1>3 DEF WritesFit, JobFits, LateFits, Calm
  <1> QED
    BY <1>6, <1>7, <1>8 DEF IInv, WritesFit

\* A request goes on to delete a workspace that is empty and that nobody adds to, or it
\* is noted that it does not know.
LEMMA GoesOnKeeps ==
    ASSUME Parameters, IInv, NEW r \in Requests, pc[r] = "list", Goto(r, "delete"),
           upset \subseteq upset', upset' \in SUBSET Upsets, UNCHANGED faults \/ Fault,
           Calm' => Emptied(job[r].ws) /\ Adding(job[r].ws) = {},
           UNCHANGED <<dirs, before, open, late, job, wsCache, todo, got, answer, owed, asked, lives>>
    PROVE  IInv'
  <1>1. /\ TypeOK /\ WritesFit /\ PagesFit
        /\ UNCHANGED <<dirs, before, open, late, job, wsCache, todo, got, answer, owed, asked, lives>>
    BY DEF IInv
  <1>2. PICK w : w = job[r].ws
    OBVIOUS
  <1>3. pc'[r] = "delete" /\ \A q \in Requests \ {r} : pc'[q] = pc[q]
    BY <1>1 DEF Goto, TypeOK
  <1>4. TypeOK'
    <2>1. pc' \in [Requests -> {"idle", "namespace", "resource", "list", "delete", "remove"}]
      BY <1>1 DEF TypeOK, Goto
    <2>2. faults' \in 0..MaxFaults
      BY <1>1 DEF TypeOK, Fault, Parameters
    <2> QED
      BY <1>1, <2>1, <2>2 DEF TypeOK
  <1>5. ASSUME NEW q \in Requests PROVE JobFits(q)'
    <2>1. JobFits(q)
      BY <1>1 DEF WritesFit
    <2>2. CASE q = r
      BY <1>1, <1>3, <2>1, <2>2 DEF JobFits
    <2>3. CASE q # r
      BY <1>1, <1>3, <2>1, <2>3 DEF JobFits
    <2> QED
      BY <2>2, <2>3
  <1>6. \A l \in late' : LateFits(l)'
    BY <1>1 DEF WritesFit, LateFits
  <1>7. ASSUME Calm' PROVE Ordered'
    <2>1. Ordered /\ Emptied(w) /\ Adding(w) = {}
      BY <1>1, <1>2, <1>7 DEF Calm, WritesFit
    <2>2. \A q \in Requests : ~ (pc[q] # "idle" /\ job[q].ws = w /\ job[q].kind = "add")
      BY <2>1 DEF Adding
    <2>3. job[r].kind = "delete"
      BY <1>1 DEF WritesFit, JobFits
    <2>4. ASSUME NEW p \in Requests, NEW q \in Requests PROVE Apart(p, q)'
      <3>1. pc'[q] # "idle" /\ job'[q].kind = "add" => pc[q] # "idle" /\ q # r
        BY <1>1, <1>3, <2>3
      <3>2. CASE p = r
        BY <1>1, <1>2, <1>3, <2>2, <3>1, <3>2 DEF Apart
      <3>3. CASE p # r
        BY <1>1, <1>3, <2>1, <3>1, <3>3 DEF Apart, Ordered
      <3> QED
        BY <3>2, <3>3
    <2>5. \A v : Founded(v) => Founded(v)'
      BY <1>1 DEF Founded
    <2>6. ASSUME NEW q \in Requests PROVE FoundEmpty(q)' /\ Begun(q)'
      <3>1. CASE q = r
        BY <1>1, <1>2, <1>3, <2>1, <3>1 DEF FoundEmpty, Emptied, Begun
      <3>2. CASE q # r
        BY <1>1, <1>3, <2>1, <2>5, <3>2 DEF Ordered, FoundEmpty, Emptied, Begun
      <3> QED
        BY <3>1, <3>2
    <2>7. \A v \in Names : Whole(v)'
      BY <1>1, <2>1, <2>5 DEF Ordered, Whole, There
    <2> QED
      BY <2>4, <2>6, <2>7 DEF Ordered
  <1>8. PagesFit'
    BY <1>1, PagesStay
  <1> QED
    BY <1>4, <1>5, <1>6, <1>7, <1>8 DEF IInv, WritesFit

\* The workspace is empty when it is listed, and nobody adds to it, or that is noted.
LEMMA ListKeeps ==
    ASSUME Parameters, IInv, NEW r \in Requests, List(r)
    PROVE  IInv'
  <1>1. /\ TypeOK /\ WritesFit /\ PagesFit /\ pc[r] = "list"
        /\ UNCHANGED <<dirs, before, open, late, wsCache, todo, got, answer, owed, asked, lives, faults>>
    BY DEF List, IInv, repo, reads, counts
  <1>2. PICK w : w = job[r].ws
    OBVIOUS
  <1>3. CASE Answer(r) /\ UNCHANGED upset
    <2>1. TypeOK'
      <3>1. /\ dirs' \in [Names -> [Files -> Kept]] /\ late' \in SUBSET Late
            /\ before' \in SUBSET Names
            /\ upset' \in SUBSET Upsets
        BY <1>1, <1>3 DEF TypeOK
      <3> QED
        BY <1>1, <1>3, <3>1, AnswerTypes
    <2>2. \A l \in late' : LateFits(l)'
      BY <1>1, <1>3 DEF WritesFit, LateFits
    <2> QED
      BY <1>1, <1>3, <2>1, <2>2, AnsweredKeeps, PagesStay DEF IInv
  <1>4. CASE /\ Emptied(w)
             /\ Goto(r, "delete") /\ UNCHANGED job
             /\ upset' = IF Adding(w) = {} THEN upset ELSE upset \cup {"overlap"}
    <2>1. upset \subseteq upset' /\ upset' \in SUBSET Upsets
      BY <1>1, <1>4 DEF TypeOK, Upsets
    <2>2. UNCHANGED faults \/ Fault
      BY <1>1
    <2>3. Calm' => Emptied(w) /\ Adding(w) = {}
      BY <1>4 DEF Calm
    <2> QED
      BY <1>1, <1>2, <1>4, <2>1, <2>2, <2>3, GoesOnKeeps
  <1> QED
    BY <1>2, <1>3, <1>4 DEF List

\* Or a listing that lags makes it seem so, and that is noted.
LEMMA ListLagsKeeps ==
    ASSUME Parameters, IInv, NEW r \in Requests, ListLags(r)
    PROVE  IInv'
  <1>1. /\ TypeOK /\ pc[r] = "list" /\ Goto(r, "delete") /\ Fault
        /\ upset' = upset \cup {"blind"}
        /\ UNCHANGED <<dirs, before, open, late, job, wsCache, todo, got, answer, owed, asked, lives>>
    BY DEF ListLags, IInv, repo, reads
  <1>2. upset \subseteq upset' /\ upset' \in SUBSET Upsets /\ ~ Calm'
    BY <1>1 DEF TypeOK, Upsets, Calm
  <1> QED
    BY <1>1, <1>2, GoesOnKeeps

\* A listing that fails is answered.
LEMMA ListRefusedKeeps ==
    ASSUME Parameters, IInv, NEW r \in Requests, ListRefused(r)
    PROVE  IInv'
  <1>1. /\ Answer(r) /\ Fault
        /\ UNCHANGED <<dirs, before, open, late, wsCache, todo, got, answer, owed, asked, lives, upset>>
    BY DEF ListRefused, repo, reads
  <1>2. TypeOK'
    <2>1. /\ dirs' \in [Names -> [Files -> Kept]] /\ late' \in SUBSET Late
          /\ before' \in SUBSET Names
          /\ upset' \in SUBSET Upsets
      BY <1>1 DEF IInv, TypeOK
    <2> QED
      BY <1>1, <2>1, AnswerTypes DEF IInv
  <1>3. \A l \in late' : LateFits(l)'
    BY <1>1 DEF IInv, WritesFit, LateFits
  <1> QED
    BY <1>1, <1>2, <1>3, AnsweredKeeps, PagesStay DEF IInv
------------------------------------------------------------------------------
\* A page that is answered out of the cache has none of its own to fetch.
LEMMA HitKeeps ==
    ASSUME IInv, NEW p \in Pages, Hit(p)
    PROVE  IInv'
  <1>1. /\ TypeOK /\ answer' = [answer EXCEPT ![p] = wsCache.list]
        /\ UNCHANGED <<dirs, before, open, late, pc, job, wsCache, todo, got, owed, asked, lives, faults,
                       upset>>
    BY DEF Hit, IInv, repo, writes, counts
  <1>2. TypeOK'
    BY <1>1 DEF TypeOK
  <1> QED
    BY <1>1, <1>2, WritesStay, PagesStay DEF IInv

\* A page starts with the sandboxes there are.
LEMMA ListRootKeeps ==
    ASSUME Parameters, IInv, NEW p \in Pages, ListRoot(p)
    PROVE  IInv'
  <1>1. PICK listed \in {{w \in Names : There(w)}, before} :
           /\ IF listed = {w \in Names : There(w)}
              THEN UNCHANGED <<faults, upset>>
              ELSE Fault /\ upset' = upset \cup {"lag"}
           /\ todo' = [todo EXCEPT ![p] = listed \cap Guests]
           /\ got' = [got EXCEPT ![p] = [name : listed \cap Tenants, dated : {FALSE}]]
    BY DEF ListRoot
  <1>2. /\ TypeOK /\ WritesFit /\ PagesFit
        /\ UNCHANGED <<dirs, before, open, late, pc, job, wsCache, answer, owed, asked, lives>>
    BY DEF ListRoot, IInv, repo, writes
  <1>3. upset \subseteq upset'
    BY <1>1
  <1>4. /\ todo'[p] = listed \cap Guests
        /\ got'[p] = [name : listed \cap Tenants, dated : {FALSE}]
        /\ \A q \in Pages \ {p} : todo'[q] = todo[q] /\ got'[q] = got[q]
    BY <1>1, <1>2 DEF TypeOK
  <1>5. TypeOK'
    <2>1. [name : listed \cap Tenants, dated : {FALSE}] \in SUBSET Entries
      BY DEF Entries, Names
    <2>2. /\ got' \in [Pages -> SUBSET Entries]
          /\ todo' \in [Pages -> (SUBSET Guests) \cup {Idle}]
      BY <1>1, <1>2, <2>1 DEF TypeOK
    <2>3. faults' \in 0..MaxFaults
      BY <1>1, <1>2 DEF TypeOK, Fault, Parameters
    <2>4. upset' \in SUBSET Upsets
      BY <1>1, <1>2 DEF TypeOK, Upsets
    <2> QED
      BY <1>2, <2>2, <2>3, <2>4 DEF TypeOK
  <1>6. PagesFit'
    <2> SUFFICES ASSUME Steady' PROVE (Fresh => Listed)' /\ \A q \in Pages : FillFits(q)'
      BY DEF PagesFit
    <2>1. Steady /\ listed = {w \in Names : There(w)}
      BY <1>1, <1>3 DEF Steady
    <2>2. (Fresh => Listed)'
      BY <1>2, <2>1 DEF PagesFit, Fresh, Listed, There, Dated
    <2>3. ASSUME NEW q \in Pages PROVE FillFits(q)'
      <3>1. CASE q = p
        <4>1. \A g \in Guests : There(g)' => g \in todo'[p]
          BY <1>2, <1>4, <2>1 DEF There, Names
        <4>2. \A e \in got'[p] : e.name \notin Guests
          BY <1>4 DEF Parameters
        <4> QED
          BY <3>1, <4>1, <4>2 DEF FillFits
      <3>2. CASE q # p
        BY <1>2, <1>4, <2>1, <3>2 DEF PagesFit, FillFits, There, Dated
      <3> QED
        BY <3>1, <3>2
    <2> QED
      BY <2>2, <2>3
  <1>7. WritesFit'
    BY <1>2, <1>3, WritesStay
  <1> QED
    BY <1>5, <1>6, <1>7 DEF IInv

\* It exchanges one of them for its entry, which has the dates if there is a guest.yaml.
LEMMA FetchMetaKeeps ==
    ASSUME Parameters, IInv, NEW p \in Pages, NEW g \in Guests, FetchMeta(p, g)
    PROVE  IInv'
  <1>1. /\ TypeOK /\ WritesFit /\ PagesFit /\ todo[p] # Idle /\ g \in todo[p]
        /\ todo' = [todo EXCEPT ![p] = @ \ {g}]
        /\ UNCHANGED <<dirs, before, open, late, pc, job, wsCache, answer, owed, asked, lives, upset>>
    BY DEF FetchMeta, IInv, repo, writes
  <1>2. PICK e \in Entries :
           /\ e.name = g
           /\ e.dated => Dated(g)
           /\ got' = [got EXCEPT ![p] = @ \cup {e}]
           /\ UNCHANGED faults \/ Fault
    <2>1. Entry(g) \in Entries /\ Entry(g).name = g /\ (Entry(g).dated => Dated(g))
      BY DEF Entry, Entries, Names, Dated
    <2>2. /\ [name |-> g, dated |-> FALSE] \in Entries
          /\ [name |-> g, dated |-> FALSE].name = g /\ ~ [name |-> g, dated |-> FALSE].dated
      BY DEF Entries, Names
    <2> QED
      BY <2>1, <2>2 DEF FetchMeta
  <1>3. /\ todo'[p] = todo[p] \ {g} /\ got'[p] = got[p] \cup {e}
        /\ \A q \in Pages \ {p} : todo'[q] = todo[q] /\ got'[q] = got[q]
    BY <1>1, <1>2 DEF TypeOK
  <1>4. TypeOK'
    <2>1. todo[p] \in SUBSET Guests
      BY <1>1 DEF TypeOK
    <2>2. /\ todo' \in [Pages -> (SUBSET Guests) \cup {Idle}]
          /\ got' \in [Pages -> SUBSET Entries]
      BY <1>1, <1>2, <2>1 DEF TypeOK
    <2>3. faults' \in 0..MaxFaults
      BY <1>1, <1>2 DEF TypeOK, Fault, Parameters
    <2> QED
      BY <1>1, <2>2, <2>3 DEF TypeOK
  <1>5. WritesFit'
    BY <1>1, WritesStay
  <1>6. (Fresh => Listed)' <=> (Fresh => Listed)
    BY <1>1 DEF Fresh, Listed, There, Dated
  <1>7. ASSUME NEW q \in Pages, FillFits(q) PROVE FillFits(q)'
    <2>1. CASE q = p
      <3>1. /\ \A h \in Guests : There(h) => h \in todo[p] \/ \E d \in got[p] : d.name = h
            /\ \A d \in got[p] : d.name \in Guests /\ d.dated => Dated(d.name)
        BY <1>1, <1>7, <2>1 DEF FillFits
      <3>2. ASSUME NEW h \in Guests, There(h)
            PROVE  h \in todo'[p] \/ \E d \in got'[p] : d.name = h
        <4>1. CASE h = g
          <5>1. e \in got'[p] /\ e.name = h
            BY <1>2, <1>3, <4>1
          <5> QED
            BY <5>1
        <4>2. CASE h # g
          BY <1>3, <3>1, <3>2, <4>2
        <4> QED
          BY <4>1, <4>2
      <3>3. ASSUME NEW d \in got'[p], d.name \in Guests, d.dated
            PROVE  Dated(d.name)
        <4>1. CASE d = e
          <5>1. d.name = g /\ (d.dated => Dated(g))
            BY <1>2, <4>1
          <5> QED
            BY <3>3, <5>1
        <4>2. CASE d \in got[p]
          BY <3>1, <3>3, <4>2
        <4> QED
          BY <1>3, <4>1, <4>2
      <3> QED
        BY <1>1, <2>1, <3>2, <3>3 DEF FillFits, There, Dated
    <2>2. CASE q # p
      BY <1>1, <1>3, <1>7, <2>2 DEF FillFits, There, Dated
    <2> QED
      BY <2>1, <2>2
  <1> QED
    BY <1>1, <1>4, <1>5, <1>6, <1>7 DEF IInv, PagesFit, Steady

\* With all of them in, and with their dates, the list is of those there are.
LEMMA StoreKeeps ==
    ASSUME Parameters, IInv, NEW p \in Pages, Store(p)
    PROVE  IInv'
  <1>1. /\ TypeOK /\ WritesFit /\ PagesFit /\ todo[p] = {} /\ todo[p] # Idle
        /\ answer' = [answer EXCEPT ![p] = got[p]]
        /\ todo' = [todo EXCEPT ![p] = Idle]
        /\ got' = [got EXCEPT ![p] = {}]
        /\ UNCHANGED <<dirs, before, open, late, pc, job, owed, asked, lives, faults, upset>>
    BY DEF Store, IInv, repo, writes, counts, Idle
  <1>2. \/ wsCache' = wsCache
        \/ /\ wsCache' = [set |-> TRUE, list |-> got[p]]
           /\ \A e \in got[p] : e.name \in Guests => e.dated
    BY DEF Store
  <1>3. TypeOK'
    <2>1. wsCache' \in [set : BOOLEAN, list : SUBSET Entries]
      <3>1. got[p] \in SUBSET Entries /\ wsCache \in [set : BOOLEAN, list : SUBSET Entries]
        BY <1>1 DEF TypeOK
      <3>2. [set |-> TRUE, list |-> got[p]] \in [set : BOOLEAN, list : SUBSET Entries]
        BY <3>1
      <3> QED
        BY <1>2, <3>1, <3>2
    <2>2. /\ answer' \in [Pages -> SUBSET Entries]
          /\ got' \in [Pages -> SUBSET Entries]
      BY <1>1 DEF TypeOK
    <2>3. todo' \in [Pages -> (SUBSET Guests) \cup {Idle}]
      BY <1>1 DEF TypeOK
    <2> QED
      BY <1>1, <2>1, <2>2, <2>3 DEF TypeOK
  <1>4. WritesFit'
    BY <1>1, WritesStay
  <1>5. ASSUME NEW q \in Pages, FillFits(q) PROVE FillFits(q)'
    <2>1. CASE q = p
      BY <1>1, <2>1 DEF FillFits, TypeOK
    <2>2. CASE q # p
      <3>1. todo'[q] = todo[q] /\ got'[q] = got[q]
        BY <1>1, <2>2 DEF TypeOK
      <3> QED
        BY <1>1, <1>5, <3>1 DEF FillFits, There, Dated
    <2> QED
      BY <2>1, <2>2
  <1>6. ASSUME Steady PROVE (Fresh => Listed)'
    <2>1. CASE wsCache' = wsCache
      BY <1>1, <1>6, <2>1 DEF PagesFit, Fresh, Listed, There, Dated
    <2>2. CASE /\ wsCache' = [set |-> TRUE, list |-> got[p]]
               /\ \A e \in got[p] : e.name \in Guests => e.dated
      <3>1. /\ \A g \in Guests : There(g) => \E e \in got[p] : e.name = g
            /\ \A e \in got[p] : e.name \in Guests => Dated(e.name)
        BY <1>1, <1>6, <2>2 DEF PagesFit, FillFits
      <3>2. /\ \A g \in Guests : Dated(g) => There(g)
            /\ \A e \in got[p] : e = [name |-> e.name, dated |-> e.dated] /\ e.dated \in BOOLEAN
        BY <1>1, DirFacts DEF TypeOK, Entries
      <3>3. {e \in got[p] : e.name \in Guests} = [name : {g \in Guests : There(g)}, dated : {TRUE}]
        <4>1. ASSUME NEW e \in got[p], e.name \in Guests
              PROVE  e \in [name : {g \in Guests : There(g)}, dated : {TRUE}]
          <5>1. e.dated = TRUE /\ There(e.name)
            BY <2>2, <3>1, <3>2, <4>1
          <5>2. [name |-> e.name, dated |-> e.dated]
                    \in [name : {g \in Guests : There(g)}, dated : {TRUE}]
            BY <4>1, <5>1
          <5> QED
            BY <3>2, <5>2
        <4>2. ASSUME NEW d \in [name : {g \in Guests : There(g)}, dated : {TRUE}]
              PROVE  d \in got[p] /\ d.name \in Guests
          <5>1. d.name \in Guests /\ There(d.name) /\ d = [name |-> d.name, dated |-> TRUE]
            OBVIOUS
          <5>2. PICK e \in got[p] : e.name = d.name
            BY <3>1, <5>1
          <5>3. e.dated = TRUE
            BY <2>2, <3>2, <5>1, <5>2
          <5> QED
            BY <3>2, <5>1, <5>2, <5>3
        <4> QED
          BY <4>1, <4>2
      <3>4. \A g \in Guests : There(g) => Dated(g)
        BY <3>1
      <3> QED
        BY <1>1, <2>2, <3>3, <3>4 DEF Fresh, Listed, There, Dated
    <2> QED
      BY <1>2, <2>1, <2>2
  <1> QED
    BY <1>1, <1>3, <1>4, <1>5, <1>6 DEF IInv, PagesFit, Steady

\* An invalid cache lists nothing, and says nothing.
LEMMA InvalidKeeps ==
    ASSUME IInv, wsCache' = Invalid,
           UNCHANGED <<dirs, before, open, late, pc, job, todo, got, answer, asked, lives, faults,
                       upset>>,
           owed' \in SUBSET Guests
    PROVE  IInv'
  <1>1. UNCHANGED <<dirs, before, open, late, pc, job, todo, got, answer, asked, lives, faults, upset>>
    OBVIOUS
  <1>2. TypeOK'
    BY <1>1 DEF IInv, TypeOK, Invalid
  <1>3. ~ Fresh'
    BY DEF Fresh, Invalid
  <1>4. \A p \in Pages : FillFits(p)' <=> FillFits(p)
    BY <1>1 DEF FillFits, There, Dated
  <1> QED
    BY <1>1, <1>2, <1>3, <1>4, WritesStay DEF IInv, PagesFit, Steady
------------------------------------------------------------------------------
\* A commit to a sandbox leaves everybody else's directory alone, and takes note of who
\* was about to delete the sandbox.
LEMMA CommitKeeps ==
    ASSUME Parameters, IInv, NEW g \in Guests, NEW against \in SUBSET Upsets,
           GuestCommit(g, against),
           dirs' \in [Names -> [Files -> Kept]],
           \A w \in Names \ {g} : dirs'[w] = dirs[w],
           Whole(g) => Whole(g)',
           Founded(g) => Founded(g)' \/ Adding(g) = {},
           UNCHANGED <<late, pc, job>>
    PROVE  /\ WritesFit'
           /\ before' \in SUBSET Names
           /\ upset' \in SUBSET Upsets /\ upset \subseteq upset' /\ against \subseteq upset'
  <1>1. /\ TypeOK /\ WritesFit /\ g \in Names
        /\ UNCHANGED <<late, pc, job>>
    BY DEF IInv, Names
  <1>2. /\ before' = {w \in Names : There(w)}
        /\ upset' = upset \cup against \cup (IF Deleting(g) # {} THEN {"overlap"} ELSE {})
    BY DEF GuestCommit
  <1>3. /\ before' \in SUBSET Names /\ upset' \in SUBSET Upsets
        /\ upset \subseteq upset' /\ against \subseteq upset'
    BY <1>1, <1>2 DEF TypeOK, Upsets
  <1>4. /\ \A r \in Requests : JobFits(r)'
        /\ \A l \in late' : LateFits(l)'
    BY <1>1, <1>3 DEF WritesFit, JobFits, LateFits
  <1>5. ASSUME Calm' PROVE Ordered'
    <2>1. Ordered /\ Deleting(g) = {}
      BY <1>1, <1>2, <1>3, <1>5 DEF Calm, WritesFit
    <2>2. \A p, q \in Requests : Apart(p, q)'
      BY <1>1, <2>1 DEF Ordered, Apart
    <2>3. ASSUME NEW q \in Requests PROVE FoundEmpty(q)'
      <3>1. pc[q] = "delete" => job[q].ws \in Names \ {g}
        BY <1>1, <2>1 DEF Deleting, TypeOK, Jobs
      <3> QED
        BY <1>1, <2>1, <3>1 DEF Ordered, FoundEmpty, Emptied
    <2>4. ASSUME NEW w \in Names \ {g}, Founded(w) PROVE Founded(w)'
      BY <1>3, <2>4 DEF Founded
    <2>5. ASSUME NEW q \in Requests PROVE Begun(q)'
      <3> SUFFICES ASSUME pc[q] = "resource" PROVE Founded(job[q].ws)'
        BY <1>1 DEF Begun, Founded
      <3>1. job[q].ws \in Names /\ Founded(job[q].ws) /\ job[q].kind = "add"
        BY <1>1, <2>1 DEF TypeOK, Jobs, Ordered, Begun, WritesFit, JobFits
      <3>2. CASE job[q].ws = g
        BY <3>1, <3>2 DEF Adding
      <3>3. CASE job[q].ws # g
        BY <2>4, <3>1, <3>3
      <3> QED
        BY <3>2, <3>3
    <2>6. ASSUME NEW w \in Names PROVE Whole(w)'
      <3>1. CASE w = g
        BY <2>1, <3>1 DEF Ordered
      <3>2. CASE w # g
        BY <2>1, <2>4, <3>2 DEF Ordered, Whole, There
      <3> QED
        BY <3>1, <3>2
    <2> QED
      BY <2>2, <2>3, <2>5, <2>6 DEF Ordered
  <1> QED
    BY <1>3, <1>4, <1>5 DEF WritesFit

\* Once it is owed an invalidation, nothing is said of the cache, and nothing of the pages
\* that it overtakes.
LEMMA PagesOvertaken ==
    ASSUME owed' # {}, UNCHANGED <<todo, got>>, Overtaken \subseteq upset'
    PROVE  PagesFit'
  <1> SUFFICES ASSUME Steady' PROVE (Fresh => Listed)' /\ \A p \in Pages : FillFits(p)'
    BY DEF PagesFit
  <1>1. ~ Fresh'
    BY DEF Fresh
  <1>2. \A p \in Pages : todo[p] = Idle
    BY DEF Steady, Overtaken
  <1> QED
    BY <1>1, <1>2 DEF FillFits

\* A create writes both of its files in one commit.
LEMMA CreateGuestKeeps ==
    ASSUME Parameters, IInv, NEW g \in Guests, CreateGuest(g)
    PROVE  IInv'
  <1>1. /\ TypeOK /\ lives < MaxLives /\ lives' = lives + 1 /\ GuestCommit(g, Overtaken)
        /\ dirs' = [dirs EXCEPT ![g]["namespace"] = "namespace", ![g]["guest"] = "guest"]
        /\ owed' = owed \cup {g}
        /\ UNCHANGED <<open, late, pc, job, wsCache, todo, got, answer, asked, faults>>
    BY DEF CreateGuest, IInv, writes, reads
  <1>2. /\ g \in Names /\ dirs[g] \in [Files -> Kept] /\ "namespace" \in Files /\ "guest" \in Files
    BY <1>1, DirFacts
  <1>3. PICK d : d = [[dirs[g] EXCEPT !["namespace"] = "namespace"] EXCEPT !["guest"] = "guest"]
    OBVIOUS
  <1>4. dirs' = [dirs EXCEPT ![g] = d]
    BY <1>1, <1>2, <1>3 DEF TypeOK
  <1>5. d \in [Files -> Kept] /\ d["namespace"] = "namespace"
    BY <1>2, <1>3 DEF Kept
  <1>6. /\ dirs' \in [Names -> [Files -> Kept]] /\ dirs'[g] = d
        /\ \A w \in Names \ {g} : dirs'[w] = dirs[w]
    BY <1>1, <1>2, <1>4, <1>5 DEF TypeOK
  <1>7. Founded(g)' /\ Whole(g)'
    BY <1>5, <1>6 DEF Whole, Founded
  <1>8. Overtaken \in SUBSET Upsets
    BY DEF Overtaken, Upsets
  <1>9. /\ WritesFit'
        /\ before' \in SUBSET Names
        /\ upset' \in SUBSET Upsets /\ upset \subseteq upset' /\ Overtaken \subseteq upset'
    BY <1>1, <1>6, <1>7, <1>8, CommitKeeps
  <1>10. PagesFit'
    BY <1>1, <1>9, PagesOvertaken
  <1>11. lives' \in 0..MaxLives /\ owed' \in SUBSET Guests
    BY <1>1 DEF TypeOK, Parameters
  <1> QED
    BY <1>1, <1>6, <1>9, <1>10, <1>11 DEF IInv, TypeOK

\* A build or a phase record finds the sandbox.
LEMMA GuestChecksKeeps ==
    ASSUME Parameters, IInv, NEW g \in Guests, GuestChecks(g)
    PROVE  IInv'
  <1>1. /\ TypeOK /\ lives < MaxLives /\ lives' = lives + 1 /\ open' = open \cup {g}
        /\ UNCHANGED <<dirs, before, late, pc, job, wsCache, todo, got, answer, owed, asked, faults,
                       upset>>
    BY DEF GuestChecks, IInv, writes, reads
  <1>2. lives' \in 0..MaxLives /\ open' \in SUBSET Guests
    BY <1>1 DEF TypeOK, Parameters
  <1>3. TypeOK'
    BY <1>1, <1>2 DEF TypeOK
  <1> QED
    BY <1>1, <1>3, WritesStay, PagesStay DEF IInv

\* It adds a file to a directory that is there, or that is noted.
LEMMA GuestWritesKeeps ==
    ASSUME Parameters, IInv, NEW g \in Guests, GuestWrites(g)
    PROVE  IInv'
  <1>1. PICK f \in Files \ {"namespace"}, to \in {"guest", "resource"} :
           /\ f = "guest" => to = "guest"
           /\ dirs' = [dirs EXCEPT ![g][f] = to]
    BY DEF GuestWrites
  <1>2. PICK against : against = IF dirs[g]["namespace"] = "no" THEN {"left"} ELSE {}
    OBVIOUS
  <1>3. /\ TypeOK /\ WritesFit /\ PagesFit /\ GuestCommit(g, against) /\ open' = open \ {g}
        /\ UNCHANGED <<late, pc, job, wsCache, todo, got, answer, owed, asked, lives, faults>>
    BY <1>2 DEF GuestWrites, IInv, writes, reads, counts
  <1>4. /\ g \in Names /\ f \in Files /\ to \in Kept /\ "namespace" \in Files /\ "guest" \in Files
        /\ against \in SUBSET Upsets
    BY <1>2, <1>3, DirFacts DEF Kept, Upsets
  <1>5. /\ dirs' \in [Names -> [Files -> Kept]]
        /\ dirs'[g][f] = to
        /\ \A h \in Files \ {f} : dirs'[g][h] = dirs[g][h]
        /\ \A v \in Names \ {g} : dirs'[v] = dirs[v]
        /\ \A v \in Names : There(v)' <=> \E h \in Files : dirs'[v][h] # "no"
    BY <1>1, <1>3, <1>4, PutFacts, ZenonT(60)
  <1>6. upset \subseteq upset' /\ against \subseteq upset'
    BY <1>3 DEF GuestCommit
  <1>7. dirs[g]["namespace"] = "no" => "left" \in upset'
    BY <1>2, <1>6
  <1>8. dirs'[g]["namespace"] = dirs[g]["namespace"]
    BY <1>4, <1>5
  <1>9. Founded(g) => Founded(g)'
    BY <1>6, <1>8 DEF Founded
  <1>10. Whole(g) => Whole(g)'
    <2>1. CASE dirs[g]["namespace"] = "no"
      BY <1>7, <2>1 DEF Whole, Founded
    <2>2. CASE dirs[g]["namespace"] # "no"
      BY <1>3, <1>4, <1>9, <2>2, DirFacts DEF Whole
    <2> QED
      BY <2>1, <2>2
  <1>11. WritesFit' /\ before' \in SUBSET Names /\ upset' \in SUBSET Upsets
    BY <1>3, <1>4, <1>5, <1>9, <1>10, CommitKeeps
  <1>12. ASSUME Steady', NEW h \in Guests
         PROVE  (There(h)' => There(h)) /\ (Dated(h) => Dated(h)') /\ (Dated(h)' => There(h)')
    <2>1. h \in Names /\ (h = g => There(h))
      BY <1>3, <1>4, <1>7, <1>12, DirFacts DEF Steady
    <2>2. CASE h = g
      BY <1>1, <1>4, <1>5, <2>1, <2>2 DEF Dated
    <2>3. CASE h # g
      <3>1. dirs'[h] = dirs[h]
        BY <1>5, <2>1, <2>3
      <3>2. Dated(h) => There(h)
        BY <1>3, <2>1, DirFacts
      <3> QED
        BY <3>1, <3>2 DEF Dated, There
    <2> QED
      BY <2>2, <2>3
  <1>13. PagesFit'
    BY <1>3, <1>6, <1>12, PagesKeep
  <1>14. open' \in SUBSET Guests
    BY <1>3 DEF TypeOK
  <1> QED
    BY <1>3, <1>5, <1>11, <1>13, <1>14 DEF IInv, TypeOK

\* A delete pass takes the namespace.yaml when there is nothing else and nothing on its
\* way, or that is noted.
LEMMA DeleteFromGuestKeeps ==
    ASSUME Parameters, IInv, NEW g \in Guests, DeleteFromGuest(g)
    PROVE  IInv'
  <1>1. PICK f \in Files, against \in SUBSET Upsets :
           /\ against = Overtaken \cup
                 (IF f = "namespace" /\ (~ Emptied(g) \/ Adding(g) # {}) THEN {"left"} ELSE {})
           /\ dirs' = [dirs EXCEPT ![g][f] = "no"]
           /\ GuestCommit(g, against)
    BY DEF DeleteFromGuest, Overtaken, Upsets
  <1>2. /\ TypeOK /\ WritesFit /\ owed' = owed \cup {g}
        /\ UNCHANGED <<open, late, pc, job, wsCache, todo, got, answer, asked, lives, faults>>
    BY DEF DeleteFromGuest, IInv, writes, reads, counts
  <1>3. /\ g \in Names /\ "no" \in Kept /\ "namespace" \in Files
        /\ against \in SUBSET Upsets /\ Overtaken \subseteq against
    BY <1>1, <1>2, DirFacts DEF Kept, Overtaken, Upsets
  <1>4. /\ dirs' \in [Names -> [Files -> Kept]]
        /\ dirs'[g][f] = "no"
        /\ \A h \in Files \ {f} : dirs'[g][h] = dirs[g][h]
        /\ \A v \in Names \ {g} : dirs'[v] = dirs[v]
        /\ \A v \in Names : There(v)' <=> \E h \in Files : dirs'[v][h] # "no"
    BY <1>1, <1>2, <1>3, PutFacts, ZenonT(60)
  <1>5. There(g)' => There(g)
    BY <1>2, <1>3, <1>4, DirFacts
  <1>6. upset \subseteq upset' /\ against \subseteq upset'
    BY <1>1 DEF GuestCommit
  <1>7. f # "namespace" => (Founded(g) => Founded(g)')
    BY <1>3, <1>4, <1>6 DEF Founded
  <1>8. f = "namespace" => (Emptied(g) /\ Adding(g) = {}) \/ Founded(g)'
    BY <1>1, <1>6 DEF Founded
  <1>9. f = "namespace" /\ Emptied(g) => ~ There(g)'
    BY <1>3, <1>4 DEF Emptied
  <1>10. /\ Whole(g) => Whole(g)'
         /\ Founded(g) => Founded(g)' \/ Adding(g) = {}
    BY <1>5, <1>7, <1>8, <1>9 DEF Whole
  <1>11. /\ WritesFit' /\ before' \in SUBSET Names
         /\ upset' \in SUBSET Upsets /\ Overtaken \subseteq upset'
    BY <1>1, <1>2, <1>3, <1>4, <1>6, <1>10, CommitKeeps
  <1>12. PagesFit' /\ owed' \in SUBSET Guests
    BY <1>2, <1>11, PagesOvertaken DEF TypeOK
  <1> QED
    BY <1>2, <1>4, <1>11, <1>12 DEF IInv, TypeOK

\* A restart forgets every request and every list.
LEMMA RestartKeeps ==
    ASSUME Parameters, IInv, Restart
    PROVE  IInv'
  <1>1. /\ pc' = [r \in Requests |-> "idle"] /\ job' = [r \in Requests |-> NoJob]
        /\ wsCache' = Invalid
        /\ todo' = [p \in Pages |-> Idle] /\ got' = [p \in Pages |-> {}] /\ owed' = {}
        /\ Fault /\ UNCHANGED <<dirs, before, open, late, answer, asked, lives, upset>>
    BY DEF Restart, repo
  <1>2. NoJob \in Jobs
    BY DEF NoJob, Jobs, Names, Files, Tokens, Parameters
  <1>3. TypeOK'
    <2>1. faults' \in 0..MaxFaults
      BY <1>1 DEF IInv, TypeOK, Fault, Parameters
    <2> QED
      BY <1>1, <1>2, <2>1 DEF IInv, TypeOK, Invalid
  <1>4. WritesFit'
    <2>1. \A r \in Requests : pc'[r] = "idle"
      BY <1>1
    <2>2. \A w \in Names : Whole(w)' <=> Whole(w)
      BY <1>1 DEF Whole, Founded, There
    <2>3. Calm' => Ordered'
      BY <1>1, <2>1, <2>2 DEF IInv, WritesFit, Calm, Ordered, Apart, FoundEmpty, Begun
    <2> QED
      BY <1>1, <2>1, <2>3 DEF IInv, WritesFit, JobFits, LateFits
  <1>5. PagesFit'
    BY <1>1 DEF PagesFit, FillFits, Fresh, Invalid
  <1> QED
    BY <1>3, <1>4, <1>5 DEF IInv

------------------------------------------------------------------------------
\* Every step keeps the invariant.
LEMMA NextKeeps ==
    ASSUME Parameters, IInv, [Next]_vars
    PROVE  IInv'
  <1>1. ASSUME NEW r \in Requests, Contribute(r) PROVE IInv'
    BY <1>1, ArriveKeeps, WriteKeeps, WriteRefusedKeeps, WriteLostKeeps, ListKeeps,
       ListLagsKeeps, ListRefusedKeeps DEF Contribute
  <1>2. ASSUME NEW l \in late, LateWrite(l) PROVE IInv'
    BY <1>2, LateWriteKeeps
  <1>3. ASSUME NEW p \in Pages, Read(p) PROVE IInv'
    BY <1>3, HitKeeps, ListRootKeeps, FetchMetaKeeps, StoreKeeps DEF Read
  <1>4. CASE Expires
    <2>1. owed' \in SUBSET Guests
      BY <1>4 DEF Expires, IInv, TypeOK
    <2> QED
      BY <1>4, <2>1, InvalidKeeps DEF Expires, repo, writes, reads, counts
  <1>5. ASSUME NEW g \in Guests,
               CreateGuest(g) \/ GuestChecks(g) \/ GuestWrites(g) \/ DeleteFromGuest(g)
        PROVE  IInv'
    BY <1>5, CreateGuestKeeps, GuestChecksKeeps, GuestWritesKeeps, DeleteFromGuestKeeps
  <1>6. ASSUME NEW g \in Guests, Invalidate(g) PROVE IInv'
    <2>1. owed' \in SUBSET Guests
      BY <1>6 DEF Invalidate, IInv, TypeOK
    <2> QED
      BY <1>6, <2>1, InvalidKeeps DEF Invalidate, repo, writes, reads, counts
  <1>7. CASE Restart
    BY <1>7, RestartKeeps
  <1>8. CASE UNCHANGED vars
    <2>1. UNCHANGED <<dirs, before, open, late, pc, job, wsCache, todo, got, answer, owed, asked, lives,
                      faults, upset>>
      BY <1>8 DEF vars, repo, writes, reads, counts
    <2>2. TypeOK'
      BY <2>1 DEF IInv, TypeOK
    <2> QED
      BY <2>1, <2>2, WritesStay, PagesStay DEF IInv
  <1> QED
    BY <1>1, <1>2, <1>3, <1>4, <1>5, <1>6, <1>7, <1>8 DEF Next

\* The inductive invariant.
LEMMA Inductive ==
    ASSUME Parameters
    PROVE  Safety => []IInv
  <1>1. Init => IInv
    BY InitIInv
  <1>2. IInv /\ [Next]_vars => IInv'
    BY NextKeeps
  <1> QED
    BY <1>1, <1>2, PTL DEF Safety

\* All that the module's invariants say, it says.
LEMMA InvariantFacts ==
    IInv => TypeOK /\ NoOrphans /\ GuestsListed
  <1>1. IInv => TypeOK
    BY DEF IInv
  <1>2. IInv => NoOrphans
    BY DEF IInv, WritesFit, Calm, Ordered, Whole, Founded, NoOrphans
  <1>3. IInv => GuestsListed
    BY DEF IInv, PagesFit, Steady, Fresh, Listed, GuestsListed
  <1> QED
    BY <1>1, <1>2, <1>3

\* A step that changes a workspace kept by hand is a contributor's write.
LEMMA StepsAreAuthorised ==
    ASSUME Parameters, IInv, [Next]_vars
    PROVE  [Authorised]_vars
  <1> SUFFICES ASSUME ~ UNCHANGED vars, NEW w \in Tenants, NEW f \in Files,
                      dirs'[w][f] # dirs[w][f]
               PROVE  \/ \E r \in Requests : /\ Writing(r) /\ job[r].token = "contributor"
                                             /\ job[r].ws = w /\ Target(r) = f
                      \/ \E l \in late : l.token = "contributor" /\ l.ws = w /\ l.file = f
    BY DEF Authorised
  <1>1. TypeOK /\ WritesFit /\ w \in Names
    BY DEF IInv, Names
  <1>2. CASE \E r \in Requests : Write(r)
    <2>1. PICK r \in Requests : Write(r)
      BY <1>2
    <2>2. /\ Writing(r) /\ job[r].ws \in Names /\ Target(r) \in Files /\ Content(r) \in Kept
          /\ job[r].token = "contributor"
          /\ dirs' = [dirs EXCEPT ![job[r].ws][Target(r)] = Content(r)]
      BY <2>1, TargetFacts DEF Write, Put, JobFits
    <2>3. job[r].ws = w /\ Target(r) = f
      BY <1>1, <2>2, PutFacts
    <2> QED
      BY <2>2, <2>3
  <1>3. CASE \E l \in late : LateWrite(l)
    <2>1. PICK l \in late : LateWrite(l)
      BY <1>3
    <2>2. /\ l.ws \in Names /\ l.file \in Files /\ l.to \in Kept /\ l.token = "contributor"
          /\ dirs' = [dirs EXCEPT ![l.ws][l.file] = l.to]
      BY <1>1, <2>1 DEF LateWrite, Put, TypeOK, Late, WritesFit, LateFits
    <2>3. l.ws = w /\ l.file = f
      BY <1>1, <2>2, PutFacts
    <2> QED
      BY <2>2, <2>3
  <1>4. CASE \E g \in Guests : CreateGuest(g) \/ GuestWrites(g) \/ DeleteFromGuest(g)
    <2>1. PICK g \in Guests : CreateGuest(g) \/ GuestWrites(g) \/ DeleteFromGuest(g)
      BY <1>4
    <2>2. dirs' = [dirs EXCEPT ![g] = dirs'[g]] /\ g # w
      BY <1>1, <2>1 DEF CreateGuest, GuestWrites, DeleteFromGuest, TypeOK, Parameters, Names
    <2> QED
      BY <1>1, <2>2 DEF TypeOK
  <1>5. CASE UNCHANGED dirs
    BY <1>5
  <1> QED
    BY <1>2, <1>3, <1>4, <1>5
       DEF Next, Contribute, Read, Arrive, WriteRefused, WriteLost, List, ListLags,
           ListRefused, Hit, ListRoot, FetchMeta, Store, Expires, GuestChecks, Invalidate,
           Restart, repo

\* Every variable keeps its type.
THEOREM TypeCorrect ==
    ASSUME Parameters
    PROVE  Safety => []TypeOK
  BY InvariantFacts, Inductive, PTL

\* Whatever requests, delete passes and restarts come in between, a workspace that holds
\* anything holds its namespace.yaml (handleCreateResource, handleDeleteWorkspace,
\* deleteGuestWorkspaceFiles).  Excepted are a delete that overlaps a create or an add,
\* one whose listing lags, a write that lands late, a resource named "namespace", and
\* the sandboxes once a pass left something behind or something landed behind one.
THEOREM NothingIsOrphaned ==
    ASSUME Parameters
    PROVE  Safety => []NoOrphans
  BY InvariantFacts, Inductive, PTL

\* The cached list of workspaces has exactly the sandboxes there are, each with its
\* dates, once their creates and delete passes have returned (handleListWorkspaces,
\* invalidateWorkspacesCache), except after a commit during a read, a listing that lags,
\* something that landed behind a pass, and a contributor's write to a sandbox.
THEOREM TheListIsFresh ==
    ASSUME Parameters
    PROVE  Safety => []GuestsListed
  BY InvariantFacts, Inductive, PTL

\* Whatever the steps in between and however late a write lands, only a contributor's
\* write changes a workspace kept by hand (requireAuth, requireContributor).
THEOREM OnlyContributorsWrite ==
    ASSUME Parameters
    PROVE  Safety => ContributorsOnly
  <1>1. IInv /\ [Next]_vars => [Authorised]_vars
    BY StepsAreAuthorised
  <1> QED
    BY <1>1, Inductive, PTL DEF Safety, ContributorsOnly
=============================================================================
