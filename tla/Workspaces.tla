------------------------------ MODULE Workspaces ------------------------------
(* workspaces.go and main.go: contributors create and delete workspaces and   *)
(* their resources, and GET /api/workspaces lists all workspaces out of a     *)
(* cache.  A handler is up to two requests to GitHub, of which AtomicRepo     *)
(* says what they promise; other handlers move between the two.  Sandboxes    *)
(* come and go beside them, and those do invalidate the cache.                *)
EXTENDS Integers, FiniteSets

CONSTANTS Requests,   \* contributors' requests
          Pages,      \* clients that poll GET /api/workspaces
          Tenants,    \* workspaces kept by hand
          Guests,     \* sandboxes, whose names begin with guest-
          Resources,  \* names of resources, other than "namespace" and "guest"
          MaxAsks,    \* bound: contributors' requests
          MaxLives,   \* bound: sandboxes created, and builds and phase records in them
          MaxFaults   \* bound: requests to GitHub that fail, lag, or go unanswered, restarts

\* A workspace is a sandbox or is kept by hand (namePattern and guestNamePattern), and
\* isInfraFile tells a workspace's own files from its resources.
Parameters ==
    /\ Tenants # {} /\ Tenants \cap Guests = {}
    /\ Resources \cap {"namespace", "guest"} = {}
    /\ MaxAsks \in Nat /\ MaxLives \in Nat /\ MaxFaults \in Nat

VARIABLES dirs,    \* per workspace: its files on main
          late,    \* writes nobody waits for that may still land
          pc,      \* per contributor's request
          job,     \* per contributor's request: what it asks for, and its token
          wsCache, \* wsCache, and whether wsCacheAt is set
          todo,    \* per page: sandboxes listed whose guest.yaml is not in yet, or Idle
          got,     \* per page: the `workspaces` of its request
          answer,  \* per page: what it shows
          open,    \* sandboxes with a build or phase record whose checks have passed
          owed,    \* sandboxes with a commit whose invalidation is yet to come
          before,  \* the workspaces there were before the last commit
          asked, lives, faults,  \* how many there were
          upset    \* what went wrong so far (history)

repo   == <<dirs, before, open>>
writes == <<pc, job>>
reads  == <<todo, got, answer>>
counts == <<asked, lives, faults>>
vars   == <<repo, late, writes, wsCache, reads, owed, counts, upset>>

Names  == Tenants \cup Guests
Files  == {"namespace", "guest"} \cup Resources
Kept   == {"no", "namespace", "guest", "resource"}  \* what a file holds
Tokens == {"none", "refused", "reader", "contributor"}
Jobs   == [kind : {"create", "delete", "add", "remove"}, ws : Names, name : Files,
           token : Tokens]
Late   == [ws : Names, file : Files, from : Kept, to : Kept, token : Tokens]
Idle   == {"idle"}
Upsets == {"overlap", "late", "named", "blind", "left", "meddled", "fill", "lag"}

Nothing    == [f \in Files |-> "no"]
There(w)   == dirs[w] # Nothing
Emptied(w) == \A f \in Files \ {"namespace"} : dirs[w][f] = "no"
Entry(w)   == [name |-> w, dated |-> dirs[w]["guest"] = "guest"]
Entries    == [name : Names, dated : BOOLEAN]
Actual     == {Entry(w) : w \in {v \in Names : There(v)}}
Invalid    == [set |-> FALSE, list |-> {}]
NoJob      == [kind |-> "create", ws |-> CHOOSE w \in Names : TRUE, name |-> "namespace",
               token |-> "none"]

Init ==
    /\ dirs = [w \in Names |-> Nothing]
    /\ late = {}
    /\ pc = [r \in Requests |-> "idle"]
    /\ job = [r \in Requests |-> NoJob]
    /\ wsCache = Invalid
    /\ todo = [p \in Pages |-> Idle]
    /\ got = [p \in Pages |-> {}]
    /\ answer = [p \in Pages |-> {}]
    /\ open = {}
    /\ owed = {}
    /\ before = {}
    /\ asked = 0
    /\ lives = 0
    /\ faults = 0
    /\ upset = {}

------------------------------------------------------------------------------
Fault == faults < MaxFaults /\ faults' = faults + 1

Goto(r, label) == pc' = [pc EXCEPT ![r] = label]
Answer(r)      == Goto(r, "idle") /\ job' = [job EXCEPT ![r] = NoJob]

Put(w, f, to) ==
    /\ dirs' = [dirs EXCEPT ![w][f] = to]
    /\ before' = {v \in Names : There(v)}
    /\ UNCHANGED open

\* Requests under way that add a resource to w, and those that found w empty.
Adding(w)   == {r \in Requests : pc[r] # "idle" /\ job[r].ws = w /\ job[r].kind = "add"}
Deleting(w) == {r \in Requests : pc[r] = "delete" /\ job[r].ws = w}

------------------------------------------------------------------------------
(* Contributors' requests                                                     *)

\* requireAuth, for a POST or a DELETE: without a token, or with one that
\* validateToken refuses, 401.
Authenticated(token) == token \notin {"none", "refused"}

\* Wrong on purpose: DELETE .../resources/{resource} asks for no role.
AdmittedToRemove(j) ==
    /\ Authenticated(j.token)
    /\ j.kind = "remove" \/ j.token = "contributor"

\* requireContributor, which every handler calls for itself: 403 without the role.
Admitted(j) == Authenticated(j.token) /\ j.token = "contributor"

\* A request arrives and is let in.  Names are held to a pattern alone, which those of
\* sandboxes, "namespace" and "guest" fit as well.
Arrive(r) ==
    /\ pc[r] = "idle"
    /\ r = CHOOSE q \in Requests : pc[q] = "idle"
    /\ asked < MaxAsks
    /\ asked' = asked + 1
    /\ \E j \in Jobs :
         /\ j.kind \in {"create", "delete"} => j.name = "namespace"
         /\ Admitted(j)
         /\ job' = [job EXCEPT ![r] = j]
         /\ Goto(r, CASE j.kind \in {"create", "add"} -> "namespace"
                      [] j.kind = "delete" -> "list"
                      [] j.kind = "remove" -> "remove")
         /\ upset' = upset
              \cup (IF j.kind \in {"add", "remove"} /\ j.name = "namespace" THEN {"named"} ELSE {})
              \cup (IF j.kind # "delete" /\ j.ws \in Guests THEN {"meddled"} ELSE {})
              \cup (IF j.kind = "add" /\ Deleting(j.ws) # {} THEN {"overlap"} ELSE {})
    /\ UNCHANGED <<repo, late, wsCache, reads, owed, lives, faults>>

\* What the write at pc[r] puts where.
Target(r) == IF pc[r] \in {"namespace", "delete"} THEN "namespace" ELSE job[r].name
Content(r) == CASE pc[r] = "namespace" -> "namespace"
                [] pc[r] = "resource" -> "resource"
                [] OTHER -> "no"

\* deleteFile finds no file to delete.
NoSuchFile(r) == Content(r) = "no" /\ dirs[job[r].ws][Target(r)] = "no"

Writing(r) == pc[r] \in {"namespace", "resource", "delete", "remove"}

\* upsertFile or deleteFile lands.  handleCreateResource goes on from the namespace
\* to the resource; everything else has been answered.
Write(r) ==
    /\ Writing(r) /\ ~ NoSuchFile(r)
    /\ Put(job[r].ws, Target(r), Content(r))
    /\ IF job[r].kind = "add" /\ pc[r] = "namespace"
       THEN Goto(r, "resource") /\ UNCHANGED job
       ELSE Answer(r)
    /\ UNCHANGED <<late, wsCache, reads, owed, counts, upset>>

\* It does not: an error, and the handler is done.
WriteRefused(r) ==
    /\ Writing(r)
    /\ IF NoSuchFile(r) THEN UNCHANGED faults ELSE Fault
    /\ Answer(r)
    /\ UNCHANGED <<repo, late, wsCache, reads, owed, asked, lives, upset>>

\* There is no answer, and the write may land any time later.
WriteLost(r) ==
    /\ Writing(r) /\ ~ NoSuchFile(r)
    /\ Fault
    /\ late' = late \cup {[ws |-> job[r].ws, file |-> Target(r), to |-> Content(r),
                           from |-> dirs[job[r].ws][Target(r)], token |-> job[r].token]}
    /\ Answer(r)
    /\ upset' = upset \cup {"late"}
    /\ UNCHANGED <<repo, wsCache, reads, owed, asked, lives>>

\* The request names the SHA of the file it replaces, so an identical file will do.
LateWrite(l) ==
    /\ l \in late
    /\ dirs[l.ws][l.file] = l.from
    /\ Put(l.ws, l.file, l.to)
    /\ late' = late \ {l}
    /\ UNCHANGED <<writes, wsCache, reads, owed, counts, upset>>

\* Wrong on purpose: what isInfraFile names does not count.
ListInfra(r) ==
    /\ pc[r] = "list"
    /\ IF \A f \in Resources : dirs[job[r].ws][f] = "no"
       THEN Goto(r, "delete") /\ UNCHANGED job
       ELSE Answer(r)
    /\ UNCHANGED <<repo, late, wsCache, reads, owed, counts, upset>>

\* handleDeleteWorkspace finds nothing but namespace.yaml, or answers 409.
List(r) ==
    /\ pc[r] = "list"
    /\ LET w == job[r].ws IN
         IF Emptied(w)
         THEN /\ Goto(r, "delete")
              /\ UNCHANGED job
              /\ upset' = IF Adding(w) = {} THEN upset ELSE upset \cup {"overlap"}
         ELSE Answer(r) /\ UNCHANGED upset
    /\ UNCHANGED <<repo, late, wsCache, reads, owed, counts>>

\* "The contents API lags a commit by a moment" (github.go:94), and listDir makes no
\* difference between a directory that is not there yet and an empty one.
ListLags(r) ==
    /\ pc[r] = "list"
    /\ ~ Emptied(job[r].ws)
    /\ Fault
    /\ Goto(r, "delete")
    /\ upset' = upset \cup {"blind"}
    /\ UNCHANGED <<repo, late, job, wsCache, reads, owed, asked, lives>>

ListRefused(r) ==
    /\ pc[r] = "list"
    /\ Fault
    /\ Answer(r)
    /\ UNCHANGED <<repo, late, wsCache, reads, owed, asked, lives, upset>>

------------------------------------------------------------------------------
(* handleListWorkspaces                                                       *)

Hit(p) ==
    /\ todo[p] = Idle
    /\ wsCache.set
    /\ answer' = [answer EXCEPT ![p] = wsCache.list]
    /\ UNCHANGED <<repo, late, writes, wsCache, todo, got, owed, counts, upset>>

\* Wrong on purpose: every workspace is asked for its guest.yaml.
ListRootAll(p) ==
    /\ todo[p] = Idle
    /\ ~ wsCache.set
    /\ todo' = [todo EXCEPT ![p] = {w \in Names : There(w)}]
    /\ UNCHANGED <<repo, late, writes, wsCache, got, answer, owed, counts, upset>>

\* listDir(""): as in GuestSlots, the root listing can lag the last commit.
ListRoot(p) ==
    /\ todo[p] = Idle
    /\ ~ wsCache.set
    /\ \E listed \in {{w \in Names : There(w)}, before} :
         /\ IF listed = {w \in Names : There(w)}
            THEN UNCHANGED <<faults, upset>>
            ELSE Fault /\ upset' = upset \cup {"lag"}
         /\ todo' = [todo EXCEPT ![p] = listed \cap Guests]
         /\ got' = [got EXCEPT ![p] =
                [name : listed \cap Tenants, dated : {FALSE}]]
    /\ UNCHANGED <<repo, late, writes, wsCache, answer, owed, asked, lives>>

\* fetchGuestMeta: an error of any kind leaves the entry without its dates.
FetchMeta(p, g) ==
    /\ todo[p] # Idle /\ g \in todo[p]
    /\ todo' = [todo EXCEPT ![p] = @ \ {g}]
    /\ \/ /\ got' = [got EXCEPT ![p] = @ \cup {Entry(g)}]
          /\ UNCHANGED faults
       \/ /\ Entry(g).dated
          /\ got' = [got EXCEPT ![p] = @ \cup {[name |-> g, dated |-> FALSE]}]
          /\ Fault
    /\ UNCHANGED <<repo, late, writes, wsCache, answer, owed, asked, lives, upset>>

\* Wrong on purpose: the incomplete list is cached as well.
StoreIncomplete(p) ==
    /\ todo[p] = {}
    /\ wsCache' = [set |-> TRUE, list |-> got[p]]
    /\ answer' = [answer EXCEPT ![p] = got[p]]
    /\ todo' = [todo EXCEPT ![p] = Idle]
    /\ got' = [got EXCEPT ![p] = {}]
    /\ UNCHANGED <<repo, late, writes, owed, counts, upset>>

\* The list is answered, and cached if every sandbox in it has its dates.
Store(p) ==
    /\ todo[p] = {}
    /\ wsCache' = IF \A e \in got[p] : e.name \in Guests => e.dated
                  THEN [set |-> TRUE, list |-> got[p]]
                  ELSE wsCache
    /\ answer' = [answer EXCEPT ![p] = got[p]]
    /\ todo' = [todo EXCEPT ![p] = Idle]
    /\ got' = [got EXCEPT ![p] = {}]
    /\ UNCHANGED <<repo, late, writes, owed, counts, upset>>

\* Wrong on purpose: every answer from the cache renews it, and pages never stop.
ExpiresUnread ==
    /\ wsCache.set /\ \A p \in Pages : todo[p] # Idle
    /\ wsCache' = Invalid
    /\ UNCHANGED <<repo, late, writes, reads, owed, counts, upset>>

\* workspacesCacheTTL passes.
Expires ==
    /\ wsCache.set
    /\ wsCache' = Invalid
    /\ UNCHANGED <<repo, late, writes, reads, owed, counts, upset>>

------------------------------------------------------------------------------
(* Sandboxes, and the process                                                 *)

\* A commit to a sandbox, and what else there is to say against it.  A contributor's
\* request may have found the directory empty.
GuestCommit(g, against) ==
    /\ before' = {w \in Names : There(w)}
    /\ upset' = upset \cup against \cup (IF Deleting(g) # {} THEN {"overlap"} ELSE {})

\* A page's request under way may have read what was there before.
Overtaken == IF \E p \in Pages : todo[p] # Idle THEN {"fill"} ELSE {}

\* handleCreateGuestWorkspace; GuestSlots says which names it finds free.
CreateGuest(g) ==
    /\ dirs[g]["guest"] # "guest"
    /\ lives < MaxLives
    /\ lives' = lives + 1
    /\ dirs' = [dirs EXCEPT ![g]["namespace"] = "namespace", ![g]["guest"] = "guest"]
    /\ owed' = owed \cup {g}
    /\ GuestCommit(g, Overtaken)
    /\ UNCHANGED <<open, late, writes, wsCache, reads, asked, faults>>

\* A build, a patch or a phase record finds guest.yaml ...
GuestChecks(g) ==
    /\ dirs[g]["guest"] = "guest" /\ g \notin open
    /\ lives < MaxLives
    /\ lives' = lives + 1
    /\ open' = open \cup {g}
    /\ UNCHANGED <<dirs, before, late, writes, wsCache, reads, owed, asked, faults, upset>>

\* ... and commits a resource or guest.yaml.  It may come behind a delete pass, and
\* invalidates nothing.
GuestWrites(g) ==
    /\ g \in open
    /\ open' = open \ {g}
    /\ \E f \in Files \ {"namespace"} :
         dirs' = [dirs EXCEPT ![g][f] = IF f = "guest" THEN "guest" ELSE "resource"]
    /\ GuestCommit(g, IF dirs[g]["namespace"] = "no" THEN {"left"} ELSE {})
    /\ UNCHANGED <<late, writes, wsCache, reads, owed, counts>>

\* deleteGuestWorkspaceFiles: namespace.yaml goes last, but a pass neither sees what
\* landed since it listed the directory nor stops at a file that it cannot delete.
DeleteFromGuest(g) ==
    /\ \E f \in Files :
         /\ dirs[g][f] # "no"
         /\ dirs' = [dirs EXCEPT ![g][f] = "no"]
         /\ GuestCommit(g, Overtaken \cup
                (IF f = "namespace" /\ (~ Emptied(g) \/ Adding(g) # {}) THEN {"left"} ELSE {}))
    /\ owed' = owed \cup {g}
    /\ UNCHANGED <<open, late, writes, wsCache, reads, counts>>

\* Wrong on purpose: a create leaves the cache to its TTL.
InvalidateDeleted(g) ==
    /\ g \in owed
    /\ owed' = owed \ {g}
    /\ wsCache' = IF There(g) THEN wsCache ELSE Invalid
    /\ UNCHANGED <<repo, late, writes, reads, counts, upset>>

\* invalidateWorkspacesCache, after a create's commit and when a delete pass ends.
Invalidate(g) ==
    /\ g \in owed
    /\ owed' = owed \ {g}
    /\ wsCache' = Invalid
    /\ UNCHANGED <<repo, late, writes, reads, counts, upset>>

\* The process restarts.  What of a sandbox is on its way to GitHub may land after it.
Restart ==
    /\ Fault
    /\ pc' = [r \in Requests |-> "idle"]
    /\ job' = [r \in Requests |-> NoJob]
    /\ wsCache' = Invalid
    /\ todo' = [p \in Pages |-> Idle]
    /\ got' = [p \in Pages |-> {}]
    /\ owed' = {}
    /\ UNCHANGED <<repo, late, answer, asked, lives, upset>>

------------------------------------------------------------------------------
Contribute(r) ==
    \/ Arrive(r) \/ Write(r) \/ WriteRefused(r) \/ WriteLost(r)
    \/ List(r) \/ ListLags(r) \/ ListRefused(r)

Read(p) == Hit(p) \/ ListRoot(p) \/ (\E g \in Guests : FetchMeta(p, g)) \/ Store(p)

Next ==
    \/ \E r \in Requests : Contribute(r)
    \/ \E l \in late : LateWrite(l)
    \/ \E p \in Pages : Read(p)
    \/ Expires
    \/ \E g \in Guests : CreateGuest(g) \/ GuestChecks(g) \/ GuestWrites(g)
                           \/ DeleteFromGuest(g) \/ Invalidate(g)
    \/ Restart

Safety == Init /\ [][Next]_vars

\* Pages poll, their requests are answered or time out, and time passes.
Fairness == WF_vars(Expires) /\ \A p \in Pages : WF_vars(Read(p))

Spec == Safety /\ Fairness
------------------------------------------------------------------------------
TypeOK ==
    /\ dirs \in [Names -> [Files -> Kept]]
    /\ late \in SUBSET Late
    /\ pc \in [Requests -> {"idle", "namespace", "resource", "list", "delete", "remove"}]
    /\ job \in [Requests -> Jobs]
    /\ wsCache \in [set : BOOLEAN, list : SUBSET Entries]
    /\ todo \in [Pages -> (SUBSET Guests) \cup {Idle}]
    /\ got \in [Pages -> SUBSET Entries]
    /\ answer \in [Pages -> SUBSET Entries]
    /\ open \in SUBSET Guests /\ owed \in SUBSET Guests
    /\ before \in SUBSET Names
    /\ asked \in 0..MaxAsks /\ lives \in 0..MaxLives /\ faults \in 0..MaxFaults
    /\ upset \in SUBSET Upsets

\* Whatever a workspace holds, it holds its namespace.yaml: handleCreateResource
\* writes that first, sandboxes get it with their guest.yaml, and handleDeleteWorkspace
\* takes it only when nothing else is there ("any other file left behind would be
\* orphaned", workspaces.go:335).  Excepted are a delete that overlaps a create or an
\* add, one whose listing lags, a write that lands late, a resource named "namespace",
\* and the sandboxes once a pass took namespace.yaml while something was left or
\* on its way, or something landed behind one.
NoOrphans ==
    upset \cap {"overlap", "late", "named", "blind"} = {} =>
        \A w \in Names : There(w) => \/ dirs[w]["namespace"] = "namespace"
                                      \/ (w \in Guests /\ "left" \in upset)

\* Whatever the steps in between and however late it lands, only a contributor's
\* write changes a workspace kept by hand.
Authorised ==
    \A w \in Tenants, f \in Files :
        dirs'[w][f] # dirs[w][f] =>
            \/ \E r \in Requests : /\ Writing(r) /\ job[r].token = "contributor"
                                   /\ job[r].ws = w /\ Target(r) = f
            \/ \E l \in late : l.token = "contributor" /\ l.ws = w /\ l.file = f

ContributorsOnly == [][Authorised]_vars

\* "create/delete invalidate it immediately" (workspaces.go:69) holds of sandboxes:
\* the cached list has exactly those there are, each with its dates, once their
\* creates and delete passes have returned.  Excepted are reads in flight during
\* the commit, listings that lag, builds and phase records that land behind a delete
\* pass, and contributors who write to a sandbox.
GuestsListed ==
    wsCache.set /\ owed = {} /\ upset \cap {"fill", "lag", "left", "meddled"} = {} =>
        {e \in wsCache.list : e.name \in Guests} =
            [name : {g \in Guests : There(g)}, dated : {TRUE}]

\* Contributors' writes invalidate nothing, but like everything else they show on
\* every page in the end, and what failed before does not stay.
Current(p) == answer[p] = Actual

ListSettles == \A p \in Pages : <>[]Current(p)
==============================================================================
