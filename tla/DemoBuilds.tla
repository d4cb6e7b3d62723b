------------------------------ MODULE DemoBuilds -----------------------------
(* guest.go and workspaces.go: the demo in one sandbox.  A build plans the    *)
(* files of a whole demo and lands them in one commit, a patch renders the    *)
(* Api again, and GET .../resources lists what there is out of a cache.  Each *)
(* reads GitHub a few times first, and between two reads other requests,      *)
(* other creates of the name and delete passes move.  GuestSlots says which   *)
(* name and slot a create gets, GuestCleanup when a pass starts and that it   *)
(* comes to an end; AtomicRepo says what a commit promises.                   *)
EXTENDS Integers, FiniteSets

CONSTANTS Builders,   \* requests that build or patch
          Pages,      \* clients that poll the sandbox's resources
          Asked,      \* what requests ask for: Patch, or a kind and its add-ons
          Slots,      \* guestSlots
          NoSlot,     \* a text without a slot
          MaxLives,   \* bound: times the name is taken
          MaxBuilds,  \* bound: builds and patches
          MaxErrors   \* bound: requests to GitHub that fail, lag, or go unanswered, restarts

VARIABLES dir,       \* the sandbox's files on main
          text,      \* per kind of resource: what its file says
          meta,      \* what guest.yaml says: which life, which slot
          expired,   \* guestTTL of that life has passed
          creating,  \* "no", "seeded" or "landed": how far a create has come
          pass,      \* the files a delete pass has still to delete, or NoPass
          state,     \* per builder
          plan,      \* per builder: what it asked for, and what it has read
          pending,   \* commits nobody waits for that may still land
          guestList, \* guestListCache: this sandbox's entry, if it is set
          resCache,  \* resourceCache[name], if it is young enough
          unread,    \* per page: listed files that are not in yet, or Idle
          found,     \* per page: `parsed`, and fetchFailed
          shown,     \* per page: its last answer
          builds, errors,  \* how many there were
          amiss      \* what went wrong so far (history)

sandbox  == <<dir, text, meta, expired>>
cleaning == <<creating, pass>>
building == <<state, plan, pending>>
paging   == <<unread, found, shown>>
tallies  == <<builds, errors>>
vars == <<sandbox, cleaning, building, guestList, resCache, paging, tallies, amiss>>

Siblings == {"Sql", "NoSql", "ObjectStorage"}
Kinds    == {"Api", "Spa", "WorkflowSpace"} \cup Siblings
Infra    == {"namespace", "guest"}  \* isInfraFile
Texts    == [slot : Slots \cup {NoSlot}, refs : SUBSET Siblings, flow : BOOLEAN]
Blank    == [slot |-> NoSlot, refs |-> {}, flow |-> FALSE]
Metas    == [life : 0..MaxLives, slot : Slots \cup {NoSlot}]
NoMeta   == [life |-> 0, slot |-> NoSlot]
Idle     == {"idle"}
NoPass   == {"no pass"}
NoList   == [set |-> FALSE, entry |-> NoMeta]
NoCache  == [set |-> FALSE, kinds |-> {}]
NotFound == [kinds |-> {}, failed |-> FALSE]

Patch    == [kind |-> "patch", addons |-> {}]
Demos    == Asked \ {Patch}
Plans    == [demo : Asked \cup {Patch}, meta : Metas, listed : BOOLEAN, seen : SUBSET Kinds]
NoPlan   == [demo |-> Patch, meta |-> NoMeta, listed |-> FALSE, seen |-> {}]

\* A request is for a patch or for a demo of one of the three kinds (planGuestBatch);
\* guestSlots are names.
Parameters ==
    /\ \A d \in Demos : d.kind \in {"Api", "Spa", "WorkflowSpace"}
    /\ MaxLives \in Nat /\ MaxBuilds \in Nat /\ MaxErrors \in Nat

There  == dir \cap Kinds
Held   == "guest" \in dir
Found  == IF Held THEN meta ELSE NoMeta

Init ==
    /\ dir = {} /\ text = [k \in Kinds |-> Blank] /\ meta = NoMeta /\ expired = FALSE
    /\ creating = "no" /\ pass = NoPass
    /\ state = [b \in Builders |-> "idle"] /\ plan = [b \in Builders |-> NoPlan]
    /\ pending = {}
    /\ guestList = NoList /\ resCache = NoCache
    /\ unread = [p \in Pages |-> Idle] /\ found = [p \in Pages |-> NotFound]
    /\ shown = [p \in Pages |-> {}]
    /\ builds = 0 /\ errors = 0
    /\ amiss = {}

------------------------------------------------------------------------------
(* What a demo is                                                             *)

\* The kinds handleCreateGuestResourceBatch plans for a request.
Plan(d) ==
    CASE d.kind = "Api"           -> {"Api"} \cup (d.addons \cap (Siblings \cup {"Spa"}))
      [] d.kind = "Spa"           -> {"Spa"} \cup (d.addons \cap {"Api"})
      [] d.kind = "WorkflowSpace" -> {"WorkflowSpace", "Api"}

\* buildGuestParams: the Api and the Spa have the slot in their host, and the Api
\* refers to every sibling among the files.  `flow` is the demo-workflow image with
\* its workflowSpaceRef.
Params(kind, slot, files, flow) ==
    [slot |-> IF kind \in {"Api", "Spa"} THEN slot ELSE NoSlot,
     refs |-> IF kind = "Api" THEN files \cap Siblings ELSE {},
     flow |-> kind = "Api" /\ flow]

\* The files of a build that found these files and this slot.
Rendered(d, seen, slot) ==
    [k \in Plan(d) |-> Params(k, slot, seen \cup Plan(d), d.kind = "WorkflowSpace")]

\* What b is to commit.
Files(b) ==
    IF plan[b].demo = Patch
    THEN [k \in {"Api"} |-> Params("Api", plan[b].meta.slot, plan[b].seen, FALSE)]
    ELSE Rendered(plan[b].demo, plan[b].seen, plan[b].meta.slot)

Land(files) ==
    /\ dir' = dir \cup DOMAIN files
    /\ text' = [k \in Kinds |-> IF k \in DOMAIN files THEN files[k] ELSE text[k]]
    /\ UNCHANGED <<meta, expired>>

------------------------------------------------------------------------------
Error == errors < MaxErrors /\ errors' = errors + 1

Goto(b, label) == state' = [state EXCEPT ![b] = label]
Answer(b)      == Goto(b, "idle") /\ plan' = [plan EXCEPT ![b] = NoPlan]
Past(e)        == e # NoMeta /\ (e.life < meta.life \/ expired)

\* Both reads of a build are in when it commits.
HasRead(b) == plan[b].meta # NoMeta /\ plan[b].listed

\* listDir: what is there, or, soon after a commit, nothing of the demo yet.  It makes
\* no difference between a directory that is not there and an empty one.
Listing(seen) ==
    \/ seen = There /\ UNCHANGED errors
    \/ seen = {} /\ There # {} /\ Error

\* What there is to say against it.
Lag(seen) == IF seen = There THEN {} ELSE {"lag"}

Ask(b) ==
    /\ state[b] = "idle"
    /\ b = CHOOSE c \in Builders : state[c] = "idle"
    /\ builds < MaxBuilds
    /\ builds' = builds + 1
    /\ \E d \in Asked :
         /\ plan' = [plan EXCEPT ![b].demo = d]
         /\ Goto(b, IF d = Patch THEN "load" ELSE "read")
    /\ UNCHANGED <<sandbox, cleaning, pending, guestList, resCache, paging, errors, amiss>>

\* A request to GitHub fails, or the client gives up: the handler answers an error.
Refused(b) ==
    /\ state[b] # "idle"
    /\ Error
    /\ Answer(b)
    /\ UNCHANGED <<sandbox, cleaning, pending, guestList, resCache, paging, builds, amiss>>

------------------------------------------------------------------------------
(* handleCreateGuestResourceBatch                                             *)

\* validateGuestWorkspace, concurrently with the listing: 404 when three reads of
\* guest.yaml find none, 410 when it has expired.
ReadMeta(b) ==
    /\ state[b] = "read"
    /\ plan[b].meta = NoMeta
    /\ IF Held /\ ~ expired
       THEN plan' = [plan EXCEPT ![b].meta = meta] /\ UNCHANGED state
       ELSE Answer(b)
    /\ UNCHANGED <<sandbox, cleaning, pending, guestList, resCache, paging, tallies, amiss>>

\* Wrong on purpose: a sandbox may have several demos.
ListAnyDemo(b) ==
    /\ state[b] = "read"
    /\ ~ plan[b].listed
    /\ plan' = [plan EXCEPT ![b].listed = TRUE, ![b].seen = There]
    /\ UNCHANGED <<sandbox, cleaning, state, pending, guestList, resCache, paging, tallies,
                   amiss>>

\* listDir: "Each sandbox runs one demo" (guest.go:312), or 409.  One that a delete
\* pass has emptied meanwhile is as good as new.
ListDemo(b) ==
    /\ state[b] = "read"
    /\ ~ plan[b].listed
    /\ \E seen \in {There, {}} :
         /\ Listing(seen)
         /\ IF seen # {}
            THEN Answer(b) /\ UNCHANGED amiss
            ELSE /\ plan' = [plan EXCEPT ![b].listed = TRUE]
                 /\ UNCHANGED state
                 /\ amiss' = amiss \cup Lag(seen)
                      \cup (IF \E c \in Builders \ {b} : plan[c].listed
                            THEN {"overlap"} ELSE {})
    /\ UNCHANGED <<sandbox, cleaning, pending, guestList, resCache, paging, builds>>

Ready(b) ==
    \/ state[b] = "read" /\ HasRead(b)
    \/ state[b] = "upsert"

\* upsertFilesAtomic, or a patch's upsertFile, lands and is answered.
Commit(b) ==
    /\ Ready(b)
    /\ Land(Files(b))
    /\ Answer(b)
    /\ UNCHANGED <<cleaning, pending, guestList, resCache, paging, tallies, amiss>>

\* It is not answered, and may land once the handler has moved on.
CommitLost(b) ==
    /\ Ready(b)
    /\ Error
    /\ pending' = pending \cup {Files(b)}
    /\ Answer(b)
    /\ amiss' = amiss \cup {"late"}
    /\ UNCHANGED <<sandbox, cleaning, guestList, resCache, paging, builds>>

CommitLate(files) ==
    /\ files \in pending
    /\ Land(files)
    /\ pending' = pending \ {files}
    /\ UNCHANGED <<cleaning, state, plan, guestList, resCache, paging, tallies, amiss>>

------------------------------------------------------------------------------
(* handlePatchGuestResource                                                   *)

\* The sandbox in the guest list: 404 when it is not there, 410 when it has expired.
Loaded(b, e) ==
    IF e = NoMeta \/ Past(e)
    THEN Answer(b)
    ELSE plan' = [plan EXCEPT ![b].meta = e] /\ Goto(b, "check")

LoadHit(b) ==
    /\ state[b] = "load"
    /\ guestList.set
    /\ Loaded(b, guestList.entry)
    /\ UNCHANGED <<sandbox, cleaning, pending, guestList, resCache, paging, tallies, amiss>>

\* loadGuestWorkspaces reads, and stores later what it has read.
LoadRead(b) ==
    /\ state[b] = "load"
    /\ ~ guestList.set
    /\ plan' = [plan EXCEPT ![b].meta = Found]
    /\ Goto(b, "loaded")
    /\ UNCHANGED <<sandbox, cleaning, pending, guestList, resCache, paging, tallies, amiss>>

LoadStore(b) ==
    /\ state[b] = "loaded"
    /\ guestList' = [set |-> TRUE, entry |-> plan[b].meta]
    /\ Loaded(b, plan[b].meta)
    /\ UNCHANGED <<sandbox, cleaning, pending, resCache, paging, tallies, amiss>>

\* fileContent of the Api, or 404.
CheckApi(b) ==
    /\ state[b] = "check"
    /\ IF "Api" \in dir THEN Goto(b, "list") /\ UNCHANGED plan ELSE Answer(b)
    /\ UNCHANGED <<sandbox, cleaning, pending, guestList, resCache, paging, tallies, amiss>>

\* Wrong on purpose: a WorkflowSpace's Api is like any other.
ListAnySiblings(b) ==
    /\ state[b] = "list"
    /\ Goto(b, "upsert")
    /\ plan' = [plan EXCEPT ![b].seen = There]
    /\ UNCHANGED <<sandbox, cleaning, pending, guestList, resCache, paging, tallies, amiss>>

\* listDir for the references: 409 for a WorkflowSpace, whose Api "takes no add-ons".
ListSiblings(b) ==
    /\ state[b] = "list"
    /\ \E seen \in {There, {}} :
         /\ Listing(seen)
         /\ IF "WorkflowSpace" \in seen
            THEN Answer(b) /\ UNCHANGED amiss
            ELSE /\ Goto(b, "upsert")
                 /\ plan' = [plan EXCEPT ![b].seen = seen]
                 /\ amiss' = amiss \cup Lag(seen)
    /\ UNCHANGED <<sandbox, cleaning, pending, guestList, resCache, paging, builds>>

------------------------------------------------------------------------------
(* handleListResources                                                        *)

PageHit(p) ==
    /\ unread[p] = Idle
    /\ resCache.set
    /\ shown' = [shown EXCEPT ![p] = resCache.kinds]
    /\ UNCHANGED <<sandbox, cleaning, building, guestList, resCache, unread, found, tallies,
                   amiss>>

\* Wrong on purpose: namespace.yaml and guest.yaml are read as resources.
PageListAll(p) ==
    /\ unread[p] = Idle
    /\ ~ resCache.set
    /\ unread' = [unread EXCEPT ![p] = dir]
    /\ UNCHANGED <<sandbox, cleaning, building, guestList, resCache, found, shown, tallies,
                   amiss>>

\* listDir: a directory that is not there lists nothing, which is answered and cached.
PageList(p) ==
    /\ unread[p] = Idle
    /\ ~ resCache.set
    /\ \E seen \in {There, {}} :
         /\ Listing(seen)
         /\ unread' = [unread EXCEPT ![p] = seen]
    /\ UNCHANGED <<sandbox, cleaning, building, guestList, resCache, found, shown, builds,
                   amiss>>

\* One of the concurrent reads.
PageFetch(p, k) ==
    /\ unread[p] # Idle /\ k \in unread[p]
    /\ unread' = [unread EXCEPT ![p] = @ \ {k}]
    /\ \/ /\ found' = IF k \in dir THEN [found EXCEPT ![p].kinds = @ \cup {k}]
                                   ELSE [found EXCEPT ![p].failed = TRUE]
          /\ UNCHANGED errors
       \/ k \in dir /\ found' = [found EXCEPT ![p].failed = TRUE] /\ Error
    /\ UNCHANGED <<sandbox, cleaning, building, guestList, resCache, shown, builds, amiss>>

Done(p) ==
    /\ unread[p] = {}
    /\ unread' = [unread EXCEPT ![p] = Idle]
    /\ found' = [found EXCEPT ![p] = NotFound]

\* Wrong on purpose: what could be read is answered and cached.
PageStorePartial(p) ==
    /\ Done(p)
    /\ resCache' = [set |-> TRUE, kinds |-> found[p].kinds]
    /\ shown' = [shown EXCEPT ![p] = found[p].kinds]
    /\ UNCHANGED <<sandbox, cleaning, building, guestList, tallies, amiss>>

\* A failed read makes it a 502 and keeps the list out of the cache.
PageStore(p) ==
    /\ Done(p)
    /\ IF found[p].failed
       THEN UNCHANGED <<resCache, shown>>
       ELSE /\ resCache' = [set |-> TRUE, kinds |-> found[p].kinds]
            /\ shown' = [shown EXCEPT ![p] = found[p].kinds]
    /\ UNCHANGED <<sandbox, cleaning, building, guestList, tallies, amiss>>

\* Wrong on purpose: an empty list is kept for good.
CacheExpiresFull ==
    /\ resCache.kinds # {}
    /\ resCache' = NoCache
    /\ UNCHANGED <<sandbox, cleaning, building, guestList, paging, tallies, amiss>>

\* resourcesCacheTTL passes.
CacheExpires ==
    /\ resCache.set
    /\ resCache' = NoCache
    /\ UNCHANGED <<sandbox, cleaning, building, guestList, paging, tallies, amiss>>

\* guestListCacheTTL passes, or something about another sandbox invalidates.
ListExpires ==
    /\ guestList.set
    /\ guestList' = NoList
    /\ UNCHANGED <<sandbox, cleaning, building, resCache, paging, tallies, amiss>>

------------------------------------------------------------------------------
(* The sandbox comes and goes                                                 *)

\* What is left of the name's last life as a create comes by.
Busy == (\E b \in Builders : state[b] # "idle") \/ (\E p \in Pages : unread[p] # Idle)
Remains == (IF Busy THEN {"straddle"} ELSE {}) \cup (IF There # {} THEN {"leftover"} ELSE {})

\* handleCreateGuestWorkspace, once the name was found to be free: the resource cache
\* is seeded while the commit is still to come.
CreateSeeds ==
    /\ creating = "no" /\ ~ Held /\ meta.life < MaxLives
    /\ creating' = "seeded"
    /\ resCache' = [set |-> TRUE, kinds |-> {}]
    /\ amiss' = amiss \cup Remains
    /\ UNCHANGED <<sandbox, pass, building, guestList, paging, tallies>>

CreateLands ==
    /\ creating = "seeded"
    /\ creating' = "landed"
    /\ dir' = dir \cup Infra
    /\ \E s \in Slots : meta' = [life |-> meta.life + 1, slot |-> s]
    /\ expired' = FALSE
    /\ amiss' = amiss \cup Remains
    /\ UNCHANGED <<text, pass, building, guestList, resCache, paging, tallies>>

CreateFails ==
    /\ creating = "seeded"
    /\ Error
    /\ creating' = "no"
    /\ UNCHANGED <<sandbox, pass, building, guestList, resCache, paging, builds, amiss>>

\* The guest list is seeded as well.
CreateReturns ==
    /\ creating = "landed"
    /\ creating' = "no"
    /\ guestList' = [set |-> TRUE, entry |-> Found]
    /\ UNCHANGED <<sandbox, pass, building, resCache, paging, tallies, amiss>>

\* guestTTL passes.
Expire ==
    /\ Held /\ ~ expired
    /\ expired' = TRUE
    /\ UNCHANGED <<dir, text, meta, cleaning, building, guestList, resCache, paging, tallies,
                   amiss>>

\* deleteGuestWorkspaceFiles lists what it is to delete.
PassLists ==
    /\ pass = NoPass
    /\ dir # {} /\ (expired \/ ~ Held)
    /\ pass' = dir
    /\ UNCHANGED <<sandbox, creating, building, guestList, resCache, paging, tallies, amiss>>

\* One file, namespace.yaml last; what does not work is left to the next pass.
PassDeletes(f) ==
    /\ pass # NoPass /\ f \in pass
    /\ f = "namespace" => pass = {"namespace"}
    /\ pass' = pass \ {f}
    /\ \/ /\ dir' = dir \ {f}
          /\ text' = IF f \in Kinds THEN [text EXCEPT ![f] = Blank] ELSE text
          /\ UNCHANGED errors
       \/ f \in dir /\ UNCHANGED <<dir, text>> /\ Error
    /\ UNCHANGED <<meta, expired, creating, building, guestList, resCache, paging, builds,
                   amiss>>

\* However it went, the workspace caches are invalidated.
PassEnds ==
    /\ pass = {}
    /\ pass' = NoPass
    /\ guestList' = NoList
    /\ UNCHANGED <<sandbox, creating, building, resCache, paging, tallies, amiss>>

Restart ==
    /\ Error
    /\ creating' = "no" /\ pass' = NoPass
    /\ state' = [b \in Builders |-> "idle"] /\ plan' = [b \in Builders |-> NoPlan]
    /\ guestList' = NoList /\ resCache' = NoCache
    /\ unread' = [p \in Pages |-> Idle] /\ found' = [p \in Pages |-> NotFound]
    /\ UNCHANGED <<sandbox, pending, shown, builds, amiss>>

------------------------------------------------------------------------------
Build(b) ==
    \/ Ask(b) \/ Refused(b)
    \/ ReadMeta(b) \/ ListDemo(b)
    \/ LoadHit(b) \/ LoadRead(b) \/ LoadStore(b) \/ CheckApi(b) \/ ListSiblings(b)
    \/ Commit(b) \/ CommitLost(b)

Page(p) == PageHit(p) \/ PageList(p) \/ (\E k \in Kinds : PageFetch(p, k)) \/ PageStore(p)

Create == CreateSeeds \/ CreateLands \/ CreateFails \/ CreateReturns
Pass   == PassLists \/ (\E f \in Kinds \cup Infra : PassDeletes(f)) \/ PassEnds

Next ==
    \/ \E b \in Builders : Build(b)
    \/ \E files \in pending : CommitLate(files)
    \/ \E p \in Pages : Page(p)
    \/ CacheExpires \/ ListExpires
    \/ Create \/ Expire \/ Pass
    \/ Restart

Safety == Init /\ [][Next]_vars

\* A page polls and its requests are answered or time out, and time passes.
Fairness == WF_vars(CacheExpires) /\ \A p \in Pages : WF_vars(Page(p))

Spec == Safety /\ Fairness
------------------------------------------------------------------------------
TypeOK ==
    /\ dir \subseteq Kinds \cup Infra
    /\ text \in [Kinds -> Texts]
    /\ meta \in Metas
    /\ expired \in BOOLEAN
    /\ creating \in {"no", "seeded", "landed"}
    /\ pass \in (SUBSET (Kinds \cup Infra)) \cup {NoPass}
    /\ state \in [Builders -> {"idle", "read", "load", "loaded", "check", "list", "upsert"}]
    /\ plan \in [Builders -> Plans]
    /\ \A files \in pending : files \in [DOMAIN files -> Texts] /\ DOMAIN files \subseteq Kinds
    /\ guestList \in [set : BOOLEAN, entry : Metas]
    /\ resCache \in [set : BOOLEAN, kinds : SUBSET Kinds]
    /\ unread \in [Pages -> (SUBSET Kinds) \cup {Idle}]
    /\ found \in [Pages -> [kinds : SUBSET Kinds, failed : BOOLEAN]]
    /\ shown \in [Pages -> SUBSET Kinds]
    /\ builds \in 0..MaxBuilds /\ errors \in 0..MaxErrors
    /\ amiss \subseteq {"overlap", "lag", "late", "straddle", "leftover"}

Fine == Held /\ ~ expired /\ pass = NoPass /\ amiss = {}

\* "Each sandbox runs one demo" (guest.go:312): whatever builds and patches there
\* were, in whatever order their reads and commits came, a live sandbox holds nothing
\* or exactly the files of one build, for its own slot, with an Api that refers to
\* the siblings there are and is a workflow worker in a WorkflowSpace's demo alone.
\* Excepted are builds whose reads overlap, listings that lag, commits that land
\* late, and requests or files that are left of the name's last life.
DemoWhole ==
    Fine /\ There # {} =>
        \E d \in Demos : /\ There = Plan(d)
                         /\ \A k \in There : text[k] = Rendered(d, {}, meta.slot)[k]

\* "A partial list reads as a sandbox with nothing built, and the page offers Build it
\* again" (workspaces.go:220): the cached resources of a live sandbox are the whole
\* demo or, for as long as the cache lasts, nothing; never some of the demo, and
\* never those of the name's last life.
WholeLists == Fine /\ resCache.set => resCache.kinds \in {{}, There}

\* However many reads fail and listings lag, every page shows in the end what the
\* sandbox holds, and nothing once it is gone.
Current(p) == shown[p] = There

PagesSettle == \A p \in Pages : <>[]Current(p)
==============================================================================
