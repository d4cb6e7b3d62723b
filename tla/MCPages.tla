------------------------------- MODULE MCPages -------------------------------
(* Four parts that share no variable, checked in one run: `running` says      *)
(* which of them a behaviour is about, is chosen at the start and never       *)
(* changes, and the others stay as they were.  Nothing is lost by that: what  *)
(* one part does neither enables nor disturbs a step of another, and every    *)
(* property speaks of one part.  Workspaces and DemoBuilds are taken with     *)
(* their theorems, which MCPages_proofs cites.                                *)
EXTENDS SseTickets, FiniteSets

CONSTANTS Contributors,  \* requests of contributors at once, where no page is watched
          Contributor1,  \* and the request where one is
          OnePage, Tenants, OneGuest, Resources,
          TwoBuilders, OneBuilder, Slots, OneSlot, NoSlot

VARIABLES running,
          dirs, late, pc, job, wsCache, todo, got, answer, open, owed, before, asked, lives,
          faults, upset,
          dir, text, meta, expired, creating, pass, state, plan, pending, guestList,
          resCache, unread, found, shown, builds, errors, amiss

Writers == INSTANCE Workspaces_proofs WITH
    Requests <- Contributors, Pages <- {}, Guests <- {},
    MaxAsks <- 4, MaxLives <- 0, MaxFaults <- 1
Listing == INSTANCE Workspaces_proofs WITH
    Requests <- Contributor1, Pages <- OnePage, Guests <- OneGuest,
    MaxAsks <- 1, MaxLives <- 2, MaxFaults <- 1

ApiAndSql == [kind |-> "Api", addons |-> {"Sql"}]
SpaAndApi == [kind |-> "Spa", addons |-> {"Api"}]
Workflow  == [kind |-> "WorkflowSpace", addons |-> {}]
Patch     == [kind |-> "patch", addons |-> {}]

Builds == INSTANCE DemoBuilds_proofs WITH
    Builders <- TwoBuilders, Pages <- {}, Asked <- {ApiAndSql, Workflow, Patch},
    MaxLives <- 2, MaxBuilds <- 2, MaxErrors <- 1
Watching == INSTANCE DemoBuilds_proofs WITH
    Builders <- OneBuilder, Pages <- OnePage, Asked <- {SpaAndApi}, Slots <- OneSlot,
    MaxLives <- 2, MaxBuilds <- 1, MaxErrors <- 1

\* What the theorems of Workspaces_proofs and DemoBuilds_proofs assume of the parameters.
ASSUME PagesParameters ==
    /\ Writers!Parameters /\ Listing!Parameters
    /\ Builds!Parameters /\ Watching!Parameters

workspaces == <<dirs, late, pc, job, wsCache, todo, got, answer, open, owed, before, asked,
                lives, faults, upset>>
demo == <<dir, text, meta, expired, creating, pass, state, plan, pending, guestList,
          resCache, unread, found, shown, builds, errors, amiss>>

PagesInit ==
    /\ Init
    /\ \/ /\ running \in {"tickets", "listing", "watching"}
          /\ Listing!Init /\ Watching!Init
       \/ running = "writers" /\ Writers!Init /\ Watching!Init
       \/ running = "builds" /\ Listing!Init /\ Builds!Init

Run(part) == running = part /\ UNCHANGED running

Tickets_Next  == Run("tickets") /\ Next /\ UNCHANGED <<workspaces, demo>>
Writers_Next  == Run("writers") /\ Writers!Next /\ UNCHANGED <<vars, demo>>
Listing_Next  == Run("listing") /\ Listing!Next /\ UNCHANGED <<vars, demo>>
Watching_Next == Run("watching") /\ Watching!Next /\ UNCHANGED <<vars, workspaces>>

\* DemoWhole says nothing of what comes after something went amiss.
Builds_Next == Run("builds") /\ amiss = {} /\ Builds!Next /\ UNCHANGED <<vars, workspaces>>

\* Every request the bounds allow was made, and there is nothing left to do.
Over ==
    /\ \/ running = "writers" /\ asked = 4 /\ \A r \in Contributors : pc[r] = "idle"
       \/ /\ running = "builds"
          /\ \/ amiss # {}
             \/ dir = {} /\ meta.life = 2 /\ \A b \in TwoBuilders : state[b] = "idle"
       \/ running = "watching" /\ dir = {} /\ meta.life = 2 /\ builds = 1
    /\ UNCHANGED <<running, vars, workspaces, demo>>

PagesNext ==
    Tickets_Next \/ Writers_Next \/ Listing_Next \/ Builds_Next \/ Watching_Next \/ Over

\* Each part's Fairness, where that part is running.
PagesFairness ==
    /\ WF_vars(running = "tickets" /\ Tick) /\ WF_vars(running = "tickets" /\ Sweep)
    /\ WF_workspaces(running = "listing" /\ Listing!Expires)
    /\ \A p \in OnePage : WF_workspaces(running = "listing" /\ Listing!Read(p))
    /\ WF_demo(running = "watching" /\ Watching!CacheExpires)
    /\ \A p \in OnePage : WF_demo(running = "watching" /\ Watching!Page(p))

PagesSpec ==
    PagesInit /\ [][PagesNext]_<<running, vars, workspaces, demo>> /\ PagesFairness
------------------------------------------------------------------------------
\* The types of Workspaces, of contributors' requests and of the listing.
WorkspacesTypeOK ==
    (running = "writers" => Writers!TypeOK) /\ (running = "listing" => Listing!TypeOK)

\* Workspaces!NoOrphans: no workspace, by hand or sandbox, has files and no
\* namespace.yaml, but under the excuses named there (handleCreateResource,
\* handleDeleteWorkspace, deleteGuestWorkspaceFiles).
NoOrphans ==
    (running = "writers" => Writers!NoOrphans) /\ (running = "listing" => Listing!NoOrphans)

\* Workspaces!ContributorsOnly: only a contributor's write changes a workspace kept by
\* hand, however late it lands (requireContributor in each of the four handlers).
ContributorsOnly ==
    [][/\ running = "writers" => Writers!Authorised
       /\ running = "listing" => Listing!Authorised]_workspaces

\* Workspaces!GuestsListed: the cached list has exactly the sandboxes there are, with
\* their dates (handleListWorkspaces, invalidateWorkspacesCache).
GuestsListed == running = "listing" => Listing!GuestsListed

\* Workspaces!ListSettles: what contributors and guests did shows on every page in the
\* end (handleListWorkspaces, workspacesCacheTTL).
ListSettles == \A p \in OnePage : <>[](running = "listing" => Listing!Current(p))

\* The types of DemoBuilds, of builds and of the pages that watch them.
DemoTypeOK ==
    (running = "builds" => Builds!TypeOK) /\ (running = "watching" => Watching!TypeOK)

\* DemoBuilds!DemoWhole: a live sandbox holds nothing or exactly one build's demo
\* (handleCreateGuestResourceBatch, handlePatchGuestResource).
DemoWhole ==
    (running = "builds" => Builds!DemoWhole) /\ (running = "watching" => Watching!DemoWhole)

\* DemoBuilds!WholeLists: the cached resources are the whole demo or nothing
\* (handleListResources, and the seed of handleCreateGuestWorkspace).
WholeLists ==
    (running = "builds" => Builds!WholeLists) /\ (running = "watching" => Watching!WholeLists)

\* DemoBuilds!PagesSettle: every page shows in the end what the sandbox holds
\* (handleListResources, resourcesCacheTTL).
PagesSettle == \A p \in OnePage : <>[](running = "watching" => Watching!Current(p))
==============================================================================
