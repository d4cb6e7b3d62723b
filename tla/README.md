# launchpad-api, verified

TLA+ models of launchpad-api: a Go server that turns web requests into commits on a GitHub
repository, from which ArgoCD and Crossplane build what users asked for. The models are checked
with TLC on small instances; theorems about them are proved with TLAPS for every instance. Line
numbers refer to the repository this directory is kept beside.

## 1. The system

launchpad-api runs as one replica. Its durable state is not its own: files on branch `main` of a
GitHub repository, runs and a schedule at Temporal, objects in a Kubernetes cluster. Everything
else is in memory and goes with the process.

| Component | State | Operations | Talks to |
|---|---|---|---|
| GitHub writers (`write.go`, `github.go`) | `writeMu` | `upsertFile`, `deleteFile`, `upsertFilesAtomic` | GitHub contents and Git Data APIs, several requests per write |
| GitHub readers (`github.go`) | the token file | `listDir`, `fileContent` | contents API, which lags commits |
| Guest create and list (`guest.go`, `main.go`) | `guestCreateMu`, `guestListCache(At)` | create, list, `loadGuestWorkspaces`, `invalidateWorkspacesCache` | readers, `upsertFilesAtomic`, `startCleanup` |
| Demo build and patch (`guest.go`) | none | batch build, patch | readers, writers, the guest list |
| Phase records (`guest.go`, `main.go`) | `guestMetaLk`, `guestPhaseWrites`, `guestPhaseSem` | record, done, reset, in the background | `fileContent`, `upsertFile` |
| Cleanup and sweep (`cleanup.go`, `guest.go`) | `staleGuestMisses`; runs and schedule at Temporal | `SandboxCleanupWorkflow`, `GuestSweepWorkflow`, delete pass | Temporal, readers, `deleteFile`; forgets locks, invalidates caches |
| Status watch (`watcher.go`, `broadcaster.go`) | `cache`, `clients`, one channel per client | list, watch, publish, evict, subscribe, unsubscribe | Kubernetes watches in, SSE connections out |
| Workspace and resource listings (`workspaces.go`) | `wsCache(At)`, `resourceCache` | list, contributor create and delete | readers, writers; create seeds, delete invalidates |
| SSE tickets (`sse_ticket.go`) | `tickets` | mint, redeem, sweep | the auth middleware |
| Authentication (`auth.go`) | key set of the OIDC library | `requireAuth`, `requireContributor` | tickets, the identity provider |
| Rendering, schema, validation | none | pure functions | |
| Metrics (`guest.go`) | `metricsLast` | scrape | the guest list, readers |

What is hard about it, and what each component must get right:

* **Writers.** Each write is two to four HTTP requests and `main` moves between any two: by CI, by
  people, by a request of our own that timed out and is acted on later. A write must land whole, on
  top of what is there then, once; "ok" must mean it landed; no path may keep `writeMu`.
* **Create and list.** The list is read in many requests, by several requests at once, and cached;
  the commit, the invalidation and the seed are separate critical sections; deletes invalidate when
  they end. No two live sandboxes may share a DNS slot, no name may be taken over, the cap holds.
* **Cleanup.** A run per sandbox, a sweep every minute, both retried, both deleting file by file
  while creates, builds and phase records land. Nothing goes before it expires, `namespace.yaml`
  goes last, everything goes in the end, across restarts and lost starts.
* **Watch.** Lists, events, snapshots and drops must add up to the current state of the cluster.
* **Phase records.** One at a time per sandbox, although the lock is dropped when a sandbox is
  deleted or a name is wrong; at most four in flight, at most twenty commits per sandbox.
* **Contributors' writes.** Two requests to GitHub each, under no common lock: what a workspace holds
  must keep its `namespace.yaml`, and only the Contributor role may change it.
* **Demos.** Checks, reads and the commit of a build are requests apart, while another build, a patch
  or a delete pass moves: a sandbox holds nothing or one whole demo, wired to itself.
* **Listings.** A partial read is never an answer to keep; what changed shows in the end.
* **Tickets.** Each good once, for thirty seconds, and forgotten if nobody comes.

`PROJECT.json` lists the hazards line by line with the properties that watch them.

## 2. Modules

| Module | Models | Checked by | Proved in |
|---|---|---|---|
| `RepoTrees` | the repository: trees, changes, what a commit makes of a tree | `writes` | `GitHubWrites_proofs` |
| `AtomicRepo` | what a caller of the writers may rely on (abstract) | `writes` | `GitHubWrites_proofs` |
| `GitHubWrites` | the three writers and GitHub's side; implements `AtomicRepo` | `writes` | `GitHubWrites_proofs` |
| `GuestSlots` | create, list, cache; commits are `AtomicRepo`'s | `slots`, `slots_overtaken` | `GuestSlots_proofs` |
| `GuestCleanup` | runs, sweep, delete pass, what lands in between | `cleanup`, `cleanup_*` | `GuestCleanup_proofs` |
| `GuestPhases` | phase records: lock map, semaphore, budget | `phases`, `phases_split` | `GuestPhases_proofs` |
| `StatusWatch` | watchers, broadcaster, SSE clients | `watch`, `watch_gap` | `StatusWatch_proofs` |
| `Workspaces` | contributors' creates and deletes, `GET /api/workspaces` and its cache | `pages` | `Workspaces_proofs` |
| `DemoBuilds` | builds and patches of one sandbox, `GET .../resources` and its cache | `pages` | `DemoBuilds_proofs` |
| `SseTickets` | tickets for the status stream | `pages` | `MCPages_proofs` |

The `MC*` modules give the constants values and the symmetry. Operators whose comment begins "Wrong
on purpose" are mutants: a plausible bug put in the place of the definition that follows, which TLC
must then find by the property `PROJECT.json` names. No specification uses them.

### GitHubWrites

`pc[c]` is the line a call is at: `lock`, then `sha`/`put` for the single-file writers or
`branch`/`tree`/`commit`/`ref` for the batch. Each action is one request with its answer.
`currentSHA` swallows errors into "", so `FetchSHA` may return any SHA at the price of a fault. A
timeout (`http.Client.Timeout`, or a caller that hung up) leaves the request in `late`, and GitHub
may act on it any time later, also after the lock is released. A process that stops in the middle
of a call is the same: whatever was on the wire is late and nobody waits for the answer. A file's content
stands for its blob SHA, because Git derives one from the other; the model therefore includes a
file that changed back.

`AtomicWrites` is refinement: `AtomicRepo` lets a call land its change whole on the current main
when it answers "ok", lets a request left without an answer land later, and never after an "ok".
`OnlyOutsidersDefeat` says what `writeMu` is worth: without faults a write fails only if others
committed as many times as it tries. `EveryCallReturns` is the absence of a held lock and of
endless loops.

### GuestSlots

`pc[p]` is where a request is in `loadGuestWorkspaces` (`load`, `fetch`) or in the create
(`lock`, `decide`, `commit`, `invalidate`, `seed`). The cache is a list and a validity bit;
`CacheExpires` clears it at any time, so no property rests on 20 seconds. Deletes, phase records
and restarts move `guest.yaml` under the readers. `upset` records which of five troubles happened:

| Trouble | The code |
|---|---|
| `fetch` | a failed `guest.yaml` read drops the sandbox from the list, which is cached (`guest.go:745`) |
| `lag` | the root listing shows the names of before the last commit (`guest.go:226`) |
| `lost` | the create's commit was not answered (`guest.go:213`) |
| `phase` | a phase record put back a `guest.yaml` that had been deleted (`guest.go:699`) |
| `overlap` | a create committed while another request's load was under way (`guest.go:787`) |

Without any of them slots are unique, names are not taken over and the cap holds. Each is
necessary. `overlap` is the one that needs no failure, and so a finding of its own.

### GuestCleanup

`files[n]` is what the sandbox's directory holds; `left` counts down to the deadlines that
somebody remembers: the one in `guest.yaml` (`file`), the creating handler's (`create`), the run's
timer (`run`), the one the sweep read (`sweep`), the one a phase record read (`phase`). `del` has a
delete pass per run and one for the sweep, each with the files it has listed and not deleted.
`sweep` is the attempt under way and `misses` the process's counts. A restart keeps Temporal's
state and clears the process's; attempts that were running count as failed.
`reused` remembers the names that were taken again while a run, the sweep, a miss or a
phase record of the previous sandbox was left; `unread` counts failed reads of a `guest.yaml` that
is there. They appear in the provisos of `NoEarlyCleanup`, and the findings show what happens
without them.

### GuestPhases

`pc[r]` is where a goroutine of `persistGuestPhase` is: `lookup` (the map), `lock` (the mutex),
`read`, `modify` (budget), `write`, `unlock`. `job[r]` is what it holds on to: the mutex it looked up
and the file it read. `locks` is the map, `held` the mutexes that are locked: two variables, because
`forgetGuestMeta` changes the first and not the second. A mutex is a member of `Mutexes`, of which
there is one more than can be in use. `Create`, `DeleteMeta` and `PassEnds` are what the rest of the
server does to the file and the map. `split` is history: names whose records have ever been under two
mutexes since the last moment without records. `TimesKeptUnlessSplit` is thus the promise of the mutex
with exactly the exception that `phases_split` shows; `PlacesMatch` with `PlacesComeBack`
says that the four places cannot leak, and `LocksForgotten` what `forgetGuestMeta` is for.

### StatusWatch

A status is a version number and whether the object exists. `stream[k]` holds what changed since
goroutine `k`'s list, which is what a watch from the list's resource version delivers; while
`pc[k] = "list"` (the pause after a watch ended) changes go into no stream. `Publish` is one
critical section over cache and channels; a pod's deletion is two, `Handle` and `Evict`.
`missed` has the clients something was dropped for.

### Workspaces

`dirs[w]` is what a workspace's directory holds. `pc[r]` is the request to GitHub that a contributor's
handler sends next: `namespace` and then `resource` for a create, `list` and then `delete` for the
deletion of a workspace, `remove` for that of a resource. `Arrive` admits only what `requireAuth` and
`requireContributor` let through, and each write remembers the token it was asked with, so that
`ContributorsOnly` can follow it to the commit, however late. A page's request is `todo[p]`, the sandboxes whose `guest.yaml`
is not in yet, and `got[p]`. `owed` has the sandboxes whose commit has landed and whose
`invalidateWorkspacesCache` is yet to come. Names are held to a pattern alone, so contributors may also
create, fill and delete in `guest-*` directories, and `Arrive` lets them.

Of a sandbox's own requests the module has what can leave a file behind. `CreateGuest` is the commit.
`GuestChecks` is a build, a patch or a phase record that has found `guest.yaml`, and `GuestWrites` its
commit, which may come when a delete pass has been there. `DeleteFromGuest` is one delete of a pass:
`namespace.yaml` goes last when all goes well, and before the rest when something landed after the pass
had listed the directory or when a file's delete failed three times (`guest.go:841-854`).
`ListLags` is `handleDeleteWorkspace` on a listing that lags or is a 404, of which `listDir` makes an
empty directory (`github.go:94-100`). `upset` has what the provisos name:

| Trouble | The code |
|---|---|
| `overlap` | a workspace was found empty while a create of it was under way, or the other way round (`workspaces.go:333`) |
| `late` | a write was not answered and lands after its handler is gone |
| `named` | a resource is called `namespace`, which `validWorkspaceName` allows (`validate.go:29`) |
| `blind` | a workspace with something in it was taken for empty, by a listing that lags or a 404 (`github.go:94`) |
| `left` | a pass took `namespace.yaml` while something else was there or on its way, or a build or phase record landed behind one |
| `meddled` | a contributor's create, add or remove in a sandbox |
| `fill` | a sandbox came or went while a page's request was reading (`workspaces.go:130`) |
| `lag` | the root listing shows the workspaces of before the last commit |

Without `overlap`, `late`, `named` and `blind` no workspace kept by hand has files and no `namespace.yaml`, and
without `left` no sandbox has; without `fill`, `lag`, `left` and `meddled` the cached list has exactly the
sandboxes there are. Each is necessary: with any one of them left out of a proviso TLC finds a
counterexample. Contributors' writes invalidate nothing, so of them only `ListSettles` speaks.

### DemoBuilds

One sandbox name, through two lives. `text[k]` is what tells one rendering from another: the slot in
the host, the siblings the Api refers to, and whether it runs the workflow image. `plan[b]` is what a
request asked for and has read; a build's two concurrent reads come in either order, and once one of them
refuses, the other no longer matters, so the answer is given at once. `Commit` is `upsertFilesAtomic`
or `upsertFile`, as `AtomicRepo` has it. A patch takes the slot from the guest list, which may be
cached, and the siblings from a listing. `Listing` is `listDir`: what is there or, for a moment after
a commit, nothing; and nothing also where there is no directory, which is not an error (`github.go:94-100`). A build
whose `validateGuestWorkspace` has passed therefore goes on to commit into a directory that a delete pass has
emptied, a patch writes its Api with no references, and the page answers and caches an empty list. The sandbox itself comes (`CreateSeeds`, `CreateLands`,
`CreateReturns`), expires and is deleted file by file; when a pass starts and that it ends is `GuestCleanup`'s,
which slot is free `GuestSlots`'. `amiss` has what the provisos name: `overlap` (a build listed
while another was between its listing and its end, `guest.go:313`), `lag`, `late`, `straddle` (a
request of one life is under way as the next begins) and `leftover` (a file of one life is). Again each is necessary. `overlap` is the
price of the one-demo check being a read; the next build or patch does not repair the mixture, only the expiry does.

### SseTickets

Times count down in units of which `TTL` make `ticketTTL`. `issued` is what the client was promised
and `streams` what came of it, both history. `redeem` forgets first and looks at the age afterwards, the sweeper
forgets what has expired, a restart forgets everything; `InTimeOpens` says that the sweeper takes nothing that is still good.

## 3. Runs

| Run | Bounds | What it shows |
|---|---|---|
| `writes` | 2 calls of 3 writes, 3 files that are there or not, 2 attempts, 2 commits by others, 1 fault | the writers implement `AtomicRepo`, only outsiders defeat them, every call returns |
| `slots` | 2 creators, 1 reader, 3 names, 2 slots, cap 2, 3 creates or phase records, one kind of trouble per behaviour | slots, names, cap |
| `slots_overtaken` | 1 creator, 1 reader, 1 slot, cap 1, no trouble | finding: the cap is passed |
| `cleanup` | 1 name, TTL 1, threshold 2, 2 attempts, 2 creates, 2 demo writes or phase records, 1 fault | nothing early, namespace last, all cleaned up |
| `cleanup_reused` | 1 name, 2 creates, no fault | finding: a reused name goes early |
| `cleanup_failed_delete` | 1 name, 1 create, 1 fault | finding: namespace before a stubborn file |
| `cleanup_retried` | 2 names, threshold 3, 3 attempts, 2 faults | finding: one sweep counts several misses |
| `phases` | 1 name, 3 records of 1 key or a reset, 2 places, budget 2, 2 sandboxes, 1 fault | times kept under one mutex, locks forgotten, places come back |
| `phases_split` | 1 name, 4 records, 1 sandbox, 1 fault | finding: records under two mutexes race |
| `watch` | 1 XR, 2 pods, 2 goroutines, 1 client that reconnects, channel of 2, 4 changes, 2 faults | clients are current, never go back, keep up |
| `pages` | tickets: 2, tried twice each, TTL 2, period 3, 1 restart; workspaces: 1, with 2 contributors, 4 requests, 1 fault, or with 1 request, 1 sandbox with 2 creates, builds or phase records in all, 1 page, 1 fault; demos: 2 builders, 2 requests of 3 kinds, 2 slots, 2 lives, 1 error, or 1 build, 1 page, 2 lives, 1 error | tickets open one stream in time, namespaces stay, one whole demo, listings are whole and settle |
| `watch_gap` | 1 pod, 2 changes, 1 fault | finding: a pod deleted in the gap lingers |

Why the bounds are enough. Two calls of each writer meet at every pair of steps; a second commit
by others exhausts two attempts, and the constant 2 stands for 5 because an attempt keeps nothing
of the one before but its number. Two creators and a reader give every pair of loads and commits;
three names are one more than the slots, so that a full house, a reuse and a refusal occur. With one
name the cleanup sees a create, the whole life of the sandbox, its deletion by run and by sweep, and
the next create of the same name; sandboxes meet only in the sweep, which `cleanup_retried` checks
with two. Three records are one more than `phases` has
places: one is refused, or starts when another ends; a record, a reset and a record change a file
three times, past a budget of two. The lock map, the budget and the file are per name, so a second
name would only add a product. A channel of two overflows by events and, with three objects, by the
snapshot. One `OneTrouble` constraint keeps `slots` small: what a first trouble breaks stays out of the
properties' provisos anyway, so a second adds nothing.

The `pages` run puts four parts side by side that share no variable: a behaviour is about the one that
`running` names, and the others stay as they are. The states of the parts add up
instead of multiplying, and nothing is lost, because no step of one part enables or disturbs one of another and each property
speaks of one part. `Workspaces` and `DemoBuilds` are taken twice each: once with several writers and no page, once
with a page and one writer, since pages write nothing. Two contributors meet at every pair of their requests, and a fourth request makes
a workspace that was deleted come back. A sandbox that is created and created again, or created and built in, meets
a page's request, a contributor's and a pass in every order. Two builders overlap, or a patch follows a build, and the
second life has another slot, so that an older list or cache would show. The part with several builders is not followed beyond the first
thing that goes amiss, of which its properties say nothing; the part with a page is.

`CHECK_DEADLOCK` is never off. `GitHubWrites` ends in `Terminating` when every call has returned,
and `MCPages` in `Over` when the bounds allow no further request.

### Fairness

* `writes`: weak on each call's steps, because a goroutine runs on and every request is answered or
  times out; strong on `Acquire`, because a `sync.Mutex` hands itself to a waiter that has starved
  for a millisecond.
* `cleanup`: weak on time, on the sweep (the schedule fires and Temporal retries), on each delete
  pass and each timer (Temporal works its queue), and on the handlers' remaining steps. Faults are
  bounded: "GitHub outages end" (`cleanup.go:51`). Creates and writes are bounded as well: without that nothing
  would ever be quiet.
* `phases`: weak on each record's steps (a goroutine runs on, its two requests share 15 seconds), strong
  on `Lock`, for the reason `Acquire` has it. Nothing is assumed of clients, passes or restarts.
* `pages`: weak on time, on the sweeper's goroutine, on the caches' TTLs and on each page's requests
  (they are answered or time out, and pages poll). Nothing is assumed of contributors, builders, creates or passes.
* `watch`: weak on each watch goroutine and on each client's handler. Nothing is assumed of
  clients' coming and going, nor of failing lists beyond their number.

## 4. Proofs

`tlapm` checks every theorem to its leaves from SMT (Z3), Zenon and LS4.

**GitHubWrites_proofs.** `TypeCorrect`; `InvCorrect` with the inductive invariant `IInv`;
`OutsidersCorrect` and `AtomicWritesCorrect` from it. `IInv` needs: mutual exclusion (`LockInv`: a
call is between Lock and Unlock exactly if it holds `writeMu`); which labels belong to which writer
(`KindInv`); that a draft whose base is the tip is main plus the batch's files (`DraftInv`), so a
fast-forward loses nothing; that a late PATCH of an acknowledged call has a stale base (`LateInv`), so
it cannot land again; and, while nothing failed, that every lost attempt is paid for by a commit
from outside (`AttemptInv`). For refinement each action maps to a step of `AtomicRepo` or a stutter.
Assumptions: `NoFile` is no content, `NoCall` no call, the operations are writes, `MaxAttempts` is
positive. No finiteness is assumed.

**GuestSlots_proofs.** `TypeCorrect`, `SlotInvCorrect`, `SlotsUniqueCorrect`, `NoTakeoverCorrect`,
`CapCorrect`. Unique slots are not inductive: a create picks by its list. `SlotInv` adds the
mutex and, while nothing is upset, that every list in play is complete: the cache
(`CacheComplete`, except for the entry of a create that has committed and not invalidated yet),
each load's result plus what it has still to fetch (`LoadsComplete`), and what a create decided on
(`CreatesComplete`). Assumptions: requests, names and slots have distinct dummies, names and slots
are finite.

**GuestCleanup_proofs.** `TypeCorrect`, `NothingGoesEarly`, `NamespaceGoesLast`. `NoEarlyCleanup` is no
state's business alone: a pass deletes because of a deadline somebody read before. `IInv` says, unless the
excuse named in the property holds, that every copy of a sandbox's deadline (in its run's timer, a create about to
start the run, the sweep, a phase record) ends no sooner than the deadline (`Safe`), that
each miss counted against a sandbox with time left was a failed read, and that the sweep removes
only what was missed often enough (`Counted`). `NamespaceLastUnlessUpset` needs another invariant,
`LInv`: no pass has a file fewer on its list than there is in the directory. `OnlyPassesDelete`, which
both use, picks the pass behind a file that goes. Assumptions: `None` and `Sweeper` are no names, `TTL` is a number,
`StaleThreshold` and `SweepAttempts` are positive. Sandboxes may be any set, infinite included.

**GuestPhases_proofs.** `TypeCorrect`, `PlacesAreCounted`, `NoLockLeaks`, `TimesAreWrittenOnce`. That a
recorded time is not changed says nothing of what a record is about to write; `IInv` says
that what it has read is still what there is (`RawFits`), because no two records hold one mutex
(`Exclusive`) and the records of a name that was never split are all at the same one, the map's if it has one
(`OneMutex`). `Remembered` is what makes the map come clean: an entry of a name that is gone is there only for a
record that has yet to find that out. `PlacesMatch` is part of `IInv` as it stands. `FreshMutex` shows by counting that
`&sync.Mutex{}` always finds one that nobody refers to. Assumptions: `None` is no name and no mutex, records, names and
mutexes are finite, and there are as many mutexes as there can be references to (records and names, less one).

**StatusWatch_proofs.** `TypeCorrect`, `SettledAgree`, `GonePodsLeave`, `NothingGoesBack`. What a settled
client shows is decided long before, so `IInv` follows a status on its way: what is listed or reported and not
yet published is newer than all that was published (`Behind`), reports come in order and end with the current
status (`StreamFits`, `ItemsFit`), the cache is current for every object of which nothing is on its way (`CacheFits`), and a
client for which nothing was dropped has, shown or in its channel, what is cached, and of pods nothing that
has left the cache (`ClientFits`). The first section proves what `Append` and `Tail` do to the
last word on an object and to the order; the rest cites it. Assumptions: every object has a kind, `Pod` is one, a channel has room for
a message, objects are finitely many.

**Workspaces_proofs.** `TypeCorrect`, `NothingIsOrphaned`, `TheListIsFresh`, `OnlyContributorsWrite`. `IInv` says of each
request what it counts on: who has found a directory empty is not overlapped by one who adds to it (`Apart`) and finds it
empty still (`FoundEmpty`), who has written `namespace.yaml` still has it (`Begun`), who writes is a contributor, and in a sandbox
deletes no more than `namespace.yaml` unless `meddled` says otherwise (`JobFits`), also when the write lands late
(`LateFits`). A sandbox is `Founded` when it has its `namespace.yaml` or a pass left something behind. For the listing it says that what a page has got and what it has still to fetch are
together the sandboxes there are (`FillFits`), and of a cached list that each sandbox in it still has its `guest.yaml` (`Listed`). Each half is conditional on what the property excepts (`Calm`, `Steady`).

**DemoBuilds_proofs.** `TypeCorrect`, `DemoIsWhole`, `ListsAreWhole`. Neither property is inductive: a request that
began in the name's last life, or before the demo was there, would break it later. `IInv` therefore says, of a sandbox that lives or is being
created and of which nothing went amiss (`Sound`), that every request has begun in this life: a build that has listed has seen none,
there is none, and no other build has listed; a patch has read this life's `guest.yaml` and all of its
siblings (`BuildFits`); a pass that is still at it has nothing left but `namespace.yaml` (`Demo`); and what a page has found and has still to
fetch is the whole demo or nothing (`PageFits`). What holds without the proviso (`Steps`) is what ends one life and begins the next: all that was
read is of this life or of an earlier one, and a pass has a `guest.yaml` on its list only if it has expired.

**MCPages_proofs.** Of the tickets: `TypeCorrect`, `SingleUse`, `GoodUntilTried`, `NoLateStream`. `IInv` ties the
store to what was promised: an entry is the promised one, equally old, or gone; a ticket that has opened its stream
is gone, and its promise is what keeps it from being minted again. Assumptions: `TTL`, `Period` and the
bounds are numbers, `Period` positive. Of the whole run: `WorkspacesTyped`,
`NothingIsOrphaned`, `TheListIsFresh`, `OnlyContributorsWrite`, `DemoTyped`, `DemoIsWhole`, `ListsAreWhole`. `MCPages` takes `Workspaces` and
`DemoBuilds` twice each, with their theorems, so `PagesIInv` need only say that the part that runs keeps its `IInv`; a step of `PagesNext` is
one of that part (`OnePartMoves`), and the rest is the two modules' own lemmas.

The theorems of `Workspaces_proofs` and `DemoBuilds_proofs` assume `Parameters`, a definition of the module they are about: a name is a
sandbox's or kept by hand and there is at least one of the latter, no resource is called "namespace" or "guest", requests ask for a patch
or for a demo of one of the three kinds, bounds are numbers. It is a hypothesis of each theorem and not an ASSUME because `MCPages` uses
each module twice, with different parameters; the ASSUME `PagesParameters` there has TLC evaluate it for
all four. Each `IInv` was
checked by TLC on small instances before it was proved.

**Only model-checked.** Liveness (`EveryCallReturns`, `AllCleanedUp`, `PlacesComeBack`, `KeepsUp`, `AbandonedGo`,
`ListSettles`, `PagesSettle`) is beyond the prover. Every other property of a
passing run is a theorem. Those of `Workspaces` and `DemoBuilds` are
proved twice: of each module for any parameters, and of the run, whose bounds on requests and faults are fixed. That the six claims of section 5
fail is for TLC alone to show.

## 5. Findings

Six runs end in a counterexample to something the repository says; `PROJECT.json` quotes each.

1. `slots_overtaken`: a list load overtakes the create's seed, and the next create passes the cap
   (`guest.go:788` against `main.go:44-45`). Storing only if nothing was committed since
   the listing, or loading under the mutex, would restore it.
2. `cleanup_reused`: a name used again too soon is deleted by the old run (`cleanup.go:147` against
   `cleanup.go:24`).
3. `cleanup_failed_delete`: `namespace.yaml` goes although another file stays (`guest.go:850`
   against `guest.go:830`).
4. `cleanup_retried`: retries of one sweep are counted as sweeps (`cleanup.go:92` against
   `guest.go:795`).
5. `phases_split`: a failed read or a delete pass drops a mutex that is in use, and two records race
   (`main.go:79` against `main.go:58-59`). Counting the holders of an entry would restore it.
6. `watch_gap`: pods deleted between two watches linger (`watcher.go:365` against
   `watcher.go:38`).

Differences between docs and code that need no model: HOW_IT_WORKS.md gives the guest list a cache
of 3 seconds where `guestListCacheTTL` is 20; it names a copyDemoTLSSecretsWhenReady that is gone and concurrent
commits of `namespace.yaml` and `guest.yaml` where there is now one; `workspaces.go:69` says create
and delete invalidate the listing, which contributors' creates and deletes do not; `workspaces.go:158`
calls the TTL the only bound on the resource list's staleness, but a slow fill stores what it read before
it and so adds its own time; `guest.go:425` says `withSql` wires `sqlRef` (opt-in), while `buildGuestParams`
wires it to any sibling and never looks at `withSql`; `guest.go:203` says a
directory that is not there is a 502 to the browser, which `listDir` has turned into an empty list since
(`github.go:94`); `main.go:52` calls `metricsLast` the last good
gauges, while a scrape that has the list from the cache and no listing from GitHub overwrites them with a
count of no resources (`guest.go:962`).

What the provisos excuse is no finding, because nothing in the repository denies it, but it is how the code
behaves, and the models reach it. Two builds whose reads overlap leave a sandbox with files of two
demos (`overlap` of `DemoBuilds`, `guest.go:313`). A workspace is deleted between the requests of a
create, or on a listing that lags, and the rest is left without its `namespace.yaml` (`overlap` and `blind` of
`Workspaces`, `workspaces.go:341`). A record takes of the budget of a name that was forgotten
meanwhile, and the entry stays (`main.go:83`).

## 6. Not modelled, and why

* **Deleted XRs** leave the cache and are announced to nobody (`watcher.go:153-158`): `Handle` has it, and
  `SettledClientsAgree` speaks of objects that exist. Only pods must leave the pages.
* **GuestSlots** has one slot per name and no clock: expiry matters to `GuestCleanup`, which in turn takes
  the outcome of a create's checks for granted (a name is created only if it has no `guest.yaml`).
  A create under one of the troubles could overwrite a live sandbox; `NoTakeover` covers that.
* **Contributors** may write to `guest-*` directories through `POST /api/workspaces`: `Workspaces` has it, in
  `GitHubWrites` such writes are commits by others, and `GuestSlots`, `GuestCleanup` and `DemoBuilds` leave them out.
* **Late DELETE requests** are part of `GitHubWrites`. `GuestCleanup` lets an unanswered delete land
  at once or not at all.
* **Phase records** run one at a time per name in `GuestCleanup`; `GuestPhases` has them overlap. There
  `upsertFile` is one step, as `AtomicRepo` lets it be; a write that times out lands at once or not at
  all, because a late PUT names the SHA it replaces. The contents API's lag is not in `GuestPhases`: a
  record that reads the file of before the last commit would lose a time without any split.
* **Workspaces** leaves out what people commit to a workspace by hand, which no handler promises
  anything about. Of what a build or a phase record writes it has only that it lands: what they read, check and write is `DemoBuilds`'
  and `GuestPhases`', when a pass starts `GuestCleanup`'s.
* **DemoBuilds** has one sandbox at a time: builds of two touch different directories, and the writers make
  their commits safe from each other. A listing that still shows a file that has gone is not there: a build would answer 409 and a page 502, and both ask again. `generateGuestResourceName` never meets a name that is taken, because a build is
  refused when there is any resource; Topics and Subscriptions are in no plan.
* **Rendering**, schemas, scrubbing and field validation are pure text. `handleGetResourceValues` and
  `handleGetSchema` read the cluster and keep nothing.
* **Token validation** is a library's work, and a run without authentication is for development.
  **Configuration and routing** have no behaviour to check.
* **Metrics**: the scrape's load of the guest list is a Reader of `GuestSlots`; `metricsLast` is a copy of
  the last page that only the next scrape reads.
* Bounds on creates, writes, changes and faults are there for TLC alone, and each is named in its
  module's CONSTANTS.

## 7. Plan

Done: the writers (1), create and list (2), cleanup (3), status watch (4), phase records (5), workspaces and
demos with their listings (6), tickets (7), each with its run, and the proofs of all of them.

Open: late PUTs in `GuestPhases`, which would add an excuse to a property before it adds a property.
