----------------------------- MODULE StatusWatch -----------------------------
(* watcher.go, broadcaster.go and handleStatusWatch: from the cluster to an   *)
(* open page.  One goroutine per XR kind, and one for pods, lists and then    *)
(* watches; each status goes through the broadcaster's cache into a bounded   *)
(* channel per SSE client, which drops what does not fit.  A status is the    *)
(* version of its object and whether the object is there, no more.            *)
EXTENDS Integers, Sequences, FiniteSets, Functions

CONSTANTS Objs,        \* objects that extractStatus or extractPodStatus accept
          Kinds,       \* one watch goroutine each
          Pod,         \* the kind that watchPods handles
          KindOf,      \* the kind of each object
          Clients,     \* SSE connections
          Capacity,    \* of a client's channel (broadcaster.go:23)
          MaxChanges,  \* bound: changes in the cluster
          MaxFaults    \* bound: lists and watches that fail or end, restarts

ASSUME KindAssumption == Pod \in Kinds /\ KindOf \in [Objs -> Kinds]
ASSUME CapacityAssumption == Capacity \in Nat \ {0}
ASSUME ObjsAssumption == IsFiniteSet(Objs)

VARIABLES world,    \* the cluster: each object's status
          stream,   \* per kind: what changed since its list, not handled yet
          pc,       \* per kind
          items,    \* per kind: listed statuses yet to be published
          cache,    \* broadcaster.cache
          clients,  \* broadcaster.clients
          queue,    \* per client: its channel
          shown,    \* per client: the last status sent for each object
          missed,   \* clients that something was dropped for (history)
          changes, faults  \* how many there were

served   == <<clients, queue, shown, missed>>
watchers == <<stream, pc, items>>
vars == <<world, watchers, cache, served, changes, faults>>

Statuses == [v : Nat, up : BOOLEAN]
Messages == [obj : Objs, v : Nat, up : BOOLEAN]
Absent   == [v |-> 0, up |-> FALSE]

Message(o, s) == [obj |-> o, v |-> s.v, up |-> s.up]
Status(m)     == [v |-> m.v, up |-> m.up]
OfKind(k)     == {o \in Objs : KindOf[o] = k}

Init ==
    /\ world = [o \in Objs |-> Absent]
    /\ stream = [k \in Kinds |-> <<>>]
    /\ pc = [k \in Kinds |-> "list"]
    /\ items = [k \in Kinds |-> {}]
    /\ cache = [o \in Objs |-> Absent]
    /\ clients = {}
    /\ queue = [c \in Clients |-> <<>>]
    /\ shown = [c \in Clients |-> [o \in Objs |-> Absent]]
    /\ missed = {}
    /\ changes = 0
    /\ faults = 0

------------------------------------------------------------------------------
Fault == faults < MaxFaults /\ faults' = faults + 1

\* Something is created, changes its status, or is deleted.  The list's resource
\* version makes the watch report whatever changes after the list.
Change(o) ==
    /\ changes < MaxChanges
    /\ changes' = changes + 1
    /\ \E up \in BOOLEAN :
         /\ world[o].up \/ up
         /\ world' = [world EXCEPT ![o] = [v |-> @.v + 1, up |-> up]]
    /\ stream' = IF pc[KindOf[o]] = "list" THEN stream
                 ELSE [stream EXCEPT ![KindOf[o]] = Append(@, Message(o, world'[o]))]
    /\ UNCHANGED <<pc, items, cache, served, faults>>

------------------------------------------------------------------------------
(* broadcaster                                                                *)

\* Wrong on purpose: a send without the default case that drops.
PublishAll(m) ==
    /\ cache' = [cache EXCEPT ![m.obj] = Status(m)]
    /\ queue' = [c \in Clients |-> IF c \in clients THEN Append(queue[c], m) ELSE queue[c]]
    /\ UNCHANGED <<clients, shown, missed>>

\* publish: cached, and sent to every channel that has room, under one lock.
Publish(m) ==
    LET full == {c \in clients : Len(queue[c]) = Capacity} IN
      /\ cache' = [cache EXCEPT ![m.obj] = Status(m)]
      /\ queue' = [c \in Clients |-> IF c \in clients \ full THEN Append(queue[c], m)
                                                             ELSE queue[c]]
      /\ missed' = missed \cup full
      /\ UNCHANGED <<clients, shown>>

\* The cached statuses, as messages.
Snapshot == {Message(o, cache[o]) : o \in {p \in Objs : cache[p] # Absent}}

\* subscribe: the snapshot in the order of a Go map, as far as the channel goes.
Subscribe(c) ==
    /\ c \notin clients
    /\ clients' = clients \cup {c}
    /\ LET n == Cardinality(Snapshot) IN
         /\ \E q \in Injection(1..(IF n < Capacity THEN n ELSE Capacity), Snapshot) :
              queue' = [queue EXCEPT ![c] = q]
         /\ missed' = IF n > Capacity THEN missed \cup {c} ELSE missed
    /\ UNCHANGED <<world, watchers, cache, shown, changes, faults>>

\* handleStatusWatch writes the next status to its client.
Receive(c) ==
    /\ queue[c] # <<>>
    /\ LET m == Head(queue[c]) IN
         shown' = [shown EXCEPT ![c][m.obj] = Status(m)]
    /\ queue' = [queue EXCEPT ![c] = Tail(@)]
    /\ UNCHANGED <<world, watchers, cache, clients, missed, changes, faults>>

\* The client goes: unsubscribe, which closes the channel only once no publish
\* can find it.
Leave(c) ==
    /\ c \in clients
    /\ clients' = clients \ {c}
    /\ queue' = [queue EXCEPT ![c] = <<>>]
    /\ shown' = [shown EXCEPT ![c] = [o \in Objs |-> Absent]]
    /\ missed' = missed \ {c}
    /\ UNCHANGED <<world, watchers, cache, changes, faults>>

------------------------------------------------------------------------------
(* watchResource and watchPods                                                *)

Goto(k, label) == pc' = [pc EXCEPT ![k] = label]

List(k) ==
    /\ pc[k] = "list"
    /\ items' = [items EXCEPT ![k] =
           {Message(o, world[o]) : o \in {p \in OfKind(k) : world[p].up}}]
    /\ Goto(k, "seed")
    /\ UNCHANGED <<world, stream, cache, served, changes, faults>>

\* Wrong on purpose: the goroutine ends where it should wait and continue.
ListGivesUp(k) ==
    /\ pc[k] = "list"
    /\ Fault
    /\ Goto(k, "gone")
    /\ UNCHANGED <<world, stream, items, cache, served, changes>>

\* Ten seconds later the loop tries again.
ListFails(k) ==
    /\ pc[k] = "list"
    /\ Fault
    /\ UNCHANGED <<world, watchers, cache, served, changes>>

\* "seed the broadcaster cache with current state" (watcher.go:100).
Seed(k, m) ==
    /\ m \in items[k]
    /\ items' = [items EXCEPT ![k] = @ \ {m}]
    /\ Publish(m)
    /\ UNCHANGED <<world, stream, pc, changes, faults>>

\* Wrong on purpose: a watch that does not start from the list's version.
WatchFromNow(k) ==
    /\ pc[k] = "seed"
    /\ items[k] = {}
    /\ Goto(k, "watch")
    /\ stream' = [stream EXCEPT ![k] = <<>>]
    /\ UNCHANGED <<world, items, cache, served, changes, faults>>

\* Wrong on purpose: the watch does not wait for the listed statuses to be out.
WatchUnseeded(k) ==
    /\ pc[k] = "seed"
    /\ Goto(k, "watch")
    /\ UNCHANGED <<world, stream, items, cache, served, changes, faults>>

Watch(k) ==
    /\ pc[k] = "seed"
    /\ items[k] = {}
    /\ Goto(k, "watch")
    /\ UNCHANGED <<world, stream, items, cache, served, changes, faults>>

\* Wrong on purpose: a deleted pod leaves the cache without a word to the pages.
HandleSilently(k) ==
    /\ pc[k] = "watch"
    /\ stream[k] # <<>>
    /\ LET m == Head(stream[k]) IN
         IF m.up
         THEN Publish(m)
         ELSE cache' = [cache EXCEPT ![m.obj] = Absent] /\ UNCHANGED served
    /\ stream' = [stream EXCEPT ![k] = Tail(@)]
    /\ UNCHANGED <<world, pc, items, changes, faults>>

\* An event: a deleted XR only leaves the cache, a deleted pod is published first,
\* in a critical section of its own.
Handle(k) ==
    /\ pc[k] = "watch"
    /\ stream[k] # <<>>
    /\ LET m == Head(stream[k]) IN
         IF m.up \/ k = Pod
         THEN Publish(m)
         ELSE cache' = [cache EXCEPT ![m.obj] = Absent] /\ UNCHANGED served
    /\ IF k = Pod /\ ~ Head(stream[k]).up
       THEN Goto(k, "evict") /\ UNCHANGED stream
       ELSE UNCHANGED pc /\ stream' = [stream EXCEPT ![k] = Tail(@)]
    /\ UNCHANGED <<world, items, changes, faults>>

Evict(k) ==
    /\ pc[k] = "evict"
    /\ cache' = [cache EXCEPT ![Head(stream[k]).obj] = Absent]
    /\ stream' = [stream EXCEPT ![k] = Tail(@)]
    /\ Goto(k, "watch")
    /\ UNCHANGED <<world, items, served, changes, faults>>

\* The watch cannot be started, or its channel is closed: list again, 10 or 5
\* seconds later.  Nobody reports what changes until then.
WatchEnds(k) ==
    /\ \/ pc[k] = "seed" /\ items[k] = {}
       \/ pc[k] = "watch"
    /\ Fault
    /\ stream' = [stream EXCEPT ![k] = <<>>]
    /\ Goto(k, "list")
    /\ UNCHANGED <<world, items, cache, served, changes>>

\* The process restarts: every connection is lost, and everything in memory.
Restart ==
    /\ Fault
    /\ stream' = [k \in Kinds |-> <<>>]
    /\ pc' = [k \in Kinds |-> "list"]
    /\ items' = [k \in Kinds |-> {}]
    /\ cache' = [o \in Objs |-> Absent]
    /\ clients' = {}
    /\ queue' = [c \in Clients |-> <<>>]
    /\ shown' = [c \in Clients |-> [o \in Objs |-> Absent]]
    /\ missed' = {}
    /\ UNCHANGED <<world, changes>>

------------------------------------------------------------------------------
Work(k) ==
    \/ List(k)
    \/ \E m \in items[k] : Seed(k, m)
    \/ Watch(k)
    \/ Handle(k)
    \/ Evict(k)

Next ==
    \/ \E o \in Objs : Change(o)
    \/ \E k \in Kinds : Work(k) \/ ListFails(k) \/ WatchEnds(k)
    \/ \E c \in Clients : Subscribe(c) \/ Receive(c) \/ Leave(c)
    \/ Restart

Safety == Init /\ [][Next]_vars

\* The goroutines of the watchers run, and so does the handler of a client.
Fairness ==
    /\ \A k \in Kinds : WF_vars(Work(k))
    /\ \A c \in Clients : WF_vars(Receive(c))

Spec == Safety /\ Fairness
------------------------------------------------------------------------------
TypeOK ==
    /\ world \in [Objs -> Statuses]
    /\ stream \in [Kinds -> Seq(Messages)]
    /\ pc \in [Kinds -> {"list", "seed", "watch", "evict"}]
    /\ items \in [Kinds -> SUBSET Messages]
    /\ cache \in [Objs -> Statuses]
    /\ clients \in SUBSET Clients
    /\ queue \in [Clients -> Seq(Messages)]
    /\ shown \in [Clients -> [Objs -> Statuses]]
    /\ missed \in SUBSET clients
    /\ changes \in Nat /\ faults \in Nat
    /\ \A c \in Clients : Len(queue[c]) <= Capacity
    /\ \A k \in Kinds :
         pc[k] = "evict" => k = Pod /\ stream[k] # <<>> /\ ~ Head(stream[k]).up

\* Nothing about o is under way to c.
Settled(c, o) ==
    /\ pc[KindOf[o]] = "watch" /\ stream[KindOf[o]] = <<>>
    /\ c \in clients \ missed /\ queue[c] = <<>>

\* A client for which nothing was dropped has, once all is quiet, the current
\* status of every object, whenever it connected, and however often lists failed,
\* watches ended and began again, and changes fell into the gaps.
SettledClientsAgree ==
    \A c \in Clients, o \in Objs :
        Settled(c, o) /\ world[o].up => shown[c][o] = world[o]

\* It shows no pod that is gone, as long as the watch lasts ("Without it a
\* replaced pod lingers on screen", watcher.go:38).
Lingers(c, o) == KindOf[o] = Pod /\ Settled(c, o) /\ ~ world[o].up /\ shown[c][o].up

PodsLeave == faults = 0 => \A c \in Clients, o \in Objs : ~ Lingers(c, o)

\* On one connection an object never goes back to an older status, although the
\* snapshot, the listed statuses and the events all reach it.
NeverBack ==
    [][\A c \in clients \cap clients', o \in Objs :
          shown'[c][o].v >= shown[c][o].v]_vars

\* A client that stays and for which nothing is dropped is up to date again and
\* again: no failure stops a watcher for good.
KeepsUp ==
    \A c \in Clients :
        []<>(c \in clients \ missed =>
               \A o \in Objs : world[o].up => shown[c][o] = world[o])

\* What watcher.go:38 says without proviso.
NoLingeringPods == \A c \in Clients, o \in Objs : ~ Lingers(c, o)
==============================================================================
