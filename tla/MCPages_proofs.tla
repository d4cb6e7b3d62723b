----------------------------- MODULE MCPages_proofs ----------------------------
(* Proofs about SseTickets, for every TTL and Period and any number of        *)
(* tickets, tries and restarts; and about the run of MCPages, for any         *)
(* requests, pages, workspaces, resources and slots.                          *)
EXTENDS MCPages, TLAPS

------------------------------------------------------------------------------
(* The tickets by themselves                                                  *)

\* The tickets' map and the promises made to the clients, side by side: an entry is
\* the one that was promised, as old as that, or is gone; a ticket that has opened its
\* stream is gone, and its promise stays so that it is never minted again.  OneStreamEach
\* needs the last two: without them nothing says that the entry of a used ticket
\* cannot come back.
Tied(t) ==
    /\ tickets[t] \in {issued[t], NoEntry}
    /\ streams[t] \in {0, 1}
    /\ streams[t] = 1 => tickets[t] = NoEntry /\ issued[t] # NoEntry

IInv == TypeOK /\ (\A t \in Tickets : Tied(t)) /\ InTimeOpens

\* A unit of time leaves an entry an entry, tells what is none from what is one, and
\* makes nothing younger.
LEMMA OlderEntry ==
    ASSUME NEW entry \in Entries \cup {NoEntry}
    PROVE  /\ Older(entry) \in Entries \cup {NoEntry}
           /\ Older(entry) = NoEntry <=> entry = NoEntry
           /\ Older(entry).left >= 0 => entry.left >= 0
  <1>1. CASE entry.left >= 0
    <2>1. entry \in Entries
      BY <1>1 DEF NoEntry, Entries
    <2>2. entry.left - 1 \in -1..TTL
      BY <1>1, <2>1, TimeAssumption DEF Entries
    <2>3. Older(entry) = [roles |-> entry.roles, left |-> entry.left - 1]
      BY <1>1, <2>1 DEF Older, Entries
    <2> QED
      BY <1>1, <2>1, <2>2, <2>3 DEF Entries, NoEntry
  <1>2. CASE ~ (entry.left >= 0)
    BY <1>2 DEF Older
  <1> QED
    BY <1>1, <1>2

\* The server starts with no ticket.
LEMMA InitIInv == Init => IInv
  <1> SUFFICES ASSUME Init PROVE IInv
    OBVIOUS
  <1>1. TypeOK
    BY TimeAssumption, BoundsAssumption DEF Init, TypeOK
  <1>2. ASSUME NEW t \in Tickets PROVE Tied(t)
    <2>1. tickets[t] = NoEntry /\ issued[t] = NoEntry /\ streams[t] = 0
      BY DEF Init
    <2> QED
      BY <2>1 DEF Tied
  <1>3. InTimeOpens
    BY DEF Init, InTimeOpens
  <1> QED
    BY <1>1, <1>2, <1>3 DEF IInv

\* A ticket is promised once: what is put under it is put where nothing was.
LEMMA MintKeeps ==
    ASSUME IInv, NEW m \in Tickets, Mint(m)
    PROVE  IInv'
  <1>1. PICK roles \in SUBSET Roles :
           /\ tickets' = [tickets EXCEPT ![m] = [roles |-> roles, left |-> TTL]]
           /\ issued' = [issued EXCEPT ![m] = [roles |-> roles, left |-> TTL]]
    BY DEF Mint
  <1> DEFINE entry == [roles |-> roles, left |-> TTL]
  <1>2. entry \in Entries /\ entry # NoEntry
    BY TimeAssumption DEF Entries, NoEntry
  <1>3. UNCHANGED <<ticker, tries, streams, restarts>> /\ issued[m] = NoEntry
    BY DEF Mint
  <1> HIDE DEF entry
  <1>4. /\ tickets' = [tickets EXCEPT ![m] = entry]
        /\ issued' = [issued EXCEPT ![m] = entry]
    BY <1>1 DEF entry
  <1>5. TypeOK'
    BY <1>2, <1>3, <1>4 DEF IInv, TypeOK
  <1>6. ASSUME NEW t \in Tickets PROVE Tied(t)'
    BY <1>2, <1>3, <1>4 DEF IInv, TypeOK, Tied
  <1>7. InTimeOpens'
    BY <1>3, <1>4 DEF IInv, TypeOK, InTimeOpens
  <1> QED
    BY <1>5, <1>6, <1>7 DEF IInv

\* A connection takes the entry away before anything is asked of it.
LEMMA RedeemKeeps ==
    ASSUME IInv, NEW r \in Tickets, Redeem(r)
    PROVE  IInv'
  <1>1. /\ tickets' = [tickets EXCEPT ![r] = NoEntry]
        /\ UNCHANGED <<ticker, issued, restarts>>
        /\ issued[r] # NoEntry
        /\ tries' = [tries EXCEPT ![r] = @ + 1]
        /\ tries[r] < MaxTries
    BY DEF Redeem
  <1>2. streams' = [streams EXCEPT ![r] = @ + IF Expired(r) THEN 0 ELSE 1]
    BY DEF Redeem
  <1>3. streams[r] = 1 => Expired(r)
    BY DEF IInv, Tied, Expired, NoEntry
  <1>4. TypeOK'
    <2>1. tries[r] + 1 \in 0..MaxTries
      BY <1>1, BoundsAssumption DEF IInv, TypeOK
    <2>2. streams' \in [Tickets -> Nat]
      BY <1>2 DEF IInv, TypeOK
    <2> QED
      BY <1>1, <2>1, <2>2 DEF IInv, TypeOK
  <1>5. ASSUME NEW t \in Tickets PROVE Tied(t)'
    <2>1. CASE t = r
      <3>1. tickets'[t] = NoEntry /\ issued'[t] # NoEntry
        BY <1>1, <2>1 DEF IInv, TypeOK
      <3>2. streams'[t] \in {0, 1}
        BY <1>2, <1>3, <2>1 DEF IInv, TypeOK, Tied
      <3> QED
        BY <3>1, <3>2 DEF Tied
    <2>2. CASE t # r
      BY <1>1, <1>2, <2>2 DEF IInv, TypeOK, Tied
    <2> QED
      BY <2>1, <2>2
  <1>6. InTimeOpens'
    BY <1>1 DEF IInv, TypeOK, InTimeOpens
  <1> QED
    BY <1>4, <1>5, <1>6 DEF IInv

\* The sweeper takes no entry that is in time.
LEMMA SweepKeeps ==
    ASSUME IInv, Sweep
    PROVE  IInv'
  <1>1. /\ tickets' = [t \in Tickets |-> IF tickets[t].left < 0 THEN NoEntry ELSE tickets[t]]
        /\ ticker' = Period
        /\ UNCHANGED <<issued, tries, streams, restarts>>
    BY DEF Sweep, Expired
  <1>2. TypeOK'
    BY <1>1, TimeAssumption DEF IInv, TypeOK
  <1>3. ASSUME NEW t \in Tickets PROVE Tied(t)'
    BY <1>1 DEF IInv, Tied
  <1>4. InTimeOpens'
    BY <1>1 DEF IInv, TypeOK, InTimeOpens, Entries, NoEntry
  <1> QED
    BY <1>2, <1>3, <1>4 DEF IInv

\* Entry and promise grow old together.
LEMMA TickKeeps ==
    ASSUME IInv, Tick
    PROVE  IInv'
  <1>1. /\ tickets' = [t \in Tickets |-> Older(tickets[t])]
        /\ issued' = [t \in Tickets |-> Older(issued[t])]
        /\ ticker' \in {ticker, ticker - 1} /\ (ticker' = ticker \/ ticker > 0)
        /\ UNCHANGED <<tries, streams, restarts>>
    BY DEF Tick
  <1>2. \A t \in Tickets : /\ tickets[t] \in Entries \cup {NoEntry}
                           /\ issued[t] \in Entries \cup {NoEntry}
    BY DEF IInv, TypeOK
  <1>3. TypeOK'
    <2>1. tickets' \in [Tickets -> Entries \cup {NoEntry}]
      BY <1>1, <1>2, OlderEntry
    <2>2. issued' \in [Tickets -> Entries \cup {NoEntry}]
      BY <1>1, <1>2, OlderEntry
    <2>3. ticker' \in 0..Period
      BY <1>1, TimeAssumption DEF IInv, TypeOK
    <2> QED
      BY <1>1, <2>1, <2>2, <2>3 DEF IInv, TypeOK
  <1>4. ASSUME NEW t \in Tickets PROVE Tied(t)'
    <2>1. /\ Older(NoEntry) = NoEntry
          /\ issued'[t] = NoEntry <=> issued[t] = NoEntry
      BY <1>1, <1>2, OlderEntry
    <2>2. tickets'[t] = Older(tickets[t]) /\ issued'[t] = Older(issued[t])
      BY <1>1
    <2> QED
      BY <1>1, <2>1, <2>2 DEF IInv, Tied
  <1>5. InTimeOpens'
    <2> SUFFICES ASSUME restarts' = 0, NEW t \in Tickets,
                        issued'[t].left >= 0, tries'[t] = 0
                 PROVE  tickets'[t] = issued'[t]
      BY DEF InTimeOpens
    <2>1. issued[t].left >= 0
      BY <1>1, <1>2, OlderEntry
    <2>2. tickets[t] = issued[t]
      BY <1>1, <2>1 DEF IInv, InTimeOpens
    <2> QED
      BY <1>1, <2>2
  <1> QED
    BY <1>3, <1>4, <1>5 DEF IInv

\* A restart takes every entry, and opens nothing.
LEMMA RestartKeeps ==
    ASSUME IInv, Restart
    PROVE  IInv'
  <1>1. /\ tickets' = [t \in Tickets |-> NoEntry]
        /\ ticker' = Period
        /\ restarts' = restarts + 1 /\ restarts < MaxRestarts
        /\ UNCHANGED <<issued, tries, streams>>
    BY DEF Restart
  <1>2. TypeOK'
    BY <1>1, TimeAssumption, BoundsAssumption DEF IInv, TypeOK
  <1>3. ASSUME NEW t \in Tickets PROVE Tied(t)'
    BY <1>1 DEF IInv, Tied
  <1>4. InTimeOpens'
    BY <1>1 DEF IInv, TypeOK, InTimeOpens
  <1> QED
    BY <1>2, <1>3, <1>4 DEF IInv

\* No step unties them.
LEMMA NextIInv == IInv /\ [Next]_vars => IInv'
  <1> SUFFICES ASSUME IInv, [Next]_vars PROVE IInv'
    OBVIOUS
  <1>1. ASSUME NEW t \in Tickets, Mint(t) PROVE IInv'
    BY <1>1, MintKeeps
  <1>2. ASSUME NEW t \in Tickets, Redeem(t) PROVE IInv'
    BY <1>2, RedeemKeeps
  <1>3. CASE Sweep
    BY <1>3, SweepKeeps
  <1>4. CASE Tick
    BY <1>4, TickKeeps
  <1>5. CASE Restart
    BY <1>5, RestartKeeps
  <1>6. CASE UNCHANGED vars
    BY <1>6 DEF IInv, TypeOK, Tied, InTimeOpens, vars
  <1> QED
    BY <1>1, <1>2, <1>3, <1>4, <1>5, <1>6 DEF Next

\* Every behaviour keeps the store and the promises tied.
THEOREM Invariance == Spec => []IInv
  <1> QED
    BY InitIInv, NextIInv, PTL DEF Spec, Safety

\* SseTickets!TypeOK: the sweeper's ticker is always running, and an entry has the
\* roles of a mint and no more than ticketTTL to go.
THEOREM TypeCorrect == Spec => []TypeOK
  <1>1. IInv => TypeOK
    BY DEF IInv
  <1> QED
    BY <1>1, Invariance, PTL

\* SseTickets!OneStreamEach: a ticket opens one stream at most (redeem), whatever the
\* TTL, the sweeper's period and the number of connections that try it.
THEOREM SingleUse == Spec => []OneStreamEach
  <1>1. ASSUME IInv, NEW t \in Tickets PROVE streams[t] <= 1
    <2>1. streams[t] \in {0, 1}
      BY <1>1 DEF IInv, Tied
    <2> QED
      BY <2>1
  <1>2. IInv => OneStreamEach
    BY <1>1 DEF OneStreamEach
  <1> QED
    BY <1>2, Invariance, PTL

\* SseTickets!InTimeOpens: until its time is over or it is tried, a ticket opens its
\* stream, unless the server restarts (mint, redeem, startSweeper).
THEOREM GoodUntilTried == Spec => []InTimeOpens
  <1>1. IInv => InTimeOpens
    BY DEF IInv
  <1> QED
    BY <1>1, Invariance, PTL

\* SseTickets!OpenedInTime: no stream opens with a ticket older than ticketTTL, whether
\* or not the sweeper has come by (redeem).
THEOREM NoLateStream == Spec => OpenedInTime
  <1>1. ASSUME IInv, [Next]_vars,
               NEW t \in Tickets, streams'[t] # streams[t]
        PROVE  issued[t].left >= 0
    <2>1. ASSUME NEW r \in Tickets, Redeem(r) PROVE issued[t].left >= 0
      <3>1. streams' = [streams EXCEPT ![r] = @ + IF tickets[r].left < 0 THEN 0 ELSE 1]
        BY <2>1 DEF Redeem, Expired
      <3>2. t = r /\ ~ (tickets[r].left < 0)
        BY <1>1, <3>1 DEF IInv, TypeOK
      <3>3. tickets[t] = issued[t]
        BY <1>1, <3>2 DEF IInv, Tied, NoEntry
      <3>4. tickets[t].left \in Int
        BY <1>1, TimeAssumption DEF IInv, TypeOK, Entries, NoEntry
      <3> QED
        BY <3>2, <3>3, <3>4
    <2>2. Redeem(t) \/ \E r \in Tickets : Redeem(r)
      BY <1>1 DEF Next, Mint, Sweep, Tick, Restart, vars
    <2> QED
      BY <2>1, <2>2
  <1>2. IInv /\ [Next]_vars =>
          [\A t \in Tickets : streams'[t] # streams[t] => issued[t].left >= 0]_vars
    BY <1>1
  <1> QED
    BY <1>2, Invariance, PTL DEF Spec, Safety, OpenedInTime

------------------------------------------------------------------------------
(* The four parts together                                                    *)

\* Each part that runs keeps its own invariant.
PagesIInv ==
    /\ running = "writers"  => Writers!IInv
    /\ running = "listing"  => Listing!IInv
    /\ running = "builds"   => Builds!IInv
    /\ running = "watching" => Watching!IInv

\* Every part starts well.
LEMMA PagesStart == PagesInit => PagesIInv
  <1> SUFFICES ASSUME PagesInit PROVE PagesIInv
    OBVIOUS
  <1>1. running = "writers" => Writers!IInv
    BY PagesParameters, Writers!InitIInv DEF PagesInit
  <1>2. running = "listing" => Listing!IInv
    BY PagesParameters, Listing!InitIInv DEF PagesInit
  <1>3. running = "builds" => Builds!IInv
    BY PagesParameters, Builds!InitIInv DEF PagesInit
  <1>4. running = "watching" => Watching!IInv
    BY PagesParameters, Watching!InitIInv DEF PagesInit
  <1> QED
    BY <1>1, <1>2, <1>3, <1>4 DEF PagesIInv

\* A step is one of the part that runs, or leaves all parts but the tickets as they were.
LEMMA OnePartMoves ==
    ASSUME [PagesNext]_<<running, vars, workspaces, demo>>
    PROVE  /\ running' = running
           /\ running = "writers"  => [Writers!Next]_workspaces
           /\ running = "listing"  => [Listing!Next]_workspaces
           /\ running = "builds"   => [Builds!Next]_demo
           /\ running = "watching" => [Watching!Next]_demo
           /\ running \notin {"writers", "listing"} => UNCHANGED workspaces
  BY DEF PagesNext, Tickets_Next, Writers_Next, Listing_Next, Watching_Next, Builds_Next, Over, Run

\* What does not change in MCPages does not change in its parts.
LEMMA SameVariables ==
    /\ UNCHANGED workspaces <=> UNCHANGED Writers!vars
    /\ UNCHANGED workspaces <=> UNCHANGED Listing!vars
    /\ UNCHANGED demo <=> UNCHANGED Builds!vars
    /\ UNCHANGED demo <=> UNCHANGED Watching!vars
  <1>1. UNCHANGED workspaces <=> UNCHANGED Writers!vars
    BY DEF workspaces, Writers!vars, Writers!repo, Writers!writes, Writers!reads, Writers!counts
  <1>2. UNCHANGED workspaces <=> UNCHANGED Listing!vars
    BY DEF workspaces, Listing!vars, Listing!repo, Listing!writes, Listing!reads, Listing!counts
  <1>3. UNCHANGED demo <=> UNCHANGED Builds!vars
    BY DEF demo, Builds!vars, Builds!sandbox, Builds!cleaning, Builds!building, Builds!paging,
           Builds!tallies
  <1>4. UNCHANGED demo <=> UNCHANGED Watching!vars
    BY DEF demo, Watching!vars, Watching!sandbox, Watching!cleaning, Watching!building,
           Watching!paging, Watching!tallies
  <1> QED
    BY <1>1, <1>2, <1>3, <1>4

\* No step of any part breaks the invariant of the one that runs.
LEMMA PagesStep ==
    PagesIInv /\ [PagesNext]_<<running, vars, workspaces, demo>> => PagesIInv'
  <1> SUFFICES ASSUME PagesIInv, [PagesNext]_<<running, vars, workspaces, demo>>
               PROVE  PagesIInv'
    OBVIOUS
  <1>1. running' = running
    BY OnePartMoves
  <1>2. ASSUME running = "writers" PROVE Writers!IInv'
    <2>1. Writers!IInv /\ [Writers!Next]_(Writers!vars)
      BY <1>2, OnePartMoves, SameVariables DEF PagesIInv
    <2> QED
      BY <2>1, PagesParameters, Writers!NextKeeps
  <1>3. ASSUME running = "listing" PROVE Listing!IInv'
    <2>1. Listing!IInv /\ [Listing!Next]_(Listing!vars)
      BY <1>3, OnePartMoves, SameVariables DEF PagesIInv
    <2> QED
      BY <2>1, PagesParameters, Listing!NextKeeps
  <1>4. ASSUME running = "builds" PROVE Builds!IInv'
    <2>1. Builds!IInv /\ [Builds!Next]_(Builds!vars)
      BY <1>4, OnePartMoves, SameVariables DEF PagesIInv
    <2> QED
      BY <2>1, PagesParameters, Builds!NextKeeps
  <1>5. ASSUME running = "watching" PROVE Watching!IInv'
    <2>1. Watching!IInv /\ [Watching!Next]_(Watching!vars)
      BY <1>5, OnePartMoves, SameVariables DEF PagesIInv
    <2> QED
      BY <2>1, PagesParameters, Watching!NextKeeps
  <1> QED
    BY <1>1, <1>2, <1>3, <1>4, <1>5 DEF PagesIInv

\* What the theorems below have in common.
LEMMA PagesInductive == PagesSpec => []PagesIInv
  BY PagesStart, PagesStep, PTL DEF PagesSpec

\* The variables of contributors' requests and of the listing keep their types.
THEOREM WorkspacesTyped == PagesSpec => []WorkspacesTypeOK
  <1>1. PagesIInv => WorkspacesTypeOK
    BY Writers!InvariantFacts, Listing!InvariantFacts DEF PagesIInv, WorkspacesTypeOK
  <1> QED
    BY <1>1, PagesInductive, PTL

\* A workspace that holds anything holds its namespace.yaml, in the part where
\* contributors' requests meet and in the part where sandboxes come and go
\* (handleCreateResource, handleDeleteWorkspace, deleteGuestWorkspaceFiles).
THEOREM NothingIsOrphaned == PagesSpec => []NoOrphans
  <1>1. PagesIInv => NoOrphans
    BY Writers!InvariantFacts, Listing!InvariantFacts DEF PagesIInv, NoOrphans
  <1> QED
    BY <1>1, PagesInductive, PTL

\* The cached list has exactly the sandboxes there are, with their dates
\* (handleListWorkspaces, invalidateWorkspacesCache).
THEOREM TheListIsFresh == PagesSpec => []GuestsListed
  <1>1. PagesIInv => GuestsListed
    BY Listing!InvariantFacts DEF PagesIInv, GuestsListed
  <1> QED
    BY <1>1, PagesInductive, PTL

\* Only a contributor's write changes a workspace kept by hand, in either part and
\* however late it lands (requireAuth, requireContributor).
THEOREM OnlyContributorsWrite == PagesSpec => ContributorsOnly
  <1>1. ASSUME PagesIInv, [PagesNext]_<<running, vars, workspaces, demo>>
        PROVE  [/\ running = "writers" => Writers!Authorised
                /\ running = "listing" => Listing!Authorised]_workspaces
    <2>1. ASSUME running = "writers" PROVE [Writers!Authorised]_workspaces
      <3>1. Writers!IInv /\ [Writers!Next]_(Writers!vars)
        BY <1>1, <2>1, OnePartMoves, SameVariables DEF PagesIInv
      <3>2. [Writers!Authorised]_(Writers!vars)
        BY <3>1, PagesParameters, Writers!StepsAreAuthorised
      <3> QED
        BY <3>2, SameVariables
    <2>2. ASSUME running = "listing" PROVE [Listing!Authorised]_workspaces
      <3>1. Listing!IInv /\ [Listing!Next]_(Listing!vars)
        BY <1>1, <2>2, OnePartMoves, SameVariables DEF PagesIInv
      <3>2. [Listing!Authorised]_(Listing!vars)
        BY <3>1, PagesParameters, Listing!StepsAreAuthorised
      <3> QED
        BY <3>2, SameVariables
    <2> QED
      BY <2>1, <2>2
  <1> QED
    BY <1>1, PagesInductive, PTL DEF PagesSpec, ContributorsOnly

\* The variables of builds, patches and the pages that watch them keep their types.
THEOREM DemoTyped == PagesSpec => []DemoTypeOK
  <1>1. PagesIInv => DemoTypeOK
    BY Builds!InvariantFacts, Watching!InvariantFacts DEF PagesIInv, DemoTypeOK
  <1> QED
    BY <1>1, PagesInductive, PTL

\* A live sandbox holds nothing or exactly one build's demo, where two builders meet
\* and where a page watches one (handleCreateGuestResourceBatch, handlePatchGuestResource).
THEOREM DemoIsWhole == PagesSpec => []DemoWhole
  <1>1. PagesIInv => DemoWhole
    BY Builds!InvariantFacts, Watching!InvariantFacts DEF PagesIInv, DemoWhole
  <1> QED
    BY <1>1, PagesInductive, PTL

\* The cached resources of a live sandbox are its whole demo or nothing
\* (handleListResources).
THEOREM ListsAreWhole == PagesSpec => []WholeLists
  <1>1. PagesIInv => WholeLists
    BY Builds!InvariantFacts, Watching!InvariantFacts DEF PagesIInv, WholeLists
  <1> QED
    BY <1>1, PagesInductive, PTL
==============================================================================
