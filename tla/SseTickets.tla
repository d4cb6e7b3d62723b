------------------------------ MODULE SseTickets ------------------------------
(* sse_ticket.go, and requireAuth and handleIssueSSETicket around it: an      *)
(* EventSource cannot send a token, so a client exchanges its token for a     *)
(* ticket and opens GET /api/status/watch with that.  redeem forgets a ticket *)
(* and only then looks at its age; a sweeper forgets what nobody redeems.     *)
(* Times count down, in units of which TTL make ticketTTL, so that a run can  *)
(* last for ever.                                                             *)
EXTENDS Integers

CONSTANTS Tickets,     \* 32 random bytes: no two are the same
          Roles,       \* what a validated token may carry
          TTL,         \* ticketTTL (sse_ticket.go:13)
          Period,      \* of the sweeper's ticker (sse_ticket.go:65)
          MaxTries,    \* bound: connections tried with one ticket
          MaxRestarts  \* bound: restarts of the server

ASSUME TimeAssumption == TTL \in Nat /\ Period \in Nat \ {0}
ASSUME BoundsAssumption == MaxTries \in Nat /\ MaxRestarts \in Nat

VARIABLES tickets,  \* ticketStore.tickets: per ticket its entry, or NoEntry
          ticker,   \* until the sweeper's ticker fires
          issued,   \* per ticket: what the client was promised (history)
          tries,    \* per ticket: connections tried with it
          streams,  \* per ticket: streams opened with it
          restarts  \* how many there were

vars == <<tickets, ticker, issued, tries, streams, restarts>>

\* left: until expiresAt; -1 is after it.
Entries == [roles : SUBSET Roles, left : -1..TTL]
NoEntry == [roles |-> {}, left |-> -2]

Init ==
    /\ tickets = [t \in Tickets |-> NoEntry]
    /\ ticker = Period
    /\ issued = [t \in Tickets |-> NoEntry]
    /\ tries = [t \in Tickets |-> 0]
    /\ streams = [t \in Tickets |-> 0]
    /\ restarts = 0

------------------------------------------------------------------------------
\* handleIssueSSETicket, for the roles requireAuth found: mint.
Mint(t) ==
    /\ issued[t] = NoEntry
    /\ \E roles \in SUBSET Roles :
         LET entry == [roles |-> roles, left |-> TTL] IN
           /\ tickets' = [tickets EXCEPT ![t] = entry]
           /\ issued' = [issued EXCEPT ![t] = entry]
    /\ UNCHANGED <<ticker, tries, streams, restarts>>

\* now.After(v.expiresAt)
Expired(t) == tickets[t].left < 0

\* Wrong on purpose: the ticket is found and not forgotten.
RedeemAgain(t) ==
    /\ issued[t] # NoEntry
    /\ tries[t] < MaxTries
    /\ tries' = [tries EXCEPT ![t] = @ + 1]
    /\ streams' = [streams EXCEPT ![t] = @ + IF Expired(t) THEN 0 ELSE 1]
    /\ UNCHANGED <<tickets, ticker, issued, restarts>>

\* Wrong on purpose: the sweeper is trusted to have removed what has expired.
RedeemUnread(t) ==
    /\ issued[t] # NoEntry
    /\ tries[t] < MaxTries
    /\ tries' = [tries EXCEPT ![t] = @ + 1]
    /\ tickets' = [tickets EXCEPT ![t] = NoEntry]
    /\ streams' = [streams EXCEPT ![t] = @ + IF tickets[t] = NoEntry THEN 0 ELSE 1]
    /\ UNCHANGED <<ticker, issued, restarts>>

\* A connection with the ticket: redeem, then the stream or 401.
Redeem(t) ==
    /\ issued[t] # NoEntry
    /\ tries[t] < MaxTries
    /\ tries' = [tries EXCEPT ![t] = @ + 1]
    /\ tickets' = [tickets EXCEPT ![t] = NoEntry]
    /\ streams' = [streams EXCEPT ![t] = @ + IF Expired(t) THEN 0 ELSE 1]
    /\ UNCHANGED <<ticker, issued, restarts>>

\* Wrong on purpose: the sweeper starts over with an empty map.
SweepAll ==
    /\ ticker = 0
    /\ tickets' = [t \in Tickets |-> NoEntry]
    /\ ticker' = Period
    /\ UNCHANGED <<issued, tries, streams, restarts>>

\* Wrong on purpose: the sweeper ends after its first round.
SweepOnce ==
    /\ ticker = 0
    /\ tickets' = [t \in Tickets |-> IF Expired(t) THEN NoEntry ELSE tickets[t]]
    /\ ticker' = -1
    /\ UNCHANGED <<issued, tries, streams, restarts>>

\* Wrong on purpose: the sweeper deletes from a copy of the map.
SweepCopy ==
    /\ ticker = 0
    /\ ticker' = Period
    /\ UNCHANGED <<tickets, issued, tries, streams, restarts>>

\* startSweeper's loop, once a minute, under the store's mutex.
Sweep ==
    /\ ticker = 0
    /\ tickets' = [t \in Tickets |-> IF Expired(t) THEN NoEntry ELSE tickets[t]]
    /\ ticker' = Period
    /\ UNCHANGED <<issued, tries, streams, restarts>>

\* Time passes.  The ticker keeps what it has fired until the sweeper takes it.
Older(entry) == IF entry.left >= 0 THEN [entry EXCEPT !.left = @ - 1] ELSE entry

Tick ==
    /\ tickets' = [t \in Tickets |-> Older(tickets[t])]
    /\ issued' = [t \in Tickets |-> Older(issued[t])]
    /\ ticker' = IF ticker > 0 THEN ticker - 1 ELSE ticker
    /\ UNCHANGED <<tries, streams, restarts>>

\* The tickets are in memory alone.
Restart ==
    /\ restarts < MaxRestarts
    /\ restarts' = restarts + 1
    /\ tickets' = [t \in Tickets |-> NoEntry]
    /\ ticker' = Period
    /\ UNCHANGED <<issued, tries, streams>>

------------------------------------------------------------------------------
Next ==
    \/ \E t \in Tickets : Mint(t) \/ Redeem(t)
    \/ Sweep
    \/ Tick
    \/ Restart

Safety == Init /\ [][Next]_vars

\* Time goes on, and the sweeper's goroutine runs.
Fairness == WF_vars(Tick) /\ WF_vars(Sweep)

Spec == Safety /\ Fairness
------------------------------------------------------------------------------
TypeOK ==
    /\ tickets \in [Tickets -> Entries \cup {NoEntry}]
    /\ issued \in [Tickets -> Entries \cup {NoEntry}]
    /\ ticker \in 0..Period
    /\ tries \in [Tickets -> 0..MaxTries]
    /\ streams \in [Tickets -> Nat]
    /\ restarts \in 0..MaxRestarts

\* "single-use" (sse_ticket.go:20): however many connections try a ticket, in
\* whatever order with the sweeper and with restarts, one of them gets a stream.
OneStreamEach == \A t \in Tickets : streams[t] <= 1

\* "A leaked ticket [...] is worthless beyond one connection attempt within
\* ticketTTL" (auth.go:81): no stream opens later than that, swept or not.
OpenedInTime ==
    [][\A t \in Tickets : streams'[t] # streams[t] => issued[t].left >= 0]_vars

\* A ticket that is in time and has not been tried opens its stream, with the roles
\* of its mint: nothing but a restart takes it away before.
InTimeOpens ==
    restarts = 0 =>
        \A t \in Tickets :
            issued[t].left >= 0 /\ tries[t] = 0 => tickets[t] = issued[t]

\* "abandoned connection attempts don't grow the map forever" (sse_ticket.go:62): again
\* and again there is a moment when the map holds no ticket that has expired.
AbandonedGo == []<>(\A t \in Tickets : tickets[t] # NoEntry => ~ Expired(t))
==============================================================================
