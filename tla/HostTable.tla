------------------------------ MODULE HostTable ------------------------------
(***************************************************************************)
(* Admission to the terminal hosts (src-tauri/src/state/host_table.rs): a  *)
(* small table under one mutex that says who may start an operation on a   *)
(* host, when an exit, offload or update may go ahead, and when a host may *)
(* be retired.                                                             *)
(*                                                                         *)
(* Every critical section of that mutex is one action. The callers are     *)
(* unconstrained: any operation, closer, drainer, connection or ticker may *)
(* call any function of the table whenever it holds what the call demands, *)
(* so what is proved here holds for every caller. HostLifecycle composes   *)
(* the table with the callers the program has.                             *)
(*                                                                         *)
(* A counter of tickets is modelled by the set of the tickets themselves:  *)
(* a Ticket is RAII, so the count is the number of live ones. MaxEpoch and *)
(* MaxHolder stand for the largest value of the two checked counters.      *)
(*                                                                         *)
(* A definition named Mut... is a variant with a plausible bug, which the  *)
(* checks put in the place of the definition that follows it.              *)
(***************************************************************************)
EXTENDS Naturals, FiniteSets

CONSTANTS
    Channels,      \* HostChannel: the current host and the older ones
    Ops,           \* operations, each holding at most one Ticket
    Closers,       \* callers of quiesce
    Cancellable,   \* closers whose quiesce() future may be dropped while it waits
    Drainers,      \* callers of drain_host
    Conns,         \* connections being made to hosts
    Tickers,       \* retirement ticker tasks
    None,          \* Option::None
    Adopting,      \* TicketTarget::Adoption of begin_adoption
    Arming,        \* TicketTarget::Adoption of begin_as_quiescer
    MaxEpoch,      \* bound on next_epoch
    MaxHolder      \* bound on next_holder

\* Each value that stands for an absent or special one is no member of the sets.
ASSUME HostTableAssumption ==
    /\ None \notin Channels \cup {Adopting, Arming} \cup Tickers
    /\ Adopting # Arming
    /\ {Adopting, Arming} \cap Channels = {}
    /\ MaxEpoch \in Nat
    /\ MaxHolder \in Nat

VARIABLES
    lifecycle,     \* Lifecycle, with the holder and reason of a Quiescing
    nextHolder,    \* next_holder
    slot,          \* hosts: one HostSlot per channel, "Absent" before its publish
    nextEpoch,     \* next_epoch
    conn,          \* per connection: the epoch it reserved, the channel it is on
    ticket,        \* per operation: the target of the Ticket it holds
    guard,         \* per closer: its quiesce call or QuiesceGuard
    drain,         \* per drainer: the DrainGuard it holds
    handle         \* per ticker task: the channel of the TickerHandle it holds

tableVars == <<lifecycle, nextHolder, slot, nextEpoch, conn, ticket, guard, drain, handle>>

Reasons == {"Exit", "Offload", "Update"}
NoHold  == [mode |-> "Open", holder |-> 0, reason |-> "none"]
NoGuard == [at |-> "none", holder |-> 0, reason |-> "none", drained |-> FALSE]
NoDrain == [channel |-> None, epoch |-> 0]
NoConn  == [channel |-> None, epoch |-> 0]

HostSlot == [admission : {"Absent", "Open", "Draining", "Retired"},
             epoch     : 0 .. MaxEpoch,
             ticker    : Tickers \cup {None}]

\* "dropped" stands for no guard too: it remembers whose wait was dropped.
QuiesceGuard == [at      : {"none", "dropped", "waiting", "held", "forgotten"},
                 holder  : 0 .. MaxHolder,
                 reason  : Reasons \cup {"none"},
                 drained : BOOLEAN]

TypeOK ==
    /\ lifecycle \in [mode   : {"Open", "Quiescing", "Exiting"},
                      holder : 0 .. MaxHolder,
                      reason : Reasons \cup {"none"}]
    /\ nextHolder \in 0 .. MaxHolder
    /\ slot \in [Channels -> HostSlot]
    /\ nextEpoch \in 0 .. MaxEpoch
    /\ conn \in [Conns -> [channel : Channels \cup {None}, epoch : 0 .. MaxEpoch]]
    /\ ticket \in [Ops -> Channels \cup {None, Adopting, Arming}]
    /\ guard \in [Closers -> QuiesceGuard]
    /\ drain \in [Drainers -> [channel : Channels \cup {None}, epoch : 0 .. MaxEpoch]]
    /\ handle \in [Tickers -> Channels \cup {None}]

TableInit ==
    /\ lifecycle = NoHold
    /\ nextHolder = 0
    /\ slot = [c \in Channels |-> [admission |-> "Absent", epoch |-> 0, ticker |-> None]]
    /\ nextEpoch = 0
    /\ conn = [k \in Conns |-> NoConn]
    /\ ticket = [o \in Ops |-> None]
    /\ guard = [q \in Closers |-> NoGuard]
    /\ drain = [d \in Drainers |-> NoDrain]
    /\ handle = [t \in Tickers |-> None]

-----------------------------------------------------------------------------
(* Connections and their epochs                                              *)

MutReserveUnchecked(k) ==
    /\ conn[k] = NoConn
    /\ nextEpoch' = nextEpoch + 1
    /\ conn' = [conn EXCEPT ![k].epoch = nextEpoch + 1]
    /\ UNCHANGED <<lifecycle, nextHolder, slot, ticket, guard, drain, handle>>

\* An epoch for a connection about to be made; each one is handed out once.
ReserveEpoch(k) ==
    /\ conn[k] = NoConn
    /\ nextEpoch < MaxEpoch
    /\ nextEpoch' = nextEpoch + 1
    /\ conn' = [conn EXCEPT ![k].epoch = nextEpoch + 1]
    /\ UNCHANGED <<lifecycle, nextHolder, slot, ticket, guard, drain, handle>>

MutPublishWhileDraining(c, epoch) ==
    \/ slot[c].admission = "Absent"
    \/ slot[c].admission # "Retired" /\ slot[c].epoch <= epoch

MutPublishOlder(c, epoch) == slot[c].admission \in {"Absent", "Open"}

\* publish() leaves a host alone that is draining or retired, and one that has a
\* newer connection.
Publishable(c, epoch) ==
    \/ slot[c].admission = "Absent"
    \/ slot[c].admission = "Open" /\ slot[c].epoch <= epoch

\* Make the reserved epoch the current connection of its channel.
Publish(k, c) ==
    /\ conn[k].epoch # 0 /\ conn[k].channel = None
    /\ Publishable(c, conn[k].epoch)
    /\ slot' = [slot EXCEPT ![c].admission = "Open", ![c].epoch = conn[k].epoch]
    /\ conn' = [conn EXCEPT ![k].channel = c]
    /\ UNCHANGED <<lifecycle, nextHolder, nextEpoch, ticket, guard, drain, handle>>

\* The connection ended, or its publish was refused and its caller closes it.
EndConn(k) ==
    /\ conn[k] # NoConn
    /\ conn' = [conn EXCEPT ![k] = NoConn]
    /\ UNCHANGED <<lifecycle, nextHolder, slot, nextEpoch, ticket, guard, drain, handle>>

\* is_current(): may a callback of this connection act?
IsCurrent(k) ==
    /\ conn[k].channel # None
    /\ slot[conn[k].channel].epoch = conn[k].epoch

-----------------------------------------------------------------------------
(* Tickets                                                                   *)

\* Tickets in flight on one channel.
OnHost(c) == {o \in Ops : ticket[o] = c}

MutInFlightOnHosts == {o \in Ops : ticket[o] \in Channels}

\* total_inflight(): what a quiesce waits to see empty.
InFlight == {o \in Ops : ticket[o] # None}

TakeTicket(o, target) ==
    /\ ticket[o] = None
    /\ ticket' = [ticket EXCEPT ![o] = target]
    /\ UNCHANGED <<lifecycle, nextHolder, slot, nextEpoch, conn, guard, drain, handle>>

\* Start an operation on a host: refused at once when the table is closing or
\* the host is not open.
Begin(o, c) ==
    /\ lifecycle.mode = "Open"
    /\ slot[c].admission = "Open"
    /\ TakeTicket(o, c)

BeginAdoption(o) ==
    /\ lifecycle.mode = "Open"
    /\ TakeTicket(o, Adopting)

\* The lifecycle owner's own operation, not refused by the quiesce it holds. Only
\* a reference to the guard is asked for: whether the guard is still the one in
\* force is not.
BeginAsQuiescer(o, q) ==
    /\ guard[q].at = "held"
    /\ TakeTicket(o, Arming)

DropTicket(o) ==
    /\ ticket[o] # None
    /\ ticket' = [ticket EXCEPT ![o] = None]
    /\ UNCHANGED <<lifecycle, nextHolder, slot, nextEpoch, conn, guard, drain, handle>>

-----------------------------------------------------------------------------
(* Closing admission                                                         *)

\* Exit may close the table whoever holds it; the others only when it is open.
MayQuiesce(reason) == reason = "Exit" \/ lifecycle.mode = "Open"

\* The first half of quiesce(): close the table. The caller now waits, and has no
\* guard yet.
Quiesce(q, reason) ==
    /\ guard[q].at \in {"none", "dropped"}
    /\ MayQuiesce(reason)
    /\ nextHolder < MaxHolder
    /\ nextHolder' = nextHolder + 1
    /\ lifecycle' = IF reason = "Exit"
                      THEN [mode |-> "Exiting", holder |-> 0, reason |-> "Exit"]
                      ELSE [mode |-> "Quiescing", holder |-> nextHolder + 1, reason |-> reason]
    /\ guard' = [guard EXCEPT ![q] = [at |-> "waiting", holder |-> nextHolder + 1,
                                      reason |-> reason, drained |-> FALSE]]
    /\ UNCHANGED <<slot, nextEpoch, conn, ticket, drain, handle>>

EndWait(q, drained) ==
    /\ guard[q].at = "waiting"
    /\ guard' = [guard EXCEPT ![q].at = "held", ![q].drained = drained]
    /\ UNCHANGED <<lifecycle, nextHolder, slot, nextEpoch, conn, ticket, drain, handle>>

\* The wait saw the total at zero.
QuiesceDrained(q) == InFlight = {} /\ EndWait(q, TRUE)

\* The bound passed: the guard is still returned, with drained = false.
QuiesceTimeout(q) == EndWait(q, FALSE)

\* The caller was dropped while it waited, for something in flight. There is no
\* guard yet whose drop would reopen the table.
QuiesceCancelled(q) ==
    /\ q \in Cancellable
    /\ guard[q].at = "waiting"
    /\ InFlight # {}
    /\ guard' = [guard EXCEPT ![q].at = "dropped"]
    /\ UNCHANGED <<lifecycle, nextHolder, slot, nextEpoch, conn, ticket, drain, handle>>

\* Drop for QuiesceGuard: reopen only what this guard closed.
DropGuard(q) ==
    /\ guard[q].at = "held"
    /\ guard' = [guard EXCEPT ![q] = NoGuard]
    /\ lifecycle' = IF lifecycle.mode = "Quiescing" /\ lifecycle.holder = guard[q].holder
                      THEN NoHold ELSE lifecycle
    /\ UNCHANGED <<nextHolder, slot, nextEpoch, conn, ticket, drain, handle>>

\* Hold::commit: the guard is forgotten, so that nothing reopens the table.
ForgetGuard(q) ==
    /\ guard[q].at = "held"
    /\ guard' = [guard EXCEPT ![q].at = "forgotten"]
    /\ UNCHANGED <<lifecycle, nextHolder, slot, nextEpoch, conn, ticket, drain, handle>>

-----------------------------------------------------------------------------
(* Retiring a host                                                           *)

\* Close one idle host to admission; fail-fast, it never waits for a ticket.
DrainHost(d, c) ==
    /\ drain[d].channel = None
    /\ OnHost(c) = {}
    /\ slot[c].admission = "Open"
    /\ slot' = [slot EXCEPT ![c].admission = "Draining"]
    /\ drain' = [drain EXCEPT ![d] = [channel |-> c, epoch |-> slot[c].epoch]]
    /\ UNCHANGED <<lifecycle, nextHolder, nextEpoch, conn, ticket, guard, handle>>

\* The guard ends, and moves the host on only if the host is still the one the
\* guard closed.
EndDrain(d, admission) ==
    /\ drain[d].channel # None
    /\ LET c == drain[d].channel IN
         slot' = IF slot[c].epoch = drain[d].epoch /\ slot[c].admission = "Draining"
                   THEN [slot EXCEPT ![c].admission = admission] ELSE slot
    /\ drain' = [drain EXCEPT ![d] = NoDrain]
    /\ UNCHANGED <<lifecycle, nextHolder, nextEpoch, conn, ticket, guard, handle>>

\* A host found dead is retired whatever the table's lifecycle.
Retire(d) == EndDrain(d, "Retired")

\* A host that is merely empty is retired only while nothing has closed the table.
\* A refusal leaves the guard to be dropped.
RetireWhenOpen(d) == lifecycle.mode = "Open" /\ EndDrain(d, "Retired")

DropDrain(d) == EndDrain(d, "Open")

\* Claim the one retirement ticker of a host.
StartTicker(t, c) ==
    /\ handle[t] = None
    /\ slot[c].admission = "Open"
    /\ slot[c].ticker = None
    /\ slot' = [slot EXCEPT ![c].ticker = t]
    /\ handle' = [handle EXCEPT ![t] = c]
    /\ UNCHANGED <<lifecycle, nextHolder, nextEpoch, conn, ticket, guard, drain>>

\* Drop for TickerHandle: free the place, if it is still this ticker's.
DropTicker(t) ==
    /\ handle[t] # None
    /\ slot' = IF slot[handle[t]].ticker = t
                 THEN [slot EXCEPT ![handle[t]].ticker = None] ELSE slot
    /\ handle' = [handle EXCEPT ![t] = None]
    /\ UNCHANGED <<lifecycle, nextHolder, nextEpoch, conn, ticket, guard, drain>>

-----------------------------------------------------------------------------
ConnStep == \E k \in Conns :
    ReserveEpoch(k) \/ EndConn(k) \/ \E c \in Channels : Publish(k, c)

TicketStep == \E o \in Ops :
    \/ DropTicket(o) \/ BeginAdoption(o)
    \/ \E c \in Channels : Begin(o, c)
    \/ \E q \in Closers : BeginAsQuiescer(o, q)

CloserStep == \E q \in Closers :
    \/ \E r \in Reasons : Quiesce(q, r)
    \/ QuiesceDrained(q) \/ QuiesceTimeout(q) \/ QuiesceCancelled(q)
    \/ DropGuard(q) \/ ForgetGuard(q)

DrainStep == \E d \in Drainers :
    \/ Retire(d) \/ RetireWhenOpen(d) \/ DropDrain(d)
    \/ \E c \in Channels : DrainHost(d, c)

TickerStep == \E t \in Tickers :
    DropTicker(t) \/ \E c \in Channels : StartTicker(t, c)

TableNext == ConnStep \/ TicketStep \/ CloserStep \/ DrainStep \/ TickerStep

TableSpec == TableInit /\ [][TableNext]_tableVars

-----------------------------------------------------------------------------
(* Properties                                                                *)

\* A quiesce call that waits, a guard that is held, or one that was forgotten.
Live(q) == guard[q].at \notin {"none", "dropped"}

\* Nobody waits to take the terminals away, or already may, while the table admits
\* operations; and a guard that Exit has not taken over is the one in force. So a
\* refused or superseded closer never reopens the table under another (quiesce,
\* QuiesceGuard::drop, host_table.rs:303-333 and 472-479).
GuardsInForce == \A q \in Closers : Live(q) =>
    IF guard[q].reason = "Exit" THEN lifecycle.mode = "Exiting"
    ELSE \/ lifecycle.mode = "Exiting"
         \/ lifecycle.mode = "Quiescing" /\ lifecycle.holder = guard[q].holder

\* An offload and an update are mutually exclusive, with each other and with a
\* second of the same kind, even once an exit has taken the table over from one
\* (host_table.rs:295-298).
OneHold == \A q1, q2 \in Closers :
    (Live(q1) /\ Live(q2) /\ guard[q1].reason # "Exit" /\ guard[q2].reason # "Exit") => q1 = q2

\* Once a closer was told the table drained, no create and no adoption runs until
\* its guard is gone: only the holder's own arm may (begin_as_quiescer,
\* host_table.rs:272-281).
DrainedIsQuiet == \A q \in Closers :
    (guard[q].at \in {"held", "forgotten"} /\ guard[q].drained) =>
        \A o \in Ops : ticket[o] \in {None, Arming}

\* Nothing runs on a host that is being retired or has been: its emptiness was
\* just decided (drain_host and publish, host_table.rs:193-196 and 338-349).
ClosedHostIdle == \A c \in Channels :
    slot[c].admission \in {"Draining", "Retired"} => OnHost(c) = {}

\* A host is closed for retirement exactly while one drainer decides about it, and
\* that drainer's guard is bound to the host's current connection: the guard is
\* never inert, and the host never stays closed without someone to reopen it.
DrainingIsOwned ==
    /\ \A c \in Channels : slot[c].admission = "Draining" =>
           \E d \in Drainers : drain[d] = [channel |-> c, epoch |-> slot[c].epoch]
    /\ \A d \in Drainers : drain[d].channel # None =>
           /\ slot[drain[d].channel].admission = "Draining"
           /\ slot[drain[d].channel].epoch = drain[d].epoch
    /\ \A d1, d2 \in Drainers :
           (drain[d1].channel # None /\ drain[d1].channel = drain[d2].channel) => d1 = d2

\* A callback may act for at most one connection of a host, the newest one
\* published: two connections never both pass is_current (host_table.rs:215-219).
OneCurrentConn == \A k1, k2 \in Conns :
    (IsCurrent(k1) /\ IsCurrent(k2) /\ conn[k1].channel = conn[k2].channel) => k1 = k2

\* A host has at most one retirement ticker, and the place of one that ended is
\* free again (start_ticker and TickerHandle::drop, host_table.rs:351-363, 496-505).
OneTicker == \A t \in Tickers, c \in Channels : handle[t] = c <=> slot[c].ticker = t

\* A table that is closed for a while has the one who closed it and will reopen
\* it: the reasons other than Exit "end when their guard is dropped"
\* (host_table.rs:237-239). Whoever retires, arms, exits or is refused meanwhile
\* takes it from nobody. Excepted is the caller of quiesce() that was dropped
\* while it waited: it had no guard yet (host_table.rs:317-332).
ClosedIsOwned == lifecycle.mode = "Quiescing" =>
    \E q \in Closers : guard[q].at # "none" /\ guard[q].holder = lifecycle.holder

\* The one who has closed the table holds it alone, nobody but that one ends it,
\* and what drained stays quiet.
HoldOwned == GuardsInForce /\ OneHold /\ ClosedIsOwned /\ DrainedIsQuiet

\* Each host has one connection, one ticker and one drainer, and is idle under it.
HostOwned == ClosedHostIdle /\ DrainingIsOwned /\ OneCurrentConn /\ OneTicker

\* What no step may do: take back an exit, take back a retirement, or go back to
\* an older connection of a host.
NoWayBack ==
    [][ /\ lifecycle.mode = "Exiting" => lifecycle'.mode = "Exiting"
        /\ \A c \in Channels :
             /\ slot[c].admission = "Retired" => slot'[c].admission = "Retired"
             /\ slot[c].epoch <= slot'[c].epoch ]_tableVars

\* What the proofs need besides: a channel not published yet has no epoch, and
\* every reserved epoch belongs to one connection and was handed out.
EpochsFresh ==
    /\ \A c \in Channels :
         /\ slot[c].admission = "Absent" => slot[c].epoch = 0
         /\ slot[c].epoch <= nextEpoch
    /\ \A k \in Conns :
         /\ conn[k].epoch <= nextEpoch
         /\ conn[k].channel # None => conn[k].epoch # 0
    /\ \A k1, k2 \in Conns :
         (conn[k1].epoch # 0 /\ conn[k1].epoch = conn[k2].epoch) => k1 = k2

\* What the text says without that exception. Refuted where a caller of quiesce()
\* is dropped while it waits.
ClosedEndsWithGuard == lifecycle.mode = "Quiescing" =>
    \E q \in Closers : Live(q) /\ guard[q].holder = lifecycle.holder

=============================================================================
