------------------------ MODULE HostLifecycle_proofs ------------------------
(***************************************************************************)
(* First the admission table: what it promises to every caller, for any    *)
(* number of channels, operations, closers, drainers, connections and      *)
(* tickers.  Each part of its invariant depends on few variables, so its   *)
(* lemma looks only at the group of actions that can change those;         *)
(* GuardsInForce and OneHold need each other, and DrainedIsQuiet needs     *)
(* GuardsInForce.                                                          *)
(*                                                                         *)
(* Then its callers, for any number of hosts, offloads, relaunches,        *)
(* sibling requests and adoptions: they use the table as its specification *)
(* allows, so that what is proved of the table holds of the program; the   *)
(* hosts armed are those the hold at work answers for; and exit's disarm   *)
(* and shutdown come after every arm.                                      *)
(***************************************************************************)
EXTENDS HostLifecycle, TLAPS


USE DEF NoHold, NoGuard, NoDrain, NoConn, Reasons

\* Every variable keeps its type.
THEOREM TableTypeCorrect == TableSpec => []TypeOK
<1>1. TableInit => TypeOK
  BY HostTableAssumption DEF TableInit, TypeOK, HostSlot, QuiesceGuard
<1>2. TypeOK /\ [TableNext]_tableVars => TypeOK'
  <2> SUFFICES ASSUME TypeOK, [TableNext]_tableVars PROVE TypeOK'
    OBVIOUS
  <2> USE HostTableAssumption DEF TypeOK
  <2>1. CASE ConnStep
    <3>1. ASSUME NEW k \in Conns, ReserveEpoch(k) PROVE TypeOK'
      BY <3>1 DEF ReserveEpoch
    <3>2. ASSUME NEW k \in Conns, EndConn(k) PROVE TypeOK'
      BY <3>2 DEF EndConn
    <3>3. ASSUME NEW k \in Conns, NEW c \in Channels, Publish(k, c) PROVE TypeOK'
      <4>a. slot[c] \in HostSlot /\ conn[k].epoch \in 0 .. MaxEpoch
        OBVIOUS
      <4>b. \A s \in HostSlot, e \in 0 .. MaxEpoch :
              [s EXCEPT !.admission = "Open", !.epoch = e] \in HostSlot
        BY DEF HostSlot
      <4>1. [slot[c] EXCEPT !.admission = "Open", !.epoch = conn[k].epoch] \in HostSlot
        BY <4>a, <4>b
      <4>2. slot' \in [Channels -> HostSlot]
        BY <3>3, <4>1 DEF Publish
      <4>3. conn' \in [Conns -> [channel : Channels \cup {None}, epoch : 0 .. MaxEpoch]]
        BY <3>3 DEF Publish
      <4> QED BY <3>3, <4>2, <4>3 DEF Publish
    <3> QED BY <2>1, <3>1, <3>2, <3>3 DEF ConnStep
  <2>2. CASE TicketStep
    <3>1. ASSUME NEW o \in Ops, NEW target \in Channels \cup {Adopting, Arming},
                 TakeTicket(o, target) PROVE TypeOK'
      BY <3>1 DEF TakeTicket
    <3>2. ASSUME NEW o \in Ops, DropTicket(o) PROVE TypeOK'
      BY <3>2 DEF DropTicket
    <3> QED BY <2>2, <3>1, <3>2 DEF TicketStep, Begin, BeginAdoption, BeginAsQuiescer
  <2>3. CASE CloserStep
    <3>1. ASSUME NEW q \in Closers, NEW r \in Reasons, Quiesce(q, r) PROVE TypeOK'
      BY <3>1 DEF Quiesce, QuiesceGuard
    <3>2. ASSUME NEW q \in Closers, NEW b \in BOOLEAN, EndWait(q, b) PROVE TypeOK'
      <4>a. \A g \in QuiesceGuard : [g EXCEPT !.at = "held", !.drained = b] \in QuiesceGuard
        BY DEF QuiesceGuard
      <4>1. [guard[q] EXCEPT !.at = "held", !.drained = b] \in QuiesceGuard
        BY <4>a
      <4>2. guard' \in [Closers -> QuiesceGuard]
        BY <3>2, <4>1 DEF EndWait
      <4> QED BY <3>2, <4>2 DEF EndWait
    <3>3. ASSUME NEW q \in Closers, QuiesceCancelled(q) PROVE TypeOK'
      BY <3>3 DEF QuiesceCancelled, QuiesceGuard
    <3>4. ASSUME NEW q \in Closers, DropGuard(q) PROVE TypeOK'
      BY <3>4 DEF DropGuard, QuiesceGuard
    <3>5. ASSUME NEW q \in Closers, ForgetGuard(q) PROVE TypeOK'
      BY <3>5 DEF ForgetGuard, QuiesceGuard
    <3>6. ASSUME NEW q \in Closers, QuiesceDrained(q) \/ QuiesceTimeout(q) PROVE TypeOK'
      BY <3>2, <3>6 DEF QuiesceDrained, QuiesceTimeout
    <3> QED BY <2>3, <3>1, <3>3, <3>4, <3>5, <3>6 DEF CloserStep
  <2>4. CASE DrainStep
    <3>1. ASSUME NEW d \in Drainers, NEW a \in {"Open", "Retired"}, EndDrain(d, a) PROVE TypeOK'
      <4> DEFINE c == drain[d].channel
      <4>a. c \in Channels
        BY <3>1 DEF EndDrain
      <4>b. \A s \in HostSlot : [s EXCEPT !.admission = a] \in HostSlot
        BY DEF HostSlot
      <4>1. c \in Channels /\ [slot[c] EXCEPT !.admission = a] \in HostSlot
        BY <4>a, <4>b
      <4>2. slot' \in [Channels -> HostSlot]
        BY <3>1, <4>1 DEF EndDrain
      <4>3. drain' \in [Drainers -> [channel : Channels \cup {None}, epoch : 0 .. MaxEpoch]]
        BY <3>1 DEF EndDrain
      <4>4. UNCHANGED <<lifecycle, nextHolder, nextEpoch, conn, ticket, guard, handle>>
        BY <3>1 DEF EndDrain
      <4> QED BY <4>2, <4>3, <4>4
    <3>2. ASSUME NEW d \in Drainers, NEW c \in Channels, DrainHost(d, c) PROVE TypeOK'
      <4>a. slot[c] \in HostSlot
        OBVIOUS
      <4>b. \A s \in HostSlot : [s EXCEPT !.admission = "Draining"] \in HostSlot /\ s.epoch \in 0 .. MaxEpoch
        BY DEF HostSlot
      <4>1. [slot[c] EXCEPT !.admission = "Draining"] \in HostSlot /\ slot[c].epoch \in 0 .. MaxEpoch
        BY ONLY <4>a, <4>b
      <4>2. slot' \in [Channels -> HostSlot]
        BY <3>2, <4>1 DEF DrainHost
      <4>3. drain' \in [Drainers -> [channel : Channels \cup {None}, epoch : 0 .. MaxEpoch]]
        BY <3>2, <4>1 DEF DrainHost
      <4>4. UNCHANGED <<lifecycle, nextHolder, nextEpoch, conn, ticket, guard, handle>>
        BY <3>2 DEF DrainHost
      <4> QED BY <4>2, <4>3, <4>4
    <3> QED BY <2>4, <3>1, <3>2 DEF DrainStep, Retire, RetireWhenOpen, DropDrain
  <2>5. CASE TickerStep
    <3>1. ASSUME NEW t \in Tickers, DropTicker(t) PROVE TypeOK'
      <4>a. slot[handle[t]] \in HostSlot
        BY <3>1 DEF DropTicker
      <4>b. \A s \in HostSlot : [s EXCEPT !.ticker = None] \in HostSlot
        BY DEF HostSlot
      <4>1. [slot[handle[t]] EXCEPT !.ticker = None] \in HostSlot
        BY ONLY <4>a, <4>b
      <4>2. slot' \in [Channels -> HostSlot]
        BY <3>1, <4>1 DEF DropTicker
      <4> QED BY <3>1, <4>2 DEF DropTicker
    <3>2. ASSUME NEW t \in Tickers, NEW c \in Channels, StartTicker(t, c) PROVE TypeOK'
      <4>a. slot[c] \in HostSlot
        OBVIOUS
      <4>b. \A s \in HostSlot : [s EXCEPT !.ticker = t] \in HostSlot
        BY DEF HostSlot
      <4>1. [slot[c] EXCEPT !.ticker = t] \in HostSlot
        BY ONLY <4>a, <4>b
      <4>2. slot' \in [Channels -> HostSlot]
        BY <3>2, <4>1 DEF StartTicker
      <4> QED BY <3>2, <4>2 DEF StartTicker
    <3> QED BY <2>5, <3>1, <3>2 DEF TickerStep
  <2>6. CASE UNCHANGED tableVars
    BY <2>6 DEF tableVars
  <2> QED BY <2>1, <2>2, <2>3, <2>4, <2>5, <2>6 DEF TableNext
<1> QED BY <1>1, <1>2, PTL DEF TableSpec

-----------------------------------------------------------------------------
(* Which variables a group of actions leaves alone                           *)

LEMMA OthersKeepGuards ==
  ASSUME ConnStep \/ TicketStep \/ DrainStep \/ TickerStep \/ UNCHANGED tableVars
  PROVE UNCHANGED <<lifecycle, guard>>
BY DEF ConnStep, TicketStep, DrainStep, TickerStep, tableVars,
       ReserveEpoch, EndConn, Publish, Begin, BeginAdoption, BeginAsQuiescer, TakeTicket,
       DropTicket, Retire, RetireWhenOpen, DropDrain, EndDrain, DrainHost, DropTicker, StartTicker

LEMMA OthersKeepTickets ==
  ASSUME ConnStep \/ CloserStep \/ DrainStep \/ TickerStep \/ UNCHANGED tableVars
  PROVE UNCHANGED ticket
BY DEF ConnStep, CloserStep, DrainStep, TickerStep, tableVars,
       ReserveEpoch, EndConn, Publish, Quiesce, QuiesceDrained, QuiesceTimeout, EndWait,
       QuiesceCancelled, DropGuard, ForgetGuard,
       Retire, RetireWhenOpen, DropDrain, EndDrain, DrainHost, DropTicker, StartTicker

LEMMA OthersKeepSlots ==
  ASSUME TicketStep \/ CloserStep \/ UNCHANGED tableVars
  PROVE UNCHANGED <<slot, conn, nextEpoch, drain, handle>>
BY DEF TicketStep, CloserStep, tableVars, Begin, BeginAdoption, BeginAsQuiescer, TakeTicket,
       DropTicket, Quiesce, QuiesceDrained, QuiesceTimeout, EndWait, QuiesceCancelled,
       DropGuard, ForgetGuard

-----------------------------------------------------------------------------
(* Closers                                                                   *)

LEMMA ExitingStays ==
  ASSUME lifecycle.mode = "Exiting", [TableNext]_tableVars
  PROVE lifecycle'.mode = "Exiting"
<1>1. CASE CloserStep
  BY <1>1 DEF CloserStep, Quiesce, MayQuiesce, QuiesceDrained, QuiesceTimeout, EndWait,
              QuiesceCancelled, DropGuard, ForgetGuard
<1> QED BY <1>1, OthersKeepGuards DEF TableNext

Guards == TypeOK /\ GuardsInForce /\ OneHold

LEMMA GuardsPreserved ==
  ASSUME Guards, TypeOK', [TableNext]_tableVars
  PROVE (GuardsInForce /\ OneHold)'
<1> USE DEF Guards
<1>1. CASE CloserStep
  <2> USE DEF TypeOK, QuiesceGuard, GuardsInForce, OneHold, Live
  <2>1. ASSUME NEW q \in Closers, NEW r \in Reasons, Quiesce(q, r)
        PROVE (GuardsInForce /\ OneHold)'
    <3>1. CASE r = "Exit"
      BY <2>1, <3>1 DEF Quiesce, MayQuiesce
    <3>2. CASE r # "Exit"
      <4>1. \A p \in Closers : ~Live(p)
        BY <2>1, <3>2 DEF Quiesce, MayQuiesce
      <4> QED BY <2>1, <3>2, <4>1 DEF Quiesce
    <3> QED BY <3>1, <3>2
  <2>2. ASSUME NEW q \in Closers, NEW b \in BOOLEAN, EndWait(q, b)
        PROVE (GuardsInForce /\ OneHold)'
    BY <2>2 DEF EndWait
  <2>3. ASSUME NEW q \in Closers, QuiesceCancelled(q) PROVE (GuardsInForce /\ OneHold)'
    BY <2>3 DEF QuiesceCancelled
  <2>4. ASSUME NEW q \in Closers, DropGuard(q) PROVE (GuardsInForce /\ OneHold)'
    BY <2>4 DEF DropGuard
  <2>5. ASSUME NEW q \in Closers, ForgetGuard(q) PROVE (GuardsInForce /\ OneHold)'
    BY <2>5 DEF ForgetGuard
  <2>6. ASSUME NEW q \in Closers, QuiesceDrained(q) \/ QuiesceTimeout(q)
        PROVE (GuardsInForce /\ OneHold)'
    BY <2>2, <2>6 DEF QuiesceDrained, QuiesceTimeout
  <2> QED BY ONLY <1>1, <2>1, <2>3, <2>4, <2>5, <2>6 DEF CloserStep
<1>2. CASE UNCHANGED <<lifecycle, guard>>
  BY <1>2 DEF GuardsInForce, OneHold, Live
<1> QED BY <1>1, <1>2, OthersKeepGuards DEF TableNext

\* No closer acts on a table another has closed since: the guard in force is the
\* one nobody has taken over from (host_table.rs:303-333, 472-479).
THEOREM GuardsAlwaysInForce == TableSpec => []GuardsInForce
<1>1. TableInit => GuardsInForce /\ OneHold
  BY DEF TableInit, GuardsInForce, OneHold, Live
<1>2. TypeOK /\ TypeOK' /\ (GuardsInForce /\ OneHold) /\ [TableNext]_tableVars
        => (GuardsInForce /\ OneHold)'
  BY GuardsPreserved DEF Guards
<1> QED BY <1>1, <1>2, TableTypeCorrect, PTL DEF TableSpec

\* At most one offload or update at a time, whatever exit does to it.
THEOREM AlwaysOneHold == TableSpec => []OneHold
<1>1. TableInit => GuardsInForce /\ OneHold
  BY DEF TableInit, GuardsInForce, OneHold, Live
<1>2. TypeOK /\ TypeOK' /\ (GuardsInForce /\ OneHold) /\ [TableNext]_tableVars
        => (GuardsInForce /\ OneHold)'
  BY GuardsPreserved DEF Guards
<1> QED BY <1>1, <1>2, TableTypeCorrect, PTL DEF TableSpec

LEMMA QuietPreserved ==
  ASSUME TypeOK, GuardsInForce, DrainedIsQuiet, [TableNext]_tableVars
  PROVE DrainedIsQuiet'
<1> USE HostTableAssumption DEF TypeOK, QuiesceGuard, DrainedIsQuiet
<1>1. CASE CloserStep
  <2> USE OthersKeepTickets
  <2>1. ASSUME NEW q \in Closers, NEW r \in Reasons, Quiesce(q, r) PROVE DrainedIsQuiet'
    BY <2>1 DEF Quiesce
  <2>2. ASSUME NEW q \in Closers, QuiesceDrained(q) PROVE DrainedIsQuiet'
    BY <2>2 DEF QuiesceDrained, EndWait, InFlight
  <2>3. ASSUME NEW q \in Closers, QuiesceTimeout(q) PROVE DrainedIsQuiet'
    BY <2>3 DEF QuiesceTimeout, EndWait
  <2>4. ASSUME NEW q \in Closers, QuiesceCancelled(q) PROVE DrainedIsQuiet'
    BY <2>4 DEF QuiesceCancelled
  <2>5. ASSUME NEW q \in Closers, DropGuard(q) PROVE DrainedIsQuiet'
    BY <2>5 DEF DropGuard
  <2>6. ASSUME NEW q \in Closers, ForgetGuard(q) PROVE DrainedIsQuiet'
    BY <2>6 DEF ForgetGuard
  <2> QED BY <1>1, <2>1, <2>2, <2>3, <2>4, <2>5, <2>6 DEF CloserStep
<1>2. CASE TicketStep
  <2> UNCHANGED guard
    BY <1>2, OthersKeepGuards
  <2>1. ASSUME lifecycle.mode = "Open" PROVE DrainedIsQuiet'
    BY <2>1 DEF GuardsInForce, Live
  <2>2. ASSUME NEW o \in Ops, NEW q \in Closers, BeginAsQuiescer(o, q) PROVE DrainedIsQuiet'
    BY <2>2 DEF BeginAsQuiescer, TakeTicket
  <2>3. ASSUME NEW o \in Ops, DropTicket(o) PROVE DrainedIsQuiet'
    BY <2>3 DEF DropTicket
  <2> QED BY <1>2, <2>1, <2>2, <2>3 DEF TicketStep, Begin, BeginAdoption
<1>3. CASE UNCHANGED <<guard, ticket>>
  BY <1>3
<1> QED BY <1>1, <1>2, <1>3, OthersKeepGuards, OthersKeepTickets DEF TableNext

\* A closer that was told the table drained runs alone with its own arms until its
\* guard is gone (host_table.rs:285-333).
THEOREM DrainedIsAlwaysQuiet == TableSpec => []DrainedIsQuiet
<1>1. TableInit => DrainedIsQuiet
  BY DEF TableInit, DrainedIsQuiet
<1>2. TypeOK /\ GuardsInForce /\ DrainedIsQuiet /\ [TableNext]_tableVars => DrainedIsQuiet'
  BY QuietPreserved
<1> QED BY <1>1, <1>2, TableTypeCorrect, GuardsAlwaysInForce, PTL DEF TableSpec

\* Whoever else retires, arms, exits or is refused meanwhile, a table that an
\* offload or an update closed has the one who reopens it: a guard, or a call about
\* to return one (host_table.rs:237-239). The only way to lose it is the wait of
\* that very call being dropped; without this exception TLC refutes it (README,
\* What the comments say).
THEOREM ClosedAlwaysOwned == TableSpec => []ClosedIsOwned
<1>1. TableInit => ClosedIsOwned
  BY DEF TableInit, NoHold, ClosedIsOwned
<1>2. TypeOK /\ ClosedIsOwned /\ [TableNext]_tableVars => ClosedIsOwned'
  <2> SUFFICES ASSUME TypeOK, ClosedIsOwned, [TableNext]_tableVars
               PROVE ClosedIsOwned'
    OBVIOUS
  <2> USE DEF TypeOK, QuiesceGuard, ClosedIsOwned
  <2>1. CASE CloserStep
    <3>1. ASSUME NEW q \in Closers, NEW r \in Reasons, Quiesce(q, r) PROVE ClosedIsOwned'
      BY <3>1 DEF Quiesce
    <3>2. ASSUME NEW q \in Closers, NEW b \in BOOLEAN, EndWait(q, b) PROVE ClosedIsOwned'
      BY <3>2 DEF EndWait
    <3>3. ASSUME NEW q \in Closers, QuiesceCancelled(q) PROVE ClosedIsOwned'
      BY <3>3 DEF QuiesceCancelled
    <3>4. ASSUME NEW q \in Closers, DropGuard(q) PROVE ClosedIsOwned'
      BY <3>4 DEF DropGuard, NoHold
    <3>5. ASSUME NEW q \in Closers, ForgetGuard(q) PROVE ClosedIsOwned'
      BY <3>5 DEF ForgetGuard
    <3> QED BY <2>1, <3>1, <3>2, <3>3, <3>4, <3>5
               DEF CloserStep, QuiesceDrained, QuiesceTimeout
  <2>2. CASE UNCHANGED <<lifecycle, guard>>
    BY <2>2
  <2> QED BY <2>1, <2>2, OthersKeepGuards DEF TableNext
<1> QED BY <1>1, <1>2, TableTypeCorrect, PTL DEF TableSpec

-----------------------------------------------------------------------------
(* Retirement                                                                *)

Retiring == ClosedHostIdle /\ DrainingIsOwned

LEMMA RetiringPreserved ==
  ASSUME TypeOK, Retiring, [TableNext]_tableVars
  PROVE Retiring'
<1> USE HostTableAssumption DEF TypeOK, HostSlot, Retiring, ClosedHostIdle, DrainingIsOwned, OnHost
<1>1. CASE TicketStep
  <2> UNCHANGED <<slot, drain>>
    BY <1>1, OthersKeepSlots
  <2>1. ASSUME NEW o \in Ops, NEW c \in Channels, Begin(o, c) PROVE ClosedHostIdle'
    BY <2>1 DEF Begin, TakeTicket
  <2>2. ASSUME NEW o \in Ops, NEW target \in {Adopting, Arming}, TakeTicket(o, target)
        PROVE ClosedHostIdle'
    BY <2>2 DEF TakeTicket
  <2>3. ASSUME NEW o \in Ops, DropTicket(o) PROVE ClosedHostIdle'
    BY <2>3 DEF DropTicket
  <2> QED BY <1>1, <2>1, <2>2, <2>3 DEF TicketStep, BeginAdoption, BeginAsQuiescer
<1>2. CASE ConnStep
  <2> UNCHANGED <<ticket, drain>>
    BY <1>2 DEF ConnStep, ReserveEpoch, EndConn, Publish
  <2>1. ASSUME NEW k \in Conns, NEW c \in Channels, Publish(k, c) PROVE Retiring'
    BY <2>1 DEF Publish, Publishable
  <2>2. ASSUME UNCHANGED slot PROVE Retiring'
    BY <2>2
  <2> QED BY <1>2, <2>1, <2>2 DEF ConnStep, ReserveEpoch, EndConn
<1>3. CASE DrainStep
  <2> UNCHANGED ticket
    BY <1>3, OthersKeepTickets
  <2>1. ASSUME NEW d \in Drainers, NEW a \in {"Open", "Retired"}, EndDrain(d, a)
        PROVE Retiring'
    <3> DEFINE c == drain[d].channel
    <3>1. /\ c \in Channels
          /\ slot[c].admission = "Draining" /\ slot[c].epoch = drain[d].epoch
          /\ slot' = [slot EXCEPT ![c].admission = a]
          /\ drain' = [drain EXCEPT ![d] = NoDrain]
      BY <2>1 DEF EndDrain
    <3>2. ClosedHostIdle'
      BY <3>1
    <3>3. DrainingIsOwned'
      BY <3>1
    <3> QED BY <3>2, <3>3
  <2>2. ASSUME NEW d \in Drainers, NEW c \in Channels, DrainHost(d, c) PROVE Retiring'
    <3>1. /\ slot' = [slot EXCEPT ![c].admission = "Draining"]
          /\ drain' = [drain EXCEPT ![d] = [channel |-> c, epoch |-> slot[c].epoch]]
          /\ slot[c].admission = "Open" /\ OnHost(c) = {} /\ drain[d].channel = None
      BY <2>2 DEF DrainHost
    <3>2. ClosedHostIdle'
      BY <3>1
    <3>3. DrainingIsOwned'
      BY <3>1
    <3> QED BY <3>2, <3>3
  <2> QED BY <1>3, <2>1, <2>2 DEF DrainStep, Retire, RetireWhenOpen, DropDrain
<1>4. CASE TickerStep
  <2> UNCHANGED <<ticket, drain>>
    BY <1>4 DEF TickerStep, DropTicker, StartTicker
  <2>1. \A c \in Channels : /\ slot'[c].admission = slot[c].admission
                            /\ slot'[c].epoch = slot[c].epoch
    <3>1. ASSUME NEW t \in Tickers, DropTicker(t), NEW c \in Channels
          PROVE slot'[c].admission = slot[c].admission /\ slot'[c].epoch = slot[c].epoch
      BY <3>1 DEF DropTicker
    <3>2. ASSUME NEW t \in Tickers, NEW b \in Channels, StartTicker(t, b), NEW c \in Channels
          PROVE slot'[c].admission = slot[c].admission /\ slot'[c].epoch = slot[c].epoch
      BY <3>2 DEF StartTicker
    <3> QED BY <1>4, <3>1, <3>2 DEF TickerStep
  <2> QED BY <2>1
<1>5. CASE CloserStep \/ UNCHANGED tableVars
  BY <1>5, OthersKeepTickets, OthersKeepSlots
<1> QED BY <1>1, <1>2, <1>3, <1>4, <1>5 DEF TableNext

\* No operation runs on a host whose emptiness is being decided, or was
\* (host_table.rs:193-196).
THEOREM ClosedHostAlwaysIdle == TableSpec => []ClosedHostIdle
<1>1. TableInit => Retiring
  BY HostTableAssumption
     DEF TableInit, Retiring, ClosedHostIdle, DrainingIsOwned, OnHost
<1>2. TypeOK /\ Retiring /\ [TableNext]_tableVars => Retiring'
  BY RetiringPreserved
<1>3. Retiring => ClosedHostIdle
  BY DEF Retiring
<1> QED BY <1>1, <1>2, <1>3, TableTypeCorrect, PTL DEF TableSpec

\* A host closed for retirement always has the one drainer that will reopen it or
\* retire it, and that drainer's guard is never inert (host_table.rs:507-557).
THEOREM DrainingAlwaysOwned == TableSpec => []DrainingIsOwned
<1>1. TableInit => Retiring
  BY HostTableAssumption
     DEF TableInit, Retiring, ClosedHostIdle, DrainingIsOwned, OnHost
<1>2. TypeOK /\ Retiring /\ [TableNext]_tableVars => Retiring'
  BY RetiringPreserved
<1>3. Retiring => DrainingIsOwned
  BY DEF Retiring
<1> QED BY <1>1, <1>2, <1>3, TableTypeCorrect, PTL DEF TableSpec

-----------------------------------------------------------------------------
(* Epochs                                                                    *)

LEMMA FreshPreserved ==
  ASSUME TypeOK, EpochsFresh, [TableNext]_tableVars
  PROVE EpochsFresh'
<1> USE HostTableAssumption DEF TypeOK, HostSlot, EpochsFresh
<1>1. CASE ConnStep
  <2>1. ASSUME NEW k \in Conns, ReserveEpoch(k) PROVE EpochsFresh'
    BY <2>1 DEF ReserveEpoch
  <2>2. ASSUME NEW k \in Conns, EndConn(k) PROVE EpochsFresh'
    BY <2>2 DEF EndConn
  <2>3. ASSUME NEW k \in Conns, NEW c \in Channels, Publish(k, c) PROVE EpochsFresh'
    BY <2>3 DEF Publish
  <2> QED BY <1>1, <2>1, <2>2, <2>3 DEF ConnStep
<1>2. CASE DrainStep \/ TickerStep
  <2> UNCHANGED <<conn, nextEpoch>>
    BY <1>2 DEF DrainStep, Retire, RetireWhenOpen, DropDrain, EndDrain, DrainHost, TickerStep,
                DropTicker, StartTicker
  <2>1. ASSUME NEW d \in Drainers, NEW a \in {"Open", "Retired"}, EndDrain(d, a)
        PROVE EpochsFresh'
    BY <2>1 DEF EndDrain
  <2>2. ASSUME NEW d \in Drainers, NEW c \in Channels, DrainHost(d, c) PROVE EpochsFresh'
    BY <2>2 DEF DrainHost
  <2>3. ASSUME NEW t \in Tickers, DropTicker(t) PROVE EpochsFresh'
    BY <2>3 DEF DropTicker
  <2>4. ASSUME NEW t \in Tickers, NEW c \in Channels, StartTicker(t, c) PROVE EpochsFresh'
    BY <2>4 DEF StartTicker
  <2> QED BY <1>2, <2>1, <2>2, <2>3, <2>4
             DEF DrainStep, Retire, RetireWhenOpen, DropDrain, TickerStep
<1>3. CASE TicketStep \/ CloserStep \/ UNCHANGED tableVars
  BY <1>3, OthersKeepSlots
<1> QED BY <1>1, <1>2, <1>3 DEF TableNext

LEMMA EpochsAlwaysFresh == TableSpec => []EpochsFresh
<1>1. TableInit => EpochsFresh
  BY DEF TableInit, EpochsFresh
<1>2. TypeOK /\ EpochsFresh /\ [TableNext]_tableVars => EpochsFresh'
  BY FreshPreserved
<1> QED BY <1>1, <1>2, TableTypeCorrect, PTL DEF TableSpec

\* At most one connection of a host may act on it (host_table.rs:215-219).
THEOREM AlwaysOneCurrentConn == TableSpec => []OneCurrentConn
<1>1. EpochsFresh => OneCurrentConn
  BY DEF EpochsFresh, OneCurrentConn, IsCurrent
<1> QED BY <1>1, EpochsAlwaysFresh, PTL

\* An exit, a retirement and a newer connection are final.
THEOREM NeverBack == TableSpec => NoWayBack
<1>1. TypeOK /\ TypeOK' /\ EpochsFresh /\ DrainingIsOwned /\ [TableNext]_tableVars =>
        [ /\ lifecycle.mode = "Exiting" => lifecycle'.mode = "Exiting"
          /\ \A c \in Channels :
               /\ slot[c].admission = "Retired" => slot'[c].admission = "Retired"
               /\ slot[c].epoch <= slot'[c].epoch ]_tableVars
  <2> SUFFICES ASSUME TypeOK, TypeOK', EpochsFresh, DrainingIsOwned, TableNext
               PROVE /\ lifecycle.mode = "Exiting" => lifecycle'.mode = "Exiting"
                     /\ \A c \in Channels :
                          /\ slot[c].admission = "Retired" => slot'[c].admission = "Retired"
                          /\ slot[c].epoch <= slot'[c].epoch
    OBVIOUS
  <2>1. lifecycle.mode = "Exiting" => lifecycle'.mode = "Exiting"
    BY ExitingStays
  <2>2. ASSUME NEW c \in Channels
        PROVE /\ slot[c].admission = "Retired" => slot'[c].admission = "Retired"
              /\ slot[c].epoch <= slot'[c].epoch
    <3> USE HostTableAssumption DEF TypeOK, HostSlot
    <3> slot[c].epoch \in Nat
      OBVIOUS
    <3>1. ASSUME NEW k \in Conns, NEW b \in Channels, Publish(k, b)
          PROVE /\ slot[c].admission = "Retired" => slot'[c].admission = "Retired"
                /\ slot[c].epoch <= slot'[c].epoch
      BY <3>1 DEF Publish, Publishable, EpochsFresh
    <3>2. ASSUME NEW d \in Drainers, NEW a \in {"Open", "Retired"}, EndDrain(d, a)
          PROVE /\ slot[c].admission = "Retired" => slot'[c].admission = "Retired"
                /\ slot[c].epoch <= slot'[c].epoch
      BY <3>2 DEF EndDrain
    <3>3. ASSUME NEW d \in Drainers, NEW b \in Channels, DrainHost(d, b)
          PROVE /\ slot[c].admission = "Retired" => slot'[c].admission = "Retired"
                /\ slot[c].epoch <= slot'[c].epoch
      BY <3>3 DEF DrainHost
    <3>4. ASSUME TickerStep
          PROVE slot'[c].admission = slot[c].admission /\ slot'[c].epoch = slot[c].epoch
      BY <3>4 DEF TickerStep, DropTicker, StartTicker
    <3>5. ASSUME ConnStep, ~ \E k \in Conns, b \in Channels : Publish(k, b)
          PROVE UNCHANGED slot
      BY <3>5 DEF ConnStep, ReserveEpoch, EndConn
    <3> QED BY <3>1, <3>2, <3>3, <3>4, <3>5, OthersKeepSlots
               DEF TableNext, DrainStep, Retire, RetireWhenOpen, DropDrain
  <2> QED BY <2>1, <2>2
<1> QED BY <1>1, TableTypeCorrect, EpochsAlwaysFresh, DrainingAlwaysOwned, PTL
           DEF TableSpec, NoWayBack

-----------------------------------------------------------------------------
(* Tickers                                                                   *)

LEMMA TickerPreserved ==
  ASSUME TypeOK, OneTicker, [TableNext]_tableVars
  PROVE OneTicker'
<1> USE HostTableAssumption DEF TypeOK, HostSlot, OneTicker
<1>1. CASE TickerStep
  <2>1. ASSUME NEW t \in Tickers, NEW c \in Channels, StartTicker(t, c) PROVE OneTicker'
    BY <2>1 DEF StartTicker
  <2>2. ASSUME NEW t \in Tickers, DropTicker(t) PROVE OneTicker'
    BY <2>2 DEF DropTicker
  <2> QED BY <1>1, <2>1, <2>2 DEF TickerStep
<1>2. CASE ConnStep \/ DrainStep
  <2> UNCHANGED handle
    BY <1>2 DEF ConnStep, ReserveEpoch, EndConn, Publish, DrainStep, Retire, RetireWhenOpen,
                DropDrain, EndDrain, DrainHost
  <2>1. \A c \in Channels : slot'[c].ticker = slot[c].ticker
    <3>1. ASSUME NEW k \in Conns, NEW b \in Channels, Publish(k, b), NEW c \in Channels
          PROVE slot'[c].ticker = slot[c].ticker
      BY <3>1 DEF Publish
    <3>2. ASSUME NEW d \in Drainers, NEW a \in {"Open", "Retired"}, EndDrain(d, a), NEW c \in Channels
          PROVE slot'[c].ticker = slot[c].ticker
      BY <3>2 DEF EndDrain
    <3>3. ASSUME NEW d \in Drainers, NEW b \in Channels, DrainHost(d, b), NEW c \in Channels
          PROVE slot'[c].ticker = slot[c].ticker
      BY <3>3 DEF DrainHost
    <3>4. ASSUME UNCHANGED slot, NEW c \in Channels PROVE slot'[c].ticker = slot[c].ticker
      BY <3>4
    <3> QED BY <1>2, <3>1, <3>2, <3>3, <3>4
               DEF ConnStep, ReserveEpoch, EndConn, DrainStep, Retire, RetireWhenOpen, DropDrain
  <2> QED BY <2>1
<1>3. CASE TicketStep \/ CloserStep \/ UNCHANGED tableVars
  BY <1>3, OthersKeepSlots
<1> QED BY <1>1, <1>2, <1>3 DEF TableNext

\* A ticker has its host's place exactly as long as it runs, so no host has two and a
\* place is never left taken (host_table.rs:351-363, 496-505).
THEOREM AlwaysOneTicker == TableSpec => []OneTicker
<1>1. TableInit => OneTicker
  BY HostTableAssumption DEF TableInit, OneTicker
<1>2. TypeOK /\ OneTicker /\ [TableNext]_tableVars => OneTicker'
  BY TickerPreserved
<1> QED BY <1>1, <1>2, TableTypeCorrect, PTL DEF TableSpec

\* The two invariants the run checks: who has closed the table holds it alone
\* (host_table.rs:285-333, 460-494), and each host has one connection, ticker and
\* drainer (host_table.rs:181-219, 334-363).
THEOREM HoldAlwaysOwned == TableSpec => []HoldOwned
<1>1. GuardsInForce /\ OneHold /\ ClosedIsOwned /\ DrainedIsQuiet => HoldOwned
  BY DEF HoldOwned
<1> QED BY <1>1, GuardsAlwaysInForce, AlwaysOneHold, ClosedAlwaysOwned, DrainedIsAlwaysQuiet, PTL

\* The second of the two: connection, drainer and ticker of each host.
THEOREM HostAlwaysOwned == TableSpec => []HostOwned
<1>1. ClosedHostIdle /\ DrainingIsOwned /\ OneCurrentConn /\ OneTicker => HostOwned
  BY DEF HostOwned
<1> QED BY <1>1, ClosedHostAlwaysIdle, DrainingAlwaysOwned, AlwaysOneCurrentConn, AlwaysOneTicker, PTL

HIDE DEF NoHold, NoGuard, NoDrain, NoConn, Reasons

Calls == CallTypeOK /\ HoldNamed

-----------------------------------------------------------------------------
(* The callers use the table                                                 *)

\* The actions of a runner that leave the table alone.
AwayFromTable(r) ==
    \/ Rearm(r) \/ HostsRefuse(r) \/ DecideToArm(r) \/ Ask(r) \/ ArmFailed(r)
    \/ ArmAcked(r) \/ AskOthers(r) \/ OthersAnswered(r) \/ GiveUp(r) \/ Keep(r)
    \/ WindowEnds(r) \/ EndKept(r) \/ DisarmAll(r) \/ Release(r) \/ CancelHold(r)

LEMMA AwayKeepsTable ==
  ASSUME NEW r, AwayFromTable(r)
  PROVE UNCHANGED tableVars
BY DEF AwayFromTable, Rearm, EndKept, TakeKept, HostsRefuse, DecideToArm, Ask, ArmFailed,
       ArmAcked, AskOthers, OthersAnswered, GiveUp, Keep, WindowEnds, DisarmAll, Release,
       CancelHold

LEMMA RunnersUseTheTable ==
  ASSUME Calls, NEW r \in Runners, RunnerStep(r)
  PROVE [TableNext]_tableVars
<1> USE HostLifecycleAssumption
<1>1. ASSUME NEW reason \in {"Offload", "Update"}, r \in Closers, StartHold(r, reason)
      PROVE CloserStep
  BY <1>1 DEF StartHold, CloserStep, Reasons
<1>2. CASE StartOwn(r) \/ StartSibling(r)
  BY <1>1, <1>2 DEF StartOwn, StartSibling, TableNext, Own
<1>3. CASE Drained(r) \/ TimedOut(r)
  <2>1. r \in Closers
    BY <1>3 DEF Drained, TimedOut, Goto, Calls, HoldNamed, Working, Pcs
  <2> QED BY <1>3, <2>1 DEF Drained, TimedOut, CloserStep, TableNext
<1>4. CASE CancelQuiesce(r)
  BY <1>4 DEF CancelQuiesce, QuiesceCancelled, CloserStep, TableNext
<1>5. CASE EndHold(r) \/ BeginArm(r) \/ Commit(r)
  <2>1. hold[r] \in Closers
    BY <1>5 DEF EndHold, BeginArm, Commit, Goto, Calls, HoldNamed, Working, Pcs
  <2> QED BY <1>5, <2>1 DEF EndHold, BeginArm, Commit, CloserStep, TicketStep, TableNext
<1>6. CASE RefusedByExit(r) \/ ReturnFailed(r) \/ ReturnArmed(r) \/ CancelArm(r)
  BY <1>6 DEF RefusedByExit, ReturnFailed, ReturnArmed, CancelArm, EndArm, TicketStep, TableNext
<1>7. CASE AwayFromTable(r)
  BY <1>7, AwayKeepsTable
<1> QED BY <1>2, <1>3, <1>4, <1>5, <1>6, <1>7 DEF RunnerStep, AwayFromTable

LEMMA CallersUseTheTable ==
  ASSUME Calls, [Next]_vars
  PROVE [TableNext]_tableVars
<1> USE HostLifecycleAssumption
<1>1. CASE \E r \in Runners : RunnerStep(r)
  BY <1>1, RunnersUseTheTable
<1>2. CASE \E a \in Adopters : AdoptionStep(a)
  BY <1>2 DEF AdoptionStep, StartAdoption, Settle, EndAdoption, TicketStep, TableNext
<1>3. CASE ExitStep
  BY <1>3 DEF ExitStep, StartExit, ExitDrained, ExitTimesOut, ExitEnds, ExitDisarms, ExitTells,
              ExitCloses, CloserStep, TableNext, Reasons
<1>4. CASE UNCHANGED vars
  BY <1>4 DEF vars
<1> QED BY <1>1, <1>2, <1>3, <1>4 DEF Next

-----------------------------------------------------------------------------
(* The callers' own state                                                    *)

LEMMA CallsPreserved ==
  ASSUME Calls, [Next]_vars
  PROVE Calls'
<1> USE HostLifecycleAssumption DEF Calls, CallTypeOK, HoldNamed
<1>1. ASSUME NEW r \in Runners, RunnerStep(r) PROVE Calls'
  <2> USE DEF Working, Pcs, Goto, hostVars, NotKept, Arm, Disarm
  <2>1. CASE StartOwn(r) \/ StartSibling(r)
    BY <2>1 DEF StartOwn, StartSibling, StartHold, Runners
  <2>2. CASE Rearm(r) \/ EndKept(r)
    BY <2>2 DEF Rearm, EndKept, TakeKept
  <2>3. CASE Drained(r) \/ TimedOut(r) \/ HostsRefuse(r) \/ BeginArm(r) \/ RefusedByExit(r)
    BY <2>3 DEF Drained, TimedOut, HostsRefuse, BeginArm, RefusedByExit, EndArm
  <2>4. CASE EndHold(r) \/ CancelQuiesce(r)
    BY <2>4 DEF EndHold, CancelQuiesce
  <2>5. CASE DecideToArm(r)
    BY <2>5 DEF DecideToArm
  <2>6. CASE Ask(r) \/ ArmFailed(r) \/ ArmAcked(r) \/ AskOthers(r)
    BY <2>6 DEF Ask, ArmFailed, ArmAcked, AskOthers, Required, Tolerated
  <2>7. CASE OthersAnswered(r)
    BY <2>7 DEF OthersAnswered
  <2>8. CASE ReturnFailed(r) \/ ReturnArmed(r) \/ CancelArm(r)
    BY <2>8 DEF ReturnFailed, ReturnArmed, CancelArm, EndArm
  <2>9. CASE Commit(r) \/ GiveUp(r) \/ CancelHold(r)
    BY <2>9 DEF Commit, GiveUp, CancelHold
  <2>10. CASE Keep(r)
    BY <2>10 DEF Keep
  <2>11. CASE WindowEnds(r)
    BY <2>11 DEF WindowEnds, ExpiresArm
  <2>12. CASE DisarmAll(r)
    BY <2>12 DEF DisarmAll
  <2>13. CASE Release(r)
    BY <2>13 DEF Release, DisarmHold
  <2> QED BY <1>1, <2>1, <2>2, <2>3, <2>4, <2>5, <2>6, <2>7, <2>8, <2>9, <2>10, <2>11,
             <2>12, <2>13 DEF RunnerStep
<1>2. ASSUME NEW a \in Adopters, AdoptionStep(a) PROVE Calls'
  BY <1>2 DEF AdoptionStep, StartAdoption, Settle, EndAdoption, callVars, hostVars, Disarm
<1>3. CASE ExitStep
  BY <1>3 DEF ExitStep, StartExit, ExitDrained, ExitTimesOut, ExitEnds, ExitDisarms, ExitTells,
              ExitCloses, MayShutDown, callVars, hostVars, Disarm
<1>4. CASE UNCHANGED vars
  BY <1>4 DEF vars, callVars, hostVars
<1> QED BY <1>1, <1>2, <1>3, <1>4 DEF Next

LEMMA CallsAlways == Spec => []Calls
<1>1. Init => Calls
  BY HostLifecycleAssumption
     DEF Init, Calls, CallTypeOK, HoldNamed, NotKept, Pcs, Working
<1>2. Calls /\ [Next]_vars => Calls'
  BY CallsPreserved
<1> QED BY <1>1, <1>2, PTL DEF Spec

\* The program uses the admission table only as the table's specification allows:
\* what holds of the table under any caller holds of the callers there are
\* (host_lifecycle.rs and host_adoption.rs over host_table.rs).
THEOREM UsesTheTable == Spec => TableSpec
<1>1. Init => TableInit
  BY DEF Init
<1>2. Calls /\ [Next]_vars => [TableNext]_tableVars
  BY CallersUseTheTable
<1> QED BY <1>1, <1>2, CallsAlways, PTL DEF Spec, TableSpec

\* Every variable of the table and of its callers keeps its type.
THEOREM LifecycleTypeCorrect == Spec => []LifecycleTypeOK
<1>1. TypeOK /\ Calls => LifecycleTypeOK
  BY DEF Calls, LifecycleTypeOK
<1> QED BY <1>1, UsesTheTable, TableTypeCorrect, CallsAlways, PTL

-----------------------------------------------------------------------------
(* Exit and the arms                                                         *)

LEMMA TicketedPreserved ==
  ASSUME TypeOK, Calls, ArmTicketed, [Next]_vars
  PROVE ArmTicketed'
<1> USE HostLifecycleAssumption, HostTableAssumption DEF ArmTicketed
<1>t. ticket \in [Ops -> Channels \cup {None, Adopting, Arming}] /\ Runners \subseteq Ops
  BY DEF TypeOK
<1>p. pc \in [Runners -> Pcs]
  BY DEF Calls, CallTypeOK
<1>1. ASSUME NEW r \in Runners, RunnerStep(r) PROVE ArmTicketed'
  <2> USE <1>t, <1>p DEF Goto
  <2>1. CASE StartOwn(r) \/ StartSibling(r)
    BY <2>1 DEF StartOwn, StartSibling, StartHold, Quiesce
  <2>2. CASE Drained(r) \/ TimedOut(r)
    BY <2>2 DEF Drained, TimedOut, QuiesceDrained, QuiesceTimeout, EndWait
  <2>3. CASE EndHold(r) \/ CancelQuiesce(r) \/ Commit(r)
    BY <2>3 DEF EndHold, CancelQuiesce, Commit, DropGuard, QuiesceCancelled, ForgetGuard
  <2>4. CASE BeginArm(r)
    BY <2>4 DEF BeginArm, BeginAsQuiescer, TakeTicket
  <2>5. CASE RefusedByExit(r) \/ ReturnFailed(r) \/ ReturnArmed(r) \/ CancelArm(r)
    BY <2>5 DEF RefusedByExit, ReturnFailed, ReturnArmed, CancelArm, EndArm, DropTicket
  <2>6. CASE DecideToArm(r) \/ Ask(r) \/ ArmFailed(r) \/ ArmAcked(r) \/ AskOthers(r)
    BY <2>6 DEF DecideToArm, Ask, ArmFailed, ArmAcked, AskOthers, tableVars
  <2>7. CASE OthersAnswered(r)
    BY <2>7 DEF OthersAnswered, tableVars
  <2>8. CASE AwayFromTable(r) /\ pc'[r] \notin {"begun", "ask", "wait", "askOthers",
                                               "waitOthers", "undone", "armed"}
             /\ \A p \in Runners \ {r} : pc'[p] = pc[p]
    BY <2>8, AwayKeepsTable DEF tableVars
  <2>9. CASE Rearm(r) \/ EndKept(r) \/ HostsRefuse(r) \/ GiveUp(r) \/ Keep(r)
             \/ WindowEnds(r) \/ DisarmAll(r) \/ Release(r) \/ CancelHold(r)
    BY <2>8, <2>9 DEF AwayFromTable, Rearm, EndKept, TakeKept, HostsRefuse, GiveUp, Keep,
                      WindowEnds, DisarmAll, Release, CancelHold
  <2> QED BY <1>1, <2>1, <2>2, <2>3, <2>4, <2>5, <2>6, <2>7, <2>9 DEF RunnerStep
<1>2. ASSUME NEW a \in Adopters, AdoptionStep(a) PROVE ArmTicketed'
  BY <1>2, <1>t, <1>p DEF AdoptionStep, StartAdoption, Settle, EndAdoption, BeginAdoption,
                          TakeTicket, DropTicket, callVars, tableVars
<1>3. CASE ExitStep \/ UNCHANGED vars
  BY <1>3 DEF ExitStep, StartExit, ExitDrained, ExitTimesOut, ExitEnds, ExitDisarms, ExitTells,
              ExitCloses, callVars, vars, tableVars, Quiesce, QuiesceDrained, QuiesceTimeout,
              EndWait, DropGuard
<1> QED BY <1>1, <1>2, <1>3 DEF Next

\* What exit does with its own guard, and what the others leave alone of it.
LEMMA ExitGuard ==
  ASSUME TypeOK, Calls, [Next]_vars, guard'[Exit].at # "none", guard'[Exit].at # guard[Exit].at
  PROVE \/ StartExit \/ ExitDrained \/ ExitTimesOut
        \/ guard[Exit].at = "held" /\ guard'[Exit].at = "forgotten"
<1> USE HostLifecycleAssumption
<1>g. guard \in [Closers -> QuiesceGuard]
  BY DEF TypeOK
<1>1. ASSUME NEW r \in Runners, RunnerStep(r)
      PROVE guard[Exit].at = "held" /\ guard'[Exit].at = "forgotten"
  <2> r # Exit
    OBVIOUS
  <2>1. CASE StartOwn(r) \/ StartSibling(r) \/ Drained(r) \/ TimedOut(r) \/ CancelQuiesce(r)
    BY <1>g, <2>1 DEF StartOwn, StartSibling, StartHold, Quiesce, Drained, QuiesceDrained, TimedOut,
                QuiesceTimeout, EndWait, CancelQuiesce, QuiesceCancelled
  <2>2. CASE EndHold(r)
    BY <1>g, <2>2 DEF EndHold, DropGuard, NoGuard
  <2>3. CASE Commit(r)
    BY <1>g, <2>3 DEF Commit, ForgetGuard
  <2>4. CASE BeginArm(r) \/ RefusedByExit(r) \/ ReturnFailed(r) \/ ReturnArmed(r) \/ CancelArm(r)
    BY <2>4 DEF BeginArm, BeginAsQuiescer, TakeTicket, RefusedByExit, ReturnFailed, ReturnArmed,
                CancelArm, EndArm, DropTicket
  <2>5. CASE AwayFromTable(r)
    BY <2>5, AwayKeepsTable DEF tableVars
  <2> QED BY <1>1, <2>1, <2>2, <2>3, <2>4, <2>5 DEF RunnerStep, AwayFromTable
<1>2. ASSUME NEW a \in Adopters, AdoptionStep(a) PROVE FALSE
  BY <1>2 DEF AdoptionStep, StartAdoption, Settle, EndAdoption, BeginAdoption, TakeTicket,
              DropTicket, tableVars
<1>3. ASSUME ExitStep PROVE StartExit \/ ExitDrained \/ ExitTimesOut
  <2>1. ~ ExitEnds
    BY <1>g DEF ExitEnds, DropGuard, NoGuard
  <2>2. ~ \E h \in Hosts : ExitDisarms(h) \/ ExitTells(h) \/ ExitCloses(h)
    BY DEF ExitDisarms, ExitTells, ExitCloses, tableVars
  <2> QED BY <1>3, <2>1, <2>2 DEF ExitStep
<1>4. CASE UNCHANGED vars
  BY <1>4 DEF vars, tableVars
<1> QED BY <1>1, <1>2, <1>3, <1>4 DEF Next

\* A runner that is about to arm came there before an exit was in force.
LEMMA NewArms ==
  ASSUME Calls, [Next]_vars,
         NEW r \in Runners, pc'[r] \in {"ask", "askOthers"}, pc[r] \notin {"ask", "askOthers"}
  PROVE ~ Exiting /\ UNCHANGED <<lifecycle, guard, disarmed>>
<1> USE HostLifecycleAssumption
<1>p. pc \in [Runners -> Pcs]
  BY DEF Calls, CallTypeOK
<1>1. ASSUME NEW p \in Runners, RunnerStep(p)
      PROVE ~ Exiting /\ UNCHANGED <<lifecycle, guard, disarmed>>
  <2> USE <1>p DEF Goto
  <2>1. CASE DecideToArm(p) \/ ArmAcked(p)
    BY <2>1 DEF DecideToArm, ArmAcked, MayArm, tableVars, hostVars
  <2>2. CASE StartOwn(p) \/ StartSibling(p) \/ Rearm(p) \/ EndKept(p) \/ Drained(p)
               \/ TimedOut(p) \/ HostsRefuse(p) \/ EndHold(p) \/ BeginArm(p)
    BY <2>2 DEF StartOwn, StartSibling, StartHold, Rearm, EndKept, TakeKept, Drained, TimedOut,
                HostsRefuse, EndHold, BeginArm
  <2>3. CASE RefusedByExit(p) \/ ReturnFailed(p) \/ ReturnArmed(p) \/ CancelArm(p)
    BY <2>3 DEF RefusedByExit, ReturnFailed, ReturnArmed, CancelArm, EndArm
  <2>4. CASE Ask(p) \/ ArmFailed(p) \/ AskOthers(p) \/ OthersAnswered(p)
    BY <2>4 DEF Ask, ArmFailed, AskOthers, OthersAnswered
  <2>5. CASE Commit(p) \/ GiveUp(p) \/ Keep(p) \/ WindowEnds(p) \/ DisarmAll(p) \/ Release(p)
               \/ CancelQuiesce(p) \/ CancelHold(p)
    BY <2>5 DEF Commit, GiveUp, Keep, WindowEnds, DisarmAll, Release, CancelQuiesce, CancelHold
  <2> QED BY <1>1, <2>1, <2>2, <2>3, <2>4, <2>5 DEF RunnerStep
<1>2. ASSUME \/ \E a \in Adopters : AdoptionStep(a)
             \/ ExitStep \/ UNCHANGED vars
      PROVE UNCHANGED pc
  BY <1>2 DEF AdoptionStep, StartAdoption, Settle, EndAdoption, ExitStep, StartExit, ExitDrained,
              ExitTimesOut, ExitEnds, ExitDisarms, ExitTells, ExitCloses, callVars, vars
<1> QED BY <1>1, <1>2 DEF Next

\* What a step does to the hosts: exit tells and disconnects only hosts it has
\* disarmed, and nobody but a runner about to arm a host arms one.
LEMMA HostSteps ==
  ASSUME [Next]_vars
  PROVE /\ told' \subseteq told \cup disarmed
        /\ closed' \subseteq closed \cup disarmed
        /\ disarmed \subseteq disarmed'
        /\ disarmed' # disarmed => guard[Exit].at = "held" /\ UNCHANGED <<guard, lifecycle>>
        /\ \/ disarmed' = disarmed
           \/ \E h \in Hosts : /\ disarmed' = disarmed \cup {h}
                              /\ armed' = armed \ ({h} \ closed)
        /\ ~ armed' \subseteq armed => \E r \in Runners : pc[r] \in {"ask", "askOthers"}
<1> USE HostLifecycleAssumption
<1> DEFINE Kept == UNCHANGED <<told, closed, disarmed>>
<1>1. ASSUME NEW r \in Runners, RunnerStep(r)
      PROVE Kept /\ (~ armed' \subseteq armed => pc[r] \in {"ask", "askOthers"})
  <2> USE DEF hostVars, Disarm, Goto
  <2>1. CASE Ask(r) \/ AskOthers(r)
    BY <2>1 DEF Ask, AskOthers
  <2>2. CASE StartOwn(r) \/ StartSibling(r) \/ Rearm(r) \/ EndKept(r) \/ Drained(r)
               \/ TimedOut(r) \/ HostsRefuse(r) \/ EndHold(r) \/ BeginArm(r)
    BY <2>2 DEF StartOwn, StartSibling, StartHold, Rearm, EndKept, TakeKept, Drained, TimedOut,
                HostsRefuse, EndHold, BeginArm
  <2>3. CASE RefusedByExit(r) \/ ReturnFailed(r) \/ ReturnArmed(r) \/ CancelArm(r)
    BY <2>3 DEF RefusedByExit, ReturnFailed, ReturnArmed, CancelArm, EndArm
  <2>4. CASE DecideToArm(r) \/ ArmFailed(r) \/ ArmAcked(r) \/ OthersAnswered(r)
    BY <2>4 DEF DecideToArm, ArmFailed, ArmAcked, OthersAnswered
  <2>5. CASE Commit(r) \/ GiveUp(r) \/ Keep(r) \/ WindowEnds(r) \/ CancelQuiesce(r) \/ CancelHold(r)
    BY <2>5 DEF Commit, GiveUp, Keep, WindowEnds, CancelQuiesce, CancelHold
  <2>6. CASE DisarmAll(r) \/ Release(r)
    BY <2>6 DEF DisarmAll, Release, DisarmHold
  <2> QED BY <1>1, <2>1, <2>2, <2>3, <2>4, <2>5, <2>6 DEF RunnerStep
<1>2. ASSUME NEW a \in Adopters, AdoptionStep(a) PROVE Kept /\ armed' \subseteq armed
  BY <1>2 DEF AdoptionStep, StartAdoption, Settle, EndAdoption, hostVars, Disarm
<1>3. CASE StartExit \/ ExitDrained \/ ExitTimesOut \/ ExitEnds \/ UNCHANGED vars
  BY <1>3 DEF StartExit, ExitDrained, ExitTimesOut, ExitEnds, vars, hostVars
<1>4. ASSUME NEW h \in Hosts, ExitDisarms(h) \/ ExitTells(h) \/ ExitCloses(h)
      PROVE /\ told' \subseteq told \cup disarmed
            /\ closed' \subseteq closed \cup disarmed
            /\ disarmed \subseteq disarmed'
            /\ disarmed' # disarmed => guard[Exit].at = "held" /\ UNCHANGED <<guard, lifecycle>>
            /\ \/ disarmed' = disarmed
               \/ disarmed' = disarmed \cup {h} /\ armed' = armed \ ({h} \ closed)
            /\ armed' \subseteq armed
  BY <1>4 DEF ExitDisarms, ExitTells, ExitCloses, MayShutDown, Disarm, tableVars
<1> QED BY <1>1, <1>2, <1>3, <1>4 DEF Next, ExitStep

ExitSafe == ArmTicketed /\ ExitAlone /\ DisarmedFirst

LEMMA ExitSafePreserved ==
  ASSUME TypeOK, Calls, Calls', ExitSafe, [Next]_vars
  PROVE ExitSafe'
<1> USE HostLifecycleAssumption DEF ExitSafe
<1>1. ArmTicketed'
  BY TicketedPreserved
<1>2. Exiting => Exiting'
  BY CallersUseTheTable, ExitingStays DEF Exiting
<1>3. ((guard[Exit].at # "none" \/ disarmed # {}) => Exiting)'
  <2>1. CASE disarmed' # disarmed \/ guard'[Exit].at = guard[Exit].at
    BY <1>2, <2>1, HostSteps DEF ExitAlone
  <2>2. CASE guard'[Exit].at # "none" /\ guard'[Exit].at # guard[Exit].at
    <3>1. StartExit => Exiting'
      BY DEF StartExit, Quiesce, Exiting
    <3>2. ExitDrained \/ ExitTimesOut => guard[Exit].at = "waiting"
      BY DEF ExitDrained, ExitTimesOut, QuiesceDrained, QuiesceTimeout, EndWait
    <3> QED BY <1>2, <2>2, <3>1, <3>2, ExitGuard DEF ExitAlone
  <2>3. CASE guard'[Exit].at = "none" /\ disarmed' = disarmed
    BY <1>2, <2>3 DEF ExitAlone
  <2> QED BY <2>1, <2>2, <2>3
<1>4. ((guard[Exit].at = "held" \/ disarmed # {}) =>
          \A r \in Runners : pc[r] \notin {"ask", "askOthers"})'
  <2> SUFFICES ASSUME guard'[Exit].at = "held" \/ disarmed' # {},
                      NEW r \in Runners, pc'[r] \in {"ask", "askOthers"}
               PROVE FALSE
    OBVIOUS
  <2>1. CASE pc[r] \notin {"ask", "askOthers"}
    BY <2>1, NewArms DEF ExitAlone
  <2>2. CASE pc[r] \in {"ask", "askOthers"}
    <3>1. guard[Exit].at # "held" /\ disarmed = {}
      BY <2>2 DEF ExitAlone
    <3>2. disarmed' = {} /\ guard'[Exit].at = "held"
      BY <3>1, HostSteps
    <3>3. ExitDrained \/ ExitTimesOut \/ StartExit
      BY <3>1, <3>2, ExitGuard
    <3>4. ~ StartExit
      BY <3>2 DEF StartExit, Quiesce, TypeOK
    <3>5. ~ ExitTimesOut
      BY <2>2 DEF ExitTimesOut
    <3>6. ~ ExitDrained
      BY <2>2 DEF ExitDrained, QuiesceDrained, InFlight, ArmTicketed
    <3> QED BY <3>3, <3>4, <3>5, <3>6
  <2> QED BY <2>1, <2>2
<1>5. DisarmedFirst'
  <2>1. (told \cup closed)' \subseteq disarmed'
    BY HostSteps DEF DisarmedFirst
  <2>2. disarmed # {} => armed' \subseteq armed
    BY HostSteps DEF ExitAlone
  <2>3. disarmed' \cap armed' = {}
    <3>1. CASE disarmed' = disarmed
      BY <2>2, <3>1 DEF DisarmedFirst
    <3>2. ASSUME NEW h \in Hosts, disarmed' = disarmed \cup {h}, armed' = armed \ ({h} \ closed)
          PROVE disarmed' \cap armed' = {}
      BY <3>2 DEF DisarmedFirst
    <3> QED BY <3>1, <3>2, HostSteps
  <2> QED BY <2>1, <2>3 DEF DisarmedFirst
<1> QED BY <1>1, <1>3, <1>4, <1>5 DEF ExitAlone

\* However an exit takes the table over from an arm, the disarm it sends a host
\* comes after every arm of it, so that its shutdown ends the shells
\* (Hold::arm_detach, host_lifecycle.rs:437-441).
THEOREM ExitAlwaysAfterEveryArm == Spec => []ExitAfterEveryArm
<1>1. Init => ExitSafe
  BY HostLifecycleAssumption
     DEF Init, TableInit, ExitSafe, ArmTicketed, ExitAlone, DisarmedFirst, NoGuard
<1>2. TypeOK /\ Calls /\ Calls' /\ ExitSafe /\ [Next]_vars => ExitSafe'
  BY ExitSafePreserved
<1>3. ExitSafe => ExitAfterEveryArm
  BY DEF ExitSafe, DisarmedFirst, ExitAfterEveryArm
<1> QED BY <1>1, <1>2, <1>3, UsesTheTable, TableTypeCorrect, CallsAlways, PTL DEF Spec

-----------------------------------------------------------------------------
(* The arms and the hold that answers for them                               *)

\* The runners that have a hold, to the end of it or for good.
AtWork == {r \in Runners : pc[r] \in Working \cup {"committed"}}

\* One hold is worked on at a time, by one runner or by the window that keeps it.
Alone ==
    /\ \A r, s \in AtWork : r = s
    /\ kept # NotKept => AtWork = {}

\* Whoever works on a hold has its guard, and that is not exit's.
GuardAt(r) == IF pc[r] = "quiesce" THEN "waiting"
              ELSE IF pc[r] = "committed" THEN "forgotten" ELSE "held"

Guarded ==
    /\ \A q \in Closers \ {Exit} : guard[q].reason # "Exit"
    /\ \A r \in AtWork : hold[r] \in Closers \ {Exit} /\ guard[hold[r]].at = GuardAt(r)
    /\ kept # NotKept => kept.hold # Exit /\ guard[kept.hold].at = "held"

\* Steps that are nobody's work on a hold.
LEMMA Bystanders ==
  ASSUME TypeOK, ExitAlone,
         (\E a \in Adopters : AdoptionStep(a)) \/ ExitStep \/ UNCHANGED vars
  PROVE /\ UNCHANGED callVars
        /\ armed' \subseteq armed
        /\ \A q \in Closers \ {Exit} : guard'[q] = guard[q]
        /\ Exiting' \/ lifecycle' = lifecycle
<1> USE HostLifecycleAssumption
<1>g. guard \in [Closers -> QuiesceGuard]
  BY DEF TypeOK
<1>1. CASE \E a \in Adopters : AdoptionStep(a)
  BY <1>1 DEF AdoptionStep, StartAdoption, Settle, EndAdoption, BeginAdoption, TakeTicket,
              DropTicket, tableVars, hostVars, Disarm
<1>2. CASE StartExit
  BY <1>2, <1>g DEF StartExit, Quiesce, Exiting, hostVars
<1>3. CASE ExitDrained \/ ExitTimesOut
  BY <1>3, <1>g DEF ExitDrained, ExitTimesOut, QuiesceDrained, QuiesceTimeout, EndWait, hostVars
<1>4. CASE ExitEnds
  BY <1>4, <1>g DEF ExitEnds, DropGuard, ExitAlone, Exiting, hostVars
<1>5. CASE \E h \in Hosts : ExitDisarms(h) \/ ExitTells(h) \/ ExitCloses(h)
  BY <1>5 DEF ExitDisarms, ExitTells, ExitCloses, tableVars, Disarm
<1>6. CASE UNCHANGED vars
  BY <1>6 DEF vars, callVars, hostVars, tableVars
<1> QED BY <1>1, <1>2, <1>3, <1>4, <1>5, <1>6 DEF ExitStep

\* A runner that takes the hold that is kept, and one that leaves it alone.
Takes(r) == Rearm(r) \/ EndKept(r) \/ (WindowEnds(r) /\ ExpiresArm(r))
Passes(r) == DisarmAll(r) \/ (WindowEnds(r) /\ ~ ExpiresArm(r))
Begins(r) == StartOwn(r) \/ StartSibling(r)

\* What goes on with the hold of r.
Works(r) ==
    \/ Drained(r) \/ TimedOut(r) \/ HostsRefuse(r) \/ EndHold(r)
    \/ BeginArm(r) \/ RefusedByExit(r) \/ DecideToArm(r) \/ Ask(r)
    \/ ArmFailed(r) \/ ArmAcked(r) \/ AskOthers(r) \/ OthersAnswered(r)
    \/ ReturnFailed(r) \/ ReturnArmed(r)
    \/ Commit(r) \/ GiveUp(r) \/ Release(r)
    \/ CancelQuiesce(r) \/ CancelArm(r) \/ CancelHold(r)

LEMMA KindsOfStep ==
  ASSUME NEW r \in Runners, RunnerStep(r)
  PROVE Begins(r) \/ Takes(r) \/ Passes(r) \/ Keep(r) \/ Works(r)
BY DEF RunnerStep, Begins, Takes, Passes, Works

\* Nobody moves another runner.
LEMMA OthersStay ==
  ASSUME Calls, NEW r \in Runners, RunnerStep(r), NEW s \in Runners \ {r}
  PROVE pc'[s] = pc[s] /\ hold'[s] = hold[s]
<1> USE DEF Calls, CallTypeOK, Goto
<1>1. CASE Begins(r) \/ Takes(r) \/ Passes(r) \/ Keep(r)
  BY <1>1 DEF Begins, StartOwn, StartSibling, StartHold, Takes, Rearm, EndKept, TakeKept, WindowEnds,
              Passes, DisarmAll, Keep
<1>2. CASE Drained(r) \/ TimedOut(r) \/ HostsRefuse(r) \/ EndHold(r) \/ BeginArm(r) \/ RefusedByExit(r)
             \/ ReturnFailed(r) \/ ReturnArmed(r) \/ CancelQuiesce(r) \/ CancelArm(r) \/ CancelHold(r)
  BY <1>2 DEF Drained, TimedOut, HostsRefuse, EndHold, BeginArm, RefusedByExit, ReturnFailed,
              ReturnArmed, CancelQuiesce, CancelArm, CancelHold, EndArm
<1>3. CASE DecideToArm(r) \/ Ask(r) \/ ArmFailed(r) \/ ArmAcked(r) \/ AskOthers(r) \/ OthersAnswered(r)
             \/ Commit(r) \/ GiveUp(r) \/ Release(r)
  BY <1>3 DEF DecideToArm, Ask, ArmFailed, ArmAcked, AskOthers, OthersAnswered, Commit, GiveUp, Release
<1> QED BY <1>1, <1>2, <1>3, KindsOfStep DEF Works

\* Whoever closes the table found nobody at work, for the table was open.
LEMMA BeginsFirst ==
  ASSUME TypeOK, Calls, GuardsInForce, Guarded, NEW r \in Runners, Begins(r)
  PROVE /\ AtWork = {} /\ kept = NotKept /\ lifecycle.mode = "Open"
        /\ pc' = [pc EXCEPT ![r] = "quiesce"] /\ hold' = [hold EXCEPT ![r] = r]
        /\ r \in Closers \ {Exit} /\ guard'[r].at = "waiting" /\ guard'[r].reason # "Exit"
        /\ \A q \in Closers \ {r} : guard'[q] = guard[q]
        /\ UNCHANGED <<kept, mine, armed>>
<1> USE HostLifecycleAssumption
<1>1. PICK reason \in {"Offload", "Update"} : StartHold(r, reason)
  BY DEF Begins, StartOwn, StartSibling
<1>2. r \in Closers \ {Exit}
  BY DEF Begins, StartOwn, StartSibling, Own
<1>3. lifecycle.mode = "Open"
  BY <1>1 DEF StartHold, Quiesce, MayQuiesce
<1>4. AtWork = {}
  <2> SUFFICES ASSUME NEW s \in AtWork PROVE FALSE
    OBVIOUS
  <2>1. hold[s] \in Closers /\ Live(hold[s])
    BY DEF Guarded, GuardAt, Live
  <2> QED BY <1>3, <2>1 DEF GuardsInForce, Live
<1>5. kept = NotKept
  BY <1>3 DEF Guarded, GuardsInForce, Live, Calls, HoldNamed
<1>6. /\ guard' = [guard EXCEPT ![r] = [at |-> "waiting", holder |-> nextHolder + 1,
                                        reason |-> reason, drained |-> FALSE]]
  BY <1>1 DEF StartHold, Quiesce
<1>7. guard \in [Closers -> QuiesceGuard]
  BY DEF TypeOK
<1>8. pc' = [pc EXCEPT ![r] = "quiesce"] /\ hold' = [hold EXCEPT ![r] = r] /\ UNCHANGED <<kept, mine, armed>>
  BY <1>1 DEF StartHold, Goto, hostVars
<1> QED BY <1>2, <1>3, <1>4, <1>5, <1>6, <1>7, <1>8

\* What taking the kept hold comes to.
LEMMA TakesOne ==
  ASSUME Calls, Alone, NEW r \in Runners, Takes(r)
  PROVE /\ kept # NotKept /\ AtWork = {} /\ kept' = NotKept
        /\ pc'[r] \in {"hold", "release"} /\ hold'[r] = kept.hold
        /\ pc'[r] = "hold" => r \in Siblings
        /\ UNCHANGED <<tableVars, mine, armed>>
<1> USE HostLifecycleAssumption DEF Calls, CallTypeOK, Goto
<1>1. CASE Rearm(r) \/ EndKept(r)
  BY <1>1 DEF Rearm, EndKept, TakeKept, Alone, hostVars
<1>2. CASE WindowEnds(r) /\ ExpiresArm(r)
  BY <1>2 DEF WindowEnds, ExpiresArm, Alone, hostVars, NotKept
<1> QED BY <1>1, <1>2 DEF Takes

\* Whoever works on a hold has one, and ends it or keeps it.
LEMMA WorksOn ==
  ASSUME Calls, NEW r \in Runners, Works(r) \/ Keep(r)
  PROVE /\ r \in AtWork
        /\ Works(r) => kept' = kept
        /\ Keep(r) => r \notin AtWork' /\ kept' = [arm |-> r, hold |-> hold[r]] /\ r \in Siblings
<1> USE DEF Calls, CallTypeOK, Goto, AtWork, Working, Pcs
<1>1. CASE Drained(r) \/ TimedOut(r) \/ HostsRefuse(r) \/ EndHold(r) \/ BeginArm(r) \/ RefusedByExit(r)
             \/ ReturnFailed(r) \/ ReturnArmed(r) \/ CancelQuiesce(r) \/ CancelArm(r) \/ CancelHold(r)
  BY <1>1 DEF Drained, TimedOut, HostsRefuse, EndHold, BeginArm, RefusedByExit, ReturnFailed,
              ReturnArmed, CancelQuiesce, CancelArm, CancelHold, EndArm, Keep
<1>2. CASE DecideToArm(r) \/ Ask(r) \/ ArmFailed(r) \/ ArmAcked(r) \/ AskOthers(r) \/ OthersAnswered(r)
             \/ Commit(r) \/ GiveUp(r) \/ Release(r)
  BY <1>2 DEF DecideToArm, Ask, ArmFailed, ArmAcked, AskOthers, OthersAnswered, Commit, GiveUp, Release, Keep
<1>3. CASE Keep(r)
  <2>1. pc[r] = "held" /\ pc'[r] = "kept" /\ kept' = [arm |-> r, hold |-> hold[r]] /\ r \in Siblings
    BY <1>3 DEF Keep
  <2>2. ~ Works(r)
    BY <2>1 DEF Works, Drained, TimedOut, HostsRefuse, EndHold, BeginArm, RefusedByExit, ReturnFailed,
              ReturnArmed, CancelQuiesce, CancelArm, CancelHold, EndArm, DecideToArm, Ask, ArmFailed,
              ArmAcked, AskOthers, OthersAnswered, Commit, GiveUp, Release
  <2> QED BY <2>1, <2>2
<1> QED BY <1>1, <1>2, <1>3 DEF Works

LEMMA AlonePreserved ==
  ASSUME TypeOK, Calls, GuardsInForce, ExitAlone, Guarded, Alone, [Next]_vars
  PROVE Alone'
<1>1. ASSUME NEW r \in Runners, RunnerStep(r) PROVE Alone'
  <2>1. \A s \in Runners \ {r} : s \in AtWork' <=> s \in AtWork
    BY <1>1, OthersStay DEF AtWork
  <2>2. AtWork \subseteq Runners /\ AtWork' \subseteq Runners
    BY DEF AtWork
  <2>3. CASE Begins(r)
    BY <2>1, <2>2, <2>3, BeginsFirst DEF Alone
  <2>4. CASE Takes(r)
    BY <2>1, <2>2, <2>4, TakesOne DEF Alone
  <2>5. CASE Passes(r)
    <3>1. r \notin AtWork' /\ kept' = kept
      BY <2>5 DEF Passes, DisarmAll, WindowEnds, Goto, AtWork, Working, Pcs, Calls, CallTypeOK
    <3> QED BY <2>1, <2>2, <3>1 DEF Alone
  <2>6. CASE Works(r) \/ Keep(r)
    BY <2>1, <2>2, <2>6, WorksOn DEF Alone
  <2> QED BY <1>1, <2>3, <2>4, <2>5, <2>6, KindsOfStep
<1>2. CASE (\E a \in Adopters : AdoptionStep(a)) \/ ExitStep \/ UNCHANGED vars
  BY <1>2, Bystanders DEF Alone, AtWork, callVars
<1> QED BY <1>1, <1>2 DEF Next

\* What work on a hold does to its guard, and to nobody else's.
LEMMA WorkOnGuard ==
  ASSUME TypeOK, Calls, Guarded, NEW r \in Runners, r \in AtWork, Works(r)
  PROVE /\ \A q \in Closers \ {hold[r]} : guard'[q] = guard[q]
        /\ guard'[hold[r]].reason \in {guard[hold[r]].reason, "none"}
        /\ r \in AtWork' => hold'[r] = hold[r] /\ guard'[hold[r]].at = GuardAt(r)'
        /\ r \in AtWork' /\ pc[r] # "quiesce" => guard'[hold[r]].drained = guard[hold[r]].drained
        /\ Drained(r) => guard'[hold[r]].drained
<1> USE HostLifecycleAssumption DEF Calls, CallTypeOK, Goto, AtWork
<1>g. guard \in [Closers -> QuiesceGuard] /\ hold[r] \in Closers /\ guard[hold[r]].at = GuardAt(r)
  BY DEF TypeOK, Guarded
<1>n. NoGuard.at = "none" /\ NoGuard.reason = "none"
  BY DEF NoGuard
<1>d. Drained(r) => pc[r] = "quiesce" /\ pc'[r] = "hold"
  BY DEF Drained
<1>1. CASE Drained(r) \/ TimedOut(r)
  <2>1. hold[r] = r /\ pc[r] = "quiesce" /\ hold' = hold
    BY <1>1 DEF Drained, TimedOut, HoldNamed
  <2>2. pc'[r] \in {"hold", "refused"}
    BY <1>1 DEF Drained, TimedOut
  <2>3. PICK b \in BOOLEAN : EndWait(r, b)
    BY <1>1 DEF Drained, TimedOut, QuiesceDrained, QuiesceTimeout
  <2>4. Drained(r) => EndWait(r, TRUE)
    BY DEF Drained, QuiesceDrained
  <2> QED BY <1>g, <2>1, <2>2, <2>3, <2>4 DEF EndWait, GuardAt, QuiesceGuard
<1>2. CASE EndHold(r)
  <2>1. r \notin AtWork' /\ pc[r] # "quiesce"
    BY <1>2 DEF EndHold, Working, Pcs
  <2> QED BY <1>g, <1>d, <1>n, <1>2, <2>1 DEF EndHold, DropGuard
<1>3. CASE CancelQuiesce(r)
  <2>1. r \notin AtWork' /\ hold[r] = r /\ pc'[r] = "done"
    BY <1>3 DEF CancelQuiesce, Working, Pcs, HoldNamed
  <2> QED BY <1>g, <1>d, <1>n, <1>3, <2>1 DEF CancelQuiesce, QuiesceCancelled
<1>4. CASE Commit(r)
  <2>1. pc[r] # "quiesce" /\ pc'[r] = "committed" /\ hold' = hold
    BY <1>4 DEF Commit
  <2> QED BY <1>g, <1>d, <1>4, <2>1 DEF Commit, ForgetGuard, GuardAt, QuiesceGuard
<1>5. CASE BeginArm(r) \/ RefusedByExit(r) \/ ReturnFailed(r) \/ ReturnArmed(r) \/ CancelArm(r)
  <2>1. guard' = guard /\ hold' = hold
    BY <1>5 DEF BeginArm, BeginAsQuiescer, TakeTicket, RefusedByExit, ReturnFailed, ReturnArmed,
                CancelArm, EndArm, DropTicket
  <2>2. pc[r] \notin {"quiesce", "committed"} /\ pc'[r] \notin {"quiesce", "committed"}
    BY <1>5 DEF BeginArm, RefusedByExit, ReturnFailed, ReturnArmed, CancelArm, EndArm
  <2> QED BY <1>g, <1>d, <2>1, <2>2 DEF GuardAt
<1>6. CASE HostsRefuse(r) \/ DecideToArm(r) \/ Ask(r) \/ ArmFailed(r) \/ ArmAcked(r) \/ AskOthers(r)
             \/ OthersAnswered(r) \/ GiveUp(r) \/ Release(r) \/ CancelHold(r)
  <2>1. guard' = guard
    BY <1>6, AwayKeepsTable DEF AwayFromTable, tableVars
  <2>2. hold' = hold
    BY <1>6 DEF HostsRefuse, DecideToArm, Ask, ArmFailed, ArmAcked, AskOthers, OthersAnswered,
                GiveUp, Release, CancelHold
  <2>3. pc[r] \notin {"quiesce", "committed"} /\ pc'[r] \notin {"quiesce", "committed"}
    BY <1>6 DEF HostsRefuse, DecideToArm, Ask, ArmFailed, ArmAcked, AskOthers, OthersAnswered,
                GiveUp, Release, CancelHold
  <2> QED BY <1>g, <1>d, <2>1, <2>2, <2>3 DEF GuardAt
<1> QED BY <1>1, <1>2, <1>3, <1>4, <1>5, <1>6 DEF Works

LEMMA GuardedPreserved ==
  ASSUME TypeOK, Calls, GuardsInForce, ExitAlone, Guarded, Alone, [Next]_vars
  PROVE Guarded'
<1> USE HostLifecycleAssumption
<1>c. AtWork \subseteq Runners /\ AtWork' \subseteq Runners
  BY DEF AtWork
<1>1. ASSUME NEW r \in Runners, RunnerStep(r) PROVE Guarded'
  <2>1. \A s \in Runners \ {r} : /\ s \in AtWork' <=> s \in AtWork
                                 /\ hold'[s] = hold[s] /\ GuardAt(s)' = GuardAt(s)
    BY <1>1, OthersStay DEF AtWork, GuardAt
  <2>2. CASE Begins(r)
    <3>1. pc'[r] = "quiesce" /\ hold'[r] = r
      BY <2>2, BeginsFirst DEF Calls, CallTypeOK
    <3>2. \A s \in AtWork' : s = r
      BY <1>c, <2>1, <2>2, BeginsFirst
    <3> QED BY <1>c, <2>2, <3>1, <3>2, BeginsFirst DEF Guarded, GuardAt
  <2>3. CASE Takes(r)
    <3>1. \A s \in AtWork' : s = r
      BY <1>c, <1>1, <2>1, <2>3, TakesOne
    <3>2. kept.hold \in Closers \ {Exit} /\ guard[kept.hold].at = "held"
      BY <2>3, TakesOne DEF Guarded, Calls, HoldNamed
    <3>3. GuardAt(r)' = "held" /\ hold'[r] = kept.hold /\ guard' = guard /\ kept' = NotKept
      BY <2>3, TakesOne DEF GuardAt, tableVars
    <3> QED BY <3>1, <3>2, <3>3 DEF Guarded
  <2>4. CASE Passes(r)
    <3>1. r \notin AtWork' /\ kept' = kept
      BY <2>4 DEF Passes, DisarmAll, WindowEnds, Goto, AtWork, Working, Pcs, Calls, CallTypeOK
    <3>2. guard' = guard
      BY <2>4, AwayKeepsTable DEF Passes, AwayFromTable, tableVars
    <3> QED BY <1>c, <2>1, <3>1, <3>2 DEF Guarded
  <2>5. CASE Keep(r)
    <3>1. r \in AtWork /\ r \notin AtWork' /\ kept' = [arm |-> r, hold |-> hold[r]]
      BY <2>5, WorksOn
    <3>2. guard' = guard /\ pc[r] = "held"
      BY <2>5, AwayKeepsTable DEF Keep, Goto, AwayFromTable, tableVars
    <3>3. hold[r] \in Closers \ {Exit} /\ guard[hold[r]].at = "held"
      BY <3>1, <3>2 DEF Guarded, GuardAt
    <3>4. AtWork' = {}
      BY <1>c, <2>1, <3>1 DEF Alone
    <3> QED BY <3>1, <3>2, <3>3, <3>4 DEF Guarded
  <2>6. CASE Works(r)
    <3>1. r \in AtWork /\ kept' = kept
      BY <2>6, WorksOn
    <3>2. hold[r] \in Closers \ {Exit}
      BY <3>1 DEF Guarded
    <3>3. \A s \in AtWork' : s = r
      BY <1>c, <2>1, <3>1 DEF Alone
    <3>4. kept = NotKept
      BY <3>1 DEF Alone
    <3> QED BY <2>6, <3>1, <3>2, <3>3, <3>4, WorkOnGuard DEF Guarded
  <2> QED BY <1>1, <2>2, <2>3, <2>4, <2>5, <2>6, KindsOfStep
<1>2. CASE (\E a \in Adopters : AdoptionStep(a)) \/ ExitStep \/ UNCHANGED vars
  <2>1. UNCHANGED <<pc, hold, kept>> /\ \A q \in Closers \ {Exit} : guard'[q] = guard[q]
    BY <1>2, Bystanders DEF callVars
  <2>2. kept # NotKept => kept.hold \in Closers
    BY DEF Calls, HoldNamed
  <2> QED BY <2>1, <2>2 DEF Guarded, AtWork, GuardAt
<1> QED BY <1>1, <1>2 DEF Next

\* While no exit is in force, whoever works on a hold answers for every host that is
\* armed: none is before it asks nor once it has undone or released its arm, and in
\* between all of them are among those the hold disarms when it ends.
Answers(r) ==
    /\ pc[r] \in {"quiesce", "refused", "undone", "releasing"} => armed = {}
    /\ pc[r] \in {"hold", "begun", "armed", "held", "release", "dropped"} =>
           armed \subseteq mine[hold[r]]
    /\ pc[r] \in {"ask", "wait", "askOthers", "waitOthers"} => mine[hold[r]] = Hosts
    /\ r \in Own /\ pc[r] \in {"hold", "begun", "ask"} => armed = {}
    /\ r \in Own /\ pc[r] = "wait" => armed \subseteq Required(r)

Answered == ~ Exiting =>
    /\ \A r \in AtWork : Answers(r)
    /\ kept # NotKept => armed \subseteq mine[kept.hold]

LEMMA WorkAnswers ==
  ASSUME Calls, Guarded, ~ Exiting, closed = {}, NEW r \in AtWork, Answers(r), Works(r)
  PROVE Answers(r)'
<1> USE HostLifecycleAssumption DEF Calls, CallTypeOK, Goto, hostVars, Arm, Disarm
<1>t. /\ r \in Runners /\ hold[r] \in Closers /\ mine[hold[r]] \subseteq Hosts
      /\ pc \in [Runners -> Pcs] /\ Required(r) \subseteq Hosts /\ Tolerated(r) \subseteq Hosts
  BY DEF AtWork, Guarded, Required, Tolerated
<1>o. r \notin Own => Required(r) = Hosts
  BY DEF Required, Tolerated, Own
<1> USE <1>t DEF Answers
<1>1. CASE Drained(r) \/ TimedOut(r)
  BY <1>1 DEF Drained, TimedOut
<1>2. CASE HostsRefuse(r)
  BY <1>2 DEF HostsRefuse
<1>3. CASE EndHold(r) \/ CancelQuiesce(r)
  BY <1>3 DEF EndHold, CancelQuiesce
<1>4. CASE BeginArm(r) \/ GiveUp(r) \/ CancelHold(r)
  BY <1>4 DEF BeginArm, GiveUp, CancelHold
<1>5. CASE RefusedByExit(r)
  BY <1>5 DEF RefusedByExit
<1>6. CASE DecideToArm(r)
  BY <1>6 DEF DecideToArm
<1>7. CASE Ask(r)
  BY <1>7 DEF Ask
<1>8. CASE ArmFailed(r)
  BY <1>8, <1>o DEF ArmFailed
<1>9. CASE ArmAcked(r)
  BY <1>9 DEF ArmAcked, MayArm
<1>10. CASE AskOthers(r)
  BY <1>10 DEF AskOthers
<1>11. CASE OthersAnswered(r)
  BY <1>11 DEF OthersAnswered, MayArm
<1>12. CASE ReturnFailed(r)
  BY <1>12 DEF ReturnFailed, EndArm
<1>13. CASE ReturnArmed(r)
  BY <1>13 DEF ReturnArmed, EndArm
<1>14. CASE CancelArm(r)
  BY <1>14 DEF CancelArm, EndArm
<1>15. CASE Commit(r)
  BY <1>15 DEF Commit
<1>16. CASE Release(r)
  BY <1>16 DEF Release, DisarmHold
<1> QED BY <1>1, <1>2, <1>3, <1>4, <1>5, <1>6, <1>7, <1>8, <1>9, <1>10, <1>11, <1>12, <1>13,
           <1>14, <1>15, <1>16 DEF Works

\* The sets of runners at work before and after a runner's step.
LEMMA OneAtWork ==
  ASSUME TypeOK, Calls, GuardsInForce, Guarded, Alone, NEW r \in Runners, RunnerStep(r), ~ Passes(r)
  PROVE /\ \A s \in AtWork' : s = r
        /\ Works(r) => kept = NotKept /\ kept' = NotKept
<1>1. \A s \in Runners \ {r} : s \in AtWork' <=> s \in AtWork
  BY OthersStay DEF AtWork
<1>2. AtWork' \subseteq Runners
  BY DEF AtWork
<1>3. Begins(r) => AtWork = {}
  BY BeginsFirst
<1>4. Takes(r) => AtWork = {}
  BY TakesOne
<1>5. Works(r) \/ Keep(r) => r \in AtWork /\ (Works(r) => kept' = kept)
  BY WorksOn
<1> QED BY <1>1, <1>2, <1>3, <1>4, <1>5, KindsOfStep DEF Alone

\* Nobody but exit disarms or disconnects a host for good.
LEMMA NoneClosed ==
  ASSUME ExitAlone, DisarmedFirst, ~ Exiting
  PROVE closed = {}
BY DEF ExitAlone, DisarmedFirst

LEMMA AnsweredPreserved ==
  ASSUME TypeOK, Calls, GuardsInForce, ExitAlone, DisarmedFirst, Guarded, Alone,
         OpenMeansDisarmed, Answered, [Next]_vars
  PROVE Answered'
<1> USE HostLifecycleAssumption
<1> SUFFICES ASSUME ~ Exiting' PROVE Answered'
  BY DEF Answered
<1>e. ~ Exiting /\ closed = {}
  BY CallersUseTheTable, ExitingStays, NoneClosed DEF Exiting
<1>c. AtWork \subseteq Runners /\ AtWork' \subseteq Runners
  BY DEF AtWork
<1>1. ASSUME NEW r \in Runners, RunnerStep(r) PROVE Answered'
  <2>1. CASE Begins(r)
    <3>1. pc'[r] = "quiesce" /\ armed' = {} /\ kept' = NotKept
      BY <2>1, BeginsFirst DEF Calls, CallTypeOK, OpenMeansDisarmed
    <3>2. \A s \in AtWork' : s = r
      BY <1>1, <2>1, <3>1, OneAtWork DEF Passes, DisarmAll, WindowEnds, Goto, Calls, CallTypeOK
    <3> QED BY <3>1, <3>2 DEF Answered, Answers
  <2>2. CASE Takes(r)
    <3>1. /\ pc'[r] \in {"hold", "release"} /\ hold'[r] = kept.hold /\ kept' = NotKept
          /\ pc'[r] = "hold" => r \notin Own
          /\ UNCHANGED <<mine, armed>> /\ kept # NotKept
      BY <2>2, TakesOne
    <3>2. \A s \in AtWork' : s = r
      BY <1>1, <2>2, <3>1, OneAtWork DEF Passes, DisarmAll, WindowEnds, Goto, Calls, CallTypeOK
    <3> QED BY <1>e, <3>1, <3>2 DEF Answered, Answers
  <2>3. CASE Passes(r)
    <3>1. r \notin AtWork' /\ UNCHANGED <<kept, mine>> /\ armed' \subseteq armed
      BY <2>3 DEF Passes, DisarmAll, WindowEnds, Goto, AtWork, Working, Pcs, Calls, CallTypeOK,
                  hostVars, Disarm
    <3>2. \A s \in AtWork' : s \in AtWork /\ pc'[s] = pc[s] /\ hold'[s] = hold[s]
      BY <1>1, <1>c, <3>1, OthersStay DEF AtWork
    <3> QED BY <1>e, <3>1, <3>2 DEF Answered, Answers
  <2>4. CASE Keep(r)
    <3>1. r \in AtWork /\ r \notin AtWork' /\ kept' = [arm |-> r, hold |-> hold[r]]
      BY <2>4, WorksOn
    <3>2. pc[r] = "held" /\ UNCHANGED <<mine, armed>>
      BY <2>4 DEF Keep, Goto, hostVars
    <3>3. ~ Passes(r)
      BY <3>2 DEF Passes, DisarmAll, WindowEnds, Goto
    <3>4. AtWork' = {}
      BY <1>1, <3>1, <3>3, OneAtWork
    <3> QED BY <1>e, <3>1, <3>2, <3>4 DEF Answered, Answers
  <2>5. CASE Works(r)
    <3>1. r \in AtWork
      BY <2>5, WorksOn
    <3>2. ~ Passes(r)
      BY <3>1 DEF Passes, DisarmAll, WindowEnds, Goto, AtWork, Working, Pcs
    <3> QED BY <1>1, <1>e, <2>5, <3>1, <3>2, OneAtWork, WorkAnswers DEF Answered
  <2> QED BY <1>1, <2>1, <2>2, <2>3, <2>4, <2>5, KindsOfStep
<1>2. CASE (\E a \in Adopters : AdoptionStep(a)) \/ ExitStep \/ UNCHANGED vars
  <2>1. UNCHANGED callVars /\ armed' \subseteq armed
    BY <1>2, Bystanders
  <2> QED BY <1>e, <2>1 DEF Answered, Answers, AtWork, callVars
<1> QED BY <1>1, <1>2 DEF Next

\* The table is opened by a hold that ends, with nothing armed, and nobody arms a
\* host without the guard that keeps it closed.
LEMMA OpenPreserved ==
  ASSUME TypeOK, Calls, GuardsInForce, ExitAlone, DisarmedFirst, Guarded, Alone,
         OpenMeansDisarmed, Answered, [Next]_vars
  PROVE OpenMeansDisarmed'
<1> USE HostLifecycleAssumption
<1> SUFFICES ASSUME lifecycle'.mode = "Open" PROVE armed' = {}
  BY DEF OpenMeansDisarmed
<1>e. ~ Exiting
  BY CallersUseTheTable, ExitingStays DEF Exiting
<1>1. ASSUME NEW r \in Runners, RunnerStep(r) PROVE armed' = {}
  <2>1. CASE EndHold(r)
    <3>1. pc[r] \in {"refused", "releasing"} /\ r \in AtWork /\ armed' = armed
      BY <2>1 DEF EndHold, AtWork, Working, Pcs, hostVars
    <3> QED BY <1>e, <3>1 DEF Answered, Answers
  <2>2. CASE r \in AtWork /\ ~ EndHold(r)
    <3>1. Live(hold[r]) /\ hold[r] \in Closers
      BY <2>2 DEF Guarded, GuardAt, Live
    <3>2. lifecycle.mode # "Open"
      BY <3>1 DEF GuardsInForce
    <3>3. ~ Begins(r)
      BY <3>2, BeginsFirst
    <3>4. lifecycle' = lifecycle
      <4>1. CASE AwayFromTable(r)
        BY <4>1, AwayKeepsTable DEF tableVars
      <4>2. CASE Drained(r) \/ TimedOut(r) \/ CancelQuiesce(r) \/ Commit(r)
        BY <4>2 DEF Drained, TimedOut, QuiesceDrained, QuiesceTimeout, EndWait, CancelQuiesce,
                    QuiesceCancelled, Commit, ForgetGuard
      <4>3. CASE BeginArm(r) \/ RefusedByExit(r) \/ ReturnFailed(r) \/ ReturnArmed(r) \/ CancelArm(r)
        BY <4>3 DEF BeginArm, BeginAsQuiescer, TakeTicket, RefusedByExit, ReturnFailed, ReturnArmed,
                    CancelArm, EndArm, DropTicket
      <4> QED BY <1>1, <2>2, <3>3, <4>1, <4>2, <4>3 DEF RunnerStep, AwayFromTable, Begins
    <3> QED BY <3>2, <3>4
  <2>3. CASE r \notin AtWork
    <3>1. Begins(r) \/ Takes(r) \/ Passes(r)
      BY <1>1, <2>3, WorksOn, KindsOfStep
    <3>2. ~ Begins(r)
      BY DEF Begins, StartOwn, StartSibling, StartHold, Quiesce
    <3>3. lifecycle' = lifecycle /\ armed' \subseteq armed
      <4>1. UNCHANGED tableVars
        BY <3>1, <3>2, AwayKeepsTable DEF Takes, Passes, AwayFromTable
      <4>2. armed' \subseteq armed
        BY <3>1, <3>2 DEF Takes, Passes, Rearm, EndKept, TakeKept, WindowEnds, DisarmAll, Disarm, hostVars
      <4> QED BY <4>1, <4>2 DEF tableVars
    <3> QED BY <3>3 DEF OpenMeansDisarmed
  <2> QED BY <2>1, <2>2, <2>3
<1>2. CASE (\E a \in Adopters : AdoptionStep(a)) \/ ExitStep \/ UNCHANGED vars
  <2>1. armed' \subseteq armed /\ (Exiting' \/ lifecycle' = lifecycle)
    BY <1>2, Bystanders
  <2> QED BY <2>1 DEF OpenMeansDisarmed, Exiting
<1> QED BY <1>1, <1>2 DEF Next

HoldsAnswer == ExitSafe /\ Guarded /\ Alone /\ Answered /\ OpenMeansDisarmed

LEMMA HoldsAnswerAlways == Spec => []HoldsAnswer
<1>1. Init => HoldsAnswer
  BY HostLifecycleAssumption
     DEF Init, TableInit, HoldsAnswer, ExitSafe, ArmTicketed, ExitAlone, DisarmedFirst, Guarded,
         Alone, Answered, OpenMeansDisarmed, AtWork, Working, Pcs, NoGuard
<1>2. TypeOK /\ Calls /\ Calls' /\ GuardsInForce /\ HoldsAnswer /\ [Next]_vars => HoldsAnswer'
  BY ExitSafePreserved, GuardedPreserved, AlonePreserved, AnsweredPreserved, OpenPreserved
     DEF HoldsAnswer, ExitSafe
<1> QED BY <1>1, <1>2, UsesTheTable, TableTypeCorrect, GuardsAlwaysInForce, CallsAlways, PTL DEF Spec

\* Admission is never reopened over a host that is still armed
\* (Hold::drop, host_lifecycle.rs:393-404, 521-540).
THEOREM OpenAlwaysDisarmed == Spec => []OpenMeansDisarmed
<1>1. HoldsAnswer => OpenMeansDisarmed
  BY DEF HoldsAnswer
<1> QED BY <1>1, HoldsAnswerAlways, PTL

\* Whoever arms a host, its arm ends with it: neither an exit nor a reopened table
\* leaves a host armed (host_lifecycle.rs:393-441, 521-540).
THEOREM ArmsAlwaysEnd == Spec => []ArmsEnd
<1>1. ExitAfterEveryArm /\ OpenMeansDisarmed => ArmsEnd
  BY DEF ArmsEnd
<1> QED BY <1>1, ExitAlwaysAfterEveryArm, OpenAlwaysDisarmed, PTL

-----------------------------------------------------------------------------
(* An arm that stands                                                        *)

\* Which holds know that the table drained before they armed; and an adoption that
\* may still disarm a host has its ticket.
DrainKnown ==
    /\ \A r \in Own \cap AtWork : hold[r] = r
    /\ \A r \in AtWork : r \notin Relaunches /\ pc[r] \notin {"quiesce", "refused"} =>
           guard[hold[r]].drained
    /\ kept # NotKept => guard[kept.hold].drained
    /\ \A a \in Adopters : adopting[a] = "connected" => ticket[a] = Adopting

\* While no exit is in force, the hosts a hold has armed are armed, if it knows that
\* no adoption is about.
Standing == ~ Exiting =>
    /\ \A r \in AtWork : guard[hold[r]].drained =>
         /\ pc[r] \in {"wait", "askOthers", "armed", "held", "committed"} =>
                Required(r) \subseteq armed
         /\ pc[r] = "waitOthers" => Hosts \subseteq armed
    /\ kept # NotKept => Hosts \subseteq armed

\* Only an offload or a relaunch goes ahead with a hold that did not drain.
LEMMA TakesNotOwn ==
  ASSUME Calls, NEW r \in Runners, Takes(r)
  PROVE r \notin Own
BY HostLifecycleAssumption
   DEF Takes, Rearm, EndKept, WindowEnds, ExpiresArm, Calls, HoldNamed, CallTypeOK, Goto, NotKept

LEMMA AdoptingKept ==
  ASSUME TypeOK, CallTypeOK, DrainKnown, [Next]_vars
  PROVE \A a \in Adopters : adopting'[a] = "connected" => ticket'[a] = Adopting
<1> USE HostLifecycleAssumption
<1>t. ticket \in [Ops -> Channels \cup {None, Adopting, Arming}]
  BY DEF TypeOK
<1>1. ASSUME NEW r \in Runners, RunnerStep(r), NEW a \in Adopters
      PROVE adopting'[a] = adopting[a] /\ ticket'[a] = ticket[a]
  <2>1. a # r
    OBVIOUS
  <2>2. CASE AwayFromTable(r)
    <3>1. ticket' = ticket
      BY <2>2, AwayKeepsTable DEF tableVars
    <3>2. adopting' = adopting
      BY <2>2 DEF AwayFromTable, Rearm, EndKept, TakeKept, HostsRefuse, DecideToArm, Ask, ArmFailed,
                  ArmAcked, AskOthers, OthersAnswered, GiveUp, Keep, WindowEnds, DisarmAll, Release,
                  CancelHold
    <3> QED BY <3>1, <3>2
  <2>3. CASE StartOwn(r) \/ StartSibling(r) \/ Drained(r) \/ TimedOut(r) \/ EndHold(r)
               \/ CancelQuiesce(r) \/ Commit(r)
    BY <2>3 DEF StartOwn, StartSibling, StartHold, Quiesce, Drained, TimedOut, QuiesceDrained,
                QuiesceTimeout, EndWait, EndHold, DropGuard, CancelQuiesce, QuiesceCancelled, Commit,
                ForgetGuard
  <2>4. CASE BeginArm(r) \/ RefusedByExit(r) \/ ReturnFailed(r) \/ ReturnArmed(r) \/ CancelArm(r)
    BY <1>t, <2>1, <2>4 DEF BeginArm, BeginAsQuiescer, TakeTicket, RefusedByExit, ReturnFailed,
                            ReturnArmed, CancelArm, EndArm, DropTicket
  <2> QED BY <1>1, <2>2, <2>3, <2>4 DEF RunnerStep, AwayFromTable
<1>2. ASSUME NEW b \in Adopters, AdoptionStep(b), NEW a \in Adopters, adopting'[a] = "connected"
      PROVE ticket'[a] = Adopting
  <2>a. adopting \in [Adopters -> {"idle", "connected", "settled", "done"}]
    BY DEF CallTypeOK
  <2> QED BY <1>2, <1>t, <2>a DEF AdoptionStep, StartAdoption, Settle, EndAdoption, BeginAdoption,
                TakeTicket, DropTicket, tableVars, DrainKnown
<1>3. CASE ExitStep \/ UNCHANGED vars
  <2>1. ticket' = ticket /\ adopting' = adopting
    BY <1>3 DEF ExitStep, StartExit, ExitDrained, ExitTimesOut, ExitEnds, ExitDisarms, ExitTells,
                ExitCloses, vars, tableVars, Quiesce, QuiesceDrained, QuiesceTimeout, EndWait, DropGuard
  <2> QED BY <2>1 DEF DrainKnown
<1> QED BY <1>1, <1>2, <1>3 DEF Next, DrainKnown

LEMMA DrainKnownPreserved ==
  ASSUME TypeOK, Calls, GuardsInForce, ExitAlone, Guarded, Alone, DrainKnown, [Next]_vars
  PROVE DrainKnown'
<1> USE HostLifecycleAssumption
<1> DEFINE Known == /\ \A r \in Own \cap AtWork : hold[r] = r
                    /\ \A r \in AtWork : r \notin Relaunches /\ pc[r] \notin {"quiesce", "refused"} =>
                           guard[hold[r]].drained
                    /\ kept # NotKept => guard[kept.hold].drained
<1>0. Known /\ (Known' => DrainKnown')
  BY AdoptingKept DEF DrainKnown, Calls
<1>1. ASSUME NEW r \in Runners, RunnerStep(r) PROVE Known'
  <2>1. CASE Begins(r)
    <3>1. pc'[r] = "quiesce" /\ hold'[r] = r /\ kept' = NotKept
      BY <2>1, BeginsFirst DEF Calls, CallTypeOK
    <3>2. \A s \in AtWork' : s = r
      BY <1>1, <2>1, <3>1, OneAtWork DEF Passes, DisarmAll, WindowEnds, Goto, Calls, CallTypeOK
    <3> QED BY <3>1, <3>2
  <2>2. CASE Takes(r)
    <3>1. /\ pc'[r] \in {"hold", "release"} /\ hold'[r] = kept.hold /\ kept' = NotKept
          /\ UNCHANGED tableVars /\ kept # NotKept /\ r \notin Own
      BY <2>2, TakesOne, TakesNotOwn
    <3>2. \A s \in AtWork' : s = r
      BY <1>1, <2>2, <3>1, OneAtWork DEF Passes, DisarmAll, WindowEnds, Goto, Calls, CallTypeOK
    <3> QED BY <1>0, <3>1, <3>2 DEF tableVars
  <2>3. CASE Passes(r)
    <3>1. r \notin AtWork' /\ kept' = kept
      BY <2>3 DEF Passes, DisarmAll, WindowEnds, Goto, AtWork, Working, Pcs, Calls, CallTypeOK
    <3>2. \A s \in AtWork' : s \in AtWork /\ pc'[s] = pc[s] /\ hold'[s] = hold[s]
      BY <1>1, <3>1, OthersStay DEF AtWork
    <3>3. guard' = guard
      BY <2>3, AwayKeepsTable DEF Passes, AwayFromTable, tableVars
    <3> QED BY <1>0, <3>1, <3>2, <3>3
  <2>4. CASE Keep(r)
    <3>1. r \in AtWork /\ r \notin AtWork' /\ kept' = [arm |-> r, hold |-> hold[r]] /\ r \in Siblings
      BY <2>4, WorksOn
    <3>2. pc[r] = "held" /\ guard' = guard
      BY <2>4, AwayKeepsTable DEF Keep, Goto, AwayFromTable, tableVars
    <3>3. ~ Passes(r)
      BY <3>2 DEF Passes, DisarmAll, WindowEnds, Goto
    <3>4. AtWork' = {}
      BY <1>1, <3>1, <3>3, OneAtWork
    <3>5. r \notin Relaunches
      BY <3>1 DEF Own
    <3> QED BY <1>0, <3>1, <3>2, <3>4, <3>5
  <2>5. CASE Works(r)
    <3>1. r \in AtWork
      BY <2>5, WorksOn
    <3>2. ~ Passes(r)
      BY <3>1 DEF Passes, DisarmAll, WindowEnds, Goto, AtWork, Working, Pcs
    <3>3. kept' = NotKept /\ \A s \in AtWork' : s = r
      BY <1>1, <2>5, <3>2, OneAtWork
    <3>4. ASSUME r \in AtWork'
          PROVE  /\ hold'[r] = hold[r]
                 /\ pc[r] # "quiesce" => guard'[hold[r]].drained = guard[hold[r]].drained
                 /\ Drained(r) => guard'[hold[r]].drained
      BY <2>5, <3>1, <3>4, WorkOnGuard
    <3>5. pc[r] = "quiesce" => Drained(r) \/ r \notin AtWork' \/ r \in Relaunches \/ pc'[r] = "refused"
      <4>1. SUFFICES ASSUME pc[r] = "quiesce"
                     PROVE Drained(r) \/ r \notin AtWork' \/ r \in Relaunches \/ pc'[r] = "refused"
        OBVIOUS
      <4>2. Drained(r) \/ TimedOut(r) \/ CancelQuiesce(r)
        BY <2>5, <4>1 DEF Works, HostsRefuse, EndHold, BeginArm, RefusedByExit, ReturnFailed,
             ReturnArmed, CancelArm, CancelHold, EndArm, DecideToArm, Ask, ArmFailed, ArmAcked,
             AskOthers, OthersAnswered, Commit, GiveUp, Release, Goto
      <4>3. CancelQuiesce(r) => r \notin AtWork'
        BY DEF CancelQuiesce, Goto, AtWork, Working, Pcs, Calls, CallTypeOK
      <4>4. TimedOut(r) => r \in Relaunches \/ pc'[r] = "refused"
        BY DEF TimedOut, GoesAhead, Goto, Calls, CallTypeOK
      <4> QED BY <4>2, <4>3, <4>4
    <3>6. pc[r] = "refused" => r \notin AtWork'
      <4>1. SUFFICES ASSUME pc[r] = "refused" PROVE r \notin AtWork'
        OBVIOUS
      <4>2. EndHold(r)
        BY <2>5, <4>1 DEF Works, Drained, TimedOut, CancelQuiesce, HostsRefuse, BeginArm, RefusedByExit,
             ReturnFailed, ReturnArmed, CancelArm, CancelHold, EndArm, DecideToArm, Ask, ArmFailed,
             ArmAcked, AskOthers, OthersAnswered, Commit, GiveUp, Release, Goto
      <4> QED BY <4>2 DEF EndHold, AtWork, Working, Pcs, Calls, CallTypeOK
    <3>7. ASSUME NEW s \in AtWork'
          PROVE /\ s \in Own => hold'[s] = s
                /\ s \notin Relaunches /\ pc'[s] \notin {"quiesce", "refused"} =>
                       guard'[hold'[s]].drained
      <4>1. s = r /\ r \in AtWork'
        BY <3>3
      <4>2. r \in Own => hold'[r] = r
        BY <1>0, <3>1, <3>4, <4>1
      <4>3. ASSUME r \notin Relaunches, pc'[r] # "refused" PROVE guard'[hold'[r]].drained
        <5>1. CASE pc[r] = "quiesce"
          BY <3>4, <3>5, <4>1, <4>3, <5>1
        <5>2. CASE pc[r] # "quiesce"
          BY <1>0, <3>1, <3>4, <3>6, <4>1, <4>3, <5>2
        <5> QED BY <5>1, <5>2
      <4> QED BY <4>1, <4>2, <4>3
    <3> QED BY <3>3, <3>7
  <2> QED BY <1>1, <2>1, <2>2, <2>3, <2>4, <2>5, KindsOfStep
<1>2. CASE (\E a \in Adopters : AdoptionStep(a)) \/ ExitStep \/ UNCHANGED vars
  <2>1. UNCHANGED <<pc, hold, kept>> /\ \A q \in Closers \ {Exit} : guard'[q] = guard[q]
    BY <1>2, Bystanders DEF callVars
  <2>2. kept # NotKept => kept.hold \in Closers \ {Exit}
    BY DEF Calls, HoldNamed, Guarded
  <2> QED BY <1>0, <2>1, <2>2 DEF Guarded, AtWork
<1> QED BY <1>0, <1>1, <1>2 DEF Next

LEMMA WorkStands ==
  ASSUME TypeOK, Calls, Guarded, ~ Exiting, closed = {}, NEW r \in AtWork, Works(r), Answers(r),
         r \in AtWork', guard'[hold'[r]].drained,
         guard[hold[r]].drained =>
           /\ pc[r] \in {"wait", "askOthers", "armed", "held", "committed"} => Required(r) \subseteq armed
           /\ pc[r] = "waitOthers" => Hosts \subseteq armed
  PROVE /\ pc'[r] \in {"wait", "askOthers", "armed", "held", "committed"} => Required(r) \subseteq armed'
        /\ pc'[r] = "waitOthers" => Hosts \subseteq armed'
<1> USE HostLifecycleAssumption DEF Calls, CallTypeOK, Goto, hostVars, Arm, Disarm
<1>t. r \in Runners /\ pc \in [Runners -> Pcs] /\ Hosts = Required(r) \cup Tolerated(r)
        /\ Required(r) \cap Tolerated(r) = {}
  BY DEF AtWork, Required, Tolerated
<1>g. hold'[r] = hold[r] /\ (pc[r] # "quiesce" => guard[hold[r]].drained)
  BY WorkOnGuard, <1>t
<1> USE <1>t, <1>g
<1>1. CASE Drained(r) \/ TimedOut(r) \/ HostsRefuse(r) \/ EndHold(r) \/ CancelQuiesce(r) \/ BeginArm(r)
             \/ CancelHold(r)
  BY <1>1 DEF Drained, TimedOut, HostsRefuse, EndHold, CancelQuiesce, BeginArm, CancelHold
<1>2. CASE RefusedByExit(r) \/ ReturnFailed(r) \/ CancelArm(r) \/ GiveUp(r) \/ Release(r)
  BY <1>2 DEF RefusedByExit, ReturnFailed, CancelArm, EndArm, GiveUp, Release
<1>3. CASE DecideToArm(r) \/ ArmFailed(r)
  BY <1>3 DEF DecideToArm, ArmFailed
<1>4. CASE Ask(r)
  BY <1>4 DEF Ask
<1>5. CASE ArmAcked(r)
  BY <1>5 DEF ArmAcked, MayArm
<1>6. CASE AskOthers(r)
  BY <1>6 DEF AskOthers
<1>7. CASE OthersAnswered(r)
  BY <1>7 DEF OthersAnswered, MayArm
<1>8. CASE ReturnArmed(r) \/ Commit(r)
  BY <1>8 DEF ReturnArmed, EndArm, Commit
<1> QED BY <1>1, <1>2, <1>3, <1>4, <1>5, <1>6, <1>7, <1>8 DEF Works

\* Once the table has drained for a hold, no adoption disarms a host of it.
LEMMA NoneDisarmed ==
  ASSUME TypeOK, Calls, ExitAlone, DrainedIsQuiet, DrainKnown, ~ Exiting,
         NEW q \in Closers, guard[q].at \in {"held", "forgotten"}, guard[q].drained,
         (\E a \in Adopters : AdoptionStep(a)) \/ ExitStep \/ UNCHANGED vars
  PROVE armed' = armed
<1> USE HostLifecycleAssumption
<1>1. CASE \E a \in Adopters : AdoptionStep(a)
  <2>1. PICK a \in Adopters : AdoptionStep(a)
    BY <1>1
  <2>2. ticket[a] # Adopting
    BY HostTableAssumption DEF DrainedIsQuiet
  <2>3. ~ Settle(a)
    BY <2>2 DEF Settle, DrainKnown
  <2> QED BY <2>1, <2>3 DEF AdoptionStep, StartAdoption, EndAdoption, hostVars
<1>2. CASE StartExit \/ ExitDrained \/ ExitTimesOut \/ ExitEnds \/ UNCHANGED vars
  BY <1>2 DEF StartExit, ExitDrained, ExitTimesOut, ExitEnds, vars, hostVars
<1>3. ~ \E h \in Hosts : ExitDisarms(h)
  BY DEF ExitDisarms, ExitAlone
<1>4. CASE \E h \in Hosts : ExitTells(h) \/ ExitCloses(h)
  BY <1>4 DEF ExitTells, ExitCloses
<1> QED BY <1>1, <1>2, <1>3, <1>4 DEF ExitStep

LEMMA StandingPreserved ==
  ASSUME Disarms = {}, TypeOK, Calls, GuardsInForce, DrainedIsQuiet, HoldsAnswer, DrainKnown,
         Standing, [Next]_vars, DrainKnown'
  PROVE Standing'
<1> USE HostLifecycleAssumption DEF HoldsAnswer, ExitSafe
<1> SUFFICES ASSUME ~ Exiting' PROVE Standing'
  BY DEF Standing
<1>e. ~ Exiting /\ closed = {}
  BY CallersUseTheTable, ExitingStays, NoneClosed DEF Exiting
<1>1. ASSUME NEW r \in Runners, RunnerStep(r) PROVE Standing'
  <2>1. CASE Begins(r)
    <3>1. pc'[r] = "quiesce" /\ kept' = NotKept
      BY <2>1, BeginsFirst DEF Calls, CallTypeOK
    <3>2. \A s \in AtWork' : s = r
      BY <1>1, <2>1, <3>1, OneAtWork DEF Passes, DisarmAll, WindowEnds, Goto, Calls, CallTypeOK
    <3> QED BY <3>1, <3>2 DEF Standing
  <2>2. CASE Takes(r)
    <3>1. pc'[r] \in {"hold", "release"} /\ kept' = NotKept
      BY <2>2, TakesOne
    <3>2. \A s \in AtWork' : s = r
      BY <1>1, <2>2, <3>1, OneAtWork DEF Passes, DisarmAll, WindowEnds, Goto, Calls, CallTypeOK
    <3> QED BY <3>1, <3>2 DEF Standing
  <2>3. CASE Passes(r)
    <3>1. r \notin AtWork' /\ UNCHANGED <<kept, armed>>
      BY <2>3 DEF Passes, DisarmAll, WindowEnds, Goto, AtWork, Working, Pcs, Calls, CallTypeOK, hostVars
    <3>2. \A s \in AtWork' : s \in AtWork /\ pc'[s] = pc[s] /\ hold'[s] = hold[s]
      BY <1>1, <3>1, OthersStay DEF AtWork
    <3>3. guard' = guard
      BY <2>3, AwayKeepsTable DEF Passes, AwayFromTable, tableVars
    <3> QED BY <1>e, <3>1, <3>2, <3>3 DEF Standing
  <2>4. CASE Keep(r)
    <3>1. r \in AtWork /\ kept' = [arm |-> r, hold |-> hold[r]] /\ r \in Siblings
      BY <2>4, WorksOn
    <3>2. pc[r] = "held" /\ armed' = armed
      BY <2>4 DEF Keep, Goto, hostVars
    <3>3. ~ Passes(r) /\ r \notin AtWork'
      BY <2>4, <3>2, WorksOn DEF Passes, DisarmAll, WindowEnds, Goto
    <3>4. AtWork' = {}
      BY <1>1, <3>1, <3>3, OneAtWork
    <3>5. r \notin Relaunches /\ Required(r) = Hosts
      BY <3>1 DEF Own, Required, Tolerated
    <3>6. Hosts \subseteq armed
      BY <1>e, <3>1, <3>2, <3>5 DEF Standing, DrainKnown
    <3> QED BY <3>2, <3>4, <3>6 DEF Standing
  <2>5. CASE Works(r)
    <3>1. r \in AtWork
      BY <2>5, WorksOn
    <3>2. ~ Passes(r)
      BY <3>1 DEF Passes, DisarmAll, WindowEnds, Goto, AtWork, Working, Pcs
    <3>3. kept' = NotKept /\ \A s \in AtWork' : s = r
      BY <1>1, <2>5, <3>2, OneAtWork
    <3>4. Answers(r)
      BY <1>e, <3>1 DEF Answered
    <3>5. r \in AtWork' /\ guard'[hold'[r]].drained =>
            /\ pc'[r] \in {"wait", "askOthers", "armed", "held", "committed"} => Required(r) \subseteq armed'
            /\ pc'[r] = "waitOthers" => Hosts \subseteq armed'
      BY <1>e, <2>5, <3>1, <3>4, WorkStands DEF Standing
    <3>6. Required(r)' = Required(r)
      BY DEF Required, Tolerated
    <3> QED BY <3>3, <3>5, <3>6 DEF Standing
  <2> QED BY <1>1, <2>1, <2>2, <2>3, <2>4, <2>5, KindsOfStep
<1>2. CASE (\E a \in Adopters : AdoptionStep(a)) \/ ExitStep \/ UNCHANGED vars
  <2>1. UNCHANGED <<pc, hold, kept>> /\ \A q \in Closers \ {Exit} : guard'[q] = guard[q]
    BY <1>2, Bystanders DEF callVars
  <2>2. AtWork' = AtWork
    BY <2>1 DEF AtWork
  <2>3. ASSUME NEW r \in AtWork, guard[hold[r]].drained,
               pc[r] \in {"wait", "askOthers", "armed", "held", "committed", "waitOthers"}
        PROVE armed' = armed
    <3>1. hold[r] \in Closers /\ guard[hold[r]].at \in {"held", "forgotten"}
      BY <2>3 DEF Guarded, GuardAt
    <3> QED BY <1>e, <1>2, <2>3, <3>1, NoneDisarmed
  <2>4. ASSUME kept # NotKept PROVE armed' = armed
    <3>1. kept.hold \in Closers /\ guard[kept.hold].at = "held" /\ guard[kept.hold].drained
      BY <2>4 DEF Guarded, DrainKnown, Calls, HoldNamed
    <3> QED BY <1>e, <1>2, <3>1, NoneDisarmed
  <2>5. \A r \in AtWork : hold[r] \in Closers \ {Exit}
    BY DEF Guarded
  <2> QED BY <1>e, <2>1, <2>2, <2>3, <2>4, <2>5 DEF Standing, Required, Tolerated
<1> QED BY <1>1, <1>2 DEF Next

\* A hold that is armed or was committed, and a sibling's window, stands until exit
\* takes over, in an instance no other asks to disarm: no adoption of this one
\* disarms a host the hold answers for, since it waited for the adoptions before it
\* and admits none after (commands/update.rs:297-304, host_lifecycle.rs:861-871).
THEOREM ArmAlwaysStands == Disarms = {} /\ Spec => []ArmStands
<1>1. Init => DrainKnown /\ Standing
  BY HostLifecycleAssumption DEF Init, DrainKnown, Standing, AtWork, Working, Pcs
<1>2. TypeOK /\ Calls /\ GuardsInForce /\ HoldsAnswer /\ DrainKnown /\ [Next]_vars => DrainKnown'
  BY DrainKnownPreserved DEF HoldsAnswer, ExitSafe
<1>3. Disarms = {} /\ TypeOK /\ Calls /\ GuardsInForce /\ DrainedIsQuiet /\ HoldsAnswer
        /\ DrainKnown /\ DrainKnown' /\ Standing /\ [Next]_vars => Standing'
  BY StandingPreserved
<1>4. (Disarms = {})' <=> Disarms = {}
  OBVIOUS
<1>5. Calls /\ DrainKnown /\ Standing => ArmStands
  <2> SUFFICES ASSUME Calls, DrainKnown, Standing, ~ Exiting PROVE ArmStands
    BY DEF ArmStands
  <2>1. ASSUME NEW r \in Own, pc[r] \in {"held", "committed"}, r \in Offloads \/ guard[r].drained
        PROVE Required(r) \subseteq armed
    <3>1. r \in AtWork /\ hold[r] = r
      BY <2>1 DEF AtWork, Working, Pcs, Runners, DrainKnown
    <3>2. guard[r].drained
      BY <2>1, <3>1, HostLifecycleAssumption DEF DrainKnown
    <3> QED BY <2>1, <3>1, <3>2 DEF Standing
  <2> QED BY <2>1 DEF ArmStands, Standing
<1> QED BY <1>1, <1>2, <1>3, <1>4, <1>5, UsesTheTable, TableTypeCorrect, GuardsAlwaysInForce,
           DrainedIsAlwaysQuiet, CallsAlways, HoldsAnswerAlways, PTL DEF Spec

=============================================================================
