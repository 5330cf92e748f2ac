------------------------------ MODULE PtyHost ------------------------------
(***************************************************************************)
(* The PTY host sidecar that owns the shells: SessionManager               *)
(* (pty-host/src/manager.rs) driven by the serve loop                      *)
(* (pty-host/src/transport/mod.rs), composed with the MCP-hold record      *)
(* (McpHold).  One client is served at a time; when its connection closes  *)
(* the host decides between holding the sessions for a relaunch and        *)
(* tearing them down.                                                      *)
(*                                                                         *)
(* The client is the environment: it connects, sends any frame in any      *)
(* order with or without the right token, and drops at any point.          *)
(* Children die, holder tasks end and active time passes at any point.     *)
(*                                                                         *)
(* A definition named Mut... is a variant with a plausible bug, which the  *)
(* runs must tell from the definition that follows it.                     *)
(***************************************************************************)
EXTENDS McpHold

CONSTANTS Tabs,          \* tab ids
          Children,      \* identities of hosted child processes, reused
          NoChild,       \* no session registered under a tab
          HoldTicks,     \* LOCAL_HOLD_ACTIVE_SECS in ticks of active time
          GenMod,        \* the u64 generation, narrowed: it wraps at GenMod
          ClockMayFail,  \* the active clock may have no reading
          KillMayWedge   \* a kill may outlast TEARDOWN_KILL_GRACE

ASSUME PtyHostAssumption ==
  /\ NoChild \notin Children
  /\ HoldTicks \in Nat \ {0}
  /\ GenMod \in Nat \ {0}
  /\ ClockMayFail \in BOOLEAN
  /\ KillMayWedge \in BOOLEAN

VARIABLES
  pc,          \* where the serve loop is
  adopted,     \* this connection has sent a lifecycle frame
  survivable,  \* the start-up verdict: this host can outlive the GUI
  sessions,    \* manager.sessions: tab -> child, or NoChild
  attached,    \* tabs whose session streams live output
  child,       \* the state of each child process and of its kill
  arm,         \* armed_deadline, armed_purpose, absence_started_at, generation
  shutdown,    \* shutdown_requested
  mcp,         \* the MCP-hold record
  deadline,    \* pending_deadline of the serve loop
  joined,      \* holder handles `finish` awaits
  lastWord,    \* history: the last arm or quit accepted on this connection
  quiet        \* history: active time since the absence began, unadopted

vars == <<pc, adopted, survivable, sessions, attached, child, arm, shutdown,
          mcp, deadline, joined, lastWord, quiet>>

-----------------------------------------------------------------------------
(* "live": the process runs.  "gone": it ended, the reader has not seen    *)
(* EOF.  "exited": the reader has.  "doomed": a kill that teardown waits   *)
(* for is in flight.  "dropped": a fire-and-forget kill is in flight.      *)
ChildStates == {"free", "live", "gone", "exited", "doomed", "dropped"}

ArmType == [deadline : BOOLEAN, purpose : {"none", "local"},
            absent   : BOOLEAN, gen : 0 .. GenMod - 1]

NoDeadline == [kind |-> "none", gen |-> 0, left |-> 0]
DeadlineType == [kind : {"none", "awaiting", "established"},
                 gen  : 0 .. GenMod - 1, left : 0 .. HoldTicks]

TypeOK ==
  /\ pc \in {"accept", "top", "read", "wait", "teardown", "finish", "down"}
  /\ adopted \in BOOLEAN
  /\ survivable \in BOOLEAN
  /\ sessions \in [Tabs -> Children \cup {NoChild}]
  /\ attached \subseteq Tabs
  /\ child \in [Children -> ChildStates]
  /\ arm \in ArmType
  /\ shutdown \in BOOLEAN
  /\ mcp \in McpType
  /\ deadline \in DeadlineType
  /\ joined \subseteq Holders
  /\ lastWord \in {"none", "arm", "quit"}
  /\ quiet \in 0 .. HoldTicks

Init ==
  /\ pc = "accept"
  /\ adopted = FALSE
  /\ survivable \in BOOLEAN
  /\ sessions = [t \in Tabs |-> NoChild]
  /\ attached = {}
  /\ child = [c \in Children |-> "free"]
  /\ arm = [deadline |-> FALSE, purpose |-> "none", absent |-> FALSE, gen |-> 0]
  /\ shutdown = FALSE
  /\ mcp = McpInit
  /\ deadline = NoDeadline
  /\ joined = {}
  /\ lastWord = "none"
  /\ quiet = 0

-----------------------------------------------------------------------------
(* Helpers of the manager. *)

Hosted == {t \in Tabs : sessions[t] # NoChild}
Registered == {sessions[t] : t \in Hosted}
LiveTabs == {t \in Hosted : child[sessions[t]] \in {"live", "gone"}}

MutNextGenUnwrapped(g) == g + 1
NextGen(g) == (g + 1) % GenMod

(* What adoption, Disarm and Shutdown leave of an arm. *)
Spent(a) == [deadline |-> FALSE, purpose |-> "none", absent |-> FALSE,
             gen |-> NextGen(a.gen)]

MutLocalHoldOfAnyAge(g) == arm.purpose = "local"
LocalHoldIsCurrent(g) == arm.purpose = "local" /\ arm.absent /\ arm.gen = g

Expirable == /\ deadline.kind = "established"
             /\ deadline.left = 0
             /\ LocalHoldIsCurrent(deadline.gen)

(* A clock sample: TRUE is a reading. *)
Samples == IF ClockMayFail THEN BOOLEAN ELSE {TRUE}

NewDeadline(ok, g) == [kind |-> IF ok THEN "established" ELSE "awaiting",
                       gen  |-> g, left |-> HoldTicks]

(* An awaiting deadline is established by the first readable sample. *)
Sampled(ok) == IF deadline.kind = "awaiting" /\ ok
               THEN NewDeadline(TRUE, deadline.gen) ELSE deadline

(* Session::kill and Drop on a removed session: nothing is started for a   *)
(* child that has exited, and a process already gone needs no kill.        *)
Killed(c, how) == IF child[c] = "live" THEN how ELSE "free"

-----------------------------------------------------------------------------
(* Hearing a frame.  `authentic` is authenticates_lifecycle: the first     *)
(* such frame of a connection adopts the host and spends the old arm       *)
(* before it is dispatched.  A hold already past its deadline wins the     *)
(* tie, unless the clock has no reading.                                   *)

Adopts(authentic) == authentic /\ ~adopted

Hear(authentic) ==
  /\ pc = "read"
  /\ Adopts(authentic) /\ Expirable => ClockMayFail
  /\ pc' = "top"
  /\ adopted' = (adopted \/ authentic)
  /\ quiet' = IF authentic THEN 0 ELSE quiet
  /\ UNCHANGED <<survivable, deadline, joined>>

(* on_gui_connect, as the frame's own handler finds the state. *)
HeardArm(authentic) == IF Adopts(authentic) THEN Spent(arm) ELSE arm
HeardShutdown(authentic) == shutdown /\ ~Adopts(authentic)
HeardMcp(authentic, byClaim) ==
  IF Adopts(authentic) THEN OnAdopted(mcp, byClaim) ELSE mcp

Spawn(t) ==
  /\ Hear(FALSE)
  /\ \E c \in {x \in Children : child[x] = "free"} :
       /\ sessions' = [sessions EXCEPT ![t] = c]
       /\ child' = [x \in Children |->
                      IF x = c THEN "live"
                      ELSE IF x = sessions[t] THEN Killed(x, "dropped")
                      ELSE child[x]]
  /\ attached' = attached \cup {t}
  /\ UNCHANGED <<arm, shutdown, mcp, lastWord>>

Close(t) ==
  /\ t \in Hosted
  /\ Hear(FALSE)
  /\ sessions' = [sessions EXCEPT ![t] = NoChild]
  /\ child' = [child EXCEPT ![sessions[t]] = Killed(sessions[t], "dropped")]
  /\ attached' = attached \ {t}
  /\ UNCHANGED <<arm, shutdown, mcp, lastWord>>

(* Attach and AttachAcked of a hosted tab. *)
Attach(t) ==
  /\ t \in Hosted
  /\ Hear(FALSE)
  /\ attached' = attached \cup {t}
  /\ UNCHANGED <<sessions, child, arm, shutdown, mcp, lastWord>>

ListSessions ==
  /\ Hear(TRUE)
  /\ arm' = HeardArm(TRUE)
  /\ shutdown' = HeardShutdown(TRUE)
  /\ mcp' = HeardMcp(TRUE, FALSE)
  /\ UNCHANGED <<sessions, attached, child, lastWord>>

(* A frame that leaves the manager as it is: Resize, Stdin, a permission   *)
(* query, a failed Spawn, an unknown tab, any frame with a wrong token.    *)
OtherFrame ==
  /\ Hear(FALSE)
  /\ UNCHANGED <<sessions, attached, child, arm, shutdown, mcp, lastWord>>

(* An unsurvivable host withholds the acknowledgement and arms nothing. *)
ArmDetach(purpose) ==
  /\ Hear(TRUE)
  /\ shutdown' = HeardShutdown(TRUE)
  /\ IF survivable
     THEN /\ arm' = [deadline |-> TRUE, purpose |-> purpose, absent |-> FALSE,
                     gen |-> NextGen(HeardArm(TRUE).gen)]
          /\ mcp' = IF purpose = "local" THEN HeardMcp(TRUE, FALSE)
                    ELSE ClearPending(HeardMcp(TRUE, FALSE))
          /\ lastWord' = "arm"
     ELSE /\ arm' = HeardArm(TRUE)
          /\ mcp' = HeardMcp(TRUE, FALSE)
          /\ UNCHANGED lastWord
  /\ UNCHANGED <<sessions, attached, child>>

(* Disarm carries no token and does not adopt. *)
Disarm ==
  /\ Hear(FALSE)
  /\ mcp' = OnDisarm(mcp)
  /\ arm' = Spent(arm)
  /\ lastWord' = IF lastWord = "arm" THEN "none" ELSE lastWord
  /\ UNCHANGED <<sessions, attached, child, shutdown>>

MutShutdownThenAdopt ==
  /\ Hear(TRUE)
  /\ shutdown' = adopted
  /\ mcp' = StopHolder(HeardMcp(TRUE, FALSE))
  /\ arm' = Spent(HeardArm(TRUE))
  /\ lastWord' = "quit"
  /\ UNCHANGED <<sessions, attached, child>>

Shutdown ==
  /\ Hear(TRUE)
  /\ shutdown' = TRUE
  /\ mcp' = StopHolder(HeardMcp(TRUE, FALSE))
  /\ arm' = Spent(HeardArm(TRUE))
  /\ lastWord' = "quit"
  /\ UNCHANGED <<sessions, attached, child>>

(* Taken only under a Local arm that has a deadline; a crash hold has none. *)
HoldMcp ==
  /\ Hear(FALSE)
  /\ mcp' = IF ~HoldBlocked(mcp) /\ arm.purpose = "local" /\ arm.deadline
            THEN SetPending(mcp) ELSE Reconcile(mcp)
  /\ UNCHANGED <<sessions, attached, child, arm, shutdown, lastWord>>

ClaimMcp ==
  /\ Hear(TRUE)
  /\ arm' = HeardArm(TRUE)
  /\ shutdown' = HeardShutdown(TRUE)
  /\ mcp' = Claim(HeardMcp(TRUE, TRUE))
  /\ UNCHANGED <<sessions, attached, child, lastWord>>

ReleaseMcp ==
  /\ Hear(FALSE)
  /\ mcp' = StopHolder(mcp)
  /\ UNCHANGED <<sessions, attached, child, arm, shutdown, lastWord>>

-----------------------------------------------------------------------------
(* Teardown: every registered session is killed and the kills are awaited. *)

TearDownSessions(m) ==
  /\ pc' = "teardown"
  /\ mcp' = StopHolder(m)
  /\ child' = [c \in Children |->
                 IF c \in Registered THEN Killed(c, "doomed") ELSE child[c]]
  /\ sessions' = [t \in Tabs |-> NoChild]
  /\ attached' = {}
  /\ adopted' = FALSE
  /\ deadline' = NoDeadline
  /\ UNCHANGED <<survivable, arm, shutdown, joined, lastWord, quiet>>

(* Leave the serve loop: every holder is told to stop, its handle kept. *)
LeaveServe ==
  /\ pc' = "finish"
  /\ mcp' = TakeForShutdown(mcp)
  /\ joined' = ShutdownHandles(mcp)
  /\ deadline' = NoDeadline
  /\ UNCHANGED <<adopted, survivable, sessions, attached, child, arm,
                 shutdown, lastWord, quiet>>

DetachAll == attached' = {}

(* The last step of the disconnect: sessions stop streaming and, under a   *)
(* Local purpose, a fresh bounded absence begins.                          *)
EnterHold(a, m) ==
  /\ pc' = "wait"
  /\ DetachAll
  /\ adopted' = FALSE
  /\ quiet' = 0
  /\ IF a.purpose = "local"
     THEN /\ arm' = [a EXCEPT !.absent = TRUE, !.gen = NextGen(@)]
          /\ mcp' = OnAbsenceBegun(m)
          /\ \E ok \in Samples : deadline' = NewDeadline(ok, NextGen(a.gen))
     ELSE /\ arm' = a
          /\ mcp' = StopHolder(m)
          /\ deadline' = NoDeadline
  /\ UNCHANGED <<survivable, sessions, child, shutdown, joined, lastWord>>

MustTearDown == shutdown \/ ~survivable \/ LiveTabs = {}

DisconnectArmed ==
  /\ pc = "read"
  /\ arm.deadline
  /\ EnterHold(arm, OnDisconnect(mcp))

MutTearDownBeforeArm ==
  /\ pc = "read"
  /\ MustTearDown
  /\ TearDownSessions(OnDisconnect(mcp))

DisconnectTearDown ==
  /\ pc = "read"
  /\ ~arm.deadline
  /\ MustTearDown
  /\ TearDownSessions(OnDisconnect(mcp))

(* An unannounced disconnect over live sessions opens a crash hold. *)
DisconnectCrash ==
  /\ pc = "read"
  /\ ~arm.deadline
  /\ ~MustTearDown
  /\ EnterHold([arm EXCEPT !.purpose = "local", !.absent = FALSE],
               OnDisconnect(mcp))

-----------------------------------------------------------------------------
(* The serve loop. *)

Connected ==
  /\ pc' = "top"
  /\ adopted' = FALSE
  /\ lastWord' = "none"
  /\ UNCHANGED <<survivable, sessions, attached, child, arm, shutdown, mcp,
                 deadline, joined, quiet>>

FirstAccept == pc = "accept" /\ Connected
FirstAcceptFails == pc = "accept" /\ LeaveServe
Reconnect == pc = "wait" /\ Connected

Expire == Expirable /\ TearDownSessions(mcp)

(* The check before each read and at every watchdog tick. *)
MutWatchWithoutTimer(ok) ==
  /\ pc \in {"top", "read"}
  /\ pc' = "read"
  /\ UNCHANGED <<deadline, adopted, survivable, sessions, attached, child, arm,
                 shutdown, mcp, joined, lastWord, quiet>>
Watch(ok) ==
  /\ pc \in {"top", "read"}
  /\ \/ ok /\ Expire
     \/ /\ ~(ok /\ Expirable)
        /\ pc' = "read"
        /\ deadline' = Sampled(ok)
        /\ UNCHANGED <<adopted, survivable, sessions, attached, child, arm,
                       shutdown, mcp, joined, lastWord, quiet>>

(* With no live child the host only lingers for a running MCP holder under *)
(* an established deadline.                                                *)
Lingers == IsRunning(mcp) /\ deadline.kind = "established"

Recheck(ok) ==
  /\ pc = "wait"
  /\ \/ LiveTabs = {} /\ ~Lingers /\ LeaveServe
     \/ /\ LiveTabs # {} \/ Lingers
        /\ \/ ok /\ Expire
           \/ /\ ~(ok /\ Expirable)
              /\ deadline' = Sampled(ok)
              /\ UNCHANGED <<pc, adopted, survivable, sessions, attached,
                             child, arm, shutdown, mcp, joined, lastWord, quiet>>

(* The awaited kills are done, or one outlasted the grace. *)
MutTearDownUnawaited == pc = "teardown" /\ LeaveServe
TearDownDone ==
  /\ pc = "teardown"
  /\ (\A c \in Children : child[c] # "doomed") \/ KillMayWedge
  /\ LeaveServe

(* The holders are joined and the process exits, dropping the manager. *)
HostExits ==
  /\ pc = "finish"
  /\ \A h \in joined : mcp.task[h] = "ended"
  /\ pc' = "down"
  /\ child' = [c \in Children |->
                 IF c \in Registered THEN Killed(c, "dropped") ELSE child[c]]
  /\ sessions' = [t \in Tabs |-> NoChild]
  /\ attached' = {}
  /\ UNCHANGED <<adopted, survivable, arm, shutdown, mcp, deadline, joined,
                 lastWord, quiet>>

-----------------------------------------------------------------------------
(* Children, kill threads, holder tasks and time. *)

ChildStep(c, from, to) ==
  /\ pc # "down"
  /\ child[c] \in from
  /\ child' = [child EXCEPT ![c] = to]
  /\ UNCHANGED <<pc, adopted, survivable, sessions, attached, arm, shutdown,
                 mcp, deadline, joined, lastWord, quiet>>

ChildDies(c) == ChildStep(c, {"live"}, "gone")
OutputEnds(c) == ChildStep(c, {"gone"}, "exited")
KillFinishes(c) == ChildStep(c, {"doomed", "dropped"}, "free")

HolderEnds(h) ==
  /\ pc # "down"
  /\ mcp.task[h] # "ended"
  /\ mcp' = Ended(mcp, h)
  /\ UNCHANGED <<pc, adopted, survivable, sessions, attached, child, arm,
                 shutdown, deadline, joined, lastWord, quiet>>

(* One tick of active time, while a hold is being timed. *)
TimePasses ==
  /\ pc \in {"wait", "top", "read"}
  /\ deadline.kind # "none"
  /\ \/ deadline.kind = "established" /\ deadline.left > 0
     \/ ~adopted /\ quiet < HoldTicks
  /\ deadline' = IF deadline.kind = "established" /\ deadline.left > 0
                 THEN [deadline EXCEPT !.left = @ - 1] ELSE deadline
  /\ quiet' = IF ~adopted /\ quiet < HoldTicks THEN quiet + 1 ELSE quiet
  /\ UNCHANGED <<pc, adopted, survivable, sessions, attached, child, arm,
                 shutdown, mcp, joined, lastWord>>

Terminated == pc = "down" /\ UNCHANGED vars

Frame ==
  \/ \E t \in Tabs : Spawn(t) \/ Close(t) \/ Attach(t)
  \/ ListSessions \/ OtherFrame
  \/ \E p \in {"none", "local"} : ArmDetach(p)
  \/ Disarm \/ Shutdown \/ HoldMcp \/ ClaimMcp \/ ReleaseMcp

Disconnect == DisconnectArmed \/ DisconnectTearDown \/ DisconnectCrash

Next ==
  \/ FirstAccept \/ FirstAcceptFails \/ Reconnect
  \/ Frame
  \/ Disconnect
  \/ \E ok \in Samples : Watch(ok) \/ Recheck(ok)
  \/ TearDownDone \/ HostExits
  \/ \E c \in Children : ChildDies(c) \/ OutputEnds(c) \/ KillFinishes(c)
  \/ \E h \in Holders : HolderEnds(h)
  \/ TimePasses
  \/ Terminated

Spec == Init /\ [][Next]_vars

(* The host's own loop, kill threads and timers keep going; nothing is     *)
(* assumed of the client or of the children.  A readable clock sample is   *)
(* taken again and again (SystemActiveClock), and a stopped holder ends    *)
(* within STOP_BOUND or is aborted.                                        *)
Fairness ==
  /\ WF_vars(Watch(TRUE))
  /\ WF_vars(Recheck(TRUE))
  /\ WF_vars(TearDownDone)
  /\ WF_vars(HostExits)
  /\ WF_vars(TimePasses)
  /\ \A c \in Children : WF_vars(OutputEnds(c)) /\ WF_vars(KillFinishes(c))
  /\ \A h \in Holders : WF_vars(mcp.task[h] = "stop" /\ HolderEnds(h))

FairSpec == Spec /\ Fairness

-----------------------------------------------------------------------------
(* Safety. *)

(* A quit is kept: once a client has said Shutdown and has not armed since, *)
(* the end of its connection never leaves a hold behind.  The adoption that *)
(* resets the latch must come before the latch is set (run_connection,      *)
(* authenticates_lifecycle).                                                *)
QuitIsKept == pc = "wait" => lastWord # "quit"

(* An arm acknowledged on a connection is honoured when it ends: the host   *)
(* never goes from that connection into teardown, neither by the disconnect *)
(* nor by the timer of an older hold.                                       *)
ArmIsHonoured ==
  [][(pc \in {"top", "read"} /\ lastWord = "arm") => pc' # "teardown"]_vars

(* An arm never outlives the absence it was set for: under an adopted       *)
(* client only that client's own arm is in force.                           *)
ArmEndsWithAbsence == adopted /\ lastWord # "arm" => ~arm.deadline

(* Live sessions are destroyed only at the end of a connection that was     *)
(* announced as a quit (or of any connection, when the host would die with  *)
(* the GUI), or when a Local hold has lasted its whole active time without  *)
(* a client that adopted it.                                                *)
LiveSessionsKept ==
  [][LiveTabs # {} /\ pc' \in {"teardown", "finish"} /\ pc' # pc =>
       \/ pc = "read" /\ ~arm.deadline /\ (shutdown \/ ~survivable)
       \/ arm.purpose = "local" /\ quiet = HoldTicks /\ ~adopted]_vars

(* While no client is connected no session streams: what it prints stays in *)
(* the ring, to be replayed, instead of filling the outbound queue.         *)
HeldSessionsDetached == pc = "wait" => attached = {}

(* A holder serves the wait message only for the absence it was accepted    *)
(* for, and hands back only to a client that is connected and adopted.      *)
HolderMatchesGui ==
  \A h \in Holders :
    /\ mcp.task[h] = "absent" =>
         ~adopted /\ arm.deadline /\ arm.purpose = "local"
    /\ mcp.task[h] = "handback" => adopted /\ pc \in {"top", "read"}

(* At most one holder task exists, the one still stopping included, and a   *)
(* spec is pending only when none does (McpHold::retiring).                 *)
OneHolder ==
  /\ \A g, h \in Unfinished(mcp) : g = h
  /\ mcp.state = "pending" => Unfinished(mcp) = {}

(* A pending hold is valid only under a Local arm of a connected client.    *)
PendingUnderLocalArm ==
  mcp.state = "pending" =>
    arm.deadline /\ arm.purpose = "local" /\ pc \in {"top", "read"}

(* Every way out of the serve loop has ordered each unfinished holder to    *)
(* stop and waits for it, and none is left when the process exits.          *)
EveryHolderJoined ==
  /\ pc = "finish" =>
       \A h \in Unfinished(mcp) : h \in joined /\ mcp.task[h] = "stop"
  /\ pc = "down" => Unfinished(mcp) = {}

(* The last word of a client is kept, the quit and the arm alike.           *)
LastWordKept == QuitIsKept /\ ArmEndsWithAbsence

(* A hold keeps the sessions silent and its one holder in step with the     *)
(* client, through every way out of it.                                     *)
HoldSound ==
  HeldSessionsDetached /\ HolderMatchesGui /\ OneHolder /\ PendingUnderLocalArm /\ EveryHolderJoined

(* A session registered when the host tears down does not outlive it, as    *)
(* long as its kill finishes within the grace.                              *)
TornDownChildrenDie ==
  pc = "down" => \A c \in Children : child[c] \notin {"live", "doomed"}

(* How a connection, or an absence, may end: an acknowledged arm wins over  *)
(* everything, and live sessions go only as announced or after the silence. *)
EndsSound == ArmIsHonoured /\ LiveSessionsKept

(* What the GUI may rely on.  A session whose process ended, but not yet    *)
(* its output, is one that runs (live_session_count).                       *)
ContractAt ==
  CASE pc = "accept" -> "fresh"
    [] pc \in {"top", "read"} -> "served"
    [] pc = "wait" -> "held"
    [] pc \in {"teardown", "finish"} -> "ending"
    [] pc = "down" -> "gone"

ShellOf(t) == IF sessions[t] = NoChild THEN "none"
              ELSE IF child[sessions[t]] \in {"live", "gone"} THEN "runs"
              ELSE "ended"
Shells == [t \in Tabs |-> ShellOf(t)]

Contract == INSTANCE HostContract WITH
  at <- ContractAt,
  shell <- Shells,
  streams <- attached,
  survives <- survivable,
  armed <- arm.deadline,
  bounded <- arm.purpose = "local",
  quitting <- shutdown,
  silent <- quiet = HoldTicks

(* The host keeps the contract its client relies on: every frame, drop,     *)
(* expiry and exit is a step the contract allows, or one no client can tell *)
(* (SessionManager and serve_loop).                                         *)
ImplementsContract == Contract!Spec

-----------------------------------------------------------------------------
(* Liveness. *)

(* Without a client, only an unlabelled (sibling) arm over a live child     *)
(* keeps the host waiting for ever.                                         *)
OnlySiblingHoldsWaitForever ==
  <>[](pc = "wait") => <>[](arm.purpose # "local" /\ LiveTabs # {})

(* A client that stays connected without adopting cannot outstay a Local    *)
(* hold, whatever frames it sends.                                          *)
SilentClientCannotOutstayHold ==
  <>[](pc \in {"top", "read"} /\ ~adopted) => <>[]~LocalHoldIsCurrent(arm.gen)

(* No Local hold lasts for ever, with or without a client.                  *)
HoldsEnd == OnlySiblingHoldsWaitForever /\ SilentClientCannotOutstayHold

(* Once it has decided to end, the process exits.                           *)
HostExitsOnceLeaving == pc \in {"teardown", "finish"} ~> pc = "down"

-----------------------------------------------------------------------------
(* What the comments say and the code does not do. *)

(* session.rs: a fire-and-forget kill is right because the process keeps    *)
(* running after an interactive close, "so the thread finishes".            *)
ClosedKillsFinish == pc = "down" => \A c \in Children : child[c] # "dropped"

(* manager.rs: an arm is spent by the first frame received on a connection. *)
(* After any frame, an arm in force is one this connection has set.         *)
ArmSpentByFirstFrame ==
  [][pc = "read" /\ pc' = "top" => (arm'.deadline => lastWord' = "arm")]_vars

(* manager.rs: an armed hold has one absolute deadline, which a reconnect   *)
(* never restarts.                                                          *)
ReconnectNeverRestarts ==
  [][(/\ pc = "read" /\ pc' = "wait" /\ ~adopted /\ arm.deadline
      /\ deadline.kind = "established"
      /\ LocalHoldIsCurrent(deadline.gen))
        => deadline'.left <= deadline.left]_vars
=============================================================================
