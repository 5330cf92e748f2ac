---------------------------- MODULE HostLifecycle ----------------------------
(***************************************************************************)
(* The callers that close admission to the hosts                           *)
(* (src-tauri/src/state/host_lifecycle.rs), composed with the table: an    *)
(* offload, update or relaunch of this process, which arms every host so   *)
(* that its shells outlive the process; a sibling instance asking for the  *)
(* same over HTTP; an exit, which disarms, shuts down and disconnects      *)
(* every host and may take the table over from any of them; and adoptions, *)
(* which disarm the host they connect to.                                  *)
(*                                                                         *)
(* A frame takes effect when it is put on the write queue: a host handles  *)
(* the frames of its one connection in order, so only that order matters.  *)
(* Between two awaits a caller is never held up for as long as the bound   *)
(* of a quiesce; that is the one assumption on time (ExitTimesOut).        *)
(*                                                                         *)
(* A definition named Mut... is a variant with a plausible bug, which the  *)
(* checks put in the place of the definition that follows it.              *)
(***************************************************************************)
EXTENDS HostTable

CONSTANTS
    Hosts,         \* the hosts this instance owns
    Primary,       \* the current host, the one a relaunch needs
    Offloads,      \* offloads and updates of this process
    Relaunches,    \* restarts that keep the terminals
    Siblings,      \* arm requests of other instances
    Disarms,       \* disarm requests of other instances
    Adopters,      \* adoptions and reconnects
    Exit           \* the quit

Own     == Offloads \cup Relaunches
Runners == Own \cup Siblings \cup Disarms

ASSUME HostLifecycleAssumption ==
    /\ Primary \in Hosts
    /\ Ops = Runners \cup Adopters
    /\ Closers = Own \cup Siblings \cup {Exit}
    /\ Exit \notin Runners
    /\ Cancellable \subseteq Siblings
    /\ Adopters \cap Runners = {}
    /\ Siblings \cap Own = {}
    /\ Disarms \cap (Own \cup Siblings) = {}
    /\ None \notin Closers \cup Runners
    /\ Offloads \cap Relaunches = {}

VARIABLES
    pc,            \* where each runner is
    hold,          \* per runner: the Hold it works on, named by its guard's closer
    mine,          \* per Hold: Hold::armed, the hosts it has to disarm
    previous,      \* per runner: what arm_detach puts back when it fails
    kept,          \* SiblingSlot: the Hold it keeps and the arm that kept it
    adopting,      \* where each adoption is
    armed,         \* hosts that are armed, counting every frame queued to them
    disarmed,      \* hosts the exit has sent its Disarm
    told,          \* hosts the exit has told that the disconnect is final
    closed         \* hosts the exit has closed the connection to

hostVars == <<armed, disarmed, told, closed>>
callVars == <<pc, hold, mine, previous, kept>>
vars == <<tableVars, callVars, adopting, hostVars>>

NotKept == [arm |-> None, hold |-> None]

\* Hosts that may fail to arm without failing the hold.
Tolerated(r) == IF r \in Relaunches THEN Hosts \ {Primary} ELSE {}
Required(r)  == Hosts \ Tolerated(r)

Pcs == {"idle", "quiesce", "refused", "hold", "begun", "ask", "wait", "askOthers",
        "waitOthers", "undone", "armed", "held", "release", "dropped", "releasing",
        "kept", "committed", "done"}

CallTypeOK ==
    /\ pc \in [Runners -> Pcs]
    /\ hold \in [Runners -> Closers \cup {None}]
    /\ mine \in [Closers -> SUBSET Hosts]
    /\ previous \in [Runners -> SUBSET Hosts]
    /\ kept \in [arm : Siblings \cup {None}, hold : Closers \cup {None}]
    /\ adopting \in [Adopters -> {"idle", "connected", "settled", "done"}]
    /\ armed \subseteq Hosts /\ disarmed \subseteq Hosts
    /\ told \subseteq Hosts /\ closed \subseteq Hosts

LifecycleTypeOK == TypeOK /\ CallTypeOK

Init ==
    /\ TableInit
    /\ pc = [r \in Runners |-> "idle"]
    /\ hold = [r \in Runners |-> None]
    /\ mine = [q \in Closers |-> {}]
    /\ previous = [r \in Runners |-> {}]
    /\ kept = NotKept
    /\ adopting = [a \in Adopters |-> "idle"]
    /\ armed = {} /\ disarmed = {} /\ told = {} /\ closed = {}

-----------------------------------------------------------------------------
(* Frames                                                                    *)

\* A frame on a connection the exit has closed reaches nobody.
Arm(hosts)    == armed' = armed \cup (hosts \ closed)
Disarm(hosts) == armed' = armed \ (hosts \ closed)

Goto(r, from, to) == pc[r] = from /\ pc' = [pc EXCEPT ![r] = to]

Exiting == lifecycle.mode = "Exiting"

-----------------------------------------------------------------------------
(* Closing admission (close_admission, begin_hold, begin_relaunch)            *)

\* A sibling's repeated request works on the hold that is kept; any other starts
\* by closing the table.
StartHold(r, reason) ==
    /\ Goto(r, "idle", "quiesce")
    /\ Quiesce(r, reason)
    /\ hold' = [hold EXCEPT ![r] = r]
    /\ UNCHANGED <<mine, previous, kept, adopting, hostVars>>

StartOwn(r)     == r \in Own /\ StartHold(r, "Offload")
StartSibling(r) == r \in Siblings /\ kept = NotKept /\ StartHold(r, "Update")

TakeKept(r, to) ==
    /\ Goto(r, "idle", to)
    /\ kept # NotKept
    /\ hold' = [hold EXCEPT ![r] = kept.hold]
    /\ kept' = NotKept
    /\ UNCHANGED <<tableVars, mine, previous, adopting, hostVars>>

Rearm(r) == r \in Siblings /\ TakeKept(r, "hold")

Drained(r) ==
    /\ Goto(r, "quiesce", "hold")
    /\ QuiesceDrained(r)
    /\ UNCHANGED <<hold, mine, previous, kept, adopting, hostVars>>

MutNeverStrict(r) == TRUE

\* Only a relaunch goes ahead over an operation still in flight at the bound.
GoesAhead(r) == r \in Relaunches

TimedOut(r) ==
    /\ Goto(r, "quiesce", IF GoesAhead(r) THEN "hold" ELSE "refused")
    /\ QuiesceTimeout(r)
    /\ UNCHANGED <<hold, mine, previous, kept, adopting, hostVars>>

\* A host that is unreachable, unresolved or would not survive refuses the hold.
HostsRefuse(r) ==
    /\ Goto(r, "hold", "refused")
    /\ mine[hold[r]] = {}
    /\ UNCHANGED <<tableVars, hold, mine, previous, kept, adopting, hostVars>>

\* The hold, or the guard alone, is dropped with nothing to disarm.
EndHold(r) ==
    /\ pc[r] \in {"refused", "releasing"}
    /\ pc' = [pc EXCEPT ![r] = IF r \in Own THEN "idle" ELSE "done"]
    /\ DropGuard(hold[r])
    /\ hold' = [hold EXCEPT ![r] = None]
    /\ UNCHANGED <<mine, previous, kept, adopting, hostVars>>

-----------------------------------------------------------------------------
(* Hold::arm_detach                                                          *)

\* The arm is registered as an operation in flight before anything is decided.
BeginArm(r) ==
    /\ Goto(r, "hold", "begun")
    /\ BeginAsQuiescer(r, hold[r])
    /\ UNCHANGED <<hold, mine, previous, kept, adopting, hostVars>>

\* The end of arm_detach and of its ticket.
EndArm(r, from, to) ==
    /\ Goto(r, from, to)
    /\ DropTicket(r)
    /\ UNCHANGED <<hold, previous, kept, adopting, hostVars>>

RefusedByExit(r) ==
    /\ Exiting
    /\ EndArm(r, "begun", "release")
    /\ UNCHANGED mine

\* refuse_if_exiting()
MayArm == ~ Exiting

\* From here on the hold has to disarm every host it is about to ask.
DecideToArm(r) ==
    /\ MayArm
    /\ Goto(r, "begun", "ask")
    /\ previous' = [previous EXCEPT ![r] = mine[hold[r]]]
    /\ mine' = [mine EXCEPT ![hold[r]] = Hosts]
    /\ UNCHANGED <<tableVars, hold, kept, adopting, hostVars>>

Ask(r) ==
    /\ Goto(r, "ask", "wait")
    /\ Arm(Required(r))
    /\ UNCHANGED <<tableVars, hold, mine, previous, kept, adopting, disarmed, told, closed>>

\* A required host did not acknowledge, so all of them are disarmed again: an arm
\* whose acknowledgement was lost may still have taken effect.
ArmFailed(r) ==
    /\ Goto(r, "wait", "undone")
    /\ Disarm(Required(r))
    /\ UNCHANGED <<tableVars, hold, mine, previous, kept, adopting, disarmed, told, closed>>

\* Every required host acknowledged. Exit does not wait past its bound for that,
\* so it may have taken the table over meanwhile.
ArmAcked(r) ==
    /\ Required(r) \cap closed = {}
    /\ IF MayArm
         THEN Goto(r, "wait", "askOthers") /\ UNCHANGED armed
         ELSE Goto(r, "wait", "undone") /\ Disarm(Required(r))
    /\ UNCHANGED <<tableVars, hold, mine, previous, kept, adopting, disarmed, told, closed>>

AskOthers(r) ==
    /\ Goto(r, "askOthers", "waitOthers")
    /\ Arm(Tolerated(r))
    /\ UNCHANGED <<tableVars, hold, mine, previous, kept, adopting, disarmed, told, closed>>

\* Each of the others that does not acknowledge is disarmed and left out; if exit
\* has come meanwhile, all are disarmed.
OthersAnswered(r) ==
    \E failed \in SUBSET Tolerated(r) :
      /\ Tolerated(r) \cap closed \subseteq failed
      /\ IF MayArm
           THEN /\ Goto(r, "waitOthers", "armed")
                /\ Disarm(failed)
                /\ mine' = [mine EXCEPT ![hold[r]] = Hosts \ failed]
           ELSE /\ Goto(r, "waitOthers", "undone")
                /\ Disarm(Hosts)
                /\ UNCHANGED mine
      /\ UNCHANGED <<tableVars, hold, previous, kept, adopting, disarmed, told, closed>>

\* The disarm was waited for; arm_detach returns its error, and its caller
\* releases the hold with what an earlier arm left in it.
ReturnFailed(r) ==
    /\ EndArm(r, "undone", "release")
    /\ mine' = [mine EXCEPT ![hold[r]] = previous[r]]

ReturnArmed(r) ==
    /\ EndArm(r, "armed", "held")
    /\ UNCHANGED mine

-----------------------------------------------------------------------------
(* What becomes of an armed hold                                             *)

\* Hold::commit: the process is about to exit armed.
Commit(r) ==
    /\ r \in Own
    /\ Goto(r, "held", "committed")
    /\ ForgetGuard(hold[r])
    /\ mine' = [mine EXCEPT ![hold[r]] = {}]
    /\ UNCHANGED <<hold, previous, kept, adopting, hostVars>>

\* The updater, or the relaunched process, did not start.
GiveUp(r) ==
    /\ r \in Own
    /\ Goto(r, "held", "release")
    /\ UNCHANGED <<tableVars, hold, mine, previous, kept, adopting, hostVars>>

\* SiblingSlot::keep, and the timer of the arm's window.
Keep(r) ==
    /\ r \in Siblings
    /\ Goto(r, "held", "kept")
    /\ kept' = [arm |-> r, hold |-> hold[r]]
    /\ hold' = [hold EXCEPT ![r] = None]
    /\ UNCHANGED <<tableVars, mine, previous, adopting, hostVars>>

MutNeverExpires(r) == FALSE

\* take_if(): the timer of one arm never ends the hold of a later one.
ExpiresArm(r) == kept.arm = r

WindowEnds(r) ==
    /\ IF ExpiresArm(r)
         THEN /\ Goto(r, "kept", "release")
              /\ hold' = [hold EXCEPT ![r] = kept.hold]
              /\ kept' = NotKept
         ELSE /\ Goto(r, "kept", "done")
              /\ UNCHANGED <<hold, kept>>
    /\ UNCHANGED <<tableVars, mine, previous, adopting, hostVars>>

\* A sibling's disarm request ends the hold that is kept ...
EndKept(r) == r \in Disarms /\ TakeKept(r, "release")

\* ... and with none kept it disarms every host, whoever armed it.
DisarmAll(r) ==
    /\ r \in Disarms
    /\ kept = NotKept
    /\ Goto(r, "idle", "done")
    /\ Disarm(Hosts)
    /\ UNCHANGED <<tableVars, hold, mine, previous, kept, adopting, disarmed, told, closed>>

MutReleaseKeepsArms(r) == UNCHANGED armed

\* The disarm frames of a hold that ends.
DisarmHold(r) == Disarm(mine[hold[r]])

\* Hold::release, and the task Hold::drop spawns for a hold with hosts armed: the
\* guard outlives the disarm.
Release(r) ==
    /\ pc[r] \in {"release", "dropped"}
    /\ pc' = [pc EXCEPT ![r] = "releasing"]
    /\ DisarmHold(r)
    /\ mine' = [mine EXCEPT ![hold[r]] = {}]
    /\ UNCHANGED <<tableVars, hold, previous, kept, adopting, disarmed, told, closed>>

-----------------------------------------------------------------------------
(* A sibling's HTTP handler is dropped at an await when its caller goes away  *)

CancelQuiesce(r) ==
    /\ Goto(r, "quiesce", "done")
    /\ QuiesceCancelled(r)
    /\ hold' = [hold EXCEPT ![r] = None]
    /\ UNCHANGED <<mine, previous, kept, adopting, hostVars>>

\* The arm's ticket goes first, then the hold.
CancelArm(r) ==
    /\ r \in Siblings
    /\ \E from \in {"wait", "waitOthers", "undone"} : EndArm(r, from, "dropped")
    /\ UNCHANGED mine

\* Only a hold that is new has something to wait for before it arms.
CancelHold(r) ==
    /\ r \in Siblings
    /\ hold[r] = r
    /\ Goto(r, "hold", "dropped")
    /\ UNCHANGED <<tableVars, hold, mine, previous, kept, adopting, hostVars>>

-----------------------------------------------------------------------------
(* Adoption (host_adoption.rs): every adoption disarms its host               *)

StartAdoption(a) ==
    /\ adopting[a] = "idle"
    /\ adopting' = [adopting EXCEPT ![a] = "connected"]
    /\ BeginAdoption(a)
    /\ UNCHANGED <<callVars, hostVars>>

Settle(a) ==
    /\ adopting[a] = "connected"
    /\ adopting' = [adopting EXCEPT ![a] = "settled"]
    /\ \E h \in Hosts : Disarm({h})
    /\ UNCHANGED <<tableVars, callVars, disarmed, told, closed>>

EndAdoption(a) ==
    /\ adopting[a] \in {"connected", "settled"}
    /\ adopting' = [adopting EXCEPT ![a] = "done"]
    /\ DropTicket(a)
    /\ UNCHANGED <<callVars, hostVars>>

-----------------------------------------------------------------------------
(* Exit (exit_hosts, release_host)                                           *)

StartExit ==
    /\ Quiesce(Exit, "Exit")
    /\ UNCHANGED <<callVars, adopting, hostVars>>

ExitDrained ==
    /\ QuiesceDrained(Exit)
    /\ UNCHANGED <<callVars, adopting, hostVars>>

\* No caller is between its decision to arm and its frames for as long as the
\* bound of the exit's quiesce: there is no await there.
ExitTimesOut ==
    /\ \A r \in Runners : pc[r] \notin {"ask", "askOthers"}
    /\ QuiesceTimeout(Exit)
    /\ UNCHANGED <<callVars, adopting, hostVars>>

ExitDisarms(h) ==
    /\ guard[Exit].at = "held"
    /\ disarmed' = disarmed \cup {h}
    /\ Disarm({h})
    /\ UNCHANGED <<tableVars, callVars, adopting, told, closed>>

\* The shutdown follows the disarm ...
MayShutDown(h) == h \in disarmed \ closed

ExitTells(h) ==
    /\ guard[Exit].at = "held"
    /\ MayShutDown(h)
    /\ told' = told \cup {h}
    /\ UNCHANGED <<tableVars, callVars, adopting, armed, disarmed, closed>>

\* ... and the close follows both, or cuts them short at the host's deadline.
ExitCloses(h) ==
    /\ guard[Exit].at = "held"
    /\ h \in disarmed
    /\ closed' = closed \cup {h}
    /\ UNCHANGED <<tableVars, callVars, adopting, armed, disarmed, told>>

\* Every host was dealt with, or the bound of all of them together has passed.
ExitEnds ==
    /\ DropGuard(Exit)
    /\ UNCHANGED <<callVars, adopting, hostVars>>

-----------------------------------------------------------------------------
RunnerStep(r) ==
    \/ StartOwn(r) \/ StartSibling(r) \/ Rearm(r)
    \/ Drained(r) \/ TimedOut(r) \/ HostsRefuse(r) \/ EndHold(r)
    \/ BeginArm(r) \/ RefusedByExit(r) \/ DecideToArm(r) \/ Ask(r)
    \/ ArmFailed(r) \/ ArmAcked(r) \/ AskOthers(r) \/ OthersAnswered(r)
    \/ ReturnFailed(r) \/ ReturnArmed(r)
    \/ Commit(r) \/ GiveUp(r) \/ Keep(r) \/ WindowEnds(r)
    \/ EndKept(r) \/ DisarmAll(r) \/ Release(r)
    \/ CancelQuiesce(r) \/ CancelArm(r) \/ CancelHold(r)

AdoptionStep(a) == StartAdoption(a) \/ Settle(a) \/ EndAdoption(a)

ExitStep ==
    \/ StartExit \/ ExitDrained \/ ExitTimesOut \/ ExitEnds
    \/ \E h \in Hosts : ExitDisarms(h) \/ ExitTells(h) \/ ExitCloses(h)

Next ==
    \/ \E r \in Runners : RunnerStep(r)
    \/ \E a \in Adopters : AdoptionStep(a)
    \/ ExitStep

Spec == Init /\ [][Next]_vars

\* What a runner does without waiting for a new request: every await of it is
\* bounded (the quiesce, the requests to the hosts, the window of a sibling).
Runs(r) == pc[r] # "idle" /\ RunnerStep(r)

FairSpec == Spec /\ \A r \in Runners : WF_vars(Runs(r))

-----------------------------------------------------------------------------
(* Properties                                                                *)

\* A host the exit has told or disconnected is not armed, nor armed again: "armed
\* wins over the shutdown", so an arm that came between or after would keep the
\* shells the user asked to end. Exit's disarm and shutdown always come after any
\* arm (Hold::arm_detach, host_lifecycle.rs:437-441).
ExitAfterEveryArm == (told \cup closed) \cap armed = {}

\* What the proof of it needs: a runner at work has a hold, and so has the slot ...
Working == Pcs \ {"idle", "kept", "committed", "done"}

HoldNamed ==
    /\ \A r \in Runners : /\ pc[r] \in Working => hold[r] \in Closers
                          /\ pc[r] = "quiesce" => hold[r] = r
    /\ kept # NotKept => kept.arm \in Siblings /\ kept.hold \in Closers

\* ... an arm holds its ticket from before it is decided on until it has returned ...
ArmTicketed == \A r \in Runners :
    pc[r] \in {"begun", "ask", "wait", "askOthers", "waitOthers", "undone", "armed"} =>
        ticket[r] # None

\* ... and once exit releases hosts nobody is about to arm one, which stays so.
ExitAlone ==
    /\ (guard[Exit].at # "none" \/ disarmed # {}) => Exiting
    /\ (guard[Exit].at = "held" \/ disarmed # {}) =>
           \A r \in Runners : pc[r] \notin {"ask", "askOthers"}

DisarmedFirst ==
    /\ told \cup closed \subseteq disarmed
    /\ disarmed \cap armed = {}

\* Admission is not reopened over a host that is still armed: a normal quit would
\* then leave its shells running (Hold::drop, host_lifecycle.rs:393-404, 521-540).
OpenMeansDisarmed == lifecycle.mode = "Open" => armed = {}

\* Whoever arms a host, its arm ends with it: neither an exit nor a reopened table
\* leaves a host armed.
ArmsEnd == ExitAfterEveryArm /\ OpenMeansDisarmed

\* A hold that is armed, or was committed, and a sibling's window that is kept:
\* nothing has disarmed the hosts it answers for, unless exit has taken over. A
\* relaunch alone goes ahead over an adoption in flight, which may still disarm
\* (restart_for_update and sibling_arm, commands/update.rs:297-304,
\* host_lifecycle.rs:861-871).
ArmStands ==
    ~ Exiting =>
      /\ \A r \in Own :
             (pc[r] \in {"held", "committed"} /\ (r \in Offloads \/ guard[r].drained)) =>
                 Required(r) \subseteq armed
      /\ kept # NotKept => Hosts \subseteq armed

\* A table closed by an offload, an update or a sibling is opened again, unless the
\* hold commits or the process exits: creates are refused only for a while.
AdmissionReturns ==
    (lifecycle.mode = "Quiescing") ~>
        (lifecycle.mode # "Quiescing" \/ \E r \in Own : pc[r] = "committed")

=============================================================================
