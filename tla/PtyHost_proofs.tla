--------------------------- MODULE PtyHost_proofs ---------------------------
(***************************************************************************)
(* The safety properties of PtyHost, for every set of tabs, children and   *)
(* holders, every length of a hold and every width of the generation.      *)
(*                                                                         *)
(* The inductive invariant has four named parts, one for each thing a      *)
(* property relates: the MCP hold to the arm, the arm to what the client   *)
(* last said, the deadline to the silence it measures, and the children to *)
(* the sessions registered for them.                                       *)
(*                                                                         *)
(* What each operation of the MCP-hold record preserves and establishes,   *)
(* for every set of holders, comes first: the rest cites these lemmas, one *)
(* per operation, and never opens the record again.                        *)
(***************************************************************************)
EXTENDS PtyHost, TLAPS

-----------------------------------------------------------------------------
(* The MCP-hold record                                                       *)


(* The inductive invariant of the record while the serve loop runs: a task *)
(* in service is the running one, a task told to stop is the retiring one, *)
(* and the two never coexist.                                              *)
McpInv(m) ==
  /\ m \in McpType
  /\ m.state = "running" <=> m.cur # NoHolder
  /\ \A h \in Holders : m.task[h] \in {"absent", "handback"} => h = m.cur
  /\ \A h \in Holders : m.task[h] = "stop" => h = m.retiring
  /\ m.state # "idle" => \A h \in Holders : m.task[h] # "stop"

(* No task is in the mode. *)
Without(m, mode) == \A h \in Holders : m.task[h] # mode

(* Every task of n in the mode was in it in m. *)
NoNew(m, n, mode) ==
  \A h \in Holders : n.task[h] = mode => m.task[h] = mode

LEMMA McpInitInv == McpInv(McpInit) /\ McpInit.state = "idle"
                    /\ Without(McpInit, "absent") /\ Without(McpInit, "handback")
BY HoldersAssumption DEF McpInv, McpInit, McpType, TaskStates, Without

(* At most one task is unfinished, and none is while a spec is pending. *)
LEMMA OneUnfinished ==
  ASSUME NEW m, McpInv(m)
  PROVE  /\ \A g, h \in Unfinished(m) : g = h
         /\ m.state = "pending" => Unfinished(m) = {}
<1>1. \A h \in Holders : m.task[h] \in {"absent", "handback", "stop", "ended"}
  BY DEF McpInv, McpType, TaskStates
<1>2. \A g, h \in Unfinished(m) : g = h
  BY <1>1, HoldersAssumption DEF McpInv, McpType, Unfinished
<1>3. m.state = "pending" => Unfinished(m) = {}
  BY <1>1, HoldersAssumption DEF McpInv, McpType, Unfinished
<1>4. QED BY <1>2, <1>3

(* Reconcile changes no task, and what it leaves running is unfinished. *)
LEMMA ReconcileInv ==
  ASSUME NEW m, McpInv(m)
  PROVE  LET r == Reconcile(m)
         IN  /\ McpInv(r)
             /\ r.task = m.task
             /\ r.state = "pending" <=> m.state = "pending"
             /\ r.state = "running" =>
                  /\ r.cur \in Holders
                  /\ r.task[r.cur] \in {"absent", "handback"}
BY HoldersAssumption DEF McpInv, McpType, TaskStates, Reconcile, Finished

LEMMA SetPendingInv ==
  ASSUME NEW m, McpInv(m), ~HoldBlocked(m)
  PROVE  McpInv(SetPending(m)) /\ SetPending(m).task = m.task
<1>1. PICK r : r = Reconcile(m) OBVIOUS
<1>2. /\ McpInv(r) /\ r.task = m.task
      /\ r.state # "running" /\ r.retiring = NoHolder
  BY <1>1, ReconcileInv DEF HoldBlocked
<1>3. SetPending(m) = [r EXCEPT !.state = "pending"]
  BY <1>1, <1>2 DEF SetPending
<1>4. QED BY <1>2, <1>3, HoldersAssumption DEF McpInv, McpType, TaskStates

LEMMA ClearPendingInv ==
  ASSUME NEW m, McpInv(m)
  PROVE  /\ McpInv(ClearPending(m))
         /\ ClearPending(m).task = m.task
         /\ ClearPending(m).state # "pending"
<1>1. PICK r : r = Reconcile(m) OBVIOUS
<1>2. McpInv(r) /\ r.task = m.task
  BY <1>1, ReconcileInv
<1>3. ClearPending(m) = IF r.state = "pending" THEN [r EXCEPT !.state = "idle"]
                                               ELSE r
  BY <1>1 DEF ClearPending
<1>4. QED BY <1>2, <1>3, HoldersAssumption DEF McpInv, McpType, TaskStates

(* After a stop nothing serves and nothing is pending. *)
LEMMA StopHolderInv ==
  ASSUME NEW m, McpInv(m)
  PROVE  /\ McpInv(StopHolder(m))
         /\ StopHolder(m).state = "idle"
         /\ Without(StopHolder(m), "absent")
         /\ Without(StopHolder(m), "handback")
<1>1. PICK r : r = Reconcile(m) OBVIOUS
<1>2. McpInv(r)
  BY <1>1, ReconcileInv
<1>3. CASE r.state = "running"
  <2>1. StopHolder(m) = [r EXCEPT !.state = "idle", !.cur = NoHolder,
                                  !.retiring = r.cur, !.task[r.cur] = "stop"]
    BY <1>1, <1>3 DEF StopHolder
  <2>2. r.cur \in Holders
    BY <1>1, <1>3, ReconcileInv
  <2>3. \A h \in Holders : h # r.cur => r.task[h] = "ended"
    BY <1>2, <1>3 DEF McpInv, McpType, TaskStates
  <2>4. \A h \in Holders :
          StopHolder(m).task[h] = IF h = r.cur THEN "stop" ELSE "ended"
    BY <1>2, <2>1, <2>2, <2>3 DEF McpInv, McpType
  <2>5. /\ StopHolder(m).state = "idle" /\ StopHolder(m).cur = NoHolder
        /\ StopHolder(m).retiring = r.cur
    BY <1>2, <2>1 DEF McpInv, McpType
  <2>6. StopHolder(m) \in McpType
    <3>1. [r.task EXCEPT ![r.cur] = "stop"] \in [Holders -> TaskStates]
      BY <1>2, <2>2 DEF McpInv, McpType, TaskStates
    <3>2. StopHolder(m) = [r EXCEPT !.state = "idle", !.cur = NoHolder,
                                    !.retiring = r.cur,
                                    !.task = [r.task EXCEPT ![r.cur] = "stop"]]
      BY <1>2, <2>1 DEF McpInv, McpType
    <3>3. QED BY <1>2, <2>2, <3>1, <3>2 DEF McpInv, McpType
  <2>7. QED BY <2>4, <2>5, <2>6 DEF McpInv, Without
<1>4. CASE r.state # "running"
  <2>1. StopHolder(m) = [r EXCEPT !.state = "idle"]
    BY <1>1, <1>4 DEF StopHolder
  <2>2. QED
    BY <1>2, <1>4, <2>1, HoldersAssumption
       DEF McpInv, McpType, TaskStates, Without
<1>5. QED BY <1>3, <1>4

LEMMA ClaimInv ==
  ASSUME NEW m, McpInv(m)
  PROVE  /\ McpInv(Claim(m))
         /\ Claim(m).state # "pending"
         /\ Without(Claim(m), "absent")
<1>1. PICK r : r = Reconcile(m) OBVIOUS
<1>2. McpInv(r) /\ r.task = m.task
  BY <1>1, ReconcileInv
<1>3. CASE RunningIn(r, "absent")
  <2>1. Claim(m) = [r EXCEPT !.task[r.cur] = "handback"]
    BY <1>1, <1>3 DEF Claim
  <2>2. QED
    BY <1>2, <1>3, <2>1, HoldersAssumption
       DEF RunningIn, McpInv, McpType, TaskStates, Without
<1>4. CASE ~RunningIn(r, "absent")
  <2>1. Claim(m) = ClearPending(r)
    BY <1>1, <1>4 DEF Claim
  <2>2. Without(r, "absent")
    BY <1>2, <1>4, HoldersAssumption
       DEF RunningIn, McpInv, McpType, TaskStates, Without
  <2>3. QED BY <1>2, <2>1, <2>2, ClearPendingInv DEF Without
<1>5. QED BY <1>3, <1>4

(* OnDisarm is adoption by a frame that is not the claim. *)
LEMMA OnAdoptedInv ==
  ASSUME NEW m, McpInv(m), NEW byClaim \in BOOLEAN
  PROVE  /\ McpInv(OnAdopted(m, byClaim))
         /\ OnAdopted(m, byClaim).state # "pending"
         /\ NoNew(m, OnAdopted(m, byClaim), "handback")
         /\ ~byClaim => Without(OnAdopted(m, byClaim), "absent")
<1>1. PICK r : r = Reconcile(m) OBVIOUS
<1>2. McpInv(r) /\ r.task = m.task
  BY <1>1, ReconcileInv
<1>3. CASE RunningIn(r, "absent") /\ ~byClaim
  <2>1. OnAdopted(m, byClaim) = StopHolder(r)
    BY <1>1, <1>3 DEF OnAdopted
  <2>2. QED BY <1>2, <2>1, StopHolderInv DEF Without, NoNew
<1>4. CASE ~(RunningIn(r, "absent") /\ ~byClaim)
  <2>1. OnAdopted(m, byClaim) = ClearPending(r)
    BY <1>1, <1>4 DEF OnAdopted
  <2>2. ~byClaim => Without(r, "absent")
    BY <1>2, <1>4, HoldersAssumption
       DEF RunningIn, McpInv, McpType, TaskStates, Without
  <2>3. QED BY <1>2, <2>1, <2>2, ClearPendingInv DEF Without, NoNew
<1>5. QED BY <1>3, <1>4

LEMMA OnDisarmInv ==
  ASSUME NEW m, McpInv(m)
  PROVE  /\ McpInv(OnDisarm(m))
         /\ OnDisarm(m).state # "pending"
         /\ NoNew(m, OnDisarm(m), "handback")
         /\ Without(OnDisarm(m), "absent")
<1>1. OnDisarm(m) = OnAdopted(m, FALSE)
  BY DEF OnDisarm, OnAdopted
<1>2. QED BY <1>1, OnAdoptedInv

LEMMA OnDisconnectInv ==
  ASSUME NEW m, McpInv(m)
  PROVE  /\ McpInv(OnDisconnect(m))
         /\ OnDisconnect(m).state = "pending" => m.state = "pending"
         /\ NoNew(m, OnDisconnect(m), "absent")
         /\ Without(OnDisconnect(m), "handback")
<1>1. PICK r : r = Reconcile(m) OBVIOUS
<1>2. McpInv(r) /\ r.task = m.task /\ (r.state = "pending" => m.state = "pending")
  BY <1>1, ReconcileInv
<1>3. CASE RunningIn(r, "handback")
  <2>1. OnDisconnect(m) = StopHolder(r)
    BY <1>1, <1>3 DEF OnDisconnect
  <2>2. QED BY <1>2, <2>1, StopHolderInv DEF Without, NoNew
<1>4. CASE ~RunningIn(r, "handback")
  <2>1. OnDisconnect(m) = r
    BY <1>1, <1>4 DEF OnDisconnect
  <2>2. Without(r, "handback")
    BY <1>2, <1>4, HoldersAssumption
       DEF RunningIn, McpInv, McpType, TaskStates, Without
  <2>3. QED BY <1>2, <2>1, <2>2 DEF NoNew
<1>5. QED BY <1>3, <1>4

(* A holder is started only for a pending spec. *)
LEMMA OnAbsenceBegunInv ==
  ASSUME NEW m, McpInv(m)
  PROVE  /\ McpInv(OnAbsenceBegun(m))
         /\ OnAbsenceBegun(m).state # "pending"
         /\ NoNew(m, OnAbsenceBegun(m), "handback")
         /\ m.state = "pending" \/ NoNew(m, OnAbsenceBegun(m), "absent")
<1>1. PICK r : r = Reconcile(m) OBVIOUS
<1>2. McpInv(r) /\ r.task = m.task /\ (r.state = "pending" <=> m.state = "pending")
  BY <1>1, ReconcileInv
<1>3. CASE r.state = "pending"
  <2>1. \A x \in Holders : r.task[x] = "ended"
    BY <1>2, <1>3, OneUnfinished DEF Unfinished
  <2>2. PICK h \in Holders : h = CHOOSE x \in Holders : r.task[x] = "ended"
    BY <2>1, HoldersAssumption
  <2>3. OnAbsenceBegun(m) =
          [r EXCEPT !.state = "running", !.cur = h, !.task[h] = "absent"]
    BY <1>1, <1>3, <2>2 DEF OnAbsenceBegun
  <2>4. \A x \in Holders :
          OnAbsenceBegun(m).task[x] = IF x = h THEN "absent" ELSE "ended"
    BY <1>2, <2>1, <2>3 DEF McpInv, McpType
  <2>5. OnAbsenceBegun(m).state = "running" /\ OnAbsenceBegun(m).cur = h
    BY <1>2, <2>3 DEF McpInv, McpType
  <2>6. OnAbsenceBegun(m) \in McpType
    <3>1. [r.task EXCEPT ![h] = "absent"] \in [Holders -> TaskStates]
      BY <1>2 DEF McpInv, McpType, TaskStates
    <3>2. OnAbsenceBegun(m) = [r EXCEPT !.state = "running", !.cur = h,
                                        !.task = [r.task EXCEPT ![h] = "absent"]]
      BY <1>2, <2>3 DEF McpInv, McpType
    <3>3. QED BY <1>2, <3>1, <3>2 DEF McpInv, McpType
  <2>7. QED
    BY <1>2, <1>3, <2>4, <2>5, <2>6, HoldersAssumption DEF McpInv, NoNew
<1>4. CASE r.state # "pending"
  <2>1. OnAbsenceBegun(m) = r
    BY <1>1, <1>4 DEF OnAbsenceBegun
  <2>2. QED BY <1>2, <1>4, <2>1 DEF NoNew
<1>5. QED BY <1>3, <1>4

(* A task may end at any time. *)
LEMMA EndedInv ==
  ASSUME NEW m, McpInv(m), NEW h \in Holders
  PROVE  /\ McpInv(Ended(m, h))
         /\ Ended(m, h).state = m.state
         /\ NoNew(m, Ended(m, h), "absent")
         /\ NoNew(m, Ended(m, h), "handback")
BY HoldersAssumption DEF McpInv, McpType, TaskStates, Ended, NoNew

(* What `serve` takes on its way out is every unfinished task, told to stop. *)
LEMMA TakeForShutdownInv ==
  ASSUME NEW m, McpInv(m)
  PROVE  /\ TakeForShutdown(m) \in McpType
         /\ TakeForShutdown(m).state = "idle"
         /\ \A h \in Unfinished(TakeForShutdown(m)) :
              h \in ShutdownHandles(m) /\ TakeForShutdown(m).task[h] = "stop"
         /\ ShutdownHandles(m) \subseteq Holders
<1>1. PICK s : s = StopHolder(m) OBVIOUS
<1>2. /\ McpInv(s) /\ s.state = "idle"
      /\ Without(s, "absent") /\ Without(s, "handback")
  BY <1>1, StopHolderInv
<1>3. TakeForShutdown(m) = [s EXCEPT !.retiring = NoHolder]
  BY <1>1 DEF TakeForShutdown
<1>4. ShutdownHandles(m) = {s.retiring} \ {NoHolder}
  BY <1>1 DEF ShutdownHandles
<1>5. QED
  BY <1>2, <1>3, <1>4, HoldersAssumption
     DEF McpInv, McpType, TaskStates, Without, Unfinished

-----------------------------------------------------------------------------
(* The host                                                                  *)

(* The MCP-hold record, while the serve loop runs and on its way out. *)
McpPart ==
  /\ pc \notin {"finish", "down"} => McpInv(mcp)
  /\ pc \in {"finish", "down"} => mcp.state = "idle"
  /\ pc = "finish" => \A g, h \in joined : g = h
  /\ EveryHolderJoined
  /\ HolderMatchesGui
  /\ PendingUnderLocalArm

(* What the client last said decides what is in force when it is gone. *)
ArmPart ==
  /\ adopted => pc \in {"top", "read"} /\ ~arm.absent
  /\ ArmEndsWithAbsence
  /\ QuitIsKept
  /\ pc \in {"top", "read"} /\ lastWord = "quit" =>
       adopted /\ shutdown /\ ~arm.deadline
  /\ pc \in {"top", "read"} /\ lastWord = "arm" => adopted /\ arm.deadline

(* A deadline that could expire measures the silence of this absence. *)
TimerPart ==
  deadline.kind = "established" /\ LocalHoldIsCurrent(deadline.gen)
    => quiet + deadline.left >= HoldTicks

(* A process whose end nobody ordered belongs to a registered session. *)
ChildPart ==
  /\ \A c \in Children :
       child[c] \in {"live", "gone", "exited"} => c \in Registered
  /\ pc \in {"accept", "teardown", "down"} => Hosted = {}
  /\ pc \in {"finish", "down"} => \A c \in Children : child[c] # "live"
  /\ \A c \in Children : child[c] = "doomed" =>
       pc = "teardown" \/ (KillMayWedge /\ pc \in {"finish", "down"})

HostInv ==
  TypeOK /\ McpPart /\ ArmPart /\ TimerPart /\ ChildPart /\ HeldSessionsDetached

-----------------------------------------------------------------------------
LEMMA NextGenType == \A g \in 0 .. GenMod - 1 : NextGen(g) \in 0 .. GenMod - 1
BY PtyHostAssumption DEF NextGen

LEMMA SpentType ==
  ASSUME NEW a \in ArmType
  PROVE  /\ Spent(a) \in ArmType
         /\ ~Spent(a).deadline /\ ~Spent(a).absent
         /\ Spent(a).purpose = "none"
BY NextGenType DEF Spent, ArmType

LEMMA HeardArmType ==
  ASSUME arm \in ArmType, NEW a \in BOOLEAN
  PROVE  HeardArm(a) \in ArmType
BY SpentType DEF HeardArm

(* What a frame finds after the adoption it may have caused. *)
LEMMA HeardMcpInv ==
  ASSUME McpInv(mcp), NEW a \in BOOLEAN, NEW byClaim \in BOOLEAN
  PROVE  /\ McpInv(HeardMcp(a, byClaim))
         /\ NoNew(mcp, HeardMcp(a, byClaim), "handback")
         /\ Adopts(a) => HeardMcp(a, byClaim).state # "pending"
         /\ Adopts(a) /\ ~byClaim => Without(HeardMcp(a, byClaim), "absent")
         /\ ~Adopts(a) => HeardMcp(a, byClaim) = mcp
BY OnAdoptedInv DEF HeardMcp, NoNew, Without

LEMMA InitInv == Init => HostInv
<1> SUFFICES ASSUME Init PROVE HostInv OBVIOUS
<1>1. McpInv(mcp) /\ mcp.state = "idle" /\ \A h \in Holders : mcp.task[h] = "ended"
  BY McpInitInv DEF Init, McpInit
<1>2. TypeOK
  <2>1. 0 \in 0 .. GenMod - 1 /\ 0 \in 0 .. HoldTicks
    BY PtyHostAssumption
  <2>2. arm \in ArmType /\ deadline \in DeadlineType
    BY <2>1 DEF Init, ArmType, DeadlineType, NoDeadline
  <2>3. mcp \in McpType
    BY <1>1 DEF McpInv
  <2>4. QED BY <2>1, <2>2, <2>3 DEF Init, TypeOK, ChildStates
<1>3. McpPart
  BY <1>1 DEF Init, McpPart, EveryHolderJoined, HolderMatchesGui,
              PendingUnderLocalArm
<1>4. ArmPart
  BY DEF Init, ArmPart, ArmEndsWithAbsence, QuitIsKept
<1>5. TimerPart
  BY DEF Init, TimerPart, NoDeadline
<1>6. ChildPart
  BY PtyHostAssumption DEF Init, ChildPart, Hosted, Registered
<1>7. HeldSessionsDetached
  BY DEF Init, HeldSessionsDetached
<1>8. QED BY <1>2, <1>3, <1>4, <1>5, <1>6, <1>7 DEF HostInv

-----------------------------------------------------------------------------
(* Type correctness of one step. *)

LEMMA KilledType ==
  ASSUME TypeOK, NEW c \in Children, NEW how \in {"doomed", "dropped"}
  PROVE  Killed(c, how) \in {"free", how}
BY DEF Killed

LEMMA NewDeadlineType ==
  ASSUME NEW ok \in BOOLEAN, NEW g \in 0 .. GenMod - 1
  PROVE  NewDeadline(ok, g) \in DeadlineType
BY PtyHostAssumption DEF NewDeadline, DeadlineType

LEMMA SampledType ==
  ASSUME TypeOK, NEW ok \in BOOLEAN
  PROVE  Sampled(ok) \in DeadlineType
BY NewDeadlineType DEF TypeOK, Sampled, DeadlineType

LEMMA NoDeadlineType == NoDeadline \in DeadlineType
BY PtyHostAssumption DEF NoDeadline, DeadlineType

LEMMA HearType ==
  ASSUME TypeOK, NEW a \in BOOLEAN, Hear(a)
  PROVE  /\ pc' = "top" /\ adopted' \in BOOLEAN /\ quiet' \in 0 .. HoldTicks
         /\ UNCHANGED <<survivable, deadline, joined>>
BY PtyHostAssumption DEF TypeOK, Hear

LEMMA FrameType ==
  ASSUME TypeOK, McpInv(mcp), Frame
  PROVE  TypeOK'
<1> USE HearType DEF TypeOK
<1>1. ASSUME NEW t \in Tabs, Spawn(t) PROVE TypeOK'
  <2>1. child' \in [Children -> ChildStates]
    BY <1>1, KilledType DEF Spawn, ChildStates
  <2>2. QED BY <1>1, <2>1 DEF Spawn
<1>2. ASSUME NEW t \in Tabs, Close(t) PROVE TypeOK'
  <2>1. child' \in [Children -> ChildStates]
    BY <1>2, KilledType DEF Close, ChildStates, Hosted
  <2>2. QED BY <1>2, <2>1 DEF Close
<1>3. ASSUME NEW t \in Tabs, Attach(t) PROVE TypeOK'
  BY <1>3 DEF Attach
<1>4. CASE ListSessions
  BY <1>4, HeardArmType, HeardMcpInv DEF ListSessions, HeardShutdown, McpInv
<1>5. CASE OtherFrame
  BY <1>5 DEF OtherFrame
<1>6. ASSUME NEW p \in {"none", "local"}, ArmDetach(p) PROVE TypeOK'
  <2>1. arm' \in ArmType
    <3>1. HeardArm(TRUE) \in ArmType
      BY HeardArmType
    <3>2. NextGen(HeardArm(TRUE).gen) \in 0 .. GenMod - 1
      BY <3>1, NextGenType DEF ArmType
    <3>3. CASE survivable
      <4>1. arm' = [deadline |-> TRUE, purpose |-> p, absent |-> FALSE,
                    gen |-> NextGen(HeardArm(TRUE).gen)]
        BY <1>6, <3>3 DEF ArmDetach
      <4>2. QED BY <3>2, <4>1 DEF ArmType
    <3>4. CASE ~survivable
      BY <1>6, <3>1, <3>4 DEF ArmDetach
    <3>5. QED BY <3>3, <3>4
  <2>2. mcp' \in McpType
    <3>1. McpInv(HeardMcp(TRUE, FALSE))
      BY HeardMcpInv
    <3>2. McpInv(ClearPending(HeardMcp(TRUE, FALSE)))
      BY <3>1, ClearPendingInv
    <3>3. QED BY <1>6, <3>1, <3>2 DEF ArmDetach, McpInv
  <2>3. QED BY <1>6, <2>1, <2>2 DEF ArmDetach, HeardShutdown
<1>7. CASE Disarm
  BY <1>7, SpentType, OnDisarmInv DEF Disarm, McpInv
<1>8. CASE Shutdown
  BY <1>8, SpentType, HeardArmType, HeardMcpInv, StopHolderInv
     DEF Shutdown, McpInv
<1>9. CASE HoldMcp
  BY <1>9, SetPendingInv, ReconcileInv DEF HoldMcp, McpInv
<1>10. CASE ClaimMcp
  BY <1>10, HeardArmType, HeardMcpInv, ClaimInv
     DEF ClaimMcp, HeardShutdown, McpInv
<1>11. CASE ReleaseMcp
  BY <1>11, StopHolderInv DEF ReleaseMcp, McpInv
<1>12. QED
  BY <1>1, <1>2, <1>3, <1>4, <1>5, <1>6, <1>7, <1>8, <1>9, <1>10, <1>11
     DEF Frame

LEMMA TearDownType ==
  ASSUME TypeOK, NEW m, McpInv(m), TearDownSessions(m)
  PROVE  TypeOK'
<1>1. child' \in [Children -> ChildStates]
  BY KilledType DEF TearDownSessions, TypeOK, ChildStates, Registered, Hosted
<1>2. mcp' \in McpType
  BY StopHolderInv DEF TearDownSessions, McpInv
<1>3. QED
  BY <1>1, <1>2, NoDeadlineType DEF TypeOK, TearDownSessions

LEMMA LeaveServeType ==
  ASSUME TypeOK, McpInv(mcp), LeaveServe
  PROVE  TypeOK'
BY TakeForShutdownInv, NoDeadlineType DEF TypeOK, LeaveServe

LEMMA EnterHoldType ==
  ASSUME TypeOK, NEW a \in ArmType, NEW m, McpInv(m), EnterHold(a, m)
  PROVE  TypeOK'
<1>1. NextGen(a.gen) \in 0 .. GenMod - 1
  BY NextGenType DEF ArmType
<1>2. arm' \in ArmType
  BY <1>1 DEF EnterHold, ArmType
<1>3. mcp' \in McpType
  BY OnAbsenceBegunInv, StopHolderInv DEF EnterHold, McpInv
<1>4. deadline' \in DeadlineType
  BY <1>1, NewDeadlineType, NoDeadlineType DEF EnterHold, Samples
<1>5. /\ pc' = "wait" /\ adopted' = FALSE /\ attached' = {} /\ quiet' = 0
      /\ UNCHANGED <<survivable, sessions, child, shutdown, joined, lastWord>>
  BY DEF EnterHold, DetachAll
<1>6. 0 \in 0 .. HoldTicks
  BY PtyHostAssumption
<1>7. QED
  BY <1>2, <1>3, <1>4, <1>5, <1>6 DEF TypeOK

LEMMA TypeStep ==
  ASSUME TypeOK, McpPart, Next
  PROVE  TypeOK'
<1>1. CASE FirstAccept \/ Reconnect
  BY <1>1 DEF FirstAccept, Reconnect, Connected, TypeOK
<1>2. CASE FirstAcceptFails
  BY <1>2, LeaveServeType DEF FirstAcceptFails, McpPart
<1>3. CASE Frame
  <2>1. pc = "read"
    BY <1>3 DEF Frame, Spawn, Close, Attach, ListSessions, OtherFrame, ArmDetach,
                Disarm, Shutdown, HoldMcp, ClaimMcp, ReleaseMcp, Hear
  <2>2. QED BY <1>3, <2>1, FrameType DEF McpPart
<1>4. CASE DisconnectArmed
  BY <1>4, EnterHoldType, OnDisconnectInv DEF DisconnectArmed, McpPart, TypeOK
<1>5. CASE DisconnectTearDown
  BY <1>5, TearDownType, OnDisconnectInv DEF DisconnectTearDown, McpPart
<1>6. CASE DisconnectCrash
  <2>1. [arm EXCEPT !.purpose = "local", !.absent = FALSE] \in ArmType
    BY DEF TypeOK, ArmType
  <2>2. QED
    BY <1>6, <2>1, EnterHoldType, OnDisconnectInv DEF DisconnectCrash, McpPart
<1>7. ASSUME NEW ok \in Samples, Watch(ok) PROVE TypeOK'
  <2>1. CASE Expire /\ pc \in {"top", "read"}
    BY <2>1, TearDownType DEF Expire, McpPart
  <2>2. CASE ~(ok /\ Expirable)
    BY <1>7, <2>2, SampledType DEF Watch, TypeOK, Samples, Expire
  <2>3. QED BY <1>7, <2>1, <2>2 DEF Watch
<1>8. ASSUME NEW ok \in Samples, Recheck(ok) PROVE TypeOK'
  <2>1. CASE LeaveServe /\ pc = "wait"
    BY <2>1, LeaveServeType DEF McpPart
  <2>2. CASE Expire /\ pc = "wait"
    BY <2>2, TearDownType DEF Expire, McpPart
  <2>3. CASE ~LeaveServe /\ ~Expire
    BY <1>8, <2>3, SampledType DEF Recheck, TypeOK, Samples
  <2>4. QED BY <1>8, <2>1, <2>2, <2>3 DEF Recheck
<1>9. CASE TearDownDone
  BY <1>9, LeaveServeType DEF TearDownDone, McpPart
<1>10. CASE HostExits
  <2>1. child' \in [Children -> ChildStates]
    BY <1>10, KilledType DEF HostExits, TypeOK, ChildStates
  <2>2. QED BY <1>10, <2>1 DEF HostExits, TypeOK
<1>11. ASSUME NEW c \in Children, ChildDies(c) \/ OutputEnds(c) \/ KillFinishes(c)
       PROVE  TypeOK'
  BY <1>11 DEF ChildDies, OutputEnds, KillFinishes, ChildStep, TypeOK, ChildStates
<1>12. ASSUME NEW h \in Holders, HolderEnds(h) PROVE TypeOK'
  <2>1. mcp' \in McpType
    BY <1>12 DEF HolderEnds, Ended, TypeOK, McpType, TaskStates
  <2>2. QED BY <1>12, <2>1 DEF HolderEnds, TypeOK
<1>13. CASE TimePasses
  <2>1. deadline' \in DeadlineType /\ quiet' \in 0 .. HoldTicks
    BY <1>13, PtyHostAssumption DEF TimePasses, TypeOK, DeadlineType
  <2>2. QED BY <1>13, <2>1 DEF TimePasses, TypeOK
<1>14. CASE Terminated
  BY <1>14 DEF Terminated, vars, TypeOK
<1>15. QED
  BY <1>1, <1>2, <1>3, <1>4, <1>5, <1>6, <1>7, <1>8, <1>9, <1>10, <1>11,
     <1>12, <1>13, <1>14 DEF Next, Disconnect

-----------------------------------------------------------------------------
(* The MCP-hold part of one step. *)

(* The three facts about the record that a step inside the serve loop owes. *)
McpGoal ==
  /\ McpInv(mcp)
  /\ HolderMatchesGui
  /\ PendingUnderLocalArm

LEMMA McpGoalSuffices ==
  ASSUME McpGoal', pc' \notin {"finish", "down"}
  PROVE  McpPart'
BY DEF McpGoal, McpPart, EveryHolderJoined

(* A record that serves nobody and has nothing pending meets every promise. *)
LEMMA QuietRecord ==
  ASSUME McpInv(mcp'), mcp'.state # "pending",
         Without(mcp', "absent"), Without(mcp', "handback")
  PROVE  McpGoal'
BY DEF McpGoal, HolderMatchesGui, PendingUnderLocalArm, Without

LEMMA FrameMcp ==
  ASSUME TypeOK, McpPart, Frame
  PROVE  McpPart'
<1> DEFINE Heard(a) == HeardMcp(a, FALSE)
<1>1. pc = "read" /\ pc' = "top"
  BY DEF Frame, Spawn, Close, Attach, ListSessions, OtherFrame, ArmDetach,
         Disarm, Shutdown, HoldMcp, ClaimMcp, ReleaseMcp, Hear
<1>2. McpInv(mcp) /\ HolderMatchesGui /\ PendingUnderLocalArm
  BY <1>1 DEF McpPart
<1>3. SUFFICES McpGoal'
  BY <1>1, McpGoalSuffices
<1>4. CASE UNCHANGED <<mcp, arm>> /\ Hear(FALSE)
  BY <1>1, <1>2, <1>4
     DEF Hear, McpGoal, HolderMatchesGui, PendingUnderLocalArm
(* A lifecycle frame finds no holder in Absent: it adopts, and the adoption *)
(* stops it, or the connection had adopted before, and there was none.      *)
<1>5. /\ McpInv(Heard(TRUE)) /\ Without(Heard(TRUE), "absent")
      /\ Heard(TRUE).state = "pending" => ~Adopts(TRUE) /\ mcp.state = "pending"
  <2>1. CASE Adopts(TRUE)
    BY <1>2, <2>1, HeardMcpInv
  <2>2. CASE ~Adopts(TRUE)
    <3>1. adopted /\ Heard(TRUE) = mcp
      BY <1>2, <2>2, HeardMcpInv DEF Adopts
    <3>2. QED BY <1>2, <2>2, <3>1 DEF HolderMatchesGui, Without
  <2>3. QED BY <2>1, <2>2
<1>6. CASE ListSessions
  <2>1. adopted' /\ mcp' = Heard(TRUE) /\ arm' = HeardArm(TRUE)
    BY <1>6 DEF ListSessions, Hear
  <2>2. QED
    BY <1>1, <1>2, <1>5, <2>1
       DEF McpGoal, HolderMatchesGui, PendingUnderLocalArm, Without, HeardArm
<1>7. ASSUME NEW p \in {"none", "local"}, ArmDetach(p) PROVE McpGoal'
  <2>1. adopted'
    BY <1>7 DEF ArmDetach, Hear
  <2>2. CASE ~survivable
    <3>1. mcp' = Heard(TRUE) /\ arm' = HeardArm(TRUE)
      BY <1>7, <2>2 DEF ArmDetach
    <3>2. QED
      BY <1>1, <1>2, <1>5, <2>1, <3>1
         DEF McpGoal, HolderMatchesGui, PendingUnderLocalArm, Without, HeardArm
  <2>3. CASE survivable /\ p = "local"
    <3>1. mcp' = Heard(TRUE) /\ arm'.deadline /\ arm'.purpose = "local"
      BY <1>7, <2>3 DEF ArmDetach
    <3>2. QED
      BY <1>1, <1>5, <2>1, <3>1
         DEF McpGoal, HolderMatchesGui, PendingUnderLocalArm, Without
  <2>4. CASE survivable /\ p # "local"
    <3>1. mcp' = ClearPending(Heard(TRUE))
      BY <1>7, <2>4 DEF ArmDetach
    <3>2. /\ McpInv(mcp') /\ mcp'.state # "pending"
          /\ mcp'.task = Heard(TRUE).task
      BY <1>5, <3>1, ClearPendingInv
    <3>3. QED
      BY <1>1, <1>5, <2>1, <3>2
         DEF McpGoal, HolderMatchesGui, PendingUnderLocalArm, Without
  <2>5. QED BY <2>2, <2>3, <2>4
<1>8. CASE Disarm
  <2>1. mcp' = OnDisarm(mcp) /\ adopted' = adopted
    BY <1>8 DEF Disarm, Hear, TypeOK
  <2>2. QED
    BY <1>1, <1>2, <2>1, OnDisarmInv
       DEF McpGoal, HolderMatchesGui, PendingUnderLocalArm, Without, NoNew
<1>9. CASE Shutdown
  <2>1. mcp' = StopHolder(Heard(TRUE))
    BY <1>9 DEF Shutdown
  <2>2. QED BY <1>5, <2>1, StopHolderInv, QuietRecord
<1>10. CASE HoldMcp
  <2>1. arm' = arm /\ adopted' = adopted
    BY <1>10 DEF HoldMcp, Hear, TypeOK
  <2>2. CASE ~HoldBlocked(mcp) /\ arm.purpose = "local" /\ arm.deadline
    <3>1. mcp' = SetPending(mcp)
      BY <1>10, <2>2 DEF HoldMcp
    <3>2. QED
      BY <1>1, <1>2, <2>1, <2>2, <3>1, SetPendingInv
         DEF McpGoal, HolderMatchesGui, PendingUnderLocalArm
  <2>3. CASE ~(~HoldBlocked(mcp) /\ arm.purpose = "local" /\ arm.deadline)
    <3>1. mcp' = Reconcile(mcp)
      BY <1>10, <2>3 DEF HoldMcp
    <3>2. QED
      BY <1>1, <1>2, <2>1, <3>1, ReconcileInv
         DEF McpGoal, HolderMatchesGui, PendingUnderLocalArm
  <2>4. QED BY <2>2, <2>3
<1>11. CASE ClaimMcp
  <2>1. mcp' = Claim(HeardMcp(TRUE, TRUE)) /\ adopted'
    BY <1>11 DEF ClaimMcp, Hear
  <2>2. McpInv(HeardMcp(TRUE, TRUE))
    BY <1>2, HeardMcpInv
  <2>3. McpInv(mcp') /\ mcp'.state # "pending" /\ Without(mcp', "absent")
    BY <2>1, <2>2, ClaimInv
  <2>4. QED
    BY <1>1, <2>1, <2>3
       DEF McpGoal, HolderMatchesGui, PendingUnderLocalArm, Without
<1>12. CASE ReleaseMcp
  BY <1>2, <1>12, StopHolderInv, QuietRecord DEF ReleaseMcp
<1>13. QED
  BY <1>4, <1>6, <1>7, <1>8, <1>9, <1>10, <1>11, <1>12
     DEF Frame, Spawn, Close, Attach, OtherFrame

LEMMA TearDownMcp ==
  ASSUME NEW m, McpInv(m), TearDownSessions(m)
  PROVE  McpPart'
<1>1. pc' = "teardown" /\ mcp' = StopHolder(m)
  BY DEF TearDownSessions
<1>2. QED BY <1>1, StopHolderInv, QuietRecord, McpGoalSuffices

LEMMA LeaveServeMcp ==
  ASSUME McpInv(mcp), LeaveServe
  PROVE  McpPart'
<1>1. /\ pc' = "finish" /\ mcp' = TakeForShutdown(mcp)
      /\ joined' = ShutdownHandles(mcp)
  BY DEF LeaveServe
<1>2. \A h \in Holders : mcp'.task[h] \in {"stop", "ended"}
  BY <1>1, TakeForShutdownInv DEF Unfinished
<1>3. QED
  BY <1>1, <1>2, TakeForShutdownInv
     DEF McpPart, EveryHolderJoined, HolderMatchesGui, PendingUnderLocalArm,
         ShutdownHandles

(* A holder in Absent after a disconnect was in Absent before, under an arm *)
(* that is still in force, or was pending under one.                        *)
LEMMA EnterHoldMcp ==
  ASSUME TypeOK, NEW a \in ArmType, McpPart, pc = "read",
         EnterHold(a, OnDisconnect(mcp)),
         arm.deadline => a = arm
  PROVE  McpPart'
<1> DEFINE m == OnDisconnect(mcp)
<1>1. McpInv(mcp) /\ HolderMatchesGui /\ PendingUnderLocalArm
  BY DEF McpPart
<1>2. /\ McpInv(m) /\ Without(m, "handback") /\ NoNew(mcp, m, "absent")
      /\ m.state = "pending" => mcp.state = "pending"
  BY <1>1, OnDisconnectInv
<1>3. pc' = "wait" /\ adopted' = FALSE
  BY DEF EnterHold
<1>4. CASE a.purpose = "local"
  <2>1. mcp' = OnAbsenceBegun(m) /\ arm'.deadline = a.deadline
        /\ arm'.purpose = "local"
    BY <1>4 DEF EnterHold, ArmType
  <2>2. /\ McpInv(mcp') /\ mcp'.state # "pending"
        /\ NoNew(m, mcp', "handback")
        /\ m.state = "pending" \/ NoNew(m, mcp', "absent")
    BY <1>2, <2>1, OnAbsenceBegunInv
  <2>3. \A h \in Holders : mcp'.task[h] = "absent" => arm.deadline
    BY <1>1, <1>2, <2>2 DEF HolderMatchesGui, PendingUnderLocalArm, NoNew
  <2>4. McpGoal'
    BY <1>2, <1>3, <2>1, <2>2, <2>3
       DEF McpGoal, HolderMatchesGui, PendingUnderLocalArm, NoNew, Without
  <2>5. QED BY <1>3, <2>4, McpGoalSuffices
<1>5. CASE a.purpose # "local"
  <2>1. mcp' = StopHolder(m)
    BY <1>5 DEF EnterHold
  <2>2. QED BY <1>2, <1>3, <2>1, StopHolderInv, QuietRecord, McpGoalSuffices
<1>6. QED BY <1>4, <1>5

LEMMA McpStep ==
  ASSUME TypeOK, McpPart, ArmPart, Next
  PROVE  McpPart'
<1> DEFINE Same == UNCHANGED <<mcp, joined>>
<1>1. CASE FirstAccept \/ Reconnect
  <2>1. /\ pc \in {"accept", "wait"} /\ pc' = "top" /\ adopted' = FALSE
        /\ ~adopted /\ UNCHANGED <<mcp, arm>>
    BY <1>1 DEF FirstAccept, Reconnect, Connected, ArmPart, TypeOK
  <2>2. McpGoal'
    BY <2>1 DEF McpPart, McpGoal, HolderMatchesGui, PendingUnderLocalArm
  <2>3. QED BY <2>1, <2>2, McpGoalSuffices
<1>2. CASE FirstAcceptFails
  BY <1>2, LeaveServeMcp DEF FirstAcceptFails, McpPart
<1>3. CASE Frame
  BY <1>3, FrameMcp
<1>4. CASE DisconnectArmed
  BY <1>4, EnterHoldMcp DEF DisconnectArmed, TypeOK
<1>5. CASE DisconnectTearDown
  BY <1>5, TearDownMcp, OnDisconnectInv DEF DisconnectTearDown, McpPart
<1>6. CASE DisconnectCrash
  <2>1. [arm EXCEPT !.purpose = "local", !.absent = FALSE] \in ArmType
    BY DEF TypeOK, ArmType
  <2>2. QED BY <1>6, <2>1, EnterHoldMcp DEF DisconnectCrash
<1>7. ASSUME NEW ok \in Samples, Watch(ok) PROVE McpPart'
  <2>1. CASE Expire /\ pc \in {"top", "read"}
    BY <2>1, TearDownMcp DEF Expire, McpPart
  <2>2. CASE pc' = "read" /\ UNCHANGED <<mcp, arm, adopted>> /\ pc \in {"top", "read"}
    <3>1. McpGoal'
      BY <2>2 DEF McpPart, McpGoal, HolderMatchesGui, PendingUnderLocalArm
    <3>2. QED BY <2>2, <3>1, McpGoalSuffices
  <2>3. QED BY <1>7, <2>1, <2>2 DEF Watch
<1>8. ASSUME NEW ok \in Samples, Recheck(ok) PROVE McpPart'
  <2>1. CASE LeaveServe /\ pc = "wait"
    BY <2>1, LeaveServeMcp DEF McpPart
  <2>2. CASE Expire /\ pc = "wait"
    BY <2>2, TearDownMcp DEF Expire, McpPart
  <2>3. CASE pc = "wait" /\ UNCHANGED <<pc, mcp, arm, adopted, joined>>
    BY <2>3 DEF McpPart, HolderMatchesGui, PendingUnderLocalArm, EveryHolderJoined
  <2>4. QED BY <1>8, <2>1, <2>2, <2>3 DEF Recheck
<1>9. CASE TearDownDone
  BY <1>9, LeaveServeMcp DEF TearDownDone, McpPart
<1>10. CASE HostExits
  BY <1>10 DEF HostExits, McpPart, HolderMatchesGui, PendingUnderLocalArm,
               EveryHolderJoined, Unfinished
<1>11. ASSUME NEW h \in Holders, HolderEnds(h) PROVE McpPart'
  <2>1. mcp' = Ended(mcp, h) /\ UNCHANGED <<pc, adopted, arm, joined>>
    BY <1>11 DEF HolderEnds
  <2>2. /\ mcp'.state = mcp.state
        /\ \A g \in Holders : mcp'.task[g] \in {mcp.task[g], "ended"}
    BY <2>1 DEF Ended, TypeOK, McpType
  <2>3. pc \notin {"finish", "down"} => McpInv(mcp')
    BY <2>1, EndedInv DEF McpPart
  <2>4. HolderMatchesGui' /\ PendingUnderLocalArm'
    BY <2>1, <2>2 DEF McpPart, HolderMatchesGui, PendingUnderLocalArm
  <2>5. EveryHolderJoined'
    BY <2>1, <2>2 DEF McpPart, EveryHolderJoined, Unfinished
  <2>6. QED BY <2>1, <2>2, <2>3, <2>4, <2>5 DEF McpPart
<1>12. CASE UNCHANGED <<pc, mcp, arm, adopted, joined>>
  BY <1>12 DEF McpPart, HolderMatchesGui, PendingUnderLocalArm,
               EveryHolderJoined, Unfinished
<1>13. QED
  BY <1>1, <1>2, <1>3, <1>4, <1>5, <1>6, <1>7, <1>8, <1>9, <1>10, <1>11, <1>12
     DEF Next, Disconnect, ChildDies, OutputEnds, KillFinishes, ChildStep,
         TimePasses, Terminated, vars

-----------------------------------------------------------------------------
(* The arm part of one step. *)

LEMMA FrameArm ==
  ASSUME TypeOK, ArmPart, Frame
  PROVE  ArmPart'
<1>1. pc = "read" /\ pc' = "top"
  BY DEF Frame, Spawn, Close, Attach, ListSessions, OtherFrame, ArmDetach,
         Disarm, Shutdown, HoldMcp, ClaimMcp, ReleaseMcp, Hear
<1> USE <1>1 DEF ArmPart, ArmEndsWithAbsence, QuitIsKept
<1>2. CASE Hear(FALSE) /\ UNCHANGED <<arm, shutdown, lastWord>>
  BY <1>2 DEF Hear, TypeOK
(* Adoption leaves nothing in force; without it nothing changes. *)
<1>3. CASE /\ Hear(TRUE) /\ UNCHANGED lastWord
           /\ arm' = HeardArm(TRUE) /\ shutdown' = HeardShutdown(TRUE)
  <2>1. CASE Adopts(TRUE)
    <3>1. adopted' /\ ~adopted /\ arm' = Spent(arm)
      BY <1>3, <2>1 DEF Hear, Adopts, HeardArm
    <3>2. ~arm'.deadline /\ ~arm'.absent
      BY <3>1 DEF Spent
    <3>3. lastWord # "quit" /\ lastWord # "arm"
      BY <3>1
    <3>4. QED BY <1>3, <3>1, <3>2, <3>3
  <2>2. CASE ~Adopts(TRUE)
    BY <1>3, <2>2 DEF Hear, Adopts, HeardArm, HeardShutdown
  <2>3. QED BY <2>1, <2>2
<1>4. ASSUME NEW p \in {"none", "local"}, ArmDetach(p) PROVE ArmPart'
  <2>1. CASE survivable
    <3>1. adopted' /\ lastWord' = "arm"
      BY <1>4, <2>1 DEF ArmDetach, Hear
    <3>2. arm'.deadline /\ ~arm'.absent
      BY <1>4, <2>1 DEF ArmDetach
    <3>3. QED BY <3>1, <3>2
  <2>2. CASE ~survivable
    BY <1>3, <1>4, <2>2 DEF ArmDetach
  <2>3. QED BY <2>1, <2>2
<1>5. CASE Disarm
  BY <1>5 DEF Disarm, Hear, Spent, TypeOK
<1>6. CASE Shutdown
  BY <1>6 DEF Shutdown, Hear, Spent
<1>7. QED
  BY <1>2, <1>3, <1>4, <1>5, <1>6
     DEF Frame, Spawn, Close, Attach, ListSessions, OtherFrame, HoldMcp,
         ClaimMcp, ReleaseMcp

LEMMA ArmStep ==
  ASSUME TypeOK, ArmPart, Next
  PROVE  ArmPart'
<1> USE DEF ArmPart, ArmEndsWithAbsence, QuitIsKept
<1>1. CASE FirstAccept \/ Reconnect
  BY <1>1 DEF FirstAccept, Reconnect, Connected
<1>2. CASE Frame
  BY <1>2, FrameArm
<1>3. CASE LeaveServe /\ ~adopted
  BY <1>3 DEF LeaveServe
<1>4. ASSUME NEW m, TearDownSessions(m) PROVE ArmPart'
  BY <1>4 DEF TearDownSessions
<1>5. CASE DisconnectArmed
  BY <1>5 DEF DisconnectArmed, EnterHold
<1>6. CASE DisconnectCrash
  BY <1>6 DEF DisconnectCrash, EnterHold, MustTearDown
<1>7. CASE UNCHANGED <<adopted, arm, shutdown, lastWord>> /\ pc' = "read"
           /\ pc \in {"top", "read"}
  BY <1>7
<1>8. CASE UNCHANGED <<pc, adopted, arm, shutdown, lastWord>>
  BY <1>8
<1>9. CASE HostExits
  BY <1>9 DEF HostExits
<1>10. QED
  BY <1>1, <1>2, <1>3, <1>4, <1>5, <1>6, <1>7, <1>8, <1>9
     DEF Next, Disconnect, FirstAcceptFails, DisconnectTearDown, Watch, Recheck,
         Expire, TearDownDone, ChildDies, OutputEnds, KillFinishes, ChildStep,
         HolderEnds, TimePasses, Terminated, vars

-----------------------------------------------------------------------------
(* The timer part of one step. *)

LEMMA TimerStep ==
  ASSUME TypeOK, ArmPart, TimerPart, Next
  PROVE  TimerPart'
<1> USE DEF TimerPart, LocalHoldIsCurrent
(* Outside an absence nothing is current. *)
<1>1. CASE ~arm'.absent
  BY <1>1
<1>2. CASE UNCHANGED <<arm, deadline, quiet>>
  BY <1>2
<1>3. CASE Frame
  <2>1. CASE Hear(FALSE) /\ UNCHANGED arm
    BY <1>2, <2>1 DEF Hear, TypeOK
  <2>2. CASE Hear(TRUE) /\ arm' = HeardArm(TRUE)
    BY <1>1, <2>2 DEF HeardArm, Adopts, Spent, ArmPart
  <2>3. ASSUME NEW p \in {"none", "local"}, ArmDetach(p) PROVE TimerPart'
    <3>1. CASE survivable
      <4>1. ~arm'.absent
        BY <2>3, <3>1 DEF ArmDetach
      <4>2. QED BY <1>1, <4>1
    <3>2. CASE ~survivable
      BY <2>2, <2>3, <3>2 DEF ArmDetach
    <3>3. QED BY <3>1, <3>2
  <2>4. CASE Disarm \/ Shutdown
    <3>1. PICK a : arm' = Spent(a)
      BY <2>4 DEF Disarm, Shutdown
    <3>2. ~arm'.absent
      BY <3>1 DEF Spent
    <3>3. QED BY <1>1, <3>2
  <2>5. QED
    BY <1>3, <2>1, <2>2, <2>3, <2>4
       DEF Frame, Spawn, Close, Attach, ListSessions, OtherFrame, HoldMcp,
           ClaimMcp, ReleaseMcp
<1>4. CASE deadline' = NoDeadline
  BY <1>4 DEF NoDeadline
<1>5. ASSUME NEW a \in ArmType, NEW m, EnterHold(a, m) PROVE TimerPart'
  <2>1. CASE a.purpose = "local"
    <3>1. deadline'.left = HoldTicks /\ quiet' = 0
      BY <1>5, <2>1 DEF EnterHold, NewDeadline
    <3>2. QED BY <3>1, PtyHostAssumption
  <2>2. CASE a.purpose # "local"
    BY <1>4, <1>5, <2>2 DEF EnterHold
  <2>3. QED BY <2>1, <2>2
<1>6. ASSUME NEW ok \in BOOLEAN, deadline' = Sampled(ok), UNCHANGED <<arm, quiet>>
      PROVE  TimerPart'
  <2>1. CASE deadline.kind = "awaiting" /\ ok
    <3>1. deadline'.left = HoldTicks
      BY <1>6, <2>1 DEF Sampled, NewDeadline
    <3>2. quiet' \in Nat /\ HoldTicks \in Nat
      BY <1>6, PtyHostAssumption DEF TypeOK
    <3>3. \A q, h \in Nat : q + h >= h
      OBVIOUS
    <3>4. QED BY <3>1, <3>2, <3>3
  <2>2. CASE ~(deadline.kind = "awaiting" /\ ok)
    BY <1>2, <1>6, <2>2 DEF Sampled
  <2>3. QED BY <2>1, <2>2
<1>7. CASE DisconnectArmed \/ DisconnectCrash
  <2>1. [arm EXCEPT !.purpose = "local", !.absent = FALSE] \in ArmType
    BY DEF TypeOK, ArmType
  <2>2. QED
    BY <1>5, <1>7, <2>1 DEF DisconnectArmed, DisconnectCrash, TypeOK
<1>8. CASE TimePasses
  <2>1. CASE arm.absent /\ ~adopted
    <3>1. /\ arm' = arm /\ deadline'.kind = deadline.kind
          /\ deadline'.gen = deadline.gen
          /\ quiet' = IF quiet < HoldTicks THEN quiet + 1 ELSE quiet
          /\ deadline.kind = "established" =>
               deadline'.left \in {deadline.left, deadline.left - 1}
          /\ deadline'.left \in Nat
      BY <1>8, <2>1, PtyHostAssumption DEF TimePasses, TypeOK, DeadlineType
    <3>2. quiet \in 0 .. HoldTicks /\ deadline.left \in Nat
      BY PtyHostAssumption DEF TypeOK, DeadlineType
    <3>3. QED BY <3>1, <3>2, PtyHostAssumption
  <2>2. CASE ~(arm.absent /\ ~adopted)
    BY <1>1, <1>8, <2>2 DEF TimePasses, ArmPart
  <2>3. QED BY <2>1, <2>2
<1>9. QED
  BY <1>2, <1>3, <1>4, <1>6, <1>7, <1>8
     DEF Next, Disconnect, FirstAccept, FirstAcceptFails, Reconnect, Connected,
         LeaveServe, DisconnectTearDown, TearDownSessions, Watch, Recheck,
         Expire, Samples, TearDownDone, HostExits, ChildDies, OutputEnds,
         KillFinishes, ChildStep, HolderEnds, Terminated, vars

-----------------------------------------------------------------------------
(* The child part of one step. *)

LEMMA ChildStepInv ==
  ASSUME TypeOK, ChildPart, Next
  PROVE  ChildPart'
<1> USE DEF ChildPart
<1>1. CASE UNCHANGED <<pc, child, sessions>>
  BY <1>1 DEF Hosted, Registered
<1>2. CASE /\ UNCHANGED <<child, sessions>>
           /\ pc \in {"accept", "top", "read", "wait"}
           /\ pc' \in {"top", "read", "wait"}
  BY <1>2 DEF Hosted, Registered
<1>3. ASSUME NEW t \in Tabs, Spawn(t) PROVE ChildPart'
  <2>1. pc = "read" /\ pc' = "top"
    BY <1>3 DEF Spawn, Hear
  <2>2. PICK c \in Children :
          /\ child[c] = "free"
          /\ sessions' = [sessions EXCEPT ![t] = c]
          /\ child' = [x \in Children |->
                         IF x = c THEN "live"
                         ELSE IF x = sessions[t] THEN Killed(x, "dropped")
                         ELSE child[x]]
    BY <1>3 DEF Spawn
  <2>3. \A u \in Tabs : sessions'[u] = IF u = t THEN c ELSE sessions[u]
    BY <2>2 DEF TypeOK
  <2>4. ASSUME NEW x \in Children, child'[x] \in {"live", "gone", "exited"}
        PROVE  x \in Registered'
    <3>1. CASE x = c
      BY <2>3, <3>1, PtyHostAssumption DEF Registered, Hosted
    <3>2. CASE x # c
      <4>1. x # sessions[t] /\ child'[x] = child[x]
        BY <2>2, <2>4, <3>2 DEF Killed
      <4>2. PICK u \in Tabs : sessions[u] = x /\ x # NoChild
        BY <2>4, <4>1 DEF Registered, Hosted
      <4>3. QED BY <2>3, <4>1, <4>2 DEF Registered, Hosted
    <3>3. QED BY <3>1, <3>2
  <2>5. \A x \in Children : child'[x] # "doomed"
    BY <2>1, <2>2 DEF Killed
  <2>6. QED BY <2>1, <2>4, <2>5
<1>4. ASSUME NEW t \in Tabs, Close(t) PROVE ChildPart'
  <2>1. /\ pc = "read" /\ pc' = "top" /\ t \in Hosted
        /\ sessions' = [sessions EXCEPT ![t] = NoChild]
        /\ child' = [child EXCEPT ![sessions[t]] = Killed(sessions[t], "dropped")]
    BY <1>4 DEF Close, Hear
  <2>2. \A u \in Tabs : sessions'[u] = IF u = t THEN NoChild ELSE sessions[u]
    BY <2>1 DEF TypeOK
  <2>3. \A x \in Children : child'[x] = IF x = sessions[t]
                                        THEN Killed(x, "dropped") ELSE child[x]
    BY <2>1 DEF TypeOK
  <2>4. ASSUME NEW x \in Children, child'[x] \in {"live", "gone", "exited"}
        PROVE  x \in Registered'
    <3>1. x # sessions[t] /\ child'[x] = child[x]
      BY <2>3, <2>4 DEF Killed
    <3>2. PICK u \in Tabs : sessions[u] = x /\ x # NoChild
      BY <2>4, <3>1 DEF Registered, Hosted
    <3>3. QED BY <2>2, <3>1, <3>2 DEF Registered, Hosted
  <2>5. \A x \in Children : child'[x] # "doomed"
    BY <2>1, <2>3 DEF Killed
  <2>6. QED BY <2>1, <2>4, <2>5
<1>5. CASE Frame
  BY <1>2, <1>3, <1>4, <1>5
     DEF Frame, Attach, ListSessions, OtherFrame, ArmDetach, Disarm, Shutdown,
         HoldMcp, ClaimMcp, ReleaseMcp, Hear
<1>6. ASSUME NEW m, TearDownSessions(m) PROVE ChildPart'
  <2>1. /\ pc' = "teardown"
        /\ \A c \in Children : child'[c] = IF c \in Registered
                                 THEN Killed(c, "doomed") ELSE child[c]
        /\ \A t \in Tabs : sessions'[t] = NoChild
    BY <1>6 DEF TearDownSessions
  <2>2. Hosted' = {}
    BY <2>1 DEF Hosted
  <2>3. \A c \in Children : child'[c] \notin {"live", "gone", "exited"}
    BY <2>1 DEF Killed
  <2>4. \A c \in Children : child'[c] \in {"live", "gone", "exited"}
                            => c \in Registered'
    BY <2>3
  <2>5. QED BY <2>1, <2>2, <2>3, <2>4
(* Leaving the serve loop without a teardown leaves no live child. *)
<1>7. ASSUME LeaveServe, LiveTabs = {}, pc \in {"accept", "wait", "teardown"},
             pc = "teardown" =>
               KillMayWedge \/ \A c \in Children : child[c] # "doomed"
      PROVE  ChildPart'
  <2>1. pc' = "finish" /\ UNCHANGED <<child, sessions>>
    BY <1>7 DEF LeaveServe
  <2>2. \A c \in Children : child[c] # "live"
    BY <1>7 DEF LiveTabs, Registered
  <2>3. QED BY <1>7, <2>1, <2>2 DEF Registered, Hosted
<1>8. CASE HostExits
  <2>1. /\ pc = "finish" /\ pc' = "down"
        /\ \A c \in Children : child'[c] = IF c \in Registered
                                 THEN Killed(c, "dropped") ELSE child[c]
        /\ \A t \in Tabs : sessions'[t] = NoChild
    BY <1>8 DEF HostExits
  <2>2. Hosted' = {}
    BY <2>1 DEF Hosted
  <2>3. \A c \in Children : child'[c] \notin {"live", "gone", "exited"}
    BY <2>1 DEF Killed
  <2>4. \A c \in Children : child'[c] = "doomed" => child[c] = "doomed"
    BY <2>1 DEF Killed
  <2>5. QED BY <2>1, <2>2, <2>3, <2>4
<1>9. ASSUME NEW c \in Children, ChildDies(c) \/ OutputEnds(c) \/ KillFinishes(c)
      PROVE  ChildPart'
  <2>1. UNCHANGED <<pc, sessions>>
    BY <1>9 DEF ChildDies, OutputEnds, KillFinishes, ChildStep
  <2>2. \A x \in Children : x # c => child'[x] = child[x]
    BY <1>9 DEF ChildDies, OutputEnds, KillFinishes, ChildStep, TypeOK
  <2>3. \/ child[c] = "live" /\ child'[c] = "gone"
        \/ child[c] = "gone" /\ child'[c] = "exited"
        \/ child'[c] = "free"
    BY <1>9 DEF ChildDies, OutputEnds, KillFinishes, ChildStep, TypeOK
  <2>4. Hosted' = Hosted /\ Registered' = Registered
    BY <2>1 DEF Hosted, Registered
  <2>5. QED BY <2>1, <2>2, <2>3, <2>4
<1>10. CASE TearDownDone
  BY <1>7, <1>10 DEF TearDownDone, LiveTabs
<1>11. CASE FirstAcceptFails
  BY <1>7, <1>11 DEF FirstAcceptFails, LiveTabs
<1>12. ASSUME NEW ok \in Samples, Recheck(ok) PROVE ChildPart'
  BY <1>1, <1>6, <1>7, <1>12 DEF Recheck, Expire
<1>13. QED
  BY <1>1, <1>2, <1>5, <1>6, <1>8, <1>9, <1>10, <1>11, <1>12
     DEF Next, Disconnect, FirstAccept, Reconnect, Connected, DisconnectArmed,
         DisconnectCrash, EnterHold, DisconnectTearDown, Watch, Expire,
         HolderEnds, TimePasses, Terminated, vars

-----------------------------------------------------------------------------
(* One step preserves the whole invariant. *)

LEMMA DetachedStep ==
  ASSUME HeldSessionsDetached, Next
  PROVE  HeldSessionsDetached'
<1> USE DEF HeldSessionsDetached
<1>1. CASE pc' # "wait"
  BY <1>1
<1>2. CASE UNCHANGED <<pc, attached>>
  BY <1>2
<1>3. CASE DisconnectArmed \/ DisconnectCrash
  BY <1>3 DEF DisconnectArmed, DisconnectCrash, EnterHold, DetachAll
<1>4. CASE Frame
  <2>1. pc' = "top"
    BY <1>4 DEF Frame, Spawn, Close, Attach, ListSessions, OtherFrame, ArmDetach,
                Disarm, Shutdown, HoldMcp, ClaimMcp, ReleaseMcp, Hear
  <2>2. QED BY <1>1, <2>1
<1>5. QED
  BY <1>1, <1>2, <1>3, <1>4
     DEF Next, Disconnect, FirstAccept, FirstAcceptFails, Reconnect, Connected,
         LeaveServe, DisconnectTearDown, TearDownSessions, Watch, Recheck,
         Expire, TearDownDone, HostExits, ChildDies, OutputEnds,
         KillFinishes, ChildStep, HolderEnds, TimePasses, Terminated, vars

LEMMA HostStep ==
  ASSUME HostInv, [Next]_vars
  PROVE  HostInv'
<1>1. CASE Next
  BY <1>1, TypeStep, McpStep, ArmStep, TimerStep, ChildStepInv, DetachedStep
     DEF HostInv
<1>2. CASE UNCHANGED vars
  <2>1. TypeOK' /\ McpPart'
    BY <1>2 DEF HostInv, TypeOK, vars, McpPart, EveryHolderJoined,
                HolderMatchesGui, PendingUnderLocalArm, Unfinished
  <2>2. ArmPart' /\ TimerPart' /\ ChildPart' /\ HeldSessionsDetached'
    BY <1>2 DEF HostInv, vars, ArmPart, ArmEndsWithAbsence, QuitIsKept,
                TimerPart, LocalHoldIsCurrent, ChildPart, Registered, Hosted,
                HeldSessionsDetached
  <2>3. QED BY <2>1, <2>2 DEF HostInv
<1>3. QED BY <1>1, <1>2

(* The host keeps its invariant: the hold record, the arm, the deadline and *)
(* the children agree with one another after any sequence of frames, drops, *)
(* deaths and ticks (serve, run_connection, SessionManager).                *)
THEOREM HostInvariant == Spec => []HostInv
<1>1. Init => HostInv
  BY InitInv
<1>2. HostInv /\ [Next]_vars => HostInv'
  BY HostStep
<1>3. QED BY <1>1, <1>2, PTL DEF Spec

(* Every variable of the host keeps its type. *)
THEOREM TypeCorrect == Spec => []TypeOK
BY HostInvariant, PTL DEF HostInv

(* A quit announced by Shutdown is kept: no hold follows that connection,   *)
(* whatever arms and adoptions came before the quit (on_gui_connect resets  *)
(* the latch before the frame is dispatched, never after).                  *)
THEOREM QuitKept == Spec => []QuitIsKept
<1>1. HostInv => QuitIsKept
  BY DEF HostInv, ArmPart
<1>2. QED BY <1>1, HostInvariant, PTL

(* No arm outlives the absence it was set for (on_gui_connect, disarm).     *)
THEOREM ArmEnds == Spec => []ArmEndsWithAbsence
<1>1. HostInv => ArmEndsWithAbsence
  BY DEF HostInv, ArmPart
<1>2. QED BY <1>1, HostInvariant, PTL

(* No session streams while no client is connected (on_disconnect).         *)
THEOREM DetachedWhileHeld == Spec => []HeldSessionsDetached
<1>1. HostInv => HeldSessionsDetached
  BY DEF HostInv
<1>2. QED BY <1>1, HostInvariant, PTL

(* A holder's mode agrees with the presence of the GUI (McpHold::on_adopted, *)
(* claim, on_disconnect, on_absence_begun).                                  *)
THEOREM HolderFollowsGui == Spec => []HolderMatchesGui
<1>1. HostInv => HolderMatchesGui
  BY DEF HostInv, McpPart
<1>2. QED BY <1>1, HostInvariant, PTL

(* A pending MCP hold exists only under a Local arm (hold_mcp, arm_detach). *)
THEOREM PendingNeedsLocalArm == Spec => []PendingUnderLocalArm
<1>1. HostInv => PendingUnderLocalArm
  BY DEF HostInv, McpPart
<1>2. QED BY <1>1, HostInvariant, PTL

(* Every exit path stops and joins every holder (take_for_shutdown, finish). *)
THEOREM HoldersJoined == Spec => []EveryHolderJoined
<1>1. HostInv => EveryHolderJoined
  BY DEF HostInv, McpPart
<1>2. QED BY <1>1, HostInvariant, PTL

(* There is at most one holder task, the retiring one included (McpHold).   *)
THEOREM AtMostOneHolder == Spec => []OneHolder
<1>1. HostInv => OneHolder
  <2> SUFFICES ASSUME HostInv PROVE OneHolder
    OBVIOUS
  <2>1. CASE pc \notin {"finish", "down"}
    BY <2>1, OneUnfinished DEF HostInv, McpPart, OneHolder
  <2>2. CASE pc = "finish"
    BY <2>2 DEF HostInv, McpPart, EveryHolderJoined, OneHolder
  <2>3. CASE pc = "down"
    BY <2>3 DEF HostInv, McpPart, EveryHolderJoined, OneHolder
  <2>4. QED BY <2>1, <2>2, <2>3
<1>2. QED BY <1>1, HostInvariant, PTL

(* When no kill outlasts the grace, nothing the host tore down or left      *)
(* survives it (teardown awaits its kills before serve returns).            *)
THEOREM ChildrenDie ==
  ASSUME ~KillMayWedge
  PROVE  Spec => []TornDownChildrenDie
<1>1. HostInv => TornDownChildrenDie
  BY DEF HostInv, ChildPart, TornDownChildrenDie
<1>2. QED BY <1>1, HostInvariant, PTL

-----------------------------------------------------------------------------
(* What a step may never do. *)

(* An expiry needs the whole active time of silence in this absence. *)
LEMMA ExpiryIsEarned ==
  ASSUME HostInv, Expirable
  PROVE  arm.purpose = "local" /\ arm.absent /\ quiet = HoldTicks /\ ~adopted
<1>1. /\ deadline.kind = "established" /\ deadline.left = 0
      /\ LocalHoldIsCurrent(deadline.gen)
  BY DEF Expirable
<1>2. arm.purpose = "local" /\ arm.absent
  BY <1>1 DEF LocalHoldIsCurrent
<1>3. ~adopted
  BY <1>2 DEF HostInv, ArmPart
<1>4. quiet + deadline.left >= HoldTicks /\ quiet \in 0 .. HoldTicks
  BY <1>1 DEF HostInv, TimerPart, TypeOK
<1>5. quiet = HoldTicks
  BY <1>1, <1>4, PtyHostAssumption
<1>6. QED BY <1>2, <1>3, <1>5

(* The only steps into teardown or finish. *)
LEMMA WaysOut ==
  ASSUME Next, pc' \in {"teardown", "finish"}, pc' # pc
  PROVE  \/ FirstAcceptFails \/ DisconnectTearDown \/ Expire \/ TearDownDone
         \/ pc = "wait" /\ LiveTabs = {}
<1>1. ~Frame
  BY DEF Frame, Spawn, Close, Attach, ListSessions, OtherFrame, ArmDetach,
         Disarm, Shutdown, HoldMcp, ClaimMcp, ReleaseMcp, Hear
<1>2. QED
  BY <1>1
     DEF Next, Disconnect, FirstAccept, Reconnect, Connected, DisconnectArmed,
         DisconnectCrash, EnterHold, Watch, Recheck, HostExits, ChildDies,
         OutputEnds, KillFinishes, ChildStep, HolderEnds, TimePasses,
         Terminated, vars

(* An acknowledged arm is honoured at the end of its connection, whatever   *)
(* timer of an older absence is still pending (local_hold_is_current).      *)
THEOREM ArmHonoured == Spec => ArmIsHonoured
<1>1. HostInv /\ [Next]_vars =>
        [(pc \in {"top", "read"} /\ lastWord = "arm") => pc' # "teardown"]_vars
  <2> SUFFICES ASSUME HostInv, Next, pc \in {"top", "read"}, lastWord = "arm",
                      pc' = "teardown"
               PROVE  FALSE
    OBVIOUS
  <2>1. adopted /\ arm.deadline
    BY DEF HostInv, ArmPart
  <2>2. ~Expire
    BY <2>1, ExpiryIsEarned DEF Expire
  <2>3. DisconnectTearDown
    BY <2>2, WaysOut DEF FirstAcceptFails, TearDownDone
  <2>4. QED BY <2>1, <2>3 DEF DisconnectTearDown
<1>2. QED BY <1>1, HostInvariant, PTL DEF Spec, ArmIsHonoured

(* Live sessions are destroyed only by a quit, by a host that dies with its *)
(* GUI, or by a Local hold whose whole active time passed in silence        *)
(* (on_disconnect, local_hold_is_current, teardown).                        *)
THEOREM SessionsKept == Spec => LiveSessionsKept
<1>1. HostInv /\ [Next]_vars =>
        [LiveTabs # {} /\ pc' \in {"teardown", "finish"} /\ pc' # pc =>
           \/ pc = "read" /\ ~arm.deadline /\ (shutdown \/ ~survivable)
           \/ arm.purpose = "local" /\ quiet = HoldTicks /\ ~adopted]_vars
  <2> SUFFICES ASSUME HostInv, Next, LiveTabs # {},
                      pc' \in {"teardown", "finish"}, pc' # pc
               PROVE  \/ pc = "read" /\ ~arm.deadline /\ (shutdown \/ ~survivable)
                      \/ arm.purpose = "local" /\ quiet = HoldTicks /\ ~adopted
    OBVIOUS
  <2>1. CASE Expire
    BY <2>1, ExpiryIsEarned DEF Expire
  <2>2. CASE DisconnectTearDown
    BY <2>2 DEF DisconnectTearDown, MustTearDown
  <2>3. pc \notin {"accept", "teardown"}
    BY DEF HostInv, ChildPart, LiveTabs
  <2>4. QED
    BY <2>1, <2>2, <2>3, WaysOut DEF FirstAcceptFails, TearDownDone
<1>2. QED BY <1>1, HostInvariant, PTL DEF Spec, LiveSessionsKept

(* The quit and the arm of a client are each its last word                  *)
(* (authenticates_lifecycle, on_gui_connect).                               *)
THEOREM LastWordAlwaysKept == Spec => []LastWordKept
<1>1. QuitIsKept /\ ArmEndsWithAbsence => LastWordKept
  BY DEF LastWordKept
<1>2. QED BY <1>1, QuitKept, ArmEnds, PTL

(* What a hold promises, through every way out of it (serve_loop, McpHold). *)
THEOREM HoldAlwaysSound == Spec => []HoldSound
<1>1. HeldSessionsDetached /\ HolderMatchesGui /\ OneHolder /\ PendingUnderLocalArm
        /\ EveryHolderJoined => HoldSound
  BY DEF HoldSound
<1>2. QED
  BY <1>1, DetachedWhileHeld, HolderFollowsGui, AtMostOneHolder, PendingNeedsLocalArm,
     HoldersJoined, PTL

-----------------------------------------------------------------------------
(* The contract                                                              *)

(* A session is registered under one tab, and its process has not been     *)
(* killed: whoever starts a kill has taken the session out of the table.   *)
SessionPart ==
  /\ \A t \in Hosted : child[sessions[t]] \in {"live", "gone", "exited"}
  /\ \A t, u \in Hosted : sessions[t] = sessions[u] => t = u

LEMMA InitSessions == Init => SessionPart
BY DEF Init, SessionPart, Hosted

LEMMA SpawnSessions ==
  ASSUME TypeOK, SessionPart, NEW t \in Tabs, Spawn(t)
  PROVE  SessionPart'
<1>1. PICK c \in Children :
        /\ child[c] = "free"
        /\ sessions' = [sessions EXCEPT ![t] = c]
        /\ child' = [x \in Children |->
                       IF x = c THEN "live"
                       ELSE IF x = sessions[t] THEN Killed(x, "dropped")
                       ELSE child[x]]
  BY DEF Spawn
<1>2. \A u \in Tabs : sessions'[u] = IF u = t THEN c ELSE sessions[u]
  BY <1>1 DEF TypeOK
<1>3. \A u \in Hosted : sessions[u] \in Children /\ sessions[u] # c
  BY <1>1 DEF SessionPart, Hosted, TypeOK
<1>4. ASSUME NEW u \in Tabs, u # t, u \in Hosted'
      PROVE  u \in Hosted /\ sessions'[u] = sessions[u]
  BY <1>2, <1>4 DEF Hosted
<1>5. ASSUME NEW u \in Hosted'
      PROVE  child'[sessions'[u]] \in {"live", "gone", "exited"}
  <2>1. CASE u = t
    BY <1>1, <1>2, <2>1 DEF Hosted
  <2>2. CASE u # t
    <3>1. u \in Tabs
      BY <1>5 DEF Hosted
    <3>2. u \in Hosted /\ sessions'[u] = sessions[u]
      BY <1>4, <1>5, <2>2, <3>1
    <3>3. sessions[u] # sessions[t]
      <4>1. CASE t \in Hosted
        BY <2>2, <3>2, <4>1 DEF SessionPart
      <4>2. CASE t \notin Hosted
        BY <3>2, <4>2 DEF Hosted
      <4>3. QED BY <4>1, <4>2
    <3>4. child'[sessions[u]] = child[sessions[u]]
      BY <1>1, <1>3, <3>2, <3>3
    <3>5. QED BY <3>2, <3>4 DEF SessionPart
  <2>3. QED BY <2>1, <2>2
<1>6. ASSUME NEW u \in Hosted', NEW v \in Hosted', sessions'[u] = sessions'[v]
      PROVE  u = v
  <2>1. u \in Tabs /\ v \in Tabs
    BY <1>6 DEF Hosted
  <2>2. CASE u # t /\ v # t
    <3>1. u \in Hosted /\ v \in Hosted /\ sessions[u] = sessions[v]
      BY <1>4, <1>6, <2>1, <2>2
    <3>2. QED BY <3>1 DEF SessionPart
  <2>3. CASE u = t \/ v = t
    BY <1>2, <1>3, <1>4, <1>6, <2>1, <2>3
  <2>4. QED BY <2>2, <2>3
<1>7. QED BY <1>5, <1>6 DEF SessionPart

LEMMA CloseSessions ==
  ASSUME TypeOK, SessionPart, NEW t \in Tabs, Close(t)
  PROVE  SessionPart'
<1>1. /\ t \in Hosted
      /\ sessions' = [sessions EXCEPT ![t] = NoChild]
      /\ child' = [child EXCEPT ![sessions[t]] = Killed(sessions[t], "dropped")]
  BY DEF Close
<1>2. ASSUME NEW u \in Hosted'
      PROVE  u \in Hosted /\ u # t /\ sessions'[u] = sessions[u]
  BY <1>1, <1>2 DEF Hosted, TypeOK
<1>3. ASSUME NEW u \in Hosted' PROVE child'[sessions'[u]] = child[sessions[u]]
  <2>1. sessions[u] \in Children /\ sessions[u] # sessions[t]
    BY <1>1, <1>2, <1>3 DEF SessionPart, Hosted, TypeOK
  <2>2. QED BY <1>1, <1>2, <1>3, <2>1 DEF TypeOK
<1>4. QED BY <1>2, <1>3 DEF SessionPart

LEMMA SessionStep ==
  ASSUME TypeOK, ChildPart, SessionPart, Next
  PROVE  SessionPart'
<1>1. CASE UNCHANGED <<child, sessions>>
  BY <1>1 DEF SessionPart, Hosted
<1>2. CASE \A t \in Tabs : sessions'[t] = NoChild
  BY <1>2 DEF SessionPart, Hosted
<1>3. CASE Frame
  BY <1>1, <1>3, SpawnSessions, CloseSessions
     DEF Frame, Attach, ListSessions, OtherFrame, ArmDetach, Disarm, Shutdown,
         HoldMcp, ClaimMcp, ReleaseMcp
<1>4. ASSUME NEW m, TearDownSessions(m) PROVE SessionPart'
  BY <1>2, <1>4 DEF TearDownSessions
<1>5. ASSUME NEW c \in Children, ChildDies(c) \/ OutputEnds(c) \/ KillFinishes(c)
      PROVE  SessionPart'
  <2>1. sessions' = sessions
    BY <1>5 DEF ChildDies, OutputEnds, KillFinishes, ChildStep
  <2>2. \A x \in Children :
          child[x] \in {"live", "gone", "exited"}
            => child'[x] \in {"live", "gone", "exited"}
    BY <1>5 DEF ChildDies, OutputEnds, KillFinishes, ChildStep, TypeOK
  <2>3. Hosted' = Hosted /\ \A t \in Hosted : sessions[t] \in Children
    BY <2>1 DEF Hosted, TypeOK
  <2>4. QED BY <2>1, <2>2, <2>3 DEF SessionPart
<1>6. CASE HostExits
  BY <1>2, <1>6 DEF HostExits
<1>7. QED
  BY <1>1, <1>3, <1>4, <1>5, <1>6
     DEF Next, Disconnect, FirstAccept, FirstAcceptFails, Reconnect, Connected,
         LeaveServe, DisconnectArmed, DisconnectCrash, EnterHold,
         DisconnectTearDown, Watch, Recheck, Expire, TearDownDone, HolderEnds,
         TimePasses, Terminated, vars

(* Sessions are told apart by their tabs, and none outlives its own kill.   *)
LEMMA SessionInvariant == Spec => []SessionPart
<1>1. HostInv /\ SessionPart /\ [Next]_vars => SessionPart'
  <2> SUFFICES ASSUME HostInv, SessionPart, [Next]_vars PROVE SessionPart'
    OBVIOUS
  <2>1. CASE Next
    BY <2>1, SessionStep DEF HostInv
  <2>2. CASE UNCHANGED vars
    BY <2>2 DEF vars, SessionPart, Hosted
  <2>3. QED BY <2>1, <2>2
<1>2. QED BY <1>1, InitSessions, HostInvariant, PTL DEF Spec

-----------------------------------------------------------------------------
(* What a client sees of a step. *)

LEMMA AtOf ==
  /\ pc = "accept" => ContractAt = "fresh"
  /\ pc \in {"top", "read"} => ContractAt = "served"
  /\ pc = "wait" => ContractAt = "held"
  /\ pc \in {"teardown", "finish"} => ContractAt = "ending"
  /\ pc = "down" => ContractAt = "gone"
BY DEF ContractAt

LEMMA AtOfNext ==
  /\ pc' = "accept" => ContractAt' = "fresh"
  /\ pc' \in {"top", "read"} => ContractAt' = "served"
  /\ pc' = "wait" => ContractAt' = "held"
  /\ pc' \in {"teardown", "finish"} => ContractAt' = "ending"
  /\ pc' = "down" => ContractAt' = "gone"
BY DEF ContractAt

LEMMA SameShells ==
  ASSUME UNCHANGED <<sessions, child>>
  PROVE  Shells' = Shells
BY DEF Shells, ShellOf

LEMMA NoShellsLeft ==
  ASSUME \A t \in Tabs : sessions'[t] = NoChild
  PROVE  Shells' = Contract!NoShells
BY DEF Shells, ShellOf, Contract!NoShells

LEMMA RunningIsLive == Contract!Running = LiveTabs
BY DEF Contract!Running, Shells, ShellOf, LiveTabs, Hosted

LEMMA InitContract == Init => Contract!Init
<1> SUFFICES ASSUME Init PROVE Contract!Init
  OBVIOUS
<1>1. ContractAt = "fresh"
  BY AtOf DEF Init
<1>2. Shells = Contract!NoShells
  BY DEF Init, Shells, ShellOf, Contract!NoShells
<1>3. (quiet = HoldTicks) = FALSE
  BY PtyHostAssumption DEF Init
<1>4. arm.deadline = FALSE /\ (arm.purpose = "local") = FALSE
  BY DEF Init
<1>5. QED BY <1>1, <1>2, <1>3, <1>4 DEF Init, Contract!Init

(* A step no client can tell. *)
LEMMA Untold ==
  ASSUME ContractAt' = ContractAt, Shells' = Shells,
         UNCHANGED <<attached, survivable, adopted, arm, shutdown>>,
         (quiet' = HoldTicks) = (quiet = HoldTicks)
  PROVE  UNCHANGED Contract!contractVars
BY DEF Contract!contractVars

(* What a frame leaves as it is, whatever else it does. *)
LEMMA HeardFrame ==
  ASSUME NEW a \in BOOLEAN, Hear(a)
  PROVE  /\ ContractAt = "served" /\ ContractAt' = "served"
         /\ survivable' = survivable
         /\ ~a => UNCHANGED <<quiet>> /\ adopted' = (adopted \/ FALSE)
         /\ a => adopted' = TRUE /\ (quiet' = HoldTicks) = FALSE
<1>1. pc = "read" /\ pc' = "top"
  BY DEF Hear
<1>2. ContractAt = "served" /\ ContractAt' = "served"
  BY <1>1, AtOf, AtOfNext
<1>3. QED BY <1>2, PtyHostAssumption DEF Hear

LEMMA SpawnContract ==
  ASSUME HostInv, SessionPart, NEW t \in Tabs, Spawn(t)
  PROVE  Contract!Spawns(t)
<1> USE DEF HostInv
<1>1. PICK c \in Children :
        /\ child[c] = "free"
        /\ sessions' = [sessions EXCEPT ![t] = c]
        /\ child' = [x \in Children |->
                       IF x = c THEN "live"
                       ELSE IF x = sessions[t] THEN Killed(x, "dropped")
                       ELSE child[x]]
  BY DEF Spawn
<1>2. \A u \in Tabs : sessions'[u] = IF u = t THEN c ELSE sessions[u]
  BY <1>1 DEF TypeOK
<1>3. ShellOf(t)' = "runs"
  BY <1>1, <1>2, PtyHostAssumption DEF ShellOf
<1>4. ASSUME NEW u \in Tabs, u # t PROVE ShellOf(u)' = ShellOf(u)
  <2>1. CASE u \notin Hosted
    BY <1>2, <1>4, <2>1 DEF Hosted, ShellOf
  <2>2. CASE u \in Hosted
    <3>1. sessions[u] \in Children /\ sessions[u] # c
      BY <1>1, <2>2 DEF SessionPart, Hosted, TypeOK
    <3>2. sessions[u] # sessions[t]
      <4>1. CASE t \in Hosted
        BY <1>4, <2>2, <4>1 DEF SessionPart
      <4>2. CASE t \notin Hosted
        BY <2>2, <4>2 DEF Hosted
      <4>3. QED BY <4>1, <4>2
    <3>3. child'[sessions[u]] = child[sessions[u]]
      BY <1>1, <3>1, <3>2
    <3>4. sessions'[u] = sessions[u]
      BY <1>2, <1>4
    <3>5. QED BY <3>3, <3>4 DEF ShellOf
  <2>3. QED BY <2>1, <2>2
<1>5. Shells' = [Shells EXCEPT ![t] = "runs"]
  <2>1. Shells' = [u \in Tabs |-> ShellOf(u)']
    BY DEF Shells
  <2>2. [Shells EXCEPT ![t] = "runs"] =
          [u \in Tabs |-> IF u = t THEN "runs" ELSE ShellOf(u)]
    BY DEF Shells
  <2>3. QED BY <1>3, <1>4, <2>1, <2>2
<1>6. Hear(FALSE) /\ attached' = attached \cup {t} /\ UNCHANGED <<arm, shutdown>>
  BY DEF Spawn
<1>7. /\ ContractAt = "served" /\ ContractAt' = "served"
      /\ survivable' = survivable /\ quiet' = quiet /\ adopted' = adopted
  BY <1>6, HeardFrame DEF TypeOK
<1>8. QED BY <1>5, <1>6, <1>7 DEF Contract!Spawns, Contract!Sets

LEMMA CloseContract ==
  ASSUME HostInv, SessionPart, NEW t \in Tabs, Close(t)
  PROVE  Contract!Closes(t)
<1> USE DEF HostInv
<1>1. /\ t \in Hosted
      /\ sessions' = [sessions EXCEPT ![t] = NoChild]
      /\ child' = [child EXCEPT ![sessions[t]] = Killed(sessions[t], "dropped")]
  BY DEF Close
<1>2. ShellOf(t)' = "none"
  BY <1>1 DEF TypeOK, ShellOf
<1>3. ASSUME NEW u \in Tabs, u # t PROVE ShellOf(u)' = ShellOf(u)
  <2>1. sessions'[u] = sessions[u]
    BY <1>1, <1>3 DEF TypeOK
  <2>2. CASE u \notin Hosted
    BY <2>1, <2>2 DEF Hosted, ShellOf
  <2>3. CASE u \in Hosted
    <3>1. sessions[u] \in Children /\ sessions[u] # sessions[t]
      BY <1>1, <1>3, <2>3 DEF SessionPart, Hosted, TypeOK
    <3>2. child'[sessions[u]] = child[sessions[u]]
      BY <1>1, <3>1 DEF TypeOK
    <3>3. QED BY <2>1, <3>2 DEF ShellOf
  <2>4. QED BY <2>2, <2>3
<1>4. Shells' = [Shells EXCEPT ![t] = "none"]
  <2>1. Shells' = [u \in Tabs |-> ShellOf(u)']
    BY DEF Shells
  <2>2. [Shells EXCEPT ![t] = "none"] =
          [u \in Tabs |-> IF u = t THEN "none" ELSE ShellOf(u)]
    BY DEF Shells
  <2>3. QED BY <1>2, <1>3, <2>1, <2>2
<1>5. Shells[t] # "none"
  BY <1>1 DEF Shells, ShellOf, Hosted
<1>6. Hear(FALSE) /\ attached' = attached \ {t} /\ UNCHANGED <<arm, shutdown>>
  BY DEF Close
<1>7. /\ ContractAt = "served" /\ ContractAt' = "served"
      /\ survivable' = survivable /\ quiet' = quiet /\ adopted' = adopted
  BY <1>6, HeardFrame DEF TypeOK
<1>8. QED BY <1>4, <1>5, <1>6, <1>7 DEF Contract!Closes, Contract!Sets

LEMMA AttachContract ==
  ASSUME HostInv, NEW t \in Tabs, Attach(t)
  PROVE  Contract!Streams(t)
<1>1. /\ Hear(FALSE) /\ t \in Hosted /\ attached' = attached \cup {t}
      /\ UNCHANGED <<sessions, child, arm, shutdown>>
  BY DEF Attach
<1>2. /\ ContractAt = "served" /\ ContractAt' = "served"
      /\ survivable' = survivable /\ quiet' = quiet /\ adopted' = adopted
  BY <1>1, HeardFrame DEF HostInv, TypeOK
<1>3. Shells' = Shells /\ Shells[t] # "none"
  BY <1>1, SameShells DEF Shells, ShellOf, Hosted
<1>4. Shells' = [Shells EXCEPT ![t] = Shells[t]]
  BY <1>3 DEF Shells
<1>5. QED BY <1>1, <1>2, <1>3, <1>4 DEF Contract!Streams, Contract!Sets

(* The frames that carry a token, and Disarm. *)
LEMMA HeardContract ==
  ASSUME HostInv, Hear(TRUE), UNCHANGED <<sessions, attached, child>>
  PROVE  /\ Contract!Adopts
         /\ ContractAt = "served" /\ ContractAt' = "served"
         /\ UNCHANGED <<Shells, attached, survivable>>
BY HeardFrame, SameShells DEF Contract!Adopts

LEMMA ListContract ==
  ASSUME HostInv, Hear(TRUE), UNCHANGED <<sessions, attached, child>>,
         arm' = HeardArm(TRUE), shutdown' = HeardShutdown(TRUE)
  PROVE  Contract!Announces
<1>1. /\ Contract!Adopts
      /\ ContractAt = "served" /\ ContractAt' = "served"
      /\ UNCHANGED <<Shells, attached, survivable>>
  BY HeardContract
<1>2. CASE adopted
  <2>1. arm' = arm /\ shutdown' = shutdown
    BY <1>2 DEF HostInv, TypeOK, HeardArm, HeardShutdown, Adopts
  <2>2. QED BY <1>1, <1>2, <2>1 DEF Contract!Announces, Contract!Stands
<1>3. CASE ~adopted
  <2>1. arm' = Spent(arm) /\ shutdown' = FALSE
    BY <1>3 DEF HostInv, TypeOK, HeardArm, HeardShutdown, Adopts
  <2>2. arm'.deadline = FALSE /\ arm'.purpose # "local"
    BY <2>1, SpentType DEF HostInv, TypeOK, ArmType
  <2>3. QED BY <1>1, <1>3, <2>1, <2>2 DEF Contract!Announces, Contract!Stands
<1>4. QED BY <1>2, <1>3

LEMMA ArmContract ==
  ASSUME HostInv, NEW p \in {"none", "local"}, ArmDetach(p)
  PROVE  \/ Contract!Announces
         \/ \E b \in BOOLEAN : Contract!Arms(b)
<1>1. /\ Hear(TRUE) /\ UNCHANGED <<sessions, attached, child>>
      /\ shutdown' = HeardShutdown(TRUE)
  BY DEF ArmDetach
<1>2. CASE ~survivable
  BY <1>1, <1>2, ListContract DEF ArmDetach
<1>3. CASE survivable
  <2>1. /\ Contract!Adopts
        /\ ContractAt = "served" /\ ContractAt' = "served"
        /\ UNCHANGED <<Shells, attached, survivable>>
    BY <1>1, HeardContract
  <2>2. arm'.deadline = TRUE /\ arm'.purpose = p
    BY <1>3 DEF ArmDetach
  <2>3. shutdown' = (shutdown /\ adopted)
    BY <1>1 DEF HostInv, TypeOK, HeardShutdown, Adopts
  <2>4. Contract!Arms(p = "local")
    BY <1>3, <2>1, <2>2, <2>3 DEF Contract!Arms, Contract!Stands
  <2>5. QED BY <2>4
<1>4. QED BY <1>2, <1>3

LEMMA QuitContract ==
  ASSUME HostInv, Shutdown
  PROVE  Contract!Quits
<1>1. /\ Hear(TRUE) /\ UNCHANGED <<sessions, attached, child>>
      /\ shutdown' = TRUE /\ arm' = Spent(HeardArm(TRUE))
  BY DEF Shutdown
<1>2. arm'.deadline = FALSE /\ arm'.purpose # "local"
  BY <1>1, SpentType, HeardArmType DEF HostInv, TypeOK, ArmType
<1>3. QED BY <1>1, <1>2, HeardContract DEF Contract!Quits, Contract!Stands

LEMMA DisarmContract ==
  ASSUME HostInv, Disarm
  PROVE  Contract!Disarms
<1>1. /\ Hear(FALSE) /\ UNCHANGED <<sessions, attached, child, shutdown>>
      /\ arm' = Spent(arm)
  BY DEF Disarm
<1>2. arm'.deadline = FALSE /\ arm'.purpose # "local"
  BY <1>1, SpentType DEF HostInv, TypeOK
<1>3. /\ ContractAt = "served" /\ ContractAt' = "served"
      /\ survivable' = survivable /\ quiet' = quiet /\ adopted' = adopted
  BY <1>1, HeardFrame DEF HostInv, TypeOK
<1>4. QED BY <1>1, <1>2, <1>3, SameShells DEF Contract!Disarms, Contract!Stands

LEMMA FrameContract ==
  ASSUME HostInv, SessionPart, Frame
  PROVE  [Contract!Next]_(Contract!contractVars)
<1>1. ASSUME NEW t \in Tabs, Spawn(t) \/ Close(t) \/ Attach(t)
      PROVE  Contract!Next
  BY <1>1, SpawnContract, CloseContract, AttachContract DEF Contract!Next
<1>2. CASE ListSessions \/ ClaimMcp
  BY <1>2, ListContract DEF ListSessions, ClaimMcp, Contract!Next
<1>3. CASE OtherFrame \/ HoldMcp \/ ReleaseMcp
  <2>1. Hear(FALSE) /\ UNCHANGED <<sessions, attached, child, arm, shutdown>>
    BY <1>3 DEF OtherFrame, HoldMcp, ReleaseMcp
  <2>2. /\ ContractAt' = ContractAt
        /\ survivable' = survivable /\ quiet' = quiet /\ adopted' = adopted
    BY <2>1, HeardFrame DEF HostInv, TypeOK
  <2>3. QED BY <2>1, <2>2, SameShells, Untold
<1>4. ASSUME NEW p \in {"none", "local"}, ArmDetach(p)
      PROVE  Contract!Next
  BY <1>4, ArmContract DEF Contract!Next
<1>5. CASE Disarm \/ Shutdown
  BY <1>5, DisarmContract, QuitContract DEF Contract!Next
<1>6. QED BY <1>1, <1>2, <1>3, <1>4, <1>5 DEF Frame

LEMMA HoldContract ==
  ASSUME HostInv, NEW a \in ArmType, NEW m, EnterHold(a, m),
         a.deadline = arm.deadline
  PROVE  Contract!Holds(a.purpose = "local")
<1>1. /\ pc' = "wait" /\ attached' = {} /\ adopted' = FALSE /\ quiet' = 0
      /\ UNCHANGED <<survivable, sessions, child, shutdown>>
  BY DEF EnterHold, DetachAll
<1>2. arm'.deadline = arm.deadline /\ arm'.purpose = a.purpose
  BY DEF EnterHold, ArmType
<1>3. ContractAt' = "held" /\ Shells' = Shells
  BY <1>1, AtOfNext, SameShells
<1>4. (quiet' = HoldTicks) = FALSE
  BY <1>1, PtyHostAssumption
<1>5. QED BY <1>1, <1>2, <1>3, <1>4 DEF Contract!Holds

LEMMA LetsGoContract ==
  ASSUME NEW m, TearDownSessions(m)
  PROVE  Contract!LetsGo
<1>1. /\ pc' = "teardown" /\ attached' = {} /\ adopted' = FALSE
      /\ \A t \in Tabs : sessions'[t] = NoChild
      /\ UNCHANGED <<survivable, arm, shutdown, quiet>>
  BY DEF TearDownSessions
<1>2. ContractAt' = "ending" /\ Shells' = Contract!NoShells
  BY <1>1, AtOfNext, NoShellsLeft
<1>3. QED BY <1>1, <1>2 DEF Contract!LetsGo

LEMMA DropContract ==
  ASSUME HostInv, Disconnect
  PROVE  Contract!Drops
<1>1. ContractAt = "served"
  BY AtOf DEF Disconnect, DisconnectArmed, DisconnectTearDown, DisconnectCrash
<1>2. CASE DisconnectArmed
  <2>1. Contract!Holds(arm.purpose = "local")
    BY <1>2, HoldContract DEF DisconnectArmed, HostInv, TypeOK
  <2>2. QED BY <1>1, <1>2, <2>1 DEF DisconnectArmed, Contract!Drops
<1>3. CASE DisconnectTearDown
  <2>1. Contract!LetsGo
    BY <1>3, LetsGoContract DEF DisconnectTearDown
  <2>2. QED
    BY <1>1, <1>3, <2>1, RunningIsLive
       DEF DisconnectTearDown, MustTearDown, Contract!Drops
<1>4. CASE DisconnectCrash
  <2> DEFINE a == [arm EXCEPT !.purpose = "local", !.absent = FALSE]
  <2>1. /\ a \in ArmType /\ a.deadline = arm.deadline /\ a.purpose = "local"
        /\ EnterHold(a, OnDisconnect(mcp))
    BY <1>4 DEF DisconnectCrash, HostInv, TypeOK, ArmType
  <2> HIDE DEF a
  <2>2. Contract!Holds(a.purpose = "local")
    BY <2>1, HoldContract
  <2>3. Contract!Holds(TRUE)
    BY <2>1, <2>2
  <2>4. QED
    BY <1>1, <1>4, <2>3, RunningIsLive
       DEF DisconnectCrash, MustTearDown, Contract!Drops
<1>5. QED BY <1>2, <1>3, <1>4 DEF Disconnect

(* An expiry is earned: the contract asks for the whole silence. *)
LEMMA ExpireContract ==
  ASSUME HostInv, Expire, pc \in {"top", "read", "wait"}
  PROVE  Contract!Expires
<1>1. arm.purpose = "local" /\ quiet = HoldTicks /\ ~adopted
  BY ExpiryIsEarned DEF Expire
<1>2. Contract!LetsGo
  BY LetsGoContract DEF Expire
<1>3. ContractAt \in {"served", "held"}
  BY AtOf
<1>4. QED BY <1>1, <1>2, <1>3 DEF Contract!Expires

LEMMA GiveUpContract ==
  ASSUME LeaveServe, pc \in {"accept", "wait"}, LiveTabs = {}
  PROVE  Contract!GivesUp
<1>1. /\ pc' = "finish"
      /\ UNCHANGED <<adopted, survivable, sessions, attached, child, arm,
                     shutdown, quiet>>
  BY DEF LeaveServe
<1>2. ContractAt \in {"fresh", "held"} /\ ContractAt' = "ending"
  BY <1>1, AtOf, AtOfNext
<1>3. QED
  BY <1>1, <1>2, SameShells, RunningIsLive DEF Contract!GivesUp

LEMMA ConnectContract ==
  ASSUME FirstAccept \/ Reconnect
  PROVE  Contract!Connects
<1>1. /\ pc \in {"accept", "wait"} /\ pc' = "top" /\ adopted' = FALSE
      /\ UNCHANGED <<survivable, sessions, attached, child, arm, shutdown, quiet>>
  BY DEF FirstAccept, Reconnect, Connected
<1>2. ContractAt \in {"fresh", "held"} /\ ContractAt' = "served"
  BY <1>1, AtOf, AtOfNext
<1>3. QED BY <1>1, <1>2, SameShells DEF Contract!Connects

LEMMA ExitContract ==
  ASSUME HostExits
  PROVE  Contract!Exits
<1>1. /\ pc = "finish" /\ pc' = "down" /\ attached' = {}
      /\ \A t \in Tabs : sessions'[t] = NoChild
      /\ UNCHANGED <<adopted, survivable, arm, shutdown, quiet>>
  BY DEF HostExits
<1>2. /\ ContractAt = "ending" /\ ContractAt' = "gone"
      /\ Shells' = Contract!NoShells
  BY <1>1, AtOf, AtOfNext, NoShellsLeft
<1>3. QED BY <1>1, <1>2 DEF Contract!Exits

(* A session stops running when its reader has seen the end of the output, *)
(* and under the one tab it is registered with.                            *)
LEMMA ChildContract ==
  ASSUME HostInv, SessionPart, NEW c \in Children,
         ChildDies(c) \/ OutputEnds(c) \/ KillFinishes(c)
  PROVE  [Contract!Next]_(Contract!contractVars)
<1>1. /\ UNCHANGED <<pc, adopted, survivable, sessions, attached, arm, shutdown,
                     quiet>>
      /\ pc # "down"
      /\ \A x \in Children : x # c => child'[x] = child[x]
  BY DEF ChildDies, OutputEnds, KillFinishes, ChildStep, HostInv, TypeOK
<1>2. ContractAt' = ContractAt
  BY <1>1 DEF ContractAt
<1>3. CASE ChildDies(c) \/ KillFinishes(c)
  <2>1. ASSUME NEW t \in Tabs PROVE ShellOf(t)' = ShellOf(t)
    <3>1. CASE t \notin Hosted
      BY <1>1, <3>1 DEF Hosted, ShellOf
    <3>2. CASE t \in Hosted
      <4>1. /\ sessions'[t] = sessions[t] /\ sessions[t] \in Children
            /\ child[sessions[t]] \in {"live", "gone", "exited"}
        BY <1>1, <3>2 DEF Hosted, SessionPart, HostInv, TypeOK
      <4>2. CASE sessions[t] # c
        BY <1>1, <4>1, <4>2 DEF ShellOf
      <4>3. CASE sessions[t] = c
        <5>1. child[c] = "live" /\ child'[c] = "gone"
          BY <1>3, <4>1, <4>3
             DEF ChildDies, KillFinishes, ChildStep, HostInv, TypeOK
        <5>2. QED BY <4>1, <4>3, <5>1 DEF ShellOf
      <4>4. QED BY <4>2, <4>3
    <3>3. QED BY <3>1, <3>2
  <2>2. Shells' = Shells
    BY <2>1 DEF Shells
  <2>3. QED BY <1>1, <1>2, <2>2, Untold
<1>4. CASE OutputEnds(c)
  <2>1. child[c] = "gone" /\ child'[c] = "exited"
    BY <1>4 DEF OutputEnds, ChildStep, HostInv, TypeOK
  <2>2. PICK t \in Hosted : sessions[t] = c
    BY <2>1 DEF HostInv, ChildPart, Registered
  <2>3. t \in Tabs /\ sessions[t] # NoChild
    BY <2>2 DEF Hosted
  <2>4. ShellOf(t) = "runs" /\ ShellOf(t)' = "ended"
    BY <1>1, <2>1, <2>2, <2>3 DEF ShellOf
  <2>5. ASSUME NEW u \in Tabs, u # t PROVE ShellOf(u)' = ShellOf(u)
    <3>1. CASE u \notin Hosted
      BY <1>1, <3>1 DEF Hosted, ShellOf
    <3>2. CASE u \in Hosted
      <4>1. sessions[u] \in Children /\ sessions[u] # c
        BY <2>2, <2>5, <3>2 DEF Hosted, SessionPart, HostInv, TypeOK
      <4>2. QED BY <1>1, <4>1 DEF ShellOf
    <3>3. QED BY <3>1, <3>2
  <2>6. Shells' = [Shells EXCEPT ![t] = "ended"]
    <3>1. Shells' = [u \in Tabs |-> ShellOf(u)']
      BY DEF Shells
    <3>2. [Shells EXCEPT ![t] = "ended"] =
            [u \in Tabs |-> IF u = t THEN "ended" ELSE ShellOf(u)]
      BY DEF Shells
    <3>3. QED BY <2>4, <2>5, <3>1, <3>2
  <2>7. Shells[t] = "runs"
    BY <2>3, <2>4 DEF Shells
  <2>8. ContractAt # "gone"
    BY <1>1, AtOf DEF HostInv, TypeOK
  <2>9. Contract!Ends(t)
    BY <1>1, <1>2, <2>6, <2>7, <2>8 DEF Contract!Ends
  <2>10. QED BY <2>3, <2>9 DEF Contract!Next
<1>5. QED BY <1>3, <1>4

LEMMA TimeContract ==
  ASSUME HostInv, TimePasses
  PROVE  [Contract!Next]_(Contract!contractVars)
<1>1. /\ pc \in {"wait", "top", "read"}
      /\ UNCHANGED <<pc, adopted, survivable, sessions, attached, child, arm,
                     shutdown>>
  BY DEF TimePasses
<1>2. ContractAt \in {"served", "held"} /\ ContractAt' = ContractAt
  BY <1>1, AtOf, AtOfNext
<1>3. CASE (quiet' = HoldTicks) = (quiet = HoldTicks)
  BY <1>1, <1>2, <1>3, SameShells, Untold
<1>4. CASE (quiet' = HoldTicks) # (quiet = HoldTicks)
  <2>1. ~adopted /\ quiet' = HoldTicks
    BY <1>4 DEF TimePasses, HostInv, TypeOK
  <2>2. Contract!FallsSilent
    BY <1>1, <1>2, <2>1, SameShells DEF Contract!FallsSilent
  <2>3. QED BY <2>2 DEF Contract!Next
<1>5. QED BY <1>3, <1>4

LEMMA ContractStep ==
  ASSUME HostInv, SessionPart, [Next]_vars
  PROVE  [Contract!Next]_(Contract!contractVars)
<1>1. CASE FirstAccept \/ Reconnect
  BY <1>1, ConnectContract DEF Contract!Next
<1>2. CASE FirstAcceptFails
  <2>1. LiveTabs = {}
    BY <1>2 DEF FirstAcceptFails, HostInv, ChildPart, LiveTabs
  <2>2. QED BY <1>2, <2>1, GiveUpContract DEF FirstAcceptFails, Contract!Next
<1>3. CASE Disconnect
  BY <1>3, DropContract DEF Contract!Next
<1>4. CASE UNCHANGED <<pc, adopted, survivable, sessions, attached, child, arm,
                       shutdown, quiet>>
  <2>1. ContractAt' = ContractAt
    BY <1>4 DEF ContractAt
  <2>2. QED BY <1>4, <2>1, SameShells, Untold
<1>5. ASSUME NEW ok \in Samples, Watch(ok)
      PROVE  [Contract!Next]_(Contract!contractVars)
  <2>1. CASE Expire
    BY <1>5, <2>1, ExpireContract DEF Watch, Contract!Next
  <2>2. CASE ~Expire
    <3>1. /\ pc \in {"top", "read"} /\ pc' = "read"
          /\ UNCHANGED <<adopted, survivable, sessions, attached, child, arm,
                         shutdown, quiet>>
      BY <1>5, <2>2 DEF Watch
    <3>2. ContractAt' = ContractAt
      BY <3>1, AtOf, AtOfNext
    <3>3. QED BY <3>1, <3>2, SameShells, Untold
  <2>3. QED BY <2>1, <2>2
<1>6. ASSUME NEW ok \in Samples, Recheck(ok)
      PROVE  [Contract!Next]_(Contract!contractVars)
  <2>1. CASE LeaveServe /\ LiveTabs = {}
    BY <1>6, <2>1, GiveUpContract DEF Recheck, Contract!Next
  <2>2. CASE Expire
    BY <1>6, <2>2, ExpireContract DEF Recheck, Contract!Next
  <2>3. CASE ~(LeaveServe /\ LiveTabs = {}) /\ ~Expire
    BY <1>4, <1>6, <2>3 DEF Recheck
  <2>4. QED BY <2>1, <2>2, <2>3
<1>7. CASE TearDownDone
  <2>1. /\ pc = "teardown" /\ pc' = "finish"
        /\ UNCHANGED <<adopted, survivable, sessions, attached, child, arm,
                       shutdown, quiet>>
    BY <1>7 DEF TearDownDone, LeaveServe
  <2>2. ContractAt' = ContractAt
    BY <2>1, AtOf, AtOfNext
  <2>3. QED BY <2>1, <2>2, SameShells, Untold
<1>8. CASE HostExits
  BY <1>8, ExitContract DEF Contract!Next
<1>9. ASSUME NEW h \in Holders, HolderEnds(h)
      PROVE  [Contract!Next]_(Contract!contractVars)
  BY <1>4, <1>9 DEF HolderEnds
<1>10. CASE Terminated \/ UNCHANGED vars
  BY <1>4, <1>10 DEF Terminated, vars
<1>11. QED
  BY <1>1, <1>2, <1>3, <1>5, <1>6, <1>7, <1>8, <1>9, <1>10, FrameContract,
     ChildContract, TimeContract DEF Next

(* The host implements the contract: no order of frames, drops, deaths and *)
(* ticks shows a client anything that the contract does not allow          *)
(* (SessionManager, serve_loop).                                           *)
THEOREM HostImplementsContract == Spec => ImplementsContract
<1>1. HostInv /\ SessionPart /\ [Next]_vars
        => [Contract!Next]_(Contract!contractVars)
  BY ContractStep
<1>2. QED
  BY <1>1, InitContract, HostInvariant, SessionInvariant, PTL
     DEF Spec, Contract!Spec, ImplementsContract

(* An arm and a live session end only as they may (on_gui_disconnect,       *)
(* local_hold_is_current).                                                  *)
THEOREM EndsAlwaysSound == Spec => EndsSound
BY ArmHonoured, SessionsKept DEF EndsSound
=============================================================================
