-------------------------- MODULE Monitors_proofs --------------------------
(***************************************************************************)
(* The two monitors.                                                       *)
(*                                                                         *)
(* Three promises of the agent monitor, for any team, any roles and any    *)
(* number of handlers suspended at an await.  The first needs an invariant *)
(* about the suspended handlers: what a check has read before it awaits    *)
(* the prompt to the coordinator is what it registers after it.            *)
(*                                                                         *)
(* Of the terminal monitor's link: one socket listens, and input goes out  *)
(* in order and once, for any number of sockets, attempts, inputs and      *)
(* faults.  What the functions of the service do to its fields comes       *)
(* first.  The invariant of an undisturbed link is Calm: its timers and    *)
(* its health check take turns, and a socket that is alive is the current  *)
(* one.  A step either keeps it or crosses two attempts.  Input needs      *)
(* less: that nothing waits in the queue of a link that is connected,      *)
(* which even crossed attempts keep.                                       *)
(***************************************************************************)
EXTENDS TeamMonitor, MonitorLink, SequenceTheorems, TLAPS

(***************************************************************************)
(* The agent monitor                                                       *)
(***************************************************************************)

(* A check that is about to ask the coordinator about an agent has counted  *)
(* it as asked about.                                                      *)
FlightsSound == \A s \in Slot : flight[s].step = "verify" => flight[s].at \in asked

Held == TeamTypeOK /\ VerifiedWasAsked /\ FlightsSound

(* What a suspended handler remembers.                                     *)
LEMMA FlightTyped ==
  ASSUME TeamTypeOK, NEW s \in Slot
  PROVE  /\ flight[s] \in Flight
         /\ flight[s].at \in Agent \cup {NoOne} /\ flight[s].todo \subseteq Agent
BY DEF TeamTypeOK, Flight

(* No handler is suspended.                                                *)
LEMMA AllFree ==
  /\ Free.step # "verify"
  /\ [s \in Slot |-> Free] \in [Slot -> Flight]
BY DEF Free, Flight

(* A handler is suspended, and has asked before it awaits the question.    *)
LEMMA AwaitsKeeps ==
  ASSUME flight \in [Slot -> Flight], FlightsSound, asked \subseteq asked',
         NEW s \in Slot, NEW k \in {"check", "beat", "tasks", "one", "reply"},
         NEW st \in PromptSteps \cup {"look", "settle"},
         NEW a \in Agent \cup {NoOne}, NEW T \in SUBSET Agent,
         st = "verify" => a \in asked', Awaits(s, k, st, a, T)
  PROVE  flight' \in [Slot -> Flight] /\ FlightsSound'
<1> DEFINE f == [kind |-> k, step |-> st, at |-> a, todo |-> T]
<1>1. f \in Flight /\ (f.step = "verify" => f.at \in asked')
  BY DEF Flight
<1>2. flight' = [flight EXCEPT ![s] = f]
  BY DEF Awaits
<1> QED BY <1>1, <1>2 DEF FlightsSound

(* A handler ends.                                                         *)
LEMMA EndsKeeps ==
  ASSUME flight \in [Slot -> Flight], FlightsSound, asked \subseteq asked',
         NEW s \in Slot, Ends(s)
  PROVE  flight' \in [Slot -> Flight] /\ FlightsSound'
<1>1. Free \in Flight /\ Free.step # "verify"
  BY DEF Free, Flight
<1> QED BY <1>1 DEF Ends, FlightsSound

(* A handler starts with a prompt that is not the question.                *)
LEMMA StartKeeps ==
  ASSUME flight \in [Slot -> Flight], FlightsSound, asked \subseteq asked',
         NEW k \in {"check", "beat", "tasks", "one", "reply"},
         NEW st \in PromptSteps \cup {"look", "settle"}, st # "verify",
         NEW a \in Agent \cup {NoOne}, Start(k, st, a)
  PROVE  flight' \in [Slot -> Flight] /\ FlightsSound'
<1>1. PICK s \in Slot : Awaits(s, k, st, a, {})
  BY DEF Start
<1>2. {} \in SUBSET Agent
  OBVIOUS
<1> HIDE DEF FlightsSound
<1> QED BY <1>1, <1>2, AwaitsKeeps

(* The loop of checkAndPromptIdleAgents.                                   *)
LEMMA CheckWalkKeeps ==
  ASSUME TeamTypeOK, FlightsSound, NEW s \in Slot, NEW T \in SUBSET Agent,
         NEW st \in [Agent -> Status], CheckWalk(s, T, st)
  PROVE  /\ status' \in [Agent -> Status]
         /\ asked' \subseteq Agent /\ asked \subseteq asked' /\ reasked' \subseteq Agent
         /\ flight' \in [Slot -> Flight] /\ FlightsSound'
<1>1. PICK Q \in SUBSET Eligible(T, st) :
        LET now == [a \in Agent |-> IF a \in Q THEN "idle" ELSE st[a]] IN
        /\ status' = now
        /\ \/ Ends(s) /\ UNCHANGED <<asked, reasked>>
           \/ \E a \in Q, rest \in SUBSET (T \ Q) :
                \/ ~MayBeComplete(a) /\ Awaits(s, "check", "look", a, rest) /\ UNCHANGED <<asked, reasked>>
                \/ /\ MayBeComplete(a) /\ Coordinator \in team /\ now[Coordinator] # "error"
                   /\ Asks(s, a, rest)
  BY DEF CheckWalk
<1>2. status' \in [Agent -> Status] /\ Q \subseteq Agent
  BY <1>1 DEF Status, Eligible
<1>3. flight \in [Slot -> Flight] /\ asked \subseteq Agent /\ reasked \subseteq Agent
  BY DEF TeamTypeOK
<1>4. CASE Ends(s) /\ UNCHANGED <<asked, reasked>>
  BY <1>2, <1>3, <1>4, EndsKeeps
<1>5. ASSUME NEW a \in Q, NEW rest \in SUBSET (T \ Q),
             Awaits(s, "check", "look", a, rest), UNCHANGED <<asked, reasked>>
      PROVE  /\ asked' \subseteq Agent /\ asked \subseteq asked' /\ reasked' \subseteq Agent
             /\ flight' \in [Slot -> Flight] /\ FlightsSound'
  BY <1>2, <1>3, <1>5, AwaitsKeeps
<1>6. ASSUME NEW a \in Q, NEW rest \in SUBSET (T \ Q), Asks(s, a, rest)
      PROVE  /\ asked' \subseteq Agent /\ asked \subseteq asked' /\ reasked' \subseteq Agent
             /\ flight' \in [Slot -> Flight] /\ FlightsSound'
  <2>1. asked' = asked \cup {a} /\ Awaits(s, "check", "verify", a, rest) /\ reasked' \subseteq reasked \cup {a}
    BY <1>6 DEF Asks
  <2> QED BY <1>2, <1>3, <2>1, AwaitsKeeps DEF PromptSteps
<1> QED BY <1>1, <1>2, <1>4, <1>5, <1>6

(* The loop of performHeartbeatCheck.                                      *)
LEMMA BeatWalkKeeps ==
  ASSUME flight \in [Slot -> Flight], FlightsSound, asked \subseteq asked',
         NEW s \in Slot, NEW T \in SUBSET Agent,
         NEW st \in [Agent -> Status], BeatWalk(s, T, st)
  PROVE  status' \in [Agent -> Status] /\ flight' \in [Slot -> Flight] /\ FlightsSound'
<1>1. PICK E \in SUBSET T :
        LET now == [a \in Agent |-> IF a \in E THEN "error" ELSE st[a]] IN
        /\ status' = now
        /\ \/ Ends(s)
           \/ \E a \in T \ E, rest \in SUBSET (T \ E) :
                /\ a \notin rest
                /\ \/ now[a] = "idle" /\ Awaits(s, "beat", "nudge", a, rest)
                   \/ Awaits(s, "beat", "wake", a, rest)
  BY DEF BeatWalk
<1>2. status' \in [Agent -> Status]
  BY <1>1 DEF Status
<1>3. CASE Ends(s)
  BY <1>2, <1>3, EndsKeeps
<1>4. ASSUME NEW a \in T \ E, NEW rest \in SUBSET (T \ E), NEW step \in {"nudge", "wake"},
             Awaits(s, "beat", step, a, rest)
      PROVE  flight' \in [Slot -> Flight] /\ FlightsSound'
  BY <1>4, AwaitsKeeps DEF PromptSteps
<1> QED BY <1>1, <1>2, <1>3, <1>4

(* The loop that tells idle agents of tasks.                               *)
LEMMA TasksNextKeeps ==
  ASSUME flight \in [Slot -> Flight], FlightsSound, asked \subseteq asked',
         NEW s \in Slot, NEW T \in SUBSET Agent, TasksNext(s, T)
  PROVE  flight' \in [Slot -> Flight] /\ FlightsSound'
<1>1. CASE T = {}
  BY <1>1, EndsKeeps DEF TasksNext
<1>2. CASE T # {}
  <2>1. PICK a \in T : Awaits(s, "tasks", "prompt", a, T \ {a})
    BY <1>2 DEF TasksNext
  <2> QED BY <2>1, AwaitsKeeps DEF PromptSteps
<1> QED BY <1>1, <1>2

(* A verdict reaches only agents that were asked about.                    *)
LEMMA VerdictKeeps ==
  ASSUME TeamTypeOK, FlightsSound, VerifiedWasAsked, asked' = asked, disk' = disk, loaded' = loaded,
         NEW s \in Slot, NEW assigns \in BOOLEAN, NEW before \in SUBSET Agent,
         VerdictOnNext(s, assigns, before)
  PROVE  /\ done' \subseteq Agent /\ verified' \subseteq Agent /\ pending' \subseteq Agent
         /\ VerifiedWasAsked'
         /\ flight' \in [Slot -> Flight] /\ FlightsSound'
<1>1. flight \in [Slot -> Flight] /\ verified \subseteq Agent /\ pending \subseteq Agent
  BY DEF TeamTypeOK
<1>2. CASE pending \cap team = {} /\ Ends(s) /\ UNCHANGED <<pending, verified>> /\ done' = before
  BY <1>1, <1>2, EndsKeeps DEF VerifiedWasAsked
<1>3. ASSUME NEW a \in pending \cap team, pending' = pending \ {a},
             verified' = IF assigns THEN verified ELSE verified \cup {a},
             done' = IF assigns THEN before \ {a} ELSE before \cup {a},
             Awaits(s, "reply", IF assigns THEN "assign" ELSE "confirm", a, {})
      PROVE  /\ done' \subseteq Agent /\ verified' \subseteq Agent /\ pending' \subseteq Agent
             /\ VerifiedWasAsked'
             /\ flight' \in [Slot -> Flight] /\ FlightsSound'
  <2>1. a \in Agent /\ a \in asked
    BY <1>1 DEF VerifiedWasAsked
  <2>2. flight' \in [Slot -> Flight] /\ FlightsSound'
    BY <1>1, <1>3, <2>1, AwaitsKeeps DEF PromptSteps
  <2> QED BY <1>1, <1>3, <2>1, <2>2 DEF VerifiedWasAsked
<1> QED BY <1>2, <1>3 DEF VerdictOnNext

(* The two agents that are told by role.                                   *)
LEMMA Tellable == Coordinator \in Agent /\ Architect \in Agent
BY TeamAssumption

(* What is saved, and what is loaded, is a session.                        *)
LEMMA SessionsAre ==
  /\ NoSession \in Session /\ NoSession.verified = {} /\ NoSession.done = {} /\ NoSession.team = {}
  /\ TeamTypeOK => Snapshot \in Session
  /\ Snapshot.verified = verified /\ Snapshot.done = done /\ Snapshot.team = team
BY DEF NoSession, Session, Snapshot, TeamTypeOK

(* Starting, resuming and ending.                                          *)
LEMMA LifeKeeps ==
  ASSUME Held, Life PROVE Held'
<1> USE DEF Held, TeamTypeOK, VerifiedWasAsked, FlightsSound, Status, lifeVars, agentVars, hubVars, askVars
<1>1. ASSUME StartTeam \/ Provisioned \/ Listens PROVE Held'
  BY <1>1 DEF StartTeam, Provisioned, Listens
<1>2. ASSUME StartDone \/ SaveSession PROVE Held'
  BY <1>2, SessionsAre DEF StartDone, SaveSession
<1>3. ASSUME NEW a \in Agent, NEW ok \in BOOLEAN, Kickoff(a, ok) PROVE Held'
  BY <1>3 DEF Kickoff, Is
<1>4. ASSUME ResumeTeam PROVE Held'
  BY <1>4 DEF ResumeTeam, Session
<1>5. ASSUME NEW known \in BOOLEAN, ResumeDone(known) PROVE Held'
  BY <1>5, SessionsAre DEF ResumeDone
<1>6. ASSUME Cleanup PROVE Held'
  BY <1>6, SessionsAre DEF Cleanup
<1>7. ASSUME Exit \/ Crash PROVE Held'
  BY <1>7, AllFree, SessionsAre DEF Exit, Crash, Forgotten
<1>8. ASSUME NEW a \in Agent, SetupAgent(a) \/ RecreateAgent(a) PROVE Held'
  BY <1>8 DEF SetupAgent, RecreateAgent, SetUp, Is
<1>9. ASSUME NEW a \in Agent, LoseAgent(a) PROVE Held'
  BY <1>9 DEF LoseAgent, Is
<1>10. ASSUME NEW a \in Agent, NEW st \in Status, RestoreAgent(a, st) PROVE Held'
  BY <1>10 DEF RestoreAgent, Is
<1> QED BY <1>1, <1>2, <1>3, <1>4, <1>5, <1>6, <1>7, <1>8, <1>9, <1>10 DEF Life

(* The loops, and what goes on after an await.                             *)
LEMMA LoopsKeeps ==
  ASSUME Held, Loops PROVE Held'
<1> USE DEF Held, TeamTypeOK, VerifiedWasAsked, FlightsSound, Status, lifeVars, agentVars, hubVars, askVars
<1>1. ASSUME NEW s \in Slot, BeginCheck(s) PROVE Held'
  BY <1>1, CheckWalkKeeps DEF BeginCheck
<1>2. ASSUME NEW s \in Slot, Recheck(s) PROVE Held'
  BY <1>2, CheckWalkKeeps, EndsKeeps DEF Recheck
<1>3. ASSUME NEW s \in Slot, BeginBeat(s) PROVE Held'
  BY <1>3, BeatWalkKeeps DEF BeginBeat
<1>4. ASSUME NEW s \in Slot, LaterSends(s) PROVE Held'
  <2>1. Awaits(s, "one", "prompt", flight[s].at, {})
    BY <1>4 DEF LaterSends
  <2>2. flight' \in [Slot -> Flight] /\ FlightsSound'
    <3>1. flight[s].at \in Agent \cup {NoOne} /\ {} \in SUBSET Agent /\ asked \subseteq asked'
      BY <1>4, FlightTyped DEF LaterSends
    <3>2. "prompt" \in PromptSteps \cup {"look", "settle"} /\ "prompt" # "verify"
      BY DEF PromptSteps
    <3> QED BY <2>1, <3>1, <3>2, AwaitsKeeps
  <2> QED BY <1>4, <2>2 DEF LaterSends
<1>5. ASSUME NEW s \in Slot, ForcePrompted(s) PROVE Held'
  BY <1>5, EndsKeeps DEF ForcePrompted, Is
<1>6. ASSUME NEW s \in Slot, NEW ok \in BOOLEAN, Looked(s, ok) PROVE Held'
  <2>1. PICK step \in {"activate", "askDone"} :
          Awaits(s, "check", step, flight[s].at, flight[s].todo)
    BY <1>6 DEF Looked
  <2>2. flight' \in [Slot -> Flight] /\ FlightsSound'
    <3>1. flight[s].at \in Agent \cup {NoOne} /\ flight[s].todo \in SUBSET Agent /\ asked \subseteq asked'
      BY <1>6, FlightTyped DEF Looked
    <3>2. step \in PromptSteps \cup {"look", "settle"} /\ step # "verify"
      BY DEF PromptSteps
    <3>3. flight \in [Slot -> Flight] /\ FlightsSound
      OBVIOUS
    <3> HIDE DEF Held, TeamTypeOK, FlightsSound
    <3> QED BY <2>1, <3>1, <3>2, <3>3, AwaitsKeeps
  <2> QED BY <1>6, <2>2 DEF Looked
<1>7. ASSUME NEW s \in Slot, NEW ok \in BOOLEAN, CheckPrompted(s, ok) PROVE Held'
  <2> DEFINE prompted == IF flight[s].step = "verify" THEN Coordinator ELSE flight[s].at
             st == IF ok \/ flight[s].step = "activate"
                   THEN [status EXCEPT ![prompted] = "busy"] ELSE status
  <2>1. CheckWalk(s, flight[s].todo, st)
        /\ pending' = (IF flight[s].step = "verify" /\ ok THEN pending \cup {flight[s].at} ELSE pending)
        /\ UNCHANGED <<lifeVars, team, done, verified, hubVars>>
    BY <1>7 DEF CheckPrompted
  <2>2. st \in [Agent -> Status]
    OBVIOUS
  <2>3. /\ status' \in [Agent -> Status]
        /\ asked' \subseteq Agent /\ asked \subseteq asked' /\ reasked' \subseteq Agent
        /\ flight' \in [Slot -> Flight] /\ FlightsSound'
    <3> HIDE DEF st
    <3> QED BY <2>1, <2>2, FlightTyped, CheckWalkKeeps
  <2>4. pending' \subseteq asked'
    BY <2>1, <2>3
  <2> QED BY <2>1, <2>3, <2>4
<1>8. ASSUME NEW s \in Slot, NEW ok \in BOOLEAN, Nudged(s, ok) PROVE Held'
  <2> DEFINE st == IF ok THEN [status EXCEPT ![flight[s].at] = "busy"] ELSE status
             lost == [st EXCEPT ![flight[s].at] = "error"]
  <2>1. /\ \/ BeatWalk(s, flight[s].todo, st)
           \/ BeatWalk(s, flight[s].todo, lost)
           \/ status' = st /\ Awaits(s, "beat", "wake", flight[s].at, flight[s].todo)
        /\ UNCHANGED <<lifeVars, team, done, verified, hubVars, askVars>>
    BY <1>8 DEF Nudged
  <2>2. st \in [Agent -> Status] /\ lost \in [Agent -> Status]
    OBVIOUS
  <2>3. status' \in [Agent -> Status] /\ flight' \in [Slot -> Flight] /\ FlightsSound'
    <3>1. CASE BeatWalk(s, flight[s].todo, st) \/ BeatWalk(s, flight[s].todo, lost)
      <4> HIDE DEF st, lost
      <4> QED BY <2>1, <2>2, <3>1, FlightTyped, BeatWalkKeeps
    <3>2. CASE status' = st /\ Awaits(s, "beat", "wake", flight[s].at, flight[s].todo)
      <4>1. /\ flight[s].at \in Agent \cup {NoOne} /\ flight[s].todo \in SUBSET Agent
            /\ asked \subseteq asked' /\ flight \in [Slot -> Flight] /\ FlightsSound
        BY <2>1, FlightTyped DEF askVars
      <4>2. "wake" \in PromptSteps \cup {"look", "settle"} /\ "wake" # "verify"
        BY DEF PromptSteps
      <4>3. flight' \in [Slot -> Flight] /\ FlightsSound'
        <5> HIDE DEF Held, TeamTypeOK, FlightsSound
        <5> QED BY <3>2, <4>1, <4>2, AwaitsKeeps
      <4> QED BY <2>2, <3>2, <4>3
    <3> QED BY <2>1, <3>1, <3>2
  <2> QED BY <2>1, <2>3
<1>9. ASSUME NEW s \in Slot, NEW ok \in BOOLEAN, Woken(s, ok) PROVE Held'
  BY <1>9, BeatWalkKeeps, FlightTyped DEF Woken
<1>10. ASSUME NEW s \in Slot, NEW ok \in BOOLEAN, VerdictSent(s, ok) PROVE Held'
  <2> DEFINE assigned == flight[s].step = "assign" /\ ok
             assigns == flight[s].step = "assign"
             before == IF assigned THEN done \ {flight[s].at} ELSE done
  <2>1. status' \in [Agent -> Status]
    BY <1>10 DEF VerdictSent, Is
  <2>2. VerdictOnNext(s, assigns, before) /\ assigns \in BOOLEAN /\ before \in SUBSET Agent
        /\ UNCHANGED <<lifeVars, team, hubVars, asked, reasked>>
    BY <1>10 DEF VerdictSent
  <2>3. /\ done' \subseteq Agent /\ verified' \subseteq Agent /\ pending' \subseteq Agent
        /\ VerifiedWasAsked'
        /\ flight' \in [Slot -> Flight] /\ FlightsSound'
    <3> HIDE DEF assigns, before
    <3> QED BY <2>2, VerdictKeeps
  <2> QED BY <2>1, <2>2, <2>3
<1>11. ASSUME NEW s \in Slot, NEW ok \in BOOLEAN, OnePrompted(s, ok) PROVE Held'
  BY <1>11, EndsKeeps DEF OnePrompted, Is
<1>12. ASSUME NEW s \in Slot, NEW ok \in BOOLEAN, TasksPrompted(s, ok) PROVE Held'
  BY <1>12, TasksNextKeeps, FlightTyped DEF TasksPrompted, Is
<1> QED BY <1>1, <1>2, <1>3, <1>4, <1>5, <1>6, <1>7, <1>8, <1>9, <1>10, <1>11, <1>12 DEF Loops

(* What terminals tell.                                                    *)
LEMMA TerminalsKeeps ==
  ASSUME Held, Terminals PROVE Held'
<1> USE DEF Held, TeamTypeOK, VerifiedWasAsked, FlightsSound, Status, lifeVars, agentVars, hubVars, askVars
<1>1. ASSUME TasksListed PROVE Held'
  BY <1>1, StartKeeps, Tellable DEF TasksListed, Is, Output, PromptSteps
<1>2. ASSUME Standby PROVE Held'
  BY <1>2, TeamAssumption DEF Standby, Is, Output
<1>3. ASSUME NEW s \in Slot, NEW assigns \in BOOLEAN, Verdict(s, assigns) PROVE Held'
  BY <1>3, VerdictKeeps DEF Verdict, Is, Output
<1>4. ASSUME NEW a \in Agent, InputSeen(a) PROVE Held'
  BY <1>4 DEF InputSeen, Is
<1>5. ASSUME NEW a \in Agent, ProcessExit(a) PROVE Held'
  BY <1>5 DEF ProcessExit, Is
<1>6. ASSUME NEW a \in Agent, DecidedActive(a) PROVE Held'
  BY <1>6 DEF DecidedActive, Is
<1>7. ASSUME NEW a \in Agent, DecidedInactive(a) PROVE Held'
  BY <1>7, StartKeeps DEF DecidedInactive, Is, PromptSteps
<1>8. ASSUME NEW a \in Agent, Waits(a) PROVE Held'
  BY <1>8, StartKeeps DEF Waits, Is, PromptSteps
<1>9. ASSUME NEW a \in Agent, AllDone(a) PROVE Held'
  BY <1>9 DEF AllDone, Is, Output
<1>10. ASSUME NEW a \in Agent, NEW st \in {"idle", "busy"}, Reports(a, st) PROVE Held'
  BY <1>10 DEF Reports, Is
<1> QED BY <1>1, <1>2, <1>3, <1>4, <1>5, <1>6, <1>7, <1>8, <1>9, <1>10 DEF Terminals

(* What ChatHub delivers.                                                  *)
LEMMA ChatHubKeeps ==
  ASSUME Held, ChatHub PROVE Held'
<1> USE DEF Held, TeamTypeOK, VerifiedWasAsked, FlightsSound, Status, lifeVars, agentVars, hubVars, askVars
<1>1. ASSUME NEW s \in Slot, TasksPosted(s) PROVE Held'
  BY <1>1, TasksNextKeeps DEF TasksPosted
<1>2. ASSUME Resume PROVE Held'
  BY <1>2, StartKeeps DEF Resume, Resumes
<1>3. ASSUME HearOwnNotice PROVE Held'
  BY <1>3, StartKeeps DEF HearOwnNotice, Resumes
<1>4. ASSUME NEW bare \in BOOLEAN, Pause(bare) PROVE Held'
  BY <1>4, TeamAssumption DEF Pause
<1>5. ASSUME NEW a \in Agent, TaskCompleted(a) PROVE Held'
  BY <1>5 DEF TaskCompleted, Is
<1>6. ASSUME NEW a \in Agent, Mentioned(a) PROVE Held'
  BY <1>6, StartKeeps DEF Mentioned, PromptSteps
<1>7. ASSUME NEW a \in Agent, Assigned(a) PROVE Held'
  <2> DEFINE f == [kind |-> "one", step |-> "prompt", at |-> a, todo |-> {}]
  <2>1. PICK s, t \in Slot : flight' = [flight EXCEPT ![s] = f, ![t] = f]
    BY <1>7 DEF Assigned
  <2>2. f \in Flight /\ f.step # "verify"
    BY DEF Flight, PromptSteps
  <2>3. flight' \in [Slot -> Flight] /\ FlightsSound'
    <3> HIDE DEF f
    <3> QED BY <1>7, <2>1, <2>2 DEF Assigned
  <2> QED BY <1>7, <2>3 DEF Assigned
<1>8. ASSUME NEW a \in Agent, ForceActivate(a) PROVE Held'
  BY <1>8, StartKeeps, TeamAssumption DEF ForceActivate, PromptSteps
<1> QED BY <1>1, <1>2, <1>3, <1>4, <1>5, <1>6, <1>7, <1>8 DEF ChatHub

LEMMA HeldFirst == TeamInit => Held
<1> SUFFICES ASSUME TeamInit PROVE Held
  OBVIOUS
<1>1. flight \in [Slot -> Flight] /\ FlightsSound
  BY AllFree DEF TeamInit, FlightsSound
<1>2. status \in [Agent -> Status] /\ disk \in Session /\ loaded \in Session
  BY SessionsAre DEF TeamInit, Status
<1>3. VerifiedWasAsked
  BY SessionsAre DEF TeamInit, VerifiedWasAsked
<1> QED BY <1>1, <1>2, <1>3 DEF TeamInit, Held, TeamTypeOK

LEMMA HeldNext == Held /\ [TeamNext]_teamVars => Held'
<1> SUFFICES ASSUME Held, [TeamNext]_teamVars PROVE Held'
  OBVIOUS
<1>1. CASE UNCHANGED teamVars
  BY <1>1 DEF teamVars, lifeVars, agentVars, hubVars, askVars, Held, TeamTypeOK, VerifiedWasAsked,
     FlightsSound
<1> QED BY <1>1, LifeKeeps, LoopsKeeps, TerminalsKeeps, ChatHubKeeps DEF TeamNext

\* However handlers, verdicts, restarts and resumes interleave, no agent is
\* counted as verified, in memory or in the saved session, unless the
\* coordinator was asked about it (team-orchestrator.ts, verifyAgentCompletion
\* and the verdicts); and every variable keeps its type.
THEOREM AskedBeforeVerified == TeamSpec => []VerifiedSound
<1>1. Held => VerifiedSound
  BY DEF Held, VerifiedSound
<1> QED BY <1>1, HeldFirst, HeldNext, PTL DEF TeamSpec

(* A handler that goes on leaves what it was about, unless it is a question *)
(* or tasks on their way.                                                  *)
Passing(f) ==
  f.step \notin {"verify", "assign"} /\ (f.kind = "check" => f.todo \subseteq team)
Onward == \A s \in Slot : flight'[s] = flight[s] \/ Passing(flight'[s])

(* Suspended handlers, and questions, are about agents of the team; a check *)
(* that asks about an agent has it behind it.                              *)
AboutTeam ==
  /\ pending \subseteq team
  /\ \A s \in Slot :
       /\ flight[s].step \in {"verify", "assign"} => flight[s].at \in team
       /\ flight[s].step = "verify" => flight[s].kind = "check" /\ flight[s].at \notin flight[s].todo
       /\ flight[s].step = "assign" => flight[s].kind = "reply"
       /\ flight[s].kind = "check" => flight[s].todo \subseteq team

(* An agent was asked about once, and what has become of it is at one place. *)
OneMatter(a) ==
  /\ a \in pending => \A s \in Slot : ~ Concerns(s, a)
  /\ \A s, t \in Slot : Concerns(s, a) /\ Concerns(t, a) => s = t
Stands(a) == OneMatter(a) /\ (a \in verified => a \in done /\ ~ Unsettled(a))
Judged == AboutTeam /\ \A a \in Agent \ reasked : Stands(a)

(* Whom startTeam and resumeTeam have yet to see to, and what is saved.    *)
Stages ==
  /\ phase = "off" => team = {}
  /\ phase \in {"off", "listen", "run"} => todo = {}
  /\ phase \in {"start", "resume"} => todo \cap team = {}
Saved ==
  /\ disk.verified \subseteq disk.done \cup reasked
  /\ loaded.verified \subseteq loaded.done \cup reasked

(* Whatever changes no question keeps the verdicts.                        *)
LEMMA OnwardKeeps ==
  ASSUME Held, Judged, Onward, team' = team, verified' = verified, pending' \subseteq pending,
         reasked \subseteq reasked', done \subseteq done'
  PROVE  Judged'
<1>1. AboutTeam'
  <2>1. ASSUME NEW s \in Slot
        PROVE  /\ flight'[s].step \in {"verify", "assign"} => flight'[s].at \in team'
               /\ flight'[s].step = "verify" => flight'[s].kind = "check" /\ flight'[s].at \notin flight'[s].todo
               /\ flight'[s].step = "assign" => flight'[s].kind = "reply"
               /\ flight'[s].kind = "check" => flight'[s].todo \subseteq team'
    <3>1. CASE flight'[s] = flight[s]
      BY <3>1 DEF Judged, AboutTeam
    <3>2. CASE Passing(flight'[s])
      BY <3>2 DEF Passing
    <3> QED BY <3>1, <3>2 DEF Onward
  <2>2. pending' \subseteq team'
    BY DEF Judged, AboutTeam
  <2> QED BY <2>1, <2>2 DEF AboutTeam
<1>2. \A s \in Slot, a \in Agent : Concerns(s, a)' => Concerns(s, a)
  BY DEF Onward, Passing, Concerns
<1>3. ASSUME NEW a \in Agent \ reasked' PROVE Stands(a)'
  <2>1. Stands(a)
    BY DEF Judged
  <2>2. OneMatter(a)'
    BY <1>2, <2>1 DEF Stands, OneMatter
  <2>3. Unsettled(a)' => Unsettled(a)
    BY <1>2 DEF Unsettled
  <2> QED BY <2>1, <2>2, <2>3 DEF Stands
<1> QED BY <1>1, <1>3 DEF Judged

LEMMA AwaitsOnward ==
  ASSUME flight \in [Slot -> Flight], NEW s \in Slot, NEW k, NEW st, NEW a, NEW T,
         Awaits(s, k, st, a, T), st \notin {"verify", "assign"}, k = "check" => T \subseteq team
  PROVE  Onward
<1> DEFINE f == [kind |-> k, step |-> st, at |-> a, todo |-> T]
<1>1. Passing(f)
  BY DEF Passing
<1>2. flight' = [flight EXCEPT ![s] = f]
  BY DEF Awaits
<1> HIDE DEF f
<1> QED BY <1>1, <1>2 DEF Onward

LEMMA EndsOnward ==
  ASSUME flight \in [Slot -> Flight], NEW s \in Slot, Ends(s) PROVE Onward
<1>1. Passing(Free)
  BY DEF Passing, Free
<1> QED BY <1>1 DEF Ends, Onward

LEMMA StartOnward ==
  ASSUME flight \in [Slot -> Flight], NEW k, NEW st, NEW a, Start(k, st, a),
         st \notin {"verify", "assign"}
  PROVE  Onward
<1>1. PICK s \in Slot : Awaits(s, k, st, a, {})
  BY DEF Start
<1> QED BY <1>1, AwaitsOnward

LEMMA BeatOnward ==
  ASSUME flight \in [Slot -> Flight], NEW s \in Slot, NEW T, NEW st, BeatWalk(s, T, st)
  PROVE  Onward
<1>1. CASE Ends(s)
  BY <1>1, EndsOnward
<1>2. ASSUME NEW step \in {"nudge", "wake"}, NEW a, NEW rest, Awaits(s, "beat", step, a, rest) PROVE Onward
  BY <1>2, AwaitsOnward
<1> QED BY <1>1, <1>2 DEF BeatWalk

LEMMA TasksOnward ==
  ASSUME flight \in [Slot -> Flight], NEW s \in Slot, NEW T, TasksNext(s, T)
  PROVE  Onward
<1>1. CASE Ends(s)
  BY <1>1, EndsOnward
<1>2. ASSUME NEW a, Awaits(s, "tasks", "prompt", a, T \ {a}) PROVE Onward
  BY <1>2, AwaitsOnward
<1> QED BY <1>1, <1>2 DEF TasksNext

(* The check may ask about an agent of which nothing is under way, or about *)
(* one it is then excepted for; the question it has put is registered.     *)
LEMMA WalkKeepsVerdicts ==
  ASSUME Held, Judged, NEW s \in Slot, NEW T \in SUBSET Agent, T \subseteq team, NEW st, CheckWalk(s, T, st),
         team' = team, done' = done, verified' = verified,
         flight[s].step # "assign", flight[s].step = "verify" => flight[s].at \notin T,
         pending' = pending \/ (flight[s].step = "verify" /\ pending' = pending \cup {flight[s].at})
  PROVE  Judged' /\ reasked \subseteq reasked'
<1>1. flight \in [Slot -> Flight] /\ pending' \subseteq team /\ verified \subseteq Agent /\ team \subseteq Agent
  BY DEF Held, TeamTypeOK, Judged, AboutTeam
<1>2. \A t \in Slot, a \in Agent : t = s /\ Concerns(t, a) => flight[s].step = "verify" /\ flight[s].at = a
  BY DEF Concerns
<1>3. ASSUME Onward, reasked' = reasked, ~ flight'[s].step \in {"verify", "assign"},
             \A t \in Slot \ {s} : flight'[t] = flight[t]
      PROVE  Judged'
  <2>1. AboutTeam'
    BY <1>1, <1>3 DEF Judged, AboutTeam, Onward, Passing
  <2>2. ASSUME NEW a \in Agent \ reasked' PROVE Stands(a)'
    <3>1. Stands(a)
      BY <1>3 DEF Judged
    <3>2. \A t \in Slot : Concerns(t, a)' => t # s /\ Concerns(t, a)
      BY <1>3 DEF Concerns
    <3>3. a \in pending' => a \in pending \/ Concerns(s, a)
      BY DEF Concerns
    <3>4. OneMatter(a)'
      BY <3>1, <3>2, <3>3 DEF Stands, OneMatter
    <3>5. Unsettled(a)' => Unsettled(a)
      BY <3>2, <3>3 DEF Unsettled
    <3> QED BY <3>1, <3>4, <3>5 DEF Stands
  <2> QED BY <2>1, <2>2 DEF Judged
<1>4. ASSUME NEW f, flight' = [flight EXCEPT ![s] = f], UNCHANGED reasked, Passing(f)
      PROVE  Judged'
  <2>1. Onward /\ ~ flight'[s].step \in {"verify", "assign"} /\ \A t \in Slot \ {s} : flight'[t] = flight[t]
    BY <1>1, <1>4 DEF Onward, Passing
  <2> QED BY <1>3, <1>4, <2>1
<1>5. CASE Ends(s) /\ UNCHANGED <<asked, reasked>>
  <2>1. Passing(Free)
    BY DEF Passing, Free
  <2> QED BY <1>4, <1>5, <2>1 DEF Ends
<1>6. ASSUME NEW a, NEW rest \in SUBSET T, Awaits(s, "check", "look", a, rest), UNCHANGED <<asked, reasked>>
      PROVE  Judged'
  <2> DEFINE f == [kind |-> "check", step |-> "look", at |-> a, todo |-> rest]
  <2>1. flight' = [flight EXCEPT ![s] = f] /\ Passing(f)
    BY <1>6 DEF Awaits, Passing
  <2> HIDE DEF f
  <2> QED BY <1>4, <1>6, <2>1
<1>7. ASSUME NEW a \in T, NEW rest \in SUBSET (T \ {a}), a \notin verified, Asks(s, a, rest)
      PROVE  Judged' /\ reasked \subseteq reasked'
  <2> DEFINE f == [kind |-> "check", step |-> "verify", at |-> a, todo |-> rest]
  <2>1. flight' = [flight EXCEPT ![s] = f] /\ reasked' = IF Unsettled(a) THEN reasked \cup {a} ELSE reasked
    BY <1>7 DEF Asks, Awaits
  <2>2. flight'[s] = f /\ \A t \in Slot \ {s} : flight'[t] = flight[t]
    BY <1>1, <2>1
  <2>3. AboutTeam'
    BY <1>1, <1>7, <2>2 DEF Judged, AboutTeam
  <2>4. ASSUME NEW b \in Agent \ reasked' PROVE Stands(b)'
    <3>1. Stands(b) /\ (b = a => ~ Unsettled(a))
      BY <2>1 DEF Judged
    <3>2. \A t \in Slot : Concerns(t, b)' => (t = s /\ b = a) \/ (t # s /\ Concerns(t, b))
      BY <2>2 DEF Concerns
    <3>3. b \in pending' => (b # a /\ Concerns(s, b)) \/ b \in pending
      BY DEF Concerns
    <3>4. OneMatter(b)'
      BY <3>1, <3>2, <3>3 DEF Stands, OneMatter, Unsettled
    <3>5. b # a => (Unsettled(b)' => Unsettled(b))
      BY <3>2, <3>3 DEF Unsettled
    <3> QED BY <1>7, <3>1, <3>4, <3>5 DEF Stands
  <2> QED BY <2>1, <2>3, <2>4 DEF Judged
<1>8. PICK Q \in SUBSET Eligible(T, st) :
        \/ Ends(s) /\ UNCHANGED <<asked, reasked>>
        \/ \E a \in Q, rest \in SUBSET (T \ Q) :
             \/ Awaits(s, "check", "look", a, rest) /\ UNCHANGED <<asked, reasked>>
             \/ Asks(s, a, rest)
  BY DEF CheckWalk
<1>9. CASE \E a \in Q, rest \in SUBSET (T \ Q) : Asks(s, a, rest)
  <2>1. PICK a \in Q, rest \in SUBSET (T \ Q) : Asks(s, a, rest)
    BY <1>9
  <2>2. a \in T /\ a \notin verified /\ rest \in SUBSET (T \ {a})
    BY DEF Eligible
  <2> QED BY <1>7, <2>1, <2>2
<1>10. CASE \E a \in Q, rest \in SUBSET (T \ Q) :
              Awaits(s, "check", "look", a, rest) /\ UNCHANGED <<asked, reasked>>
  <2>1. PICK a \in Q, rest \in SUBSET (T \ Q) : Awaits(s, "check", "look", a, rest) /\ UNCHANGED <<asked, reasked>>
    BY <1>10
  <2> QED BY <1>6, <2>1
<1> QED BY <1>5, <1>8, <1>9, <1>10

(* A verdict settles the one question there is about its agent.            *)
LEMMA VerdictKeepsVerdicts ==
  ASSUME Held, Judged, NEW s \in Slot, NEW assigns, NEW before, VerdictOnNext(s, assigns, before),
         team' = team, reasked' = reasked, flight[s] = Free \/ flight[s].kind = "reply",
         before = done \/ (flight[s].step = "assign" /\ before = done \ {flight[s].at})
  PROVE  Judged'
<1>1. flight \in [Slot -> Flight] /\ pending \subseteq Agent /\ team \subseteq Agent
  BY DEF Held, TeamTypeOK
<1>2. ASSUME NEW a \in Agent \ reasked, a \in verified PROVE a \in before
  BY <1>2 DEF Judged, Stands, Unsettled, Concerns
<1>3. CASE Ends(s) /\ UNCHANGED <<pending, verified>> /\ done' = before
  <2>1. Onward
    BY <1>1, <1>3, EndsOnward
  <2>2. ASSUME NEW b \in Agent \ reasked' PROVE Stands(b)'
    <3>1. Stands(b) /\ (b \in verified => b \in done')
      BY <1>2, <1>3 DEF Judged
    <3>2. \A t \in Slot : Concerns(t, b)' => Concerns(t, b)
      BY <2>1 DEF Onward, Passing, Concerns
    <3> QED BY <1>3, <3>1, <3>2 DEF Stands, OneMatter, Unsettled
  <2>3. AboutTeam'
    BY <1>3, <2>1 DEF Onward, Passing, Judged, AboutTeam
  <2> QED BY <2>2, <2>3 DEF Judged
<1>4. ASSUME NEW a \in pending \cap team, pending' = pending \ {a},
             verified' = IF assigns THEN verified ELSE verified \cup {a},
             done' = IF assigns THEN before \ {a} ELSE before \cup {a},
             Awaits(s, "reply", IF assigns THEN "assign" ELSE "confirm", a, {})
      PROVE  Judged'
  <2> DEFINE f == [kind |-> "reply", step |-> IF assigns THEN "assign" ELSE "confirm", at |-> a, todo |-> {}]
  <2>1. flight' = [flight EXCEPT ![s] = f]
    BY <1>4 DEF Awaits
  <2>2. flight'[s] = f /\ \A t \in Slot \ {s} : flight'[t] = flight[t]
    BY <1>1, <2>1
  <2>3. AboutTeam'
    BY <1>4, <2>2 DEF Judged, AboutTeam
  <2>4. ASSUME NEW b \in Agent \ reasked' PROVE Stands(b)'
    <3>1. Stands(b)
      BY DEF Judged
    <3>2. \A t \in Slot : Concerns(t, b)' => (t = s /\ b = a /\ assigns) \/ (t # s /\ Concerns(t, b))
      BY <2>2 DEF Concerns
    <3>3. CASE b = a
      <4>1. b \in pending /\ b \notin pending' /\ b \notin verified
        BY <1>4, <3>1, <3>3 DEF Stands, Unsettled
      <4>2. \A t \in Slot : ~ Concerns(t, b)
        BY <3>1, <4>1 DEF Stands, OneMatter
      <4>3. OneMatter(b)'
        BY <3>2, <4>1, <4>2 DEF OneMatter
      <4>4. Unsettled(b)' => assigns
        BY <3>2, <4>1, <4>2 DEF Unsettled
      <4>5. CASE assigns
        BY <1>4, <4>1, <4>3, <4>5 DEF Stands
      <4>6. CASE ~ assigns
        BY <1>4, <3>3, <4>3, <4>4, <4>6 DEF Stands
      <4> QED BY <4>5, <4>6
    <3>4. CASE b # a
      <4>1. (b \in pending' <=> b \in pending) /\ (b \in verified' <=> b \in verified)
            /\ (b \in done' <=> b \in before)
        BY <1>4, <3>4
      <4>2. \A t \in Slot : Concerns(t, b)' => Concerns(t, b)
        BY <3>2, <3>4
      <4>3. OneMatter(b)' /\ (Unsettled(b)' => Unsettled(b))
        BY <3>1, <4>1, <4>2 DEF Stands, OneMatter, Unsettled
      <4> QED BY <1>2, <3>1, <4>1, <4>3 DEF Stands
    <3> QED BY <3>3, <3>4
  <2> QED BY <2>3, <2>4 DEF Judged
<1> QED BY <1>3, <1>4 DEF VerdictOnNext

(* An agent that joins the team is not yet in question.                    *)
LEMMA JoinKeepsVerdicts ==
  ASSUME Held, Judged, NEW a \in Agent, a \notin team, team' = team \cup {a},
         UNCHANGED <<pending, reasked, flight>>,
         \A b \in Agent \ {a} : (b \in done' <=> b \in done) /\ (b \in verified' <=> b \in verified),
         a \in verified' => a \in done' \cup reasked
  PROVE  Judged'
<1>1. AboutTeam'
  BY DEF Judged, AboutTeam
<1>2. ~ Unsettled(a)
  BY DEF Judged, AboutTeam, Unsettled, Concerns
<1>3. ASSUME NEW b \in Agent \ reasked' PROVE Stands(b)'
  <2>1. Stands(b)
    BY DEF Judged
  <2>2. OneMatter(b)' /\ (Unsettled(b)' <=> Unsettled(b))
    BY <2>1 DEF Stands, OneMatter, Unsettled, Concerns
  <2> QED BY <1>2, <2>1, <2>2 DEF Stands
<1> QED BY <1>1, <1>3 DEF Judged

LEMMA AllForgotten ==
  ASSUME Forgotten, reasked' = reasked PROVE Judged'
<1>1. /\ flight' = [s \in Slot |-> Free] /\ pending' = {} /\ verified' = {}
      /\ Free.step = "free" /\ Free.kind = "free"
  BY DEF Forgotten, Free
<1>2. \A s \in Slot : flight'[s].step = "free" /\ flight'[s].kind = "free"
  BY <1>1
<1> QED BY <1>1, <1>2 DEF Judged, AboutTeam, Stands, OneMatter, Concerns, Unsettled

Secure == Judged /\ Stages /\ Saved /\ SessionHasTeam

LEMMA VerdictsNow ==
  ASSUME Held, Judged PROVE verified \subseteq done \cup reasked
BY DEF Held, TeamTypeOK, Judged, Stands

(* Starting, resuming and ending.                                          *)
LEMMA LifeSecure ==
  ASSUME Held, Secure, Life PROVE Secure'
<1> USE DEF Secure
<1>s. ASSUME UNCHANGED <<team, done, verified, pending, reasked, flight>> PROVE Judged'
  <2>1. Onward
    BY <1>s DEF Onward
  <2> QED BY <1>s, <2>1, OnwardKeeps
<1>1. ASSUME StartTeam \/ Provisioned \/ Listens PROVE Secure'
  <2>1. UNCHANGED <<team, done, verified, pending, reasked, flight, disk, loaded>>
    BY <1>1 DEF StartTeam, Provisioned, Listens, agentVars, askVars
  <2>2. Judged' /\ Saved'
    BY <2>1, <1>s DEF Saved
  <2> QED BY <1>1, <2>1, <2>2 DEF StartTeam, Provisioned, Listens, Stages, SessionHasTeam
<1>2. ASSUME StartDone \/ SaveSession PROVE Secure'
  <2>1. UNCHANGED <<team, done, verified, pending, reasked, flight, loaded, todo>> /\ disk' = Snapshot
        /\ phase \in {"listen", "run"} /\ phase' = "run"
    BY <1>2 DEF StartDone, SaveSession, agentVars, askVars
  <2>2. Judged' /\ Saved'
    BY <2>1, <1>s, SessionsAre, VerdictsNow DEF Saved
  <2> QED BY <2>1, <2>2, SessionsAre DEF Stages, SessionHasTeam
<1>3. ASSUME NEW a \in Agent, NEW ok \in BOOLEAN, Kickoff(a, ok) PROVE Secure'
  <2>1. UNCHANGED <<team, done, verified, pending, reasked, flight, disk, loaded, phase>> /\ phase = "kickoff"
    BY <1>3 DEF Kickoff, askVars
  <2>2. Judged' /\ Saved'
    BY <2>1, <1>s DEF Saved
  <2> QED BY <2>1, <2>2 DEF Stages, SessionHasTeam
<1>4. ASSUME ResumeTeam PROVE Secure'
  <2>1. UNCHANGED <<team, done, verified, pending, reasked, flight, disk>> /\ loaded' = disk
    BY <1>4 DEF ResumeTeam, agentVars, askVars
  <2>2. Judged' /\ Saved'
    BY <2>1, <1>s DEF Saved
  <2> QED BY <1>4, <2>1, <2>2 DEF ResumeTeam, Stages, SessionHasTeam
<1>5. ASSUME NEW known \in BOOLEAN, ResumeDone(known) PROVE Secure'
  <2>1. UNCHANGED <<team, done, verified, pending, reasked, flight, disk>> /\ loaded' = NoSession
    BY <1>5 DEF ResumeDone, agentVars, askVars
  <2>2. Judged' /\ Saved'
    BY <2>1, <1>s, SessionsAre DEF Saved
  <2> QED BY <1>5, <2>1, <2>2 DEF ResumeDone, Stages, SessionHasTeam
<1>6. ASSUME Cleanup PROVE Secure'
  <2>1. UNCHANGED <<team, done, verified, pending, reasked, flight, loaded, phase, todo>> /\ disk' = NoSession
        /\ closing' # "no"
    BY <1>6 DEF Cleanup, agentVars, askVars
  <2>2. Judged' /\ Saved'
    BY <2>1, <1>s, SessionsAre DEF Saved
  <2> QED BY <2>1, <2>2 DEF Stages, SessionHasTeam
<1>7. ASSUME Exit \/ Crash PROVE Secure'
  <2>1. Forgotten /\ disk' = disk /\ reasked' = reasked /\ phase' = "off"
    BY <1>7 DEF Exit, Crash
  <2>2. Judged'
    BY <2>1, AllForgotten
  <2>3. Stages' /\ Saved' /\ SessionHasTeam'
    BY <2>1, SessionsAre DEF Forgotten, Stages, Saved, SessionHasTeam
  <2> QED BY <2>2, <2>3
<1>8. ASSUME NEW a \in Agent, SetupAgent(a) \/ RecreateAgent(a) PROVE Secure'
  <2>1. /\ a \in todo /\ todo' = todo \ {a} /\ team' = team \cup {a} /\ phase \in {"start", "resume"}
        /\ done' = done \ {a} /\ verified' = verified \ {a}
        /\ UNCHANGED <<phase, closing, disk, loaded, pending, reasked, flight>>
    BY <1>8 DEF SetupAgent, RecreateAgent, SetUp, askVars
  <2>2. Judged'
    BY <2>1, JoinKeepsVerdicts DEF Stages
  <2> QED BY <2>1, <2>2 DEF Stages, Saved, SessionHasTeam
<1>9. ASSUME NEW a \in Agent, LoseAgent(a) PROVE Secure'
  <2>1. UNCHANGED <<team, done, verified, pending, reasked, flight, disk, loaded, phase, closing>>
        /\ todo' = todo \ {a} /\ phase = "resume"
    BY <1>9 DEF LoseAgent, agentVars, askVars
  <2>2. Judged' /\ Saved'
    BY <2>1, <1>s DEF Saved
  <2> QED BY <2>1, <2>2 DEF Stages, SessionHasTeam
<1>10. ASSUME NEW a \in Agent, NEW st \in Status, RestoreAgent(a, st) PROVE Secure'
  <2>1. /\ a \in todo /\ todo' = todo \ {a} /\ team' = team \cup {a} /\ phase = "resume"
        /\ done' = (done \ {a}) \cup (loaded.done \cap {a})
        /\ verified' = (verified \ {a}) \cup (loaded.verified \cap {a})
        /\ UNCHANGED <<phase, closing, disk, loaded, pending, reasked, flight>>
    BY <1>10 DEF RestoreAgent, askVars
  <2>2. a \in verified' => a \in done' \cup reasked
    BY <2>1 DEF Saved
  <2>3. \A b \in Agent \ {a} : (b \in done' <=> b \in done) /\ (b \in verified' <=> b \in verified)
    BY <2>1
  <2>4. Judged'
    BY <2>1, <2>2, <2>3, JoinKeepsVerdicts DEF Stages
  <2> QED BY <2>1, <2>4 DEF Stages, Saved, SessionHasTeam
<1> HIDE DEF Secure
<1> QED BY <1>1, <1>2, <1>3, <1>4, <1>5, <1>6, <1>7, <1>8, <1>9, <1>10 DEF Life

(* Nothing else starts, ends, saves or loads.                              *)
LEMMA SecureByVerdicts ==
  ASSUME Secure, Judged', UNCHANGED lifeVars, team' = team, reasked \subseteq reasked' PROVE Secure'
BY DEF Secure, Stages, Saved, SessionHasTeam, lifeVars

LEMMA SecureOnward ==
  ASSUME Held, Secure, Onward, UNCHANGED <<lifeVars, team, verified, reasked>>,
         pending' \subseteq pending, done \subseteq done'
  PROVE  Secure'
<1>1. Judged'
  BY OnwardKeeps DEF Secure
<1> QED BY <1>1, SecureByVerdicts

(* The loops, and what goes on after an await.                             *)
LEMMA LoopsSecure ==
  ASSUME Held, Secure, Loops PROVE Secure'
<1>t. flight \in [Slot -> Flight] /\ team \subseteq Agent /\ Judged
  BY DEF Held, TeamTypeOK, Secure
<1>c. ASSUME NEW s \in Slot, NEW T, T \subseteq team, NEW st, CheckWalk(s, T, st),
             UNCHANGED <<lifeVars, team, done, verified>>,
             flight[s].step # "assign", flight[s].step = "verify" => flight[s].at \notin T,
             pending' = pending \/ (flight[s].step = "verify" /\ pending' = pending \cup {flight[s].at})
      PROVE  Secure'
  <2>1. Judged' /\ reasked \subseteq reasked'
    BY <1>t, <1>c, WalkKeepsVerdicts
  <2> QED BY <1>c, <2>1, SecureByVerdicts
<1>1. ASSUME NEW s \in Slot, BeginCheck(s) PROVE Secure'
  <2>1. CheckWalk(s, team, status) /\ flight[s].step = "free" /\ UNCHANGED <<lifeVars, team, done, verified, pending>>
    BY <1>1 DEF BeginCheck, Free
  <2> QED BY <1>c, <2>1
<1>2. ASSUME NEW s \in Slot, Recheck(s) PROVE Secure'
  <2>1. flight[s].step = "settle" /\ UNCHANGED <<lifeVars, team, done, verified, pending>>
    BY <1>2 DEF Recheck, In
  <2>2. CASE paused
    <3>1. Ends(s) /\ UNCHANGED reasked
      BY <1>2, <2>2 DEF Recheck
    <3> QED BY <1>t, <2>1, <3>1, EndsOnward, SecureOnward
  <2>3. CASE ~ paused
    <3>1. CheckWalk(s, team, status)
      BY <1>2, <2>3 DEF Recheck
    <3> QED BY <1>c, <2>1, <3>1
  <2> QED BY <2>2, <2>3
<1>3. ASSUME NEW s \in Slot, BeginBeat(s) PROVE Secure'
  <2>1. BeatWalk(s, team, status) /\ UNCHANGED <<lifeVars, team, done, verified, pending, reasked>>
    BY <1>3 DEF BeginBeat, askVars
  <2> QED BY <1>t, <2>1, BeatOnward, SecureOnward
<1>4. ASSUME NEW s \in Slot, LaterSends(s) PROVE Secure'
  <2>1. Awaits(s, "one", "prompt", flight[s].at, {}) /\ UNCHANGED <<lifeVars, team, done, verified, pending, reasked>>
    BY <1>4 DEF LaterSends, askVars, agentVars
  <2>2. Onward
    BY <1>t, <2>1, AwaitsOnward
  <2> QED BY <2>1, <2>2, SecureOnward
<1>5. ASSUME NEW s \in Slot, ForcePrompted(s) PROVE Secure'
  <2>1. Ends(s) /\ UNCHANGED <<lifeVars, team, done, verified, pending, reasked>>
    BY <1>5 DEF ForcePrompted, askVars
  <2> QED BY <1>t, <2>1, EndsOnward, SecureOnward
<1>6. ASSUME NEW s \in Slot, NEW ok \in BOOLEAN, Looked(s, ok) PROVE Secure'
  <2>1. PICK step \in {"activate", "askDone"} :
          Awaits(s, "check", step, flight[s].at, flight[s].todo)
    BY <1>6 DEF Looked
  <2>2. flight[s].todo \subseteq team /\ UNCHANGED <<lifeVars, team, done, verified, pending, reasked>>
    BY <1>6, <1>t DEF Looked, In, Judged, AboutTeam, askVars, agentVars
  <2>3. Onward
    BY <1>t, <2>1, <2>2, AwaitsOnward
  <2> QED BY <2>2, <2>3, SecureOnward
<1>7. ASSUME NEW s \in Slot, NEW ok \in BOOLEAN, CheckPrompted(s, ok) PROVE Secure'
  <2>1. /\ flight[s].kind = "check" /\ flight[s].step \in {"verify", "activate", "askDone"}
        /\ pending' = (IF flight[s].step = "verify" /\ ok THEN pending \cup {flight[s].at} ELSE pending)
        /\ UNCHANGED <<lifeVars, team, done, verified>>
    BY <1>7 DEF CheckPrompted
  <2>2. PICK st : CheckWalk(s, flight[s].todo, st)
    BY <1>7 DEF CheckPrompted
  <2>3. flight[s].todo \subseteq team /\ (flight[s].step = "verify" => flight[s].at \notin flight[s].todo)
    BY <1>t, <2>1 DEF Judged, AboutTeam
  <2>4. flight[s].step # "assign"
    BY <2>1
  <2>5. pending' = pending \/ (flight[s].step = "verify" /\ pending' = pending \cup {flight[s].at})
    BY <2>1
  <2> QED BY <1>c, <2>1, <2>2, <2>3, <2>4, <2>5
<1>8. ASSUME NEW s \in Slot, NEW ok \in BOOLEAN, Nudged(s, ok) PROVE Secure'
  <2>1. UNCHANGED <<lifeVars, team, done, verified, pending, reasked>>
        /\ ((\E st : BeatWalk(s, flight[s].todo, st)) \/ Awaits(s, "beat", "wake", flight[s].at, flight[s].todo))
    BY <1>8 DEF Nudged, askVars
  <2>2. CASE \E st : BeatWalk(s, flight[s].todo, st)
    BY <1>t, <2>1, <2>2, BeatOnward, SecureOnward
  <2>3. CASE Awaits(s, "beat", "wake", flight[s].at, flight[s].todo)
    <3>1. Onward
      BY <1>t, <2>3, AwaitsOnward
    <3> QED BY <2>1, <3>1, SecureOnward
  <2> QED BY <2>1, <2>2, <2>3
<1>9. ASSUME NEW s \in Slot, NEW ok \in BOOLEAN, Woken(s, ok) PROVE Secure'
  <2>1. UNCHANGED <<lifeVars, team, done, verified, pending, reasked>> /\ \E st : BeatWalk(s, flight[s].todo, st)
    BY <1>9 DEF Woken, askVars
  <2> QED BY <1>t, <2>1, BeatOnward, SecureOnward
<1>10. ASSUME NEW s \in Slot, NEW ok \in BOOLEAN, VerdictSent(s, ok) PROVE Secure'
  <2> DEFINE assigned == flight[s].step = "assign" /\ ok
             assigns == flight[s].step = "assign"
             before == IF assigned THEN done \ {flight[s].at} ELSE done
  <2>1. VerdictOnNext(s, assigns, before) /\ UNCHANGED <<lifeVars, team, reasked>> /\ flight[s].kind = "reply"
    BY <1>10 DEF VerdictSent
  <2>2. before = done \/ (flight[s].step = "assign" /\ before = done \ {flight[s].at})
    OBVIOUS
  <2>3. Judged'
    <3> HIDE DEF assigns, before
    <3> QED BY <1>t, <2>1, <2>2, VerdictKeepsVerdicts
  <2> QED BY <2>1, <2>3, SecureByVerdicts
<1>11. ASSUME NEW s \in Slot, NEW ok \in BOOLEAN, OnePrompted(s, ok) PROVE Secure'
  <2>1. Ends(s) /\ UNCHANGED <<lifeVars, team, done, verified, pending, reasked>>
    BY <1>11 DEF OnePrompted, askVars
  <2> QED BY <1>t, <2>1, EndsOnward, SecureOnward
<1>12. ASSUME NEW s \in Slot, NEW ok \in BOOLEAN, TasksPrompted(s, ok) PROVE Secure'
  <2>1. TasksNext(s, flight[s].todo) /\ UNCHANGED <<lifeVars, team, done, verified, pending, reasked>>
    BY <1>12 DEF TasksPrompted, askVars
  <2> QED BY <1>t, <2>1, TasksOnward, SecureOnward
<1> QED BY <1>1, <1>2, <1>3, <1>4, <1>5, <1>6, <1>7, <1>8, <1>9, <1>10, <1>11, <1>12 DEF Loops

(* What terminals tell.                                                    *)
LEMMA TerminalsSecure ==
  ASSUME Held, Secure, Terminals PROVE Secure'
<1>t. flight \in [Slot -> Flight] /\ Judged
  BY DEF Held, TeamTypeOK, Secure
<1>u. UNCHANGED flight => Onward
  BY DEF Onward
<1>1. ASSUME TasksListed PROVE Secure'
  <2>1. UNCHANGED <<lifeVars, team, done, verified, pending, reasked>>
        /\ (Start("one", "prompt", Architect) \/ UNCHANGED flight)
    BY <1>1 DEF TasksListed, askVars
  <2> QED BY <1>t, <1>u, <2>1, StartOnward, SecureOnward
<1>2. ASSUME Standby PROVE Secure'
  <2>1. UNCHANGED <<lifeVars, team, verified, reasked, flight>> /\ pending' \subseteq pending /\ done \subseteq done'
    BY <1>2 DEF Standby
  <2> QED BY <1>u, <2>1, SecureOnward
<1>3. ASSUME NEW s \in Slot, NEW assigns \in BOOLEAN, Verdict(s, assigns) PROVE Secure'
  <2>1. VerdictOnNext(s, assigns, done) /\ UNCHANGED <<lifeVars, team, reasked>> /\ flight[s] = Free
    BY <1>3 DEF Verdict
  <2>2. Judged'
    BY <1>t, <2>1, VerdictKeepsVerdicts
  <2> QED BY <2>1, <2>2, SecureByVerdicts
<1>4. ASSUME NEW a \in Agent, InputSeen(a) \/ ProcessExit(a) \/ DecidedActive(a) \/ AllDone(a)
                              \/ \E st \in {"idle", "busy"} : Reports(a, st)
      PROVE  Secure'
  <2>1. UNCHANGED <<lifeVars, team, verified, pending, reasked, flight>> /\ done \subseteq done'
    BY <1>4 DEF InputSeen, ProcessExit, DecidedActive, AllDone, Reports, askVars
  <2> QED BY <1>u, <2>1, SecureOnward
<1>5. ASSUME NEW a \in Agent, DecidedInactive(a) \/ Waits(a) PROVE Secure'
  <2>1. UNCHANGED <<lifeVars, team, done, verified, pending, reasked>>
        /\ (Start("one", "settle", a) \/ Start("one", "prompt", a) \/ UNCHANGED flight)
    BY <1>5 DEF DecidedInactive, Waits, askVars
  <2> QED BY <1>t, <1>u, <2>1, StartOnward, SecureOnward
<1> QED BY <1>1, <1>2, <1>3, <1>4, <1>5 DEF Terminals

(* What ChatHub delivers.                                                  *)
LEMMA ChatHubSecure ==
  ASSUME Held, Secure, ChatHub PROVE Secure'
<1>t. flight \in [Slot -> Flight]
  BY DEF Held, TeamTypeOK
<1>u. UNCHANGED flight => Onward
  BY DEF Onward
<1>1. ASSUME NEW s \in Slot, TasksPosted(s) PROVE Secure'
  <2>1. UNCHANGED <<lifeVars, team, done, verified, pending, reasked>> /\ \E T : TasksNext(s, T)
    BY <1>1 DEF TasksPosted, askVars, agentVars
  <2> QED BY <1>t, <2>1, TasksOnward, SecureOnward
<1>2. ASSUME Resume \/ HearOwnNotice PROVE Secure'
  <2>1. UNCHANGED <<lifeVars, team, done, verified, pending, reasked>>
        /\ (Start("check", "settle", NoOne) \/ UNCHANGED flight)
    BY <1>2 DEF Resume, HearOwnNotice, Resumes, askVars, agentVars
  <2> QED BY <1>t, <1>u, <2>1, StartOnward, SecureOnward
<1>3. ASSUME NEW bare \in BOOLEAN, Pause(bare) PROVE Secure'
  <2>1. UNCHANGED <<lifeVars, team, done, verified, pending, reasked, flight>>
    BY <1>3 DEF Pause, askVars, agentVars
  <2> QED BY <1>u, <2>1, SecureOnward
<1>4. ASSUME NEW a \in Agent, TaskCompleted(a) PROVE Secure'
  <2>1. UNCHANGED <<lifeVars, team, done, verified, pending, reasked, flight>>
    BY <1>4 DEF TaskCompleted, askVars
  <2> QED BY <1>u, <2>1, SecureOnward
<1>5. ASSUME NEW a \in Agent, Mentioned(a) \/ ForceActivate(a) PROVE Secure'
  <2>1. UNCHANGED <<lifeVars, team, done, verified, pending, reasked>>
        /\ (Start("one", "prompt", a) \/ Start("one", "force", a) \/ UNCHANGED flight)
    BY <1>5 DEF Mentioned, ForceActivate, askVars, agentVars
  <2> QED BY <1>t, <1>u, <2>1, StartOnward, SecureOnward
<1>6. ASSUME NEW a \in Agent, Assigned(a) PROVE Secure'
  <2> DEFINE f == [kind |-> "one", step |-> "prompt", at |-> a, todo |-> {}]
  <2>1. PICK s, t \in Slot : flight' = [flight EXCEPT ![s] = f, ![t] = f]
    BY <1>6 DEF Assigned
  <2>2. UNCHANGED <<lifeVars, team, done, verified, pending, reasked>>
    BY <1>6 DEF Assigned, askVars, agentVars
  <2>3. Passing(f)
    BY DEF Passing
  <2>4. Onward
    <3> HIDE DEF f
    <3> QED BY <1>t, <2>1, <2>3 DEF Onward
  <2> QED BY <2>2, <2>4, SecureOnward
<1> QED BY <1>1, <1>2, <1>3, <1>4, <1>5, <1>6 DEF ChatHub

LEMMA AlwaysSecure == TeamSpec => [](Held /\ Secure)
<1>1. TeamInit => Secure
  <2> SUFFICES ASSUME TeamInit PROVE Secure
    OBVIOUS
  <2>1. \A s \in Slot : flight[s].step = "free" /\ flight[s].kind = "free"
    BY DEF TeamInit, Free
  <2>2. Judged
    BY <2>1 DEF TeamInit, Judged, AboutTeam, Stands, OneMatter, Concerns, Unsettled
  <2> QED BY <2>2, SessionsAre DEF TeamInit, Secure, Stages, Saved, SessionHasTeam
<1>2. Held /\ Secure /\ [TeamNext]_teamVars => Secure'
  <2> SUFFICES ASSUME Held, Secure, [TeamNext]_teamVars PROVE Secure'
    OBVIOUS
  <2>1. CASE UNCHANGED teamVars
    <3>1. Onward /\ UNCHANGED <<lifeVars, team, done, verified, pending, reasked>>
      BY <2>1 DEF teamVars, agentVars, askVars, Onward
    <3> QED BY <3>1, SecureOnward
  <2> QED BY <2>1, LifeSecure, LoopsSecure, TerminalsSecure, ChatHubSecure DEF TeamNext
<1> QED BY <1>1, <1>2, HeldFirst, HeldNext, PTL DEF TeamSpec

\* An agent whose completion is verified, and whom no check will look at again,
\* has not been given tasks since, in memory or in the saved session, whatever
\* was suspended at an await when the verdict came; unless the coordinator was
\* asked about it again before an earlier question was settled
\* (team-orchestrator.ts:739-742, 1006-1045, 1381-1415, 1963).
THEOREM VerdictAlwaysStands == TeamSpec => []VerdictStands
<1>1. Held /\ Secure => VerdictStands
  BY VerdictsNow DEF Secure, Saved, VerdictStands
<1> QED BY <1>1, AlwaysSecure, PTL

\* Whenever the monitor dies without a cleanup, the session on disk names all
\* who are supervised, and in the middle of a resume also those it has yet to
\* find again (team-orchestrator.ts:291-298, 2073-2128, 2220-2230).
THEOREM SessionAlwaysHasTeam == TeamSpec => []SessionHasTeam
<1>1. Held /\ Secure => SessionHasTeam
  BY DEF Secure
<1> QED BY <1>1, AlwaysSecure, PTL

(***************************************************************************)
(* The link of the terminal monitor                                        *)
(***************************************************************************)

Socks == [Sockets -> {"none", "connecting", "aborted", "open", "closing", "leaving"}]

(***************************************************************************)
(* The functions of the service                                            *)
(***************************************************************************)
LEMMA CountersAre ==
  ASSUME NEW l \in Link
  PROVE  /\ l.checks \in Nat /\ l.waits \in Nat /\ l.retries \in Nat /\ l.timeouts \in Nat
         /\ 0 \in 0 .. MaxAttempts
BY MonitorLinkAssumption DEF Link

LEMMA CountersSet ==
  ASSUME NEW l \in Link, NEW n \in Nat
  PROVE  /\ [l EXCEPT !.checks = n] \in Link /\ [l EXCEPT !.waits = n] \in Link
         /\ [l EXCEPT !.retries = n] \in Link /\ [l EXCEPT !.timeouts = n] \in Link
BY DEF Link

(* What none of the failures touches.                                      *)
SameLine(l, m) ==
  /\ m.ws = l.ws /\ m.checks = l.checks /\ m.initial = l.initial
  /\ m.wait = l.wait /\ m.waits = l.waits /\ m.timeouts = l.timeouts

LEMMA ScheduledDoes ==
  ASSUME NEW l \in Link
  PROVE  /\ Scheduled(l) \in Link /\ SameLine(l, Scheduled(l))
         /\ Scheduled(l).state \in {l.state, "ERROR"} /\ Scheduled(l).timeout = l.timeout
         /\ Scheduled(l).beat = l.beat
<1> DEFINE next == [l EXCEPT !.attempts = @ + 1, !.retry = TRUE, !.retries = @ + Also(l.retry)]
<1>1. CASE l.attempts >= MaxAttempts
  <2>1. Scheduled(l) = [l EXCEPT !.state = "ERROR"]
    BY <1>1 DEF Scheduled
  <2> QED BY <2>1 DEF Link, States, SameLine
<1>2. CASE ~ l.attempts >= MaxAttempts
  <2>1. Scheduled(l) = next
    BY <1>2 DEF Scheduled
  <2>2. l.attempts + 1 \in 0 .. MaxAttempts /\ l.retries + Also(l.retry) \in Nat
    BY <1>2, MonitorLinkAssumption DEF Link, Also
  <2> QED BY <2>1, <2>2 DEF Link, SameLine
<1> QED BY <1>1, <1>2

LEMMA FailedDoes ==
  ASSUME NEW l \in Link
  PROVE  /\ Failed(l) \in Link /\ SameLine(l, Failed(l))
         /\ Failed(l).state = "ERROR" /\ ~ Failed(l).timeout
<1> DEFINE m == [l EXCEPT !.state = "ERROR", !.shown = FALSE, !.timeout = FALSE]
<1>1. m \in Link /\ SameLine(l, m) /\ m.state = "ERROR" /\ ~ m.timeout
  BY DEF Link, States, SameLine
<1>2. Failed(l) = Scheduled(m)
  BY DEF Failed
<1> HIDE DEF m
<1> QED BY <1>1, <1>2, ScheduledDoes DEF SameLine

LEMMA OnErrorDoes ==
  ASSUME NEW l \in Link
  PROVE  /\ OnError(l) \in Link /\ SameLine(l, OnError(l))
         /\ l.state = "DISCONNECTED" => OnError(l).state = "DISCONNECTED"
BY FailedDoes DEF OnError, SameLine

LEMMA OnCloseDoes ==
  ASSUME NEW l \in Link, NEW final \in BOOLEAN
  PROVE  /\ OnClose(l, final) \in Link /\ SameLine(l, OnClose(l, final))
         /\ OnClose(l, final).state \in {"DISCONNECTED", "RECONNECTING", "ERROR"}
         /\ l.state = "DISCONNECTED" => OnClose(l, final).state = "DISCONNECTED"
         /\ ~ OnClose(l, final).timeout
<1> DEFINE m == [l EXCEPT !.timeout = FALSE, !.shown = FALSE, !.beat = FALSE]
           d == [m EXCEPT !.state = "DISCONNECTED"]
           r == [m EXCEPT !.state = "RECONNECTING"]
<1>1. m \in Link /\ SameLine(l, m) /\ m.state = l.state /\ ~ m.timeout
  BY DEF Link, SameLine
<1>2. /\ d \in Link /\ SameLine(l, d) /\ d.state = "DISCONNECTED" /\ ~ d.timeout
      /\ r \in Link /\ SameLine(l, r) /\ r.state = "RECONNECTING" /\ ~ r.timeout
  <2> HIDE DEF m
  <2> QED BY <1>1 DEF Link, States, SameLine
<1>3. OnClose(l, final) = IF final \/ m.state = "DISCONNECTED" THEN d ELSE Scheduled(r)
  BY DEF OnClose
<1> HIDE DEF m, d, r
<1> QED BY <1>1, <1>2, <1>3, ScheduledDoes DEF SameLine

LEMMA ClosingDoes ==
  ASSUME NEW f \in Socks, NEW s \in Sockets \cup {NoSocket}
  PROVE  /\ Closing(f, s) \in Socks
         /\ \A u \in Sockets : u # s => Closing(f, s)[u] = f[u]
         /\ s \in Sockets => Closing(f, s)[s] \notin {"connecting", "open"}
         /\ \A u \in Sockets : Closing(f, s)[u] \in {"connecting", "open"} => Closing(f, s)[u] = f[u]
         /\ \A u \in Sockets : f[u] = "none" => Closing(f, s)[u] = "none"
BY MonitorLinkAssumption DEF Closing, Socks

(* The constructor threw: the attempt has failed.                          *)
Threw(l, f) == link' = Failed(l) /\ sock' = f

LEMMA OpenSocketDoes ==
  ASSUME NEW l \in Link, NEW f \in Socks, OpenSocket(l, f), ~ Threw(l, f)
  PROVE  \E s \in Sockets :
           /\ f[s] = "none" /\ sock' = [f EXCEPT ![s] = "connecting"] /\ sock' \in Socks
           /\ link' \in Link /\ link'.ws = s /\ link'.timeout
           /\ link'.timeouts = l.timeouts + Also(l.timeout)
           /\ link'.state = l.state /\ link'.beat = l.beat /\ link'.checks = l.checks
           /\ link'.initial = l.initial /\ link'.wait = l.wait /\ link'.waits = l.waits
<1>1. PICK s \in Sockets :
        /\ f[s] = "none" /\ sock' = [f EXCEPT ![s] = "connecting"]
        /\ link' = [l EXCEPT !.ws = s, !.timeout = TRUE, !.timeouts = @ + Also(l.timeout)]
  BY Zenon DEF OpenSocket, Becomes, Threw
<1>2. l.timeouts + Also(l.timeout) \in Nat
  BY DEF Link, Also
<1>3. sock' \in Socks
  BY <1>1 DEF Socks
<1> QED BY <1>1, <1>2, <1>3 DEF Link

(* The timers that fire: from which fields the functions start.            *)
LEMMA WaitTakes ==
  ASSUME link \in Link, WaitEnds
  PROVE  \E l \in Link : AttemptConnection(l, sock)
<1>1. CASE link.wait /\ AttemptConnection([link EXCEPT !.wait = FALSE, !.initial = FALSE], sock)
  <2>1. [link EXCEPT !.wait = FALSE, !.initial = FALSE] \in Link
    BY DEF Link
  <2> QED BY <1>1, <2>1
<1>2. CASE link.waits > 0 /\ AttemptConnection([link EXCEPT !.waits = @ - 1, !.initial = FALSE], sock)
  <2> DEFINE w == [link EXCEPT !.waits = @ - 1]
  <2>1. link.waits - 1 \in Nat
    BY <1>2, CountersAre
  <2>2. w \in Link
    BY <2>1, CountersSet
  <2>3. AttemptConnection([w EXCEPT !.initial = FALSE], sock)
    BY <1>2
  <2> HIDE DEF w
  <2>4. [w EXCEPT !.initial = FALSE] \in Link
    BY <2>2 DEF Link
  <2> QED BY <2>3, <2>4
<1> QED BY <1>1, <1>2 DEF WaitEnds

LEMMA RetryTakes ==
  ASSUME link \in Link, RetryFires
  PROVE  \E l \in Link :
           /\ RetryWith(l) /\ (link.retry \/ link.retries > 0)
           /\ l.waits = link.waits /\ l.timeouts = link.timeouts /\ l.wait = link.wait
           /\ l.initial = link.initial /\ l.checks = link.checks /\ l.timeout = link.timeout
           /\ l.ws = link.ws /\ l.state = link.state /\ l.beat = link.beat
<1>1. CASE link.retry /\ RetryWith([link EXCEPT !.retry = FALSE])
  <2> DEFINE l == [link EXCEPT !.retry = FALSE]
  <2>1. /\ l \in Link /\ l.waits = link.waits /\ l.timeouts = link.timeouts /\ l.wait = link.wait
        /\ l.initial = link.initial /\ l.checks = link.checks /\ l.timeout = link.timeout
        /\ l.ws = link.ws /\ l.state = link.state /\ l.beat = link.beat
    BY DEF Link
  <2>2. RetryWith(l)
    BY <1>1
  <2> HIDE DEF l
  <2> QED BY <1>1, <2>1, <2>2
<1>2. CASE link.retries > 0 /\ RetryWith([link EXCEPT !.retries = @ - 1])
  <2> DEFINE l == [link EXCEPT !.retries = @ - 1]
  <2>1. link.retries - 1 \in Nat
    BY <1>2, CountersAre
  <2>2. /\ l.waits = link.waits /\ l.timeouts = link.timeouts /\ l.wait = link.wait
        /\ l.initial = link.initial /\ l.checks = link.checks /\ l.timeout = link.timeout
        /\ l.ws = link.ws /\ l.state = link.state /\ l.beat = link.beat
    BY DEF Link
  <2>3. RetryWith(l) /\ l \in Link
    BY <1>2, <2>1, CountersSet
  <2> HIDE DEF l
  <2> QED BY <1>2, <2>2, <2>3
<1> QED BY <1>1, <1>2 DEF RetryFires

LEMMA TimeoutTakes ==
  ASSUME link \in Link, TimeoutFires
  PROVE  \E l \in Link :
           TimeoutWith(l) /\ l.ws = link.ws /\ l.state = link.state /\ l.beat = link.beat
<1>1. CASE link.timeout /\ TimeoutWith([link EXCEPT !.timeout = FALSE])
  <2> DEFINE l == [link EXCEPT !.timeout = FALSE]
  <2>1. l \in Link /\ l.ws = link.ws /\ l.state = link.state /\ l.beat = link.beat
    BY DEF Link
  <2>2. TimeoutWith(l)
    BY <1>1
  <2> HIDE DEF l
  <2> QED BY <2>1, <2>2
<1>2. CASE link.timeouts > 0 /\ TimeoutWith([link EXCEPT !.timeouts = @ - 1])
  <2> DEFINE l == [link EXCEPT !.timeouts = @ - 1]
  <2>1. link.timeouts - 1 \in Nat
    BY <1>2, CountersAre
  <2>2. l.ws = link.ws /\ l.state = link.state /\ l.beat = link.beat
    BY DEF Link
  <2>3. TimeoutWith(l) /\ l \in Link
    BY <1>2, <2>1, CountersSet
  <2> HIDE DEF l
  <2> QED BY <2>2, <2>3
<1> QED BY <1>1, <1>2 DEF TimeoutFires

(***************************************************************************)
(* The type, and that a connected link has its heartbeat                   *)
(***************************************************************************)
Beats(l) == l.state = "CONNECTED" => l.beat
Sound(l) == l \in Link /\ Beats(l)

LEMMA AttemptSound ==
  ASSUME NEW l \in Link, NEW f \in Socks, AttemptConnection(l, f)
  PROVE  Sound(link') /\ sock' \in Socks
<1> DEFINE m == [l EXCEPT !.state = "CONNECTING"]
<1>1. m \in Link /\ m.state = "CONNECTING"
  BY DEF Link, States
<1>2. CASE l.attempts = 0
  <2>1. link' = [m EXCEPT !.checks = @ + 1] /\ sock' = f
    BY <1>2 DEF AttemptConnection, Becomes
  <2> HIDE DEF m
  <2> QED BY <1>1, <2>1 DEF Link, Sound, Beats
<1>3. CASE l.attempts # 0
  <2>1. OpenSocket(m, f)
    BY <1>3 DEF AttemptConnection
  <2> HIDE DEF m
  <2>2. CASE Threw(m, f)
    BY <1>1, <2>2, FailedDoes DEF Threw, Sound, Beats
  <2> QED BY <1>1, <2>1, <2>2, OpenSocketDoes DEF Sound, Beats
<1> QED BY <1>2, <1>3

LEMMA AttemptConnecting ==
  ASSUME NEW l \in Link, NEW f \in Socks, AttemptConnection(l, f)
  PROVE  link'.state \in {"CONNECTING", "ERROR"}
<1> DEFINE m == [l EXCEPT !.state = "CONNECTING"]
<1>1. m \in Link /\ m.state = "CONNECTING"
  BY DEF Link, States
<1>2. (link' = [m EXCEPT !.checks = @ + 1]) \/ OpenSocket(m, f)
  BY DEF AttemptConnection, Becomes
<1> HIDE DEF m
<1>3. CASE link' = [m EXCEPT !.checks = @ + 1]
  BY <1>1, <1>3 DEF Link
<1>4. CASE Threw(m, f)
  BY <1>1, <1>4, FailedDoes DEF Threw
<1>5. CASE OpenSocket(m, f) /\ ~ Threw(m, f)
  BY <1>1, <1>5, OpenSocketDoes
<1> QED BY <1>2, <1>3, <1>4, <1>5

LEMMA ConnectSound ==
  ASSUME NEW l, Sound(l), NEW f \in Socks, NEW hasToken, Connect(l, f, hasToken)
  PROVE  Sound(link') /\ sock' \in Socks
<1>1. l \in Link
  BY DEF Sound
<1>2. CASE link' = l /\ sock' = f
  BY <1>2
<1>3. CASE link' = [l EXCEPT !.state = "ERROR"] /\ sock' = f
  BY <1>1, <1>3 DEF Sound, Beats, Link, States
<1>4. CASE ~ Busy(l) /\ link' = [l EXCEPT !.wait = TRUE, !.waits = @ + Also(l.wait)] /\ sock' = f
  <2> DEFINE m == [l EXCEPT !.wait = TRUE]
             n == l.waits + Also(l.wait)
  <2>1. m \in Link /\ m.state # "CONNECTED"
    BY <1>1, <1>4 DEF Link, Busy
  <2>2. n \in Nat
    BY <1>1, CountersAre DEF Also
  <2>3. link' = [m EXCEPT !.waits = n]
    BY <1>4
  <2> HIDE DEF m, n
  <2>4. link' \in Link
    BY <2>1, <2>2, <2>3, CountersSet
  <2>5. link'.state # "CONNECTED"
    BY <2>1, <2>3 DEF Link
  <2> QED BY <1>4, <2>4, <2>5 DEF Sound, Beats
<1>5. CASE AttemptConnection(l, f)
  BY <1>1, <1>5, AttemptSound
<1> QED BY <1>2, <1>3, <1>4, <1>5 DEF Connect, Becomes

Typed == TypeOK /\ Watched

LEMMA TypedPreserved ==
  ASSUME Typed, [Next]_vars
  PROVE  Typed'
<1>t. /\ loggedIn \in BOOLEAN /\ token \in BOOLEAN /\ crossed \in BOOLEAN
      /\ link \in Link /\ Sound(link) /\ sock \in Socks /\ dead \subseteq Sockets
      /\ queue \in Seq(1 .. MaxInputs) /\ sent \in Seq(1 .. MaxInputs) /\ issued \in 0 .. MaxInputs
  BY DEF Typed, TypeOK, Watched, Sound, Beats, Socks
<1>g. SUFFICES /\ loggedIn' \in BOOLEAN /\ token' \in BOOLEAN /\ crossed' \in BOOLEAN
               /\ Sound(link') /\ sock' \in Socks /\ dead' \subseteq Sockets
               /\ queue' \in Seq(1 .. MaxInputs) /\ sent' \in Seq(1 .. MaxInputs)
               /\ issued' \in 0 .. MaxInputs
  BY DEF Typed, TypeOK, Watched, Sound, Beats, Socks
<1> USE <1>t
<1>1. CASE Login
  <2>1. Sound(link') /\ sock' \in Socks
    BY <1>1, ConnectSound DEF Login
  <2> QED BY <1>1, <2>1 DEF Login, inputVars
<1>2. CASE Logout
  <2>1. link' = [link EXCEPT !.state = "DISCONNECTED", !.ws = NoSocket, !.beat = FALSE,
                             !.retry = FALSE, !.timeout = FALSE, !.wait = FALSE]
    BY <1>2 DEF Logout
  <2>2. Sound(link')
    BY <2>1 DEF Sound, Beats, Link, States
  <2>3. sock' \in Socks
    <3>1. link.ws \in Sockets \cup {NoSocket}
      BY DEF Link
    <3>2. Closing(sock, link.ws) \in Socks
      BY <3>1, ClosingDoes
    <3>3. [sock EXCEPT ![link.ws] = "leaving"] \in Socks
      BY DEF Socks
    <3> QED BY <1>2, <3>2, <3>3 DEF Logout
  <2>4. queue' = <<>> /\ <<>> \in Seq(1 .. MaxInputs)
    BY <1>2 DEF Logout
  <2> QED BY <1>2, <2>2, <2>3, <2>4 DEF Logout
<1>3. CASE Expire
  BY <1>3 DEF Expire, inputVars
<1>4. CASE ForceReconnect
  <2> DEFINE l == [link EXCEPT !.attempts = 0]
  <2>1. Sound(l)
    <3>1. 0 \in 0 .. MaxAttempts
      BY CountersAre
    <3> QED BY <3>1 DEF Sound, Beats, Link
  <2>2. Closing(sock, link.ws) \in Socks
    <3>1. link.ws \in Sockets \cup {NoSocket}
      BY DEF Link
    <3> QED BY <3>1, ClosingDoes
  <2>3. Connect(l, Closing(sock, link.ws), token) /\ crossed' = (crossed \/ Twice(l, token))
    BY <1>4 DEF ForceReconnect
  <2> HIDE DEF l
  <2>4. Sound(link') /\ sock' \in Socks
    BY <2>1, <2>2, <2>3, ConnectSound
  <2> QED BY <1>4, <2>3, <2>4 DEF ForceReconnect, inputVars
<1>5. CASE Reload
  <2>1. Sound(FreshLink)
    BY MonitorLinkAssumption DEF Sound, Beats, Link, States, FreshLink
  <2>2. [s \in Sockets |-> "none"] \in Socks
    BY DEF Socks
  <2> QED BY <1>5, <2>1, <2>2 DEF Reload, inputVars
<1>6. CASE SendInput
  <2> DEFINE n == issued + 1
             q == Append(queue, n)
  <2>1. n \in 1 .. MaxInputs
    BY <1>6, MonitorLinkAssumption DEF SendInput
  <2> HIDE DEF n
  <2>p. PICK S : S = 1 .. MaxInputs
    OBVIOUS
  <2>2. q \in Seq(S) /\ Append(sent, n) \in Seq(S) /\ q # <<>>
    BY <2>1, <2>p
  <2>3. Tail(q) \in Seq(S)
    BY <2>2
  <2> HIDE DEF q
  <2>4. /\ issued' = n /\ queue' \in {queue, q, Tail(q)} /\ sent' \in {sent, Append(sent, n)}
        /\ UNCHANGED <<userVars, link, sock, dead, crossed, faults>>
    BY <1>6 DEF SendInput, n, q
  <2>5. n \in 0 .. MaxInputs
    BY <2>1
  <2>6. queue' \in Seq(S) /\ sent' \in Seq(S)
    BY <2>p, <2>2, <2>3, <2>4
  <2>7. /\ loggedIn' = loggedIn /\ token' = token /\ crossed' = crossed /\ link' = link
        /\ sock' = sock /\ dead' = dead
    BY <2>4 DEF userVars
  <2> QED BY <2>p, <2>4, <2>5, <2>6, <2>7
<1>7. CASE WaitEnds
  <2>1. PICK l \in Link : AttemptConnection(l, sock)
    BY <1>7, WaitTakes
  <2>2. Sound(link') /\ sock' \in Socks
    BY <2>1, AttemptSound
  <2> QED BY <1>7, <2>2 DEF WaitEnds, userVars, inputVars
<1>8. CASE Checked
  <2> DEFINE l == [link EXCEPT !.checks = @ - 1]
  <2>1. l \in Link /\ Sound(l)
    <3>1. link.checks - 1 \in Nat
      BY <1>8, CountersAre DEF Checked
    <3>2. l \in Link
      BY <3>1, CountersSet
    <3> QED BY <3>2 DEF Link, Sound, Beats
  <2>2. OpenSocket(l, sock)
    BY <1>8 DEF Checked
  <2> HIDE DEF l
  <2>3. CASE Threw(l, sock)
    BY <1>8, <2>1, <2>3, FailedDoes DEF Threw, Sound, Beats, Checked, userVars, inputVars
  <2>4. CASE ~ Threw(l, sock)
    <3>1. Sound(link') /\ sock' \in Socks
      BY <2>1, <2>2, <2>4, OpenSocketDoes DEF Sound, Beats
    <3> QED BY <1>8, <3>1 DEF Checked, userVars, inputVars
  <2> QED BY <2>3, <2>4
<1>9. CASE CheckFails
  <2> DEFINE l == [link EXCEPT !.checks = @ - 1]
  <2>1. l \in Link
    <3>1. link.checks - 1 \in Nat
      BY <1>9, CountersAre DEF CheckFails
    <3> QED BY <3>1, CountersSet
  <2>2. link' = Failed(l)
    BY <1>9 DEF CheckFails
  <2> HIDE DEF l
  <2>3. Sound(link')
    BY <2>1, <2>2, FailedDoes DEF Sound, Beats
  <2> QED BY <1>9, <2>3 DEF CheckFails, userVars, inputVars
<1>10. CASE RetryFires
  <2>1. PICK l : Sound(l) /\ RetryWith(l)
    BY <1>10, RetryTakes DEF Sound, Beats
  <2>2. Sound(link') /\ sock' \in Socks
    BY <2>1, ConnectSound DEF RetryWith, Becomes
  <2> QED BY <1>10, <2>2 DEF RetryFires, userVars, inputVars
<1>11. CASE TimeoutFires
  <2>1. PICK l : Sound(l) /\ TimeoutWith(l)
    BY <1>11, TimeoutTakes DEF Sound, Beats
  <2>2. Sound(link') /\ sock' \in Socks
    <3>1. l \in Link /\ l.ws \in Sockets \cup {NoSocket}
      BY <2>1 DEF Sound, Link
    <3> QED BY <2>1, <3>1, FailedDoes, ClosingDoes DEF TimeoutWith, Sound, Beats
  <2> QED BY <1>11, <2>2 DEF TimeoutFires, userVars, inputVars
<1>12. CASE HeartbeatTimeout
  <2>1. link.ws \in Sockets \cup {NoSocket}
    BY DEF Link
  <2> QED BY <1>12, <2>1, ClosingDoes DEF HeartbeatTimeout, userVars, inputVars
<1>13. ASSUME NEW s \in Sockets, Opens(s)
       PROVE  /\ Sound(link') /\ sock' \in Socks
              /\ queue' \in Seq(1 .. MaxInputs) /\ sent' \in Seq(1 .. MaxInputs)
              /\ UNCHANGED <<userVars, dead, issued, crossed, faults>>
  <2>1. link' = [link EXCEPT !.timeout = FALSE, !.state = "CONNECTED", !.shown = TRUE,
                             !.attempts = 0, !.beat = TRUE]
    BY <1>13 DEF Opens
  <2>2. Sound(link')
    <3>1. 0 \in 0 .. MaxAttempts
      BY CountersAre
    <3> QED BY <2>1, <3>1 DEF Sound, Beats, Link, States
  <2>3. sock' \in Socks
    BY <1>13 DEF Opens, Socks
  <2>4. queue' = <<>> /\ sent' \in {sent, sent \o queue}
    BY <1>13 DEF Opens
  <2>5. sent \o queue \in Seq(1 .. MaxInputs) /\ <<>> \in Seq(1 .. MaxInputs)
    OBVIOUS
  <2> QED BY <1>13, <2>2, <2>3, <2>4, <2>5 DEF Opens
<1>14. ASSUME NEW s \in Sockets, NEW l, Sound(l), Gone(s, l)
       PROVE  /\ Sound(link') /\ sock' \in Socks /\ dead' \subseteq Sockets
              /\ crossed' \in BOOLEAN /\ UNCHANGED <<userVars, inputVars>>
  <2>1. sock' = [sock EXCEPT ![s] = "none"]
    BY <1>14 DEF Gone
  <2>2. sock' \in Socks
    BY <2>1 DEF Socks
  <2> QED BY <1>14, <2>2 DEF Gone
<1>15. ASSUME NEW s \in Sockets, Fails(s) \/ Closes(s) \/ IsClosed(s)
       PROVE  \E l : Sound(l) /\ Gone(s, l)
  <2>1. PICK l \in Link, final \in BOOLEAN : Gone(s, OnClose(l, final))
    <3>1. CASE Fails(s)
      BY <3>1, OnErrorDoes DEF Fails
    <3>2. CASE Closes(s) \/ IsClosed(s)
      BY <3>2, OnErrorDoes DEF Closes, IsClosed, Ended
    <3> QED BY <1>15, <3>1, <3>2
  <2>2. Sound(OnClose(l, final))
    BY OnCloseDoes DEF Sound, Beats
  <2> QED BY <2>1, <2>2
<1>16. ASSUME NEW s \in Sockets, Dies(s)
       PROVE  dead' \subseteq Sockets /\ UNCHANGED <<userVars, link, sock, inputVars, crossed>>
  BY <1>16 DEF Dies
<1>17. CASE UNCHANGED vars
  BY <1>17 DEF vars, userVars, inputVars
<1>18. ASSUME NEW s \in Sockets, Opens(s) \/ Fails(s) \/ Closes(s) \/ IsClosed(s) \/ Dies(s)
       PROVE  /\ loggedIn' \in BOOLEAN /\ token' \in BOOLEAN /\ crossed' \in BOOLEAN
              /\ Sound(link') /\ sock' \in Socks /\ dead' \subseteq Sockets
              /\ queue' \in Seq(1 .. MaxInputs) /\ sent' \in Seq(1 .. MaxInputs)
              /\ issued' \in 0 .. MaxInputs
  <2>1. CASE Opens(s)
    BY <1>13, <2>1 DEF userVars
  <2>2. CASE Fails(s) \/ Closes(s) \/ IsClosed(s)
    <3>1. PICK l : Sound(l) /\ Gone(s, l)
      BY <1>15, <2>2
    <3> QED BY <1>14, <3>1 DEF userVars, inputVars
  <2>3. CASE Dies(s)
    BY <1>16, <2>3 DEF userVars, inputVars
  <2> QED BY <1>18, <2>1, <2>2, <2>3
<1> QED BY <1>1, <1>2, <1>3, <1>4, <1>5, <1>6, <1>7, <1>8, <1>9, <1>10, <1>11, <1>12, <1>17, <1>18
        DEF Next

(***************************************************************************)
(* An undisturbed link                                                     *)
(***************************************************************************)
AliveIn(f, s) == f[s] \in {"connecting", "open"}
NoneAlive(f) == \A s \in Sockets : ~ AliveIn(f, s)

(* The second before a first attempt, its health check, the timer of a     *)
(* socket and the socket itself follow each other: no two of them are      *)
(* there at a time, none after a logout, and no timer is without a handle, *)
(* but for retries.                                                        *)
Calm(l, f, in) ==
  /\ l.waits = 0 /\ l.timeouts = 0
  /\ l.wait => l.initial /\ in
  /\ l.initial =>
       /\ \A s \in Sockets : f[s] = "none"
       /\ l.checks = 0 /\ ~ l.timeout /\ ~ l.retry /\ l.retries = 0
       /\ l.state \in {"DISCONNECTED", "ERROR"}
  /\ ~ in => NoneAlive(f) /\ l.checks = 0 /\ ~ l.timeout /\ l.state = "DISCONNECTED"
  /\ l.checks > 0 => NoneAlive(f) /\ l.checks = 1 /\ ~ l.timeout /\ l.state = "CONNECTING"
  /\ l.timeout => l.state = "CONNECTING"
  /\ \A s \in Sockets : AliveIn(f, s) =>
       s = l.ws /\ l.state = IF f[s] = "open" THEN "CONNECTED" ELSE "CONNECTING"

(* A link that is down, whatever its state says.                           *)
Down(l, f) ==
  /\ l.waits = 0 /\ l.timeouts = 0 /\ ~ l.wait /\ ~ l.initial
  /\ NoneAlive(f) /\ l.checks = 0 /\ ~ l.timeout

LEMMA DownCalm ==
  ASSUME NEW l \in Link, NEW f \in Socks, Down(l, f), NEW in \in BOOLEAN,
         in \/ l.state = "DISCONNECTED"
  PROVE  Calm(l, f, in)
BY DEF Down, Calm, NoneAlive

(* An attempt from a link that is down or waited for its first one.        *)
LEMMA AttemptCalm ==
  ASSUME NEW l \in Link, NEW f \in Socks, Down(l, f), AttemptConnection(l, f)
  PROVE  Calm(link', sock', TRUE)
<1> DEFINE m == [l EXCEPT !.state = "CONNECTING"]
<1>1. m \in Link /\ Down(m, f) /\ m.state = "CONNECTING"
  BY DEF Link, States, Down
<1>2. CASE l.attempts = 0
  <2>1. link' = [m EXCEPT !.checks = @ + 1] /\ sock' = f
    BY <1>2 DEF AttemptConnection, Becomes
  <2> HIDE DEF m
  <2>2. /\ link'.checks = 1 /\ link'.state = "CONNECTING" /\ link'.waits = 0 /\ link'.timeouts = 0
        /\ ~ link'.wait /\ ~ link'.initial /\ ~ link'.timeout
    BY <1>1, <2>1 DEF Link, Down
  <2> QED BY <1>1, <2>1, <2>2 DEF Calm, Down, NoneAlive
<1>3. CASE l.attempts # 0 /\ Threw(m, f)
  <2> HIDE DEF m
  <2>1. link' \in Link /\ SameLine(m, link') /\ ~ link'.timeout /\ sock' = f
    BY <1>1, <1>3, FailedDoes DEF Threw
  <2> QED BY <1>1, <2>1, DownCalm DEF Down, SameLine
<1>4. CASE l.attempts # 0 /\ ~ Threw(m, f)
  <2>1. OpenSocket(m, f)
    BY <1>4 DEF AttemptConnection
  <2>t. ~ Threw(m, f)
    BY <1>4
  <2> HIDE DEF m
  <2>2. PICK s \in Sockets :
          /\ f[s] = "none" /\ sock' = [f EXCEPT ![s] = "connecting"]
          /\ link'.ws = s /\ link'.timeouts = m.timeouts + Also(m.timeout)
          /\ link'.state = m.state /\ link'.checks = m.checks
          /\ link'.initial = m.initial /\ link'.wait = m.wait /\ link'.waits = m.waits
    BY <1>1, <2>1, <2>t, OpenSocketDoes
  <2>3. /\ link'.state = "CONNECTING" /\ link'.checks = 0 /\ ~ link'.initial /\ ~ link'.wait
        /\ link'.waits = 0 /\ link'.timeouts = 0
    BY <1>1, <2>2 DEF Down, Also
  <2>4. \A u \in Sockets : sock'[u] = IF u = s THEN "connecting" ELSE f[u]
    BY <2>2 DEF Socks
  <2> QED BY <1>1, <2>2, <2>3, <2>4 DEF Calm, Down, NoneAlive, AliveIn
<1> QED BY <1>2, <1>3, <1>4

LEMMA CheckedCalm ==
  ASSUME Typed, Calm(link, sock, loggedIn), Checked
  PROVE  Calm(link', sock', loggedIn)
<1> DEFINE l == [link EXCEPT !.checks = @ - 1]
<1>1. link \in Link /\ sock \in Socks /\ loggedIn \in BOOLEAN /\ link.checks > 0 /\ OpenSocket(l, sock)
  BY DEF Typed, TypeOK, Socks, Checked
<1>2. /\ loggedIn /\ NoneAlive(sock) /\ link.checks = 1 /\ ~ link.timeout /\ link.state = "CONNECTING"
      /\ link.waits = 0 /\ link.timeouts = 0 /\ ~ link.initial /\ ~ link.wait
  BY <1>1 DEF Calm, Link
<1>3. l \in Link
  <2>1. link.checks - 1 \in Nat
    BY <1>2
  <2> QED BY <1>1, <2>1, CountersSet
<1>4. /\ l.checks = 0 /\ ~ l.timeout /\ l.state = "CONNECTING"
      /\ l.waits = 0 /\ l.timeouts = 0 /\ ~ l.initial /\ ~ l.wait
  BY <1>1, <1>2 DEF Link
<1> HIDE DEF l
<1>5. CASE Threw(l, sock)
  <2>1. link' \in Link /\ SameLine(l, link') /\ ~ link'.timeout /\ sock' = sock
    BY <1>3, <1>5, FailedDoes DEF Threw
  <2>2. Down(link', sock')
    BY <1>2, <1>4, <2>1 DEF Down, SameLine
  <2> QED BY <1>1, <1>2, <2>1, <2>2, DownCalm
<1>6. CASE ~ Threw(l, sock)
  <2>1. PICK s \in Sockets :
          /\ sock' = [sock EXCEPT ![s] = "connecting"]
          /\ link'.ws = s /\ link'.timeouts = l.timeouts + Also(l.timeout)
          /\ link'.state = l.state /\ link'.checks = l.checks
          /\ link'.initial = l.initial /\ link'.wait = l.wait /\ link'.waits = l.waits
    BY <1>1, <1>3, <1>6, OpenSocketDoes
  <2>2. /\ link'.state = "CONNECTING" /\ link'.checks = 0 /\ ~ link'.initial /\ ~ link'.wait
        /\ link'.waits = 0 /\ link'.timeouts = 0
    BY <1>4, <2>1 DEF Also
  <2>3. \A u \in Sockets : sock'[u] = IF u = s THEN "connecting" ELSE sock[u]
    BY <1>1, <2>1 DEF Socks
  <2> QED BY <1>2, <2>1, <2>2, <2>3 DEF Calm, NoneAlive, AliveIn
<1> QED BY <1>5, <1>6

LEMMA ConnectCalm ==
  ASSUME NEW l \in Link, NEW f \in Socks, NEW hasToken \in BOOLEAN,
         Calm(l, f, TRUE), Connect(l, f, hasToken), ~ Twice(l, hasToken)
  PROVE  Calm(link', sock', TRUE)
<1>1. CASE link' = l /\ sock' = f
  BY <1>1
<1>2. CASE ~ Busy(l) /\ ~ hasToken /\ link' = [l EXCEPT !.state = "ERROR"] /\ sock' = f
  <2>1. /\ link'.waits = l.waits /\ link'.timeouts = l.timeouts /\ link'.wait = l.wait
        /\ link'.initial = l.initial /\ link'.checks = l.checks /\ link'.timeout = l.timeout
        /\ link'.retry = l.retry /\ link'.retries = l.retries /\ link'.ws = l.ws
        /\ link'.state = "ERROR"
    BY <1>2 DEF Link
  <2>2. l.state \notin {"CONNECTING", "CONNECTED"}
    BY <1>2 DEF Busy
  <2>3. ~ l.checks > 0 /\ ~ l.timeout /\ NoneAlive(f)
    BY <2>2 DEF Calm, NoneAlive, AliveIn
  <2> QED BY <1>2, <2>1, <2>3 DEF Calm, NoneAlive
<1>3. CASE /\ ~ Busy(l) /\ hasToken /\ l.initial
           /\ link' = [l EXCEPT !.wait = TRUE, !.waits = @ + Also(l.wait)] /\ sock' = f
  <2>1. ~ l.wait /\ l.waits = 0
    BY <1>3 DEF Twice, Calm
  <2>2. /\ link'.waits = 0 /\ link'.timeouts = l.timeouts /\ link'.wait
        /\ link'.initial = l.initial /\ link'.checks = l.checks /\ link'.timeout = l.timeout
        /\ link'.retry = l.retry /\ link'.retries = l.retries /\ link'.ws = l.ws
        /\ link'.state = l.state
    <3> DEFINE m == [l EXCEPT !.wait = TRUE]
    <3>1. m \in Link
      BY DEF Link
    <3>2. l.waits + Also(l.wait) = 0
      BY <2>1 DEF Also
    <3>3. link' = [m EXCEPT !.waits = 0]
      BY <1>3, <3>2
    <3>4. /\ m.timeouts = l.timeouts /\ m.wait /\ m.initial = l.initial /\ m.checks = l.checks
          /\ m.timeout = l.timeout /\ m.retry = l.retry /\ m.retries = l.retries /\ m.ws = l.ws
          /\ m.state = l.state
      BY DEF Link
    <3> HIDE DEF m
    <3> QED BY <3>1, <3>3, <3>4 DEF Link
  <2> QED BY <1>3, <2>1, <2>2 DEF Calm
<1>4. CASE ~ Busy(l) /\ ~ l.initial /\ AttemptConnection(l, f)
  <2>1. l.state \notin {"CONNECTING", "CONNECTED"}
    BY <1>4 DEF Busy
  <2>2. l.checks = 0 /\ ~ l.timeout /\ NoneAlive(f) /\ ~ l.wait /\ l.waits = 0 /\ l.timeouts = 0
    BY <1>4, <2>1, CountersAre DEF Calm, NoneAlive, AliveIn
  <2> QED BY <1>4, <2>2, AttemptCalm DEF Down
<1> QED BY <1>1, <1>2, <1>3, <1>4 DEF Connect, Becomes

LEMMA ClosingCalm ==
  ASSUME NEW l, NEW f \in Socks, NEW in, Calm(l, f, in), NEW s \in Sockets \cup {NoSocket}
  PROVE  Calm(l, Closing(f, s), in)
<1>1. /\ \A u \in Sockets : AliveIn(Closing(f, s), u) => AliveIn(f, u) /\ Closing(f, s)[u] = f[u]
      /\ \A u \in Sockets : f[u] = "none" => Closing(f, s)[u] = "none"
  BY ClosingDoes DEF AliveIn
<1> QED BY <1>1 DEF Calm, NoneAlive

(* A socket that goes takes the link down, unless attempts are crossed.    *)
LEMMA GoneCalm ==
  ASSUME Typed, Calm(link, sock, loggedIn), ~ crossed', NEW s \in Sockets, sock[s] # "none",
         NEW l \in Link, SameLine(link, l), ~ l.timeout,
         link.state = "DISCONNECTED" => l.state = "DISCONNECTED", Gone(s, l)
  PROVE  Calm(link', sock', loggedIn')
<1>1. /\ link \in Link /\ sock \in Socks /\ loggedIn \in BOOLEAN /\ link' = l
      /\ sock' = [sock EXCEPT ![s] = "none"] /\ loggedIn' = loggedIn
      /\ ~ (Late(s) /\ loggedIn)
  BY DEF Typed, TypeOK, Socks, Gone, userVars
<1>2. sock' \in Socks /\ \A u \in Sockets : AliveIn(sock', u) => u # s /\ AliveIn(sock, u)
  BY <1>1 DEF Socks, AliveIn
<1>3. ~ link.initial /\ ~ link.wait /\ link.waits = 0 /\ link.timeouts = 0
  BY <1>1 DEF Calm
<1>4. CASE loggedIn
  <2>1. s = link.ws /\ link.checks = 0
    BY <1>1, <1>4, CountersAre DEF Late
  <2>2. NoneAlive(sock')
    BY <1>2, <2>1 DEF NoneAlive, Calm
  <2>3. Down(l, sock')
    BY <1>3, <2>1, <2>2 DEF Down, SameLine
  <2> QED BY <1>1, <1>2, <1>4, <2>3, DownCalm
<1>5. CASE ~ loggedIn
  <2>1. NoneAlive(sock) /\ link.checks = 0 /\ link.state = "DISCONNECTED"
    BY <1>5 DEF Calm
  <2>2. NoneAlive(sock')
    BY <1>2, <2>1 DEF NoneAlive
  <2>3. Down(l, sock') /\ l.state = "DISCONNECTED"
    BY <1>3, <2>1, <2>2 DEF Down, SameLine
  <2> QED BY <1>1, <1>2, <2>3, DownCalm
<1> QED BY <1>4, <1>5

LEMMA CalmPreserved ==
  ASSUME Typed, crossed \/ Calm(link, sock, loggedIn), [Next]_vars
  PROVE  crossed' \/ Calm(link', sock', loggedIn')
<1>t. /\ loggedIn \in BOOLEAN /\ token \in BOOLEAN /\ link \in Link /\ sock \in Socks
      /\ link.ws \in Sockets \cup {NoSocket}
  BY DEF Typed, TypeOK, Socks, Link
<1> SUFFICES ASSUME ~ crossed' PROVE Calm(link', sock', loggedIn')
  OBVIOUS
<1>r. CASE Reload
  <2>1. link' = FreshLink /\ sock' = [s \in Sockets |-> "none"] /\ loggedIn' = FALSE
    BY <1>r DEF Reload
  <2> QED BY <2>1 DEF Calm, FreshLink, NoneAlive, AliveIn
<1>c. ASSUME ~ Reload PROVE Calm(link, sock, loggedIn)
  <2>1. crossed => crossed'
    BY <1>c DEF Next, Login, Logout, Expire, ForceReconnect, SendInput, WaitEnds, Checked, CheckFails,
             RetryFires, TimeoutFires, HeartbeatTimeout, Opens, Fails, Closes, IsClosed, Dies, Ended, Gone, vars
  <2> QED BY <2>1
<1> SUFFICES ASSUME Calm(link, sock, loggedIn) PROVE Calm(link', sock', loggedIn')
  BY <1>r, <1>c
<1>1. CASE Login
  <2>1. ~ loggedIn /\ loggedIn' = TRUE /\ Connect(link, sock, TRUE)
    BY <1>1, Zenon DEF Login
  <2>2. Calm(link, sock, TRUE) /\ ~ Twice(link, TRUE)
    BY <2>1 DEF Calm, Twice
  <2> QED BY <1>t, <2>1, <2>2, ConnectCalm
<1>2. CASE Logout
  <2>1. /\ link' = [link EXCEPT !.state = "DISCONNECTED", !.ws = NoSocket, !.beat = FALSE,
                                !.retry = FALSE, !.timeout = FALSE, !.wait = FALSE]
        /\ sock' = IF link.ws # NoSocket /\ sock[link.ws] = "open" THEN [sock EXCEPT ![link.ws] = "leaving"]
                   ELSE Closing(sock, link.ws)
        /\ loggedIn' = FALSE /\ ~ link.checks > 0
    BY <1>2 DEF Logout
  <2>2. /\ link'.state = "DISCONNECTED" /\ ~ link'.timeout /\ ~ link'.wait /\ ~ link'.retry
        /\ link'.initial = link.initial /\ link'.retries = link.retries /\ link'.checks = 0
        /\ link'.waits = link.waits /\ link'.timeouts = link.timeouts
    BY <1>t, <2>1, CountersAre DEF Link
  <2>3. /\ NoneAlive(sock')
        /\ link.initial => \A s \in Sockets : sock'[s] = "none"
    <3>1. CASE link.ws # NoSocket /\ sock[link.ws] = "open"
      <4>1. \A u \in Sockets : sock'[u] = IF u = link.ws THEN "leaving" ELSE sock[u]
        BY <1>t, <2>1, <3>1 DEF Socks
      <4> QED BY <1>t, <3>1, <4>1 DEF NoneAlive, AliveIn, Calm
    <3>2. CASE ~ (link.ws # NoSocket /\ sock[link.ws] = "open")
      <4>1. /\ \A u \in Sockets : u # link.ws => sock'[u] = sock[u]
            /\ link.ws \in Sockets => ~ AliveIn(sock', link.ws)
            /\ \A u \in Sockets : sock[u] = "none" => sock'[u] = "none"
        BY <1>t, <2>1, <3>2, ClosingDoes DEF AliveIn
      <4> QED BY <4>1 DEF NoneAlive, AliveIn, Calm
    <3> QED BY <3>1, <3>2
  <2>4. link.waits = 0 /\ link.timeouts = 0 /\ (link.initial => link.retries = 0) /\ ~ link'.checks > 0
    BY <2>2 DEF Calm
  <2>5. loggedIn' = FALSE
    BY <2>1
  <2> QED BY ONLY <2>2, <2>3, <2>4, <2>5 DEF Calm, NoneAlive
<1>3. CASE ForceReconnect
  <2> DEFINE l == [link EXCEPT !.attempts = 0]
  <2>1. /\ loggedIn /\ loggedIn' = loggedIn /\ Connect(l, Closing(sock, link.ws), token)
        /\ ~ Twice(l, token)
    BY <1>3 DEF ForceReconnect
  <2>2. l \in Link
    <3>1. 0 \in 0 .. MaxAttempts
      BY <1>t, CountersAre
    <3> QED BY <1>t, <3>1 DEF Link
  <2>3. Calm(link, Closing(sock, link.ws), TRUE) /\ Closing(sock, link.ws) \in Socks
    BY <1>t, <2>1, ClosingCalm, ClosingDoes
  <2>4. /\ l.waits = link.waits /\ l.timeouts = link.timeouts /\ l.wait = link.wait
        /\ l.initial = link.initial /\ l.checks = link.checks /\ l.timeout = link.timeout
        /\ l.retry = link.retry /\ l.retries = link.retries /\ l.ws = link.ws /\ l.state = link.state
    BY <1>t DEF Link
  <2> HIDE DEF l
  <2>5. Calm(l, Closing(sock, link.ws), TRUE)
    BY <2>3, <2>4 DEF Calm
  <2> QED BY <1>t, <2>1, <2>2, <2>3, <2>5, ConnectCalm
<1>4. CASE UNCHANGED <<link, sock, loggedIn>>
  BY <1>4
<1>5. CASE Expire \/ SendInput \/ UNCHANGED vars
  <2>1. UNCHANGED <<link, sock, loggedIn>>
    BY <1>5 DEF Expire, SendInput, vars, userVars
  <2> QED BY <1>4, <2>1
<1>6. CASE WaitEnds
  <2> DEFINE l == [link EXCEPT !.wait = FALSE, !.initial = FALSE]
  <2>1. link.wait /\ AttemptConnection(l, sock) /\ loggedIn' = loggedIn
    BY <1>6 DEF WaitEnds, Calm, userVars
  <2>2. l \in Link
    BY <1>t DEF Link
  <2>3. /\ ~ l.wait /\ ~ l.initial /\ l.waits = link.waits /\ l.timeouts = link.timeouts
        /\ l.checks = link.checks /\ l.timeout = link.timeout
    BY <1>t DEF Link
  <2> HIDE DEF l
  <2>4. Down(l, sock) /\ loggedIn
    BY <2>1, <2>3 DEF Down, Calm, NoneAlive, AliveIn
  <2> QED BY <1>t, <2>1, <2>2, <2>4, AttemptCalm
<1>7. CASE Checked
  BY <1>7, CheckedCalm DEF Checked, userVars
<1>8. CASE CheckFails
  <2> DEFINE l == [link EXCEPT !.checks = @ - 1]
  <2>1. link' = Failed(l) /\ sock' = sock /\ loggedIn' = loggedIn /\ link.checks > 0
    BY <1>8 DEF CheckFails, userVars
  <2>2. link.checks = 1 /\ NoneAlive(sock) /\ loggedIn /\ ~ link.initial /\ ~ link.wait
          /\ link.waits = 0 /\ link.timeouts = 0
    BY <2>1 DEF Calm
  <2>3. l \in Link
    <3>1. link.checks - 1 \in Nat
      BY <2>2
    <3> QED BY <1>t, <3>1, CountersSet
  <2>4. /\ l.checks = 0 /\ l.initial = link.initial /\ l.wait = link.wait /\ l.waits = link.waits
        /\ l.timeouts = link.timeouts
    BY <1>t, <2>2 DEF Link
  <2> HIDE DEF l
  <2>5. link' \in Link /\ SameLine(l, link') /\ ~ link'.timeout
    BY <2>1, <2>3, FailedDoes
  <2>6. Down(link', sock)
    BY <2>2, <2>4, <2>5 DEF Down, SameLine
  <2> QED BY <1>t, <2>1, <2>2, <2>5, <2>6, DownCalm
<1>9. CASE RetryFires
  <2>0. ~ link.initial
    <3>1. link.retry \/ link.retries > 0
      BY <1>t, <1>9, RetryTakes
    <3> QED BY <3>1 DEF Calm
  <2>1. PICK l \in Link :
          /\ RetryWith(l)
          /\ l.waits = link.waits /\ l.timeouts = link.timeouts /\ l.wait = link.wait
          /\ l.initial = link.initial /\ l.checks = link.checks /\ l.timeout = link.timeout
          /\ l.ws = link.ws /\ l.state = link.state
    BY <1>t, <1>9, RetryTakes
  <2>2. Calm(l, sock, loggedIn) /\ ~ Twice(l, token)
    BY <2>0, <2>1 DEF Calm, Twice
  <2>3. loggedIn' = loggedIn
    BY <1>9 DEF RetryFires, userVars
  <2>4. CASE l.state = "DISCONNECTED"
    BY <2>1, <2>2, <2>3, <2>4 DEF RetryWith, Becomes
  <2>5. CASE l.state # "DISCONNECTED"
    <3>1. loggedIn /\ Connect(l, sock, token)
      BY <2>1, <2>2, <2>5 DEF RetryWith, Calm
    <3> QED BY <1>t, <2>2, <2>3, <3>1, ConnectCalm
  <2> QED BY <2>4, <2>5
<1>10. CASE TimeoutFires
  <2> DEFINE l == [link EXCEPT !.timeout = FALSE]
  <2>1. link.timeout /\ TimeoutWith(l) /\ loggedIn' = loggedIn
    BY <1>10 DEF TimeoutFires, userVars, Calm
  <2>2. /\ l \in Link /\ l.waits = link.waits /\ l.timeouts = link.timeouts /\ l.wait = link.wait
        /\ l.initial = link.initial /\ l.checks = link.checks /\ l.ws = link.ws /\ l.state = link.state
    BY <1>t DEF Link
  <2> HIDE DEF l
  <2>3. link.state = "CONNECTING" /\ loggedIn /\ ~ link.initial /\ ~ link.wait /\ link.checks = 0
          /\ link.waits = 0 /\ link.timeouts = 0
    BY <1>t, <2>1, CountersAre DEF Calm
  <2>4. link' = Failed(l) /\ sock' = Closing(sock, link.ws)
    BY <2>1, <2>2, <2>3 DEF TimeoutWith
  <2>5. link' \in Link /\ SameLine(l, link') /\ ~ link'.timeout
    BY <2>2, <2>4, FailedDoes
  <2>6. NoneAlive(sock') /\ sock' \in Socks
    <3>1. /\ sock' \in Socks
          /\ \A u \in Sockets : u # link.ws => sock'[u] = sock[u]
          /\ link.ws \in Sockets => ~ AliveIn(sock', link.ws)
      BY <1>t, <2>4, ClosingDoes DEF AliveIn
    <3> QED BY <3>1 DEF NoneAlive, AliveIn, Calm
  <2>7. Down(link', sock')
    BY <2>2, <2>3, <2>5, <2>6 DEF Down, SameLine
  <2> QED BY <2>1, <2>3, <2>5, <2>6, <2>7, DownCalm
<1>11. CASE HeartbeatTimeout
  BY <1>t, <1>11, ClosingCalm DEF HeartbeatTimeout, userVars
<1>12. ASSUME NEW s \in Sockets, Opens(s) PROVE Calm(link', sock', loggedIn')
  <2>1. /\ sock[s] = "connecting" /\ sock' = [sock EXCEPT ![s] = "open"] /\ loggedIn' = loggedIn
        /\ link' = [link EXCEPT !.timeout = FALSE, !.state = "CONNECTED", !.shown = TRUE,
                                !.attempts = 0, !.beat = TRUE]
    BY <1>12 DEF Opens, userVars
  <2>2. AliveIn(sock, s)
    BY <2>1 DEF AliveIn
  <2>3. /\ s = link.ws /\ ~ link.initial /\ ~ link.wait /\ link.checks = 0 /\ loggedIn
        /\ link.waits = 0 /\ link.timeouts = 0
    BY <1>t, <2>1, <2>2, CountersAre DEF Calm, NoneAlive
  <2>4. /\ ~ link'.timeout /\ link'.state = "CONNECTED" /\ link'.ws = link.ws
        /\ link'.initial = link.initial /\ link'.wait = link.wait /\ link'.checks = link.checks
        /\ link'.waits = link.waits /\ link'.timeouts = link.timeouts
    BY <1>t, <2>1 DEF Link
  <2>5. \A u \in Sockets : AliveIn(sock', u) => u = link.ws /\ sock'[u] = "open"
    BY <1>t, <2>1, <2>3 DEF Socks, AliveIn, Calm
  <2>6. loggedIn'
    BY <2>1, <2>3
  <2> QED BY ONLY <2>3, <2>4, <2>5, <2>6 DEF Calm
<1>13. ASSUME NEW s \in Sockets, Fails(s) PROVE Calm(link', sock', loggedIn')
  <2> DEFINE l == OnClose(OnError(link), FALSE)
  <2>1. Gone(s, l) /\ sock[s] # "none"
    BY <1>13 DEF Fails
  <2>2. OnError(link) \in Link /\ SameLine(link, OnError(link))
          /\ (link.state = "DISCONNECTED" => OnError(link).state = "DISCONNECTED")
    BY <1>t, OnErrorDoes
  <2>3. /\ l \in Link /\ SameLine(OnError(link), l) /\ ~ l.timeout
        /\ OnError(link).state = "DISCONNECTED" => l.state = "DISCONNECTED"
    BY <2>2, OnCloseDoes
  <2>4. SameLine(link, l)
    BY <2>2, <2>3 DEF SameLine
  <2> HIDE DEF l
  <2> QED BY <2>1, <2>2, <2>3, <2>4, GoneCalm
<1>14. ASSUME NEW s \in Sockets, Closes(s) \/ IsClosed(s) PROVE Calm(link', sock', loggedIn')
  <2>1. PICK final \in BOOLEAN, e \in {link, OnError(link)} :
          Gone(s, OnClose(e, final)) /\ sock[s] # "none"
    BY <1>14 DEF Closes, IsClosed, Ended
  <2>2. /\ e \in Link /\ SameLine(link, e)
        /\ link.state = "DISCONNECTED" => e.state = "DISCONNECTED"
    BY <1>t, OnErrorDoes DEF SameLine
  <2> DEFINE l == OnClose(e, final)
  <2>3. /\ l \in Link /\ SameLine(e, l) /\ ~ l.timeout
        /\ e.state = "DISCONNECTED" => l.state = "DISCONNECTED"
    BY <2>2, OnCloseDoes
  <2>4. SameLine(link, l)
    BY <2>2, <2>3 DEF SameLine
  <2>5. Gone(s, l) /\ sock[s] # "none"
    BY <2>1
  <2> HIDE DEF l
  <2> QED BY <2>2, <2>3, <2>4, <2>5, GoneCalm
<1>15. ASSUME NEW s \in Sockets, Dies(s) PROVE UNCHANGED <<link, sock, loggedIn>>
  BY <1>15 DEF Dies, userVars
<1> QED BY <1>r, <1>1, <1>2, <1>3, <1>4, <1>5, <1>6, <1>7, <1>8, <1>9, <1>10, <1>11, <1>12, <1>13, <1>14,
           <1>15 DEF Next

LEMMA LinkInit == Init => Typed /\ Calm(link, sock, loggedIn)
<1> SUFFICES ASSUME Init PROVE Typed /\ Calm(link, sock, loggedIn)
  OBVIOUS
<1>1. link \in Link /\ Watched
  BY MonitorLinkAssumption DEF Init, FreshLink, Link, States, Watched
<1>2. <<>> \in Seq(1 .. MaxInputs) /\ 0 \in 0 .. MaxInputs
  BY MonitorLinkAssumption
<1>3. TypeOK
  BY <1>1, <1>2 DEF Init, TypeOK
<1>4. Calm(link, sock, loggedIn)
  BY DEF Init, FreshLink, Calm, NoneAlive, AliveIn
<1> QED BY <1>1, <1>3, <1>4 DEF Typed

(* Output is not delivered twice: at most one socket is connecting or      *)
(* open, it is the current one and none is after a logout, whatever timers,*)
(* retries, failures and forced reconnects do in whichever order, unless   *)
(* one attempt was crossed by what belongs to another                      *)
(* (WebSocketService.ts:101-309, 528-575, 653-714).                        *)
THEOREM LinkAlwaysSound == Spec => []LinkSound
<1> DEFINE I == Typed /\ (crossed \/ Calm(link, sock, loggedIn))
<1>1. Init => I
  BY LinkInit
<1>2. I /\ [Next]_vars => I'
  BY TypedPreserved, CalmPreserved
<1>3. I => LinkSound
  <2> SUFFICES ASSUME I PROVE LinkSound
    OBVIOUS
  <2>1. ASSUME ~ crossed, NEW s \in Sockets, Alive(s)
        PROVE  s = link.ws /\ link.checks = 0 /\ loggedIn
    <3>1. Calm(link, sock, loggedIn) /\ AliveIn(sock, s) /\ link.checks \in Nat
      BY <2>1, CountersAre DEF Alive, AliveIn, Typed, TypeOK
    <3> QED BY <3>1 DEF Calm, NoneAlive
  <2> QED BY <2>1 DEF LinkSound, OneListener, Typed
<1> QED BY <1>1, <1>2, <1>3, PTL DEF Spec

(***************************************************************************)
(* Sequences of inputs                                                     *)
(***************************************************************************)
Rising(q) == \A i, j \in DOMAIN q : i < j => q[i] < q[j]

LEMMA RisingConcat ==
  ASSUME NEW a \in Seq(Nat), NEW b \in Seq(Nat)
  PROVE  Rising(a \o b) <=>
           Rising(a) /\ Rising(b) /\ \A i \in DOMAIN a, j \in DOMAIN b : a[i] < b[j]
<1> DEFINE c == a \o b
           n == Len(a)
<1>n. n \in Nat
  OBVIOUS
<1>a. ASSUME NEW i \in DOMAIN a PROVE i \in Nat /\ i <= n /\ i \in DOMAIN c /\ c[i] = a[i]
  OBVIOUS
<1>b. ASSUME NEW j \in DOMAIN b PROVE j \in Nat /\ j > 0 /\ n + j \in DOMAIN c /\ c[n + j] = b[j]
  <2>1. j \in 1 .. Len(b) /\ n + j \in 1 .. Len(c)
    OBVIOUS
  <2> QED BY <2>1
<1>c. ASSUME NEW k \in DOMAIN c
      PROVE  /\ k \in Nat
             /\ k \in DOMAIN a \/ (k > n /\ k - n \in DOMAIN b /\ c[k] = b[k - n])
  <2>1. k \in 1 .. Len(a) + Len(b)
    OBVIOUS
  <2>2. CASE k <= Len(a)
    BY <2>1, <2>2
  <2>3. CASE k > Len(a)
    <3>1. k \in Nat /\ k > n /\ k - n \in DOMAIN b /\ n + (k - n) = k
      BY <2>1, <2>3
    <3>2. c[n + (k - n)] = b[k - n]
      BY <1>b, <3>1
    <3> HIDE DEF c, n
    <3> QED BY <3>1, <3>2
  <2> QED BY <2>1, <2>2, <2>3
<1> HIDE DEF c, n
<1>2. ASSUME Rising(c)
      PROVE  Rising(a) /\ Rising(b) /\ \A i \in DOMAIN a, j \in DOMAIN b : a[i] < b[j]
  <2>1. Rising(a)
    BY <1>a, <1>2 DEF Rising
  <2>2. ASSUME NEW i \in DOMAIN b, NEW j \in DOMAIN b, i < j PROVE b[i] < b[j]
    <3>1. n + i < n + j
      BY <1>n, <1>b, <2>2
    <3> QED BY <1>b, <1>2, <3>1 DEF Rising
  <2>3. ASSUME NEW i \in DOMAIN a, NEW j \in DOMAIN b PROVE a[i] < b[j]
    <3>1. i < n + j
      <4>1. i \in Nat /\ i <= n /\ j \in Nat /\ j > 0
        BY <1>a, <1>b
      <4> QED BY <1>n, <4>1
    <3> QED BY <1>a, <1>b, <1>2, <3>1 DEF Rising
  <2> QED BY <2>1, <2>2, <2>3 DEF Rising
<1>3. ASSUME Rising(a), Rising(b), \A i \in DOMAIN a, j \in DOMAIN b : a[i] < b[j]
      PROVE  Rising(c)
  <2>1. ASSUME NEW i \in DOMAIN c, NEW j \in DOMAIN c, i < j PROVE c[i] < c[j]
    <3>1. CASE i \in DOMAIN a /\ j \in DOMAIN a
      BY <1>3, <1>a, <2>1, <3>1 DEF Rising
    <3>2. CASE i \in DOMAIN a /\ j \notin DOMAIN a
      BY <1>3, <1>a, <1>c, <3>2
    <3>3. CASE i \notin DOMAIN a
      <4>1. i \in Nat /\ j \in Nat /\ i > n /\ i - n \in DOMAIN b /\ c[i] = b[i - n]
        BY <1>c, <3>3
      <4>2. j \notin DOMAIN a
        <5>1. ASSUME j \in DOMAIN a PROVE FALSE
          BY <1>a, <1>n, <2>1, <4>1, <5>1
        <5> QED BY <5>1
      <4>3. j - n \in DOMAIN b /\ c[j] = b[j - n]
        BY <1>c, <4>2
      <4>4. i - n < j - n
        BY <1>n, <2>1, <4>1
      <4> QED BY <1>3, <4>1, <4>3, <4>4 DEF Rising
    <3> QED BY <3>1, <3>2, <3>3
  <2> QED BY <2>1 DEF Rising
<1> QED BY <1>2, <1>3 DEF c

LEMMA RisingAppend ==
  ASSUME NEW q \in Seq(Nat), NEW n \in Nat
  PROVE  /\ Append(q, n) \in Seq(Nat) /\ Inputs(Append(q, n)) = Inputs(q) \cup {n}
         /\ Rising(q) /\ (\A m \in Inputs(q) : m < n) => Rising(Append(q, n))
<1>1. /\ Append(q, n) \in Seq(Nat) /\ Len(q) \in Nat /\ DOMAIN q = 1 .. Len(q)
      /\ DOMAIN Append(q, n) = 1 .. Len(q) + 1 /\ Append(q, n)[Len(q) + 1] = n
      /\ \A i \in 1 .. Len(q) : Append(q, n)[i] = q[i]
  OBVIOUS
<1>2. Inputs(Append(q, n)) = Inputs(q) \cup {n}
  BY <1>1 DEF Inputs
<1>3. ASSUME Rising(q), \A m \in Inputs(q) : m < n PROVE Rising(Append(q, n))
  <2>1. \A i \in 1 .. Len(q) : q[i] < n
    BY <1>1, <1>3 DEF Inputs
  <2> QED BY <1>1, <1>3, <2>1 DEF Rising
<1> QED BY <1>1, <1>2, <1>3

LEMMA RisingTail ==
  ASSUME NEW q \in Seq(Nat), q # <<>>
  PROVE  /\ Tail(q) \in Seq(Nat) /\ Inputs(Tail(q)) \subseteq Inputs(q)
         /\ Rising(q) => Rising(Tail(q))
<1>1. /\ Tail(q) \in Seq(Nat) /\ Len(q) \in Nat /\ Len(q) > 0 /\ DOMAIN q = 1 .. Len(q)
      /\ DOMAIN Tail(q) = 1 .. Len(q) - 1 /\ \A i \in 1 .. Len(q) - 1 : Tail(q)[i] = q[i + 1]
  OBVIOUS
<1>2. Inputs(Tail(q)) \subseteq Inputs(q)
  BY <1>1 DEF Inputs
<1>3. Rising(q) => Rising(Tail(q))
  BY <1>1 DEF Rising
<1> QED BY <1>1, <1>2, <1>3

(***************************************************************************)
(* Nothing waits while the link is connected                               *)
(***************************************************************************)
ConnectedAt(l, f) == l.ws # NoSocket /\ f[l.ws] = "open" /\ l.state = "CONNECTED"

LEMMA ConnectSame ==
  ASSUME NEW l \in Link, NEW f \in Socks, NEW hasToken, Connect(l, f, hasToken)
  PROVE  \/ link' = l /\ sock' = f
         \/ link'.state # "CONNECTED"
<1>1. CASE AttemptConnection(l, f)
  BY <1>1, AttemptConnecting
<1>2. CASE link' = [l EXCEPT !.state = "ERROR"]
  BY <1>2 DEF Link
<1>3. CASE ~ Busy(l) /\ link' = [l EXCEPT !.wait = TRUE, !.waits = @ + Also(l.wait)]
  <2>1. link'.state = l.state
    BY <1>3 DEF Link
  <2> QED BY <1>3, <2>1 DEF Busy
<1> QED BY <1>1, <1>2, <1>3 DEF Connect, Becomes

(* Only the handler of a socket that opens makes a link connected.         *)
LEMMA ConnectedByOpening ==
  ASSUME Typed, [Next]_vars, ConnectedAt(link', sock'), \A s \in Sockets : ~ Opens(s)
  PROVE  ConnectedAt(link, sock)
<1>t. link \in Link /\ sock \in Socks /\ link.ws \in Sockets \cup {NoSocket} /\ Typed'
  BY TypedPreserved DEF Typed, TypeOK, Socks, Link
<1>u. link' \in Link /\ link'.ws \in Sockets /\ sock' \in Socks
  BY <1>t DEF Typed, TypeOK, Socks, Link, ConnectedAt
<1>1. CASE UNCHANGED <<link, sock>>
  BY <1>1 DEF ConnectedAt
<1>2. CASE Login
  BY <1>t, <1>2, ConnectSame DEF Login, ConnectedAt
<1>3. CASE Logout
  <2>1. link' = [link EXCEPT !.state = "DISCONNECTED", !.ws = NoSocket, !.beat = FALSE,
                             !.retry = FALSE, !.timeout = FALSE, !.wait = FALSE]
    BY <1>3 DEF Logout
  <2>2. link'.ws = NoSocket
    BY <1>t, <2>1 DEF Link
  <2> QED BY <2>2 DEF ConnectedAt
<1>4. CASE ForceReconnect
  <2> DEFINE l == [link EXCEPT !.attempts = 0]
             f == Closing(sock, link.ws)
  <2>1. Connect(l, f, token)
    BY <1>4 DEF ForceReconnect
  <2>2. l \in Link /\ l.ws = link.ws /\ l.state = link.state
    <3>1. 0 \in 0 .. MaxAttempts
      BY <1>t, CountersAre
    <3> QED BY <1>t, <3>1 DEF Link
  <2>3. f \in Socks /\ \A u \in Sockets : f[u] = "open" => sock[u] = "open"
    BY <1>t, ClosingDoes
  <2> HIDE DEF l, f
  <2>4. link' = l /\ sock' = f
    BY <2>1, <2>2, <2>3, ConnectSame DEF ConnectedAt
  <2> QED BY <1>u, <2>2, <2>3, <2>4 DEF ConnectedAt
<1>5. CASE Reload
  BY <1>5 DEF Reload, FreshLink, ConnectedAt
<1>6. CASE WaitEnds
  <2>1. PICK l \in Link : AttemptConnection(l, sock)
    BY <1>t, <1>6, WaitTakes
  <2>2. link'.state \in {"CONNECTING", "ERROR"}
    BY <1>t, <2>1, AttemptConnecting
  <2> QED BY <2>2 DEF ConnectedAt
<1>7. CASE Checked
  <2> DEFINE l == [link EXCEPT !.checks = @ - 1]
  <2>1. OpenSocket(l, sock) /\ link.checks > 0
    BY <1>7 DEF Checked
  <2>2. link.checks - 1 \in Nat
    BY <1>t, <2>1, CountersAre
  <2>3. l \in Link
    BY <1>t, <2>2, CountersSet
  <2> HIDE DEF l
  <2>4. CASE Threw(l, sock)
    BY <2>3, <2>4, FailedDoes DEF Threw, ConnectedAt
  <2>5. CASE ~ Threw(l, sock)
    <3>1. PICK s \in Sockets : sock' = [sock EXCEPT ![s] = "connecting"] /\ link'.ws = s
      BY <1>t, <2>1, <2>3, <2>5, OpenSocketDoes
    <3>2. sock'[s] = "connecting"
      BY <1>t, <3>1 DEF Socks
    <3> QED BY <3>1, <3>2 DEF ConnectedAt
  <2> QED BY <2>4, <2>5
<1>8. CASE CheckFails
  <2> DEFINE l == [link EXCEPT !.checks = @ - 1]
  <2>1. link' = Failed(l) /\ link.checks > 0
    BY <1>8 DEF CheckFails
  <2>2. link.checks - 1 \in Nat
    BY <1>t, <2>1, CountersAre
  <2>3. l \in Link
    BY <1>t, <2>2, CountersSet
  <2> HIDE DEF l
  <2> QED BY <2>1, <2>3, FailedDoes DEF ConnectedAt
<1>9. CASE RetryFires
  <2>1. PICK l \in Link : RetryWith(l) /\ l.ws = link.ws /\ l.state = link.state
    BY <1>t, <1>9, RetryTakes
  <2>2. link' = l /\ sock' = sock
    BY <1>t, <2>1, ConnectSame DEF RetryWith, Becomes, ConnectedAt
  <2> QED BY <2>1, <2>2 DEF ConnectedAt
<1>10. CASE TimeoutFires
  <2>1. PICK l \in Link : TimeoutWith(l) /\ l.ws = link.ws /\ l.state = link.state
    BY <1>t, <1>10, TimeoutTakes
  <2>2. link' = l /\ sock' = sock
    BY <2>1, FailedDoes DEF TimeoutWith, ConnectedAt
  <2> QED BY <2>1, <2>2 DEF ConnectedAt
<1>11. CASE HeartbeatTimeout
  <2>1. link' = link /\ sock' = Closing(sock, link.ws)
    BY <1>11 DEF HeartbeatTimeout
  <2>2. \A u \in Sockets : sock'[u] = "open" => sock[u] = "open"
    BY <1>t, <2>1, ClosingDoes
  <2> QED BY <1>u, <2>1, <2>2 DEF ConnectedAt
<1>12. ASSUME NEW s \in Sockets, Fails(s) \/ Closes(s) \/ IsClosed(s) PROVE FALSE
  <2>1. PICK l \in Link, final \in BOOLEAN : link' = OnClose(l, final)
    BY <1>t, <1>12, OnErrorDoes DEF Fails, Closes, IsClosed, Ended, Gone
  <2> QED BY <2>1, OnCloseDoes DEF ConnectedAt
<1>13. CASE Expire \/ SendInput \/ (\E s \in Sockets : Dies(s)) \/ UNCHANGED vars
  <2>1. UNCHANGED <<link, sock>>
    BY <1>13 DEF Expire, SendInput, Dies, vars
  <2> QED BY <1>1, <2>1
<1> QED BY <1>2, <1>3, <1>4, <1>5, <1>6, <1>7, <1>8, <1>9, <1>10, <1>11, <1>12, <1>13 DEF Next

(* What was sent and what waits, in this order, is what was given.         *)
Outgoing ==
  /\ Rising(sent \o queue) /\ Len(queue) <= QueueCap
  /\ \A n \in Inputs(sent) \cup Inputs(queue) : n <= issued
  /\ ConnectedAt(link, sock) => queue = <<>>

LEMMA NumbersAre ==
  ASSUME Typed
  PROVE  queue \in Seq(Nat) /\ sent \in Seq(Nat) /\ issued \in Nat /\ link \in Link /\ sock \in Socks
<1>1. 1 .. MaxInputs \subseteq Nat /\ 0 .. MaxInputs \subseteq Nat
  BY MonitorLinkAssumption
<1>2. ASSUME NEW S \in SUBSET Nat, NEW q \in Seq(S) PROVE q \in Seq(Nat)
  BY SeqMonotonic
<1>3. queue \in Seq(1 .. MaxInputs) /\ sent \in Seq(1 .. MaxInputs) /\ issued \in 0 .. MaxInputs
  BY DEF Typed, TypeOK
<1>4. queue \in Seq(Nat) /\ sent \in Seq(Nat)
  <2>1. PICK S \in SUBSET Nat : S = 1 .. MaxInputs
    BY <1>1
  <2>2. queue \in Seq(S) /\ sent \in Seq(S)
    BY <1>3, <2>1
  <2> QED BY <1>2, <2>2, Zenon
<1> QED BY <1>1, <1>3, <1>4 DEF Typed, TypeOK, Socks

LEMMA EmptyRises ==
  /\ \A q \in Seq(Nat) : q \o <<>> = q
  /\ Inputs(<<>>) = {} /\ Len(<<>>) = 0
BY DEF Inputs

LEMMA LongerByOne ==
  ASSUME NEW q \in Seq(Nat), NEW n \in Nat
  PROVE  Append(q, n) # <<>> /\ Len(Append(q, n)) = Len(q) + 1 /\ Len(q) \in Nat
<1>1. Len(Append(q, n)) = Len(q) + 1 /\ Len(q) \in Nat
  OBVIOUS
<1>2. Len(Append(q, n)) # 0
  BY <1>1
<1>3. Append(q, n) # <<>>
  BY <1>2, EmptyRises
<1> QED BY <1>1, <1>3

LEMMA InputsConcat ==
  ASSUME NEW a \in Seq(Nat), NEW b \in Seq(Nat)
  PROVE  Inputs(a \o b) = Inputs(a) \cup Inputs(b)
<1> DEFINE c == a \o b
<1>1. \A i \in DOMAIN a : i \in DOMAIN c /\ c[i] = a[i]
  OBVIOUS
<1>2. ASSUME NEW j \in DOMAIN b PROVE Len(a) + j \in DOMAIN c /\ c[Len(a) + j] = b[j]
  <2>1. j \in 1 .. Len(b) /\ Len(a) + j \in 1 .. Len(c)
    OBVIOUS
  <2> QED BY <2>1
<1>3. ASSUME NEW k \in DOMAIN c
      PROVE  c[k] \in Inputs(a) \cup Inputs(b)
  <2>1. k \in 1 .. Len(a) + Len(b)
    OBVIOUS
  <2>2. CASE k <= Len(a)
    <3>1. k \in DOMAIN a
      BY <2>1, <2>2
    <3> QED BY <1>1, <3>1 DEF Inputs
  <2>3. CASE k > Len(a)
    <3>1. k - Len(a) \in DOMAIN b /\ Len(a) + (k - Len(a)) = k
      BY <2>1, <2>3
    <3>2. c[k] = b[k - Len(a)]
      BY <1>2, <3>1
    <3> HIDE DEF c
    <3> QED BY <3>1, <3>2 DEF Inputs
  <2> QED BY <2>1, <2>2, <2>3
<1> HIDE DEF c
<1>4. Inputs(c) \subseteq Inputs(a) \cup Inputs(b)
  BY <1>3 DEF Inputs
<1>5. Inputs(a) \cup Inputs(b) \subseteq Inputs(c)
  BY <1>1, <1>2 DEF Inputs
<1> QED BY <1>4, <1>5 DEF c

(* The queue leaves, in order, or is thrown away.                          *)
LEMMA QueueEnds ==
  ASSUME Typed, Outgoing, queue' = <<>>, sent' \in {sent, sent \o queue}, issued' = issued
  PROVE  /\ Outgoing'
         /\ sent' = sent \o queue => Kept
<1>1. queue \in Seq(Nat) /\ sent \in Seq(Nat) /\ issued \in Nat
  BY NumbersAre
<1>2. sent \o queue \in Seq(Nat) /\ sent' \in Seq(Nat) /\ sent' \o queue' = sent'
  <2>1. sent \o queue \in Seq(Nat)
    BY <1>1
  <2> QED BY <1>1, <2>1, EmptyRises
<1>3. Rising(sent)
  BY <1>1, RisingConcat DEF Outgoing
<1>4. Inputs(sent \o queue) = Inputs(sent) \cup Inputs(queue)
  BY <1>1, InputsConcat
<1>5. Inputs(sent') \subseteq Inputs(sent) \cup Inputs(queue) /\ Inputs(queue') = {}
  BY <1>4, EmptyRises
<1>6. Rising(sent' \o queue')
  BY <1>2, <1>3 DEF Outgoing
<1>7. Len(queue') <= QueueCap
  BY EmptyRises, MonitorLinkAssumption
<1>8. \A n \in Inputs(sent') \cup Inputs(queue') : n <= issued'
  BY <1>5 DEF Outgoing
<1>9. (issued + 1) .. issued' = {}
  BY <1>1
<1> QED BY <1>4, <1>6, <1>7, <1>8, <1>9 DEF Outgoing, Kept

LEMMA SendKeeps ==
  ASSUME Typed, Outgoing, SendInput
  PROVE  /\ Outgoing'
         /\ (Len(queue) = QueueCap /\ issued' # issued) \/ Kept
<1> DEFINE n == issued + 1
           q == Append(queue, n)
<1>1. queue \in Seq(Nat) /\ sent \in Seq(Nat) /\ issued \in Nat /\ n \in Nat
  BY NumbersAre
<1>2. /\ issued' = n /\ link' = link /\ sock' = sock
      /\ \/ IsConnected /\ sent' = Append(sent, n) /\ queue' = queue
         \/ ~ IsConnected /\ queue' = (IF Len(q) > QueueCap THEN Tail(q) ELSE q) /\ sent' = sent
  BY DEF SendInput
<1>3. IsConnected <=> ConnectedAt(link, sock)
  BY DEF IsConnected, Open, ConnectedAt
<1>4. /\ Rising(sent) /\ Rising(queue)
      /\ \A i \in DOMAIN sent, j \in DOMAIN queue : sent[i] < queue[j]
  BY <1>1, RisingConcat DEF Outgoing
<1>5. \A m \in Inputs(sent) \cup Inputs(queue) : m \in Nat /\ m < n
  <2>1. \A m \in Inputs(sent) \cup Inputs(queue) : m \in Nat
    BY <1>1 DEF Inputs
  <2> QED BY <1>1, <2>1 DEF Outgoing
<1>6. (issued + 1) .. issued' = {n}
  BY <1>1, <1>2
<1>7. \A m \in Inputs(sent) \cup Inputs(queue) \cup {n} : m <= n
  BY <1>1, <1>5
<1> HIDE DEF n
<1>8. CASE IsConnected
  <2>1. queue = <<>> /\ queue' = <<>> /\ sent' = Append(sent, n)
    BY <1>2, <1>3, <1>8 DEF Outgoing
  <2>2. sent' \in Seq(Nat) /\ Inputs(sent') = Inputs(sent) \cup {n} /\ Rising(sent')
    BY <1>1, <1>4, <1>5, <2>1, RisingAppend
  <2>3. sent' \o queue' = sent' /\ Inputs(queue') = {} /\ Len(queue') = 0 /\ Inputs(queue) = {}
    BY <2>1, <2>2, EmptyRises
  <2>4. Outgoing'
    BY <1>2, <1>7, <2>1, <2>2, <2>3, MonitorLinkAssumption DEF Outgoing
  <2> QED BY <1>6, <2>2, <2>3, <2>4 DEF Kept
<1>9. CASE ~ IsConnected
  <2>1. q \in Seq(Nat) /\ Inputs(q) = Inputs(queue) \cup {n} /\ Rising(q) /\ q # <<>>
        /\ Len(q) = Len(queue) + 1 /\ Len(queue) \in Nat
    <3>1. q \in Seq(Nat) /\ Inputs(q) = Inputs(queue) \cup {n}
      BY <1>1, RisingAppend
    <3>2. Rising(q)
      BY <1>1, <1>4, <1>5, RisingAppend
    <3>3. q # <<>> /\ Len(q) = Len(queue) + 1 /\ Len(queue) \in Nat
      BY <1>1, LongerByOne
    <3> QED BY <3>1, <3>2, <3>3
  <2>2. Tail(q) \in Seq(Nat) /\ Inputs(Tail(q)) \subseteq Inputs(q) /\ Rising(Tail(q)) /\ Len(Tail(q)) = Len(q) - 1
    <3> HIDE DEF q
    <3>1. Tail(q) \in Seq(Nat) /\ Inputs(Tail(q)) \subseteq Inputs(q) /\ Rising(Tail(q))
      BY <2>1, RisingTail
    <3>2. Len(Tail(q)) = Len(q) - 1
      BY <2>1
    <3> QED BY <3>1, <3>2
  <2> HIDE DEF q
  <2>3. queue' \in Seq(Nat) /\ Inputs(queue') \subseteq Inputs(queue) \cup {n} /\ Rising(queue')
    BY <1>2, <1>9, <2>1, <2>2
  <2>4. Len(queue') <= QueueCap
    <3>1. Len(queue) <= QueueCap
      BY DEF Outgoing
    <3> QED BY <1>2, <1>9, <2>1, <2>2, <3>1, MonitorLinkAssumption
  <2>5. \A i \in DOMAIN sent, j \in DOMAIN queue' : sent[i] < queue'[j]
    <3>1. ASSUME NEW i \in DOMAIN sent, NEW m \in Inputs(queue) \cup {n} PROVE sent[i] < m
      <4>1. sent[i] \in Inputs(sent)
        BY DEF Inputs
      <4>2. CASE m = n
        BY <1>5, <4>1, <4>2
      <4>3. CASE m \in Inputs(queue)
        BY <1>4, <4>3 DEF Inputs
      <4> QED BY <4>2, <4>3
    <3>2. \A j \in DOMAIN queue' : queue'[j] \in Inputs(queue) \cup {n}
      BY <2>3 DEF Inputs
    <3> QED BY <3>1, <3>2
  <2>6. Rising(sent' \o queue')
    BY <1>1, <1>2, <1>4, <1>9, <2>3, <2>5, RisingConcat
  <2>7. Outgoing'
    BY <1>2, <1>3, <1>7, <1>9, <2>3, <2>4, <2>6 DEF Outgoing
  <2>8. CASE Len(queue) = QueueCap
    <3>1. issued' # issued
      BY <1>1, <1>2 DEF n
    <3> QED BY <2>7, <2>8, <3>1
  <2>9. CASE Len(queue) # QueueCap
    <3>1. queue' = q
      BY <1>2, <1>9, <2>1, <2>9, MonitorLinkAssumption DEF Outgoing
    <3> QED BY <1>6, <2>1, <2>7, <3>1 DEF Kept
  <2> QED BY <2>8, <2>9
<1> QED BY <1>8, <1>9

LEMMA OutgoingPreserved ==
  ASSUME Typed, crossed \/ Calm(link, sock, loggedIn), Outgoing, [Next]_vars
  PROVE  /\ Outgoing'
         /\ crossed \/ Logout \/ (Len(queue) = QueueCap /\ issued' # issued) \/ Kept
<1>1. CASE Logout
  <2>1. queue' = <<>> /\ sent' = sent /\ issued' = issued
    BY <1>1 DEF Logout
  <2> QED BY <1>1, <2>1, QueueEnds
<1>2. CASE SendInput
  BY <1>2, SendKeeps
<1>3. ASSUME NEW s \in Sockets, Opens(s)
      PROVE  Outgoing' /\ (crossed \/ Kept)
  <2>1. /\ queue' = <<>> /\ issued' = issued /\ sock[s] = "connecting"
        /\ sock' = [sock EXCEPT ![s] = "open"]
        /\ sent' = IF link.ws # NoSocket /\ sock'[link.ws] = "open" THEN sent \o queue ELSE sent
    BY <1>3 DEF Opens
  <2>2. Outgoing' /\ (sent' = sent \o queue => Kept)
    BY <2>1, QueueEnds
  <2>3. ASSUME ~ crossed PROVE sent' = sent \o queue
    <3>1. s = link.ws /\ s # NoSocket
      BY <2>1, <2>3, MonitorLinkAssumption DEF Calm, AliveIn
    <3>2. sock'[s] = "open"
      BY <2>1, NumbersAre DEF Socks
    <3> QED BY <2>1, <3>1, <3>2
  <2> QED BY <2>2, <2>3
<1>4. CASE UNCHANGED inputVars /\ \A s \in Sockets : ~ Opens(s)
  <2>1. queue' = queue /\ issued' = issued /\ sent' = sent
    BY <1>4 DEF inputVars
  <2>2. ConnectedAt(link', sock') => ConnectedAt(link, sock)
    BY <1>4, ConnectedByOpening
  <2>3. (issued + 1) .. issued' = {}
    BY <2>1, NumbersAre
  <2> QED BY <2>1, <2>2, <2>3 DEF Outgoing, Kept
<1>5. ASSUME ~ Logout, ~ SendInput, \A s \in Sockets : ~ Opens(s) PROVE UNCHANGED inputVars
  <2>1. CASE Login \/ Expire \/ ForceReconnect \/ Reload \/ WaitEnds \/ Checked \/ CheckFails
               \/ RetryFires \/ TimeoutFires \/ HeartbeatTimeout
    BY <2>1 DEF Login, Expire, ForceReconnect, Reload, WaitEnds, Checked, CheckFails, RetryFires,
             TimeoutFires, HeartbeatTimeout
  <2>2. ASSUME NEW s \in Sockets, Fails(s) \/ Closes(s) \/ IsClosed(s) \/ Dies(s)
        PROVE  UNCHANGED inputVars
    BY <2>2 DEF Fails, Closes, IsClosed, Dies, Ended, Gone
  <2>3. CASE UNCHANGED vars
    BY <2>3 DEF vars
  <2> QED BY <1>5, <2>1, <2>2, <2>3 DEF Next
<1> QED BY <1>1, <1>2, <1>3, <1>4, <1>5

(* Input given to the monitor goes out in the order it was given and at    *)
(* most once, across reconnects, logins and reloads, and unless attempts   *)
(* were crossed it is thrown away only by a logout or by a full queue      *)
(* (WebSocketService.ts:217-229, 577-611, 653-693; MessageQueue.ts:22-95). *)
THEOREM InputAlwaysKept == Spec => InputKept
<1> DEFINE I == Typed /\ (crossed \/ Calm(link, sock, loggedIn)) /\ Outgoing
<1>1. Init => I
  <2> SUFFICES ASSUME Init PROVE Outgoing
    BY LinkInit
  <2>1. sent \o queue = <<>> /\ Inputs(sent) = {} /\ Inputs(queue) = {} /\ Len(queue) = 0 /\ queue = <<>>
    BY DEF Init, Inputs
  <2>2. Rising(<<>>)
    BY DEF Rising
  <2> QED BY <2>1, <2>2, MonitorLinkAssumption DEF Outgoing
<1>2. I /\ [Next]_vars => I'
  BY TypedPreserved, CalmPreserved, OutgoingPreserved
<1>3. I /\ I' /\ [Next]_vars =>
        [/\ InOrder'
         /\ crossed \/ Logout \/ (Len(queue) = QueueCap /\ issued' # issued) \/ Kept]_vars
  <2>1. Outgoing' => InOrder'
    BY DEF Outgoing, InOrder, Rising
  <2> QED BY <2>1, OutgoingPreserved
<1> QED BY <1>1, <1>2, <1>3, PTL DEF Spec, InputKept
=============================================================================
