---- MODULE TeamMonitor ----
(***************************************************************************)
(* The agent monitor (agent-monitor/src/team-orchestrator.ts): one process *)
(* that supervises a team of AI agents, each in a terminal.  It is single  *)
(* threaded, so a step runs from one await to the next; every handler that *)
(* is suspended at an await is a flight, and other steps run before it     *)
(* goes on with what it had read.                                          *)
(*                                                                         *)
(* Time is left open: whether an agent has been silent for longer than a   *)
(* threshold, or a throttle has expired, is a free choice.                 *)
(***************************************************************************)
EXTENDS Naturals, FiniteSets

CONSTANTS Agent,          \* teamConfig.agents
          Coordinator,    \* the agent with the role Project Coordinator
          Architect,      \* the System Architect
          EarlyRoles,     \* agents whose role tends to complete early
          Finishers,      \* bounds who says that its tasks are done
          Slot,           \* bounds the handlers suspended at an await
          Echo,           \* ChatHub sends a channel's messages to their sender too
          NoOne

ASSUME TeamAssumption ==
  /\ IsFiniteSet(Agent) /\ Cardinality(Agent) >= 2
  /\ {Coordinator, Architect} \subseteq Agent
  /\ EarlyRoles \subseteq Agent /\ Finishers \subseteq Agent
  /\ Echo \in BOOLEAN
  /\ NoOne \notin Agent

VARIABLES phase,          \* off, start, kickoff, listen, resume, run
          closing,        \* cleanup has begun: no, early (startup unfinished) or clean
          todo,           \* agents startTeam or resumeTeam has yet to see to
          team,           \* keys of agentInstances
          status, done, verified,   \* status, tasksCompleted, completionVerified
          tasksKnown,     \* pendingTasksReported
          pending,        \* keys of pendingVerifications
          paused,         \* isPaused
          notice,         \* a paused notice of the monitor's own is on its way back
          flight,         \* handlers suspended at an await
          disk,           \* session-data.json
          loaded,         \* what resumeTeam has read of it
          asked,          \* agents the coordinator was asked about (history)
          reasked         \* asked about while a question was unsettled (history)

lifeVars  == <<phase, closing, todo, disk, loaded>>
agentVars == <<team, status, done, verified>>
hubVars   == <<tasksKnown, paused, notice>>
askVars   == <<pending, asked, reasked>>
teamVars  == <<lifeVars, agentVars, hubVars, askVars, flight>>

(* "initializing" stands for "connecting" too: nothing tells them apart.    *)
Status == {"initializing", "idle", "busy", "error"}
Free   == [kind |-> "free", step |-> "free", at |-> NoOne, todo |-> {}]

(* The awaits of a handler at which a prompt is on its way to a terminal.  *)
PromptSteps == {"verify", "activate", "askDone", "nudge", "wake", "prompt",
                "force", "confirm", "assign"}
Flight == [kind : {"free", "check", "beat", "tasks", "one", "reply"},
           step : PromptSteps \cup {"free", "look", "settle"},
           at   : Agent \cup {NoOne},
           todo : SUBSET Agent]
Session   == [team : SUBSET Agent, done : SUBSET Agent, verified : SUBSET Agent]
NoSession == [team |-> {}, done |-> {}, verified |-> {}]

TeamTypeOK ==
  /\ phase \in {"off", "start", "kickoff", "listen", "resume", "run"}
  /\ closing \in {"no", "early", "clean"}
  /\ todo \subseteq Agent /\ team \subseteq Agent
  /\ status \in [Agent -> Status]
  /\ done \subseteq Agent /\ verified \subseteq Agent
  /\ tasksKnown \in BOOLEAN /\ paused \in BOOLEAN /\ notice \in BOOLEAN
  /\ pending \subseteq Agent /\ asked \subseteq Agent /\ reasked \subseteq Agent
  /\ flight \in [Slot -> Flight]
  /\ disk \in Session /\ loaded \in Session

(***************************************************************************)
(* Flights                                                                 *)
(***************************************************************************)
Awaits(s, k, st, a, T) ==
  flight' = [flight EXCEPT ![s] = [kind |-> k, step |-> st, at |-> a, todo |-> T]]
Start(k, st, a) == \E s \in Slot : flight[s] = Free /\ Awaits(s, k, st, a, {})
Ends(s)         == flight' = [flight EXCEPT ![s] = Free]
In(s, k, st) == flight[s].kind = k /\ flight[s].step = st
Is(a, st)    == status' = [status EXCEPT ![a] = st]

Supervised == phase # "off"
(* setupTerminalMonitoring has registered the handlers of the terminals.   *)
Listening == phase \in {"listen", "run"}

(***************************************************************************)
(* Starting, resuming and ending                                           *)
(***************************************************************************)
Forgotten ==
  /\ team' = {} /\ status' = [a \in Agent |-> "initializing"]
  /\ done' = {} /\ verified' = {}
  /\ tasksKnown' = FALSE /\ paused' = FALSE /\ notice' = FALSE
  /\ pending' = {}
  /\ flight' = [s \in Slot |-> Free]
  /\ todo' = {} /\ closing' = "no" /\ loaded' = NoSession

StartTeam ==
  /\ phase = "off"
  /\ phase' = "start" /\ todo' = Agent
  /\ UNCHANGED <<closing, disk, loaded, agentVars, hubVars, askVars, flight>>

(* An agent of provisionAgents or of a resume that begins anew.  A         *)
(* terminal that cannot be had fails the start: cleanup, and exit.         *)
SetUp(a) ==
  /\ a \in todo
  /\ todo' = todo \ {a} /\ team' = team \cup {a}
  /\ Is(a, "initializing") /\ done' = done \ {a} /\ verified' = verified \ {a}
  /\ UNCHANGED <<phase, closing, disk, loaded, hubVars, askVars, flight>>
SetupAgent(a) == phase = "start" /\ SetUp(a)

Provisioned ==
  /\ phase = "start" /\ todo = {}
  /\ phase' = "kickoff" /\ todo' = team
  /\ UNCHANGED <<closing, disk, loaded, agentVars, hubVars, askVars, flight>>

(* sendKickoffPrompts, one agent: a prompt that fails leaves its status.   *)
Kickoff(a, sent) ==
  /\ phase = "kickoff" /\ a \in todo /\ todo' = todo \ {a}
  /\ IF sent THEN Is(a, "initializing") ELSE UNCHANGED status
  /\ UNCHANGED <<phase, closing, disk, loaded, team, done, verified, hubVars, askVars, flight>>

(* setupTerminalMonitoring; the notification of the start is awaited.      *)
Listens ==
  /\ phase = "kickoff" /\ todo = {}
  /\ phase' = "listen"
  /\ UNCHANGED <<closing, todo, disk, loaded, agentVars, hubVars, askVars, flight>>

(* The timers start and the session is saved, without a look at whether    *)
(* cleanup has begun meanwhile.                                            *)
Snapshot == [team |-> team, done |-> done, verified |-> verified]
StartDone ==
  /\ phase = "listen"
  /\ phase' = "run" /\ disk' = Snapshot
  /\ UNCHANGED <<closing, todo, loaded, agentVars, hubVars, askVars, flight>>

(* The saves begin before the resume has seen to every agent.              *)
MutSaveSession ==
  /\ phase \in {"resume", "run"} /\ closing # "clean" /\ disk # Snapshot
  /\ disk' = Snapshot
  /\ UNCHANGED <<phase, closing, todo, loaded, agentVars, hubVars, askVars, flight>>
(* Every 60 seconds, until cleanup clears the interval.                    *)
SaveSession ==
  /\ phase = "run" /\ closing # "clean" /\ disk # Snapshot
  /\ disk' = Snapshot
  /\ UNCHANGED <<phase, closing, todo, loaded, agentVars, hubVars, askVars, flight>>

ResumeTeam ==
  /\ phase = "off" /\ disk # NoSession
  /\ phase' = "resume" /\ todo' = disk.team /\ loaded' = disk
  /\ UNCHANGED <<closing, disk, agentVars, hubVars, askVars, flight>>

(* The terminal of a saved agent still exists.  A status is as old as the  *)
(* save: what a resume finds of it is left open.                           *)
RestoreAgent(a, st) ==
  /\ phase = "resume" /\ a \in todo
  /\ todo' = todo \ {a} /\ team' = team \cup {a} /\ Is(a, st)
  /\ done' = (done \ {a}) \cup (loaded.done \cap {a})
  /\ verified' = (verified \ {a}) \cup (loaded.verified \cap {a})
  /\ UNCHANGED <<phase, closing, disk, loaded, hubVars, askVars, flight>>

(* It does not: another one is made, and the agent starts over.            *)
RecreateAgent(a) == phase = "resume" /\ SetUp(a)

(* Neither worked: the agent is counted as failed and left out.            *)
LoseAgent(a) ==
  /\ phase = "resume" /\ a \in todo
  /\ todo' = todo \ {a}
  /\ UNCHANGED <<phase, closing, disk, loaded, agentVars, hubVars, askVars, flight>>

(* The flag of the tasks is saved with the session.  Monitoring and the    *)
(* timers start at once; what is awaited after them may still fail, and    *)
(* then cleanup follows.                                                   *)
ResumeDone(known) ==
  /\ phase = "resume" /\ todo = {}
  /\ phase' = "run" /\ tasksKnown' = known /\ loaded' = NoSession
  /\ UNCHANGED <<closing, todo, disk, agentVars, paused, notice, askVars, flight>>

(* cleanup, up to its first await: the timers stop and the session goes.   *)
(* Each interrupt (SIGINT) and a start or a resume that failed bring it    *)
(* about; an interrupted start or resume is not told and goes on.          *)
Cleanup ==
  /\ Supervised
  /\ closing' = IF phase = "run" THEN "clean" ELSE "early"
  /\ disk' = NoSession
  /\ UNCHANGED <<phase, todo, loaded, agentVars, hubVars, askVars, flight>>

Exit ==
  /\ closing # "no"
  /\ phase' = "off" /\ Forgotten
  /\ UNCHANGED <<disk, asked, reasked>>

Crash ==
  /\ Supervised /\ closing = "no"
  /\ phase' = "off" /\ Forgotten
  /\ UNCHANGED <<disk, asked, reasked>>

(***************************************************************************)
(* checkAndPromptIdleAgents, every 30 seconds and after a resume command.  *)
(*                                                                         *)
(* A loop over the agents runs without a pause to the next await.  T are   *)
(* the agents left, st their status so far: of those neither in error nor  *)
(* verified some, Q, have been silent and are idle from now on; the loop   *)
(* ends, or stops at the first of them that is due to be asked.            *)
(***************************************************************************)
MayBeComplete(a) == a \in done \cup EarlyRoles

(* An agent that is verified is left alone for good.                       *)
MutEligible(T, st) == {a \in T : st[a] # "error"}
Eligible(T, st)    == {a \in T : st[a] # "error" /\ a \notin verified}

(* The coordinator has been asked about an agent, or has answered with      *)
(* tasks that are on their way to it.                                      *)
Concerns(t, a) == flight[t].step \in {"verify", "assign"} /\ flight[t].at = a
Unsettled(a)   == a \in pending \/ \E t \in Slot : Concerns(t, a)

(* verifyAgentCompletion, up to its prompt.                                *)
Asks(s, a, rest) ==
  /\ Awaits(s, "check", "verify", a, rest) /\ asked' = asked \cup {a}
  /\ reasked' = IF Unsettled(a) THEN reasked \cup {a} ELSE reasked

CheckWalk(s, T, st) ==
  \E Q \in SUBSET Eligible(T, st) :
    LET now == [a \in Agent |-> IF a \in Q THEN "idle" ELSE st[a]] IN
    /\ status' = now
    /\ \/ Ends(s) /\ UNCHANGED <<asked, reasked>>
       \/ \E a \in Q, rest \in SUBSET (T \ Q) :
            \/ ~MayBeComplete(a) /\ Awaits(s, "check", "look", a, rest) /\ UNCHANGED <<asked, reasked>>
            \/ /\ MayBeComplete(a) /\ Coordinator \in team /\ now[Coordinator] # "error"
               /\ Asks(s, a, rest)

BeginCheck(s) ==
  /\ phase = "run" /\ closing # "clean" /\ ~paused /\ flight[s] = Free
  /\ CheckWalk(s, team, status)
  /\ UNCHANGED <<lifeVars, team, done, verified, hubVars, pending>>

(* The check that a resume command set off two seconds ago: no interval,   *)
(* so cleanup does not stop it.                                            *)
Recheck(s) ==
  /\ In(s, "check", "settle")
  /\ IF paused THEN Ends(s) /\ UNCHANGED <<status, asked, reasked>> ELSE CheckWalk(s, team, status)
  /\ UNCHANGED <<lifeVars, team, done, verified, hubVars, pending>>

(* checkForPendingRequests answered.                                       *)
Looked(s, requests) ==
  /\ In(s, "check", "look")
  /\ Awaits(s, "check", IF requests THEN "activate" ELSE "askDone", flight[s].at, flight[s].todo)
  /\ UNCHANGED <<lifeVars, agentVars, hubVars, askVars>>

(* The prompt is out, or failed: verifyAgentCompletion and                  *)
(* checkIfAgentIsDone heed a failure, activateAgentForRequests hides it.    *)
CheckPrompted(s, sent) ==
  LET f == flight[s]
      prompted == IF f.step = "verify" THEN Coordinator ELSE f.at
      went == sent \/ f.step = "activate" IN
  /\ f.kind = "check" /\ f.step \in {"verify", "activate", "askDone"}
  /\ CheckWalk(s, f.todo, IF went THEN [status EXCEPT ![prompted] = "busy"] ELSE status)
  /\ pending' = IF f.step = "verify" /\ sent THEN pending \cup {f.at} ELSE pending
  /\ UNCHANGED <<lifeVars, team, done, verified, hubVars>>

(***************************************************************************)
(* performHeartbeatCheck: of the agents left some, E, have been silent for  *)
(* so long that they are given up; an idle one may be due for a nudge, any  *)
(* for an attempt to wake it.  The poll of the status every tenth beat      *)
(* changes nothing that is modelled.                                       *)
(***************************************************************************)
BeatWalk(s, T, st) ==
  \E E \in SUBSET T :
    LET now == [a \in Agent |-> IF a \in E THEN "error" ELSE st[a]] IN
    /\ status' = now
    /\ \/ Ends(s)
       \/ \E a \in T \ E, rest \in SUBSET (T \ E) :
            /\ a \notin rest
            /\ \/ now[a] = "idle" /\ Awaits(s, "beat", "nudge", a, rest)
               \/ Awaits(s, "beat", "wake", a, rest)

BeginBeat(s) ==
  /\ phase = "run" /\ closing # "clean" /\ flight[s] = Free
  /\ BeatWalk(s, team, status)
  /\ UNCHANGED <<lifeVars, team, done, verified, hubVars, askVars>>

(* After a nudge the same agent may be due to be woken, or given up: its    *)
(* silence was measured before.                                            *)
Nudged(s, sent) ==
  LET f  == flight[s]
      st == IF sent THEN [status EXCEPT ![f.at] = "busy"] ELSE status IN
  /\ In(s, "beat", "nudge")
  /\ \/ BeatWalk(s, f.todo, st)
     \/ BeatWalk(s, f.todo, [st EXCEPT ![f.at] = "error"])
     \/ status' = st /\ Awaits(s, "beat", "wake", f.at, f.todo)
  /\ UNCHANGED <<lifeVars, team, done, verified, hubVars, askVars>>

(* attemptAgentReactivation                                                *)
Woken(s, sent) ==
  LET f == flight[s] IN
  /\ In(s, "beat", "wake")
  /\ BeatWalk(s, f.todo, IF sent /\ status[f.at] # "error"
                         THEN [status EXCEPT ![f.at] = "busy"] ELSE status)
  /\ UNCHANGED <<lifeVars, team, done, verified, hubVars, askVars>>

(***************************************************************************)
(* What terminals tell: input, exit, the activity detector, output         *)
(***************************************************************************)
InputSeen(a) ==
  /\ Listening /\ a \in team /\ status[a] # "busy" /\ Is(a, "busy")
  /\ UNCHANGED <<lifeVars, team, done, verified, hubVars, askVars, flight>>

ProcessExit(a) ==
  /\ Listening /\ a \in team /\ Is(a, "error")
  /\ UNCHANGED <<lifeVars, team, done, verified, hubVars, askVars, flight>>

DecidedActive(a) ==
  /\ Listening /\ a \in team /\ ~paused
  /\ status[a] \in {"idle", "error"} /\ Is(a, "busy")
  /\ UNCHANGED <<lifeVars, team, done, verified, hubVars, askVars, flight>>

(* An agent found inactive is prompted five seconds later.                 *)
DecidedInactive(a) ==
  /\ Listening /\ a \in team /\ ~paused
  /\ status[a] = "busy" /\ Is(a, "idle")
  /\ IF tasksKnown /\ a \notin done THEN Start("one", "settle", a) ELSE UNCHANGED flight
  /\ UNCHANGED <<lifeVars, team, done, verified, hubVars, askVars>>

(* processAgentResponse.  Output of an idle agent makes it busy before it   *)
(* is read; a STATUS line or a completed task then says what it is.        *)
Output(a) == IF status[a] = "idle" THEN "busy" ELSE status[a]

Reports(a, st) ==
  /\ Listening /\ a \in team /\ Is(a, st)
  /\ UNCHANGED <<lifeVars, team, done, verified, hubVars, askVars, flight>>

(* "no more tasks"                                                         *)
AllDone(a) ==
  /\ Listening /\ a \in team \cap Finishers /\ Is(a, Output(a)) /\ done' = done \cup {a}
  /\ UNCHANGED <<lifeVars, team, verified, hubVars, askVars, flight>>

(* "waiting for tasks": idle, and prompted if there are any.               *)
Waits(a) ==
  /\ Listening /\ a \in team /\ Is(a, "idle")
  /\ IF a \notin done /\ tasksKnown THEN Start("one", "prompt", a) ELSE UNCHANGED flight
  /\ UNCHANGED <<lifeVars, team, done, verified, hubVars, askVars>>

(* The coordinator lists tasks in its terminal; the architect is told.     *)
TasksListed ==
  /\ Listening /\ Coordinator \in team
  /\ tasksKnown' = TRUE /\ Is(Coordinator, Output(Coordinator))
  /\ IF Architect \in team /\ status[Architect] # "error"
     THEN Start("one", "prompt", Architect) ELSE UNCHANGED flight
  /\ UNCHANGED <<lifeVars, team, done, verified, askVars, paused, notice>>

(* The coordinator's verdict.  The loop runs over a Map that other         *)
(* handlers add to while it awaits, and so visits what they add.           *)
Standby ==
  /\ Listening /\ Coordinator \in team /\ pending # {}
  /\ Is(Coordinator, Output(Coordinator))
  /\ done' = done \cup (pending \cap team) /\ pending' = pending \ team
  /\ UNCHANGED <<lifeVars, team, verified, hubVars, asked, reasked, flight>>

(* The verdict taken for every agent that is idle.                         *)
MutVerdictOnNext(s, assigns, before) ==
  \/ /\ pending \cap team = {} /\ Ends(s) /\ UNCHANGED <<pending, verified>> /\ done' = before
  \/ \E a \in team :
       /\ status[a] = "idle" /\ pending' = pending \ {a}
       /\ verified' = IF assigns THEN verified ELSE verified \cup {a}
       /\ done' = IF assigns THEN before \ {a} ELSE before \cup {a}
       /\ Awaits(s, "reply", IF assigns THEN "assign" ELSE "confirm", a, {})
(* It takes the next agent that is pending, and stops to prompt it: `at` is *)
(* the coordinator if tasks are to be assigned, nobody if it is to be told  *)
(* that it is done.                                                        *)
VerdictOnNext(s, assigns, before) ==
  \/ /\ pending \cap team = {} /\ Ends(s) /\ UNCHANGED <<pending, verified>> /\ done' = before
  \/ \E a \in pending \cap team :
       /\ pending' = pending \ {a}
       /\ verified' = IF assigns THEN verified ELSE verified \cup {a}
       /\ done' = IF assigns THEN before \ {a} ELSE before \cup {a}
       /\ Awaits(s, "reply", IF assigns THEN "assign" ELSE "confirm", a, {})

Verdict(s, assigns) ==
  /\ Listening /\ Coordinator \in team /\ pending # {} /\ flight[s] = Free
  /\ Is(Coordinator, Output(Coordinator))
  /\ VerdictOnNext(s, assigns, done)
  /\ UNCHANGED <<lifeVars, team, hubVars, asked, reasked>>

VerdictSent(s, sent) ==
  LET assigned == flight[s].step = "assign" /\ sent IN
  /\ flight[s].kind = "reply"
  /\ IF assigned THEN Is(flight[s].at, "busy") ELSE UNCHANGED status
  /\ VerdictOnNext(s, flight[s].step = "assign", IF assigned THEN done \ {flight[s].at} ELSE done)
  /\ UNCHANGED <<lifeVars, team, hubVars, asked, reasked>>

(* A single prompt, and busy once it is out.                               *)
LaterSends(s) ==
  /\ In(s, "one", "settle") /\ Awaits(s, "one", "prompt", flight[s].at, {})
  /\ UNCHANGED <<lifeVars, agentVars, hubVars, askVars>>
OnePrompted(s, sent) ==
  /\ In(s, "one", "prompt")
  /\ IF sent THEN Is(flight[s].at, "busy") ELSE UNCHANGED status
  /\ Ends(s)
  /\ UNCHANGED <<lifeVars, team, done, verified, hubVars, askVars>>

(***************************************************************************)
(* What ChatHub delivers.  The handlers are registered by the constructor. *)
(***************************************************************************)
(* The coordinator posts PENDING TASKS: agents idle by now are prompted one *)
(* after the other; promptAgentToCheckChatHub does not look at the pause    *)
(* again.                                                                  *)
TasksNext(s, T) ==
  IF T = {} THEN Ends(s) ELSE \E a \in T : Awaits(s, "tasks", "prompt", a, T \ {a})
TasksPosted(s) ==
  /\ Supervised /\ tasksKnown' = TRUE /\ flight[s] = Free
  /\ TasksNext(s, IF paused THEN {} ELSE {a \in team : status[a] = "idle"})
  /\ UNCHANGED <<lifeVars, agentVars, askVars, paused, notice>>
TasksPrompted(s, sent) ==
  /\ In(s, "tasks", "prompt") /\ TasksNext(s, flight[s].todo)
  /\ IF sent THEN Is(flight[s].at, "busy") ELSE UNCHANGED status
  /\ UNCHANGED <<lifeVars, team, done, verified, hubVars, askVars>>

TaskCompleted(a) ==
  /\ Supervised /\ a \in team /\ Is(a, "idle")
  /\ UNCHANGED <<lifeVars, team, done, verified, hubVars, askVars, flight>>

(* activateAgentForMention; a message that mentions several agents is one   *)
(* step for each.  An assignment of the architect is handled twice, as an  *)
(* assignment and as any message that mentions agents.                     *)
Activates(a) == ~paused /\ status[a] \notin {"busy", "error"}
Mentioned(a) ==
  /\ Supervised /\ a \in team /\ Activates(a)
  /\ Start("one", "prompt", a)
  /\ UNCHANGED <<lifeVars, agentVars, hubVars, askVars>>
Assigned(a) ==
  /\ Supervised /\ a \in team /\ Activates(a)
  /\ \E s, t \in Slot :
       /\ s # t /\ flight[s] = Free /\ flight[t] = Free
       /\ LET f == [kind |-> "one", step |-> "prompt", at |-> a, todo |-> {}]
          IN flight' = [flight EXCEPT ![s] = f, ![t] = f]
  /\ UNCHANGED <<lifeVars, agentVars, hubVars, askVars>>

(* A human: activate an agent by force.  While paused all there is in      *)
(* answer is a notice, which says how to resume.                           *)
ForceActivate(a) ==
  /\ Supervised /\ a \in team
  /\ IF paused THEN notice' = Echo /\ UNCHANGED flight
               ELSE Start("one", "force", a) /\ UNCHANGED notice
  /\ UNCHANGED <<lifeVars, agentVars, askVars, tasksKnown, paused>>
ForcePrompted(s) ==
  /\ In(s, "one", "force") /\ Is(flight[s].at, "busy") /\ Ends(s)
  /\ UNCHANGED <<lifeVars, team, done, verified, hubVars, askVars>>

(* A command to pause.  The notice quotes it: a whole phrase in it reads   *)
(* as a command to pause again, a bare word does not.                      *)
Pause(bare) ==
  /\ Supervised /\ ~paused /\ paused' = TRUE
  /\ notice' = (notice \/ (Echo /\ bare))
  /\ UNCHANGED <<lifeVars, agentVars, askVars, tasksKnown, flight>>

Resumes == paused' = FALSE /\ Start("check", "settle", NoOne)
Resume ==
  /\ Supervised /\ paused /\ Resumes
  /\ UNCHANGED <<lifeVars, agentVars, askVars, tasksKnown, notice>>

(* The monitor hears its own notice: its name has "monitor" in it, so it   *)
(* is a human, and the notice says "resume".                               *)
HearOwnNotice ==
  /\ Supervised /\ notice /\ notice' = FALSE
  /\ IF paused THEN Resumes ELSE UNCHANGED <<paused, flight>>
  /\ UNCHANGED <<lifeVars, agentVars, askVars, tasksKnown>>

----
Life ==
  \/ StartTeam \/ Provisioned \/ Listens \/ StartDone \/ SaveSession \/ ResumeTeam
  \/ \E known \in BOOLEAN : ResumeDone(known)
  \/ Cleanup \/ Exit \/ Crash
  \/ \E a \in Agent : \/ SetupAgent(a) \/ \E sent \in BOOLEAN : Kickoff(a, sent)
                      \/ \E st \in Status : RestoreAgent(a, st)
                      \/ RecreateAgent(a) \/ LoseAgent(a)
Loops ==
  \E s \in Slot :
    \/ BeginCheck(s) \/ Recheck(s) \/ BeginBeat(s) \/ LaterSends(s) \/ ForcePrompted(s)
    \/ \E ok \in BOOLEAN : \/ Looked(s, ok) \/ CheckPrompted(s, ok)
                           \/ Nudged(s, ok) \/ Woken(s, ok) \/ VerdictSent(s, ok)
                           \/ OnePrompted(s, ok) \/ TasksPrompted(s, ok)
Terminals ==
  \/ TasksListed \/ Standby \/ \E s \in Slot, assigns \in BOOLEAN : Verdict(s, assigns)
  \/ \E a \in Agent : \/ InputSeen(a) \/ ProcessExit(a) \/ DecidedActive(a) \/ DecidedInactive(a)
                      \/ Waits(a) \/ AllDone(a)
                      \/ \E st \in {"idle", "busy"} : Reports(a, st)
ChatHub ==
  \/ \E s \in Slot : TasksPosted(s)
  \/ Resume \/ HearOwnNotice \/ \E bare \in BOOLEAN : Pause(bare)
  \/ \E a \in Agent : TaskCompleted(a) \/ Mentioned(a) \/ Assigned(a) \/ ForceActivate(a)
TeamNext == Life \/ Loops \/ Terminals \/ ChatHub

TeamInit ==
  /\ phase = "off" /\ closing = "no" /\ todo = {} /\ disk = NoSession
  /\ loaded = NoSession /\ asked = {} /\ reasked = {}
  /\ team = {} /\ status = [a \in Agent |-> "initializing"] /\ done = {} /\ verified = {}
  /\ tasksKnown = FALSE /\ paused = FALSE /\ notice = FALSE
  /\ pending = {} /\ flight = [s \in Slot |-> Free]

TeamSpec == TeamInit /\ [][TeamNext]_teamVars

(***************************************************************************)
(* Properties                                                              *)
(***************************************************************************)
(* No agent is counted as verified, now or after a restart, unless the     *)
(* coordinator was asked about it at some time: verdicts, which name no    *)
(* agent, reach only those that verifyAgentCompletion registered.          *)
VerifiedWasAsked == verified \cup pending \cup disk.verified \cup loaded.verified \subseteq asked

(* What is held about agents is well formed, and no verdict is unasked for. *)
VerifiedSound == TeamTypeOK /\ VerifiedWasAsked

(* An agent that is verified, and that no check will look at again, has     *)
(* no tasks: whatever handlers were suspended when its verdict came, none   *)
(* assigns tasks to it after it, and no save and resume brings back the    *)
(* verdict without what it says.  Excepted is an agent the coordinator     *)
(* was asked about again before an earlier question was settled:           *)
(* verifyAgentCompletion does not look for one.                            *)
VerdictStands ==
  /\ verified \subseteq done \cup reasked
  /\ disk.verified \subseteq disk.done \cup reasked

(* A crash loses no agent: as long as nobody has ended the team, all who    *)
(* are supervised, or are yet to be found again by a resume under way, are *)
(* in the saved session.                                                   *)
SessionHasTeam ==
  closing = "no" /\ phase \in {"resume", "run"} => team \cup todo \subseteq disk.team

(* A clean exit clears the session (TEAM-ORCHESTRATION-GUIDE.md).  Refuted: *)
(* an interrupted start goes on while cleanup awaits, and saves.           *)
ShutdownClears == [][Exit => disk = NoSession]_teamVars

(* A pause stands until somebody resumes (HUMAN-PAUSE-RESUME.md).  Refuted *)
(* when ChatHub echoes: the monitor resumes itself on its own notice.      *)
PauseStands == [][paused /\ ~paused' /\ phase' # "off" => Resume]_teamVars
====
