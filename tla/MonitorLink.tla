---------------------------- MODULE MonitorLink ----------------------------
(***************************************************************************)
(* The link of the terminal monitor to the API server: WebSocketService    *)
(* with its five states, its timers, the health check before a first       *)
(* attempt, the handlers of every socket it has opened, and the queue of   *)
(* input that waits for a connection.                                      *)
(*                                                                         *)
(* A handler of an old socket acts on the fields of the service, which may *)
(* by then be about a newer one.  A timer of which the handle was          *)
(* overwritten can no longer be cleared; a health check cannot at all.     *)
(*                                                                         *)
(* The server sends every output to every open socket.  An input is its    *)
(* number.                                                                 *)
(***************************************************************************)
EXTENDS Naturals, Sequences, FiniteSets

CONSTANTS
  Sockets,      \* that are not yet closed at one time (bound)
  NoSocket,
  MaxAttempts,  \* maxReconnectAttempts
  QueueCap,     \* maxSize of the queue
  MaxInputs, MaxFaults, MaxUser   \* bounds: inputs; what the network does; what the user does

ASSUME MonitorLinkAssumption ==
  /\ NoSocket \notin Sockets
  /\ {MaxAttempts, QueueCap} \subseteq Nat \ {0} /\ {MaxInputs, MaxFaults, MaxUser} \subseteq Nat

VARIABLES
  loggedIn, token,   \* the dashboard is shown; a token that has not expired is stored
  link,              \* the fields of the service
  sock,              \* what has become of each socket
  dead,              \* open sockets whose peer is gone without a word
  queue,             \* messageQueue, also in localStorage
  issued, sent,      \* inputs given, and written to a socket (history)
  crossed,           \* one attempt was disturbed by what belongs to another (history)
  faults, acts       \* bounds

userVars == <<loggedIn, token, acts>>
inputVars == <<queue, issued, sent>>
vars == <<userVars, link, sock, dead, inputVars, crossed, faults>>

States == {"DISCONNECTED", "CONNECTING", "CONNECTED", "RECONNECTING", "ERROR"}

(* shown: wsConnected in the store.  initial: isInitialConnection.  checks: *)
(* health checks that are awaited.  wait, retry and timeout: the timer that *)
(* initialConnectionTimer, reconnectInterval and connectionTimeout stand    *)
(* for is pending; waits, retries and timeouts: pending timers no handle    *)
(* stands for.  beat: heartbeatInterval runs (one that was overwritten      *)
(* does what its successor does).                                          *)
Link == [state : States, shown : BOOLEAN, initial : BOOLEAN, attempts : 0 .. MaxAttempts,
         checks : Nat, ws : Sockets \cup {NoSocket}, beat : BOOLEAN,
         wait : BOOLEAN, waits : Nat, retry : BOOLEAN, retries : Nat,
         timeout : BOOLEAN, timeouts : Nat]

FreshLink ==
  [state |-> "DISCONNECTED", shown |-> FALSE, initial |-> TRUE, attempts |-> 0, checks |-> 0,
   ws |-> NoSocket, beat |-> FALSE, wait |-> FALSE, waits |-> 0, retry |-> FALSE,
   retries |-> 0, timeout |-> FALSE, timeouts |-> 0]

TypeOK ==
  /\ {loggedIn, token, crossed} \subseteq BOOLEAN
  /\ link \in Link
  /\ sock \in [Sockets -> {"none", "connecting", "aborted", "open", "closing", "leaving"}]
  /\ dead \subseteq Sockets
  /\ {queue, sent} \subseteq Seq(1 .. MaxInputs) /\ issued \in 0 .. MaxInputs

Init ==
  /\ loggedIn = FALSE /\ token = FALSE /\ acts = 0
  /\ link = FreshLink
  /\ sock = [s \in Sockets |-> "none"] /\ dead = {}
  /\ queue = <<>> /\ issued = 0 /\ sent = <<>>
  /\ crossed = FALSE /\ faults = 0

Strike == faults < MaxFaults /\ faults' = faults + 1
Act == acts < MaxUser /\ acts' = acts + 1

Also(pending) == IF pending THEN 1 ELSE 0

-----------------------------------------------------------------------------
(* The service's own functions, on its fields                               *)

\* scheduleReconnect(). The timer before is not cleared.
Scheduled(l) ==
  IF l.attempts >= MaxAttempts THEN [l EXCEPT !.state = "ERROR"]
  ELSE [l EXCEPT !.attempts = @ + 1, !.retry = TRUE, !.retries = @ + Also(l.retry)]

MutFailed(l) == [l EXCEPT !.state = "ERROR", !.shown = FALSE, !.timeout = FALSE]   \* no retry

\* handleConnectionFailure()
Failed(l) == Scheduled([l EXCEPT !.state = "ERROR", !.shown = FALSE, !.timeout = FALSE])

OnError(l) == IF l.state = "CONNECTING" THEN Failed(l) ELSE l

\* onclose; a close is final with the codes 1000, 1001 and 1008.
OnClose(l, final) ==
  LET m == [l EXCEPT !.timeout = FALSE, !.shown = FALSE, !.beat = FALSE]
  IN  IF final \/ m.state = "DISCONNECTED" THEN [m EXCEPT !.state = "DISCONNECTED"]
      ELSE Scheduled([m EXCEPT !.state = "RECONNECTING"])

\* close() of a socket: one that is still connecting fails, an open one closes.
Closing(f, s) ==
  IF s = NoSocket THEN f
  ELSE [f EXCEPT ![s] = CASE @ = "connecting" -> "aborted" [] @ = "open" -> "closing" [] OTHER -> @]

Becomes(l, f) == link' = l /\ sock' = f /\ UNCHANGED faults

\* new WebSocket(), the timer that bounds it, and its handlers; or it throws.
OpenSocket(l, f) ==
  \/ \E s \in Sockets :
       /\ f[s] = "none"
       /\ Becomes([l EXCEPT !.ws = s, !.timeout = TRUE, !.timeouts = @ + Also(l.timeout)],
                  [f EXCEPT ![s] = "connecting"])
  \/ Strike /\ link' = Failed(l) /\ sock' = f

\* attemptConnection(): before a first attempt the server is asked whether it is ready.
AttemptConnection(l, f) ==
  LET m == [l EXCEPT !.state = "CONNECTING"] IN
  IF l.attempts = 0 THEN Becomes([m EXCEPT !.checks = @ + 1], f)
  ELSE OpenSocket(m, f)

\* connect()
Busy(l) == l.state \in {"CONNECTING", "CONNECTED"}

MutConnect(l, f, hasToken) ==   \* skips only what is already connected
  IF l.state = "CONNECTED" THEN Becomes(l, f)
  ELSE IF ~hasToken THEN Becomes([l EXCEPT !.state = "ERROR"], f)
  ELSE IF l.initial THEN Becomes([l EXCEPT !.wait = TRUE, !.waits = @ + Also(l.wait)], f)
  ELSE AttemptConnection(l, f)

Connect(l, f, hasToken) ==
  IF Busy(l) THEN Becomes(l, f)
  ELSE IF ~hasToken THEN Becomes([l EXCEPT !.state = "ERROR"], f)
  ELSE IF l.initial THEN Becomes([l EXCEPT !.wait = TRUE, !.waits = @ + Also(l.wait)], f)
  ELSE AttemptConnection(l, f)

\* A second connect() while the first waits for the server to be ready.
Twice(l, hasToken) == ~Busy(l) /\ hasToken /\ l.initial /\ (l.wait \/ l.waits > 0)

-----------------------------------------------------------------------------
(* The user                                                                  *)

\* App: the dashboard of a user who is authenticated connects.
Login ==
  /\ ~loggedIn /\ Act
  /\ loggedIn' = TRUE /\ token' = TRUE
  /\ Connect(link, sock, TRUE)
  /\ UNCHANGED <<dead, inputVars, crossed>>

\* The cleanup of the dashboard: disconnect(). What a health check does once it is
\* answered is not called off.
Logout ==
  LET s == link.ws IN
  /\ loggedIn /\ Act
  /\ loggedIn' = FALSE /\ token' = FALSE
  /\ link' = [link EXCEPT !.state = "DISCONNECTED", !.ws = NoSocket, !.beat = FALSE,
                          !.retry = FALSE, !.timeout = FALSE, !.wait = FALSE]
  /\ sock' = IF s # NoSocket /\ sock[s] = "open" THEN [sock EXCEPT ![s] = "leaving"] ELSE Closing(sock, s)
  /\ queue' = <<>>
  /\ crossed' = (crossed \/ link.checks > 0)
  /\ UNCHANGED <<dead, issued, sent, faults>>

\* The token expires. The next getToken() clears it.
Expire ==
  /\ token /\ Act
  /\ token' = FALSE
  /\ UNCHANGED <<loggedIn, link, sock, dead, inputVars, crossed, faults>>

\* forceReconnect(), offered while the store says that there is no connection.
ForceReconnect ==
  LET l == [link EXCEPT !.attempts = 0] IN
  /\ loggedIn /\ ~link.shown /\ Act
  /\ Connect(l, Closing(sock, link.ws), token)
  /\ crossed' = (crossed \/ Twice(l, token))
  /\ UNCHANGED <<loggedIn, token, dead, inputVars>>

\* The page is loaded anew: the queue is read back.
Reload ==
  /\ Act
  /\ loggedIn' = FALSE
  /\ link' = FreshLink
  /\ sock' = [s \in Sockets |-> "none"] /\ dead' = {}
  /\ crossed' = FALSE
  /\ UNCHANGED <<token, inputVars, faults>>

Open(s) == s # NoSocket /\ sock[s] = "open"
IsConnected == Open(link.ws) /\ link.state = "CONNECTED"

\* sendInput(): without a connection the input is queued, and the oldest one goes
\* when the queue is full.
SendInput ==
  LET n == issued + 1
      q == Append(queue, n) IN
  /\ loggedIn /\ issued < MaxInputs
  /\ issued' = n
  /\ IF IsConnected THEN sent' = Append(sent, n) /\ UNCHANGED queue
     ELSE queue' = (IF Len(q) > QueueCap THEN Tail(q) ELSE q) /\ UNCHANGED sent
  /\ UNCHANGED <<userVars, link, sock, dead, crossed, faults>>

-----------------------------------------------------------------------------
(* Timers and the health check                                               *)

\* The second for the server to be ready has passed: attemptConnection() without
\* another look at the state.
WaitEnds ==
  /\ \/ link.wait /\ AttemptConnection([link EXCEPT !.wait = FALSE, !.initial = FALSE], sock)
     \/ link.waits > 0 /\ AttemptConnection([link EXCEPT !.waits = @ - 1, !.initial = FALSE], sock)
  /\ UNCHANGED <<userVars, dead, inputVars, crossed>>

Checked ==
  /\ link.checks > 0
  /\ OpenSocket([link EXCEPT !.checks = @ - 1], sock)
  /\ UNCHANGED <<userVars, dead, inputVars, crossed>>

CheckFails ==
  /\ link.checks > 0 /\ Strike
  /\ link' = Failed([link EXCEPT !.checks = @ - 1])
  /\ UNCHANGED <<userVars, sock, dead, inputVars, crossed>>

RetryWith(l) == IF l.state = "DISCONNECTED" THEN Becomes(l, sock) ELSE Connect(l, sock, token)

RetryFires ==
  /\ UNCHANGED <<userVars, dead, inputVars, crossed>>
  /\ \/ link.retry /\ RetryWith([link EXCEPT !.retry = FALSE])
     \/ link.retries > 0 /\ RetryWith([link EXCEPT !.retries = @ - 1])

\* Ten seconds have passed since a socket was made. The handler looks at the state
\* and closes the current socket.
TimeoutWith(l) ==
  IF l.state = "CONNECTING" THEN link' = Failed(l) /\ sock' = Closing(sock, l.ws)
  ELSE link' = l /\ sock' = sock

TimeoutFires ==
  /\ Strike
  /\ \/ link.timeout /\ TimeoutWith([link EXCEPT !.timeout = FALSE])
     \/ link.timeouts > 0 /\ TimeoutWith([link EXCEPT !.timeouts = @ - 1])
  /\ UNCHANGED <<userVars, dead, inputVars, crossed>>

\* Two heartbeats were missed.
HeartbeatTimeout ==
  /\ link.state = "CONNECTED" /\ link.beat /\ link.ws \in dead
  /\ sock' = Closing(sock, link.ws)
  /\ sock' # sock
  /\ UNCHANGED <<userVars, link, dead, inputVars, crossed, faults>>

-----------------------------------------------------------------------------
(* What happens to a socket                                                  *)

MutOpens(s) ==   \* writes the queue out without emptying it
  /\ sock[s] = "connecting"
  /\ sock' = [sock EXCEPT ![s] = "open"]
  /\ link' = [link EXCEPT !.timeout = FALSE, !.state = "CONNECTED", !.shown = TRUE,
                          !.attempts = 0, !.beat = TRUE]
  /\ sent' = IF link.ws # NoSocket /\ sock'[link.ws] = "open" THEN sent \o queue ELSE sent
  /\ UNCHANGED <<userVars, dead, queue, issued, crossed, faults>>

\* onopen: what was queued goes out, through the current socket, if that is open.
Opens(s) ==
  /\ sock[s] = "connecting"
  /\ sock' = [sock EXCEPT ![s] = "open"]
  /\ link' = [link EXCEPT !.timeout = FALSE, !.state = "CONNECTED", !.shown = TRUE,
                          !.attempts = 0, !.beat = TRUE]
  /\ queue' = <<>>
  /\ sent' = IF link.ws # NoSocket /\ sock'[link.ws] = "open" THEN sent \o queue ELSE sent
  /\ UNCHANGED <<userVars, dead, issued, crossed, faults>>

\* Another attempt than the one of this socket is under way, or was made since.
Late(s) == s # link.ws \/ link.checks > 0

Gone(s, l) ==
  /\ sock' = [sock EXCEPT ![s] = "none"]
  /\ dead' = dead \ {s}
  /\ link' = l
  /\ crossed' = (crossed \/ (Late(s) /\ loggedIn))
  /\ UNCHANGED <<userVars, inputVars>>

\* A socket that never opened: onerror, and onclose with 1006.
Fails(s) ==
  /\ \/ sock[s] = "aborted" /\ UNCHANGED faults
     \/ sock[s] = "connecting" /\ Strike
  /\ Gone(s, OnClose(OnError(link), FALSE))

\* onclose of a socket that was open, with onerror before it where the connection
\* broke.
Ended(s, final) == \E l \in {link} \cup (IF final THEN {} ELSE {OnError(link)}) :
  Gone(s, OnClose(l, final))

\* The close this side asked for is complete, with 1000 after disconnect() if the
\* server still answers.
Closes(s) == \E final \in BOOLEAN :
  /\ sock[s] \in {"closing", "leaving"} /\ (final => sock[s] = "leaving")
  /\ Ended(s, final)
  /\ UNCHANGED faults

\* The server or the network closes a socket.
IsClosed(s) == \E final \in BOOLEAN :
  /\ sock[s] = "open" /\ s \notin dead /\ Strike
  /\ Ended(s, final)

Dies(s) ==
  /\ sock[s] = "open" /\ s \notin dead /\ Strike
  /\ dead' = dead \cup {s}
  /\ UNCHANGED <<userVars, link, sock, inputVars, crossed>>

-----------------------------------------------------------------------------
Next ==
  \/ Login \/ Logout \/ Expire \/ ForceReconnect \/ Reload \/ SendInput
  \/ WaitEnds \/ Checked \/ CheckFails \/ RetryFires \/ TimeoutFires \/ HeartbeatTimeout
  \/ \E s \in Sockets : Opens(s) \/ Fails(s) \/ Closes(s) \/ IsClosed(s) \/ Dies(s)

Spec == Init /\ [][Next]_vars

(* Timers fire, a health check is answered, a socket opens unless it fails, *)
(* and a close that was asked for completes.                               *)
FairSpec ==
  /\ Spec
  /\ WF_vars(WaitEnds) /\ WF_vars(Checked) /\ WF_vars(RetryFires) /\ WF_vars(HeartbeatTimeout)
  /\ WF_vars(\E s \in Sockets : Opens(s) \/ Fails(s) \/ Closes(s))

-----------------------------------------------------------------------------
(* Properties                                                                *)

Alive(s) == sock[s] \in {"connecting", "open"}

(* Output is not delivered twice, and a logout ends it: at most one socket  *)
(* is connecting or open, it is the current one, and none is after a       *)
(* logout, however timers, retries, forced reconnects and their failures   *)
(* fall; unless one attempt was crossed by what belongs to another.        *)
OneListener ==
  ~crossed => \A s \in Sockets : Alive(s) => s = link.ws /\ link.checks = 0 /\ loggedIn

(* What the state says is watched: connected means that a heartbeat runs.  *)
Watched == link.state = "CONNECTED" => link.beat

(* The three hold together.                                                *)
LinkSound == TypeOK /\ OneListener /\ Watched

Inputs(q) == {q[i] : i \in DOMAIN q}

(* Input given to the monitor is written in the order it was given and at   *)
(* most once, across reconnects, logins and reloads (the queue is in        *)
(* localStorage); and it is not thrown away but by a logout or by a full   *)
(* queue, unless attempts were crossed.                                    *)
InOrder == LET out == sent \o queue IN \A i, j \in DOMAIN out : i < j => out[i] < out[j]

Kept ==
  Inputs(queue) \cup ((issued + 1) .. issued') \subseteq Inputs(queue') \cup Inputs(sent')

InputKept ==
  [][/\ InOrder'
     /\ crossed \/ Logout \/ (Len(queue) = QueueCap /\ issued' # issued) \/ Kept]_vars

(* Up: the socket of the link is open and its peer is there.               *)
Up == IsConnected /\ link.ws \notin dead

(* Closed for good by the server, or given up after the last attempt.      *)
Over ==
  \/ link.state = "DISCONNECTED" /\ ~link.wait
  \/ link.state = "ERROR" /\ link.attempts = MaxAttempts /\ ~link.retry

(* The link of a user who stays logged in comes back after every failure:   *)
(* a lost health check, a refused, timed out or silent socket, a close in   *)
(* the middle of anything. It stays down only when the server closed it     *)
(* for good, when the attempts are used up, or when attempts were crossed.  *)
LinkRestored ==
  (loggedIn /\ token) ~> (Up \/ Over \/ crossed \/ ~loggedIn \/ ~token)

============================================================================
