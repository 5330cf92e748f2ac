# TermFlow: verification of the terminal, its hosts and its companions

TermFlow is a terminal application. Its shells do not live in the window's
process: a sidecar, the *PTY host*, owns them, so that they outlive an update, a
relaunch or a crash of the GUI. A window shows them in tabs and panes that can be
split, dragged, grouped on a canvas and torn off into other windows; a shared
widget, *terminal-core*, paints them. An agent monitor supervises teams of
AI agents that work in terminals, and a terminal monitor shows terminals in a
browser.

What goes wrong in such a program is silent: a shell killed by a timer nobody
remembers, a line of output painted twice, a pane that is in two tabs, an input
that overtakes another. This directory holds TLA+ models of the parts where that
can happen, the TLC configurations that check them on small instances, and
proofs of the safety properties of the most critical ones for every instance.

Paths below are relative to `src/src-tauri/` unless they start with `src/`,
`packages/`, `agent-monitor/` or `terminal-monitor/`; `src/renderer/` is
`src/src/renderer/` of the repository tree.

## 1. Inventory of the system

| component | state it keeps | operations | talks to |
|---|---|---|---|
| **PTY host: session manager and serve loop** (`pty-host/src/manager.rs`, `transport/mod.rs`) | sessions by tab, the arm (deadline, purpose, generation, start of absence), shutdown latch, the pending deadline of the serve loop | spawn, close, attach, list, arm, disarm, shutdown, hold / claim / release MCP, disconnect, expiry, teardown | the GUI over one connection at a time; sessions; the MCP holder |
| **PTY host: MCP hold** (`pty-host/src/mcp_hold/mod.rs`) | idle / pending / running, the holder's mode word, a retiring holder | pending, start, claim, stop, adoption, disarm, absence | the holder task, by an atomic mode word |
| **PTY host: MCP holder task** (`mcp_hold/holder.rs`, `http.rs`, `message.rs`, `rpc.rs`) | listener, open streams, hand-back grace, hard cap | answers agents while the GUI is away, hands the port back | agents over HTTP, the GUI by a claim |
| **PTY host: session stream** (`session.rs`, `ring.rs`) | replay ring, `attached`, `exited`, the reader's `lost`, event channel | push, stream, attach with replay, detach, exit | reader and waiter threads; writer task; GUI |
| **PTY host: elevated dial-out** (`transport/dial.rs`) | the same serve loop, reached by dialling the GUI | dial, authenticate, redial | elevated GUI side |
| **PTY protocol** (`pty-protocol/src/`) | none, and the discovery record on disk | frame codec, startup-query filter, output pump, records | everything |
| **GUI: host client** (`src/pty_host_client.rs`, `src/pty_host_client/`) | pending requests, connection state, identity cache, write queue | request and reply, intentional close, loss, open with a grace period | the host; the host table |
| **GUI: host table** (`src/state/host_table.rs`) | one lifecycle (open, quiescing, exiting), one slot per host with its admission, epoch, tickets and ticker | reserve and publish an epoch, begin, quiesce, drain, retire, start a ticker, and the drop of each guard | every user of a host |
| **GUI: host lifecycle** (`src/state/host_lifecycle.rs`) | holds with the hosts they armed, the hold kept for a sibling | offload, update, relaunch, arm and disarm for a sibling, exit | the table; every host; sibling GUIs over HTTP |
| **GUI: host keys and adoption** (`src/state/host_adoption.rs`, `host_keys.rs`, `host_retire.rs`, `host_connect.rs`, `reattach.rs`) | routes, owners of panes, frozen hosts, barriers | connect, reconnect, list, disarm, reattach, decide to retire | the table; the client; the terminals |
| **GUI: update, offload, MCP hand-over** (`src/state/update_*.rs`, `mcp_*.rs`, `src/updater.rs`, `src/sibling_coord.rs`) | the phase of an update, which siblings were asked | check, arm siblings, apply, hand over and reclaim the MCP port | the host lifecycle; sibling GUIs |
| **GUI: elevated host** (`src/elevated_host/`) | pending elevation, handshake | launch, accept, give up | dial-out host |
| **GUI: terminals, owners, pane identity** (`src/state/terminals.rs`, `owner_lifecycle.rs`, `incarnation_ids.rs`) | terminals, incarnations, leaf storage | create, close, move, restore | renderer; host table |
| **GUI: automation** (`src/automation_engine*`, `src/automation*`) | rules, schedule, cooldowns, conversations | evaluate, fire, reschedule | terminals; store; web hooks |
| **GUI: API server and services** (`src/api_server/`, `output_pipeline.rs`, `history_store.rs`, ...) | caches and databases | request handlers | companions |
| **GUI: process life, windows, network** (`src/lib.rs`, `instance_lock.rs`, `window_registry.rs`, `mcp_sidecar.rs`, ...) | windows, locks, sidecar processes | supervise, recover | the operating system |
| **Renderer: workspace** (`src/renderer/store/`, `services/tabTreeSeed.ts`, `services/StateManager.ts`, `components/TerminalContainer.tsx`, ...) | the tab strip, a pane tree for each tab, a mirror of the trees on the window, the saved state | create, split, close, drag, regroup, detach, attach, seed, save, restore | every view; the back end; other windows |
| **Renderer and GUI: pane operations** (`src/renderer/services/paneIncarnations.ts`, `host_keys/panes.rs`) | a queue of operations for each page, its sequence numbers; at the other end the last result | send, retry, resync, time out, replace a page | the GUI back end |
| **terminal-core: GPU contexts** (`packages/terminal-core/src/webgl.ts`, `renderPolicy*.ts`, `cache.ts`) | cached terminals, WebGL addons, a quarantine, the budget of Canvas Mode, a snapshot | mount, evict, lose a context, reset, disable, reconcile, enter and leave Canvas Mode | the browser |
| **terminal-core: attach and hydration** (`TerminalEngine.ts`) | cache entry, gate, buffers, generation, what is on the screen | attach, hydrate, buffer, commit, evict, repair | the GUI's streams and snapshots |
| **terminal-core: size of a pane** (`TerminalEngine.ts`) | last size sent, a parked size, a call in flight, timers, the watchdog's count | fit, debounce, send, park, flush, heal | the layout; the resize command |
| **Agent monitor** (`agent-monitor/src/team-orchestrator.ts`, ...) | status of each agent, pending verifications, pause, the saved session | start, resume, prompt, verify, pause, save, shut down | terminals; ChatHub |
| **Terminal monitor: link** (`terminal-monitor/src/services/WebSocketService.ts`, `MessageQueue.ts`) | connection state, socket, five timers, attempts, queue of input | connect, retry, health check, heartbeat, force, disconnect, send | the API server |
| **Other companions and views** (`mcp-server`, `terminal-kit`, the settings, file, git and theme views) | their own | requests | API server, GUI back end |

In the host one process decides, from what a vanished peer last said, whether to
destroy shells; three threads share a session's flags without a common lock; two
timers and a handshake race; a holder task ends on its own. In TypeScript
there is one thread, and the difficulty is what lies between two awaits, two
events or two renders: a handler goes on with what it had read, an answer comes
for a request that was given up, an event of a closed socket changes the state of
its successor. `PROJECT.json` lists each hazard at its line with the properties
that would catch it.

What makes each part correct:

* **Host.** A live shell dies only by a quit, by a teardown nobody can avoid, or
  by a hold that ran out. A quit is never followed by a hold, an acknowledged arm
  never by a teardown. A host that has nothing to wait for exits, and leaves no
  process behind.
* **MCP hold.** One holder at most; it serves the right message for where the
  GUI is; every exit of the host stops and joins it.
* **Stream.** The GUI is given every byte once and in order, or is told that it
  was not; the end of the shell reaches it.
* **Host table.** Whoever closes the table can rely on it: nothing starts, and
  nobody else reopens it. A host is retired only while nothing runs on it. At
  most one connection of a host may act.
* **Host lifecycle.** A host that is armed when the GUI goes stays armed; a host
  that a quit ends is not; and admission never returns over an armed host.
* **Workspace.** A terminal is in one pane of one tab of one window; what runs is
  what is shown; strip, trees and mirror agree whenever the effects have run.
* **Pane operations.** Each operation of a page is applied once and in order,
  answered with its own result, and not applied after the page was replaced.
* **GPU contexts.** No context is uncounted; ceiling and budget hold at every
  allocation; leaving Canvas Mode undoes nobody else's decision.
* **Hydration.** Once all is painted, the screen shows each chunk once, in order.
* **Size of a pane.** Once all is at rest the PTY has the size that is seen.
* **Agent monitor.** No agent counts as verified unasked; a verdict stands against
  whatever was under way when it came; the saved session has the whole team.
* **Link of the terminal monitor.** One socket listens; input goes out in order and
  at most once; a link that failed comes back.
* **Not modelled yet.** The host client (every request answered exactly once), keys
  of sessions (a pane has one owner), updates (a failed one leaves no sibling
  armed), automation (a rule fires once for its occasion).

## 2. Modules

| module | models | state and actions against the code |
|---|---|---|
| `McpHold` | `mcp_hold/mod.rs` | The `McpHold` struct is one record. Each method is an operator from record to record: `SetPending`, `ClearPending`, `StopHolder`, `Claim`, `OnAdopted`, `OnDisarm`, `OnDisconnect`, `OnAbsenceBegun`, `TakeForShutdown`. `Reconcile` opens each of them, as `reconcile()` does in the code. |
| `PtyHost` | `manager.rs`, `transport/mod.rs`, the kill paths of `session.rs`; EXTENDS `McpHold` | `pc` is where the serve loop is: `accept` (first client), `top` (before a read), `read`, `wait` (`wait_for_reconnect`), `teardown`, `finish` (joining holders), `down`. One action per control frame, whole handler included, and `Hear` in front of each: the adoption that `run_connection` performs before it dispatches. |
| `HostContract` | what `manager.rs` and `transport/mod.rs` promise a client | The abstract specification of the host: fresh, served, held, ending or gone; each tab's shell; what streams; whether the next drop leads to a hold, whether that is bounded, whether a quit stands. No generation, deadline, clock, process, kill or MCP holder. `PtyHost` implements it. |
| `PtyHostMC` | | `PtyHost` with the symmetry of its identities, for TLC. |
| `SessionStream` | `session.rs`, `ring.rs`, the writer task and the purge of `transport/mod.rs`, the receive path of `src/pty_host_client.rs` and `src/state/reattach.rs` | One action per atomic access: a byte is its offset, the ring is `head..tail`, `reader.pc` and `host.pc` say which thread holds the ring lock, `chan` is the event channel. |
| `HostTable` | `src/state/host_table.rs` | One action per critical section of the table's mutex, and one per guard that is dropped: `Quiesce` is the locked half of `quiesce()`, `QuiesceDrained`, `QuiesceTimeout` and `QuiesceCancelled` the three ends of its wait. Its callers are unconstrained. |
| `HostLifecycle` | `src/state/host_lifecycle.rs`, `begin_adoption` and the disarm of `host_adoption.rs`; EXTENDS `HostTable` | `pc[r]` is where each offload, relaunch or sibling request is between two awaits; `hold[r]` names the `Hold` it works on, `mine` is `Hold::armed`, `kept` the `SiblingSlot`. Exit has its guard as its only place, because its hosts are released together. |
| `Workspace` | the slices `tabs` and `panes`, `paneTreeOps.ts`, `tabTreeSeed.ts`, the effects of `TerminalContainer.tsx`, and every handler that creates, moves or ends a pane | A reducer is an operator on its slice. An action is one handler and dispatches in one task; `Effects` is what React runs before the next one (`due`). `away` is the tree another window holds, `saved` what localStorage holds. |
| `PaneOrder` | what `paneIncarnations.ts` and `panes.rs` promise of a page's operations | The abstract specification: issued, applied, answered. |
| `PaneStream` | `paneIncarnations.ts`, `index.tsx`, `pane_op_at` of `host_keys/panes.rs` | The pump with its attempts and timers at one end, the page's stream at the other, and between them a set of invokes that are answered late, out of order, with an error, or never. Implements `PaneOrder`. |
| `RenderPolicy` | `webgl.ts`, `renderPolicy.ts`, `renderPolicyReconciler.ts`, `cache.ts`, `useCanvasRenderPolicy.ts` | Synchronous code, except that the passes of Canvas Mode are one allocation a step (`pass`), so that the most they hold on the way is seen. `gpu.live` are the contexts that exist, whoever knows them. |
| `Hydration` | `attach`, `hydrate`, the live and held-back buffers, `cleanupTerminalCache`, the repairs of `TerminalEngine.ts` | Each hydrate is a run that goes from one await to the next; events and answers have ways of their own and may overtake each other. |
| `PaneGeometry` | fit, resize, parking, healing in `TerminalEngine.ts`, `resize_terminal` | `calls` are the resize calls under way, answered in any order; `box`, `term`, `lastSent` and `backend` are the four places that know a size. |
| `TeamMonitor` | `team-orchestrator.ts`, `session-persistence.ts`, `team-manager.ts`, `chathub-integration.ts` | A handler suspended at an await is a flight; other handlers run before it goes on with what it had read. `phase` is where `startTeam` or `resumeTeam` is, which an interrupt does not stop; `disk` is `session-data.json`. |
| `MonitorLink` | `WebSocketService.ts`, `MessageQueue.ts`, `authService.ts`, `App.tsx` of the terminal monitor | The service's fields are the record `link`; `sock` is the life of each socket it has opened. A timer whose handle was overwritten (`waits`, `retries`, `timeouts`) still fires. A socket may fail to be made at all, and its close event may follow an error event or come alone. |
| `HostTableMC`, `HostLifecycleMC`, `WorkspaceMC`, `RenderPolicyMC`, `HydrationMC`, `PaneGeometryMC`, `TeamMonitorMC` | | Symmetry of identities, and the bound on handlers under way, for TLC. |
| `PtyHost_proofs`, `HostLifecycle_proofs`, `PaneStream_proofs`, `SessionStream_proofs`, `RenderPolicy_proofs`, `Hydration_proofs`, `Workspace_proofs`, `Monitors_proofs` | | TLAPS proofs, each of the module it is named after and of those that module extends (`McpHold`, `HostTable`); `Monitors_proofs` is about `TeamMonitor` and `MonitorLink`. |

`PtyHost` and `SessionStream` look at the same session from two distances. To
`PtyHost` a session is attached or not and its child is in one of six states;
the two facts `SessionStream` relies on, that a connection's end detaches every
session and that it does so before the next client is accepted, are
`HeldSessionsDetached` (proved) there.

`HostLifecycle` is the other end of the same conversation: its frames `Arm` and
`Disarm` are `ArmDetach` and `Disarm` of `PtyHost`, and its exit sends the
`Shutdown` there. That an arm wins over a shutdown, which is why exit has to come
after every arm, is in `PtyHost` the order in which `on_gui_disconnect` looks at
the two.

### Abstractions

* Tokens: a frame is authentic or it is not. `authenticates_lifecycle` is the
  argument of `Hear`; frames with a wrong token are `OtherFrame`.
* Time: `HoldTicks` ticks stand for `LOCAL_HOLD_ACTIVE_SECS`. Active time passes
  at any point, and a clock sample may have no reading (`SystemActiveClock`).
* Generations: a `u64` that wraps, `NextGen` wraps at `GenMod`. The proofs are
  for every `GenMod`.
* Children: `live`, `gone` (ended, reader not at EOF), `exited`, and two kinds of
  kill in flight, one that teardown awaits (`doomed`) and one nothing awaits
  (`dropped`). An identity is reused when its process is gone.
* Holder tasks: the mode last commanded, or `ended`; the task may end at any
  point, so everything a real holder does about its own end is covered. When a
  hold starts, any ended identity serves; `CHOOSE` picks one, and ended
  identities are interchangeable there (the record is reconciled, so `retiring`
  never names one), which is why symmetry is sound.
* Output: data is a range of offsets. Splitting at UTF-8 boundaries and the
  startup filter come before the ring and are not part of the stream model.
* The channel is shared by all sessions of a host. `OthersFill = TRUE` lets the
  others fill it at any time; otherwise only this session's frames do.
* Tickets: a counter of tickets is the set of the live ones. That is what RAII
  makes of it, and the `saturating_sub` of the code is never needed.
* Hosts of `HostLifecycle`: a frame takes effect when it is queued, since one
  connection is served in order; whether it is acknowledged is a free choice. A
  host the exit has disconnected hears nothing more. The facts by which a host
  refuses an offload are one choice, `HostsRefuse`; a full update, which arms
  nothing and then lets an exit take over, is a hold that goes no further.
* Cancellation: only a sibling's request runs in a future that may be dropped (an
  HTTP handler whose caller went away), and only at an await.
* Time in `HostLifecycle`: `ExitTimesOut` says that nobody is delayed between its
  last look at the lifecycle and its frames, with no await between them, for as
  long as the bound of the exit's quiesce.
* Memory order: with `WeakMemory` the store to `exited` reaches other threads
  late, which is what `Release` stores and `Acquire` loads permit. `FALSE` is
  sequential consistency.

* Trees (`Workspace`): a leaf is the terminal it shows and the tab that terminal was
  made for. Sizes, titles, mutes and colours of panes travel with it and are left out.
  Ids are given in order, as the code's are unique. React renders after each task;
  nothing else runs between a handler and its effects.
* Other windows (`Workspace`): a tree is handed over in one step. In the code the
  source takes its panes out when the other window has them, and takes out only those
  that are still what the drag began with (`removeQualifiedSource`).
* Saves (`Workspace`): besides what the program itself saves, `Saves` says what an
  earlier version may have left behind.
* Invokes (`PaneStream`): an operation and its result are its number. An invoke may be
  rejected before or after it took effect. The one-second timer of an attempt may
  fire at any time while the reply is out; `MaxFaults` bounds how often things
  go wrong, so that liveness can ask what happens when they no longer do.
* Contexts (`RenderPolicy`): a WebGL addon holds one GPU context until its `dispose()`
  returns; one that throws may or may not have freed it; an activation that throws may
  have leaked it. `snap` keeps what the snapshot says of a terminal whose generation has
  not moved since.
* Output (`Hydration`): numbered chunks of each process, and a screen is the sequence
  painted since the last reset. A snapshot says up to which chunk it goes. History
  variables (`spoilt`, `outlived`) mark the known ways in which events and answers
  spoil a screen, so that `Exact` says that there is no other.
* Sizes (`PaneGeometry`): model values. A call of `bridge.resize` may fail, and the
  backend applies calls in any order.
* Agents (`TeamMonitor`): silence and throttles are choices; so is every decision of
  the activity detector. What an agent prints is the line that was recognised in it.
  `asked` and `reasked` are history: whom the coordinator was asked about, and whom a
  second time before the first answer was dealt with. A save is one step and succeeds.
* Sockets (`MonitorLink`): a slot is free again once its socket is closed. `dead` are
  open sockets with a peer that vanished without a word. `crossed` marks the three ways
  in which one attempt meets what belongs to another: a second connect in
  the second that the first one waits, a logout during a health check, and a socket
  that goes after another attempt has begun. `LinkSound` and `LinkRestored` except them,
  `InOrder` does not.

## 3. Runs

Deadlock is checked for the host, whose end is the explicit `Terminated` step, for
the stream, which never stops because connections come and go, and for the pane
operations. It is not checked where the bounded surroundings may have nothing more to
do: a process that has exited, a window with nothing under way, a link at rest.

| run | instance | shows |
|---|---|---|
| `host` | 2 tabs, 2 children, 2 holders, 2 ticks, generations modulo 2, failing clock | safety and liveness of the host, below |
| `stream` | ring 3, channel 3, 6 bytes in chunks of 1 or 2, a late store to `exited` | the bytes, the exit, and that both arrive |
| `host_table` | 1 channel, 2 of each actor, 2 epochs, 3 holds | the table under any caller, whose quiesce may be dropped |
| `lifecycle_safety` | 2 hosts, an offload, a relaunch, 2 sibling requests that may be dropped, a sibling disarm, an adoption, an exit; 4 holds | what an exit and a reopened table leave behind |
| `lifecycle_arms` | the same without disarms and dropped requests; 3 holds | that arms stand, and that admission returns |
| `workspace` | 2 tabs, 6 ids between panes and terminals, a clean start or the save of an earlier version | four invariants of tabs, panes and terminals |
| `pane_stream` | 2 pages, 3 operations each, 2 faults | that the stream implements `PaneOrder`, and answers everything |
| `render_policy` | 3 terminals, 4 addons, ceiling 3, budget 2, cache of 2 | that contexts are counted and bounded at each allocation |
| `hydration` | 2 processes with 1 chunk each, one of them replayed, 2 hydrates, a buffer of 1, 2 generations, 1 eviction | who holds the gate, and what is on the screen |
| `pane_geometry` | 2 sizes, 2 calls, 5 moves of the surroundings, 3 mismatches | that sizes converge |
| `team_monitor` | the coordinator and one agent, 2 handlers in flight, ChatHub echoes | verdicts, and what a crash finds on disk |
| `monitor_link` | 2 sockets at a time, 3 attempts, 3 faults, 3 acts of the user, 2 inputs, a queue of 1 | the link, its input, and its return |

Host properties:

* `LastWordKept`: after an accepted `Shutdown` the end of the connection never
  opens a hold, and under an adopted client only its own arm is in force. The first
  fails if adoption, which resets the latch, comes after the dispatch of the frame.
* `EndsSound`: a connection whose last word is an acknowledged arm is never
  followed by a teardown, whatever older timer is pending (`ArmIsHonoured`); and with
  a live session, the host leaves its loop only for a quit, because it cannot
  outlive the GUI, or after a Local hold of the whole bound without an adopting
  client (`LiveSessionsKept`). `quiet`, a history variable, measures that silence
  independently of the deadline the code keeps.
* `ImplementsContract`: what a client can tell of the host is a behaviour of
  `HostContract`. Beyond `EndsSound` it says that nothing *else* happens: a frame
  touches no other tab's shell, a silent client spends nothing an earlier one had
  said (but for a `Disarm`, which needs no token), the first authentic frame spends
  all of it and later ones nothing, a hold takes no shell, and shells end one at a
  time or all together at a teardown.
* `HoldSound`: a hold keeps the sessions detached and its one holder in step with the
  client, and every way out joins the holder. `TornDownChildrenDie`.
* `HoldsEnd`: a host that waits for ever has an unlabelled arm and a live child, and a
  peer that connects and never adopts cannot stop a Local hold from ending.
  `HostExitsOnceLeaving`.

Stream properties:

* `OutputExact`: what is queued for a GUI that takes it starts where the GUI is, or
  later with a Gap before it; and output that an attached GUI will not be given is
  remembered by the reader, whose next chunk is announced. This depends on an argument
  nobody wrote down: a frame can be enqueued *after* the backlog was purged, by a
  reader that had looked at `attached` before the detach. It is harmless because
  such a frame precedes the answer to the listing (the reader holds the ring lock
  that the listing takes, and the writer prefers events), and the GUI routes a
  session only after the listing.
* `ExitReported`: the end of the shell is queued for an attached GUI, unless the
  channel was full. `NoBacklogHeld`: what stays in the channel over a hold is at most
  what the reader had in its hands.
* `StreamServed`: a GUI that stays routed is given all output but a dropped tail that
  is remembered, and the exit.

Table and lifecycle properties:

* `HoldOwned`: who waits for the table, or was given it, has it: admission is closed,
  the guard is the one in force unless exit took over, and after a closer was told
  "drained" only arms run. A refused or superseded closer cannot reopen it under another.
  And a table closed for a while has the one who reopens it (`ClosedIsOwned`), with one
  exception, the caller of `quiesce()` that was dropped while it waited (section 5).
* `HostOwned`: nothing runs on a host whose emptiness is decided; the one drainer that
  decides it is never inert and never lost; one current connection, one ticker.
* `NoWayBack`: no step takes back an exit or a retirement, or goes back to an older
  connection of a host.
* `ArmsEnd`: a host that exit has told or disconnected is not armed, nor armed again,
  in whatever state of an arm the exit took over; and the table is never open over an
  armed host. It fails if the arm takes no ticket, or does not look again after its await.
* `ArmStands`: the hosts of an armed or committed hold, and of a kept window, are
  armed until exit takes over. A relaunch is excepted only when it went ahead
  over an operation in flight.
* `AdmissionReturns`: a table closed for a while opens, unless its process commits.

Workspace properties:

* `EachTerminalOnce`: no terminal is in two panes, of one tab, of two tabs, or of two
  windows, and no pane id names two nodes.
* `SettledView`: after the effects every open tab has a tree and no other has; the pane
  slice shows the tab the strip shows; focus is in a pane that is there, unless a split
  that could not be made has moved it (section 5); what is maximized is there, whatever happened.
* `NoOrphan`: what runs is what the panes show, whatever is moved and closed, but for the
  terminals the API made for a pane that could not be split (`stray`, section 5).
* `SeededOnce`: a tab that was emptied into another is not taken for a new one and given a
  second terminal, also when an earlier version saved it without its key.

Pane operations:

* `PumpSound`: the pump never rests with something queued, and has at most one invoke
  of each attempt under way. The second is what makes the attempt's number tell the
  reply to the head from the late reply to one that was given up.
* `ImplementsOrder`: `PaneStream` implements `PaneOrder`, with the pages that the back
  end has seen replaced as `ended`.
* `EveryOpAnswered`: once faults cease, the queue of a page that stays is answered to
  its end.

terminal-core:

* `ContextsSound`: no context exists that the count does not see, none is counted twice,
  and the ceiling holds. `BudgetKept`: under the budget nothing allocates past it,
  not even on the way to a state that is within it, and leaving Canvas Mode gives WebGL
  back to nobody that was reset, switched off or lost its context meanwhile.
  `PassSound`: a pass of the reconciler takes a context from nobody to give it back; and
  when a pass that could demote all it wanted is over, either the budget is kept or no
  terminal of the canvas has a context, and none paints with WebGL while a more important
  one, which the GPU did not refuse, does not.
* `EntrySound`: while output is held back there is a run that will let it go, and a
  pane listens to the process it shows and to no other.
* `Exact`: once all has arrived and is painted, the screen has each chunk of the
  process once and in order, across remounts, evictions, re-targeting, failed
  snapshots and repairs, unless one of the known ways of spoiling it happened (section 5).
* `Converges`: once all is at rest, a visible pane and its PTY have the size of the
  container, whatever calls failed or overtook one another, unless a parked size is
  stranded or the watchdog gave up (section 5).

Companions:

* `VerifiedSound`: verdicts name no agent; they reach only agents the coordinator was
  asked about, in memory and in what is saved.
* `VerdictStands`: an agent that is verified has no tasks, in memory and in what is
  saved. Checks, answers and assignments are suspended at awaits all around a verdict, and
  it names nobody: a question that was still open about a verified agent would let the
  next answer give it tasks that no check looks after any more. It holds because a check
  looks at each agent anew when its turn comes, and it is excepted where the code does
  not look: an agent asked about again before the earlier question was settled.
* `SessionHasTeam`: while nobody has ended the team, everybody who is supervised, or whom
  a resume has yet to find again, is in the saved session, so that a crash at any
  moment loses no agent. In the middle of a resume the team is not complete yet, and
  a save that began there would forget the rest.
* `LinkSound`: at most one socket is connecting or open, it is the current one, none is
  after a logout; connected means that a heartbeat runs.
* `InputKept`: input goes out in the order it was given and at most once, across
  reconnects, logins and reloads; and it is thrown away only by a logout or a full queue.
* `LinkRestored`: the link of a user who stays logged in comes back after every failure,
  unless the server closed it for good or the attempts are used up.

### Bounds and why they are enough

Two tabs are needed for one session to live while another dies, and a child is
reused once its process is gone. Two holders are one running and one
retiring, and `OneHolder` is what makes more useless. Two ticks separate a fresh
deadline, one under way and one passed. Generations modulo two make an old one recur
as soon as the counter has moved twice. For the safety properties these bounds only
serve to find errors early: the theorems hold for all of them.

In `stream` six bytes go twice through the three-byte ring, so a replay
meets a full eviction, a partial one and none; a channel of three frames holds a
Gap, an output and an Exit and is filled by one session. Reconnects are not
bounded. `MaxBytes` bounds the life of the shell, `MaxChunk` one read.

In `host_table` two of each actor are the holder and the intruder, the old
connection and the new, the ticket and the ticket that is late. Channels do not
interact, except through the lifecycle; the theorems are for any number. Three
holds let a third closer come after two, four let an offload be tried again. In
`HostLifecycle` two hosts are the one a relaunch needs and one that may fail to
arm; two sibling requests are an arm and its repetition. Liveness is checked
without symmetry.

In `workspace` two tabs are the source and the target of every move. A pane and a terminal
each take an id, from one budget of six (`MaxIds`): it is spent on one tab with a split and a
move, on two tabs one of whose panes is moved next to that of the other, which needs
a new split, or, from a save of an emptied tab, on one more terminal. The theorems are
for any number of tabs and ids. In `pane_stream` two
pages are the replaced one and its successor; three operations are one applied, one in
doubt and one behind it; two faults let an answer be lost and the retry go wrong too. The
theorems hold for any number of each. In `render_policy` three terminals fight for
two slots below a ceiling of three, and the cache of two evicts; four addons allow one
in quarantine beside three in use. `hydration` has two processes for a re-targeted
pane, two runs for a hydrate that is overtaken, and one chunk on either side of what a
snapshot contains; `MaxGeneration` and `MaxEra` let an evicted entry count from zero up to
the generation of an old run. In `pane_geometry` two calls overtake each other, and five
moves let a pane be hidden, resized, shown, moved and resized again. In `team_monitor` two
handlers in flight are the one that waits and the one that changes what it had
read; one of the two asks about an agent or hands out a verdict, since the others
change statuses only (`OverlapBound`), and pauses are followed only while the team
runs. Of the agents beside the coordinator one suffices: a question, an answer and
their suspended handlers are about one agent each. The theorems are for any number of
agents and handlers, without these bounds. In
`monitor_link` two sockets are an old one and its successor; three attempts reach the
limit in two failures, since a failure may count twice; three faults and three acts let a
failure fall on every stage of a forced reconnect or a second login.

### Fairness and why the code justifies it

* Host: the serve loop (`Watch`, `Recheck`), teardown and exit are steps of a
  running task that sleeps 250 or 500 ms at most; kills and readers are threads
  of their own; a stopped holder ends within `STOP_BOUND` or is aborted. `Watch`
  and `Recheck` are fair for a sample that has a reading: the clock is sampled
  again at every tick. Nothing is assumed of clients, children, or a holder that
  was not told to stop.
* Stream: each step of the reader after a read, of the serve loop in an attach
  or a disconnect, and of the writer task. The shell need not print or end, the
  GUI need not reconnect or reattach.
* Pane operations: an invoke is answered or its timer fires, a retry timer fires, the
  pump goes on (a promise job). Faults are bounded and not fair.
* Pane size: timers fire, calls are answered, the watchdog's look is repeated. Nothing is
  assumed of the surroundings; `Converges` asks what happens once they rest.
* Link: timers fire, the health check is answered or fails, a close that was asked for
  completes, a socket that connects opens unless it fails; the heartbeat of a dead peer
  notices. Neither the user nor the network need do anything.
* Lifecycle: every step of a request that has begun. Each of its awaits has a
  bound: the quiesce, the requests to hosts, the window of a sibling. No request
  need begin, exit need not come, adoptions need not end.

## 4. Proofs

`tlapm` checks eight proof modules. The assumptions are those named in the
modules they extend: `HoldersAssumption` (some holder identity exists, and none is
`NoHolder`), `PtyHostAssumption` (`HoldTicks` and `GenMod` are positive),
`HostTableAssumption` (special values differ from members, the two counters' bounds
are numbers), `HostLifecycleAssumption` (which callers are which),
`PaneStreamAssumption` (the pages are finitely many numbers, the bounds are
numbers), `SessionStreamAssumption` (the capacities and one read are positive),
`TeamAssumption` (a finite team of two or more, its two fixed roles in it),
`HydrationAssumption` (finitely many processes and hydrates, at least one chunk),
`WorkspaceAssumption` (`NoTab` is no tab, finitely many tabs, the bound on ids is a number),
`PolicyAssumption` (finitely many terminals and addons, the ceiling and the budget are
numbers) and `MonitorLinkAssumption` (`NoSocket` is no socket, attempts and queue are
positive). Nothing else is assumed finite.

### The host

The central theorem is `HostInvariant`: `Spec => []HostInv`. No property but the
types is inductive alone, since what a step may do is decided by history. The
invariant has a part for each thing that must be related:

1. `McpPart`, the hold against the arm: the record is well formed (`McpInv`), at
   most one holder is unfinished, a running `absent` holder implies a Local arm
   without an adopted client, and so on. Needed because a disarm spends the arm
   and stops the holder in two different places.
2. `ArmPart`, the arm against the client's last word: a quit implies the latch, no
   arm and an adopted connection; an acknowledged arm implies an armed deadline.
   This is where the order "adopt, then dispatch" is used.
3. `TimerPart`, the deadline against the silence: an established deadline of the
   *current* generation has `quiet + left >= HoldTicks`. An older generation may
   have any value left, and `LocalHoldIsCurrent` is what makes it harmless.
4. `ChildPart`, the children against the sessions: a process whose end nobody
   ordered belongs to a registered session.

`HostImplementsContract` is the refinement of `HostContract`, `Spec =>
ImplementsContract`, with one lemma for each group of steps. It needs one more
invariant, `SessionPart`: a session is in the table under one tab only, and its
process has not been killed. Without it a `Close` of one tab could end what another
one shows. An expiry maps to a step of the contract by `ExpiryIsEarned`, which is
where the generation and the deadline disappear: `TimerPart` turns a deadline that
has run out into a whole silence. What is left of the processes is `ShellOf`, and of
the order "adopt, then dispatch" that a frame is one step.

Its first part proves, for each operator of the record of `McpHold`, that it preserves
`McpInv` and which tasks' modes it may set, as lemmas the host's proof cites.
From `HostInvariant` follow `TypeCorrect`, `QuitKept` and `ArmEnds` (together
`LastWordAlwaysKept`), `ArmHonoured` and `SessionsKept` (together
`EndsAlwaysSound`), `DetachedWhileHeld`,
`HolderFollowsGui`, `PendingNeedsLocalArm`, `HoldersJoined` and `AtMostOneHolder`
(together `HoldAlwaysSound`), and `ChildrenDie` (under `~KillMayWedge`, that no
kill outlasts the grace).

### The table and its callers

Each property of the table is proved from the few variables it is about; lemmas
(`OthersKeepGuards`, `OthersKeepTickets`, `OthersKeepSlots`) dispose of the groups
of actions that leave those alone. `GuardsInForce` and `OneHold` are inductive only
together: that a new hold finds no other live guard follows from the first, and
that the guard in force is unique from the second. `OneCurrentConn` needs
`EpochsFresh`, that every epoch handed out belongs to one connection.
`HoldAlwaysOwned` and `HostAlwaysOwned` collect them. `ClosedIsOwned`, a part of the
first, is proved for every caller, also those that may be dropped, and excepts the
dropped wait by name instead of by a hypothesis.

`UsesTheTable` is `Spec => TableSpec`: every step of the callers is a step the
table's specification allows. So all of the table's theorems hold of the
program's callers, and `LifecycleTypeCorrect` and the proof of
`ExitAlwaysAfterEveryArm` use two of them (types, and `ExitingStays`).

`ExitAfterEveryArm` is proved from `ExitSafe`:

1. `ArmTicketed`: an arm holds its ticket from before it is decided on until it
   returns, so a drained exit comes after its frames.
2. `ExitAlone`: once exit holds its guard or has disarmed a host, exit is in force
   for good, and nobody is about to arm. Whoever comes later is refused by the
   look at the lifecycle that precedes each round of frames.
3. `DisarmedFirst`: only disarmed hosts are told or disconnected, and no disarmed
   host is armed. The second part is inductive because of `ExitAlone`.

`ArmsAlwaysEnd` adds that an open table has no armed host under it
(`OpenAlwaysDisarmed`). While no exit is in force, someone must answer for whatever is
armed, and `HoldsAnswer` says who:

1. `Alone`: one hold is worked on at a time, by one runner or by the window that
   keeps it for a sibling. It is what `OneHold` of the table means for its callers.
2. `Guarded`: whoever works on a hold has its guard, in the state its place in the
   code requires. So the table opens only by a step of the one who answers.
3. `Answered`: what is armed is what the hold has on its list (`Hold::armed`), and
   from its first round of frames on the list is complete; a release that has gone
   through that list has disarmed all.

`ArmAlwaysStands` is the other direction, that what a hold has armed stays armed,
and is proved for specifications without a sibling's disarm (`Disarms = {}`), since
section 5 shows that one such disarm breaks it. The only other thing that disarms a
host under a hold is an adoption, and `DrainKnown` keeps it away: a hold that goes on
to its frames was told that the table drained, and an adoption that may still disarm
has its ticket. `Standing` then says at which places of the code which hosts
are armed. A relaunch that went ahead over an operation in flight has not drained,
and is excepted by the property as by the invariant.

### Pane operations

`StreamImplementsOrder` is the refinement `Spec => ImplementsOrder`: whatever is
lost, answered late, refused or retried, a page's operations are applied once and
in the order of their sequence numbers, each is answered with the result of its own
application, and none is applied after the page was seen replaced. It follows, as
does `PumpAlwaysSound`, from the invariant `IInv`:

1. `Exact`: the back end's position is what it has applied, and its last result
   that of the last one.
2. `Ahead`: the client's head is the operation after the last it has had answered,
   and the back end is at most one operation in front of it. This is what lets a
   replayed answer be taken for the head's own.
3. `Pumping`: while something is queued the pump is sending, waiting, or about to
   try again, and what it waits for is an invoke of the attempt it counts.
4. `CallSound`: every invoke under way, also one that was given up, carries a
   sequence number and an operation that belong together, and an answer is that
   operation's result.
5. `OneOfAnAttempt`: no two invokes have the attempt's number in common. Without it
   a late answer could be taken for the answer to the retry.

### The stream

`StreamInvariant` is `Spec => []StreamInv`. The argument turns on `End`: where the
output the GUI will have been given ends once it has taken what is queued. The
lock of the ring keeps the reader and `attach` apart, so each of them knows `End`
while it enqueues, and a frame starts there or later. Whoever starts later has
queued a Gap before it, or a loss is remembered. The parts:

1. `LinkPart`: the GUI's view of the link against the serve loop and the flag
   `attached`. A GUI that is routed is attached unless its attach is still under
   way; while it lists the sessions nothing streams.
2. `OffsetPart`, `FramePart`: nothing that is queued, remembered or in somebody's
   hands lies behind the end of the ring.
3. `Quiet`: from the listing to the replay only the news of the end is queued. This
   is where the live frames of the connection before are gone, and the reason a
   channel of three frames has room for a Gap, a replay and an Exit.
4. `NextPart`: what the next frame, of either of the two, meets at `End`.
5. `ChainPart`: the frames already queued, each against those before it.
6. `ExitPart`, `HoldPart`: the exit is queued, or lost on a full channel or to a
   late store; while held, at most two frames wait, those in a reader's hands
   counted.

`NeverTwice`, `ExitAlwaysReported` and `BacklogBounded` hold for every ring,
channel, read and amount of output, also when other sessions fill the channel.
`OutputAlwaysExact`, that nothing is left out unannounced, needs `Roomy`: a
channel of three frames or more that others leave alone. Section 5 shows what
happens without it (`NoSilentSkip`).

### The workspace

`WorkspaceInvariant` is `Spec => []CoreInv`, from every save that names no terminal
twice (`"twice" \notin Saves`): section 5 shows that the repair of such a save does not
work (`Repaired`), and from it the invariant is false from the start. A *place* is a
tab of the window or, for the tree another window holds, no tab; `Piece` is the tree there.
The parts of `CoreInv`:

1. `ForestOK`: every piece is a tree (`OneParent`, `Connected` from its root, and
   `Distinct`: no terminal and no key at two leaves), made of ids that were given, and two
   pieces are `Apart`: no node, terminal or key in common. This is what is inductive about
   `EachTerminalOnce` and `SeededOnce`. The tree that is away has to be part of it.
2. `TreesOK`, `StripInv`, `CurrentOK`, `AwayOK`, `SavedOK`: the slices are well formed, a tab
   is in the strip once, `paneTree` is the tree of its tab, a tab that is away is not
   open, and what is saved is a forest of its own, which a restart brings back.
3. `MirrorOK`, `PendingOK`: the mirror has the trees of the pane slice, and nothing else of an
   open tab; a tab waits for its tree only until the effects have run, and no pane
   anywhere else has its key. So the effects give it a tree no one has.
4. `StrayOK`, `RunOK`: what runs is what the open tabs show, and the strays.
5. `AgreeOK`: between tasks the trees are those of the open tabs.

`ViewInvariant` adds `ViewInv`, which `CoreInv` does not need: `FocusOK`, where the focus
is; `OfOK`, what a tab remembers of it; `MaxOK`, what is maximized. What a tab remembers
may be a pane that was closed long ago, but never a split node, except the pane that has
the focus and was split this moment, until the effects have run; that is why activating
a tab focuses a leaf. The effects run again when tabs or trees have changed; the focus and
what is maximized do not bring them back (`Dispatched`, where other handlers use `Do`), so
these handlers have to leave a settled view themselves.

The lemma `TaskStep` is the frame of every handler: a task changes at most two places,
what it leaves there comes from them or is new, and the places stay apart. It is proved
once; each handler then shows which two places it changes and, by `RemoveLeafOK`, `InsertOK`,
`SplitLeafOK` and `SwapOK`, that the operators of `paneTreeOps` keep a tree a tree and
what its leaves show.

The effects plan the trees of all tabs that have none. The plan is a function of the
number of turns; that it is defined at each (`PlansExist`) is shown by a least
counterexample among the numbers, and `PlanOK` holds at each for the same reason
(`PlanStep`, `PlanSeedsOK`): every tree planned has one leaf or none, so that pruning
(`PruneSolo`) is a choice between the two. `TwoPlans` and `BothPlans` say that the plan of the active tab
and that of the others, which starts from the mirror the first has written, fit together;
`EffectsGive` is what they leave. `Below` and the way to the first leaf are stated as what
is in every set closed under going down, not by recursion, which is what makes them
provable (`BelowLeaf`, `FirstLeafOK`).

`EachTerminalAlwaysOnce`, `NeverOrphaned` and `AlwaysSeededOnce` follow from `CoreInv`,
`AlwaysSettled` from both.

### The agent monitor

`AskedBeforeVerified`: `VerifiedWasAsked` is about sets, but a check is suspended
between looking at an agent and asking the coordinator about it. It becomes
inductive with `FlightsSound`: a handler suspended at the question has already
counted its agent as asked.

`VerdictAlwaysStands` and `SessionAlwaysHasTeam` follow from `Secure`:

1. `Judged`, for each agent that was not asked about twice: what has become of the question
   is at one place (`OneMatter`: one handler is on its way to ask it, or it is pending,
   or one handler is on its way with tasks), and when the agent is verified it is at
   none (`Stands`). This is what `VerdictStands` is inductive with: were the question
   still open somewhere, the step that ends it could give a verified agent tasks.
2. `AboutTeam`: every suspended handler is about agents of the team.
3. `Stages`: where a start or a resume is, whom it has yet to see to. A resume saves
   nothing until it has seen to all, and until then what it has left is on disk.
4. `Saved`: what is on disk, or was read from it, agrees with itself, so that a
   restart brings no verdict back without what it says.

Most steps change no question. The lemma `OnwardKeeps` disposes of them: a handler that
goes on to something else (`Passing`) settles what it was about and opens nothing.

### The entry of a pane

`EntryAlwaysSound` is proved from `EntryInv`. `GateServed` and `ListensToItsOwn`
need two facts of the entry (`EntryPart`: what is mounted exists, what is attached
is mounted) and one of the work under way (`WorkPart`: it is about a process, not
about none). A gate that is up is that of the newest generation: a hydrate of an
older one leaves it alone, and the one that commits takes it down.

`ScreenAlwaysExact` is the theorem that a user sees: for any processes, chunks, caps
and evictions, a settled pane shows each chunk once and in order. It stands on
`EntryInv` and, until a hydrate has outlived its entry, on `ScreenPart`:

1. `Keyed`: the entry listens to the process it shows, and its gate is up exactly until
   that process is the hydrated one.
2. `RunsKeyed`: of the hydrates of this entry at most one has its generation, and it is
   one of the process shown. A commit is therefore never of an older process.
3. `Older`: what is on the screen or waits is of this process or of an older one, and a
   newer process has not been heard of, unless nobody listened. This is what makes an
   attach safe that keeps the buffers.
4. `Held`: while the gate is up, nothing of the process waits to be painted live, and
   the buffer ends with the newest chunks of the process, without a gap; all of them
   unless the cap dropped some.
5. `Painted`: when it is down, the screen followed by what waits to be painted has every
   chunk received once and in order. A live chunk, a flush and a commit each move chunks
   along this sequence.

A repair needs `Undisturbed`: as long as nothing came since it asked, nothing waits, so
that its repaint loses nothing. The lemmas `ConcatOwn`, `AppendOnce`, `NewestOnce`,
`NewestAppend`, `NewestTail` and `NewestSuffix` say what concatenation, the buffer's
cap and the comparison of a history with the buffer do to the order of chunks;
`PaintsExact` takes the four ways of painting in turn.

### GPU contexts

`ContextsAlwaysSound` and `BudgetAlwaysKept` rest on one lemma about a step, `Kept`:
contexts stay accounted for (`Accounted`: whatever is live is reachable or
quarantined, and no two terminals share an addon) and the number of contexts grows by
one at most, only where the ceiling and an armed budget permit. It is proved once
for each way the addons can change (`DisposalsTake`, `DisposalsCount`,
`DisposalsAccount` for the four ways a set of entries gives up its addons,
`LoadedOne`, `ChargedOne` for an allocation that works or throws) and cited by the
actions. That leaving Canvas Mode undoes no later decision is `NothingOffLimits`:
every decision takes its terminal out of the snapshot in the same step.

`PassAlwaysSound` needs `PassInv`, since a pass is many steps and its promises are
about its whole course:

1. `InOrder`: what is left to do is the end of the order the pass began with.
2. `Unchurned`: whoever lost a context to make room is on the list of those the
   promotion passes over.
3. `Winning(W)`: there is a set `W`, the winners chosen before the demotions, which
   is a prefix of the candidates that can have a context, and the slots that are free
   suffice for those of `W` that still wait. This is the reservation argument the code's
   comments make in words; `W` is not a variable of the program once the demotions
   are done, hence the quantifier.
4. `Ranked`: once a candidate was passed over, nobody behind it has a context,
   and nobody will be given one: either a slot is withheld or the budget is used up.
   Here `Winning` enters: a winner never finds the budget used up.
5. `Budgeted`: above the budget, none of the pass's terminals has a context.

### The link of the terminal monitor

`LinkAlwaysSound` is proved from `Calm`, which says that a first attempt, the health
check, the timer of a socket and the socket follow each other and never
overlap, that none is there after a logout, and that no timer but a retry has
lost its handle. `Down` is the state of the fields between two attempts;
every failure of a socket that is still the link's own ends there. `Calm` holds until
attempts were `crossed`, and the proof shows that the three ways named in section 2
are the only ones.

`InputAlwaysKept` adds `Outgoing`: what was sent and what waits, in this order, rises,
and while the link is connected nothing waits. The order holds always; that nothing is
lost needs `Calm`, for a socket that opens writes out the queue through the *current*
socket, which `Calm` says it is. The lemmas `RisingConcat`, `RisingAppend`,
`RisingTail` and `InputsConcat` are what both need of sequences.

### Only model-checked

* The liveness properties: TLAPS does not reason about fairness with `ENABLED`.
* The types of `PaneGeometry`, whose property is `Converges`, a liveness property.

No module has a recursive operator, so all of them can be proved about as they stand.

## 5. What the comments say, and the code does not do

Each of these is a definition of its module that states what a comment, a
document or a test says. TLC refutes each within seconds (`ParkedIsSent`, which is
a liveness property, in a minute) when the properties of the configuration named
are replaced by it, with the change given. None of them is among the runs.

| definition | configuration, and change | the text | the code |
|---|---|---|---|
| `ClosedKillsFinish` | `PtyHost_host`, one tab | a kill started by `Close` finishes, because the process keeps running (`session.rs`) | the last tab is closed, the client goes, the host exits; nothing awaited that kill |
| `ArmSpentByFirstFrame` | `PtyHost_host`, one tab; `PROPERTY` | an arm is spent by the first frame of a connection (`manager.rs:17`) | by the first *lifecycle* frame |
| `ReconnectNeverRestarts` | `PtyHost_host`, one tab; `PROPERTY` | an armed hold has one absolute deadline (`manager.rs:4`) | each disconnect under an armed hold starts a fresh bound |
| `NoSilentSkip` | `SessionStream_stream`, `OthersFill = TRUE` | a replay is always queued before live frames | `attach` ignores a full channel, and the next live frame skips output unannounced |
| `ReplayBeforeLive` | `SessionStream_stream` | the same (`session.rs:12`) | an `Exit` of the connection before may precede the replay |
| `TailLossAnnounced` | `SessionStream_stream` | a dropped frame is announced by a Gap (`session.rs:7`) | the last chunks, dropped on a full channel, have none |
| `ExitDurable` | `SessionStream_stream` | `Exit` is durable; the next attach emits it | store buffering lets the reader and the attach each miss the other |
| `ClosedEndsWithGuard` | `HostLifecycle_safety` or `HostTable_safety` | a close other than Exit's ends when its guard is dropped (`host_table.rs:237`) | a request dropped while it waits has closed the table and has no guard yet: nothing reopens it |
| `ArmStands` | `HostLifecycle_safety`, as it is: there is a disarm | a sibling's disarm releases what `sibling_arm` set | with no hold kept it disarms every host, also those this process has just armed for itself and which it then abandons |
| `Repaired` | `Workspace_safety`, `"twice"` in `Saves` | a save that names a terminal twice is repaired on the next launch (`tabTreeSeed.ts:75`) | the repair plans tabs that have no tree in the store, and the restore has put all saved trees there (`StateManager.ts:526-535`) |
| `NoOrphan` without `stray` | `Workspace_safety` | a split requested for a pane that is gone falls back to the first leaf "rather than silently dropped" (`panesSlice.ts:312-317`) | a pane id that has become a split node is found, is no leaf, and is not split: the terminal the API has made runs, and no pane shows it |
| `ParkedIsSent` | `PaneGeometry_converges`; `PROPERTY` | a parked size is sent on the next activation | an activation that finds a call under way returns and arms nothing, and the watchdog stays away from a pane with a pending size |
| `DropsOnlyReflected` | `Hydration_safety`, `Chunks = 2`; `PROPERTY` | buffered chunks are already in the snapshot when it is painted | one written after the host read the screen, and received before its answer, is dropped |
| `NoStaleCommit` | `Hydration_safety` | a hydrate of an entry that is gone is cancelled "either way" | the new entry counts from 0 and may reach the generation of the old run |
| `ShutdownClears` | `TeamMonitor_safety`; `PROPERTY` | the session is cleared when the process exits normally (`TEAM-ORCHESTRATION-GUIDE.md:401`) | an interrupt does not stop a start that awaits its agents; it goes on while the cleanup awaits, and saves (`team-orchestrator.ts:297`) what the next start will resume |
| `PauseStands` | `TeamMonitor_safety`; `PROPERTY` | a pause stands until a human resumes (`HUMAN-PAUSE-RESUME.md`) | if ChatHub echoes, the monitor takes its own notice for the word of a human, and resumes |

Eight properties of section 3 say where they stop for the same reasons:
`Exact` excepts a screen that a racing answer spoilt or an old run painted, `Converges`
a stranded size, `NoOrphan` a terminal made for a pane that could not be split,
`SettledView` the focus such a split leaves behind, `LinkSound` and `LinkRestored`
attempts that have crossed, `ClosedIsOwned` a wait that was dropped, `VerdictStands` an
agent asked about twice. `ArmStands` is checked and proved without a sibling's disarm.

So nothing here says that the code is safe from the hazards behind these exceptions. In
`PROJECT.json` those that the code does run into have no property, and a note: the
timer of a sibling's first window (`host_lifecycle.rs:906`), the dropped wait
(`host_table.rs:319`), the verdict that reaches what was asked later
(`team-orchestrator.ts:1382`), the start that outlives a shutdown (297), the repair and
the bounded buffer of a screen (`TerminalEngine.ts:3929`, 3555), and the crossed attempts
of the link (`WebSocketService.ts:124`, 147, 238).

Seen while the modules were written, and followed by them without a definition of their
own:

* Link of the terminal monitor: a second connect within the first one's initial second
  opens two sockets; a health check awaited across a logout opens one after it; the
  late close event of an old socket discards the state of the new link; a failed attempt
  counts once when it is scheduled and once when it fails, so that ten attempts are
  five; a close with 1001 is never reconnected; `onopen` loses the queue if the
  current socket is not the one that opened.
* Agent monitor: the heartbeat ignores a pause and a forced activation is blocked by it,
  both unlike `HUMAN-PAUSE-RESUME.md`; an exit status is overwritten by the
  status `busy` of a call that went on. A resume that fails clears the session it could
  not resume. Terminals that a resume made anew are saved a minute later at the
  earliest. An agent may be asked about while the coordinator's answer is pending, and
  then be verified and given tasks; no check looks at it again.
* Workspace: an insertion next to a pane that is gone loses the pane; named layouts
  are written back as they were read before an await (`StateManager.ts:990`); a split that
  could not be made moves the focus to the pane the tab remembers, which may be closed
  (`panesSlice.ts:330-334`).
* Pane size: the resize before a hydrate is sent for a hidden pane too; the watchdog gives
  up after `MaxMismatch` mismatches without a match.
* Hydration: what was held back for the old process survives a re-targeting; a repair
  during a hydrate can paint output twice.

## 6. What is not modelled, and the plan

Left out of the modelled parts of the host and the GUI: resize, stdin and permission
frames (they change no state that a property relates), the healing of the discovery
record, poisoned locks, logs, and the wording of refusals. Process ids that the
operating system reuses are not modelled. Of the table: the key stages of a ticket
and the nudge of a ticker. Of the lifecycle: a host that exit holds no connection to
(one bounded attempt to reach it), and the hand-over of the MCP port between the arm
and the commit, which changes no arm. Of the pane operations: a `register_page` that
arrives after its page was unloaded and stays the latest (`pages.rs:53-60`).

Left out of the modelled parts in TypeScript: tabs without a terminal, named layouts,
the layout of the canvas, and the ids of saves before the present format (`Workspace`);
the painting itself, links, search and selection (`Hydration`, `RenderPolicy`); the
wording of prompts, metrics and the review loop, and writes of the session that fail or
are torn by a crash, for it is written in place (`TeamMonitor`); the refresh
of tokens and what is received over the link (`MonitorLink`).

Not modelled at all: the MCP holder's loop, the elevated host, the host client, keys
and adoption beyond the lifecycle, updates, automation, the API server and its caches,
the dialogs and settings of the renderer, the MCP server, terminal-kit, and the legacy
API. Their hazards that were met are in `PROJECT.json`, with the reason. The views that
only show what a service returns keep no state that two actors share. The modelled
part of the TypeScript is small beside those views.

Next, in this order:

1. `HostLifecycle`'s `armed` read through `HostContract`: one contract for each
   host, whose arms, disarms and quits are the lifecycle's frames.
2. `HostAdoption`: connecting, the barrier of each host, publication, loss and
   reconnect, retirement, over `HostTable`; then the keys of sessions and the
   owners of panes, composed with `SessionStream`'s routing check and `Hydration`'s
   events.
3. `HostClient`: requests, replies, the write queue, `ConnLoss` and intentional
   close; then opening with a grace period and the discovery record, with two
   hosts and the duplicate guard.
4. `McpHolder`: the holder's loop, its port, hand-back grace and hard cap, and the
   refinement of its end to `McpHold!Ended`.
5. `Update`: one GUI and its siblings over an update, with the calls of
   `sibling_coord.rs` lost, late or refused.
6. `Automation`: the engine's loops and schedule. Then the sidecar supervisor,
   window registry and output pipeline, and the renderer's services that cache.
7. Pure algorithms, as operators against a reference: the frame codec, the
   startup filter, the UTF-8 carry, `plan_reattach`.

Theorems planned: at most one answer for each request, one owner for
each pane.
