---------------------------- MODULE SessionStream ----------------------------
(***************************************************************************)
(* The output of one hosted session, from its shell to the GUI: the replay *)
(* ring (ring.rs), the reader thread and the attach handler that share it  *)
(* under a lock (session.rs), the bounded event channel and the writer     *)
(* task that drains it (transport/mod.rs), and the GUI's reader, which     *)
(* publishes a frame only to a session it has routed (pty_host_client.rs). *)
(*                                                                         *)
(* A byte is its absolute offset, so an output frame is the range from     *)
(* `from` up to but not including `to`, and the ring is [head, tail).      *)
(* Three threads interleave: the session's reader, the serve loop and the  *)
(* connection's writer task.  The connection drops at any point, and the   *)
(* GUI that comes back is the same process or a new one.                   *)
(*                                                                         *)
(* A definition named Mut... is a variant with a plausible bug, which the  *)
(* runs must tell from the definition that follows it.                     *)
(***************************************************************************)
EXTENDS Naturals, Sequences, FiniteSetsExt

CONSTANTS RingCap,     \* RING_CAP, in bytes
          ChanCap,     \* CHAN_CAP, in frames
          MaxBytes,    \* bound: the bytes a shell writes in its life
          MaxChunk,    \* bound: the bytes of one read
          OthersFill,  \* other sessions may fill the shared channel
          WeakMemory   \* the store to `exited` may become visible late

ASSUME SessionStreamAssumption ==
  /\ RingCap \in Nat \ {0} /\ ChanCap \in Nat \ {0}
  /\ MaxBytes \in Nat /\ MaxChunk \in Nat \ {0}
  /\ OthersFill \in BOOLEAN /\ WeakMemory \in BOOLEAN

VARIABLES head, tail,  \* the ring
          attached,    \* Session.attached
          exited,      \* Session.exited, and whether other threads see it
          reader,      \* the reader thread
          host,        \* the serve loop
          chan,        \* the event channel, this session's frames
          listing,     \* a SessionList in the response channel
          client,      \* the GUI's end of the stream
          request,     \* an Attach on its way to the host
          exitLost     \* history: why the Exit was not queued, if it was not

vars == <<head, tail, attached, exited, reader, host, chan, listing, client,
          request, exitLost>>

NoRequest == MaxBytes + 1
Offsets == 0 .. MaxBytes

Out(from, to) == [kind |-> "out", from |-> from, to |-> to]
Gap  == [kind |-> "gap", from |-> 0, to |-> 0]
Exit == [kind |-> "exit", from |-> 0, to |-> 0]
Frames == [kind : {"out", "gap", "exit"}, from : Offsets, to : Offsets]

(* The reader holds the ring lock in "gap" and "out", the serve loop from  *)
(* the snapshot of an attach until it has looked at `exited`.              *)
ReaderHasLock == reader.pc \in {"gap", "out"}
HostHasLock == host.pc \in {"gap", "replay", "flag", "seen"}
Serving == host.pc \notin {"detach", "purge", "hold"}

TypeOK ==
  /\ head \in Offsets /\ tail \in Offsets
  /\ head <= tail /\ tail - head <= RingCap
  /\ attached \in BOOLEAN
  /\ exited \in {"no", "stored", "visible"}
  /\ reader \in [pc : {"read", "gap", "out", "ended", "exit", "done"},
                 from : Offsets, lost : BOOLEAN]
  /\ host \in [pc : {"conn", "gap", "replay", "flag", "seen", "exit",
                     "detach", "purge", "hold"}, from : Offsets]
  /\ chan \in Seq(Frames) /\ Len(chan) <= ChanCap
  /\ listing \in BOOLEAN
  /\ client \in [link : {"down", "up", "asked", "listed", "routed"},
                 next : Offsets, gapped : BOOLEAN, ended : BOOLEAN]
  /\ request \in Offsets \cup {NoRequest}
  /\ exitLost \in {"no", "full", "missed"}
  /\ ~(ReaderHasLock /\ HostHasLock)

(* The shell is spawned for a connected GUI that has routed it already.    *)
Init ==
  /\ head = 0 /\ tail = 0
  /\ attached = TRUE
  /\ exited = "no"
  /\ reader = [pc |-> "read", from |-> 0, lost |-> FALSE]
  /\ host = [pc |-> "conn", from |-> 0]
  /\ chan = <<>>
  /\ listing = FALSE
  /\ client = [link |-> "routed", next |-> 0, gapped |-> FALSE, ended |-> FALSE]
  /\ request = NoRequest
  /\ exitLost = "no"

(* try_send on the shared bounded channel. *)
TrySend(frame, sent) ==
  /\ sent => Len(chan) < ChanCap
  /\ sent \/ Len(chan) = ChanCap \/ OthersFill
  /\ chan' = IF sent THEN Append(chan, frame) ELSE chan

-----------------------------------------------------------------------------
(* The reader thread (run_reader, stream_live). *)

ReaderStep == UNCHANGED <<attached, host, listing, client, request>>

(* ReplayRing::push: the head after n more bytes. *)
MutKeptWhole(n) == head
Evicted(n) == IF tail + n > head + RingCap THEN tail + n - RingCap ELSE head

(* What a pushed chunk meets: it is streamed only while attached, and a    *)
(* Gap goes first when an earlier chunk was dropped.                       *)
MutLossForgotten == IF attached THEN "out" ELSE "read"
AfterPush == IF ~attached THEN "read" ELSE IF reader.lost THEN "gap" ELSE "out"

Push(n) ==
  /\ reader.pc = "read" /\ ~HostHasLock
  /\ tail + n <= MaxBytes
  /\ tail' = tail + n
  /\ head' = Evicted(n)
  /\ reader' = [reader EXCEPT !.pc = AfterPush, !.from = tail]
  /\ UNCHANGED <<exited, chan, exitLost>>
  /\ ReaderStep

StreamGap(sent) ==
  /\ reader.pc = "gap"
  /\ TrySend(Gap, sent)
  /\ reader' = [reader EXCEPT !.pc = IF sent THEN "out" ELSE "read"]
  /\ UNCHANGED <<head, tail, exited, exitLost>>
  /\ ReaderStep

StreamOut(sent) ==
  /\ reader.pc = "out"
  /\ TrySend(Out(reader.from, tail), sent)
  /\ reader' = [reader EXCEPT !.pc = "read", !.lost = ~sent]
  /\ UNCHANGED <<head, tail, exited, exitLost>>
  /\ ReaderStep

(* EOF: the tombstone is stored first, then `attached` is read.            *)
OutputEnds ==
  /\ reader.pc = "read"
  /\ exited' = IF WeakMemory THEN "stored" ELSE "visible"
  /\ reader' = [reader EXCEPT !.pc = "ended"]
  /\ UNCHANGED <<head, tail, chan, exitLost>>
  /\ ReaderStep

LooksAttached ==
  /\ reader.pc = "ended"
  /\ reader' = [reader EXCEPT !.pc = IF attached THEN "exit" ELSE "done"]
  /\ UNCHANGED <<head, tail, exited, chan, exitLost>>
  /\ ReaderStep

ReaderExit(sent) ==
  /\ reader.pc = "exit"
  /\ TrySend(Exit, sent)
  /\ reader' = [reader EXCEPT !.pc = "done"]
  /\ exitLost' = IF sent THEN exitLost ELSE "full"
  /\ UNCHANGED <<head, tail, exited>>
  /\ ReaderStep

(* The delayed store becomes visible. *)
ExitedVisible ==
  /\ exited = "stored"
  /\ exited' = "visible"
  /\ UNCHANGED <<head, tail, reader, chan, exitLost>>
  /\ ReaderStep

-----------------------------------------------------------------------------
(* The serve loop: Session::attach, the listing, the end of a connection.  *)

HostStep == UNCHANGED <<head, tail, exited, reader>>

(* ListSessions: session_metas takes the ring lock for the offsets.        *)
ListSessions ==
  /\ host.pc = "conn" /\ client.link = "up" /\ ~listing
  /\ ~ReaderHasLock
  /\ listing' = TRUE
  /\ client' = [client EXCEPT !.link = "asked"]
  /\ UNCHANGED <<attached, host, chan, request, exitLost>>
  /\ HostStep

(* snapshot_from clamps the offset asked for to what the ring retains.     *)
SnapshotStart(from) == IF from < head THEN head
                       ELSE IF from > tail THEN tail ELSE from

AfterGap(start) == IF start < tail THEN "replay" ELSE "flag"

(* A store that lags behind is visible before the next frame is handled:   *)
(* it can only be missed by an attach that is already under way.           *)
BeginAttach ==
  /\ host.pc = "conn" /\ request # NoRequest
  /\ ~ReaderHasLock /\ exited # "stored"
  /\ LET start == SnapshotStart(request)
     IN  host' = [pc |-> IF request < head THEN "gap" ELSE AfterGap(start),
                  from |-> start]
  /\ request' = NoRequest
  /\ UNCHANGED <<attached, chan, listing, client, exitLost>>
  /\ HostStep

AttachGap(sent) ==
  /\ host.pc = "gap"
  /\ TrySend(Gap, sent)
  /\ host' = [host EXCEPT !.pc = AfterGap(host.from)]
  /\ UNCHANGED <<attached, listing, client, request, exitLost>>
  /\ HostStep

AttachReplay(sent) ==
  /\ host.pc = "replay"
  /\ TrySend(Out(host.from, tail), sent)
  /\ host' = [host EXCEPT !.pc = "flag"]
  /\ UNCHANGED <<attached, listing, client, request, exitLost>>
  /\ HostStep

MutAttachWithoutFlag == UNCHANGED attached
FlagSet == attached' = TRUE

AttachFlag ==
  /\ host.pc = "flag"
  /\ FlagSet
  /\ host' = [host EXCEPT !.pc = "seen"]
  /\ UNCHANGED <<chan, listing, client, request, exitLost>>
  /\ HostStep

(* The tombstone is read and the ring lock released. *)
MutTombstoneIgnored == "conn"
AfterSeen == IF exited = "visible" THEN "exit" ELSE "conn"

AttachSeen ==
  /\ host.pc = "seen"
  /\ host' = [host EXCEPT !.pc = AfterSeen]
  /\ exitLost' = IF exited = "stored" /\ reader.pc = "done" THEN "missed" ELSE exitLost
  /\ UNCHANGED <<attached, chan, listing, client, request>>
  /\ HostStep

AttachExit(sent) ==
  /\ host.pc = "exit"
  /\ TrySend(Exit, sent)
  /\ host' = [host EXCEPT !.pc = "conn"]
  /\ exitLost' = IF sent THEN exitLost ELSE "full"
  /\ UNCHANGED <<attached, listing, client, request>>
  /\ HostStep

(* The loop reads the end of the connection: the writer task is stopped,   *)
(* then the session detached, then the backlog purged, then a client       *)
(* awaited (run_connection, on_gui_disconnect, serve_loop).                *)
ConnectionEnds ==
  /\ host.pc = "conn" /\ client.link = "down"
  /\ host' = [host EXCEPT !.pc = "detach"]
  /\ listing' = FALSE
  /\ UNCHANGED <<attached, chan, client, request, exitLost>>
  /\ HostStep

Detach ==
  /\ host.pc = "detach"
  /\ attached' = FALSE
  /\ host' = [host EXCEPT !.pc = "purge"]
  /\ UNCHANGED <<chan, listing, client, request, exitLost>>
  /\ HostStep

MutPurgeNothing == UNCHANGED chan
PurgeBacklog == chan' = <<>>

Purge ==
  /\ host.pc = "purge"
  /\ PurgeBacklog
  /\ host' = [host EXCEPT !.pc = "hold"]
  /\ UNCHANGED <<attached, listing, client, request, exitLost>>
  /\ HostStep

-----------------------------------------------------------------------------
(* The writer task and the GUI.  A frame for a session that is not routed, *)
(* or whose pane has ended, is dropped by the GUI.                         *)

Takes == client.link = "routed" /\ ~client.ended

Received(frame) ==
  IF ~Takes THEN client
  ELSE CASE frame.kind = "out"  -> [client EXCEPT !.next = frame.to, !.gapped = FALSE]
         [] frame.kind = "gap"  -> [client EXCEPT !.gapped = TRUE]
         [] frame.kind = "exit" -> [client EXCEPT !.ended = TRUE]

Deliver ==
  /\ Serving /\ chan # <<>>
  /\ chan' = Tail(chan)
  /\ client' = Received(Head(chan))
  /\ UNCHANGED <<head, tail, attached, exited, reader, host, listing, request, exitLost>>

(* The writer's select is biased: a response waits for the events.         *)
DeliverListing ==
  /\ Serving /\ chan = <<>>
  /\ listing /\ client.link = "asked"
  /\ listing' = FALSE
  /\ client' = [client EXCEPT !.link = "listed"]
  /\ UNCHANGED <<head, tail, attached, exited, reader, host, chan, request, exitLost>>

(* plan_reattach: from the offset consumed, unless the ring never reached  *)
(* it.  The tail only grows, so the one listed is as good as the one now.  *)
ResumeFrom == IF client.next > tail THEN 0 ELSE client.next

(* After the listing the GUI publishes the route and asks for the rest.    *)
Reattach ==
  /\ client.link = "listed" /\ ~client.ended
  /\ client' = [client EXCEPT !.link = "routed"]
  /\ request' = ResumeFrom
  /\ exitLost' = "no"
  /\ UNCHANGED <<head, tail, attached, exited, reader, host, chan, listing>>

Drop ==
  /\ client.link # "down"
  /\ client' = [client EXCEPT !.link = "down"]
  /\ request' = NoRequest
  /\ UNCHANGED <<head, tail, attached, exited, reader, host, chan, listing, exitLost>>

(* The same GUI reconnects in place, or a new one starts from nothing.     *)
Reconnect(sameGui) ==
  /\ host.pc = "hold" /\ client.link = "down"
  /\ host' = [host EXCEPT !.pc = "conn"]
  /\ client' = IF sameGui THEN [client EXCEPT !.link = "up"]
               ELSE [link |-> "up", next |-> 0, gapped |-> FALSE, ended |-> FALSE]
  /\ UNCHANGED <<head, tail, attached, exited, reader, chan, listing, request, exitLost>>

Reader ==
  \/ \E n \in 1 .. MaxChunk : Push(n)
  \/ OutputEnds \/ LooksAttached
  \/ \E sent \in BOOLEAN : StreamGap(sent) \/ StreamOut(sent) \/ ReaderExit(sent)
  \/ ExitedVisible

Host ==
  \/ ListSessions \/ BeginAttach \/ AttachFlag \/ AttachSeen
  \/ \E sent \in BOOLEAN : AttachGap(sent) \/ AttachReplay(sent) \/ AttachExit(sent)
  \/ ConnectionEnds \/ Detach \/ Purge

Next ==
  \/ Reader
  \/ Host
  \/ Deliver \/ DeliverListing
  \/ Reattach \/ Drop
  \/ \E sameGui \in BOOLEAN : Reconnect(sameGui)

Spec == Init /\ [][Next]_vars

(* The three threads keep running; nothing is assumed of the shell, of the *)
(* connection or of the GUI.                                               *)
Fairness ==
  /\ \A sent \in BOOLEAN :
       /\ WF_vars(StreamGap(sent)) /\ WF_vars(StreamOut(sent))
       /\ WF_vars(ReaderExit(sent))
       /\ WF_vars(AttachGap(sent)) /\ WF_vars(AttachReplay(sent))
       /\ WF_vars(AttachExit(sent))
  /\ WF_vars(LooksAttached) /\ WF_vars(ExitedVisible)
  /\ WF_vars(BeginAttach)
  /\ WF_vars(AttachFlag) /\ WF_vars(AttachSeen)
  /\ WF_vars(ConnectionEnds) /\ WF_vars(Detach) /\ WF_vars(Purge)
  /\ WF_vars(Deliver) /\ WF_vars(DeliverListing)

FairSpec == Spec /\ Fairness

-----------------------------------------------------------------------------
(* Safety.  What the GUI will have been given once it has taken the first  *)
(* i - 1 frames of the channel.                                            *)

OutsBefore(i) == {j \in 1 .. i - 1 : chan[j].kind = "out"}

GivenBefore(i) ==
  IF OutsBefore(i) = {} THEN client.next ELSE chan[Max(OutsBefore(i))].to

ToldBefore(i) ==
  \/ \E j \in 1 .. i - 1 :
       chan[j].kind = "gap" /\ \A k \in OutsBefore(i) : k < j
  \/ OutsBefore(i) = {} /\ client.gapped

(* No output is shown twice: whatever is queued for a GUI that takes it    *)
(* starts at or after the last byte it was given.  A live frame of the     *)
(* connection before, enqueued after the purge, must therefore be gone     *)
(* before the session is routed again.                                     *)
NoByteTwice ==
  Takes => \A i \in DOMAIN chan :
             chan[i].kind = "out" => chan[i].from >= GivenBefore(i)

(* No output is skipped in silence: where a queued frame does not continue *)
(* what the GUI was given, a Gap stands before it.                         *)
NoSilentSkip ==
  Takes => \A i \in DOMAIN chan :
             chan[i].kind = "out" /\ chan[i].from > GivenBefore(i) => ToldBefore(i)

(* The GUI is attached to the stream and its attach has been served.       *)
Streaming == Takes /\ request = NoRequest /\ host.pc \in {"conn", "exit"}

(* Output that the GUI will not be given from the channel is remembered by *)
(* the reader, whose next chunk is then announced by a Gap.                *)
LossIsRemembered ==
  Streaming /\ ~ReaderHasLock =>
    \/ GivenBefore(Len(chan) + 1) = tail
    \/ reader.lost

(* What a GUI is shown is the output, each byte once and nothing left out   *)
(* unannounced, and a loss it has not been told of is not forgotten.        *)
OutputExact == NoByteTwice /\ NoSilentSkip /\ LossIsRemembered

(* The end of a session reaches an attached GUI: from the reader or from   *)
(* attach, the Exit is queued, unless the channel was full, or the attach   *)
(* read `exited` before the store the reader had made was to be seen.       *)
ExitReported ==
  Streaming /\ host.pc = "conn" /\ reader.pc = "done" /\ exitLost = "no" =>
    \E i \in DOMAIN chan : chan[i].kind = "exit"

(* While held, the channel keeps no backlog of the connection before, only *)
(* what a reader had in its hands when the session was detached.           *)
NoBacklogHeld == host.pc = "hold" => Len(chan) <= 2

-----------------------------------------------------------------------------
(* Liveness. *)

(* A GUI that stays routed is given all the output, except a tail that was *)
(* dropped and is remembered.                                              *)
StreamCatchesUp ==
  <>[](client.link = "routed") =>
    []<>(client.ended \/ client.next = tail \/ reader.lost)

(* A GUI that stays routed learns that the session has ended.              *)
ExitArrives ==
  <>[](client.link = "routed" /\ reader.pc = "done" /\ exitLost = "no") => <>client.ended

(* A routed GUI is served to the end: the output, and the news of the end.  *)
StreamServed == StreamCatchesUp /\ ExitArrives

-----------------------------------------------------------------------------
(* What the comments say and the code does not do. *)

(* session.rs: on overflow the reader drops the frame and emits one Gap so *)
(* the GUI resyncs.  Once the shell has ended and everything queued has    *)
(* been delivered, a GUI that misses output has been told.                 *)
TailLossAnnounced ==
  Streaming /\ reader.pc = "done" /\ chan = <<>> =>
    client.next = tail \/ client.gapped

(* session.rs: Exit is durable, and what the reader does not stream the     *)
(* next attach emits.                                                      *)
ExitDurable ==
  Streaming /\ host.pc = "conn" /\ reader.pc = "done" /\ exitLost # "full" =>
    \E i \in DOMAIN chan : chan[i].kind = "exit"

(* session.rs: a replay is always queued before any live frame.  While an  *)
(* attach is on its way nothing of the session is queued.                  *)
ReplayBeforeLive == Takes /\ request # NoRequest => chan = <<>>
=============================================================================
