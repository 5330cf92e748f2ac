------------------------ MODULE SessionStream_proofs ------------------------
(***************************************************************************)
(* The stream of a session, for every ring, chunk, number of bytes and     *)
(* channel.  The argument is about one number: End, where the output that  *)
(* the GUI will have been given ends once the channel is empty.  The ring's *)
(* lock keeps the reader and an attach apart, so each starts its frame at  *)
(* or after End; and whoever starts it after End has queued a Gap first,   *)
(* or has its loss remembered.  A channel of at least three frames that no *)
(* other session fills always has room for what an attach sends, because   *)
(* between the listing and the replay nothing but an Exit is queued.       *)
(***************************************************************************)
EXTENDS SessionStream, WellFoundedInduction, TLAPS

(***************************************************************************)
(* The invariant                                                           *)
(***************************************************************************)
(* What the GUI will have been given, and told, when the channel is empty. *)
End  == GivenBefore(Len(chan) + 1)
Told == ToldBefore(Len(chan) + 1)

(* CHAN_CAP is 512; a Gap, a replay and the Exit need three.               *)
Roomy == ChanCap >= 3 /\ ~OthersFill

(* The link of the GUI against the serve loop and the flag.                *)
LinkPart ==
  /\ host.pc \in {"detach", "purge", "hold"} => client.link = "down"
  /\ host.pc \in {"gap", "replay", "flag", "seen", "exit"} =>
       client.link \in {"down", "routed"} /\ request = NoRequest
  /\ host.pc \in {"purge", "hold"} => ~attached
  /\ client.link \in {"up", "asked", "listed"} =>
       host.pc = "conn" /\ ~attached /\ request = NoRequest
  /\ request # NoRequest => client.link = "routed" /\ host.pc = "conn" /\ ~attached
  /\ client.link = "routed" /\ request = NoRequest /\ host.pc \in {"seen", "exit", "conn"}
       => attached
  /\ client.link \in {"asked", "listed"} \/ request # NoRequest => ~ReaderHasLock

(* Where the ring, the threads and the GUI stand.                          *)
OffsetPart ==
  /\ head = tail => tail = 0
  /\ client.next <= tail
  /\ request # NoRequest => request = client.next
  /\ reader.from <= tail
  /\ reader.pc = "gap" => reader.lost
  /\ host.pc \in {"gap", "replay"} => host.from < tail

FramePart == \A i \in DOMAIN chan : chan[i].kind = "out" => chan[i].to <= tail

(* From the listing to the replay nothing but news of the end is queued,    *)
(* and there is room for it.                                               *)
ExitOwed == IF reader.pc = "done" THEN 0 ELSE 1
Quiet ==
  /\ client.link = "listed" \/ request # NoRequest \/ (client.link = "routed" /\ host.pc = "gap") =>
       Len(chan) + ExitOwed <= 1 /\ \A i \in DOMAIN chan : chan[i].kind = "exit"
  /\ client.link = "routed" /\ host.pc = "replay" =>
       Len(chan) + ExitOwed <= 2 /\ \A i \in DOMAIN chan : chan[i].kind # "out"

(* What the next frame meets.                                              *)
NextPart ==
  Takes =>
    /\ End <= tail
    /\ host.pc \in {"gap", "replay"} => End <= host.from
    /\ Roomy /\ host.pc = "replay" => End = host.from \/ Told
    /\ Roomy /\ request = NoRequest /\ host.pc \in {"flag", "seen", "exit", "conn"} /\ ~ReaderHasLock
         => End = tail \/ reader.lost
    /\ ReaderHasLock => End <= reader.from
    /\ Roomy /\ reader.pc = "out" => End = reader.from \/ Told

ChainPart == NoByteTwice /\ (Roomy => NoSilentSkip)

ExitPart ==
  /\ exited = "no" <=> reader.pc \in {"read", "gap", "out"}
  /\ ExitReported

(* What a reader still has in its hands once the session is detached.      *)
InHand == CASE reader.pc = "gap" -> 2 [] reader.pc \in {"out", "exit"} -> 1 [] OTHER -> 0
HoldPart == host.pc = "hold" => Len(chan) + InHand <= 2

StreamInv ==
  /\ TypeOK /\ LinkPart /\ OffsetPart /\ FramePart /\ Quiet
  /\ NextPart /\ ChainPart /\ ExitPart /\ HoldPart

(***************************************************************************)
(* Types                                                                   *)
(***************************************************************************)
(* A frame that is tried leaves a channel of frames that is not too long.  *)
LEMMA Sent ==
  ASSUME TypeOK, NEW f \in Frames, NEW sent \in BOOLEAN, TrySend(f, sent)
  PROVE  chan' \in Seq(Frames) /\ Len(chan') <= ChanCap
BY SessionStreamAssumption DEF TypeOK, TrySend

(* The three frames of the stream are frames.                              *)
LEMMA FramesTyped ==
  /\ Gap \in Frames /\ Exit \in Frames
  /\ \A from, to \in Offsets : Out(from, to) \in Frames
BY SessionStreamAssumption DEF Gap, Exit, Out, Frames, Offsets

(* The frame the connection takes next.                                    *)
LEMMA HeadTyped ==
  ASSUME TypeOK, chan # <<>>
  PROVE  Head(chan) \in Frames /\ Tail(chan) \in Seq(Frames) /\ Len(Tail(chan)) = Len(chan) - 1
BY DEF TypeOK

(* Types, initially.                                                       *)
LEMMA TypeInit == Init => TypeOK
<1> SUFFICES ASSUME Init PROVE TypeOK
  OBVIOUS
<1>1. 0 \in Offsets
  BY SessionStreamAssumption DEF Offsets
<1>2. chan \in Seq(Frames) /\ Len(chan) <= ChanCap
  BY SessionStreamAssumption DEF Init
<1>3. tail - head <= RingCap
  BY SessionStreamAssumption DEF Init
<1>4. ~ReaderHasLock
  BY DEF Init, ReaderHasLock
<1>5. attached \in BOOLEAN /\ listing \in BOOLEAN
  BY DEF Init
<1> QED BY <1>1, <1>2, <1>3, <1>4, <1>5 DEF Init, TypeOK

(* Types, after a step of the reader.                                      *)
LEMMA TypeReader ==
  ASSUME TypeOK, Reader PROVE TypeOK'
<1> USE DEF ReaderStep, ReaderHasLock, HostHasLock
<1>1. ASSUME NEW n \in 1 .. MaxChunk, Push(n) PROVE TypeOK'
  <2>1. AfterPush \in {"read", "gap", "out"}
    BY DEF AfterPush
  <2>2. tail' \in Offsets /\ head' \in Offsets /\ head' <= tail' /\ tail' - head' <= RingCap
    <3>1. /\ tail \in Nat /\ head \in Nat /\ head <= tail /\ tail - head <= RingCap
          /\ n \in Nat /\ RingCap \in Nat /\ MaxBytes \in Nat
      BY SessionStreamAssumption DEF TypeOK, Offsets
    <3>2. tail' = tail + n /\ tail + n <= MaxBytes
      BY <1>1 DEF Push
    <3>3. head' = IF tail + n > head + RingCap THEN tail + n - RingCap ELSE head
      BY <1>1 DEF Push, Evicted
    <3>4. tail' \in Nat /\ head' \in Nat /\ head' <= tail' /\ tail' - head' <= RingCap
      BY <3>1, <3>2, <3>3
    <3>5. tail' <= MaxBytes /\ head' <= MaxBytes
      BY <3>1, <3>2, <3>4
    <3>6. tail' \in Offsets /\ head' \in Offsets
      BY <3>1, <3>4, <3>5 DEF Offsets
    <3> QED BY <3>4, <3>6
  <2>3. reader' \in [pc : {"read", "gap", "out", "ended", "exit", "done"},
                     from : Offsets, lost : BOOLEAN]
    BY <1>1, <2>1 DEF TypeOK, Push
  <2>4. UNCHANGED <<exited, chan, exitLost, attached, host, listing, client, request>>
        /\ ~HostHasLock
    BY <1>1 DEF Push
  <2> QED BY <2>2, <2>3, <2>4 DEF TypeOK
<1>2. ASSUME NEW sent \in BOOLEAN, StreamGap(sent) PROVE TypeOK'
  <2>1. chan' \in Seq(Frames) /\ Len(chan') <= ChanCap
    BY <1>2, Sent, FramesTyped DEF StreamGap
  <2> QED BY <1>2, <2>1 DEF TypeOK, StreamGap
<1>3. ASSUME NEW sent \in BOOLEAN, StreamOut(sent) PROVE TypeOK'
  <2>1. chan' \in Seq(Frames) /\ Len(chan') <= ChanCap
    BY <1>3, Sent, FramesTyped DEF StreamOut, TypeOK
  <2>2. reader' = [reader EXCEPT !.pc = "read", !.lost = ~sent] /\ (~sent) \in BOOLEAN
    BY <1>3 DEF StreamOut
  <2>3. reader'.pc = "read" /\ reader' \in [pc : {"read", "gap", "out", "ended", "exit", "done"},
                                           from : Offsets, lost : BOOLEAN]
    BY <2>2 DEF TypeOK
  <2>4. UNCHANGED <<head, tail, exited, exitLost, attached, host, listing, client, request>>
    BY <1>3 DEF StreamOut
  <2> QED BY <2>1, <2>3, <2>4 DEF TypeOK
<1>4. CASE OutputEnds
  BY <1>4 DEF TypeOK, OutputEnds
<1>5. CASE LooksAttached
  BY <1>5 DEF TypeOK, LooksAttached
<1>6. ASSUME NEW sent \in BOOLEAN, ReaderExit(sent) PROVE TypeOK'
  <2>1. chan' \in Seq(Frames) /\ Len(chan') <= ChanCap
    BY <1>6, Sent, FramesTyped DEF ReaderExit
  <2> QED BY <1>6, <2>1 DEF TypeOK, ReaderExit
<1>7. CASE ExitedVisible
  BY <1>7 DEF TypeOK, ExitedVisible
<1> QED BY <1>1, <1>2, <1>3, <1>4, <1>5, <1>6, <1>7 DEF Reader

(* Types, after a step of the serve loop.                                  *)
LEMMA TypeHost ==
  ASSUME TypeOK, Host PROVE TypeOK'
<1> USE DEF HostStep, ReaderHasLock, HostHasLock
<1>1. CASE ListSessions
  BY <1>1 DEF TypeOK, ListSessions
<1>2. CASE BeginAttach
  <2>1. SnapshotStart(request) \in Offsets
    BY <1>2, SessionStreamAssumption DEF TypeOK, BeginAttach, SnapshotStart, Offsets, NoRequest
  <2>2. AfterGap(SnapshotStart(request)) \in {"replay", "flag"}
    BY DEF AfterGap
  <2> QED BY <1>2, <2>1, <2>2 DEF TypeOK, BeginAttach
<1>3. ASSUME NEW sent \in BOOLEAN, AttachGap(sent) PROVE TypeOK'
  <2>1. chan' \in Seq(Frames) /\ Len(chan') <= ChanCap
    BY <1>3, Sent, FramesTyped DEF AttachGap
  <2>2. AfterGap(host.from) \in {"replay", "flag"}
    BY DEF AfterGap
  <2> QED BY <1>3, <2>1, <2>2 DEF TypeOK, AttachGap
<1>4. ASSUME NEW sent \in BOOLEAN, AttachReplay(sent) PROVE TypeOK'
  <2>1. chan' \in Seq(Frames) /\ Len(chan') <= ChanCap
    BY <1>4, Sent, FramesTyped DEF AttachReplay, TypeOK
  <2> QED BY <1>4, <2>1 DEF TypeOK, AttachReplay
<1>5. CASE AttachFlag
  BY <1>5 DEF TypeOK, AttachFlag, FlagSet
<1>6. CASE AttachSeen
  <2>1. AfterSeen \in {"conn", "exit"}
    BY DEF AfterSeen
  <2> QED BY <1>6, <2>1 DEF TypeOK, AttachSeen
<1>7. ASSUME NEW sent \in BOOLEAN, AttachExit(sent) PROVE TypeOK'
  <2>1. chan' \in Seq(Frames) /\ Len(chan') <= ChanCap
    BY <1>7, Sent, FramesTyped DEF AttachExit
  <2> QED BY <1>7, <2>1 DEF TypeOK, AttachExit
<1>8. CASE ConnectionEnds
  <2> USE <1>8 DEF ConnectionEnds
  <2>1. host' \in [pc : {"gap", "replay", "flag", "seen", "exit", "conn", "detach", "purge", "hold"},
                   from : Offsets]
    BY DEF TypeOK
  <2>2. ~HostHasLock'
    BY DEF TypeOK
  <2>3. listing' \in BOOLEAN
    OBVIOUS
  <2>4. UNCHANGED <<head, tail, exited, reader, attached, chan, client, request, exitLost>>
    OBVIOUS
  <2> QED BY ONLY TypeOK, <2>1, <2>2, <2>3, <2>4 DEF TypeOK, ReaderHasLock
<1>9. CASE Detach
  <2>1. attached' \in BOOLEAN
    BY <1>9 DEF Detach
  <2> QED BY <1>9, <2>1 DEF TypeOK, Detach
<1>10. CASE Purge
  BY <1>10, SessionStreamAssumption DEF TypeOK, Purge, PurgeBacklog
<1> QED BY <1>1, <1>2, <1>3, <1>4, <1>5, <1>6, <1>7, <1>8, <1>9, <1>10 DEF Host

(* Every step keeps the types.                                             *)
LEMMA TypeKept ==
  ASSUME TypeOK, [Next]_vars PROVE TypeOK'
<1> USE DEF ReaderHasLock, HostHasLock
<1>1. CASE Reader
  BY <1>1, TypeReader
<1>2. CASE Host
  BY <1>2, TypeHost
<1>3. CASE Deliver
  <2>1. chan' \in Seq(Frames) /\ Len(chan') <= ChanCap
    BY <1>3, HeadTyped, SessionStreamAssumption DEF Deliver, TypeOK
  <2>2. Head(chan).to \in Offsets /\ Head(chan).kind \in {"out", "gap", "exit"}
    BY <1>3, HeadTyped DEF Deliver, Frames
  <2>3. \/ client' = client
        \/ client' = [client EXCEPT !.next = Head(chan).to, !.gapped = FALSE]
        \/ client' = [client EXCEPT !.gapped = TRUE]
        \/ client' = [client EXCEPT !.ended = TRUE]
    BY <1>3, <2>2 DEF Deliver, Received
  <2>4. client' \in [link : {"down", "up", "asked", "listed", "routed"},
                     next : Offsets, gapped : BOOLEAN, ended : BOOLEAN]
    BY <2>2, <2>3 DEF TypeOK
  <2> QED BY <1>3, <2>1, <2>4 DEF TypeOK, Deliver
<1>4. CASE DeliverListing
  <2>1. listing' \in BOOLEAN
    BY <1>4 DEF DeliverListing
  <2> QED BY <1>4, <2>1 DEF TypeOK, DeliverListing
<1>5. CASE Reattach
  <2>1. ResumeFrom \in Offsets
    BY SessionStreamAssumption DEF TypeOK, ResumeFrom, Offsets
  <2> QED BY <1>5, <2>1 DEF TypeOK, Reattach
<1>6. CASE Drop
  BY <1>6 DEF TypeOK, Drop
<1>7. ASSUME NEW sameGui \in BOOLEAN, Reconnect(sameGui) PROVE TypeOK'
  <2>1. 0 \in Offsets
    BY SessionStreamAssumption DEF Offsets
  <2>2. client' = [client EXCEPT !.link = "up"]
        \/ client' = [link |-> "up", next |-> 0, gapped |-> FALSE, ended |-> FALSE]
    BY <1>7 DEF Reconnect
  <2> QED BY <1>7, <2>1, <2>2 DEF TypeOK, Reconnect
<1>8. CASE UNCHANGED vars
  BY <1>8 DEF vars, TypeOK
<1> QED BY <1>1, <1>2, <1>3, <1>4, <1>5, <1>6, <1>7, <1>8 DEF Next

(***************************************************************************)
(* What a step does to the channel and to the GUI                          *)
(***************************************************************************)
(* try_send, and the room that a roomy channel has.                        *)
LEMMA Tried ==
  ASSUME TypeOK, NEW f \in Frames, NEW sent \in BOOLEAN, TrySend(f, sent)
  PROVE  /\ sent => chan' = Append(chan, f)
         /\ ~sent => chan' = chan
         /\ Roomy /\ Len(chan) < 3 => sent
<1>1. ASSUME Roomy, Len(chan) < 3, ~sent PROVE FALSE
  BY <1>1, SessionStreamAssumption DEF TypeOK, TrySend, Roomy
<1> QED BY <1>1 DEF TrySend

(* What the GUI does with the frame it is given.                           *)
LEMMA GuiGets ==
  ASSUME TypeOK, Deliver
  PROVE  /\ ~Takes => client' = client
         /\ Takes =>
              CASE Head(chan).kind = "out" ->
                     client' = [client EXCEPT !.next = Head(chan).to, !.gapped = FALSE]
                [] Head(chan).kind = "gap" -> client' = [client EXCEPT !.gapped = TRUE]
                [] OTHER -> client' = [client EXCEPT !.ended = TRUE]
         /\ client'.link = client.link
         /\ Head(chan).kind # "out" => client'.next = client.next
<1>1. Head(chan).kind \in {"out", "gap", "exit"}
  BY HeadTyped DEF Deliver, Frames
<1>2. CASE ~Takes
  BY <1>2 DEF Deliver, Received
<1>3. CASE Takes /\ Head(chan).kind = "out"
  BY <1>3 DEF Deliver, Received, TypeOK
<1>4. CASE Takes /\ Head(chan).kind = "gap"
  BY <1>4 DEF Deliver, Received, TypeOK
<1>5. CASE Takes /\ Head(chan).kind = "exit"
  BY <1>5 DEF Deliver, Received, TypeOK
<1> QED BY <1>1, <1>2, <1>3, <1>4, <1>5

(* A request to resume is an offset, and no offset is the absence of one.  *)
LEMMA ResumeTyped ==
  ASSUME TypeOK PROVE ResumeFrom \in Offsets /\ NoRequest \notin Offsets
BY SessionStreamAssumption DEF TypeOK, ResumeFrom, Offsets, NoRequest

(* Each step keeps the link in step with the serve loop and the flag.      *)
LEMMA LinkKept ==
  ASSUME TypeOK, LinkPart, [Next]_vars
  PROVE  LinkPart'
<1> USE DEF TypeOK, LinkPart, ReaderHasLock, HostHasLock
<1>1. ASSUME NEW n \in 1 .. MaxChunk, Push(n) PROVE LinkPart'
  BY <1>1 DEF Push, ReaderStep, AfterPush
<1>2. ASSUME NEW sent \in BOOLEAN, StreamGap(sent) PROVE LinkPart'
  BY <1>2 DEF StreamGap, ReaderStep
<1>3. ASSUME NEW sent \in BOOLEAN, StreamOut(sent) PROVE LinkPart'
  BY <1>3 DEF StreamOut, ReaderStep
<1>4. ASSUME OutputEnds PROVE LinkPart'
  BY <1>4 DEF OutputEnds, ReaderStep
<1>5. ASSUME LooksAttached PROVE LinkPart'
  BY <1>5 DEF LooksAttached, ReaderStep
<1>6. ASSUME NEW sent \in BOOLEAN, ReaderExit(sent) PROVE LinkPart'
  BY <1>6 DEF ReaderExit, ReaderStep
<1>7. ASSUME ExitedVisible PROVE LinkPart'
  BY <1>7 DEF ExitedVisible, ReaderStep
<1>8. ASSUME ListSessions PROVE LinkPart'
  BY <1>8 DEF ListSessions, HostStep
<1>9. ASSUME BeginAttach PROVE LinkPart'
  BY <1>9 DEF BeginAttach, HostStep, AfterGap
<1>10. ASSUME NEW sent \in BOOLEAN, AttachGap(sent) PROVE LinkPart'
  BY <1>10 DEF AttachGap, HostStep, AfterGap
<1>11. ASSUME NEW sent \in BOOLEAN, AttachReplay(sent) PROVE LinkPart'
  BY <1>11 DEF AttachReplay, HostStep
<1>12. ASSUME AttachFlag PROVE LinkPart'
  BY <1>12 DEF AttachFlag, HostStep, FlagSet
<1>13. ASSUME AttachSeen PROVE LinkPart'
  BY <1>13 DEF AttachSeen, HostStep, AfterSeen
<1>14. ASSUME NEW sent \in BOOLEAN, AttachExit(sent) PROVE LinkPart'
  BY <1>14 DEF AttachExit, HostStep
<1>15. ASSUME ConnectionEnds PROVE LinkPart'
  BY <1>15 DEF ConnectionEnds, HostStep
<1>16. ASSUME Detach PROVE LinkPart'
  BY <1>16 DEF Detach, HostStep
<1>17. ASSUME Purge PROVE LinkPart'
  BY <1>17 DEF Purge, HostStep
<1>18. ASSUME Deliver PROVE LinkPart'
  BY <1>18, GuiGets DEF Deliver
<1>19. ASSUME DeliverListing PROVE LinkPart'
  BY <1>19 DEF DeliverListing
<1>20. ASSUME Reattach PROVE LinkPart'
  BY <1>20, ResumeTyped DEF Reattach, ResumeFrom
<1>21. ASSUME Drop PROVE LinkPart'
  BY <1>21 DEF Drop
<1>22. ASSUME NEW sameGui \in BOOLEAN, Reconnect(sameGui) PROVE LinkPart'
  BY <1>22 DEF Reconnect
<1>23. CASE UNCHANGED vars
  BY <1>23 DEF vars
<1> QED BY <1>1, <1>2, <1>3, <1>4, <1>5, <1>6, <1>7, <1>8, <1>9, <1>10,
           <1>11, <1>12, <1>13, <1>14, <1>15, <1>16,
           <1>17, <1>18, <1>19, <1>20, <1>21, <1>22, <1>23
       DEF Next, Reader, Host

(* A detached reader sends at most what it already had in its hands.       *)
LEMMA HoldKept ==
  ASSUME TypeOK, LinkPart, HoldPart, [Next]_vars
  PROVE  HoldPart'
<1> USE DEF HoldPart, InHand
<1>1. ASSUME NEW n \in 1 .. MaxChunk, Push(n) PROVE HoldPart'
  BY <1>1 DEF Push, ReaderStep, AfterPush, LinkPart, TypeOK
<1>2. ASSUME NEW sent \in BOOLEAN, StreamGap(sent) PROVE HoldPart'
  BY <1>2, Tried, FramesTyped DEF StreamGap, ReaderStep, TypeOK, LinkPart
<1>3. ASSUME NEW sent \in BOOLEAN, StreamOut(sent) PROVE HoldPart'
  BY <1>3, Tried, FramesTyped DEF StreamOut, ReaderStep, TypeOK, LinkPart
<1>4. ASSUME OutputEnds PROVE HoldPart'
  BY <1>4 DEF OutputEnds, ReaderStep, TypeOK
<1>5. ASSUME LooksAttached PROVE HoldPart'
  BY <1>5 DEF LooksAttached, ReaderStep, TypeOK, LinkPart
<1>6. ASSUME NEW sent \in BOOLEAN, ReaderExit(sent) PROVE HoldPart'
  BY <1>6, Tried, FramesTyped DEF ReaderExit, ReaderStep, TypeOK, LinkPart
<1>7. ASSUME ExitedVisible PROVE HoldPart'
  BY <1>7 DEF ExitedVisible, ReaderStep
<1>8. ASSUME ListSessions PROVE HoldPart'
  BY <1>8 DEF ListSessions, HostStep
<1>9. ASSUME BeginAttach PROVE HoldPart'
  BY <1>9 DEF BeginAttach, HostStep, AfterGap, TypeOK
<1>10. ASSUME NEW sent \in BOOLEAN, AttachGap(sent) PROVE HoldPart'
  BY <1>10 DEF AttachGap, HostStep, AfterGap, TypeOK
<1>11. ASSUME NEW sent \in BOOLEAN, AttachReplay(sent) PROVE HoldPart'
  BY <1>11 DEF AttachReplay, HostStep, TypeOK
<1>12. ASSUME AttachFlag PROVE HoldPart'
  BY <1>12 DEF AttachFlag, HostStep, TypeOK
<1>13. ASSUME AttachSeen PROVE HoldPart'
  BY <1>13 DEF AttachSeen, HostStep, AfterSeen, TypeOK
<1>14. ASSUME NEW sent \in BOOLEAN, AttachExit(sent) PROVE HoldPart'
  BY <1>14 DEF AttachExit, HostStep, TypeOK
<1>15. ASSUME ConnectionEnds PROVE HoldPart'
  BY <1>15 DEF ConnectionEnds, HostStep, TypeOK
<1>16. ASSUME Detach PROVE HoldPart'
  BY <1>16 DEF Detach, HostStep, TypeOK
<1>17. ASSUME Purge PROVE HoldPart'
  BY <1>17 DEF Purge, HostStep, PurgeBacklog, TypeOK
<1>18. ASSUME Deliver PROVE HoldPart'
  BY <1>18 DEF Deliver, Serving
<1>19. ASSUME DeliverListing PROVE HoldPart'
  BY <1>19 DEF DeliverListing
<1>20. ASSUME Reattach PROVE HoldPart'
  BY <1>20 DEF Reattach
<1>21. ASSUME Drop PROVE HoldPart'
  BY <1>21 DEF Drop
<1>22. ASSUME NEW sameGui \in BOOLEAN, Reconnect(sameGui) PROVE HoldPart'
  BY <1>22 DEF Reconnect, TypeOK
<1>23. CASE UNCHANGED vars
  BY <1>23 DEF vars
<1> QED BY <1>1, <1>2, <1>3, <1>4, <1>5, <1>6, <1>7, <1>8, <1>9, <1>10,
           <1>11, <1>12, <1>13, <1>14, <1>15, <1>16,
           <1>17, <1>18, <1>19, <1>20, <1>21, <1>22, <1>23
       DEF Next, Reader, Host

(* The reader, or the attach that saw `exited`, queues the Exit.           *)
LEMMA ExitKept ==
  ASSUME TypeOK, LinkPart, ExitPart, [Next]_vars
  PROVE  ExitPart'
<1> USE DEF TypeOK, ExitPart, ExitReported, Streaming, Takes
<1>1. ASSUME NEW n \in 1 .. MaxChunk, Push(n) PROVE ExitPart'
  BY <1>1 DEF Push, ReaderStep, AfterPush, HostHasLock
<1>2. ASSUME NEW sent \in BOOLEAN, StreamGap(sent) PROVE ExitPart'
  BY <1>2, Tried, FramesTyped DEF StreamGap, ReaderStep
<1>3. ASSUME NEW sent \in BOOLEAN, StreamOut(sent) PROVE ExitPart'
  BY <1>3, Tried, FramesTyped DEF StreamOut, ReaderStep
<1>4. ASSUME OutputEnds PROVE ExitPart'
  BY <1>4 DEF OutputEnds, ReaderStep
<1>5. ASSUME LooksAttached PROVE ExitPart'
  BY <1>5 DEF LooksAttached, ReaderStep, LinkPart
<1>6. ASSUME NEW sent \in BOOLEAN, ReaderExit(sent) PROVE ExitPart'
  BY <1>6, Tried, FramesTyped DEF ReaderExit, ReaderStep, Exit
<1>7. ASSUME ExitedVisible PROVE ExitPart'
  BY <1>7 DEF ExitedVisible, ReaderStep
<1>8. ASSUME ListSessions PROVE ExitPart'
  BY <1>8 DEF ListSessions, HostStep
<1>9. ASSUME BeginAttach PROVE ExitPart'
  BY <1>9 DEF BeginAttach, HostStep, AfterGap
<1>10. ASSUME NEW sent \in BOOLEAN, AttachGap(sent) PROVE ExitPart'
  BY <1>10, Tried, FramesTyped DEF AttachGap, HostStep, AfterGap
<1>11. ASSUME NEW sent \in BOOLEAN, AttachReplay(sent) PROVE ExitPart'
  BY <1>11, Tried, FramesTyped DEF AttachReplay, HostStep
<1>12. ASSUME AttachFlag PROVE ExitPart'
  BY <1>12 DEF AttachFlag, HostStep
<1>13. ASSUME AttachSeen PROVE ExitPart'
  BY <1>13 DEF AttachSeen, HostStep, AfterSeen, LinkPart
<1>14. ASSUME NEW sent \in BOOLEAN, AttachExit(sent) PROVE ExitPart'
  BY <1>14, Tried, FramesTyped DEF AttachExit, HostStep, Exit
<1>15. ASSUME ConnectionEnds PROVE ExitPart'
  BY <1>15 DEF ConnectionEnds, HostStep
<1>16. ASSUME Detach PROVE ExitPart'
  BY <1>16 DEF Detach, HostStep
<1>17. ASSUME Purge PROVE ExitPart'
  BY <1>17 DEF Purge, HostStep
<1>18. ASSUME Deliver PROVE ExitPart'
  <2>1. UNCHANGED <<exited, reader, host, request, exitLost>> /\ chan' = Tail(chan) /\ chan # <<>>
    BY <1>18 DEF Deliver
  <2>2. Takes' => Takes /\ Head(chan).kind # "exit"
    BY <1>18, GuiGets, HeadTyped DEF Frames, Deliver
  <2>3. ASSUME ExitReported, Streaming', host'.pc = "conn", reader'.pc = "done", exitLost' = "no"
        PROVE  \E i \in DOMAIN chan' : chan'[i].kind = "exit"
    <3>1. PICK i \in DOMAIN chan : chan[i].kind = "exit"
      BY <2>1, <2>2, <2>3
    <3>2. i \in 1 .. Len(chan) /\ i # 1
      BY <2>1, <2>2, <2>3, <3>1
    <3>3. i - 1 \in DOMAIN Tail(chan) /\ Tail(chan)[i - 1] = chan[i]
      BY <3>2
    <3> QED BY <2>1, <3>1, <3>3
  <2> QED BY <2>1, <2>3
<1>19. ASSUME DeliverListing PROVE ExitPart'
  BY <1>19 DEF DeliverListing
<1>20. ASSUME Reattach PROVE ExitPart'
  BY <1>20, ResumeTyped DEF Reattach, LinkPart
<1>21. ASSUME Drop PROVE ExitPart'
  BY <1>21 DEF Drop
<1>22. ASSUME NEW sameGui \in BOOLEAN, Reconnect(sameGui) PROVE ExitPart'
  BY <1>22 DEF Reconnect
<1>23. CASE UNCHANGED vars
  BY <1>23 DEF vars
<1> QED BY <1>1, <1>2, <1>3, <1>4, <1>5, <1>6, <1>7, <1>8, <1>9, <1>10,
           <1>11, <1>12, <1>13, <1>14, <1>15, <1>16,
           <1>17, <1>18, <1>19, <1>20, <1>21, <1>22, <1>23
       DEF Next, Reader, Host

(* Every offset is a natural number.                                       *)
LEMMA Numbers ==
  ASSUME TypeOK
  PROVE  /\ {head, tail, client.next, reader.from, host.from} \subseteq Nat
         /\ request # NoRequest => request \in Nat
         /\ 0 # NoRequest
BY SessionStreamAssumption DEF TypeOK, Offsets, NoRequest

(* Nobody stands past the end of the ring.                                 *)
LEMMA OffsetKept ==
  ASSUME TypeOK, LinkPart, OffsetPart, Quiet, FramePart, [Next]_vars
  PROVE  OffsetPart'
<1> USE DEF OffsetPart
<1>1. ASSUME NEW n \in 1 .. MaxChunk, Push(n) PROVE OffsetPart'
  <2>1. n \in Nat \ {0} /\ tail' = tail + n /\ UNCHANGED <<host, client, request>>
    BY <1>1, SessionStreamAssumption DEF Push, ReaderStep
  <2>2. head \in Nat /\ tail \in Nat /\ head <= tail /\ tail - head <= RingCap
    BY Numbers DEF TypeOK
  <2>3. head' # tail'
    BY <1>1, <2>1, <2>2, SessionStreamAssumption DEF Push, Evicted
  <2>4. reader'.from = tail /\ (reader'.pc = "gap" => reader'.lost)
    BY <1>1 DEF Push, AfterPush, TypeOK
  <2>5. client.next <= tail' /\ (host.pc \in {"gap", "replay"} => host.from < tail')
    BY <2>1, <2>2, Numbers
  <2> QED BY <2>1, <2>2, <2>3, <2>4, <2>5
<1>2. ASSUME NEW sent \in BOOLEAN, StreamGap(sent) PROVE OffsetPart'
  BY <1>2, Numbers DEF StreamGap, ReaderStep, TypeOK
<1>3. ASSUME NEW sent \in BOOLEAN, StreamOut(sent) PROVE OffsetPart'
  BY <1>3, Numbers DEF StreamOut, ReaderStep, TypeOK
<1>4. ASSUME OutputEnds PROVE OffsetPart'
  BY <1>4 DEF OutputEnds, ReaderStep, TypeOK
<1>5. ASSUME LooksAttached PROVE OffsetPart'
  BY <1>5 DEF LooksAttached, ReaderStep, TypeOK
<1>6. ASSUME NEW sent \in BOOLEAN, ReaderExit(sent) PROVE OffsetPart'
  BY <1>6, Numbers DEF ReaderExit, ReaderStep, TypeOK
<1>7. ASSUME ExitedVisible PROVE OffsetPart'
  BY <1>7 DEF ExitedVisible, ReaderStep
<1>8. ASSUME ListSessions PROVE OffsetPart'
  BY <1>8 DEF ListSessions, HostStep, TypeOK
<1>9. ASSUME BeginAttach PROVE OffsetPart'
  BY <1>9, Numbers DEF BeginAttach, HostStep, AfterGap, SnapshotStart, TypeOK
<1>10. ASSUME NEW sent \in BOOLEAN, AttachGap(sent) PROVE OffsetPart'
  BY <1>10, Numbers DEF AttachGap, HostStep, AfterGap, TypeOK
<1>11. ASSUME NEW sent \in BOOLEAN, AttachReplay(sent) PROVE OffsetPart'
  BY <1>11 DEF AttachReplay, HostStep, TypeOK
<1>12. ASSUME AttachFlag PROVE OffsetPart'
  BY <1>12 DEF AttachFlag, HostStep, TypeOK
<1>13. ASSUME AttachSeen PROVE OffsetPart'
  BY <1>13 DEF AttachSeen, HostStep, AfterSeen, TypeOK
<1>14. ASSUME NEW sent \in BOOLEAN, AttachExit(sent) PROVE OffsetPart'
  BY <1>14 DEF AttachExit, HostStep, TypeOK
<1>15. ASSUME ConnectionEnds PROVE OffsetPart'
  BY <1>15 DEF ConnectionEnds, HostStep, TypeOK
<1>16. ASSUME Detach PROVE OffsetPart'
  BY <1>16 DEF Detach, HostStep, TypeOK
<1>17. ASSUME Purge PROVE OffsetPart'
  BY <1>17 DEF Purge, HostStep, PurgeBacklog, TypeOK
<1>18. ASSUME Deliver PROVE OffsetPart'
  <2>1. UNCHANGED <<head, tail, reader, host, request>> /\ chan # <<>>
    BY <1>18 DEF Deliver
  <2>2. Head(chan) = chan[1] /\ 1 \in DOMAIN chan
    BY <2>1 DEF TypeOK
  <2>3. CASE Takes /\ Head(chan).kind = "out"
    <3>1. client'.next = Head(chan).to
      BY <1>18, <2>3, GuiGets DEF TypeOK
    <3>2. request = NoRequest /\ Head(chan).to <= tail
      BY <2>2, <2>3 DEF Quiet, FramePart
    <3> QED BY <2>1, <3>1, <3>2
  <2>4. CASE ~(Takes /\ Head(chan).kind = "out")
    <3>1. client'.next = client.next
      BY <1>18, <2>4, GuiGets
    <3> QED BY <2>1, <3>1
  <2> QED BY <2>3, <2>4
<1>19. ASSUME DeliverListing PROVE OffsetPart'
  BY <1>19 DEF DeliverListing, TypeOK
<1>20. ASSUME Reattach PROVE OffsetPart'
  BY <1>20, ResumeTyped, Numbers DEF Reattach, LinkPart, ResumeFrom, TypeOK
<1>21. ASSUME Drop PROVE OffsetPart'
  BY <1>21 DEF Drop, TypeOK
<1>22. ASSUME NEW sameGui \in BOOLEAN, Reconnect(sameGui) PROVE OffsetPart'
  BY <1>22, Numbers DEF Reconnect, TypeOK, LinkPart
<1>23. CASE UNCHANGED vars
  BY <1>23 DEF vars
<1> QED BY <1>1, <1>2, <1>3, <1>4, <1>5, <1>6, <1>7, <1>8, <1>9, <1>10,
           <1>11, <1>12, <1>13, <1>14, <1>15, <1>16,
           <1>17, <1>18, <1>19, <1>20, <1>21, <1>22, <1>23
       DEF Next, Reader, Host

(* A frame that ends within the ring may be queued.                        *)
LEMMA FrameSent ==
  ASSUME TypeOK, FramePart, NEW f \in Frames, f.kind = "out" => f.to <= tail,
         chan' \in {chan, Append(chan, f)}, tail' = tail
  PROVE  FramePart'
<1>1. CASE chan' = chan
  BY <1>1 DEF FramePart
<1>2. CASE chan' = Append(chan, f)
  <2>1. /\ DOMAIN chan = 1 .. Len(chan) /\ DOMAIN chan' = 1 .. Len(chan) + 1
        /\ \A i \in 1 .. Len(chan) : chan'[i] = chan[i]
        /\ chan'[Len(chan) + 1] = f
    BY <1>2 DEF TypeOK
  <2> QED BY <2>1 DEF FramePart, TypeOK
<1> QED BY <1>1, <1>2

(* No frame ends past the end of the ring.                                 *)
LEMMA FrameKept ==
  ASSUME TypeOK, FramePart, [Next]_vars
  PROVE  FramePart'
<1> USE DEF FramePart
<1>1. ASSUME NEW n \in 1 .. MaxChunk, Push(n) PROVE FramePart'
  <2>1. chan' = chan /\ tail <= tail' /\ tail' \in Nat /\ tail \in Nat
    BY <1>1, Numbers DEF Push
  <2>2. \A i \in DOMAIN chan : chan[i] \in Frames
    BY DEF TypeOK
  <2>3. \A i \in DOMAIN chan : chan[i].to \in Nat
    BY <2>2, SessionStreamAssumption DEF Frames, Offsets
  <2> QED BY <2>1, <2>3
<1>2. ASSUME NEW sent \in BOOLEAN, StreamGap(sent) PROVE FramePart'
  BY <1>2, Tried, FramesTyped, FrameSent DEF StreamGap, ReaderStep, Gap
<1>3. ASSUME NEW sent \in BOOLEAN, StreamOut(sent) PROVE FramePart'
  BY <1>3, Tried, FramesTyped, FrameSent, Numbers DEF StreamOut, ReaderStep, Out, TypeOK
<1>4. ASSUME OutputEnds PROVE FramePart'
  BY <1>4 DEF OutputEnds, ReaderStep
<1>5. ASSUME LooksAttached PROVE FramePart'
  BY <1>5 DEF LooksAttached, ReaderStep
<1>6. ASSUME NEW sent \in BOOLEAN, ReaderExit(sent) PROVE FramePart'
  BY <1>6, Tried, FramesTyped, FrameSent DEF ReaderExit, ReaderStep, Exit
<1>7. ASSUME ExitedVisible PROVE FramePart'
  BY <1>7 DEF ExitedVisible, ReaderStep
<1>8. ASSUME ListSessions PROVE FramePart'
  BY <1>8 DEF ListSessions, HostStep
<1>9. ASSUME BeginAttach PROVE FramePart'
  BY <1>9 DEF BeginAttach, HostStep
<1>10. ASSUME NEW sent \in BOOLEAN, AttachGap(sent) PROVE FramePart'
  BY <1>10, Tried, FramesTyped, FrameSent DEF AttachGap, HostStep, Gap
<1>11. ASSUME NEW sent \in BOOLEAN, AttachReplay(sent) PROVE FramePart'
  BY <1>11, Tried, FramesTyped, FrameSent, Numbers DEF AttachReplay, HostStep, Out, TypeOK
<1>12. ASSUME AttachFlag PROVE FramePart'
  BY <1>12 DEF AttachFlag, HostStep
<1>13. ASSUME AttachSeen PROVE FramePart'
  BY <1>13 DEF AttachSeen, HostStep
<1>14. ASSUME NEW sent \in BOOLEAN, AttachExit(sent) PROVE FramePart'
  BY <1>14, Tried, FramesTyped, FrameSent DEF AttachExit, HostStep, Exit
<1>15. ASSUME ConnectionEnds PROVE FramePart'
  BY <1>15 DEF ConnectionEnds, HostStep
<1>16. ASSUME Detach PROVE FramePart'
  BY <1>16 DEF Detach, HostStep
<1>17. ASSUME Purge PROVE FramePart'
  BY <1>17 DEF Purge, HostStep, PurgeBacklog
<1>18. ASSUME Deliver PROVE FramePart'
  BY <1>18, HeadTyped DEF Deliver, TypeOK
<1>19. ASSUME DeliverListing PROVE FramePart'
  BY <1>19 DEF DeliverListing
<1>20. ASSUME Reattach PROVE FramePart'
  BY <1>20 DEF Reattach
<1>21. ASSUME Drop PROVE FramePart'
  BY <1>21 DEF Drop
<1>22. ASSUME NEW sameGui \in BOOLEAN, Reconnect(sameGui) PROVE FramePart'
  BY <1>22 DEF Reconnect
<1>23. CASE UNCHANGED vars
  BY <1>23 DEF vars
<1> QED BY <1>1, <1>2, <1>3, <1>4, <1>5, <1>6, <1>7, <1>8, <1>9, <1>10,
           <1>11, <1>12, <1>13, <1>14, <1>15, <1>16,
           <1>17, <1>18, <1>19, <1>20, <1>21, <1>22, <1>23
       DEF Next, Reader, Host

(* Nothing of the stream is queued before the replay.                      *)
LEMMA QuietKept ==
  ASSUME TypeOK, LinkPart, OffsetPart, Quiet, [Next]_vars
  PROVE  Quiet'
<1> USE DEF TypeOK, Quiet, ExitOwed
<1>1. ASSUME NEW n \in 1 .. MaxChunk, Push(n) PROVE Quiet'
  BY <1>1 DEF Push, ReaderStep, AfterPush, ReaderHasLock, HostHasLock
<1>2. ASSUME NEW sent \in BOOLEAN, StreamGap(sent) PROVE Quiet'
  BY <1>2 DEF StreamGap, ReaderStep, LinkPart, ReaderHasLock, HostHasLock
<1>3. ASSUME NEW sent \in BOOLEAN, StreamOut(sent) PROVE Quiet'
  BY <1>3 DEF StreamOut, ReaderStep, LinkPart, ReaderHasLock, HostHasLock
<1>4. ASSUME OutputEnds PROVE Quiet'
  BY <1>4 DEF OutputEnds, ReaderStep
<1>5. ASSUME LooksAttached PROVE Quiet'
  BY <1>5 DEF LooksAttached, ReaderStep
<1>6. ASSUME NEW sent \in BOOLEAN, ReaderExit(sent) PROVE Quiet'
  BY <1>6, Tried, FramesTyped DEF ReaderExit, ReaderStep, Exit
<1>7. ASSUME ExitedVisible PROVE Quiet'
  BY <1>7 DEF ExitedVisible, ReaderStep
<1>8. ASSUME ListSessions PROVE Quiet'
  BY <1>8 DEF ListSessions, HostStep, LinkPart
<1>9. ASSUME BeginAttach PROVE Quiet'
  BY <1>9 DEF BeginAttach, HostStep, AfterGap, SnapshotStart, LinkPart
<1>10. ASSUME NEW sent \in BOOLEAN, AttachGap(sent) PROVE Quiet'
  BY <1>10, Tried, FramesTyped DEF AttachGap, HostStep, AfterGap, Gap, LinkPart
<1>11. ASSUME NEW sent \in BOOLEAN, AttachReplay(sent) PROVE Quiet'
  BY <1>11 DEF AttachReplay, HostStep, LinkPart
<1>12. ASSUME AttachFlag PROVE Quiet'
  BY <1>12 DEF AttachFlag, HostStep
<1>13. ASSUME AttachSeen PROVE Quiet'
  BY <1>13 DEF AttachSeen, HostStep, AfterSeen, LinkPart
<1>14. ASSUME NEW sent \in BOOLEAN, AttachExit(sent) PROVE Quiet'
  BY <1>14 DEF AttachExit, HostStep, LinkPart
<1>15. ASSUME ConnectionEnds PROVE Quiet'
  BY <1>15 DEF ConnectionEnds, HostStep, LinkPart
<1>16. ASSUME Detach PROVE Quiet'
  BY <1>16 DEF Detach, HostStep, LinkPart
<1>17. ASSUME Purge PROVE Quiet'
  BY <1>17 DEF Purge, HostStep, PurgeBacklog, LinkPart
<1>18. ASSUME Deliver PROVE Quiet'
  BY <1>18, GuiGets, HeadTyped DEF Deliver
<1>19. ASSUME DeliverListing PROVE Quiet'
  BY <1>19 DEF DeliverListing, LinkPart
<1>20. ASSUME Reattach PROVE Quiet'
  BY <1>20 DEF Reattach, LinkPart
<1>21. ASSUME Drop PROVE Quiet'
  BY <1>21 DEF Drop, LinkPart
<1>22. ASSUME NEW sameGui \in BOOLEAN, Reconnect(sameGui) PROVE Quiet'
  BY <1>22 DEF Reconnect, LinkPart
<1>23. CASE UNCHANGED vars
  BY <1>23 DEF vars
<1> QED BY <1>1, <1>2, <1>3, <1>4, <1>5, <1>6, <1>7, <1>8, <1>9, <1>10,
           <1>11, <1>12, <1>13, <1>14, <1>15, <1>16,
           <1>17, <1>18, <1>19, <1>20, <1>21, <1>22, <1>23
       DEF Next, Reader, Host

(***************************************************************************)
(* What was given and told, when a frame is queued and when it is taken    *)
(***************************************************************************)
(* A set of positions that is not empty has a last one.                    *)
LEMMA MaxIsLast ==
  ASSUME NEW n \in Nat, NEW S \in SUBSET (1 .. n), S # {}
  PROVE  Max(S) \in S /\ \A y \in S : y <= Max(S)
<1> DEFINE T == {n - x : x \in S}
<1>1. T \subseteq Nat /\ T # {}
  <2>1. \A x \in S : n - x \in Nat
    OBVIOUS
  <2>2. PICK x \in S : TRUE
    OBVIOUS
  <2>3. n - x \in T
    OBVIOUS
  <2> QED BY <2>1, <2>3
<1>2. PICK t \in T : \A u \in T : <<u, t>> \notin OpToRel(<, Nat)
  BY <1>1, NatLessThanWellFounded, WFMin
<1>3. PICK x \in S : t = n - x
  OBVIOUS
<1>4. ASSUME NEW y \in S PROVE x >= y
  <2>1. n - y \in T /\ n - y \in Nat /\ t \in Nat
    BY <1>1
  <2>2. ~ (n - y < t)
    BY <1>2, <2>1 DEF OpToRel
  <2> QED BY <2>2, <1>3
<1> QED BY <1>3, <1>4 DEF Max

(* The last position is the maximum.                                       *)
LEMMA LastIsMax ==
  ASSUME NEW n \in Nat, NEW S \in SUBSET (1 .. n), NEW m \in S, \A y \in S : y <= m
  PROVE  Max(S) = m
<1>1. Max(S) \in S /\ m <= Max(S) /\ Max(S) <= m
  BY MaxIsLast
<1>2. \A x \in S : x \in Int
  OBVIOUS
<1>3. Max(S) \in Int /\ m \in Int
  BY <1>1, <1>2
<1>4. ASSUME NEW x \in Int, x <= m, m <= x PROVE x = m
  BY <1>3, <1>4
<1> QED BY <1>1, <1>3, <1>4

(* The Out frames before a place of the channel have a last one.           *)
LEMMA OutsBounded ==
  ASSUME TypeOK, NEW i \in 1 .. Len(chan) + 1
  PROVE  /\ Len(chan) \in Nat /\ i - 1 \in Nat
         /\ OutsBefore(i) \in SUBSET (1 .. i - 1)
         /\ OutsBefore(i) # {} => /\ Max(OutsBefore(i)) \in OutsBefore(i)
                                  /\ \A k \in OutsBefore(i) : k <= Max(OutsBefore(i))
<1>1. Len(chan) \in Nat /\ i - 1 \in Nat
  BY DEF TypeOK
<1>2. OutsBefore(i) \in SUBSET (1 .. i - 1)
  BY DEF OutsBefore
<1> QED BY <1>1, <1>2, MaxIsLast

(* A frame is queued: the places before it keep what is given and told.    *)
LEMMA Appended ==
  ASSUME TypeOK, NEW f \in Frames, chan' = Append(chan, f), client' = client
  PROVE  /\ \A i \in 1 .. Len(chan) + 1 :
              /\ GivenBefore(i)' = GivenBefore(i)
              /\ ToldBefore(i)' <=> ToldBefore(i)
         /\ End' = IF f.kind = "out" THEN f.to ELSE End
         /\ Told' <=> (f.kind = "gap" \/ (f.kind = "exit" /\ Told))
<1>1. PICK n \in Nat :
        /\ n = Len(chan) /\ Len(chan') = n + 1 /\ chan'[n + 1] = f
        /\ \A j \in 1 .. n : chan'[j] = chan[j]
  BY DEF TypeOK
<1>2. f.kind \in {"out", "gap", "exit"}
  BY DEF Frames
<1>3. ASSUME NEW i \in 1 .. n + 1
      PROVE  /\ OutsBefore(i)' = OutsBefore(i)
             /\ GivenBefore(i)' = GivenBefore(i)
             /\ ToldBefore(i)' <=> ToldBefore(i)
  <2>1. \A j \in 1 .. i - 1 : j \in 1 .. n
    BY <1>1
  <2>2. OutsBefore(i)' = OutsBefore(i)
    BY <1>1, <2>1 DEF OutsBefore
  <2>3. OutsBefore(i) # {} => Max(OutsBefore(i)) \in 1 .. n
    BY <1>1, <2>1, OutsBounded
  <2>4. GivenBefore(i)' = GivenBefore(i)
    BY <1>1, <2>2, <2>3 DEF GivenBefore
  <2>5. ToldBefore(i)' <=> ToldBefore(i)
    BY <1>1, <2>1, <2>2 DEF ToldBefore
  <2> QED BY <2>2, <2>4, <2>5
<1>4. OutsBefore(n + 2)' = IF f.kind = "out" THEN OutsBefore(n + 1) \cup {n + 1} ELSE OutsBefore(n + 1)
  <2>1. 1 .. (n + 2) - 1 = (1 .. n) \cup {n + 1} /\ 1 .. (n + 1) - 1 = 1 .. n
    BY <1>1
  <2>2. OutsBefore(n + 1) = {j \in 1 .. n : chan[j].kind = "out"}
    BY <2>1 DEF OutsBefore
  <2>3. OutsBefore(n + 2)' = {j \in (1 .. n) \cup {n + 1} : chan'[j].kind = "out"}
    BY <2>1 DEF OutsBefore
  <2>4. CASE f.kind = "out"
    BY <1>1, <2>2, <2>3, <2>4
  <2>5. CASE f.kind # "out"
    BY <1>1, <2>2, <2>3, <2>5
  <2> QED BY <2>4, <2>5
<1>5. n + 1 \in 1 .. n + 1 /\ n + 1 \in Nat /\ OutsBefore(n + 1) \in SUBSET (1 .. n)
  BY <1>1, OutsBounded
<1>10. Len(chan') + 1 = n + 2 /\ Len(chan) + 1 = n + 1
  BY <1>1
<1>6. End' = GivenBefore(n + 2)' /\ End = GivenBefore(n + 1)
  BY <1>10 DEF End
<1>7. (Told' <=> ToldBefore(n + 2)') /\ (Told <=> ToldBefore(n + 1))
  BY <1>10 DEF Told
<1>8. CASE f.kind = "out"
  <2>1. n + 1 \in OutsBefore(n + 2)' /\ OutsBefore(n + 2)' \in SUBSET (1 .. n + 1)
        /\ \A y \in OutsBefore(n + 2)' : y <= n + 1
    BY <1>1, <1>4, <1>5, <1>8
  <2>2. Max(OutsBefore(n + 2)') = n + 1
    <3>1. n + 1 \in Nat
      BY <1>1
    <3> QED BY <2>1, <3>1, LastIsMax
  <2>3. GivenBefore(n + 2)' = f.to
    BY <1>1, <2>1, <2>2 DEF GivenBefore
  <2>4. ~ToldBefore(n + 2)'
    <3>1. ASSUME NEW j \in 1 .. (n + 2) - 1, chan'[j].kind = "gap",
                 \A k \in OutsBefore(n + 2)' : k < j
          PROVE  FALSE
      <4>1. n + 1 < j /\ j <= n + 1
        BY <1>1, <2>1, <3>1
      <4> QED BY <4>1, <1>1
    <3>2. OutsBefore(n + 2)' # {}
      BY <2>1
    <3> QED BY <3>1, <3>2 DEF ToldBefore
  <2> QED BY <1>1, <1>3, <1>6, <1>7, <1>8, <2>3, <2>4
<1>9. CASE f.kind # "out"
  <2>1. OutsBefore(n + 2)' = OutsBefore(n + 1)
    BY <1>4, <1>9
  <2>2. OutsBefore(n + 1) # {} => Max(OutsBefore(n + 1)) \in 1 .. n
    BY <1>1, <1>5, OutsBounded
  <2>3. GivenBefore(n + 2)' = GivenBefore(n + 1)
    BY <1>1, <2>1, <2>2 DEF GivenBefore
  <2>4. ToldBefore(n + 2)' <=> (f.kind = "gap" \/ ToldBefore(n + 1))
    <3>1. \A j : j \in 1 .. (n + 2) - 1 <=> j \in 1 .. (n + 1) - 1 \/ j = n + 1
      BY <1>1
    <3>2. \A k \in OutsBefore(n + 1) : k < n + 1
      BY <1>1, <1>5
    <3>3. \A j \in 1 .. (n + 1) - 1 : chan'[j] = chan[j]
      BY <1>1
    <3>4. chan'[n + 1] = f /\ client'.gapped = client.gapped
      BY <1>1
    <3>5. CASE f.kind = "gap"
      BY <2>1, <3>1, <3>2, <3>4, <3>5 DEF ToldBefore
    <3>6. CASE f.kind # "gap"
      BY <2>1, <3>1, <3>3, <3>4, <3>6 DEF ToldBefore
    <3> QED BY <3>5, <3>6
  <2> QED BY <1>1, <1>2, <1>3, <1>6, <1>7, <1>9, <2>3, <2>4
<1> QED BY <1>8, <1>9

(* A frame is taken: each place moves by one, and nothing else changes.    *)
LEMMA Consumed ==
  ASSUME TypeOK, chan # <<>>, chan' = Tail(chan),
         \/ Head(chan).kind = "out" /\ client'.next = Head(chan).to /\ client'.gapped = FALSE
         \/ Head(chan).kind = "gap" /\ client'.next = client.next /\ client'.gapped = TRUE
  PROVE  /\ \A i \in 1 .. Len(chan) :
              /\ GivenBefore(i)' = GivenBefore(i + 1)
              /\ ToldBefore(i)' <=> ToldBefore(i + 1)
         /\ End' = End /\ (Told' <=> Told)
<1>1. PICK n \in Nat \ {0} :
        /\ n = Len(chan) /\ Len(chan') = n - 1 /\ Head(chan) = chan[1]
        /\ \A j \in 1 .. n - 1 : chan'[j] = chan[j + 1]
  BY DEF TypeOK
<1>2. ASSUME NEW i \in 1 .. n
      PROVE  GivenBefore(i)' = GivenBefore(i + 1) /\ (ToldBefore(i)' <=> ToldBefore(i + 1))
  <2>1. \A j : j \in OutsBefore(i)' <=> j \in 1 .. i - 1 /\ chan[j + 1].kind = "out"
    BY <1>1 DEF OutsBefore
  <2>2. \A j : j \in OutsBefore(i + 1) <=> j \in 1 .. i /\ chan[j].kind = "out"
    BY <1>1 DEF OutsBefore
  <2>3. i + 1 \in 1 .. n + 1 /\ i - 1 \in Nat
    BY <1>1
  <2>4. OutsBefore(i)' \in SUBSET (1 .. i - 1)
    BY <2>1
  <2>5. CASE OutsBefore(i)' = {}
    <3>1. \A j \in 2 .. i : chan[j].kind # "out"
      <4>1. ASSUME NEW j \in 2 .. i, chan[j].kind = "out" PROVE FALSE
        <5>1. j - 1 \in 1 .. i - 1 /\ (j - 1) + 1 = j
          OBVIOUS
        <5> QED BY <4>1, <5>1, <2>1, <2>5
      <4> QED BY <4>1
    <3>2. CASE Head(chan).kind = "out"
      <4>1. OutsBefore(i + 1) = {1}
        BY <1>1, <2>2, <3>1, <3>2
      <4>2. Max(OutsBefore(i + 1)) = 1
        BY <1>1, <4>1, <2>3, OutsBounded
      <4>3. GivenBefore(i)' = GivenBefore(i + 1)
        BY <1>1, <2>5, <3>2, <4>1, <4>2 DEF GivenBefore
      <4>4. ToldBefore(i)' <=> \E j \in 1 .. i - 1 : chan[j + 1].kind = "gap"
        BY <1>1, <2>5, <3>2 DEF ToldBefore
      <4>5. ToldBefore(i + 1) <=> \E j \in 1 .. i : chan[j].kind = "gap" /\ 1 < j
        <5>1. (i + 1) - 1 = i /\ OutsBefore(i + 1) # {}
               /\ \A j : (\A k \in OutsBefore(i + 1) : k < j) <=> 1 < j
          BY <4>1
        <5> QED BY <5>1 DEF ToldBefore
      <4>6. (\E j \in 1 .. i - 1 : chan[j + 1].kind = "gap")
              <=> \E j \in 1 .. i : chan[j].kind = "gap" /\ 1 < j
        <5>1. ASSUME NEW j \in 1 .. i - 1, chan[j + 1].kind = "gap"
              PROVE \E k \in 1 .. i : chan[k].kind = "gap" /\ 1 < k
          <6>1. j + 1 \in 1 .. i /\ 1 < j + 1
            OBVIOUS
          <6> QED BY <5>1, <6>1
        <5>2. ASSUME NEW j \in 1 .. i, chan[j].kind = "gap" /\ 1 < j
              PROVE \E k \in 1 .. i - 1 : chan[k + 1].kind = "gap"
          <6>1. j - 1 \in 1 .. i - 1 /\ (j - 1) + 1 = j
            BY <5>2
          <6> QED BY <5>2, <6>1
        <5> QED BY <5>1, <5>2
      <4> QED BY <4>3, <4>4, <4>5, <4>6
    <3>3. CASE Head(chan).kind = "gap"
      <4>1. OutsBefore(i + 1) = {}
        BY <1>1, <2>2, <3>1, <3>3
      <4>2. GivenBefore(i)' = GivenBefore(i + 1)
        BY <2>5, <3>3, <4>1 DEF GivenBefore
      <4>3. ToldBefore(i)'
        BY <2>5, <3>3 DEF ToldBefore
      <4>4. ToldBefore(i + 1)
        BY <1>1, <3>3, <4>1 DEF ToldBefore
      <4> QED BY <4>2, <4>3, <4>4
    <3> QED BY <3>2, <3>3
  <2>6. CASE OutsBefore(i)' # {}
    <3>1. PICK m \in OutsBefore(i)' : Max(OutsBefore(i)') = m /\ \A y \in OutsBefore(i)' : y <= m
      BY <2>3, <2>4, <2>6, MaxIsLast
    <3>2. m + 1 \in OutsBefore(i + 1) /\ m \in 1 .. n - 1
      BY <1>1, <2>1, <2>2, <3>1
    <3>3. \A y \in OutsBefore(i + 1) : y <= m + 1
      <4>1. ASSUME NEW y \in OutsBefore(i + 1) PROVE y <= m + 1
        <5>1. y \in 1 .. i /\ chan[y].kind = "out"
          BY <2>2
        <5>2. CASE y = 1
          BY <5>2, <3>2, <1>1
        <5>3. CASE y # 1
          <6>1. y - 1 \in 1 .. i - 1 /\ (y - 1) + 1 = y
            BY <5>1, <5>3
          <6>2. y - 1 \in OutsBefore(i)'
            BY <2>1, <5>1, <6>1
          <6>3. y - 1 <= m
            BY <3>1, <6>2
          <6> QED BY <6>3, <5>1, <3>2, <1>1
        <5> QED BY <5>2, <5>3
      <4> QED BY <4>1
    <3>4. Max(OutsBefore(i + 1)) = m + 1
      <4>1. i \in Nat /\ OutsBefore(i + 1) \in SUBSET (1 .. i)
        BY <2>2
      <4> QED BY <3>2, <3>3, <4>1, LastIsMax
    <3>5. GivenBefore(i)' = GivenBefore(i + 1)
      BY <1>1, <2>6, <3>1, <3>2, <3>4 DEF GivenBefore
    <3>6. ASSUME ToldBefore(i)' PROVE ToldBefore(i + 1)
      <4>1. PICK j \in 1 .. i - 1 : chan'[j].kind = "gap" /\ \A k \in OutsBefore(i)' : k < j
        BY <2>6, <3>6 DEF ToldBefore
      <4>2. chan[j + 1].kind = "gap" /\ j + 1 \in 1 .. (i + 1) - 1 /\ m < j
        BY <1>1, <3>1, <4>1
      <4>3. \A k \in OutsBefore(i + 1) : k < j + 1
        BY <3>2, <3>3, <4>2, <2>2, <1>1
      <4> QED BY <4>2, <4>3 DEF ToldBefore
    <3>7. ASSUME ToldBefore(i + 1) PROVE ToldBefore(i)'
      <4>1. PICK j \in 1 .. (i + 1) - 1 : chan[j].kind = "gap" /\ \A k \in OutsBefore(i + 1) : k < j
        BY <3>2, <3>7 DEF ToldBefore
      <4>2. m + 1 < j /\ j - 1 \in 1 .. i - 1 /\ (j - 1) + 1 = j
        BY <1>1, <3>2, <4>1
      <4>3. chan'[j - 1].kind = "gap"
        BY <1>1, <4>1, <4>2
      <4>4. \A k \in OutsBefore(i)' : k < j - 1
        BY <2>4, <3>1, <3>2, <4>2
      <4> QED BY <4>2, <4>3, <4>4 DEF ToldBefore
    <3> QED BY <3>5, <3>6, <3>7
  <2> QED BY <2>5, <2>6
<1>3. n \in 1 .. n /\ Len(chan') + 1 = n
  BY <1>1
<1>4. End' = GivenBefore(n)' /\ (Told' <=> ToldBefore(n)')
  BY <1>3 DEF End, Told
<1>5. End = GivenBefore(n + 1) /\ (Told <=> ToldBefore(n + 1))
  BY <1>1 DEF End, Told
<1> QED BY <1>1, <1>2, <1>3, <1>4, <1>5

(* The end is an offset.                                                   *)
LEMMA EndTyped ==
  ASSUME TypeOK PROVE End \in Nat
<1>1. PICK n \in Nat : n = Len(chan)
  BY DEF TypeOK
<1>2. \A k \in 1 .. n : chan[k] \in Frames
  BY <1>1 DEF TypeOK
<1>3. \A k \in 1 .. n : chan[k].to \in Nat
  BY <1>2, SessionStreamAssumption DEF Frames, Offsets
<1>4. OutsBefore(n + 1) # {} => Max(OutsBefore(n + 1)) \in 1 .. n
  BY <1>1, OutsBounded
<1> QED BY <1>1, <1>3, <1>4, Numbers DEF End, GivenBefore

(* Without Out frames the end is where the GUI stands.                     *)
LEMMA EndOfExits ==
  ASSUME TypeOK, \A i \in DOMAIN chan : chan[i].kind # "out"
  PROVE  End = client.next
<1>1. OutsBefore(Len(chan) + 1) = {}
  BY DEF OutsBefore, TypeOK
<1> QED BY <1>1 DEF End, GivenBefore

(* Nothing is given or told where neither channel nor GUI changes.         *)
LEMMA Untouched ==
  ASSUME chan' = chan, client'.next = client.next, client'.gapped = client.gapped
  PROVE  /\ End' = End /\ (Told' <=> Told)
         /\ \A i : GivenBefore(i)' = GivenBefore(i) /\ (ToldBefore(i)' <=> ToldBefore(i))
<1>1. \A i : OutsBefore(i)' = OutsBefore(i)
  BY DEF OutsBefore
<1>2. \A i : GivenBefore(i)' = GivenBefore(i) /\ (ToldBefore(i)' <=> ToldBefore(i))
  BY <1>1 DEF GivenBefore, ToldBefore
<1> QED BY <1>2 DEF End, Told

(* What the reader or the serve loop does to both, whether or not the       *)
(* channel took the frame.                                                 *)
LEMMA EndSent ==
  ASSUME TypeOK, NEW f \in Frames, NEW sent \in BOOLEAN, TrySend(f, sent), client' = client
  PROVE  /\ sent => End' = (IF f.kind = "out" THEN f.to ELSE End)
         /\ sent => (Told' <=> (f.kind = "gap" \/ (f.kind = "exit" /\ Told)))
         /\ ~sent => End' = End /\ (Told' <=> Told)
BY Tried, Appended, Untouched

LEMMA NextInit == Init => NextPart /\ ChainPart
<1> SUFFICES ASSUME Init PROVE NextPart /\ ChainPart
  OBVIOUS
<1>1. TypeOK
  BY TypeInit
<1>2. DOMAIN chan = {}
  BY DEF Init
<1>3. End = 0 /\ tail = 0 /\ ~ReaderHasLock /\ host.pc = "conn"
  BY <1>1, <1>2, EndOfExits DEF Init, ReaderHasLock
<1>4. ChainPart
  BY <1>2 DEF ChainPart, NoByteTwice, NoSilentSkip
<1> QED BY <1>3, <1>4 DEF NextPart, ReaderHasLock

(* The reader starts its frame at the end, or its loss was announced.      *)
LEMMA NextReader ==
  ASSUME TypeOK, LinkPart, OffsetPart, NextPart, Reader
  PROVE  NextPart'
<1> USE EndTyped, Numbers DEF ReaderStep, ReaderHasLock, HostHasLock
<1>1. ASSUME NEW n \in 1 .. MaxChunk, Push(n) PROVE NextPart'
  <2>1. End' = End /\ (Told' <=> Told)
    BY <1>1, Untouched DEF Push
  <2>2. n \in Nat /\ n > 0 /\ tail' = tail + n /\ reader.pc = "read"
    BY <1>1, SessionStreamAssumption DEF Push
  <2>3. reader'.pc = AfterPush /\ reader'.from = tail /\ reader'.lost = reader.lost
    BY <1>1 DEF Push, TypeOK
  <2>4. UNCHANGED <<host, client, request, attached>> /\ host.pc \notin {"gap", "replay", "flag", "seen"}
    BY <1>1 DEF Push
  <2>5. CASE Takes
    <3>1. NextPart!2
      BY <2>5 DEF NextPart
    <3>2. host.pc \in {"conn", "exit"}
      BY <2>4, <2>5 DEF LinkPart, Takes, TypeOK
    <3>3. request = NoRequest <=> attached
      BY <2>5, <3>2 DEF LinkPart, Takes
    <3>4. reader'.pc \in {"gap", "out"} <=> attached
      BY <2>3 DEF AfterPush
    <3>5. attached /\ Roomy => End = tail \/ reader.lost
      BY <2>2, <3>1, <3>2, <3>3
    <3>6. reader'.pc = "out" => attached /\ ~reader.lost
      BY <2>3 DEF AfterPush
    <3> QED BY <2>1, <2>2, <2>3, <2>4, <3>1, <3>2, <3>3, <3>4, <3>5, <3>6 DEF NextPart
  <2>6. CASE ~Takes
    BY <2>4, <2>6 DEF NextPart, Takes
  <2> QED BY <2>5, <2>6
<1>2. ASSUME NEW sent \in BOOLEAN, StreamGap(sent) PROVE NextPart'
  <2>1. /\ End' = End
        /\ sent => Told'
        /\ reader.lost /\ reader'.lost = reader.lost /\ reader'.from = reader.from /\ reader.pc = "gap"
        /\ reader'.pc = IF sent THEN "out" ELSE "read"
    BY <1>2, EndSent, FramesTyped DEF StreamGap, Gap, OffsetPart, TypeOK
  <2>2. UNCHANGED <<host, client, request, tail>> /\ host.pc \notin {"gap", "replay", "flag", "seen"}
    BY <1>2 DEF StreamGap, TypeOK
  <2> QED BY <2>1, <2>2 DEF NextPart, Takes
<1>3. ASSUME NEW sent \in BOOLEAN, StreamOut(sent) PROVE NextPart'
  <2>1. Out(reader.from, tail) \in Frames /\ Out(reader.from, tail).kind = "out"
        /\ Out(reader.from, tail).to = tail
    BY FramesTyped DEF Out, TypeOK
  <2>2. /\ sent => End' = tail
        /\ ~sent => End' = End
    BY <1>3, <2>1, EndSent DEF StreamOut
  <2>3. reader'.pc = "read" /\ (reader'.lost <=> ~sent) /\ reader.pc = "out"
    BY <1>3 DEF StreamOut, TypeOK
  <2>4. UNCHANGED <<host, client, request, tail>> /\ host.pc \notin {"gap", "replay", "flag", "seen"}
    BY <1>3 DEF StreamOut, TypeOK
  <2> QED BY <2>2, <2>3, <2>4 DEF NextPart, Takes
<1>4. ASSUME OutputEnds \/ LooksAttached \/ ExitedVisible PROVE NextPart'
  <2>1. End' = End /\ (Told' <=> Told)
    BY <1>4, Untouched DEF OutputEnds, LooksAttached, ExitedVisible
  <2>2. UNCHANGED <<host, client, request, tail>> /\ reader'.lost = reader.lost
        /\ reader'.from = reader.from
        /\ (reader' = reader \/ (reader.pc \notin {"gap", "out"} /\ reader'.pc \notin {"gap", "out"}))
    BY <1>4 DEF OutputEnds, LooksAttached, ExitedVisible, TypeOK
  <2> QED BY <2>1, <2>2 DEF NextPart, Takes
<1>5. ASSUME NEW sent \in BOOLEAN, ReaderExit(sent) PROVE NextPart'
  <2>1. End' = End /\ (Told' <=> Told)
    BY <1>5, EndSent, FramesTyped DEF ReaderExit, Exit
  <2>2. UNCHANGED <<host, client, request, tail>> /\ reader'.lost = reader.lost
        /\ reader.pc = "exit" /\ reader'.pc = "done"
    BY <1>5 DEF ReaderExit, TypeOK
  <2> QED BY <2>1, <2>2 DEF NextPart, Takes
<1> QED BY <1>1, <1>2, <1>3, <1>4, <1>5 DEF Reader

(* An attach starts its replay at the end, or its loss was announced.      *)
LEMMA NextHost ==
  ASSUME TypeOK, LinkPart, OffsetPart, Quiet, NextPart, Host
  PROVE  NextPart'
<1> USE EndTyped, Numbers DEF HostStep, ReaderHasLock, HostHasLock
<1>1. ASSUME ListSessions \/ ConnectionEnds \/ Detach \/ Purge PROVE NextPart'
  <2>1. client'.link # "routed"
    BY <1>1 DEF ListSessions, ConnectionEnds, Detach, Purge, LinkPart, TypeOK
  <2> QED BY <2>1 DEF NextPart, Takes
<1>2. CASE BeginAttach
  <2>1. End' = End
    BY <1>2, Untouched DEF BeginAttach
  <2>2. UNCHANGED <<client, tail, reader>> /\ reader.pc \notin {"gap", "out"} /\ request # NoRequest
    BY <1>2 DEF BeginAttach
  <2>3. End = client.next /\ request = client.next
    BY <2>2, EndOfExits DEF Quiet, OffsetPart
  <2>4. host'.from = SnapshotStart(request)
        /\ host'.pc = IF request < head THEN "gap" ELSE AfterGap(SnapshotStart(request))
    BY <1>2 DEF BeginAttach
  <2>5. End <= tail /\ head <= tail
    BY <2>3 DEF OffsetPart, TypeOK
  <2>6. CASE request < head
    <3>1. host'.pc = "gap" /\ host'.from = head
      BY <2>4, <2>6 DEF SnapshotStart
    <3> QED BY <2>1, <2>2, <2>3, <2>5, <2>6, <3>1 DEF NextPart
  <2>7. CASE ~(request < head)
    <3>1. SnapshotStart(request) = End
      BY <2>3, <2>5, <2>7 DEF SnapshotStart
    <3>2. (host'.pc = "replay" /\ host'.from = End) \/ (host'.pc = "flag" /\ End = tail)
      BY <2>4, <2>5, <2>7, <3>1 DEF AfterGap
    <3> QED BY <2>1, <2>2, <2>5, <3>2 DEF NextPart
  <2> QED BY <2>6, <2>7
<1>3. ASSUME NEW sent \in BOOLEAN, AttachGap(sent) PROVE NextPart'
  <2>1. /\ End' = End
        /\ sent => Told'
    BY <1>3, EndSent, FramesTyped DEF AttachGap, Gap
  <2>2. UNCHANGED <<client, tail, reader, request>> /\ reader.pc \notin {"gap", "out"} /\ host.pc = "gap"
    BY <1>3 DEF AttachGap, TypeOK
  <2>3. host'.pc = "replay" /\ host'.from = host.from
    BY <1>3 DEF AttachGap, AfterGap, OffsetPart, TypeOK
  <2>4. Takes /\ Roomy => sent
    <3>1. Takes => Len(chan) < 3
      BY <2>2 DEF Quiet, ExitOwed, Takes, TypeOK
    <3> QED BY <1>3, <3>1, Tried, FramesTyped DEF AttachGap
  <2> QED BY <2>1, <2>2, <2>3, <2>4 DEF NextPart, Takes
<1>4. ASSUME NEW sent \in BOOLEAN, AttachReplay(sent) PROVE NextPart'
  <2>1. Out(host.from, tail) \in Frames /\ Out(host.from, tail).kind = "out"
        /\ Out(host.from, tail).to = tail
    BY FramesTyped DEF Out, TypeOK
  <2>2. /\ sent => End' = tail
        /\ ~sent => End' = End
    BY <1>4, <2>1, EndSent DEF AttachReplay
  <2>3. UNCHANGED <<client, tail, reader, request>> /\ reader.pc \notin {"gap", "out"} /\ host.pc = "replay"
        /\ host'.pc = "flag"
    BY <1>4 DEF AttachReplay, TypeOK
  <2>4. Takes /\ Roomy => sent
    <3>1. Takes => Len(chan) < 3
      BY <2>3 DEF Quiet, ExitOwed, Takes, TypeOK
    <3> QED BY <1>4, <2>1, <3>1, Tried DEF AttachReplay
  <2> QED BY <2>2, <2>3, <2>4 DEF NextPart, Takes
<1>5. ASSUME AttachFlag \/ AttachSeen PROVE NextPart'
  <2>1. End' = End /\ (Told' <=> Told)
    BY <1>5, Untouched DEF AttachFlag, AttachSeen
  <2>2. UNCHANGED <<client, tail, reader, request>> /\ host.pc \in {"flag", "seen"}
        /\ host'.pc \in {"seen", "exit", "conn"} /\ reader.pc \notin {"gap", "out"}
    BY <1>5 DEF AttachFlag, AttachSeen, AfterSeen, TypeOK
  <2> QED BY <2>1, <2>2 DEF NextPart, Takes
<1>6. ASSUME NEW sent \in BOOLEAN, AttachExit(sent) PROVE NextPart'
  <2>1. End' = End /\ (Told' <=> Told)
    BY <1>6, EndSent, FramesTyped DEF AttachExit, Exit
  <2>2. UNCHANGED <<client, tail, reader, request>> /\ host.pc = "exit" /\ host'.pc = "conn"
    BY <1>6 DEF AttachExit, TypeOK
  <2> QED BY <2>1, <2>2 DEF NextPart, Takes
<1> QED BY <1>1, <1>2, <1>3, <1>4, <1>5, <1>6 DEF Host

(* A frame that is taken by a GUI that goes on taking.                     *)
LEMMA TakenOn ==
  ASSUME TypeOK, Deliver, Takes'
  PROVE  /\ Takes /\ End' = End /\ (Told' <=> Told)
         /\ \A i \in 1 .. Len(chan) :
              GivenBefore(i)' = GivenBefore(i + 1) /\ (ToldBefore(i)' <=> ToldBefore(i + 1))
<1>1. chan # <<>> /\ chan' = Tail(chan)
  BY DEF Deliver
<1>2. Head(chan).kind \in {"out", "gap", "exit"}
  BY <1>1, HeadTyped DEF Frames
<1>3. Takes
  BY GuiGets DEF Takes, TypeOK
<1>4. Head(chan).kind # "exit"
  BY <1>3, GuiGets DEF Takes, TypeOK
<1>5. \/ Head(chan).kind = "out" /\ client'.next = Head(chan).to /\ client'.gapped = FALSE
      \/ Head(chan).kind = "gap" /\ client'.next = client.next /\ client'.gapped = TRUE
  BY <1>2, <1>3, <1>4, GuiGets DEF TypeOK
<1> QED BY <1>1, <1>3, <1>5, Consumed

(* What the next frame meets, after any step.                              *)
LEMMA NextKept ==
  ASSUME TypeOK, LinkPart, OffsetPart, Quiet, NextPart, [Next]_vars
  PROVE  NextPart'
<1>1. CASE Reader
  BY <1>1, NextReader
<1>2. CASE Host
  BY <1>2, NextHost
<1>3. CASE Deliver
  <2>1. UNCHANGED <<tail, host, reader, request>>
    BY <1>3 DEF Deliver
  <2> QED BY <1>3, <2>1, TakenOn DEF NextPart, ReaderHasLock
<1>4. CASE Reattach
  <2>1. client'.next = client.next /\ client'.gapped = client.gapped /\ client.link = "listed"
        /\ UNCHANGED <<tail, host, reader, chan>> /\ request' = ResumeFrom
    BY <1>4 DEF Reattach, TypeOK
  <2>2. End' = client.next /\ client.next <= tail
    BY <2>1, Untouched, EndOfExits DEF Quiet, OffsetPart
  <2>3. request' # NoRequest /\ host.pc = "conn" /\ ~ReaderHasLock
    BY <2>1, ResumeTyped DEF LinkPart
  <2> QED BY <2>1, <2>2, <2>3 DEF NextPart, ReaderHasLock, NoRequest
<1>5. ASSUME DeliverListing \/ Drop \/ \E sameGui \in BOOLEAN : Reconnect(sameGui) PROVE NextPart'
  <2>1. client'.link # "routed"
    BY <1>5 DEF DeliverListing, Drop, Reconnect, TypeOK
  <2> QED BY <2>1 DEF NextPart, Takes
<1>6. CASE UNCHANGED vars
  BY <1>6, Untouched DEF vars, NextPart, Takes, ReaderHasLock
<1> QED BY <1>1, <1>2, <1>3, <1>4, <1>5, <1>6 DEF Next

(***************************************************************************)
(* The chain of frames in the channel                                      *)
(***************************************************************************)
(* A frame that starts at the end, or after it when told, keeps the chain. *)
LEMMA ChainSent ==
  ASSUME TypeOK, ChainPart, NEW f \in Frames, NEW sent \in BOOLEAN, TrySend(f, sent), client' = client,
         Takes /\ f.kind = "out" => End <= f.from /\ (Roomy => End = f.from \/ Told)
  PROVE  ChainPart'
<1>1. Takes' <=> Takes
  BY DEF Takes
<1>2. CASE sent
  <2>0. chan' = Append(chan, f) /\ chan \in Seq(Frames)
    BY <1>2, Tried DEF TypeOK
  <2>1. PICK n \in Nat : /\ n = Len(chan) /\ Len(chan') = n + 1 /\ chan'[n + 1] = f
                         /\ \A j \in 1 .. n : chan'[j] = chan[j]
    BY <2>0
  <2>2. DOMAIN chan' = 1 .. n + 1 /\ DOMAIN chan = 1 .. n
    BY <1>2, <2>1, Tried DEF TypeOK
  <2>3. /\ \A i \in 1 .. n + 1 : GivenBefore(i)' = GivenBefore(i) /\ (ToldBefore(i)' <=> ToldBefore(i))
        /\ End = GivenBefore(n + 1) /\ (Told <=> ToldBefore(n + 1))
    BY <1>2, <2>1, Tried, Appended DEF End, Told
  <2>4. ASSUME Takes, NEW i \in 1 .. n + 1, chan'[i].kind = "out"
        PROVE  /\ chan'[i].from >= GivenBefore(i)'
               /\ Roomy /\ chan'[i].from > GivenBefore(i)' => ToldBefore(i)'
    <3>1. CASE i = n + 1
      <4>1. f.from \in Nat /\ End \in Nat
        BY EndTyped, SessionStreamAssumption DEF Frames, Offsets
      <4> QED BY <2>1, <2>3, <2>4, <3>1, <4>1
    <3>2. CASE i \in 1 .. n
      BY <2>1, <2>2, <2>3, <2>4, <3>2 DEF ChainPart, NoByteTwice, NoSilentSkip
    <3> QED BY <3>1, <3>2
  <2> QED BY <1>1, <2>2, <2>4 DEF ChainPart, NoByteTwice, NoSilentSkip
<1>3. CASE ~sent
  <2>1. chan' = chan
    BY <1>3, Tried
  <2> QED BY <1>1, <2>1, Untouched DEF ChainPart, NoByteTwice, NoSilentSkip
<1> QED BY <1>2, <1>3

(* The chain where nothing is queued or taken.                             *)
LEMMA ChainStays ==
  ASSUME ChainPart, Takes' => Takes, chan' = chan,
         Takes' => client'.next = client.next /\ client'.gapped = client.gapped
  PROVE  ChainPart'
BY Untouched DEF ChainPart, NoByteTwice, NoSilentSkip

(* The chain, after any step.                                              *)
LEMMA ChainKept ==
  ASSUME TypeOK, LinkPart, OffsetPart, Quiet, NextPart, ChainPart, [Next]_vars
  PROVE  ChainPart'
<1>1. ASSUME Reader PROVE ChainPart'
  <2> USE DEF ReaderStep
  <2>1. ASSUME NEW n \in 1 .. MaxChunk, Push(n) PROVE ChainPart'
    BY <2>1, ChainStays DEF Push, Takes
  <2>2. ASSUME NEW sent \in BOOLEAN, StreamGap(sent) PROVE ChainPart'
    BY <2>2, ChainSent, FramesTyped DEF StreamGap, Gap
  <2>3. ASSUME NEW sent \in BOOLEAN, StreamOut(sent) PROVE ChainPart'
    <3>1. Out(reader.from, tail) \in Frames /\ Out(reader.from, tail).from = reader.from
      BY FramesTyped DEF Out, TypeOK
    <3>2. Takes => End <= reader.from /\ (Roomy => End = reader.from \/ Told)
      BY <2>3 DEF NextPart, StreamOut, ReaderHasLock
    <3> QED BY <2>3, <3>1, <3>2, ChainSent DEF StreamOut
  <2>4. ASSUME OutputEnds \/ LooksAttached \/ ExitedVisible PROVE ChainPart'
    BY <2>4, ChainStays DEF OutputEnds, LooksAttached, ExitedVisible, Takes
  <2>5. ASSUME NEW sent \in BOOLEAN, ReaderExit(sent) PROVE ChainPart'
    BY <2>5, ChainSent, FramesTyped DEF ReaderExit, Exit
  <2> QED BY <1>1, <2>1, <2>2, <2>3, <2>4, <2>5 DEF Reader
<1>2. ASSUME Host PROVE ChainPart'
  <2> USE DEF HostStep
  <2>1. ASSUME NEW sent \in BOOLEAN, AttachGap(sent) PROVE ChainPart'
    BY <2>1, ChainSent, FramesTyped DEF AttachGap, Gap
  <2>2. ASSUME NEW sent \in BOOLEAN, AttachReplay(sent) PROVE ChainPart'
    <3>1. Out(host.from, tail) \in Frames /\ Out(host.from, tail).from = host.from
      BY FramesTyped DEF Out, TypeOK
    <3>2. Takes => End <= host.from /\ (Roomy => End = host.from \/ Told)
      BY <2>2 DEF NextPart, AttachReplay
    <3> QED BY <2>2, <3>1, <3>2, ChainSent DEF AttachReplay
  <2>3. ASSUME NEW sent \in BOOLEAN, AttachExit(sent) PROVE ChainPart'
    BY <2>3, ChainSent, FramesTyped DEF AttachExit, Exit
  <2>4. ASSUME ListSessions \/ BeginAttach \/ AttachFlag \/ AttachSeen \/ ConnectionEnds \/ Detach
        PROVE  ChainPart'
    <3>1. chan' = chan /\ (client' = client \/ client'.link # "routed")
      BY <2>4 DEF ListSessions, BeginAttach, AttachFlag, AttachSeen, ConnectionEnds, Detach, TypeOK
    <3> QED BY <3>1, ChainStays DEF Takes
  <2>5. CASE Purge
    BY <2>5 DEF Purge, PurgeBacklog, ChainPart, NoByteTwice, NoSilentSkip
  <2> QED BY <1>2, <2>1, <2>2, <2>3, <2>4, <2>5 DEF Host
<1>3. CASE Deliver
  <2>1. PICK n \in Nat \ {0} : /\ n = Len(chan) /\ DOMAIN chan' = 1 .. n - 1 /\ DOMAIN chan = 1 .. n
                               /\ \A j \in 1 .. n - 1 : chan'[j] = chan[j + 1]
    BY <1>3 DEF Deliver, TypeOK
  <2>2. ASSUME Takes', NEW i \in 1 .. n - 1, chan'[i].kind = "out"
        PROVE  /\ chan'[i].from >= GivenBefore(i)'
               /\ Roomy /\ chan'[i].from > GivenBefore(i)' => ToldBefore(i)'
    <3>1. i \in 1 .. n /\ i + 1 \in 1 .. n
      OBVIOUS
    <3> QED BY <1>3, <2>1, <2>2, <3>1, TakenOn DEF ChainPart, NoByteTwice, NoSilentSkip
  <2> QED BY <2>1, <2>2 DEF ChainPart, NoByteTwice, NoSilentSkip
<1>4. CASE Reattach
  <2>1. chan' = chan /\ \A i \in DOMAIN chan : chan[i].kind = "exit"
    BY <1>4 DEF Reattach, Quiet
  <2> QED BY <2>1 DEF ChainPart, NoByteTwice, NoSilentSkip
<1>5. ASSUME DeliverListing \/ Drop \/ \E sameGui \in BOOLEAN : Reconnect(sameGui) PROVE ChainPart'
  <2>1. chan' = chan /\ client'.link # "routed"
    BY <1>5 DEF DeliverListing, Drop, Reconnect, TypeOK
  <2> QED BY <2>1, ChainStays DEF Takes
<1>6. CASE UNCHANGED vars
  BY <1>6, ChainStays DEF vars, Takes
<1> QED BY <1>1, <1>2, <1>3, <1>4, <1>5, <1>6 DEF Next

(***************************************************************************)
(* The theorems                                                            *)
(***************************************************************************)
LEMMA StreamInvInit == Init => StreamInv
<1> SUFFICES ASSUME Init PROVE StreamInv
  OBVIOUS
<1>1. TypeOK
  BY TypeInit
<1>2. LinkPart /\ HoldPart
  BY SessionStreamAssumption DEF Init, LinkPart, HoldPart, NoRequest
<1>3. OffsetPart /\ FramePart
  BY DEF Init, OffsetPart, FramePart
<1>4. Quiet
  BY DEF Init, Quiet
<1>5. ExitPart
  BY DEF Init, ExitPart, ExitReported
<1> QED BY <1>1, <1>2, <1>3, <1>4, <1>5, NextInit DEF StreamInv

\* The invariant of the argument: the ring, the reader, the serve loop, the
\* channel and the GUI always stand to each other as described above.
THEOREM StreamInvariant == Spec => []StreamInv
<1>1. StreamInv /\ [Next]_vars => StreamInv'
  BY TypeKept, LinkKept, OffsetKept, FrameKept, QuietKept, NextKept, ChainKept, ExitKept, HoldKept
     DEF StreamInv
<1> QED BY StreamInvInit, <1>1, PTL DEF Spec

\* Every variable of the stream keeps its type: the ring never holds more than
\* its capacity, the channel never more than its own, and the reader and an
\* attach never hold the ring's lock together (session.rs, run_reader, attach).
THEOREM StreamTypeCorrect == Spec => []TypeOK
<1>1. StreamInv => TypeOK
  BY DEF StreamInv
<1> QED BY <1>1, StreamInvariant, PTL

\* Whatever is lost, dropped or detached, and however full the channel is, no
\* Out frame starts before the one the GUI is given ahead of it ends: no byte
\* of a session is ever shown twice (session.rs, attach and stream_live).
THEOREM NeverTwice == Spec => []NoByteTwice
<1>1. StreamInv => NoByteTwice
  BY DEF StreamInv, ChainPart
<1> QED BY <1>1, StreamInvariant, PTL

\* When other sessions leave the channel some room, and it takes three frames,
\* output is exact: each byte once, in order, nothing left out without a Gap
\* before it, and a loss not yet told is remembered by the reader
\* (session.rs, stream_live and attach).  On a channel that other sessions fill,
\* TLC refutes it (README, What the comments say).
THEOREM OutputAlwaysExact == Roomy => (Spec => []OutputExact)
<1> SUFFICES ASSUME Roomy PROVE Spec => []OutputExact
  OBVIOUS
<1>1. StreamInv => OutputExact
  <2> SUFFICES ASSUME StreamInv PROVE OutputExact
    OBVIOUS
  <2>1. LossIsRemembered
    BY DEF StreamInv, NextPart, LossIsRemembered, Streaming, End
  <2> QED BY <2>1 DEF StreamInv, ChainPart, OutputExact
<1> QED BY <1>1, StreamInvariant, PTL

\* Once the reader is done and the attach served, the Exit is in the channel of
\* a GUI that has not had it, unless the channel was full or the store to
\* `exited` was not yet seen (session.rs, run_reader and attach).
THEOREM ExitAlwaysReported == Spec => []ExitReported
<1>1. StreamInv => ExitReported
  BY DEF StreamInv, ExitPart
<1> QED BY <1>1, StreamInvariant, PTL

\* While the host is held without a client, the channel keeps no output of the
\* connection before: at most what a reader had already in its hands
\* (transport/mod.rs, purge of the backlog).
THEOREM BacklogBounded == Spec => []NoBacklogHeld
<1>1. StreamInv => NoBacklogHeld
  BY DEF StreamInv, HoldPart, InHand, NoBacklogHeld, TypeOK
<1> QED BY <1>1, StreamInvariant, PTL
=============================================================================
