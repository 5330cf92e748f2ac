-------------------------- MODULE Hydration_proofs --------------------------
(***************************************************************************)
(* The entry of a pane is sound, for any processes, hydrates, chunks, caps *)
(* and evictions.  A gate that is up is that of the newest generation, and *)
(* the hydrate of that generation is the one under way: an older one is    *)
(* cancelled without touching the gate, and no commit of it leaves the     *)
(* gate up.  The type invariant comes apart into parts, so that a step is  *)
(* looked at only where it acts.                                           *)
(***************************************************************************)
EXTENDS Hydration, TLAPS

(* The type invariant, part by part.                                       *)
Runs    == [state : {"idle", "asked", "history", "answered"}, of : Processes,
            generation : 0 .. MaxGeneration, era : 0 .. MaxEra,
            kind : {"none", "screen", "prefix", "history"}, upto : 0 .. Chunks]
Repairs == [state : {"idle", "resync", "ed3", "resyncRead", "ed3Read"},
            of : Processes, upto : 0 .. Chunks, fresh : BOOLEAN]

StreamTyped ==
  /\ out \in [Process -> 0 .. Chunks] /\ del \in [Process -> 0 .. Chunks]
  /\ missed \subseteq Process
FlagsTyped ==
  /\ mounted \in BOOLEAN /\ exists \in BOOLEAN /\ hydrating \in BOOLEAN
  /\ cut \in BOOLEAN /\ spoilt \in BOOLEAN /\ outlived \in BOOLEAN
LinkTyped ==
  /\ attached \in Processes /\ process \in Processes
  /\ subscribed \in Processes /\ hydrated \in Processes
  /\ era \in 0 .. MaxEra /\ generation \in 0 .. MaxGeneration
BufferTyped ==
  /\ pend \in Seq(Chunk) /\ live \in Seq(Chunk) /\ screen \in Seq(Chunk)
  /\ Len(pend) <= Cap
PaintTyped == painted \in [of : Processes, upto : 0 .. Chunks]
WorkTyped  == runs \in [Run -> Runs] /\ repair \in Repairs

Typed == StreamTyped /\ FlagsTyped /\ LinkTyped /\ BufferTyped /\ PaintTyped /\ WorkTyped

LEMMA TypedParts == Typed <=> TypeOK
BY DEF Typed, StreamTyped, FlagsTyped, LinkTyped, BufferTyped, PaintTyped, WorkTyped, Runs, Repairs, TypeOK

(* The numbers of the model.                                               *)
LEMMA Bounds ==
  /\ 0 \in 0 .. Chunks /\ 0 \in 0 .. MaxGeneration /\ 0 \in 0 .. MaxEra
  /\ \A k \in 0 .. Chunks : k < Chunks => k + 1 \in 0 .. Chunks
  /\ \A g \in 0 .. MaxGeneration : g < MaxGeneration => g + 1 \in 0 .. MaxGeneration
  /\ \A e \in 0 .. MaxEra : e < MaxEra => e + 1 \in 0 .. MaxEra
  /\ \A j, k \in 0 .. Chunks : j < k => j + 1 \in 0 .. Chunks
  /\ Process \subseteq Processes /\ NoProcess \in Processes /\ NoProcess \notin Process
BY HydrationAssumption DEF Processes

(* Nothing under way, and nothing painted.                                 *)
LEMMA Rests ==
  /\ Idle \in Runs /\ Idle.state = "idle"
  /\ NoRepair \in Repairs /\ NoRepair.state = "idle"
  /\ Nothing \in [of : Processes, upto : 0 .. Chunks]
BY Bounds DEF Idle, NoRepair, Nothing, Runs, Repairs

(* The pane: an engine is mounted on an entry, and attached only while it  *)
(* is; a hydrate or a repair under way is of a process.                    *)
EntryPart ==
  /\ mounted => exists
  /\ attached # NoProcess => mounted
WorkPart ==
  /\ \A r \in Run : runs[r].state # "idle" => runs[r].of \in Process
  /\ repair.state # "idle" => repair.of \in Process

EntryInv == Typed /\ GateServed /\ ListensToItsOwn /\ EntryPart /\ WorkPart

(* The sequences of chunks that the model makes.                           *)
LEMMA ChunksTyped ==
  /\ \A p \in Process : \A k \in 0 .. Chunks : Upto(p, k) \in Seq(Chunk)
  /\ \A p \in Process : Replay(p) \in Seq(Chunk)
  /\ \A p \in Process : \A k \in 0 .. Chunks : [of |-> p, i |-> k] \in Chunk
<1>1. ASSUME NEW p \in Process, NEW k \in 0 .. Chunks PROVE [of |-> p, i |-> k] \in Chunk
  BY DEF Chunk
<1>2. ASSUME NEW p \in Process, NEW k \in 0 .. Chunks PROVE Upto(p, k) \in Seq(Chunk)
  <2>1. \A j \in 1 .. k : [of |-> p, i |-> j] \in Chunk
    BY HydrationAssumption DEF Chunk
  <2>2. Upto(p, k) \in [1 .. k -> Chunk] /\ k \in Nat
    BY <2>1, HydrationAssumption DEF Upto
  <2> QED BY <2>2
<1>3. ASSUME NEW p \in Process PROVE Replay(p) \in Seq(Chunk)
  <2>1. [of |-> p, i |-> 0] \in Chunk
    BY HydrationAssumption DEF Chunk
  <2> QED BY <2>1 DEF Replay
<1> QED BY <1>1, <1>2, <1>3

(* What waits keeps to the cap.                                            *)
LEMMA Waiting ==
  ASSUME BufferTyped, NEW c \in Chunk, Buffered(c)
  PROVE  pend' \in Seq(Chunk) /\ Len(pend') <= Cap
<1> DEFINE all == Append(pend, c)
<1>1. pend \in Seq(Chunk) /\ Len(pend) \in Nat /\ Len(pend) <= Cap /\ Cap \in Nat
  BY HydrationAssumption DEF BufferTyped
<1>2. all \in Seq(Chunk) /\ Len(all) = Len(pend) + 1
  BY <1>1
<1>3. pend' = IF Len(all) > Cap THEN Tail(all) ELSE all
  BY DEF Buffered
<1>4. Len(all) > Cap => Tail(all) \in Seq(Chunk) /\ Len(Tail(all)) = Len(all) - 1
  <2> HIDE DEF all
  <2> SUFFICES ASSUME Len(all) > Cap PROVE Tail(all) \in Seq(Chunk) /\ Len(Tail(all)) = Len(all) - 1
    OBVIOUS
  <2>1. all # <<>>
    BY <1>1, <1>2
  <2> QED BY <1>2, <2>1
<1> HIDE DEF all
<1> QED BY <1>1, <1>2, <1>3, <1>4

(* The host's answer is awaited by the run of the new generation.          *)
LEMMA AsksServes ==
  ASSUME WorkTyped, LinkTyped, WorkPart, exists, exists' = exists, UNCHANGED <<repair, era>>,
         NEW p \in Process, Asks(p)
  PROVE  /\ WorkTyped' /\ generation' \in 0 .. MaxGeneration /\ hydrating' = TRUE
         /\ GateServed' /\ WorkPart'
<1>1. PICK r \in Run :
        /\ runs[r] = Idle /\ generation < MaxGeneration
        /\ generation' = generation + 1 /\ hydrating' = TRUE
        /\ runs' = [runs EXCEPT ![r] = [Idle EXCEPT !.state = "asked", !.of = p,
                                        !.generation = generation + 1, !.era = era]]
  BY DEF Asks
<1>2. generation + 1 \in 0 .. MaxGeneration
  BY <1>1, Bounds DEF LinkTyped
<1> DEFINE n == [Idle EXCEPT !.state = "asked", !.of = p, !.generation = generation + 1, !.era = era]
<1>3. n \in Runs /\ n.state = "asked" /\ n.of = p /\ n.generation = generation + 1
  BY <1>2, Bounds DEF Idle, Runs, LinkTyped
<1>4. runs' = [runs EXCEPT ![r] = n]
  BY <1>1
<1> HIDE DEF n
<1>5. runs'[r] = n
  BY <1>4 DEF WorkTyped
<1>6. GateServed'
  BY <1>1, <1>3, <1>5 DEF GateServed
<1>7. WorkPart'
  BY <1>3, <1>4 DEF WorkPart, WorkTyped
<1>8. WorkTyped'
  BY <1>3, <1>4 DEF WorkTyped
<1> QED BY <1>1, <1>2, <1>6, <1>7, <1>8

(* What a step that leaves the variables of a part alone keeps of it.      *)
LEMMA Untouched ==
  /\ StreamTyped /\ UNCHANGED streamVars => StreamTyped'
  /\ FlagsTyped /\ UNCHANGED <<mounted, exists, hydrating, cut, spoilt, outlived>> => FlagsTyped'
  /\ LinkTyped /\ UNCHANGED <<attached, process, subscribed, hydrated, era, generation>> => LinkTyped'
  /\ BufferTyped /\ UNCHANGED <<pend, live, screen>> => BufferTyped'
  /\ PaintTyped /\ UNCHANGED painted => PaintTyped'
  /\ WorkTyped /\ WorkPart /\ UNCHANGED <<runs, repair>> => WorkTyped' /\ WorkPart'
  /\ GateServed /\ UNCHANGED <<hydrating, generation, exists, runs>> => GateServed'
  /\ ListensToItsOwn /\ UNCHANGED <<attached, exists, process, subscribed>> => ListensToItsOwn'
  /\ EntryPart /\ UNCHANGED <<mounted, exists, attached>> => EntryPart'
<1>1. StreamTyped /\ UNCHANGED streamVars => StreamTyped'
  BY DEF StreamTyped, streamVars
<1>2. FlagsTyped /\ UNCHANGED <<mounted, exists, hydrating, cut, spoilt, outlived>> => FlagsTyped'
  BY DEF FlagsTyped
<1>3. LinkTyped /\ UNCHANGED <<attached, process, subscribed, hydrated, era, generation>> => LinkTyped'
  BY DEF LinkTyped
<1>4. BufferTyped /\ UNCHANGED <<pend, live, screen>> => BufferTyped'
  BY DEF BufferTyped
<1>5. PaintTyped /\ UNCHANGED painted => PaintTyped'
  BY DEF PaintTyped
<1>6. WorkTyped /\ WorkPart /\ UNCHANGED <<runs, repair>> => WorkTyped' /\ WorkPart'
  BY DEF WorkTyped, WorkPart
<1>7. GateServed /\ UNCHANGED <<hydrating, generation, exists, runs>> => GateServed'
  BY DEF GateServed
<1>8. ListensToItsOwn /\ UNCHANGED <<attached, exists, process, subscribed>> => ListensToItsOwn'
  BY DEF ListensToItsOwn
<1>9. EntryPart /\ UNCHANGED <<mounted, exists, attached>> => EntryPart'
  BY DEF EntryPart
<1> QED BY <1>1, <1>2, <1>3, <1>4, <1>5, <1>6, <1>7, <1>8, <1>9

(* The stream reaches the entry.                                           *)
LEMMA StreamKeeps ==
  ASSUME EntryInv, Stream PROVE EntryInv'
<1> USE DEF EntryInv, Typed, streamVars, engineVars, gateVars, linkVars, bufVars, paintVars
<1>1. ASSUME NEW p \in Process, Produce(p) PROVE EntryInv'
  <2>1. out[p] + 1 \in 0 .. Chunks
    BY <1>1, Bounds DEF Produce, StreamTyped
  <2>2. StreamTyped'
    BY <1>1, <2>1 DEF Produce, StreamTyped
  <2> QED BY <1>1, <2>2, Untouched DEF Produce
<1>2. ASSUME NEW p \in Process, Deliver(p) PROVE EntryInv'
  <2> DEFINE c == [of |-> p, i |-> del[p] + 1]
  <2>1. del[p] + 1 \in 0 .. Chunks
    BY <1>2, Bounds DEF Deliver, StreamTyped
  <2>2. c \in Chunk
    BY <2>1, ChunksTyped
  <2>3. StreamTyped'
    BY <1>2, <2>1 DEF Deliver, StreamTyped
  <2>4. repair' \in {repair, [repair EXCEPT !.fresh = FALSE]} /\ runs' = runs
    BY <1>2 DEF Deliver
  <2>5. WorkTyped' /\ WorkPart'
    BY <2>4 DEF WorkTyped, WorkPart, Repairs
  <2>6. \/ Buffered(c) /\ UNCHANGED live
        \/ live' = Append(live, c) /\ UNCHANGED <<pend, cut>>
        \/ UNCHANGED <<pend, cut, live>>
    BY <1>2 DEF Deliver
  <2>7. UNCHANGED <<screen, painted, spoilt, outlived>> /\ UNCHANGED <<engineVars, linkVars, gateVars>>
    BY <1>2 DEF Deliver
  <2> HIDE DEF c
  <2>8. BufferTyped'
    <3>1. CASE Buffered(c) /\ UNCHANGED live
      BY <2>2, <2>7, <3>1, Waiting DEF BufferTyped
    <3>2. CASE live' = Append(live, c) /\ UNCHANGED <<pend, cut>>
      BY <2>2, <2>7, <3>2 DEF BufferTyped
    <3>3. CASE UNCHANGED <<pend, cut, live>>
      BY <2>7, <3>3 DEF BufferTyped
    <3> QED BY <2>6, <3>1, <3>2, <3>3
  <2>9. FlagsTyped'
    <3>1. cut' \in BOOLEAN
      BY <2>6 DEF Buffered, FlagsTyped
    <3> QED BY <2>7, <3>1 DEF FlagsTyped
  <2> QED BY <2>3, <2>5, <2>7, <2>8, <2>9, <2>4, Untouched
<1>3. CASE FlushLiveWrites
  <2>1. BufferTyped'
    BY <1>3, HydrationAssumption DEF FlushLiveWrites, BufferTyped
  <2> QED BY <1>3, <2>1, Untouched DEF FlushLiveWrites
<1> QED BY <1>1, <1>2, <1>3 DEF Stream

(* The pane is mounted, attached, left and evicted.                        *)
LEMMA PaneKeeps ==
  ASSUME EntryInv, Pane PROVE EntryInv'
<1> USE DEF EntryInv, Typed, streamVars, engineVars, gateVars, linkVars, bufVars, paintVars
<1>1. CASE Mount
  <2>1. FlagsTyped' /\ LinkTyped' /\ GateServed' /\ ListensToItsOwn' /\ EntryPart'
    BY <1>1, Bounds DEF Mount, FlagsTyped, LinkTyped, GateServed, ListensToItsOwn, EntryPart
  <2> QED BY <1>1, <2>1, Untouched DEF Mount
<1>2. CASE Unmount
  <2>1. FlagsTyped' /\ LinkTyped' /\ ListensToItsOwn' /\ EntryPart'
    BY <1>2, Bounds DEF Unmount, FlagsTyped, LinkTyped, ListensToItsOwn, EntryPart
  <2> QED BY <1>2, <2>1, Untouched DEF Unmount
<1>3. CASE Evict
  <2>1. FlagsTyped'
    BY <1>3 DEF Evict, FlagsTyped
  <2>2. LinkTyped'
    BY <1>3, Bounds DEF Evict, LinkTyped
  <2>3. BufferTyped' /\ PaintTyped'
    BY <1>3, Rests, HydrationAssumption DEF Evict, BufferTyped, PaintTyped
  <2>4. StreamTyped'
    BY <1>3 DEF Evict, StreamTyped
  <2>5. GateServed' /\ ListensToItsOwn' /\ EntryPart'
    BY <1>3 DEF Evict, GateServed, ListensToItsOwn, EntryPart
  <2> QED BY <1>3, <2>1, <2>2, <2>3, <2>4, <2>5, Untouched DEF Evict
<1>4. ASSUME NEW p \in Process, Attach(p) PROVE EntryInv'
  <2>1. /\ mounted /\ attached' = p /\ process' = p /\ subscribed' = p
        /\ hydrated' \in {hydrated, NoProcess}
        /\ UNCHANGED <<streamVars, mounted, era, exists, bufVars, paintVars, repair, outlived>>
        /\ (hydrating' = FALSE /\ UNCHANGED <<generation, runs>>) \/ Asks(p)
    BY <1>4 DEF Attach
  <2>2. ListensToItsOwn' /\ EntryPart' /\ exists
    BY <2>1 DEF ListensToItsOwn, EntryPart
  <2>3. /\ WorkTyped' /\ generation' \in 0 .. MaxGeneration /\ hydrating' \in BOOLEAN
        /\ GateServed' /\ WorkPart'
    <3>1. CASE hydrating' = FALSE /\ UNCHANGED <<generation, runs>>
      <4>1. generation' \in 0 .. MaxGeneration /\ hydrating' \in BOOLEAN
        BY <3>1 DEF LinkTyped
      <4>2. GateServed'
        BY <3>1 DEF GateServed
      <4> QED BY <2>1, <3>1, <4>1, <4>2, Untouched
    <3>2. CASE Asks(p)
      BY <2>1, <2>2, <3>2, AsksServes
    <3> QED BY <2>1, <3>1, <3>2
  <2>4. LinkTyped'
    BY <2>1, <2>3, Bounds DEF LinkTyped
  <2>5. FlagsTyped'
    BY <2>1, <2>3 DEF FlagsTyped
  <2> QED BY <2>1, <2>2, <2>3, <2>4, <2>5, Untouched
<1> QED BY <1>1, <1>2, <1>3, <1>4 DEF Pane

(* A hydrate goes on, is cancelled, or commits.                            *)
LEMMA HydrateKeeps ==
  ASSUME EntryInv, Hydrate PROVE EntryInv'
<1> USE DEF EntryInv, Typed, streamVars, engineVars, gateVars, linkVars, bufVars, paintVars
<1>1. ASSUME NEW r \in Run, NEW a \in Runs, a.state # "idle", a.of = runs[r].of,
             a.generation = runs[r].generation, runs[r].state # "idle",
             runs' = [runs EXCEPT ![r] = a],
             UNCHANGED <<streamVars, engineVars, linkVars, gateVars, bufVars, paintVars, repair, outlived>>
      PROVE  EntryInv'
  <2>1. WorkTyped' /\ WorkPart'
    BY <1>1 DEF WorkTyped, WorkPart
  <2>2. GateServed'
    BY <1>1 DEF GateServed, WorkTyped
  <2> QED BY <1>1, <2>1, <2>2, Untouched
<1>2. ASSUME NEW r \in Run, NEW kind \in {"screen", "prefix", "history"}, NEW k \in 0 .. Chunks,
             runs[r].state # "idle", Answers(r, kind, k),
             UNCHANGED <<streamVars, engineVars, linkVars, gateVars, bufVars, paintVars, repair, outlived>>
      PROVE  EntryInv'
  <2> DEFINE a == [runs[r] EXCEPT !.state = "answered", !.kind = kind, !.upto = k]
  <2>1. a \in Runs /\ a.state # "idle" /\ a.of = runs[r].of /\ a.generation = runs[r].generation
    BY DEF WorkTyped, Runs
  <2>2. runs' = [runs EXCEPT ![r] = a]
    BY <1>2 DEF Answers
  <2> HIDE DEF a
  <2> QED BY <1>1, <1>2, <2>1, <2>2
<1>3. ASSUME NEW r \in Run, SnapshotRead(r) PROVE EntryInv'
  <2>1. out[runs[r].of] \in 0 .. Chunks /\ runs[r].state # "idle"
    BY <1>3 DEF SnapshotRead, WorkPart, StreamTyped
  <2> QED BY <1>2, <1>3, <2>1, Bounds DEF SnapshotRead
<1>4. ASSUME NEW r \in Run, NEW ok \in BOOLEAN, HistoryRead(r, ok) PROVE EntryInv'
  <2>1. (IF ok THEN out[runs[r].of] ELSE 0) \in 0 .. Chunks /\ runs[r].state # "idle"
    BY <1>4, Bounds DEF HistoryRead, WorkPart, StreamTyped
  <2> QED BY <1>2, <1>4, <2>1 DEF HistoryRead
<1>5. ASSUME NEW r \in Run, SnapshotFails(r) PROVE EntryInv'
  <2> DEFINE a == [runs[r] EXCEPT !.state = "history"]
  <2>1. a \in Runs /\ a.state # "idle" /\ a.of = runs[r].of /\ a.generation = runs[r].generation
    BY DEF WorkTyped, Runs
  <2>2. runs' = [runs EXCEPT ![r] = a] /\ runs[r].state # "idle"
    BY <1>5 DEF SnapshotFails
  <2> HIDE DEF a
  <2> QED BY <1>1, <1>5, <2>1, <2>2 DEF SnapshotFails
<1>6. ASSUME NEW r \in Run, HydrateCancelled(r) PROVE EntryInv'
  <2>1. runs' = [runs EXCEPT ![r] = Idle] /\ (~exists \/ generation # runs[r].generation)
        /\ UNCHANGED <<streamVars, engineVars, linkVars, gateVars, bufVars, paintVars, repair, outlived>>
    BY <1>6 DEF HydrateCancelled, Cancelled
  <2>2. WorkTyped' /\ WorkPart'
    BY <2>1, Rests DEF WorkTyped, WorkPart
  <2>3. GateServed'
    BY <2>1 DEF GateServed, WorkTyped
  <2> QED BY <2>1, <2>2, <2>3, Untouched
<1>7. ASSUME NEW r \in Run, Commit(r) PROVE EntryInv'
  <2> DEFINE a == runs[r]
  <2>1. /\ runs' = [runs EXCEPT ![r] = Idle]
        /\ pend' = <<>> /\ cut' = FALSE /\ hydrated' = a.of /\ hydrating' = FALSE
        /\ screen' = Committed(a) /\ spoilt' = Raced(a)
        /\ UNCHANGED <<streamVars, engineVars, linkVars, generation, live, repair>>
    BY <1>7 DEF Commit
  <2>2. a.of \in Process /\ a.upto \in 0 .. Chunks /\ a.kind \in {"none", "screen", "prefix", "history"}
    BY <1>7 DEF WorkPart, WorkTyped, Runs, Commit
  <2>3. painted' \in {painted, [of |-> a.of, upto |-> a.upto]}
    BY <1>7 DEF Commit
  <2>4. outlived' \in BOOLEAN
    BY <1>7 DEF Commit, FlagsTyped
  <2> HIDE DEF a
  <2>5. /\ Replay(a.of) \in Seq(Chunk) /\ Upto(a.of, a.upto) \in Seq(Chunk) /\ <<>> \in Seq(Chunk)
        /\ pend \in Seq(Chunk) /\ screen \in Seq(Chunk)
    BY <2>2, ChunksTyped DEF BufferTyped
  <2>6. \A u, w \in Seq(Chunk) : u \o w \in Seq(Chunk)
    OBVIOUS
  <2>7. Committed(a) \in Seq(Chunk)
    BY <2>5, <2>6 DEF Committed
  <2>8. BufferTyped'
    BY <2>1, <2>5, <2>7, HydrationAssumption DEF BufferTyped
  <2>9. Raced(a) \in BOOLEAN
    BY DEF Raced, FlagsTyped
  <2>10. FlagsTyped'
    BY <2>1, <2>4, <2>9 DEF FlagsTyped
  <2>11. PaintTyped' /\ LinkTyped'
    BY <2>1, <2>2, <2>3, Bounds DEF PaintTyped, LinkTyped
  <2>12. WorkTyped' /\ WorkPart'
    BY <2>1, Rests DEF WorkTyped, WorkPart
  <2>13. GateServed'
    BY <2>1 DEF GateServed
  <2> QED BY <2>1, <2>8, <2>10, <2>11, <2>12, <2>13, Untouched
<1> QED BY <1>3, <1>4, <1>5, <1>6, <1>7 DEF Hydrate

(* A repair asks, is answered, and paints or does not.                     *)
LEMMA RepairKeeps ==
  ASSUME EntryInv, Repair PROVE EntryInv'
<1> USE DEF EntryInv, Typed, streamVars, engineVars, gateVars, linkVars, bufVars, paintVars
<1>1. ASSUME NEW kind \in {"resync", "ed3"}, RepairAsks(kind) PROVE EntryInv'
  <2>1. attached \in Process
    BY <1>1 DEF RepairAsks, LinkTyped, Processes
  <2>2. WorkTyped' /\ WorkPart'
    BY <1>1, <2>1, Bounds DEF RepairAsks, WorkTyped, WorkPart, NoRepair, Repairs
  <2> QED BY <1>1, <2>2, Untouched DEF RepairAsks
<1>2. CASE RepairRead
  <2>1. repair.of \in Process /\ out[repair.of] \in 0 .. Chunks
    BY <1>2 DEF RepairRead, WorkPart, StreamTyped
  <2>2. WorkTyped' /\ WorkPart'
    BY <1>2, <2>1 DEF RepairRead, WorkTyped, WorkPart, Repairs
  <2> QED BY <1>2, <2>2, Untouched DEF RepairRead
<1>3. ASSUME NEW kind \in {"resync", "ed3"}, RepairDone(kind) PROVE EntryInv'
  <2>1. repair.of \in Process /\ repair.upto \in 0 .. Chunks /\ repair' = NoRepair
    BY <1>3 DEF RepairDone, WorkPart, WorkTyped, Repairs
  <2>2. UNCHANGED <<streamVars, engineVars, linkVars, gateVars, bufVars, runs, outlived>>
    BY <1>3 DEF RepairDone
  <2>3. /\ screen' \in {screen, Upto(repair.of, repair.upto)}
        /\ spoilt' \in {spoilt, hydrating \/ del[repair.of] # repair.upto}
        /\ painted' \in {painted, [of |-> repair.of, upto |-> repair.upto]}
    BY <1>3 DEF RepairDone
  <2>4. WorkTyped' /\ WorkPart'
    BY <2>1, <2>2, Rests DEF WorkTyped, WorkPart
  <2>5. BufferTyped'
    BY <2>1, <2>2, <2>3, ChunksTyped DEF BufferTyped
  <2>6. PaintTyped'
    BY <2>1, <2>3, Bounds DEF PaintTyped
  <2>7. FlagsTyped'
    BY <2>2, <2>3 DEF FlagsTyped
  <2> QED BY <2>2, <2>4, <2>5, <2>6, <2>7, Untouched
<1> QED BY <1>1, <1>2, <1>3 DEF Repair

\* The inductive invariant behind it: mounted engines, hydrates and repairs of
\* TerminalEngine.ts always have an entry and a process.
THEOREM EntryAlwaysHolds == Spec => []EntryInv
<1>1. Init => EntryInv
  <2> SUFFICES ASSUME Init PROVE EntryInv
    OBVIOUS
  <2>1. StreamTyped /\ FlagsTyped /\ LinkTyped
    BY Bounds DEF Init, StreamTyped, FlagsTyped, LinkTyped
  <2>2. BufferTyped
    BY HydrationAssumption DEF Init, BufferTyped
  <2>3. PaintTyped /\ WorkTyped
    BY Rests DEF Init, PaintTyped, WorkTyped
  <2>4. GateServed /\ ListensToItsOwn /\ EntryPart /\ WorkPart
    BY Rests DEF Init, GateServed, ListensToItsOwn, EntryPart, WorkPart
  <2> QED BY <2>1, <2>2, <2>3, <2>4 DEF EntryInv, Typed
<1>2. EntryInv /\ [Next]_vars => EntryInv'
  <2> SUFFICES ASSUME EntryInv, [Next]_vars PROVE EntryInv'
    OBVIOUS
  <2>1. CASE UNCHANGED vars
    BY <2>1, Untouched DEF vars, streamVars, engineVars, gateVars, linkVars, bufVars, paintVars,
                           EntryInv, Typed
  <2> QED BY <2>1, StreamKeeps, PaneKeeps, HydrateKeeps, RepairKeeps DEF Next
<1> QED BY <1>1, <1>2, PTL DEF Spec

\* Across remounts, evictions, re-targeting, failed snapshots and repairs, output
\* is held back only while the hydrate that will let it go is under way, and a
\* pane listens to the process it is attached to and to no other
\* (TerminalEngine.ts, attach and hydrate); and every variable keeps its type.
THEOREM EntryAlwaysSound == Spec => []EntrySound
<1>1. EntryInv => EntrySound
  BY TypedParts DEF EntryInv, EntrySound
<1> QED BY <1>1, EntryAlwaysHolds, PTL

(***************************************************************************)
(* What is on the screen                                                   *)
(***************************************************************************)
LEMMA UptoOnce ==
  ASSUME NEW p \in Process, NEW k \in 0 .. Chunks
  PROVE  /\ OnceInOrder(Upto(p, k), p, k)
         /\ \A n \in DOMAIN Upto(p, k) : Upto(p, k)[n].of = p
<1>1. k \in Nat /\ DOMAIN Upto(p, k) = 1 .. k
  BY HydrationAssumption DEF Upto
<1>2. \A n \in 1 .. k : Upto(p, k)[n].of = p /\ Upto(p, k)[n].i = n
  BY DEF Upto
<1>3. Own(Upto(p, k), p) = 1 .. k
  BY <1>1, <1>2 DEF Own
<1>4. {Upto(p, k)[n].i : n \in Own(Upto(p, k), p)} = 1 .. k
  BY <1>2, <1>3
<1> QED BY <1>1, <1>2, <1>3, <1>4 DEF OnceInOrder

(* Where the chunks of a concatenation come from.                          *)
LEMMA ConcatIs ==
  ASSUME NEW a \in Seq(Chunk), NEW b \in Seq(Chunk)
  PROVE  /\ a \o b \in Seq(Chunk) /\ Len(a) \in Nat
         /\ \A i \in DOMAIN a : i \in DOMAIN (a \o b) /\ (a \o b)[i] = a[i]
         /\ \A j \in DOMAIN b : Len(a) + j \in DOMAIN (a \o b) /\ (a \o b)[Len(a) + j] = b[j]
         /\ \A i \in DOMAIN (a \o b) : i \in DOMAIN a \/ \E j \in DOMAIN b : i = Len(a) + j
         /\ DOMAIN a \subseteq 1 .. Len(a) /\ DOMAIN b \subseteq Nat \ {0}
<1> DEFINE c == a \o b
<1>1. /\ c \in Seq(Chunk) /\ Len(a) \in Nat /\ Len(b) \in Nat /\ Len(c) = Len(a) + Len(b)
      /\ DOMAIN a = 1 .. Len(a) /\ DOMAIN b = 1 .. Len(b) /\ DOMAIN c = 1 .. Len(c)
  OBVIOUS
<1>2. \A i \in DOMAIN a : i \in DOMAIN c /\ c[i] = a[i]
  OBVIOUS
<1>3. ASSUME NEW j \in DOMAIN b PROVE Len(a) + j \in DOMAIN c /\ c[Len(a) + j] = b[j]
  <2>1. j \in 1 .. Len(b) /\ Len(a) + j \in 1 .. Len(c)
    BY <1>1
  <2> QED BY <2>1
<1> HIDE DEF c
<1>4. ASSUME NEW i \in DOMAIN c, i \notin DOMAIN a PROVE \E j \in DOMAIN b : i = Len(a) + j
  <2>1. i - Len(a) \in DOMAIN b /\ i = Len(a) + (i - Len(a))
    BY <1>1, <1>4
  <2> QED BY <2>1
<1> QED BY <1>1, <1>2, <1>3, <1>4 DEF c

LEMMA ConcatOwn ==
  ASSUME NEW a \in Seq(Chunk), NEW b \in Seq(Chunk), NEW p \in Process, NEW k \in Nat
  PROVE  /\ Own(a, p) = {} /\ Own(b, p) = {} => Own(a \o b, p) = {}
         /\ Own(b, p) = {} /\ OnceInOrder(a, p, k) => OnceInOrder(a \o b, p, k)
         /\ Own(a, p) = {} /\ OnceInOrder(b, p, k) => OnceInOrder(a \o b, p, k)
<1> DEFINE c == a \o b
           d == Len(a)
<1>1. /\ d \in Nat
      /\ \A i \in DOMAIN a : i \in DOMAIN c /\ c[i] = a[i]
      /\ \A j \in DOMAIN b : d + j \in DOMAIN c /\ c[d + j] = b[j]
      /\ \A i \in DOMAIN c : i \in DOMAIN a \/ \E j \in DOMAIN b : i = d + j
      /\ DOMAIN b \subseteq Nat
  BY ConcatIs
<1> HIDE DEF c, d
<1>2. Own(c, p) = Own(a, p) \cup {d + j : j \in Own(b, p)}
  BY <1>1 DEF Own
<1>3. Own(a, p) = {} /\ Own(b, p) = {} => Own(c, p) = {}
  BY <1>2
<1>4. ASSUME Own(b, p) = {}, OnceInOrder(a, p, k) PROVE OnceInOrder(c, p, k)
  <2>1. Own(c, p) = Own(a, p) /\ \A n \in Own(a, p) : c[n] = a[n]
    BY <1>1, <1>2, <1>4 DEF Own
  <2> QED BY <1>4, <2>1 DEF OnceInOrder
<1>5. ASSUME Own(a, p) = {}, OnceInOrder(b, p, k) PROVE OnceInOrder(c, p, k)
  <2>1. /\ \A n \in Own(c, p) : \E j \in Own(b, p) : n = d + j
        /\ \A j \in Own(b, p) : d + j \in Own(c, p) /\ c[d + j] = b[j] /\ j \in Nat
    BY <1>1, <1>2, <1>5 DEF Own
  <2>2. ASSUME NEW m \in Own(c, p), NEW n \in Own(c, p), m < n PROVE c[m].i < c[n].i
    <3>1. PICK i \in Own(b, p), j \in Own(b, p) : m = d + i /\ n = d + j
      BY <2>1
    <3>2. i < j
      BY <1>1, <2>1, <2>2, <3>1
    <3> QED BY <1>5, <2>1, <3>1, <3>2 DEF OnceInOrder
  <2>3. {c[n].i : n \in Own(c, p)} = {b[j].i : j \in Own(b, p)}
    BY <2>1
  <2> QED BY <1>5, <2>2, <2>3 DEF OnceInOrder
<1> QED BY <1>3, <1>4, <1>5 DEF c

(* One chunk more.                                                         *)
LEMMA AppendOnce ==
  ASSUME NEW s \in Seq(Chunk), NEW p \in Process, NEW k \in Nat, k + 1 <= Chunks, OnceInOrder(s, p, k)
  PROVE  OnceInOrder(Append(s, [of |-> p, i |-> k + 1]), p, k + 1)
<1> DEFINE x == [of |-> p, i |-> k + 1]
           c == Append(s, x)
           l == Len(s)
<1>1. x \in Chunk /\ x.of = p /\ x.i = k + 1
  BY HydrationAssumption DEF Chunk
<1> HIDE DEF x
<1>2. /\ l \in Nat /\ DOMAIN s = 1 .. l /\ DOMAIN c = 1 .. l + 1
      /\ c[l + 1] = x /\ \A n \in 1 .. l : c[n] = s[n]
  BY <1>1
<1> HIDE DEF c, l
<1>3. Own(s, p) \subseteq 1 .. l /\ Own(c, p) = Own(s, p) \cup {l + 1}
  BY <1>1, <1>2 DEF Own
<1>4. \A n \in Own(s, p) : c[n] = s[n] /\ s[n].i \in 1 .. k
  BY <1>2, <1>3 DEF OnceInOrder
<1>5. {c[n].i : n \in Own(c, p)} = {s[n].i : n \in Own(s, p)} \cup {k + 1}
  BY <1>1, <1>2, <1>3, <1>4
<1>6. (1 .. k) \cup {k + 1} = 1 .. k + 1
  OBVIOUS
<1>7. {c[n].i : n \in Own(c, p)} = 1 .. k + 1
  BY <1>5, <1>6 DEF OnceInOrder
<1>8. ASSUME NEW m \in Own(c, p), NEW n \in Own(c, p), m < n PROVE c[m].i < c[n].i
  <2>1. m \in Own(s, p)
    BY <1>2, <1>3, <1>8
  <2>2. CASE n \in Own(s, p)
    BY <1>4, <1>8, <2>1, <2>2 DEF OnceInOrder
  <2>3. CASE n = l + 1
    <3>1. c[n].i = k + 1
      BY <1>1, <1>2, <2>3
    <3>2. c[m].i \in 1 .. k
      BY <1>4, <2>1
    <3> QED BY <3>1, <3>2
  <2> QED BY <1>3, <2>2, <2>3
<1> QED BY <1>7, <1>8 DEF OnceInOrder, c, x

(* What the buffer of a hydrate holds of the process p, of which the       *)
(* newest k chunks came in turn.                                           *)
Newest(s, p, k) ==
  \A n \in DOMAIN s : s[n].of = p =>
    /\ s[n].i > 0 /\ s[n].i = k - (Len(s) - n)
    /\ \A m \in n .. Len(s) : s[m].of = p

LEMMA NewestOnce ==
  ASSUME NEW s \in Seq(Chunk), NEW p \in Process, NEW k \in Nat, Newest(s, p, k),
         1 .. k \subseteq {s[n].i : n \in Own(s, p)}
  PROVE  OnceInOrder(s, p, k)
<1>1. Len(s) \in Nat /\ DOMAIN s = 1 .. Len(s)
  OBVIOUS
<1>2. \A n \in DOMAIN s : s[n].i \in Nat
  <2>1. \A n \in DOMAIN s : s[n] \in Chunk
    BY <1>1
  <2>2. \A c \in Chunk : c.i \in Nat
    BY HydrationAssumption DEF Chunk
  <2> QED BY <2>1, <2>2
<1>3. \A n \in Own(s, p) : n \in 1 .. Len(s) /\ s[n].i > 0 /\ s[n].i = k - (Len(s) - n)
  BY <1>1 DEF Own, Newest
<1>4. ASSUME NEW n \in Own(s, p) PROVE s[n].i \in 1 .. k
  <2>1. n \in 1 .. Len(s) /\ s[n].i > 0 /\ s[n].i = k - (Len(s) - n)
    BY <1>3
  <2> HIDE DEF Own
  <2> DEFINE v == s[n].i
             l == Len(s)
  <2>2. v = k - (l - n) /\ v > 0 /\ n \in 1 .. l /\ l \in Nat
    BY <1>1, <2>1
  <2> HIDE DEF v, l
  <2>3. v \in 1 .. k
    BY <2>2
  <2> QED BY <2>3 DEF v
<1>5. \A m, n \in Own(s, p) : m < n => s[m].i < s[n].i
  BY <1>1, <1>3
<1> QED BY <1>4, <1>5 DEF OnceInOrder

Grown(s, p, k) == Append(s, [of |-> p, i |-> k + 1])

LEMMA NewestAppend ==
  ASSUME NEW s \in Seq(Chunk), NEW p \in Process, NEW k \in Nat, k + 1 <= Chunks, Newest(s, p, k)
  PROVE  /\ Grown(s, p, k) \in Seq(Chunk) /\ Grown(s, p, k) # <<>> /\ Newest(Grown(s, p, k), p, k + 1)
         /\ \A n \in DOMAIN Grown(s, p, k) :
              Grown(s, p, k)[n].of = p \/ \E j \in DOMAIN s : Grown(s, p, k)[n] = s[j]
         /\ {Grown(s, p, k)[n].i : n \in Own(Grown(s, p, k), p)}
              = {s[n].i : n \in Own(s, p)} \cup {k + 1}
<1> DEFINE x == [of |-> p, i |-> k + 1]
           t == Grown(s, p, k)
           l == Len(s)
<1>1. x \in Chunk /\ x.of = p /\ x.i = k + 1
  BY HydrationAssumption DEF Chunk
<1>2. t = Append(s, x)
  BY DEF Grown
<1> HIDE DEF x, t
<1>3. /\ l \in Nat /\ DOMAIN s = 1 .. l /\ t \in Seq(Chunk) /\ Len(t) = l + 1 /\ DOMAIN t = 1 .. l + 1
      /\ t[l + 1] = x /\ \A n \in 1 .. l : t[n] = s[n]
  BY <1>1, <1>2
<1> HIDE DEF l
<1>4. ASSUME NEW n \in DOMAIN t, t[n].of = p
      PROVE  t[n].i > 0 /\ t[n].i = (k + 1) - ((l + 1) - n) /\ \A m \in n .. l + 1 : t[m].of = p
  <2>1. CASE n = l + 1
    BY <1>1, <1>3, <2>1
  <2>2. CASE n \in 1 .. l
    <3>1. s[n].i > 0 /\ s[n].i = k - (l - n) /\ \A m \in n .. l : s[m].of = p
      BY <1>3, <1>4, <2>2 DEF Newest, l
    <3>2. k - (l - n) = (k + 1) - ((l + 1) - n)
      BY <1>3, <2>2
    <3>3. ASSUME NEW m \in n .. l + 1 PROVE t[m].of = p
      BY <1>1, <1>3, <2>2, <3>1
    <3> QED BY <1>3, <2>2, <3>1, <3>2, <3>3
  <2> QED BY <1>3, <2>1, <2>2
<1>5. Newest(t, p, k + 1)
  BY <1>3, <1>4 DEF Newest
<1>6. Own(t, p) = Own(s, p) \cup {l + 1} /\ Own(s, p) \subseteq 1 .. l
  BY <1>1, <1>3 DEF Own
<1>7. {t[n].i : n \in Own(t, p)} = {s[n].i : n \in Own(s, p)} \cup {k + 1}
  BY <1>1, <1>3, <1>6
<1>8. t # <<>>
  BY <1>3
<1>9. ASSUME NEW n \in DOMAIN t PROVE t[n].of = p \/ \E j \in DOMAIN s : t[n] = s[j]
  <2>1. n = l + 1 \/ n \in 1 .. l
    BY <1>3
  <2> QED BY <1>1, <1>3, <2>1
<1> QED BY <1>3, <1>5, <1>7, <1>8, <1>9 DEF t

LEMMA NewestTail ==
  ASSUME NEW s \in Seq(Chunk), s # <<>>, NEW p \in Process, NEW k \in Nat, Newest(s, p, k)
  PROVE  /\ Newest(Tail(s), p, k)
         /\ \A n \in DOMAIN Tail(s) : \E j \in DOMAIN s : Tail(s)[n] = s[j]
<1> DEFINE t == Tail(s)
           l == Len(s)
<1>1. /\ l \in Nat /\ l > 0 /\ DOMAIN s = 1 .. l /\ Len(t) = l - 1 /\ DOMAIN t = 1 .. l - 1
      /\ \A n \in 1 .. l - 1 : t[n] = s[n + 1]
  OBVIOUS
<1> HIDE DEF t, l
<1>2. \A n \in DOMAIN t : n \in Nat /\ n + 1 \in DOMAIN s /\ t[n] = s[n + 1]
  BY <1>1
<1>3. ASSUME NEW n \in DOMAIN t, t[n].of = p
      PROVE  t[n].i > 0 /\ t[n].i = k - (Len(t) - n) /\ \A m \in n .. Len(t) : t[m].of = p
  <2>1. s[n + 1].i > 0 /\ s[n + 1].i = k - (l - (n + 1)) /\ \A m \in n + 1 .. l : s[m].of = p
    BY <1>2, <1>3 DEF Newest, l
  <2>2. l - (n + 1) = Len(t) - n
    BY <1>1, <1>2
  <2>3. ASSUME NEW m \in n .. Len(t) PROVE t[m].of = p
    <3>1. m \in DOMAIN t /\ m + 1 \in n + 1 .. l
      BY <1>1, <1>2
    <3> QED BY <1>2, <2>1, <3>1
  <2> QED BY <1>2, <2>1, <2>2, <2>3
<1>4. Newest(t, p, k)
  BY <1>3 DEF Newest
<1> QED BY <1>2, <1>4 DEF t

(* A buffer that has nothing of another process is the end of its output.  *)
LEMMA NewestSuffix ==
  ASSUME NEW s \in Seq(Chunk), NEW p \in Process, NEW k \in 0 .. Chunks, Newest(s, p, k),
         \A n \in DOMAIN s : s[n].of = p
  PROVE  IsSuffix(s, Upto(p, k))
<1> DEFINE u == Upto(p, k)
           l == Len(s)
<1>1. l \in Nat /\ k \in Nat /\ DOMAIN s = 1 .. l /\ u \in Seq(Chunk) /\ Len(u) = k
  <2>1. k \in Nat /\ u \in Seq(Chunk)
    BY ChunksTyped, HydrationAssumption
  <2>2. Len(u) = k
    BY <2>1 DEF Upto
  <2> QED BY <2>1, <2>2
<1>2. \A n \in 1 .. k : u[n] = [of |-> p, i |-> n]
  BY DEF Upto
<1>3. \A n \in 1 .. l : s[n] = [of |-> p, i |-> k - (l - n)] /\ k - (l - n) > 0
  <2> SUFFICES ASSUME NEW n \in 1 .. l PROVE s[n] = [of |-> p, i |-> k - (l - n)] /\ k - (l - n) > 0
    OBVIOUS
  <2>1. s[n] \in Chunk /\ s[n].of = p /\ s[n].i = k - (l - n) /\ s[n].i > 0
    BY <1>1 DEF Newest
  <2>2. s[n] = [of |-> s[n].of, i |-> s[n].i]
    BY <2>1 DEF Chunk
  <2> QED BY <2>1, <2>2
<1> HIDE DEF u
<1>4. l <= k
  <2>1. CASE l = 0
    BY <1>1, <2>1
  <2>2. CASE l > 0
    BY <1>1, <1>3, <2>2
  <2> QED BY <1>1, <2>1, <2>2
<1> DEFINE a == Reverse(s)
           b == Reverse(u)
<1>5. /\ a \in Seq(Chunk) /\ b \in Seq(Chunk) /\ Len(a) = l /\ Len(b) = k
      /\ \A n \in 1 .. l : a[n] = s[(l - n) + 1]
      /\ \A n \in 1 .. k : b[n] = u[(k - n) + 1]
  <2>1. \A n \in 1 .. l : (l - n) + 1 \in 1 .. l
    BY <1>1
  <2>2. \A n \in 1 .. k : (k - n) + 1 \in 1 .. k
    BY <1>1
  <2>3. a = [n \in 1 .. l |-> s[(l - n) + 1]] /\ b = [n \in 1 .. k |-> u[(k - n) + 1]]
    BY <1>1 DEF Reverse
  <2>4. \A n \in 1 .. l : s[(l - n) + 1] \in Chunk
    BY <1>1, <2>1
  <2>5. \A n \in 1 .. k : u[(k - n) + 1] \in Chunk
    BY <1>1, <2>2
  <2>6. a \in [1 .. l -> Chunk] /\ b \in [1 .. k -> Chunk]
    BY <2>3, <2>4, <2>5
  <2> HIDE DEF a, b, l
  <2>7. a \in Seq(Chunk) /\ b \in Seq(Chunk)
    BY <1>1, <2>6
  <2>8. Len(a) = l /\ Len(b) = k
    BY <1>1, <2>6, <2>7
  <2> QED BY <2>3, <2>7, <2>8
<1> HIDE DEF a, b, l
<1>6. ASSUME NEW n \in 1 .. l PROVE a[n] = b[n]
  <2>1. n \in 1 .. k /\ (l - n) + 1 \in 1 .. l /\ (k - n) + 1 \in 1 .. k
        /\ k - (l - ((l - n) + 1)) = (k - n) + 1
    BY <1>1, <1>4
  <2>2. a[n] = s[(l - n) + 1] /\ b[n] = u[(k - n) + 1]
    BY <1>5, <2>1
  <2>3. s[(l - n) + 1] = [of |-> p, i |-> k - (l - ((l - n) + 1))]
    BY <1>3, <2>1
  <2>4. u[(k - n) + 1] = [of |-> p, i |-> (k - n) + 1]
    BY <1>2, <2>1
  <2> QED BY <2>1, <2>2, <2>3, <2>4
<1>7. SubSeq(a, 1, l) = SubSeq(b, 1, l)
  <2>1. /\ SubSeq(a, 1, l) = [n \in 1 .. l |-> a[n]]
        /\ SubSeq(b, 1, l) = [n \in 1 .. l |-> b[n]]
    BY <1>1, <1>4, <1>5
  <2> QED BY <1>6, <2>1
<1> QED BY <1>1, <1>4, <1>5, <1>7 DEF IsSuffix, IsPrefix, a, b, u

(* The inductive invariant, part by part.  The entry and its gate: it      *)
(* listens to the process it shows, and the gate is up exactly until the   *)
(* process it shows is the hydrated one.                                   *)
Keyed ==
  /\ subscribed = process
  /\ hydrated \in {NoProcess, process}
  /\ hydrating <=> (process # NoProcess /\ hydrated = NoProcess)
  /\ ~exists => process = NoProcess

(* At most one hydrate can commit to the entry, and the gate is up for it. *)
Serving(r) == runs[r].era = era /\ runs[r].generation = generation
RunKeyed(r) ==
  runs[r].state # "idle" =>
    /\ runs[r].era <= era /\ runs[r].generation > 0
    /\ runs[r].era = era => runs[r].generation <= generation
    /\ Serving(r) => hydrating /\ runs[r].of = process
    /\ runs[r].state = "answered" =>
         /\ runs[r].kind \in {"screen", "prefix", "history"}
         /\ runs[r].kind = "prefix" => runs[r].upto = 0
RunsKeyed ==
  /\ \A r \in Run : RunKeyed(r)
  /\ \A r, s \in Run :
       runs[r].state # "idle" /\ runs[s].state # "idle" /\ Serving(r) /\ Serving(s) => r = s

(* Nothing is shown or waits of a process newer than the one shown.        *)
OldIn(s, w) == \A n \in DOMAIN s : s[n].of <= w
Older ==
  /\ OldIn(screen, process) /\ OldIn(live, process) /\ OldIn(pend, process)
  /\ \A q \in Process \ missed : q > process => del[q] = 0

(* While the gate is up, all that came of the process is in the buffer.    *)
Held ==
  hydrating =>
    /\ Own(live, process) = {}
    /\ ~spoilt => Own(screen, process) = {}
    /\ Newest(pend, process, del[process])
    /\ ~cut /\ process \notin missed =>
         1 .. del[process] \subseteq {pend[n].i : n \in Own(pend, process)}

(* When it is down, all that came is on the screen or about to be.         *)
Painted ==
  ~hydrating /\ process # NoProcess /\ ~spoilt => OnceInOrder(screen \o live, process, del[process])

(* A repair that nothing disturbed has nothing to wait for.                *)
Undisturbed == repair # NoRepair /\ repair.fresh => live = <<>>

ScreenPart == Keyed /\ RunsKeyed /\ Older /\ Held /\ Painted
ScreenInv  == Undisturbed /\ (~outlived => ScreenPart)

LEMMA ScreenUntouched ==
  /\ Keyed /\ UNCHANGED <<process, subscribed, hydrating, hydrated, exists>> => Keyed'
  /\ RunsKeyed /\ UNCHANGED <<runs, era, generation, hydrating, process>> => RunsKeyed'
  /\ Older /\ UNCHANGED <<screen, live, pend, process, missed, del>> => Older'
  /\ Held /\ UNCHANGED <<hydrating, live, screen, process, spoilt, pend, del, cut, missed>> => Held'
  /\ Painted /\ UNCHANGED <<hydrating, process, spoilt, screen, live, del>> => Painted'
  /\ Undisturbed /\ UNCHANGED <<repair, live>> => Undisturbed'
<1>1. Keyed /\ UNCHANGED <<process, subscribed, hydrating, hydrated, exists>> => Keyed'
  BY DEF Keyed
<1>2. RunsKeyed /\ UNCHANGED <<runs, era, generation, hydrating, process>> => RunsKeyed'
  BY DEF RunsKeyed, RunKeyed, Serving
<1>3. Older /\ UNCHANGED <<screen, live, pend, process, missed, del>> => Older'
  BY DEF Older, OldIn
<1>4. Held /\ UNCHANGED <<hydrating, live, screen, process, spoilt, pend, del, cut, missed>> => Held'
  BY DEF Held, Newest, Own
<1>5. Painted /\ UNCHANGED <<hydrating, process, spoilt, screen, live, del>> => Painted'
  BY DEF Painted
<1>6. Undisturbed /\ UNCHANGED <<repair, live>> => Undisturbed'
  BY DEF Undisturbed
<1> QED BY <1>1, <1>2, <1>3, <1>4, <1>5, <1>6

(* The lengths the arithmetic needs.                                       *)
LEMMA Counted ==
  ASSUME StreamTyped, NEW p \in Process
  PROVE  /\ del[p] \in 0 .. Chunks /\ out[p] \in 0 .. Chunks /\ del[p] \in Nat
         /\ p \in Nat /\ p # NoProcess /\ p > 0
         /\ \A w \in Processes : w \in Nat
         /\ \A c \in Chunk : c.of \in Process /\ c.of \in Nat
<1>1. del[p] \in 0 .. Chunks /\ out[p] \in 0 .. Chunks
  BY DEF StreamTyped
<1>2. del[p] \in Nat
  BY <1>1, HydrationAssumption
<1>3. p \in Nat /\ p # NoProcess /\ p > 0
  BY HydrationAssumption
<1>4. \A w \in Processes : w \in Nat
  BY HydrationAssumption DEF Processes
<1>5. \A c \in Chunk : c.of \in Process /\ c.of \in Nat
  BY HydrationAssumption DEF Chunk
<1> QED BY <1>1, <1>2, <1>3, <1>4, <1>5

LEMMA ConcatOld ==
  ASSUME NEW a \in Seq(Chunk), NEW b \in Seq(Chunk), NEW w, OldIn(a, w), OldIn(b, w)
  PROVE  OldIn(a \o b, w)
<1> SUFFICES ASSUME NEW i \in DOMAIN (a \o b) PROVE (a \o b)[i].of <= w
  BY DEF OldIn
<1>1. i \in DOMAIN a \/ \E j \in DOMAIN b : i = Len(a) + j
  BY ConcatIs
<1>2. CASE i \in DOMAIN a
  <2>1. (a \o b)[i] = a[i]
    BY <1>2, ConcatIs
  <2> QED BY <1>2, <2>1 DEF OldIn
<1>3. ASSUME NEW j \in DOMAIN b, i = Len(a) + j PROVE (a \o b)[i].of <= w
  <2>1. (a \o b)[i] = b[j]
    BY <1>3, ConcatIs
  <2> QED BY <1>3, <2>1 DEF OldIn
<1> QED BY <1>1, <1>2, <1>3

LEMMA NothingIn ==
  /\ <<>> \in Seq(Chunk)
  /\ \A p : Own(<<>>, p) = {} /\ OldIn(<<>>, p)
  /\ \A s \in Seq(Chunk) : s \o <<>> = s
  /\ \A p : OnceInOrder(<<>>, p, 0)
<1>1. <<>> \in Seq(Chunk) /\ DOMAIN <<>> = {}
  OBVIOUS
<1>2. \A p : Own(<<>>, p) = {} /\ OldIn(<<>>, p)
  BY <1>1 DEF Own, OldIn
<1>3. \A s \in Seq(Chunk) : s \o <<>> = s
  OBVIOUS
<1>4. \A p : OnceInOrder(<<>>, p, 0)
  BY <1>2 DEF OnceInOrder
<1> QED BY <1>1, <1>2, <1>3, <1>4

(* Output that nobody receives changes nothing that the entry counts on.   *)
LEMMA MissedExact ==
  ASSUME EntryInv, ScreenPart, NEW p \in Process, Deliver(p), ~exists \/ subscribed # p
  PROVE  ScreenPart'
<1>1. /\ missed' = missed \cup {p} /\ del' = [del EXCEPT ![p] = @ + 1]
      /\ UNCHANGED <<process, subscribed, hydrating, hydrated, exists, runs, era, generation,
                     screen, live, pend, cut, spoilt>>
  BY DEF Deliver, linkVars, gateVars, bufVars, paintVars
<1>2. process # p
  BY Counted DEF ScreenPart, Keyed, EntryInv, Typed
<1>3. /\ \A q \in Process : q # p => del'[q] = del[q]
      /\ process \in Process => (process \in missed' <=> process \in missed)
  BY <1>1, <1>2 DEF EntryInv, Typed, StreamTyped
<1>4. Keyed' /\ RunsKeyed'
  BY <1>1, ScreenUntouched DEF ScreenPart
<1>5. Older'
  BY <1>1, <1>3 DEF ScreenPart, Older, OldIn
<1>6. process # NoProcess => process \in Process
  BY DEF EntryInv, Typed, LinkTyped, Processes
<1>7. hydrating => process # NoProcess
  BY DEF ScreenPart, Keyed
<1>8. Held'
  <2> SUFFICES ASSUME hydrating' PROVE Held'
    BY DEF Held
  <2>1. process \in Process /\ del'[process] = del[process] /\ hydrating
    BY <1>1, <1>2, <1>3, <1>6, <1>7
  <2> QED BY <1>1, <1>3, <2>1 DEF ScreenPart, Held, Newest, Own
<1>9. Painted'
  <2> SUFFICES ASSUME process # NoProcess PROVE Painted'
    BY <1>1 DEF Painted
  <2>1. del'[process] = del[process]
    BY <1>2, <1>3, <1>6
  <2> QED BY <1>1, <2>1 DEF ScreenPart, Painted
<1> QED BY <1>4, <1>5, <1>8, <1>9 DEF ScreenPart

(* Output that waits for the hydrate, or is about to be painted.           *)
LEMMA WaitsExact ==
  ASSUME EntryInv, ScreenPart, NEW p \in Process, Deliver(p), exists, subscribed = p, hydrating
  PROVE  ScreenPart'
<1> DEFINE k == del[p]
           all == Grown(pend, p, k)
<1>1. /\ del' = [del EXCEPT ![p] = @ + 1] /\ del[p] < out[p]
      /\ pend' = (IF Len(all) > Cap THEN Tail(all) ELSE all) /\ cut' = (cut \/ Len(all) > Cap)
      /\ UNCHANGED <<process, subscribed, hydrating, hydrated, exists, runs, era, generation,
                     screen, live, missed, spoilt>>
  BY DEF Deliver, Buffered, Grown, linkVars, gateVars, paintVars
<1>2. process = p /\ Newest(pend, p, k) /\ pend \in Seq(Chunk)
  BY DEF ScreenPart, Keyed, Held, EntryInv, Typed, BufferTyped
<1>3. k \in Nat /\ k + 1 <= Chunks /\ del'[p] = k + 1 /\ p \in Nat
      /\ \A q \in Process : q # p => del'[q] = del[q]
  <2>1. k \in 0 .. Chunks /\ out[p] \in 0 .. Chunks /\ p \in Nat /\ Chunks \in Nat
    BY Counted, HydrationAssumption DEF EntryInv, Typed
  <2>2. del'[p] = k + 1 /\ \A q \in Process : q # p => del'[q] = del[q]
    BY <1>1 DEF EntryInv, Typed, StreamTyped
  <2> QED BY <1>1, <2>1, <2>2
<1> HIDE DEF k
<1>4. /\ all \in Seq(Chunk) /\ all # <<>> /\ Newest(all, p, k + 1)
      /\ \A n \in DOMAIN all : all[n].of = p \/ \E j \in DOMAIN pend : all[n] = pend[j]
      /\ {all[n].i : n \in Own(all, p)} = {pend[n].i : n \in Own(pend, p)} \cup {k + 1}
  BY <1>2, <1>3, NewestAppend
<1> HIDE DEF all
<1>5. OldIn(pend, p)
  BY <1>2 DEF ScreenPart, Older
<1>6. OldIn(all, p)
  BY <1>3, <1>4, <1>5 DEF OldIn
<1>7. Newest(pend', p, k + 1) /\ OldIn(pend', p)
  <2>1. CASE Len(all) > Cap
    <3>1. Newest(Tail(all), p, k + 1) /\ \A n \in DOMAIN Tail(all) : \E j \in DOMAIN all : Tail(all)[n] = all[j]
      BY <1>3, <1>4, NewestTail
    <3>2. OldIn(Tail(all), p)
      BY <1>6, <3>1 DEF OldIn
    <3> QED BY <1>1, <2>1, <3>1, <3>2
  <2>2. CASE ~(Len(all) > Cap)
    BY <1>1, <1>4, <1>6, <2>2
  <2> QED BY <2>1, <2>2
<1>8. Keyed' /\ RunsKeyed'
  BY <1>1, ScreenUntouched DEF ScreenPart
<1>9. Older'
  <2>1. \A q \in Process \ missed' : q > process' => del'[q] = 0
    BY <1>1, <1>2, <1>3 DEF ScreenPart, Older
  <2>2. OldIn(screen, process)' /\ OldIn(live, process)'
    BY <1>1 DEF ScreenPart, Older, OldIn
  <2>3. OldIn(pend, process)'
    BY <1>1, <1>2, <1>7 DEF OldIn
  <2> QED BY <2>1, <2>2, <2>3 DEF Older
<1>10. Held'
  <2>1. Own(live, process)' = {} /\ (~spoilt' => Own(screen, process)' = {})
    BY <1>1 DEF ScreenPart, Held, Own
  <2>2. Newest(pend, process, del[process])'
    BY <1>1, <1>2, <1>3, <1>7 DEF Newest
  <2>3. ASSUME ~cut', process' \notin missed'
        PROVE  1 .. del'[process'] \subseteq {pend'[n].i : n \in Own(pend, process)'}
    <3>1. pend' = all /\ ~cut /\ process \notin missed
      BY <1>1, <2>3
    <3>2. 1 .. k \subseteq {pend[n].i : n \in Own(pend, p)}
      BY <1>2, <3>1 DEF ScreenPart, Held, k
    <3>3. 1 .. k + 1 = (1 .. k) \cup {k + 1}
      BY <1>3
    <3>4. 1 .. k + 1 \subseteq {all[n].i : n \in Own(all, p)}
      BY <1>4, <3>2, <3>3
    <3>5. Own(pend, process)' = Own(all, p)
      BY <1>1, <1>2, <3>1 DEF Own
    <3>6. {pend'[n].i : n \in Own(pend, process)'} = {all[n].i : n \in Own(all, p)}
      BY <3>1, <3>5
    <3>7. del'[process'] = k + 1
      BY <1>1, <1>2, <1>3
    <3> HIDE DEF Own
    <3> QED BY <3>4, <3>6, <3>7
  <2> QED BY <2>1, <2>2, <2>3 DEF Held
<1>11. Painted'
  BY <1>1 DEF Painted
<1> QED BY <1>8, <1>9, <1>10, <1>11 DEF ScreenPart

LEMMA LiveExact ==
  ASSUME EntryInv, ScreenPart, NEW p \in Process, Deliver(p), exists, subscribed = p, ~hydrating
  PROVE  ScreenPart'
<1> DEFINE k == del[p]
           c == [of |-> p, i |-> k + 1]
<1>1. /\ del' = [del EXCEPT ![p] = @ + 1] /\ del[p] < out[p] /\ live' = Append(live, c)
      /\ UNCHANGED <<process, subscribed, hydrating, hydrated, exists, runs, era, generation,
                     screen, pend, cut, missed, spoilt>>
  BY DEF Deliver, linkVars, gateVars, paintVars
<1>2. process = p /\ p # NoProcess /\ live \in Seq(Chunk) /\ screen \in Seq(Chunk)
  BY Counted DEF ScreenPart, Keyed, EntryInv, Typed, BufferTyped
<1>3. k \in Nat /\ k + 1 <= Chunks /\ del'[p] = k + 1 /\ p \in Nat
      /\ \A q \in Process : q # p => del'[q] = del[q]
  <2>1. k \in 0 .. Chunks /\ out[p] \in 0 .. Chunks /\ p \in Nat /\ Chunks \in Nat
    BY Counted, HydrationAssumption DEF EntryInv, Typed
  <2>2. del'[p] = k + 1 /\ \A q \in Process : q # p => del'[q] = del[q]
    BY <1>1 DEF EntryInv, Typed, StreamTyped
  <2> QED BY <1>1, <2>1, <2>2
<1>4. c \in Chunk /\ c.of = p
  BY <1>3, HydrationAssumption DEF Chunk
<1>5. Keyed' /\ RunsKeyed'
  BY <1>1, ScreenUntouched DEF ScreenPart
<1>6. Held'
  BY <1>1 DEF Held
<1>7. Older'
  <2>1. \A q \in Process \ missed' : q > process' => del'[q] = 0
    BY <1>1, <1>2, <1>3 DEF ScreenPart, Older
  <2>2. OldIn(screen, process)' /\ OldIn(pend, process)'
    BY <1>1 DEF ScreenPart, Older, OldIn
  <2>3. ASSUME NEW n \in DOMAIN live' PROVE live'[n].of <= p
    <3> HIDE DEF c
    <3>1. live'[n] = c \/ (n \in DOMAIN live /\ live'[n] = live[n])
      BY <1>1, <1>2, <1>4, <2>3
    <3>2. n \in DOMAIN live => live[n].of <= p
      BY <1>2 DEF ScreenPart, Older, OldIn
    <3> QED BY <1>3, <1>4, <3>1, <3>2
  <2> QED BY <1>1, <1>2, <2>1, <2>2, <2>3 DEF Older, OldIn
<1>8. Painted'
  <2> SUFFICES ASSUME ~spoilt' PROVE OnceInOrder(screen' \o live', p, k + 1)
    BY <1>1, <1>2, <1>3 DEF Painted
  <2>1. OnceInOrder(screen \o live, p, k)
    BY <1>1, <1>2 DEF ScreenPart, Painted
  <2>2. screen \o live \in Seq(Chunk)
    BY <1>2
  <2>3. OnceInOrder(Append(screen \o live, c), p, k + 1)
    BY <1>3, <2>1, <2>2, AppendOnce
  <2>4. screen \o Append(live, c) = Append(screen \o live, c)
    <3> HIDE DEF c
    <3> QED BY <1>2, <1>4
  <2> QED BY <1>1, <2>3, <2>4
<1> QED BY <1>5, <1>6, <1>7, <1>8 DEF ScreenPart

LEMMA FlushExact ==
  ASSUME EntryInv, ScreenPart, FlushLiveWrites
  PROVE  ScreenPart'
<1>1. /\ live' = <<>> /\ screen' = screen \o live
      /\ UNCHANGED <<process, subscribed, hydrating, hydrated, exists, runs, era, generation,
                     pend, cut, missed, del, spoilt>>
  BY DEF FlushLiveWrites, streamVars, linkVars, gateVars
<1>2. live \in Seq(Chunk) /\ screen \in Seq(Chunk) /\ screen \o live \in Seq(Chunk)
  BY DEF EntryInv, Typed, BufferTyped
<1>3. Keyed' /\ RunsKeyed'
  BY <1>1, ScreenUntouched DEF ScreenPart
<1>4. Older'
  <2>1. OldIn(screen \o live, process)
    BY <1>2, ConcatOld DEF ScreenPart, Older
  <2>2. OldIn(<<>>, process) /\ OldIn(pend, process) /\ \A q \in Process \ missed : q > process => del[q] = 0
    BY NothingIn DEF ScreenPart, Older
  <2> QED BY <1>1, <2>1, <2>2 DEF Older, OldIn
<1>5. Held'
  <2> SUFFICES ASSUME hydrating PROVE Held'
    BY <1>1 DEF Held
  <2>1. process \in Process
    BY DEF ScreenPart, Keyed, EntryInv, Typed, LinkTyped, Processes
  <2>2. ~spoilt => Own(screen \o live, process) = {}
    BY <1>2, <2>1, ConcatOwn, Bounds DEF ScreenPart, Held
  <2>3. Own(<<>>, process) = {}
    BY NothingIn
  <2>4. /\ Newest(pend, process, del[process])'
        /\ (~cut /\ process \notin missed =>
             1 .. del[process] \subseteq {pend[n].i : n \in Own(pend, process)})'
    BY <1>1 DEF ScreenPart, Held, Newest, Own
  <2>5. Own(live, process)' = {} /\ (~spoilt' => Own(screen, process)' = {})
    BY <1>1, <2>2, <2>3 DEF Own
  <2> QED BY <2>4, <2>5 DEF Held
<1>6. Painted'
  BY <1>1, <1>2, NothingIn DEF ScreenPart, Painted
<1> QED BY <1>3, <1>4, <1>5, <1>6 DEF ScreenPart

LEMMA EvictExact ==
  ASSUME EntryInv, ScreenPart, Evict
  PROVE  ScreenPart'
<1>1. /\ era' = era + 1 /\ process' = NoProcess /\ subscribed' = NoProcess
      /\ hydrating' = FALSE /\ hydrated' = NoProcess
      /\ pend' = <<>> /\ live' = <<>> /\ screen' = <<>>
      /\ missed' = missed \cup {p \in Process : del[p] > 0}
      /\ UNCHANGED <<del, runs>>
  BY DEF Evict
<1>2. Keyed'
  BY <1>1 DEF Keyed
<1>3. RunsKeyed'
  <2>1. era \in Nat /\ \A r \in Run : runs[r].era \in Nat
    BY HydrationAssumption DEF EntryInv, Typed, LinkTyped, WorkTyped, Runs
  <2>2. \A r \in Run : runs[r].state # "idle" => runs'[r].era <= era' /\ runs'[r].era # era'
    BY <1>1, <2>1 DEF ScreenPart, RunsKeyed, RunKeyed
  <2>3. ASSUME NEW r \in Run PROVE RunKeyed(r)'
    BY <1>1, <2>2 DEF ScreenPart, RunsKeyed, RunKeyed, Serving
  <2> QED BY <1>1, <2>2, <2>3 DEF RunsKeyed, Serving
<1>4. Older'
  <2>1. \A q \in Process : del[q] > 0 \/ del[q] = 0
    BY Counted DEF EntryInv, Typed
  <2>2. \A q \in Process \ missed' : del'[q] = 0
    BY <1>1, <2>1
  <2> QED BY <1>1, <2>2, NothingIn DEF Older, OldIn
<1>5. Held' /\ Painted'
  BY <1>1 DEF Held, Painted
<1> QED BY <1>2, <1>3, <1>4, <1>5 DEF ScreenPart

(* A new process finds nothing of its own in what an older one left.       *)
LEMMA AttachExact ==
  ASSUME EntryInv, ScreenPart, NEW p \in Process, Attach(p)
  PROVE  ScreenPart'
<1> DEFINE known == IF process # p THEN NoProcess ELSE hydrated
<1>1. /\ mounted /\ p >= process /\ process' = p /\ subscribed' = p /\ hydrated' = known
      /\ IF known = p THEN hydrating' = FALSE /\ UNCHANGED <<generation, runs>> ELSE Asks(p)
      /\ UNCHANGED <<era, exists, screen, live, pend, cut, spoilt, missed, del>>
  BY DEF Attach, streamVars, bufVars, paintVars
<1>2. exists /\ p # NoProcess
  BY <1>1, Bounds DEF EntryInv, EntryPart
<1>3. CASE known = p
  <2>1. process = p /\ hydrated = p /\ ~hydrating
    BY <1>2, <1>3 DEF ScreenPart, Keyed
  <2>2. UNCHANGED <<process, subscribed, hydrated, hydrating, exists>>
    BY <1>1, <1>3, <2>1 DEF ScreenPart, Keyed, EntryInv, Typed, FlagsTyped
  <2> HIDE DEF known
  <2> QED BY <1>1, <1>3, <2>2, ScreenUntouched DEF ScreenPart
<1>4. CASE known # p
  <2>1. PICK r \in Run :
          /\ runs[r] = Idle /\ generation' = generation + 1 /\ hydrating' = TRUE
          /\ runs' = [runs EXCEPT ![r] = [Idle EXCEPT !.state = "asked", !.of = p,
                                          !.generation = generation + 1, !.era = era]]
    BY <1>1, <1>4 DEF Asks
  <2>2. known = NoProcess
    BY <1>4 DEF ScreenPart, Keyed
  <2> HIDE DEF known
  <2>3. Keyed'
    BY <1>1, <1>2, <2>1, <2>2 DEF Keyed
  <2>4. generation \in Nat /\ runs \in [Run -> Runs]
    BY HydrationAssumption DEF EntryInv, Typed, LinkTyped, WorkTyped
  <2>5. /\ runs'[r].state = "asked" /\ runs'[r].of = p
        /\ runs'[r].generation = generation + 1 /\ runs'[r].era = era
    BY <2>1, <2>4 DEF Idle
  <2>6. \A s \in Run : s # r => runs'[s] = runs[s]
    BY <2>1, <2>4
  <2>7. ASSUME NEW s \in Run, s # r, runs[s].state # "idle" PROVE RunKeyed(s)' /\ ~Serving(s)'
    <3>1. RunKeyed(s) /\ runs[s].era \in Nat /\ runs[s].generation \in Nat
      BY <2>4, HydrationAssumption DEF ScreenPart, RunsKeyed, Runs
    <3>2. runs[s].era = era => runs[s].generation < generation + 1
      BY <2>4, <2>7, <3>1 DEF RunKeyed
    <3>3. ~Serving(s)'
      BY <1>1, <2>1, <2>4, <2>6, <2>7, <3>1, <3>2 DEF Serving
    <3>4. RunKeyed(s)'
      BY <1>1, <2>1, <2>4, <2>6, <2>7, <3>1, <3>2, <3>3 DEF RunKeyed
    <3> QED BY <3>3, <3>4
  <2>8. RunKeyed(r)'
    <3>1. era <= era /\ generation + 1 > 0 /\ generation + 1 <= generation + 1
      BY <2>4, HydrationAssumption DEF EntryInv, Typed, LinkTyped
    <3> QED BY <1>1, <2>1, <2>5, <3>1 DEF RunKeyed
  <2>9. RunsKeyed'
    <3>1. ASSUME NEW s \in Run PROVE RunKeyed(s)'
      <4>1. CASE s # r /\ runs[s].state = "idle"
        BY <2>6, <4>1 DEF RunKeyed
      <4> QED BY <2>7, <2>8, <4>1
    <3>2. \A s \in Run : runs'[s].state # "idle" /\ Serving(s)' => s = r
      BY <2>6, <2>7
    <3> QED BY <3>1, <3>2 DEF RunsKeyed
  <2>10. p \in Nat /\ process \in Nat /\ del[p] \in Nat
         /\ screen \in Seq(Chunk) /\ live \in Seq(Chunk) /\ pend \in Seq(Chunk)
    BY Counted DEF EntryInv, Typed, LinkTyped, BufferTyped
  <2>11. \A s \in {screen, live, pend} : \A n \in DOMAIN s : s[n].of \in Nat
    <3>1. \A s \in Seq(Chunk) : \A n \in DOMAIN s : s[n] \in Chunk
      OBVIOUS
    <3>2. \A c \in Chunk : c.of \in Nat
      BY Counted DEF EntryInv, Typed
    <3> QED BY <2>10, <3>1, <3>2
  <2>12. Older'
    <3>1. ASSUME NEW s \in {screen, live, pend}, OldIn(s, process) PROVE OldIn(s, p)
      <4> SUFFICES ASSUME NEW n \in DOMAIN s PROVE s[n].of <= p
        BY DEF OldIn
      <4>1. s[n].of \in Nat /\ s[n].of <= process
        BY <2>11, <3>1 DEF OldIn
      <4> QED BY <1>1, <2>10, <4>1
    <3>2. OldIn(screen, p) /\ OldIn(live, p) /\ OldIn(pend, p)
      BY <3>1 DEF ScreenPart, Older
    <3>3. \A q \in Process : q \in Nat
      BY HydrationAssumption
    <3>4. \A q \in Process \ missed : q > p => del[q] = 0
      BY <1>1, <2>10, <3>3 DEF ScreenPart, Older
    <3> QED BY <1>1, <3>2, <3>4 DEF Older, OldIn
  <2>13. Painted'
    BY <2>1 DEF Painted
  <2>14. Held'
    <3>1. CASE process = p
      <4>1. hydrating
        BY <1>2, <1>4, <3>1 DEF ScreenPart, Keyed, known
      <4>2. UNCHANGED <<hydrating, live, screen, process, spoilt, pend, del, cut, missed>>
        BY <1>1, <2>1, <3>1, <4>1
      <4> QED BY <4>2, ScreenUntouched DEF ScreenPart
    <3>2. CASE process # p
      <4>1. p > process
        BY <1>1, <2>10, <3>2
      <4>2. \A s \in {screen, live, pend} : OldIn(s, process) => \A n \in DOMAIN s : s[n].of # p
        BY <2>10, <2>11, <4>1 DEF OldIn
      <4>3. \A s \in {screen, live, pend} : \A n \in DOMAIN s : s[n].of # p
        BY <4>2 DEF ScreenPart, Older
      <4>4. Own(live, p) = {} /\ Own(screen, p) = {} /\ Newest(pend, p, del[p])
        BY <4>3 DEF Own, Newest
      <4>5. p \notin missed => del[p] = 0
        BY <4>1 DEF ScreenPart, Older
      <4>6. p \notin missed => 1 .. del[p] \subseteq {pend[n].i : n \in Own(pend, p)}
        BY <4>5
      <4> QED BY <1>1, <4>4, <4>6 DEF Held, Own, Newest
    <3> QED BY <3>1, <3>2
  <2> QED BY <2>3, <2>9, <2>12, <2>13, <2>14 DEF ScreenPart
<1> QED BY <1>3, <1>4

LEMMA MountExact ==
  ASSUME EntryInv, ScreenPart, Mount \/ Unmount
  PROVE  ScreenPart'
<1>1. /\ UNCHANGED <<process, subscribed, hydrating, hydrated, runs, era, generation,
                     screen, live, pend, cut, spoilt, missed, del>>
      /\ exists' = exists \/ exists' = TRUE
  BY DEF Mount, Unmount, streamVars, linkVars, gateVars, bufVars, paintVars
<1>2. Keyed'
  BY <1>1 DEF ScreenPart, Keyed
<1> QED BY <1>1, <1>2, ScreenUntouched DEF ScreenPart

(* The work of the hydrates, up to the commit.                             *)
LEMMA RunExact ==
  ASSUME EntryInv, ScreenPart, NEW r \in Run, NEW x, runs' = [runs EXCEPT ![r] = x],
         \/ x = Idle
         \/ /\ runs[r].state # "idle"
            /\ x.of = runs[r].of /\ x.generation = runs[r].generation /\ x.era = runs[r].era
            /\ x.state = "answered" => /\ x.kind \in {"screen", "prefix", "history"}
                                       /\ x.kind = "prefix" => x.upto = 0,
         UNCHANGED <<streamVars, engineVars, linkVars, gateVars, bufVars, paintVars>>
  PROVE  ScreenPart'
<1>1. UNCHANGED <<process, subscribed, hydrating, hydrated, exists, era, generation,
                  screen, live, pend, cut, spoilt, missed, del>>
  BY DEF streamVars, linkVars, gateVars, bufVars, paintVars
<1>2. runs'[r] = x /\ \A s \in Run : s # r => runs'[s] = runs[s]
  BY DEF EntryInv, Typed, WorkTyped
<1>3. \A s \in Run : runs'[s].state # "idle" =>
        runs[s].state # "idle" /\ runs'[s].of = runs[s].of
        /\ runs'[s].generation = runs[s].generation /\ runs'[s].era = runs[s].era
  BY <1>2, Rests
<1>4. ASSUME NEW s \in Run PROVE RunKeyed(s)'
  <2>1. CASE s = r
    <3>1. CASE x = Idle
      BY <1>2, <2>1, <3>1, Rests DEF RunKeyed
    <3>2. CASE x # Idle
      <4>1. RunKeyed(r)
        BY DEF ScreenPart, RunsKeyed
      <4> QED BY <1>1, <1>2, <2>1, <3>2, <4>1 DEF RunKeyed, Serving
    <3> QED BY <3>1, <3>2
  <2>2. CASE s # r
    BY <1>1, <1>2, <2>2 DEF ScreenPart, RunsKeyed, RunKeyed, Serving
  <2> QED BY <2>1, <2>2
<1>5. RunsKeyed'
  BY <1>1, <1>3, <1>4 DEF ScreenPart, RunsKeyed, Serving
<1> QED BY <1>1, <1>5, ScreenUntouched DEF ScreenPart

LEMMA AnswersExact ==
  ASSUME EntryInv, ScreenPart, NEW r \in Run,
         \/ SnapshotRead(r) \/ SnapshotFails(r) \/ HydrateCancelled(r)
         \/ \E ok \in BOOLEAN : HistoryRead(r, ok)
  PROVE  ScreenPart'
<1>1. UNCHANGED <<streamVars, engineVars, linkVars, gateVars, bufVars, paintVars>>
  BY DEF SnapshotRead, SnapshotFails, HydrateCancelled, HistoryRead
<1>2. runs[r] \in Runs
  BY DEF EntryInv, Typed, WorkTyped
<1>3. ASSUME NEW kind \in {"screen", "prefix", "history"}, NEW k, Answers(r, kind, k),
             runs[r].state # "idle", kind = "prefix" => k = 0
      PROVE  ScreenPart'
  <2> DEFINE x == [runs[r] EXCEPT !.state = "answered", !.kind = kind, !.upto = k]
  <2>1. /\ x.of = runs[r].of /\ x.generation = runs[r].generation /\ x.era = runs[r].era
        /\ x.state = "answered" /\ x.kind = kind /\ x.upto = k
    BY <1>2 DEF Runs
  <2>2. runs' = [runs EXCEPT ![r] = x]
    BY <1>3 DEF Answers
  <2> HIDE DEF x
  <2> QED BY <1>1, <1>3, <2>1, <2>2, RunExact
<1>4. CASE SnapshotRead(r)
  BY <1>3, <1>4 DEF SnapshotRead
<1>5. CASE SnapshotFails(r)
  <2> DEFINE x == [runs[r] EXCEPT !.state = "history"]
  <2>1. /\ x.of = runs[r].of /\ x.generation = runs[r].generation /\ x.era = runs[r].era
        /\ x.state = "history" /\ runs[r].state # "idle"
    BY <1>2, <1>5 DEF Runs, SnapshotFails
  <2>2. runs' = [runs EXCEPT ![r] = x]
    BY <1>5 DEF SnapshotFails
  <2> HIDE DEF x
  <2> QED BY <1>1, <2>1, <2>2, RunExact
<1>6. CASE HydrateCancelled(r)
  BY <1>1, <1>6, RunExact DEF HydrateCancelled
<1>7. ASSUME NEW ok \in BOOLEAN, HistoryRead(r, ok) PROVE ScreenPart'
  <2> DEFINE k == IF ok THEN out[runs[r].of] ELSE 0
  <2>1. Answers(r, "history", k) /\ runs[r].state # "idle"
    BY <1>7 DEF HistoryRead
  <2> HIDE DEF k
  <2> QED BY <1>3, <2>1
<1> QED BY <1>4, <1>5, <1>6, <1>7

(* The four ways a commit paints: behind a replay, behind what is there,   *)
(* the answer alone, the answer and what waited.                           *)
LEMMA PaintsExact ==
  ASSUME EntryInv, ScreenPart, NEW a \in Runs, hydrating, a.of = process,
         a.kind \in {"screen", "prefix", "history"}, a.kind = "prefix" => a.upto = 0
  PROVE  /\ Committed(a) \in Seq(Chunk) /\ OldIn(Committed(a), process)
         /\ ~Raced(a) => OnceInOrder(Committed(a), process, del[process])
<1> DEFINE p == process
           k == del[p]
           u == Upto(p, a.upto)
<1>1. /\ p \in Process /\ k \in 0 .. Chunks /\ k \in Nat /\ p \in Nat
      /\ pend \in Seq(Chunk) /\ screen \in Seq(Chunk) /\ a.upto \in 0 .. Chunks
  <2>1. p \in Process
    BY DEF ScreenPart, Keyed, EntryInv, Typed, LinkTyped, Processes
  <2> QED BY <2>1, Counted DEF EntryInv, Typed, BufferTyped, Runs
<1>2. /\ OldIn(screen, p) /\ OldIn(pend, p) /\ Newest(pend, p, k)
      /\ ~spoilt => Own(screen, p) = {}
      /\ ~cut /\ p \notin missed => 1 .. k \subseteq {pend[n].i : n \in Own(pend, p)}
  BY DEF ScreenPart, Older, Held
<1>3. /\ u \in Seq(Chunk) /\ OnceInOrder(u, p, a.upto) /\ OldIn(u, p)
      /\ Replay(p) \in Seq(Chunk) /\ Own(Replay(p), p) = {} /\ OldIn(Replay(p), p)
  <2>1. u \in Seq(Chunk) /\ Replay(p) \in Seq(Chunk)
    BY <1>1, ChunksTyped
  <2>2. OnceInOrder(u, p, a.upto) /\ \A n \in DOMAIN u : u[n].of = p
    BY <1>1, UptoOnce
  <2>3. \A n \in DOMAIN Replay(p) : Replay(p)[n].of = p /\ Replay(p)[n].i = 0
    BY DEF Replay
  <2>4. Own(Replay(p), p) = {}
    BY <2>3 DEF Own
  <2> QED BY <1>1, <2>1, <2>2, <2>3, <2>4 DEF OldIn
<1> HIDE DEF p, u, k
<1>4. /\ Committed(a) = IF a.kind = "prefix" THEN Replay(p) \o pend
                        ELSE IF a.upto = 0 THEN screen \o pend
                        ELSE IF a.kind = "screen" THEN u
                        ELSE u \o (IF IsSuffix(pend, u) THEN <<>> ELSE pend)
      /\ Raced(a) <=> (IF a.upto = 0 THEN spoilt \/ cut \/ p \in missed
                       ELSE \/ k # a.upto
                            \/ a.kind = "history" /\ \E n \in 1 .. Len(pend) : pend[n].of # p)
  BY DEF Committed, Raced, p, u, k
<1>5. a.upto = 0 /\ ~Raced(a) => OnceInOrder(pend, p, k) /\ Own(screen, p) = {}
  BY <1>1, <1>2, <1>4, NewestOnce
<1>6. CASE a.kind = "prefix"
  <2>1. Committed(a) = Replay(p) \o pend
    BY <1>4, <1>6
  <2>2. Replay(p) \o pend \in Seq(Chunk) /\ OldIn(Replay(p) \o pend, p)
    BY <1>1, <1>2, <1>3, ConcatOld, ConcatIs
  <2>3. ~Raced(a) => OnceInOrder(Replay(p) \o pend, p, k)
    BY <1>1, <1>3, <1>5, <1>6, ConcatOwn
  <2> QED BY <2>1, <2>2, <2>3 DEF p, k
<1>7. CASE a.kind # "prefix" /\ a.upto = 0
  <2>1. Committed(a) = screen \o pend
    BY <1>4, <1>7
  <2>2. screen \o pend \in Seq(Chunk) /\ OldIn(screen \o pend, p)
    BY <1>1, <1>2, ConcatOld, ConcatIs
  <2>3. ~Raced(a) => OnceInOrder(screen \o pend, p, k)
    BY <1>1, <1>5, <1>7, ConcatOwn
  <2> QED BY <2>1, <2>2, <2>3 DEF p, k
<1>8. CASE a.kind = "screen" /\ a.upto # 0
  <2>1. Committed(a) = u /\ (~Raced(a) => a.upto = k)
    BY <1>4, <1>8
  <2> QED BY <1>3, <2>1 DEF p, k
<1>9. CASE a.kind = "history" /\ a.upto # 0
  <2> DEFINE rest == IF IsSuffix(pend, u) THEN <<>> ELSE pend
  <2>1. Committed(a) = u \o rest
    BY <1>4, <1>9
  <2>2. rest \in Seq(Chunk) /\ OldIn(rest, p)
    BY <1>1, <1>2, NothingIn
  <2>3. ASSUME ~Raced(a) PROVE OnceInOrder(u \o rest, p, k)
    <3>1. k = a.upto /\ \A n \in 1 .. Len(pend) : pend[n].of = p
      BY <1>4, <1>9, <2>3
    <3>2. \A n \in DOMAIN pend : pend[n].of = p
      BY <1>1, <3>1
    <3>3. IsSuffix(pend, Upto(p, k))
      BY <1>1, <1>2, <3>2, NewestSuffix
    <3>4. rest = <<>>
      BY <3>1, <3>3 DEF u, p
    <3>5. u \o rest = u
      BY <1>3, <3>4, NothingIn
    <3> QED BY <1>3, <3>1, <3>5
  <2> HIDE DEF rest
  <2>4. u \o rest \in Seq(Chunk) /\ OldIn(u \o rest, p)
    BY <1>3, <2>2, ConcatOld, ConcatIs
  <2> QED BY <2>1, <2>3, <2>4 DEF p, k
<1> QED BY <1>6, <1>7, <1>8, <1>9

LEMMA CommitExact ==
  ASSUME EntryInv, ScreenPart, NEW r \in Run, Commit(r), ~outlived'
  PROVE  ScreenPart'
<1> DEFINE a == runs[r]
           p == process
<1>1. /\ a.state = "answered" /\ exists /\ generation = a.generation /\ a.era = era
      /\ runs' = [runs EXCEPT ![r] = Idle]
      /\ screen' = Committed(a) /\ spoilt' = Raced(a) /\ pend' = <<>>
      /\ hydrated' = a.of /\ hydrating' = FALSE
      /\ UNCHANGED <<process, subscribed, exists, era, generation, live, missed, del>>
  BY DEF Commit, Cancelled, streamVars, engineVars, linkVars
<1>2. /\ hydrating /\ a.of = p
      /\ a.kind \in {"screen", "prefix", "history"} /\ (a.kind = "prefix" => a.upto = 0)
  BY <1>1 DEF ScreenPart, RunsKeyed, RunKeyed, Serving
<1>3. /\ Committed(a) \in Seq(Chunk) /\ OldIn(Committed(a), p)
      /\ ~Raced(a) => OnceInOrder(Committed(a), p, del[p])
  <2>1. a \in Runs
    BY DEF EntryInv, Typed, WorkTyped
  <2> HIDE DEF a
  <2> QED BY <1>2, <2>1, PaintsExact
<1>4. p \in Process /\ p # NoProcess /\ del[p] \in Nat /\ live \in Seq(Chunk)
  <2>1. p \in Process
    BY <1>2 DEF ScreenPart, Keyed, EntryInv, Typed, LinkTyped, Processes
  <2> QED BY <2>1, Counted DEF EntryInv, Typed, BufferTyped
<1>5. Own(live, p) = {}
  BY <1>2 DEF ScreenPart, Held
<1>6. Keyed'
  BY <1>1, <1>2, <1>4 DEF ScreenPart, Keyed
<1>7. RunsKeyed'
  <2>1. runs'[r] = Idle /\ \A s \in Run : s # r => runs'[s] = runs[s]
    BY <1>1 DEF EntryInv, Typed, WorkTyped
  <2>2. Serving(r) /\ runs[r].state # "idle"
    BY <1>1 DEF Serving
  <2>3. ASSUME NEW s \in Run, s # r, runs[s].state # "idle" PROVE ~Serving(s)
    BY <2>2, <2>3 DEF ScreenPart, RunsKeyed
  <2>4. ASSUME NEW s \in Run PROVE RunKeyed(s)' /\ (runs'[s].state # "idle" => ~Serving(s)')
    <3>1. CASE s = r
      BY <2>1, <3>1, Rests DEF RunKeyed
    <3>2. CASE s # r
      <4>1. RunKeyed(s)
        BY DEF ScreenPart, RunsKeyed
      <4> QED BY <1>1, <2>1, <2>3, <3>2, <4>1 DEF RunKeyed, Serving
    <3> QED BY <3>1, <3>2
  <2> QED BY <2>4 DEF RunsKeyed
<1>8. Older'
  <2>1. OldIn(live, p) /\ \A q \in Process \ missed : q > p => del[q] = 0
    BY DEF ScreenPart, Older
  <2> HIDE DEF a
  <2> QED BY <1>1, <1>3, <2>1, NothingIn DEF Older, OldIn
<1>9. Held'
  BY <1>1 DEF Held
<1>10. Painted'
  <2> HIDE DEF a
  <2>1. ~Raced(a) => OnceInOrder(Committed(a) \o live, p, del[p])
    BY <1>3, <1>4, <1>5, ConcatOwn
  <2> QED BY <1>1, <2>1 DEF Painted
<1> QED BY <1>6, <1>7, <1>8, <1>9, <1>10 DEF ScreenPart

(* A repair paints what the host had; what came since would have undone    *)
(* its freshness.                                                          *)
LEMMA RepairExact ==
  ASSUME EntryInv, Undisturbed, ScreenPart, NEW kind \in {"resync", "ed3"}, RepairDone(kind)
  PROVE  ScreenPart'
<1>1. UNCHANGED <<process, subscribed, hydrating, hydrated, exists, runs, era, generation,
                  live, pend, cut, missed, del>>
  BY DEF RepairDone, streamVars, engineVars, linkVars, gateVars, bufVars
<1>2. CASE ~Repaints(kind)
  <2>1. UNCHANGED <<screen, spoilt>>
    BY <1>2 DEF RepairDone, paintVars
  <2> QED BY <1>1, <2>1, ScreenUntouched DEF ScreenPart
<1>3. CASE Repaints(kind)
  <2> DEFINE p == process
             k == repair.upto
  <2>1. /\ screen' = Upto(repair.of, k) /\ spoilt' = (hydrating \/ del[repair.of] # k)
        /\ repair.state # "idle" /\ repair.fresh /\ attached = repair.of
    BY <1>3 DEF RepairDone, Repaints
  <2>2. repair.of = p /\ p \in Process
    <3>1. repair.of \in Process
      BY <2>1 DEF EntryInv, WorkPart
    <3>2. attached # NoProcess
      BY <2>1, <3>1, Bounds
    <3>3. process = attached
      BY <3>2 DEF EntryInv, ListensToItsOwn
    <3> QED BY <2>1, <3>1, <3>3
  <2>3. live = <<>>
    <3>1. repair # NoRepair
      BY <2>1, Rests
    <3> QED BY <2>1, <3>1 DEF Undisturbed
  <2>4. k \in 0 .. Chunks /\ p \in Nat
    BY <2>2, Counted DEF EntryInv, Typed, WorkTyped, Repairs
  <2> HIDE DEF k
  <2>5. Upto(p, k) \in Seq(Chunk) /\ OnceInOrder(Upto(p, k), p, k) /\ OldIn(Upto(p, k), p)
    <3>1. \A n \in DOMAIN Upto(p, k) : Upto(p, k)[n].of = p
      BY <2>2, <2>4, UptoOnce
    <3>2. p <= p
      BY <2>4
    <3> QED BY <2>2, <2>4, <3>1, <3>2, UptoOnce, ChunksTyped DEF OldIn
  <2>6. Keyed' /\ RunsKeyed'
    BY <1>1, ScreenUntouched DEF ScreenPart
  <2>7. Older'
    BY <1>1, <2>1, <2>2, <2>5 DEF ScreenPart, Older, OldIn
  <2>8. Held'
    <3> SUFFICES ASSUME hydrating PROVE Held'
      BY <1>1 DEF Held
    <3>1. spoilt'
      BY <2>1
    <3> QED BY <1>1, <3>1 DEF ScreenPart, Held, Newest, Own
  <2>9. Painted'
    <3> SUFFICES ASSUME ~spoilt' PROVE OnceInOrder(screen' \o live', p, del[p])
      BY <1>1 DEF Painted
    <3>1. del[p] = k
      BY <2>1, <2>2
    <3>2. screen' \o live' = Upto(p, k)
      BY <1>1, <2>1, <2>2, <2>3, <2>5, NothingIn
    <3> QED BY <2>5, <3>1, <3>2
  <2> QED BY <2>6, <2>7, <2>8, <2>9 DEF ScreenPart
<1> QED BY <1>2, <1>3

(* What comes, and what is dropped, keeps a repair honest.                 *)
LEMMA UndisturbedKept ==
  ASSUME EntryInv, Undisturbed, Next PROVE Undisturbed'
<1> USE DEF streamVars, engineVars, gateVars, linkVars, bufVars, paintVars
<1>1. ASSUME UNCHANGED <<repair, live>> PROVE Undisturbed'
  BY <1>1 DEF Undisturbed
<1>2. ASSUME live' = <<>> PROVE Undisturbed'
  BY <1>2 DEF Undisturbed
<1>3. CASE Stream
  <2>1. CASE FlushLiveWrites
    BY <1>2, <2>1 DEF FlushLiveWrites
  <2>2. ASSUME NEW p \in Process, Produce(p) PROVE Undisturbed'
    BY <1>1, <2>2 DEF Produce
  <2>3. ASSUME NEW p \in Process, Deliver(p) PROVE Undisturbed'
    <3>1. CASE ~exists \/ subscribed # p
      BY <1>1, <2>3, <3>1 DEF Deliver
    <3>2. CASE exists /\ subscribed = p
      <4>1. repair' = IF repair = NoRepair THEN repair ELSE [repair EXCEPT !.fresh = FALSE]
        BY <2>3, <3>2 DEF Deliver
      <4>2. repair = NoRepair \/ ~repair'.fresh
        BY <4>1 DEF EntryInv, Typed, WorkTyped, Repairs
      <4> QED BY <4>1, <4>2 DEF Undisturbed
    <3> QED BY <3>1, <3>2
  <2> QED BY <1>3, <2>1, <2>2, <2>3 DEF Stream
<1>4. CASE Pane
  <2>1. CASE Mount \/ Unmount
    BY <1>1, <2>1 DEF Mount, Unmount
  <2>2. CASE Evict
    BY <1>2, <2>2 DEF Evict
  <2>3. ASSUME NEW p \in Process, Attach(p) PROVE Undisturbed'
    BY <1>1, <2>3 DEF Attach
  <2> QED BY <1>4, <2>1, <2>2, <2>3 DEF Pane
<1>5. CASE Hydrate
  <2>1. UNCHANGED <<repair, live>>
    BY <1>5 DEF Hydrate, SnapshotRead, SnapshotFails, HistoryRead, HydrateCancelled, Commit
  <2> QED BY <1>1, <2>1
<1>6. CASE Repair
  <2>1. ASSUME NEW kind \in {"resync", "ed3"}, RepairAsks(kind) PROVE Undisturbed'
    BY <2>1 DEF RepairAsks, Undisturbed
  <2>2. CASE RepairRead
    <3>1. repair # NoRepair
      BY <2>2, Rests DEF RepairRead
    <3>2. repair'.fresh = repair.fresh /\ live' = live
      BY <2>2 DEF RepairRead, EntryInv, Typed, WorkTyped, Repairs
    <3> QED BY <3>1, <3>2 DEF Undisturbed
  <2>3. ASSUME NEW kind \in {"resync", "ed3"}, RepairDone(kind) PROVE Undisturbed'
    BY <2>3 DEF RepairDone, Undisturbed
  <2> QED BY <1>6, <2>1, <2>2, <2>3 DEF Repair
<1> QED BY <1>3, <1>4, <1>5, <1>6 DEF Next

LEMMA ScreenKept ==
  ASSUME EntryInv, Undisturbed, ScreenPart, Next, ~outlived' PROVE ScreenPart'
<1>1. CASE Stream
  <2>1. ASSUME NEW p \in Process, Produce(p) PROVE ScreenPart'
    <3>1. UNCHANGED <<process, subscribed, hydrating, hydrated, exists, runs, era, generation,
                      screen, live, pend, cut, spoilt, missed, del>>
      BY <2>1 DEF Produce, linkVars, gateVars, bufVars, paintVars
    <3> QED BY <3>1, ScreenUntouched DEF ScreenPart
  <2>2. ASSUME NEW p \in Process, Deliver(p) PROVE ScreenPart'
    <3>1. hydrating \in BOOLEAN /\ exists \in BOOLEAN
      BY DEF EntryInv, Typed, FlagsTyped
    <3> QED BY <2>2, <3>1, MissedExact, WaitsExact, LiveExact
  <2> QED BY <1>1, <2>1, <2>2, FlushExact DEF Stream
<1>2. CASE Pane
  BY <1>2, MountExact, EvictExact, AttachExact DEF Pane
<1>3. CASE Hydrate
  BY <1>3, AnswersExact, CommitExact DEF Hydrate
<1>4. CASE Repair
  <2>1. ASSUME RepairRead \/ \E kind \in {"resync", "ed3"} : RepairAsks(kind) PROVE ScreenPart'
    <3>1. UNCHANGED <<process, subscribed, hydrating, hydrated, exists, runs, era, generation,
                      screen, live, pend, cut, spoilt, missed, del>>
      BY <2>1 DEF RepairRead, RepairAsks, streamVars, linkVars, gateVars, bufVars, paintVars
    <3> QED BY <3>1, ScreenUntouched DEF ScreenPart
  <2> QED BY <1>4, <2>1, RepairExact DEF Repair
<1> QED BY <1>1, <1>2, <1>3, <1>4 DEF Next

LEMMA OutlivedStays ==
  ASSUME Next, ~outlived' PROVE ~outlived
BY DEF Next, Stream, Pane, Hydrate, Repair, FlushLiveWrites, Produce, Deliver, Mount, Unmount, Evict,
       Attach, SnapshotRead, SnapshotFails, HistoryRead, HydrateCancelled, Commit, RepairRead,
       RepairAsks, RepairDone

LEMMA ScreenStarts ==
  ASSUME Init PROVE ScreenInv
<1> USE DEF Init
<1>1. Keyed /\ Undisturbed
  BY DEF Keyed, Undisturbed
<1>2. RunsKeyed
  BY Rests DEF RunsKeyed, RunKeyed
<1>3. Older
  BY NothingIn DEF Older
<1>4. Held /\ Painted
  BY DEF Held, Painted
<1> QED BY <1>1, <1>2, <1>3, <1>4 DEF ScreenInv, ScreenPart

\* Once everything a process wrote has arrived and is painted, xterm shows each
\* chunk of it once and in order: across remounts, evictions, re-targeting,
\* failed snapshots, a buffer at its cap and repairs, unless the answer on the
\* screen and the stream overtook each other or an old hydrate struck
\* (TerminalEngine.ts, attach, hydrate, flushLiveWrites, runEd3Repair and
\* reconcileSnapshot; cache.ts, cleanupTerminalCache).
THEOREM ScreenAlwaysExact == Spec => []Exact
<1>1. Init => ScreenInv
  BY ScreenStarts
<1>2. EntryInv /\ ScreenInv /\ [Next]_vars => ScreenInv'
  <2> SUFFICES ASSUME EntryInv, ScreenInv, [Next]_vars PROVE ScreenInv'
    OBVIOUS
  <2>1. CASE UNCHANGED vars
    <3>1. /\ UNCHANGED <<process, subscribed, hydrating, hydrated, exists, runs, era, generation,
                         screen, live, pend, cut, spoilt, missed, del>>
          /\ UNCHANGED <<repair, outlived>>
      BY <2>1 DEF vars, streamVars, linkVars, gateVars, bufVars, paintVars
    <3> QED BY <3>1, ScreenUntouched DEF ScreenInv, ScreenPart
  <2>2. CASE Next
    BY <2>2, UndisturbedKept, ScreenKept, OutlivedStays DEF ScreenInv
  <2> QED BY <2>1, <2>2
<1>3. EntryInv /\ ScreenInv => Exact
  <2> SUFFICES ASSUME EntryInv, ScreenInv, NEW p \in Process, Settled(p), ~spoilt, ~outlived
               PROVE  OnceInOrder(screen, p, out[p])
    BY DEF Exact
  <2>1. /\ attached = p /\ ~hydrating /\ live = <<>> /\ del[p] = out[p]
        /\ screen \in Seq(Chunk) /\ p # NoProcess
    BY Bounds DEF Settled, EntryInv, Typed, BufferTyped
  <2>2. process = p
    BY <2>1 DEF EntryInv, ListensToItsOwn
  <2>3. OnceInOrder(screen \o live, p, out[p])
    BY <2>1, <2>2 DEF ScreenInv, ScreenPart, Painted
  <2> QED BY <2>1, <2>3, NothingIn
<1>4. Spec => []EntryInv
  BY EntryAlwaysHolds
<1> QED BY <1>1, <1>2, <1>3, <1>4, PTL DEF Spec
=============================================================================
