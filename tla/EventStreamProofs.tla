------------------------- MODULE EventStreamProofs -------------------------
(***************************************************************************)
(* Proofs about EventStream, for any clients and any capacities.           *)
(*                                                                         *)
(* The argument: what is on its way to a client is one stream, the         *)
(* transport followed by the serve loop's hands.  Every message of it      *)
(* stands on what the client shows or on messages before it, so nothing is *)
(* applied over a gap; and watermark and queue begin where the stream ends.*)
(***************************************************************************)
EXTENDS EventStream, FiniteSetTheorems, TLAPS

-----------------------------------------------------------------------------
(* The router.                                                              *)

\* The ring is the end of what was emitted.
RingInv ==
    /\ Len(replay) <= sequence
    /\ \A i \in 1 .. Len(replay) : replay[i] = Event(sequence - Len(replay) + i)

\* The snapshot reflects every event, the one that is being dispatched aside.
SnapInv ==
    /\ snapshot.events = 1 .. (base + snapshot.seq)
    /\ Snap \in dispatch => snapshot.seq = sequence - 1
    /\ Snap \notin dispatch => snapshot.seq = sequence

\* An emit is over before an eviction, and only the last event exceeds MaxEvents.
StatusInv ==
    /\ dispatch # {} => sequence > 0
    /\ status = "evicted" => dispatch = {} /\ \A c \in Clients : srv[c].phase = "none"
    /\ status \notin {"ending", "notified"} => base + sequence <= MaxEvents

RouterInv == RingInv /\ SnapInv /\ StatusInv

-----------------------------------------------------------------------------
(* A connection.                                                            *)

Stream(c) == net[c] \o srv[c].outbox
Opening == {"admitted", "subscribed", "fitting"}
Served == {"answering", "hydrating", "serving", "pumping", "replaying", "syncing"}

\* Where the serve loop is, and what it may then have in hand.
LoopInv(c) ==
    /\ srv[c].phase = "none" => srv[c] = Idle
    /\ srv[c].phase # "none" => view[c].phase \in {"attaching", "catching", "attached"}
    /\ srv[c].subscribed <=> srv[c].phase \notin {"none", "admitted"}
    /\ ~srv[c].subscribed => srv[c].queue = <<>> /\ ~srv[c].overflow /\ ~srv[c].lagged
    /\ srv[c].overflow => c \in dispatch
    /\ srv[c].phase \in Opening \cup {"replaying", "syncing"} => srv[c].outbox = <<>>
    /\ srv[c].phase \in {"pumping", "closing"} => Len(srv[c].outbox) = 1
    /\ srv[c].phase = "closing" => srv[c].outbox[1].kind \notin {"event", "snapshot"}
    /\ srv[c].phase = "draining" => Stopped

\* Where the client is: before AttachOk it has nothing to receive and no request out, and
\* every request names a sequence it has shown.
ClientInv(c) ==
    /\ view[c].phase \in {"new", "lost", "ended"} => net[c] = <<>>
    /\ view[c].phase = "new" => view[c].tries = 0
    /\ view[c].phase = "lost" => view[c].tries < Attempts
    /\ srv[c].phase \in Opening =>
         /\ view[c].phase = "attaching" /\ net[c] = <<>>
         /\ srv[c].resume \in {NoResume, view[c].last_seq}
    /\ srv[c].phase \in {"replaying", "syncing"} =>
         /\ view[c].phase = "attached"
         /\ srv[c].resume # NoResume /\ srv[c].resume <= view[c].last_seq
    /\ requests[c] # <<>> => view[c].phase = "attached"
    /\ \A i \in 1 .. Len(requests[c]) : requests[c][i] <= view[c].last_seq

\* The last event handed to the connection.
Upto(c) == IF c \in dispatch THEN sequence - 1 ELSE sequence

IsEvent(m) == m.kind = "event" /\ m.seq > 0 /\ m.events = {base + m.seq}

\* The queue holds events of this core; until it overflows, it is the end of what the
\* connection was handed.
QueueInv(c) ==
    /\ \A i \in 1 .. Len(srv[c].queue) : IsEvent(srv[c].queue[i])
    /\ srv[c].phase # "closing" /\ ~srv[c].lagged /\ srv[c].subscribed =>
         /\ Len(srv[c].queue) <= Upto(c)
         /\ \A i \in 1 .. Len(srv[c].queue) :
              srv[c].queue[i].seq = Upto(c) - Len(srv[c].queue) + i

\* The snapshot a handshake captured, and the queue from there on.
CapturedInv(c) ==
    srv[c].phase \in {"subscribed", "fitting"} =>
        /\ srv[c].captured.events = 1 .. (base + srv[c].captured.seq)
        /\ ~srv[c].lagged => srv[c].captured.seq = Upto(c) - Len(srv[c].queue)

-----------------------------------------------------------------------------
(* The stream.                                                              *)

Content(m) == m.kind \in {"event", "snapshot"}
OfBase(m) == /\ m.kind = "event" => IsEvent(m)
             /\ m.kind = "snapshot" => m.events = 1 .. (base + m.seq)

\* What the stream carries is of this core; or the link is dead, and neither the view nor
\* anything in the transport is of this core.
CoreInv(c) ==
    /\ view[c].origin <= base
    /\ srv[c].phase # "none" => \A i \in 1 .. Len(Stream(c)) : OfBase(Stream(c)[i])
    /\ \/ \A i \in 1 .. Len(Stream(c)) : OfBase(Stream(c)[i])
       \/ /\ view[c].origin < base
          /\ \A i \in 1 .. Len(Stream(c)) :
               /\ Stream(c)[i].kind = "event" => Stream(c)[i].seq > 0
               /\ Stream(c)[i].kind = "snapshot" =>
                    Cardinality(Stream(c)[i].events) - Stream(c)[i].seq \in 0 .. (base - 1)

\* A handshake's snapshot follows AttachOk, and there is no other before the client is
\* attached.
ShapeInv(c) ==
    /\ view[c].phase = "attaching" =>
         /\ srv[c].phase \notin Opening \cup {"none"} => Len(Stream(c)) > 0
         /\ Len(Stream(c)) > 0 => ~Content(Stream(c)[1])
         /\ \A i \in 3 .. Len(Stream(c)) : Stream(c)[i].kind # "snapshot"
    /\ view[c].phase = "catching" =>
         \A i \in 2 .. Len(Stream(c)) : Stream(c)[i].kind # "snapshot"

Carries(m, n) == (m.kind = "event" /\ m.seq = n) \/ (m.kind = "snapshot" /\ n <= m.seq)

\* What a client shows counts, unless a snapshot is about to replace it.
Shown(c, n) ==
    /\ n <= view[c].last_seq
    /\ \/ view[c].phase = "attached"
       \/ \A i \in 1 .. Len(Stream(c)) : Stream(c)[i].kind # "snapshot"

\* Every message stands on what is shown or carried before it.
Closed(c) ==
    \A i \in 1 .. Len(Stream(c)) : Content(Stream(c)[i]) =>
        \A n \in 1 .. Stream(c)[i].seq :
            Shown(c, n) \/ \E j \in 1 .. i : Carries(Stream(c)[j], n)

ClosedInv(c) == srv[c].phase \in Opening \cup Served \/ ~Stopped => Closed(c)

\* Where the stream ends, the watermark and the queue go on.
Reached(c, n) == Shown(c, n) \/ \E j \in 1 .. Len(Stream(c)) : Carries(Stream(c)[j], n)

CoverInv(c) ==
    srv[c].phase \in Served /\ ~srv[c].lagged =>
        /\ \A n \in 1 .. srv[c].watermark : Reached(c, n)
        /\ \A n \in 1 .. (Upto(c) - Len(srv[c].queue)) : Reached(c, n)

\* A view that started from a snapshot of this core shows what its last_seq says.
ViewInv(c) == view[c].origin = base => view[c].events = 1 .. (base + view[c].last_seq)

LinkInv(c) ==
    /\ LoopInv(c) /\ ClientInv(c) /\ QueueInv(c) /\ CapturedInv(c) /\ CoreInv(c)
    /\ ShapeInv(c) /\ ClosedInv(c) /\ CoverInv(c) /\ ViewInv(c)

LinksInv == \A c \in Clients : LinkInv(c)
StreamInv == TypeOK /\ RouterInv /\ LinksInv

-----------------------------------------------------------------------------
(* Facts of the types.                                                      *)

\* What one message is.
LEMMA MessageType ==
    /\ \A k \in Kinds, s \in Seqs, x \in EventSets : Message(k, s, x) \in Messages
    /\ \A m \in Messages : m.kind \in Kinds /\ m.seq \in Seqs /\ m.events \in EventSets
    BY DEF Message, Messages

\* The fields of a message that is made here.
LEMMA MessageFields ==
    \A k, s, x : /\ Message(k, s, x).kind = k /\ Message(k, s, x).seq = s
                 /\ Message(k, s, x).events = x
    BY DEF Message

LEMMA Numbers ==
    /\ Seqs \subseteq Nat /\ MaxReplay \in Nat /\ QueueCap \in Nat \ {0} /\ NetCap \in Nat \ {0}
    /\ Attempts \in Nat \ {0} /\ MaxEvents \in Nat /\ MaxLosses \in Nat /\ MaxSyncs \in Nat
    /\ MaxReopens \in Nat /\ Snap \notin Clients /\ 0 \in Seqs
    BY EventStreamAssumption DEF Seqs, Snap

LEMMA IdleType == Idle \in ServeLoops
    BY Numbers DEF Idle, ServeLoops, Phases, Snapshots, EventSets, NoResume

\* An event of this core that has been emitted is a message.
LEMMA EventType ==
    ASSUME TypeOK
    PROVE  \A n \in 0 .. sequence : base + n > 0 => Event(n) \in Messages
<1>1. base \in Nat /\ sequence \in Nat /\ base + sequence \in 0 .. (MaxEvents + 1)
    BY Numbers DEF TypeOK, Total, Seqs
<1> QED
    BY <1>1, MessageType, Numbers DEF Event, Kinds, Seqs, EventSets

\* What the ring gives out comes from the ring.
LEMMA ReplayType ==
    ASSUME TypeOK, NEW last
    PROVE  ReplayEvents(last) \in Seq(Messages)
<1> DEFINE kept == {i \in 1 .. Len(replay) : replay[i].seq > last}
<1>1. replay \in Seq(Messages) /\ Len(replay) \in Nat
    BY DEF TypeOK
<1>2. IsFiniteSet(1 .. Len(replay)) /\ Cardinality(1 .. Len(replay)) = Len(replay)
    BY <1>1, FS_Interval
<1>3. kept \subseteq 1 .. Len(replay)
    OBVIOUS
<1>4. Cardinality(kept) \in Nat /\ Cardinality(kept) <= Len(replay)
    BY <1>2, <1>3, FS_Subset, FS_CardinalityType
<1> HIDE DEF kept
<1>5. SubSeq(replay, Len(replay) - Cardinality(kept) + 1, Len(replay)) \in Seq(Messages)
    BY <1>1, <1>4
<1> QED
    BY <1>5 DEF ReplayEvents, kept

-----------------------------------------------------------------------------
(* What the actions do to the connection they are about, field by field.    *)

Same(c) ==
    /\ srv'[c] = srv[c] /\ net'[c] = net[c] /\ requests'[c] = requests[c] /\ view'[c] = view[c]

Others(c) == \A d \in Clients : d # c => Same(d)
OthersLoop(c) == \A d \in Clients : d # c => srv'[d] = srv[d]

\* The two ways in which fitting ends, and the two of a sync by snapshot.
FittedOk(c) ==
    /\ srv[c].phase = "fitting" /\ AdmissionFree /\ ~Stopped
    /\ srv' = [srv EXCEPT ![c].phase = "answering", ![c].watermark = srv[c].captured.seq,
                          ![c].outbox = <<AttachOk(srv[c].captured.seq), Snapshot(srv[c].captured)>>]
    /\ UNCHANGED <<routerVars, status, net, requests, view, spent>>

FittedNot(c) ==
    /\ srv[c].phase = "fitting" /\ AdmissionFree
    /\ srv' = [srv EXCEPT ![c].phase = "closing", ![c].outbox = <<AttachDenied>>]
    /\ UNCHANGED <<routerVars, status, net, requests, view, spent>>

SyncSnapshotOk(c) ==
    /\ srv[c].phase = "syncing"
    /\ srv' = [srv EXCEPT ![c].phase = "serving", ![c].watermark = snapshot.seq,
                          ![c].outbox = <<Snapshot(snapshot)>>]
    /\ UNCHANGED <<routerVars, status, net, requests, view, spent>>

SyncSnapshotNot(c) ==
    /\ srv[c].phase = "syncing"
    /\ srv' = [srv EXCEPT ![c].phase = "serving"]
    /\ UNCHANGED <<routerVars, status, net, requests, view, spent>>

LEMMA FittedCases ==
    ASSUME NEW c \in Clients, Fitted(c)
    PROVE  FittedOk(c) \/ FittedNot(c)
    BY DEF Fitted, FittedOk, FittedNot

LEMMA SyncSnapshotCases ==
    ASSUME NEW c \in Clients, SyncSnapshot(c)
    PROVE  SyncSnapshotOk(c) \/ SyncSnapshotNot(c)
    BY DEF SyncSnapshot, SyncSnapshotOk, SyncSnapshotNot

\* A serve loop changes.
LEMMA LoopSet ==
    ASSUME NEW c \in Clients, srv \in [Clients -> ServeLoops], NEW r \in ServeLoops,
           srv' = [srv EXCEPT ![c] = r]
    PROVE  /\ srv' \in [Clients -> ServeLoops] /\ srv'[c] = r
           /\ \A d \in Clients : d # c => srv'[d] = srv[d]
    OBVIOUS

\* The handshake subscribes and captures.
LEMMA SubscribeDoes ==
    ASSUME TypeOK, NEW c \in Clients, Subscribe(c)
    PROVE  /\ srv' \in [Clients -> ServeLoops] /\ Others(c)
           /\ srv[c].phase = "admitted" /\ dispatch = {}
           /\ srv'[c].phase = "subscribed" /\ srv'[c].resume = srv[c].resume
           /\ srv'[c].captured = snapshot /\ srv'[c].subscribed /\ srv'[c].queue = srv[c].queue
           /\ srv'[c].overflow = srv[c].overflow /\ srv'[c].lagged = srv[c].lagged
           /\ srv'[c].watermark = srv[c].watermark /\ srv'[c].outbox = srv[c].outbox
<1> DEFINE r == [srv[c] EXCEPT !.phase = "subscribed",
                            !.subscribed = TRUE,
                            !.captured = snapshot]
<1>1. srv \in [Clients -> ServeLoops] /\ srv[c] \in ServeLoops
    BY DEF TypeOK
<1>2. snapshot \in Snapshots
    BY DEF TypeOK
<1>3. srv' = [srv EXCEPT ![c] = r]
    BY <1>1 DEF Subscribe
<1>4. r \in ServeLoops
    BY <1>1, <1>2 DEF ServeLoops, Phases
<1>5. /\ r.phase = "subscribed" /\ r.resume = srv[c].resume /\ r.captured = snapshot
      /\ r.subscribed /\ r.queue = srv[c].queue /\ r.overflow = srv[c].overflow
      /\ r.lagged = srv[c].lagged /\ r.watermark = srv[c].watermark /\ r.outbox = srv[c].outbox
    BY <1>1 DEF ServeLoops
<1> HIDE DEF r
<1> QED
    BY <1>1, <1>3, <1>4, <1>5, LoopSet DEF Subscribe, Others, Same

\* The handshake answers with a replay.
LEMMA ChooseReplayDoes ==
    ASSUME TypeOK, NEW c \in Clients, ChooseReplay(c), srv[c].resume # NoResume /\ ReplayAvailable(srv[c].resume)
    PROVE  /\ srv' \in [Clients -> ServeLoops] /\ Others(c)
           /\ srv[c].phase = "subscribed" /\ dispatch = {}
           /\ srv'[c].phase = "answering" /\ srv'[c].resume = srv[c].resume
           /\ srv'[c].captured = srv[c].captured /\ srv'[c].subscribed = srv[c].subscribed
           /\ srv'[c].queue = srv[c].queue /\ srv'[c].overflow = srv[c].overflow
           /\ srv'[c].lagged = srv[c].lagged /\ srv'[c].watermark = sequence
           /\ srv'[c].outbox = <<AttachOk(sequence)>> \o ReplayEvents(srv[c].resume)
<1> DEFINE r == [srv[c] EXCEPT !.phase = "answering",
                            !.watermark = sequence,
                            !.outbox = <<AttachOk(sequence)>> \o ReplayEvents(srv[c].resume)]
<1>1. srv \in [Clients -> ServeLoops] /\ srv[c] \in ServeLoops
    BY DEF TypeOK
<1>2. sequence \in Seqs /\ ReplayEvents(srv[c].resume) \in Seq(Messages)
    BY ReplayType DEF TypeOK
<1>3. <<AttachOk(sequence)>> \o ReplayEvents(srv[c].resume) \in Seq(Messages)
    BY <1>2, MessageType, Numbers DEF AttachOk, Kinds, EventSets
<1>4. srv' = [srv EXCEPT ![c] = r]
    BY <1>1 DEF ChooseReplay
<1>5. r \in ServeLoops
    BY <1>1, <1>2, <1>3 DEF ServeLoops, Phases
<1>6. /\ r.phase = "answering" /\ r.resume = srv[c].resume /\ r.captured = srv[c].captured
      /\ r.subscribed = srv[c].subscribed /\ r.queue = srv[c].queue
      /\ r.overflow = srv[c].overflow /\ r.lagged = srv[c].lagged /\ r.watermark = sequence
      /\ r.outbox = <<AttachOk(sequence)>> \o ReplayEvents(srv[c].resume)
    BY <1>1 DEF ServeLoops
<1> HIDE DEF r
<1> QED
    BY <1>1, <1>4, <1>5, <1>6, LoopSet DEF ChooseReplay, Others, Same

\* The handshake goes on to fit its snapshot.
LEMMA ChooseSnapshotDoes ==
    ASSUME TypeOK, NEW c \in Clients, ChooseReplay(c), ~(srv[c].resume # NoResume /\ ReplayAvailable(srv[c].resume))
    PROVE  /\ srv' \in [Clients -> ServeLoops] /\ Others(c)
           /\ srv[c].phase = "subscribed" /\ dispatch = {}
           /\ srv'[c].phase = "fitting" /\ srv'[c].resume = srv[c].resume
           /\ srv'[c].captured = srv[c].captured /\ srv'[c].subscribed = srv[c].subscribed
           /\ srv'[c].queue = srv[c].queue /\ srv'[c].overflow = srv[c].overflow
           /\ srv'[c].lagged = srv[c].lagged /\ srv'[c].watermark = srv[c].watermark
           /\ srv'[c].outbox = srv[c].outbox
<1> DEFINE r == [srv[c] EXCEPT !.phase = "fitting"]
<1>1. srv \in [Clients -> ServeLoops] /\ srv[c] \in ServeLoops
    BY DEF TypeOK
<1>2. srv' = [srv EXCEPT ![c] = r]
    BY <1>1 DEF ChooseReplay
<1>3. r \in ServeLoops
    BY <1>1 DEF ServeLoops, Phases
<1>4. /\ r.phase = "fitting" /\ r.resume = srv[c].resume /\ r.captured = srv[c].captured
      /\ r.subscribed = srv[c].subscribed /\ r.queue = srv[c].queue
      /\ r.overflow = srv[c].overflow /\ r.lagged = srv[c].lagged
      /\ r.watermark = srv[c].watermark /\ r.outbox = srv[c].outbox
    BY <1>1 DEF ServeLoops
<1> HIDE DEF r
<1> QED
    BY <1>1, <1>2, <1>3, <1>4, LoopSet DEF ChooseReplay, Others, Same

\* The snapshot fits.
LEMMA FittedDoes ==
    ASSUME TypeOK, NEW c \in Clients, FittedOk(c)
    PROVE  /\ srv' \in [Clients -> ServeLoops] /\ Others(c)
           /\ srv[c].phase = "fitting" /\ ~Stopped
           /\ srv'[c].phase = "answering" /\ srv'[c].resume = srv[c].resume
           /\ srv'[c].captured = srv[c].captured /\ srv'[c].subscribed = srv[c].subscribed
           /\ srv'[c].queue = srv[c].queue /\ srv'[c].overflow = srv[c].overflow
           /\ srv'[c].lagged = srv[c].lagged /\ srv'[c].watermark = srv[c].captured.seq
           /\ srv'[c].outbox = <<AttachOk(srv[c].captured.seq), Snapshot(srv[c].captured)>>
<1> DEFINE r == [srv[c] EXCEPT !.phase = "answering",
                            !.watermark = srv[c].captured.seq,
                            !.outbox = <<AttachOk(srv[c].captured.seq), Snapshot(srv[c].captured)>>]
<1>1. srv \in [Clients -> ServeLoops] /\ srv[c] \in ServeLoops
    BY DEF TypeOK
<1>2. srv[c].captured \in Snapshots
    BY <1>1 DEF ServeLoops
<1>3. AttachOk(srv[c].captured.seq) \in Messages /\ Snapshot(srv[c].captured) \in Messages
    BY <1>2, MessageType, Numbers DEF AttachOk, Snapshot, Kinds, EventSets, Snapshots
<1>4. <<AttachOk(srv[c].captured.seq), Snapshot(srv[c].captured)>> \in Seq(Messages)
    BY <1>3
<1>5. srv[c].captured.seq \in Seqs
    BY <1>2 DEF Snapshots
<1>6. srv' = [srv EXCEPT ![c] = r]
    BY <1>1 DEF FittedOk
<1>7. r \in ServeLoops
    BY <1>1, <1>4, <1>5 DEF ServeLoops, Phases
<1>8. /\ r.phase = "answering" /\ r.resume = srv[c].resume /\ r.captured = srv[c].captured
      /\ r.subscribed = srv[c].subscribed /\ r.queue = srv[c].queue
      /\ r.overflow = srv[c].overflow /\ r.lagged = srv[c].lagged
      /\ r.watermark = srv[c].captured.seq
      /\ r.outbox = <<AttachOk(srv[c].captured.seq), Snapshot(srv[c].captured)>>
    BY <1>1 DEF ServeLoops
<1> HIDE DEF r
<1> QED
    BY <1>1, <1>6, <1>7, <1>8, LoopSet DEF FittedOk, Others, Same

\* The attach is denied.
LEMMA DeniedDoes ==
    ASSUME TypeOK, NEW c \in Clients, FittedNot(c)
    PROVE  /\ srv' \in [Clients -> ServeLoops] /\ Others(c)
           /\ srv[c].phase = "fitting"
           /\ srv'[c].phase = "closing" /\ srv'[c].resume = srv[c].resume
           /\ srv'[c].captured = srv[c].captured /\ srv'[c].subscribed = srv[c].subscribed
           /\ srv'[c].queue = srv[c].queue /\ srv'[c].overflow = srv[c].overflow
           /\ srv'[c].lagged = srv[c].lagged /\ srv'[c].watermark = srv[c].watermark
           /\ srv'[c].outbox = <<AttachDenied>>
<1> DEFINE r == [srv[c] EXCEPT !.phase = "closing", !.outbox = <<AttachDenied>>]
<1>1. srv \in [Clients -> ServeLoops] /\ srv[c] \in ServeLoops
    BY DEF TypeOK
<1>2. <<AttachDenied>> \in Seq(Messages)
    BY MessageType, Numbers DEF AttachDenied, Kinds, EventSets
<1>3. srv' = [srv EXCEPT ![c] = r]
    BY <1>1 DEF FittedNot
<1>4. r \in ServeLoops
    BY <1>1, <1>2 DEF ServeLoops, Phases
<1>5. /\ r.phase = "closing" /\ r.resume = srv[c].resume /\ r.captured = srv[c].captured
      /\ r.subscribed = srv[c].subscribed /\ r.queue = srv[c].queue
      /\ r.overflow = srv[c].overflow /\ r.lagged = srv[c].lagged
      /\ r.watermark = srv[c].watermark /\ r.outbox = <<AttachDenied>>
    BY <1>1 DEF ServeLoops
<1> HIDE DEF r
<1> QED
    BY <1>1, <1>3, <1>4, <1>5, LoopSet DEF FittedNot, Others, Same

\* A SyncRequest is taken up.
LEMMA HandleSyncDoes ==
    ASSUME TypeOK, NEW c \in Clients, HandleSync(c)
    PROVE  /\ srv' \in [Clients -> ServeLoops] /\ OthersLoop(c)
           /\ srv[c].phase = "serving" /\ srv[c].outbox = <<>>
           /\ srv'[c].phase = "replaying" /\ srv'[c].resume = Head(requests[c])
           /\ srv'[c].captured = srv[c].captured /\ srv'[c].subscribed = srv[c].subscribed
           /\ srv'[c].queue = srv[c].queue /\ srv'[c].overflow = srv[c].overflow
           /\ srv'[c].lagged = srv[c].lagged /\ srv'[c].watermark = srv[c].watermark
           /\ srv'[c].outbox = srv[c].outbox
<1> DEFINE r == [srv[c] EXCEPT !.phase = "replaying", !.resume = Head(requests[c])]
<1>1. srv \in [Clients -> ServeLoops] /\ srv[c] \in ServeLoops
    BY DEF TypeOK
<1>2. Head(requests[c]) \in Seqs
    BY DEF TypeOK, HandleSync
<1>3. srv' = [srv EXCEPT ![c] = r]
    BY <1>1 DEF HandleSync, Serving
<1>4. r \in ServeLoops
    BY <1>1, <1>2 DEF ServeLoops, Phases
<1>5. /\ r.phase = "replaying" /\ r.resume = Head(requests[c]) /\ r.captured = srv[c].captured
      /\ r.subscribed = srv[c].subscribed /\ r.queue = srv[c].queue
      /\ r.overflow = srv[c].overflow /\ r.lagged = srv[c].lagged
      /\ r.watermark = srv[c].watermark /\ r.outbox = srv[c].outbox
    BY <1>1 DEF ServeLoops
<1> HIDE DEF r
<1> QED
    BY <1>1, <1>3, <1>4, <1>5, LoopSet DEF HandleSync, Serving, OthersLoop

\* It is answered with a replay,
LEMMA SyncReplayDoes ==
    ASSUME TypeOK, NEW c \in Clients, SyncReplay(c), ReplayAvailable(srv[c].resume)
    PROVE  /\ srv' \in [Clients -> ServeLoops] /\ Others(c)
           /\ srv[c].phase = "replaying" /\ dispatch = {}
           /\ srv'[c].phase = "serving" /\ srv'[c].resume = srv[c].resume
           /\ srv'[c].captured = srv[c].captured /\ srv'[c].subscribed = srv[c].subscribed
           /\ srv'[c].queue = srv[c].queue /\ srv'[c].overflow = srv[c].overflow
           /\ srv'[c].lagged = srv[c].lagged /\ srv'[c].watermark = sequence
           /\ srv'[c].outbox = ReplayEvents(srv[c].resume)
<1> DEFINE r == [srv[c] EXCEPT !.phase = "serving",
                            !.watermark = sequence,
                            !.outbox = ReplayEvents(srv[c].resume)]
<1>1. srv \in [Clients -> ServeLoops] /\ srv[c] \in ServeLoops
    BY DEF TypeOK
<1>2. sequence \in Seqs /\ ReplayEvents(srv[c].resume) \in Seq(Messages)
    BY ReplayType DEF TypeOK
<1>3. srv' = [srv EXCEPT ![c] = r]
    BY <1>1 DEF SyncReplay
<1>4. r \in ServeLoops
    BY <1>1, <1>2 DEF ServeLoops, Phases
<1>5. /\ r.phase = "serving" /\ r.resume = srv[c].resume /\ r.captured = srv[c].captured
      /\ r.subscribed = srv[c].subscribed /\ r.queue = srv[c].queue
      /\ r.overflow = srv[c].overflow /\ r.lagged = srv[c].lagged /\ r.watermark = sequence
      /\ r.outbox = ReplayEvents(srv[c].resume)
    BY <1>1 DEF ServeLoops
<1> HIDE DEF r
<1> QED
    BY <1>1, <1>3, <1>4, <1>5, LoopSet DEF SyncReplay, Others, Same

\* or goes on to the snapshot,
LEMMA SyncChooseDoes ==
    ASSUME TypeOK, NEW c \in Clients, SyncReplay(c), ~ReplayAvailable(srv[c].resume)
    PROVE  /\ srv' \in [Clients -> ServeLoops] /\ Others(c)
           /\ srv[c].phase = "replaying" /\ dispatch = {}
           /\ srv'[c].phase = "syncing" /\ srv'[c].resume = srv[c].resume
           /\ srv'[c].captured = srv[c].captured /\ srv'[c].subscribed = srv[c].subscribed
           /\ srv'[c].queue = srv[c].queue /\ srv'[c].overflow = srv[c].overflow
           /\ srv'[c].lagged = srv[c].lagged /\ srv'[c].watermark = srv[c].watermark
           /\ srv'[c].outbox = srv[c].outbox
<1> DEFINE r == [srv[c] EXCEPT !.phase = "syncing"]
<1>1. srv \in [Clients -> ServeLoops] /\ srv[c] \in ServeLoops
    BY DEF TypeOK
<1>2. srv' = [srv EXCEPT ![c] = r]
    BY <1>1 DEF SyncReplay
<1>3. r \in ServeLoops
    BY <1>1 DEF ServeLoops, Phases
<1>4. /\ r.phase = "syncing" /\ r.resume = srv[c].resume /\ r.captured = srv[c].captured
      /\ r.subscribed = srv[c].subscribed /\ r.queue = srv[c].queue
      /\ r.overflow = srv[c].overflow /\ r.lagged = srv[c].lagged
      /\ r.watermark = srv[c].watermark /\ r.outbox = srv[c].outbox
    BY <1>1 DEF ServeLoops
<1> HIDE DEF r
<1> QED
    BY <1>1, <1>2, <1>3, <1>4, LoopSet DEF SyncReplay, Others, Same

\* which it sends,
LEMMA SyncSnapshotDoes ==
    ASSUME TypeOK, NEW c \in Clients, SyncSnapshotOk(c)
    PROVE  /\ srv' \in [Clients -> ServeLoops] /\ Others(c)
           /\ srv[c].phase = "syncing"
           /\ srv'[c].phase = "serving" /\ srv'[c].resume = srv[c].resume
           /\ srv'[c].captured = srv[c].captured /\ srv'[c].subscribed = srv[c].subscribed
           /\ srv'[c].queue = srv[c].queue /\ srv'[c].overflow = srv[c].overflow
           /\ srv'[c].lagged = srv[c].lagged /\ srv'[c].watermark = snapshot.seq
           /\ srv'[c].outbox = <<Snapshot(snapshot)>>
<1> DEFINE r == [srv[c] EXCEPT !.phase = "serving",
                            !.watermark = snapshot.seq,
                            !.outbox = <<Snapshot(snapshot)>>]
<1>1. srv \in [Clients -> ServeLoops] /\ srv[c] \in ServeLoops
    BY DEF TypeOK
<1>2. snapshot \in Snapshots
    BY DEF TypeOK
<1>3. <<Snapshot(snapshot)>> \in Seq(Messages) /\ snapshot.seq \in Seqs
    BY <1>2, MessageType DEF Snapshot, Kinds, Snapshots
<1>4. srv' = [srv EXCEPT ![c] = r]
    BY <1>1 DEF SyncSnapshotOk
<1>5. r \in ServeLoops
    BY <1>1, <1>3 DEF ServeLoops, Phases
<1>6. /\ r.phase = "serving" /\ r.resume = srv[c].resume /\ r.captured = srv[c].captured
      /\ r.subscribed = srv[c].subscribed /\ r.queue = srv[c].queue
      /\ r.overflow = srv[c].overflow /\ r.lagged = srv[c].lagged /\ r.watermark = snapshot.seq
      /\ r.outbox = <<Snapshot(snapshot)>>
    BY <1>1 DEF ServeLoops
<1> HIDE DEF r
<1> QED
    BY <1>1, <1>4, <1>5, <1>6, LoopSet DEF SyncSnapshotOk, Others, Same

\* or which does not fit.
LEMMA SyncNothingDoes ==
    ASSUME TypeOK, NEW c \in Clients, SyncSnapshotNot(c)
    PROVE  /\ srv' \in [Clients -> ServeLoops] /\ Others(c)
           /\ srv[c].phase = "syncing"
           /\ srv'[c].phase = "serving" /\ srv'[c].resume = srv[c].resume
           /\ srv'[c].captured = srv[c].captured /\ srv'[c].subscribed = srv[c].subscribed
           /\ srv'[c].queue = srv[c].queue /\ srv'[c].overflow = srv[c].overflow
           /\ srv'[c].lagged = srv[c].lagged /\ srv'[c].watermark = srv[c].watermark
           /\ srv'[c].outbox = srv[c].outbox
<1> DEFINE r == [srv[c] EXCEPT !.phase = "serving"]
<1>1. srv \in [Clients -> ServeLoops] /\ srv[c] \in ServeLoops
    BY DEF TypeOK
<1>2. srv' = [srv EXCEPT ![c] = r]
    BY <1>1 DEF SyncSnapshotNot
<1>3. r \in ServeLoops
    BY <1>1 DEF ServeLoops, Phases
<1>4. /\ r.phase = "serving" /\ r.resume = srv[c].resume /\ r.captured = srv[c].captured
      /\ r.subscribed = srv[c].subscribed /\ r.queue = srv[c].queue
      /\ r.overflow = srv[c].overflow /\ r.lagged = srv[c].lagged
      /\ r.watermark = srv[c].watermark /\ r.outbox = srv[c].outbox
    BY <1>1 DEF ServeLoops
<1> HIDE DEF r
<1> QED
    BY <1>1, <1>2, <1>3, <1>4, LoopSet DEF SyncSnapshotNot, Others, Same

\* The stop is heard.
LEMMA StartDrainDoes ==
    ASSUME TypeOK, NEW c \in Clients, StartDrain(c)
    PROVE  /\ srv' \in [Clients -> ServeLoops] /\ Others(c)
           /\ srv[c].phase = "serving" /\ Stopped
           /\ srv'[c].phase = "draining" /\ srv'[c].resume = srv[c].resume
           /\ srv'[c].captured = srv[c].captured /\ srv'[c].subscribed = srv[c].subscribed
           /\ srv'[c].queue = srv[c].queue /\ srv'[c].overflow = srv[c].overflow
           /\ srv'[c].lagged = srv[c].lagged /\ srv'[c].watermark = srv[c].watermark
           /\ srv'[c].outbox = srv[c].outbox
<1> DEFINE r == [srv[c] EXCEPT !.phase = "draining"]
<1>1. srv \in [Clients -> ServeLoops] /\ srv[c] \in ServeLoops
    BY DEF TypeOK
<1>2. srv' = [srv EXCEPT ![c] = r]
    BY <1>1 DEF StartDrain, Serving
<1>3. r \in ServeLoops
    BY <1>1 DEF ServeLoops, Phases
<1>4. /\ r.phase = "draining" /\ r.resume = srv[c].resume /\ r.captured = srv[c].captured
      /\ r.subscribed = srv[c].subscribed /\ r.queue = srv[c].queue
      /\ r.overflow = srv[c].overflow /\ r.lagged = srv[c].lagged
      /\ r.watermark = srv[c].watermark /\ r.outbox = srv[c].outbox
    BY <1>1 DEF ServeLoops
<1> HIDE DEF r
<1> QED
    BY <1>1, <1>2, <1>3, <1>4, LoopSet DEF StartDrain, Serving, Stopped, Others, Same

\* Everything queued is sent,
LEMMA DrainedDoes ==
    ASSUME TypeOK, NEW c \in Clients, Drain(c), srv[c].queue = <<>>
    PROVE  /\ srv' \in [Clients -> ServeLoops] /\ Others(c)
           /\ srv[c].phase = "draining"
           /\ srv'[c].phase = "closing" /\ srv'[c].resume = srv[c].resume
           /\ srv'[c].captured = srv[c].captured /\ srv'[c].subscribed = srv[c].subscribed
           /\ srv'[c].queue = srv[c].queue /\ srv'[c].overflow = srv[c].overflow
           /\ srv'[c].lagged = srv[c].lagged /\ srv'[c].watermark = srv[c].watermark
           /\ srv'[c].outbox = <<Revoked("stopped")>>
<1> DEFINE r == [srv[c] EXCEPT !.phase = "closing", !.outbox = <<Revoked("stopped")>>]
<1>1. srv \in [Clients -> ServeLoops] /\ srv[c] \in ServeLoops
    BY DEF TypeOK
<1>2. <<Revoked("stopped")>> \in Seq(Messages)
    BY MessageType, Numbers DEF Revoked, Kinds, EventSets
<1>3. srv' = [srv EXCEPT ![c] = r]
    BY <1>1 DEF Drain
<1>4. r \in ServeLoops
    BY <1>1, <1>2 DEF ServeLoops, Phases
<1>5. /\ r.phase = "closing" /\ r.resume = srv[c].resume /\ r.captured = srv[c].captured
      /\ r.subscribed = srv[c].subscribed /\ r.queue = srv[c].queue
      /\ r.overflow = srv[c].overflow /\ r.lagged = srv[c].lagged
      /\ r.watermark = srv[c].watermark /\ r.outbox = <<Revoked("stopped")>>
    BY <1>1 DEF ServeLoops
<1> HIDE DEF r
<1> QED
    BY <1>1, <1>3, <1>4, <1>5, LoopSet DEF Drain, Others, Same

\* or the next event.
LEMMA DrainDoes ==
    ASSUME TypeOK, NEW c \in Clients, Drain(c), srv[c].queue # <<>>
    PROVE  /\ srv' \in [Clients -> ServeLoops] /\ Others(c)
           /\ srv[c].phase = "draining" /\ srv[c].outbox = <<>>
           /\ srv'[c].phase = srv[c].phase /\ srv'[c].resume = srv[c].resume
           /\ srv'[c].captured = srv[c].captured /\ srv'[c].subscribed = srv[c].subscribed
           /\ srv'[c].queue = Tail(srv[c].queue) /\ srv'[c].overflow = srv[c].overflow
           /\ srv'[c].lagged = srv[c].lagged /\ srv'[c].watermark = srv[c].watermark
           /\ srv'[c].outbox = IF Head(srv[c].queue).seq <= srv[c].watermark THEN <<>> ELSE <<Head(srv[c].queue)>>
<1> DEFINE r == [srv[c] EXCEPT !.queue = Tail(srv[c].queue),
                            !.outbox = IF Head(srv[c].queue).seq <= srv[c].watermark THEN <<>> ELSE <<Head(srv[c].queue)>>]
<1>1. srv \in [Clients -> ServeLoops] /\ srv[c] \in ServeLoops
    BY DEF TypeOK
<1>2. srv[c].queue \in Seq(Messages) /\ srv[c].queue # <<>>
    BY <1>1 DEF ServeLoops
<1>3. Tail(srv[c].queue) \in Seq(Messages) /\ <<Head(srv[c].queue)>> \in Seq(Messages)
    BY <1>2
<1>4. (IF Head(srv[c].queue).seq <= srv[c].watermark THEN <<>> ELSE <<Head(srv[c].queue)>>) \in Seq(Messages)
    BY <1>3
<1>5. srv' = [srv EXCEPT ![c] = r]
    BY <1>1 DEF Drain
<1>6. r \in ServeLoops
    BY <1>1, <1>3, <1>4 DEF ServeLoops, Phases
<1>7. /\ r.phase = srv[c].phase /\ r.resume = srv[c].resume /\ r.captured = srv[c].captured
      /\ r.subscribed = srv[c].subscribed /\ r.queue = Tail(srv[c].queue)
      /\ r.overflow = srv[c].overflow /\ r.lagged = srv[c].lagged
      /\ r.watermark = srv[c].watermark
      /\ r.outbox = IF Head(srv[c].queue).seq <= srv[c].watermark THEN <<>> ELSE <<Head(srv[c].queue)>>
    BY <1>1 DEF ServeLoops
<1> HIDE DEF r
<1> QED
    BY <1>1, <1>5, <1>6, <1>7, LoopSet DEF Drain, Others, Same

\* A queue that overflowed ends the connection;
LEMMA PumpLagged ==
    ASSUME TypeOK, NEW c \in Clients, Pump(c), srv[c].lagged
    PROVE  /\ srv' \in [Clients -> ServeLoops] /\ Others(c)
           /\ srv[c].phase = "serving" /\ srv[c].outbox = <<>>
           /\ srv'[c].phase = "closing" /\ srv'[c].resume = srv[c].resume
           /\ srv'[c].captured = srv[c].captured /\ srv'[c].subscribed = srv[c].subscribed
           /\ srv'[c].queue = Tail(srv[c].queue) /\ srv'[c].overflow = srv[c].overflow
           /\ ~srv'[c].lagged /\ srv'[c].watermark = srv[c].watermark
           /\ srv'[c].outbox = <<Revoked("lagged")>>
<1> DEFINE r == [srv[c] EXCEPT !.phase = "closing",
                            !.queue = Tail(srv[c].queue),
                            !.lagged = FALSE,
                            !.outbox = <<Revoked("lagged")>>]
<1>1. srv \in [Clients -> ServeLoops] /\ srv[c] \in ServeLoops
    BY DEF TypeOK
<1>2. srv[c].queue \in Seq(Messages) /\ srv[c].queue # <<>>
    BY <1>1 DEF ServeLoops, Pump
<1>3. Tail(srv[c].queue) \in Seq(Messages) /\ <<Head(srv[c].queue)>> \in Seq(Messages)
    BY <1>2
<1>4. <<Revoked("lagged")>> \in Seq(Messages)
    BY MessageType, Numbers DEF Revoked, Kinds, EventSets
<1>5. srv' = [srv EXCEPT ![c] = r]
    BY <1>1 DEF Pump, Serving
<1>6. r \in ServeLoops
    BY <1>1, <1>3, <1>4 DEF ServeLoops, Phases
<1>7. /\ r.phase = "closing" /\ r.resume = srv[c].resume /\ r.captured = srv[c].captured
      /\ r.subscribed = srv[c].subscribed /\ r.queue = Tail(srv[c].queue)
      /\ r.overflow = srv[c].overflow /\ ~r.lagged /\ r.watermark = srv[c].watermark
      /\ r.outbox = <<Revoked("lagged")>>
    BY <1>1 DEF ServeLoops
<1> HIDE DEF r
<1> QED
    BY <1>1, <1>5, <1>6, <1>7, LoopSet DEF Pump, Serving, Others, Same

\* an event the watermark covers is skipped;
LEMMA PumpSkips ==
    ASSUME TypeOK, NEW c \in Clients, Pump(c), ~srv[c].lagged, Head(srv[c].queue).seq <= srv[c].watermark
    PROVE  /\ srv' \in [Clients -> ServeLoops] /\ Others(c)
           /\ srv[c].phase = "serving" /\ srv[c].outbox = <<>> /\ srv[c].queue # <<>>
           /\ srv'[c].phase = srv[c].phase /\ srv'[c].resume = srv[c].resume
           /\ srv'[c].captured = srv[c].captured /\ srv'[c].subscribed = srv[c].subscribed
           /\ srv'[c].queue = Tail(srv[c].queue) /\ srv'[c].overflow = srv[c].overflow
           /\ srv'[c].lagged = srv[c].lagged /\ srv'[c].watermark = srv[c].watermark
           /\ srv'[c].outbox = srv[c].outbox
<1> DEFINE r == [srv[c] EXCEPT !.queue = Tail(srv[c].queue)]
<1>1. srv \in [Clients -> ServeLoops] /\ srv[c] \in ServeLoops
    BY DEF TypeOK
<1>2. srv[c].queue \in Seq(Messages) /\ srv[c].queue # <<>>
    BY <1>1 DEF ServeLoops, Pump
<1>3. Tail(srv[c].queue) \in Seq(Messages) /\ <<Head(srv[c].queue)>> \in Seq(Messages)
    BY <1>2
<1>4. srv' = [srv EXCEPT ![c] = r]
    BY <1>1 DEF Pump, Serving
<1>5. r \in ServeLoops
    BY <1>1, <1>3 DEF ServeLoops, Phases
<1>6. /\ r.phase = srv[c].phase /\ r.resume = srv[c].resume /\ r.captured = srv[c].captured
      /\ r.subscribed = srv[c].subscribed /\ r.queue = Tail(srv[c].queue)
      /\ r.overflow = srv[c].overflow /\ r.lagged = srv[c].lagged
      /\ r.watermark = srv[c].watermark /\ r.outbox = srv[c].outbox
    BY <1>1 DEF ServeLoops
<1> HIDE DEF r
<1> QED
    BY <1>1, <1>4, <1>5, <1>6, LoopSet DEF Pump, Serving, Others, Same

\* any other is sent.
LEMMA PumpSends ==
    ASSUME TypeOK, NEW c \in Clients, Pump(c), ~srv[c].lagged, ~(Head(srv[c].queue).seq <= srv[c].watermark)
    PROVE  /\ srv' \in [Clients -> ServeLoops] /\ Others(c)
           /\ srv[c].phase = "serving" /\ srv[c].outbox = <<>> /\ srv[c].queue # <<>>
           /\ srv'[c].phase = "pumping" /\ srv'[c].resume = srv[c].resume
           /\ srv'[c].captured = srv[c].captured /\ srv'[c].subscribed = srv[c].subscribed
           /\ srv'[c].queue = Tail(srv[c].queue) /\ srv'[c].overflow = srv[c].overflow
           /\ srv'[c].lagged = srv[c].lagged /\ srv'[c].watermark = srv[c].watermark
           /\ srv'[c].outbox = <<Head(srv[c].queue)>>
<1> DEFINE r == [srv[c] EXCEPT !.phase = "pumping",
                            !.queue = Tail(srv[c].queue),
                            !.outbox = <<Head(srv[c].queue)>>]
<1>1. srv \in [Clients -> ServeLoops] /\ srv[c] \in ServeLoops
    BY DEF TypeOK
<1>2. srv[c].queue \in Seq(Messages) /\ srv[c].queue # <<>>
    BY <1>1 DEF ServeLoops, Pump
<1>3. Tail(srv[c].queue) \in Seq(Messages) /\ <<Head(srv[c].queue)>> \in Seq(Messages)
    BY <1>2
<1>4. srv' = [srv EXCEPT ![c] = r]
    BY <1>1 DEF Pump, Serving
<1>5. r \in ServeLoops
    BY <1>1, <1>3 DEF ServeLoops, Phases
<1>6. /\ r.phase = "pumping" /\ r.resume = srv[c].resume /\ r.captured = srv[c].captured
      /\ r.subscribed = srv[c].subscribed /\ r.queue = Tail(srv[c].queue)
      /\ r.overflow = srv[c].overflow /\ r.lagged = srv[c].lagged
      /\ r.watermark = srv[c].watermark /\ r.outbox = <<Head(srv[c].queue)>>
    BY <1>1 DEF ServeLoops
<1> HIDE DEF r
<1> QED
    BY <1>1, <1>4, <1>5, <1>6, LoopSet DEF Pump, Serving, Others, Same

\* The queue is full;
LEMMA OverflowDoes ==
    ASSUME TypeOK, NEW c \in Clients, TrySend(c), srv[c].subscribed /\ Len(srv[c].queue) = QueueCap
    PROVE  /\ srv' \in [Clients -> ServeLoops] /\ Others(c)
           /\ c \in dispatch /\ dispatch' = dispatch
           /\ srv'[c].phase = srv[c].phase /\ srv'[c].resume = srv[c].resume
           /\ srv'[c].captured = srv[c].captured /\ srv'[c].subscribed = srv[c].subscribed
           /\ srv'[c].queue = srv[c].queue /\ srv'[c].overflow /\ srv'[c].lagged = srv[c].lagged
           /\ srv'[c].watermark = srv[c].watermark /\ srv'[c].outbox = srv[c].outbox
<1> DEFINE r == [srv[c] EXCEPT !.overflow = TRUE]
<1>1. srv \in [Clients -> ServeLoops] /\ srv[c] \in ServeLoops
    BY DEF TypeOK
<1>2. srv' = [srv EXCEPT ![c] = r]
    BY <1>1 DEF TrySend
<1>3. r \in ServeLoops
    BY <1>1 DEF ServeLoops, Phases
<1>4. /\ r.phase = srv[c].phase /\ r.resume = srv[c].resume /\ r.captured = srv[c].captured
      /\ r.subscribed = srv[c].subscribed /\ r.queue = srv[c].queue /\ r.overflow
      /\ r.lagged = srv[c].lagged /\ r.watermark = srv[c].watermark /\ r.outbox = srv[c].outbox
    BY <1>1 DEF ServeLoops
<1> HIDE DEF r
<1> QED
    BY <1>1, <1>2, <1>3, <1>4, LoopSet DEF TrySend, Others, Same

\* or it takes the event.
LEMMA EnqueueDoes ==
    ASSUME TypeOK, NEW c \in Clients, TrySend(c), srv[c].subscribed, Len(srv[c].queue) # QueueCap, sequence > 0
    PROVE  /\ srv' \in [Clients -> ServeLoops] /\ Others(c)
           /\ c \in dispatch /\ ~srv[c].overflow /\ dispatch' = dispatch \ {c}
           /\ srv'[c].phase = srv[c].phase /\ srv'[c].resume = srv[c].resume
           /\ srv'[c].captured = srv[c].captured /\ srv'[c].subscribed = srv[c].subscribed
           /\ srv'[c].queue = Append(srv[c].queue, Event(sequence))
           /\ srv'[c].overflow = srv[c].overflow /\ srv'[c].lagged = srv[c].lagged
           /\ srv'[c].watermark = srv[c].watermark /\ srv'[c].outbox = srv[c].outbox
<1> DEFINE r == [srv[c] EXCEPT !.queue = Append(srv[c].queue, Event(sequence))]
<1>1. srv \in [Clients -> ServeLoops] /\ srv[c] \in ServeLoops
    BY DEF TypeOK
<1>2. base \in Nat /\ sequence \in Nat
    BY Numbers DEF TypeOK
<1>3. srv[c].queue \in Seq(Messages) /\ Event(sequence) \in Messages
    BY <1>1, <1>2, EventType DEF ServeLoops
<1>4. Append(srv[c].queue, Event(sequence)) \in Seq(Messages)
    BY <1>3
<1>5. srv' = [srv EXCEPT ![c] = r]
    BY <1>1 DEF TrySend
<1>6. r \in ServeLoops
    BY <1>1, <1>4 DEF ServeLoops, Phases
<1>7. /\ r.phase = srv[c].phase /\ r.resume = srv[c].resume /\ r.captured = srv[c].captured
      /\ r.subscribed = srv[c].subscribed /\ r.queue = Append(srv[c].queue, Event(sequence))
      /\ r.overflow = srv[c].overflow /\ r.lagged = srv[c].lagged
      /\ r.watermark = srv[c].watermark /\ r.outbox = srv[c].outbox
    BY <1>1 DEF ServeLoops
<1> HIDE DEF r
<1> QED
    BY <1>1, <1>5, <1>6, <1>7, LoopSet DEF TrySend, Others, Same

\* The lag flag is stored.
LEMMA StoreLaggedDoes ==
    ASSUME TypeOK, NEW c \in Clients, StoreLagged(c)
    PROVE  /\ srv' \in [Clients -> ServeLoops] /\ Others(c)
           /\ c \in dispatch /\ srv[c].overflow /\ dispatch' = dispatch \ {c}
           /\ srv'[c].phase = srv[c].phase /\ srv'[c].resume = srv[c].resume
           /\ srv'[c].captured = srv[c].captured /\ srv'[c].subscribed = srv[c].subscribed
           /\ srv'[c].queue = srv[c].queue /\ ~srv'[c].overflow /\ srv'[c].lagged
           /\ srv'[c].watermark = srv[c].watermark /\ srv'[c].outbox = srv[c].outbox
<1> DEFINE r == [srv[c] EXCEPT !.overflow = FALSE, !.lagged = TRUE]
<1>1. srv \in [Clients -> ServeLoops] /\ srv[c] \in ServeLoops
    BY DEF TypeOK
<1>2. srv' = [srv EXCEPT ![c] = r]
    BY <1>1 DEF StoreLagged
<1>3. r \in ServeLoops
    BY <1>1 DEF ServeLoops, Phases
<1>4. /\ r.phase = srv[c].phase /\ r.resume = srv[c].resume /\ r.captured = srv[c].captured
      /\ r.subscribed = srv[c].subscribed /\ r.queue = srv[c].queue /\ ~r.overflow /\ r.lagged
      /\ r.watermark = srv[c].watermark /\ r.outbox = srv[c].outbox
    BY <1>1 DEF ServeLoops
<1> HIDE DEF r
<1> QED
    BY <1>1, <1>2, <1>3, <1>4, LoopSet DEF StoreLagged, Others, Same

\* The loop after a message was sent.
Rest(r, s) ==
    /\ r.resume = s.resume /\ r.captured = s.captured /\ r.subscribed = s.subscribed
    /\ r.queue = s.queue /\ r.overflow = s.overflow /\ r.lagged = s.lagged
    /\ r.watermark = s.watermark

Moved(old, new) ==
    \/ old \in {"answering", "hydrating"} /\ new \in {"hydrating", "serving"}
    \/ old = "pumping" /\ new = "serving"
    \/ old \notin {"answering", "hydrating", "pumping", "closing"} /\ new = old

SentOn(r, s) == r.outbox = s.outbox /\ Rest(r, s) /\ Moved(s.phase, r.phase)
Revokes(r, s) ==
    /\ s.phase = "pumping" /\ Stopped /\ r.phase = "closing" /\ Rest(r, s)
    /\ r.outbox = <<Revoked("stopped")>>

LEMMA AfterSendDoes ==
    ASSUME NEW s \in ServeLoops
    PROVE  /\ AfterSend(s) \in ServeLoops
           /\ \/ SentOn(AfterSend(s), s)
              \/ Revokes(AfterSend(s), s)
              \/ s.phase = "closing" /\ AfterSend(s) = Idle
<1>1. CASE s.phase = "answering" /\ s.outbox # <<>>
  <2> DEFINE r == [s EXCEPT !.phase = "hydrating"]
  <2>1. AfterSend(s) = r
    BY <1>1 DEF AfterSend
  <2>2. r \in ServeLoops /\ SentOn(r, s)
    BY <1>1 DEF ServeLoops, Phases, SentOn, Rest, Moved
  <2> QED
    BY <2>1, <2>2
<1>2. CASE s.phase \in {"answering", "hydrating"} /\ s.outbox = <<>>
  <2> DEFINE r == [s EXCEPT !.phase = "serving", !.hears = status # "notified"]
  <2>1. AfterSend(s) = r
    BY <1>2 DEF AfterSend, EnterLoop
  <2>2. r \in ServeLoops /\ SentOn(r, s)
    BY <1>2 DEF ServeLoops, Phases, SentOn, Rest, Moved
  <2> QED
    BY <2>1, <2>2
<1>3. CASE s.phase = "pumping" /\ Stopped
  <2> DEFINE r == [s EXCEPT !.phase = "closing", !.outbox = <<Revoked("stopped")>>]
  <2>1. AfterSend(s) = r
    BY <1>3 DEF AfterSend
  <2>2. <<Revoked("stopped")>> \in Seq(Messages)
    BY MessageType, Numbers DEF Revoked, Kinds, EventSets
  <2>3. r \in ServeLoops /\ Revokes(r, s)
    BY <1>3, <2>2 DEF ServeLoops, Phases, Revokes, Rest
  <2> QED
    BY <2>1, <2>3
<1>4. CASE s.phase = "pumping" /\ ~Stopped
  <2> DEFINE r == [s EXCEPT !.phase = "serving"]
  <2>1. AfterSend(s) = r
    BY <1>4 DEF AfterSend
  <2>2. r \in ServeLoops /\ SentOn(r, s)
    BY <1>4 DEF ServeLoops, Phases, SentOn, Rest, Moved
  <2> QED
    BY <2>1, <2>2
<1>5. CASE s.phase = "closing"
    BY <1>5, IdleType DEF AfterSend
<1>6. CASE \/ s.phase = "hydrating" /\ s.outbox # <<>>
           \/ s.phase \notin {"answering", "hydrating", "pumping", "closing"}
  <2>1. AfterSend(s) = s
    BY <1>6 DEF AfterSend
  <2>2. SentOn(s, s)
    BY <1>6 DEF SentOn, Rest, Moved
  <2> QED
    BY <2>1, <2>2
<1> QED
    BY <1>1, <1>2, <1>3, <1>4, <1>5, <1>6

\* The next message goes into the transport, and the loop goes on, revokes or is gone.
LEMMA SendDoes ==
    ASSUME TypeOK, NEW c \in Clients, Send(c)
    PROVE  /\ srv' \in [Clients -> ServeLoops] /\ Others(c)
           /\ srv[c].outbox # <<>> /\ Len(net[c]) < NetCap
           /\ net' = [net EXCEPT ![c] = Append(net[c], Head(srv[c].outbox))]
           /\ \/ /\ srv'[c].outbox = Tail(srv[c].outbox)
                 /\ Rest(srv'[c], srv[c]) /\ Moved(srv[c].phase, srv'[c].phase)
              \/ /\ srv[c].phase = "pumping" /\ Stopped /\ srv'[c].phase = "closing"
                 /\ srv'[c].outbox = <<Revoked("stopped")>> /\ Rest(srv'[c], srv[c])
              \/ srv[c].phase = "closing" /\ srv'[c] = Idle
<1> DEFINE s == [srv[c] EXCEPT !.outbox = Tail(srv[c].outbox)]
<1>1. srv \in [Clients -> ServeLoops] /\ srv[c] \in ServeLoops /\ net \in [Clients -> Seq(Messages)]
    BY DEF TypeOK
<1>2. srv[c].outbox \in Seq(Messages) /\ srv[c].outbox # <<>>
    BY <1>1 DEF ServeLoops, Send
<1>3. Tail(srv[c].outbox) \in Seq(Messages)
    BY <1>2
<1>4. s \in ServeLoops
    BY <1>1, <1>3 DEF ServeLoops
<1>5. s.outbox = Tail(srv[c].outbox) /\ Rest(s, srv[c]) /\ s.phase = srv[c].phase
    BY <1>1 DEF ServeLoops, Rest
<1>6. srv' = [srv EXCEPT ![c] = AfterSend(s)]
    BY DEF Send
<1> HIDE DEF s
<1>7. srv' \in [Clients -> ServeLoops] /\ srv'[c] = AfterSend(s) /\ OthersLoop(c)
    BY <1>1, <1>4, <1>6, LoopSet, AfterSendDoes DEF OthersLoop
<1>8. Others(c) /\ net' = [net EXCEPT ![c] = Append(net[c], Head(srv[c].outbox))] /\ Len(net[c]) < NetCap
    BY <1>1, <1>7 DEF Send, Others, Same, OthersLoop
<1> QED
    BY <1>2, <1>4, <1>5, <1>7, <1>8, AfterSendDoes DEF SentOn, Revokes, Rest

-----------------------------------------------------------------------------
(* What a message does to a view.                                           *)

Shows(w, v) == w.last_seq = v.last_seq /\ w.events = v.events /\ w.origin = v.origin
Applies(w, v, m) ==
    /\ m.seq = v.last_seq + 1 /\ w.last_seq = m.seq
    /\ w.events = v.events \cup m.events /\ w.origin = v.origin
Rebases(w, m) ==
    /\ w.last_seq = m.seq /\ w.events = m.events /\ w.origin = Cardinality(m.events) - m.seq

\* The connection is given up.
GivesUp(w, v) ==
    /\ w.phase \in {"lost", "ended"} /\ Shows(w, v)
    /\ w.phase = "lost" => w.tries < Attempts

\* The message is taken in.
TakesIn(w, v, m) ==
    \/ v.phase = "attaching" /\ m.kind = "attach_ok" /\ w.phase \in {"catching", "attached"} /\ Shows(w, v)
    \/ /\ v.phase = "catching" /\ m.kind = "event" /\ w.phase \in {"catching", "attached"}
       /\ Applies(w, v, m) \/ (m.seq <= v.last_seq /\ Shows(w, v))
    \/ v.phase = "catching" /\ m.kind = "snapshot" /\ w.phase = "attached" /\ Rebases(w, m)
    \/ /\ v.phase = "attached" /\ m.kind = "event" /\ w.phase = "attached"
       /\ Applies(w, v, m) \/ (m.seq # v.last_seq + 1 /\ Shows(w, v))
    \/ /\ v.phase = "attached" /\ m.kind = "snapshot" /\ w.phase = "attached"
       /\ \/ m.seq >= v.last_seq /\ Rebases(w, m)
          \/ m.seq < v.last_seq /\ Shows(w, v)

LEMMA FailedDoes ==
    ASSUME NEW v \in Views
    PROVE  Failed(v) \in Views /\ GivesUp(Failed(v), v)
    BY Numbers DEF Failed, Views, ViewPhases, GivesUp, Shows

LEMMA LostDoes ==
    ASSUME NEW v \in Views
    PROVE  Lost(v) \in Views /\ GivesUp(Lost(v), v)
<1>1. 0 \in 0 .. Attempts /\ 0 < Attempts
    BY Numbers
<1> QED
    BY <1>1 DEF Lost, Views, ViewPhases, GivesUp, Shows

LEMMA AttachedDoes ==
    ASSUME NEW v \in Views
    PROVE  Attached(v) \in Views /\ Attached(v).phase = "attached" /\ Shows(Attached(v), v)
<1>1. 0 \in 0 .. Attempts /\ 0 < Attempts
    BY Numbers
<1> QED
    BY <1>1 DEF Attached, Views, ViewPhases, Shows

LEMMA AppliedDoes ==
    ASSUME NEW v \in Views, NEW m \in Messages
    PROVE  /\ Applied(v, m) \in Views /\ Applied(v, m).phase = v.phase
           /\ \/ Applies(Applied(v, m), v, m)
              \/ m.seq # v.last_seq + 1 /\ Shows(Applied(v, m), v)
<1>1. m.seq \in Seqs /\ m.events \in EventSets /\ v.events \in EventSets
    BY MessageType DEF Views
<1>2. CASE m.seq = v.last_seq + 1
  <2> DEFINE w == [v EXCEPT !.last_seq = m.seq, !.events = v.events \cup m.events]
  <2>1. Applied(v, m) = w
    BY <1>2 DEF Applied
  <2>2. v.events \cup m.events \in EventSets
    BY <1>1 DEF EventSets
  <2>3. w \in Views /\ w.phase = v.phase
    BY <1>1, <2>2 DEF Views
  <2>4. Applies(w, v, m)
    BY <1>2 DEF Views, Applies
  <2> QED
    BY <2>1, <2>3, <2>4
<1>3. CASE m.seq # v.last_seq + 1
    BY <1>3 DEF Applied, Shows
<1> QED
    BY <1>2, <1>3

LEMMA RebasedDoes ==
    ASSUME NEW v \in Views, NEW m \in Messages, Cardinality(m.events) - m.seq \in Seqs
    PROVE  /\ Rebased(v, m) \in Views /\ Rebased(v, m).phase = v.phase
           /\ Rebases(Rebased(v, m), m)
<1>1. m.seq \in Seqs /\ m.events \in EventSets
    BY MessageType
<1> DEFINE o == Cardinality(m.events) - m.seq
           w == [v EXCEPT !.last_seq = m.seq, !.events = m.events, !.origin = o]
<1>2. Rebased(v, m) = w /\ o \in Seqs
    BY DEF Rebased
<1> HIDE DEF o
<1>3. w \in Views /\ w.phase = v.phase
    BY <1>1, <1>2 DEF Views
<1>4. w.last_seq = m.seq /\ w.events = m.events /\ w.origin = o
    BY DEF Views
<1> QED
    BY <1>2, <1>3, <1>4 DEF Rebases, o

LEMMA OnAttachOkDoes ==
    ASSUME NEW v \in Views, NEW m \in Messages, v.phase = "attaching"
    PROVE  /\ OnAttachOk(v, m) \in Views
           /\ GivesUp(OnAttachOk(v, m), v) \/ TakesIn(OnAttachOk(v, m), v, m)
<1>1. CASE m.kind # "attach_ok"
    BY <1>1, FailedDoes DEF OnAttachOk
<1>2. CASE m.kind = "attach_ok" /\ v.known /\ v.last_seq = m.seq
    BY <1>2, AttachedDoes DEF OnAttachOk, TakesIn
<1>3. CASE m.kind = "attach_ok" /\ ~(v.known /\ v.last_seq = m.seq)
  <2> DEFINE w == [v EXCEPT !.phase = "catching", !.expected = m.seq]
  <2>1. OnAttachOk(v, m) = w
    BY <1>3 DEF OnAttachOk
  <2>2. w \in Views /\ w.phase = "catching" /\ Shows(w, v)
    BY MessageType DEF Views, ViewPhases, Shows
  <2> QED
    BY <1>3, <2>1, <2>2 DEF TakesIn
<1> QED
    BY <1>1, <1>2, <1>3

LEMMA OnContentDoes ==
    ASSUME NEW v \in Views, NEW m \in Messages, v.phase = "catching",
           m.kind = "snapshot" => Cardinality(m.events) - m.seq \in Seqs
    PROVE  /\ OnContent(v, m) \in Views
           /\ GivesUp(OnContent(v, m), v) \/ TakesIn(OnContent(v, m), v, m)
<1>1. m.seq \in Nat /\ v.last_seq \in Nat
    BY MessageType, Numbers DEF Views
<1>2. CASE m.kind = "event" /\ ~Gap(v, m)
  <2>1. Applied(v, m) \in Views /\ Applied(v, m).phase = v.phase
    BY AppliedDoes
  <2>2. Applies(Applied(v, m), v, m) \/ (m.seq <= v.last_seq /\ Shows(Applied(v, m), v))
    BY <1>1, <1>2, AppliedDoes DEF Gap
  <2>3. OnContent(v, m) = Attached(Applied(v, m)) \/ OnContent(v, m) = Applied(v, m)
    BY <1>2 DEF OnContent
  <2>4. /\ Attached(Applied(v, m)) \in Views /\ Attached(Applied(v, m)).phase = "attached"
        /\ Shows(Attached(Applied(v, m)), Applied(v, m))
    BY <2>1, AttachedDoes
  <2>5. CASE OnContent(v, m) = Applied(v, m)
    BY <1>2, <2>1, <2>2, <2>5 DEF TakesIn
  <2>6. CASE OnContent(v, m) = Attached(Applied(v, m))
    BY <1>2, <2>2, <2>4, <2>6 DEF TakesIn, Shows, Applies
  <2> QED
    BY <2>3, <2>5, <2>6
<1>3. CASE m.kind = "snapshot" /\ m.seq = v.expected
  <2>1. OnContent(v, m) = Attached(Rebased(v, m))
    BY <1>3 DEF OnContent
  <2>2. Rebased(v, m) \in Views /\ Rebases(Rebased(v, m), m)
    BY <1>3, RebasedDoes
  <2>3. /\ Attached(Rebased(v, m)) \in Views /\ Attached(Rebased(v, m)).phase = "attached"
        /\ Shows(Attached(Rebased(v, m)), Rebased(v, m))
    BY <2>2, AttachedDoes
  <2> QED
    BY <1>3, <2>1, <2>2, <2>3 DEF TakesIn, Shows, Rebases
<1>4. CASE ~(m.kind = "event" /\ ~Gap(v, m)) /\ ~(m.kind = "snapshot" /\ m.seq = v.expected)
    BY <1>4, FailedDoes DEF OnContent
<1> QED
    BY <1>2, <1>3, <1>4

LEMMA OnMessageDoes ==
    ASSUME NEW v \in Views, NEW m \in Messages, v.phase = "attached",
           m.kind = "snapshot" => Cardinality(m.events) - m.seq \in Seqs
    PROVE  /\ OnMessage(v, m) \in Views
           /\ GivesUp(OnMessage(v, m), v) \/ TakesIn(OnMessage(v, m), v, m)
<1>1. m.seq \in Nat /\ v.last_seq \in Nat /\ m.kind \in Kinds
    BY MessageType, Numbers DEF Views
<1>2. CASE m.kind = "event"
    BY <1>2, AppliedDoes DEF OnMessage, TakesIn
<1>3. CASE m.kind = "snapshot" /\ m.seq < v.last_seq
    BY <1>3 DEF OnMessage, TakesIn, Shows
<1>4. CASE m.kind = "snapshot" /\ ~(m.seq < v.last_seq)
    BY <1>1, <1>4, RebasedDoes DEF OnMessage, TakesIn
<1>5. CASE m.kind = "stopped"
  <2> DEFINE w == [v EXCEPT !.phase = "ended"]
  <2>1. OnMessage(v, m) = w
    BY <1>5 DEF OnMessage
  <2>2. w \in Views /\ GivesUp(w, v)
    BY DEF Views, ViewPhases, GivesUp, Shows
  <2> QED
    BY <2>1, <2>2
<1>6. CASE m.kind \notin {"event", "snapshot", "stopped"}
    BY <1>6, LostDoes DEF OnMessage
<1> QED
    BY <1>2, <1>3, <1>4, <1>5, <1>6

\* The client's steps: it receives, loses its transport, connects or is refused.
Dropped(c) == srv'[c] = Idle /\ net'[c] = <<>> /\ requests'[c] = <<>>

LEMMA ReceiveDoes ==
    ASSUME TypeOK, NEW c \in Clients, Receive(c),
           Head(net[c]).kind = "snapshot" =>
               Cardinality(Head(net[c]).events) - Head(net[c]).seq \in Seqs
    PROVE  /\ net[c] # <<>> /\ Waiting(c) /\ Others(c)
           /\ srv' \in [Clients -> ServeLoops] /\ net' \in [Clients -> Seq(Messages)]
           /\ requests' \in [Clients -> Seq(Seqs)] /\ view' \in [Clients -> Views]
           /\ \/ GivesUp(view'[c], view[c]) /\ Dropped(c)
              \/ /\ TakesIn(view'[c], view[c], Head(net[c]))
                 /\ net'[c] = Tail(net[c]) /\ srv'[c] = srv[c]
                 /\ \/ requests'[c] = requests[c]
                    \/ /\ view[c].phase = "attached"
                       /\ requests'[c] = Append(requests[c], view[c].last_seq)
<1> DEFINE m == Head(net[c])
           w == CASE view[c].phase = "attaching" -> OnAttachOk(view[c], m)
                  [] view[c].phase = "catching" -> OnContent(view[c], m)
                  [] view[c].phase = "attached" -> OnMessage(view[c], m)
<1>1. /\ srv \in [Clients -> ServeLoops] /\ net \in [Clients -> Seq(Messages)]
      /\ requests \in [Clients -> Seq(Seqs)] /\ view \in [Clients -> Views]
    BY DEF TypeOK
<1>2. view[c] \in Views /\ net[c] \in Seq(Messages) /\ net[c] # <<>> /\ Waiting(c)
    BY <1>1 DEF Receive
<1>3. m \in Messages /\ Tail(net[c]) \in Seq(Messages)
    BY <1>2
<1>4. m.kind = "snapshot" => Cardinality(m.events) - m.seq \in Seqs
    OBVIOUS
<1>5. view' = [view EXCEPT ![c] = w]
    BY DEF Receive
<1> HIDE DEF m
<1>6. w \in Views /\ (GivesUp(w, view[c]) \/ TakesIn(w, view[c], m))
  <2>1. CASE view[c].phase = "attaching"
    BY <2>1, <1>2, <1>3, OnAttachOkDoes
  <2>2. CASE view[c].phase = "catching"
    BY <2>2, <1>2, <1>3, <1>4, OnContentDoes
  <2>3. CASE view[c].phase = "attached"
    BY <2>3, <1>2, <1>3, <1>4, OnMessageDoes
  <2> QED
    BY <1>2, <2>1, <2>2, <2>3 DEF Waiting
<1> HIDE DEF w
<1>7. view' \in [Clients -> Views] /\ view'[c] = w /\ \A d \in Clients : d # c => view'[d] = view[d]
    BY <1>1, <1>5, <1>6
<1>8. CASE GivesUp(w, view[c])
  <2>1. ~Waiting(c)'
    BY <1>7, <1>8 DEF Waiting, GivesUp
  <2>2. /\ net' = [net EXCEPT ![c] = <<>>] /\ requests' = [requests EXCEPT ![c] = <<>>]
        /\ srv' = [srv EXCEPT ![c] = Idle]
    BY <2>1 DEF Receive
  <2>3. /\ net' \in [Clients -> Seq(Messages)] /\ requests' \in [Clients -> Seq(Seqs)]
        /\ srv' \in [Clients -> ServeLoops] /\ Dropped(c)
        /\ \A d \in Clients : d # c => net'[d] = net[d] /\ requests'[d] = requests[d] /\ srv'[d] = srv[d]
    BY <1>1, <2>2, IdleType DEF Dropped
  <2> QED
    BY <1>2, <1>7, <1>8, <2>3 DEF Others, Same
<1>9. CASE TakesIn(w, view[c], m)
  <2>1. Waiting(c)'
    BY <1>7, <1>9 DEF Waiting, TakesIn
  <2>2. /\ net' = [net EXCEPT ![c] = Tail(net[c])] /\ srv' = srv
        /\ \/ requests' = requests
           \/ SeesGap(c) /\ requests' = [requests EXCEPT ![c] = Append(requests[c], view[c].last_seq)]
    BY <2>1 DEF Receive
  <2>3. net' \in [Clients -> Seq(Messages)] /\ net'[c] = Tail(net[c])
        /\ \A d \in Clients : d # c => net'[d] = net[d]
    BY <1>1, <1>3, <2>2
  <2>4. view[c].last_seq \in Seqs
    BY <1>2 DEF Views
  <2>5. Append(requests[c], view[c].last_seq) \in Seq(Seqs)
    BY <1>1, <2>4
  <2>6. /\ requests' \in [Clients -> Seq(Seqs)]
        /\ \A d \in Clients : d # c => requests'[d] = requests[d]
        /\ \/ requests'[c] = requests[c]
           \/ view[c].phase = "attached" /\ requests'[c] = Append(requests[c], view[c].last_seq)
    BY <1>1, <2>2, <2>5 DEF SeesGap
  <2> QED
    BY <1>1, <1>2, <1>7, <1>9, <2>2, <2>3, <2>6 DEF Others, Same, m
<1> QED
    BY <1>6, <1>8, <1>9

LEMMA LoseTransportDoes ==
    ASSUME TypeOK, NEW c \in Clients, LoseTransport(c)
    PROVE  /\ Others(c) /\ GivesUp(view'[c], view[c]) /\ Dropped(c)
           /\ srv' \in [Clients -> ServeLoops] /\ net' \in [Clients -> Seq(Messages)]
           /\ requests' \in [Clients -> Seq(Seqs)] /\ view' \in [Clients -> Views]
<1> DEFINE w == IF view[c].phase = "attached" THEN Lost(view[c]) ELSE Failed(view[c])
<1>1. /\ srv \in [Clients -> ServeLoops] /\ net \in [Clients -> Seq(Messages)]
      /\ requests \in [Clients -> Seq(Seqs)] /\ view \in [Clients -> Views]
    BY DEF TypeOK
<1>2. view' = [view EXCEPT ![c] = w]
    BY DEF LoseTransport
<1>3. w \in Views /\ GivesUp(w, view[c])
    BY <1>1, LostDoes, FailedDoes
<1> HIDE DEF w
<1>4. view' \in [Clients -> Views] /\ view'[c] = w /\ \A d \in Clients : d # c => view'[d] = view[d]
    BY <1>1, <1>2, <1>3
<1>5. /\ net' \in [Clients -> Seq(Messages)] /\ requests' \in [Clients -> Seq(Seqs)]
      /\ srv' \in [Clients -> ServeLoops] /\ Dropped(c)
      /\ \A d \in Clients : d # c => net'[d] = net[d] /\ requests'[d] = requests[d] /\ srv'[d] = srv[d]
    BY <1>1, IdleType DEF Dropped, LoseTransport
<1> QED
    BY <1>3, <1>4, <1>5 DEF Others, Same

LEMMA RefuseDoes ==
    ASSUME TypeOK, NEW c \in Clients, Refuse(c), view[c].tries < Attempts
    PROVE  /\ Others(c) /\ GivesUp(view'[c], view[c]) /\ view[c].phase \in {"new", "lost"}
           /\ view' \in [Clients -> Views]
<1> DEFINE n == view[c].tries + 1
           u == [view[c] EXCEPT !.tries = n]
<1>1. view \in [Clients -> Views] /\ view[c] \in Views
    BY DEF TypeOK
<1>2. n \in 0 .. Attempts
    BY <1>1, Numbers DEF Views
<1>3. view' = [view EXCEPT ![c] = Failed(u)]
    BY DEF Refuse
<1> HIDE DEF n
<1>4. u \in Views /\ Shows(u, view[c])
    BY <1>1, <1>2 DEF Views, Shows
<1> HIDE DEF u
<1>5. Failed(u) \in Views /\ GivesUp(Failed(u), view[c])
    BY <1>4, FailedDoes DEF GivesUp, Shows
<1>6. view' \in [Clients -> Views] /\ view'[c] = Failed(u)
      /\ \A d \in Clients : d # c => view'[d] = view[d]
    BY <1>1, <1>3, <1>5
<1> QED
    BY <1>5, <1>6 DEF Refuse, linkVars, Others, Same

LEMMA ConnectDoes ==
    ASSUME TypeOK, NEW c \in Clients, Connect(c), view[c].tries < Attempts
    PROVE  /\ srv' \in [Clients -> ServeLoops] /\ net' \in [Clients -> Seq(Messages)]
           /\ requests' \in [Clients -> Seq(Seqs)] /\ view' \in [Clients -> Views]
           /\ Others(c) /\ net'[c] = <<>> /\ requests'[c] = <<>>
           /\ view'[c].phase = "attaching" /\ Shows(view'[c], view[c])
           /\ srv'[c].phase = "admitted" /\ srv'[c].outbox = <<>> /\ srv'[c].queue = <<>>
           /\ ~srv'[c].subscribed /\ ~srv'[c].overflow /\ ~srv'[c].lagged
           /\ srv'[c].resume \in {NoResume, view[c].last_seq}
<1> DEFINE p == IF view[c].known THEN view[c].last_seq ELSE NoResume
           r == [Idle EXCEPT !.phase = "admitted", !.resume = p]
           n == view[c].tries + 1
           u == [view[c] EXCEPT !.phase = "attaching", !.tries = n]
<1>1. /\ srv \in [Clients -> ServeLoops] /\ net \in [Clients -> Seq(Messages)]
      /\ requests \in [Clients -> Seq(Seqs)] /\ view \in [Clients -> Views] /\ view[c] \in Views
    BY DEF TypeOK
<1>2. n \in 0 .. Attempts /\ p \in {NoResume, view[c].last_seq} /\ view[c].last_seq \in Seqs
    BY <1>1, Numbers DEF Views
<1>3. view' = [view EXCEPT ![c] = u] /\ srv' = [srv EXCEPT ![c] = r]
    BY <1>1 DEF Connect
<1> HIDE DEF n, p
<1>4. u \in Views /\ Shows(u, view[c]) /\ u.phase = "attaching"
    BY <1>1, <1>2 DEF Views, Shows, ViewPhases
<1>5. r \in ServeLoops
    BY <1>2, IdleType DEF ServeLoops, Phases
<1>6. /\ r.phase = "admitted" /\ r.outbox = <<>> /\ r.queue = <<>> /\ ~r.subscribed
      /\ ~r.overflow /\ ~r.lagged /\ r.resume = p
    BY DEF Idle
<1> HIDE DEF r, u
<1>7. view' \in [Clients -> Views] /\ view'[c] = u
      /\ \A d \in Clients : d # c => view'[d] = view[d]
    BY <1>1, <1>3, <1>4
<1>8. /\ net' \in [Clients -> Seq(Messages)] /\ requests' \in [Clients -> Seq(Seqs)]
      /\ net'[c] = <<>> /\ requests'[c] = <<>>
      /\ \A d \in Clients : d # c => net'[d] = net[d] /\ requests'[d] = requests[d]
    BY <1>1 DEF Connect
<1>9. srv' \in [Clients -> ServeLoops] /\ srv'[c] = r /\ OthersLoop(c)
    BY <1>1, <1>3, <1>5, LoopSet DEF OthersLoop
<1> QED
    BY <1>2, <1>4, <1>6, <1>7, <1>8, <1>9 DEF Others, Same, OthersLoop

-----------------------------------------------------------------------------
(* How the stream changes.                                                  *)

\* The types of what a connection has.
LEMMA Typed ==
    ASSUME TypeOK, NEW c \in Clients
    PROVE  /\ srv[c] \in ServeLoops /\ view[c] \in Views /\ net[c] \in Seq(Messages)
           /\ srv[c].queue \in Seq(Messages) /\ srv[c].outbox \in Seq(Messages)
           /\ Len(srv[c].queue) \in Nat /\ Len(srv[c].outbox) \in Nat
           /\ Len(net[c]) \in Nat /\ Len(requests[c]) \in Nat /\ requests[c] \in Seq(Seqs)
           /\ Stream(c) \in Seq(Messages) /\ Len(Stream(c)) \in Nat
           /\ Len(Stream(c)) = Len(net[c]) + Len(srv[c].outbox)
           /\ view[c].last_seq \in Nat /\ view[c].origin \in Nat /\ srv[c].watermark \in Nat
           /\ base \in Nat /\ sequence \in Nat /\ Upto(c) \in Int
<1>1. srv[c] \in ServeLoops /\ view[c] \in Views /\ net[c] \in Seq(Messages) /\ requests[c] \in Seq(Seqs)
    BY DEF TypeOK
<1>2. srv[c].queue \in Seq(Messages) /\ srv[c].outbox \in Seq(Messages)
    BY <1>1 DEF ServeLoops
<1>3. view[c].last_seq \in Nat /\ view[c].origin \in Nat /\ srv[c].watermark \in Nat
    BY <1>1, Numbers DEF Views, ServeLoops
<1>4. base \in Nat /\ sequence \in Nat
    BY Numbers DEF TypeOK
<1>5. Stream(c) \in Seq(Messages) /\ Len(Stream(c)) = Len(net[c]) + Len(srv[c].outbox)
    BY <1>1, <1>2 DEF Stream
<1>6. Upto(c) \in Int
    BY <1>4 DEF Upto
<1>7. /\ Len(srv[c].queue) \in Nat /\ Len(srv[c].outbox) \in Nat
      /\ Len(net[c]) \in Nat /\ Len(requests[c]) \in Nat
    BY <1>1, <1>2
<1>8. Len(Stream(c)) \in Nat
  <2> DEFINE S == Stream(c)
  <2>1. S \in Seq(Messages)
    BY <1>5
  <2> HIDE DEF S
  <2>2. Len(S) \in Nat
    BY <2>1
  <2> QED
    BY <2>2 DEF S
<1> QED
    BY <1>1, <1>2, <1>3, <1>4, <1>5, <1>6, <1>7, <1>8

\* The elements of a concatenation, of a tail and of an extended sequence.
LEMMA ConcatElements ==
    ASSUME NEW a \in Seq(Messages), NEW b \in Seq(Messages)
    PROVE  /\ Len(a \o b) = Len(a) + Len(b) /\ Len(a) \in Nat /\ Len(b) \in Nat
           /\ \A i \in 1 .. Len(a) : (a \o b)[i] = a[i]
           /\ \A i \in 1 .. Len(b) : (a \o b)[Len(a) + i] = b[i]
    OBVIOUS

LEMMA TailElements ==
    ASSUME NEW a \in Seq(Messages), a # <<>>
    PROVE  /\ Len(a) > 0 /\ Tail(a) \in Seq(Messages) /\ Len(Tail(a)) = Len(a) - 1
           /\ Head(a) = a[1] /\ Head(a) \in Messages
           /\ \A i \in 1 .. Len(Tail(a)) : Tail(a)[i] = a[i + 1]
    OBVIOUS

LEMMA AppendElements ==
    ASSUME NEW a \in Seq(Messages), NEW m \in Messages
    PROVE  /\ Append(a, m) \in Seq(Messages) /\ Len(Append(a, m)) = Len(a) + 1
           /\ \A i \in 1 .. Len(a) : Append(a, m)[i] = a[i]
           /\ Append(a, m)[Len(a) + 1] = m
    OBVIOUS

\* The messages of T are added to the stream.
Grows(c, T) ==
    /\ Len(Stream(c)') = Len(Stream(c)) + Len(T)
    /\ \A i \in 1 .. Len(Stream(c)) : Stream(c)'[i] = Stream(c)[i]
    /\ \A i \in 1 .. Len(T) : Stream(c)'[Len(Stream(c)) + i] = T[i]

\* The first message of the stream is received.
Falls(c) ==
    /\ Len(Stream(c)) > 0 /\ Len(Stream(c)') = Len(Stream(c)) - 1
    /\ \A i \in 1 .. Len(Stream(c)') : Stream(c)'[i] = Stream(c)[i + 1]

LEMMA FallsIf ==
    ASSUME TypeOK, NEW c \in Clients, net[c] # <<>>, net'[c] = Tail(net[c]), srv'[c] = srv[c]
    PROVE  Falls(c) /\ Stream(c)[1] = Head(net[c])
<1>1. net[c] \in Seq(Messages) /\ srv[c].outbox \in Seq(Messages)
    BY Typed
<1> DEFINE a == net[c]
           o == srv[c].outbox
           t == Tail(net[c])
<1>2. Stream(c) = a \o o /\ Stream(c)' = t \o o
    BY DEF Stream
<1>3. /\ Len(a) > 0 /\ t \in Seq(Messages) /\ Len(t) = Len(a) - 1 /\ Head(net[c]) = a[1]
      /\ \A i \in 1 .. Len(t) : t[i] = a[i + 1]
    BY <1>1, TailElements
<1>4. /\ Len(a \o o) = Len(a) + Len(o) /\ Len(a) \in Nat /\ Len(o) \in Nat
      /\ \A i \in 1 .. Len(a) : (a \o o)[i] = a[i]
      /\ \A i \in 1 .. Len(o) : (a \o o)[Len(a) + i] = o[i]
    BY <1>1, ConcatElements
<1>5. /\ Len(t \o o) = Len(t) + Len(o) /\ Len(t) \in Nat
      /\ \A i \in 1 .. Len(t) : (t \o o)[i] = t[i]
      /\ \A i \in 1 .. Len(o) : (t \o o)[Len(t) + i] = o[i]
    BY <1>1, <1>3, ConcatElements
<1> DEFINE S == a \o o
           R == t \o o
<1> HIDE DEF a, o, t, S, R
<1>6. Len(R) \in Nat /\ Len(R) = Len(t) + Len(o) /\ Len(t) \in Nat
    BY <1>4, <1>5 DEF R
<1>7. \A i \in 1 .. Len(R) : R[i] = S[i + 1]
  <2> TAKE i \in 1 .. Len(R)
  <2>1. CASE i <= Len(t)
    BY <1>3, <1>4, <1>5, <1>6, <2>1 DEF S, R
  <2>2. CASE i > Len(t)
    <3> DEFINE k == i - Len(t)
    <3>1. k \in 1 .. Len(o) /\ i = Len(t) + k /\ i + 1 = Len(a) + k
      BY <1>3, <1>4, <1>6, <2>2
    <3> HIDE DEF k
    <3> QED
      BY <1>4, <1>5, <3>1 DEF S, R
  <2> QED
    BY <1>6, <2>1, <2>2
<1>8. Len(S) > 0 /\ Len(R) = Len(S) - 1 /\ S[1] = a[1]
    BY <1>3, <1>4, <1>6 DEF S
<1> QED
    BY <1>2, <1>3, <1>7, <1>8 DEF Falls, S, R

LEMMA GrowsIf ==
    ASSUME TypeOK, NEW c \in Clients, NEW T \in Seq(Messages), srv[c].outbox = <<>>,
           net'[c] = net[c], srv'[c].outbox = T
    PROVE  Grows(c, T)
<1>1. net[c] \in Seq(Messages)
    BY Typed
<1>2. Stream(c) = net[c] \o <<>> /\ Stream(c)' = net[c] \o T
    BY DEF Stream
<1> QED
    BY <1>1, <1>2 DEF Grows

LEMMA StaysIf ==
    ASSUME TypeOK, NEW c \in Clients, net'[c] = net[c], srv'[c].outbox = srv[c].outbox
    PROVE  Grows(c, <<>>)
<1>1. Stream(c)' = Stream(c) /\ Len(Stream(c)) \in Nat
    BY Typed DEF Stream
<1> QED
    BY <1>1 DEF Grows

LEMMA SendsIf ==
    ASSUME TypeOK, NEW c \in Clients, srv[c].outbox # <<>>, NEW T \in Seq(Messages),
           \/ T = <<>> /\ srv'[c].outbox = Tail(srv[c].outbox)
           \/ Len(srv[c].outbox) = 1 /\ srv'[c].outbox = T,
           net'[c] = Append(net[c], Head(srv[c].outbox))
    PROVE  Grows(c, T)
<1>1. net[c] \in Seq(Messages) /\ srv[c].outbox \in Seq(Messages)
    BY Typed
<1> DEFINE a == net[c]
           o == srv[c].outbox
           b == Append(a, Head(o))
           p == srv'[c].outbox
<1>2. Stream(c) = a \o o /\ Stream(c)' = b \o p
    BY DEF Stream
<1>3. /\ Len(o) > 0 /\ Tail(o) \in Seq(Messages) /\ Len(Tail(o)) = Len(o) - 1
      /\ Head(o) = o[1] /\ Head(o) \in Messages /\ \A i \in 1 .. Len(Tail(o)) : Tail(o)[i] = o[i + 1]
    BY <1>1, TailElements
<1>4. /\ b \in Seq(Messages) /\ Len(b) = Len(a) + 1 /\ b[Len(a) + 1] = o[1]
      /\ \A i \in 1 .. Len(a) : b[i] = a[i]
    BY <1>1, <1>3, AppendElements
<1>5. /\ Len(a \o o) = Len(a) + Len(o) /\ Len(a) \in Nat /\ Len(o) \in Nat
      /\ \A i \in 1 .. Len(a) : (a \o o)[i] = a[i]
      /\ \A i \in 1 .. Len(o) : (a \o o)[Len(a) + i] = o[i]
    BY <1>1, ConcatElements
<1>6. p \in Seq(Messages) /\ Len(T) \in Nat
  <2>1. p = Tail(o) \/ p = T
    OBVIOUS
  <2>2. Tail(o) \in Seq(Messages) /\ T \in Seq(Messages)
    BY <1>3
  <2>3. Len(T) \in Nat
    BY <2>2
  <2> HIDE DEF o, p
  <2> QED
    BY <2>1, <2>2, <2>3
<1>7. /\ Len(b \o p) = Len(b) + Len(p) /\ Len(p) \in Nat
      /\ \A i \in 1 .. Len(b) : (b \o p)[i] = b[i]
      /\ \A i \in 1 .. Len(p) : (b \o p)[Len(b) + i] = p[i]
    BY <1>4, <1>6, ConcatElements
<1> DEFINE S == a \o o
           R == b \o p
           t == Tail(o)
<1>8. (T = <<>> /\ p = t) \/ (Len(o) = 1 /\ p = T)
    OBVIOUS
<1> HIDE DEF a, o, b, p, t, S, R
<1>9. \A i \in 1 .. Len(a) : R[i] = S[i]
    BY <1>4, <1>5, <1>7 DEF S, R
<1>10. R[Len(a) + 1] = S[Len(a) + 1]
    BY <1>3, <1>4, <1>5, <1>7 DEF S, R
<1>11. CASE T = <<>> /\ p = t
  <2>1. Len(t) = Len(o) - 1 /\ \A i \in 1 .. Len(t) : t[i] = o[i + 1]
    BY <1>3 DEF t
  <2>2. \A i \in 1 .. Len(t) : R[Len(a) + 1 + i] = S[Len(a) + 1 + i]
    <3> TAKE i \in 1 .. Len(t)
    <3>1. R[Len(b) + i] = t[i] /\ S[Len(a) + (i + 1)] = o[i + 1]
      BY <1>3, <1>5, <1>7, <1>11, <2>1 DEF S, R
    <3>2. Len(b) + i = Len(a) + 1 + i /\ Len(a) + (i + 1) = Len(a) + 1 + i
      BY <1>4, <1>5, <2>1
    <3> QED
      BY <2>1, <3>1, <3>2
  <2>3. Len(R) = Len(S)
    BY <1>4, <1>5, <1>7, <1>11, <2>1 DEF S, R
  <2>4. \A i \in 1 .. Len(S) : R[i] = S[i]
    <3> TAKE i \in 1 .. Len(S)
    <3>1. CASE i <= Len(a) + 1
      BY <1>5, <1>9, <1>10, <3>1
    <3>2. CASE i > Len(a) + 1
      <4> DEFINE k == i - (Len(a) + 1)
      <4>1. k \in 1 .. Len(t) /\ i = Len(a) + 1 + k
        BY <1>5, <2>1, <3>2 DEF S
      <4> HIDE DEF k
      <4> QED
        BY <2>2, <4>1
    <3> QED
      BY <1>5, <3>1, <3>2 DEF S
  <2> QED
    BY <1>2, <1>5, <1>11, <2>3, <2>4 DEF Grows, S, R
<1>12. CASE Len(o) = 1 /\ p = T
  <2>1. Len(S) = Len(a) + 1 /\ Len(S) = Len(b) /\ Len(R) = Len(S) + Len(T)
    BY <1>4, <1>5, <1>7, <1>12 DEF S, R
  <2>2. \A i \in 1 .. Len(S) : R[i] = S[i]
    <3> TAKE i \in 1 .. Len(S)
    <3>1. i \in 1 .. Len(a) \/ i = Len(a) + 1
      BY <1>5, <2>1
    <3> QED
      BY <1>9, <1>10, <3>1
  <2>3. \A i \in 1 .. Len(T) : R[Len(S) + i] = T[i]
    BY <1>7, <1>12, <2>1 DEF R
  <2> QED
    BY <1>2, <2>1, <2>2, <2>3 DEF Grows, S, R
<1> QED
    BY <1>8, <1>11, <1>12

\* A stream that grows stays of one core, and of its shape.
LEMMA GrowCore ==
    ASSUME TypeOK, NEW c \in Clients, CoreInv(c), NEW T \in Seq(Messages), Grows(c, T),
           view'[c] = view[c], base' = base, \A i \in 1 .. Len(T) : OfBase(T[i]),
           \/ T = <<>> /\ (srv'[c].phase # "none" => srv[c].phase # "none")
           \/ srv[c].phase # "none"
    PROVE  CoreInv(c)'
<1>1. Len(Stream(c)) \in Nat /\ Len(T) \in Nat
    BY Typed
<1>2. \A m : OfBase(m)' <=> OfBase(m)
    BY DEF OfBase, IsEvent
<1> DEFINE S == Stream(c)
           R == Stream(c)'
<1>3. /\ Len(R) = Len(S) + Len(T) /\ \A i \in 1 .. Len(S) : R[i] = S[i]
      /\ \A i \in 1 .. Len(T) : R[Len(S) + i] = T[i]
    BY DEF Grows
<1> HIDE DEF S, R
<1>4. ASSUME \A i \in 1 .. Len(S) : OfBase(S[i])
      PROVE  \A i \in 1 .. Len(R) : OfBase(R[i])
  <2> TAKE i \in 1 .. Len(R)
  <2>1. CASE i <= Len(S)
    BY <1>1, <1>3, <1>4, <2>1 DEF S
  <2>2. CASE i > Len(S)
    <3>1. i - Len(S) \in 1 .. Len(T) /\ i = Len(S) + (i - Len(S))
      BY <1>1, <1>3, <2>2 DEF S
    <3> QED
      BY <1>3, <3>1
  <2> QED
    BY <1>1, <2>1, <2>2 DEF S
<1>5. CASE \A i \in 1 .. Len(S) : OfBase(S[i])
    BY <1>2, <1>4, <1>5 DEF CoreInv, S, R
<1>6. CASE T = <<>> /\ srv[c].phase = "none"
  <2>1. Len(R) = Len(S) /\ \A i \in 1 .. Len(S) : R[i] = S[i]
    BY <1>1, <1>3, <1>6 DEF S
  <2> QED
    BY <1>2, <1>6, <2>1 DEF CoreInv, S, R
<1> QED
    BY <1>5, <1>6 DEF CoreInv, S

LEMMA GrowReached ==
    ASSUME TypeOK, NEW c \in Clients, NEW T \in Seq(Messages), Grows(c, T), view'[c] = view[c],
           view[c].phase = "attached" \/ \A k \in 1 .. Len(T) : T[k].kind # "snapshot"
    PROVE  /\ \A n : Shown(c, n) => Shown(c, n)'
           /\ \A n : Reached(c, n) => Reached(c, n)'
           /\ \A n : \A k \in 1 .. Len(T) : Carries(T[k], n) => Reached(c, n)'
<1> DEFINE S == Stream(c)
           R == Stream(c)'
<1>1. Len(S) \in Nat /\ Len(T) \in Nat
    BY Typed
<1>2. /\ Len(R) = Len(S) + Len(T) /\ \A i \in 1 .. Len(S) : R[i] = S[i]
      /\ \A i \in 1 .. Len(T) : R[Len(S) + i] = T[i]
    BY DEF Grows
<1> HIDE DEF S, R
<1>3. /\ \A j \in 1 .. Len(S) : j \in 1 .. Len(R) /\ R[j] = S[j]
      /\ \A k \in 1 .. Len(T) : Len(S) + k \in 1 .. Len(R) /\ R[Len(S) + k] = T[k]
    BY <1>1, <1>2
<1>4. \A i \in 1 .. Len(R) : i \in 1 .. Len(S) \/ (i - Len(S) \in 1 .. Len(T) /\ i = Len(S) + (i - Len(S)))
    BY <1>1, <1>2
<1>5. \A n : Shown(c, n) => Shown(c, n)'
  <2>1. ASSUME \A i \in 1 .. Len(S) : S[i].kind # "snapshot",
               \A k \in 1 .. Len(T) : T[k].kind # "snapshot"
        PROVE  \A i \in 1 .. Len(R) : R[i].kind # "snapshot"
    <3> TAKE i \in 1 .. Len(R)
    <3>1. CASE i \in 1 .. Len(S)
      BY <1>3, <2>1, <3>1
    <3>2. CASE i - Len(S) \in 1 .. Len(T) /\ i = Len(S) + (i - Len(S))
      <4> DEFINE k == i - Len(S)
      <4>1. k \in 1 .. Len(T) /\ i = Len(S) + k
        BY <3>2
      <4> HIDE DEF k
      <4> QED
        BY <1>3, <2>1, <4>1
    <3> QED
      BY <1>4, <3>1, <3>2
  <2> QED
    BY <2>1 DEF Shown, S, R
<1>6. \A n : (\E j \in 1 .. Len(S) : Carries(S[j], n)) => \E j \in 1 .. Len(R) : Carries(R[j], n)
    BY <1>3
<1>7. \A n : \A k \in 1 .. Len(T) : Carries(T[k], n) => \E j \in 1 .. Len(R) : Carries(R[j], n)
    BY <1>3
<1>8. \A m, n : Carries(m, n)' <=> Carries(m, n)
    BY DEF Carries
<1> QED
    BY <1>5, <1>6, <1>7, <1>8 DEF Reached, S, R

LEMMA GrowClosed ==
    ASSUME TypeOK, NEW c \in Clients, Closed(c), NEW T \in Seq(Messages), Grows(c, T),
           view'[c] = view[c],
           view[c].phase = "attached" \/ \A k \in 1 .. Len(T) : T[k].kind # "snapshot",
           \A k \in 1 .. Len(T) : Content(T[k]) => \A n \in 1 .. T[k].seq :
               Reached(c, n) \/ \E j \in 1 .. k : Carries(T[j], n)
    PROVE  Closed(c)'
<1> DEFINE S == Stream(c)
           R == Stream(c)'
<1>1. Len(S) \in Nat /\ Len(T) \in Nat
    BY Typed
<1>2. /\ Len(R) = Len(S) + Len(T) /\ \A i \in 1 .. Len(S) : R[i] = S[i]
      /\ \A i \in 1 .. Len(T) : R[Len(S) + i] = T[i]
    BY DEF Grows
<1>3. \A n : Shown(c, n) => Shown(c, n)'
    BY GrowReached
<1>4. \A i \in 1 .. Len(S) : Content(S[i]) => \A n \in 1 .. S[i].seq :
          Shown(c, n) \/ \E j \in 1 .. i : Carries(S[j], n)
    BY DEF Closed
<1>5. \A n : Reached(c, n) => Shown(c, n) \/ \E j \in 1 .. Len(S) : Carries(S[j], n)
    BY DEF Reached
<1> HIDE DEF S, R
<1>6. \A i \in 1 .. Len(R) : Content(R[i]) => \A n \in 1 .. R[i].seq :
          Shown(c, n)' \/ \E j \in 1 .. i : Carries(R[j], n)
  <2> SUFFICES ASSUME NEW i \in 1 .. Len(R), Content(R[i]), NEW n \in 1 .. R[i].seq, ~Shown(c, n)'
               PROVE  \E j \in 1 .. i : Carries(R[j], n)
    OBVIOUS
  <2>1. CASE i <= Len(S)
    <3>1. i \in 1 .. Len(S) /\ R[i] = S[i]
      BY <1>1, <1>2, <2>1
    <3>2. PICK j \in 1 .. i : Carries(S[j], n)
      BY <1>3, <1>4, <3>1
    <3>3. j \in 1 .. Len(S)
      BY <1>1, <3>1, <3>2
    <3> QED
      BY <1>2, <3>2, <3>3
  <2>2. CASE i > Len(S)
    <3> DEFINE k == i - Len(S)
    <3>1. k \in 1 .. Len(T) /\ i = Len(S) + k
      BY <1>1, <1>2, <2>2
    <3>2. R[i] = T[k]
      BY <1>2, <3>1
    <3> HIDE DEF k
    <3>3. CASE Reached(c, n)
      <4>1. PICK j \in 1 .. Len(S) : Carries(S[j], n)
        BY <1>3, <1>5, <3>3
      <4>2. j \in 1 .. i /\ R[j] = S[j]
        BY <1>1, <1>2, <2>2, <4>1
      <4> QED
        BY <4>1, <4>2
    <3>4. CASE ~Reached(c, n)
      <4>1. PICK j \in 1 .. k : Carries(T[j], n)
        BY <3>1, <3>2, <3>4
      <4>2. Len(S) + j \in 1 .. i /\ j \in 1 .. Len(T)
        BY <1>1, <3>1, <4>1
      <4>3. R[Len(S) + j] = T[j]
        BY <1>2, <4>2
      <4> QED
        BY <4>1, <4>2, <4>3
    <3> QED
      BY <3>3, <3>4
  <2> QED
    BY <1>1, <1>2, <2>1, <2>2
<1>7. (\A m, n : Carries(m, n)' <=> Carries(m, n)) /\ \A m : Content(m)' <=> Content(m)
    BY DEF Carries, Content
<1> QED
    BY <1>6, <1>7 DEF Closed, S, R

-----------------------------------------------------------------------------
(* A message is received.                                                   *)

\* A message that is taken in leaves no gap behind: what it carried is shown.
LEMMA TakenIsShown ==
    ASSUME TypeOK, NEW c \in Clients, Falls(c), ShapeInv(c), Closed(c),
           Len(Stream(c)) > 0 => /\ Stream(c)[1] \in Messages
                                 /\ Stream(c)[1].kind = "event" => Stream(c)[1].seq > 0,
           view' \in [Clients -> Views], TakesIn(view'[c], view[c], Stream(c)[1])
    PROVE  /\ \A n \in Int : Shown(c, n) => Shown(c, n)'
           /\ \A n \in Int : Carries(Stream(c)[1], n) => Shown(c, n)'
<1> DEFINE S == Stream(c)
           R == Stream(c)'
           m == Stream(c)[1]
           v == view[c]
           w == view'[c]
<1>1. /\ Len(S) \in Nat /\ Len(S) > 0 /\ Len(R) = Len(S) - 1
      /\ \A i \in 1 .. Len(R) : R[i] = S[i + 1]
    BY Typed DEF Falls
<1>2. v.last_seq \in Nat /\ w.last_seq \in Nat /\ m.seq \in Nat
    BY <1>1, Typed, MessageType, Numbers DEF Views
<1>3. TakesIn(w, v, m) /\ (m.kind = "event" => m.seq > 0)
    BY <1>1
\* An event is never ahead of what is shown.
<1>4. m.kind = "event" => m.seq <= v.last_seq + 1
  <2> SUFFICES ASSUME m.kind = "event", m.seq > v.last_seq + 1 PROVE FALSE
    BY <1>2
  <2>1. m.seq - 1 \in 1 .. m.seq /\ Content(m) /\ 1 \in 1 .. Len(S)
    BY <1>1, <1>2 DEF Content
  <2>2. Shown(c, m.seq - 1) \/ \E j \in 1 .. 1 : Carries(S[j], m.seq - 1)
    BY <2>1 DEF Closed
  <2>3. ~Shown(c, m.seq - 1)
    BY <1>2 DEF Shown
  <2>4. \A j \in 1 .. 1 : j = 1
    OBVIOUS
  <2> QED
    BY <1>2, <2>2, <2>3, <2>4 DEF Carries
<1>5. (\A i \in 1 .. Len(S) : S[i].kind # "snapshot") => \A i \in 1 .. Len(R) : R[i].kind # "snapshot"
    BY <1>1
<1>6. v.phase = "catching" => \A i \in 1 .. Len(R) : R[i].kind # "snapshot"
  <2>1. \A i \in 1 .. Len(R) : i + 1 \in 2 .. Len(S)
    BY <1>1
  <2> QED
    BY <1>1, <2>1 DEF ShapeInv
<1>7. \A n : Shown(c, n) <=>
          n <= v.last_seq /\ (v.phase = "attached" \/ \A i \in 1 .. Len(S) : S[i].kind # "snapshot")
    BY DEF Shown
<1>8. \A n : Shown(c, n)' <=>
          n <= w.last_seq /\ (w.phase = "attached" \/ \A i \in 1 .. Len(R) : R[i].kind # "snapshot")
    BY DEF Shown
<1>9. 1 \in 1 .. Len(S) /\ m = S[1]
    BY <1>1
<1> DEFINE none == \A i \in 1 .. Len(S) : S[i].kind # "snapshot"
           left == \A i \in 1 .. Len(R) : R[i].kind # "snapshot"
<1>10. (m.kind = "snapshot" => ~none) /\ (none => left) /\ (v.phase = "catching" => left)
    BY <1>5, <1>6, <1>9
<1>11. \A n \in Int : Carries(m, n) <=> (m.kind = "event" /\ m.seq = n) \/ (m.kind = "snapshot" /\ n <= m.seq)
    BY DEF Carries
<1> HIDE DEF none, left, m, v, w
<1>12. /\ w.last_seq >= v.last_seq \/ (v.phase = "catching" /\ m.kind = "snapshot")
       /\ w.phase = "attached" \/ (w.phase = "catching" /\ v.phase \in {"attaching", "catching"})
       /\ m.kind \in {"event", "snapshot"} =>
            m.seq <= w.last_seq /\ (w.phase = "attached" \/ v.phase = "catching")
       /\ v.phase = "attached" => w.phase = "attached"
    BY <1>2, <1>3, <1>4 DEF TakesIn, Shows, Applies, Rebases
<1>13. ASSUME NEW n \in Int, Shown(c, n) PROVE Shown(c, n)'
    BY <1>2, <1>7, <1>8, <1>10, <1>12, <1>13 DEF none, left
<1>14. ASSUME NEW n \in Int, Carries(m, n) PROVE Shown(c, n)'
    BY <1>2, <1>8, <1>10, <1>11, <1>12, <1>14 DEF left
<1> QED
    BY <1>13, <1>14 DEF m

\* What was closed or reached stays so when the first message is taken in.
LEMMA FallClosed ==
    ASSUME TypeOK, NEW c \in Clients, Falls(c), Closed(c),
           \A i \in 1 .. Len(Stream(c)) : Stream(c)[i].seq \in Nat,
           \A n \in Int : Shown(c, n) => Shown(c, n)',
           \A n \in Int : Carries(Stream(c)[1], n) => Shown(c, n)'
    PROVE  Closed(c)' /\ \A n \in Int : Reached(c, n) => Reached(c, n)'
<1> DEFINE S == Stream(c)
           R == Stream(c)'
<1>1. /\ Len(S) \in Nat /\ Len(S) > 0 /\ Len(R) = Len(S) - 1
      /\ \A i \in 1 .. Len(R) : R[i] = S[i + 1]
    BY Typed DEF Falls
<1>2. \A i \in 1 .. Len(S) : Content(S[i]) => \A n \in 1 .. S[i].seq :
          Shown(c, n) \/ \E j \in 1 .. i : Carries(S[j], n)
    BY DEF Closed
<1>3. \A n \in Int : Carries(S[1], n) => Shown(c, n)'
    OBVIOUS
<1>4. \A n : Reached(c, n) => Shown(c, n) \/ \E j \in 1 .. Len(S) : Carries(S[j], n)
    BY DEF Reached
<1>5. \A i \in 1 .. Len(S) : S[i].seq \in Nat
    OBVIOUS
<1> HIDE DEF S, R
\* A message that is not the first is still in the stream, one place earlier.
<1>6. ASSUME NEW n \in Int, NEW i \in 1 .. Len(S), NEW j \in 1 .. i, Carries(S[j], n), ~Shown(c, n)'
      PROVE  i > 1 /\ \E k \in 1 .. (i - 1) : Carries(R[k], n)
  <2>1. j # 1
    BY <1>3, <1>6
  <2>2. j - 1 \in 1 .. (i - 1) /\ j - 1 \in 1 .. Len(R) /\ (j - 1) + 1 = j /\ i > 1
    BY <1>1, <2>1
  <2>3. R[j - 1] = S[j]
    BY <1>1, <2>2
  <2> QED
    BY <1>6, <2>2, <2>3
<1>7. \A i \in 1 .. Len(R) : Content(R[i]) => \A n \in 1 .. R[i].seq :
          Shown(c, n)' \/ \E j \in 1 .. i : Carries(R[j], n)
  <2> SUFFICES ASSUME NEW i \in 1 .. Len(R), Content(R[i]), NEW n \in 1 .. R[i].seq, ~Shown(c, n)'
               PROVE  \E j \in 1 .. i : Carries(R[j], n)
    OBVIOUS
  <2> DEFINE h == i + 1
  <2>1. h \in 1 .. Len(S) /\ R[i] = S[h] /\ h - 1 = i
    BY <1>1
  <2> HIDE DEF h
  <2>2. n \in Int /\ n \in 1 .. S[h].seq
    BY <1>5, <2>1
  <2>3. ~Shown(c, n)
    BY <2>2
  <2>4. PICK j \in 1 .. h : Carries(S[j], n)
    BY <1>2, <2>1, <2>2, <2>3
  <2> QED
    BY <1>6, <2>1, <2>2, <2>4
<1>8. \A n \in Int : Reached(c, n) => Shown(c, n)' \/ \E j \in 1 .. Len(R) : Carries(R[j], n)
  <2> SUFFICES ASSUME NEW n \in Int, Reached(c, n), ~Shown(c, n)'
               PROVE  \E j \in 1 .. Len(R) : Carries(R[j], n)
    OBVIOUS
  <2>1. PICK j \in 1 .. Len(S) : Carries(S[j], n)
    BY <1>4
  <2>2. Len(S) \in 1 .. Len(S) /\ Len(S) - 1 = Len(R)
    BY <1>1
  <2> QED
    BY <1>6, <2>1, <2>2
<1>9. (\A m, n : Carries(m, n)' <=> Carries(m, n)) /\ \A m : Content(m)' <=> Content(m)
    BY DEF Carries, Content
<1> QED
    BY <1>7, <1>8, <1>9 DEF Closed, Reached, S, R

-----------------------------------------------------------------------------
(* What the router retains.                                                 *)

\* What replay_since gives out is exactly what came after last_seen_seq.
LEMMA ReplayExact ==
    ASSUME TypeOK, RingInv, NEW last \in Nat, ReplayAvailable(last)
    PROVE  /\ last <= sequence /\ Len(ReplayEvents(last)) = sequence - last
           /\ \A i \in 1 .. Len(ReplayEvents(last)) : ReplayEvents(last)[i] = Event(last + i)
<1> DEFINE r == replay
           n == Len(replay)
           kept == {i \in 1 .. n : r[i].seq > last}
           k == sequence - last
<1>1. r \in Seq(Messages) /\ n \in Nat /\ sequence \in Nat /\ n = Len(r)
    BY Numbers DEF TypeOK
<1>2. n <= sequence /\ \A i \in 1 .. n : r[i] = Event(sequence - n + i)
    BY DEF RingInv
<1>3. \A i \in 1 .. n : r[i].seq = sequence - n + i
  <2>1. \A s : Event(s).seq = s
    BY MessageFields DEF Event
  <2> QED
    BY <1>2, <2>1
<1>4. k \in Nat /\ k <= n
  <2>1. CASE last = sequence
    BY <1>1, <2>1
  <2>2. CASE last < sequence /\ r # <<>> /\ last + 1 >= Head(r).seq
    <3>1. n > 0 /\ Head(r) = r[1] /\ 1 \in 1 .. n
      BY <1>1, <2>2, TailElements
    <3>2. Head(r).seq = sequence - n + 1
      BY <1>3, <3>1
    <3> QED
      BY <1>1, <2>2, <3>2
  <2> QED
    BY <2>1, <2>2 DEF ReplayAvailable
<1>5. last = sequence - k
    BY <1>1, <1>4
<1> HIDE DEF k, r
<1>6. kept = (n - k + 1) .. n
  <2>1. \A i \in 1 .. n : r[i].seq > last <=> i >= n - k + 1
    BY <1>1, <1>3, <1>4, <1>5
  <2>2. \A i : i \in (n - k + 1) .. n <=> i \in 1 .. n /\ i >= n - k + 1
    BY <1>1, <1>4
  <2> QED
    BY <2>1, <2>2
<1>7. Cardinality(kept) = k
  <2>1. n - k + 1 \in Int /\ n \in Int
    BY <1>1, <1>4
  <2>2. Cardinality((n - k + 1) .. n) = IF n - k + 1 > n THEN 0 ELSE n - (n - k + 1) + 1
    BY <2>1, FS_Interval
  <2>3. (IF n - k + 1 > n THEN 0 ELSE n - (n - k + 1) + 1) = k
    BY <1>1, <1>4
  <2> QED
    BY <1>6, <2>2, <2>3
<1>8. ReplayEvents(last) = SubSeq(r, n - k + 1, n)
    BY <1>7 DEF ReplayEvents, r
<1> HIDE DEF n, kept
<1>9. /\ Len(SubSeq(r, n - k + 1, n)) = k
      /\ \A i \in 1 .. k : SubSeq(r, n - k + 1, n)[i] = r[n - k + i]
    BY <1>1, <1>4
<1>10. \A i \in 1 .. k : n - k + i \in 1 .. n /\ sequence - n + (n - k + i) = last + i
    BY <1>1, <1>4, <1>5
<1>11. \A i \in 1 .. k : r[n - k + i] = Event(last + i)
  <2> TAKE i \in 1 .. k
  <2> DEFINE h == n - k + i
  <2>1. h \in 1 .. n /\ sequence - n + h = last + i
    BY <1>10
  <2> HIDE DEF h
  <2>2. r[h] = Event(last + i)
    BY <1>2, <2>1
  <2> QED
    BY <2>2 DEF h
<1> DEFINE R == SubSeq(r, n - k + 1, n)
<1>12. Len(R) = k /\ \A i \in 1 .. k : R[i] = Event(last + i)
    BY <1>9, <1>11
<1> HIDE DEF R
<1>13. last <= sequence /\ k = sequence - last
    BY <1>1, <1>4, <1>5
<1>14. ReplayEvents(last) = R
    BY <1>8 DEF R
<1> QED
    BY <1>12, <1>13, <1>14

-----------------------------------------------------------------------------
(* A connection nobody touches, and one that is given up.                   *)

LEMMA LinkRest ==
    ASSUME TypeOK, NEW c \in Clients, LinkInv(c), base' = base,
           srv'[c] = srv[c], net'[c] = net[c], view'[c] = view[c], ClientInv(c)',
           srv[c].subscribed => Upto(c)' = Upto(c), srv[c].overflow => c \in dispatch',
           Stopped => Stopped'
    PROVE  LinkInv(c)'
<1>1. Stream(c)' = Stream(c)
    BY DEF Stream
<1>2. LoopInv(c)'
    BY DEF LinkInv, LoopInv
<1>3. ClientInv(c)'
    OBVIOUS
<1>4. \A m : (IsEvent(m)' <=> IsEvent(m)) /\ (OfBase(m)' <=> OfBase(m))
    BY DEF IsEvent, OfBase
<1>5. QueueInv(c)'
    BY <1>4 DEF LinkInv, QueueInv
<1>6. srv[c].phase \in Served \cup {"subscribed", "fitting"} => srv[c].subscribed
    BY DEF LinkInv, LoopInv, Served
<1>7. CapturedInv(c)'
    BY <1>6 DEF LinkInv, CapturedInv
<1>8. CoreInv(c)'
    BY <1>1, <1>4 DEF LinkInv, CoreInv
<1>9. ShapeInv(c)'
    BY <1>1 DEF LinkInv, ShapeInv, Content
<1>10. (\A n : Shown(c, n)' <=> Shown(c, n)) /\ \A n : Reached(c, n)' <=> Reached(c, n)
    BY <1>1 DEF Shown, Reached, Carries
<1>11. ClosedInv(c)'
    BY <1>1, <1>10 DEF LinkInv, ClosedInv, Closed, Content, Carries
<1>12. CoverInv(c)'
    BY <1>6, <1>10 DEF LinkInv, CoverInv
<1>13. ViewInv(c)'
    BY DEF LinkInv, ViewInv
<1> QED
    BY <1>2, <1>3, <1>5, <1>7, <1>8, <1>9, <1>11, <1>12, <1>13 DEF LinkInv

LEMMA LinkFrame ==
    ASSUME TypeOK, NEW c \in Clients, LinkInv(c), Same(c), base' = base,
           srv[c].subscribed => Upto(c)' = Upto(c), srv[c].overflow => c \in dispatch',
           Stopped => Stopped'
    PROVE  LinkInv(c)'
<1>1. ClientInv(c)'
    BY DEF LinkInv, ClientInv, Same
<1> QED
    BY <1>1, LinkRest DEF Same

LEMMA LinkDropped ==
    ASSUME TypeOK, NEW c \in Clients, LinkInv(c), Dropped(c), GivesUp(view'[c], view[c]),
           base' = base
    PROVE  LinkInv(c)'
<1>1. /\ srv'[c].phase = "none" /\ ~srv'[c].subscribed /\ srv'[c].queue = <<>>
      /\ ~srv'[c].overflow /\ ~srv'[c].lagged /\ srv'[c].outbox = <<>>
    BY DEF Dropped, Idle
<1>2. Stream(c)' = <<>> /\ Len(Stream(c)') = 0
    BY <1>1 DEF Stream, Dropped
<1>3. view'[c].phase \in {"lost", "ended"} /\ Shows(view'[c], view[c])
    BY DEF GivesUp
<1>4. LoopInv(c)'
    BY <1>1 DEF LoopInv, Opening, Dropped
<1>5. ClientInv(c)'
    BY <1>1, <1>3 DEF ClientInv, Opening, Dropped, GivesUp
<1>6. QueueInv(c)' /\ CapturedInv(c)' /\ CoverInv(c)'
    BY <1>1 DEF QueueInv, CapturedInv, CoverInv, Served
<1>7. CoreInv(c)'
    BY <1>2, <1>3 DEF LinkInv, CoreInv, Shows
<1>8. ShapeInv(c)' /\ ClosedInv(c)'
    BY <1>1, <1>2, <1>3 DEF ShapeInv, ClosedInv, Closed
<1>9. ViewInv(c)'
    BY <1>3 DEF LinkInv, ViewInv, Shows
<1> QED
    BY <1>4, <1>5, <1>6, <1>7, <1>8, <1>9 DEF LinkInv

-----------------------------------------------------------------------------
(* The stream's part of LinkInv under a step of the serve loop.             *)

StreamPart(c) == CoreInv(c) /\ ShapeInv(c) /\ ClosedInv(c) /\ ViewInv(c)

\* A serve loop past its handshake, or one that sends nothing, adds T.
LEMMA GrowStream ==
    ASSUME TypeOK, NEW c \in Clients, LinkInv(c), NEW T \in Seq(Messages), Grows(c, T),
           view'[c] = view[c], base' = base, Stopped => Stopped', srv[c].phase # "none",
           \A i \in 1 .. Len(T) : OfBase(T[i]),
           view[c].phase = "attached" \/ \A k \in 1 .. Len(T) : T[k].kind # "snapshot",
           srv[c].phase \notin Opening \/ (T = <<>> /\ srv'[c].phase \in Opening),
           srv'[c].phase \in Opening \cup Served => srv[c].phase \in Opening \cup Served,
           \/ srv'[c].phase \notin Opening \cup Served /\ Stopped
           \/ \A k \in 1 .. Len(T) : Content(T[k]) => \A n \in 1 .. T[k].seq :
                  Reached(c, n) \/ \E j \in 1 .. k : Carries(T[j], n)
    PROVE  /\ StreamPart(c)'
           /\ \A n : Reached(c, n) => Reached(c, n)'
           /\ \A n : \A k \in 1 .. Len(T) : Carries(T[k], n) => Reached(c, n)'
<1>1. CoreInv(c)'
    BY GrowCore DEF LinkInv
<1>2. ViewInv(c)'
    BY DEF LinkInv, ViewInv
<1>3. ClosedInv(c)'
  <2>1. CASE srv'[c].phase \notin Opening \cup Served /\ Stopped
    BY <2>1 DEF ClosedInv
  <2>2. CASE \A k \in 1 .. Len(T) : Content(T[k]) => \A n \in 1 .. T[k].seq :
                  Reached(c, n) \/ \E j \in 1 .. k : Carries(T[j], n)
    <3>1. SUFFICES ASSUME srv'[c].phase \in Opening \cup Served \/ ~Stopped' PROVE Closed(c)'
      BY DEF ClosedInv
    <3>2. Closed(c)
      BY <3>1 DEF LinkInv, ClosedInv
    <3> QED
      BY <2>2, <3>2, GrowClosed
  <2> QED
    BY <2>1, <2>2
<1>4. ShapeInv(c)'
  <2> DEFINE S == Stream(c)
             R == Stream(c)'
  <2>1. Len(S) \in Nat /\ Len(T) \in Nat
    BY Typed
  <2>2. /\ Len(R) = Len(S) + Len(T) /\ \A i \in 1 .. Len(S) : R[i] = S[i]
        /\ \A i \in 1 .. Len(T) : R[Len(S) + i] = T[i]
    BY DEF Grows
  <2>3. /\ view[c].phase = "attaching" =>
              /\ srv[c].phase \notin Opening \cup {"none"} => Len(S) > 0
              /\ Len(S) > 0 => ~Content(S[1])
              /\ \A i \in 3 .. Len(S) : S[i].kind # "snapshot"
        /\ view[c].phase = "catching" => \A i \in 2 .. Len(S) : S[i].kind # "snapshot"
    BY DEF LinkInv, ShapeInv
  <2> HIDE DEF S, R
  <2>4. ASSUME NEW i \in 1 .. Len(R), view[c].phase # "attached", R[i].kind = "snapshot"
        PROVE  i \in 1 .. Len(S) /\ S[i].kind = "snapshot"
    <3>1. CASE i <= Len(S)
      <4>1. i \in 1 .. Len(S)
        BY <2>1, <3>1
      <4> QED
        BY <2>2, <2>4, <4>1
    <3>2. CASE i > Len(S)
      <4> DEFINE k == i - Len(S)
      <4>1. k \in 1 .. Len(T) /\ i = Len(S) + k
        BY <2>1, <2>2, <3>2
      <4> HIDE DEF k
      <4> QED
        BY <2>2, <2>4, <4>1
    <3> QED
      BY <2>1, <3>1, <3>2
  <2>5. ASSUME view[c].phase = "catching" PROVE \A i \in 2 .. Len(R) : R[i].kind # "snapshot"
    <3> TAKE i \in 2 .. Len(R)
    <3>1. i \in 1 .. Len(R) /\ (i \in 1 .. Len(S) => i \in 2 .. Len(S))
      BY <2>1, <2>2
    <3> QED
      BY <2>3, <2>4, <2>5, <3>1
  <2>6. ASSUME view[c].phase = "attaching" PROVE \A i \in 3 .. Len(R) : R[i].kind # "snapshot"
    <3> TAKE i \in 3 .. Len(R)
    <3>1. i \in 1 .. Len(R) /\ (i \in 1 .. Len(S) => i \in 3 .. Len(S))
      BY <2>1, <2>2
    <3> QED
      BY <2>3, <2>4, <2>6, <3>1
  <2>7. ASSUME view[c].phase = "attaching"
        PROVE  /\ srv'[c].phase \notin Opening \cup {"none"} => Len(R) > 0
               /\ Len(R) > 0 => ~Content(R[1])
    <3>1. CASE srv[c].phase \notin Opening
      <4>1. Len(S) > 0 /\ ~Content(S[1]) /\ 1 \in 1 .. Len(S)
        BY <2>1, <2>3, <2>7, <3>1
      <4> QED
        BY <2>1, <2>2, <4>1
    <3>2. CASE T = <<>> /\ srv'[c].phase \in Opening
      <4>1. Len(R) = Len(S) /\ (Len(S) > 0 => 1 \in 1 .. Len(S))
        BY <2>1, <2>2, <3>2
      <4> QED
        BY <2>2, <2>3, <2>7, <3>2, <4>1
    <3> QED
      BY <3>1, <3>2
  <2>8. \A m : Content(m)' <=> Content(m)
    BY DEF Content
  <2> QED
    BY <2>5, <2>6, <2>7, <2>8 DEF ShapeInv, S, R
<1>5. /\ \A n : Reached(c, n) => Reached(c, n)'
      /\ \A n : \A k \in 1 .. Len(T) : Carries(T[k], n) => Reached(c, n)'
    BY GrowReached
<1> QED
    BY <1>1, <1>2, <1>3, <1>4, <1>5 DEF StreamPart

\* The same, when nothing is sent.
LEMMA StayStream ==
    ASSUME TypeOK, NEW c \in Clients, LinkInv(c), net'[c] = net[c], srv'[c].outbox = srv[c].outbox,
           view'[c] = view[c], base' = base, Stopped => Stopped', srv[c].phase # "none",
           srv[c].phase \in Opening => srv'[c].phase \in Opening,
           srv'[c].phase \in Opening \cup Served => srv[c].phase \in Opening \cup Served
    PROVE  StreamPart(c)' /\ \A n : Reached(c, n) => Reached(c, n)'
<1>1. Grows(c, <<>>)
    BY StaysIf
<1> DEFINE T == <<>>
<1>2. T \in Seq(Messages) /\ T = <<>> /\ \A i \in 1 .. Len(T) : FALSE
    OBVIOUS
<1>3. Grows(c, T)
    BY <1>1
<1> HIDE DEF T
<1> QED
    BY <1>2, <1>3, GrowStream

\* A handshake answers with T.
LEMMA OpenStream ==
    ASSUME TypeOK, NEW c \in Clients, LinkInv(c), srv[c].phase \in Opening, NEW T \in Seq(Messages),
           net'[c] = net[c], view'[c] = view[c], srv'[c].outbox = T, base' = base,
           Len(T) > 0, ~Content(T[1]), \A i \in 3 .. Len(T) : T[i].kind # "snapshot",
           \A i \in 1 .. Len(T) : OfBase(T[i]),
           \A i \in 1 .. Len(T) : Content(T[i]) => \A n \in 1 .. T[i].seq :
               \/ n <= view[c].last_seq /\ \A h \in 1 .. Len(T) : T[h].kind # "snapshot"
               \/ \E j \in 1 .. i : Carries(T[j], n)
    PROVE  Stream(c)' = T /\ StreamPart(c)'
<1>1. net[c] = <<>> /\ view[c].phase = "attaching"
    BY DEF LinkInv, ClientInv
<1>2. Stream(c)' = T
    BY <1>1 DEF Stream
<1>3. \A m : (OfBase(m)' <=> OfBase(m)) /\ (Content(m)' <=> Content(m))
    BY DEF IsEvent, OfBase, Content
<1>4. CoreInv(c)'
    BY <1>2, <1>3 DEF LinkInv, CoreInv
<1>5. ShapeInv(c)'
    BY <1>1, <1>2, <1>3 DEF ShapeInv
<1>6. ClosedInv(c)'
    BY <1>2, <1>3 DEF ClosedInv, Closed, Shown, Carries
<1>7. ViewInv(c)'
    BY DEF LinkInv, ViewInv
<1> QED
    BY <1>2, <1>4, <1>5, <1>6, <1>7 DEF StreamPart

-----------------------------------------------------------------------------
(* The queue's part.                                                        *)

LEMMA QueueStays ==
    ASSUME NEW c \in Clients, QueueInv(c), srv'[c].queue = srv[c].queue, Upto(c)' = Upto(c),
           base' = base, srv'[c].subscribed => srv[c].subscribed,
           srv[c].phase = "closing" => srv'[c].phase = "closing",
           srv[c].lagged => srv'[c].lagged \/ srv'[c].phase = "closing"
    PROVE  QueueInv(c)'
<1>1. \A m : IsEvent(m)' <=> IsEvent(m)
    BY DEF IsEvent
<1> QED
    BY <1>1 DEF QueueInv

LEMMA QueueTail ==
    ASSUME TypeOK, NEW c \in Clients, QueueInv(c), srv[c].queue # <<>>,
           srv'[c].queue = Tail(srv[c].queue), Upto(c)' = Upto(c),
           base' = base, srv'[c].subscribed => srv[c].subscribed,
           srv[c].phase = "closing" => srv'[c].phase = "closing",
           srv[c].lagged => srv'[c].lagged \/ srv'[c].phase = "closing"
    PROVE  QueueInv(c)'
<1>1. \A m : IsEvent(m)' <=> IsEvent(m)
    BY DEF IsEvent
<1> DEFINE q == srv[c].queue
           t == Tail(srv[c].queue)
           u == Upto(c)
<1>2. /\ q \in Seq(Messages) /\ Len(q) > 0 /\ Len(t) = Len(q) - 1 /\ Len(q) \in Nat /\ u \in Int
      /\ \A i \in 1 .. Len(t) : t[i] = q[i + 1]
    BY Typed, TailElements
<1>3. \A i \in 1 .. Len(t) : i + 1 \in 1 .. Len(q)
    BY <1>2
<1>4. /\ \A i \in 1 .. Len(q) : IsEvent(q[i])
      /\ srv[c].phase # "closing" /\ ~srv[c].lagged /\ srv[c].subscribed =>
           Len(q) <= u /\ \A i \in 1 .. Len(q) : q[i].seq = u - Len(q) + i
    BY DEF QueueInv
<1> HIDE DEF q, t, u
<1>5. \A i \in 1 .. Len(t) : IsEvent(t[i])
    BY <1>2, <1>3, <1>4
<1>6. ASSUME Len(q) <= u, \A i \in 1 .. Len(q) : q[i].seq = u - Len(q) + i
      PROVE  Len(t) <= u /\ \A i \in 1 .. Len(t) : t[i].seq = u - Len(t) + i
  <2>1. Len(t) <= u
    BY <1>2, <1>6
  <2>2. \A i \in 1 .. Len(t) : t[i].seq = u - Len(t) + i
    <3> TAKE i \in 1 .. Len(t)
    <3>1. t[i] = q[i + 1] /\ q[i + 1].seq = u - Len(q) + (i + 1)
      BY <1>2, <1>3, <1>6
    <3>2. u - Len(q) + (i + 1) = u - Len(t) + i
      BY <1>2
    <3> QED
      BY <3>1, <3>2
  <2> QED
    BY <2>1, <2>2
<1> QED
    BY <1>1, <1>4, <1>5, <1>6 DEF QueueInv, q, t, u

LEMMA QueueAppends ==
    ASSUME TypeOK, NEW c \in Clients, QueueInv(c), sequence > 0, c \in dispatch,
           srv'[c].queue = Append(srv[c].queue, Event(sequence)), Upto(c)' = Upto(c) + 1,
           base' = base, srv'[c].subscribed => srv[c].subscribed,
           srv'[c].phase = srv[c].phase, srv'[c].lagged <=> srv[c].lagged
    PROVE  QueueInv(c)'
<1>1. \A m : IsEvent(m)' <=> IsEvent(m)
    BY DEF IsEvent
<1> DEFINE q == srv[c].queue
           e == Event(sequence)
           t == Append(srv[c].queue, Event(sequence))
           u == Upto(c)
<1>2. e \in Messages /\ IsEvent(e) /\ e.seq = sequence
  <2>1. base \in Nat /\ sequence \in Nat
    BY Typed
  <2>2. sequence \in 0 .. sequence /\ base + sequence > 0
    BY <2>1
  <2>3. e \in Messages
    BY <2>2, EventType
  <2>4. e.kind = "event" /\ e.seq = sequence /\ e.events = {base + sequence}
    BY MessageFields DEF Event
  <2> QED
    BY <2>3, <2>4 DEF IsEvent
<1>3. /\ Len(q) \in Nat /\ u \in Int /\ Len(t) = Len(q) + 1 /\ t[Len(q) + 1] = e
      /\ \A i \in 1 .. Len(q) : t[i] = q[i]
    BY <1>2, Typed, AppendElements
<1>4. e.seq = u + 1
  <2>1. sequence \in Nat /\ u = sequence - 1
    BY Typed DEF Upto
  <2> QED
    BY <1>2, <2>1
<1>5. /\ \A i \in 1 .. Len(q) : IsEvent(q[i])
      /\ srv[c].phase # "closing" /\ ~srv[c].lagged /\ srv[c].subscribed =>
           Len(q) <= u /\ \A i \in 1 .. Len(q) : q[i].seq = u - Len(q) + i
    BY DEF QueueInv
<1> HIDE DEF q, t, u, e
<1>6. \A i \in 1 .. Len(t) : i \in 1 .. Len(q) \/ i = Len(q) + 1
    BY <1>3
<1>7. \A i \in 1 .. Len(t) : IsEvent(t[i])
    BY <1>2, <1>3, <1>5, <1>6
<1>8. ASSUME Len(q) <= u, \A i \in 1 .. Len(q) : q[i].seq = u - Len(q) + i
      PROVE  Len(t) <= u + 1 /\ \A i \in 1 .. Len(t) : t[i].seq = (u + 1) - Len(t) + i
  <2>1. Len(t) <= u + 1
    BY <1>3, <1>8
  <2>2. \A i \in 1 .. Len(t) : t[i].seq = (u + 1) - Len(t) + i
    <3> TAKE i \in 1 .. Len(t)
    <3>1. CASE i \in 1 .. Len(q)
      BY <1>3, <1>8, <3>1
    <3>2. CASE i = Len(q) + 1
      BY <1>3, <1>4, <3>2
    <3> QED
      BY <1>6, <3>1, <3>2
  <2> QED
    BY <2>1, <2>2
<1> QED
    BY <1>1, <1>5, <1>7, <1>8 DEF QueueInv, q, t, u

-----------------------------------------------------------------------------
(* The connection an action is about.                                       *)

LEMMA Quiet ==
    ASSUME NEW c \in Clients, UNCHANGED <<routerVars, status>>
    PROVE  /\ base' = base /\ sequence' = sequence /\ dispatch' = dispatch
           /\ Upto(c)' = Upto(c) /\ (Stopped' <=> Stopped)
    BY DEF routerVars, Upto, Stopped

LEMMA CoverStays ==
    ASSUME NEW c \in Clients, CoverInv(c), srv'[c].watermark = srv[c].watermark,
           Upto(c)' - Len(srv'[c].queue) = Upto(c) - Len(srv[c].queue),
           srv'[c].phase \in Served => srv[c].phase \in Served, srv[c].lagged => srv'[c].lagged,
           \A n : Reached(c, n) => Reached(c, n)'
    PROVE  CoverInv(c)'
    BY DEF CoverInv

LEMMA Together ==
    ASSUME NEW c \in Clients, LoopInv(c)', ClientInv(c)', QueueInv(c)', CapturedInv(c)',
           StreamPart(c)', CoverInv(c)'
    PROVE  LinkInv(c)'
    BY DEF LinkInv, StreamPart

\* The emit's handler of the connection.
LEMMA OverflowLink ==
    ASSUME TypeOK, NEW c \in Clients, LinkInv(c), TrySend(c),
           srv[c].subscribed /\ Len(srv[c].queue) = QueueCap
    PROVE  LinkInv(c)'
<1>1. /\ base' = base /\ Upto(c)' = Upto(c) /\ (Stopped' <=> Stopped) /\ dispatch' = dispatch
      /\ net' = net /\ view' = view /\ requests' = requests
    BY DEF TrySend, Upto, Stopped
<1>2. /\ srv'[c].phase = srv[c].phase /\ srv'[c].resume = srv[c].resume
      /\ srv'[c].captured = srv[c].captured /\ (srv'[c].subscribed <=> srv[c].subscribed)
      /\ srv'[c].queue = srv[c].queue /\ srv'[c].overflow /\ (srv'[c].lagged <=> srv[c].lagged)
      /\ srv'[c].watermark = srv[c].watermark /\ srv'[c].outbox = srv[c].outbox /\ c \in dispatch
    BY OverflowDoes
<1>3. srv[c].phase # "none"
    BY DEF LinkInv, LoopInv
<1>4. LoopInv(c)'
    BY <1>1, <1>2, <1>3 DEF LinkInv, LoopInv
<1>5. ClientInv(c)'
    BY <1>1, <1>2 DEF LinkInv, ClientInv
<1>6. QueueInv(c)'
    BY <1>1, <1>2, QueueStays DEF LinkInv
<1>7. CapturedInv(c)'
    BY <1>1, <1>2 DEF LinkInv, CapturedInv
<1>8. StreamPart(c)' /\ \A n : Reached(c, n) => Reached(c, n)'
    BY <1>1, <1>2, <1>3, StayStream
<1>9. CoverInv(c)'
    BY <1>1, <1>2, <1>8, CoverStays DEF LinkInv
<1> QED
    BY <1>4, <1>5, <1>6, <1>7, <1>8, <1>9, Together

LEMMA EnqueueLink ==
    ASSUME TypeOK, NEW c \in Clients, LinkInv(c), TrySend(c), srv[c].subscribed,
           Len(srv[c].queue) # QueueCap, sequence > 0
    PROVE  LinkInv(c)'
<1>1. /\ base' = base /\ sequence' = sequence /\ (Stopped' <=> Stopped)
      /\ net' = net /\ view' = view /\ requests' = requests
    BY DEF TrySend, Stopped
<1>2. /\ srv'[c].phase = srv[c].phase /\ srv'[c].resume = srv[c].resume
      /\ srv'[c].captured = srv[c].captured /\ (srv'[c].subscribed <=> srv[c].subscribed)
      /\ srv'[c].queue = Append(srv[c].queue, Event(sequence))
      /\ (srv'[c].overflow <=> srv[c].overflow) /\ (srv'[c].lagged <=> srv[c].lagged)
      /\ srv'[c].watermark = srv[c].watermark /\ srv'[c].outbox = srv[c].outbox
      /\ c \in dispatch /\ ~srv[c].overflow /\ dispatch' = dispatch \ {c}
    BY EnqueueDoes
<1>3. srv[c].phase # "none"
    BY DEF LinkInv, LoopInv
<1>4. sequence \in Nat /\ base \in Nat /\ srv[c].queue \in Seq(Messages) /\ Len(srv[c].queue) \in Nat
    BY Typed
<1>5. Upto(c)' = Upto(c) + 1 /\ Upto(c) \in Int
    BY <1>1, <1>2, <1>4 DEF Upto
<1>6. Len(srv'[c].queue) = Len(srv[c].queue) + 1
  <2>1. sequence \in 0 .. sequence /\ base + sequence > 0
    BY <1>4
  <2>2. Event(sequence) \in Messages
    BY <2>1, EventType
  <2> QED
    BY <1>2, <1>4, <2>2, AppendElements
<1>7. LoopInv(c)'
    BY <1>1, <1>2, <1>3 DEF LinkInv, LoopInv, Stopped
<1>8. ClientInv(c)'
    BY <1>1, <1>2 DEF LinkInv, ClientInv
<1>9. QueueInv(c)'
    BY <1>1, <1>2, <1>5, QueueAppends DEF LinkInv
<1>10. Upto(c)' - Len(srv'[c].queue) = Upto(c) - Len(srv[c].queue)
    BY <1>4, <1>5, <1>6
<1>11. CapturedInv(c)'
    BY <1>1, <1>2, <1>10 DEF LinkInv, CapturedInv
<1>12. StreamPart(c)' /\ \A n : Reached(c, n) => Reached(c, n)'
    BY <1>1, <1>2, <1>3, StayStream
<1>13. CoverInv(c)'
    BY <1>2, <1>10, <1>12, CoverStays DEF LinkInv
<1> QED
    BY <1>7, <1>8, <1>9, <1>11, <1>12, <1>13, Together

LEMMA StoreLaggedLink ==
    ASSUME TypeOK, NEW c \in Clients, LinkInv(c), StoreLagged(c)
    PROVE  LinkInv(c)'
<1>1. /\ base' = base /\ (Stopped' <=> Stopped) /\ net' = net /\ view' = view /\ requests' = requests
    BY DEF StoreLagged, Stopped
<1>2. /\ srv'[c].phase = srv[c].phase /\ srv'[c].resume = srv[c].resume
      /\ srv'[c].captured = srv[c].captured /\ (srv'[c].subscribed <=> srv[c].subscribed)
      /\ srv'[c].queue = srv[c].queue /\ ~srv'[c].overflow /\ srv'[c].lagged
      /\ srv'[c].watermark = srv[c].watermark /\ srv'[c].outbox = srv[c].outbox /\ srv[c].overflow
    BY StoreLaggedDoes
<1>3. srv[c].phase # "none" /\ srv[c].subscribed
    BY <1>2 DEF LinkInv, LoopInv
<1>4. LoopInv(c)'
    BY <1>1, <1>2, <1>3 DEF LinkInv, LoopInv
<1>5. ClientInv(c)'
    BY <1>1, <1>2 DEF LinkInv, ClientInv
<1>6. QueueInv(c)'
    BY <1>1, <1>2 DEF LinkInv, QueueInv, IsEvent
<1>7. CapturedInv(c)'
    BY <1>1, <1>2 DEF LinkInv, CapturedInv
<1>8. StreamPart(c)'
    BY <1>1, <1>2, <1>3, StayStream
<1>9. CoverInv(c)'
    BY <1>2 DEF CoverInv
<1> QED
    BY <1>4, <1>5, <1>6, <1>7, <1>8, <1>9, Together

\* The handshake.
LEMMA SubscribeLink ==
    ASSUME TypeOK, SnapInv, NEW c \in Clients, LinkInv(c), Subscribe(c)
    PROVE  LinkInv(c)'
<1>1. /\ base' = base /\ Upto(c)' = Upto(c) /\ (Stopped' <=> Stopped) /\ dispatch' = dispatch
      /\ net' = net /\ view' = view /\ requests' = requests
    BY Quiet DEF Subscribe
<1>2. /\ srv[c].phase = "admitted" /\ dispatch = {} /\ srv'[c].phase = "subscribed"
      /\ srv'[c].resume = srv[c].resume /\ srv'[c].captured = snapshot /\ srv'[c].subscribed
      /\ srv'[c].queue = srv[c].queue /\ (srv'[c].overflow <=> srv[c].overflow)
      /\ (srv'[c].lagged <=> srv[c].lagged) /\ srv'[c].outbox = srv[c].outbox
    BY SubscribeDoes
<1>3. srv[c].queue = <<>> /\ ~srv[c].overflow /\ ~srv[c].lagged /\ srv[c].outbox = <<>>
    BY <1>2 DEF LinkInv, LoopInv, Opening
<1>4. Upto(c) = sequence /\ sequence \in Nat /\ Len(srv'[c].queue) = 0
  <2>1. c \notin dispatch /\ sequence \in Nat
    BY <1>2, Typed
  <2>2. srv'[c].queue = <<>> /\ Len(<<>>) = 0
    BY <1>2, <1>3
  <2> QED
    BY <2>1, <2>2 DEF Upto
<1>5. LoopInv(c)'
    BY <1>1, <1>2, <1>3 DEF LinkInv, LoopInv, Opening
<1>6. ClientInv(c)'
    BY <1>1, <1>2 DEF LinkInv, ClientInv, Opening
<1>7. QueueInv(c)'
    BY <1>1, <1>2, <1>3, <1>4 DEF QueueInv
<1>8. CapturedInv(c)'
    BY <1>1, <1>2, <1>4, Typed DEF CapturedInv, SnapInv
<1>9. StreamPart(c)'
  <2>1. srv[c].phase \in Opening /\ srv'[c].phase \in Opening /\ srv[c].phase # "none"
    BY <1>2 DEF Opening
  <2> QED
    BY <1>1, <1>2, <2>1, StayStream
<1>10. CoverInv(c)'
    BY <1>2 DEF CoverInv, Served
<1> QED
    BY <1>5, <1>6, <1>7, <1>8, <1>9, <1>10, Together

\* What a replay stands on.
LEMMA ReplayCarries ==
    ASSUME TypeOK, RingInv, NEW last \in Nat, ReplayAvailable(last)
    PROVE  /\ ReplayEvents(last) \in Seq(Messages)
           /\ \A i \in 1 .. Len(ReplayEvents(last)) :
                 /\ OfBase(ReplayEvents(last)[i]) /\ ReplayEvents(last)[i].kind = "event"
                 /\ ReplayEvents(last)[i].seq = last + i
           /\ \A n \in 1 .. sequence : n <= last \/ \E i \in 1 .. Len(ReplayEvents(last)) :
                  n = last + i /\ Carries(ReplayEvents(last)[i], n)
<1> DEFINE R == ReplayEvents(last)
<1>1. last <= sequence /\ Len(R) = sequence - last /\ \A i \in 1 .. Len(R) : R[i] = Event(last + i)
    BY ReplayExact
<1>2. R \in Seq(Messages) /\ base \in Nat /\ sequence \in Nat
    BY ReplayType, Numbers DEF TypeOK
<1> HIDE DEF R
<1>3. \A i \in 1 .. Len(R) :
          R[i].kind = "event" /\ R[i].seq = last + i /\ R[i].events = {base + (last + i)}
  <2>1. \A s : Event(s).kind = "event" /\ Event(s).seq = s /\ Event(s).events = {base + s}
    BY MessageFields DEF Event
  <2> QED
    BY <1>1, <2>1
<1>4. \A i \in 1 .. Len(R) : OfBase(R[i])
  <2> TAKE i \in 1 .. Len(R)
  <2>1. last + i > 0
    BY <1>1, <1>2
  <2> QED
    BY <1>3, <2>1 DEF OfBase, IsEvent
<1>5. \A n \in 1 .. sequence : n <= last \/ \E i \in 1 .. Len(R) : n = last + i /\ Carries(R[i], n)
  <2> TAKE n \in 1 .. sequence
  <2> DEFINE i == n - last
  <2>1. n <= last \/ (i \in 1 .. Len(R) /\ n = last + i)
    BY <1>1, <1>2
  <2> HIDE DEF i
  <2> QED
    BY <1>3, <2>1 DEF Carries
<1> QED
    BY <1>2, <1>3, <1>4, <1>5 DEF R

LEMMA ChooseReplayLink ==
    ASSUME TypeOK, RouterInv, NEW c \in Clients, LinkInv(c), ChooseReplay(c),
           srv[c].resume # NoResume /\ ReplayAvailable(srv[c].resume)
    PROVE  LinkInv(c)'
<1> DEFINE last == srv[c].resume
           R == ReplayEvents(last)
           T == <<AttachOk(sequence)>> \o R
<1>1. /\ base' = base /\ sequence' = sequence /\ Upto(c)' = Upto(c) /\ (Stopped' <=> Stopped)
      /\ dispatch' = dispatch /\ net' = net /\ view' = view /\ requests' = requests
    BY Quiet DEF ChooseReplay
<1>2. /\ srv[c].phase = "subscribed" /\ dispatch = {} /\ srv'[c].phase = "answering"
      /\ srv'[c].resume = srv[c].resume /\ (srv'[c].subscribed <=> srv[c].subscribed)
      /\ srv'[c].queue = srv[c].queue /\ (srv'[c].overflow <=> srv[c].overflow)
      /\ (srv'[c].lagged <=> srv[c].lagged) /\ srv'[c].outbox = T
      /\ srv'[c].watermark = sequence
    BY ChooseReplayDoes
<1>3. /\ view[c].phase = "attaching" /\ net[c] = <<>> /\ last = view[c].last_seq
      /\ requests[c] = <<>>
    BY <1>2 DEF LinkInv, ClientInv, Opening
<1>4. last \in Nat /\ sequence \in Nat /\ base \in Nat /\ Len(srv[c].queue) \in Nat
    BY <1>3, Typed
<1>5. /\ R \in Seq(Messages)
      /\ \A i \in 1 .. Len(R) : OfBase(R[i]) /\ R[i].kind = "event" /\ R[i].seq = last + i
      /\ \A n \in 1 .. sequence :
            n <= last \/ \E i \in 1 .. Len(R) : n = last + i /\ Carries(R[i], n)
    BY <1>4, ReplayCarries DEF RouterInv
<1>6. AttachOk(sequence) \in Messages /\ AttachOk(sequence).kind = "attach_ok"
  <2>1. sequence \in Seqs
    BY DEF TypeOK
  <2> QED
    BY <2>1, MessageType, MessageFields DEF AttachOk, Kinds, EventSets
<1> DEFINE a == AttachOk(sequence)
<1> HIDE DEF R, a, last
<1>7. /\ T \in Seq(Messages) /\ Len(T) = 1 + Len(R) /\ T[1] = a /\ Len(R) \in Nat
      /\ \A i \in 1 .. Len(R) : T[1 + i] = R[i]
  <2>1. <<a>> \in Seq(Messages) /\ Len(<<a>>) = 1 /\ <<a>>[1] = a
    BY <1>6 DEF a
  <2> DEFINE s == <<a>>
  <2>2. s \in Seq(Messages) /\ Len(s) = 1 /\ s[1] = a /\ T = s \o R
    BY <2>1 DEF a
  <2> HIDE DEF s
  <2>3. s \o R \in Seq(Messages)
    BY <1>5, <2>2
  <2> QED
    BY <1>5, <2>2, <2>3, ConcatElements
<1> HIDE DEF T
<1>8. \A i \in 1 .. Len(T) : i = 1 \/ (i - 1 \in 1 .. Len(R) /\ i = 1 + (i - 1))
    BY <1>7
<1>9. \A i \in 1 .. Len(T) :
          /\ OfBase(T[i]) /\ T[i].kind \in {"attach_ok", "event"}
          /\ T[i].kind = "event" => i > 1 /\ T[i].seq = last + (i - 1)
  <2> TAKE i \in 1 .. Len(T)
  <2>1. CASE i = 1
    BY <1>6, <1>7, <2>1 DEF OfBase, a
  <2>2. CASE i # 1
    <3> DEFINE k == i - 1
    <3>1. k \in 1 .. Len(R) /\ i = 1 + k /\ i > 1
      BY <1>7, <2>2
    <3>2. T[i] = R[k]
      BY <1>7, <3>1
    <3> HIDE DEF k
    <3>3. OfBase(T[i]) /\ T[i].kind = "event" /\ T[i].seq = last + k
      BY <1>5, <3>1, <3>2
    <3> QED
      BY <3>1, <3>3 DEF k
  <2> QED
    BY <2>1, <2>2
<1>10. \A i \in 1 .. Len(T) : Content(T[i]) => \A n \in 1 .. T[i].seq :
          n <= last \/ \E j \in 1 .. i : Carries(T[j], n)
  <2> SUFFICES ASSUME NEW i \in 1 .. Len(T), Content(T[i]), NEW n \in 1 .. T[i].seq, ~(n <= last)
               PROVE  \E j \in 1 .. i : Carries(T[j], n)
    OBVIOUS
  <2>1. i > 1 /\ T[i].seq = last + (i - 1)
    BY <1>9 DEF Content
  <2> DEFINE j == n - last + 1
  <2>2. j \in 1 .. i /\ j > 1 /\ n = last + (j - 1) /\ j \in 1 .. Len(T) /\ j - 1 \in 1 .. Len(R) /\ j = 1 + (j - 1)
    BY <1>4, <1>7, <2>1
  <2> HIDE DEF j
  <2>3. T[j] = R[j - 1] /\ R[j - 1].kind = "event" /\ R[j - 1].seq = last + (j - 1)
    BY <1>5, <1>7, <2>2
  <2>4. Carries(T[j], n)
    BY <2>2, <2>3 DEF Carries
  <2> QED
    BY <2>2, <2>4
<1>11. StreamPart(c)' /\ Stream(c)' = T
  <2>1. srv[c].phase \in Opening
    BY <1>2 DEF Opening
  <2>2. 1 \in 1 .. Len(T) /\ Len(T) > 0 /\ \A i \in 3 .. Len(T) : i \in 1 .. Len(T)
    BY <1>7
  <2>3. ~Content(T[1]) /\ \A i \in 1 .. Len(T) : T[i].kind # "snapshot"
    BY <1>9, <2>2 DEF Content
  <2>4. \A i \in 1 .. Len(T) : Content(T[i]) => \A n \in 1 .. T[i].seq :
               \/ n <= view[c].last_seq /\ \A h \in 1 .. Len(T) : T[h].kind # "snapshot"
               \/ \E j \in 1 .. i : Carries(T[j], n)
    BY <1>3, <1>10, <2>3
  <2> QED
    BY <1>1, <1>2, <1>7, <1>9, <2>1, <2>2, <2>3, <2>4, OpenStream
<1>12. \A n \in 1 .. sequence : Reached(c, n)'
  <2> TAKE n \in 1 .. sequence
  <2>1. \A i \in 1 .. Len(T) : T[i].kind # "snapshot"
    BY <1>9
  <2>2. CASE n <= last
    BY <1>1, <1>3, <1>11, <2>1, <2>2 DEF Reached, Shown
  <2>3. CASE ~(n <= last)
    <3>1. PICK i \in 1 .. Len(R) : Carries(R[i], n)
      BY <1>5, <2>3
    <3>2. 1 + i \in 1 .. Len(T) /\ T[1 + i] = R[i]
      BY <1>7, <3>1
    <3> QED
      BY <1>11, <3>1, <3>2 DEF Reached, Carries
  <2> QED
    BY <2>2, <2>3
<1>13. LoopInv(c)'
    BY <1>1, <1>2, <1>3 DEF LinkInv, LoopInv, Opening
<1>14. ClientInv(c)'
    BY <1>1, <1>2, <1>3 DEF LinkInv, ClientInv, Opening
<1>15. QueueInv(c)'
    BY <1>1, <1>2, QueueStays DEF LinkInv
<1>16. CapturedInv(c)'
    BY <1>2 DEF CapturedInv
<1>17. CoverInv(c)'
  <2>1. Upto(c)' = sequence
    BY <1>1, <1>2 DEF Upto
  <2>2. \A n \in 1 .. (Upto(c)' - Len(srv'[c].queue)) : n \in 1 .. sequence
    BY <1>2, <1>4, <2>1
  <2> QED
    BY <1>2, <1>12, <2>2 DEF CoverInv
<1> QED
    BY <1>11, <1>13, <1>14, <1>15, <1>16, <1>17, Together

LEMMA ChooseSnapshotLink ==
    ASSUME TypeOK, NEW c \in Clients, LinkInv(c), ChooseReplay(c),
           ~(srv[c].resume # NoResume /\ ReplayAvailable(srv[c].resume))
    PROVE  LinkInv(c)'
<1>1. /\ base' = base /\ Upto(c)' = Upto(c) /\ (Stopped' <=> Stopped) /\ dispatch' = dispatch
      /\ net' = net /\ view' = view /\ requests' = requests
    BY Quiet DEF ChooseReplay
<1>2. /\ srv[c].phase = "subscribed" /\ srv'[c].phase = "fitting"
      /\ srv'[c].resume = srv[c].resume /\ srv'[c].captured = srv[c].captured
      /\ (srv'[c].subscribed <=> srv[c].subscribed)
      /\ srv'[c].queue = srv[c].queue /\ (srv'[c].overflow <=> srv[c].overflow)
      /\ (srv'[c].lagged <=> srv[c].lagged) /\ srv'[c].outbox = srv[c].outbox
    BY ChooseSnapshotDoes
<1>3. LoopInv(c)'
    BY <1>1, <1>2 DEF LinkInv, LoopInv, Opening
<1>4. ClientInv(c)'
    BY <1>1, <1>2 DEF LinkInv, ClientInv, Opening
<1>5. QueueInv(c)'
    BY <1>1, <1>2, QueueStays DEF LinkInv
<1>6. CapturedInv(c)'
    BY <1>1, <1>2 DEF LinkInv, CapturedInv
<1>7. StreamPart(c)'
  <2>1. srv[c].phase \in Opening /\ srv'[c].phase \in Opening /\ srv[c].phase # "none"
    BY <1>2 DEF Opening
  <2> QED
    BY <1>1, <1>2, <2>1, StayStream
<1>8. CoverInv(c)'
    BY <1>2 DEF CoverInv, Served
<1> QED
    BY <1>3, <1>4, <1>5, <1>6, <1>7, <1>8, Together

LEMMA FittedLink ==
    ASSUME TypeOK, NEW c \in Clients, LinkInv(c), FittedOk(c)
    PROVE  LinkInv(c)'
<1> DEFINE a == AttachOk(srv[c].captured.seq)
           b == Snapshot(srv[c].captured)
           T == <<a, b>>
           s == srv[c].captured.seq
<1>1. /\ base' = base /\ Upto(c)' = Upto(c) /\ (Stopped' <=> Stopped) /\ dispatch' = dispatch
      /\ net' = net /\ view' = view /\ requests' = requests
    BY Quiet DEF FittedOk
<1>2. /\ srv[c].phase = "fitting" /\ srv'[c].phase = "answering"
      /\ srv'[c].resume = srv[c].resume /\ (srv'[c].subscribed <=> srv[c].subscribed)
      /\ srv'[c].queue = srv[c].queue /\ (srv'[c].overflow <=> srv[c].overflow)
      /\ (srv'[c].lagged <=> srv[c].lagged) /\ srv'[c].outbox = T
      /\ srv'[c].watermark = s
    BY FittedDoes
<1>3. /\ view[c].phase = "attaching" /\ net[c] = <<>> /\ requests[c] = <<>>
      /\ srv[c].captured.events = 1 .. (base + s)
      /\ ~srv[c].lagged => s = Upto(c) - Len(srv[c].queue)
    BY <1>2 DEF LinkInv, ClientInv, CapturedInv, Opening
<1>4. srv[c].captured \in Snapshots /\ s \in Seqs /\ s \in Nat
    BY Typed, Numbers DEF ServeLoops, Snapshots
<1>5. /\ a \in Messages /\ a.kind = "attach_ok" /\ b \in Messages /\ b.kind = "snapshot"
      /\ b.seq = s /\ b.events = 1 .. (base + s)
    BY <1>3, <1>4, MessageType, MessageFields DEF AttachOk, Snapshot, Snapshots, Kinds, EventSets
<1> HIDE DEF a, b, s
<1>6. /\ T \in Seq(Messages) /\ Len(T) = 2 /\ T[1] = a /\ T[2] = b
      /\ \A i \in 1 .. Len(T) : i = 1 \/ i = 2
    BY <1>5
<1> HIDE DEF T
<1>7. \A i \in 1 .. Len(T) : OfBase(T[i])
    BY <1>5, <1>6 DEF OfBase
<1>8. \A n : n <= s => Carries(T[2], n)
    BY <1>5, <1>6 DEF Carries
<1>9. StreamPart(c)' /\ Stream(c)' = T
  <2>1. srv[c].phase \in Opening
    BY <1>2 DEF Opening
  <2>2. ~Content(T[1]) /\ Len(T) > 0 /\ \A i \in 3 .. Len(T) : T[i].kind # "snapshot"
    BY <1>5, <1>6 DEF Content
  <2>3. \A i \in 1 .. Len(T) : Content(T[i]) => \A n \in 1 .. T[i].seq :
            \E j \in 1 .. i : Carries(T[j], n)
    <3> SUFFICES ASSUME NEW i \in 1 .. Len(T), Content(T[i]), NEW n \in 1 .. T[i].seq
                 PROVE  \E j \in 1 .. i : Carries(T[j], n)
      OBVIOUS
    <3>1. i = 2 /\ T[i].seq = s
      BY <1>5, <1>6 DEF Content
    <3>2. n <= s /\ 2 \in 1 .. i
      BY <1>4, <3>1
    <3> QED
      BY <1>8, <3>2
  <2> QED
    BY <1>1, <1>2, <1>6, <1>7, <2>1, <2>2, <2>3, OpenStream
<1>10. \A n \in 1 .. s : Reached(c, n)'
  <2>1. 2 \in 1 .. Len(T) /\ \A n \in 1 .. s : n <= s
    BY <1>4, <1>6
  <2> QED
    BY <1>8, <1>9, <2>1 DEF Reached, Carries
<1>11. LoopInv(c)'
    BY <1>1, <1>2, <1>3 DEF LinkInv, LoopInv, Opening
<1>12. ClientInv(c)'
    BY <1>1, <1>2, <1>3 DEF LinkInv, ClientInv, Opening
<1>13. QueueInv(c)'
    BY <1>1, <1>2, QueueStays DEF LinkInv
<1>14. CapturedInv(c)'
    BY <1>2 DEF CapturedInv
<1>15. CoverInv(c)'
    BY <1>1, <1>2, <1>3, <1>10 DEF CoverInv
<1> QED
    BY <1>9, <1>11, <1>12, <1>13, <1>14, <1>15, Together

LEMMA DeniedLink ==
    ASSUME TypeOK, NEW c \in Clients, LinkInv(c), FittedNot(c)
    PROVE  LinkInv(c)'
<1> DEFINE a == AttachDenied
           T == <<a>>
<1>1. /\ base' = base /\ Upto(c)' = Upto(c) /\ (Stopped' <=> Stopped) /\ dispatch' = dispatch
      /\ net' = net /\ view' = view /\ requests' = requests
    BY Quiet DEF FittedNot
<1>2. /\ srv[c].phase = "fitting" /\ srv'[c].phase = "closing"
      /\ srv'[c].resume = srv[c].resume /\ (srv'[c].subscribed <=> srv[c].subscribed)
      /\ srv'[c].queue = srv[c].queue /\ (srv'[c].overflow <=> srv[c].overflow)
      /\ (srv'[c].lagged <=> srv[c].lagged) /\ srv'[c].outbox = T
    BY DeniedDoes
<1>3. view[c].phase = "attaching" /\ net[c] = <<>> /\ requests[c] = <<>>
    BY <1>2 DEF LinkInv, ClientInv, Opening
<1>4. a \in Messages /\ a.kind = "denied"
    BY MessageType, MessageFields, Numbers DEF AttachDenied, Kinds, EventSets
<1> HIDE DEF a
<1>5. T \in Seq(Messages) /\ Len(T) = 1 /\ T[1] = a /\ \A i \in 1 .. Len(T) : i = 1
    BY <1>4
<1> HIDE DEF T
<1>6. StreamPart(c)'
  <2>1. srv[c].phase \in Opening
    BY <1>2 DEF Opening
  <2>2. /\ Len(T) > 0 /\ \A i \in 1 .. Len(T) : ~Content(T[i]) /\ OfBase(T[i])
        /\ ~Content(T[1]) /\ \A i \in 3 .. Len(T) : FALSE
    BY <1>4, <1>5 DEF Content, OfBase
  <2> QED
    BY <1>1, <1>2, <1>5, <2>1, <2>2, OpenStream
<1>7. LoopInv(c)'
    BY <1>1, <1>2, <1>3, <1>4, <1>5 DEF LinkInv, LoopInv, Opening
<1>8. ClientInv(c)'
    BY <1>1, <1>2, <1>3 DEF LinkInv, ClientInv, Opening
<1>9. QueueInv(c)'
    BY <1>1, <1>2, QueueStays DEF LinkInv
<1>10. CapturedInv(c)' /\ CoverInv(c)'
    BY <1>2 DEF CapturedInv, CoverInv, Served
<1> QED
    BY <1>6, <1>7, <1>8, <1>9, <1>10, Together

\* The serve loop.
LEMMA SentLink ==
    ASSUME TypeOK, NEW c \in Clients, LinkInv(c), Send(c),
           srv'[c].outbox = Tail(srv[c].outbox), Rest(srv'[c], srv[c]),
           Moved(srv[c].phase, srv'[c].phase)
    PROVE  LinkInv(c)'
<1>1. /\ base' = base /\ Upto(c)' = Upto(c) /\ (Stopped' <=> Stopped) /\ dispatch' = dispatch
      /\ view' = view /\ requests' = requests
    BY Quiet DEF Send
<1>2. net'[c] = Append(net[c], Head(srv[c].outbox)) /\ srv[c].outbox # <<>>
    BY SendDoes DEF TypeOK
<1>3. /\ srv[c].phase \notin Opening \cup {"none", "replaying", "syncing", "closing"}
      /\ srv'[c].phase \notin Opening \cup {"none", "replaying", "syncing", "closing"}
      /\ srv'[c].phase \in Served => srv[c].phase \in Served
      /\ srv'[c].phase = "pumping" => FALSE
      /\ srv'[c].phase = "draining" => srv[c].phase = "draining"
  <2>1. srv[c].phase \notin Opening \cup {"none", "replaying", "syncing"}
    BY <1>2 DEF LinkInv, LoopInv, Idle
  <2> QED
    BY <2>1 DEF Moved, Opening, Served
<1>4. view[c].phase \in {"attaching", "catching", "attached"}
    BY <1>3 DEF LinkInv, LoopInv
<1> DEFINE T == <<>>
<1>5. T \in Seq(Messages) /\ \A k \in 1 .. Len(T) : FALSE
    OBVIOUS
<1>6. Grows(c, T)
    BY <1>2, <1>5, SendsIf
<1> HIDE DEF T
<1>7. StreamPart(c)' /\ \A n : Reached(c, n) => Reached(c, n)'
    BY <1>1, <1>3, <1>5, <1>6, GrowStream
<1>8. LoopInv(c)'
    BY <1>1, <1>3, <1>4 DEF LinkInv, LoopInv, Rest, Opening
<1>9. ClientInv(c)'
    BY <1>1, <1>3, <1>4 DEF LinkInv, ClientInv
<1>10. QueueInv(c)'
    BY <1>1, <1>3, QueueStays DEF LinkInv, Rest
<1>11. CapturedInv(c)'
    BY <1>3 DEF CapturedInv, Opening
<1>12. CoverInv(c)'
    BY <1>1, <1>3, <1>7, CoverStays DEF LinkInv, Rest
<1> QED
    BY <1>7, <1>8, <1>9, <1>10, <1>11, <1>12, Together

\* The loop closes behind what is still in the transport.
LEMMA ClosingLink ==
    ASSUME TypeOK, NEW c \in Clients, LinkInv(c), NEW a \in Messages, Grows(c, <<a>>),
           base' = base, Upto(c)' = Upto(c), Stopped => Stopped', dispatch' = dispatch,
           view' = view, requests' = requests,
           srv[c].phase \notin Opening \cup {"none", "closing"}, srv'[c].phase = "closing",
           srv'[c].subscribed, srv'[c].overflow <=> srv[c].overflow,
           srv'[c].queue = srv[c].queue \/ (srv[c].queue # <<>> /\ srv'[c].queue = Tail(srv[c].queue)),
           srv'[c].outbox = <<a>>, a.kind \in {"stopped", "lagged"}
    PROVE  LinkInv(c)'
<1> DEFINE T == <<a>>
<1>1. T \in Seq(Messages) /\ Len(T) = 1 /\ T[1] = a /\ \A i \in 1 .. Len(T) : i = 1
    OBVIOUS
<1>2. Grows(c, T) /\ srv'[c].outbox = T
    OBVIOUS
<1> HIDE DEF T
<1>3. /\ srv'[c].phase \notin Opening \cup Served \cup {"none"}
      /\ view[c].phase \in {"attaching", "catching", "attached"}
    BY DEF Opening, Served, LinkInv, LoopInv
<1>4. \A i \in 1 .. Len(T) : ~Content(T[i]) /\ OfBase(T[i]) /\ T[i].kind # "snapshot"
    BY <1>1 DEF Content, OfBase
<1>5. StreamPart(c)'
    BY <1>1, <1>2, <1>3, <1>4, GrowStream
<1>6. LoopInv(c)'
    BY <1>1, <1>2, <1>3 DEF LinkInv, LoopInv, Opening
<1>7. ClientInv(c)'
    BY <1>3 DEF LinkInv, ClientInv
<1>8. QueueInv(c)'
  <2>1. srv[c].subscribed
    BY DEF Opening, LinkInv, LoopInv
  <2>2. CASE srv'[c].queue = srv[c].queue
    BY <2>1, <2>2, QueueStays DEF LinkInv
  <2>3. CASE srv[c].queue # <<>> /\ srv'[c].queue = Tail(srv[c].queue)
    BY <2>1, <2>3, QueueTail DEF LinkInv
  <2> QED
    BY <2>2, <2>3
<1>9. CapturedInv(c)' /\ CoverInv(c)'
    BY DEF CapturedInv, CoverInv, Served
<1> QED
    BY <1>5, <1>6, <1>7, <1>8, <1>9, Together

LEMMA RevokedType ==
    /\ Revoked("stopped") \in Messages /\ Revoked("stopped").kind = "stopped"
    /\ Revoked("lagged") \in Messages /\ Revoked("lagged").kind = "lagged"
    BY MessageType, MessageFields, Numbers DEF Revoked, Kinds, EventSets

LEMMA SendLink ==
    ASSUME TypeOK, NEW c \in Clients, LinkInv(c), Send(c)
    PROVE  LinkInv(c)'
<1>1. /\ base' = base /\ Upto(c)' = Upto(c) /\ (Stopped' <=> Stopped) /\ dispatch' = dispatch
      /\ view' = view /\ requests' = requests
    BY Quiet DEF Send
<1>2. net'[c] = Append(net[c], Head(srv[c].outbox)) /\ srv[c].outbox # <<>>
    BY SendDoes DEF TypeOK
<1>3. CASE /\ srv'[c].outbox = Tail(srv[c].outbox)
           /\ Rest(srv'[c], srv[c]) /\ Moved(srv[c].phase, srv'[c].phase)
    BY <1>3, SentLink
<1>4. CASE /\ srv[c].phase = "pumping" /\ Stopped /\ srv'[c].phase = "closing"
           /\ srv'[c].outbox = <<Revoked("stopped")>> /\ Rest(srv'[c], srv[c])
  <2> DEFINE a == Revoked("stopped")
             T == <<a>>
  <2>1. a \in Messages /\ a.kind = "stopped"
    BY RevokedType
  <2> HIDE DEF a
  <2>2. T \in Seq(Messages)
    BY <2>1
  <2>3. Len(srv[c].outbox) = 1 /\ srv[c].subscribed
    BY <1>4 DEF LinkInv, LoopInv
  <2>4. srv'[c].outbox = T
    BY <1>4 DEF a
  <2> HIDE DEF T
  <2>5. Grows(c, T)
    BY <1>2, <2>2, <2>3, <2>4, SendsIf
  <2>6. srv[c].phase \notin Opening \cup {"none", "closing"}
    BY <1>4 DEF Opening
  <2> QED
    BY <1>1, <1>4, <2>1, <2>3, <2>4, <2>5, <2>6, ClosingLink DEF Rest, T
<1>5. CASE srv[c].phase = "closing" /\ srv'[c] = Idle
  <2>1. /\ srv'[c].phase = "none" /\ ~srv'[c].subscribed /\ srv'[c].queue = <<>>
        /\ ~srv'[c].overflow /\ ~srv'[c].lagged /\ srv'[c].outbox = <<>>
    BY <1>5 DEF Idle
  <2> DEFINE T == <<>>
  <2>2. T \in Seq(Messages) /\ \A k \in 1 .. Len(T) : FALSE
    OBVIOUS
  <2>3. Len(srv[c].outbox) = 1 /\ view[c].phase \in {"attaching", "catching", "attached"}
    BY <1>5 DEF LinkInv, LoopInv
  <2>4. Grows(c, T)
    BY <1>2, <2>1, <2>2, <2>3, SendsIf
  <2> HIDE DEF T
  <2>5. srv[c].phase \notin Opening \cup {"none"} /\ srv'[c].phase \notin Opening \cup Served
    BY <1>5, <2>1 DEF Opening, Served
  <2>6. StreamPart(c)'
    BY <1>1, <2>2, <2>4, <2>5, GrowStream
  <2>7. LoopInv(c)'
    BY <1>5, <2>1, <2>3 DEF LoopInv, Opening
  <2>8. ClientInv(c)'
    BY <1>1, <1>2, <2>1, <2>3 DEF LinkInv, ClientInv, Opening
  <2>9. QueueInv(c)' /\ CapturedInv(c)' /\ CoverInv(c)'
    BY <2>1 DEF QueueInv, CapturedInv, CoverInv, Served
  <2> QED
    BY <2>6, <2>7, <2>8, <2>9, Together
<1> QED
    BY <1>3, <1>4, <1>5, SendDoes

\* What the queue's first event stands on.
LEMMA HeadOfQueue ==
    ASSUME TypeOK, NEW c \in Clients, LinkInv(c), srv[c].queue # <<>>
    PROVE  /\ Head(srv[c].queue) \in Messages /\ IsEvent(Head(srv[c].queue))
           /\ Len(Tail(srv[c].queue)) = Len(srv[c].queue) - 1 /\ Len(srv[c].queue) > 0
           /\ srv[c].phase # "closing" /\ ~srv[c].lagged /\ srv[c].subscribed =>
                Head(srv[c].queue).seq = Upto(c) - Len(srv[c].queue) + 1
<1> DEFINE q == srv[c].queue
<1>1. q \in Seq(Messages) /\ Len(q) \in Nat
    BY Typed
<1>2. Head(q) = q[1] /\ Head(q) \in Messages /\ Len(q) > 0 /\ Len(Tail(q)) = Len(q) - 1
    BY <1>1, TailElements
<1>3. 1 \in 1 .. Len(q)
    BY <1>1, <1>2
<1> QED
    BY <1>2, <1>3 DEF LinkInv, QueueInv

LEMMA PumpLaggedLink ==
    ASSUME TypeOK, NEW c \in Clients, LinkInv(c), Pump(c), srv[c].lagged
    PROVE  LinkInv(c)'
<1>1. /\ base' = base /\ Upto(c)' = Upto(c) /\ (Stopped' <=> Stopped) /\ dispatch' = dispatch
      /\ net' = net /\ view' = view /\ requests' = requests /\ srv[c].queue # <<>>
    BY Quiet DEF Pump
<1>2. /\ srv[c].phase = "serving" /\ srv[c].outbox = <<>> /\ srv'[c].phase = "closing"
      /\ (srv'[c].subscribed <=> srv[c].subscribed) /\ (srv'[c].overflow <=> srv[c].overflow)
      /\ srv'[c].queue = Tail(srv[c].queue) /\ srv'[c].outbox = <<Revoked("lagged")>>
    BY PumpLagged
<1> DEFINE a == Revoked("lagged")
           T == <<a>>
<1>3. a \in Messages /\ a.kind = "lagged"
    BY RevokedType
<1> HIDE DEF a
<1>4. T \in Seq(Messages)
    BY <1>3
<1>5. srv'[c].outbox = T
    BY <1>2 DEF a
<1> HIDE DEF T
<1>6. Grows(c, T)
    BY <1>1, <1>2, <1>4, <1>5, GrowsIf
<1>7. srv[c].phase \notin Opening \cup {"none", "closing"} /\ srv[c].subscribed
    BY <1>2 DEF Opening, LinkInv, LoopInv
<1> QED
    BY <1>1, <1>2, <1>3, <1>5, <1>6, <1>7, ClosingLink DEF T

LEMMA PumpSkipsLink ==
    ASSUME TypeOK, NEW c \in Clients, LinkInv(c), Pump(c), ~srv[c].lagged,
           Head(srv[c].queue).seq <= srv[c].watermark
    PROVE  LinkInv(c)'
<1>1. /\ base' = base /\ Upto(c)' = Upto(c) /\ (Stopped' <=> Stopped) /\ dispatch' = dispatch
      /\ net' = net /\ view' = view /\ requests' = requests /\ srv[c].queue # <<>>
    BY Quiet DEF Pump
<1>2. /\ srv[c].phase = "serving" /\ srv'[c].phase = srv[c].phase
      /\ srv'[c].resume = srv[c].resume /\ srv'[c].watermark = srv[c].watermark
      /\ (srv'[c].subscribed <=> srv[c].subscribed) /\ (srv'[c].overflow <=> srv[c].overflow)
      /\ (srv'[c].lagged <=> srv[c].lagged)
      /\ srv'[c].queue = Tail(srv[c].queue) /\ srv'[c].outbox = srv[c].outbox
    BY PumpSkips
<1>3. srv[c].phase \notin Opening \cup {"none", "closing"} /\ srv[c].phase \in Served /\ srv[c].subscribed
    BY <1>2 DEF Opening, Served, LinkInv, LoopInv
<1>4. StreamPart(c)' /\ \A n : Reached(c, n) => Reached(c, n)'
    BY <1>1, <1>2, <1>3, StayStream
<1>5. LoopInv(c)'
    BY <1>1, <1>2, <1>3 DEF LinkInv, LoopInv
<1>6. ClientInv(c)'
    BY <1>1, <1>2, <1>3 DEF LinkInv, ClientInv
<1>7. QueueInv(c)'
    BY <1>1, <1>2, QueueTail DEF LinkInv
<1>8. CapturedInv(c)'
    BY <1>2 DEF CapturedInv
<1>9. CoverInv(c)'
  <2> DEFINE k == Len(srv[c].queue)
             u == Upto(c)
             e == Head(srv[c].queue).seq
  <2>1. k \in Nat /\ u \in Int /\ srv[c].watermark \in Nat
    BY Typed
  <2>2. Len(srv'[c].queue) = k - 1 /\ e = u - k + 1
    BY <1>1, <1>2, <1>3, HeadOfQueue
  <2>3. /\ \A n \in 1 .. srv[c].watermark : Reached(c, n)
        /\ \A n \in 1 .. (u - k) : Reached(c, n)
    BY <1>3 DEF LinkInv, CoverInv
  <2>4. e <= srv[c].watermark
    OBVIOUS
  <2> HIDE DEF k, u, e
  <2>5. \A n \in 1 .. (u - (k - 1)) : n \in 1 .. srv[c].watermark \/ n \in 1 .. (u - k)
    BY <2>1, <2>2, <2>4
  <2> QED
    BY <1>1, <1>2, <1>4, <2>2, <2>3, <2>5 DEF CoverInv, u
<1> QED
    BY <1>4, <1>5, <1>6, <1>7, <1>8, <1>9, Together

LEMMA PumpSendsLink ==
    ASSUME TypeOK, NEW c \in Clients, LinkInv(c), Pump(c), ~srv[c].lagged,
           ~(Head(srv[c].queue).seq <= srv[c].watermark)
    PROVE  LinkInv(c)'
<1>1. /\ base' = base /\ Upto(c)' = Upto(c) /\ (Stopped' <=> Stopped) /\ dispatch' = dispatch
      /\ net' = net /\ view' = view /\ requests' = requests /\ srv[c].queue # <<>>
    BY Quiet DEF Pump
<1>2. /\ srv[c].phase = "serving" /\ srv[c].outbox = <<>> /\ srv'[c].phase = "pumping"
      /\ srv'[c].resume = srv[c].resume /\ srv'[c].watermark = srv[c].watermark
      /\ (srv'[c].subscribed <=> srv[c].subscribed) /\ (srv'[c].overflow <=> srv[c].overflow)
      /\ (srv'[c].lagged <=> srv[c].lagged)
      /\ srv'[c].queue = Tail(srv[c].queue) /\ srv'[c].outbox = <<Head(srv[c].queue)>>
    BY PumpSends
<1>3. /\ srv[c].phase \notin Opening \cup {"none", "closing"} /\ srv[c].phase \in Served
      /\ srv[c].subscribed /\ view[c].phase \in {"attaching", "catching", "attached"}
    BY <1>2 DEF Opening, Served, LinkInv, LoopInv
<1> DEFINE k == Len(srv[c].queue)
           u == Upto(c)
           a == Head(srv[c].queue)
           T == <<a>>
<1>4. k \in Nat /\ u \in Int
    BY Typed
<1>5. Len(srv'[c].queue) = k - 1 /\ a.seq = u - k + 1 /\ a \in Messages /\ IsEvent(a)
    BY <1>1, <1>2, <1>3, HeadOfQueue
<1>6. /\ \A n \in 1 .. srv[c].watermark : Reached(c, n)
      /\ \A n \in 1 .. (u - k) : Reached(c, n)
    BY <1>3 DEF LinkInv, CoverInv
<1> HIDE DEF k, u, a
<1>7. T \in Seq(Messages) /\ Len(T) = 1 /\ T[1] = a /\ \A i \in 1 .. Len(T) : i = 1
    BY <1>5
<1>8. srv'[c].outbox = T
    BY <1>2 DEF a
<1> HIDE DEF T
<1>9. Grows(c, T)
    BY <1>1, <1>2, <1>7, <1>8, GrowsIf
<1>10. a.kind = "event" /\ OfBase(a)
    BY <1>5 DEF IsEvent, OfBase
<1>11. \A n \in 1 .. a.seq : n \in 1 .. (u - k) \/ Carries(a, n)
  <2>1. \A n \in 1 .. a.seq : n \in 1 .. (u - k) \/ n = a.seq
    BY <1>4, <1>5
  <2> QED
    BY <1>10, <2>1 DEF Carries
<1>12. /\ StreamPart(c)' /\ \A n : Reached(c, n) => Reached(c, n)'
       /\ \A n : \A i \in 1 .. Len(T) : Carries(T[i], n) => Reached(c, n)'
  <2>1. \A i \in 1 .. Len(T) : OfBase(T[i]) /\ T[i].kind # "snapshot"
    BY <1>7, <1>10
  <2>2. \A i \in 1 .. Len(T) : Content(T[i]) => \A n \in 1 .. T[i].seq :
             Reached(c, n) \/ \E j \in 1 .. i : Carries(T[j], n)
    <3> SUFFICES ASSUME NEW i \in 1 .. Len(T), NEW n \in 1 .. T[i].seq, ~Reached(c, n)
                 PROVE  \E j \in 1 .. i : Carries(T[j], n)
      OBVIOUS
    <3>1. i = 1 /\ T[i] = a /\ 1 \in 1 .. i
      BY <1>7
    <3> QED
      BY <1>6, <1>7, <1>11, <3>1
  <2>3. Stopped => Stopped'
    BY <1>1
  <2> QED
    BY <1>1, <1>3, <1>7, <1>9, <2>1, <2>2, <2>3, GrowStream
<1>13. LoopInv(c)'
    BY <1>1, <1>2, <1>3, <1>7, <1>8 DEF LinkInv, LoopInv, Opening
<1>14. ClientInv(c)'
    BY <1>1, <1>2, <1>3 DEF LinkInv, ClientInv, Opening
<1>15. QueueInv(c)'
    BY <1>1, <1>2, QueueTail DEF LinkInv
<1>16. CapturedInv(c)'
    BY <1>2 DEF CapturedInv
<1>17. CoverInv(c)'
  <2>1. \A n \in 1 .. (u - (k - 1)) : n \in 1 .. a.seq
    BY <1>4, <1>5
  <2>2. 1 \in 1 .. Len(T)
    BY <1>7
  <2>3. \A n \in 1 .. (u - (k - 1)) : Reached(c, n)'
    BY <1>6, <1>7, <1>11, <1>12, <2>1, <2>2
  <2> QED
    BY <1>1, <1>2, <1>5, <1>6, <1>12, <2>3 DEF CoverInv, u
<1> QED
    BY <1>12, <1>13, <1>14, <1>15, <1>16, <1>17, Together

\* The loop changes its phase and sends nothing.
LEMMA PhaseLink ==
    ASSUME TypeOK, NEW c \in Clients, LinkInv(c), UNCHANGED <<routerVars, status, net, view>>,
           srv[c].phase \in {"serving", "replaying", "syncing"}, srv[c].outbox = <<>>,
           srv'[c].phase \in {"serving", "replaying", "syncing", "draining"},
           srv'[c].phase = "draining" => Stopped,
           srv'[c].phase \in {"replaying", "syncing"} =>
               /\ view[c].phase = "attached"
               /\ srv'[c].resume # NoResume /\ srv'[c].resume <= view[c].last_seq,
           srv'[c].subscribed <=> srv[c].subscribed, srv'[c].queue = srv[c].queue,
           srv'[c].overflow <=> srv[c].overflow, srv'[c].lagged <=> srv[c].lagged,
           srv'[c].watermark = srv[c].watermark, srv'[c].outbox = srv[c].outbox,
           \/ requests'[c] = requests[c]
           \/ requests[c] # <<>> /\ requests'[c] = Tail(requests[c])
    PROVE  LinkInv(c)'
<1>1. /\ base' = base /\ Upto(c)' = Upto(c) /\ (Stopped' <=> Stopped) /\ dispatch' = dispatch
      /\ net' = net /\ view' = view
    BY Quiet
<1>2. /\ srv[c].phase \notin Opening \cup {"none", "closing"} /\ srv[c].phase \in Served
      /\ srv'[c].phase \notin Opening \cup {"none", "closing", "pumping"} /\ srv[c].subscribed
      /\ view[c].phase \in {"attaching", "catching", "attached"}
    BY DEF Opening, Served, LinkInv, LoopInv
<1>3. StreamPart(c)' /\ \A n : Reached(c, n) => Reached(c, n)'
    BY <1>1, <1>2, StayStream
<1>4. LoopInv(c)'
    BY <1>1, <1>2 DEF LinkInv, LoopInv
<1>5. ClientInv(c)'
  <2>1. (requests'[c] # <<>> => requests[c] # <<>>)
    OBVIOUS
  <2>2. \A i \in 1 .. Len(requests'[c]) : requests'[c][i] <= view[c].last_seq
    <3>1. \A i \in 1 .. Len(requests[c]) : requests[c][i] <= view[c].last_seq
      BY DEF LinkInv, ClientInv
    <3> DEFINE r == requests[c]
               t == Tail(requests[c])
    <3>2. r \in Seq(Seqs)
      BY Typed
    <3>3. r # <<>> => /\ \A i \in 1 .. Len(t) : i + 1 \in 1 .. Len(r) /\ t[i] = r[i + 1]
      BY <3>2
    <3> HIDE DEF r, t
    <3>4. r # <<>> => \A i \in 1 .. Len(t) : t[i] <= view[c].last_seq
      BY <3>1, <3>3 DEF r
    <3> QED
      BY <3>1, <3>4 DEF r, t
  <2> QED
    BY <1>1, <1>2, <2>1, <2>2 DEF LinkInv, ClientInv
<1>6. QueueInv(c)'
    BY <1>1, <1>2, QueueStays DEF LinkInv
<1>7. CapturedInv(c)'
    BY DEF CapturedInv
<1>8. CoverInv(c)'
    BY <1>1, <1>2, <1>3, CoverStays DEF LinkInv
<1> QED
    BY <1>3, <1>4, <1>5, <1>6, <1>7, <1>8, Together

LEMMA HandleSyncLink ==
    ASSUME TypeOK, NEW c \in Clients, LinkInv(c), HandleSync(c)
    PROVE  LinkInv(c)'
<1>1. UNCHANGED <<routerVars, status, net, view>> /\ requests[c] # <<>> /\ requests'[c] = Tail(requests[c])
    BY DEF HandleSync, TypeOK
<1>2. /\ srv[c].phase = "serving" /\ srv[c].outbox = <<>> /\ srv'[c].phase = "replaying"
      /\ srv'[c].resume = Head(requests[c])
      /\ (srv'[c].subscribed <=> srv[c].subscribed) /\ srv'[c].queue = srv[c].queue
      /\ (srv'[c].overflow <=> srv[c].overflow) /\ (srv'[c].lagged <=> srv[c].lagged)
      /\ srv'[c].watermark = srv[c].watermark /\ srv'[c].outbox = srv[c].outbox
    BY HandleSyncDoes
<1>3. /\ view[c].phase = "attached"
      /\ Head(requests[c]) # NoResume /\ Head(requests[c]) <= view[c].last_seq
  <2>1. requests[c] \in Seq(Seqs)
    BY Typed
  <2>2. 1 \in 1 .. Len(requests[c]) /\ Head(requests[c]) = requests[c][1]
    BY <1>1, <2>1
  <2>3. Head(requests[c]) # NoResume
    BY <1>1, <2>1, Numbers DEF NoResume
  <2> QED
    BY <1>1, <2>2, <2>3 DEF LinkInv, ClientInv
<1> QED
    BY <1>1, <1>2, <1>3, PhaseLink

LEMMA SyncChooseLink ==
    ASSUME TypeOK, NEW c \in Clients, LinkInv(c), SyncReplay(c), ~ReplayAvailable(srv[c].resume)
    PROVE  LinkInv(c)'
<1>1. UNCHANGED <<routerVars, status, net, view>> /\ requests' = requests
    BY DEF SyncReplay
<1>2. /\ srv[c].phase = "replaying" /\ srv'[c].phase = "syncing" /\ srv'[c].resume = srv[c].resume
      /\ (srv'[c].subscribed <=> srv[c].subscribed) /\ srv'[c].queue = srv[c].queue
      /\ (srv'[c].overflow <=> srv[c].overflow) /\ (srv'[c].lagged <=> srv[c].lagged)
      /\ srv'[c].watermark = srv[c].watermark /\ srv'[c].outbox = srv[c].outbox
    BY SyncChooseDoes
<1>3. /\ view[c].phase = "attached" /\ srv[c].outbox = <<>>
      /\ srv[c].resume # NoResume /\ srv[c].resume <= view[c].last_seq
    BY <1>2 DEF LinkInv, ClientInv, LoopInv
<1> QED
    BY <1>1, <1>2, <1>3, PhaseLink

LEMMA SyncNothingLink ==
    ASSUME TypeOK, NEW c \in Clients, LinkInv(c), SyncSnapshotNot(c)
    PROVE  LinkInv(c)'
<1>1. UNCHANGED <<routerVars, status, net, view>> /\ requests' = requests
    BY DEF SyncSnapshotNot
<1>2. /\ srv[c].phase = "syncing" /\ srv'[c].phase = "serving"
      /\ (srv'[c].subscribed <=> srv[c].subscribed) /\ srv'[c].queue = srv[c].queue
      /\ (srv'[c].overflow <=> srv[c].overflow) /\ (srv'[c].lagged <=> srv[c].lagged)
      /\ srv'[c].watermark = srv[c].watermark /\ srv'[c].outbox = srv[c].outbox
    BY SyncNothingDoes
<1>3. srv[c].outbox = <<>>
    BY <1>2 DEF LinkInv, LoopInv
<1> QED
    BY <1>1, <1>2, <1>3, PhaseLink

LEMMA StartDrainLink ==
    ASSUME TypeOK, NEW c \in Clients, LinkInv(c), StartDrain(c)
    PROVE  LinkInv(c)'
<1>1. UNCHANGED <<routerVars, status, net, view>> /\ requests' = requests /\ srv[c].outbox = <<>>
    BY DEF StartDrain, Serving
<1>2. /\ srv[c].phase = "serving" /\ srv'[c].phase = "draining" /\ Stopped
      /\ (srv'[c].subscribed <=> srv[c].subscribed) /\ srv'[c].queue = srv[c].queue
      /\ (srv'[c].overflow <=> srv[c].overflow) /\ (srv'[c].lagged <=> srv[c].lagged)
      /\ srv'[c].watermark = srv[c].watermark /\ srv'[c].outbox = srv[c].outbox
    BY StartDrainDoes
<1> QED
    BY <1>1, <1>2, PhaseLink

\* A sync is answered with T, which covers everything up to the new watermark.
LEMMA SyncedLink ==
    ASSUME TypeOK, NEW c \in Clients, LinkInv(c), UNCHANGED <<routerVars, status, net, requests, view>>,
           srv[c].phase \in {"replaying", "syncing"}, srv'[c].phase = "serving",
           srv'[c].subscribed <=> srv[c].subscribed, srv'[c].queue = srv[c].queue,
           srv'[c].overflow <=> srv[c].overflow, srv'[c].lagged <=> srv[c].lagged,
           NEW T \in Seq(Messages), srv'[c].outbox = T, \A i \in 1 .. Len(T) : OfBase(T[i]),
           \A i \in 1 .. Len(T) : Content(T[i]) => \A n \in 1 .. T[i].seq :
               n <= view[c].last_seq \/ \E j \in 1 .. i : Carries(T[j], n),
           \A n \in 1 .. srv'[c].watermark :
               n <= view[c].last_seq \/ \E j \in 1 .. Len(T) : Carries(T[j], n)
    PROVE  LinkInv(c)'
<1>1. /\ base' = base /\ Upto(c)' = Upto(c) /\ (Stopped' <=> Stopped) /\ dispatch' = dispatch
      /\ net' = net /\ view' = view /\ requests' = requests
    BY Quiet
<1>2. /\ srv[c].phase \notin Opening \cup {"none", "closing"} /\ srv[c].phase \in Served
      /\ srv'[c].phase \notin Opening \cup {"none", "closing", "pumping"} /\ srv[c].subscribed
      /\ srv[c].outbox = <<>> /\ view[c].phase = "attached"
    BY DEF Opening, Served, LinkInv, LoopInv, ClientInv
<1>3. Grows(c, T)
    BY <1>1, <1>2, GrowsIf
<1>4. \A n : n <= view[c].last_seq => Reached(c, n)
    BY <1>2 DEF Reached, Shown
<1>5. /\ StreamPart(c)' /\ \A n : Reached(c, n) => Reached(c, n)'
      /\ \A n : \A i \in 1 .. Len(T) : Carries(T[i], n) => Reached(c, n)'
  <2>1. \A i \in 1 .. Len(T) : Content(T[i]) => \A n \in 1 .. T[i].seq :
             Reached(c, n) \/ \E j \in 1 .. i : Carries(T[j], n)
    BY <1>4
  <2> QED
    BY <1>1, <1>2, <1>3, <2>1, GrowStream
<1>6. LoopInv(c)'
    BY <1>1, <1>2 DEF LinkInv, LoopInv
<1>7. ClientInv(c)'
    BY <1>1, <1>2 DEF LinkInv, ClientInv
<1>8. QueueInv(c)'
    BY <1>1, <1>2, QueueStays DEF LinkInv
<1>9. CapturedInv(c)'
    BY DEF CapturedInv
<1>10. CoverInv(c)'
  <2>1. \A n \in 1 .. srv'[c].watermark : Reached(c, n)'
    BY <1>4, <1>5
  <2>2. ~srv[c].lagged => \A n \in 1 .. (Upto(c) - Len(srv[c].queue)) : Reached(c, n)'
    BY <1>2, <1>5 DEF LinkInv, CoverInv
  <2> QED
    BY <1>1, <2>1, <2>2 DEF CoverInv
<1> QED
    BY <1>5, <1>6, <1>7, <1>8, <1>9, <1>10, Together

LEMMA SyncReplayLink ==
    ASSUME TypeOK, RouterInv, NEW c \in Clients, LinkInv(c), SyncReplay(c),
           ReplayAvailable(srv[c].resume)
    PROVE  LinkInv(c)'
<1> DEFINE last == srv[c].resume
           R == ReplayEvents(last)
<1>1. UNCHANGED <<routerVars, status, net, requests, view>>
    BY DEF SyncReplay
<1>2. /\ srv[c].phase = "replaying" /\ srv'[c].phase = "serving"
      /\ (srv'[c].subscribed <=> srv[c].subscribed) /\ srv'[c].queue = srv[c].queue
      /\ (srv'[c].overflow <=> srv[c].overflow) /\ (srv'[c].lagged <=> srv[c].lagged)
      /\ srv'[c].watermark = sequence /\ srv'[c].outbox = R
    BY SyncReplayDoes
<1>3. /\ last # NoResume /\ last <= view[c].last_seq
      /\ view[c].last_seq \in Nat /\ sequence \in Nat
    BY <1>2, Typed DEF LinkInv, ClientInv
<1>4. last \in Nat
    BY <1>3, Typed, Numbers DEF ServeLoops
<1>5. /\ R \in Seq(Messages)
      /\ \A i \in 1 .. Len(R) : OfBase(R[i]) /\ R[i].kind = "event" /\ R[i].seq = last + i
      /\ \A n \in 1 .. sequence :
            n <= last \/ \E i \in 1 .. Len(R) : n = last + i /\ Carries(R[i], n)
    BY <1>4, ReplayCarries DEF RouterInv
<1> HIDE DEF R, last
<1>6. \A i \in 1 .. Len(R) : \A n \in 1 .. R[i].seq :
          n <= view[c].last_seq \/ \E j \in 1 .. i : Carries(R[j], n)
  <2> SUFFICES ASSUME NEW i \in 1 .. Len(R), NEW n \in 1 .. R[i].seq, ~(n <= view[c].last_seq)
               PROVE  \E j \in 1 .. i : Carries(R[j], n)
    OBVIOUS
  <2>1. R[i].seq = last + i /\ Len(R) \in Nat
    BY <1>5
  <2> DEFINE j == n - last
  <2>2. j \in 1 .. i /\ j \in 1 .. Len(R) /\ n = last + j
    BY <1>3, <1>4, <2>1
  <2> HIDE DEF j
  <2>3. Carries(R[j], n)
    BY <1>5, <2>2 DEF Carries
  <2> QED
    BY <2>2, <2>3
<1>7. \A n \in 1 .. sequence : n <= view[c].last_seq \/ \E j \in 1 .. Len(R) : Carries(R[j], n)
  <2>1. \A n \in 1 .. sequence : n <= last => n <= view[c].last_seq
    BY <1>3, <1>4
  <2> QED
    BY <1>5, <2>1
<1> QED
    BY <1>1, <1>2, <1>5, <1>6, <1>7, SyncedLink

LEMMA SyncSnapshotLink ==
    ASSUME TypeOK, SnapInv, NEW c \in Clients, LinkInv(c), SyncSnapshotOk(c)
    PROVE  LinkInv(c)'
<1> DEFINE a == Snapshot(snapshot)
           T == <<a>>
<1>1. UNCHANGED <<routerVars, status, net, requests, view>>
    BY DEF SyncSnapshotOk
<1>2. /\ srv[c].phase = "syncing" /\ srv'[c].phase = "serving"
      /\ (srv'[c].subscribed <=> srv[c].subscribed) /\ srv'[c].queue = srv[c].queue
      /\ (srv'[c].overflow <=> srv[c].overflow) /\ (srv'[c].lagged <=> srv[c].lagged)
      /\ srv'[c].watermark = snapshot.seq /\ srv'[c].outbox = T
    BY SyncSnapshotDoes
<1>3. snapshot \in Snapshots /\ snapshot.seq \in Seqs /\ snapshot.seq \in Nat
    BY Numbers DEF TypeOK, Snapshots
<1>4. /\ a \in Messages /\ a.kind = "snapshot" /\ a.seq = snapshot.seq
      /\ a.events = 1 .. (base + snapshot.seq)
    BY <1>3, MessageType, MessageFields DEF Snapshot, Snapshots, Kinds, SnapInv
<1> HIDE DEF a
<1>5. T \in Seq(Messages) /\ Len(T) = 1 /\ T[1] = a /\ \A i \in 1 .. Len(T) : i = 1
    BY <1>4
<1> HIDE DEF T
<1>6. \A i \in 1 .. Len(T) : OfBase(T[i])
    BY <1>4, <1>5 DEF OfBase
<1>7. \A n \in 1 .. snapshot.seq : Carries(T[1], n)
    BY <1>3, <1>4, <1>5 DEF Carries
<1>8. \A i \in 1 .. Len(T) : i = 1 /\ 1 \in 1 .. i /\ T[i].seq = snapshot.seq
    BY <1>4, <1>5
<1>9. 1 \in 1 .. Len(T)
    BY <1>5
<1> QED
    BY <1>1, <1>2, <1>5, <1>6, <1>7, <1>8, <1>9, SyncedLink

\* A stopped loop sends what is queued.
LEMMA DrainedLink ==
    ASSUME TypeOK, NEW c \in Clients, LinkInv(c), Drain(c), srv[c].queue = <<>>
    PROVE  LinkInv(c)'
<1>1. /\ base' = base /\ Upto(c)' = Upto(c) /\ (Stopped' <=> Stopped) /\ dispatch' = dispatch
      /\ net' = net /\ view' = view /\ requests' = requests /\ srv[c].outbox = <<>>
    BY Quiet DEF Drain
<1>2. /\ srv[c].phase = "draining" /\ srv'[c].phase = "closing"
      /\ (srv'[c].subscribed <=> srv[c].subscribed) /\ (srv'[c].overflow <=> srv[c].overflow)
      /\ srv'[c].queue = srv[c].queue /\ srv'[c].outbox = <<Revoked("stopped")>>
    BY DrainedDoes
<1> DEFINE a == Revoked("stopped")
           T == <<a>>
<1>3. a \in Messages /\ a.kind = "stopped"
    BY RevokedType
<1> HIDE DEF a
<1>4. T \in Seq(Messages)
    BY <1>3
<1>5. srv'[c].outbox = T
    BY <1>2 DEF a
<1> HIDE DEF T
<1>6. Grows(c, T)
    BY <1>1, <1>2, <1>4, <1>5, GrowsIf
<1>7. srv[c].phase \notin Opening \cup {"none", "closing"} /\ srv[c].subscribed
    BY <1>2 DEF Opening, LinkInv, LoopInv
<1> QED
    BY <1>1, <1>2, <1>3, <1>5, <1>6, <1>7, ClosingLink DEF T

LEMMA DrainLink ==
    ASSUME TypeOK, NEW c \in Clients, LinkInv(c), Drain(c), srv[c].queue # <<>>
    PROVE  LinkInv(c)'
<1> DEFINE a == Head(srv[c].queue)
           T == IF a.seq <= srv[c].watermark THEN <<>> ELSE <<a>>
<1>1. /\ base' = base /\ Upto(c)' = Upto(c) /\ (Stopped' <=> Stopped) /\ dispatch' = dispatch
      /\ net' = net /\ view' = view /\ requests' = requests
    BY Quiet DEF Drain
<1>2. /\ srv[c].phase = "draining" /\ srv[c].outbox = <<>> /\ srv'[c].phase = srv[c].phase
      /\ (srv'[c].subscribed <=> srv[c].subscribed) /\ (srv'[c].overflow <=> srv[c].overflow)
      /\ (srv'[c].lagged <=> srv[c].lagged)
      /\ srv'[c].queue = Tail(srv[c].queue) /\ srv'[c].outbox = T
    BY DrainDoes
<1>3. /\ srv[c].phase \notin Opening \cup Served \cup {"none", "closing"} /\ srv[c].subscribed
      /\ Stopped /\ view[c].phase \in {"attaching", "catching", "attached"}
    BY <1>2 DEF Opening, Served, LinkInv, LoopInv
<1>4. a \in Messages /\ IsEvent(a)
    BY HeadOfQueue
<1>5. a.kind = "event" /\ OfBase(a)
    BY <1>4 DEF IsEvent, OfBase
<1> HIDE DEF a
<1>6. T \in Seq(Messages) /\ \A i \in 1 .. Len(T) : T[i] = a
  <2>1. CASE a.seq <= srv[c].watermark
    BY <2>1
  <2>2. CASE ~(a.seq <= srv[c].watermark)
    BY <1>4, <2>2
  <2> QED
    BY <2>1, <2>2
<1> HIDE DEF T
<1>7. Grows(c, T)
    BY <1>1, <1>2, <1>6, GrowsIf
<1>8. StreamPart(c)'
  <2>1. \A i \in 1 .. Len(T) : OfBase(T[i]) /\ T[i].kind # "snapshot"
    BY <1>5, <1>6
  <2> QED
    BY <1>1, <1>2, <1>3, <1>6, <1>7, <2>1, GrowStream
<1>9. LoopInv(c)'
    BY <1>1, <1>2, <1>3 DEF LinkInv, LoopInv, Opening
<1>10. ClientInv(c)'
    BY <1>1, <1>2, <1>3 DEF LinkInv, ClientInv, Opening
<1>11. QueueInv(c)'
    BY <1>1, <1>2, QueueTail DEF LinkInv
<1>12. CapturedInv(c)' /\ CoverInv(c)'
    BY <1>2 DEF CapturedInv, CoverInv, Served
<1> QED
    BY <1>8, <1>9, <1>10, <1>11, <1>12, Together

\* The client.
LEMMA Events ==
    ASSUME NEW h \in Nat
    PROVE  Cardinality(1 .. h) = h
<1>1. 1 \in Int /\ h \in Int
    OBVIOUS
<1>2. Cardinality(1 .. h) = IF 1 > h THEN 0 ELSE h - 1 + 1
    BY <1>1, FS_Interval
<1> QED
    BY <1>2

LEMMA SnapshotOrigin ==
    ASSUME TypeOK, NEW c \in Clients, CoreInv(c), NEW i \in 1 .. Len(Stream(c)),
           Stream(c)[i].kind = "snapshot"
    PROVE  Cardinality(Stream(c)[i].events) - Stream(c)[i].seq \in 0 .. base
<1> DEFINE m == Stream(c)[i]
           s == m.seq
<1>1. base \in Nat
    BY Typed
<1>2. m \in Messages
  <2> DEFINE S == Stream(c)
  <2>1. S \in Seq(Messages)
    BY Typed
  <2> HIDE DEF S
  <2>2. S[i] \in Messages
    BY <2>1 DEF S
  <2> QED
    BY <2>2 DEF S
<1> HIDE DEF m
<1>3. s \in Nat
    BY <1>2, MessageType, Numbers
<1>4. CASE OfBase(m)
  <2>1. m.events = 1 .. (base + s)
    BY <1>4 DEF OfBase, m
  <2> HIDE DEF s
  <2>2. base + s \in Nat
    BY <1>1, <1>3
  <2>3. Cardinality(1 .. (base + s)) = base + s
    BY <2>2, Events
  <2>4. Cardinality(m.events) - s = base
    BY <1>1, <1>3, <2>1, <2>3
  <2> QED
    BY <1>1, <2>4 DEF m, s
<1>5. CASE Cardinality(m.events) - s \in 0 .. (base - 1)
    BY <1>1, <1>5 DEF m
<1> QED
    BY <1>4, <1>5 DEF CoreInv, m

LEMMA HeadOrigin ==
    ASSUME TypeOK, NEW c \in Clients, CoreInv(c), net[c] # <<>>, Head(net[c]).kind = "snapshot"
    PROVE  Cardinality(Head(net[c]).events) - Head(net[c]).seq \in Seqs
<1> DEFINE a == net[c]
           o == srv[c].outbox
<1>1. a \in Seq(Messages) /\ o \in Seq(Messages) /\ a # <<>> /\ Stream(c) = a \o o
    BY Typed DEF Stream
<1> HIDE DEF a, o
<1>2. Len(a) > 0 /\ Head(a) = a[1] /\ Len(a) \in Nat /\ Len(o) \in Nat
    BY <1>1, TailElements
<1>3. (a \o o)[1] = a[1] /\ 1 \in 1 .. Len(a \o o)
    BY <1>1, <1>2, ConcatElements
<1>4. Cardinality(Stream(c)[1].events) - Stream(c)[1].seq \in 0 .. base
    BY <1>1, <1>2, <1>3, SnapshotOrigin DEF a
<1>5. 0 .. base \subseteq Seqs
    BY Numbers DEF TypeOK, Seqs
<1> QED
    BY <1>1, <1>2, <1>3, <1>4, <1>5 DEF a

\* A snapshot of this core gives a view of this core.
LEMMA OriginOfBase ==
    ASSUME NEW m \in Messages, base \in Nat, m.kind = "snapshot", OfBase(m)
    PROVE  Cardinality(m.events) - m.seq = base
<1> DEFINE s == m.seq
<1>1. s \in Nat
    BY MessageType, Numbers
<1>2. m.events = 1 .. (base + s)
    BY DEF OfBase
<1> HIDE DEF s
<1>3. base + s \in Nat
    BY <1>1
<1>4. Cardinality(1 .. (base + s)) = base + s
    BY <1>3, Events
<1>5. Cardinality(m.events) - s = base
    BY <1>1, <1>2, <1>4
<1> QED
    BY <1>5 DEF s

LEMMA TakenLink ==
    ASSUME TypeOK, NEW c \in Clients, LinkInv(c), UNCHANGED <<routerVars, status>>,
           net[c] # <<>>, net'[c] = Tail(net[c]), srv'[c] = srv[c],
           view' \in [Clients -> Views], TakesIn(view'[c], view[c], Head(net[c])),
           \/ requests'[c] = requests[c]
           \/ view[c].phase = "attached" /\ requests'[c] = Append(requests[c], view[c].last_seq)
    PROVE  LinkInv(c)'
<1> DEFINE S == Stream(c)
           R == Stream(c)'
           m == S[1]
           v == view[c]
           w == view'[c]
<1>1. /\ base' = base /\ Upto(c)' = Upto(c) /\ (Stopped' <=> Stopped) /\ dispatch' = dispatch
    BY Quiet
<1>2. Falls(c) /\ m = Head(net[c])
    BY FallsIf
<1>3. /\ Len(S) \in Nat /\ Len(S) > 0 /\ Len(R) = Len(S) - 1 /\ S \in Seq(Messages)
      /\ \A i \in 1 .. Len(R) : R[i] = S[i + 1]
    BY <1>2, Typed DEF Falls
<1>4. \A i \in 1 .. Len(R) : i + 1 \in 1 .. Len(S)
    BY <1>3
<1>5. TakesIn(w, v, m)
    BY <1>2
<1>6. /\ v \in Views /\ w \in Views /\ v.last_seq \in Nat /\ w.last_seq \in Nat
      /\ v.origin \in Nat /\ base \in Nat /\ w.origin \in Nat
    BY Typed, Numbers DEF Views
<1>7. v.origin <= base /\ (v.origin = base => v.events = 1 .. (base + v.last_seq))
    BY DEF LinkInv, CoreInv, ViewInv
<1>8. (\A i \in 1 .. Len(S) : OfBase(S[i]))
      \/ /\ v.origin < base
         /\ \A i \in 1 .. Len(S) :
               /\ S[i].kind = "event" => S[i].seq > 0
               /\ S[i].kind = "snapshot" => Cardinality(S[i].events) - S[i].seq \in 0 .. (base - 1)
    BY DEF LinkInv, CoreInv
<1>9. srv[c].phase # "none" => \A i \in 1 .. Len(S) : OfBase(S[i])
    BY DEF LinkInv, CoreInv
<1>10. /\ v.phase = "attaching" => \A i \in 3 .. Len(S) : S[i].kind # "snapshot"
       /\ v.phase = "catching" => \A i \in 2 .. Len(S) : S[i].kind # "snapshot"
    BY DEF LinkInv, ShapeInv
<1>11. \A x : (OfBase(x)' <=> OfBase(x)) /\ (IsEvent(x)' <=> IsEvent(x))
    BY <1>1 DEF OfBase, IsEvent
<1>12. 1 \in 1 .. Len(S) /\ \A i \in 1 .. Len(S) : S[i] \in Messages /\ S[i].seq \in Nat
  <2> HIDE DEF S
  <2>1. 1 \in 1 .. Len(S) /\ \A i \in 1 .. Len(S) : S[i] \in Messages
    BY <1>3
  <2> QED
    BY <2>1, MessageType, Numbers
<1>13. \A i \in 1 .. Len(S) : S[i].kind = "event" => S[i].seq > 0
    BY <1>8 DEF OfBase, IsEvent
<1>14. srv[c].phase \in Opening \cup Served \/ ~Stopped =>
          Closed(c)' /\ \A n \in Int : Reached(c, n) => Reached(c, n)'
  <2> SUFFICES ASSUME srv[c].phase \in Opening \cup Served \/ ~Stopped
               PROVE  Closed(c)' /\ \A n \in Int : Reached(c, n) => Reached(c, n)'
    OBVIOUS
  <2>1. Closed(c) /\ ShapeInv(c)
    BY DEF LinkInv, ClosedInv
  <2>2. /\ \A n \in Int : Shown(c, n) => Shown(c, n)'
        /\ \A n \in Int : Carries(Stream(c)[1], n) => Shown(c, n)'
    BY <1>2, <1>5, <1>12, <1>13, <2>1, TakenIsShown
  <2> QED
    BY <1>2, <1>12, <2>1, <2>2, FallClosed
<1> HIDE DEF S, R, v, w, m
<1>15. /\ w.phase \in {"catching", "attached"} /\ v.phase \in {"attaching", "catching", "attached"}
       /\ w.phase = "catching" => v.phase \in {"attaching", "catching"}
       /\ v.phase = "attached" => w.phase = "attached" /\ v.last_seq <= w.last_seq
       /\ \/ Shows(w, v)
          \/ m.kind = "event" /\ Applies(w, v, m)
          \/ m.kind = "snapshot" /\ Rebases(w, m)
    BY <1>5, <1>6, <1>12 DEF TakesIn, Shows, Applies, Rebases, m
<1>16. m = S[1] /\ m \in Messages /\ m.seq \in Nat
    BY <1>12 DEF m
<1>17. CoreInv(c)'
  <2>1. CASE \A i \in 1 .. Len(S) : OfBase(S[i])
    <3>1. \A i \in 1 .. Len(R) : OfBase(R[i])
      BY <1>3, <1>4, <2>1
    <3>2. w.origin <= base
      <4>1. m.kind = "snapshot" => Cardinality(m.events) - m.seq = base
        BY <1>6, <1>12, <1>16, <2>1, OriginOfBase
      <4> QED
        BY <1>6, <1>7, <1>15, <4>1 DEF Shows, Applies, Rebases
    <3> QED
      BY <1>1, <1>11, <3>1, <3>2 DEF CoreInv, R, w
  <2>2. CASE /\ srv[c].phase = "none" /\ v.origin < base
             /\ \A i \in 1 .. Len(S) :
                  /\ S[i].kind = "event" => S[i].seq > 0
                  /\ S[i].kind = "snapshot" => Cardinality(S[i].events) - S[i].seq \in 0 .. (base - 1)
    <3>1. \A i \in 1 .. Len(R) :
                  /\ R[i].kind = "event" => R[i].seq > 0
                  /\ R[i].kind = "snapshot" => Cardinality(R[i].events) - R[i].seq \in 0 .. (base - 1)
      BY <1>3, <1>4, <2>2
    <3>2. w.origin < base
      <4>1. m.kind = "snapshot" => Cardinality(m.events) - m.seq \in 0 .. (base - 1)
        BY <1>12, <1>16, <2>2
      <4> QED
        BY <1>6, <1>15, <2>2, <4>1 DEF Shows, Applies, Rebases
    <3>3. w.origin <= base
      BY <1>6, <3>2
    <3> QED
      BY <1>1, <2>2, <3>1, <3>2, <3>3 DEF CoreInv, R, w
  <2> QED
    BY <1>8, <1>9, <2>1, <2>2
<1>18. ViewInv(c)'
  <2> SUFFICES ASSUME w.origin = base PROVE w.events = 1 .. (base + w.last_seq)
    BY <1>1 DEF ViewInv, w
  <2>1. CASE Shows(w, v)
    BY <1>7, <2>1 DEF Shows
  <2>2. CASE m.kind = "event" /\ Applies(w, v, m)
    <3>1. v.origin = base
      BY <2>2 DEF Applies
    <3>2. OfBase(m)
      BY <1>6, <1>8, <1>12, <1>16, <3>1
    <3>3. m.events = {base + m.seq} /\ m.seq = v.last_seq + 1 /\ w.last_seq = m.seq
          /\ w.events = v.events \cup m.events
      BY <2>2, <3>2 DEF OfBase, IsEvent, Applies
    <3>4. 1 .. (base + (v.last_seq + 1)) = (1 .. (base + v.last_seq)) \cup {base + (v.last_seq + 1)}
      BY <1>6
    <3> QED
      BY <1>7, <3>1, <3>3, <3>4
  <2>3. CASE m.kind = "snapshot" /\ Rebases(w, m)
    <3>1. OfBase(m)
      <4>1. Cardinality(m.events) - m.seq = base
        BY <2>3 DEF Rebases
      <4>2. base \notin 0 .. (base - 1)
        BY <1>6
      <4> QED
        BY <1>8, <1>12, <1>16, <2>3, <4>1, <4>2
    <3> QED
      BY <2>3, <3>1 DEF OfBase, Rebases
  <2> QED
    BY <1>15, <2>1, <2>2, <2>3
<1>19. ShapeInv(c)'
  <2>1. w.phase = "catching" => \A i \in 2 .. Len(R) : R[i].kind # "snapshot"
    <3> SUFFICES ASSUME w.phase = "catching", NEW i \in 2 .. Len(R) PROVE R[i].kind # "snapshot"
      OBVIOUS
    <3>1. i \in 1 .. Len(R) /\ i + 1 \in 3 .. Len(S) /\ i + 1 \in 2 .. Len(S)
      BY <1>3
    <3> QED
      BY <1>3, <1>10, <1>15, <3>1
  <2> QED
    BY <1>15, <2>1 DEF ShapeInv, R, w
<1>20. ClosedInv(c)'
    BY <1>1, <1>14 DEF ClosedInv
<1>21. CoverInv(c)'
  <2> SUFFICES ASSUME srv[c].phase \in Served, ~srv[c].lagged
               PROVE  /\ \A n \in 1 .. srv[c].watermark : Reached(c, n)'
                      /\ \A n \in 1 .. (Upto(c) - Len(srv[c].queue)) : Reached(c, n)'
    BY <1>1 DEF CoverInv
  <2>1. /\ \A n \in 1 .. srv[c].watermark : Reached(c, n)
        /\ \A n \in 1 .. (Upto(c) - Len(srv[c].queue)) : Reached(c, n)
    BY DEF LinkInv, CoverInv
  <2>2. \A a : \A n \in 1 .. a : n \in Int
    OBVIOUS
  <2> QED
    BY <1>14, <2>1, <2>2
<1>22. LoopInv(c)'
    BY <1>1, <1>15 DEF LinkInv, LoopInv, w
<1>23. srv[c].phase \notin Opening
    BY DEF LinkInv, ClientInv
<1>24. ClientInv(c)'
  <2>1. /\ srv[c].phase \in {"replaying", "syncing"} =>
            v.phase = "attached" /\ srv[c].resume # NoResume /\ srv[c].resume <= v.last_seq
        /\ requests[c] # <<>> => v.phase = "attached"
        /\ \A i \in 1 .. Len(requests[c]) : requests[c][i] <= v.last_seq
    BY DEF LinkInv, ClientInv, v
  <2>2. requests[c] \in Seq(Seqs) /\ srv[c].resume \in Int
    <3>1. srv[c] \in ServeLoops /\ requests[c] \in Seq(Seqs) /\ Seqs \subseteq Nat
      BY Typed, Numbers
    <3>2. srv[c].resume \in Seqs \cup {NoResume}
      BY <3>1 DEF ServeLoops
    <3>3. CASE srv[c].resume \in Seqs
      <4>1. srv[c].resume \in Nat
        BY <3>1, <3>3
      <4> QED
        BY <3>1, <4>1
    <3>4. CASE srv[c].resume = NoResume
      BY <3>1, <3>4 DEF NoResume
    <3> QED
      BY <3>2, <3>3, <3>4
  <2>3. srv[c].phase \in {"replaying", "syncing"} =>
            w.phase = "attached" /\ srv[c].resume # NoResume /\ srv[c].resume <= w.last_seq
    BY <1>6, <1>15, <2>1, <2>2
  <2>4. /\ requests'[c] # <<>> => w.phase = "attached"
        /\ \A i \in 1 .. Len(requests'[c]) : requests'[c][i] <= w.last_seq
    <3> DEFINE q == requests[c]
               p == requests'[c]
    <3>1. q \in Seq(Seqs) /\ (p = q \/ (v.phase = "attached" /\ p = Append(q, v.last_seq)))
      BY <2>2 DEF v
    <3>2. (q # <<>> => v.phase = "attached") /\ \A i \in 1 .. Len(q) : q[i] <= v.last_seq
      BY <2>1
    <3> HIDE DEF p, q
    <3>3. Seqs \subseteq Nat /\ \A i \in 1 .. Len(q) : q[i] \in Nat
      <4>1. \A i \in 1 .. Len(q) : q[i] \in Seqs
        BY <3>1
      <4> QED
        BY <4>1, Numbers
    <3>4. CASE p = q
      <4>1. ASSUME NEW i \in 1 .. Len(q) PROVE q[i] <= w.last_seq
        <5>1. q # <<>>
          BY <3>1
        <5>2. q[i] <= v.last_seq /\ q[i] \in Nat /\ v.last_seq <= w.last_seq
          BY <1>15, <3>2, <3>3, <5>1
        <5> QED
          BY <1>6, <5>2
      <4> QED
        BY <1>15, <3>2, <3>4, <4>1 DEF p, q
    <3>5. CASE v.phase = "attached" /\ p = Append(q, v.last_seq)
      <4>1. v.last_seq <= w.last_seq /\ w.phase = "attached"
        BY <1>15, <3>5
      <4>2. Len(p) = Len(q) + 1 /\ p[Len(q) + 1] = v.last_seq /\ \A i \in 1 .. Len(q) : p[i] = q[i]
        BY <3>1, <3>5
      <4>3. Len(q) \in Nat
        BY <3>1
      <4>4. ASSUME NEW i \in 1 .. Len(p) PROVE p[i] <= w.last_seq
        <5>1. CASE i \in 1 .. Len(q)
          <6>1. p[i] <= v.last_seq /\ p[i] \in Nat
            BY <3>2, <3>3, <4>2, <5>1
          <6> QED
            BY <1>6, <4>1, <6>1
        <5>2. CASE i = Len(q) + 1
          BY <4>1, <4>2, <5>2
        <5> QED
          BY <4>2, <4>3, <5>1, <5>2
      <4> QED
        BY <4>1, <4>4 DEF p
    <3> QED
      BY <3>1, <3>4, <3>5
  <2> QED
    BY <1>15, <1>23, <2>3, <2>4 DEF ClientInv, w
<1>25. QueueInv(c)'
    BY <1>1, QueueStays DEF LinkInv
<1>26. CapturedInv(c)'
    BY <1>23 DEF CapturedInv, Opening
<1> QED
    BY <1>17, <1>18, <1>19, <1>20, <1>21, <1>22, <1>24, <1>25, <1>26 DEF LinkInv

LEMMA ReceiveLink ==
    ASSUME TypeOK, NEW c \in Clients, LinkInv(c), Receive(c)
    PROVE  LinkInv(c)'
<1>1. UNCHANGED <<routerVars, status>> /\ base' = base /\ net[c] # <<>>
    BY DEF Receive, routerVars
<1>2. Head(net[c]).kind = "snapshot" => Cardinality(Head(net[c]).events) - Head(net[c]).seq \in Seqs
    BY <1>1, HeadOrigin DEF LinkInv
<1>3. CASE GivesUp(view'[c], view[c]) /\ Dropped(c)
    BY <1>1, <1>3, LinkDropped
<1>4. CASE /\ TakesIn(view'[c], view[c], Head(net[c]))
           /\ net'[c] = Tail(net[c]) /\ srv'[c] = srv[c]
           /\ \/ requests'[c] = requests[c]
              \/ /\ view[c].phase = "attached"
                 /\ requests'[c] = Append(requests[c], view[c].last_seq)
  <2>1. view' \in [Clients -> Views]
    BY <1>2, ReceiveDoes
  <2> QED
    BY <1>1, <1>4, <2>1, TakenLink
<1> QED
    BY <1>2, <1>3, <1>4, ReceiveDoes

LEMMA SyncLink ==
    ASSUME TypeOK, NEW c \in Clients, LinkInv(c), Sync(c)
    PROVE  LinkInv(c)'
<1>1. /\ UNCHANGED <<routerVars, status>> /\ srv' = srv /\ net' = net /\ view' = view
      /\ view[c].phase = "attached" /\ requests'[c] = Append(requests[c], view[c].last_seq)
    BY DEF Sync, TypeOK
<1>2. \A i \in 1 .. Len(requests'[c]) : requests'[c][i] <= view[c].last_seq
  <2> DEFINE q == requests[c]
             p == requests'[c]
             k == view[c].last_seq
  <2>1. q \in Seq(Seqs) /\ p = Append(q, k) /\ k \in Nat
    BY <1>1, Typed
  <2>2. \A i \in 1 .. Len(q) : q[i] <= k
    BY DEF LinkInv, ClientInv
  <2> HIDE DEF p, q, k
  <2>3. /\ Len(p) = Len(q) + 1 /\ p[Len(q) + 1] = k /\ Len(q) \in Nat
        /\ \A i \in 1 .. Len(q) : p[i] = q[i]
    BY <2>1
  <2>4. \A i \in 1 .. Len(p) : p[i] <= k
    <3> TAKE i \in 1 .. Len(p)
    <3>1. i \in 1 .. Len(q) \/ i = Len(q) + 1
      BY <2>3
    <3> QED
      BY <2>1, <2>2, <2>3, <3>1
  <2> QED
    BY <2>4 DEF p, k
<1>3. ClientInv(c)'
    BY <1>1, <1>2 DEF LinkInv, ClientInv
<1>4. base' = base /\ dispatch' = dispatch /\ Upto(c)' = Upto(c) /\ (Stopped' <=> Stopped)
    BY <1>1, Quiet
<1>5. srv[c].overflow => c \in dispatch'
    BY <1>4 DEF LinkInv, LoopInv
<1> QED
    BY <1>1, <1>3, <1>4, <1>5, LinkRest

LEMMA LoseTransportLink ==
    ASSUME TypeOK, NEW c \in Clients, LinkInv(c), LoseTransport(c)
    PROVE  LinkInv(c)'
<1>1. base' = base
    BY DEF LoseTransport, routerVars
<1> QED
    BY <1>1, LoseTransportDoes, LinkDropped

\* A client that may connect has an attempt left, and nothing of a connection.
LEMMA Detached ==
    ASSUME TypeOK, NEW c \in Clients, LinkInv(c), view[c].phase \in {"new", "lost"}
    PROVE  /\ view[c].tries < Attempts /\ srv[c] = Idle /\ net[c] = <<>> /\ requests[c] = <<>>
    BY Numbers DEF LinkInv, ClientInv, LoopInv

LEMMA RefuseLink ==
    ASSUME TypeOK, NEW c \in Clients, LinkInv(c), Refuse(c)
    PROVE  LinkInv(c)'
<1>1. base' = base /\ srv' = srv /\ net' = net /\ requests' = requests
    BY DEF Refuse, routerVars, linkVars
<1>2. view[c].tries < Attempts /\ srv[c] = Idle /\ net[c] = <<>> /\ requests[c] = <<>>
    BY Detached DEF Refuse
<1>3. GivesUp(view'[c], view[c])
    BY <1>2, RefuseDoes
<1>4. Dropped(c)
    BY <1>1, <1>2 DEF Dropped
<1> QED
    BY <1>1, <1>3, <1>4, LinkDropped

LEMMA ConnectLink ==
    ASSUME TypeOK, NEW c \in Clients, LinkInv(c), Connect(c)
    PROVE  LinkInv(c)'
<1>1. view[c].tries < Attempts
    BY Detached DEF Connect
<1>2. /\ net'[c] = <<>> /\ requests'[c] = <<>>
      /\ view'[c].phase = "attaching" /\ Shows(view'[c], view[c])
      /\ srv'[c].phase = "admitted" /\ srv'[c].outbox = <<>> /\ srv'[c].queue = <<>>
      /\ ~srv'[c].subscribed /\ ~srv'[c].overflow /\ ~srv'[c].lagged
      /\ srv'[c].resume \in {NoResume, view[c].last_seq}
    BY <1>1, ConnectDoes
<1>3. Stream(c)' = <<>> /\ Len(Stream(c)') = 0
    BY <1>2 DEF Stream
<1>4. base' = base \/ base' = base + sequence
    BY DEF Connect, routerVars, Total
<1>5. base \in Nat /\ sequence \in Nat /\ view[c].origin \in Nat
    BY Typed
<1>6. LoopInv(c)'
    BY <1>2 DEF LoopInv, Opening
<1>7. ClientInv(c)'
  <2>1. Len(requests'[c]) = 0
    BY <1>2
  <2> QED
    BY <1>2, <2>1 DEF ClientInv, Opening, Shows
<1>8. QueueInv(c)' /\ CapturedInv(c)' /\ CoverInv(c)'
  <2>1. Len(srv'[c].queue) = 0
    BY <1>2
  <2> QED
    BY <1>2, <2>1 DEF QueueInv, CapturedInv, CoverInv, Served
<1>9. CoreInv(c)'
  <2>1. view[c].origin <= base
    BY DEF LinkInv, CoreInv
  <2> QED
    BY <1>2, <1>3, <1>4, <1>5, <2>1 DEF CoreInv, Shows
<1>10. ShapeInv(c)' /\ ClosedInv(c)'
    BY <1>2, <1>3 DEF ShapeInv, ClosedInv, Closed, Opening
<1>11. ViewInv(c)'
  <2>1. view[c].origin <= base /\ (view[c].origin = base => view[c].events = 1 .. (base + view[c].last_seq))
    BY DEF LinkInv, CoreInv, ViewInv
  <2>2. view[c].origin = base' => base' = base
    BY <1>4, <1>5, <2>1
  <2> QED
    BY <1>2, <2>1, <2>2 DEF ViewInv, Shows
<1> QED
    BY <1>6, <1>7, <1>8, <1>9, <1>10, <1>11 DEF LinkInv

\* A reopened session leaves the other clients with links to the core that is gone.
LEMMA ReopenOthers ==
    ASSUME TypeOK, StatusInv, NEW c \in Clients, Connect(c), status = "evicted",
           NEW d \in Clients, d # c, LinkInv(d), Same(d)
    PROVE  LinkInv(d)'
<1>1. base' = base + sequence /\ status' = "live"
    BY DEF Connect, Total
<1>2. srv[d].phase = "none" /\ dispatch' = dispatch /\ dispatch = {} /\ srv[d] = Idle
    BY DEF StatusInv, Connect, LinkInv, LoopInv
<1>3. ~srv[d].subscribed /\ ~srv[d].overflow /\ srv[d].queue = <<>> /\ srv[d].outbox = <<>>
    BY <1>2 DEF Idle
<1>4. base \in Nat /\ sequence \in Nat /\ view[d].origin \in Nat
    BY Typed
<1>5. ~Stopped
    BY DEF Stopped
<1>6. CASE sequence = 0
  <2>1. base' = base
    BY <1>1, <1>4, <1>6
  <2> QED
    BY <1>3, <1>5, <2>1, LinkFrame
<1>7. CASE sequence > 0
  <2>1. Stream(d)' = Stream(d)
    BY DEF Stream, Same
  <2>2. view[d].origin <= base
    BY DEF LinkInv, CoreInv
  <2>3. LoopInv(d)'
    BY <1>2 DEF LinkInv, LoopInv, Same, Stopped
  <2>4. ClientInv(d)'
    BY DEF LinkInv, ClientInv, Same
  <2>5. QueueInv(d)' /\ CapturedInv(d)' /\ CoverInv(d)'
    <3>1. Len(srv'[d].queue) = 0 /\ srv'[d].phase = "none" /\ ~srv'[d].subscribed
      BY <1>2, <1>3 DEF Same
    <3> QED
      BY <3>1 DEF QueueInv, CapturedInv, CoverInv, Served
  <2>6. CoreInv(d)'
    <3>1. ASSUME NEW i \in 1 .. Len(Stream(d)), Stream(d)[i].kind = "snapshot"
          PROVE  Cardinality(Stream(d)[i].events) - Stream(d)[i].seq \in 0 .. (base' - 1)
      <4>1. Cardinality(Stream(d)[i].events) - Stream(d)[i].seq \in 0 .. base
        BY <3>1, SnapshotOrigin DEF LinkInv
      <4> QED
        BY <1>1, <1>4, <1>7, <4>1
    <3>2. ASSUME NEW i \in 1 .. Len(Stream(d)), Stream(d)[i].kind = "event"
          PROVE  Stream(d)[i].seq > 0
      BY <3>2 DEF LinkInv, CoreInv, OfBase, IsEvent
    <3>3. view[d].origin < base' /\ view[d].origin <= base'
      BY <1>1, <1>4, <1>7, <2>2
    <3>4. srv'[d].phase = "none" /\ view'[d] = view[d]
      BY <1>2 DEF Same
    <3> QED
      BY <2>1, <3>1, <3>2, <3>3, <3>4 DEF CoreInv
  <2>7. ShapeInv(d)'
    BY <2>1 DEF LinkInv, ShapeInv, Same, Content
  <2>8. \A n : Shown(d, n)' <=> Shown(d, n)
    BY <2>1 DEF Shown, Same
  <2>9. ClosedInv(d)'
    BY <1>5, <2>1, <2>8 DEF LinkInv, ClosedInv, Closed, Content, Carries
  <2>10. ViewInv(d)'
    <3>1. view[d].origin # base'
      BY <1>1, <1>4, <1>7, <2>2
    <3> QED
      BY <3>1 DEF ViewInv, Same
  <2> QED
    BY <2>3, <2>4, <2>5, <2>6, <2>7, <2>9, <2>10 DEF LinkInv
<1> QED
    BY <1>4, <1>6, <1>7

-----------------------------------------------------------------------------
(* Every step, connection by connection.                                    *)

ServeStep(c) ==
    \/ Subscribe(c) \/ ChooseReplay(c) \/ Fitted(c) \/ Send(c) \/ Pump(c) \/ HandleSync(c)
    \/ SyncReplay(c) \/ SyncSnapshot(c) \/ StartDrain(c) \/ Drain(c)
    \/ Receive(c) \/ Sync(c) \/ LoseTransport(c) \/ Refuse(c)

\* All of them leave the router alone, and the other connections.
LEMMA ServeStepLeaves ==
    ASSUME TypeOK, NEW c \in Clients, LinkInv(c), ServeStep(c)
    PROVE  UNCHANGED <<routerVars, status>> /\ Others(c)
<1>1. UNCHANGED <<routerVars, status>>
    BY DEF ServeStep, Subscribe, ChooseReplay, Fitted, Send, Pump, HandleSync, SyncReplay,
           SyncSnapshot, StartDrain, Drain, Receive, Sync, LoseTransport, Refuse
<1>2. CASE Subscribe(c) \/ Send(c) \/ StartDrain(c)
    BY <1>1, <1>2, SubscribeDoes, SendDoes, StartDrainDoes
<1>3. CASE ChooseReplay(c)
    BY <1>1, <1>3, ChooseReplayDoes, ChooseSnapshotDoes
<1>4. CASE Fitted(c)
    BY <1>1, <1>4, FittedCases, FittedDoes, DeniedDoes
<1>5. CASE Pump(c)
    BY <1>1, <1>5, PumpLagged, PumpSkips, PumpSends
<1>6. CASE HandleSync(c)
  <2>1. OthersLoop(c) /\ net' = net /\ view' = view
    BY <1>6, HandleSyncDoes DEF HandleSync
  <2>2. requests' = [requests EXCEPT ![c] = Tail(requests[c])] /\ requests \in [Clients -> Seq(Seqs)]
    BY <1>6 DEF HandleSync, TypeOK
  <2> QED
    BY <1>1, <2>1, <2>2 DEF Others, OthersLoop, Same
<1>7. CASE SyncReplay(c)
    BY <1>1, <1>7, SyncReplayDoes, SyncChooseDoes
<1>8. CASE SyncSnapshot(c)
    BY <1>1, <1>8, SyncSnapshotCases, SyncSnapshotDoes, SyncNothingDoes
<1>9. CASE Drain(c)
    BY <1>1, <1>9, DrainedDoes, DrainDoes
<1>10. CASE Receive(c)
  <2>1. Head(net[c]).kind = "snapshot" => Cardinality(Head(net[c]).events) - Head(net[c]).seq \in Seqs
    BY <1>10, HeadOrigin DEF LinkInv, Receive
  <2> QED
    BY <1>1, <1>10, <2>1, ReceiveDoes
<1>11. CASE Sync(c)
  <2>1. /\ srv' = srv /\ net' = net /\ view' = view
        /\ requests' = [requests EXCEPT ![c] = Append(requests[c], view[c].last_seq)]
        /\ requests \in [Clients -> Seq(Seqs)]
    BY <1>11 DEF Sync, TypeOK
  <2> QED
    BY <1>1, <2>1 DEF Others, Same
<1>12. CASE LoseTransport(c)
    BY <1>1, <1>12, LoseTransportDoes
<1>13. CASE Refuse(c)
  <2>1. view[c].tries < Attempts
    BY <1>13, Detached DEF Refuse
  <2> QED
    BY <1>1, <1>13, <2>1, RefuseDoes
<1> QED
    BY <1>1, <1>2, <1>3, <1>4, <1>5, <1>6, <1>7, <1>8, <1>9, <1>10, <1>11, <1>12, <1>13 DEF ServeStep

LEMMA ServeStepLink ==
    ASSUME TypeOK, RouterInv, NEW c \in Clients, LinkInv(c), ServeStep(c)
    PROVE  LinkInv(c)'
<1>1. CASE Subscribe(c)
    BY <1>1, SubscribeLink DEF RouterInv
<1>2. CASE ChooseReplay(c)
    BY <1>2, ChooseReplayLink, ChooseSnapshotLink
<1>3. CASE Fitted(c)
    BY <1>3, FittedCases, FittedLink, DeniedLink
<1>4. CASE Send(c)
    BY <1>4, SendLink
<1>5. CASE Pump(c)
    BY <1>5, PumpLaggedLink, PumpSkipsLink, PumpSendsLink
<1>6. CASE HandleSync(c)
    BY <1>6, HandleSyncLink
<1>7. CASE SyncReplay(c)
    BY <1>7, SyncReplayLink, SyncChooseLink
<1>8. CASE SyncSnapshot(c)
    BY <1>8, SyncSnapshotCases, SyncSnapshotLink, SyncNothingLink DEF RouterInv
<1>9. CASE StartDrain(c)
    BY <1>9, StartDrainLink
<1>10. CASE Drain(c)
    BY <1>10, DrainedLink, DrainLink
<1>11. CASE Receive(c)
    BY <1>11, ReceiveLink
<1>12. CASE Sync(c) \/ LoseTransport(c) \/ Refuse(c)
    BY <1>12, SyncLink, LoseTransportLink, RefuseLink
<1> QED
    BY <1>1, <1>2, <1>3, <1>4, <1>5, <1>6, <1>7, <1>8, <1>9, <1>10, <1>11, <1>12 DEF ServeStep

LEMMA ServeStepLinks ==
    ASSUME TypeOK, RouterInv, LinksInv, NEW c \in Clients, ServeStep(c)
    PROVE  LinksInv'
<1>1. UNCHANGED <<routerVars, status>> /\ Others(c) /\ LinkInv(c)'
    BY ServeStepLeaves, ServeStepLink DEF LinksInv
<1>2. ASSUME NEW d \in Clients, d # c PROVE LinkInv(d)'
  <2>1. base' = base /\ dispatch' = dispatch /\ Upto(d)' = Upto(d) /\ (Stopped' <=> Stopped)
    BY <1>1, Quiet
  <2>2. Same(d) /\ LinkInv(d)
    BY <1>1, <1>2 DEF Others, LinksInv
  <2>3. srv[d].overflow => d \in dispatch'
    BY <2>1, <2>2 DEF LinkInv, LoopInv
  <2> QED
    BY <2>1, <2>2, <2>3, LinkFrame
<1> QED
    BY <1>1, <1>2 DEF LinksInv

\* The emit calls a connection's handler.
LEMMA TrySendLinks ==
    ASSUME TypeOK, StatusInv, LinksInv, NEW c \in Clients, TrySend(c)
    PROVE  LinksInv'
<1>1. /\ base' = base /\ sequence' = sequence /\ (Stopped' <=> Stopped) /\ status' = status
      /\ net' = net /\ view' = view /\ requests' = requests /\ c \in dispatch
      /\ \/ dispatch' = dispatch
         \/ dispatch' = dispatch \ {c}
    BY DEF TrySend, Stopped
<1>2. LinkInv(c) /\ sequence > 0
    BY <1>1 DEF LinksInv, StatusInv
<1>3. Others(c) /\ LinkInv(c)'
  <2>1. CASE srv[c].subscribed /\ Len(srv[c].queue) = QueueCap
    BY <1>2, <2>1, OverflowDoes, OverflowLink
  <2>2. CASE srv[c].subscribed /\ Len(srv[c].queue) # QueueCap
    BY <1>2, <2>2, EnqueueDoes, EnqueueLink
  <2>3. CASE ~srv[c].subscribed
    <3>1. srv' = srv
      BY <2>3 DEF TrySend
    <3>2. Others(c) /\ Same(c)
      BY <1>1, <3>1 DEF Others, Same
    <3>3. ~srv[c].overflow
      BY DEF TrySend
    <3> QED
      BY <1>1, <1>2, <2>3, <3>2, <3>3, LinkFrame
  <2> QED
    BY <2>1, <2>2, <2>3
<1>4. ASSUME NEW d \in Clients, d # c PROVE LinkInv(d)'
  <2>1. Same(d) /\ LinkInv(d) /\ Upto(d)' = Upto(d)
    BY <1>1, <1>3, <1>4 DEF Others, LinksInv, Upto
  <2>2. srv[d].overflow => d \in dispatch'
    BY <1>1, <1>4, <2>1 DEF LinkInv, LoopInv
  <2> QED
    BY <1>1, <2>1, <2>2, LinkFrame
<1> QED
    BY <1>3, <1>4 DEF LinksInv

LEMMA StoreLaggedLinks ==
    ASSUME TypeOK, LinksInv, NEW c \in Clients, StoreLagged(c)
    PROVE  LinksInv'
<1>1. /\ base' = base /\ sequence' = sequence /\ (Stopped' <=> Stopped)
      /\ dispatch' = dispatch \ {c}
    BY DEF StoreLagged, Stopped
<1>2. Others(c) /\ LinkInv(c)'
    BY StoreLaggedDoes, StoreLaggedLink DEF LinksInv
<1>3. ASSUME NEW d \in Clients, d # c PROVE LinkInv(d)'
  <2>1. Same(d) /\ LinkInv(d) /\ Upto(d)' = Upto(d)
    BY <1>1, <1>2, <1>3 DEF Others, LinksInv, Upto
  <2>2. srv[d].overflow => d \in dispatch'
    BY <1>1, <1>3, <2>1 DEF LinkInv, LoopInv
  <2> QED
    BY <1>1, <2>1, <2>2, LinkFrame
<1> QED
    BY <1>2, <1>3 DEF LinksInv

\* A step of the router or of the entry that touches no connection.
LEMMA RouterLinks ==
    ASSUME TypeOK, LinksInv, base' = base, linkVars' = linkVars, view' = view, Stopped => Stopped',
           \/ sequence' = sequence /\ dispatch' \cup {Snap} = dispatch \cup {Snap}
           \/ /\ dispatch = {} /\ sequence' = sequence + 1
              /\ dispatch' = {Snap} \cup {c \in Clients : srv[c].subscribed}
    PROVE  LinksInv'
<1> SUFFICES ASSUME NEW c \in Clients PROVE LinkInv(c)'
    BY DEF LinksInv
<1>1. Same(c) /\ LinkInv(c) /\ c # Snap /\ sequence \in Nat
    BY Numbers, Typed DEF Same, linkVars, LinksInv
<1>2. srv[c].overflow => srv[c].subscribed /\ c \in dispatch
    BY <1>1 DEF LinkInv, LoopInv
<1>3. /\ srv[c].subscribed => Upto(c)' = Upto(c)
      /\ srv[c].overflow => c \in dispatch'
  <2>1. CASE sequence' = sequence /\ dispatch' \cup {Snap} = dispatch \cup {Snap}
    <3>1. c \in dispatch' <=> c \in dispatch
      BY <1>1, <2>1
    <3> QED
      BY <1>2, <2>1, <3>1 DEF Upto
  <2>2. CASE /\ dispatch = {} /\ sequence' = sequence + 1
             /\ dispatch' = {Snap} \cup {d \in Clients : srv[d].subscribed}
    <3>1. c \notin dispatch /\ (srv[c].subscribed => c \in dispatch')
      BY <2>2
    <3>2. Upto(c) = sequence /\ (srv[c].subscribed => Upto(c)' = (sequence + 1) - 1)
      BY <2>2, <3>1 DEF Upto
    <3> QED
      BY <1>1, <1>2, <3>1, <3>2
  <2> QED
    BY <2>1, <2>2
<1> QED
    BY <1>1, <1>3, LinkFrame

LEMMA ConnectLinks ==
    ASSUME TypeOK, StatusInv, LinksInv, NEW c \in Clients, Connect(c)
    PROVE  LinksInv'
<1>1. view[c].tries < Attempts
    BY Detached DEF Connect, LinksInv
<1>2. Others(c) /\ LinkInv(c)'
    BY <1>1, ConnectDoes, ConnectLink DEF LinksInv
<1>3. ASSUME NEW d \in Clients, d # c PROVE LinkInv(d)'
  <2>1. Same(d) /\ LinkInv(d)
    BY <1>2, <1>3 DEF Others, LinksInv
  <2>2. CASE status = "evicted"
    BY <1>3, <2>1, <2>2, ReopenOthers
  <2>3. CASE status # "evicted"
    <3>1. base' = base /\ sequence' = sequence /\ dispatch' = dispatch /\ ~Stopped
      BY <2>3 DEF Connect, routerVars, Stopped
    <3>2. Upto(d)' = Upto(d) /\ (srv[d].overflow => d \in dispatch')
      BY <2>1, <3>1 DEF Upto, LinkInv, LoopInv
    <3> QED
      BY <2>1, <3>1, <3>2, LinkFrame
  <2> QED
    BY <2>2, <2>3
<1> QED
    BY <1>2, <1>3 DEF LinksInv

-----------------------------------------------------------------------------
(* The router's part of the invariant.                                      *)

\* A new event takes its place at the end of the ring.
LEMMA EmitRing ==
    ASSUME TypeOK, RingInv, Total <= MaxEvents, base' = base, sequence' = sequence + 1,
           replay' = Retained(Append(replay, Event(sequence + 1)))
    PROVE  /\ RingInv' /\ replay' \in Seq(Messages) /\ Len(replay') <= MaxReplay
           /\ sequence' \in Seqs /\ Total' \in Seqs
<1> DEFINE n == Len(replay)
           e == Event(sequence + 1)
           r == Append(replay, e)
           k == IF n + 1 > MaxReplay THEN (n + 1) - MaxReplay ELSE 0
<1>1. /\ replay \in Seq(Messages) /\ n \in Nat /\ sequence \in Nat /\ base \in Nat
      /\ MaxReplay \in Nat /\ n <= MaxReplay /\ base + sequence <= MaxEvents /\ MaxEvents \in Nat
    BY Numbers DEF TypeOK, Total
<1>2. e \in Messages
  <2>1. sequence + 1 \in Seqs /\ {base + (sequence + 1)} \in EventSets
    BY <1>1 DEF Seqs, EventSets
  <2> QED
    BY <2>1, MessageType DEF Event, Kinds
<1>3. /\ r \in Seq(Messages) /\ Len(r) = n + 1 /\ r[n + 1] = e
      /\ \A i \in 1 .. n : r[i] = replay[i]
    BY <1>1, <1>2, AppendElements
<1>4. n <= sequence /\ \A i \in 1 .. n : replay[i] = Event(sequence - n + i)
    BY DEF RingInv
<1>5. replay' = Retained(r)
    OBVIOUS
<1>6. k \in Nat /\ k <= n + 1
    BY <1>1
<1>7. (IF Len(r) > MaxReplay THEN Len(r) - MaxReplay + 1 ELSE 1) = k + 1
    BY <1>1, <1>3
<1>8. (n + 1) - k <= MaxReplay
    BY <1>1
<1> HIDE DEF r, k, n, e
<1>9. replay' = SubSeq(r, k + 1, n + 1)
    BY <1>3, <1>5, <1>7 DEF Retained
<1> DEFINE R == SubSeq(r, k + 1, n + 1)
<1>10. R \in Seq(Messages) /\ Len(R) = (n + 1) - k /\ \A i \in 1 .. Len(R) : R[i] = r[k + i]
    BY <1>1, <1>3, <1>6
<1> HIDE DEF R
<1>11. \A i \in 1 .. Len(R) : R[i] = Event((sequence + 1) - Len(R) + i)
  <2> TAKE i \in 1 .. Len(R)
  <2> DEFINE h == k + i
             g == (sequence + 1) - Len(R) + i
  <2>1. h \in 1 .. (n + 1) /\ R[i] = r[h] /\ g = sequence - n + h
    <3>1. R[i] = r[h]
      BY <1>10
    <3> DEFINE l == Len(R)
    <3>2. l = (n + 1) - k /\ i \in 1 .. l
      BY <1>10
    <3> HIDE DEF l
    <3>3. h \in 1 .. (n + 1) /\ (sequence + 1) - l + i = sequence - n + h
      BY <1>1, <1>6, <3>2
    <3> QED
      BY <3>1, <3>3 DEF l
  <2> HIDE DEF h
  <2>2. CASE h \in 1 .. n
    <3> HIDE DEF g
    <3> QED
      BY <1>3, <1>4, <2>1, <2>2 DEF g
  <2>3. CASE h = n + 1
    <3>1. g = sequence + 1
      BY <1>1, <2>1, <2>3
    <3> HIDE DEF g
    <3> QED
      BY <1>3, <2>1, <2>3, <3>1 DEF g, e
  <2> QED
    BY <1>1, <2>1, <2>2, <2>3
<1>12. Len(R) <= sequence + 1 /\ Len(R) <= MaxReplay
    BY <1>1, <1>4, <1>6, <1>8, <1>10 DEF n
<1>13. replay' = R
    BY <1>9 DEF R
<1>14. RingInv'
  <2>1. \A s : Event(s)' = Event(s)
    BY DEF Event
  <2> QED
    BY <1>11, <1>12, <1>13, <2>1 DEF RingInv
<1>15. sequence' \in Seqs /\ Total' \in Seqs
    BY <1>1 DEF Seqs, Total
<1> QED
    BY <1>10, <1>12, <1>13, <1>14, <1>15

\* The ring and the snapshot stay when base, sequence, replay and snapshot do.
LEMMA RingStays ==
    ASSUME RingInv, base' = base, sequence' = sequence, replay' = replay
    PROVE  RingInv'
    BY DEF RingInv, Event

LEMMA SnapStays ==
    ASSUME SnapInv, base' = base, sequence' = sequence, snapshot' = snapshot,
           Snap \in dispatch' <=> Snap \in dispatch
    PROVE  SnapInv'
    BY DEF SnapInv

LEMMA EmitRouter ==
    ASSUME TypeOK, RouterInv, emit_locked, Total <= MaxEvents,
           status' = "ending" \/ (status' = status /\ status # "evicted" /\ Total < MaxEvents)
    PROVE  RouterInv'
<1>1. /\ base' = base /\ sequence' = sequence + 1 /\ dispatch = {}
      /\ replay' = Retained(Append(replay, Event(sequence + 1)))
      /\ dispatch' = {Snap} \cup {c \in Clients : srv[c].subscribed} /\ snapshot' = snapshot
    BY DEF emit_locked
<1>2. RingInv'
    BY <1>1, EmitRing DEF RouterInv
<1>3. sequence \in Nat /\ base \in Nat
    BY Numbers DEF TypeOK
<1>4. SnapInv'
  <2>1. Snap \in dispatch' /\ snapshot'.seq = (sequence + 1) - 1
    BY <1>1, <1>3 DEF RouterInv, SnapInv
  <2> QED
    BY <1>1, <2>1 DEF RouterInv, SnapInv
<1>5. StatusInv'
  <2>1. base + sequence + 1 <= MaxEvents \/ status' = "ending"
    BY <1>3, Numbers DEF Total
  <2> QED
    BY <1>1, <1>3, <2>1 DEF RouterInv, StatusInv
<1> QED
    BY <1>2, <1>4, <1>5 DEF RouterInv

LEMMA ApplyRouter ==
    ASSUME TypeOK, RouterInv, ApplyToSnapshot
    PROVE  RouterInv' /\ snapshot' \in Snapshots
<1>1. /\ base' = base /\ sequence' = sequence /\ replay' = replay /\ status' = status /\ srv' = srv
      /\ dispatch' = dispatch \ {Snap} /\ Snap \in dispatch
      /\ snapshot' = [seq |-> sequence, events |-> snapshot.events \cup {base + sequence}]
    BY DEF ApplyToSnapshot, linkVars, Total
<1>2. snapshot'.seq = sequence /\ snapshot'.events = snapshot.events \cup {base + sequence}
    BY <1>1
<1>3. /\ base \in Nat /\ sequence \in Nat /\ sequence > 0 /\ sequence \in Seqs
      /\ base + sequence \in 1 .. (MaxEvents + 1)
    BY <1>1, Numbers DEF TypeOK, Total, RouterInv, StatusInv, Seqs
<1>4. snapshot.events = 1 .. (base + (sequence - 1))
    BY <1>1 DEF RouterInv, SnapInv
<1>5. snapshot'.events = 1 .. (base + sequence)
    BY <1>2, <1>3, <1>4
<1>6. snapshot' \in Snapshots
  <2>1. snapshot.events \cup {base + sequence} \in EventSets
    BY <1>3 DEF TypeOK, Snapshots, EventSets
  <2> QED
    BY <1>1, <1>3, <2>1 DEF Snapshots
<1>7. RingInv'
    BY <1>1, RingStays DEF RouterInv
<1>8. SnapInv'
    BY <1>1, <1>2, <1>5 DEF SnapInv
<1>9. StatusInv'
    BY <1>1 DEF RouterInv, StatusInv
<1> QED
    BY <1>6, <1>7, <1>8, <1>9 DEF RouterInv

\* A handler of a connection returns, or it has still to store its flag.
LEMMA HandlerRouter ==
    ASSUME TypeOK, RouterInv, NEW c \in Clients, TrySend(c) \/ StoreLagged(c)
    PROVE  RouterInv'
<1>1. /\ base' = base /\ sequence' = sequence /\ replay' = replay /\ snapshot' = snapshot
      /\ status' = status /\ c \in dispatch /\ (dispatch' = dispatch \/ dispatch' = dispatch \ {c})
    BY DEF TrySend, StoreLagged
<1>2. c # Snap
    BY Numbers
<1>3. RingInv' /\ SnapInv'
    BY <1>1, <1>2, RingStays, SnapStays DEF RouterInv
<1>4. status # "evicted" /\ sequence > 0
    BY <1>1 DEF RouterInv, StatusInv
<1>5. StatusInv'
    BY <1>1, <1>4 DEF RouterInv, StatusInv
<1> QED
    BY <1>3, <1>5 DEF RouterInv

LEMMA ConnectRouter ==
    ASSUME TypeOK, RouterInv, NEW c \in Clients, Connect(c)
    PROVE  /\ RouterInv' /\ base' \in Seqs /\ sequence' \in Seqs /\ Total' \in Seqs
           /\ replay' \in Seq(Messages) /\ Len(replay') <= MaxReplay
           /\ snapshot' \in Snapshots /\ dispatch' = dispatch
<1>1. /\ base \in Nat /\ sequence \in Nat /\ base \in Seqs /\ sequence \in Seqs
      /\ base + sequence \in Seqs /\ MaxReplay \in Nat /\ MaxEvents \in Nat
      /\ base + sequence <= MaxEvents \/ status \in {"ending", "notified"}
    BY Numbers DEF TypeOK, Total, RouterInv, StatusInv
<1>2. CASE status = "evicted"
  <2>1. /\ base' = base + sequence /\ sequence' = 0 /\ replay' = <<>>
        /\ snapshot' = [seq |-> 0, events |-> 1 .. (base + sequence)]
        /\ dispatch' = dispatch /\ dispatch = {} /\ status' = "live"
    BY <1>2 DEF Connect, Total, RouterInv, StatusInv
  <2>2. snapshot'.seq = 0 /\ snapshot'.events = 1 .. (base + sequence) /\ Len(replay') = 0
    BY <2>1
  <2>3. RingInv'
    BY <2>1, <2>2 DEF RingInv
  <2>4. SnapInv'
    <3>1. (base + sequence) + 0 = base + sequence
      BY <1>1
    <3> QED
      BY <2>1, <2>2, <3>1 DEF SnapInv
  <2>5. StatusInv'
    <3>1. base + sequence + 0 <= MaxEvents
      BY <1>1, <1>2
    <3> QED
      BY <2>1, <3>1 DEF StatusInv
  <2>6. snapshot' \in Snapshots
    <3>1. 1 .. (base + sequence) \in EventSets /\ 0 \in Seqs
      BY <1>1, Numbers DEF EventSets, Seqs
    <3> QED
      BY <2>1, <3>1 DEF Snapshots
  <2>7. Total' \in Seqs /\ replay' \in Seq(Messages) /\ Len(replay') <= MaxReplay /\ sequence' \in Seqs
    <3>1. Total' = base + sequence
      BY <1>1, <2>1 DEF Total
    <3> QED
      BY <1>1, <2>1, <2>2, <3>1, Numbers
  <2> QED
    BY <1>1, <2>1, <2>3, <2>4, <2>5, <2>6, <2>7 DEF RouterInv
<1>3. CASE status # "evicted"
  <2>1. /\ base' = base /\ sequence' = sequence /\ replay' = replay /\ dispatch' = dispatch
        /\ snapshot' = snapshot /\ status = "live" /\ status' = "live"
    BY <1>3 DEF Connect, routerVars
  <2>2. RingInv' /\ SnapInv'
    BY <2>1, RingStays, SnapStays DEF RouterInv
  <2>3. StatusInv'
    BY <2>1 DEF RouterInv, StatusInv
  <2> QED
    BY <2>1, <2>2, <2>3 DEF RouterInv, TypeOK, Total
<1> QED
    BY <1>2, <1>3

\* A step that leaves the router and the status alone; an evicted entry has no
\* connection that could take one.
LEMMA ServeRouter ==
    ASSUME TypeOK, RouterInv, LinksInv, NEW c \in Clients, ServeStep(c)
    PROVE  RouterInv'
<1>1. UNCHANGED <<routerVars, status>> /\ Others(c) /\ LinkInv(c)
    BY ServeStepLeaves DEF LinksInv
<1>2. /\ base' = base /\ sequence' = sequence /\ replay' = replay /\ dispatch' = dispatch
      /\ snapshot' = snapshot /\ status' = status
    BY <1>1 DEF routerVars
<1>3. RingInv' /\ SnapInv'
    BY <1>2, RingStays, SnapStays DEF RouterInv
<1>4. srv[c].phase = "none" => srv'[c].phase = "none"
  <2> SUFFICES ASSUME srv[c].phase = "none" PROVE srv'[c].phase = "none"
    OBVIOUS
  <2>1. srv[c] = Idle /\ srv[c].outbox = <<>>
    BY <1>1 DEF LinkInv, LoopInv, Idle
  <2>2. ~Subscribe(c) /\ ~ChooseReplay(c) /\ ~Fitted(c) /\ ~Send(c) /\ ~Pump(c) /\ ~HandleSync(c)
    BY <2>1 DEF Subscribe, ChooseReplay, Fitted, Send, Pump, HandleSync, Serving
  <2>3. ~SyncReplay(c) /\ ~SyncSnapshot(c) /\ ~StartDrain(c) /\ ~Drain(c)
    BY DEF SyncReplay, SyncSnapshot, StartDrain, Drain, Serving
  <2>4. CASE Receive(c)
    <3>1. Head(net[c]).kind = "snapshot" => Cardinality(Head(net[c]).events) - Head(net[c]).seq \in Seqs
      BY <1>1, <2>4, HeadOrigin DEF LinkInv, Receive
    <3>2. srv'[c] = srv[c] \/ srv'[c] = Idle
      BY <2>4, <3>1, ReceiveDoes DEF Dropped
    <3> QED
      BY <2>1, <3>2
  <2>5. CASE Sync(c) \/ Refuse(c)
    BY <2>5 DEF Sync, Refuse, linkVars
  <2>6. CASE LoseTransport(c)
    BY <2>1, <2>6, LoseTransportDoes DEF Dropped
  <2> QED
    BY <2>2, <2>3, <2>4, <2>5, <2>6 DEF ServeStep
<1>5. StatusInv'
  <2>1. \A d \in Clients : srv[d].phase = "none" => srv'[d].phase = "none"
    BY <1>1, <1>4 DEF Others, Same
  <2> QED
    BY <1>2, <2>1 DEF RouterInv, StatusInv
<1> QED
    BY <1>3, <1>5 DEF RouterInv

-----------------------------------------------------------------------------
(* Types.                                                                   *)

Bounds == [losses : 0 .. MaxLosses, syncs : 0 .. MaxSyncs, reopens : 0 .. MaxReopens]

LEMMA LinkTypes ==
    ASSUME TypeOK, NEW c \in Clients, UNCHANGED <<routerVars, status>>, Others(c),
           srv' \in [Clients -> ServeLoops], net' \in [Clients -> Seq(Messages)],
           requests' \in [Clients -> Seq(Seqs)], view' \in [Clients -> Views], spent' \in Bounds,
           Len(srv'[c].queue) <= QueueCap, Len(net'[c]) <= NetCap
    PROVE  TypeOK'
<1>1. \A d \in Clients : Len(srv'[d].queue) <= QueueCap /\ Len(net'[d]) <= NetCap
    BY DEF Others, Same, TypeOK
<1>2. /\ base' = base /\ sequence' = sequence /\ replay' = replay /\ dispatch' = dispatch
      /\ snapshot' = snapshot /\ status' = status /\ Total' = Total
    BY DEF routerVars, Total
<1> QED
    BY <1>1, <1>2 DEF TypeOK, Bounds

\* The loop's own steps change its record, and shorten the queue at most.
LEMMA LoopTypes ==
    ASSUME TypeOK, NEW c \in Clients, Others(c), srv' \in [Clients -> ServeLoops],
           UNCHANGED <<routerVars, status, net, requests, view, spent>>,
           \/ srv'[c].queue = srv[c].queue
           \/ srv[c].queue # <<>> /\ srv'[c].queue = Tail(srv[c].queue)
    PROVE  TypeOK'
<1>1. /\ net' \in [Clients -> Seq(Messages)] /\ requests' \in [Clients -> Seq(Seqs)]
      /\ view' \in [Clients -> Views] /\ spent' \in Bounds /\ Len(net'[c]) <= NetCap
    BY DEF TypeOK, Bounds
<1>2. Len(srv[c].queue) \in Nat /\ Len(srv[c].queue) <= QueueCap /\ QueueCap \in Nat
      /\ srv[c].queue \in Seq(Messages)
    BY Typed, Numbers DEF TypeOK
<1>3. Len(srv'[c].queue) <= QueueCap
  <2>1. CASE srv'[c].queue = srv[c].queue
    BY <1>2, <2>1
  <2>2. CASE srv[c].queue # <<>> /\ srv'[c].queue = Tail(srv[c].queue)
    <3>1. Len(Tail(srv[c].queue)) = Len(srv[c].queue) - 1
      BY <1>2, <2>2, TailElements
    <3> QED
      BY <1>2, <2>2, <3>1
  <2> QED
    BY <2>1, <2>2
<1> QED
    BY <1>1, <1>3, LinkTypes

LEMMA ServeTypes ==
    ASSUME TypeOK, LinksInv, NEW c \in Clients, ServeStep(c)
    PROVE  TypeOK'
<1>1. UNCHANGED <<routerVars, status>> /\ Others(c) /\ LinkInv(c)
    BY ServeStepLeaves DEF LinksInv
<1>2. /\ srv \in [Clients -> ServeLoops] /\ net \in [Clients -> Seq(Messages)]
      /\ requests \in [Clients -> Seq(Seqs)] /\ view \in [Clients -> Views] /\ spent \in Bounds
      /\ Len(srv[c].queue) <= QueueCap /\ Len(net[c]) <= NetCap
      /\ QueueCap \in Nat /\ NetCap \in Nat
    BY Numbers DEF TypeOK, Bounds
<1>3. CASE Subscribe(c)
  <2>1. UNCHANGED <<net, requests, view, spent>>
    BY <1>3 DEF Subscribe
  <2> QED
    BY <1>1, <1>3, <2>1, SubscribeDoes, LoopTypes
<1>4. CASE ChooseReplay(c)
  <2>1. UNCHANGED <<net, requests, view, spent>>
    BY <1>4 DEF ChooseReplay
  <2> QED
    BY <1>1, <1>4, <2>1, ChooseReplayDoes, ChooseSnapshotDoes, LoopTypes
<1>5. CASE Fitted(c)
  <2>1. UNCHANGED <<net, requests, view, spent>>
    BY <1>5 DEF Fitted
  <2> QED
    BY <1>1, <1>5, <2>1, FittedCases, FittedDoes, DeniedDoes, LoopTypes
<1>6. CASE Pump(c)
  <2>1. UNCHANGED <<net, requests, view, spent>> /\ srv[c].queue # <<>>
    BY <1>6 DEF Pump
  <2> QED
    BY <1>1, <1>6, <2>1, PumpLagged, PumpSkips, PumpSends, LoopTypes
<1>7. CASE SyncReplay(c)
  <2>1. UNCHANGED <<net, requests, view, spent>>
    BY <1>7 DEF SyncReplay
  <2> QED
    BY <1>1, <1>7, <2>1, SyncReplayDoes, SyncChooseDoes, LoopTypes
<1>8. CASE SyncSnapshot(c)
  <2>1. UNCHANGED <<net, requests, view, spent>>
    BY <1>8 DEF SyncSnapshot
  <2> QED
    BY <1>1, <1>8, <2>1, SyncSnapshotCases, SyncSnapshotDoes, SyncNothingDoes, LoopTypes
<1>9. CASE StartDrain(c)
  <2>1. UNCHANGED <<net, requests, view, spent>>
    BY <1>9 DEF StartDrain
  <2> QED
    BY <1>1, <1>9, <2>1, StartDrainDoes, LoopTypes
<1>10. CASE Drain(c)
  <2>1. UNCHANGED <<net, requests, view, spent>>
    BY <1>10 DEF Drain
  <2> QED
    BY <1>1, <1>10, <2>1, DrainedDoes, DrainDoes, LoopTypes
<1>11. CASE HandleSync(c)
  <2>1. net' = net /\ view' = view /\ spent' = spent /\ requests[c] # <<>>
        /\ requests' = [requests EXCEPT ![c] = Tail(requests[c])]
    BY <1>11 DEF HandleSync
  <2>2. requests' \in [Clients -> Seq(Seqs)]
    <3>1. Tail(requests[c]) \in Seq(Seqs)
      BY <1>2, <2>1
    <3> QED
      BY <1>2, <2>1, <3>1
  <2>3. srv' \in [Clients -> ServeLoops] /\ srv'[c].queue = srv[c].queue
    BY <1>11, HandleSyncDoes
  <2> QED
    BY <1>1, <1>2, <2>1, <2>2, <2>3, LinkTypes
<1>12. CASE Send(c)
  <2>1. requests' = requests /\ view' = view /\ spent' = spent
    BY <1>12 DEF Send
  <2>2. /\ srv' \in [Clients -> ServeLoops] /\ srv[c].outbox # <<>> /\ Len(net[c]) < NetCap
        /\ net' = [net EXCEPT ![c] = Append(net[c], Head(srv[c].outbox))]
    BY <1>12, SendDoes
  <2>3. Head(srv[c].outbox) \in Messages
    BY <2>2, Typed, TailElements
  <2>4. Append(net[c], Head(srv[c].outbox)) \in Seq(Messages)
        /\ Len(Append(net[c], Head(srv[c].outbox))) = Len(net[c]) + 1 /\ Len(net[c]) \in Nat
    BY <2>3, Typed, AppendElements
  <2>5. net' \in [Clients -> Seq(Messages)] /\ Len(net'[c]) <= NetCap
    BY <1>2, <2>2, <2>4
  <2>6. srv'[c].queue = srv[c].queue \/ srv'[c].queue = <<>>
    BY <1>12, SendDoes DEF Rest, Idle
  <2>7. Len(srv'[c].queue) <= QueueCap
    BY <1>2, <2>6
  <2> QED
    BY <1>1, <1>2, <2>1, <2>2, <2>5, <2>7, LinkTypes
<1>13. CASE Receive(c)
  <2>1. Head(net[c]).kind = "snapshot" => Cardinality(Head(net[c]).events) - Head(net[c]).seq \in Seqs
    BY <1>1, <1>13, HeadOrigin DEF LinkInv, Receive
  <2>2. /\ srv' \in [Clients -> ServeLoops] /\ net' \in [Clients -> Seq(Messages)]
        /\ requests' \in [Clients -> Seq(Seqs)] /\ view' \in [Clients -> Views]
        /\ net[c] # <<>>
        /\ \/ srv'[c] = Idle /\ net'[c] = <<>>
           \/ net'[c] = Tail(net[c]) /\ srv'[c] = srv[c]
    BY <1>13, <2>1, ReceiveDoes DEF Dropped
  <2>3. spent' = spent
    BY <1>13 DEF Receive
  <2>4. Len(Tail(net[c])) = Len(net[c]) - 1 /\ Len(net[c]) \in Nat
    BY <2>2, Typed, TailElements
  <2>5. Idle.queue = <<>> /\ Len(<<>>) = 0
    BY DEF Idle
  <2>6. Len(srv'[c].queue) <= QueueCap /\ Len(net'[c]) <= NetCap
    BY <1>2, <2>2, <2>4, <2>5
  <2> QED
    BY <1>1, <1>2, <2>2, <2>3, <2>6, LinkTypes
<1>14. CASE Sync(c)
  <2>1. /\ srv' = srv /\ net' = net /\ view' = view /\ spent.syncs < MaxSyncs
        /\ requests' = [requests EXCEPT ![c] = Append(requests[c], view[c].last_seq)]
        /\ spent' = [spent EXCEPT !.syncs = spent.syncs + 1]
    BY <1>14 DEF Sync
  <2>2. requests' \in [Clients -> Seq(Seqs)]
    <3>1. view[c].last_seq \in Seqs
      BY <1>2 DEF Views
    <3>2. Append(requests[c], view[c].last_seq) \in Seq(Seqs)
      BY <1>2, <3>1
    <3> QED
      BY <1>2, <2>1, <3>2
  <2>3. spent' \in Bounds
    <3>1. spent.syncs + 1 \in 0 .. MaxSyncs
      BY <1>2, <2>1, Numbers DEF Bounds
    <3> QED
      BY <1>2, <2>1, <3>1 DEF Bounds
  <2> QED
    BY <1>1, <1>2, <2>1, <2>2, <2>3, LinkTypes
<1>15. CASE LoseTransport(c)
  <2>1. spent.losses < MaxLosses /\ spent' = [spent EXCEPT !.losses = spent.losses + 1]
    BY <1>15 DEF LoseTransport
  <2>2. spent' \in Bounds
    <3>1. spent.losses + 1 \in 0 .. MaxLosses
      BY <1>2, <2>1, Numbers DEF Bounds
    <3> QED
      BY <1>2, <2>1, <3>1 DEF Bounds
  <2>3. /\ srv' \in [Clients -> ServeLoops] /\ net' \in [Clients -> Seq(Messages)]
        /\ requests' \in [Clients -> Seq(Seqs)] /\ view' \in [Clients -> Views]
        /\ srv'[c] = Idle /\ net'[c] = <<>>
    BY <1>15, LoseTransportDoes DEF Dropped
  <2>4. Idle.queue = <<>> /\ Len(<<>>) = 0
    BY DEF Idle
  <2>5. Len(srv'[c].queue) <= QueueCap /\ Len(net'[c]) <= NetCap
    BY <1>2, <2>3, <2>4
  <2> QED
    BY <1>1, <1>2, <2>2, <2>3, <2>5, LinkTypes
<1>16. CASE Refuse(c)
  <2>1. srv' = srv /\ net' = net /\ requests' = requests /\ spent' = spent
    BY <1>16 DEF Refuse, linkVars
  <2>2. view[c].tries < Attempts
    BY <1>1, <1>16, Detached DEF Refuse
  <2>3. view' \in [Clients -> Views]
    BY <1>16, <2>2, RefuseDoes
  <2> QED
    BY <1>1, <1>2, <2>1, <2>3, LinkTypes
<1> QED
    BY <1>3, <1>4, <1>5, <1>6, <1>7, <1>8, <1>9, <1>10, <1>11, <1>12, <1>13, <1>14, <1>15, <1>16
       DEF ServeStep

LEMMA HandlerTypes ==
    ASSUME TypeOK, RouterInv, NEW c \in Clients, TrySend(c) \/ StoreLagged(c)
    PROVE  TypeOK'
<1>1. /\ base' = base /\ sequence' = sequence /\ replay' = replay /\ snapshot' = snapshot
      /\ status' = status /\ c \in dispatch /\ (dispatch' = dispatch \/ dispatch' = dispatch \ {c})
      /\ net' = net /\ requests' = requests /\ view' = view /\ spent' = spent
    BY DEF TrySend, StoreLagged
<1>2. /\ srv[c].queue \in Seq(Messages) /\ Len(srv[c].queue) \in Nat /\ QueueCap \in Nat
      /\ Len(srv[c].queue) <= QueueCap /\ sequence > 0 /\ base \in Nat /\ sequence \in Nat
    BY <1>1, Typed, Numbers DEF TypeOK, RouterInv, StatusInv
<1>3. srv' \in [Clients -> ServeLoops] /\ Others(c) /\ Len(srv'[c].queue) <= QueueCap
  <2>1. CASE TrySend(c) /\ srv[c].subscribed /\ Len(srv[c].queue) = QueueCap
    BY <1>2, <2>1, OverflowDoes
  <2>2. CASE TrySend(c) /\ srv[c].subscribed /\ Len(srv[c].queue) # QueueCap
    <3>1. sequence \in 0 .. sequence /\ base + sequence > 0
      BY <1>2
    <3>2. Event(sequence) \in Messages
      BY <3>1, EventType
    <3>3. Len(Append(srv[c].queue, Event(sequence))) = Len(srv[c].queue) + 1
      BY <1>2, <3>2, AppendElements
    <3>4. /\ srv' \in [Clients -> ServeLoops] /\ Others(c)
          /\ srv'[c].queue = Append(srv[c].queue, Event(sequence))
      BY <1>2, <2>2, EnqueueDoes
    <3> QED
      BY <1>2, <2>2, <3>3, <3>4
  <2>3. CASE TrySend(c) /\ ~srv[c].subscribed
    <3>1. srv' = srv
      BY <2>3 DEF TrySend
    <3> QED
      BY <1>1, <1>2, <3>1 DEF TypeOK, Others, Same
  <2>4. CASE StoreLagged(c)
    BY <1>2, <2>4, StoreLaggedDoes
  <2> QED
    BY <2>1, <2>2, <2>3, <2>4
<1>4. \A d \in Clients : Len(srv'[d].queue) <= QueueCap /\ Len(net'[d]) <= NetCap
    BY <1>1, <1>3 DEF Others, Same, TypeOK
<1>5. Total' = Total /\ dispatch' \subseteq Clients \cup {Snap}
    BY <1>1 DEF TypeOK, Total
<1> QED
    BY <1>1, <1>3, <1>4, <1>5 DEF TypeOK

LEMMA ConnectTypes ==
    ASSUME TypeOK, RouterInv, LinksInv, NEW c \in Clients, Connect(c)
    PROVE  TypeOK'
<1>1. view[c].tries < Attempts
    BY Detached DEF Connect, LinksInv
<1>2. /\ srv' \in [Clients -> ServeLoops] /\ net' \in [Clients -> Seq(Messages)]
      /\ requests' \in [Clients -> Seq(Seqs)] /\ view' \in [Clients -> Views]
      /\ Others(c) /\ net'[c] = <<>> /\ srv'[c].queue = <<>>
    BY <1>1, ConnectDoes
<1>3. Len(<<>>) = 0 /\ QueueCap \in Nat /\ NetCap \in Nat
    BY Numbers
<1>4. \A d \in Clients : Len(srv'[d].queue) <= QueueCap /\ Len(net'[d]) <= NetCap
  <2> TAKE d \in Clients
  <2>1. CASE d = c
    BY <1>2, <1>3, <2>1
  <2>2. CASE d # c
    BY <1>2, <2>2 DEF Others, Same, TypeOK
  <2> QED
    BY <2>1, <2>2
<1>5. /\ base' \in Seqs /\ sequence' \in Seqs /\ Total' \in Seqs
      /\ replay' \in Seq(Messages) /\ Len(replay') <= MaxReplay
      /\ snapshot' \in Snapshots /\ dispatch' = dispatch
    BY ConnectRouter
<1>6. status' = "live" /\ spent' = spent
    BY DEF Connect
<1> QED
    BY <1>2, <1>4, <1>5, <1>6 DEF TypeOK

LEMMA EmitTypes ==
    ASSUME TypeOK, RouterInv, emit_locked, Total <= MaxEvents,
           status' \in {"live", "evicted", "stopped", "ending", "notified"}
    PROVE  TypeOK'
<1>1. /\ base' = base /\ sequence' = sequence + 1
      /\ replay' = Retained(Append(replay, Event(sequence + 1)))
      /\ dispatch' = {Snap} \cup {c \in Clients : srv[c].subscribed} /\ snapshot' = snapshot
      /\ srv' = srv /\ net' = net /\ requests' = requests /\ view' = view /\ spent' = spent
    BY DEF emit_locked, linkVars
<1>2. /\ replay' \in Seq(Messages) /\ Len(replay') <= MaxReplay
      /\ sequence' \in Seqs /\ Total' \in Seqs
    BY <1>1, EmitRing DEF RouterInv
<1>3. dispatch' \subseteq Clients \cup {Snap}
    BY <1>1
<1> QED
    BY <1>1, <1>2, <1>3 DEF TypeOK

-----------------------------------------------------------------------------
(* The invariant is inductive.                                              *)

LEMMA InitInv == Init => StreamInv
<1> SUFFICES ASSUME Init PROVE StreamInv
    OBVIOUS
<1>1. /\ base = 0 /\ sequence = 0 /\ replay = <<>> /\ dispatch = {} /\ status = "live"
      /\ snapshot = [seq |-> 0, events |-> {}] /\ snapshot.seq = 0 /\ snapshot.events = {}
      /\ spent = [losses |-> 0, syncs |-> 0, reopens |-> 0]
    BY DEF Init
<1>2. /\ \A c \in Clients : srv[c] = Idle /\ net[c] = <<>> /\ requests[c] = <<>>
      /\ \A c \in Clients : /\ view[c].phase = "new" /\ view[c].tries = 0 /\ view[c].last_seq = 0
                            /\ view[c].events = {} /\ view[c].origin = 0
    BY DEF Init
<1>3. TypeOK
  <2> DEFINE v == [phase |-> "new", known |-> FALSE, last_seq |-> 0, events |-> {},
                   expected |-> 0, tries |-> 0, origin |-> 0]
  <2>1. 0 \in Seqs /\ 0 \in 0 .. Attempts /\ {} \in EventSets
    BY Numbers DEF EventSets
  <2>2. v \in Views
    BY <2>1 DEF Views, ViewPhases
  <2> HIDE DEF v
  <2>3. view \in [Clients -> Views] /\ srv \in [Clients -> ServeLoops]
    BY <2>2, IdleType DEF Init, v
  <2>4. net \in [Clients -> Seq(Messages)] /\ requests \in [Clients -> Seq(Seqs)]
    BY DEF Init
  <2>5. snapshot \in Snapshots
    BY <1>1, <2>1 DEF Snapshots
  <2>6. 0 \in 0 .. MaxLosses /\ 0 \in 0 .. MaxSyncs /\ 0 \in 0 .. MaxReopens
    BY Numbers
  <2>7. spent \in [losses : 0 .. MaxLosses, syncs : 0 .. MaxSyncs, reopens : 0 .. MaxReopens]
    BY <1>1, <2>6
  <2>8. \A c \in Clients : Len(srv[c].queue) <= QueueCap /\ Len(net[c]) <= NetCap
    <3>1. Idle.queue = <<>> /\ Len(<<>>) = 0 /\ QueueCap \in Nat /\ NetCap \in Nat
      BY Numbers DEF Idle
    <3> QED
      BY <1>2, <3>1
  <2>9. replay \in Seq(Messages) /\ Len(replay) <= MaxReplay /\ Total \in Seqs
    <3>1. Len(<<>>) = 0 /\ MaxReplay \in Nat /\ Total = 0
      BY <1>1, Numbers DEF Total
    <3> QED
      BY <1>1, <2>1, <3>1
  <2> QED
    BY <1>1, <2>1, <2>3, <2>4, <2>5, <2>7, <2>8, <2>9 DEF TypeOK
<1>4. RouterInv
  <2>1. Len(replay) = 0 /\ 1 .. (base + 0) = {} /\ base + sequence = 0
    BY <1>1
  <2>2. RingInv
    BY <1>1, <2>1 DEF RingInv
  <2>3. SnapInv
    BY <1>1, <2>1 DEF SnapInv
  <2>4. StatusInv
    BY <1>1, <2>1, Numbers DEF StatusInv
  <2> QED
    BY <2>2, <2>3, <2>4 DEF RouterInv
<1>5. ASSUME NEW c \in Clients PROVE LinkInv(c)
  <2>1. /\ srv[c].phase = "none" /\ ~srv[c].subscribed /\ srv[c].queue = <<>> /\ srv[c].outbox = <<>>
        /\ ~srv[c].overflow /\ ~srv[c].lagged
    BY <1>2 DEF Idle
  <2>2. Len(srv[c].queue) = 0 /\ Len(requests[c]) = 0 /\ Len(Stream(c)) = 0
    BY <1>2, <2>1 DEF Stream
  <2>3. LoopInv(c)
    BY <1>2, <2>1 DEF LoopInv, Opening
  <2>4. ClientInv(c)
    BY <1>2, <2>1, <2>2, Numbers DEF ClientInv, Opening
  <2>5. QueueInv(c) /\ CapturedInv(c) /\ CoverInv(c)
    BY <2>1, <2>2 DEF QueueInv, CapturedInv, CoverInv, Served
  <2>6. CoreInv(c)
    BY <1>1, <1>2, <2>1, <2>2 DEF CoreInv
  <2>7. ShapeInv(c) /\ ClosedInv(c)
    BY <1>2, <2>2 DEF ShapeInv, ClosedInv, Closed
  <2>8. ViewInv(c)
    <3>1. 1 .. (base + 0) = {}
      BY <1>1
    <3> QED
      BY <1>2, <3>1 DEF ViewInv
  <2> QED
    BY <2>3, <2>4, <2>5, <2>6, <2>7, <2>8 DEF LinkInv
<1> QED
    BY <1>3, <1>4, <1>5 DEF StreamInv, LinksInv

\* The steps of the entry: they set the status.
LEMMA EntrySteps ==
    ASSUME StreamInv, Evict \/ Stop \/ NotifyStopped
    PROVE  StreamInv'
<1>1. TypeOK /\ RouterInv /\ LinksInv
    BY DEF StreamInv
<1>2. /\ base' = base /\ sequence' = sequence /\ replay' = replay /\ dispatch' = dispatch
      /\ snapshot' = snapshot /\ linkVars' = linkVars /\ view' = view
    BY DEF Evict, Stop, NotifyStopped, routerVars
<1>3. /\ srv' = srv /\ net' = net /\ requests' = requests
    BY <1>2 DEF linkVars
<1>4. spent' \in Bounds
  <2>1. spent \in Bounds
    BY <1>1 DEF TypeOK, Bounds
  <2>2. CASE Evict
    <3>1. spent.reopens < MaxReopens /\ spent' = [spent EXCEPT !.reopens = spent.reopens + 1]
      BY <2>2 DEF Evict
    <3>2. spent.reopens + 1 \in 0 .. MaxReopens
      BY <2>1, <3>1, Numbers DEF Bounds
    <3> QED
      BY <2>1, <3>1, <3>2 DEF Bounds
  <2>3. CASE Stop \/ NotifyStopped
    BY <2>1, <2>3 DEF Stop, NotifyStopped
  <2> QED
    BY <2>2, <2>3
<1>5. /\ status' \in {"live", "evicted", "stopped", "ending", "notified"}
      /\ Stopped => Stopped'
      /\ status' = "evicted" => dispatch = {} /\ \A c \in Clients : srv[c].phase = "none"
      /\ status' \notin {"ending", "notified"} => status \notin {"ending", "notified"}
    BY DEF Evict, Stop, NotifyStopped, Stopped
<1>6. TypeOK'
  <2>1. Total' = Total
    BY <1>2 DEF Total
  <2> QED
    BY <1>1, <1>2, <1>3, <1>4, <1>5, <2>1 DEF TypeOK, Bounds
<1>7. RouterInv'
  <2>1. RingInv' /\ SnapInv'
    BY <1>1, <1>2, RingStays, SnapStays DEF RouterInv
  <2>2. StatusInv'
    BY <1>1, <1>2, <1>3, <1>5 DEF RouterInv, StatusInv
  <2> QED
    BY <2>1, <2>2 DEF RouterInv
<1>8. LinksInv'
    BY <1>1, <1>2, <1>5, RouterLinks
<1> QED
    BY <1>6, <1>7, <1>8 DEF StreamInv

LEMMA EmitSteps ==
    ASSUME StreamInv, Emit \/ EmitEnding
    PROVE  StreamInv'
<1>1. TypeOK /\ RouterInv /\ LinksInv /\ emit_locked
    BY DEF StreamInv, Emit, EmitEnding
<1>2. base \in Nat /\ sequence \in Nat /\ MaxEvents \in Nat
    BY <1>1, Numbers DEF TypeOK
<1>3. /\ Total <= MaxEvents
      /\ status' = "ending" \/ (status' = status /\ status # "evicted" /\ Total < MaxEvents)
      /\ Stopped => Stopped'
  <2>1. CASE Emit
    BY <1>2, <2>1 DEF Emit, Total, Stopped
  <2>2. CASE EmitEnding
    BY <1>1, <2>2 DEF EmitEnding, Total, Stopped, RouterInv, StatusInv
  <2> QED
    BY <2>1, <2>2
<1>4. status' \in {"live", "evicted", "stopped", "ending", "notified"}
    BY <1>1, <1>3 DEF TypeOK
<1>5. TypeOK'
    BY <1>1, <1>3, <1>4, EmitTypes
<1>6. RouterInv'
    BY <1>1, <1>3, EmitRouter
<1>7. LinksInv'
  <2>1. /\ base' = base /\ linkVars' = linkVars /\ view' = view
        /\ dispatch = {} /\ sequence' = sequence + 1
        /\ dispatch' = {Snap} \cup {c \in Clients : srv[c].subscribed}
    BY <1>1 DEF emit_locked
  <2> QED
    BY <1>1, <1>3, <2>1, RouterLinks
<1> QED
    BY <1>5, <1>6, <1>7 DEF StreamInv

LEMMA ApplyStep ==
    ASSUME StreamInv, ApplyToSnapshot
    PROVE  StreamInv'
<1>1. TypeOK /\ RouterInv /\ LinksInv
    BY DEF StreamInv
<1>2. RouterInv' /\ snapshot' \in Snapshots
    BY <1>1, ApplyRouter
<1>3. /\ base' = base /\ sequence' = sequence /\ replay' = replay /\ status' = status
      /\ linkVars' = linkVars /\ view' = view /\ spent' = spent /\ Snap \in dispatch
      /\ dispatch' = dispatch \ {Snap}
    BY DEF ApplyToSnapshot
<1>4. srv' = srv /\ net' = net /\ requests' = requests /\ Total' = Total
    BY <1>3 DEF linkVars, Total
<1>5. dispatch' \subseteq Clients \cup {Snap} /\ dispatch' \cup {Snap} = dispatch \cup {Snap}
    BY <1>1, <1>3 DEF TypeOK
<1>6. TypeOK'
    BY <1>1, <1>2, <1>3, <1>4, <1>5 DEF TypeOK
<1>7. LinksInv'
  <2>1. Stopped => Stopped'
    BY <1>3 DEF Stopped
  <2> QED
    BY <1>1, <1>3, <1>5, <2>1, RouterLinks
<1> QED
    BY <1>2, <1>6, <1>7 DEF StreamInv

LEMMA StepInv == StreamInv /\ [Next]_vars => StreamInv'
<1> SUFFICES ASSUME StreamInv, [Next]_vars PROVE StreamInv'
    OBVIOUS
<1>1. TypeOK /\ RouterInv /\ LinksInv /\ StatusInv
    BY DEF StreamInv, RouterInv
<1>2. CASE Emit \/ EmitEnding
    BY <1>2, EmitSteps
<1>3. CASE ApplyToSnapshot
    BY <1>3, ApplyStep
<1>4. CASE Evict \/ Stop \/ NotifyStopped
    BY <1>4, EntrySteps
<1>5. ASSUME NEW c \in Clients, TrySend(c) \/ StoreLagged(c) PROVE StreamInv'
    BY <1>1, <1>5, HandlerTypes, HandlerRouter, TrySendLinks, StoreLaggedLinks DEF StreamInv
<1>6. ASSUME NEW c \in Clients, Connect(c) PROVE StreamInv'
    BY <1>1, <1>6, ConnectTypes, ConnectRouter, ConnectLinks DEF StreamInv
<1>7. ASSUME NEW c \in Clients, ServeStep(c) PROVE StreamInv'
    BY <1>1, <1>7, ServeTypes, ServeRouter, ServeStepLinks DEF StreamInv
<1>8. CASE UNCHANGED vars
  <2>1. /\ base' = base /\ sequence' = sequence /\ replay' = replay /\ dispatch' = dispatch
        /\ snapshot' = snapshot /\ status' = status /\ srv' = srv /\ net' = net
        /\ requests' = requests /\ view' = view /\ spent' = spent
    BY <1>8 DEF vars, routerVars, linkVars
  <2>2. TypeOK'
    BY <1>1, <2>1 DEF TypeOK, Total
  <2>3. RouterInv'
    BY <1>1, <2>1, RingStays, SnapStays DEF RouterInv, StatusInv
  <2>4. LinksInv'
    <3>1. linkVars' = linkVars /\ (Stopped => Stopped')
      BY <2>1 DEF linkVars, Stopped
    <3> QED
      BY <1>1, <2>1, <3>1, RouterLinks
  <2> QED
    BY <2>2, <2>3, <2>4 DEF StreamInv
<1> HIDE DEF StreamInv
<1> QED
    BY <1>2, <1>3, <1>4, <1>5, <1>6, <1>7, <1>8
       DEF Next, Dispatching, Ending, ServerStep, ServeStep

-----------------------------------------------------------------------------
(* What follows from the invariant.                                         *)

LEMMA WholeInv == StreamInv => NeverTorn
<1> SUFFICES ASSUME StreamInv, NEW c \in Clients
             PROVE  /\ view[c].phase = "attached" /\ OfThisCore(c) => Canonical(c)
                    /\ SeesGap(c) => Stopped
    BY DEF NeverTorn
<1>1. TypeOK /\ LinkInv(c)
    BY DEF StreamInv, LinksInv
<1>2. OfThisCore(c) => Canonical(c)
    BY <1>1 DEF LinkInv, ViewInv, OfThisCore, Canonical
<1>3. SeesGap(c) => Stopped
  <2> SUFFICES ASSUME SeesGap(c), ~Stopped PROVE FALSE
    OBVIOUS
  <2> DEFINE a == net[c]
             o == srv[c].outbox
             m == Head(net[c])
             p == m.seq - 1
  <2>1. a \in Seq(Messages) /\ o \in Seq(Messages) /\ a # <<>> /\ Stream(c) = a \o o
    BY <1>1, Typed DEF Stream, SeesGap
  <2>2. m.kind = "event" /\ m.seq > view[c].last_seq + 1
    BY DEF SeesGap, Gap
  <2>3. Len(a) > 0 /\ m = a[1] /\ m \in Messages /\ Len(a) \in Nat /\ Len(o) \in Nat
    BY <2>1, TailElements
  <2>4. m.seq \in Nat /\ view[c].last_seq \in Nat
    BY <1>1, <2>3, Typed, MessageType, Numbers
  <2> HIDE DEF a, o, m
  <2>5. (a \o o)[1] = a[1] /\ 1 \in 1 .. Len(a \o o)
    BY <2>1, <2>3, ConcatElements
  <2>6. Stream(c)[1] = m /\ 1 \in 1 .. Len(Stream(c)) /\ Closed(c)
    BY <1>1, <2>1, <2>3, <2>5 DEF LinkInv, ClosedInv
  <2>7. p \in 1 .. m.seq /\ p # m.seq /\ ~(p <= view[c].last_seq)
    BY <2>2, <2>4
  <2> HIDE DEF p
  <2>8. Shown(c, p) \/ \E j \in 1 .. 1 : Carries(Stream(c)[j], p)
    BY <2>2, <2>6, <2>7 DEF Closed, Content
  <2>9. \A j \in 1 .. 1 : j = 1
    OBVIOUS
  <2>10. ~Shown(c, p) /\ ~Carries(m, p)
    BY <2>2, <2>7 DEF Shown, Carries
  <2> QED
    BY <2>6, <2>8, <2>9, <2>10
<1> QED
    BY <1>2, <1>3

LEMMA StreamElements ==
    ASSUME TypeOK, NEW c \in Clients, NEW j \in 1 .. Len(Stream(c))
    PROVE  /\ Stream(c)[j] \in Messages
           /\ \/ \E i \in DOMAIN net[c] : Stream(c)[j] = net[c][i]
              \/ \E i \in DOMAIN srv[c].outbox : Stream(c)[j] = srv[c].outbox[i]
<1> DEFINE a == net[c]
           o == srv[c].outbox
           S == a \o o
<1>1. a \in Seq(Messages) /\ o \in Seq(Messages) /\ Stream(c) = S
    BY Typed DEF Stream
<1> HIDE DEF a, o
<1>2. /\ Len(S) = Len(a) + Len(o) /\ Len(a) \in Nat /\ Len(o) \in Nat
      /\ \A i \in 1 .. Len(a) : S[i] = a[i]
      /\ \A i \in 1 .. Len(o) : S[Len(a) + i] = o[i]
    BY <1>1, ConcatElements
<1>3. S \in Seq(Messages) /\ j \in 1 .. Len(S)
    BY <1>1
<1> HIDE DEF S
<1>4. S[j] \in Messages
    BY <1>3
<1>5. (\E i \in 1 .. Len(a) : S[j] = a[i]) \/ \E i \in 1 .. Len(o) : S[j] = o[i]
  <2>1. CASE j <= Len(a)
    <3>1. j \in 1 .. Len(a)
      BY <1>2, <1>3, <2>1
    <3> QED
      BY <1>2, <3>1
  <2>2. CASE j > Len(a)
    <3> DEFINE i == j - Len(a)
    <3>1. i \in 1 .. Len(o) /\ j = Len(a) + i
      BY <1>2, <1>3, <2>2
    <3> HIDE DEF i
    <3> QED
      BY <1>2, <3>1
  <2> QED
    BY <1>2, <1>3, <2>1, <2>2
<1>6. DOMAIN a = 1 .. Len(a) /\ DOMAIN o = 1 .. Len(o)
    BY <1>1
<1> QED
    BY <1>1, <1>4, <1>5, <1>6 DEF a, o

LEMMA NothingLostInv == StreamInv => NothingLost
<1> SUFFICES ASSUME StreamInv, NEW c \in Clients, srv[c].phase \in Served, OfThisCore(c),
                    ~srv[c].lagged, ~srv[c].overflow, NEW x \in 1 .. Total
             PROVE  x \in view[c].events \cup OnItsWay(c)
    BY DEF NothingLost, Served
<1> DEFINE q == srv[c].queue
           u == Upto(c)
           S == Stream(c)
           k == x - base
           mark == srv[c].watermark
<1>1. TypeOK /\ RouterInv /\ LinkInv(c)
    BY DEF StreamInv, LinksInv
<1>2. /\ base \in Nat /\ sequence \in Nat /\ view[c].last_seq \in Nat /\ Len(q) \in Nat
      /\ u \in Int /\ mark \in Nat /\ q \in Seq(Messages)
    BY <1>1, Typed
<1>3. x \in Nat /\ x > 0 /\ x <= base + sequence
    BY <1>2 DEF Total
<1>4. view[c].events = 1 .. (base + view[c].last_seq)
    BY <1>1 DEF LinkInv, ViewInv, OfThisCore
<1>5. srv[c].phase \notin {"none", "closing", "admitted"} /\ srv[c].subscribed
    BY <1>1 DEF Served, LinkInv, LoopInv
<1>6. /\ \A n \in 1 .. mark : Reached(c, n)
      /\ \A n \in 1 .. (u - Len(q)) : Reached(c, n)
    BY <1>1 DEF LinkInv, CoverInv
<1>7. /\ \A i \in 1 .. Len(q) : IsEvent(q[i])
      /\ Len(q) <= u /\ \A i \in 1 .. Len(q) : q[i].seq = u - Len(q) + i
    BY <1>1, <1>5 DEF LinkInv, QueueInv
<1>8. u = sequence \/ (c \in dispatch /\ u = sequence - 1)
    BY DEF Upto
\* What the stream carries is in the view or on its way.
<1>9. ASSUME NEW n \in Int, n > 0, Reached(c, n)
      PROVE  base + n \in view[c].events \cup OnItsWay(c)
  <2>1. CASE Shown(c, n)
    <3>1. n <= view[c].last_seq
      BY <2>1 DEF Shown
    <3> QED
      BY <1>2, <1>4, <1>9, <3>1
  <2>2. CASE \E j \in 1 .. Len(S) : Carries(S[j], n)
    <3>1. PICK j \in 1 .. Len(S) : Carries(S[j], n)
      BY <2>2
    <3>2. OfBase(S[j])
      BY <1>1, <1>5, <3>1 DEF LinkInv, CoreInv
    <3>3. S[j] \in Messages
      BY <1>1, <3>1, StreamElements
    <3>4. base + n \in S[j].events
      <4>1. S[j].seq \in Nat
        BY <3>3, MessageType, Numbers
      <4> HIDE DEF S
      <4>2. CASE S[j].kind = "event" /\ S[j].seq = n
        BY <3>2, <4>2 DEF OfBase, IsEvent
      <4>3. CASE S[j].kind = "snapshot" /\ n <= S[j].seq
        BY <1>2, <1>9, <3>2, <4>1, <4>3 DEF OfBase
      <4> QED
        BY <3>1, <4>2, <4>3 DEF Carries
    <3>5. (\E i \in DOMAIN net[c] : S[j] = net[c][i])
          \/ \E i \in DOMAIN srv[c].outbox : S[j] = srv[c].outbox[i]
      BY <1>1, <3>1, StreamElements
    <3>6. base + n \in Reflected(net[c]) \cup Reflected(srv[c].outbox)
      BY <3>4, <3>5 DEF Reflected
    <3> QED
      BY <3>6 DEF OnItsWay
  <2> QED
    BY <1>9, <2>1, <2>2 DEF Reached
<1>10. CASE x <= base
    BY <1>2, <1>3, <1>4, <1>10
<1>11. CASE x > base
  <2>1. k \in Nat /\ k > 0 /\ x = base + k /\ k <= sequence
    BY <1>2, <1>3, <1>11
  <2> HIDE DEF k
  <2>2. CASE k <= u - Len(q) \/ k <= mark
    <3>1. k \in 1 .. (u - Len(q)) \/ k \in 1 .. mark
      BY <1>2, <2>1, <2>2
    <3> QED
      BY <1>6, <1>9, <2>1, <3>1
  <2>3. CASE k > u - Len(q) /\ k > mark /\ k <= u
    <3> DEFINE l == Len(q)
               i == k - (u - l)
    <3>1. i \in 1 .. Len(q) /\ u - Len(q) + i = k
      <4>1. l \in Nat /\ u \in Int /\ k \in Nat /\ k > u - l /\ k <= u
        BY <1>2, <2>1, <2>3
      <4> HIDE DEF l, u, q
      <4>2. i \in 1 .. l /\ u - l + i = k
        BY <4>1
      <4> QED
        BY <4>2 DEF l
    <3> HIDE DEF i
    <3>2. q[i].seq = k /\ q[i].events = {base + k}
      BY <1>7, <3>1 DEF IsEvent
    <3>3. i \in DOMAIN q
      BY <1>2, <3>1
    <3>4. x \in UNION {q[j].events : j \in {h \in DOMAIN q : q[h].seq > mark}}
      BY <2>1, <2>3, <3>2, <3>3
    <3> QED
      BY <3>4 DEF OnItsWay
  <2>4. CASE k > u
    <3>1. c \in dispatch /\ x = Total
      BY <1>2, <1>8, <2>1, <2>4 DEF Total
    <3>2. x \in (IF c \in dispatch THEN {Total} ELSE {})
      BY <3>1
    <3> QED
      BY <3>2 DEF OnItsWay
  <2> QED
    BY <1>2, <2>1, <2>2, <2>3, <2>4
<1> QED
    BY <1>2, <1>3, <1>10, <1>11

-----------------------------------------------------------------------------
(* TypeOK holds: whatever the order of emits, handshakes, syncs, losses and *)
(* reconnects, no queue, transport or replay ring exceeds its capacity, no  *)
(* client attempts more often than its policy allows, and every sequence    *)
(* number stays one of the session's.                                       *)
THEOREM StreamTypeCorrect == Spec => []TypeOK
<1>1. StreamInv => TypeOK
    BY DEF StreamInv
<1> QED
    BY <1>1, InitInv, StepInv, PTL DEF Spec

(* NeverTorn holds for any number of clients and any capacities: a view     *)
(* that started from a snapshot of the current core shows exactly the       *)
(* events up to its last_seq, and a client of a live session is never sent  *)
(* an event beyond the next one it expects (ViewState::apply_event's        *)
(* promise of no torn transcript).                                          *)
THEOREM TranscriptIsWhole == Spec => []NeverTorn
    BY InitInv, StepInv, WholeInv, PTL DEF Spec

(* NothingLost holds for any number of clients and any capacities: what a   *)
(* served connection has not shown yet is in the transport, in the loop's   *)
(* hands, in the queue above the watermark, or in the emit in progress,     *)
(* unless its queue has overflowed.                                         *)
THEOREM NothingIsLost == Spec => []NothingLost
    BY InitInv, StepInv, NothingLostInv, PTL DEF Spec
=============================================================================
