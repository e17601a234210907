----------------------------- MODULE EventStream -----------------------------
(***************************************************************************)
(* The event stream of one session: SessionEventRouter (session_core.rs),  *)
(* the daemon's canonical snapshot and serve loop (session_daemon.rs,      *)
(* serve_client_with_policy), and the observing clients (session_client.rs,*)
(* frontend_state.rs) with their reconnect loop (session_controller.rs).   *)
(*                                                                         *)
(* An event is a number: the n-th event of the session's whole life is n,  *)
(* whatever sequence number the router of the current core gives it.  A    *)
(* snapshot and a view are the sets of events they reflect, so a view that *)
(* misses or mixes events differs from every 1..n.  What an event says,    *)
(* the trimming of a snapshot to its frame, prompts and approvals are left *)
(* out; all clients observe, and each has at most one connection, whose    *)
(* client id is new every time (rotate_client_identity).                   *)
(***************************************************************************)
EXTENDS Integers, Sequences, FiniteSets

CONSTANTS
    Clients,
    MaxReplay,    \* max_replay_events
    QueueCap,     \* event_queue_capacity
    Attempts,     \* ReconnectPolicy.attempts
    NetCap,       \* bound: messages a transport holds before send blocks
    MaxEvents,    \* bound: events of the session's life, SessionEnding excluded
    MaxLosses,    \* bound: lost transports
    MaxSyncs,     \* bound: explicit sync calls
    MaxReopens,   \* bound: idle evictions, each followed by a reopen
    MayStop,      \* the session may be stopped
    MayNotFit     \* a snapshot may exceed the frame limit

ASSUME EventStreamAssumption ==
    /\ MaxReplay \in Nat
    /\ {QueueCap, Attempts, NetCap} \subseteq Nat \ {0}
    /\ {MaxEvents, MaxLosses, MaxSyncs, MaxReopens} \subseteq Nat
    /\ {MayStop, MayNotFit} \subseteq BOOLEAN
    /\ "snapshot" \notin Clients     \* the daemon's handler is not a connection's

VARIABLES
    base,      \* events of earlier cores: what the current core was loaded with
    sequence,  \* SessionEventRouter.sequence
    replay,    \* SessionEventRouter.replay
    dispatch,  \* handlers the emit holding the dispatch lock has still to call
    snapshot,  \* SessionEntry.snapshot
    status,    \* the entry: live, evicted, or how far end_session has come
    srv,       \* the serve loop of each client's connection
    net,       \* messages on their way to each client
    requests,  \* SyncRequests on their way to the daemon
    view,      \* each SessionClient with its ViewState; origin (ghost) is the base of
               \* the core whose snapshot the view started from
    spent      \* bounds used up

routerVars == <<base, sequence, replay, dispatch, snapshot>>
linkVars == <<srv, net, requests>>
vars == <<routerVars, status, linkVars, view, spent>>

Snap == "snapshot"     \* the daemon's own handler, which maintains the snapshot
NoResume == -1         \* Attach carries no last_seen_seq
Total == base + sequence

Message(kind, seq, events) == [kind |-> kind, seq |-> seq, events |-> events]
Event(seq) == Message("event", seq, {base + seq})
Snapshot(s) == Message("snapshot", s.seq, s.events)
AttachOk(seq) == Message("attach_ok", seq, {})
AttachDenied == Message("denied", 0, {})
Revoked(code) == Message(code, 0, {})

Idle == [phase |-> "none", resume |-> NoResume, captured |-> [seq |-> 0, events |-> {}],
         subscribed |-> FALSE, queue |-> <<>>, overflow |-> FALSE, lagged |-> FALSE,
         watermark |-> 0, outbox |-> <<>>, hears |-> FALSE]

Phases == {"none", "admitted", "subscribed", "fitting", "answering", "hydrating", "serving", "pumping",
           "replaying", "syncing", "draining", "closing"}
ViewPhases == {"new", "lost", "attaching", "catching", "attached", "ended"}
Kinds == {"event", "snapshot", "attach_ok", "denied", "lagged", "stopped"}
EventSets == SUBSET (1 .. (MaxEvents + 1))
Seqs == 0 .. (MaxEvents + 1)
Messages == [kind : Kinds, seq : Seqs, events : EventSets]
Snapshots == [seq : Seqs, events : EventSets]
ServeLoops == [phase : Phases, resume : Seqs \cup {NoResume}, captured : Snapshots,
               subscribed : BOOLEAN, queue : Seq(Messages), overflow : BOOLEAN,
               lagged : BOOLEAN, watermark : Seqs, outbox : Seq(Messages), hears : BOOLEAN]
Views == [phase : ViewPhases, known : BOOLEAN, last_seq : Seqs, events : EventSets,
          expected : Seqs, tries : 0 .. Attempts, origin : Seqs]
Stopped == status \in {"stopped", "ending", "notified"}

(* Everything stays within its type, and no queue, ring or transport        *)
(* exceeds its capacity.                                                    *)
TypeOK ==
    /\ base \in Seqs /\ sequence \in Seqs /\ Total \in Seqs
    /\ replay \in Seq(Messages) /\ Len(replay) <= MaxReplay
    /\ dispatch \subseteq Clients \cup {Snap}
    /\ snapshot \in Snapshots
    /\ status \in {"live", "evicted", "stopped", "ending", "notified"}
    /\ srv \in [Clients -> ServeLoops] /\ net \in [Clients -> Seq(Messages)]
    /\ requests \in [Clients -> Seq(Seqs)] /\ view \in [Clients -> Views]
    /\ \A c \in Clients : Len(srv[c].queue) <= QueueCap /\ Len(net[c]) <= NetCap
    /\ spent \in [losses : 0 .. MaxLosses, syncs : 0 .. MaxSyncs, reopens : 0 .. MaxReopens]

Init ==
    /\ base = 0 /\ sequence = 0 /\ replay = <<>> /\ dispatch = {}
    /\ snapshot = [seq |-> 0, events |-> {}]
    /\ status = "live"
    /\ srv = [c \in Clients |-> Idle]
    /\ net = [c \in Clients |-> <<>>]
    /\ requests = [c \in Clients |-> <<>>]
    /\ view = [c \in Clients |-> [phase |-> "new", known |-> FALSE, last_seq |-> 0,
                                  events |-> {}, expected |-> 0, tries |-> 0, origin |-> 0]]
    /\ spent = [losses |-> 0, syncs |-> 0, reopens |-> 0]

-----------------------------------------------------------------------------
(* The router.  emit holds the dispatch lock from taking the sequence       *)
(* number until every handler it cloned has returned; the handlers run in   *)
(* the arbitrary order of a HashMap.                                        *)

(* Mutant: the ring is trimmed one event late.                              *)
BugRetained(ring) == SubSeq(ring, IF Len(ring) > MaxReplay + 1 THEN 2 ELSE 1, Len(ring))

Retained(ring) == SubSeq(ring, IF Len(ring) > MaxReplay THEN Len(ring) - MaxReplay + 1 ELSE 1,
                         Len(ring))

emit_locked ==
    /\ dispatch = {}
    /\ sequence' = sequence + 1
    /\ replay' = Retained(Append(replay, Event(sequence + 1)))
    /\ dispatch' = {Snap} \cup {c \in Clients : srv[c].subscribed}
    /\ UNCHANGED <<base, snapshot, linkVars, view, spent>>

Emit ==
    /\ status # "evicted"
    /\ Total < MaxEvents
    /\ emit_locked
    /\ UNCHANGED status

(* SnapshotState::apply, the handler of create_session_with_snapshot.       *)
ApplyToSnapshot ==
    /\ Snap \in dispatch
    /\ dispatch' = dispatch \ {Snap}
    /\ snapshot' = [seq |-> sequence, events |-> snapshot.events \cup {Total}]
    /\ UNCHANGED <<base, sequence, replay, status, linkVars, view, spent>>

(* The handler of a connection: try_send, and on Full the lag flag, which   *)
(* is stored in a later step.  A connection that is gone has closed its     *)
(* queue, and Closed is ignored.                                            *)
TrySend(c) ==
    /\ c \in dispatch /\ ~srv[c].overflow
    /\ IF srv[c].subscribed /\ Len(srv[c].queue) = QueueCap
         THEN /\ srv' = [srv EXCEPT ![c].overflow = TRUE]
              /\ UNCHANGED dispatch
         ELSE /\ srv' = IF srv[c].subscribed
                          THEN [srv EXCEPT ![c].queue = Append(@, Event(sequence))]
                          ELSE srv
              /\ dispatch' = dispatch \ {c}
    /\ UNCHANGED <<base, sequence, replay, snapshot, status, net, requests, view, spent>>

StoreLagged(c) ==
    /\ c \in dispatch /\ srv[c].overflow
    /\ srv' = [srv EXCEPT ![c].overflow = FALSE, ![c].lagged = TRUE]
    /\ dispatch' = dispatch \ {c}
    /\ UNCHANGED <<base, sequence, replay, snapshot, status, net, requests, view, spent>>

(* replay_since: the events after last_seen_seq, when the ring still holds  *)
(* them all; otherwise SnapshotRequired.  The ring is in the order of seq,  *)
(* so what the filter keeps is its end.                                     *)
ReplayAvailable(last) ==
    \/ last = sequence
    \/ last < sequence /\ replay # <<>> /\ last + 1 >= Head(replay).seq

ReplayEvents(last) ==
    LET kept == {i \in 1 .. Len(replay) : replay[i].seq > last}
    IN  SubSeq(replay, Len(replay) - Cardinality(kept) + 1, Len(replay))

-----------------------------------------------------------------------------
(* The entry.  Whoever ends the session waits for the admission lock, which *)
(* a handshake holds up to AttachOk except while it fits its snapshot.      *)

AdmissionFree == \A c \in Clients : srv[c].phase \notin {"admitted", "subscribed", "answering"}

(* evict_idle_sessions.  No client is attached, so the SessionEnding it     *)
(* emits reaches nobody and its snapshot goes with the entry.               *)
Evict ==
    /\ status = "live" /\ dispatch = {}
    /\ \A c \in Clients : srv[c].phase = "none"
    /\ spent.reopens < MaxReopens
    /\ status' = "evicted"
    /\ spent' = [spent EXCEPT !.reopens = @ + 1]
    /\ UNCHANGED <<routerVars, linkVars, view>>

(* stop_session: stopped is stored, then finish_removed_entry emits         *)
(* SessionEnding and notifies the serve loops.                              *)
Stop ==
    /\ MayStop
    /\ status = "live" /\ AdmissionFree
    /\ status' = "stopped"
    /\ UNCHANGED <<routerVars, linkVars, view, spent>>

EmitEnding ==
    /\ status = "stopped"
    /\ emit_locked
    /\ status' = "ending"

NotifyStopped ==
    /\ status = "ending" /\ dispatch = {}
    /\ status' = "notified"
    /\ UNCHANGED <<routerVars, linkVars, view, spent>>

-----------------------------------------------------------------------------
(* The handshake.                                                           *)

(* The client sends Resume when its view belongs to the session, Attach     *)
(* otherwise; open_session opens a new core, with a router that counts from *)
(* one, when the session was evicted; attach_internal takes the admission   *)
(* lock.                                                                    *)
Connect(c) ==
    /\ view[c].phase \in {"new", "lost"}
    /\ status \in {"live", "evicted"} /\ AdmissionFree
    /\ IF status = "evicted"
         THEN /\ base' = Total /\ sequence' = 0 /\ replay' = <<>>
              /\ snapshot' = [seq |-> 0, events |-> 1 .. Total]
              /\ UNCHANGED dispatch
         ELSE UNCHANGED routerVars
    /\ status' = "live"
    /\ srv' = [srv EXCEPT ![c] = [Idle EXCEPT !.phase = "admitted",
                                  !.resume = IF view[c].known THEN view[c].last_seq ELSE NoResume]]
    /\ net' = [net EXCEPT ![c] = <<>>]
    /\ requests' = [requests EXCEPT ![c] = <<>>]
    /\ view' = [view EXCEPT ![c].phase = "attaching", ![c].tries = @ + 1]
    /\ UNCHANGED spent

(* subscribe_and_capture.                                                   *)
Subscribe(c) ==
    /\ srv[c].phase = "admitted" /\ dispatch = {}
    /\ srv' = [srv EXCEPT ![c].phase = "subscribed", ![c].subscribed = TRUE,
                          ![c].captured = snapshot]
    /\ UNCHANGED <<routerVars, status, net, requests, view, spent>>

(* replay_since decides between the retained events and the snapshot; the   *)
(* latter is fitted to a frame without the admission lock.                  *)
ChooseReplay(c) ==
    /\ srv[c].phase = "subscribed" /\ dispatch = {}
    /\ srv' = IF srv[c].resume # NoResume /\ ReplayAvailable(srv[c].resume)
                THEN [srv EXCEPT ![c].phase = "answering", ![c].watermark = sequence,
                                 ![c].outbox = <<AttachOk(sequence)>> \o ReplayEvents(srv[c].resume)]
                ELSE [srv EXCEPT ![c].phase = "fitting"]
    /\ UNCHANGED <<routerVars, status, net, requests, view, spent>>

(* Mutant: events up to the latest are skipped, not up to the captured one. *)
BugFitted(c) ==
    /\ srv[c].phase = "fitting" /\ AdmissionFree
    /\ \/ /\ ~Stopped
          /\ srv' = [srv EXCEPT ![c].phase = "answering", ![c].watermark = sequence,
                                ![c].outbox = <<AttachOk(srv[c].captured.seq),
                                                Snapshot(srv[c].captured)>>]
       \/ /\ Stopped \/ MayNotFit
          /\ srv' = [srv EXCEPT ![c].phase = "closing", ![c].outbox = <<AttachDenied>>]
    /\ UNCHANGED <<routerVars, status, net, requests, view, spent>>

Fitted(c) ==
    /\ srv[c].phase = "fitting" /\ AdmissionFree
    /\ \/ /\ ~Stopped
          /\ srv' = [srv EXCEPT ![c].phase = "answering", ![c].watermark = srv[c].captured.seq,
                                ![c].outbox = <<AttachOk(srv[c].captured.seq),
                                                Snapshot(srv[c].captured)>>]
       \/ /\ Stopped \/ MayNotFit
          /\ srv' = [srv EXCEPT ![c].phase = "closing", ![c].outbox = <<AttachDenied>>]
    /\ UNCHANGED <<routerVars, status, net, requests, view, spent>>

-----------------------------------------------------------------------------
(* The serve loop.                                                          *)

(* The loop subscribes to stop_notifier once the handshake's messages are   *)
(* sent; a notification that came before is not heard.                      *)
EnterLoop(s) == [s EXCEPT !.phase = "serving", !.hears = status # "notified"]

(* Mutant: the loop looks at stopped only when it is notified.              *)
BugAfterSend(s) ==
    CASE s.phase = "answering" /\ s.outbox # <<>> -> [s EXCEPT !.phase = "hydrating"]
      [] s.phase \in {"answering", "hydrating"} /\ s.outbox = <<>> -> EnterLoop(s)
      [] s.phase = "pumping" -> [s EXCEPT !.phase = "serving"]
      [] s.phase = "closing" -> Idle
      [] OTHER -> s

(* After AttachOk the admission lock is released; after an event from the   *)
(* queue the loop looks at stopped.                                         *)
AfterSend(s) ==
    CASE s.phase = "answering" /\ s.outbox # <<>> -> [s EXCEPT !.phase = "hydrating"]
      [] s.phase \in {"answering", "hydrating"} /\ s.outbox = <<>> -> EnterLoop(s)
      [] s.phase = "pumping" /\ Stopped -> [s EXCEPT !.phase = "closing",
                                                    !.outbox = <<Revoked("stopped")>>]
      [] s.phase = "pumping" /\ ~Stopped -> [s EXCEPT !.phase = "serving"]
      [] s.phase = "closing" -> Idle
      [] OTHER -> s

(* transport.send of the next message.                                      *)
Send(c) ==
    /\ srv[c].outbox # <<>> /\ Len(net[c]) < NetCap
    /\ net' = [net EXCEPT ![c] = Append(@, Head(srv[c].outbox))]
    /\ srv' = [srv EXCEPT ![c] = AfterSend([srv[c] EXCEPT !.outbox = Tail(srv[c].outbox)])]
    /\ UNCHANGED <<routerVars, status, requests, view, spent>>

Serving(c) == srv[c].phase = "serving" /\ srv[c].outbox = <<>>

(* Mutant: the lag flag is never looked at.                                 *)
BugPump(c) ==
    /\ Serving(c) /\ srv[c].queue # <<>>
    /\ LET next == [srv[c] EXCEPT !.queue = Tail(@)]
           event == Head(srv[c].queue)
       IN  srv' = [srv EXCEPT ![c] = IF event.seq <= srv[c].watermark
                                       THEN next
                                       ELSE [next EXCEPT !.phase = "pumping", !.outbox = <<event>>]]
    /\ UNCHANGED <<routerVars, status, net, requests, view, spent>>

(* The event branch: a lagged queue ends the connection, and an event the   *)
(* handshake or a sync has already covered is skipped.                      *)
Pump(c) ==
    /\ Serving(c) /\ srv[c].queue # <<>>
    /\ LET next == [srv[c] EXCEPT !.queue = Tail(@)]
           event == Head(srv[c].queue)
       IN  srv' = [srv EXCEPT ![c] =
                     CASE srv[c].lagged -> [next EXCEPT !.phase = "closing", !.lagged = FALSE,
                                                        !.outbox = <<Revoked("lagged")>>]
                       [] ~srv[c].lagged /\ event.seq <= srv[c].watermark -> next
                       [] OTHER -> [next EXCEPT !.phase = "pumping", !.outbox = <<event>>]]
    /\ UNCHANGED <<routerVars, status, net, requests, view, spent>>

(* A SyncRequest to a live entry: the retained events, or the snapshot,     *)
(* which is read without the dispatch lock.                                 *)
HandleSync(c) ==
    /\ Serving(c) /\ requests[c] # <<>> /\ ~Stopped
    /\ srv' = [srv EXCEPT ![c].phase = "replaying", ![c].resume = Head(requests[c])]
    /\ requests' = [requests EXCEPT ![c] = Tail(@)]
    /\ UNCHANGED <<routerVars, status, net, view, spent>>

SyncReplay(c) ==
    /\ srv[c].phase = "replaying" /\ dispatch = {}
    /\ srv' = IF ReplayAvailable(srv[c].resume)
                THEN [srv EXCEPT ![c].phase = "serving", ![c].watermark = sequence,
                                 ![c].outbox = ReplayEvents(srv[c].resume)]
                ELSE [srv EXCEPT ![c].phase = "syncing"]
    /\ UNCHANGED <<routerVars, status, net, requests, view, spent>>

(* Mutant: the skipping bound is the router's sequence, which an emit in    *)
(* progress has already advanced past the snapshot.                         *)
BugSyncSnapshot(c) ==
    /\ srv[c].phase = "syncing"
    /\ \/ srv' = [srv EXCEPT ![c].phase = "serving", ![c].watermark = sequence,
                             ![c].outbox = <<Snapshot(snapshot)>>]
       \/ MayNotFit /\ srv' = [srv EXCEPT ![c].phase = "serving"]
    /\ UNCHANGED <<routerVars, status, net, requests, view, spent>>

SyncSnapshot(c) ==
    /\ srv[c].phase = "syncing"
    /\ \/ srv' = [srv EXCEPT ![c].phase = "serving", ![c].watermark = snapshot.seq,
                             ![c].outbox = <<Snapshot(snapshot)>>]
       \/ MayNotFit /\ srv' = [srv EXCEPT ![c].phase = "serving"]
    /\ UNCHANGED <<routerVars, status, net, requests, view, spent>>

(* The stop branch, or any message once stopped is stored: what is queued   *)
(* is sent, whatever the lag flag says, and the connection ends.            *)
StartDrain(c) ==
    /\ Serving(c)
    /\ (status = "notified" /\ srv[c].hears) \/ (Stopped /\ requests[c] # <<>>)
    /\ srv' = [srv EXCEPT ![c].phase = "draining"]
    /\ UNCHANGED <<routerVars, status, net, requests, view, spent>>

Drain(c) ==
    /\ srv[c].phase = "draining" /\ srv[c].outbox = <<>>
    /\ srv' = IF srv[c].queue = <<>>
                THEN [srv EXCEPT ![c].phase = "closing", ![c].outbox = <<Revoked("stopped")>>]
                ELSE [srv EXCEPT ![c].queue = Tail(@),
                                 ![c].outbox = IF Head(srv[c].queue).seq <= srv[c].watermark
                                                 THEN <<>> ELSE <<Head(srv[c].queue)>>]
    /\ UNCHANGED <<routerVars, status, net, requests, view, spent>>

-----------------------------------------------------------------------------
(* The client: attach, receive and the reconnect loop.                      *)

Waiting(c) == view[c].phase \in {"attaching", "catching", "attached"}

(* A failed attach: reconnect_client tries again while it has attempts; a   *)
(* first attach is not retried.                                             *)
Failed(v) == [v EXCEPT !.phase = IF v.known /\ v.tries < Attempts THEN "lost" ELSE "ended"]
(* A lost connection of an attached client starts a reconnect.              *)
Lost(v) == [v EXCEPT !.phase = "lost", !.tries = 0]
Attached(v) == [v EXCEPT !.phase = "attached", !.known = TRUE, !.tries = 0]

(* ViewState::apply_event and apply_snapshot.                               *)
Gap(v, m) == m.seq > v.last_seq + 1
Applied(v, m) == IF m.seq = v.last_seq + 1
                   THEN [v EXCEPT !.last_seq = m.seq, !.events = @ \cup m.events]
                   ELSE v
Rebased(v, m) == [v EXCEPT !.last_seq = m.seq, !.events = m.events,
                           !.origin = Cardinality(m.events) - m.seq]

(* attach_inner while it waits for AttachOk, and then for the snapshot or   *)
(* the replay up to the sequence AttachOk announced.                        *)
OnAttachOk(v, m) ==
    CASE m.kind # "attach_ok" -> Failed(v)
      [] m.kind = "attach_ok" /\ v.known /\ v.last_seq = m.seq -> Attached(v)
      [] OTHER -> [v EXCEPT !.phase = "catching", !.expected = m.seq]

OnContent(v, m) ==
    CASE m.kind = "event" /\ ~Gap(v, m) ->
            IF Applied(v, m).last_seq = v.expected THEN Attached(Applied(v, m)) ELSE Applied(v, m)
      [] m.kind = "snapshot" /\ m.seq = v.expected -> Attached(Rebased(v, m))
      [] OTHER -> Failed(v)

(* receive.  A snapshot older than the view is ignored; a gap is not        *)
(* applied, and Receive asks for a sync.                                    *)
OnMessage(v, m) ==
    CASE m.kind = "event" -> Applied(v, m)
      [] m.kind = "snapshot" -> IF m.seq < v.last_seq THEN v ELSE Rebased(v, m)
      [] m.kind = "lagged" -> Lost(v)
      [] m.kind = "stopped" -> [v EXCEPT !.phase = "ended"]
      [] OTHER -> Lost(v)

SeesGap(c) == /\ view[c].phase = "attached" /\ net[c] # <<>>
              /\ Head(net[c]).kind = "event" /\ Gap(view[c], Head(net[c]))

Receive(c) ==
    /\ Waiting(c) /\ net[c] # <<>>
    /\ view' = [view EXCEPT ![c] =
                       CASE view[c].phase = "attaching" -> OnAttachOk(view[c], Head(net[c]))
                         [] view[c].phase = "catching" -> OnContent(view[c], Head(net[c]))
                         [] view[c].phase = "attached" -> OnMessage(view[c], Head(net[c]))]
    /\ IF Waiting(c)'
         THEN /\ net' = [net EXCEPT ![c] = Tail(@)]
              /\ requests' = IF SeesGap(c)
                               THEN [requests EXCEPT ![c] = Append(@, view[c].last_seq)]
                               ELSE requests
              /\ UNCHANGED srv
         ELSE /\ net' = [net EXCEPT ![c] = <<>>]
              /\ requests' = [requests EXCEPT ![c] = <<>>]
              /\ srv' = [srv EXCEPT ![c] = Idle]
    /\ UNCHANGED <<routerVars, status, spent>>

(* sync: the user selects the session that is already shown.                *)
Sync(c) ==
    /\ view[c].phase = "attached"
    /\ spent.syncs < MaxSyncs
    /\ requests' = [requests EXCEPT ![c] = Append(@, view[c].last_seq)]
    /\ spent' = [spent EXCEPT !.syncs = @ + 1]
    /\ UNCHANGED <<routerVars, status, srv, net, view>>

(* The transport fails at both ends; what it held is lost.                  *)
LoseTransport(c) ==
    /\ Waiting(c)
    /\ spent.losses < MaxLosses
    /\ view' = [view EXCEPT ![c] = IF view[c].phase = "attached" THEN Lost(view[c])
                                                               ELSE Failed(view[c])]
    /\ srv' = [srv EXCEPT ![c] = Idle]
    /\ net' = [net EXCEPT ![c] = <<>>]
    /\ requests' = [requests EXCEPT ![c] = <<>>]
    /\ spent' = [spent EXCEPT !.losses = @ + 1]
    /\ UNCHANGED <<routerVars, status>>

(* The session is gone: open_session answers AttachDenied.                  *)
Refuse(c) ==
    /\ view[c].phase \in {"new", "lost"} /\ Stopped
    /\ view' = [view EXCEPT ![c] = Failed([view[c] EXCEPT !.tries = view[c].tries + 1])]
    /\ UNCHANGED <<routerVars, status, linkVars, spent>>

-----------------------------------------------------------------------------
Dispatching == ApplyToSnapshot \/ \E c \in Clients : TrySend(c) \/ StoreLagged(c)
Ending == EmitEnding \/ NotifyStopped
ServerStep(c) == \/ Subscribe(c) \/ ChooseReplay(c) \/ Fitted(c) \/ Send(c) \/ Pump(c)
                 \/ HandleSync(c) \/ SyncReplay(c) \/ SyncSnapshot(c) \/ StartDrain(c) \/ Drain(c)
Reconnect(c) == view[c].phase = "lost" /\ (Connect(c) \/ Refuse(c))

Next ==
    \/ Emit \/ Dispatching \/ Evict \/ Stop \/ Ending
    \/ \E c \in Clients : \/ Connect(c) \/ Refuse(c) \/ ServerStep(c)
                          \/ Receive(c) \/ Sync(c) \/ LoseTransport(c)

Spec == Init /\ [][Next]_vars

(* An emit calls all its handlers, a stop finishes, serve loops and clients *)
(* are scheduled, and a client that lost its connection reconnects.  Nothing*)
(* makes anyone emit, stop, sync or lose a transport.                       *)
FairSpec ==
    /\ Spec
    /\ WF_vars(Dispatching) /\ WF_vars(Ending)
    /\ \A c \in Clients : /\ WF_vars(ServerStep(c)) /\ WF_vars(Receive(c))
                          /\ WF_vars(Reconnect(c))

-----------------------------------------------------------------------------
Canonical(c) == view[c].events = 1 .. (base + view[c].last_seq)
OfThisCore(c) == view[c].origin = base

(* An attached client whose view started from a snapshot of the current     *)
(* core shows exactly the events up to its last_seq: no interleaving of     *)
(* emits, handshake, replay, sync, lag and reconnect makes its view miss an *)
(* event or mix in one from elsewhere.  And while the session lives it is   *)
(* never sent an event beyond the next one it expects: an overflow is       *)
(* always followed by a revocation, never by the events after the dropped   *)
(* one (apply_event: never a torn transcript).                              *)
NeverTorn ==
    \A c \in Clients :
        /\ view[c].phase = "attached" /\ OfThisCore(c) => Canonical(c)
        /\ SeesGap(c) => Stopped

(* A client that is served shows the session's events up to its last_seq,   *)
(* whichever core it knew before it resumed.                                *)
ServedIsCanonical ==
    \A c \in Clients : view[c].phase = "attached" /\ srv[c].phase = "serving" => Canonical(c)

(* Whatever an open connection has not yet shown its client is on its way:  *)
(* in the transport, in the serve loop's hands, in the queue and not to be  *)
(* skipped, or still to be handed over by the emit in progress - unless the *)
(* queue has overflowed, or the view is of an earlier core.                 *)
Reflected(messages) == UNION {messages[i].events : i \in DOMAIN messages}
OnItsWay(c) ==
    LET queue == srv[c].queue
        kept == {i \in DOMAIN queue : queue[i].seq > srv[c].watermark}
    IN  Reflected(net[c]) \cup Reflected(srv[c].outbox) \cup (UNION {queue[i].events : i \in kept})
          \cup (IF c \in dispatch THEN {Total} ELSE {})
NothingLost ==
    \A c \in Clients :
        /\ srv[c].phase \in {"answering", "hydrating", "serving", "pumping", "replaying",
                            "syncing"}
        /\ OfThisCore(c) /\ ~srv[c].lagged /\ ~srv[c].overflow
        => 1 .. Total \subseteq view[c].events \cup OnItsWay(c)

(* When the session has gone quiet, every attached client shows everything, *)
(* unless its queue overflowed and it has not been told yet.                *)
CatchesUp ==
    <>[](\A c \in Clients :
            view[c].phase = "attached" /\ OfThisCore(c) /\ ~Stopped /\ ~srv[c].lagged
              => view[c].events = 1 .. Total)

(* A lost client is attached again, or has stopped trying; and a stopped    *)
(* session lets go of every connection, also of one whose handshake the     *)
(* stop overtook.                                                           *)
LinksSettle ==
    \A c \in Clients :
        /\ view[c].phase = "lost" ~> view[c].phase \in {"attached", "ended"}
        /\ Stopped ~> srv[c].phase = "none"
=============================================================================
