----------------------------- MODULE Durability -----------------------------
(***************************************************************************)
(* How one session core keeps its promise about durability                 *)
(* (session_core.rs): persist_current with its tickets, gate, bounded      *)
(* retries and published status, the turn checkpoints of ADR-020 beside it,*)
(* and the health that idle eviction trusts.                               *)
(*                                                                         *)
(* A payload is the number of canonical mutations it reflects.  The store  *)
(* is reduced to the payload it holds and to the outcomes of a write (its  *)
(* fencing is module SessionStore); its generation check and the core's    *)
(* watermark are one, since one core writes.                               *)
(***************************************************************************)
EXTENDS Naturals, FiniteSets

CONSTANTS
    Persisters,     \* callers of persist_current, each runs once
    Turns,          \* the ones that are prompts: they checkpoint, commit, then persist
    Attempts,       \* PersistenceRetryPolicy.attempts
    ErrorKinds,     \* kinds of io::Error a save may return
    MaySupersede,   \* another runtime may claim the session
    MayDelete,      \* the session may be deleted
    MayDrop,        \* a waiting persist_current future may be dropped
    NoOne

ASSUME DurabilityAssumption ==
    /\ Turns \subseteq Persisters
    /\ Attempts \in Nat \ {0}
    /\ ErrorKinds \subseteq {"retryable", "other"}
    /\ MaySupersede \in BOOLEAN /\ MayDelete \in BOOLEAN /\ MayDrop \in BOOLEAN
    /\ NoOne \notin Persisters

VARIABLES
    st,          \* local state of each caller
    version,     \* canonical mutations made so far
    registered,  \* ghost: the newest mutation whose save was requested
    requested, completed,  \* persistence_requested, persistence_completed
    gate,        \* holder of persistence_gate
    session,     \* the turn that holds the session lock
    status,      \* durability_status, and the last event about it
    health,      \* SessionPersistenceState.health
    owned, superseded, deleted,
    generation,  \* persistence_generation
    lastSaved,   \* last_saved_generation (0: None)
    stored,      \* the payload in the store
    detached     \* blocking saves whose waiter was dropped

vars == <<st, version, registered, requested, completed, gate, session, status, health,
          owned, superseded, deleted, generation, lastSaved, stored, detached>>

Statuses == {"saved", "unsaved", "saving", "degraded", "superseded"}
Outcomes == {"none", "saved", "stale", "deleted", "superseded", "retryable", "other"}
Pcs == {"idle", "turn", "ckcapture", "cksave", "ckreply", "mutated", "requested", "tounsaved", "gate",
        "owner", "tosaving", "capture", "save", "reply", "clean", "decide", "publish", "done", "dropped"}

Locals == [pc : Pcs, mutation : Nat, ticket : Nat, handled : Nat, attempts : Nat,
           gen : Nat, payload : Nat, outcome : Outcomes, next : Statuses, checkpointed : BOOLEAN]

TypeOK ==
    /\ st \in [Persisters -> Locals]
    /\ version \in Nat /\ registered \in Nat /\ requested \in Nat /\ completed \in Nat
    /\ gate \in Persisters \cup {NoOne}
    /\ session \in Turns \cup {NoOne}
    /\ status \in Statuses
    /\ health \in {"clean", "dirty", "degraded"}
    /\ owned \in BOOLEAN /\ superseded \in BOOLEAN /\ deleted \in BOOLEAN
    /\ generation \in Nat /\ lastSaved \in Nat /\ stored \in Nat
    /\ detached \subseteq [gen : Nat, payload : Nat]

Init ==
    /\ st = [p \in Persisters |->
                [pc |-> "idle", mutation |-> 0, ticket |-> 0, handled |-> 0, attempts |-> 0,
                 gen |-> 0, payload |-> 0, outcome |-> "none", next |-> "saved", checkpointed |-> FALSE]]
    /\ version = 0 /\ registered = 0 /\ requested = 0 /\ completed = 0
    /\ gate = NoOne
    /\ session = NoOne
    /\ status = "saved"
    /\ health = "clean"
    /\ owned = TRUE /\ superseded = FALSE /\ deleted = FALSE
    /\ generation = 0 /\ lastSaved = 0 /\ stored = 0
    /\ detached = {}

-----------------------------------------------------------------------------
At(p, l) == st[p].pc = l
Goto(p, l) == st' = [st EXCEPT ![p].pc = l]
Later(a, b) == IF a < b THEN b ELSE a

\* SessionEventRouter::transition_durability.
Blocked(new) ==
    \/ status = "superseded"
    \/ status = "degraded" /\ new \notin {"saved", "superseded"}
    \/ status = "saving" /\ new = "unsaved"

\* Mutant: the mismatch of two status words goes unnoticed.
BugTransition(new) == status' = IF Blocked(new) THEN "blocked" ELSE new

Transition(new) == status' = IF Blocked(new) THEN status ELSE new

\* mark_dirty and mark_degraded.
MarkHealth(h) == health' = IF deleted \/ superseded THEN health ELSE h

\* persistence_health(), what idle eviction and the final save look at.
PersistenceHealth ==
    IF requested > completed THEN "dirty"
    ELSE IF deleted THEN "clean"
    ELSE IF superseded THEN "superseded"
    ELSE health

-----------------------------------------------------------------------------
(* SessionPersistence::save, under its state lock.                          *)

SaveOutcomes(gen) ==
    IF deleted THEN {"deleted"}
    ELSE IF superseded THEN {"superseded"}
    ELSE IF gen <= lastSaved THEN {"stale"}
    ELSE ErrorKinds \cup {IF owned THEN "saved" ELSE "superseded"}

DoSave(gen, payload, outcome) ==
    /\ outcome \in SaveOutcomes(gen)
    /\ superseded' = (superseded \/ outcome = "superseded")
    /\ lastSaved' = IF outcome = "saved" THEN gen ELSE lastSaved
    /\ stored' = IF outcome = "saved" THEN payload ELSE stored

\* The outcome of a save whose waiter is gone reaches nobody.
DetachedSave ==
    \E d \in detached : \E outcome \in Outcomes :
        /\ DoSave(d.gen, d.payload, outcome)
        /\ detached' = detached \ {d}
        /\ UNCHANGED <<st, version, registered, requested, completed, gate, session, status, health,
                       owned, deleted, generation>>

-----------------------------------------------------------------------------
(* A prompt: the session lock, checkpoints, the commit.                     *)

\* Takes the session lock; configure_turn_checkpoint fixes what checkpoints
\* will project; the status becomes Unsaved.
TurnBegins(p) ==
    /\ At(p, "idle")
    /\ p \in Turns
    /\ session = NoOne
    /\ session' = p
    /\ Transition("unsaved")
    /\ st' = [st EXCEPT ![p].pc = "turn", ![p].payload = version]
    /\ UNCHANGED <<version, registered, requested, completed, gate, health, owned, superseded, deleted,
                   generation, lastSaved, stored, detached>>

CheckpointBegins(p) ==
    /\ At(p, "turn")
    /\ ~st[p].checkpointed
    /\ MarkHealth("dirty")
    /\ st' = [st EXCEPT ![p].pc = "ckcapture", ![p].attempts = 0]
    /\ UNCHANGED <<version, registered, requested, completed, gate, session, status, owned, superseded,
                   deleted, generation, lastSaved, stored, detached>>

CheckpointCapture(p) ==
    /\ At(p, "ckcapture")
    /\ generation' = generation + 1
    /\ st' = [st EXCEPT ![p].pc = "cksave", ![p].gen = generation + 1, ![p].attempts = @ + 1]
    /\ UNCHANGED <<version, registered, requested, completed, gate, session, status, health, owned,
                   superseded, deleted, lastSaved, stored, detached>>

CheckpointSave(p) ==
    /\ At(p, "cksave")
    /\ \E outcome \in Outcomes :
        /\ DoSave(st[p].gen, st[p].payload, outcome)
        /\ st' = [st EXCEPT ![p].pc = "ckreply", ![p].outcome = outcome]
    /\ UNCHANGED <<version, registered, requested, completed, gate, session, status, health, owned,
                   deleted, generation, detached>>

\* Every error publishes Degraded, the first of several attempts included.
CheckpointReply(p) ==
    LET outcome == st[p].outcome
        again == outcome \in {"stale", "retryable"} /\ st[p].attempts < Attempts
    IN  /\ At(p, "ckreply")
        /\ CASE outcome \in {"saved", "deleted"} -> Transition("unsaved") /\ UNCHANGED health
             [] outcome = "superseded" -> Transition("superseded") /\ UNCHANGED health
             [] outcome = "stale" -> UNCHANGED <<status, health>>
             [] OTHER -> Transition("degraded") /\ MarkHealth("degraded")
        /\ generation' = IF outcome = "stale" THEN Later(generation, lastSaved) ELSE generation
        /\ st' = [st EXCEPT ![p].pc = IF again THEN "ckcapture" ELSE "turn",
                            ![p].checkpointed = ~again]
        /\ UNCHANGED <<version, registered, requested, completed, gate, session, owned, superseded,
                       deleted, lastSaved, stored, detached>>

\* Mutant: the session lock is still held when persist_current starts.
BugTurnCommits(p) ==
    /\ At(p, "turn")
    /\ version' = version + 1
    /\ st' = [st EXCEPT ![p].pc = "mutated", ![p].mutation = version + 1]
    /\ UNCHANGED <<registered, requested, completed, gate, session, status, health, owned, superseded,
                   deleted, generation, lastSaved, stored, detached>>

\* commit_staged or finalize_cancelled_turn, then the session lock is dropped
\* before persist_current.
TurnCommits(p) ==
    /\ At(p, "turn")
    /\ session' = NoOne
    /\ version' = version + 1
    /\ st' = [st EXCEPT ![p].pc = "mutated", ![p].mutation = version + 1]
    /\ UNCHANGED <<registered, requested, completed, gate, status, health, owned, superseded, deleted,
                   generation, lastSaved, stored, detached>>

\* A model, thinking or history change.
Mutate(p) ==
    /\ At(p, "idle")
    /\ p \notin Turns
    /\ version' = version + 1
    /\ st' = [st EXCEPT ![p].pc = "mutated", ![p].mutation = version + 1]
    /\ UNCHANGED <<registered, requested, completed, gate, session, status, health, owned, superseded,
                   deleted, generation, lastSaved, stored, detached>>

\* attempt_final_save: nothing new, but the health is not clean.
FinalSave(p) ==
    /\ At(p, "idle")
    /\ p \notin Turns
    /\ PersistenceHealth # "clean"
    /\ Goto(p, "mutated")
    /\ UNCHANGED <<version, registered, requested, completed, gate, session, status, health, owned,
                   superseded, deleted, generation, lastSaved, stored, detached>>

-----------------------------------------------------------------------------
(* persist_current.                                                         *)

Register(p) ==
    /\ At(p, "mutated")
    /\ requested' = requested + 1
    /\ registered' = Later(registered, st[p].mutation)
    /\ st' = [st EXCEPT ![p].pc = "requested", ![p].ticket = requested + 1]
    /\ UNCHANGED <<version, completed, gate, session, status, health, owned, superseded, deleted,
                   generation, lastSaved, stored, detached>>

\* The status is read here and changed in a later step.
ReadStatus(p) ==
    /\ At(p, "requested")
    /\ Goto(p, IF status = "saving" THEN "gate" ELSE "tounsaved")
    /\ UNCHANGED <<version, registered, requested, completed, gate, session, status, health, owned,
                   superseded, deleted, generation, lastSaved, stored, detached>>

PublishUnsaved(p) ==
    /\ At(p, "tounsaved")
    /\ Transition("unsaved")
    /\ Goto(p, "gate")
    /\ UNCHANGED <<version, registered, requested, completed, gate, session, health, owned, superseded,
                   deleted, generation, lastSaved, stored, detached>>

\* Requests already handled by an earlier owner coalesce into its save.
TakeGate(p) ==
    /\ At(p, "gate")
    /\ gate = NoOne
    /\ IF completed >= st[p].ticket
       THEN Goto(p, "done") /\ UNCHANGED gate
       ELSE Goto(p, "owner") /\ gate' = p
    /\ UNCHANGED <<version, registered, requested, completed, session, status, health, owned, superseded,
                   deleted, generation, lastSaved, stored, detached>>

MarkDirty(p) ==
    /\ At(p, "owner")
    /\ MarkHealth("dirty")
    /\ Goto(p, "tosaving")
    /\ UNCHANGED <<version, registered, requested, completed, gate, session, status, owned, superseded,
                   deleted, generation, lastSaved, stored, detached>>

\* The requests this owner handles are read before it captures.
PublishSaving(p) ==
    /\ At(p, "tosaving")
    /\ Transition("saving")
    /\ st' = [st EXCEPT ![p].pc = "capture", ![p].handled = requested, ![p].attempts = 0]
    /\ UNCHANGED <<version, registered, requested, completed, gate, session, health, owned, superseded,
                   deleted, generation, lastSaved, stored, detached>>

\* capture_persistence waits for the session lock.
Capture(p) ==
    /\ At(p, "capture")
    /\ session = NoOne
    /\ generation' = generation + 1
    /\ st' = [st EXCEPT ![p].pc = "save", ![p].gen = generation + 1, ![p].payload = version,
                        ![p].attempts = @ + 1]
    /\ UNCHANGED <<version, registered, requested, completed, gate, session, status, health, owned,
                   superseded, deleted, lastSaved, stored, detached>>

Save(p) ==
    /\ At(p, "save")
    /\ \E outcome \in Outcomes :
        /\ DoSave(st[p].gen, st[p].payload, outcome)
        /\ st' = [st EXCEPT ![p].pc = "reply", ![p].outcome = outcome]
    /\ UNCHANGED <<version, registered, requested, completed, gate, session, status, health, owned,
                   deleted, generation, detached>>

Complete(p) == completed' = Later(completed, st[p].handled)

\* Saved, SkippedDeleted, Superseded: the handled requests are complete.
ReplyDone(p) ==
    LET outcome == st[p].outcome IN
    /\ At(p, "reply")
    /\ outcome \in {"saved", "deleted", "superseded"}
    /\ Complete(p)
    /\ st' = [st EXCEPT ![p].pc = CASE outcome = "saved" -> "clean"
                                    [] outcome = "deleted" -> "decide"
                                    [] outcome = "superseded" -> "publish",
                        ![p].next = IF outcome = "superseded" THEN "superseded" ELSE @]
    /\ UNCHANGED <<version, registered, requested, gate, session, status, health, owned, superseded,
                   deleted, generation, lastSaved, stored, detached>>

\* SkippedStale: dirty; recapture while attempts are left, else give up.
ReplyStale(p) ==
    /\ At(p, "reply")
    /\ st[p].outcome = "stale"
    /\ generation' = Later(generation, lastSaved)
    /\ MarkHealth("dirty")
    /\ st' = [st EXCEPT ![p].pc = IF st[p].attempts < Attempts THEN "capture" ELSE "publish",
                        ![p].next = "unsaved"]
    /\ UNCHANGED <<version, registered, requested, completed, gate, session, status, owned, superseded,
                   deleted, lastSaved, stored, detached>>

\* An error: degraded; only a retryable one is tried again.
Retries(outcome, attempts) == outcome = "retryable" /\ attempts < Attempts

\* Mutant: a failed attempt restores the clean health.
BugReplyError(p) ==
    LET again == Retries(st[p].outcome, st[p].attempts) IN
    /\ At(p, "reply")
    /\ st[p].outcome \in {"retryable", "other"}
    /\ MarkHealth("clean")
    /\ IF again THEN UNCHANGED completed ELSE Complete(p)
    /\ st' = [st EXCEPT ![p].pc = IF again THEN "capture" ELSE "publish", ![p].next = "degraded"]
    /\ UNCHANGED <<version, registered, requested, gate, session, status, owned, superseded, deleted,
                   generation, lastSaved, stored, detached>>

ReplyError(p) ==
    LET again == Retries(st[p].outcome, st[p].attempts) IN
    /\ At(p, "reply")
    /\ st[p].outcome \in {"retryable", "other"}
    /\ MarkHealth("degraded")
    /\ IF again THEN UNCHANGED completed ELSE Complete(p)
    /\ st' = [st EXCEPT ![p].pc = IF again THEN "capture" ELSE "publish", ![p].next = "degraded"]
    /\ UNCHANGED <<version, registered, requested, gate, session, status, owned, superseded, deleted,
                   generation, lastSaved, stored, detached>>

\* mark_clean_if_fully_handled.
MarkClean(p) ==
    /\ At(p, "clean")
    /\ MarkHealth(IF requested <= st[p].handled THEN "clean" ELSE "dirty")
    /\ Goto(p, "decide")
    /\ UNCHANGED <<version, registered, requested, completed, gate, session, status, owned, superseded,
                   deleted, generation, lastSaved, stored, detached>>

\* publish_completed_durability reads requests and health, ...
Decide(p) ==
    /\ At(p, "decide")
    /\ st' = [st EXCEPT ![p].pc = "publish",
                        ![p].next = IF PersistenceHealth = "clean" THEN "saved" ELSE "unsaved"]
    /\ UNCHANGED <<version, registered, requested, completed, gate, session, status, health, owned,
                   superseded, deleted, generation, lastSaved, stored, detached>>

\* ... publishes what it read, and the gate is dropped.
Publish(p) ==
    /\ At(p, "publish")
    /\ Transition(st[p].next)
    /\ gate' = NoOne
    /\ Goto(p, "done")
    /\ UNCHANGED <<version, registered, requested, completed, session, health, owned, superseded,
                   deleted, generation, lastSaved, stored, detached>>

\* The future is dropped at an await; a save already started goes on alone.
Drop(p) ==
    /\ MayDrop
    /\ st[p].pc \in {"gate", "capture", "save"}
    /\ detached' = IF At(p, "save") THEN detached \cup {[gen |-> st[p].gen, payload |-> st[p].payload]}
                   ELSE detached
    /\ gate' = IF gate = p THEN NoOne ELSE gate
    /\ Goto(p, "dropped")
    /\ UNCHANGED <<version, registered, requested, completed, session, status, health, owned,
                   superseded, deleted, generation, lastSaved, stored>>

-----------------------------------------------------------------------------
\* Another runtime claims the session; the session is deleted here.
LoseOwnership ==
    /\ MaySupersede /\ owned
    /\ owned' = FALSE
    /\ UNCHANGED <<st, version, registered, requested, completed, gate, session, status, health,
                   superseded, deleted, generation, lastSaved, stored, detached>>

Delete ==
    /\ MayDelete /\ ~deleted /\ ~superseded
    /\ deleted' = TRUE
    /\ UNCHANGED <<st, version, registered, requested, completed, gate, session, status, health,
                   owned, superseded, generation, lastSaved, stored, detached>>

Step(p) ==
    \/ TurnBegins(p)
    \/ CheckpointBegins(p)
    \/ CheckpointCapture(p)
    \/ CheckpointSave(p)
    \/ CheckpointReply(p)
    \/ TurnCommits(p)
    \/ Register(p)
    \/ ReadStatus(p)
    \/ PublishUnsaved(p)
    \/ TakeGate(p)
    \/ MarkDirty(p)
    \/ PublishSaving(p)
    \/ Capture(p)
    \/ Save(p)
    \/ ReplyDone(p)
    \/ ReplyStale(p)
    \/ ReplyError(p)
    \/ MarkClean(p)
    \/ Decide(p)
    \/ Publish(p)

Next ==
    \/ \E p \in Persisters : Step(p) \/ Mutate(p) \/ FinalSave(p) \/ Drop(p)
    \/ DetachedSave
    \/ LoseOwnership
    \/ Delete

Spec == Init /\ [][Next]_vars

\* The runtime polls tasks that can run; the gate and the session lock are
\* tokio mutexes, which serve waiters first come first served (hence strong
\* fairness); the store answers or fails (busy timeout); a turn ends or is
\* cancelled.
FairSpec == Spec /\ \A p \in Persisters : SF_vars(Step(p))

-----------------------------------------------------------------------------
(* Properties.                                                              *)

\* What idle eviction and the clients trust.  When the health is clean, every
\* mutation whose save was requested is in the store; so it is when the
\* published status comes to rest on Saved (ADR-015).  Dropped waiters, late
\* blocking saves, failed attempts and checkpoints must not report either too
\* early.
AtRest == gate = NoOne /\ \A p \in Persisters : st[p].pc \in {"idle", "done"}

ReportedIsCommitted ==
    ~deleted /\ (PersistenceHealth = "clean" \/ (AtRest /\ status = "saved"))
        => stored >= registered

\* Every persist_current returns: the gate owner waiting for the session lock
\* and the turn waiting for the gate never block each other.
PersistReturns == \A p \in Persisters : st[p].pc = "requested" ~> st[p].pc \in {"done", "dropped"}
=============================================================================
