---------------------------- MODULE SessionStore ----------------------------
(***************************************************************************)
(* The persistence of ONE session id: the SQLite row and the writer epoch  *)
(* of session_store.rs, and the SessionPersistence handles (session_core.rs)*)
(* through which live runtimes -- daemon or ACP session cores, in the same *)
(* process or in different ones -- load, claim, save and delete it.        *)
(*                                                                         *)
(* Abstractions:                                                           *)
(*  - a payload (history, model, thinking level, client ids, outcomes) is  *)
(*    the set of the mutations it reflects; clearing the history is one    *)
(*    more mutation;                                                       *)
(*  - a writer epoch, a fresh UUID in the code, is a fresh number; 0 is    *)
(*    the absent row of session_writers;                                   *)
(*  - each SQLite immediate transaction is one step; a failed one changes  *)
(*    nothing.                                                             *)
(***************************************************************************)
EXTENDS Naturals, FiniteSets

CONSTANTS
    Runtimes,       \* slots for session cores that open this session id
    IdReuse,        \* may a deleted id be created or imported again?
    MaxMutations,   \* bound: payload mutations
    MaxGeneration,  \* bound: the per-core capture counter
    MaxEpoch        \* bound: writer claims

ASSUME StoreAssumption ==
    /\ IdReuse \in BOOLEAN
    /\ MaxMutations \in Nat
    /\ MaxGeneration \in Nat
    /\ MaxEpoch \in Nat

VARIABLES
    row,          \* the row of table sessions (NoRow when absent)
    writerEpoch,  \* the row of table session_writers (0 when absent)
    lastEpoch,    \* freshness of the UUIDs: the newest epoch handed out
    deletedAt,    \* ghost: lastEpoch at the latest deletion
    used,         \* ghost: the id has been created or imported before
    mutations,    \* freshness of mutations: the newest one
    rt            \* the session core in each slot

vars == <<row, writerEpoch, lastEpoch, deletedAt, used, mutations, rt>>

Payloads == SUBSET Nat

\* `by' is a ghost: the epoch that wrote the row, 0 for an import.
Rows == [exists : BOOLEAN, gen : Nat, payload : Payloads, by : Nat]

NoRow == [exists |-> FALSE, gen |-> 0, payload |-> {}, by |-> 0]

\* PersistenceCapture.  `awaited' is FALSE once the future waiting for the
\* spawn_blocking save was dropped: the save itself still runs.
Captures == [gen : Nat, payload : Payloads, kind : {"gate", "checkpoint"}, awaited : BOOLEAN]

Phases == {"idle", "loaded", "opening", "live", "closed"}

\* SessionPersistence + SessionPersistenceState + the parts of SessionCore that
\* feed a capture.  lastSaved = 0 stands for None.
Cores == [phase : Phases, loaded : Rows, epoch : Nat, counter : Nat, mem : Payloads,
          inTurn : BOOLEAN, outside : Payloads, lastSaved : Nat, deleted : BOOLEAN, superseded : BOOLEAN,
          inflight : SUBSET Captures]

NoCore == [phase |-> "idle", loaded |-> NoRow, epoch |-> 0, counter |-> 0, mem |-> {},
           inTurn |-> FALSE, outside |-> {}, lastSaved |-> 0, deleted |-> FALSE, superseded |-> FALSE,
           inflight |-> {}]

TypeOK ==
    /\ row \in Rows
    /\ writerEpoch \in Nat
    /\ lastEpoch \in Nat
    /\ deletedAt \in Nat
    /\ used \in BOOLEAN
    /\ mutations \in Nat
    /\ rt \in [Runtimes -> Cores]

Init ==
    /\ row = NoRow
    /\ writerEpoch = 0
    /\ lastEpoch = 0
    /\ deletedAt = 0
    /\ used = FALSE
    /\ mutations = 0
    /\ rt = [r \in Runtimes |-> NoCore]

-----------------------------------------------------------------------------
(* Opening: session_factory.rs open / acp_cmd.rs session/new and load.      *)

\* Mutant: claim_writer checks only that the payload row is there.
BugExpectedMatches(expected) == expected.exists = row.exists

\* claim_writer's generation check; expected is a row (Some(generation)) or
\* NoRow (None).
ExpectedMatches(expected) ==
    IF expected.exists THEN row.exists /\ row.gen = expected.gen ELSE ~row.exists

\* claim_writer rotates the epoch, with_writer builds a fresh persistence
\* state, initialize_persistence_generation and set_history seed the core
\* from the record that was loaded (nothing for a created session).
ClaimedCore(expected) ==
    [NoCore EXCEPT !.phase = "live", !.epoch = lastEpoch + 1,
                   !.counter = expected.gen, !.mem = expected.payload]

Claim(r, expected, core) ==
    /\ lastEpoch < MaxEpoch
    /\ ExpectedMatches(expected)
    /\ lastEpoch' = lastEpoch + 1
    /\ writerEpoch' = lastEpoch + 1
    /\ rt' = [rt EXCEPT ![r] = core]
    /\ used' = TRUE
    /\ UNCHANGED <<row, deletedAt, mutations>>

\* SessionOpenMode::Create: no record, claim_writer(id, None), and the save of
\* the empty session the open waits for.
CreatedCore ==
    [ClaimedCore(NoRow) EXCEPT
        !.phase = "opening", !.counter = @ + 1,
        !.inflight = {[gen |-> 1, payload |-> {}, kind |-> "gate", awaited |-> TRUE]}]

Create(r) ==
    /\ rt[r].phase = "idle"
    /\ used => IdReuse
    /\ Claim(r, NoRow, CreatedCore)

\* SessionOpenMode::Load reads the record ...
Load(r) ==
    /\ rt[r].phase = "idle"
    /\ row.exists
    /\ rt' = [rt EXCEPT ![r] = [NoCore EXCEPT !.phase = "loaded", !.loaded = row]]
    /\ UNCHANGED <<row, writerEpoch, lastEpoch, deletedAt, used, mutations>>

\* ... and claims in a second transaction with the generation it read.
ClaimLoaded(r) ==
    /\ rt[r].phase = "loaded"
    /\ Claim(r, rt[r].loaded, ClaimedCore(rt[r].loaded))

\* The row moved between the two: WriterChanged, the open fails.
ClaimRefused(r) ==
    /\ rt[r].phase = "loaded"
    /\ ~ExpectedMatches(rt[r].loaded)
    /\ rt' = [rt EXCEPT ![r] = NoCore]
    /\ UNCHANGED <<row, writerEpoch, lastEpoch, deletedAt, used, mutations>>

\* import_if_absent: neither a payload nor a writer row may exist.
Import ==
    /\ ~row.exists
    /\ writerEpoch = 0
    /\ used => IdReuse
    /\ mutations < MaxMutations
    /\ mutations' = mutations + 1
    /\ row' = [exists |-> TRUE, gen |-> 1, payload |-> {mutations + 1}, by |-> 0]
    /\ used' = TRUE
    /\ UNCHANGED <<writerEpoch, lastEpoch, deletedAt, rt>>

-----------------------------------------------------------------------------
(* A live core mutates its state, captures it, and saves captures.          *)

AwaitedOf(r, kind) == {c \in rt[r].inflight : c.awaited /\ c.kind = kind}

\* A canonical mutation made under the session lock: by a turn that holds it
\* (and is not waiting for a checkpoint), or by a model, thinking or history
\* change outside a turn.
Mutate(r) ==
    /\ rt[r].phase = "live"
    /\ AwaitedOf(r, "checkpoint") = {}
    /\ mutations < MaxMutations
    /\ mutations' = mutations + 1
    /\ rt' = [rt EXCEPT ![r].mem = @ \cup {mutations + 1}]
    /\ UNCHANGED <<row, writerEpoch, lastEpoch, deletedAt, used>>

\* The ACP model and thinking picker writes its cells without the session
\* lock; a turn that is running projects the values it started with.
PickOption(r) ==
    /\ rt[r].phase = "live"
    /\ rt[r].inTurn
    /\ mutations < MaxMutations
    /\ mutations' = mutations + 1
    /\ rt' = [rt EXCEPT ![r].mem = @ \cup {mutations + 1}, ![r].outside = @ \cup {mutations + 1}]
    /\ UNCHANGED <<row, writerEpoch, lastEpoch, deletedAt, used>>

\* A turn takes the session lock, and gives it back.
TurnLock(r) ==
    /\ rt[r].phase = "live"
    /\ AwaitedOf(r, "checkpoint") = {}
    /\ rt' = [rt EXCEPT ![r].inTurn = ~@, ![r].outside = {}]
    /\ UNCHANGED <<row, writerEpoch, lastEpoch, deletedAt, used, mutations>>

\* The generation is minted with the payload, under the session lock.
TakeCapture(r, kind, payload) ==
    /\ rt[r].phase = "live"
    /\ AwaitedOf(r, kind) = {}
    /\ rt[r].counter < MaxGeneration
    /\ rt' = [rt EXCEPT ![r].counter = @ + 1,
                        ![r].inflight = @ \cup {[gen |-> rt[r].counter + 1, payload |-> payload,
                                                 kind |-> kind, awaited |-> TRUE]}]
    /\ UNCHANGED <<row, writerEpoch, lastEpoch, deletedAt, used, mutations>>

\* Mutant: the capture does not wait for the session lock.
BugCapturePersistence(r) == TakeCapture(r, "gate", rt[r].mem)

\* persist_current: one gate owner at a time; capture_persistence needs the
\* session lock, which a running turn holds.
CapturePersistence(r) ==
    /\ ~rt[r].inTurn
    /\ TakeCapture(r, "gate", rt[r].mem)

\* The turn checkpoint (ADR-020) runs inside the turn and takes no gate.
CaptureCheckpoint(r) ==
    /\ rt[r].inTurn
    /\ TakeCapture(r, "checkpoint", rt[r].mem \ rt[r].outside)

\* The waiting future is dropped; the blocking save goes on.
DropWaiter(r) ==
    \E c \in rt[r].inflight :
        /\ rt[r].phase = "live"
        /\ c.awaited
        /\ rt' = [rt EXCEPT ![r].inflight = (@ \ {c}) \cup {[c EXCEPT !.awaited = FALSE]}]
        /\ UNCHANGED <<row, writerEpoch, lastEpoch, deletedAt, used, mutations>>

\* Mutant: the writer epoch is not compared.
BugEpochMatches(epoch) == TRUE

\* write_record's admission: the epoch first, then the generation.
EpochMatches(epoch) == writerEpoch = epoch
GenerationStale(gen) == row.exists /\ gen <= row.gen

\* SessionPersistence::save, whose state lock spans checks, write and
\* watermark.  Outcomes: SkippedDeleted, Superseded, SkippedStale, Saved.
SaveOutcome(r, c) ==
    IF rt[r].deleted THEN "deleted"
    ELSE IF rt[r].superseded THEN "superseded"
    ELSE IF rt[r].lastSaved # 0 /\ c.gen < rt[r].lastSaved THEN "stale_here"
    ELSE IF ~EpochMatches(rt[r].epoch) THEN "now_superseded"
    ELSE IF GenerationStale(c.gen) THEN "stale_stored"
    ELSE "saved"

\* Mutant: the open takes the outcome of the save for its own.
BugOpened(phase) == IF phase = "opening" THEN "saved" ELSE phase

\* An open that waits for its first save returns with it, failed or not.
Opened(phase) == IF phase = "opening" THEN "live" ELSE phase

RowOf(r, c) == [exists |-> TRUE, gen |-> c.gen, payload |-> c.payload, by |-> rt[r].epoch]

\* A SkippedStale reply makes persist_current and the checkpoint raise the
\* counter to the generation that won, before they capture again.
SaveReply(r, c, outcome) ==
    LET seen == IF outcome = "stale_here" THEN rt[r].lastSaved ELSE row.gen
        stale == outcome \in {"stale_here", "stale_stored"}
    IN  [rt[r] EXCEPT
            !.phase = Opened(@),
            !.inflight = @ \ {c},
            !.superseded = @ \/ outcome = "now_superseded",
            !.lastSaved = IF outcome = "saved" THEN c.gen
                          ELSE IF outcome = "stale_stored" THEN row.gen ELSE @,
            !.counter = IF stale /\ c.awaited /\ @ < seen THEN seen ELSE @]

Save(r) ==
    \E c \in rt[r].inflight :
        LET outcome == SaveOutcome(r, c) IN
        /\ rt' = [rt EXCEPT ![r] = SaveReply(r, c, outcome)]
        /\ row' = IF outcome = "saved" THEN RowOf(r, c) ELSE row
        /\ UNCHANGED <<writerEpoch, lastEpoch, deletedAt, used, mutations>>

\* The database refuses (busy, full, unreadable): nothing is written.
SaveFails(r) ==
    \E c \in rt[r].inflight :
        /\ ~rt[r].deleted /\ ~rt[r].superseded
        /\ rt' = [rt EXCEPT ![r].inflight = @ \ {c}, ![r].phase = Opened(@)]
        /\ UNCHANGED <<row, writerEpoch, lastEpoch, deletedAt, used, mutations>>

-----------------------------------------------------------------------------
(* Deleting, closing and crashing.                                          *)

\* Mutant: the delete leaves the writer row.
BugEraseRows ==
    /\ row' = NoRow
    /\ deletedAt' = lastEpoch
    /\ UNCHANGED <<writerEpoch, lastEpoch, used, mutations>>

\* Both deletes remove the payload row and the writer row in one transaction.
EraseRows ==
    /\ row' = NoRow
    /\ writerEpoch' = 0
    /\ deletedAt' = lastEpoch
    /\ UNCHANGED <<lastEpoch, used, mutations>>

\* SessionPersistence::delete through delete_writer; an epoch that is no
\* longer current deletes nothing but still closes this handle.
DeleteWriter(r) ==
    /\ rt[r].phase = "live"
    /\ ~rt[r].deleted /\ ~rt[r].superseded
    /\ rt' = [rt EXCEPT ![r].deleted = TRUE]
    /\ IF EpochMatches(rt[r].epoch)
       THEN EraseRows
       ELSE UNCHANGED <<row, writerEpoch, lastEpoch, deletedAt, used, mutations>>

\* ACP session/delete of an id with no live handle in that process; it
\* revokes whatever writer is active.
DeleteUnconditionally ==
    /\ row.exists \/ writerEpoch # 0
    /\ EraseRows
    /\ UNCHANGED rt

\* The core is dropped from its registry.  Saves already handed to
\* spawn_blocking finish on their own.
Close(r) ==
    /\ rt[r].phase = "live"
    /\ rt' = [rt EXCEPT ![r].phase = "closed", ![r].inTurn = FALSE,
                        ![r].inflight = {[c EXCEPT !.awaited = FALSE] : c \in @}]
    /\ UNCHANGED <<row, writerEpoch, lastEpoch, deletedAt, used, mutations>>

\* The last reference to a closed core goes away: the slot is free.
Reap(r) ==
    /\ rt[r].phase = "closed"
    /\ rt[r].inflight = {}
    /\ rt' = [rt EXCEPT ![r] = NoCore]
    /\ UNCHANGED <<row, writerEpoch, lastEpoch, deletedAt, used, mutations>>

\* The process dies: memory and saves not yet committed are gone, the writer
\* row stays.
Crash(r) ==
    /\ rt[r].phase # "idle"
    /\ rt' = [rt EXCEPT ![r] = NoCore]
    /\ UNCHANGED <<row, writerEpoch, lastEpoch, deletedAt, used, mutations>>

RuntimeStep(r) ==
    \/ Create(r)
    \/ Load(r)
    \/ ClaimLoaded(r)
    \/ ClaimRefused(r)
    \/ Mutate(r)
    \/ PickOption(r)
    \/ TurnLock(r)
    \/ CapturePersistence(r)
    \/ CaptureCheckpoint(r)
    \/ DropWaiter(r)
    \/ Save(r)
    \/ SaveFails(r)
    \/ DeleteWriter(r)
    \/ Close(r)
    \/ Reap(r)
    \/ Crash(r)

Next ==
    \/ \E r \in Runtimes : RuntimeStep(r)
    \/ Import
    \/ DeleteUnconditionally

Spec == Init /\ [][Next]_vars

-----------------------------------------------------------------------------
(* Properties.                                                              *)

Owns(r) == rt[r].phase \in {"opening", "live", "closed"} /\ ~rt[r].deleted /\ rt[r].epoch = writerEpoch

\* The current owner has in memory everything the row holds, and its capture
\* counter is not behind the row: what it saves next neither drops a commit
\* nor is refused as stale.  (claim_writer's generation check, the seeding of
\* the core, write_record's epoch fence, together.)
OwnerCoversRow ==
    \A r \in Runtimes :
        Owns(r) /\ row.exists => row.payload \subseteq rt[r].mem /\ row.gen <= rt[r].counter

\* A capture that save would drop as stale is already contained in the row:
\* SkippedStale never loses a mutation, whatever order the blocking saves of
\* the gate, of checkpoints and of dropped waiters ran in.
StaleIsCovered ==
    \A r \in Runtimes : \A c \in rt[r].inflight :
        Owns(r) /\ row.exists /\ c.gen <= row.gen => c.payload \subseteq row.payload

\* A row that exists was written by an epoch claimed after the latest
\* deletion, or imported: no late save of an older core brings a deleted
\* session back.
NoResurrection == row.exists => row.by = 0 \/ row.by > deletedAt

\* Only the newest claim writes: the row is never written by an epoch older
\* than the one that wrote it before ("every delayed prior-runtime save and
\* delete terminally superseded", ADR-014).
WritersAdvance ==
    [][row.exists /\ row'.exists /\ row' # row => row'.by >= row.by /\ row'.gen > row.gen]_vars

\* No commit is lost: what the row reflects it goes on reflecting until the
\* session is deleted, through saves, claims, closes and crashes of any of
\* the runtimes.
NoLostCommit ==
    [][row.exists /\ row'.exists => row.payload \subseteq row'.payload]_vars

\* The store is a record under a lease: the writer epoch is the lease, and
\* every step of every runtime is a step of that specification or leaves the
\* record alone.
Record == INSTANCE SessionRecord WITH record <- row, lease <- writerEpoch, issued <- lastEpoch

RecordSpec == Record!Spec
=============================================================================
