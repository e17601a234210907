---------------------------- MODULE SessionDaemon ----------------------------
(***************************************************************************)
(* The session registry of the daemon (session_daemon.rs): opening and     *)
(* attaching, the handshake and its rollback, prompt tasks, idle eviction  *)
(* with its final save, stop and shutdown.                                 *)
(*                                                                         *)
(* A step is what runs between two awaits; locks held across an await (the *)
(* creation gate, an entry's admission lock) are variables.  An entry is   *)
(* one SessionEntry with its SessionCore; an id may have several entries,  *)
(* one after the other.  A core's memory is the set of turns it has        *)
(* completed or loaded, and its record on disk is such a set.  The store's *)
(* writer fence (SessionStore) is left out, so that the daemon has to keep *)
(* two cores of an id apart by itself.                                     *)
(***************************************************************************)
EXTENDS Naturals, FiniteSets

CONSTANTS
    Clients,      \* connections
    Ids,          \* session ids; those in Stored have a record from the start
    Stored,
    MaxSessions,  \* max_sessions
    MaxClients,   \* max_clients_per_session
    MaxEntries,   \* bound: entries ever made
    MaxConnects,  \* bound: connections ever served
    MaxTurns,     \* bound: prompts sent
    MaxLate,      \* bound: final saves in flight at once
    Sweeper, Shutdown, Free, NoEntry, NoRecord

ASSUME DaemonAssumption ==
    /\ Stored \subseteq Ids /\ Free \notin Clients \cup {Sweeper, Shutdown}
    /\ Sweeper \notin Clients /\ Shutdown \notin Clients /\ Sweeper # Shutdown
    /\ {MaxSessions, MaxClients, MaxEntries, MaxConnects, MaxTurns, MaxLate} \subseteq Nat
    /\ NoEntry \notin 1..MaxEntries /\ NoEntry \notin Ids
    /\ \A turnSet \in SUBSET (1..MaxTurns) : NoRecord # turnSet

VARIABLES
    registry,   \* sessions: the entry registered under each id
    creating,   \* creating_sessions
    late,       \* late_persistence_saves: detached final saves of each id
    gate,       \* holder of the creation gate
    shutting,   \* shutting_down
    entries,    \* every entry made so far
    disk,       \* the record of each id
    conn,       \* a connection: where it is, its id, its entry, whether it owns a generated id
    sweep,      \* evict_idle_sessions
    ending,     \* shutdown's end_session, one per entry
    used, connects, turns   \* counters for the bounds

counters == <<used, connects, turns>>
vars == <<registry, creating, late, gate, shutting, entries, disk, conn, sweep, ending, counters>>

Entries == 1..MaxEntries
Actors == Clients \cup {Sweeper, Shutdown}
Registered == {i \in Ids : registry[i] # NoEntry}

Away == [pc |-> "away", id |-> NoEntry, ent |-> NoEntry, made |-> FALSE]

\* The entry create_session_with_snapshot inserts.
NewEntry(id, loaded) ==
    [id |-> id, mem |-> loaded, clean |-> TRUE, clients |-> {}, admission |-> Free,
     stopped |-> FALSE, detached |-> "no", deferral |-> "no", queued |-> {}, turn |-> 0,
     deleted |-> FALSE, saves |-> 0, risk |-> FALSE, end |-> "no"]

Init ==
    /\ registry = [i \in Ids |-> NoEntry] /\ creating = {} /\ late = [i \in Ids |-> 0]
    /\ gate = Free /\ shutting = FALSE
    /\ entries = [e \in Entries |-> NewEntry(NoEntry, {})]
    /\ disk = [i \in Ids |-> IF i \in Stored THEN {} ELSE NoRecord]
    /\ conn = [c \in Clients |-> Away]
    /\ sweep = [pc |-> "rest", todo |-> {}, ent |-> NoEntry]
    /\ ending = [e \in Entries |-> "no"]
    /\ used = 0 /\ connects = 0 /\ turns = 0

At(c, pc) == conn[c].pc = pc
Goto(c, pc) == conn' = [conn EXCEPT ![c].pc = pc]
Of(c) == entries[conn[c].ent]
Busy(e) == entries[e].queued # {} \/ entries[e].turn # 0   \* active_prompt_tasks, is_active
Deleted(i) == [disk EXCEPT ![i] = NoRecord]

-----------------------------------------------------------------------------
(* open_session.                                                            *)

\* A client asks for an id, or for a new session under a fresh one.
Connect(c) ==
    /\ At(c, "away") /\ connects < MaxConnects /\ ~shutting
    /\ \E i \in Ids, made \in BOOLEAN :
        /\ made => /\ i \notin Registered \cup creating /\ disk[i] = NoRecord
                   /\ \A e \in Entries : entries[e].id # i
                   /\ \A d \in Clients : conn[d].id # i
        /\ conn' = [conn EXCEPT ![c] = [pc |-> IF i \in Registered THEN "attach" ELSE "reserve",
                                        id |-> i, ent |-> NoEntry, made |-> made]]
    /\ connects' = connects + 1
    /\ UNCHANGED <<registry, creating, late, gate, shutting, entries, disk, sweep, ending, used, turns>>

\* Mutant: sessions being created are not counted.
BugFull == Cardinality(Registered) >= MaxSessions

Full == Cardinality(Registered) + Cardinality(creating) >= MaxSessions

Refused(i) == shutting \/ late[i] > 0 \/ Full \/ i \in creating

\* Under the gate: the id is reserved, unless another open won or it is refused.
Reserve(c) ==
    /\ At(c, "reserve") /\ gate = Free
    /\ LET i == conn[c].id
       IN  CASE i \in Registered /\ ~shutting -> conn' = [conn EXCEPT ![c].pc = "attach", ![c].made = FALSE]
                                                 /\ UNCHANGED creating
             [] Refused(i) -> conn' = [conn EXCEPT ![c] = Away] /\ UNCHANGED creating
             [] OTHER -> Goto(c, "load") /\ creating' = creating \cup {i}
    /\ UNCHANGED <<registry, late, gate, shutting, entries, disk, sweep, ending, counters>>

\* factory.open: a load takes the record as it is now; it may fail, and it does without one.
Load(c) ==
    /\ At(c, "load")
    /\ LET i == conn[c].id
           e == used + 1
       IN  \/ /\ conn[c].made \/ disk[i] # NoRecord
              /\ used < MaxEntries
              /\ entries' = [entries EXCEPT ![e] = NewEntry(i, IF conn[c].made THEN {} ELSE disk[i])]
              /\ conn' = [conn EXCEPT ![c].pc = "register", ![c].ent = e]
              /\ used' = e
           \/ Goto(c, "register") /\ UNCHANGED <<entries, used>>
    /\ UNCHANGED <<registry, creating, late, gate, shutting, disk, sweep, ending, connects, turns>>

\* Mutant: the reservation outlives the open.
BugUnreserved(i) == creating

Unreserved(i) == creating \ {i}

\* Under the gate again: the entry is registered, unless the open failed, the daemon is
\* going down (a generated record is then deleted) or a late save has appeared.
Register(c) ==
    /\ At(c, "register") /\ gate = Free
    /\ LET i == conn[c].id
           e == conn[c].ent
       IN  /\ creating' = Unreserved(i)
           /\ IF e # NoEntry /\ ~shutting /\ late[i] = 0 /\ i \notin Registered
                 /\ Cardinality(Registered) < MaxSessions
              THEN /\ registry' = [registry EXCEPT ![i] = e]
                   /\ Goto(c, "attach")
                   /\ UNCHANGED <<entries, disk>>
              ELSE /\ conn' = [conn EXCEPT ![c] = Away]
                   /\ UNCHANGED registry
                   /\ IF e # NoEntry /\ shutting /\ conn[c].made
                      THEN entries' = [entries EXCEPT ![e].deleted = TRUE] /\ disk' = Deleted(i)
                      ELSE UNCHANGED <<entries, disk>>
    /\ UNCHANGED <<late, gate, shutting, sweep, ending, counters>>

-----------------------------------------------------------------------------
(* attach_internal, the handshake and its guards.                           *)

\* rollback_generated_session: whatever is registered under the id is removed and
\* deleted; es are the entries with the failed client out.
Rollback(i, es) ==
    LET e == registry[i]
    IN  IF e = NoEntry THEN entries' = es /\ UNCHANGED <<registry, disk>>
        ELSE /\ registry' = [registry EXCEPT ![i] = NoEntry]
             /\ entries' = [es EXCEPT ![e] = [es[e] EXCEPT !.stopped = TRUE, !.clients = {},
                                                           !.deleted = TRUE, !.end = "attach_failed"]]
             /\ disk' = Deleted(i)

\* The entry is looked up; it may be gone again.
Attach(c) ==
    /\ At(c, "attach")
    /\ LET e == registry[conn[c].id]
       IN  conn' = [conn EXCEPT ![c] = IF e = NoEntry THEN Away ELSE [conn[c] EXCEPT !.pc = "admit", !.ent = e]]
    /\ UNCHANGED <<registry, creating, late, gate, shutting, entries, disk, sweep, ending, counters>>

\* With the admission lock, which is kept: the client joins, unless the session was
\* stopped meanwhile or is full (a generated session is then rolled back).
Admit(c) ==
    /\ At(c, "admit") /\ Of(c).admission = Free
    /\ IF Of(c).stopped \/ Cardinality(Of(c).clients) >= MaxClients
       THEN /\ conn' = [conn EXCEPT ![c] = Away]
            /\ IF conn[c].made THEN Rollback(conn[c].id, entries)
               ELSE UNCHANGED <<registry, entries, disk>>
       ELSE /\ entries' = [entries EXCEPT ![conn[c].ent] =
                    [Of(c) EXCEPT !.admission = c, !.clients = @ \cup {c}, !.detached = "no", !.deferral = "no"]]
            /\ Goto(c, "handshake")
            /\ UNCHANGED <<registry, disk>>
    /\ UNCHANGED <<creating, late, gate, shutting, sweep, ending, counters>>

\* The snapshot is fitted to a frame without the lock.
Fit(c) ==
    /\ At(c, "handshake") /\ Of(c).admission = c
    /\ entries' = [entries EXCEPT ![conn[c].ent].admission = Free]
    /\ Goto(c, "fitting")
    /\ UNCHANGED <<registry, creating, late, gate, shutting, disk, sweep, ending, counters>>

\* The lock is taken again; a session that was stopped meanwhile ends the handshake.
Readmit(c) ==
    /\ At(c, "fitting") /\ Of(c).admission = Free /\ ~Of(c).stopped
    /\ entries' = [entries EXCEPT ![conn[c].ent].admission = c]
    /\ Goto(c, "fitted")
    /\ UNCHANGED <<registry, creating, late, gate, shutting, disk, sweep, ending, counters>>

\* Mutant: the attached session keeps the admission lock.
BugAttachOk(c) ==
    /\ At(c, "handshake") \/ At(c, "fitted")
    /\ conn' = [conn EXCEPT ![c].pc = "serving", ![c].made = FALSE]
    /\ UNCHANGED <<registry, creating, late, gate, shutting, entries, disk, sweep, ending, counters>>

\* AttachOk is sent: the lock goes, and the session is no longer the handshake's.
AttachOk(c) ==
    /\ At(c, "handshake") \/ At(c, "fitted")
    /\ entries' = [entries EXCEPT ![conn[c].ent].admission = Free]
    /\ conn' = [conn EXCEPT ![c].pc = "serving", ![c].made = FALSE]
    /\ UNCHANGED <<registry, creating, late, gate, shutting, disk, sweep, ending, counters>>

\* AttachedSession's drop: the client leaves the entry it is still in.
Left(c) ==
    LET e == conn[c].ent
        rest == entries[e].clients \ {c}
    IN  [entries EXCEPT ![e] = [entries[e] EXCEPT
            !.admission = IF @ = c THEN Free ELSE @,
            !.clients = rest,
            !.detached = IF c \in entries[e].clients /\ rest = {} THEN "recent" ELSE @]]

\* The handshake fails (a send, a snapshot too large, a stop): the client leaves, then
\* the guard rolls a generated session back.
HandshakeFails(c) ==
    /\ conn[c].pc \in {"handshake", "fitting", "fitted"}
    /\ conn' = [conn EXCEPT ![c] = Away]
    /\ IF ~conn[c].made
       THEN entries' = Left(c) /\ UNCHANGED <<registry, disk>>
       ELSE Rollback(conn[c].id, Left(c))
    /\ UNCHANGED <<creating, late, gate, shutting, sweep, ending, counters>>

\* Detach, a closed connection, or the revocation after the session ended.
Detach(c) ==
    /\ At(c, "serving")
    /\ entries' = Left(c)
    /\ conn' = [conn EXCEPT ![c] = Away]
    /\ UNCHANGED <<registry, creating, late, gate, shutting, disk, sweep, ending, counters>>

-----------------------------------------------------------------------------
(* Prompts.                                                                 *)

\* The handler counts the task, then spawns it.
Prompt(c) ==
    /\ At(c, "serving") /\ turns < MaxTurns
    /\ turns' = turns + 1
    /\ entries' = [entries EXCEPT ![conn[c].ent].queued = @ \cup {turns + 1}]
    /\ UNCHANGED <<registry, creating, late, gate, shutting, disk, conn, sweep, ending, used, connects>>

\* With the admission lock the task begins its turn; stopped or busy ends the task.
BeginTurn(e) ==
    /\ entries[e].admission = Free
    /\ \E t \in entries[e].queued :
        entries' = [entries EXCEPT ![e] = [entries[e] EXCEPT
            !.queued = @ \ {t},
            !.turn = IF entries[e].stopped \/ @ # 0 THEN @ ELSE t]]
    /\ UNCHANGED <<registry, creating, late, gate, shutting, disk, conn, sweep, ending, counters>>

\* Mutant: a deleted core still saves.
BugSave(e, mem, ok) ==
    /\ entries' = [entries EXCEPT ![e] = [entries[e] EXCEPT !.mem = mem, !.clean = ok, !.turn = 0]]
    /\ disk' = IF ok THEN [disk EXCEPT ![entries[e].id] = mem] ELSE disk

\* persist_current at the end of a turn: nothing for a deleted core, otherwise the whole
\* record; it may fail and leave the core unclean.
Save(e, mem, ok) ==
    /\ entries' = [entries EXCEPT ![e] = [entries[e] EXCEPT !.mem = mem, !.clean = ok, !.turn = 0]]
    /\ disk' = IF ok /\ ~entries[e].deleted THEN [disk EXCEPT ![entries[e].id] = mem] ELSE disk

EndTurn(e) ==
    /\ entries[e].turn # 0
    /\ \E ok \in BOOLEAN : Save(e, entries[e].mem \cup {entries[e].turn}, ok)
    /\ UNCHANGED <<registry, creating, late, gate, shutting, conn, sweep, ending, counters>>

-----------------------------------------------------------------------------
(* attempt_final_save, and the removal of an entry.                         *)

Outcomes == {"saved", "failed", "timed_out"}

\* What the final save leaves of the entry; a save that timed out goes on detached.
AfterFinalSave(e, outcome) ==
    [entries[e] EXCEPT !.clean = outcome = "saved" \/ (outcome = "timed_out" /\ @),
                       !.saves = IF outcome = "timed_out" THEN @ + 1 ELSE @]

FinalSave(e, outcome) ==
    /\ outcome = "timed_out" => entries[e].saves < MaxLate
    /\ late' = IF outcome = "timed_out" THEN [late EXCEPT ![entries[e].id] = @ + 1] ELSE late
    /\ disk' = IF outcome = "saved" /\ ~entries[e].deleted
               THEN [disk EXCEPT ![entries[e].id] = entries[e].mem] ELSE disk

\* Mutant: the first late save to finish takes the id off the map.
BugDropGuard(i) == [late EXCEPT ![i] = 0]

\* LatePersistenceSaveGuard's drop.
DropGuard(i) == [late EXCEPT ![i] = @ - 1]

\* A detached save finishes; it writes what the core holds by then.
LateSave(e) ==
    /\ entries[e].saves > 0
    /\ \E ok \in BOOLEAN :
        /\ entries' = [entries EXCEPT ![e] = [entries[e] EXCEPT !.saves = @ - 1, !.clean = ok]]
        /\ disk' = IF ok /\ ~entries[e].deleted
                   THEN [disk EXCEPT ![entries[e].id] = entries[e].mem] ELSE disk
    /\ late' = DropGuard(entries[e].id)
    /\ UNCHANGED <<registry, creating, gate, shutting, conn, sweep, ending, counters>>

\* The entry (as rec) leaves the registry, then finish_removed_entry.  One that is no
\* longer registered only gives the admission lock back.
Remove(e, rec, reason) ==
    IF registry[rec.id] = e
    THEN /\ registry' = [registry EXCEPT ![rec.id] = NoEntry]
         /\ entries' = [entries EXCEPT ![e] = [rec EXCEPT !.stopped = TRUE, !.admission = Free,
                                                          !.clients = {}, !.end = reason]]
    ELSE /\ UNCHANGED registry
         /\ entries' = [entries EXCEPT ![e] = [rec EXCEPT !.admission = Free]]

-----------------------------------------------------------------------------
(* evict_idle_sessions.  "now" is read once, so no time passes in a sweep.  *)

\* The retention, or the extension for an unclean session, runs out.
TimePasses(e) ==
    /\ sweep.pc = "rest"
    /\ \/ entries[e].detached = "recent" /\ entries' = [entries EXCEPT ![e].detached = "idle"]
       \/ entries[e].deferral = "started" /\ entries' = [entries EXCEPT ![e].deferral = "expired"]
    /\ UNCHANGED <<registry, creating, late, gate, shutting, disk, conn, sweep, ending, counters>>

SweepScan ==
    LET idle == {i \in Registered : entries[registry[i]].detached = "idle"}
    IN  /\ sweep.pc = "rest" /\ idle # {}
        /\ sweep' = [pc |-> "gate", todo |-> idle, ent |-> NoEntry]
        /\ UNCHANGED <<registry, creating, late, gate, shutting, entries, disk, conn, ending, counters>>

SweepGate ==
    /\ sweep.pc = "gate" /\ gate = Free
    /\ gate' = Sweeper
    /\ sweep' = [sweep EXCEPT !.pc = "next"]
    /\ UNCHANGED <<registry, creating, late, shutting, entries, disk, conn, ending, counters>>

SweepNext ==
    /\ sweep.pc = "next"
    /\ \/ \E i \in sweep.todo :
            /\ sweep' = [pc |-> IF i \in Registered THEN "admission" ELSE "next",
                         todo |-> sweep.todo \ {i}, ent |-> registry[i]]
            /\ UNCHANGED gate
       \/ /\ sweep.todo = {}
          /\ sweep' = [sweep EXCEPT !.pc = "rest", !.ent = NoEntry]
          /\ gate' = Free
    /\ UNCHANGED <<registry, creating, late, shutting, entries, disk, conn, ending, counters>>

StillIdle(e) == entries[e].clients = {} /\ entries[e].detached = "idle" /\ ~Busy(e)

\* Under the admission lock: an idle clean session is removed; for an unclean one the
\* extension starts and a final save is tried, with the lock held.
SweepCheck ==
    LET e == sweep.ent
    IN  /\ sweep.pc = "admission" /\ entries[e].admission = Free
        /\ CASE ~StillIdle(e) -> /\ sweep' = [sweep EXCEPT !.pc = "next"]
                                 /\ UNCHANGED <<registry, entries>>
             [] StillIdle(e) /\ entries[e].clean ->
                    /\ sweep' = [sweep EXCEPT !.pc = "next"]
                    /\ Remove(e, [entries[e] EXCEPT !.deferral = "no"], "idle_retention")
             [] OTHER ->
                    /\ sweep' = [sweep EXCEPT !.pc = "save"]
                    /\ entries' = [entries EXCEPT ![e] = [entries[e] EXCEPT !.admission = Sweeper,
                            !.deferral = IF @ = "no" THEN "started" ELSE @]]
                    /\ UNCHANGED registry
        /\ UNCHANGED <<creating, late, gate, shutting, disk, conn, ending, counters>>

\* Mutant: a save that timed out counts as a save.
BugMayEvict(e, outcome) == outcome # "failed" \/ entries[e].deferral = "expired"

\* A failed or late save keeps the session until its extension has run out.
MayEvict(e, outcome) == outcome = "saved" \/ entries[e].deferral = "expired"

SweepSaved ==
    LET e == sweep.ent
    IN  /\ sweep.pc = "save"
        /\ \E outcome \in Outcomes :
            LET after == AfterFinalSave(e, outcome)
            IN  /\ FinalSave(e, outcome)
                /\ IF MayEvict(e, outcome) /\ StillIdle(e)
                   THEN Remove(e, [after EXCEPT !.risk = outcome # "saved" /\ entries[e].deferral = "expired"],
                               "idle_retention")
                   ELSE entries' = [entries EXCEPT ![e] = [after EXCEPT !.admission = Free]] /\ UNCHANGED registry
        /\ sweep' = [sweep EXCEPT !.pc = "next"]
        /\ UNCHANGED <<creating, gate, shutting, conn, ending, counters>>

-----------------------------------------------------------------------------
(* stop_session and shutdown: end_session with and without deletion.        *)

StopGate(c) ==
    /\ At(c, "serving") /\ gate = Free /\ conn[c].id \in Registered
    /\ gate' = c
    /\ conn' = [conn EXCEPT ![c].pc = "stopping", ![c].ent = registry[conn[c].id]]
    /\ UNCHANGED <<registry, creating, late, shutting, entries, disk, sweep, ending, counters>>

\* The admission lock is taken; the turn is cancelled if the entry is still the registered one.
StopAdmission(c) ==
    /\ At(c, "stopping") /\ Of(c).admission = Free
    /\ IF registry[conn[c].id] = conn[c].ent
       THEN /\ entries' = [entries EXCEPT ![conn[c].ent].admission = c]
            /\ Goto(c, "deleting") /\ UNCHANGED gate
       ELSE Goto(c, "serving") /\ gate' = Free /\ UNCHANGED entries
    /\ UNCHANGED <<registry, creating, late, shutting, disk, sweep, ending, counters>>

\* The prompt tasks are over or the grace is: the record is deleted and the entry goes;
\* when the deletion fails the session stays.
StopDelete(c) ==
    LET e == conn[c].ent
    IN  /\ At(c, "deleting")
        /\ \/ /\ Remove(e, [entries[e] EXCEPT !.deleted = TRUE], "stopped")
              /\ disk' = Deleted(entries[e].id)
           \/ /\ entries' = [entries EXCEPT ![e].admission = Free]
              /\ UNCHANGED <<registry, disk>>
        /\ Goto(c, "serving") /\ gate' = Free
        /\ UNCHANGED <<creating, late, shutting, sweep, ending, counters>>

ShutdownBegin ==
    /\ ~shutting /\ shutting' = TRUE
    /\ UNCHANGED <<registry, creating, late, gate, entries, disk, conn, sweep, ending, counters>>

ShutdownGate ==
    /\ shutting /\ gate = Free /\ \A e \in Entries : ending[e] = "no"
    /\ gate' = Shutdown
    /\ ending' = [e \in Entries |-> IF \E i \in Ids : registry[i] = e THEN "admission" ELSE "done"]
    /\ UNCHANGED <<registry, creating, late, shutting, entries, disk, conn, sweep, counters>>

\* The admission lock, or the grace runs out waiting for it and the entry is skipped.
EndAdmission(e) ==
    /\ ending[e] = "admission"
    /\ IF entries[e].admission = Free /\ registry[entries[e].id] = e
       THEN /\ entries' = [entries EXCEPT ![e].admission = Shutdown]
            /\ ending' = [ending EXCEPT ![e] = "wait"]
       ELSE ending' = [ending EXCEPT ![e] = "done"] /\ UNCHANGED entries
    /\ UNCHANGED <<registry, creating, late, gate, shutting, disk, conn, sweep, counters>>

\* The prompt tasks are over or the grace is; a final save is forced in that case.
EndSave(e) ==
    /\ ending[e] = "wait"
    /\ \E quiescent \in BOOLEAN, outcome \in Outcomes :
        /\ quiescent => ~Busy(e)
        /\ quiescent /\ entries[e].clean => outcome = "saved"
        /\ FinalSave(e, outcome)
        /\ Remove(e, [AfterFinalSave(e, outcome) EXCEPT !.risk = outcome # "saved" \/ ~quiescent],
                  "daemon_shutdown")
    /\ ending' = [ending EXCEPT ![e] = "done"]
    /\ UNCHANGED <<creating, gate, shutting, conn, sweep, counters>>

ShutdownDone ==
    /\ gate = Shutdown /\ \A e \in Entries : ending[e] = "done"
    /\ gate' = Free
    /\ UNCHANGED <<registry, creating, late, shutting, entries, disk, conn, sweep, ending, counters>>

-----------------------------------------------------------------------------
ClientStep(c) ==
    \/ Connect(c) \/ Reserve(c) \/ Load(c) \/ Register(c) \/ Attach(c) \/ Admit(c) \/ Fit(c)
    \/ Readmit(c) \/ AttachOk(c) \/ HandshakeFails(c) \/ Detach(c) \/ Prompt(c)
    \/ StopGate(c) \/ StopAdmission(c) \/ StopDelete(c)

EntryStep(e) == BeginTurn(e) \/ EndTurn(e) \/ LateSave(e) \/ TimePasses(e) \/ EndAdmission(e) \/ EndSave(e)

Next ==
    \/ \E c \in Clients : ClientStep(c)
    \/ \E e \in Entries : EntryStep(e)
    \/ SweepScan \/ SweepGate \/ SweepNext \/ SweepCheck \/ SweepSaved
    \/ ShutdownBegin \/ ShutdownGate \/ ShutdownDone

Spec == Init /\ [][Next]_vars

\* The steps of an actor that wait for a lock, and those that do not.
ClientLocks(c) == Reserve(c) \/ Register(c) \/ Admit(c) \/ Readmit(c) \/ StopAdmission(c)
ClientRuns(c) == Load(c) \/ Attach(c) \/ AttachOk(c) \/ HandshakeFails(c) \/ StopDelete(c)

\* Tasks run on; a tokio mutex serves its waiters in order, so none is passed over for
\* ever; saves, sends and snapshot fitting return.  Nothing is assumed of what clients
\* ask for, of turns, of the clock or of when the daemon is shut down.
Fairness ==
    /\ \A c \in Clients : SF_vars(ClientLocks(c)) /\ WF_vars(ClientRuns(c))
    /\ SF_vars(SweepGate \/ SweepCheck) /\ WF_vars(SweepNext \/ SweepSaved)
    /\ SF_vars(ShutdownGate)
    /\ WF_vars(ShutdownDone \/ \E e \in Entries : EndAdmission(e) \/ EndSave(e))

FairSpec == Spec /\ Fairness

-----------------------------------------------------------------------------
(* What the daemon promises.                                                *)

ConnPCs == {"away", "reserve", "load", "register", "attach", "admit", "handshake", "fitting",
            "fitted", "serving", "stopping", "deleting"}

EntryRecords ==
    [id : Ids \cup {NoEntry}, mem : SUBSET (1..MaxTurns), clean : BOOLEAN, clients : SUBSET Clients,
     admission : Actors \cup {Free}, stopped : BOOLEAN, detached : {"no", "recent", "idle"},
     deferral : {"no", "started", "expired"}, queued : SUBSET (1..MaxTurns), turn : 0..MaxTurns,
     deleted : BOOLEAN, saves : Nat, risk : BOOLEAN,
     end : {"no", "attach_failed", "idle_retention", "stopped", "daemon_shutdown"}]

ConnRecords ==
    [pc : ConnPCs, id : Ids \cup {NoEntry}, ent : Entries \cup {NoEntry}, made : BOOLEAN]

\* The variables keep their types, and creating holds just the ids being opened.
TypeOK ==
    /\ creating = {conn[c].id : c \in {d \in Clients : conn[d].pc \in {"load", "register"}}}
    /\ registry \in [Ids -> Entries \cup {NoEntry}] /\ creating \subseteq Ids
    /\ late \in [Ids -> Nat] /\ gate \in Actors \cup {Free} /\ shutting \in BOOLEAN
    /\ entries \in [Entries -> EntryRecords]
    /\ disk \in [Ids -> (SUBSET (1..MaxTurns)) \cup {NoRecord}]
    /\ conn \in [Clients -> ConnRecords]
    /\ sweep \in [pc : {"rest", "gate", "next", "admission", "save"}, todo : SUBSET Ids,
                  ent : Entries \cup {NoEntry}]
    /\ ending \in [Entries -> {"no", "admission", "wait", "done"}]
    /\ used \in 0..MaxEntries /\ connects \in 0..MaxConnects /\ turns \in 0..MaxTurns

\* A core a client may use: registered, or loaded and about to be.
Live(e) == \/ \E i \in Ids : registry[i] = e
           \/ \E c \in Clients : At(c, "register") /\ conn[c].ent = e

\* While a core of an id is registered or loaded, no other core of the id has a turn, a
\* prompt task or a detached save left that could still write the record.
OneWriter ==
    \A e, f \in Entries :
        (e # f /\ entries[e].id = entries[f].id /\ Live(e) /\ ~entries[f].deleted)
            => ~Busy(f) /\ entries[f].saves = 0

\* A session that eviction or shutdown took down has all its completed turns in the
\* record, unless the loss risk was logged or a later core of the id deleted the record.
NoSilentLoss ==
    \A e \in Entries :
        LET r == entries[e]
        IN  (r.end \in {"idle_retention", "daemon_shutdown"} /\ ~r.risk)
                => \/ disk[r.id] # NoRecord /\ r.mem \subseteq disk[r.id]
                   \/ r.mem = {}
                   \/ \E f \in Entries : entries[f].id = r.id /\ entries[f].deleted

\* Once a session was stopped or rolled back, no prompt task or late save of it, and no
\* other core, brings its record back.
DeletedStaysDeleted ==
    \A e \in Entries : entries[e].deleted => disk[entries[e].id] = NoRecord

\* Open sessions and sessions being opened stay within the limit, so a reserved open is
\* never refused for it after the load.
WithinLimit == Cardinality(Registered) + Cardinality(creating) <= MaxSessions

\* The creation gate, which stop, eviction and shutdown hold while they wait for
\* admission locks, prompt tasks and saves, is always given back: handshakes, queued
\* prompts and the daemon's own tasks do not leave everyone waiting on everyone.
GateIsFreed == gate # Free ~> gate = Free

\* Losing one client never ends the session for another: a failed handshake removes a
\* session only if nobody else is being served.
FailedAttachIsLocal ==
    [][\A e \in Entries :
        entries'[e].end = "attach_failed" /\ entries[e].end = "no"
            => ~\E c \in Clients : At(c, "serving") /\ conn[c].ent = e]_vars
=============================================================================
