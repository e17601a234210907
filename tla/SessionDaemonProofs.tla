------------------------ MODULE SessionDaemonProofs ------------------------
(***************************************************************************)
(* Proofs about SessionDaemon, for any clients, ids and limits.            *)
(*                                                                         *)
(* The argument: of the cores an id has had, all but one are inert.  An    *)
(* inert core is not registered, has no turn, prompt task or save left,    *)
(* and nobody is attached to it; it never comes back.  A new core is made  *)
(* only while the id is reserved, and an id is reserved only when all its  *)
(* cores are inert or its record was deleted.                              *)
(***************************************************************************)
EXTENDS SessionDaemon, FiniteSetTheorems, TLAPS

-----------------------------------------------------------------------------
(* The inductive invariant.                                                 *)

Opening == {"load", "register"}
Inside == {"handshake", "fitting", "fitted", "serving", "stopping", "deleting"}
Used == 1..used

\* A connection and the entry it holds are of one id; an id is opened by one
\* connection at a time, and not while it is registered.
ConnInv ==
    /\ \A c \in Clients :
        /\ conn[c].pc # "away" => conn[c].id \in Ids
        /\ conn[c].pc \in {"reserve", "load"} => conn[c].ent = NoEntry
        /\ conn[c].pc \in Inside \cup {"admit"} => conn[c].ent \in Used
        /\ conn[c].ent # NoEntry => conn[c].ent \in Used /\ entries[conn[c].ent].id = conn[c].id
        /\ conn[c].pc \in Opening => registry[conn[c].id] = NoEntry
    /\ \A c, d \in Clients :
        (c # d /\ conn[c].pc \in Opening /\ conn[d].pc \in Opening) => conn[c].id # conn[d].id

\* An entry in use has an id, and an unused one has had nothing done to it.
NamedInv == \A e \in Used : entries[e].id \in Ids

FreshInv ==
    \A e \in Entries \ Used :
        /\ entries[e].id = NoEntry /\ ~entries[e].deleted /\ entries[e].end = "no"
        /\ entries[e].queued = {} /\ entries[e].turn = 0 /\ entries[e].saves = 0

\* A registered entry is in use, under its id, and was not taken down.
RegisteredInv ==
    \A i \in Ids : registry[i] # NoEntry =>
        /\ registry[i] \in Used /\ entries[registry[i]].id = i
        /\ ~entries[registry[i]].deleted /\ ~entries[registry[i]].stopped
        /\ entries[registry[i]].end = "no"

EntryInv == NamedInv /\ FreshInv /\ RegisteredInv

IsRegistered(e) == \E i \in Ids : registry[i] = e

\* Who holds the creation gate.
GateInv ==
    /\ sweep.pc \in {"next", "admission", "save"} <=> gate = Sweeper
    /\ \A c \in Clients : conn[c].pc \in {"stopping", "deleting"} <=> gate = c
    /\ \A e \in Entries :
        /\ ending[e] \in {"admission", "wait"} => gate = Shutdown
        /\ ending[e] # "no" => shutting
        /\ entries[e].end = "daemon_shutdown" => shutting

\* Under the gate only a rollback, which deletes, removes an entry.
SweepHeld ==
    sweep.pc \in {"admission", "save"} =>
        sweep.ent \in Used /\ (IsRegistered(sweep.ent) \/ entries[sweep.ent].deleted)

EndingHeld ==
    \A e \in Entries : ending[e] \in {"admission", "wait"} =>
        e \in Used /\ (IsRegistered(e) \/ entries[e].deleted)

StopHeld ==
    \A c \in Clients : conn[c].pc = "deleting" =>
        IsRegistered(conn[c].ent) \/ entries[conn[c].ent].deleted

HeldInv == SweepHeld /\ EndingHeld /\ StopHeld

\* A connection is in the set of its entry until the entry is taken down.
InsideInv ==
    \A c \in Clients : conn[c].pc \in Inside =>
        \/ c \in entries[conn[c].ent].clients \/ entries[conn[c].ent].deleted
        \/ entries[conn[c].ent].end = "daemon_shutdown"

AdmitInv ==
    \A c \in Clients : conn[c].pc = "admit" =>
        IsRegistered(conn[c].ent) \/ entries[conn[c].ent].stopped

\* Nobody has to do with the entry, an open that has loaded it aside, and it has no
\* turn or prompt task.
Quiet(e) ==
    /\ \A i \in Ids : registry[i] # e
    /\ entries[e].queued = {} /\ entries[e].turn = 0
    /\ \A c \in Clients : conn[c].pc \in Inside => conn[c].ent # e
    /\ \A c \in Clients : conn[c].pc = "admit" /\ conn[c].ent = e => entries[e].stopped
    /\ sweep.pc \in {"admission", "save"} => sweep.ent # e
    /\ ending[e] \notin {"admission", "wait"}

Loaded(c) == conn[c].pc = "register" /\ conn[c].ent # NoEntry

\* A loaded core has had nothing done to it.
Fresh(e) ==
    /\ entries[e].saves = 0 /\ entries[e].clients = {} /\ ~entries[e].deleted
    /\ ~entries[e].stopped /\ entries[e].end = "no"

LoadedInv == \A c \in Clients : Loaded(c) => Quiet(conn[c].ent) /\ Fresh(conn[c].ent)

ClientInv == InsideInv /\ AdmitInv /\ LoadedInv

\* Nothing can happen through the entry any more, a late save aside.
Silent(e) ==
    /\ Quiet(e) /\ ~entries[e].deleted
    /\ \A c \in Clients : Loaded(c) => conn[c].ent # e

Inert(e) == Silent(e) /\ entries[e].saves = 0

\* An entry is silent once it is neither live nor deleted nor left by a shutdown.
SilentInv ==
    \A e \in Used : (~Live(e) /\ ~entries[e].deleted /\ entries[e].end # "daemon_shutdown") => Silent(e)

\* Of two entries of an id one is inert; so are all while the id is loaded.
OneActive ==
    /\ \A e, f \in Used : (e # f /\ entries[e].id = entries[f].id) => Inert(e) \/ Inert(f)
    /\ \A c \in Clients : conn[c].pc = "load" =>
         \A f \in Used : entries[f].id = conn[c].id => Inert(f) \/ entries[f].deleted

\* A generated id has neither entry nor record until its core is made.
Made(c) == conn[c].made /\ conn[c].pc \in {"reserve", "load"}

MadeNew ==
    \A c \in Clients : Made(c) =>
        disk[conn[c].id] = NoRecord /\ \A f \in Used : entries[f].id # conn[c].id

MadeOnce ==
    \A c, d \in Clients : Made(c) /\ d # c /\ conn[d].id = conn[c].id => ~conn[d].made

MadeInv == MadeNew /\ MadeOnce

\* Every save in flight is counted for its id.
LateInv == \A e \in Used : entries[e].saves <= late[entries[e].id]

DeletedInv == \A e \in Used : entries[e].deleted => disk[entries[e].id] = NoRecord

DaemonInv ==
    /\ TypeOK /\ ConnInv /\ EntryInv /\ GateInv /\ HeldInv /\ ClientInv /\ SilentInv
    /\ OneActive /\ MadeInv /\ LateInv /\ DeletedInv

\* The part of it from which the effects of the steps follow.
Known == TypeOK /\ ConnInv /\ HeldInv

-----------------------------------------------------------------------------
(* The record.                                                              *)

\* The record of the id was deleted for good.
Gone(i) == \E f \in Used : entries[f].id = i /\ entries[f].deleted

InRecord(e) ==
    \/ entries[e].mem = {} \/ Gone(entries[e].id)
    \/ disk[entries[e].id] # NoRecord /\ entries[e].mem \subseteq disk[entries[e].id]

Kept(e) == entries[e].end \in {"idle_retention", "daemon_shutdown"} /\ ~entries[e].risk

\* What is clean is in the record, as long as the entry can still be used.
CleanInv == \A e \in Used : ~Inert(e) /\ entries[e].clean => InRecord(e)

\* So is what was taken down without a risk, and it has no turn to come.
KeptInv == \A e \in Used : Kept(e) => InRecord(e) /\ entries[e].turn = 0 /\ entries[e].stopped

\* A later core of the id, which may write the record, has it too.
OlderInv ==
    \A e, f \in Used :
        (e # f /\ entries[e].id = entries[f].id /\ Kept(f) /\ ~Inert(e) /\ ~entries[e].deleted)
            => entries[f].mem \subseteq entries[e].mem

\* What was deleted was not taken down by eviction or shutdown.
EndInv == \A e \in Used : entries[e].deleted => ~(entries[e].end \in {"idle_retention", "daemon_shutdown"})

RecordInv == CleanInv /\ KeptInv /\ OlderInv /\ EndInv

-----------------------------------------------------------------------------
(* What a step does to the entries and the connections, field by field.     *)

Typed == entries' \in [Entries -> EntryRecords]

\* No entry changes in these fields.
KeepsId == \A f \in Entries : entries'[f].id = entries[f].id
KeepsStop == \A f \in Entries : entries'[f].stopped = entries[f].stopped
KeepsDeleted == \A f \in Entries : entries'[f].deleted = entries[f].deleted
KeepsEnd == \A f \in Entries : entries'[f].end = entries[f].end
KeepsQueue == \A f \in Entries : entries'[f].queued = entries[f].queued
KeepsTurn == \A f \in Entries : entries'[f].turn = entries[f].turn
KeepsSaves == \A f \in Entries : entries'[f].saves = entries[f].saves
KeepsMem == \A f \in Entries : entries'[f].mem = entries[f].mem
KeepsClean == \A f \in Entries : entries'[f].clean = entries[f].clean
KeepsRisk == \A f \in Entries : entries'[f].risk = entries[f].risk
KeepsClients == \A f \in Entries : entries'[f].clients = entries[f].clients

\* One entry changes in the field, to the value v.
QueueIs(e, v) ==
    \A f \in Entries : (f = e => entries'[f].queued = v) /\ (f # e => entries'[f].queued = entries[f].queued)
TurnIs(e, v) ==
    \A f \in Entries : (f = e => entries'[f].turn = v) /\ (f # e => entries'[f].turn = entries[f].turn)
SavesIs(e, v) ==
    \A f \in Entries : (f = e => entries'[f].saves = v) /\ (f # e => entries'[f].saves = entries[f].saves)
MemIs(e, v) ==
    \A f \in Entries : (f = e => entries'[f].mem = v) /\ (f # e => entries'[f].mem = entries[f].mem)
CleanIs(e, v) ==
    \A f \in Entries : (f = e => (entries'[f].clean <=> v)) /\ (f # e => entries'[f].clean = entries[f].clean)
ClientsAre(e, v) ==
    \A f \in Entries : (f = e => entries'[f].clients = v) /\ (f # e => entries'[f].clients = entries[f].clients)
EndIs(e, v) ==
    \A f \in Entries : (f = e => entries'[f].end = v) /\ (f # e => entries'[f].end = entries[f].end)
AlsoDeleted(e) == \A f \in Entries : entries'[f].deleted <=> f = e \/ entries[f].deleted
AlsoStopped(e) == \A f \in Entries : entries'[f].stopped <=> f = e \/ entries[f].stopped

\* No entry gains a client, and none but e loses a client other than c.
ClientsOut(e, c) ==
    \A f \in Entries : /\ entries'[f].clients \subseteq entries[f].clients
                       /\ f # e => entries[f].clients \ {c} \subseteq entries'[f].clients

\* The same for the maps and the sweep.
RegistryIs(i, v) == \A k \in Ids : (k = i => registry'[k] = v) /\ (k # i => registry'[k] = registry[k])
DiskIs(i, v) == \A k \in Ids : (k = i => disk'[k] = v) /\ (k # i => disk'[k] = disk[k])
LateIs(i, v) == \A k \in Ids : (k = i => late'[k] = v) /\ (k # i => late'[k] = late[k])
EndingIs(e, v) == \A k \in Entries : (k = e => ending'[k] = v) /\ (k # e => ending'[k] = ending[k])
SweepGoes(pc) == sweep'.pc = pc /\ sweep'.ent = sweep.ent

KeepsFate == KeepsStop /\ KeepsDeleted /\ KeepsEnd
KeepsWork == KeepsQueue /\ KeepsTurn /\ KeepsSaves
KeepsData == KeepsMem /\ KeepsClean /\ KeepsRisk

\* Only a lock or a clock of an entry changes.
Touched == Typed /\ KeepsId /\ KeepsFate /\ KeepsWork /\ KeepsData /\ KeepsClients

\* The client c leaves its entry.
LeftBy(c) ==
    Typed /\ KeepsId /\ KeepsFate /\ KeepsWork /\ KeepsData /\ ClientsOut(NoEntry, c)

\* The session of id i is rolled back, with the client c out.
RolledBack(i, c) ==
    \/ registry[i] = NoEntry /\ LeftBy(c) /\ registry' = registry /\ disk' = disk
    \/ /\ registry[i] # NoEntry
       /\ Typed /\ KeepsId /\ KeepsWork /\ KeepsData
       /\ RegistryIs(i, NoEntry) /\ DiskIs(i, NoRecord)
       /\ AlsoStopped(registry[i]) /\ AlsoDeleted(registry[i]) /\ EndIs(registry[i], "attach_failed")
       /\ ClientsOut(registry[i], c)

\* The entry leaves the registry for a reason, or turns out not to be in it.
TakenDown(e, reason) ==
    /\ Typed /\ KeepsId
    /\ \/ /\ registry[entries[e].id] = e /\ RegistryIs(entries[e].id, NoEntry)
          /\ AlsoStopped(e) /\ EndIs(e, reason) /\ ClientsAre(e, {})
       \/ /\ registry[entries[e].id] # e /\ registry' = registry
          /\ KeepsStop /\ KeepsEnd /\ KeepsClients

\* A final save: its effect on the core.
Saved(e, outcome) ==
    /\ KeepsMem /\ KeepsQueue /\ KeepsTurn /\ KeepsDeleted
    /\ CleanIs(e, outcome = "saved" \/ (outcome = "timed_out" /\ entries[e].clean))
    /\ \/ outcome = "timed_out" /\ SavesIs(e, entries[e].saves + 1)
       \/ outcome # "timed_out" /\ KeepsSaves

\* The connection c is now at pc, with this id, entry and ownership.
Moved(c, pc, id, ent, made) ==
    /\ conn' \in [Clients -> ConnRecords]
    /\ conn'[c].pc = pc /\ conn'[c].id = id /\ conn'[c].ent = ent /\ conn'[c].made = made
    /\ \A d \in Clients : d # c => /\ conn'[d].pc = conn[d].pc /\ conn'[d].id = conn[d].id
                                   /\ conn'[d].ent = conn[d].ent /\ conn'[d].made = conn[d].made

Goes(c, pc) == Moved(c, pc, conn[c].id, conn[c].ent, conn[c].made)
GoesAway(c) == Moved(c, "away", NoEntry, NoEntry, FALSE)

-----------------------------------------------------------------------------
(* The ways an entry is written.                                            *)

\* The admission lock is taken or given back.
LEMMA LockSet ==
    ASSUME TypeOK, NEW e \in Entries, NEW a \in Actors \cup {Free},
           entries' = [entries EXCEPT ![e].admission = a]
    PROVE  Touched
<1> DEFINE r == [entries[e] EXCEPT !.admission = a]
<1>1. entries \in [Entries -> EntryRecords] /\ entries[e] \in EntryRecords
    BY DEF TypeOK
<1>2. r \in EntryRecords
    BY <1>1 DEF EntryRecords, Actors
<1>3. /\ r.id = entries[e].id /\ r.mem = entries[e].mem /\ r.clean = entries[e].clean
      /\ r.clients = entries[e].clients /\ r.stopped = entries[e].stopped
      /\ r.queued = entries[e].queued /\ r.turn = entries[e].turn
      /\ r.deleted = entries[e].deleted /\ r.saves = entries[e].saves
      /\ r.risk = entries[e].risk /\ r.end = entries[e].end
    BY <1>1 DEF EntryRecords
<1>4. entries' = [entries EXCEPT ![e] = r]
    OBVIOUS
<1> HIDE DEF r
<1>5. Typed /\ entries'[e] = r /\ \A f \in Entries : f # e => entries'[f] = entries[f]
    BY <1>1, <1>2, <1>4 DEF Typed
<1> QED
    BY <1>3, <1>5 DEF Touched, KeepsFate, KeepsWork, KeepsData, KeepsId, KeepsMem, KeepsClean,
        KeepsClients, KeepsStop, KeepsQueue, KeepsTurn, KeepsDeleted, KeepsSaves, KeepsRisk,
        KeepsEnd

\* A clock of the entry runs out.
LEMMA RetentionEnds ==
    ASSUME TypeOK, NEW e \in Entries,
           entries' = [entries EXCEPT ![e].detached = "idle"]
    PROVE  Touched
<1> DEFINE r == [entries[e] EXCEPT !.detached = "idle"]
<1>1. entries \in [Entries -> EntryRecords] /\ entries[e] \in EntryRecords
    BY DEF TypeOK
<1>2. r \in EntryRecords
    BY <1>1 DEF EntryRecords, Actors
<1>3. /\ r.id = entries[e].id /\ r.mem = entries[e].mem /\ r.clean = entries[e].clean
      /\ r.clients = entries[e].clients /\ r.stopped = entries[e].stopped
      /\ r.queued = entries[e].queued /\ r.turn = entries[e].turn
      /\ r.deleted = entries[e].deleted /\ r.saves = entries[e].saves
      /\ r.risk = entries[e].risk /\ r.end = entries[e].end
    BY <1>1 DEF EntryRecords
<1>4. entries' = [entries EXCEPT ![e] = r]
    OBVIOUS
<1> HIDE DEF r
<1>5. Typed /\ entries'[e] = r /\ \A f \in Entries : f # e => entries'[f] = entries[f]
    BY <1>1, <1>2, <1>4 DEF Typed
<1> QED
    BY <1>3, <1>5 DEF Touched, KeepsFate, KeepsWork, KeepsData, KeepsId, KeepsMem, KeepsClean,
        KeepsClients, KeepsStop, KeepsQueue, KeepsTurn, KeepsDeleted, KeepsSaves, KeepsRisk,
        KeepsEnd

\* An extension that runs out changes no field the invariant reads.
LEMMA ExtensionEnds ==
    ASSUME TypeOK, NEW e \in Entries,
           entries' = [entries EXCEPT ![e].deferral = "expired"]
    PROVE  Touched
<1> DEFINE r == [entries[e] EXCEPT !.deferral = "expired"]
<1>1. entries \in [Entries -> EntryRecords] /\ entries[e] \in EntryRecords
    BY DEF TypeOK
<1>2. r \in EntryRecords
    BY <1>1 DEF EntryRecords, Actors
<1>3. /\ r.id = entries[e].id /\ r.mem = entries[e].mem /\ r.clean = entries[e].clean
      /\ r.clients = entries[e].clients /\ r.stopped = entries[e].stopped
      /\ r.queued = entries[e].queued /\ r.turn = entries[e].turn
      /\ r.deleted = entries[e].deleted /\ r.saves = entries[e].saves
      /\ r.risk = entries[e].risk /\ r.end = entries[e].end
    BY <1>1 DEF EntryRecords
<1>4. entries' = [entries EXCEPT ![e] = r]
    OBVIOUS
<1> HIDE DEF r
<1>5. Typed /\ entries'[e] = r /\ \A f \in Entries : f # e => entries'[f] = entries[f]
    BY <1>1, <1>2, <1>4 DEF Typed
<1> QED
    BY <1>3, <1>5 DEF Touched, KeepsFate, KeepsWork, KeepsData, KeepsId, KeepsMem, KeepsClean,
        KeepsClients, KeepsStop, KeepsQueue, KeepsTurn, KeepsDeleted, KeepsSaves, KeepsRisk,
        KeepsEnd

\* The sweep keeps the lock over its save.
LEMMA SweepLocks ==
    ASSUME TypeOK, NEW e \in Entries,
           entries' = [entries EXCEPT ![e] = [entries[e] EXCEPT !.admission = Sweeper,
                            !.deferral = IF @ = "no" THEN "started" ELSE @]]
    PROVE  Touched
<1> DEFINE r == [entries[e] EXCEPT !.admission = Sweeper, !.deferral = IF @ = "no" THEN "started" ELSE @]
<1>1. entries \in [Entries -> EntryRecords] /\ entries[e] \in EntryRecords
    BY DEF TypeOK
<1>2. r \in EntryRecords
    BY <1>1 DEF EntryRecords, Actors
<1>3. /\ r.id = entries[e].id /\ r.mem = entries[e].mem /\ r.clean = entries[e].clean
      /\ r.clients = entries[e].clients /\ r.stopped = entries[e].stopped
      /\ r.queued = entries[e].queued /\ r.turn = entries[e].turn
      /\ r.deleted = entries[e].deleted /\ r.saves = entries[e].saves
      /\ r.risk = entries[e].risk /\ r.end = entries[e].end
    BY <1>1 DEF EntryRecords
<1>4. entries' = [entries EXCEPT ![e] = r]
    OBVIOUS
<1> HIDE DEF r
<1>5. Typed /\ entries'[e] = r /\ \A f \in Entries : f # e => entries'[f] = entries[f]
    BY <1>1, <1>2, <1>4 DEF Typed
<1> QED
    BY <1>3, <1>5 DEF Touched, KeepsFate, KeepsWork, KeepsData, KeepsId, KeepsMem, KeepsClean,
        KeepsClients, KeepsStop, KeepsQueue, KeepsTurn, KeepsDeleted, KeepsSaves, KeepsRisk,
        KeepsEnd

\* A client joins.
LEMMA JoinSet ==
    ASSUME TypeOK, NEW e \in Entries, NEW c \in Clients,
           entries' = [entries EXCEPT ![e] = [entries[e] EXCEPT !.admission = c, !.clients = @ \cup {c},
                            !.detached = "no", !.deferral = "no"]]
    PROVE  /\ Typed /\ KeepsId /\ KeepsFate /\ KeepsWork /\ KeepsData
           /\ ClientsAre(e, entries[e].clients \cup {c})
<1> DEFINE r == [entries[e] EXCEPT !.admission = c, !.clients = @ \cup {c}, !.detached = "no", !.deferral = "no"]
<1>1. entries \in [Entries -> EntryRecords] /\ entries[e] \in EntryRecords
    BY DEF TypeOK
<1>2. r \in EntryRecords
    BY <1>1 DEF EntryRecords, Actors
<1>3. /\ r.id = entries[e].id /\ r.mem = entries[e].mem /\ r.clean = entries[e].clean
      /\ r.clients = entries[e].clients \cup {c} /\ r.stopped = entries[e].stopped
      /\ r.queued = entries[e].queued /\ r.turn = entries[e].turn
      /\ r.deleted = entries[e].deleted /\ r.saves = entries[e].saves
      /\ r.risk = entries[e].risk /\ r.end = entries[e].end
    BY <1>1 DEF EntryRecords
<1>4. entries' = [entries EXCEPT ![e] = r]
    OBVIOUS
<1> HIDE DEF r
<1>5. Typed /\ entries'[e] = r /\ \A f \in Entries : f # e => entries'[f] = entries[f]
    BY <1>1, <1>2, <1>4 DEF Typed
<1> QED
    BY <1>3, <1>5 DEF KeepsFate, KeepsWork, KeepsData, KeepsId, KeepsMem, KeepsClean, KeepsStop,
        KeepsQueue, KeepsTurn, KeepsDeleted, KeepsSaves, KeepsRisk, KeepsEnd, ClientsAre

\* A core that is not registered is given up.
LEMMA DiscardSet ==
    ASSUME TypeOK, NEW e \in Entries,
           entries' = [entries EXCEPT ![e].deleted = TRUE]
    PROVE  /\ Typed /\ KeepsId /\ KeepsStop /\ KeepsEnd /\ KeepsWork /\ KeepsData
           /\ KeepsClients /\ AlsoDeleted(e)
<1> DEFINE r == [entries[e] EXCEPT !.deleted = TRUE]
<1>1. entries \in [Entries -> EntryRecords] /\ entries[e] \in EntryRecords
    BY DEF TypeOK
<1>2. r \in EntryRecords
    BY <1>1 DEF EntryRecords, Actors
<1>3. /\ r.id = entries[e].id /\ r.mem = entries[e].mem /\ r.clean = entries[e].clean
      /\ r.clients = entries[e].clients /\ r.stopped = entries[e].stopped
      /\ r.queued = entries[e].queued /\ r.turn = entries[e].turn /\ r.deleted = TRUE
      /\ r.saves = entries[e].saves /\ r.risk = entries[e].risk
      /\ r.end = entries[e].end
    BY <1>1 DEF EntryRecords
<1>4. entries' = [entries EXCEPT ![e] = r]
    OBVIOUS
<1> HIDE DEF r
<1>5. Typed /\ entries'[e] = r /\ \A f \in Entries : f # e => entries'[f] = entries[f]
    BY <1>1, <1>2, <1>4 DEF Typed
<1> QED
    BY <1>3, <1>5 DEF KeepsWork, KeepsData, KeepsId, KeepsMem, KeepsClean, KeepsClients,
        KeepsStop, KeepsQueue, KeepsTurn, KeepsSaves, KeepsRisk, KeepsEnd, AlsoDeleted

\* A prompt task is counted.
LEMMA AskSet ==
    ASSUME TypeOK, NEW e \in Entries, NEW t \in 1..MaxTurns,
           entries' = [entries EXCEPT ![e].queued = @ \cup {t}]
    PROVE  /\ Typed /\ KeepsId /\ KeepsFate /\ KeepsTurn /\ KeepsSaves /\ KeepsData
           /\ KeepsClients /\ QueueIs(e, entries[e].queued \cup {t})
<1> DEFINE r == [entries[e] EXCEPT !.queued = @ \cup {t}]
<1>1. entries \in [Entries -> EntryRecords] /\ entries[e] \in EntryRecords
    BY DEF TypeOK
<1>2. r \in EntryRecords
    BY <1>1 DEF EntryRecords, Actors
<1>3. /\ r.id = entries[e].id /\ r.mem = entries[e].mem /\ r.clean = entries[e].clean
      /\ r.clients = entries[e].clients /\ r.stopped = entries[e].stopped
      /\ r.queued = entries[e].queued \cup {t} /\ r.turn = entries[e].turn
      /\ r.deleted = entries[e].deleted /\ r.saves = entries[e].saves
      /\ r.risk = entries[e].risk /\ r.end = entries[e].end
    BY <1>1 DEF EntryRecords
<1>4. entries' = [entries EXCEPT ![e] = r]
    OBVIOUS
<1> HIDE DEF r
<1>5. Typed /\ entries'[e] = r /\ \A f \in Entries : f # e => entries'[f] = entries[f]
    BY <1>1, <1>2, <1>4 DEF Typed
<1> QED
    BY <1>3, <1>5 DEF KeepsFate, KeepsData, KeepsId, KeepsMem, KeepsClean, KeepsClients,
        KeepsStop, KeepsTurn, KeepsDeleted, KeepsSaves, KeepsRisk, KeepsEnd, QueueIs

\* A prompt task begins its turn, or gives up.
LEMMA BeginSet ==
    ASSUME TypeOK, NEW e \in Entries, NEW q \in SUBSET (1..MaxTurns), NEW v \in 0..MaxTurns,
           entries' = [entries EXCEPT ![e] = [entries[e] EXCEPT !.queued = q, !.turn = v]]
    PROVE  /\ Typed /\ KeepsId /\ KeepsFate /\ KeepsSaves /\ KeepsData /\ KeepsClients
           /\ QueueIs(e, q) /\ TurnIs(e, v)
<1> DEFINE r == [entries[e] EXCEPT !.queued = q, !.turn = v]
<1>1. entries \in [Entries -> EntryRecords] /\ entries[e] \in EntryRecords
    BY DEF TypeOK
<1>2. r \in EntryRecords
    BY <1>1 DEF EntryRecords, Actors
<1>3. /\ r.id = entries[e].id /\ r.mem = entries[e].mem /\ r.clean = entries[e].clean
      /\ r.clients = entries[e].clients /\ r.stopped = entries[e].stopped
      /\ r.queued = q /\ r.turn = v /\ r.deleted = entries[e].deleted
      /\ r.saves = entries[e].saves /\ r.risk = entries[e].risk
      /\ r.end = entries[e].end
    BY <1>1 DEF EntryRecords
<1>4. entries' = [entries EXCEPT ![e] = r]
    OBVIOUS
<1> HIDE DEF r
<1>5. Typed /\ entries'[e] = r /\ \A f \in Entries : f # e => entries'[f] = entries[f]
    BY <1>1, <1>2, <1>4 DEF Typed
<1> QED
    BY <1>3, <1>5 DEF KeepsFate, KeepsData, KeepsId, KeepsMem, KeepsClean, KeepsClients,
        KeepsStop, KeepsDeleted, KeepsSaves, KeepsRisk, KeepsEnd, QueueIs, TurnIs

\* A turn ends.
LEMMA EndSet ==
    ASSUME TypeOK, NEW e \in Entries, NEW mem \in SUBSET (1..MaxTurns), NEW ok \in BOOLEAN, 0 \in 0..MaxTurns,
           entries' = [entries EXCEPT ![e] = [entries[e] EXCEPT !.mem = mem, !.clean = ok, !.turn = 0]]
    PROVE  /\ Typed /\ KeepsId /\ KeepsFate /\ KeepsQueue /\ KeepsSaves /\ KeepsRisk
           /\ KeepsClients /\ MemIs(e, mem) /\ CleanIs(e, ok) /\ TurnIs(e, 0)
<1> DEFINE r == [entries[e] EXCEPT !.mem = mem, !.clean = ok, !.turn = 0]
<1>1. entries \in [Entries -> EntryRecords] /\ entries[e] \in EntryRecords
    BY DEF TypeOK
<1>2. r \in EntryRecords
    BY <1>1 DEF EntryRecords, Actors
<1>3. /\ r.id = entries[e].id /\ r.mem = mem /\ r.clean = ok
      /\ r.clients = entries[e].clients /\ r.stopped = entries[e].stopped
      /\ r.queued = entries[e].queued /\ r.turn = 0 /\ r.deleted = entries[e].deleted
      /\ r.saves = entries[e].saves /\ r.risk = entries[e].risk
      /\ r.end = entries[e].end
    BY <1>1 DEF EntryRecords
<1>4. entries' = [entries EXCEPT ![e] = r]
    OBVIOUS
<1> HIDE DEF r
<1>5. Typed /\ entries'[e] = r /\ \A f \in Entries : f # e => entries'[f] = entries[f]
    BY <1>1, <1>2, <1>4 DEF Typed
<1> QED
    BY <1>3, <1>5 DEF KeepsFate, KeepsId, KeepsClients, KeepsStop, KeepsQueue, KeepsDeleted,
        KeepsSaves, KeepsRisk, KeepsEnd, MemIs, CleanIs, TurnIs

\* A detached save finishes.
LEMMA LandSet ==
    ASSUME TypeOK, NEW e \in Entries, NEW n \in Nat, NEW ok \in BOOLEAN,
           entries' = [entries EXCEPT ![e] = [entries[e] EXCEPT !.saves = n, !.clean = ok]]
    PROVE  /\ Typed /\ KeepsId /\ KeepsFate /\ KeepsQueue /\ KeepsTurn /\ KeepsMem
           /\ KeepsRisk /\ KeepsClients /\ SavesIs(e, n) /\ CleanIs(e, ok)
<1> DEFINE r == [entries[e] EXCEPT !.saves = n, !.clean = ok]
<1>1. entries \in [Entries -> EntryRecords] /\ entries[e] \in EntryRecords
    BY DEF TypeOK
<1>2. r \in EntryRecords
    BY <1>1 DEF EntryRecords, Actors
<1>3. /\ r.id = entries[e].id /\ r.mem = entries[e].mem /\ r.clean = ok
      /\ r.clients = entries[e].clients /\ r.stopped = entries[e].stopped
      /\ r.queued = entries[e].queued /\ r.turn = entries[e].turn
      /\ r.deleted = entries[e].deleted /\ r.saves = n /\ r.risk = entries[e].risk
      /\ r.end = entries[e].end
    BY <1>1 DEF EntryRecords
<1>4. entries' = [entries EXCEPT ![e] = r]
    OBVIOUS
<1> HIDE DEF r
<1>5. Typed /\ entries'[e] = r /\ \A f \in Entries : f # e => entries'[f] = entries[f]
    BY <1>1, <1>2, <1>4 DEF Typed
<1> QED
    BY <1>3, <1>5 DEF KeepsFate, KeepsId, KeepsMem, KeepsClients, KeepsStop, KeepsQueue,
        KeepsTurn, KeepsDeleted, KeepsRisk, KeepsEnd, SavesIs, CleanIs

\* The ways a map is written.
LEMMA Totals ==
    ASSUME TypeOK
    PROVE  /\ \A i, v : registry' = [registry EXCEPT ![i] = v] => RegistryIs(i, v)
           /\ \A i, v : disk' = [disk EXCEPT ![i] = v] => DiskIs(i, v)
           /\ \A i, v : late' = [late EXCEPT ![i] = v] => LateIs(i, v)
           /\ \A e, v : ending' = [ending EXCEPT ![e] = v] => EndingIs(e, v)
           /\ \A v : sweep' = [sweep EXCEPT !.pc = v] => SweepGoes(v)
    BY DEF TypeOK, RegistryIs, DiskIs, LateIs, EndingIs, SweepGoes

\* A record s is r with the client c out.
OutOf(s, r, c) ==
    /\ s.id = r.id /\ s.stopped = r.stopped /\ s.deleted = r.deleted /\ s.end = r.end
    /\ s.queued = r.queued /\ s.turn = r.turn /\ s.saves = r.saves
    /\ s.mem = r.mem /\ s.clean = r.clean /\ s.risk = r.risk
    /\ s.clients \subseteq r.clients /\ r.clients \ {c} \subseteq s.clients

\* AttachedSession's drop.
LEMMA LeftSet ==
    ASSUME TypeOK, NEW c \in Clients, conn[c].ent \in Entries
    PROVE  /\ Left(c) \in [Entries -> EntryRecords]
           /\ \A f \in Entries : OutOf(Left(c)[f], entries[f], c)
<1> DEFINE e == conn[c].ent
           rest == entries[e].clients \ {c}
           a == IF entries[e].admission = c THEN Free ELSE entries[e].admission
           d == IF c \in entries[e].clients /\ rest = {} THEN "recent" ELSE entries[e].detached
           r == [entries[e] EXCEPT !.admission = a, !.clients = rest, !.detached = d]
<1>1. entries \in [Entries -> EntryRecords] /\ entries[e] \in EntryRecords
    BY DEF TypeOK
<1>2. a \in Actors \cup {Free} /\ rest \in SUBSET Clients /\ d \in {"no", "recent", "idle"}
    BY <1>1 DEF EntryRecords, Actors
<1>3. Left(c) = [entries EXCEPT ![e] = r]
    BY DEF Left
<1>4. \A x \in Actors \cup {Free}, y \in SUBSET Clients, z \in {"no", "recent", "idle"} :
         [entries[e] EXCEPT !.admission = x, !.clients = y, !.detached = z] \in EntryRecords
    BY <1>1 DEF EntryRecords
<1>5. r \in EntryRecords
    BY <1>2, <1>4
<1>6. OutOf(r, entries[e], c)
    BY <1>1 DEF EntryRecords, OutOf
<1>7. \A f \in Entries : OutOf(entries[f], entries[f], c)
    BY DEF OutOf
<1> HIDE DEF r
<1> QED
    BY <1>1, <1>3, <1>5, <1>6, <1>7

\* A connection taken out of every set has left, and that is all.
LEMMA LeftByOutOf ==
    ASSUME NEW c \in Clients, Typed, \A f \in Entries : OutOf(entries'[f], entries[f], c)
    PROVE  LeftBy(c)
<1>1. KeepsId /\ KeepsFate /\ KeepsWork /\ KeepsData
    BY DEF OutOf, KeepsFate, KeepsWork, KeepsData, KeepsId, KeepsStop, KeepsDeleted, KeepsEnd,
        KeepsQueue, KeepsTurn, KeepsSaves, KeepsMem, KeepsClean, KeepsRisk, KeepsClients
<1>2. ClientsOut(NoEntry, c)
    BY DEF OutOf, ClientsOut
<1> QED
    BY <1>1, <1>2 DEF LeftBy

\* rollback_generated_session.
LEMMA RollbackSet ==
    ASSUME TypeOK, NEW i \in Ids, NEW c \in Clients, NEW es \in [Entries -> EntryRecords],
           \A f \in Entries : OutOf(es[f], entries[f], c), Rollback(i, es)
    PROVE  RolledBack(i, c)
<1> DEFINE e == registry[i]
           r == [es[e] EXCEPT !.stopped = TRUE, !.clients = {}, !.deleted = TRUE, !.end = "attach_failed"]
<1>1. CASE e = NoEntry
  <2>1. entries' = es /\ registry' = registry /\ disk' = disk
    BY <1>1 DEF Rollback
  <2>2. LeftBy(c)
    BY <2>1, LeftByOutOf DEF Typed
  <2> QED
    BY <1>1, <2>1, <2>2 DEF RolledBack
<1>2. CASE e # NoEntry
  <2>1. e \in Entries /\ es[e] \in EntryRecords
    BY <1>2 DEF TypeOK
  <2>2. r \in EntryRecords
    BY <2>1 DEF EntryRecords
  <2>3. /\ r.id = es[e].id /\ r.queued = es[e].queued /\ r.turn = es[e].turn /\ r.saves = es[e].saves
        /\ r.mem = es[e].mem /\ r.clean = es[e].clean /\ r.risk = es[e].risk
        /\ r.stopped = TRUE /\ r.deleted = TRUE /\ r.end = "attach_failed" /\ r.clients = {}
    BY <2>1 DEF EntryRecords
  <2>4. /\ entries' = [es EXCEPT ![e] = r]
        /\ registry' = [registry EXCEPT ![i] = NoEntry] /\ disk' = [disk EXCEPT ![i] = NoRecord]
    BY <1>2 DEF Rollback, Deleted
  <2> HIDE DEF r
  <2>5. /\ entries'[e] = r /\ Typed
        /\ \A f \in Entries : f # e => entries'[f] = es[f]
    BY <2>1, <2>2, <2>4 DEF Typed
  <2>6. RegistryIs(i, NoEntry) /\ DiskIs(i, NoRecord)
    BY <2>4, Totals
  <2>7. KeepsId /\ KeepsWork /\ KeepsData
    BY <2>1, <2>3, <2>5 DEF OutOf, KeepsFate, KeepsWork, KeepsData, KeepsId, KeepsStop,
        KeepsDeleted, KeepsEnd, KeepsQueue, KeepsTurn, KeepsSaves, KeepsMem, KeepsClean,
        KeepsRisk, KeepsClients
  <2>8. AlsoStopped(e) /\ AlsoDeleted(e) /\ EndIs(e, "attach_failed") /\ ClientsOut(e, c)
    BY <2>1, <2>3, <2>5 DEF OutOf, AlsoStopped, AlsoDeleted, EndIs, ClientsOut
  <2> QED
    BY <1>2, <2>5, <2>6, <2>7, <2>8 DEF RolledBack
<1> QED
    BY <1>1, <1>2

\* finish_removed_entry, with the entry as rec.
LEMMA RemoveSet ==
    ASSUME TypeOK, NEW e \in Entries, NEW rec \in EntryRecords, rec.id = entries[e].id,
           rec.stopped = entries[e].stopped, rec.end = entries[e].end, rec.clients = entries[e].clients,
           NEW reason \in {"idle_retention", "stopped", "daemon_shutdown"}, Remove(e, rec, reason)
    PROVE  /\ TakenDown(e, reason)
           /\ \A f \in Entries : f # e => entries'[f] = entries[f]
           /\ entries'[e].mem = rec.mem /\ entries'[e].clean = rec.clean /\ entries'[e].risk = rec.risk
           /\ entries'[e].queued = rec.queued /\ entries'[e].turn = rec.turn
           /\ entries'[e].saves = rec.saves /\ entries'[e].deleted = rec.deleted
<1> DEFINE out == [rec EXCEPT !.stopped = TRUE, !.admission = Free, !.clients = {}, !.end = reason]
           in == [rec EXCEPT !.admission = Free]
           Kernel(r) == /\ r.id = rec.id /\ r.mem = rec.mem /\ r.clean = rec.clean /\ r.risk = rec.risk
                        /\ r.queued = rec.queued /\ r.turn = rec.turn /\ r.saves = rec.saves
                        /\ r.deleted = rec.deleted
<1>1. entries \in [Entries -> EntryRecords]
    BY DEF TypeOK
<1>2. out \in EntryRecords /\ in \in EntryRecords
    BY DEF EntryRecords
<1>3. /\ Kernel(out) /\ out.stopped = TRUE /\ out.end = reason /\ out.clients = {}
      /\ Kernel(in) /\ in.stopped = rec.stopped /\ in.end = rec.end /\ in.clients = rec.clients
    BY DEF EntryRecords
<1>4. \/ /\ registry[rec.id] = e /\ registry' = [registry EXCEPT ![rec.id] = NoEntry]
         /\ entries' = [entries EXCEPT ![e] = out]
      \/ registry[rec.id] # e /\ registry' = registry /\ entries' = [entries EXCEPT ![e] = in]
    BY DEF Remove
<1> HIDE DEF out, in
<1>5. CASE registry[rec.id] = e
  <2>1. Typed /\ entries'[e] = out /\ \A f \in Entries : f # e => entries'[f] = entries[f]
    BY <1>1, <1>2, <1>4, <1>5 DEF Typed
  <2>2. /\ entries'[e].stopped /\ entries'[e].end = reason /\ entries'[e].clients = {}
        /\ entries'[e].id = entries[e].id
    BY <1>3, <2>1
  <2>3. KeepsId /\ AlsoStopped(e) /\ EndIs(e, reason) /\ ClientsAre(e, {})
    BY <2>1, <2>2 DEF KeepsId, AlsoStopped, EndIs, ClientsAre
  <2>4. RegistryIs(entries[e].id, NoEntry)
    BY <1>4, <1>5, Totals
  <2>5. TakenDown(e, reason)
    BY <1>5, <2>1, <2>3, <2>4 DEF TakenDown
  <2> QED
    BY <1>3, <2>1, <2>5
<1>6. CASE registry[rec.id] # e
  <2>1. Typed /\ entries'[e] = in /\ \A f \in Entries : f # e => entries'[f] = entries[f]
    BY <1>1, <1>2, <1>4, <1>6 DEF Typed
  <2>2. /\ entries'[e].stopped = entries[e].stopped /\ entries'[e].end = entries[e].end
        /\ entries'[e].clients = entries[e].clients /\ entries'[e].id = entries[e].id
    BY <1>3, <2>1
  <2>4. KeepsId /\ KeepsStop /\ KeepsEnd /\ KeepsClients
    BY <2>1, <2>2 DEF KeepsId, KeepsStop, KeepsEnd, KeepsClients
  <2>6. TakenDown(e, reason)
    BY <1>4, <1>6, <2>1, <2>4 DEF TakenDown
  <2> QED
    BY <1>3, <2>1, <2>6
<1> QED
    BY <1>5, <1>6

\* x is the entry e after a final save.
IsAfter(x, e, outcome) ==
    /\ x.id = entries[e].id /\ x.stopped = entries[e].stopped
    /\ x.end = entries[e].end /\ x.clients = entries[e].clients
    /\ x.mem = entries[e].mem /\ x.queued = entries[e].queued
    /\ x.turn = entries[e].turn /\ x.deleted = entries[e].deleted
    /\ x.clean = (outcome = "saved" \/ (outcome = "timed_out" /\ entries[e].clean))
    /\ x.saves = (IF outcome = "timed_out" THEN entries[e].saves + 1 ELSE entries[e].saves)

\* What AfterFinalSave makes of an entry, field by field.
LEMMA AfterSet ==
    ASSUME TypeOK, NEW e \in Entries, NEW outcome \in Outcomes
    PROVE  AfterFinalSave(e, outcome) \in EntryRecords /\ IsAfter(AfterFinalSave(e, outcome), e, outcome)
           /\ AfterFinalSave(e, outcome).risk = entries[e].risk
<1> DEFINE k == outcome = "saved" \/ (outcome = "timed_out" /\ entries[e].clean)
           n == IF outcome = "timed_out" THEN entries[e].saves + 1 ELSE entries[e].saves
           s == [entries[e] EXCEPT !.clean = k, !.saves = n]
<1>1. entries[e] \in EntryRecords
    BY DEF TypeOK
<1>2. entries[e].saves \in Nat
    BY <1>1 DEF EntryRecords
<1>3. k \in BOOLEAN /\ n \in Nat
    BY <1>2
<1>4. AfterFinalSave(e, outcome) = s
    BY DEF AfterFinalSave
<1>5. /\ k = (outcome = "saved" \/ (outcome = "timed_out" /\ entries[e].clean))
      /\ n = (IF outcome = "timed_out" THEN entries[e].saves + 1 ELSE entries[e].saves)
    OBVIOUS
<1> HIDE DEF k, n
<1>6. s \in EntryRecords
    BY <1>1, <1>3 DEF EntryRecords
<1>7. /\ s.id = entries[e].id /\ s.stopped = entries[e].stopped
      /\ s.end = entries[e].end /\ s.clients = entries[e].clients /\ s.risk = entries[e].risk
      /\ s.mem = entries[e].mem /\ s.queued = entries[e].queued
      /\ s.turn = entries[e].turn /\ s.deleted = entries[e].deleted /\ s.clean = k /\ s.saves = n
    BY <1>1, <1>3 DEF EntryRecords
<1> HIDE DEF s
<1> QED
    BY <1>4, <1>5, <1>6, <1>7 DEF IsAfter

\* The same with the risk noted, and with the lock given back.
LEMMA AfterRisk ==
    ASSUME NEW e \in Entries, NEW outcome \in Outcomes, NEW s \in EntryRecords,
           IsAfter(s, e, outcome), NEW b \in BOOLEAN, NEW r, r = [s EXCEPT !.risk = b]
    PROVE  r \in EntryRecords /\ IsAfter(r, e, outcome) /\ r.risk = b
<1>1. r \in EntryRecords
    BY DEF EntryRecords
<1>2. /\ r.id = s.id /\ r.stopped = s.stopped /\ r.end = s.end /\ r.clients = s.clients
      /\ r.mem = s.mem /\ r.queued = s.queued /\ r.turn = s.turn /\ r.deleted = s.deleted
      /\ r.clean = s.clean /\ r.saves = s.saves /\ r.risk = b
    BY DEF EntryRecords
<1> QED
    BY <1>1, <1>2 DEF IsAfter

\* Releasing the admission lock afterwards changes none of that.
LEMMA AfterRelease ==
    ASSUME NEW e \in Entries, NEW outcome \in Outcomes, NEW s \in EntryRecords,
           IsAfter(s, e, outcome), NEW r, r = [s EXCEPT !.admission = Free]
    PROVE  r \in EntryRecords /\ IsAfter(r, e, outcome) /\ r.risk = s.risk
<1>1. r \in EntryRecords
    BY DEF EntryRecords
<1>2. /\ r.id = s.id /\ r.stopped = s.stopped /\ r.end = s.end /\ r.clients = s.clients
      /\ r.mem = s.mem /\ r.queued = s.queued /\ r.turn = s.turn /\ r.deleted = s.deleted
      /\ r.clean = s.clean /\ r.saves = s.saves /\ r.risk = s.risk
    BY DEF EntryRecords
<1> QED
    BY <1>1, <1>2 DEF IsAfter

-----------------------------------------------------------------------------
(* What each step does.                                                     *)

\* The places of a connection.
LEMMA Values ==
    \A l \in {"away", "reserve", "load", "register", "attach", "admit", "handshake", "fitting",
              "fitted", "serving", "stopping", "deleting"} : l \in ConnPCs
    BY DEF ConnPCs

\* The forms in which a connection is written.
LEMMA ConnSet ==
    ASSUME TypeOK, NEW c \in Clients, NEW l \in ConnPCs, NEW e \in Entries \cup {NoEntry}
    PROVE  /\ conn' = [conn EXCEPT ![c].pc = l] => Goes(c, l)
           /\ conn' = [conn EXCEPT ![c] = Away] => GoesAway(c)
           /\ conn' = [conn EXCEPT ![c].pc = l, ![c].ent = e] => Moved(c, l, conn[c].id, e, conn[c].made)
           /\ conn' = [conn EXCEPT ![c].pc = l, ![c].made = FALSE] =>
                Moved(c, l, conn[c].id, conn[c].ent, FALSE)
<1>1. conn \in [Clients -> ConnRecords] /\ conn[c] \in ConnRecords
    BY DEF TypeOK
<1>2. ASSUME conn' = [conn EXCEPT ![c].pc = l] PROVE Goes(c, l)
    BY <1>1, <1>2 DEF Goes, Moved, ConnRecords
<1>3. ASSUME conn' = [conn EXCEPT ![c] = Away] PROVE GoesAway(c)
    BY <1>1, <1>3, Values DEF GoesAway, Moved, Away, ConnRecords
<1>4. ASSUME conn' = [conn EXCEPT ![c].pc = l, ![c].ent = e]
      PROVE  Moved(c, l, conn[c].id, e, conn[c].made)
    BY <1>1, <1>4 DEF Moved, ConnRecords
<1>5. ASSUME conn' = [conn EXCEPT ![c].pc = l, ![c].made = FALSE]
      PROVE  Moved(c, l, conn[c].id, conn[c].ent, FALSE)
    BY <1>1, <1>5 DEF Moved, ConnRecords
<1> QED
    BY <1>2, <1>3, <1>4, <1>5

\* The entry of a connection that is past its lookup.
LEMMA EntOf ==
    ASSUME TypeOK, ConnInv, NEW c \in Clients
    PROVE  /\ conn[c].pc \in Inside \cup {"admit"} => conn[c].ent \in Entries
           /\ conn[c].pc # "away" => conn[c].id \in Ids
           /\ conn[c].ent # NoEntry => conn[c].ent \in Entries
           /\ Used \subseteq Entries
<1>1. Used \subseteq Entries
    BY DaemonAssumption DEF TypeOK, Used, Entries
<1> QED
    BY <1>1 DEF ConnInv

ConnectEffect(c) ==
    /\ conn[c].pc = "away" /\ connects < MaxConnects /\ connects' = connects + 1
    /\ \E i \in Ids, made \in BOOLEAN :
         /\ made => /\ disk[i] = NoRecord /\ \A f \in Entries : entries[f].id # i
                    /\ \A d \in Clients : conn[d].id # i
         /\ \/ Moved(c, "attach", i, NoEntry, made) /\ ~made
            \/ Moved(c, "reserve", i, NoEntry, made)
    /\ UNCHANGED <<registry, creating, late, gate, shutting, entries, disk, sweep, ending, used, turns>>

\* What Connect does.
LEMMA ConnectDoes ==
    ASSUME Known, NEW c \in Clients, Connect(c)
    PROVE  ConnectEffect(c)
<1> USE DEF Known, ConnectEffect
<1>1. PICK i \in Ids, made \in BOOLEAN :
        /\ made => /\ i \notin Registered \cup creating /\ disk[i] = NoRecord
                   /\ \A e \in Entries : entries[e].id # i
                   /\ \A d \in Clients : conn[d].id # i
        /\ conn' = [conn EXCEPT ![c] = [pc |-> IF i \in Registered THEN "attach" ELSE "reserve",
                                        id |-> i, ent |-> NoEntry, made |-> made]]
    BY DEF Connect
<1>2. \A l \in ConnPCs : [pc |-> l, id |-> i, ent |-> NoEntry, made |-> made] \in ConnRecords
    BY DEF ConnRecords
<1>3. conn \in [Clients -> ConnRecords]
    BY DEF TypeOK
<1>4. /\ made => /\ disk[i] = NoRecord /\ \A f \in Entries : entries[f].id # i
                 /\ \A d \in Clients : conn[d].id # i
      /\ made => i \notin Registered
    BY <1>1
<1>5. \/ Moved(c, "attach", i, NoEntry, made) /\ i \in Registered
      \/ Moved(c, "reserve", i, NoEntry, made)
    BY <1>1, <1>2, <1>3, Values DEF Moved
<1>6. /\ conn[c].pc = "away" /\ connects < MaxConnects /\ connects' = connects + 1
      /\ UNCHANGED <<registry, creating, late, gate, shutting, entries, disk, sweep, ending, used, turns>>
    BY DEF Connect, At
<1> QED
    BY <1>4, <1>5, <1>6

ReserveEffect(c) ==
    /\ conn[c].pc = "reserve" /\ gate = Free
    /\ \/ Moved(c, "attach", conn[c].id, conn[c].ent, FALSE) /\ creating' = creating
       \/ GoesAway(c) /\ creating' = creating
       \/ /\ ~Refused(conn[c].id) /\ conn[c].id \notin Registered
          /\ Goes(c, "load") /\ creating' = creating \cup {conn[c].id}
    /\ UNCHANGED <<registry, late, gate, shutting, entries, disk, sweep, ending, used, connects, turns>>

\* What Reserve does.
LEMMA ReserveDoes ==
    ASSUME Known, NEW c \in Clients, Reserve(c)
    PROVE  ReserveEffect(c)
<1> USE DEF Known, ReserveEffect
<1> DEFINE i == conn[c].id
<1>1. CASE i \in Registered /\ ~shutting
    BY <1>1, ConnSet, Values DEF Reserve, At, counters
<1>2. CASE ~(i \in Registered /\ ~shutting) /\ Refused(i)
    BY <1>2, ConnSet, Values DEF Reserve, At, counters
<1>3. CASE ~(i \in Registered /\ ~shutting) /\ ~Refused(i)
  <2>1. i \notin Registered
    BY <1>3 DEF Refused
  <2>2. Goes(c, "load")
    BY <1>3, ConnSet, Values DEF Reserve, Goto
  <2> QED
    BY <1>3, <2>1, <2>2 DEF Reserve, At, Goto, counters
<1> QED
    BY <1>1, <1>2, <1>3

\* The entry a load makes.
IsNew(r, i, loaded) ==
    /\ r.id = i /\ r.mem = loaded /\ r.clean /\ r.clients = {} /\ ~r.stopped /\ r.queued = {}
    /\ r.turn = 0 /\ ~r.deleted /\ r.saves = 0 /\ ~r.risk /\ r.end = "no"

\* What a new entry is, field by field.
LEMMA NewSet ==
    ASSUME NEW i \in Ids \cup {NoEntry}, NEW loaded \in SUBSET (1..MaxTurns)
    PROVE  NewEntry(i, loaded) \in EntryRecords /\ IsNew(NewEntry(i, loaded), i, loaded)
<1>1. 0 \in 0..MaxTurns
    BY DaemonAssumption
<1> QED
    BY <1>1 DEF NewEntry, EntryRecords, IsNew

LoadEffect(c) ==
    /\ conn[c].pc = "load"
    /\ \/ /\ conn[c].made \/ disk[conn[c].id] # NoRecord
          /\ used < MaxEntries /\ used' = used + 1 /\ used + 1 \in Entries
          /\ entries' \in [Entries -> EntryRecords]
          /\ \A f \in Entries \ {used + 1} : entries'[f] = entries[f]
          /\ IsNew(entries'[used + 1], conn[c].id, IF conn[c].made THEN {} ELSE disk[conn[c].id])
          /\ Moved(c, "register", conn[c].id, used + 1, conn[c].made)
       \/ Goes(c, "register") /\ entries' = entries /\ used' = used
    /\ UNCHANGED <<registry, creating, late, gate, shutting, disk, sweep, ending, connects, turns>>

\* What Load does.
LEMMA LoadDoes ==
    ASSUME Known, NEW c \in Clients, Load(c)
    PROVE  LoadEffect(c)
<1> USE DEF Known, LoadEffect
<1> DEFINE i == conn[c].id
           loaded == IF conn[c].made THEN {} ELSE disk[i]
           r == NewEntry(i, loaded)
<1>1. CASE /\ conn[c].made \/ disk[i] # NoRecord
           /\ used < MaxEntries
           /\ entries' = [entries EXCEPT ![used + 1] = r]
           /\ conn' = [conn EXCEPT ![c].pc = "register", ![c].ent = used + 1]
           /\ used' = used + 1
  <2>1. used + 1 \in Entries
    BY <1>1, DaemonAssumption DEF TypeOK, Entries
  <2>2. i \in Ids
    BY EntOf DEF Load, At
  <2>3. loaded \in SUBSET (1..MaxTurns)
    BY <1>1, <2>2 DEF TypeOK
  <2> HIDE DEF loaded
  <2>4. r \in EntryRecords /\ IsNew(r, i, loaded)
    BY <2>2, <2>3, NewSet
  <2> HIDE DEF r
  <2>5. /\ entries' \in [Entries -> EntryRecords] /\ entries'[used + 1] = r
        /\ \A f \in Entries \ {used + 1} : entries'[f] = entries[f]
    BY <1>1, <2>1, <2>4 DEF TypeOK
  <2>6. Moved(c, "register", i, used + 1, conn[c].made)
    BY <1>1, <2>1, ConnSet, Values
  <2> QED
    BY <1>1, <2>1, <2>4, <2>5, <2>6 DEF Load, At, loaded
<1>2. CASE Goto(c, "register") /\ UNCHANGED <<entries, used>>
    BY <1>2, ConnSet, Values DEF Load, At, Goto
<1> QED
    BY <1>1, <1>2 DEF Load

RegisterEffect(c) ==
    /\ conn[c].pc = "register" /\ gate = Free /\ creating' = creating \ {conn[c].id}
    /\ \/ /\ conn[c].ent # NoEntry /\ ~shutting /\ late[conn[c].id] = 0
          /\ Cardinality(Registered) < MaxSessions
          /\ RegistryIs(conn[c].id, conn[c].ent)
          /\ Goes(c, "attach") /\ entries' = entries /\ disk' = disk
       \/ GoesAway(c) /\ registry' = registry /\ entries' = entries /\ disk' = disk
       \/ /\ GoesAway(c) /\ registry' = registry
          /\ conn[c].ent # NoEntry
          /\ Typed /\ KeepsId /\ KeepsStop /\ KeepsEnd /\ KeepsWork /\ KeepsData /\ KeepsClients
          /\ AlsoDeleted(conn[c].ent)
          /\ DiskIs(conn[c].id, NoRecord)
    /\ UNCHANGED <<late, gate, shutting, sweep, ending, used, connects, turns>>

\* What Register does.
LEMMA RegisterDoes ==
    ASSUME Known, NEW c \in Clients, Register(c)
    PROVE  RegisterEffect(c)
<1> USE DEF Known, RegisterEffect
<1> DEFINE i == conn[c].id
           e == conn[c].ent
           go == e # NoEntry /\ ~shutting /\ late[i] = 0 /\ i \notin Registered
                 /\ Cardinality(Registered) < MaxSessions
<1>1. CASE go
    BY <1>1, ConnSet, Values, Totals DEF Register, At, Goto, Unreserved, counters
<1>2. CASE ~go /\ e # NoEntry /\ shutting /\ conn[c].made
  <2>1. e \in Entries
    BY <1>2, EntOf
  <2>2. entries' = [entries EXCEPT ![e].deleted = TRUE] /\ disk' = [disk EXCEPT ![i] = NoRecord]
    BY <1>2 DEF Register, Deleted
  <2>3. /\ Typed /\ KeepsId /\ KeepsStop /\ KeepsEnd /\ KeepsWork /\ KeepsData /\ KeepsClients
        /\ AlsoDeleted(e)
    BY <2>1, <2>2, DiscardSet
  <2>4. GoesAway(c)
    BY <1>2, ConnSet, Values DEF Register
  <2> QED
    BY <1>2, <2>2, <2>3, <2>4, Totals DEF Register, At, Unreserved, counters
<1>3. CASE ~go /\ ~(e # NoEntry /\ shutting /\ conn[c].made)
    BY <1>3, ConnSet, Values DEF Register, At, Unreserved, counters
<1> QED
    BY <1>1, <1>2, <1>3

AttachEffect(c) ==
    /\ conn[c].pc = "attach"
    /\ \/ GoesAway(c)
       \/ /\ registry[conn[c].id] # NoEntry
          /\ Moved(c, "admit", conn[c].id, registry[conn[c].id], conn[c].made)
    /\ UNCHANGED <<registry, creating, late, gate, shutting, entries, disk, sweep, ending,
                   used, connects, turns>>

\* What Attach does.
LEMMA AttachDoes ==
    ASSUME Known, NEW c \in Clients, Attach(c)
    PROVE  AttachEffect(c)
<1> USE DEF Known, AttachEffect
<1> DEFINE e == registry[conn[c].id]
<1>1. conn[c].id \in Ids /\ e \in Entries \cup {NoEntry}
    BY EntOf DEF Attach, At, TypeOK
<1>2. CASE e = NoEntry
    BY <1>2, ConnSet, Values DEF Attach, At, counters
<1>3. CASE e # NoEntry
  <2>1. conn' = [conn EXCEPT ![c] = [conn[c] EXCEPT !.pc = "admit", !.ent = e]]
    BY <1>3 DEF Attach
  <2>2. conn' = [conn EXCEPT ![c].pc = "admit", ![c].ent = e]
    BY <2>1 DEF TypeOK, ConnRecords
  <2>3. Moved(c, "admit", conn[c].id, e, conn[c].made)
    BY <1>1, <2>2, ConnSet, Values
  <2> QED
    BY <1>3, <2>3 DEF Attach, At, counters
<1> QED
    BY <1>2, <1>3

AdmitEffect(c) ==
    /\ conn[c].pc = "admit"
    /\ \/ GoesAway(c) /\ registry' = registry /\ entries' = entries /\ disk' = disk
       \/ GoesAway(c) /\ conn[c].made /\ RolledBack(conn[c].id, c)
       \/ /\ ~entries[conn[c].ent].stopped /\ Goes(c, "handshake")
          /\ Typed /\ KeepsId /\ KeepsFate /\ KeepsWork /\ KeepsData
          /\ ClientsAre(conn[c].ent, entries[conn[c].ent].clients \cup {c})
          /\ registry' = registry /\ disk' = disk
    /\ UNCHANGED <<creating, late, gate, shutting, sweep, ending, used, connects, turns>>

\* What Admit does.
LEMMA AdmitDoes ==
    ASSUME Known, NEW c \in Clients, Admit(c)
    PROVE  AdmitEffect(c)
<1> USE DEF Known, AdmitEffect
<1> DEFINE e == conn[c].ent
           no == Of(c).stopped \/ Cardinality(Of(c).clients) >= MaxClients
<1>1. conn[c].id \in Ids /\ e \in Entries
    BY EntOf DEF Admit, At
<1>2. CASE no /\ conn[c].made
  <2>1. Rollback(conn[c].id, entries) /\ GoesAway(c)
    BY <1>2, ConnSet, Values DEF Admit
  <2>2. entries \in [Entries -> EntryRecords] /\ \A f \in Entries : OutOf(entries[f], entries[f], c)
    BY DEF TypeOK, OutOf
  <2>3. RolledBack(conn[c].id, c)
    BY <1>1, <2>1, <2>2, RollbackSet
  <2> QED
    BY <1>2, <2>1, <2>3 DEF Admit, At, counters
<1>3. CASE no /\ ~conn[c].made
    BY <1>3, ConnSet, Values DEF Admit, At, counters
<1>4. CASE ~no
  <2>1. /\ entries' = [entries EXCEPT ![e] = [entries[e] EXCEPT !.admission = c, !.clients = @ \cup {c},
                                                !.detached = "no", !.deferral = "no"]]
        /\ conn' = [conn EXCEPT ![c].pc = "handshake"] /\ registry' = registry /\ disk' = disk
    BY <1>4 DEF Admit, Of, Goto
  <2>2. Goes(c, "handshake")
    BY <2>1, ConnSet, Values
  <2>3. /\ Typed /\ KeepsId /\ KeepsFate /\ KeepsWork /\ KeepsData
        /\ ClientsAre(e, entries[e].clients \cup {c})
    BY <1>1, <2>1, JoinSet
  <2> QED
    BY <1>4, <2>1, <2>2, <2>3 DEF Admit, At, Of, counters
<1> QED
    BY <1>2, <1>3, <1>4

FitEffect(c) ==
    /\ conn[c].pc = "handshake" /\ Touched /\ Goes(c, "fitting")
    /\ UNCHANGED <<registry, creating, late, gate, shutting, disk, sweep, ending, used, connects, turns>>

\* What Fit does.
LEMMA FitDoes ==
    ASSUME Known, NEW c \in Clients, Fit(c)
    PROVE  FitEffect(c)
<1> USE DEF Known, FitEffect
<1>1. conn[c].pc = "handshake" /\ conn[c].ent \in Entries
    BY EntOf DEF Fit, At, Inside
<1>2. Touched
    BY <1>1, LockSet DEF Fit
<1> QED
    BY <1>1, <1>2, ConnSet, Values DEF Fit, Goto, counters

ReadmitEffect(c) ==
    /\ conn[c].pc = "fitting" /\ Touched /\ Goes(c, "fitted")
    /\ UNCHANGED <<registry, creating, late, gate, shutting, disk, sweep, ending, used, connects, turns>>

\* What Readmit does.
LEMMA ReadmitDoes ==
    ASSUME Known, NEW c \in Clients, Readmit(c)
    PROVE  ReadmitEffect(c)
<1> USE DEF Known, ReadmitEffect
<1>1. conn[c].pc = "fitting" /\ conn[c].ent \in Entries
    BY EntOf DEF Readmit, At, Inside
<1>2. Touched
    BY <1>1, LockSet DEF Readmit, Actors
<1> QED
    BY <1>1, <1>2, ConnSet, Values DEF Readmit, Goto, counters

AttachOkEffect(c) ==
    /\ conn[c].pc \in {"handshake", "fitted"} /\ Touched
    /\ Moved(c, "serving", conn[c].id, conn[c].ent, FALSE)
    /\ UNCHANGED <<registry, creating, late, gate, shutting, disk, sweep, ending, used, connects, turns>>

\* What AttachOk does.
LEMMA AttachOkDoes ==
    ASSUME Known, NEW c \in Clients, AttachOk(c)
    PROVE  AttachOkEffect(c)
<1> USE DEF Known, AttachOkEffect
<1>1. conn[c].pc \in {"handshake", "fitted"} /\ conn[c].ent \in Entries
    BY EntOf DEF AttachOk, At, Inside
<1>2. Touched
    BY <1>1, LockSet DEF AttachOk
<1> QED
    BY <1>1, <1>2, ConnSet, Values DEF AttachOk, counters

HandshakeFailsEffect(c) ==
    /\ conn[c].pc \in {"handshake", "fitting", "fitted"} /\ GoesAway(c)
    /\ \/ LeftBy(c) /\ registry' = registry /\ disk' = disk
       \/ conn[c].made /\ RolledBack(conn[c].id, c)
    /\ UNCHANGED <<creating, late, gate, shutting, sweep, ending, used, connects, turns>>

\* What HandshakeFails does.
LEMMA HandshakeFailsDoes ==
    ASSUME Known, NEW c \in Clients, HandshakeFails(c)
    PROVE  HandshakeFailsEffect(c)
<1> USE DEF Known, HandshakeFailsEffect
<1>1. conn[c].pc \in {"handshake", "fitting", "fitted"} /\ conn[c].ent \in Entries /\ conn[c].id \in Ids
    BY EntOf DEF HandshakeFails, Inside
<1>2. /\ Left(c) \in [Entries -> EntryRecords]
      /\ \A f \in Entries : OutOf(Left(c)[f], entries[f], c)
    BY <1>1, LeftSet
<1>3. CASE conn[c].made
  <2>1. Rollback(conn[c].id, Left(c))
    BY <1>3 DEF HandshakeFails
  <2>2. RolledBack(conn[c].id, c)
    BY <1>1, <1>2, <2>1, RollbackSet
  <2> QED
    BY <1>1, <1>3, <2>2, ConnSet, Values DEF HandshakeFails, counters
<1>4. CASE ~conn[c].made
  <2>1. entries' = Left(c)
    BY <1>4 DEF HandshakeFails
  <2> QED
    BY <1>1, <1>2, <1>4, <2>1, LeftByOutOf, ConnSet, Values DEF HandshakeFails, Typed, counters
<1> QED
    BY <1>3, <1>4

DetachEffect(c) ==
    /\ conn[c].pc = "serving" /\ GoesAway(c) /\ LeftBy(c)
    /\ UNCHANGED <<registry, creating, late, gate, shutting, disk, sweep, ending, used, connects, turns>>

\* What Detach does.
LEMMA DetachDoes ==
    ASSUME Known, NEW c \in Clients, Detach(c)
    PROVE  DetachEffect(c)
<1> USE DEF Known, DetachEffect
<1>1. conn[c].pc = "serving" /\ conn[c].ent \in Entries
    BY EntOf DEF Detach, At, Inside
<1>2. /\ Left(c) \in [Entries -> EntryRecords]
      /\ \A f \in Entries : OutOf(Left(c)[f], entries[f], c)
    BY <1>1, LeftSet
<1>3. LeftBy(c)
    BY <1>2, LeftByOutOf DEF Detach, Typed
<1> QED
    BY <1>1, <1>3, ConnSet, Values DEF Detach, counters

PromptEffect(c) ==
    /\ conn[c].pc = "serving" /\ turns < MaxTurns /\ turns' = turns + 1
    /\ Typed /\ KeepsId /\ KeepsFate /\ KeepsTurn /\ KeepsSaves /\ KeepsData /\ KeepsClients
    /\ QueueIs(conn[c].ent, entries[conn[c].ent].queued \cup {turns + 1})
    /\ UNCHANGED <<registry, creating, late, gate, shutting, disk, conn, sweep, ending, used, connects>>

\* What Prompt does.
LEMMA PromptDoes ==
    ASSUME Known, NEW c \in Clients, Prompt(c)
    PROVE  PromptEffect(c)
<1> USE DEF Known, PromptEffect
<1>1. conn[c].pc = "serving" /\ conn[c].ent \in Entries
    BY EntOf DEF Prompt, At, Inside
<1>2. turns + 1 \in 1..MaxTurns
    BY DaemonAssumption DEF Prompt, TypeOK
<1>3. entries' = [entries EXCEPT ![conn[c].ent].queued = @ \cup {turns + 1}]
    BY DEF Prompt
<1>4. /\ Typed /\ KeepsId /\ KeepsFate /\ KeepsTurn /\ KeepsSaves /\ KeepsData /\ KeepsClients
      /\ QueueIs(conn[c].ent, entries[conn[c].ent].queued \cup {turns + 1})
    BY <1>1, <1>2, <1>3, AskSet
<1> QED
    BY <1>1, <1>4 DEF Prompt

StopGateEffect(c) ==
    /\ conn[c].pc = "serving" /\ gate = Free /\ gate' = c /\ registry[conn[c].id] # NoEntry
    /\ Moved(c, "stopping", conn[c].id, registry[conn[c].id], conn[c].made)
    /\ UNCHANGED <<registry, creating, late, shutting, entries, disk, sweep, ending, used, connects, turns>>

\* What StopGate does.
LEMMA StopGateDoes ==
    ASSUME Known, NEW c \in Clients, StopGate(c)
    PROVE  StopGateEffect(c)
<1> USE DEF Known, StopGateEffect
<1>1. conn[c].pc = "serving" /\ conn[c].id \in Ids /\ registry[conn[c].id] # NoEntry
    BY EntOf DEF StopGate, At, Inside, Registered
<1>2. registry[conn[c].id] \in Entries
    BY <1>1 DEF TypeOK
<1> QED
    BY <1>1, <1>2, ConnSet, Values DEF StopGate, counters

StopAdmissionEffect(c) ==
    /\ conn[c].pc = "stopping"
    /\ \/ /\ registry[conn[c].id] = conn[c].ent /\ Touched /\ Goes(c, "deleting")
          /\ gate' = gate
       \/ Goes(c, "serving") /\ gate' = Free /\ entries' = entries
    /\ UNCHANGED <<registry, creating, late, shutting, disk, sweep, ending, used, connects, turns>>

\* What StopAdmission does.
LEMMA StopAdmissionDoes ==
    ASSUME Known, NEW c \in Clients, StopAdmission(c)
    PROVE  StopAdmissionEffect(c)
<1> USE DEF Known, StopAdmissionEffect
<1>1. conn[c].pc = "stopping" /\ conn[c].ent \in Entries
    BY EntOf DEF StopAdmission, At, Inside
<1>2. CASE registry[conn[c].id] = conn[c].ent
  <2>1. Touched
    BY <1>1, <1>2, LockSet DEF StopAdmission, Actors
  <2> QED
    BY <1>1, <1>2, <2>1, ConnSet, Values DEF StopAdmission, Goto, counters
<1>3. CASE registry[conn[c].id] # conn[c].ent
    BY <1>1, <1>3, ConnSet, Values DEF StopAdmission, Goto, counters
<1> QED
    BY <1>2, <1>3

StopDeleteEffect(c) ==
    /\ conn[c].pc = "deleting" /\ Goes(c, "serving") /\ gate' = Free
    /\ \/ /\ TakenDown(conn[c].ent, "stopped") /\ KeepsWork /\ KeepsData
          /\ AlsoDeleted(conn[c].ent)
          /\ DiskIs(entries[conn[c].ent].id, NoRecord)
       \/ Touched /\ registry' = registry /\ disk' = disk
    /\ UNCHANGED <<creating, late, shutting, sweep, ending, used, connects, turns>>

\* What StopDelete does.
LEMMA StopDeleteDoes ==
    ASSUME Known, NEW c \in Clients, StopDelete(c)
    PROVE  StopDeleteEffect(c)
<1> USE DEF Known, StopDeleteEffect
<1> DEFINE e == conn[c].ent
           r == [entries[e] EXCEPT !.deleted = TRUE]
<1>1. conn[c].pc = "deleting" /\ e \in Entries
    BY EntOf DEF StopDelete, At, Inside
<1>2. Goes(c, "serving") /\ gate' = Free
    BY ConnSet, Values DEF StopDelete, Goto
<1>3. CASE Remove(e, r, "stopped") /\ disk' = Deleted(entries[e].id)
  <2>1. entries[e] \in EntryRecords
    BY <1>1 DEF TypeOK
  <2>2. r \in EntryRecords
    BY <2>1 DEF EntryRecords
  <2>3. /\ r.id = entries[e].id /\ r.stopped = entries[e].stopped /\ r.end = entries[e].end
        /\ r.clients = entries[e].clients /\ r.mem = entries[e].mem /\ r.clean = entries[e].clean
        /\ r.risk = entries[e].risk /\ r.queued = entries[e].queued /\ r.turn = entries[e].turn
        /\ r.saves = entries[e].saves /\ r.deleted
    BY <2>1 DEF EntryRecords
  <2> HIDE DEF r
  <2>4. /\ TakenDown(e, "stopped") /\ \A f \in Entries : f # e => entries'[f] = entries[f]
        /\ entries'[e].mem = r.mem /\ entries'[e].clean = r.clean /\ entries'[e].risk = r.risk
        /\ entries'[e].queued = r.queued /\ entries'[e].turn = r.turn
        /\ entries'[e].saves = r.saves /\ entries'[e].deleted = r.deleted
    BY <1>1, <1>3, <2>2, <2>3, RemoveSet
  <2>5. /\ KeepsWork /\ KeepsData
        /\ AlsoDeleted(e)
    BY <2>3, <2>4 DEF AlsoDeleted, KeepsFate, KeepsWork, KeepsData, KeepsId, KeepsStop,
        KeepsDeleted, KeepsEnd, KeepsQueue, KeepsTurn, KeepsSaves, KeepsMem, KeepsClean,
        KeepsRisk, KeepsClients
  <2> QED
    BY <1>1, <1>2, <1>3, <2>4, <2>5, Totals DEF StopDelete, Deleted, counters
<1>4. CASE entries' = [entries EXCEPT ![e].admission = Free] /\ UNCHANGED <<registry, disk>>
  <2>1. Touched
    BY <1>1, <1>4, LockSet
  <2> QED
    BY <1>1, <1>2, <1>4, <2>1 DEF StopDelete, counters
<1> QED
    BY <1>3, <1>4 DEF StopDelete

BeginTurnEffect(e) ==
    /\ entries[e].queued # {}
    /\ Typed /\ KeepsId /\ KeepsFate /\ KeepsSaves /\ KeepsData /\ KeepsClients
    /\ \E q, v : /\ QueueIs(e, q) /\ TurnIs(e, v)
                 /\ q \subseteq entries[e].queued
                 /\ entries[e].stopped => v = entries[e].turn
    /\ UNCHANGED <<registry, creating, late, gate, shutting, disk, conn, sweep, ending,
                   used, connects, turns>>

\* What BeginTurn does.
LEMMA BeginTurnDoes ==
    ASSUME Known, NEW e \in Entries, BeginTurn(e)
    PROVE  BeginTurnEffect(e)
<1> USE DEF Known, BeginTurnEffect
<1>1. PICK t \in entries[e].queued : entries' = [entries EXCEPT ![e] = [entries[e] EXCEPT
            !.queued = @ \ {t}, !.turn = IF entries[e].stopped \/ @ # 0 THEN @ ELSE t]]
    BY DEF BeginTurn
<1> DEFINE q == entries[e].queued \ {t}
           v == IF entries[e].stopped \/ entries[e].turn # 0 THEN entries[e].turn ELSE t
<1>2. entries[e] \in EntryRecords
    BY DEF TypeOK
<1>3. t \in 1..MaxTurns /\ q \in SUBSET (1..MaxTurns) /\ entries[e].turn \in 0..MaxTurns
    BY <1>2 DEF EntryRecords
<1>4. v \in 0..MaxTurns
    BY <1>3, DaemonAssumption
<1>5. entries' = [entries EXCEPT ![e] = [entries[e] EXCEPT !.queued = q, !.turn = v]]
    BY <1>1
<1>6. entries[e].stopped => v = entries[e].turn
    OBVIOUS
<1>7. q \subseteq entries[e].queued
    OBVIOUS
<1> HIDE DEF q, v
<1>8. /\ Typed /\ KeepsId /\ KeepsFate /\ KeepsSaves /\ KeepsData /\ KeepsClients
      /\ QueueIs(e, q) /\ TurnIs(e, v)
    BY <1>3, <1>4, <1>5, BeginSet
<1> QED
    BY <1>6, <1>7, <1>8 DEF BeginTurn, counters

\* The write of a save that may fail.
Wrote(e, ok, mem) ==
    \/ ok /\ ~entries[e].deleted /\ DiskIs(entries[e].id, mem)
    \/ ~(ok /\ ~entries[e].deleted) /\ disk' = disk

EndTurnEffect(e) ==
    /\ entries[e].turn # 0
    /\ Typed /\ KeepsId /\ KeepsFate /\ KeepsQueue /\ KeepsSaves /\ KeepsRisk /\ KeepsClients
    /\ TurnIs(e, 0) /\ MemIs(e, entries[e].mem \cup {entries[e].turn})
    /\ \E ok \in BOOLEAN : CleanIs(e, ok) /\ Wrote(e, ok, entries[e].mem \cup {entries[e].turn})
    /\ UNCHANGED <<registry, creating, late, gate, shutting, conn, sweep, ending, used, connects, turns>>

\* What EndTurn does.
LEMMA EndTurnDoes ==
    ASSUME Known, NEW e \in Entries, EndTurn(e)
    PROVE  EndTurnEffect(e)
<1> USE DEF Known, EndTurnEffect
<1> DEFINE mem == entries[e].mem \cup {entries[e].turn}
<1>1. PICK ok \in BOOLEAN : Save(e, mem, ok)
    BY DEF EndTurn
<1>2. entries[e] \in EntryRecords
    BY DEF TypeOK
<1>3. entries[e].mem \in SUBSET (1..MaxTurns) /\ entries[e].turn \in 0..MaxTurns
    BY <1>2 DEF EntryRecords
<1>4. mem \in SUBSET (1..MaxTurns) /\ 0 \in 0..MaxTurns
    BY <1>3, DaemonAssumption DEF EndTurn
<1> HIDE DEF mem
<1>5. /\ Typed /\ KeepsId /\ KeepsFate /\ KeepsQueue /\ KeepsSaves /\ KeepsRisk /\ KeepsClients
      /\ MemIs(e, mem) /\ CleanIs(e, ok) /\ TurnIs(e, 0)
    BY <1>1, <1>4, EndSet DEF Save
<1>6. Wrote(e, ok, mem)
    BY <1>1 DEF Save, Wrote, TypeOK, DiskIs
<1> QED
    BY <1>1, <1>5, <1>6 DEF EndTurn, mem, counters

LateSaveEffect(e) ==
    /\ entries[e].saves > 0
    /\ Typed /\ KeepsId /\ KeepsFate /\ KeepsQueue /\ KeepsTurn /\ KeepsMem /\ KeepsRisk /\ KeepsClients
    /\ SavesIs(e, entries[e].saves - 1)
    /\ \E ok \in BOOLEAN : CleanIs(e, ok) /\ Wrote(e, ok, entries[e].mem)
    /\ LateIs(entries[e].id, late[entries[e].id] - 1)
    /\ UNCHANGED <<registry, creating, gate, shutting, conn, sweep, ending, used, connects, turns>>

\* What LateSave does.
LEMMA LateSaveDoes ==
    ASSUME Known, NEW e \in Entries, LateSave(e)
    PROVE  LateSaveEffect(e)
<1> USE DEF Known, LateSaveEffect
<1> DEFINE n == entries[e].saves - 1
<1>1. PICK ok \in BOOLEAN :
        /\ entries' = [entries EXCEPT ![e] = [entries[e] EXCEPT !.saves = n, !.clean = ok]]
        /\ Wrote(e, ok, entries[e].mem)
    BY DEF LateSave, Wrote, TypeOK, DiskIs
<1>2. entries[e].saves \in Nat
    BY DEF TypeOK, EntryRecords
<1>3. n \in Nat
    BY <1>2 DEF LateSave
<1> HIDE DEF n
<1>4. /\ Typed /\ KeepsId /\ KeepsFate /\ KeepsQueue /\ KeepsTurn /\ KeepsMem /\ KeepsRisk /\ KeepsClients
      /\ SavesIs(e, n) /\ CleanIs(e, ok)
    BY <1>1, <1>3, LandSet
<1>5. LateIs(entries[e].id, late[entries[e].id] - 1)
    BY Totals DEF LateSave, DropGuard
<1> QED
    BY <1>1, <1>4, <1>5 DEF LateSave, n, counters

TimePassesEffect(e) ==
    /\ Touched
    /\ UNCHANGED <<registry, creating, late, gate, shutting, disk, conn, sweep, ending,
                   used, connects, turns>>

\* What TimePasses does.
LEMMA TimePassesDoes ==
    ASSUME Known, NEW e \in Entries, TimePasses(e)
    PROVE  TimePassesEffect(e)
<1> USE DEF Known, TimePassesEffect
<1>1. CASE entries' = [entries EXCEPT ![e].detached = "idle"]
    BY <1>1, RetentionEnds DEF TimePasses, counters
<1>2. CASE entries' = [entries EXCEPT ![e].deferral = "expired"]
    BY <1>2, ExtensionEnds DEF TimePasses, counters
<1> QED
    BY <1>1, <1>2 DEF TimePasses

EndAdmissionEffect(e) ==
    /\ ending[e] = "admission"
    /\ \/ Touched /\ EndingIs(e, "wait")
       \/ entries' = entries /\ EndingIs(e, "done")
    /\ UNCHANGED <<registry, creating, late, gate, shutting, disk, conn, sweep, used, connects, turns>>

\* What EndAdmission does.
LEMMA EndAdmissionDoes ==
    ASSUME Known, NEW e \in Entries, EndAdmission(e)
    PROVE  EndAdmissionEffect(e)
<1> USE DEF Known, EndAdmissionEffect
<1>1. CASE entries[e].admission = Free /\ registry[entries[e].id] = e
  <2>1. Touched
    BY <1>1, LockSet DEF EndAdmission, Actors
  <2> QED
    BY <1>1, <2>1, Totals DEF EndAdmission, counters
<1>2. CASE ~(entries[e].admission = Free /\ registry[entries[e].id] = e)
    BY <1>2, Totals DEF EndAdmission, counters
<1> QED
    BY <1>1, <1>2

\* attempt_final_save: the record and the count of late saves.
FinallySaved(e, outcome) ==
    /\ Wrote(e, outcome = "saved", entries[e].mem)
    /\ \/ outcome = "timed_out" /\ LateIs(entries[e].id, late[entries[e].id] + 1)
       \/ outcome # "timed_out" /\ late' = late

\* What a final save does to the entry and to the record.
LEMMA FinalSaveSet ==
    ASSUME TypeOK, NEW e \in Entries, NEW outcome \in Outcomes, FinalSave(e, outcome)
    PROVE  FinallySaved(e, outcome)
<1>1. Wrote(e, outcome = "saved", entries[e].mem)
    BY DEF FinalSave, Wrote, TypeOK, DiskIs
<1>2. \/ outcome = "timed_out" /\ LateIs(entries[e].id, late[entries[e].id] + 1)
      \/ outcome # "timed_out" /\ late' = late
    BY DEF FinalSave, TypeOK, LateIs
<1> QED
    BY <1>1, <1>2 DEF FinallySaved

EndSaveEffect(e) ==
    /\ ending[e] = "wait" /\ EndingIs(e, "done")
    /\ TakenDown(e, "daemon_shutdown")
    /\ \E outcome \in Outcomes :
         /\ FinallySaved(e, outcome) /\ Saved(e, outcome)
         /\ ~entries'[e].risk => ~Busy(e) /\ outcome = "saved"
    /\ \A f \in Entries : f # e => entries'[f].risk = entries[f].risk
    /\ UNCHANGED <<creating, gate, shutting, conn, sweep, used, connects, turns>>

\* What EndSave does.
LEMMA EndSaveDoes ==
    ASSUME Known, NEW e \in Entries, EndSave(e)
    PROVE  EndSaveEffect(e)
<1> USE DEF Known, EndSaveEffect
<1>1. PICK quiescent \in BOOLEAN, outcome \in Outcomes :
        /\ quiescent => ~Busy(e)
        /\ FinalSave(e, outcome)
        /\ Remove(e, [AfterFinalSave(e, outcome) EXCEPT !.risk = outcome # "saved" \/ ~quiescent],
                  "daemon_shutdown")
    BY DEF EndSave
<1> DEFINE b == outcome # "saved" \/ ~quiescent
           r == [AfterFinalSave(e, outcome) EXCEPT !.risk = b]
<1>2. b \in BOOLEAN
    OBVIOUS
<1>3. ~b => ~Busy(e) /\ outcome = "saved"
    BY <1>1
<1>4. Remove(e, r, "daemon_shutdown")
    BY <1>1
<1> HIDE DEF b
<1>5. r \in EntryRecords /\ r.risk = b /\ IsAfter(r, e, outcome)
  <2> DEFINE s == AfterFinalSave(e, outcome)
  <2>1. s \in EntryRecords /\ IsAfter(s, e, outcome) /\ r = [s EXCEPT !.risk = b]
    BY AfterSet
  <2> HIDE DEF s, r
  <2> QED
    BY <1>2, <2>1, AfterRisk
<1> HIDE DEF r
<1>6. /\ TakenDown(e, "daemon_shutdown") /\ \A f \in Entries : f # e => entries'[f] = entries[f]
      /\ entries'[e].mem = r.mem /\ entries'[e].clean = r.clean /\ entries'[e].risk = r.risk
      /\ entries'[e].queued = r.queued /\ entries'[e].turn = r.turn
      /\ entries'[e].saves = r.saves /\ entries'[e].deleted = r.deleted
    BY <1>4, <1>5, RemoveSet DEF IsAfter
<1>7. Saved(e, outcome) /\ entries'[e].risk = b
    BY <1>5, <1>6 DEF Saved, IsAfter, CleanIs, SavesIs, KeepsSaves, KeepsMem, KeepsQueue,
        KeepsTurn, KeepsDeleted
<1> QED
    BY <1>1, <1>3, <1>6, <1>7, FinalSaveSet, Totals DEF EndSave, counters

SweepCheckEffect ==
    /\ sweep.pc = "admission"
    /\ \/ SweepGoes("next") /\ registry' = registry /\ entries' = entries
       \/ /\ SweepGoes("next") /\ StillIdle(sweep.ent)
          /\ entries[sweep.ent].clean /\ TakenDown(sweep.ent, "idle_retention")
          /\ KeepsWork /\ KeepsData /\ KeepsDeleted
       \/ /\ SweepGoes("save") /\ registry' = registry /\ Touched
    /\ UNCHANGED <<creating, late, gate, shutting, disk, conn, ending, used, connects, turns>>

\* What SweepCheck does.
LEMMA SweepCheckDoes ==
    ASSUME Known, SweepCheck
    PROVE  SweepCheckEffect
<1> USE DEF Known, SweepCheckEffect
<1> DEFINE e == sweep.ent
           r == [entries[e] EXCEPT !.deferral = "no"]
<1>1. e \in Entries
    BY DaemonAssumption DEF SweepCheck, HeldInv, SweepHeld, Used, Entries, TypeOK
<1>2. CASE ~StillIdle(e)
    BY <1>2, Totals DEF SweepCheck, counters
<1>3. CASE StillIdle(e) /\ entries[e].clean
  <2>1. entries[e] \in EntryRecords
    BY <1>1 DEF TypeOK
  <2>2. r \in EntryRecords
    BY <2>1 DEF EntryRecords
  <2>3. /\ r.id = entries[e].id /\ r.stopped = entries[e].stopped /\ r.end = entries[e].end
        /\ r.clients = entries[e].clients /\ r.mem = entries[e].mem /\ r.clean = entries[e].clean
        /\ r.risk = entries[e].risk /\ r.queued = entries[e].queued /\ r.turn = entries[e].turn
        /\ r.saves = entries[e].saves /\ r.deleted = entries[e].deleted
    BY <2>1 DEF EntryRecords
  <2>4. Remove(e, r, "idle_retention") /\ sweep' = [sweep EXCEPT !.pc = "next"]
    BY <1>3 DEF SweepCheck
  <2> HIDE DEF r
  <2>5. /\ TakenDown(e, "idle_retention") /\ \A f \in Entries : f # e => entries'[f] = entries[f]
        /\ entries'[e].mem = r.mem /\ entries'[e].clean = r.clean /\ entries'[e].risk = r.risk
        /\ entries'[e].queued = r.queued /\ entries'[e].turn = r.turn
        /\ entries'[e].saves = r.saves /\ entries'[e].deleted = r.deleted
    BY <1>1, <2>2, <2>3, <2>4, RemoveSet
  <2>6. KeepsWork /\ KeepsData /\ KeepsDeleted
    BY <2>3, <2>5 DEF KeepsFate, KeepsWork, KeepsData, KeepsId, KeepsStop, KeepsDeleted,
        KeepsEnd, KeepsQueue, KeepsTurn, KeepsSaves, KeepsMem, KeepsClean, KeepsRisk,
        KeepsClients
  <2> QED
    BY <1>3, <2>4, <2>5, <2>6, Totals DEF SweepCheck, counters
<1>4. CASE StillIdle(e) /\ ~entries[e].clean
  <2>1. /\ sweep' = [sweep EXCEPT !.pc = "save"] /\ registry' = registry
        /\ entries' = [entries EXCEPT ![e] = [entries[e] EXCEPT !.admission = Sweeper,
                                                !.deferral = IF @ = "no" THEN "started" ELSE @]]
    BY <1>4 DEF SweepCheck
  <2>2. Touched
    BY <1>1, <2>1, SweepLocks
  <2> QED
    BY <2>1, <2>2, Totals DEF SweepCheck, counters
<1> QED
    BY <1>2, <1>3, <1>4

SweepSavedEffect ==
    /\ sweep.pc = "save" /\ SweepGoes("next")
    /\ \E outcome \in Outcomes :
         /\ FinallySaved(sweep.ent, outcome) /\ Saved(sweep.ent, outcome)
         /\ \/ /\ StillIdle(sweep.ent) /\ TakenDown(sweep.ent, "idle_retention")
               /\ ~entries'[sweep.ent].risk => outcome = "saved"
            \/ /\ Typed /\ KeepsId /\ KeepsFate /\ KeepsClients
               /\ KeepsRisk /\ registry' = registry
    /\ \A f \in Entries : f # sweep.ent => entries'[f].risk = entries[f].risk
    /\ UNCHANGED <<creating, gate, shutting, conn, ending, used, connects, turns>>

\* What SweepSaved does.
LEMMA SweepSavedDoes ==
    ASSUME Known, SweepSaved
    PROVE  SweepSavedEffect
<1> USE DEF Known, SweepSavedEffect
<1> DEFINE e == sweep.ent
<1>1. e \in Entries
    BY DaemonAssumption DEF SweepSaved, HeldInv, SweepHeld, Used, Entries, TypeOK
<1>2. PICK outcome \in Outcomes :
        /\ FinalSave(e, outcome)
        /\ IF MayEvict(e, outcome) /\ StillIdle(e)
           THEN Remove(e, [AfterFinalSave(e, outcome) EXCEPT
                             !.risk = outcome # "saved" /\ entries[e].deferral = "expired"], "idle_retention")
           ELSE /\ entries' = [entries EXCEPT ![e] = [AfterFinalSave(e, outcome) EXCEPT !.admission = Free]]
                /\ UNCHANGED registry
    BY DEF SweepSaved
<1> DEFINE b == outcome # "saved" /\ entries[e].deferral = "expired"
           r == [AfterFinalSave(e, outcome) EXCEPT !.risk = b]
           o == [AfterFinalSave(e, outcome) EXCEPT !.admission = Free]
<1>3. b \in BOOLEAN
    OBVIOUS
<1>4. CASE MayEvict(e, outcome) /\ StillIdle(e)
  <2>1. ~b => outcome = "saved"
    BY <1>4 DEF MayEvict
  <2>2. Remove(e, r, "idle_retention")
    BY <1>2, <1>4
  <2> HIDE DEF b
  <2>3. r \in EntryRecords /\ r.risk = b /\ IsAfter(r, e, outcome)
    <3> DEFINE s == AfterFinalSave(e, outcome)
    <3>1. s \in EntryRecords /\ IsAfter(s, e, outcome) /\ r = [s EXCEPT !.risk = b]
      BY <1>1, AfterSet
    <3> HIDE DEF s, r
    <3> QED
      BY <1>1, <1>3, <3>1, AfterRisk
  <2> HIDE DEF r
  <2>4. /\ TakenDown(e, "idle_retention") /\ \A f \in Entries : f # e => entries'[f] = entries[f]
        /\ entries'[e].mem = r.mem /\ entries'[e].clean = r.clean /\ entries'[e].risk = r.risk
        /\ entries'[e].queued = r.queued /\ entries'[e].turn = r.turn
        /\ entries'[e].saves = r.saves /\ entries'[e].deleted = r.deleted
    BY <1>1, <2>2, <2>3, RemoveSet DEF IsAfter
  <2>5. Saved(e, outcome) /\ entries'[e].risk = b
    BY <2>3, <2>4 DEF Saved, IsAfter, CleanIs, SavesIs, KeepsSaves, KeepsMem, KeepsQueue,
        KeepsTurn, KeepsDeleted
  <2> QED
    BY <1>1, <1>2, <1>4, <2>1, <2>4, <2>5, FinalSaveSet, Totals DEF SweepSaved, counters
<1>5. CASE ~(MayEvict(e, outcome) /\ StillIdle(e))
  <2>1. entries' = [entries EXCEPT ![e] = o] /\ registry' = registry
    BY <1>2, <1>5
  <2>2. o \in EntryRecords /\ o.risk = entries[e].risk /\ IsAfter(o, e, outcome)
    <3> DEFINE s == AfterFinalSave(e, outcome)
    <3>1. /\ s \in EntryRecords /\ IsAfter(s, e, outcome) /\ o = [s EXCEPT !.admission = Free]
          /\ s.risk = entries[e].risk
      BY <1>1, AfterSet
    <3> HIDE DEF s, o
    <3> QED
      BY <1>1, <3>1, AfterRelease
  <2> HIDE DEF o
  <2>3. entries \in [Entries -> EntryRecords]
    BY DEF TypeOK
  <2>4. Typed /\ entries'[e] = o /\ \A f \in Entries : f # e => entries'[f] = entries[f]
    BY <1>1, <2>1, <2>2, <2>3 DEF Typed
  <2>5. KeepsId /\ KeepsFate /\ KeepsClients /\ KeepsRisk
    BY <2>2, <2>4 DEF IsAfter, KeepsFate, KeepsWork, KeepsData, KeepsId, KeepsStop,
        KeepsDeleted, KeepsEnd, KeepsQueue, KeepsTurn, KeepsSaves, KeepsMem, KeepsClean,
        KeepsRisk, KeepsClients
  <2>6. Saved(e, outcome)
    BY <2>2, <2>4 DEF Saved, IsAfter, CleanIs, SavesIs, KeepsSaves, KeepsMem, KeepsQueue,
        KeepsTurn, KeepsDeleted
  <2> QED
    BY <1>1, <1>2, <2>1, <2>4, <2>5, <2>6, FinalSaveSet, Totals DEF SweepSaved, KeepsRisk, counters
<1> QED
    BY <1>4, <1>5

SweepScanEffect ==
    /\ sweep.pc = "rest" /\ sweep'.pc = "gate" /\ sweep'.ent = NoEntry
    /\ UNCHANGED <<registry, creating, late, gate, shutting, entries, disk, conn, ending,
                   used, connects, turns>>

\* What SweepScan does.
LEMMA SweepScanDoes ==
    ASSUME Known, SweepScan
    PROVE  SweepScanEffect
<1> USE DEF Known, SweepScanEffect
<1> QED
    BY DEF SweepScan, counters

SweepGateEffect ==
    /\ sweep.pc = "gate" /\ gate = Free /\ gate' = Sweeper /\ SweepGoes("next")
    /\ UNCHANGED <<registry, creating, late, shutting, entries, disk, conn, ending,
                   used, connects, turns>>

\* What SweepGate does.
LEMMA SweepGateDoes ==
    ASSUME Known, SweepGate
    PROVE  SweepGateEffect
<1> USE DEF Known, SweepGateEffect
<1> QED
    BY Totals DEF SweepGate, counters

SweepNextEffect ==
    /\ sweep.pc = "next"
    /\ \/ /\ gate' = gate
          /\ \/ sweep'.pc = "next"
             \/ sweep'.pc = "admission" /\ \E i \in Ids : registry[i] # NoEntry /\ sweep'.ent = registry[i]
       \/ gate' = Free /\ sweep'.pc = "rest"
    /\ UNCHANGED <<registry, creating, late, shutting, entries, disk, conn, ending,
                   used, connects, turns>>

\* What SweepNext does.
LEMMA SweepNextDoes ==
    ASSUME Known, SweepNext
    PROVE  SweepNextEffect
<1> USE DEF Known, SweepNextEffect
<1>1. sweep.todo \subseteq Ids
    BY DEF TypeOK
<1>2. ASSUME NEW i \in sweep.todo,
             sweep' = [pc |-> IF i \in Registered THEN "admission" ELSE "next",
                       todo |-> sweep.todo \ {i}, ent |-> registry[i]]
      PROVE  \/ sweep'.pc = "next"
             \/ sweep'.pc = "admission" /\ registry[i] # NoEntry /\ sweep'.ent = registry[i]
    BY <1>2 DEF Registered
<1>3. ASSUME sweep' = [sweep EXCEPT !.pc = "rest", !.ent = NoEntry]
      PROVE  sweep'.pc = "rest"
    BY <1>3 DEF TypeOK
<1> QED
    BY <1>1, <1>2, <1>3 DEF SweepNext, counters

ShutdownBeginEffect ==
    /\ shutting' /\ ~shutting
    /\ UNCHANGED <<registry, creating, late, gate, entries, disk, conn, sweep, ending,
                   used, connects, turns>>

\* What ShutdownBegin does.
LEMMA ShutdownBeginDoes ==
    ASSUME Known, ShutdownBegin
    PROVE  ShutdownBeginEffect
<1> USE DEF Known, ShutdownBeginEffect
<1> QED
    BY DEF ShutdownBegin, counters

ShutdownGateEffect ==
    /\ shutting /\ gate = Free /\ gate' = Shutdown /\ \A f \in Entries : ending[f] = "no"
    /\ \A f \in Entries : ending'[f] = IF \E i \in Ids : registry[i] = f THEN "admission" ELSE "done"
    /\ UNCHANGED <<registry, creating, late, shutting, entries, disk, conn, sweep,
                   used, connects, turns>>

\* What ShutdownGate does.
LEMMA ShutdownGateDoes ==
    ASSUME Known, ShutdownGate
    PROVE  ShutdownGateEffect
<1> USE DEF Known, ShutdownGateEffect
<1> QED
    BY DEF ShutdownGate, counters

ShutdownDoneEffect ==
    /\ gate = Shutdown /\ gate' = Free /\ \A f \in Entries : ending[f] = "done"
    /\ UNCHANGED <<registry, creating, late, shutting, entries, disk, conn, sweep, ending,
                   used, connects, turns>>

\* What ShutdownDone does.
LEMMA ShutdownDoneDoes ==
    ASSUME Known, ShutdownDone
    PROVE  ShutdownDoneEffect
<1> USE DEF Known, ShutdownDoneEffect
<1> QED
    BY DEF ShutdownDone, counters

-----------------------------------------------------------------------------
(* A step of the daemon, by its effect.                                     *)

Effect ==
    \/ \E c \in Clients :
        \/ ConnectEffect(c) \/ ReserveEffect(c) \/ LoadEffect(c) \/ RegisterEffect(c)
        \/ AttachEffect(c) \/ AdmitEffect(c) \/ FitEffect(c) \/ ReadmitEffect(c)
        \/ AttachOkEffect(c) \/ HandshakeFailsEffect(c) \/ DetachEffect(c) \/ PromptEffect(c)
        \/ StopGateEffect(c) \/ StopAdmissionEffect(c) \/ StopDeleteEffect(c)
    \/ \E e \in Entries :
        \/ BeginTurnEffect(e) \/ EndTurnEffect(e) \/ LateSaveEffect(e) \/ TimePassesEffect(e)
        \/ EndAdmissionEffect(e) \/ EndSaveEffect(e)
    \/ SweepScanEffect \/ SweepGateEffect \/ SweepNextEffect \/ SweepCheckEffect
    \/ SweepSavedEffect \/ ShutdownBeginEffect \/ ShutdownGateEffect
    \/ ShutdownDoneEffect
    \/ UNCHANGED vars

\* Every step has one of the effects.
LEMMA StepEffect ==
    ASSUME Known, [Next]_vars
    PROVE  Effect
<1>1. ASSUME NEW c \in Clients, Connect(c) PROVE ConnectEffect(c)
    BY <1>1, ConnectDoes
<1>2. ASSUME NEW c \in Clients, Reserve(c) PROVE ReserveEffect(c)
    BY <1>2, ReserveDoes
<1>3. ASSUME NEW c \in Clients, Load(c) PROVE LoadEffect(c)
    BY <1>3, LoadDoes
<1>4. ASSUME NEW c \in Clients, Register(c) PROVE RegisterEffect(c)
    BY <1>4, RegisterDoes
<1>5. ASSUME NEW c \in Clients, Attach(c) PROVE AttachEffect(c)
    BY <1>5, AttachDoes
<1>6. ASSUME NEW c \in Clients, Admit(c) PROVE AdmitEffect(c)
    BY <1>6, AdmitDoes
<1>7. ASSUME NEW c \in Clients, Fit(c) PROVE FitEffect(c)
    BY <1>7, FitDoes
<1>8. ASSUME NEW c \in Clients, Readmit(c) PROVE ReadmitEffect(c)
    BY <1>8, ReadmitDoes
<1>9. ASSUME NEW c \in Clients, AttachOk(c) PROVE AttachOkEffect(c)
    BY <1>9, AttachOkDoes
<1>10. ASSUME NEW c \in Clients, HandshakeFails(c) PROVE HandshakeFailsEffect(c)
    BY <1>10, HandshakeFailsDoes
<1>11. ASSUME NEW c \in Clients, Detach(c) PROVE DetachEffect(c)
    BY <1>11, DetachDoes
<1>12. ASSUME NEW c \in Clients, Prompt(c) PROVE PromptEffect(c)
    BY <1>12, PromptDoes
<1>13. ASSUME NEW c \in Clients, StopGate(c) PROVE StopGateEffect(c)
    BY <1>13, StopGateDoes
<1>14. ASSUME NEW c \in Clients, StopAdmission(c) PROVE StopAdmissionEffect(c)
    BY <1>14, StopAdmissionDoes
<1>15. ASSUME NEW c \in Clients, StopDelete(c) PROVE StopDeleteEffect(c)
    BY <1>15, StopDeleteDoes
<1>16. ASSUME NEW e \in Entries, BeginTurn(e) PROVE BeginTurnEffect(e)
    BY <1>16, BeginTurnDoes
<1>17. ASSUME NEW e \in Entries, EndTurn(e) PROVE EndTurnEffect(e)
    BY <1>17, EndTurnDoes
<1>18. ASSUME NEW e \in Entries, LateSave(e) PROVE LateSaveEffect(e)
    BY <1>18, LateSaveDoes
<1>19. ASSUME NEW e \in Entries, TimePasses(e) PROVE TimePassesEffect(e)
    BY <1>19, TimePassesDoes
<1>20. ASSUME NEW e \in Entries, EndAdmission(e) PROVE EndAdmissionEffect(e)
    BY <1>20, EndAdmissionDoes
<1>21. ASSUME NEW e \in Entries, EndSave(e) PROVE EndSaveEffect(e)
    BY <1>21, EndSaveDoes
<1>22. ASSUME SweepScan PROVE SweepScanEffect
    BY <1>22, SweepScanDoes
<1>23. ASSUME SweepGate PROVE SweepGateEffect
    BY <1>23, SweepGateDoes
<1>24. ASSUME SweepNext PROVE SweepNextEffect
    BY <1>24, SweepNextDoes
<1>25. ASSUME SweepCheck PROVE SweepCheckEffect
    BY <1>25, SweepCheckDoes
<1>26. ASSUME SweepSaved PROVE SweepSavedEffect
    BY <1>26, SweepSavedDoes
<1>27. ASSUME ShutdownBegin PROVE ShutdownBeginEffect
    BY <1>27, ShutdownBeginDoes
<1>28. ASSUME ShutdownGate PROVE ShutdownGateEffect
    BY <1>28, ShutdownGateDoes
<1>29. ASSUME ShutdownDone PROVE ShutdownDoneEffect
    BY <1>29, ShutdownDoneDoes
<1> QED
    BY <1>1, <1>2, <1>3, <1>4, <1>5, <1>6, <1>7, <1>8, <1>9, <1>10, <1>11, <1>12, <1>13, <1>14,
        <1>15,
       <1>16, <1>17, <1>18, <1>19, <1>20, <1>21, <1>22, <1>23, <1>24, <1>25, <1>26, <1>27, <1>28, <1>29
    DEF Effect, Next, ClientStep, EntryStep

\* The facts about the types that the steps need.
LEMMA Facts ==
    ASSUME TypeOK
    PROVE  /\ Used \subseteq Entries /\ NoEntry \notin Entries /\ NoEntry \notin Ids /\ used \in Nat
           /\ \A i \in Ids : registry[i] \in Entries \cup {NoEntry}
           /\ \A e \in Entries : entries[e].saves \in Nat
           /\ \A i \in Ids : late[i] \in Nat
<1>1. Used \subseteq Entries /\ used \in Nat
    BY DaemonAssumption DEF TypeOK, Used, Entries
<1>2. \A e \in Entries : entries[e].saves \in Nat
    BY DEF TypeOK, EntryRecords
<1> QED
    BY <1>1, <1>2, DaemonAssumption DEF TypeOK, Entries

\* Where a connection may be, for the provers to compare without unfolding the sets.
LEMMA Places ==
    /\ {"handshake", "fitting", "fitted", "serving", "stopping", "deleting"} \subseteq Inside
    /\ \A l \in {"away", "reserve", "load", "register", "attach", "admit"} : l \notin Inside
    /\ {"load", "register"} \subseteq Opening
    /\ \A l \in {"away", "reserve", "attach", "admit", "handshake", "fitting", "fitted", "serving",
                 "stopping", "deleting"} : l \notin Opening
    BY DEF Inside, Opening

-----------------------------------------------------------------------------
(* The steps, one fact at a time.  Each lemma has a leaf for every group of *)
(* steps that are alike in what they do to it.                              *)

\* What is known of the entries in use.
Bounds ==
    /\ Used \subseteq Entries /\ used + 1 \notin Used /\ NoEntry \notin Entries /\ NoEntry \notin Ids
    /\ \A i \in Ids : registry[i] \in Entries \cup {NoEntry}
    /\ used' = used => Used' = Used
    /\ used' = used + 1 => Used' = Used \cup {used + 1}

\* The facts of the types that every step lemma reads.
LEMMA BoundsHold ==
    ASSUME TypeOK
    PROVE  Bounds
    BY Facts DEF Bounds, Used

\* Whatever a step is about is in use.
Usage ==
    /\ \A e \in Used : entries[e].id \in Ids
    /\ \A e \in Entries : entries[e].queued # {} \/ entries[e].turn # 0 \/ entries[e].saves # 0 => e \in Used
    /\ sweep.pc \in {"admission", "save"} => sweep.ent \in Used
    /\ \A e \in Entries : ending[e] \in {"admission", "wait"} => e \in Used
    /\ \A d \in Clients : conn[d].pc \in Inside \cup {"admit"} => conn[d].ent \in Used
    /\ \A d \in Clients : conn[d].ent # NoEntry => conn[d].ent \in Used /\ entries[conn[d].ent].id = conn[d].id
    /\ \A d \in Clients : conn[d].pc # "away" => conn[d].id \in Ids
    /\ \A d \in Clients : conn[d].pc \in {"reserve", "load"} => conn[d].ent = NoEntry
    /\ \A d \in Clients : conn[d].pc \in Opening => registry[conn[d].id] = NoEntry
    /\ \A i \in Ids : registry[i] # NoEntry =>
         registry[i] \in Used /\ entries[registry[i]].id = i /\ entries[registry[i]].end = "no"

\* Whatever names an entry names one in use.
LEMMA UsageHolds ==
    ASSUME TypeOK, ConnInv, EntryInv, HeldInv
    PROVE  Usage
    BY Facts DEF Usage, ConnInv, EntryInv, NamedInv, FreshInv, RegisteredInv, HeldInv,
        SweepHeld, EndingHeld

\* The tasks are different ones.
LEMMA TasksDiffer ==
    /\ \A c \in Clients : c # Free /\ c # Sweeper /\ c # Shutdown
    /\ Sweeper # Shutdown /\ Free # Sweeper /\ Free # Shutdown
    BY DaemonAssumption

USE DEF Touched, LeftBy, RolledBack, TakenDown, Saved, FinallySaved, KeepsFate, KeepsWork, KeepsData,
        Moved, Goes, GoesAway

\* A reservation is refused for an id that is being opened.
LEMMA ConnStep ==
    ASSUME TypeOK, ConnInv, EntryInv, Effect
    PROVE  ConnInv'
<1>1. Bounds
    BY BoundsHold
<1>2. \A c \in Clients : conn[c].pc \in Opening => conn[c].id \in creating
    BY DEF TypeOK, Opening
<1> USE Places
<1> USE <1>1 DEF Bounds, ConnInv, EntryInv, NamedInv, RegisteredInv, KeepsId, RegistryIs, IsNew
<1>6. ASSUME NEW c \in Clients, \/ ConnectEffect(c) \/ LoadEffect(c) \/ RegisterEffect(c)
                                \/ AttachEffect(c)
      PROVE  ConnInv'
    BY <1>6 DEF ConnectEffect, LoadEffect, RegisterEffect, AttachEffect
<1>7. ASSUME NEW c \in Clients, ReserveEffect(c) PROVE ConnInv'
    BY <1>7, <1>2 DEF ReserveEffect, Registered, Refused
<1>8. ASSUME NEW c \in Clients, \/ AdmitEffect(c) \/ FitEffect(c) \/ ReadmitEffect(c)
                                \/ AttachOkEffect(c) \/ HandshakeFailsEffect(c)
      PROVE  ConnInv'
    BY <1>8 DEF AdmitEffect, FitEffect, ReadmitEffect, AttachOkEffect, HandshakeFailsEffect
<1>9. ASSUME NEW c \in Clients, \/ DetachEffect(c) \/ PromptEffect(c) \/ StopGateEffect(c)
                                \/ StopAdmissionEffect(c) \/ StopDeleteEffect(c)
      PROVE  ConnInv'
    BY <1>9 DEF DetachEffect, PromptEffect, StopGateEffect, StopAdmissionEffect, StopDeleteEffect
<1>10. ASSUME NEW e \in Entries, \/ BeginTurnEffect(e) \/ EndTurnEffect(e) \/ LateSaveEffect(e)
                                 \/ TimePassesEffect(e) \/ EndAdmissionEffect(e) \/ EndSaveEffect(e)
       PROVE  ConnInv'
    BY <1>10 DEF BeginTurnEffect, EndTurnEffect, LateSaveEffect, TimePassesEffect,
        EndAdmissionEffect, EndSaveEffect
<1>11. ASSUME \/ SweepScanEffect \/ SweepGateEffect \/ SweepNextEffect \/ SweepCheckEffect
              \/ SweepSavedEffect \/ ShutdownBeginEffect \/ ShutdownGateEffect
              \/ ShutdownDoneEffect
       PROVE  ConnInv'
    BY <1>11 DEF SweepScanEffect, SweepGateEffect, SweepNextEffect, SweepCheckEffect,
        SweepSavedEffect, ShutdownBeginEffect, ShutdownGateEffect, ShutdownDoneEffect
<1>12. ASSUME UNCHANGED vars PROVE ConnInv'
    BY <1>12 DEF vars, counters
<1> HIDE DEF ConnInv, EntryInv, NamedInv, RegisteredInv
<1> QED
    BY <1>6, <1>7, <1>8, <1>9, <1>10, <1>11, <1>12 DEF Effect

\* NamedInv is kept: an entry gets its id when it comes into use.
LEMMA NamedStep ==
    ASSUME TypeOK, ConnInv, NamedInv, Effect
    PROVE  NamedInv'
<1>1. Bounds
    BY BoundsHold
<1> USE <1>1 DEF Bounds, ConnInv, NamedInv, KeepsId, IsNew
<1>6. ASSUME NEW c \in Clients, \/ ConnectEffect(c) \/ ReserveEffect(c) \/ LoadEffect(c)
                                \/ RegisterEffect(c) \/ AttachEffect(c)
      PROVE  NamedInv'
    BY <1>6 DEF ConnectEffect, ReserveEffect, LoadEffect, RegisterEffect, AttachEffect
<1>7. ASSUME NEW c \in Clients, \/ AdmitEffect(c) \/ FitEffect(c) \/ ReadmitEffect(c)
                                \/ AttachOkEffect(c) \/ HandshakeFailsEffect(c)
      PROVE  NamedInv'
    BY <1>7 DEF AdmitEffect, FitEffect, ReadmitEffect, AttachOkEffect, HandshakeFailsEffect
<1>8. ASSUME NEW c \in Clients, \/ DetachEffect(c) \/ PromptEffect(c) \/ StopGateEffect(c)
                                \/ StopAdmissionEffect(c) \/ StopDeleteEffect(c)
      PROVE  NamedInv'
    BY <1>8 DEF DetachEffect, PromptEffect, StopGateEffect, StopAdmissionEffect, StopDeleteEffect
<1>9. ASSUME NEW e \in Entries, \/ BeginTurnEffect(e) \/ EndTurnEffect(e) \/ LateSaveEffect(e)
                                \/ TimePassesEffect(e) \/ EndAdmissionEffect(e) \/ EndSaveEffect(e)
      PROVE  NamedInv'
    BY <1>9 DEF BeginTurnEffect, EndTurnEffect, LateSaveEffect, TimePassesEffect,
        EndAdmissionEffect, EndSaveEffect
<1>10. ASSUME \/ SweepScanEffect \/ SweepGateEffect \/ SweepNextEffect \/ SweepCheckEffect
              \/ SweepSavedEffect \/ ShutdownBeginEffect \/ ShutdownGateEffect
              \/ ShutdownDoneEffect
       PROVE  NamedInv'
    BY <1>10 DEF SweepScanEffect, SweepGateEffect, SweepNextEffect, SweepCheckEffect,
        SweepSavedEffect, ShutdownBeginEffect, ShutdownGateEffect, ShutdownDoneEffect
<1>11. ASSUME UNCHANGED vars PROVE NamedInv'
    BY <1>11 DEF vars, counters
<1> HIDE DEF ConnInv, NamedInv
<1> QED
    BY <1>6, <1>7, <1>8, <1>9, <1>10, <1>11 DEF Effect

\* FreshInv is kept: no action reaches an entry before it is in use.
LEMMA FreshStep ==
    ASSUME TypeOK, ConnInv, FreshInv, RegisteredInv, HeldInv, Effect
    PROVE  FreshInv'
<1>1. Bounds
    BY BoundsHold
<1> USE Places
<1> USE <1>1 DEF Bounds, ConnInv, FreshInv, RegisteredInv, HeldInv, SweepHeld, EndingHeld,
        KeepsId, KeepsDeleted, AlsoDeleted, KeepsQueue, QueueIs, KeepsTurn, TurnIs, KeepsSaves,
        SavesIs, KeepsEnd, EndIs, IsNew
<1>6. ASSUME NEW c \in Clients, \/ ConnectEffect(c) \/ ReserveEffect(c) \/ LoadEffect(c)
                                \/ RegisterEffect(c) \/ AttachEffect(c)
      PROVE  FreshInv'
    BY <1>6 DEF ConnectEffect, ReserveEffect, LoadEffect, RegisterEffect, AttachEffect
<1>7. ASSUME NEW c \in Clients, \/ AdmitEffect(c) \/ FitEffect(c) \/ ReadmitEffect(c)
      PROVE  FreshInv'
    BY <1>7 DEF AdmitEffect, FitEffect, ReadmitEffect
<1>8. ASSUME NEW c \in Clients, \/ AttachOkEffect(c) \/ HandshakeFailsEffect(c)
      PROVE  FreshInv'
    BY <1>8 DEF AttachOkEffect, HandshakeFailsEffect
<1>9. ASSUME NEW c \in Clients, \/ DetachEffect(c) \/ PromptEffect(c) \/ StopGateEffect(c)
                                \/ StopAdmissionEffect(c) \/ StopDeleteEffect(c)
      PROVE  FreshInv'
    BY <1>9 DEF DetachEffect, PromptEffect, StopGateEffect, StopAdmissionEffect, StopDeleteEffect
<1>10. ASSUME NEW e \in Entries, \/ BeginTurnEffect(e) \/ EndTurnEffect(e) \/ LateSaveEffect(e)
                                 \/ TimePassesEffect(e) \/ EndAdmissionEffect(e) \/ EndSaveEffect(e)
       PROVE  FreshInv'
    BY <1>10 DEF BeginTurnEffect, EndTurnEffect, LateSaveEffect, TimePassesEffect,
        EndAdmissionEffect, EndSaveEffect
<1>11. ASSUME \/ SweepScanEffect \/ SweepGateEffect \/ SweepNextEffect \/ SweepCheckEffect
              \/ SweepSavedEffect \/ ShutdownBeginEffect \/ ShutdownGateEffect
              \/ ShutdownDoneEffect
       PROVE  FreshInv'
    BY <1>11 DEF SweepScanEffect, SweepGateEffect, SweepNextEffect, SweepCheckEffect,
        SweepSavedEffect, ShutdownBeginEffect, ShutdownGateEffect, ShutdownDoneEffect
<1>12. ASSUME UNCHANGED vars PROVE FreshInv'
    BY <1>12 DEF vars, counters
<1> HIDE DEF ConnInv, FreshInv, RegisteredInv, HeldInv, SweepHeld, EndingHeld
<1> QED
    BY <1>6, <1>7, <1>8, <1>9, <1>10, <1>11, <1>12 DEF Effect

\* RegisteredInv is kept: what stops an entry unregisters it in the same step.
LEMMA RegisteredStep ==
    ASSUME TypeOK, ConnInv, FreshInv, RegisteredInv, LoadedInv, SweepHeld, Effect
    PROVE  RegisteredInv'
<1>1. Bounds
    BY BoundsHold
<1> USE Places
<1> USE <1>1 DEF Bounds, ConnInv, RegisteredInv, LoadedInv, Loaded, Fresh, SweepHeld, KeepsId,
        RegistryIs, KeepsDeleted, AlsoDeleted, KeepsStop, AlsoStopped, KeepsEnd, EndIs, IsNew
<1>6. ASSUME NEW c \in Clients, \/ ConnectEffect(c) \/ ReserveEffect(c) \/ LoadEffect(c)
                                \/ RegisterEffect(c) \/ AttachEffect(c)
      PROVE  RegisteredInv'
    BY <1>6 DEF ConnectEffect, ReserveEffect, LoadEffect, RegisterEffect, AttachEffect
<1>7. ASSUME NEW c \in Clients, \/ AdmitEffect(c) \/ FitEffect(c) \/ ReadmitEffect(c)
      PROVE  RegisteredInv'
    BY <1>7 DEF AdmitEffect, FitEffect, ReadmitEffect
<1>8. ASSUME NEW c \in Clients, \/ AttachOkEffect(c) \/ HandshakeFailsEffect(c)
      PROVE  RegisteredInv'
    BY <1>8 DEF AttachOkEffect, HandshakeFailsEffect
<1>9. ASSUME NEW c \in Clients, \/ DetachEffect(c) \/ PromptEffect(c) \/ StopGateEffect(c)
                                \/ StopAdmissionEffect(c) \/ StopDeleteEffect(c)
      PROVE  RegisteredInv'
    BY <1>9 DEF DetachEffect, PromptEffect, StopGateEffect, StopAdmissionEffect, StopDeleteEffect
<1>10. ASSUME NEW e \in Entries, \/ BeginTurnEffect(e) \/ EndTurnEffect(e) \/ LateSaveEffect(e)
                                 \/ TimePassesEffect(e) \/ EndAdmissionEffect(e) \/ EndSaveEffect(e)
       PROVE  RegisteredInv'
    BY <1>10 DEF BeginTurnEffect, EndTurnEffect, LateSaveEffect, TimePassesEffect,
        EndAdmissionEffect, EndSaveEffect
<1>11. ASSUME \/ SweepScanEffect \/ SweepGateEffect \/ SweepNextEffect \/ SweepCheckEffect
              \/ SweepSavedEffect \/ ShutdownBeginEffect \/ ShutdownGateEffect
              \/ ShutdownDoneEffect
       PROVE  RegisteredInv'
    BY <1>11 DEF SweepScanEffect, SweepGateEffect, SweepNextEffect, SweepCheckEffect,
        SweepSavedEffect, ShutdownBeginEffect, ShutdownGateEffect, ShutdownDoneEffect
<1>12. ASSUME UNCHANGED vars PROVE RegisteredInv'
    BY <1>12 DEF vars, counters
<1> HIDE DEF ConnInv, RegisteredInv, LoadedInv, Loaded, Fresh, SweepHeld
<1> QED
    BY <1>6, <1>7, <1>8, <1>9, <1>10, <1>11, <1>12 DEF Effect

\* GateInv is kept: the gate goes with the place of its holder.
LEMMA GateStep ==
    ASSUME TypeOK, GateInv, Effect
    PROVE  GateInv'
<1>1. Bounds
    BY BoundsHold
<1> USE TasksDiffer
<1> USE <1>1 DEF Bounds, GateInv, KeepsEnd, EndIs, EndingIs, SweepGoes, IsNew
<1>6. ASSUME NEW c \in Clients, \/ ConnectEffect(c) \/ ReserveEffect(c) \/ LoadEffect(c)
                                \/ RegisterEffect(c) \/ AttachEffect(c)
      PROVE  GateInv'
    BY <1>6 DEF ConnectEffect, ReserveEffect, LoadEffect, RegisterEffect, AttachEffect
<1>7. ASSUME NEW c \in Clients, \/ AdmitEffect(c) \/ FitEffect(c) \/ ReadmitEffect(c)
                                \/ AttachOkEffect(c) \/ HandshakeFailsEffect(c)
      PROVE  GateInv'
    BY <1>7 DEF AdmitEffect, FitEffect, ReadmitEffect, AttachOkEffect, HandshakeFailsEffect
<1>8. ASSUME NEW c \in Clients, \/ DetachEffect(c) \/ PromptEffect(c) \/ StopGateEffect(c)
                                \/ StopAdmissionEffect(c) \/ StopDeleteEffect(c)
      PROVE  GateInv'
    BY <1>8 DEF DetachEffect, PromptEffect, StopGateEffect, StopAdmissionEffect, StopDeleteEffect
<1>9. ASSUME NEW e \in Entries, \/ BeginTurnEffect(e) \/ EndTurnEffect(e) \/ LateSaveEffect(e)
                                \/ TimePassesEffect(e) \/ EndAdmissionEffect(e) \/ EndSaveEffect(e)
      PROVE  GateInv'
    BY <1>9 DEF BeginTurnEffect, EndTurnEffect, LateSaveEffect, TimePassesEffect,
        EndAdmissionEffect, EndSaveEffect
<1>10. ASSUME \/ SweepScanEffect \/ SweepGateEffect \/ SweepNextEffect \/ SweepCheckEffect
              \/ SweepSavedEffect \/ ShutdownBeginEffect \/ ShutdownGateEffect
              \/ ShutdownDoneEffect
       PROVE  GateInv'
    BY <1>10 DEF SweepScanEffect, SweepGateEffect, SweepNextEffect, SweepCheckEffect,
        SweepSavedEffect, ShutdownBeginEffect, ShutdownGateEffect, ShutdownDoneEffect
<1>11. ASSUME UNCHANGED vars PROVE GateInv'
    BY <1>11 DEF vars, counters
<1> HIDE DEF GateInv
<1> QED
    BY <1>6, <1>7, <1>8, <1>9, <1>10, <1>11 DEF Effect

\* Stop and shutdown need the gate that the sweep holds.
LEMMA SweepHeldStep ==
    ASSUME TypeOK, EntryInv, GateInv, SweepHeld, Effect
    PROVE  SweepHeld'
<1>1. Bounds
    BY BoundsHold
<1> USE TasksDiffer
<1> USE <1>1 DEF Bounds, EntryInv, RegisteredInv, GateInv, SweepHeld, IsRegistered, RegistryIs,
        KeepsDeleted, AlsoDeleted, SweepGoes, IsNew
<1>6. ASSUME NEW c \in Clients, \/ ConnectEffect(c) \/ ReserveEffect(c) \/ LoadEffect(c)
                                \/ RegisterEffect(c) \/ AttachEffect(c)
      PROVE  SweepHeld'
    BY <1>6 DEF ConnectEffect, ReserveEffect, LoadEffect, RegisterEffect, AttachEffect
<1>7. ASSUME NEW c \in Clients, \/ AdmitEffect(c) \/ FitEffect(c) \/ ReadmitEffect(c)
                                \/ AttachOkEffect(c) \/ HandshakeFailsEffect(c)
      PROVE  SweepHeld'
    BY <1>7 DEF AdmitEffect, FitEffect, ReadmitEffect, AttachOkEffect, HandshakeFailsEffect
<1>8. ASSUME NEW c \in Clients, \/ DetachEffect(c) \/ PromptEffect(c) \/ StopGateEffect(c)
                                \/ StopAdmissionEffect(c) \/ StopDeleteEffect(c)
      PROVE  SweepHeld'
    BY <1>8 DEF DetachEffect, PromptEffect, StopGateEffect, StopAdmissionEffect, StopDeleteEffect
<1>9. ASSUME NEW e \in Entries, \/ BeginTurnEffect(e) \/ EndTurnEffect(e) \/ LateSaveEffect(e)
                                \/ TimePassesEffect(e) \/ EndAdmissionEffect(e) \/ EndSaveEffect(e)
      PROVE  SweepHeld'
    BY <1>9 DEF BeginTurnEffect, EndTurnEffect, LateSaveEffect, TimePassesEffect,
        EndAdmissionEffect, EndSaveEffect
<1>10. ASSUME \/ SweepScanEffect \/ SweepGateEffect \/ SweepNextEffect \/ SweepCheckEffect
              \/ SweepSavedEffect \/ ShutdownBeginEffect \/ ShutdownGateEffect
              \/ ShutdownDoneEffect
       PROVE  SweepHeld'
    BY <1>10 DEF SweepScanEffect, SweepGateEffect, SweepNextEffect, SweepCheckEffect,
        SweepSavedEffect, ShutdownBeginEffect, ShutdownGateEffect, ShutdownDoneEffect
<1>11. ASSUME UNCHANGED vars PROVE SweepHeld'
    BY <1>11 DEF vars, counters
<1> HIDE DEF EntryInv, RegisteredInv, GateInv, SweepHeld, IsRegistered
<1> QED
    BY <1>6, <1>7, <1>8, <1>9, <1>10, <1>11 DEF Effect

\* EndingHeld is kept: a shutdown that holds the gate keeps its entries.
LEMMA EndingHeldStep ==
    ASSUME TypeOK, EntryInv, GateInv, EndingHeld, Effect
    PROVE  EndingHeld'
<1>1. Bounds
    BY BoundsHold
<1> USE TasksDiffer
<1> USE <1>1 DEF Bounds, EntryInv, RegisteredInv, GateInv, EndingHeld, IsRegistered, RegistryIs,
        KeepsDeleted, AlsoDeleted, EndingIs, IsNew
<1>6. ASSUME NEW c \in Clients, \/ ConnectEffect(c) \/ ReserveEffect(c) \/ LoadEffect(c)
                                \/ RegisterEffect(c) \/ AttachEffect(c)
      PROVE  EndingHeld'
    BY <1>6 DEF ConnectEffect, ReserveEffect, LoadEffect, RegisterEffect, AttachEffect
<1>7. ASSUME NEW c \in Clients, \/ AdmitEffect(c) \/ FitEffect(c) \/ ReadmitEffect(c)
                                \/ AttachOkEffect(c) \/ HandshakeFailsEffect(c)
      PROVE  EndingHeld'
    BY <1>7 DEF AdmitEffect, FitEffect, ReadmitEffect, AttachOkEffect, HandshakeFailsEffect
<1>8. ASSUME NEW c \in Clients, \/ DetachEffect(c) \/ PromptEffect(c) \/ StopGateEffect(c)
                                \/ StopAdmissionEffect(c) \/ StopDeleteEffect(c)
      PROVE  EndingHeld'
    BY <1>8 DEF DetachEffect, PromptEffect, StopGateEffect, StopAdmissionEffect, StopDeleteEffect
<1>9. ASSUME NEW e \in Entries, \/ BeginTurnEffect(e) \/ EndTurnEffect(e) \/ LateSaveEffect(e)
                                \/ TimePassesEffect(e) \/ EndAdmissionEffect(e) \/ EndSaveEffect(e)
      PROVE  EndingHeld'
    BY <1>9 DEF BeginTurnEffect, EndTurnEffect, LateSaveEffect, TimePassesEffect,
        EndAdmissionEffect, EndSaveEffect
<1>10. ASSUME \/ SweepScanEffect \/ SweepGateEffect \/ SweepNextEffect \/ SweepCheckEffect
              \/ SweepSavedEffect \/ ShutdownBeginEffect \/ ShutdownGateEffect
              \/ ShutdownDoneEffect
       PROVE  EndingHeld'
    BY <1>10 DEF SweepScanEffect, SweepGateEffect, SweepNextEffect, SweepCheckEffect,
        SweepSavedEffect, ShutdownBeginEffect, ShutdownGateEffect, ShutdownDoneEffect
<1>11. ASSUME UNCHANGED vars PROVE EndingHeld'
    BY <1>11 DEF vars, counters
<1> HIDE DEF EntryInv, RegisteredInv, GateInv, EndingHeld, IsRegistered
<1> QED
    BY <1>6, <1>7, <1>8, <1>9, <1>10, <1>11 DEF Effect

\* StopHeld is kept: so does a stop.
LEMMA StopHeldStep ==
    ASSUME TypeOK, ConnInv, EntryInv, GateInv, StopHeld, Effect
    PROVE  StopHeld'
<1>1. Bounds
    BY BoundsHold
<1> USE TasksDiffer
<1> USE Places
<1> USE <1>1 DEF Bounds, ConnInv, EntryInv, RegisteredInv, GateInv, StopHeld, IsRegistered,
        RegistryIs, KeepsDeleted, AlsoDeleted, IsNew
<1>6. ASSUME NEW c \in Clients, \/ ConnectEffect(c) \/ ReserveEffect(c) \/ LoadEffect(c)
                                \/ RegisterEffect(c) \/ AttachEffect(c)
      PROVE  StopHeld'
    BY <1>6 DEF ConnectEffect, ReserveEffect, LoadEffect, RegisterEffect, AttachEffect
<1>7. ASSUME NEW c \in Clients, \/ AdmitEffect(c) \/ FitEffect(c) \/ ReadmitEffect(c)
                                \/ AttachOkEffect(c) \/ HandshakeFailsEffect(c)
      PROVE  StopHeld'
    BY <1>7 DEF AdmitEffect, FitEffect, ReadmitEffect, AttachOkEffect, HandshakeFailsEffect
<1>8. ASSUME NEW c \in Clients, \/ DetachEffect(c) \/ PromptEffect(c) \/ StopGateEffect(c)
                                \/ StopAdmissionEffect(c) \/ StopDeleteEffect(c)
      PROVE  StopHeld'
    BY <1>8 DEF DetachEffect, PromptEffect, StopGateEffect, StopAdmissionEffect, StopDeleteEffect
<1>9. ASSUME NEW e \in Entries, \/ BeginTurnEffect(e) \/ EndTurnEffect(e) \/ LateSaveEffect(e)
                                \/ TimePassesEffect(e) \/ EndAdmissionEffect(e) \/ EndSaveEffect(e)
      PROVE  StopHeld'
    BY <1>9 DEF BeginTurnEffect, EndTurnEffect, LateSaveEffect, TimePassesEffect,
        EndAdmissionEffect, EndSaveEffect
<1>10. ASSUME \/ SweepScanEffect \/ SweepGateEffect \/ SweepNextEffect \/ SweepCheckEffect
              \/ SweepSavedEffect \/ ShutdownBeginEffect \/ ShutdownGateEffect
              \/ ShutdownDoneEffect
       PROVE  StopHeld'
    BY <1>10 DEF SweepScanEffect, SweepGateEffect, SweepNextEffect, SweepCheckEffect,
        SweepSavedEffect, ShutdownBeginEffect, ShutdownGateEffect, ShutdownDoneEffect
<1>11. ASSUME UNCHANGED vars PROVE StopHeld'
    BY <1>11 DEF vars, counters
<1> HIDE DEF ConnInv, EntryInv, RegisteredInv, GateInv, StopHeld, IsRegistered
<1> QED
    BY <1>6, <1>7, <1>8, <1>9, <1>10, <1>11 DEF Effect

\* The entry that stop_session finds under the id is the one its client is in.
LEMMA InsideStep ==
    ASSUME TypeOK, ConnInv, EntryInv, OneActive, InsideInv, Effect
    PROVE  InsideInv'
<1>1. Bounds
    BY BoundsHold
<1> USE Places
<1> USE <1>1 DEF Bounds, ConnInv, EntryInv, RegisteredInv, InsideInv, StillIdle, KeepsClients,
        ClientsAre, ClientsOut, KeepsDeleted, AlsoDeleted, KeepsEnd, EndIs, IsNew
<1>6. ASSUME NEW c \in Clients, \/ ConnectEffect(c) \/ ReserveEffect(c) \/ LoadEffect(c)
                                \/ RegisterEffect(c) \/ AttachEffect(c)
      PROVE  InsideInv'
    BY <1>6 DEF ConnectEffect, ReserveEffect, LoadEffect, RegisterEffect, AttachEffect
<1>7. ASSUME NEW c \in Clients, \/ AdmitEffect(c) \/ FitEffect(c) \/ ReadmitEffect(c)
                                \/ AttachOkEffect(c) \/ HandshakeFailsEffect(c)
      PROVE  InsideInv'
    BY <1>7 DEF AdmitEffect, FitEffect, ReadmitEffect, AttachOkEffect, HandshakeFailsEffect
<1>8. ASSUME NEW c \in Clients, \/ DetachEffect(c) \/ PromptEffect(c) \/ StopAdmissionEffect(c)
                                \/ StopDeleteEffect(c)
      PROVE  InsideInv'
    BY <1>8 DEF DetachEffect, PromptEffect, StopAdmissionEffect, StopDeleteEffect
<1>9. ASSUME NEW c \in Clients, StopGateEffect(c) PROVE InsideInv'
    BY <1>9 DEF StopGateEffect, OneActive, Inert, Silent, Quiet
<1>10. ASSUME NEW e \in Entries, \/ BeginTurnEffect(e) \/ EndTurnEffect(e) \/ LateSaveEffect(e)
                                 \/ TimePassesEffect(e) \/ EndAdmissionEffect(e) \/ EndSaveEffect(e)
       PROVE  InsideInv'
    BY <1>10 DEF BeginTurnEffect, EndTurnEffect, LateSaveEffect, TimePassesEffect,
        EndAdmissionEffect, EndSaveEffect
<1>11. ASSUME \/ SweepScanEffect \/ SweepGateEffect \/ SweepNextEffect \/ SweepCheckEffect
              \/ SweepSavedEffect \/ ShutdownBeginEffect \/ ShutdownGateEffect
              \/ ShutdownDoneEffect
       PROVE  InsideInv'
    BY <1>11 DEF SweepScanEffect, SweepGateEffect, SweepNextEffect, SweepCheckEffect,
        SweepSavedEffect, ShutdownBeginEffect, ShutdownGateEffect, ShutdownDoneEffect
<1>12. ASSUME UNCHANGED vars PROVE InsideInv'
    BY <1>12 DEF vars, counters
<1> HIDE DEF ConnInv, EntryInv, RegisteredInv, InsideInv, StillIdle
<1> QED
    BY <1>6, <1>7, <1>8, <1>9, <1>10, <1>11, <1>12 DEF Effect

\* AdmitInv is kept: an entry a connection was handed was registered, or it was stopped.
LEMMA AdmitStep ==
    ASSUME TypeOK, ConnInv, EntryInv, AdmitInv, Effect
    PROVE  AdmitInv'
<1>1. Bounds
    BY BoundsHold
<1> USE Places
<1> USE <1>1 DEF Bounds, ConnInv, EntryInv, RegisteredInv, AdmitInv, IsRegistered, RegistryIs,
        KeepsStop, AlsoStopped, IsNew
<1>6. ASSUME NEW c \in Clients, \/ ConnectEffect(c) \/ ReserveEffect(c) \/ LoadEffect(c)
                                \/ RegisterEffect(c) \/ AttachEffect(c)
      PROVE  AdmitInv'
    BY <1>6 DEF ConnectEffect, ReserveEffect, LoadEffect, RegisterEffect, AttachEffect
<1>7. ASSUME NEW c \in Clients, \/ AdmitEffect(c) \/ FitEffect(c) \/ ReadmitEffect(c)
                                \/ AttachOkEffect(c) \/ HandshakeFailsEffect(c)
      PROVE  AdmitInv'
    BY <1>7 DEF AdmitEffect, FitEffect, ReadmitEffect, AttachOkEffect, HandshakeFailsEffect
<1>8. ASSUME NEW c \in Clients, \/ DetachEffect(c) \/ PromptEffect(c) \/ StopGateEffect(c)
                                \/ StopAdmissionEffect(c) \/ StopDeleteEffect(c)
      PROVE  AdmitInv'
    BY <1>8 DEF DetachEffect, PromptEffect, StopGateEffect, StopAdmissionEffect, StopDeleteEffect
<1>9. ASSUME NEW e \in Entries, \/ BeginTurnEffect(e) \/ EndTurnEffect(e) \/ LateSaveEffect(e)
                                \/ TimePassesEffect(e) \/ EndAdmissionEffect(e) \/ EndSaveEffect(e)
      PROVE  AdmitInv'
    BY <1>9 DEF BeginTurnEffect, EndTurnEffect, LateSaveEffect, TimePassesEffect,
        EndAdmissionEffect, EndSaveEffect
<1>10. ASSUME \/ SweepScanEffect \/ SweepGateEffect \/ SweepNextEffect \/ SweepCheckEffect
              \/ SweepSavedEffect \/ ShutdownBeginEffect \/ ShutdownGateEffect
              \/ ShutdownDoneEffect
       PROVE  AdmitInv'
    BY <1>10 DEF SweepScanEffect, SweepGateEffect, SweepNextEffect, SweepCheckEffect,
        SweepSavedEffect, ShutdownBeginEffect, ShutdownGateEffect, ShutdownDoneEffect
<1>11. ASSUME UNCHANGED vars PROVE AdmitInv'
    BY <1>11 DEF vars, counters
<1> HIDE DEF ConnInv, EntryInv, RegisteredInv, AdmitInv, IsRegistered
<1> QED
    BY <1>6, <1>7, <1>8, <1>9, <1>10, <1>11 DEF Effect

\* An entry nobody is about, in the terms of the steps.
Untouched(f) ==
    /\ f \in Entries /\ f # used + 1 /\ f \in Used
    /\ \A i \in Ids : registry[i] # f
    /\ entries[f].queued = {} /\ entries[f].turn = 0
    /\ \A d \in Clients : conn[d].pc \in Inside => conn[d].ent # f
    /\ \A d \in Clients : conn[d].pc = "admit" /\ conn[d].ent = f => entries[f].stopped
    /\ sweep.pc \in {"admission", "save"} => sweep.ent # f
    /\ ending[f] \notin {"admission", "wait"}
    /\ \A d \in Clients : /\ conn[d].pc # "away" => conn[d].id \in Ids
                          /\ conn[d].pc = "load" => conn[d].ent = NoEntry

\* The open that has loaded the entry f goes on.
GoesOn(f) == \E d \in Clients : Loaded(d) /\ conn[d].ent = f /\ ~Loaded(d)'

\* What can happen to a quiet entry: its core, its fate, its work, its saves, its place.
LEMMA QuietData ==
    ASSUME TypeOK, ConnInv, EntryInv, NEW f \in Used, Quiet(f), Effect
    PROVE  entries'[f].id = entries[f].id /\ entries'[f].mem = entries[f].mem
<1> DEFINE Goal == entries'[f].id = entries[f].id /\ entries'[f].mem = entries[f].mem
<1>1. Bounds
    BY BoundsHold
<1>2. Untouched(f)
    BY <1>1 DEF Bounds, Quiet, Untouched, ConnInv
<1> USE <1>2, Places DEF Untouched
<1> USE <1>1 DEF Bounds, KeepsId, KeepsMem, MemIs
<1>6. ASSUME NEW c \in Clients, \/ ConnectEffect(c) \/ ReserveEffect(c) \/ LoadEffect(c)
                                \/ RegisterEffect(c) \/ AttachEffect(c)
      PROVE  Goal
    BY <1>6 DEF ConnectEffect, ReserveEffect, LoadEffect, RegisterEffect, AttachEffect
<1>7. ASSUME NEW c \in Clients, \/ AdmitEffect(c) \/ FitEffect(c) \/ ReadmitEffect(c)
                                \/ AttachOkEffect(c) \/ HandshakeFailsEffect(c)
      PROVE  Goal
    BY <1>7 DEF AdmitEffect, FitEffect, ReadmitEffect, AttachOkEffect, HandshakeFailsEffect
<1>8. ASSUME NEW c \in Clients, \/ DetachEffect(c) \/ PromptEffect(c) \/ StopGateEffect(c)
                                \/ StopAdmissionEffect(c) \/ StopDeleteEffect(c)
      PROVE  Goal
    BY <1>8 DEF DetachEffect, PromptEffect, StopGateEffect, StopAdmissionEffect, StopDeleteEffect
<1>9. ASSUME NEW e \in Entries, \/ BeginTurnEffect(e) \/ EndTurnEffect(e) \/ LateSaveEffect(e)
                                \/ TimePassesEffect(e) \/ EndAdmissionEffect(e) \/ EndSaveEffect(e)
      PROVE  Goal
    BY <1>9 DEF BeginTurnEffect, EndTurnEffect, LateSaveEffect, TimePassesEffect,
        EndAdmissionEffect, EndSaveEffect
<1>10. ASSUME \/ SweepScanEffect \/ SweepGateEffect \/ SweepNextEffect \/ SweepCheckEffect
              \/ SweepSavedEffect \/ ShutdownBeginEffect \/ ShutdownGateEffect
              \/ ShutdownDoneEffect
       PROVE  Goal
    BY <1>10 DEF SweepScanEffect, SweepGateEffect, SweepNextEffect, SweepCheckEffect,
        SweepSavedEffect, ShutdownBeginEffect, ShutdownGateEffect, ShutdownDoneEffect
<1>11. ASSUME UNCHANGED vars PROVE Goal
    BY <1>11 DEF vars, counters
<1> HIDE DEF Goal
<1>12. Goal
    BY <1>6, <1>7, <1>8, <1>9, <1>10, <1>11 DEF Effect
<1> QED
    BY <1>12 DEF Goal

\* No step stops a quiet entry, ends it or puts it at risk.
LEMMA QuietFate ==
    ASSUME TypeOK, ConnInv, EntryInv, NEW f \in Used, Quiet(f), Effect
    PROVE  /\ entries'[f].stopped <=> entries[f].stopped
           /\ entries'[f].end = entries[f].end /\ entries'[f].risk = entries[f].risk
<1> DEFINE Goal == /\ entries'[f].stopped <=> entries[f].stopped
                   /\ entries'[f].end = entries[f].end /\ entries'[f].risk = entries[f].risk
<1>1. Bounds
    BY BoundsHold
<1>2. Untouched(f)
    BY <1>1 DEF Bounds, Quiet, Untouched, ConnInv
<1> USE <1>2, Places DEF Untouched
<1> USE <1>1 DEF Bounds, KeepsStop, AlsoStopped, KeepsEnd, EndIs, KeepsRisk
<1>6. ASSUME NEW c \in Clients, \/ ConnectEffect(c) \/ ReserveEffect(c) \/ LoadEffect(c)
                                \/ RegisterEffect(c) \/ AttachEffect(c)
      PROVE  Goal
    BY <1>6 DEF ConnectEffect, ReserveEffect, LoadEffect, RegisterEffect, AttachEffect
<1>7. ASSUME NEW c \in Clients, \/ AdmitEffect(c) \/ FitEffect(c) \/ ReadmitEffect(c)
                                \/ AttachOkEffect(c) \/ HandshakeFailsEffect(c)
      PROVE  Goal
    BY <1>7 DEF AdmitEffect, FitEffect, ReadmitEffect, AttachOkEffect, HandshakeFailsEffect
<1>8. ASSUME NEW c \in Clients, \/ DetachEffect(c) \/ PromptEffect(c) \/ StopGateEffect(c)
                                \/ StopAdmissionEffect(c) \/ StopDeleteEffect(c)
      PROVE  Goal
    BY <1>8 DEF DetachEffect, PromptEffect, StopGateEffect, StopAdmissionEffect, StopDeleteEffect
<1>9. ASSUME NEW e \in Entries, \/ BeginTurnEffect(e) \/ EndTurnEffect(e) \/ LateSaveEffect(e)
                                \/ TimePassesEffect(e) \/ EndAdmissionEffect(e) \/ EndSaveEffect(e)
      PROVE  Goal
    BY <1>9 DEF BeginTurnEffect, EndTurnEffect, LateSaveEffect, TimePassesEffect,
        EndAdmissionEffect, EndSaveEffect
<1>10. ASSUME \/ SweepScanEffect \/ SweepGateEffect \/ SweepNextEffect \/ SweepCheckEffect
              \/ SweepSavedEffect \/ ShutdownBeginEffect \/ ShutdownGateEffect
              \/ ShutdownDoneEffect
       PROVE  Goal
    BY <1>10 DEF SweepScanEffect, SweepGateEffect, SweepNextEffect, SweepCheckEffect,
        SweepSavedEffect, ShutdownBeginEffect, ShutdownGateEffect, ShutdownDoneEffect
<1>11. ASSUME UNCHANGED vars PROVE Goal
    BY <1>11 DEF vars, counters
<1> HIDE DEF Goal
<1>12. Goal
    BY <1>6, <1>7, <1>8, <1>9, <1>10, <1>11 DEF Effect
<1> QED
    BY <1>12 DEF Goal

\* No step gives a quiet entry work or a client.
LEMMA QuietWork ==
    ASSUME TypeOK, ConnInv, EntryInv, NEW f \in Used, Quiet(f), Effect
    PROVE  /\ entries'[f].queued = {} /\ entries'[f].turn = 0
           /\ entries'[f].clients \subseteq entries[f].clients
<1> DEFINE Goal == /\ entries'[f].queued = {} /\ entries'[f].turn = 0
                   /\ entries'[f].clients \subseteq entries[f].clients
<1>1. Bounds
    BY BoundsHold
<1>2. Untouched(f)
    BY <1>1 DEF Bounds, Quiet, Untouched, ConnInv
<1> USE <1>2, Places DEF Untouched
<1> USE <1>1 DEF Bounds, KeepsQueue, QueueIs, KeepsTurn, TurnIs, KeepsClients, ClientsAre,
        ClientsOut
<1>6. ASSUME NEW c \in Clients, \/ ConnectEffect(c) \/ ReserveEffect(c) \/ LoadEffect(c)
                                \/ RegisterEffect(c) \/ AttachEffect(c)
      PROVE  Goal
    BY <1>6 DEF ConnectEffect, ReserveEffect, LoadEffect, RegisterEffect, AttachEffect
<1>7. ASSUME NEW c \in Clients, \/ AdmitEffect(c) \/ FitEffect(c) \/ ReadmitEffect(c)
                                \/ AttachOkEffect(c) \/ HandshakeFailsEffect(c)
      PROVE  Goal
    BY <1>7 DEF AdmitEffect, FitEffect, ReadmitEffect, AttachOkEffect, HandshakeFailsEffect
<1>8. ASSUME NEW c \in Clients, \/ DetachEffect(c) \/ PromptEffect(c) \/ StopGateEffect(c)
                                \/ StopAdmissionEffect(c) \/ StopDeleteEffect(c)
      PROVE  Goal
    BY <1>8 DEF DetachEffect, PromptEffect, StopGateEffect, StopAdmissionEffect, StopDeleteEffect
<1>9. ASSUME NEW e \in Entries, \/ BeginTurnEffect(e) \/ EndTurnEffect(e) \/ LateSaveEffect(e)
                                \/ TimePassesEffect(e) \/ EndAdmissionEffect(e) \/ EndSaveEffect(e)
      PROVE  Goal
    BY <1>9 DEF BeginTurnEffect, EndTurnEffect, LateSaveEffect, TimePassesEffect,
        EndAdmissionEffect, EndSaveEffect
<1>10. ASSUME \/ SweepScanEffect \/ SweepGateEffect \/ SweepNextEffect \/ SweepCheckEffect
              \/ SweepSavedEffect \/ ShutdownBeginEffect \/ ShutdownGateEffect
              \/ ShutdownDoneEffect
       PROVE  Goal
    BY <1>10 DEF SweepScanEffect, SweepGateEffect, SweepNextEffect, SweepCheckEffect,
        SweepSavedEffect, ShutdownBeginEffect, ShutdownGateEffect, ShutdownDoneEffect
<1>11. ASSUME UNCHANGED vars PROVE Goal
    BY <1>11 DEF vars, counters
<1> HIDE DEF Goal
<1>12. Goal
    BY <1>6, <1>7, <1>8, <1>9, <1>10, <1>11 DEF Effect
<1> QED
    BY <1>12 DEF Goal

\* The saves of a quiet entry only run out.
LEMMA QuietSaves ==
    ASSUME TypeOK, ConnInv, EntryInv, NEW f \in Used, Quiet(f), Effect
    PROVE  \/ entries'[f].saves = entries[f].saves
           \/ entries[f].saves > 0 /\ entries'[f].saves = entries[f].saves - 1
<1> DEFINE Goal == \/ entries'[f].saves = entries[f].saves
                   \/ entries[f].saves > 0 /\ entries'[f].saves = entries[f].saves - 1
<1>1. Bounds
    BY BoundsHold
<1>2. Untouched(f)
    BY <1>1 DEF Bounds, Quiet, Untouched, ConnInv
<1> USE <1>2, Places DEF Untouched
<1> USE <1>1 DEF Bounds, KeepsSaves, SavesIs
<1>6. ASSUME NEW c \in Clients, \/ ConnectEffect(c) \/ ReserveEffect(c) \/ LoadEffect(c)
                                \/ RegisterEffect(c) \/ AttachEffect(c)
      PROVE  Goal
    BY <1>6 DEF ConnectEffect, ReserveEffect, LoadEffect, RegisterEffect, AttachEffect
<1>7. ASSUME NEW c \in Clients, \/ AdmitEffect(c) \/ FitEffect(c) \/ ReadmitEffect(c)
                                \/ AttachOkEffect(c) \/ HandshakeFailsEffect(c)
      PROVE  Goal
    BY <1>7 DEF AdmitEffect, FitEffect, ReadmitEffect, AttachOkEffect, HandshakeFailsEffect
<1>8. ASSUME NEW c \in Clients, \/ DetachEffect(c) \/ PromptEffect(c) \/ StopGateEffect(c)
                                \/ StopAdmissionEffect(c) \/ StopDeleteEffect(c)
      PROVE  Goal
    BY <1>8 DEF DetachEffect, PromptEffect, StopGateEffect, StopAdmissionEffect, StopDeleteEffect
<1>9. ASSUME NEW e \in Entries, \/ BeginTurnEffect(e) \/ EndTurnEffect(e) \/ LateSaveEffect(e)
                                \/ TimePassesEffect(e) \/ EndAdmissionEffect(e) \/ EndSaveEffect(e)
      PROVE  Goal
    BY <1>9 DEF BeginTurnEffect, EndTurnEffect, LateSaveEffect, TimePassesEffect,
        EndAdmissionEffect, EndSaveEffect
<1>10. ASSUME \/ SweepScanEffect \/ SweepGateEffect \/ SweepNextEffect \/ SweepCheckEffect
              \/ SweepSavedEffect \/ ShutdownBeginEffect \/ ShutdownGateEffect
              \/ ShutdownDoneEffect
       PROVE  Goal
    BY <1>10 DEF SweepScanEffect, SweepGateEffect, SweepNextEffect, SweepCheckEffect,
        SweepSavedEffect, ShutdownBeginEffect, ShutdownGateEffect, ShutdownDoneEffect
<1>11. ASSUME UNCHANGED vars PROVE Goal
    BY <1>11 DEF vars, counters
<1> HIDE DEF Goal
<1>12. Goal
    BY <1>6, <1>7, <1>8, <1>9, <1>10, <1>11 DEF Effect
<1> QED
    BY <1>12 DEF Goal

\* A quiet entry is deleted only through the open that has loaded it.
LEMMA QuietDeleted ==
    ASSUME TypeOK, ConnInv, EntryInv, NEW f \in Used, Quiet(f), Effect
    PROVE  (entries'[f].deleted <=> entries[f].deleted) \/ GoesOn(f)
<1> DEFINE Goal == (entries'[f].deleted <=> entries[f].deleted) \/ GoesOn(f)
<1>1. Bounds
    BY BoundsHold
<1>2. Untouched(f)
    BY <1>1 DEF Bounds, Quiet, Untouched, ConnInv
<1> USE <1>2, Places DEF Untouched
<1> USE <1>1 DEF Bounds, GoesOn, Loaded, KeepsDeleted, AlsoDeleted
<1>6. ASSUME NEW c \in Clients, \/ ConnectEffect(c) \/ ReserveEffect(c) \/ LoadEffect(c)
                                \/ RegisterEffect(c) \/ AttachEffect(c)
      PROVE  Goal
    BY <1>6 DEF ConnectEffect, ReserveEffect, LoadEffect, RegisterEffect, AttachEffect
<1>7. ASSUME NEW c \in Clients, \/ AdmitEffect(c) \/ FitEffect(c) \/ ReadmitEffect(c)
                                \/ AttachOkEffect(c) \/ HandshakeFailsEffect(c)
      PROVE  Goal
    BY <1>7 DEF AdmitEffect, FitEffect, ReadmitEffect, AttachOkEffect, HandshakeFailsEffect
<1>8. ASSUME NEW c \in Clients, \/ DetachEffect(c) \/ PromptEffect(c) \/ StopGateEffect(c)
                                \/ StopAdmissionEffect(c) \/ StopDeleteEffect(c)
      PROVE  Goal
    BY <1>8 DEF DetachEffect, PromptEffect, StopGateEffect, StopAdmissionEffect, StopDeleteEffect
<1>9. ASSUME NEW e \in Entries, \/ BeginTurnEffect(e) \/ EndTurnEffect(e) \/ LateSaveEffect(e)
                                \/ TimePassesEffect(e) \/ EndAdmissionEffect(e) \/ EndSaveEffect(e)
      PROVE  Goal
    BY <1>9 DEF BeginTurnEffect, EndTurnEffect, LateSaveEffect, TimePassesEffect,
        EndAdmissionEffect, EndSaveEffect
<1>10. ASSUME \/ SweepScanEffect \/ SweepGateEffect \/ SweepNextEffect \/ SweepCheckEffect
              \/ SweepSavedEffect \/ ShutdownBeginEffect \/ ShutdownGateEffect
              \/ ShutdownDoneEffect
       PROVE  Goal
    BY <1>10 DEF SweepScanEffect, SweepGateEffect, SweepNextEffect, SweepCheckEffect,
        SweepSavedEffect, ShutdownBeginEffect, ShutdownGateEffect, ShutdownDoneEffect
<1>11. ASSUME UNCHANGED vars PROVE Goal
    BY <1>11 DEF vars, counters
<1> HIDE DEF GoesOn, Loaded, Goal
<1>12. Goal
    BY <1>6, <1>7, <1>8, <1>9, <1>10, <1>11 DEF Effect
<1> QED
    BY <1>12 DEF Goal, GoesOn

\* A quiet entry is registered only by the open that has loaded it.
LEMMA QuietPlace ==
    ASSUME TypeOK, ConnInv, EntryInv, NEW f \in Used, Quiet(f), Effect
    PROVE  (\A i \in Ids : registry'[i] # f) \/ GoesOn(f)
<1> DEFINE Goal == (\A i \in Ids : registry'[i] # f) \/ GoesOn(f)
<1>1. Bounds
    BY BoundsHold
<1>2. Untouched(f)
    BY <1>1 DEF Bounds, Quiet, Untouched, ConnInv
<1> USE <1>2, Places DEF Untouched
<1> USE <1>1 DEF Bounds, GoesOn, Loaded, RegistryIs
<1>6. ASSUME NEW c \in Clients, \/ ConnectEffect(c) \/ ReserveEffect(c) \/ LoadEffect(c)
                                \/ RegisterEffect(c) \/ AttachEffect(c)
      PROVE  Goal
    BY <1>6 DEF ConnectEffect, ReserveEffect, LoadEffect, RegisterEffect, AttachEffect
<1>7. ASSUME NEW c \in Clients, \/ AdmitEffect(c) \/ FitEffect(c) \/ ReadmitEffect(c)
                                \/ AttachOkEffect(c) \/ HandshakeFailsEffect(c)
      PROVE  Goal
    BY <1>7 DEF AdmitEffect, FitEffect, ReadmitEffect, AttachOkEffect, HandshakeFailsEffect
<1>8. ASSUME NEW c \in Clients, \/ DetachEffect(c) \/ PromptEffect(c) \/ StopGateEffect(c)
                                \/ StopAdmissionEffect(c) \/ StopDeleteEffect(c)
      PROVE  Goal
    BY <1>8 DEF DetachEffect, PromptEffect, StopGateEffect, StopAdmissionEffect, StopDeleteEffect
<1>9. ASSUME NEW e \in Entries, \/ BeginTurnEffect(e) \/ EndTurnEffect(e) \/ LateSaveEffect(e)
                                \/ TimePassesEffect(e) \/ EndAdmissionEffect(e) \/ EndSaveEffect(e)
      PROVE  Goal
    BY <1>9 DEF BeginTurnEffect, EndTurnEffect, LateSaveEffect, TimePassesEffect,
        EndAdmissionEffect, EndSaveEffect
<1>10. ASSUME \/ SweepScanEffect \/ SweepGateEffect \/ SweepNextEffect \/ SweepCheckEffect
              \/ SweepSavedEffect \/ ShutdownBeginEffect \/ ShutdownGateEffect
              \/ ShutdownDoneEffect
       PROVE  Goal
    BY <1>10 DEF SweepScanEffect, SweepGateEffect, SweepNextEffect, SweepCheckEffect,
        SweepSavedEffect, ShutdownBeginEffect, ShutdownGateEffect, ShutdownDoneEffect
<1>11. ASSUME UNCHANGED vars PROVE Goal
    BY <1>11 DEF vars, counters
<1> HIDE DEF GoesOn, Loaded, Goal
<1>12. Goal
    BY <1>6, <1>7, <1>8, <1>9, <1>10, <1>11 DEF Effect
<1> QED
    BY <1>12 DEF Goal, GoesOn

\* No connection comes to a quiet entry.
LEMMA QuietConn ==
    ASSUME TypeOK, ConnInv, EntryInv, NEW f \in Used, Quiet(f), Effect
    PROVE  \A d \in Clients : conn'[d].ent = f =>
               /\ conn'[d].pc \notin Inside /\ (conn'[d].pc = "admit" => entries[f].stopped)
               /\ Loaded(d)' => Loaded(d) /\ conn[d].ent = f
<1> DEFINE Goal == \A d \in Clients : conn'[d].ent = f =>
                       /\ conn'[d].pc \notin Inside /\ (conn'[d].pc = "admit" => entries[f].stopped)
                       /\ Loaded(d)' => Loaded(d) /\ conn[d].ent = f
<1>1. Bounds
    BY BoundsHold
<1>2. Untouched(f)
    BY <1>1 DEF Bounds, Quiet, Untouched, ConnInv
<1> USE <1>2, Places DEF Untouched
<1> USE <1>1 DEF Bounds, Loaded
<1>6. ASSUME NEW c \in Clients, \/ ConnectEffect(c) \/ ReserveEffect(c) \/ LoadEffect(c)
                                \/ RegisterEffect(c) \/ AttachEffect(c)
      PROVE  Goal
    BY <1>6 DEF ConnectEffect, ReserveEffect, LoadEffect, RegisterEffect, AttachEffect
<1>7. ASSUME NEW c \in Clients, \/ AdmitEffect(c) \/ FitEffect(c) \/ ReadmitEffect(c)
                                \/ AttachOkEffect(c) \/ HandshakeFailsEffect(c)
      PROVE  Goal
    BY <1>7 DEF AdmitEffect, FitEffect, ReadmitEffect, AttachOkEffect, HandshakeFailsEffect
<1>8. ASSUME NEW c \in Clients, \/ DetachEffect(c) \/ PromptEffect(c) \/ StopGateEffect(c)
                                \/ StopAdmissionEffect(c) \/ StopDeleteEffect(c)
      PROVE  Goal
    BY <1>8 DEF DetachEffect, PromptEffect, StopGateEffect, StopAdmissionEffect, StopDeleteEffect
<1>9. ASSUME NEW e \in Entries, \/ BeginTurnEffect(e) \/ EndTurnEffect(e) \/ LateSaveEffect(e)
                                \/ TimePassesEffect(e) \/ EndAdmissionEffect(e) \/ EndSaveEffect(e)
      PROVE  Goal
    BY <1>9 DEF BeginTurnEffect, EndTurnEffect, LateSaveEffect, TimePassesEffect,
        EndAdmissionEffect, EndSaveEffect
<1>10. ASSUME \/ SweepScanEffect \/ SweepGateEffect \/ SweepNextEffect \/ SweepCheckEffect
              \/ SweepSavedEffect \/ ShutdownBeginEffect \/ ShutdownGateEffect
              \/ ShutdownDoneEffect
       PROVE  Goal
    BY <1>10 DEF SweepScanEffect, SweepGateEffect, SweepNextEffect, SweepCheckEffect,
        SweepSavedEffect, ShutdownBeginEffect, ShutdownGateEffect, ShutdownDoneEffect
<1>11. ASSUME UNCHANGED vars PROVE Goal
    BY <1>11 DEF vars, counters
<1> HIDE DEF Loaded, Goal
<1>12. Goal
    BY <1>6, <1>7, <1>8, <1>9, <1>10, <1>11 DEF Effect
<1> QED
    BY <1>12 DEF Goal, Loaded

\* Neither the sweep nor the shutdown takes up a quiet entry.
LEMMA QuietTasks ==
    ASSUME TypeOK, ConnInv, EntryInv, NEW f \in Used, Quiet(f), Effect
    PROVE  /\ sweep'.pc \in {"admission", "save"} => sweep'.ent # f
           /\ ending'[f] \notin {"admission", "wait"}
<1> DEFINE Goal == /\ sweep'.pc \in {"admission", "save"} => sweep'.ent # f
                   /\ ending'[f] \notin {"admission", "wait"}
<1>1. Bounds
    BY BoundsHold
<1>2. Untouched(f)
    BY <1>1 DEF Bounds, Quiet, Untouched, ConnInv
<1> USE <1>2, Places DEF Untouched
<1> USE <1>1 DEF Bounds, SweepGoes, EndingIs
<1>6. ASSUME NEW c \in Clients, \/ ConnectEffect(c) \/ ReserveEffect(c) \/ LoadEffect(c)
                                \/ RegisterEffect(c) \/ AttachEffect(c)
      PROVE  Goal
    BY <1>6 DEF ConnectEffect, ReserveEffect, LoadEffect, RegisterEffect, AttachEffect
<1>7. ASSUME NEW c \in Clients, \/ AdmitEffect(c) \/ FitEffect(c) \/ ReadmitEffect(c)
                                \/ AttachOkEffect(c) \/ HandshakeFailsEffect(c)
      PROVE  Goal
    BY <1>7 DEF AdmitEffect, FitEffect, ReadmitEffect, AttachOkEffect, HandshakeFailsEffect
<1>8. ASSUME NEW c \in Clients, \/ DetachEffect(c) \/ PromptEffect(c) \/ StopGateEffect(c)
                                \/ StopAdmissionEffect(c) \/ StopDeleteEffect(c)
      PROVE  Goal
    BY <1>8 DEF DetachEffect, PromptEffect, StopGateEffect, StopAdmissionEffect, StopDeleteEffect
<1>9. ASSUME NEW e \in Entries, \/ BeginTurnEffect(e) \/ EndTurnEffect(e) \/ LateSaveEffect(e)
                                \/ TimePassesEffect(e) \/ EndAdmissionEffect(e) \/ EndSaveEffect(e)
      PROVE  Goal
    BY <1>9 DEF BeginTurnEffect, EndTurnEffect, LateSaveEffect, TimePassesEffect,
        EndAdmissionEffect, EndSaveEffect
<1>10. ASSUME \/ SweepScanEffect \/ SweepGateEffect \/ SweepNextEffect \/ SweepCheckEffect
              \/ SweepSavedEffect \/ ShutdownBeginEffect \/ ShutdownGateEffect
              \/ ShutdownDoneEffect
       PROVE  Goal
    BY <1>10 DEF SweepScanEffect, SweepGateEffect, SweepNextEffect, SweepCheckEffect,
        SweepSavedEffect, ShutdownBeginEffect, ShutdownGateEffect, ShutdownDoneEffect
<1>11. ASSUME UNCHANGED vars PROVE Goal
    BY <1>11 DEF vars, counters
<1> HIDE DEF Goal
<1>12. Goal
    BY <1>6, <1>7, <1>8, <1>9, <1>10, <1>11 DEF Effect
<1> QED
    BY <1>12 DEF Goal

\* Entries are never given up, and keep their id.
LEMMA UsedStep ==
    ASSUME TypeOK, Effect
    PROVE  Used \subseteq Used' /\ \A f \in Used : entries'[f].id = entries[f].id
<1> DEFINE Goal == Used \subseteq Used' /\ \A f \in Used : entries'[f].id = entries[f].id
<1>1. Bounds
    BY BoundsHold
<1> USE <1>1 DEF Bounds, KeepsId
<1>6. ASSUME NEW c \in Clients, \/ ConnectEffect(c) \/ ReserveEffect(c) \/ LoadEffect(c)
                                \/ RegisterEffect(c) \/ AttachEffect(c)
      PROVE  Goal
    BY <1>6 DEF ConnectEffect, ReserveEffect, LoadEffect, RegisterEffect, AttachEffect
<1>7. ASSUME NEW c \in Clients, \/ AdmitEffect(c) \/ FitEffect(c) \/ ReadmitEffect(c)
                                \/ AttachOkEffect(c) \/ HandshakeFailsEffect(c)
      PROVE  Goal
    BY <1>7 DEF AdmitEffect, FitEffect, ReadmitEffect, AttachOkEffect, HandshakeFailsEffect
<1>8. ASSUME NEW c \in Clients, \/ DetachEffect(c) \/ PromptEffect(c) \/ StopGateEffect(c)
                                \/ StopAdmissionEffect(c) \/ StopDeleteEffect(c)
      PROVE  Goal
    BY <1>8 DEF DetachEffect, PromptEffect, StopGateEffect, StopAdmissionEffect, StopDeleteEffect
<1>9. ASSUME NEW e \in Entries, \/ BeginTurnEffect(e) \/ EndTurnEffect(e) \/ LateSaveEffect(e)
                                \/ TimePassesEffect(e) \/ EndAdmissionEffect(e) \/ EndSaveEffect(e)
      PROVE  Goal
    BY <1>9 DEF BeginTurnEffect, EndTurnEffect, LateSaveEffect, TimePassesEffect,
        EndAdmissionEffect, EndSaveEffect
<1>10. ASSUME \/ SweepScanEffect \/ SweepGateEffect \/ SweepNextEffect \/ SweepCheckEffect
              \/ SweepSavedEffect \/ ShutdownBeginEffect \/ ShutdownGateEffect
              \/ ShutdownDoneEffect
       PROVE  Goal
    BY <1>10 DEF SweepScanEffect, SweepGateEffect, SweepNextEffect, SweepCheckEffect,
        SweepSavedEffect, ShutdownBeginEffect, ShutdownGateEffect, ShutdownDoneEffect
<1>11. ASSUME UNCHANGED vars PROVE Goal
    BY <1>11 DEF vars, counters
<1> HIDE DEF Goal
<1>12. Goal
    BY <1>6, <1>7, <1>8, <1>9, <1>10, <1>11 DEF Effect
<1> QED
    BY <1>12 DEF Goal

\* Only a load brings an entry into use, and only one.
LEMMA NewByLoad ==
    ASSUME TypeOK, Effect
    PROVE  used' = used \/ \E c \in Clients : LoadEffect(c) /\ used' = used + 1
<1> DEFINE Goal == used' = used \/ \E c \in Clients : LoadEffect(c) /\ used' = used + 1
<1>1. Bounds
    BY BoundsHold
<1> USE <1>1 DEF Bounds
<1>6. ASSUME NEW c \in Clients, \/ ConnectEffect(c) \/ ReserveEffect(c) \/ LoadEffect(c)
                                \/ RegisterEffect(c) \/ AttachEffect(c)
      PROVE  Goal
    BY <1>6 DEF ConnectEffect, ReserveEffect, LoadEffect, RegisterEffect, AttachEffect
<1>7. ASSUME NEW c \in Clients, \/ AdmitEffect(c) \/ FitEffect(c) \/ ReadmitEffect(c)
                                \/ AttachOkEffect(c) \/ HandshakeFailsEffect(c)
      PROVE  Goal
    BY <1>7 DEF AdmitEffect, FitEffect, ReadmitEffect, AttachOkEffect, HandshakeFailsEffect
<1>8. ASSUME NEW c \in Clients, \/ DetachEffect(c) \/ PromptEffect(c) \/ StopGateEffect(c)
                                \/ StopAdmissionEffect(c) \/ StopDeleteEffect(c)
      PROVE  Goal
    BY <1>8 DEF DetachEffect, PromptEffect, StopGateEffect, StopAdmissionEffect, StopDeleteEffect
<1>9. ASSUME NEW e \in Entries, \/ BeginTurnEffect(e) \/ EndTurnEffect(e) \/ LateSaveEffect(e)
                                \/ TimePassesEffect(e) \/ EndAdmissionEffect(e) \/ EndSaveEffect(e)
      PROVE  Goal
    BY <1>9 DEF BeginTurnEffect, EndTurnEffect, LateSaveEffect, TimePassesEffect,
        EndAdmissionEffect, EndSaveEffect
<1>10. ASSUME \/ SweepScanEffect \/ SweepGateEffect \/ SweepNextEffect \/ SweepCheckEffect
              \/ SweepSavedEffect \/ ShutdownBeginEffect \/ ShutdownGateEffect
              \/ ShutdownDoneEffect
       PROVE  Goal
    BY <1>10 DEF SweepScanEffect, SweepGateEffect, SweepNextEffect, SweepCheckEffect,
        SweepSavedEffect, ShutdownBeginEffect, ShutdownGateEffect, ShutdownDoneEffect
<1>11. ASSUME UNCHANGED vars PROVE Goal
    BY <1>11 DEF vars, counters
<1> HIDE DEF Goal
<1>12. Goal
    BY <1>6, <1>7, <1>8, <1>9, <1>10, <1>11 DEF Effect
<1> QED
    BY <1>12 DEF Goal

\* How an open comes to have a core, and what it does with it.
LEMMA LoadedHow ==
    ASSUME TypeOK, ConnInv, Effect
    PROVE  \A d \in Clients : Loaded(d)' =>
               \/ Loaded(d) /\ conn'[d].ent = conn[d].ent
               \/ LoadEffect(d) /\ used' = used + 1 /\ conn'[d].ent = used + 1
<1> DEFINE Goal == \A d \in Clients : Loaded(d)' =>
                       \/ Loaded(d) /\ conn'[d].ent = conn[d].ent
                       \/ LoadEffect(d) /\ used' = used + 1 /\ conn'[d].ent = used + 1
<1>1. Bounds
    BY BoundsHold
<1>2. \A d \in Clients : conn[d].pc \in {"load", "reserve"} => conn[d].ent = NoEntry
    BY DEF ConnInv
<1> USE <1>2
<1> USE <1>1 DEF Bounds, Loaded
<1>6. ASSUME NEW c \in Clients, \/ ConnectEffect(c) \/ ReserveEffect(c) \/ LoadEffect(c)
                                \/ RegisterEffect(c) \/ AttachEffect(c)
      PROVE  Goal
    BY <1>6 DEF ConnectEffect, ReserveEffect, LoadEffect, RegisterEffect, AttachEffect
<1>7. ASSUME NEW c \in Clients, \/ AdmitEffect(c) \/ FitEffect(c) \/ ReadmitEffect(c)
                                \/ AttachOkEffect(c) \/ HandshakeFailsEffect(c)
      PROVE  Goal
    BY <1>7 DEF AdmitEffect, FitEffect, ReadmitEffect, AttachOkEffect, HandshakeFailsEffect
<1>8. ASSUME NEW c \in Clients, \/ DetachEffect(c) \/ PromptEffect(c) \/ StopGateEffect(c)
                                \/ StopAdmissionEffect(c) \/ StopDeleteEffect(c)
      PROVE  Goal
    BY <1>8 DEF DetachEffect, PromptEffect, StopGateEffect, StopAdmissionEffect, StopDeleteEffect
<1>9. ASSUME NEW e \in Entries, \/ BeginTurnEffect(e) \/ EndTurnEffect(e) \/ LateSaveEffect(e)
                                \/ TimePassesEffect(e) \/ EndAdmissionEffect(e) \/ EndSaveEffect(e)
      PROVE  Goal
    BY <1>9 DEF BeginTurnEffect, EndTurnEffect, LateSaveEffect, TimePassesEffect,
        EndAdmissionEffect, EndSaveEffect
<1>10. ASSUME \/ SweepScanEffect \/ SweepGateEffect \/ SweepNextEffect \/ SweepCheckEffect
              \/ SweepSavedEffect \/ ShutdownBeginEffect \/ ShutdownGateEffect
              \/ ShutdownDoneEffect
       PROVE  Goal
    BY <1>10 DEF SweepScanEffect, SweepGateEffect, SweepNextEffect, SweepCheckEffect,
        SweepSavedEffect, ShutdownBeginEffect, ShutdownGateEffect, ShutdownDoneEffect
<1>11. ASSUME UNCHANGED vars PROVE Goal
    BY <1>11 DEF vars, counters
<1> HIDE DEF Loaded, Goal
<1>12. Goal
    BY <1>6, <1>7, <1>8, <1>9, <1>10, <1>11 DEF Effect
<1> QED
    BY <1>12 DEF Goal, Loaded

\* A loaded core stays loaded until its open registers it or finds its id taken.
LEMMA UnloadHow ==
    ASSUME TypeOK, ConnInv, Effect
    PROVE  \A d \in Clients : Loaded(d) =>
               \/ Loaded(d)' /\ conn'[d].ent = conn[d].ent
               \/ /\ RegisterEffect(d)
                  /\ registry' = registry \/ \E i \in Ids : registry'[i] = conn[d].ent
<1> DEFINE Goal == \A d \in Clients : Loaded(d) =>
                       \/ Loaded(d)' /\ conn'[d].ent = conn[d].ent
                       \/ /\ RegisterEffect(d)
                          /\ registry' = registry \/ \E i \in Ids : registry'[i] = conn[d].ent
<1>1. Bounds
    BY BoundsHold
<1>2. \A d \in Clients : conn[d].pc # "away" => conn[d].id \in Ids
    BY DEF ConnInv
<1> USE <1>2
<1> USE <1>1 DEF Bounds, Loaded, RegistryIs
<1>6. ASSUME NEW c \in Clients, \/ ConnectEffect(c) \/ ReserveEffect(c) \/ LoadEffect(c)
                                \/ RegisterEffect(c) \/ AttachEffect(c)
      PROVE  Goal
    BY <1>6 DEF ConnectEffect, ReserveEffect, LoadEffect, RegisterEffect, AttachEffect
<1>7. ASSUME NEW c \in Clients, \/ AdmitEffect(c) \/ FitEffect(c) \/ ReadmitEffect(c)
                                \/ AttachOkEffect(c) \/ HandshakeFailsEffect(c)
      PROVE  Goal
    BY <1>7 DEF AdmitEffect, FitEffect, ReadmitEffect, AttachOkEffect, HandshakeFailsEffect
<1>8. ASSUME NEW c \in Clients, \/ DetachEffect(c) \/ PromptEffect(c) \/ StopGateEffect(c)
                                \/ StopAdmissionEffect(c) \/ StopDeleteEffect(c)
      PROVE  Goal
    BY <1>8 DEF DetachEffect, PromptEffect, StopGateEffect, StopAdmissionEffect, StopDeleteEffect
<1>9. ASSUME NEW e \in Entries, \/ BeginTurnEffect(e) \/ EndTurnEffect(e) \/ LateSaveEffect(e)
                                \/ TimePassesEffect(e) \/ EndAdmissionEffect(e) \/ EndSaveEffect(e)
      PROVE  Goal
    BY <1>9 DEF BeginTurnEffect, EndTurnEffect, LateSaveEffect, TimePassesEffect,
        EndAdmissionEffect, EndSaveEffect
<1>10. ASSUME \/ SweepScanEffect \/ SweepGateEffect \/ SweepNextEffect \/ SweepCheckEffect
              \/ SweepSavedEffect \/ ShutdownBeginEffect \/ ShutdownGateEffect
              \/ ShutdownDoneEffect
       PROVE  Goal
    BY <1>10 DEF SweepScanEffect, SweepGateEffect, SweepNextEffect, SweepCheckEffect,
        SweepSavedEffect, ShutdownBeginEffect, ShutdownGateEffect, ShutdownDoneEffect
<1>11. ASSUME UNCHANGED vars PROVE Goal
    BY <1>11 DEF vars, counters
<1> HIDE DEF Loaded, Goal
<1>12. Goal
    BY <1>6, <1>7, <1>8, <1>9, <1>10, <1>11 DEF Effect
<1> QED
    BY <1>12 DEF Goal, Loaded

\* A connection comes to load an id only through its reservation.
LEMMA LoadingHow ==
    ASSUME TypeOK, Effect
    PROVE  \A d \in Clients : conn'[d].pc = "load" =>
               conn'[d].id = conn[d].id /\ (conn[d].pc = "load" \/ ReserveEffect(d))
<1> DEFINE Goal == \A d \in Clients : conn'[d].pc = "load" =>
                       conn'[d].id = conn[d].id /\ (conn[d].pc = "load" \/ ReserveEffect(d))
<1>1. Bounds
    BY BoundsHold
<1> USE <1>1 DEF Bounds
<1>6. ASSUME NEW c \in Clients, \/ ConnectEffect(c) \/ ReserveEffect(c) \/ LoadEffect(c)
                                \/ RegisterEffect(c) \/ AttachEffect(c)
      PROVE  Goal
    BY <1>6 DEF ConnectEffect, ReserveEffect, LoadEffect, RegisterEffect, AttachEffect
<1>7. ASSUME NEW c \in Clients, \/ AdmitEffect(c) \/ FitEffect(c) \/ ReadmitEffect(c)
                                \/ AttachOkEffect(c) \/ HandshakeFailsEffect(c)
      PROVE  Goal
    BY <1>7 DEF AdmitEffect, FitEffect, ReadmitEffect, AttachOkEffect, HandshakeFailsEffect
<1>8. ASSUME NEW c \in Clients, \/ DetachEffect(c) \/ PromptEffect(c) \/ StopGateEffect(c)
                                \/ StopAdmissionEffect(c) \/ StopDeleteEffect(c)
      PROVE  Goal
    BY <1>8 DEF DetachEffect, PromptEffect, StopGateEffect, StopAdmissionEffect, StopDeleteEffect
<1>9. ASSUME NEW e \in Entries, \/ BeginTurnEffect(e) \/ EndTurnEffect(e) \/ LateSaveEffect(e)
                                \/ TimePassesEffect(e) \/ EndAdmissionEffect(e) \/ EndSaveEffect(e)
      PROVE  Goal
    BY <1>9 DEF BeginTurnEffect, EndTurnEffect, LateSaveEffect, TimePassesEffect,
        EndAdmissionEffect, EndSaveEffect
<1>10. ASSUME \/ SweepScanEffect \/ SweepGateEffect \/ SweepNextEffect \/ SweepCheckEffect
              \/ SweepSavedEffect \/ ShutdownBeginEffect \/ ShutdownGateEffect
              \/ ShutdownDoneEffect
       PROVE  Goal
    BY <1>10 DEF SweepScanEffect, SweepGateEffect, SweepNextEffect, SweepCheckEffect,
        SweepSavedEffect, ShutdownBeginEffect, ShutdownGateEffect, ShutdownDoneEffect
<1>11. ASSUME UNCHANGED vars PROVE Goal
    BY <1>11 DEF vars, counters
<1> HIDE DEF Goal
<1>12. Goal
    BY <1>6, <1>7, <1>8, <1>9, <1>10, <1>11 DEF Effect
<1> QED
    BY <1>12 DEF Goal

\* Deleted is deleted, and shut down is shut down.
LEMMA FateStays ==
    ASSUME TypeOK, ConnInv, EntryInv, HeldInv, Effect
    PROVE  \A f \in Used :
               /\ entries[f].deleted => entries'[f].deleted
               /\ entries[f].end = "daemon_shutdown" => entries'[f].end = "daemon_shutdown"
<1> DEFINE Goal == \A f \in Used :
                       /\ entries[f].deleted => entries'[f].deleted
                       /\ entries[f].end = "daemon_shutdown" => entries'[f].end = "daemon_shutdown"
<1>1. Bounds
    BY BoundsHold
<1>2. Usage
    BY UsageHolds
<1> USE <1>2, Places DEF Usage
<1> USE <1>1 DEF Bounds, KeepsDeleted, AlsoDeleted, KeepsEnd, EndIs
<1>6. ASSUME NEW c \in Clients, \/ ConnectEffect(c) \/ ReserveEffect(c) \/ LoadEffect(c)
                                \/ RegisterEffect(c) \/ AttachEffect(c)
      PROVE  Goal
    BY <1>6 DEF ConnectEffect, ReserveEffect, LoadEffect, RegisterEffect, AttachEffect
<1>7. ASSUME NEW c \in Clients, \/ AdmitEffect(c) \/ FitEffect(c) \/ ReadmitEffect(c)
                                \/ AttachOkEffect(c) \/ HandshakeFailsEffect(c)
      PROVE  Goal
    BY <1>7 DEF AdmitEffect, FitEffect, ReadmitEffect, AttachOkEffect, HandshakeFailsEffect
<1>8. ASSUME NEW c \in Clients, \/ DetachEffect(c) \/ PromptEffect(c) \/ StopGateEffect(c)
                                \/ StopAdmissionEffect(c) \/ StopDeleteEffect(c)
      PROVE  Goal
    BY <1>8 DEF DetachEffect, PromptEffect, StopGateEffect, StopAdmissionEffect, StopDeleteEffect
<1>9. ASSUME NEW e \in Entries, \/ BeginTurnEffect(e) \/ EndTurnEffect(e) \/ LateSaveEffect(e)
                                \/ TimePassesEffect(e) \/ EndAdmissionEffect(e) \/ EndSaveEffect(e)
      PROVE  Goal
    BY <1>9 DEF BeginTurnEffect, EndTurnEffect, LateSaveEffect, TimePassesEffect,
        EndAdmissionEffect, EndSaveEffect
<1>10. ASSUME \/ SweepScanEffect \/ SweepGateEffect \/ SweepNextEffect \/ SweepCheckEffect
              \/ SweepSavedEffect \/ ShutdownBeginEffect \/ ShutdownGateEffect
              \/ ShutdownDoneEffect
       PROVE  Goal
    BY <1>10 DEF SweepScanEffect, SweepGateEffect, SweepNextEffect, SweepCheckEffect,
        SweepSavedEffect, ShutdownBeginEffect, ShutdownGateEffect, ShutdownDoneEffect
<1>11. ASSUME UNCHANGED vars PROVE Goal
    BY <1>11 DEF vars, counters
<1> HIDE DEF Goal
<1>12. Goal
    BY <1>6, <1>7, <1>8, <1>9, <1>10, <1>11 DEF Effect
<1> QED
    BY <1>12 DEF Goal

\* The sweep takes the entry off.
SweptAway(f) ==
    /\ sweep.pc \in {"admission", "save"} /\ sweep'.pc = "next" /\ StillIdle(f) /\ entries'[f].stopped
    /\ entries'[f].queued = entries[f].queued /\ entries'[f].turn = entries[f].turn
    /\ \A i \in Ids : registry'[i] # f
    /\ conn' = conn /\ ending' = ending

\* The ways out of the registry.
LEMMA LeavesHow ==
    ASSUME TypeOK, ConnInv, EntryInv, HeldInv, NEW f \in Used, IsRegistered(f), Effect
    PROVE  \/ IsRegistered(f)' \/ entries'[f].deleted
           \/ entries'[f].end = "daemon_shutdown" \/ SweptAway(f)
<1> DEFINE Goal == \/ IsRegistered(f)' \/ entries'[f].deleted
                   \/ entries'[f].end = "daemon_shutdown" \/ SweptAway(f)
<1>1. Bounds
    BY BoundsHold
<1>2. Usage
    BY UsageHolds
<1> USE <1>2, Places DEF Usage
<1> USE <1>1 DEF Bounds, IsRegistered, SweptAway, RegistryIs, KeepsDeleted, AlsoDeleted, KeepsEnd,
        EndIs, KeepsStop, AlsoStopped, KeepsQueue, QueueIs, KeepsTurn, TurnIs, SweepGoes
<1>6. ASSUME NEW c \in Clients, \/ ConnectEffect(c) \/ ReserveEffect(c) \/ LoadEffect(c)
                                \/ RegisterEffect(c) \/ AttachEffect(c)
      PROVE  Goal
    BY <1>6 DEF ConnectEffect, ReserveEffect, LoadEffect, RegisterEffect, AttachEffect
<1>7. ASSUME NEW c \in Clients, \/ AdmitEffect(c) \/ FitEffect(c) \/ ReadmitEffect(c)
                                \/ AttachOkEffect(c) \/ HandshakeFailsEffect(c)
      PROVE  Goal
    BY <1>7 DEF AdmitEffect, FitEffect, ReadmitEffect, AttachOkEffect, HandshakeFailsEffect
<1>8. ASSUME NEW c \in Clients, \/ DetachEffect(c) \/ PromptEffect(c) \/ StopGateEffect(c)
                                \/ StopAdmissionEffect(c) \/ StopDeleteEffect(c)
      PROVE  Goal
    BY <1>8 DEF DetachEffect, PromptEffect, StopGateEffect, StopAdmissionEffect, StopDeleteEffect
<1>9. ASSUME NEW e \in Entries, \/ BeginTurnEffect(e) \/ EndTurnEffect(e) \/ LateSaveEffect(e)
                                \/ TimePassesEffect(e) \/ EndAdmissionEffect(e) \/ EndSaveEffect(e)
      PROVE  Goal
    BY <1>9 DEF BeginTurnEffect, EndTurnEffect, LateSaveEffect, TimePassesEffect,
        EndAdmissionEffect, EndSaveEffect
<1>10. ASSUME \/ SweepScanEffect \/ SweepGateEffect \/ SweepNextEffect \/ SweepCheckEffect
              \/ SweepSavedEffect \/ ShutdownBeginEffect \/ ShutdownGateEffect
              \/ ShutdownDoneEffect
       PROVE  Goal
    BY <1>10 DEF SweepScanEffect, SweepGateEffect, SweepNextEffect, SweepCheckEffect,
        SweepSavedEffect, ShutdownBeginEffect, ShutdownGateEffect, ShutdownDoneEffect
<1>11. ASSUME UNCHANGED vars PROVE Goal
    BY <1>11 DEF vars, counters
<1> HIDE DEF IsRegistered, SweptAway, Goal
<1>12. Goal
    BY <1>6, <1>7, <1>8, <1>9, <1>10, <1>11 DEF Effect
<1> QED
    BY <1>12 DEF Goal, IsRegistered, SweptAway

\* MadeOnce is kept: a generated id is given out once.
LEMMA MadeOnceStep ==
    ASSUME TypeOK, ConnInv, MadeOnce, Effect
    PROVE  MadeOnce'
<1>1. Bounds
    BY BoundsHold
<1>2. \A d \in Clients : conn[d].pc # "away" => conn[d].id \in Ids
    BY DEF ConnInv
<1> USE <1>2
<1> USE <1>1 DEF Bounds, MadeOnce, Made
<1>6. ASSUME NEW c \in Clients, \/ ConnectEffect(c) \/ ReserveEffect(c) \/ LoadEffect(c)
                                \/ RegisterEffect(c) \/ AttachEffect(c)
      PROVE  MadeOnce'
    BY <1>6 DEF ConnectEffect, ReserveEffect, LoadEffect, RegisterEffect, AttachEffect
<1>7. ASSUME NEW c \in Clients, \/ AdmitEffect(c) \/ FitEffect(c) \/ ReadmitEffect(c)
                                \/ AttachOkEffect(c) \/ HandshakeFailsEffect(c)
      PROVE  MadeOnce'
    BY <1>7 DEF AdmitEffect, FitEffect, ReadmitEffect, AttachOkEffect, HandshakeFailsEffect
<1>8. ASSUME NEW c \in Clients, \/ DetachEffect(c) \/ PromptEffect(c) \/ StopGateEffect(c)
                                \/ StopAdmissionEffect(c) \/ StopDeleteEffect(c)
      PROVE  MadeOnce'
    BY <1>8 DEF DetachEffect, PromptEffect, StopGateEffect, StopAdmissionEffect, StopDeleteEffect
<1>9. ASSUME NEW e \in Entries, \/ BeginTurnEffect(e) \/ EndTurnEffect(e) \/ LateSaveEffect(e)
                                \/ TimePassesEffect(e) \/ EndAdmissionEffect(e) \/ EndSaveEffect(e)
      PROVE  MadeOnce'
    BY <1>9 DEF BeginTurnEffect, EndTurnEffect, LateSaveEffect, TimePassesEffect,
        EndAdmissionEffect, EndSaveEffect
<1>10. ASSUME \/ SweepScanEffect \/ SweepGateEffect \/ SweepNextEffect \/ SweepCheckEffect
              \/ SweepSavedEffect \/ ShutdownBeginEffect \/ ShutdownGateEffect
              \/ ShutdownDoneEffect
       PROVE  MadeOnce'
    BY <1>10 DEF SweepScanEffect, SweepGateEffect, SweepNextEffect, SweepCheckEffect,
        SweepSavedEffect, ShutdownBeginEffect, ShutdownGateEffect, ShutdownDoneEffect
<1>11. ASSUME UNCHANGED vars PROVE MadeOnce'
    BY <1>11 DEF vars, counters
<1> HIDE DEF MadeOnce, Made
<1> QED
    BY <1>6, <1>7, <1>8, <1>9, <1>10, <1>11 DEF Effect

\* MadeNew is kept: nobody makes an entry or a record for an id given out to another.
LEMMA MadeNewStep ==
    ASSUME TypeOK, ConnInv, EntryInv, HeldInv, MadeInv, Effect
    PROVE  MadeNew'
<1>1. Bounds
    BY BoundsHold
<1>2. Usage
    BY UsageHolds
<1> USE <1>2, Places DEF Usage
<1> USE <1>1 DEF Bounds, MadeInv, MadeNew, MadeOnce, Made, KeepsId, DiskIs, Wrote, IsNew
<1>6. ASSUME NEW c \in Clients, \/ ConnectEffect(c) \/ ReserveEffect(c) \/ LoadEffect(c)
                                \/ RegisterEffect(c) \/ AttachEffect(c)
      PROVE  MadeNew'
    BY <1>6 DEF ConnectEffect, ReserveEffect, LoadEffect, RegisterEffect, AttachEffect
<1>7. ASSUME NEW c \in Clients, \/ AdmitEffect(c) \/ FitEffect(c) \/ ReadmitEffect(c)
                                \/ AttachOkEffect(c) \/ HandshakeFailsEffect(c)
      PROVE  MadeNew'
    BY <1>7 DEF AdmitEffect, FitEffect, ReadmitEffect, AttachOkEffect, HandshakeFailsEffect
<1>8. ASSUME NEW c \in Clients, \/ DetachEffect(c) \/ PromptEffect(c) \/ StopGateEffect(c)
                                \/ StopAdmissionEffect(c) \/ StopDeleteEffect(c)
      PROVE  MadeNew'
    BY <1>8 DEF DetachEffect, PromptEffect, StopGateEffect, StopAdmissionEffect, StopDeleteEffect
<1>9. ASSUME NEW e \in Entries, \/ BeginTurnEffect(e) \/ EndTurnEffect(e) \/ LateSaveEffect(e)
                                \/ TimePassesEffect(e) \/ EndAdmissionEffect(e) \/ EndSaveEffect(e)
      PROVE  MadeNew'
    BY <1>9 DEF BeginTurnEffect, EndTurnEffect, LateSaveEffect, TimePassesEffect,
        EndAdmissionEffect, EndSaveEffect
<1>10. ASSUME \/ SweepScanEffect \/ SweepGateEffect \/ SweepNextEffect \/ SweepCheckEffect
              \/ SweepSavedEffect \/ ShutdownBeginEffect \/ ShutdownGateEffect
              \/ ShutdownDoneEffect
       PROVE  MadeNew'
    BY <1>10 DEF SweepScanEffect, SweepGateEffect, SweepNextEffect, SweepCheckEffect,
        SweepSavedEffect, ShutdownBeginEffect, ShutdownGateEffect, ShutdownDoneEffect
<1>11. ASSUME UNCHANGED vars PROVE MadeNew'
    BY <1>11 DEF vars, counters
<1> HIDE DEF MadeInv, MadeNew, MadeOnce, Made
<1> QED
    BY <1>6, <1>7, <1>8, <1>9, <1>10, <1>11 DEF Effect

\* What could write the record of a deleted session is inert.
LEMMA DeletedStep ==
    ASSUME TypeOK, ConnInv, EntryInv, HeldInv, OneActive, DeletedInv, Effect
    PROVE  DeletedInv'
<1>1. Bounds
    BY BoundsHold
<1>2. Usage
    BY UsageHolds
<1> USE <1>2, Places DEF Usage
<1>3. \A e, f \in Used : e # f /\ entries[e].id = entries[f].id /\ entries[f].deleted =>
        /\ entries[e].turn = 0 /\ entries[e].saves = 0 /\ ending[e] # "wait"
        /\ sweep.pc = "save" => sweep.ent # e
    BY DEF OneActive, Inert, Silent, Quiet
<1> USE <1>3
<1> USE <1>1 DEF Bounds, DeletedInv, KeepsId, KeepsDeleted, AlsoDeleted, DiskIs, Wrote, IsNew
<1>6. ASSUME NEW c \in Clients, \/ ConnectEffect(c) \/ ReserveEffect(c) \/ LoadEffect(c)
                                \/ RegisterEffect(c) \/ AttachEffect(c)
      PROVE  DeletedInv'
    BY <1>6 DEF ConnectEffect, ReserveEffect, LoadEffect, RegisterEffect, AttachEffect
<1>7. ASSUME NEW c \in Clients, \/ AdmitEffect(c) \/ FitEffect(c) \/ ReadmitEffect(c)
                                \/ AttachOkEffect(c) \/ HandshakeFailsEffect(c)
      PROVE  DeletedInv'
    BY <1>7 DEF AdmitEffect, FitEffect, ReadmitEffect, AttachOkEffect, HandshakeFailsEffect
<1>8. ASSUME NEW c \in Clients, \/ DetachEffect(c) \/ PromptEffect(c) \/ StopGateEffect(c)
                                \/ StopAdmissionEffect(c) \/ StopDeleteEffect(c)
      PROVE  DeletedInv'
    BY <1>8 DEF DetachEffect, PromptEffect, StopGateEffect, StopAdmissionEffect, StopDeleteEffect
<1>9. ASSUME NEW e \in Entries, \/ BeginTurnEffect(e) \/ EndTurnEffect(e) \/ LateSaveEffect(e)
                                \/ TimePassesEffect(e) \/ EndAdmissionEffect(e) \/ EndSaveEffect(e)
      PROVE  DeletedInv'
    BY <1>9 DEF BeginTurnEffect, EndTurnEffect, LateSaveEffect, TimePassesEffect,
        EndAdmissionEffect, EndSaveEffect
<1>10. ASSUME \/ SweepScanEffect \/ SweepGateEffect \/ SweepNextEffect \/ SweepCheckEffect
              \/ SweepSavedEffect \/ ShutdownBeginEffect \/ ShutdownGateEffect
              \/ ShutdownDoneEffect
       PROVE  DeletedInv'
    BY <1>10 DEF SweepScanEffect, SweepGateEffect, SweepNextEffect, SweepCheckEffect,
        SweepSavedEffect, ShutdownBeginEffect, ShutdownGateEffect, ShutdownDoneEffect
<1>11. ASSUME UNCHANGED vars PROVE DeletedInv'
    BY <1>11 DEF vars, counters
<1> HIDE DEF DeletedInv
<1> QED
    BY <1>6, <1>7, <1>8, <1>9, <1>10, <1>11 DEF Effect

\* A save that lands is the only one counted down for the id.
LEMMA LateStep ==
    ASSUME TypeOK, ConnInv, EntryInv, HeldInv, OneActive, LateInv, Effect
    PROVE  LateInv'
<1>1. Bounds
    BY BoundsHold
<1>2. Usage
    BY UsageHolds
<1> USE <1>2, Places DEF Usage
<1>3. /\ \A e, f \in Used : e # f /\ entries[e].id = entries[f].id /\ entries[f].saves # 0 => entries[e].saves = 0
      /\ \A e \in Entries : entries[e].saves \in Nat
      /\ \A i \in Ids : late[i] \in Nat
    BY Facts DEF OneActive, Inert
<1> USE <1>3
<1> USE <1>1 DEF Bounds, LateInv, KeepsId, KeepsSaves, SavesIs, LateIs, IsNew
<1>6. ASSUME NEW c \in Clients, \/ ConnectEffect(c) \/ ReserveEffect(c) \/ LoadEffect(c)
                                \/ RegisterEffect(c) \/ AttachEffect(c)
      PROVE  LateInv'
    BY <1>6 DEF ConnectEffect, ReserveEffect, LoadEffect, RegisterEffect, AttachEffect
<1>7. ASSUME NEW c \in Clients, \/ AdmitEffect(c) \/ FitEffect(c) \/ ReadmitEffect(c)
                                \/ AttachOkEffect(c) \/ HandshakeFailsEffect(c)
      PROVE  LateInv'
    BY <1>7 DEF AdmitEffect, FitEffect, ReadmitEffect, AttachOkEffect, HandshakeFailsEffect
<1>8. ASSUME NEW c \in Clients, \/ DetachEffect(c) \/ PromptEffect(c) \/ StopGateEffect(c)
                                \/ StopAdmissionEffect(c) \/ StopDeleteEffect(c)
      PROVE  LateInv'
    BY <1>8 DEF DetachEffect, PromptEffect, StopGateEffect, StopAdmissionEffect, StopDeleteEffect
<1>9. ASSUME NEW e \in Entries, \/ BeginTurnEffect(e) \/ EndTurnEffect(e) \/ LateSaveEffect(e)
                                \/ TimePassesEffect(e) \/ EndAdmissionEffect(e) \/ EndSaveEffect(e)
      PROVE  LateInv'
    BY <1>9 DEF BeginTurnEffect, EndTurnEffect, LateSaveEffect, TimePassesEffect,
        EndAdmissionEffect, EndSaveEffect
<1>10. ASSUME \/ SweepScanEffect \/ SweepGateEffect \/ SweepNextEffect \/ SweepCheckEffect
              \/ SweepSavedEffect \/ ShutdownBeginEffect \/ ShutdownGateEffect
              \/ ShutdownDoneEffect
       PROVE  LateInv'
    BY <1>10 DEF SweepScanEffect, SweepGateEffect, SweepNextEffect, SweepCheckEffect,
        SweepSavedEffect, ShutdownBeginEffect, ShutdownGateEffect, ShutdownDoneEffect
<1>11. ASSUME UNCHANGED vars PROVE LateInv'
    BY <1>11 DEF vars, counters
<1> HIDE DEF LateInv
<1> QED
    BY <1>6, <1>7, <1>8, <1>9, <1>10, <1>11 DEF Effect

\* The ids being opened.
OpeningIds == \A i : i \in creating <=> \E d \in Clients : conn[d].pc \in Opening /\ conn[d].id = i

\* An id is opened by one connection at a time, and not while it is registered.
LEMMA OpeningStep ==
    ASSUME TypeOK, ConnInv, Effect
    PROVE  OpeningIds'
<1>1. Bounds
    BY BoundsHold
<1>2. OpeningIds
    BY DEF TypeOK, OpeningIds, Opening
<1>3. \A c, d \in Clients :
        (c # d /\ conn[c].pc \in Opening /\ conn[d].pc \in Opening) => conn[c].id # conn[d].id
    BY DEF ConnInv
<1> USE <1>2, <1>3, Places
<1> USE <1>1 DEF Bounds, OpeningIds
<1>6. ASSUME NEW c \in Clients, \/ ConnectEffect(c) \/ ReserveEffect(c) \/ LoadEffect(c)
                                \/ RegisterEffect(c) \/ AttachEffect(c)
      PROVE  OpeningIds'
    BY <1>6 DEF ConnectEffect, ReserveEffect, LoadEffect, RegisterEffect, AttachEffect
<1>7. ASSUME NEW c \in Clients, \/ AdmitEffect(c) \/ FitEffect(c) \/ ReadmitEffect(c)
                                \/ AttachOkEffect(c) \/ HandshakeFailsEffect(c)
      PROVE  OpeningIds'
    BY <1>7 DEF AdmitEffect, FitEffect, ReadmitEffect, AttachOkEffect, HandshakeFailsEffect
<1>8. ASSUME NEW c \in Clients, \/ DetachEffect(c) \/ PromptEffect(c) \/ StopGateEffect(c)
                                \/ StopAdmissionEffect(c) \/ StopDeleteEffect(c)
      PROVE  OpeningIds'
    BY <1>8 DEF DetachEffect, PromptEffect, StopGateEffect, StopAdmissionEffect, StopDeleteEffect
<1>9. ASSUME NEW e \in Entries, \/ BeginTurnEffect(e) \/ EndTurnEffect(e) \/ LateSaveEffect(e)
                                \/ TimePassesEffect(e) \/ EndAdmissionEffect(e) \/ EndSaveEffect(e)
      PROVE  OpeningIds'
    BY <1>9 DEF BeginTurnEffect, EndTurnEffect, LateSaveEffect, TimePassesEffect,
        EndAdmissionEffect, EndSaveEffect
<1>10. ASSUME \/ SweepScanEffect \/ SweepGateEffect \/ SweepNextEffect \/ SweepCheckEffect
              \/ SweepSavedEffect \/ ShutdownBeginEffect \/ ShutdownGateEffect
              \/ ShutdownDoneEffect
       PROVE  OpeningIds'
    BY <1>10 DEF SweepScanEffect, SweepGateEffect, SweepNextEffect, SweepCheckEffect,
        SweepSavedEffect, ShutdownBeginEffect, ShutdownGateEffect, ShutdownDoneEffect
<1>11. ASSUME UNCHANGED vars PROVE OpeningIds'
    BY <1>11 DEF vars, counters
<1> HIDE DEF OpeningIds
<1> QED
    BY <1>6, <1>7, <1>8, <1>9, <1>10, <1>11 DEF Effect

\* Every step leaves entries and connections of their types.
LEMMA RecordsStep ==
    ASSUME TypeOK, Effect
    PROVE  /\ entries' = entries \/ entries' \in [Entries -> EntryRecords]
           /\ conn' = conn \/ conn' \in [Clients -> ConnRecords]
<1> DEFINE Goal == /\ entries' = entries \/ entries' \in [Entries -> EntryRecords]
                   /\ conn' = conn \/ conn' \in [Clients -> ConnRecords]
<1>1. Bounds
    BY BoundsHold
<1> USE <1>1 DEF Bounds, Typed
<1>6. ASSUME NEW c \in Clients, \/ ConnectEffect(c) \/ ReserveEffect(c) \/ LoadEffect(c)
                                \/ RegisterEffect(c) \/ AttachEffect(c)
      PROVE  Goal
    BY <1>6 DEF ConnectEffect, ReserveEffect, LoadEffect, RegisterEffect, AttachEffect
<1>7. ASSUME NEW c \in Clients, \/ AdmitEffect(c) \/ FitEffect(c) \/ ReadmitEffect(c)
                                \/ AttachOkEffect(c) \/ HandshakeFailsEffect(c)
      PROVE  Goal
    BY <1>7 DEF AdmitEffect, FitEffect, ReadmitEffect, AttachOkEffect, HandshakeFailsEffect
<1>8. ASSUME NEW c \in Clients, \/ DetachEffect(c) \/ PromptEffect(c) \/ StopGateEffect(c)
                                \/ StopAdmissionEffect(c) \/ StopDeleteEffect(c)
      PROVE  Goal
    BY <1>8 DEF DetachEffect, PromptEffect, StopGateEffect, StopAdmissionEffect, StopDeleteEffect
<1>9. ASSUME NEW e \in Entries, \/ BeginTurnEffect(e) \/ EndTurnEffect(e) \/ LateSaveEffect(e)
                                \/ TimePassesEffect(e) \/ EndAdmissionEffect(e) \/ EndSaveEffect(e)
      PROVE  Goal
    BY <1>9 DEF BeginTurnEffect, EndTurnEffect, LateSaveEffect, TimePassesEffect,
        EndAdmissionEffect, EndSaveEffect
<1>10. ASSUME \/ SweepScanEffect \/ SweepGateEffect \/ SweepNextEffect \/ SweepCheckEffect
              \/ SweepSavedEffect \/ ShutdownBeginEffect \/ ShutdownGateEffect
              \/ ShutdownDoneEffect
       PROVE  Goal
    BY <1>10 DEF SweepScanEffect, SweepGateEffect, SweepNextEffect, SweepCheckEffect,
        SweepSavedEffect, ShutdownBeginEffect, ShutdownGateEffect, ShutdownDoneEffect
<1>11. ASSUME UNCHANGED vars PROVE Goal
    BY <1>11 DEF vars, counters
<1> HIDE DEF Typed, Goal
<1>12. Goal
    BY <1>6, <1>7, <1>8, <1>9, <1>10, <1>11 DEF Effect
<1> QED
    BY <1>12 DEF Goal

\* Who has written the record.
Writes(w, i) ==
    w \in Used /\ entries[w].id = i /\ ~Inert(w) /\ ~entries[w].deleted /\ disk'[i] = entries'[w].mem

\* How the record, the memory and the end of an entry change.
LEMMA DiskHow ==
    ASSUME TypeOK, ConnInv, EntryInv, HeldInv, Effect
    PROVE  \A i \in Ids : \/ disk'[i] = disk[i]
                          \/ \E w \in Used : entries[w].id = i /\ entries'[w].deleted
                          \/ \E w \in Used : Writes(w, i)
<1> DEFINE Goal == \A i \in Ids : \/ disk'[i] = disk[i]
                                  \/ \E w \in Used : entries[w].id = i /\ entries'[w].deleted
                                  \/ \E w \in Used : Writes(w, i)
<1>1. Bounds
    BY BoundsHold
<1>2. Usage
    BY UsageHolds
<1> USE <1>2, Places DEF Usage
<1>3. /\ \A e \in Entries : entries[e].turn # 0 \/ entries[e].saves > 0 \/ ending[e] \in {"admission", "wait"} => ~Inert(e)
      /\ sweep.pc \in {"admission", "save"} => ~Inert(sweep.ent)
      /\ \A e \in Entries : entries[e].saves > 0 => entries[e].saves # 0
    BY DEF Inert, Silent, Quiet
<1> USE <1>3
<1> USE <1>1 DEF Bounds, Writes, KeepsDeleted, AlsoDeleted, DiskIs, Wrote, KeepsMem, MemIs
<1>6. ASSUME NEW c \in Clients, \/ ConnectEffect(c) \/ ReserveEffect(c) \/ LoadEffect(c)
                                \/ RegisterEffect(c) \/ AttachEffect(c)
      PROVE  Goal
    BY <1>6 DEF ConnectEffect, ReserveEffect, LoadEffect, RegisterEffect, AttachEffect
<1>7. ASSUME NEW c \in Clients, \/ AdmitEffect(c) \/ FitEffect(c) \/ ReadmitEffect(c)
                                \/ AttachOkEffect(c) \/ HandshakeFailsEffect(c)
      PROVE  Goal
    BY <1>7 DEF AdmitEffect, FitEffect, ReadmitEffect, AttachOkEffect, HandshakeFailsEffect
<1>8. ASSUME NEW c \in Clients, \/ DetachEffect(c) \/ PromptEffect(c) \/ StopGateEffect(c)
                                \/ StopAdmissionEffect(c) \/ StopDeleteEffect(c)
      PROVE  Goal
    BY <1>8 DEF DetachEffect, PromptEffect, StopGateEffect, StopAdmissionEffect, StopDeleteEffect
<1>9. ASSUME NEW e \in Entries, \/ BeginTurnEffect(e) \/ LateSaveEffect(e) \/ TimePassesEffect(e)
                                \/ EndAdmissionEffect(e) \/ EndSaveEffect(e)
      PROVE  Goal
    BY <1>9 DEF BeginTurnEffect, LateSaveEffect, TimePassesEffect, EndAdmissionEffect,
        EndSaveEffect
<1>10. ASSUME NEW e \in Entries, EndTurnEffect(e) PROVE Goal
  <2>1. e \in Used /\ ~Inert(e) /\ entries'[e].mem = entries[e].mem \cup {entries[e].turn}
    BY <1>10 DEF EndTurnEffect
  <2>2. disk' = disk \/ (~entries[e].deleted /\ DiskIs(entries[e].id, entries'[e].mem))
    BY <1>10, <2>1 DEF EndTurnEffect
  <2> QED
    BY <2>1, <2>2
<1>11. ASSUME \/ SweepScanEffect \/ SweepGateEffect \/ SweepNextEffect \/ SweepCheckEffect
              \/ SweepSavedEffect \/ ShutdownBeginEffect \/ ShutdownGateEffect
              \/ ShutdownDoneEffect
       PROVE  Goal
    BY <1>11 DEF SweepScanEffect, SweepGateEffect, SweepNextEffect, SweepCheckEffect,
        SweepSavedEffect, ShutdownBeginEffect, ShutdownGateEffect, ShutdownDoneEffect
<1>12. ASSUME UNCHANGED vars PROVE Goal
    BY <1>12 DEF vars, counters
<1> HIDE DEF Writes, Goal
<1>13. Goal
    BY <1>6, <1>7, <1>8, <1>9, <1>10, <1>11, <1>12 DEF Effect
<1> QED
    BY <1>13 DEF Goal, Writes

\* A core becomes clean only by writing what it holds, or after its deletion.
LEMMA CleanHow ==
    ASSUME TypeOK, ConnInv, EntryInv, HeldInv, Effect
    PROVE  \A f \in Used : entries'[f].clean =>
               \/ entries[f].clean /\ entries'[f].mem = entries[f].mem
               \/ entries[f].deleted \/ disk'[entries[f].id] = entries'[f].mem
<1> DEFINE Goal == \A f \in Used : entries'[f].clean =>
                       \/ entries[f].clean /\ entries'[f].mem = entries[f].mem
                       \/ entries[f].deleted \/ disk'[entries[f].id] = entries'[f].mem
<1>1. Bounds
    BY BoundsHold
<1>2. Usage
    BY UsageHolds
<1> USE <1>2, Places DEF Usage
<1> USE <1>1 DEF Bounds, KeepsClean, CleanIs, KeepsMem, MemIs, DiskIs, Wrote
<1>6. ASSUME NEW c \in Clients, \/ ConnectEffect(c) \/ ReserveEffect(c) \/ LoadEffect(c)
                                \/ RegisterEffect(c) \/ AttachEffect(c)
      PROVE  Goal
    BY <1>6 DEF ConnectEffect, ReserveEffect, LoadEffect, RegisterEffect, AttachEffect
<1>7. ASSUME NEW c \in Clients, \/ AdmitEffect(c) \/ FitEffect(c) \/ ReadmitEffect(c)
                                \/ AttachOkEffect(c) \/ HandshakeFailsEffect(c)
      PROVE  Goal
    BY <1>7 DEF AdmitEffect, FitEffect, ReadmitEffect, AttachOkEffect, HandshakeFailsEffect
<1>8. ASSUME NEW c \in Clients, \/ DetachEffect(c) \/ PromptEffect(c) \/ StopGateEffect(c)
                                \/ StopAdmissionEffect(c) \/ StopDeleteEffect(c)
      PROVE  Goal
    BY <1>8 DEF DetachEffect, PromptEffect, StopGateEffect, StopAdmissionEffect, StopDeleteEffect
<1>9. ASSUME NEW e \in Entries, \/ BeginTurnEffect(e) \/ EndTurnEffect(e) \/ LateSaveEffect(e)
      PROVE  Goal
    BY <1>9 DEF BeginTurnEffect, EndTurnEffect, LateSaveEffect
<1>10. ASSUME NEW e \in Entries, \/ TimePassesEffect(e) \/ EndAdmissionEffect(e)
                                 \/ EndSaveEffect(e)
       PROVE  Goal
    BY <1>10 DEF TimePassesEffect, EndAdmissionEffect, EndSaveEffect
<1>11. ASSUME \/ SweepScanEffect \/ SweepGateEffect \/ SweepNextEffect \/ SweepCheckEffect
              \/ SweepSavedEffect \/ ShutdownBeginEffect \/ ShutdownGateEffect
              \/ ShutdownDoneEffect
       PROVE  Goal
    BY <1>11 DEF SweepScanEffect, SweepGateEffect, SweepNextEffect, SweepCheckEffect,
        SweepSavedEffect, ShutdownBeginEffect, ShutdownGateEffect, ShutdownDoneEffect
<1>12. ASSUME UNCHANGED vars PROVE Goal
    BY <1>12 DEF vars, counters
<1> HIDE DEF Goal
<1>13. Goal
    BY <1>6, <1>7, <1>8, <1>9, <1>10, <1>11, <1>12 DEF Effect
<1> QED
    BY <1>13 DEF Goal

\* Memory changes only in a turn, and only grows.
LEMMA MemHow ==
    ASSUME TypeOK, ConnInv, EntryInv, HeldInv, Effect
    PROVE  \A f \in Used : \/ entries'[f].mem = entries[f].mem
                           \/ entries[f].turn # 0 /\ entries[f].mem \subseteq entries'[f].mem
<1> DEFINE Goal == \A f \in Used : \/ entries'[f].mem = entries[f].mem
                                   \/ entries[f].turn # 0 /\ entries[f].mem \subseteq entries'[f].mem
<1>1. Bounds
    BY BoundsHold
<1>2. Usage
    BY UsageHolds
<1> USE <1>2, Places DEF Usage
<1> USE <1>1 DEF Bounds, KeepsMem, MemIs
<1>6. ASSUME NEW c \in Clients, \/ ConnectEffect(c) \/ ReserveEffect(c) \/ LoadEffect(c)
                                \/ RegisterEffect(c) \/ AttachEffect(c)
      PROVE  Goal
    BY <1>6 DEF ConnectEffect, ReserveEffect, LoadEffect, RegisterEffect, AttachEffect
<1>7. ASSUME NEW c \in Clients, \/ AdmitEffect(c) \/ FitEffect(c) \/ ReadmitEffect(c)
                                \/ AttachOkEffect(c) \/ HandshakeFailsEffect(c)
      PROVE  Goal
    BY <1>7 DEF AdmitEffect, FitEffect, ReadmitEffect, AttachOkEffect, HandshakeFailsEffect
<1>8. ASSUME NEW c \in Clients, \/ DetachEffect(c) \/ PromptEffect(c) \/ StopGateEffect(c)
                                \/ StopAdmissionEffect(c) \/ StopDeleteEffect(c)
      PROVE  Goal
    BY <1>8 DEF DetachEffect, PromptEffect, StopGateEffect, StopAdmissionEffect, StopDeleteEffect
<1>9. ASSUME NEW e \in Entries, \/ BeginTurnEffect(e) \/ EndTurnEffect(e) \/ LateSaveEffect(e)
                                \/ TimePassesEffect(e) \/ EndAdmissionEffect(e) \/ EndSaveEffect(e)
      PROVE  Goal
    BY <1>9 DEF BeginTurnEffect, EndTurnEffect, LateSaveEffect, TimePassesEffect,
        EndAdmissionEffect, EndSaveEffect
<1>10. ASSUME \/ SweepScanEffect \/ SweepGateEffect \/ SweepNextEffect \/ SweepCheckEffect
              \/ SweepSavedEffect \/ ShutdownBeginEffect \/ ShutdownGateEffect
              \/ ShutdownDoneEffect
       PROVE  Goal
    BY <1>10 DEF SweepScanEffect, SweepGateEffect, SweepNextEffect, SweepCheckEffect,
        SweepSavedEffect, ShutdownBeginEffect, ShutdownGateEffect, ShutdownDoneEffect
<1>11. ASSUME UNCHANGED vars PROVE Goal
    BY <1>11 DEF vars, counters
<1> HIDE DEF Goal
<1>12. Goal
    BY <1>6, <1>7, <1>8, <1>9, <1>10, <1>11 DEF Effect
<1> QED
    BY <1>12 DEF Goal

\* The entry is taken down now, with what it has in the record.
TakenDownKept(f) ==
    /\ ~Inert(f) /\ entries'[f].turn = 0 /\ entries'[f].stopped /\ entries'[f].mem = entries[f].mem
    /\ \/ entries[f].clean /\ disk' = disk
       \/ entries[f].deleted
       \/ disk'[entries[f].id] = entries'[f].mem

\* An entry comes to be kept on disk only by being taken down clean.
LEMMA KeptHow ==
    ASSUME TypeOK, ConnInv, EntryInv, HeldInv, EndInv, Effect
    PROVE  \A f \in Used : Kept(f)' => Kept(f) \/ TakenDownKept(f)
<1> DEFINE Goal == \A f \in Used : Kept(f)' => Kept(f) \/ TakenDownKept(f)
<1>1. Bounds
    BY BoundsHold
<1>2. Usage
    BY UsageHolds
<1> USE <1>2, Places DEF Usage
<1>3. /\ \A e \in Entries : entries[e].turn # 0 \/ entries[e].saves > 0 \/ ending[e] \in {"admission", "wait"} => ~Inert(e)
      /\ sweep.pc \in {"admission", "save"} => ~Inert(sweep.ent)
      /\ \A e \in Entries : entries[e].saves > 0 => entries[e].saves # 0
    BY DEF Inert, Silent, Quiet
<1> USE <1>3
<1>4. /\ sweep.pc \in {"admission", "save"} =>
           entries[sweep.ent].deleted \/ registry[entries[sweep.ent].id] = sweep.ent
      /\ \A e \in Entries : ending[e] \in {"admission", "wait"} =>
           entries[e].deleted \/ registry[entries[e].id] = e
    BY <1>1 DEF Bounds, HeldInv, SweepHeld, EndingHeld, EntryInv, RegisteredInv, IsRegistered
<1> USE <1>4
<1> USE <1>1 DEF Bounds, EndInv, Kept, TakenDownKept, StillIdle, Busy, KeepsEnd, EndIs, KeepsRisk,
        KeepsTurn, TurnIs, KeepsStop, AlsoStopped, KeepsMem, MemIs, KeepsDeleted, AlsoDeleted,
        DiskIs, Wrote
<1>6. ASSUME NEW c \in Clients, \/ ConnectEffect(c) \/ ReserveEffect(c) \/ LoadEffect(c)
                                \/ RegisterEffect(c) \/ AttachEffect(c)
      PROVE  Goal
    BY <1>6 DEF ConnectEffect, ReserveEffect, LoadEffect, RegisterEffect, AttachEffect
<1>7. ASSUME NEW c \in Clients, \/ AdmitEffect(c) \/ FitEffect(c) \/ ReadmitEffect(c)
                                \/ AttachOkEffect(c) \/ HandshakeFailsEffect(c)
      PROVE  Goal
    BY <1>7 DEF AdmitEffect, FitEffect, ReadmitEffect, AttachOkEffect, HandshakeFailsEffect
<1>8. ASSUME NEW c \in Clients, \/ DetachEffect(c) \/ PromptEffect(c) \/ StopGateEffect(c)
                                \/ StopAdmissionEffect(c) \/ StopDeleteEffect(c)
      PROVE  Goal
    BY <1>8 DEF DetachEffect, PromptEffect, StopGateEffect, StopAdmissionEffect, StopDeleteEffect
<1>9. ASSUME NEW e \in Entries, \/ BeginTurnEffect(e) \/ EndTurnEffect(e) \/ LateSaveEffect(e)
                                \/ TimePassesEffect(e) \/ EndAdmissionEffect(e) \/ EndSaveEffect(e)
      PROVE  Goal
    BY <1>9 DEF BeginTurnEffect, EndTurnEffect, LateSaveEffect, TimePassesEffect,
        EndAdmissionEffect, EndSaveEffect
<1>10. ASSUME \/ SweepScanEffect \/ SweepGateEffect \/ SweepNextEffect \/ SweepCheckEffect
              \/ SweepSavedEffect \/ ShutdownBeginEffect \/ ShutdownGateEffect
              \/ ShutdownDoneEffect
       PROVE  Goal
    BY <1>10 DEF SweepScanEffect, SweepGateEffect, SweepNextEffect, SweepCheckEffect,
        SweepSavedEffect, ShutdownBeginEffect, ShutdownGateEffect, ShutdownDoneEffect
<1>11. ASSUME UNCHANGED vars PROVE Goal
    BY <1>11 DEF vars, counters
<1> HIDE DEF EndInv, Kept, TakenDownKept, StillIdle, Busy, Goal
<1>12. Goal
    BY <1>6, <1>7, <1>8, <1>9, <1>10, <1>11 DEF Effect
<1> QED
    BY <1>12 DEF Goal, Kept, TakenDownKept

\* A stop is for good, and ends turns for good.
LEMMA StoppedStays ==
    ASSUME TypeOK, ConnInv, EntryInv, HeldInv, Effect
    PROVE  \A f \in Used :
               /\ entries[f].stopped => entries'[f].stopped
               /\ entries[f].stopped /\ entries[f].turn = 0 => entries'[f].turn = 0
<1> DEFINE Goal == \A f \in Used :
                       /\ entries[f].stopped => entries'[f].stopped
                       /\ entries[f].stopped /\ entries[f].turn = 0 => entries'[f].turn = 0
<1>1. Bounds
    BY BoundsHold
<1>2. Usage
    BY UsageHolds
<1> USE <1>2, Places DEF Usage
<1> USE <1>1 DEF Bounds, KeepsStop, AlsoStopped, KeepsTurn, TurnIs
<1>6. ASSUME NEW c \in Clients, \/ ConnectEffect(c) \/ ReserveEffect(c) \/ LoadEffect(c)
                                \/ RegisterEffect(c) \/ AttachEffect(c)
      PROVE  Goal
    BY <1>6 DEF ConnectEffect, ReserveEffect, LoadEffect, RegisterEffect, AttachEffect
<1>7. ASSUME NEW c \in Clients, \/ AdmitEffect(c) \/ FitEffect(c) \/ ReadmitEffect(c)
                                \/ AttachOkEffect(c) \/ HandshakeFailsEffect(c)
      PROVE  Goal
    BY <1>7 DEF AdmitEffect, FitEffect, ReadmitEffect, AttachOkEffect, HandshakeFailsEffect
<1>8. ASSUME NEW c \in Clients, \/ DetachEffect(c) \/ PromptEffect(c) \/ StopGateEffect(c)
                                \/ StopAdmissionEffect(c) \/ StopDeleteEffect(c)
      PROVE  Goal
    BY <1>8 DEF DetachEffect, PromptEffect, StopGateEffect, StopAdmissionEffect, StopDeleteEffect
<1>9. ASSUME NEW e \in Entries, \/ BeginTurnEffect(e) \/ EndTurnEffect(e) \/ LateSaveEffect(e)
                                \/ TimePassesEffect(e) \/ EndAdmissionEffect(e) \/ EndSaveEffect(e)
      PROVE  Goal
    BY <1>9 DEF BeginTurnEffect, EndTurnEffect, LateSaveEffect, TimePassesEffect,
        EndAdmissionEffect, EndSaveEffect
<1>10. ASSUME \/ SweepScanEffect \/ SweepGateEffect \/ SweepNextEffect \/ SweepCheckEffect
              \/ SweepSavedEffect \/ ShutdownBeginEffect \/ ShutdownGateEffect
              \/ ShutdownDoneEffect
       PROVE  Goal
    BY <1>10 DEF SweepScanEffect, SweepGateEffect, SweepNextEffect, SweepCheckEffect,
        SweepSavedEffect, ShutdownBeginEffect, ShutdownGateEffect, ShutdownDoneEffect
<1>11. ASSUME UNCHANGED vars PROVE Goal
    BY <1>11 DEF vars, counters
<1> HIDE DEF Goal
<1>12. Goal
    BY <1>6, <1>7, <1>8, <1>9, <1>10, <1>11 DEF Effect
<1> QED
    BY <1>12 DEF Goal

\* EndInv is kept: no deleted entry is ended by the sweep or by a shutdown.
LEMMA EndStep ==
    ASSUME TypeOK, ConnInv, EntryInv, HeldInv, LoadedInv, EndInv, Effect
    PROVE  EndInv'
<1>1. Bounds
    BY BoundsHold
<1>2. Usage
    BY UsageHolds
<1> USE <1>2, Places DEF Usage
<1>4. \A d \in Clients : conn[d].pc = "register" /\ conn[d].ent # NoEntry => entries[conn[d].ent].end = "no"
    BY DEF LoadedInv, Loaded, Fresh
<1>5. /\ \A i \in Ids : registry[i] # NoEntry => ~entries[registry[i]].deleted
      /\ \A d \in Clients : conn[d].pc = "deleting" =>
           entries[conn[d].ent].deleted \/ \E i \in Ids : registry[i] = conn[d].ent
    BY DEF HeldInv, StopHeld, EntryInv, RegisteredInv, IsRegistered
<1> USE <1>4, <1>5
<1> USE <1>1 DEF Bounds, EndInv, KeepsEnd, EndIs, KeepsDeleted, AlsoDeleted, IsNew
<1>6. ASSUME NEW c \in Clients, \/ ConnectEffect(c) \/ ReserveEffect(c) \/ LoadEffect(c)
                                \/ RegisterEffect(c) \/ AttachEffect(c)
      PROVE  EndInv'
    BY <1>6 DEF ConnectEffect, ReserveEffect, LoadEffect, RegisterEffect, AttachEffect
<1>7. ASSUME NEW c \in Clients, \/ AdmitEffect(c) \/ FitEffect(c) \/ ReadmitEffect(c)
                                \/ AttachOkEffect(c) \/ HandshakeFailsEffect(c)
      PROVE  EndInv'
    BY <1>7 DEF AdmitEffect, FitEffect, ReadmitEffect, AttachOkEffect, HandshakeFailsEffect
<1>8. ASSUME NEW c \in Clients, \/ DetachEffect(c) \/ PromptEffect(c) \/ StopGateEffect(c)
                                \/ StopAdmissionEffect(c) \/ StopDeleteEffect(c)
      PROVE  EndInv'
    BY <1>8 DEF DetachEffect, PromptEffect, StopGateEffect, StopAdmissionEffect, StopDeleteEffect
<1>9. ASSUME NEW e \in Entries, \/ BeginTurnEffect(e) \/ EndTurnEffect(e) \/ LateSaveEffect(e)
                                \/ TimePassesEffect(e) \/ EndAdmissionEffect(e) \/ EndSaveEffect(e)
      PROVE  EndInv'
    BY <1>9 DEF BeginTurnEffect, EndTurnEffect, LateSaveEffect, TimePassesEffect,
        EndAdmissionEffect, EndSaveEffect
<1>10. ASSUME \/ SweepScanEffect \/ SweepGateEffect \/ SweepNextEffect \/ SweepCheckEffect
              \/ SweepSavedEffect \/ ShutdownBeginEffect \/ ShutdownGateEffect
              \/ ShutdownDoneEffect
       PROVE  EndInv'
    BY <1>10 DEF SweepScanEffect, SweepGateEffect, SweepNextEffect, SweepCheckEffect,
        SweepSavedEffect, ShutdownBeginEffect, ShutdownGateEffect, ShutdownDoneEffect
<1>11. ASSUME UNCHANGED vars PROVE EndInv'
    BY <1>11 DEF vars, counters
<1> HIDE DEF EndInv
<1> QED
    BY <1>6, <1>7, <1>8, <1>9, <1>10, <1>11 DEF Effect

LimitInv == IsFiniteSet(Registered) /\ IsFiniteSet(creating) /\ WithinLimit

\* An open is counted from its reservation on; registering it changes the kind only.
LimitHolds ==
    \/ Registered' \subseteq Registered /\ creating' \subseteq creating
    \/ Registered' = Registered /\ ~Full /\ \E i : creating' = creating \cup {i}
    \/ \E i \in creating : Registered' = Registered \cup {i} /\ creating' = creating \ {i}

\* Ids come to be counted only where the limit was looked at.
LEMMA LimitHow ==
    ASSUME TypeOK, ConnInv, Effect
    PROVE  LimitHolds
<1>1. Bounds
    BY BoundsHold
<1>2. \A d \in Clients : /\ conn[d].pc # "away" => conn[d].id \in Ids
                         /\ conn[d].pc = "register" => conn[d].id \in creating
    BY DEF TypeOK, ConnInv
<1> USE <1>2
<1> USE <1>1 DEF Bounds, LimitHolds, Registered, RegistryIs
<1>6. ASSUME NEW c \in Clients, \/ ConnectEffect(c) \/ LoadEffect(c) \/ RegisterEffect(c)
                                \/ AttachEffect(c)
      PROVE  LimitHolds
    BY <1>6 DEF ConnectEffect, LoadEffect, RegisterEffect, AttachEffect
<1>7. ASSUME NEW c \in Clients, ReserveEffect(c) PROVE LimitHolds
    BY <1>7 DEF ReserveEffect, Refused
<1>8. ASSUME NEW c \in Clients, \/ AdmitEffect(c) \/ FitEffect(c) \/ ReadmitEffect(c)
                                \/ AttachOkEffect(c) \/ HandshakeFailsEffect(c)
      PROVE  LimitHolds
    BY <1>8 DEF AdmitEffect, FitEffect, ReadmitEffect, AttachOkEffect, HandshakeFailsEffect
<1>9. ASSUME NEW c \in Clients, \/ DetachEffect(c) \/ PromptEffect(c) \/ StopGateEffect(c)
                                \/ StopAdmissionEffect(c) \/ StopDeleteEffect(c)
      PROVE  LimitHolds
    BY <1>9 DEF DetachEffect, PromptEffect, StopGateEffect, StopAdmissionEffect, StopDeleteEffect
<1>10. ASSUME NEW e \in Entries, \/ BeginTurnEffect(e) \/ EndTurnEffect(e) \/ LateSaveEffect(e)
                                 \/ TimePassesEffect(e) \/ EndAdmissionEffect(e) \/ EndSaveEffect(e)
       PROVE  LimitHolds
    BY <1>10 DEF BeginTurnEffect, EndTurnEffect, LateSaveEffect, TimePassesEffect,
        EndAdmissionEffect, EndSaveEffect
<1>11. ASSUME \/ SweepScanEffect \/ SweepGateEffect \/ SweepNextEffect \/ SweepCheckEffect
              \/ SweepSavedEffect \/ ShutdownBeginEffect \/ ShutdownGateEffect
              \/ ShutdownDoneEffect
       PROVE  LimitHolds
    BY <1>11 DEF SweepScanEffect, SweepGateEffect, SweepNextEffect, SweepCheckEffect,
        SweepSavedEffect, ShutdownBeginEffect, ShutdownGateEffect, ShutdownDoneEffect
<1>12. ASSUME UNCHANGED vars PROVE LimitHolds
    BY <1>12 DEF vars, counters
<1> HIDE DEF LimitHolds, Registered
<1> QED
    BY <1>6, <1>7, <1>8, <1>9, <1>10, <1>11, <1>12 DEF Effect

HIDE DEF Touched, LeftBy, RolledBack, TakenDown, Saved, FinallySaved, KeepsFate, KeepsWork, KeepsData,
         Moved, Goes, GoesAway

-----------------------------------------------------------------------------
(* Quiet, silent and inert entries.                                         *)

\* A quiet entry stays quiet, unless the open that has loaded it goes on.
LEMMA QuietStays ==
    ASSUME TypeOK, ConnInv, EntryInv, Effect, NEW f \in Used, Quiet(f),
           \A d \in Clients : Loaded(d) /\ conn[d].ent = f => Loaded(d)'
    PROVE  Quiet(f)' /\ (entries'[f].deleted <=> entries[f].deleted)
<1>1. \A i \in Ids : registry'[i] # f
    BY QuietPlace DEF GoesOn
<1>2. entries'[f].queued = {} /\ entries'[f].turn = 0
    BY QuietWork
<1>3. \A d \in Clients : conn'[d].ent = f =>
        conn'[d].pc \notin Inside /\ (conn'[d].pc = "admit" => entries[f].stopped)
    BY QuietConn
<1>4. entries'[f].stopped <=> entries[f].stopped
    BY QuietFate
<1>5. (sweep'.pc \in {"admission", "save"} => sweep'.ent # f) /\ ending'[f] \notin {"admission", "wait"}
    BY QuietTasks
<1>6. entries'[f].deleted <=> entries[f].deleted
    BY QuietDeleted DEF GoesOn
<1> QED
    BY <1>1, <1>2, <1>3, <1>4, <1>5, <1>6 DEF Quiet, Inside

\* A silent entry stays silent, and so does an inert one inert.
LEMMA SilentStays ==
    ASSUME TypeOK, ConnInv, EntryInv, Effect, NEW f \in Used, Silent(f)
    PROVE  Silent(f)' /\ (Inert(f) => Inert(f)')
<1>1. Quiet(f) /\ ~entries[f].deleted /\ \A d \in Clients : Loaded(d) => conn[d].ent # f
    BY DEF Silent
<1>2. Quiet(f)' /\ ~entries'[f].deleted
    BY <1>1, QuietStays
<1>3. \A d \in Clients : Loaded(d)' => conn'[d].ent # f
    BY <1>1, QuietConn
<1>4. entries[f].saves = 0 => entries'[f].saves = 0
    BY <1>1, QuietSaves
<1> QED
    BY <1>2, <1>3, <1>4 DEF Silent, Inert

\* LoadedInv is kept, by the stability of quiet entries.
LEMMA LoadedStep ==
    ASSUME TypeOK, ConnInv, EntryInv, HeldInv, LoadedInv, Effect
    PROVE  LoadedInv'
<1> SUFFICES ASSUME NEW c \in Clients, Loaded(c)', NEW e, e = conn'[c].ent
             PROVE  Quiet(e)' /\ Fresh(e)'
    BY DEF LoadedInv, Quiet, Fresh
<1>1. CASE Loaded(c) /\ e = conn[c].ent
  <2>1. Quiet(e) /\ Fresh(e) /\ e \in Used
    BY <1>1 DEF LoadedInv, ConnInv, Loaded
  <2>2. ASSUME NEW d \in Clients, Loaded(d), conn[d].ent = e PROVE d = c
    BY <1>1, <2>2, Places DEF ConnInv, Loaded
  <2>3. Quiet(e)' /\ (entries'[e].deleted <=> entries[e].deleted)
    BY <2>1, <2>2, QuietStays
  <2>4. (entries'[e].stopped <=> entries[e].stopped) /\ entries'[e].end = entries[e].end
    BY <2>1, QuietFate
  <2>5. entries'[e].clients \subseteq entries[e].clients
    BY <2>1, QuietWork
  <2>6. entries[e].saves = 0 => entries'[e].saves = 0
    BY <2>1, QuietSaves
  <2>7. Fresh(e)'
    BY <2>1, <2>3, <2>4, <2>5, <2>6 DEF Fresh
  <2> QED
    BY <2>3, <2>7
<1>2. CASE LoadEffect(c) /\ used' = used + 1 /\ e = used + 1
  <2>1. used \in Nat /\ used + 1 \notin Used
    BY Facts DEF Used
  <2>2. /\ e \in Entries /\ registry' = registry /\ sweep' = sweep /\ ending' = ending
        /\ entries'[e].queued = {} /\ entries'[e].turn = 0 /\ Fresh(e)'
    BY <1>2, <2>1 DEF LoadEffect, IsNew, Fresh
  <2>3. \A d \in Clients : conn'[d].pc \in Inside \cup {"admit"} => conn'[d].ent # e
    BY <1>2, <2>1, Places DEF LoadEffect, ConnInv, Moved, Goes
  <2>4. \A i \in Ids : registry[i] # e
    BY <1>2, <2>1, <2>2, Facts DEF EntryInv, RegisteredInv
  <2>5. (sweep.pc \in {"admission", "save"} => sweep.ent # e) /\ ending[e] \notin {"admission", "wait"}
    BY <1>2, <2>1, <2>2 DEF HeldInv, SweepHeld, EndingHeld
  <2> QED
    BY <2>2, <2>3, <2>4, <2>5 DEF Quiet
<1> QED
    BY <1>1, <1>2, LoadedHow

\* SilentInv is kept: what takes an entry down leaves it silent.
LEMMA SilentStep ==
    ASSUME TypeOK, ConnInv, EntryInv, GateInv, HeldInv, ClientInv, SilentInv, Effect
    PROVE  SilentInv'
<1> SUFFICES ASSUME NEW f, f \in Used', ~Live(f)', ~entries'[f].deleted,
                    entries'[f].end # "daemon_shutdown"
             PROVE  Silent(f)'
    BY DEF SilentInv, Silent, Quiet, Live
<1>0. Used \subseteq Entries /\ NoEntry \notin Entries /\ used \in Nat
    BY Facts
<1>1. f \in Used
  <2>1. CASE f \notin Used
    <3>1. \E c \in Clients : LoadEffect(c) /\ used' = used + 1
        BY <2>1, NewByLoad DEF Used
    <3>2. PICK c \in Clients : LoadEffect(c) /\ used' = used + 1
        BY <3>1
    <3>3. f = used + 1
        BY <1>0, <2>1, <3>2 DEF Used
    <3>4. conn'[c].pc = "register" /\ conn'[c].ent = used + 1
        BY <1>0, <3>2 DEF LoadEffect, Moved, Goes
    <3> QED
        BY <3>3, <3>4 DEF Live, At
  <2> QED
    BY <2>1
<1>2. ~entries[f].deleted /\ entries[f].end # "daemon_shutdown"
    BY <1>1, FateStays
<1>3. \A d \in Clients : Loaded(d)' => conn'[d].ent # f
    BY DEF Live, At, Loaded
<1>4. CASE Silent(f)
    BY <1>1, <1>4, SilentStays
<1>5. CASE IsRegistered(f)
  <2>1. SweptAway(f)
    BY <1>1, <1>5, LeavesHow DEF Live, IsRegistered
  <2>2. \A d \in Clients : conn[d].pc \in Inside => conn[d].ent # f
    BY <1>2, <2>1 DEF SweptAway, StillIdle, ClientInv, InsideInv
  <2>3. ending[f] \notin {"admission", "wait"}
    BY <1>0, <1>1, <2>1, DaemonAssumption DEF SweptAway, GateInv
  <2>4. entries[f].queued = {} /\ entries[f].turn = 0
    BY <2>1 DEF SweptAway, StillIdle, Busy
  <2>5. Quiet(f)'
    BY <2>1, <2>2, <2>3, <2>4 DEF SweptAway, Quiet, Inside
  <2> QED
    BY <1>3, <2>5 DEF Silent
<1>6. CASE ~IsRegistered(f) /\ \E c \in Clients : Loaded(c) /\ conn[c].ent = f
  <2>1. PICK c \in Clients : Loaded(c) /\ conn[c].ent = f
    BY <1>6
  <2>2. RegisterEffect(c) /\ registry' = registry
    BY <1>1, <1>3, <2>1, UnloadHow DEF Live, IsRegistered
  <2>3. Quiet(f)
    BY <2>1 DEF ClientInv, LoadedInv
  <2>4. entries'[f].queued = {} /\ entries'[f].turn = 0
    BY <1>1, <2>3, QuietWork
  <2>5. \A d \in Clients : conn'[d].ent = f =>
          conn'[d].pc \notin Inside /\ (conn'[d].pc = "admit" => entries[f].stopped)
    BY <1>1, <2>3, QuietConn
  <2>6. entries'[f].stopped <=> entries[f].stopped
    BY <1>1, <2>3, QuietFate
  <2>7. (sweep'.pc \in {"admission", "save"} => sweep'.ent # f) /\ ending'[f] \notin {"admission", "wait"}
    BY <1>1, <2>3, QuietTasks
  <2>8. Quiet(f)'
    BY <2>2, <2>3, <2>4, <2>5, <2>6, <2>7 DEF Quiet, Inside
  <2> QED
    BY <1>3, <2>8 DEF Silent
<1> QED
    BY <1>0, <1>1, <1>2, <1>4, <1>5, <1>6 DEF SilentInv, Live, IsRegistered, Loaded, At

\* OneActive is kept: a core is made only where the others are inert.
LEMMA OneActiveStep ==
    ASSUME TypeOK, ConnInv, EntryInv, GateInv, HeldInv, ClientInv, SilentInv, OneActive, MadeInv,
           LateInv, DeletedInv, Effect
    PROVE  OneActive'
<1>0. Used \subseteq Entries /\ used \in Nat /\ used + 1 \notin Used /\ \A i \in Ids : late[i] \in Nat
    BY Facts DEF Used
<1>1. \A f \in Used : entries'[f].id = entries[f].id
    BY UsedStep
<1>2. \A f \in Used : Inert(f) => Inert(f)'
    BY SilentStays DEF Inert
<1>3. \A f \in Used : entries[f].deleted => entries'[f].deleted
    BY FateStays
<1>4. ASSUME NEW f, f \in Used', f \notin Used
      PROVE  \E c \in Clients : LoadEffect(c) /\ f = used + 1 /\ used' = used + 1
    BY <1>0, <1>4, NewByLoad DEF Used
<1>5. ASSUME NEW c \in Clients, LoadEffect(c), used' = used + 1
      PROVE  /\ entries'[used + 1].id = conn[c].id
             /\ \A f \in Used : entries[f].id = conn[c].id => Inert(f)
  <2>1. entries'[used + 1].id = conn[c].id /\ (conn[c].made \/ disk[conn[c].id] # NoRecord) /\ conn[c].pc = "load"
    BY <1>0, <1>5 DEF LoadEffect, IsNew
  <2>2. ASSUME NEW f \in Used, entries[f].id = conn[c].id PROVE ~entries[f].deleted
    BY <2>1, <2>2 DEF MadeInv, MadeNew, Made, DeletedInv
  <2> QED
    BY <2>1, <2>2 DEF OneActive
<1>6. ASSUME NEW e, NEW f, e \in Used', f \in Used', e # f, entries'[e].id = entries'[f].id
      PROVE  Inert(e)' \/ Inert(f)'
  <2>1. CASE e \in Used /\ f \in Used
    BY <1>1, <1>2, <1>6, <2>1 DEF OneActive
  <2>2. CASE e \notin Used
    BY <1>1, <1>2, <1>4, <1>5, <1>6, <2>2
  <2>3. CASE f \notin Used
    BY <1>1, <1>2, <1>4, <1>5, <1>6, <2>3
  <2> QED
    BY <2>1, <2>2, <2>3
<1>7. ASSUME NEW c \in Clients, conn'[c].pc = "load", NEW f, f \in Used', entries'[f].id = conn'[c].id
      PROVE  Inert(f)' \/ entries'[f].deleted
  <2>0. conn'[c].id = conn[c].id /\ (conn[c].pc = "load" \/ ReserveEffect(c))
    BY <1>7, LoadingHow
  <2>1. f \in Used
    <3>1. CASE f \notin Used
      <4>1. PICK d \in Clients : LoadEffect(d) /\ f = used + 1 /\ used' = used + 1
        BY <1>4, <1>7, <3>1
      <4>2. conn[d].pc = "load" /\ entries'[f].id = conn[d].id /\ d # c /\ conn[c].pc = "load"
        BY <1>0, <1>5, <1>7, <4>1 DEF LoadEffect, Moved
      <4> QED
        BY <1>7, <2>0, <4>2, Places DEF ConnInv
    <3> QED
      BY <3>1
  <2>2. CASE conn[c].pc = "load"
    BY <1>1, <1>2, <1>3, <1>7, <2>0, <2>1, <2>2 DEF OneActive
  <2>3. CASE ReserveEffect(c) /\ conn[c].pc # "load"
    <3>1. conn[c].pc = "reserve" /\ ~Refused(conn[c].id) /\ registry[conn[c].id] = NoEntry /\ conn[c].id \in Ids
      BY <1>7, <2>3 DEF ReserveEffect, Registered, ConnInv, Goes, Moved, GoesAway
    <3>2. ~shutting /\ late[conn[c].id] = 0 /\ conn[c].id \notin creating
      BY <1>0, <3>1 DEF Refused
    <3>3. entries[f].id = conn[c].id
      BY <1>1, <1>7, <2>0, <2>1
    <3>4. ~Live(f)
      <4>1. \A i \in Ids : registry[i] # f
        BY <1>0, <2>1, <3>1, <3>3, Facts DEF EntryInv, RegisteredInv
      <4>2. \A d \in Clients : conn[d].pc = "register" => conn[d].id # conn[c].id
        BY <3>2 DEF TypeOK
      <4>3. \A d \in Clients : conn[d].pc = "register" => conn[d].ent # f
        BY <1>0, <2>1, <3>3, <4>2, Facts DEF ConnInv
      <4> QED
        BY <4>1, <4>3 DEF Live, At
    <3>5. entries[f].end # "daemon_shutdown"
      BY <1>0, <2>1, <3>2 DEF GateInv
    <3>6. Silent(f) \/ entries[f].deleted
      BY <2>1, <3>4, <3>5 DEF SilentInv
    <3>7. entries[f].saves = 0
      BY <1>0, <2>1, <3>2, <3>3, Facts DEF LateInv
    <3> QED
      BY <1>2, <1>3, <2>1, <3>6, <3>7 DEF Inert
  <2> QED
    BY <2>0, <2>2, <2>3
<1> QED
    BY <1>6, <1>7 DEF OneActive, Inert, Silent, Quiet, Loaded

-----------------------------------------------------------------------------
(* The types.                                                               *)

\* The type of registry.
LEMMA RegistryType ==
    ASSUME TypeOK, [Next]_vars
    PROVE  registry' \in [Ids -> Entries \cup {NoEntry}]
<1> DEFINE Goal == registry' \in [Ids -> Entries \cup {NoEntry}]
<1>1. \A d \in Clients : conn[d].ent \in Entries \cup {NoEntry}
    BY DEF TypeOK, ConnRecords
<1> USE DEF TypeOK
<1> USE DEF counters
<1>6. ASSUME NEW c \in Clients, \/ Connect(c) \/ Reserve(c) \/ Load(c) \/ Attach(c)
      PROVE  Goal
    BY <1>6 DEF Connect, Reserve, Load, Attach
<1>7. ASSUME NEW c \in Clients, Register(c) PROVE Goal
    BY <1>7, <1>1 DEF Register
<1>8. ASSUME NEW c \in Clients, \/ Fit(c) \/ Readmit(c) \/ AttachOk(c)
      PROVE  Goal
    BY <1>8 DEF Fit, Readmit, AttachOk
<1>9. ASSUME NEW c \in Clients, Admit(c) PROVE Goal
    BY <1>9 DEF Admit, Rollback
<1>10. ASSUME NEW c \in Clients, HandshakeFails(c) PROVE Goal
    BY <1>10 DEF HandshakeFails, Rollback
<1>11. ASSUME NEW c \in Clients, \/ Detach(c) \/ Prompt(c) \/ StopGate(c) \/ StopAdmission(c)
       PROVE  Goal
    BY <1>11 DEF Detach, Prompt, StopGate, StopAdmission
<1>12. ASSUME NEW c \in Clients, StopDelete(c) PROVE Goal
    BY <1>12 DEF StopDelete, Remove
<1>13. ASSUME NEW e \in Entries, \/ BeginTurn(e) \/ EndTurn(e) \/ LateSave(e) \/ TimePasses(e)
                                 \/ EndAdmission(e)
       PROVE  Goal
    BY <1>13 DEF BeginTurn, EndTurn, LateSave, TimePasses, EndAdmission
<1>14. ASSUME NEW e \in Entries, EndSave(e) PROVE Goal
    BY <1>14 DEF EndSave, Remove
<1>15. ASSUME \/ SweepScan \/ SweepGate \/ SweepNext \/ ShutdownBegin \/ ShutdownGate
              \/ ShutdownDone
       PROVE  Goal
    BY <1>15 DEF SweepScan, SweepGate, SweepNext, ShutdownBegin, ShutdownGate, ShutdownDone
<1>16. ASSUME SweepCheck PROVE Goal
    BY <1>16 DEF SweepCheck, Remove
<1>17. ASSUME SweepSaved PROVE Goal
    BY <1>17 DEF SweepSaved, Remove
<1>18. ASSUME UNCHANGED vars PROVE Goal
    BY <1>18 DEF vars, counters
<1> HIDE DEF Goal
<1>19. Goal
    BY <1>6, <1>7, <1>8, <1>9, <1>10, <1>11, <1>12, <1>13, <1>14, <1>15, <1>16, <1>17,
        <1>18
    DEF Next, ClientStep, EntryStep
<1> QED
    BY <1>19 DEF Goal

\* The sweep names an entry while it works on one.
LEMMA HeldEntry ==
    ASSUME TypeOK, HeldInv, sweep.pc \in {"admission", "save"}
    PROVE  sweep.ent \in Entries
    BY Facts DEF HeldInv, SweepHeld

\* The type of disk.
LEMMA DiskType ==
    ASSUME TypeOK, HeldInv, [Next]_vars
    PROVE  disk' \in [Ids -> (SUBSET (1..MaxTurns)) \cup {NoRecord}]
<1> DEFINE Goal == disk' \in [Ids -> (SUBSET (1..MaxTurns)) \cup {NoRecord}]
<1>1. /\ disk \in [Ids -> (SUBSET (1..MaxTurns)) \cup {NoRecord}]
      /\ \A f \in Entries : /\ entries[f].mem \in SUBSET (1..MaxTurns) /\ entries[f].turn \in 0..MaxTurns
                            /\ entries[f].turn # 0 => entries[f].mem \cup {entries[f].turn} \in SUBSET (1..MaxTurns)
    BY DaemonAssumption DEF TypeOK, EntryRecords
<1> USE <1>1
<1> USE DEF counters
<1>6. ASSUME NEW c \in Clients, \/ Connect(c) \/ Reserve(c) \/ Load(c) \/ Attach(c)
      PROVE  Goal
    BY <1>6 DEF Connect, Reserve, Load, Attach
<1>7. ASSUME NEW c \in Clients, Register(c) PROVE Goal
    BY <1>7 DEF Register, Deleted
<1>8. ASSUME NEW c \in Clients, \/ Fit(c) \/ Readmit(c) \/ AttachOk(c)
      PROVE  Goal
    BY <1>8 DEF Fit, Readmit, AttachOk
<1>9. ASSUME NEW c \in Clients, Admit(c) PROVE Goal
    BY <1>9 DEF Admit, Rollback, Deleted
<1>10. ASSUME NEW c \in Clients, HandshakeFails(c) PROVE Goal
    BY <1>10 DEF HandshakeFails, Rollback, Deleted
<1>11. ASSUME NEW c \in Clients, \/ Detach(c) \/ Prompt(c) \/ StopGate(c) \/ StopAdmission(c)
       PROVE  Goal
    BY <1>11 DEF Detach, Prompt, StopGate, StopAdmission
<1>12. ASSUME NEW c \in Clients, StopDelete(c) PROVE Goal
    BY <1>12 DEF StopDelete, Deleted
<1>13. ASSUME NEW e \in Entries, \/ BeginTurn(e) \/ TimePasses(e) \/ EndAdmission(e)
       PROVE  Goal
    BY <1>13 DEF BeginTurn, TimePasses, EndAdmission
<1>14. ASSUME NEW e \in Entries, EndTurn(e) PROVE Goal
    BY <1>14 DEF EndTurn, Save
<1>15. ASSUME NEW e \in Entries, LateSave(e) PROVE Goal
    BY <1>15 DEF LateSave
<1>16. ASSUME NEW e \in Entries, EndSave(e) PROVE Goal
    BY <1>16 DEF EndSave, FinalSave
<1>17. ASSUME \/ SweepScan \/ SweepGate \/ SweepNext \/ SweepCheck \/ ShutdownBegin
              \/ ShutdownGate \/ ShutdownDone
       PROVE  Goal
    BY <1>17 DEF SweepScan, SweepGate, SweepNext, SweepCheck, ShutdownBegin, ShutdownGate,
        ShutdownDone
<1>18. ASSUME SweepSaved PROVE Goal
    BY <1>18, HeldEntry DEF SweepSaved, FinalSave
<1>19. ASSUME UNCHANGED vars PROVE Goal
    BY <1>19 DEF vars, counters
<1> HIDE DEF Goal
<1>20. Goal
    BY <1>6, <1>7, <1>8, <1>9, <1>10, <1>11, <1>12, <1>13, <1>14, <1>15, <1>16, <1>17,
        <1>18, <1>19
    DEF Next, ClientStep, EntryStep
<1> QED
    BY <1>20 DEF Goal

\* The type of late.
LEMMA LateType ==
    ASSUME TypeOK, EntryInv, LateInv, [Next]_vars
    PROVE  late' \in [Ids -> Nat]
<1>1. late \in [Ids -> Nat]
    BY DEF TypeOK
<1>2. \A f \in Entries : entries[f].saves > 0 => entries[f].id \in Ids /\ late[entries[f].id] - 1 \in Nat
    BY <1>1, Facts DEF EntryInv, FreshInv, NamedInv, LateInv
<1>3. ASSUME NEW i PROVE [late EXCEPT ![i] = late[i] + 1] \in [Ids -> Nat]
  <2>1. CASE i \in Ids
    <3>1. late[i] + 1 \in Nat
        BY <1>1, <2>1
    <3> QED
        BY <1>1, <3>1
  <2>2. CASE i \notin Ids
    <3>1. [late EXCEPT ![i] = late[i] + 1] = late
        BY <1>1, <2>2
    <3> QED
        BY <1>1, <3>1
  <2> QED
    BY <2>1, <2>2
<1> USE <1>1, <1>2
<1> USE DEF counters
<1>6. ASSUME NEW c \in Clients, \/ Connect(c) \/ Reserve(c) \/ Load(c) \/ Register(c) \/ Attach(c)
      PROVE  late' \in [Ids -> Nat]
    BY <1>6 DEF Connect, Reserve, Load, Register, Attach
<1>7. ASSUME NEW c \in Clients, \/ Admit(c) \/ Fit(c) \/ Readmit(c) \/ AttachOk(c)
                                \/ HandshakeFails(c)
      PROVE  late' \in [Ids -> Nat]
    BY <1>7 DEF Admit, Fit, Readmit, AttachOk, HandshakeFails
<1>8. ASSUME NEW c \in Clients, \/ Detach(c) \/ Prompt(c) \/ StopGate(c) \/ StopAdmission(c)
                                \/ StopDelete(c)
      PROVE  late' \in [Ids -> Nat]
    BY <1>8 DEF Detach, Prompt, StopGate, StopAdmission, StopDelete
<1>9. ASSUME NEW e \in Entries, \/ BeginTurn(e) \/ EndTurn(e) \/ TimePasses(e) \/ EndAdmission(e)
      PROVE  late' \in [Ids -> Nat]
    BY <1>9 DEF BeginTurn, EndTurn, TimePasses, EndAdmission
<1>10. ASSUME NEW e \in Entries, LateSave(e) PROVE late' \in [Ids -> Nat]
    BY <1>10 DEF LateSave, DropGuard
<1>11. ASSUME NEW e \in Entries, EndSave(e) PROVE late' \in [Ids -> Nat]
    BY <1>11, <1>3 DEF EndSave, FinalSave
<1>12. ASSUME \/ SweepScan \/ SweepGate \/ SweepNext \/ SweepCheck \/ ShutdownBegin
              \/ ShutdownGate \/ ShutdownDone
       PROVE  late' \in [Ids -> Nat]
    BY <1>12 DEF SweepScan, SweepGate, SweepNext, SweepCheck, ShutdownBegin, ShutdownGate,
        ShutdownDone
<1>13. ASSUME SweepSaved PROVE late' \in [Ids -> Nat]
    BY <1>13, <1>3 DEF SweepSaved, FinalSave
<1>14. ASSUME UNCHANGED vars PROVE late' \in [Ids -> Nat]
    BY <1>14 DEF vars, counters
<1>15. late' \in [Ids -> Nat]
    BY <1>6, <1>7, <1>8, <1>9, <1>10, <1>11, <1>12, <1>13,
        <1>14
    DEF Next, ClientStep, EntryStep
<1> QED
    BY <1>15

\* The types of the sweep and of the shutdown.
LEMMA TasksType ==
    ASSUME TypeOK, [Next]_vars
    PROVE  /\ sweep' \in [pc : {"rest", "gate", "next", "admission", "save"},
                         todo : SUBSET Ids, ent : Entries \cup {NoEntry}]
           /\ ending' \in [Entries -> {"no", "admission", "wait", "done"}]
<1> DEFINE Goal == /\ sweep' \in [pc : {"rest", "gate", "next", "admission", "save"},
                                 todo : SUBSET Ids, ent : Entries \cup {NoEntry}]
                   /\ ending' \in [Entries -> {"no", "admission", "wait", "done"}]
<1>1. /\ sweep \in [pc : {"rest", "gate", "next", "admission", "save"}, todo : SUBSET Ids, ent : Entries \cup {NoEntry}]
      /\ ending \in [Entries -> {"no", "admission", "wait", "done"}]
      /\ registry \in [Ids -> Entries \cup {NoEntry}] /\ Registered \subseteq Ids
    BY DEF TypeOK, Registered
<1>2. ASSUME NEW i \in sweep.todo, NEW l \in {"next", "admission"}
      PROVE  [pc |-> l, todo |-> sweep.todo \ {i}, ent |-> registry[i]]
                \in [pc : {"rest", "gate", "next", "admission", "save"}, todo : SUBSET Ids, ent : Entries \cup {NoEntry}]
    BY <1>1, <1>2
<1> USE <1>1
<1> USE DEF counters
<1>6. ASSUME NEW c \in Clients, \/ Connect(c) \/ Reserve(c) \/ Load(c) \/ Register(c) \/ Attach(c)
      PROVE  Goal
    BY <1>6 DEF Connect, Reserve, Load, Register, Attach
<1>7. ASSUME NEW c \in Clients, \/ Admit(c) \/ Fit(c) \/ Readmit(c) \/ AttachOk(c)
                                \/ HandshakeFails(c)
      PROVE  Goal
    BY <1>7 DEF Admit, Fit, Readmit, AttachOk, HandshakeFails
<1>8. ASSUME NEW c \in Clients, \/ Detach(c) \/ Prompt(c) \/ StopGate(c) \/ StopAdmission(c)
                                \/ StopDelete(c)
      PROVE  Goal
    BY <1>8 DEF Detach, Prompt, StopGate, StopAdmission, StopDelete
<1>9. ASSUME NEW e \in Entries, \/ BeginTurn(e) \/ EndTurn(e) \/ LateSave(e) \/ TimePasses(e)
                                \/ EndAdmission(e) \/ EndSave(e)
      PROVE  Goal
    BY <1>9 DEF BeginTurn, EndTurn, LateSave, TimePasses, EndAdmission, EndSave
<1>10. ASSUME \/ SweepScan \/ SweepGate \/ SweepCheck \/ SweepSaved \/ ShutdownBegin
              \/ ShutdownGate \/ ShutdownDone
       PROVE  Goal
    BY <1>10 DEF SweepScan, SweepGate, SweepCheck, SweepSaved, ShutdownBegin, ShutdownGate,
        ShutdownDone
<1>11. ASSUME SweepNext PROVE Goal
    BY <1>11, <1>2 DEF SweepNext
<1>12. ASSUME UNCHANGED vars PROVE Goal
    BY <1>12 DEF vars, counters
<1> HIDE DEF Goal
<1>13. Goal
    BY <1>6, <1>7, <1>8, <1>9, <1>10, <1>11, <1>12
    DEF Next, ClientStep, EntryStep
<1> QED
    BY <1>13 DEF Goal

\* The types of the other variables.
LEMMA PlainType ==
    ASSUME TypeOK, ConnInv, HeldInv, [Next]_vars
    PROVE  /\ creating' \subseteq Ids /\ gate' \in Actors \cup {Free} /\ shutting' \in BOOLEAN
           /\ used' \in 0..MaxEntries /\ connects' \in 0..MaxConnects /\ turns' \in 0..MaxTurns
<1> DEFINE Goal == /\ creating' \subseteq Ids /\ gate' \in Actors \cup {Free}
                   /\ shutting' \in BOOLEAN /\ used' \in 0..MaxEntries
                   /\ connects' \in 0..MaxConnects /\ turns' \in 0..MaxTurns
<1>1. /\ creating \subseteq Ids /\ gate \in Actors \cup {Free} /\ shutting \in BOOLEAN
      /\ used \in 0..MaxEntries /\ connects \in 0..MaxConnects /\ turns \in 0..MaxTurns
      /\ {MaxEntries, MaxConnects, MaxTurns} \subseteq Nat
      /\ Clients \subseteq Actors /\ Sweeper \in Actors /\ Shutdown \in Actors
    BY DaemonAssumption DEF TypeOK, Actors
<1>2. \A c \in Clients : conn[c].pc # "away" => conn[c].id \in Ids
    BY DEF ConnInv
<1> USE <1>1, <1>2
<1> USE DEF counters, At
<1>6. ASSUME NEW c \in Clients, \/ Connect(c) \/ Reserve(c) \/ Load(c) \/ Attach(c)
      PROVE  Goal
    BY <1>6 DEF Connect, Reserve, Load, Attach
<1>7. ASSUME NEW c \in Clients, Register(c) PROVE Goal
    BY <1>7 DEF Register, Unreserved
<1>8. ASSUME NEW c \in Clients, \/ Admit(c) \/ Fit(c) \/ Readmit(c) \/ AttachOk(c)
                                \/ HandshakeFails(c)
      PROVE  Goal
    BY <1>8 DEF Admit, Fit, Readmit, AttachOk, HandshakeFails
<1>9. ASSUME NEW c \in Clients, \/ Detach(c) \/ Prompt(c) \/ StopGate(c) \/ StopAdmission(c)
                                \/ StopDelete(c)
      PROVE  Goal
    BY <1>9 DEF Detach, Prompt, StopGate, StopAdmission, StopDelete
<1>10. ASSUME NEW e \in Entries, \/ BeginTurn(e) \/ EndTurn(e) \/ LateSave(e) \/ TimePasses(e)
                                 \/ EndAdmission(e) \/ EndSave(e)
       PROVE  Goal
    BY <1>10 DEF BeginTurn, EndTurn, LateSave, TimePasses, EndAdmission, EndSave
<1>11. ASSUME \/ SweepScan \/ SweepGate \/ SweepNext \/ SweepCheck \/ SweepSaved \/ ShutdownBegin
              \/ ShutdownGate \/ ShutdownDone
       PROVE  Goal
    BY <1>11 DEF SweepScan, SweepGate, SweepNext, SweepCheck, SweepSaved, ShutdownBegin,
        ShutdownGate, ShutdownDone
<1>12. ASSUME UNCHANGED vars PROVE Goal
    BY <1>12 DEF vars, counters
<1> HIDE DEF Goal
<1>13. Goal
    BY <1>6, <1>7, <1>8, <1>9, <1>10, <1>11, <1>12
    DEF Next, ClientStep, EntryStep
<1> QED
    BY <1>13 DEF Goal

\* TypeOK is kept.
LEMMA TypeStep ==
    ASSUME TypeOK, ConnInv, EntryInv, HeldInv, LateInv, [Next]_vars
    PROVE  TypeOK'
<1>1. Effect
    BY StepEffect DEF Known
<1>2. OpeningIds'
    BY <1>1, OpeningStep
<1>3. creating' = {conn'[c].id : c \in {d \in Clients : conn'[d].pc \in {"load", "register"}}}
    BY <1>2 DEF OpeningIds, Opening
<1>4. entries' \in [Entries -> EntryRecords] /\ conn' \in [Clients -> ConnRecords]
    BY <1>1, RecordsStep DEF TypeOK
<1> QED
    BY <1>3, <1>4, RegistryType, DiskType, LateType, TasksType, PlainType DEF TypeOK

-----------------------------------------------------------------------------
(* The record.                                                              *)

\* The record stays deleted.
LEMMA GoneStays ==
    ASSUME TypeOK, ConnInv, EntryInv, HeldInv, Effect, NEW i, Gone(i)
    PROVE  Gone(i)'
    BY UsedStep, FateStays DEF Gone

\* RecordInv is kept.
LEMMA RecordStep ==
    ASSUME DaemonInv, RecordInv, Effect, TypeOK'
    PROVE  RecordInv'
<1> USE DEF DaemonInv, RecordInv
<1>1. /\ Used \subseteq Entries /\ used \in Nat /\ used + 1 \notin Used /\ Used \subseteq Used'
      /\ \A f \in Used : entries'[f].id = entries[f].id /\ entries[f].id \in Ids
    BY Facts, UsedStep DEF EntryInv, NamedInv, Used
<1>2. \A f \in Used : Inert(f) => Inert(f)'
    BY SilentStays DEF Inert
<1>3. \A f \in Used : entries[f].deleted => entries'[f].deleted
    BY FateStays
<1>4. \A i : Gone(i) => Gone(i)'
    BY GoneStays
<1>5. \A f \in Entries : entries'[f].mem # NoRecord
    BY DaemonAssumption DEF TypeOK, EntryRecords
<1>6. ASSUME NEW f, f \in Used', f \notin Used
      PROVE  /\ \E c \in Clients : LoadEffect(c) /\ f = used + 1 /\ used' = used + 1
             /\ f \in Entries /\ ~Kept(f)' /\ ~entries'[f].deleted
             /\ disk'[entries'[f].id] = disk[entries'[f].id]
             /\ entries'[f].mem # {} => disk[entries'[f].id] = entries'[f].mem
             /\ \A g \in Used : entries[g].id = entries'[f].id => disk[entries'[f].id] = entries'[f].mem
  <2>1. PICK c \in Clients : LoadEffect(c) /\ f = used + 1 /\ used' = used + 1
    BY <1>1, <1>6, NewByLoad DEF Used
  <2>2. /\ f \in Entries /\ disk' = disk /\ conn[c].pc = "load"
        /\ IsNew(entries'[f], conn[c].id, IF conn[c].made THEN {} ELSE disk[conn[c].id])
    BY <1>1, <2>1 DEF LoadEffect
  <2>3. conn[c].made => \A g \in Used : entries[g].id # conn[c].id
    BY <2>2 DEF MadeInv, MadeNew, Made
  <2> QED
    BY <2>1, <2>2, <2>3 DEF IsNew, Kept
\* A write by another core keeps what was taken down.
<1>7. ASSUME NEW f \in Used, InRecord(f), entries'[f].mem = entries[f].mem,
             \A w \in Used : w # f /\ Writes(w, entries[f].id) => entries[f].mem \subseteq entries[w].mem
      PROVE  InRecord(f)'
  <2> DEFINE i == entries[f].id
  <2>1. entries'[f].id = i /\ i \in Ids
    BY <1>1
  <2>2. CASE Gone(i)'
    BY <2>1, <2>2 DEF InRecord, Gone
  <2>3. CASE entries[f].mem = {}
    BY <1>7, <2>3 DEF InRecord
  <2>4. CASE ~Gone(i)' /\ disk'[i] = disk[i]
    BY <1>4, <1>7, <2>1, <2>4 DEF InRecord
  <2>5. CASE \E w \in Used : entries[w].id = i /\ entries'[w].deleted
    BY <1>1, <2>1, <2>2, <2>5 DEF Gone
  <2>6. CASE \E w \in Used : Writes(w, i)
    <3>1. PICK w \in Used : Writes(w, i)
      BY <2>6
    <3>2. entries[w].mem \subseteq entries'[w].mem /\ disk'[i] = entries'[w].mem /\ w \in Entries
      BY <1>1, <3>1, MemHow DEF Writes
    <3>3. entries'[f].mem \subseteq disk'[i] /\ disk'[i] # NoRecord
      BY <1>5, <1>7, <3>1, <3>2
    <3> QED
      BY <2>1, <3>3 DEF InRecord
  <2> QED
    BY <2>1, <2>2, <2>4, <2>5, <2>6, DiskHow
<1>8. CleanInv'
  <2> SUFFICES ASSUME NEW f, f \in Used', ~Inert(f)', entries'[f].clean
               PROVE  InRecord(f)'
    BY DEF CleanInv, InRecord, Gone
  <2>1. CASE f \notin Used
    BY <1>5, <1>6, <2>1 DEF InRecord
  <2>2. CASE f \in Used
    <3>1. ~Inert(f)
      BY <1>2, <2>2
    <3>2. \A w \in Used : w # f /\ entries[w].id = entries[f].id => Inert(w)
      BY <2>2, <3>1 DEF OneActive
    <3>3. CASE entries[f].clean /\ entries'[f].mem = entries[f].mem
      BY <1>7, <2>2, <3>1, <3>2, <3>3 DEF CleanInv, Writes
    <3>4. CASE entries[f].deleted
      BY <1>1, <1>3, <2>2, <3>4 DEF InRecord, Gone
    <3>5. CASE disk'[entries[f].id] = entries'[f].mem
      BY <1>1, <1>5, <2>2, <3>5 DEF InRecord
    <3> QED
      BY <2>2, <3>3, <3>4, <3>5, CleanHow
  <2> QED
    BY <2>1, <2>2
<1>9. KeptInv'
  <2> SUFFICES ASSUME NEW f, f \in Used', Kept(f)'
               PROVE  InRecord(f)' /\ entries'[f].turn = 0 /\ entries'[f].stopped
    BY DEF KeptInv, InRecord, Gone, Kept
  <2>1. f \in Used
    BY <1>6
  <2>2. CASE Kept(f)
    <3>1. InRecord(f) /\ entries[f].turn = 0 /\ entries[f].stopped
      BY <2>1, <2>2 DEF KeptInv
    <3>2. entries'[f].mem = entries[f].mem
      BY <2>1, <3>1, MemHow
    <3>3. \A w \in Used : w # f /\ Writes(w, entries[f].id) => entries[f].mem \subseteq entries[w].mem
      BY <2>1, <2>2 DEF OlderInv, Writes
    <3> QED
      BY <1>7, <2>1, <3>1, <3>2, <3>3, StoppedStays
  <2>3. CASE TakenDownKept(f)
    <3>1. CASE entries[f].clean /\ disk' = disk
      <4>1. InRecord(f)
        BY <2>1, <2>3, <3>1 DEF TakenDownKept, CleanInv
      <4> QED
        BY <1>1, <1>4, <2>1, <2>3, <3>1, <4>1 DEF TakenDownKept, InRecord, Gone
    <3>2. CASE entries[f].deleted
      BY <1>1, <1>3, <2>1, <2>3, <3>2 DEF TakenDownKept, InRecord, Gone
    <3>3. CASE disk'[entries[f].id] = entries'[f].mem
      BY <1>1, <1>5, <2>1, <2>3, <3>3 DEF TakenDownKept, InRecord
    <3> QED
      BY <2>3, <3>1, <3>2, <3>3 DEF TakenDownKept
  <2> QED
    BY <2>1, <2>2, <2>3, KeptHow
<1>10. OlderInv'
  <2> SUFFICES ASSUME NEW e, NEW f, e \in Used', f \in Used', e # f, entries'[e].id = entries'[f].id,
                      Kept(f)', ~Inert(e)', ~entries'[e].deleted
               PROVE  entries'[f].mem \subseteq entries'[e].mem
    BY DEF OlderInv, Kept, Inert, Silent, Quiet, Loaded
  <2>1. f \in Used
    BY <1>6
  <2>2. CASE e \notin Used
    <3>1. /\ disk[entries[f].id] = entries'[e].mem
          /\ e \in Entries /\ \E c \in Clients : LoadEffect(c) /\ used' = used + 1
      BY <1>1, <1>6, <2>1, <2>2
    <3>2. Kept(f) /\ entries'[f].mem = entries[f].mem
      <4>1. PICK c \in Clients : LoadEffect(c) /\ used' = used + 1
        BY <3>1
      <4>2. entries'[f] = entries[f]
        BY <1>1, <2>1, <4>1 DEF LoadEffect
      <4> QED
        BY <4>2 DEF Kept
    <3>3. disk[entries[f].id] # NoRecord
      BY <1>5, <3>1
    <3>4. ~Gone(entries[f].id)
      BY <3>3 DEF Gone, DeletedInv
    <3> QED
      BY <2>1, <3>1, <3>2, <3>4 DEF KeptInv, InRecord
  <2>3. CASE e \in Used
    <3>1. ~Inert(e) /\ ~entries[e].deleted /\ entries[e].id = entries[f].id
      BY <1>1, <1>2, <1>3, <2>1, <2>3
    <3>2. Inert(f)
      BY <2>1, <2>3, <3>1 DEF OneActive
    <3>3. Kept(f)
      BY <2>1, <3>2, KeptHow DEF TakenDownKept
    <3>4. entries[f].mem \subseteq entries[e].mem /\ entries[f].turn = 0
      BY <2>1, <2>3, <3>1, <3>3 DEF OlderInv, KeptInv
    <3> QED
      BY <2>1, <2>3, <3>4, MemHow
  <2> QED
    BY <2>2, <2>3
<1>11. EndInv'
    BY EndStep DEF ClientInv
<1> QED
    BY <1>8, <1>9, <1>10, <1>11

-----------------------------------------------------------------------------
(* The number of sessions.                                                  *)

\* LimitInv is kept.
LEMMA LimitStep ==
    ASSUME TypeOK, ConnInv, LimitInv, Effect
    PROVE  LimitInv'
<1> DEFINE r == Cardinality(Registered)
           k == Cardinality(creating)
<1>1. IsFiniteSet(Registered) /\ IsFiniteSet(creating) /\ r \in Nat /\ k \in Nat /\ MaxSessions \in Nat
    BY FS_CardinalityType, DaemonAssumption DEF LimitInv
<1>2. r + k <= MaxSessions
    BY DEF LimitInv, WithinLimit
<1>3. CASE Registered' \subseteq Registered /\ creating' \subseteq creating
  <2>1. /\ IsFiniteSet(Registered') /\ Cardinality(Registered') <= r
        /\ IsFiniteSet(creating') /\ Cardinality(creating') <= k
    BY <1>1, <1>3, FS_Subset
  <2>2. Cardinality(Registered') \in Nat /\ Cardinality(creating') \in Nat
    BY <2>1, FS_CardinalityType
  <2>3. Cardinality(Registered') + Cardinality(creating') <= MaxSessions
    <3> HIDE DEF r, k
    <3> QED
      BY <1>1, <1>2, <2>1, <2>2
  <2> QED
    BY <2>1, <2>3 DEF LimitInv, WithinLimit
<1>4. CASE Registered' = Registered /\ ~Full /\ \E i : creating' = creating \cup {i}
  <2>1. PICK i : creating' = creating \cup {i}
    BY <1>4
  <2>2. IsFiniteSet(creating') /\ (Cardinality(creating') = k \/ Cardinality(creating') = k + 1)
    BY <1>1, <2>1, FS_AddElement
  <2>3. r + k < MaxSessions
    BY <1>1, <1>4 DEF Full
  <2>4. r + Cardinality(creating') <= MaxSessions
    <3> HIDE DEF r, k
    <3> QED
      BY <1>1, <2>2, <2>3
  <2> QED
    BY <1>1, <1>4, <2>2, <2>4 DEF LimitInv, WithinLimit
<1>5. CASE \E i \in creating : Registered' = Registered \cup {i} /\ creating' = creating \ {i}
  <2>1. PICK i \in creating : Registered' = Registered \cup {i} /\ creating' = creating \ {i}
    BY <1>5
  <2>2. /\ IsFiniteSet(Registered')
        /\ Cardinality(Registered') = r \/ Cardinality(Registered') = r + 1
    BY <1>1, <2>1, FS_AddElement
  <2>3. IsFiniteSet(creating') /\ Cardinality(creating') = k - 1
    BY <1>1, <2>1, FS_RemoveElement
  <2>4. Cardinality(Registered') + Cardinality(creating') <= MaxSessions
    <3> HIDE DEF r, k
    <3> QED
      BY <1>1, <1>2, <2>2, <2>3
  <2> QED
    BY <2>2, <2>3, <2>4 DEF LimitInv, WithinLimit
<1> QED
    BY <1>3, <1>4, <1>5, LimitHow DEF LimitHolds

-----------------------------------------------------------------------------
(* The theorems.                                                            *)

\* The inductive invariant holds initially.
LEMMA DaemonInit ==
    ASSUME Init
    PROVE  DaemonInv /\ RecordInv /\ LimitInv
<1>1. /\ used = 0 /\ gate = Free /\ creating = {} /\ sweep.pc = "rest"
      /\ \A i \in Ids : registry[i] = NoEntry /\ late[i] = 0
      /\ \A e \in Entries : ending[e] = "no"
      /\ \A c \in Clients : conn[c].pc = "away" /\ conn[c].id = NoEntry /\ conn[c].ent = NoEntry
    BY DEF Init, Away
<1>2. \A e \in Entries : entries[e] \in EntryRecords /\ IsNew(entries[e], NoEntry, {})
    BY NewSet DEF Init
<1>3. Used = {} /\ Registered = {} /\ 0 \in 0..MaxEntries /\ 0 \in 0..MaxConnects /\ 0 \in 0..MaxTurns
    BY <1>1, DaemonAssumption DEF Used, Registered
<1>4. TypeOK
  <2>1. conn \in [Clients -> ConnRecords]
    BY Values DEF Init, Away, ConnRecords
  <2>2. disk \in [Ids -> (SUBSET (1..MaxTurns)) \cup {NoRecord}]
    BY DEF Init
  <2>3. creating = {conn[c].id : c \in {d \in Clients : conn[d].pc \in {"load", "register"}}}
    BY <1>1
  <2>4. entries \in [Entries -> EntryRecords]
    BY <1>2 DEF Init
  <2>5. /\ registry \in [Ids -> Entries \cup {NoEntry}] /\ creating \subseteq Ids
        /\ late \in [Ids -> Nat] /\ gate \in Actors \cup {Free} /\ shutting \in BOOLEAN
        /\ sweep \in [pc : {"rest", "gate", "next", "admission", "save"}, todo : SUBSET Ids,
                      ent : Entries \cup {NoEntry}]
        /\ ending \in [Entries -> {"no", "admission", "wait", "done"}]
    BY DEF Init
  <2> QED
    BY <1>3, <2>1, <2>2, <2>3, <2>4, <2>5 DEF Init, TypeOK
<1>5. ConnInv /\ HeldInv /\ ClientInv
    BY <1>1 DEF ConnInv, HeldInv, SweepHeld, EndingHeld, StopHeld, ClientInv, InsideInv, AdmitInv,
                LoadedInv, Loaded, Inside, Opening
<1>6. EntryInv
    BY <1>1, <1>2, <1>3 DEF EntryInv, NamedInv, FreshInv, RegisteredInv, IsNew
<1>7. GateInv
    BY <1>1, <1>2, DaemonAssumption DEF GateInv, IsNew
<1>8. SilentInv /\ OneActive /\ MadeInv /\ LateInv /\ DeletedInv /\ RecordInv
    BY <1>1, <1>3 DEF SilentInv, OneActive, MadeInv, MadeNew, MadeOnce, Made, LateInv, DeletedInv,
                      RecordInv, CleanInv, KeptInv, OlderInv, EndInv
<1>9. LimitInv
  <2>1. IsFiniteSet({}) /\ Cardinality({}) = 0
    BY FS_EmptySet
  <2> QED
    BY <1>1, <1>3, <2>1, DaemonAssumption DEF LimitInv, WithinLimit
<1> QED
    BY <1>4, <1>5, <1>6, <1>7, <1>8, <1>9 DEF DaemonInv

\* Every step keeps the inductive invariant.
LEMMA DaemonStep ==
    ASSUME DaemonInv, RecordInv, LimitInv, [Next]_vars
    PROVE  DaemonInv' /\ RecordInv' /\ LimitInv'
<1>0. /\ TypeOK /\ ConnInv /\ EntryInv /\ GateInv /\ HeldInv /\ ClientInv /\ SilentInv
      /\ OneActive /\ MadeInv /\ LateInv /\ DeletedInv
      /\ NamedInv /\ FreshInv /\ RegisteredInv /\ SweepHeld /\ EndingHeld /\ StopHeld
      /\ InsideInv /\ AdmitInv /\ LoadedInv /\ MadeOnce
    BY DEF DaemonInv, EntryInv, HeldInv, ClientInv, MadeInv
<1>1. Effect
    BY <1>0, StepEffect DEF Known
<1>2. TypeOK'
    BY <1>0, TypeStep
<1>3. ConnInv' /\ GateInv'
    BY <1>0, <1>1, ConnStep, GateStep
<1>4. NamedInv' /\ FreshInv' /\ RegisteredInv'
    BY <1>0, <1>1, NamedStep, FreshStep, RegisteredStep
<1>5. SweepHeld' /\ EndingHeld' /\ StopHeld'
    BY <1>0, <1>1, SweepHeldStep, EndingHeldStep, StopHeldStep
<1>6. InsideInv' /\ AdmitInv' /\ LoadedInv'
    BY <1>0, <1>1, InsideStep, AdmitStep, LoadedStep
<1>7. SilentInv' /\ OneActive'
    BY <1>0, <1>1, SilentStep, OneActiveStep
<1>8. MadeNew' /\ MadeOnce' /\ LateInv' /\ DeletedInv'
    BY <1>0, <1>1, MadeNewStep, MadeOnceStep, LateStep, DeletedStep
<1>9. DaemonInv'
    BY <1>2, <1>3, <1>4, <1>5, <1>6, <1>7, <1>8 DEF DaemonInv, EntryInv, HeldInv, ClientInv, MadeInv
<1>10. RecordInv'
    BY <1>1, <1>2, RecordStep
<1>11. LimitInv'
    BY <1>0, <1>1, LimitStep
<1> QED
    BY <1>9, <1>10, <1>11

\* The inductive invariant holds in every state of the daemon.
THEOREM DaemonInvariant == Spec => [](DaemonInv /\ RecordInv /\ LimitInv)
<1>1. Init => DaemonInv /\ RecordInv /\ LimitInv
    BY DaemonInit
<1>2. DaemonInv /\ RecordInv /\ LimitInv /\ [Next]_vars => DaemonInv' /\ RecordInv' /\ LimitInv'
    BY DaemonStep
<1> QED
    BY <1>1, <1>2, PTL DEF Spec

\* The variables keep their types, and creating_sessions holds just the ids that an
\* open_session has reserved and not yet registered.
THEOREM DaemonTypeCorrect == Spec => []TypeOK
<1>1. DaemonInv => TypeOK
    BY DEF DaemonInv
<1> QED
    BY <1>1, DaemonInvariant, PTL

\* A core that is registered or loaded is the only one of its id that can still write
\* the record, however open_session, eviction, stop, shutdown and late saves interleave.
THEOREM NoSecondWriter == Spec => []OneWriter
<1>1. DaemonInv => OneWriter
  <2> SUFFICES ASSUME DaemonInv, NEW e \in Entries, NEW f \in Entries, e # f,
                      entries[e].id = entries[f].id, Live(e)
               PROVE  ~Busy(f) /\ entries[f].saves = 0
    BY DEF OneWriter
  <2> USE DEF DaemonInv
  <2>1. NoEntry \notin Entries /\ NoEntry \notin Ids
    BY Facts
  <2>2. e \in Used /\ entries[e].id \in Ids
    BY <2>1 DEF Live, At, ConnInv, EntryInv, RegisteredInv, NamedInv
  <2>3. f \in Used
    BY <2>1, <2>2 DEF EntryInv, FreshInv
  <2>4. ~Inert(e)
    BY <2>1 DEF Live, At, Inert, Silent, Quiet, Loaded
  <2>5. Inert(f)
    BY <2>2, <2>3, <2>4 DEF OneActive
  <2> QED
    BY <2>5 DEF Inert, Silent, Quiet, Busy
<1> QED
    BY <1>1, DaemonInvariant, PTL

\* No prompt task, late save or other core brings back the record of a session that
\* stop_session or rollback_generated_session deleted.
THEOREM DeletionIsFinal == Spec => []DeletedStaysDeleted
<1>1. DaemonInv => DeletedStaysDeleted
    BY DEF DaemonInv, DeletedStaysDeleted, DeletedInv, EntryInv, FreshInv
<1> QED
    BY <1>1, DaemonInvariant, PTL

\* What evict_idle_sessions and shutdown take down without logging a risk is in the
\* record, also after later cores of the id have written it.
THEOREM LossIsLogged == Spec => []NoSilentLoss
<1>1. DaemonInv /\ RecordInv => NoSilentLoss
  <2> SUFFICES ASSUME DaemonInv, RecordInv, NEW e \in Entries, Kept(e)
               PROVE  \/ disk[entries[e].id] # NoRecord /\ entries[e].mem \subseteq disk[entries[e].id]
                      \/ entries[e].mem = {}
                      \/ \E f \in Entries : entries[f].id = entries[e].id /\ entries[f].deleted
    BY DEF NoSilentLoss, Kept
  <2>1. e \in Used /\ Used \subseteq Entries
    BY Facts DEF DaemonInv, EntryInv, FreshInv, Kept
  <2>2. InRecord(e)
    BY <2>1 DEF RecordInv, KeptInv
  <2> QED
    BY <2>1, <2>2 DEF InRecord, Gone
<1> QED
    BY <1>1, DaemonInvariant, PTL

\* Registered sessions and reservations together stay within max_sessions.
THEOREM LimitIsKept == Spec => []WithinLimit
<1>1. LimitInv => WithinLimit
    BY DEF LimitInv
<1> QED
    BY <1>1, DaemonInvariant, PTL

=============================================================================
