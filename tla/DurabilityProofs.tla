-------------------------- MODULE DurabilityProofs --------------------------
(***************************************************************************)
(* Proofs about Durability, for any number of turns and of other callers   *)
(* of persist_current, any number of attempts and any loss.                *)
(*                                                                         *)
(* The argument has two halves.  Saves in flight, detached ones included,  *)
(* carry more of the history the later their generation is, because a turn *)
(* keeps the session lock from its first checkpoint to its commit; so the  *)
(* store never goes back.  And the health turns clean, or the status       *)
(* Saved, only on the word of a gate owner that has committed a capture    *)
(* made after the last request it answers for.                             *)
(***************************************************************************)
EXTENDS Durability, TLAPS

-----------------------------------------------------------------------------
(* The inductive invariant.                                                 *)

InTurn == {"turn", "ckcapture", "cksave", "ckreply"}
Announced == {"capture", "save", "reply", "clean", "decide", "publish"}
Owning == {"owner", "tosaving"} \cup Announced

\* The two locks are held by the callers that are in their sections.
LockInv ==
    /\ \A p \in Persisters : st[p].pc \in InTurn <=> session = p
    /\ \A p \in Persisters : st[p].pc \in Owning <=> gate = p

\* The saves that may still reach the store.
InFlight ==
    detached \cup {[gen |-> st[p].gen, payload |-> st[p].payload] :
                     p \in {q \in Persisters : st[q].pc \in {"save", "cksave"}}}

\* Later generations reflect at least as many mutations.
FlightInv ==
    /\ stored <= version /\ lastSaved <= generation
    /\ \A a \in InFlight : /\ a.gen <= generation /\ a.payload <= version
                           /\ a.gen > lastSaved => stored <= a.payload
    /\ \A a, b \in InFlight : a.gen < b.gen => a.payload <= b.payload
    /\ session # NoOne =>
         /\ stored <= st[session].payload /\ st[session].payload <= version
         /\ \A a \in InFlight : a.payload <= st[session].payload

\* Requests, and the mutations they stand for.
RequestInv ==
    /\ completed <= requested /\ registered <= version
    /\ \A p \in Persisters : /\ st[p].mutation <= version
                             /\ st[p].handled <= requested /\ st[p].ticket <= requested
    /\ requested > 0 => \E p \in Persisters : st[p].ticket = requested /\ st[p].pc # "idle"

\* What the gate owner has captured and committed.
OwnerInv ==
    \A p \in Persisters :
        /\ st[p].pc \in {"save", "reply", "clean"} /\ requested <= st[p].handled =>
             registered <= st[p].payload
        /\ st[p].pc = "clean" \/ (st[p].pc = "reply" /\ st[p].outcome = "saved") =>
             st[p].payload <= stored
        /\ st[p].pc \in {"clean", "decide"} => st[p].handled <= completed
        /\ st[p].pc = "publish" /\ st[p].next = "saved" =>
             /\ deleted \/ registered <= stored \/ completed < requested
             /\ st[p].ticket <= completed

\* A clean health: nobody is between marking it dirty and marking it clean.
HealthInv ==
    ~deleted /\ ~superseded /\ health = "clean" =>
        /\ registered <= stored \/ completed < requested
        /\ \A p \in Persisters : st[p].pc \notin {"tosaving", "capture", "save", "reply", "clean"}

\* A status Saved: no owner has announced a save, and every request that was
\* answered is complete.
StatusInv ==
    /\ \A p \in Persisters : st[p].pc \in Announced => status \notin {"saved", "unsaved"}
    /\ status = "saved" => deleted \/ registered <= stored \/ completed < requested
    /\ (status = "saved" \/ \E p \in Persisters : st[p].pc = "publish" /\ st[p].next = "saved") =>
         \A q \in Persisters : st[q].pc = "done" => st[q].ticket <= completed

DurabilityInv == TypeOK /\ LockInv /\ FlightInv /\ RequestInv /\ OwnerInv /\ HealthInv /\ StatusInv


-----------------------------------------------------------------------------
(* Types.                                                                   *)

\* Names of the places and statuses.
LEMMA Values ==
    /\ \A l \in {"idle", "turn", "ckcapture", "cksave", "ckreply", "mutated", "requested",
                 "tounsaved", "gate", "owner", "tosaving", "capture", "save", "reply", "clean",
                 "decide", "publish", "done", "dropped"} : l \in Pcs
    /\ \A x \in {"saved", "unsaved", "saving", "degraded", "superseded"} : x \in Statuses
    BY DEF Pcs, Statuses

\* Every step of a caller keeps its local state typed.
LEMMA LocalsStep ==
    ASSUME TypeOK, NEW p \in Persisters, Step(p) \/ Mutate(p) \/ FinalSave(p) \/ Drop(p)
    PROVE  st' \in [Persisters -> Locals]
<1> USE Values
<1>0. /\ st \in [Persisters -> Locals] /\ st[p] \in Locals
      /\ version \in Nat /\ requested \in Nat /\ generation \in Nat
      /\ st[p].attempts \in Nat /\ st[p].next \in Statuses
    BY DEF TypeOK, Locals
<1>1. CASE TurnBegins(p)
    <2>1. st' = [st EXCEPT ![p] = [st[p] EXCEPT !.pc = "turn", !.payload = version]]
        BY <1>0, <1>1 DEF TurnBegins, Goto
    <2>2. [st[p] EXCEPT !.pc = "turn", !.payload = version] \in Locals
        BY <1>0 DEF Locals
    <2> QED
        BY <1>0, <2>1, <2>2
<1>2. CASE CheckpointBegins(p)
    <2>1. st' = [st EXCEPT ![p] = [st[p] EXCEPT !.pc = "ckcapture", !.attempts = 0]]
        BY <1>0, <1>2 DEF CheckpointBegins, Goto
    <2>2. [st[p] EXCEPT !.pc = "ckcapture", !.attempts = 0] \in Locals
        BY <1>0 DEF Locals
    <2> QED
        BY <1>0, <2>1, <2>2
<1>3. CASE CheckpointCapture(p)
    <2>1. st' = [st EXCEPT ![p] = [st[p] EXCEPT !.pc = "cksave", !.gen = generation + 1, !.attempts = st[p].attempts + 1]]
        BY <1>3 DEF CheckpointCapture
    <2>2. \A m \in Nat, n \in Nat : [st[p] EXCEPT !.pc = "cksave", !.gen = m, !.attempts = n] \in Locals
        BY <1>0 DEF Locals
    <2>3. generation + 1 \in Nat /\ st[p].attempts + 1 \in Nat
        BY <1>0
    <2>4. [st[p] EXCEPT !.pc = "cksave", !.gen = generation + 1, !.attempts = st[p].attempts + 1] \in Locals
        BY <2>2, <2>3
    <2> QED
        BY <1>0, <2>1, <2>4
<1>4. CASE CheckpointSave(p)
    <2>1. PICK o \in Outcomes : st' = [st EXCEPT ![p] = [st[p] EXCEPT !.pc = "ckreply", !.outcome = o]]
        BY <1>0, <1>4 DEF CheckpointSave, Goto
    <2>2. [st[p] EXCEPT !.pc = "ckreply", !.outcome = o] \in Locals
        BY <1>0 DEF Locals
    <2> QED
        BY <1>0, <2>1, <2>2
<1>5. CASE CheckpointReply(p)
    <2>1. PICK l \in Pcs, b \in BOOLEAN : st' = [st EXCEPT ![p] = [st[p] EXCEPT !.pc = l, !.checkpointed = b]]
        BY <1>0, <1>5 DEF CheckpointReply, Goto
    <2>2. [st[p] EXCEPT !.pc = l, !.checkpointed = b] \in Locals
        BY <1>0 DEF Locals
    <2> QED
        BY <1>0, <2>1, <2>2
<1>6. CASE TurnCommits(p)
    <2>1. st' = [st EXCEPT ![p] = [st[p] EXCEPT !.pc = "mutated", !.mutation = version + 1]]
        BY <1>6 DEF TurnCommits
    <2>2. \A m \in Nat : [st[p] EXCEPT !.pc = "mutated", !.mutation = m] \in Locals
        BY <1>0 DEF Locals
    <2>3. version + 1 \in Nat
        BY <1>0
    <2>4. [st[p] EXCEPT !.pc = "mutated", !.mutation = version + 1] \in Locals
        BY <2>2, <2>3
    <2> QED
        BY <1>0, <2>1, <2>4
<1>7. CASE Register(p)
    <2>1. st' = [st EXCEPT ![p] = [st[p] EXCEPT !.pc = "requested", !.ticket = requested + 1]]
        BY <1>7 DEF Register
    <2>2. \A m \in Nat : [st[p] EXCEPT !.pc = "requested", !.ticket = m] \in Locals
        BY <1>0 DEF Locals
    <2>3. requested + 1 \in Nat
        BY <1>0
    <2>4. [st[p] EXCEPT !.pc = "requested", !.ticket = requested + 1] \in Locals
        BY <2>2, <2>3
    <2> QED
        BY <1>0, <2>1, <2>4
<1>8. CASE ReadStatus(p)
    <2>1. PICK l \in Pcs : st' = [st EXCEPT ![p] = [st[p] EXCEPT !.pc = l]]
        BY <1>0, <1>8 DEF ReadStatus, Goto
    <2>2. [st[p] EXCEPT !.pc = l] \in Locals
        BY <1>0 DEF Locals
    <2> QED
        BY <1>0, <2>1, <2>2
<1>9. CASE PublishUnsaved(p)
    <2>1. st' = [st EXCEPT ![p] = [st[p] EXCEPT !.pc = "gate"]]
        BY <1>0, <1>9 DEF PublishUnsaved, Goto
    <2>2. [st[p] EXCEPT !.pc = "gate"] \in Locals
        BY <1>0 DEF Locals
    <2> QED
        BY <1>0, <2>1, <2>2
<1>10. CASE TakeGate(p)
    <2>1. PICK l \in Pcs : st' = [st EXCEPT ![p] = [st[p] EXCEPT !.pc = l]]
        BY <1>0, <1>10 DEF TakeGate, Goto
    <2>2. [st[p] EXCEPT !.pc = l] \in Locals
        BY <1>0 DEF Locals
    <2> QED
        BY <1>0, <2>1, <2>2
<1>11. CASE MarkDirty(p)
    <2>1. st' = [st EXCEPT ![p] = [st[p] EXCEPT !.pc = "tosaving"]]
        BY <1>0, <1>11 DEF MarkDirty, Goto
    <2>2. [st[p] EXCEPT !.pc = "tosaving"] \in Locals
        BY <1>0 DEF Locals
    <2> QED
        BY <1>0, <2>1, <2>2
<1>12. CASE PublishSaving(p)
    <2>1. st' = [st EXCEPT ![p] = [st[p] EXCEPT !.pc = "capture", !.handled = requested, !.attempts = 0]]
        BY <1>0, <1>12 DEF PublishSaving, Goto
    <2>2. [st[p] EXCEPT !.pc = "capture", !.handled = requested, !.attempts = 0] \in Locals
        BY <1>0 DEF Locals
    <2> QED
        BY <1>0, <2>1, <2>2
<1>13. CASE Capture(p)
    <2>1. st' = [st EXCEPT ![p] = [st[p] EXCEPT !.pc = "save", !.gen = generation + 1, !.payload = version, !.attempts = st[p].attempts + 1]]
        BY <1>13 DEF Capture
    <2>2. \A m \in Nat, n \in Nat : [st[p] EXCEPT !.pc = "save", !.gen = m, !.payload = version, !.attempts = n] \in Locals
        BY <1>0 DEF Locals
    <2>3. generation + 1 \in Nat /\ st[p].attempts + 1 \in Nat
        BY <1>0
    <2>4. [st[p] EXCEPT !.pc = "save", !.gen = generation + 1, !.payload = version, !.attempts = st[p].attempts + 1] \in Locals
        BY <2>2, <2>3
    <2> QED
        BY <1>0, <2>1, <2>4
<1>14. CASE Save(p)
    <2>1. PICK o \in Outcomes : st' = [st EXCEPT ![p] = [st[p] EXCEPT !.pc = "reply", !.outcome = o]]
        BY <1>0, <1>14 DEF Save, Goto
    <2>2. [st[p] EXCEPT !.pc = "reply", !.outcome = o] \in Locals
        BY <1>0 DEF Locals
    <2> QED
        BY <1>0, <2>1, <2>2
<1>15. CASE ReplyDone(p)
    <2>1. PICK l \in Pcs, x \in Statuses : st' = [st EXCEPT ![p] = [st[p] EXCEPT !.pc = l, !.next = x]]
        BY <1>0, <1>15 DEF ReplyDone, Goto
    <2>2. [st[p] EXCEPT !.pc = l, !.next = x] \in Locals
        BY <1>0 DEF Locals
    <2> QED
        BY <1>0, <2>1, <2>2
<1>16. CASE ReplyStale(p)
    <2>1. PICK l \in Pcs : st' = [st EXCEPT ![p] = [st[p] EXCEPT !.pc = l, !.next = "unsaved"]]
        BY <1>0, <1>16 DEF ReplyStale, Goto
    <2>2. [st[p] EXCEPT !.pc = l, !.next = "unsaved"] \in Locals
        BY <1>0 DEF Locals
    <2> QED
        BY <1>0, <2>1, <2>2
<1>17. CASE ReplyError(p)
    <2>1. PICK l \in Pcs : st' = [st EXCEPT ![p] = [st[p] EXCEPT !.pc = l, !.next = "degraded"]]
        BY <1>0, <1>17 DEF ReplyError, Goto
    <2>2. [st[p] EXCEPT !.pc = l, !.next = "degraded"] \in Locals
        BY <1>0 DEF Locals
    <2> QED
        BY <1>0, <2>1, <2>2
<1>18. CASE MarkClean(p)
    <2>1. st' = [st EXCEPT ![p] = [st[p] EXCEPT !.pc = "decide"]]
        BY <1>0, <1>18 DEF MarkClean, Goto
    <2>2. [st[p] EXCEPT !.pc = "decide"] \in Locals
        BY <1>0 DEF Locals
    <2> QED
        BY <1>0, <2>1, <2>2
<1>19. CASE Decide(p)
    <2>1. PICK x \in Statuses : st' = [st EXCEPT ![p] = [st[p] EXCEPT !.pc = "publish", !.next = x]]
        BY <1>0, <1>19 DEF Decide, Goto
    <2>2. [st[p] EXCEPT !.pc = "publish", !.next = x] \in Locals
        BY <1>0 DEF Locals
    <2> QED
        BY <1>0, <2>1, <2>2
<1>20. CASE Publish(p)
    <2>1. st' = [st EXCEPT ![p] = [st[p] EXCEPT !.pc = "done"]]
        BY <1>0, <1>20 DEF Publish, Goto
    <2>2. [st[p] EXCEPT !.pc = "done"] \in Locals
        BY <1>0 DEF Locals
    <2> QED
        BY <1>0, <2>1, <2>2
<1>21. CASE Mutate(p)
    <2>1. st' = [st EXCEPT ![p] = [st[p] EXCEPT !.pc = "mutated", !.mutation = version + 1]]
        BY <1>21 DEF Mutate
    <2>2. \A m \in Nat : [st[p] EXCEPT !.pc = "mutated", !.mutation = m] \in Locals
        BY <1>0 DEF Locals
    <2>3. version + 1 \in Nat
        BY <1>0
    <2>4. [st[p] EXCEPT !.pc = "mutated", !.mutation = version + 1] \in Locals
        BY <2>2, <2>3
    <2> QED
        BY <1>0, <2>1, <2>4
<1>22. CASE FinalSave(p)
    <2>1. st' = [st EXCEPT ![p] = [st[p] EXCEPT !.pc = "mutated"]]
        BY <1>0, <1>22 DEF FinalSave, Goto
    <2>2. [st[p] EXCEPT !.pc = "mutated"] \in Locals
        BY <1>0 DEF Locals
    <2> QED
        BY <1>0, <2>1, <2>2
<1>23. CASE Drop(p)
    <2>1. st' = [st EXCEPT ![p] = [st[p] EXCEPT !.pc = "dropped"]]
        BY <1>0, <1>23 DEF Drop, Goto
    <2>2. [st[p] EXCEPT !.pc = "dropped"] \in Locals
        BY <1>0 DEF Locals
    <2> QED
        BY <1>0, <2>1, <2>2
<1> QED
    BY <1>1, <1>2, <1>3, <1>4, <1>5, <1>6, <1>7, <1>8, <1>9, <1>10, <1>11, <1>12,
       <1>13, <1>14, <1>15, <1>16, <1>17, <1>18, <1>19, <1>20, <1>21, <1>22, <1>23
       DEF Step


\* The shared variables.
SharedOK ==
    /\ version \in Nat /\ registered \in Nat /\ requested \in Nat /\ completed \in Nat
    /\ gate \in Persisters \cup {NoOne} /\ session \in Turns \cup {NoOne}
    /\ status \in Statuses /\ health \in {"clean", "dirty", "degraded"}
    /\ owned \in BOOLEAN /\ superseded \in BOOLEAN /\ deleted \in BOOLEAN
    /\ generation \in Nat /\ lastSaved \in Nat /\ stored \in Nat
    /\ detached \subseteq [gen : Nat, payload : Nat]

\* Every step keeps the types.
LEMMA TypeStep == TypeOK /\ [Next]_vars => TypeOK'
<1> SUFFICES ASSUME TypeOK, [Next]_vars PROVE TypeOK'
    OBVIOUS
<1>0. SharedOK /\ \A p \in Persisters : st[p] \in Locals
    BY DEF TypeOK, SharedOK
<1> USE DurabilityAssumption, Values
        DEF Locals, At, Goto, Later, Transition, MarkHealth, DoSave, Complete
<1>1. ASSUME NEW p \in Persisters, TurnBegins(p) PROVE SharedOK'
    BY <1>0, <1>1 DEF SharedOK, TurnBegins
<1>2. ASSUME NEW p \in Persisters, CheckpointBegins(p) PROVE SharedOK'
    BY <1>0, <1>2 DEF SharedOK, CheckpointBegins
<1>3. ASSUME NEW p \in Persisters, CheckpointCapture(p) PROVE SharedOK'
    BY <1>0, <1>3 DEF SharedOK, CheckpointCapture
<1>4. ASSUME NEW p \in Persisters, CheckpointSave(p) PROVE SharedOK'
    BY <1>0, <1>4 DEF SharedOK, CheckpointSave
<1>5. ASSUME NEW p \in Persisters, CheckpointReply(p) PROVE SharedOK'
    BY <1>0, <1>5 DEF SharedOK, CheckpointReply
<1>6. ASSUME NEW p \in Persisters, TurnCommits(p) PROVE SharedOK'
    BY <1>0, <1>6 DEF SharedOK, TurnCommits
<1>7. ASSUME NEW p \in Persisters, Register(p) PROVE SharedOK'
    BY <1>0, <1>7 DEF SharedOK, Register
<1>8. ASSUME NEW p \in Persisters, ReadStatus(p) PROVE SharedOK'
    BY <1>0, <1>8 DEF SharedOK, ReadStatus
<1>9. ASSUME NEW p \in Persisters, PublishUnsaved(p) PROVE SharedOK'
    BY <1>0, <1>9 DEF SharedOK, PublishUnsaved
<1>10. ASSUME NEW p \in Persisters, TakeGate(p) PROVE SharedOK'
    BY <1>0, <1>10 DEF SharedOK, TakeGate
<1>11. ASSUME NEW p \in Persisters, MarkDirty(p) PROVE SharedOK'
    BY <1>0, <1>11 DEF SharedOK, MarkDirty
<1>12. ASSUME NEW p \in Persisters, PublishSaving(p) PROVE SharedOK'
    BY <1>0, <1>12 DEF SharedOK, PublishSaving
<1>13. ASSUME NEW p \in Persisters, Capture(p) PROVE SharedOK'
    BY <1>0, <1>13 DEF SharedOK, Capture
<1>14. ASSUME NEW p \in Persisters, Save(p) PROVE SharedOK'
    BY <1>0, <1>14 DEF SharedOK, Save
<1>15. ASSUME NEW p \in Persisters, ReplyDone(p) PROVE SharedOK'
    BY <1>0, <1>15 DEF SharedOK, ReplyDone
<1>16. ASSUME NEW p \in Persisters, ReplyStale(p) PROVE SharedOK'
    BY <1>0, <1>16 DEF SharedOK, ReplyStale
<1>17. ASSUME NEW p \in Persisters, ReplyError(p) PROVE SharedOK'
    BY <1>0, <1>17 DEF SharedOK, ReplyError
<1>18. ASSUME NEW p \in Persisters, MarkClean(p) PROVE SharedOK'
    BY <1>0, <1>18 DEF SharedOK, MarkClean
<1>19. ASSUME NEW p \in Persisters, Decide(p) PROVE SharedOK'
    BY <1>0, <1>19 DEF SharedOK, Decide
<1>20. ASSUME NEW p \in Persisters, Publish(p) PROVE SharedOK'
    BY <1>0, <1>20 DEF SharedOK, Publish
<1>21. ASSUME NEW p \in Persisters, Mutate(p) PROVE SharedOK'
    BY <1>0, <1>21 DEF SharedOK, Mutate
<1>22. ASSUME NEW p \in Persisters, FinalSave(p) PROVE SharedOK'
    BY <1>0, <1>22 DEF SharedOK, FinalSave
<1>23. ASSUME NEW p \in Persisters, Drop(p) PROVE SharedOK'
    BY <1>0, <1>23 DEF SharedOK, Drop
<1>24. CASE DetachedSave
    <2>1. SharedOK'
        BY <1>0, <1>24 DEF SharedOK, DetachedSave
    <2>2. st' = st
        BY <1>24 DEF DetachedSave
    <2> QED
        BY <2>1, <2>2 DEF TypeOK, SharedOK
<1>25. CASE LoseOwnership
    <2>1. SharedOK'
        BY <1>0, <1>25 DEF SharedOK, LoseOwnership
    <2>2. st' = st
        BY <1>25 DEF LoseOwnership
    <2> QED
        BY <2>1, <2>2 DEF TypeOK, SharedOK
<1>26. CASE Delete
    <2>1. SharedOK'
        BY <1>0, <1>26 DEF SharedOK, Delete
    <2>2. st' = st
        BY <1>26 DEF Delete
    <2> QED
        BY <2>1, <2>2 DEF TypeOK, SharedOK
<1>27. CASE UNCHANGED vars
    BY <1>27 DEF vars, TypeOK
<1>28. ASSUME NEW p \in Persisters, Step(p) \/ Mutate(p) \/ FinalSave(p) \/ Drop(p)
       PROVE  TypeOK'
    <2>1. st' \in [Persisters -> Locals]
        BY <1>28, LocalsStep
    <2>2. SharedOK'
    BY <1>1, <1>2, <1>3, <1>4, <1>5, <1>6, <1>7, <1>8, <1>9, <1>10, <1>11, <1>12,
       <1>13, <1>14, <1>15, <1>16, <1>17, <1>18, <1>19, <1>20, <1>21, <1>22, <1>23,
       <1>28
       DEF Step
    <2> QED
        BY <2>1, <2>2 DEF TypeOK, SharedOK
<1> QED
    BY <1>24, <1>25, <1>26, <1>27, <1>28 DEF Next

-----------------------------------------------------------------------------
(* Saves in flight.                                                         *)

\* What the two callers of the state lock's save can do to the store.
LEMMA SaveEffect ==
    ASSUME TypeOK, FlightInv, NEW a \in InFlight, NEW o \in Outcomes, DoSave(a.gen, a.payload, o)
    PROVE  \/ stored' = stored /\ lastSaved' = lastSaved
           \/ /\ stored' = a.payload /\ lastSaved' = a.gen /\ o = "saved"
              /\ lastSaved < a.gen /\ stored <= a.payload
<1>1. CASE o # "saved"
    BY <1>1 DEF DoSave
<1>2. CASE o = "saved"
    <2>1. ~(a.gen <= lastSaved)
        BY <1>2, DurabilityAssumption DEF DoSave, SaveOutcomes
    <2>2. a.gen \in Nat /\ lastSaved \in Nat
        BY DEF InFlight, TypeOK, Locals
    <2> QED
        BY <1>2, <2>1, <2>2 DEF DoSave, FlightInv
<1> QED
    BY <1>1, <1>2

\* A save in flight has a generation and a payload.
LEMMA FlightType == TypeOK => InFlight \subseteq [gen : Nat, payload : Nat]
    BY DEF TypeOK, InFlight, Locals

\* Most steps start no save, touch neither the store nor the payload of the
\* turn that runs, and only ever count up.
Quiet ==
    /\ InFlight' \subseteq InFlight
    /\ version <= version' /\ generation <= generation'
    /\ stored' = stored /\ lastSaved' = lastSaved
    /\ session' = NoOne \/ (session' = session /\ st'[session].payload = st[session].payload)

LEMMA QuietStep ==
    ASSUME TypeOK, TypeOK', FlightInv, Quiet
    PROVE  FlightInv'
<1>1. InFlight \subseteq [gen : Nat, payload : Nat]
    BY FlightType
<1>2. version \in Nat /\ version' \in Nat /\ generation \in Nat /\ generation' \in Nat
      /\ stored \in Nat /\ lastSaved \in Nat
    BY DEF TypeOK
<1>3. session # NoOne => st[session].payload \in Nat
    BY DurabilityAssumption DEF TypeOK, Locals
<1> QED
    BY <1>1, <1>2, <1>3 DEF FlightInv, Quiet

\* The steps of a caller that are quiet.
LEMMA QuietSteps ==
    ASSUME TypeOK, NEW p \in Persisters,
           \/ CheckpointBegins(p) \/ CheckpointReply(p) \/ TurnCommits(p) \/ Register(p)
           \/ ReadStatus(p) \/ PublishUnsaved(p) \/ TakeGate(p) \/ MarkDirty(p)
           \/ PublishSaving(p) \/ ReplyDone(p) \/ ReplyStale(p) \/ ReplyError(p)
           \/ MarkClean(p) \/ Decide(p) \/ Publish(p) \/ Mutate(p) \/ FinalSave(p) \/ Drop(p)
    PROVE  Quiet
<1> USE DurabilityAssumption DEF Quiet, TypeOK, Locals, InFlight, At, Goto, Later
<1>1. CASE CheckpointBegins(p)
    BY <1>1 DEF CheckpointBegins
<1>2. CASE CheckpointReply(p)
    BY <1>2 DEF CheckpointReply
<1>3. CASE TurnCommits(p)
    BY <1>3 DEF TurnCommits
<1>4. CASE Register(p)
    BY <1>4 DEF Register
<1>5. CASE ReadStatus(p)
    BY <1>5 DEF ReadStatus
<1>6. CASE PublishUnsaved(p)
    BY <1>6 DEF PublishUnsaved
<1>7. CASE TakeGate(p)
    BY <1>7 DEF TakeGate
<1>8. CASE MarkDirty(p)
    BY <1>8 DEF MarkDirty
<1>9. CASE PublishSaving(p)
    BY <1>9 DEF PublishSaving
<1>10. CASE ReplyDone(p)
    BY <1>10 DEF ReplyDone
<1>11. CASE ReplyStale(p)
    BY <1>11 DEF ReplyStale
<1>12. CASE ReplyError(p)
    BY <1>12 DEF ReplyError
<1>13. CASE MarkClean(p)
    BY <1>13 DEF MarkClean
<1>14. CASE Decide(p)
    BY <1>14 DEF Decide
<1>15. CASE Publish(p)
    BY <1>15 DEF Publish
<1>16. CASE Mutate(p)
    BY <1>16 DEF Mutate
<1>17. CASE FinalSave(p)
    BY <1>17 DEF FinalSave
<1>18. CASE Drop(p)
    BY <1>18 DEF Drop
<1> QED
    BY <1>1, <1>2, <1>3, <1>4, <1>5, <1>6, <1>7, <1>8, <1>9, <1>10, <1>11, <1>12,
       <1>13, <1>14, <1>15, <1>16, <1>17, <1>18

\* A save is taken off the flight and reaches the store or not.
LEMMA LandedStep ==
    ASSUME TypeOK, TypeOK', FlightInv, NEW a \in InFlight, NEW o \in Outcomes,
           DoSave(a.gen, a.payload, o), InFlight' \subseteq InFlight,
           version' = version, generation' = generation, session' = session,
           session # NoOne => st'[session].payload = st[session].payload
    PROVE  FlightInv' /\ stored <= stored'
<1>1. InFlight \subseteq [gen : Nat, payload : Nat]
    BY FlightType
<1>2. version \in Nat /\ generation \in Nat /\ stored \in Nat /\ lastSaved \in Nat
    BY DEF TypeOK
<1>3. session # NoOne => st[session].payload \in Nat
    BY DurabilityAssumption DEF TypeOK, Locals
<1>4. \/ stored' = stored /\ lastSaved' = lastSaved
      \/ stored' = a.payload /\ lastSaved' = a.gen /\ lastSaved < a.gen /\ stored <= a.payload
    BY SaveEffect
<1>5. CASE stored' = stored /\ lastSaved' = lastSaved
    BY <1>1, <1>2, <1>3, <1>5 DEF FlightInv
<1>6. CASE stored' = a.payload /\ lastSaved' = a.gen /\ lastSaved < a.gen /\ stored <= a.payload
    BY <1>1, <1>2, <1>3, <1>6 DEF FlightInv
<1> QED
    BY <1>4, <1>5, <1>6

\* A new save takes the next generation, and reflects as much as any other.
LEMMA LaunchedStep ==
    ASSUME TypeOK, TypeOK', FlightInv, NEW v \in Nat,
           InFlight' \subseteq InFlight \cup {[gen |-> generation + 1, payload |-> v]},
           generation' = generation + 1, version' = version, session' = session,
           stored' = stored, lastSaved' = lastSaved,
           session # NoOne => st'[session].payload = st[session].payload,
           v <= version, stored <= v, \A a \in InFlight : a.payload <= v,
           session # NoOne => v <= st[session].payload
    PROVE  FlightInv'
<1> DEFINE new == [gen |-> generation + 1, payload |-> v]
<1>1. InFlight \subseteq [gen : Nat, payload : Nat]
    BY FlightType
<1>2. version \in Nat /\ generation \in Nat /\ stored \in Nat /\ lastSaved \in Nat
    BY DEF TypeOK
<1>3. session # NoOne => st[session].payload \in Nat
    BY DurabilityAssumption DEF TypeOK, Locals
<1>4. \A a \in InFlight' : a \in InFlight \/ (a.gen = generation + 1 /\ a.payload = v)
    OBVIOUS
<1>5. \A a \in InFlight' : a.gen \in Nat /\ a.payload \in Nat
    BY <1>1, <1>2, <1>4
<1>6. stored' <= version' /\ lastSaved' <= generation'
    BY <1>2 DEF FlightInv
<1>7. \A a \in InFlight' : /\ a.gen <= generation' /\ a.payload <= version'
                           /\ a.gen > lastSaved' => stored' <= a.payload
    BY <1>1, <1>2, <1>4 DEF FlightInv
<1>8. \A a, b \in InFlight' : a.gen < b.gen => a.payload <= b.payload
    <2> SUFFICES ASSUME NEW a \in InFlight', NEW b \in InFlight', a.gen < b.gen
                 PROVE  a.payload <= b.payload
        OBVIOUS
    <2>1. CASE a \in InFlight /\ b \in InFlight
        BY <2>1 DEF FlightInv
    <2>2. CASE a \in InFlight /\ b.payload = v
        BY <2>2
    <2>3. CASE a.gen = generation + 1 /\ a.payload = v
        BY <1>1, <1>2, <1>4, <1>5, <2>3 DEF FlightInv
    <2> QED
        BY <1>4, <2>1, <2>2, <2>3
<1>9. session' # NoOne =>
        /\ stored' <= st'[session'].payload /\ st'[session'].payload <= version'
        /\ \A a \in InFlight' : a.payload <= st'[session'].payload
    BY <1>1, <1>2, <1>3, <1>4 DEF FlightInv
<1> QED
    BY <1>6, <1>7, <1>8, <1>9 DEF FlightInv

\* Every step keeps the order of the saves in flight.
LEMMA FlightStep ==
    ASSUME TypeOK, TypeOK', LockInv, FlightInv, [Next]_vars
    PROVE  FlightInv' /\ stored <= stored'
<1>0. /\ stored \in Nat /\ version \in Nat /\ \A p \in Persisters : st[p] \in Locals
      /\ st \in [Persisters -> Locals]
    BY DEF TypeOK
<1>q. Quiet => FlightInv' /\ stored <= stored'
    BY <1>0, QuietStep DEF Quiet
<1>1. ASSUME NEW p \in Persisters, TurnBegins(p) PROVE FlightInv' /\ stored <= stored'
    <2>1. InFlight' \subseteq InFlight
        BY <1>0, <1>1 DEF InFlight, TurnBegins, At, Locals
    <2>2. /\ session' = p /\ st'[p].payload = version /\ version' = version
          /\ generation' = generation /\ stored' = stored /\ lastSaved' = lastSaved
        BY <1>0, <1>1 DEF TurnBegins, Locals
    <2> QED
        BY <1>0, <2>1, <2>2, FlightType DEF FlightInv
<1>2. ASSUME NEW p \in Persisters, CheckpointCapture(p) PROVE FlightInv' /\ stored <= stored'
    <2>1. InFlight' \subseteq InFlight \cup {[gen |-> generation + 1, payload |-> st[p].payload]}
        BY <1>0, <1>2 DEF InFlight, CheckpointCapture, At, Locals
    <2>2. session = p /\ st[p].payload \in Nat /\ p # NoOne
        BY <1>0, <1>2, DurabilityAssumption DEF LockInv, InTurn, CheckpointCapture, At, Locals
    <2>3. /\ stored <= st[p].payload /\ st[p].payload <= version
          /\ \A a \in InFlight : a.payload <= st[p].payload
        BY <2>2 DEF FlightInv
    <2>4. /\ generation' = generation + 1 /\ version' = version /\ session' = session
          /\ stored' = stored /\ lastSaved' = lastSaved
          /\ st'[p].payload = st[p].payload
        BY <1>0, <1>2 DEF CheckpointCapture, Locals
    <2>5. FlightInv'
        BY <1>0, <2>1, <2>2, <2>3, <2>4, LaunchedStep
    <2> QED
        BY <1>0, <2>4, <2>5
<1>3. ASSUME NEW p \in Persisters, Capture(p) PROVE FlightInv' /\ stored <= stored'
    <2>1. InFlight' \subseteq InFlight \cup {[gen |-> generation + 1, payload |-> version]}
        BY <1>0, <1>3 DEF InFlight, Capture, At, Locals
    <2>2. stored <= version /\ \A a \in InFlight : a.payload <= version
        BY DEF FlightInv
    <2>3. /\ generation' = generation + 1 /\ version' = version
          /\ session = NoOne /\ session' = session
          /\ stored' = stored /\ lastSaved' = lastSaved
        BY <1>3 DEF Capture
    <2>4. FlightInv'
        BY <1>0, <2>1, <2>2, <2>3, LaunchedStep
    <2> QED
        BY <1>0, <2>3, <2>4
<1>4. ASSUME NEW p \in Persisters, CheckpointSave(p) \/ Save(p)
      PROVE  FlightInv' /\ stored <= stored'
    <2> DEFINE a == [gen |-> st[p].gen, payload |-> st[p].payload]
    <2>1. a \in InFlight
        BY <1>4 DEF InFlight, CheckpointSave, Save, At
    <2>2. PICK o \in Outcomes : DoSave(a.gen, a.payload, o)
        BY <1>4 DEF CheckpointSave, Save
    <2>3. InFlight' \subseteq InFlight
        BY <1>0, <1>4 DEF InFlight, CheckpointSave, Save, At, Locals
    <2>4. /\ version' = version /\ generation' = generation /\ session' = session
          /\ session # NoOne => st'[session].payload = st[session].payload
        <3>1. version' = version /\ generation' = generation /\ session' = session
            BY <1>4 DEF CheckpointSave, Save
        <3>2. st'[p].payload = st[p].payload
              /\ \A q \in Persisters : q # p => st'[q] = st[q]
            BY <1>0, <1>4 DEF CheckpointSave, Save, Locals
        <3>3. session # NoOne => session \in Persisters
            BY DurabilityAssumption DEF TypeOK
        <3> QED
            BY <3>1, <3>2, <3>3
    <2> HIDE DEF a
    <2> QED
        BY <2>1, <2>2, <2>3, <2>4, LandedStep
<1>5. CASE DetachedSave
    <2>1. PICK a \in detached, o \in Outcomes : DoSave(a.gen, a.payload, o)
        BY <1>5 DEF DetachedSave
    <2>2. a \in InFlight /\ InFlight' \subseteq InFlight
        BY <1>5 DEF InFlight, DetachedSave
    <2>3. version' = version /\ generation' = generation /\ session' = session /\ st' = st
        BY <1>5 DEF DetachedSave
    <2> QED
        BY <2>1, <2>2, <2>3, LandedStep
<1>6. CASE LoseOwnership \/ Delete \/ UNCHANGED vars
    BY <1>0, <1>6, <1>q DEF LoseOwnership, Delete, vars, Quiet, InFlight, TypeOK
<1>7. ASSUME NEW p \in Persisters, Step(p) \/ Mutate(p) \/ FinalSave(p) \/ Drop(p)
      PROVE  FlightInv' /\ stored <= stored'
    BY <1>1, <1>2, <1>3, <1>4, <1>7, <1>q, QuietSteps DEF Step
<1> QED
    BY <1>5, <1>6, <1>7 DEF Next

-----------------------------------------------------------------------------
(* Requests, the gate owner, health and status.                             *)

\* The locks are taken and given back with the sections they guard.
LEMMA LockStep ==
    ASSUME TypeOK, LockInv, [Next]_vars
    PROVE  LockInv'
<1> USE DurabilityAssumption DEF TypeOK, Locals, LockInv, InTurn, Announced, Owning, At, Goto
<1>1. ASSUME NEW p \in Persisters, TurnBegins(p) PROVE LockInv'
    BY <1>1 DEF TurnBegins
<1>2. ASSUME NEW p \in Persisters, CheckpointBegins(p) PROVE LockInv'
    BY <1>2 DEF CheckpointBegins
<1>3. ASSUME NEW p \in Persisters, CheckpointCapture(p) PROVE LockInv'
    BY <1>3 DEF CheckpointCapture
<1>4. ASSUME NEW p \in Persisters, CheckpointSave(p) PROVE LockInv'
    BY <1>4 DEF CheckpointSave
<1>5. ASSUME NEW p \in Persisters, CheckpointReply(p) PROVE LockInv'
    BY <1>5 DEF CheckpointReply
<1>6. ASSUME NEW p \in Persisters, TurnCommits(p) PROVE LockInv'
    BY <1>6 DEF TurnCommits
<1>7. ASSUME NEW p \in Persisters, Register(p) PROVE LockInv'
    BY <1>7 DEF Register
<1>8. ASSUME NEW p \in Persisters, ReadStatus(p) PROVE LockInv'
    BY <1>8 DEF ReadStatus
<1>9. ASSUME NEW p \in Persisters, PublishUnsaved(p) PROVE LockInv'
    BY <1>9 DEF PublishUnsaved
<1>10. ASSUME NEW p \in Persisters, TakeGate(p) PROVE LockInv'
    BY <1>10 DEF TakeGate
<1>11. ASSUME NEW p \in Persisters, MarkDirty(p) PROVE LockInv'
    BY <1>11 DEF MarkDirty
<1>12. ASSUME NEW p \in Persisters, PublishSaving(p) PROVE LockInv'
    BY <1>12 DEF PublishSaving
<1>13. ASSUME NEW p \in Persisters, Capture(p) PROVE LockInv'
    BY <1>13 DEF Capture
<1>14. ASSUME NEW p \in Persisters, Save(p) PROVE LockInv'
    BY <1>14 DEF Save
<1>15. ASSUME NEW p \in Persisters, ReplyDone(p) PROVE LockInv'
    BY <1>15 DEF ReplyDone
<1>16. ASSUME NEW p \in Persisters, ReplyStale(p) PROVE LockInv'
    BY <1>16 DEF ReplyStale
<1>17. ASSUME NEW p \in Persisters, ReplyError(p) PROVE LockInv'
    BY <1>17 DEF ReplyError
<1>18. ASSUME NEW p \in Persisters, MarkClean(p) PROVE LockInv'
    BY <1>18 DEF MarkClean
<1>19. ASSUME NEW p \in Persisters, Decide(p) PROVE LockInv'
    BY <1>19 DEF Decide
<1>20. ASSUME NEW p \in Persisters, Publish(p) PROVE LockInv'
    BY <1>20 DEF Publish
<1>21. ASSUME NEW p \in Persisters, Mutate(p) PROVE LockInv'
    BY <1>21 DEF Mutate
<1>22. ASSUME NEW p \in Persisters, FinalSave(p) PROVE LockInv'
    BY <1>22 DEF FinalSave
<1>23. ASSUME NEW p \in Persisters, Drop(p) PROVE LockInv'
    BY <1>23 DEF Drop
<1>24. CASE DetachedSave
    BY <1>24 DEF DetachedSave
<1>25. CASE LoseOwnership
    BY <1>25 DEF LoseOwnership
<1>26. CASE Delete
    BY <1>26 DEF Delete
<1>27. CASE UNCHANGED vars
    BY <1>27 DEF vars
<1> QED
    BY <1>1, <1>2, <1>3, <1>4, <1>5, <1>6, <1>7, <1>8, <1>9, <1>10, <1>11, <1>12,
       <1>13, <1>14, <1>15, <1>16, <1>17, <1>18, <1>19, <1>20, <1>21, <1>22, <1>23,
       <1>24, <1>25, <1>26, <1>27
       DEF Next, Step

\* Tickets are given in order, and nothing is completed that was not requested.
LEMMA RequestStep ==
    ASSUME TypeOK, RequestInv, [Next]_vars
    PROVE  RequestInv'
<1> USE DurabilityAssumption DEF TypeOK, Locals, RequestInv, At, Goto, Later, Complete, DoSave
<1>1. ASSUME NEW p \in Persisters, TurnBegins(p) PROVE RequestInv'
    BY <1>1 DEF TurnBegins
<1>2. ASSUME NEW p \in Persisters, CheckpointBegins(p) PROVE RequestInv'
    BY <1>2 DEF CheckpointBegins
<1>3. ASSUME NEW p \in Persisters, CheckpointCapture(p) PROVE RequestInv'
    BY <1>3 DEF CheckpointCapture
<1>4. ASSUME NEW p \in Persisters, CheckpointSave(p) PROVE RequestInv'
    BY <1>4 DEF CheckpointSave
<1>5. ASSUME NEW p \in Persisters, CheckpointReply(p) PROVE RequestInv'
    BY <1>5 DEF CheckpointReply
<1>6. ASSUME NEW p \in Persisters, TurnCommits(p) PROVE RequestInv'
    BY <1>6 DEF TurnCommits
<1>7. ASSUME NEW p \in Persisters, Register(p) PROVE RequestInv'
    BY <1>7 DEF Register
<1>8. ASSUME NEW p \in Persisters, ReadStatus(p) PROVE RequestInv'
    BY <1>8 DEF ReadStatus
<1>9. ASSUME NEW p \in Persisters, PublishUnsaved(p) PROVE RequestInv'
    BY <1>9 DEF PublishUnsaved
<1>10. ASSUME NEW p \in Persisters, TakeGate(p) PROVE RequestInv'
    BY <1>10 DEF TakeGate
<1>11. ASSUME NEW p \in Persisters, MarkDirty(p) PROVE RequestInv'
    BY <1>11 DEF MarkDirty
<1>12. ASSUME NEW p \in Persisters, PublishSaving(p) PROVE RequestInv'
    BY <1>12 DEF PublishSaving
<1>13. ASSUME NEW p \in Persisters, Capture(p) PROVE RequestInv'
    BY <1>13 DEF Capture
<1>14. ASSUME NEW p \in Persisters, Save(p) PROVE RequestInv'
    BY <1>14 DEF Save
<1>15. ASSUME NEW p \in Persisters, ReplyDone(p) PROVE RequestInv'
    BY <1>15 DEF ReplyDone
<1>16. ASSUME NEW p \in Persisters, ReplyStale(p) PROVE RequestInv'
    BY <1>16 DEF ReplyStale
<1>17. ASSUME NEW p \in Persisters, ReplyError(p) PROVE RequestInv'
    BY <1>17 DEF ReplyError
<1>18. ASSUME NEW p \in Persisters, MarkClean(p) PROVE RequestInv'
    BY <1>18 DEF MarkClean
<1>19. ASSUME NEW p \in Persisters, Decide(p) PROVE RequestInv'
    BY <1>19 DEF Decide
<1>20. ASSUME NEW p \in Persisters, Publish(p) PROVE RequestInv'
    BY <1>20 DEF Publish
<1>21. ASSUME NEW p \in Persisters, Mutate(p) PROVE RequestInv'
    BY <1>21 DEF Mutate
<1>22. ASSUME NEW p \in Persisters, FinalSave(p) PROVE RequestInv'
    BY <1>22 DEF FinalSave
<1>23. ASSUME NEW p \in Persisters, Drop(p) PROVE RequestInv'
    BY <1>23 DEF Drop
<1>24. CASE DetachedSave
    BY <1>24 DEF DetachedSave
<1>25. CASE LoseOwnership
    BY <1>25 DEF LoseOwnership
<1>26. CASE Delete
    BY <1>26 DEF Delete
<1>27. CASE UNCHANGED vars
    BY <1>27 DEF vars
<1> QED
    BY <1>1, <1>2, <1>3, <1>4, <1>5, <1>6, <1>7, <1>8, <1>9, <1>10, <1>11, <1>12,
       <1>13, <1>14, <1>15, <1>16, <1>17, <1>18, <1>19, <1>20, <1>21, <1>22, <1>23,
       <1>24, <1>25, <1>26, <1>27
       DEF Next, Step

\* What an owner has captured covers the requests it answers for.
LEMMA OwnerStep ==
    ASSUME TypeOK, LockInv, RequestInv, OwnerInv, HealthInv, stored <= stored', stored' \in Nat, [Next]_vars
    PROVE  OwnerInv'
<1> USE DurabilityAssumption
        DEF TypeOK, Locals, LockInv, RequestInv, OwnerInv, HealthInv, Announced, Owning, InTurn,
            At, Goto, Later, MarkHealth, PersistenceHealth, SaveOutcomes, DoSave, Complete, Retries
<1>1. ASSUME NEW p \in Persisters, TurnBegins(p) PROVE OwnerInv'
    BY <1>1 DEF TurnBegins
<1>2. ASSUME NEW p \in Persisters, CheckpointBegins(p) PROVE OwnerInv'
    BY <1>2 DEF CheckpointBegins
<1>3. ASSUME NEW p \in Persisters, CheckpointCapture(p) PROVE OwnerInv'
    BY <1>3 DEF CheckpointCapture
<1>4. ASSUME NEW p \in Persisters, CheckpointSave(p) PROVE OwnerInv'
    BY <1>4 DEF CheckpointSave
<1>5. ASSUME NEW p \in Persisters, CheckpointReply(p) PROVE OwnerInv'
    BY <1>5 DEF CheckpointReply
<1>6. ASSUME NEW p \in Persisters, TurnCommits(p) PROVE OwnerInv'
    BY <1>6 DEF TurnCommits
<1>7. ASSUME NEW p \in Persisters, Register(p) PROVE OwnerInv'
    BY <1>7 DEF Register
<1>8. ASSUME NEW p \in Persisters, ReadStatus(p) PROVE OwnerInv'
    BY <1>8 DEF ReadStatus
<1>9. ASSUME NEW p \in Persisters, PublishUnsaved(p) PROVE OwnerInv'
    BY <1>9 DEF PublishUnsaved
<1>10. ASSUME NEW p \in Persisters, TakeGate(p) PROVE OwnerInv'
    BY <1>10 DEF TakeGate
<1>11. ASSUME NEW p \in Persisters, MarkDirty(p) PROVE OwnerInv'
    BY <1>11 DEF MarkDirty
<1>12. ASSUME NEW p \in Persisters, PublishSaving(p) PROVE OwnerInv'
    BY <1>12 DEF PublishSaving
<1>13. ASSUME NEW p \in Persisters, Capture(p) PROVE OwnerInv'
    BY <1>13 DEF Capture
<1>14. ASSUME NEW p \in Persisters, Save(p) PROVE OwnerInv'
    BY <1>14 DEF Save
<1>15. ASSUME NEW p \in Persisters, ReplyDone(p) PROVE OwnerInv'
    BY <1>15 DEF ReplyDone
<1>16. ASSUME NEW p \in Persisters, ReplyStale(p) PROVE OwnerInv'
    BY <1>16 DEF ReplyStale
<1>17. ASSUME NEW p \in Persisters, ReplyError(p) PROVE OwnerInv'
    BY <1>17 DEF ReplyError
<1>18. ASSUME NEW p \in Persisters, MarkClean(p) PROVE OwnerInv'
    BY <1>18 DEF MarkClean
<1>19. ASSUME NEW p \in Persisters, Decide(p) PROVE OwnerInv'
    BY <1>19 DEF Decide
<1>20. ASSUME NEW p \in Persisters, Publish(p) PROVE OwnerInv'
    BY <1>20 DEF Publish
<1>21. ASSUME NEW p \in Persisters, Mutate(p) PROVE OwnerInv'
    BY <1>21 DEF Mutate
<1>22. ASSUME NEW p \in Persisters, FinalSave(p) PROVE OwnerInv'
    BY <1>22 DEF FinalSave
<1>23. ASSUME NEW p \in Persisters, Drop(p) PROVE OwnerInv'
    BY <1>23 DEF Drop
<1>24. CASE DetachedSave
    BY <1>24 DEF DetachedSave
<1>25. CASE LoseOwnership
    BY <1>25 DEF LoseOwnership
<1>26. CASE Delete
    BY <1>26 DEF Delete
<1>27. CASE UNCHANGED vars
    BY <1>27 DEF vars
<1> QED
    BY <1>1, <1>2, <1>3, <1>4, <1>5, <1>6, <1>7, <1>8, <1>9, <1>10, <1>11, <1>12,
       <1>13, <1>14, <1>15, <1>16, <1>17, <1>18, <1>19, <1>20, <1>21, <1>22, <1>23,
       <1>24, <1>25, <1>26, <1>27
       DEF Next, Step

\* Only an owner that has committed what was requested marks the health clean.
LEMMA HealthStep ==
    ASSUME TypeOK, LockInv, RequestInv, OwnerInv, HealthInv, stored <= stored', stored' \in Nat, [Next]_vars
    PROVE  HealthInv'
<1> USE DurabilityAssumption
        DEF TypeOK, Locals, LockInv, RequestInv, OwnerInv, HealthInv, Announced, Owning, InTurn,
            At, Goto, Later, MarkHealth, PersistenceHealth, SaveOutcomes, DoSave, Complete, Retries
<1>1. ASSUME NEW p \in Persisters, TurnBegins(p) PROVE HealthInv'
    BY <1>1 DEF TurnBegins
<1>2. ASSUME NEW p \in Persisters, CheckpointBegins(p) PROVE HealthInv'
    BY <1>2 DEF CheckpointBegins
<1>3. ASSUME NEW p \in Persisters, CheckpointCapture(p) PROVE HealthInv'
    BY <1>3 DEF CheckpointCapture
<1>4. ASSUME NEW p \in Persisters, CheckpointSave(p) PROVE HealthInv'
    BY <1>4 DEF CheckpointSave
<1>5. ASSUME NEW p \in Persisters, CheckpointReply(p) PROVE HealthInv'
    BY <1>5 DEF CheckpointReply
<1>6. ASSUME NEW p \in Persisters, TurnCommits(p) PROVE HealthInv'
    BY <1>6 DEF TurnCommits
<1>7. ASSUME NEW p \in Persisters, Register(p) PROVE HealthInv'
    BY <1>7 DEF Register
<1>8. ASSUME NEW p \in Persisters, ReadStatus(p) PROVE HealthInv'
    BY <1>8 DEF ReadStatus
<1>9. ASSUME NEW p \in Persisters, PublishUnsaved(p) PROVE HealthInv'
    BY <1>9 DEF PublishUnsaved
<1>10. ASSUME NEW p \in Persisters, TakeGate(p) PROVE HealthInv'
    BY <1>10 DEF TakeGate
<1>11. ASSUME NEW p \in Persisters, MarkDirty(p) PROVE HealthInv'
    BY <1>11 DEF MarkDirty
<1>12. ASSUME NEW p \in Persisters, PublishSaving(p) PROVE HealthInv'
    BY <1>12 DEF PublishSaving
<1>13. ASSUME NEW p \in Persisters, Capture(p) PROVE HealthInv'
    BY <1>13 DEF Capture
<1>14. ASSUME NEW p \in Persisters, Save(p) PROVE HealthInv'
    BY <1>14 DEF Save
<1>15. ASSUME NEW p \in Persisters, ReplyDone(p) PROVE HealthInv'
    BY <1>15 DEF ReplyDone
<1>16. ASSUME NEW p \in Persisters, ReplyStale(p) PROVE HealthInv'
    BY <1>16 DEF ReplyStale
<1>17. ASSUME NEW p \in Persisters, ReplyError(p) PROVE HealthInv'
    BY <1>17 DEF ReplyError
<1>18. ASSUME NEW p \in Persisters, MarkClean(p) PROVE HealthInv'
    BY <1>18 DEF MarkClean
<1>19. ASSUME NEW p \in Persisters, Decide(p) PROVE HealthInv'
    BY <1>19 DEF Decide
<1>20. ASSUME NEW p \in Persisters, Publish(p) PROVE HealthInv'
    BY <1>20 DEF Publish
<1>21. ASSUME NEW p \in Persisters, Mutate(p) PROVE HealthInv'
    BY <1>21 DEF Mutate
<1>22. ASSUME NEW p \in Persisters, FinalSave(p) PROVE HealthInv'
    BY <1>22 DEF FinalSave
<1>23. ASSUME NEW p \in Persisters, Drop(p) PROVE HealthInv'
    BY <1>23 DEF Drop
<1>24. CASE DetachedSave
    BY <1>24 DEF DetachedSave
<1>25. CASE LoseOwnership
    BY <1>25 DEF LoseOwnership
<1>26. CASE Delete
    BY <1>26 DEF Delete
<1>27. CASE UNCHANGED vars
    BY <1>27 DEF vars
<1> QED
    BY <1>1, <1>2, <1>3, <1>4, <1>5, <1>6, <1>7, <1>8, <1>9, <1>10, <1>11, <1>12,
       <1>13, <1>14, <1>15, <1>16, <1>17, <1>18, <1>19, <1>20, <1>21, <1>22, <1>23,
       <1>24, <1>25, <1>26, <1>27
       DEF Next, Step

\* While an owner has announced a save nobody else publishes Saved.
LEMMA StatusStep ==
    ASSUME TypeOK, LockInv, RequestInv, OwnerInv, StatusInv, stored <= stored', stored' \in Nat, [Next]_vars
    PROVE  StatusInv'
<1> USE DurabilityAssumption
        DEF TypeOK, Locals, LockInv, RequestInv, OwnerInv, HealthInv, StatusInv, Announced, Owning, InTurn,
            At, Goto, Later, MarkHealth, PersistenceHealth, SaveOutcomes, DoSave, Complete, Retries,
            Statuses, Transition, Blocked
<1>1. ASSUME NEW p \in Persisters, TurnBegins(p) PROVE StatusInv'
    BY <1>1 DEF TurnBegins
<1>2. ASSUME NEW p \in Persisters, CheckpointBegins(p) PROVE StatusInv'
    BY <1>2 DEF CheckpointBegins
<1>3. ASSUME NEW p \in Persisters, CheckpointCapture(p) PROVE StatusInv'
    BY <1>3 DEF CheckpointCapture
<1>4. ASSUME NEW p \in Persisters, CheckpointSave(p) PROVE StatusInv'
    BY <1>4 DEF CheckpointSave
<1>5. ASSUME NEW p \in Persisters, CheckpointReply(p) PROVE StatusInv'
    BY <1>5 DEF CheckpointReply
<1>6. ASSUME NEW p \in Persisters, TurnCommits(p) PROVE StatusInv'
    BY <1>6 DEF TurnCommits
<1>7. ASSUME NEW p \in Persisters, Register(p) PROVE StatusInv'
    BY <1>7 DEF Register
<1>8. ASSUME NEW p \in Persisters, ReadStatus(p) PROVE StatusInv'
    BY <1>8 DEF ReadStatus
<1>9. ASSUME NEW p \in Persisters, PublishUnsaved(p) PROVE StatusInv'
    BY <1>9 DEF PublishUnsaved
<1>10. ASSUME NEW p \in Persisters, TakeGate(p) PROVE StatusInv'
    BY <1>10 DEF TakeGate
<1>11. ASSUME NEW p \in Persisters, MarkDirty(p) PROVE StatusInv'
    BY <1>11 DEF MarkDirty
<1>12. ASSUME NEW p \in Persisters, PublishSaving(p) PROVE StatusInv'
    BY <1>12 DEF PublishSaving
<1>13. ASSUME NEW p \in Persisters, Capture(p) PROVE StatusInv'
    BY <1>13 DEF Capture
<1>14. ASSUME NEW p \in Persisters, Save(p) PROVE StatusInv'
    BY <1>14 DEF Save
<1>15. ASSUME NEW p \in Persisters, ReplyDone(p) PROVE StatusInv'
    BY <1>15 DEF ReplyDone
<1>16. ASSUME NEW p \in Persisters, ReplyStale(p) PROVE StatusInv'
    BY <1>16 DEF ReplyStale
<1>17. ASSUME NEW p \in Persisters, ReplyError(p) PROVE StatusInv'
    BY <1>17 DEF ReplyError
<1>18. ASSUME NEW p \in Persisters, MarkClean(p) PROVE StatusInv'
    BY <1>18 DEF MarkClean
<1>19. ASSUME NEW p \in Persisters, Decide(p) PROVE StatusInv'
    BY <1>19 DEF Decide
<1>20. ASSUME NEW p \in Persisters, Publish(p) PROVE StatusInv'
    BY <1>20 DEF Publish
<1>21. ASSUME NEW p \in Persisters, Mutate(p) PROVE StatusInv'
    BY <1>21 DEF Mutate
<1>22. ASSUME NEW p \in Persisters, FinalSave(p) PROVE StatusInv'
    BY <1>22 DEF FinalSave
<1>23. ASSUME NEW p \in Persisters, Drop(p) PROVE StatusInv'
    BY <1>23 DEF Drop
<1>24. CASE DetachedSave
    BY <1>24 DEF DetachedSave
<1>25. CASE LoseOwnership
    BY <1>25 DEF LoseOwnership
<1>26. CASE Delete
    BY <1>26 DEF Delete
<1>27. CASE UNCHANGED vars
    BY <1>27 DEF vars
<1> QED
    BY <1>1, <1>2, <1>3, <1>4, <1>5, <1>6, <1>7, <1>8, <1>9, <1>10, <1>11, <1>12,
       <1>13, <1>14, <1>15, <1>16, <1>17, <1>18, <1>19, <1>20, <1>21, <1>22, <1>23,
       <1>24, <1>25, <1>26, <1>27
       DEF Next, Step

-----------------------------------------------------------------------------
(* The theorems.                                                            *)

\* A core starts with its record in the store and nothing requested.
LEMMA DurabilityInit == Init => DurabilityInv
<1> SUFFICES ASSUME Init PROVE DurabilityInv
    OBVIOUS
<1>1. TypeOK
    BY DEF Init, TypeOK, Locals, Pcs, Outcomes, Statuses
<1>2. LockInv /\ RequestInv
    BY DurabilityAssumption DEF Init, LockInv, InTurn, Announced, Owning, RequestInv
<1>3. InFlight = {}
    BY DEF Init, InFlight
<1>4. FlightInv
    BY <1>3 DEF Init, FlightInv
<1>5. OwnerInv /\ HealthInv /\ StatusInv
    BY DEF Init, OwnerInv, HealthInv, StatusInv, Announced
<1> QED
    BY <1>1, <1>2, <1>4, <1>5 DEF DurabilityInv

\* Every step keeps the inductive invariant.
LEMMA DurabilityStep == DurabilityInv /\ [Next]_vars => DurabilityInv'
<1> SUFFICES ASSUME DurabilityInv, [Next]_vars PROVE DurabilityInv'
    OBVIOUS
<1>0. TypeOK /\ LockInv /\ FlightInv /\ RequestInv /\ OwnerInv /\ HealthInv /\ StatusInv
    BY DEF DurabilityInv
<1>1. TypeOK'
    BY <1>0, TypeStep
<1>2. LockInv' /\ RequestInv'
    BY <1>0, LockStep, RequestStep
<1>3. FlightInv' /\ stored <= stored'
    BY <1>0, <1>1, FlightStep
<1>4. stored' \in Nat
    BY <1>1 DEF TypeOK
<1>5. OwnerInv' /\ HealthInv' /\ StatusInv'
    BY <1>0, <1>3, <1>4, OwnerStep, HealthStep, StatusStep
<1> QED
    BY <1>1, <1>2, <1>3, <1>5 DEF DurabilityInv

\* Every behaviour keeps the inductive invariant.
LEMMA DurabilityIsInvariant == Spec => []DurabilityInv
    BY DurabilityInit, DurabilityStep, PTL DEF Spec

\* The tickets, watermarks, statuses and local states of persist_current keep
\* their types.
THEOREM DurabilityTypeCorrect == Spec => []TypeOK
<1>1. DurabilityInv => TypeOK
    BY DEF DurabilityInv
<1> QED
    BY <1>1, DurabilityIsInvariant, PTL

\* persist_current and publish_completed_durability: a clean health, and a
\* status that has come to rest on Saved, mean that every mutation whose save
\* was requested is in the store, whatever was dropped, retried or overtaken.
THEOREM CleanMeansCommitted == Spec => []ReportedIsCommitted
<1>1. DurabilityInv => ReportedIsCommitted
    <2> SUFFICES ASSUME DurabilityInv, ~deleted,
                        PersistenceHealth = "clean" \/ (AtRest /\ status = "saved")
                 PROVE  stored >= registered
        BY DEF ReportedIsCommitted
    <2>0. /\ stored \in Nat /\ registered \in Nat /\ requested \in Nat /\ completed \in Nat
          /\ \A p \in Persisters : st[p].ticket \in Nat
        BY DEF DurabilityInv, TypeOK, Locals
    <2>1. CASE PersistenceHealth = "clean"
        BY <2>0, <2>1 DEF DurabilityInv, HealthInv, PersistenceHealth
    <2>2. CASE AtRest /\ status = "saved"
        <3>1. requested > 0 => requested <= completed
            <4> SUFFICES ASSUME requested > 0 PROVE requested <= completed
                OBVIOUS
            <4>1. PICK p \in Persisters : st[p].ticket = requested /\ st[p].pc # "idle"
                BY DEF DurabilityInv, RequestInv
            <4>2. st[p].pc = "done"
                BY <2>2, <4>1 DEF AtRest
            <4> QED
                BY <2>2, <4>1, <4>2 DEF DurabilityInv, StatusInv
        <3>2. registered <= stored \/ completed < requested
            BY <2>2 DEF DurabilityInv, StatusInv
        <3> QED
            BY <2>0, <3>1, <3>2
    <2> QED
        BY <2>1, <2>2
<1> QED
    BY <1>1, DurabilityIsInvariant, PTL

=============================================================================
