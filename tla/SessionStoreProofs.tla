------------------------- MODULE SessionStoreProofs -------------------------
(***************************************************************************)
(* Proofs about SessionStore, for any set of runtimes and any bounds.      *)
(*                                                                         *)
(* The argument has two layers.  The fence (FenceInv) says that epochs are *)
(* fresh and unique, so that whoever passes write_record's epoch check is  *)
(* the one current writer, and claimed after the latest deletion.  The     *)
(* chain (ChainInv) says that what this writer has stored, captured and in *)
(* memory is ordered by generation, so that whatever capture lands next,   *)
(* the row only grows; it needs ids that are not used again after a        *)
(* deletion.                                                               *)
(***************************************************************************)
EXTENDS SessionStore, TLAPS

-----------------------------------------------------------------------------
(* Typing.                                                                  *)

\* The empty slot and the absent row are well formed.
LEMMA NoCoreTyped == NoCore \in Cores /\ NoRow \in Rows
BY DEF NoCore, NoRow, Cores, Rows, Phases, Payloads

\* The fields of a core, with the sets they range over left opaque.
LEMMA CoreFields ==
    ASSUME NEW core \in Cores
    PROVE  /\ core.phase \in Phases /\ core.loaded \in Rows
           /\ core.epoch \in Nat /\ core.counter \in Nat /\ core.lastSaved \in Nat
           /\ core.mem \in Payloads /\ core.outside \in Payloads
           /\ core.inTurn \in BOOLEAN /\ core.deleted \in BOOLEAN /\ core.superseded \in BOOLEAN
           /\ core.inflight \in SUBSET Captures
BY DEF Cores

\* Every field of a core can be replaced, one at a time.
LEMMA CoreUpdates ==
    ASSUME NEW core \in Cores
    PROVE  /\ \A x \in Phases : [core EXCEPT !.phase = x] \in Cores
           /\ \A x \in Nat : [core EXCEPT !.epoch = x] \in Cores
           /\ \A x \in Nat : [core EXCEPT !.counter = x] \in Cores
           /\ \A x \in Nat : [core EXCEPT !.lastSaved = x] \in Cores
           /\ \A x \in Payloads : [core EXCEPT !.mem = x] \in Cores
           /\ \A x \in Payloads : [core EXCEPT !.outside = x] \in Cores
           /\ \A x \in BOOLEAN : [core EXCEPT !.superseded = x] \in Cores
           /\ \A x \in BOOLEAN : [core EXCEPT !.inTurn = x] \in Cores
           /\ \A x \in BOOLEAN : [core EXCEPT !.deleted = x] \in Cores
           /\ \A x \in SUBSET Captures : [core EXCEPT !.inflight = x] \in Cores
<1>1. \A x \in Phases : [core EXCEPT !.phase = x] \in Cores
    BY DEF Cores
<1>2. \A x \in Nat : [core EXCEPT !.epoch = x] \in Cores
    BY DEF Cores
<1>3. \A x \in Nat : [core EXCEPT !.counter = x] \in Cores
    BY DEF Cores
<1>4. \A x \in Nat : [core EXCEPT !.lastSaved = x] \in Cores
    BY DEF Cores
<1>5. \A x \in Payloads : [core EXCEPT !.mem = x] \in Cores
    BY DEF Cores
<1>6. \A x \in Payloads : [core EXCEPT !.outside = x] \in Cores
    BY DEF Cores
<1>7. \A x \in BOOLEAN : [core EXCEPT !.superseded = x] \in Cores
    BY DEF Cores
<1>8. \A x \in BOOLEAN : [core EXCEPT !.inTurn = x] \in Cores
    BY DEF Cores
<1>9. \A x \in BOOLEAN : [core EXCEPT !.deleted = x] \in Cores
    BY DEF Cores
<1>10. \A x \in SUBSET Captures : [core EXCEPT !.inflight = x] \in Cores
    BY DEF Cores
<1> QED
    BY <1>1, <1>2, <1>3, <1>4, <1>5, <1>6, <1>7, <1>8, <1>9, <1>10

\* The fields of a row.
LEMMA RowFields ==
    ASSUME NEW w \in Rows
    PROVE  w.exists \in BOOLEAN /\ w.gen \in Nat /\ w.payload \in Payloads /\ w.by \in Nat
BY DEF Rows

\* The fields of a capture.
LEMMA CaptureFields ==
    ASSUME NEW c \in Captures
    PROVE  c.gen \in Nat /\ c.payload \in Payloads /\ c.awaited \in BOOLEAN
BY DEF Captures

\* A capture whose waiter is dropped keeps generation and payload.
LEMMA Unawaited ==
    ASSUME NEW c \in Captures
    PROVE  /\ [c EXCEPT !.awaited = FALSE] \in Captures
           /\ [c EXCEPT !.awaited = FALSE].gen = c.gen
           /\ [c EXCEPT !.awaited = FALSE].payload = c.payload
BY DEF Captures

\* Payloads are closed under the operations the steps use.
LEMMA PayloadGrows ==
    ASSUME NEW p \in Payloads, NEW q \in Payloads, NEW n \in Nat
    PROVE  p \cup {n} \in Payloads /\ p \ q \in Payloads /\ {} \in Payloads /\ {n} \in Payloads
BY DEF Payloads

\* Opened maps phases to phases.
LEMMA OpenedTyped == ASSUME NEW p \in Phases PROVE Opened(p) \in Phases
BY DEF Opened, Phases

\* What with_writer and the seeding of a loaded core produce.
LEMMA ClaimedTyped ==
    ASSUME lastEpoch \in Nat, NEW w \in Rows
    PROVE  /\ ClaimedCore(w) \in Cores
           /\ ClaimedCore(w).phase = "live" /\ ClaimedCore(w).epoch = lastEpoch + 1
           /\ ClaimedCore(w).mem = w.payload /\ ClaimedCore(w).counter = w.gen
           /\ ClaimedCore(w).inflight = {} /\ ClaimedCore(w).outside = {} /\ ClaimedCore(w).loaded = NoRow
           /\ ~ClaimedCore(w).deleted
<1>1. w.gen \in Nat /\ w.payload \in Payloads
    BY RowFields
<1>2. "live" \in Phases
    BY DEF Phases
<1>3. ClaimedCore(w) \in Cores
    <2>1. ClaimedCore(w) =
            [[[[NoCore EXCEPT !.phase = "live"] EXCEPT !.epoch = lastEpoch + 1]
                EXCEPT !.counter = w.gen] EXCEPT !.mem = w.payload]
        BY NoCoreTyped DEF ClaimedCore
    <2> DEFINE phased == [NoCore EXCEPT !.phase = "live"]
    <2>a. phased \in Cores
        BY <1>2, NoCoreTyped, CoreUpdates
    <2>2. [phased EXCEPT !.epoch = lastEpoch + 1] \in Cores
        <3> HIDE DEF phased
        <3> QED BY <2>a, CoreUpdates
    <2>3. [[[NoCore EXCEPT !.phase = "live"] EXCEPT !.epoch = lastEpoch + 1]
                EXCEPT !.counter = w.gen] \in Cores
        BY <2>2, <1>1, CoreUpdates
    <2> QED
        BY <2>1, <2>3, <1>1, CoreUpdates
<1>4. /\ ClaimedCore(w).phase = "live" /\ ClaimedCore(w).epoch = lastEpoch + 1
      /\ ClaimedCore(w).mem = w.payload /\ ClaimedCore(w).counter = w.gen
      /\ ClaimedCore(w).inflight = {} /\ ClaimedCore(w).outside = {} /\ ClaimedCore(w).loaded = NoRow
      /\ ~ClaimedCore(w).deleted
    BY DEF ClaimedCore, NoCore
<1> QED
    BY <1>3, <1>4

\* What session/new produces: a core with its first save in flight.
LEMMA CreatedTyped ==
    ASSUME lastEpoch \in Nat
    PROVE  /\ CreatedCore \in Cores
           /\ CreatedCore.phase = "opening" /\ CreatedCore.epoch = lastEpoch + 1
           /\ CreatedCore.mem = {} /\ CreatedCore.counter = 1 /\ CreatedCore.outside = {}
           /\ CreatedCore.loaded = NoRow /\ ~CreatedCore.deleted
           /\ CreatedCore.inflight = {[gen |-> 1, payload |-> {}, kind |-> "gate", awaited |-> TRUE]}
<1>1. [gen |-> 1, payload |-> {}, kind |-> "gate", awaited |-> TRUE] \in Captures
    BY DEF Captures, Payloads
<1>2. "opening" \in Phases
    BY DEF Phases
<1>3. NoRow \in Rows /\ NoRow.payload = {} /\ NoRow.gen = 0
    BY NoCoreTyped DEF NoRow
<1> DEFINE k == ClaimedCore(NoRow)
<1>4. /\ k \in Cores /\ k.epoch = lastEpoch + 1 /\ k.mem = {} /\ k.counter = 0
      /\ k.inflight = {} /\ k.outside = {} /\ k.loaded = NoRow /\ ~k.deleted
    BY <1>3, ClaimedTyped
<1>5. CreatedCore = [k EXCEPT !.phase = "opening", !.counter = k.counter + 1,
            !.inflight = {[gen |-> 1, payload |-> {}, kind |-> "gate", awaited |-> TRUE]}]
    BY DEF CreatedCore
<1> DEFINE first == {[gen |-> 1, payload |-> {}, kind |-> "gate", awaited |-> TRUE]}
<1>a. first \in SUBSET Captures /\ k.counter + 1 \in Nat
    BY <1>1, <1>4
<1> HIDE DEF k, first
<1>6. CreatedCore \in Cores
    <2>1. CreatedCore = [[[k EXCEPT !.phase = "opening"] EXCEPT !.counter = k.counter + 1]
                            EXCEPT !.inflight = first]
        BY <1>4, <1>5 DEF first
    <2>2. [k EXCEPT !.phase = "opening"] \in Cores
        BY <1>2, <1>4, CoreUpdates
    <2>3. [[k EXCEPT !.phase = "opening"] EXCEPT !.counter = k.counter + 1] \in Cores
        BY <1>a, <2>2, CoreUpdates
    <2> QED
        BY <1>a, <2>1, <2>3, CoreUpdates
<1>7. /\ CreatedCore.phase = "opening" /\ CreatedCore.epoch = lastEpoch + 1
      /\ CreatedCore.mem = {} /\ CreatedCore.counter = 1 /\ CreatedCore.outside = {}
      /\ CreatedCore.loaded = NoRow /\ ~CreatedCore.deleted
      /\ CreatedCore.inflight = {[gen |-> 1, payload |-> {}, kind |-> "gate", awaited |-> TRUE]}
    BY <1>4, <1>5 DEF Cores
<1> QED
    BY <1>6, <1>7

\* A slot that has read the record and not claimed yet.
LEMMA LoadedTyped ==
    ASSUME NEW w \in Rows
    PROVE  /\ [NoCore EXCEPT !.phase = "loaded", !.loaded = w] \in Cores
           /\ [NoCore EXCEPT !.phase = "loaded", !.loaded = w].phase = "loaded"
           /\ [NoCore EXCEPT !.phase = "loaded", !.loaded = w].loaded = w
           /\ [NoCore EXCEPT !.phase = "loaded", !.loaded = w].epoch = 0
           /\ [NoCore EXCEPT !.phase = "loaded", !.loaded = w].mem = {}
           /\ [NoCore EXCEPT !.phase = "loaded", !.loaded = w].inflight = {}
<1>1. "loaded" \in Phases
    BY DEF Phases
<1> QED
    BY <1>1, NoCoreTyped DEF NoCore, Cores

-----------------------------------------------------------------------------
(* The effect of each step on the one core it changes, field by field.      *)

OpenPhases == {"opening", "live", "closed"}

\* The core of r becomes `core', which keeps its claim and stays open.
Becomes(r, core) ==
    /\ rt' = [rt EXCEPT ![r] = core]
    /\ rt[r].phase \in OpenPhases /\ core.phase \in OpenPhases
    /\ core.epoch = rt[r].epoch /\ core.loaded = rt[r].loaded
    /\ rt[r].deleted => core.deleted

\* A mutation under the session lock changes the memory only.
LEMMA MutateEffect ==
    ASSUME TypeOK, NEW r \in Runtimes, Mutate(r)
    PROVE  \E core \in Cores :
            /\ Becomes(r, core)
            /\ core.mem = rt[r].mem \cup {mutations + 1}
            /\ core.outside = rt[r].outside /\ core.inflight = rt[r].inflight
            /\ core.counter = rt[r].counter /\ core.inTurn = rt[r].inTurn /\ core.phase = rt[r].phase
<1> DEFINE x == rt[r].mem \cup {mutations + 1}
           core == [rt[r] EXCEPT !.mem = x]
<1>1. rt[r] \in Cores /\ mutations + 1 \in Nat
    BY DEF TypeOK
<1>2. x \in Payloads
    BY <1>1, CoreFields, PayloadGrows
<1>3. rt' = [rt EXCEPT ![r] = core] /\ rt[r].phase = "live"
    BY DEF Mutate
<1> HIDE DEF x
<1>4. core \in Cores
    BY <1>1, <1>2, CoreUpdates
<1>5. /\ core.mem = x /\ core.outside = rt[r].outside /\ core.inflight = rt[r].inflight
      /\ core.counter = rt[r].counter /\ core.inTurn = rt[r].inTurn /\ core.phase = rt[r].phase
      /\ core.epoch = rt[r].epoch /\ core.loaded = rt[r].loaded /\ core.deleted = rt[r].deleted
    BY <1>1 DEF Cores
<1> HIDE DEF core
<1> QED
    BY <1>3, <1>4, <1>5 DEF Becomes, OpenPhases, x

\* The picker changes the memory, and marks what no checkpoint projects.
LEMMA PickOptionEffect ==
    ASSUME TypeOK, NEW r \in Runtimes, PickOption(r)
    PROVE  \E core \in Cores :
            /\ Becomes(r, core)
            /\ core.mem = rt[r].mem \cup {mutations + 1}
            /\ core.outside = rt[r].outside \cup {mutations + 1}
            /\ core.inflight = rt[r].inflight /\ core.counter = rt[r].counter
            /\ rt[r].inTurn /\ core.inTurn
<1> DEFINE x == rt[r].mem \cup {mutations + 1}
           y == rt[r].outside \cup {mutations + 1}
           core == [rt[r] EXCEPT !.mem = x, !.outside = y]
<1>1. rt[r] \in Cores /\ mutations + 1 \in Nat
    BY DEF TypeOK
<1>2. x \in Payloads /\ y \in Payloads
    BY <1>1, CoreFields, PayloadGrows
<1>3. rt' = [rt EXCEPT ![r] = core] /\ rt[r].phase = "live" /\ rt[r].inTurn
    BY <1>1 DEF PickOption, TypeOK
<1> HIDE DEF x, y
<1>4. core \in Cores
    BY <1>1, <1>2 DEF Cores
<1>5. /\ core.mem = x /\ core.outside = y /\ core.inflight = rt[r].inflight
      /\ core.counter = rt[r].counter /\ core.inTurn = rt[r].inTurn /\ core.phase = rt[r].phase
      /\ core.epoch = rt[r].epoch /\ core.loaded = rt[r].loaded /\ core.deleted = rt[r].deleted
    BY <1>1 DEF Cores
<1> HIDE DEF core
<1> QED
    BY <1>3, <1>4, <1>5 DEF Becomes, OpenPhases, x, y

\* Taking or releasing the session lock settles what the picker wrote.
LEMMA TurnLockEffect ==
    ASSUME TypeOK, NEW r \in Runtimes, TurnLock(r)
    PROVE  \E core \in Cores :
            /\ Becomes(r, core)
            /\ core.mem = rt[r].mem /\ core.outside = {}
            /\ core.inflight = rt[r].inflight /\ core.counter = rt[r].counter
<1> DEFINE t == ~rt[r].inTurn
           core == [rt[r] EXCEPT !.inTurn = t, !.outside = {}]
<1>1. rt[r] \in Cores /\ t \in BOOLEAN /\ {} \in Payloads
    BY DEF TypeOK, Payloads
<1>2. rt' = [rt EXCEPT ![r] = core] /\ rt[r].phase = "live"
    BY <1>1 DEF TurnLock, TypeOK
<1> HIDE DEF t
<1>3. core \in Cores
    BY <1>1 DEF Cores
<1>4. /\ core.mem = rt[r].mem /\ core.outside = {} /\ core.inflight = rt[r].inflight
      /\ core.counter = rt[r].counter /\ core.phase = rt[r].phase
      /\ core.epoch = rt[r].epoch /\ core.loaded = rt[r].loaded /\ core.deleted = rt[r].deleted
    BY <1>1 DEF Cores
<1> HIDE DEF core
<1> QED
    BY <1>2, <1>3, <1>4 DEF Becomes, OpenPhases

\* capture_persistence mints a generation and one capture.
LEMMA TakeCaptureEffect ==
    ASSUME TypeOK, NEW r \in Runtimes, NEW kind \in {"gate", "checkpoint"}, NEW payload \in Payloads,
           TakeCapture(r, kind, payload)
    PROVE  \E core \in Cores : \E c \in Captures :
            /\ Becomes(r, core)
            /\ core.mem = rt[r].mem /\ core.outside = rt[r].outside
            /\ core.phase = rt[r].phase /\ core.inTurn = rt[r].inTurn
            /\ core.counter = rt[r].counter + 1
            /\ core.inflight = rt[r].inflight \cup {c}
            /\ c.gen = rt[r].counter + 1 /\ c.payload = payload
<1> DEFINE c == [gen |-> rt[r].counter + 1, payload |-> payload, kind |-> kind, awaited |-> TRUE]
           n == rt[r].counter + 1
           f == rt[r].inflight \cup {c}
           core == [rt[r] EXCEPT !.counter = n, !.inflight = f]
<1>1. rt[r] \in Cores
    BY DEF TypeOK
<1>2. n \in Nat /\ rt[r].inflight \in SUBSET Captures
    BY <1>1, CoreFields
<1>3. c \in Captures /\ c.gen = n /\ c.payload = payload
    BY <1>2 DEF Captures
<1>4. rt' = [rt EXCEPT ![r] = core] /\ rt[r].phase = "live"
    BY <1>1 DEF TakeCapture, TypeOK
<1> HIDE DEF c
<1>5. f \in SUBSET Captures
    BY <1>2, <1>3
<1> HIDE DEF n, f
<1>6. core \in Cores
    BY <1>1, <1>2, <1>5 DEF Cores
<1>7. /\ core.mem = rt[r].mem /\ core.outside = rt[r].outside /\ core.inflight = f
      /\ core.counter = n /\ core.inTurn = rt[r].inTurn /\ core.phase = rt[r].phase
      /\ core.epoch = rt[r].epoch /\ core.loaded = rt[r].loaded /\ core.deleted = rt[r].deleted
    BY <1>1 DEF Cores
<1> HIDE DEF core
<1>8. Becomes(r, core)
    BY <1>4, <1>7 DEF Becomes, OpenPhases
<1> QED
    BY <1>3, <1>6, <1>7, <1>8 DEF n, f

\* Every capture in `new' has a twin in `old'.
Shrinks(new, old) == \A d \in new : \E c \in old : d.gen = c.gen /\ d.payload = c.payload

\* An open that returns with its first save stays open.
LEMMA OpenedOpen ==
    ASSUME NEW p \in OpenPhases
    PROVE  Opened(p) \in OpenPhases /\ (Opened(p) = "closed" <=> p = "closed")
BY DEF OpenPhases, Opened

\* Dropping a waiter relabels one capture.
LEMMA DropWaiterEffect ==
    ASSUME TypeOK, NEW r \in Runtimes, DropWaiter(r)
    PROVE  \E core \in Cores :
            /\ Becomes(r, core)
            /\ core.mem = rt[r].mem /\ core.outside = rt[r].outside /\ core.counter = rt[r].counter
            /\ core.phase = rt[r].phase /\ core.inTurn = rt[r].inTurn
            /\ Shrinks(core.inflight, rt[r].inflight)
<1>1. rt[r] \in Cores /\ rt[r].inflight \in SUBSET Captures
    BY CoreFields DEF TypeOK
<1>2. PICK c \in rt[r].inflight :
        /\ rt[r].phase = "live"
        /\ rt' = [rt EXCEPT ![r].inflight = (@ \ {c}) \cup {[c EXCEPT !.awaited = FALSE]}]
    BY DEF DropWaiter
<1> DEFINE f == (rt[r].inflight \ {c}) \cup {[c EXCEPT !.awaited = FALSE]}
           core == [rt[r] EXCEPT !.inflight = f]
<1>3. f \in SUBSET Captures /\ Shrinks(f, rt[r].inflight)
    BY <1>1, Unawaited DEF Shrinks
<1>4. rt' = [rt EXCEPT ![r] = core]
    BY <1>2
<1> HIDE DEF f
<1>5. core \in Cores
    BY <1>1, <1>3, CoreUpdates
<1>6. /\ core.mem = rt[r].mem /\ core.outside = rt[r].outside /\ core.inflight = f
      /\ core.counter = rt[r].counter /\ core.inTurn = rt[r].inTurn /\ core.phase = rt[r].phase
      /\ core.epoch = rt[r].epoch /\ core.loaded = rt[r].loaded /\ core.deleted = rt[r].deleted
    BY <1>1 DEF Cores
<1> HIDE DEF core
<1>7. Becomes(r, core)
    BY <1>2, <1>4, <1>6 DEF Becomes, OpenPhases
<1> QED
    BY <1>3, <1>5, <1>6, <1>7

\* Closing a core leaves its captures to land on their own.
LEMMA CloseEffect ==
    ASSUME TypeOK, NEW r \in Runtimes, Close(r)
    PROVE  \E core \in Cores :
            /\ Becomes(r, core)
            /\ core.mem = rt[r].mem /\ core.outside = rt[r].outside /\ core.counter = rt[r].counter
            /\ core.phase = "closed"
            /\ Shrinks(core.inflight, rt[r].inflight)
<1> DEFINE f == {[c EXCEPT !.awaited = FALSE] : c \in rt[r].inflight}
           core == [rt[r] EXCEPT !.phase = "closed", !.inTurn = FALSE, !.inflight = f]
<1>1. rt[r] \in Cores /\ rt[r].inflight \in SUBSET Captures /\ "closed" \in Phases
    BY CoreFields DEF TypeOK, Phases
<1>2. rt' = [rt EXCEPT ![r] = core] /\ rt[r].phase = "live"
    BY <1>1 DEF Close, TypeOK
<1>3. f \in SUBSET Captures /\ Shrinks(f, rt[r].inflight)
    BY <1>1, Unawaited DEF Shrinks
<1> HIDE DEF f
<1>4. core \in Cores
    BY <1>1, <1>3 DEF Cores
<1>5. /\ core.mem = rt[r].mem /\ core.outside = rt[r].outside /\ core.inflight = f
      /\ core.counter = rt[r].counter /\ core.phase = "closed"
      /\ core.epoch = rt[r].epoch /\ core.loaded = rt[r].loaded /\ core.deleted = rt[r].deleted
    BY <1>1 DEF Cores
<1> HIDE DEF core
<1>6. Becomes(r, core)
    BY <1>2, <1>5 DEF Becomes, OpenPhases
<1> QED
    BY <1>3, <1>4, <1>5, <1>6

\* A failed save drops one capture.
LEMMA SaveFailsEffect ==
    ASSUME TypeOK, NEW r \in Runtimes, SaveFails(r), rt[r].inflight # {} => rt[r].phase \in OpenPhases
    PROVE  \E core \in Cores :
            /\ Becomes(r, core)
            /\ core.mem = rt[r].mem /\ core.outside = rt[r].outside /\ core.counter = rt[r].counter
            /\ core.phase = "closed" <=> rt[r].phase = "closed"
            /\ core.inTurn = rt[r].inTurn
            /\ Shrinks(core.inflight, rt[r].inflight)
<1>1. rt[r] \in Cores /\ rt[r].inflight \in SUBSET Captures /\ Opened(rt[r].phase) \in Phases
    BY CoreFields, OpenedTyped DEF TypeOK
<1>2. PICK c \in rt[r].inflight : rt' = [rt EXCEPT ![r].inflight = @ \ {c}, ![r].phase = Opened(@)]
    BY DEF SaveFails
<1> DEFINE f == rt[r].inflight \ {c}
           core == [rt[r] EXCEPT !.inflight = f, !.phase = Opened(rt[r].phase)]
<1>3. f \in SUBSET Captures /\ Shrinks(f, rt[r].inflight)
    BY <1>1 DEF Shrinks
<1>4. rt' = [rt EXCEPT ![r] = core]
    BY <1>1, <1>2 DEF TypeOK
<1> HIDE DEF f
<1>5. core \in Cores
    BY <1>1, <1>3 DEF Cores
<1>6. /\ core.mem = rt[r].mem /\ core.outside = rt[r].outside /\ core.inflight = f
      /\ core.counter = rt[r].counter /\ core.inTurn = rt[r].inTurn /\ core.phase = Opened(rt[r].phase)
      /\ core.epoch = rt[r].epoch /\ core.loaded = rt[r].loaded /\ core.deleted = rt[r].deleted
    BY <1>1 DEF Cores
<1> HIDE DEF core
<1>7. Becomes(r, core) /\ (core.phase = "closed" <=> rt[r].phase = "closed")
    BY <1>2, <1>4, <1>6, OpenedOpen DEF Becomes
<1> QED
    BY <1>3, <1>5, <1>6, <1>7

\* A save drops one capture; it writes the row only when the epoch matches and
\* the generation is newer.
LEMMA SaveEffect ==
    ASSUME TypeOK, NEW r \in Runtimes, Save(r), rt[r].inflight # {} => rt[r].phase \in OpenPhases
    PROVE  \E core \in Cores : \E c \in rt[r].inflight :
            /\ Becomes(r, core)
            /\ core.mem = rt[r].mem /\ core.outside = rt[r].outside /\ core.counter >= rt[r].counter
            /\ core.phase = "closed" <=> rt[r].phase = "closed"
            /\ core.inTurn = rt[r].inTurn
            /\ core.inflight = rt[r].inflight \ {c}
            /\ \/ row' = row
               \/ /\ ~rt[r].deleted /\ rt[r].epoch = writerEpoch
                  /\ row.exists => row.gen < c.gen
                  /\ row' = RowOf(r, c)
<1>1. /\ rt[r] \in Cores /\ rt[r].inflight \in SUBSET Captures /\ Opened(rt[r].phase) \in Phases
      /\ rt[r].counter \in Nat /\ rt[r].lastSaved \in Nat /\ rt[r].superseded \in BOOLEAN
    BY CoreFields, OpenedTyped DEF TypeOK
<1>2. PICK c \in rt[r].inflight :
        /\ rt' = [rt EXCEPT ![r] = SaveReply(r, c, SaveOutcome(r, c))]
        /\ row' = IF SaveOutcome(r, c) = "saved" THEN RowOf(r, c) ELSE row
    BY DEF Save
<1> DEFINE core == SaveReply(r, c, SaveOutcome(r, c))
           o == SaveOutcome(r, c)
           f == rt[r].inflight \ {c}
           sup == rt[r].superseded \/ o = "now_superseded"
           ls == IF o = "saved" THEN c.gen ELSE IF o = "stale_stored" THEN row.gen ELSE rt[r].lastSaved
           seen == IF o = "stale_here" THEN rt[r].lastSaved ELSE row.gen
           n == IF o \in {"stale_here", "stale_stored"} /\ c.awaited /\ rt[r].counter < seen
                THEN seen ELSE rt[r].counter
<1>3. c.gen \in Nat /\ row.gen \in Nat
    BY <1>1, CaptureFields, RowFields DEF TypeOK
<1>4. f \in SUBSET Captures /\ sup \in BOOLEAN
    BY <1>1
<1>5. ls \in Nat
    BY <1>1, <1>3
<1>6. n \in Nat /\ n >= rt[r].counter
    BY <1>1, <1>3
<1>7. core = [rt[r] EXCEPT !.phase = Opened(rt[r].phase), !.inflight = f, !.superseded = sup,
                           !.lastSaved = ls, !.counter = n]
    BY DEF SaveReply
<1>8. \/ row' = row
      \/ /\ ~rt[r].deleted /\ rt[r].epoch = writerEpoch
         /\ row.exists => row.gen < c.gen
         /\ row' = RowOf(r, c)
    <2>1. o = "saved" =>
            ~rt[r].deleted /\ EpochMatches(rt[r].epoch) /\ ~GenerationStale(c.gen)
        BY DEF SaveOutcome
    <2> HIDE DEF o
    <2> QED
        BY <1>2, <1>3, <2>1 DEF EpochMatches, GenerationStale, o
<1> HIDE DEF f, sup, ls, n, core
<1>9. core \in Cores
    <2> DEFINE a == [rt[r] EXCEPT !.phase = Opened(rt[r].phase)]
               b == [a EXCEPT !.inflight = f]
               d == [b EXCEPT !.superseded = sup]
               e == [d EXCEPT !.lastSaved = ls]
    <2>1. core = [e EXCEPT !.counter = n]
        BY <1>1, <1>7
    <2>2. a \in Cores
        BY <1>1, CoreUpdates
    <2> HIDE DEF a
    <2>3. b \in Cores
        BY <1>4, <2>2, CoreUpdates
    <2> HIDE DEF b
    <2>4. d \in Cores
        BY <1>4, <2>3, CoreUpdates
    <2> HIDE DEF d
    <2>5. e \in Cores
        BY <1>5, <2>4, CoreUpdates
    <2> HIDE DEF e
    <2> QED
        BY <1>6, <2>1, <2>5, CoreUpdates
<1>10. /\ core.mem = rt[r].mem /\ core.outside = rt[r].outside /\ core.inflight = f
       /\ core.counter = n /\ core.inTurn = rt[r].inTurn /\ core.phase = Opened(rt[r].phase)
       /\ core.epoch = rt[r].epoch /\ core.loaded = rt[r].loaded /\ core.deleted = rt[r].deleted
    BY <1>1, <1>7 DEF Cores
<1>11. rt' = [rt EXCEPT ![r] = core]
    BY <1>2 DEF core
<1>12. Becomes(r, core) /\ (core.phase = "closed" <=> rt[r].phase = "closed")
    BY <1>2, <1>10, <1>11, OpenedOpen DEF Becomes
<1> QED
    BY <1>6, <1>8, <1>9, <1>10, <1>12 DEF f

\* delete_writer marks the handle deleted.
LEMMA DeleteWriterEffect ==
    ASSUME TypeOK, NEW r \in Runtimes, DeleteWriter(r)
    PROVE  \E core \in Cores :
            /\ Becomes(r, core)
            /\ core.deleted
            /\ core.mem = rt[r].mem /\ core.inflight = rt[r].inflight
<1> DEFINE core == [rt[r] EXCEPT !.deleted = TRUE]
<1>1. rt[r] \in Cores
    BY DEF TypeOK
<1>2. rt' = [rt EXCEPT ![r] = core] /\ rt[r].phase = "live"
    BY DEF DeleteWriter
<1>3. core \in Cores
    BY <1>1, CoreUpdates
<1>4. /\ core.mem = rt[r].mem /\ core.inflight = rt[r].inflight /\ core.phase = rt[r].phase
      /\ core.epoch = rt[r].epoch /\ core.loaded = rt[r].loaded /\ core.deleted
    BY <1>1 DEF Cores
<1> HIDE DEF core
<1> QED
    BY <1>2, <1>3, <1>4 DEF Becomes, OpenPhases

-----------------------------------------------------------------------------
(* The fence: writer epochs are fresh, unique and younger than the latest   *)
(* deletion.                                                                *)

Open(r) == rt[r].phase \in OpenPhases

\* Nobody holds an epoch that was not handed out, and no two runtimes hold the
\* same one.
EpochsFresh ==
    /\ writerEpoch <= lastEpoch
    /\ deletedAt <= lastEpoch
    /\ \A r \in Runtimes : rt[r].epoch <= lastEpoch
    /\ \A r \in Runtimes : Open(r) => rt[r].epoch # 0
    /\ \A r, q \in Runtimes : Open(r) /\ Open(q) /\ rt[r].epoch = rt[q].epoch => r = q

\* A core that is not open has nothing to save.
ClosedIsEmpty == \A r \in Runtimes : ~Open(r) => rt[r].inflight = {}

\* A writer row was claimed, and a payload row written, after the latest
\* deletion; the payload row is not newer than the claim.
FenceHolds ==
    /\ writerEpoch = 0 \/ writerEpoch > deletedAt
    /\ row.exists => row.by <= writerEpoch
    /\ row.exists => row.by = 0 \/ row.by > deletedAt

FenceInv == TypeOK /\ EpochsFresh /\ ClosedIsEmpty /\ FenceHolds

\* The fence holds before anything was claimed.
LEMMA FenceInit == Init => FenceInv
<1> SUFFICES ASSUME Init PROVE FenceInv
    OBVIOUS
<1>1. TypeOK
    BY NoCoreTyped DEF Init, TypeOK
<1>2. \A r \in Runtimes : rt[r].phase = "idle" /\ rt[r].epoch = 0 /\ rt[r].inflight = {}
    BY DEF Init, NoCore
<1>3. writerEpoch = 0 /\ deletedAt = 0 /\ lastEpoch = 0 /\ ~row.exists
    BY DEF Init, NoRow
<1> QED
    BY <1>1, <1>2, <1>3 DEF FenceInv, EpochsFresh, ClosedIsEmpty, FenceHolds, Open, OpenPhases

\* A step of an open core that hands out no epoch leaves the cores in order.
LEMMA CoresInOrder ==
    ASSUME FenceInv, NEW r \in Runtimes, NEW core \in Cores, Becomes(r, core),
           lastEpoch' = lastEpoch, writerEpoch' <= lastEpoch, deletedAt' <= lastEpoch
    PROVE  EpochsFresh' /\ ClosedIsEmpty' /\ rt' \in [Runtimes -> Cores]
<1>1. rt' \in [Runtimes -> Cores]
    BY DEF FenceInv, TypeOK, Becomes
<1>2. /\ \A q \in Runtimes : rt'[q].epoch = rt[q].epoch
      /\ \A q \in Runtimes : rt'[q].phase \in OpenPhases <=> rt[q].phase \in OpenPhases
      /\ \A q \in Runtimes : rt'[q].phase \notin OpenPhases => rt'[q] = rt[q]
    BY DEF FenceInv, TypeOK, Becomes
<1>3. EpochsFresh'
    BY <1>2 DEF FenceInv, EpochsFresh, Open
<1>4. ClosedIsEmpty'
    BY <1>2 DEF FenceInv, ClosedIsEmpty, Open
<1> QED
    BY <1>1, <1>3, <1>4

\* A step that empties the slot of r, or fills it with a core not yet claimed.
LEMMA SlotInOrder ==
    ASSUME FenceInv, NEW r \in Runtimes, NEW core \in Cores, rt' = [rt EXCEPT ![r] = core],
           core.phase \notin OpenPhases, core.epoch = 0, core.inflight = {},
           UNCHANGED <<row, writerEpoch, lastEpoch, deletedAt, used, mutations>>
    PROVE  FenceInv'
<1>1. TypeOK'
    BY DEF FenceInv, TypeOK
<1>2. \A q \in Runtimes : rt'[q] = IF q = r THEN core ELSE rt[q]
    BY DEF FenceInv, TypeOK
<1>3. EpochsFresh' /\ ClosedIsEmpty'
    BY <1>2 DEF FenceInv, TypeOK, EpochsFresh, ClosedIsEmpty, Open
<1> QED
    BY <1>1, <1>3 DEF FenceInv, FenceHolds

\* A claim: the new epoch is younger than every other.
LEMMA ClaimInOrder ==
    ASSUME FenceInv, NEW r \in Runtimes, NEW expected, NEW core \in Cores, Claim(r, expected, core),
           core.phase \in OpenPhases, core.epoch = lastEpoch + 1
    PROVE  FenceInv'
<1>1. TypeOK'
    BY DEF FenceInv, TypeOK, Claim
<1>2. /\ \A q \in Runtimes : rt'[q] = IF q = r THEN core ELSE rt[q]
      /\ lastEpoch' = lastEpoch + 1 /\ writerEpoch' = lastEpoch + 1 /\ row' = row /\ deletedAt' = deletedAt
      /\ lastEpoch \in Nat /\ writerEpoch \in Nat /\ deletedAt \in Nat
    BY DEF FenceInv, TypeOK, Claim
<1>3. \A q \in Runtimes : rt[q].epoch \in Nat /\ row.by \in Nat
    BY CoreFields, RowFields DEF FenceInv, TypeOK
<1>4. EpochsFresh'
    BY <1>2, <1>3 DEF FenceInv, EpochsFresh, Open
<1>5. ClosedIsEmpty'
    BY <1>2 DEF FenceInv, ClosedIsEmpty, Open
<1>6. FenceHolds'
    BY <1>2, <1>3 DEF FenceInv, FenceHolds, EpochsFresh
<1> QED
    BY <1>1, <1>4, <1>5, <1>6 DEF FenceInv

\* Deleting both rows keeps the fence, and dates the deletion.
LEMMA EraseInOrder ==
    ASSUME FenceInv, EraseRows
    PROVE  /\ FenceHolds' /\ row' \in Rows /\ writerEpoch' = 0 /\ deletedAt' = lastEpoch
           /\ lastEpoch' = lastEpoch /\ used' = used /\ mutations' = mutations
BY NoCoreTyped DEF FenceInv, EraseRows, FenceHolds, NoRow

\* A step of an open core that leaves the store alone.
LEMMA FenceKept ==
    ASSUME FenceInv, NEW r \in Runtimes, NEW core \in Cores, Becomes(r, core), mutations' \in Nat,
           UNCHANGED <<row, writerEpoch, lastEpoch, deletedAt, used>>
    PROVE  FenceInv'
<1>1. EpochsFresh' /\ ClosedIsEmpty' /\ rt' \in [Runtimes -> Cores]
    BY CoresInOrder DEF FenceInv, EpochsFresh
<1> QED
    BY <1>1 DEF FenceInv, TypeOK, FenceHolds

\* Only an open core has captures to save.
LEMMA OpenIfSaving ==
    ASSUME FenceInv, NEW r \in Runtimes
    PROVE  rt[r].inflight # {} => rt[r].phase \in OpenPhases
BY DEF FenceInv, ClosedIsEmpty, Open

\* The row a save writes.
LEMMA RowOfTyped ==
    ASSUME TypeOK, NEW r \in Runtimes, NEW c \in rt[r].inflight
    PROVE  /\ c \in Captures /\ RowOf(r, c) \in Rows /\ RowOf(r, c).exists
           /\ RowOf(r, c).gen = c.gen /\ RowOf(r, c).payload = c.payload /\ RowOf(r, c).by = rt[r].epoch
<1>1. c \in Captures /\ rt[r].epoch \in Nat
    BY CoreFields DEF TypeOK
<1>2. c.gen \in Nat /\ c.payload \in Payloads
    BY <1>1, CaptureFields
<1> QED
    BY <1>1, <1>2 DEF RowOf, Rows

\* A save keeps the fence: the row it writes is by the current writer.
LEMMA FenceSave == ASSUME FenceInv, NEW r \in Runtimes, Save(r) PROVE FenceInv'
<1>1. PICK core \in Cores, c \in rt[r].inflight :
        /\ Becomes(r, core)
        /\ \/ row' = row
           \/ rt[r].epoch = writerEpoch /\ row' = RowOf(r, c)
    BY SaveEffect, OpenIfSaving DEF FenceInv
<1>2. UNCHANGED <<writerEpoch, lastEpoch, deletedAt, used, mutations>>
    BY DEF Save
<1>3. EpochsFresh' /\ ClosedIsEmpty' /\ rt' \in [Runtimes -> Cores]
    BY <1>1, <1>2, CoresInOrder DEF FenceInv, EpochsFresh
<1>4. CASE row' = row
    BY <1>2, <1>3, <1>4 DEF FenceInv, TypeOK, FenceHolds
<1>5. CASE rt[r].epoch = writerEpoch /\ row' = RowOf(r, c)
    <2>1. row' \in Rows /\ row'.by = writerEpoch
        BY <1>5, RowOfTyped DEF FenceInv
    <2>2. writerEpoch # 0 /\ writerEpoch \in Nat
        BY <1>1, <1>5 DEF FenceInv, TypeOK, EpochsFresh, Open, Becomes
    <2> QED
        BY <1>2, <1>3, <2>1, <2>2 DEF FenceInv, TypeOK, FenceHolds
<1> QED
    BY <1>1, <1>4, <1>5

\* Every step keeps the fence.
LEMMA FenceStep == FenceInv /\ [Next]_vars => FenceInv'
<1> SUFFICES ASSUME FenceInv, [Next]_vars PROVE FenceInv'
    OBVIOUS
<1>t. TypeOK /\ mutations \in Nat /\ lastEpoch \in Nat
    BY DEF FenceInv, TypeOK
<1>n. NoCore \in Cores /\ NoCore.phase \notin OpenPhases /\ NoCore.epoch = 0 /\ NoCore.inflight = {}
    BY NoCoreTyped DEF NoCore, OpenPhases
<1>1. ASSUME NEW r \in Runtimes, Create(r) PROVE FenceInv'
    BY <1>1, <1>t, CreatedTyped, ClaimInOrder DEF Create, OpenPhases
<1>2. ASSUME NEW r \in Runtimes, Load(r) PROVE FenceInv'
    <2> DEFINE core == [NoCore EXCEPT !.phase = "loaded", !.loaded = row]
    <2>1. core \in Cores /\ core.phase \notin OpenPhases /\ core.epoch = 0 /\ core.inflight = {}
        BY <1>t, LoadedTyped DEF TypeOK, OpenPhases
    <2>2. rt' = [rt EXCEPT ![r] = core]
        BY <1>2 DEF Load
    <2> HIDE DEF core
    <2> QED
        BY <1>2, <2>1, <2>2, SlotInOrder DEF Load
<1>3. ASSUME NEW r \in Runtimes, ClaimLoaded(r) PROVE FenceInv'
    <2>1. rt[r].loaded \in Rows
        BY <1>t, CoreFields DEF TypeOK
    <2>2. /\ ClaimedCore(rt[r].loaded) \in Cores /\ ClaimedCore(rt[r].loaded).phase \in OpenPhases
          /\ ClaimedCore(rt[r].loaded).epoch = lastEpoch + 1
        BY <1>t, <2>1, ClaimedTyped DEF OpenPhases
    <2> QED
        BY <1>3, <2>2, ClaimInOrder DEF ClaimLoaded
<1>4. ASSUME NEW r \in Runtimes, ClaimRefused(r) PROVE FenceInv'
    BY <1>4, <1>n, SlotInOrder DEF ClaimRefused
<1>5. ASSUME NEW r \in Runtimes, Mutate(r) PROVE FenceInv'
    <2>1. /\ mutations' \in Nat
          /\ UNCHANGED <<row, writerEpoch, lastEpoch, deletedAt, used>>
        BY <1>5, <1>t DEF Mutate
    <2>2. PICK core \in Cores : Becomes(r, core)
        BY <1>5, <1>t, MutateEffect
    <2> QED
        BY <2>1, <2>2, FenceKept
<1>6. ASSUME NEW r \in Runtimes, PickOption(r) PROVE FenceInv'
    <2>1. /\ mutations' \in Nat
          /\ UNCHANGED <<row, writerEpoch, lastEpoch, deletedAt, used>>
        BY <1>6, <1>t DEF PickOption
    <2>2. PICK core \in Cores : Becomes(r, core)
        BY <1>6, <1>t, PickOptionEffect
    <2> QED
        BY <2>1, <2>2, FenceKept
<1>7. ASSUME NEW r \in Runtimes, TurnLock(r) PROVE FenceInv'
    BY <1>7, <1>t, TurnLockEffect, FenceKept DEF TurnLock
<1>8. ASSUME NEW r \in Runtimes, CapturePersistence(r) PROVE FenceInv'
    <2>1. rt[r].mem \in Payloads /\ TakeCapture(r, "gate", rt[r].mem)
        BY <1>8, <1>t, CoreFields DEF TypeOK, CapturePersistence
    <2> QED
        BY <2>1, <1>t, TakeCaptureEffect, FenceKept DEF TakeCapture
<1>9. ASSUME NEW r \in Runtimes, CaptureCheckpoint(r) PROVE FenceInv'
    <2>1. /\ rt[r].mem \ rt[r].outside \in Payloads
          /\ TakeCapture(r, "checkpoint", rt[r].mem \ rt[r].outside)
        BY <1>9, <1>t, CoreFields, PayloadGrows DEF TypeOK, CaptureCheckpoint
    <2> QED
        BY <2>1, <1>t, TakeCaptureEffect, FenceKept DEF TakeCapture
<1>10. ASSUME NEW r \in Runtimes, DropWaiter(r) PROVE FenceInv'
    BY <1>10, <1>t, DropWaiterEffect, FenceKept DEF DropWaiter
<1>11. ASSUME NEW r \in Runtimes, Save(r) PROVE FenceInv'
    BY <1>11, FenceSave
<1>12. ASSUME NEW r \in Runtimes, SaveFails(r) PROVE FenceInv'
    BY <1>12, <1>t, SaveFailsEffect, OpenIfSaving, FenceKept DEF SaveFails
<1>13. ASSUME NEW r \in Runtimes, DeleteWriter(r) PROVE FenceInv'
    <2>1. PICK core \in Cores : Becomes(r, core)
        BY <1>13, <1>t, DeleteWriterEffect
    <2>2. CASE EraseRows
        BY <2>1, <2>2, EraseInOrder, CoresInOrder DEF FenceInv, TypeOK
    <2>3. CASE UNCHANGED <<row, writerEpoch, lastEpoch, deletedAt, used, mutations>>
        BY <1>t, <2>1, <2>3, FenceKept
    <2> QED
        BY <1>13, <2>2, <2>3 DEF DeleteWriter
<1>14. ASSUME NEW r \in Runtimes, Close(r) PROVE FenceInv'
    BY <1>14, <1>t, CloseEffect, FenceKept DEF Close
<1>15. ASSUME NEW r \in Runtimes, Reap(r) PROVE FenceInv'
    BY <1>15, <1>n, SlotInOrder DEF Reap
<1>16. ASSUME NEW r \in Runtimes, Crash(r) PROVE FenceInv'
    BY <1>16, <1>n, SlotInOrder DEF Crash
<1>17. CASE Import
    <2>1. row' \in Rows /\ row'.by = 0 /\ mutations' \in Nat /\ used' \in BOOLEAN
        BY <1>17, <1>t DEF Import, Rows, Payloads
    <2> QED
        BY <1>17, <2>1 DEF Import, FenceInv, TypeOK, EpochsFresh, ClosedIsEmpty, FenceHolds, Open
<1>18. CASE DeleteUnconditionally
    BY <1>18, EraseInOrder DEF DeleteUnconditionally, FenceInv, TypeOK, EpochsFresh, ClosedIsEmpty, Open
<1>19. CASE UNCHANGED vars
    BY <1>19 DEF vars, FenceInv, TypeOK, EpochsFresh, ClosedIsEmpty, FenceHolds, Open
<1> QED
    BY <1>1, <1>2, <1>3, <1>4, <1>5, <1>6, <1>7, <1>8, <1>9, <1>10, <1>11, <1>12, <1>13, <1>14,
       <1>15, <1>16, <1>17, <1>18, <1>19 DEF Next, RuntimeStep

\* The store, the writer row and every core stay well formed through every
\* claim, save, deletion and crash of claim_writer, write_record and delete.
THEOREM TypeCorrect == Spec => []TypeOK
<1>1. FenceInv => TypeOK
    BY DEF FenceInv
<1> QED
    BY <1>1, FenceInit, FenceStep, PTL DEF Spec

\* No late save of an older core brings a deleted session back, whatever ids
\* are reused: write_record's epoch check and the deletion of the writer row
\* suffice.
THEOREM DeletedStaysDeleted == Spec => []NoResurrection
<1>1. FenceInv => NoResurrection
    BY DEF FenceInv, FenceHolds, NoResurrection
<1> QED
    BY <1>1, FenceInit, FenceStep, PTL DEF Spec

\* Only a save replaces a row, and it is by the current writer.
LEMMA WriterStep ==
    FenceInv /\ [Next]_vars => (row.exists /\ row'.exists /\ row' # row => row'.by >= row.by /\ row'.gen > row.gen)
<1> SUFFICES ASSUME FenceInv, [Next]_vars, row.exists, row'.exists, row' # row
             PROVE  row'.by >= row.by /\ row'.gen > row.gen
    OBVIOUS
<1>1. ~EraseRows
    BY DEF EraseRows, NoRow
<1>2. PICK r \in Runtimes : Save(r)
    BY <1>1 DEF Next, RuntimeStep, vars, Create, Load, ClaimLoaded, ClaimRefused, Claim, Import, Mutate,
                PickOption, TurnLock, CapturePersistence, CaptureCheckpoint, TakeCapture, DropWaiter,
                SaveFails, DeleteWriter, DeleteUnconditionally, Close, Reap, Crash
<1>3. PICK c \in rt[r].inflight :
        rt[r].epoch = writerEpoch /\ (row.exists => row.gen < c.gen) /\ row' = RowOf(r, c)
    BY <1>2, SaveEffect, OpenIfSaving DEF FenceInv
<1>4. row'.by = writerEpoch /\ row'.gen = c.gen /\ c.gen \in Nat
    BY <1>3, RowOfTyped, CaptureFields DEF FenceInv
<1>5. row.by <= writerEpoch /\ row.by \in Nat /\ writerEpoch \in Nat /\ row.gen \in Nat
    BY RowFields DEF FenceInv, FenceHolds, TypeOK
<1> QED
    BY <1>3, <1>4, <1>5

\* Rows are written in the order of the claims, and within a claim in the
\* order of the generations: write_record refuses an epoch that is not current
\* and a generation that is not newer, whatever order the saves run in.
THEOREM WritersInOrder == Spec => WritersAdvance
<1>1. FenceInv /\ [Next]_vars =>
        [row.exists /\ row'.exists /\ row' # row => row'.by >= row.by /\ row'.gen > row.gen]_vars
    BY WriterStep
<1> QED
    BY <1>1, FenceInit, FenceStep, PTL DEF Spec, WritersAdvance

-----------------------------------------------------------------------------
(* The chain: what the owner has stored, captured and in memory is ordered  *)
(* by generation.  This needs ids that are not used again.                  *)

\* No payload reflects a mutation that has not been made.
PayloadsBounded ==
    /\ \A n \in row.payload : n <= mutations
    /\ \A r \in Runtimes :
        /\ \A n \in rt[r].mem : n <= mutations
        /\ \A n \in rt[r].loaded.payload : n <= mutations

\* What a core read before its claim is the row or older than it, and a row
\* that has gone since then has no writer any more.
LoadedIsOlder ==
    /\ row.exists \/ writerEpoch # 0 => used
    /\ \A r \in Runtimes : rt[r].phase = "loaded" =>
        /\ used
        /\ rt[r].loaded.exists
        /\ ~row.exists => writerEpoch = 0
        /\ row.exists => rt[r].loaded.gen <= row.gen
        /\ row.exists /\ rt[r].loaded.gen = row.gen => rt[r].loaded.payload = row.payload

\* The part of a core's memory that every capture reflects.
Settled(core) == core.mem \ core.outside

\* The row, the captures and the memory of a core form a chain.
Chain(core) ==
    /\ core.phase # "closed" /\ ~core.inTurn => core.outside = {}
    /\ row.exists => row.payload \subseteq Settled(core) /\ row.gen <= core.counter
    /\ \A c \in core.inflight :
        /\ c.payload \subseteq Settled(core)
        /\ c.gen <= core.counter
        /\ row.exists /\ c.gen <= row.gen => c.payload \subseteq row.payload
        /\ row.exists /\ row.gen <= c.gen => row.payload \subseteq c.payload
    /\ \A c, d \in core.inflight : c.gen <= d.gen => c.payload \subseteq d.payload

OwnerChain == \A r \in Runtimes : Owns(r) => Chain(rt[r])

ChainInv == FenceInv /\ PayloadsBounded /\ LoadedIsOlder /\ OwnerChain

\* The chain holds before anything was claimed.
LEMMA ChainInit == Init => ChainInv
<1> SUFFICES ASSUME Init PROVE ChainInv
    OBVIOUS
<1>1. FenceInv
    BY FenceInit
<1>2. \A r \in Runtimes : rt[r].phase = "idle" /\ rt[r].mem = {} /\ rt[r].loaded.payload = {}
    BY DEF Init, NoCore, NoRow
<1>3. ~row.exists /\ row.payload = {} /\ writerEpoch = 0
    BY DEF Init, NoRow
<1> QED
    BY <1>1, <1>2, <1>3 DEF ChainInv, PayloadsBounded, LoadedIsOlder, OwnerChain, Owns

\* An open core steps, the store stays.
LEMMA ChainKept ==
    ASSUME ChainInv, NEW r \in Runtimes, NEW core \in Cores, Becomes(r, core),
           mutations' \in Nat, mutations' >= mutations,
           UNCHANGED <<row, writerEpoch, lastEpoch, deletedAt, used>>,
           \A n \in core.mem : n <= mutations',
           Owns(r) => core.deleted \/ Chain(core)
    PROVE  ChainInv'
<1>1. FenceInv'
    BY FenceKept DEF ChainInv
<1>2. \A q \in Runtimes : rt'[q] = IF q = r THEN core ELSE rt[q]
    BY DEF ChainInv, FenceInv, TypeOK, Becomes
<1>3. /\ mutations \in Nat
      /\ \A n \in row.payload : n \in Nat
      /\ \A q \in Runtimes : \A n \in rt[q].mem \cup rt[q].loaded.payload : n \in Nat
    BY RowFields, CoreFields DEF ChainInv, FenceInv, TypeOK, Payloads
<1>4. PayloadsBounded'
    BY <1>2, <1>3 DEF ChainInv, PayloadsBounded, Becomes
<1>5. LoadedIsOlder'
    BY <1>2 DEF ChainInv, LoadedIsOlder, Becomes, OpenPhases
<1>6. OwnerChain'
    <2> SUFFICES ASSUME NEW q \in Runtimes, Owns(q)' PROVE Chain(rt[q])'
        BY DEF OwnerChain
    <2>1. CASE q = r
        <3>1. Owns(r) /\ ~core.deleted
            BY <1>2, <2>1 DEF Owns, Becomes, OpenPhases
        <3> QED
            BY <1>2, <2>1, <3>1 DEF Chain
    <2>2. CASE q # r
        BY <1>2, <2>2 DEF ChainInv, OwnerChain, Owns, Chain
    <2> QED
        BY <2>1, <2>2
<1> QED
    BY <1>1, <1>4, <1>5, <1>6 DEF ChainInv

\* An open core that loses or relabels captures keeps its chain.
LEMMA ChainShrinks ==
    ASSUME TypeOK, NEW old \in Cores, Chain(old), NEW new \in Cores,
           new.mem = old.mem, new.outside = old.outside, new.counter >= old.counter,
           Shrinks(new.inflight, old.inflight),
           new.phase # "closed" /\ ~new.inTurn => old.phase # "closed" /\ ~old.inTurn
    PROVE  Chain(new)
<1>1. /\ old.counter \in Nat /\ new.counter \in Nat /\ row.gen \in Nat
      /\ \A c \in old.inflight : c.gen \in Nat
    BY CoreFields, CaptureFields, RowFields DEF TypeOK
<1>2. Settled(new) = Settled(old)
    BY DEF Settled
<1>3. \A d \in new.inflight : \E c \in old.inflight : d.gen = c.gen /\ d.payload = c.payload
    BY DEF Shrinks
<1>4. \A c, d \in new.inflight : c.gen <= d.gen => c.payload \subseteq d.payload
    BY <1>3 DEF Chain
<1>5. \A c \in new.inflight :
        /\ c.payload \subseteq Settled(new)
        /\ c.gen <= new.counter
        /\ row.exists /\ c.gen <= row.gen => c.payload \subseteq row.payload
        /\ row.exists /\ row.gen <= c.gen => row.payload \subseteq c.payload
    BY <1>1, <1>2, <1>3 DEF Chain
<1>6. row.exists => row.payload \subseteq Settled(new) /\ row.gen <= new.counter
    BY <1>1, <1>2 DEF Chain
<1> QED
    BY <1>4, <1>5, <1>6 DEF Chain

\* A capture of what is settled extends the chain.
LEMMA ChainCapture ==
    ASSUME TypeOK, NEW old \in Cores, Chain(old), NEW new \in Cores, NEW c \in Captures,
           new.mem = old.mem, new.outside = old.outside, new.counter = old.counter + 1,
           new.inflight = old.inflight \cup {c}, c.gen = old.counter + 1, c.payload = Settled(old),
           new.phase = old.phase, new.inTurn = old.inTurn
    PROVE  Chain(new)
<1>1. /\ old.counter \in Nat /\ row.gen \in Nat
      /\ \A d \in old.inflight : d.gen \in Nat
    BY CoreFields, CaptureFields, RowFields DEF TypeOK
<1>2. Settled(new) = Settled(old)
    BY DEF Settled
<1>3. row.exists => row.payload \subseteq Settled(old) /\ row.gen <= old.counter
    BY DEF Chain
<1>4. \A d \in old.inflight : d.payload \subseteq Settled(old) /\ d.gen <= old.counter
    BY DEF Chain
<1>5. \A d \in new.inflight :
        /\ d.payload \subseteq Settled(new)
        /\ d.gen <= new.counter
        /\ row.exists /\ d.gen <= row.gen => d.payload \subseteq row.payload
        /\ row.exists /\ row.gen <= d.gen => row.payload \subseteq d.payload
    BY <1>1, <1>2, <1>3, <1>4 DEF Chain
<1>6. \A d, e \in new.inflight : d.gen <= e.gen => d.payload \subseteq e.payload
    BY <1>1, <1>4 DEF Chain
<1> QED
    BY <1>1, <1>2, <1>3, <1>5, <1>6 DEF Chain

\* A mutation adds to what is settled.
LEMMA ChainMutate ==
    ASSUME ChainInv, NEW r \in Runtimes, Mutate(r)
    PROVE  ChainInv'
<1>1. PICK core \in Cores :
        /\ Becomes(r, core)
        /\ core.mem = rt[r].mem \cup {mutations + 1}
        /\ core.outside = rt[r].outside /\ core.inflight = rt[r].inflight
        /\ core.counter = rt[r].counter /\ core.inTurn = rt[r].inTurn /\ core.phase = rt[r].phase
    BY MutateEffect DEF ChainInv, FenceInv
<1>2. /\ mutations \in Nat /\ mutations' = mutations + 1
      /\ UNCHANGED <<row, writerEpoch, lastEpoch, deletedAt, used>>
    BY DEF Mutate, ChainInv, FenceInv, TypeOK
<1>3. \A n \in core.mem : n <= mutations'
    <2>1. \A n \in rt[r].mem : n \in Nat /\ n <= mutations
        BY CoreFields DEF ChainInv, FenceInv, TypeOK, PayloadsBounded, Payloads
    <2> QED
        BY <1>1, <1>2, <2>1
<1>4. Owns(r) => Chain(core)
    <2>1. Settled(rt[r]) \subseteq Settled(core)
        BY <1>1 DEF Settled
    <2> QED
        BY <1>1, <2>1 DEF ChainInv, OwnerChain, Chain
<1> QED
    BY <1>1, <1>2, <1>3, <1>4, ChainKept

\* A picked option is fresh, so it is in no row and no capture.
LEMMA ChainPickOption ==
    ASSUME ChainInv, NEW r \in Runtimes, PickOption(r)
    PROVE  ChainInv'
<1>1. PICK core \in Cores :
        /\ Becomes(r, core)
        /\ core.mem = rt[r].mem \cup {mutations + 1}
        /\ core.outside = rt[r].outside \cup {mutations + 1}
        /\ core.inflight = rt[r].inflight /\ core.counter = rt[r].counter
        /\ rt[r].inTurn /\ core.inTurn
    BY PickOptionEffect DEF ChainInv, FenceInv
<1>2. /\ mutations \in Nat /\ mutations' = mutations + 1
      /\ UNCHANGED <<row, writerEpoch, lastEpoch, deletedAt, used>>
    BY DEF PickOption, ChainInv, FenceInv, TypeOK
<1>m. \A n \in rt[r].mem : n \in Nat /\ n <= mutations
    BY CoreFields DEF ChainInv, FenceInv, TypeOK, PayloadsBounded, Payloads
<1>3. \A n \in core.mem : n <= mutations'
    BY <1>1, <1>2, <1>m
<1>4. Owns(r) => Chain(core)
    <2>1. mutations + 1 \notin rt[r].mem
        BY <1>2, <1>m
    <2>2. Settled(rt[r]) \subseteq Settled(core)
        BY <1>1, <2>1 DEF Settled
    <2> QED
        BY <1>1, <2>2 DEF ChainInv, OwnerChain, Chain
<1> QED
    BY <1>1, <1>2, <1>3, <1>4, ChainKept

\* Settling adds to what is settled.
LEMMA ChainTurnLock ==
    ASSUME ChainInv, NEW r \in Runtimes, TurnLock(r)
    PROVE  ChainInv'
<1>1. PICK core \in Cores :
        /\ Becomes(r, core)
        /\ core.mem = rt[r].mem /\ core.outside = {}
        /\ core.inflight = rt[r].inflight /\ core.counter = rt[r].counter
    BY TurnLockEffect DEF ChainInv, FenceInv
<1>2. mutations \in Nat /\ UNCHANGED <<row, writerEpoch, lastEpoch, deletedAt, used, mutations>>
    BY DEF TurnLock, ChainInv, FenceInv, TypeOK
<1>3. \A n \in core.mem : n <= mutations'
    BY <1>1, <1>2 DEF ChainInv, PayloadsBounded
<1>4. Owns(r) => Chain(core)
    <2>1. Settled(rt[r]) \subseteq Settled(core)
        BY <1>1 DEF Settled
    <2> QED
        BY <1>1, <2>1 DEF ChainInv, OwnerChain, Chain
<1> QED
    BY <1>1, <1>2, <1>3, <1>4, ChainKept

\* The steps that change only captures, counter and phase.
LEMMA ChainSameMemory ==
    ASSUME ChainInv, NEW r \in Runtimes, NEW core \in Cores, Becomes(r, core),
           UNCHANGED <<row, writerEpoch, lastEpoch, deletedAt, used, mutations>>,
           core.mem = rt[r].mem, Owns(r) => core.deleted \/ Chain(core)
    PROVE  ChainInv'
<1>1. mutations' \in Nat /\ mutations' >= mutations
    BY DEF ChainInv, FenceInv, TypeOK
<1>2. \A n \in core.mem : n <= mutations'
    BY DEF ChainInv, PayloadsBounded
<1> QED
    BY <1>1, <1>2, ChainKept

\* Both kinds of capture take what is settled.
LEMMA ChainTakeCapture ==
    ASSUME ChainInv, NEW r \in Runtimes, NEW kind \in {"gate", "checkpoint"}, NEW payload \in Payloads,
           TakeCapture(r, kind, payload), Owns(r) => payload = Settled(rt[r])
    PROVE  ChainInv'
<1>1. PICK core \in Cores, c \in Captures :
        /\ Becomes(r, core)
        /\ core.mem = rt[r].mem /\ core.outside = rt[r].outside
        /\ core.phase = rt[r].phase /\ core.inTurn = rt[r].inTurn
        /\ core.counter = rt[r].counter + 1
        /\ core.inflight = rt[r].inflight \cup {c}
        /\ c.gen = rt[r].counter + 1 /\ c.payload = payload
    BY TakeCaptureEffect DEF ChainInv, FenceInv
<1>2. UNCHANGED <<row, writerEpoch, lastEpoch, deletedAt, used, mutations>>
    BY DEF TakeCapture
<1>3. ASSUME Owns(r) PROVE Chain(core)
    <2>1. TypeOK /\ rt[r] \in Cores /\ Chain(rt[r])
        BY <1>3 DEF ChainInv, FenceInv, TypeOK, OwnerChain
    <2> QED
        BY <1>1, <1>3, <2>1, ChainCapture
<1> QED
    BY <1>1, <1>2, <1>3, ChainSameMemory

\* The steps that only drop or relabel captures.
LEMMA ChainDropCaptures ==
    ASSUME ChainInv, NEW r \in Runtimes, NEW core \in Cores, Becomes(r, core),
           UNCHANGED <<row, writerEpoch, lastEpoch, deletedAt, used, mutations>>,
           core.mem = rt[r].mem, core.outside = rt[r].outside, core.counter >= rt[r].counter,
           Shrinks(core.inflight, rt[r].inflight),
           core.phase # "closed" /\ ~core.inTurn => rt[r].phase # "closed" /\ ~rt[r].inTurn
    PROVE  ChainInv'
<1>1. ASSUME Owns(r) PROVE Chain(core)
    <2>1. TypeOK /\ rt[r] \in Cores /\ Chain(rt[r])
        BY <1>1 DEF ChainInv, FenceInv, TypeOK, OwnerChain
    <2> QED
        BY <2>1, ChainShrinks
<1> QED
    BY <1>1, ChainSameMemory

\* The owner's save moves the row up its chain.
LEMMA ChainSave ==
    ASSUME ChainInv, NEW r \in Runtimes, Save(r)
    PROVE  /\ ChainInv'
           /\ row.exists /\ row'.exists => row.payload \subseteq row'.payload
<1>t. TypeOK /\ FenceInv /\ rt[r] \in Cores
    BY DEF ChainInv, FenceInv, TypeOK
<1>1. PICK core \in Cores, c \in rt[r].inflight :
        /\ Becomes(r, core)
        /\ core.mem = rt[r].mem /\ core.outside = rt[r].outside /\ core.counter >= rt[r].counter
        /\ core.phase = "closed" <=> rt[r].phase = "closed"
        /\ core.inTurn = rt[r].inTurn
        /\ core.inflight = rt[r].inflight \ {c}
        /\ \/ row' = row
           \/ /\ ~rt[r].deleted /\ rt[r].epoch = writerEpoch
              /\ row.exists => row.gen < c.gen
              /\ row' = RowOf(r, c)
    BY <1>t, SaveEffect, OpenIfSaving
<1>2. UNCHANGED <<writerEpoch, lastEpoch, deletedAt, used, mutations>>
    BY DEF Save
<1>3. Shrinks(core.inflight, rt[r].inflight)
    BY <1>1 DEF Shrinks
<1>4. CASE row' = row
    <2>1. ChainInv'
        BY <1>1, <1>2, <1>3, <1>4, ChainDropCaptures
    <2> QED
        BY <1>4, <2>1
<1>5. CASE /\ ~rt[r].deleted /\ rt[r].epoch = writerEpoch
           /\ row.exists => row.gen < c.gen
           /\ row' = RowOf(r, c)
    <2>1. /\ c \in Captures /\ row'.exists /\ row'.gen = c.gen /\ row'.payload = c.payload
          /\ c.gen \in Nat /\ row.gen \in Nat /\ row' \in Rows
        BY <1>t, <1>5, RowOfTyped, CaptureFields, RowFields DEF TypeOK
    <2>2. Owns(r) /\ writerEpoch # 0
        BY <1>1, <1>5 DEF Owns, Becomes, OpenPhases, ChainInv, FenceInv, EpochsFresh, Open
    <2>3. Chain(rt[r])
        BY <2>2 DEF ChainInv, OwnerChain
    <2>4. row.exists => row.payload \subseteq row'.payload
        BY <1>5, <2>1, <2>3 DEF Chain
    <2>5. FenceInv'
        BY <1>t, FenceSave
    <2>6. \A q \in Runtimes : rt'[q] = IF q = r THEN core ELSE rt[q]
        BY <1>1, <1>t DEF TypeOK, Becomes
    <2>7. PayloadsBounded'
        <3>1. \A n \in c.payload : n \in rt[r].mem
            BY <2>3 DEF Chain, Settled
        <3> QED
            BY <1>1, <1>2, <2>1, <2>6, <3>1 DEF ChainInv, PayloadsBounded, Becomes
    <2>8. LoadedIsOlder'
        <3>1. \A q \in Runtimes : rt'[q].phase = "loaded" => rt'[q] = rt[q]
            BY <1>1, <2>6 DEF Becomes, OpenPhases
        <3>2. \A q \in Runtimes : rt[q].loaded.gen \in Nat
            BY <1>t, CoreFields, RowFields DEF TypeOK
        <3> QED
            BY <1>2, <1>5, <2>1, <2>2, <3>1, <3>2 DEF ChainInv, LoadedIsOlder
    <2>9. Chain(core)'
        <3>1. Settled(core) = Settled(rt[r])
            BY <1>1 DEF Settled
        <3>2. rt[r].counter \in Nat /\ core.counter \in Nat /\ \A d \in rt[r].inflight : d.gen \in Nat
            BY <1>t, CoreFields, CaptureFields
        <3>3. core.phase # "closed" /\ ~core.inTurn => core.outside = {}
            BY <1>1, <2>3 DEF Chain
        <3>4. c.payload \subseteq Settled(core) /\ c.gen <= core.counter
            BY <1>1, <2>1, <2>3, <3>1, <3>2 DEF Chain
        <3>5. \A d \in core.inflight :
                /\ d.payload \subseteq Settled(core)
                /\ d.gen <= core.counter
                /\ d.gen <= c.gen => d.payload \subseteq c.payload
                /\ c.gen <= d.gen => c.payload \subseteq d.payload
            BY <1>1, <2>1, <2>3, <3>1, <3>2 DEF Chain
        <3>6. \A d, e \in core.inflight : d.gen <= e.gen => d.payload \subseteq e.payload
            BY <1>1, <2>3 DEF Chain
        <3> QED
            BY <2>1, <3>3, <3>4, <3>5, <3>6 DEF Chain, Settled
    <2>10. OwnerChain'
        <3> SUFFICES ASSUME NEW q \in Runtimes, Owns(q)' PROVE Chain(rt[q])'
            BY DEF OwnerChain
        <3>1. q = r
            BY <1>1, <1>2, <1>5, <1>t, <2>2, <2>6 DEF Owns, OpenPhases, Open, FenceInv, EpochsFresh
        <3> QED
            BY <2>6, <2>9, <3>1 DEF Chain
    <2> QED
        BY <2>4, <2>5, <2>7, <2>8, <2>10 DEF ChainInv
<1> QED
    BY <1>1, <1>4, <1>5

\* A slot is emptied, or filled with a core not yet claimed.
LEMMA ChainSlot ==
    ASSUME ChainInv, NEW r \in Runtimes, NEW core \in Cores, rt' = [rt EXCEPT ![r] = core],
           core.phase \in {"idle", "loaded"}, core.epoch = 0, core.inflight = {}, core.mem = {},
           core.loaded.payload \subseteq row.payload,
           core.phase = "loaded" => core.loaded = row /\ row.exists,
           UNCHANGED <<row, writerEpoch, lastEpoch, deletedAt, used, mutations>>
    PROVE  ChainInv'
<1>1. core.phase \notin OpenPhases
    BY DEF OpenPhases
<1>2. FenceInv'
    BY <1>1, SlotInOrder DEF ChainInv
<1>3. \A q \in Runtimes : rt'[q] = IF q = r THEN core ELSE rt[q]
    BY DEF ChainInv, FenceInv, TypeOK
<1>4. PayloadsBounded'
    BY <1>3 DEF ChainInv, PayloadsBounded
<1>5. LoadedIsOlder'
    <2>1. row.gen \in Nat
        BY RowFields DEF ChainInv, FenceInv, TypeOK
    <2> QED
        BY <1>3, <2>1 DEF ChainInv, LoadedIsOlder
<1>6. OwnerChain'
    BY <1>3 DEF ChainInv, OwnerChain, Owns, Chain
<1> QED
    BY <1>2, <1>4, <1>5, <1>6 DEF ChainInv

\* A claim: the new owner starts a chain, every other core loses its own.
LEMMA ChainClaim ==
    ASSUME ChainInv, NEW r \in Runtimes, NEW expected, NEW core \in Cores, Claim(r, expected, core),
           core.phase \in {"opening", "live"}, core.epoch = lastEpoch + 1, core.loaded = NoRow,
           \A n \in core.mem : n <= mutations,
           Chain(core),
           ~row.exists => \A q \in Runtimes : rt[q].phase # "loaded"
    PROVE  ChainInv'
<1>1. core.phase \in OpenPhases
    BY DEF OpenPhases
<1>2. FenceInv'
    BY <1>1, ClaimInOrder DEF ChainInv
<1>3. /\ \A q \in Runtimes : rt'[q] = IF q = r THEN core ELSE rt[q]
      /\ writerEpoch' = lastEpoch + 1 /\ used' /\ UNCHANGED <<row, mutations>>
    BY DEF ChainInv, FenceInv, TypeOK, Claim
<1>4. PayloadsBounded'
    <2>1. NoRow.payload = {}
        BY DEF NoRow
    <2> QED
        BY <1>3, <2>1 DEF ChainInv, PayloadsBounded
<1>5. LoadedIsOlder'
    BY <1>3 DEF ChainInv, LoadedIsOlder
<1>6. OwnerChain'
    <2> SUFFICES ASSUME NEW q \in Runtimes, Owns(q)' PROVE Chain(rt[q])'
        BY DEF OwnerChain
    <2>1. q = r
        <3>1. rt[q].epoch <= lastEpoch /\ rt[q].epoch \in Nat /\ lastEpoch \in Nat
            BY CoreFields DEF ChainInv, FenceInv, EpochsFresh, TypeOK
        <3> QED
            BY <1>3, <3>1 DEF Owns
    <2> QED
        BY <1>3, <2>1 DEF Chain
<1> QED
    BY <1>2, <1>4, <1>5, <1>6 DEF ChainInv

\* session/new starts an empty chain: an id that is not used again was never loaded.
LEMMA ChainCreate ==
    ASSUME ChainInv, ~IdReuse, NEW r \in Runtimes, Create(r)
    PROVE  ChainInv'
<1> DEFINE c == [gen |-> 1, payload |-> {}, kind |-> "gate", awaited |-> TRUE]
<1>1. lastEpoch \in Nat
    BY DEF ChainInv, FenceInv, TypeOK
<1>2. /\ CreatedCore \in Cores
      /\ CreatedCore.phase = "opening" /\ CreatedCore.epoch = lastEpoch + 1
      /\ CreatedCore.mem = {} /\ CreatedCore.counter = 1 /\ CreatedCore.outside = {}
      /\ CreatedCore.loaded = NoRow /\ CreatedCore.inflight = {c}
    BY <1>1, CreatedTyped
<1>3. Claim(r, NoRow, CreatedCore) /\ ~used
    BY DEF Create
<1>4. ~row.exists
    BY <1>3 DEF Claim, ExpectedMatches, NoRow
<1>5. \A q \in Runtimes : rt[q].phase # "loaded"
    BY <1>3 DEF ChainInv, LoadedIsOlder
<1>6. c.gen = 1 /\ c.payload = {}
    OBVIOUS
<1> HIDE DEF c
<1>7. Chain(CreatedCore)
    BY <1>2, <1>4, <1>6 DEF Chain
<1> QED
    BY <1>2, <1>3, <1>5, <1>7, ChainClaim

\* A claim that matches the generation has loaded the row itself.
LEMMA ChainClaimLoaded ==
    ASSUME ChainInv, NEW r \in Runtimes, ClaimLoaded(r)
    PROVE  ChainInv'
<1> DEFINE w == rt[r].loaded
<1>1. lastEpoch \in Nat /\ w \in Rows
    BY CoreFields DEF ChainInv, FenceInv, TypeOK
<1>2. /\ ClaimedCore(w) \in Cores
      /\ ClaimedCore(w).phase = "live" /\ ClaimedCore(w).epoch = lastEpoch + 1
      /\ ClaimedCore(w).mem = w.payload /\ ClaimedCore(w).counter = w.gen
      /\ ClaimedCore(w).inflight = {} /\ ClaimedCore(w).outside = {} /\ ClaimedCore(w).loaded = NoRow
    BY <1>1, ClaimedTyped
<1>3. Claim(r, w, ClaimedCore(w)) /\ rt[r].phase = "loaded"
    BY DEF ClaimLoaded
<1>4. row.exists /\ row.gen = w.gen /\ row.payload = w.payload
    BY <1>3 DEF Claim, ExpectedMatches, ChainInv, LoadedIsOlder
<1>5. \A n \in ClaimedCore(w).mem : n <= mutations
    BY <1>2, <1>4 DEF ChainInv, PayloadsBounded
<1>6. w.gen \in Nat
    BY <1>1, RowFields
<1> HIDE DEF w
<1>7. Chain(ClaimedCore(w))
    BY <1>2, <1>4, <1>6 DEF Chain, Settled
<1> QED
    BY <1>2, <1>3, <1>4, <1>5, <1>7, ChainClaim

\* A deletion: nobody owns the id any more.
LEMMA ChainErase ==
    ASSUME ChainInv, FenceInv', EraseRows,
           \A q \in Runtimes : /\ rt'[q].mem = rt[q].mem /\ rt'[q].loaded = rt[q].loaded
                               /\ rt'[q].phase = rt[q].phase
    PROVE  ChainInv'
<1>1. ~row'.exists /\ row'.payload = {} /\ writerEpoch' = 0 /\ mutations' = mutations /\ used' = used
    BY DEF EraseRows, NoRow
<1>2. PayloadsBounded'
    BY <1>1 DEF ChainInv, PayloadsBounded
<1>3. LoadedIsOlder'
    BY <1>1 DEF ChainInv, LoadedIsOlder
<1>4. OwnerChain'
    BY <1>1 DEF OwnerChain, Owns, FenceInv, EpochsFresh, Open, OpenPhases
<1> QED
    BY <1>2, <1>3, <1>4 DEF ChainInv

\* A deletion through the handle.
LEMMA ChainDeleteWriter ==
    ASSUME ChainInv, NEW r \in Runtimes, DeleteWriter(r)
    PROVE  ChainInv'
<1>1. PICK core \in Cores : Becomes(r, core) /\ core.deleted /\ core.mem = rt[r].mem
    BY DeleteWriterEffect DEF ChainInv, FenceInv
<1>2. CASE UNCHANGED <<row, writerEpoch, lastEpoch, deletedAt, used, mutations>>
    BY <1>1, <1>2, ChainSameMemory
<1>3. CASE EraseRows
    <2>1. FenceInv'
        BY FenceStep DEF ChainInv, Next, RuntimeStep
    <2>2. rt[r] \in Cores /\ rt' = [rt EXCEPT ![r] = [rt[r] EXCEPT !.deleted = TRUE]]
        BY DEF DeleteWriter, ChainInv, FenceInv, TypeOK
    <2>3. [rt[r] EXCEPT !.deleted = TRUE].phase = rt[r].phase
        BY <2>2 DEF Cores
    <2>4. \A q \in Runtimes : /\ rt'[q].mem = rt[q].mem /\ rt'[q].loaded = rt[q].loaded
                              /\ rt'[q].phase = rt[q].phase
        BY <1>1, <2>2, <2>3 DEF Becomes, ChainInv, FenceInv, TypeOK
    <2> QED
        BY <1>3, <2>1, <2>4, ChainErase
<1> QED
    BY <1>2, <1>3 DEF DeleteWriter

\* An import finds neither writer nor reader of an id that was never used.
LEMMA ChainImport ==
    ASSUME ChainInv, ~IdReuse, Import
    PROVE  ChainInv'
<1>1. FenceInv'
    BY FenceStep DEF ChainInv, Next
<1>2. /\ ~used /\ row'.exists /\ row'.payload = {mutations + 1} /\ used' /\ mutations' = mutations + 1
      /\ writerEpoch = 0 /\ writerEpoch' = 0 /\ rt' = rt /\ mutations \in Nat
    BY DEF Import, ChainInv, FenceInv, TypeOK
<1>3. PayloadsBounded'
    <2>1. \A q \in Runtimes : \A n \in rt[q].mem \cup rt[q].loaded.payload : n \in Nat
        BY RowFields, CoreFields DEF ChainInv, FenceInv, TypeOK, Payloads
    <2> QED
        BY <1>2, <2>1 DEF ChainInv, PayloadsBounded
<1>4. LoadedIsOlder'
    BY <1>2 DEF ChainInv, LoadedIsOlder
<1>5. OwnerChain'
    BY <1>2 DEF OwnerChain, Owns, ChainInv, FenceInv, EpochsFresh, Open, OpenPhases
<1> QED
    BY <1>1, <1>3, <1>4, <1>5 DEF ChainInv

\* Every step keeps the chain.
LEMMA ChainStep == ~IdReuse => (ChainInv /\ [Next]_vars => ChainInv')
<1> SUFFICES ASSUME ~IdReuse, ChainInv, [Next]_vars PROVE ChainInv'
    OBVIOUS
<1>t. TypeOK /\ FenceInv /\ row \in Rows
    BY DEF ChainInv, FenceInv, TypeOK
<1>n. /\ NoCore \in Cores /\ NoCore.phase = "idle" /\ NoCore.epoch = 0 /\ NoCore.inflight = {}
      /\ NoCore.mem = {} /\ NoCore.loaded.payload = {}
    BY NoCoreTyped DEF NoCore, NoRow
<1>1. ASSUME NEW r \in Runtimes, Create(r) PROVE ChainInv'
    BY <1>1, ChainCreate
<1>2. ASSUME NEW r \in Runtimes, Load(r) PROVE ChainInv'
    <2> DEFINE core == [NoCore EXCEPT !.phase = "loaded", !.loaded = row]
    <2>1. /\ core \in Cores /\ core.phase = "loaded" /\ core.epoch = 0 /\ core.inflight = {}
          /\ core.mem = {} /\ core.loaded = row
        BY <1>t, LoadedTyped
    <2>2. /\ rt' = [rt EXCEPT ![r] = core] /\ row.exists
          /\ UNCHANGED <<row, writerEpoch, lastEpoch, deletedAt, used, mutations>>
        BY <1>2 DEF Load
    <2> HIDE DEF core
    <2> QED
        BY <2>1, <2>2, ChainSlot
<1>3. ASSUME NEW r \in Runtimes, ClaimLoaded(r) PROVE ChainInv'
    BY <1>3, ChainClaimLoaded
<1>4. ASSUME NEW r \in Runtimes, ClaimRefused(r) PROVE ChainInv'
    BY <1>4, <1>n, ChainSlot DEF ClaimRefused
<1>5. ASSUME NEW r \in Runtimes, Mutate(r) PROVE ChainInv'
    BY <1>5, ChainMutate
<1>6. ASSUME NEW r \in Runtimes, PickOption(r) PROVE ChainInv'
    BY <1>6, ChainPickOption
<1>7. ASSUME NEW r \in Runtimes, TurnLock(r) PROVE ChainInv'
    BY <1>7, ChainTurnLock
<1>8. ASSUME NEW r \in Runtimes, CapturePersistence(r) PROVE ChainInv'
    <2>1. rt[r].mem \in Payloads /\ TakeCapture(r, "gate", rt[r].mem)
        BY <1>8, <1>t, CoreFields DEF TypeOK, CapturePersistence
    <2>2. Owns(r) => rt[r].mem = Settled(rt[r])
        BY <1>8, <2>1 DEF CapturePersistence, TakeCapture, ChainInv, OwnerChain, Chain, Settled
    <2> QED
        BY <2>1, <2>2, ChainTakeCapture
<1>9. ASSUME NEW r \in Runtimes, CaptureCheckpoint(r) PROVE ChainInv'
    <2>1. /\ Settled(rt[r]) \in Payloads
          /\ TakeCapture(r, "checkpoint", Settled(rt[r]))
        BY <1>9, <1>t, CoreFields, PayloadGrows DEF TypeOK, CaptureCheckpoint, Settled
    <2> QED
        BY <2>1, ChainTakeCapture
<1>10. ASSUME NEW r \in Runtimes, DropWaiter(r) PROVE ChainInv'
    <2>1. rt[r].counter \in Nat /\ UNCHANGED <<row, writerEpoch, lastEpoch, deletedAt, used, mutations>>
        BY <1>10, <1>t, CoreFields DEF TypeOK, DropWaiter
    <2>2. PICK core \in Cores :
            /\ Becomes(r, core)
            /\ core.mem = rt[r].mem /\ core.outside = rt[r].outside /\ core.counter = rt[r].counter
            /\ core.phase = rt[r].phase /\ core.inTurn = rt[r].inTurn
            /\ Shrinks(core.inflight, rt[r].inflight)
        BY <1>10, <1>t, DropWaiterEffect
    <2> QED
        BY <2>1, <2>2, ChainDropCaptures
<1>11. ASSUME NEW r \in Runtimes, Save(r) PROVE ChainInv'
    BY <1>11, ChainSave
<1>12. ASSUME NEW r \in Runtimes, SaveFails(r) PROVE ChainInv'
    <2>1. rt[r].counter \in Nat /\ UNCHANGED <<row, writerEpoch, lastEpoch, deletedAt, used, mutations>>
        BY <1>12, <1>t, CoreFields DEF TypeOK, SaveFails
    <2>2. PICK core \in Cores :
            /\ Becomes(r, core)
            /\ core.mem = rt[r].mem /\ core.outside = rt[r].outside /\ core.counter = rt[r].counter
            /\ core.phase = "closed" <=> rt[r].phase = "closed"
            /\ core.inTurn = rt[r].inTurn
            /\ Shrinks(core.inflight, rt[r].inflight)
        BY <1>12, <1>t, OpenIfSaving, SaveFailsEffect
    <2> QED
        BY <2>1, <2>2, ChainDropCaptures
<1>13. ASSUME NEW r \in Runtimes, DeleteWriter(r) PROVE ChainInv'
    BY <1>13, ChainDeleteWriter
<1>14. ASSUME NEW r \in Runtimes, Close(r) PROVE ChainInv'
    <2>1. rt[r].counter \in Nat /\ UNCHANGED <<row, writerEpoch, lastEpoch, deletedAt, used, mutations>>
        BY <1>14, <1>t, CoreFields DEF TypeOK, Close
    <2>2. PICK core \in Cores :
            /\ Becomes(r, core)
            /\ core.mem = rt[r].mem /\ core.outside = rt[r].outside /\ core.counter = rt[r].counter
            /\ core.phase = "closed"
            /\ Shrinks(core.inflight, rt[r].inflight)
        BY <1>14, <1>t, CloseEffect
    <2> QED
        BY <2>1, <2>2, ChainDropCaptures
<1>15. ASSUME NEW r \in Runtimes, Reap(r) PROVE ChainInv'
    BY <1>15, <1>n, ChainSlot DEF Reap
<1>16. ASSUME NEW r \in Runtimes, Crash(r) PROVE ChainInv'
    BY <1>16, <1>n, ChainSlot DEF Crash
<1>17. CASE Import
    BY <1>17, ChainImport
<1>18. CASE DeleteUnconditionally
    BY <1>18, <1>t, FenceStep, ChainErase DEF DeleteUnconditionally, Next
<1>19. CASE UNCHANGED vars
    <2>1. FenceInv'
        BY <1>t, FenceStep
    <2> QED
        BY <1>19, <2>1 DEF vars, ChainInv, PayloadsBounded, LoadedIsOlder, OwnerChain, Owns, Chain
<1> QED
    BY <1>1, <1>2, <1>3, <1>4, <1>5, <1>6, <1>7, <1>8, <1>9, <1>10, <1>11, <1>12, <1>13, <1>14,
       <1>15, <1>16, <1>17, <1>18, <1>19 DEF Next, RuntimeStep

\* For ids that are not used again, the owner of a session is never behind
\* its row: claim_writer's generation check and the seeding of the core from
\* the record it checked are enough, for any number of runtimes and saves.
THEOREM OwnerIsCurrent == ~IdReuse => (Spec => []OwnerCoversRow)
<1> SUFFICES ASSUME ~IdReuse PROVE Spec => []OwnerCoversRow
    OBVIOUS
<1>1. ChainInv => OwnerCoversRow
    BY DEF ChainInv, OwnerChain, OwnerCoversRow, Chain, Settled
<1>2. ChainInv /\ [Next]_vars => ChainInv'
    BY ChainStep
<1> QED
    BY <1>1, <1>2, ChainInit, PTL DEF Spec

\* A capture that SessionPersistence::save drops as stale is in the row
\* already.
THEOREM StaleLosesNothing == ~IdReuse => (Spec => []StaleIsCovered)
<1> SUFFICES ASSUME ~IdReuse PROVE Spec => []StaleIsCovered
    OBVIOUS
<1>1. ChainInv => StaleIsCovered
    BY DEF ChainInv, OwnerChain, StaleIsCovered, Chain
<1>2. ChainInv /\ [Next]_vars => ChainInv'
    BY ChainStep
<1> QED
    BY <1>1, <1>2, ChainInit, PTL DEF Spec

\* Only a save replaces a row, by one further up the chain.
LEMMA CommitStep ==
    ChainInv /\ [Next]_vars => (row.exists /\ row'.exists => row.payload \subseteq row'.payload)
<1> SUFFICES ASSUME ChainInv, [Next]_vars, row.exists, row'.exists
             PROVE  row.payload \subseteq row'.payload
    OBVIOUS
<1>1. CASE row' = row
    BY <1>1
<1>2. CASE row' # row
    <2>1. ~EraseRows
        BY DEF EraseRows, NoRow
    <2>2. PICK r \in Runtimes : Save(r)
        BY <1>2, <2>1 DEF Next, RuntimeStep, vars, Create, Load, ClaimLoaded, ClaimRefused, Claim, Import,
                    Mutate, PickOption, TurnLock, CapturePersistence, CaptureCheckpoint, TakeCapture,
                    DropWaiter, SaveFails, DeleteWriter, DeleteUnconditionally, Close, Reap, Crash
    <2> QED
        BY <2>2, ChainSave
<1> QED
    BY <1>1, <1>2

\* No commit is lost by any interleaving of claims, saves, closes and crashes:
\* write_record only ever replaces a row by one that reflects all of it.
THEOREM CommitsAreKept == ~IdReuse => (Spec => NoLostCommit)
<1> SUFFICES ASSUME ~IdReuse PROVE Spec => NoLostCommit
    OBVIOUS
<1>1. ChainInv /\ [Next]_vars =>
        [row.exists /\ row'.exists => row.payload \subseteq row'.payload]_vars
    BY CommitStep
<1>2. ChainInv /\ [Next]_vars => ChainInv'
    BY ChainStep
<1> QED
    BY <1>1, <1>2, ChainInit, PTL DEF Spec, NoLostCommit

-----------------------------------------------------------------------------
(* The store implements a record under a lease.                             *)

\* A save leaves the record alone or is a commit by the holder of the lease.
LEMMA SaveCommits ==
    ASSUME ChainInv, NEW r \in Runtimes, Save(r)
    PROVE  [Record!Commit]_(Record!recordVars)
<1>t. FenceInv /\ TypeOK
    BY DEF ChainInv, FenceInv
<1>1. PICK core \in Cores, c \in rt[r].inflight :
        /\ Becomes(r, core)
        /\ \/ row' = row
           \/ /\ rt[r].epoch = writerEpoch
              /\ row.exists => row.gen < c.gen
              /\ row' = RowOf(r, c)
    BY <1>t, SaveEffect, OpenIfSaving
<1>2. UNCHANGED <<writerEpoch, lastEpoch>>
    BY DEF Save
<1>3. CASE row' = row
    BY <1>2, <1>3 DEF Record!recordVars
<1>4. CASE row' = RowOf(r, c) /\ rt[r].epoch = writerEpoch /\ (row.exists => row.gen < c.gen)
    <2>1. row'.exists /\ row'.by = writerEpoch /\ row'.gen = c.gen /\ c.gen \in Nat /\ row.gen \in Nat
        BY <1>4, <1>t, RowOfTyped, CaptureFields, RowFields DEF TypeOK
    <2>2. writerEpoch # 0
        BY <1>1, <1>4, <1>t DEF FenceInv, EpochsFresh, Open, Becomes
    <2>3. row.exists => row.payload \subseteq row'.payload
        BY <2>1, ChainSave
    <2>4. row.exists => row'.gen > row.gen
        BY <1>4, <2>1
    <2> QED
        BY <1>2, <2>1, <2>2, <2>3, <2>4 DEF Record!Commit
<1> QED
    BY <1>1, <1>3, <1>4

\* Every step of every runtime is a step of the record or leaves it alone.
LEMMA RecordStep == ChainInv /\ [Next]_vars => [Record!Next]_(Record!recordVars)
<1> SUFFICES ASSUME ChainInv, [Next]_vars PROVE [Record!Next]_(Record!recordVars)
    OBVIOUS
<1>1. CASE UNCHANGED <<row, writerEpoch, lastEpoch>>
    BY <1>1 DEF Record!recordVars
<1>2. ASSUME NEW r \in Runtimes, Save(r) PROVE [Record!Next]_(Record!recordVars)
    BY <1>2, SaveCommits DEF Record!Next
<1>3. ASSUME NEW r \in Runtimes, NEW w, NEW core, Claim(r, w, core) PROVE Record!Next
    BY <1>3 DEF Claim, Record!Next, Record!Take
<1>4. CASE EraseRows
    BY <1>4 DEF EraseRows, NoRow, Record!Next, Record!Erase, Record!Absent
<1>5. CASE Import
    BY <1>5 DEF Import, Record!Next, Record!Import
<1> QED
    BY <1>1, <1>2, <1>3, <1>4, <1>5
       DEF Next, RuntimeStep, vars, Create, Load, ClaimLoaded, ClaimRefused, Mutate, PickOption,
           TurnLock, CapturePersistence, CaptureCheckpoint, TakeCapture, DropWaiter, SaveFails,
           DeleteWriter, DeleteUnconditionally, Close, Reap, Crash

\* For ids that are not used again, the rows of sessions and session_writers
\* implement SessionRecord under any interleaving of any number of runtimes:
\* claim_writer takes the lease, write_record lets only its holder commit, a
\* commit contains the one before it, and the deletes end both.
THEOREM StoreIsRecord == ~IdReuse => (Spec => RecordSpec)
<1> SUFFICES ASSUME ~IdReuse PROVE Spec => RecordSpec
    OBVIOUS
<1>1. Init => Record!Init
    BY DEF Init, NoRow, Record!Init, Record!Absent
<1>2. ChainInv /\ [Next]_vars => ChainInv'
    BY ChainStep
<1> QED
    BY <1>1, <1>2, ChainInit, RecordStep, PTL DEF Spec, RecordSpec, Record!Spec
=============================================================================
