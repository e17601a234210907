--------------------------- MODULE AgentLoopProofs ---------------------------
(***************************************************************************)
(* Proofs about AgentLoop, for any number of turns, generations, drops and *)
(* restarts.                                                               *)
(*                                                                         *)
(* Usage.  The usage of a generation moves once, from the journal of its   *)
(* turn to the session's total.  Until the run returns it is in the        *)
(* journal and not in the total; from then on ("staged", or a compaction   *)
(* after an overflow) it is in the total, and whoever ends the turn has to *)
(* know which of the two it meets.                                         *)
(*                                                                         *)
(* Messages.  Two notions carry the argument.  A sequence of messages is   *)
(* Sound when every call is answered by the next message and the answers   *)
(* tell the truth: that is what the history and the stored record are.  It *)
(* is Open when only the calls of its last assistant message may still     *)
(* wait, none of them finished: that is what a run has written, and what   *)
(* the journal's suffix is.  Materialize turns Open into Sound and keeps   *)
(* every user turn where it was; close_orphan_tool_calls does the same     *)
(* when no call has started.  Each action keeps the history Sound, and     *)
(* keeps the suffix Open over the part of the history it goes on from      *)
(* (BaseHist).                                                             *)
(*                                                                         *)
(* Ids.  The session keeps one client id per user turn and aligns the two  *)
(* at the end: the invariant counts user turns from the back, where        *)
(* padding, trimming and compaction change nothing, and only a nudge or a  *)
(* dropped turn, which the code gives no id, moves one against the other.  *)
(***************************************************************************)
EXTENDS AgentLoop, FiniteSetTheorems, TLAPS


-----------------------------------------------------------------------------
(* The usage of a generation: the inductive invariant.                      *)

\* What is needed of the records' shape, whatever messages they hold.
ShapeInv ==
    /\ gens \in Nat /\ gens <= MaxGens
    /\ {"usage", "suffix"} \subseteq DOMAIN journal
    /\ {"reacted", "spent"} \subseteq DOMAIN turn

\* Each generation is in the total at most once, and a coming one is not.
TotalInv ==
    /\ counted \in [Gens -> {0, 1}]
    /\ \A g \in Gens : g > gens => counted[g] = 0

\* The journal's usage is in the total once the run has returned, and not before.
\* Nothing is journalled before the first request and while the history is compacted.
JournalInv ==
    /\ \A g \in journal.usage : g \in Gens /\ g <= gens
    /\ pc = "staged" => \A g \in journal.usage : counted[g] = 1
    /\ pc # "staged" => \A g \in journal.usage : counted[g] = 0
    /\ pc \in {"start", "attempt", "compact"} => journal.usage = {}

\* What an overflowed attempt used, kept aside for its journal, is in the total.
SpentInv ==
    /\ pc = "start" => ~turn.reacted
    /\ pc = "compact" /\ turn.reacted =>
         \A g \in turn.spent : g \in Gens /\ g <= gens /\ counted[g] = 1

\* What the session owes is in the total or in the journal.
OwedInv == \A g \in owed : g \in Gens => counted[g] = 1 \/ (pc # "staged" /\ g \in journal.usage)

UsageInv == ShapeInv /\ TotalInv /\ JournalInv /\ SpentInv /\ OwedInv

-----------------------------------------------------------------------------
(* The invariant is inductive.                                              *)

LEMMA Bound == MaxGens \in Nat
    BY AgentAssumption

\* AgentSession::commit adds usage that was not in the total.
LEMMA Added ==
    ASSUME TotalInv, NEW gs, AddUsage(gs), \A g \in gs : g \in Gens /\ counted[g] = 0
    PROVE  /\ counted' \in [Gens -> {0, 1}]
           /\ \A g \in Gens : counted'[g] = IF g \in gs THEN 1 ELSE counted[g]
<1>1. counted' = [g \in Gens |-> counted[g] + IF g \in gs THEN 1 ELSE 0]
    BY DEF AddUsage
<1>2. \A g \in Gens : counted[g] \in {0, 1}
    BY DEF TotalInv
<1>3. \A g \in Gens : counted'[g] = IF g \in gs THEN 1 ELSE counted[g]
    BY <1>1, <1>2
<1>4. \A g \in Gens : counted'[g] \in {0, 1}
    BY <1>2, <1>3
<1> QED
    BY <1>1, <1>3, <1>4

LEMMA InitUsage == Init => UsageInv
<1> SUFFICES ASSUME Init PROVE UsageInv
    OBVIOUS
<1>1. ShapeInv
    BY Bound DEF Init, ShapeInv, NoJournal, NoTurn
<1>2. TotalInv /\ JournalInv /\ SpentInv /\ OwedInv
    BY DEF Init, TotalInv, JournalInv, SpentInv, OwedInv, NoJournal
<1> QED
    BY <1>1, <1>2 DEF UsageInv

\* A step that leaves usage, total and place alone.
LEMMA Elsewhere ==
    ASSUME UsageInv, gens' = gens, counted' = counted, owed' = owed,
           {"usage", "suffix"} \subseteq DOMAIN journal', journal'.usage = journal.usage,
           {"reacted", "spent"} \subseteq DOMAIN turn', turn'.reacted = turn.reacted,
           turn'.spent = turn.spent,
           pc' = "staged" <=> pc = "staged",
           pc' \in {"start", "attempt", "compact"} => pc \in {"start", "attempt", "compact"},
           pc' = "start" => pc = "start",
           pc' = "compact" => pc = "compact" \/ (pc = "start" /\ ~turn.reacted)
    PROVE  UsageInv'
<1>1. ShapeInv' /\ TotalInv'
    BY DEF UsageInv, ShapeInv, TotalInv
<1>2. JournalInv' /\ OwedInv'
    BY DEF UsageInv, JournalInv, OwedInv
<1>3. SpentInv'
    BY DEF UsageInv, SpentInv
<1> QED
    BY <1>1, <1>2, <1>3 DEF UsageInv

\* The journal's usage reaches the total, if it has not yet, and the journal is gone.
LEMMA Settled ==
    ASSUME UsageInv, gens' = gens, owed' = owed,
           \/ pc # "staged" /\ AddUsage(journal.usage)
           \/ pc = "staged" /\ counted' = counted,
           {"usage", "suffix"} \subseteq DOMAIN journal', journal'.usage = {},
           {"reacted", "spent"} \subseteq DOMAIN turn', turn'.reacted = FALSE,
           pc' # "staged"
    PROVE  UsageInv'
<1>1. /\ counted' \in [Gens -> {0, 1}]
      /\ \A g \in Gens : counted'[g] = IF g \in journal.usage THEN 1 ELSE counted[g]
  <2>1. CASE pc # "staged" /\ AddUsage(journal.usage)
    BY <2>1, Added DEF UsageInv, JournalInv
  <2>2. CASE pc = "staged" /\ counted' = counted
    BY <2>2 DEF UsageInv, JournalInv, TotalInv
  <2> QED
    BY <2>1, <2>2
<1>2. ShapeInv'
    BY DEF UsageInv, ShapeInv
<1>3. TotalInv'
    BY <1>1, Bound DEF UsageInv, ShapeInv, TotalInv, JournalInv, Gens
<1>4. JournalInv' /\ SpentInv'
    BY DEF JournalInv, SpentInv
<1>5. OwedInv'
    BY <1>1 DEF UsageInv, OwedInv
<1> QED
    BY <1>2, <1>3, <1>4, <1>5 DEF UsageInv

-----------------------------------------------------------------------------
(* One lemma per group of actions.                                          *)

LEMMA NewTurn ==
    /\ {"reacted", "spent", "msgs", "user", "base"} \subseteq DOMAIN NoTurn
    /\ NoTurn.reacted = FALSE
    BY DEF NoTurn

\* A turn begins: what a dropped turn left behind is settled first.
LEMMA BeginSteps ==
    ASSUME UsageInv, Prompt \/ Retry
    PROVE  UsageInv'
<1>1. pc = "idle" /\ AddUsage(journal.usage) /\ gens' = gens /\ owed' = owed
      /\ pc' \in {"start", "attempt"}
    BY DEF Prompt, Retry, ghosts
<1>2. {"usage", "suffix"} \subseteq DOMAIN journal' /\ journal'.usage = {}
    BY DEF Prompt, Retry, NewJournal
<1>3. {"reacted", "spent"} \subseteq DOMAIN turn' /\ turn'.reacted = FALSE
    BY NewTurn DEF Prompt, Retry
<1> QED
    BY <1>1, <1>2, <1>3, Settled

\* A turn ends, or the history is cut: Epilogue leaves no journal and no turn.
LEMMA EndSteps ==
    ASSUME UsageInv, Commit \/ Cancel
    PROVE  UsageInv'
<1>1. gens' = gens /\ owed' = owed /\ pc' = "saving" /\ journal' = NoJournal /\ turn' = NoTurn
    BY DEF Commit, Cancel, Epilogue, ghosts
<1>2. \/ pc # "staged" /\ AddUsage(journal.usage)
      \/ pc = "staged" /\ counted' = counted
    BY DEF Commit, Cancel
<1>3. {"usage", "suffix"} \subseteq DOMAIN journal' /\ journal'.usage = {}
    BY <1>1 DEF NoJournal
<1> QED
    BY <1>1, <1>2, <1>3, NewTurn, Settled

\* Steps that keep the journal's usage and stay on one side of the return.
LEMMA QuietSteps ==
    ASSUME UsageInv,
           Repair \/ RetryGeneration \/ ToolUseArm \/ ToolStart \/ Persist \/ Truncate
    PROVE  UsageInv'
<1>1. gens' = gens /\ counted' = counted /\ owed' = owed /\ journal' = journal
    BY DEF Repair, RetryGeneration, ToolUseArm, ToolStart, Persist, Truncate, ghosts
<1>2. /\ {"reacted", "spent"} \subseteq DOMAIN turn' /\ turn'.reacted = turn.reacted
      /\ turn'.spent = turn.spent
    BY DEF Repair, RetryGeneration, ToolUseArm, ToolStart, Persist, Truncate, UsageInv, ShapeInv
<1>3. /\ pc' = "staged" <=> pc = "staged"
      /\ pc' \in {"start", "attempt", "compact"} => pc \in {"start", "attempt", "compact"}
      /\ pc' = "start" => pc = "start"
      /\ pc' = "compact" => pc = "compact" \/ (pc = "start" /\ ~turn.reacted)
    BY DEF Repair, RetryGeneration, ToolUseArm, ToolStart, Persist, Truncate, UsageInv, SpentInv
<1>4. {"usage", "suffix"} \subseteq DOMAIN journal' /\ journal'.usage = journal.usage
    BY <1>1 DEF UsageInv, ShapeInv
<1> QED
    BY <1>1, <1>2, <1>3, <1>4, Elsewhere

\* The attempt resets a journal whose usage is empty.
LEMMA AttemptStep ==
    ASSUME UsageInv, Attempt
    PROVE  UsageInv'
<1>1. gens' = gens /\ counted' = counted /\ owed' = owed /\ pc = "attempt" /\ pc' = "request"
    BY DEF Attempt, ghosts
<1>2. {"usage", "suffix"} \subseteq DOMAIN journal' /\ journal'.usage = journal.usage
    BY <1>1 DEF Attempt, UsageInv, ShapeInv, JournalInv
<1>3. /\ {"reacted", "spent"} \subseteq DOMAIN turn' /\ turn'.reacted = turn.reacted
      /\ turn'.spent = turn.spent
    BY DEF Attempt, UsageInv, ShapeInv
<1> QED
    BY <1>1, <1>2, <1>3, Elsewhere

\* The loop goes on.
LEMMA AgainSteps ==
    ASSUME UsageInv, NEW ms, NEW t, Again(ms, t), pc \in {"settle", "tools"},
           {"reacted", "spent"} \subseteq DOMAIN t, t.reacted = turn.reacted, t.spent = turn.spent
    PROVE  UsageInv'
<1>1. gens' = gens /\ counted' = counted /\ owed' = owed /\ pc' = "request"
    BY DEF Again
<1>2. {"usage", "suffix"} \subseteq DOMAIN journal' /\ journal'.usage = journal.usage
    BY DEF Again, Checkpoint, UsageInv, ShapeInv
<1>3. /\ {"reacted", "spent"} \subseteq DOMAIN turn' /\ turn'.reacted = turn.reacted
      /\ turn'.spent = turn.spent
    BY DEF Again
<1> QED
    BY <1>1, <1>2, <1>3, Elsewhere

LEMMA LoopSteps ==
    ASSUME UsageInv, AutoContinueArm \/ FailoverArm \/ ResumeArm
    PROVE  UsageInv'
<1>1. pc = "settle"
    BY DEF AutoContinueArm, FailoverArm, ResumeArm
<1>2. \E ms, t : /\ Again(ms, t) /\ {"reacted", "spent"} \subseteq DOMAIN t
                 /\ t.reacted = turn.reacted /\ t.spent = turn.spent
  <2>1. {"reacted", "spent"} \subseteq DOMAIN turn
    BY DEF UsageInv, ShapeInv
  <2>2. CASE AutoContinueArm
    <3> DEFINE t == [turn EXCEPT !.auto = @ + 1]
    <3>1. \E ms : Again(ms, t)
      BY <2>2 DEF AutoContinueArm
    <3> QED
      BY <2>1, <3>1
  <2>3. CASE FailoverArm
    <3> DEFINE t == [turn EXCEPT !.failed = @ + 1]
    <3>1. \E ms : Again(ms, t)
      BY <2>3 DEF FailoverArm
    <3> QED
      BY <2>1, <3>1
  <2>4. CASE ResumeArm
    <3> DEFINE t == [turn EXCEPT !.resumes = @ + 1]
    <3>1. \E ms : Again(ms, t)
      BY <2>4 DEF ResumeArm
    <3> QED
      BY <2>1, <3>1
  <2> QED
    BY <2>2, <2>3, <2>4
<1> QED
    BY <1>1, <1>2, AgainSteps

\* A tool's result is journalled.
LEMMA ResultSteps ==
    ASSUME UsageInv, ToolBlocked \/ ToolDone
    PROVE  UsageInv'
<1>1. gens' = gens /\ counted' = counted /\ owed' = owed /\ pc' = pc
    BY DEF ToolBlocked, ToolDone, ghosts
<1>2. PICK c, outcome, terminate : RecordResult(c, outcome, terminate)
    BY DEF ToolBlocked, ToolDone
<1>3. {"usage", "suffix"} \subseteq DOMAIN journal' /\ journal'.usage = journal.usage
    BY <1>2 DEF RecordResult, Checkpoint, UsageInv, ShapeInv
<1>4. /\ {"reacted", "spent"} \subseteq DOMAIN turn' /\ turn'.reacted = turn.reacted
      /\ turn'.spent = turn.spent
    BY <1>2 DEF RecordResult, UsageInv, ShapeInv
<1> QED
    BY <1>1, <1>3, <1>4, Elsewhere

\* A response arrives: its usage is new.
LEMMA RespondSteps ==
    ASSUME UsageInv, NEW stop, NEW ms, Respond(stop, ms)
    PROVE  UsageInv'
<1> DEFINE g == gens + 1
<1>1. /\ pc = "request" /\ gens \in Nat /\ gens < MaxGens /\ gens' = g /\ counted' = counted
      /\ owed' = owed \cup {g} /\ pc' = "settle"
    BY DEF Respond, UsageInv, ShapeInv
<1>2. {"usage", "suffix"} \subseteq DOMAIN journal' /\ journal'.usage = journal.usage \cup {g}
    BY DEF Respond, UsageInv, ShapeInv
<1>3. {"reacted", "spent"} \subseteq DOMAIN turn'
    BY DEF Respond, UsageInv, ShapeInv
<1>4. g \in Gens /\ g > gens
    BY <1>1, Bound DEF Gens
<1>5. ShapeInv'
    BY <1>1, <1>2, <1>3, Bound DEF ShapeInv
<1>6. TotalInv'
    BY <1>1, Bound DEF UsageInv, TotalInv, Gens
<1>7. JournalInv'
  <2>1. \A h \in journal.usage : h \in Gens /\ h <= gens /\ counted[h] = 0
    BY <1>1 DEF UsageInv, JournalInv
  <2>2. counted[g] = 0
    BY <1>4 DEF UsageInv, TotalInv
  <2>3. \A h \in journal'.usage : h \in Gens /\ h <= gens' /\ counted'[h] = 0
    BY <1>1, <1>2, <1>4, <2>1, <2>2, Bound DEF Gens
  <2> QED
    BY <1>1, <2>3 DEF JournalInv
<1>8. SpentInv'
    BY <1>1 DEF SpentInv
<1>9. OwedInv'
    BY <1>1, <1>2 DEF UsageInv, OwedInv
<1> QED
    BY <1>5, <1>6, <1>7, <1>8, <1>9 DEF UsageInv

\* The run returns: its usage reaches the total; after an overflow it is set aside.
LEMMA ReturnSteps ==
    ASSUME UsageInv, NEW ms, Return(ms), pc \in {"settle", "tools"}
    PROVE  UsageInv'
<1> DEFINE u == journal.usage
<1>1. gens' = gens /\ owed' = owed /\ pc' \in {"compact", "staged"}
    BY DEF Return, ghosts
<1>2. \A g \in u : g \in Gens /\ g <= gens /\ counted[g] = 0
    BY DEF UsageInv, JournalInv
<1>3. /\ counted' \in [Gens -> {0, 1}]
      /\ \A g \in Gens : counted'[g] = IF g \in u THEN 1 ELSE counted[g]
    BY <1>2, Added DEF UsageInv, Return
<1>4. /\ {"usage", "suffix"} \subseteq DOMAIN journal'
      /\ {"reacted", "spent"} \subseteq DOMAIN turn'
      /\ pc' = "compact" => journal'.usage = {} /\ turn'.spent = u
      /\ pc' = "staged" => journal'.usage = u
    BY DEF Return, UsageInv, ShapeInv
<1> HIDE DEF u
<1>5. ShapeInv'
    BY <1>1, <1>4 DEF UsageInv, ShapeInv
<1>6. TotalInv'
    BY <1>1, <1>2, <1>3, Bound DEF UsageInv, ShapeInv, TotalInv, Gens
<1>7. JournalInv' /\ SpentInv'
    BY <1>1, <1>2, <1>3, <1>4 DEF JournalInv, SpentInv
<1>8. OwedInv'
    BY <1>1, <1>3 DEF UsageInv, OwedInv, u
<1> QED
    BY <1>5, <1>6, <1>7, <1>8 DEF UsageInv

\* The batch is complete.
LEMMA BatchStep ==
    ASSUME UsageInv, BatchDone
    PROVE  UsageInv'
<1>1. pc = "tools" /\ {"reacted", "spent"} \subseteq DOMAIN turn
    BY DEF BatchDone, UsageInv, ShapeInv
<1>2. (\E ms : Again(ms, turn)) \/ \E ms : Return(ms)
    BY DEF BatchDone
<1> QED
    BY <1>1, <1>2, AgainSteps, ReturnSteps

\* Compaction: nothing to cut, or a summary whose usage goes to the total at once.
LEMMA CompactSteps ==
    ASSUME UsageInv, NothingToCut \/ Summarize
    PROVE  UsageInv'
<1>1. pc = "compact" /\ journal.usage = {} /\ gens \in Nat
    BY DEF NothingToCut, Summarize, UsageInv, JournalInv, ShapeInv
<1>2. CASE NothingToCut
  <2>1. gens' = gens /\ counted' = counted /\ owed' = owed /\ turn' = turn
    BY <1>2 DEF NothingToCut, ghosts
  <2>2. CASE turn.reacted
    <3>1. /\ pc' = "staged" /\ {"usage", "suffix"} \subseteq DOMAIN journal'
          /\ journal'.usage = turn.spent
      BY <1>2, <2>2 DEF NothingToCut, RestoreJournal, UsageInv, ShapeInv
    <3>2. \A g \in turn.spent : g \in Gens /\ g <= gens /\ counted[g] = 1
      BY <1>1, <2>2 DEF UsageInv, SpentInv
    <3>3. ShapeInv' /\ TotalInv'
      BY <2>1, <3>1 DEF UsageInv, ShapeInv, TotalInv
    <3>4. JournalInv' /\ SpentInv'
      BY <2>1, <3>1, <3>2 DEF JournalInv, SpentInv
    <3>5. OwedInv'
      BY <1>1, <2>1, <3>1, <3>2 DEF UsageInv, OwedInv
    <3> QED
      BY <3>3, <3>4, <3>5 DEF UsageInv
  <2>3. CASE ~turn.reacted
    <3>1. pc' = "attempt" /\ journal' = journal
      BY <1>2, <2>3 DEF NothingToCut
    <3> QED
      BY <1>1, <2>1, <3>1, Elsewhere DEF UsageInv, ShapeInv
  <2> QED
    BY <2>2, <2>3
<1>3. CASE Summarize
  <2> DEFINE n == gens + 1
  <2>1. /\ gens < MaxGens /\ gens' = n /\ AddUsage({n}) /\ owed' = owed \cup {n}
        /\ journal' = journal /\ pc' \in {"compact", "attempt"}
    BY <1>1, <1>3 DEF Summarize
  <2>2. /\ {"reacted", "spent"} \subseteq DOMAIN turn' /\ turn'.reacted = turn.reacted
        /\ turn'.spent = turn.spent
    BY <1>3 DEF Summarize, UsageInv, ShapeInv
  <2>3. n \in Gens /\ n > gens /\ counted[n] = 0
    BY <1>1, <2>1, Bound DEF UsageInv, TotalInv, Gens
  <2>4. /\ counted' \in [Gens -> {0, 1}]
        /\ \A g \in Gens : counted'[g] = IF g = n THEN 1 ELSE counted[g]
    BY <2>1, <2>3, Added DEF UsageInv
  <2>5. ShapeInv'
    BY <1>1, <2>1, <2>2, Bound DEF UsageInv, ShapeInv
  <2>6. TotalInv'
    BY <1>1, <2>1, <2>4, Bound DEF UsageInv, TotalInv, Gens
  <2>7. JournalInv'
    BY <1>1, <2>1 DEF JournalInv
  <2>8. SpentInv'
    BY <1>1, <2>1, <2>2, <2>3, <2>4, Bound DEF UsageInv, SpentInv, Gens
  <2>9. OwedInv'
    BY <1>1, <2>1, <2>4 DEF UsageInv, OwedInv
  <2> QED
    BY <2>5, <2>6, <2>7, <2>8, <2>9 DEF UsageInv
<1> QED
    BY <1>2, <1>3

\* A panic, a cleared history, a crash.
LEMMA LossSteps ==
    ASSUME UsageInv, Drop \/ Clear \/ Restart
    PROVE  UsageInv'
<1>1. gens' = gens /\ {"usage", "suffix"} \subseteq DOMAIN NoJournal /\ NoJournal.usage = {}
    BY DEF Drop, Clear, Restart, NoJournal
<1>2. CASE Drop
  <2>1. /\ pc # "staged" /\ counted' = counted /\ owed' = owed /\ turn' = NoTurn /\ pc' = "idle"
        /\ journal' = journal
    BY <1>2 DEF Drop
  <2>2. ShapeInv' /\ TotalInv'
    BY <1>1, <2>1, NewTurn DEF UsageInv, ShapeInv, TotalInv
  <2>3. JournalInv' /\ SpentInv' /\ OwedInv'
    BY <1>1, <2>1 DEF UsageInv, JournalInv, SpentInv, OwedInv
  <2> QED
    BY <2>2, <2>3 DEF UsageInv
<1>3. CASE Clear
  <2>1. /\ pc = "idle" /\ counted' = counted /\ owed' = owed \ journal.usage /\ turn' = turn
        /\ pc' = "saving" /\ journal' = NoJournal
    BY <1>3 DEF Clear
  <2>2. ShapeInv' /\ TotalInv'
    BY <1>1, <2>1 DEF UsageInv, ShapeInv, TotalInv
  <2>3. JournalInv' /\ SpentInv' /\ OwedInv'
    BY <1>1, <2>1 DEF UsageInv, JournalInv, SpentInv, OwedInv
  <2> QED
    BY <2>2, <2>3 DEF UsageInv
<1>4. CASE Restart
  <2>1. /\ counted' = [g \in Gens |-> 0] /\ owed' = {} /\ turn' = NoTurn /\ pc' = "idle"
        /\ journal' = NoJournal
    BY <1>4 DEF Restart
  <2>2. ShapeInv' /\ TotalInv'
    BY <1>1, <2>1, NewTurn DEF UsageInv, ShapeInv, TotalInv
  <2>3. JournalInv' /\ SpentInv' /\ OwedInv'
    BY <1>1, <2>1 DEF JournalInv, SpentInv, OwedInv
  <2> QED
    BY <2>2, <2>3 DEF UsageInv
<1> QED
    BY <1>2, <1>3, <1>4

LEMMA StepUsage == UsageInv /\ [Next]_vars => UsageInv'
<1> SUFFICES ASSUME UsageInv, [Next]_vars PROVE UsageInv'
    OBVIOUS
<1>1. CASE Prompt \/ Retry
    BY <1>1, BeginSteps
<1>2. CASE Repair \/ RetryGeneration \/ ToolUseArm \/ ToolStart \/ Persist \/ Truncate
    BY <1>2, QuietSteps
<1>3. CASE Attempt
    BY <1>3, AttemptStep
<1>4. CASE NothingToCut \/ Summarize
    BY <1>4, CompactSteps
<1>5. CASE RespondText \/ RespondTools \/ RespondMalformed \/ RespondError
  <2>1. \E stop, ms : Respond(stop, ms)
    BY <1>5 DEF RespondText, RespondTools, RespondMalformed, RespondError
  <2> QED
    BY <2>1, RespondSteps
<1>6. CASE AutoContinueArm \/ FailoverArm \/ ResumeArm
    BY <1>6, LoopSteps
<1>7. CASE TerminalArm
  <2>1. pc = "settle" /\ \E ms : Return(ms)
    BY <1>7 DEF TerminalArm
  <2> QED
    BY <2>1, ReturnSteps
<1>8. CASE ToolBlocked \/ ToolDone
    BY <1>8, ResultSteps
<1>9. CASE BatchDone
    BY <1>9, BatchStep
<1>10. CASE Commit \/ Cancel
    BY <1>10, EndSteps
<1>11. CASE Drop \/ Clear \/ Restart
    BY <1>11, LossSteps
<1>12. CASE UNCHANGED vars
  <2>1. /\ gens' = gens /\ counted' = counted /\ owed' = owed /\ journal' = journal
        /\ turn' = turn /\ pc' = pc
    BY <1>12 DEF vars, ghosts
  <2> QED
    BY <2>1, Elsewhere DEF UsageInv, ShapeInv
<1> HIDE DEF UsageInv
<1> QED
    BY <1>1, <1>2, <1>3, <1>4, <1>5, <1>6, <1>7, <1>8, <1>9, <1>10, <1>11, <1>12 DEF Next

-----------------------------------------------------------------------------
(* CountedOnce holds for any number of turns and generations and whatever   *)
(* ends a turn: a result that is committed, a cancel before or after the    *)
(* run has returned, a panic whose journal the next turn finalises, a       *)
(* compaction after an overflow, a cleared history.  No generation is added *)
(* to total_usage twice, and none is forgotten.                             *)
THEOREM UsageIsCountedOnce == Spec => []CountedOnce
<1>1. UsageInv => CountedOnce
  <2> SUFFICES ASSUME UsageInv, NEW g \in Gens
               PROVE  /\ counted[g] <= 1
                      /\ g \in owed => counted[g] = 1 \/ (pc # "staged" /\ g \in journal.usage)
    BY DEF CountedOnce
  <2>1. counted[g] \in {0, 1}
    BY DEF UsageInv, TotalInv
  <2>2. counted[g] <= 1
    BY <2>1
  <2> QED
    BY <2>2 DEF UsageInv, OwedInv
<1> QED
    BY <1>1, InitUsage, StepUsage, PTL DEF Spec

-----------------------------------------------------------------------------
(* The messages: the inductive invariant.                                   *)

\* A turn is in progress; its run is.
InTurn == pc \notin {"idle", "saving"}
Running == pc \in {"request", "settle", "tools", "staged"} \/ (pc = "compact" /\ turn.reacted)

\* The part of the history the journal's turn goes on from.
BaseHist == IF journal.mode = "replace" THEN Truncated(history, journal.from) ELSE history

\* Every call but those of the last assistant message is answered by the next message.
Half(ms) == \A i \in DOMAIN ms :
    /\ Makes(ms[i]) # {} /\ i < Len(ms) =>
         /\ ms[i + 1].kind = "results" /\ Answers(ms[i + 1]) \subseteq Makes(ms[i])
         /\ i + 1 < Len(ms) => Answers(ms[i + 1]) = Makes(ms[i])
    /\ ms[i].kind = "results" => i > 1 /\ Makes(ms[i - 1]) # {}

\* The calls of the last assistant message nobody has answered.
Missing(ms) ==
    IF ms = << >> THEN {}
    ELSE IF Makes(ms[Len(ms)]) # {} THEN Makes(ms[Len(ms)])
    ELSE IF Len(ms) > 1 THEN Makes(ms[Len(ms) - 1]) \ Answers(ms[Len(ms)]) ELSE {}

\* What m says of calls is true when st have started, fi finished, g generations were made.
IsTrue(m, st, fi, g) == m.kind = "results" =>
    \A r \in m.res :
        /\ r[2] = "done" => r[1] \in fi
        /\ r[2] = "uncertain" => r[1] \notin fi
        /\ r[2] \in {"blocked", "interrupted"} => r[1] \notin st
        /\ r[1][1] <= g
AllTrue(ms, st, fi, g) == \A i \in DOMAIN ms : IsTrue(ms[i], st, fi, g)

\* Sound: what a history is.  Open: what the journal of a turn is.
Sound(ms, st, fi, g) == Paired(ms) /\ AllTrue(ms, st, fi, g)
Open(ms, st, fi, g) ==
    /\ Half(ms) /\ AllTrue(ms, st, fi, g)
    /\ \A c \in Missing(ms) : c \notin fi /\ c[1] <= g

\* Empty failed attempts aside, ms ends on a user-side message.
UserSide(ms) == \E i \in DOMAIN ms :
             ms[i].kind # "assistant" /\ \A j \in DOMAIN ms : j > i => IsHusk(ms[j])

\* The run's messages as the last checkpoint wrote them, and the calls of the batch.
Batch == Append(turn.msgs, Results(turn.results))
Written == IF pc = "tools" /\ turn.results # {} THEN Batch ELSE turn.msgs
Calls == Makes(turn.msgs[Len(turn.msgs)])

\* The journal is the turn's, and holds only its prompt until the attempt starts.
ModeInv ==
    /\ InTurn => journal.mode = turn.mode /\ IsUserTurn(turn.user)
                 /\ (turn.mode = "append" => turn.user \in UserMessages)
    /\ pc \in {"start", "compact"} => turn.mode = "append"
    /\ pc = "start" => ~turn.reacted
    /\ pc \in {"start", "attempt"} \/ pc = "compact" => journal.suffix = <<turn.user>>
    /\ journal.mode = "none" => journal = NoJournal

\* The calls of a response are new, and those of a batch run one after the other.
CallInv ==
    /\ \A c \in started : c[1] <= gens
    /\ pc = "settle" /\ turn.stop = "tool_use" =>
         /\ turn.msgs # << >> /\ turn.msgs[Len(turn.msgs)].kind = "assistant"
         /\ \A c \in Calls : c[1] = gens /\ c \notin started
    /\ pc = "tools" =>
         /\ turn.left \cap finished = {}
         /\ \A c \in turn.left : c[1] = gens
         /\ ~turn.running => turn.left \cap started = {}
         /\ turn.running => \A c \in turn.left : c \in started <=> IsNext(c)

\* ms goes on from base with the user message u, and holds no other prompt after base.
Extends(base, ms, u) ==
    /\ Len(base) < Len(ms) /\ ms[Len(base) + 1] = u
    /\ \A i \in DOMAIN base : ms[i] = base[i]
    /\ \A i \in DOMAIN ms : i > Len(base) + 1 => ms[i].kind # "user"

\* The history and the stored record are sound.
StoreInv == Sound(history, started, finished, gens) /\ Sound(disk.msgs, started, finished, gens)

\* A journal begins with its user turn and is open; a retry replaces from a message
\* that is no result.
SuffixInv ==
    /\ journal # NoJournal =>
        /\ journal.suffix # << >> /\ IsUserTurn(journal.suffix[1])
        /\ Open(journal.suffix, started, finished, gens)
    /\ journal.mode = "replace" /\ journal.from < Len(history) =>
         history[journal.from + 1].kind # "results"

\* A run goes on from the base.
BaseInv ==
    /\ pc = "attempt" /\ turn.mode = "replace" => turn.base = BaseHist
    /\ Running => turn.base = BaseHist /\ Extends(turn.base, turn.msgs, turn.user)

\* What was written is open; the journal has it from the base on, the disk materialised.
WrittenInv ==
    pc \in {"request", "settle", "tools"} =>
        /\ Open(Written, started, finished, gens)
        /\ journal.suffix = SubSeq(Written, Len(turn.base) + 1, Len(Written))
        /\ disk.msgs = Materialize(Written)

\* A request is paired; a settled response has calls nobody ran; a batch has the results
\* of the calls that are not left; a staged result is sound.
PhaseInv ==
    /\ pc = "request" => Paired(turn.msgs) /\ UserSide(turn.msgs)
    /\ pc \in {"settle", "tools"} =>
         /\ Half(turn.msgs) /\ Missing(turn.msgs) = Calls
         /\ \A c \in Calls : c \notin AnsweredIn(history) /\ c \notin AnsweredIn(turn.msgs)
    /\ pc = "settle" =>
         /\ Calls \cap started = {}
         /\ turn.stop = "tool_use" => Calls # {}
         /\ turn.stop = "transient" =>
              /\ IsHusk(turn.msgs[Len(turn.msgs)]) /\ Len(turn.base) + 1 < Len(turn.msgs)
              /\ UserSide(SubSeq(turn.msgs, 1, Len(turn.msgs) - 1))
    /\ pc = "tools" =>
         /\ Calls # {} /\ turn.left \subseteq Calls
         /\ {r[1] : r \in turn.results} = Calls \ turn.left
    /\ pc = "staged" \/ (pc = "compact" /\ turn.reacted) => Sound(turn.msgs, started, finished, gens)
    /\ pc = "staged" => PromptsIn(journal.suffix) = PromptsIn(<<turn.user>>)

\* Prompts nobody removed are in the base or in the journal, and on disk unless a turn
\* was dropped; only a dropped turn leaves its journal behind.
KeptInv ==
    /\ \A p \in (1..prompts) \ gone :
        /\ p \in PromptsIn(BaseHist) \cup PromptsIn(journal.suffix)
        /\ drops = 0 => p \in PromptsIn(disk.msgs)
    /\ drops = 0 /\ ~InTurn => journal = NoJournal
    /\ drops \in Nat

TypeInv == TypeOK /\ ModeInv /\ CallInv
Inside == StoreInv /\ SuffixInv /\ BaseInv /\ WrittenInv /\ PhaseInv /\ KeptInv
ContentInv == ~torn => Inside

\* The pieces ss end at the places e of T.
Pieces(ss, T, e, n) == \A i \in 1..n :
    /\ e[i] = e[i - 1] + Len(ss[i]) /\ e[i] <= Len(T)
    /\ \A j \in 1..Len(ss[i]) : ss[i][j] = T[e[i - 1] + j]

\* ms with the results of every call filled in.
Whole(ms) ==
    [j \in 1..(IF Makes(ms[Len(ms)]) # {} THEN Len(ms) + 1 ELSE Len(ms)) |->
        IF j > 1 /\ Makes(ms[j - 1]) # {} THEN Filled(ms, j - 1) ELSE ms[j]]

\* a and b have the same user turns at the same places.
SameTurns(a, b) ==
    /\ \A i \in DOMAIN a : IsUserTurn(a[i]) => i \in DOMAIN b /\ b[i] = a[i]
    /\ \A i \in DOMAIN b : IsUserTurn(b[i]) => i \in DOMAIN a /\ a[i] = b[i]

-----------------------------------------------------------------------------
(* Sequences.                                                               *)

\* Induction over the naturals, stated for a set.
LEMMA NatSets ==
    ASSUME NEW S, S \subseteq Nat, 0 \in S, \A n \in S : n + 1 \in S
    PROVE  \A n \in Nat : n \in S
<1> DEFINE T == Nat \ S
           R == OpToRel(<, Nat)
<1> SUFFICES ASSUME T # {} PROVE FALSE
    OBVIOUS
<1>1. T \subseteq Nat
    OBVIOUS
<1>2. PICK t \in T : \A y \in T : <<y, t>> \notin R
    BY <1>1, NatLessThanWellFounded, WFMin
<1>3. \A y \in T : ~(y < t)
    BY <1>1, <1>2 DEF OpToRel
<1>4. t \in Nat /\ t # 0
    BY <1>1
<1>5. t - 1 \in Nat /\ t - 1 < t
    BY <1>4
<1>6. t - 1 \in S
    BY <1>3, <1>5
<1>7. (t - 1) + 1 \in S
    BY <1>6
<1> QED
    BY <1>4, <1>7

\* The largest element of a set of indices.
LEMMA MaxOf ==
    ASSUME NEW n \in Nat, NEW S, S \subseteq 1..n, S # {}
    PROVE  Max(S) \in S /\ \A x \in S : x <= Max(S)
<1> DEFINE T == {n - x : x \in S}
           R == OpToRel(<, Nat)
<1>1. T \subseteq Nat
    OBVIOUS
<1>2. T # {}
    OBVIOUS
<1>3. PICK t \in T : \A y \in T : <<y, t>> \notin R
    BY <1>1, <1>2, NatLessThanWellFounded, WFMin
<1>4. \A y \in T : ~(y < t)
    BY <1>1, <1>3 DEF OpToRel
<1>5. PICK m \in S : t = n - m
    OBVIOUS
<1>6. \A x \in S : x <= m
  <2>1. \A x \in S : n - x \in T
    OBVIOUS
  <2>2. \A x \in S : x \in Nat /\ x <= n
    OBVIOUS
  <2> HIDE DEF T
  <2>3. ASSUME NEW x \in S PROVE x <= m
    <3>1. ~(n - x < n - m)
      BY <1>4, <1>5, <2>1
    <3> QED
      BY <3>1, <2>2
  <2> QED
    BY <2>3
<1>7. \E x \in S : \A y \in S : x >= y
    BY <1>6
<1> QED
    BY <1>7 DEF Max

\* rposition(is_user_turn_message): the last user turn, or zero.
LEMMA LastTurn ==
    ASSUME NEW X, NEW ms \in Seq(X)
    PROVE  /\ LastUserTurn(ms) \in 0..Len(ms)
           /\ LastUserTurn(ms) > 0 => IsUserTurn(ms[LastUserTurn(ms)])
           /\ \A j \in 1..Len(ms) : j > LastUserTurn(ms) => ~IsUserTurn(ms[j])
<1> DEFINE I == {i \in 1..Len(ms) : IsUserTurn(ms[i])}
           l == LastUserTurn(ms)
<1>1. l = IF I # {} THEN Max(I) ELSE 0
    BY DEF LastUserTurn, SelectLastInSeq
<1>2. Len(ms) \in Nat
    OBVIOUS
<1>3. CASE I = {}
    BY <1>1, <1>2, <1>3
<1>4. CASE I # {}
  <2>1. Max(I) \in I /\ \A x \in I : x <= Max(I)
    BY <1>2, <1>4, MaxOf
  <2> HIDE DEF l
  <2>2. l \in I /\ \A x \in I : x <= l
    BY <1>1, <1>4, <2>1
  <2> QED
    BY <1>2, <2>2 DEF l
<1> QED
    BY <1>3, <1>4

\* The number of user turns is a number.
LEMMA CountNat ==
    ASSUME NEW X, NEW ms \in Seq(X)
    PROVE  UserTurnCount(ms) \in Nat
<1> DEFINE I == {i \in DOMAIN ms : IsUserTurn(ms[i])}
<1>1. Len(ms) \in Nat /\ DOMAIN ms = 1..Len(ms)
    OBVIOUS
<1>2. IsFiniteSet(1..Len(ms))
    BY <1>1, FS_Interval
<1>3. I \subseteq 1..Len(ms)
    BY <1>1
<1>4. IsFiniteSet(I)
    BY <1>2, <1>3, FS_Subset
<1> QED
    BY <1>4, FS_CardinalityType DEF UserTurnCount

\* A prefix followed by the piece that comes next is the longer prefix.
LEMMA PrefixGrows ==
    ASSUME NEW X, NEW T \in Seq(X), NEW s \in Seq(X), NEW a \in Nat, NEW b \in Nat,
           b = a + Len(s), b <= Len(T), \A j \in 1..Len(s) : s[j] = T[a + j]
    PROVE  SubSeq(T, 1, a) \o s = SubSeq(T, 1, b)
<1> DEFINE P == SubSeq(T, 1, a)
           Q == SubSeq(T, 1, b)
           R == P \o s
<1>0. Len(T) \in Nat /\ Len(s) \in Nat /\ a <= Len(T)
    OBVIOUS
<1>1. P \in Seq(X) /\ Len(P) = a /\ \A j \in 1..a : P[j] = T[j]
    BY <1>0
<1>2. Q \in Seq(X) /\ Len(Q) = b /\ \A j \in 1..b : Q[j] = T[j]
    BY <1>0
<1> HIDE DEF P, Q
<1>3. R \in Seq(X) /\ Len(R) = b /\ \A j \in 1..b : R[j] = IF j <= a THEN P[j] ELSE s[j - a]
    BY <1>0, <1>1
<1> HIDE DEF R
<1>4. ASSUME NEW j \in 1..b PROVE R[j] = Q[j]
  <2>1. CASE j <= a
    <3>1. j \in 1..a
      BY <1>0, <2>1
    <3> QED
      BY <1>1, <1>2, <1>3, <2>1, <3>1
  <2>2. CASE j > a
    <3> DEFINE k == j - a
    <3>1. k \in 1..Len(s) /\ j = a + k /\ ~(j <= a)
      BY <1>0, <2>2
    <3>2. R[j] = s[k]
      BY <1>3, <3>1
    <3> HIDE DEF k
    <3>3. s[k] = T[a + k]
      BY <3>1
    <3> QED
      BY <1>2, <3>1, <3>2, <3>3
  <2> QED
    BY <2>1, <2>2
<1> QED
  <2>1. R = Q
    BY <1>2, <1>3, <1>4
  <2> QED
    BY <2>1 DEF R, P, Q

\* A sequence cut into pieces is the concatenation of the pieces.
LEMMA FlattenIs ==
    ASSUME NEW X, NEW n \in Nat, n # 0, NEW ss \in Seq(Seq(X)), Len(ss) = n,
           NEW T \in Seq(X), NEW e \in [0..n -> Nat], e[0] = 0,
           Pieces(ss, T, e, n)
    PROVE  FlattenSeq(ss) = SubSeq(T, 1, e[n])
<1> DEFINE f == [i \in 1..n |-> SubSeq(T, 1, e[i])]
           Rec(g) == [i \in 1..n |-> IF i = 1 THEN ss[i] ELSE g[i - 1] \o ss[i]]
<1> USE DEF Pieces
<1>0. \A i \in 1..n : ss[i] \in Seq(X) /\ Len(ss[i]) \in Nat /\ e[i] \in Nat /\ e[i-1] \in Nat
    OBVIOUS
<1>00. Len(T) \in Nat
    OBVIOUS
<1>1. ASSUME NEW i \in 1..n PROVE f[i] = IF i = 1 THEN ss[i] ELSE f[i - 1] \o ss[i]
  <2> DEFINE a == e[i - 1]
             b == e[i]
             s == ss[i]
             P == SubSeq(T, 1, a)
             Q == SubSeq(T, 1, b)
  <2>1. a \in Nat /\ b \in Nat /\ s \in Seq(X) /\ Len(s) \in Nat /\ b = a + Len(s) /\ b <= Len(T)
    BY <1>0
  <2>2. \A j \in 1..Len(s) : s[j] = T[a + j]
    OBVIOUS
  <2>3. i = 1 => a = 0
    OBVIOUS
  <2>4. i # 1 => f[i - 1] = P
    <3>1. i # 1 => i - 1 \in 1..n
      OBVIOUS
    <3>2. \A k \in 1..n : f[k] = SubSeq(T, 1, e[k])
      OBVIOUS
    <3> HIDE DEF f
    <3> QED
      BY <3>1, <3>2
  <2>5. f[i] = Q
    OBVIOUS
  <2> HIDE DEF a, b, s, f
  <2> HIDE DEF Pieces
  <2>6. P \o s = Q
    BY <2>1, <2>2, PrefixGrows
  <2>11. CASE i = 1
    <3>1. P = << >>
      BY <2>3, <2>11, <1>00
    <3> HIDE DEF P, Q
    <3>2. P \o s = s
      BY <3>1, <2>1
    <3> QED
      BY <2>5, <2>6, <2>11, <3>2 DEF s
  <2>12. CASE i # 1
    BY <2>4, <2>5, <2>6, <2>12 DEF s
  <2> QED
    BY <2>11, <2>12
<1>2. f = Rec(f)
    BY <1>1
<1>3. ASSUME NEW g, g = Rec(g) PROVE g = f
  <2> DEFINE S == {i \in Nat : i \in 1..n => g[i] = f[i]}
  <2> HIDE DEF f
  <2>0. \A i \in 1..n : g[i] = IF i = 1 THEN ss[i] ELSE g[i - 1] \o ss[i]
    BY <1>3
  <2>1. 0 \in S
    OBVIOUS
  <2>2. ASSUME NEW k \in S PROVE k + 1 \in S
    BY <2>0, <1>1
  <2>3. \A i \in Nat : i \in S
    <3> HIDE DEF S
    <3>1. S \subseteq Nat
        BY DEF S
    <3> QED
        BY <2>1, <2>2, <3>1, NatSets
  <2>4. \A i \in 1..n : g[i] = f[i]
    BY <2>3
  <2>5. DOMAIN f = 1..n
    BY DEF f
  <2>6. g = [i \in 1..n |-> g[i]]
    BY <1>3
  <2>7. f = [i \in 1..n |-> f[i]]
    BY DEF f
  <2> QED
    BY <2>4, <2>6, <2>7
<1> DEFINE F == CHOOSE g : g = [i \in 1..n |-> IF i = 1 THEN ss[i] ELSE g[i - 1] \o ss[i]]
<1>4. F = f
  <2>1. \E g : g = Rec(g)
    BY <1>2
  <2>2. F = Rec(F)
    BY <2>1
  <2> QED
    BY <2>2, <1>3
<1>5. FlattenSeq(ss) = F[n]
    BY DEF FlattenSeq
<1>6. f[n] = SubSeq(T, 1, e[n])
    OBVIOUS
<1> HIDE DEF f, F
<1> QED
    BY <1>4, <1>5, <1>6

\* Concatenation keeps the type of the elements.
LEMMA FlattenTyped ==
    ASSUME NEW X, NEW ss, ss \in Seq(Seq(X))
    PROVE  FlattenSeq(ss) \in Seq(X)
<1> DEFINE n == Len(ss)
<1>0. n \in Nat
    OBVIOUS
<1>1. CASE n = 0
  <2>1. FlattenSeq(ss) = ss /\ ss = << >>
    BY <1>1 DEF FlattenSeq
  <2> QED
    BY <2>1
<1>2. CASE n # 0
  <2> DEFINE Solves(g, k) == \A i \in 1..k : g[i] = IF i = 1 THEN ss[i] ELSE g[i - 1] \o ss[i]
             S == {k \in Nat : k <= n => \E g \in [1..k -> Seq(X)] : Solves(g, k)}
             Rec(g) == [i \in 1..n |-> IF i = 1 THEN ss[i] ELSE g[i - 1] \o ss[i]]
  <2>0. \A i \in 1..n : ss[i] \in Seq(X)
    OBVIOUS
  <2>1. 0 \in S
    <3>1. [i \in 1..0 |-> << >>] \in [1..0 -> Seq(X)] /\ Solves([i \in 1..0 |-> << >>], 0)
      OBVIOUS
    <3> QED
      BY <3>1
  <2>2. ASSUME NEW k \in S PROVE k + 1 \in S
    <3> HIDE DEF n
    <3>0. k \in Nat /\ k + 1 \in Nat
      OBVIOUS
    <3> SUFFICES ASSUME k + 1 <= n PROVE \E g \in [1..(k + 1) -> Seq(X)] : Solves(g, k + 1)
      BY <3>0, Zenon
    <3>1. PICK g \in [1..k -> Seq(X)] : Solves(g, k)
      BY <1>0, <2>2
    <3> DEFINE v == IF k = 0 THEN ss[1] ELSE g[k] \o ss[k + 1]
               h == [i \in 1..(k + 1) |-> IF i = k + 1 THEN v ELSE g[i]]
    <3>2. k \in Nat /\ k + 1 \in 1..n /\ 1 \in 1..n /\ (k # 0 => k \in 1..k)
      BY <1>0, <2>2
    <3>3. v \in Seq(X)
      BY <2>0, <3>1, <3>2
    <3> HIDE DEF v
    <3>4. h \in [1..(k + 1) -> Seq(X)]
      BY <3>2, <3>3
    <3>5. \A i \in 1..(k + 1) : h[i] = IF i = k + 1 THEN v ELSE g[i]
      OBVIOUS
    <3> HIDE DEF h
    <3>6. ASSUME NEW i \in 1..(k + 1) PROVE h[i] = IF i = 1 THEN ss[i] ELSE h[i - 1] \o ss[i]
      <4>1. CASE i = k + 1
        <5>1. k # 0 => h[k] = g[k] /\ i - 1 = k /\ i # 1
          BY <3>2, <3>5, <4>1
        <5>2. k = 0 => i = 1
          BY <4>1
        <5>3. h[i] = v
          BY <3>5, <4>1
        <5> QED
          BY <4>1, <5>1, <5>2, <5>3 DEF v
      <4>2. CASE i # k + 1
        <5>1. i \in 1..k /\ (i # 1 => i - 1 \in 1..(k + 1) /\ i - 1 # k + 1)
          BY <3>2, <4>2
        <5>2. g[i] = IF i = 1 THEN ss[i] ELSE g[i - 1] \o ss[i]
          BY <3>1, <5>1
        <5> QED
          BY <3>5, <5>1, <5>2, <4>2
      <4> QED
        BY <4>1, <4>2
    <3>7. Solves(h, k + 1)
      BY <3>6
    <3> QED
      BY <3>4, <3>7
  <2>3. n \in S
    <3> HIDE DEF S, n
    <3>1. S \subseteq Nat
      BY DEF S
    <3> QED
      BY <1>0, <2>1, <2>2, <3>1, NatSets
  <2>4. PICK g \in [1..n -> Seq(X)] : Solves(g, n)
    BY <1>0, <2>3
  <2>5. g = Rec(g)
    BY <2>4
  <2> DEFINE F == CHOOSE f : f = [i \in 1..n |-> IF i = 1 THEN ss[i] ELSE f[i - 1] \o ss[i]]
  <2>6. F = Rec(F)
    BY <2>5
  <2>7. FlattenSeq(ss) = F[n]
    BY <1>2 DEF FlattenSeq
  <2>8. \A i \in 1..n : F[i] = IF i = 1 THEN ss[i] ELSE F[i - 1] \o ss[i]
    BY <2>6
  <2> HIDE DEF F, n
  <2> DEFINE U == {k \in Nat : k \in 1..n => F[k] \in Seq(X)}
  <2>9. 0 \in U
    OBVIOUS
  <2>10. ASSUME NEW k \in U PROVE k + 1 \in U
    <3> SUFFICES ASSUME k + 1 \in 1..n PROVE F[k + 1] \in Seq(X)
      OBVIOUS
    <3>1. CASE k = 0
      <4>1. F[1] = ss[1] /\ 1 \in 1..n
        BY <2>8, <3>1
      <4> QED
        BY <2>0, <3>1, <4>1
    <3>2. CASE k # 0
      <4>1. k \in 1..n /\ (k + 1) - 1 = k /\ k + 1 # 1
        BY <1>0, <3>2
      <4>2. F[k] \in Seq(X) /\ ss[k + 1] \in Seq(X)
        BY <2>0, <4>1
      <4>3. F[k + 1] = F[k] \o ss[k + 1]
        BY <2>8, <4>1
      <4> QED
        BY <4>2, <4>3
    <3> QED
      BY <3>1, <3>2
  <2>11. n \in U
    <3> HIDE DEF U
    <3>1. U \subseteq Nat
      BY DEF U
    <3> QED
      BY <1>0, <2>9, <2>10, <3>1, NatSets
  <2> QED
    BY <1>0, <1>2, <2>7, <2>11
<1> QED
    BY <1>1, <1>2

\* What is known of a message by its kind.
LEMMA MessageKinds ==
    ASSUME NEW m \in Messages
    PROVE  /\ m.kind \in {"user", "nudge", "summary", "assistant", "results"}
           /\ m.kind = "user" <=> m \in UserMessages
           /\ m.kind = "nudge" <=> m = Nudge
           /\ m.kind = "summary" <=> m = Summary
           /\ m.kind = "assistant" => /\ m.calls \in SUBSET CallIds /\ m.text \in BOOLEAN
                                      /\ m = Assistant(m.calls, m.text)
           /\ m.kind = "results" => m.res \in SUBSET (CallIds \X Says) /\ m = Results(m.res)
           /\ Makes(m) \subseteq CallIds /\ Answers(m) \subseteq CallIds
           /\ Makes(m) # {} => m.kind = "assistant" /\ Makes(m) = m.calls
           /\ Answers(m) # {} => m.kind = "results"
           /\ Makes(m) = {} \/ Answers(m) = {}
<1>1. CASE m \in UserMessages
    BY <1>1 DEF UserMessages, Nudge, Summary, Makes, Answers
<1>2. CASE m \in {Nudge, Summary}
    BY <1>2 DEF UserMessages, Nudge, Summary, Makes, Answers
<1>3. CASE m \in [kind : {"assistant"}, calls : SUBSET CallIds, text : BOOLEAN]
    BY <1>3 DEF UserMessages, Nudge, Summary, Makes, Answers, Assistant
<1>4. CASE m \in [kind : {"results"}, res : SUBSET (CallIds \X Says)]
  <2>1. m.kind = "results" /\ m.res \in SUBSET (CallIds \X Says) /\ m = Results(m.res)
    BY <1>4 DEF Results
  <2>2. m \notin UserMessages /\ m # Nudge /\ m # Summary
    BY <2>1 DEF UserMessages, Nudge, Summary
  <2>3. Makes(m) = {} /\ Answers(m) = {r[1] : r \in m.res}
    BY <2>1 DEF Makes, Answers
  <2>4. \A r \in m.res : r[1] \in CallIds
    BY <2>1
  <2> QED
    BY <2>1, <2>2, <2>3, <2>4
<1> QED
    BY <1>1, <1>2, <1>3, <1>4 DEF Messages

\* The messages the loop makes.
LEMMA MessageMade ==
    /\ Nudge \in Messages /\ Summary \in Messages
    /\ \A p \in 1..MaxPrompts : User(p) \in UserMessages /\ User(p).of = p
    /\ UserMessages \subseteq Messages
    /\ \A C \in SUBSET CallIds, t \in BOOLEAN : Assistant(C, t) \in Messages /\ Makes(Assistant(C, t)) = C
           /\ Assistant(C, t).kind = "assistant" /\ Assistant(C, t).calls = C /\ Assistant(C, t).text = t
    /\ \A R \in SUBSET (CallIds \X Says) : Results(R) \in Messages /\ Results(R).kind = "results"
           /\ Results(R).res = R /\ Answers(Results(R)) = {r[1] : r \in R} /\ Makes(Results(R)) = {}
<1>1. Nudge \in Messages /\ Summary \in Messages /\ UserMessages \subseteq Messages
    BY DEF Messages
<1>2. \A p \in 1..MaxPrompts : User(p) \in UserMessages /\ User(p).of = p
    BY DEF UserMessages, User
<1>3. \A C \in SUBSET CallIds, t \in BOOLEAN : Assistant(C, t) \in Messages /\ Makes(Assistant(C, t)) = C
           /\ Assistant(C, t).kind = "assistant" /\ Assistant(C, t).calls = C /\ Assistant(C, t).text = t
    BY DEF Messages, Assistant, Makes
<1>4. \A R \in SUBSET (CallIds \X Says) : Results(R) \in Messages /\ Results(R).kind = "results"
           /\ Results(R).res = R /\ Answers(Results(R)) = {r[1] : r \in R} /\ Makes(Results(R)) = {}
    BY DEF Messages, Results, Makes, Answers
<1> QED
    BY <1>1, <1>2, <1>3, <1>4

-----------------------------------------------------------------------------
(* materialize_cancelled_suffix and close_orphan_tool_calls.                *)

\* A message is pushed.
LEMMA Appended ==
    ASSUME NEW X, NEW s \in Seq(X), NEW x \in X
    PROVE  /\ Append(s, x) \in Seq(X) /\ Len(Append(s, x)) = Len(s) + 1
           /\ DOMAIN Append(s, x) = 1..(Len(s) + 1) /\ Append(s, x)[Len(s) + 1] = x
           /\ \A i \in 1..Len(s) : Append(s, x)[i] = s[i]
    OBVIOUS

\* A message is replaced.
LEMMA Replaced ==
    ASSUME NEW X, NEW s \in Seq(X), NEW x \in X, NEW k \in 1..Len(s)
    PROVE  /\ [s EXCEPT ![k] = x] \in Seq(X) /\ Len([s EXCEPT ![k] = x]) = Len(s)
           /\ [s EXCEPT ![k] = x][k] = x
           /\ \A i \in 1..Len(s) : i # k => [s EXCEPT ![k] = x][i] = s[i]
    OBVIOUS

\* The results written for the calls of a message: those journalled, the others uncertain.
LEMMA FilledMade ==
    ASSUME NEW ms \in Seq(Messages), NEW i \in DOMAIN ms
    PROVE  /\ Filled(ms, i) \in Messages /\ Filled(ms, i).kind = "results" /\ Makes(Filled(ms, i)) = {}
           /\ \E res \in SUBSET (CallIds \X Says) :
                /\ \/ /\ i < Len(ms) /\ FollowsCalls(ms, i + 1) /\ res = ms[i + 1].res
                      /\ Answers(ms[i + 1]) = {r[1] : r \in res}
                   \/ ~(i < Len(ms) /\ FollowsCalls(ms, i + 1)) /\ res = {}
                /\ Filled(ms, i) = Results(res \cup ((Makes(ms[i]) \ {r[1] : r \in res}) \X {"uncertain"}))
                /\ Filled(ms, i).res = res \cup ((Makes(ms[i]) \ {r[1] : r \in res}) \X {"uncertain"})
                /\ Answers(Filled(ms, i)) = {r[1] : r \in res} \cup Makes(ms[i])
<1> DEFINE res == IF i < Len(ms) /\ FollowsCalls(ms, i + 1) THEN ms[i + 1].res ELSE {}
           D == {r[1] : r \in res}
           miss == Makes(ms[i]) \ D
           R == res \cup (miss \X {"uncertain"})
<1>0. Len(ms) \in Nat /\ DOMAIN ms = 1..Len(ms) /\ i \in 1..Len(ms) /\ \A j \in 1..Len(ms) : ms[j] \in Messages
    OBVIOUS
<1>1. res \in SUBSET (CallIds \X Says)
  <2>1. CASE i < Len(ms) /\ FollowsCalls(ms, i + 1)
    <3>1. ms[i + 1] \in Messages /\ ms[i + 1].kind = "results"
      BY <1>0, <2>1 DEF FollowsCalls
    <3> QED
      BY <2>1, <3>1, MessageKinds
  <2> QED
    BY <2>1
<1>2. i < Len(ms) /\ FollowsCalls(ms, i + 1) => Answers(ms[i + 1]) = {r[1] : r \in res}
    BY DEF FollowsCalls, Answers
<1>3. miss \subseteq CallIds
    BY <1>0, MessageKinds
<1>4. Filled(ms, i) = Results(R)
    BY DEF Filled
<1>5. i < Len(ms) /\ FollowsCalls(ms, i + 1) => res = ms[i + 1].res
    OBVIOUS
<1>6. ~(i < Len(ms) /\ FollowsCalls(ms, i + 1)) => res = {}
    OBVIOUS
<1> HIDE DEF res
<1>7. "uncertain" \in Says
    BY DEF Says
<1>8. R \in SUBSET (CallIds \X Says)
  <2> HIDE DEF miss
  <2> QED
    BY <1>1, <1>3, <1>7
<1>9. {r[1] : r \in R} = D \cup Makes(ms[i])
  <2>1. \A r \in miss \X {"uncertain"} : r[1] \in Makes(ms[i])
    OBVIOUS
  <2>2. \A c \in miss : <<c, "uncertain">> \in R /\ <<c, "uncertain">>[1] = c
    OBVIOUS
  <2>3. \A c \in Makes(ms[i]) : c \in D \/ c \in miss
    OBVIOUS
  <2>4. \A r \in R : r[1] \in D \cup Makes(ms[i])
    BY <2>1
  <2>5. \A r \in res : r \in R
    OBVIOUS
  <2>6. \A c \in D \cup Makes(ms[i]) : \E r \in R : c = r[1]
    <3> HIDE DEF R, miss
    <3> QED
      BY <2>2, <2>3, <2>5
  <2> HIDE DEF R, D
  <2> QED
    BY <2>4, <2>6
<1>10. Results(R) \in Messages /\ Results(R).kind = "results" /\ Makes(Results(R)) = {} /\ Results(R).res = R
       /\ Answers(Results(R)) = D \cup Makes(ms[i])
  <2> HIDE DEF R, D
  <2> QED
    BY <1>8, <1>9, MessageMade
<1>11. /\ \/ /\ i < Len(ms) /\ FollowsCalls(ms, i + 1) /\ res = ms[i + 1].res
             /\ Answers(ms[i + 1]) = {r[1] : r \in res}
          \/ ~(i < Len(ms) /\ FollowsCalls(ms, i + 1)) /\ res = {}
       /\ Filled(ms, i) = Results(R) /\ Filled(ms, i).res = R
       /\ Answers(Filled(ms, i)) = D \cup Makes(ms[i])
    BY <1>2, <1>4, <1>5, <1>6, <1>10
<1> QED
    BY <1>1, <1>4, <1>10, <1>11

\* The types of the repairs.
LEMMA PairTyped ==
    ASSUME NEW ms \in Seq(Messages)
    PROVE  PairCalls(ms) \in Seq(Messages)
<1> DEFINE ss == [i \in DOMAIN ms |->
                    IF FollowsCalls(ms, i) THEN << >>
                    ELSE IF Makes(ms[i]) = {} THEN <<ms[i]>> ELSE <<ms[i], Filled(ms, i)>>]
<1>0. Len(ms) \in Nat /\ DOMAIN ms = 1..Len(ms) /\ \A j \in 1..Len(ms) : ms[j] \in Messages
    OBVIOUS
<1>1. \A i \in DOMAIN ms : Filled(ms, i) \in Messages
    BY FilledMade
<1>2. \A i \in DOMAIN ms : ss[i] \in Seq(Messages)
    BY <1>0, <1>1
<1>3. ss \in Seq(Seq(Messages))
  <2>1. DOMAIN ss = 1..Len(ms)
    BY <1>0
  <2>2. ss = [i \in 1..Len(ms) |-> ss[i]]
    BY <1>0
  <2> HIDE DEF ss
  <2> QED
    BY <1>0, <1>2, <2>1, <2>2
<1>4. PairCalls(ms) = FlattenSeq(ss)
    BY DEF PairCalls
<1> HIDE DEF ss
<1> QED
    BY <1>3, <1>4, FlattenTyped

\* close_orphan_tool_calls keeps the type.
LEMMA CloseTyped ==
    ASSUME NEW ms \in Seq(Messages)
    PROVE  CloseOrphans(ms) \in Seq(Messages)
<1> DEFINE O(i) == OrphansOf(ms, ms[i])
           R(i) == Results(O(i) \X {"interrupted"})
           ss == [i \in DOMAIN ms |-> IF O(i) = {} THEN <<ms[i]>> ELSE <<ms[i], R(i)>>]
<1>0. Len(ms) \in Nat /\ DOMAIN ms = 1..Len(ms) /\ \A j \in 1..Len(ms) : ms[j] \in Messages
    OBVIOUS
<1>1. \A i \in DOMAIN ms : R(i) \in Messages
  <2> TAKE i \in DOMAIN ms
  <2>1. O(i) \subseteq CallIds
    BY <1>0, MessageKinds DEF OrphansOf
  <2>2. "interrupted" \in Says
    BY DEF Says
  <2>3. O(i) \X {"interrupted"} \in SUBSET (CallIds \X Says)
    <3> HIDE DEF O
    <3> QED
      BY <2>1, <2>2
  <2> HIDE DEF O
  <2> QED
    BY <2>3, MessageMade
<1>2. \A i \in DOMAIN ms : ss[i] \in Seq(Messages)
  <2> HIDE DEF R, O
  <2> QED
    BY <1>0, <1>1
<1>3. ss \in Seq(Seq(Messages))
  <2>1. DOMAIN ss = 1..Len(ms)
    BY <1>0
  <2>2. ss = [i \in 1..Len(ms) |-> ss[i]]
    BY <1>0
  <2> HIDE DEF ss
  <2> QED
    BY <1>0, <1>2, <2>1, <2>2
<1>4. CloseOrphans(ms) = FlattenSeq(ss)
    BY DEF CloseOrphans
<1> HIDE DEF ss
<1> QED
    BY <1>3, <1>4, FlattenTyped

\* materialize_cancelled_suffix keeps the type.
LEMMA MatTyped ==
    ASSUME NEW ms \in Seq(Messages)
    PROVE  Materialize(ms) \in Seq(Messages)
<1> DEFINE p == PairCalls(ms)
           l == Len(p)
           x == [p[l] EXCEPT !.text = TRUE]
<1>1. p \in Seq(Messages)
    BY PairTyped
<1>2. CASE p # << >> /\ Last(p).kind = "assistant"
  <2> HIDE DEF p
  <2>1. l \in 1..l /\ l \in Nat /\ p[l] \in Messages /\ p[l].kind = "assistant"
    BY <1>1, <1>2 DEF Last
  <2>2. x \in Messages
    <3>1. p[l] \in [kind : {"assistant"}, calls : SUBSET CallIds, text : BOOLEAN]
      BY <2>1, MessageKinds DEF Assistant
    <3>2. x \in [kind : {"assistant"}, calls : SUBSET CallIds, text : BOOLEAN]
      BY <3>1
    <3> QED
      BY <3>2 DEF Messages
  <2>3. Materialize(ms) = [p EXCEPT ![l] = x]
    BY <1>2 DEF Materialize, p
  <2>4. l \in 1..Len(p)
    BY <2>1
  <2> HIDE DEF x, l
  <2> QED
    BY <1>1, <2>2, <2>3, <2>4, Replaced
<1>3. CASE ~(p # << >> /\ Last(p).kind = "assistant")
  <2>1. Materialize(ms) = Append(p, Assistant({}, TRUE))
    BY <1>3 DEF Materialize
  <2>2. Assistant({}, TRUE) \in Messages
    BY MessageMade
  <2> HIDE DEF p, l, x
  <2>3. Append(p, Assistant({}, TRUE)) \in Seq(Messages)
    BY <1>1, <2>2, Appended
  <2> QED
    BY <2>1, <2>3
<1> QED
    BY <1>2, <1>3

\* Half at one index.
LEMMA HalfAt ==
    ASSUME NEW ms \in Seq(Messages), Half(ms), NEW i \in 1..Len(ms)
    PROVE  /\ ms[i] \in Messages
           /\ Makes(ms[i]) # {} /\ i < Len(ms) =>
                /\ ms[i + 1].kind = "results" /\ Answers(ms[i + 1]) \subseteq Makes(ms[i])
                /\ Makes(ms[i + 1]) = {} /\ FollowsCalls(ms, i + 1)
                /\ i + 1 < Len(ms) => Answers(ms[i + 1]) = Makes(ms[i])
           /\ i > 1 /\ Makes(ms[i - 1]) # {} => ms[i].kind = "results" /\ Makes(ms[i]) = {} /\ FollowsCalls(ms, i)
           /\ ms[i].kind = "results" => i > 1 /\ Makes(ms[i - 1]) # {} /\ Makes(ms[i]) = {} /\ FollowsCalls(ms, i)
           /\ FollowsCalls(ms, i) => i > 1 /\ Makes(ms[i - 1]) # {} /\ ms[i].kind = "results" /\ Makes(ms[i]) = {}
<1>0. Len(ms) \in Nat /\ DOMAIN ms = 1..Len(ms) /\ \A j \in 1..Len(ms) : ms[j] \in Messages
    OBVIOUS
<1>1. \A j \in 1..Len(ms) : ms[j].kind = "results" => Makes(ms[j]) = {}
    BY DEF Makes
<1>2. \A j \in 1..Len(ms) :
         /\ Makes(ms[j]) # {} /\ j < Len(ms) =>
              /\ ms[j + 1].kind = "results" /\ Answers(ms[j + 1]) \subseteq Makes(ms[j])
              /\ j + 1 < Len(ms) => Answers(ms[j + 1]) = Makes(ms[j])
         /\ ms[j].kind = "results" => j > 1 /\ Makes(ms[j - 1]) # {}
    BY <1>0 DEF Half
<1>3. i < Len(ms) => i + 1 \in 1..Len(ms) /\ (i + 1) - 1 = i /\ i + 1 > 1
    BY <1>0
<1>4. i > 1 => i - 1 \in 1..Len(ms) /\ i - 1 < Len(ms) /\ (i - 1) + 1 = i
    BY <1>0
<1>5. \A j \in 1..Len(ms) : FollowsCalls(ms, j) <=> j > 1 /\ ms[j].kind = "results" /\ Makes(ms[j - 1]) # {}
    BY DEF FollowsCalls
<1> QED
    BY <1>0, <1>1, <1>2, <1>3, <1>4, <1>5

\* A pair that is complete is written as it is.
LEMMA FilledSame ==
    ASSUME NEW ms \in Seq(Messages), Half(ms), NEW i \in 1..Len(ms), Makes(ms[i]) # {}, i + 1 < Len(ms)
    PROVE  Filled(ms, i) = ms[i + 1]
<1>0. i < Len(ms) /\ i + 1 \in 1..Len(ms) /\ i \in DOMAIN ms
    OBVIOUS
<1>1. FollowsCalls(ms, i + 1) /\ Answers(ms[i + 1]) = Makes(ms[i]) /\ ms[i + 1].kind = "results"
    BY <1>0, HalfAt
<1>2. ms[i + 1] \in Messages
    BY <1>0
<1>3. ms[i + 1] = Results(ms[i + 1].res)
    BY <1>1, <1>2, MessageKinds
<1>4. PICK res \in SUBSET (CallIds \X Says) :
         /\ res = ms[i + 1].res /\ Answers(ms[i + 1]) = {r[1] : r \in res}
         /\ Filled(ms, i) = Results(res \cup ((Makes(ms[i]) \ {r[1] : r \in res}) \X {"uncertain"}))
    BY <1>0, <1>1, FilledMade
<1>5. (Makes(ms[i]) \ {r[1] : r \in res}) \X {"uncertain"} = {}
    BY <1>1, <1>4
<1>6. res \cup ((Makes(ms[i]) \ {r[1] : r \in res}) \X {"uncertain"}) = res
    BY <1>5
<1> QED
    BY <1>3, <1>4, <1>6

\* What stands where in the whole of ms.
LEMMA WholeAt ==
    ASSUME NEW ms \in Seq(Messages), Half(ms), ms # << >>
    PROVE  /\ Whole(ms) \in Seq(Messages)
           /\ Len(Whole(ms)) = IF Makes(ms[Len(ms)]) # {} THEN Len(ms) + 1 ELSE Len(ms)
           /\ \A j \in 1..Len(ms) : ~FollowsCalls(ms, j) => Whole(ms)[j] = ms[j]
           /\ \A j \in 1..Len(ms) : Makes(ms[j]) # {} =>
                 j + 1 \in 1..Len(Whole(ms)) /\ Whole(ms)[j + 1] = Filled(ms, j)
           /\ \A j \in 1..Len(Whole(ms)) :
                 \/ j \in 1..Len(ms) /\ ~FollowsCalls(ms, j) /\ Whole(ms)[j] = ms[j]
                 \/ j > 1 /\ j - 1 \in 1..Len(ms) /\ Makes(ms[j - 1]) # {} /\ Whole(ms)[j] = Filled(ms, j - 1)
<1> DEFINE n == Len(ms)
           m == IF Makes(ms[n]) # {} THEN n + 1 ELSE n
           W == Whole(ms)
<1>0. n \in Nat /\ n # 0 /\ n \in 1..n /\ m \in Nat /\ (m = n \/ (m = n + 1 /\ Makes(ms[n]) # {}))
      /\ (Makes(ms[n]) # {} => m = n + 1)
    OBVIOUS
<1>1. W = [j \in 1..m |-> IF j > 1 /\ Makes(ms[j - 1]) # {} THEN Filled(ms, j - 1) ELSE ms[j]]
    BY DEF Whole
<1>11. Len(W) = m
    BY <1>0, <1>1
<1>2. \A j \in 1..n : /\ ms[j] \in Messages /\ Filled(ms, j) \in Messages
                      /\ FollowsCalls(ms, j) <=> (j > 1 /\ Makes(ms[j - 1]) # {})
  <2> TAKE j \in 1..n
  <2>1. j \in DOMAIN ms
    OBVIOUS
  <2> QED
    BY <2>1, FilledMade, HalfAt
<1> HIDE DEF n, m, W
<1>3. ASSUME NEW j \in 1..m
      PROVE  \/ j \in 1..n /\ ~FollowsCalls(ms, j) /\ W[j] = ms[j]
             \/ j > 1 /\ j - 1 \in 1..n /\ Makes(ms[j - 1]) # {} /\ W[j] = Filled(ms, j - 1)
  <2>1. CASE j > 1 /\ Makes(ms[j - 1]) # {}
    <3>1. j - 1 \in 1..n
      BY <1>0, <2>1
    <3> QED
      BY <1>1, <2>1, <3>1
  <2>2. CASE ~(j > 1 /\ Makes(ms[j - 1]) # {})
    <3>1. j \in 1..n
      <4>1. CASE j = n + 1
        <5>1. j > 1 /\ j - 1 = n /\ m # n
          BY <1>0, <4>1
        <5>2. Makes(ms[n]) # {}
          BY <1>0, <5>1
        <5> QED
          BY <2>2, <5>1, <5>2
      <4>2. CASE j # n + 1
        BY <1>0, <4>2
      <4> QED
        BY <4>1, <4>2
    <3> QED
      BY <1>1, <1>2, <2>2, <3>1
  <2> QED
    BY <2>1, <2>2
<1>4. \A j \in 1..m : W[j] \in Messages
    BY <1>2, <1>3
<1>5. W \in Seq(Messages)
  <2>1. W = [j \in 1..m |-> W[j]]
    BY <1>1
  <2> QED
    BY <1>0, <1>4, <2>1
<1>7. \A j \in 1..n : j \in 1..m
    BY <1>0
<1>8. \A j \in 1..n : ~FollowsCalls(ms, j) => W[j] = ms[j]
    BY <1>1, <1>2, <1>7
<1>9. ASSUME NEW j \in 1..n, Makes(ms[j]) # {} PROVE j + 1 \in 1..m /\ W[j + 1] = Filled(ms, j)
  <2>1. j + 1 \in 1..m /\ j + 1 > 1 /\ (j + 1) - 1 = j
    <3>1. CASE j = n
      BY <1>0, <1>9, <3>1
    <3>2. CASE j # n
      BY <1>0, <3>2
    <3> QED
      BY <3>1, <3>2
  <2> QED
    BY <1>1, <1>9, <2>1
<1>10. Len(W) = IF Makes(ms[Len(ms)]) # {} THEN Len(ms) + 1 ELSE Len(ms)
    BY <1>11 DEF m, n
<1> QED
    BY <1>3, <1>5, <1>11, <1>8, <1>9, <1>10 DEF W, n

\* The loop of materialize_cancelled_suffix computes the whole.
LEMMA PairIsWhole ==
    ASSUME NEW ms \in Seq(Messages), Half(ms), ms # << >>
    PROVE  PairCalls(ms) = Whole(ms)
<1> DEFINE n == Len(ms)
           W == Whole(ms)
           ss == [i \in DOMAIN ms |->
                    IF FollowsCalls(ms, i) THEN << >>
                    ELSE IF Makes(ms[i]) = {} THEN <<ms[i]>> ELSE <<ms[i], Filled(ms, i)>>]
           e == [i \in 0..n |-> IF i = 0 \/ Makes(ms[i]) = {} THEN i ELSE i + 1]
<1>0. n \in Nat /\ n # 0 /\ n \in 1..n /\ DOMAIN ms = 1..n /\ Len(ms) = n
    OBVIOUS
<1>1. /\ W \in Seq(Messages) /\ Len(W) \in Nat
      /\ Len(W) = IF Makes(ms[n]) # {} THEN n + 1 ELSE n
      /\ \A j \in 1..n : ~FollowsCalls(ms, j) => W[j] = ms[j]
      /\ \A j \in 1..n : Makes(ms[j]) # {} => j + 1 \in 1..Len(W) /\ W[j + 1] = Filled(ms, j)
  <2>1. W \in Seq(Messages)
    BY WholeAt
  <2>2. Len(W) \in Nat
    <3> HIDE DEF W
    <3> QED
      BY <2>1
  <2> QED
    BY <2>1, <2>2, WholeAt
<1>2. \A i \in 1..n : Filled(ms, i) \in Messages /\ ms[i] \in Messages
    BY <1>0, FilledMade
<1>3. \A i \in 1..n :
         /\ FollowsCalls(ms, i) => ss[i] = << >>
         /\ ~FollowsCalls(ms, i) /\ Makes(ms[i]) = {} => ss[i] = <<ms[i]>>
         /\ ~FollowsCalls(ms, i) /\ Makes(ms[i]) # {} => ss[i] = <<ms[i], Filled(ms, i)>>
    BY <1>0
<1>4. PairCalls(ms) = FlattenSeq(ss)
    BY DEF PairCalls
<1>5. ss = [i \in 1..n |-> ss[i]]
    BY <1>0
<1>6. e \in [0..n -> Nat] /\ e[0] = 0 /\ \A i \in 1..n : e[i] = IF Makes(ms[i]) = {} THEN i ELSE i + 1
    BY <1>0
<1>7. \A i \in 1..n : i > 1 => i - 1 \in 1..n
    BY <1>0
<1>8. e[n] = Len(W)
    BY <1>0, <1>1, <1>6
<1> HIDE DEF n, W, ss, e
<1>9. \A i \in 1..n : ss[i] \in Seq(Messages)
  <2> TAKE i \in 1..n
  <2>1. CASE FollowsCalls(ms, i)
    <3>1. << >> \in Seq(Messages)
      OBVIOUS
    <3> QED
      BY <1>3, <2>1, <3>1
  <2>2. CASE ~FollowsCalls(ms, i) /\ Makes(ms[i]) = {}
    <3>1. ss[i] = <<ms[i]>>
      BY <1>3, <2>2
    <3> QED
      BY <1>2, <3>1
  <2>3. CASE ~FollowsCalls(ms, i) /\ Makes(ms[i]) # {}
    <3>1. ss[i] = <<ms[i], Filled(ms, i)>>
      BY <1>3, <2>3
    <3> QED
      BY <1>2, <3>1
  <2> QED
    BY <2>1, <2>2, <2>3
<1>10. ss \in Seq(Seq(Messages)) /\ Len(ss) = n
    BY <1>0, <1>5, <1>9
<1>11. ASSUME NEW i \in 1..n
       PROVE  /\ e[i] = e[i - 1] + Len(ss[i]) /\ e[i] <= Len(W)
              /\ \A j \in 1..Len(ss[i]) : ss[i][j] = W[e[i - 1] + j]
  <2>0. /\ FollowsCalls(ms, i) => i > 1 /\ Makes(ms[i - 1]) # {} /\ Makes(ms[i]) = {}
        /\ i > 1 /\ Makes(ms[i - 1]) # {} => FollowsCalls(ms, i)
    BY HalfAt DEF n
  <2>1. e[i - 1] = IF i = 1 THEN 0 ELSE IF Makes(ms[i - 1]) = {} THEN i - 1 ELSE i
    <3>1. CASE i = 1
      BY <1>6, <3>1
    <3>2. CASE i # 1
      <4>1. i > 1 /\ i - 1 \in 1..n
        BY <1>7, <3>2, <1>0
      <4>2. (i - 1) + 1 = i
        BY <1>0
      <4> QED
        BY <1>6, <3>2, <4>1, <4>2
    <3> QED
      BY <3>1, <3>2
  <2>2. e[i] <= Len(W)
    <3>1. CASE Makes(ms[i]) = {}
      <4>1. n <= Len(W) /\ e[i] = i
        BY <1>0, <1>1, <1>6, <3>1
      <4> QED
        BY <4>1, <1>0, <1>1
    <3>2. CASE Makes(ms[i]) # {}
      <4>1. i + 1 \in 1..Len(W) /\ e[i] = i + 1
        BY <1>1, <1>6, <3>2
      <4> QED
        BY <4>1, <1>1
    <3> QED
      BY <3>1, <3>2
  <2>3. CASE FollowsCalls(ms, i)
    <3>0. i > 1 /\ i # 1 /\ Makes(ms[i - 1]) # {} /\ Makes(ms[i]) = {}
      BY <2>0, <2>3
    <3>1. ss[i] = << >> /\ e[i] = i /\ e[i - 1] = i
      BY <1>3, <1>6, <2>1, <2>3, <3>0
    <3>2. Len(ss[i]) = 0 /\ i = i + 0
      BY <3>1
    <3> QED
      BY <2>2, <3>1, <3>2
  <2>4. CASE ~FollowsCalls(ms, i)
    <3>1. e[i - 1] = i - 1 /\ W[i] = ms[i]
      BY <2>0, <2>1, <2>4, <1>0, <1>1
    <3>2. CASE Makes(ms[i]) = {}
      <4>1. ss[i] = <<ms[i]>> /\ e[i] = i
        BY <1>3, <1>6, <2>4, <3>2
      <4>2. Len(ss[i]) = 1 /\ ss[i][1] = ms[i] /\ i = (i - 1) + 1
        BY <4>1
      <4>3. \A j \in 1..1 : j = 1
        OBVIOUS
      <4> QED
        BY <2>2, <3>1, <4>1, <4>2, <4>3
    <3>3. CASE Makes(ms[i]) # {}
      <4>1. ss[i] = <<ms[i], Filled(ms, i)>> /\ e[i] = i + 1 /\ W[i + 1] = Filled(ms, i)
        BY <1>1, <1>3, <1>6, <2>4, <3>3
      <4>2. /\ Len(ss[i]) = 2 /\ ss[i][1] = ms[i] /\ ss[i][2] = Filled(ms, i)
            /\ i = (i - 1) + 1 /\ i + 1 = (i - 1) + 2
        BY <4>1
      <4>3. \A j \in 1..2 : j = 1 \/ j = 2
        OBVIOUS
      <4> QED
        BY <2>2, <3>1, <4>1, <4>2, <4>3
    <3> QED
      BY <3>2, <3>3
  <2> QED
    BY <2>3, <2>4
<1>12. FlattenSeq(ss) = SubSeq(W, 1, e[n])
  <2>1. Pieces(ss, W, e, n)
    BY <1>11 DEF Pieces
  <2>2. n \in Nat /\ n # 0 /\ W \in Seq(Messages) /\ e \in [0..n -> Nat] /\ e[0] = 0
    BY <1>0, <1>1, <1>6
  <2> QED
    BY <1>10, <2>1, <2>2, FlattenIs
<1>13. SubSeq(W, 1, Len(W)) = W
    BY <1>1
<1> QED
    BY <1>4, <1>8, <1>12, <1>13 DEF W

\* Paired is half, and nothing is missing.
LEMMA PairedIsHalf ==
    ASSUME NEW ms \in Seq(Messages)
    PROVE  Paired(ms) <=> Half(ms) /\ Missing(ms) = {}
<1> DEFINE n == Len(ms)
<1>0. n \in Nat /\ DOMAIN ms = 1..n /\ (ms = << >> <=> n = 0) /\ \A j \in 1..n : ms[j] \in Messages
    OBVIOUS
<1>1. \A j \in 1..n : /\ ms[j].kind = "results" => Makes(ms[j]) = {}
                      /\ Makes(ms[j]) # {} => Answers(ms[j]) = {}
                      /\ Answers(ms[j]) # {} => ms[j].kind = "results"
    BY <1>0, MessageKinds
<1> HIDE DEF n
<1>2. ASSUME Paired(ms) PROVE Half(ms) /\ Missing(ms) = {}
  <2>1. \A j \in 1..n :
          /\ Makes(ms[j]) # {} => j < n /\ Answers(ms[j + 1]) = Makes(ms[j]) /\ ms[j + 1].kind = "results"
          /\ ms[j].kind = "results" => j > 1 /\ Makes(ms[j - 1]) # {}
    <3> TAKE j \in 1..n
    <3>1. /\ Makes(ms[j]) # {} => j < n /\ Answers(ms[j + 1]) = Makes(ms[j])
          /\ ms[j].kind = "results" => j > 1 /\ Makes(ms[j - 1]) # {}
      BY <1>0, <1>2 DEF Paired, n
    <3>2. j < n => j + 1 \in 1..n
      BY <1>0
    <3> QED
      BY <1>1, <3>1, <3>2
  <2>2. Half(ms)
    BY <1>0, <2>1 DEF Half
  <2>3. ms # << >> => n \in 1..n /\ Makes(ms[n]) = {}
    BY <1>0, <2>1
  <2>4. n > 1 => Makes(ms[n - 1]) \ Answers(ms[n]) = {}
    <3> SUFFICES ASSUME n > 1 PROVE Makes(ms[n - 1]) \ Answers(ms[n]) = {}
      OBVIOUS
    <3>1. n - 1 \in 1..n /\ (n - 1) + 1 = n
      BY <1>0
    <3> QED
      BY <2>1, <3>1
  <2> QED
    BY <2>2, <2>3, <2>4 DEF Missing, n
<1>3. ASSUME Half(ms), Missing(ms) = {} PROVE Paired(ms)
  <2> SUFFICES ASSUME NEW i \in 1..n
               PROVE  /\ Makes(ms[i]) # {} => i < Len(ms) /\ Answers(ms[i + 1]) = Makes(ms[i])
                      /\ ms[i].kind = "results" => i > 1 /\ Makes(ms[i - 1]) # {}
    BY <1>0 DEF Paired
  <2>1. /\ Makes(ms[i]) # {} /\ i < n =>
             /\ ms[i + 1].kind = "results" /\ Answers(ms[i + 1]) \subseteq Makes(ms[i]) /\ Makes(ms[i + 1]) = {}
             /\ i + 1 < n => Answers(ms[i + 1]) = Makes(ms[i])
        /\ ms[i].kind = "results" => i > 1 /\ Makes(ms[i - 1]) # {}
    BY <1>3, HalfAt DEF n
  <2>2. ms # << >> /\ n \in 1..n
    BY <1>0
  <2>3. Makes(ms[n]) = {}
    BY <1>3, <2>2 DEF Missing, n
  <2>4. n > 1 => Makes(ms[n - 1]) \ Answers(ms[n]) = {}
    BY <1>3, <2>2, <2>3 DEF Missing, n
  <2>5. ASSUME Makes(ms[i]) # {} PROVE i < n /\ Answers(ms[i + 1]) = Makes(ms[i])
    <3>1. i # n
      BY <2>3, <2>5
    <3>2. i < n
      BY <1>0, <3>1
    <3>3. CASE i + 1 < n
      BY <2>1, <2>5, <3>2, <3>3
    <3>4. CASE ~(i + 1 < n)
      <4>1. n > 1 /\ n - 1 = i /\ i + 1 = n
        BY <1>0, <3>2, <3>4
      <4> QED
        BY <2>1, <2>4, <2>5, <3>2, <4>1
    <3> QED
      BY <3>2, <3>3, <3>4
  <2> QED
    BY <2>1, <2>5 DEF n
<1> QED
    BY <1>2, <1>3

\* The whole of an open sequence is sound.
LEMMA WholeSound ==
    ASSUME NEW ms \in Seq(Messages), ms # << >>, NEW st, NEW fi, NEW g, Open(ms, st, fi, g)
    PROVE  Sound(Whole(ms), st, fi, g)
<1> DEFINE n == Len(ms)
           W == Whole(ms)
           m == Len(W)
<1>0. Half(ms) /\ n \in Nat /\ n # 0 /\ DOMAIN ms = 1..n /\ n \in 1..n
    BY DEF Open
<1>1. /\ W \in Seq(Messages) /\ m = IF Makes(ms[n]) # {} THEN n + 1 ELSE n
      /\ \A j \in 1..n : ~FollowsCalls(ms, j) => W[j] = ms[j]
      /\ \A j \in 1..n : Makes(ms[j]) # {} => j + 1 \in 1..m /\ W[j + 1] = Filled(ms, j)
      /\ \A j \in 1..m :
                 \/ j \in 1..n /\ ~FollowsCalls(ms, j) /\ W[j] = ms[j]
                 \/ j > 1 /\ j - 1 \in 1..n /\ Makes(ms[j - 1]) # {} /\ W[j] = Filled(ms, j - 1)
    BY <1>0, WholeAt
<1>2. m \in Nat /\ DOMAIN W = 1..m
  <2> HIDE DEF W
  <2> QED
    BY <1>1
<1>3. \A j \in 1..n : Filled(ms, j).kind = "results" /\ Makes(Filled(ms, j)) = {}
    BY <1>0, FilledMade
<1>4. ASSUME NEW j \in 1..n, Makes(ms[j]) # {} PROVE Answers(Filled(ms, j)) = Makes(ms[j])
  <2>0. j \in DOMAIN ms
    BY <1>0
  <2>1. PICK res \in SUBSET (CallIds \X Says) :
          /\ \/ /\ j < n /\ FollowsCalls(ms, j + 1) /\ res = ms[j + 1].res
                /\ Answers(ms[j + 1]) = {r[1] : r \in res}
             \/ ~(j < n /\ FollowsCalls(ms, j + 1)) /\ res = {}
          /\ Answers(Filled(ms, j)) = {r[1] : r \in res} \cup Makes(ms[j])
    BY <2>0, FilledMade
  <2>2. j < n => Answers(ms[j + 1]) \subseteq Makes(ms[j])
    BY <1>0, <1>4, HalfAt
  <2>3. {r[1] : r \in res} \subseteq Makes(ms[j])
    BY <2>1, <2>2
  <2> QED
    BY <2>1, <2>3
<1>5. ASSUME NEW j \in 1..n, Makes(ms[j]) # {} PROVE ~FollowsCalls(ms, j)
    BY <1>0, <1>5, HalfAt
<1>6. ASSUME NEW j \in 1..n, Makes(ms[j]) # {} PROVE IsTrue(Filled(ms, j), st, fi, g)
  <2>0. j \in DOMAIN ms
    BY <1>0
  <2>1. PICK res \in SUBSET (CallIds \X Says) :
          /\ \/ j < n /\ FollowsCalls(ms, j + 1) /\ res = ms[j + 1].res /\ Answers(ms[j + 1]) = {r[1] : r \in res}
             \/ ~(j < n /\ FollowsCalls(ms, j + 1)) /\ res = {}
          /\ Filled(ms, j).res = res \cup ((Makes(ms[j]) \ {r[1] : r \in res}) \X {"uncertain"})
    BY <2>0, FilledMade
  <2>2. ASSUME NEW r \in res
        PROVE  /\ r[2] = "done" => r[1] \in fi
               /\ r[2] = "uncertain" => r[1] \notin fi
               /\ r[2] \in {"blocked", "interrupted"} => r[1] \notin st
               /\ r[1][1] <= g
    <3>1. j < n /\ FollowsCalls(ms, j + 1) /\ res = ms[j + 1].res
      BY <2>1, <2>2
    <3>2. j + 1 \in DOMAIN ms /\ ms[j + 1].kind = "results"
      BY <1>0, <3>1 DEF FollowsCalls
    <3>3. IsTrue(ms[j + 1], st, fi, g)
      BY <3>2 DEF Open, AllTrue
    <3> QED
      BY <3>1, <3>2, <3>3 DEF IsTrue
  <2>3. ASSUME NEW c \in Makes(ms[j]) \ {r[1] : r \in res} PROVE c \in Missing(ms)
    <3>1. CASE j = n
      BY <1>0, <1>6, <3>1, <2>3 DEF Missing
    <3>2. CASE j # n
      <4>1. j < n /\ FollowsCalls(ms, j + 1) /\ Makes(ms[j + 1]) = {} /\ (j + 1 < n => Answers(ms[j + 1]) = Makes(ms[j]))
        <5>1. j < n
          <6> HIDE DEF n
          <6> QED
            BY <1>0, <3>2
        <5> QED
          BY <1>0, <1>6, <5>1, HalfAt
      <4>2. Answers(ms[j + 1]) = {r[1] : r \in res}
        BY <2>1, <4>1
      <4>3. ~(j + 1 < n)
        BY <2>3, <4>1, <4>2
      <4>4. j + 1 = n /\ n > 1 /\ n - 1 = j
        <5> HIDE DEF n
        <5> QED
          BY <1>0, <4>1, <4>3
      <4> QED
        BY <1>0, <2>3, <4>1, <4>2, <4>4 DEF Missing
    <3> QED
      BY <3>1, <3>2
  <2>4. \A c \in Missing(ms) : c \notin fi /\ c[1] <= g
    BY DEF Open
  <2>5. ASSUME NEW r \in (Makes(ms[j]) \ {x[1] : x \in res}) \X {"uncertain"}
        PROVE  r[2] = "uncertain" /\ r[1] \notin fi /\ r[1][1] <= g
    <3>1. r[1] \in Makes(ms[j]) \ {x[1] : x \in res} /\ r[2] = "uncertain"
      BY <2>5
    <3>2. r[1] \in Missing(ms)
      BY <3>1, <2>3
    <3> QED
      BY <3>1, <3>2, <2>4
  <2>6. ASSUME NEW r \in Filled(ms, j).res
        PROVE  /\ r[2] = "done" => r[1] \in fi
               /\ r[2] = "uncertain" => r[1] \notin fi
               /\ r[2] \in {"blocked", "interrupted"} => r[1] \notin st
               /\ r[1][1] <= g
    <3>1. r \in res \/ r \in (Makes(ms[j]) \ {x[1] : x \in res}) \X {"uncertain"}
      BY <2>1, <2>6
    <3> QED
      BY <2>2, <2>5, <3>1
  <2> QED
    BY <2>6 DEF IsTrue
<1> HIDE DEF n, W, m
<1>7. ASSUME NEW j \in 1..m PROVE IsTrue(W[j], st, fi, g)
  <2>1. CASE j \in 1..n /\ W[j] = ms[j]
    BY <1>0, <2>1 DEF Open, AllTrue
  <2>2. CASE j - 1 \in 1..n /\ Makes(ms[j - 1]) # {} /\ W[j] = Filled(ms, j - 1)
    BY <1>6, <2>2
  <2> QED
    BY <1>1, <2>1, <2>2
<1>8. ASSUME NEW j \in 1..m
      PROVE  /\ Makes(W[j]) # {} => j < m /\ Answers(W[j + 1]) = Makes(W[j])
             /\ W[j].kind = "results" => j > 1 /\ Makes(W[j - 1]) # {}
  <2>1. CASE j \in 1..n /\ ~FollowsCalls(ms, j) /\ W[j] = ms[j]
    <3>1. ms[j].kind = "results" => FollowsCalls(ms, j)
      BY <1>0, <2>1, HalfAt DEF n
    <3>2. Makes(ms[j]) # {} => j + 1 \in 1..m /\ W[j + 1] = Filled(ms, j)
      BY <1>1, <2>1
    <3>3. Makes(ms[j]) # {} => j < m /\ Answers(W[j + 1]) = Makes(ms[j])
      BY <1>0, <1>2, <1>4, <2>1, <3>2
    <3> QED
      BY <2>1, <3>1, <3>3
  <2>2. CASE j > 1 /\ j - 1 \in 1..n /\ Makes(ms[j - 1]) # {} /\ W[j] = Filled(ms, j - 1)
    <3>1. Makes(W[j]) = {}
      BY <1>3, <2>2
    <3>2. W[j - 1] = ms[j - 1]
      BY <1>1, <1>5, <2>2
    <3> QED
      BY <2>2, <3>1, <3>2
  <2> QED
    BY <1>1, <2>1, <2>2
<1>9. Paired(W)
    BY <1>2, <1>8 DEF Paired, m
<1> QED
    BY <1>2, <1>7, <1>9 DEF Sound, AllTrue, W

\* A message that is no result, after a paired sequence.
LEMMA AppendHalf ==
    ASSUME NEW ms \in Seq(Messages), NEW x \in Messages, Paired(ms), x.kind # "results"
    PROVE  Half(Append(ms, x)) /\ Missing(Append(ms, x)) = Makes(x)
<1> DEFINE n == Len(ms)
           a == Append(ms, x)
<1>0. n \in Nat /\ DOMAIN ms = 1..n
    OBVIOUS
<1>1. a \in Seq(Messages) /\ Len(a) = n + 1 /\ DOMAIN a = 1..(n + 1) /\ a[n + 1] = x /\ \A i \in 1..n : a[i] = ms[i]
    BY Appended
<1>2. \A i \in 1..n : /\ Makes(ms[i]) # {} => i < n /\ Answers(ms[i + 1]) = Makes(ms[i])
                      /\ ms[i].kind = "results" => i > 1 /\ Makes(ms[i - 1]) # {}
    BY <1>0 DEF Paired
<1>3. \A i \in 1..n : ms[i] \in Messages
    OBVIOUS
<1> HIDE DEF a, n
<1>4. ASSUME NEW i \in 1..(n + 1)
      PROVE  /\ Makes(a[i]) # {} /\ i < Len(a) =>
                 /\ a[i + 1].kind = "results" /\ Answers(a[i + 1]) \subseteq Makes(a[i])
                 /\ i + 1 < Len(a) => Answers(a[i + 1]) = Makes(a[i])
             /\ a[i].kind = "results" => i > 1 /\ Makes(a[i - 1]) # {}
  <2>1. CASE i = n + 1
    BY <1>0, <1>1, <2>1
  <2>2. CASE i # n + 1
    <3>1. i \in 1..n /\ a[i] = ms[i]
      BY <1>0, <1>1, <2>2
    <3>2. ASSUME Makes(a[i]) # {}
          PROVE  a[i + 1].kind = "results" /\ Answers(a[i + 1]) = Makes(a[i])
      <4>1. i < n /\ Answers(ms[i + 1]) = Makes(ms[i])
        BY <1>2, <3>1, <3>2
      <4>2. i + 1 \in 1..n
        BY <1>0, <3>1, <4>1
      <4>3. a[i + 1] = ms[i + 1] /\ ms[i + 1] \in Messages /\ Answers(ms[i + 1]) # {}
        BY <1>1, <1>3, <3>1, <3>2, <4>1, <4>2
      <4> QED
        BY <3>1, <4>1, <4>3, MessageKinds
    <3>3. a[i].kind = "results" => i > 1 /\ Makes(a[i - 1]) # {}
      <4>1. i > 1 => i - 1 \in 1..n
        BY <1>0, <3>1
      <4> QED
        BY <1>1, <1>2, <3>1, <4>1
    <3> QED
      BY <3>2, <3>3
  <2> QED
    BY <2>1, <2>2
<1>5. Half(a)
    BY <1>1, <1>4 DEF Half
<1>6. Missing(a) = Makes(x)
  <2>1. a # << >> /\ Len(a) = n + 1 /\ (n + 1) - 1 = n /\ a[n + 1] = x
    BY <1>0, <1>1
  <2>2. CASE Makes(x) # {}
    BY <2>1, <2>2 DEF Missing
  <2>3. CASE Makes(x) = {}
    <3>1. n > 0 => Makes(a[n]) = {}
      BY <1>0, <1>1, <1>2
    <3>2. n + 1 > 1 => n > 0
      BY <1>0
    <3> QED
      BY <2>1, <2>3, <3>1, <3>2 DEF Missing
  <2> QED
    BY <2>2, <2>3
<1> QED
    BY <1>5, <1>6 DEF a

\* The same, for a message without calls.
LEMMA AppendPaired ==
    ASSUME NEW ms \in Seq(Messages), NEW x \in Messages, Paired(ms), x.kind # "results", Makes(x) = {}
    PROVE  Paired(Append(ms, x))
<1>1. Append(ms, x) \in Seq(Messages)
    BY Appended
<1> QED
    BY <1>1, AppendHalf, PairedIsHalf

\* Results, after the message with their calls.
LEMMA AppendResults ==
    ASSUME NEW ms \in Seq(Messages), NEW x \in Messages, Half(ms), ms # << >>, Makes(ms[Len(ms)]) # {},
           x.kind = "results", Answers(x) \subseteq Makes(ms[Len(ms)])
    PROVE  Half(Append(ms, x)) /\ Missing(Append(ms, x)) = Makes(ms[Len(ms)]) \ Answers(x)
<1> DEFINE n == Len(ms)
           a == Append(ms, x)
<1>0. n \in Nat /\ n # 0 /\ DOMAIN ms = 1..n
    OBVIOUS
<1>1. a \in Seq(Messages) /\ Len(a) = n + 1 /\ DOMAIN a = 1..(n + 1) /\ a[n + 1] = x /\ \A i \in 1..n : a[i] = ms[i]
    BY Appended
<1>2. \A i \in 1..n : /\ Makes(ms[i]) # {} /\ i < n =>
                            /\ ms[i + 1].kind = "results" /\ Answers(ms[i + 1]) \subseteq Makes(ms[i])
                            /\ i + 1 < n => Answers(ms[i + 1]) = Makes(ms[i])
                            /\ Makes(ms[i + 1]) = {}
                      /\ ms[i].kind = "results" => i > 1 /\ Makes(ms[i - 1]) # {}
    BY <1>0, HalfAt
<1>3. Makes(x) = {}
    BY DEF Makes
<1>4. Makes(ms[n]) # {} /\ Answers(x) \subseteq Makes(ms[n])
    OBVIOUS
<1> HIDE DEF a, n
<1>5. ASSUME NEW i \in 1..(n + 1)
      PROVE  /\ Makes(a[i]) # {} /\ i < Len(a) =>
                 /\ a[i + 1].kind = "results" /\ Answers(a[i + 1]) \subseteq Makes(a[i])
                 /\ i + 1 < Len(a) => Answers(a[i + 1]) = Makes(a[i])
             /\ a[i].kind = "results" => i > 1 /\ Makes(a[i - 1]) # {}
  <2>1. CASE i = n + 1
    <3>1. i > 1 /\ i - 1 = n /\ n \in 1..n /\ ~(i < Len(a))
      BY <1>0, <1>1, <2>1
    <3> QED
      BY <1>1, <1>4, <3>1
  <2>2. CASE i = n
    <3>1. i \in 1..n /\ a[i] = ms[i] /\ a[i + 1] = x /\ ~(i + 1 < Len(a)) /\ (i > 1 => i - 1 \in 1..n)
      BY <1>0, <1>1, <2>2
    <3> QED
      BY <1>1, <1>2, <1>4, <2>2, <3>1
  <2>3. CASE i # n + 1 /\ i # n
    <3>1. i \in 1..n /\ i + 1 \in 1..n /\ i < n /\ (i > 1 => i - 1 \in 1..n)
      BY <1>0, <2>3
    <3>2. a[i] = ms[i] /\ a[i + 1] = ms[i + 1] /\ (i > 1 => a[i - 1] = ms[i - 1])
      BY <1>1, <3>1
    <3>3. Makes(ms[i]) # {} => i + 1 < n
      <4>1. Makes(ms[i]) # {} => Makes(ms[i + 1]) = {}
        BY <1>2, <3>1
      <4>2. Makes(ms[i]) # {} => i + 1 # n
        BY <1>4, <4>1
      <4> QED
        BY <1>0, <3>1, <4>2
    <3> QED
      BY <1>2, <3>1, <3>2, <3>3
  <2> QED
    BY <2>1, <2>2, <2>3
<1>6. Half(a)
    BY <1>1, <1>5 DEF Half
<1>7. Missing(a) = Makes(ms[n]) \ Answers(x)
  <2>1. a # << >> /\ Len(a) = n + 1 /\ (n + 1) - 1 = n /\ n + 1 > 1 /\ n \in 1..n
    BY <1>0, <1>1
  <2> QED
    BY <1>1, <1>3, <2>1 DEF Missing
<1> QED
    BY <1>6, <1>7 DEF a, n

\* What is said stays true when a true message is pushed.
LEMMA AppendTrue ==
    ASSUME NEW ms \in Seq(Messages), NEW x \in Messages, NEW st, NEW fi, NEW g,
           AllTrue(ms, st, fi, g), IsTrue(x, st, fi, g)
    PROVE  AllTrue(Append(ms, x), st, fi, g)
<1> DEFINE n == Len(ms)
           a == Append(ms, x)
<1>1. n \in Nat /\ DOMAIN ms = 1..n /\ DOMAIN a = 1..(n + 1) /\ a[n + 1] = x /\ \A i \in 1..n : a[i] = ms[i]
    BY Appended
<1>2. \A i \in 1..n : IsTrue(ms[i], st, fi, g)
    BY <1>1 DEF AllTrue
<1> HIDE DEF n, a
<1>3. ASSUME NEW i \in 1..(n + 1) PROVE IsTrue(a[i], st, fi, g)
  <2>1. i = n + 1 \/ i \in 1..n
    BY <1>1
  <2> QED
    BY <1>1, <1>2, <2>1
<1> QED
    BY <1>1, <1>3 DEF AllTrue, a

\* Concatenation, index by index.
LEMMA Concat ==
    ASSUME NEW X, NEW a \in Seq(X), NEW b \in Seq(X)
    PROVE  /\ a \o b \in Seq(X) /\ Len(a \o b) = Len(a) + Len(b) /\ DOMAIN (a \o b) = 1..(Len(a) + Len(b))
           /\ \A i \in 1..Len(a) : (a \o b)[i] = a[i]
           /\ \A i \in 1..Len(b) : (a \o b)[Len(a) + i] = b[i]
<1>1. Len(a) \in Nat /\ Len(b) \in Nat
    OBVIOUS
<1>2. a \o b \in Seq(X) /\ Len(a \o b) = Len(a) + Len(b) /\ \A i \in 1..Len(a) : (a \o b)[i] = a[i]
    OBVIOUS
<1>3. ASSUME NEW i \in 1..Len(b) PROVE (a \o b)[Len(a) + i] = b[i]
    OBVIOUS
<1> QED
    BY <1>1, <1>2, <1>3

\* An index of a \o b is one of a or one of b.
LEMMA ConcatAt ==
    ASSUME NEW X, NEW a \in Seq(X), NEW b \in Seq(X), NEW i \in 1..(Len(a) + Len(b))
    PROVE  \/ i \in 1..Len(a) /\ (a \o b)[i] = a[i]
           \/ \E k \in 1..Len(b) : i = Len(a) + k /\ (a \o b)[i] = b[k]
<1> DEFINE m == Len(a)
           n == Len(b)
           c == a \o b
<1>1. m \in Nat /\ n \in Nat /\ i \in 1..(m + n) /\ (\A j \in 1..m : c[j] = a[j]) /\ \A j \in 1..n : c[m + j] = b[j]
    BY Concat
<1> HIDE DEF m, n, c
<1>2. CASE i <= m
  <2>1. i \in 1..m
    BY <1>1, <1>2
  <2> QED
    BY <1>1, <2>1 DEF m, c
<1>3. CASE ~(i <= m)
  <2> DEFINE k == i - m
  <2>1. k \in 1..n /\ i = m + k
    BY <1>1, <1>3
  <2> HIDE DEF k
  <2>2. c[i] = b[k]
    BY <1>1, <2>1
  <2> QED
    BY <2>1, <2>2 DEF m, n, c
<1> QED
    BY <1>2, <1>3

\* An open part after a paired one.
LEMMA ConcatHalf ==
    ASSUME NEW a \in Seq(Messages), NEW b \in Seq(Messages), Paired(a), Half(b), b # << >>
    PROVE  Half(a \o b) /\ Missing(a \o b) = Missing(b)
<1> DEFINE m == Len(a)
           n == Len(b)
           c == a \o b
<1>0. m \in Nat /\ n \in Nat /\ n # 0 /\ DOMAIN a = 1..m /\ DOMAIN b = 1..n
    OBVIOUS
<1>1. /\ c \in Seq(Messages) /\ Len(c) = m + n /\ DOMAIN c = 1..(m + n)
      /\ \A i \in 1..m : c[i] = a[i]
      /\ \A i \in 1..n : c[m + i] = b[i]
    BY Concat
<1>2. \A i \in 1..m : /\ Makes(a[i]) # {} => i < m /\ Answers(a[i + 1]) = Makes(a[i])
                      /\ a[i].kind = "results" => i > 1 /\ Makes(a[i - 1]) # {}
    BY <1>0 DEF Paired
<1>3. \A i \in 1..n : /\ Makes(b[i]) # {} /\ i < n =>
                            /\ b[i + 1].kind = "results" /\ Answers(b[i + 1]) \subseteq Makes(b[i])
                            /\ i + 1 < n => Answers(b[i + 1]) = Makes(b[i])
                      /\ b[i].kind = "results" => i > 1 /\ Makes(b[i - 1]) # {}
    BY <1>0, HalfAt
<1>4. \A i \in 1..m : a[i] \in Messages
    OBVIOUS
<1> HIDE DEF m, n, c
<1>5. \A i \in 1..(m + n) : \/ i \in 1..m /\ c[i] = a[i]
                            \/ \E k \in 1..n : i = m + k /\ c[i] = b[k]
  <2> TAKE i \in 1..(m + n)
  <2>1. CASE i <= m
    <3>1. i \in 1..m
      BY <1>0, <2>1
    <3> QED
      BY <1>1, <3>1
  <2>2. CASE i > m
    <3> DEFINE k == i - m
    <3>1. k \in 1..n /\ i = m + k
      BY <1>0, <2>2
    <3> HIDE DEF k
    <3>2. c[m + k] = b[k]
      BY <1>1, <3>1
    <3> QED
      BY <3>1, <3>2
  <2> QED
    BY <1>0, <2>1, <2>2
<1>6. ASSUME NEW i \in 1..m
      PROVE  /\ Makes(a[i]) # {} => i + 1 \in 1..m /\ a[i + 1].kind = "results"
             /\ i > 1 => i - 1 \in 1..m
  <2>1. i > 1 => i - 1 \in 1..m
    BY <1>0
  <2>2. ASSUME Makes(a[i]) # {} PROVE i + 1 \in 1..m /\ a[i + 1].kind = "results"
    <3>1. i + 1 \in 1..m
      BY <1>0, <1>2, <2>2
    <3>2. a[i + 1] \in Messages /\ Answers(a[i + 1]) # {}
      BY <1>2, <1>4, <2>2, <3>1
    <3> QED
      BY <3>1, <3>2, MessageKinds
  <2> QED
    BY <2>1, <2>2
<1>7. ASSUME NEW i \in 1..(m + n)
      PROVE  /\ Makes(c[i]) # {} /\ i < Len(c) =>
                 /\ c[i + 1].kind = "results" /\ Answers(c[i + 1]) \subseteq Makes(c[i])
                 /\ i + 1 < Len(c) => Answers(c[i + 1]) = Makes(c[i])
             /\ c[i].kind = "results" => i > 1 /\ Makes(c[i - 1]) # {}
  <2>1. CASE i \in 1..m /\ c[i] = a[i]
    BY <1>1, <1>2, <1>6, <2>1
  <2>2. ASSUME NEW k \in 1..n, i = m + k, c[i] = b[k]
        PROVE  /\ Makes(c[i]) # {} /\ i < Len(c) =>
                   /\ c[i + 1].kind = "results" /\ Answers(c[i + 1]) \subseteq Makes(c[i])
                   /\ i + 1 < Len(c) => Answers(c[i + 1]) = Makes(c[i])
               /\ c[i].kind = "results" => i > 1 /\ Makes(c[i - 1]) # {}
    <3>1. i < Len(c) => k < n /\ k + 1 \in 1..n /\ i + 1 = m + (k + 1)
      BY <1>0, <1>1, <2>2
    <3>2. i + 1 < Len(c) => k + 1 < n
      BY <1>0, <1>1, <2>2
    <3>3. k > 1 => k - 1 \in 1..n /\ i - 1 = m + (k - 1) /\ i > 1
      BY <1>0, <2>2
    <3>4. i < Len(c) => c[i + 1] = b[k + 1]
      BY <1>1, <3>1
    <3>5. k > 1 => c[i - 1] = b[k - 1]
      BY <1>1, <3>3
    <3> QED
      BY <1>3, <2>2, <3>1, <3>2, <3>3, <3>4, <3>5
  <2> QED
    BY <1>5, <2>1, <2>2
<1>8. Half(c)
    BY <1>1, <1>7 DEF Half
<1>9. Missing(c) = Missing(b)
  <2>1. c # << >> /\ b # << >> /\ c[m + n] = b[n] /\ n \in 1..n /\ Len(c) = m + n /\ Len(b) = n
    BY <1>0, <1>1 DEF n
  <2>2. CASE n > 1
    <3>1. (m + n) - 1 = m + (n - 1) /\ n - 1 \in 1..n /\ m + n > 1
      BY <1>0, <2>2
    <3>2. c[(m + n) - 1] = b[n - 1]
      BY <1>1, <3>1
    <3> QED
      BY <2>1, <2>2, <3>1, <3>2 DEF Missing
  <2>3. CASE ~(n > 1)
    <3>1. n = 1
      BY <1>0, <2>3
    <3>2. m + n > 1 => Makes(c[(m + n) - 1]) = {}
      <4>1. m + n > 1 => (m + n) - 1 = m /\ m \in 1..m
        BY <1>0, <3>1
      <4> QED
        BY <1>0, <1>1, <1>2, <4>1
    <3> QED
      BY <2>1, <2>3, <3>2 DEF Missing
  <2> QED
    BY <2>2, <2>3
<1> QED
    BY <1>8, <1>9 DEF c

\* Two true parts.
LEMMA ConcatTrue ==
    ASSUME NEW a \in Seq(Messages), NEW b \in Seq(Messages), NEW st, NEW fi, NEW g,
           AllTrue(a, st, fi, g), AllTrue(b, st, fi, g)
    PROVE  AllTrue(a \o b, st, fi, g)
<1> SUFFICES ASSUME NEW i \in 1..(Len(a) + Len(b)) PROVE IsTrue((a \o b)[i], st, fi, g)
  <2>1. DOMAIN (a \o b) = 1..(Len(a) + Len(b))
    BY Concat
  <2> QED
    BY <2>1 DEF AllTrue
<1>1. \/ i \in 1..Len(a) /\ (a \o b)[i] = a[i]
      \/ \E k \in 1..Len(b) : i = Len(a) + k /\ (a \o b)[i] = b[k]
    BY ConcatAt
<1>2. DOMAIN a = 1..Len(a) /\ DOMAIN b = 1..Len(b)
    OBVIOUS
<1> QED
    BY <1>1, <1>2 DEF AllTrue

\* A prefix, index by index.
LEMMA PrefixSeq ==
    ASSUME NEW X, NEW a \in Seq(X), NEW n \in 0..Len(a)
    PROVE  /\ SubSeq(a, 1, n) \in Seq(X) /\ Len(SubSeq(a, 1, n)) = n /\ DOMAIN SubSeq(a, 1, n) = 1..n
           /\ \A i \in 1..n : SubSeq(a, 1, n)[i] = a[i] /\ i \in DOMAIN a
    OBVIOUS

\* A suffix, index by index.
LEMMA SuffixSeq ==
    ASSUME NEW X, NEW a \in Seq(X), NEW k \in 1..(Len(a) + 1), NEW n, n = Len(a) - k + 1
    PROVE  /\ SubSeq(a, k, Len(a)) \in Seq(X) /\ Len(SubSeq(a, k, Len(a))) = n /\ n \in Nat
           /\ DOMAIN SubSeq(a, k, Len(a)) = 1..n
           /\ \A i \in 1..n : SubSeq(a, k, Len(a))[i] = a[k + i - 1] /\ k + i - 1 \in 1..Len(a)
<1> DEFINE l == Len(a)
<1>0. l \in Nat
    OBVIOUS
<1>1. n \in Nat /\ \A i \in 1..n : k + i - 1 \in 1..l
  <2> HIDE DEF l
  <2>1. k \in 1..(l + 1) /\ n = l - k + 1
    BY DEF l
  <2> QED
    BY <1>0, <2>1
<1>2. SubSeq(a, k, l) \in Seq(X) /\ Len(SubSeq(a, k, l)) = n
    OBVIOUS
<1>3. \A i \in 1..n : SubSeq(a, k, l)[i] = a[k + i - 1]
    OBVIOUS
<1> QED
    BY <1>1, <1>2, <1>3

\* A paired sequence cut where no results begin.
LEMMA PrefixPaired ==
    ASSUME NEW a \in Seq(Messages), Paired(a), NEW n \in 0..Len(a),
           n = Len(a) \/ a[n + 1].kind # "results"
    PROVE  Paired(SubSeq(a, 1, n))
<1> DEFINE s == SubSeq(a, 1, n)
           l == Len(a)
<1>0. l \in Nat /\ DOMAIN a = 1..l /\ n \in 0..l /\ (n = l \/ a[n + 1].kind # "results")
    OBVIOUS
<1>1. Len(s) = n /\ DOMAIN s = 1..n /\ \A i \in 1..n : s[i] = a[i]
    BY PrefixSeq
<1>2. \A i \in 1..l : /\ Makes(a[i]) # {} => i < l /\ Answers(a[i + 1]) = Makes(a[i])
                      /\ a[i].kind = "results" => i > 1 /\ Makes(a[i - 1]) # {}
    BY <1>0 DEF Paired
<1>3. \A i \in 1..l : a[i] \in Messages
    OBVIOUS
<1> HIDE DEF s, l
<1>4. ASSUME NEW i \in 1..n
      PROVE  /\ Makes(s[i]) # {} => i < n /\ Answers(s[i + 1]) = Makes(s[i])
             /\ s[i].kind = "results" => i > 1 /\ Makes(s[i - 1]) # {}
  <2>0. i \in 1..l /\ s[i] = a[i] /\ (i > 1 => i - 1 \in 1..n)
    BY <1>0, <1>1
  <2>1. s[i].kind = "results" => i > 1 /\ Makes(s[i - 1]) # {}
    BY <1>1, <1>2, <2>0
  <2>2. ASSUME Makes(s[i]) # {} PROVE i < n /\ Answers(s[i + 1]) = Makes(s[i])
    <3>1. i < l /\ Answers(a[i + 1]) = Makes(a[i])
      BY <1>2, <2>0, <2>2
    <3>2. i + 1 \in 1..l
      BY <1>0, <2>0, <3>1
    <3>3. a[i + 1].kind = "results"
      BY <1>3, <2>0, <2>2, <3>1, <3>2, MessageKinds
    <3>4. i # n
      BY <1>0, <3>1, <3>3
    <3>5. i < n /\ i + 1 \in 1..n
      BY <1>0, <3>4
    <3> QED
      BY <1>1, <2>0, <3>1, <3>5
  <2> QED
    BY <2>1, <2>2
<1> QED
    BY <1>1, <1>4 DEF Paired, s

\* A prefix says nothing else.
LEMMA PrefixTrue ==
    ASSUME NEW a \in Seq(Messages), NEW n \in 0..Len(a), NEW st, NEW fi, NEW g, AllTrue(a, st, fi, g)
    PROVE  AllTrue(SubSeq(a, 1, n), st, fi, g)
    BY PrefixSeq DEF AllTrue

\* A suffix says nothing else.
LEMMA SuffixTrue ==
    ASSUME NEW a \in Seq(Messages), NEW k \in 1..(Len(a) + 1), NEW st, NEW fi, NEW g, AllTrue(a, st, fi, g)
    PROVE  AllTrue(SubSeq(a, k, Len(a)), st, fi, g)
<1> DEFINE n == Len(a) - k + 1
<1>1. /\ DOMAIN SubSeq(a, k, Len(a)) = 1..n
      /\ \A i \in 1..n : SubSeq(a, k, Len(a))[i] = a[k + i - 1] /\ k + i - 1 \in 1..Len(a)
    BY SuffixSeq
<1>2. DOMAIN a = 1..Len(a)
    OBVIOUS
<1> HIDE DEF n
<1> QED
    BY <1>1, <1>2 DEF AllTrue

\* A suffix that begins with no results misses what the whole misses.
LEMMA SuffixHalf ==
    ASSUME NEW a \in Seq(Messages), Half(a), NEW k \in 1..Len(a), a[k].kind # "results"
    PROVE  Half(SubSeq(a, k, Len(a))) /\ Missing(SubSeq(a, k, Len(a))) = Missing(a)
<1> DEFINE l == Len(a)
           n == l - k + 1
           s == SubSeq(a, k, l)
<1>0. l \in Nat /\ DOMAIN a = 1..l /\ k \in 1..l
    OBVIOUS
<1>1. /\ s \in Seq(Messages) /\ Len(s) = n /\ n \in Nat /\ DOMAIN s = 1..n
      /\ \A i \in 1..n : s[i] = a[k + i - 1] /\ k + i - 1 \in 1..l
  <2>1. k \in 1..(Len(a) + 1)
    OBVIOUS
  <2> QED
    BY <2>1, SuffixSeq
<1>2. \A i \in 1..l : /\ Makes(a[i]) # {} /\ i < l =>
                            /\ a[i + 1].kind = "results" /\ Answers(a[i + 1]) \subseteq Makes(a[i])
                            /\ i + 1 < l => Answers(a[i + 1]) = Makes(a[i])
                      /\ a[i].kind = "results" => i > 1 /\ Makes(a[i - 1]) # {}
    BY <1>0, HalfAt
<1>3. a[k].kind # "results"
    OBVIOUS
<1> HIDE DEF l, s
<1>00. n = l - k + 1
    OBVIOUS
<1> HIDE DEF n
<1>4. ASSUME NEW i \in 1..n
      PROVE  /\ Makes(s[i]) # {} /\ i < n =>
                   /\ s[i + 1].kind = "results" /\ Answers(s[i + 1]) \subseteq Makes(s[i])
                   /\ i + 1 < n => Answers(s[i + 1]) = Makes(s[i])
             /\ s[i].kind = "results" => i > 1 /\ Makes(s[i - 1]) # {}
  <2> DEFINE j == k + i - 1
  <2>1. j \in 1..l /\ s[i] = a[j]
    BY <1>1
  <2>2. i < n => i + 1 \in 1..n /\ k + (i + 1) - 1 = j + 1 /\ j < l
    BY <1>0, <1>00, <1>1
  <2>3. i + 1 < n => j + 1 < l
    BY <1>0, <1>00, <1>1
  <2>4. i > 1 => i - 1 \in 1..n /\ k + (i - 1) - 1 = j - 1
    BY <1>0, <1>1
  <2>5. ~(i > 1) => j = k
    BY <1>0
  <2> HIDE DEF j
  <2>6. i < n => s[i + 1] = a[j + 1]
    BY <1>1, <2>2
  <2>7. i > 1 => s[i - 1] = a[j - 1]
    BY <1>1, <2>4
  <2>8. Makes(s[i]) # {} /\ i < n =>
                   /\ s[i + 1].kind = "results" /\ Answers(s[i + 1]) \subseteq Makes(s[i])
                   /\ i + 1 < n => Answers(s[i + 1]) = Makes(s[i])
    BY <1>2, <2>1, <2>2, <2>3, <2>6
  <2>9. s[i].kind = "results" => i > 1 /\ Makes(s[i - 1]) # {}
    BY <1>2, <1>3, <2>1, <2>5, <2>7
  <2> QED
    BY <2>8, <2>9
<1>5. Half(s)
    BY <1>1, <1>4 DEF Half
<1>6. Missing(s) = Missing(a)
  <2>1. /\ n \in 1..n /\ k + n - 1 = l /\ s # << >> /\ a # << >> /\ Len(s) = n /\ Len(a) = l /\ l \in 1..l
    BY <1>0, <1>00, <1>1 DEF l
  <2>2. s[n] = a[l]
    BY <1>1, <2>1
  <2>3. CASE n > 1
    <3>1. n - 1 \in 1..n /\ k + (n - 1) - 1 = l - 1 /\ l > 1
      BY <1>0, <1>00, <2>3
    <3>2. s[n - 1] = a[l - 1]
      BY <1>1, <3>1
    <3> QED
      BY <2>1, <2>2, <2>3, <3>1, <3>2 DEF Missing
  <2>4. CASE ~(n > 1)
    <3>1. n = 1 /\ k = l
      BY <1>0, <1>00, <1>1, <2>1, <2>4
    <3>2. l > 1 => Makes(a[l - 1]) = {}
      <4>1. l > 1 => l - 1 \in 1..l /\ l - 1 < l /\ (l - 1) + 1 = l
        BY <1>0
      <4> QED
        BY <1>2, <1>3, <3>1, <4>1
    <3>3. Makes(a[l]) = {} => Missing(s) = {}
      BY <2>1, <2>2, <2>4 DEF Missing
    <3>4. Makes(a[l]) = {} => Missing(a) = {}
      BY <2>1, <3>2 DEF Missing
    <3>5. Makes(a[l]) # {} => Missing(s) = Missing(a)
      BY <2>1, <2>2 DEF Missing
    <3> QED
      BY <3>3, <3>4, <3>5
  <2> QED
    BY <2>3, <2>4
<1> QED
    BY <1>5, <1>6 DEF s, l

\* A suffix of a paired sequence that begins with no results.
LEMMA SuffixPaired ==
    ASSUME NEW a \in Seq(Messages), Paired(a), NEW k \in 1..Len(a), a[k].kind # "results"
    PROVE  Paired(SubSeq(a, k, Len(a)))
<1>1. SubSeq(a, k, Len(a)) \in Seq(Messages)
    OBVIOUS
<1> QED
    BY <1>1, SuffixHalf, PairedIsHalf

\* Two paired parts.
LEMMA ConcatPaired ==
    ASSUME NEW a \in Seq(Messages), NEW b \in Seq(Messages), Paired(a), Paired(b)
    PROVE  Paired(a \o b)
<1>1. a \o b \in Seq(Messages)
    OBVIOUS
<1>2. CASE b = << >>
  <2>1. a \o b = a
    BY <1>2
  <2> QED
    BY <2>1
<1>3. CASE b # << >>
    BY <1>1, <1>3, ConcatHalf, PairedIsHalf
<1> QED
    BY <1>2, <1>3

\* close_orphan_tool_calls leaves a paired sequence as it is.
LEMMA CloseNone ==
    ASSUME NEW ms \in Seq(Messages), Paired(ms)
    PROVE  CloseOrphans(ms) = ms /\ ~HasOrphans(ms)
<1> DEFINE n == Len(ms)
           ss == [i \in DOMAIN ms |->
                    IF OrphansOf(ms, ms[i]) = {} THEN <<ms[i]>>
                    ELSE <<ms[i], Results(OrphansOf(ms, ms[i]) \X {"interrupted"})>>]
           e == [i \in 0..n |-> i]
<1>0. n \in Nat /\ DOMAIN ms = 1..n /\ (n = 0 => ms = << >>) /\ \A i \in 1..n : ms[i] \in Messages
    OBVIOUS
<1>1. ASSUME NEW i \in 1..n PROVE OrphansOf(ms, ms[i]) = {}
  <2>1. CASE Makes(ms[i]) = {}
    BY <2>1 DEF OrphansOf
  <2>2. CASE Makes(ms[i]) # {}
    <3>1. i < n /\ Answers(ms[i + 1]) = Makes(ms[i])
      BY <1>0, <2>2 DEF Paired
    <3>2. i + 1 \in DOMAIN ms
      BY <1>0, <3>1
    <3>3. Makes(ms[i]) \subseteq AnsweredIn(ms)
      BY <3>1, <3>2 DEF AnsweredIn
    <3> QED
      BY <3>3 DEF OrphansOf
  <2> QED
    BY <2>1, <2>2
<1>2. ~HasOrphans(ms)
    BY <1>0, <1>1 DEF HasOrphans
<1>3. \A i \in 1..n : ss[i] = <<ms[i]>>
    BY <1>0, <1>1
<1>4. CloseOrphans(ms) = FlattenSeq(ss)
    BY DEF CloseOrphans
<1>5. ss = [i \in 1..n |-> ss[i]]
    BY <1>0
<1>6. e \in [0..n -> Nat] /\ e[0] = 0 /\ e[n] = n /\ \A i \in 1..n : e[i] = i /\ e[i - 1] = i - 1
    BY <1>0
<1>7. ms \in Seq(Messages) /\ Len(ms) = n /\ SubSeq(ms, 1, n) = ms
    OBVIOUS
<1> HIDE DEF n, ss, e
<1>8. \A i \in 1..n : ss[i] \in Seq(Messages) /\ Len(ss[i]) = 1 /\ ss[i][1] = ms[i]
  <2> TAKE i \in 1..n
  <2>1. ms[i] \in Messages /\ ss[i] = <<ms[i]>>
    BY <1>0, <1>3
  <2> QED
    BY <2>1
<1>9. ss \in Seq(Seq(Messages)) /\ Len(ss) = n
    BY <1>0, <1>5, <1>8
<1>10. CASE n = 0
  <2>1. FlattenSeq(ss) = ss /\ ss = << >>
    BY <1>9, <1>10 DEF FlattenSeq
  <2> QED
    BY <1>0, <1>2, <1>4, <1>10, <2>1
<1>11. CASE n # 0
  <2>1. Pieces(ss, ms, e, n)
    <3> SUFFICES ASSUME NEW i \in 1..n
                 PROVE  /\ e[i] = e[i - 1] + Len(ss[i]) /\ e[i] <= Len(ms)
                        /\ \A j \in 1..Len(ss[i]) : ss[i][j] = ms[e[i - 1] + j]
      BY DEF Pieces
    <3>1. e[i] = i /\ e[i - 1] = i - 1 /\ Len(ss[i]) = 1 /\ ss[i][1] = ms[i]
      BY <1>6, <1>8
    <3>2. i = (i - 1) + 1 /\ i <= n
      BY <1>0
    <3>3. \A j \in 1..1 : j = 1
      OBVIOUS
    <3> QED
      BY <1>7, <3>1, <3>2, <3>3
  <2>2. FlattenSeq(ss) = SubSeq(ms, 1, e[n])
    BY <1>0, <1>6, <1>7, <1>9, <1>11, <2>1, FlattenIs
  <2> QED
    BY <1>2, <1>4, <1>6, <1>7, <2>2
<1> QED
    BY <1>10, <1>11

\* close_orphan_tool_calls answers the calls of the last message.
LEMMA CloseLast ==
    ASSUME NEW ms \in Seq(Messages), Half(ms), ms # << >>, NEW C, C = Makes(ms[Len(ms)]), C # {},
           \A c \in C : c \notin AnsweredIn(ms)
    PROVE  CloseOrphans(ms) = Append(ms, Results(C \X {"interrupted"})) /\ HasOrphans(ms)
<1> DEFINE n == Len(ms)
           R == Results(C \X {"interrupted"})
           T == Append(ms, R)
           ss == [i \in DOMAIN ms |->
                    IF OrphansOf(ms, ms[i]) = {} THEN <<ms[i]>>
                    ELSE <<ms[i], Results(OrphansOf(ms, ms[i]) \X {"interrupted"})>>]
           e == [i \in 0..n |-> IF i = n THEN n + 1 ELSE i]
<1>0. n \in Nat /\ n # 0 /\ n \in 1..n /\ DOMAIN ms = 1..n /\ \A i \in 1..n : ms[i] \in Messages
    OBVIOUS
<1>1. ASSUME NEW i \in 1..n, i # n PROVE OrphansOf(ms, ms[i]) = {}
  <2>1. CASE Makes(ms[i]) = {}
    BY <2>1 DEF OrphansOf
  <2>2. CASE Makes(ms[i]) # {}
    <3> HIDE DEF n
    <3>0. i < n /\ i + 1 \in 1..n
      BY <1>0, <1>1
    <3>1. Makes(ms[i + 1]) = {} /\ (i + 1 < n => Answers(ms[i + 1]) = Makes(ms[i]))
      BY <2>2, <3>0, HalfAt DEF n
    <3>2. i + 1 # n
      BY <3>1 DEF n
    <3>3. i + 1 < n
      BY <1>0, <3>0, <3>2
    <3>4. Makes(ms[i]) \subseteq AnsweredIn(ms)
      BY <1>0, <3>0, <3>1, <3>3 DEF AnsweredIn
    <3> QED
      BY <3>4 DEF OrphansOf
  <2> QED
    BY <2>1, <2>2
<1>2. OrphansOf(ms, ms[n]) = C
    BY DEF OrphansOf
<1>3. HasOrphans(ms)
    BY <1>0, <1>2 DEF HasOrphans
<1>4. \A i \in 1..n : i # n => ss[i] = <<ms[i]>>
    BY <1>0, <1>1
<1>5. ss[n] = <<ms[n], R>>
    BY <1>0, <1>2
<1>6. CloseOrphans(ms) = FlattenSeq(ss)
    BY DEF CloseOrphans
<1>7. ss = [i \in 1..n |-> ss[i]]
    BY <1>0
<1>8. e \in [0..n -> Nat] /\ e[0] = 0 /\ e[n] = n + 1 /\ \A i \in 1..n : (i # n => e[i] = i) /\ e[i - 1] = i - 1
  <2> HIDE DEF n
  <2>1. \A i \in 0..n : e[i] = IF i = n THEN n + 1 ELSE i
    OBVIOUS
  <2>2. e \in [0..n -> Nat] /\ 0 \in 0..n /\ n \in 0..n
    BY <1>0
  <2>3. \A i \in 1..n : i \in 0..n /\ i - 1 \in 0..n /\ i - 1 # n
    BY <1>0
  <2> HIDE DEF e
  <2> QED
    BY <1>0, <2>1, <2>2, <2>3
<1>9. C \subseteq CallIds /\ "interrupted" \in Says
    BY <1>0, MessageKinds DEF Says
<1>10. C \X {"interrupted"} \in SUBSET (CallIds \X Says)
    BY <1>9
<1>11. R \in Messages
  <2> DEFINE Q == C \X {"interrupted"}
  <2>1. Q \in SUBSET (CallIds \X Says)
    BY <1>10
  <2> HIDE DEF Q
  <2>2. Results(Q) \in Messages
    BY <2>1, MessageMade
  <2> QED
    BY <2>2 DEF Q
<1> HIDE DEF R, e, ss
<1>12. T \in Seq(Messages) /\ Len(T) = n + 1 /\ T[n + 1] = R /\ \A i \in 1..n : T[i] = ms[i]
    BY <1>11, Appended
<1> HIDE DEF n, T
<1>13. \A i \in 1..n : ss[i] \in Seq(Messages)
  <2> TAKE i \in 1..n
  <2>1. ss[i] = <<ms[i]>> \/ ss[i] = <<ms[i], R>>
    BY <1>4, <1>5
  <2>2. ms[i] \in Messages
    BY <1>0
  <2> QED
    <3>1. <<ms[i]>> \in Seq(Messages) /\ <<ms[i], R>> \in Seq(Messages)
      BY <1>11, <2>2
    <3> QED
      BY <2>1, <3>1
<1>14. ss \in Seq(Seq(Messages)) /\ Len(ss) = n
    BY <1>0, <1>7, <1>13
<1>15. Pieces(ss, T, e, n)
  <2> SUFFICES ASSUME NEW i \in 1..n
               PROVE  /\ e[i] = e[i - 1] + Len(ss[i]) /\ e[i] <= Len(T)
                      /\ \A j \in 1..Len(ss[i]) : ss[i][j] = T[e[i - 1] + j]
    BY DEF Pieces
  <2>1. i = (i - 1) + 1 /\ i + 1 = (i - 1) + 2 /\ i <= n + 1 /\ n + 1 <= n + 1
    BY <1>0
  <2>2. CASE i = n
    <3>1. ss[i] = <<ms[i], R>> /\ e[i] = i + 1 /\ e[i - 1] = i - 1 /\ T[i] = ms[i] /\ T[i + 1] = R
      BY <1>0, <1>5, <1>8, <1>12, <2>2
    <3>2. Len(ss[i]) = 2 /\ ss[i][1] = ms[i] /\ ss[i][2] = R
      BY <3>1
    <3>3. \A j \in 1..2 : j = 1 \/ j = 2
      OBVIOUS
    <3> QED
      BY <1>12, <2>1, <2>2, <3>1, <3>2, <3>3
  <2>3. CASE i # n
    <3>1. ss[i] = <<ms[i]>> /\ e[i] = i /\ e[i - 1] = i - 1 /\ T[i] = ms[i]
      BY <1>0, <1>4, <1>8, <1>12, <2>3
    <3>2. Len(ss[i]) = 1 /\ ss[i][1] = ms[i]
      BY <3>1
    <3>3. \A j \in 1..1 : j = 1
      OBVIOUS
    <3> QED
      BY <1>12, <2>1, <3>1, <3>2, <3>3
  <2> QED
    BY <2>2, <2>3
<1>16. FlattenSeq(ss) = SubSeq(T, 1, e[n])
  <2>1. n \in Nat /\ n # 0 /\ T \in Seq(Messages) /\ e \in [0..n -> Nat] /\ e[0] = 0
    BY <1>0, <1>8, <1>12
  <2> QED
    BY <1>14, <1>15, <2>1, FlattenIs
<1>17. SubSeq(T, 1, n + 1) = T
    BY <1>0, <1>12
<1> QED
    BY <1>3, <1>6, <1>8, <1>16, <1>17 DEF T, R

\* A materialised suffix is sound and keeps its user turns where they were.
LEMMA Materialized ==
    ASSUME NEW ms \in Seq(Messages), ms # << >>, NEW st, NEW fi, NEW g, Open(ms, st, fi, g)
    PROVE  Sound(Materialize(ms), st, fi, g) /\ SameTurns(ms, Materialize(ms))
<1> DEFINE n == Len(ms)
           W == Whole(ms)
           m == Len(W)
           M == Materialize(ms)
<1>0. Half(ms) /\ n \in Nat /\ n # 0 /\ DOMAIN ms = 1..n /\ n \in 1..n
    BY DEF Open
<1>1. /\ W \in Seq(Messages) /\ m = (IF Makes(ms[n]) # {} THEN n + 1 ELSE n)
      /\ \A j \in 1..n : ~FollowsCalls(ms, j) => W[j] = ms[j]
      /\ \A j \in 1..m :
                 \/ j \in 1..n /\ ~FollowsCalls(ms, j) /\ W[j] = ms[j]
                 \/ j > 1 /\ j - 1 \in 1..n /\ Makes(ms[j - 1]) # {} /\ W[j] = Filled(ms, j - 1)
    BY <1>0, WholeAt
<1>2. PairCalls(ms) = W
    BY <1>0, PairIsWhole
<1>3. Sound(W, st, fi, g)
    BY WholeSound
<1>4. \A j \in 1..n : /\ Filled(ms, j).kind = "results"
                      /\ IsUserTurn(ms[j]) => ~FollowsCalls(ms, j)
    BY <1>0, FilledMade DEF FollowsCalls, IsUserTurn
<1>5. m \in Nat /\ m # 0 /\ m \in 1..m /\ DOMAIN W = 1..m /\ W # << >> /\ \A j \in 1..n : j \in 1..m
  <2>1. m \in Nat /\ DOMAIN W = 1..m
    <3> HIDE DEF W
    <3> QED
      BY <1>1
  <2>2. m # 0 /\ n <= m
    BY <1>0, <1>1
  <2> HIDE DEF m, n
  <2> QED
    BY <1>0, <2>1, <2>2 DEF m
<1> DEFINE A == Assistant({}, TRUE)
           x == [W[m] EXCEPT !.text = TRUE]
<1>6. A \in Messages /\ A.kind = "assistant" /\ Makes(A) = {}
    BY MessageMade
<1>7. M = IF W[m].kind = "assistant" THEN [W EXCEPT ![m] = x] ELSE Append(W, A)
    BY <1>2, <1>5 DEF Materialize, Last
<1>8. \A i \in 1..n : IsUserTurn(ms[i]) => i \in 1..m /\ W[i] = ms[i]
    BY <1>1, <1>4, <1>5
<1>9. \A i \in 1..m : IsUserTurn(W[i]) => i \in 1..n /\ W[i] = ms[i]
    BY <1>1, <1>4 DEF IsUserTurn
<1> HIDE DEF W, M, A, n
<1>50. m = Len(W)
    OBVIOUS
<1> HIDE DEF m
<1>10. CASE W[m].kind # "assistant"
  <2>1. M = Append(W, A)
    BY <1>7, <1>10
  <2>2. Paired(M)
    BY <1>1, <1>3, <1>6, <2>1, AppendPaired DEF Sound
  <2>3. AllTrue(M, st, fi, g)
    <3>1. IsTrue(A, st, fi, g)
      BY <1>6 DEF IsTrue
    <3> QED
      BY <1>1, <1>3, <1>6, <2>1, <3>1, AppendTrue DEF Sound
  <2>4. DOMAIN M = 1..(m + 1) /\ M[m + 1] = A /\ \A i \in 1..m : M[i] = W[i]
    BY <1>1, <1>6, <1>50, <2>1, Appended
  <2>5. \A i \in 1..n : IsUserTurn(ms[i]) => i \in DOMAIN M /\ M[i] = ms[i]
    BY <1>5, <1>8, <2>4
  <2>6. ASSUME NEW i \in DOMAIN M, IsUserTurn(M[i]) PROVE i \in DOMAIN ms /\ ms[i] = M[i]
    <3>1. i # m + 1
      BY <1>6, <2>4, <2>6 DEF IsUserTurn
    <3>2. i \in 1..m
      BY <1>5, <2>4, <3>1
    <3> QED
      BY <1>0, <1>9, <2>4, <2>6, <3>2
  <2> QED
    BY <1>0, <2>2, <2>3, <2>5, <2>6 DEF Sound, SameTurns, M
<1>11. CASE W[m].kind = "assistant"
  <2>0. W[m] \in Messages
    BY <1>1, <1>5, <1>50
  <2>1. Makes(W[m]) = {}
    BY <1>3, <1>5, <1>50 DEF Sound, Paired
  <2>2. x \in Messages /\ x.kind = "assistant" /\ Makes(x) = {}
    <3>1. W[m] \in [kind : {"assistant"}, calls : SUBSET CallIds, text : BOOLEAN]
      BY <1>11, <2>0, MessageKinds DEF Assistant
    <3>2. x \in [kind : {"assistant"}, calls : SUBSET CallIds, text : BOOLEAN] /\ x.calls = W[m].calls
      BY <3>1
    <3> QED
      BY <1>11, <2>1, <3>2 DEF Messages, Makes
  <2> HIDE DEF x
  <2>3. M = [W EXCEPT ![m] = x]
    BY <1>7, <1>11
  <2>4. Len(M) = m /\ DOMAIN M = 1..m /\ M[m] = x /\ \A i \in 1..m : i # m => M[i] = W[i]
    <3>1. M \in Seq(Messages) /\ Len(M) = m
      BY <1>1, <1>5, <1>50, <2>2, <2>3, Replaced
    <3> QED
      BY <1>1, <1>5, <1>50, <2>2, <2>3, <3>1, Replaced
  <2>5. \A i \in 1..m : M[i].kind = W[i].kind /\ Makes(M[i]) = Makes(W[i]) /\ Answers(M[i]) = Answers(W[i])
    BY <1>11, <2>1, <2>2, <2>4 DEF Answers
  <2>6. Paired(M)
    <3> SUFFICES ASSUME NEW i \in 1..m
                 PROVE  /\ Makes(M[i]) # {} => i < m /\ Answers(M[i + 1]) = Makes(M[i])
                        /\ M[i].kind = "results" => i > 1 /\ Makes(M[i - 1]) # {}
      BY <2>4 DEF Paired
    <3>1. /\ Makes(W[i]) # {} => i < m /\ Answers(W[i + 1]) = Makes(W[i])
          /\ W[i].kind = "results" => i > 1 /\ Makes(W[i - 1]) # {}
      BY <1>3, <1>5, <1>50 DEF Sound, Paired
    <3>2. (i < m => i + 1 \in 1..m) /\ (i > 1 => i - 1 \in 1..m)
      BY <1>5
    <3> QED
      BY <2>5, <3>1, <3>2
  <2>7. AllTrue(M, st, fi, g)
    <3>1. \A i \in 1..m : i # m => IsTrue(M[i], st, fi, g)
      BY <1>3, <1>5, <2>4 DEF Sound, AllTrue
    <3>2. IsTrue(x, st, fi, g)
      BY <2>2 DEF IsTrue
    <3> QED
      BY <2>4, <3>1, <3>2 DEF AllTrue
  <2>8. \A i \in 1..n : IsUserTurn(ms[i]) => i \in DOMAIN M /\ M[i] = ms[i]
    BY <1>5, <1>8, <1>11, <2>4 DEF IsUserTurn
  <2>9. ASSUME NEW i \in DOMAIN M, IsUserTurn(M[i]) PROVE i \in DOMAIN ms /\ ms[i] = M[i]
    <3>1. i # m /\ i \in 1..m
      BY <2>2, <2>4, <2>9 DEF IsUserTurn
    <3> QED
      BY <1>0, <1>9, <2>4, <2>9, <3>1
  <2> QED
    BY <1>0, <2>6, <2>7, <2>8, <2>9 DEF Sound, SameTurns, M
<1> QED
    BY <1>10, <1>11

-----------------------------------------------------------------------------
(* Types.                                                                   *)

\* The assumptions on the constants.
LEMMA Bounds == /\ MaxGens \in Nat /\ MaxPrompts \in Nat /\ MaxTurns \in Nat /\ MaxCalls \in Nat /\ MaxCalls > 0
                /\ NoId \in Ids /\ 1..MaxPrompts \subseteq Ids
    BY AgentAssumption DEF Ids

\* Align trims at the front.
LEMMA Trimmed ==
    ASSUME NEW X, NEW s \in Seq(X), NEW n \in Nat, Len(s) > n
    PROVE  /\ Align(s, n) \in Seq(X) /\ Len(Align(s, n)) = n
           /\ \A i \in 1..n : Align(s, n)[i] = s[Len(s) - n + i] /\ Len(s) - n + i \in 1..Len(s)
<1> DEFINE l == Len(s)
           k == l - n + 1
<1>0. l \in Nat /\ l > n
    OBVIOUS
<1>1. k \in 1..(Len(s) + 1)
    OBVIOUS
<1>2. n = Len(s) - k + 1
    BY <1>0
<1>3. /\ SubSeq(s, k, Len(s)) \in Seq(X) /\ Len(SubSeq(s, k, Len(s))) = n
      /\ \A i \in 1..n : SubSeq(s, k, Len(s))[i] = s[k + i - 1] /\ k + i - 1 \in 1..Len(s)
  <2> HIDE DEF k
  <2> QED
    BY <1>1, <1>2, SuffixSeq
<1>4. Align(s, n) = SubSeq(s, k, Len(s))
    BY DEF Align
<1>5. \A i \in 1..n : k + i - 1 = Len(s) - n + i
    BY <1>0
<1> HIDE DEF k
<1> QED
    BY <1>3, <1>4, <1>5

\* Align gives the length it is asked for.
LEMMA Aligned ==
    ASSUME NEW s \in Seq(Ids), NEW n \in Nat
    PROVE  /\ Align(s, n) \in Seq(Ids) /\ Len(Align(s, n)) = n
<1>1. CASE Len(s) > n
    BY <1>1, Trimmed
<1>2. CASE ~(Len(s) > n)
  <2> DEFINE p == [i \in 1..(n - Len(s)) |-> NoId]
  <2>0. Len(s) \in Nat
    OBVIOUS
  <2>1. n - Len(s) \in Nat
    BY <1>2, <2>0
  <2>2. p \in Seq(Ids) /\ Len(p) = n - Len(s)
    BY <2>1, Bounds
  <2>3. Align(s, n) = p \o s
    BY <1>2 DEF Align
  <2> HIDE DEF p
  <2>4. p \o s \in Seq(Ids) /\ Len(p \o s) = Len(p) + Len(s)
    BY <2>2, Concat
  <2> QED
    BY <2>0, <2>2, <2>3, <2>4
<1> QED
    BY <1>1, <1>2

\* Vec::truncate keeps the type.
LEMMA TruncatedTyped ==
    ASSUME NEW X, NEW s \in Seq(X), NEW n \in Nat
    PROVE  Truncated(s, n) \in Seq(X)
    BY DEF Truncated

\* The type of the record a checkpoint stores.
LEMMA RecoveryTyped ==
    ASSUME NEW ms \in Seq(Messages), NEW known \in Seq(Ids)
    PROVE  /\ Recovery(ms, known) \in [msgs : Seq(Messages), ids : Seq(Ids)]
           /\ Recovery(ms, known).msgs = Materialize(ms)
           /\ Recovery(ms, known).ids = Align(known, UserTurnCount(Materialize(ms)))
<1>1. Materialize(ms) \in Seq(Messages)
    BY MatTyped
<1>2. UserTurnCount(Materialize(ms)) \in Nat
    BY <1>1, CountNat
<1>3. Align(known, UserTurnCount(Materialize(ms))) \in Seq(Ids)
    BY <1>2, Aligned
<1> QED
    BY <1>1, <1>3 DEF Recovery

\* The type of the finalised history.
LEMMA PromotedTyped ==
    ASSUME NEW h \in Seq(Messages), journal \in Journals
    PROVE  Promoted(h) \in Seq(Messages)
<1>1. journal.suffix \in Seq(Messages) /\ journal.from \in Nat
    BY DEF Journals
<1>2. Materialize(journal.suffix) \in Seq(Messages)
    BY <1>1, MatTyped
<1>3. Truncated(h, journal.from) \in Seq(Messages)
    BY <1>1, TruncatedTyped
<1> QED
    BY <1>2, <1>3, Concat DEF Promoted

\* The same, when there may be no journal.
LEMMA FinalizedTyped == ASSUME TypeOK PROVE Finalized \in Seq(Messages)
<1>1. history \in Seq(Messages) /\ journal \in Journals
    BY DEF TypeOK
<1> QED
    BY <1>1, PromotedTyped DEF Finalized

\* The type of the history with a prefix inserted.
LEMMA PrefixTyped ==
    ASSUME NEW ms \in Seq(Messages)
    PROVE  WithPrefix(ms) \in Seq(Messages)
<1> DEFINE l == LastUserTurn(ms)
           A == Assistant({}, TRUE)
<1>1. l \in 0..Len(ms) /\ A \in Messages /\ Len(ms) \in Nat
  <2>1. A \in Messages
    BY MessageMade
  <2>2. l \in 0..Len(ms)
    BY LastTurn
  <2>3. Len(ms) \in Nat
    OBVIOUS
  <2> HIDE DEF l, A
  <2> QED
    BY <2>1, <2>2, <2>3
<1>2. CASE l > 0
  <2>1. l \in 0..Len(ms) /\ l + 1 \in 1..(Len(ms) + 1) /\ (l + 1) - 1 = l
    BY <1>1
  <2> HIDE DEF l, A
  <2>2. SubSeq(ms, 1, l) \in Seq(Messages) /\ SubSeq(ms, l + 1, Len(ms)) \in Seq(Messages)
    BY <1>1, <2>1, PrefixSeq, SuffixSeq
  <2>3. SubSeq(ms, 1, (l + 1) - 1) \o <<A>> \o SubSeq(ms, l + 1, Len(ms)) \in Seq(Messages)
    BY <1>1, <2>1, <2>2, Concat
  <2>4. InsertAt(ms, l + 1, A) \in Seq(Messages)
    BY <2>3 DEF InsertAt
  <2> QED
    BY <2>4 DEF WithPrefix, l, A
<1>3. CASE ~(l > 0)
    BY <1>3 DEF WithPrefix
<1> QED
    BY <1>2, <1>3

\* The type of the total.
LEMMA UsageTyped ==
    ASSUME counted \in [Gens -> Nat], NEW gs, AddUsage(gs)
    PROVE  counted' \in [Gens -> Nat]
    BY DEF AddUsage

\* The fields of a turn's locals.
LEMMA TurnFields ==
    ASSUME NEW t \in Turns
    PROVE  /\ t.mode \in {"append", "replace"} /\ t.user \in Messages
           /\ t.base \in Seq(Messages) /\ t.msgs \in Seq(Messages) /\ t.ids \in Seq(Ids)
           /\ t.left \in SUBSET CallIds /\ t.running \in BOOLEAN /\ t.results \in SUBSET (CallIds \X Says)
           /\ t.terminate \in BOOLEAN /\ t.auto \in Nat /\ t.resumes \in Nat /\ t.retries \in Nat
           /\ t.failed \in Nat /\ t.reacted \in BOOLEAN /\ t.spent \in SUBSET Gens /\ t.summaries \in {0, 1}
    BY DEF Turns

\* No turn is a turn record.
LEMMA NoTurnTyped == NoTurn \in Turns
    BY MessageMade DEF NoTurn, Turns

\* The fields of a journal.
LEMMA JournalFields ==
    ASSUME NEW j \in Journals
    PROVE  /\ j.mode \in {"none", "append", "replace"} /\ j.from \in Nat /\ j.suffix \in Seq(Messages)
           /\ j.usage \in SUBSET Gens
    BY DEF Journals

\* No journal is a journal record.
LEMMA NoJournalTyped == NoJournal \in Journals /\ NoJournal.mode = "none" /\ NoJournal.suffix = << >> /\ NoJournal.usage = {}
    BY DEF NoJournal, Journals

\* begin_turn_journal.
LEMMA NewJournalTyped ==
    ASSUME NEW mode \in {"append", "replace"}, NEW from \in Nat, NEW m \in Messages
    PROVE  /\ NewJournal(mode, from, m) \in Journals /\ NewJournal(mode, from, m).mode = mode
           /\ NewJournal(mode, from, m).from = from /\ NewJournal(mode, from, m).suffix = <<m>>
           /\ NewJournal(mode, from, m).usage = {}
    BY DEF NewJournal, Journals

\* The journal rewritten with another suffix.
LEMMA SuffixTyped ==
    ASSUME NEW j \in Journals, NEW s \in Seq(Messages), NEW k, k = [j EXCEPT !.suffix = s]
    PROVE  k \in Journals /\ k.suffix = s /\ k.mode = j.mode /\ k.from = j.from /\ k.usage = j.usage
    BY DEF Journals

\* The journal rewritten with another suffix and usage.
LEMMA SuffixUsageTyped ==
    ASSUME NEW j \in Journals, NEW s \in Seq(Messages), NEW u \in SUBSET Gens, NEW k,
           k = [j EXCEPT !.suffix = s, !.usage = u] \/ k = [j EXCEPT !.usage = u, !.suffix = s]
    PROVE  k \in Journals /\ k.suffix = s /\ k.mode = j.mode /\ k.from = j.from /\ k.usage = u
    BY DEF Journals

\* The part of the messages after the base.
LEMMA TailTyped ==
    ASSUME NEW X, NEW ms \in Seq(X), NEW b \in Seq(X)
    PROVE  SubSeq(ms, Len(b) + 1, Len(ms)) \in Seq(X)
<1> DEFINE k == Len(b) + 1
           n == Len(ms)
<1>1. k \in Nat /\ k >= 1 /\ n \in Nat
    OBVIOUS
<1>2. CASE k <= n + 1
  <2>1. k \in 1..(Len(ms) + 1)
    BY <1>1, <1>2
  <2> HIDE DEF k
  <2> QED
    BY <2>1, SuffixSeq DEF k
<1>3. CASE ~(k <= n + 1)
  <2> HIDE DEF k, n
  <2>1. SubSeq(ms, k, n) = << >>
    BY <1>1, <1>3
  <2> QED
    BY <2>1 DEF k, n
<1> QED
    BY <1>2, <1>3

\* The types the steps start from.
LEMMA Typed ==
    ASSUME TypeInv
    PROVE  /\ TypeOK /\ history \in Seq(Messages) /\ journal \in Journals /\ turn \in Turns
           /\ disk \in [msgs : Seq(Messages), ids : Seq(Ids)] /\ disk.msgs \in Seq(Messages) /\ disk.ids \in Seq(Ids)
           /\ ids \in Seq(Ids) /\ outcomes \in Seq(Messages)
           /\ journal.suffix \in Seq(Messages) /\ journal.usage \in SUBSET Gens /\ journal.from \in Nat
           /\ journal.mode \in {"none", "append", "replace"}
           /\ turn.base \in Seq(Messages) /\ turn.msgs \in Seq(Messages) /\ turn.ids \in Seq(Ids)
           /\ turn.user \in Messages /\ turn.mode \in {"append", "replace"}
           /\ counted \in [Gens -> Nat]
           /\ prompts \in Nat /\ prompts <= MaxPrompts /\ turns \in Nat /\ turns <= MaxTurns
           /\ gens \in Nat /\ gens <= MaxGens
<1>1. TypeOK /\ history \in Seq(Messages) /\ journal \in Journals /\ turn \in Turns
           /\ disk \in [msgs : Seq(Messages), ids : Seq(Ids)]
           /\ ids \in Seq(Ids) /\ outcomes \in Seq(Messages) /\ counted \in [Gens -> Nat]
    BY DEF TypeInv, TypeOK
<1>2. disk.msgs \in Seq(Messages) /\ disk.ids \in Seq(Ids)
    BY <1>1
<1>3. prompts \in 0..MaxPrompts /\ turns \in 0..MaxTurns /\ gens \in 0..MaxGens
    BY DEF TypeInv, TypeOK
<1>4. prompts \in Nat /\ prompts <= MaxPrompts /\ turns \in Nat /\ turns <= MaxTurns
      /\ gens \in Nat /\ gens <= MaxGens
    BY <1>3, Bounds
<1> QED
    BY <1>1, <1>2, <1>4, TurnFields, JournalFields

\* The type invariant holds initially.
LEMMA InitType == Init => TypeInv
<1> SUFFICES ASSUME Init PROVE TypeInv
    OBVIOUS
<1>1. TypeOK
    BY NoTurnTyped, NoJournalTyped, Bounds DEF Init, TypeOK, PCs
<1>2. ModeInv
    BY NoJournalTyped DEF Init, ModeInv, InTurn
<1>3. CallInv
    BY DEF Init, CallInv
<1> QED
    BY <1>1, <1>2, <1>3 DEF TypeInv

\* What each action does, with the types of what it writes: a prompt begins a turn.
LEMMA PromptEffect ==
    ASSUME TypeInv, Prompt
    PROVE  /\ pc = "idle" /\ pc' = "start" /\ prompts' = prompts + 1 /\ prompts + 1 \in 1..MaxPrompts
           /\ turns' \in 0..MaxTurns /\ ids' \in Seq(Ids) /\ ids' = Align(ids, UserTurnCount(history))
           /\ disk' \in [msgs : Seq(Messages), ids : Seq(Ids)]
           /\ disk'.msgs = Materialize(Append(history, User(prompts + 1)))
           /\ disk'.ids = Align(Append(ids', prompts + 1), UserTurnCount(disk'.msgs))
           /\ history' = Finalized /\ history' \in Seq(Messages)
           /\ counted' \in [Gens -> Nat]
           /\ journal' \in Journals /\ journal'.mode = "append" /\ journal'.suffix = <<User(prompts + 1)>>
           /\ turn' \in Turns /\ turn'.mode = "append" /\ turn'.user = User(prompts + 1)
           /\ turn'.user \in UserMessages /\ turn'.ids = Append(ids', prompts + 1) /\ turn'.reacted = FALSE
           /\ outcomes' = outcomes /\ gens' = gens /\ drops' = drops
           /\ started' = started /\ finished' = finished /\ gone' = gone /\ shifted' = shifted /\ torn' = torn
<1> DEFINE p == prompts + 1
           al == Align(ids, UserTurnCount(history))
           known == Append(al, p)
           ms == Append(history, User(p))
<1>0. /\ pc = "idle" /\ prompts < MaxPrompts /\ turns < MaxTurns
      /\ ids' = al /\ disk' = Recovery(ms, known) /\ history' = Finalized /\ AddUsage(journal.usage)
      /\ journal' = NewJournal("append", 0, User(p)) /\ turn' = [NoTurn EXCEPT !.user = User(p), !.ids = known]
      /\ prompts' = p /\ pc' = "start" /\ turns' = turns + 1
      /\ outcomes' = outcomes /\ gens' = gens /\ drops' = drops
      /\ started' = started /\ finished' = finished /\ gone' = gone /\ shifted' = shifted /\ torn' = torn
    BY DEF Prompt, ghosts
<1>1. p \in 1..MaxPrompts /\ turns + 1 \in 0..MaxTurns
  <2>1. prompts \in Nat /\ turns \in Nat
    BY Typed
  <2> QED
    BY <1>0, <2>1, Bounds
<1>2. al \in Seq(Ids)
    BY Typed, CountNat, Aligned
<1>3. known \in Seq(Ids)
  <2> HIDE DEF al, p
  <2> QED
    BY <1>1, <1>2, Appended, Bounds
<1>4. User(p) \in UserMessages /\ User(p) \in Messages
    BY <1>1, MessageMade
<1> HIDE DEF p, al
<1>5. ms \in Seq(Messages)
    BY <1>4, Typed, Appended
<1>6. Recovery(ms, known) \in [msgs : Seq(Messages), ids : Seq(Ids)]
      /\ Recovery(ms, known).msgs = Materialize(ms)
      /\ Recovery(ms, known).ids = Align(known, UserTurnCount(Materialize(ms)))
  <2> HIDE DEF ms, known
  <2> QED
    BY <1>3, <1>5, RecoveryTyped
<1>7. history' \in Seq(Messages)
    BY <1>0, Typed, FinalizedTyped
<1>8. counted' \in [Gens -> Nat]
    BY <1>0, Typed, UsageTyped
<1>9. journal' \in Journals /\ journal'.mode = "append" /\ journal'.suffix = <<User(p)>>
    BY <1>0, <1>4, NewJournalTyped
<1>10. turn' \in Turns /\ turn'.mode = "append" /\ turn'.user = User(p) /\ turn'.ids = known /\ turn'.reacted = FALSE
  <2> HIDE DEF known
  <2> QED
    BY <1>0, <1>3, <1>4, NoTurnTyped DEF Turns, NoTurn
<1> QED
    BY <1>0, <1>1, <1>2, <1>3, <1>4, <1>6, <1>7, <1>8, <1>9, <1>10 DEF p, al

\* A retry begins a turn.
LEMMA RetryEffect ==
    ASSUME TypeInv, Retry, NEW at, at = LastUserTurn(history)
    PROVE  /\ pc = "idle" /\ pc' = "attempt" /\ turns' \in 0..MaxTurns
           /\ at \in 1..Len(history) /\ IsUserTurn(history[at]) /\ history[at] \in Messages
           /\ \A j \in 1..Len(history) : j > at => ~IsUserTurn(history[j])
           /\ history' = Finalized /\ history' \in Seq(Messages)
           /\ counted' \in [Gens -> Nat]
           /\ journal' \in Journals /\ journal'.mode = "replace" /\ journal'.suffix = <<history[at]>>
           /\ journal'.from = at - 1
           /\ turn' \in Turns /\ turn'.mode = "replace" /\ turn'.user = history[at]
           /\ turn'.base = SubSeq(history, 1, at - 1) /\ turn'.ids = Align(ids, UserTurnCount(history))
           /\ turn'.reacted = FALSE
           /\ gone' = gone \cup (PromptsIn(Finalized) \ PromptsIn(history))
           /\ torn' = (torn \/ (journal.mode = "replace" /\ journal.from < at - 1))
           /\ ids' = ids /\ outcomes' = outcomes /\ disk' = disk /\ gens' = gens /\ prompts' = prompts
           /\ drops' = drops /\ started' = started /\ finished' = finished /\ shifted' = shifted
<1> DEFINE known == Align(ids, UserTurnCount(history))
           base == SubSeq(history, 1, at - 1)
<1>0. /\ pc = "idle" /\ turns < MaxTurns /\ at > 0
      /\ turn' = [NoTurn EXCEPT !.mode = "replace", !.user = history[at], !.base = base, !.ids = known]
      /\ journal' = NewJournal("replace", at - 1, history[at])
      /\ history' = Finalized /\ AddUsage(journal.usage)
      /\ gone' = gone \cup (PromptsIn(Finalized) \ PromptsIn(history))
      /\ torn' = (torn \/ (journal.mode = "replace" /\ journal.from < at - 1))
      /\ pc' = "attempt" /\ turns' = turns + 1
      /\ ids' = ids /\ outcomes' = outcomes /\ disk' = disk /\ gens' = gens /\ prompts' = prompts
      /\ drops' = drops /\ started' = started /\ finished' = finished /\ shifted' = shifted
    BY DEF Retry
<1>1. /\ at \in 0..Len(history) /\ (at > 0 => IsUserTurn(history[at]))
      /\ \A j \in 1..Len(history) : j > at => ~IsUserTurn(history[j])
    BY Typed, LastTurn
<1>2. history \in Seq(Messages) /\ Len(history) \in Nat
    BY Typed
<1>3. at \in 1..Len(history) /\ at - 1 \in 0..Len(history) /\ at - 1 \in Nat
    BY <1>0, <1>1, <1>2
<1>4. history[at] \in Messages
    BY <1>2, <1>3
<1>5. base \in Seq(Messages)
    BY <1>2, <1>3, PrefixSeq
<1>6. known \in Seq(Ids)
    BY Typed, CountNat, Aligned
<1>7. turn' \in Turns /\ turn'.mode = "replace" /\ turn'.user = history[at] /\ turn'.base = base /\ turn'.ids = known
      /\ turn'.reacted = FALSE
  <2> HIDE DEF base, known
  <2> QED
    BY <1>0, <1>4, <1>5, <1>6, NoTurnTyped DEF Turns, NoTurn
<1>8. journal' \in Journals /\ journal'.mode = "replace" /\ journal'.suffix = <<history[at]>> /\ journal'.from = at - 1
    BY <1>0, <1>3, <1>4, NewJournalTyped
<1>9. history' \in Seq(Messages)
    BY <1>0, Typed, FinalizedTyped
<1>10. counted' \in [Gens -> Nat]
    BY <1>0, Typed, UsageTyped
<1>11. turns' \in 0..MaxTurns
  <2>1. turns \in Nat
    BY Typed
  <2> QED
    BY <1>0, <2>1, Bounds
<1> QED
    BY <1>0, <1>1, <1>3, <1>4, <1>7, <1>8, <1>9, <1>10, <1>11

\* An attempt starts.
LEMMA AttemptEffect ==
    ASSUME TypeInv, Attempt, NEW base, base = IF turn.mode = "append" THEN history ELSE turn.base
    PROVE  /\ pc = "attempt" /\ pc' = "request" /\ base \in Seq(Messages)
           /\ turn' \in Turns /\ turn'.base = base /\ turn'.msgs = Append(base, turn.user)
           /\ Append(base, turn.user) \in Seq(Messages)
           /\ turn'.user = turn.user /\ turn'.mode = turn.mode /\ turn'.ids = turn.ids /\ turn'.reacted = turn.reacted
           /\ journal' \in Journals /\ journal'.suffix = <<turn.user>> /\ journal'.mode = journal.mode
           /\ journal'.from = journal.from
           /\ disk' \in [msgs : Seq(Messages), ids : Seq(Ids)] /\ disk'.msgs = Materialize(turn'.msgs)
           /\ disk'.ids = Align(turn.ids, UserTurnCount(disk'.msgs))
           /\ history' = history /\ counted' = counted /\ ids' = ids /\ outcomes' = outcomes /\ gens' = gens
           /\ prompts' = prompts /\ turns' = turns /\ drops' = drops
           /\ started' = started /\ finished' = finished /\ gone' = gone /\ shifted' = shifted /\ torn' = torn
<1> DEFINE ms == Append(base, turn.user)
<1>0. /\ pc = "attempt" /\ pc' = "request"
      /\ turn' = [turn EXCEPT !.base = base, !.msgs = ms]
      /\ journal' = [journal EXCEPT !.suffix = <<turn.user>>, !.usage = {}]
      /\ disk' = Recovery(ms, turn.ids)
      /\ history' = history /\ counted' = counted /\ ids' = ids /\ outcomes' = outcomes /\ gens' = gens
      /\ prompts' = prompts /\ turns' = turns /\ drops' = drops
      /\ started' = started /\ finished' = finished /\ gone' = gone /\ shifted' = shifted /\ torn' = torn
    BY DEF Attempt, ghosts, bounds
<1>1. base \in Seq(Messages) /\ turn.user \in Messages /\ turn \in Turns /\ journal \in Journals /\ turn.ids \in Seq(Ids)
    BY Typed
<1>2. ms \in Seq(Messages) /\ <<turn.user>> \in Seq(Messages)
    BY <1>1, Appended
<1> HIDE DEF ms
<1>3. turn' \in Turns /\ turn'.base = base /\ turn'.msgs = ms /\ turn'.user = turn.user /\ turn'.mode = turn.mode
      /\ turn'.ids = turn.ids /\ turn'.reacted = turn.reacted
    BY <1>0, <1>1, <1>2 DEF Turns
<1>4. journal' \in Journals /\ journal'.suffix = <<turn.user>> /\ journal'.mode = journal.mode /\ journal'.from = journal.from
    BY <1>0, <1>1, <1>2 DEF Journals
<1>5. disk' \in [msgs : Seq(Messages), ids : Seq(Ids)] /\ disk'.msgs = Materialize(ms)
      /\ disk'.ids = Align(turn.ids, UserTurnCount(disk'.msgs))
    BY <1>0, <1>1, <1>2, RecoveryTyped
<1> QED
    BY <1>0, <1>1, <1>2, <1>3, <1>4, <1>5 DEF ms

\* The loop goes on with ms.
LEMMA AgainEffect ==
    ASSUME TypeInv, NEW ms \in Seq(Messages), NEW t \in Turns, Again(ms, t)
    PROVE  /\ pc' = "request"
           /\ turn' \in Turns /\ turn'.msgs = ms /\ turn'.base = t.base /\ turn'.user = t.user
           /\ turn'.mode = t.mode /\ turn'.ids = t.ids /\ turn'.reacted = t.reacted
           /\ journal' \in Journals /\ journal'.mode = journal.mode /\ journal'.from = journal.from
           /\ journal'.suffix = SubSeq(ms, Len(turn.base) + 1, Len(ms))
           /\ disk' \in [msgs : Seq(Messages), ids : Seq(Ids)] /\ disk'.msgs = Materialize(ms)
           /\ disk'.ids = Align(turn.ids, UserTurnCount(disk'.msgs))
           /\ history' = history /\ counted' = counted /\ ids' = ids /\ outcomes' = outcomes /\ gens' = gens
           /\ prompts' = prompts /\ turns' = turns /\ drops' = drops
           /\ started' = started /\ finished' = finished /\ gone' = gone /\ torn' = torn
<1> DEFINE s == SubSeq(ms, Len(turn.base) + 1, Len(ms))
<1>0. /\ pc' = "request" /\ turn' = [t EXCEPT !.msgs = ms, !.stop = "none"]
      /\ journal' = [journal EXCEPT !.suffix = s] /\ disk' = Recovery(ms, turn.ids)
      /\ history' = history /\ counted' = counted /\ ids' = ids /\ outcomes' = outcomes /\ gens' = gens
      /\ prompts' = prompts /\ turns' = turns /\ drops' = drops
      /\ started' = started /\ finished' = finished /\ gone' = gone /\ torn' = torn
    BY DEF Again, Checkpoint, bounds
<1>1. turn.base \in Seq(Messages) /\ journal \in Journals /\ turn.ids \in Seq(Ids)
    BY Typed
<1>2. s \in Seq(Messages)
    BY <1>1, TailTyped
<1>3. turn' \in Turns /\ turn'.msgs = ms /\ turn'.base = t.base /\ turn'.user = t.user /\ turn'.mode = t.mode
      /\ turn'.ids = t.ids /\ turn'.reacted = t.reacted
    BY <1>0 DEF Turns
<1> HIDE DEF s
<1>4. journal' \in Journals /\ journal'.mode = journal.mode /\ journal'.from = journal.from /\ journal'.suffix = s
    BY <1>0, <1>1, <1>2, SuffixTyped
<1>5. disk' \in [msgs : Seq(Messages), ids : Seq(Ids)] /\ disk'.msgs = Materialize(ms)
      /\ disk'.ids = Align(turn.ids, UserTurnCount(disk'.msgs))
    BY <1>0, <1>1, RecoveryTyped
<1> QED
    BY <1>0, <1>3, <1>4, <1>5 DEF s

\* A response arrives.
LEMMA RespondEffect ==
    ASSUME TypeInv, NEW stop \in {"end", "max_tokens", "tool_use", "fatal", "overflow", "transient"},
           NEW ms \in Seq(Messages), Respond(stop, ms)
    PROVE  /\ pc = "request" /\ pc' = "settle" /\ gens' = gens + 1 /\ gens + 1 \in Gens /\ gens \in Nat
           /\ turn' \in Turns /\ turn'.msgs = ms /\ turn'.stop = stop /\ turn'.base = turn.base
           /\ turn'.user = turn.user /\ turn'.mode = turn.mode /\ turn'.ids = turn.ids /\ turn'.reacted = turn.reacted
           /\ journal' \in Journals /\ journal'.mode = journal.mode /\ journal'.from = journal.from
           /\ journal'.suffix = SubSeq(ms, Len(turn.base) + 1, Len(ms))
           /\ disk' \in [msgs : Seq(Messages), ids : Seq(Ids)]
           /\ ms = turn.msgs => disk' = disk
           /\ ms # turn.msgs => /\ disk'.msgs = Materialize(ms)
                                /\ disk'.ids = Align(turn.ids, UserTurnCount(disk'.msgs))
           /\ history' = history /\ counted' = counted /\ ids' = ids /\ outcomes' = outcomes
           /\ prompts' = prompts /\ turns' = turns /\ drops' = drops
           /\ started' = started /\ finished' = finished /\ gone' = gone /\ shifted' = shifted /\ torn' = torn
<1> DEFINE s == SubSeq(ms, Len(turn.base) + 1, Len(ms))
           u == journal.usage \cup {gens + 1}
<1>0. /\ pc = "request" /\ gens < MaxGens /\ gens' = gens + 1 /\ pc' = "settle"
      /\ turn' = [turn EXCEPT !.msgs = ms, !.stop = stop, !.retries = 0]
      /\ disk' = IF ms = turn.msgs THEN disk ELSE Recovery(ms, turn.ids)
      /\ history' = history /\ counted' = counted /\ ids' = ids /\ outcomes' = outcomes
      /\ prompts' = prompts /\ turns' = turns /\ drops' = drops
      /\ started' = started /\ finished' = finished /\ gone' = gone /\ shifted' = shifted /\ torn' = torn
    BY DEF Respond, bounds
<1>1. journal' = [journal EXCEPT !.usage = u, !.suffix = s]
    BY DEF Respond
<1>2. gens \in Nat /\ gens + 1 \in Gens
  <2>1. gens \in Nat
    BY Typed
  <2> QED
    BY <1>0, <2>1, Bounds DEF Gens
<1>3. turn.base \in Seq(Messages) /\ journal \in Journals /\ turn.ids \in Seq(Ids) /\ journal.usage \in SUBSET Gens /\ turn \in Turns
      /\ disk \in [msgs : Seq(Messages), ids : Seq(Ids)]
    BY Typed
<1>4. s \in Seq(Messages) /\ u \in SUBSET Gens
    BY <1>2, <1>3, TailTyped
<1>5. turn' \in Turns /\ turn'.msgs = ms /\ turn'.stop = stop /\ turn'.base = turn.base /\ turn'.user = turn.user
      /\ turn'.mode = turn.mode /\ turn'.ids = turn.ids /\ turn'.reacted = turn.reacted
    BY <1>0, <1>3 DEF Turns
<1> HIDE DEF s, u
<1>6. journal' \in Journals /\ journal'.mode = journal.mode /\ journal'.from = journal.from /\ journal'.suffix = s
    BY <1>1, <1>3, <1>4 DEF Journals
<1>7. Recovery(ms, turn.ids) \in [msgs : Seq(Messages), ids : Seq(Ids)] /\ Recovery(ms, turn.ids).msgs = Materialize(ms)
      /\ Recovery(ms, turn.ids).ids = Align(turn.ids, UserTurnCount(Materialize(ms)))
    BY <1>3, RecoveryTyped
<1> QED
    BY <1>0, <1>2, <1>3, <1>5, <1>6, <1>7 DEF s

\* The run returns.
LEMMA ReturnEffect ==
    ASSUME TypeInv, NEW ms \in Seq(Messages), Return(ms)
    PROVE  /\ turn' \in Turns /\ turn'.msgs = ms /\ turn'.base = turn.base /\ turn'.user = turn.user
           /\ turn'.mode = turn.mode /\ turn'.ids = turn.ids
           /\ \/ /\ pc' = "compact" /\ turn.mode = "append" /\ turn'.reacted = TRUE /\ journal'.suffix = <<turn.user>>
              \/ pc' = "staged" /\ journal' = journal
           /\ journal' \in Journals /\ journal'.mode = journal.mode /\ journal'.from = journal.from
           /\ counted' \in [Gens -> Nat]
           /\ history' = history /\ ids' = ids /\ outcomes' = outcomes /\ disk' = disk /\ gens' = gens
           /\ prompts' = prompts /\ turns' = turns /\ drops' = drops
           /\ started' = started /\ finished' = finished /\ gone' = gone /\ shifted' = shifted /\ torn' = torn
<1>0. /\ AddUsage(journal.usage)
      /\ history' = history /\ ids' = ids /\ outcomes' = outcomes /\ disk' = disk /\ gens' = gens
      /\ prompts' = prompts /\ turns' = turns /\ drops' = drops
      /\ started' = started /\ finished' = finished /\ gone' = gone /\ shifted' = shifted /\ torn' = torn
    BY DEF Return, bounds, ghosts
<1>1. journal \in Journals /\ turn \in Turns /\ journal.usage \in SUBSET Gens /\ <<turn.user>> \in Seq(Messages) /\ {} \in SUBSET Gens
    BY Typed
<1>2. counted' \in [Gens -> Nat]
    BY <1>0, Typed, UsageTyped
<1>3. CASE turn.stop = "overflow" /\ turn.mode = "append" /\ ~turn.reacted
  <2>1. /\ journal' = [journal EXCEPT !.suffix = <<turn.user>>, !.usage = {}]
        /\ turn' = [turn EXCEPT !.msgs = ms, !.reacted = TRUE, !.spent = journal.usage]
        /\ pc' = "compact"
    BY <1>3 DEF Return
  <2>2. journal' \in Journals /\ journal'.mode = journal.mode /\ journal'.from = journal.from /\ journal'.suffix = <<turn.user>>
    BY <1>1, <2>1 DEF Journals
  <2>3. turn' \in Turns /\ turn'.msgs = ms /\ turn'.base = turn.base /\ turn'.user = turn.user /\ turn'.mode = turn.mode
        /\ turn'.ids = turn.ids /\ turn'.reacted = TRUE
    BY <1>1, <2>1 DEF Turns
  <2> QED
    BY <1>0, <1>2, <1>3, <2>1, <2>2, <2>3
<1>4. CASE ~(turn.stop = "overflow" /\ turn.mode = "append" /\ ~turn.reacted)
  <2>1. turn' = [turn EXCEPT !.msgs = ms] /\ pc' = "staged" /\ journal' = journal
    BY <1>4 DEF Return
  <2>2. turn' \in Turns /\ turn'.msgs = ms /\ turn'.base = turn.base /\ turn'.user = turn.user /\ turn'.mode = turn.mode
        /\ turn'.ids = turn.ids
    BY <1>1, <2>1 DEF Turns
  <2> QED
    BY <1>0, <1>1, <1>2, <2>1, <2>2
<1> QED
    BY <1>3, <1>4

\* The history is repaired.
LEMMA RepairEffect ==
    ASSUME TypeInv, Repair
    PROVE  /\ pc = "start" /\ pc' \in {"attempt", "compact"}
           /\ history' = CloseOrphans(history) /\ history' \in Seq(Messages)
           /\ journal' = journal /\ counted' = counted /\ ids' = ids /\ outcomes' = outcomes /\ disk' = disk
           /\ turn' = turn /\ gens' = gens /\ prompts' = prompts /\ turns' = turns /\ drops' = drops
           /\ started' = started /\ finished' = finished /\ gone' = gone /\ shifted' = shifted /\ torn' = torn
<1>1. CloseOrphans(history) \in Seq(Messages)
    BY Typed, CloseTyped
<1> QED
    BY <1>1 DEF Repair, bounds, ghosts

\* There is nothing to cut.
LEMMA NothingEffect ==
    ASSUME TypeInv, NothingToCut
    PROVE  /\ pc = "compact"
           /\ \/ ~turn.reacted /\ pc' = "attempt" /\ journal' = journal
              \/ /\ turn.reacted /\ pc' = "staged"
                 /\ journal'.suffix = SubSeq(turn.msgs, Len(turn.base) + 1, Len(turn.msgs))
           /\ journal' \in Journals /\ journal'.mode = journal.mode /\ journal'.from = journal.from
           /\ history' = history /\ counted' = counted /\ ids' = ids /\ outcomes' = outcomes /\ disk' = disk
           /\ turn' = turn /\ gens' = gens /\ prompts' = prompts /\ turns' = turns /\ drops' = drops
           /\ started' = started /\ finished' = finished /\ gone' = gone /\ shifted' = shifted /\ torn' = torn
<1> DEFINE s == SubSeq(turn.msgs, Len(turn.base) + 1, Len(turn.msgs))
<1>0. /\ pc = "compact"
      /\ history' = history /\ counted' = counted /\ ids' = ids /\ outcomes' = outcomes /\ disk' = disk
      /\ turn' = turn /\ gens' = gens /\ prompts' = prompts /\ turns' = turns /\ drops' = drops
      /\ started' = started /\ finished' = finished /\ gone' = gone /\ shifted' = shifted /\ torn' = torn
    BY DEF NothingToCut, bounds, ghosts
<1>1. journal \in Journals /\ turn.spent \in SUBSET Gens
    BY Typed, TurnFields
<1>2. s \in Seq(Messages)
    BY Typed, TailTyped
<1>3. CASE turn.reacted
  <2>1. journal' = [journal EXCEPT !.suffix = s, !.usage = turn.spent] /\ pc' = "staged"
    BY <1>3 DEF NothingToCut, RestoreJournal
  <2> HIDE DEF s
  <2>2. journal' \in Journals /\ journal'.mode = journal.mode /\ journal'.from = journal.from /\ journal'.suffix = s
    BY <1>1, <1>2, <2>1 DEF Journals
  <2> QED
    BY <1>0, <1>3, <2>1, <2>2 DEF s
<1>4. CASE ~turn.reacted
    BY <1>0, <1>1, <1>4 DEF NothingToCut
<1> QED
    BY <1>3, <1>4

\* A summary counted in the turn's locals.
LEMMA SummariesTyped ==
    ASSUME NEW t \in Turns, NEW v \in {0, 1}, NEW u, u = [t EXCEPT !.summaries = v]
    PROVE  /\ u \in Turns /\ u.user = t.user /\ u.mode = t.mode /\ u.ids = t.ids
           /\ u.base = t.base /\ u.msgs = t.msgs /\ u.reacted = t.reacted
    BY DEF Turns

\* A summary call, with or without its cut.
LEMMA SummarizeEffect ==
    ASSUME TypeInv, Summarize
    PROVE  /\ pc = "compact" /\ gens' = gens + 1 /\ gens + 1 \in Gens
           /\ turn' \in Turns /\ turn'.user = turn.user /\ turn'.mode = turn.mode /\ turn'.ids = turn.ids
           /\ turn'.base = turn.base /\ turn'.msgs = turn.msgs /\ turn'.reacted = turn.reacted
           /\ \/ pc' = "compact" /\ history' = history /\ gone' = gone
              \/ /\ pc' = "attempt" /\ gone' = gone \cup (PromptsIn(history) \ PromptsIn(history'))
                 /\ \E cut \in 2..Len(history) : /\ IsTurnStart(history[cut])
                                                 /\ history' = <<Summary>> \o SubSeq(history, cut, Len(history))
           /\ history' \in Seq(Messages)
           /\ counted' \in [Gens -> Nat]
           /\ journal' = journal /\ ids' = ids /\ outcomes' = outcomes /\ disk' = disk
           /\ prompts' = prompts /\ turns' = turns /\ drops' = drops
           /\ started' = started /\ finished' = finished /\ shifted' = shifted /\ torn' = torn
<1>0. /\ pc = "compact" /\ gens < MaxGens /\ gens' = gens + 1 /\ AddUsage({gens + 1})
      /\ journal' = journal /\ ids' = ids /\ outcomes' = outcomes /\ disk' = disk
      /\ prompts' = prompts /\ turns' = turns /\ drops' = drops
      /\ started' = started /\ finished' = finished /\ shifted' = shifted /\ torn' = torn
    BY DEF Summarize, bounds
<1>1. gens + 1 \in Gens
  <2>1. gens \in Nat
    BY Typed
  <2> QED
    BY <1>0, <2>1, Bounds DEF Gens
<1>2. counted' \in [Gens -> Nat]
    BY <1>0, Typed, UsageTyped
<1>3. turn \in Turns /\ history \in Seq(Messages)
    BY Typed
<1>4. CASE turn' = [turn EXCEPT !.summaries = 1] /\ history' = history /\ pc' = pc /\ gone' = gone
  <2>1. turn' \in Turns /\ turn'.user = turn.user /\ turn'.mode = turn.mode /\ turn'.ids = turn.ids
           /\ turn'.base = turn.base /\ turn'.msgs = turn.msgs /\ turn'.reacted = turn.reacted
    BY <1>3, <1>4, SummariesTyped
  <2> QED
    BY <1>0, <1>1, <1>2, <1>3, <1>4, <2>1
<1>5. ASSUME NEW cut \in Cuts,
             /\ history' = <<Summary>> \o SubSeq(history, cut, Len(history))
             /\ gone' = gone \cup (PromptsIn(history) \ PromptsIn(history'))
             /\ turn' = [turn EXCEPT !.summaries = 0]
             /\ pc' = "attempt"
      PROVE  /\ turn' \in Turns /\ turn'.user = turn.user /\ turn'.mode = turn.mode /\ turn'.ids = turn.ids
             /\ turn'.base = turn.base /\ turn'.msgs = turn.msgs /\ turn'.reacted = turn.reacted
             /\ pc' = "attempt" /\ gone' = gone \cup (PromptsIn(history) \ PromptsIn(history'))
             /\ \E c \in 2..Len(history) : /\ IsTurnStart(history[c])
                                           /\ history' = <<Summary>> \o SubSeq(history, c, Len(history))
             /\ history' \in Seq(Messages)
  <2>1. turn' \in Turns /\ turn'.user = turn.user /\ turn'.mode = turn.mode /\ turn'.ids = turn.ids
           /\ turn'.base = turn.base /\ turn'.msgs = turn.msgs /\ turn'.reacted = turn.reacted
    BY <1>3, <1>5, SummariesTyped
  <2>2. cut \in 2..Len(history) /\ IsTurnStart(history[cut])
    BY DEF Cuts
  <2>3. Summary \in Messages
    BY MessageMade
  <2>4. cut \in 1..(Len(history) + 1)
    BY <1>3, <2>2
  <2>5. SubSeq(history, cut, Len(history)) \in Seq(Messages)
    BY <1>3, <2>4, SuffixSeq
  <2>6. <<Summary>> \o SubSeq(history, cut, Len(history)) \in Seq(Messages)
    BY <2>3, <2>5, Concat
  <2> QED
    BY <1>5, <2>1, <2>2, <2>6
<1>6. \/ turn' = [turn EXCEPT !.summaries = 1] /\ history' = history /\ pc' = pc /\ gone' = gone
      \/ \E cut \in Cuts :
             /\ history' = <<Summary>> \o SubSeq(history, cut, Len(history))
             /\ gone' = gone \cup (PromptsIn(history) \ PromptsIn(history'))
             /\ turn' = [turn EXCEPT !.summaries = 0]
             /\ pc' = "attempt"
    BY DEF Summarize
<1>7. CASE \E cut \in Cuts :
             /\ history' = <<Summary>> \o SubSeq(history, cut, Len(history))
             /\ gone' = gone \cup (PromptsIn(history) \ PromptsIn(history'))
             /\ turn' = [turn EXCEPT !.summaries = 0]
             /\ pc' = "attempt"
    BY <1>0, <1>1, <1>2, <1>5, <1>7
<1> QED
    BY <1>4, <1>6, <1>7

\* A retry inside the generation.
LEMMA GenerationEffect ==
    ASSUME TypeInv, RetryGeneration
    PROVE  /\ pc = "request" /\ pc' = "request"
           /\ turn' \in Turns /\ turn'.user = turn.user /\ turn'.mode = turn.mode /\ turn'.ids = turn.ids
           /\ turn'.base = turn.base /\ turn'.msgs = turn.msgs /\ turn'.reacted = turn.reacted
           /\ history' = history /\ journal' = journal
           /\ counted' = counted /\ ids' = ids /\ outcomes' = outcomes /\ disk' = disk
           /\ gens' = gens /\ prompts' = prompts /\ turns' = turns /\ drops' = drops
           /\ started' = started /\ finished' = finished /\ gone' = gone /\ shifted' = shifted /\ torn' = torn
<1>0. /\ pc = "request" /\ pc' = "request" /\ turn' = [turn EXCEPT !.retries = @ + 1]
      /\ history' = history /\ journal' = journal
           /\ counted' = counted /\ ids' = ids /\ outcomes' = outcomes /\ disk' = disk
           /\ gens' = gens /\ prompts' = prompts /\ turns' = turns /\ drops' = drops
           /\ started' = started /\ finished' = finished /\ gone' = gone /\ shifted' = shifted /\ torn' = torn
    BY DEF RetryGeneration, bounds, ghosts
<1>1. turn \in Turns /\ turn.retries + 1 \in Nat
    BY Typed, TurnFields
<1> DEFINE r == turn.retries + 1
<1>3. turn' = [turn EXCEPT !.retries = r]
    BY <1>0, <1>1 DEF Turns
<1> HIDE DEF r
<1>2. turn' \in Turns /\ turn'.user = turn.user /\ turn'.mode = turn.mode /\ turn'.ids = turn.ids
           /\ turn'.base = turn.base /\ turn'.msgs = turn.msgs /\ turn'.reacted = turn.reacted
  <2>1. r \in Nat
    BY <1>1 DEF r
  <2> QED
    BY <1>1, <1>3, <2>1 DEF Turns
<1> QED
    BY <1>0, <1>2

\* A batch begins.
LEMMA ToolUseEffect ==
    ASSUME TypeInv, ToolUseArm
    PROVE  /\ pc = "settle" /\ turn.stop = "tool_use" /\ pc' = "tools"
           /\ turn' \in Turns /\ turn'.user = turn.user /\ turn'.mode = turn.mode /\ turn'.ids = turn.ids
           /\ turn'.base = turn.base /\ turn'.msgs = turn.msgs /\ turn'.reacted = turn.reacted
           /\ turn.msgs # << >> /\ turn'.left = Calls /\ turn'.results = {} /\ turn'.running = FALSE
           /\ history' = history /\ journal' = journal
           /\ counted' = counted /\ ids' = ids /\ outcomes' = outcomes /\ disk' = disk
           /\ gens' = gens /\ prompts' = prompts /\ turns' = turns /\ drops' = drops
           /\ started' = started /\ finished' = finished /\ gone' = gone /\ shifted' = shifted /\ torn' = torn
<1>0. /\ pc = "settle" /\ turn.stop = "tool_use" /\ pc' = "tools"
      /\ turn' = [turn EXCEPT !.left = Last(turn.msgs).calls, !.running = FALSE, !.results = {}, !.terminate = FALSE]
      /\ history' = history /\ journal' = journal
           /\ counted' = counted /\ ids' = ids /\ outcomes' = outcomes /\ disk' = disk
           /\ gens' = gens /\ prompts' = prompts /\ turns' = turns /\ drops' = drops
           /\ started' = started /\ finished' = finished /\ gone' = gone /\ shifted' = shifted /\ torn' = torn
    BY DEF ToolUseArm, bounds, ghosts
<1>1. turn \in Turns /\ turn.msgs \in Seq(Messages)
    BY Typed
<1>2. turn.msgs # << >> /\ turn.msgs[Len(turn.msgs)].kind = "assistant"
    BY <1>0 DEF TypeInv, CallInv
<1>3. turn.msgs[Len(turn.msgs)] \in Messages
    BY <1>1, <1>2
<1>4. Last(turn.msgs).calls = Calls /\ Calls \in SUBSET CallIds
    BY <1>2, <1>3, MessageKinds DEF Last, Calls, Makes
<1>5. turn' \in Turns /\ turn'.user = turn.user /\ turn'.mode = turn.mode /\ turn'.ids = turn.ids
           /\ turn'.base = turn.base /\ turn'.msgs = turn.msgs /\ turn'.reacted = turn.reacted
           /\ turn'.left = Calls /\ turn'.results = {} /\ turn'.running = FALSE
    BY <1>0, <1>1, <1>4 DEF Turns
<1> QED
    BY <1>0, <1>2, <1>5

\* A result is journalled.
LEMMA RecordEffect ==
    ASSUME TypeInv, NEW c \in turn.left, NEW outcome \in Says, NEW terminate,
           RecordResult(c, outcome, terminate)
    PROVE  /\ turn' \in Turns /\ turn'.user = turn.user /\ turn'.mode = turn.mode /\ turn'.ids = turn.ids
           /\ turn'.base = turn.base /\ turn'.msgs = turn.msgs /\ turn'.reacted = turn.reacted
           /\ turn'.left = turn.left \ {c} /\ turn'.results = turn.results \cup {<<c, outcome>>}
           /\ turn'.running = FALSE
           /\ Append(turn.msgs, Results(turn'.results)) \in Seq(Messages)
           /\ journal' \in Journals /\ journal'.mode = journal.mode /\ journal'.from = journal.from
           /\ journal'.suffix = SubSeq(Append(turn.msgs, Results(turn'.results)), Len(turn.base) + 1,
                                       Len(Append(turn.msgs, Results(turn'.results))))
           /\ disk' \in [msgs : Seq(Messages), ids : Seq(Ids)]
           /\ disk'.msgs = Materialize(Append(turn.msgs, Results(turn'.results)))
           /\ disk'.ids = Align(turn.ids, UserTurnCount(disk'.msgs))
<1> DEFINE res == turn.results \cup {<<c, outcome>>}
           ms == Append(turn.msgs, Results(res))
           s == SubSeq(ms, Len(turn.base) + 1, Len(ms))
<1>0. /\ turn' = [turn EXCEPT !.results = res, !.left = @ \ {c}, !.running = FALSE,
                                !.terminate = @ \/ terminate]
      /\ journal' = [journal EXCEPT !.suffix = s] /\ disk' = Recovery(ms, turn.ids)
    BY DEF RecordResult, Checkpoint
<1>1. /\ turn \in Turns /\ turn.msgs \in Seq(Messages) /\ turn.base \in Seq(Messages) /\ turn.ids \in Seq(Ids)
      /\ journal \in Journals
    BY Typed
<1>2. turn.left \in SUBSET CallIds /\ turn.results \in SUBSET (CallIds \X Says) /\ turn.terminate \in BOOLEAN
    BY <1>1, TurnFields
<1>3. res \in SUBSET (CallIds \X Says)
    BY <1>2
<1> HIDE DEF res
<1>4. Results(res) \in Messages
    BY <1>3, MessageMade
<1>5. ms \in Seq(Messages)
    BY <1>1, <1>4, Appended
<1> HIDE DEF ms
<1>6. s \in Seq(Messages)
    BY <1>1, <1>5, TailTyped
<1> HIDE DEF s
<1>7. /\ turn' \in Turns /\ turn'.user = turn.user /\ turn'.mode = turn.mode /\ turn'.ids = turn.ids
      /\ turn'.base = turn.base /\ turn'.msgs = turn.msgs /\ turn'.reacted = turn.reacted
      /\ turn'.left = turn.left \ {c} /\ turn'.results = res /\ turn'.running = FALSE
  <2>1. turn.left \ {c} \in SUBSET CallIds /\ (turn.terminate \/ terminate) \in BOOLEAN
    BY <1>2
  <2> QED
    BY <1>0, <1>1, <1>3, <2>1 DEF Turns
<1>8. journal' \in Journals /\ journal'.mode = journal.mode /\ journal'.from = journal.from /\ journal'.suffix = s
    BY <1>0, <1>1, <1>6, SuffixTyped
<1>9. disk' \in [msgs : Seq(Messages), ids : Seq(Ids)] /\ disk'.msgs = Materialize(ms)
      /\ disk'.ids = Align(turn.ids, UserTurnCount(disk'.msgs))
    BY <1>0, <1>1, <1>5, RecoveryTyped
<1> QED
    BY <1>5, <1>7, <1>8, <1>9 DEF res, ms, s

\* A tool starts.
LEMMA StartEffect ==
    ASSUME TypeInv, ToolStart
    PROVE  /\ pc = "tools" /\ pc' = "tools" /\ ~turn.running
           /\ \E c \in turn.left : IsNext(c) /\ started' = started \cup {c}
           /\ turn' \in Turns /\ turn'.user = turn.user /\ turn'.mode = turn.mode /\ turn'.ids = turn.ids
           /\ turn'.base = turn.base /\ turn'.msgs = turn.msgs /\ turn'.reacted = turn.reacted
           /\ turn'.left = turn.left /\ turn'.results = turn.results /\ turn'.running = TRUE
           /\ history' = history /\ journal' = journal
           /\ counted' = counted /\ ids' = ids /\ outcomes' = outcomes /\ disk' = disk
           /\ gens' = gens /\ prompts' = prompts /\ turns' = turns /\ drops' = drops
           /\ finished' = finished /\ gone' = gone /\ shifted' = shifted /\ torn' = torn
<1>0. /\ pc = "tools" /\ pc' = "tools" /\ ~turn.running
      /\ \E c \in turn.left : IsNext(c) /\ started' = started \cup {c}
      /\ turn' = [turn EXCEPT !.running = TRUE]
      /\ history' = history /\ journal' = journal
           /\ counted' = counted /\ ids' = ids /\ outcomes' = outcomes /\ disk' = disk
           /\ gens' = gens /\ prompts' = prompts /\ turns' = turns /\ drops' = drops
           /\ finished' = finished /\ gone' = gone /\ shifted' = shifted /\ torn' = torn
    BY DEF ToolStart, bounds
<1>1. turn \in Turns
    BY Typed
<1>2. turn' \in Turns /\ turn'.user = turn.user /\ turn'.mode = turn.mode /\ turn'.ids = turn.ids
           /\ turn'.base = turn.base /\ turn'.msgs = turn.msgs /\ turn'.reacted = turn.reacted
           /\ turn'.left = turn.left /\ turn'.results = turn.results /\ turn'.running = TRUE
    BY <1>0, <1>1 DEF Turns
<1> QED
    BY <1>0, <1>2

\* The turn ends with the history h.
LEMMA EpilogueEffect ==
    ASSUME TypeInv, InTurn, NEW h \in Seq(Messages), Epilogue(h)
    PROVE  /\ history' \in Seq(Messages) /\ ids' \in Seq(Ids) /\ outcomes' \in Seq(Messages)
           /\ journal' = NoJournal /\ turn' = NoTurn /\ pc' = "saving"
           /\ turn.mode = "append" => /\ history' = WithPrefix(h)
                                      /\ ids' = Align(Append(ids, turn.user.of), UserTurnCount(h))
           /\ turn.mode # "append" => history' = h /\ ids' = ids
<1>0. /\ journal' = NoJournal /\ turn' = NoTurn /\ pc' = "saving"
    BY DEF Epilogue
<1>1. turn.user \in Messages /\ ids \in Seq(Ids) /\ outcomes \in Seq(Messages)
    BY Typed
<1>2. UserTurnCount(h) \in Nat
    BY CountNat
<1>3. CASE turn.mode = "append"
  <2> DEFINE n == UserTurnCount(h)
             before == IF n = 0 THEN 0 ELSE n - 1
             o == IF Len(outcomes) > before THEN Align(outcomes, before) ELSE outcomes
  <2>1. /\ history' = WithPrefix(h) /\ ids' = Align(Append(ids, turn.user.of), n)
        /\ outcomes' = Append(o, turn.user)
    BY <1>3 DEF Epilogue
  <2>2. turn.user \in UserMessages
    BY <1>3 DEF TypeInv, ModeInv
  <2>3. turn.user.of \in Ids
    BY <2>2, Bounds DEF UserMessages
  <2>4. before \in Nat
    BY <1>2
  <2>5. o \in Seq(Messages)
    <3> HIDE DEF before
    <3> QED
      BY <1>1, <2>4, Trimmed
  <2> HIDE DEF n, o
  <2>6. Append(ids, turn.user.of) \in Seq(Ids)
    BY <1>1, <2>3, Appended
  <2>7. Align(Append(ids, turn.user.of), n) \in Seq(Ids)
    BY <1>2, <2>6, Aligned DEF n
  <2>8. Append(o, turn.user) \in Seq(Messages)
    BY <1>1, <2>5, Appended
  <2>9. WithPrefix(h) \in Seq(Messages)
    BY PrefixTyped
  <2> QED
    BY <1>0, <1>3, <2>1, <2>7, <2>8, <2>9 DEF n
<1>4. CASE turn.mode # "append"
  <2> DEFINE o == IF outcomes = << >> THEN outcomes ELSE Front(outcomes)
  <2>1. history' = h /\ ids' = ids /\ outcomes' = Append(o, turn.user)
    BY <1>4 DEF Epilogue
  <2>2. o \in Seq(Messages)
    BY <1>1 DEF Front
  <2> HIDE DEF o
  <2>3. Append(o, turn.user) \in Seq(Messages)
    BY <1>1, <2>2, Appended
  <2> QED
    BY <1>0, <1>1, <1>4, <2>1, <2>3
<1> QED
    BY <1>3, <1>4

\* The history is truncated at a user turn.
LEMMA TruncateEffect ==
    ASSUME TypeInv, Truncate
    PROVE  /\ pc \in {"idle", "saving"} /\ pc' = "saving"
           /\ \E k \in 1..UserTurnCount(history), at \in DOMAIN history :
                /\ IsUserTurn(history[at]) /\ UserTurnCount(SubSeq(history, 1, at)) = k
                /\ history' = SubSeq(history, 1, at - 1)
                /\ ids' = SubSeq(Align(ids, UserTurnCount(history)), 1, k - 1)
           /\ history' \in Seq(Messages) /\ ids' \in Seq(Ids) /\ outcomes' \in Seq(Messages)
           /\ gone' = gone \cup (PromptsIn(history) \ PromptsIn(history'))
           /\ journal' = journal /\ turn' = turn /\ counted' = counted /\ disk' = disk
           /\ gens' = gens /\ prompts' = prompts /\ turns' = turns /\ drops' = drops
           /\ started' = started /\ finished' = finished /\ shifted' = shifted /\ torn' = torn
<1> DEFINE n == UserTurnCount(history)
           known == Align(ids, n)
<1>0. /\ pc \in {"idle", "saving"} /\ pc' = "saving"
      /\ journal' = journal /\ turn' = turn /\ counted' = counted /\ disk' = disk
           /\ gens' = gens /\ prompts' = prompts /\ turns' = turns /\ drops' = drops
           /\ started' = started /\ finished' = finished /\ shifted' = shifted /\ torn' = torn
    BY DEF Truncate, bounds
<1>1. PICK k \in DOMAIN known :
             /\ \E at \in DOMAIN history :
                  /\ IsUserTurn(history[at]) /\ UserTurnCount(SubSeq(history, 1, at)) = k
                  /\ history' = SubSeq(history, 1, at - 1)
             /\ ids' = SubSeq(known, 1, k - 1)
             /\ outcomes' = Truncated(outcomes, k - 1)
             /\ gone' = gone \cup (PromptsIn(history) \ PromptsIn(history'))
    BY DEF Truncate
<1>2. PICK at \in DOMAIN history :
                  /\ IsUserTurn(history[at]) /\ UserTurnCount(SubSeq(history, 1, at)) = k
                  /\ history' = SubSeq(history, 1, at - 1)
    BY <1>1
<1>3. history \in Seq(Messages) /\ ids \in Seq(Ids) /\ outcomes \in Seq(Messages) /\ n \in Nat
    BY Typed, CountNat
<1>4. known \in Seq(Ids) /\ Len(known) = n
  <2> HIDE DEF n
  <2> QED
    BY <1>3, Aligned
<1> HIDE DEF n, known
<1>5. k \in 1..n /\ k - 1 \in Nat /\ k - 1 \in 0..Len(known)
  <2>1. k \in 1..Len(known)
    BY <1>4
  <2> QED
    BY <1>3, <1>4, <2>1
<1>6. at - 1 \in 0..Len(history)
    BY <1>3
<1>7. history' \in Seq(Messages)
    BY <1>2, <1>3, <1>6, PrefixSeq
<1>8. ids' \in Seq(Ids)
    BY <1>1, <1>4, <1>5, PrefixSeq
<1>9. outcomes' \in Seq(Messages)
    BY <1>1, <1>3, <1>5, TruncatedTyped
<1>10. \E kk \in 1..n, a \in DOMAIN history :
                /\ IsUserTurn(history[a]) /\ UserTurnCount(SubSeq(history, 1, a)) = kk
                /\ history' = SubSeq(history, 1, a - 1)
                /\ ids' = SubSeq(known, 1, kk - 1)
    BY <1>1, <1>2, <1>5
<1> QED
    BY <1>0, <1>1, <1>7, <1>8, <1>9, <1>10 DEF n, known

\* The history is cleared.
LEMMA ClearEffect ==
    ASSUME TypeInv, Clear
    PROVE  /\ pc = "idle" /\ pc' = "saving" /\ history' = << >> /\ ids' = << >> /\ outcomes' = << >>
           /\ journal' = NoJournal /\ gone' = 1..prompts
           /\ turn' = turn /\ counted' = counted /\ disk' = disk
           /\ gens' = gens /\ prompts' = prompts /\ turns' = turns /\ drops' = drops
           /\ started' = started /\ finished' = finished /\ shifted' = shifted /\ torn' = torn
    BY DEF Clear, bounds

\* The process restarts.
LEMMA RestartEffect ==
    ASSUME TypeInv, Restart
    PROVE  /\ pc' = "idle" /\ history' = CloseOrphans(disk.msgs) /\ history' \in Seq(Messages)
           /\ ids' = Align(disk.ids, UserTurnCount(disk.msgs)) /\ ids' \in Seq(Ids)
           /\ outcomes' = << >> /\ journal' = NoJournal /\ turn' = NoTurn
           /\ counted' \in [Gens -> Nat]
           /\ gone' = IF drops > 0 THEN (1..prompts) \ PromptsIn(disk.msgs) ELSE gone
           /\ disk' = disk /\ gens' = gens /\ prompts' = prompts /\ turns' = turns /\ drops' = drops
           /\ started' = started /\ finished' = finished /\ shifted' = shifted /\ torn' = torn
<1>1. CloseOrphans(disk.msgs) \in Seq(Messages)
    BY Typed, CloseTyped
<1>2. Align(disk.ids, UserTurnCount(disk.msgs)) \in Seq(Ids)
    BY Typed, CountNat, Aligned
<1>3. [g \in Gens |-> 0] \in [Gens -> Nat]
    OBVIOUS
<1> QED
    BY <1>1, <1>2, <1>3 DEF Restart

\* Types and modes after a step within a turn.
LEMMA InTurnStep ==
    ASSUME TypeInv, InTurn, pc' \in PCs \ {"idle", "saving", "start"},
           history' \in Seq(Messages), journal' \in Journals, turn' \in Turns,
           disk' \in [msgs : Seq(Messages), ids : Seq(Ids)], ids' = ids, outcomes' = outcomes,
           counted' \in [Gens -> Nat], started' \subseteq CallIds, finished' \subseteq started',
           gens' \in 0..MaxGens, prompts' = prompts, turns' = turns,
           journal'.mode = journal.mode, turn'.mode = turn.mode, turn'.user = turn.user,
           pc' \in {"start", "compact"} => turn.mode = "append",
           pc' \in {"start", "attempt", "compact"} => journal'.suffix = <<turn.user>>
    PROVE  TypeOK' /\ ModeInv'
<1>1. journal.mode = turn.mode /\ IsUserTurn(turn.user) /\ (turn.mode = "append" => turn.user \in UserMessages)
    BY DEF TypeInv, ModeInv
<1>2. journal'.mode \in {"append", "replace"}
    BY <1>1, Typed
<1>3. journal' # NoJournal
    BY <1>2, NoJournalTyped
<1>4. TypeOK'
    BY <1>3 DEF TypeInv, TypeOK
<1>5. ModeInv'
    BY <1>1, <1>2 DEF ModeInv, InTurn
<1> QED
    BY <1>4, <1>5

\* Calls and generations after a step that concerns no call.
LEMMA QuietCalls ==
    ASSUME TypeInv, started' = started, gens' \in Nat, gens' >= gens,
           pc' # "tools", pc' = "settle" => turn'.stop # "tool_use"
    PROVE  CallInv'
<1>1. \A c \in started : c[1] <= gens
    BY DEF TypeInv, CallInv
<1>2. started \subseteq CallIds /\ gens \in Nat
    BY Typed DEF TypeInv, TypeOK
<1>3. \A c \in started : c[1] \in Nat
    BY <1>2, Bounds DEF CallIds, Gens
<1>4. \A c \in started' : c[1] <= gens'
    BY <1>1, <1>2, <1>3
<1> QED
    BY <1>4 DEF CallInv

\* A turn that gained only a counter.
SameTurn(t) == /\ t \in Turns /\ t.user = turn.user /\ t.mode = turn.mode /\ t.ids = turn.ids
               /\ t.base = turn.base /\ t.msgs = turn.msgs /\ t.reacted = turn.reacted

\* A counter of the turn is increased.
LEMMA CounterTyped ==
    ASSUME turn \in Turns, NEW t, NEW n \in Nat,
           t \in {[turn EXCEPT !.auto = n], [turn EXCEPT !.failed = n], [turn EXCEPT !.resumes = n]}
    PROVE  SameTurn(t)
<1>1. CASE t = [turn EXCEPT !.auto = n]
    BY <1>1 DEF Turns, SameTurn
<1>2. CASE t = [turn EXCEPT !.failed = n]
    BY <1>2 DEF Turns, SameTurn
<1>3. CASE t = [turn EXCEPT !.resumes = n]
    BY <1>3 DEF Turns, SameTurn
<1> QED
    BY <1>1, <1>2, <1>3

\* What the arms of run_inner do.
LEMMA ArmEffect ==
    ASSUME TypeInv, pc = "settle",
           AutoContinueArm \/ FailoverArm \/ ResumeArm
    PROVE  \E ms \in Seq(Messages) : \E t : Again(ms, t) /\ SameTurn(t)
<1>1. turn \in Turns /\ turn.msgs \in Seq(Messages) /\ CloseOrphans(turn.msgs) \in Seq(Messages)
      /\ turn.auto + 1 \in Nat /\ turn.failed + 1 \in Nat /\ turn.resumes + 1 \in Nat
  <2>1. turn \in Turns /\ turn.msgs \in Seq(Messages) /\ CloseOrphans(turn.msgs) \in Seq(Messages)
    BY Typed, CloseTyped
  <2>2. turn.auto \in Nat /\ turn.failed \in Nat /\ turn.resumes \in Nat
    BY <2>1, TurnFields
  <2> QED
    BY <2>1, <2>2
<1>2. CASE AutoContinueArm
  <2> DEFINE ms == IF ~HasOrphans(turn.msgs) THEN Append(CloseOrphans(turn.msgs), Nudge) ELSE CloseOrphans(turn.msgs)
             n == turn.auto + 1
             t == [turn EXCEPT !.auto = n]
  <2>1. Again(ms, t)
    BY <1>1, <1>2 DEF AutoContinueArm
  <2>2. ms \in Seq(Messages)
    BY <1>1, Appended, MessageMade
  <2> HIDE DEF n
  <2>3. n \in Nat
    BY <1>1 DEF n
  <2>4. SameTurn(t)
    BY <1>1, <2>3, CounterTyped
  <2> QED
    BY <2>1, <2>2, <2>4
<1>3. CASE FailoverArm
  <2> DEFINE n == turn.failed + 1
             t == [turn EXCEPT !.failed = n]
  <2>1. Again(turn.msgs, t)
    BY <1>1, <1>3 DEF FailoverArm
  <2> HIDE DEF n
  <2>3. n \in Nat
    BY <1>1 DEF n
  <2>4. SameTurn(t)
    BY <1>1, <2>3, CounterTyped
  <2> QED
    BY <1>1, <2>1, <2>4
<1>4. CASE ResumeArm
  <2> DEFINE kept == IF IsHusk(Last(turn.msgs)) THEN Front(turn.msgs) ELSE turn.msgs
             nudge == ~HasOrphans(kept) /\ Last(kept).kind = "assistant"
             closed == CloseOrphans(kept)
             ms == IF nudge THEN Append(closed, Nudge) ELSE closed
             n == turn.resumes + 1
             t == [turn EXCEPT !.resumes = n]
  <2>1. Again(ms, t)
    BY <1>1, <1>4 DEF ResumeArm
  <2>0. kept \in Seq(Messages)
    BY <1>1 DEF Front
  <2> HIDE DEF kept
  <2>2. closed \in Seq(Messages)
    BY <2>0, CloseTyped
  <2> HIDE DEF closed
  <2>5. ms \in Seq(Messages)
    BY <2>2, Appended, MessageMade
  <2> HIDE DEF n
  <2>3. n \in Nat
    BY <1>1 DEF n
  <2>4. SameTurn(t)
    BY <1>1, <2>3, CounterTyped
  <2> QED
    BY <2>1, <2>4, <2>5
<1> QED
    BY <1>2, <1>3, <1>4

\* Types: a turn begins.
LEMMA BeginType == ASSUME TypeInv, Prompt \/ Retry PROVE TypeInv'
<1>0. started \subseteq CallIds /\ finished \subseteq started /\ gens \in 0..MaxGens /\ gens \in Nat
      /\ prompts \in 0..MaxPrompts /\ outcomes \in Seq(Messages) /\ ids \in Seq(Ids)
      /\ disk \in [msgs : Seq(Messages), ids : Seq(Ids)]
    BY Typed DEF TypeInv, TypeOK
<1>1. CASE Prompt
  <2>1. /\ pc' = "start" /\ prompts' \in 0..MaxPrompts
        /\ turns' \in 0..MaxTurns /\ ids' \in Seq(Ids)
        /\ disk' \in [msgs : Seq(Messages), ids : Seq(Ids)]
        /\ history' \in Seq(Messages) /\ counted' \in [Gens -> Nat]
        /\ journal' \in Journals /\ journal'.mode = "append" /\ journal'.suffix = <<turn'.user>>
        /\ turn' \in Turns /\ turn'.mode = "append" /\ turn'.reacted = FALSE
        /\ turn'.user \in UserMessages
        /\ outcomes' = outcomes /\ gens' = gens /\ started' = started /\ finished' = finished
    <3>1. prompts' \in 1..MaxPrompts
      BY <1>1, PromptEffect
    <3>2. prompts' \in 0..MaxPrompts
      BY <3>1, Bounds
    <3> QED
      BY <1>1, <3>2, PromptEffect
  <2>2. journal' # NoJournal
    BY <2>1, NoJournalTyped
  <2>3. TypeOK'
    BY <1>0, <2>1, <2>2 DEF TypeOK, PCs
  <2>4. IsUserTurn(turn'.user)
    BY <2>1 DEF UserMessages, IsUserTurn
  <2>5. ModeInv'
    BY <2>1, <2>4 DEF ModeInv, InTurn
  <2>6. CallInv'
    BY <1>0, <2>1, QuietCalls
  <2> QED
    BY <2>3, <2>5, <2>6 DEF TypeInv
<1>2. CASE Retry
  <2>1. /\ pc' = "attempt" /\ turns' \in 0..MaxTurns
        /\ history' \in Seq(Messages) /\ counted' \in [Gens -> Nat]
        /\ journal' \in Journals /\ journal'.mode = "replace" /\ journal'.suffix = <<turn'.user>>
        /\ turn' \in Turns /\ turn'.mode = "replace" /\ IsUserTurn(turn'.user)
        /\ ids' = ids /\ disk' = disk /\ prompts' = prompts
        /\ outcomes' = outcomes /\ gens' = gens /\ started' = started /\ finished' = finished
    BY <1>2, RetryEffect
  <2>2. journal' # NoJournal
    BY <2>1, NoJournalTyped
  <2>3. TypeOK'
    BY <1>0, <2>1, <2>2 DEF TypeOK, PCs
  <2>5. ModeInv'
    BY <2>1 DEF ModeInv, InTurn
  <2>6. CallInv'
    BY <1>0, <2>1, QuietCalls
  <2> QED
    BY <2>3, <2>5, <2>6 DEF TypeInv
<1> QED
    BY <1>1, <1>2

\* Types: the history is prepared and the attempt starts.
LEMMA PrepareType ==
    ASSUME TypeInv, Repair \/ Attempt \/ NothingToCut \/ Summarize \/ RetryGeneration
    PROVE  TypeInv'
<1>0. started \subseteq CallIds /\ finished \subseteq started /\ gens \in 0..MaxGens /\ gens \in Nat
      /\ disk \in [msgs : Seq(Messages), ids : Seq(Ids)] /\ history \in Seq(Messages) /\ journal \in Journals
      /\ turn \in Turns /\ counted \in [Gens -> Nat]
    BY Typed DEF TypeInv, TypeOK
<1>1. CASE Repair
  <2>1. pc = "start" /\ InTurn /\ turn.mode = "append" /\ journal.suffix = <<turn.user>>
    BY <1>1, RepairEffect DEF TypeInv, ModeInv, InTurn
  <2>2. TypeOK' /\ ModeInv'
    BY <1>0, <1>1, <2>1, RepairEffect, InTurnStep DEF PCs
  <2>3. CallInv'
    BY <1>0, <1>1, RepairEffect, QuietCalls
  <2> QED
    BY <2>2, <2>3 DEF TypeInv
<1>2. CASE Attempt
  <2>1. pc = "attempt" /\ InTurn
    BY <1>2, AttemptEffect DEF InTurn
  <2>2. TypeOK' /\ ModeInv'
    BY <1>0, <1>2, <2>1, AttemptEffect, InTurnStep DEF PCs
  <2>3. CallInv'
    BY <1>0, <1>2, AttemptEffect, QuietCalls
  <2> QED
    BY <2>2, <2>3 DEF TypeInv
<1>3. CASE NothingToCut
  <2>1. pc = "compact" /\ InTurn /\ turn.mode = "append" /\ journal.suffix = <<turn.user>>
    BY <1>3, NothingEffect DEF TypeInv, ModeInv, InTurn
  <2>2. TypeOK' /\ ModeInv'
    BY <1>0, <1>3, <2>1, NothingEffect, InTurnStep DEF PCs
  <2>3. CallInv'
    <3>1. started' = started /\ gens' = gens /\ pc' \in {"attempt", "staged"}
      BY <1>3, NothingEffect
    <3> QED
      BY <1>0, <3>1, QuietCalls
  <2> QED
    BY <2>2, <2>3 DEF TypeInv
<1>4. CASE Summarize
  <2>1. pc = "compact" /\ InTurn /\ turn.mode = "append" /\ journal.suffix = <<turn.user>>
    BY <1>4, SummarizeEffect DEF TypeInv, ModeInv, InTurn
  <2>2. gens' \in 0..MaxGens /\ gens' \in Nat /\ gens' >= gens
    <3>1. gens' = gens + 1 /\ gens + 1 \in Gens
      BY <1>4, SummarizeEffect
    <3> QED
      BY <1>0, <3>1, Bounds DEF Gens
  <2>3. TypeOK' /\ ModeInv'
    BY <1>0, <1>4, <2>1, <2>2, SummarizeEffect, InTurnStep DEF PCs
  <2>4. CallInv'
    BY <1>0, <1>4, <2>2, SummarizeEffect, QuietCalls
  <2> QED
    BY <2>3, <2>4 DEF TypeInv
<1>5. CASE RetryGeneration
  <2>1. pc = "request" /\ InTurn
    BY <1>5, GenerationEffect DEF InTurn
  <2>2. TypeOK' /\ ModeInv'
    BY <1>0, <1>5, <2>1, GenerationEffect, InTurnStep DEF PCs
  <2>3. CallInv'
    BY <1>0, <1>5, GenerationEffect, QuietCalls
  <2> QED
    BY <2>2, <2>3 DEF TypeInv
<1> QED
    BY <1>1, <1>2, <1>3, <1>4, <1>5

\* The message a response pushes.
LEMMA NewCallsTyped ==
    ASSUME TypeInv, gens < MaxGens, NEW n \in 0..MaxCalls
    PROVE  /\ NewCalls(n) \in SUBSET CallIds
           /\ \A c \in NewCalls(n) : c[1] = gens + 1
           /\ n = 0 => NewCalls(n) = {}
           /\ n > 0 => NewCalls(n) # {}
<1>1. gens \in Nat /\ gens + 1 \in Gens
  <2>1. gens \in Nat
    BY Typed
  <2> QED
    BY <2>1, Bounds DEF Gens
<1> DEFINE g == gens + 1
<1>2. NewCalls(n) = {<<g, i>> : i \in 1..n}
    BY DEF NewCalls
<1>3. g \in Gens
    BY <1>1
<1> HIDE DEF g
<1>4. \A i \in 1..n : i \in 1..MaxCalls
    BY Bounds
<1>5. NewCalls(n) \in SUBSET CallIds /\ \A c \in NewCalls(n) : c[1] = g
    BY <1>2, <1>3, <1>4 DEF CallIds
<1>6. n = 0 => NewCalls(n) = {}
    BY <1>2
<1>7. n > 0 => NewCalls(n) # {}
  <2>1. n > 0 => 1 \in 1..n
    BY Bounds
  <2> QED
    BY <1>2, <2>1
<1> QED
    BY <1>5, <1>6, <1>7 DEF g

\* A response adds one assistant message, or none.
Replied(stop, ms) ==
    \/ /\ stop = "fatal" /\ ms = turn.msgs
    \/ \E calls \in SUBSET CallIds, text \in BOOLEAN :
         /\ ms = Append(turn.msgs, Assistant(calls, text))
         /\ \A c \in calls : c[1] = gens + 1
         /\ stop = "tool_use" => calls # {}
         /\ stop = "transient" => calls = {} /\ ~text

\* Each kind of response.
LEMMA ReplyEffect ==
    ASSUME TypeInv, RespondText \/ RespondTools \/ RespondMalformed \/ RespondError
    PROVE  \E stop \in {"end", "max_tokens", "tool_use", "fatal", "overflow", "transient"},
              ms \in Seq(Messages) : Respond(stop, ms) /\ Replied(stop, ms)
<1> DEFINE Stops == {"end", "max_tokens", "tool_use", "fatal", "overflow", "transient"}
<1>0. turn.msgs \in Seq(Messages) /\ MaxCalls \in Nat
    BY Typed, Bounds
<1>1. ASSUME NEW calls \in SUBSET CallIds, NEW text \in BOOLEAN
      PROVE  Append(turn.msgs, Assistant(calls, text)) \in Seq(Messages)
    BY <1>0, <1>1, MessageMade, Appended
<1>2. CASE RespondMalformed
    BY <1>0, <1>2 DEF RespondMalformed, Replied
<1>3. CASE RespondError
  <2>1. PICK stop \in {"fatal", "overflow", "transient"} : Respond(stop, Append(turn.msgs, Assistant({}, FALSE)))
    BY <1>3 DEF RespondError
  <2>2. Replied(stop, Append(turn.msgs, Assistant({}, FALSE)))
    <3>1. {} \in SUBSET CallIds /\ FALSE \in BOOLEAN /\ stop # "tool_use"
      OBVIOUS
    <3> HIDE DEF Stops
    <3> QED
      BY <3>1, Zenon DEF Replied
  <2>3. Append(turn.msgs, Assistant({}, FALSE)) \in Seq(Messages)
    BY <1>1
  <2> QED
    BY <2>1, <2>2, <2>3
<1>4. CASE RespondTools
  <2>1. PICK n \in 1..MaxCalls : Respond("tool_use", Append(turn.msgs, Assistant(NewCalls(n), FALSE)))
    BY <1>4 DEF RespondTools
  <2>2. gens < MaxGens /\ n \in 0..MaxCalls /\ n > 0
    BY <1>0, <2>1 DEF Respond
  <2>3. NewCalls(n) \in SUBSET CallIds /\ (\A c \in NewCalls(n) : c[1] = gens + 1) /\ NewCalls(n) # {}
    BY <2>2, NewCallsTyped
  <2>4. Replied("tool_use", Append(turn.msgs, Assistant(NewCalls(n), FALSE)))
    BY <2>3 DEF Replied
  <2>5. Append(turn.msgs, Assistant(NewCalls(n), FALSE)) \in Seq(Messages)
    BY <1>1, <2>3
  <2> QED
    BY <2>1, <2>4, <2>5
<1>5. CASE RespondText
  <2>1. PICK stop \in {"end", "max_tokens"}, n \in 0..1 :
            Respond(stop, Append(turn.msgs, Assistant(NewCalls(n), n = 0)))
    BY <1>5 DEF RespondText
  <2>2. gens < MaxGens /\ n \in 0..MaxCalls
    <3>1. gens < MaxGens
      BY <2>1 DEF Respond
    <3>2. n \in 0..MaxCalls
      BY Bounds
    <3> QED
      BY <3>1, <3>2
  <2>3. NewCalls(n) \in SUBSET CallIds /\ (\A c \in NewCalls(n) : c[1] = gens + 1)
    BY <2>2, NewCallsTyped
  <2>4. Replied(stop, Append(turn.msgs, Assistant(NewCalls(n), n = 0)))
    BY <2>1, <2>3 DEF Replied
  <2>5. Append(turn.msgs, Assistant(NewCalls(n), n = 0)) \in Seq(Messages)
    BY <1>1, <2>3
  <2> QED
    BY <2>1, <2>4, <2>5
<1> QED
    BY <1>2, <1>3, <1>4, <1>5

\* The facts every proof of a step's types starts from.
LEMMA Base ==
    ASSUME TypeInv
    PROVE  /\ started \subseteq CallIds /\ finished \subseteq started /\ gens \in 0..MaxGens /\ gens \in Nat
           /\ disk \in [msgs : Seq(Messages), ids : Seq(Ids)] /\ history \in Seq(Messages) /\ journal \in Journals
           /\ turn \in Turns /\ counted \in [Gens -> Nat] /\ ids \in Seq(Ids) /\ outcomes \in Seq(Messages)
           /\ prompts \in 0..MaxPrompts /\ turns \in 0..MaxTurns
           /\ \A c \in started : c[1] <= gens
    BY Typed DEF TypeInv, TypeOK, CallInv

\* Types: a response arrives.
LEMMA ReplyType ==
    ASSUME TypeInv, RespondText \/ RespondTools \/ RespondMalformed \/ RespondError
    PROVE  TypeInv'
<1>1. PICK stop \in {"end", "max_tokens", "tool_use", "fatal", "overflow", "transient"},
           ms \in Seq(Messages) : Respond(stop, ms) /\ Replied(stop, ms)
    BY ReplyEffect
<1>2. /\ pc = "request" /\ pc' = "settle" /\ gens' = gens + 1 /\ gens + 1 \in Gens /\ gens \in Nat
      /\ turn' \in Turns /\ turn'.msgs = ms /\ turn'.stop = stop
      /\ turn'.user = turn.user /\ turn'.mode = turn.mode
      /\ journal' \in Journals /\ journal'.mode = journal.mode
      /\ disk' \in [msgs : Seq(Messages), ids : Seq(Ids)]
      /\ history' = history /\ counted' = counted /\ ids' = ids /\ outcomes' = outcomes
      /\ prompts' = prompts /\ turns' = turns
      /\ started' = started /\ finished' = finished
    BY <1>1, RespondEffect
<1>3. gens' \in 0..MaxGens /\ gens' \in Nat /\ gens' >= gens
    BY <1>2, Bounds DEF Gens
<1>4. InTurn
    BY <1>2 DEF InTurn
<1>5. TypeOK' /\ ModeInv'
    BY <1>2, <1>3, <1>4, Base, InTurnStep DEF PCs
<1>6. CallInv'
  <2>1. CASE stop # "tool_use"
    BY <1>2, <1>3, <2>1, QuietCalls
  <2>2. CASE stop = "tool_use"
    <3>1. PICK calls \in SUBSET CallIds, text \in BOOLEAN :
            ms = Append(turn.msgs, Assistant(calls, text)) /\ (\A c \in calls : c[1] = gens + 1)
      BY <1>1, <2>2 DEF Replied
    <3>2. turn.msgs \in Seq(Messages) /\ Assistant(calls, text) \in Messages
      BY Typed, MessageMade
    <3>3. ms # << >> /\ ms[Len(ms)] = Assistant(calls, text)
      BY <3>1, <3>2, Appended
    <3>4. ms[Len(ms)].kind = "assistant" /\ Makes(ms[Len(ms)]) = calls
      BY <3>3 DEF Assistant, Makes
    <3>5. \A c \in calls : c[1] = gens' /\ c \notin started'
      <4>1. \A c \in started : c[1] <= gens
        BY Base
      <4>2. ~(gens + 1 <= gens)
        BY <1>2
      <4> QED
        BY <1>2, <3>1, <4>1, <4>2
    <3>6. \A c \in started' : c[1] <= gens'
      <4>1. \A c \in started : c[1] <= gens /\ c[1] \in Nat
        BY Base, Bounds DEF CallIds, Gens
      <4> QED
        BY <1>2, <4>1
    <3> QED
      BY <1>2, <3>3, <3>4, <3>5, <3>6 DEF CallInv, Calls
  <2> QED
    BY <2>1, <2>2
<1> QED
    BY <1>5, <1>6 DEF TypeInv

\* Types: the loop goes on.
LEMMA AgainType ==
    ASSUME TypeInv, InTurn, NEW ms \in Seq(Messages), NEW t, SameTurn(t), Again(ms, t)
    PROVE  TypeInv'
<1>1. /\ pc' = "request" /\ turn' \in Turns /\ turn'.user = turn.user /\ turn'.mode = turn.mode
      /\ journal' \in Journals /\ journal'.mode = journal.mode
      /\ disk' \in [msgs : Seq(Messages), ids : Seq(Ids)]
      /\ history' = history /\ counted' = counted /\ ids' = ids /\ outcomes' = outcomes /\ gens' = gens
      /\ prompts' = prompts /\ turns' = turns /\ started' = started /\ finished' = finished
  <2>1. t \in Turns /\ t.user = turn.user /\ t.mode = turn.mode
    BY DEF SameTurn
  <2> QED
    BY <2>1, AgainEffect
<1>2. TypeOK' /\ ModeInv'
    BY <1>1, Base, InTurnStep DEF PCs
<1>3. CallInv'
    BY <1>1, Base, QuietCalls
<1> QED
    BY <1>2, <1>3 DEF TypeInv

\* Types: the run returns.
LEMMA ReturnType ==
    ASSUME TypeInv, InTurn, NEW ms \in Seq(Messages), Return(ms)
    PROVE  TypeInv'
<1>1. /\ turn' \in Turns /\ turn'.user = turn.user /\ turn'.mode = turn.mode
      /\ pc' \in {"compact", "staged"}
      /\ pc' = "compact" => turn.mode = "append" /\ journal'.suffix = <<turn.user>>
      /\ journal' \in Journals /\ journal'.mode = journal.mode
      /\ counted' \in [Gens -> Nat]
      /\ history' = history /\ ids' = ids /\ outcomes' = outcomes /\ disk' = disk /\ gens' = gens
      /\ prompts' = prompts /\ turns' = turns /\ started' = started /\ finished' = finished
    BY ReturnEffect
<1>2. TypeOK' /\ ModeInv'
  <2>1. pc' \in PCs \ {"idle", "saving", "start"} /\ (pc' \in {"start", "compact"} => turn.mode = "append")
        /\ (pc' \in {"start", "attempt", "compact"} => journal'.suffix = <<turn.user>>)
    BY <1>1 DEF PCs
  <2> QED
    BY <1>1, <2>1, Base, InTurnStep
<1>3. CallInv'
  <2>1. pc' # "tools" /\ pc' # "settle" /\ started' = started /\ gens' = gens /\ gens \in Nat /\ gens >= gens
    BY <1>1, Base
  <2> QED
    BY <2>1, QuietCalls
<1> QED
    BY <1>2, <1>3 DEF TypeInv

\* Types: the arms of run_inner.
LEMMA ArmType ==
    ASSUME TypeInv, AutoContinueArm \/ FailoverArm \/ ResumeArm \/ TerminalArm \/ BatchDone
    PROVE  TypeInv'
<1>1. CASE AutoContinueArm \/ FailoverArm \/ ResumeArm
  <2>1. pc = "settle" /\ InTurn
    BY <1>1 DEF AutoContinueArm, FailoverArm, ResumeArm, InTurn
  <2> QED
    BY <1>1, <2>1, ArmEffect, AgainType
<1>2. CASE TerminalArm
  <2>1. InTurn /\ Return(CloseOrphans(turn.msgs))
    BY <1>2 DEF TerminalArm, InTurn
  <2>2. CloseOrphans(turn.msgs) \in Seq(Messages)
    BY Typed, CloseTyped
  <2> QED
    BY <2>1, <2>2, ReturnType
<1>3. CASE BatchDone
  <2>1. pc = "tools" /\ InTurn /\ (Again(Batch, turn) \/ Return(Batch))
    BY <1>3 DEF BatchDone, InTurn, Batch
  <2>2. turn \in Turns /\ turn.msgs \in Seq(Messages) /\ turn.results \in SUBSET (CallIds \X Says)
    BY Typed, TurnFields
  <2>3. Batch \in Seq(Messages)
    BY <2>2, MessageMade, Appended DEF Batch
  <2>4. SameTurn(turn)
    BY <2>2 DEF SameTurn
  <2> QED
    BY <2>1, <2>3, <2>4, AgainType, ReturnType
<1> QED
    BY <1>1, <1>2, <1>3

\* Types: a batch begins.
LEMMA ToolUseType == ASSUME TypeInv, ToolUseArm PROVE TypeInv'
<1>1. /\ pc = "settle" /\ turn.stop = "tool_use" /\ pc' = "tools"
      /\ turn' \in Turns /\ turn'.user = turn.user /\ turn'.mode = turn.mode
      /\ turn'.left = Calls /\ turn'.running = FALSE
      /\ history' = history /\ journal' = journal
      /\ counted' = counted /\ ids' = ids /\ outcomes' = outcomes /\ disk' = disk
      /\ gens' = gens /\ prompts' = prompts /\ turns' = turns
      /\ started' = started /\ finished' = finished
    BY ToolUseEffect
<1>2. InTurn
    BY <1>1 DEF InTurn
<1>3. TypeOK' /\ ModeInv'
    BY <1>1, <1>2, Base, InTurnStep DEF PCs
<1>4. \A c \in Calls : c[1] = gens /\ c \notin started
    BY <1>1 DEF TypeInv, CallInv
<1>5. finished \subseteq started /\ \A c \in started : c[1] <= gens
    BY Base
<1> QED
    BY <1>1, <1>3, <1>4, <1>5 DEF TypeInv, CallInv

\* One call of a batch is next.
LEMMA NextUnique ==
    ASSUME TypeInv, pc = "tools", NEW c \in turn.left, NEW d \in turn.left, IsNext(c), IsNext(d)
    PROVE  c = d
<1>1. c[1] = gens /\ d[1] = gens
    BY DEF TypeInv, CallInv
<1>2. c[2] <= d[2] /\ d[2] <= c[2]
    BY DEF IsNext
<1>3. c \in CallIds /\ d \in CallIds
    BY Base, TurnFields
<1>4. c[2] \in 1..MaxCalls /\ d[2] \in 1..MaxCalls /\ c = <<c[1], c[2]>> /\ d = <<d[1], d[2]>>
    BY <1>3 DEF CallIds
<1>5. c[2] = d[2]
    BY <1>2, <1>4, Bounds
<1> QED
    BY <1>1, <1>4, <1>5

\* What is known of the calls of a batch.
LEMMA ToolFacts ==
    ASSUME TypeInv, pc = "tools"
    PROVE  /\ turn.left \in SUBSET CallIds /\ turn.left \cap finished = {}
           /\ \A c \in turn.left : c[1] = gens
           /\ ~turn.running => turn.left \cap started = {}
           /\ turn.running => \A c \in turn.left : c \in started <=> IsNext(c)
    BY Base, TurnFields DEF TypeInv, CallInv

\* Types: the tools of a batch.
LEMMA ToolType == ASSUME TypeInv, ToolBlocked \/ ToolStart \/ ToolDone PROVE TypeInv'
<1>1. CASE ToolBlocked
  <2>1. /\ pc = "tools" /\ ~turn.running /\ pc' = "tools"
        /\ history' = history /\ counted' = counted /\ ids' = ids /\ outcomes' = outcomes
        /\ gens' = gens /\ prompts' = prompts /\ turns' = turns
        /\ started' = started /\ finished' = finished
    BY <1>1 DEF ToolBlocked, bounds, ghosts
  <2>2. PICK c \in turn.left : RecordResult(c, "blocked", FALSE)
    BY <1>1 DEF ToolBlocked
  <2>3. /\ turn' \in Turns /\ turn'.user = turn.user /\ turn'.mode = turn.mode
        /\ turn'.left = turn.left \ {c} /\ turn'.running = FALSE
        /\ journal' \in Journals /\ journal'.mode = journal.mode
        /\ disk' \in [msgs : Seq(Messages), ids : Seq(Ids)]
    BY <2>2, RecordEffect DEF Says
  <2>4. InTurn
    BY <2>1 DEF InTurn
  <2>5. TypeOK' /\ ModeInv'
    BY <2>1, <2>3, <2>4, Base, InTurnStep DEF PCs
  <2>6. CallInv'
    BY <2>1, <2>3, Base, ToolFacts DEF CallInv
  <2> QED
    BY <2>5, <2>6 DEF TypeInv
<1>2. CASE ToolStart
  <2>1. /\ pc = "tools" /\ pc' = "tools" /\ ~turn.running
        /\ turn' \in Turns /\ turn'.user = turn.user /\ turn'.mode = turn.mode
        /\ turn'.left = turn.left /\ turn'.running = TRUE
        /\ history' = history /\ journal' = journal
        /\ counted' = counted /\ ids' = ids /\ outcomes' = outcomes /\ disk' = disk
        /\ gens' = gens /\ prompts' = prompts /\ turns' = turns
        /\ finished' = finished
    BY <1>2, StartEffect
  <2>2. PICK c \in turn.left : IsNext(c) /\ started' = started \cup {c}
    BY <1>2, StartEffect
  <2>3. started' \subseteq CallIds /\ finished' \subseteq started'
    BY <2>1, <2>2, Base, ToolFacts
  <2>4. InTurn
    BY <2>1 DEF InTurn
  <2>5. TypeOK' /\ ModeInv'
    BY <2>1, <2>3, <2>4, Base, InTurnStep DEF PCs
  <2>6. \A d \in turn.left : d \in started' <=> IsNext(d)
    BY <2>1, <2>2, ToolFacts, NextUnique
  <2>7. \A d : IsNext(d)' <=> IsNext(d)
    BY <2>1 DEF IsNext
  <2>8. \A d \in started' : d[1] <= gens
    <3>1. c[1] = gens /\ gens <= gens
      BY <2>1, Base, ToolFacts
    <3> QED
      BY <2>2, <3>1, Base
  <2>9. CallInv'
    BY <2>1, <2>6, <2>7, <2>8, ToolFacts DEF CallInv
  <2> QED
    BY <2>5, <2>9 DEF TypeInv
<1>3. CASE ToolDone
  <2>1. /\ pc = "tools" /\ turn.running /\ pc' = "tools"
        /\ history' = history /\ counted' = counted /\ ids' = ids /\ outcomes' = outcomes
        /\ gens' = gens /\ prompts' = prompts /\ turns' = turns
        /\ started' = started
    BY <1>3 DEF ToolDone, bounds
  <2>2. PICK c \in turn.left, terminate \in BOOLEAN :
            IsNext(c) /\ RecordResult(c, "done", terminate) /\ finished' = finished \cup {c}
    BY <1>3 DEF ToolDone
  <2>3. /\ turn' \in Turns /\ turn'.user = turn.user /\ turn'.mode = turn.mode
        /\ turn'.left = turn.left \ {c} /\ turn'.running = FALSE
        /\ journal' \in Journals /\ journal'.mode = journal.mode
        /\ disk' \in [msgs : Seq(Messages), ids : Seq(Ids)]
    <3>1. "done" \in Says
      BY DEF Says
    <3>2. terminate \in BOOLEAN /\ RecordResult(c, "done", terminate)
      BY <2>2
    <3> QED
      BY <3>1, <3>2, RecordEffect
  <2>4. InTurn
    BY <2>1 DEF InTurn
  <2>5. started' \subseteq CallIds /\ finished' \subseteq started'
    BY <2>1, <2>2, Base, ToolFacts
  <2>6. TypeOK' /\ ModeInv'
    BY <2>1, <2>3, <2>4, <2>5, Base, InTurnStep DEF PCs
  <2>7. turn'.left \cap started = {}
    BY <2>1, <2>2, <2>3, ToolFacts, NextUnique
  <2>8. CallInv'
    BY <2>1, <2>2, <2>3, <2>7, Base, ToolFacts DEF CallInv
  <2> QED
    BY <2>6, <2>8 DEF TypeInv
<1> QED
    BY <1>1, <1>2, <1>3

\* Between turns there may be no turn record to speak of.
LEMMA IdleType ==
    ASSUME TypeInv, pc' \in {"idle", "saving"},
           history' \in Seq(Messages), journal' \in {journal, NoJournal}, turn' \in {turn, NoTurn},
           disk' \in [msgs : Seq(Messages), ids : Seq(Ids)], ids' \in Seq(Ids), outcomes' \in Seq(Messages),
           counted' \in [Gens -> Nat], started' = started, finished' = finished,
           gens' = gens, prompts' = prompts, turns' = turns
    PROVE  TypeInv'
<1>1. journal' \in Journals /\ turn' \in Turns
    BY Base, NoJournalTyped, NoTurnTyped
<1>2. TypeOK'
    BY <1>1, Base DEF TypeOK, PCs
<1>3. ModeInv'
  <2>1. journal.mode = "none" => journal = NoJournal
    BY DEF TypeInv, ModeInv
  <2> QED
    BY <2>1, NoJournalTyped DEF ModeInv, InTurn
<1>4. CallInv'
    BY Base, QuietCalls
<1> QED
    BY <1>2, <1>3, <1>4 DEF TypeInv

\* Types: a turn ends, and what happens between turns.
LEMMA EndType ==
    ASSUME TypeInv, Commit \/ Cancel \/ Persist \/ Drop \/ Truncate \/ Clear \/ Restart
    PROVE  TypeInv'
<1>1. CASE Commit
  <2>1. /\ pc = "staged" /\ Epilogue(turn.msgs) /\ counted' = counted /\ disk' = disk /\ gens' = gens
        /\ prompts' = prompts /\ turns' = turns /\ started' = started /\ finished' = finished
    BY <1>1 DEF Commit, bounds, ghosts
  <2>2. InTurn /\ turn.msgs \in Seq(Messages)
    BY <2>1, Typed DEF InTurn
  <2>3. /\ history' \in Seq(Messages) /\ ids' \in Seq(Ids) /\ outcomes' \in Seq(Messages)
        /\ journal' = NoJournal /\ turn' = NoTurn /\ pc' = "saving"
    BY <2>1, <2>2, EpilogueEffect
  <2> QED
    BY <2>1, <2>3, Base, IdleType
<1>2. CASE Cancel
  <2>1. /\ InTurn /\ Epilogue(Promoted(history)) /\ disk' = disk /\ gens' = gens
        /\ prompts' = prompts /\ turns' = turns /\ started' = started /\ finished' = finished
        /\ counted' = counted \/ AddUsage(journal.usage)
    BY <1>2 DEF Cancel, bounds, ghosts, InTurn
  <2>2. Promoted(history) \in Seq(Messages)
    BY Base, PromotedTyped
  <2>3. /\ history' \in Seq(Messages) /\ ids' \in Seq(Ids) /\ outcomes' \in Seq(Messages)
        /\ journal' = NoJournal /\ turn' = NoTurn /\ pc' = "saving"
    BY <2>1, <2>2, EpilogueEffect
  <2>4. counted' \in [Gens -> Nat]
    BY <2>1, Base, UsageTyped
  <2> QED
    BY <2>1, <2>3, <2>4, Base, IdleType
<1>3. CASE Persist
  <2>1. /\ pc' = "idle" /\ disk' = [msgs |-> history, ids |-> ids]
        /\ history' = history /\ journal' = journal /\ counted' = counted /\ ids' = ids /\ outcomes' = outcomes
        /\ turn' = turn /\ gens' = gens
        /\ prompts' = prompts /\ turns' = turns /\ started' = started /\ finished' = finished
    BY <1>3 DEF Persist, bounds, ghosts
  <2>2. disk' \in [msgs : Seq(Messages), ids : Seq(Ids)]
    BY <2>1, Base
  <2> QED
    BY <2>1, <2>2, Base, IdleType
<1>4. CASE Drop
  <2>1. /\ pc' = "idle" /\ turn' = NoTurn /\ disk' = disk
        /\ history' = history /\ journal' = journal /\ counted' = counted /\ ids' = ids /\ outcomes' = outcomes
        /\ gens' = gens
        /\ prompts' = prompts /\ turns' = turns /\ started' = started /\ finished' = finished
    BY <1>4 DEF Drop
  <2> QED
    BY <2>1, Base, IdleType
<1>5. CASE Truncate
    BY <1>5, TruncateEffect, Base, IdleType
<1>6. CASE Clear
  <2>1. << >> \in Seq(Messages) /\ << >> \in Seq(Ids)
    OBVIOUS
  <2> QED
    BY <1>6, <2>1, ClearEffect, Base, IdleType
<1>7. CASE Restart
  <2>1. << >> \in Seq(Messages)
    OBVIOUS
  <2> QED
    BY <1>7, <2>1, RestartEffect, Base, IdleType
<1> QED
    BY <1>1, <1>2, <1>3, <1>4, <1>5, <1>6, <1>7

\* The type invariant is inductive.
LEMMA TypeStep == TypeInv /\ [Next]_vars => TypeInv'
<1> SUFFICES ASSUME TypeInv, [Next]_vars PROVE TypeInv'
    OBVIOUS
<1>1. CASE Next
    BY <1>1, BeginType, PrepareType, ReplyType, ArmType, ToolUseType, ToolType, EndType DEF Next
<1>2. CASE UNCHANGED vars
    BY <1>2 DEF vars, bounds, ghosts, TypeInv, TypeOK, ModeInv, CallInv, InTurn, Calls, IsNext
<1> QED
    BY <1>1, <1>2

\* The type invariant holds.
LEMMA TypeHolds == Spec => []TypeInv
    BY InitType, TypeStep, PTL DEF Spec

(* TypeOK: every variable keeps its type, and a turn in progress has the    *)
(* journal that prompt_with_active_turn or run_retry_turn began.            *)
THEOREM TypeCorrect == Spec => []TypeOK
<1>1. TypeInv => TypeOK
    BY DEF TypeInv
<1> QED
    BY <1>1, TypeHolds, PTL

-----------------------------------------------------------------------------
(* What is said, and which prompts are there.                               *)

\* A sound sequence is open.
LEMMA SoundOpen ==
    ASSUME NEW ms \in Seq(Messages), NEW st, NEW fi, NEW g, Sound(ms, st, fi, g)
    PROVE  Open(ms, st, fi, g)
<1>1. Half(ms) /\ Missing(ms) = {}
    BY PairedIsHalf DEF Sound
<1> QED
    BY <1>1 DEF Sound, Open

\* An open sequence that misses nothing is sound.
LEMMA OpenSound ==
    ASSUME NEW ms \in Seq(Messages), NEW st, NEW fi, NEW g, Open(ms, st, fi, g), Missing(ms) = {}
    PROVE  Sound(ms, st, fi, g)
    BY PairedIsHalf DEF Sound, Open

\* A later generation changes nothing that was said.
LEMMA Grows ==
    ASSUME NEW ms \in Seq(Messages), NEW st, NEW fi, NEW g \in Nat, AllTrue(ms, st, fi, g)
    PROVE  AllTrue(ms, st, fi, g + 1)
<1> SUFFICES ASSUME NEW i \in DOMAIN ms PROVE IsTrue(ms[i], st, fi, g + 1)
    BY DEF AllTrue
<1>1. ms[i] \in Messages /\ IsTrue(ms[i], st, fi, g)
    BY DEF AllTrue
<1>2. CASE ms[i].kind = "results"
  <2> SUFFICES ASSUME NEW r \in ms[i].res
               PROVE  /\ r[2] = "done" => r[1] \in fi
                      /\ r[2] = "uncertain" => r[1] \notin fi
                      /\ r[2] \in {"blocked", "interrupted"} => r[1] \notin st
                      /\ r[1][1] <= g + 1
    BY DEF IsTrue
  <2>1. r \in CallIds \X Says
    BY <1>1, <1>2, MessageKinds
  <2>2. r[1][1] \in Nat
    BY <2>1, Bounds DEF CallIds, Gens
  <2>3. /\ r[2] = "done" => r[1] \in fi
        /\ r[2] = "uncertain" => r[1] \notin fi
        /\ r[2] \in {"blocked", "interrupted"} => r[1] \notin st
        /\ r[1][1] <= g
    BY <1>1, <1>2 DEF IsTrue
  <2> DEFINE x == r[1][1]
  <2>4. x <= g + 1
    <3>1. x \in Nat /\ x <= g
      BY <2>2, <2>3
    <3> HIDE DEF x
    <3> QED
      BY <3>1
  <2> QED
    BY <2>3, <2>4
<1>3. CASE ms[i].kind # "results"
    BY <1>3 DEF IsTrue
<1> QED
    BY <1>2, <1>3

\* A call nobody was told of may start or finish.
LEMMA Unmentioned ==
    ASSUME NEW ms \in Seq(Messages), NEW st, NEW fi, NEW g, AllTrue(ms, st, fi, g),
           NEW c, c \notin AnsweredIn(ms)
    PROVE  AllTrue(ms, st \cup {c}, fi, g) /\ AllTrue(ms, st, fi \cup {c}, g)
<1> SUFFICES ASSUME NEW i \in DOMAIN ms
             PROVE IsTrue(ms[i], st \cup {c}, fi, g) /\ IsTrue(ms[i], st, fi \cup {c}, g)
    BY DEF AllTrue
<1>1. IsTrue(ms[i], st, fi, g) /\ c \notin Answers(ms[i])
    BY DEF AllTrue, AnsweredIn
<1> QED
    BY <1>1 DEF IsTrue, Answers

\* Every answer belongs to a generation so far.
LEMMA AnswersOld ==
    ASSUME NEW ms \in Seq(Messages), NEW st, NEW fi, NEW g, AllTrue(ms, st, fi, g), NEW c \in AnsweredIn(ms)
    PROVE  c[1] <= g
<1>1. PICK i \in DOMAIN ms : c \in Answers(ms[i])
    BY DEF AnsweredIn
<1>2. IsTrue(ms[i], st, fi, g)
    BY DEF AllTrue
<1> QED
    BY <1>1, <1>2 DEF IsTrue, Answers

\* A message without results answers nothing.
LEMMA AnsweredAppend ==
    ASSUME NEW ms \in Seq(Messages), NEW x \in Messages, Answers(x) = {}
    PROVE  AnsweredIn(Append(ms, x)) = AnsweredIn(ms)
<1> DEFINE n == Len(ms)
           a == Append(ms, x)
<1>1. n \in Nat /\ DOMAIN ms = 1..n /\ DOMAIN a = 1..(n + 1) /\ a[n + 1] = x /\ \A i \in 1..n : a[i] = ms[i]
    BY Appended
<1> HIDE DEF n, a
<1>2. \A i \in 1..(n + 1) : i = n + 1 \/ i \in 1..n
    BY <1>1
<1>3. \A i \in 1..n : i \in 1..(n + 1)
    BY <1>1
<1>4. \A c : (\E i \in DOMAIN a : c \in Answers(a[i])) <=> (\E i \in DOMAIN ms : c \in Answers(ms[i]))
    BY <1>1, <1>2, <1>3
<1> QED
    BY <1>4 DEF AnsweredIn, a

\* A prompt is in ms when one of its messages is.
LEMMA PromptIn ==
    ASSUME NEW ms, NEW p
    PROVE  p \in PromptsIn(ms) <=> \E i \in DOMAIN ms : ms[i].kind = "user" /\ ms[i].of = p
    BY DEF PromptsIn

\* No message, no prompt.
LEMMA PromptsNone == PromptsIn(<< >>) = {}
    BY DEF PromptsIn

\* The prompt of one message.
LEMMA PromptsOne ==
    ASSUME NEW x
    PROVE  PromptsIn(<<x>>) = IF x.kind = "user" THEN {x.of} ELSE {}
<1>1. DOMAIN <<x>> = {1} /\ <<x>>[1] = x
    OBVIOUS
<1> QED
    BY <1>1 DEF PromptsIn

\* The prompts after a push.
LEMMA PromptsAppend ==
    ASSUME NEW ms \in Seq(Messages), NEW x \in Messages
    PROVE  PromptsIn(Append(ms, x)) = PromptsIn(ms) \cup PromptsIn(<<x>>)
<1> DEFINE n == Len(ms)
           a == Append(ms, x)
<1>1. n \in Nat /\ DOMAIN ms = 1..n /\ DOMAIN a = 1..(n + 1) /\ a[n + 1] = x /\ \A i \in 1..n : a[i] = ms[i]
    BY Appended
<1> HIDE DEF n, a
<1>2. \A i \in 1..(n + 1) : i = n + 1 \/ i \in 1..n
    BY <1>1
<1>3. (\A i \in 1..n : i \in 1..(n + 1)) /\ n + 1 \in 1..(n + 1)
    BY <1>1
<1>4. \A p : (\E i \in DOMAIN a : a[i].kind = "user" /\ a[i].of = p) <=>
               \/ \E i \in DOMAIN ms : ms[i].kind = "user" /\ ms[i].of = p
               \/ x.kind = "user" /\ x.of = p
    BY <1>1, <1>2, <1>3
<1>5. \A p : p \in PromptsIn(a) <=> p \in PromptsIn(ms) \cup PromptsIn(<<x>>)
    BY <1>4, PromptIn, PromptsOne
<1> QED
    BY <1>5 DEF a

\* The prompts of a concatenation.
LEMMA PromptsConcat ==
    ASSUME NEW a \in Seq(Messages), NEW b \in Seq(Messages)
    PROVE  PromptsIn(a \o b) = PromptsIn(a) \cup PromptsIn(b)
<1> DEFINE m == Len(a)
           n == Len(b)
           c == a \o b
<1>1. /\ m \in Nat /\ n \in Nat /\ DOMAIN a = 1..m /\ DOMAIN b = 1..n /\ DOMAIN c = 1..(m + n)
      /\ (\A i \in 1..m : c[i] = a[i]) /\ \A i \in 1..n : c[m + i] = b[i]
    BY Concat
<1>2. \A i \in 1..(m + n) : \/ i \in 1..m /\ c[i] = a[i]
                            \/ \E k \in 1..n : i = m + k /\ c[i] = b[k]
  <2> TAKE i \in 1..(m + n)
  <2>1. i \in 1..(Len(a) + Len(b))
    OBVIOUS
  <2>2. \/ i \in 1..Len(a) /\ (a \o b)[i] = a[i]
        \/ \E k \in 1..Len(b) : i = Len(a) + k /\ (a \o b)[i] = b[k]
    BY <2>1, ConcatAt
  <2> QED
    BY <2>2, Zenon
<1> HIDE DEF m, n, c
<1>3. (\A i \in 1..m : i \in 1..(m + n)) /\ \A i \in 1..n : m + i \in 1..(m + n)
    BY <1>1
<1>4. \A p : (\E i \in DOMAIN c : c[i].kind = "user" /\ c[i].of = p) <=>
               \/ \E i \in DOMAIN a : a[i].kind = "user" /\ a[i].of = p
               \/ \E i \in DOMAIN b : b[i].kind = "user" /\ b[i].of = p
  <2> TAKE p
  <2>1. ASSUME NEW i \in DOMAIN c, c[i].kind = "user" /\ c[i].of = p
        PROVE  \/ \E j \in DOMAIN a : a[j].kind = "user" /\ a[j].of = p
               \/ \E j \in DOMAIN b : b[j].kind = "user" /\ b[j].of = p
    <3>1. \/ i \in 1..m /\ c[i] = a[i]
          \/ \E k \in 1..n : i = m + k /\ c[i] = b[k]
      BY <1>1, <1>2
    <3> QED
      BY <1>1, <2>1, <3>1, Zenon
  <2>2. ASSUME NEW i \in DOMAIN a, a[i].kind = "user" /\ a[i].of = p
        PROVE  \E j \in DOMAIN c : c[j].kind = "user" /\ c[j].of = p
    <3>1. i \in DOMAIN c /\ c[i] = a[i]
      BY <1>1, <1>3
    <3> QED
      BY <2>2, <3>1
  <2>3. ASSUME NEW i \in DOMAIN b, b[i].kind = "user" /\ b[i].of = p
        PROVE  \E j \in DOMAIN c : c[j].kind = "user" /\ c[j].of = p
    <3>1. m + i \in DOMAIN c /\ c[m + i] = b[i]
      BY <1>1, <1>3
    <3> QED
      BY <2>3, <3>1
  <2> QED
    BY <2>1, <2>2, <2>3
<1>5. \A p : p \in PromptsIn(c) <=> p \in PromptsIn(a) \cup PromptsIn(b)
    BY <1>4, PromptIn
<1> QED
    BY <1>5 DEF c

\* The same user turns hold the same prompts.
LEMMA PromptsSame ==
    ASSUME NEW a, NEW b, SameTurns(a, b)
    PROVE  PromptsIn(a) = PromptsIn(b)
<1>1. \A p : (\E i \in DOMAIN a : a[i].kind = "user" /\ a[i].of = p) <=>
             (\E i \in DOMAIN b : b[i].kind = "user" /\ b[i].of = p)
    BY DEF SameTurns, IsUserTurn
<1>2. \A p : p \in PromptsIn(a) <=> p \in PromptsIn(b)
    BY <1>1, PromptIn
<1> QED
    BY <1>2

\* The part of a run's messages after its base.
LEMMA TailFacts ==
    ASSUME NEW base \in Seq(Messages), NEW ms \in Seq(Messages), NEW u, IsUserTurn(u), Extends(base, ms, u)
    PROVE  /\ SubSeq(ms, Len(base) + 1, Len(ms)) \in Seq(Messages)
           /\ SubSeq(ms, Len(base) + 1, Len(ms)) # << >> /\ SubSeq(ms, Len(base) + 1, Len(ms))[1] = u
           /\ PromptsIn(SubSeq(ms, Len(base) + 1, Len(ms))) = PromptsIn(<<u>>)
           /\ PromptsIn(ms) = PromptsIn(base) \cup PromptsIn(<<u>>)
           /\ \A st, fi, g : Open(ms, st, fi, g) => Open(SubSeq(ms, Len(base) + 1, Len(ms)), st, fi, g)
<1> DEFINE s == SubSeq(ms, Len(base) + 1, Len(ms))
           k == Len(base) + 1
           n == Len(ms) - k + 1
           b == Len(base)
           l == Len(ms)
<1>0. b \in Nat /\ l \in Nat /\ b < l /\ DOMAIN base = 1..b /\ DOMAIN ms = 1..l
    BY DEF Extends
<1>1. k \in 1..Len(ms) /\ k \in 1..(Len(ms) + 1) /\ n \in Nat /\ n >= 1 /\ k = b + 1 /\ n = l - b
    BY <1>0
<1>2. ms[k] = u /\ (\A i \in 1..b : ms[i] = base[i]) /\ \A i \in 1..l : i > k => ms[i].kind # "user"
    BY <1>0 DEF Extends
<1>30. s = SubSeq(ms, k, Len(ms)) /\ n = Len(ms) - k + 1
    OBVIOUS
<1> HIDE DEF k, n, s
<1>3. /\ s \in Seq(Messages) /\ Len(s) = n /\ DOMAIN s = 1..n
      /\ \A i \in 1..n : s[i] = ms[k + i - 1] /\ k + i - 1 \in 1..Len(ms)
    BY <1>1, <1>30, SuffixSeq
<1>4. s # << >> /\ s[1] = u
  <2>1. 1 \in 1..n /\ k + 1 - 1 = k
    BY <1>0, <1>1
  <2>2. s[1] = u
    BY <1>2, <1>3, <2>1
  <2>3. s # << >>
    <3>1. Len(s) # 0
      BY <1>1, <1>3
    <3> QED
      BY <3>1
  <2> QED
    BY <2>2, <2>3
<1>5. \A i \in 1..n : s[i].kind = "user" => i = 1
  <2>1. \A i \in 1..n : i # 1 => k + i - 1 > k
    BY <1>0, <1>1
  <2> QED
    BY <1>2, <1>3, <2>1
<1>6. 1 \in DOMAIN s
    BY <1>1, <1>3
<1>7. \A p : p \in PromptsIn(s) <=> p \in PromptsIn(<<u>>)
  <2>1. \A p : (\E i \in DOMAIN s : s[i].kind = "user" /\ s[i].of = p) <=> u.kind = "user" /\ u.of = p
    BY <1>3, <1>4, <1>5, <1>6
  <2> TAKE p
  <2>2. p \in PromptsIn(s) <=> \E i \in DOMAIN s : s[i].kind = "user" /\ s[i].of = p
    BY PromptIn
  <2>3. p \in PromptsIn(<<u>>) <=> u.kind = "user" /\ u.of = p
    BY PromptsOne
  <2> QED
    BY <2>1, <2>2, <2>3
<1>8. \A p : p \in PromptsIn(ms) <=> p \in PromptsIn(base) \cup PromptsIn(<<u>>)
  <2>1. \A i \in 1..l : i \in 1..b \/ i = k \/ i > k
    BY <1>0, <1>1
  <2>2. k \in 1..l /\ \A i \in 1..b : i \in 1..l
    BY <1>0, <1>1
  <2> HIDE DEF b, l
  <2>3. \A p : (\E i \in 1..l : ms[i].kind = "user" /\ ms[i].of = p) <=>
                 \/ \E i \in 1..b : base[i].kind = "user" /\ base[i].of = p
                 \/ u.kind = "user" /\ u.of = p
    BY <1>2, <2>1, <2>2
  <2> TAKE p
  <2>4. p \in PromptsIn(ms) <=> \E i \in DOMAIN ms : ms[i].kind = "user" /\ ms[i].of = p
    BY PromptIn
  <2>5. p \in PromptsIn(base) <=> \E i \in DOMAIN base : base[i].kind = "user" /\ base[i].of = p
    BY PromptIn
  <2>6. p \in PromptsIn(<<u>>) <=> u.kind = "user" /\ u.of = p
    BY PromptsOne
  <2> QED
    BY <1>0, <2>3, <2>4, <2>5, <2>6
<1>9. ASSUME NEW st, NEW fi, NEW g, Open(ms, st, fi, g) PROVE Open(s, st, fi, g)
  <2>1. ms[k].kind # "results" /\ s = SubSeq(ms, k, Len(ms))
    BY <1>2, <1>30 DEF IsUserTurn
  <2>2. Half(s) /\ Missing(s) = Missing(ms)
    BY <1>1, <1>9, <2>1, SuffixHalf DEF Open
  <2>3. AllTrue(s, st, fi, g)
    BY <1>1, <1>9, <2>1, SuffixTrue DEF Open
  <2> QED
    BY <1>9, <2>2, <2>3 DEF Open
<1> QED
    BY <1>3, <1>4, <1>7, <1>8, <1>9 DEF s

\* A run goes on with a message that is no prompt.
LEMMA ExtendsAppend ==
    ASSUME NEW base \in Seq(Messages), NEW ms \in Seq(Messages), NEW u, Extends(base, ms, u),
           NEW x \in Messages, x.kind # "user"
    PROVE  Extends(base, Append(ms, x), u)
<1> DEFINE b == Len(base)
           l == Len(ms)
           a == Append(ms, x)
<1>0. b \in Nat /\ l \in Nat /\ b < l /\ DOMAIN base = 1..b /\ DOMAIN ms = 1..l
    BY DEF Extends
<1>1. Len(a) = l + 1 /\ DOMAIN a = 1..(l + 1) /\ a[l + 1] = x /\ \A i \in 1..l : a[i] = ms[i]
    BY Appended
<1>2. ms[b + 1] = u /\ (\A i \in 1..b : ms[i] = base[i]) /\ \A i \in 1..l : i > b + 1 => ms[i].kind # "user"
    BY <1>0 DEF Extends
<1> HIDE DEF b, l, a
<1>3. b < l + 1 /\ b + 1 \in 1..l /\ (\A i \in 1..b : i \in 1..l) /\ \A i \in 1..(l + 1) : i = l + 1 \/ i \in 1..l
    BY <1>0
<1>4. a[b + 1] = u /\ (\A i \in 1..b : a[i] = base[i]) /\ \A i \in 1..(l + 1) : i > b + 1 => a[i].kind # "user"
    BY <1>1, <1>2, <1>3
<1> QED
    BY <1>0, <1>1, <1>3, <1>4 DEF Extends, a, b

\* A run without its last message.
LEMMA ExtendsFront ==
    ASSUME NEW base \in Seq(Messages), NEW ms \in Seq(Messages), NEW u, Extends(base, ms, u),
           Len(base) + 1 < Len(ms)
    PROVE  /\ Extends(base, SubSeq(ms, 1, Len(ms) - 1), u) /\ SubSeq(ms, 1, Len(ms) - 1) \in Seq(Messages)
           /\ SubSeq(ms, 1, Len(ms) - 1) # << >>
           /\ Len(SubSeq(ms, 1, Len(ms) - 1)) = Len(ms) - 1
<1> DEFINE b == Len(base)
           l == Len(ms)
           n == l - 1
           a == SubSeq(ms, 1, n)
<1>0. b \in Nat /\ l \in Nat /\ b + 1 < l /\ DOMAIN base = 1..b /\ DOMAIN ms = 1..l
    BY DEF Extends
<1>01. n \in 0..Len(ms) /\ n > 0 /\ n \in Nat /\ b < n /\ n + 1 = l
    BY <1>0
<1>1. a \in Seq(Messages) /\ Len(a) = n /\ DOMAIN a = 1..n /\ \A i \in 1..n : a[i] = ms[i]
  <2> HIDE DEF n
  <2> QED
    BY <1>01, PrefixSeq
<1>2. ms[b + 1] = u /\ (\A i \in 1..b : ms[i] = base[i]) /\ \A i \in 1..l : i > b + 1 => ms[i].kind # "user"
    BY <1>0 DEF Extends
<1> HIDE DEF b, l, a, n
<1>3. b + 1 \in 1..n /\ (\A i \in 1..b : i \in 1..n) /\ \A i \in 1..n : i \in 1..l
    BY <1>0, <1>01
<1>4. a[b + 1] = u /\ (\A i \in 1..b : a[i] = base[i]) /\ \A i \in 1..n : i > b + 1 => a[i].kind # "user"
    BY <1>1, <1>2, <1>3
<1>5. Extends(base, a, u)
    BY <1>0, <1>01, <1>1, <1>4 DEF Extends, b
<1>6. a # << >>
    BY <1>01, <1>1
<1> QED
    BY <1>1, <1>5, <1>6 DEF a, n, l

\* close_orphan_tool_calls on a run whose last message may hold calls nobody answered.
LEMMA Closed ==
    ASSUME NEW ms \in Seq(Messages), ms # << >>, NEW st, NEW fi, NEW g,
           NEW C, C = Makes(ms[Len(ms)]),
           Half(ms), Missing(ms) = C, AllTrue(ms, st, fi, g),
           \A c \in C : c \notin AnsweredIn(ms) /\ c \notin st /\ c[1] <= g
    PROVE  /\ Sound(CloseOrphans(ms), st, fi, g) /\ CloseOrphans(ms) \in Seq(Messages)
           /\ \/ C = {} /\ CloseOrphans(ms) = ms /\ ~HasOrphans(ms)
              \/ /\ HasOrphans(ms) /\ CloseOrphans(ms) = Append(ms, Results(C \X {"interrupted"}))
                 /\ Results(C \X {"interrupted"}) \in Messages
                 /\ Results(C \X {"interrupted"}).kind = "results"
<1>0. CloseOrphans(ms) \in Seq(Messages) /\ ms[Len(ms)] \in Messages
    BY CloseTyped
<1>1. CASE C = {}
  <2>1. Paired(ms)
    BY <1>1, PairedIsHalf
  <2> QED
    BY <1>0, <1>1, <2>1, CloseNone DEF Sound
<1>2. CASE C # {}
  <2> DEFINE x == Results(C \X {"interrupted"})
  <2>1. CloseOrphans(ms) = Append(ms, x) /\ HasOrphans(ms)
    BY <1>2, CloseLast
  <2>2. C \subseteq CallIds
    BY <1>0, MessageKinds
  <2>3. C \X {"interrupted"} \in SUBSET (CallIds \X Says)
    BY <2>2 DEF Says
  <2>4. x \in Messages /\ x.kind = "results" /\ x.res = C \X {"interrupted"} /\ Answers(x) = {r[1] : r \in C \X {"interrupted"}}
    BY <2>3, MessageMade
  <2>5. Answers(x) = C
    <3>1. \A c \in C : <<c, "interrupted">> \in C \X {"interrupted"} /\ <<c, "interrupted">>[1] = c
      OBVIOUS
    <3>2. \A r \in C \X {"interrupted"} : r[1] \in C
      OBVIOUS
    <3>3. {r[1] : r \in C \X {"interrupted"}} = C
      BY <3>1, <3>2
    <3> QED
      BY <2>4, <3>3
  <2>6. IsTrue(x, st, fi, g)
    BY <2>4 DEF IsTrue
  <2> HIDE DEF x
  <2>7. Half(Append(ms, x)) /\ Missing(Append(ms, x)) = C \ C
    BY <1>2, <2>4, <2>5, AppendResults
  <2>8. Append(ms, x) \in Seq(Messages) /\ AllTrue(Append(ms, x), st, fi, g)
    BY <2>4, <2>6, Appended, AppendTrue
  <2>9. Paired(Append(ms, x))
    BY <2>7, <2>8, PairedIsHalf
  <2>10. Sound(CloseOrphans(ms), st, fi, g)
    BY <2>1, <2>8, <2>9 DEF Sound
  <2> QED
    BY <1>0, <2>1, <2>4, <2>10 DEF x
<1> QED
    BY <1>1, <1>2

\* The run ends on a user-side message.
LEMMA UserSideLast ==
    ASSUME NEW ms \in Seq(Messages), ms # << >>, ms[Len(ms)].kind # "assistant"
    PROVE  UserSide(ms)
<1>1. Len(ms) \in DOMAIN ms /\ \A j \in DOMAIN ms : ~(j > Len(ms))
    OBVIOUS
<1> QED
    BY <1>1 DEF UserSide

\* A user-side message is pushed.
LEMMA UserSideAppend ==
    ASSUME NEW ms \in Seq(Messages), NEW x \in Messages, x.kind # "assistant"
    PROVE  UserSide(Append(ms, x))
<1> DEFINE a == Append(ms, x)
<1>1. a \in Seq(Messages) /\ Len(a) = Len(ms) + 1 /\ a[Len(ms) + 1] = x /\ Len(ms) \in Nat
    BY Appended
<1> HIDE DEF a
<1>2. a # << >> /\ a[Len(a)] = x
  <2>1. Len(a) # 0
    BY <1>1
  <2> QED
    BY <1>1, <2>1
<1>3. UserSide(a)
    BY <1>1, <1>2, UserSideLast
<1> QED
    BY <1>3 DEF a

\* An empty failed attempt changes nothing.
LEMMA UserSideHusk ==
    ASSUME NEW ms \in Seq(Messages), ms # << >>, IsHusk(ms[Len(ms)]),
           UserSide(SubSeq(ms, 1, Len(ms) - 1))
    PROVE  UserSide(ms)
<1> DEFINE l == Len(ms)
           n == l - 1
           a == SubSeq(ms, 1, n)
<1>0. l \in Nat /\ l # 0 /\ DOMAIN ms = 1..l
    OBVIOUS
<1>1. n \in 0..Len(ms) /\ n \in Nat /\ n + 1 = l
    BY <1>0
<1>2. DOMAIN a = 1..n /\ \A i \in 1..n : a[i] = ms[i]
  <2> HIDE DEF n
  <2> QED
    BY <1>1, PrefixSeq
<1>3. PICK i \in DOMAIN a : a[i].kind # "assistant" /\ \A j \in DOMAIN a : j > i => IsHusk(a[j])
  <2>1. UserSide(a)
    OBVIOUS
  <2> HIDE DEF a
  <2> QED
    BY <2>1 DEF UserSide
<1>4. IsHusk(ms[l])
    OBVIOUS
<1> HIDE DEF l, n, a
<1>5. i \in 1..l /\ \A j \in 1..l : j \in 1..n \/ j = l
    BY <1>0, <1>1, <1>2
<1>6. ms[i].kind # "assistant" /\ \A j \in 1..l : j > i => IsHusk(ms[j])
    BY <1>2, <1>3, <1>4, <1>5
<1> QED
    BY <1>0, <1>5, <1>6 DEF UserSide

\* Cutting a sound history where no results begin.
LEMMA PrefixSound ==
    ASSUME NEW h \in Seq(Messages), NEW n \in 0..Len(h), NEW st, NEW fi, NEW g, Sound(h, st, fi, g),
           n = Len(h) \/ h[n + 1].kind # "results"
    PROVE  Sound(SubSeq(h, 1, n), st, fi, g)
    BY PrefixPaired, PrefixTrue DEF Sound

\* The same with Vec::truncate.
LEMMA TruncatedSound ==
    ASSUME NEW h \in Seq(Messages), NEW n \in Nat, NEW st, NEW fi, NEW g, Sound(h, st, fi, g),
           n < Len(h) => h[n + 1].kind # "results"
    PROVE  /\ Sound(Truncated(h, n), st, fi, g) /\ Truncated(h, n) \in Seq(Messages)
           /\ PromptsIn(Truncated(h, n)) \subseteq PromptsIn(h)
<1>1. CASE n < Len(h)
  <2>1. n \in 0..Len(h)
    BY <1>1
  <2>2. Sound(SubSeq(h, 1, n), st, fi, g)
    BY <1>1, <2>1, PrefixSound
  <2>3. SubSeq(h, 1, n) \in Seq(Messages) /\ DOMAIN SubSeq(h, 1, n) = 1..n /\ \A i \in 1..n : SubSeq(h, 1, n)[i] = h[i] /\ i \in DOMAIN h
    BY <2>1, PrefixSeq
  <2> DEFINE a == SubSeq(h, 1, n)
  <2> HIDE DEF a
  <2>4. \A p : p \in PromptsIn(a) => p \in PromptsIn(h)
    <3> SUFFICES ASSUME NEW p, p \in PromptsIn(a) PROVE p \in PromptsIn(h)
      OBVIOUS
    <3>1. PICK i \in DOMAIN a : a[i].kind = "user" /\ a[i].of = p
      BY PromptIn
    <3>2. i \in DOMAIN h /\ h[i] = a[i]
      BY <2>3 DEF a
    <3> QED
      BY <3>1, <3>2, PromptIn
  <2> QED
    BY <1>1, <2>2, <2>3, <2>4 DEF Truncated, a
<1>2. CASE ~(n < Len(h))
    BY <1>2 DEF Truncated
<1> QED
    BY <1>1, <1>2

\* A sequence is a prefix and the rest.
LEMMA SplitSeq ==
    ASSUME NEW ms \in Seq(Messages), NEW l \in 0..Len(ms)
    PROVE  ms = SubSeq(ms, 1, l) \o SubSeq(ms, l + 1, Len(ms))
<1> DEFINE n == Len(ms)
           k == l + 1
           fst == SubSeq(ms, 1, l)
           snd == SubSeq(ms, k, n)
           q == n - k + 1
           c == fst \o snd
<1>1. n \in Nat /\ l \in Nat /\ l <= n /\ k \in 1..(Len(ms) + 1) /\ q = n - l /\ DOMAIN ms = 1..n
    OBVIOUS
<1>2. fst \in Seq(Messages) /\ Len(fst) = l /\ \A i \in 1..l : fst[i] = ms[i]
    BY PrefixSeq
<1>3. snd \in Seq(Messages) /\ Len(snd) = q /\ q \in Nat /\ \A i \in 1..q : snd[i] = ms[k + i - 1]
  <2> HIDE DEF k
  <2> QED
    BY <1>1, SuffixSeq
<1>4. k = l + 1
    OBVIOUS
<1> HIDE DEF fst, snd, q, n, k
<1>5. /\ c \in Seq(Messages) /\ Len(c) = l + q /\ DOMAIN c = 1..(l + q)
      /\ (\A i \in 1..l : c[i] = fst[i]) /\ \A i \in 1..q : c[l + i] = snd[i]
  <2>1. /\ fst \in Seq(Messages) /\ snd \in Seq(Messages) /\ Len(fst) = l /\ Len(snd) = q
        /\ l \in Nat /\ q \in Nat
    BY <1>1, <1>2, <1>3
  <2>2. c \in Seq(Messages) /\ Len(c) = l + q
    BY <2>1
  <2>3. DOMAIN c = 1..(l + q)
    BY <2>2
  <2>4. ASSUME NEW i \in 1..l PROVE c[i] = fst[i]
    BY <2>1
  <2>5. ASSUME NEW i \in 1..q PROVE c[l + i] = snd[i]
    BY <2>1
  <2> QED
    BY <2>2, <2>3, <2>4, <2>5
<1> HIDE DEF c
<1>6. ASSUME NEW i \in 1..(l + q) PROVE c[i] = ms[i]
  <2>1. CASE i <= l
    <3>1. i \in 1..l
      BY <1>1, <1>3, <2>1
    <3> QED
      BY <1>2, <1>5, <3>1
  <2>2. CASE ~(i <= l)
    <3> DEFINE j == i - l
    <3>1. j \in 1..q /\ i = l + j /\ k + j - 1 = i
      BY <1>1, <1>3, <1>4, <2>2
    <3> HIDE DEF j
    <3> QED
      BY <1>3, <1>5, <3>1
  <2> QED
    BY <2>1, <2>2
<1>7. l + q = n
    BY <1>1, <1>3
<1>8. c = ms
    BY <1>1, <1>5, <1>6, <1>7 DEF n
<1> QED
    BY <1>8 DEF c, fst, snd, k, n

\* Two sound parts.
LEMMA ConcatSound ==
    ASSUME NEW a \in Seq(Messages), NEW b \in Seq(Messages), NEW st, NEW fi, NEW g,
           Sound(a, st, fi, g), Sound(b, st, fi, g)
    PROVE  Sound(a \o b, st, fi, g) /\ a \o b \in Seq(Messages)
    BY ConcatPaired, ConcatTrue, Concat DEF Sound

\* A message without calls and results.
LEMMA OneSound ==
    ASSUME NEW x \in Messages, x.kind # "results", Makes(x) = {}, NEW st, NEW fi, NEW g
    PROVE  Sound(<<x>>, st, fi, g) /\ <<x>> \in Seq(Messages)
<1>1. DOMAIN <<x>> = {1} /\ <<x>>[1] = x
    OBVIOUS
<1> QED
    BY <1>1 DEF Sound, Paired, AllTrue, IsTrue

\* No message.
LEMMA NoneSound == ASSUME NEW st, NEW fi, NEW g PROVE Sound(<< >>, st, fi, g)
    BY DEF Sound, Paired, AllTrue

\* A message without calls and results, pushed.
LEMMA AppendSound ==
    ASSUME NEW a \in Seq(Messages), NEW x \in Messages, x.kind # "results", Makes(x) = {}, NEW st, NEW fi, NEW g,
           Sound(a, st, fi, g)
    PROVE  Sound(Append(a, x), st, fi, g) /\ Append(a, x) \in Seq(Messages)
<1>1. IsTrue(x, st, fi, g)
    BY DEF IsTrue
<1> QED
    BY <1>1, AppendPaired, AppendTrue, Appended DEF Sound

\* A user turn holds no call and no result.
LEMMA UserPlain ==
    ASSUME NEW u, IsUserTurn(u)
    PROVE  u.kind # "results" /\ u.kind # "assistant" /\ Makes(u) = {}
    BY DEF IsUserTurn, Makes

\* What the journal's turn is based on is sound.
LEMMA BaseSound ==
    ASSUME TypeInv, Inside
    PROVE  /\ BaseHist \in Seq(Messages) /\ Sound(BaseHist, started, finished, gens)
           /\ PromptsIn(BaseHist) \subseteq PromptsIn(history)
<1>1. history \in Seq(Messages) /\ journal.from \in Nat
    BY Typed
<1>2. Sound(history, started, finished, gens)
    BY DEF Inside, StoreInv
<1>3. CASE journal.mode = "replace"
  <2>1. journal.from < Len(history) => history[journal.from + 1].kind # "results"
    BY <1>3 DEF Inside, SuffixInv
  <2> QED
    BY <1>1, <1>2, <1>3, <2>1, TruncatedSound DEF BaseHist
<1>4. CASE journal.mode # "replace"
    BY <1>1, <1>2, <1>4 DEF BaseHist
<1> QED
    BY <1>3, <1>4

\* finalize_cancelled_turn leaves a sound history with all its prompts.
LEMMA PromotedSound ==
    ASSUME TypeInv, Inside, journal # NoJournal
    PROVE  /\ Promoted(history) = BaseHist \o Materialize(journal.suffix)
           /\ Promoted(history) \in Seq(Messages) /\ Sound(Promoted(history), started, finished, gens)
           /\ PromptsIn(Promoted(history)) = PromptsIn(BaseHist) \cup PromptsIn(journal.suffix)
           /\ Materialize(journal.suffix) \in Seq(Messages)
           /\ SameTurns(journal.suffix, Materialize(journal.suffix))
<1> DEFINE s == journal.suffix
           M == Materialize(s)
<1>1. s \in Seq(Messages) /\ journal.mode \in {"append", "replace"}
    BY Typed DEF TypeInv, ModeInv
<1>2. s # << >> /\ Open(s, started, finished, gens)
    BY DEF Inside, SuffixInv
<1>3. Sound(M, started, finished, gens) /\ SameTurns(s, M)
    BY <1>1, <1>2, Materialized
<1>4. M \in Seq(Messages)
    BY <1>1, MatTyped
<1>5. Promoted(history) = BaseHist \o M
    BY <1>1 DEF Promoted, BaseHist
<1>6. PromptsIn(M) = PromptsIn(s)
    BY <1>3, PromptsSame
<1> HIDE DEF s, M
<1>7. Sound(BaseHist \o M, started, finished, gens) /\ BaseHist \o M \in Seq(Messages)
    BY <1>3, <1>4, BaseSound, ConcatSound
<1>8. PromptsIn(BaseHist \o M) = PromptsIn(BaseHist) \cup PromptsIn(M)
    BY <1>4, BaseSound, PromptsConcat
<1> QED
    BY <1>3, <1>4, <1>5, <1>6, <1>7, <1>8 DEF s, M

\* The same, when there may be no journal.
LEMMA FinalizedSound ==
    ASSUME TypeInv, Inside
    PROVE  /\ Finalized \in Seq(Messages) /\ Sound(Finalized, started, finished, gens)
           /\ PromptsIn(Finalized) = PromptsIn(BaseHist) \cup PromptsIn(journal.suffix)
<1>1. CASE journal = NoJournal
  <2>1. Finalized = history /\ BaseHist = history /\ journal.suffix = << >>
    BY <1>1, NoJournalTyped DEF Finalized, BaseHist
  <2> QED
    BY <2>1, Typed, PromptsNone DEF Inside, StoreInv
<1>2. CASE journal # NoJournal
    BY <1>2, PromotedSound DEF Finalized
<1> QED
    BY <1>1, <1>2

\* insert_assistant_turn_prefix splits the history after its last user turn.
LEMMA WithPrefixSound ==
    ASSUME NEW ms \in Seq(Messages), NEW st, NEW fi, NEW g, Sound(ms, st, fi, g)
    PROVE  Sound(WithPrefix(ms), st, fi, g) /\ PromptsIn(WithPrefix(ms)) = PromptsIn(ms)
<1> DEFINE l == LastUserTurn(ms)
           A == Assistant({}, TRUE)
           n == Len(ms)
<1>1. A \in Messages /\ A.kind = "assistant" /\ Makes(A) = {}
    BY MessageMade
<1>2. l \in 0..Len(ms) /\ (l > 0 => IsUserTurn(ms[l])) /\ n \in Nat /\ DOMAIN ms = 1..n
    BY LastTurn
<1>3. CASE Prefix /\ l > 0
  <2> DEFINE a == SubSeq(ms, 1, l)
             b == SubSeq(ms, l + 1, n)
  <2>0. l \in 1..n /\ (l + 1) - 1 = l
    BY <1>2, <1>3
  <2>1. WithPrefix(ms) = a \o <<A>> \o b
    BY <1>3, <2>0 DEF WithPrefix, InsertAt
  <2>2. l = n \/ ms[l + 1].kind # "results"
    <3>1. ASSUME l # n, ms[l + 1].kind = "results" PROVE FALSE
      <4>1. l + 1 \in 1..n
        BY <1>2, <2>0, <3>1
      <4>2. Makes(ms[(l + 1) - 1]) # {}
        BY <1>2, <3>1, <4>1 DEF Sound, Paired
      <4>3. Makes(ms[l]) = {}
        BY <1>2, <1>3, UserPlain
      <4> QED
        BY <2>0, <4>2, <4>3
    <3> QED
      BY <3>1
  <2> HIDE DEF l, A
  <2>3. a \in Seq(Messages) /\ Sound(a, st, fi, g)
    BY <1>2, <2>2, PrefixSeq, PrefixSound
  <2>4. b \in Seq(Messages) /\ Sound(b, st, fi, g)
    <3>1. CASE l = n
      <4>1. b = << >>
        BY <1>2, <3>1
      <4> HIDE DEF b
      <4>2. << >> \in Seq(Messages)
        OBVIOUS
      <4> QED
        BY <4>1, <4>2, NoneSound
    <3>2. CASE l # n
      <4>1. l + 1 \in 1..Len(ms) /\ l + 1 \in 1..(Len(ms) + 1)
        <5>1. n \in Nat /\ l \in 1..n /\ l # n
          BY <1>2, <2>0, <3>2
        <5> HIDE DEF n
        <5>2. l + 1 \in 1..n /\ l + 1 \in 1..(n + 1)
          BY <5>1
        <5> QED
          BY <5>2 DEF n
      <4> QED
        BY <2>2, <3>2, <4>1, SuffixSeq, SuffixPaired, SuffixTrue DEF Sound
    <3> QED
      BY <3>1, <3>2
  <2>5. ms = a \o b
    BY <1>2, SplitSeq
  <2> HIDE DEF a, b
  <2>6. <<A>> \in Seq(Messages) /\ Sound(<<A>>, st, fi, g) /\ PromptsIn(<<A>>) = {}
    BY <1>1, OneSound, PromptsOne
  <2>7. a \o <<A>> \in Seq(Messages) /\ Sound(a \o <<A>>, st, fi, g) /\ PromptsIn(a \o <<A>>) = PromptsIn(a)
    <3>1. PromptsIn(a \o <<A>>) = PromptsIn(a) \cup PromptsIn(<<A>>)
      BY <2>3, <2>6, PromptsConcat
    <3> QED
      BY <2>3, <2>6, <3>1, ConcatSound
  <2>8. Sound(a \o <<A>> \o b, st, fi, g) /\ PromptsIn(a \o <<A>> \o b) = PromptsIn(a) \cup PromptsIn(b)
    BY <2>4, <2>7, ConcatSound, PromptsConcat
  <2>9. PromptsIn(ms) = PromptsIn(a) \cup PromptsIn(b)
    BY <2>3, <2>4, <2>5, PromptsConcat
  <2> QED
    BY <2>1, <2>8, <2>9
<1>4. CASE ~(Prefix /\ l > 0)
    BY <1>4 DEF WithPrefix
<1> QED
    BY <1>3, <1>4

-----------------------------------------------------------------------------
(* A run in progress.                                                       *)

\* A run is not empty.
LEMMA ExtendsNonempty ==
    ASSUME NEW base \in Seq(Messages), NEW ms \in Seq(Messages), NEW u, Extends(base, ms, u)
    PROVE  ms # << >> /\ Len(ms) \in 1..Len(ms) /\ ms[Len(ms)] \in Messages /\ Len(ms) \in Nat
<1>1. Len(base) \in Nat /\ Len(ms) \in Nat /\ Len(base) < Len(ms)
    BY DEF Extends
<1>2. Len(ms) # 0
    BY <1>1
<1> QED
    BY <1>1, <1>2

\* What holds while a run is in progress.
LEMMA RunFacts ==
    ASSUME TypeInv, Inside, pc \in {"request", "settle", "tools"}
    PROVE  /\ BaseHist \in Seq(Messages) /\ turn.base = BaseHist /\ IsUserTurn(turn.user)
           /\ turn.msgs \in Seq(Messages) /\ Extends(BaseHist, turn.msgs, turn.user)
           /\ Written \in Seq(Messages) /\ Extends(BaseHist, Written, turn.user)
           /\ Open(Written, started, finished, gens)
           /\ journal.suffix = SubSeq(Written, Len(BaseHist) + 1, Len(Written))
           /\ disk.msgs = Materialize(Written)
           /\ PromptsIn(journal.suffix) = PromptsIn(<<turn.user>>)
           /\ turn.msgs # << >> /\ turn.msgs[Len(turn.msgs)] \in Messages
           /\ Sound(history, started, finished, gens) /\ history \in Seq(Messages)
<1>1. turn.base = BaseHist /\ Extends(BaseHist, turn.msgs, turn.user)
    BY DEF Inside, BaseInv, Running
<1>2. IsUserTurn(turn.user)
    BY DEF TypeInv, ModeInv, InTurn
<1>3. BaseHist \in Seq(Messages) /\ turn.msgs \in Seq(Messages) /\ turn.results \in SUBSET (CallIds \X Says)
    BY BaseSound, Base, TurnFields
<1>4. Written \in Seq(Messages) /\ Extends(BaseHist, Written, turn.user)
  <2>1. CASE Written = turn.msgs
    BY <1>1, <1>3, <2>1
  <2>2. CASE Written = Batch
    <3>1. Results(turn.results) \in Messages /\ Results(turn.results).kind = "results"
      BY <1>3, MessageMade
    <3> QED
      BY <1>1, <1>3, <2>2, <3>1, Appended, ExtendsAppend DEF Batch
  <2> QED
    BY <2>1, <2>2 DEF Written
<1>5. /\ Open(Written, started, finished, gens)
      /\ journal.suffix = SubSeq(Written, Len(BaseHist) + 1, Len(Written))
      /\ disk.msgs = Materialize(Written)
    BY <1>1 DEF Inside, WrittenInv
<1>6. PromptsIn(journal.suffix) = PromptsIn(<<turn.user>>)
    BY <1>2, <1>3, <1>4, <1>5, TailFacts
<1>7. turn.msgs # << >> /\ turn.msgs[Len(turn.msgs)] \in Messages
    BY <1>1, <1>3, ExtendsNonempty
<1>8. Sound(history, started, finished, gens) /\ history \in Seq(Messages)
    BY Typed DEF Inside, StoreInv
<1> QED
    BY <1>1, <1>2, <1>3, <1>4, <1>5, <1>6, <1>7, <1>8

\* In a turn the journal holds no prompt but the turn's own.
LEMMA SuffixPrompts ==
    ASSUME TypeInv, Inside, pc \in {"start", "attempt", "compact", "request", "settle", "tools"}
    PROVE  PromptsIn(journal.suffix) = PromptsIn(<<turn.user>>)
<1>1. CASE pc \in {"start", "attempt", "compact"}
    BY <1>1 DEF TypeInv, ModeInv
<1>2. CASE pc \in {"request", "settle", "tools"}
    BY <1>2, RunFacts
<1> QED
    BY <1>1, <1>2

\* A step that leaves the run going, with W written to the journal and the disk.
LEMMA RunStep ==
    ASSUME TypeInv, Inside, TypeInv', pc' \in {"request", "settle", "tools"},
           history' = history, journal'.mode = journal.mode, journal'.from = journal.from,
           prompts' = prompts, gone' = gone, drops' = drops,
           turn'.user = turn.user, IsUserTurn(turn.user), turn'.base = BaseHist,
           Extends(BaseHist, turn'.msgs, turn.user),
           NEW W \in Seq(Messages), W = Written', Extends(BaseHist, W, turn.user),
           Open(W, started', finished', gens'),
           journal'.suffix = SubSeq(W, Len(BaseHist) + 1, Len(W)),
           disk'.msgs = Materialize(W),
           Sound(history, started', finished', gens'),
           PromptsIn(journal.suffix) = PromptsIn(<<turn.user>>)
    PROVE  StoreInv' /\ SuffixInv' /\ BaseInv' /\ WrittenInv' /\ KeptInv'
<1>0. BaseHist' = BaseHist /\ BaseHist \in Seq(Messages)
    BY BaseSound DEF BaseHist
<1>1. W # << >>
    BY <1>0, ExtendsNonempty
<1>2. Sound(Materialize(W), started', finished', gens') /\ SameTurns(W, Materialize(W))
    BY <1>1, Materialized
<1>3. StoreInv'
    BY <1>2 DEF StoreInv
<1>4. /\ journal'.suffix # << >> /\ journal'.suffix[1] = turn.user
      /\ PromptsIn(journal'.suffix) = PromptsIn(<<turn.user>>)
      /\ PromptsIn(W) = PromptsIn(BaseHist) \cup PromptsIn(<<turn.user>>)
      /\ Open(journal'.suffix, started', finished', gens')
    BY <1>0, TailFacts
<1>5. SuffixInv'
  <2>1. journal.mode = "replace" /\ journal.from < Len(history) => history[journal.from + 1].kind # "results"
    BY DEF Inside, SuffixInv
  <2> QED
    BY <1>4, <2>1 DEF SuffixInv
<1>6. BaseInv'
    BY <1>0 DEF BaseInv
<1>7. WrittenInv'
    BY <1>0 DEF WrittenInv
<1>8. PromptsIn(disk'.msgs) = PromptsIn(W)
    BY <1>2, PromptsSame
<1>9. KeptInv'
  <2>1. drops \in Nat /\ \A p \in (1..prompts) \ gone : p \in PromptsIn(BaseHist) \cup PromptsIn(<<turn.user>>)
    BY DEF Inside, KeptInv
  <2>2. InTurn'
    BY DEF InTurn
  <2>3. \A p \in (1..prompts') \ gone' : /\ p \in PromptsIn(BaseHist') \cup PromptsIn(journal'.suffix)
                                         /\ p \in PromptsIn(disk'.msgs)
    BY <1>0, <1>4, <1>8, <2>1
  <2> QED
    BY <2>1, <2>2, <2>3 DEF KeptInv
<1> QED
    BY <1>3, <1>5, <1>6, <1>7, <1>9

\* The attempt starts from the base.
LEMMA AttemptInside == ASSUME TypeInv, Inside, TypeInv', Attempt PROVE Inside'
<1> DEFINE ms == Append(BaseHist, turn.user)
<1>0. pc = "attempt" /\ turn \in Turns /\ turn.user \in Messages /\ IsUserTurn(turn.user) /\ journal.mode = turn.mode
      /\ turn.mode \in {"append", "replace"}
  <2>1. pc = "attempt"
    BY DEF Attempt
  <2> QED
    BY <2>1, Typed DEF TypeInv, ModeInv, InTurn
<1>1. (IF turn.mode = "append" THEN history ELSE turn.base) = BaseHist
  <2>1. CASE turn.mode = "append"
    BY <1>0, <2>1 DEF BaseHist
  <2>2. CASE turn.mode = "replace"
    BY <1>0, <2>2 DEF Inside, BaseInv
  <2> QED
    BY <1>0, <2>1, <2>2
<1>2. /\ pc' = "request" /\ BaseHist \in Seq(Messages)
      /\ turn'.base = BaseHist /\ turn'.msgs = ms /\ turn'.user = turn.user
      /\ journal'.suffix = <<turn.user>> /\ journal'.mode = journal.mode /\ journal'.from = journal.from
      /\ disk'.msgs = Materialize(ms) /\ history' = history /\ gens' = gens
      /\ prompts' = prompts /\ drops' = drops
      /\ started' = started /\ finished' = finished /\ gone' = gone
    BY <1>1, AttemptEffect
<1>3. turn.user.kind # "results" /\ turn.user.kind # "assistant" /\ Makes(turn.user) = {}
    BY <1>0, UserPlain
<1>4. Sound(ms, started, finished, gens) /\ ms \in Seq(Messages)
    BY <1>0, <1>3, BaseSound, AppendSound
<1>5. Extends(BaseHist, ms, turn.user) /\ SubSeq(ms, Len(BaseHist) + 1, Len(ms)) = <<turn.user>>
  <2> DEFINE b == Len(BaseHist)
  <2>1. b \in Nat /\ Len(ms) = b + 1 /\ DOMAIN ms = 1..(b + 1) /\ ms[b + 1] = turn.user
        /\ (\A i \in 1..b : ms[i] = BaseHist[i]) /\ DOMAIN BaseHist = 1..b
    BY <1>0, <1>2, Appended
  <2> HIDE DEF ms
  <2>2. SubSeq(ms, b + 1, b + 1) = <<turn.user>>
    <3> DEFINE k == b + 1
               s == SubSeq(ms, k, Len(ms))
    <3>1. k \in 1..(Len(ms) + 1) /\ 1 = Len(ms) - k + 1 /\ k + 1 - 1 = k
      BY <2>1
    <3> HIDE DEF k
    <3>2. s \in Seq(Messages) /\ Len(s) = 1 /\ DOMAIN s = 1..1 /\ \A i \in 1..1 : s[i] = ms[k + i - 1]
      BY <1>4, <3>1, SuffixSeq
    <3>3. s[1] = turn.user
      BY <2>1, <3>1, <3>2 DEF k
    <3>4. s = SubSeq(ms, b + 1, b + 1)
      BY <2>1 DEF k
    <3> HIDE DEF s
    <3>5. s = <<turn.user>>
      BY <3>2, <3>3
    <3> QED
      BY <3>4, <3>5
  <2>3. Extends(BaseHist, ms, turn.user)
    <3>1. b < b + 1 /\ \A i \in 1..(b + 1) : ~(i > b + 1)
      BY <2>1
    <3> QED
      BY <2>1, <3>1 DEF Extends
  <2> QED
    BY <2>1, <2>2, <2>3
<1>6. Written' = ms /\ Open(ms, started, finished, gens)
    BY <1>2, <1>4, SoundOpen DEF Written
<1> HIDE DEF ms
<1>7. Sound(history, started, finished, gens)
    BY DEF Inside, StoreInv
<1>8. PromptsIn(journal.suffix) = PromptsIn(<<turn.user>>)
    BY <1>0, SuffixPrompts
<1>9. StoreInv' /\ SuffixInv' /\ BaseInv' /\ WrittenInv' /\ KeptInv'
    BY <1>0, <1>2, <1>4, <1>5, <1>6, <1>7, <1>8, RunStep
<1>10. PhaseInv'
  <2>1. Paired(ms) /\ UserSide(ms)
    BY <1>0, <1>2, <1>3, <1>4, UserSideAppend DEF Sound, ms
  <2> QED
    BY <1>2, <2>1 DEF PhaseInv
<1> QED
    BY <1>9, <1>10 DEF Inside

\* A retry inside the generation changes nothing.
LEMMA GenerationInside == ASSUME TypeInv, Inside, TypeInv', RetryGeneration PROVE Inside'
<1>1. /\ pc = "request" /\ pc' = "request"
      /\ turn'.user = turn.user /\ turn'.base = turn.base /\ turn'.msgs = turn.msgs
      /\ history' = history /\ journal' = journal /\ disk' = disk
      /\ gens' = gens /\ prompts' = prompts /\ drops' = drops
      /\ started' = started /\ finished' = finished /\ gone' = gone
    BY GenerationEffect
<1>2. Written = turn.msgs /\ Written' = turn.msgs
    BY <1>1 DEF Written
<1>3. StoreInv' /\ SuffixInv' /\ BaseInv' /\ WrittenInv' /\ KeptInv'
    BY <1>1, <1>2, RunFacts, RunStep
<1>4. PhaseInv'
    BY <1>1 DEF Inside, PhaseInv
<1> QED
    BY <1>3, <1>4 DEF Inside

\* A response is pushed: its calls are new.
LEMMA ReplyInside ==
    ASSUME TypeInv, Inside, TypeInv', RespondText \/ RespondTools \/ RespondMalformed \/ RespondError
    PROVE  Inside'
<1>1. PICK stop \in {"end", "max_tokens", "tool_use", "fatal", "overflow", "transient"},
           ms \in Seq(Messages) : Respond(stop, ms) /\ Replied(stop, ms)
    BY ReplyEffect
<1>2. /\ pc = "request" /\ pc' = "settle" /\ gens' = gens + 1 /\ gens \in Nat
      /\ turn'.msgs = ms /\ turn'.stop = stop /\ turn'.base = turn.base /\ turn'.user = turn.user
      /\ journal'.mode = journal.mode /\ journal'.from = journal.from
      /\ journal'.suffix = SubSeq(ms, Len(turn.base) + 1, Len(ms))
      /\ ms = turn.msgs => disk' = disk
      /\ ms # turn.msgs => disk'.msgs = Materialize(ms)
      /\ history' = history /\ prompts' = prompts /\ drops' = drops
      /\ started' = started /\ finished' = finished /\ gone' = gone
    BY <1>1, RespondEffect
<1>3. /\ BaseHist \in Seq(Messages) /\ turn.base = BaseHist /\ IsUserTurn(turn.user)
      /\ turn.msgs \in Seq(Messages) /\ Extends(BaseHist, turn.msgs, turn.user)
      /\ disk.msgs = Materialize(turn.msgs)
      /\ PromptsIn(journal.suffix) = PromptsIn(<<turn.user>>)
      /\ turn.msgs # << >> /\ turn.msgs[Len(turn.msgs)] \in Messages
      /\ AllTrue(turn.msgs, started, finished, gens)
      /\ Sound(history, started, finished, gens) /\ history \in Seq(Messages)
  <2>1. Written = turn.msgs
    BY <1>2 DEF Written
  <2> QED
    BY <1>2, <2>1, RunFacts DEF Open
<1>4. Paired(turn.msgs) /\ UserSide(turn.msgs) /\ Half(turn.msgs) /\ Missing(turn.msgs) = {}
    BY <1>2, <1>3, PairedIsHalf DEF Inside, PhaseInv
<1>5. AllTrue(turn.msgs, started, finished, gens + 1) /\ Sound(history, started, finished, gens + 1)
    BY <1>2, <1>3, Grows DEF Sound
<1>6. Written' = ms
    BY <1>2 DEF Written
<1>7. disk'.msgs = Materialize(ms)
    BY <1>2, <1>3
<1>8. CASE ms = turn.msgs
  <2>1. Open(ms, started, finished, gens + 1)
    BY <1>4, <1>5, <1>8 DEF Open
  <2>2. StoreInv' /\ SuffixInv' /\ BaseInv' /\ WrittenInv' /\ KeptInv'
    BY <1>2, <1>3, <1>5, <1>6, <1>7, <1>8, <2>1, RunStep
  <2>3. Makes(ms[Len(ms)]) = {}
    <3>1. Len(turn.msgs) \in DOMAIN turn.msgs /\ ~(Len(turn.msgs) < Len(turn.msgs))
      BY <1>3
    <3> QED
      BY <1>4, <1>8, <3>1 DEF Paired
  <2>4. stop = "fatal"
    <3>1. ASSUME NEW x \in Messages, ms = Append(turn.msgs, x) PROVE FALSE
      <4>1. Len(Append(turn.msgs, x)) = Len(turn.msgs) + 1 /\ Len(turn.msgs) \in Nat
        BY <1>3, Appended
      <4>2. Len(ms) = Len(ms) + 1 /\ Len(ms) \in Nat
        BY <1>8, <3>1, <4>1
      <4> QED
        BY <4>2
    <3> QED
      BY <1>1, <3>1, MessageMade DEF Replied
  <2>5. PhaseInv'
    BY <1>2, <1>4, <1>8, <2>3, <2>4 DEF PhaseInv, Calls
  <2> QED
    BY <2>2, <2>5 DEF Inside
<1>9. CASE ms # turn.msgs
  <2>1. PICK calls \in SUBSET CallIds, text \in BOOLEAN :
          /\ ms = Append(turn.msgs, Assistant(calls, text))
          /\ \A c \in calls : c[1] = gens + 1
          /\ stop = "tool_use" => calls # {}
          /\ stop = "transient" => calls = {} /\ ~text
    BY <1>1, <1>9 DEF Replied
  <2> DEFINE x == Assistant(calls, text)
             l == Len(turn.msgs)
  <2>2. x \in Messages /\ x.kind = "assistant" /\ Makes(x) = calls /\ x.calls = calls /\ x.text = text /\ Answers(x) = {}
    BY MessageMade DEF Answers
  <2> HIDE DEF x
  <2>3. ms = Append(turn.msgs, x) /\ x.kind # "results" /\ x.kind # "user"
    BY <2>1, <2>2 DEF x
  <2>4. Half(ms) /\ Missing(ms) = calls
    BY <1>3, <1>4, <2>2, <2>3, AppendHalf
  <2>5. AllTrue(ms, started, finished, gens + 1)
    <3>1. IsTrue(x, started, finished, gens + 1)
      BY <2>3 DEF IsTrue
    <3> QED
      BY <1>3, <1>5, <2>2, <2>3, <3>1, AppendTrue
  <2>6. \A c \in calls : c \notin started /\ c \notin finished /\ c[1] <= gens + 1 /\ ~(c[1] <= gens)
    <3>1. finished \subseteq started /\ \A c \in started : c[1] <= gens
      BY Base
    <3>2. gens + 1 <= gens + 1 /\ ~(gens + 1 <= gens)
      BY <1>2
    <3> QED
      BY <2>1, <3>1, <3>2
  <2>7. Open(ms, started, finished, gens + 1)
    BY <2>4, <2>5, <2>6 DEF Open
  <2>8. Extends(BaseHist, ms, turn.user)
    BY <1>3, <2>2, <2>3, ExtendsAppend
  <2>9. StoreInv' /\ SuffixInv' /\ BaseInv' /\ WrittenInv' /\ KeptInv'
    BY <1>2, <1>3, <1>5, <1>6, <1>7, <2>7, <2>8, RunStep
  <2>10. Len(ms) = l + 1 /\ ms[Len(ms)] = x /\ l \in Nat /\ (l + 1) - 1 = l
    BY <1>3, <2>2, <2>3, Appended
  <2>11. Calls' = calls
    BY <1>2, <2>2, <2>10 DEF Calls
  <2>12. \A c \in calls : c \notin AnsweredIn(history) /\ c \notin AnsweredIn(ms)
    <3>1. AnsweredIn(ms) = AnsweredIn(turn.msgs)
      BY <1>3, <2>2, <2>3, AnsweredAppend
    <3>2. \A c \in AnsweredIn(turn.msgs) : c[1] <= gens
      BY <1>3, AnswersOld
    <3>3. \A c \in AnsweredIn(history) : c[1] <= gens
      BY <1>3, AnswersOld DEF Sound
    <3> QED
      BY <2>6, <3>1, <3>2, <3>3
  <2>13. ASSUME stop = "transient"
         PROVE  /\ IsHusk(ms[Len(ms)]) /\ Len(turn.base) + 1 < Len(ms)
                /\ UserSide(SubSeq(ms, 1, Len(ms) - 1))
    <3>1. IsHusk(x)
      BY <2>1, <2>2, <2>13 DEF IsHusk
    <3>2. Len(turn.base) + 1 < Len(ms)
      <4>1. Len(turn.base) \in Nat /\ Len(turn.base) < l
        BY <1>3 DEF Extends
      <4> QED
        BY <2>10, <4>1
    <3>3. SubSeq(ms, 1, l) = turn.msgs
      <4>1. SubSeq(Append(turn.msgs, x), 1, Len(turn.msgs)) = turn.msgs
        BY <1>3, <2>2
      <4> QED
        BY <2>3, <4>1
    <3> HIDE DEF l
    <3> QED
      BY <1>4, <2>10, <3>1, <3>2, <3>3
  <2>14. PhaseInv'
    BY <1>2, <2>1, <2>4, <2>6, <2>11, <2>12, <2>13 DEF PhaseInv
  <2> QED
    BY <2>9, <2>14 DEF Inside
<1> QED
    BY <1>8, <1>9

\* The loop goes on with ms.
LEMMA AgainInside ==
    ASSUME TypeInv, Inside, TypeInv', pc \in {"settle", "tools"},
           NEW ms \in Seq(Messages), NEW t, SameTurn(t), Again(ms, t),
           Sound(ms, started, finished, gens), UserSide(ms), Extends(BaseHist, ms, turn.user)
    PROVE  Inside'
<1>1. /\ pc' = "request" /\ turn'.msgs = ms /\ turn'.base = turn.base /\ turn'.user = turn.user
      /\ journal'.mode = journal.mode /\ journal'.from = journal.from
      /\ journal'.suffix = SubSeq(ms, Len(turn.base) + 1, Len(ms))
      /\ disk'.msgs = Materialize(ms)
      /\ history' = history /\ gens' = gens /\ prompts' = prompts /\ drops' = drops
      /\ started' = started /\ finished' = finished /\ gone' = gone
  <2>1. t \in Turns /\ t.user = turn.user /\ t.base = turn.base
    BY DEF SameTurn
  <2> QED
    BY <2>1, AgainEffect
<1>2. Written' = ms /\ Open(ms, started, finished, gens)
    BY <1>1, SoundOpen DEF Written
<1>3. StoreInv' /\ SuffixInv' /\ BaseInv' /\ WrittenInv' /\ KeptInv'
    BY <1>1, <1>2, RunFacts, RunStep
<1>4. PhaseInv'
    BY <1>1 DEF PhaseInv, Sound
<1> QED
    BY <1>3, <1>4 DEF Inside

\* The run returns with ms.
LEMMA ReturnInside ==
    ASSUME TypeInv, Inside, TypeInv', pc \in {"settle", "tools"},
           NEW ms \in Seq(Messages), Return(ms),
           Sound(ms, started, finished, gens), Extends(BaseHist, ms, turn.user)
    PROVE  Inside'
<1>1. /\ turn'.msgs = ms /\ turn'.base = turn.base /\ turn'.user = turn.user /\ turn'.mode = turn.mode
      /\ \/ pc' = "compact" /\ turn'.reacted = TRUE /\ journal'.suffix = <<turn.user>>
         \/ pc' = "staged" /\ journal' = journal
      /\ journal'.mode = journal.mode /\ journal'.from = journal.from
      /\ history' = history /\ disk' = disk /\ gens' = gens /\ prompts' = prompts /\ drops' = drops
      /\ started' = started /\ finished' = finished /\ gone' = gone
    BY ReturnEffect
<1>2. turn.base = BaseHist /\ BaseHist' = BaseHist /\ IsUserTurn(turn.user) /\ turn.user \in Messages
      /\ PromptsIn(journal.suffix) = PromptsIn(<<turn.user>>)
  <2>1. BaseHist' = BaseHist
    BY <1>1 DEF BaseHist
  <2> QED
    BY <2>1, RunFacts, Typed
<1>3. StoreInv'
    BY <1>1 DEF Inside, StoreInv
<1>4. Sound(<<turn.user>>, started, finished, gens) /\ <<turn.user>> \in Seq(Messages)
    BY <1>2, UserPlain, OneSound
<1>5. SuffixInv'
  <2>1. journal.mode = "replace" /\ journal.from < Len(history) => history[journal.from + 1].kind # "results"
    BY DEF Inside, SuffixInv
  <2>2. journal' # NoJournal =>
        /\ journal'.suffix # << >> /\ IsUserTurn(journal'.suffix[1])
        /\ Open(journal'.suffix, started, finished, gens)
    <3>1. CASE journal'.suffix = <<turn.user>>
      <4>1. Open(<<turn.user>>, started, finished, gens)
        BY <1>4, SoundOpen
      <4>2. <<turn.user>> # << >> /\ <<turn.user>>[1] = turn.user
        OBVIOUS
      <4> QED
        BY <1>2, <3>1, <4>1, <4>2
    <3>2. CASE journal' = journal
      BY <3>2 DEF Inside, SuffixInv
    <3> QED
      BY <1>1, <3>1, <3>2
  <2> QED
    BY <1>1, <2>1, <2>2 DEF SuffixInv
<1>6. BaseInv'
    BY <1>1, <1>2 DEF BaseInv
<1>7. WrittenInv'
    BY <1>1 DEF WrittenInv
<1>8. PhaseInv'
    BY <1>1, <1>2 DEF PhaseInv
<1>9. KeptInv'
  <2>1. PromptsIn(journal'.suffix) = PromptsIn(journal.suffix)
    BY <1>1, <1>2
  <2>2. InTurn'
    BY <1>1 DEF InTurn
  <2> QED
    BY <1>1, <1>2, <2>1, <2>2 DEF Inside, KeptInv
<1> QED
    BY <1>3, <1>5, <1>6, <1>7, <1>8, <1>9 DEF Inside

\* What close_orphan_tool_calls does with the messages of a settled response.
LEMMA SettleFacts ==
    ASSUME TypeInv, Inside, pc = "settle"
    PROVE  /\ Half(turn.msgs) /\ Missing(turn.msgs) = Calls /\ AllTrue(turn.msgs, started, finished, gens)
           /\ Sound(CloseOrphans(turn.msgs), started, finished, gens)
           /\ Extends(BaseHist, CloseOrphans(turn.msgs), turn.user)
           /\ CloseOrphans(turn.msgs) \in Seq(Messages)
           /\ HasOrphans(turn.msgs) => UserSide(CloseOrphans(turn.msgs))
<1>1. Written = turn.msgs
    BY DEF Written
<1>2. Half(turn.msgs) /\ Missing(turn.msgs) = Calls /\ (\A c \in Calls : c \notin AnsweredIn(turn.msgs))
      /\ Calls \cap started = {}
    BY DEF Inside, PhaseInv
<1>3. /\ AllTrue(turn.msgs, started, finished, gens) /\ (\A c \in Calls : c[1] <= gens)
      /\ turn.msgs \in Seq(Messages) /\ turn.msgs # << >>
      /\ BaseHist \in Seq(Messages) /\ Extends(BaseHist, turn.msgs, turn.user)
    BY <1>1, <1>2, RunFacts DEF Open
<1>4. /\ Sound(CloseOrphans(turn.msgs), started, finished, gens) /\ CloseOrphans(turn.msgs) \in Seq(Messages)
      /\ \/ CloseOrphans(turn.msgs) = turn.msgs /\ ~HasOrphans(turn.msgs)
         \/ \E x \in Messages : x.kind = "results" /\ CloseOrphans(turn.msgs) = Append(turn.msgs, x)
  <2>1. Calls = Makes(turn.msgs[Len(turn.msgs)])
    BY DEF Calls
  <2>2. \A c \in Calls : c \notin AnsweredIn(turn.msgs) /\ c \notin started /\ c[1] <= gens
    BY <1>2, <1>3
  <2> HIDE DEF Calls
  <2> QED
    BY <1>2, <1>3, <2>1, <2>2, Closed
<1>5. CASE CloseOrphans(turn.msgs) = turn.msgs /\ ~HasOrphans(turn.msgs)
    BY <1>2, <1>3, <1>4, <1>5
<1>6. ASSUME NEW x \in Messages, x.kind = "results", CloseOrphans(turn.msgs) = Append(turn.msgs, x)
      PROVE  Extends(BaseHist, CloseOrphans(turn.msgs), turn.user) /\ UserSide(CloseOrphans(turn.msgs))
    BY <1>3, <1>6, ExtendsAppend, UserSideAppend
<1> QED
    BY <1>2, <1>3, <1>4, <1>5, <1>6

\* The run ends: calls nobody ran are closed.
LEMMA TerminalInside == ASSUME TypeInv, Inside, TypeInv', TerminalArm PROVE Inside'
<1>1. pc = "settle" /\ Return(CloseOrphans(turn.msgs))
    BY DEF TerminalArm
<1> QED
    BY <1>1, SettleFacts, ReturnInside

\* A nudge after a sound run.
LEMMA NudgeFacts ==
    ASSUME TypeInv, BaseHist \in Seq(Messages), NEW ms \in Seq(Messages),
           Sound(ms, started, finished, gens), Extends(BaseHist, ms, turn.user)
    PROVE  /\ Append(ms, Nudge) \in Seq(Messages) /\ Sound(Append(ms, Nudge), started, finished, gens)
           /\ Extends(BaseHist, Append(ms, Nudge), turn.user) /\ UserSide(Append(ms, Nudge))
<1>1. Nudge \in Messages /\ Nudge.kind = "nudge" /\ Makes(Nudge) = {}
    BY MessageMade DEF Nudge, Makes
<1> QED
    BY <1>1, AppendSound, ExtendsAppend, UserSideAppend

\* A truncated answer: its calls are closed, or a nudge follows.
LEMMA AutoInside == ASSUME TypeInv, Inside, TypeInv', AutoContinueArm PROVE Inside'
<1> DEFINE closed == CloseOrphans(turn.msgs)
           textOnly == ~HasOrphans(turn.msgs)
           ms == IF textOnly THEN Append(closed, Nudge) ELSE closed
           n == turn.auto + 1
           t == [turn EXCEPT !.auto = n]
<1>0. turn \in Turns /\ turn.auto \in Nat /\ BaseHist \in Seq(Messages)
    BY Base, TurnFields, BaseSound
<1>1. pc = "settle" /\ Again(ms, t)
    BY <1>0 DEF AutoContinueArm
<1>2. SameTurn(t)
  <2>1. n \in Nat
    BY <1>0
  <2> HIDE DEF n
  <2> QED
    BY <1>0, <2>1, CounterTyped
<1> HIDE DEF t
<1>3. /\ Sound(closed, started, finished, gens) /\ Extends(BaseHist, closed, turn.user)
      /\ closed \in Seq(Messages) /\ (~textOnly => UserSide(closed))
    BY <1>1, SettleFacts
<1> HIDE DEF closed, textOnly
<1>4. ms \in Seq(Messages) /\ Sound(ms, started, finished, gens) /\ Extends(BaseHist, ms, turn.user) /\ UserSide(ms)
    BY <1>0, <1>3, NudgeFacts
<1> HIDE DEF ms
<1> QED
    BY <1>1, <1>2, <1>4, AgainInside

\* A failed generation leaves an empty message behind.
LEMMA TransientFacts ==
    ASSUME TypeInv, Inside, pc = "settle", turn.stop = "transient"
    PROVE  /\ Sound(turn.msgs, started, finished, gens) /\ UserSide(turn.msgs)
           /\ IsHusk(turn.msgs[Len(turn.msgs)])
           /\ LET kept == SubSeq(turn.msgs, 1, Len(turn.msgs) - 1)
              IN  /\ kept \in Seq(Messages) /\ kept # << >> /\ Sound(kept, started, finished, gens)
                  /\ Extends(BaseHist, kept, turn.user) /\ kept[Len(kept)] \in Messages
<1> DEFINE l == Len(turn.msgs)
           n == l - 1
           kept == SubSeq(turn.msgs, 1, n)
<1>1. IsHusk(turn.msgs[l]) /\ Len(turn.base) + 1 < l /\ UserSide(kept)
    BY DEF Inside, PhaseInv
<1>2. Calls = {} /\ turn.msgs[l].kind = "assistant"
    BY <1>1 DEF Calls, IsHusk, Makes
<1>3. Half(turn.msgs) /\ Missing(turn.msgs) = {} /\ AllTrue(turn.msgs, started, finished, gens)
    BY <1>2, SettleFacts
<1>4. /\ turn.msgs \in Seq(Messages) /\ BaseHist \in Seq(Messages) /\ turn.base = BaseHist /\ turn.msgs # << >>
      /\ Extends(BaseHist, turn.msgs, turn.user)
    BY RunFacts
<1>5. Sound(turn.msgs, started, finished, gens)
    BY <1>3, <1>4, PairedIsHalf DEF Sound
<1>6. UserSide(turn.msgs)
    BY <1>1, <1>4, UserSideHusk
<1>7. l \in Nat /\ l # 0 /\ n \in 0..Len(turn.msgs) /\ n + 1 = l
    BY <1>4
<1>8. Sound(kept, started, finished, gens)
  <2>1. turn.msgs[n + 1].kind # "results"
    BY <1>2, <1>7
  <2> HIDE DEF n
  <2> QED
    BY <1>4, <1>5, <1>7, <2>1, PrefixSound
<1>9. Extends(BaseHist, kept, turn.user) /\ kept \in Seq(Messages) /\ kept # << >>
    BY <1>1, <1>4, ExtendsFront
<1>10. kept[Len(kept)] \in Messages
  <2> HIDE DEF kept
  <2> QED
    BY <1>4, <1>9, ExtendsNonempty
<1> QED
    BY <1>1, <1>5, <1>6, <1>8, <1>9, <1>10

\* The next model gets the messages as they are.
LEMMA FailoverInside == ASSUME TypeInv, Inside, TypeInv', FailoverArm PROVE Inside'
<1> DEFINE n == turn.failed + 1
           t == [turn EXCEPT !.failed = n]
<1>0. turn \in Turns /\ turn.failed \in Nat
    BY Base, TurnFields
<1>1. pc = "settle" /\ turn.stop = "transient" /\ Again(turn.msgs, t)
    BY <1>0 DEF FailoverArm
<1>2. SameTurn(t)
  <2>1. n \in Nat
    BY <1>0
  <2> HIDE DEF n
  <2> QED
    BY <1>0, <2>1, CounterTyped
<1> HIDE DEF t
<1>3. Sound(turn.msgs, started, finished, gens) /\ UserSide(turn.msgs)
    BY <1>1, TransientFacts
<1> QED
    BY <1>1, <1>2, <1>3, RunFacts, AgainInside

\* The empty message of the failed attempt is dropped.
LEMMA ResumeInside == ASSUME TypeInv, Inside, TypeInv', ResumeArm PROVE Inside'
<1> DEFINE kept == SubSeq(turn.msgs, 1, Len(turn.msgs) - 1)
           nudge == ~HasOrphans(kept) /\ Last(kept).kind = "assistant"
           ms == IF nudge THEN Append(CloseOrphans(kept), Nudge) ELSE CloseOrphans(kept)
           n == turn.resumes + 1
           t == [turn EXCEPT !.resumes = n]
<1>0. turn \in Turns /\ turn.resumes \in Nat /\ BaseHist \in Seq(Messages)
    BY Base, TurnFields, BaseSound
<1>1. pc = "settle" /\ turn.stop = "transient"
    BY DEF ResumeArm
<1>2. /\ IsHusk(turn.msgs[Len(turn.msgs)])
      /\ kept \in Seq(Messages) /\ kept # << >> /\ Sound(kept, started, finished, gens)
      /\ Extends(BaseHist, kept, turn.user)
    BY <1>1, TransientFacts
<1>3. (IF IsHusk(Last(turn.msgs)) THEN Front(turn.msgs) ELSE turn.msgs) = kept
    BY <1>2 DEF Last, Front
<1>4. Again(ms, t)
    BY <1>0, <1>3 DEF ResumeArm
<1>5. SameTurn(t)
  <2>1. n \in Nat
    BY <1>0
  <2> HIDE DEF n
  <2> QED
    BY <1>0, <2>1, CounterTyped
<1> HIDE DEF t, kept
<1>6. CloseOrphans(kept) = kept /\ ~HasOrphans(kept)
    BY <1>2, CloseNone DEF Sound
<1>7. ms \in Seq(Messages) /\ Sound(ms, started, finished, gens) /\ Extends(BaseHist, ms, turn.user) /\ UserSide(ms)
  <2>1. CASE Last(kept).kind = "assistant"
    <3>1. ms = Append(kept, Nudge)
      BY <1>6, <2>1
    <3> HIDE DEF ms
    <3> QED
      BY <1>0, <1>2, <3>1, NudgeFacts
  <2>2. CASE Last(kept).kind # "assistant"
    <3>1. ms = kept
      BY <1>6, <2>2
    <3> HIDE DEF ms
    <3>2. UserSide(kept)
      BY <1>2, <2>2, UserSideLast DEF Last
    <3> QED
      BY <1>2, <3>1, <3>2
  <2> QED
    BY <2>1, <2>2
<1> HIDE DEF ms
<1> QED
    BY <1>1, <1>4, <1>5, <1>7, AgainInside

\* A batch begins.
LEMMA ToolUseInside == ASSUME TypeInv, Inside, TypeInv', ToolUseArm PROVE Inside'
<1>1. /\ pc = "settle" /\ turn.stop = "tool_use" /\ pc' = "tools"
      /\ turn'.user = turn.user /\ turn'.base = turn.base /\ turn'.msgs = turn.msgs
      /\ turn'.left = Calls /\ turn'.results = {}
      /\ history' = history /\ journal' = journal /\ disk' = disk
      /\ gens' = gens /\ prompts' = prompts /\ drops' = drops
      /\ started' = started /\ finished' = finished /\ gone' = gone
    BY ToolUseEffect
<1>2. Written = turn.msgs /\ Written' = turn.msgs /\ Calls' = Calls
    BY <1>1 DEF Written, Calls
<1>3. StoreInv' /\ SuffixInv' /\ BaseInv' /\ WrittenInv' /\ KeptInv'
    BY <1>1, <1>2, RunFacts, RunStep
<1>4. {r[1] : r \in turn'.results} = Calls \ turn'.left
    BY <1>1
<1>5. PhaseInv'
    BY <1>1, <1>2, <1>4 DEF Inside, PhaseInv
<1> QED
    BY <1>3, <1>5 DEF Inside

\* What is known of a batch whose results res are in.
LEMMA BatchOpen ==
    ASSUME NEW ms \in Seq(Messages), ms # << >>, Half(ms), NEW C, C = Makes(ms[Len(ms)]), C # {},
           NEW res \in SUBSET (CallIds \X Says), {r[1] : r \in res} \subseteq C, NEW st, NEW fi, NEW g,
           AllTrue(ms, st, fi, g), IsTrue(Results(res), st, fi, g),
           \A c \in C : c \notin {r[1] : r \in res} => c \notin fi /\ c[1] <= g
    PROVE  /\ Open(Append(ms, Results(res)), st, fi, g) /\ Append(ms, Results(res)) \in Seq(Messages)
           /\ Missing(Append(ms, Results(res))) = C \ {r[1] : r \in res}
<1> DEFINE x == Results(res)
<1>1. x \in Messages /\ x.kind = "results" /\ Answers(x) = {r[1] : r \in res}
    BY MessageMade
<1> HIDE DEF x
<1>2. Half(Append(ms, x)) /\ Missing(Append(ms, x)) = C \ {r[1] : r \in res}
    BY <1>1, AppendResults
<1>3. AllTrue(Append(ms, x), st, fi, g)
    BY <1>1, AppendTrue DEF x
<1>4. Append(ms, x) \in Seq(Messages)
    BY <1>1, Appended
<1> QED
    BY <1>2, <1>3, <1>4 DEF Open, x

\* A true sequence says nothing else in its parts.
LEMMA TrueParts ==
    ASSUME NEW ms \in Seq(Messages), NEW x \in Messages, NEW st, NEW fi, NEW g,
           AllTrue(Append(ms, x), st, fi, g)
    PROVE  AllTrue(ms, st, fi, g) /\ IsTrue(x, st, fi, g)
<1>1. /\ DOMAIN Append(ms, x) = 1..(Len(ms) + 1) /\ Append(ms, x)[Len(ms) + 1] = x /\ Len(ms) \in Nat
      /\ \A i \in 1..Len(ms) : Append(ms, x)[i] = ms[i]
    BY Appended
<1>2. Len(ms) + 1 \in 1..(Len(ms) + 1) /\ \A i \in 1..Len(ms) : i \in 1..(Len(ms) + 1)
    BY <1>1
<1>3. DOMAIN ms = 1..Len(ms)
    OBVIOUS
<1> QED
    BY <1>1, <1>2, <1>3 DEF AllTrue

\* The state of a batch.
LEMMA ToolState ==
    ASSUME TypeInv, Inside, pc = "tools"
    PROVE  /\ turn.msgs \in Seq(Messages) /\ turn.msgs # << >> /\ Half(turn.msgs)
           /\ Calls = Makes(turn.msgs[Len(turn.msgs)]) /\ Calls # {} /\ Missing(turn.msgs) = Calls
           /\ turn.results \in SUBSET (CallIds \X Says) /\ turn.left \subseteq Calls
           /\ {r[1] : r \in turn.results} = Calls \ turn.left
           /\ AllTrue(turn.msgs, started, finished, gens)
           /\ IsTrue(Results(turn.results), started, finished, gens)
           /\ \A c \in turn.left : c \notin finished /\ c[1] = gens /\ c[1] <= gens
           /\ \A c \in Calls : c \notin AnsweredIn(history) /\ c \notin AnsweredIn(turn.msgs)
           /\ (turn.results = {} => Written = turn.msgs) /\ (turn.results # {} => Written = Batch)
<1>1. /\ turn.msgs \in Seq(Messages) /\ turn.msgs # << >> /\ turn.results \in SUBSET (CallIds \X Says)
      /\ AllTrue(Written, started, finished, gens)
    BY RunFacts, Base, TurnFields DEF Open
<1>2. /\ Half(turn.msgs) /\ Missing(turn.msgs) = Calls /\ Calls # {} /\ turn.left \subseteq Calls
      /\ {r[1] : r \in turn.results} = Calls \ turn.left
      /\ \A c \in Calls : c \notin AnsweredIn(history) /\ c \notin AnsweredIn(turn.msgs)
    BY DEF Inside, PhaseInv
<1>3. (turn.results = {} => Written = turn.msgs) /\ (turn.results # {} => Written = Batch)
    BY DEF Written
<1>4. Results(turn.results) \in Messages /\ Results(turn.results).res = turn.results
    BY <1>1, MessageMade
<1>5. AllTrue(turn.msgs, started, finished, gens) /\ IsTrue(Results(turn.results), started, finished, gens)
  <2>1. CASE turn.results = {}
    BY <1>1, <1>3, <1>4, <2>1 DEF IsTrue
  <2>2. CASE turn.results # {}
    BY <1>1, <1>3, <1>4, <2>2, TrueParts DEF Batch
  <2> QED
    BY <2>1, <2>2
<1>6. \A c \in turn.left : c \notin finished /\ c[1] = gens /\ c[1] <= gens
    BY ToolFacts, Base
<1> QED
    BY <1>1, <1>2, <1>3, <1>5, <1>6 DEF Calls

\* A result of the next call is journalled.
LEMMA RecordInside ==
    ASSUME TypeInv, Inside, TypeInv', pc = "tools", pc' = "tools",
           NEW c \in turn.left, NEW outcome \in {"done", "blocked"}, NEW terminate,
           RecordResult(c, outcome, terminate),
           started' = started, history' = history, gens' = gens, prompts' = prompts, drops' = drops, gone' = gone,
           outcome = "done" => finished' = finished \cup {c},
           outcome = "blocked" => finished' = finished /\ c \notin started
    PROVE  Inside'
<1> DEFINE res == turn.results \cup {<<c, outcome>>}
           ms == Append(turn.msgs, Results(res))
<1>1. /\ turn'.user = turn.user /\ turn'.base = turn.base /\ turn'.msgs = turn.msgs
      /\ turn'.left = turn.left \ {c} /\ turn'.results = res
      /\ journal'.mode = journal.mode /\ journal'.from = journal.from
      /\ journal'.suffix = SubSeq(ms, Len(turn.base) + 1, Len(ms))
      /\ disk'.msgs = Materialize(ms) /\ turn' \in Turns
  <2>1. outcome \in Says
    BY DEF Says
  <2> QED
    BY <2>1, RecordEffect
<1>2. res \in SUBSET (CallIds \X Says) /\ res # {}
    BY <1>1, TurnFields
<1>3. Written' = ms /\ Calls' = Calls
    BY <1>1, <1>2 DEF Written, Batch, Calls
<1>4. <<c, outcome>>[1] = c /\ <<c, outcome>>[2] = outcome
    OBVIOUS
<1>5. {r[1] : r \in res} = (Calls \ turn.left) \cup {c} /\ c \in Calls
    BY <1>4, ToolState
<1>6. {r[1] : r \in res} = Calls \ turn'.left /\ turn'.left \subseteq Calls
    BY <1>1, <1>5, ToolState
<1>7. c \notin AnsweredIn(turn.msgs) /\ c \notin AnsweredIn(history)
    BY <1>5, ToolState
<1>8. AllTrue(turn.msgs, started, finished', gens) /\ Sound(history, started, finished', gens)
  <2>1. AllTrue(turn.msgs, started, finished, gens) /\ turn.msgs \in Seq(Messages)
        /\ Paired(history) /\ AllTrue(history, started, finished, gens) /\ history \in Seq(Messages)
    BY ToolState, RunFacts DEF Sound
  <2>2. AllTrue(turn.msgs, started, finished \cup {c}, gens) /\ AllTrue(history, started, finished \cup {c}, gens)
    BY <1>7, <2>1, Unmentioned
  <2> QED
    BY <2>1, <2>2 DEF Sound
<1>9. IsTrue(Results(res), started, finished', gens)
  <2>1. Results(res).res = res /\ Results(turn.results).res = turn.results
        /\ Results(turn.results).kind = "results"
    BY <1>2, ToolState, MessageMade
  <2>2. ASSUME NEW r \in turn.results
        PROVE  /\ r[2] = "done" => r[1] \in finished'
               /\ r[2] = "uncertain" => r[1] \notin finished'
               /\ r[2] \in {"blocked", "interrupted"} => r[1] \notin started
               /\ r[1][1] <= gens
    <3>1. r[1] # c
      BY ToolState
    <3>2. /\ r[2] = "done" => r[1] \in finished
          /\ r[2] = "uncertain" => r[1] \notin finished
          /\ r[2] \in {"blocked", "interrupted"} => r[1] \notin started
          /\ r[1][1] <= gens
      BY <2>1, ToolState DEF IsTrue
    <3> QED
      BY <3>1, <3>2
  <2>3. /\ outcome = "done" => c \in finished' 
        /\ outcome # "uncertain"
        /\ outcome \in {"blocked", "interrupted"} => c \notin started
        /\ c[1] <= gens
    BY ToolState
  <2> HIDE DEF res
  <2>4. \A r \in res : r \in turn.results \/ r = <<c, outcome>>
    BY DEF res
  <2> QED
    BY <1>4, <2>1, <2>2, <2>3, <2>4 DEF IsTrue
<1>10. \A d \in Calls : d \notin {r[1] : r \in res} => d \notin finished' /\ d[1] <= gens
  <2>1. ASSUME NEW d \in Calls, d \notin {r[1] : r \in res} PROVE d \in turn.left /\ d # c
    BY <1>5, <2>1
  <2> QED
    BY <2>1, ToolState
<1> HIDE DEF res
<1>11. Open(ms, started, finished', gens) /\ ms \in Seq(Messages)
  <2>1. Calls = Makes(turn.msgs[Len(turn.msgs)]) /\ Calls # {} /\ {r[1] : r \in res} \subseteq Calls
    BY <1>6, ToolState
  <2> QED
    BY <1>2, <1>8, <1>9, <1>10, <2>1, ToolState, BatchOpen
<1>12. Results(res) \in Messages /\ Results(res).kind # "user"
    BY <1>2, MessageMade
<1>13. Extends(BaseHist, ms, turn.user)
    BY <1>12, RunFacts, ExtendsAppend
<1> HIDE DEF ms
<1>14. StoreInv' /\ SuffixInv' /\ BaseInv' /\ WrittenInv' /\ KeptInv'
    BY <1>1, <1>3, <1>8, <1>11, <1>13, RunFacts, RunStep
<1>15. PhaseInv'
  <2>1. Half(turn.msgs) /\ Missing(turn.msgs) = Calls /\ Calls # {}
        /\ \A d \in Calls : d \notin AnsweredIn(history) /\ d \notin AnsweredIn(turn.msgs)
    BY ToolState
  <2> QED
    BY <1>1, <1>3, <1>6, <2>1 DEF PhaseInv
<1> QED
    BY <1>14, <1>15 DEF Inside

\* A refused call never started.
LEMMA BlockedInside == ASSUME TypeInv, Inside, TypeInv', ToolBlocked PROVE Inside'
<1>1. /\ pc = "tools" /\ ~turn.running /\ pc' = "tools"
      /\ history' = history /\ gens' = gens /\ prompts' = prompts /\ drops' = drops
      /\ started' = started /\ finished' = finished /\ gone' = gone
    BY DEF ToolBlocked, bounds, ghosts
<1>2. PICK c \in turn.left : RecordResult(c, "blocked", FALSE)
    BY DEF ToolBlocked
<1>3. c \notin started
    BY <1>1, ToolFacts
<1> QED
    BY <1>1, <1>2, <1>3, RecordInside

\* A finished call has not been told of before.
LEMMA DoneInside == ASSUME TypeInv, Inside, TypeInv', ToolDone PROVE Inside'
<1>1. /\ pc = "tools" /\ pc' = "tools"
      /\ history' = history /\ gens' = gens /\ prompts' = prompts /\ drops' = drops
      /\ started' = started /\ gone' = gone
    BY DEF ToolDone, bounds
<1>2. PICK c \in turn.left, terminate \in BOOLEAN :
          RecordResult(c, "done", terminate) /\ finished' = finished \cup {c}
    BY DEF ToolDone
<1>3. RecordResult(c, "done", terminate) /\ finished' = finished \cup {c}
    BY <1>2
<1> QED
    BY <1>1, <1>3, RecordInside

\* A started call has not been told of before.
LEMMA StartInside == ASSUME TypeInv, Inside, TypeInv', ToolStart PROVE Inside'
<1>1. /\ pc = "tools" /\ pc' = "tools"
      /\ turn'.user = turn.user /\ turn'.base = turn.base /\ turn'.msgs = turn.msgs
      /\ turn'.left = turn.left /\ turn'.results = turn.results
      /\ history' = history /\ journal' = journal /\ disk' = disk
      /\ gens' = gens /\ prompts' = prompts /\ drops' = drops
      /\ finished' = finished /\ gone' = gone
    BY StartEffect
<1>2. PICK c \in turn.left : started' = started \cup {c}
    BY StartEffect
<1>3. Written' = Written /\ Calls' = Calls
    BY <1>1 DEF Written, Batch, Calls
<1>4. c \in Calls /\ c \notin AnsweredIn(turn.msgs) /\ c \notin AnsweredIn(history)
    BY ToolState, <1>1
<1>5. AllTrue(turn.msgs, started', finished, gens) /\ Sound(history, started', finished, gens)
  <2>1. AllTrue(turn.msgs, started, finished, gens) /\ turn.msgs \in Seq(Messages)
        /\ Paired(history) /\ AllTrue(history, started, finished, gens) /\ history \in Seq(Messages)
    BY <1>1, ToolState, RunFacts DEF Sound
  <2>2. AllTrue(turn.msgs, started \cup {c}, finished, gens) /\ AllTrue(history, started \cup {c}, finished, gens)
    BY <1>4, <2>1, Unmentioned
  <2> QED
    BY <1>2, <2>1, <2>2 DEF Sound
<1>6. Open(Written, started', finished, gens)
  <2>1. /\ Half(turn.msgs) /\ Missing(turn.msgs) = Calls /\ Calls # {} /\ turn.msgs \in Seq(Messages)
        /\ turn.msgs # << >> /\ Calls = Makes(turn.msgs[Len(turn.msgs)])
        /\ turn.results \in SUBSET (CallIds \X Says) /\ {r[1] : r \in turn.results} = Calls \ turn.left
        /\ \A d \in turn.left : d \notin finished /\ d[1] <= gens
    BY <1>1, ToolState
  <2>2. CASE turn.results = {}
    <3>1. Calls \subseteq turn.left
      BY <2>1, <2>2
    <3>2. Written = turn.msgs
      BY <1>1, <2>2, ToolState
    <3> QED
      BY <1>5, <2>1, <3>1, <3>2 DEF Open
  <2>3. CASE turn.results # {}
    <3>1. IsTrue(Results(turn.results), started', finished, gens)
      <4>1. Results(turn.results).res = turn.results
        BY <2>1, MessageMade
      <4>2. \A r \in turn.results : r[1] # c
        BY <2>1
      <4>3. IsTrue(Results(turn.results), started, finished, gens)
        BY <1>1, ToolState
      <4> QED
        BY <1>2, <4>1, <4>2, <4>3 DEF IsTrue
    <3>2. \A d \in Calls : d \notin {r[1] : r \in turn.results} => d \notin finished /\ d[1] <= gens
      BY <2>1
    <3>3. {r[1] : r \in turn.results} \subseteq Calls
      BY <2>1
    <3>4. Open(Append(turn.msgs, Results(turn.results)), started', finished, gens)
      BY <1>5, <2>1, <3>1, <3>2, <3>3, BatchOpen
    <3> QED
      BY <1>1, <2>3, <3>4, ToolState DEF Batch
  <2> QED
    BY <2>2, <2>3
<1>7. StoreInv' /\ SuffixInv' /\ BaseInv' /\ WrittenInv' /\ KeptInv'
    BY <1>1, <1>3, <1>5, <1>6, RunFacts, RunStep
<1>8. PhaseInv'
    BY <1>1, <1>3 DEF Inside, PhaseInv
<1> QED
    BY <1>7, <1>8 DEF Inside

\* All calls of the batch are answered.
LEMMA BatchInside == ASSUME TypeInv, Inside, TypeInv', BatchDone PROVE Inside'
<1> DEFINE ms == Append(turn.msgs, Results(turn.results))
<1>1. pc = "tools" /\ turn.left = {} /\ (Again(ms, turn) \/ Return(ms))
    BY DEF BatchDone
<1>2. /\ turn.msgs \in Seq(Messages) /\ turn.msgs # << >> /\ Half(turn.msgs)
      /\ Calls = Makes(turn.msgs[Len(turn.msgs)]) /\ Calls # {}
      /\ turn.results \in SUBSET (CallIds \X Says)
      /\ {r[1] : r \in turn.results} = Calls
      /\ AllTrue(turn.msgs, started, finished, gens)
      /\ IsTrue(Results(turn.results), started, finished, gens)
    BY <1>1, ToolState
<1>3. Open(ms, started, finished, gens) /\ ms \in Seq(Messages) /\ Missing(ms) = {}
  <2>1. /\ {r[1] : r \in turn.results} \subseteq Calls /\ Calls \ {r[1] : r \in turn.results} = {}
        /\ \A d \in Calls : d \notin {r[1] : r \in turn.results} => d \notin finished /\ d[1] <= gens
    BY <1>2
  <2> QED
    BY <1>2, <2>1, BatchOpen
<1>4. Sound(ms, started, finished, gens)
    BY <1>3, OpenSound
<1>5. Results(turn.results) \in Messages /\ Results(turn.results).kind = "results"
    BY <1>2, MessageMade
<1>6. UserSide(ms) /\ Extends(BaseHist, ms, turn.user)
    BY <1>1, <1>2, <1>5, RunFacts, UserSideAppend, ExtendsAppend
<1>7. SameTurn(turn)
    BY Base DEF SameTurn
<1> HIDE DEF ms
<1> QED
    BY <1>1, <1>3, <1>4, <1>6, <1>7, AgainInside, ReturnInside

-----------------------------------------------------------------------------
(* Before the run, and after it.                                            *)

\* The history needs no repair.
LEMMA RepairInside == ASSUME TypeInv, Inside, TypeInv', Repair PROVE Inside'
<1>1. /\ pc = "start" /\ pc' \in {"attempt", "compact"} /\ history' = CloseOrphans(history)
      /\ journal' = journal /\ disk' = disk /\ turn' = turn /\ gens' = gens /\ prompts' = prompts
      /\ drops' = drops /\ started' = started /\ finished' = finished /\ gone' = gone
    BY RepairEffect
<1>2. turn.mode = "append" /\ ~turn.reacted
    BY <1>1 DEF TypeInv, ModeInv
<1>3. history' = history
    BY <1>1, Base, CloseNone DEF Inside, StoreInv, Sound
<1>4. BaseHist' = BaseHist
    BY <1>1, <1>3 DEF BaseHist
<1>5. StoreInv' /\ SuffixInv'
    BY <1>1, <1>3 DEF Inside, StoreInv, SuffixInv
<1>6. BaseInv' /\ WrittenInv' /\ PhaseInv'
    BY <1>1, <1>2 DEF BaseInv, Running, WrittenInv, PhaseInv
<1>7. KeptInv'
    BY <1>1, <1>4 DEF Inside, KeptInv, InTurn
<1> QED
    BY <1>5, <1>6, <1>7 DEF Inside

\* Nothing to cut: the attempt goes on, or its result is staged.
LEMMA NothingInside == ASSUME TypeInv, Inside, TypeInv', NothingToCut PROVE Inside'
<1>1. /\ pc = "compact"
      /\ \/ ~turn.reacted /\ pc' = "attempt" /\ journal' = journal
         \/ /\ turn.reacted /\ pc' = "staged"
            /\ journal'.suffix = SubSeq(turn.msgs, Len(turn.base) + 1, Len(turn.msgs))
      /\ journal'.mode = journal.mode /\ journal'.from = journal.from
      /\ history' = history /\ disk' = disk /\ turn' = turn /\ gens' = gens /\ prompts' = prompts
      /\ drops' = drops /\ started' = started /\ finished' = finished /\ gone' = gone
    BY NothingEffect
<1>2. turn.mode = "append" /\ IsUserTurn(turn.user)
    BY <1>1 DEF TypeInv, ModeInv, InTurn
<1>3. BaseHist' = BaseHist
    BY <1>1 DEF BaseHist
<1>4. StoreInv'
    BY <1>1 DEF Inside, StoreInv
<1>5. PromptsIn(journal.suffix) = PromptsIn(<<turn.user>>)
    BY <1>1, SuffixPrompts
<1>6. journal.mode = "replace" /\ journal.from < Len(history) => history[journal.from + 1].kind # "results"
    BY DEF Inside, SuffixInv
<1>7. CASE ~turn.reacted /\ pc' = "attempt" /\ journal' = journal
  <2>1. SuffixInv'
    BY <1>1, <1>7 DEF Inside, SuffixInv
  <2>2. BaseInv' /\ WrittenInv' /\ PhaseInv'
    BY <1>1, <1>2, <1>7 DEF BaseInv, Running, WrittenInv, PhaseInv
  <2>3. KeptInv'
    BY <1>1, <1>3, <1>7 DEF Inside, KeptInv, InTurn
  <2> QED
    BY <1>4, <2>1, <2>2, <2>3 DEF Inside
<1>8. CASE /\ turn.reacted /\ pc' = "staged"
           /\ journal'.suffix = SubSeq(turn.msgs, Len(turn.base) + 1, Len(turn.msgs))
  <2>1. turn.base = BaseHist /\ Extends(turn.base, turn.msgs, turn.user)
    BY <1>1, <1>8 DEF Inside, BaseInv, Running
  <2>2. Sound(turn.msgs, started, finished, gens)
    BY <1>1, <1>8 DEF Inside, PhaseInv
  <2>3. turn.msgs \in Seq(Messages) /\ turn.base \in Seq(Messages)
    BY Typed
  <2>4. Open(turn.msgs, started, finished, gens)
    BY <2>2, <2>3, SoundOpen
  <2>5. /\ journal'.suffix # << >> /\ journal'.suffix[1] = turn.user
        /\ PromptsIn(journal'.suffix) = PromptsIn(<<turn.user>>)
        /\ Open(journal'.suffix, started, finished, gens)
    BY <1>2, <1>8, <2>1, <2>3, <2>4, TailFacts
  <2>6. SuffixInv'
    BY <1>1, <1>2, <1>6, <2>5 DEF SuffixInv
  <2>7. BaseInv' /\ WrittenInv'
    BY <1>1, <1>3, <1>8, <2>1 DEF BaseInv, WrittenInv
  <2>8. PhaseInv'
    BY <1>1, <1>8, <2>2, <2>5 DEF PhaseInv
  <2>9. KeptInv'
    BY <1>1, <1>3, <1>5, <1>8, <2>5 DEF Inside, KeptInv, InTurn
  <2> QED
    BY <1>4, <2>6, <2>7, <2>8, <2>9 DEF Inside
<1> QED
    BY <1>1, <1>7, <1>8

\* A summary in place of the turns before the cut.
LEMMA CutSound ==
    ASSUME NEW h \in Seq(Messages), NEW st, NEW fi, NEW g, Sound(h, st, fi, g),
           NEW cut \in 2..Len(h), IsTurnStart(h[cut])
    PROVE  Sound(<<Summary>> \o SubSeq(h, cut, Len(h)), st, fi, g)
<1> DEFINE s == SubSeq(h, cut, Len(h))
<1>1. cut \in 1..Len(h) /\ cut \in 1..(Len(h) + 1)
  <2>1. Len(h) \in Nat
    OBVIOUS
  <2> QED
    BY <2>1
<1>2. h[cut].kind # "results"
    BY DEF IsTurnStart
<1>3. Sound(s, st, fi, g)
    BY <1>1, <1>2, SuffixPaired, SuffixTrue DEF Sound
<1>4. s \in Seq(Messages)
    BY <1>1, SuffixSeq
<1>5. Summary \in Messages /\ Summary.kind # "results" /\ Makes(Summary) = {}
    BY MessageMade DEF Summary, Makes
<1>6. Sound(<<Summary>>, st, fi, g) /\ <<Summary>> \in Seq(Messages)
    BY <1>5, OneSound
<1> HIDE DEF s
<1>7. Sound(<<Summary>> \o s, st, fi, g)
    BY <1>3, <1>4, <1>6, ConcatSound
<1> QED
    BY <1>7 DEF s

\* The history is cut at a turn start.
LEMMA SummarizeInside == ASSUME TypeInv, Inside, TypeInv', Summarize PROVE Inside'
<1>1. /\ pc = "compact" /\ gens' = gens + 1 /\ gens \in Nat
      /\ turn'.user = turn.user /\ turn'.mode = turn.mode
      /\ turn'.base = turn.base /\ turn'.msgs = turn.msgs /\ turn'.reacted = turn.reacted
      /\ \/ pc' = "compact" /\ history' = history /\ gone' = gone
         \/ /\ pc' = "attempt" /\ gone' = gone \cup (PromptsIn(history) \ PromptsIn(history'))
            /\ \E cut \in 2..Len(history) : /\ IsTurnStart(history[cut])
                                            /\ history' = <<Summary>> \o SubSeq(history, cut, Len(history))
      /\ journal' = journal /\ disk' = disk /\ prompts' = prompts /\ drops' = drops
      /\ started' = started /\ finished' = finished
    BY SummarizeEffect, Base
<1>2. turn.mode = "append" /\ journal.mode = "append" /\ IsUserTurn(turn.user)
      /\ journal.suffix = <<turn.user>> /\ turn.user \in Messages
    BY <1>1, Typed DEF TypeInv, ModeInv, InTurn
<1>3. BaseHist' = history' /\ BaseHist = history
    BY <1>1, <1>2 DEF BaseHist
<1>4. /\ Sound(history, started, finished, gens + 1) /\ Sound(disk.msgs, started, finished, gens + 1)
      /\ history \in Seq(Messages)
  <2>1. history \in Seq(Messages) /\ disk.msgs \in Seq(Messages)
    BY Typed
  <2>2. Sound(history, started, finished, gens) /\ Sound(disk.msgs, started, finished, gens)
    BY DEF Inside, StoreInv
  <2> QED
    BY <1>1, <2>1, <2>2, Grows DEF Sound
<1>5. Open(journal.suffix, started, finished, gens + 1) /\ journal.suffix # << >> /\ journal.suffix[1] = turn.user
  <2>1. Sound(<<turn.user>>, started, finished, gens + 1) /\ <<turn.user>> \in Seq(Messages)
    BY <1>2, UserPlain, OneSound
  <2>2. Open(<<turn.user>>, started, finished, gens + 1)
    BY <2>1, SoundOpen
  <2>3. <<turn.user>> # << >> /\ <<turn.user>>[1] = turn.user
    OBVIOUS
  <2> QED
    BY <1>2, <2>2, <2>3
<1>6. SuffixInv' /\ WrittenInv'
    BY <1>1, <1>2, <1>5 DEF SuffixInv, WrittenInv
<1>7. CASE pc' = "compact" /\ history' = history /\ gone' = gone
  <2>1. StoreInv'
    BY <1>1, <1>4, <1>7 DEF StoreInv
  <2>2. BaseInv'
    BY <1>1, <1>3, <1>7 DEF Inside, BaseInv, Running
  <2>3. PhaseInv'
    <3>1. ASSUME turn.reacted PROVE Sound(turn.msgs, started, finished, gens + 1)
      <4>1. Sound(turn.msgs, started, finished, gens) /\ turn.msgs \in Seq(Messages)
        BY <1>1, <3>1, Typed DEF Inside, PhaseInv
      <4> QED
        BY <1>1, <4>1, Grows DEF Sound
    <3> QED
      BY <1>1, <1>7, <3>1 DEF PhaseInv
  <2>4. KeptInv'
    BY <1>1, <1>3, <1>7 DEF Inside, KeptInv, InTurn
  <2> QED
    BY <1>6, <2>1, <2>2, <2>3, <2>4 DEF Inside
<1>8. ASSUME pc' = "attempt", gone' = gone \cup (PromptsIn(history) \ PromptsIn(history')),
             NEW cut \in 2..Len(history), IsTurnStart(history[cut]),
             history' = <<Summary>> \o SubSeq(history, cut, Len(history))
      PROVE  Inside'
  <2>1. StoreInv'
    BY <1>1, <1>4, <1>8, CutSound DEF StoreInv
  <2>2. BaseInv' /\ PhaseInv'
    BY <1>1, <1>2, <1>8 DEF BaseInv, Running, PhaseInv
  <2>3. KeptInv'
    BY <1>1, <1>3, <1>8 DEF Inside, KeptInv, InTurn
  <2> QED
    BY <1>6, <2>1, <2>2, <2>3 DEF Inside
<1> QED
    BY <1>1, <1>7, <1>8

\* Between turns there is no run.
LEMMA BetweenTurns ==
    ASSUME pc' \in {"idle", "saving"}
    PROVE  BaseInv' /\ WrittenInv' /\ PhaseInv'
BY DEF BaseInv, Running, WrittenInv, PhaseInv

\* A turn that has ended leaves no journal.
LEMMA EndedInside ==
    ASSUME TypeInv, Inside, pc' \in {"idle", "saving"}, journal' = NoJournal,
           Sound(history', started, finished, gens), disk' = disk, prompts' = prompts, drops' = drops,
           started' = started, finished' = finished, gens' = gens,
           \A p \in (1..prompts) \ gone' : p \in PromptsIn(history') /\ (drops = 0 => p \in PromptsIn(disk.msgs))
    PROVE  Inside'
<1>1. BaseHist' = history'
    BY NoJournalTyped DEF BaseHist
<1>2. StoreInv' /\ SuffixInv'
    BY NoJournalTyped DEF Inside, StoreInv, SuffixInv
<1>3. KeptInv'
    BY <1>1 DEF Inside, KeptInv
<1> QED
    BY <1>2, <1>3, BetweenTurns DEF Inside

\* The epilogue stores a sound history with all its prompts.
LEMMA EpilogueInside ==
    ASSUME TypeInv, Inside, InTurn, NEW h \in Seq(Messages), Epilogue(h),
           Sound(h, started, finished, gens),
           PromptsIn(h) = PromptsIn(BaseHist) \cup PromptsIn(journal.suffix),
           disk' = disk, prompts' = prompts, drops' = drops,
           started' = started, finished' = finished, gens' = gens, gone' = gone
    PROVE  Inside'
<1>1. /\ journal' = NoJournal /\ pc' = "saving"
      /\ history' = WithPrefix(h) \/ history' = h
    BY EpilogueEffect
<1>2. Sound(history', started, finished, gens) /\ PromptsIn(history') = PromptsIn(h)
    BY <1>1, WithPrefixSound
<1>3. \A p \in (1..prompts) \ gone' : p \in PromptsIn(history') /\ (drops = 0 => p \in PromptsIn(disk.msgs))
    BY <1>2 DEF Inside, KeptInv
<1> QED
    BY <1>1, <1>2, <1>3, EndedInside

\* The staged result is committed.
LEMMA CommitInside == ASSUME TypeInv, Inside, TypeInv', Commit PROVE Inside'
<1>1. /\ pc = "staged" /\ Epilogue(turn.msgs) /\ disk' = disk /\ gens' = gens /\ drops' = drops
      /\ prompts' = prompts /\ started' = started /\ finished' = finished /\ gone' = gone
    BY DEF Commit, bounds, ghosts
<1>2. InTurn /\ turn.msgs \in Seq(Messages) /\ BaseHist \in Seq(Messages) /\ IsUserTurn(turn.user)
    BY <1>1, Typed, BaseSound DEF InTurn, TypeInv, ModeInv
<1>3. /\ Sound(turn.msgs, started, finished, gens) /\ PromptsIn(journal.suffix) = PromptsIn(<<turn.user>>)
      /\ Extends(BaseHist, turn.msgs, turn.user)
    BY <1>1 DEF Inside, PhaseInv, BaseInv, Running
<1>4. PromptsIn(turn.msgs) = PromptsIn(BaseHist) \cup PromptsIn(journal.suffix)
    BY <1>2, <1>3, TailFacts
<1> QED
    BY <1>1, <1>2, <1>3, <1>4, EpilogueInside

\* The journal is promoted.
LEMMA CancelInside == ASSUME TypeInv, Inside, TypeInv', Cancel PROVE Inside'
<1>1. /\ InTurn /\ Epilogue(Promoted(history)) /\ disk' = disk /\ gens' = gens /\ drops' = drops
      /\ prompts' = prompts /\ started' = started /\ finished' = finished /\ gone' = gone
    BY DEF Cancel, bounds, ghosts, InTurn
<1>2. journal # NoJournal
    BY <1>1 DEF TypeInv, TypeOK, InTurn
<1> QED
    BY <1>1, <1>2, PromotedSound, EpilogueInside

\* The session is saved.
LEMMA PersistInside == ASSUME TypeInv, Inside, TypeInv', Persist PROVE Inside'
<1>1. /\ pc = "saving" /\ pc' = "idle" /\ disk' = [msgs |-> history, ids |-> ids] /\ disk'.msgs = history
      /\ history' = history /\ journal' = journal /\ gens' = gens /\ drops' = drops
      /\ prompts' = prompts /\ started' = started /\ finished' = finished /\ gone' = gone
    BY DEF Persist, bounds, ghosts
<1>2. BaseHist' = BaseHist
    BY <1>1 DEF BaseHist
<1>3. StoreInv' /\ SuffixInv'
    BY <1>1 DEF Inside, StoreInv, SuffixInv
<1>4. KeptInv'
  <2>1. drops = 0 => journal = NoJournal
    BY <1>1 DEF Inside, KeptInv, InTurn
  <2>2. drops = 0 => BaseHist = history /\ PromptsIn(journal.suffix) = {}
    BY <2>1, NoJournalTyped, PromptsNone DEF BaseHist
  <2> QED
    BY <1>1, <1>2, <2>1, <2>2 DEF Inside, KeptInv
<1> QED
    BY <1>1, <1>3, <1>4, BetweenTurns DEF Inside

\* A turn is dropped: its journal stays.
LEMMA DropInside == ASSUME TypeInv, Inside, TypeInv', Drop PROVE Inside'
<1>1. /\ pc' = "idle" /\ disk' = disk /\ history' = history /\ journal' = journal /\ gens' = gens /\ drops' = drops + 1
      /\ prompts' = prompts /\ started' = started /\ finished' = finished /\ gone' = gone
    BY DEF Drop
<1>2. BaseHist' = BaseHist
    BY <1>1 DEF BaseHist
<1>3. StoreInv' /\ SuffixInv'
    BY <1>1 DEF Inside, StoreInv, SuffixInv
<1>4. drops' \in Nat /\ drops' # 0
  <2>1. drops \in Nat
    BY DEF Inside, KeptInv
  <2> QED
    BY <1>1, <2>1
<1>5. KeptInv'
    BY <1>1, <1>2, <1>4 DEF Inside, KeptInv
<1> QED
    BY <1>1, <1>3, <1>5, BetweenTurns DEF Inside

\* The history is cleared.
LEMMA ClearInside == ASSUME TypeInv, Inside, TypeInv', Clear PROVE Inside'
<1>1. /\ pc' = "saving" /\ history' = << >> /\ journal' = NoJournal /\ gone' = 1..prompts
      /\ disk' = disk /\ gens' = gens /\ prompts' = prompts /\ drops' = drops
      /\ started' = started /\ finished' = finished
    BY ClearEffect
<1> QED
    BY <1>1, NoneSound, EndedInside

\* The stored record needs no repair.
LEMMA RestartInside == ASSUME TypeInv, Inside, TypeInv', Restart PROVE Inside'
<1>1. /\ pc' = "idle" /\ history' = CloseOrphans(disk.msgs) /\ journal' = NoJournal
      /\ gone' = IF drops > 0 THEN (1..prompts) \ PromptsIn(disk.msgs) ELSE gone
      /\ disk' = disk /\ gens' = gens /\ prompts' = prompts /\ drops' = drops
      /\ started' = started /\ finished' = finished
    BY RestartEffect
<1>2. Sound(disk.msgs, started, finished, gens) /\ disk.msgs \in Seq(Messages)
    BY Typed DEF Inside, StoreInv
<1>3. history' = disk.msgs
    BY <1>1, <1>2, CloseNone DEF Sound
<1>4. \A p \in (1..prompts) \ gone' : p \in PromptsIn(disk.msgs)
  <2>1. drops > 0 \/ drops = 0
    BY DEF Inside, KeptInv
  <2>2. drops = 0 => ~(drops > 0)
    OBVIOUS
  <2> QED
    BY <1>1, <2>1, <2>2 DEF Inside, KeptInv
<1> QED
    BY <1>1, <1>2, <1>3, <1>4, EndedInside

\* A prompt is accepted.
LEMMA PromptInside == ASSUME TypeInv, Inside, TypeInv', Prompt PROVE Inside'
<1> DEFINE q == prompts + 1
           ms == Append(history, User(q))
<1>1. /\ pc = "idle" /\ pc' = "start" /\ prompts' = q /\ q \in 1..MaxPrompts
      /\ disk'.msgs = Materialize(ms) /\ history' = Finalized /\ history' \in Seq(Messages)
      /\ journal'.mode = "append" /\ journal'.suffix = <<User(q)>>
      /\ turn'.mode = "append" /\ turn'.reacted = FALSE
      /\ gens' = gens /\ drops' = drops
      /\ started' = started /\ finished' = finished /\ gone' = gone
    BY PromptEffect
<1>2. User(q) \in Messages /\ User(q).kind = "user" /\ User(q).of = q /\ IsUserTurn(User(q))
  <2>1. \A n \in 1..MaxPrompts : User(n) \in Messages
    BY MessageMade
  <2> HIDE DEF q
  <2> QED
    BY <1>1, <2>1 DEF User, IsUserTurn
<1>3. \A p \in 1..q : p = q \/ p \in 1..prompts
  <2>1. prompts \in Nat
    BY Typed
  <2> QED
    BY <2>1
<1> HIDE DEF q
<1>4. User(q).kind # "results" /\ Makes(User(q)) = {}
    BY <1>2, UserPlain
<1>5. Sound(ms, started, finished, gens) /\ ms \in Seq(Messages) /\ history \in Seq(Messages)
    BY <1>2, <1>4, Typed, AppendSound DEF Inside, StoreInv
<1>6. PromptsIn(<<User(q)>>) = {q}
    BY <1>2, PromptsOne
<1>7. PromptsIn(ms) = PromptsIn(history) \cup {q}
    BY <1>2, <1>5, <1>6, PromptsAppend
<1>8. ms # << >>
  <2>1. Len(ms) = Len(history) + 1 /\ Len(history) \in Nat
    BY <1>2, <1>5, Appended
  <2> HIDE DEF ms
  <2>2. Len(ms) # 0
    BY <2>1
  <2> QED
    BY <2>2
<1> HIDE DEF ms
<1>9. Sound(Materialize(ms), started, finished, gens) /\ SameTurns(ms, Materialize(ms))
    BY <1>5, <1>8, SoundOpen, Materialized
<1>10. PromptsIn(disk'.msgs) = PromptsIn(history) \cup {q}
    BY <1>1, <1>7, <1>9, PromptsSame
<1>11. /\ Sound(Finalized, started, finished, gens)
       /\ PromptsIn(Finalized) = PromptsIn(BaseHist) \cup PromptsIn(journal.suffix)
    BY FinalizedSound
<1>12. StoreInv'
    BY <1>1, <1>9, <1>11 DEF StoreInv
<1>13. SuffixInv'
  <2>1. Sound(<<User(q)>>, started, finished, gens) /\ <<User(q)>> \in Seq(Messages)
    BY <1>2, <1>4, OneSound
  <2>2. Open(<<User(q)>>, started, finished, gens)
    BY <2>1, SoundOpen
  <2>3. <<User(q)>> # << >> /\ <<User(q)>>[1] = User(q)
    OBVIOUS
  <2> QED
    BY <1>1, <1>2, <2>2, <2>3 DEF SuffixInv
<1>14. BaseInv' /\ WrittenInv' /\ PhaseInv'
    BY <1>1 DEF BaseInv, Running, WrittenInv, PhaseInv
<1>15. KeptInv'
  <2>1. BaseHist' = Finalized
    BY <1>1 DEF BaseHist
  <2>2. drops = 0 => journal = NoJournal
    BY <1>1 DEF Inside, KeptInv, InTurn
  <2>3. drops = 0 => BaseHist = history /\ PromptsIn(journal.suffix) = {}
    BY <2>2, NoJournalTyped, PromptsNone DEF BaseHist
  <2>4. /\ drops \in Nat
        /\ \A p \in (1..prompts) \ gone : p \in PromptsIn(BaseHist) \cup PromptsIn(journal.suffix)
    BY DEF Inside, KeptInv
  <2>5. ASSUME NEW p \in (1..prompts') \ gone'
        PROVE  /\ p \in PromptsIn(BaseHist') \cup PromptsIn(journal'.suffix)
               /\ drops' = 0 => p \in PromptsIn(disk'.msgs)
    <3>1. p = q \/ p \in (1..prompts) \ gone
      BY <1>1, <1>3
    <3>2. CASE p = q
      BY <1>1, <1>6, <1>10, <3>2
    <3>3. CASE p \in (1..prompts) \ gone
      BY <1>1, <1>10, <1>11, <2>1, <2>3, <2>4, <3>3
    <3> QED
      BY <3>1, <3>2, <3>3
  <2>6. InTurn'
    BY <1>1 DEF InTurn
  <2> QED
    BY <1>1, <2>4, <2>5, <2>6 DEF KeptInv
<1> QED
    BY <1>12, <1>13, <1>14, <1>15 DEF Inside

\* Two sequences with a common beginning.
LEMMA PrefixEqual ==
    ASSUME NEW a \in Seq(Messages), NEW b \in Seq(Messages), NEW n \in 0..Len(a), n <= Len(b),
           \A i \in 1..n : a[i] = b[i]
    PROVE  SubSeq(a, 1, n) = SubSeq(b, 1, n)
<1>0. n \in 0..Len(b)
    OBVIOUS
<1> DEFINE s == SubSeq(a, 1, n)
           t == SubSeq(b, 1, n)
<1>1. s \in Seq(Messages) /\ Len(s) = n /\ DOMAIN s = 1..n /\ \A i \in 1..n : s[i] = a[i]
    BY PrefixSeq
<1>2. t \in Seq(Messages) /\ Len(t) = n /\ DOMAIN t = 1..n /\ \A i \in 1..n : t[i] = b[i]
    BY <1>0, PrefixSeq
<1> HIDE DEF s, t
<1>3. s = t
    BY <1>1, <1>2
<1> QED
    BY <1>3 DEF s, t

\* The history is truncated at a user turn.
LEMMA TruncateInside == ASSUME TypeInv, Inside, TypeInv', Truncate PROVE Inside'
<1>1. /\ pc \in {"idle", "saving"} /\ pc' = "saving"
      /\ gone' = gone \cup (PromptsIn(history) \ PromptsIn(history'))
      /\ journal' = journal /\ disk' = disk /\ history' \in Seq(Messages)
      /\ gens' = gens /\ prompts' = prompts /\ drops' = drops
      /\ started' = started /\ finished' = finished
    BY TruncateEffect
<1>2. PICK at \in DOMAIN history : IsUserTurn(history[at]) /\ history' = SubSeq(history, 1, at - 1)
    BY TruncateEffect
<1> DEFINE n == at - 1
<1>3. history \in Seq(Messages) /\ journal.from \in Nat /\ Sound(history, started, finished, gens)
    BY Typed DEF Inside, StoreInv
<1>4. n \in 0..Len(history) /\ n + 1 = at /\ n \in Nat /\ n < Len(history) /\ Len(history) \in Nat
    BY <1>2, <1>3
<1>5. history[n + 1].kind # "results"
    BY <1>2, <1>4, UserPlain
<1>6. history' = SubSeq(history, 1, n)
    BY <1>2
<1> HIDE DEF n
<1>7. Sound(history', started, finished, gens)
    BY <1>3, <1>4, <1>5, <1>6, PrefixSound
<1>8. Len(history') = n /\ \A i \in 1..n : history'[i] = history[i]
    BY <1>3, <1>4, <1>6, PrefixSeq
<1>9. StoreInv'
    BY <1>1, <1>7 DEF Inside, StoreInv
<1>10. SuffixInv'
  <2>1. ASSUME journal.mode = "replace", journal.from < n PROVE history'[journal.from + 1].kind # "results"
    <3>1. journal.from + 1 \in 1..n /\ journal.from < Len(history)
      BY <1>3, <1>4, <2>1
    <3>2. history[journal.from + 1].kind # "results"
      BY <2>1, <3>1 DEF Inside, SuffixInv
    <3> QED
      BY <1>8, <3>1, <3>2
  <2> QED
    BY <1>1, <1>8, <2>1 DEF Inside, SuffixInv
<1>11. PromptsIn(BaseHist') = PromptsIn(history') \/ BaseHist' = BaseHist
  <2>1. CASE journal.mode = "replace" /\ journal.from < n
    <3>1. journal.from < Len(history) /\ journal.from \in 0..n /\ journal.from \in 0..Len(history) /\ journal.from <= n
          /\ \A i \in 1..journal.from : i \in 1..n
      BY <1>3, <1>4, <2>1
    <3>2. BaseHist' = SubSeq(history', 1, journal.from)
      BY <1>1, <1>8, <2>1 DEF BaseHist, Truncated
    <3>3. BaseHist = SubSeq(history, 1, journal.from)
      BY <2>1, <3>1 DEF BaseHist, Truncated
    <3>4. SubSeq(history, 1, journal.from) = SubSeq(history', 1, journal.from)
      BY <1>1, <1>3, <1>8, <3>1, PrefixEqual
    <3> QED
      BY <3>2, <3>3, <3>4
  <2>2. CASE ~(journal.mode = "replace" /\ journal.from < n)
    BY <1>1, <1>8, <2>2 DEF BaseHist, Truncated
  <2> QED
    BY <2>1, <2>2
<1>12. KeptInv'
  <2>1. PromptsIn(BaseHist) \subseteq PromptsIn(history)
    BY BaseSound
  <2>2. /\ drops \in Nat /\ (drops = 0 => journal = NoJournal)
        /\ \A p \in (1..prompts) \ gone : /\ p \in PromptsIn(BaseHist) \cup PromptsIn(journal.suffix)
                                          /\ drops = 0 => p \in PromptsIn(disk.msgs)
    BY <1>1 DEF Inside, KeptInv, InTurn
  <2>3. \A p \in (1..prompts) \ gone' : p \in PromptsIn(BaseHist') \cup PromptsIn(journal.suffix)
    BY <1>1, <1>11, <2>1, <2>2
  <2> QED
    BY <1>1, <2>2, <2>3 DEF KeptInv
<1> QED
    BY <1>1, <1>9, <1>10, <1>12, BetweenTurns DEF Inside

\* The retried turn starts where the history was cut, unless the history is torn.
LEMMA RetryBase ==
    ASSUME TypeInv, Inside, NEW at \in 1..Len(history), IsUserTurn(history[at]),
           ~(journal.mode = "replace" /\ journal.from < at - 1)
    PROVE  /\ Truncated(Finalized, at - 1) = SubSeq(history, 1, at - 1)
           /\ at - 1 < Len(Finalized) => Finalized[(at - 1) + 1].kind # "results"
<1> DEFINE n == at - 1
           L == Len(history)
           B == BaseHist
           M == Materialize(journal.suffix)
<1>1. history \in Seq(Messages) /\ journal.from \in Nat /\ journal.mode \in {"none", "append", "replace"}
      /\ (journal.mode = "none" => journal = NoJournal)
    BY Typed DEF TypeInv, ModeInv
<1>2. n \in Nat /\ n < L /\ n + 1 = at /\ L \in Nat /\ n \in 0..L
    BY <1>1
<1>3. history[at].kind # "results"
    BY UserPlain
<1>4. ~(journal.mode = "replace" /\ journal.from < n)
    OBVIOUS
<1> HIDE DEF n
<1>5. CASE journal = NoJournal
    BY <1>2, <1>3, <1>5 DEF Finalized, Truncated
<1>6. CASE journal # NoJournal
  <2>1. Finalized = B \o M /\ B \in Seq(Messages) /\ M \in Seq(Messages) /\ SameTurns(journal.suffix, M)
    BY <1>6, PromotedSound, BaseSound DEF Finalized
  <2>2. Len(B) >= n /\ Len(B) \in Nat /\ Len(B) <= L /\ \A i \in 1..Len(B) : B[i] = history[i]
    <3>1. CASE journal.mode = "replace" /\ journal.from < L
      <4>1. journal.from \in 0..L /\ journal.from >= n /\ journal.from <= L
        BY <1>1, <1>2, <1>4, <3>1
      <4>2. B = SubSeq(history, 1, journal.from)
        BY <3>1 DEF BaseHist, Truncated
      <4> QED
        BY <1>1, <4>1, <4>2, PrefixSeq
    <3>2. CASE ~(journal.mode = "replace" /\ journal.from < L)
      <4>1. B = history
        BY <3>2 DEF BaseHist, Truncated
      <4> QED
        BY <1>2, <4>1
    <3> QED
      BY <3>1, <3>2
  <2>3. M # << >> /\ Len(M) \in Nat /\ Len(M) > 0 /\ M[1].kind # "results"
    <3>1. journal.suffix # << >> /\ IsUserTurn(journal.suffix[1]) /\ journal.suffix \in Seq(Messages)
      BY <1>6, Typed DEF Inside, SuffixInv
    <3>2. 1 \in DOMAIN journal.suffix
      BY <3>1
    <3>3. 1 \in DOMAIN M /\ M[1] = journal.suffix[1]
      BY <2>1, <3>1, <3>2 DEF SameTurns
    <3> HIDE DEF M
    <3>4. Len(M) \in Nat /\ Len(M) > 0 /\ M # << >>
      BY <2>1, <3>3
    <3> QED
      BY <3>1, <3>3, <3>4, UserPlain
  <2> HIDE DEF B, M, L
  <2>4. /\ Finalized \in Seq(Messages) /\ Len(Finalized) = Len(B) + Len(M)
        /\ (\A i \in 1..Len(B) : Finalized[i] = B[i])
        /\ (\A i \in 1..Len(M) : Finalized[Len(B) + i] = M[i])
    BY <2>1, Concat
  <2>5. n < Len(Finalized) /\ n <= L /\ Len(Finalized) \in Nat /\ n \in 0..Len(Finalized)
    BY <1>2, <2>2, <2>3, <2>4
  <2>6. \A i \in 1..n : i \in 1..Len(B)
    BY <1>2, <2>2
  <2>7. \A i \in 1..n : Finalized[i] = history[i]
    BY <2>2, <2>4, <2>6
  <2>8. SubSeq(Finalized, 1, n) = SubSeq(history, 1, n)
    BY <1>1, <2>4, <2>5, <2>7, PrefixEqual DEF L
  <2>9. Truncated(Finalized, n) = SubSeq(history, 1, n)
    BY <2>5, <2>8 DEF Truncated
  <2>10. Finalized[n + 1].kind # "results"
    <3>1. CASE n < Len(B)
      <4>1. n + 1 \in 1..Len(B)
        BY <1>2, <2>2, <3>1
      <4> QED
        BY <1>2, <1>3, <2>2, <2>4, <4>1
    <3>2. CASE n = Len(B)
      <4>1. 1 \in 1..Len(M)
        BY <2>3
      <4> QED
        BY <2>3, <2>4, <3>2, <4>1
    <3> QED
      BY <1>2, <2>2, <3>1, <3>2
  <2> QED
    BY <2>9, <2>10 DEF n
<1> QED
    BY <1>5, <1>6

\* The last user turn is run again.
LEMMA RetryInside == ASSUME TypeInv, Inside, TypeInv', Retry, ~torn' PROVE Inside'
<1> DEFINE at == LastUserTurn(history)
           n == at - 1
<1>1. /\ pc = "idle" /\ pc' = "attempt" /\ at \in 1..Len(history) /\ IsUserTurn(history[at])
      /\ history[at] \in Messages
      /\ (\A j \in 1..Len(history) : j > at => ~IsUserTurn(history[j]))
      /\ history' = Finalized /\ history' \in Seq(Messages)
      /\ journal'.mode = "replace" /\ journal'.suffix = <<history[at]>> /\ journal'.from = n
      /\ turn'.mode = "replace" /\ turn'.base = SubSeq(history, 1, n)
      /\ gone' = gone \cup (PromptsIn(Finalized) \ PromptsIn(history))
      /\ torn' = (torn \/ (journal.mode = "replace" /\ journal.from < n))
      /\ disk' = disk /\ gens' = gens /\ prompts' = prompts
      /\ drops' = drops /\ started' = started /\ finished' = finished
    BY RetryEffect
<1> HIDE DEF at
<1>2. ~(journal.mode = "replace" /\ journal.from < n)
    BY <1>1
<1>3. /\ Truncated(Finalized, n) = SubSeq(history, 1, n)
      /\ n < Len(Finalized) => Finalized[n + 1].kind # "results"
    BY <1>1, <1>2, RetryBase
<1>4. history \in Seq(Messages)
    BY Typed
<1>5. n \in 0..Len(history) /\ n + 1 = at /\ \A i \in 1..Len(history) : i <= at => i = at \/ i \in 1..n
    BY <1>1, <1>4
<1> HIDE DEF n
<1>6. BaseHist' = SubSeq(history, 1, n)
    BY <1>1, <1>3 DEF BaseHist
<1>7. StoreInv'
    BY <1>1, FinalizedSound DEF Inside, StoreInv
<1>8. SuffixInv'
  <2>1. Sound(<<history[at]>>, started, finished, gens) /\ <<history[at]>> \in Seq(Messages)
    BY <1>1, UserPlain, OneSound
  <2>2. Open(<<history[at]>>, started, finished, gens)
    BY <2>1, SoundOpen
  <2>3. <<history[at]>> # << >> /\ <<history[at]>>[1] = history[at]
    OBVIOUS
  <2> QED
    BY <1>1, <1>3, <2>2, <2>3 DEF SuffixInv
<1>9. BaseInv' /\ WrittenInv' /\ PhaseInv'
    BY <1>1, <1>6 DEF BaseInv, Running, WrittenInv, PhaseInv
<1>10. KeptInv'
  <2>1. /\ drops \in Nat
        /\ \A p \in (1..prompts) \ gone : /\ p \in PromptsIn(BaseHist) \cup PromptsIn(journal.suffix)
                                          /\ drops = 0 => p \in PromptsIn(disk.msgs)
    BY DEF Inside, KeptInv
  <2>2. PromptsIn(Finalized) = PromptsIn(BaseHist) \cup PromptsIn(journal.suffix)
    BY FinalizedSound
  <2>3. \A p \in (1..prompts) \ gone' : p \in PromptsIn(history)
    BY <1>1, <2>1, <2>2
  <2>4. ASSUME NEW p \in PromptsIn(history)
        PROVE  p \in PromptsIn(SubSeq(history, 1, n)) \cup PromptsIn(<<history[at]>>)
    <3>1. PICK i \in DOMAIN history : history[i].kind = "user" /\ history[i].of = p
      BY <2>4, PromptIn
    <3>2. i \in 1..Len(history) /\ IsUserTurn(history[i])
      BY <1>4, <3>1 DEF IsUserTurn
    <3>3. i <= at
      BY <1>1, <3>2
    <3>4. CASE i = at
      BY <3>1, <3>4, PromptsOne
    <3>5. CASE i \in 1..n
      <4>1. i \in DOMAIN SubSeq(history, 1, n) /\ SubSeq(history, 1, n)[i] = history[i]
        BY <1>4, <1>5, <3>5, PrefixSeq
      <4>2. p \in PromptsIn(SubSeq(history, 1, n))
        BY <3>1, <4>1, PromptIn
      <4> QED
        BY <4>2
    <3> QED
      BY <1>5, <3>2, <3>3, <3>4, <3>5
  <2>5. InTurn'
    BY <1>1 DEF InTurn
  <2> QED
    BY <1>1, <1>6, <2>1, <2>3, <2>4, <2>5 DEF KeptInv
<1> QED
    BY <1>7, <1>8, <1>9, <1>10 DEF Inside

-----------------------------------------------------------------------------
(* The invariant holds, and what follows from it.                           *)

\* The invariant holds initially.
LEMMA InitContent == Init => ContentInv
<1> SUFFICES ASSUME Init PROVE Inside
    BY DEF ContentInv
<1>1. /\ history = << >> /\ journal = NoJournal /\ disk.msgs = << >> /\ pc = "idle"
      /\ prompts = 0 /\ drops = 0
    BY DEF Init
<1>2. StoreInv /\ SuffixInv
    BY <1>1, NoneSound, NoJournalTyped DEF StoreInv, SuffixInv
<1>3. BaseInv /\ WrittenInv /\ PhaseInv
    BY <1>1 DEF BaseInv, Running, WrittenInv, PhaseInv
<1>4. KeptInv
  <2>1. 1..prompts = {}
    BY <1>1
  <2> QED
    BY <1>1, <2>1 DEF KeptInv
<1> QED
    BY <1>2, <1>3, <1>4 DEF Inside

\* A torn history stays torn.
LEMMA TornStays == ASSUME Next, torn PROVE torn'
<1>1. CASE Prompt \/ Repair \/ Retry \/ Attempt \/ NothingToCut \/ Summarize \/ RetryGeneration
    BY <1>1 DEF Prompt, Repair, Retry, Attempt, NothingToCut, Summarize, RetryGeneration, ghosts
<1>2. CASE RespondText \/ RespondTools \/ RespondMalformed \/ RespondError
    BY <1>2 DEF RespondText, RespondTools, RespondMalformed, RespondError, Respond
<1>3. CASE AutoContinueArm \/ FailoverArm \/ ResumeArm \/ TerminalArm \/ BatchDone
    BY <1>3 DEF AutoContinueArm, FailoverArm, ResumeArm, TerminalArm, BatchDone, Again, Return, ghosts
<1>4. CASE ToolUseArm \/ ToolBlocked \/ ToolStart \/ ToolDone
    BY <1>4 DEF ToolUseArm, ToolBlocked, ToolStart, ToolDone, ghosts
<1>5. CASE Commit \/ Cancel \/ Persist \/ Drop \/ Truncate \/ Clear \/ Restart
    BY <1>5 DEF Commit, Cancel, Persist, Drop, Truncate, Clear, Restart, ghosts
<1> QED
    BY <1>1, <1>2, <1>3, <1>4, <1>5 DEF Next

\* Every action keeps the invariant.
LEMMA StepInside == ASSUME TypeInv, Inside, TypeInv', Next, ~torn' PROVE Inside'
<1>1. CASE Prompt \/ Repair \/ Retry \/ Attempt \/ NothingToCut \/ Summarize \/ RetryGeneration
    BY <1>1, PromptInside, RepairInside, RetryInside, AttemptInside, NothingInside, SummarizeInside,
       GenerationInside
<1>2. CASE RespondText \/ RespondTools \/ RespondMalformed \/ RespondError
    BY <1>2, ReplyInside
<1>3. CASE AutoContinueArm \/ FailoverArm \/ ResumeArm \/ TerminalArm
    BY <1>3, AutoInside, FailoverInside, ResumeInside, TerminalInside
<1>4. CASE ToolUseArm \/ ToolBlocked \/ ToolStart \/ ToolDone \/ BatchDone
    BY <1>4, ToolUseInside, BlockedInside, StartInside, DoneInside, BatchInside
<1>5. CASE Commit \/ Cancel \/ Persist \/ Drop \/ Truncate \/ Clear \/ Restart
    BY <1>5, CommitInside, CancelInside, PersistInside, DropInside, TruncateInside, ClearInside, RestartInside
<1> QED
    BY <1>1, <1>2, <1>3, <1>4, <1>5 DEF Next

\* So does a step that changes nothing.
LEMMA StutterInside == ASSUME Inside, UNCHANGED vars PROVE Inside'
<1>1. /\ history' = history /\ journal' = journal /\ disk' = disk /\ pc' = pc /\ turn' = turn
      /\ gens' = gens /\ prompts' = prompts /\ drops' = drops
      /\ started' = started /\ finished' = finished /\ gone' = gone
    BY DEF vars, bounds, ghosts
<1>2. BaseHist' = BaseHist /\ Running' = Running /\ Written' = Written /\ Calls' = Calls /\ InTurn' = InTurn
    BY <1>1 DEF BaseHist, Running, Written, Calls, InTurn, Batch
<1>3. StoreInv' /\ SuffixInv'
    BY <1>1 DEF Inside, StoreInv, SuffixInv
<1>4. BaseInv' /\ WrittenInv'
    BY <1>1, <1>2 DEF Inside, BaseInv, WrittenInv
<1>5. PhaseInv'
    BY <1>1, <1>2 DEF Inside, PhaseInv
<1>6. KeptInv'
    BY <1>1, <1>2 DEF Inside, KeptInv
<1> QED
    BY <1>3, <1>4, <1>5, <1>6 DEF Inside

\* The invariant is inductive.
LEMMA ContentStep == TypeInv /\ TypeInv' /\ ContentInv /\ [Next]_vars => ContentInv'
<1> SUFFICES ASSUME TypeInv, TypeInv', ContentInv, [Next]_vars, ~torn' PROVE Inside'
    BY DEF ContentInv
<1>1. CASE Next
  <2>1. ~torn
    BY <1>1, TornStays
  <2>2. Inside
    BY <2>1 DEF ContentInv
  <2> QED
    BY <1>1, <2>2, StepInside
<1>2. CASE UNCHANGED vars
  <2>1. ~torn
    BY <1>2 DEF vars, ghosts
  <2>2. Inside
    BY <2>1 DEF ContentInv
  <2> QED
    BY <1>2, <2>2, StutterInside
<1> QED
    BY <1>1, <1>2

\* The invariant holds.
LEMMA ContentHolds == Spec => [](TypeInv /\ ContentInv)
<1>1. Spec => []TypeInv
    BY TypeHolds
<1> QED
    BY <1>1, InitContent, ContentStep, PTL DEF Spec

\* A sound sequence is paired and truthful.
LEMMA SoundTruthful ==
    ASSUME NEW ms \in Seq(Messages), NEW g, Sound(ms, started, finished, g)
    PROVE  Paired(ms) /\ Truthful(ms)
<1>1. ASSUME NEW i \in DOMAIN ms, ms[i].kind = "results", NEW r \in ms[i].res
      PROVE  CASE r[2] = "done" -> r[1] \in finished
               [] r[2] = "uncertain" -> r[1] \notin finished
               [] OTHER -> r[1] \notin started
  <2>1. ms[i] \in Messages
    OBVIOUS
  <2>2. ms[i].res \in SUBSET (CallIds \X Says)
    BY <1>1, <2>1, MessageKinds
  <2>3. r[2] \in {"done", "blocked", "interrupted", "uncertain"}
    BY <2>2 DEF Says
  <2>4. /\ r[2] = "done" => r[1] \in finished
        /\ r[2] = "uncertain" => r[1] \notin finished
        /\ r[2] \in {"blocked", "interrupted"} => r[1] \notin started
    BY <1>1 DEF Sound, AllTrue, IsTrue
  <2> QED
    BY <2>3, <2>4
<1> QED
    BY <1>1 DEF Sound, Truthful

(* StoredIsTruthful: whatever cancels, panics, compactions, retries and     *)
(* crashes happened, the history and the stored record answer every call in *)
(* the message after it, and what is said of a call is what happened to it. *)
THEOREM StoredCorrect == Spec => []StoredIsTruthful
<1>1. TypeInv /\ ContentInv => StoredIsTruthful
  <2> SUFFICES ASSUME TypeInv, ContentInv, ~torn, NEW ms \in {history, disk.msgs} PROVE Paired(ms) /\ Truthful(ms)
    BY DEF StoredIsTruthful
  <2>1. ms \in Seq(Messages) /\ Sound(ms, started, finished, gens)
    BY Typed DEF ContentInv, Inside, StoreInv
  <2> QED
    BY <2>1, SoundTruthful
<1> QED
    BY <1>1, ContentHolds, PTL

(* WellFormedRequest: every request of run_inner answers each call in the   *)
(* message after it and, empty failed attempts aside, ends on the user      *)
(* side, whatever arm of the loop made it.                                  *)
THEOREM RequestCorrect == Spec => []WellFormedRequest
<1>1. TypeInv /\ ContentInv => WellFormedRequest
    BY DEF ContentInv, Inside, PhaseInv, UserSide, WellFormedRequest
<1> QED
    BY <1>1, ContentHolds, PTL

(* AcceptedKept: an accepted prompt is in the history or in the journal of  *)
(* its turn until somebody removes it, and, unless a turn was dropped, in   *)
(* the stored record as well: before its turn begins, while it runs, when   *)
(* it is cancelled and after a crash at any of these points.                *)
THEOREM PromptsCorrect == Spec => []AcceptedKept
<1>1. TypeInv /\ ContentInv => AcceptedKept
  <2> SUFFICES ASSUME TypeInv, ContentInv, ~torn PROVE AcceptedKept
    BY DEF AcceptedKept
  <2>1. Inside
    BY DEF ContentInv
  <2>2. PromptsIn(BaseHist) \subseteq PromptsIn(history)
    BY <2>1, BaseSound
  <2> QED
    BY <2>1, <2>2 DEF Inside, KeptInv, AcceptedKept
<1> QED
    BY <1>1, ContentHolds, PTL

-----------------------------------------------------------------------------
(* The client ids: the inductive invariant.                                 *)

\* The user turns of ms from i on, and how many they are; those up to n.
From(ms, i) == {j \in DOMAIN ms : i <= j /\ IsUserTurn(ms[j])}
Rank(ms, i) == Cardinality(From(ms, i))
Upto(ms, n) == {j \in DOMAIN ms : j <= n /\ IsUserTurn(ms[j])}

\* Counted from the back, each id in s is the one of its user turn in ms, or none.
\* That is how the code keeps them: align_client_user_message_ids pads and trims at the
\* front, whatever a compaction evicted there.
Agree(s, ms) == \A i \in DOMAIN ms :
    IsUserTurn(ms[i]) /\ Rank(ms, i) <= Len(s) => s[Len(s) + 1 - Rank(ms, i)] \in {NoId, ms[i].of}

\* No nudge among the messages.
Plain(ms) == \A i \in DOMAIN ms : ms[i].kind # "nudge"

\* u is the first message of s and its only user turn.
OneTurn(s, u) == s # << >> /\ s[1] = u /\ \A i \in DOMAIN s : i > 1 => ~IsUserTurn(s[i])

\* While no nudge was pushed and no turn dropped: the ids agree with the history and with
\* the stored record, and those the turn began with agree with the history it goes on from
\* and its own prompt; a retry puts its turn where the history had it.
Names ==
    /\ ~torn /\ drops = 0
    /\ Plain(history) /\ Plain(disk.msgs)
    /\ Agree(ids, history) /\ Agree(disk.ids, disk.msgs)
    /\ InTurn =>
         /\ turn.user.kind = "user" /\ OneTurn(journal.suffix, turn.user)
         /\ Agree(turn.ids, Append(BaseHist, turn.user))
         /\ turn.mode = "replace" => SameTurns(history, Append(BaseHist, turn.user))
    /\ Running => Plain(turn.msgs)

\* The inductive invariant of the ids.
NamesInv == ~shifted => Names

-----------------------------------------------------------------------------
(* User turns counted from the back.                                        *)

\* The indices of a sequence are finitely many.
LEMMA TurnsFinite ==
    ASSUME NEW ms \in Seq(Messages), NEW S, S \subseteq DOMAIN ms
    PROVE  IsFiniteSet(S) /\ Cardinality(S) \in Nat
<1>1. Len(ms) \in Nat /\ DOMAIN ms = 1..Len(ms)
    OBVIOUS
<1>2. IsFiniteSet(1..Len(ms))
    BY <1>1, FS_Interval
<1>3. IsFiniteSet(S)
    BY <1>1, <1>2, FS_Subset
<1> QED
    BY <1>3, FS_CardinalityType

\* A user turn counts itself.
LEMMA RankNat ==
    ASSUME NEW ms \in Seq(Messages), NEW i
    PROVE  /\ Rank(ms, i) \in Nat /\ IsFiniteSet(From(ms, i)) /\ From(ms, i) \subseteq DOMAIN ms
           /\ i \in DOMAIN ms /\ IsUserTurn(ms[i]) => Rank(ms, i) >= 1
<1>1. From(ms, i) \subseteq DOMAIN ms
    BY DEF From
<1>2. IsFiniteSet(From(ms, i)) /\ Cardinality(From(ms, i)) \in Nat
    BY <1>1, TurnsFinite
<1>3. ASSUME i \in DOMAIN ms, IsUserTurn(ms[i]) PROVE Rank(ms, i) >= 1
  <2>1. i <= i
    BY <1>3
  <2>2. i \in From(ms, i)
    BY <1>3, <2>1 DEF From
  <2>3. Cardinality(From(ms, i)) # 0
    BY <1>2, <2>2, FS_EmptySet
  <2> QED
    BY <1>2, <2>3 DEF Rank
<1> QED
    BY <1>1, <1>2, <1>3 DEF Rank

\* Align keeps the ids where they are, counted from the back.
LEMMA AlignBack ==
    ASSUME NEW s \in Seq(Ids), NEW n \in Nat, NEW r \in 1..n
    PROVE  Align(s, n)[n + 1 - r] = IF r <= Len(s) THEN s[Len(s) + 1 - r] ELSE NoId
<1> DEFINE l == Len(s)
<1>0. l \in Nat
    OBVIOUS
<1>1. CASE l > n
  <2>1. \A i \in 1..n : Align(s, n)[i] = s[l - n + i]
    BY <1>1, Trimmed
  <2> HIDE DEF l
  <2>2. n + 1 - r \in 1..n /\ l - n + (n + 1 - r) = l + 1 - r /\ r <= l
    BY <1>0, <1>1
  <2>3. Align(s, n)[n + 1 - r] = s[l - n + (n + 1 - r)]
    BY <2>1, <2>2
  <2> QED
    BY <2>2, <2>3 DEF l
<1>2. CASE ~(l > n)
  <2> DEFINE d == n - l
             pad == [i \in 1..d |-> NoId]
  <2>1. d \in Nat /\ d + l = n
    BY <1>0, <1>2
  <2>2. Align(s, n) = pad \o s
    BY <1>2 DEF Align
  <2> HIDE DEF d, l
  <2>3. pad \in Seq(Ids) /\ Len(pad) = d
    BY <2>1, Bounds
  <2>4. \A i \in 1..d : pad[i] = NoId
    OBVIOUS
  <2> HIDE DEF pad
  <2>5. (\A i \in 1..d : (pad \o s)[i] = pad[i]) /\ (\A i \in 1..l : (pad \o s)[d + i] = s[i])
    BY <2>3, Concat DEF l
  <2>6. CASE r <= l
    <3>1. l + 1 - r \in 1..l /\ d + (l + 1 - r) = n + 1 - r
      BY <1>0, <2>1, <2>6
    <3>2. (pad \o s)[d + (l + 1 - r)] = s[l + 1 - r]
      BY <2>5, <3>1
    <3> QED
      BY <2>2, <2>6, <3>1, <3>2 DEF l
  <2>7. CASE ~(r <= l)
    <3>1. n + 1 - r \in 1..d
      BY <1>0, <2>1, <2>7
    <3>2. (pad \o s)[n + 1 - r] = NoId
      BY <2>4, <2>5, <3>1
    <3> QED
      BY <2>2, <2>7, <3>2 DEF l
  <2> QED
    BY <2>6, <2>7
<1> QED
    BY <1>1, <1>2

\* align_client_user_message_ids to any length keeps the agreement.
LEMMA AgreeAlign ==
    ASSUME NEW s \in Seq(Ids), NEW n \in Nat, NEW ms \in Seq(Messages), Agree(s, ms)
    PROVE  Agree(Align(s, n), ms) /\ Align(s, n) \in Seq(Ids) /\ Len(Align(s, n)) = n
<1>1. Align(s, n) \in Seq(Ids) /\ Len(Align(s, n)) = n
    BY Aligned
<1>2. ASSUME NEW i \in DOMAIN ms, IsUserTurn(ms[i]), Rank(ms, i) <= n
      PROVE  Align(s, n)[n + 1 - Rank(ms, i)] \in {NoId, ms[i].of}
  <2> DEFINE r == Rank(ms, i)
  <2>1. r \in Nat /\ r >= 1
    BY <1>2, RankNat
  <2> HIDE DEF r
  <2>2. r \in 1..n
    BY <1>2, <2>1 DEF r
  <2>3. Align(s, n)[n + 1 - r] = IF r <= Len(s) THEN s[Len(s) + 1 - r] ELSE NoId
    BY <2>2, AlignBack
  <2> QED
    BY <1>2, <2>3 DEF r, Agree
<1> QED
    BY <1>1, <1>2 DEF Agree

\* The same user turns have the same ids.
LEMMA AgreeSame ==
    ASSUME NEW s, NEW a \in Seq(Messages), NEW b \in Seq(Messages), SameTurns(a, b), Agree(s, a)
    PROVE  Agree(s, b)
<1>1. ASSUME NEW i PROVE From(a, i) = From(b, i)
    BY DEF From, SameTurns
<1>2. \A i : Rank(a, i) = Rank(b, i)
    BY <1>1 DEF Rank
<1> QED
    BY <1>2 DEF Agree, SameTurns

\* They have the same nudges.
LEMMA PlainSame ==
    ASSUME NEW a, NEW b, SameTurns(a, b), Plain(a)
    PROVE  Plain(b)
BY DEF SameTurns, Plain, IsUserTurn

\* A prompt and its id are pushed together.
LEMMA AgreePush ==
    ASSUME NEW s \in Seq(Ids), NEW ms \in Seq(Messages), Agree(s, ms), NEW x \in UserMessages
    PROVE  /\ Agree(Append(s, x.of), Append(ms, x)) /\ Append(s, x.of) \in Seq(Ids)
           /\ Append(ms, x) \in Seq(Messages) /\ (Plain(ms) => Plain(Append(ms, x)))
<1> DEFINE l == Len(ms)
           n == Len(s)
           w == Append(ms, x)
           t == Append(s, x.of)
<1>0. x \in Messages /\ x.kind = "user" /\ IsUserTurn(x) /\ x.of \in Ids
  <2>1. x \in Messages /\ x.kind = "user" /\ x.of \in 1..MaxPrompts
    BY MessageMade DEF UserMessages
  <2> QED
    BY <2>1, Bounds DEF IsUserTurn
<1>1. /\ w \in Seq(Messages) /\ Len(w) = l + 1 /\ DOMAIN w = 1..(l + 1) /\ w[l + 1] = x
      /\ (\A i \in 1..l : w[i] = ms[i]) /\ DOMAIN ms = 1..l /\ l \in Nat
    BY <1>0, Appended
<1>2. /\ t \in Seq(Ids) /\ Len(t) = n + 1 /\ t[n + 1] = x.of
      /\ (\A i \in 1..n : t[i] = s[i]) /\ n \in Nat
    BY <1>0, Appended
<1> HIDE DEF w, t, l, n
<1>3. \A i \in 1..(l + 1) : i = l + 1 \/ i \in 1..l
    BY <1>1
<1>4. ASSUME NEW i \in 1..l PROVE Rank(w, i) = Rank(ms, i) + 1
  <2>1. From(w, i) = From(ms, i) \cup {l + 1}
    <3>1. i <= l + 1 /\ l + 1 \in 1..(l + 1) /\ \A j \in 1..l : j \in 1..(l + 1)
      BY <1>1
    <3> QED
      BY <1>0, <1>1, <1>3, <3>1 DEF From
  <2>2. l + 1 \notin From(ms, i)
    <3>1. l + 1 \notin 1..l
      BY <1>1
    <3> QED
      BY <1>1, <3>1 DEF From
  <2> QED
    BY <2>1, <2>2, RankNat, FS_AddElement DEF Rank
<1>5. Rank(w, l + 1) = 1
  <2>1. l + 1 \in 1..(l + 1) /\ l + 1 <= l + 1 /\ \A j \in 1..l : ~(l + 1 <= j)
    BY <1>1
  <2>2. From(w, l + 1) = {l + 1}
    BY <1>0, <1>1, <1>3, <2>1 DEF From
  <2> QED
    BY <2>2, FS_Singleton DEF Rank
<1>6. ASSUME NEW i \in DOMAIN w, IsUserTurn(w[i]), Rank(w, i) <= Len(t)
      PROVE  t[Len(t) + 1 - Rank(w, i)] \in {NoId, w[i].of}
  <2>1. CASE i = l + 1
    <3>1. (n + 1) + 1 - 1 = n + 1
      BY <1>2
    <3> QED
      BY <1>1, <1>2, <1>5, <2>1, <3>1
  <2>2. CASE i \in 1..l
    <3> DEFINE r == Rank(ms, i)
    <3>1. w[i] = ms[i] /\ i \in DOMAIN ms /\ IsUserTurn(ms[i])
      BY <1>1, <1>6, <2>2
    <3>2. r \in Nat /\ r >= 1 /\ Rank(w, i) = r + 1
      BY <1>4, <2>2, <3>1, RankNat
    <3> HIDE DEF r
    <3>3. r <= n /\ n + 1 - r \in 1..n /\ (n + 1) + 1 - (r + 1) = n + 1 - r
      BY <1>2, <1>6, <3>2
    <3>4. s[n + 1 - r] \in {NoId, ms[i].of}
      BY <3>1, <3>3 DEF Agree, r, n
    <3>5. t[n + 1 - r] = s[n + 1 - r]
      BY <1>2, <3>3
    <3> QED
      BY <1>2, <3>1, <3>2, <3>3, <3>4, <3>5
  <2> QED
    BY <1>1, <1>3, <2>1, <2>2
<1>7. Agree(t, w)
    BY <1>6 DEF Agree
<1>8. Plain(ms) => Plain(w)
    BY <1>0, <1>1, <1>3 DEF Plain
<1> QED
    BY <1>1, <1>2, <1>7, <1>8 DEF t, w

\* b is the end of a, d messages later, behind a message that is no user turn.
TailOf(a, b, d) ==
    /\ d \in Nat /\ Len(b) + d = Len(a) /\ Len(b) >= 1 /\ ~IsUserTurn(b[1])
    /\ \A j \in 2..Len(b) : b[j] = a[j + d]

\* A compaction takes turns away at the front and leaves the agreement.
LEMMA AgreeShift ==
    ASSUME NEW s \in Seq(Ids), NEW a \in Seq(Messages), NEW b \in Seq(Messages), NEW d, TailOf(a, b, d),
           Agree(s, a)
    PROVE  Agree(s, b) /\ (Plain(a) => Plain(b) \/ b[1].kind = "nudge")
<1> DEFINE l == Len(b)
           m == Len(a)
<1>1. /\ d \in Nat /\ l + d = m /\ l \in Nat /\ l >= 1 /\ m \in Nat /\ ~IsUserTurn(b[1])
      /\ (\A j \in 2..l : b[j] = a[j + d]) /\ DOMAIN a = 1..m /\ DOMAIN b = 1..l
    BY DEF TailOf
<1> HIDE DEF l, m
<1>2. /\ \A j \in 2..l : j + d \in 1..m /\ j \in 1..l
      /\ \A j \in 1..l : j = 1 \/ j \in 2..l
    BY <1>1
<1>3. ASSUME NEW i \in 2..l PROVE Rank(b, i) = Rank(a, i + d)
  <2> DEFINE S == From(b, i)
             T == From(a, i + d)
             f == [j \in S |-> j + d]
  <2>1. \A j \in S : j \in 2..l /\ i <= j /\ IsUserTurn(b[j])
    <3>1. \A j \in 1..l : i <= j => j \in 2..l
      BY <1>1
    <3> QED
      BY <1>1, <3>1 DEF From
  <2>2. \A j \in T : j \in 1..m /\ i + d <= j /\ IsUserTurn(a[j])
    BY <1>1 DEF From
  <2>3. \A j \in S : j + d \in T
    <3>1. ASSUME NEW j \in S PROVE j + d \in T
      <4>1. j \in 2..l /\ i <= j /\ IsUserTurn(b[j])
        BY <2>1
      <4>2. j + d \in 1..m /\ i + d <= j + d
        BY <1>1, <1>2, <4>1
      <4>3. IsUserTurn(a[j + d])
        BY <1>1, <4>1
      <4> QED
        BY <1>1, <4>2, <4>3 DEF From
    <3> QED
      BY <3>1
  <2>4. \A j \in T : \E k \in S : j = k + d
    <3>1. ASSUME NEW j \in T PROVE j - d \in S /\ j = (j - d) + d
      <4>1. j \in 1..m /\ i + d <= j /\ IsUserTurn(a[j])
        BY <2>2
      <4>2. j - d \in 2..l /\ j - d \in 1..l /\ i <= j - d /\ (j - d) + d = j
        BY <1>1, <4>1
      <4>3. b[j - d] = a[(j - d) + d]
        BY <1>1, <4>2
      <4> QED
        BY <1>1, <4>1, <4>2, <4>3 DEF From
    <3> QED
      BY <3>1
  <2>5. \A j, k \in S : j + d = k + d => j = k
    <3>1. \A j \in S : j \in Nat
      BY <1>1, <2>1
    <3> QED
      BY <1>1, <3>1
  <2> HIDE DEF S, T
  <2>6. f \in Bijection(S, T)
    BY <2>3, <2>4, <2>5 DEF Bijection, Injection, Surjection, IsInjective
  <2>7. ExistsBijection(S, T)
    BY <2>6 DEF ExistsBijection
  <2>8. IsFiniteSet(S)
    BY RankNat DEF S
  <2>9. Cardinality(T) = Cardinality(S)
    BY <2>7, <2>8, FS_Bijection
  <2> QED
    BY <2>9 DEF Rank, S, T
<1>4. ASSUME NEW i \in DOMAIN b, IsUserTurn(b[i]), Rank(b, i) <= Len(s)
      PROVE  s[Len(s) + 1 - Rank(b, i)] \in {NoId, b[i].of}
  <2>1. i \in 2..l
    BY <1>1, <1>2, <1>4
  <2>2. i + d \in DOMAIN a /\ b[i] = a[i + d] /\ Rank(b, i) = Rank(a, i + d)
    BY <1>1, <1>2, <1>3, <2>1
  <2> QED
    BY <1>4, <2>2 DEF Agree
<1>5. Plain(a) => Plain(b) \/ b[1].kind = "nudge"
    BY <1>1, <1>2 DEF Plain
<1> QED
    BY <1>4, <1>5 DEF Agree

\* A prefix has the user turns up to its end.
LEMMA UptoCount ==
    ASSUME NEW ms \in Seq(Messages), NEW n \in 0..Len(ms)
    PROVE  /\ UserTurnCount(SubSeq(ms, 1, n)) = Cardinality(Upto(ms, n))
           /\ IsFiniteSet(Upto(ms, n)) /\ Cardinality(Upto(ms, n)) \in Nat
<1> DEFINE p == SubSeq(ms, 1, n)
<1>1. DOMAIN p = 1..n /\ (\A i \in 1..n : p[i] = ms[i]) /\ DOMAIN ms = 1..Len(ms) /\ Len(ms) \in Nat
    BY PrefixSeq
<1>2. \A j \in 1..Len(ms) : j <= n <=> j \in 1..n
    BY <1>1
<1>3. \A j \in 1..n : j \in 1..Len(ms)
    BY <1>1
<1> HIDE DEF p
<1>4. {i \in DOMAIN p : IsUserTurn(p[i])} = Upto(ms, n)
    BY <1>1, <1>2, <1>3 DEF Upto
<1>5. Upto(ms, n) \subseteq DOMAIN ms
    BY DEF Upto
<1> QED
    BY <1>4, <1>5, TurnsFinite DEF UserTurnCount, p

\* Counted from the front and from the back.
LEMMA FrontAndBack ==
    ASSUME NEW ms \in Seq(Messages), NEW at \in DOMAIN ms, IsUserTurn(ms[at])
    PROVE  UserTurnCount(ms) + 1 = UserTurnCount(SubSeq(ms, 1, at)) + Rank(ms, at)
<1> DEFINE All == {i \in DOMAIN ms : IsUserTurn(ms[i])}
           U == Upto(ms, at)
           F == From(ms, at)
<1>1. DOMAIN ms = 1..Len(ms) /\ Len(ms) \in Nat /\ at \in 0..Len(ms)
    OBVIOUS
<1>2. \A j \in 1..Len(ms) : /\ j <= at \/ at <= j
                            /\ j <= at /\ at <= j => j = at
                            /\ j = at => j <= at /\ at <= j
    BY <1>1
<1>3. All = U \cup F /\ U \cap F = {at}
    BY <1>1, <1>2 DEF Upto, From
<1>4. IsFiniteSet(U) /\ Cardinality(U) \in Nat /\ UserTurnCount(SubSeq(ms, 1, at)) = Cardinality(U)
    BY <1>1, UptoCount
<1>5. IsFiniteSet(F) /\ Rank(ms, at) = Cardinality(F) /\ Cardinality(F) \in Nat
    BY RankNat DEF Rank
<1>6. UserTurnCount(ms) = Cardinality(All)
    BY DEF UserTurnCount
<1> HIDE DEF All, U, F
<1>7. Cardinality(U \cup F) = Cardinality(U) + Cardinality(F) - Cardinality(U \cap F)
    BY <1>4, <1>5, FS_Union
<1>8. Cardinality(U \cap F) = 1
    BY <1>3, FS_Singleton
<1> QED
    BY <1>3, <1>4, <1>5, <1>6, <1>7, <1>8

\* There is a user turn for every count.
LEMMA KthTurn ==
    ASSUME NEW ms \in Seq(Messages), NEW k \in 1..UserTurnCount(ms)
    PROVE  \E at \in DOMAIN ms : IsUserTurn(ms[at]) /\ UserTurnCount(SubSeq(ms, 1, at)) = k
<1> DEFINE l == Len(ms)
           Found(q, n) == \E at \in 1..n : IsUserTurn(ms[at]) /\ UserTurnCount(SubSeq(ms, 1, at)) = q
           C(n) == Cardinality(Upto(ms, n))
           S == {n \in Nat : n <= l => \A q \in 1..C(n) : Found(q, n)}
<1>1. l \in Nat /\ DOMAIN ms = 1..l
    OBVIOUS
<1>2. 0 \in S
  <2>1. Upto(ms, 0) = {}
    <3>1. \A j \in 1..l : ~(j <= 0)
      BY <1>1
    <3> QED
      BY <1>1, <3>1 DEF Upto
  <2>2. C(0) = 0
    BY <2>1, FS_EmptySet
  <2>3. 1..0 = {}
    OBVIOUS
  <2> HIDE DEF Found, C
  <2> QED
    BY <2>2, <2>3
<1>3. ASSUME NEW n \in S PROVE n + 1 \in S
  <2>0. n \in Nat /\ n + 1 \in Nat
    OBVIOUS
  <2>1. ASSUME n + 1 <= l, NEW q \in 1..C(n + 1) PROVE Found(q, n + 1)
    <3>1. n <= l /\ n \in 0..l /\ n + 1 \in 1..l /\ n + 1 \in 0..l
      BY <1>1, <2>0, <2>1
    <3>2. \A p \in 1..C(n) : Found(p, n)
      BY <1>3, <3>1
    <3>3. C(n) \in Nat /\ IsFiniteSet(Upto(ms, n)) /\ UserTurnCount(SubSeq(ms, 1, n + 1)) = C(n + 1)
      BY <3>1, UptoCount
    <3>4. \A j \in 1..l : (j <= n + 1 <=> j <= n \/ j = n + 1) /\ ~(n + 1 <= n)
      BY <1>1, <2>0
    <3>5. ASSUME NEW p, Found(p, n) PROVE Found(p, n + 1)
      <4>1. \A at \in 1..n : at \in 1..(n + 1)
        BY <2>0
      <4> QED
        BY <3>5, <4>1
    <3>6. CASE IsUserTurn(ms[n + 1])
      <4>1. Upto(ms, n + 1) = Upto(ms, n) \cup {n + 1} /\ n + 1 \notin Upto(ms, n)
        BY <1>1, <3>1, <3>4, <3>6 DEF Upto
      <4>2. C(n + 1) = C(n) + 1
        BY <3>3, <4>1, FS_AddElement
      <4>3. q \in 1..C(n) \/ q = C(n + 1)
        <5> HIDE DEF C
        <5> QED
          BY <3>3, <4>2
      <4>4. n + 1 \in 1..(n + 1)
        BY <2>0
      <4>5. Found(C(n + 1), n + 1)
        BY <3>3, <3>6, <4>4
      <4> HIDE DEF Found, C
      <4> QED
        BY <3>2, <3>5, <4>3, <4>5
    <3>7. CASE ~IsUserTurn(ms[n + 1])
      <4>1. Upto(ms, n + 1) = Upto(ms, n)
        BY <1>1, <3>1, <3>4, <3>7 DEF Upto
      <4> HIDE DEF Found
      <4> QED
        BY <2>1, <3>2, <3>5, <4>1
    <3> QED
      BY <3>6, <3>7
  <2> HIDE DEF Found, C
  <2> QED
    BY <2>0, <2>1
<1> HIDE DEF S
<1>4. \A n \in Nat : n \in S
  <2>1. S \subseteq Nat
    BY DEF S
  <2> QED
    BY <1>2, <1>3, <2>1, NatSets
<1>5. l \in S /\ l <= l /\ l \in 0..l
    BY <1>1, <1>4
<1>6. \A q \in 1..C(l) : Found(q, l)
    BY <1>5 DEF S
<1>7. C(l) = UserTurnCount(ms)
  <2>1. SubSeq(ms, 1, Len(ms)) = ms
    OBVIOUS
  <2> QED
    BY <1>5, <2>1, UptoCount
<1> QED
    BY <1>1, <1>6, <1>7

\* truncate_session cuts the ids where it cuts the history.
LEMMA AgreeCut ==
    ASSUME NEW s \in Seq(Ids), NEW h \in Seq(Messages), Agree(s, h), Len(s) = UserTurnCount(h),
           NEW at \in DOMAIN h, IsUserTurn(h[at]), NEW k, k = UserTurnCount(SubSeq(h, 1, at))
    PROVE  Agree(SubSeq(s, 1, k - 1), SubSeq(h, 1, at - 1))
<1> DEFINE n == at - 1
           p == SubSeq(h, 1, n)
           u == Len(s)
           R == Rank(h, at)
           m == k - 1
           t == SubSeq(s, 1, m)
<1>1. n \in 0..Len(h) /\ n \in Nat /\ n + 1 = at /\ at \in 1..Len(h) /\ Len(h) \in Nat /\ DOMAIN h = 1..Len(h)
    OBVIOUS
<1>2. DOMAIN p = 1..n /\ (\A i \in 1..n : p[i] = h[i]) /\ p \in Seq(Messages)
    BY <1>1, PrefixSeq
<1>3. u + 1 = k + R /\ u \in Nat /\ R \in Nat /\ R >= 1 /\ k \in Nat
    BY <1>1, FrontAndBack, RankNat, UptoCount
<1>4. k >= 1
  <2>1. at \in 0..Len(h) /\ at <= at
    BY <1>1
  <2>2. at \in Upto(h, at)
    BY <2>1 DEF Upto
  <2>3. Cardinality(Upto(h, at)) # 0 /\ Cardinality(Upto(h, at)) = k
    BY <2>1, <2>2, UptoCount, FS_EmptySet
  <2> QED
    BY <1>3, <2>3
<1> HIDE DEF R, u
<1>5. m \in 0..u /\ m \in Nat /\ m + 1 = k
    BY <1>3, <1>4
<1> HIDE DEF n, m
<1>6. Len(t) = m /\ \A i \in 1..m : t[i] = s[i]
    BY <1>5, PrefixSeq DEF u
<1> HIDE DEF t, p
<1>7. ASSUME NEW i \in 1..n PROVE Rank(h, i) = Rank(p, i) + R
  <2>1. \A j \in 1..Len(h) : (j \in 1..n \/ at <= j) /\ (at <= j => i <= j) /\ ~(j \in 1..n /\ at <= j)
    BY <1>1
  <2>2. \A j \in 1..n : j \in 1..Len(h)
    BY <1>1
  <2>3. From(h, i) = From(p, i) \cup From(h, at) /\ From(p, i) \cap From(h, at) = {}
    BY <1>1, <1>2, <2>1, <2>2 DEF From
  <2>4. IsFiniteSet(From(p, i)) /\ IsFiniteSet(From(h, at)) /\ Rank(p, i) \in Nat
    BY <1>2, RankNat
  <2>5. Cardinality(From(h, i)) = Cardinality(From(p, i)) + Cardinality(From(h, at)) - Cardinality({})
    BY <2>3, <2>4, FS_Union
  <2> QED
    BY <1>3, <2>4, <2>5, FS_EmptySet DEF Rank, R
<1>8. ASSUME NEW i \in DOMAIN p, IsUserTurn(p[i]), Rank(p, i) <= m
      PROVE  t[m + 1 - Rank(p, i)] \in {NoId, p[i].of}
  <2> DEFINE r == Rank(p, i)
  <2>1. i \in 1..n /\ p[i] = h[i] /\ i \in DOMAIN h /\ IsUserTurn(h[i])
    <3>1. \A j \in 1..n : j \in 1..Len(h)
      BY <1>1
    <3> QED
      BY <1>1, <1>2, <1>8, <3>1
  <2>2. r \in Nat /\ r >= 1 /\ Rank(h, i) = r + R
    BY <1>2, <1>7, <1>8, <2>1, RankNat
  <2> HIDE DEF r
  <2>3. r + R <= u /\ m + 1 - r \in 1..m /\ u + 1 - (r + R) = m + 1 - r
    BY <1>3, <1>5, <1>8, <2>2 DEF r
  <2>4. s[u + 1 - (r + R)] \in {NoId, h[i].of}
    BY <2>1, <2>2, <2>3 DEF Agree, u
  <2> QED
    BY <1>6, <2>1, <2>3, <2>4 DEF r
<1> QED
    BY <1>6, <1>8 DEF Agree, t, p, m, n

\* Ids that agree, one for each user turn, name the turns.
LEMMA AgreeNames ==
    ASSUME NEW s \in Seq(Ids), NEW h \in Seq(Messages), Agree(s, h), Plain(h),
           Len(s) = UserTurnCount(h), NEW k \in DOMAIN s, s[k] # NoId
    PROVE  \E at \in DOMAIN h : h[at] = User(s[k]) /\ UserTurnCount(SubSeq(h, 1, at)) = k
<1> DEFINE u == Len(s)
<1>1. u \in Nat /\ k \in 1..u /\ k \in 1..UserTurnCount(h)
    OBVIOUS
<1>2. PICK at \in DOMAIN h : IsUserTurn(h[at]) /\ UserTurnCount(SubSeq(h, 1, at)) = k
    BY <1>1, KthTurn
<1> DEFINE R == Rank(h, at)
<1>3. u + 1 = k + R /\ R \in Nat /\ R >= 1
    BY <1>2, FrontAndBack, RankNat
<1> HIDE DEF u, R
<1>4. R <= u /\ u + 1 - R = k
    BY <1>1, <1>3
<1>5. s[k] \in {NoId, h[at].of}
    BY <1>2, <1>4 DEF Agree, u, R
<1>6. h[at] \in Messages /\ h[at].kind = "user"
    BY <1>2 DEF Plain, IsUserTurn
<1>7. h[at] \in UserMessages
    BY <1>6, MessageKinds
<1>8. h[at] = User(h[at].of)
    BY <1>7 DEF UserMessages, User
<1> QED
    BY <1>2, <1>5, <1>8

-----------------------------------------------------------------------------
(* What a turn does to the ids.                                             *)

\* A message that is no nudge is pushed.
LEMMA PlainAppend ==
    ASSUME NEW ms \in Seq(Messages), NEW x \in Messages, x.kind # "nudge", Plain(ms)
    PROVE  Plain(Append(ms, x))
BY DEF Plain

\* The user turns of a run are those of its base and its own.
LEMMA RunTurns ==
    ASSUME NEW base \in Seq(Messages), NEW u \in Messages, NEW ms \in Seq(Messages),
           Extends(base, ms, u), Plain(ms)
    PROVE  SameTurns(Append(base, u), ms) /\ OneTurn(SubSeq(ms, Len(base) + 1, Len(ms)), u)
<1> DEFINE l == Len(base)
           n == Len(ms)
           a == Append(base, u)
<1>1. /\ l \in Nat /\ n \in Nat /\ l < n /\ DOMAIN base = 1..l /\ DOMAIN ms = 1..n
      /\ DOMAIN a = 1..(l + 1) /\ a[l + 1] = u /\ (\A i \in 1..l : a[i] = base[i])
      /\ ms[l + 1] = u /\ (\A i \in 1..l : ms[i] = base[i])
      /\ \A i \in 1..n : i > l + 1 => ms[i].kind # "user"
    BY Appended DEF Extends
<1>2. \A i \in 1..n : i > l + 1 => ~IsUserTurn(ms[i])
    BY <1>1 DEF Plain, IsUserTurn
<1>3. SameTurns(a, ms)
  <2>1. \A i \in 1..(l + 1) : i \in 1..n /\ ms[i] = a[i]
    BY <1>1
  <2>2. \A i \in 1..n : IsUserTurn(ms[i]) => i \in 1..(l + 1)
    BY <1>1, <1>2
  <2> HIDE DEF a
  <2> QED
    BY <1>1, <2>1, <2>2 DEF SameTurns
<1> DEFINE t == SubSeq(ms, l + 1, n)
<1>4. /\ DOMAIN t = 1..(n - l) /\ \A i \in 1..(n - l) : t[i] = ms[l + i] /\ l + i \in 1..n
  <2>1. l + 1 \in 1..(n + 1) /\ n - (l + 1) + 1 = n - l
    BY <1>1
  <2>2. \A i : (l + 1) + i - 1 = l + i \/ i \notin 1..(n - l)
    BY <1>1
  <2>3. /\ DOMAIN t = 1..(n - l) /\ \A i \in 1..(n - l) : t[i] = ms[(l + 1) + i - 1] /\ (l + 1) + i - 1 \in 1..n
    BY <2>1, SuffixSeq
  <2> QED
    BY <2>2, <2>3
<1> HIDE DEF t
<1>5. 1 \in 1..(n - l) /\ \A i \in 1..(n - l) : i > 1 => l + i > l + 1
    BY <1>1
<1>6. OneTurn(t, u)
  <2>1. t # << >> /\ t[1] = u
    BY <1>1, <1>4, <1>5
  <2>2. \A i \in DOMAIN t : i > 1 => ~IsUserTurn(t[i])
    BY <1>2, <1>4, <1>5
  <2> QED
    BY <2>1, <2>2 DEF OneTurn
<1> QED
    BY <1>3, <1>6 DEF t

\* What a checkpoint of ms stores.
LEMMA StoredNames ==
    ASSUME NEW base \in Seq(Messages), NEW u \in Messages, NEW ms \in Seq(Messages), ms # << >>,
           SameTurns(Append(base, u), ms), Plain(ms), NEW st, NEW fi, NEW g, Open(ms, st, fi, g),
           NEW s \in Seq(Ids), Agree(s, Append(base, u))
    PROVE  /\ Plain(Materialize(ms)) /\ Agree(Align(s, UserTurnCount(Materialize(ms))), Materialize(ms))
<1>1. SameTurns(ms, Materialize(ms)) /\ Materialize(ms) \in Seq(Messages)
    BY Materialized, MatTyped
<1>2. Append(base, u) \in Seq(Messages)
    BY Appended
<1>3. Agree(s, ms)
    BY <1>2, AgreeSame
<1>4. Agree(s, Materialize(ms))
    BY <1>1, <1>3, AgreeSame
<1>5. UserTurnCount(Materialize(ms)) \in Nat
    BY <1>1, CountNat
<1> QED
    BY <1>1, <1>4, <1>5, AgreeAlign, PlainSame

\* A step inside a turn that leaves history, ids and prompt alone.
LEMMA TurnNames ==
    ASSUME Names, InTurn, InTurn', history' = history, ids' = ids, drops' = drops, torn' = torn,
           journal'.mode = journal.mode, journal'.from = journal.from,
           turn'.user = turn.user, turn'.mode = turn.mode, turn'.ids = turn.ids,
           Running' => Plain(turn'.msgs), OneTurn(journal'.suffix, turn.user),
           Plain(disk'.msgs), Agree(disk'.ids, disk'.msgs)
    PROVE  Names'
<1>1. BaseHist' = BaseHist
    BY DEF BaseHist
<1> QED
    BY <1>1 DEF Names

\* A step inside a run that pushes no nudge: the checkpoint stores the ids of its turn.
LEMMA RunNames ==
    ASSUME TypeInv, Inside, Names, InTurn, TypeInv', Inside', pc' \in {"request", "settle", "tools"},
           history' = history, ids' = ids, drops' = drops, torn' = torn,
           journal'.mode = journal.mode, journal'.from = journal.from,
           turn'.user = turn.user, turn'.mode = turn.mode, turn'.ids = turn.ids,
           turn'.msgs \in Seq(Messages), turn'.results \in SUBSET (CallIds \X Says), Plain(turn'.msgs),
           disk' = disk \/ disk'.ids = Align(turn.ids, UserTurnCount(disk'.msgs))
    PROVE  Names'
<1>1. BaseHist' = BaseHist /\ BaseHist \in Seq(Messages) /\ turn.user \in Messages /\ turn.ids \in Seq(Ids)
      /\ Agree(turn.ids, Append(BaseHist, turn.user))
    BY BaseSound, Typed DEF BaseHist, Names
<1>2. turn'.base = BaseHist /\ Extends(BaseHist, turn'.msgs, turn.user)
    BY <1>1 DEF Inside, BaseInv, Running
<1> DEFINE W == Written'
<1>3. /\ Open(W, started', finished', gens')
      /\ journal'.suffix = SubSeq(W, Len(BaseHist) + 1, Len(W)) /\ disk'.msgs = Materialize(W)
    BY <1>2 DEF Inside, WrittenInv
<1>4. W \in Seq(Messages) /\ Extends(BaseHist, W, turn.user) /\ Plain(W)
  <2>1. CASE W = turn'.msgs
    BY <1>2, <2>1
  <2>2. CASE W = Append(turn'.msgs, Results(turn'.results))
    <3>1. Results(turn'.results) \in Messages /\ Results(turn'.results).kind = "results"
      BY MessageMade
    <3>2. Append(turn'.msgs, Results(turn'.results)) \in Seq(Messages)
          /\ Extends(BaseHist, Append(turn'.msgs, Results(turn'.results)), turn.user)
          /\ Plain(Append(turn'.msgs, Results(turn'.results)))
      BY <1>1, <1>2, <3>1, Appended, ExtendsAppend, PlainAppend
    <3> QED
      BY <2>2, <3>2
  <2> QED
    BY <2>1, <2>2 DEF Written, Batch
<1> HIDE DEF W
<1>5. /\ SameTurns(Append(BaseHist, turn.user), W) /\ OneTurn(journal'.suffix, turn.user) /\ W # << >>
    BY <1>1, <1>3, <1>4, RunTurns, ExtendsNonempty
<1>6. Plain(disk'.msgs) /\ Agree(disk'.ids, disk'.msgs)
  <2>1. CASE disk' = disk
    BY <2>1 DEF Names
  <2>2. CASE disk'.ids = Align(turn.ids, UserTurnCount(disk'.msgs))
    BY <1>1, <1>3, <1>4, <1>5, <2>2, StoredNames
  <2> QED
    BY <2>1, <2>2
<1>7. InTurn'
    BY DEF InTurn
<1> QED
    BY <1>5, <1>6, <1>7, TurnNames

\* A run has pushed no nudge.
LEMMA InRun ==
    ASSUME pc \in {"request", "settle", "tools", "staged"}, Names
    PROVE  InTurn /\ Plain(turn.msgs)
BY DEF Names, InTurn, Running

\* attempt_with_history pushes the prompt.
LEMMA AttemptNames ==
    ASSUME TypeInv, Inside, Names, TypeInv', Inside', Attempt
    PROVE  Names'
<1> DEFINE base == IF turn.mode = "append" THEN history ELSE turn.base
<1>1. /\ pc = "attempt" /\ pc' = "request" /\ base \in Seq(Messages)
      /\ turn' \in Turns /\ turn'.msgs = Append(base, turn.user) /\ Append(base, turn.user) \in Seq(Messages)
      /\ turn'.user = turn.user /\ turn'.mode = turn.mode /\ turn'.ids = turn.ids
      /\ journal'.mode = journal.mode /\ journal'.from = journal.from
      /\ disk'.ids = Align(turn.ids, UserTurnCount(disk'.msgs))
      /\ history' = history /\ ids' = ids /\ drops' = drops /\ torn' = torn
    BY AttemptEffect
<1>2. InTurn
    BY <1>1 DEF InTurn
<1>3. turn.user \in Messages /\ turn.user.kind = "user" /\ history \in Seq(Messages)
      /\ turn.mode \in {"append", "replace"} /\ journal.mode = turn.mode
    BY <1>2, Typed DEF Names, TypeInv, ModeInv
<1>4. base = BaseHist
    BY <1>1, <1>3 DEF Inside, BaseInv, BaseHist
<1>5. Plain(base)
    <2>1. CASE turn.mode = "append"
        BY <2>1 DEF Names
    <2>2. CASE turn.mode = "replace"
        <3>1. SameTurns(history, Append(BaseHist, turn.user)) /\ Plain(history)
            BY <1>2, <2>2 DEF Names
        <3>2. Plain(Append(BaseHist, turn.user))
            BY <3>1, PlainSame
        <3> HIDE DEF base
        <3>3. DOMAIN base = 1..Len(base) /\ DOMAIN Append(base, turn.user) = 1..(Len(base) + 1) /\ Len(base) \in Nat
              /\ \A i \in 1..Len(base) : Append(base, turn.user)[i] = base[i] /\ i \in 1..(Len(base) + 1)
            BY <1>1, <1>3, Appended
        <3> QED
            BY <1>4, <3>2, <3>3 DEF Plain
    <2> QED
        BY <1>3, <2>1, <2>2
<1> HIDE DEF base
<1>6. Plain(turn'.msgs) /\ turn'.msgs \in Seq(Messages) /\ turn'.results \in SUBSET (CallIds \X Says)
    BY <1>1, <1>3, <1>5, PlainAppend, TurnFields
<1> QED
    BY <1>1, <1>2, <1>6, RunNames

\* The loop goes on.
LEMMA AgainNames ==
    ASSUME TypeInv, Inside, Names, TypeInv', Inside', pc \in {"settle", "tools"},
           NEW ms \in Seq(Messages), NEW t, SameTurn(t), Again(ms, t), Plain(ms)
    PROVE  Names'
<1>1. t \in Turns /\ t.user = turn.user /\ t.mode = turn.mode /\ t.ids = turn.ids
    BY DEF SameTurn
<1>2. /\ pc' = "request" /\ turn' \in Turns /\ turn'.msgs = ms /\ turn'.user = turn.user
      /\ turn'.mode = turn.mode /\ turn'.ids = turn.ids
      /\ journal'.mode = journal.mode /\ journal'.from = journal.from
      /\ disk'.ids = Align(turn.ids, UserTurnCount(disk'.msgs))
      /\ history' = history /\ ids' = ids /\ drops' = drops /\ torn' = torn
    BY <1>1, AgainEffect
<1>3. InTurn /\ turn'.results \in SUBSET (CallIds \X Says)
    BY <1>2, TurnFields DEF InTurn
<1> QED
    BY <1>2, <1>3, RunNames

\* Closing the calls of the last message adds no user turn.
LEMMA PlainClosed ==
    ASSUME TypeInv, Inside, Names, pc = "settle"
    PROVE  Plain(CloseOrphans(turn.msgs))
<1>1. /\ turn.msgs \in Seq(Messages) /\ turn.msgs # << >> /\ Half(turn.msgs)
      /\ Plain(turn.msgs) /\ Missing(turn.msgs) = Calls
      /\ \A c \in Calls : c \notin AnsweredIn(turn.msgs)
    BY RunFacts, InRun DEF Inside, PhaseInv
<1>2. CASE Calls = {}
    BY <1>1, <1>2, PairedIsHalf, CloseNone
<1>3. CASE Calls # {}
  <2>1. CloseOrphans(turn.msgs) = Append(turn.msgs, Results(Calls \X {"interrupted"}))
    BY <1>1, <1>3, CloseLast DEF Calls
  <2>2. Calls \subseteq CallIds
    BY <1>1, RunFacts, MessageKinds DEF Calls
  <2>3. Calls \X {"interrupted"} \in SUBSET (CallIds \X Says)
    BY <2>2 DEF Says
  <2>4. Results(Calls \X {"interrupted"}) \in Messages /\ Results(Calls \X {"interrupted"}).kind = "results"
    BY <2>3, MessageMade
  <2> QED
    BY <1>1, <2>1, <2>4, PlainAppend
<1> QED
    BY <1>2, <1>3

\* Auto-continue: without a nudge when it closed calls.
LEMMA AutoNames ==
    ASSUME TypeInv, Inside, Names, TypeInv', Inside', AutoContinueArm, ~shifted'
    PROVE  Names'
<1> DEFINE closed == CloseOrphans(turn.msgs)
           n == turn.auto + 1
           t == [turn EXCEPT !.auto = n]
<1>0. turn \in Turns /\ turn.auto \in Nat /\ turn.msgs \in Seq(Messages)
    BY Typed, TurnFields
<1>1. pc = "settle" /\ HasOrphans(turn.msgs)
    BY DEF AutoContinueArm
<1>2. Again(closed, t)
    BY <1>1 DEF AutoContinueArm
<1>3. SameTurn(t)
  <2>1. n \in Nat
    BY <1>0
  <2> HIDE DEF n
  <2> QED
    BY <1>0, <2>1, CounterTyped
<1> HIDE DEF t
<1>4. closed \in Seq(Messages) /\ Plain(closed)
    BY <1>0, <1>1, CloseTyped, PlainClosed
<1> QED
    BY <1>1, <1>2, <1>3, <1>4, AgainNames

\* Failover.
LEMMA FailoverNames ==
    ASSUME TypeInv, Inside, Names, TypeInv', Inside', FailoverArm
    PROVE  Names'
<1> DEFINE n == turn.failed + 1
           t == [turn EXCEPT !.failed = n]
<1>0. turn \in Turns /\ turn.failed \in Nat /\ turn.msgs \in Seq(Messages)
    BY Typed, TurnFields
<1>1. pc = "settle" /\ Again(turn.msgs, t)
    BY DEF FailoverArm
<1>2. SameTurn(t)
  <2>1. n \in Nat
    BY <1>0
  <2> HIDE DEF n
  <2> QED
    BY <1>0, <2>1, CounterTyped
<1> HIDE DEF t
<1> QED
    BY <1>0, <1>1, <1>2, InRun, AgainNames

\* Error resume: without a nudge when the messages end on the user's side.
LEMMA ResumeNames ==
    ASSUME TypeInv, Inside, Names, TypeInv', Inside', ResumeArm, ~shifted'
    PROVE  Names'
<1> DEFINE kept == SubSeq(turn.msgs, 1, Len(turn.msgs) - 1)
           nudge == ~HasOrphans(kept) /\ Last(kept).kind = "assistant"
           n == turn.resumes + 1
           t == [turn EXCEPT !.resumes = n]
<1>0. turn \in Turns /\ turn.resumes \in Nat /\ turn.msgs \in Seq(Messages)
    BY Typed, TurnFields
<1>1. pc = "settle" /\ turn.stop = "transient"
    BY DEF ResumeArm
<1>2. /\ IsHusk(turn.msgs[Len(turn.msgs)])
      /\ kept \in Seq(Messages) /\ kept # << >> /\ Sound(kept, started, finished, gens)
      /\ Plain(turn.msgs) /\ turn.msgs # << >>
    BY <1>1, TransientFacts, InRun, RunFacts
<1>3. (IF IsHusk(Last(turn.msgs)) THEN Front(turn.msgs) ELSE turn.msgs) = kept
    BY <1>2 DEF Last, Front
<1>4. ~nudge /\ Again(CloseOrphans(kept), t)
    BY <1>0, <1>3 DEF ResumeArm
<1>5. SameTurn(t)
  <2>1. n \in Nat
    BY <1>0
  <2> HIDE DEF n
  <2> QED
    BY <1>0, <2>1, CounterTyped
<1>6. Plain(kept)
  <2> DEFINE l == Len(turn.msgs) - 1
  <2>1. l \in 0..Len(turn.msgs) /\ kept = SubSeq(turn.msgs, 1, l)
    BY <1>0, <1>2
  <2> HIDE DEF l, kept
  <2> QED
    BY <1>0, <1>2, <2>1, PrefixSeq DEF Plain
<1> HIDE DEF t, kept
<1>7. CloseOrphans(kept) = kept
    BY <1>2, CloseNone DEF Sound
<1> QED
    BY <1>1, <1>2, <1>4, <1>5, <1>6, <1>7, AgainNames

\* The steps that change no message.
LEMMA GenerationNames ==
    ASSUME TypeInv, Inside, Names, TypeInv', Inside', RetryGeneration \/ ToolUseArm \/ ToolStart
    PROVE  Names'
<1>1. /\ pc \in {"request", "settle", "tools"} /\ pc' \in {"request", "settle", "tools"}
      /\ turn' \in Turns /\ turn'.user = turn.user /\ turn'.mode = turn.mode /\ turn'.ids = turn.ids
      /\ turn'.msgs = turn.msgs /\ history' = history /\ journal' = journal
      /\ ids' = ids /\ disk' = disk /\ drops' = drops /\ torn' = torn
    BY GenerationEffect, ToolUseEffect, StartEffect
<1>2. InTurn /\ Plain(turn'.msgs)
    BY <1>1, InRun
<1>3. turn'.msgs \in Seq(Messages) /\ turn'.results \in SUBSET (CallIds \X Says)
    BY <1>1, TurnFields
<1> QED
    BY <1>1, <1>2, <1>3, RunNames

\* A response adds an assistant message.
LEMMA ReplyNames ==
    ASSUME TypeInv, Inside, Names, TypeInv', Inside',
           RespondText \/ RespondTools \/ RespondMalformed \/ RespondError
    PROVE  Names'
<1> DEFINE Stops == {"end", "max_tokens", "tool_use", "fatal", "overflow", "transient"}
<1>1. PICK stop \in Stops, ms \in Seq(Messages) : Respond(stop, ms) /\ Replied(stop, ms)
    BY ReplyEffect
<1>2. /\ pc = "request" /\ pc' = "settle" /\ turn' \in Turns /\ turn'.msgs = ms
      /\ turn'.user = turn.user /\ turn'.mode = turn.mode /\ turn'.ids = turn.ids
      /\ journal'.mode = journal.mode /\ journal'.from = journal.from
      /\ ms = turn.msgs => disk' = disk
      /\ ms # turn.msgs => disk'.ids = Align(turn.ids, UserTurnCount(disk'.msgs))
      /\ history' = history /\ ids' = ids /\ drops' = drops /\ torn' = torn
    BY <1>1, RespondEffect
<1>3. InTurn /\ Plain(turn.msgs) /\ turn.msgs \in Seq(Messages)
    BY <1>2, InRun, Typed
<1>4. Plain(ms)
  <2>1. CASE ms = turn.msgs
    BY <1>3, <2>1
  <2>2. ASSUME NEW calls \in SUBSET CallIds, NEW text \in BOOLEAN, ms = Append(turn.msgs, Assistant(calls, text))
        PROVE  Plain(ms)
    <3>1. Assistant(calls, text) \in Messages /\ Assistant(calls, text).kind = "assistant"
      BY MessageMade
    <3> QED
      BY <1>3, <2>2, <3>1, PlainAppend
  <2> QED
    BY <1>1, <2>1, <2>2 DEF Replied
<1>5. turn'.msgs \in Seq(Messages) /\ turn'.results \in SUBSET (CallIds \X Says) /\ Plain(turn'.msgs)
    BY <1>2, <1>4, TurnFields
<1>6. disk' = disk \/ disk'.ids = Align(turn.ids, UserTurnCount(disk'.msgs))
    BY <1>2
<1> QED
    BY <1>2, <1>3, <1>5, <1>6, RunNames

\* A result is journalled.
LEMMA RecordNames ==
    ASSUME TypeInv, Inside, Names, TypeInv', Inside', ToolBlocked \/ ToolDone
    PROVE  Names'
<1>0. PICK c \in turn.left, outcome \in Says : \E terminate : RecordResult(c, outcome, terminate)
    BY DEF ToolBlocked, ToolDone, Says
<1>1. PICK terminate : RecordResult(c, outcome, terminate)
    BY <1>0
<1>2. pc = "tools" /\ pc' = "tools" /\ history' = history /\ ids' = ids /\ drops' = drops /\ torn' = torn
    BY DEF ToolBlocked, ToolDone, bounds, ghosts
<1>3. /\ turn' \in Turns /\ turn'.user = turn.user /\ turn'.mode = turn.mode /\ turn'.ids = turn.ids
      /\ turn'.msgs = turn.msgs /\ journal'.mode = journal.mode /\ journal'.from = journal.from
      /\ disk'.ids = Align(turn.ids, UserTurnCount(disk'.msgs))
    BY <1>1, RecordEffect
<1>4. InTurn /\ Plain(turn'.msgs)
    BY <1>2, <1>3, InRun
<1>5. turn'.msgs \in Seq(Messages) /\ turn'.results \in SUBSET (CallIds \X Says)
    BY <1>3, TurnFields
<1> QED
    BY <1>2, <1>3, <1>4, <1>5, RunNames

\* The run returns.
LEMMA ReturnNames ==
    ASSUME TypeInv, Inside, Names, pc \in {"settle", "tools"}, NEW ms \in Seq(Messages), Return(ms), Plain(ms)
    PROVE  Names'
<1>1. /\ turn' \in Turns /\ turn'.msgs = ms /\ turn'.user = turn.user
      /\ turn'.mode = turn.mode /\ turn'.ids = turn.ids
      /\ \/ pc' = "compact" /\ journal'.suffix = <<turn.user>>
         \/ pc' = "staged" /\ journal' = journal
      /\ journal'.mode = journal.mode /\ journal'.from = journal.from
      /\ history' = history /\ ids' = ids /\ disk' = disk /\ drops' = drops /\ torn' = torn
    BY ReturnEffect
<1>2. InTurn /\ InTurn'
    BY <1>1 DEF InTurn
<1>3. OneTurn(journal'.suffix, turn.user)
    BY <1>1, <1>2 DEF OneTurn, Names
<1>4. Plain(disk'.msgs) /\ Agree(disk'.ids, disk'.msgs)
    BY <1>1 DEF Names
<1> QED
    BY <1>1, <1>2, <1>3, <1>4, TurnNames

\* The run ends.
LEMMA TerminalNames ==
    ASSUME TypeInv, Inside, Names, TerminalArm
    PROVE  Names'
<1>1. pc = "settle" /\ Return(CloseOrphans(turn.msgs)) /\ turn.msgs \in Seq(Messages)
    BY Typed DEF TerminalArm
<1> QED
    BY <1>1, CloseTyped, PlainClosed, ReturnNames

\* The batch is complete.
LEMMA BatchNames ==
    ASSUME TypeInv, Inside, Names, TypeInv', Inside', BatchDone
    PROVE  Names'
<1> DEFINE ms == Append(turn.msgs, Results(turn.results))
<1>1. pc = "tools" /\ (Again(ms, turn) \/ Return(ms))
    BY DEF BatchDone
<1>2. turn \in Turns /\ turn.msgs \in Seq(Messages) /\ turn.results \in SUBSET (CallIds \X Says) /\ Plain(turn.msgs)
    BY <1>1, Typed, TurnFields, InRun
<1>3. Results(turn.results) \in Messages /\ Results(turn.results).kind = "results"
    BY <1>2, MessageMade
<1>4. ms \in Seq(Messages) /\ Plain(ms)
    BY <1>2, <1>3, Appended, PlainAppend
<1>5. SameTurn(turn)
    BY <1>2 DEF SameTurn
<1> HIDE DEF ms
<1>6. CASE Again(ms, turn)
    BY <1>1, <1>4, <1>5, <1>6, AgainNames
<1>7. CASE Return(ms)
    BY <1>1, <1>4, <1>7, ReturnNames
<1> QED
    BY <1>1, <1>6, <1>7

\* Nothing to cut: the journal gets the run back, or the attempt begins.
LEMMA NothingNames ==
    ASSUME TypeInv, Inside, Names, NothingToCut
    PROVE  Names'
<1>1. /\ pc = "compact"
      /\ \/ ~turn.reacted /\ pc' = "attempt" /\ journal' = journal
         \/ /\ turn.reacted /\ pc' = "staged"
            /\ journal'.suffix = SubSeq(turn.msgs, Len(turn.base) + 1, Len(turn.msgs))
      /\ journal'.mode = journal.mode /\ journal'.from = journal.from
      /\ history' = history /\ ids' = ids /\ disk' = disk
      /\ turn' = turn /\ drops' = drops /\ torn' = torn
    BY NothingEffect
<1>2. InTurn /\ InTurn'
    BY <1>1 DEF InTurn
<1>3. turn.reacted => Plain(turn.msgs)
    BY <1>1 DEF Running, Names
<1>4. OneTurn(journal'.suffix, turn.user)
  <2>1. CASE journal' = journal
    BY <1>2, <2>1 DEF Names
  <2>2. CASE turn.reacted /\ journal'.suffix = SubSeq(turn.msgs, Len(turn.base) + 1, Len(turn.msgs))
    <3>1. Extends(turn.base, turn.msgs, turn.user)
      BY <1>1, <2>2 DEF Inside, BaseInv, Running
    <3>2. turn.base \in Seq(Messages) /\ turn.msgs \in Seq(Messages) /\ turn.user \in Messages
      BY Typed
    <3> QED
      BY <1>3, <2>2, <3>1, <3>2, RunTurns
  <2> QED
    BY <1>1, <2>1, <2>2
<1>5. Running' => Plain(turn'.msgs)
    BY <1>1, <1>3 DEF Running
<1>6. Plain(disk'.msgs) /\ Agree(disk'.ids, disk'.msgs)
    BY <1>1 DEF Names
<1> QED
    BY <1>1, <1>2, <1>4, <1>5, <1>6, TurnNames

\* A paired history needs no repair.
LEMMA RepairNames ==
    ASSUME TypeInv, Inside, Names, Repair
    PROVE  Names'
<1>1. /\ pc = "start" /\ pc' \in {"attempt", "compact"}
      /\ history' = CloseOrphans(history)
      /\ journal' = journal /\ ids' = ids /\ disk' = disk /\ turn' = turn /\ drops' = drops /\ torn' = torn
    BY RepairEffect
<1>2. InTurn /\ InTurn' /\ ~turn.reacted
    BY <1>1 DEF InTurn, TypeInv, ModeInv
<1>3. history \in Seq(Messages) /\ Paired(history)
    BY Typed DEF Inside, StoreInv, Sound
<1>4. history' = history
    BY <1>1, <1>3, CloseNone
<1>5. ~Running'
    BY <1>1, <1>2 DEF Running
<1>6. Plain(disk'.msgs) /\ Agree(disk'.ids, disk'.msgs) /\ OneTurn(journal'.suffix, turn.user)
    BY <1>1, <1>2 DEF Names
<1> QED
    BY <1>1, <1>2, <1>4, <1>5, <1>6, TurnNames

\* A message in front of others.
LEMMA ConsAt ==
    ASSUME NEW x \in Messages, NEW t \in Seq(Messages)
    PROVE  /\ <<x>> \o t \in Seq(Messages) /\ Len(<<x>> \o t) = 1 + Len(t) /\ (<<x>> \o t)[1] = x
           /\ \A i \in 1..Len(t) : (<<x>> \o t)[1 + i] = t[i]
<1>1. <<x>> \in Seq(Messages) /\ Len(<<x>>) = 1 /\ <<x>>[1] = x
    OBVIOUS
<1>2. ASSUME NEW o \in Seq(Messages), Len(o) = 1, o[1] = x
      PROVE  /\ o \o t \in Seq(Messages) /\ Len(o \o t) = 1 + Len(t) /\ (o \o t)[1] = x
             /\ \A i \in 1..Len(t) : (o \o t)[1 + i] = t[i]
  <2>1. o \o t \in Seq(Messages) /\ Len(o \o t) = 1 + Len(t) /\ (o \o t)[1] = x
    BY <1>2, Concat
  <2>2. ASSUME NEW i \in 1..Len(t) PROVE (o \o t)[1 + i] = t[i]
    <3>1. (o \o t)[Len(o) + i] = t[i]
      BY Concat
    <3> QED
      BY <1>2, <3>1
  <2> QED
    BY <2>1, <2>2
<1> QED
    BY <1>1, <1>2

\* The turns before the cut go; the others stand as far from the end as before, with a
\* prompt pushed after them too.
LEMMA CutShifts ==
    ASSUME NEW h \in Seq(Messages), NEW cut \in 2..Len(h), NEW x \in Messages
    PROVE  /\ TailOf(h, <<Summary>> \o SubSeq(h, cut, Len(h)), cut - 2)
           /\ TailOf(Append(h, x), Append(<<Summary>> \o SubSeq(h, cut, Len(h)), x), cut - 2)
           /\ (<<Summary>> \o SubSeq(h, cut, Len(h)))[1] = Summary
           /\ Append(<<Summary>> \o SubSeq(h, cut, Len(h)), x)[1] = Summary
<1> DEFINE n == Len(h)
           t == SubSeq(h, cut, n)
           d == cut - 2
           b == <<Summary>> \o t
<1>0. n \in Nat /\ cut \in 1..(n + 1) /\ cut \in Nat /\ cut >= 2 /\ d \in Nat /\ cut <= n
    OBVIOUS
<1>1. t \in Seq(Messages) /\ Len(t) = n - cut + 1 /\ \A i \in 1..(n - cut + 1) : t[i] = h[cut + i - 1]
    BY <1>0, SuffixSeq
<1> HIDE DEF t
<1>3. /\ b \in Seq(Messages) /\ Len(b) = 1 + Len(t) /\ b[1] = Summary
      /\ \A i \in 1..Len(t) : b[1 + i] = t[i]
  <2>1. t \in Seq(Messages) /\ Summary \in Messages
    BY <1>1, MessageMade
  <2> QED
    BY <2>1, ConsAt
<1> HIDE DEF b
<1>4. b[1] = Summary /\ ~IsUserTurn(Summary)
    BY <1>3 DEF IsUserTurn, Summary
<1>5. Len(b) + d = n /\ Len(b) >= 1 /\ Len(b) \in Nat
    BY <1>0, <1>1, <1>3
<1>6. \A j \in 2..Len(b) : b[j] = h[j + d] /\ j + d \in 1..n
  <2> TAKE j \in 2..Len(b)
  <2> DEFINE i == j - 1
  <2>1. i \in 1..Len(t) /\ j = 1 + i /\ i \in 1..(n - cut + 1) /\ cut + i - 1 = j + d /\ j + d \in 1..n
    BY <1>0, <1>1, <1>3
  <2> HIDE DEF i
  <2>2. b[1 + i] = t[i] /\ t[i] = h[cut + i - 1]
    BY <1>1, <1>3, <2>1
  <2> HIDE DEF d
  <2>3. b[j] = t[i] /\ h[cut + i - 1] = h[j + d]
    BY <2>1, <2>2
  <2> QED
    BY <2>1, <2>2, <2>3
<1>7. TailOf(h, b, d)
    BY <1>0, <1>4, <1>5, <1>6 DEF TailOf
<1> HIDE DEF d
<1> DEFINE a == Append(h, x)
           c == Append(b, x)
<1>8. /\ Len(a) = n + 1 /\ a[n + 1] = x /\ \A i \in 1..n : a[i] = h[i]
    BY Appended
<1>9. /\ Len(c) = Len(b) + 1 /\ c[Len(b) + 1] = x /\ \A i \in 1..Len(b) : c[i] = b[i]
    BY <1>3, Appended
<1> HIDE DEF a, c
<1>10. c[1] = Summary
    BY <1>4, <1>5, <1>9
<1>11. \A j \in 2..Len(c) : c[j] = a[j + d]
  <2> TAKE j \in 2..Len(c)
  <2>1. CASE j \in 2..Len(b)
    <3>1. j \in 1..Len(b)
      BY <2>1
    <3> QED
      BY <1>6, <1>8, <1>9, <2>1, <3>1
  <2>2. CASE j = Len(b) + 1
    <3>1. j + d = n + 1
      BY <1>0, <1>5, <2>2
    <3> QED
      BY <1>8, <1>9, <2>2, <3>1
  <2> QED
    BY <1>5, <1>9, <2>1, <2>2
<1>12. Len(c) + d = Len(a) /\ Len(c) >= 1
    BY <1>0, <1>5, <1>8, <1>9
<1>13. TailOf(a, c, d)
    BY <1>0, <1>4, <1>7, <1>10, <1>11, <1>12 DEF TailOf
<1> QED
    BY <1>4, <1>7, <1>10, <1>13 DEF a, b, c, d, t, n

\* A compaction.
LEMMA SummarizeNames ==
    ASSUME TypeInv, Inside, Names, Summarize
    PROVE  Names'
<1>1. /\ pc = "compact" /\ turn' \in Turns /\ turn'.user = turn.user /\ turn'.mode = turn.mode /\ turn'.ids = turn.ids
      /\ turn'.msgs = turn.msgs /\ turn'.reacted = turn.reacted
      /\ \/ pc' = "compact" /\ history' = history
         \/ /\ pc' = "attempt"
            /\ \E cut \in 2..Len(history) : history' = <<Summary>> \o SubSeq(history, cut, Len(history))
      /\ history' \in Seq(Messages)
      /\ journal' = journal /\ ids' = ids /\ disk' = disk /\ drops' = drops /\ torn' = torn
    BY SummarizeEffect
<1>2. InTurn /\ InTurn' /\ turn.mode = "append" /\ journal.mode = "append"
    BY <1>1 DEF InTurn, TypeInv, ModeInv
<1>3. Plain(disk'.msgs) /\ Agree(disk'.ids, disk'.msgs) /\ OneTurn(journal'.suffix, turn.user)
    BY <1>1, <1>2 DEF Names
<1>4. CASE pc' = "compact" /\ history' = history
  <2>1. Running' => Plain(turn'.msgs)
    BY <1>1, <1>4 DEF Running, Names
  <2> QED
    BY <1>1, <1>2, <1>3, <1>4, <2>1, TurnNames
<1>5. CASE pc' = "attempt"
  <2>1. PICK cut \in 2..Len(history) : history' = <<Summary>> \o SubSeq(history, cut, Len(history))
    BY <1>1, <1>5
  <2>2. /\ history \in Seq(Messages) /\ ids \in Seq(Ids) /\ turn.user \in Messages /\ turn.ids \in Seq(Ids)
        /\ Append(history, turn.user) \in Seq(Messages) /\ Append(history', turn.user) \in Seq(Messages)
    BY <1>1, Typed, Appended
  <2>3. /\ TailOf(history, history', cut - 2) /\ history'[1] = Summary
        /\ TailOf(Append(history, turn.user), Append(history', turn.user), cut - 2)
    BY <2>1, <2>2, CutShifts
  <2>4. /\ BaseHist = history /\ BaseHist' = history'
    BY <1>1, <1>2 DEF BaseHist
  <2>5. Agree(ids, history) /\ Plain(history) /\ Agree(turn.ids, Append(history, turn.user))
        /\ turn.user.kind = "user" /\ ~torn /\ drops = 0
    BY <1>2, <2>4 DEF Names
  <2>6. Agree(ids, history') /\ Plain(history')
    <3>1. history'[1].kind # "nudge"
      BY <2>3 DEF Summary
    <3> QED
      BY <1>1, <2>2, <2>3, <2>5, <3>1, AgreeShift
  <2>7. Agree(turn.ids, Append(history', turn.user))
    BY <2>2, <2>3, <2>5, AgreeShift
  <2>8. ~Running'
    BY <1>5 DEF Running
  <2> QED
    BY <1>1, <1>2, <1>3, <2>4, <2>5, <2>6, <2>7, <2>8 DEF Names
<1> QED
    BY <1>1, <1>4, <1>5

-----------------------------------------------------------------------------
(* How turns begin and end.                                                 *)

\* A sequence has its own turns.
LEMMA SameSelf == ASSUME NEW ms PROVE SameTurns(ms, ms)
BY DEF SameTurns

\* Between turns no journal is left when no turn was dropped.
LEMMA NoJournalIdle ==
    ASSUME TypeInv, Inside, Names, pc \in {"idle", "saving"}
    PROVE  journal = NoJournal /\ Finalized = history /\ journal.mode = "none"
<1>1. journal = NoJournal
    BY DEF Inside, KeptInv, Names, InTurn
<1> QED
    BY <1>1, NoJournalTyped DEF Finalized

\* A turn begins: its id is pushed onto the aligned ones.
LEMMA PromptNames ==
    ASSUME TypeInv, Inside, Names, Prompt
    PROVE  Names'
<1> DEFINE p == prompts + 1
           u == User(p)
           ms == Append(history, u)
<1>1. /\ pc = "idle" /\ pc' = "start" /\ p \in 1..MaxPrompts
      /\ ids' = Align(ids, UserTurnCount(history))
      /\ disk'.msgs = Materialize(ms) /\ disk'.ids = Align(Append(ids', p), UserTurnCount(disk'.msgs))
      /\ history' = Finalized
      /\ journal'.mode = "append" /\ journal'.suffix = <<u>>
      /\ turn'.mode = "append" /\ turn'.user = u /\ turn'.ids = Append(ids', p)
      /\ drops' = drops /\ torn' = torn
    BY PromptEffect
<1>2. history' = history
    BY <1>1, NoJournalIdle
<1>3. history \in Seq(Messages) /\ ids \in Seq(Ids) /\ Sound(history, started, finished, gens)
      /\ Plain(history) /\ Agree(ids, history) /\ ~torn /\ drops = 0
    BY Typed DEF Inside, StoreInv, Names
<1> HIDE DEF p
<1>4. u \in UserMessages /\ u.of = p /\ u.kind = "user" /\ u \in Messages /\ Makes(u) = {}
    BY <1>1, MessageMade DEF User, Makes
<1> HIDE DEF u
<1>5. UserTurnCount(history) \in Nat
    BY <1>3, CountNat
<1>6. ids' \in Seq(Ids) /\ Agree(ids', history)
    BY <1>1, <1>3, <1>5, AgreeAlign
<1>7. /\ Agree(Append(ids', p), ms) /\ Append(ids', p) \in Seq(Ids) /\ ms \in Seq(Messages) /\ Plain(ms)
    BY <1>3, <1>4, <1>6, AgreePush
<1>8. Sound(ms, started, finished, gens) /\ ms # << >>
    BY <1>3, <1>4, AppendSound
<1>9. Open(ms, started, finished, gens) /\ SameTurns(ms, ms)
    BY <1>7, <1>8, SoundOpen, SameSelf
<1>10. Plain(disk'.msgs) /\ Agree(disk'.ids, disk'.msgs)
    BY <1>1, <1>3, <1>4, <1>7, <1>8, <1>9, StoredNames
<1>11. BaseHist' = history
    BY <1>1, <1>2 DEF BaseHist
<1>12. OneTurn(journal'.suffix, turn'.user)
    BY <1>1 DEF OneTurn
<1>13. ~Running'
    BY <1>1 DEF Running
<1> QED
    BY <1>1, <1>2, <1>3, <1>4, <1>6, <1>7, <1>10, <1>11, <1>12, <1>13 DEF Names

\* Nothing after the last user turn is one.
LEMMA LastTurnSame ==
    ASSUME NEW h \in Seq(Messages), NEW at \in 1..Len(h), \A j \in 1..Len(h) : j > at => ~IsUserTurn(h[j])
    PROVE  SameTurns(h, Append(SubSeq(h, 1, at - 1), h[at])) /\ Append(SubSeq(h, 1, at - 1), h[at]) \in Seq(Messages)
<1> DEFINE n == at - 1
           b == SubSeq(h, 1, n)
           a == Append(b, h[at])
<1>1. n \in 0..Len(h) /\ n + 1 = at /\ DOMAIN h = 1..Len(h) /\ Len(h) \in Nat /\ h[at] \in Messages
    OBVIOUS
<1> HIDE DEF n
<1>2. b \in Seq(Messages) /\ Len(b) = n /\ \A i \in 1..n : b[i] = h[i]
    BY <1>1, PrefixSeq
<1> HIDE DEF b
<1>3. /\ a \in Seq(Messages) /\ DOMAIN a = 1..(n + 1) /\ a[n + 1] = h[at] /\ \A i \in 1..n : a[i] = b[i]
    BY <1>1, <1>2, Appended
<1> HIDE DEF a
<1>4. \A i \in 1..Len(h) : i > at \/ i \in 1..at
    BY <1>1
<1>5. \A i \in 1..at : a[i] = h[i] /\ i \in 1..Len(h)
    BY <1>1, <1>2, <1>3
<1>6. DOMAIN a = 1..at
    BY <1>1, <1>3
<1>7. SameTurns(h, a)
    BY <1>1, <1>4, <1>5, <1>6 DEF SameTurns
<1> QED
    BY <1>3, <1>7 DEF a, b, n

\* A retry takes the last user turn out and puts it back.
LEMMA RetryNames ==
    ASSUME TypeInv, Inside, Names, Retry
    PROVE  Names'
<1> DEFINE at == LastUserTurn(history)
<1>1. /\ pc = "idle" /\ pc' = "attempt"
      /\ at \in 1..Len(history) /\ IsUserTurn(history[at]) /\ history[at] \in Messages
      /\ \A j \in 1..Len(history) : j > at => ~IsUserTurn(history[j])
      /\ history' = Finalized
      /\ journal'.mode = "replace" /\ journal'.suffix = <<history[at]>> /\ journal'.from = at - 1
      /\ turn'.mode = "replace" /\ turn'.user = history[at] /\ turn'.ids = Align(ids, UserTurnCount(history))
      /\ torn' = (torn \/ (journal.mode = "replace" /\ journal.from < at - 1))
      /\ ids' = ids /\ disk' = disk /\ drops' = drops
    BY RetryEffect
<1> HIDE DEF at
<1>2. history' = history /\ journal.mode = "none"
    BY <1>1, NoJournalIdle
<1>3. history \in Seq(Messages) /\ ids \in Seq(Ids)
      /\ Plain(history) /\ Agree(ids, history) /\ ~torn /\ drops = 0
      /\ Plain(disk.msgs) /\ Agree(disk.ids, disk.msgs)
    BY Typed DEF Names
<1>4. BaseHist' = SubSeq(history, 1, at - 1)
  <2>1. at - 1 < Len(history)
    BY <1>1, <1>3
  <2> QED
    BY <1>1, <1>2, <2>1 DEF BaseHist, Truncated
<1> DEFINE a == Append(SubSeq(history, 1, at - 1), history[at])
<1>5. SameTurns(history, a) /\ a \in Seq(Messages)
    BY <1>1, <1>3, LastTurnSame
<1> HIDE DEF a
<1>6. Agree(turn'.ids, a)
  <2>1. UserTurnCount(history) \in Nat
    BY <1>3, CountNat
  <2>2. Agree(Align(ids, UserTurnCount(history)), history)
    BY <1>3, <2>1, AgreeAlign
  <2> QED
    BY <1>1, <1>3, <1>5, <2>2, AgreeSame
<1>7. turn'.user.kind = "user"
    BY <1>1, <1>3 DEF Plain, IsUserTurn
<1>8. Append(BaseHist', turn'.user) = a
    BY <1>1, <1>4 DEF a
<1>9. OneTurn(journal'.suffix, turn'.user)
    BY <1>1 DEF OneTurn
<1>10. ~Running' /\ ~torn'
    BY <1>1, <1>2, <1>3 DEF Running
<1> QED
    BY <1>1, <1>2, <1>3, <1>5, <1>6, <1>7, <1>8, <1>9, <1>10 DEF Names

\* insert_assistant_turn_prefix inserts after the last user turn and moves none.
LEMMA PrefixTurns ==
    ASSUME NEW ms \in Seq(Messages)
    PROVE  SameTurns(ms, WithPrefix(ms))
<1> DEFINE l == LastUserTurn(ms)
           A == Assistant({}, TRUE)
           n == Len(ms)
<1>1. A \in Messages /\ ~IsUserTurn(A)
    BY MessageMade DEF IsUserTurn, Assistant
<1>2. l \in 0..Len(ms) /\ n \in Nat /\ DOMAIN ms = 1..n /\ \A j \in 1..n : j > l => ~IsUserTurn(ms[j])
    BY LastTurn
<1>3. CASE Prefix /\ l > 0
  <2> DEFINE a == SubSeq(ms, 1, l)
             b == SubSeq(ms, l + 1, n)
             c == Append(a, A)
             w == c \o b
  <2>0. l \in 1..n /\ (l + 1) - 1 = l
    BY <1>2, <1>3
  <2>1. WithPrefix(ms) = a \o <<A>> \o b
    BY <1>3, <2>0 DEF WithPrefix, InsertAt
  <2> HIDE DEF l, A
  <2>2. a \in Seq(Messages) /\ Len(a) = l /\ \A i \in 1..l : a[i] = ms[i]
    BY <1>2, PrefixSeq
  <2>3. b \in Seq(Messages) /\ \A i \in 1..Len(b) : b[i] = ms[l + i] /\ l + i \in 1..n
    <3> DEFINE k == l + 1
    <3>1. k \in 1..(Len(ms) + 1) /\ n - k + 1 \in Nat
      BY <1>2
    <3> HIDE DEF k
    <3>2. /\ SubSeq(ms, k, Len(ms)) \in Seq(Messages) /\ Len(SubSeq(ms, k, Len(ms))) = n - k + 1
          /\ \A i \in 1..(n - k + 1) : SubSeq(ms, k, Len(ms))[i] = ms[k + i - 1] /\ k + i - 1 \in 1..Len(ms)
      BY <3>1, SuffixSeq
    <3>3. b = SubSeq(ms, k, Len(ms))
      BY DEF k
    <3> HIDE DEF b
    <3>4. \A i \in 1..Len(b) : k + i - 1 = l + i
      BY <1>2, <3>3 DEF k
    <3>5. \A i \in 1..Len(b) : b[i] = ms[k + i - 1] /\ k + i - 1 \in 1..n
      BY <3>2, <3>3
    <3>6. \A i \in 1..Len(b) : b[i] = ms[l + i] /\ l + i \in 1..n
      BY <3>4, <3>5
    <3> QED
      BY <3>2, <3>3, <3>6
  <2> HIDE DEF a, b
  <2>4. a \o <<A>> = c
    BY <1>1, <2>2
  <2>5. /\ c \in Seq(Messages) /\ Len(c) = l + 1 /\ c[l + 1] = A /\ \A i \in 1..l : c[i] = a[i]
    BY <1>1, <2>2, Appended
  <2> HIDE DEF c
  <2>50. c \in Seq(Messages) /\ b \in Seq(Messages)
    BY <2>3, <2>5
  <2>51. /\ DOMAIN w = 1..(Len(c) + Len(b)) /\ Len(b) \in Nat
    BY <2>50, Concat
  <2>52. \A i \in 1..Len(c) : w[i] = c[i]
    BY <2>50, Concat
  <2>6. \A i \in DOMAIN w : \/ i \in 1..Len(c) /\ w[i] = c[i]
                            \/ \E k \in 1..Len(b) : i = Len(c) + k /\ w[i] = b[k]
    <3> TAKE i \in DOMAIN w
    <3>2. i \in 1..(Len(c) + Len(b))
      BY <2>51
    <3> QED
      BY <2>50, <3>2, ConcatAt
  <2>7. \A i \in 1..l : i \in DOMAIN w /\ w[i] = ms[i]
    <3>2. \A i \in 1..l : i \in 1..(l + 1)
      BY <2>0
    <3>3. \A i \in 1..(l + 1) : i \in 1..(Len(c) + Len(b))
      BY <1>2, <2>5, <2>51
    <3> HIDE DEF w
    <3> QED
      BY <2>2, <2>5, <2>51, <2>52, <3>2, <3>3
  <2> HIDE DEF w
  <2>8. \A i \in DOMAIN w : IsUserTurn(w[i]) => i \in 1..l
    <3> TAKE i \in DOMAIN w
    <3> HAVE IsUserTurn(w[i])
    <3>1. CASE i \in 1..Len(c) /\ w[i] = c[i]
      <4>1. i # l + 1
        BY <1>1, <2>5, <3>1
      <4>2. i \in 1..(l + 1)
        BY <2>5, <3>1
      <4> QED
        BY <2>0, <4>1, <4>2
    <3>2. ASSUME NEW k \in 1..Len(b), i = Len(c) + k, w[i] = b[k] PROVE FALSE
      <4>1. b[k] = ms[l + k] /\ l + k \in 1..n
        BY <2>3
      <4>2. l + k > l
        BY <1>2, <2>3
      <4> QED
        BY <1>2, <3>2, <4>1, <4>2
    <3> QED
      BY <2>6, <3>1, <3>2
  <2>9. \A i \in DOMAIN ms : IsUserTurn(ms[i]) => i \in 1..l
    BY <1>2
  <2>10. \A i \in 1..l : i \in DOMAIN ms
    BY <1>2
  <2>11. SameTurns(ms, w)
    BY <2>7, <2>8, <2>9, <2>10 DEF SameTurns
  <2> QED
    BY <2>1, <2>4, <2>11 DEF w
<1>4. CASE ~(Prefix /\ l > 0)
    BY <1>4, SameSelf DEF WithPrefix
<1> QED
    BY <1>3, <1>4

\* A suffix with one user turn, appended.
LEMMA ConcatTurns ==
    ASSUME NEW base \in Seq(Messages), NEW u \in Messages, IsUserTurn(u), NEW x \in Seq(Messages),
           NEW s \in Seq(Messages), OneTurn(x, u), SameTurns(x, s)
    PROVE  SameTurns(Append(base, u), base \o s)
<1> DEFINE l == Len(base)
           n == Len(s)
           a == Append(base, u)
           w == base \o s
<1>1. 1 \in DOMAIN x /\ x[1] = u
    BY DEF OneTurn
<1>2. 1 \in DOMAIN s /\ s[1] = u /\ DOMAIN s = 1..n /\ n \in Nat /\ l \in Nat
    BY <1>1 DEF SameTurns
<1>3. \A i \in 1..n : i > 1 => ~IsUserTurn(s[i])
    BY <1>2 DEF SameTurns, OneTurn
<1>4. /\ DOMAIN a = 1..(l + 1) /\ a[l + 1] = u /\ \A i \in 1..l : a[i] = base[i]
    BY Appended
<1>5. DOMAIN w = 1..(l + n)
    BY Concat
<1>6. \A i \in 1..l : w[i] = base[i]
    BY Concat
<1>7. \A i \in DOMAIN w : \/ i \in 1..l /\ w[i] = base[i]
                          \/ \E k \in 1..n : i = l + k /\ w[i] = s[k]
  <2> TAKE i \in DOMAIN w
  <2>1. i \in 1..(Len(base) + Len(s))
    BY <1>5
  <2> QED
    BY <2>1, ConcatAt
<1>8. w[l + 1] = u
  <2>1. 1 \in 1..Len(s)
    BY <1>2
  <2>2. w[Len(base) + 1] = s[1]
    BY <2>1, Concat
  <2> QED
    BY <1>2, <2>2
<1> HIDE DEF a, w, l, n
<1>9. \A i \in 1..(l + 1) : (i = l + 1 \/ i \in 1..l) /\ i \in 1..(l + n)
    BY <1>2
<1>10. \A i \in 1..(l + 1) : i \in DOMAIN w /\ w[i] = a[i]
    BY <1>4, <1>5, <1>6, <1>8, <1>9
<1>11. \A i \in DOMAIN w : IsUserTurn(w[i]) => i \in 1..(l + 1)
  <2> TAKE i \in DOMAIN w
  <2> HAVE IsUserTurn(w[i])
  <2>1. CASE i \in 1..l
    BY <1>2, <2>1
  <2>2. ASSUME NEW k \in 1..n, i = l + k, w[i] = s[k] PROVE i \in 1..(l + 1)
    <3>1. k = 1 \/ k > 1
      BY <1>2
    <3>2. k = 1
      BY <1>3, <2>2, <3>1
    <3> QED
      BY <1>2, <2>2, <3>2
  <2> QED
    BY <1>7, <2>1, <2>2
<1>12. SameTurns(a, w)
    BY <1>4, <1>10, <1>11 DEF SameTurns
<1> QED
    BY <1>12 DEF a, w

\* The turn ends with h.
LEMMA EpilogueNames ==
    ASSUME TypeInv, Inside, Names, InTurn, NEW h \in Seq(Messages), Epilogue(h),
           SameTurns(Append(BaseHist, turn.user), h), disk' = disk, drops' = drops, torn' = torn
    PROVE  Names'
<1> DEFINE u == turn.user
           a == Append(BaseHist, u)
<1>1. /\ pc' = "saving"
      /\ turn.mode = "append" => /\ history' = WithPrefix(h)
                                 /\ ids' = Align(Append(ids, u.of), UserTurnCount(h))
      /\ turn.mode # "append" => history' = h /\ ids' = ids
    BY EpilogueEffect
<1>2. /\ turn.mode \in {"append", "replace"} /\ journal.mode = turn.mode /\ u \in Messages
      /\ history \in Seq(Messages) /\ ids \in Seq(Ids) /\ BaseHist \in Seq(Messages)
      /\ Plain(history) /\ Agree(ids, history) /\ ~torn /\ drops = 0
      /\ Plain(disk.msgs) /\ Agree(disk.ids, disk.msgs)
      /\ turn.mode = "append" => u \in UserMessages
      /\ turn.mode = "replace" => SameTurns(history, a)
    BY Typed, BaseSound DEF TypeInv, ModeInv, Names
<1> HIDE DEF u
<1>3. a \in Seq(Messages)
    BY <1>2, Appended
<1>4. SameTurns(a, h)
    BY DEF u
<1> HIDE DEF a
<1>5. Plain(history') /\ Agree(ids', history')
  <2>1. CASE turn.mode = "append"
    <3>1. BaseHist = history
      BY <1>2, <2>1 DEF BaseHist
    <3>2. u \in UserMessages
      BY <1>2, <2>1
    <3>3. /\ Agree(Append(ids, u.of), Append(history, u)) /\ Append(ids, u.of) \in Seq(Ids)
          /\ Plain(Append(history, u))
      BY <1>2, <3>2, AgreePush
    <3>4. Append(history, u) = a
      BY <3>1 DEF a
    <3>5. Agree(Append(ids, u.of), h) /\ Plain(h)
      BY <1>3, <1>4, <3>3, <3>4, AgreeSame, PlainSame
    <3>6. SameTurns(h, WithPrefix(h)) /\ WithPrefix(h) \in Seq(Messages) /\ UserTurnCount(h) \in Nat
      BY PrefixTurns, PrefixTyped, CountNat
    <3>7. Agree(Append(ids, u.of), WithPrefix(h)) /\ Plain(WithPrefix(h))
      BY <3>5, <3>6, AgreeSame, PlainSame
    <3> QED
      BY <1>1, <2>1, <3>3, <3>6, <3>7, AgreeAlign
  <2>2. CASE turn.mode = "replace"
    <3>1. Agree(ids, a) /\ Plain(a)
      BY <1>2, <1>3, <2>2, AgreeSame, PlainSame
    <3>2. Agree(ids, h) /\ Plain(h)
      BY <1>3, <1>4, <3>1, AgreeSame, PlainSame
    <3> QED
      BY <1>1, <2>2, <3>2
  <2> QED
    BY <1>2, <2>1, <2>2
<1>6. ~InTurn' /\ ~Running'
    BY <1>1 DEF InTurn, Running
<1> QED
    BY <1>2, <1>5, <1>6 DEF Names

\* The staged result.
LEMMA CommitNames ==
    ASSUME TypeInv, Inside, Names, Commit
    PROVE  Names'
<1>1. pc = "staged" /\ Epilogue(turn.msgs) /\ disk' = disk /\ drops' = drops /\ torn' = torn
    BY DEF Commit, bounds, ghosts
<1>2. InTurn /\ Plain(turn.msgs) /\ turn.msgs \in Seq(Messages) /\ BaseHist \in Seq(Messages) /\ turn.user \in Messages
    BY <1>1, InRun, Typed, BaseSound
<1>3. Extends(BaseHist, turn.msgs, turn.user)
    BY <1>1 DEF Inside, BaseInv, Running
<1>4. SameTurns(Append(BaseHist, turn.user), turn.msgs)
    BY <1>2, <1>3, RunTurns
<1> QED
    BY <1>1, <1>2, <1>4, EpilogueNames

\* The promoted journal.
LEMMA CancelNames ==
    ASSUME TypeInv, Inside, Names, Cancel
    PROVE  Names'
<1>1. InTurn /\ Epilogue(Promoted(history)) /\ disk' = disk /\ drops' = drops /\ torn' = torn
    BY DEF Cancel, bounds, ghosts, InTurn
<1>2. journal # NoJournal /\ turn.user \in Messages /\ IsUserTurn(turn.user) /\ OneTurn(journal.suffix, turn.user)
      /\ BaseHist \in Seq(Messages) /\ journal.suffix \in Seq(Messages)
    BY <1>1, Typed, BaseSound DEF TypeInv, TypeOK, ModeInv, InTurn, Names
<1>3. /\ Promoted(history) = BaseHist \o Materialize(journal.suffix) /\ Promoted(history) \in Seq(Messages)
      /\ Materialize(journal.suffix) \in Seq(Messages) /\ SameTurns(journal.suffix, Materialize(journal.suffix))
    BY <1>2, PromotedSound
<1>4. SameTurns(Append(BaseHist, turn.user), BaseHist \o Materialize(journal.suffix))
    BY <1>2, <1>3, ConcatTurns
<1>5. SameTurns(Append(BaseHist, turn.user), Promoted(history))
    BY <1>3, <1>4
<1> QED
    BY <1>1, <1>3, <1>5, EpilogueNames

\* What is left to show between turns.
LEMMA IdleNames ==
    ASSUME pc' \in {"idle", "saving"}, ~torn', drops' = 0, Plain(history'), Plain(disk'.msgs),
           Agree(ids', history'), Agree(disk'.ids, disk'.msgs)
    PROVE  Names'
BY DEF Names, InTurn, Running

\* persist_current stores both.
LEMMA PersistNames ==
    ASSUME TypeInv, Inside, Names, Persist
    PROVE  Names'
<1>1. /\ pc' = "idle" /\ history' = history /\ ids' = ids /\ disk'.msgs = history /\ disk'.ids = ids
      /\ drops' = drops /\ torn' = torn
    BY DEF Persist, bounds, ghosts
<1> QED
    BY <1>1, IdleNames DEF Names

\* truncate_session.
LEMMA TruncateNames ==
    ASSUME TypeInv, Inside, Names, Truncate
    PROVE  Names'
<1> DEFINE c == UserTurnCount(history)
           s == Align(ids, c)
<1>1. pc' = "saving" /\ disk' = disk /\ drops' = drops /\ torn' = torn
    BY TruncateEffect
<1>2. PICK k \in 1..c, at \in DOMAIN history :
          /\ IsUserTurn(history[at]) /\ UserTurnCount(SubSeq(history, 1, at)) = k
          /\ history' = SubSeq(history, 1, at - 1) /\ ids' = SubSeq(s, 1, k - 1)
    BY TruncateEffect
<1>3. /\ history \in Seq(Messages) /\ ids \in Seq(Ids) /\ Plain(history) /\ Agree(ids, history)
      /\ ~torn /\ drops = 0 /\ Plain(disk.msgs) /\ Agree(disk.ids, disk.msgs)
    BY Typed DEF Names
<1>4. c \in Nat
    BY <1>3, CountNat
<1>5. Agree(s, history) /\ s \in Seq(Ids) /\ Len(s) = c
    BY <1>3, <1>4, AgreeAlign
<1> HIDE DEF s
<1>6. Agree(ids', history')
    BY <1>2, <1>3, <1>5, AgreeCut
<1>7. Plain(history')
  <2> DEFINE n == at - 1
  <2>1. n \in 0..Len(history) /\ history' = SubSeq(history, 1, n)
    BY <1>2, <1>3
  <2> HIDE DEF n
  <2> QED
    BY <1>3, <2>1, PrefixSeq DEF Plain
<1> QED
    BY <1>1, <1>3, <1>6, <1>7, IdleNames

\* clear_history.
LEMMA ClearNames ==
    ASSUME TypeInv, Names, Clear
    PROVE  Names'
<1>1. pc' = "saving" /\ history' = << >> /\ ids' = << >> /\ disk' = disk /\ drops' = drops /\ torn' = torn
    BY ClearEffect
<1>2. Plain(<< >>) /\ Agree(<< >>, << >>)
    BY DEF Plain, Agree
<1> QED
    BY <1>1, <1>2, IdleNames DEF Names

\* A crash: the stored ids are aligned with the stored record.
LEMMA RestartNames ==
    ASSUME TypeInv, Inside, Names, Restart
    PROVE  Names'
<1>1. /\ pc' = "idle" /\ history' = CloseOrphans(disk.msgs) /\ ids' = Align(disk.ids, UserTurnCount(disk.msgs))
      /\ disk' = disk /\ drops' = drops /\ torn' = torn
    BY RestartEffect
<1>2. /\ disk.msgs \in Seq(Messages) /\ disk.ids \in Seq(Ids) /\ Paired(disk.msgs)
      /\ ~torn /\ drops = 0 /\ Plain(disk.msgs) /\ Agree(disk.ids, disk.msgs)
    BY Typed DEF Inside, StoreInv, Sound, Names
<1>3. history' = disk.msgs
    BY <1>1, <1>2, CloseNone
<1>4. UserTurnCount(disk.msgs) \in Nat
    BY <1>2, CountNat
<1>5. Agree(ids', disk.msgs)
    BY <1>1, <1>2, <1>4, AgreeAlign
<1> QED
    BY <1>1, <1>2, <1>3, <1>5, IdleNames

\* The empty session.
LEMMA InitNames == Init => NamesInv
BY DEF Init, NamesInv, Names, Plain, Agree, InTurn, Running

\* A nudge or a drop is not forgotten.
LEMMA NotShifted == ASSUME Next, ~shifted' PROVE ~shifted
<1>1. CASE Prompt \/ Repair \/ Retry \/ Attempt \/ NothingToCut \/ Summarize \/ RetryGeneration
    BY <1>1 DEF Prompt, Repair, Retry, Attempt, NothingToCut, Summarize, RetryGeneration, ghosts
<1>2. CASE RespondText \/ RespondTools \/ RespondMalformed \/ RespondError
    BY <1>2 DEF RespondText, RespondTools, RespondMalformed, RespondError, Respond
<1>3. CASE AutoContinueArm \/ FailoverArm \/ ResumeArm \/ TerminalArm \/ BatchDone
    BY <1>3 DEF AutoContinueArm, FailoverArm, ResumeArm, TerminalArm, BatchDone, Return, ghosts
<1>4. CASE ToolUseArm \/ ToolBlocked \/ ToolStart \/ ToolDone
    BY <1>4 DEF ToolUseArm, ToolBlocked, ToolStart, ToolDone, ghosts
<1>5. CASE Commit \/ Cancel \/ Persist \/ Drop \/ Truncate \/ Clear \/ Restart
    BY <1>5 DEF Commit, Cancel, Persist, Drop, Truncate, Clear, Restart, ghosts
<1> QED
    BY <1>1, <1>2, <1>3, <1>4, <1>5 DEF Next

\* A retry tears the history only over the journal of a dropped turn.
LEMMA NotTorn == ASSUME TypeInv, Inside, Names, Next PROVE ~torn'
<1>0. ~torn
    BY DEF Names
<1>1. CASE Prompt \/ Repair \/ Attempt \/ NothingToCut \/ Summarize \/ RetryGeneration
    BY <1>0, <1>1 DEF Prompt, Repair, Attempt, NothingToCut, Summarize, RetryGeneration, ghosts
<1>2. CASE RespondText \/ RespondTools \/ RespondMalformed \/ RespondError
    BY <1>0, <1>2 DEF RespondText, RespondTools, RespondMalformed, RespondError, Respond
<1>3. CASE AutoContinueArm \/ FailoverArm \/ ResumeArm \/ TerminalArm \/ BatchDone
    BY <1>0, <1>3 DEF AutoContinueArm, FailoverArm, ResumeArm, TerminalArm, BatchDone, Again, Return, ghosts
<1>4. CASE ToolUseArm \/ ToolBlocked \/ ToolStart \/ ToolDone
    BY <1>0, <1>4 DEF ToolUseArm, ToolBlocked, ToolStart, ToolDone, ghosts
<1>5. CASE Commit \/ Cancel \/ Persist \/ Drop \/ Truncate \/ Clear \/ Restart
    BY <1>0, <1>5 DEF Commit, Cancel, Persist, Drop, Truncate, Clear, Restart, ghosts
<1>6. CASE Retry
    BY <1>6, RetryNames DEF Names
<1> QED
    BY <1>1, <1>2, <1>3, <1>4, <1>5, <1>6 DEF Next

\* Every action.
LEMMA StepNames ==
    ASSUME TypeInv, Inside, Names, TypeInv', Inside', Next, ~shifted'
    PROVE  Names'
<1>1. CASE Prompt \/ Repair \/ Retry \/ Attempt \/ NothingToCut \/ Summarize \/ RetryGeneration
    BY <1>1, PromptNames, RepairNames, RetryNames, AttemptNames, NothingNames, SummarizeNames, GenerationNames
<1>2. CASE RespondText \/ RespondTools \/ RespondMalformed \/ RespondError
    BY <1>2, ReplyNames
<1>3. CASE AutoContinueArm \/ FailoverArm \/ ResumeArm \/ TerminalArm
    BY <1>3, AutoNames, FailoverNames, ResumeNames, TerminalNames
<1>4. CASE ToolUseArm \/ ToolBlocked \/ ToolStart \/ ToolDone \/ BatchDone
    BY <1>4, GenerationNames, RecordNames, BatchNames
<1>5. CASE Commit \/ Cancel \/ Persist \/ Truncate \/ Clear \/ Restart
    BY <1>5, CommitNames, CancelNames, PersistNames, TruncateNames, ClearNames, RestartNames
<1>6. ~Drop
    BY DEF Drop
<1> QED
    BY <1>1, <1>2, <1>3, <1>4, <1>5, <1>6 DEF Next

\* An unchanged state.
LEMMA StutterNames == ASSUME Names, UNCHANGED vars PROVE Names'
<1>1. /\ history' = history /\ ids' = ids /\ disk' = disk /\ turn' = turn /\ journal' = journal /\ pc' = pc
      /\ drops' = drops /\ torn' = torn
    BY DEF vars, bounds, ghosts
<1> QED
    BY <1>1 DEF Names, InTurn, Running, BaseHist

\* The inductive step.
LEMMA NamesStep == TypeInv /\ TypeInv' /\ ContentInv /\ NamesInv /\ [Next]_vars => NamesInv'
<1> SUFFICES ASSUME TypeInv, TypeInv', ContentInv, NamesInv, [Next]_vars, ~shifted' PROVE Names'
    BY DEF NamesInv
<1>1. CASE Next
  <2>1. Names
    BY <1>1, NotShifted DEF NamesInv
  <2>2. Inside
    BY <2>1 DEF ContentInv, Names
  <2>3. ~torn'
    BY <1>1, <2>1, <2>2, NotTorn
  <2>4. Inside'
    BY <1>1, <2>2, <2>3, StepInside
  <2> QED
    BY <1>1, <2>1, <2>2, <2>4, StepNames
<1>2. CASE UNCHANGED vars
  <2>1. ~shifted
    BY <1>2 DEF vars, ghosts
  <2>2. Names
    BY <2>1 DEF NamesInv
  <2> QED
    BY <1>2, <2>2, StutterNames
<1> QED
    BY <1>1, <1>2

\* Each client id stands at the position of its own prompt among the user turns, as long
\* as no nudge was pushed and no turn dropped: whatever was compacted, retried, cancelled,
\* truncated, cleared or recovered after a crash (align_client_user_message_ids,
\* truncate_session).
THEOREM IdsCorrect == Spec => []IdNamesItsTurnUnshifted
<1>1. TypeInv /\ NamesInv => IdNamesItsTurnUnshifted
  <2> SUFFICES ASSUME TypeInv, Names PROVE IdNamesItsTurn
    BY DEF NamesInv, IdNamesItsTurnUnshifted
  <2> DEFINE known == Align(ids, UserTurnCount(history))
  <2>1. history \in Seq(Messages) /\ ids \in Seq(Ids) /\ Plain(history) /\ Agree(ids, history)
    BY Typed DEF Names
  <2>2. UserTurnCount(history) \in Nat
    BY <2>1, CountNat
  <2>3. known \in Seq(Ids) /\ Len(known) = UserTurnCount(history) /\ Agree(known, history)
    BY <2>1, <2>2, AgreeAlign
  <2> HIDE DEF known
  <2>4. ASSUME NEW k \in DOMAIN known, known[k] # NoId
        PROVE  \E at \in DOMAIN history :
                 history[at] = User(known[k]) /\ UserTurnCount(SubSeq(history, 1, at)) = k
    BY <2>1, <2>3, <2>4, AgreeNames
  <2> QED
    BY <2>4 DEF IdNamesItsTurn, known
<1> QED
    BY <1>1, ContentHolds, InitNames, NamesStep, PTL DEF Spec
=============================================================================
