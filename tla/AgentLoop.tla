------------------------------ MODULE AgentLoop ------------------------------
(***************************************************************************)
(* The agent loop of one session (agent.rs): run_inner with its retries,   *)
(* failover, error resume, auto-continue and tool batches, the turn        *)
(* journal that survives a cancelled or dropped future, compaction, retry  *)
(* and truncation, and the turn epilogue of session_core.rs that aligns    *)
(* the client message ids and saves.                                       *)
(*                                                                         *)
(* A step is what happens between two awaits, so a cancel, a dropped       *)
(* future or a crash may fall between any two steps.  A message is what    *)
(* the repairs tell apart: who wrote it, which calls it makes, which       *)
(* results it holds.  Saves succeed here; their failures are Durability's. *)
(***************************************************************************)
EXTENDS Naturals, Sequences, FiniteSets, SequencesExt

CONSTANTS
    MaxPrompts,     \* bound: prompts the client sends
    MaxGens,        \* bound: provider generations
    MaxTurns,       \* bound: turns run, retries included
    MaxDrops,       \* bound: turn futures dropped by a panic
    MaxRestarts,    \* bound: crashes of the process
    MaxCalls,       \* bound: tool calls in one response
    MaxAttempts,    \* provider_retry.max_attempts
    ChainLength,    \* models after the first in provider_retry.failover_models
    AutoContinue,   \* auto_continue_budget
    ErrorResume,    \* error_resume_budget
    Prefix,         \* TRUE: the frontend inserts an assistant prefix into each turn
    NoId

ASSUME AgentAssumption ==
    /\ {MaxPrompts, MaxGens, MaxTurns, MaxDrops, MaxRestarts, MaxCalls, MaxAttempts,
        ChainLength, AutoContinue, ErrorResume} \subseteq Nat
    /\ MaxCalls > 0
    /\ Prefix \in BOOLEAN
    /\ NoId \notin 1..MaxPrompts

VARIABLES
    history,   \* AgentSession.messages
    journal,   \* AgentSession.inflight_turn
    counted,   \* AgentSession.total_usage: how often each generation was added to it
    ids,       \* SessionCore.client_user_message_ids
    outcomes,  \* SessionCore.assistant_outcomes: whose turn each one ended
    disk,      \* the stored record: messages and client ids
    pc,        \* where the turn is
    turn,      \* locals of the turn
    gens,      \* generations so far
    prompts,   \* prompts sent so far
    turns,     \* turns begun so far
    drops, restarts,
    started,   \* ghost: calls dispatched to their tool
    finished,  \* ghost: calls whose result is in a journal
    owed,      \* ghost: generations of this process whose usage was recorded
    gone,      \* ghost: prompts taken out of the session on purpose
    shifted,   \* ghost: a nudge was pushed or a turn dropped
    torn       \* ghost: a retry replaced messages of the turn it had just finalised

bounds == <<prompts, turns, drops, restarts>>
ghosts == <<started, finished, owed, gone, shifted, torn>>
vars == <<history, journal, counted, ids, outcomes, disk, pc, turn, gens, bounds, ghosts>>

Gens == 1..MaxGens
CallIds == Gens \X (1..MaxCalls)

-----------------------------------------------------------------------------
(* Messages and the repairs of a history.                                   *)

User(p) == [kind |-> "user", of |-> p]
Nudge == [kind |-> "nudge"]
Summary == [kind |-> "summary"]
Assistant(calls, text) == [kind |-> "assistant", calls |-> calls, text |-> text]
Results(res) == [kind |-> "results", res |-> res]

Makes(m) == IF m.kind = "assistant" THEN m.calls ELSE {}
Answers(m) == IF m.kind = "results" THEN {r[1] : r \in m.res} ELSE {}
AnsweredIn(ms) == UNION {Answers(ms[i]) : i \in DOMAIN ms}
OrphansOf(ms, m) == Makes(m) \ AnsweredIn(ms)
HasOrphans(ms) == \E i \in DOMAIN ms : OrphansOf(ms, ms[i]) # {}
IsHusk(m) == m.kind = "assistant" /\ m.calls = {} /\ ~m.text

\* is_user_turn_message; compaction's is_turn_start also accepts a summary.
IsUserTurn(m) == m.kind \in {"user", "nudge"}
IsTurnStart(m) == m.kind \in {"user", "nudge", "summary"}

UserTurnCount(ms) == Cardinality({i \in DOMAIN ms : IsUserTurn(ms[i])})
PromptsIn(ms) == {ms[i].of : i \in {j \in DOMAIN ms : ms[j].kind = "user"}}
LastUserTurn(ms) == SelectLastInSeq(ms, IsUserTurn)

\* close_orphan_tool_calls.
CloseOrphans(ms) ==
    FlattenSeq([i \in DOMAIN ms |->
        IF OrphansOf(ms, ms[i]) = {} THEN <<ms[i]>>
        ELSE <<ms[i], Results(OrphansOf(ms, ms[i]) \X {"interrupted"})>>])

\* The message at i holds the results of the calls of the message before it.
FollowsCalls(ms, i) == i > 1 /\ ms[i].kind = "results" /\ Makes(ms[i - 1]) # {}

\* The results journalled for the calls of the message at i, the missing ones marked.
Filled(ms, i) ==
    LET res == IF i < Len(ms) /\ FollowsCalls(ms, i + 1) THEN ms[i + 1].res ELSE {}
        missing == Makes(ms[i]) \ {r[1] : r \in res}
    IN  Results(res \cup (missing \X {"uncertain"}))

\* materialize_cancelled_suffix: pair every call ...
PairCalls(ms) ==
    FlattenSeq([i \in DOMAIN ms |->
        IF FollowsCalls(ms, i) THEN << >>
        ELSE IF Makes(ms[i]) = {} THEN <<ms[i]>> ELSE <<ms[i], Filled(ms, i)>>])

\* ... then close with the note.
Materialize(ms) ==
    LET paired == PairCalls(ms)
    IN  IF paired # << >> /\ Last(paired).kind = "assistant"
        THEN [paired EXCEPT ![Len(paired)].text = TRUE]
        ELSE Append(paired, Assistant({}, TRUE))

\* Mutant: the ids are padded and trimmed at the end.
BugAlign(s, n) ==
    IF Len(s) > n THEN SubSeq(s, 1, n) ELSE s \o [i \in 1..(n - Len(s)) |-> NoId]

\* align_client_user_message_ids: trim or pad at the front.
Align(s, n) ==
    IF Len(s) > n THEN SubSeq(s, Len(s) - n + 1, Len(s)) ELSE [i \in 1..(n - Len(s)) |-> NoId] \o s

\* insert_assistant_turn_prefix, called by the epilogue with a frontend's prefix.
WithPrefix(ms) ==
    IF Prefix /\ LastUserTurn(ms) > 0 THEN InsertAt(ms, LastUserTurn(ms) + 1, Assistant({}, TRUE)) ELSE ms

AddUsage(gs) == counted' = [g \in Gens |-> counted[g] + IF g \in gs THEN 1 ELSE 0]

\* inflight_turn is None.
NoJournal == [mode |-> "none", from |-> 0, suffix |-> << >>, usage |-> {}]

NoTurn == [mode |-> "append", user |-> Nudge, base |-> << >>, msgs |-> << >>, ids |-> << >>,
           stop |-> "none", left |-> {}, running |-> FALSE, results |-> {},
           terminate |-> FALSE, auto |-> 0, resumes |-> 0, retries |-> 0, failed |-> 0,
           reacted |-> FALSE, spent |-> {}, summaries |-> 0]

Init ==
    /\ history = << >> /\ journal = NoJournal /\ counted = [g \in Gens |-> 0]
    /\ ids = << >> /\ outcomes = << >> /\ disk = [msgs |-> << >>, ids |-> << >>]
    /\ pc = "idle" /\ turn = NoTurn
    /\ gens = 0 /\ prompts = 0 /\ turns = 0 /\ drops = 0 /\ restarts = 0
    /\ started = {} /\ finished = {} /\ owed = {} /\ gone = {} /\ shifted = FALSE /\ torn = FALSE

-----------------------------------------------------------------------------
(* The journal.                                                             *)

\* The record a durable checkpoint of ms stores, with the ids the turn began with.
Recovery(ms, known) == [msgs |-> Materialize(ms), ids |-> Align(known, UserTurnCount(Materialize(ms)))]

\* A journal checkpoint: the suffix in memory, the materialised whole on disk.
Checkpoint(ms) ==
    /\ journal' = [journal EXCEPT !.suffix = SubSeq(ms, Len(turn.base) + 1, Len(ms))]
    /\ disk' = Recovery(ms, turn.ids)

\* Vec::truncate: a sequence that is not longer stays as it is.
Truncated(s, n) == IF n < Len(s) THEN SubSeq(s, 1, n) ELSE s

\* Mutant: the suffix is promoted as it is.
BugPromoted(hist) ==
    IF journal.mode = "append" THEN hist \o journal.suffix
    ELSE Truncated(hist, journal.from) \o journal.suffix

\* The history finalize_cancelled_turn leaves: the journal's suffix, materialised,
\* appended or in place of the retried turn.
Promoted(hist) ==
    LET suffix == Materialize(journal.suffix)
    IN  IF journal.mode = "append" THEN hist \o suffix ELSE Truncated(hist, journal.from) \o suffix

\* Mutant: the journal of a dropped turn is overwritten.
BugFinalized == history

\* begin_turn_journal finds the journal of a dropped turn and finalises it first.
Finalized == IF journal = NoJournal THEN history ELSE Promoted(history)

\* Mutant: the turn runs without a journal.
BugNewJournal(mode, from, m) == NoJournal

NewJournal(mode, from, m) == [mode |-> mode, from |-> from, suffix |-> <<m>>, usage |-> {}]

-----------------------------------------------------------------------------
(* A turn begins.                                                           *)

\* prompt_with_active_turn up to staged_prompt_message: the accepted message is
\* saved on top of the history, then the journal begins.
Prompt ==
    /\ pc = "idle" /\ prompts < MaxPrompts /\ turns < MaxTurns
    /\ LET p == prompts + 1
           known == Append(Align(ids, UserTurnCount(history)), p)
       IN  /\ ids' = Align(ids, UserTurnCount(history))
           /\ disk' = Recovery(Append(history, User(p)), known)
           /\ history' = Finalized /\ AddUsage(journal.usage)
           /\ journal' = NewJournal("append", 0, User(p))
           /\ turn' = [NoTurn EXCEPT !.user = User(p), !.ids = known]
           /\ prompts' = p
    /\ pc' = "start" /\ turns' = turns + 1
    /\ UNCHANGED <<outcomes, gens, drops, restarts, ghosts>>

\* run_prompt_attempt: repair, then compact or not (the occupancy decides), then attempt.
Repair ==
    /\ pc = "start"
    /\ history' = CloseOrphans(history)
    /\ pc' \in {"attempt", "compact"}
    /\ UNCHANGED <<journal, counted, ids, outcomes, disk, turn, gens, bounds, ghosts>>

\* run_retry_turn: the last user turn is run again on the history before it.
\* The base is chosen before begin_turn_journal finalises a dropped turn.
Retry ==
    /\ pc = "idle" /\ turns < MaxTurns /\ LastUserTurn(history) > 0
    /\ LET at == LastUserTurn(history)
       IN  /\ turn' = [NoTurn EXCEPT !.mode = "replace", !.user = history[at],
                                     !.base = SubSeq(history, 1, at - 1),
                                     !.ids = Align(ids, UserTurnCount(history))]
           /\ journal' = NewJournal("replace", at - 1, history[at])
           /\ history' = Finalized /\ AddUsage(journal.usage)
           /\ gone' = gone \cup (PromptsIn(Finalized) \ PromptsIn(history))
           /\ torn' = (torn \/ (journal.mode = "replace" /\ journal.from < at - 1))
    /\ pc' = "attempt" /\ turns' = turns + 1
    /\ UNCHANGED <<ids, outcomes, disk, gens, prompts, drops, restarts, started, finished, owed, shifted>>

\* attempt_with_history: reset the journal, push the user message, checkpoint.
Attempt ==
    /\ pc = "attempt"
    /\ LET base == IF turn.mode = "append" THEN history ELSE turn.base
           ms == Append(base, turn.user)
       IN  /\ turn' = [turn EXCEPT !.base = base, !.msgs = ms]
           /\ journal' = [journal EXCEPT !.suffix = <<turn.user>>, !.usage = {}]
           /\ disk' = Recovery(ms, turn.ids)
    /\ pc' = "request"
    /\ UNCHANGED <<history, counted, ids, outcomes, gens, bounds, ghosts>>

-----------------------------------------------------------------------------
(* AgentSession::compact.                                                   *)

\* choose_cut: a turn start after the first message; the estimate decides which.
Cuts == {i \in 2..Len(history) : IsTurnStart(history[i])}

\* The overflow is final: the journal gets the attempt's own result back.
RestoreJournal ==
    journal' = [journal EXCEPT !.suffix = SubSeq(turn.msgs, Len(turn.base) + 1, Len(turn.msgs)),
                               !.usage = turn.spent]

NothingToCut ==
    /\ pc = "compact"
    /\ IF turn.reacted THEN pc' = "staged" /\ RestoreJournal ELSE pc' = "attempt" /\ UNCHANGED journal
    /\ UNCHANGED <<history, counted, ids, outcomes, disk, turn, gens, bounds, ghosts>>

\* A summary call: its usage goes to the session at once; two failures drop the
\* evicted turns behind a marker.
Summarize ==
    /\ pc = "compact" /\ Cuts # {} /\ gens < MaxGens
    /\ gens' = gens + 1 /\ AddUsage({gens + 1}) /\ owed' = owed \cup {gens + 1}
    /\ \/ /\ turn.summaries = 0
          /\ turn' = [turn EXCEPT !.summaries = 1]
          /\ UNCHANGED <<history, pc, gone>>
       \/ \E cut \in Cuts :
            /\ history' = <<Summary>> \o SubSeq(history, cut, Len(history))
            /\ gone' = gone \cup (PromptsIn(history) \ PromptsIn(history'))
            /\ turn' = [turn EXCEPT !.summaries = 0]
            /\ pc' = "attempt"
    /\ UNCHANGED <<journal, ids, outcomes, disk, bounds, started, finished, shifted, torn>>

-----------------------------------------------------------------------------
(* run_inner: one generation.                                               *)

\* The calls a response of this generation may hold.
NewCalls(n) == {<<gens + 1, i>> : i \in 1..n}

\* A transient failure is tried again inside the generation.
RetryGeneration ==
    /\ pc = "request" /\ turn.retries < MaxAttempts
    /\ turn' = [turn EXCEPT !.retries = @ + 1]
    /\ UNCHANGED <<history, journal, counted, ids, outcomes, disk, pc, gens, bounds, ghosts>>

\* A response arrives: its usage is recorded, and unless it is a tool_use without a
\* call it is pushed and checkpointed.
Respond(stop, ms) ==
    /\ pc = "request" /\ gens < MaxGens
    /\ gens' = gens + 1
    /\ owed' = owed \cup {gens + 1}
    /\ journal' = [journal EXCEPT !.usage = @ \cup {gens + 1},
                                  !.suffix = SubSeq(ms, Len(turn.base) + 1, Len(ms))]
    /\ disk' = IF ms = turn.msgs THEN disk ELSE Recovery(ms, turn.ids)
    /\ turn' = [turn EXCEPT !.msgs = ms, !.stop = stop, !.retries = 0]
    /\ pc' = "settle"
    /\ UNCHANGED <<history, counted, ids, outcomes, bounds, started, finished, gone, shifted, torn>>

\* Text, or truncated text, or a response cut off inside a call.
RespondText == \E stop \in {"end", "max_tokens"}, n \in 0..1 :
    Respond(stop, Append(turn.msgs, Assistant(NewCalls(n), n = 0)))
RespondTools == \E n \in 1..MaxCalls : Respond("tool_use", Append(turn.msgs, Assistant(NewCalls(n), FALSE)))
RespondMalformed == Respond("fatal", turn.msgs)
\* The adapters return no content with an error; the retryable one has used its attempts.
RespondError == \E stop \in {"fatal", "overflow", "transient"} :
    /\ stop = "transient" => turn.retries = MaxAttempts
    /\ Respond(stop, Append(turn.msgs, Assistant({}, FALSE)))

\* The loop goes on with ms, checkpointed.
Again(ms, t) ==
    /\ Checkpoint(ms)
    /\ turn' = [t EXCEPT !.msgs = ms, !.stop = "none"]
    /\ pc' = "request"
    /\ UNCHANGED <<history, counted, ids, outcomes, gens, bounds, started, finished, owed, gone, torn>>

\* Mutant: the truncated answer is always followed by the nudge, its calls left open.
BugAutoContinueArm ==
    /\ pc = "settle" /\ turn.stop = "max_tokens" /\ turn.auto < AutoContinue
    /\ Again(Append(turn.msgs, Nudge), [turn EXCEPT !.auto = @ + 1])
    /\ shifted' = TRUE

AutoContinueArm ==
    /\ pc = "settle" /\ turn.stop = "max_tokens" /\ turn.auto < AutoContinue
    /\ LET textOnly == ~HasOrphans(turn.msgs)
           closed == CloseOrphans(turn.msgs)
       IN  /\ Again(IF textOnly THEN Append(closed, Nudge) ELSE closed, [turn EXCEPT !.auto = @ + 1])
           /\ shifted' = (shifted \/ textOnly)

\* The chain advances and the loop continues with the messages as they are.
FailoverArm ==
    /\ pc = "settle" /\ turn.stop = "transient" /\ turn.failed < ChainLength
    /\ Again(turn.msgs, [turn EXCEPT !.failed = @ + 1])
    /\ UNCHANGED shifted

\* After the pause: drop an empty husk, close truncated calls, end on a user message.
ResumeArm ==
    /\ pc = "settle" /\ turn.stop = "transient" /\ turn.failed >= ChainLength
    /\ turn.resumes < ErrorResume
    /\ LET kept == IF IsHusk(Last(turn.msgs)) THEN Front(turn.msgs) ELSE turn.msgs
           nudge == ~HasOrphans(kept) /\ Last(kept).kind = "assistant"
           closed == CloseOrphans(kept)
       IN  /\ Again(IF nudge THEN Append(closed, Nudge) ELSE closed, [turn EXCEPT !.resumes = @ + 1])
           /\ shifted' = (shifted \/ nudge)

\* The run returns to attempt_with_history, which applies its usage; an overflow of a
\* new turn resets the journal and compacts, once.
Return(ms) ==
    /\ AddUsage(journal.usage)
    /\ IF turn.stop = "overflow" /\ turn.mode = "append" /\ ~turn.reacted
       THEN /\ journal' = [journal EXCEPT !.suffix = <<turn.user>>, !.usage = {}]
            /\ turn' = [turn EXCEPT !.msgs = ms, !.reacted = TRUE, !.spent = journal.usage]
            /\ pc' = "compact"
       ELSE turn' = [turn EXCEPT !.msgs = ms] /\ pc' = "staged" /\ UNCHANGED journal
    /\ UNCHANGED <<history, ids, outcomes, disk, gens, bounds, ghosts>>

TerminalArm ==
    /\ pc = "settle"
    /\ \/ turn.stop \in {"end", "fatal", "overflow"}
       \/ turn.stop = "max_tokens" /\ turn.auto >= AutoContinue
       \/ turn.stop = "transient" /\ turn.failed >= ChainLength /\ turn.resumes >= ErrorResume
    /\ Return(CloseOrphans(turn.msgs))

ToolUseArm ==
    /\ pc = "settle" /\ turn.stop = "tool_use"
    /\ turn' = [turn EXCEPT !.left = Last(turn.msgs).calls, !.running = FALSE, !.results = {},
                            !.terminate = FALSE]
    /\ pc' = "tools"
    /\ UNCHANGED <<history, journal, counted, ids, outcomes, disk, gens, bounds, ghosts>>

\* The calls of a response run in order.
IsNext(c) == \A d \in turn.left : c[2] <= d[2]

\* A result becomes authoritative: it is journalled with those before it.
RecordResult(c, outcome, terminate) ==
    LET res == turn.results \cup {<<c, outcome>>}
    IN  /\ Checkpoint(Append(turn.msgs, Results(res)))
        /\ turn' = [turn EXCEPT !.results = res, !.left = @ \ {c}, !.running = FALSE,
                                !.terminate = @ \/ terminate]

\* before_tool_call refuses the call.
ToolBlocked ==
    /\ pc = "tools" /\ ~turn.running
    /\ \E c \in turn.left : IsNext(c) /\ RecordResult(c, "blocked", FALSE)
    /\ UNCHANGED <<history, counted, ids, outcomes, pc, gens, bounds, ghosts>>

ToolStart ==
    /\ pc = "tools" /\ ~turn.running
    /\ \E c \in turn.left : IsNext(c) /\ started' = started \cup {c}
    /\ turn' = [turn EXCEPT !.running = TRUE]
    /\ UNCHANGED <<history, journal, counted, ids, outcomes, disk, pc, gens, bounds,
                   finished, owed, gone, shifted, torn>>

ToolDone ==
    /\ pc = "tools" /\ turn.running
    /\ \E c \in turn.left, terminate \in BOOLEAN :
         IsNext(c) /\ RecordResult(c, "done", terminate) /\ finished' = finished \cup {c}
    /\ UNCHANGED <<history, counted, ids, outcomes, pc, gens, bounds, started, owed, gone, shifted, torn>>

\* The batch is complete: its results are pushed, and the after hook or the loop
\* detector may end the turn.
BatchDone ==
    /\ pc = "tools" /\ turn.left = {}
    /\ LET ms == Append(turn.msgs, Results(turn.results))
       IN  \/ /\ ~turn.terminate
              /\ Again(ms, turn)
              /\ UNCHANGED shifted
           \/ Return(ms)

-----------------------------------------------------------------------------
(* The turn ends (prompt_with_active_turn, run_retry_turn).                 *)

\* A new turn pushes its id and its outcome and trims both at the front; a retry
\* replaces the last outcome.
Epilogue(hist) ==
    /\ IF turn.mode = "append"
       THEN /\ history' = WithPrefix(hist)
            /\ ids' = Align(Append(ids, turn.user.of), UserTurnCount(hist))
            /\ LET count == UserTurnCount(hist)
                   before == IF count = 0 THEN 0 ELSE count - 1
               IN  outcomes' = Append(IF Len(outcomes) > before THEN Align(outcomes, before)
                                      ELSE outcomes, turn.user)
       ELSE /\ history' = hist
            /\ outcomes' = Append(IF outcomes = << >> THEN outcomes ELSE Front(outcomes), turn.user)
            /\ UNCHANGED ids
    /\ journal' = NoJournal /\ turn' = NoTurn /\ pc' = "saving"

\* The staged result wins the claim and is committed.
Commit ==
    /\ pc = "staged"
    /\ Epilogue(turn.msgs)
    /\ UNCHANGED <<counted, disk, gens, bounds, ghosts>>

\* Mutant: the usage of the journal is added whether or not the run returned.
BugCancel ==
    /\ pc \notin {"idle", "saving"}
    /\ AddUsage(journal.usage)
    /\ Epilogue(Promoted(history))
    /\ UNCHANGED <<disk, gens, bounds, ghosts>>

\* The cancel wins: the journal is promoted; usage_already_applied if the run had returned.
Cancel ==
    /\ pc \notin {"idle", "saving"}
    /\ IF pc = "staged" THEN UNCHANGED counted ELSE AddUsage(journal.usage)
    /\ Epilogue(Promoted(history))
    /\ UNCHANGED <<disk, gens, bounds, ghosts>>

\* persist_current: the record of the session as it is.
Persist ==
    /\ pc = "saving"
    /\ disk' = [msgs |-> history, ids |-> ids]
    /\ pc' = "idle"
    /\ UNCHANGED <<history, journal, counted, ids, outcomes, turn, gens, bounds, ghosts>>

\* A panic unwinds the turn: its journal stays until the next turn begins.
Drop ==
    /\ pc \notin {"idle", "saving", "staged"} /\ drops < MaxDrops
    /\ drops' = drops + 1 /\ shifted' = TRUE
    /\ turn' = NoTurn /\ pc' = "idle"
    /\ UNCHANGED <<history, journal, counted, ids, outcomes, disk, gens, prompts, turns, restarts,
                   started, finished, owed, gone, torn>>

-----------------------------------------------------------------------------
(* Between turns.                                                           *)

\* truncate_session: the named turn and everything after it.
Truncate ==
    /\ pc \in {"idle", "saving"}
    /\ LET known == Align(ids, UserTurnCount(history))
       IN  \E k \in DOMAIN known :
             /\ known[k] # NoId
             /\ \E at \in DOMAIN history :
                  /\ IsUserTurn(history[at]) /\ UserTurnCount(SubSeq(history, 1, at)) = k
                  /\ history' = SubSeq(history, 1, at - 1)
             /\ ids' = SubSeq(known, 1, k - 1)
             /\ outcomes' = Truncated(outcomes, k - 1)
             /\ gone' = gone \cup (PromptsIn(history) \ PromptsIn(history'))
    /\ pc' = "saving"
    /\ UNCHANGED <<journal, counted, disk, turn, gens, bounds, started, finished, owed, shifted, torn>>

\* clear_history: a dropped turn's journal and its usage go too.
Clear ==
    /\ pc = "idle" /\ (history # << >> \/ journal # NoJournal)
    /\ history' = << >> /\ ids' = << >> /\ outcomes' = << >> /\ journal' = NoJournal
    /\ gone' = 1..prompts
    /\ owed' = owed \ journal.usage
    /\ pc' = "saving"
    /\ UNCHANGED <<counted, disk, turn, gens, bounds, started, finished, shifted, torn>>

\* The process dies and the session is loaded again: set_history repairs the record.
Restart ==
    /\ restarts < MaxRestarts
    /\ restarts' = restarts + 1
    /\ history' = CloseOrphans(disk.msgs)
    /\ ids' = Align(disk.ids, UserTurnCount(disk.msgs))
    /\ outcomes' = << >>
    /\ journal' = NoJournal /\ turn' = NoTurn /\ pc' = "idle"
    /\ counted' = [g \in Gens |-> 0] /\ owed' = {}
    /\ gone' = IF drops > 0 THEN (1..prompts) \ PromptsIn(disk.msgs) ELSE gone
    /\ UNCHANGED <<disk, gens, prompts, turns, drops, started, finished, shifted, torn>>

Next ==
    \/ Prompt \/ Repair \/ Retry \/ Attempt \/ NothingToCut \/ Summarize
    \/ RetryGeneration \/ RespondText \/ RespondTools \/ RespondMalformed \/ RespondError
    \/ AutoContinueArm \/ FailoverArm \/ ResumeArm \/ TerminalArm \/ ToolUseArm
    \/ ToolBlocked \/ ToolStart \/ ToolDone \/ BatchDone
    \/ Commit \/ Cancel \/ Persist \/ Drop
    \/ Truncate \/ Clear \/ Restart

Spec == Init /\ [][Next]_vars

-----------------------------------------------------------------------------
(* What the session may rely on.                                            *)

Says == {"done", "blocked", "interrupted", "uncertain"}
UserMessages == [kind : {"user"}, of : 1..MaxPrompts]
Messages == UserMessages \cup {Nudge, Summary}
            \cup [kind : {"assistant"}, calls : SUBSET CallIds, text : BOOLEAN]
            \cup [kind : {"results"}, res : SUBSET (CallIds \X Says)]
Ids == (1..MaxPrompts) \cup {NoId}

Journals == [mode : {"none", "append", "replace"}, from : Nat, suffix : Seq(Messages),
             usage : SUBSET Gens]
Turns == [mode : {"append", "replace"}, user : Messages, base : Seq(Messages), msgs : Seq(Messages),
          ids : Seq(Ids), stop : {"none", "end", "max_tokens", "tool_use", "fatal", "overflow", "transient"},
          left : SUBSET CallIds, running : BOOLEAN, results : SUBSET (CallIds \X Says),
          terminate : BOOLEAN, auto : Nat, resumes : Nat, retries : Nat, failed : Nat,
          reacted : BOOLEAN, spent : SUBSET Gens, summaries : {0, 1}]
PCs == {"idle", "start", "attempt", "compact", "request", "settle", "tools", "staged", "saving"}

\* The variables keep their types, and a turn in progress has a journal.
TypeOK ==
    /\ history \in Seq(Messages) /\ journal \in Journals /\ turn \in Turns
    /\ disk \in [msgs : Seq(Messages), ids : Seq(Ids)]
    /\ ids \in Seq(Ids) /\ outcomes \in Seq(Messages)
    /\ pc \in PCs /\ (pc \notin {"idle", "saving"} => journal # NoJournal)
    /\ counted \in [Gens -> Nat] /\ started \subseteq CallIds /\ finished \subseteq started
    /\ gens \in 0..MaxGens /\ prompts \in 0..MaxPrompts /\ turns \in 0..MaxTurns

\* Every call is answered, all of it and by the very next message.
Paired(ms) == \A i \in DOMAIN ms :
    /\ Makes(ms[i]) # {} => i < Len(ms) /\ Answers(ms[i + 1]) = Makes(ms[i])
    /\ ms[i].kind = "results" => i > 1 /\ Makes(ms[i - 1]) # {}

\* Whatever came before (truncation inside a call, errors, failover, cancels, drops,
\* compaction, restarts), the request handed to the provider answers each call in the
\* message after it and, empty failed attempts aside, ends on a user-side message.
\* The exception is a torn history: a retry that begins over the journal of a dropped
\* retry cuts the history it has just finalised at an index it took before.
WellFormedRequest ==
    pc = "request" /\ ~torn =>
        /\ Paired(turn.msgs)
        /\ \E i \in DOMAIN turn.msgs :
             turn.msgs[i].kind # "assistant" /\ \A j \in DOMAIN turn.msgs : j > i => IsHusk(turn.msgs[j])

\* What is said of a call happened: "done" only if its result was journalled,
\* "interrupted" or "blocked" only if it never started, "uncertain" only if no result
\* of it was journalled.
Truthful(ms) == \A i \in DOMAIN ms : ms[i].kind = "results" =>
    \A r \in ms[i].res :
        CASE r[2] = "done" -> r[1] \in finished
          [] r[2] = "uncertain" -> r[1] \notin finished
          [] OTHER -> r[1] \notin started

\* The session and its stored record are well paired, and say of each call what
\* happened; again unless the history was torn.
StoredIsTruthful ==
    ~torn => \A ms \in {history, disk.msgs} : Paired(ms) /\ Truthful(ms)

\* The usage of a generation reaches the session total once, however its turn ended;
\* until then it waits in the journal of the turn.
CountedOnce ==
    \A g \in Gens :
        /\ counted[g] <= 1
        /\ g \in owed => counted[g] = 1 \/ (pc # "staged" /\ g \in journal.usage)

\* An accepted prompt that nobody removed is in the history or in the journal of its
\* turn (a torn history aside), and unless a turn was dropped it is in the stored
\* record too.
AcceptedKept ==
    ~torn => \A p \in (1..prompts) \ gone :
        /\ p \in PromptsIn(history) \cup PromptsIn(journal.suffix)
        /\ drops = 0 => p \in PromptsIn(disk.msgs)

\* Each client id stands at the position of its own prompt among the user turns.
IdNamesItsTurn ==
    pc = "idle" =>
        LET known == Align(ids, UserTurnCount(history))
        IN  \A k \in DOMAIN known : known[k] # NoId =>
              \E at \in DOMAIN history :
                 history[at] = User(known[k]) /\ UserTurnCount(SubSeq(history, 1, at)) = k

\* The same as long as no nudge stands among the user turns and no turn was dropped.
IdNamesItsTurnUnshifted == ~shifted => IdNamesItsTurn
=============================================================================
