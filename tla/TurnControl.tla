---------------------------- MODULE TurnControl ----------------------------
(***************************************************************************)
(* One session core's turn slot (session_core.rs): TurnController,         *)
(* TurnSignal, SessionTurn::drop, the clear_history permit and             *)
(* apply_runtime_option, with the per-session admission lock the daemon    *)
(* puts around them (session_daemon.rs).                                   *)
(*                                                                         *)
(* Every atomic load, compare-exchange, lock acquisition and event of the  *)
(* code is a step of its own, so the actors interleave as the tasks do.    *)
(* What a turn computes is left out; whether and when it ends is not.      *)
(* Each actor runs its operation once.                                     *)
(***************************************************************************)
EXTENDS Naturals, FiniteSets

CONSTANTS
    Prompts,      \* tasks that run a prompt
    Cancellers,   \* callers of cancel_turn (interrupt, stop, shutdown)
    Clearers,     \* callers of clear_history
    Configurers,  \* callers of apply_runtime_option (no option is mutable_while_running)
    Waiters,      \* callers of TurnController::wait_idle
    NoOne, Unused

\* Every actor is a task of its own.
ASSUME TurnAssumption ==
    /\ Prompts \cap Clearers = {} /\ Prompts \cap Configurers = {} /\ Clearers \cap Configurers = {}
    /\ NoOne \notin Prompts \cup Clearers \cup Configurers
    /\ Unused \notin Prompts \cup Clearers \cup Configurers \cup {NoOne}

VARIABLES
    mutationActive, \* SessionCore.mutation_active
    active,         \* TurnController.active: the prompt whose signal is in the slot
    outcome,        \* TurnSignal.outcome of each prompt's signal
    notified,       \* TurnSignal.notify of each prompt: the stored permit
    session,        \* holder of SessionCore.session
    lifecycle,      \* holder of SessionCore.lifecycle
    admission,      \* holder of SessionEntry.admission; Unused: the core is served by ACP, which has none
    status,         \* the last TurnStatusChanged on the stream
    ppc, claimed, term,   \* prompts: control, ghost "reached mark_completed", terminal status
    cpc, target, seen,    \* cancellers: control, the signal cloned, already_cancelled
    mpc, kpc,             \* clearers' and configurers' control
    wpc, woken            \* waiters' control, and the wake-ups enabled waiters received

turnVars == <<mutationActive, active, outcome, notified, session, status, ppc, claimed, term>>
cancelVars == <<cpc, target, seen>>
vars == <<turnVars, cancelVars, lifecycle, admission, mpc, kpc, wpc, woken>>

Outcomes == {"live", "completed", "cancelled"}
Statuses == {"idle", "running", "cancelling", "cancelled"}
PromptPcs == {"idle", "admitted", "checked", "slot", "granted", "running", "staged", "saving",
              "ending", "emitting", "releasing", "done", "refused"}
CancelPcs == {"idle", "holding", "read", "won", "notifying", "accepted", "declined"}
ClearPcs == {"idle", "admitted", "permit", "unlocked", "locked", "session", "clearing",
             "done", "refused"}
ConfigPcs == {"idle", "admitted", "unlocked", "locked", "session", "applying", "done", "refused"}
WaitPcs == {"idle", "enabled", "await", "done"}

TypeOK ==
    /\ mutationActive \in BOOLEAN
    /\ active \in Prompts \cup {NoOne}
    /\ outcome \in [Prompts -> Outcomes]
    /\ notified \in [Prompts -> BOOLEAN]
    /\ session \in Prompts \cup Clearers \cup Configurers \cup {NoOne}
    /\ lifecycle \in Clearers \cup Configurers \cup {NoOne}
    /\ admission \in Prompts \cup Clearers \cup Configurers \cup {NoOne, Unused}
    /\ status \in Statuses
    /\ ppc \in [Prompts -> PromptPcs]
    /\ claimed \in [Prompts -> BOOLEAN]
    /\ term \in [Prompts -> Statuses]
    /\ cpc \in [Cancellers -> CancelPcs]
    /\ target \in [Cancellers -> Prompts \cup {NoOne}]
    /\ seen \in [Cancellers -> BOOLEAN]
    /\ mpc \in [Clearers -> ClearPcs]
    /\ kpc \in [Configurers -> ConfigPcs]
    /\ wpc \in [Waiters -> WaitPcs]
    /\ woken \in [Waiters -> BOOLEAN]

Init ==
    /\ mutationActive = FALSE
    /\ active = NoOne
    /\ outcome = [p \in Prompts |-> "live"]
    /\ notified = [p \in Prompts |-> FALSE]
    /\ session = NoOne
    /\ lifecycle = NoOne
    /\ admission \in {NoOne, Unused}
    /\ status = "idle"
    /\ ppc = [p \in Prompts |-> "idle"]
    /\ claimed = [p \in Prompts |-> FALSE]
    /\ term = [p \in Prompts |-> "idle"]
    /\ cpc = [c \in Cancellers |-> "idle"]
    /\ target = [c \in Cancellers |-> NoOne]
    /\ seen = [c \in Cancellers |-> FALSE]
    /\ mpc = [m \in Clearers |-> "idle"]
    /\ kpc = [k \in Configurers |-> "idle"]
    /\ wpc = [w \in Waiters |-> "idle"]
    /\ woken = [w \in Waiters |-> FALSE]

-----------------------------------------------------------------------------
TakeAdmission(x) == IF admission = Unused THEN UNCHANGED admission ELSE admission = NoOne /\ admission' = x

LeaveAdmission(x) == admission' = IF admission = x THEN NoOne ELSE admission

\* Mutant: the slot is freed without notifying.
BugFreeSlot == active' = NoOne /\ UNCHANGED woken

\* ActiveTurn::drop: free the slot, notify_waiters the enabled wait_idle calls.
FreeSlot ==
    /\ active' = NoOne
    /\ woken' = [w \in Waiters |-> woken[w] \/ wpc[w] \in {"enabled", "await"}]

-----------------------------------------------------------------------------
(* A prompt task: begin_turn ...                                            *)

PromptAdmitted(p) ==
    /\ ppc[p] = "idle"
    /\ TakeAdmission(p)
    /\ ppc' = [ppc EXCEPT ![p] = "admitted"]
    /\ UNCHANGED <<mutationActive, active, outcome, notified, session, status, claimed, term,
                   cancelVars, lifecycle, mpc, kpc, wpc, woken>>

CheckMutation(p) ==
    /\ ppc[p] = "admitted"
    /\ IF mutationActive
       THEN ppc' = [ppc EXCEPT ![p] = "refused"] /\ LeaveAdmission(p)
       ELSE ppc' = [ppc EXCEPT ![p] = "checked"] /\ UNCHANGED admission
    /\ UNCHANGED <<mutationActive, active, outcome, notified, session, status, claimed, term,
                   cancelVars, lifecycle, mpc, kpc, wpc, woken>>

\* TurnController::begin.
TakeSlot(p) ==
    /\ ppc[p] = "checked"
    /\ IF active # NoOne
       THEN ppc' = [ppc EXCEPT ![p] = "refused"] /\ LeaveAdmission(p) /\ UNCHANGED active
       ELSE ppc' = [ppc EXCEPT ![p] = "slot"] /\ active' = p /\ UNCHANGED admission
    /\ UNCHANGED <<mutationActive, outcome, notified, session, status, claimed, term,
                   cancelVars, lifecycle, mpc, kpc, wpc, woken>>

\* Mutant: the permit is not looked at again once the slot is taken.
BugRecheckMutation(p) ==
    /\ ppc[p] = "slot"
    /\ ppc' = [ppc EXCEPT ![p] = "granted"]
    /\ UNCHANGED <<active, woken, admission, mutationActive, outcome, notified, session, status,
                   claimed, term, cancelVars, lifecycle, mpc, kpc, wpc>>

\* A crossing clear_history: the bare ActiveTurn is dropped, no terminal event.
RecheckMutation(p) ==
    /\ ppc[p] = "slot"
    /\ IF mutationActive
       THEN ppc' = [ppc EXCEPT ![p] = "refused"] /\ FreeSlot /\ LeaveAdmission(p)
       ELSE ppc' = [ppc EXCEPT ![p] = "granted"] /\ UNCHANGED <<active, woken, admission>>
    /\ UNCHANGED <<mutationActive, outcome, notified, session, status, claimed, term,
                   cancelVars, lifecycle, mpc, kpc, wpc>>

EmitRunning(p) ==
    /\ ppc[p] = "granted"
    /\ status' = "running"
    /\ ppc' = [ppc EXCEPT ![p] = "running"]
    /\ LeaveAdmission(p)
    /\ UNCHANGED <<mutationActive, active, outcome, notified, session, claimed, term,
                   cancelVars, lifecycle, mpc, kpc, wpc, woken>>

(* ... prompt_with_active_turn ...                                          *)

\* Skill expansion done; the session lock is taken, checks and checkpoint made.
Stage(p) ==
    /\ ppc[p] = "running"
    /\ session = NoOne
    /\ session' = p
    /\ ppc' = [ppc EXCEPT ![p] = "staged"]
    /\ UNCHANGED <<mutationActive, active, outcome, notified, status, claimed, term,
                   cancelVars, lifecycle, admission, mpc, kpc, wpc, woken>>

\* select!: the staged prompt finishes first; mark_completed claims the
\* outcome unless a cancel already has.
Finish(p) ==
    /\ ppc[p] = "staged"
    /\ outcome' = [outcome EXCEPT ![p] = IF @ = "live" THEN "completed" ELSE @]
    /\ claimed' = [claimed EXCEPT ![p] = TRUE]
    /\ session' = NoOne
    /\ ppc' = [ppc EXCEPT ![p] = "saving"]
    /\ UNCHANGED <<mutationActive, active, notified, status, term,
                   cancelVars, lifecycle, admission, mpc, kpc, wpc, woken>>

\* select!: the cancel notification arrives first.
Interrupted(p) ==
    /\ ppc[p] = "staged"
    /\ notified[p]
    /\ notified' = [notified EXCEPT ![p] = FALSE]
    /\ session' = NoOne
    /\ ppc' = [ppc EXCEPT ![p] = "saving"]
    /\ UNCHANGED <<mutationActive, active, outcome, status, claimed, term,
                   cancelVars, lifecycle, admission, mpc, kpc, wpc, woken>>

\* persist_current, while the turn still holds the slot.
TerminalSave(p) ==
    /\ ppc[p] = "saving"
    /\ ppc' = [ppc EXCEPT ![p] = "ending"]
    /\ UNCHANGED <<mutationActive, active, outcome, notified, session, status, claimed, term,
                   cancelVars, lifecycle, admission, mpc, kpc, wpc, woken>>

\* An early `?' return, a panic, or the dropped future of the turn.
Abandon(p) ==
    /\ ppc[p] \in {"running", "staged", "saving"}
    /\ session' = IF session = p THEN NoOne ELSE session
    /\ ppc' = [ppc EXCEPT ![p] = "ending"]
    /\ UNCHANGED <<mutationActive, active, outcome, notified, status, claimed, term,
                   cancelVars, lifecycle, admission, mpc, kpc, wpc, woken>>

(* ... and SessionTurn::drop: read the outcome, emit, then free the slot.   *)

\* Mutant: the signal's outcome is taken for a status.
BugTerminalStatus(p) == outcome[p]

TerminalStatus(p) == IF outcome[p] = "cancelled" THEN "cancelled" ELSE "idle"

ReadTerminal(p) ==
    /\ ppc[p] = "ending"
    /\ term' = [term EXCEPT ![p] = TerminalStatus(p)]
    /\ ppc' = [ppc EXCEPT ![p] = "emitting"]
    /\ UNCHANGED <<mutationActive, active, outcome, notified, session, status, claimed,
                   cancelVars, lifecycle, admission, mpc, kpc, wpc, woken>>

EmitTerminal(p) ==
    /\ ppc[p] = "emitting"
    /\ status' = term[p]
    /\ ppc' = [ppc EXCEPT ![p] = "releasing"]
    /\ UNCHANGED <<mutationActive, active, outcome, notified, session, claimed, term,
                   cancelVars, lifecycle, admission, mpc, kpc, wpc, woken>>

ReleaseSlot(p) ==
    /\ ppc[p] = "releasing"
    /\ FreeSlot
    /\ ppc' = [ppc EXCEPT ![p] = "done"]
    /\ UNCHANGED <<mutationActive, outcome, notified, session, status, claimed, term,
                   cancelVars, lifecycle, admission, mpc, kpc, wpc>>

-----------------------------------------------------------------------------
(* cancel_turn = cancel_with(emit Cancelling).                              *)

ReadSlot(c) ==
    /\ cpc[c] = "idle"
    /\ target' = [target EXCEPT ![c] = active]
    /\ cpc' = [cpc EXCEPT ![c] = IF active = NoOne THEN "declined" ELSE "holding"]
    /\ UNCHANGED <<turnVars, seen, lifecycle, admission, mpc, kpc, wpc, woken>>

ReadCancelled(c) ==
    /\ cpc[c] = "holding"
    /\ seen' = [seen EXCEPT ![c] = outcome[target[c]] = "cancelled"]
    /\ cpc' = [cpc EXCEPT ![c] = "read"]
    /\ UNCHANGED <<turnVars, target, lifecycle, admission, mpc, kpc, wpc, woken>>

\* Mutant: a cancel overrides a turn that completed.
BugClaimCancel(c) ==
    /\ cpc[c] = "read"
    /\ outcome' = [outcome EXCEPT ![target[c]] = "cancelled"]
    /\ cpc' = [cpc EXCEPT ![c] = IF seen[c] THEN "notifying" ELSE "won"]
    /\ UNCHANGED <<mutationActive, active, notified, session, status, ppc, claimed, term,
                   target, seen, lifecycle, admission, mpc, kpc, wpc, woken>>

\* TurnSignal::claim(CANCELLED): refused only by a completed turn.
ClaimCancel(c) ==
    /\ cpc[c] = "read"
    /\ IF outcome[target[c]] = "completed"
       THEN cpc' = [cpc EXCEPT ![c] = "declined"] /\ UNCHANGED outcome
       ELSE /\ outcome' = [outcome EXCEPT ![target[c]] = "cancelled"]
            /\ cpc' = [cpc EXCEPT ![c] = IF seen[c] THEN "notifying" ELSE "won"]
    /\ UNCHANGED <<mutationActive, active, notified, session, status, ppc, claimed, term,
                   target, seen, lifecycle, admission, mpc, kpc, wpc, woken>>

EmitCancelling(c) ==
    /\ cpc[c] = "won"
    /\ status' = "cancelling"
    /\ cpc' = [cpc EXCEPT ![c] = "notifying"]
    /\ UNCHANGED <<mutationActive, active, outcome, notified, session, ppc, claimed, term,
                   target, seen, lifecycle, admission, mpc, kpc, wpc, woken>>

\* Mutant: the notification is lost when the turn does not wait yet.
BugNotifyTurn(c) ==
    /\ cpc[c] = "notifying"
    /\ notified' = [notified EXCEPT ![target[c]] = ppc[target[c]] = "staged"]
    /\ cpc' = [cpc EXCEPT ![c] = "accepted"]
    /\ UNCHANGED <<mutationActive, active, outcome, session, status, ppc, claimed, term,
                   target, seen, lifecycle, admission, mpc, kpc, wpc, woken>>

\* notify_one stores a permit when nobody waits yet.
NotifyTurn(c) ==
    /\ cpc[c] = "notifying"
    /\ notified' = [notified EXCEPT ![target[c]] = TRUE]
    /\ cpc' = [cpc EXCEPT ![c] = "accepted"]
    /\ UNCHANGED <<mutationActive, active, outcome, session, status, ppc, claimed, term,
                   target, seen, lifecycle, admission, mpc, kpc, wpc, woken>>

-----------------------------------------------------------------------------
(* clear_history.                                                           *)

ClearAdmitted(m) ==
    /\ mpc[m] = "idle"
    /\ TakeAdmission(m)
    /\ mpc' = [mpc EXCEPT ![m] = "admitted"]
    /\ UNCHANGED <<turnVars, cancelVars, lifecycle, kpc, wpc, woken>>

\* SessionMutationPermit::acquire.
AcquirePermit(m) ==
    /\ mpc[m] = "admitted"
    /\ mutationActive' = TRUE
    /\ IF mutationActive
       THEN mpc' = [mpc EXCEPT ![m] = "refused"] /\ LeaveAdmission(m)
       ELSE mpc' = [mpc EXCEPT ![m] = "permit"] /\ UNCHANGED admission
    /\ UNCHANGED <<active, outcome, notified, session, status, ppc, claimed, term,
                   cancelVars, lifecycle, kpc, wpc, woken>>

\* Both turn checks: an active turn makes the call return Busy, dropping what
\* it holds.
ClearRefused(m) ==
    /\ mpc' = [mpc EXCEPT ![m] = "refused"]
    /\ mutationActive' = FALSE
    /\ lifecycle' = IF lifecycle = m THEN NoOne ELSE lifecycle
    /\ LeaveAdmission(m)

ClearChecksTurn(m) ==
    /\ mpc[m] = "permit"
    /\ IF active # NoOne
       THEN ClearRefused(m)
       ELSE mpc' = [mpc EXCEPT ![m] = "unlocked"] /\ UNCHANGED <<mutationActive, lifecycle, admission>>
    /\ UNCHANGED <<active, outcome, notified, session, status, ppc, claimed, term,
                   cancelVars, kpc, wpc, woken>>

ClearLocksLifecycle(m) ==
    /\ mpc[m] = "unlocked"
    /\ lifecycle = NoOne
    /\ lifecycle' = m
    /\ mpc' = [mpc EXCEPT ![m] = "locked"]
    /\ UNCHANGED <<turnVars, cancelVars, admission, kpc, wpc, woken>>

ClearRechecksTurn(m) ==
    /\ mpc[m] = "locked"
    /\ IF active # NoOne
       THEN ClearRefused(m)
       ELSE mpc' = [mpc EXCEPT ![m] = "session"] /\ UNCHANGED <<mutationActive, lifecycle, admission>>
    /\ UNCHANGED <<active, outcome, notified, session, status, ppc, claimed, term,
                   cancelVars, kpc, wpc, woken>>

\* History, client ids and outcomes are cleared under the session lock, ...
ClearHistory(m) ==
    /\ mpc[m] = "session"
    /\ session = NoOne
    /\ mpc' = [mpc EXCEPT ![m] = "clearing"]
    /\ UNCHANGED <<turnVars, cancelVars, lifecycle, admission, kpc, wpc, woken>>

\* ... then persisted and announced; the permit and the locks are dropped.
ClearDone(m) ==
    /\ mpc[m] = "clearing"
    /\ mutationActive' = FALSE
    /\ lifecycle' = NoOne
    /\ LeaveAdmission(m)
    /\ mpc' = [mpc EXCEPT ![m] = "done"]
    /\ UNCHANGED <<active, outcome, notified, session, status, ppc, claimed, term,
                   cancelVars, kpc, wpc, woken>>

-----------------------------------------------------------------------------
(* apply_runtime_option: no permit, the same two turn checks.               *)

\* Only the daemon's SetConfig calls it.
ConfigAdmitted(k) ==
    /\ kpc[k] = "idle" /\ admission # Unused
    /\ TakeAdmission(k)
    /\ kpc' = [kpc EXCEPT ![k] = "admitted"]
    /\ UNCHANGED <<turnVars, cancelVars, lifecycle, mpc, wpc, woken>>

ConfigRefused(k) ==
    /\ kpc' = [kpc EXCEPT ![k] = "refused"]
    /\ lifecycle' = IF lifecycle = k THEN NoOne ELSE lifecycle
    /\ LeaveAdmission(k)

ConfigChecksTurn(k) ==
    /\ kpc[k] = "admitted"
    /\ IF active # NoOne
       THEN ConfigRefused(k)
       ELSE kpc' = [kpc EXCEPT ![k] = "unlocked"] /\ UNCHANGED <<lifecycle, admission>>
    /\ UNCHANGED <<turnVars, cancelVars, mpc, wpc, woken>>

ConfigLocksLifecycle(k) ==
    /\ kpc[k] = "unlocked"
    /\ lifecycle = NoOne
    /\ lifecycle' = k
    /\ kpc' = [kpc EXCEPT ![k] = "locked"]
    /\ UNCHANGED <<turnVars, cancelVars, admission, mpc, wpc, woken>>

ConfigRechecksTurn(k) ==
    /\ kpc[k] = "locked"
    /\ IF active # NoOne
       THEN ConfigRefused(k)
       ELSE kpc' = [kpc EXCEPT ![k] = "session"] /\ UNCHANGED <<lifecycle, admission>>
    /\ UNCHANGED <<turnVars, cancelVars, mpc, wpc, woken>>

\* The model or thinking level changes under the session lock, ...
ApplyOption(k) ==
    /\ kpc[k] = "session"
    /\ session = NoOne
    /\ kpc' = [kpc EXCEPT ![k] = "applying"]
    /\ UNCHANGED <<turnVars, cancelVars, lifecycle, admission, mpc, wpc, woken>>

\* ... unless the provider refuses it (prepare_model, ThinkingLevel::from_input);
OptionFails(k) ==
    /\ kpc[k] = "session"
    /\ session = NoOne
    /\ ConfigRefused(k)
    /\ UNCHANGED <<turnVars, cancelVars, mpc, wpc, woken>>

\* a change is persisted and announced, the locks are dropped.
ConfigDone(k) ==
    /\ kpc[k] = "applying"
    /\ lifecycle' = NoOne
    /\ LeaveAdmission(k)
    /\ kpc' = [kpc EXCEPT ![k] = "done"]
    /\ UNCHANGED <<turnVars, cancelVars, mpc, wpc, woken>>

-----------------------------------------------------------------------------
(* wait_idle: enable the notification, then look, then wait.                *)

EnableWait(w) ==
    /\ wpc[w] = "idle" \/ (wpc[w] = "await" /\ woken[w])
    /\ wpc' = [wpc EXCEPT ![w] = "enabled"]
    /\ woken' = [woken EXCEPT ![w] = FALSE]
    /\ UNCHANGED <<turnVars, cancelVars, lifecycle, admission, mpc, kpc>>

CheckIdle(w) ==
    /\ wpc[w] = "enabled"
    /\ wpc' = [wpc EXCEPT ![w] = IF active = NoOne THEN "done" ELSE "await"]
    /\ UNCHANGED <<turnVars, cancelVars, lifecycle, admission, mpc, kpc, woken>>

-----------------------------------------------------------------------------
\* Steps of a prompt task that the runtime schedules; Finish and Abandon
\* depend on the provider and the tools.
PromptStep(p) ==
    \/ PromptAdmitted(p)
    \/ CheckMutation(p)
    \/ TakeSlot(p)
    \/ RecheckMutation(p)
    \/ EmitRunning(p)
    \/ Stage(p)
    \/ Interrupted(p)
    \/ TerminalSave(p)
    \/ ReadTerminal(p)
    \/ EmitTerminal(p)
    \/ ReleaseSlot(p)

CancelStep(c) ==
    \/ ReadSlot(c)
    \/ ReadCancelled(c)
    \/ ClaimCancel(c)
    \/ EmitCancelling(c)
    \/ NotifyTurn(c)

ClearStep(m) ==
    \/ ClearAdmitted(m)
    \/ AcquirePermit(m)
    \/ ClearChecksTurn(m)
    \/ ClearLocksLifecycle(m)
    \/ ClearRechecksTurn(m)
    \/ ClearHistory(m)
    \/ ClearDone(m)

ConfigStep(k) ==
    \/ ConfigAdmitted(k)
    \/ ConfigChecksTurn(k)
    \/ ConfigLocksLifecycle(k)
    \/ ConfigRechecksTurn(k)
    \/ ApplyOption(k)
    \/ OptionFails(k)
    \/ ConfigDone(k)

WaitStep(w) == EnableWait(w) \/ CheckIdle(w)

Next ==
    \/ \E p \in Prompts : PromptStep(p) \/ Finish(p) \/ Abandon(p)
    \/ \E c \in Cancellers : CancelStep(c)
    \/ \E m \in Clearers : ClearStep(m)
    \/ \E k \in Configurers : ConfigStep(k)
    \/ \E w \in Waiters : WaitStep(w)

Spec == Init /\ [][Next]_vars

\* Tokio keeps polling every task that can run.  Nothing obliges a provider
\* or a tool to answer, so Finish and Abandon are not fair.
Fairness ==
    /\ \A p \in Prompts : WF_vars(PromptStep(p))
    /\ \A c \in Cancellers : WF_vars(CancelStep(c))
    /\ \A m \in Clearers : WF_vars(ClearStep(m))
    /\ \A k \in Configurers : WF_vars(ConfigStep(k))
    /\ \A w \in Waiters : WF_vars(WaitStep(w))

FairSpec == Spec /\ Fairness

-----------------------------------------------------------------------------
(* Properties.                                                              *)

HasTurn(p) == ppc[p] \in {"granted", "running", "staged", "saving", "ending", "emitting", "releasing"}

\* A turn has the core to itself: no other prompt runs one and the slot names it
\* (ADR-010 D6), history is not cleared under it (the two-claim protocol of begin_turn
\* and clear_history, also without the admission lock), and no option changes under it
\* (apply_runtime_option takes no permit and relies on the daemon's admission lock).
TurnIsAlone ==
    \A p \in Prompts : HasTurn(p) =>
        /\ active = p
        /\ \A m \in Clearers : mpc[m] # "clearing"
        /\ \A k \in Configurers : kpc[k] # "applying"

\* The claim decides: a turn that reached mark_completed shows Cancelled
\* exactly if a cancel was accepted, Idle exactly if completion won.
TerminalMatchesClaim ==
    \A p \in Prompts : ppc[p] \in {"releasing", "done"} /\ claimed[p] =>
        (term[p] = "cancelled") = (outcome[p] = "cancelled")

\* An accepted cancel is never lost: a turn whose outcome is claimed by a
\* canceller ends although its provider never answers.
CancelEndsTurn == \A p \in Prompts : outcome[p] = "cancelled" /\ HasTurn(p) ~> ~HasTurn(p)

\* wait_idle misses no wake-up: once the slot stays free the drain returns.
WaitIdleReturns == \A w \in Waiters : (<>[](active = NoOne)) => (wpc[w] = "await" ~> wpc[w] = "done")
=============================================================================
