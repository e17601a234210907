--------------------------- MODULE ApprovalBroker ---------------------------
(***************************************************************************)
(* Tool approvals of one session (session_core.rs): ApprovalBroker,        *)
(* request_approval with its ineligibility deadline, CanonicalToolLifecycle*)
(* and cleanup_cancelled_turn, with the clients whose attachment makes an  *)
(* approval answerable (session_daemon.rs attach_internal, drop).          *)
(*                                                                         *)
(* The agent loop runs its tool calls one after the other; each call has   *)
(* one approval, so a call names its approval id.  All calls use one tool. *)
(* An answer nobody awaits any more (AlreadyResolved, missing capability)  *)
(* changes nothing and is left out.                                        *)
(***************************************************************************)
EXTENDS Naturals, FiniteSets

CONSTANTS
    Calls,          \* tool calls, in the order the agent loop issues them
    Clients,
    OnceClients,    \* clients attached with ApproveOnce
    AlwaysClients,  \* clients attached with ApproveAlways
    AllowAlways,    \* ApprovalBroker.allow_always
    Frontends       \* "daemon": new_with_timeout, and a subscriber may panic while an
                    \* event is delivered; "acp": new

ASSUME ApprovalAssumption ==
    /\ OnceClients \subseteq Clients
    /\ AlwaysClients \subseteq Clients
    /\ AllowAlways \in BOOLEAN
    /\ Frontends \subseteq {"daemon", "acp"}

VARIABLES
    pc,          \* where the hook of each call is
    pending,     \* ApprovalState.pending
    mail,        \* the oneshot channel of each approval: "none" while empty
    unemitted,   \* ApprovalState.unemitted: resolution not yet announced
    deadline,    \* ineligible_deadline: none, set, or passed
    shown,       \* the deadline state shown in the pending request
    enabled,     \* calls whose eligibility_changed notification is enabled
    woken,       \* ... and has fired
    attached,    \* clients attached to the session
    eligible,    \* the broker's two counters, as "is positive"
    stale,       \* set_eligible_client_counts stored but has not notified yet
    remembered,  \* SafetyPolicy::remember_always of the tool
    active,      \* CanonicalToolLifecycle.active
    announced,   \* ghost: the decisions announced by ApprovalResolved
    repeats,     \* ghost: an approval or tool call was announced twice
    finished,    \* calls with a ToolCallFinished event
    frontend,      \* who made the broker
    clean, outbox  \* cleanup_cancelled_turn by the turn's task and by the daemon

brokerVars == <<pending, mail, unemitted>>
waitVars == <<deadline, shown, enabled, woken>>
clientVars == <<attached, eligible, stale>>
eventVars == <<announced, repeats, finished>>
cleanVars == <<clean, outbox, frontend>>
vars == <<pc, brokerVars, waitVars, clientVars, remembered, active, eventVars, cleanVars>>

Decisions == {"once", "always", "deny"}
MaybeDecision == Decisions \cup {"none"}
Cleaners == {"turn", "daemon"}
Pcs == {"idle", "reserved", "registered", "announcing", "loop", "enabled", "eligible", "ineligible",
        "timing", "receiver", "got", "denying", "allowed", "denied", "executing", "done", "dropped"}
Waiting == {"loop", "enabled", "eligible", "ineligible", "timing", "receiver"}

TypeOK ==
    /\ pc \in [Calls -> Pcs]
    /\ pending \subseteq Calls
    /\ mail \in [Calls -> MaybeDecision]
    /\ unemitted \in [Calls -> MaybeDecision]
    /\ deadline \in [Calls -> {"none", "set", "passed"}]
    /\ shown \in [Calls -> {"none", "counting", "paused"}]
    /\ enabled \subseteq Calls
    /\ woken \subseteq Calls
    /\ attached \subseteq Clients
    /\ eligible \in [once : BOOLEAN, always : BOOLEAN]
    /\ stale \in BOOLEAN
    /\ remembered \in BOOLEAN
    /\ active \subseteq Calls
    /\ announced \in [Calls -> MaybeDecision]
    /\ repeats \in BOOLEAN
    /\ finished \subseteq Calls
    /\ frontend \in Frontends
    /\ clean \in [Cleaners -> {"idle", "approvals", "emitting", "finished"}]
    /\ outbox \in [Cleaners -> [Calls -> MaybeDecision]]

NoneYet == [c \in Calls |-> "none"]

Init ==
    /\ pc = [c \in Calls |-> "idle"]
    /\ pending = {}
    /\ mail = NoneYet
    /\ unemitted = NoneYet
    /\ deadline = NoneYet
    /\ shown = NoneYet
    /\ enabled = {}
    /\ woken = {}
    /\ attached = {}
    /\ eligible = [once |-> FALSE, always |-> FALSE]
    /\ stale = FALSE
    /\ remembered \in BOOLEAN   \* an earlier call may have been allowed always
    /\ active = {}
    /\ announced = NoneYet
    /\ repeats = FALSE
    /\ finished = {}
    /\ frontend \in Frontends
    /\ clean = [x \in Cleaners |-> "idle"]
    /\ outbox = [x \in Cleaners |-> NoneYet]

Goto(c, l) == pc' = [pc EXCEPT ![c] = l]

-----------------------------------------------------------------------------
(* The tool lifecycle up to the approval.                                   *)

\* CanonicalToolLifecycle::reserve, once the previous call and its clean-up
\* are over.
Reserve(c) ==
    /\ pc[c] = "idle"
    /\ \A d \in Calls : pc[d] \in {"idle", "done", "dropped"}
    /\ clean["turn"] = "idle"
    /\ active' = active \cup {c}
    /\ Goto(c, "reserved")
    /\ UNCHANGED <<brokerVars, waitVars, clientVars, remembered, eventVars, cleanVars>>

\* SafetyPolicy::gate allows the tool (remembered) or blocks it by policy.
GateWithoutApproval(c) ==
    /\ pc[c] = "reserved"
    /\ Goto(c, IF remembered THEN "allowed" ELSE "denied")
    /\ UNCHANGED <<brokerVars, waitVars, clientVars, remembered, active, eventVars, cleanVars>>

\* ApprovalBroker::register.
Register(c) ==
    /\ pc[c] = "reserved"
    /\ ~remembered
    /\ pending' = pending \cup {c}
    /\ Goto(c, "registered")
    /\ UNCHANGED <<mail, unemitted, waitVars, clientVars, remembered, active, eventVars, cleanVars>>

\* The WaitingForApproval status, then ApprovalRequested, are emitted.
Announce(c) ==
    /\ \/ pc[c] = "registered" /\ Goto(c, "announcing")
       \/ pc[c] = "announcing" /\ Goto(c, IF frontend = "daemon" THEN "loop" ELSE "receiver")
    /\ UNCHANGED <<brokerVars, waitVars, clientVars, remembered, active, eventVars, cleanVars>>

\* ApprovalBroker::resolve of a pending approval.
Resolve(c, decision) ==
    /\ pending' = pending \ {c}
    /\ mail' = [mail EXCEPT ![c] = decision]
    /\ unemitted' = [unemitted EXCEPT ![c] = decision]

\* One of the two events fails: deny_failed_approval denies what is still
\* pending, ...
AnnounceFails(c) ==
    /\ frontend = "daemon"
    /\ pc[c] \in {"registered", "announcing"}
    /\ IF c \in pending THEN Resolve(c, "deny") ELSE UNCHANGED brokerVars
    /\ Goto(c, "denying")
    /\ UNCHANGED <<waitVars, clientVars, remembered, active, eventVars, cleanVars>>

\* ... discards the resolution and blocks the call.
DiscardUnemitted(c) ==
    /\ pc[c] = "denying"
    /\ unemitted' = [unemitted EXCEPT ![c] = "none"]
    /\ Goto(c, "denied")
    /\ UNCHANGED <<pending, mail, waitVars, clientVars, remembered, active, eventVars, cleanVars>>

-----------------------------------------------------------------------------
(* The wait loop of request_approval.                                       *)

\* Mutant: the notification is only enabled by a later poll.
BugEnableNotified(c) == enabled' = enabled /\ woken' = woken \ {c}

\* try_recv, then enable the notification before eligibility is read.
EnableNotified(c) == enabled' = enabled \cup {c} /\ woken' = woken \ {c}

TryReceive(c) ==
    /\ pc[c] = "loop"
    /\ IF mail[c] # "none"
       THEN Goto(c, "got") /\ UNCHANGED <<enabled, woken>>
       ELSE Goto(c, "enabled") /\ EnableNotified(c)
    /\ UNCHANGED <<brokerVars, deadline, shown, clientVars, remembered, active, eventVars, cleanVars>>

HasEligibleClient(c) ==
    c \in pending /\ (eligible.once \/ (AllowAlways /\ eligible.always))

\* Mutant: the deadline itself is shown.
BugShow(c, state) == shown' = IF c \in pending THEN [shown EXCEPT ![c] = deadline[c]] ELSE shown

\* update_deadline changes a request only while it is pending.
Show(c, state) == shown' = IF c \in pending THEN [shown EXCEPT ![c] = state] ELSE shown

\* An eligible client pauses a deadline already set; without one the deadline
\* is set once, at the first ineligibility, and counts.
ReadEligibility(c) ==
    /\ pc[c] = "enabled"
    /\ IF HasEligibleClient(c)
       THEN /\ Goto(c, "eligible")
            /\ IF deadline[c] = "none" THEN UNCHANGED shown ELSE Show(c, "paused")
            /\ UNCHANGED deadline
       ELSE /\ Goto(c, "ineligible")
            /\ Show(c, "counting")
            /\ deadline' = [deadline EXCEPT ![c] = IF @ = "none" THEN "set" ELSE @]
    /\ UNCHANGED <<brokerVars, enabled, woken, clientVars, remembered, active, eventVars, cleanVars>>

\* The biased select: a resolution first ...
Receive(c) ==
    /\ pc[c] \in {"eligible", "ineligible", "receiver"}
    /\ mail[c] # "none"
    /\ Goto(c, "got")
    /\ enabled' = enabled \ {c}
    /\ UNCHANGED <<brokerVars, deadline, shown, woken, clientVars, remembered, active, eventVars, cleanVars>>

\* ... then a change of eligibility ...
Reconsider(c) ==
    /\ pc[c] \in {"eligible", "ineligible"}
    /\ mail[c] = "none"
    /\ c \in woken
    /\ Goto(c, "loop")
    /\ enabled' = enabled \ {c}
    /\ UNCHANGED <<brokerVars, deadline, shown, woken, clientVars, remembered, active, eventVars, cleanVars>>

\* ... then the deadline, whose branch resolves in a later lock section.
DeadlineFires(c) ==
    /\ pc[c] = "ineligible"
    /\ mail[c] = "none"
    /\ c \notin woken
    /\ deadline[c] = "passed"
    /\ Goto(c, "timing")
    /\ enabled' = enabled \ {c}
    /\ UNCHANGED <<brokerVars, deadline, shown, woken, clientVars, remembered, active, eventVars, cleanVars>>

\* resolve by "approval_timeout"; an approval answered in between reports
\* AlreadyResolved, which request_approval returns as an error.
TimeoutResolve(c) ==
    /\ pc[c] = "timing"
    /\ IF c \in pending
       THEN Resolve(c, "deny") /\ Goto(c, "got")
       ELSE UNCHANGED brokerVars /\ Goto(c, "denied")
    /\ UNCHANGED <<waitVars, clientVars, remembered, active, eventVars, cleanVars>>

TimePasses(c) ==
    /\ deadline[c] = "set"
    /\ pc[c] \in Waiting
    /\ deadline' = [deadline EXCEPT ![c] = "passed"]
    /\ UNCHANGED <<pc, brokerVars, shown, enabled, woken, clientVars, remembered, active, eventVars, cleanVars>>

-----------------------------------------------------------------------------
(* The resolution is announced and acted on.                                *)

\* ApprovalResolved for c: a second one is a repeat.
Tell(c, decision) ==
    /\ announced' = [announced EXCEPT ![c] = decision]
    /\ repeats' = (repeats \/ announced[c] # "none")

\* Mutant: the waiting prompt leaves the announcement to the clean-up.
BugConclude(c) ==
    /\ pc[c] = "got"
    /\ unemitted' = [unemitted EXCEPT ![c] = "none"]
    /\ remembered' = (remembered \/ mail[c] = "always")
    /\ Goto(c, IF mail[c] = "deny" THEN "denied" ELSE "allowed")
    /\ UNCHANGED <<pending, mail, waitVars, clientVars, active, announced, repeats, finished, cleanVars>>

\* take_unemitted, ApprovalResolved, Running, then the decision is applied.
Conclude(c) ==
    /\ pc[c] = "got"
    /\ IF unemitted[c] # "none" THEN Tell(c, unemitted[c]) ELSE UNCHANGED <<announced, repeats>>
    /\ unemitted' = [unemitted EXCEPT ![c] = "none"]
    /\ remembered' = (remembered \/ mail[c] = "always")
    /\ Goto(c, IF mail[c] = "deny" THEN "denied" ELSE "allowed")
    /\ UNCHANGED <<pending, mail, waitVars, clientVars, active, finished, cleanVars>>

Start(c) ==
    /\ pc[c] = "allowed"
    /\ Goto(c, "executing")
    /\ UNCHANGED <<brokerVars, waitVars, clientVars, remembered, active, eventVars, cleanVars>>

\* CanonicalToolLifecycle::finish: the terminal event belongs to whoever
\* removes the call from the active set.
Finish(c) ==
    /\ pc[c] \in {"denied", "executing"}
    /\ active' = active \ {c}
    /\ finished' = IF c \in active THEN finished \cup {c} ELSE finished
    /\ repeats' = (repeats \/ (c \in active /\ c \in finished))
    /\ Goto(c, "done")
    /\ UNCHANGED <<brokerVars, waitVars, clientVars, remembered, announced, cleanVars>>

\* The cancelled prompt's future is dropped where it waits; the turn's task
\* goes on to clean up.
DropTurn(c) ==
    /\ pc[c] \in {"eligible", "ineligible", "receiver", "executing"}
    /\ Goto(c, "dropped")
    /\ enabled' = enabled \ {c}
    /\ clean' = [clean EXCEPT !["turn"] = "approvals"]
    /\ UNCHANGED <<brokerVars, deadline, shown, woken, clientVars, remembered, active, eventVars, outbox, frontend>>

-----------------------------------------------------------------------------
(* cleanup_cancelled_turn.                                                  *)

\* Stop, shutdown and roll-back run it too, whatever the prompt's task does.
DaemonCleansUp ==
    /\ clean["daemon"] = "idle"
    /\ clean' = [clean EXCEPT !["daemon"] = "approvals"]
    /\ UNCHANGED <<pc, brokerVars, waitVars, clientVars, remembered, active, eventVars, outbox, frontend>>

\* Mutant: what is unemitted is copied, not taken.
BugCopyUnemitted(x) ==
    /\ clean[x] = "approvals"
    /\ outbox' = [outbox EXCEPT ![x] = [c \in Calls |-> IF c \in pending THEN "deny" ELSE unemitted[c]]]
    /\ mail' = [c \in Calls |-> IF c \in pending THEN "deny" ELSE mail[c]]
    /\ pending' = {}
    /\ clean' = [clean EXCEPT ![x] = "emitting"]
    /\ UNCHANGED <<pc, unemitted, waitVars, clientVars, remembered, active, eventVars, frontend>>

\* Mutant: answered approvals are announced as denied.
BugDenyAnswered(x) ==
    /\ clean[x] = "approvals"
    /\ outbox' = [outbox EXCEPT ![x] = [c \in Calls |->
                    IF c \in pending \/ unemitted[c] # "none" THEN "deny" ELSE "none"]]
    /\ mail' = [c \in Calls |-> IF c \in pending THEN "deny" ELSE mail[c]]
    /\ pending' = {}
    /\ unemitted' = NoneYet
    /\ clean' = [clean EXCEPT ![x] = "emitting"]
    /\ UNCHANGED <<pc, waitVars, clientVars, remembered, active, eventVars, frontend>>

\* ApprovalBroker::cancel_all: deny what is pending, take what is unemitted.
CancelAll(x) ==
    /\ clean[x] = "approvals"
    /\ outbox' = [outbox EXCEPT ![x] = [c \in Calls |-> IF c \in pending THEN "deny" ELSE unemitted[c]]]
    /\ mail' = [c \in Calls |-> IF c \in pending THEN "deny" ELSE mail[c]]
    /\ pending' = {}
    /\ unemitted' = NoneYet
    /\ clean' = [clean EXCEPT ![x] = "emitting"]
    /\ UNCHANGED <<pc, waitVars, clientVars, remembered, active, eventVars, frontend>>

\* Mutant: the decision is announced but not applied.
BugAnnounceCancelled(x) ==
    /\ clean[x] = "emitting"
    /\ \E c \in Calls :
        /\ outbox[x][c] # "none"
        /\ Tell(c, outbox[x][c])
        /\ outbox' = [outbox EXCEPT ![x][c] = "none"]
    /\ UNCHANGED <<pc, brokerVars, waitVars, clientVars, remembered, active, finished, clean, frontend>>

\* apply_approval_side_effects and ApprovalResolved, one resolution at a time.
AnnounceCancelled(x) ==
    /\ clean[x] = "emitting"
    /\ \E c \in Calls :
        /\ outbox[x][c] # "none"
        /\ Tell(c, outbox[x][c])
        /\ remembered' = (remembered \/ outbox[x][c] = "always")
        /\ outbox' = [outbox EXCEPT ![x][c] = "none"]
    /\ UNCHANGED <<pc, brokerVars, waitVars, clientVars, active, finished, clean, frontend>>

\* CanonicalToolLifecycle::cancel_all.  The daemon cleans up once.
CancelTools(x) ==
    /\ clean[x] = "emitting"
    /\ outbox[x] = NoneYet
    /\ active' = {}
    /\ finished' = finished \cup active
    /\ repeats' = (repeats \/ finished \cap active # {})
    /\ clean' = [clean EXCEPT ![x] = IF x = "daemon" THEN "finished" ELSE "idle"]
    /\ UNCHANGED <<pc, brokerVars, waitVars, clientVars, remembered, announced, outbox, frontend>>

-----------------------------------------------------------------------------
(* Clients.                                                                 *)

\* attach and detach recount under the client lock: store, then notify.
ChangeClients(set) ==
    /\ ~stale
    /\ attached' = set
    /\ eligible' = [once |-> set \cap OnceClients # {}, always |-> set \cap AlwaysClients # {}]
    /\ stale' = TRUE
    /\ UNCHANGED <<pc, brokerVars, waitVars, remembered, active, eventVars, cleanVars>>

Attach(k) == k \notin attached /\ ChangeClients(attached \cup {k})
Detach(k) == k \in attached /\ ChangeClients(attached \ {k})

\* notify_waiters wakes the notifications enabled now, and keeps no permit.
NotifyWaiters ==
    /\ stale
    /\ stale' = FALSE
    /\ woken' = woken \cup enabled
    /\ UNCHANGED <<pc, brokerVars, deadline, shown, enabled, attached, eligible, remembered, active,
                   eventVars, cleanVars>>

MayDecide(k, decision) ==
    IF decision = "always" THEN k \in AlwaysClients /\ AllowAlways ELSE k \in OnceClients

\* ClientMessage::ApprovalResponse: the first valid answer wins.
Respond(k, c, decision) ==
    /\ k \in attached
    /\ MayDecide(k, decision)
    /\ c \in pending
    /\ Resolve(c, decision)
    /\ UNCHANGED <<pc, waitVars, clientVars, remembered, active, eventVars, cleanVars>>

-----------------------------------------------------------------------------
\* What the turn's task does as soon as it is polled.
CallStep(c) ==
    \/ Reserve(c)
    \/ GateWithoutApproval(c)
    \/ Register(c)
    \/ Announce(c)
    \/ AnnounceFails(c)
    \/ DiscardUnemitted(c)
    \/ TryReceive(c)
    \/ ReadEligibility(c)
    \/ Receive(c)
    \/ Reconsider(c)
    \/ DeadlineFires(c)
    \/ TimeoutResolve(c)
    \/ Conclude(c)
    \/ Start(c)

CleanStep(x) == CancelAll(x) \/ AnnounceCancelled(x) \/ CancelTools(x)

Next ==
    \/ \E c \in Calls : CallStep(c) \/ TimePasses(c) \/ Finish(c) \/ DropTurn(c)
    \/ \E x \in Cleaners : CleanStep(x)
    \/ DaemonCleansUp
    \/ NotifyWaiters
    \/ \E k \in Clients : Attach(k) \/ Detach(k)
    \/ \E k \in Clients, c \in Calls, decision \in Decisions : Respond(k, c, decision)

Spec == Init /\ [][Next]_vars

\* Tasks that can run are polled, time passes; nobody has to attach, answer,
\* cancel, or finish a tool.
FairSpec ==
    /\ Spec
    /\ \A c \in Calls : WF_vars(CallStep(c)) /\ WF_vars(TimePasses(c))
    /\ \A x \in Cleaners : WF_vars(CleanStep(x))
    /\ WF_vars(NotifyWaiters)

-----------------------------------------------------------------------------
(* Properties.                                                              *)

\* At most one ApprovalResolved per approval and one ToolCallFinished per
\* call, although the waiting prompt, the turn's clean-up and the daemon's
\* race to emit them.
NoRepeatedEvent == ~repeats

\* A call that had to ask executes only as it was announced: no subscriber is
\* told "denied" about a call that runs.
RunsAsAnnounced ==
    \A c \in Calls : pc[c] \in {"allowed", "executing"} /\ mail[c] # "none" =>
        mail[c] # "deny" /\ announced[c] \in {"none", mail[c]}

\* Served by the daemon, once no client that could answer stays attached, a waiting call
\* is let go by the deadline: no wake-up on the loss of eligibility is missed.
DeadlineFreesCall ==
    (frontend = "daemon" /\ <>[](attached \cap (OnceClients \cup AlwaysClients) = {})) =>
        \A c \in Calls : pc[c] \in Waiting ~> pc[c] \notin Waiting

\* Served by ACP, an accepted AllowAlways takes effect, also when the turn is cancelled
\* between the answer and its use.
AlwaysTakesEffect == \A c \in Calls : (frontend = "acp" /\ mail[c] = "always") ~> remembered

\* ApprovalState: the prompt and the clean-up "race to take each entry, guaranteeing
\* exactly one `ApprovalResolved` event".  With the broker ACP makes, which has no
\* deadline, a call whose approval was resolved does not end unannounced.
ResolvedIsAnnouncedToAcp ==
    \A c \in Calls :
        /\ frontend = "acp"
        /\ pc[c] = "done" /\ mail[c] # "none" /\ clean["daemon"] \in {"idle", "finished"}
        => announced[c] # "none"
=============================================================================
