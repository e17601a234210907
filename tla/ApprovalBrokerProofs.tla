------------------------ MODULE ApprovalBrokerProofs ------------------------
(***************************************************************************)
(* Proofs about ApprovalBroker, for any number of tool calls and clients   *)
(* and either front end.                                                   *)
(*                                                                         *)
(* The argument: the resolution of an approval is in one place at a time.  *)
(* It goes from the pending map to the unemitted map, from there to the    *)
(* waiting prompt or to one clean-up, and from either to the event; each   *)
(* move takes it away under the broker's lock.                             *)
(***************************************************************************)
EXTENDS ApprovalBroker, TLAPS

-----------------------------------------------------------------------------
(* The inductive invariant.                                                 *)

\* Calls the turn's task has not begun or is done with, and calls whose
\* approval may still be pending.
Over == {"idle", "done", "dropped"}
Asking == {"registered", "announcing", "dropped"} \cup Waiting

\* The decision that reached the oneshot channel is in one place at most.
OnePlace ==
    \A c \in Calls :
        /\ c \in pending => mail[c] = "none"
        /\ unemitted[c] # "none" =>
             /\ unemitted[c] = mail[c] /\ announced[c] = "none"
             /\ \A x \in Cleaners : outbox[x][c] = "none"
        /\ \A x \in Cleaners : outbox[x][c] # "none" =>
             /\ outbox[x][c] = mail[c] /\ announced[c] = "none"
             /\ \A y \in Cleaners : y # x => outbox[y][c] = "none"
        /\ announced[c] # "none" => announced[c] = mail[c]

\* What the place in request_approval says of the approval.
PathInv ==
    \A c \in Calls :
        /\ c \in pending => pc[c] \in Asking
        /\ pc[c] \in {"idle", "reserved"} => mail[c] = "none"
        /\ pc[c] = "got" => mail[c] # "none"
        /\ pc[c] \in {"allowed", "executing"} => mail[c] # "deny"

\* A tool call is active until it has its terminal event.
ToolInv ==
    /\ repeats = FALSE
    /\ active \cap finished = {}
    /\ \A c \in Calls : pc[c] = "idle" => c \notin active \cup finished

\* The turn's task runs one call or its clean-up; a clean-up that does not
\* emit holds no resolution.
TaskInv ==
    /\ \A c, d \in Calls : c # d => pc[c] \in Over \/ pc[d] \in Over
    /\ clean["turn"] # "idle" => \A c \in Calls : pc[c] \in Over
    /\ \A x \in Cleaners : clean[x] # "emitting" => outbox[x] = NoneYet

\* Without a deadline no resolution is discarded, and a call that goes on
\* after its answer has left none behind.
AcpInv ==
    frontend = "acp" =>
        \A c \in Calls :
            /\ pc[c] \notin {"loop", "enabled", "eligible", "ineligible", "timing", "denying"}
            /\ mail[c] # "none" =>
                 \/ unemitted[c] # "none" \/ announced[c] # "none"
                 \/ \E x \in Cleaners : outbox[x][c] # "none"
            /\ pc[c] \in {"allowed", "denied", "executing", "done"} =>
                 unemitted[c] = "none" /\ outbox["turn"][c] = "none"

ApprovalInv == TypeOK /\ OnePlace /\ PathInv /\ ToolInv /\ TaskInv /\ AcpInv

-----------------------------------------------------------------------------
(* Its proof.                                                               *)

\* No approval has been asked for yet.
LEMMA ApprovalInit == Init => ApprovalInv
<1> SUFFICES ASSUME Init PROVE ApprovalInv
    OBVIOUS
<1> USE DEF Init, Pcs, Decisions, MaybeDecision, Cleaners, NoneYet
<1>1. TypeOK
    BY DEF TypeOK
<1>2. OnePlace /\ PathInv
    BY DEF OnePlace, PathInv
<1>3. ToolInv /\ TaskInv
    BY DEF ToolInv, TaskInv, Over
<1>4. AcpInv
    BY DEF AcpInv
<1> QED
    BY <1>1, <1>2, <1>3, <1>4 DEF ApprovalInv

\* No step breaks the invariant: one case for each action.
LEMMA ApprovalStep == ApprovalInv /\ [Next]_vars => ApprovalInv'
<1> SUFFICES ASSUME ApprovalInv, [Next]_vars PROVE ApprovalInv'
    OBVIOUS
<1> USE ApprovalAssumption
        DEF ApprovalInv, TypeOK, OnePlace, PathInv, ToolInv, TaskInv, AcpInv, Over,
            Asking, Waiting, Goto, Resolve, Tell, Show, EnableNotified,
            HasEligibleClient, ChangeClients, MayDecide, Pcs, Decisions, MaybeDecision,
            Cleaners, NoneYet, brokerVars, waitVars, clientVars, eventVars, cleanVars
<1>1. ASSUME NEW c \in Calls, Reserve(c) PROVE ApprovalInv'
    BY <1>1 DEF Reserve
<1>2. ASSUME NEW c \in Calls, GateWithoutApproval(c) PROVE ApprovalInv'
    BY <1>2 DEF GateWithoutApproval
<1>3. ASSUME NEW c \in Calls, Register(c) PROVE ApprovalInv'
    BY <1>3 DEF Register
<1>4. ASSUME NEW c \in Calls, Announce(c) PROVE ApprovalInv'
    BY <1>4 DEF Announce
<1>5. ASSUME NEW c \in Calls, AnnounceFails(c) PROVE ApprovalInv'
    BY <1>5 DEF AnnounceFails
<1>6. ASSUME NEW c \in Calls, DiscardUnemitted(c) PROVE ApprovalInv'
    BY <1>6 DEF DiscardUnemitted
<1>7. ASSUME NEW c \in Calls, TryReceive(c) PROVE ApprovalInv'
    BY <1>7 DEF TryReceive
<1>8. ASSUME NEW c \in Calls, ReadEligibility(c) PROVE ApprovalInv'
    BY <1>8 DEF ReadEligibility
<1>9. ASSUME NEW c \in Calls, Receive(c) PROVE ApprovalInv'
    BY <1>9 DEF Receive
<1>10. ASSUME NEW c \in Calls, Reconsider(c) PROVE ApprovalInv'
    BY <1>10 DEF Reconsider
<1>11. ASSUME NEW c \in Calls, DeadlineFires(c) PROVE ApprovalInv'
    BY <1>11 DEF DeadlineFires
<1>12. ASSUME NEW c \in Calls, TimeoutResolve(c) PROVE ApprovalInv'
    BY <1>12 DEF TimeoutResolve
<1>13. ASSUME NEW c \in Calls, Conclude(c) PROVE ApprovalInv'
    BY <1>13 DEF Conclude
<1>14. ASSUME NEW c \in Calls, Start(c) PROVE ApprovalInv'
    BY <1>14 DEF Start
<1>15. ASSUME NEW c \in Calls, TimePasses(c) PROVE ApprovalInv'
    BY <1>15 DEF TimePasses
<1>16. ASSUME NEW c \in Calls, Finish(c) PROVE ApprovalInv'
    BY <1>16 DEF Finish
<1>17. ASSUME NEW c \in Calls, DropTurn(c) PROVE ApprovalInv'
    BY <1>17 DEF DropTurn
<1>18. ASSUME NEW x \in Cleaners, CancelAll(x) PROVE ApprovalInv'
    <2>1. TypeOK'
        BY <1>18 DEF CancelAll
    <2>2. OnePlace'
        BY <1>18 DEF CancelAll
    <2>3. PathInv' /\ ToolInv'
        BY <1>18 DEF CancelAll
    <2>4. TaskInv'
        BY <1>18 DEF CancelAll
    <2>5. AcpInv'
        BY <1>18 DEF CancelAll
    <2> QED
        BY <2>1, <2>2, <2>3, <2>4, <2>5
<1>19. ASSUME NEW x \in Cleaners, AnnounceCancelled(x) PROVE ApprovalInv'
    BY <1>19 DEF AnnounceCancelled
<1>20. ASSUME NEW x \in Cleaners, CancelTools(x) PROVE ApprovalInv'
    BY <1>20 DEF CancelTools
<1>21. CASE DaemonCleansUp
    BY <1>21 DEF DaemonCleansUp
<1>22. CASE NotifyWaiters
    <2>1. TypeOK'
        BY <1>22 DEF NotifyWaiters
    <2>2. OnePlace' /\ PathInv' /\ ToolInv' /\ TaskInv' /\ AcpInv'
        BY <1>22 DEF NotifyWaiters
    <2> QED
        BY <2>1, <2>2
<1>23. ASSUME NEW k \in Clients, Attach(k) PROVE ApprovalInv'
    BY <1>23 DEF Attach
<1>24. ASSUME NEW k \in Clients, Detach(k) PROVE ApprovalInv'
    BY <1>24 DEF Detach
<1>25. ASSUME NEW k \in Clients, NEW c \in Calls, NEW decision \in Decisions,
              Respond(k, c, decision)
       PROVE  ApprovalInv'
    BY <1>25 DEF Respond
<1>26. CASE UNCHANGED vars
    BY <1>26 DEF vars
<1> HIDE DEF ApprovalInv
<1> QED
    BY <1>1, <1>2, <1>3, <1>4, <1>5, <1>6, <1>7, <1>8, <1>9, <1>10, <1>11,
       <1>12, <1>13, <1>14, <1>15, <1>16, <1>17, <1>18, <1>19, <1>20, <1>21, <1>22,
       <1>23, <1>24, <1>25, <1>26
       DEF Next, CallStep, CleanStep

\* Every behaviour keeps the inductive invariant.
LEMMA ApprovalIsInvariant == Spec => []ApprovalInv
    BY ApprovalInit, ApprovalStep, PTL DEF Spec

-----------------------------------------------------------------------------
(* The theorems.                                                            *)

\* The broker's maps, the channels and the tool lifecycle keep their types.
THEOREM ApprovalTypeCorrect == Spec => []TypeOK
<1>1. ApprovalInv => TypeOK
    BY DEF ApprovalInv
<1> QED
    BY <1>1, ApprovalIsInvariant, PTL

\* take_unemitted, ApprovalBroker::cancel_all and CanonicalToolLifecycle::finish:
\* an approval is announced once and a tool call has one terminal event, whoever
\* of the prompt and the two clean-ups comes first.
THEOREM AnnouncedOnce == Spec => []NoRepeatedEvent
<1>1. ApprovalInv => NoRepeatedEvent
    BY DEF ApprovalInv, ToolInv, NoRepeatedEvent
<1> QED
    BY <1>1, ApprovalIsInvariant, PTL

\* request_approval: a call that asked and was denied never runs, and no call
\* runs under another decision than the announced one.
THEOREM NoCallRunsDenied == Spec => []RunsAsAnnounced
<1>1. ApprovalInv => RunsAsAnnounced
    BY DEF ApprovalInv, OnePlace, PathInv, RunsAsAnnounced
<1> QED
    BY <1>1, ApprovalIsInvariant, PTL

\* With the broker ACP makes, every resolved approval of a finished call was
\* announced: neither race partner drops the resolution it took.
THEOREM AcpHearsEveryResolution == Spec => []ResolvedIsAnnouncedToAcp
<1>1. ApprovalInv => ResolvedIsAnnouncedToAcp
    <2> SUFFICES ASSUME ApprovalInv, frontend = "acp", NEW c \in Calls, pc[c] = "done",
                        mail[c] # "none", clean["daemon"] \in {"idle", "finished"}
                 PROVE  announced[c] # "none"
        BY DEF ResolvedIsAnnouncedToAcp
    <2>1. unemitted[c] = "none" /\ outbox["turn"][c] = "none"
        BY DEF ApprovalInv, AcpInv
    <2>2. outbox["daemon"][c] = "none"
        BY DEF ApprovalInv, TaskInv, Cleaners, NoneYet
    <2> QED
        BY <2>1, <2>2 DEF ApprovalInv, AcpInv, Cleaners
<1> QED
    BY <1>1, ApprovalIsInvariant, PTL

=============================================================================
