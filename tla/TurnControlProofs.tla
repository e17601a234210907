-------------------------- MODULE TurnControlProofs --------------------------
(***************************************************************************)
(* Proofs about TurnControl, for any number of prompts, cancels, clears,   *)
(* option changes and drains, with and without the admission lock.         *)
(*                                                                         *)
(* Three independent arguments: the slot (who is past TurnController::begin *)
(* is named by it), the two claims (a clearer that has seen an empty slot   *)
(* under its permit meets no turn, because a prompt looks at the permit     *)
(* again after it has taken the slot) and the admission lock (which alone   *)
(* keeps options from changing under a turn).                               *)
(***************************************************************************)
EXTENDS TurnControl, TLAPS

\* The slot names the prompt that took it, also before the second look.
HasSlot(p) == ppc[p] = "slot" \/ HasTurn(p)

SlotInv == \A p \in Prompts : HasSlot(p) => active = p

\* At most one clearer holds the mutation permit, and the flag says so.
HoldsPermit(m) == mpc[m] \in {"permit", "unlocked", "locked", "session", "clearing"}

PermitInv ==
    /\ \A m \in Clearers : HoldsPermit(m) => mutationActive
    /\ \A m, n \in Clearers : HoldsPermit(m) /\ HoldsPermit(n) => m = n

\* Once a clearer has seen the slot empty under its permit, no turn is
\* granted until it is done: a prompt may take the slot, but goes no further.
ClearInv ==
    \A m \in Clearers, p \in Prompts :
        mpc[m] \in {"unlocked", "locked", "session", "clearing"} => ~HasTurn(p)

\* Who is between TakeAdmission and LeaveAdmission holds the lock, if there is
\* one; only the daemon changes options.
AdmissionInv ==
    /\ \A p \in Prompts : ppc[p] \in {"admitted", "checked", "slot", "granted"} => admission \in {p, Unused}
    /\ \A k \in Configurers :
        kpc[k] \in {"admitted", "unlocked", "locked", "session", "applying"} => admission = k

\* Once an option change has seen the slot empty under the lock it stays empty.
ConfigInv ==
    \A k \in Configurers : kpc[k] \in {"unlocked", "locked", "session", "applying"} => active = NoOne

TurnInv == TypeOK /\ SlotInv /\ PermitInv /\ ClearInv /\ AdmissionInv /\ ConfigInv

\* A turn that reached mark_completed has a decided outcome, and what
\* SessionTurn::drop has read of it stays true.
ClaimInv ==
    \A p \in Prompts : claimed[p] =>
        /\ outcome[p] # "live"
        /\ ppc[p] \in {"emitting", "releasing", "done"} => term[p] = TerminalStatus(p)
        /\ ppc[p] \in {"saving", "ending", "emitting", "releasing", "done"}

-----------------------------------------------------------------------------
\* The control points and values the actions assign are in their sets.
LEMMA Values ==
    /\ "live" \in Outcomes /\ "completed" \in Outcomes /\ "cancelled" \in Outcomes
    /\ "idle" \in Statuses /\ "running" \in Statuses /\ "cancelling" \in Statuses
    /\ "cancelled" \in Statuses
    /\ "idle" \in PromptPcs /\ "admitted" \in PromptPcs /\ "checked" \in PromptPcs
    /\ "slot" \in PromptPcs /\ "granted" \in PromptPcs /\ "running" \in PromptPcs
    /\ "staged" \in PromptPcs /\ "saving" \in PromptPcs /\ "ending" \in PromptPcs
    /\ "emitting" \in PromptPcs /\ "releasing" \in PromptPcs /\ "done" \in PromptPcs
    /\ "refused" \in PromptPcs
    /\ "idle" \in CancelPcs /\ "holding" \in CancelPcs /\ "read" \in CancelPcs
    /\ "won" \in CancelPcs /\ "notifying" \in CancelPcs /\ "accepted" \in CancelPcs
    /\ "declined" \in CancelPcs
    /\ "idle" \in ClearPcs /\ "admitted" \in ClearPcs /\ "permit" \in ClearPcs
    /\ "unlocked" \in ClearPcs /\ "locked" \in ClearPcs /\ "session" \in ClearPcs
    /\ "clearing" \in ClearPcs /\ "done" \in ClearPcs /\ "refused" \in ClearPcs
    /\ "idle" \in ConfigPcs /\ "admitted" \in ConfigPcs /\ "unlocked" \in ConfigPcs
    /\ "locked" \in ConfigPcs /\ "session" \in ConfigPcs /\ "applying" \in ConfigPcs
    /\ "done" \in ConfigPcs /\ "refused" \in ConfigPcs
    /\ "idle" \in WaitPcs /\ "enabled" \in WaitPcs /\ "await" \in WaitPcs /\ "done" \in WaitPcs
BY DEF Outcomes, Statuses, PromptPcs, CancelPcs, ClearPcs, ConfigPcs, WaitPcs

\* Everything is idle at first.
LEMMA TurnInit == Init => TurnInv /\ ClaimInv
<1> SUFFICES ASSUME Init PROVE TurnInv /\ ClaimInv
    OBVIOUS
<1>1. TypeOK
    BY Values DEF Init, TypeOK
<1>2. SlotInv /\ PermitInv /\ ClearInv /\ AdmissionInv /\ ConfigInv /\ ClaimInv
    BY DEF Init, SlotInv, HasSlot, HasTurn, PermitInv, HoldsPermit, ClearInv, AdmissionInv, ConfigInv, ClaimInv
<1> QED
    BY <1>1, <1>2 DEF TurnInv

\* The variables keep their types.
LEMMA TypeStep == TypeOK /\ [Next]_vars => TypeOK'
<1> SUFFICES ASSUME TypeOK, [Next]_vars PROVE TypeOK'
    OBVIOUS
<1> USE Values DEF TypeOK, TakeAdmission, LeaveAdmission, FreeSlot, turnVars, cancelVars
<1>1. ASSUME NEW p \in Prompts, PromptAdmitted(p) PROVE TypeOK'
    BY <1>1 DEF PromptAdmitted
<1>2. ASSUME NEW p \in Prompts, CheckMutation(p) PROVE TypeOK'
    BY <1>2 DEF CheckMutation
<1>3. ASSUME NEW p \in Prompts, TakeSlot(p) PROVE TypeOK'
    BY <1>3 DEF TakeSlot
<1>4. ASSUME NEW p \in Prompts, RecheckMutation(p) PROVE TypeOK'
    BY <1>4 DEF RecheckMutation
<1>5. ASSUME NEW p \in Prompts, EmitRunning(p) PROVE TypeOK'
    BY <1>5 DEF EmitRunning
<1>6. ASSUME NEW p \in Prompts, Stage(p) PROVE TypeOK'
    BY <1>6 DEF Stage
<1>7. ASSUME NEW p \in Prompts, Finish(p) PROVE TypeOK'
    BY <1>7 DEF Finish
<1>8. ASSUME NEW p \in Prompts, Interrupted(p) PROVE TypeOK'
    BY <1>8 DEF Interrupted
<1>9. ASSUME NEW p \in Prompts, TerminalSave(p) PROVE TypeOK'
    BY <1>9 DEF TerminalSave
<1>10. ASSUME NEW p \in Prompts, Abandon(p) PROVE TypeOK'
    BY <1>10 DEF Abandon
<1>11. ASSUME NEW p \in Prompts, ReadTerminal(p) PROVE TypeOK'
    BY <1>11 DEF ReadTerminal, TerminalStatus
<1>12. ASSUME NEW p \in Prompts, EmitTerminal(p) PROVE TypeOK'
    BY <1>12 DEF EmitTerminal
<1>13. ASSUME NEW p \in Prompts, ReleaseSlot(p) PROVE TypeOK'
    BY <1>13 DEF ReleaseSlot
<1>14. ASSUME NEW c \in Cancellers, ReadSlot(c) PROVE TypeOK'
    BY <1>14 DEF ReadSlot
<1>15. ASSUME NEW c \in Cancellers, ReadCancelled(c) PROVE TypeOK'
    BY <1>15 DEF ReadCancelled
<1>16. ASSUME NEW c \in Cancellers, ClaimCancel(c) PROVE TypeOK'
    BY <1>16 DEF ClaimCancel
<1>17. ASSUME NEW c \in Cancellers, EmitCancelling(c) PROVE TypeOK'
    BY <1>17 DEF EmitCancelling
<1>18. ASSUME NEW c \in Cancellers, NotifyTurn(c) PROVE TypeOK'
    BY <1>18 DEF NotifyTurn
<1>19. ASSUME NEW m \in Clearers, ClearAdmitted(m) PROVE TypeOK'
    BY <1>19 DEF ClearAdmitted
<1>20. ASSUME NEW m \in Clearers, AcquirePermit(m) PROVE TypeOK'
    BY <1>20 DEF AcquirePermit
<1>21. ASSUME NEW m \in Clearers, ClearChecksTurn(m) PROVE TypeOK'
    BY <1>21 DEF ClearChecksTurn, ClearRefused
<1>22. ASSUME NEW m \in Clearers, ClearLocksLifecycle(m) PROVE TypeOK'
    BY <1>22 DEF ClearLocksLifecycle
<1>23. ASSUME NEW m \in Clearers, ClearRechecksTurn(m) PROVE TypeOK'
    BY <1>23 DEF ClearRechecksTurn, ClearRefused
<1>24. ASSUME NEW m \in Clearers, ClearHistory(m) PROVE TypeOK'
    BY <1>24 DEF ClearHistory
<1>25. ASSUME NEW m \in Clearers, ClearDone(m) PROVE TypeOK'
    BY <1>25 DEF ClearDone
<1>26. ASSUME NEW k \in Configurers, ConfigAdmitted(k) PROVE TypeOK'
    BY <1>26 DEF ConfigAdmitted
<1>27. ASSUME NEW k \in Configurers, ConfigChecksTurn(k) PROVE TypeOK'
    BY <1>27 DEF ConfigChecksTurn, ConfigRefused
<1>28. ASSUME NEW k \in Configurers, ConfigLocksLifecycle(k) PROVE TypeOK'
    BY <1>28 DEF ConfigLocksLifecycle
<1>29. ASSUME NEW k \in Configurers, ConfigRechecksTurn(k) PROVE TypeOK'
    BY <1>29 DEF ConfigRechecksTurn, ConfigRefused
<1>30. ASSUME NEW k \in Configurers, ApplyOption(k) PROVE TypeOK'
    BY <1>30 DEF ApplyOption
<1>31. ASSUME NEW k \in Configurers, OptionFails(k) PROVE TypeOK'
    BY <1>31 DEF OptionFails, ConfigRefused
<1>32. ASSUME NEW k \in Configurers, ConfigDone(k) PROVE TypeOK'
    BY <1>32 DEF ConfigDone
<1>33. ASSUME NEW w \in Waiters, EnableWait(w) PROVE TypeOK'
    BY <1>33 DEF EnableWait
<1>34. ASSUME NEW w \in Waiters, CheckIdle(w) PROVE TypeOK'
    BY <1>34 DEF CheckIdle
<1>35. CASE UNCHANGED vars
    BY <1>35 DEF vars, turnVars, cancelVars
<1> QED
    BY <1>1, <1>2, <1>3, <1>4, <1>5, <1>6, <1>7, <1>8, <1>9, <1>10, <1>11, <1>12, <1>13, <1>14,
       <1>15, <1>16, <1>17, <1>18, <1>19, <1>20, <1>21, <1>22, <1>23, <1>24, <1>25, <1>26, <1>27,
       <1>28, <1>29, <1>30, <1>31, <1>32, <1>33, <1>34, <1>35
       DEF Next, PromptStep, CancelStep, ClearStep, ConfigStep, WaitStep

\* The type invariant of TurnControl, for any sets of tasks.
THEOREM TurnTypeCorrect == Spec => []TypeOK
<1>1. Init => TypeOK
    BY TurnInit DEF TurnInv
<1> QED
    BY <1>1, TypeStep, PTL DEF Spec

-----------------------------------------------------------------------------
(* Exclusion.                                                               *)

\* Every step keeps the slot, the permit, the two claims and the admission lock.
LEMMA TurnStep == TurnInv /\ [Next]_vars => TurnInv'
<1> SUFFICES ASSUME TurnInv, [Next]_vars PROVE TurnInv'
    OBVIOUS
<1> DEFINE Excl == SlotInv /\ PermitInv /\ ClearInv /\ AdmissionInv /\ ConfigInv
<1> USE TurnAssumption
    DEF TurnInv, TypeOK, SlotInv, HasSlot, HasTurn, PermitInv, HoldsPermit, ClearInv, AdmissionInv, ConfigInv,
        TakeAdmission, LeaveAdmission, FreeSlot, turnVars
<1>1. ASSUME NEW p \in Prompts, PromptAdmitted(p) PROVE Excl'
    BY <1>1 DEF PromptAdmitted
<1>2. ASSUME NEW p \in Prompts, CheckMutation(p) PROVE Excl'
    BY <1>2 DEF CheckMutation
<1>3. ASSUME NEW p \in Prompts, TakeSlot(p) PROVE Excl'
    BY <1>3 DEF TakeSlot
<1>4. ASSUME NEW p \in Prompts, RecheckMutation(p) PROVE Excl'
    BY <1>4 DEF RecheckMutation
<1>5. ASSUME NEW p \in Prompts, EmitRunning(p) PROVE Excl'
    BY <1>5 DEF EmitRunning
<1>6. ASSUME NEW p \in Prompts, Stage(p) PROVE Excl'
    BY <1>6 DEF Stage
<1>7. ASSUME NEW p \in Prompts, Finish(p) PROVE Excl'
    BY <1>7 DEF Finish
<1>8. ASSUME NEW p \in Prompts, Interrupted(p) PROVE Excl'
    BY <1>8 DEF Interrupted
<1>9. ASSUME NEW p \in Prompts, TerminalSave(p) PROVE Excl'
    BY <1>9 DEF TerminalSave
<1>10. ASSUME NEW p \in Prompts, Abandon(p) PROVE Excl'
    BY <1>10 DEF Abandon
<1>11. ASSUME NEW p \in Prompts, ReadTerminal(p) PROVE Excl'
    BY <1>11 DEF ReadTerminal, TerminalStatus
<1>12. ASSUME NEW p \in Prompts, EmitTerminal(p) PROVE Excl'
    BY <1>12 DEF EmitTerminal
<1>13. ASSUME NEW p \in Prompts, ReleaseSlot(p) PROVE Excl'
    BY <1>13 DEF ReleaseSlot
<1>14. ASSUME NEW c \in Cancellers, ReadSlot(c) PROVE Excl'
    BY <1>14 DEF ReadSlot
<1>15. ASSUME NEW c \in Cancellers, ReadCancelled(c) PROVE Excl'
    BY <1>15 DEF ReadCancelled
<1>16. ASSUME NEW c \in Cancellers, ClaimCancel(c) PROVE Excl'
    BY <1>16 DEF ClaimCancel
<1>17. ASSUME NEW c \in Cancellers, EmitCancelling(c) PROVE Excl'
    BY <1>17 DEF EmitCancelling
<1>18. ASSUME NEW c \in Cancellers, NotifyTurn(c) PROVE Excl'
    BY <1>18 DEF NotifyTurn
<1>19. ASSUME NEW m \in Clearers, ClearAdmitted(m) PROVE Excl'
    BY <1>19 DEF ClearAdmitted
<1>20. ASSUME NEW m \in Clearers, AcquirePermit(m) PROVE Excl'
    BY <1>20 DEF AcquirePermit
<1>21. ASSUME NEW m \in Clearers, ClearChecksTurn(m) PROVE Excl'
    BY <1>21 DEF ClearChecksTurn, ClearRefused
<1>22. ASSUME NEW m \in Clearers, ClearLocksLifecycle(m) PROVE Excl'
    BY <1>22 DEF ClearLocksLifecycle
<1>23. ASSUME NEW m \in Clearers, ClearRechecksTurn(m) PROVE Excl'
    BY <1>23 DEF ClearRechecksTurn, ClearRefused
<1>24. ASSUME NEW m \in Clearers, ClearHistory(m) PROVE Excl'
    BY <1>24 DEF ClearHistory
<1>25. ASSUME NEW m \in Clearers, ClearDone(m) PROVE Excl'
    BY <1>25 DEF ClearDone
<1>26. ASSUME NEW k \in Configurers, ConfigAdmitted(k) PROVE Excl'
    BY <1>26 DEF ConfigAdmitted
<1>27. ASSUME NEW k \in Configurers, ConfigChecksTurn(k) PROVE Excl'
    BY <1>27 DEF ConfigChecksTurn, ConfigRefused
<1>28. ASSUME NEW k \in Configurers, ConfigLocksLifecycle(k) PROVE Excl'
    BY <1>28 DEF ConfigLocksLifecycle
<1>29. ASSUME NEW k \in Configurers, ConfigRechecksTurn(k) PROVE Excl'
    BY <1>29 DEF ConfigRechecksTurn, ConfigRefused
<1>30. ASSUME NEW k \in Configurers, ApplyOption(k) PROVE Excl'
    BY <1>30 DEF ApplyOption
<1>31. ASSUME NEW k \in Configurers, OptionFails(k) PROVE Excl'
    BY <1>31 DEF OptionFails, ConfigRefused
<1>32. ASSUME NEW k \in Configurers, ConfigDone(k) PROVE Excl'
    BY <1>32 DEF ConfigDone
<1>33. ASSUME NEW w \in Waiters, EnableWait(w) PROVE Excl'
    BY <1>33 DEF EnableWait
<1>34. ASSUME NEW w \in Waiters, CheckIdle(w) PROVE Excl'
    BY <1>34 DEF CheckIdle
<1>35. CASE UNCHANGED vars
    BY <1>35 DEF vars, turnVars, cancelVars
<1>36. Excl'
    BY <1>1, <1>2, <1>3, <1>4, <1>5, <1>6, <1>7, <1>8, <1>9, <1>10, <1>11, <1>12, <1>13, <1>14,
       <1>15, <1>16, <1>17, <1>18, <1>19, <1>20, <1>21, <1>22, <1>23, <1>24, <1>25, <1>26, <1>27,
       <1>28, <1>29, <1>30, <1>31, <1>32, <1>33, <1>34, <1>35
       DEF Next, PromptStep, CancelStep, ClearStep, ConfigStep, WaitStep
<1> HIDE DEF TurnInv, TypeOK, SlotInv, PermitInv, ClearInv, AdmissionInv, ConfigInv
<1>37. TypeOK'
    BY TypeStep DEF TurnInv
<1> QED
    BY <1>36, <1>37 DEF TurnInv

\* A turn has the core to itself: the two-claim protocol of begin_turn and
\* clear_history excludes without any lock, and the daemon's admission lock
\* keeps apply_runtime_option, which has no permit, away from turns.
THEOREM OneAtATime == Spec => []TurnIsAlone
<1>1. TurnInv => TurnIsAlone
    BY TurnAssumption DEF TurnInv, SlotInv, HasSlot, ClearInv, ConfigInv, TurnIsAlone
<1>2. Init => TurnInv
    BY TurnInit
<1> QED
    BY <1>1, <1>2, TurnStep, PTL DEF Spec

-----------------------------------------------------------------------------
(* The outcome.                                                             *)

\* Every step keeps what the outcome of a claimed turn says.
LEMMA ClaimStep == TypeOK /\ ClaimInv /\ [Next]_vars => ClaimInv'
<1> SUFFICES ASSUME TypeOK, ClaimInv, [Next]_vars PROVE ClaimInv'
    OBVIOUS
<1> USE DEF TypeOK, ClaimInv, TerminalStatus, turnVars
<1>1. ASSUME NEW p \in Prompts, PromptAdmitted(p) PROVE ClaimInv'
    BY <1>1 DEF PromptAdmitted
<1>2. ASSUME NEW p \in Prompts, CheckMutation(p) PROVE ClaimInv'
    BY <1>2 DEF CheckMutation
<1>3. ASSUME NEW p \in Prompts, TakeSlot(p) PROVE ClaimInv'
    BY <1>3 DEF TakeSlot
<1>4. ASSUME NEW p \in Prompts, RecheckMutation(p) PROVE ClaimInv'
    BY <1>4 DEF RecheckMutation
<1>5. ASSUME NEW p \in Prompts, EmitRunning(p) PROVE ClaimInv'
    BY <1>5 DEF EmitRunning
<1>6. ASSUME NEW p \in Prompts, Stage(p) PROVE ClaimInv'
    BY <1>6 DEF Stage
<1>7. ASSUME NEW p \in Prompts, Finish(p) PROVE ClaimInv'
    BY <1>7 DEF Finish
<1>8. ASSUME NEW p \in Prompts, Interrupted(p) PROVE ClaimInv'
    BY <1>8 DEF Interrupted
<1>9. ASSUME NEW p \in Prompts, TerminalSave(p) PROVE ClaimInv'
    BY <1>9 DEF TerminalSave
<1>10. ASSUME NEW p \in Prompts, Abandon(p) PROVE ClaimInv'
    BY <1>10 DEF Abandon
<1>11. ASSUME NEW p \in Prompts, ReadTerminal(p) PROVE ClaimInv'
    BY <1>11 DEF ReadTerminal
<1>12. ASSUME NEW p \in Prompts, EmitTerminal(p) PROVE ClaimInv'
    BY <1>12 DEF EmitTerminal
<1>13. ASSUME NEW p \in Prompts, ReleaseSlot(p) PROVE ClaimInv'
    BY <1>13 DEF ReleaseSlot
<1>14. ASSUME NEW c \in Cancellers, ReadSlot(c) PROVE ClaimInv'
    BY <1>14 DEF ReadSlot
<1>15. ASSUME NEW c \in Cancellers, ReadCancelled(c) PROVE ClaimInv'
    BY <1>15 DEF ReadCancelled
<1>16. ASSUME NEW c \in Cancellers, ClaimCancel(c) PROVE ClaimInv'
    BY <1>16 DEF ClaimCancel, Outcomes
<1>17. ASSUME NEW c \in Cancellers, EmitCancelling(c) PROVE ClaimInv'
    BY <1>17 DEF EmitCancelling
<1>18. ASSUME NEW c \in Cancellers, NotifyTurn(c) PROVE ClaimInv'
    BY <1>18 DEF NotifyTurn
<1>19. ASSUME NEW m \in Clearers, ClearAdmitted(m) PROVE ClaimInv'
    BY <1>19 DEF ClearAdmitted
<1>20. ASSUME NEW m \in Clearers, AcquirePermit(m) PROVE ClaimInv'
    BY <1>20 DEF AcquirePermit
<1>21. ASSUME NEW m \in Clearers, ClearChecksTurn(m) PROVE ClaimInv'
    BY <1>21 DEF ClearChecksTurn, ClearRefused
<1>22. ASSUME NEW m \in Clearers, ClearLocksLifecycle(m) PROVE ClaimInv'
    BY <1>22 DEF ClearLocksLifecycle
<1>23. ASSUME NEW m \in Clearers, ClearRechecksTurn(m) PROVE ClaimInv'
    BY <1>23 DEF ClearRechecksTurn, ClearRefused
<1>24. ASSUME NEW m \in Clearers, ClearHistory(m) PROVE ClaimInv'
    BY <1>24 DEF ClearHistory
<1>25. ASSUME NEW m \in Clearers, ClearDone(m) PROVE ClaimInv'
    BY <1>25 DEF ClearDone
<1>26. ASSUME NEW k \in Configurers, ConfigAdmitted(k) PROVE ClaimInv'
    BY <1>26 DEF ConfigAdmitted
<1>27. ASSUME NEW k \in Configurers, ConfigChecksTurn(k) PROVE ClaimInv'
    BY <1>27 DEF ConfigChecksTurn, ConfigRefused
<1>28. ASSUME NEW k \in Configurers, ConfigLocksLifecycle(k) PROVE ClaimInv'
    BY <1>28 DEF ConfigLocksLifecycle
<1>29. ASSUME NEW k \in Configurers, ConfigRechecksTurn(k) PROVE ClaimInv'
    BY <1>29 DEF ConfigRechecksTurn, ConfigRefused
<1>30. ASSUME NEW k \in Configurers, ApplyOption(k) PROVE ClaimInv'
    BY <1>30 DEF ApplyOption
<1>31. ASSUME NEW k \in Configurers, OptionFails(k) PROVE ClaimInv'
    BY <1>31 DEF OptionFails, ConfigRefused
<1>32. ASSUME NEW k \in Configurers, ConfigDone(k) PROVE ClaimInv'
    BY <1>32 DEF ConfigDone
<1>33. ASSUME NEW w \in Waiters, EnableWait(w) PROVE ClaimInv'
    BY <1>33 DEF EnableWait
<1>34. ASSUME NEW w \in Waiters, CheckIdle(w) PROVE ClaimInv'
    BY <1>34 DEF CheckIdle
<1>35. CASE UNCHANGED vars
    BY <1>35 DEF vars, turnVars, cancelVars
<1> QED
    BY <1>1, <1>2, <1>3, <1>4, <1>5, <1>6, <1>7, <1>8, <1>9, <1>10, <1>11, <1>12, <1>13, <1>14,
       <1>15, <1>16, <1>17, <1>18, <1>19, <1>20, <1>21, <1>22, <1>23, <1>24, <1>25, <1>26, <1>27,
       <1>28, <1>29, <1>30, <1>31, <1>32, <1>33, <1>34, <1>35
       DEF Next, PromptStep, CancelStep, ClearStep, ConfigStep, WaitStep

\* The status SessionTurn::drop emits is the outcome that won the claim: a
\* cancel that arrives between mark_completed and the event changes neither.
THEOREM TerminalIsClaimed == Spec => []TerminalMatchesClaim
<1>1. ClaimInv => TerminalMatchesClaim
    BY DEF ClaimInv, TerminalMatchesClaim, TerminalStatus
<1>2. Init => TypeOK /\ ClaimInv
    BY TurnInit DEF TurnInv
<1>3. TypeOK /\ ClaimInv /\ [Next]_vars => (TypeOK /\ ClaimInv)'
    BY TypeStep, ClaimStep
<1> QED
    BY <1>1, <1>2, <1>3, PTL DEF Spec
=============================================================================
