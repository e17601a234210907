------------------------- MODULE CoordinationProofs -------------------------
(***************************************************************************)
(* Proofs about Coordination, for any set of names and any amount of mail. *)
(*                                                                         *)
(* The argument: a candidate notice is exact.  It holds mail above its     *)
(* mark only, and if it holds a message it holds every older one above the *)
(* mark that is still unread, because ids grow in commit order and nothing *)
(* becomes unread again.  Advancing the mark to the newest id of the       *)
(* candidate therefore passes nothing over, however late that happens.     *)
(***************************************************************************)
EXTENDS Coordination, FiniteSetTheorems, TLAPS

\* A bounded set of numbers that is not empty has a maximum.
LEMMA MaxOfBounded ==
    ASSUME NEW S \in SUBSET Nat, S # {}, NEW n \in Nat, \A x \in S : x <= n
    PROVE  Max(S) \in S /\ \A x \in S : x <= Max(S)
<1> DEFINE T == {n - x : x \in S}
           R == OpToRel(<, Nat)
<1>1. T \subseteq Nat
    OBVIOUS
<1>2. T # {}
    <2>1. PICK x \in S : TRUE
        OBVIOUS
    <2>2. n - x \in T
        BY <2>1
    <2> QED
        BY <2>2
<1>3. PICK t \in T : \A y \in T : <<y, t>> \notin R
    BY <1>1, <1>2, NatLessThanWellFounded, WFMin
<1>4. \A y \in T : ~(y < t)
    BY <1>1, <1>3 DEF OpToRel
<1>5. PICK m \in S : t = n - m
    OBVIOUS
<1>6. \A x \in S : x <= m
    <2>1. \A x \in S : n - x \in T
        OBVIOUS
    <2> QED
        BY <1>4, <1>5, <2>1
<1>7. \E x \in S : \A y \in S : x >= y
    BY <1>6
<1> QED
    BY <1>7 DEF Max

-----------------------------------------------------------------------------
(* The inductive invariant.                                                 *)

\* A candidate is typed by the mail there is, and exact for its name.
Exact(s) ==
  /\ s.ids \subseteq {i \in DOMAIN mail : i > s.mark}
  /\ \A i \in DOMAIN mail, j \in s.ids :
       (s.name \in mail[i] /\ i \notin read[s.name] /\ s.mark < i /\ i <= j) => i \in s.ids

\* A candidate was taken under a name the session has held, at the mark that
\* is still in force.
Current(s, mark) == s = NoNotice \/ (s.name \in held /\ s.mark = mark)

NoticeInv ==
  /\ Exact(notice) /\ Current(notice, modelMark)
  /\ notice # NoNotice => turn \in {"query", "stream"}
  /\ turn = "query" => notice # NoNotice
  /\ Exact(uiNotice) /\ Current(uiNotice, uiMark)
  /\ uiNotice # NoNotice <=> poll # "asleep"

\* What was announced is at or below the mark, or about to be.
ToldInv ==
  /\ \A i \in modelTold : i <= modelMark
  /\ \A i \in uiTold : i <= uiMark \/ (poll = "acknowledge" /\ i \in uiNotice.ids)
  /\ poll = "acknowledge" => uiNotice.ids \subseteq uiTold

\* The session's name is among those it has held, and one that never had a
\* name has announced nothing.
HeldInv ==
  /\ IsFiniteSet(held)
  /\ name # NoName => name \in held
  /\ name = NoName => held = {}
  /\ held = {} => modelMark = 0 /\ uiMark = 0
  /\ turn = "upsert" => wanted \in Names

OneName == \A m, n \in held : m = n

\* While the session has had one name, the marks pass no unread mail over.
PassedInv == OneName => Passed(modelMark) \subseteq modelTold /\ Passed(uiMark) \subseteq uiTold

MailInv == TypeOK /\ NoticeInv /\ ToldInv /\ HeldInv /\ PassedInv

-----------------------------------------------------------------------------
(* Facts the steps use.                                                     *)

\* Nothing is announced at first.
LEMMA MailInit == Init => MailInv
<1> SUFFICES ASSUME Init PROVE MailInv
    OBVIOUS
<1>1. TypeOK
    BY MaxMailAssumption DEF Init, TypeOK, Notices, NoNotice, Ids
<1>2. IsFiniteSet(held)
    BY FS_EmptySet DEF Init
<1> QED
    BY <1>1, <1>2 DEF Init, MailInv, NoticeInv, Exact, Current, ToldInv, HeldInv, PassedInv, Passed, NoNotice

\* A message is appended: the others stay as they are.
LEMMA SendEffect ==
  ASSUME TypeOK, NEW sender \in Names, NEW to \in SUBSET Names, Send(sender, to)
  PROVE  /\ mail' \in Seq((SUBSET Names) \ {{}})
         /\ Len(mail') = Len(mail) + 1 /\ Len(mail') <= MaxMail
         /\ DOMAIN mail = 1..Len(mail) /\ DOMAIN mail' = 1..Len(mail')
         /\ \A i \in DOMAIN mail : mail'[i] = mail[i]
         /\ Len(mail) \in Nat
<1>1. mail \in Seq((SUBSET Names) \ {{}}) /\ Len(mail) < MaxMail
    BY DEF TypeOK, Send
<1>2. Recipients(sender, to) \in (SUBSET Names) \ {{}} /\ mail' = Append(mail, Recipients(sender, to))
    BY DEF Send, Recipients
<1> QED
    BY <1>1, <1>2, MaxMailAssumption

\* Advancing a mark to the newest id of a candidate.
LEMMA AdvancedMark ==
  ASSUME TypeOK, NEW s \in Notices, Exact(s), NEW mark \in 0..Len(mail)
  PROVE  /\ Advanced(mark, s) \in 0..Len(mail)
         /\ mark <= Advanced(mark, s)
         /\ \A i \in s.ids : i <= Advanced(mark, s)
         /\ Advanced(mark, s) = mark \/ Advanced(mark, s) \in s.ids
<1>1. Len(mail) \in Nat /\ DOMAIN mail = 1..Len(mail)
    BY DEF TypeOK
<1>2. s.ids \subseteq 1..Len(mail)
    BY <1>1 DEF Exact
<1>3. {mark} \cup s.ids \in SUBSET Nat /\ {mark} \cup s.ids # {}
      /\ \A x \in {mark} \cup s.ids : x <= Len(mail)
    BY <1>1, <1>2
<1>4. /\ Max({mark} \cup s.ids) \in {mark} \cup s.ids
      /\ \A x \in {mark} \cup s.ids : x <= Max({mark} \cup s.ids)
    BY <1>1, <1>3, MaxOfBounded
<1> DEFINE max == Max({mark} \cup s.ids)
<1>5. max \in {mark} \cup s.ids /\ \A x \in {mark} \cup s.ids : x <= max
    BY <1>4
<1> HIDE DEF max
<1>6. (max = mark \/ max \in s.ids) /\ mark <= max /\ \A i \in s.ids : i <= max
    BY <1>5
<1>7. max \in 0..Len(mail)
    BY <1>1, <1>2, <1>6
<1> QED
    BY <1>6, <1>7 DEF Advanced, max

\* What unread_summary returns is exact for the name and mark it was asked.
LEMMA SummaryIsExact ==
  ASSUME TypeOK, NEW n \in Names, NEW m \in 0..MaxMail
  PROVE  /\ UnreadSummary(n, m) \subseteq {i \in DOMAIN mail : i > m}
         /\ UnreadSummary(n, m) \subseteq Ids
         /\ \A i \in DOMAIN mail :
              (n \in mail[i] /\ i \notin read[n] /\ m < i) => i \in UnreadSummary(n, m)
<1>1. Len(mail) \in Nat /\ DOMAIN mail = 1..Len(mail) /\ Len(mail) <= MaxMail
    BY DEF TypeOK
<1> QED
    BY <1>1, MaxMailAssumption DEF UnreadSummary, Ids


\* No step breaks the invariant: one case for each action.
LEMMA MailStep == MailInv /\ [Next]_vars => MailInv'
<1> SUFFICES ASSUME MailInv, [Next]_vars PROVE MailInv'
    OBVIOUS
<1> USE NamesAssumption, MaxMailAssumption
        DEF MailInv, TypeOK, NoticeInv, ToldInv, HeldInv, PassedInv, Passed,
            OneName, Current, Exact, store, loop, poller, marks, told, Notices,
            NoNotice, Ids
<1>1. ASSUME NEW sender \in Names, NEW to \in SUBSET Names, Send(sender, to)
      PROVE  MailInv'
    <2>1. /\ mail' \in Seq((SUBSET Names) \ {{}})
          /\ Len(mail') = Len(mail) + 1 /\ Len(mail') <= MaxMail
          /\ DOMAIN mail = 1..Len(mail) /\ DOMAIN mail' = 1..Len(mail')
          /\ \A i \in DOMAIN mail : mail'[i] = mail[i]
          /\ Len(mail) \in Nat
        BY <1>1, SendEffect
    <2>2. TypeOK'
        BY <1>1, <2>1 DEF Send
    <2>3. NoticeInv'
        BY <1>1, <2>1 DEF Send
    <2>4. ToldInv' /\ HeldInv'
        BY <1>1 DEF Send
    <2>5. PassedInv'
        BY <1>1, <2>1 DEF Send
    <2> QED
        BY <2>2, <2>3, <2>4, <2>5
<1>2. ASSUME NEW n \in Names, NEW i \in Ids, MarkRead(n, i)
      PROVE  MailInv'
    BY <1>2 DEF MarkRead
<1>3. ASSUME NEW n \in Names, RegisterElsewhere(n)
      PROVE  MailInv'
    BY <1>3 DEF RegisterElsewhere, Bind, Here, Elsewhere, Unbound
<1>4. CASE BeginTurn
    BY <1>4 DEF BeginTurn
<1>5. CASE SnapshotModel
    BY <1>5 DEF SnapshotModel
<1>6. CASE QueryModel
    <2>1. CASE notice' = NoNotice
        BY <1>6, <2>1 DEF QueryModel
    <2>2. CASE notice' = [notice EXCEPT !.ids = UnreadSummary(notice.name, notice.mark)]
        <3>1. notice.name \in held /\ notice.name \in Names /\ notice.mark = modelMark
              /\ notice.mark \in 0..MaxMail
            BY <1>6 DEF QueryModel
        <3>2. /\ UnreadSummary(notice.name, notice.mark) \subseteq {i \in DOMAIN mail : i > notice.mark}
              /\ UnreadSummary(notice.name, notice.mark) \subseteq Ids
              /\ \A i \in DOMAIN mail :
                   (notice.name \in mail[i] /\ i \notin read[notice.name] /\ notice.mark < i)
                     => i \in UnreadSummary(notice.name, notice.mark)
            BY <3>1, SummaryIsExact
        <3> DEFINE ids == UnreadSummary(notice.name, notice.mark)
        <3>3. notice' = [name |-> notice.name, mark |-> notice.mark, ids |-> ids]
            BY <2>2
        <3> HIDE DEF ids
        <3>4. TypeOK'
            BY <1>6, <3>1, <3>2, <3>3 DEF QueryModel, ids
        <3>5. NoticeInv'
            BY <1>6, <3>1, <3>2, <3>3 DEF QueryModel, ids
        <3>6. ToldInv' /\ HeldInv' /\ PassedInv'
            BY <1>6 DEF QueryModel
        <3> QED
            BY <3>4, <3>5, <3>6
    <2> QED
        BY <1>6, <2>1, <2>2 DEF QueryModel
<1>7. CASE Respond
    <2> DEFINE new == Advanced(modelMark, notice)
    <2>1. /\ new \in 0..Len(mail) /\ modelMark <= new
          /\ \A i \in notice.ids : i <= new
          /\ new = modelMark \/ new \in notice.ids
        BY AdvancedMark
    <2>2. modelMark' = new
        BY <1>7 DEF Respond
    <2> HIDE DEF new
    <2>3. TypeOK'
        <3>1. notice.ids \subseteq 1..Len(mail)
            OBVIOUS
        <3>2. modelTold' \subseteq 1..Len(mail')
            BY <1>7, <3>1 DEF Respond
        <3>3. modelMark' \in 0..Len(mail') /\ mail' = mail
            BY <1>7, <2>1, <2>2 DEF Respond
        <3>4. notice' \in Notices /\ turn' = "tools"
            BY <1>7 DEF Respond
        <3> QED
            BY <1>7, <3>2, <3>3, <3>4 DEF Respond
    <2>4. NoticeInv' /\ ToldInv'
        BY <1>7, <2>1, <2>2 DEF Respond
    <2>5. HeldInv'
        BY <1>7, <2>1, <2>2 DEF Respond
    <2>6. PassedInv'
        BY <1>7, <2>1, <2>2 DEF Respond
    <2> QED
        BY <2>3, <2>4, <2>5, <2>6
<1>8. CASE Resume
    BY <1>8 DEF Resume
<1>9. CASE GiveUp
    BY <1>9 DEF GiveUp
<1>10. ASSUME NEW n \in Names, Register(n)
       PROVE  MailInv'
    BY <1>10 DEF Register, ClearBinding, Here, Elsewhere, Unbound
<1>11. CASE Upsert
    <2>1. wanted \in Names
        BY <1>11 DEF Upsert
    <2>2. IsFiniteSet(held \cup {wanted})
        BY FS_AddElement
    <2>3. TypeOK'
        BY <1>11, <2>1 DEF Upsert, Bind, Here, Elsewhere, Unbound
    <2>4. NoticeInv' /\ ToldInv'
        BY <1>11 DEF Upsert
    <2>5. HeldInv'
        BY <1>11, <2>1, <2>2 DEF Upsert
    <2>6. PassedInv'
        BY <1>11, <2>1 DEF Upsert
    <2> QED
        BY <2>3, <2>4, <2>5, <2>6
<1>12. CASE NextGeneration
    BY <1>12 DEF NextGeneration
<1>13. CASE EndTurn
    BY <1>13 DEF EndTurn
<1>14. CASE Tick
    BY <1>14 DEF Tick
<1>15. CASE QueryUi
    <2> DEFINE ids == UnreadSummary(uiNotice.name, uiNotice.mark)
    <2>1. uiNotice.name \in held /\ uiNotice.name \in Names /\ uiNotice.mark = uiMark
          /\ uiNotice.mark \in 0..MaxMail
        BY <1>15 DEF QueryUi
    <2>2. /\ ids \subseteq {i \in DOMAIN mail : i > uiNotice.mark} /\ ids \subseteq Ids
          /\ \A i \in DOMAIN mail :
               (uiNotice.name \in mail[i] /\ i \notin read[uiNotice.name] /\ uiNotice.mark < i)
                 => i \in ids
        BY <2>1, SummaryIsExact
    <2>3. \/ poll' = "asleep" /\ uiNotice' = NoNotice
          \/ poll' = "deliver" /\ uiNotice' = [name |-> uiNotice.name, mark |-> uiNotice.mark, ids |-> ids]
        BY <1>15 DEF QueryUi
    <2> HIDE DEF ids
    <2>4. TypeOK'
        BY <1>15, <2>1, <2>2, <2>3 DEF QueryUi
    <2>5. NoticeInv'
        BY <1>15, <2>1, <2>2, <2>3 DEF QueryUi
    <2>6. ToldInv' /\ HeldInv' /\ PassedInv'
        BY <1>15, <2>3 DEF QueryUi
    <2> QED
        BY <2>4, <2>5, <2>6
<1>16. CASE QueryUiFails
    BY <1>16 DEF QueryUiFails
<1>17. CASE Deliver
    <2>1. uiNotice.ids \subseteq 1..Len(mail)
        OBVIOUS
    <2>2. TypeOK'
        BY <1>17, <2>1 DEF Deliver
    <2>3. NoticeInv' /\ ToldInv' /\ HeldInv' /\ PassedInv'
        BY <1>17 DEF Deliver
    <2> QED
        BY <2>2, <2>3
<1>18. CASE DeliveryFails
    BY <1>18 DEF DeliveryFails
<1>19. CASE AcknowledgeUi
    <2> DEFINE new == Advanced(uiMark, uiNotice)
    <2>1. /\ new \in 0..Len(mail) /\ uiMark <= new
          /\ \A i \in uiNotice.ids : i <= new
          /\ new = uiMark \/ new \in uiNotice.ids
        BY AdvancedMark
    <2>2. uiMark' = new
        BY <1>19 DEF AcknowledgeUi
    <2> HIDE DEF new
    <2>3. TypeOK'
        BY <1>19, <2>1, <2>2 DEF AcknowledgeUi
    <2>4. NoticeInv' /\ ToldInv'
        BY <1>19, <2>1, <2>2 DEF AcknowledgeUi
    <2>5. HeldInv'
        BY <1>19, <2>1, <2>2 DEF AcknowledgeUi
    <2>6. PassedInv'
        BY <1>19, <2>1, <2>2 DEF AcknowledgeUi
    <2> QED
        BY <2>3, <2>4, <2>5, <2>6
<1>20. CASE Restart
    <2>1. \/ name' = NoName /\ held' = {}
          \/ \E n \in Names : name' = n /\ held' = {n}
        BY <1>20 DEF Restart, Recovered
    <2>2. IsFiniteSet(held')
        <3>1. CASE held' = {}
            BY <3>1, FS_EmptySet
        <3>2. ASSUME NEW n \in Names, held' = {n} PROVE IsFiniteSet(held')
            <4>1. IsFiniteSet({n})
                BY FS_Singleton
            <4> QED
                BY <3>2, <4>1
        <3> QED
            BY <2>1, <3>1, <3>2
    <2>3. TypeOK'
        BY <1>20, <2>1 DEF Restart
    <2>4. NoticeInv' /\ ToldInv' /\ PassedInv'
        BY <1>20 DEF Restart
    <2>5. HeldInv'
        BY <1>20, <2>1, <2>2 DEF Restart
    <2> QED
        BY <2>3, <2>4, <2>5
<1>21. CASE UNCHANGED vars
    BY <1>21 DEF vars
<1> QED
    BY <1>1, <1>2, <1>3, <1>4, <1>5, <1>6, <1>7, <1>8, <1>9, <1>10, <1>11, <1>12,
       <1>13, <1>14, <1>15, <1>16, <1>17, <1>18, <1>19, <1>20, <1>21 DEF Next

\* A session that has held one name at most is the one WatermarkIsExact is about.
LEMMA OneNameHeld ==
  ASSUME IsFiniteSet(held), Cardinality(held) <= 1
  PROVE  OneName
<1>1. SUFFICES ASSUME NEW m \in held, NEW n \in held, m # n PROVE FALSE
    BY DEF OneName
<1>2. {m, n} \subseteq held /\ IsFiniteSet({m}) /\ Cardinality({m}) = 1
    BY FS_Singleton
<1>3. {m, n} = {m} \cup {n}
    OBVIOUS
<1>4. Cardinality({m, n}) = 2
    BY <1>1, <1>2, <1>3, FS_AddElement
<1>5. Cardinality({m, n}) <= Cardinality(held)
    BY <1>2, FS_Subset
<1>6. Cardinality(held) \in Nat
    BY FS_CardinalityType
<1> QED
    BY <1>4, <1>5, <1>6

-----------------------------------------------------------------------------
(* The theorems.                                                            *)

\* Every behaviour keeps the inductive invariant.
LEMMA MailIsInvariant == Spec => []MailInv
    BY MailInit, MailStep, PTL DEF Spec

\* Every value of the store, the session and its two announcers keeps its type:
\* marks and candidates never speak of mail that was not sent.
THEOREM MailTypeCorrect == Spec => []TypeOK
<1>1. MailInv => TypeOK
    BY DEF MailInv
<1> QED
    BY <1>1, MailIsInvariant, PTL

\* acknowledge_coordination_*_notice: while the session keeps its name its
\* watermarks pass over no unread mail that was not announced, and nothing is
\* announced twice, for any mail, any reader and any loss in between.
THEOREM MarksAreExact == Spec => []WatermarkIsExact
<1>1. MailInv => WatermarkIsExact
    <2> SUFFICES ASSUME MailInv, Cardinality(held) <= 1
                 PROVE  /\ Passed(modelMark) \subseteq modelTold
                        /\ Passed(uiMark) \subseteq uiTold
                        /\ modelTold \cap notice.ids = {}
                        /\ poll # "acknowledge" => uiTold \cap uiNotice.ids = {}
        BY DEF WatermarkIsExact
    <2>1. OneName
        BY OneNameHeld DEF MailInv, HeldInv
    <2>2. Passed(modelMark) \subseteq modelTold /\ Passed(uiMark) \subseteq uiTold
        BY <2>1 DEF MailInv, PassedInv
    <2>3. modelTold \subseteq Nat /\ uiTold \subseteq Nat
          /\ modelMark \in Nat /\ uiMark \in Nat
        BY DEF MailInv, TypeOK
    <2>4. \A i \in notice.ids : i > modelMark
        BY DEF MailInv, NoticeInv, Current, Exact, NoNotice
    <2>5. \A i \in uiNotice.ids : i > uiMark
        BY DEF MailInv, NoticeInv, Current, Exact, NoNotice
    <2>6. modelTold \cap notice.ids = {}
        <3>1. \A i \in modelTold : i <= modelMark
            BY DEF MailInv, ToldInv
        <3>2. \A i \in modelTold : i \notin notice.ids
            BY <2>3, <2>4, <3>1
        <3> QED
            BY <3>2
    <2>7. poll # "acknowledge" => uiTold \cap uiNotice.ids = {}
        <3>1. poll # "acknowledge" => \A i \in uiTold : i <= uiMark
            BY DEF MailInv, ToldInv
        <3>2. poll # "acknowledge" => \A i \in uiTold : i \notin uiNotice.ids
            BY <2>3, <2>5, <3>1
        <3> QED
            BY <3>2
    <2> QED
        BY <2>2, <2>6, <2>7
<1> QED
    BY <1>1, MailIsInvariant, PTL

=============================================================================
