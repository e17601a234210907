---------------------------- MODULE Coordination ----------------------------
(***************************************************************************)
(* Agent mail and its notices.  Every process of a workspace opens the     *)
(* same SQLite store: agents register names, send mail to names and mark   *)
(* it read.  One ACP session of one process is followed here.  It is bound *)
(* to a name, and two tasks of it announce unread mail: the agent loop to  *)
(* the model at generation boundaries, and an idle poller to the editor.   *)
(* Each reads the store off the session's lock and remembers in a          *)
(* watermark, advanced in a later step, how far it has announced.          *)
(*                                                                         *)
(* Other processes appear by what they do to the store.  A message is its  *)
(* position (ids grow in commit order: the id is given inside the write    *)
(* transaction) and its recipient rows; texts, threads and timestamps are  *)
(* left out, and so are the advisory path reservations.                    *)
(***************************************************************************)
EXTENDS Integers, Sequences, FiniteSets, FiniteSetsExt

CONSTANTS
  Names,          \* names an agent can register
  MaxMail,        \* bound on the messages sent
  NoName          \* the session has no coordination identity

ASSUME NamesAssumption == NoName \notin Names
ASSUME MaxMailAssumption == MaxMail \in Nat

Here == "here"             \* the session_id column holds this session's id
Elsewhere == "elsewhere"   \* it holds another session's id
Unbound == "unbound"       \* NULL, or no row

VARIABLES
  owner,     \* Names -> session_id column of the agent row
  mail,      \* sequence of messages: the set of their recipients
  read,      \* Names -> ids with read_ts set
  name,      \* Session::coordination_agent_name
  modelMark, \* Session::coordination_model_watermark
  uiMark,    \* Session::coordination_ui_watermark
  turn,      \* where the agent loop is
  notice,    \* its snapshot and candidate
  poll,      \* where the poller is
  uiNotice,  \* its snapshot and candidate
  wanted,    \* the name register_agent is about to upsert
  modelTold, \* history: ids announced to the model by this process
  uiTold,    \* history: ids announced to the editor by this process
  held       \* history: names the session was bound to in this process

store == <<owner, mail, read>>
loop == <<turn, notice, wanted>>
poller == <<poll, uiNotice>>
marks == <<modelMark, uiMark>>
told == <<modelTold, uiTold>>
vars == <<owner, mail, read, name, modelMark, uiMark, turn, notice, poll,
          uiNotice, wanted, modelTold, uiTold, held>>

Ids == 1..MaxMail
NoNotice == [name |-> NoName, mark |-> 0, ids |-> {}]
Notices == [name: Names \cup {NoName}, mark: 0..MaxMail, ids: SUBSET Ids]

TypeOK ==
  /\ owner \in [Names -> {Here, Elsewhere, Unbound}]
  /\ mail \in Seq((SUBSET Names) \ {{}}) /\ Len(mail) <= MaxMail
  /\ read \in [Names -> SUBSET Ids]
  /\ \A n \in Names : read[n] \subseteq {i \in 1..Len(mail) : n \in mail[i]}
  /\ name \in Names \cup {NoName}
  /\ modelMark \in 0..Len(mail) /\ uiMark \in 0..Len(mail)
  /\ turn \in {"idle", "boundary", "query", "stream", "tools", "upsert"}
  /\ poll \in {"asleep", "query", "deliver", "acknowledge"}
  /\ notice \in Notices /\ uiNotice \in Notices
  /\ wanted \in Names \cup {NoName}
  /\ modelTold \subseteq 1..Len(mail) /\ uiTold \subseteq 1..Len(mail)
  /\ held \subseteq Names

Init ==
  /\ owner = [n \in Names |-> Unbound]
  /\ mail = << >>
  /\ read = [n \in Names |-> {}]
  /\ name = NoName /\ held = {}
  /\ modelMark = 0 /\ uiMark = 0
  /\ turn = "idle" /\ notice = NoNotice /\ wanted = NoName
  /\ poll = "asleep" /\ uiNotice = NoNotice
  /\ modelTold = {} /\ uiTold = {}

----------------------------------------------------------------------------
(* The store, used by any process                                           *)

(* send_message and reply_message: the sender is dropped from its own       *)
(* recipients, to and cc collapse to one row per name, a message without    *)
(* recipients is refused.                                                   *)
Recipients(sender, to) == to \ {sender}

(* A message to its sender alone is stored without a recipient row.         *)
BugSend(sender, to) ==
  /\ Len(mail) < MaxMail
  /\ mail' = Append(mail, Recipients(sender, to))
  /\ UNCHANGED <<owner, read, name, held, marks, loop, poller, told>>

Send(sender, to) ==
  /\ Len(mail) < MaxMail
  /\ Recipients(sender, to) # {}
  /\ mail' = Append(mail, Recipients(sender, to))
  /\ UNCHANGED <<owner, read, name, held, marks, loop, poller, told>>

(* mark_read and acknowledge: both leave a read_ts on the recipient's row.  *)
MarkRead(n, i) ==
  /\ i \in DOMAIN mail /\ n \in mail[i]
  /\ read' = [read EXCEPT ![n] = @ \cup {i}]
  /\ UNCHANGED <<owner, mail, name, held, marks, loop, poller, told>>

(* The newest message is left for the next summary.                         *)
BugUnreadSummary(n, after) ==
  {i \in 1..(Len(mail) - 1) : n \in mail[i] /\ i \notin read[n] /\ i > after}

(* unread_summary: the rows its aggregate is taken over.                    *)
UnreadSummary(n, after) ==
  {i \in DOMAIN mail : n \in mail[i] /\ i \notin read[n] /\ i > after}

(* The two statements of register_agent are not one transaction.            *)
ClearBinding(session, n) ==
  [m \in Names |-> IF owner[m] = session /\ m # n THEN Unbound ELSE owner[m]]

Bind(session, n) == [owner EXCEPT ![n] = session]

(* A session of another process registers a name, perhaps this one's.       *)
RegisterElsewhere(n) ==
  /\ owner' = Bind(Elsewhere, n)
  /\ UNCHANGED <<mail, read, name, held, marks, loop, poller, told>>

----------------------------------------------------------------------------
(* The agent loop of the session                                            *)

(* A prompt takes the AgentSession lock: not while the poller holds it.     *)
BeginTurn ==
  /\ turn = "idle" /\ poll # "query"
  /\ turn' = "boundary"
  /\ UNCHANGED <<store, name, held, marks, notice, wanted, poller, told>>

(* coordination_model_notice, under the lock: no identity, no notice.       *)
SnapshotModel ==
  /\ turn = "boundary"
  /\ IF name = NoName
       THEN turn' = "stream" /\ notice' = NoNotice
       ELSE /\ turn' = "query"
            /\ notice' = [name |-> name, mark |-> modelMark, ids |-> {}]
  /\ UNCHANGED <<store, name, held, marks, wanted, poller, told>>

(* Then off the lock: the query, or its failure, and the second look.       *)
Unchanged(s) == name = s.name /\ modelMark = s.mark

QueryModel ==
  /\ turn = "query"
  /\ turn' = "stream"
  /\ \/ /\ Unchanged(notice)
        /\ notice' = [notice EXCEPT !.ids = UnreadSummary(notice.name, notice.mark)]
     \/ notice' = NoNotice
  /\ UNCHANGED <<store, name, held, marks, wanted, poller, told>>

(* The mark is advanced to what is newest when the notice is acknowledged.  *)
BugAdvanced(mark, s) == Len(mail)

(* acknowledge_*_notice: monotonic.                                         *)
Advanced(mark, s) == Max({mark} \cup s.ids)

(* A provider response consumes the notice.                                 *)
Respond ==
  /\ turn = "stream"
  /\ turn' = "tools" /\ notice' = NoNotice
  /\ modelTold' = modelTold \cup notice.ids
  /\ modelMark' = Advanced(modelMark, notice)
  /\ UNCHANGED <<store, name, held, uiMark, wanted, poller, uiTold>>

(* Error or Aborted: nothing is acknowledged.  The loop resumes from its    *)
(* next boundary while its budget lasts, or the turn ends; it also ends     *)
(* there when its future is dropped.                                        *)
Resume ==
  /\ turn = "stream"
  /\ turn' = "boundary" /\ notice' = NoNotice
  /\ UNCHANGED <<store, name, held, marks, wanted, poller, told>>

GiveUp ==
  /\ turn \in {"boundary", "query", "stream"}
  /\ turn' = "idle" /\ notice' = NoNotice
  /\ UNCHANGED <<store, name, held, marks, wanted, poller, told>>

(* The tool call register_agent, under the tool session's lock.             *)
Register(n) ==
  /\ turn = "tools"
  /\ owner' = ClearBinding(Here, n)
  /\ wanted' = n /\ turn' = "upsert"
  /\ UNCHANGED <<mail, read, name, held, marks, notice, poller, told>>

Upsert ==
  /\ turn = "upsert"
  /\ turn' = "tools" /\ wanted' = NoName
  /\ \/ /\ owner' = Bind(Here, wanted)
        /\ name' = wanted
        /\ held' = held \cup {wanted}
     \/ UNCHANGED <<owner, name, held>>
  /\ UNCHANGED <<mail, read, marks, notice, poller, told>>

NextGeneration ==
  /\ turn = "tools"
  /\ turn' = "boundary"
  /\ UNCHANGED <<store, name, held, marks, notice, wanted, poller, told>>

EndTurn ==
  /\ turn = "tools"
  /\ turn' = "idle"
  /\ UNCHANGED <<store, name, held, marks, notice, wanted, poller, told>>

----------------------------------------------------------------------------
(* The idle poller                                                          *)

(* poll_coordination_ui_notice_if_idle: a tick during a turn is skipped.    *)
Tick ==
  /\ poll = "asleep" /\ turn = "idle" /\ name # NoName
  /\ poll' = "query"
  /\ uiNotice' = [name |-> name, mark |-> uiMark, ids |-> {}]
  /\ UNCHANGED <<store, name, held, marks, loop, told>>

(* The query; the AgentSession lock is given back with its answer.          *)
QueryUi ==
  /\ poll = "query"
  /\ LET ids == UnreadSummary(uiNotice.name, uiNotice.mark) IN
       IF ids = {}
         THEN poll' = "asleep" /\ uiNotice' = NoNotice
         ELSE poll' = "deliver" /\ uiNotice' = [uiNotice EXCEPT !.ids = ids]
  /\ UNCHANGED <<store, name, held, marks, loop, told>>

QueryUiFails ==
  /\ poll = "query"
  /\ poll' = "asleep" /\ uiNotice' = NoNotice
  /\ UNCHANGED <<store, name, held, marks, loop, told>>

Deliver ==
  /\ poll = "deliver"
  /\ poll' = "acknowledge"
  /\ uiTold' = uiTold \cup uiNotice.ids
  /\ UNCHANGED <<store, name, held, marks, loop, uiNotice, modelTold>>

(* No connection, or send_notification fails.                               *)
DeliveryFails ==
  /\ poll = "deliver"
  /\ poll' = "asleep" /\ uiNotice' = NoNotice
  /\ UNCHANGED <<store, name, held, marks, loop, told>>

AcknowledgeUi ==
  /\ poll = "acknowledge"
  /\ poll' = "asleep" /\ uiNotice' = NoNotice
  /\ uiMark' = Advanced(uiMark, uiNotice)
  /\ UNCHANGED <<store, name, held, modelMark, loop, told>>

----------------------------------------------------------------------------
(* build_acp_tool_session: the process ends and the session is loaded       *)
(* again, its watermarks at zero, its name read from the store.             *)
Recovered == {n \in Names : owner[n] = Here}

Restart ==
  /\ turn' = "idle" /\ notice' = NoNotice /\ wanted' = NoName
  /\ poll' = "asleep" /\ uiNotice' = NoNotice
  /\ modelMark' = 0 /\ uiMark' = 0
  /\ modelTold' = {} /\ uiTold' = {}
  /\ IF Recovered = {} THEN name' = NoName /\ held' = {}
     ELSE \E n \in Recovered : name' = n /\ held' = {n}
  /\ UNCHANGED store

Next ==
  \/ \E sender \in Names, to \in SUBSET Names : Send(sender, to)
  \/ \E n \in Names, i \in Ids : MarkRead(n, i)
  \/ \E n \in Names : RegisterElsewhere(n)
  \/ BeginTurn \/ SnapshotModel \/ QueryModel \/ Respond
  \/ Resume \/ GiveUp
  \/ \E n \in Names : Register(n)
  \/ Upsert \/ NextGeneration \/ EndTurn
  \/ Tick \/ QueryUi \/ QueryUiFails \/ Deliver \/ DeliveryFails \/ AcknowledgeUi
  \/ Restart

(* A turn goes on and ends (the agent loop bounds its generations and its   *)
(* resumes), the poller ticks for ever, and neither the store nor the       *)
(* connection fails every time.                                             *)
Fairness ==
  /\ WF_vars(SnapshotModel) /\ WF_vars(QueryModel) /\ WF_vars(Respond)
  /\ WF_vars(Upsert) /\ SF_vars(EndTurn \/ GiveUp)
  /\ SF_vars(Tick) /\ SF_vars(QueryUi) /\ SF_vars(Deliver) /\ WF_vars(AcknowledgeUi)

Spec == Init /\ [][Next]_vars
FairSpec == Spec /\ Fairness

----------------------------------------------------------------------------
(* Unread mail of the session's name at or below the mark, which no later   *)
(* summary will count.                                                      *)
Passed(mark) == {i \in DOMAIN mail : name # NoName /\ name \in mail[i]
                                     /\ i \notin read[name] /\ i <= mark}

(* While a session keeps its identity, a watermark says exactly what was    *)
(* announced: no unread mail is passed over, whatever was sent, read or     *)
(* lost between query and acknowledgement, and what was announced is not    *)
(* announced again.                                                         *)
WatermarkIsExact ==
  Cardinality(held) <= 1 =>
    /\ Passed(modelMark) \subseteq modelTold
    /\ Passed(uiMark) \subseteq uiTold
    /\ modelTold \cap notice.ids = {}
    /\ poll # "acknowledge" => uiTold \cap uiNotice.ids = {}

(* The comment on acknowledge_coordination_ui_notice: a stale or lost       *)
(* candidate cannot suppress a later notice (also of another name).         *)
NoNoticeSuppressed == Passed(uiMark) \subseteq uiTold

(* Unread mail reaches the editor of a session that keeps its name, unless  *)
(* somebody reads it first.                                                 *)
MailIsAnnounced ==
  \A n \in Names, i \in Ids :
    (held = {n} /\ i \in DOMAIN mail /\ n \in mail[i])
      ~> (i \in uiTold \/ i \in read[n] \/ held # {n})

=============================================================================
