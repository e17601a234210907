---------------------------- MODULE SessionRecord ----------------------------
(***************************************************************************)
(* What the session store promises of one session, whatever number of      *)
(* runtimes open it, save it late, delete it or crash: a record and a       *)
(* lease.  Opening the session takes the lease from whoever held it; only   *)
(* the holder of the lease changes the record, and it only adds to it;      *)
(* deleting ends the record and the lease, and a lease that has ended       *)
(* never comes back.  SessionStore implements this (its RecordSpec).        *)
(***************************************************************************)
EXTENDS Integers

VARIABLES
    record,   \* the stored session: there or not, version, contents, author
    lease,    \* the lease in force, 0 for none
    issued    \* the last lease given out

recordVars == <<record, lease, issued>>

Absent == [exists |-> FALSE, gen |-> 0, payload |-> {}, by |-> 0]

Init ==
    /\ record = Absent
    /\ lease = 0
    /\ issued = 0

\* A runtime opens the session.  The record is as it was.
Take ==
    /\ issued' = issued + 1
    /\ lease' = issued'
    /\ UNCHANGED record

\* The holder saves: a new version that contains the old one.
Commit ==
    /\ lease # 0
    /\ record'.exists
    /\ record'.by = lease
    /\ record.exists => /\ record'.gen > record.gen
                        /\ record.payload \subseteq record'.payload
    /\ UNCHANGED <<lease, issued>>

\* A session file of an earlier release becomes the record of an unused id.
Import ==
    /\ ~record.exists
    /\ lease = 0
    /\ record'.exists
    /\ record'.by = 0
    /\ UNCHANGED <<lease, issued>>

Erase ==
    /\ record' = Absent
    /\ lease' = 0
    /\ UNCHANGED issued

Next == Take \/ Commit \/ Import \/ Erase

Spec == Init /\ [][Next]_recordVars
=============================================================================
