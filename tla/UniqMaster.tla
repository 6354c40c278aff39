----------------------------- MODULE UniqMaster -----------------------------
(***************************************************************************)
(* UniqMaster (application/uniq_id/src/master.cpp) and the MySQL tables    *)
(* t_label_pool and t_label_online it keeps the leases in.                 *)
(*                                                                         *)
(* A renewal is only noted in memory (_label_info_map) and written to      *)
(* f_time by on_timeout(), which then recycles the labels whose f_time is  *)
(* older than expire plus the freeze.  Every recycled label is a           *)
(* transaction, and a step, of its own, so that two masters on one         *)
(* database may interleave.                                                *)
(***************************************************************************)
EXTENDS UniqNet, FiniteSets

CONSTANTS
    Masters,     \* the master processes on the one database
    NoIp,        \* owner of a label that has no row
    CanCrash,    \* a master may die and start again
    DbFails      \* a statement or a commit may fail

ASSUME MasterAssumption ==
    /\ NoIp \notin Agents
    /\ CanCrash \in BOOLEAN
    /\ DbFails \in BOOLEAN

VARIABLES
    pool,        \* t_label_pool
    owner,       \* t_label_online: f_ip of the label's row, or NoIp
    ftime,       \* t_label_online: f_time of the label's row
    leaseIp,     \* _label_info_map: ip of the label's entry, or NoIp
    leaseTime,   \* _label_info_map: lease_time of the label's entry
    victims      \* db_table of the sweep under way in on_timeout(): labels
                 \* selected and not yet treated; {} in the loop of run()

dbVars == <<pool, owner, ftime>>
mapVars == <<leaseIp, leaseTime>>
masterVars == <<dbVars, mapVars, victims>>

NoLease == [l \in Labels |-> NoIp]

\* After the first generate_labels().
MasterInit ==
    /\ pool = Labels
    /\ owner = [l \in Labels |-> NoIp]
    /\ ftime = [l \in Labels |-> 0]
    /\ leaseIp = [m \in Masters |-> NoLease]
    /\ leaseTime = [m \in Masters |-> [l \in Labels |-> 0]]
    /\ victims = [m \in Masters |-> {}]

MasterTypeOK ==
    /\ pool \subseteq Labels
    /\ owner \in [Labels -> Agents \cup {NoIp}]
    /\ ftime \in [Labels -> Nat]
    /\ leaseIp \in [Masters -> [Labels -> Agents \cup {NoIp}]]
    /\ leaseTime \in [Masters -> [Labels -> Nat]]
    /\ victims \in [Masters -> SUBSET Labels]

-----------------------------------------------------------------------------
(* The queries.                                                            *)

\* Mutant: a label is recycled as soon as it expires.
NoFreeze == 0

\* get_expire_time: how long a label stays frozen after it expired.
Freeze ==
    IF Expire < Hour THEN Expire
    ELSE IF Expire < 24 * Hour THEN 2 * Hour
    ELSE IF Expire < 7 * 24 * Hour THEN 2 * 24 * Hour
    ELSE IF Expire < 30 * 24 * Hour THEN 3 * 24 * Hour
    ELSE IF Expire < 90 * 24 * Hour THEN 5 * 24 * Hour
    ELSE 10 * 24 * Hour

\* The label's row has not passed its expiry.
Unexpired(l) == owner[l] # NoIp /\ ftime[l] >= now - Expire

\* hold_valid_label
HoldValidLabel(ip, l) == Unexpired(l) /\ owner[l] = ip

\* get_label: the unexpired labels of an IP; more than one row is an error.
LabelsOf(ip) == {l \in Labels : HoldValidLabel(ip, l)}

-----------------------------------------------------------------------------
(* prepare_response_get_label                                              *)

\* The answer, and the renewal noted in _label_info_map: an entry that exists
\* keeps its ip.
Grant(m, ip, l) ==
    /\ SendResponse([to |-> ip, kind |-> "label", label |-> l, sent |-> now])
    /\ leaseIp' = [leaseIp EXCEPT ![m][l] = IF @ = NoIp THEN ip ELSE @]
    /\ leaseTime' = [leaseTime EXCEPT ![m][l] = now]

ClearLeases(m) ==
    /\ leaseIp' = [leaseIp EXCEPT ![m] = NoLease]
    /\ leaseTime' = [leaseTime EXCEPT ![m] = [l \in Labels |-> 0]]

\* A renewal of a label that the agent says it holds.
Renew(m, q) ==
    /\ q.label > 0
    /\ victims[m] = {}
    /\ \/ /\ HoldValidLabel(q.from, q.label)
          /\ Grant(m, q.from, q.label)
       \/ /\ ~HoldValidLabel(q.from, q.label)
          /\ SendResponse([to |-> q.from, kind |-> "nothold", label |-> 0, sent |-> now])
          /\ UNCHANGED mapVars
    /\ UNCHANGED <<now, requests, dbVars, victims>>

\* The agent has no label: get_label() finds the one it still holds.
RentHeld(m, q) ==
    /\ q.label = 0
    /\ victims[m] = {}
    /\ \E l \in LabelsOf(q.from) :
          /\ LabelsOf(q.from) = {l}
          /\ Grant(m, q.from, l)
    /\ UNCHANGED <<now, requests, dbVars, victims>>

\* DELETE from the pool and INSERT of the row, which fails on a duplicate key.
MoveOnline(ip, l) ==
    /\ pool' = pool \ {l}
    /\ owner' = [owner EXCEPT ![l] = ip]
    /\ ftime' = [ftime EXCEPT ![l] = now]

\* ... or alloc_label() takes one from the pool (SELECT ... LIMIT 1).
RentNew(m, q) ==
    /\ q.label = 0
    /\ victims[m] = {}
    /\ LabelsOf(q.from) = {}
    /\ \E l \in pool :
          /\ owner[l] = NoIp
          /\ MoveOnline(q.from, l)
          /\ Grant(m, q.from, l)
    /\ UNCHANGED <<now, requests, victims>>

\* ERROR_NO_LABEL: the pool is empty.
RentNone(m, q) ==
    /\ q.label = 0
    /\ victims[m] = {}
    /\ LabelsOf(q.from) = {}
    /\ pool = {}
    /\ UNCHANGED <<netVars, masterVars>>

\* ERROR_DATABASE: two unexpired rows of the IP, a label of the pool that has a
\* row already, a label another master took first, or a failure of MySQL.
RentError(m, q) ==
    /\ q.label = 0
    /\ victims[m] = {}
    /\ \/ Cardinality(LabelsOf(q.from)) > 1
       \/ LabelsOf(q.from) = {} /\ \E l \in pool : owner[l] # NoIp
       \/ LabelsOf(q.from) = {} /\ pool # {} /\ Cardinality(Masters) > 1
       \/ DbFails
    /\ UNCHANGED <<netVars, masterVars>>

\* The commit of alloc_label() fails after the server has done it.
RentUnknown(m, q) ==
    /\ DbFails
    /\ q.label = 0
    /\ victims[m] = {}
    /\ LabelsOf(q.from) = {}
    /\ \E l \in pool : owner[l] = NoIp /\ MoveOnline(q.from, l)
    /\ UNCHANGED <<netVars, mapVars, victims>>

-----------------------------------------------------------------------------
(* on_timeout, run when the poll of run() has seen no datagram.            *)

\* Entries of _label_info_map whose UPDATE changes a row.
Renewals(m) ==
    {l \in Labels : /\ leaseIp[m][l] # NoIp
                    /\ leaseIp[m][l] = owner[l]
                    /\ ftime[l] < leaseTime[m][l]}

\* Mutant: the rows are selected before the renewals are written.
SelectAndFlush(m, written) ==
    /\ victims[m] = {}
    /\ ftime' = [l \in Labels |-> IF l \in written THEN leaseTime[m][l] ELSE ftime[l]]
    /\ victims' = [victims EXCEPT ![m] =
          {l \in Labels : owner[l] # NoIp /\ ftime[l] < now - (Expire + Freeze)}]
    /\ UNCHANGED <<netVars, pool, owner>>

\* The renewals are written, then the rows past expire and freeze are selected.
FlushAndSelect(m, written) ==
    /\ victims[m] = {}
    /\ ftime' = [l \in Labels |-> IF l \in written THEN leaseTime[m][l] ELSE ftime[l]]
    /\ victims' = [victims EXCEPT ![m] =
          {l \in Labels : owner[l] # NoIp /\ ftime'[l] < now - (Expire + Freeze)}]
    /\ UNCHANGED <<netVars, pool, owner>>

OnTimeout(m) ==
    /\ FlushAndSelect(m, Renewals(m))
    /\ ClearLeases(m)

\* An UPDATE that fails is skipped and its entry forgotten with the others; a
\* commit that fails leaves the map as it is.  The sweep goes on all the same.
OnTimeoutDbError(m) ==
    /\ DbFails
    /\ \E written \in SUBSET Renewals(m) : FlushAndSelect(m, written)
    /\ ClearLeases(m) \/ UNCHANGED mapVars

\* One row: DELETE by label alone, INSERT into the pool, commit.
Recycle(m, l) ==
    /\ l \in victims[m]
    /\ owner[l] # NoIp
    /\ l \notin pool
    /\ owner' = [owner EXCEPT ![l] = NoIp]
    /\ ftime' = [ftime EXCEPT ![l] = 0]
    /\ pool' = pool \cup {l}
    /\ victims' = [victims EXCEPT ![m] = @ \ {l}]
    /\ UNCHANGED <<netVars, mapVars>>

\* Another master deleted the row first.
RecycleGone(m, l) ==
    /\ l \in victims[m]
    /\ owner[l] = NoIp
    /\ victims' = [victims EXCEPT ![m] = @ \ {l}]
    /\ UNCHANGED <<netVars, dbVars, mapVars>>

\* Mutant: the row is not rolled back when the INSERT fails.
RecycleHalf(m, l) ==
    /\ l \in victims[m]
    /\ DbFails \/ (owner[l] # NoIp /\ l \in pool)
    /\ owner' = [owner EXCEPT ![l] = NoIp]
    /\ ftime' = [ftime EXCEPT ![l] = 0]
    /\ victims' = [victims EXCEPT ![m] = {}]
    /\ UNCHANGED <<netVars, mapVars, pool>>

\* A duplicate key in the pool or a failure of MySQL rolls the row back and
\* ends the sweep.
RecycleAborted(m, l) ==
    /\ l \in victims[m]
    /\ DbFails \/ (owner[l] # NoIp /\ l \in pool)
    /\ victims' = [victims EXCEPT ![m] = {}]
    /\ UNCHANGED <<netVars, dbVars, mapVars>>

\* The process dies (also of an exception of hold_valid_label, which nobody
\* catches), forgets its renewals and starts again: generate_labels() fills a
\* pool that it finds empty.
MasterCrash(m) ==
    /\ CanCrash \/ DbFails
    /\ ClearLeases(m)
    /\ victims' = [victims EXCEPT ![m] = {}]
    /\ pool' = IF pool = {} THEN Labels ELSE pool
    /\ UNCHANGED <<netVars, owner, ftime>>

MasterStep(m) ==
    \/ \E q \in requests : \/ Renew(m, q)
                           \/ RentHeld(m, q)
                           \/ RentNew(m, q)
                           \/ RentNone(m, q)
                           \/ RentError(m, q)
                           \/ RentUnknown(m, q)
    \/ OnTimeout(m)
    \/ OnTimeoutDbError(m)
    \/ \E l \in Labels : \/ Recycle(m, l)
                         \/ RecycleGone(m, l)
                         \/ RecycleAborted(m, l)
    \/ MasterCrash(m)
=============================================================================
