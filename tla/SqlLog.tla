------------------------------- MODULE SqlLog -------------------------------
(***************************************************************************)
(* The way of a statement through db_proxy when its database has an alias: *)
(* "SQL first goes to a file and a process of its own takes it to the      *)
(* database" (config_loader.h:82).  CSqlLogger in the parent process,      *)
(* CDbProcess in the child, and what may end either, or the machine.       *)
(***************************************************************************)
EXTENDS DbProcess

vars == <<diskVars, writerVars, faults, restarts, processVars>>

Init == LoggerInit /\ ProcessInit

\* The memory of db_proxy is lost.
ParentEnds ==
    /\ up
    /\ restarts < MaxRestarts
    /\ restarts' = restarts + 1
    /\ up' = FALSE
    /\ wpc' = "idle"
    /\ path' = None
    /\ fd' = None
    /\ gone' = FALSE

\* db_proxy stops or dies, between the system calls of write_log() or after the
\* statement has been written.
ParentDown ==
    /\ ParentEnds
    /\ \/ WriteSql(FALSE)
       \/ UNCHANGED <<diskVars, written, acked, skipped>>
    /\ UNCHANGED <<faults, processVars>>

\* Started again: init() waits a second, so that the child has ended.
ParentStart ==
    /\ ~up /\ pc = "down"
    /\ up' = TRUE
    /\ UNCHANGED <<diskVars, wpc, path, fd, gone, written, acked, skipped, faults,
                   restarts, processVars>>

\* Power is lost: of the log what was synced is kept for sure, of sql.progress,
\* which nobody syncs, any contents it has had.
PowerLoss ==
    /\ ParentEnds
    /\ faults < MaxFaults
    /\ faults' = faults + 1
    /\ ChildEnds
    /\ \E k \in [dir -> 0..MaxSql] :
          /\ \A n \in dir : synced[n] <= k[n] /\ k[n] <= Len(data[n])
          /\ data' = [n \in Names |-> IF n \in dir THEN SubSeq(data[n], 1, k[n]) ELSE data[n]]
          /\ synced' = [n \in Names |-> IF n \in dir THEN k[n] ELSE synced[n]]
    /\ progress' \in stale
    /\ stale' = {progress'}
    /\ UNCHANGED <<dir, history, lastName, written, acked, skipped>>

Next ==
    \/ \E gap \in Gaps : Rotate(gap) /\ UNCHANGED processVars
    \/ (OpenLog \/ KeepLog \/ WriteLog) /\ UNCHANGED processVars
    \/ (OpenLogFailed \/ WriteLogFailed) /\ UNCHANGED processVars
    \/ ChildStep
    \/ UpdateLost
    \/ CommitLost
    \/ LoseConnection
    \/ LeaveFile
    \/ ChildCrash
    \/ ParentDown
    \/ ParentStart
    \/ PowerLoss

Spec == Init /\ [][Next]_vars

\* The child is scheduled and started again, and so is db_proxy.
LiveSpec == Spec /\ WF_vars(ChildStep) /\ WF_vars(ParentStart)

-----------------------------------------------------------------------------
\* Type invariant of the files, the writer and the child process.
TypeOK == LoggerTypeOK /\ ProcessTypeOK

Elements(s) == {s[i] : i \in DOMAIN s}

\* Statements that the child will come to, from what sql.progress says.
Ahead ==
    UNION {{data[f][i] : i \in {j \in DOMAIN data[f] :
                                   f > progress.file \/ j > progress.offset}} :
           f \in {g \in dir : g >= progress.file}}

\* Statements that will never be executed, though the client was told they are
\* written and MySQL has not refused them.
Lost == acked \ (Elements(table) \cup refused \cup Elements(txn) \cup Ahead)

\* What db_proxy loses at the worst: the open transaction, whose statements
\* sql.progress already counts as done, when the session or the child ends; per
\* restart what is written to a file that is being archived or, once open() has
\* created it again under the name that sql.progress has, before the offset there;
\* and the rest of a file that handle_file gave up on, as the next file then moves
\* sql.progress past it.
LossBounded ==
    Cardinality(Lost) <= (batch - 1) * (faults + restarts) + FileSize * (restarts + left)

\* "SQL first goes to a file and a process of its own takes it to the database"
\* (config_loader.h:82): no statement that was written is lost.
NoLoss == Lost = {}

\* Without batches and errors of files, statements get into the database in the
\* order they were logged in; only ones that are already there are executed again
\* out of turn.  It takes a restart and another fault to break this: what the child
\* passes over in a file that was created again (LossBounded) comes back, behind
\* later statements, when an older sql.progress does or the file is not archived.
InOrder ==
    batch = 1 /\ left = 0 /\ (restarts = 0 \/ faults = 0)
    => \A i, j \in DOMAIN table : i < j /\ table[j] < table[i]
                    => \E k \in 1..(i - 1) : table[k] = table[j]

\* A statement is executed again only for a fault: a crash between executing it
\* and noting it, an answer of MySQL that is lost, a file that is not archived.
RepeatBounded ==
    \A s \in 1..MaxSql :
        Cardinality({i \in DOMAIN table : table[i] = s}) <= 1 + faults + restarts

\* Across all restarts of the child: in the file that sql.progress names nothing
\* is executed that it counts as done (the lseek() of handle_file), if no error of a
\* file has kept it from being written.
NotRedone ==
    [][left = 0 /\ table' # table /\ file = progress.file => offset > progress.offset]_vars

\* Without batches a statement that was written reaches the database in the end,
\* or is refused or lost, whatever crashes lie between; unless the last file could
\* not be opened after a restart, or handle_file gave up on a file: the child may
\* then wait for ever for the rest of one that gets no more.
Delivered ==
    \A s \in 1..MaxSql :
        batch = 1 /\ s \in acked
        ~> s \in Elements(table) \cup refused \cup Lost \/ skipped \/ left > 0
=============================================================================
