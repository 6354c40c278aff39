----------------------------- MODULE DbProcess -----------------------------
(***************************************************************************)
(* CDbProcess (application/dbproxy/src/db_process.cpp): the child process  *)
(* that reads the SQL log, executes its statements in MySQL, notes how far *)
(* it has come in sql.progress and archives the files it has finished.     *)
(* The connection reconnects by itself, and is then in autocommit mode     *)
(* again, whatever connect_db() has set.                                   *)
(***************************************************************************)
EXTENDS SqlLogger

CONSTANTS
    Batches,     \* values of argument::batch
    Rejected,    \* statements that MySQL refuses, and not for a lost connection
    Garbage      \* names in a Progress that was never set: the memset() of its
                 \* constructor clears nothing

ASSUME ProcessAssumption ==
    /\ Batches \subseteq Nat \ {0} /\ Rejected \subseteq 1..MaxSql
    /\ Garbage \subseteq Nat

VARIABLES
    batch,       \* argument::batch
    progress,    \* contents of sql.progress: [file, offset]; file None if empty
    stale,       \* older contents that a loss of power may bring back
    pc,          \* "down"; "dir" and "file" in handle_directory; "read", "update"
                 \* and "progress" in handle_file
    done,        \* _progress
    todo,        \* files of the listing that are still to be handled
    file,        \* filename of handle_file
    offset,      \* offset of handle_file
    nbatch,      \* _batch
    auto,        \* the session is in autocommit mode
    broken,      \* the connection was lost in a transaction: the next call fails
    txn,         \* statements of the open transaction
    table,       \* statements executed and committed, in order
    refused,     \* history: statements that were skipped
    left         \* history: how often handle_file gave up on a file

childVars == <<pc, done, todo, file, offset>>
dbVars == <<nbatch, auto, broken, txn, table, refused>>
processVars == <<batch, progress, stale, childVars, dbVars, left>>

Position(f, o) == [file |-> f, offset |-> o]

ProcessInit ==
    /\ batch \in Batches
    /\ progress = Position(None, 0)
    /\ stale = {progress}
    /\ pc = "down"
    /\ done = progress
    /\ todo = {}
    /\ file = None
    /\ offset = 0
    /\ nbatch = 0
    /\ auto = TRUE
    /\ broken = FALSE
    /\ txn = <<>>
    /\ table = <<>>
    /\ refused = {}
    /\ left = 0

ProcessTypeOK ==
    LET Positions == [file : Names \cup {None} \cup Garbage, offset : 0..MaxSql]
    IN  /\ batch \in Batches
        /\ progress \in Positions /\ done \in Positions /\ stale \subseteq Positions
        /\ pc \in {"down", "dir", "file", "read", "update", "progress"}
        /\ todo \subseteq Names
        /\ file \in Names \cup {None} /\ offset \in 0..MaxSql
        /\ nbatch \in 0..(batch - 1 + faults) /\ auto \in BOOLEAN /\ broken \in BOOLEAN
        /\ txn \in Seq(1..MaxSql) /\ table \in Seq(1..MaxSql)
        /\ refused \subseteq 1..MaxSql
        /\ left \in 0..faults

-----------------------------------------------------------------------------
(* run and handle_directory                                                *)

\* get_progress, open_progress and connect_db.
ChildStart ==
    /\ up /\ pc = "down"
    /\ \/ progress.file # None /\ done' = progress
       \/ progress.file = None /\ \E g \in Garbage : done' = Position(g, 0)
    /\ pc' = "dir"
    /\ nbatch' = 0
    /\ auto' = (batch <= 1)
    /\ broken' = FALSE
    /\ UNCHANGED <<diskVars, writerVars, faults, restarts, left, batch, progress, stale,
                   todo, file, offset, txn, table, refused>>

\* The names that are in the directory at this moment.
ListDirectory ==
    /\ pc = "dir"
    /\ dir # {}
    /\ todo' = dir
    /\ pc' = "file"
    /\ UNCHANGED <<diskVars, writerVars, faults, restarts, left, batch, progress, stale,
                   done, file, offset, dbVars>>

EndDirectory ==
    /\ pc = "file"
    /\ todo = {}
    /\ pc' = "dir"
    /\ UNCHANGED <<diskVars, writerVars, faults, restarts, left, batch, progress, stale,
                   done, todo, file, offset, dbVars>>

\* Mutant: the file is not moved away.
ArchiveFileNot(f) == UNCHANGED <<diskVars, gone, faults>>

\* archive_file; a rename that fails is only logged.
ArchiveFile(f) ==
    \/ /\ Archive(f)
       /\ UNCHANGED faults
    \/ /\ faults < MaxFaults
       /\ faults' = faults + 1
       /\ UNCHANGED <<diskVars, gone>>

\* file_handled: strcmp() compared with -1, so only a difference of one will do.
FileHandled(f) == done.file # None /\ f - done.file = -1

\* Mutant: the names are not sorted.
FirstAny(f) == f \in todo

\* The names are sorted.
First(f) == f \in todo /\ \A g \in todo : f <= g

\* The file comes before the one in progress: it is only archived.
SkipFile(f) ==
    /\ pc = "file"
    /\ First(f) /\ FileHandled(f)
    /\ todo' = todo \ {f}
    /\ ArchiveFile(f)
    /\ UNCHANGED <<up, wpc, path, fd, written, acked, skipped, restarts, left, batch,
                   progress, stale, pc, done, file, offset, dbVars>>

\* Mutant: a file is always read from its start.
SeekStart(f) == 0

\* lseek to where the progress is, if it is in this file.
Seek(f) == IF f = done.file THEN done.offset ELSE 0

OpenFile(f) ==
    /\ pc = "file"
    /\ First(f) /\ ~FileHandled(f)
    /\ todo' = todo \ {f}
    /\ file' = f
    /\ offset' = Seek(f)
    /\ pc' = "read"
    /\ UNCHANGED <<diskVars, writerVars, faults, restarts, left, batch, progress, stale,
                   done, dbVars>>

OpenFileFailed(f) ==
    /\ pc = "file"
    /\ First(f) /\ ~FileHandled(f)
    /\ todo' = todo \ {f}
    /\ UNCHANGED done

-----------------------------------------------------------------------------
(* handle_file                                                             *)

\* The length of a statement and its text.
ReadSql ==
    /\ pc = "read"
    /\ offset < Len(data[file])
    /\ offset' = offset + 1
    /\ pc' = "update"
    /\ UNCHANGED <<diskVars, writerVars, faults, restarts, left, batch, progress, stale,
                   done, todo, file, dbVars>>

\* Mutant: the end of the file is taken for its last one.
IsOverAlways == TRUE

\* is_over
IsOver == offset >= FileSize

\* No more data in a file that is full; one that is not is read again.
EndOfFile ==
    /\ pc = "read"
    /\ offset >= Len(data[file])
    /\ IsOver
    /\ ArchiveFile(file)
    /\ pc' = "file"
    /\ file' = None
    /\ offset' = 0
    /\ UNCHANGED <<up, wpc, path, fd, written, acked, skipped, restarts, left, batch,
                   progress, stale, done, todo, dbVars>>

Sql == data[file][offset]

\* _batch after a commit
Committed == 0

\* The statement is executed, and committed if the session is in autocommit
\* mode or the transaction is large or old enough.
UpdateOk ==
    /\ pc = "update"
    /\ ~broken
    /\ Sql \notin Rejected
    /\ LET open == Append(txn, Sql)
       IN  \/ /\ batch > 1
              /\ nbatch + 1 < batch
              /\ nbatch' = nbatch + 1
              /\ txn' = IF auto THEN txn ELSE open
              /\ table' = IF auto THEN table \o open ELSE table
           \/ /\ nbatch' = Committed
              /\ txn' = <<>>
              /\ table' = table \o open
    /\ pc' = "progress"
    /\ UNCHANGED <<diskVars, writerVars, faults, restarts, left, batch, progress, stale,
                   done, todo, file, offset, auto, broken, refused>>

\* Any other error than a lost connection: on to the next statement.
UpdateRefused ==
    /\ pc = "update"
    /\ ~broken
    /\ Sql \in Rejected
    /\ refused' = refused \cup {Sql}
    /\ pc' = "read"
    /\ UNCHANGED <<diskVars, writerVars, faults, restarts, left, batch, progress, stale,
                   done, todo, file, offset, nbatch, auto, broken, txn, table>>

\* CR_SERVER_GONE_ERROR: the connection was lost in a transaction; try again.
UpdateGone ==
    /\ pc = "update"
    /\ broken
    /\ broken' = FALSE
    /\ UNCHANGED <<diskVars, writerVars, faults, restarts, left, batch, progress, stale,
                   childVars, nbatch, auto, txn, table, refused>>

\* CR_SERVER_LOST from update(): MySQL may have executed the statement or not,
\* and the open transaction is gone; try again.
UpdateLost ==
    /\ pc = "update"
    /\ ~broken
    /\ faults < MaxFaults
    /\ faults' = faults + 1
    /\ \/ table' = table
       \/ auto /\ Sql \notin Rejected /\ table' = Append(table, Sql)
    /\ txn' = <<>>
    /\ auto' = TRUE
    /\ UNCHANGED <<diskVars, writerVars, restarts, left, batch, progress, stale,
                   childVars, nbatch, broken, refused>>

\* The same from commit(): the transaction is committed or gone, and the
\* statement is executed again.
CommitLost ==
    /\ pc = "update"
    /\ ~broken
    /\ Sql \notin Rejected
    /\ batch > 1
    /\ faults < MaxFaults
    /\ faults' = faults + 1
    /\ nbatch' = nbatch + 1
    /\ \/ table' = table \o Append(txn, Sql)
       \/ ~auto /\ table' = table
    /\ txn' = <<>>
    /\ auto' = TRUE
    /\ UNCHANGED <<diskVars, writerVars, restarts, left, batch, progress, stale,
                   childVars, broken, refused>>

\* update_progress
SaveProgress ==
    /\ pc = "progress"
    /\ done' = Position(file, offset)
    /\ progress' = done'
    /\ stale' = stale \cup {done'}
    /\ pc' = "read"
    /\ UNCHANGED <<diskVars, writerVars, faults, restarts, left, batch, todo, file,
                   offset, dbVars>>

-----------------------------------------------------------------------------
(* Faults.                                                                 *)

\* open() or read() fails, or the pwrite() of update_progress: handle_file
\* returns, and handle_directory goes on to the next file.
LeaveFile ==
    /\ \/ \E f \in todo : OpenFileFailed(f)
       \/ /\ pc = "read"
          /\ UNCHANGED <<todo, done>>
       \/ /\ pc = "progress"
          /\ done' = Position(file, offset)
          /\ UNCHANGED todo
    /\ faults < MaxFaults
    /\ faults' = faults + 1
    /\ left' = left + 1
    /\ pc' = "file"
    /\ file' = None
    /\ offset' = 0
    /\ UNCHANGED <<diskVars, writerVars, restarts, batch, progress, stale, dbVars>>

\* MySQL ends the session between two calls; it reconnects at the next one.
LoseConnection ==
    /\ pc # "down"
    /\ faults < MaxFaults
    /\ faults' = faults + 1
    /\ txn' = <<>>
    /\ broken' = (broken \/ txn # <<>>)
    /\ auto' = TRUE
    /\ UNCHANGED <<diskVars, writerVars, restarts, left, batch, progress, stale,
                   childVars, nbatch, table, refused>>

\* The process ends, and with it the session.
ChildEnds ==
    /\ pc' = "down"
    /\ done' = Position(None, 0)
    /\ todo' = {}
    /\ file' = None
    /\ offset' = 0
    /\ nbatch' = 0
    /\ auto' = TRUE
    /\ broken' = FALSE
    /\ txn' = <<>>
    /\ UNCHANGED <<left, batch, table, refused>>

\* parent_process_not_exists, or SIGTERM, at the head of one of the loops.
ChildExit ==
    /\ ~up
    /\ pc \in {"dir", "file", "read", "update"}
    /\ ChildEnds
    /\ UNCHANGED <<diskVars, writerVars, faults, restarts, progress, stale>>

\* Killed by a signal; on_child_end() of the parent starts it again.
ChildCrash ==
    /\ pc # "down"
    /\ faults < MaxFaults
    /\ faults' = faults + 1
    /\ ChildEnds
    /\ UNCHANGED <<diskVars, writerVars, restarts, progress, stale>>

ChildStep ==
    \/ ChildStart
    \/ ListDirectory
    \/ EndDirectory
    \/ \E f \in todo : SkipFile(f) \/ OpenFile(f)
    \/ ReadSql
    \/ EndOfFile
    \/ UpdateOk
    \/ UpdateRefused
    \/ UpdateGone
    \/ SaveProgress
    \/ ChildExit
=============================================================================
