----------------------------- MODULE SqlLogger -----------------------------
(***************************************************************************)
(* The SQL log of db_proxy: the directory of log files that two processes  *)
(* share, and CSqlLogger (application/dbproxy/src/sql_logger.cpp), which   *)
(* appends the statements of the clients to the last file.  write_log()    *)
(* holds a lock, so one thread stands for all; the other process may act   *)
(* between its system calls.                                               *)
(*                                                                         *)
(* A statement is its number in the order of the calls of write_log(), a   *)
(* file the sequence of its statements.  Names of files grow with the time *)
(* and are numbers here; their difference stands for that of the first     *)
(* bytes that differ.                                                      *)
(***************************************************************************)
EXTENDS Integers, Sequences, FiniteSets

CONSTANTS
    FileSize,      \* argument::sql_file_size, in statements
    Lines,         \* argument::lines, 0 or 1: fdatasync after every statement
    Gaps,          \* differences between one name and the next
    MaxSql,        \* bound: statements
    MaxName,       \* bound: names of files
    MaxFaults,     \* bound: crashes, lost connections and failing renames
    MaxRestarts    \* bound: restarts of db_proxy, with its machine or without

ASSUME LoggerAssumption ==
    /\ FileSize \in Nat \ {0} /\ Lines \in {0, 1}
    /\ Gaps \subseteq Nat \ {0} /\ Gaps # {}
    /\ MaxSql \in Nat /\ MaxName \in Nat
    /\ MaxFaults \in Nat /\ MaxRestarts \in Nat

Names == 1..MaxName

None == 0    \* no file name: an empty string, and -1 for a descriptor

VARIABLES
    dir,        \* files in the log directory
    data,       \* statements in the file of this name
    synced,     \* how many of them are on the disk for sure
    history,    \* statements in the archived file of this name
    lastName,   \* largest name given so far
    up,         \* db_proxy runs
    wpc,        \* write_log: "idle", "open" or "write"
    path,       \* _log_filepath
    fd,         \* _log_fd: the file it was opened as
    gone,       \* that file has been archived since
    written,    \* statements so far
    acked,      \* history: statements whose write_log() returned true
    skipped,    \* history: the last file could not be opened and was passed over
    faults,     \* faults so far
    restarts    \* restarts so far

diskVars == <<dir, data, synced, history, lastName>>
writerVars == <<up, wpc, path, fd, gone, written, acked, skipped>>

LoggerInit ==
    /\ dir = {}
    /\ data = [n \in Names |-> <<>>]
    /\ synced = [n \in Names |-> 0]
    /\ history = [n \in Names |-> <<>>]
    /\ lastName = 0
    /\ up = TRUE
    /\ wpc = "idle"
    /\ path = None
    /\ fd = None
    /\ gone = FALSE
    /\ written = 0
    /\ acked = {}
    /\ skipped = FALSE
    /\ faults = 0
    /\ restarts = 0

LoggerTypeOK ==
    /\ dir \subseteq Names
    /\ data \in [Names -> Seq(1..MaxSql)]
    /\ synced \in [Names -> 0..MaxSql]
    /\ history \in [Names -> Seq(1..MaxSql)]
    /\ lastName \in 0..MaxName
    /\ up \in BOOLEAN
    /\ wpc \in {"idle", "open", "write"}
    /\ path \in Names \cup {None} /\ fd \in Names \cup {None}
    /\ gone \in BOOLEAN
    /\ written \in 0..MaxSql
    /\ acked \subseteq 1..MaxSql
    /\ skipped \in BOOLEAN

-----------------------------------------------------------------------------
\* The file that _log_fd refers to, wherever it is now.
Open == IF gone THEN history[fd] ELSE data[fd]

Largest(S) == CHOOSE n \in S : \A m \in S : m <= n

\* need_rotate, of the file that is open
NeedRotate == Len(Open) >= FileSize

\* Mutant: the last file is not taken up again after a restart.
NextPathFresh(gap) == lastName + gap

\* get_last_log_filepath for the first file, then get_log_filepath.
NextPath(gap) == IF path = None /\ dir # {} THEN Largest(dir) ELSE lastName + gap

\* rotate_log up to the name of the file, with its fsync and close.
Rotate(gap) ==
    /\ up /\ wpc = "idle"
    /\ written < MaxSql
    /\ fd # None => NeedRotate
    /\ NextPath(gap) \in Names
    /\ synced' = IF fd = None \/ gone THEN synced
                 ELSE [synced EXCEPT ![fd] = Len(data[fd])]
    /\ path' = NextPath(gap)
    /\ lastName' = Largest({lastName, path'})
    /\ fd' = None
    /\ gone' = FALSE
    /\ wpc' = "open"
    /\ UNCHANGED <<dir, data, history, up, written, acked, skipped, faults,
                   restarts>>

\* open(O_CREAT|O_APPEND): the file that has the name now, or a new one.
OpenLog ==
    /\ up /\ wpc = "open"
    /\ dir' = dir \cup {path}
    /\ fd' = path
    /\ wpc' = "write"
    /\ UNCHANGED <<data, synced, history, lastName, up, path, gone, written,
                   acked, skipped, faults, restarts>>

\* It fails: write_log returns false, and the next one takes a new name.
OpenLogFailed ==
    /\ up /\ wpc = "open"
    /\ faults < MaxFaults
    /\ faults' = faults + 1
    /\ skipped' = (skipped \/ path \in dir)
    /\ wpc' = "idle"
    /\ UNCHANGED <<diskVars, up, path, fd, gone, written, acked, restarts>>

\* The descriptor will do.
KeepLog ==
    /\ up /\ wpc = "idle"
    /\ written < MaxSql
    /\ fd # None /\ ~NeedRotate
    /\ wpc' = "write"
    /\ UNCHANGED <<diskVars, up, path, fd, gone, written, acked, skipped, faults,
                   restarts>>

\* writev, fdatasync and the return; without its end where fdatasync fails or
\* db_proxy dies.
WriteSql(end) ==
    /\ up /\ wpc = "write"
    /\ written' = written + 1
    /\ IF gone
       THEN /\ history' = [history EXCEPT ![fd] = Append(@, written')]
            /\ UNCHANGED <<data, synced>>
       ELSE /\ data' = [data EXCEPT ![fd] = Append(@, written')]
            /\ synced' = IF end /\ Lines = 1 THEN [synced EXCEPT ![fd] = Len(data'[fd])]
                         ELSE synced
            /\ UNCHANGED history
    /\ acked' = IF end THEN acked \cup {written'} ELSE acked
    /\ UNCHANGED <<dir, lastName, skipped>>

WriteLog ==
    /\ WriteSql(TRUE)
    /\ wpc' = "idle"
    /\ UNCHANGED <<up, path, fd, gone, faults, restarts>>

\* writev writes nothing, or fdatasync fails: write_log returns false.
WriteLogFailed ==
    /\ up /\ wpc = "write"
    /\ faults < MaxFaults
    /\ faults' = faults + 1
    /\ WriteSql(FALSE) \/ UNCHANGED <<diskVars, written, acked, skipped>>
    /\ wpc' = "idle"
    /\ UNCHANGED <<up, path, fd, gone, restarts>>

\* rename() into the history directory, by the other process: the file of that
\* name there is replaced.
Archive(n) ==
    /\ dir' = dir \ {n}
    /\ history' = [history EXCEPT ![n] = data[n]]
    /\ data' = [data EXCEPT ![n] = <<>>]
    /\ synced' = [synced EXCEPT ![n] = 0]
    /\ gone' = (gone \/ fd = n)
    /\ UNCHANGED lastName
=============================================================================
