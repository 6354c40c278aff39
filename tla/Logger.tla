------------------------------- MODULE Logger -------------------------------
(***************************************************************************)
(* sys::CLogger and the one sys::CLogThread of a process (sys/logger.cpp). *)
(* Threads put messages into the bounded queue of a logger, under its      *)
(* lock, and a byte into its pipe; the log thread waits on all pipes with  *)
(* a level-triggered epoll, takes one message per event and writes it to   *)
(* the logger's file, which it rotates.  destroy() puts an empty message   *)
(* into the queue, gives its reference up and stops the log thread, which  *)
(* ends when no message is left.                                           *)
(*                                                                         *)
(* The build has HAVE_UIO_H 0 (sys/config.h), so messages are written one  *)
(* by one (single_write).  A message counts as one byte of the file.       *)
(***************************************************************************)
EXTENDS Naturals, FiniteSets, Sequences

CONSTANTS
    Loggers,
    Writers,      \* threads that log
    Owner,        \* the thread that creates and destroys the loggers
    Nobody,       \* no holder of a lock, no logger
    NoFile,       \* a file that does not exist
    QueueSize,    \* log_queue_size
    PipeSize,     \* bytes a pipe holds
    MaxBytes,     \* _max_bytes
    Backups,      \* _backup_number
    Careful,      \* loggers are destroyed as MayDestroy says
    MaxLogs,      \* bound: messages
    MaxFaults,    \* bound: failing calls of open() and write()
    MaxUnlinks    \* bound: log files that an administrator deletes

ASSUME LoggerAssumption ==
    /\ IsFiniteSet(Writers) /\ IsFiniteSet(Loggers)
    /\ Owner \notin Writers /\ Nobody \notin Writers \cup Loggers \cup {Owner}
    /\ QueueSize \in Nat \ {0} /\ PipeSize \in Nat \ {0}
    /\ MaxBytes \in Nat /\ Backups \in Nat /\ Careful \in BOOLEAN
    /\ MaxLogs \in Nat /\ MaxFaults \in Nat /\ MaxUnlinks \in Nat

Actors == Writers \cup {Owner}
Stop == 0                \* the message of length 0

VARIABLES
    logger,     \* the members of each CLogger; refs = 0: deleted
    files,      \* its file (0) and the backups 1, 2, ...: what is in them
    lock,       \* who holds its _queue_lock between push_back and send_signal
    thread,     \* the CLogThread and where it is
    pc, on, msg,            \* where each actor is, in which logger, and its message
    calls, faults, unlinks, \* counters for the bounds
    accepted, written,      \* history: messages queued and written, per logger
    gone                    \* history: messages in deleted files

actorVars == <<pc, on, msg, calls>>
fileVars == <<files, faults, unlinks, written, gone>>
vars == <<logger, files, lock, thread, pc, on, msg, calls, faults, unlinks,
          accepted, written, gone>>

NoThread ==
    [at |-> "none", stop |-> FALSE, pipe |-> 0, number |-> 0, refs |-> 0,
     batch |-> {}, cur |-> Nobody, held |-> Stop]

NewLogger ==
    [created |-> FALSE, destroying |-> FALSE, fd |-> FALSE, registered |-> FALSE,
     refs |-> 0, queue |-> <<>>, waiters |-> 0, pipe |-> 0, bytes |-> 0]

Init ==
    /\ logger = [l \in Loggers |-> NewLogger]
    /\ files = [l \in Loggers |-> [i \in 0..Backups |-> NoFile]]
    /\ lock = [l \in Loggers |-> Nobody]
    /\ thread = NoThread
    /\ pc = [a \in Actors |-> "idle"]
    /\ on = [a \in Actors |-> Nobody]
    /\ msg = [a \in Actors |-> Stop]
    /\ calls = 0
    /\ faults = 0
    /\ unlinks = 0
    /\ accepted = [l \in Loggers |-> <<>>]
    /\ written = [l \in Loggers |-> <<>>]
    /\ gone = {}

-----------------------------------------------------------------------------
(* Putting a message into the queue.                                       *)

\* The actors in call of _queue_event.wait(), and those on their way out.
Parked(l) == {a \in Actors : pc[a] = "parked" /\ on[a] = l}
Woken(l) == {a \in Actors : pc[a] = "woken" /\ on[a] = l}

\* push_log_message from the test on, with lock and with n threads counted as
\* waiting beside this one: the actor waits, or queues m and keeps the lock.
push_log_message(a, l, m, lg, n) ==
    /\ lock[l] = Nobody
    /\ thread.at # "none"
    /\ on' = [on EXCEPT ![a] = l]
    /\ msg' = [msg EXCEPT ![a] = m]
    /\ \/ /\ Len(lg.queue) = QueueSize
          /\ logger' = [logger EXCEPT ![l] = [lg EXCEPT !.waiters = n + 1]]
          /\ pc' = [pc EXCEPT ![a] = "parked"]
          /\ UNCHANGED <<lock, thread, accepted>>
       \/ /\ Len(lg.queue) < QueueSize
          /\ logger' = [logger EXCEPT ![l] = [lg EXCEPT !.waiters = n,
                                                        !.queue = Append(@, m)]]
          /\ thread' = [thread EXCEPT !.number = @ + 1]
          /\ lock' = [lock EXCEPT ![l] = a]
          /\ pc' = [pc EXCEPT ![a] = "signal"]
          /\ accepted' = [accepted EXCEPT ![l] = IF m = Stop THEN @ ELSE Append(@, m)]

\* do_log; a call that finds _destroying has no effect.
Log(w, l) ==
    /\ pc[w] = "idle"
    /\ logger[l].created /\ ~logger[l].destroying
    /\ calls < MaxLogs
    /\ calls' = calls + 1
    /\ push_log_message(w, l, calls + 1, logger[l], logger[l].waiters)
    /\ UNCHANGED fileVars

\* Mutant: _waiter_number is not counted down.
WaitReturnsCounted(a) ==
    LET l == on[a]
    IN  /\ pc[a] = "woken"
        /\ push_log_message(a, l, msg[a], logger[l], logger[l].waiters)
        /\ UNCHANGED <<calls, fileVars>>

\* wait() returns with the lock.
WaitReturns(a) ==
    LET l == on[a]
    IN  /\ pc[a] = "woken"
        /\ push_log_message(a, l, msg[a], logger[l], logger[l].waiters - 1)
        /\ UNCHANGED <<calls, fileVars>>

\* send_signal, and the end of the call: of do_log, or of the first block of
\* destroy().  write() blocks while the pipe is full.
SendSignal(a) ==
    LET l == on[a]
    IN  /\ pc[a] = "signal"
        /\ logger[l].pipe < PipeSize
        /\ logger' = [logger EXCEPT ![l].pipe = @ + 1]
        /\ lock' = [lock EXCEPT ![l] = Nobody]
        /\ pc' = [pc EXCEPT ![a] = IF a = Owner THEN "release" ELSE "idle"]
        /\ UNCHANGED <<thread, on, msg, calls, accepted, fileVars>>

SpuriousWakeup(a) ==
    /\ pc[a] = "parked"
    /\ pc' = [pc EXCEPT ![a] = "woken"]
    /\ UNCHANGED <<logger, lock, thread, on, msg, calls, accepted, fileVars>>

-----------------------------------------------------------------------------
(* create() and destroy().                                                 *)

\* One reference is of create(), one of register_logger().  The thread object
\* has one of create_thread() and one of start().
create_thread ==
    IF thread.at = "none"
    THEN [NoThread EXCEPT !.at = "check", !.refs = 2]
    ELSE thread

Create(l) ==
    /\ pc[Owner] = "idle"
    /\ ~logger[l].created
    /\ thread' = create_thread
    /\ files' = [files EXCEPT ![l][0] = <<>>]
    /\ logger' = [logger EXCEPT ![l] =
                     [NewLogger EXCEPT !.created = TRUE, !.fd = TRUE,
                                       !.registered = TRUE, !.refs = 2]]
    /\ UNCHANGED <<lock, actorVars, faults, unlinks, accepted, written, gone>>

\* What the program has to see to: no call is in the logger (logger.h:93), and
\* it is the last one in use.
MayDestroy(l) ==
    Careful => /\ \A w \in Writers : pc[w] # "idle" => on[w] # l
               /\ \A k \in Loggers \ {l} : logger[k].created => logger[k].destroying

Destroy(l) ==
    /\ pc[Owner] = "idle"
    /\ logger[l].created /\ ~logger[l].destroying
    /\ MayDestroy(l)
    /\ push_log_message(Owner, l, Stop, [logger[l] EXCEPT !.destroying = TRUE],
                        logger[l].waiters)
    /\ UNCHANGED <<calls, fileVars>>

\* dec_refcount() of destroy().
Release ==
    /\ pc[Owner] = "release"
    /\ logger' = [logger EXCEPT ![on[Owner]].refs = @ - 1]
    /\ pc' = [pc EXCEPT ![Owner] = "stop"]
    /\ UNCHANGED <<lock, thread, on, msg, calls, accepted, fileVars>>

\* CThread::stop: the flag, then the signal of before_stop, then join.
StopFlag ==
    /\ pc[Owner] = "stop"
    /\ thread.refs = 2
    /\ thread' = [thread EXCEPT !.stop = TRUE]
    /\ pc' = [pc EXCEPT ![Owner] = "wake"]
    /\ UNCHANGED <<logger, lock, on, msg, calls, accepted, fileVars>>

\* Mutant: no byte is put into the pipe of the thread.
BeforeStopSilent ==
    /\ pc[Owner] = "wake"
    /\ pc' = [pc EXCEPT ![Owner] = "join"]
    /\ UNCHANGED <<logger, lock, thread, on, msg, calls, accepted, fileVars>>

BeforeStop ==
    /\ pc[Owner] = "wake"
    /\ thread' = [thread EXCEPT !.pipe = @ + 1]
    /\ pc' = [pc EXCEPT ![Owner] = "join"]
    /\ UNCHANGED <<logger, lock, on, msg, calls, accepted, fileVars>>

\* Mutant: _log_thread keeps its value, so that no other thread is started.
JoinKeepsThread ==
    /\ pc[Owner] = "join"
    /\ thread.at = "exited"
    /\ pc' = [pc EXCEPT ![Owner] = "idle"]
    /\ UNCHANGED <<logger, lock, thread, on, msg, calls, accepted, fileVars>>

\* pthread_join returns, and _log_thread is set to NULL.
Join ==
    /\ pc[Owner] = "join"
    /\ thread.at = "exited"
    /\ thread' = NoThread
    /\ pc' = [pc EXCEPT ![Owner] = "idle"]
    /\ UNCHANGED <<logger, lock, on, msg, calls, accepted, fileVars>>

-----------------------------------------------------------------------------
(* The files.                                                              *)

need_create_file(l) == files[l][0] = NoFile
need_rotate_file(l) == logger[l].bytes > MaxBytes

\* rename(), whose result rotate_file() does not look at.
Renamed(f, i) ==
    IF f[i - 1] = NoFile THEN f
    ELSE [f EXCEPT ![i] = f[i - 1], ![i - 1] = NoFile]

\* Mutant: from the newest file to the oldest.
rotate_up(f) ==
    LET r[i \in 0..Backups] == IF i = 0 THEN f ELSE Renamed(r[i - 1], i) IN r[Backups]

\* From the oldest file to the newest.
rotate_file(f) ==
    LET r[i \in 0..Backups] == IF i = 0 THEN f ELSE Renamed(r[i - 1], Backups + 1 - i)
    IN  r[Backups]

\* What prewrite() leaves of the files before create_logfile().
Moved(l) ==
    IF ~need_create_file(l) /\ need_rotate_file(l) THEN rotate_file(files[l])
    ELSE files[l]

\* Mutant: no reference is taken.
RegisteredUncounted(lg) == [lg EXCEPT !.registered = TRUE]

\* register_logger and remove_logger.
Registered(lg) == [lg EXCEPT !.registered = TRUE, !.refs = @ + 1]

Removed(lg) ==
    IF lg.registered THEN [lg EXCEPT !.registered = FALSE, !.refs = @ - 1] ELSE lg

close_logfile(lg) == [Removed(lg) EXCEPT !.fd = FALSE]

\* execute() returns: the reference of its CRefCountHelper goes.
Executed(lg) == [lg EXCEPT !.refs = @ - 1]

-----------------------------------------------------------------------------
(* CLogThread::run.                                                        *)

\* Mutant: the thread does not look at the number of messages.
ExitNowIfTold == thread.stop

MayExit == thread.stop /\ thread.number = 0

\* The test of the loop; at the end thread_proc gives its reference up.
Check ==
    /\ thread.at = "check"
    /\ thread' = IF MayExit THEN [thread EXCEPT !.at = "exited", !.refs = @ - 1]
                 ELSE [thread EXCEPT !.at = "wait"]
    /\ UNCHANGED <<logger, lock, actorVars, accepted, fileVars>>

\* Those whose pipes are not empty; Nobody stands for the thread itself.
Ready ==
    {l \in Loggers : logger[l].registered /\ logger[l].pipe > 0}
        \cup (IF thread.pipe > 0 THEN {Nobody} ELSE {})

EpollWait ==
    /\ thread.at = "wait"
    /\ Ready # {}
    /\ thread' = [thread EXCEPT !.at = "batch", !.batch = Ready]
    /\ UNCHANGED <<logger, lock, actorVars, accepted, fileVars>>

EndOfBatch ==
    /\ thread.at = "batch" /\ thread.batch = {}
    /\ thread' = [thread EXCEPT !.at = "check"]
    /\ UNCHANGED <<logger, lock, actorVars, accepted, fileVars>>

\* CLogThread::execute.
ReadOwnSignal ==
    /\ thread.at = "batch" /\ Nobody \in thread.batch
    /\ thread' = [thread EXCEPT !.batch = @ \ {Nobody}, !.pipe = @ - 1]
    /\ UNCHANGED <<logger, lock, actorVars, accepted, fileVars>>

\* CLogger::execute up to single_write: the file is created anew or rotated if
\* need be, which takes the logger out of epoll and back into it.
Prewrite(l) ==
    LET open == [Moved(l) EXCEPT ![0] = IF @ = NoFile \/ Backups = 0 THEN <<>> ELSE @]
        lg   == [logger[l] EXCEPT !.refs = @ + 1]
    IN  /\ thread.at = "batch" /\ l \in thread.batch
        /\ thread' = [thread EXCEPT !.at = "pop", !.batch = @ \ {l}, !.cur = l]
        /\ \/ /\ need_create_file(l) \/ need_rotate_file(l)
              /\ files' = [files EXCEPT ![l] = open]
              /\ logger' = [logger EXCEPT ![l] =
                    [Registered(close_logfile(lg)) EXCEPT !.fd = TRUE,
                                                          !.bytes = Len(open[0])]]
           \/ /\ ~need_create_file(l) /\ ~need_rotate_file(l)
              /\ logger' = [logger EXCEPT ![l] = lg]
              /\ UNCHANGED files
        /\ UNCHANGED <<lock, actorVars, accepted, faults, unlinks, written, gone>>

\* open() fails: the logger stays out of epoll, without a file.
PrewriteFails(l) ==
    /\ thread.at = "batch" /\ l \in thread.batch
    /\ need_create_file(l) \/ need_rotate_file(l)
    /\ faults < MaxFaults
    /\ faults' = faults + 1
    /\ thread' = [thread EXCEPT !.batch = @ \ {l}]
    /\ files' = [files EXCEPT ![l] = Moved(l)]
    /\ logger' = [logger EXCEPT ![l] = close_logfile(@)]
    /\ UNCHANGED <<lock, actorVars, accepted, unlinks, written, gone>>

\* Mutant: a waiting thread is signalled only if the queue was full.
PopWakesLast(l) ==
    LET full == Len(logger[l].queue) = QueueSize
    IN  /\ lock[l] = Nobody
        /\ \/ /\ logger[l].waiters > 0 /\ full /\ Parked(l) # {}
              /\ \E a \in Parked(l) : pc' = [pc EXCEPT ![a] = "woken"]
           \/ /\ ~(logger[l].waiters > 0 /\ full /\ Parked(l) # {})
              /\ UNCHANGED pc

\* The signal after pop_front wakes one of the waiting threads.
PopWakes(l) ==
    /\ lock[l] = Nobody
    /\ \/ /\ logger[l].waiters > 0 /\ Parked(l) # {}
          /\ \E a \in Parked(l) : pc' = [pc EXCEPT ![a] = "woken"]
       \/ /\ logger[l].waiters = 0 \/ Parked(l) = {}
          /\ UNCHANGED pc

\* single_write under the lock.
Pop ==
    LET l == thread.cur
    IN  /\ thread.at = "pop"
        /\ PopWakes(l)
        /\ thread' = [thread EXCEPT !.at = "write", !.held = Head(logger[l].queue)]
        /\ logger' = [logger EXCEPT ![l].queue = Tail(@)]
        /\ UNCHANGED <<lock, on, msg, calls, accepted, fileVars>>

\* The rest of single_write: a byte is read from the pipe, the message is
\* counted down and written.
Done == [thread EXCEPT !.at = "batch", !.number = @ - 1, !.cur = Nobody, !.held = Stop]
SignalRead(l) == [logger[l] EXCEPT !.pipe = @ - 1]

Write ==
    LET l == thread.cur
    IN  /\ thread.at = "write" /\ thread.held # Stop
        /\ thread' = Done
        /\ logger' = [logger EXCEPT ![l] = [Executed(SignalRead(l)) EXCEPT !.bytes = @ + 1]]
        /\ written' = [written EXCEPT ![l] = Append(@, thread.held)]
        /\ IF files[l][0] = NoFile
           THEN gone' = gone \cup {thread.held} /\ UNCHANGED files
           ELSE files' = [files EXCEPT ![l][0] = Append(@, thread.held)] /\ UNCHANGED gone
        /\ UNCHANGED <<lock, actorVars, accepted, faults, unlinks>>

\* write() fails: the message is lost and the file is closed.
WriteFails ==
    LET l == thread.cur
    IN  /\ thread.at = "write" /\ thread.held # Stop
        /\ faults < MaxFaults
        /\ faults' = faults + 1
        /\ thread' = Done
        /\ logger' = [logger EXCEPT ![l] = Executed(close_logfile(SignalRead(l)))]
        /\ UNCHANGED <<lock, actorVars, accepted, files, unlinks, written, gone>>

\* The message of destroy(): run() takes the logger out of epoll.
TakeOut ==
    LET l == thread.cur
    IN  /\ thread.at = "write" /\ thread.held = Stop
        /\ thread' = Done
        /\ logger' = [logger EXCEPT ![l] = Removed(Executed(SignalRead(l)))]
        /\ UNCHANGED <<lock, actorVars, accepted, fileVars>>

\* An administrator deletes the log file.
Unlink(l) ==
    /\ unlinks < MaxUnlinks
    /\ files[l][0] # NoFile
    /\ unlinks' = unlinks + 1
    /\ gone' = gone \cup {files[l][0][i] : i \in DOMAIN files[l][0]}
    /\ files' = [files EXCEPT ![l][0] = NoFile]
    /\ UNCHANGED <<logger, lock, thread, actorVars, accepted, faults, written>>

ThreadStep ==
    \/ Check \/ EpollWait \/ EndOfBatch \/ ReadOwnSignal
    \/ \E l \in Loggers : Prewrite(l) \/ PrewriteFails(l)
    \/ Pop \/ Write \/ WriteFails \/ TakeOut

OwnerStep == Release \/ StopFlag \/ BeforeStop \/ Join

Next ==
    \/ \E w \in Writers, l \in Loggers : Log(w, l)
    \/ \E a \in Actors : WaitReturns(a) \/ SendSignal(a) \/ SpuriousWakeup(a)
    \/ \E l \in Loggers : Create(l) \/ Destroy(l) \/ Unlink(l)
    \/ OwnerStep
    \/ ThreadStep

Spec == Init /\ [][Next]_vars

\* The log thread and the owner go on, a woken thread gets the lock, and a byte
\* goes into a pipe that has room.
LiveSpec ==
    /\ Spec
    /\ WF_vars(ThreadStep)
    /\ WF_vars(OwnerStep)
    /\ \A a \in Actors : WF_vars(WaitReturns(a)) /\ WF_vars(SendSignal(a))

-----------------------------------------------------------------------------
\* After an error of open() or write() the logger has no file and is not
\* served again.
Failed(l) == logger[l].created /\ ~logger[l].fd

InUse(l) == logger[l].created /\ ~logger[l].destroying

Messages == 1..MaxLogs

\* Type invariant.  _waiter_number is the number of threads in the wait() of a full
\* queue or on their way out of it, and no more messages are counted than are there.
TypeOK ==
    /\ \A l \in Loggers :
        /\ logger[l].queue \in Seq(Messages \cup {Stop}) /\ Len(logger[l].queue) <= QueueSize
        /\ logger[l].pipe \in 0..PipeSize
        /\ logger[l].waiters = Cardinality(Parked(l) \cup Woken(l))
        /\ logger[l].refs \in 0..3
    /\ lock \in [Loggers -> Actors \cup {Nobody}]
    /\ thread.at \in {"none", "check", "wait", "batch", "pop", "write", "exited"}
    /\ thread.number \in 0..(QueueSize + 1) * Cardinality(Loggers)
    /\ thread.batch \subseteq Loggers \cup {Nobody}
    /\ pc \in [Actors -> {"idle", "parked", "woken", "signal", "release", "stop",
                          "wake", "join"}]

\* "The log thread may end only when all messages have been written"
\* (logger.cpp:894): a thread that has ended leaves no accepted message behind,
\* and wrote those of a logger in the order in which they were queued.
DrainedAtExit ==
    thread.at = "exited" =>
        \A l \in Loggers : Failed(l) \/ written[l] = accepted[l]

\* A thread waits for room only as long as the queue is full or those that are
\* awake will fill it: signal() wakes one thread per message taken, and threads
\* that have not waited may take the room first (logger.cpp:374, 685).
NoStrandedWaiter ==
    \A l \in Loggers :
        Parked(l) # {} => Len(logger[l].queue) + Cardinality(Woken(l)) >= QueueSize

\* A logger that has been deleted (logger.cpp:260, 955) is in no event that
\* the log thread has yet to handle, not in epoll and in no call.
NotUsedDeleted ==
    \A l \in Loggers :
        logger[l].created /\ logger[l].refs = 0 =>
            /\ ~logger[l].registered
            /\ l \notin thread.batch /\ l # thread.cur
            /\ \A a \in Actors : on[a] = l => pc[a] \in {"idle", "stop", "wake", "join"}

\* Many loggers, one thread (logger.h:19): a logger in use has a log thread that
\* runs and has not been told to stop.
ThreadServes ==
    \A l \in Loggers : InUse(l) => thread.at \notin {"none", "exited"} /\ ~thread.stop

\* do_log() and destroy() return, whoever waits for whom, unless a file failed.
CallsReturn ==
    \A a \in Actors : pc[a] # "idle" ~> (pc[a] = "idle" \/ \E l \in Loggers : Failed(l))
=============================================================================
