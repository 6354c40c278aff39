------------------------------- MODULE Agent -------------------------------
(***************************************************************************)
(* The agent component: callers of report() put messages in a bounded      *)
(* report queue, and one agent thread keeps a connection to the center,    *)
(* takes the messages out of the queue and writes them on the connection.  *)
(*                                                                         *)
(* The thread sleeps in epoll_wait on two descriptors.  The read end of    *)
(* the queue's pipe (one byte per queued message) is watched only while    *)
(* there is nothing to send; once it is readable the thread removes it and *)
(* watches the connection for EPOLLOUT instead, until the queue is empty   *)
(* again.  epoll is level-triggered.                                       *)
(*                                                                         *)
(* A message is identified by its rank among the accepted ones.  It takes  *)
(* Parts units of socket buffer space, so that a send may be partial.      *)
(***************************************************************************)
EXTENDS Naturals, Sequences

CONSTANTS
    Reporters,      \* the threads that call report()
    QueueMax,       \* slots of the report queue: queue_size + 1
    Parts,          \* units of socket buffer space a message takes
    RoomMax,        \* units of socket buffer space of a connection
    MaxMessages,    \* bound: accepted reports
    MaxHeartbeats,  \* bound: heartbeats before the thread is told to stop
    MaxWaits,       \* bound: report() calls that wait for room
    MaxFaults,      \* bound: connection attempts that fail, and connections that break
    MaxInput        \* bound: pieces of data received from the center

ASSUME AgentAssumption ==
    /\ "agent" \notin Reporters /\ "free" \notin Reporters
    /\ {QueueMax, Parts, RoomMax} \subseteq Nat \ {0}
    /\ {MaxMessages, MaxHeartbeats, MaxWaits, MaxFaults, MaxInput} \subseteq Nat

VARIABLES
    queue,      \* _report_queue: the ranks of the queued messages
    pipe,       \* bytes in the queue's pipe
    qlock,      \* who holds _queue_lock over several steps: a reporter, "agent" or "free"
    pc,         \* where the agent thread is
    batch,      \* the events of the last epoll_wait that are still to be handled
    qwatch,     \* the queue is registered with EPOLLIN
    cwatch,     \* the connector's registration: "none", "in" or "inout"
    conn,       \* the connection: [up, blocking, peer, input, room]
    current,    \* _send_machine: [msg, left], msg = 0 when it holds no message
    center,     \* _domainname_or_iplist is set
    stop,       \* _stop
    stopper,    \* where the caller of stop() is
    \* what happened so far
    accepted,   \* messages put in the queue
    done,       \* what became of the messages that left it, in order: "sent" or "lost"
    count       \* uses of the bounds: [reports, beats, waits, faults, input]

queueVars == <<queue, pipe, accepted>>
loopVars == <<pc, batch>>
watchVars == <<qwatch, cwatch>>
sendVars == <<current, done>>
stopVars == <<stop, stopper>>
vars == <<queue, pipe, qlock, pc, batch, qwatch, cwatch, conn, current, center,
          stop, stopper, accepted, done, count>>

Down == [up |-> FALSE, blocking |-> FALSE, peer |-> "open", input |-> "none", room |-> 0]
Empty == [msg |-> 0, left |-> 0]

\* The thread is started by before_start: the epoller exists and watches the
\* queue.  set_center may have been called before.
Init ==
    /\ queue = <<>> /\ pipe = 0 /\ qlock = "free"
    /\ pc = "loop" /\ batch = <<>>
    /\ qwatch = TRUE /\ cwatch = "none"
    /\ conn = Down /\ current = Empty
    /\ center \in BOOLEAN
    /\ stop = FALSE /\ stopper = "idle"
    /\ accepted = 0 /\ done = <<>>
    /\ count = [reports |-> 0, beats |-> 0, waits |-> 0, faults |-> 0, input |-> 0]

Use(k) == count' = [count EXCEPT ![k] = @ + 1]

-----------------------------------------------------------------------------
(* The report queue, a CEpollableQueue *)

is_full == Len(queue) = QueueMax

\* push_back on a queue with room: the element and its byte in the pipe.
PushBack ==
    /\ queue' = Append(queue, accepted + 1)
    /\ pipe' = pipe + 1
    /\ accepted' = accepted + 1

\* pop_front that leaves the byte of the element in the pipe.
PopKeepsByte == queue' = Tail(queue) /\ UNCHANGED <<pipe, accepted>>

\* pop_front on a queue that is not empty.
PopFront ==
    /\ queue' = Tail(queue)
    /\ pipe' = pipe - 1
    /\ UNCHANGED accepted

\* report(): put_message takes _queue_lock and finds room.
Report ==
    /\ qlock = "free" /\ ~is_full /\ count.reports < MaxMessages
    /\ PushBack /\ Use("reports")
    /\ UNCHANGED <<qlock, loopVars, watchVars, conn, sendVars, center, stopVars>>

\* report() with a time to wait, on a full queue: push_back waits on the queue's
\* event, which releases the queue's own lock and not _queue_lock.  Nobody can take
\* a message out meanwhile, so the wait ends with its time.
ReportWait(r) ==
    /\ qlock = "free" /\ is_full /\ count.waits < MaxWaits /\ count.reports < MaxMessages
    /\ qlock' = r /\ Use("waits")
    /\ UNCHANGED <<queueVars, loopVars, watchVars, conn, sendVars, center, stopVars>>

ReportTimeout(r) ==
    /\ qlock = r /\ qlock' = "free"
    /\ UNCHANGED <<queueVars, loopVars, watchVars, conn, sendVars, center, stopVars, count>>

-----------------------------------------------------------------------------
(* The agent thread: connecting *)

Goto(l) == pc' = l /\ UNCHANGED batch

RunLoop ==
    /\ pc = "loop"
    /\ Goto(IF stop THEN "exited" ELSE IF conn.up THEN "poll" ELSE "check")
    /\ UNCHANGED <<queueVars, qlock, watchVars, conn, sendVars, center, stopVars, count>>

\* wait_domainname_or_iplist_ready: the loop condition, read without _center_lock.
CheckStop ==
    /\ pc = "check"
    /\ Goto(IF stop THEN "loop" ELSE "center")
    /\ UNCHANGED <<queueVars, qlock, watchVars, conn, sendVars, center, stopVars, count>>

\* Under _center_lock: the center is read or the thread waits for _center_event.
ReadCenter ==
    /\ pc = "center"
    /\ Goto(IF center THEN "resolve" ELSE "asleep")
    /\ UNCHANGED <<queueVars, qlock, watchVars, conn, sendVars, center, stopVars, count>>

Resolve ==
    /\ pc = "resolve"
    /\ Goto(IF stop THEN "loop" ELSE "connect")
    /\ UNCHANGED <<queueVars, qlock, watchVars, conn, sendVars, center, stopVars, count>>

\* set_events on the connector with nothing done.
WatchForgotten(mask) == mask \in {"in", "inout"} /\ UNCHANGED cwatch

\* set_events on the connector: nothing happens while it has no descriptor.
WatchConnector(mask) == cwatch' = IF conn.up THEN mask ELSE cwatch

\* timed_connect succeeds, at once (the socket stays non-blocking) or after a poll
\* (it is made blocking again); enable_connector_write follows.
Connect(blocking) ==
    /\ pc = "connect"
    /\ conn' = [Down EXCEPT !.up = TRUE, !.blocking = blocking, !.room = RoomMax]
    /\ cwatch' = "inout"
    /\ Goto("loop")
    /\ UNCHANGED <<queueVars, qlock, qwatch, sendVars, center, stopVars, count>>

\* It fails: do_millisleep, and once more round the loop.
ConnectFails ==
    /\ pc = "connect" /\ count.faults < MaxFaults
    /\ Use("faults") /\ Goto("loop")
    /\ UNCHANGED <<queueVars, qlock, watchVars, conn, sendVars, center, stopVars>>

-----------------------------------------------------------------------------
(* The agent thread: one round of epoll *)

QueueReady == qwatch /\ pipe > 0

\* The events epoll reports for the connection; handle_epoll_event looks at EPOLLIN first.
ConnectorEvents ==
    IF cwatch = "none" THEN {}
    ELSE IF conn.peer = "reset" THEN {"in", "error"}
    ELSE IF conn.input # "none" \/ conn.peer = "closed" THEN {"in"}
    ELSE IF cwatch = "inout" /\ conn.room > 0 THEN {"out"}
    ELSE {}

Batches ==
    IF ~QueueReady THEN {<<e>> : e \in ConnectorEvents}
    ELSE IF ConnectorEvents = {} THEN {<<"queue">>}
    ELSE {<<"queue", e>> : e \in ConnectorEvents} \cup {<<e, "queue">> : e \in ConnectorEvents}

Poll ==
    /\ pc = "poll"
    /\ \E b \in Batches : batch' = b
    /\ pc' = "handle"
    /\ UNCHANGED <<queueVars, qlock, watchVars, conn, sendVars, center, stopVars, count>>

PollTimeout ==
    /\ pc = "poll" /\ Batches = {}
    /\ count.beats < MaxHeartbeats \/ stop
    /\ Goto("heartbeat")
    /\ UNCHANGED <<queueVars, qlock, watchVars, conn, sendVars, center, stopVars, count>>

\* send_heartbeat: put_message with room, or a wait for room that only the thread
\* itself could make.
Heartbeat ==
    /\ pc = "heartbeat" /\ qlock = "free"
    /\ \/ /\ ~is_full /\ PushBack /\ Goto("loop") /\ UNCHANGED qlock
       \/ /\ is_full /\ qlock' = "agent" /\ Goto("heartbeat") /\ UNCHANGED queueVars
    /\ Use("beats")
    /\ UNCHANGED <<watchVars, conn, sendVars, center, stopVars>>

HeartbeatTimeout ==
    /\ pc = "heartbeat" /\ qlock = "agent"
    /\ qlock' = "free" /\ Goto("loop")
    /\ UNCHANGED <<queueVars, watchVars, conn, sendVars, center, stopVars, count>>

EndOfBatch ==
    /\ pc = "handle" /\ batch = <<>>
    /\ Goto("loop")
    /\ UNCHANGED <<queueVars, qlock, watchVars, conn, sendVars, center, stopVars, count>>

NextEvent == pc' = "handle" /\ batch' = Tail(batch)

\* CReportQueue::handle_epoll_event returns epoll_remove.
HandleQueue ==
    /\ pc = "handle" /\ batch # <<>> /\ Head(batch) = "queue"
    /\ WatchConnector("inout")
    /\ qwatch' = FALSE
    /\ NextEvent
    /\ UNCHANGED <<queueVars, qlock, conn, sendVars, center, stopVars, count>>

\* epoll_close: the connector leaves the epoller; before_close resets both machines,
\* which deletes the message that is being sent.
CloseConnector ==
    /\ conn' = Down /\ cwatch' = "none"
    /\ done' = IF current.msg = 0 THEN done ELSE Append(done, "lost")
    /\ current' = Empty

\* handle_input: the data is taken, or it is the end, an error or refused data.
HandleInput ==
    /\ pc = "handle" /\ batch # <<>> /\ Head(batch) = "in"
    /\ IF conn.peer # "reset" /\ conn.input = "good"
       THEN conn' = [conn EXCEPT !.input = "none"] /\ UNCHANGED <<cwatch, sendVars>>
       ELSE CloseConnector
    /\ NextEvent
    /\ UNCHANGED <<queueVars, qlock, qwatch, center, stopVars, count>>

HandleError ==
    /\ pc = "handle" /\ batch # <<>> /\ Head(batch) = "error"
    /\ CloseConnector /\ NextEvent
    /\ UNCHANGED <<queueVars, qlock, qwatch, center, stopVars, count>>

HandleOutput ==
    /\ pc = "handle" /\ batch # <<>> /\ Head(batch) = "out"
    /\ Goto("send")
    /\ UNCHANGED <<queueVars, qlock, watchVars, conn, sendVars, center, stopVars, count>>

\* A message some part of which was sent counts as finished.
is_finish_early == current.left < Parts

\* CSendMachine::is_finish: nothing of a message remains to be sent.
is_finish == current.left = 0

\* get_message: the next message of the loop in handle_output, or none.
GetMessage ==
    /\ pc = "send" /\ is_finish /\ qlock = "free"
    /\ \/ /\ queue # <<>> /\ PopFront
          /\ current' = [msg |-> Head(queue), left |-> Parts]
          /\ Goto("send")
       \/ queue = <<>> /\ Goto("drained") /\ UNCHANGED <<queueVars, current>>
    /\ UNCHANGED <<qlock, watchVars, conn, done, center, stopVars, count>>

\* The queue was empty: the connector goes back to EPOLLIN, the queue stays out.
DrainedUnwatched == cwatch' = "in" /\ UNCHANGED qwatch

\* The queue was empty: enable_queue_read, and epoll_read for the connector.
Drained == cwatch' = "in" /\ qwatch' = TRUE

EnableQueueRead ==
    /\ pc = "drained"
    /\ Drained
    /\ NextEvent
    /\ UNCHANGED <<queueVars, qlock, conn, sendVars, center, stopVars, count>>

\* continue_send: what fits in the socket buffer.  A blocking socket keeps the
\* thread until everything fits, a non-blocking one returns epoll_read_write.
Send ==
    /\ pc = "send" /\ ~is_finish
    /\ \/ /\ conn.peer = "reset"
          /\ CloseConnector /\ NextEvent
       \/ LET n == IF conn.room < current.left THEN conn.room ELSE current.left
          IN  /\ conn.peer # "reset"
              /\ conn.blocking => n > 0
              /\ conn' = [conn EXCEPT !.room = @ - n]
              /\ IF n = current.left
                 THEN /\ current' = Empty /\ done' = Append(done, "sent")
                      /\ Goto("send") /\ UNCHANGED cwatch
                 ELSE /\ current' = [current EXCEPT !.left = @ - n] /\ UNCHANGED done
                      /\ IF conn.blocking
                         THEN Goto("send") /\ UNCHANGED cwatch
                         ELSE NextEvent /\ WatchConnector("inout")
    /\ UNCHANGED <<queueVars, qlock, qwatch, center, stopVars, count>>

-----------------------------------------------------------------------------
(* set_center, stop and the network *)

\* A signal of _center_event that reaches nobody.
SignalLost == UNCHANGED pc

\* A signal of _center_event reaches the thread only if it waits already.
SignalCenter == pc' = IF pc = "asleep" THEN "check" ELSE pc

SetCenter ==
    /\ ~center /\ center' = TRUE
    /\ SignalCenter
    /\ UNCHANGED <<queueVars, qlock, batch, watchVars, conn, sendVars, stopVars, count>>

\* stop(): _stop is set without a lock, ...
StopFlag ==
    /\ stopper = "idle"
    /\ stop' = TRUE /\ stopper' = "flagged"
    /\ UNCHANGED <<queueVars, qlock, loopVars, watchVars, conn, sendVars, center, count>>

\* ... before_stop signals _center_event under _center_lock, ...
BeforeStop ==
    /\ stopper = "flagged"
    /\ SignalCenter /\ stopper' = "joining"
    /\ UNCHANGED <<queueVars, qlock, batch, watchVars, conn, sendVars, center, stop, count>>

\* ... and join returns once the thread has left run().
Join ==
    /\ stopper = "joining" /\ pc = "exited"
    /\ stopper' = "done"
    /\ UNCHANGED <<queueVars, qlock, loopVars, watchVars, conn, sendVars, center, stop, count>>

SocketDrains ==
    /\ conn.up /\ conn.peer = "open" /\ conn.room < RoomMax
    /\ conn' = [conn EXCEPT !.room = RoomMax]
    /\ UNCHANGED <<queueVars, qlock, loopVars, watchVars, sendVars, center, stopVars, count>>

PeerWrites(d) ==
    /\ conn.up /\ conn.peer = "open" /\ conn.input = "none" /\ count.input < MaxInput
    /\ conn' = [conn EXCEPT !.input = d] /\ Use("input")
    /\ UNCHANGED <<queueVars, qlock, loopVars, watchVars, sendVars, center, stopVars>>

PeerBreaks(how) ==
    /\ conn.up /\ conn.peer = "open" /\ count.faults < MaxFaults
    /\ conn' = [conn EXCEPT !.peer = how] /\ Use("faults")
    /\ UNCHANGED <<queueVars, qlock, loopVars, watchVars, sendVars, center, stopVars>>

\* A peer that is gone answers a write with a reset.
PeerResets ==
    /\ conn.up /\ conn.peer = "closed" /\ conn.room < RoomMax
    /\ conn' = [conn EXCEPT !.peer = "reset"]
    /\ UNCHANGED <<queueVars, qlock, loopVars, watchVars, sendVars, center, stopVars, count>>

-----------------------------------------------------------------------------
ThreadStep ==
    \/ RunLoop \/ CheckStop \/ ReadCenter \/ Resolve
    \/ (\E b \in BOOLEAN : Connect(b)) \/ ConnectFails
    \/ Poll \/ PollTimeout \/ Heartbeat \/ HeartbeatTimeout \/ EndOfBatch
    \/ HandleQueue \/ HandleInput \/ HandleError \/ HandleOutput
    \/ GetMessage \/ EnableQueueRead \/ Send

StopStep == BeforeStop \/ Join

Next ==
    \/ Report
    \/ \E r \in Reporters : ReportWait(r) \/ ReportTimeout(r)
    \/ ThreadStep
    \/ SetCenter
    \/ StopFlag \/ StopStep
    \/ SocketDrains \/ PeerResets
    \/ \E d \in {"good", "bad"} : PeerWrites(d)
    \/ \E how \in {"closed", "reset"} : PeerBreaks(how)

Spec == Init /\ [][Next]_vars

\* The scheduler runs the threads, timed waits end, and the network either takes
\* what was written or reports that the peer is gone.
Fairness ==
    /\ WF_vars(ThreadStep)
    /\ \A r \in Reporters : WF_vars(ReportTimeout(r))
    /\ WF_vars(StopStep)
    /\ WF_vars(SocketDrains) /\ WF_vars(PeerResets)

\* Nobody need ever call set_center.
StopSpec == Spec /\ Fairness

\* The owner sets the center some time.
FairSpec == StopSpec /\ WF_vars(SetCenter)

-----------------------------------------------------------------------------
\* Type invariant.  The pipe holds one byte per queued message, so that the
\* level-triggered watch of the pipe is a watch of the queue.
TypeOK ==
    /\ queue \in Seq(1..accepted) /\ Len(queue) <= QueueMax /\ pipe = Len(queue)
    /\ qlock \in Reporters \cup {"agent", "free"}
    /\ pc \in {"loop", "check", "center", "asleep", "resolve", "connect", "poll", "handle",
               "send", "drained", "heartbeat", "exited"}
    /\ batch \in Seq({"queue", "in", "out", "error"})
    /\ qwatch \in BOOLEAN /\ cwatch \in {"none", "in", "inout"}
    /\ conn \in [up : BOOLEAN, blocking : BOOLEAN, peer : {"open", "closed", "reset"},
                 input : {"none", "good", "bad"}, room : 0..RoomMax]
    /\ current \in [msg : 0..accepted, left : 0..Parts]
    /\ center \in BOOLEAN /\ stop \in BOOLEAN
    /\ stopper \in {"idle", "flagged", "joining", "done"}
    /\ done \in Seq({"sent", "lost"})

\* Messages leave in the order in which report() accepted them, none is skipped and
\* none is sent twice, over any number of broken connections (handle_output,
\* before_close and the report queue together).
InOrder ==
    LET busy == IF current.msg = 0 THEN <<>> ELSE <<current.msg>>
    IN  busy \o queue = [i \in 1..(accepted - Len(done)) |-> Len(done) + i]

\* The hand-over between the two watches never drops the work: whenever the thread
\* is in epoll_wait with something to send, it watches for the event that makes it
\* go on (the queue's pipe, or EPOLLOUT of the connection).
WorkWatched ==
    pc = "poll" =>
        /\ current.msg # 0 => cwatch = "inout"
        /\ queue # <<>> => qwatch \/ cwatch = "inout"

\* Every accepted message is sent, or lost with a broken connection, unless the
\* agent is stopped: no interleaving of report(), broken connections, heartbeats
\* and waiting callers leaves it in the queue for ever.
Reported ==
    \A n \in 1..(MaxMessages + MaxHeartbeats) : (accepted >= n) ~> (Len(done) >= n \/ stop)

\* stop() returns: the agent thread leaves run() wherever it was, "until it is not
\* empty, or the thread was told to exit" (agent_thread.cpp:340) included.
StopReturns == (stopper # "idle") ~> (stopper = "done")
=============================================================================
