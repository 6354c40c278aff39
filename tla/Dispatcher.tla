----------------------------- MODULE Dispatcher -----------------------------
(***************************************************************************)
(* The dispatcher component: one sender (a connection to one peer with its *)
(* queue of messages), the send thread that serves it, the users that push *)
(* messages and hold references to it, and the sender table.               *)
(*                                                                         *)
(* The send thread connects asynchronously, sleeps in epoll_wait on the    *)
(* connection and on the pipe of the queue (one byte per message, watched  *)
(* only while there is nothing to send), resends the message in progress   *)
(* on the next connection and gives it up after ResendMax resends.  The    *)
(* sender leaves its thread when ReconnectMax attempts in a row failed.    *)
(*                                                                         *)
(* A message is named by its rank among the accepted ones and is written   *)
(* in Parts parts; the messages of Files are files, which are resumed and  *)
(* not restarted.                                                          *)
(***************************************************************************)
EXTENDS Naturals, Sequences, FiniteSets

CONSTANTS
    Users,          \* threads that use the sender
    opener,         \* the one that opened it
    Files,          \* the ranks of the messages that are files
    QueueMax,       \* queue_size
    ResendMax,      \* resend_times
    ReconnectMax,   \* reconnect_times
    Parts,          \* units of socket buffer space a message takes
    RoomMax,        \* units of socket buffer space of a connection
    MaxMessages,    \* bound: accepted messages
    MaxFaults,      \* bound: failed attempts and broken connections
    MaxReplies,     \* bound: replies of the peer
    MaxTimeouts     \* bound: idle periods longer than the timeout

ASSUME DispatcherAssumption ==
    /\ IsFiniteSet(Users) /\ opener \in Users /\ Files \subseteq Nat
    /\ {QueueMax, Parts, RoomMax} \subseteq Nat \ {0}
    /\ {ResendMax, ReconnectMax, MaxMessages, MaxFaults, MaxReplies, MaxTimeouts} \subseteq Nat

VARIABLES
    queue,      \* _send_queue
    waiter,     \* what each user does in push_back: "no", "waiting" or "woken"
    holds,      \* the users that hold a reference
    refs,       \* _refcount
    in_table,   \* _in_table
    budget,     \* _sender_info.reconnect_times
    place,      \* the list of the thread the sender is in, or "removed"
    rested,     \* the reconnect interval has passed
    tries,      \* _reconnect_times: attempts since the last success
    conn,       \* the socket: [state, peer, shut, reply, room]
    qwatch,     \* the queue is registered with EPOLLIN
    cwatch,     \* the sender's registration: "none", "in" or "inout"
    pc, batch,  \* the send thread and the events it has still to handle
    current,    \* _current_message and _current_offset: [msg, off]
    resends,    \* _cur_resend_times
    \* what happened so far
    accepted,   \* messages put in the queue
    done,       \* what became of those that left it, in order: "sent" or "dropped"
    fails,      \* connections lost while the message was current, by message
    last,       \* the last part written on this connection: [msg, part]
    torn,       \* a part of a buffer message was written out of its place
    timedOut,   \* a timeout closed a connection
    count       \* uses of the bounds: [faults, replies, timeouts]

userVars == <<waiter, holds>>
tableVars == <<refs, in_table, budget>>
linkVars == <<place, rested, tries>>
watchVars == <<qwatch, cwatch>>
loopVars == <<pc, batch>>
messageVars == <<current, resends, done, fails>>
streamVars == <<last, torn>>
vars == <<queue, waiter, holds, refs, in_table, budget, place, rested, tries, conn,
          qwatch, cwatch, pc, batch, current, resends, accepted, done, fails, last, torn,
          timedOut, count>>

Down == [state |-> "down", peer |-> "none", shut |-> FALSE, reply |-> "none", room |-> 0]
Empty == [msg |-> 0, off |-> 0]
Nothing == [msg |-> 0, part |-> Parts]

\* open_sender counts the reference it returns, add_sender the thread's.
OpenedRefs == 2

\* One user has opened the sender; its thread has it in _unconnected_queue.  The
\* queue is not registered before the first do_send_message.
Init ==
    /\ queue = <<>> /\ waiter = [u \in Users |-> "no"]
    /\ holds = {opener}
    /\ refs = OpenedRefs /\ in_table = TRUE /\ budget = ReconnectMax
    /\ place = "unconnected" /\ rested = FALSE /\ tries = 0
    /\ conn = Down /\ qwatch = FALSE /\ cwatch = "none"
    /\ pc = "top" /\ batch = <<>>
    /\ current = Empty /\ resends = 0
    /\ accepted = 0 /\ done = <<>> /\ fails = [m \in 1..MaxMessages |-> 0]
    /\ last = Nothing /\ torn = FALSE /\ timedOut = FALSE
    /\ count = [faults |-> 0, replies |-> 0, timeouts |-> 0]

Use(k) == count' = [count EXCEPT ![k] = @ + 1]

-----------------------------------------------------------------------------
(* The users: push_message and the reference count *)

is_full == Len(queue) = QueueMax

PushBack ==
    /\ queue' = Append(queue, accepted + 1)
    /\ accepted' = accepted + 1

\* push_message finds room, at once or when it runs again after a signal.
Push(u) ==
    /\ u \in holds /\ waiter[u] \in {"no", "woken"}
    /\ ~is_full /\ accepted < MaxMessages
    /\ PushBack
    /\ waiter' = [waiter EXCEPT ![u] = "no"]
    /\ UNCHANGED <<holds, tableVars, linkVars, conn, watchVars, loopVars, messageVars,
                   streamVars, timedOut, count>>

\* It finds the queue full and waits, for the first time or again.
PushWait(u) ==
    /\ u \in holds /\ waiter[u] \in {"no", "woken"}
    /\ is_full /\ accepted < MaxMessages
    /\ waiter' = [waiter EXCEPT ![u] = "waiting"]
    /\ UNCHANGED <<queue, accepted, holds, tableVars, linkVars, conn, watchVars, loopVars,
                   messageVars, streamVars, timedOut, count>>

PushTimeout(u) ==
    /\ waiter[u] = "waiting"
    /\ waiter' = [waiter EXCEPT ![u] = "no"]
    /\ UNCHANGED <<queue, accepted, holds, tableVars, linkVars, conn, watchVars, loopVars,
                   messageVars, streamVars, timedOut, count>>

\* A reference handed out and not counted.
CountForgotten == UNCHANGED refs

inc_refcount == refs' = refs + 1

\* get_sender
GetSender(u) ==
    /\ u \notin holds /\ in_table
    /\ holds' = holds \cup {u} /\ inc_refcount
    /\ UNCHANGED <<queue, accepted, waiter, in_table, budget, linkVars, conn, watchVars,
                   loopVars, messageVars, streamVars, timedOut, count>>

\* shutdown: no more attempts, and close_write, which ends an attempt under way and
\* does nothing without a socket.
shutdown ==
    /\ budget' = 0
    /\ conn' = CASE conn.peer = "none" -> conn
                 [] conn.peer = "pending" -> [conn EXCEPT !.peer = "reset"]
                 [] OTHER -> [conn EXCEPT !.shut = TRUE]

\* close_sender of the table, for a user or for the thread.
close_sender ==
    /\ IF in_table THEN shutdown ELSE UNCHANGED <<budget, conn>>
    /\ in_table' = FALSE
    /\ refs' = refs - 1

CloseSender(u) ==
    /\ u \in holds /\ waiter[u] = "no"
    /\ close_sender /\ holds' = holds \ {u}
    /\ UNCHANGED <<queue, accepted, waiter, linkVars, watchVars, loopVars, messageVars,
                   streamVars, timedOut, count>>

\* release_sender counts down only while the sender is in the table.
ReleaseSender(u) ==
    /\ u \in holds /\ waiter[u] = "no"
    /\ holds' = holds \ {u}
    /\ refs' = IF in_table THEN refs - 1 ELSE refs
    /\ UNCHANGED <<queue, accepted, waiter, in_table, budget, linkVars, conn, watchVars,
                   loopVars, messageVars, streamVars, timedOut, count>>

\* remove_sender of the table.
RemoveFromTable(u) ==
    /\ u \in holds /\ waiter[u] = "no"
    /\ holds' = holds \ {u}
    /\ in_table' = FALSE /\ refs' = refs - 1
    /\ UNCHANGED <<queue, accepted, waiter, budget, linkVars, conn, watchVars, loopVars,
                   messageVars, streamVars, timedOut, count>>

-----------------------------------------------------------------------------
(* The send thread: connecting *)

Goto(l) == pc' = l /\ UNCHANGED batch

\* sender_reconnect: the socket is closed, which also forgets its registration.
SenderReconnect ==
    /\ conn' = Down /\ cwatch' = "none" /\ last' = Nothing
    /\ place' = "reconnect" /\ rested' = FALSE

\* sender_connect: async_connect fails at once, succeeds at once or is under way.
Connected(state) ==
    /\ conn' = [Down EXCEPT !.state = state,
                            !.peer = IF state = "established" THEN "open" ELSE "pending",
                            !.room = IF state = "established" THEN RoomMax ELSE 0]
    /\ tries' = IF state = "established" THEN 0 ELSE tries + 1
    /\ cwatch' = "inout" /\ place' = "connected"
    /\ UNCHANGED <<rested, last, count>>

ConnectFails ==
    /\ count.faults < MaxFaults /\ Use("faults")
    /\ tries' = tries + 1
    /\ SenderReconnect

sender_connect == ConnectFails \/ \E state \in {"established", "establishing"} : Connected(state)

\* check_reconnect_queue before its interval is over.
SkipReconnect ==
    /\ pc = "top" /\ place = "reconnect" /\ ~rested
    /\ rested' = TRUE /\ Goto("timer")
    /\ UNCHANGED <<queue, accepted, userVars, tableVars, place, tries, conn, watchVars,
                   messageVars, streamVars, timedOut, count>>

\* check_reconnect_queue with attempts left, or check_unconnected_queue.
CheckQueues ==
    /\ pc = "top"
    /\ \/ place = "reconnect" /\ tries < budget
       \/ place = "unconnected"
    /\ sender_connect
    /\ Goto("timer")
    /\ UNCHANGED <<queue, accepted, userVars, tableVars, qwatch, messageVars, torn, timedOut>>

\* check_reconnect_queue without attempts left: remove_sender of the thread.
RemoveSender ==
    /\ pc = "top" /\ place = "reconnect" /\ tries >= budget
    /\ close_sender
    /\ place' = "removed" /\ Goto("timer")
    /\ UNCHANGED <<queue, accepted, userVars, rested, tries, watchVars, messageVars,
                   streamVars, timedOut, count>>

NothingToConnect ==
    /\ pc = "top" /\ place \in {"connected", "removed"}
    /\ Goto("timer")
    /\ UNCHANGED <<queue, accepted, userVars, tableVars, linkVars, conn, watchVars,
                   messageVars, streamVars, timedOut, count>>

\* check_timeout: an unmanaged sender whose handler agrees is reconnected; its
\* current message stays as it is.  A managed sender always takes the second branch.
CheckTimeout ==
    /\ pc = "timer"
    /\ \/ /\ place = "connected" /\ count.timeouts < MaxTimeouts
          /\ Use("timeouts") /\ timedOut' = TRUE
          /\ SenderReconnect
       \/ UNCHANGED <<conn, cwatch, last, place, rested, timedOut, count>>
    /\ Goto("poll")
    /\ UNCHANGED <<queue, accepted, userVars, tableVars, tries, qwatch, messageVars, torn>>

-----------------------------------------------------------------------------
(* The send thread: one round of epoll *)

SenderEvents ==
    IF cwatch = "none" THEN {}
    ELSE IF conn.peer = "reset" \/ (conn.peer = "closed" /\ conn.shut) THEN {"hup"}
    ELSE IF conn.reply # "none" \/ conn.peer = "closed" THEN {"in"}
    ELSE IF cwatch = "inout" /\ conn.peer = "open" /\ (conn.room > 0 \/ conn.shut) THEN {"out"}
    ELSE {}

\* The queue of a sender that was removed stays registered until it is destroyed.
Batches ==
    IF ~(qwatch /\ queue # <<>> /\ refs > 0) THEN {<<e>> : e \in SenderEvents}
    ELSE IF SenderEvents = {} THEN {<<"queue">>}
    ELSE {<<"queue", e>> : e \in SenderEvents} \cup {<<e, "queue">> : e \in SenderEvents}

Poll ==
    /\ pc = "poll"
    /\ IF Batches = {} THEN Goto("top") ELSE batch' \in Batches /\ pc' = "handle"
    /\ UNCHANGED <<queue, accepted, userVars, tableVars, linkVars, conn, watchVars,
                   messageVars, streamVars, timedOut, count>>

\* The loop over the events, and run again after the last one.
NextEvent ==
    /\ batch' = Tail(batch)
    /\ pc' = IF Len(batch) > 1 THEN "handle" ELSE "top"

Event(e) == pc = "handle" /\ Head(batch) = e

\* CSendQueue::handle_epoll_event: set_events does nothing without a socket.
HandleQueue ==
    /\ Event("queue")
    /\ cwatch' = IF conn.state = "down" THEN cwatch ELSE "inout"
    /\ qwatch' = FALSE
    /\ NextEvent
    /\ UNCHANGED <<queue, accepted, userVars, tableVars, linkVars, conn, messageVars,
                   streamVars, timedOut, count>>

\* free_current_message that leaves the count of resends for the next message.
FreeKeepsResends(fate) ==
    /\ done' = Append(done, fate) /\ current' = Empty
    /\ UNCHANGED resends

free_current_message(fate) ==
    /\ done' = Append(done, fate) /\ current' = Empty
    /\ resends' = 0

\* reset_current_message(false) that resumes a buffer message too.
ResumeMessage == UNCHANGED current

\* A buffer message is sent from its start again, a file from where it stopped.
RestartMessage == current' = IF current.msg \in Files THEN current ELSE [current EXCEPT !.off = 0]

\* reset_current_message(false)
FailCurrent ==
    IF current.msg = 0 THEN UNCHANGED messageVars
    ELSE /\ fails' = [fails EXCEPT ![current.msg] = @ + 1]
         /\ IF resends < ResendMax
            THEN resends' = resends + 1 /\ RestartMessage /\ UNCHANGED done
            ELSE free_current_message("dropped")

\* handle_epoll_event that ends with epoll_close.
Broken ==
    /\ FailCurrent /\ SenderReconnect /\ NextEvent

HandleHup ==
    /\ Event("hup") /\ Broken
    /\ UNCHANGED <<queue, accepted, userVars, tableVars, tries, qwatch, torn, timedOut, count>>

\* A reply that is handled and not received.
ReplyLeft == UNCHANGED conn

ReplyTaken == conn' = [conn EXCEPT !.reply = "none"]

\* do_handle_reply: the reply is taken; or the socket is at its end or broken, or the
\* handler refuses the reply.
HandleReply ==
    /\ Event("in")
    /\ IF conn.reply = "good" /\ conn.peer # "reset"
       THEN /\ ReplyTaken /\ NextEvent
            /\ UNCHANGED <<cwatch, last, place, rested, messageVars>>
       ELSE Broken
    /\ UNCHANGED <<queue, accepted, userVars, tableVars, tries, qwatch, torn, timedOut, count>>

\* EPOLLOUT: a connection under way is established now, then do_send_message.
HandleOutput ==
    /\ Event("out")
    /\ conn' = [conn EXCEPT !.state = "established"]
    /\ tries' = IF conn.state = "establishing" THEN 0 ELSE tries
    /\ Goto("send")
    /\ UNCHANGED <<queue, accepted, userVars, tableVars, place, rested, watchVars,
                   messageVars, streamVars, timedOut, count>>

\* pop_front that wakes nobody.
SignalNobody == UNCHANGED waiter

\* pop_front signals one of the threads that wait for room, if any.
SignalOne ==
    IF \E u \in Users : waiter[u] = "waiting"
    THEN \E u \in Users : waiter[u] = "waiting" /\ waiter' = [waiter EXCEPT ![u] = "woken"]
    ELSE UNCHANGED waiter

\* get_current_message that always pops.
AlwaysNext == TRUE

NoCurrent == current.msg = 0

\* get_current_message: the one in progress, the next one of the queue, or none.
GetCurrent ==
    /\ pc = "send" /\ NoCurrent /\ queue # <<>>
    /\ current' = [msg |-> Head(queue), off |-> 0]
    /\ queue' = Tail(queue)
    /\ SignalOne
    /\ UNCHANGED <<accepted, holds, tableVars, linkVars, conn, watchVars, loopVars, resends,
                   done, fails, streamVars, timedOut, count>>

\* The queue was empty.
QueueEmpty ==
    /\ pc = "send" /\ NoCurrent /\ queue = <<>>
    /\ Goto("drained")
    /\ UNCHANGED <<queue, accepted, userVars, tableVars, linkVars, conn, watchVars,
                   messageVars, streamVars, timedOut, count>>

\* Only the connector is set back to EPOLLIN.
DrainedUnwatched == cwatch' = "in" /\ UNCHANGED qwatch

\* The queue is watched again, the connection for EPOLLIN only.
Drained == cwatch' = "in" /\ qwatch' = TRUE

WatchQueue ==
    /\ pc = "drained"
    /\ Drained /\ NextEvent
    /\ UNCHANGED <<queue, accepted, userVars, tableVars, linkVars, conn, messageVars,
                   streamVars, timedOut, count>>

\* The part that may follow on this connection: the next of the same message, or
\* the first of a message after a whole one.
InPlace(m, part) == IF part = 1 THEN last.part = Parts ELSE last = [msg |-> m, part |-> part - 1]

\* send of what fits: a broken or shut socket throws, a full one would block.
Send ==
    /\ pc = "send" /\ current.msg # 0
    /\ \/ (conn.peer = "reset" \/ conn.shut) /\ Broken /\ UNCHANGED torn
       \/ LET rest == Parts - current.off
              n == IF conn.room < rest THEN conn.room ELSE rest
          IN  /\ conn.peer # "reset" /\ ~conn.shut
              /\ conn' = [conn EXCEPT !.room = @ - n]
              /\ last' = IF n = 0 THEN last ELSE [msg |-> current.msg, part |-> current.off + n]
              /\ torn' = (torn \/ (/\ n > 0 /\ current.msg \notin Files
                                   /\ ~InPlace(current.msg, current.off + 1)))
              /\ IF n = rest
                 THEN free_current_message("sent") /\ Goto("send") /\ UNCHANGED cwatch
                 ELSE /\ current' = [current EXCEPT !.off = @ + n] /\ UNCHANGED <<done, resends>>
                      /\ cwatch' = "inout" /\ NextEvent
              /\ UNCHANGED <<fails, place, rested>>
    /\ UNCHANGED <<queue, accepted, userVars, tableVars, tries, qwatch, timedOut, count>>

-----------------------------------------------------------------------------
(* The network *)

Accepts ==
    /\ conn.peer = "pending"
    /\ conn' = [conn EXCEPT !.peer = "open", !.room = RoomMax]
    /\ UNCHANGED <<queue, accepted, userVars, tableVars, linkVars, watchVars, loopVars,
                   messageVars, streamVars, timedOut, count>>

SocketDrains ==
    /\ conn.peer = "open" /\ conn.room < RoomMax
    /\ conn' = [conn EXCEPT !.room = RoomMax]
    /\ UNCHANGED <<queue, accepted, userVars, tableVars, linkVars, watchVars, loopVars,
                   messageVars, streamVars, timedOut, count>>

\* The attempt is refused, the connection is reset, or the peer ends it.
Breaks(how) ==
    /\ count.faults < MaxFaults /\ Use("faults")
    /\ conn.peer = "open" \/ (conn.peer = "pending" /\ how = "reset")
    /\ conn' = [conn EXCEPT !.peer = how]
    /\ UNCHANGED <<queue, accepted, userVars, tableVars, linkVars, watchVars, loopVars,
                   messageVars, streamVars, timedOut>>

\* A peer that sees the end of the stream ends its side.
PeerFollows ==
    /\ conn.peer = "open" /\ conn.shut
    /\ conn' = [conn EXCEPT !.peer = "closed"]
    /\ UNCHANGED <<queue, accepted, userVars, tableVars, linkVars, watchVars, loopVars,
                   messageVars, streamVars, timedOut, count>>

Replies(r) ==
    /\ conn.peer = "open" /\ conn.reply = "none"
    /\ count.replies < MaxReplies /\ Use("replies")
    /\ conn' = [conn EXCEPT !.reply = r]
    /\ UNCHANGED <<queue, accepted, userVars, tableVars, linkVars, watchVars, loopVars,
                   messageVars, streamVars, timedOut>>

-----------------------------------------------------------------------------
ThreadStep ==
    \/ SkipReconnect \/ CheckQueues \/ RemoveSender \/ NothingToConnect \/ CheckTimeout
    \/ Poll \/ HandleQueue \/ HandleHup \/ HandleReply \/ HandleOutput
    \/ GetCurrent \/ QueueEmpty \/ WatchQueue \/ Send

UserStep(u) ==
    \/ Push(u) \/ PushWait(u) \/ PushTimeout(u)
    \/ GetSender(u) \/ CloseSender(u) \/ ReleaseSender(u) \/ RemoveFromTable(u)

Next ==
    \/ ThreadStep
    \/ \E u \in Users : UserStep(u)
    \/ Accepts \/ SocketDrains \/ PeerFollows
    \/ \E how \in {"closed", "reset"} : Breaks(how)
    \/ \E r \in {"good", "bad"} : Replies(r)

Spec == Init /\ [][Next]_vars

\* The scheduler runs the send thread, and the network carries what was written.
Fairness == WF_vars(ThreadStep) /\ WF_vars(Accepts) /\ WF_vars(SocketDrains)

FairSpec == Spec /\ Fairness

-----------------------------------------------------------------------------
\* Type invariant.
TypeOK ==
    /\ queue \in Seq(1..accepted) /\ Len(queue) <= QueueMax
    /\ waiter \in [Users -> {"no", "waiting", "woken"}] /\ holds \subseteq Users
    /\ refs \in Nat /\ in_table \in BOOLEAN /\ budget \in {0, ReconnectMax}
    /\ place \in {"unconnected", "reconnect", "connected", "removed"} /\ rested \in BOOLEAN
    /\ tries \in Nat
    /\ conn \in [state : {"down", "establishing", "established"},
                 peer : {"none", "pending", "open", "closed", "reset"}, shut : BOOLEAN,
                 reply : {"none", "good", "bad"}, room : 0..RoomMax]
    /\ place = "connected" <=> conn.state # "down"
    /\ qwatch \in BOOLEAN /\ cwatch \in {"none", "in", "inout"}
    /\ pc \in {"top", "timer", "poll", "handle", "send", "drained"}
    /\ batch \in Seq({"queue", "hup", "in", "out"})
    /\ current \in [msg : 0..accepted, off : 0..(Parts - 1)] /\ resends \in 0..ResendMax

\* Messages leave in the order in which push_message accepted them, none is skipped
\* and none is sent twice, over any number of connections.
InOrder ==
    LET busy == IF current.msg = 0 THEN <<>> ELSE <<current.msg>>
    IN  busy \o queue = [i \in 1..(accepted - Len(done)) |-> Len(done) + i]

\* A message is given up only after its ResendMax resends failed as well, whatever
\* happened to the messages before it (need_resend, reset_resend_times).
DroppedLate == \A i \in DOMAIN done : done[i] = "dropped" => fails[i] = ResendMax + 1

\* While the thread is in epoll_wait with a socket and something to send, it watches
\* for the event that makes it go on.
WorkWatched ==
    pc = "poll" /\ place = "connected" =>
        /\ current.msg # 0 => cwatch = "inout"
        /\ queue # <<>> => qwatch \/ cwatch = "inout"

\* No user waits for room that nobody told it of: as long as a user waits without a
\* signal, every free slot has a signalled user on its way (_push_waiter_number and
\* the one signal of do_pop_front).
NoStrandedPusher ==
    (\E u \in Users : waiter[u] = "waiting") =>
        QueueMax - Len(queue) <= Cardinality({u \in Users : waiter[u] = "woken"})

\* The sender is not destroyed while a user or its thread still uses it: the count
\* covers them all, whatever mix of close, release and remove the users call.
CountCoversUse ==
    refs >= Cardinality(holds) + (IF place = "removed" THEN 0 ELSE 1)

\* Every connection carries whole buffer messages from their start, until a timeout
\* closes a connection: only on_timeout_event reconnects without
\* reset_current_message, and the rest of the message then goes to the next one.
TornByTimeoutOnly == torn => timedOut

\* An accepted message is sent or given up, unless the sender leaves its thread.
Dispatched ==
    \A n \in 1..MaxMessages : (accepted >= n) ~> (Len(done) >= n \/ place = "removed")
=============================================================================
