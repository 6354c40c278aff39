---------------------------- MODULE AgentProofs ----------------------------
(***************************************************************************)
(* Proofs about Agent, for any queue, any messages and any number of       *)
(* reporters, faults and heartbeats: messages leave in the order in which  *)
(* they were accepted, and the thread never sleeps in epoll_wait without a *)
(* watch on the work there is.                                             *)
(***************************************************************************)
EXTENDS Agent, TLAPS

-----------------------------------------------------------------------------
(* Sequences                                                               *)

\* What Append does, pointwise.
LEMMA AppendFacts ==
    ASSUME NEW S, NEW s \in Seq(S), NEW e \in S
    PROVE  /\ Append(s, e) \in Seq(S)
           /\ Len(Append(s, e)) = Len(s) + 1
           /\ \A i \in 1..Len(s) : Append(s, e)[i] = s[i]
           /\ Append(s, e)[Len(s) + 1] = e
  OBVIOUS

\* What Tail does, pointwise.
LEMMA TailFacts ==
    ASSUME NEW S, NEW s \in Seq(S), s # <<>>
    PROVE  /\ Tail(s) \in Seq(S) /\ Head(s) \in S /\ Head(s) = s[1]
           /\ Len(s) \in Nat \ {0} /\ Len(Tail(s)) = Len(s) - 1
           /\ \A i \in 1..Len(Tail(s)) : Tail(s)[i] = s[i + 1]
  OBVIOUS

\* Elements of a larger set.
LEMMA SeqSubset ==
    ASSUME NEW S, NEW T, S \subseteq T, NEW s \in Seq(S)
    PROVE  s \in Seq(T)
  OBVIOUS

\* A sequence of consecutive numbers as a function.
LEMMA SeqIsFunction ==
    ASSUME NEW S, NEW s \in Seq(S), NEW n \in Nat, n = Len(s), NEW k \in Nat,
           \A i \in 1..n : s[i] = k + i
    PROVE  s = [i \in 1..n |-> k + i]
  OBVIOUS

-----------------------------------------------------------------------------
\* The rank of a message is its place in the queue, counted from those that have
\* left it; the message of the send machine comes just before the queued ones.
RankInv ==
    /\ accepted \in Nat
    /\ \A i \in 1..Len(queue) : queue[i] = accepted - Len(queue) + i
    /\ current.msg = 0 <=> current.left = 0
    /\ current.msg # 0 => current.msg = accepted - Len(queue)
    /\ Len(done) = accepted - Len(queue) - (IF current.msg = 0 THEN 0 ELSE 1)

\* A batch has at most one event of the connector, and EPOLLOUT is pending or being
\* handled only while it is watched.
BatchInv ==
    /\ \A i, j \in 1..Len(batch) : batch[i] # "queue" /\ batch[j] # "queue" => i = j
    /\ \A i \in 1..Len(batch) : batch[i] = "out" => cwatch = "inout"
    /\ pc \notin {"handle", "send", "drained"} => batch = <<>>
    /\ pc \in {"send", "drained"} => batch # <<>> /\ batch[1] = "out"

\* The connector is registered while there is a connection, the queue is out of the
\* epoller only while EPOLLOUT is watched, and a message that is being sent keeps
\* EPOLLOUT watched.
WatchInv ==
    /\ conn.up <=> cwatch # "none"
    /\ pc = "poll" => conn.up
    /\ pc = "drained" => current.msg = 0
    /\ conn.up => qwatch \/ cwatch = "inout"
    /\ current.msg # 0 => cwatch = "inout"

IInv == TypeOK /\ RankInv /\ BatchInv /\ WatchInv

-----------------------------------------------------------------------------
(* The queue and the send machine                                          *)

\* The part of TypeOK that is about messages.
MessageOK ==
    /\ accepted \in Nat
    /\ queue \in Seq(1..accepted) /\ Len(queue) <= QueueMax /\ pipe = Len(queue)
    /\ current \in [msg : 0..accepted, left : 0..Parts]
    /\ done \in Seq({"sent", "lost"})

MessageInv == MessageOK /\ RankInv

\* push_back adds the next rank.
LEMMA PushBackKeeps ==
    ASSUME MessageInv, ~is_full, PushBack, UNCHANGED sendVars
    PROVE  MessageInv'
  <1> USE AgentAssumption DEF AgentAssumption
  <1>1. /\ accepted' = accepted + 1 /\ accepted' \in Nat /\ accepted + 1 \in 1..accepted'
        /\ current' = current /\ done' = done /\ pipe' = pipe + 1
        /\ queue' = Append(queue, accepted + 1)
    BY DEF MessageInv, MessageOK, PushBack, sendVars
  <1>2. queue \in Seq(1..accepted')
    BY <1>1, SeqSubset, 1..accepted \subseteq 1..accepted' DEF MessageInv, MessageOK
  <1>3. /\ queue' \in Seq(1..accepted') /\ Len(queue') = Len(queue) + 1
        /\ \A i \in 1..Len(queue) : queue'[i] = queue[i]
        /\ queue'[Len(queue) + 1] = accepted + 1
    BY <1>1, <1>2, AppendFacts
  <1>4. Len(queue) \in Nat /\ Len(queue) < QueueMax
    BY DEF MessageInv, MessageOK, is_full
  <1>5. MessageOK'
    BY <1>1, <1>3, <1>4 DEF MessageInv, MessageOK
  <1>6. \A i \in 1..Len(queue') : queue'[i] = accepted' - Len(queue') + i
    <2> SUFFICES ASSUME NEW i \in 1..Len(queue')
                 PROVE  queue'[i] = accepted' - Len(queue') + i
      OBVIOUS
    <2>1. CASE i \in 1..Len(queue)
      BY <2>1, <1>1, <1>3, <1>4 DEF MessageInv, RankInv
    <2>2. CASE i = Len(queue) + 1
      BY <2>2, <1>1, <1>3, <1>4 DEF MessageInv, RankInv
    <2>3. QED
      BY <2>1, <2>2, <1>3, <1>4
  <1>7. RankInv'
    <2>1. accepted' - Len(queue') = accepted - Len(queue)
      BY <1>1, <1>3, <1>4 DEF MessageInv, MessageOK
    <2>2. QED
      BY <2>1, <1>1, <1>6 DEF MessageInv, RankInv
  <1>8. QED
    BY <1>5, <1>7 DEF MessageInv

\* get_message moves the lowest rank into the idle send machine.
LEMMA PopFrontKeeps ==
    ASSUME MessageInv, queue # <<>>, is_finish, PopFront,
           current' = [msg |-> Head(queue), left |-> Parts], done' = done
    PROVE  MessageInv'
  <1> USE AgentAssumption DEF AgentAssumption
  <1>1. /\ queue' = Tail(queue) /\ pipe' = pipe - 1 /\ accepted' = accepted
        /\ accepted \in Nat /\ queue \in Seq(1..accepted)
    BY DEF MessageInv, MessageOK, PopFront
  <1>2. /\ queue' \in Seq(1..accepted) /\ Head(queue) \in 1..accepted
        /\ Head(queue) = queue[1]
        /\ Len(queue) \in Nat \ {0} /\ Len(queue') = Len(queue) - 1
        /\ \A i \in 1..Len(queue') : queue'[i] = queue[i + 1]
    BY <1>1, TailFacts
  <1>3. current'.msg = Head(queue) /\ current'.left = Parts
        /\ current' \in [msg : 0..accepted, left : 0..Parts]
    BY <1>1, <1>2
  <1>4. MessageOK'
    BY <1>1, <1>2, <1>3 DEF MessageInv, MessageOK
  <1>5. current.msg = 0 /\ Head(queue) = accepted - Len(queue) + 1
    BY <1>2 DEF MessageInv, RankInv, is_finish
  <1>6. \A i \in 1..Len(queue') : queue'[i] = accepted' - Len(queue') + i
    <2> SUFFICES ASSUME NEW i \in 1..Len(queue')
                 PROVE  queue'[i] = accepted' - Len(queue') + i
      OBVIOUS
    <2>1. i + 1 \in 1..Len(queue)
      BY <1>2
    <2>2. queue[i + 1] = accepted - Len(queue) + (i + 1)
      BY <2>1 DEF MessageInv, RankInv
    <2>3. QED
      BY <2>2, <1>1, <1>2
  <1>7. RankInv'
    <2>1. /\ accepted' - Len(queue') = Head(queue)
          /\ Len(done') = accepted' - Len(queue') - 1
      <3>1. Len(done) = accepted - Len(queue)
        BY <1>1, <1>2, <1>5 DEF MessageInv, RankInv
      <3>2. QED
        BY <1>1, <1>2, <1>5, <3>1
    <2>2. Head(queue) # 0 /\ Parts # 0
      BY <1>1, <1>2
    <2>3. QED
      BY <2>1, <2>2, <1>1, <1>3, <1>6 DEF MessageInv, RankInv
  <1>8. QED
    BY <1>4, <1>7 DEF MessageInv

\* A message that has been sent, or is lost with its connection, is the next of done.
LEMMA FinishKeeps ==
    ASSUME MessageInv, current.msg # 0, current' = Empty, NEW how \in {"sent", "lost"},
           done' = Append(done, how), UNCHANGED queueVars
    PROVE  MessageInv'
  <1> USE AgentAssumption DEF AgentAssumption
  <1>1. queue' = queue /\ pipe' = pipe /\ accepted' = accepted
    BY DEF queueVars
  <1>2. done' \in Seq({"sent", "lost"}) /\ Len(done') = Len(done) + 1
    BY AppendFacts DEF MessageInv, MessageOK
  <1>3. /\ current'.msg = 0 /\ current'.left = 0
        /\ current' \in [msg : 0..accepted, left : 0..Parts]
    BY DEF Empty, MessageInv, MessageOK
  <1>4. MessageOK'
    BY <1>1, <1>2, <1>3 DEF MessageInv, MessageOK
  <1>5. Len(queue) \in Nat /\ Len(done) \in Nat /\ accepted \in Nat
    BY DEF MessageInv, MessageOK
  <1>6. Len(done') = accepted' - Len(queue')
    BY <1>1, <1>2, <1>5 DEF MessageInv, RankInv
  <1>7. RankInv'
    BY <1>1, <1>3, <1>5, <1>6 DEF MessageInv, RankInv
  <1>8. QED
    BY <1>4, <1>7 DEF MessageInv

\* Nothing happens to the messages.
LEMMA MessagesUnchanged ==
    ASSUME MessageInv, UNCHANGED <<queueVars, sendVars>>
    PROVE  MessageInv'
  BY DEF MessageInv, MessageOK, RankInv, queueVars, sendVars

\* before_close resets the send machine, with or without a message in it.
LEMMA CloseKeeps ==
    ASSUME MessageInv, CloseConnector, UNCHANGED queueVars
    PROVE  MessageInv'
  <1>1. CASE current.msg # 0
    BY <1>1, FinishKeeps DEF CloseConnector
  <1>2. CASE current.msg = 0
    <2>1. current = Empty
      BY <1>2 DEF MessageInv, MessageOK, RankInv, Empty
    <2>2. QED
      BY <1>2, <2>1, MessagesUnchanged DEF CloseConnector, sendVars
  <1>3. QED
    BY <1>1, <1>2

-----------------------------------------------------------------------------
(* The thread: where it is, its events and its registrations               *)

\* The rest of TypeOK, and what it says of the connection.
ThreadOK ==
    /\ qlock \in Reporters \cup {"agent", "free"}
    /\ pc \in {"loop", "check", "center", "asleep", "resolve", "connect", "poll", "handle",
               "send", "drained", "heartbeat", "exited"}
    /\ batch \in Seq({"queue", "in", "out", "error"})
    /\ qwatch \in BOOLEAN /\ cwatch \in {"none", "in", "inout"}
    /\ conn \in [up : BOOLEAN, blocking : BOOLEAN, peer : {"open", "closed", "reset"},
                 input : {"none", "good", "bad"}, room : 0..RoomMax]
    /\ center \in BOOLEAN /\ stop \in BOOLEAN
    /\ stopper \in {"idle", "flagged", "joining", "done"}

\* TypeOK is its two parts.
LEMMA TypeParts == TypeOK /\ accepted \in Nat <=> MessageOK /\ ThreadOK
  BY DEF TypeOK, MessageOK, ThreadOK

\* The inductive invariant, message part and thread part.
LEMMA InvParts == IInv <=> MessageInv /\ ThreadOK /\ BatchInv /\ WatchInv
  BY TypeParts DEF IInv, MessageInv, RankInv, MessageOK

\* The events of the rest of a batch are those of the batch, moved by one.
LEMMA NextEventKeeps ==
    ASSUME ThreadOK, BatchInv, batch # <<>>, NextEvent
    PROVE  /\ batch' \in Seq({"queue", "in", "out", "error"})
           /\ \A i, j \in 1..Len(batch') : batch'[i] # "queue" /\ batch'[j] # "queue" => i = j
           /\ \A i \in 1..Len(batch') : batch'[i] = "out" => batch[1] = "queue" /\ cwatch = "inout"
  <1>1. /\ batch' \in Seq({"queue", "in", "out", "error"})
        /\ Len(batch) \in Nat \ {0} /\ Len(batch') = Len(batch) - 1
        /\ \A i \in 1..Len(batch') : batch'[i] = batch[i + 1]
    BY TailFacts DEF ThreadOK, NextEvent
  <1>2. \A i \in 1..Len(batch') : i + 1 \in 1..Len(batch) /\ i + 1 # 1
    BY <1>1
  <1>3. 1 \in 1..Len(batch)
    BY <1>1
  <1>4. ASSUME NEW i \in 1..Len(batch'), NEW j \in 1..Len(batch'),
               batch'[i] # "queue", batch'[j] # "queue"
        PROVE  i = j
    <2>1. i + 1 = j + 1
      BY <1>1, <1>2, <1>4 DEF BatchInv
    <2>2. QED
      BY <2>1
  <1>5. ASSUME NEW i \in 1..Len(batch'), batch'[i] = "out"
        PROVE  batch[1] = "queue" /\ cwatch = "inout"
    <2>1. batch[i + 1] = "out" /\ i + 1 \in 1..Len(batch) /\ i + 1 # 1
      BY <1>1, <1>2, <1>5
    <2>2. QED
      BY <2>1, <1>3 DEF BatchInv
  <1>6. QED
    BY <1>1, <1>4, <1>5

ThreadInv == ThreadOK /\ BatchInv /\ WatchInv

\* A step that changes neither the events in hand nor the registrations: the thread
\* goes somewhere else, or somebody else or the network does something.
LEMMA MoveKeeps ==
    ASSUME ThreadInv, ThreadOK', UNCHANGED <<batch, qwatch, cwatch>>, conn'.up = conn.up,
           current'.msg # 0 => current.msg # 0 \/ pc = "send",
           \/ pc' = pc /\ pc # "drained"
           \/ pc' = pc /\ current' = current
           \/ /\ pc \notin {"handle", "send", "drained"}
              /\ pc' \notin {"poll", "send", "drained"}
           \/ pc = "handle" /\ batch = <<>> /\ pc' = "loop"
           \/ pc = "loop" /\ conn.up /\ pc' = "poll"
           \/ pc = "handle" /\ batch # <<>> /\ batch[1] = "out" /\ pc' = "send"
           \/ pc = "send" /\ pc' = "drained" /\ current'.msg = 0
    PROVE  ThreadInv'
  <1>1. batch # <<>> => 1 \in 1..Len(batch)
    BY DEF ThreadInv, ThreadOK
  <1>2. pc = "send" => cwatch = "inout"
    BY <1>1 DEF ThreadInv, BatchInv
  <1>3. BatchInv'
    BY DEF ThreadInv, BatchInv
  <1>4. WatchInv'
    BY <1>2 DEF ThreadInv, WatchInv
  <1>5. QED
    BY <1>3, <1>4 DEF ThreadInv

\* The end of an event of the connector, which closes the connection or leaves it with
\* these registrations.
LEMMA ConnectorEventKeeps ==
    ASSUME ThreadInv, ThreadOK', pc \in {"handle", "send", "drained"}, batch # <<>>,
           batch[1] # "queue", NextEvent,
           \/ ~conn'.up /\ cwatch' = "none" /\ current'.msg = 0
           \/ /\ conn'.up = conn.up
              /\ UNCHANGED <<qwatch, cwatch>> /\ (current'.msg # 0 => current.msg # 0)
           \/ conn'.up /\ cwatch' = "inout"
           \/ conn'.up /\ cwatch' = "in" /\ qwatch' = TRUE /\ current'.msg = 0
    PROVE  ThreadInv'
  <1>1. BatchInv'
    <2>1. pc' = "handle"
      BY DEF NextEvent
    <2>2. \A i \in 1..Len(batch') : batch'[i] # "out"
      BY NextEventKeeps DEF ThreadInv
    <2>3. \A i, j \in 1..Len(batch') : batch'[i] # "queue" /\ batch'[j] # "queue" => i = j
      BY NextEventKeeps DEF ThreadInv
    <2>4. QED
      BY <2>1, <2>2, <2>3 DEF BatchInv
  <1>2. WatchInv'
    BY DEF ThreadInv, ThreadOK, WatchInv, NextEvent
  <1>3. QED
    BY <1>1, <1>2 DEF ThreadInv

-----------------------------------------------------------------------------
(* The steps                                                               *)

Inv == MessageInv /\ ThreadInv

\* report() and its wait for room.
LEMMA ReportKeeps ==
    ASSUME Inv, Report \/ \E r \in Reporters : ReportWait(r) \/ ReportTimeout(r)
    PROVE  Inv'
  <1>1. ThreadOK'
    BY DEF Inv, ThreadInv, ThreadOK, Report, ReportWait, ReportTimeout, loopVars, watchVars, stopVars
  <1>2. ThreadInv'
    BY <1>1, MoveKeeps
       DEF Inv, Report, ReportWait, ReportTimeout, loopVars, watchVars, sendVars
  <1>3. CASE Report
    BY <1>2, <1>3, PushBackKeeps DEF Inv, Report
  <1>4. CASE \E r \in Reporters : ReportWait(r) \/ ReportTimeout(r)
    BY <1>2, <1>4, MessagesUnchanged DEF Inv, ReportWait, ReportTimeout
  <1>5. QED
    BY <1>3, <1>4

\* The loop of run() up to the connection attempt, and the end of a batch.
LEMMA LoopKeeps ==
    ASSUME Inv,
           \/ RunLoop \/ CheckStop \/ ReadCenter \/ Resolve \/ ConnectFails
           \/ PollTimeout \/ EndOfBatch
    PROVE  Inv'
  <1>1. MessageInv'
    BY MessagesUnchanged DEF Inv, RunLoop, CheckStop, ReadCenter, Resolve, ConnectFails,
                             PollTimeout, EndOfBatch
  <1>2. /\ UNCHANGED <<batch, qwatch, cwatch, conn, current, qlock, center, stop, stopper>>
        /\ \/ /\ pc \notin {"handle", "send", "drained"}
              /\ pc' \notin {"poll", "send", "drained"}
           \/ pc = "handle" /\ batch = <<>> /\ pc' = "loop"
           \/ pc = "loop" /\ conn.up /\ pc' = "poll"
        /\ pc' \in {"loop", "check", "center", "asleep", "resolve", "connect", "poll",
                    "heartbeat", "exited"}
    BY DEF RunLoop, CheckStop, ReadCenter, Resolve, ConnectFails, PollTimeout, EndOfBatch,
           Goto, watchVars, sendVars, stopVars
  <1>3. ThreadOK'
    BY <1>2 DEF Inv, ThreadInv, ThreadOK
  <1>4. ThreadInv'
    BY <1>2, <1>3, MoveKeeps DEF Inv
  <1>5. QED
    BY <1>1, <1>4 DEF Inv

\* A new connection is watched for EPOLLOUT from the start.
LEMMA ConnectKeeps ==
    ASSUME Inv, NEW b \in BOOLEAN, Connect(b)
    PROVE  Inv'
  <1>1. MessageInv'
    BY MessagesUnchanged DEF Inv, Connect
  <1>2. conn' = [up |-> TRUE, blocking |-> b, peer |-> "open", input |-> "none", room |-> RoomMax]
    BY DEF Connect, Down
  <1>3. ThreadOK'
    <2>1. RoomMax \in 0..RoomMax
      BY AgentAssumption DEF AgentAssumption
    <2>2. conn' \in [up : BOOLEAN, blocking : BOOLEAN, peer : {"open", "closed", "reset"},
                     input : {"none", "good", "bad"}, room : 0..RoomMax]
      BY <1>2, <2>1
    <2>3. /\ pc' = "loop" /\ cwatch' = "inout"
          /\ UNCHANGED <<qlock, batch, qwatch, center, stop, stopper>>
      BY DEF Connect, Goto, stopVars
    <2>4. QED
      BY <2>2, <2>3 DEF Inv, ThreadInv, ThreadOK
  <1>4. BatchInv' /\ WatchInv'
    BY <1>2 DEF Inv, ThreadInv, BatchInv, WatchInv, Connect, Goto
  <1>5. QED
    BY <1>1, <1>3, <1>4 DEF Inv, ThreadInv

\* A batch of epoll_wait has the events that are watched for.
LEMMA PollKeeps ==
    ASSUME Inv, Poll
    PROVE  Inv'
  <1>1. MessageInv'
    BY MessagesUnchanged DEF Inv, Poll
  <1>2. batch' \in Batches /\ pc' = "handle"
        /\ UNCHANGED <<qwatch, cwatch, conn, current, qlock, center, stop, stopper>>
    BY DEF Poll, watchVars, sendVars, stopVars
  <1>3. ConnectorEvents \subseteq {"in", "out", "error"}
        /\ ("out" \in ConnectorEvents => cwatch = "inout")
    BY DEF ConnectorEvents
  <1>4. \/ batch' = <<"queue">>
        \/ \E e \in ConnectorEvents :
              batch' \in {<<e>>, <<"queue", e>>, <<e, "queue">>}
    BY <1>2 DEF Batches
  <1> DEFINE Watched ==
        /\ batch' \in Seq({"queue", "in", "out", "error"})
        /\ \A i, j \in 1..Len(batch') : batch'[i] # "queue" /\ batch'[j] # "queue" => i = j
        /\ \A i \in 1..Len(batch') : batch'[i] = "out" => cwatch = "inout"
  <1>5. Watched
    <2>1. CASE batch' = <<"queue">>
      BY <2>1
    <2>2. ASSUME NEW e \in ConnectorEvents, batch' \in {<<e>>, <<"queue", e>>, <<e, "queue">>}
          PROVE  Watched
      <3>1. CASE batch' = <<e>>
        BY <1>3, <2>2, <3>1
      <3>2. CASE batch' = <<"queue", e>>
        BY <1>3, <2>2, <3>2
      <3>3. CASE batch' = <<e, "queue">>
        BY <1>3, <2>2, <3>3
      <3>4. QED
        BY <2>2, <3>1, <3>2, <3>3
    <2>3. QED
      BY <1>4, <2>1, <2>2
  <1>6. ThreadOK'
    BY <1>2, <1>5 DEF Inv, ThreadInv, ThreadOK
  <1>7. BatchInv' /\ WatchInv'
    BY <1>2, <1>5 DEF Inv, ThreadInv, BatchInv, WatchInv
  <1>8. QED
    BY <1>1, <1>6, <1>7 DEF Inv, ThreadInv

\* send_heartbeat.
LEMMA HeartbeatKeeps ==
    ASSUME Inv, Heartbeat \/ HeartbeatTimeout
    PROVE  Inv'
  <1>1. /\ UNCHANGED <<batch, qwatch, cwatch, conn, current, center, stop, stopper>>
        /\ pc = "heartbeat" /\ pc' \in {"loop", "heartbeat"} /\ qlock' \in {qlock, "agent", "free"}
    BY DEF Heartbeat, HeartbeatTimeout, Goto, watchVars, sendVars, stopVars
  <1>2. ThreadOK'
    BY <1>1 DEF Inv, ThreadInv, ThreadOK
  <1>3. ThreadInv'
    BY <1>1, <1>2, MoveKeeps DEF Inv
  <1>4. MessageInv'
    BY PushBackKeeps, MessagesUnchanged DEF Inv, Heartbeat, HeartbeatTimeout
  <1>5. QED
    BY <1>3, <1>4 DEF Inv

\* The queue leaves the epoller, and EPOLLOUT takes its place if there is a connection.
LEMMA HandleQueueKeeps ==
    ASSUME Inv, HandleQueue
    PROVE  Inv'
  <1>1. MessageInv'
    BY MessagesUnchanged DEF Inv, HandleQueue
  <1>2. /\ batch # <<>> /\ NextEvent /\ pc' = "handle" /\ qwatch' = FALSE
        /\ cwatch' = (IF conn.up THEN "inout" ELSE cwatch)
        /\ UNCHANGED <<conn, current, qlock, center, stop, stopper>>
    BY DEF HandleQueue, NextEvent, WatchConnector, sendVars, stopVars
  <1>3. /\ batch' \in Seq({"queue", "in", "out", "error"})
        /\ \A i, j \in 1..Len(batch') : batch'[i] # "queue" /\ batch'[j] # "queue" => i = j
        /\ \A i \in 1..Len(batch') : batch'[i] = "out" => batch[1] = "queue" /\ cwatch = "inout"
    BY <1>2, NextEventKeeps DEF Inv, ThreadInv
  <1>4. ThreadOK'
    BY <1>2, <1>3 DEF Inv, ThreadInv, ThreadOK
  <1>5. BatchInv'
    BY <1>2, <1>3 DEF BatchInv
  <1>6. WatchInv'
    BY <1>2 DEF Inv, ThreadInv, WatchInv
  <1>7. QED
    BY <1>1, <1>4, <1>5, <1>6 DEF Inv, ThreadInv

\* The connector goes down, or its input has been taken.
LEMMA HandleConnectorKeeps ==
    ASSUME Inv, HandleInput \/ HandleError
    PROVE  Inv'
  <1>1. /\ pc = "handle" /\ batch # <<>> /\ batch[1] # "queue" /\ NextEvent
        /\ UNCHANGED <<queueVars, qwatch, qlock, center, stop, stopper>>
    <2>1. batch # <<>> => Head(batch) = batch[1]
      BY TailFacts DEF Inv, ThreadInv, ThreadOK
    <2>2. QED
      BY <2>1 DEF HandleInput, HandleError, stopVars
  <1>2. \/ CloseConnector
        \/ conn' = [conn EXCEPT !.input = "none"] /\ UNCHANGED <<cwatch, sendVars>>
    BY DEF HandleInput, HandleError
  <1>3. MessageInv'
    BY <1>1, <1>2, CloseKeeps, MessagesUnchanged DEF Inv
  <1>4. batch' \in Seq({"queue", "in", "out", "error"}) /\ pc' = "handle"
    BY <1>1, NextEventKeeps DEF Inv, ThreadInv, NextEvent
  <1>5. CASE CloseConnector
    <2>1. conn' = Down /\ cwatch' = "none" /\ current' = Empty
      BY <1>5 DEF CloseConnector
    <2>2. ThreadOK'
      BY <1>1, <1>4, <2>1, AgentAssumption
         DEF Inv, ThreadInv, ThreadOK, Down, AgentAssumption
    <2>3. ~conn'.up /\ current'.msg = 0
      BY <2>1 DEF Down, Empty
    <2>4. QED
      BY <1>1, <1>3, <2>1, <2>2, <2>3, ConnectorEventKeeps DEF Inv
  <1>6. CASE conn' = [conn EXCEPT !.input = "none"] /\ UNCHANGED <<cwatch, sendVars>>
    <2>1. ThreadOK' /\ conn'.up = conn.up
      BY <1>1, <1>4, <1>6 DEF Inv, ThreadInv, ThreadOK
    <2>2. QED
      BY <1>1, <1>3, <1>6, <2>1, ConnectorEventKeeps DEF Inv, sendVars
  <1>7. QED
    BY <1>2, <1>5, <1>6

\* handle_output up to the message it is to send.
LEMMA OutputKeeps ==
    ASSUME Inv, HandleOutput \/ GetMessage
    PROVE  Inv'
  <1>1. batch # <<>> => Head(batch) = batch[1]
    BY TailFacts DEF Inv, ThreadInv, ThreadOK
  <1>2. MessageInv'
    <2>1. CASE HandleOutput
      BY <2>1, MessagesUnchanged DEF Inv, HandleOutput
    <2>2. CASE GetMessage /\ queue # <<>>
      BY <2>2, PopFrontKeeps DEF Inv, GetMessage
    <2>3. CASE GetMessage /\ queue = <<>>
      BY <2>3, MessagesUnchanged DEF Inv, GetMessage, sendVars
    <2>4. QED
      BY <2>1, <2>2, <2>3
  <1>3. /\ UNCHANGED <<batch, qwatch, cwatch, conn, qlock, center, stop, stopper>>
        /\ pc' \in {"send", "drained"}
    BY DEF HandleOutput, GetMessage, Goto, watchVars, stopVars
  <1>4. ThreadOK'
    BY <1>3 DEF Inv, ThreadInv, ThreadOK
  <1>5. ThreadInv'
    <2>1. CASE HandleOutput
      BY <1>1, <1>3, <1>4, <2>1, MoveKeeps DEF Inv, HandleOutput, Goto, sendVars
    <2>2. CASE GetMessage
      <3>1. current.msg = 0
        BY <2>2 DEF Inv, MessageInv, RankInv, GetMessage, is_finish
      <3>2. QED
        BY <1>3, <1>4, <2>2, <3>1, MoveKeeps DEF Inv, GetMessage, Goto
    <2>3. QED
      BY <2>1, <2>2
  <1>6. QED
    BY <1>2, <1>5 DEF Inv

\* The queue is empty: back to the watch of its pipe.
LEMMA DrainedKeeps ==
    ASSUME Inv, EnableQueueRead
    PROVE  Inv'
  <1>1. MessageInv'
    BY MessagesUnchanged DEF Inv, EnableQueueRead
  <1>2. /\ pc = "drained" /\ batch # <<>> /\ batch[1] = "out" /\ NextEvent /\ pc' = "handle"
        /\ cwatch' = "in" /\ qwatch' = TRUE
        /\ UNCHANGED <<conn, current, qlock, center, stop, stopper>>
    BY DEF Inv, ThreadInv, BatchInv, EnableQueueRead, Drained, NextEvent, sendVars, stopVars
  <1>3. batch' \in Seq({"queue", "in", "out", "error"})
    BY <1>2, NextEventKeeps DEF Inv, ThreadInv
  <1>4. ThreadOK'
    BY <1>2, <1>3 DEF Inv, ThreadInv, ThreadOK
  <1>5. conn.up /\ current.msg = 0
    <2>1. 1 \in 1..Len(batch)
      BY <1>2 DEF Inv, ThreadInv, ThreadOK
    <2>2. QED
      BY <1>2, <2>1 DEF Inv, ThreadInv, BatchInv, WatchInv
  <1>6. QED
    BY <1>1, <1>2, <1>4, <1>5, ConnectorEventKeeps DEF Inv

\* continue_send: part of the message, all of it, or the end of the connection.
LEMMA SendKeeps ==
    ASSUME Inv, Send
    PROVE  Inv'
  <1> DEFINE n == IF conn.room < current.left THEN conn.room ELSE current.left
  <1>1. /\ pc = "send" /\ batch # <<>> /\ batch[1] = "out" /\ cwatch = "inout" /\ conn.up
        /\ UNCHANGED <<queueVars, qlock, qwatch, center, stop, stopper>>
    <2>1. pc = "send" /\ UNCHANGED <<queueVars, qlock, qwatch, center, stop, stopper>>
      BY DEF Send, stopVars
    <2>2. batch # <<>> /\ batch[1] = "out"
      BY <2>1 DEF Inv, ThreadInv, BatchInv
    <2>3. 1 \in 1..Len(batch)
      BY <2>2 DEF Inv, ThreadInv, ThreadOK
    <2>4. QED
      BY <2>1, <2>2, <2>3 DEF Inv, ThreadInv, BatchInv, WatchInv
  <1>2. /\ conn.room \in 0..RoomMax /\ RoomMax \in Nat
        /\ current.left \in 1..Parts /\ Parts \in Nat /\ current.msg # 0
    <2>1. current.left \in 0..Parts /\ current.left # 0
      BY DEF Inv, MessageInv, MessageOK, Send, is_finish
    <2>2. current.msg # 0
      BY <2>1 DEF Inv, MessageInv, RankInv
    <2>3. QED
      BY <2>1, <2>2, AgentAssumption DEF Inv, ThreadInv, ThreadOK, AgentAssumption
  <1>3. n \in Nat /\ n <= conn.room /\ n <= current.left
    BY <1>2
  <1>4. CASE CloseConnector /\ NextEvent
    <2>1. conn' = Down /\ cwatch' = "none" /\ current' = Empty
      BY <1>4 DEF CloseConnector
    <2>2. batch' \in Seq({"queue", "in", "out", "error"}) /\ pc' = "handle"
      BY <1>1, <1>4, NextEventKeeps DEF Inv, ThreadInv, NextEvent
    <2>3. ThreadOK'
      BY <1>1, <2>1, <2>2, AgentAssumption DEF Inv, ThreadInv, ThreadOK, Down, AgentAssumption
    <2>4. ~conn'.up /\ current'.msg = 0
      BY <2>1 DEF Down, Empty
    <2>5. ThreadInv'
      BY <1>1, <1>4, <2>1, <2>3, <2>4, ConnectorEventKeeps DEF Inv
    <2>6. QED
      BY <1>1, <1>4, <2>5, CloseKeeps DEF Inv
  <1> DEFINE Sends == conn' = [conn EXCEPT !.room = @ - n]
  <1>5. ASSUME Sends
        PROVE  /\ conn' \in [up : BOOLEAN, blocking : BOOLEAN, peer : {"open", "closed", "reset"},
                             input : {"none", "good", "bad"}, room : 0..RoomMax]
               /\ conn'.up = conn.up
    <2>1. conn.room - n \in 0..RoomMax
      BY <1>2, <1>3
    <2> HIDE DEF n
    <2>2. QED
      BY <1>5, <2>1 DEF Inv, ThreadInv, ThreadOK
  <1>6. CASE Sends /\ current' = Empty /\ done' = Append(done, "sent") /\ Goto("send")
             /\ UNCHANGED cwatch
    <2>1. MessageInv'
      BY <1>1, <1>2, <1>6, FinishKeeps DEF Inv
    <2>2. ThreadOK'
      BY <1>1, <1>5, <1>6 DEF Inv, ThreadInv, ThreadOK, Goto
    <2>3. current'.msg = 0
      BY <1>6 DEF Empty
    <2>4. ThreadInv'
      BY <1>1, <1>5, <1>6, <2>2, <2>3, MoveKeeps DEF Inv, Goto
    <2>5. QED
      BY <2>1, <2>4 DEF Inv
  <1>7. CASE /\ Sends /\ n # current.left
             /\ current' = [current EXCEPT !.left = @ - n] /\ UNCHANGED done
             /\ \/ Goto("send") /\ UNCHANGED cwatch
                \/ NextEvent /\ WatchConnector("inout")
    <2>1. current.left - n \in 1..Parts
      BY <1>2, <1>3, <1>7
    <2>2. /\ current'.msg = current.msg /\ current'.left = current.left - n
          /\ current' \in [msg : 0..accepted, left : 0..Parts]
      <3> HIDE DEF n
      <3>1. QED
        BY <1>2, <1>7, <2>1 DEF Inv, MessageInv, MessageOK
    <2>3. MessageInv'
      <3> HIDE DEF n
      <3>1. queue' = queue /\ pipe' = pipe /\ accepted' = accepted /\ done' = done
        BY <1>1, <1>7 DEF queueVars
      <3>2. MessageOK'
        BY <2>2, <3>1 DEF Inv, MessageInv, MessageOK
      <3>3. current'.msg # 0 /\ current'.left # 0
        BY <1>2, <2>1, <2>2
      <3>4. RankInv'
        BY <1>2, <2>2, <3>1, <3>3 DEF Inv, MessageInv, RankInv
      <3>5. QED
        BY <3>2, <3>4 DEF MessageInv
    <2>4. CASE Goto("send") /\ UNCHANGED cwatch
      <3>1. ThreadOK'
        BY <1>1, <1>5, <1>7, <2>4 DEF Inv, ThreadInv, ThreadOK, Goto
      <3>2. ThreadInv'
        BY <1>1, <1>2, <1>5, <1>7, <2>4, <3>1, MoveKeeps DEF Inv, Goto
      <3>3. QED
        BY <2>3, <3>2 DEF Inv
    <2>5. CASE NextEvent /\ WatchConnector("inout")
      <3>1. cwatch' = "inout"
        BY <1>1, <2>5 DEF WatchConnector
      <3>2. batch' \in Seq({"queue", "in", "out", "error"}) /\ pc' = "handle"
        BY <1>1, <2>5, NextEventKeeps DEF Inv, ThreadInv, NextEvent
      <3>3. ThreadOK'
        BY <1>1, <1>5, <1>7, <3>1, <3>2 DEF Inv, ThreadInv, ThreadOK
      <3>4. ThreadInv'
        BY <1>1, <1>5, <1>7, <2>5, <3>1, <3>3, ConnectorEventKeeps DEF Inv
      <3>5. QED
        BY <2>3, <3>4 DEF Inv
    <2>6. QED
      BY <1>7, <2>4, <2>5
  <1>8. QED
    BY <1>4, <1>6, <1>7 DEF Send

\* set_center, stop() and the network.
LEMMA OthersKeep ==
    ASSUME Inv,
           \/ SetCenter \/ StopFlag \/ StopStep \/ SocketDrains \/ PeerResets
           \/ \E d \in {"good", "bad"} : PeerWrites(d)
           \/ \E how \in {"closed", "reset"} : PeerBreaks(how)
    PROVE  Inv'
  <1>1. MessageInv'
    BY MessagesUnchanged DEF Inv, SetCenter, StopFlag, StopStep, BeforeStop, Join, SocketDrains,
                             PeerResets, PeerWrites, PeerBreaks
  <1>2. /\ UNCHANGED <<batch, qwatch, cwatch, current, qlock>>
        /\ pc' = pc \/ (pc = "asleep" /\ pc' = "check")
        /\ center' \in {center, TRUE} /\ stop' \in {stop, TRUE}
        /\ stopper' \in {stopper, "flagged", "joining", "done"}
    BY DEF SetCenter, StopFlag, StopStep, BeforeStop, Join, SocketDrains, PeerResets, PeerWrites,
           PeerBreaks, SignalCenter, loopVars, watchVars, sendVars, stopVars
  <1>3. \/ conn' = conn
        \/ conn' = [conn EXCEPT !.room = RoomMax]
        \/ \E d \in {"good", "bad"} : conn' = [conn EXCEPT !.input = d]
        \/ \E how \in {"closed", "reset"} : conn' = [conn EXCEPT !.peer = how]
    BY DEF SetCenter, StopFlag, StopStep, BeforeStop, Join, SocketDrains, PeerResets, PeerWrites,
           PeerBreaks
  <1>4. /\ conn' \in [up : BOOLEAN, blocking : BOOLEAN, peer : {"open", "closed", "reset"},
                      input : {"none", "good", "bad"}, room : 0..RoomMax]
        /\ conn'.up = conn.up
    <2>1. RoomMax \in 0..RoomMax
      BY AgentAssumption DEF AgentAssumption
    <2>2. QED
      BY <1>3, <2>1 DEF Inv, ThreadInv, ThreadOK
  <1>5. ThreadOK'
    <2>1. center' \in BOOLEAN /\ stop' \in BOOLEAN
      BY Zenon, <1>2 DEF Inv, ThreadInv, ThreadOK
    <2>2. /\ stopper' \in {"idle", "flagged", "joining", "done"}
          /\ pc' \in {"loop", "check", "center", "asleep", "resolve", "connect", "poll", "handle",
                     "send", "drained", "heartbeat", "exited"}
      BY <1>2 DEF Inv, ThreadInv, ThreadOK
    <2>3. QED
      BY <1>2, <1>4, <2>1, <2>2 DEF Inv, ThreadInv, ThreadOK
  <1>6. ThreadInv'
    BY <1>2, <1>4, <1>5, MoveKeeps DEF Inv
  <1>7. QED
    BY <1>1, <1>6 DEF Inv

-----------------------------------------------------------------------------
(* The results                                                             *)

\* Every step of the agent, its users and the network keeps the inductive invariant.
THEOREM InvHolds == Spec => []IInv
  <1>1. Init => IInv
    <2> SUFFICES ASSUME Init PROVE IInv
      OBVIOUS
    <2> USE AgentAssumption DEF AgentAssumption
    <2>1. TypeOK
      <3>1. MessageOK
        <4>1. current \in [msg : 0..accepted, left : 0..Parts]
          BY DEF Init, Empty
        <4>2. QED
          BY <4>1 DEF Init, MessageOK
      <3>2. conn \in [up : BOOLEAN, blocking : BOOLEAN, peer : {"open", "closed", "reset"},
                      input : {"none", "good", "bad"}, room : 0..RoomMax]
        BY DEF Init, Down
      <3>3. ThreadOK
        <4>1. batch \in Seq({"queue", "in", "out", "error"})
          BY DEF Init
        <4>2. QED
          BY Zenon, <3>2, <4>1 DEF Init, ThreadOK
      <3>4. QED
        BY <3>1, <3>3, TypeParts
    <2>2. RankInv
      <3>1. /\ accepted = 0 /\ queue = <<>> /\ done = <<>>
            /\ current.msg = 0 /\ current.left = 0
        BY DEF Init, Empty
      <3>2. Len(queue) = 0 /\ Len(done) = 0
        BY <3>1
      <3>3. \A i \in 1..Len(queue) : queue[i] = accepted - Len(queue) + i
        BY <3>2
      <3>4. Len(done) = accepted - Len(queue) - (IF current.msg = 0 THEN 0 ELSE 1)
        <4>1. (IF current.msg = 0 THEN 0 ELSE 1) = 0
          BY <3>1
        <4>2. 0 - 0 - 0 = 0
          OBVIOUS
        <4>3. QED
          BY Zenon, <3>1, <3>2, <4>1, <4>2
      <3>5. accepted \in Nat
        BY <3>1
      <3>6. QED
        BY Zenon, <3>1, <3>3, <3>4, <3>5 DEF RankInv
    <2>3. BatchInv /\ WatchInv
      BY DEF Init, BatchInv, WatchInv, Down, Empty
    <2>4. QED
      BY <2>1, <2>2, <2>3 DEF IInv
  <1>2. IInv <=> Inv
    BY InvParts DEF Inv, ThreadInv
  <1>3. IInv' <=> Inv'
    BY <1>2, PTL
  <1>4. Inv /\ [Next]_vars => Inv'
    <2> SUFFICES ASSUME Inv, [Next]_vars PROVE Inv'
      OBVIOUS
    <2>1. CASE UNCHANGED vars
      <3>1. MessageInv'
        BY <2>1, MessagesUnchanged DEF Inv, vars, queueVars, sendVars
      <3>2. ThreadInv'
        BY <2>1 DEF Inv, ThreadInv, ThreadOK, BatchInv, WatchInv, vars
      <3>3. QED
        BY <3>1, <3>2 DEF Inv
    <2>2. CASE ThreadStep
      BY <2>2, LoopKeeps, ConnectKeeps, PollKeeps, HeartbeatKeeps, HandleQueueKeeps,
         HandleConnectorKeeps, OutputKeeps, DrainedKeeps, SendKeeps DEF ThreadStep
    <2>3. QED
      BY <2>1, <2>2, ReportKeeps, OthersKeep DEF Next
  <1>5. QED
    BY <1>1, <1>2, <1>3, <1>4, PTL DEF Spec

\* The types of the agent, and one byte in the pipe of the queue per queued message.
THEOREM TypeCorrect == Spec => []TypeOK
  BY InvHolds, PTL DEF IInv

\* The thread never waits in epoll_wait without a watch on what lets it go on with
\* the messages it has, however events, breaks and reports interleave.
THEOREM WorkWatchedHolds == Spec => []WorkWatched
  <1>1. IInv => WorkWatched
    BY DEF IInv, WatchInv, WorkWatched
  <1>2. QED
    BY <1>1, InvHolds, PTL

\* Messages leave the agent in the order of their acceptance, without gaps or
\* repetitions.
THEOREM InOrderHolds == Spec => []InOrder
  <1>1. IInv => InOrder
    <2> SUFFICES ASSUME IInv PROVE InOrder
      OBVIOUS
    <2> DEFINE q == Len(queue)
    <2>1. /\ queue \in Seq(1..accepted) /\ q \in Nat /\ accepted \in Nat /\ current.msg \in 0..accepted
          /\ \A i \in 1..q : queue[i] = accepted - q + i
          /\ current.msg # 0 => current.msg = accepted - q
          /\ Len(done) = accepted - q - (IF current.msg = 0 THEN 0 ELSE 1)
      BY DEF IInv, TypeOK, RankInv
    <2>2. Len(done) \in Nat
      BY DEF IInv, TypeOK
    <2>3. CASE current.msg = 0
      <3>1. <<>> \o queue = queue
        BY <2>1
      <3>2. Len(done) = accepted - q /\ accepted - Len(done) = q
        BY <2>1, <2>3
      <3>3. queue = [i \in 1..q |-> Len(done) + i]
        <4>1. \A i \in 1..q : queue[i] = Len(done) + i
          BY <2>1, <3>2
        <4>2. QED
          BY <2>1, <4>1, <2>2, SeqIsFunction
      <3>4. QED
        BY <2>3, <3>1, <3>2, <3>3 DEF InOrder
    <2>4. CASE current.msg # 0
      <3> DEFINE s == <<current.msg>> \o queue
      <3>1. s \in Seq(Nat) /\ Len(s) = q + 1 /\ s[1] = current.msg
            /\ \A i \in 2..(q + 1) : s[i] = queue[i - 1]
        BY <2>1
      <3>2. Len(done) = accepted - q - 1 /\ accepted - Len(done) = q + 1
        BY <2>1, <2>4
      <3>3. \A i \in 1..(q + 1) : s[i] = Len(done) + i
        <4> SUFFICES ASSUME NEW i \in 1..(q + 1) PROVE s[i] = Len(done) + i
          OBVIOUS
        <4>1. CASE i = 1
          BY <2>1, <2>4, <3>1, <3>2, <4>1
        <4>2. CASE i # 1
          <5>1. i \in 2..(q + 1) /\ i - 1 \in 1..q
            BY <2>1, <4>2
          <5>2. s[i] = accepted - q + (i - 1)
            BY <2>1, <3>1, <5>1
          <5>3. accepted - q + (i - 1) = Len(done) + i
            BY <2>1, <3>2
          <5>4. QED
            BY <5>2, <5>3
        <4>3. QED
          BY <4>1, <4>2
      <3>4. s = [i \in 1..(q + 1) |-> Len(done) + i]
        <4>1. Len(s) = q + 1 /\ q + 1 \in Nat
          BY <2>1, <3>1
        <4> HIDE DEF s
        <4>2. QED
          BY <2>2, <3>1, <3>3, <4>1, SeqIsFunction
      <3>5. QED
        BY <2>4, <3>2, <3>4 DEF InOrder
    <2>5. QED
      BY <2>3, <2>4
  <1>2. QED
    BY <1>1, InvHolds, PTL
=============================================================================
