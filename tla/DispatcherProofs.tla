-------------------------- MODULE DispatcherProofs --------------------------
(***************************************************************************)
(* Proofs about Dispatcher, for any number of users, any sizes and any     *)
(* numbers of faults: messages leave in order and are given up only after  *)
(* all their resends, the send thread watches for the work it has, waiting *)
(* users are told of room, and the reference count covers all users.       *)
(***************************************************************************)
EXTENDS Dispatcher, FiniteSetTheorems, TLAPS

-----------------------------------------------------------------------------
(* Sequences                                                               *)

\* What Append does, pointwise.
LEMMA AppendFacts ==
    ASSUME NEW S, NEW s \in Seq(S), NEW e \in S
    PROVE  /\ Append(s, e) \in Seq(S)
           /\ Len(Append(s, e)) = Len(s) + 1
           /\ \A i \in 1..Len(s) : Append(s, e)[i] = s[i]
           /\ Append(s, e)[Len(s) + 1] = e
  OBVIOUS

\* What Tail does, pointwise.
LEMMA TailFacts ==
    ASSUME NEW S, NEW s \in Seq(S), s # <<>>
    PROVE  /\ Tail(s) \in Seq(S) /\ Head(s) \in S /\ Head(s) = s[1]
           /\ Len(s) \in Nat \ {0} /\ Len(Tail(s)) = Len(s) - 1
           /\ \A i \in 1..Len(Tail(s)) : Tail(s)[i] = s[i + 1]
  OBVIOUS

\* Elements of a larger set.
LEMMA SeqSubset ==
    ASSUME NEW S, NEW T, S \subseteq T, NEW s \in Seq(S)
    PROVE  s \in Seq(T)
  OBVIOUS

\* A sequence of consecutive numbers as a function.
LEMMA SeqIsFunction ==
    ASSUME NEW S, NEW s \in Seq(S), NEW n \in Nat, n = Len(s), NEW k \in Nat,
           \A i \in 1..n : s[i] = k + i
    PROVE  s = [i \in 1..n |-> k + i]
  OBVIOUS

-----------------------------------------------------------------------------
\* The messages that have left the queue.
Taken == accepted - Len(queue)

MessageOK ==
    /\ accepted \in Nat /\ accepted <= MaxMessages
    /\ queue \in Seq(1..accepted) /\ Len(queue) <= QueueMax
    /\ current \in [msg : 0..accepted, off : 0..(Parts - 1)]
    /\ resends \in 0..ResendMax
    /\ done \in Seq({"sent", "dropped"})
    /\ fails \in [1..MaxMessages -> Nat]

\* The rank of a message is its place in the queue, counted from those that have
\* left it; the current message is the last one of these.
RankInv ==
    /\ \A i \in 1..Len(queue) : queue[i] = Taken + i
    /\ current.msg # 0 => current.msg = Taken /\ Len(done) = Taken - 1
    /\ current.msg = 0 => Len(done) = Taken

\* _cur_resend_times counts the failures of the current message, and of no other.
ResendInv ==
    /\ current.msg = 0 => resends = 0
    /\ current.msg # 0 => fails[current.msg] = resends
    /\ \A i \in 1..MaxMessages : i > Taken => fails[i] = 0
    /\ \A i \in 1..Len(done) : done[i] = "dropped" => fails[i] = ResendMax + 1

MessageInv == MessageOK /\ RankInv /\ ResendInv

Conn == [state : {"down", "establishing", "established"},
         peer : {"none", "pending", "open", "closed", "reset"}, shut : BOOLEAN,
         reply : {"none", "good", "bad"}, room : 0..RoomMax]

LinkOK ==
    /\ place \in {"unconnected", "reconnect", "connected", "removed"}
    /\ conn \in Conn
    /\ qwatch \in BOOLEAN /\ cwatch \in {"none", "in", "inout"}
    /\ pc \in {"top", "timer", "poll", "handle", "send", "drained"}
    /\ batch \in Seq({"queue", "hup", "in", "out"})

\* A batch has at most one event of the sender, which is connected then, and
\* EPOLLOUT is pending or being handled only while it is watched.
BatchInv ==
    /\ \A i, j \in 1..Len(batch) : batch[i] # "queue" /\ batch[j] # "queue" => i = j
    /\ \A i \in 1..Len(batch) : batch[i] # "queue" => place = "connected"
    /\ \A i \in 1..Len(batch) : batch[i] = "out" => cwatch = "inout"
    /\ pc \notin {"handle", "send", "drained"} => batch = <<>>
    /\ pc \in {"handle", "send", "drained"} => batch # <<>>
    /\ pc \in {"send", "drained"} => batch[1] = "out"

\* The sender has a socket and is registered exactly in the list of the connected
\* ones; there the queue is out of the epoller only while EPOLLOUT is watched, and a
\* current message keeps EPOLLOUT watched.
WatchInv ==
    /\ place = "connected" <=> conn.state # "down"
    /\ place = "connected" <=> cwatch # "none"
    /\ place = "connected" => qwatch \/ cwatch = "inout"
    /\ place = "connected" /\ current.msg # 0 => cwatch = "inout"
    /\ pc = "drained" => current.msg = 0

LinkInv == LinkOK /\ BatchInv /\ WatchInv

\* Until a timeout, what was written last on the connection is the part before the one
\* that comes next, unless a file is resumed; without a connection nothing was written.
StreamInv ==
    /\ TornByTimeoutOnly
    /\ current.msg = 0 => current.off = 0
    /\ place # "connected" => last = Nothing
    /\ ~timedOut =>
          /\ current.off = 0 => last.part = Parts
          /\ current.off # 0 /\ current.msg \notin Files =>
                last = [msg |-> current.msg, part |-> current.off]

UsersInv == waiter \in [Users -> {"no", "waiting", "woken"}] /\ NoStrandedPusher

CountInv == holds \subseteq Users /\ refs \in Nat /\ CountCoversUse

-----------------------------------------------------------------------------
(* The queue, the current message and its resends                          *)

\* The numbers of a state, for arithmetic.
LEMMA MessageNumbers ==
    ASSUME MessageInv
    PROVE  /\ accepted \in Nat /\ Len(queue) \in Nat /\ Len(done) \in Nat
           /\ Taken \in Nat /\ Taken <= accepted /\ accepted <= MaxMessages
           /\ Len(done) <= Taken /\ MaxMessages \in Nat /\ resends \in Nat
           /\ QueueMax \in Nat \ {0} /\ Parts \in Nat \ {0} /\ ResendMax \in Nat
  <1>1. /\ accepted \in Nat /\ Len(queue) \in Nat /\ Len(done) \in Nat
        /\ accepted <= MaxMessages /\ resends \in 0..ResendMax
    BY DEF MessageInv, MessageOK
  <1>2. /\ MaxMessages \in Nat /\ QueueMax \in Nat \ {0} /\ Parts \in Nat \ {0}
        /\ ResendMax \in Nat
    BY DispatcherAssumption DEF DispatcherAssumption
  <1>3. Taken \in Int /\ Taken <= accepted
    BY <1>1 DEF Taken
  <1>4. Len(done) = Taken \/ Len(done) = Taken - 1
    BY DEF MessageInv, RankInv
  <1>5. QED
    BY <1>1, <1>2, <1>3, <1>4

\* Nothing happens to the messages.
LEMMA MessagesUnchanged ==
    ASSUME MessageInv, UNCHANGED <<queue, accepted, messageVars>>
    PROVE  MessageInv'
  BY DEF MessageInv, MessageOK, RankInv, ResendInv, Taken, messageVars

\* push_back adds the next rank.
LEMMA PushBackKeeps ==
    ASSUME MessageInv, ~is_full, accepted < MaxMessages, PushBack, UNCHANGED messageVars
    PROVE  MessageInv'
  <1>1. /\ accepted' = accepted + 1 /\ accepted' \in Nat /\ accepted' <= MaxMessages
        /\ accepted + 1 \in 1..accepted' /\ queue' = Append(queue, accepted + 1)
        /\ UNCHANGED <<current, resends, done, fails>>
    BY MessageNumbers DEF PushBack, messageVars
  <1>2. queue \in Seq(1..accepted')
    <2>1. 1..accepted \subseteq 1..accepted'
      BY <1>1, MessageNumbers
    <2>2. QED
      BY <2>1, SeqSubset DEF MessageInv, MessageOK
  <1>3. /\ queue' \in Seq(1..accepted') /\ Len(queue') = Len(queue) + 1
        /\ \A i \in 1..Len(queue) : queue'[i] = queue[i]
        /\ queue'[Len(queue) + 1] = accepted + 1
    BY <1>1, <1>2, AppendFacts
  <1>4. Len(queue') <= QueueMax
    BY <1>3, MessageNumbers DEF MessageInv, MessageOK, is_full
  <1>5. Taken' = Taken
    BY <1>1, <1>3, MessageNumbers DEF Taken
  <1>6. MessageOK'
    <2>1. current' \in [msg : 0..accepted', off : 0..(Parts - 1)]
      <3>1. 0..accepted \subseteq 0..accepted'
        BY <1>1, MessageNumbers
      <3>2. QED
        BY <1>1, <3>1 DEF MessageInv, MessageOK
    <2>2. QED
      BY <1>1, <1>3, <1>4, <2>1 DEF MessageInv, MessageOK
  <1>7. \A i \in 1..Len(queue') : queue'[i] = Taken' + i
    <2> SUFFICES ASSUME NEW i \in 1..Len(queue')
                 PROVE  queue'[i] = Taken + i
      BY <1>5
    <2>1. CASE i \in 1..Len(queue)
      BY <2>1, <1>3 DEF MessageInv, RankInv
    <2>2. CASE i = Len(queue) + 1
      <3>1. Taken + i = accepted + 1
        BY <2>2, MessageNumbers DEF Taken
      <3>2. QED
        BY <2>2, <1>3, <3>1
    <2>3. QED
      BY <2>1, <2>2, <1>3, MessageNumbers
  <1>8. RankInv' /\ ResendInv'
    BY <1>1, <1>5, <1>7 DEF MessageInv, RankInv, ResendInv
  <1>9. QED
    BY <1>6, <1>8 DEF MessageInv

\* get_current_message takes the lowest rank; no connection failed on it yet.
LEMMA GetCurrentKeeps ==
    ASSUME MessageInv, GetCurrent
    PROVE  MessageInv'
  <1>1. /\ current.msg = 0 /\ queue # <<>> /\ queue' = Tail(queue)
        /\ current' = [msg |-> Head(queue), off |-> 0]
        /\ UNCHANGED <<accepted, resends, done, fails>>
    BY DEF GetCurrent, NoCurrent
  <1>2. /\ queue' \in Seq(1..accepted) /\ Head(queue) \in 1..accepted
        /\ Head(queue) = queue[1]
        /\ Len(queue) \in Nat \ {0} /\ Len(queue') = Len(queue) - 1
        /\ \A i \in 1..Len(queue') : queue'[i] = queue[i + 1]
    BY <1>1, TailFacts DEF MessageInv, MessageOK
  <1>3. Taken' = Taken + 1
    BY <1>1, <1>2, MessageNumbers DEF Taken
  <1>4. Head(queue) = Taken + 1
    <2>1. 1 \in 1..Len(queue)
      BY <1>2
    <2>2. QED
      BY <1>2, <2>1 DEF MessageInv, RankInv
  <1>5. MessageOK'
    <2>1. current' \in [msg : 0..accepted, off : 0..(Parts - 1)]
      BY <1>1, <1>2, MessageNumbers
    <2>2. Len(queue') <= QueueMax
      BY <1>2, MessageNumbers DEF MessageInv, MessageOK
    <2>3. QED
      BY <1>1, <1>2, <2>1, <2>2 DEF MessageInv, MessageOK
  <1>6. current'.msg = Taken' /\ current'.msg # 0
    BY <1>1, <1>3, <1>4, MessageNumbers
  <1>7. RankInv'
    <2>1. ASSUME NEW i \in 1..Len(queue')
          PROVE  queue'[i] = Taken' + i
      <3>1. i + 1 \in 1..Len(queue)
        BY <1>2
      <3>2. queue[i + 1] = Taken + (i + 1)
        BY <3>1 DEF MessageInv, RankInv
      <3>3. QED
        BY <3>2, <1>2, <1>3, MessageNumbers
    <2>2. Len(done') = Taken' - 1
      BY <1>1, <1>3, MessageNumbers DEF MessageInv, RankInv
    <2>3. QED
      BY <1>6, <2>1, <2>2 DEF RankInv
  <1>8. ResendInv'
    <2>1. fails'[current'.msg] = resends'
      <3>1. Taken + 1 \in 1..MaxMessages /\ Taken + 1 > Taken
        BY <1>2, <1>4, MessageNumbers
      <3>2. fails[Taken + 1] = 0 /\ resends = 0
        BY <1>1, <3>1 DEF MessageInv, ResendInv
      <3>3. QED
        BY <1>1, <1>3, <1>6, <3>2
    <2>2. \A i \in 1..MaxMessages : i > Taken' => fails'[i] = 0
      BY <1>1, <1>3, MessageNumbers DEF MessageInv, ResendInv
    <2>3. \A i \in 1..Len(done') : done'[i] = "dropped" => fails'[i] = ResendMax + 1
      BY <1>1 DEF MessageInv, ResendInv
    <2>4. QED
      BY <1>6, <2>1, <2>2, <2>3 DEF ResendInv
  <1>9. QED
    BY <1>5, <1>7, <1>8 DEF MessageInv

\* A message ends as sent, with its failures as they are, or as dropped, with one
\* failure more than it had resends.
LEMMA FreeKeeps ==
    ASSUME MessageInv, current.msg # 0, NEW fate \in {"sent", "dropped"},
           free_current_message(fate), UNCHANGED <<queue, accepted>>,
           fails' \in [1..MaxMessages -> Nat],
           \A i \in 1..MaxMessages : i # current.msg => fails'[i] = fails[i],
           fate = "dropped" => fails'[current.msg] = ResendMax + 1
    PROVE  MessageInv'
  <1>1. /\ done' = Append(done, fate) /\ current' = Empty /\ resends' = 0
        /\ queue' = queue /\ accepted' = accepted /\ Taken' = Taken
    BY DEF free_current_message, Taken
  <1>2. /\ done' \in Seq({"sent", "dropped"}) /\ Len(done') = Len(done) + 1
        /\ \A i \in 1..Len(done) : done'[i] = done[i]
        /\ done'[Len(done) + 1] = fate
    BY <1>1, AppendFacts DEF MessageInv, MessageOK
  <1>3. current.msg = Taken /\ current.msg = Len(done) + 1 /\ current'.msg = 0
    BY <1>1, MessageNumbers DEF MessageInv, RankInv, Empty
  <1>4. MessageOK'
    <2>1. current' \in [msg : 0..accepted, off : 0..(Parts - 1)] /\ resends' \in 0..ResendMax
      BY <1>1, MessageNumbers DEF Empty
    <2>2. QED
      BY <1>1, <1>2, <2>1 DEF MessageInv, MessageOK
  <1>5. RankInv'
    <2>1. Len(done') = Taken'
      BY <1>1, <1>2, <1>3, MessageNumbers
    <2>2. QED
      BY <1>1, <1>3, <2>1 DEF MessageInv, RankInv
  <1>6. ResendInv'
    <2>1. ASSUME NEW i \in 1..MaxMessages, i > Taken'
          PROVE  fails'[i] = 0
      <3>1. i # current.msg
        BY <1>1, <1>3, <2>1, MessageNumbers
      <3>2. QED
        BY <1>1, <2>1, <3>1 DEF MessageInv, ResendInv
    <2>2. ASSUME NEW i \in 1..Len(done'), done'[i] = "dropped"
          PROVE  fails'[i] = ResendMax + 1
      <3>1. CASE i = Len(done) + 1
        BY <1>2, <1>3, <2>2, <3>1
      <3>2. CASE i # Len(done) + 1
        <4>1. i \in 1..Len(done) /\ i \in 1..MaxMessages /\ i # current.msg
          BY <1>2, <1>3, <3>2, MessageNumbers
        <4>2. QED
          BY <1>2, <2>2, <4>1 DEF MessageInv, ResendInv
      <3>3. QED
        BY <3>1, <3>2
    <2>3. QED
      BY <1>1, <1>3, <2>1, <2>2 DEF ResendInv
  <1>7. QED
    BY <1>4, <1>5, <1>6 DEF MessageInv

\* The current message stays, with the failures counted by resends.
LEMMA StayKeeps ==
    ASSUME MessageInv, current.msg # 0, UNCHANGED <<queue, accepted, done>>,
           current'.msg = current.msg,
           current' \in [msg : 0..accepted, off : 0..(Parts - 1)],
           resends' \in 0..ResendMax,
           fails' \in [1..MaxMessages -> Nat],
           \A i \in 1..MaxMessages : i # current.msg => fails'[i] = fails[i],
           fails'[current.msg] = resends'
    PROVE  MessageInv'
  <1>1. queue' = queue /\ accepted' = accepted /\ done' = done /\ Taken' = Taken
    BY DEF Taken
  <1>2. current.msg = Taken /\ Len(done) = Taken - 1
    BY DEF MessageInv, RankInv
  <1>3. MessageOK'
    BY <1>1 DEF MessageInv, MessageOK
  <1>4. RankInv'
    BY <1>1 DEF MessageInv, RankInv
  <1>5. ResendInv'
    <2>1. ASSUME NEW i \in 1..MaxMessages, i > Taken'
          PROVE  fails'[i] = 0
      <3>1. i # current.msg
        BY <1>1, <1>2, <2>1, MessageNumbers
      <3>2. QED
        BY <1>1, <2>1, <3>1 DEF MessageInv, ResendInv
    <2>2. ASSUME NEW i \in 1..Len(done'), done'[i] = "dropped"
          PROVE  fails'[i] = ResendMax + 1
      <3>1. i \in 1..Len(done) /\ i \in 1..MaxMessages /\ i # current.msg
        BY <1>1, <1>2, MessageNumbers
      <3>2. QED
        BY <1>1, <2>2, <3>1 DEF MessageInv, ResendInv
    <2>3. QED
      BY <2>1, <2>2 DEF ResendInv
  <1>6. QED
    BY <1>3, <1>4, <1>5 DEF MessageInv

\* reset_current_message(false): one failure more, and a resend or the end.
LEMMA FailKeeps ==
    ASSUME MessageInv, FailCurrent, UNCHANGED <<queue, accepted>>
    PROVE  MessageInv'
  <1>1. CASE current.msg = 0
    BY <1>1, MessagesUnchanged DEF FailCurrent
  <1>2. CASE current.msg # 0
    <2>1. current.msg \in 1..MaxMessages /\ fails[current.msg] = resends
      <3>1. current.msg \in 0..accepted
        BY DEF MessageInv, MessageOK
      <3>2. QED
        BY <1>2, <3>1, MessageNumbers DEF MessageInv, ResendInv
    <2>2. /\ fails' \in [1..MaxMessages -> Nat]
          /\ fails'[current.msg] = resends + 1
          /\ \A i \in 1..MaxMessages : i # current.msg => fails'[i] = fails[i]
      <3>1. fails' = [fails EXCEPT ![current.msg] = fails[current.msg] + 1]
        BY <1>2 DEF FailCurrent
      <3>2. fails \in [1..MaxMessages -> Nat] /\ resends + 1 \in Nat
        BY MessageNumbers DEF MessageInv, MessageOK
      <3>3. QED
        BY <2>1, <3>1, <3>2
    <2>3. CASE resends < ResendMax
      <3>1. resends' = resends + 1 /\ RestartMessage /\ done' = done
        BY <1>2, <2>3 DEF FailCurrent
      <3>2. /\ current'.msg = current.msg
            /\ current' \in [msg : 0..accepted, off : 0..(Parts - 1)]
        <4>1. 0 \in 0..(Parts - 1)
          BY MessageNumbers
        <4>2. QED
          BY <3>1, <4>1 DEF RestartMessage, MessageInv, MessageOK
      <3>3. resends' \in 0..ResendMax
        BY <2>3, <3>1, MessageNumbers
      <3>4. QED
        BY <1>2, <2>2, <3>1, <3>2, <3>3, StayKeeps
    <2>4. CASE ~(resends < ResendMax)
      <3>1. free_current_message("dropped") /\ resends = ResendMax
        BY <1>2, <2>4, MessageNumbers DEF FailCurrent, MessageInv, MessageOK
      <3>2. QED
        BY <1>2, <2>2, <3>1, FreeKeeps
    <2>5. QED
      BY <2>3, <2>4
  <1>3. QED
    BY <1>1, <1>2

\* continue_send: a part of the message that is not the last, or the last one.
LEMMA SendKeepsMessages ==
    ASSUME MessageInv, conn.room \in Nat, Send
    PROVE  MessageInv'
  <1> DEFINE rest == Parts - current.off
             n == IF conn.room < rest THEN conn.room ELSE rest
  <1>1. current.msg # 0 /\ queue' = queue /\ accepted' = accepted
    BY DEF Send
  <1>2. /\ current.msg \in 1..MaxMessages /\ fails[current.msg] = resends
        /\ current.off \in 0..(Parts - 1)
        /\ fails \in [1..MaxMessages -> Nat] /\ resends \in 0..ResendMax
    <2>1. current.msg \in 0..accepted /\ current.off \in 0..(Parts - 1)
      BY DEF MessageInv, MessageOK
    <2>2. QED
      BY <1>1, <2>1, MessageNumbers DEF MessageInv, MessageOK, ResendInv
  <1>3. CASE Broken
    BY <1>1, <1>3, FailKeeps DEF Broken
  <1>4. CASE n = rest /\ free_current_message("sent") /\ fails' = fails
    <2> HIDE DEF n
    <2>1. QED
      BY <1>1, <1>2, <1>4, FreeKeeps
  <1>5. CASE /\ n # rest /\ current' = [current EXCEPT !.off = @ + n]
             /\ UNCHANGED <<done, resends, fails>>
    <2>1. current.off + n \in 0..(Parts - 1)
      BY <1>2, <1>5, MessageNumbers
    <2> HIDE DEF n
    <2>2. /\ current'.msg = current.msg
          /\ current' \in [msg : 0..accepted, off : 0..(Parts - 1)]
      BY <1>5, <2>1 DEF MessageInv, MessageOK
    <2>3. QED
      BY <1>1, <1>2, <1>5, <2>2, StayKeeps
  <1>6. QED
    BY <1>3, <1>4, <1>5 DEF Send

\* The steps that touch neither the queue nor the current message.
OtherStep ==
    \/ SkipReconnect \/ CheckQueues \/ RemoveSender \/ NothingToConnect \/ CheckTimeout
    \/ Poll \/ HandleQueue \/ HandleOutput \/ QueueEmpty \/ WatchQueue
    \/ \E u \in Users : \/ PushWait(u) \/ PushTimeout(u) \/ GetSender(u) \/ CloseSender(u)
                        \/ ReleaseSender(u) \/ RemoveFromTable(u)
    \/ Accepts \/ SocketDrains \/ PeerFollows
    \/ \E how \in {"closed", "reset"} : Breaks(how)
    \/ \E r \in {"good", "bad"} : Replies(r)

\* Every step preserves the order of the messages and the count of their failures.
LEMMA MessageStep ==
    ASSUME MessageInv, LinkOK, Next
    PROVE  MessageInv'
  <1>1. CASE OtherStep
    <2>1. UNCHANGED <<queue, accepted, messageVars>>
      BY <1>1 DEF OtherStep, SkipReconnect, CheckQueues, RemoveSender, NothingToConnect,
                  CheckTimeout, Poll, HandleQueue, HandleOutput, QueueEmpty, WatchQueue,
                  PushWait, PushTimeout, GetSender, CloseSender, ReleaseSender,
                  RemoveFromTable, Accepts, SocketDrains, PeerFollows, Breaks, Replies
    <2>2. QED
      BY <2>1, MessagesUnchanged
  <1>2. ASSUME NEW u \in Users, Push(u)
        PROVE  MessageInv'
    BY <1>2, PushBackKeeps DEF Push
  <1>3. CASE GetCurrent
    BY <1>3, GetCurrentKeeps
  <1>4. CASE HandleHup
    BY <1>4, FailKeeps DEF HandleHup, Broken
  <1>5. CASE HandleReply
    BY <1>5, FailKeeps, MessagesUnchanged DEF HandleReply, Broken
  <1>6. CASE Send
    <2>1. conn.room \in Nat
      BY DispatcherAssumption DEF LinkOK, Conn, DispatcherAssumption
    <2>2. QED
      BY <1>6, <2>1, SendKeepsMessages
  <1>7. QED
    BY <1>1, <1>2, <1>3, <1>4, <1>5, <1>6 DEF Next, ThreadStep, UserStep, OtherStep

-----------------------------------------------------------------------------
(* The send thread: where it is, its events and its registrations          *)

\* The events of the rest of a batch are those of the batch, moved by one.
LEMMA NextEventKeeps ==
    ASSUME LinkInv, batch # <<>>, NextEvent
    PROVE  /\ batch' \in Seq({"queue", "hup", "in", "out"})
           /\ \A i, j \in 1..Len(batch') : batch'[i] # "queue" /\ batch'[j] # "queue" => i = j
           /\ \A i \in 1..Len(batch') : batch'[i] # "queue" =>
                 batch[1] = "queue" /\ place = "connected"
           /\ \A i \in 1..Len(batch') : batch'[i] = "out" => cwatch = "inout"
           /\ \/ pc' = "handle" /\ batch' # <<>>
              \/ pc' = "top" /\ batch' = <<>>
  <1>1. /\ batch' \in Seq({"queue", "hup", "in", "out"})
        /\ Len(batch) \in Nat \ {0} /\ Len(batch') = Len(batch) - 1
        /\ \A i \in 1..Len(batch') : batch'[i] = batch[i + 1]
    BY TailFacts DEF LinkInv, LinkOK, NextEvent
  <1>2. \A i \in 1..Len(batch') : i + 1 \in 1..Len(batch) /\ i + 1 # 1
    BY <1>1
  <1>3. 1 \in 1..Len(batch)
    BY <1>1
  <1>4. ASSUME NEW i \in 1..Len(batch'), NEW j \in 1..Len(batch'),
               batch'[i] # "queue", batch'[j] # "queue"
        PROVE  i = j
    <2>1. i + 1 = j + 1
      BY <1>1, <1>2, <1>4 DEF LinkInv, BatchInv
    <2>2. QED
      BY <2>1
  <1>5. ASSUME NEW i \in 1..Len(batch'), batch'[i] # "queue"
        PROVE  batch[1] = "queue" /\ place = "connected" /\ (batch'[i] = "out" => cwatch = "inout")
    <2>1. batch[i + 1] = batch'[i] /\ i + 1 \in 1..Len(batch) /\ i + 1 # 1
      BY <1>1, <1>2
    <2>2. QED
      BY <1>3, <1>5, <2>1 DEF LinkInv, BatchInv
  <1>6. \/ pc' = "handle" /\ batch' # <<>>
        \/ pc' = "top" /\ batch' = <<>>
    <2>1. CASE Len(batch) > 1
      <3>1. pc' = "handle" /\ Len(batch') # 0
        BY <1>1, <2>1 DEF NextEvent
      <3>2. QED
        BY <3>1
    <2>2. CASE ~(Len(batch) > 1)
      <3>1. pc' = "top" /\ Len(batch') = 0
        BY <1>1, <2>2 DEF NextEvent
      <3>2. QED
        BY <1>1, <3>1
    <2>3. QED
      BY <2>1, <2>2
  <1>7. QED
    BY <1>1, <1>4, <1>5, <1>6

\* While the thread handles an event of the sender, the sender is connected.
LEMMA HandledConnected ==
    ASSUME LinkInv, batch # <<>>
    PROVE  /\ Head(batch) = batch[1]
           /\ batch[1] # "queue" => place = "connected"
           /\ batch[1] = "out" => cwatch = "inout"
  <1>1. Head(batch) = batch[1] /\ 1 \in 1..Len(batch)
    BY TailFacts DEF LinkInv, LinkOK
  <1>2. QED
    BY <1>1 DEF LinkInv, BatchInv

SameLink == place' = place /\ (conn'.state # "down" <=> conn.state # "down")

\* A step that changes neither the events in hand nor the registrations: the thread
\* goes somewhere else, or a user or the network does something.
LEMMA MoveKeeps ==
    ASSUME LinkInv, LinkOK', UNCHANGED <<batch, qwatch, cwatch>>, SameLink,
           current'.msg # 0 => current.msg # 0 \/ pc = "send",
           \/ pc' = pc /\ pc # "drained"
           \/ pc' = pc /\ current' = current
           \/ /\ pc \notin {"handle", "send", "drained"}
              /\ pc' \notin {"handle", "send", "drained"}
           \/ pc = "handle" /\ batch[1] = "out" /\ pc' = "send"
           \/ pc = "send" /\ pc' = "drained" /\ current'.msg = 0
    PROVE  LinkInv'
  <1>1. pc = "send" => cwatch = "inout"
    BY HandledConnected DEF LinkInv, BatchInv
  <1>2. BatchInv'
    BY DEF LinkInv, BatchInv, SameLink
  <1>3. WatchInv'
    BY <1>1 DEF LinkInv, WatchInv, SameLink
  <1>4. QED
    BY <1>2, <1>3 DEF LinkInv

\* The thread changes the link between two rounds of epoll.
LEMMA RelinkKeeps ==
    ASSUME LinkInv, LinkOK', pc \notin {"handle", "send", "drained"},
           pc' \notin {"handle", "send", "drained"}, batch' = batch,
           \/ place' # "connected" /\ conn'.state = "down" /\ cwatch' = "none"
           \/ place' = "connected" /\ conn'.state # "down" /\ cwatch' = "inout"
    PROVE  LinkInv'
  <1>1. batch = <<>>
    BY DEF LinkInv, BatchInv
  <1>2. BatchInv'
    BY <1>1 DEF BatchInv
  <1>3. WatchInv'
    BY DEF WatchInv
  <1>4. QED
    BY <1>2, <1>3 DEF LinkInv

\* The end of an event of the sender, which closes the connection or leaves it with
\* these registrations.
LEMMA SenderEventKeeps ==
    ASSUME LinkInv, LinkOK', pc \in {"handle", "send", "drained"}, batch # <<>>,
           batch[1] # "queue", NextEvent,
           \/ place' # "connected" /\ conn'.state = "down" /\ cwatch' = "none"
           \/ SameLink /\ UNCHANGED <<qwatch, cwatch>> /\ (current'.msg # 0 => current.msg # 0)
           \/ SameLink /\ cwatch' = "inout"
           \/ SameLink /\ cwatch' = "in" /\ qwatch' = TRUE /\ current'.msg = 0
    PROVE  LinkInv'
  <1>1. place = "connected"
    BY HandledConnected
  <1>2. \A i \in 1..Len(batch') : batch'[i] = "queue"
    BY NextEventKeeps
  <1>3. \/ pc' = "handle" /\ batch' # <<>>
        \/ pc' = "top" /\ batch' = <<>>
    BY NextEventKeeps
  <1>4. BatchInv'
    BY <1>2, <1>3 DEF BatchInv
  <1>5. WatchInv'
    BY <1>1, <1>3 DEF LinkInv, WatchInv, SameLink
  <1>6. QED
    BY <1>4, <1>5 DEF LinkInv

\* The numbers of a connection.
LEMMA RoomFacts == RoomMax \in Nat /\ RoomMax \in 0..RoomMax /\ 0 \in 0..RoomMax /\ Down \in Conn
  BY DispatcherAssumption DEF DispatcherAssumption, Down, Conn

\* What the network and a user's shutdown do to the socket.
LEMMA NetworkConn ==
    ASSUME conn \in Conn,
           \/ Accepts \/ SocketDrains \/ PeerFollows \/ shutdown
           \/ \E how \in {"closed", "reset"} : Breaks(how)
           \/ \E r \in {"good", "bad"} : Replies(r)
    PROVE  conn' \in Conn /\ conn'.state = conn.state
  <1>1. CASE Accepts
    BY <1>1, RoomFacts DEF Accepts, Conn
  <1>2. CASE SocketDrains
    BY <1>2, RoomFacts DEF SocketDrains, Conn
  <1>3. CASE PeerFollows
    BY <1>3 DEF PeerFollows, Conn
  <1>4. CASE shutdown
    <2>1. \/ conn' = conn
          \/ conn' = [conn EXCEPT !.peer = "reset"]
          \/ conn' = [conn EXCEPT !.shut = TRUE]
      BY <1>4 DEF shutdown
    <2>2. QED
      BY <2>1 DEF Conn
  <1>5. ASSUME NEW how \in {"closed", "reset"}, Breaks(how)
        PROVE  conn' \in Conn /\ conn'.state = conn.state
    BY <1>5 DEF Breaks, Conn
  <1>6. ASSUME NEW r \in {"good", "bad"}, Replies(r)
        PROVE  conn' \in Conn /\ conn'.state = conn.state
    BY <1>6 DEF Replies, Conn
  <1>7. QED
    BY <1>1, <1>2, <1>3, <1>4, <1>5, <1>6

\* The steps of the users and the network leave the thread where it is.
OutsideStep ==
    \/ \E u \in Users : UserStep(u)
    \/ Accepts \/ SocketDrains \/ PeerFollows
    \/ \E how \in {"closed", "reset"} : Breaks(how)
    \/ \E r \in {"good", "bad"} : Replies(r)

LEMMA OutsideKeepsLink ==
    ASSUME LinkInv, OutsideStep
    PROVE  LinkInv'
  <1>1. UNCHANGED <<place, qwatch, cwatch, pc, batch, current>>
    BY DEF OutsideStep, UserStep, Push, PushWait, PushTimeout, GetSender, CloseSender,
           ReleaseSender, RemoveFromTable, Accepts, SocketDrains, PeerFollows, Breaks, Replies,
           linkVars, watchVars, loopVars, messageVars
  <1>2. \/ conn' = conn
        \/ shutdown \/ Accepts \/ SocketDrains \/ PeerFollows
        \/ \E how \in {"closed", "reset"} : Breaks(how)
        \/ \E r \in {"good", "bad"} : Replies(r)
    BY DEF OutsideStep, UserStep, Push, PushWait, PushTimeout, GetSender, CloseSender,
           close_sender, ReleaseSender, RemoveFromTable
  <1>3. conn' \in Conn /\ conn'.state = conn.state
    BY <1>2, NetworkConn DEF LinkInv, LinkOK
  <1>4. LinkOK'
    BY <1>1, <1>3 DEF LinkInv, LinkOK
  <1>5. QED
    BY <1>1, <1>3, <1>4, MoveKeeps DEF SameLink

\* The thread before epoll_wait: the lists of senders and the timer.
LEMMA ListsKeepLink ==
    ASSUME LinkInv,
           SkipReconnect \/ CheckQueues \/ RemoveSender \/ NothingToConnect \/ CheckTimeout
    PROVE  LinkInv'
  <1>1. /\ pc \in {"top", "timer"} /\ pc' \in {"timer", "poll"}
        /\ UNCHANGED <<batch, qwatch, current>>
    BY DEF SkipReconnect, CheckQueues, RemoveSender, NothingToConnect, CheckTimeout, Goto,
           watchVars, messageVars
  <1>2. CASE SenderReconnect
    <2>1. place' = "reconnect" /\ conn' = Down /\ cwatch' = "none"
      BY <1>2 DEF SenderReconnect
    <2>2. conn'.state = "down" /\ conn' \in Conn
      BY <2>1, RoomFacts DEF Down
    <2>3. LinkOK'
      BY <1>1, <2>1, <2>2 DEF LinkInv, LinkOK
    <2>4. QED
      BY <1>1, <2>1, <2>2, <2>3, RelinkKeeps
  <1>3. ASSUME NEW state \in {"established", "establishing"}, Connected(state)
        PROVE  LinkInv'
    <2>1. place' = "connected" /\ cwatch' = "inout"
      BY <1>3 DEF Connected
    <2>2. conn'.state = state /\ conn' \in Conn
      BY <1>3, RoomFacts DEF Connected, Down, Conn
    <2>3. LinkOK'
      BY <1>1, <2>1, <2>2 DEF LinkInv, LinkOK
    <2>4. QED
      BY <1>1, <1>3, <2>1, <2>2, <2>3, RelinkKeeps
  <1>4. CASE RemoveSender
    <2>1. place = "reconnect" /\ place' = "removed" /\ cwatch' = cwatch
      BY <1>4 DEF RemoveSender, watchVars
    <2>2. conn.state = "down" /\ cwatch = "none"
      BY <2>1 DEF LinkInv, LinkOK, WatchInv
    <2>3. conn' = conn \/ shutdown
      BY <1>4 DEF RemoveSender, close_sender
    <2>4. conn' \in Conn /\ conn'.state = conn.state
      BY <2>3, NetworkConn DEF LinkInv, LinkOK
    <2>5. LinkOK'
      BY <1>1, <2>1, <2>4 DEF LinkInv, LinkOK
    <2>6. QED
      BY <1>1, <2>1, <2>2, <2>4, <2>5, RelinkKeeps
  <1>5. CASE UNCHANGED <<place, conn, cwatch>>
    <2>1. LinkOK'
      BY <1>1, <1>5 DEF LinkInv, LinkOK
    <2>2. QED
      BY <1>1, <1>5, <2>1, MoveKeeps DEF SameLink
  <1>6. QED
    BY <1>2, <1>3, <1>4, <1>5
       DEF SkipReconnect, CheckQueues, NothingToConnect, CheckTimeout, sender_connect,
           ConnectFails, linkVars, watchVars

\* A batch of epoll_wait has the events that are watched for.
LEMMA PollKeepsLink ==
    ASSUME LinkInv, Poll
    PROVE  LinkInv'
  <1>1. pc = "poll" /\ UNCHANGED <<place, conn, qwatch, cwatch, current>>
    BY DEF Poll, linkVars, watchVars, messageVars
  <1>2. CASE Batches = {}
    <2>1. pc' = "top" /\ batch' = batch
      BY <1>2 DEF Poll, Goto
    <2>2. LinkOK'
      BY <1>1, <2>1 DEF LinkInv, LinkOK
    <2>3. QED
      BY <1>1, <2>1, <2>2, MoveKeeps DEF SameLink
  <1>3. CASE Batches # {}
    <2>1. batch' \in Batches /\ pc' = "handle"
      BY <1>3 DEF Poll
    <2>2. /\ SenderEvents \subseteq {"hup", "in", "out"}
          /\ SenderEvents # {} => place = "connected"
          /\ "out" \in SenderEvents => cwatch = "inout"
      BY DEF SenderEvents, LinkInv, WatchInv
    <2>3. \/ batch' = <<"queue">>
          \/ \E e \in SenderEvents : batch' \in {<<e>>, <<"queue", e>>, <<e, "queue">>}
      BY <2>1 DEF Batches
    <2> DEFINE Watched ==
          /\ batch' \in Seq({"queue", "hup", "in", "out"}) /\ batch' # <<>>
          /\ \A i, j \in 1..Len(batch') : batch'[i] # "queue" /\ batch'[j] # "queue" => i = j
          /\ \A i \in 1..Len(batch') : batch'[i] # "queue" => place = "connected"
          /\ \A i \in 1..Len(batch') : batch'[i] = "out" => cwatch = "inout"
    <2>4. Watched
      <3>1. CASE batch' = <<"queue">>
        BY <3>1
      <3>2. ASSUME NEW e \in SenderEvents, batch' \in {<<e>>, <<"queue", e>>, <<e, "queue">>}
            PROVE  Watched
        <4>0. e \in {"hup", "in", "out"} /\ place = "connected" /\ (e = "out" => cwatch = "inout")
          BY <2>2
        <4>1. CASE batch' = <<e>>
          BY <4>0, <4>1
        <4>2. CASE batch' = <<"queue", e>>
          BY <4>0, <4>2
        <4>3. CASE batch' = <<e, "queue">>
          BY <4>0, <4>3
        <4>4. QED
          BY <3>2, <4>1, <4>2, <4>3
      <3>3. QED
        BY <2>3, <3>1, <3>2
    <2>5. LinkOK'
      BY <1>1, <2>1, <2>4 DEF LinkInv, LinkOK
    <2>6. BatchInv' /\ WatchInv'
      BY <1>1, <2>1, <2>4 DEF LinkInv, BatchInv, WatchInv
    <2>7. QED
      BY <2>5, <2>6 DEF LinkInv
  <1>4. QED
    BY <1>2, <1>3

\* The queue leaves the epoller, and EPOLLOUT takes its place if there is a socket.
LEMMA HandleQueueKeepsLink ==
    ASSUME LinkInv, HandleQueue
    PROVE  LinkInv'
  <1>1. /\ pc = "handle" /\ NextEvent /\ qwatch' = FALSE
        /\ cwatch' = (IF conn.state = "down" THEN cwatch ELSE "inout")
        /\ UNCHANGED <<place, conn, current>>
    BY DEF HandleQueue, Event, linkVars, messageVars
  <1>2. batch # <<>>
    BY <1>1 DEF LinkInv, BatchInv
  <1>3. /\ batch' \in Seq({"queue", "hup", "in", "out"})
        /\ \A i, j \in 1..Len(batch') : batch'[i] # "queue" /\ batch'[j] # "queue" => i = j
        /\ \A i \in 1..Len(batch') : batch'[i] # "queue" => place = "connected"
        /\ \A i \in 1..Len(batch') : batch'[i] = "out" => cwatch = "inout"
        /\ \/ pc' = "handle" /\ batch' # <<>>
           \/ pc' = "top" /\ batch' = <<>>
    BY <1>1, <1>2, NextEventKeeps
  <1>4. LinkOK'
    BY <1>1, <1>3 DEF LinkInv, LinkOK
  <1>5. BatchInv'
    BY <1>1, <1>3 DEF BatchInv
  <1>6. WatchInv'
    BY <1>1, <1>3 DEF LinkInv, WatchInv
  <1>7. QED
    BY <1>4, <1>5, <1>6 DEF LinkInv

\* epoll_close: the sender goes to the reconnect queue.
LEMMA BrokenKeepsLink ==
    ASSUME LinkInv, Broken, pc \in {"handle", "send"}, batch # <<>>, batch[1] # "queue",
           qwatch' = qwatch
    PROVE  LinkInv'
  <1>1. NextEvent /\ place' = "reconnect" /\ conn' = Down /\ cwatch' = "none"
    BY DEF Broken, SenderReconnect
  <1>2. conn'.state = "down" /\ conn' \in Conn
    BY <1>1, RoomFacts DEF Down
  <1>3. batch' \in Seq({"queue", "hup", "in", "out"}) /\ pc' \in {"handle", "top"}
    BY <1>1, NextEventKeeps
  <1>4. LinkOK'
    BY <1>1, <1>2, <1>3 DEF LinkInv, LinkOK
  <1>5. QED
    BY <1>1, <1>2, <1>4, SenderEventKeeps

\* The events of the sender that are not EPOLLOUT.
LEMMA HandleSenderKeepsLink ==
    ASSUME LinkInv, HandleHup \/ HandleReply
    PROVE  LinkInv'
  <1>1. /\ pc = "handle" /\ Head(batch) \in {"hup", "in"} /\ qwatch' = qwatch
        /\ \/ Broken
           \/ ReplyTaken /\ NextEvent /\ UNCHANGED <<cwatch, place, current>>
    BY DEF HandleHup, HandleReply, Event, messageVars
  <1>2. batch # <<>> /\ batch[1] # "queue"
    <2>1. batch # <<>>
      BY <1>1 DEF LinkInv, BatchInv
    <2>2. QED
      BY <1>1, <2>1, HandledConnected
  <1>3. CASE Broken
    BY <1>1, <1>2, <1>3, BrokenKeepsLink
  <1>4. CASE ReplyTaken /\ NextEvent /\ UNCHANGED <<cwatch, place, current>>
    <2>1. conn' \in Conn /\ conn'.state = conn.state
      BY <1>4 DEF ReplyTaken, LinkInv, LinkOK, Conn
    <2>2. batch' \in Seq({"queue", "hup", "in", "out"}) /\ pc' \in {"handle", "top"}
      BY <1>2, <1>4, NextEventKeeps
    <2>3. LinkOK'
      BY <1>1, <1>4, <2>1, <2>2 DEF LinkInv, LinkOK
    <2>4. QED
      BY <1>1, <1>2, <1>4, <2>1, <2>3, SenderEventKeeps DEF SameLink
  <1>5. QED
    BY <1>1, <1>3, <1>4

\* EPOLLOUT up to the message to send.
LEMMA OutputKeepsLink ==
    ASSUME LinkInv, HandleOutput \/ GetCurrent \/ QueueEmpty
    PROVE  LinkInv'
  <1>1. UNCHANGED <<place, batch, qwatch, cwatch>> /\ pc' \in {"send", "drained"}
    BY DEF HandleOutput, GetCurrent, QueueEmpty, Goto, linkVars, watchVars, loopVars
  <1>2. CASE HandleOutput
    <2>1. pc = "handle" /\ Head(batch) = "out" /\ pc' = "send" /\ current' = current
      BY <1>2 DEF HandleOutput, Event, Goto, messageVars
    <2>2. batch # <<>>
      BY <2>1 DEF LinkInv, BatchInv
    <2>3. batch[1] = "out" /\ place = "connected"
      BY <2>1, <2>2, HandledConnected
    <2>4. conn' \in Conn /\ conn'.state = "established"
      BY <1>2 DEF HandleOutput, LinkInv, LinkOK, Conn
    <2>5. SameLink
      BY <1>1, <2>3, <2>4 DEF SameLink, LinkInv, WatchInv
    <2>6. LinkOK'
      BY <1>1, <2>4 DEF LinkInv, LinkOK
    <2>7. QED
      BY <1>1, <2>1, <2>3, <2>5, <2>6, MoveKeeps
  <1>3. CASE GetCurrent \/ QueueEmpty
    <2>1. /\ pc = "send" /\ conn' = conn
          /\ \/ pc' = pc
             \/ pc' = "drained" /\ current'.msg = 0
      BY <1>3 DEF GetCurrent, QueueEmpty, NoCurrent, Goto, loopVars, messageVars
    <2>2. LinkOK'
      BY <1>1, <2>1 DEF LinkInv, LinkOK
    <2>3. QED
      BY <1>1, <2>1, <2>2, MoveKeeps DEF SameLink
  <1>4. QED
    BY <1>2, <1>3

\* The queue is empty: back to the watch of its pipe.
LEMMA WatchQueueKeepsLink ==
    ASSUME LinkInv, WatchQueue
    PROVE  LinkInv'
  <1>1. /\ pc = "drained" /\ NextEvent /\ cwatch' = "in" /\ qwatch' = TRUE
        /\ UNCHANGED <<place, conn, current>>
    BY DEF WatchQueue, Drained, linkVars, messageVars
  <1>2. batch # <<>> /\ batch[1] = "out" /\ current.msg = 0
    BY <1>1 DEF LinkInv, BatchInv, WatchInv
  <1>3. batch' \in Seq({"queue", "hup", "in", "out"}) /\ pc' \in {"handle", "top"}
    BY <1>1, <1>2, NextEventKeeps
  <1>4. LinkOK'
    BY <1>1, <1>3 DEF LinkInv, LinkOK
  <1>5. QED
    BY <1>1, <1>2, <1>4, SenderEventKeeps DEF SameLink

\* send of what fits: EPOLLOUT stays watched while there is more to send.
LEMMA SendKeepsLink ==
    ASSUME LinkInv, MessageInv, Send
    PROVE  LinkInv'
  <1> DEFINE rest == Parts - current.off
             n == IF conn.room < rest THEN conn.room ELSE rest
  <1>1. pc = "send" /\ qwatch' = qwatch
    BY DEF Send
  <1>2. batch # <<>> /\ batch[1] = "out"
    BY <1>1 DEF LinkInv, BatchInv
  <1>3. CASE Broken
    BY <1>1, <1>2, <1>3, BrokenKeepsLink
  <1>4. CASE /\ conn' = [conn EXCEPT !.room = @ - n] /\ place' = place
             /\ \/ current' = Empty /\ Goto("send") /\ UNCHANGED cwatch
                \/ cwatch' = "inout" /\ NextEvent
    <2>1. conn.room - n \in 0..RoomMax
      <3>1. conn.room \in 0..RoomMax
        BY DEF LinkInv, LinkOK, Conn
      <3>2. current.off \in 0..(Parts - 1)
        BY DEF MessageInv, MessageOK
      <3>3. rest \in Nat
        BY <3>2, MessageNumbers
      <3> HIDE DEF rest
      <3>4. CASE conn.room < rest
        BY <3>1, <3>4, RoomFacts
      <3>5. CASE ~(conn.room < rest)
        <4>1. n = rest /\ rest <= conn.room
          BY <3>1, <3>3, <3>5
        <4> HIDE DEF n
        <4>2. QED
          BY <3>1, <3>3, <4>1, RoomFacts
      <3>6. QED
        BY <3>4, <3>5
    <2> HIDE DEF n
    <2>2. conn' \in Conn /\ conn'.state = conn.state
      BY <1>4, <2>1 DEF LinkInv, LinkOK, Conn
    <2>3. CASE current' = Empty /\ Goto("send") /\ UNCHANGED cwatch
      <3>1. current'.msg = 0
        BY <2>3 DEF Empty
      <3>2. LinkOK'
        BY <1>1, <1>4, <2>2, <2>3 DEF LinkInv, LinkOK, Goto
      <3>3. QED
        BY <1>1, <1>4, <2>2, <2>3, <3>1, <3>2, MoveKeeps DEF SameLink, Goto
    <2>4. CASE cwatch' = "inout" /\ NextEvent
      <3>1. batch' \in Seq({"queue", "hup", "in", "out"}) /\ pc' \in {"handle", "top"}
        BY <1>2, <2>4, NextEventKeeps
      <3>2. LinkOK'
        BY <1>1, <1>4, <2>2, <2>4, <3>1 DEF LinkInv, LinkOK
      <3>3. QED
        BY <1>1, <1>2, <1>4, <2>2, <2>4, <3>2, SenderEventKeeps DEF SameLink
    <2>5. QED
      BY <1>4, <2>3, <2>4
  <1>5. QED
    BY <1>3, <1>4 DEF Send, free_current_message

\* Every step preserves the watches.
LEMMA LinkStep ==
    ASSUME LinkInv, MessageInv, Next
    PROVE  LinkInv'
  <1>1. CASE OutsideStep
    BY <1>1, OutsideKeepsLink
  <1>2. CASE SkipReconnect \/ CheckQueues \/ RemoveSender \/ NothingToConnect \/ CheckTimeout
    BY <1>2, ListsKeepLink
  <1>3. CASE Poll
    BY <1>3, PollKeepsLink
  <1>4. CASE HandleQueue
    BY <1>4, HandleQueueKeepsLink
  <1>5. CASE HandleHup \/ HandleReply
    BY <1>5, HandleSenderKeepsLink
  <1>6. CASE HandleOutput \/ GetCurrent \/ QueueEmpty
    BY <1>6, OutputKeepsLink
  <1>7. CASE WatchQueue
    BY <1>7, WatchQueueKeepsLink
  <1>8. CASE Send
    BY <1>8, SendKeepsLink
  <1>9. QED
    BY <1>1, <1>2, <1>3, <1>4, <1>5, <1>6, <1>7, <1>8 DEF Next, ThreadStep, OutsideStep

-----------------------------------------------------------------------------
(* The users that wait for room                                            *)

Woken == {u \in Users : waiter[u] = "woken"}

\* The signalled users are finitely many.
LEMMA WokenFinite == IsFiniteSet(Woken) /\ Cardinality(Woken) \in Nat
  <1>1. IsFiniteSet(Users) /\ Woken \in SUBSET Users
    BY DispatcherAssumption DEF DispatcherAssumption, Woken
  <1>2. IsFiniteSet(Woken)
    BY <1>1, FS_Subset
  <1>3. QED
    BY <1>2, FS_CardinalityType

\* Neither the queue nor the users that wait change.
LEMMA UsersUnchanged ==
    ASSUME UsersInv, UNCHANGED <<queue, waiter>>
    PROVE  UsersInv'
  BY DEF UsersInv, NoStrandedPusher

\* Every step leaves a signalled user for each free slot while others wait.
LEMMA UsersStep ==
    ASSUME UsersInv, MessageInv, Next
    PROVE  UsersInv'
  <1> USE DEF UsersInv
  <1>1. ASSUME NEW u \in Users, Push(u)
        PROVE  UsersInv'
    <2>1. waiter' = [waiter EXCEPT ![u] = "no"] /\ queue' = Append(queue, accepted + 1)
      BY <1>1 DEF Push, PushBack
    <2>2. Len(queue') = Len(queue) + 1
      BY <2>1, MessageNumbers DEF MessageInv, MessageOK
    <2>3. waiter' \in [Users -> {"no", "waiting", "woken"}]
      BY <2>1
    <2>4. ASSUME NEW v \in Users, waiter'[v] = "waiting"
          PROVE  QueueMax - Len(queue') <= Cardinality(Woken')
      <3>1. waiter[v] = "waiting"
        BY <2>1, <2>4
      <3>2. QueueMax - Len(queue) <= Cardinality(Woken)
        BY <3>1 DEF NoStrandedPusher, Woken
      <3>3. Woken' = Woken \ {u}
        BY <2>1 DEF Woken
      <3>4. Cardinality(Woken') >= Cardinality(Woken) - 1
        <4>1. Cardinality(Woken \ {u}) =
                 IF u \in Woken THEN Cardinality(Woken) - 1 ELSE Cardinality(Woken)
          BY WokenFinite, FS_RemoveElement
        <4>2. QED
          BY <3>3, <4>1, WokenFinite
      <3>5. Cardinality(Woken') \in Nat
        <4>1. IsFiniteSet(Woken \ {u})
          BY WokenFinite, FS_RemoveElement
        <4>2. QED
          BY <3>3, <4>1, FS_CardinalityType
      <3>6. QED
        BY <2>2, <3>2, <3>4, <3>5, WokenFinite, MessageNumbers
    <2>5. NoStrandedPusher'
      BY <2>4 DEF NoStrandedPusher, Woken
    <2>6. QED
      BY <2>3, <2>5
  <1>2. ASSUME NEW u \in Users, PushWait(u)
        PROVE  UsersInv'
    <2>1. /\ waiter' = [waiter EXCEPT ![u] = "waiting"] /\ queue' = queue
          /\ Len(queue) = QueueMax
      BY <1>2 DEF PushWait, is_full
    <2>2. waiter' \in [Users -> {"no", "waiting", "woken"}]
      BY <2>1
    <2>3. Woken' = Woken \ {u}
      BY <2>1 DEF Woken
    <2>4. Cardinality(Woken') \in Nat
      <3>1. IsFiniteSet(Woken \ {u})
        BY WokenFinite, FS_RemoveElement
      <3>2. QED
        BY <2>3, <3>1, FS_CardinalityType
    <2>5. QueueMax - Len(queue') <= Cardinality(Woken')
      BY <2>1, <2>4, MessageNumbers
    <2>6. QED
      BY <2>2, <2>5 DEF NoStrandedPusher, Woken
  <1>3. ASSUME NEW u \in Users, PushTimeout(u)
        PROVE  UsersInv'
    <2>1. /\ waiter' = [waiter EXCEPT ![u] = "no"] /\ queue' = queue
          /\ waiter[u] = "waiting"
      BY <1>3 DEF PushTimeout
    <2>2. waiter' \in [Users -> {"no", "waiting", "woken"}]
      BY <2>1
    <2>3. Woken' = Woken
      BY <2>1 DEF Woken
    <2>4. QED
      BY <2>1, <2>2, <2>3 DEF NoStrandedPusher, Woken
  <1>4. CASE GetCurrent
    <2>1. Len(queue') = Len(queue) - 1
      BY <1>4, TailFacts DEF GetCurrent, MessageInv, MessageOK
    <2>2. CASE \E u \in Users : waiter[u] = "waiting"
      <3>1. PICK u \in Users : waiter[u] = "waiting" /\ waiter' = [waiter EXCEPT ![u] = "woken"]
        BY <1>4, <2>2 DEF GetCurrent, SignalOne
      <3>2. waiter' \in [Users -> {"no", "waiting", "woken"}]
        BY <3>1
      <3>3. Woken' = Woken \cup {u} /\ u \notin Woken
        BY <3>1 DEF Woken
      <3>4. Cardinality(Woken') = Cardinality(Woken) + 1
        BY <3>3, WokenFinite, FS_AddElement
      <3>5. QueueMax - Len(queue) <= Cardinality(Woken)
        BY <3>1 DEF NoStrandedPusher, Woken
      <3>6. QueueMax - Len(queue') <= Cardinality(Woken')
        BY <2>1, <3>4, <3>5, WokenFinite, MessageNumbers
      <3>7. QED
        BY <3>2, <3>6 DEF NoStrandedPusher, Woken
    <2>3. CASE ~\E u \in Users : waiter[u] = "waiting"
      <3>1. waiter' = waiter
        BY <1>4, <2>3 DEF GetCurrent, SignalOne
      <3>2. QED
        BY <2>3, <3>1 DEF NoStrandedPusher
    <2>4. QED
      BY <2>2, <2>3
  <1>5. CASE UNCHANGED <<queue, waiter>>
    BY <1>5, UsersUnchanged
  <1>6. ThreadStep => GetCurrent \/ UNCHANGED <<queue, waiter>>
    BY DEF ThreadStep, SkipReconnect, CheckQueues, RemoveSender, NothingToConnect,
           CheckTimeout, Poll, HandleQueue, HandleHup, HandleReply, HandleOutput, QueueEmpty,
           WatchQueue, Send, userVars
  <1>7. ASSUME NEW u \in Users, UserStep(u)
        PROVE  Push(u) \/ PushWait(u) \/ PushTimeout(u) \/ UNCHANGED <<queue, waiter>>
    BY <1>7 DEF UserStep, GetSender, CloseSender, ReleaseSender, RemoveFromTable
  <1>8. Next => ThreadStep \/ (\E u \in Users : UserStep(u)) \/ UNCHANGED <<queue, waiter>>
    BY DEF Next, Accepts, SocketDrains, PeerFollows, Breaks, Replies, userVars
  <1>9. QED
    BY <1>1, <1>2, <1>3, <1>4, <1>5, <1>6, <1>7, <1>8

-----------------------------------------------------------------------------
(* The reference count                                                     *)

\* What the thread's own reference counts for.
Own(p) == IF p = "removed" THEN 0 ELSE 1

\* The users that hold a reference are finitely many.
LEMMA HoldsFinite ==
    ASSUME CountInv
    PROVE  IsFiniteSet(holds) /\ Cardinality(holds) \in Nat
  <1>1. IsFiniteSet(Users) /\ holds \in SUBSET Users
    BY DispatcherAssumption DEF DispatcherAssumption, CountInv
  <1>2. IsFiniteSet(holds)
    BY <1>1, FS_Subset
  <1>3. QED
    BY <1>2, FS_CardinalityType

\* Nobody takes or gives a reference, and the thread keeps the sender if it has it.
LEMMA CountUnchanged ==
    ASSUME CountInv, UNCHANGED <<holds, refs>>, place' = place \/ place # "removed"
    PROVE  CountInv'
  <1>1. Own(place') <= Own(place) /\ Own(place) \in Nat /\ Own(place') \in Nat
    BY DEF Own
  <1>2. refs >= Cardinality(holds) + Own(place)
    BY DEF CountInv, CountCoversUse, Own
  <1>3. refs >= Cardinality(holds) + Own(place')
    BY <1>1, <1>2, HoldsFinite DEF CountInv
  <1>4. QED
    BY <1>3 DEF CountInv, CountCoversUse, Own

\* A user gives its reference back, counted or not.
LEMMA GiveBack ==
    ASSUME CountInv, NEW u \in holds, holds' = holds \ {u}, refs' = refs - 1 \/ refs' = refs,
           place' = place
    PROVE  CountInv'
  <1>1. Cardinality(holds') = Cardinality(holds) - 1 /\ IsFiniteSet(holds')
    BY HoldsFinite, FS_RemoveElement
  <1>2. Cardinality(holds') \in Nat
    BY <1>1, FS_CardinalityType
  <1>3. refs >= Cardinality(holds) + Own(place) /\ Own(place) \in Nat /\ refs \in Nat
    BY DEF CountInv, CountCoversUse, Own
  <1>4. refs' \in Nat /\ refs' >= Cardinality(holds') + Own(place')
    BY <1>1, <1>2, <1>3, HoldsFinite
  <1>5. QED
    BY <1>4 DEF CountInv, CountCoversUse, Own

\* Every step keeps the count at or above the references in use.
LEMMA CountStep ==
    ASSUME CountInv, LinkInv, Next
    PROVE  CountInv'
  <1>1. ASSUME NEW u \in Users, GetSender(u)
        PROVE  CountInv'
    <2>1. u \notin holds /\ holds' = holds \cup {u} /\ refs' = refs + 1 /\ place' = place
      BY <1>1 DEF GetSender, inc_refcount, linkVars
    <2>2. Cardinality(holds') = Cardinality(holds) + 1
      BY <2>1, HoldsFinite, FS_AddElement
    <2>3. refs >= Cardinality(holds) + Own(place) /\ Own(place) \in Nat /\ refs \in Nat
      BY DEF CountInv, CountCoversUse, Own
    <2>4. refs' \in Nat /\ refs' >= Cardinality(holds') + Own(place')
      BY <2>1, <2>2, <2>3, HoldsFinite
    <2>5. holds' \subseteq Users
      BY <2>1 DEF CountInv
    <2>6. QED
      BY <2>4, <2>5 DEF CountInv, CountCoversUse, Own
  <1>2. ASSUME NEW u \in Users, CloseSender(u) \/ ReleaseSender(u) \/ RemoveFromTable(u)
        PROVE  CountInv'
    <2>1. /\ u \in holds /\ holds' = holds \ {u} /\ place' = place
          /\ refs' = refs - 1 \/ refs' = refs
      BY <1>2 DEF CloseSender, close_sender, ReleaseSender, RemoveFromTable, linkVars
    <2>2. QED
      BY <2>1, GiveBack
  <1>3. CASE RemoveSender
    <2>1. holds' = holds /\ refs' = refs - 1 /\ place = "reconnect" /\ place' = "removed"
      BY <1>3 DEF RemoveSender, close_sender, userVars
    <2>2. refs >= Cardinality(holds) + 1 /\ refs \in Nat
      BY <2>1 DEF CountInv, CountCoversUse
    <2>3. refs' \in Nat /\ refs' >= Cardinality(holds') + 0
      BY <2>1, <2>2, HoldsFinite
    <2>4. QED
      BY <2>1, <2>3 DEF CountInv, CountCoversUse
  <1>4. CASE UNCHANGED <<holds, refs>> /\ (place' = place \/ place # "removed")
    BY <1>4, CountUnchanged
  <1>5. ASSUME ThreadStep, ~RemoveSender
        PROVE  UNCHANGED <<holds, refs>> /\ (place' = place \/ place # "removed")
    <2>1. UNCHANGED <<holds, refs>>
      BY <1>5 DEF ThreadStep, SkipReconnect, CheckQueues, NothingToConnect, CheckTimeout, Poll,
                  HandleQueue, HandleHup, HandleReply, HandleOutput, GetCurrent, QueueEmpty,
                  WatchQueue, Send, userVars, tableVars
    <2>2. CASE CheckQueues \/ CheckTimeout
      BY <2>1, <2>2 DEF CheckQueues, CheckTimeout
    <2>3. CASE HandleHup \/ HandleReply \/ Send
      <3>1. /\ pc \in {"handle", "send"}
            /\ pc = "handle" => Head(batch) \in {"hup", "in"}
        BY <2>3 DEF HandleHup, HandleReply, Send, Event
      <3>2. batch # <<>>
        BY <3>1 DEF LinkInv, BatchInv
      <3>3. batch[1] # "queue"
        BY <3>1, <3>2, HandledConnected DEF LinkInv, BatchInv
      <3>4. QED
        BY <2>1, <3>2, <3>3, HandledConnected
    <2>4. CASE ~(CheckQueues \/ CheckTimeout \/ HandleHup \/ HandleReply \/ Send)
      BY <1>5, <2>1, <2>4
         DEF ThreadStep, SkipReconnect, NothingToConnect, Poll, HandleQueue, HandleOutput,
             GetCurrent, QueueEmpty, WatchQueue, linkVars
    <2>5. QED
      BY <2>2, <2>3, <2>4
  <1>6. ASSUME NEW u \in Users, Push(u) \/ PushWait(u) \/ PushTimeout(u)
        PROVE  UNCHANGED <<holds, refs, place>>
    BY <1>6 DEF Push, PushWait, PushTimeout, tableVars, linkVars
  <1>7. Next => \/ ThreadStep \/ (\E u \in Users : UserStep(u))
                \/ UNCHANGED <<holds, refs, place>>
    BY DEF Next, Accepts, SocketDrains, PeerFollows, Breaks, Replies, userVars, tableVars,
           linkVars
  <1>8. QED
    BY <1>1, <1>2, <1>3, <1>4, <1>5, <1>6, <1>7 DEF UserStep

-----------------------------------------------------------------------------
(* What is written on a connection                                         *)

\* Nothing is written and no connection is lost.
LEMMA StreamUnchanged ==
    ASSUME StreamInv, UNCHANGED <<current, last, torn, timedOut>>,
           place' = place \/ place' = "connected" \/ place # "connected"
    PROVE  StreamInv'
  BY DEF StreamInv, TornByTimeoutOnly, Nothing

\* A connection that ends with reset_current_message leaves a whole buffer message, or
\* a file, for the next one.
LEMMA BrokenKeepsStream ==
    ASSUME StreamInv, MessageInv, Broken, UNCHANGED <<torn, timedOut>>
    PROVE  StreamInv'
  <1>1. last' = Nothing /\ Nothing.part = Parts /\ FailCurrent
    BY DEF Broken, SenderReconnect, Nothing
  <1>2. /\ current'.msg = 0 => current'.off = 0
        /\ current'.off = 0 \/ current'.msg \in Files
    <2>1. CASE current.msg = 0
      BY <1>1, <2>1 DEF FailCurrent, StreamInv, messageVars
    <2>2. CASE current.msg # 0 /\ resends < ResendMax
      <3>1. current' = IF current.msg \in Files THEN current ELSE [current EXCEPT !.off = 0]
        BY <1>1, <2>2 DEF FailCurrent, RestartMessage
      <3>2. current'.msg = current.msg /\ (current.msg \notin Files => current'.off = 0)
        BY <3>1 DEF MessageInv, MessageOK
      <3>3. QED
        BY <2>2, <3>2
    <2>3. CASE current.msg # 0 /\ ~(resends < ResendMax)
      BY <1>1, <2>3 DEF FailCurrent, free_current_message, Empty
    <2>4. QED
      BY <2>1, <2>2, <2>3
  <1>3. QED
    BY <1>1, <1>2 DEF StreamInv, TornByTimeoutOnly, Nothing

\* Every part is written after the one before it.
LEMMA SendKeepsStream ==
    ASSUME StreamInv, MessageInv, LinkInv, Send
    PROVE  StreamInv'
  <1> DEFINE rest == Parts - current.off
             n == IF conn.room < rest THEN conn.room ELSE rest
  <1>1. pc = "send" /\ current.msg # 0 /\ timedOut' = timedOut
    BY DEF Send
  <1>2. place = "connected"
    BY <1>1, HandledConnected DEF LinkInv, BatchInv
  <1>3. CASE Broken /\ UNCHANGED torn
    BY <1>1, <1>3, BrokenKeepsStream
  <1>4. CASE /\ place' = place
             /\ last' = IF n = 0 THEN last ELSE [msg |-> current.msg, part |-> current.off + n]
             /\ torn' = (torn \/ (/\ n > 0 /\ current.msg \notin Files
                                  /\ ~InPlace(current.msg, current.off + 1)))
             /\ \/ n = rest /\ current' = Empty
                \/ n # rest /\ current' = [current EXCEPT !.off = @ + n]
    <2>1. current.off \in Nat /\ Parts \in Nat /\ rest \in Nat \ {0} /\ current.off + rest = Parts
      <3>1. current.off \in 0..(Parts - 1)
        BY DEF MessageInv, MessageOK
      <3>2. Parts \in Nat \ {0}
        BY MessageNumbers
      <3>3. \A x \in 0..(Parts - 1) : x \in Nat /\ Parts - x \in Nat \ {0} /\ x + (Parts - x) = Parts
        BY <3>2
      <3>4. QED
        BY <3>1, <3>2, <3>3
    <2>2. n \in Nat
      <3>1. conn.room \in Nat
        BY RoomFacts DEF LinkInv, LinkOK, Conn
      <3>2. QED
        BY <2>1, <3>1
    <2> HIDE DEF n, rest
    <2>3. ~timedOut /\ current.msg \notin Files => InPlace(current.msg, current.off + 1)
      <3>1. CASE current.off = 0
        BY <3>1 DEF StreamInv, InPlace
      <3>2. CASE current.off # 0
        <4>1. current.off + 1 # 1 /\ (current.off + 1) - 1 = current.off
          BY <2>1, <3>2
        <4>2. QED
          BY <3>2, <4>1 DEF StreamInv, InPlace
      <3>3. QED
        BY <3>1, <3>2
    <2>4. TornByTimeoutOnly'
      BY <1>1, <1>4, <2>3 DEF StreamInv, TornByTimeoutOnly
    <2>5. CASE n = rest /\ current' = Empty
      <3>1. last' = [msg |-> current.msg, part |-> Parts]
        BY <1>4, <2>1, <2>5
      <3>2. current'.msg = 0 /\ current'.off = 0 /\ last'.part = Parts
        BY <2>5, <3>1 DEF Empty
      <3>3. QED
        BY <1>2, <1>4, <2>4, <3>2 DEF StreamInv
    <2>6. CASE n # rest /\ current' = [current EXCEPT !.off = @ + n]
      <3>1. current'.msg = current.msg /\ current'.off = current.off + n
        BY <2>6 DEF MessageInv, MessageOK
      <3>2. CASE n = 0
        <4>1. last' = last /\ current'.off = current.off
          BY <1>4, <2>1, <3>1, <3>2
        <4>2. QED
          BY <1>1, <1>2, <1>4, <2>4, <3>1, <4>1 DEF StreamInv
      <3>3. CASE n # 0
        <4>1. /\ last' = [msg |-> current.msg, part |-> current.off + n]
              /\ current.off + n # 0
          BY <1>4, <2>1, <2>2, <3>3
        <4>2. QED
          BY <1>1, <1>2, <1>4, <2>4, <3>1, <4>1 DEF StreamInv
      <3>4. QED
        BY <3>2, <3>3
    <2>7. QED
      BY <1>4, <2>5, <2>6
  <1>5. QED
    BY <1>3, <1>4 DEF Send, free_current_message

\* Every step writes in order, until a timeout.
LEMMA StreamStep ==
    ASSUME StreamInv, MessageInv, LinkInv, Next
    PROVE  StreamInv'
  <1>1. CASE Send
    BY <1>1, SendKeepsStream
  <1>2. CASE HandleHup
    BY <1>2, BrokenKeepsStream DEF HandleHup
  <1>3. CASE HandleReply
    BY <1>3, BrokenKeepsStream, StreamUnchanged DEF HandleReply, messageVars
  <1>4. CASE GetCurrent
    <2>1. /\ current.msg = 0 /\ current' = [msg |-> Head(queue), off |-> 0]
          /\ UNCHANGED <<last, torn, timedOut, place>>
      BY <1>4 DEF GetCurrent, NoCurrent, streamVars, linkVars
    <2>2. QED
      BY <2>1 DEF StreamInv, TornByTimeoutOnly, Nothing
  <1>5. CASE CheckTimeout
    <2>1. CASE timedOut' = TRUE /\ SenderReconnect
      BY <1>5, <2>1 DEF CheckTimeout, SenderReconnect, StreamInv, TornByTimeoutOnly, Nothing,
                        messageVars
    <2>2. CASE UNCHANGED <<last, place, timedOut>>
      BY <1>5, <2>2, StreamUnchanged DEF CheckTimeout, messageVars
    <2>3. QED
      BY <1>5, <2>1, <2>2 DEF CheckTimeout
  <1>6. CASE CheckQueues
    <2>1. place # "connected" /\ UNCHANGED <<current, torn, timedOut>>
      BY <1>6 DEF CheckQueues, messageVars
    <2>2. last' = last
      BY <1>6, <2>1 DEF CheckQueues, sender_connect, ConnectFails, Connected, SenderReconnect,
                        StreamInv, Nothing
    <2>3. QED
      BY <2>1, <2>2, StreamUnchanged
  <1>7. ASSUME SkipReconnect \/ RemoveSender \/ NothingToConnect \/ Poll \/ HandleQueue
               \/ HandleOutput \/ QueueEmpty \/ WatchQueue
        PROVE  StreamInv'
    BY <1>7, StreamUnchanged
       DEF SkipReconnect, RemoveSender, NothingToConnect, Poll, HandleQueue, HandleOutput,
           QueueEmpty, WatchQueue, linkVars, messageVars, streamVars
  <1>8. CASE OutsideStep
    BY <1>8, StreamUnchanged
       DEF OutsideStep, UserStep, Push, PushWait, PushTimeout, GetSender, CloseSender,
           ReleaseSender, RemoveFromTable, Accepts, SocketDrains, PeerFollows, Breaks, Replies,
           linkVars, messageVars, streamVars
  <1>9. QED
    BY <1>1, <1>2, <1>3, <1>4, <1>5, <1>6, <1>7, <1>8 DEF Next, ThreadStep, OutsideStep

-----------------------------------------------------------------------------
(* The theorems                                                            *)

IInv == MessageInv /\ LinkInv /\ UsersInv /\ CountInv /\ StreamInv

\* The sender just opened.
LEMMA InitInv == Init => IInv
  <1> SUFFICES ASSUME Init PROVE IInv
    OBVIOUS
  <1>1. MessageInv
    <2>1. MaxMessages \in Nat /\ Parts \in Nat \ {0} /\ QueueMax \in Nat \ {0} /\ ResendMax \in Nat
      BY DispatcherAssumption DEF DispatcherAssumption
    <2>2. MessageOK
      BY <2>1 DEF Init, MessageOK, Empty
    <2>3. RankInv /\ ResendInv
      <3>1. /\ queue = <<>> /\ done = <<>> /\ accepted = 0 /\ resends = 0 /\ current.msg = 0
            /\ fails = [m \in 1..MaxMessages |-> 0]
        BY DEF Init, Empty
      <3>2. Len(queue) = 0 /\ Len(done) = 0 /\ 1..0 = {}
        BY <3>1
      <3>3. Taken = 0
        <4>1. accepted = 0 /\ Len(queue) = 0 /\ 0 - 0 = 0
          BY <3>1, <3>2
        <4>2. QED
          BY ONLY <4>1 DEF Taken
      <3>4. QED
        BY <3>1, <3>2, <3>3 DEF RankInv, ResendInv
    <2>4. QED
      BY <2>2, <2>3 DEF MessageInv
  <1>2. LinkInv
    <2>1. /\ place = "unconnected" /\ conn = Down /\ qwatch = FALSE /\ cwatch = "none"
          /\ pc = "top" /\ batch = <<>>
      BY DEF Init
    <2>2. conn \in Conn /\ conn.state = "down"
      BY <2>1, RoomFacts DEF Down
    <2>3. LinkOK
      <3>1. batch \in Seq({"queue", "hup", "in", "out"})
        BY <2>1
      <3>2. qwatch \in BOOLEAN
        BY <2>1
      <3>3. QED
        BY <2>1, <2>2, <3>1, <3>2 DEF LinkOK
    <2>4. BatchInv /\ WatchInv
      BY <2>1, <2>2 DEF BatchInv, WatchInv
    <2>5. QED
      BY <2>3, <2>4 DEF LinkInv
  <1>3. UsersInv
    BY DEF Init, UsersInv, NoStrandedPusher
  <1>4. CountInv
    <2>1. Cardinality(holds) = 1
      BY FS_Singleton DEF Init
    <2>2. QED
      BY <2>1, DispatcherAssumption
         DEF Init, CountInv, CountCoversUse, OpenedRefs, DispatcherAssumption
  <1>5. StreamInv
    BY DEF Init, StreamInv, TornByTimeoutOnly, Nothing, Empty
  <1>6. QED
    BY <1>1, <1>2, <1>3, <1>4, <1>5 DEF IInv

\* The five parts of the invariant, each preserved with the help of the first two.
LEMMA StepInv == IInv /\ [Next]_vars => IInv'
  <1>1. ASSUME IInv, Next
        PROVE  IInv'
    <2>1. MessageInv'
      BY <1>1, MessageStep DEF IInv, LinkInv
    <2>2. LinkInv'
      BY <1>1, LinkStep DEF IInv
    <2>3. UsersInv'
      BY <1>1, UsersStep DEF IInv
    <2>4. CountInv'
      BY <1>1, CountStep DEF IInv
    <2>5. StreamInv'
      BY <1>1, StreamStep DEF IInv
    <2>6. QED
      BY <2>1, <2>2, <2>3, <2>4, <2>5 DEF IInv
  <1>2. ASSUME IInv, UNCHANGED vars
        PROVE  IInv'
    <2>1. /\ UNCHANGED <<queue, accepted, messageVars>>
          /\ UNCHANGED <<place, conn, qwatch, cwatch, pc, batch, current>>
          /\ UNCHANGED <<waiter, holds, refs, last, torn, timedOut>>
      BY <1>2 DEF vars, messageVars
    <2>2. MessageInv'
      BY <1>2, <2>1, MessagesUnchanged DEF IInv
    <2>3. LinkInv'
      BY <1>2, <2>1 DEF IInv, LinkInv, LinkOK, BatchInv, WatchInv
    <2>4. UsersInv' /\ CountInv' /\ StreamInv'
      BY <1>2, <2>1, UsersUnchanged, CountUnchanged, StreamUnchanged DEF IInv
    <2>5. QED
      BY <2>2, <2>3, <2>4 DEF IInv
  <1>3. QED
    BY <1>1, <1>2

\* The invariant holds in every behaviour of the dispatcher.
THEOREM InvHolds == Spec => []IInv
  BY InitInv, StepInv, PTL DEF Spec

\* Messages leave the sender in the order in which push_message accepted them, over any
\* number of connections, resends and timeouts.
THEOREM InOrderHolds == Spec => []InOrder
  <1>1. IInv => InOrder
    <2> SUFFICES ASSUME IInv PROVE InOrder
      OBVIOUS
    <2>1. MessageInv
      BY DEF IInv
    <2> DEFINE k == Len(done)
    <2>2. /\ k \in Nat /\ accepted \in Nat /\ Len(queue) \in Nat /\ Taken \in Nat
          /\ accepted = Taken + Len(queue) /\ queue \in Seq(1..accepted)
      BY <2>1, MessageNumbers DEF Taken, MessageInv, MessageOK
    <2>3. CASE current.msg = 0
      <3>1. k = Taken /\ accepted - k = Len(queue)
        BY <2>1, <2>2, <2>3 DEF MessageInv, RankInv
      <3>2. \A i \in 1..Len(queue) : queue[i] = k + i
        BY <2>1, <3>1 DEF MessageInv, RankInv
      <3> HIDE DEF k
      <3>3. queue = [i \in 1..Len(queue) |-> k + i]
        BY <2>2, <3>2, SeqIsFunction
      <3>4. <<>> \o queue = queue
        BY <2>2
      <3>5. <<>> \o queue = [i \in 1..(accepted - k) |-> k + i]
        BY <3>1, <3>3, <3>4
      <3>6. QED
        BY <2>3, <3>5 DEF InOrder, k
    <2>4. CASE current.msg # 0
      <3>1. current.msg = Taken /\ k = Taken - 1 /\ accepted - k = Len(queue) + 1
        BY <2>1, <2>2, <2>4 DEF MessageInv, RankInv
      <3> DEFINE s == <<current.msg>> \o queue
      <3>2. /\ s \in Seq(Nat) /\ Len(s) = Len(queue) + 1 /\ s[1] = current.msg
            /\ \A i \in 1..Len(queue) : s[i + 1] = queue[i]
        <4>1. queue \in Seq(Nat)
          <5>1. 1..accepted \subseteq Nat
            BY <2>2
          <5>2. QED
            BY <2>2, <5>1, SeqSubset
        <4>2. current.msg \in Nat
          BY <2>2, <3>1
        <4>3. QED
          BY <4>1, <4>2
      <3>3. ASSUME NEW i \in 1..Len(s)
            PROVE  s[i] = k + i
        <4>1. CASE i = 1
          BY <2>2, <3>1, <3>2, <4>1
        <4>2. CASE i # 1
          <5>1. i - 1 \in 1..Len(queue) /\ (i - 1) + 1 = i
            BY <2>2, <3>2, <4>2
          <5>2. s[i] = queue[i - 1] /\ queue[i - 1] = Taken + (i - 1)
            BY <2>1, <3>2, <5>1 DEF MessageInv, RankInv
          <5>3. QED
            BY <2>2, <3>1, <5>1, <5>2
        <4>3. QED
          BY <4>1, <4>2
      <3> HIDE DEF s, k
      <3>4. s = [i \in 1..Len(s) |-> k + i]
        BY <2>2, <3>2, <3>3, SeqIsFunction
      <3>5. s = [i \in 1..(accepted - k) |-> k + i]
        BY <3>1, <3>2, <3>4
      <3>6. QED
        BY <2>4, <3>5 DEF InOrder, s, k
    <2>5. QED
      BY <2>3, <2>4
  <1>2. QED
    BY <1>1, InvHolds, PTL

\* A message is given up only when all its resends failed as well.
THEOREM DroppedLateHolds == Spec => []DroppedLate
  <1>1. IInv => DroppedLate
    <2> SUFFICES ASSUME IInv PROVE DroppedLate
      OBVIOUS
    <2>1. DOMAIN done = 1..Len(done)
      BY DEF IInv, MessageInv, MessageOK
    <2>2. QED
      BY <2>1 DEF IInv, MessageInv, ResendInv, DroppedLate
  <1>2. QED
    BY <1>1, InvHolds, PTL

\* The send thread never sleeps in epoll_wait with a message and no watch for it.
THEOREM WorkWatchedHolds == Spec => []WorkWatched
  <1>1. IInv => WorkWatched
    BY DEF IInv, LinkInv, WatchInv, WorkWatched
  <1>2. QED
    BY <1>1, InvHolds, PTL

\* No user waits for room in the queue that nobody told it of.
THEOREM NoStrandedPusherHolds == Spec => []NoStrandedPusher
  <1>1. IInv => NoStrandedPusher
    BY DEF IInv, UsersInv
  <1>2. QED
    BY <1>1, InvHolds, PTL

\* The reference count covers every user and the thread, whatever the users call.
THEOREM CountCoversUseHolds == Spec => []CountCoversUse
  <1>1. IInv => CountCoversUse
    BY DEF IInv, CountInv
  <1>2. QED
    BY <1>1, InvHolds, PTL

\* Only a timeout can tear a buffer message in two connections.
THEOREM TornByTimeoutOnlyHolds == Spec => []TornByTimeoutOnly
  <1>1. IInv => TornByTimeoutOnly
    BY DEF IInv, StreamInv
  <1>2. QED
    BY <1>1, InvHolds, PTL
=============================================================================
