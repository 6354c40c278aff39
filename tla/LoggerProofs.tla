---------------------------- MODULE LoggerProofs ----------------------------
(***************************************************************************)
(* Proofs about Logger, for any number of loggers and threads, any sizes   *)
(* and any number of faults.  The log thread finds a message behind every  *)
(* event, and no thread waits for room that nobody will tell it of.  If    *)
(* the last logger in use is destroyed last, and no call is in it then,    *)
(* every logger in use has a log thread, a deleted logger is not used, the *)
(* counters are exact, and the log thread ends with every message written, *)
(* in order.                                                               *)
(***************************************************************************)
EXTENDS Logger, Integers, TLAPS

LoggerFields == {"created", "destroying", "fd", "registered", "refs", "queue", "waiters",
                 "pipe", "bytes"}
ThreadFields == {"at", "stop", "pipe", "number", "refs", "batch", "cur", "held"}

Shape ==
    /\ DOMAIN logger = Loggers
    /\ \A l \in Loggers :
        /\ DOMAIN logger[l] = LoggerFields
        /\ logger[l].queue \in Seq(Nat) /\ Len(logger[l].queue) <= QueueSize
        /\ logger[l].pipe \in Nat /\ logger[l].waiters \in Nat
        /\ logger[l].created \in BOOLEAN /\ logger[l].destroying \in BOOLEAN
    /\ DOMAIN thread = ThreadFields
    /\ thread.batch \subseteq Loggers \cup {Nobody}
    /\ lock \in [Loggers -> Actors \cup {Nobody}]
    /\ pc \in [Actors -> {"idle", "parked", "woken", "signal", "release", "stop", "wake",
                          "join"}]
    /\ on \in [Actors -> Loggers \cup {Nobody}]
    /\ msg \in [Actors -> Nat] /\ calls \in Nat

\* An actor in a call is in a logger, and the holder of a queue lock is the actor that
\* has queued a message and not yet signalled it.
CallInv ==
    /\ \A a \in Actors : pc[a] \in {"parked", "woken", "signal", "release"} => on[a] \in Loggers
    /\ \A a \in Actors, l \in Loggers : lock[l] = a <=> pc[a] = "signal" /\ on[a] = l

Unsignalled(l) == IF lock[l] = Nobody THEN 0 ELSE 1
Taken(l) == IF thread.at = "write" /\ thread.cur = l THEN 1 ELSE 0

\* The pipe of a logger has a byte per message, but for the message that has not been
\* signalled yet and the one whose byte has not been read yet.  The log thread has
\* events in hand only of loggers with a byte.
SignalInv ==
    /\ \A l \in Loggers : logger[l].pipe + Unsignalled(l) = Len(logger[l].queue) + Taken(l)
    /\ \A l \in Loggers : l \in thread.batch => logger[l].pipe > 0 /\ l # thread.cur
    /\ thread.at \in {"pop", "write"} => thread.cur \in Loggers /\ logger[thread.cur].pipe > 0
    /\ thread.at \notin {"pop", "write"} => thread.cur = Nobody

\* A logger that has not been created is empty.
NewInv ==
    \A l \in Loggers : ~logger[l].created =>
        /\ logger[l].queue = <<>> /\ logger[l].pipe = 0 /\ logger[l].waiters = 0
        /\ lock[l] = Nobody

\* _waiter_number counts the threads in wait() and those on their way out.
WaitInv ==
    /\ \A l \in Loggers : logger[l].waiters = Cardinality(Parked(l) \cup Woken(l))
    /\ NoStrandedWaiter

\* The log thread is stopped by a destroy() in progress only, and a careful program has
\* no logger in use then.
ServeInv ==
    /\ thread.stop \in BOOLEAN
    /\ thread.at = "exited" => thread.stop
    /\ thread.stop => pc[Owner] \in {"wake", "join"}
    /\ Careful /\ (pc[Owner] # "idle" \/ thread.at = "none") => \A l \in Loggers : ~InUse(l)

IInv == Shape /\ CallInv /\ SignalInv /\ NewInv /\ WaitInv /\ ServeInv

\* single_write takes the front of a queue that is not empty (logger.cpp:372).
PopFindsMessage ==
    thread.at = "pop" => thread.cur \in Loggers /\ logger[thread.cur].queue # <<>>

-----------------------------------------------------------------------------
(* Facts about finite sets.  They are theorems of FiniteSetTheorems, which *)
(* the end of this module brings in to prove FiniteSetFacts; until then    *)
(* the lemmas that count take them as an assumption, and the provers see   *)
(* only these seven of the library's theorems.                             *)

FiniteSetFacts ==
    /\ /\ IsFiniteSet({}) /\ Cardinality({}) = 0
       /\ \A S : IsFiniteSet(S) => (Cardinality(S) = 0 <=> S = {})
    /\ \A S : IsFiniteSet(S) => Cardinality(S) \in Nat
    /\ \A S, x : IsFiniteSet(S) =>
            /\ IsFiniteSet(S \cup {x})
            /\ Cardinality(S \cup {x}) = IF x \in S THEN Cardinality(S) ELSE Cardinality(S) + 1
    /\ \A S, x : IsFiniteSet(S) =>
            /\ IsFiniteSet(S \ {x})
            /\ Cardinality(S \ {x}) = IF x \in S THEN Cardinality(S) - 1 ELSE Cardinality(S)
    /\ \A S : IsFiniteSet(S) =>
            \A T \in SUBSET S : IsFiniteSet(T) /\ Cardinality(T) <= Cardinality(S)
    /\ \A a, b \in Int :
            IsFiniteSet(a..b) /\ Cardinality(a..b) = IF a > b THEN 0 ELSE b - a + 1
    /\ \A S, T : IsFiniteSet(S) /\ IsFiniteSet(T) =>
            IsFiniteSet(S \X T) /\ Cardinality(S \X T) = Cardinality(S) * Cardinality(T)

\* Most leaves are first-order reasoning; those with arithmetic, sequences or records
\* built by EXCEPT name the SMT solver.
USE Zenon

LEMMA EmptySet ==
    ASSUME FiniteSetFacts
    PROVE  /\ IsFiniteSet({}) /\ Cardinality({}) = 0
           /\ \A S : IsFiniteSet(S) => (Cardinality(S) = 0 <=> S = {})
  BY DEF FiniteSetFacts

LEMMA CardinalityNat ==
    ASSUME FiniteSetFacts, NEW S, IsFiniteSet(S)
    PROVE  Cardinality(S) \in Nat
  BY DEF FiniteSetFacts

LEMMA AddElement ==
    ASSUME FiniteSetFacts, NEW S, NEW x, IsFiniteSet(S)
    PROVE  /\ IsFiniteSet(S \cup {x})
           /\ Cardinality(S \cup {x}) = IF x \in S THEN Cardinality(S) ELSE Cardinality(S) + 1
  BY DEF FiniteSetFacts

LEMMA RemoveElement ==
    ASSUME FiniteSetFacts, NEW S, NEW x, IsFiniteSet(S)
    PROVE  /\ IsFiniteSet(S \ {x})
           /\ Cardinality(S \ {x}) = IF x \in S THEN Cardinality(S) - 1 ELSE Cardinality(S)
  BY DEF FiniteSetFacts

LEMMA SubsetFinite ==
    ASSUME FiniteSetFacts, NEW S, IsFiniteSet(S), NEW T \in SUBSET S
    PROVE  IsFiniteSet(T) /\ Cardinality(T) <= Cardinality(S)
  BY DEF FiniteSetFacts

LEMMA IntervalFinite ==
    ASSUME FiniteSetFacts, NEW a \in Int, NEW b \in Int
    PROVE  IsFiniteSet(a..b) /\ Cardinality(a..b) = IF a > b THEN 0 ELSE b - a + 1
  BY DEF FiniteSetFacts

LEMMA ProductFinite ==
    ASSUME FiniteSetFacts, NEW S, IsFiniteSet(S), NEW T, IsFiniteSet(T)
    PROVE  IsFiniteSet(S \X T) /\ Cardinality(S \X T) = Cardinality(S) * Cardinality(T)
  BY DEF FiniteSetFacts

-----------------------------------------------------------------------------
(* Facts about one state                                                   *)

LEMMA ConstantFacts ==
    /\ QueueSize \in Nat \ {0} /\ Owner \in Actors /\ Nobody \notin Actors
    /\ Nobody \notin Loggers /\ Stop \in Nat
  BY LoggerAssumption DEF LoggerAssumption, Actors, Stop

\* Sets of actors are finite.
LEMMA ActorsFinite ==
    ASSUME FiniteSetFacts, NEW S, S \subseteq Actors
    PROVE  IsFiniteSet(S) /\ Cardinality(S) \in Nat
  <1>1. IsFiniteSet(Actors)
    BY LoggerAssumption, AddElement DEF LoggerAssumption, Actors
  <1>2. IsFiniteSet(S)
    BY <1>1, SubsetFinite
  <1>3. QED
    BY <1>2, CardinalityNat

\* Only actors wait.
LEMMA WaitersAreActors ==
    ASSUME NEW l
    PROVE  Parked(l) \subseteq Actors /\ Woken(l) \subseteq Actors
  BY DEF Parked, Woken

\* What the invariant says of the waiting threads reads only pc, on and these fields.
Kept(l) ==
    /\ DOMAIN logger'[l] = LoggerFields
    /\ logger'[l].queue = logger[l].queue /\ logger'[l].pipe = logger[l].pipe
    /\ logger'[l].waiters = logger[l].waiters
    /\ logger'[l].created = logger[l].created
    /\ logger'[l].destroying = logger[l].destroying

-----------------------------------------------------------------------------
(* Steps that leave the queues and their waiting threads alone             *)

Late == {"release", "stop", "wake", "join"}

LEMMA QuietKeeps ==
    ASSUME IInv, DOMAIN logger' = Loggers, \A l \in Loggers : Kept(l),
           UNCHANGED <<lock, on, msg, calls>>,
           \/ pc' = pc
           \/ /\ pc[Owner] \in Late
              /\ \E v \in (Late \cup {"idle"}) \ {"release"} : pc' = [pc EXCEPT ![Owner] = v],
           DOMAIN thread' = ThreadFields, thread'.batch \subseteq Loggers \cup {Nobody},
           thread'.at = "write" <=> thread.at = "write",
           thread.at = "write" => thread'.cur = thread.cur,
           \A l \in Loggers : l \in thread'.batch => logger[l].pipe > 0 /\ l # thread'.cur,
           thread'.at \in {"pop", "write"} =>
              thread'.cur \in Loggers /\ logger[thread'.cur].pipe > 0,
           thread'.at \notin {"pop", "write"} => thread'.cur = Nobody,
           ServeInv'
    PROVE  IInv'
  <1>1. Shape'
    <2>1. pc' \in [Actors -> {"idle", "parked", "woken", "signal", "release", "stop", "wake",
                              "join"}]
      BY DEF IInv, Shape, Late
    <2>2. QED
      BY <2>1 DEF IInv, Shape, Kept
  <1>2. \A a \in Actors :
           \/ pc'[a] = pc[a]
           \/ pc[a] \in Late /\ pc'[a] \in {"idle", "stop", "wake", "join"}
    BY ConstantFacts DEF IInv, Shape, Late
  <1>3. CallInv'
    BY <1>2, SMT DEF IInv, CallInv, Late
  <1>4. SignalInv'
    <2>1. \A l \in Loggers : Unsignalled(l)' = Unsignalled(l) /\ Taken(l)' = Taken(l)
      BY DEF Unsignalled, Taken
    <2>2. QED
      BY <2>1, SMT DEF IInv, SignalInv, Kept
  <1>5. NewInv'
    BY SMT DEF IInv, NewInv, Kept
  <1>6. WaitInv'
    <2>1. \A l \in Loggers : Parked(l)' = Parked(l) /\ Woken(l)' = Woken(l)
      BY <1>2 DEF Parked, Woken, Late
    <2>2. QED
      BY <2>1, SMT DEF IInv, WaitInv, NoStrandedWaiter, Kept
  <1>7. QED
    BY <1>1, <1>3, <1>4, <1>5, <1>6 DEF IInv

\* The log thread moves without touching a logger.
LEMMA ThreadMoveKeeps ==
    ASSUME IInv, Check \/ EpollWait \/ EndOfBatch \/ ReadOwnSignal
    PROVE  IInv'
  <1>1. UNCHANGED <<logger, lock, on, msg, calls, pc>>
    BY DEF Check, EpollWait, EndOfBatch, ReadOwnSignal, actorVars
  <1>2. \A l \in Loggers : Kept(l)
    BY <1>1 DEF IInv, Shape, Kept
  <1>3. thread.at \in {"check", "wait", "batch"} /\ thread.cur = Nobody
    BY DEF IInv, SignalInv, Check, EpollWait, EndOfBatch, ReadOwnSignal
  <1>4. /\ DOMAIN thread' = ThreadFields /\ thread'.cur = Nobody /\ thread'.stop = thread.stop
        /\ thread'.at \in {"check", "wait", "batch", "exited"}
        /\ thread'.at = "exited" => thread.stop
        /\ thread'.batch \subseteq thread.batch \cup Ready
    <2>1. DOMAIN thread = ThreadFields
      BY DEF IInv, Shape
    <2>2. CASE Check
      BY <1>3, <2>1, <2>2 DEF ThreadFields, Check, MayExit
    <2>3. CASE EpollWait
      BY <1>3, <2>1, <2>3 DEF ThreadFields, EpollWait
    <2>4. CASE EndOfBatch
      BY <1>3, <2>1, <2>4 DEF ThreadFields, EndOfBatch
    <2>5. CASE ReadOwnSignal
      BY <1>3, <2>1, <2>5 DEF ThreadFields, ReadOwnSignal
    <2>6. QED
      BY <2>2, <2>3, <2>4, <2>5
  <1>5. Ready \subseteq Loggers \cup {Nobody} /\ \A l \in Loggers : l \in Ready => logger[l].pipe > 0
    BY ConstantFacts DEF Ready
  <1>6. ServeInv'
    BY <1>1, <1>3, <1>4 DEF IInv, ServeInv, InUse
  <1>7. thread'.batch \subseteq Loggers \cup {Nobody}
    BY <1>4, <1>5 DEF IInv, Shape
  <1>8. \A l \in Loggers : l \in thread'.batch => logger[l].pipe > 0 /\ l # thread'.cur
    BY <1>4, <1>5, ConstantFacts DEF IInv, SignalInv
  <1>9. DOMAIN logger' = Loggers
    BY <1>1 DEF IInv, Shape
  <1>10. QED
    BY <1>1, <1>2, <1>3, <1>4, <1>6, <1>7, <1>8, <1>9, QuietKeeps

\* The rest of destroy().
LEMMA OwnerKeeps ==
    ASSUME IInv, OwnerStep
    PROVE  IInv'
  <1>1. /\ UNCHANGED <<lock, on, msg, calls>> /\ pc[Owner] \in Late
        /\ \E v \in (Late \cup {"idle"}) \ {"release"} : pc' = [pc EXCEPT ![Owner] = v]
    BY DEF OwnerStep, Release, StopFlag, BeforeStop, Join, Late
  <1>2. DOMAIN logger' = Loggers /\ \A l \in Loggers : Kept(l)
    <2>1. CASE Release
      BY <2>1 DEF Release, IInv, Shape, Kept, LoggerFields
    <2>2. CASE logger' = logger
      BY <2>2 DEF IInv, Shape, Kept
    <2>3. QED
      BY <2>1, <2>2 DEF OwnerStep, StopFlag, BeforeStop, Join
  <1>3. CASE Join
    <2>1. thread.at = "exited" /\ thread' = NoThread /\ pc[Owner] = "join"
      BY <1>3 DEF Join
    <2>2. /\ thread'.at = "none" /\ thread'.cur = Nobody /\ thread'.batch = {}
          /\ thread'.stop = FALSE /\ DOMAIN thread' = ThreadFields
      BY <2>1 DEF NoThread, ThreadFields
    <2>3. ServeInv'
      <3>1. Careful => \A l \in Loggers : ~InUse(l)
        BY <2>1 DEF IInv, ServeInv
      <3>2. \A l \in Loggers : InUse(l)' = InUse(l)
        BY <1>2 DEF InUse, Kept
      <3>3. QED
        BY <2>2, <3>1, <3>2 DEF ServeInv
    <2>4. QED
      BY <1>1, <1>2, <2>1, <2>2, <2>3, QuietKeeps
  <1>4. CASE Release \/ StopFlag \/ BeforeStop
    <2>1. /\ DOMAIN thread' = ThreadFields /\ thread'.at = thread.at /\ thread'.cur = thread.cur
          /\ thread'.batch = thread.batch
      BY <1>4 DEF Release, StopFlag, BeforeStop, IInv, Shape, ThreadFields
    <2>2. /\ thread'.stop \in BOOLEAN /\ (thread.stop => thread'.stop)
          /\ thread'.stop => pc'[Owner] \in {"wake", "join"}
      BY <1>4, ConstantFacts, ZenonT(30)
         DEF Release, StopFlag, BeforeStop, IInv, Shape, ServeInv, ThreadFields
    <2>3. ServeInv'
      <3>1. \A l \in Loggers : InUse(l)' = InUse(l)
        BY <1>2 DEF InUse, Kept
      <3>2. pc[Owner] # "idle"
        BY <1>1 DEF Late
      <3>3. QED
        BY <2>1, <2>2, <3>1, <3>2 DEF IInv, ServeInv
    <2>4. QED
      BY <1>1, <1>2, <2>1, <2>3, QuietKeeps DEF IInv, Shape, SignalInv
  <1>5. QED
    BY <1>3, <1>4 DEF OwnerStep

\* The files and the registration of a logger, without its queue.
Like(x, y) ==
    /\ DOMAIN x = LoggerFields
    /\ x.queue = y.queue /\ x.pipe = y.pipe /\ x.waiters = y.waiters
    /\ x.created = y.created /\ x.destroying = y.destroying

LEMMA LikeFacts ==
    ASSUME NEW lg, DOMAIN lg = LoggerFields
    PROVE  /\ Like(Removed(lg), lg) /\ Like(Registered(lg), lg)
           /\ Like(close_logfile(lg), lg) /\ Like(Executed(lg), lg)
  <1>1. Like(Removed(lg), lg)
    <2>1. CASE lg.registered
      BY <2>1 DEF Like, Removed, LoggerFields
    <2>2. CASE ~lg.registered
      BY <2>2 DEF Like, Removed
    <2>3. QED
      BY <2>1, <2>2
  <1>2. Like(Registered(lg), lg) /\ Like(Executed(lg), lg)
    BY DEF Like, Registered, Executed, LoggerFields
  <1>3. Like(close_logfile(lg), lg)
    <2> DEFINE r == Removed(lg)
    <2>1. Like(r, lg) /\ close_logfile(lg) = [r EXCEPT !.fd = FALSE]
      BY <1>1 DEF close_logfile
    <2> HIDE DEF r
    <2>2. QED
      BY <2>1 DEF Like, LoggerFields
  <1>4. QED
    BY <1>1, <1>2, <1>3

\* A new record of one logger.
LEMMA OneKept ==
    ASSUME Shape, NEW l \in Loggers, NEW x, Like(x, logger[l]),
           logger' = [logger EXCEPT ![l] = x]
    PROVE  DOMAIN logger' = Loggers /\ \A k \in Loggers : Kept(k)
  <1>1. DOMAIN logger' = Loggers /\ logger'[l] = x /\ \A k \in Loggers \ {l} : logger'[k] = logger[k]
    BY DEF Shape
  <1>2. Kept(l)
    BY <1>1 DEF Kept, Like
  <1>3. \A k \in Loggers \ {l} : Kept(k)
    BY <1>1 DEF Kept, Shape
  <1>4. QED
    BY <1>1, <1>2, <1>3

\* execute() up to single_write.
LEMMA PrewriteKeeps ==
    ASSUME IInv, NEW l \in Loggers, Prewrite(l) \/ PrewriteFails(l)
    PROVE  IInv'
  <1>1. /\ thread.at = "batch" /\ l \in thread.batch /\ UNCHANGED <<lock, on, msg, calls, pc>>
        /\ DOMAIN thread = ThreadFields /\ DOMAIN logger[l] = LoggerFields /\ Shape
    BY DEF Prewrite, PrewriteFails, actorVars, IInv, Shape
  <1>2. DOMAIN logger' = Loggers /\ \A k \in Loggers : Kept(k)
    <2> DEFINE lg == [logger[l] EXCEPT !.refs = @ + 1]
               open == [Moved(l) EXCEPT ![0] = IF @ = NoFile \/ Backups = 0 THEN <<>> ELSE @]
               r == Registered(close_logfile(lg))
    <2>1. Like(lg, logger[l])
      BY <1>1 DEF Like, LoggerFields
    <2>2. Like(r, logger[l])
      <3>1. Like(close_logfile(lg), lg)
        BY <2>1, LikeFacts DEF Like
      <3>2. Like(r, close_logfile(lg))
        BY <3>1, LikeFacts DEF Like
      <3>3. QED
        BY <2>1, <3>1, <3>2 DEF Like
    <2>3. CASE logger' = [logger EXCEPT ![l] = lg]
      BY <1>1, <2>1, <2>3, OneKept
    <2>4. CASE logger' = [logger EXCEPT ![l] = [r EXCEPT !.fd = TRUE, !.bytes = Len(open[0])]]
      <3> HIDE DEF r, open
      <3>1. Like([r EXCEPT !.fd = TRUE, !.bytes = Len(open[0])], logger[l])
        BY <2>2 DEF Like, LoggerFields
      <3>2. QED
        BY <1>1, <2>4, <3>1, OneKept
    <2>5. CASE PrewriteFails(l)
      <3>1. logger' = [logger EXCEPT ![l] = close_logfile(logger[l])]
        BY <2>5 DEF PrewriteFails
      <3>2. Like(close_logfile(logger[l]), logger[l])
        BY <1>1, LikeFacts
      <3>3. QED
        BY <1>1, <3>1, <3>2, OneKept
    <2>6. QED
      BY <2>3, <2>4, <2>5 DEF Prewrite
  <1>3. /\ DOMAIN thread' = ThreadFields /\ thread'.batch = thread.batch \ {l}
        /\ thread'.stop = thread.stop
        /\ \/ thread'.at = "pop" /\ thread'.cur = l
           \/ thread'.at = "batch" /\ thread'.cur = thread.cur
    <2>1. CASE Prewrite(l)
      BY <1>1, <2>1 DEF Prewrite, ThreadFields
    <2>2. CASE PrewriteFails(l)
      BY <1>1, <2>2 DEF PrewriteFails, ThreadFields
    <2>3. QED
      BY <2>1, <2>2
  <1>4. ServeInv'
    <2>1. \A k \in Loggers : InUse(k)' = InUse(k)
      BY <1>2 DEF InUse, Kept
    <2>2. QED
      BY <1>1, <1>3, <2>1 DEF IInv, ServeInv
  <1>5. thread.cur = Nobody /\ logger[l].pipe > 0
        /\ \A k \in Loggers : k \in thread.batch => logger[k].pipe > 0
    BY <1>1 DEF IInv, SignalInv
  <1>6. thread'.batch \subseteq Loggers \cup {Nobody}
    BY <1>1, <1>3 DEF Shape
  <1>7. \A k \in Loggers : k \in thread'.batch => logger[k].pipe > 0 /\ k # thread'.cur
    BY <1>3, <1>5, ConstantFacts
  <1>8. QED
    BY <1>1, <1>2, <1>3, <1>4, <1>5, <1>6, <1>7, QuietKeeps

\* What happens to the files only.
LEMMA UnlinkKeeps ==
    ASSUME IInv, UNCHANGED <<logger, lock, thread, pc, on, msg, calls>>
    PROVE  IInv'
  <1>1. Shape' /\ CallInv' /\ NewInv'
    BY SMT DEF IInv, Shape, CallInv, NewInv
  <1>2. SignalInv'
    BY DEF IInv, SignalInv, Unsignalled, Taken
  <1>3. WaitInv'
    BY DEF IInv, WaitInv, NoStrandedWaiter, Parked, Woken
  <1>4. ServeInv'
    BY DEF IInv, ServeInv, InUse
  <1>5. QED
    BY <1>1, <1>2, <1>3, <1>4 DEF IInv

\* create() makes an empty logger of an empty one, and the log thread if need be.
LEMMA CreateKeeps ==
    ASSUME IInv, NEW l \in Loggers, Create(l)
    PROVE  IInv'
  <1>1. /\ pc[Owner] = "idle" /\ ~logger[l].created /\ UNCHANGED <<lock, pc, on, msg, calls>>
        /\ thread' = create_thread /\ Shape
    BY DEF Create, actorVars, IInv
  <1>2. ~thread.stop /\ thread.at # "exited"
    BY <1>1 DEF IInv, ServeInv
  <1>3. \/ thread' = thread /\ thread.at # "none"
        \/ /\ thread.at = "none" /\ DOMAIN thread' = ThreadFields /\ thread'.at = "check"
           /\ thread'.stop = FALSE /\ thread'.batch = {} /\ thread'.cur = Nobody
    BY <1>1 DEF create_thread, NoThread, ThreadFields
  <1>4. /\ DOMAIN logger' = Loggers /\ \A k \in Loggers \ {l} : logger'[k] = logger[k]
        /\ DOMAIN logger'[l] = LoggerFields /\ logger'[l].queue = <<>> /\ logger'[l].pipe = 0
        /\ logger'[l].waiters = 0 /\ logger'[l].created = TRUE /\ logger'[l].destroying = FALSE
    BY <1>1 DEF Create, NewLogger, LoggerFields, Shape
  <1>5. /\ logger[l].queue = <<>> /\ logger[l].pipe = 0 /\ logger[l].waiters = 0
        /\ lock[l] = Nobody
    BY <1>1 DEF IInv, NewInv
  <1>6. Shape'
    <2>1. /\ logger'[l].queue \in Seq(Nat) /\ Len(logger'[l].queue) <= QueueSize
          /\ logger'[l].pipe \in Nat /\ logger'[l].waiters \in Nat
          /\ logger'[l].created \in BOOLEAN /\ logger'[l].destroying \in BOOLEAN
      <3>1. <<>> \in Seq(Nat) /\ Len(<<>>) <= QueueSize /\ 0 \in Nat
        BY ConstantFacts, SMT
      <3>2. TRUE \in BOOLEAN /\ FALSE \in BOOLEAN
        OBVIOUS
      <3>3. QED
        BY <1>4, <3>1, <3>2
    <2>2. DOMAIN thread' = ThreadFields /\ thread'.batch \subseteq Loggers \cup {Nobody}
      BY <1>1, <1>3 DEF Shape
    <2>3. QED
      BY <1>1, <1>4, <2>1, <2>2 DEF Shape
  <1>7. CallInv' /\ NewInv'
    BY <1>1, <1>4, SMT DEF IInv, CallInv, NewInv
  <1>8. SignalInv'
    <2>1. \A k \in Loggers : Unsignalled(k)' = Unsignalled(k) /\ Taken(k)' = Taken(k)
      BY <1>1, <1>3 DEF Unsignalled, Taken
    <2>2. \A k \in Loggers : /\ logger'[k].pipe = logger[k].pipe
                             /\ logger'[k].queue = logger[k].queue
      BY <1>4, <1>5
    <2>3. QED
      BY <1>3, <2>1, <2>2 DEF IInv, SignalInv
  <1>9. WaitInv'
    <2>1. \A k \in Loggers : Parked(k)' = Parked(k) /\ Woken(k)' = Woken(k)
      BY <1>1 DEF Parked, Woken
    <2>2. \A k \in Loggers : /\ logger'[k].waiters = logger[k].waiters
                             /\ logger'[k].queue = logger[k].queue
      BY <1>4, <1>5
    <2>3. QED
      BY <2>1, <2>2 DEF IInv, WaitInv, NoStrandedWaiter
  <1>10. ServeInv'
    BY <1>1, <1>2, <1>3 DEF IInv, ServeInv
  <1>11. QED
    BY <1>6, <1>7, <1>8, <1>9, <1>10 DEF IInv

-----------------------------------------------------------------------------
(* push_log_message                                                        *)

\* One actor moves in logger l: the others see the same threads waiting as before.
LEMMA MoveInOne ==
    ASSUME Shape, NEW a \in Actors, NEW l \in Loggers, NEW p,
           on' = [on EXCEPT ![a] = l], pc' = [pc EXCEPT ![a] = p],
           pc[a] \in {"parked", "woken"} => on[a] = l
    PROVE  /\ \A k \in Loggers \ {l} : Parked(k)' = Parked(k) /\ Woken(k)' = Woken(k)
           /\ Parked(l)' = IF p = "parked" THEN Parked(l) \cup {a} ELSE Parked(l) \ {a}
           /\ Woken(l)' = IF p = "woken" THEN Woken(l) \cup {a} ELSE Woken(l) \ {a}
  <1>1. /\ pc'[a] = p /\ on'[a] = l
        /\ \A b \in Actors \ {a} : pc'[b] = pc[b] /\ on'[b] = on[b]
    BY DEF Shape
  <1>2. \A k \in Loggers \ {l} : Parked(k)' = Parked(k) /\ Woken(k)' = Woken(k)
    BY <1>1 DEF Parked, Woken
  <1>3. Parked(l)' = IF p = "parked" THEN Parked(l) \cup {a} ELSE Parked(l) \ {a}
    BY <1>1 DEF Parked
  <1>4. Woken(l)' = IF p = "woken" THEN Woken(l) \cup {a} ELSE Woken(l) \ {a}
    BY <1>1 DEF Woken
  <1>5. QED
    BY <1>2, <1>3, <1>4

\* A call that starts or comes back from wait(): n threads are counted beside it.
LEMMA PushKeeps ==
    ASSUME FiniteSetFacts, IInv, NEW a \in Actors, NEW l \in Loggers, NEW m \in Nat, NEW lg, NEW n \in Nat,
           push_log_message(a, l, m, lg, n), DOMAIN lg = LoggerFields,
           lg.queue = logger[l].queue, lg.pipe = logger[l].pipe,
           logger[l].created, lg.created = logger[l].created, lg.destroying \in BOOLEAN,
           calls' \in Nat,
           \/ pc[a] = "idle" /\ n = logger[l].waiters
           \/ pc[a] = "woken" /\ on[a] = l /\ n = logger[l].waiters - 1,
           ServeInv'
    PROVE  IInv'
  <1> DEFINE q == logger[l].queue
  <1>1. /\ lock[l] = Nobody /\ on' = [on EXCEPT ![a] = l] /\ msg' = [msg EXCEPT ![a] = m]
        /\ q \in Seq(Nat) /\ Len(q) \in Nat /\ Len(q) <= QueueSize /\ Shape
        /\ QueueSize \in Nat /\ logger[l].waiters \in Nat
    BY ConstantFacts, SMT DEF push_log_message, IInv, Shape
  <1>2. pc[a] \in {"parked", "woken"} => on[a] = l
    OBVIOUS
  <1>3. a \notin Parked(l) /\ (a \in Woken(l) <=> pc[a] = "woken")
    BY DEF Parked, Woken
  <1>4. /\ IsFiniteSet(Woken(l)) /\ Cardinality(Woken(l)) \in Nat
        /\ IsFiniteSet(Parked(l) \cup Woken(l)) /\ Cardinality(Parked(l) \cup Woken(l)) \in Nat
        /\ logger[l].waiters = Cardinality(Parked(l) \cup Woken(l))
    BY WaitersAreActors, ActorsFinite DEF IInv, WaitInv
  <1>5. /\ msg' \in [Actors -> Nat] /\ on' \in [Actors -> Loggers \cup {Nobody}]
    BY <1>1 DEF Shape
  <1>6. CASE /\ Len(q) = QueueSize /\ UNCHANGED <<lock, thread>>
             /\ logger' = [logger EXCEPT ![l] = [lg EXCEPT !.waiters = n + 1]]
             /\ pc' = [pc EXCEPT ![a] = "parked"]
    <2>1. /\ DOMAIN logger' = Loggers /\ \A k \in Loggers \ {l} : logger'[k] = logger[k]
          /\ DOMAIN logger'[l] = LoggerFields /\ logger'[l].queue = q
          /\ logger'[l].pipe = logger[l].pipe /\ logger'[l].waiters = n + 1
          /\ logger'[l].created = logger[l].created /\ logger'[l].destroying = lg.destroying
      BY <1>1, <1>6 DEF Shape, LoggerFields
    <2>2. Shape'
      <3>1. pc' \in [Actors -> {"idle", "parked", "woken", "signal", "release", "stop",
                                "wake", "join"}]
        BY <1>1, <1>6 DEF Shape
      <3>2. n + 1 \in Nat
        BY SMT
      <3> HIDE DEF q
      <3>3. QED
        BY <1>1, <1>5, <1>6, <2>1, <3>1, <3>2, ZenonT(30) DEF Shape, q
    <2>3. CallInv'
      BY <1>1, <1>6, SMT DEF IInv, CallInv, Shape
    <2>4. SignalInv' /\ NewInv'
      <3>1. \A k \in Loggers : Unsignalled(k)' = Unsignalled(k) /\ Taken(k)' = Taken(k)
        BY <1>6 DEF Unsignalled, Taken
      <3>2. \A k \in Loggers : logger'[k].pipe = logger[k].pipe /\ logger'[k].queue = logger[k].queue
        BY <2>1
      <3>3. SignalInv'
        BY <1>6, <3>1, <3>2 DEF IInv, SignalInv
      <3>4. NewInv'
        BY <1>6, <2>1, ZenonT(30) DEF IInv, NewInv
      <3>5. QED
        BY <3>3, <3>4
    <2>5. WaitInv'
      <3>1. /\ \A k \in Loggers \ {l} : Parked(k)' = Parked(k) /\ Woken(k)' = Woken(k)
            /\ Parked(l)' = Parked(l) \cup {a} /\ Woken(l)' = Woken(l) \ {a}
        BY <1>1, <1>2, <1>6, MoveInOne
      <3>2. logger'[l].waiters = Cardinality(Parked(l)' \cup Woken(l)')
        <4>1. Parked(l)' \cup Woken(l)' = (Parked(l) \cup Woken(l)) \cup {a}
          BY <3>1
        <4>2. CASE pc[a] = "idle" /\ n = logger[l].waiters
          <5>1. a \notin Parked(l) \cup Woken(l)
            BY <1>3, <4>2
          <5> DEFINE W == Parked(l) \cup Woken(l)
          <5>2. Cardinality(W \cup {a}) = Cardinality(W) + 1
            <6>1. IsFiniteSet(W) /\ a \notin W
              BY <1>4, <5>1
            <6> HIDE DEF W
            <6>2. QED
              BY <6>1, AddElement
          <5>3. QED
            BY <1>4, <2>1, <4>1, <4>2, <5>2
        <4>3. CASE pc[a] = "woken" /\ n = logger[l].waiters - 1
          <5>1. (Parked(l) \cup Woken(l)) \cup {a} = Parked(l) \cup Woken(l)
            BY <1>3, <4>3
          <5>2. n + 1 = logger[l].waiters
            BY <1>1, <4>3, SMT
          <5>3. QED
            BY <1>4, <2>1, <4>1, <5>1, <5>2
        <4>4. QED
          BY <4>2, <4>3
      <3>3. Len(logger'[l].queue) + Cardinality(Woken(l)') >= QueueSize
        <4>1. Cardinality(Woken(l)') \in Nat
          <5>1. Woken(l) \ {a} \subseteq Actors
            BY WaitersAreActors
          <5>2. QED
            BY <3>1, <5>1, ActorsFinite
        <4>2. QED
          BY <1>1, <1>6, <2>1, <4>1, SMT
      <3>4. \A k \in Loggers \ {l} :
               /\ logger'[k].waiters = Cardinality(Parked(k)' \cup Woken(k)')
               /\ Parked(k)' # {} => Len(logger'[k].queue) + Cardinality(Woken(k)') >= QueueSize
        BY <2>1, <3>1 DEF IInv, WaitInv, NoStrandedWaiter
      <3>5. QED
        BY <3>2, <3>3, <3>4 DEF WaitInv, NoStrandedWaiter
    <2>6. QED
      BY <2>2, <2>3, <2>4, <2>5 DEF IInv
  <1>7. CASE /\ Len(q) < QueueSize /\ thread' = [thread EXCEPT !.number = @ + 1]
             /\ logger' = [logger EXCEPT ![l] = [lg EXCEPT !.waiters = n, !.queue = Append(@, m)]]
             /\ lock' = [lock EXCEPT ![l] = a]
             /\ pc' = [pc EXCEPT ![a] = "signal"]
    <2>0. Append(q, m) \in Seq(Nat) /\ Len(Append(q, m)) = Len(q) + 1
      BY <1>1, SMT
    <2>1. /\ DOMAIN logger' = Loggers /\ \A k \in Loggers \ {l} : logger'[k] = logger[k]
          /\ DOMAIN logger'[l] = LoggerFields /\ logger'[l].queue = Append(q, m)
          /\ logger'[l].pipe = logger[l].pipe /\ logger'[l].waiters = n
          /\ logger'[l].created = logger[l].created /\ logger'[l].destroying = lg.destroying
      BY <1>1, <1>7 DEF Shape, LoggerFields
    <2>2. /\ DOMAIN thread' = ThreadFields /\ thread'.at = thread.at /\ thread'.cur = thread.cur
          /\ thread'.batch = thread.batch
      BY <1>1, <1>7 DEF Shape, ThreadFields
    <2>3. Shape'
      <3>1. pc' \in [Actors -> {"idle", "parked", "woken", "signal", "release", "stop",
                                "wake", "join"}]
        BY <1>1, <1>7 DEF Shape
      <3>2. lock' \in [Loggers -> Actors \cup {Nobody}]
        BY <1>1, <1>7 DEF Shape
      <3>3. Len(logger'[l].queue) <= QueueSize /\ logger'[l].queue \in Seq(Nat)
        BY <1>1, <1>7, <2>0, <2>1, SMT
      <3> HIDE DEF q
      <3>4. QED
        BY <1>1, <1>5, <2>1, <2>2, <3>1, <3>2, <3>3, ZenonT(30) DEF Shape
    <2>4. CallInv'
      <3>1. /\ pc'[a] = "signal" /\ on'[a] = l
            /\ \A b \in Actors \ {a} : pc'[b] = pc[b] /\ on'[b] = on[b]
            /\ lock'[l] = a /\ \A k \in Loggers \ {l} : lock'[k] = lock[k]
        BY <1>1, <1>7 DEF Shape
      <3>2. \A k \in Loggers : lock[k] # a
        BY DEF IInv, CallInv
      <3>3. \A b \in Actors : ~(pc[b] = "signal" /\ on[b] = l)
        BY <1>1, ConstantFacts, SMT DEF IInv, CallInv
      <3>4. QED
        BY <3>1, <3>2, <3>3, SMT DEF IInv, CallInv
    <2>5. SignalInv'
      <3>1. /\ \A k \in Loggers \ {l} : Unsignalled(k)' = Unsignalled(k)
            /\ Unsignalled(l) = 0 /\ Unsignalled(l)' = 1
            /\ \A k \in Loggers : Taken(k)' = Taken(k) /\ Taken(k) \in Nat
        <4>1. a # Nobody /\ lock'[l] = a /\ \A k \in Loggers \ {l} : lock'[k] = lock[k]
          BY <1>1, <1>7, ConstantFacts DEF Shape
        <4>2. QED
          BY <1>1, <2>2, <4>1 DEF Unsignalled, Taken
      <3>2. logger[l].pipe + 0 = Len(q) + Taken(l) /\ logger[l].pipe \in Nat
        BY <3>1 DEF IInv, SignalInv, Shape
      <3>3. logger'[l].pipe + Unsignalled(l)' = Len(logger'[l].queue) + Taken(l)'
        BY <1>1, <2>0, <2>1, <3>1, <3>2, SMT
      <3>4. \A k \in Loggers \ {l} :
               logger'[k].pipe + Unsignalled(k)' = Len(logger'[k].queue) + Taken(k)'
        BY <2>1, <3>1 DEF IInv, SignalInv
      <3>5. \A k \in Loggers : logger'[k].pipe = logger[k].pipe
        BY <2>1
      <3>6. QED
        BY <2>2, <3>3, <3>4, <3>5 DEF IInv, SignalInv
    <2>6. NewInv'
      <3>1. \A k \in Loggers \ {l} : lock'[k] = lock[k]
        BY <1>1, <1>7 DEF Shape
      <3>2. QED
        BY <2>1, <3>1, ZenonT(30) DEF IInv, NewInv
    <2>7. WaitInv'
      <3>1. /\ \A k \in Loggers \ {l} : Parked(k)' = Parked(k) /\ Woken(k)' = Woken(k)
            /\ Parked(l)' = Parked(l) \ {a} /\ Woken(l)' = Woken(l) \ {a}
        <4> DEFINE p == "signal"
        <4>1. pc' = [pc EXCEPT ![a] = p] /\ p # "parked" /\ p # "woken"
          BY <1>7
        <4> HIDE DEF p
        <4>2. QED
          BY <1>1, <1>2, <4>1, MoveInOne, ZenonT(30)
      <3>2. Parked(l)' = Parked(l) /\ Parked(l)' \cup Woken(l)' = (Parked(l) \cup Woken(l)) \ {a}
        BY <1>3, <3>1
      <3>3. /\ Cardinality((Parked(l) \cup Woken(l)) \ {a}) = n
            /\ Cardinality(Woken(l) \ {a}) \in Nat
            /\ Cardinality(Woken(l) \ {a}) >= Cardinality(Woken(l)) - 1
        <4>1. CASE pc[a] = "idle" /\ n = logger[l].waiters
          <5>1. (Parked(l) \cup Woken(l)) \ {a} = Parked(l) \cup Woken(l) /\ Woken(l) \ {a} = Woken(l)
            BY <1>3, <4>1
          <5> DEFINE W == Cardinality(Woken(l))
          <5>2. /\ Cardinality((Parked(l) \cup Woken(l)) \ {a}) = n
                /\ Cardinality(Woken(l) \ {a}) = W /\ W \in Nat
            BY <1>4, <4>1, <5>1
          <5> HIDE DEF W
          <5>3. W >= W - 1
            BY <5>2, SMT
          <5>4. QED
            BY <5>2, <5>3 DEF W
        <4>2. CASE pc[a] = "woken" /\ n = logger[l].waiters - 1
          <5>1. a \in Parked(l) \cup Woken(l) /\ a \in Woken(l)
            BY <1>3, <4>2
          <5>2. /\ Cardinality((Parked(l) \cup Woken(l)) \ {a}) = Cardinality(Parked(l) \cup Woken(l)) - 1
                /\ Cardinality(Woken(l) \ {a}) = Cardinality(Woken(l)) - 1
                /\ IsFiniteSet(Woken(l) \ {a})
            BY <1>4, <5>1, RemoveElement
          <5>3. Cardinality(Woken(l) \ {a}) \in Nat
            BY <5>2, CardinalityNat
          <5>4. QED
            BY <1>4, <4>2, <5>2, <5>3, SMT
        <4>3. QED
          BY <4>1, <4>2
      <3>4. Parked(l)' # {} => Len(logger'[l].queue) + Cardinality(Woken(l)') >= QueueSize
        <4>1. Parked(l) # {} => Len(q) + Cardinality(Woken(l)) >= QueueSize
          BY DEF IInv, WaitInv, NoStrandedWaiter
        <4>2. Len(logger'[l].queue) = Len(q) + 1
          BY <2>0, <2>1
        <4>3. Cardinality(Woken(l)') \in Nat /\ Cardinality(Woken(l)') >= Cardinality(Woken(l)) - 1
          BY <3>1, <3>3
        <4>4. Cardinality(Woken(l)) \in Nat /\ Len(q) \in Nat /\ QueueSize \in Nat
          BY <1>1, <1>4, ConstantFacts
        <4>5. Parked(l)' = Parked(l)
          BY <3>2
        <4> HIDE DEF q
        <4>6. QED
          BY <4>1, <4>2, <4>3, <4>4, <4>5, SMT
      <3>5. \A k \in Loggers \ {l} :
               /\ logger'[k].waiters = Cardinality(Parked(k)' \cup Woken(k)')
               /\ Parked(k)' # {} => Len(logger'[k].queue) + Cardinality(Woken(k)') >= QueueSize
        BY <2>1, <3>1 DEF IInv, WaitInv, NoStrandedWaiter
      <3>6. logger'[l].waiters = Cardinality(Parked(l)' \cup Woken(l)')
        BY <2>1, <3>2, <3>3
      <3>7. QED
        BY <3>4, <3>5, <3>6 DEF WaitInv, NoStrandedWaiter
    <2>8. QED
      BY <2>3, <2>4, <2>5, <2>6, <2>7 DEF IInv
  <1>8. QED
    BY <1>6, <1>7 DEF push_log_message

\* What a push changes of the things ServeInv is about.
LEMMA PushFrame ==
    ASSUME Shape, NEW a \in Actors, NEW l \in Loggers, NEW m, NEW lg, NEW n,
           push_log_message(a, l, m, lg, n), DOMAIN lg = LoggerFields
    PROVE  /\ thread'.at = thread.at /\ thread'.stop = thread.stop /\ thread.at # "none"
           /\ logger'[l].created = lg.created /\ logger'[l].destroying = lg.destroying
           /\ \A k \in Loggers \ {l} : logger'[k] = logger[k]
           /\ pc'[a] \in {"parked", "signal"} /\ \A b \in Actors \ {a} : pc'[b] = pc[b]
  <1>1. thread'.at = thread.at /\ thread'.stop = thread.stop /\ thread.at # "none"
    BY SMT DEF push_log_message, Shape, ThreadFields
  <1>2. PICK x : /\ logger' = [logger EXCEPT ![l] = x]
                 /\ x.created = lg.created /\ x.destroying = lg.destroying
    <2>1. [lg EXCEPT !.waiters = n + 1].created = lg.created
          /\ [lg EXCEPT !.waiters = n + 1].destroying = lg.destroying
      BY DEF LoggerFields
    <2>2. [lg EXCEPT !.waiters = n, !.queue = Append(@, m)].created = lg.created
          /\ [lg EXCEPT !.waiters = n, !.queue = Append(@, m)].destroying = lg.destroying
      BY DEF LoggerFields
    <2>3. QED
      BY <2>1, <2>2, ZenonT(30) DEF push_log_message
  <1>3. /\ logger'[l].created = lg.created /\ logger'[l].destroying = lg.destroying
        /\ \A k \in Loggers \ {l} : logger'[k] = logger[k]
    BY <1>2 DEF Shape
  <1>4. pc'[a] \in {"parked", "signal"} /\ \A b \in Actors \ {a} : pc'[b] = pc[b]
    BY SMT DEF push_log_message, Shape
  <1>5. QED
    BY <1>1, <1>3, <1>4

\* do_log().
LEMMA LogKeeps ==
    ASSUME FiniteSetFacts, IInv, NEW w \in Writers, NEW l \in Loggers, Log(w, l)
    PROVE  IInv'
  <1>1. /\ pc[w] = "idle" /\ logger[l].created /\ calls' = calls + 1
        /\ push_log_message(w, l, calls + 1, logger[l], logger[l].waiters)
        /\ w \in Actors /\ w # Owner /\ Shape /\ DOMAIN logger[l] = LoggerFields
        /\ calls \in Nat /\ logger[l].waiters \in Nat /\ logger[l].destroying \in BOOLEAN
    BY LoggerAssumption DEF Log, Actors, IInv, Shape, LoggerAssumption
  <1>2. ServeInv'
    <2>1. /\ thread'.at = thread.at /\ thread'.stop = thread.stop /\ pc'[Owner] = pc[Owner]
          /\ \A k \in Loggers : /\ logger'[k].created = logger[k].created
                                /\ logger'[k].destroying = logger[k].destroying
      <3>1. /\ thread'.at = thread.at /\ thread'.stop = thread.stop
            /\ logger'[l].created = logger[l].created
            /\ logger'[l].destroying = logger[l].destroying
            /\ \A k \in Loggers \ {l} : logger'[k] = logger[k]
            /\ \A b \in Actors \ {w} : pc'[b] = pc[b]
        BY <1>1, PushFrame, ZenonT(30)
      <3>2. QED
        BY <1>1, <3>1, ConstantFacts
    <2>2. QED
      BY <2>1, ZenonT(30) DEF IInv, ServeInv, InUse
  <1>3. calls + 1 \in Nat
    BY <1>1, SMT
  <1>4. QED
    BY <1>1, <1>2, <1>3, PushKeeps

\* wait() returns.
LEMMA WaitReturnsKeeps ==
    ASSUME FiniteSetFacts, IInv, NEW a \in Actors, WaitReturns(a)
    PROVE  IInv'
  <1> DEFINE l == on[a]
  <1>1. /\ pc[a] = "woken" /\ calls' = calls /\ Shape /\ l \in Loggers
        /\ push_log_message(a, l, msg[a], logger[l], logger[l].waiters - 1)
    BY DEF WaitReturns, IInv, CallInv
  <1>2. /\ DOMAIN logger[l] = LoggerFields /\ msg[a] \in Nat /\ calls \in Nat
        /\ logger[l].waiters \in Nat /\ logger[l].destroying \in BOOLEAN
        /\ logger[l].created \in BOOLEAN
    BY <1>1 DEF Shape
  <1>3. logger[l].waiters # 0
    <2> DEFINE W == Parked(l) \cup Woken(l)
    <2>1. a \in W
      BY <1>1 DEF Woken
    <2>2. IsFiniteSet(W) /\ logger[l].waiters = Cardinality(W)
      BY <1>1, WaitersAreActors, ActorsFinite DEF IInv, WaitInv
    <2> HIDE DEF W
    <2>3. Cardinality(W) # 0
      BY <2>1, <2>2, EmptySet
    <2>4. QED
      BY <2>2, <2>3
  <1>4. logger[l].created
    BY <1>1, <1>2, <1>3 DEF IInv, NewInv
  <1>5. logger[l].waiters - 1 \in Nat
    BY <1>2, <1>3, SMT
  <1>6. ServeInv'
    <2>1. /\ thread'.at = thread.at /\ thread'.stop = thread.stop
          /\ pc'[a] \in {"parked", "signal"} /\ \A b \in Actors \ {a} : pc'[b] = pc[b]
          /\ \A k \in Loggers : /\ logger'[k].created = logger[k].created
                                /\ logger'[k].destroying = logger[k].destroying
      <3> HIDE DEF l
      <3>1. QED
        BY <1>1, <1>2, PushFrame, SMT
    <2>2. \A k \in Loggers : InUse(k)' = InUse(k)
      BY <2>1 DEF InUse
    <2>3. CASE a = Owner
      BY <1>1, <2>1, <2>2, <2>3 DEF IInv, ServeInv
    <2>4. CASE a # Owner
      BY <2>1, <2>2, <2>4, ConstantFacts DEF IInv, ServeInv
    <2>5. QED
      BY <2>3, <2>4
  <1> HIDE DEF l
  <1>7. on[a] = l
    BY DEF l
  <1>8. QED
    BY <1>1, <1>2, <1>4, <1>5, <1>6, <1>7, PushKeeps

\* The first block of destroy(): with care, no logger is in use from here on.
LEMMA DestroyKeeps ==
    ASSUME FiniteSetFacts, IInv, NEW l \in Loggers, Destroy(l)
    PROVE  IInv'
  <1> DEFINE lg == [logger[l] EXCEPT !.destroying = TRUE]
  <1>1. /\ pc[Owner] = "idle" /\ logger[l].created /\ MayDestroy(l) /\ calls' = calls
        /\ push_log_message(Owner, l, Stop, lg, logger[l].waiters)
        /\ Shape /\ DOMAIN logger[l] = LoggerFields /\ calls \in Nat
        /\ logger[l].waiters \in Nat /\ Owner \in Actors /\ Stop \in Nat
    BY ConstantFacts DEF Destroy, IInv, Shape
  <1>2. /\ DOMAIN lg = LoggerFields /\ lg.queue = logger[l].queue /\ lg.pipe = logger[l].pipe
        /\ lg.created = logger[l].created /\ lg.destroying = TRUE
    BY <1>1 DEF LoggerFields
  <1> HIDE DEF lg
  <1>3. /\ thread'.at = thread.at /\ thread'.stop = thread.stop
        /\ logger'[l].created = lg.created /\ logger'[l].destroying = lg.destroying
        /\ \A k \in Loggers \ {l} : logger'[k] = logger[k]
    BY <1>1, <1>2, PushFrame, ZenonT(30)
  <1>4. ServeInv'
    <2>1. Careful => \A k \in Loggers : ~InUse(k)'
      BY <1>1, <1>2, <1>3 DEF MayDestroy, InUse
    <2>2. ~thread.stop
      BY <1>1 DEF IInv, ServeInv
    <2>3. QED
      BY <1>3, <2>1, <2>2 DEF IInv, ServeInv
  <1>5. lg.destroying \in BOOLEAN
    BY <1>2
  <1>6. QED
    BY <1>1, <1>2, <1>4, <1>5, PushKeeps

\* send_signal(): the byte of the message that was just queued.
LEMMA SendSignalKeeps ==
    ASSUME IInv, NEW a \in Actors, SendSignal(a)
    PROVE  IInv'
  <1> DEFINE p == IF a = Owner THEN "release" ELSE "idle"
  <1>0. PICK l \in Loggers : l = on[a]
    BY DEF SendSignal, IInv, CallInv
  <1>1. /\ pc[a] = "signal" /\ l \in Loggers /\ lock[l] = a /\ Shape
        /\ logger' = [logger EXCEPT ![l].pipe = @ + 1]
        /\ lock' = [lock EXCEPT ![l] = Nobody]
        /\ pc' = [pc EXCEPT ![a] = p] /\ UNCHANGED <<thread, on, msg, calls>>
    BY <1>0 DEF SendSignal, IInv, CallInv
  <1>2. p \in {"release", "idle"} /\ (a = Owner => p # "idle")
    OBVIOUS
  <1>3. logger[l].pipe \in Nat /\ DOMAIN logger[l] = LoggerFields /\ Len(logger[l].queue) \in Nat
    BY <1>1, SMT DEF Shape
  <1> HIDE DEF p
  <1>4. /\ DOMAIN logger' = Loggers /\ \A k \in Loggers \ {l} : logger'[k] = logger[k]
        /\ DOMAIN logger'[l] = LoggerFields /\ logger'[l].pipe = logger[l].pipe + 1
        /\ logger'[l].queue = logger[l].queue /\ logger'[l].waiters = logger[l].waiters
        /\ logger'[l].created = logger[l].created
        /\ logger'[l].destroying = logger[l].destroying
    BY <1>1, <1>3 DEF Shape, LoggerFields
  <1>5. /\ pc'[a] = p /\ \A b \in Actors \ {a} : pc'[b] = pc[b]
        /\ lock'[l] = Nobody /\ \A k \in Loggers \ {l} : lock'[k] = lock[k]
    BY <1>1 DEF Shape
  <1>6. Shape'
    <2>1. pc' \in [Actors -> {"idle", "parked", "woken", "signal", "release", "stop", "wake",
                              "join"}]
      BY <1>1, <1>2 DEF Shape
    <2>2. lock' \in [Loggers -> Actors \cup {Nobody}]
      BY <1>1 DEF Shape
    <2>3. logger[l].pipe + 1 \in Nat
      BY <1>3, SMT
    <2>4. QED
      BY <1>1, <1>4, <2>1, <2>2, <2>3 DEF Shape
  <1>7. CallInv'
    <2>1. on[a] = l
      BY <1>0
    <2>2. ASSUME NEW b \in Actors, NEW k \in Loggers
          PROVE  lock'[k] = b <=> pc'[b] = "signal" /\ on'[b] = k
      <3>1. CASE b = a
        BY <1>1, <1>2, <1>5, <2>1, <3>1, ConstantFacts, SMT DEF IInv, CallInv
      <3>2. CASE b # a
        <4>1. lock'[k] = b <=> lock[k] = b
          BY <1>1, <1>5, <3>2, ConstantFacts
        <4>2. QED
          BY <1>1, <1>5, <3>2, <4>1 DEF IInv, CallInv
      <3>3. QED
        BY <3>1, <3>2
    <2>3. \A b \in Actors : pc'[b] \in {"parked", "woken", "signal", "release"} => on'[b] \in Loggers
      BY <1>1, <1>5, <2>1 DEF IInv, CallInv
    <2>4. QED
      BY <2>2, <2>3 DEF CallInv
  <1>8. SignalInv'
    <2>1. /\ \A k \in Loggers \ {l} : Unsignalled(k)' = Unsignalled(k)
          /\ Unsignalled(l) = 1 /\ Unsignalled(l)' = 0
          /\ \A k \in Loggers : Taken(k)' = Taken(k) /\ Taken(k) \in Nat
      BY <1>1, <1>5, ConstantFacts DEF Unsignalled, Taken
    <2>2. logger[l].pipe + 1 = Len(logger[l].queue) + Taken(l)
      BY <1>1, <2>1 DEF IInv, SignalInv
    <2>3. logger'[l].pipe + Unsignalled(l)' = Len(logger'[l].queue) + Taken(l)'
      BY <1>1, <1>3, <1>4, <2>1, <2>2, SMT
    <2>4. \A k \in Loggers \ {l} :
             logger'[k].pipe + Unsignalled(k)' = Len(logger'[k].queue) + Taken(k)'
      BY <1>4, <2>1 DEF IInv, SignalInv
    <2>5. \A k \in Loggers : logger[k].pipe > 0 => logger'[k].pipe > 0
      BY <1>3, <1>4, SMT
    <2>6. QED
      BY <1>1, <2>3, <2>4, <2>5 DEF IInv, SignalInv
  <1>9. NewInv'
    <2>1. logger[l].created
      BY <1>1, ConstantFacts DEF IInv, NewInv
    <2>2. QED
      BY <1>4, <1>5, <2>1, ZenonT(30) DEF IInv, NewInv
  <1>10. WaitInv'
    <2>1. \A k \in Loggers : Parked(k)' = Parked(k) /\ Woken(k)' = Woken(k)
      BY <1>1, <1>2, <1>5 DEF Parked, Woken
    <2>2. \A k \in Loggers : /\ logger'[k].queue = logger[k].queue
                             /\ logger'[k].waiters = logger[k].waiters
      BY <1>4
    <2>3. QED
      BY <2>1, <2>2 DEF IInv, WaitInv, NoStrandedWaiter
  <1>11. ServeInv'
    <2>1. \A k \in Loggers : InUse(k)' = InUse(k)
      BY <1>4 DEF InUse
    <2>2. CASE a = Owner
      BY <1>1, <1>2, <1>5, <2>1, <2>2 DEF IInv, ServeInv
    <2>3. CASE a # Owner
      BY <1>1, <1>5, <2>1, <2>3, ConstantFacts DEF IInv, ServeInv
    <2>4. QED
      BY <2>2, <2>3
  <1>12. QED
    BY <1>6, <1>7, <1>8, <1>9, <1>10, <1>11 DEF IInv

\* A thread leaves wait() without a signal.
LEMMA SpuriousWakeupKeeps ==
    ASSUME FiniteSetFacts, IInv, NEW a \in Actors, SpuriousWakeup(a)
    PROVE  IInv'
  <1>1. PICK l \in Loggers : l = on[a]
    BY DEF SpuriousWakeup, IInv, CallInv
  <1>2. /\ pc[a] = "parked" /\ pc' = [pc EXCEPT ![a] = "woken"] /\ Shape
        /\ UNCHANGED <<logger, lock, thread, on, msg, calls>>
    BY DEF SpuriousWakeup, IInv
  <1>3. pc'[a] = "woken" /\ \A b \in Actors \ {a} : pc'[b] = pc[b]
    BY <1>2 DEF Shape
  <1>4. Shape'
    <2>1. pc' \in [Actors -> {"idle", "parked", "woken", "signal", "release", "stop", "wake",
                              "join"}]
      BY <1>2 DEF Shape
    <2>2. QED
      BY <1>2, <2>1 DEF Shape
  <1>5. CallInv' /\ NewInv'
    BY <1>2, <1>3, SMT DEF IInv, CallInv, NewInv
  <1>6. SignalInv'
    BY <1>2 DEF IInv, SignalInv, Unsignalled, Taken
  <1>7. WaitInv'
    <2>1. /\ \A k \in Loggers \ {l} : Parked(k)' = Parked(k) /\ Woken(k)' = Woken(k)
          /\ Parked(l)' = Parked(l) \ {a} /\ Woken(l)' = Woken(l) \cup {a}
          /\ a \in Parked(l) /\ a \notin Woken(l)
      BY <1>1, <1>2, <1>3 DEF Parked, Woken
    <2>2. Parked(l)' \cup Woken(l)' = Parked(l) \cup Woken(l)
      BY <2>1
    <2>3. Cardinality(Woken(l) \cup {a}) = Cardinality(Woken(l)) + 1 /\ Cardinality(Woken(l)) \in Nat
      BY <2>1, WaitersAreActors, ActorsFinite, AddElement
    <2>4. Len(logger[l].queue) + Cardinality(Woken(l)') >= QueueSize
      <3>1. Len(logger[l].queue) + Cardinality(Woken(l)) >= QueueSize
        BY <2>1 DEF IInv, WaitInv, NoStrandedWaiter
      <3>2. Len(logger[l].queue) \in Nat /\ QueueSize \in Nat
        BY <1>2, ConstantFacts, SMT DEF Shape
      <3>3. QED
        BY <2>1, <2>3, <3>1, <3>2, SMT
    <2>5. QED
      BY <1>2, <2>1, <2>2, <2>4 DEF IInv, WaitInv, NoStrandedWaiter
  <1>8. ServeInv'
    <2>1. \A k \in Loggers : InUse(k)' = InUse(k)
      BY <1>2 DEF InUse
    <2>2. CASE a = Owner
      BY <1>2, <1>3, <2>1, <2>2 DEF IInv, ServeInv
    <2>3. CASE a # Owner
      BY <1>2, <1>3, <2>1, <2>3, ConstantFacts DEF IInv, ServeInv
    <2>4. QED
      BY <2>2, <2>3
  <1>9. QED
    BY <1>4, <1>5, <1>6, <1>7, <1>8 DEF IInv

-----------------------------------------------------------------------------
(* single_write                                                            *)

\* There is a message where the log thread has an event.
LEMMA MessageThere == IInv => PopFindsMessage
  <1> SUFFICES ASSUME IInv, thread.at = "pop"
               PROVE  thread.cur \in Loggers /\ logger[thread.cur].queue # <<>>
    BY DEF PopFindsMessage
  <1>1. PICK l \in Loggers : l = thread.cur
    BY DEF IInv, SignalInv
  <1>2. logger[l].pipe > 0 /\ logger[l].pipe + Unsignalled(l) = Len(logger[l].queue) + Taken(l)
    BY <1>1 DEF IInv, SignalInv
  <1>3. Taken(l) = 0 /\ Unsignalled(l) \in Nat
    BY DEF Taken, Unsignalled
  <1>4. logger[l].pipe \in Nat /\ logger[l].queue \in Seq(Nat) /\ Len(logger[l].queue) \in Nat
    BY SMT DEF IInv, Shape
  <1>5. Len(logger[l].queue) # 0
    BY <1>2, <1>3, <1>4, SMT
  <1>6. QED
    BY <1>1, <1>4, <1>5

\* A message is taken, and a waiting thread, if there is one, is woken for its slot.
LEMMA PopKeeps ==
    ASSUME FiniteSetFacts, IInv, Pop
    PROVE  IInv'
  <1>1. PICK l \in Loggers : l = thread.cur /\ logger[l].queue # <<>>
    BY MessageThere DEF PopFindsMessage, Pop
  <1> DEFINE q == logger[l].queue
  <1>2. /\ thread.at = "pop" /\ lock[l] = Nobody /\ PopWakes(l) /\ Shape
        /\ thread' = [thread EXCEPT !.at = "write", !.held = Head(q)]
        /\ logger' = [logger EXCEPT ![l].queue = Tail(@)]
        /\ UNCHANGED <<lock, on, msg, calls>>
    BY <1>1 DEF Pop, PopWakes, IInv
  <1>3. /\ q \in Seq(Nat) /\ Tail(q) \in Seq(Nat) /\ Len(q) \in Nat \ {0}
        /\ Len(Tail(q)) = Len(q) - 1 /\ Len(q) <= QueueSize /\ QueueSize \in Nat
        /\ DOMAIN logger[l] = LoggerFields
    <2>1. q \in Seq(Nat) /\ q # <<>> /\ Len(q) <= QueueSize /\ DOMAIN logger[l] = LoggerFields
      BY <1>1, <1>2 DEF Shape
    <2> HIDE DEF q
    <2>2. QED
      BY <2>1, ConstantFacts, SMT
  <1>4. /\ DOMAIN logger' = Loggers /\ \A k \in Loggers \ {l} : logger'[k] = logger[k]
        /\ DOMAIN logger'[l] = LoggerFields /\ logger'[l].queue = Tail(q)
        /\ logger'[l].pipe = logger[l].pipe /\ logger'[l].waiters = logger[l].waiters
        /\ logger'[l].created = logger[l].created
        /\ logger'[l].destroying = logger[l].destroying
    BY <1>2, <1>3 DEF Shape, LoggerFields
  <1>5. /\ DOMAIN thread' = ThreadFields /\ thread'.at = "write" /\ thread'.cur = thread.cur
        /\ thread'.batch = thread.batch /\ thread'.stop = thread.stop
    BY <1>2 DEF Shape, ThreadFields
  <1>6. \/ pc' = pc /\ Parked(l) = {}
        \/ \E a \in Parked(l) : pc' = [pc EXCEPT ![a] = "woken"]
    <2>1. Parked(l) # {} => logger[l].waiters > 0
      <3> DEFINE W == Parked(l) \cup Woken(l)
      <3>1. IsFiniteSet(W) /\ Cardinality(W) \in Nat /\ logger[l].waiters = Cardinality(W)
        BY WaitersAreActors, ActorsFinite DEF IInv, WaitInv
      <3>2. Parked(l) # {} => W # {}
        OBVIOUS
      <3> HIDE DEF W
      <3>3. W # {} => Cardinality(W) # 0
        BY <3>1, EmptySet
      <3>4. QED
        BY <3>1, <3>2, <3>3, SMT
    <2>2. logger[l].waiters > 0 => logger[l].waiters # 0
      BY <1>2, SMT DEF Shape
    <2>3. QED
      BY <1>2, <2>1, <2>2 DEF PopWakes
  <1>7. \A b \in Actors : \/ pc'[b] = pc[b]
                          \/ pc[b] = "parked" /\ on[b] = l /\ pc'[b] = "woken"
    BY <1>2, <1>6 DEF Shape, Parked
  <1>8. Shape'
    <2>1. pc' \in [Actors -> {"idle", "parked", "woken", "signal", "release", "stop", "wake",
                              "join"}]
      BY <1>2, <1>6 DEF Shape
    <2>2. logger'[l].queue \in Seq(Nat) /\ Len(logger'[l].queue) <= QueueSize
      BY <1>3, <1>4, SMT
    <2> HIDE DEF q
    <2>3. QED
      BY <1>2, <1>4, <1>5, <2>1, <2>2 DEF Shape
  <1>9. CallInv'
    BY <1>2, <1>7, SMT DEF IInv, CallInv
  <1>10. SignalInv'
    <2>1. /\ \A k \in Loggers : Unsignalled(k)' = Unsignalled(k)
          /\ Unsignalled(l) = 0 /\ Taken(l) = 0 /\ Taken(l)' = 1
          /\ \A k \in Loggers \ {l} : Taken(k)' = 0 /\ Taken(k) = 0
      BY <1>1, <1>2, <1>5 DEF Unsignalled, Taken
    <2>2. logger[l].pipe + 0 = Len(q) + 0 /\ logger[l].pipe \in Nat
      BY <1>2, <2>1 DEF IInv, SignalInv, Shape
    <2>3. logger'[l].pipe + Unsignalled(l)' = Len(logger'[l].queue) + Taken(l)'
      BY <1>3, <1>4, <2>1, <2>2, SMT
    <2>4. \A k \in Loggers \ {l} :
             logger'[k].pipe + Unsignalled(k)' = Len(logger'[k].queue) + Taken(k)'
      BY <1>4, <2>1, SMT DEF IInv, SignalInv
    <2>5. \A k \in Loggers : logger'[k].pipe = logger[k].pipe
      BY <1>4
    <2>6. QED
      BY <1>2, <1>5, <2>3, <2>4, <2>5 DEF IInv, SignalInv
  <1>11. NewInv'
    <2>1. logger[l].created
      BY <1>1 DEF IInv, NewInv
    <2>2. QED
      BY <1>2, <1>4, <2>1 DEF IInv, NewInv
  <1>12. WaitInv'
    <2>1. \A k \in Loggers \ {l} : Parked(k)' = Parked(k) /\ Woken(k)' = Woken(k)
      BY <1>2, <1>7 DEF Parked, Woken
    <2>2. Parked(l)' \cup Woken(l)' = Parked(l) \cup Woken(l)
      BY <1>2, <1>7 DEF Parked, Woken
    <2>3. Parked(l)' # {} => Len(logger'[l].queue) + Cardinality(Woken(l)') >= QueueSize
      <3>1. CASE pc' = pc /\ Parked(l) = {}
        BY <1>2, <3>1 DEF Parked
      <3>2. ASSUME NEW a \in Parked(l), pc' = [pc EXCEPT ![a] = "woken"]
            PROVE  Len(logger'[l].queue) + Cardinality(Woken(l)') >= QueueSize
        <4>1. Woken(l)' = Woken(l) \cup {a} /\ a \notin Woken(l)
          BY <1>2, <3>2 DEF Shape, Parked, Woken
        <4>2. /\ Cardinality(Woken(l) \cup {a}) = Cardinality(Woken(l)) + 1
              /\ Cardinality(Woken(l)) \in Nat
          BY <4>1, WaitersAreActors, ActorsFinite, AddElement
        <4>3. Len(q) + Cardinality(Woken(l)) >= QueueSize
          BY DEF IInv, WaitInv, NoStrandedWaiter
        <4>4. Len(logger'[l].queue) = Len(q) - 1
          BY <1>3, <1>4
        <4>5. Len(q) \in Nat /\ QueueSize \in Nat
          BY <1>3
        <4>6. Cardinality(Woken(l)') = Cardinality(Woken(l)) + 1
          BY <4>1, <4>2
        <4> HIDE DEF q
        <4>7. QED
          BY <4>2, <4>3, <4>4, <4>5, <4>6, SMT
      <3>3. QED
        BY <1>6, <3>1, <3>2
    <2>4. QED
      BY <1>4, <2>1, <2>2, <2>3 DEF IInv, WaitInv, NoStrandedWaiter
  <1>13. ServeInv'
    <2>1. \A k \in Loggers : InUse(k)' = InUse(k)
      BY <1>4 DEF InUse
    <2>2. pc'[Owner] = pc[Owner] \/ (pc[Owner] = "parked" /\ pc'[Owner] = "woken")
      BY <1>7, ConstantFacts
    <2>3. QED
      BY <1>2, <1>5, <2>1, <2>2 DEF IInv, ServeInv
  <1>14. QED
    BY <1>8, <1>9, <1>10, <1>11, <1>12, <1>13 DEF IInv

\* The byte of the message that was taken is read.
LEMMA WriteKeeps ==
    ASSUME IInv, Write \/ WriteFails \/ TakeOut
    PROVE  IInv'
  <1>1. PICK l \in Loggers : l = thread.cur /\ logger[l].pipe > 0
    BY DEF Write, WriteFails, TakeOut, IInv, SignalInv
  <1>2. /\ thread.at = "write" /\ thread' = Done /\ UNCHANGED <<lock, pc, on, msg, calls>>
        /\ Shape /\ DOMAIN logger[l] = LoggerFields /\ logger[l].pipe \in Nat
    BY DEF Write, WriteFails, TakeOut, actorVars, IInv, Shape
  <1>3. /\ DOMAIN thread' = ThreadFields /\ thread'.at = "batch" /\ thread'.cur = Nobody
        /\ thread'.batch = thread.batch /\ thread'.stop = thread.stop
    BY <1>2 DEF Done, Shape, ThreadFields
  <1> DEFINE r == SignalRead(l)
  <1>4. /\ DOMAIN r = LoggerFields /\ r.pipe = logger[l].pipe - 1
        /\ r.queue = logger[l].queue /\ r.waiters = logger[l].waiters
        /\ r.created = logger[l].created /\ r.destroying = logger[l].destroying
    BY <1>2 DEF SignalRead, LoggerFields
  <1>5. PICK x : logger' = [logger EXCEPT ![l] = x] /\ Like(x, r)
    <2>1. CASE Write
      <3> DEFINE e == Executed(r)
      <3>1. logger' = [logger EXCEPT ![l] = [e EXCEPT !.bytes = @ + 1]]
        BY <1>1, <2>1 DEF Write
      <3>2. Like(e, r)
        BY <1>4, LikeFacts
      <3> HIDE DEF e, r
      <3>3. Like([e EXCEPT !.bytes = @ + 1], r)
        BY <3>2 DEF Like, LoggerFields
      <3>4. QED
        BY <3>1, <3>3
    <2>2. CASE WriteFails
      <3>1. logger' = [logger EXCEPT ![l] = Executed(close_logfile(r))]
        BY <1>1, <2>2 DEF WriteFails
      <3> HIDE DEF r
      <3>2. Like(close_logfile(r), r)
        BY <1>4, LikeFacts
      <3>3. Like(Executed(close_logfile(r)), close_logfile(r))
        BY <3>2, LikeFacts DEF Like
      <3>4. Like(Executed(close_logfile(r)), r)
        BY <3>2, <3>3 DEF Like
      <3>5. QED
        BY <3>1, <3>4, ZenonT(30)
    <2>3. CASE TakeOut
      <3>1. logger' = [logger EXCEPT ![l] = Removed(Executed(r))]
        BY <1>1, <2>3 DEF TakeOut
      <3> HIDE DEF r
      <3>2. Like(Executed(r), r)
        BY <1>4, LikeFacts
      <3>3. Like(Removed(Executed(r)), Executed(r))
        BY <3>2, LikeFacts DEF Like
      <3>4. Like(Removed(Executed(r)), r)
        BY <3>2, <3>3 DEF Like
      <3>5. QED
        BY <3>1, <3>4, ZenonT(30)
    <2>4. QED
      BY <2>1, <2>2, <2>3
  <1>6. /\ DOMAIN logger' = Loggers /\ \A k \in Loggers \ {l} : logger'[k] = logger[k]
        /\ DOMAIN logger'[l] = LoggerFields /\ logger'[l].pipe = logger[l].pipe - 1
        /\ logger'[l].queue = logger[l].queue /\ logger'[l].waiters = logger[l].waiters
        /\ logger'[l].created = logger[l].created
        /\ logger'[l].destroying = logger[l].destroying
    <2> HIDE DEF r
    <2>1. DOMAIN logger' = Loggers /\ logger'[l] = x /\ \A k \in Loggers \ {l} : logger'[k] = logger[k]
      BY <1>2, <1>5 DEF Shape
    <2>2. QED
      BY <1>4, <1>5, <2>1 DEF Like
  <1>7. Shape'
    <2>1. logger[l].pipe - 1 \in Nat
      BY <1>1, <1>2, SMT
    <2>2. QED
      BY <1>2, <1>3, <1>6, <2>1, ZenonT(30) DEF Shape
  <1>8. CallInv' /\ NewInv'
    <2>1. logger[l].created
      BY <1>1, <1>2, SMT DEF IInv, NewInv
    <2>2. CallInv'
      BY <1>2, SMT DEF IInv, CallInv
    <2>3. NewInv'
      BY <1>2, <1>6, <2>1 DEF IInv, NewInv
    <2>4. QED
      BY <2>2, <2>3
  <1>9. SignalInv'
    <2>1. /\ \A k \in Loggers : Unsignalled(k)' = Unsignalled(k) /\ Unsignalled(k) \in Nat
          /\ Taken(l) = 1 /\ Taken(l)' = 0
          /\ \A k \in Loggers \ {l} : Taken(k)' = 0 /\ Taken(k) = 0
      BY <1>1, <1>2, <1>3 DEF Unsignalled, Taken
    <2>2. /\ logger[l].pipe + Unsignalled(l) = Len(logger[l].queue) + 1
          /\ Len(logger[l].queue) \in Nat
      <3>1. logger[l].pipe + Unsignalled(l) = Len(logger[l].queue) + Taken(l)
        BY DEF IInv, SignalInv
      <3>2. logger[l].queue \in Seq(Nat)
        BY <1>2 DEF Shape
      <3>3. QED
        BY <2>1, <3>1, <3>2, SMT
    <2>3. logger'[l].pipe + Unsignalled(l)' = Len(logger'[l].queue) + Taken(l)'
      BY <1>2, <1>6, <2>1, <2>2, SMT
    <2>4. \A k \in Loggers \ {l} :
             logger'[k].pipe + Unsignalled(k)' = Len(logger'[k].queue) + Taken(k)'
      BY <1>6, <2>1, SMT DEF IInv, SignalInv
    <2>5. \A k \in Loggers : k \in thread'.batch => logger'[k].pipe > 0 /\ k # thread'.cur
      <3>1. l \notin thread.batch
        BY <1>1 DEF IInv, SignalInv
      <3>2. QED
        BY <1>3, <1>6, <3>1, ConstantFacts DEF IInv, SignalInv
    <2>6. QED
      BY <1>3, <2>3, <2>4, <2>5 DEF SignalInv
  <1>10. WaitInv'
    <2>1. \A k \in Loggers : Parked(k)' = Parked(k) /\ Woken(k)' = Woken(k)
      BY <1>2 DEF Parked, Woken
    <2>2. \A k \in Loggers : /\ logger'[k].queue = logger[k].queue
                             /\ logger'[k].waiters = logger[k].waiters
      BY <1>6
    <2>3. QED
      BY <2>1, <2>2 DEF IInv, WaitInv, NoStrandedWaiter
  <1>11. ServeInv'
    <2>1. \A k \in Loggers : InUse(k)' = InUse(k)
      BY <1>6 DEF InUse
    <2>2. QED
      BY <1>2, <1>3, <2>1 DEF IInv, ServeInv
  <1>12. QED
    BY <1>7, <1>8, <1>9, <1>10, <1>11 DEF IInv

-----------------------------------------------------------------------------
(* The theorems                                                            *)

\* Before the first create().
LEMMA InitInv ==
    ASSUME FiniteSetFacts
    PROVE  Init => IInv
  <1> SUFFICES ASSUME Init PROVE IInv
    OBVIOUS
  <1>1. /\ \A l \in Loggers : logger[l] = NewLogger /\ lock[l] = Nobody
        /\ DOMAIN logger = Loggers /\ thread = NoThread /\ lock = [l \in Loggers |-> Nobody]
        /\ pc = [a \in Actors |-> "idle"] /\ on = [a \in Actors |-> Nobody]
        /\ msg = [a \in Actors |-> Stop] /\ calls = 0
    BY DEF Init
  <1>2. /\ DOMAIN NewLogger = LoggerFields /\ NewLogger.queue = <<>> /\ NewLogger.pipe = 0
        /\ NewLogger.waiters = 0 /\ NewLogger.created = FALSE /\ NewLogger.destroying = FALSE
    BY DEF NewLogger, LoggerFields
  <1>3. /\ DOMAIN NoThread = ThreadFields /\ NoThread.at = "none" /\ NoThread.stop = FALSE
        /\ NoThread.batch = {} /\ NoThread.cur = Nobody
    BY DEF NoThread, ThreadFields
  <1>4. /\ <<>> \in Seq(Nat) /\ Len(<<>>) = 0 /\ 0 <= QueueSize /\ FALSE \in BOOLEAN
        /\ Stop \in Nat /\ 0 \in Nat
    BY ConstantFacts, SMT
  <1>5. Shape
    BY <1>1, <1>2, <1>3, <1>4 DEF Shape
  <1>6. CallInv /\ NewInv
    BY <1>1, <1>2, ConstantFacts DEF CallInv, NewInv
  <1>7. SignalInv
    <2>1. \A l \in Loggers : Unsignalled(l) = 0 /\ Taken(l) = 0
      BY <1>1, <1>3 DEF Unsignalled, Taken
    <2>2. QED
      BY <1>1, <1>2, <1>3, <1>4, <2>1 DEF SignalInv
  <1>8. WaitInv
    <2>1. \A l \in Loggers : Parked(l) = {} /\ Woken(l) = {}
      BY <1>1 DEF Parked, Woken
    <2>2. \A l \in Loggers : Parked(l) \cup Woken(l) = {}
      BY <2>1
    <2>3. Cardinality({}) = 0
      BY EmptySet
    <2>4. QED
      BY <1>1, <1>2, <2>1, <2>2, <2>3 DEF WaitInv, NoStrandedWaiter
  <1>9. ServeInv
    BY <1>1, <1>2, <1>3, <1>4 DEF ServeInv, InUse
  <1>10. QED
    BY <1>5, <1>6, <1>7, <1>8, <1>9 DEF IInv

LEMMA StepInv ==
    ASSUME FiniteSetFacts
    PROVE  IInv /\ [Next]_vars => IInv'
  <1> SUFFICES ASSUME IInv, [Next]_vars PROVE IInv'
    OBVIOUS
  <1>1. ASSUME NEW w \in Writers, NEW l \in Loggers, Log(w, l)
        PROVE  IInv'
    BY <1>1, LogKeeps
  <1>2. ASSUME NEW a \in Actors, WaitReturns(a)
        PROVE  IInv'
    BY <1>2, WaitReturnsKeeps
  <1>3. ASSUME NEW a \in Actors, SendSignal(a)
        PROVE  IInv'
    BY <1>3, SendSignalKeeps
  <1>4. ASSUME NEW a \in Actors, SpuriousWakeup(a)
        PROVE  IInv'
    BY <1>4, SpuriousWakeupKeeps
  <1>5. ASSUME NEW l \in Loggers, Create(l)
        PROVE  IInv'
    BY <1>5, CreateKeeps
  <1>6. ASSUME NEW l \in Loggers, Destroy(l)
        PROVE  IInv'
    BY <1>6, DestroyKeeps
  <1>7. ASSUME NEW l \in Loggers, Unlink(l)
        PROVE  IInv'
    BY <1>7, UnlinkKeeps DEF Unlink, actorVars
  <1>8. CASE OwnerStep
    BY <1>8, OwnerKeeps
  <1>9. CASE Check \/ EpollWait \/ EndOfBatch \/ ReadOwnSignal
    BY <1>9, ThreadMoveKeeps
  <1>10. ASSUME NEW l \in Loggers, Prewrite(l) \/ PrewriteFails(l)
         PROVE  IInv'
    BY <1>10, PrewriteKeeps
  <1>11. CASE Pop
    BY <1>11, PopKeeps
  <1>12. CASE Write \/ WriteFails \/ TakeOut
    BY <1>12, WriteKeeps
  <1>13. CASE UNCHANGED vars
    BY <1>13, UnlinkKeeps DEF vars
  <1>14. QED
    BY <1>1, <1>2, <1>3, <1>4, <1>5, <1>6, <1>7, <1>8, <1>9, <1>10, <1>11, <1>12, <1>13
       DEF Next, ThreadStep

\* A logger in use has a log thread, if the last one is destroyed last.
LEMMA InUseServed ==
    ASSUME Careful
    PROVE  IInv => ThreadServes
  <1> SUFFICES ASSUME IInv, NEW l \in Loggers, InUse(l)
               PROVE  thread.at \notin {"none", "exited"} /\ ~thread.stop
    BY DEF ThreadServes
  <1>1. pc[Owner] = "idle" /\ thread.at # "none"
    BY DEF IInv, ServeInv
  <1>2. QED
    BY <1>1 DEF IInv, ServeInv

-----------------------------------------------------------------------------
(* References, the number of messages and their order.                     *)

\* destroy() is in this logger and has its reference still.
OwnerIn(l) == on[Owner] = l /\ pc[Owner] \in {"parked", "woken", "signal", "release"}

\* The references: of create(), of register_logger() and of execute().
Owned(l) == IF logger[l].created /\ (~logger[l].destroying \/ OwnerIn(l)) THEN 1 ELSE 0
Listed(l) == IF logger[l].registered THEN 1 ELSE 0
Served(l) == IF thread.cur = l THEN 1 ELSE 0

\* A logger has as many references as it has users, and the log thread has events
\* only of loggers that are in epoll.
RefOk(l) ==
    /\ logger[l].registered \in BOOLEAN /\ logger[l].fd \in BOOLEAN
    /\ logger[l].refs = Owned(l) + Listed(l) + Served(l)
    /\ logger[l].registered => logger[l].created /\ logger[l].fd
    /\ l \in thread.batch \/ l = thread.cur => logger[l].registered
    /\ logger[l].destroying => logger[l].created
    /\ OwnerIn(l) => logger[l].destroying

\* No call of do_log is in a logger that is being destroyed.
CareOk(l) == logger[l].destroying => \A w \in Writers : pc[w] # "idle" => on[w] # l

RefInv == \A l \in Loggers : RefOk(l) /\ CareOk(l)

-----------------------------------------------------------------------------
(* What the actions do to the members of a logger.                         *)

\* The other loggers stay as they are.
Others(l) == DOMAIN logger' = Loggers /\ \A k \in Loggers \ {l} : logger'[k] = logger[k]

LEMMA RecordFacts ==
    ASSUME NEW lg, DOMAIN lg = LoggerFields
    PROVE  /\ /\ Removed(lg).registered = IF lg.registered THEN FALSE ELSE lg.registered
              /\ Removed(lg).refs = IF lg.registered THEN lg.refs - 1 ELSE lg.refs
              /\ Removed(lg).fd = lg.fd
           /\ /\ Registered(lg).registered = TRUE /\ Registered(lg).refs = lg.refs + 1
              /\ Registered(lg).fd = lg.fd
           /\ /\ close_logfile(lg).registered = Removed(lg).registered
              /\ close_logfile(lg).refs = Removed(lg).refs /\ close_logfile(lg).fd = FALSE
           /\ /\ Executed(lg).registered = lg.registered /\ Executed(lg).refs = lg.refs - 1
              /\ Executed(lg).fd = lg.fd
  <1>1. /\ Removed(lg).registered = IF lg.registered THEN FALSE ELSE lg.registered
        /\ Removed(lg).refs = IF lg.registered THEN lg.refs - 1 ELSE lg.refs
        /\ Removed(lg).fd = lg.fd
    <2>1. CASE lg.registered
      BY <2>1 DEF Removed, LoggerFields
    <2>2. CASE ~lg.registered
      BY <2>2 DEF Removed
    <2>3. QED
      BY <2>1, <2>2
  <1>2. /\ Registered(lg).registered = TRUE /\ Registered(lg).refs = lg.refs + 1
        /\ Registered(lg).fd = lg.fd
    BY DEF Registered, LoggerFields
  <1>3. /\ close_logfile(lg).registered = Removed(lg).registered
        /\ close_logfile(lg).refs = Removed(lg).refs /\ close_logfile(lg).fd = FALSE
    <2> DEFINE r == Removed(lg)
    <2>1. DOMAIN r = LoggerFields /\ close_logfile(lg) = [r EXCEPT !.fd = FALSE]
      BY LikeFacts DEF close_logfile, Like
    <2> HIDE DEF r
    <2>2. QED
      BY <2>1 DEF LoggerFields, r
  <1>4. /\ Executed(lg).registered = lg.registered /\ Executed(lg).refs = lg.refs - 1
        /\ Executed(lg).fd = lg.fd
    BY DEF Executed, LoggerFields
  <1>5. QED
    BY <1>1, <1>2, <1>3, <1>4

\* For a logger that is in epoll.
LEMMA ListedFacts ==
    ASSUME NEW lg, DOMAIN lg = LoggerFields, lg.registered = TRUE
    PROVE  /\ Removed(lg).registered = FALSE /\ Removed(lg).refs = lg.refs - 1
           /\ close_logfile(lg).registered = FALSE /\ close_logfile(lg).refs = lg.refs - 1
           /\ close_logfile(lg).fd = FALSE
  <1>1. Removed(lg).registered = FALSE /\ Removed(lg).refs = lg.refs - 1
    BY DEF Removed, LoggerFields
  <1>2. /\ close_logfile(lg).registered = Removed(lg).registered
        /\ close_logfile(lg).refs = Removed(lg).refs /\ close_logfile(lg).fd = FALSE
    BY RecordFacts
  <1>3. QED
    BY <1>1, <1>2

LEMMA OneOther ==
    ASSUME Shape, NEW l \in Loggers, NEW x, logger' = [logger EXCEPT ![l] = x]
    PROVE  Others(l) /\ logger'[l] = x
  BY DEF Shape, Others

\* push_log_message.
LEMMA PushEffect ==
    ASSUME Shape, NEW a \in Actors, NEW l \in Loggers, NEW m, NEW lg, NEW n,
           push_log_message(a, l, m, lg, n), DOMAIN lg = LoggerFields
    PROVE  /\ Others(l)
           /\ logger'[l].created = lg.created /\ logger'[l].destroying = lg.destroying
           /\ logger'[l].fd = lg.fd /\ logger'[l].registered = lg.registered
           /\ logger'[l].refs = lg.refs /\ logger'[l].pipe = lg.pipe
           /\ thread'.at = thread.at /\ thread'.cur = thread.cur /\ thread'.batch = thread.batch
           /\ thread'.held = thread.held /\ thread.at # "none"
           /\ on'[a] = l /\ msg'[a] = m
           /\ \A b \in Actors \ {a} : pc'[b] = pc[b] /\ on'[b] = on[b] /\ msg'[b] = msg[b]
           /\ \/ /\ pc'[a] = "parked" /\ logger'[l].queue = lg.queue
                 /\ thread'.number = thread.number /\ accepted' = accepted
              \/ /\ pc'[a] = "signal" /\ logger'[l].queue = Append(lg.queue, m)
                 /\ Len(lg.queue) < QueueSize /\ thread'.number = thread.number + 1
                 /\ accepted' = [accepted EXCEPT ![l] = IF m = Stop THEN @ ELSE Append(@, m)]
  <1>1. /\ on'[a] = l /\ msg'[a] = m /\ \A b \in Actors \ {a} : on'[b] = on[b] /\ msg'[b] = msg[b]
        /\ thread.at # "none"
    BY DEF push_log_message, Shape
  <1>2. CASE /\ UNCHANGED <<lock, thread, accepted>> /\ pc' = [pc EXCEPT ![a] = "parked"]
             /\ logger' = [logger EXCEPT ![l] = [lg EXCEPT !.waiters = n + 1]]
    <2> DEFINE x == [lg EXCEPT !.waiters = n + 1]
    <2>1. /\ x.created = lg.created /\ x.destroying = lg.destroying /\ x.fd = lg.fd
          /\ x.registered = lg.registered /\ x.refs = lg.refs /\ x.pipe = lg.pipe
          /\ x.queue = lg.queue
      BY DEF LoggerFields
    <2> HIDE DEF x
    <2>2. Others(l) /\ logger'[l] = x
      BY <1>2, OneOther DEF x
    <2>3. pc'[a] = "parked" /\ \A b \in Actors \ {a} : pc'[b] = pc[b]
      BY <1>2 DEF Shape
    <2>4. QED
      BY <1>1, <1>2, <2>1, <2>2, <2>3
  <1>3. CASE /\ Len(lg.queue) < QueueSize
             /\ logger' = [logger EXCEPT ![l] = [lg EXCEPT !.waiters = n, !.queue = Append(@, m)]]
             /\ thread' = [thread EXCEPT !.number = @ + 1]
             /\ pc' = [pc EXCEPT ![a] = "signal"]
             /\ accepted' = [accepted EXCEPT ![l] = IF m = Stop THEN @ ELSE Append(@, m)]
    <2> DEFINE x == [lg EXCEPT !.waiters = n, !.queue = Append(@, m)]
    <2>1. /\ x.created = lg.created /\ x.destroying = lg.destroying /\ x.fd = lg.fd
          /\ x.registered = lg.registered /\ x.refs = lg.refs /\ x.pipe = lg.pipe
          /\ x.queue = Append(lg.queue, m)
      BY DEF LoggerFields
    <2> HIDE DEF x
    <2>2. Others(l) /\ logger'[l] = x
      BY <1>3, OneOther DEF x
    <2>3. pc'[a] = "signal" /\ \A b \in Actors \ {a} : pc'[b] = pc[b]
      BY <1>3 DEF Shape
    <2>4. /\ thread'.at = thread.at /\ thread'.cur = thread.cur /\ thread'.batch = thread.batch
          /\ thread'.held = thread.held /\ thread'.number = thread.number + 1
      BY <1>3 DEF Shape, ThreadFields
    <2>5. QED
      BY <1>1, <1>3, <2>1, <2>2, <2>3, <2>4
  <1>4. QED
    BY <1>2, <1>3 DEF push_log_message

\* The rest of the loggers' members, with the thread's place in hand.
Same(l) ==
    /\ logger'[l].created = logger[l].created /\ logger'[l].destroying = logger[l].destroying
    /\ logger'[l].queue = logger[l].queue

\* execute() up to single_write.
LEMMA PrewriteEffect ==
    ASSUME Shape, NEW l \in Loggers, Prewrite(l), logger[l].registered = TRUE,
           logger[l].refs \in Int
    PROVE  /\ Others(l) /\ Same(l) /\ logger'[l].pipe = logger[l].pipe
           /\ logger'[l].registered = TRUE /\ logger'[l].refs = logger[l].refs + 1
           /\ logger'[l].fd \in {TRUE, logger[l].fd}
           /\ thread.at = "batch" /\ l \in thread.batch
           /\ thread'.at = "pop" /\ thread'.batch = thread.batch \ {l} /\ thread'.cur = l
           /\ thread'.number = thread.number /\ thread'.held = thread.held
           /\ UNCHANGED <<pc, on, msg, calls, lock, accepted, written>>
  <1>1. /\ thread.at = "batch" /\ l \in thread.batch
        /\ thread'.at = "pop" /\ thread'.batch = thread.batch \ {l} /\ thread'.cur = l
        /\ thread'.number = thread.number /\ thread'.held = thread.held
        /\ UNCHANGED <<pc, on, msg, calls, lock, accepted, written>>
    BY DEF Prewrite, Shape, ThreadFields, actorVars
  <1> DEFINE lg == [logger[l] EXCEPT !.refs = @ + 1]
             open == [Moved(l) EXCEPT ![0] = IF @ = NoFile \/ Backups = 0 THEN <<>> ELSE @]
             c == close_logfile(lg)
             r == Registered(c)
             y == [r EXCEPT !.fd = TRUE, !.bytes = Len(open[0])]
  <1>2. /\ Like(lg, logger[l]) /\ lg.registered = TRUE /\ lg.refs = logger[l].refs + 1
        /\ lg.fd = logger[l].fd
    BY DEF Like, LoggerFields, Shape
  <1>3. logger' = [logger EXCEPT ![l] = lg] \/ logger' = [logger EXCEPT ![l] = y]
    BY DEF Prewrite
  <1> HIDE DEF lg
  <1>4. Like(c, lg) /\ c.refs = lg.refs - 1
    BY <1>2, LikeFacts, ListedFacts DEF Like
  <1> HIDE DEF c
  <1>5. Like(r, c) /\ r.registered = TRUE /\ r.refs = c.refs + 1
    BY <1>4, LikeFacts, RecordFacts, ZenonT(30) DEF Like
  <1> HIDE DEF r, open
  <1>6. Like(y, r) /\ y.registered = r.registered /\ y.refs = r.refs /\ y.fd = TRUE
    BY <1>5 DEF Like, LoggerFields
  <1>7. Like(y, logger[l]) /\ y.registered = TRUE /\ y.fd = TRUE
    BY <1>2, <1>4, <1>5, <1>6 DEF Like
  <1>8. y.refs = logger[l].refs + 1
    BY <1>2, <1>4, <1>5, <1>6, SMT
  <1> HIDE DEF y
  <1>9. PICK x : /\ logger' = [logger EXCEPT ![l] = x] /\ Like(x, logger[l])
                 /\ x.registered = TRUE /\ x.refs = logger[l].refs + 1
                 /\ x.fd \in {TRUE, logger[l].fd}
    BY <1>2, <1>3, <1>7, <1>8
  <1>10. Others(l) /\ logger'[l] = x
    BY <1>9, OneOther
  <1>11. QED
    BY <1>1, <1>9, <1>10 DEF Like, Same

LEMMA PrewriteFailsEffect ==
    ASSUME Shape, NEW l \in Loggers, PrewriteFails(l), logger[l].registered = TRUE
    PROVE  /\ Others(l) /\ Same(l) /\ logger'[l].pipe = logger[l].pipe
           /\ logger'[l].registered = FALSE /\ logger'[l].refs = logger[l].refs - 1
           /\ logger'[l].fd = FALSE
           /\ thread.at = "batch" /\ l \in thread.batch
           /\ thread'.at = thread.at /\ thread'.batch = thread.batch \ {l}
           /\ thread'.cur = thread.cur
           /\ thread'.number = thread.number /\ thread'.held = thread.held
           /\ UNCHANGED <<pc, on, msg, calls, lock, accepted, written>>
  <1>1. /\ thread.at = "batch" /\ l \in thread.batch
        /\ thread'.at = thread.at /\ thread'.batch = thread.batch \ {l}
        /\ thread'.cur = thread.cur
        /\ thread'.number = thread.number /\ thread'.held = thread.held
        /\ UNCHANGED <<pc, on, msg, calls, lock, accepted, written>>
    BY DEF PrewriteFails, Shape, ThreadFields, actorVars
  <1> DEFINE x == close_logfile(logger[l])
  <1>2. DOMAIN logger[l] = LoggerFields
    BY DEF Shape
  <1>3. Like(x, logger[l]) /\ x.registered = FALSE /\ x.refs = logger[l].refs - 1 /\ x.fd = FALSE
    BY <1>2, LikeFacts, ListedFacts
  <1>4. logger' = [logger EXCEPT ![l] = x]
    BY DEF PrewriteFails
  <1> HIDE DEF x
  <1>5. Others(l) /\ logger'[l] = x
    BY <1>4, OneOther
  <1>6. QED
    BY <1>1, <1>3, <1>5 DEF Like, Same

\* The rest of single_write, and of run() for the message of destroy().
LEMMA WriteEffect ==
    ASSUME Shape, NEW l \in Loggers, l = thread.cur, Write \/ WriteFails \/ TakeOut,
           logger[l].registered = TRUE, logger[l].refs \in Int
    PROVE  /\ Others(l) /\ Same(l) /\ logger'[l].pipe = logger[l].pipe - 1
           /\ thread.at = "write" /\ thread'.at = "batch" /\ thread'.batch = thread.batch
           /\ thread'.cur = Nobody /\ thread'.number = thread.number - 1 /\ thread'.held = Stop
           /\ UNCHANGED <<pc, on, msg, calls, lock, accepted>>
           /\ \/ /\ thread.held # Stop /\ written' = [written EXCEPT ![l] = Append(@, thread.held)]
                 /\ logger'[l].registered = TRUE /\ logger'[l].fd = logger[l].fd
                 /\ logger'[l].refs = logger[l].refs - 1
              \/ /\ thread.held # Stop /\ written' = written
                 /\ logger'[l].registered = FALSE /\ logger'[l].fd = FALSE
                 /\ logger'[l].refs = logger[l].refs - 2
              \/ /\ thread.held = Stop /\ written' = written
                 /\ logger'[l].registered = FALSE /\ logger'[l].fd = logger[l].fd
                 /\ logger'[l].refs = logger[l].refs - 2
  <1>1. thread.at = "write" /\ thread' = Done /\ UNCHANGED <<pc, on, msg, calls, lock, accepted>>
    BY DEF Write, WriteFails, TakeOut, actorVars
  <1>2. /\ thread'.at = "batch" /\ thread'.batch = thread.batch
        /\ thread'.cur = Nobody /\ thread'.number = thread.number - 1 /\ thread'.held = Stop
    BY <1>1 DEF Done, Shape, ThreadFields
  <1> DEFINE r == SignalRead(l)
  <1>3. /\ DOMAIN r = LoggerFields /\ r.pipe = logger[l].pipe - 1 /\ r.queue = logger[l].queue
        /\ r.created = logger[l].created /\ r.destroying = logger[l].destroying
        /\ r.registered = TRUE /\ r.refs = logger[l].refs /\ r.fd = logger[l].fd
    BY DEF SignalRead, LoggerFields, Shape
  <1>4. CASE Write
    <2> DEFINE e == Executed(r)
               x == [e EXCEPT !.bytes = @ + 1]
    <2>1. /\ logger' = [logger EXCEPT ![l] = x] /\ thread.held # Stop
          /\ written' = [written EXCEPT ![l] = Append(@, thread.held)]
      BY <1>4 DEF Write
    <2> HIDE DEF r
    <2>2. Like(e, r) /\ e.registered = TRUE /\ e.refs = r.refs - 1 /\ e.fd = r.fd
      BY <1>3, LikeFacts, RecordFacts
    <2> HIDE DEF e
    <2>3. Like(x, e) /\ x.registered = e.registered /\ x.refs = e.refs /\ x.fd = e.fd
      BY <2>2 DEF Like, LoggerFields
    <2> HIDE DEF x
    <2>4. Others(l) /\ logger'[l] = x
      BY <2>1, OneOther, ZenonT(30)
    <2>5. QED
      BY <1>1, <1>2, <1>3, <2>1, <2>2, <2>3, <2>4, SMT DEF Like, Same
  <1>5. CASE WriteFails
    <2> DEFINE c == close_logfile(r)
               x == Executed(c)
    <2>1. logger' = [logger EXCEPT ![l] = x] /\ thread.held # Stop /\ written' = written
      BY <1>5 DEF WriteFails
    <2> HIDE DEF r
    <2>2. Like(c, r) /\ c.registered = FALSE /\ c.refs = r.refs - 1 /\ c.fd = FALSE
      BY <1>3, LikeFacts, ListedFacts
    <2> HIDE DEF c
    <2>3. Like(x, c) /\ x.registered = c.registered /\ x.refs = c.refs - 1 /\ x.fd = c.fd
      BY <2>2 DEF Like, Executed, LoggerFields
    <2> HIDE DEF x
    <2>4. Others(l) /\ logger'[l] = x
      BY <2>1, OneOther
    <2>5. x.refs = logger[l].refs - 2
      BY <1>3, <2>2, <2>3, SMT
    <2>6. QED
      BY <1>1, <1>2, <1>3, <2>1, <2>2, <2>3, <2>4, <2>5, SMT DEF Like, Same
  <1>6. CASE TakeOut
    <2> DEFINE e == Executed(r)
               x == Removed(e)
    <2>1. logger' = [logger EXCEPT ![l] = x] /\ thread.held = Stop /\ written' = written
      BY <1>6 DEF TakeOut, fileVars
    <2> HIDE DEF r
    <2>2. Like(e, r) /\ e.registered = TRUE /\ e.refs = r.refs - 1 /\ e.fd = r.fd
      BY <1>3, LikeFacts, RecordFacts, ZenonT(30)
    <2> HIDE DEF e
    <2>3. Like(x, e) /\ x.registered = FALSE /\ x.refs = e.refs - 1 /\ x.fd = e.fd
      BY <2>2, LikeFacts, RecordFacts, ZenonT(30) DEF Like
    <2> HIDE DEF x
    <2>4. Others(l) /\ logger'[l] = x
      BY <2>1, OneOther
    <2>5. x.refs = logger[l].refs - 2
      BY <1>3, <2>2, <2>3, SMT
    <2>6. QED
      BY <1>1, <1>2, <1>3, <2>1, <2>2, <2>3, <2>4, <2>5, SMT DEF Like, Same
  <1>7. QED
    BY <1>4, <1>5, <1>6, ZenonT(30)

-----------------------------------------------------------------------------
(* The references.                                                         *)

\* The members that the references are about.
RefSame(l) ==
    /\ logger'[l].created = logger[l].created /\ logger'[l].destroying = logger[l].destroying
    /\ logger'[l].fd = logger[l].fd /\ logger'[l].registered = logger[l].registered
    /\ logger'[l].refs = logger[l].refs

LEMMA RefKept ==
    ASSUME NEW l \in Loggers, RefOk(l), RefSame(l), OwnerIn(l)' <=> OwnerIn(l),
           thread'.cur = l <=> thread.cur = l,
           l \in thread'.batch => l \in thread.batch \/ logger[l].registered
    PROVE  RefOk(l)'
  <1>1. Owned(l)' = Owned(l)
    BY DEF RefSame, Owned
  <1>2. Listed(l)' = Listed(l) /\ Served(l)' = Served(l)
    BY DEF RefSame, Listed, Served
  <1>3. QED
    BY <1>1, <1>2 DEF RefOk, RefSame

LEMMA CareKept ==
    ASSUME NEW l \in Loggers, CareOk(l), logger'[l].destroying = logger[l].destroying,
           \A w \in Writers : pc'[w] # "idle" /\ on'[w] = l => pc[w] # "idle" /\ on[w] = l
    PROVE  CareOk(l)'
  BY DEF CareOk

\* Steps that leave the references alone.
LEMMA RefQuiet ==
    ASSUME RefInv, \A l \in Loggers : RefSame(l), \A l \in Loggers : OwnerIn(l)' <=> OwnerIn(l),
           thread'.cur = thread.cur,
           \A l \in Loggers : l \in thread'.batch => l \in thread.batch \/ logger[l].registered,
           \A w \in Writers : pc'[w] # "idle" => pc[w] # "idle" /\ on'[w] = on[w]
    PROVE  RefInv'
  <1> SUFFICES ASSUME NEW l \in Loggers PROVE RefOk(l)' /\ CareOk(l)'
    BY DEF RefInv
  <1>1. RefOk(l) /\ CareOk(l)
    BY DEF RefInv
  <1>2. RefOk(l)'
    BY <1>1, RefKept
  <1>3. CareOk(l)'
    BY <1>1, CareKept DEF RefSame
  <1>4. QED
    BY <1>2, <1>3

LEMMA WriterFacts == Writers \subseteq Actors /\ Owner \notin Writers /\ Owner \in Actors
  BY LoggerAssumption DEF LoggerAssumption, Actors

\* do_log().
LEMMA LogRef ==
    ASSUME IInv, RefInv, NEW w \in Writers, NEW l \in Loggers, Log(w, l)
    PROVE  RefInv'
  <1>1. /\ ~logger[l].destroying /\ push_log_message(w, l, calls + 1, logger[l], logger[l].waiters)
        /\ w \in Actors /\ w # Owner /\ Shape /\ DOMAIN logger[l] = LoggerFields
    BY WriterFacts DEF Log, IInv, Shape
  <1>2. /\ Others(l) /\ thread'.cur = thread.cur /\ thread'.batch = thread.batch
        /\ RefSame(l)
        /\ on'[w] = l /\ \A b \in Actors \ {w} : pc'[b] = pc[b] /\ on'[b] = on[b]
    BY <1>1, PushEffect, SMT DEF RefSame
  <1>3. \A k \in Loggers : RefSame(k)
    BY <1>2 DEF Others, RefSame
  <1>4. \A k \in Loggers : OwnerIn(k)' <=> OwnerIn(k)
    BY <1>1, <1>2, WriterFacts DEF OwnerIn
  <1> SUFFICES ASSUME NEW k \in Loggers PROVE RefOk(k)' /\ CareOk(k)'
    BY DEF RefInv
  <1>5. RefOk(k) /\ CareOk(k)
    BY DEF RefInv
  <1>6. RefOk(k)'
    BY <1>2, <1>3, <1>4, <1>5, RefKept
  <1>7. CareOk(k)'
    <2>1. CASE k = l
      BY <1>1, <1>2, <2>1 DEF CareOk, RefSame
    <2>2. CASE k # l
      <3>1. \A b \in Writers : pc'[b] # "idle" /\ on'[b] = k => pc[b] # "idle" /\ on[b] = k
        BY <1>2, <2>2, WriterFacts
      <3>2. QED
        BY <1>3, <1>5, <3>1, CareKept DEF RefSame
    <2>3. QED
      BY <2>1, <2>2
  <1>8. QED
    BY <1>6, <1>7

\* wait() returns.
LEMMA WaitReturnsRef ==
    ASSUME IInv, RefInv, NEW a \in Actors, WaitReturns(a)
    PROVE  RefInv'
  <1>1. PICK l \in Loggers : l = on[a]
    BY DEF WaitReturns, IInv, CallInv
  <1>2. /\ pc[a] = "woken" /\ Shape /\ DOMAIN logger[l] = LoggerFields
        /\ push_log_message(a, l, msg[a], logger[l], logger[l].waiters - 1)
    BY <1>1 DEF WaitReturns, IInv, Shape
  <1>3. /\ Others(l) /\ thread'.cur = thread.cur /\ thread'.batch = thread.batch
        /\ RefSame(l) /\ pc'[a] \in {"parked", "signal"}
        /\ on'[a] = l /\ \A b \in Actors \ {a} : pc'[b] = pc[b] /\ on'[b] = on[b]
    BY <1>2, PushEffect, SMT DEF RefSame
  <1>4. \A k \in Loggers : RefSame(k)
    BY <1>3 DEF Others, RefSame
  <1>5. \A k \in Loggers : OwnerIn(k)' <=> OwnerIn(k)
    BY <1>1, <1>2, <1>3, WriterFacts DEF OwnerIn
  <1>6. \A w \in Writers : pc'[w] # "idle" => pc[w] # "idle" /\ on'[w] = on[w]
    BY <1>1, <1>2, <1>3, WriterFacts
  <1>7. QED
    BY <1>3, <1>4, <1>5, <1>6, RefQuiet

\* send_signal() and a wakeup without a signal.
LEMMA SendSignalRef ==
    ASSUME IInv, RefInv, NEW a \in Actors, SendSignal(a) \/ SpuriousWakeup(a)
    PROVE  RefInv'
  <1>1. Shape /\ thread' = thread /\ on' = on
    BY DEF IInv, SendSignal, SpuriousWakeup
  <1>2. \A k \in Loggers : RefSame(k)
    <2>1. CASE SendSignal(a)
      <3>1. on[a] \in Loggers /\ logger' = [logger EXCEPT ![on[a]].pipe = @ + 1]
        BY <2>1 DEF SendSignal, IInv, CallInv
      <3>2. QED
        BY <1>1, <3>1 DEF Shape, LoggerFields, RefSame
    <2>2. CASE SpuriousWakeup(a)
      BY <2>2 DEF SpuriousWakeup, RefSame
    <2>3. QED
      BY <2>1, <2>2
  <1>3. /\ \A b \in Actors \ {a} : pc'[b] = pc[b]
        /\ \/ pc[a] = "parked" /\ pc'[a] = "woken"
           \/ pc[a] = "signal" /\ a = Owner /\ pc'[a] = "release"
           \/ pc[a] = "signal" /\ a # Owner /\ pc'[a] = "idle"
    <2>1. CASE SendSignal(a)
      BY <1>1, <2>1 DEF SendSignal, Shape
    <2>2. CASE SpuriousWakeup(a)
      BY <1>1, <2>2 DEF SpuriousWakeup, Shape
    <2>3. QED
      BY <2>1, <2>2
  <1>4. \A k \in Loggers : OwnerIn(k)' <=> OwnerIn(k)
    BY <1>1, <1>3, WriterFacts DEF OwnerIn
  <1>5. \A w \in Writers : pc'[w] # "idle" => pc[w] # "idle" /\ on'[w] = on[w]
    BY <1>1, <1>3, WriterFacts
  <1>6. QED
    BY <1>1, <1>2, <1>4, <1>5, RefQuiet

\* Moves of the log thread, what happens to the files, and no step at all.
LEMMA ThreadMoveRef ==
    ASSUME IInv, RefInv, Check \/ EpollWait \/ EndOfBatch \/ ReadOwnSignal
    PROVE  RefInv'
  <1>1. UNCHANGED <<logger, pc, on>>
    BY DEF Check, EpollWait, EndOfBatch, ReadOwnSignal, actorVars
  <1>2. DOMAIN thread = ThreadFields
    BY DEF IInv, Shape
  <1>3. thread'.cur = thread.cur /\ thread'.batch \subseteq thread.batch \cup Ready
    <2>1. CASE Check
      BY <1>2, <2>1 DEF ThreadFields, Check
    <2>2. CASE EpollWait
      BY <1>2, <2>2 DEF ThreadFields, EpollWait
    <2>3. CASE EndOfBatch
      BY <1>2, <2>3 DEF ThreadFields, EndOfBatch
    <2>4. CASE ReadOwnSignal
      BY <1>2, <2>4 DEF ThreadFields, ReadOwnSignal
    <2>5. QED
      BY <2>1, <2>2, <2>3, <2>4
  <1>4. \A l \in Loggers : l \in Ready => logger[l].registered
    BY ConstantFacts DEF Ready
  <1>5. \A k \in Loggers : RefSame(k) /\ (OwnerIn(k)' <=> OwnerIn(k))
    BY <1>1 DEF RefSame, OwnerIn
  <1>6. QED
    BY <1>1, <1>3, <1>4, <1>5, RefQuiet

LEMMA UnchangedRef ==
    ASSUME RefInv, UNCHANGED <<logger, thread, pc, on>>
    PROVE  RefInv'
  <1>1. \A k \in Loggers : RefSame(k) /\ (OwnerIn(k)' <=> OwnerIn(k))
    BY DEF RefSame, OwnerIn
  <1>2. QED
    BY <1>1, RefQuiet

LEMMA PopRef ==
    ASSUME IInv, RefInv, Pop
    PROVE  RefInv'
  <1>1. PICK l \in Loggers : l = thread.cur
    BY DEF Pop, IInv, SignalInv
  <1>2. Shape /\ on' = on /\ logger' = [logger EXCEPT ![l].queue = Tail(@)] /\ PopWakes(l)
    BY <1>1 DEF IInv, Pop
  <1>3. thread'.cur = thread.cur /\ thread'.batch = thread.batch
    BY <1>2 DEF Pop, Shape, ThreadFields
  <1>4. \A k \in Loggers : RefSame(k)
    BY <1>2 DEF Shape, LoggerFields, RefSame
  <1>5. \A b \in Actors : pc'[b] = pc[b] \/ (pc[b] = "parked" /\ pc'[b] = "woken")
    BY <1>2 DEF PopWakes, Shape, Parked
  <1>6. \A k \in Loggers : OwnerIn(k)' <=> OwnerIn(k)
    BY <1>2, <1>5, WriterFacts DEF OwnerIn
  <1>7. \A w \in Writers : pc'[w] # "idle" => pc[w] # "idle" /\ on'[w] = on[w]
    BY <1>2, <1>5, WriterFacts
  <1>8. QED
    BY <1>3, <1>4, <1>6, <1>7, RefQuiet

\* create(): a reference for the program and one for epoll.
LEMMA CreateRef ==
    ASSUME IInv, RefInv, NEW l \in Loggers, Create(l)
    PROVE  RefInv'
  <1>1. /\ pc[Owner] = "idle" /\ ~logger[l].created /\ UNCHANGED <<pc, on>>
        /\ thread' = create_thread /\ Shape
    BY DEF Create, actorVars, IInv
  <1>2. thread.at = "none" => thread.cur = Nobody
    BY DEF IInv, SignalInv
  <1>3. thread'.cur = thread.cur /\ thread'.batch \subseteq thread.batch
    <2>1. CASE thread.at = "none"
      BY <1>1, <1>2, <2>1 DEF create_thread, NoThread
    <2>2. CASE thread.at # "none"
      BY <1>1, <2>2 DEF create_thread
    <2>3. QED
      BY <2>1, <2>2
  <1>4. /\ \A k \in Loggers \ {l} : logger'[k] = logger[k]
        /\ logger'[l].created = TRUE /\ logger'[l].destroying = FALSE
        /\ logger'[l].fd = TRUE /\ logger'[l].registered = TRUE /\ logger'[l].refs = 2
    BY <1>1 DEF Create, NewLogger, Shape
  <1>5. \A k \in Loggers : OwnerIn(k)' <=> OwnerIn(k)
    BY <1>1 DEF OwnerIn
  <1> SUFFICES ASSUME NEW k \in Loggers PROVE RefOk(k)' /\ CareOk(k)'
    BY DEF RefInv
  <1>6. RefOk(k) /\ CareOk(k) /\ RefOk(l)
    BY DEF RefInv
  <1>7. CASE k # l
    <2>1. RefSame(k)
      BY <1>4, <1>7 DEF RefSame
    <2>2. RefOk(k)'
      BY <1>3, <1>5, <1>6, <2>1, RefKept
    <2>3. CareOk(k)'
      BY <1>1, <1>6, <2>1, CareKept DEF RefSame
    <2>4. QED
      BY <2>2, <2>3
  <1>8. CASE k = l
    <2>1. thread'.cur # l
      BY <1>1, <1>3, <1>6 DEF RefOk
    <2>2. Owned(l)' = 1 /\ Listed(l)' = 1 /\ Served(l)' = 0
      BY <1>4, <2>1 DEF Owned, Listed, Served
    <2>3. ~OwnerIn(l)'
      BY <1>1 DEF OwnerIn
    <2>4. logger'[l].refs = Owned(l)' + Listed(l)' + Served(l)'
      BY <1>4, <2>2, SMT
    <2>5. RefOk(l)'
      BY <1>4, <2>3, <2>4 DEF RefOk
    <2>6. CareOk(l)'
      BY <1>4 DEF CareOk
    <2>7. QED
      BY <1>8, <2>5, <2>6
  <1>9. QED
    BY <1>7, <1>8

\* destroy() up to its first wait or its signal: nobody else is in the logger.
LEMMA DestroyRef ==
    ASSUME Careful, IInv, RefInv, NEW l \in Loggers, Destroy(l)
    PROVE  RefInv'
  <1> DEFINE lg == [logger[l] EXCEPT !.destroying = TRUE]
  <1>1. /\ pc[Owner] = "idle" /\ logger[l].created /\ ~logger[l].destroying
        /\ push_log_message(Owner, l, Stop, lg, logger[l].waiters) /\ Shape
        /\ \A w \in Writers : pc[w] # "idle" => on[w] # l
    BY DEF Destroy, MayDestroy, IInv
  <1>2. /\ DOMAIN lg = LoggerFields /\ lg.destroying = TRUE /\ lg.created = logger[l].created
        /\ lg.fd = logger[l].fd /\ lg.registered = logger[l].registered /\ lg.refs = logger[l].refs
    BY <1>1 DEF Shape, LoggerFields
  <1> HIDE DEF lg
  <1>3. /\ Others(l) /\ thread'.cur = thread.cur /\ thread'.batch = thread.batch
        /\ logger'[l].created = lg.created /\ logger'[l].destroying = lg.destroying
        /\ logger'[l].fd = lg.fd /\ logger'[l].registered = lg.registered
        /\ logger'[l].refs = lg.refs
        /\ pc'[Owner] \in {"parked", "signal"}
        /\ on'[Owner] = l /\ \A b \in Actors \ {Owner} : pc'[b] = pc[b] /\ on'[b] = on[b]
    <2>1. Owner \in Actors
      BY WriterFacts
    <2>2. PICK x, n, m : push_log_message(Owner, l, m, x, n) /\ x = lg
      BY <1>1
    <2>3. DOMAIN x = LoggerFields /\ Shape
      BY <1>1, <1>2, <2>2
    <2>4. /\ Others(l) /\ thread'.cur = thread.cur /\ thread'.batch = thread.batch
          /\ logger'[l].created = x.created /\ logger'[l].destroying = x.destroying
          /\ logger'[l].fd = x.fd /\ logger'[l].registered = x.registered
          /\ logger'[l].refs = x.refs
          /\ pc'[Owner] \in {"parked", "signal"}
          /\ on'[Owner] = l /\ \A b \in Actors \ {Owner} : pc'[b] = pc[b] /\ on'[b] = on[b]
      BY <2>1, <2>2, <2>3, PushEffect, SMT
    <2>5. QED
      BY <2>2, <2>4
  <1>4. \A w \in Writers : pc'[w] = pc[w] /\ on'[w] = on[w]
    BY <1>3, WriterFacts
  <1> SUFFICES ASSUME NEW k \in Loggers PROVE RefOk(k)' /\ CareOk(k)'
    BY DEF RefInv
  <1>5. RefOk(k) /\ CareOk(k) /\ RefOk(l)
    BY DEF RefInv
  <1>6. CASE k # l
    <2>1. RefSame(k)
      BY <1>3, <1>6 DEF RefSame, Others
    <2>2. OwnerIn(k)' <=> OwnerIn(k)
      BY <1>1, <1>3, <1>6 DEF OwnerIn
    <2>3. RefOk(k)'
      BY <1>3, <1>5, <2>1, <2>2, RefKept
    <2>4. CareOk(k)'
      BY <1>4, <1>5, <2>1, CareKept DEF RefSame
    <2>5. QED
      BY <2>3, <2>4
  <1>7. CASE k = l
    <2>1. OwnerIn(l)'
      BY <1>3 DEF OwnerIn
    <2>2. Owned(l)' = 1 /\ Owned(l) = 1
      BY <1>1, <1>2, <1>3, <2>1 DEF Owned
    <2>3. Listed(l)' = Listed(l) /\ Served(l)' = Served(l)
      BY <1>2, <1>3 DEF Listed, Served
    <2>4. RefOk(l)'
      BY <1>1, <1>2, <1>3, <1>5, <2>2, <2>3, ZenonT(30) DEF RefOk
    <2>5. CareOk(l)'
      BY <1>1, <1>4 DEF CareOk
    <2>6. QED
      BY <1>7, <2>4, <2>5
  <1>8. QED
    BY <1>6, <1>7

\* The rest of destroy().
LEMMA OwnerRef ==
    ASSUME IInv, RefInv, OwnerStep
    PROVE  RefInv'
  <1>1. Shape /\ on' = on /\ pc[Owner] \in Late /\ \A b \in Actors \ {Owner} : pc'[b] = pc[b]
    BY WriterFacts DEF IInv, Shape, OwnerStep, Release, StopFlag, BeforeStop, Join, Late
  <1>2. \A w \in Writers : pc'[w] = pc[w] /\ on'[w] = on[w]
    BY <1>1, WriterFacts
  <1>3. CASE StopFlag \/ BeforeStop \/ Join
    <2>1. logger' = logger /\ pc[Owner] # "release" /\ pc'[Owner] \in {"wake", "join", "idle"}
      BY <1>1, <1>3, WriterFacts DEF StopFlag, BeforeStop, Join, Shape
    <2>2. thread'.cur = thread.cur /\ thread'.batch \subseteq thread.batch
      <3>1. CASE StopFlag \/ BeforeStop
        BY <1>1, <3>1 DEF StopFlag, BeforeStop, Shape, ThreadFields
      <3>2. CASE Join
        BY <3>2 DEF Join, NoThread, IInv, SignalInv
      <3>3. QED
        BY <1>3, <3>1, <3>2
    <2>3. \A k \in Loggers : RefSame(k)
      BY <2>1 DEF RefSame
    <2>4. \A k \in Loggers : OwnerIn(k)' <=> OwnerIn(k)
      BY <1>1, <2>1 DEF OwnerIn, Late
    <2>5. QED
      BY <1>2, <2>2, <2>3, <2>4, RefQuiet
  <1>4. CASE Release
    <2>1. PICK l \in Loggers : l = on[Owner]
      BY <1>4, WriterFacts DEF Release, IInv, CallInv
    <2>2. /\ logger' = [logger EXCEPT ![l].refs = @ - 1] /\ thread' = thread
          /\ pc[Owner] = "release" /\ pc'[Owner] = "stop"
      BY <1>1, <1>4, <2>1, WriterFacts DEF Release, Shape
    <2>3. /\ \A k \in Loggers \ {l} : logger'[k] = logger[k]
          /\ logger'[l].created = logger[l].created
          /\ logger'[l].destroying = logger[l].destroying
          /\ logger'[l].fd = logger[l].fd /\ logger'[l].registered = logger[l].registered
          /\ logger'[l].refs = logger[l].refs - 1
      BY <1>1, <2>2 DEF Shape, LoggerFields
    <2> SUFFICES ASSUME NEW k \in Loggers PROVE RefOk(k)' /\ CareOk(k)'
      BY DEF RefInv
    <2>4. RefOk(k) /\ CareOk(k) /\ RefOk(l)
      BY DEF RefInv
    <2>5. CareOk(k)'
      <3>1. logger'[k].destroying = logger[k].destroying
        BY <2>3
      <3>2. QED
        BY <1>2, <2>4, <3>1, CareKept
    <2>6. CASE k # l
      <3>1. RefSame(k)
        BY <2>3, <2>6 DEF RefSame
      <3>2. OwnerIn(k)' <=> OwnerIn(k)
        BY <1>1, <2>1, <2>6 DEF OwnerIn
      <3>3. QED
        BY <2>2, <2>4, <2>5, <3>1, <3>2, RefKept
    <2>7. CASE k = l
      <3>1. OwnerIn(l) /\ ~OwnerIn(l)'
        BY <1>1, <2>1, <2>2 DEF OwnerIn
      <3>2. logger[l].destroying /\ logger[l].created
        BY <2>4, <3>1 DEF RefOk
      <3>3. Owned(l) = 1 /\ Owned(l)' = 0
        BY <2>3, <3>1, <3>2 DEF Owned
      <3>4. /\ Listed(l)' = Listed(l) /\ Served(l)' = Served(l)
            /\ Listed(l) \in {0, 1} /\ Served(l) \in {0, 1}
        BY <2>2, <2>3 DEF Listed, Served
      <3>5. logger[l].refs = Owned(l) + Listed(l) + Served(l)
        BY <2>4 DEF RefOk
      <3>6. logger'[l].refs = Owned(l)' + Listed(l)' + Served(l)'
        BY <2>3, <3>3, <3>4, <3>5, SMT
      <3>7. QED
        BY <2>2, <2>3, <2>4, <2>5, <2>7, <3>1, <3>6 DEF RefOk
    <2>8. QED
      BY <2>6, <2>7
  <1>5. QED
    BY <1>3, <1>4 DEF OwnerStep

\* A step of the log thread at one logger l.
LEMMA OneRef ==
    ASSUME IInv, RefInv, NEW l \in Loggers, Others(l), UNCHANGED <<pc, on>>,
           logger'[l].created = logger[l].created, logger'[l].destroying = logger[l].destroying,
           \A k \in Loggers \ {l} : /\ thread'.cur = k <=> thread.cur = k
                                    /\ k \in thread'.batch => k \in thread.batch,
           RefOk(l)'
    PROVE  RefInv'
  <1> SUFFICES ASSUME NEW k \in Loggers PROVE RefOk(k)' /\ CareOk(k)'
    BY DEF RefInv
  <1>1. RefOk(k) /\ CareOk(k)
    BY DEF RefInv
  <1>2. CareOk(k)'
    BY <1>1 DEF CareOk, Others
  <1>3. CASE k = l
    BY <1>2, <1>3
  <1>4. CASE k # l
    <2>1. RefSame(k)
      BY <1>4 DEF RefSame, Others
    <2>2. OwnerIn(k)' <=> OwnerIn(k)
      BY DEF OwnerIn
    <2>3. QED
      BY <1>1, <1>2, <1>4, <2>1, <2>2, RefKept
  <1>5. QED
    BY <1>3, <1>4

LEMMA RefTypes ==
    ASSUME RefInv, NEW l \in Loggers
    PROVE  /\ logger[l].refs \in Nat /\ Owned(l) \in {0, 1} /\ Listed(l) \in {0, 1}
           /\ Served(l) \in {0, 1} /\ logger[l].refs = Owned(l) + Listed(l) + Served(l)
  <1>1. Owned(l) \in {0, 1} /\ Listed(l) \in {0, 1} /\ Served(l) \in {0, 1}
    BY DEF Owned, Listed, Served
  <1>2. logger[l].refs = Owned(l) + Listed(l) + Served(l)
    BY DEF RefInv, RefOk
  <1>3. QED
    BY <1>1, <1>2, SMT

\* execute() takes a reference for as long as it runs.
LEMMA PrewriteRef ==
    ASSUME IInv, RefInv, NEW l \in Loggers, Prewrite(l)
    PROVE  RefInv'
  <1>1. l \in thread.batch /\ thread.at = "batch" /\ Shape /\ Nobody \notin Loggers
    BY ConstantFacts, LoggerAssumption DEF Prewrite, IInv, LoggerAssumption
  <1>2. thread.cur = Nobody
    BY <1>1 DEF IInv, SignalInv
  <1>3. RefOk(l) /\ logger[l].registered = TRUE
    BY <1>1 DEF RefInv, RefOk
  <1>4. /\ logger[l].refs \in Int /\ Owned(l) \in {0, 1} /\ Served(l) \in {0, 1}
        /\ logger[l].refs = Owned(l) + Listed(l) + Served(l)
    BY RefTypes, SMT
  <1>5. /\ Others(l) /\ Same(l) /\ UNCHANGED <<pc, on>>
        /\ logger'[l].registered = TRUE /\ logger'[l].refs = logger[l].refs + 1
        /\ logger'[l].fd \in {TRUE, logger[l].fd}
        /\ thread'.batch = thread.batch \ {l} /\ thread'.cur = l
    BY <1>1, <1>3, <1>4, PrewriteEffect, ZenonT(30)
  <1>6. OwnerIn(l)' <=> OwnerIn(l)
    BY <1>5 DEF OwnerIn
  <1>7. Owned(l)' = Owned(l) /\ Listed(l) = 1 /\ Listed(l)' = 1
    BY <1>3, <1>5, <1>6 DEF Owned, Listed, Same
  <1>8. Served(l) = 0 /\ Served(l)' = 1
    BY <1>1, <1>2, <1>5 DEF Served
  <1>9. logger'[l].refs = Owned(l)' + Listed(l)' + Served(l)'
    BY <1>4, <1>5, <1>7, <1>8, SMT
  <1>10. RefOk(l)'
    BY <1>3, <1>5, <1>6, <1>9 DEF RefOk, Same
  <1>11. \A k \in Loggers \ {l} : /\ thread'.cur = k <=> thread.cur = k
                                  /\ k \in thread'.batch => k \in thread.batch
    BY <1>1, <1>2, <1>5
  <1>12. QED
    BY <1>5, <1>10, <1>11, OneRef DEF Same

LEMMA PrewriteFailsRef ==
    ASSUME IInv, RefInv, NEW l \in Loggers, PrewriteFails(l)
    PROVE  RefInv'
  <1>1. l \in thread.batch /\ thread.at = "batch" /\ Shape /\ Nobody \notin Loggers
    BY LoggerAssumption DEF PrewriteFails, IInv, LoggerAssumption
  <1>2. thread.cur = Nobody
    BY <1>1 DEF IInv, SignalInv
  <1>3. RefOk(l) /\ logger[l].registered = TRUE
    BY <1>1 DEF RefInv, RefOk
  <1>4. /\ logger[l].refs \in Int /\ Owned(l) \in {0, 1} /\ Served(l) \in {0, 1}
        /\ logger[l].refs = Owned(l) + Listed(l) + Served(l)
    BY RefTypes, SMT
  <1>5. /\ Others(l) /\ Same(l) /\ UNCHANGED <<pc, on>>
        /\ logger'[l].registered = FALSE /\ logger'[l].refs = logger[l].refs - 1
        /\ logger'[l].fd = FALSE
        /\ thread'.batch = thread.batch \ {l} /\ thread'.cur = thread.cur
    BY <1>1, <1>3, PrewriteFailsEffect
  <1>6. OwnerIn(l)' <=> OwnerIn(l)
    BY <1>5 DEF OwnerIn
  <1>7. Owned(l)' = Owned(l) /\ Listed(l) = 1 /\ Listed(l)' = 0
    BY <1>3, <1>5, <1>6 DEF Owned, Listed, Same
  <1>8. Served(l) = 0 /\ Served(l)' = 0
    BY <1>1, <1>2, <1>5 DEF Served
  <1>9. logger'[l].refs = Owned(l)' + Listed(l)' + Served(l)'
    BY <1>4, <1>5, <1>7, <1>8, SMT
  <1>10. l \notin thread'.batch /\ l # thread'.cur
    BY <1>1, <1>2, <1>5
  <1>11. RefOk(l)'
    BY <1>3, <1>5, <1>6, <1>9, <1>10 DEF RefOk, Same
  <1>12. \A k \in Loggers \ {l} : /\ thread'.cur = k <=> thread.cur = k
                                  /\ k \in thread'.batch => k \in thread.batch
    BY <1>5
  <1>13. QED
    BY <1>5, <1>11, <1>12, OneRef DEF Same

\* execute() ends.
LEMMA WriteRef ==
    ASSUME IInv, RefInv, Write \/ WriteFails \/ TakeOut
    PROVE  RefInv'
  <1>1. thread.at = "write" /\ Shape /\ Nobody \notin Loggers
    BY LoggerAssumption DEF Write, WriteFails, TakeOut, IInv, LoggerAssumption
  <1>2. PICK l \in Loggers : l = thread.cur
    BY <1>1 DEF IInv, SignalInv
  <1>3. RefOk(l) /\ logger[l].registered = TRUE /\ l \notin thread.batch
    BY <1>2 DEF RefInv, RefOk, IInv, SignalInv
  <1>4. /\ logger[l].refs \in Int /\ Owned(l) \in {0, 1}
        /\ logger[l].refs = Owned(l) + Listed(l) + Served(l)
    BY RefTypes, SMT
  <1>5. /\ Others(l) /\ Same(l) /\ UNCHANGED <<pc, on>>
        /\ thread'.batch = thread.batch /\ thread'.cur = Nobody
        /\ \/ /\ logger'[l].registered = TRUE /\ logger'[l].fd = logger[l].fd
              /\ logger'[l].refs = logger[l].refs - 1
           \/ /\ logger'[l].registered = FALSE /\ logger'[l].fd \in {FALSE, logger[l].fd}
              /\ logger'[l].refs = logger[l].refs - 2
    BY <1>1, <1>2, <1>3, <1>4, WriteEffect
  <1>6. OwnerIn(l)' <=> OwnerIn(l)
    BY <1>5 DEF OwnerIn
  <1>7. Owned(l)' = Owned(l) /\ Listed(l) = 1
    BY <1>3, <1>5, <1>6 DEF Owned, Listed, Same
  <1>8. Served(l) = 1 /\ Served(l)' = 0
    BY <1>1, <1>2, <1>5 DEF Served
  <1>9. logger'[l].refs = Owned(l)' + Listed(l)' + Served(l)'
    <2>1. CASE logger'[l].registered = TRUE /\ logger'[l].refs = logger[l].refs - 1
      <3>1. Listed(l)' = 1
        BY <2>1 DEF Listed
      <3>2. QED
        BY <1>4, <1>7, <1>8, <2>1, <3>1, SMT
    <2>2. CASE logger'[l].registered = FALSE /\ logger'[l].refs = logger[l].refs - 2
      <3>1. Listed(l)' = 0
        BY <2>2 DEF Listed
      <3>2. QED
        BY <1>4, <1>7, <1>8, <2>2, <3>1, SMT
    <2>3. QED
      BY <1>5, <2>1, <2>2
  <1>10. l \notin thread'.batch /\ l # thread'.cur
    BY <1>1, <1>3, <1>5
  <1>11. RefOk(l)'
    BY <1>3, <1>5, <1>6, <1>9, <1>10 DEF RefOk, Same
  <1>12. \A k \in Loggers \ {l} : /\ thread'.cur = k <=> thread.cur = k
                                  /\ k \in thread'.batch => k \in thread.batch
    BY <1>1, <1>2, <1>5
  <1>13. QED
    BY <1>5, <1>11, <1>12, OneRef DEF Same

LEMMA InitRef == Init => RefInv
  <1> SUFFICES ASSUME Init, NEW l \in Loggers PROVE RefOk(l) /\ CareOk(l)
    BY DEF RefInv
  <1>1. /\ logger[l].created = FALSE /\ logger[l].destroying = FALSE /\ logger[l].fd = FALSE
        /\ logger[l].registered = FALSE /\ logger[l].refs = 0
    BY DEF Init, NewLogger
  <1>2. thread.batch = {} /\ thread.cur # l /\ pc[Owner] = "idle"
    BY LoggerAssumption, WriterFacts DEF Init, NoThread, LoggerAssumption
  <1>3. Owned(l) = 0 /\ Listed(l) = 0 /\ Served(l) = 0
    BY <1>1, <1>2 DEF Owned, Listed, Served
  <1>4. logger[l].refs = Owned(l) + Listed(l) + Served(l)
    BY <1>1, <1>3, SMT
  <1>5. RefOk(l)
    BY <1>1, <1>2, <1>4, ZenonT(30) DEF RefOk, OwnerIn
  <1>6. CareOk(l)
    BY <1>1 DEF CareOk
  <1>7. QED
    BY <1>5, <1>6

LEMMA StepRef ==
    ASSUME Careful, IInv, RefInv, [Next]_vars
    PROVE  RefInv'
  <1>1. ASSUME NEW w \in Writers, NEW l \in Loggers, Log(w, l)
        PROVE  RefInv'
    BY <1>1, LogRef
  <1>2. ASSUME NEW a \in Actors, WaitReturns(a)
        PROVE  RefInv'
    BY <1>2, WaitReturnsRef
  <1>3. ASSUME NEW a \in Actors, SendSignal(a) \/ SpuriousWakeup(a)
        PROVE  RefInv'
    BY <1>3, SendSignalRef
  <1>4. ASSUME NEW l \in Loggers, Create(l)
        PROVE  RefInv'
    BY <1>4, CreateRef
  <1>5. ASSUME NEW l \in Loggers, Destroy(l)
        PROVE  RefInv'
    BY <1>5, DestroyRef
  <1>6. ASSUME NEW l \in Loggers, Unlink(l)
        PROVE  RefInv'
    BY <1>6, UnchangedRef DEF Unlink, actorVars
  <1>7. CASE OwnerStep
    BY <1>7, OwnerRef
  <1>8. CASE Check \/ EpollWait \/ EndOfBatch \/ ReadOwnSignal
    BY <1>8, ThreadMoveRef
  <1>9. ASSUME NEW l \in Loggers, Prewrite(l)
        PROVE  RefInv'
    BY <1>9, PrewriteRef
  <1>10. ASSUME NEW l \in Loggers, PrewriteFails(l)
         PROVE  RefInv'
    BY <1>10, PrewriteFailsRef
  <1>11. CASE Pop
    BY <1>11, PopRef
  <1>12. CASE Write \/ WriteFails \/ TakeOut
    BY <1>12, WriteRef
  <1>13. CASE UNCHANGED vars
    BY <1>13, UnchangedRef DEF vars
  <1>14. QED
    BY <1>1, <1>2, <1>3, <1>4, <1>5, <1>6, <1>7, <1>8, <1>9, <1>10, <1>11, <1>12, <1>13
       DEF Next, ThreadStep

\* A logger without references is in nobody's hands.
LEMMA DeletedUnused ==
    ASSUME Careful
    PROVE  IInv /\ RefInv => NotUsedDeleted
  <1> SUFFICES ASSUME IInv, RefInv, NEW l \in Loggers, logger[l].created, logger[l].refs = 0
               PROVE  /\ ~logger[l].registered /\ l \notin thread.batch /\ l # thread.cur
                      /\ \A a \in Actors : on[a] = l => pc[a] \in {"idle", "stop", "wake", "join"}
    BY DEF NotUsedDeleted
  <1>1. Owned(l) = 0 /\ Listed(l) = 0
    BY RefTypes, SMT
  <1>2. ~logger[l].registered /\ logger[l].destroying /\ ~OwnerIn(l)
    BY <1>1, SMT DEF Owned, Listed
  <1>3. l \notin thread.batch /\ l # thread.cur
    BY <1>2 DEF RefInv, RefOk
  <1>4. \A w \in Writers : on[w] = l => pc[w] = "idle"
    BY <1>2 DEF RefInv, CareOk
  <1>5. on[Owner] = l => pc[Owner] \in {"idle", "stop", "wake", "join"}
    BY <1>2, WriterFacts DEF OwnerIn, IInv, Shape
  <1>6. QED
    BY <1>2, <1>3, <1>4, <1>5 DEF Actors

-----------------------------------------------------------------------------
(* The number of messages and their order.                                 *)

Places == {"none", "check", "wait", "batch", "pop", "write", "exited"}

\* The messages of each logger that are not written yet, and one pair for each of them.
Loads == [l \in Loggers |-> Len(logger[l].queue) + Taken(l)]
Pairs(f) == {p \in Loggers \X (1..(QueueSize + 1)) : p[2] <= f[p[1]]}

\* The log thread counts the messages of all loggers, and ends with none left.
NumberInv ==
    /\ thread.number = Cardinality(Pairs(Loads))
    /\ thread.at \in {"none", "exited"} => thread.number = 0

\* What was written, the message in the hands of the log thread, and the queue.
Held(l) == IF thread.at = "write" /\ thread.cur = l THEN <<thread.held>> ELSE <<>>
Stream(l) == (written[l] \o Held(l)) \o logger[l].queue

\* destroy() has queued its message.
Asked(l) == logger[l].destroying /\ ~(on[Owner] = l /\ pc[Owner] \in {"parked", "woken"})

\* They are the accepted messages, and the message of destroy() comes last.
FlowOk(l) ==
    \/ Failed(l)
    \/ Stream(l) = accepted[l]
    \/ Asked(l) /\ Stream(l) = Append(accepted[l], Stop)

StreamInv ==
    /\ accepted \in [Loggers -> Seq(Nat \ {Stop})] /\ written \in [Loggers -> Seq(Nat \ {Stop})]
    /\ \A l \in Loggers : FlowOk(l)

\* Only destroy() queues the empty message.
BoundInv ==
    /\ thread.held \in Nat /\ thread.at \in Places
    /\ calls <= MaxLogs /\ msg \in [Actors -> 0..MaxLogs]
    /\ \A l \in Loggers : logger[l].queue \in Seq(0..MaxLogs) /\ logger[l].pipe <= PipeSize
    /\ \A a \in Actors : pc[a] \in {"parked", "woken"} => (msg[a] = Stop <=> a = Owner)

FlowInv == NumberInv /\ StreamInv /\ BoundInv

-----------------------------------------------------------------------------
LEMMA PairsFinite ==
    ASSUME FiniteSetFacts, NEW f
    PROVE  /\ IsFiniteSet(Pairs(f)) /\ Cardinality(Pairs(f)) \in Nat
           /\ Cardinality(Pairs(f)) <= (QueueSize + 1) * Cardinality(Loggers)
  <1> DEFINE N == 1..(QueueSize + 1)
             P == Loggers \X N
  <1>1. QueueSize \in Nat /\ IsFiniteSet(Loggers)
    BY LoggerAssumption DEF LoggerAssumption
  <1>2. IsFiniteSet(N) /\ Cardinality(N) = QueueSize + 1
    <2>1. 1 \in Int /\ QueueSize + 1 \in Int /\ ~(1 > QueueSize + 1)
      BY <1>1, SMT
    <2>2. IsFiniteSet(N) /\ Cardinality(N) = IF 1 > QueueSize + 1 THEN 0 ELSE (QueueSize + 1) - 1 + 1
      BY <2>1, IntervalFinite
    <2>3. QED
      BY <1>1, <2>1, <2>2, SMT
  <1>3. Pairs(f) \subseteq P
    BY DEF Pairs
  <1> HIDE DEF N
  <1>4. IsFiniteSet(P) /\ Cardinality(P) = Cardinality(Loggers) * Cardinality(N)
    BY <1>1, <1>2, ProductFinite
  <1> HIDE DEF P
  <1>5. /\ IsFiniteSet(Pairs(f)) /\ Cardinality(Pairs(f)) <= Cardinality(P)
        /\ Cardinality(Pairs(f)) \in Nat /\ Cardinality(Loggers) \in Nat
    BY <1>1, <1>3, <1>4, SubsetFinite, CardinalityNat
  <1>6. Cardinality(Loggers) * (QueueSize + 1) = (QueueSize + 1) * Cardinality(Loggers)
    BY <1>1, <1>5, SMT
  <1>7. QED
    BY <1>2, <1>4, <1>5, <1>6

\* One message more in one logger.
LEMMA PairsUp ==
    ASSUME FiniteSetFacts, NEW f \in [Loggers -> 0..(QueueSize + 1)], NEW g \in [Loggers -> 0..(QueueSize + 1)],
           NEW l \in Loggers, g[l] = f[l] + 1, \A k \in Loggers \ {l} : g[k] = f[k]
    PROVE  Cardinality(Pairs(g)) = Cardinality(Pairs(f)) + 1
  <1> DEFINE p == <<l, f[l] + 1>>
  <1>1. QueueSize \in Nat
    BY LoggerAssumption DEF LoggerAssumption
  <1>2. p \notin Pairs(f)
    BY <1>1, SMT DEF Pairs
  <1>3. Pairs(g) = Pairs(f) \cup {p}
    <2>1. ASSUME NEW k \in Loggers, NEW i \in 1..(QueueSize + 1)
          PROVE  i <= g[k] <=> i <= f[k] \/ (k = l /\ i = f[l] + 1)
      <3>1. CASE k = l
        BY <1>1, <3>1, SMT
      <3>2. CASE k # l
        BY <3>2
      <3>3. QED
        BY <3>1, <3>2
    <2>2. f[l] + 1 \in 1..(QueueSize + 1)
      BY <1>1, SMT
    <2>3. QED
      BY <2>1, <2>2, SMT DEF Pairs
  <1> HIDE DEF p
  <1>4. QED
    BY <1>2, <1>3, PairsFinite, AddElement

LEMMA PairsNone ==
    ASSUME FiniteSetFacts, NEW f \in [Loggers -> 0..(QueueSize + 1)], Cardinality(Pairs(f)) = 0, NEW l \in Loggers
    PROVE  f[l] = 0
  <1>1. QueueSize \in Nat
    BY LoggerAssumption DEF LoggerAssumption
  <1>2. Pairs(f) = {}
    BY PairsFinite, EmptySet
  <1>3. f[l] > 0 => <<l, 1>> \in Pairs(f)
    BY <1>1, SMT DEF Pairs
  <1>4. QED
    BY <1>1, <1>2, <1>3, SMT

LoadsOk == Loads \in [Loggers -> 0..(QueueSize + 1)]

LEMMA LoadsType == Shape => LoadsOk
  <1> SUFFICES ASSUME Shape PROVE Loads \in [Loggers -> 0..(QueueSize + 1)]
    BY DEF LoadsOk
  <1>1. QueueSize \in Nat
    BY LoggerAssumption DEF LoggerAssumption
  <1>2. ASSUME NEW l \in Loggers PROVE Len(logger[l].queue) + Taken(l) \in 0..(QueueSize + 1)
    <2>1. Taken(l) \in {0, 1}
      BY DEF Taken
    <2>2. Len(logger[l].queue) \in Nat /\ Len(logger[l].queue) <= QueueSize
      BY SMT DEF Shape
    <2>3. QED
      BY <1>1, <2>1, <2>2, SMT
  <1>3. QED
    BY <1>2 DEF Loads

LEMMA LoadsNext == Shape' => LoadsOk'
  BY LoadsType, PTL

-----------------------------------------------------------------------------
(* Facts about sequences of messages.                                      *)

LEMMA SameElements ==
    ASSUME NEW s \in Seq(Nat), NEW t \in Seq(Nat), Len(s) = Len(t),
           \A i \in 1..Len(t) : s[i] = t[i]
    PROVE  s = t
  BY SMT

LEMMA HeadTail ==
    ASSUME NEW S, NEW q \in Seq(S), q # <<>>
    PROVE  Tail(q) \in Seq(S) /\ Head(q) \in S
  BY SMT

LEMMA NothingBehind ==
    ASSUME NEW w \in Seq(Nat)
    PROVE  w \o <<>> = w
  BY SMT

LEMMA PopSeq ==
    ASSUME NEW w \in Seq(Nat), NEW q \in Seq(Nat), q # <<>>
    PROVE  (w \o <<Head(q)>>) \o Tail(q) = (w \o <<>>) \o q
  BY SMT

LEMMA WriteSeq ==
    ASSUME NEW w \in Seq(Nat), NEW q \in Seq(Nat), NEW m \in Nat
    PROVE  (Append(w, m) \o <<>>) \o q = (w \o <<m>>) \o q
  BY SMT

\* The empty message is not among the accepted ones.
LEMMA StopSeq ==
    ASSUME NEW w \in Seq(Nat), NEW q \in Seq(Nat), NEW a \in Seq(Nat \ {0})
    PROVE  (w \o << 0 >>) \o q # a
  <1> DEFINE s == (w \o << 0 >>) \o q
  <1>1. Len(w) + 1 \in DOMAIN s /\ s[Len(w) + 1] = 0
    BY SMT
  <1> HIDE DEF s
  <1>2. \A i \in DOMAIN a : a[i] # 0
    BY SMT
  <1>3. s # a
    BY <1>1, <1>2
  <1>4. QED
    BY <1>3 DEF s

LEMMA LastSeq ==
    ASSUME NEW w \in Seq(Nat), NEW q \in Seq(Nat), NEW a \in Seq(Nat \ {0}),
           (w \o << 0 >>) \o q = Append(a, 0)
    PROVE  (w \o <<>>) \o q = a
  <1> DEFINE s == (w \o << 0 >>) \o q
             n == Len(w)
  <1>1. /\ n \in Nat /\ Len(s) = n + 1 + Len(q) /\ s[n + 1] = 0
        /\ \A i \in 1..n : s[i] = w[i]
    BY SMT
  <1>2. /\ Len(Append(a, 0)) = Len(a) + 1 /\ Len(a) \in Nat
        /\ \A i \in 1..Len(a) : Append(a, 0)[i] = a[i] /\ a[i] # 0
    BY SMT
  <1>3. s = Append(a, 0)
    OBVIOUS
  <1> HIDE DEF s
  <1>4. Len(q) \in Nat
    BY SMT
  <1>5. n = Len(a) /\ Len(q) = 0
    BY <1>1, <1>2, <1>3, <1>4, SMT
  <1>6. w = a
    <2>1. Len(w) = Len(a) /\ \A i \in 1..Len(a) : w[i] = a[i]
      BY <1>1, <1>2, <1>3, <1>5
    <2>2. w \in Seq(Nat) /\ a \in Seq(Nat)
      BY SMT
    <2>3. QED
      BY <2>1, <2>2, SameElements
  <1>7. q = <<>>
    BY <1>5, SMT
  <1>8. QED
    BY <1>6, <1>7, SMT

-----------------------------------------------------------------------------
(* The steps.                                                              *)

\* The log thread has the same message in hand, or none.
SameHand ==
    \/ thread'.at = thread.at /\ thread'.cur = thread.cur /\ thread'.held = thread.held
    \/ thread.at # "write" /\ thread'.at # "write"

LEMMA HandKept ==
    ASSUME SameHand, NEW l \in Loggers
    PROVE  Taken(l)' = Taken(l) /\ Held(l)' = Held(l)
  BY DEF SameHand, Taken, Held

\* Steps that queue nothing and write nothing.
LEMMA QuietFlow ==
    ASSUME FlowInv, SameHand, thread'.number = thread.number,
           thread'.at \in {"none", "exited"} => thread'.number = 0,
           thread'.at \in Places, thread'.held \in Nat,
           UNCHANGED <<written, accepted, msg, calls>>,
           \A l \in Loggers : /\ logger'[l].queue = logger[l].queue
                              /\ logger'[l].pipe <= PipeSize
                              /\ Failed(l) => Failed(l)'
                              /\ Asked(l) => Asked(l)',
           \A a \in Actors : pc'[a] \in {"parked", "woken"} => pc[a] \in {"parked", "woken"}
    PROVE  FlowInv'
  <1>1. \A l \in Loggers : Taken(l)' = Taken(l) /\ Held(l)' = Held(l)
    BY HandKept
  <1>2. NumberInv'
    <2>1. Loads' = Loads
      BY <1>1 DEF Loads
    <2>2. Pairs(Loads)' = Pairs(Loads)
      BY <2>1 DEF Pairs
    <2>3. QED
      BY <2>2 DEF FlowInv, NumberInv
  <1>3. StreamInv'
    <2>1. ASSUME NEW l \in Loggers PROVE FlowOk(l)'
      <3>1. Stream(l)' = Stream(l)
        BY <1>1 DEF Stream
      <3>2. FlowOk(l)
        BY DEF FlowInv, StreamInv
      <3>3. QED
        BY <3>1, <3>2 DEF FlowOk
    <2>2. QED
      BY <2>1 DEF FlowInv, StreamInv
  <1>4. BoundInv'
    BY DEF FlowInv, BoundInv
  <1>5. QED
    BY <1>2, <1>3, <1>4 DEF FlowInv

LEMMA ThreadMoveFlow ==
    ASSUME IInv, FlowInv, Check \/ EpollWait \/ EndOfBatch \/ ReadOwnSignal
    PROVE  FlowInv'
  <1>1. UNCHANGED <<logger, pc, on, msg, calls, accepted, written>>
    BY DEF Check, EpollWait, EndOfBatch, ReadOwnSignal, actorVars, fileVars
  <1>2. DOMAIN thread = ThreadFields
    BY DEF IInv, Shape
  <1>3. /\ thread'.number = thread.number /\ thread'.held = thread.held
        /\ thread.at # "write" /\ thread'.at \in Places \ {"write", "none"}
        /\ thread'.at = "exited" => thread.number = 0
    <2>1. CASE Check
      BY <1>2, <2>1 DEF ThreadFields, Check, Places, MayExit
    <2>2. CASE EpollWait
      BY <1>2, <2>2 DEF ThreadFields, EpollWait, Places
    <2>3. CASE EndOfBatch
      BY <1>2, <2>3 DEF ThreadFields, EndOfBatch, Places
    <2>4. CASE ReadOwnSignal
      BY <1>2, <2>4 DEF ThreadFields, ReadOwnSignal, Places
    <2>5. QED
      BY <2>1, <2>2, <2>3, <2>4
  <1>4. SameHand /\ thread'.at \in Places /\ thread'.held \in Nat
    BY <1>3 DEF SameHand, FlowInv, BoundInv
  <1>5. \A l \in Loggers : /\ logger'[l].queue = logger[l].queue
                           /\ logger'[l].pipe <= PipeSize
                           /\ Failed(l) => Failed(l)'
                           /\ Asked(l) => Asked(l)'
    BY <1>1 DEF FlowInv, BoundInv, Failed, Asked
  <1>6. QED
    BY <1>1, <1>3, <1>4, <1>5, QuietFlow

LEMMA UnchangedFlow ==
    ASSUME FlowInv, UNCHANGED <<logger, thread, pc, on, msg, calls, accepted, written>>
    PROVE  FlowInv'
  <1>1. \A l \in Loggers : /\ logger'[l].queue = logger[l].queue
                           /\ logger'[l].pipe <= PipeSize
                           /\ Failed(l) => Failed(l)'
                           /\ Asked(l) => Asked(l)'
    BY DEF FlowInv, BoundInv, Failed, Asked
  <1>2. /\ SameHand /\ thread'.at \in Places /\ thread'.held \in Nat
        /\ thread'.number = thread.number
        /\ thread'.at \in {"none", "exited"} => thread'.number = 0
    BY DEF SameHand, FlowInv, BoundInv, NumberInv
  <1>3. QED
    BY <1>1, <1>2, QuietFlow

LEMMA SendSignalFlow ==
    ASSUME IInv, FlowInv, NEW a \in Actors, SendSignal(a) \/ SpuriousWakeup(a)
    PROVE  FlowInv'
  <1>1. Shape /\ UNCHANGED <<thread, on, msg, calls, accepted, written>>
    BY DEF IInv, SendSignal, SpuriousWakeup, fileVars
  <1>2. \A l \in Loggers : /\ logger'[l].queue = logger[l].queue
                           /\ logger'[l].created = logger[l].created
                           /\ logger'[l].destroying = logger[l].destroying
                           /\ logger'[l].fd = logger[l].fd
                           /\ logger'[l].pipe <= PipeSize
    <2>1. CASE SendSignal(a)
      <3>1. PICK l \in Loggers : l = on[a]
        BY <2>1 DEF SendSignal, IInv, CallInv
      <3>2. logger' = [logger EXCEPT ![l].pipe = @ + 1] /\ logger[l].pipe < PipeSize
        BY <2>1, <3>1 DEF SendSignal
      <3>3. logger[l].pipe \in Nat /\ PipeSize \in Nat
        BY <1>1, LoggerAssumption DEF Shape, LoggerAssumption
      <3>4. logger'[l].pipe <= PipeSize /\ \A k \in Loggers \ {l} : logger'[k] = logger[k]
        BY <1>1, <3>2, <3>3, SMT DEF Shape, LoggerFields
      <3>5. QED
        BY <1>1, <3>2, <3>4 DEF Shape, LoggerFields, FlowInv, BoundInv
    <2>2. CASE SpuriousWakeup(a)
      BY <2>2 DEF SpuriousWakeup, FlowInv, BoundInv
    <2>3. QED
      BY <2>1, <2>2
  <1>3. /\ \A b \in Actors \ {a} : pc'[b] = pc[b]
        /\ \/ pc[a] = "parked" /\ pc'[a] = "woken"
           \/ pc[a] = "signal" /\ pc'[a] \in {"release", "idle"}
    <2>1. CASE SendSignal(a)
      BY <1>1, <2>1 DEF SendSignal, Shape
    <2>2. CASE SpuriousWakeup(a)
      BY <1>1, <2>2 DEF SpuriousWakeup, Shape
    <2>3. QED
      BY <2>1, <2>2
  <1>4. \A l \in Loggers : (Failed(l) => Failed(l)') /\ (Asked(l) => Asked(l)')
    BY <1>1, <1>2, <1>3, WriterFacts DEF Failed, Asked
  <1>5. /\ SameHand /\ thread'.at \in Places /\ thread'.held \in Nat
        /\ thread'.number = thread.number
        /\ thread'.at \in {"none", "exited"} => thread'.number = 0
    BY <1>1 DEF SameHand, FlowInv, BoundInv, NumberInv
  <1>6. QED
    BY <1>1, <1>2, <1>3, <1>4, <1>5, QuietFlow

LEMMA OwnerFlow ==
    ASSUME IInv, FlowInv, OwnerStep
    PROVE  FlowInv'
  <1>1. /\ Shape /\ UNCHANGED <<on, msg, calls, accepted, written>> /\ pc[Owner] \in Late
        /\ pc'[Owner] \in {"idle", "stop", "wake", "join"}
        /\ \A b \in Actors \ {Owner} : pc'[b] = pc[b]
    BY WriterFacts DEF IInv, Shape, OwnerStep, Release, StopFlag, BeforeStop, Join, Late, fileVars
  <1>2. \A l \in Loggers : /\ logger'[l].queue = logger[l].queue
                           /\ logger'[l].created = logger[l].created
                           /\ logger'[l].destroying = logger[l].destroying
                           /\ logger'[l].fd = logger[l].fd
                           /\ logger'[l].pipe = logger[l].pipe
    <2>1. CASE Release
      <3>1. PICK l \in Loggers : l = on[Owner]
        BY <2>1, WriterFacts DEF Release, IInv, CallInv
      <3>2. logger' = [logger EXCEPT ![l].refs = @ - 1]
        BY <2>1, <3>1 DEF Release
      <3>3. QED
        BY <1>1, <3>2 DEF Shape, LoggerFields
    <2>2. CASE StopFlag \/ BeforeStop \/ Join
      BY <2>2 DEF StopFlag, BeforeStop, Join
    <2>3. QED
      BY <2>1, <2>2 DEF OwnerStep
  <1>3. \A l \in Loggers : (Failed(l) => Failed(l)') /\ (Asked(l) => Asked(l)')
    BY <1>1, <1>2 DEF Failed, Asked
  <1>4. /\ SameHand /\ thread'.at \in Places /\ thread'.held \in Nat
        /\ thread'.number = thread.number
        /\ thread'.at \in {"none", "exited"} => thread'.number = 0
    <2>1. CASE Join
      <3>1. thread.at = "exited" /\ thread' = NoThread /\ thread.number = 0
        BY <2>1 DEF Join, FlowInv, NumberInv
      <3>2. QED
        BY <3>1 DEF NoThread, SameHand, Places, Stop
    <2>2. CASE Release \/ StopFlag \/ BeforeStop
      <3>1. /\ thread'.at = thread.at /\ thread'.cur = thread.cur /\ thread'.held = thread.held
            /\ thread'.number = thread.number
        BY <1>1, <2>2 DEF Release, StopFlag, BeforeStop, Shape, ThreadFields
      <3>2. QED
        BY <3>1 DEF SameHand, FlowInv, BoundInv, NumberInv
    <2>3. QED
      BY <2>1, <2>2 DEF OwnerStep
  <1>5. \A l \in Loggers : logger'[l].pipe <= PipeSize
    BY <1>2 DEF FlowInv, BoundInv
  <1>6. \A a \in Actors : pc'[a] \in {"parked", "woken"} => pc[a] \in {"parked", "woken"}
    BY <1>1
  <1>7. QED
    BY <1>1, <1>2, <1>3, <1>4, <1>5, <1>6, QuietFlow

LEMMA CreateFlow ==
    ASSUME IInv, RefInv, FlowInv, NEW l \in Loggers, Create(l)
    PROVE  FlowInv'
  <1>1. /\ ~logger[l].created /\ UNCHANGED <<pc, on, msg, calls, accepted, written>>
        /\ thread' = create_thread /\ Shape
    BY DEF Create, actorVars, IInv
  <1>2. /\ \A k \in Loggers \ {l} : logger'[k] = logger[k]
        /\ logger'[l].queue = <<>> /\ logger'[l].pipe = 0
    BY <1>1 DEF Create, NewLogger, Shape
  <1>3. logger[l].queue = <<>> /\ ~Asked(l) /\ ~Failed(l)
    BY <1>1 DEF IInv, NewInv, RefInv, RefOk, Asked, Failed
  <1>4. /\ SameHand /\ thread'.at \in Places /\ thread'.held \in Nat
        /\ thread'.number = thread.number
        /\ thread'.at \in {"none", "exited"} => thread'.number = 0
    <2>1. CASE thread.at = "none"
      <3>1. thread.number = 0 /\ thread' = [NoThread EXCEPT !.at = "check", !.refs = 2]
        BY <1>1, <2>1 DEF create_thread, FlowInv, NumberInv
      <3>2. QED
        BY <2>1, <3>1 DEF NoThread, SameHand, Places, Stop
    <2>2. CASE thread.at # "none"
      BY <1>1, <2>2 DEF create_thread, SameHand, FlowInv, BoundInv, NumberInv
    <2>3. QED
      BY <2>1, <2>2
  <1>5. PipeSize \in Nat
    BY LoggerAssumption DEF LoggerAssumption
  <1>6. \A k \in Loggers : logger'[k].queue = logger[k].queue /\ logger'[k].pipe <= PipeSize
    BY <1>2, <1>3, <1>5, SMT DEF FlowInv, BoundInv
  <1>7. \A k \in Loggers : (Failed(k) => Failed(k)') /\ (Asked(k) => Asked(k)')
    BY <1>1, <1>2, <1>3 DEF Failed, Asked
  <1>8. QED
    BY <1>1, <1>4, <1>6, <1>7, QuietFlow

LEMMA PrewriteFlow ==
    ASSUME IInv, RefInv, FlowInv, NEW l \in Loggers, Prewrite(l) \/ PrewriteFails(l)
    PROVE  FlowInv'
  <1>1. l \in thread.batch /\ thread.at = "batch" /\ Shape
    BY DEF Prewrite, PrewriteFails, IInv
  <1>2. logger[l].registered = TRUE /\ logger[l].fd = TRUE /\ logger[l].refs \in Int
    BY <1>1, RefTypes, SMT DEF RefInv, RefOk
  <1>3. /\ Others(l) /\ Same(l) /\ logger'[l].pipe = logger[l].pipe
        /\ thread'.at \in {"pop", "batch"} /\ thread'.number = thread.number
        /\ thread'.held = thread.held
        /\ UNCHANGED <<pc, on, msg, calls, accepted, written>>
    <2>1. CASE Prewrite(l)
      BY <1>1, <1>2, <2>1, PrewriteEffect
    <2>2. CASE PrewriteFails(l)
      BY <1>1, <1>2, <2>2, PrewriteFailsEffect
    <2>3. QED
      BY <2>1, <2>2
  <1>4. /\ SameHand /\ thread'.at \in Places /\ thread'.held \in Nat
        /\ thread'.at \notin {"none", "exited"}
    BY <1>1, <1>3 DEF SameHand, Places, FlowInv, BoundInv
  <1>5. \A k \in Loggers : logger'[k].queue = logger[k].queue /\ logger'[k].pipe <= PipeSize
    BY <1>3 DEF Others, Same, FlowInv, BoundInv
  <1>6. \A k \in Loggers : (Failed(k) => Failed(k)') /\ (Asked(k) => Asked(k)')
    BY <1>2, <1>3 DEF Others, Same, Failed, Asked
  <1>7. QED
    BY <1>3, <1>4, <1>5, <1>6, QuietFlow

\* The message goes from the queue into the hands of the log thread.
LEMMA PopFlow ==
    ASSUME IInv, FlowInv, Pop
    PROVE  FlowInv'
  <1>1. PICK l \in Loggers : l = thread.cur
    BY DEF Pop, IInv, SignalInv
  <1>2. /\ Shape /\ logger' = [logger EXCEPT ![l].queue = Tail(@)] /\ PopWakes(l)
        /\ UNCHANGED <<on, msg, calls, accepted, written>> /\ thread.at = "pop"
        /\ thread' = [thread EXCEPT !.at = "write", !.held = Head(logger[l].queue)]
    BY <1>1 DEF IInv, Pop, fileVars
  <1>3. /\ thread'.cur = l /\ thread'.at = "write" /\ thread'.held = Head(logger[l].queue)
        /\ thread'.number = thread.number
    BY <1>1, <1>2 DEF Shape, ThreadFields
  <1>4. /\ Others(l) /\ logger'[l].queue = Tail(logger[l].queue)
        /\ logger'[l].pipe = logger[l].pipe /\ logger'[l].created = logger[l].created
        /\ logger'[l].destroying = logger[l].destroying /\ logger'[l].fd = logger[l].fd
    BY <1>2 DEF Shape, LoggerFields, Others
  <1>5. logger[l].queue \in Seq(Nat) /\ logger[l].queue # <<>>
    BY <1>1, <1>2, MessageThere DEF PopFindsMessage, Shape
  <1>6. \A b \in Actors : pc'[b] = pc[b] \/ (pc[b] = "parked" /\ pc'[b] = "woken")
    BY <1>2 DEF PopWakes, Shape, Parked
  <1>7. \A k \in Loggers : (Failed(k) => Failed(k)') /\ (Asked(k) => Asked(k)')
    BY <1>2, <1>4, <1>6, WriterFacts DEF Others, Failed, Asked
  <1>8. /\ Taken(l) = 0 /\ Taken(l)' = 1 /\ Held(l) = <<>> /\ Held(l)' = <<Head(logger[l].queue)>>
        /\ \A k \in Loggers \ {l} : Taken(k)' = Taken(k) /\ Held(k)' = Held(k)
    BY <1>2, <1>3 DEF Taken, Held
  <1>9. NumberInv'
    <2>1. Len(logger'[l].queue) + Taken(l)' = Len(logger[l].queue) + Taken(l)
      <3>1. Len(Tail(logger[l].queue)) + 1 = Len(logger[l].queue) /\ Len(logger[l].queue) \in Nat
        BY <1>5, SMT
      <3>2. QED
        BY <1>4, <1>8, <3>1, SMT
    <2>2. Loads' = Loads
      BY <1>4, <1>8, <2>1 DEF Loads, Others
    <2>3. Pairs(Loads)' = Pairs(Loads)
      BY <2>2 DEF Pairs
    <2>4. QED
      BY <1>3, <2>3 DEF FlowInv, NumberInv
  <1>10. StreamInv'
    <2>1. written[l] \in Seq(Nat)
      BY SMT DEF FlowInv, StreamInv
    <2>2. Stream(l)' = Stream(l)
      BY <1>2, <1>4, <1>5, <1>8, <2>1, PopSeq, ZenonT(30) DEF Stream
    <2>3. ASSUME NEW k \in Loggers PROVE FlowOk(k)'
      <3>1. Stream(k)' = Stream(k)
        BY <1>2, <1>4, <1>8, <2>2 DEF Stream, Others
      <3>2. FlowOk(k)
        BY DEF FlowInv, StreamInv
      <3>3. QED
        BY <1>2, <1>7, <3>1, <3>2 DEF FlowOk
    <2>4. QED
      BY <1>2, <2>3 DEF FlowInv, StreamInv
  <1>11. BoundInv'
    <2>1. logger[l].queue \in Seq(0..MaxLogs)
      BY DEF FlowInv, BoundInv
    <2>2. Tail(logger[l].queue) \in Seq(0..MaxLogs) /\ Head(logger[l].queue) \in Nat
      <3>1. /\ Tail(logger[l].queue) \in Seq(0..MaxLogs)
            /\ Head(logger[l].queue) \in 0..MaxLogs
        BY <1>5, <2>1, HeadTail
      <3>2. QED
        BY <3>1, SMT
    <2>3. \A k \in Loggers : logger'[k].queue \in Seq(0..MaxLogs) /\ logger'[k].pipe <= PipeSize
      BY <1>4, <2>2 DEF Others, FlowInv, BoundInv
    <2>4. \A a \in Actors : pc'[a] \in {"parked", "woken"} => (msg'[a] = Stop <=> a = Owner)
      BY <1>2, <1>6 DEF FlowInv, BoundInv
    <2>5. QED
      BY <1>2, <1>3, <2>2, <2>3, <2>4 DEF FlowInv, BoundInv, Places
  <1>12. QED
    BY <1>9, <1>10, <1>11 DEF FlowInv

\* What the end of single_write leaves of the step: the message is written, or lost with
\* the file, or was the one of destroy().
Wrote(l) ==
    /\ Others(l) /\ Same(l) /\ logger'[l].pipe = logger[l].pipe - 1
    /\ thread.at = "write" /\ thread.cur = l
    /\ thread'.at = "batch" /\ thread'.number = thread.number - 1 /\ thread'.held = Stop
    /\ UNCHANGED <<pc, on, msg, calls, accepted>>
    /\ \/ thread.held # Stop /\ written' = [written EXCEPT ![l] = Append(@, thread.held)]
       \/ thread.held # Stop /\ written' = written /\ logger'[l].fd = FALSE
       \/ thread.held = Stop /\ written' = written

LEMMA WriteHands ==
    ASSUME NEW l \in Loggers, Wrote(l)
    PROVE  /\ Taken(l) = 1 /\ Taken(l)' = 0 /\ Held(l) = <<thread.held>> /\ Held(l)' = <<>>
           /\ \A k \in Loggers \ {l} : /\ Taken(k) = 0 /\ Taken(k)' = 0
                                       /\ Held(k) = <<>> /\ Held(k)' = <<>>
  BY DEF Wrote, Taken, Held

\* The log thread counts the message out.
LEMMA WriteNumber ==
    ASSUME FiniteSetFacts, Shape, Shape', NumberInv, NEW l \in Loggers, Wrote(l)
    PROVE  NumberInv'
  <1>1. /\ Others(l) /\ Same(l) /\ thread'.at = "batch" /\ thread'.number = thread.number - 1
    BY DEF Wrote
  <1>2. Loads \in [Loggers -> 0..(QueueSize + 1)] /\ Loads' \in [Loggers -> 0..(QueueSize + 1)]
    BY LoadsType, LoadsNext DEF LoadsOk
  <1>3. Len(logger[l].queue) \in Nat /\ logger'[l].queue = logger[l].queue
    BY <1>1, SMT DEF Shape, Same
  <1>4. Loads[l] = Loads'[l] + 1 /\ \A k \in Loggers \ {l} : Loads[k] = Loads'[k]
    <2>1. Loads[l] = Len(logger[l].queue) + Taken(l)
      BY DEF Loads
    <2>2. Loads'[l] = Len(logger[l].queue) + Taken(l)'
      BY <1>3 DEF Loads
    <2>3. \A k \in Loggers \ {l} : Loads[k] = Loads'[k]
      BY <1>1, WriteHands DEF Loads, Others
    <2>4. QED
      BY <1>3, <2>1, <2>2, <2>3, WriteHands, SMT
  <1>5. PICK g : g = Loads'
    OBVIOUS
  <1>6. Pairs(Loads)' = Pairs(g)
    BY <1>5 DEF Pairs
  <1>7. Cardinality(Pairs(Loads)) = Cardinality(Pairs(g)) + 1 /\ Cardinality(Pairs(g)) \in Nat
    BY <1>2, <1>4, <1>5, PairsUp, PairsFinite
  <1>8. thread'.number = Cardinality(Pairs(g))
    BY <1>1, <1>7, SMT DEF NumberInv
  <1>9. QED
    BY <1>1, <1>6, <1>8 DEF NumberInv

\* The stream of the message's logger is as before, or has lost the message of destroy(),
\* which was its last.
LEMMA WriteStream ==
    ASSUME Shape, StreamInv, thread.held \in Nat, NEW l \in Loggers, Wrote(l),
           logger[l].created, logger[l].fd = TRUE
    PROVE  FlowOk(l)'
  <1>1. /\ written[l] \in Seq(Nat) /\ accepted[l] \in Seq(Nat \ {0})
        /\ logger[l].queue \in Seq(Nat)
    BY SMT DEF StreamInv, Shape, Stop
  <1>2. FlowOk(l) /\ ~Failed(l)
    BY DEF StreamInv, Failed
  <1>3. /\ Stream(l) = (written[l] \o <<thread.held>>) \o logger[l].queue
        /\ Stream(l)' = (written'[l] \o <<>>) \o logger[l].queue /\ accepted' = accepted
    BY WriteHands DEF Stream, Same, Wrote
  <1>4. CASE thread.held # Stop /\ written' = [written EXCEPT ![l] = Append(@, thread.held)]
    <2>1. written'[l] = Append(written[l], thread.held)
      BY <1>4 DEF StreamInv
    <2>2. (Append(written[l], thread.held) \o <<>>) \o logger[l].queue
            = (written[l] \o <<thread.held>>) \o logger[l].queue
      BY <1>1, WriteSeq, ZenonT(30)
    <2>3. Stream(l)' = Stream(l)
      BY <1>3, <2>1, <2>2
    <2>4. Asked(l) => Asked(l)'
      BY DEF Wrote, Same, Asked
    <2>5. QED
      BY <1>2, <1>3, <2>3, <2>4 DEF FlowOk
  <1>5. CASE logger'[l].fd = FALSE
    BY <1>5 DEF FlowOk, Failed, Same, Wrote
  <1>6. CASE thread.held = Stop /\ written' = written
    <2>1. Stream(l) = (written[l] \o << 0 >>) \o logger[l].queue
      BY <1>3, <1>6 DEF Stop
    <2>2. Stream(l) # accepted[l]
      BY <1>1, <2>1, StopSeq
    <2>3. Stream(l) = Append(accepted[l], 0)
      BY <1>2, <2>2 DEF FlowOk, Stop
    <2>4. (written[l] \o <<>>) \o logger[l].queue = accepted[l]
      BY <1>1, <2>1, <2>3, LastSeq, ZenonT(30)
    <2>5. Stream(l)' = accepted'[l]
      BY <1>3, <1>6, <2>4
    <2>6. QED
      BY <2>5 DEF FlowOk
  <1>7. QED
    BY <1>4, <1>5, <1>6 DEF Wrote

LEMMA WrittenNext ==
    ASSUME StreamInv, thread.held \in Nat, NEW l \in Loggers, Wrote(l)
    PROVE  /\ written' \in [Loggers -> Seq(Nat \ {Stop})]
           /\ \A k \in Loggers \ {l} : written'[k] = written[k]
  <1>1. CASE thread.held # Stop /\ written' = [written EXCEPT ![l] = Append(@, thread.held)]
    <2>1. written[l] \in Seq(Nat \ {Stop}) /\ thread.held \in Nat \ {Stop}
      BY <1>1 DEF StreamInv
    <2>2. Append(written[l], thread.held) \in Seq(Nat \ {Stop})
      BY <2>1, SMT
    <2>3. QED
      BY <1>1, <2>2 DEF StreamInv
  <1>2. CASE written' = written
    BY <1>2 DEF StreamInv
  <1>3. QED
    BY <1>1, <1>2 DEF Wrote

\* The streams of the other loggers are as before.
LEMMA OtherStream ==
    ASSUME StreamInv, NEW l \in Loggers, Wrote(l), NEW k \in Loggers \ {l}, written'[k] = written[k]
    PROVE  FlowOk(k)'
  <1>1. logger'[k] = logger[k] /\ accepted' = accepted /\ pc' = pc /\ on' = on
    BY DEF Wrote, Others
  <1>2. Stream(k)' = Stream(k)
    BY <1>1, WriteHands DEF Stream
  <1>3. (Failed(k) => Failed(k)') /\ (Asked(k) => Asked(k)')
    BY <1>1 DEF Failed, Asked
  <1>4. FlowOk(k)
    BY DEF StreamInv
  <1>5. QED
    BY <1>1, <1>2, <1>3, <1>4 DEF FlowOk

LEMMA WriteBound ==
    ASSUME Shape, BoundInv, NEW l \in Loggers, Wrote(l)
    PROVE  BoundInv'
  <1>1. logger[l].pipe \in Nat /\ logger[l].pipe <= PipeSize /\ PipeSize \in Nat
    BY LoggerAssumption DEF Shape, BoundInv, LoggerAssumption
  <1>2. logger'[l].pipe = logger[l].pipe - 1 /\ logger'[l].queue = logger[l].queue
    BY DEF Wrote, Same
  <1>3. logger'[l].pipe <= PipeSize
    BY <1>1, <1>2, SMT
  <1>4. \A k \in Loggers \ {l} : logger'[k] = logger[k]
    BY DEF Wrote, Others
  <1>5. \A k \in Loggers : logger'[k].queue \in Seq(0..MaxLogs) /\ logger'[k].pipe <= PipeSize
    BY <1>2, <1>3, <1>4 DEF BoundInv
  <1>6. thread'.held \in Nat /\ thread'.at \in Places
    BY SMT DEF Wrote, Stop, Places
  <1>7. UNCHANGED <<pc, msg, calls>>
    BY DEF Wrote
  <1>8. QED
    BY <1>5, <1>6, <1>7 DEF BoundInv

LEMMA WriteFlow ==
    ASSUME FiniteSetFacts, IInv, RefInv, FlowInv, Write \/ WriteFails \/ TakeOut
    PROVE  FlowInv'
  <1>1. thread.at = "write" /\ Shape /\ Shape'
    BY WriteKeeps DEF Write, WriteFails, TakeOut, IInv
  <1>2. PICK l \in Loggers : l = thread.cur
    BY <1>1 DEF IInv, SignalInv
  <1>3. /\ logger[l].registered = TRUE /\ logger[l].created /\ logger[l].fd = TRUE
        /\ logger[l].refs \in Int
    BY <1>2, RefTypes, SMT DEF RefInv, RefOk
  <1>4. Wrote(l)
    <2>1. Nobody \notin Loggers
      BY LoggerAssumption DEF LoggerAssumption
    <2>2. /\ Others(l) /\ Same(l) /\ logger'[l].pipe = logger[l].pipe - 1
          /\ thread'.at = "batch" /\ thread'.number = thread.number - 1 /\ thread'.held = Stop
          /\ UNCHANGED <<pc, on, msg, calls, accepted>>
          /\ \/ thread.held # Stop /\ written' = [written EXCEPT ![l] = Append(@, thread.held)]
             \/ thread.held # Stop /\ written' = written /\ logger'[l].fd = FALSE
             \/ thread.held = Stop /\ written' = written
      BY <1>1, <1>2, <1>3, <2>1, WriteEffect
    <2>3. QED
      BY <1>1, <1>2, <2>2 DEF Wrote
  <1>5. NumberInv /\ StreamInv /\ BoundInv /\ thread.held \in Nat
    BY DEF FlowInv, BoundInv
  <1>6. NumberInv'
    BY <1>1, <1>4, <1>5, WriteNumber
  <1>7. StreamInv'
    <2>1. FlowOk(l)'
      BY <1>1, <1>3, <1>4, <1>5, WriteStream
    <2>2. written' \in [Loggers -> Seq(Nat \ {Stop})] /\ \A k \in Loggers \ {l} : written'[k] = written[k]
      BY <1>4, <1>5, WrittenNext
    <2>3. ASSUME NEW k \in Loggers \ {l} PROVE FlowOk(k)'
      BY <1>4, <1>5, <2>2, OtherStream
    <2>4. QED
      BY <1>4, <1>5, <2>1, <2>2, <2>3 DEF StreamInv, Wrote
  <1>8. BoundInv'
    BY <1>1, <1>4, <1>5, WriteBound
  <1>9. QED
    BY <1>6, <1>7, <1>8 DEF FlowInv

LEMMA AppendBehind ==
    ASSUME NEW s \in Seq(Nat), NEW t \in Seq(Nat), NEW q \in Seq(Nat), NEW x \in Nat
    PROVE  (s \o t) \o Append(q, x) = Append((s \o t) \o q, x)
  BY SMT

\* What push_log_message leaves of the step for these invariants: the actor waits, or it
\* has queued its message.
Pushed(a, l, m) ==
    /\ Others(l) /\ written' = written
    /\ logger'[l].created = logger[l].created
    /\ a = Owner => logger'[l].destroying = TRUE
    /\ a # Owner => logger'[l].destroying = logger[l].destroying
    /\ logger'[l].fd = logger[l].fd /\ logger'[l].pipe = logger[l].pipe
    /\ thread'.at = thread.at /\ thread'.cur = thread.cur /\ thread'.held = thread.held
    /\ thread.at \notin {"none", "exited"} /\ on'[a] = l /\ msg' = [msg EXCEPT ![a] = m]
    /\ \A b \in Actors \ {a} : pc'[b] = pc[b] /\ on'[b] = on[b]
    /\ \/ /\ pc'[a] = "parked" /\ logger'[l].queue = logger[l].queue
          /\ thread'.number = thread.number /\ accepted' = accepted
       \/ /\ pc'[a] = "signal" /\ logger'[l].queue = Append(logger[l].queue, m)
          /\ thread'.number = thread.number + 1
          /\ accepted' = [accepted EXCEPT ![l] = IF m = Stop THEN @ ELSE Append(@, m)]

\* The number of messages grows with the queue.
LEMMA PushNumber ==
    ASSUME FiniteSetFacts, Shape, Shape', NumberInv, NEW a \in Actors, NEW l \in Loggers,
           NEW m \in 0..MaxLogs, Pushed(a, l, m)
    PROVE  NumberInv'
  <1>1. \A k \in Loggers : Taken(k)' = Taken(k)
    BY HandKept DEF Pushed, SameHand
  <1>2. \A k \in Loggers \ {l} : logger'[k] = logger[k]
    BY DEF Pushed, Others
  <1>3. thread'.at \notin {"none", "exited"}
    BY DEF Pushed
  <1>4. CASE logger'[l].queue = logger[l].queue /\ thread'.number = thread.number
    <2>1. Loads' = Loads
      BY <1>1, <1>2, <1>4 DEF Loads
    <2>2. Pairs(Loads)' = Pairs(Loads)
      BY <2>1 DEF Pairs
    <2>3. QED
      BY <1>3, <1>4, <2>2 DEF NumberInv
  <1>5. CASE logger'[l].queue = Append(logger[l].queue, m) /\ thread'.number = thread.number + 1
    <2>1. Loads \in [Loggers -> 0..(QueueSize + 1)] /\ Loads' \in [Loggers -> 0..(QueueSize + 1)]
      BY LoadsType, LoadsNext DEF LoadsOk
    <2>2. /\ Len(logger'[l].queue) = Len(logger[l].queue) + 1
          /\ Len(logger[l].queue) \in Nat /\ Taken(l) \in Nat
      BY <1>5, SMT DEF Shape, Taken
    <2>3. Loads'[l] = Loads[l] + 1 /\ \A k \in Loggers \ {l} : Loads'[k] = Loads[k]
      <3>1. Loads[l] = Len(logger[l].queue) + Taken(l)
        BY DEF Loads
      <3>2. Loads'[l] = Len(logger'[l].queue) + Taken(l)
        BY <1>1 DEF Loads
      <3>3. \A k \in Loggers \ {l} : Loads'[k] = Loads[k]
        BY <1>1, <1>2 DEF Loads
      <3>4. QED
        BY <2>2, <3>1, <3>2, <3>3, SMTT(30)
    <2>4. PICK g : g = Loads'
      OBVIOUS
    <2>5. Pairs(Loads)' = Pairs(g)
      BY <2>4 DEF Pairs
    <2>6. Cardinality(Pairs(g)) = Cardinality(Pairs(Loads)) + 1
      BY <2>1, <2>3, <2>4, PairsUp
    <2>7. thread'.number = Cardinality(Pairs(g))
      BY <1>5, <2>6 DEF NumberInv
    <2>8. QED
      BY <1>3, <2>5, <2>7 DEF NumberInv
  <1>6. QED
    BY <1>4, <1>5 DEF Pushed

\* What is queued goes to the end of the stream.
LEMMA PushStream ==
    ASSUME Shape, StreamInv, thread.held \in Nat, NEW a \in Actors, NEW l \in Loggers,
           NEW m \in 0..MaxLogs, m = Stop <=> a = Owner, ~Asked(l), Pushed(a, l, m)
    PROVE  StreamInv'
  <1>1. \A k \in Loggers : Held(k)' = Held(k)
    BY HandKept DEF Pushed, SameHand
  <1>2. \A k \in Loggers : Failed(k) => Failed(k)'
    BY DEF Pushed, Failed, Others
  <1>3. \A k \in Loggers : Asked(k) => Asked(k)'
    <2>1. CASE a = Owner
      BY <2>1 DEF Pushed, Asked, Others
    <2>2. CASE a # Owner
      BY <2>2, WriterFacts DEF Pushed, Asked, Others
    <2>3. QED
      BY <2>1, <2>2
  <1>4. /\ written[l] \in Seq(Nat) /\ accepted[l] \in Seq(Nat \ {Stop}) /\ Held(l) \in Seq(Nat)
        /\ logger[l].queue \in Seq(Nat) /\ m \in Nat
    BY SMT DEF Shape, StreamInv, Held
  <1>5. \/ accepted' = accepted
        \/ accepted' = [accepted EXCEPT ![l] = IF m = Stop THEN @ ELSE Append(@, m)]
    BY DEF Pushed
  <1>6. /\ accepted' \in [Loggers -> Seq(Nat \ {Stop})]
        /\ \A k \in Loggers \ {l} : accepted'[k] = accepted[k]
    <2>1. (IF m = Stop THEN accepted[l] ELSE Append(accepted[l], m)) \in Seq(Nat \ {Stop})
      BY <1>4, SMTT(30)
    <2>2. CASE accepted' = accepted
      BY <2>2 DEF StreamInv
    <2>3. CASE accepted' = [accepted EXCEPT ![l] = IF m = Stop THEN @ ELSE Append(@, m)]
      BY <2>1, <2>3 DEF StreamInv
    <2>4. QED
      BY <1>5, <2>2, <2>3
  <1>7. FlowOk(l)'
    <2>1. FlowOk(l)
      BY DEF StreamInv
    <2>2. CASE Failed(l)
      BY <1>2, <2>2 DEF FlowOk
    <2>3. CASE ~Failed(l)
      <3>1. Stream(l) = accepted[l]
        BY <2>1, <2>3 DEF FlowOk
      <3>2. CASE logger'[l].queue = logger[l].queue /\ accepted' = accepted
        <4>1. Stream(l)' = Stream(l)
          BY <1>1, <3>2 DEF Stream, Pushed
        <4>2. QED
          BY <3>1, <3>2, <4>1 DEF FlowOk
      <3>3. CASE /\ pc'[a] = "signal" /\ logger'[l].queue = Append(logger[l].queue, m)
                 /\ accepted' = [accepted EXCEPT ![l] = IF m = Stop THEN @ ELSE Append(@, m)]
        <4>1. Stream(l)' = Append(Stream(l), m)
          <5>1. Stream(l)' = (written[l] \o Held(l)) \o Append(logger[l].queue, m)
            BY <1>1, <3>3 DEF Stream, Pushed
          <5>2. QED
            BY <1>4, <5>1, AppendBehind, ZenonT(30) DEF Stream
        <4>2. accepted'[l] = IF m = Stop THEN accepted[l] ELSE Append(accepted[l], m)
          BY <3>3 DEF StreamInv
        <4>3. CASE a = Owner
          <5>1. Asked(l)'
            BY <3>3, <4>3 DEF Asked, Pushed
          <5>2. Stream(l)' = Append(accepted'[l], Stop)
            BY <3>1, <4>1, <4>2, <4>3
          <5>3. QED
            BY <5>1, <5>2 DEF FlowOk
        <4>4. CASE a # Owner
          BY <3>1, <4>1, <4>2, <4>4 DEF FlowOk
        <4>5. QED
          BY <4>3, <4>4
      <3>4. QED
        BY <3>2, <3>3 DEF Pushed
    <2>4. QED
      BY <2>2, <2>3
  <1>8. ASSUME NEW k \in Loggers \ {l} PROVE FlowOk(k)'
    <2>1. Stream(k)' = Stream(k)
      BY <1>1 DEF Stream, Pushed, Others
    <2>2. FlowOk(k)
      BY DEF StreamInv
    <2>3. QED
      BY <1>2, <1>3, <1>6, <2>1, <2>2 DEF FlowOk
  <1>9. written' \in [Loggers -> Seq(Nat \ {Stop})]
    BY DEF Pushed, StreamInv
  <1>10. QED
    BY <1>6, <1>7, <1>8, <1>9 DEF StreamInv

\* What is queued is a message of a call, or the empty one of destroy().
LEMMA PushBound ==
    ASSUME BoundInv, NEW a \in Actors, NEW l \in Loggers, NEW m \in 0..MaxLogs,
           m = Stop <=> a = Owner, calls' <= MaxLogs, Pushed(a, l, m)
    PROVE  BoundInv'
  <1>1. logger[l].queue \in Seq(0..MaxLogs)
    BY DEF BoundInv
  <1>2. Append(logger[l].queue, m) \in Seq(0..MaxLogs)
    BY <1>1, SMT
  <1>3. logger'[l].queue \in Seq(0..MaxLogs)
    BY <1>1, <1>2 DEF Pushed
  <1>4. \A k \in Loggers : logger'[k].queue \in Seq(0..MaxLogs) /\ logger'[k].pipe <= PipeSize
    <2>1. logger'[l].pipe <= PipeSize
      BY DEF BoundInv, Pushed
    <2>2. \A k \in Loggers \ {l} : logger'[k] = logger[k]
      BY DEF Pushed, Others
    <2>3. QED
      BY <1>3, <2>1, <2>2 DEF BoundInv
  <1>5. msg' = [msg EXCEPT ![a] = m] /\ msg \in [Actors -> 0..MaxLogs]
    BY DEF Pushed, BoundInv
  <1>6. msg' \in [Actors -> 0..MaxLogs]
    BY <1>5
  <1>7. \A b \in Actors : pc'[b] \in {"parked", "woken"} => (msg'[b] = Stop <=> b = Owner)
    <2>1. ASSUME NEW b \in Actors \ {a}, pc'[b] \in {"parked", "woken"}
          PROVE  msg'[b] = Stop <=> b = Owner
      <3>1. pc'[b] = pc[b] /\ msg'[b] = msg[b]
        BY <1>5 DEF Pushed
      <3>2. QED
        BY <2>1, <3>1 DEF BoundInv
    <2>2. msg'[a] = Stop <=> a = Owner
      BY <1>5
    <2>3. QED
      BY <2>1, <2>2, SMT
  <1>8. thread'.held \in Nat /\ thread'.at \in Places
    BY DEF Pushed, BoundInv
  <1>9. QED
    BY <1>4, <1>6, <1>7, <1>8 DEF BoundInv

\* push_log_message keeps the three.
LEMMA PushFlow ==
    ASSUME FiniteSetFacts, IInv, FlowInv, Shape', NEW a \in Actors, NEW l \in Loggers,
           NEW m \in 0..MaxLogs, NEW lg, NEW n, push_log_message(a, l, m, lg, n),
           DOMAIN lg = LoggerFields,
           lg.queue = logger[l].queue, lg.pipe = logger[l].pipe,
           lg.created = logger[l].created, lg.fd = logger[l].fd,
           a = Owner => lg.destroying = TRUE,
           a # Owner => lg.destroying = logger[l].destroying,
           m = Stop <=> a = Owner, ~Asked(l), thread.at # "exited",
           calls' <= MaxLogs, written' = written
    PROVE  FlowInv'
  <1>1. Shape
    BY DEF IInv
  <1>2. Pushed(a, l, m)
    <2>1. /\ Others(l)
          /\ logger'[l].created = logger[l].created /\ logger'[l].destroying = lg.destroying
          /\ logger'[l].fd = logger[l].fd /\ logger'[l].pipe = logger[l].pipe
          /\ thread'.at = thread.at /\ thread'.cur = thread.cur /\ thread'.held = thread.held
          /\ thread.at # "none" /\ on'[a] = l
          /\ \A b \in Actors \ {a} : pc'[b] = pc[b] /\ on'[b] = on[b]
          /\ \/ /\ pc'[a] = "parked" /\ logger'[l].queue = logger[l].queue
                /\ thread'.number = thread.number /\ accepted' = accepted
             \/ /\ pc'[a] = "signal" /\ logger'[l].queue = Append(logger[l].queue, m)
                /\ thread'.number = thread.number + 1
                /\ accepted' = [accepted EXCEPT ![l] = IF m = Stop THEN @ ELSE Append(@, m)]
      BY <1>1, PushEffect, SMT
    <2>2. msg' = [msg EXCEPT ![a] = m]
      BY DEF push_log_message
    <2>3. QED
      BY <2>1, <2>2 DEF Pushed
  <1>3. NumberInv /\ StreamInv /\ BoundInv /\ thread.held \in Nat
    BY DEF FlowInv, BoundInv
  <1>4. NumberInv'
    BY <1>1, <1>2, <1>3, PushNumber
  <1>5. StreamInv'
    BY <1>1, <1>2, <1>3, PushStream
  <1>6. BoundInv'
    BY <1>2, <1>3, PushBound
  <1>7. QED
    BY <1>4, <1>5, <1>6 DEF FlowInv

\* A log thread runs while an actor is in wait().
LEMMA WaiterServed ==
    ASSUME FiniteSetFacts, Careful, IInv, RefInv, NEW a \in Actors, pc[a] = "woken", NEW l \in Loggers, l = on[a]
    PROVE  thread.at # "exited" /\ ~Asked(l)
  <1>1. CASE a = Owner
    BY <1>1 DEF IInv, ServeInv, Asked
  <1>2. CASE a # Owner
    <2>1. a \in Writers /\ ~logger[l].destroying
      BY <1>2 DEF RefInv, CareOk, Actors
    <2>2. logger[l].created
      <3>1. a \in Parked(l) \cup Woken(l) /\ IsFiniteSet(Parked(l) \cup Woken(l))
        BY WaitersAreActors, ActorsFinite DEF Woken
      <3>2. logger[l].waiters # 0
        BY <3>1, EmptySet DEF IInv, WaitInv
      <3>3. QED
        BY <3>2 DEF IInv, NewInv
    <2>3. QED
      BY <2>1, <2>2 DEF IInv, ServeInv, InUse, Asked
  <1>3. QED
    BY <1>1, <1>2

LEMMA LogFlow ==
    ASSUME FiniteSetFacts, Careful, IInv, FlowInv, NEW w \in Writers, NEW l \in Loggers, Log(w, l)
    PROVE  FlowInv'
  <1>1. /\ InUse(l) /\ push_log_message(w, l, calls + 1, logger[l], logger[l].waiters)
        /\ w \in Actors /\ w # Owner /\ DOMAIN logger[l] = LoggerFields
        /\ calls < MaxLogs /\ calls' = calls + 1 /\ calls \in Nat /\ written' = written
    BY WriterFacts DEF Log, IInv, Shape, InUse, fileVars
  <1>2. MaxLogs \in Nat
    BY LoggerAssumption DEF LoggerAssumption
  <1>3. calls + 1 \in 0..MaxLogs /\ calls' <= MaxLogs /\ calls + 1 # Stop
    BY <1>1, <1>2, SMT DEF Stop
  <1>4. thread.at # "exited" /\ ~Asked(l)
    BY <1>1 DEF IInv, ServeInv, InUse, Asked
  <1>5. Shape'
    BY LogKeeps DEF IInv
  <1>6. QED
    BY <1>1, <1>3, <1>4, <1>5, PushFlow

LEMMA WaitReturnsFlow ==
    ASSUME FiniteSetFacts, Careful, IInv, RefInv, FlowInv, NEW a \in Actors, WaitReturns(a)
    PROVE  FlowInv'
  <1>1. PICK l \in Loggers : l = on[a]
    BY DEF WaitReturns, IInv, CallInv
  <1>2. /\ pc[a] = "woken" /\ DOMAIN logger[l] = LoggerFields /\ written' = written
        /\ push_log_message(a, l, msg[a], logger[l], logger[l].waiters - 1)
        /\ calls' = calls
    BY <1>1 DEF WaitReturns, IInv, Shape, fileVars
  <1>3. msg[a] \in 0..MaxLogs /\ (msg[a] = Stop <=> a = Owner) /\ calls' <= MaxLogs
    BY <1>2 DEF FlowInv, BoundInv
  <1>4. thread.at # "exited" /\ ~Asked(l)
    BY <1>1, <1>2, WaiterServed
  <1>5. a = Owner => logger[l].destroying = TRUE
    <2>1. (OwnerIn(l) => logger[l].destroying) /\ logger[l].destroying \in BOOLEAN
      BY DEF RefInv, RefOk, IInv, Shape
    <2>2. QED
      BY <1>1, <1>2, <2>1 DEF OwnerIn
  <1>6. Shape'
    BY WaitReturnsKeeps DEF IInv
  <1>7. QED
    BY <1>2, <1>3, <1>4, <1>5, <1>6, PushFlow

LEMMA DestroyFlow ==
    ASSUME FiniteSetFacts, IInv, FlowInv, NEW l \in Loggers, Destroy(l)
    PROVE  FlowInv'
  <1> DEFINE lg == [logger[l] EXCEPT !.destroying = TRUE]
  <1>1. /\ pc[Owner] = "idle" /\ ~logger[l].destroying /\ written' = written /\ calls' = calls
        /\ push_log_message(Owner, l, Stop, lg, logger[l].waiters)
        /\ DOMAIN logger[l] = LoggerFields
    BY DEF Destroy, IInv, Shape, fileVars
  <1>2. /\ DOMAIN lg = LoggerFields /\ lg.destroying = TRUE /\ lg.created = logger[l].created
        /\ lg.fd = logger[l].fd /\ lg.pipe = logger[l].pipe /\ lg.queue = logger[l].queue
    BY <1>1 DEF LoggerFields
  <1> HIDE DEF lg
  <1>3. Owner \in Actors /\ thread.at # "exited" /\ ~Asked(l)
    BY <1>1, WriterFacts DEF IInv, ServeInv, Asked
  <1>4. Stop \in 0..MaxLogs /\ calls' <= MaxLogs
    BY <1>1, LoggerAssumption, SMT DEF Stop, LoggerAssumption, FlowInv, BoundInv
  <1>5. Shape'
    BY DestroyKeeps DEF IInv
  <1>6. PICK x, n, m : push_log_message(Owner, l, m, x, n) /\ x = lg /\ m = Stop
    BY <1>1
  <1>7. QED
    BY <1>1, <1>2, <1>3, <1>4, <1>5, <1>6, PushFlow

LEMMA InitFlow ==
    ASSUME FiniteSetFacts
    PROVE  Init => FlowInv
  <1> SUFFICES ASSUME Init PROVE FlowInv
    OBVIOUS
  <1>1. /\ thread = NoThread /\ thread.at = "none" /\ thread.number = 0 /\ thread.held = Stop
    BY DEF Init, NoThread
  <1>2. \A l \in Loggers : /\ logger[l].queue = <<>> /\ logger[l].pipe = 0
                           /\ written[l] = <<>> /\ accepted[l] = <<>>
    BY DEF Init, NewLogger
  <1>3. \A l \in Loggers : Taken(l) = 0 /\ Held(l) = <<>>
    BY <1>1 DEF Taken, Held
  <1>4. NumberInv
    <2>1. \A l \in Loggers : Loads[l] = 0
      BY <1>2, <1>3, SMT DEF Loads
    <2>2. Pairs(Loads) = {}
      <3>1. QueueSize \in Nat
        BY ConstantFacts
      <3>2. QED
        BY <2>1, <3>1, SMT DEF Pairs
    <2>3. QED
      BY <1>1, <2>2, EmptySet DEF NumberInv
  <1>5. StreamInv
    <2>1. \A l \in Loggers : Stream(l) = accepted[l]
      <3>1. (<<>> \o <<>>) \o <<>> = <<>>
        <4>1. <<>> \in Seq(Nat)
          BY SMT
        <4>2. QED
          BY <4>1, NothingBehind
      <3>2. QED
        BY <1>2, <1>3, <3>1 DEF Stream
    <2>2. <<>> \in Seq(Nat \ {Stop})
      BY SMT
    <2>3. QED
      <3>1. accepted \in [Loggers -> Seq(Nat \ {Stop})] /\ written \in [Loggers -> Seq(Nat \ {Stop})]
        BY <2>2 DEF Init
      <3>2. \A l \in Loggers : FlowOk(l)
        BY <2>1 DEF FlowOk
      <3>3. QED
        BY <3>1, <3>2 DEF StreamInv
  <1>6. BoundInv
    <2>1. MaxLogs \in Nat /\ PipeSize \in Nat /\ <<>> \in Seq(0..MaxLogs)
      BY LoggerAssumption, SMT DEF LoggerAssumption
    <2>2. thread.held \in Nat /\ thread.at \in Places
      BY <1>1, SMT DEF Stop, Places
    <2>3. calls <= MaxLogs /\ msg \in [Actors -> 0..MaxLogs]
      BY <2>1, SMT DEF Init, Stop
    <2>4. \A a \in Actors : pc[a] = "idle"
      BY DEF Init
    <2>5. \A l \in Loggers : logger[l].queue \in Seq(0..MaxLogs) /\ logger[l].pipe <= PipeSize
      <3>1. 0 <= PipeSize
        BY <2>1, SMT
      <3>2. QED
        BY <1>2, <2>1, <3>1
    <2>6. QED
      BY <2>2, <2>3, <2>4, <2>5 DEF BoundInv
  <1>7. QED
    BY <1>4, <1>5, <1>6 DEF FlowInv

LEMMA StepFlow ==
    ASSUME FiniteSetFacts, Careful, IInv, RefInv, FlowInv, [Next]_vars
    PROVE  FlowInv'
  <1>1. ASSUME NEW w \in Writers, NEW l \in Loggers, Log(w, l)
        PROVE  FlowInv'
    BY <1>1, LogFlow
  <1>2. ASSUME NEW a \in Actors, WaitReturns(a)
        PROVE  FlowInv'
    BY <1>2, WaitReturnsFlow
  <1>3. ASSUME NEW a \in Actors, SendSignal(a) \/ SpuriousWakeup(a)
        PROVE  FlowInv'
    BY <1>3, SendSignalFlow
  <1>4. ASSUME NEW l \in Loggers, Create(l)
        PROVE  FlowInv'
    BY <1>4, CreateFlow
  <1>5. ASSUME NEW l \in Loggers, Destroy(l)
        PROVE  FlowInv'
    BY <1>5, DestroyFlow
  <1>6. ASSUME NEW l \in Loggers, Unlink(l)
        PROVE  FlowInv'
    BY <1>6, UnchangedFlow DEF Unlink, actorVars
  <1>7. CASE OwnerStep
    BY <1>7, OwnerFlow
  <1>8. CASE Check \/ EpollWait \/ EndOfBatch \/ ReadOwnSignal
    BY <1>8, ThreadMoveFlow
  <1>9. ASSUME NEW l \in Loggers, Prewrite(l) \/ PrewriteFails(l)
        PROVE  FlowInv'
    BY <1>9, PrewriteFlow
  <1>10. CASE Pop
    BY <1>10, PopFlow
  <1>11. CASE Write \/ WriteFails \/ TakeOut
    BY <1>11, WriteFlow
  <1>12. CASE UNCHANGED vars
    BY <1>12, UnchangedFlow DEF vars
  <1>13. QED
    BY <1>1, <1>2, <1>3, <1>4, <1>5, <1>6, <1>7, <1>8, <1>9, <1>10, <1>11, <1>12
       DEF Next, ThreadStep

\* With no message left, what was written is what was accepted.
LEMMA ExitDrained ==
    ASSUME FiniteSetFacts, Careful
    PROVE  IInv /\ FlowInv => DrainedAtExit
  <1> SUFFICES ASSUME IInv, FlowInv, thread.at = "exited", NEW l \in Loggers, ~Failed(l)
               PROVE  written[l] = accepted[l]
    BY DEF DrainedAtExit
  <1>1. Shape /\ Cardinality(Pairs(Loads)) = 0
    BY DEF IInv, FlowInv, NumberInv
  <1>2. Loads[l] = 0
    BY <1>1, LoadsType, PairsNone DEF LoadsOk
  <1>3. Taken(l) = 0 /\ Held(l) = <<>>
    BY DEF Taken, Held
  <1>4. logger[l].queue = <<>>
    <2>1. logger[l].queue \in Seq(Nat) /\ Len(logger[l].queue) \in Nat
      BY <1>1, SMT DEF Shape
    <2>2. Len(logger[l].queue) = 0
      BY <1>2, <1>3, <2>1, SMT DEF Loads
    <2>3. QED
      BY <2>1, <2>2, SMT
  <1>5. /\ written[l] \in Seq(Nat \ {Stop}) /\ accepted[l] \in Seq(Nat \ {Stop})
        /\ FlowOk(l)
    BY DEF FlowInv, StreamInv
  <1>6. Stream(l) = written[l]
    BY <1>3, <1>4, <1>5, SMT DEF Stream
  <1>7. written[l] # Append(accepted[l], Stop)
    <2> DEFINE w == written[l]
               t == accepted[l]
    <2>1. w \in Seq(Nat \ {Stop}) /\ t \in Seq(Nat \ {Stop})
      BY <1>5
    <2> HIDE DEF w, t
    <2>2. Append(t, Stop)[Len(t) + 1] = Stop /\ Len(t) + 1 \in DOMAIN Append(t, Stop)
      BY <2>1, SMT
    <2>3. \A i \in DOMAIN w : w[i] # Stop
      BY <2>1, SMT
    <2>4. w # Append(t, Stop)
      BY <2>2, <2>3
    <2>5. QED
      BY <2>4 DEF w, t
  <1>8. QED
    BY <1>5, <1>6, <1>7 DEF FlowOk

\* The three invariants give the types.
LEMMA InvTypes ==
    ASSUME FiniteSetFacts, Careful
    PROVE  IInv /\ RefInv /\ FlowInv => TypeOK
  <1> SUFFICES ASSUME IInv, RefInv, FlowInv PROVE TypeOK
    OBVIOUS
  <1>1. Messages \cup {Stop} = 0..MaxLogs
    BY LoggerAssumption, SMT DEF Messages, Stop, LoggerAssumption
  <1>2. ASSUME NEW l \in Loggers
        PROVE  /\ logger[l].queue \in Seq(Messages \cup {Stop})
               /\ Len(logger[l].queue) <= QueueSize
               /\ logger[l].pipe \in 0..PipeSize
               /\ logger[l].waiters = Cardinality(Parked(l) \cup Woken(l))
               /\ logger[l].refs \in 0..3
    <2>1. logger[l].queue \in Seq(Messages \cup {Stop})
      BY <1>1 DEF FlowInv, BoundInv
    <2>2. Len(logger[l].queue) <= QueueSize /\ logger[l].pipe \in Nat
      BY DEF IInv, Shape
    <2>3. logger[l].pipe <= PipeSize /\ PipeSize \in Nat
      BY LoggerAssumption DEF FlowInv, BoundInv, LoggerAssumption
    <2>4. logger[l].waiters = Cardinality(Parked(l) \cup Woken(l))
      BY DEF IInv, WaitInv
    <2>5. logger[l].refs \in 0..3
      BY RefTypes, SMT
    <2>6. logger[l].pipe \in 0..PipeSize
      BY <2>2, <2>3, SMT
    <2>7. QED
      BY <2>1, <2>2, <2>4, <2>5, <2>6
  <1>3. /\ lock \in [Loggers -> Actors \cup {Nobody}]
        /\ thread.batch \subseteq Loggers \cup {Nobody}
        /\ pc \in [Actors -> {"idle", "parked", "woken", "signal", "release", "stop",
                              "wake", "join"}]
    BY DEF IInv, Shape
  <1>4. thread.at \in {"none", "check", "wait", "batch", "pop", "write", "exited"}
    BY DEF FlowInv, BoundInv, Places
  <1>5. thread.number \in 0..(QueueSize + 1) * Cardinality(Loggers)
    <2> DEFINE c == Cardinality(Pairs(Loads))
               m == (QueueSize + 1) * Cardinality(Loggers)
    <2>1. c \in Nat /\ c <= m
      BY PairsFinite
    <2>2. thread.number = c
      BY DEF FlowInv, NumberInv
    <2>3. m \in Int
      BY ConstantFacts, LoggerAssumption, CardinalityNat, SMT DEF LoggerAssumption
    <2> HIDE DEF c, m
    <2>4. thread.number \in 0..m
      BY <2>1, <2>2, <2>3, SMT
    <2>5. QED
      BY <2>4 DEF m
  <1>6. QED
    BY <1>2, <1>3, <1>4, <1>5 DEF TypeOK

-----------------------------------------------------------------------------
(* The theorems.                                                           *)

INSTANCE FiniteSetTheorems

\* The facts about finite sets are theorems of the library.
LEMMA FiniteSetsBehave == FiniteSetFacts
  <1>1. \A S : IsFiniteSet(S) => Cardinality(S) \in Nat
    BY FS_CardinalityType
  <1>2. \A S, x : IsFiniteSet(S) =>
            /\ IsFiniteSet(S \cup {x})
            /\ Cardinality(S \cup {x}) = IF x \in S THEN Cardinality(S) ELSE Cardinality(S) + 1
    BY FS_AddElement
  <1>3. \A S, x : IsFiniteSet(S) =>
            /\ IsFiniteSet(S \ {x})
            /\ Cardinality(S \ {x}) = IF x \in S THEN Cardinality(S) - 1 ELSE Cardinality(S)
    BY FS_RemoveElement
  <1>4. \A S : IsFiniteSet(S) =>
            \A T \in SUBSET S : IsFiniteSet(T) /\ Cardinality(T) <= Cardinality(S)
    BY FS_Subset
  <1>5. \A a, b \in Int :
            IsFiniteSet(a..b) /\ Cardinality(a..b) = IF a > b THEN 0 ELSE b - a + 1
    BY FS_Interval
  <1>6. \A S, T : IsFiniteSet(S) /\ IsFiniteSet(T) =>
            IsFiniteSet(S \X T) /\ Cardinality(S \X T) = Cardinality(S) * Cardinality(T)
    BY FS_Product
  <1>7. QED
    BY <1>1, <1>2, <1>3, <1>4, <1>5, <1>6, FS_EmptySet, ZenonT(30) DEF FiniteSetFacts

\* The invariant holds in every behaviour.
THEOREM InvHolds == Spec => []IInv
  <1>1. (Init => IInv) /\ (IInv /\ [Next]_vars => IInv')
    BY FiniteSetsBehave, InitInv, StepInv
  <1>2. QED
    BY <1>1, PTL DEF Spec

\* No thread waits for room in a log queue that nobody will tell it of, whether the
\* loggers are destroyed with care or not.
THEOREM NoStrandedWaiterHolds == Spec => []NoStrandedWaiter
  <1>1. IInv => NoStrandedWaiter
    BY DEF IInv, WaitInv
  <1>2. QED
    BY <1>1, InvHolds, PTL

\* pop_front of single_write never meets an empty queue.
THEOREM PopFindsMessageHolds == Spec => []PopFindsMessage
  BY MessageThere, InvHolds, PTL

\* If the last logger in use is the one that is destroyed, a logger in use has a log
\* thread that runs and has not been told to stop.
THEOREM ThreadServesHolds == Careful => (Spec => []ThreadServes)
  <1> SUFFICES ASSUME Careful PROVE Spec => []ThreadServes
    OBVIOUS
  <1>1. IInv => ThreadServes
    BY InUseServed
  <1>2. QED
    BY <1>1, InvHolds, PTL

\* The references are counted, if the loggers are destroyed with care.
THEOREM RefHolds == Careful => (Spec => []RefInv)
  <1> SUFFICES ASSUME Careful PROVE Spec => []RefInv
    OBVIOUS
  <1>1. IInv /\ RefInv /\ [Next]_vars => RefInv'
    BY StepRef
  <1>2. QED
    BY <1>1, InitRef, InvHolds, PTL DEF Spec

\* A logger that has been deleted is not used any more, neither by the log thread nor
\* by a call, if it is destroyed when no call is in it.
THEOREM NotUsedDeletedHolds == Careful => (Spec => []NotUsedDeleted)
  <1> SUFFICES ASSUME Careful PROVE Spec => []NotUsedDeleted
    OBVIOUS
  <1>1. IInv /\ RefInv => NotUsedDeleted
    BY DeletedUnused
  <1>2. QED
    BY <1>1, InvHolds, RefHolds, PTL

\* The messages are counted and stay in order, if the loggers are destroyed with care.
THEOREM FlowHolds == Careful => (Spec => []FlowInv)
  <1> SUFFICES ASSUME Careful PROVE Spec => []FlowInv
    OBVIOUS
  <1>1. IInv /\ RefInv /\ FlowInv /\ [Next]_vars => FlowInv'
    BY FiniteSetsBehave, StepFlow
  <1>2. Init => FlowInv
    BY FiniteSetsBehave, InitFlow
  <1>3. QED
    BY <1>1, <1>2, InvHolds, RefHolds, PTL DEF Spec

\* "The log thread may end only when all messages have been written" (logger.cpp:894):
\* it leaves none behind, and wrote those of each logger in the order they were queued in.
THEOREM DrainedAtExitHolds == Careful => (Spec => []DrainedAtExit)
  <1> SUFFICES ASSUME Careful PROVE Spec => []DrainedAtExit
    OBVIOUS
  <1>1. IInv /\ FlowInv => DrainedAtExit
    BY FiniteSetsBehave, ExitDrained
  <1>2. QED
    BY <1>1, InvHolds, FlowHolds, PTL

\* Type correctness: the counters of waiting threads, messages and references are exact,
\* so none of them wraps below zero.
THEOREM TypeOKHolds == Careful => (Spec => []TypeOK)
  <1> SUFFICES ASSUME Careful PROVE Spec => []TypeOK
    OBVIOUS
  <1>1. IInv /\ RefInv /\ FlowInv => TypeOK
    BY FiniteSetsBehave, InvTypes
  <1>2. QED
    BY <1>1, InvHolds, RefHolds, FlowHolds, PTL
=============================================================================
