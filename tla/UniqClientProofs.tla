-------------------------- MODULE UniqClientProofs --------------------------
(***************************************************************************)
(* A call of the client library returns only what was answered to itself,  *)
(* and no number twice, for any number of agents, retries, faults of the   *)
(* network and calls, until the echo numbers or the numbers of the agents  *)
(* run out.                                                                *)
(***************************************************************************)
EXTENDS UniqClient, FiniteSetTheorems, TLAPS

\* Requests a call sends at most.
Tries == IF RetryTimes = 0 THEN 1 ELSE RetryTimes

\* The echo numbers do not come round: a call uses up two of them at most.
EchoSuffices == EchoStart + 2 * MaxCalls < EchoRange

\* Neither do the numbers the agents have.
NumSuffices == MaxCalls * Tries <= NumRange

-----------------------------------------------------------------------------
(* The inductive invariant                                                 *)

\* Every request is on the way, was answered or got lost.
Spent == IF calls = 0 THEN 0 ELSE (calls - 1) * Tries + retry + 1
CountInv ==
    /\ retry < Tries
    /\ waiting => calls > 0
    /\ IsFiniteSet(asked)
    /\ given + Cardinality(asked) <= Spent

\* Echo numbers grow from call to call.
EchoInv == sent < echo /\ EchoStart <= echo /\ echo <= EchoStart + 2 * calls

\* The echo of a request or an answer tells the latest call from the earlier ones.
EchoOf(m) ==
    /\ m.call <= calls
    /\ m.call = calls => m.echo = sent
    /\ m.call < calls => m.echo < sent

Held == flight \cup {inbox[i] : i \in DOMAIN inbox}

\* A number under way was given, for one call.
NumInv ==
    /\ \A q \in asked : EchoOf(q)
    /\ \A m \in Held : EchoOf(m) /\ (m.type # "error" => m.num <= given)
    /\ \A m, n \in Held :
          m.type # "error" /\ n.type # "error" /\ m.num = n.num => m.call = n.call

Returned == [num : Nat, type : Types, call : Nat, answer : Nat]

\* A call returns once, with a number that was given for it.
GotInv ==
    /\ got \in Seq(Returned)
    /\ \A i \in DOMAIN got :
          /\ got[i].answer = got[i].call
          /\ got[i].num <= given
          /\ got[i].call <= calls /\ (waiting => got[i].call < calls)
          /\ \A m \in Held : m.type # "error" /\ m.num = got[i].num => m.call = got[i].call
    /\ \A i, j \in DOMAIN got : i < j => got[i].num # got[j].num

ClientInv == TypeOK /\ CountInv /\ EchoInv /\ NumInv /\ GotInv

-----------------------------------------------------------------------------
(* Types                                                                   *)

Requests == [to : Agents, type : Types, echo : 0..(EchoRange - 1),
             call : 0..MaxCalls, retry : 0..RetryTimes]

\* get_echo() skips a number at most.
LEMMA GetEchoFacts ==
    ASSUME NEW e \in Nat
    PROVE  /\ GetEcho(e) \in Nat /\ GetEcho(e) >= e
           /\ e >= EchoStart => GetEcho(e) <= e + 1
           /\ GetEcho(e) >= EchoStart
  BY ClientAssumption DEF GetEcho

LEMMA AttemptType ==
    ASSUME TypeOK, NEW ty \in Types, NEW e \in 0..(EchoRange - 1), NEW call \in 0..MaxCalls,
           NEW r \in 0..RetryTimes, Attempt(ty, e, call, r)
    PROVE  /\ factor' \in Agents /\ agent' \in Agents /\ retry' = r /\ waiting' = TRUE
           /\ asked' \subseteq Requests
           /\ \E q \in Requests : /\ asked' = asked \cup {q}
                                  /\ q.call = call /\ q.echo = e
  <1>1. factor' = (factor + 1) % NAgents /\ factor \in Nat /\ NAgents \in Nat \ {0}
    BY ClientAssumption DEF Attempt, TypeOK, Agents
  <1>2. factor' \in Agents
    BY <1>1 DEF Agents
  <1>3. PICK a \in Picked :
           /\ agent' = a
           /\ asked' = asked \cup {[to |-> a, type |-> ty, echo |-> e,
                                    call |-> call, retry |-> r]}
    BY DEF Attempt
  <1>4. a \in Agents
    BY DEF Picked, TypeOK
  <1>5. PICK q : q = [to |-> a, type |-> ty, echo |-> e, call |-> call, retry |-> r]
    OBVIOUS
  <1>6. q \in Requests /\ q.call = call /\ q.echo = e
    BY <1>4, <1>5 DEF Requests
  <1>7. asked' = asked \cup {q}
    BY <1>3, <1>5
  <1>8. asked \subseteq Requests
    BY DEF TypeOK, Requests
  <1> QED
    BY <1>2, <1>3, <1>4, <1>6, <1>7, <1>8 DEF Attempt

LEMMA FailureType ==
    ASSUME TypeOK, Failure
    PROVE  /\ factor' \in Agents /\ agent' \in Agents /\ retry' \in 0..RetryTimes
           /\ waiting' \in BOOLEAN /\ asked' \subseteq Requests
  <1>1. CASE LastAttempt /\ waiting' = FALSE /\ UNCHANGED <<agent, asked, factor, retry>>
    BY <1>1 DEF TypeOK, Requests
  <1>2. CASE ~LastAttempt /\ Attempt(type, sent, calls, retry + 1)
    <2>1. RetryTimes \in Nat /\ retry \in Nat /\ ~(RetryTimes = 0 \/ retry + 1 >= RetryTimes)
      BY <1>2, ClientAssumption DEF TypeOK, LastAttempt
    <2>2. retry + 1 \in 0..RetryTimes
      BY <2>1
    <2>3. type \in Types /\ sent \in 0..(EchoRange - 1) /\ calls \in 0..MaxCalls
      BY DEF TypeOK
    <2> QED
      BY <1>2, <2>2, <2>3, AttemptType
  <1> QED
    BY <1>1, <1>2 DEF Failure

LEMMA InitTypeOK == Init => TypeOK
  <1> SUFFICES ASSUME Init PROVE TypeOK
    OBVIOUS
  <1>1. /\ 0 \in Agents /\ 0 \in 0..RetryTimes /\ 0 \in 0..NumRange /\ 0 \in 0..MaxFaults
        /\ 0 \in 0..MaxCalls /\ {0, EchoStart} \subseteq 0..(EchoRange - 1)
    BY ClientAssumption DEF Agents
  <1>2. inbox = <<>> /\ flight = {}
    BY DEF Init
  <1>3. inbox \in Seq(Message) /\ flight \subseteq Message
    BY <1>2
  <1>4. waiting \in BOOLEAN
    BY DEF Init
  <1> QED
    BY <1>1, <1>3, <1>4 DEF Init, TypeOK

LEMMA CallType ==
    ASSUME TypeOK, NEW ty \in Types, Call(ty), GetEcho(echo) < EchoRange
    PROVE  TypeOK'
  <1>1. echo \in Nat /\ EchoRange \in Nat \ {0} /\ calls \in Nat /\ MaxCalls \in Nat
        /\ calls < MaxCalls /\ RetryTimes \in Nat
    BY ClientAssumption DEF TypeOK, Call
  <1>2. PICK e \in Nat : e = GetEcho(echo)
    BY <1>1, GetEchoFacts
  <1>3. e \in 0..(EchoRange - 1) /\ calls + 1 \in 0..MaxCalls /\ 0 \in 0..RetryTimes
    BY <1>1, <1>2
  <1>4. (e + 1) % EchoRange \in 0..(EchoRange - 1)
    BY <1>1, <1>2
  <1>5. /\ Attempt(ty, e, calls + 1, 0) /\ calls' = calls + 1 /\ type' = ty /\ sent' = e
        /\ echo' = (e + 1) % EchoRange /\ UNCHANGED <<flight, inbox, given, faults>>
    BY <1>2 DEF Call
  <1>6. /\ factor' \in Agents /\ agent' \in Agents /\ retry' = 0 /\ waiting' = TRUE
        /\ asked' \subseteq Requests
    BY <1>3, <1>5, AttemptType
  <1> QED
    BY <1>3, <1>4, <1>5, <1>6 DEF TypeOK, Requests

LEMMA ReceiveType == ASSUME TypeOK, Receive PROVE TypeOK'
  <1>1. inbox \in Seq(Message) /\ inbox # <<>> /\ inbox' = Tail(inbox)
    BY DEF TypeOK, Receive
  <1>2. inbox' \in Seq(Message)
    BY <1>1
  <1>3. UNCHANGED <<echo, type, sent, flight, given, faults, calls>>
    BY DEF Receive
  <1>4. /\ factor' \in Agents /\ agent' \in Agents /\ retry' \in 0..RetryTimes
        /\ waiting' \in BOOLEAN /\ asked' \subseteq Requests
    <2>1. CASE waiting' = FALSE /\ UNCHANGED <<agent, asked, factor, retry>>
      BY <2>1 DEF TypeOK, Requests
    <2>2. CASE Failure
      BY <2>2, FailureType
    <2> QED
      BY <2>1, <2>2 DEF Receive
  <1> QED
    BY <1>2, <1>3, <1>4 DEF TypeOK, Requests

LEMMA TimeoutType == ASSUME TypeOK, Timeout PROVE TypeOK'
  <1>1. UNCHANGED <<echo, type, sent, flight, inbox, given, calls>>
    BY DEF Timeout
  <1>2. faults' \in 0..MaxFaults
    BY ClientAssumption DEF Timeout, TypeOK
  <1>3. /\ factor' \in Agents /\ agent' \in Agents /\ retry' \in 0..RetryTimes
        /\ waiting' \in BOOLEAN /\ asked' \subseteq Requests
    BY FailureType DEF Timeout
  <1> QED
    BY <1>1, <1>2, <1>3 DEF TypeOK, Requests

\* What an agent puts on the way.
LEMMA AnswerFacts ==
    ASSUME TypeOK, NEW q \in asked, NEW ty \in {q.type, "error"}, NEW n \in 0..NumRange
    PROVE  [from |-> q.to, type |-> ty, echo |-> q.echo, num |-> n, call |-> q.call]
              \in Message
  <1>1. q \in Requests
    BY DEF TypeOK, Requests
  <1>2. /\ q.to \in Agents /\ q.type \in Types /\ q.echo \in 0..(EchoRange - 1)
        /\ q.call \in 0..MaxCalls
    BY <1>1 DEF Requests
  <1> QED
    BY <1>2 DEF Message

LEMMA AgentType ==
    ASSUME TypeOK, NEW q \in asked, Answer(q) \/ AnswerError(q)
    PROVE  TypeOK'
  <1>1. NumRange \in Nat \ {0} /\ given \in 0..NumRange /\ 0 \in 0..NumRange
    BY ClientAssumption DEF TypeOK
  <1>2. CASE Answer(q)
    <2>1. given' = IF given < NumRange THEN given + 1 ELSE 1
      BY <1>2 DEF Answer
    <2>2. given' \in 0..NumRange
      BY <1>1, <2>1
    <2>3. flight' \subseteq Message
      BY <1>2, <2>2, AnswerFacts DEF Answer, TypeOK
    <2>4. asked' \subseteq asked /\ UNCHANGED <<echo, factor, waiting, type, sent, agent,
                                                retry, inbox, faults, calls>>
      BY <1>2 DEF Answer
    <2> QED
      BY <2>2, <2>3, <2>4 DEF TypeOK
  <1>3. CASE AnswerError(q)
    <2>1. faults' \in 0..MaxFaults
      BY <1>3, ClientAssumption DEF AnswerError, TypeOK
    <2>2. flight' \subseteq Message
      BY <1>1, <1>3, AnswerFacts DEF AnswerError, TypeOK
    <2>3. asked' \subseteq asked /\ UNCHANGED <<echo, factor, waiting, type, sent, agent,
                                                retry, inbox, given, calls>>
      BY <1>3 DEF AnswerError
    <2> QED
      BY <2>1, <2>2, <2>3 DEF TypeOK
  <1> QED
    BY <1>2, <1>3

LEMMA NetworkType ==
    ASSUME TypeOK, Lose \/ \E m \in flight : Deliver(m)
    PROVE  TypeOK'
  <1>1. CASE Lose
    <2>1. faults' \in 0..MaxFaults
      BY <1>1, ClientAssumption DEF Lose, TypeOK
    <2>2. /\ asked' \subseteq asked /\ flight' \subseteq flight
          /\ UNCHANGED <<echo, factor, waiting, type, sent, agent, retry, inbox, given, calls>>
      BY <1>1 DEF Lose
    <2> QED
      BY <2>1, <2>2 DEF TypeOK
  <1>2. ASSUME NEW m \in flight, Deliver(m) PROVE TypeOK'
    <2>1. faults' \in 0..MaxFaults
      BY <1>2, ClientAssumption DEF Deliver, TypeOK
    <2>2. /\ flight' \subseteq flight /\ inbox' = Append(inbox, m)
          /\ UNCHANGED <<echo, factor, waiting, type, sent, agent, retry, asked, given, calls>>
      BY <1>2 DEF Deliver
    <2>3. inbox' \in Seq(Message)
      BY <2>2 DEF TypeOK
    <2> QED
      BY <2>1, <2>2, <2>3 DEF TypeOK
  <1> QED
    BY <1>1, <1>2

-----------------------------------------------------------------------------
(* The requests are counted                                                *)

LEMMA TriesFacts ==
    /\ Tries \in Nat \ {0}
    /\ \A n \in Nat : (n + 1) * Tries = n * Tries + Tries /\ n * Tries \in Nat
  <1>1. Tries \in Nat \ {0}
    BY ClientAssumption DEF Tries
  <1> QED
    BY <1>1

LEMMA SpentFacts ==
    ASSUME TypeOK, CountInv
    PROVE  /\ Spent \in Nat /\ Spent <= calls * Tries
           /\ calls > 0 => Spent = (calls - 1) * Tries + retry + 1
                           /\ (calls - 1) * Tries \in Nat
  <1>1. calls \in Nat /\ retry \in Nat /\ retry < Tries /\ Tries \in Nat
    BY TriesFacts DEF TypeOK, CountInv
  <1>2. CASE calls = 0
    BY <1>1, <1>2, TriesFacts DEF Spent
  <1>3. CASE calls # 0
    <2>1. PICK k \in Nat : k = calls - 1 /\ calls = k + 1
      BY <1>1, <1>3
    <2>2. k * Tries \in Nat /\ calls * Tries = k * Tries + Tries
      BY <2>1, TriesFacts
    <2>3. Spent = k * Tries + retry + 1
      BY <1>3, <2>1 DEF Spent
    <2> QED
      BY <1>1, <2>1, <2>2, <2>3
  <1> QED
    BY <1>2, <1>3

\* One more request on the way.
LEMMA OneMoreAsked ==
    ASSUME IsFiniteSet(asked), NEW q, asked' = asked \cup {q}
    PROVE  /\ IsFiniteSet(asked')
           /\ Cardinality(asked) \in Nat /\ Cardinality(asked') \in Nat
           /\ Cardinality(asked') <= Cardinality(asked) + 1
  <1>1. Cardinality(asked) \in Nat
    BY FS_CardinalityType
  <1>2. IsFiniteSet(asked') /\ \/ Cardinality(asked') = Cardinality(asked)
                               \/ Cardinality(asked') = Cardinality(asked) + 1
    BY FS_AddElement
  <1> QED
    BY <1>1, <1>2

LEMMA OneLessAsked ==
    ASSUME IsFiniteSet(asked), NEW q \in asked, asked' = asked \ {q}
    PROVE  /\ IsFiniteSet(asked')
           /\ Cardinality(asked) \in Nat /\ Cardinality(asked') \in Nat
           /\ Cardinality(asked') = Cardinality(asked) - 1
  <1>1. Cardinality(asked) \in Nat /\ IsFiniteSet(asked')
    BY FS_CardinalityType, FS_RemoveElement
  <1>2. Cardinality(asked') = Cardinality(asked) - 1
    BY FS_RemoveElement
  <1>3. Cardinality(asked') \in Nat
    BY <1>1, FS_CardinalityType
  <1> QED
    BY <1>1, <1>2, <1>3

LEMMA FailureCount ==
    ASSUME TypeOK, CountInv, waiting, Failure, given' = given, calls' = calls
    PROVE  CountInv'
  <1>1. /\ given \in Nat /\ retry \in Nat /\ retry < Tries /\ Tries \in Nat /\ calls > 0
        /\ IsFiniteSet(asked) /\ given + Cardinality(asked) <= Spent
    BY TriesFacts DEF TypeOK, CountInv
  <1>2. CASE LastAttempt /\ waiting' = FALSE /\ UNCHANGED <<agent, asked, factor, retry>>
    BY <1>2 DEF CountInv, Spent
  <1>3. CASE ~LastAttempt /\ Attempt(type, sent, calls, retry + 1)
    <2>1. retry' = retry + 1 /\ retry + 1 < Tries
      BY <1>1, <1>3, ClientAssumption DEF LastAttempt, Tries, Attempt
    <2>2. PICK q : asked' = asked \cup {q}
      BY <1>3 DEF Attempt
    <2>3. PICK c \in Nat : c = Cardinality(asked)
      BY <1>1, OneMoreAsked, <2>2
    <2>4. PICK d \in Nat : d = Cardinality(asked') /\ d <= c + 1 /\ IsFiniteSet(asked')
      BY <1>1, OneMoreAsked, <2>2, <2>3
    <2>5. PICK b \in Nat : b = (calls - 1) * Tries /\ Spent = b + retry + 1
      BY <1>1, SpentFacts
    <2>6. Spent' = b + (retry + 1) + 1
      BY <1>1, <2>1, <2>5 DEF Spent
    <2>7. b \in Nat /\ given + c <= b + retry + 1
      BY <1>1, <2>3, <2>5
    <2>8. given + d <= b + (retry + 1) + 1
      BY <1>1, <2>4, <2>7
    <2> QED
      BY <1>1, <2>1, <2>4, <2>6, <2>8 DEF CountInv
  <1> QED
    BY <1>2, <1>3 DEF Failure

LEMMA CallCount ==
    ASSUME TypeOK, CountInv, NEW ty \in Types, Call(ty)
    PROVE  CountInv'
  <1>1. /\ given \in Nat /\ Tries \in Nat \ {0} /\ calls \in Nat
        /\ IsFiniteSet(asked) /\ given + Cardinality(asked) <= Spent
    BY TriesFacts DEF TypeOK, CountInv
  <1>2. retry' = 0 /\ calls' = calls + 1 /\ given' = given
    BY DEF Call, Attempt
  <1>3. PICK q : asked' = asked \cup {q}
    BY DEF Call, Attempt
  <1>4. PICK c \in Nat : c = Cardinality(asked)
    BY <1>1, <1>3, OneMoreAsked
  <1>5. PICK d \in Nat : d = Cardinality(asked') /\ d <= c + 1 /\ IsFiniteSet(asked')
    BY <1>1, <1>3, <1>4, OneMoreAsked
  <1>6. PICK b \in Nat : b = calls * Tries /\ Spent <= b /\ Spent \in Nat
    BY <1>1, SpentFacts, TriesFacts
  <1>7. Spent' = b + 1
    <2>1. calls' # 0 /\ calls' - 1 = calls
      BY <1>1, <1>2
    <2> QED
      BY <1>2, <1>6, <2>1 DEF Spent
  <1>8. given + d <= b + 1
    BY <1>1, <1>4, <1>5, <1>6
  <1>9. calls' > 0 /\ 0 < Tries
    BY <1>1, <1>2
  <1> QED
    BY <1>2, <1>5, <1>7, <1>8, <1>9 DEF CountInv

\* An answer or a loss uses up a request.
LEMMA AnswerCount ==
    ASSUME TypeOK, CountInv, NEW q \in asked, asked' = asked \ {q},
           given' \in {given, given + 1}, UNCHANGED <<calls, retry, waiting>>
    PROVE  CountInv'
  <1>1. /\ given \in Nat /\ IsFiniteSet(asked) /\ given + Cardinality(asked) <= Spent
    BY DEF TypeOK, CountInv
  <1>2. PICK c \in Nat : c = Cardinality(asked)
    BY <1>1, OneLessAsked
  <1>3. PICK d \in Nat : d = Cardinality(asked') /\ d = c - 1 /\ IsFiniteSet(asked')
    BY <1>1, <1>2, OneLessAsked
  <1>4. Spent' = Spent /\ Spent \in Nat
    BY SpentFacts DEF Spent
  <1>5. given' + d <= Spent'
    BY <1>1, <1>2, <1>3, <1>4
  <1> QED
    BY <1>3, <1>5 DEF CountInv

\* While a request is on the way the numbers have not run out.
LEMMA NumbersLeft ==
    ASSUME NumSuffices, TypeOK, CountInv, NEW q \in asked
    PROVE  given < NumRange
  <1>1. given \in Nat /\ NumRange \in Nat /\ calls \in 0..MaxCalls /\ MaxCalls \in Nat
    BY ClientAssumption DEF TypeOK
  <1>2. /\ IsFiniteSet(asked) /\ given + Cardinality(asked) <= Spent
        /\ Spent \in Nat /\ Spent <= calls * Tries
    BY SpentFacts DEF CountInv
  <1>3. PICK c \in Nat : c = Cardinality(asked) /\ c >= 1
    <2>1. Cardinality(asked) \in Nat /\ Cardinality(asked) # 0
      BY <1>2, FS_CardinalityType, FS_EmptySet
    <2> QED
      BY <2>1
  <1>4. /\ calls * Tries <= MaxCalls * Tries /\ calls * Tries \in Nat
        /\ MaxCalls * Tries \in Nat
    BY <1>1, TriesFacts
  <1> QED
    BY <1>1, <1>2, <1>3, <1>4 DEF NumSuffices

-----------------------------------------------------------------------------
(* Numbers and calls                                                       *)

\* What is known of the fields of requests, answers and returned calls.
LEMMA Fields ==
    ASSUME TypeOK
    PROVE  /\ \A q \in asked : q.call \in Nat /\ q.echo \in Nat /\ q.type \in Types
           /\ \A m \in Held : m.call \in Nat /\ m.echo \in Nat /\ m.num \in Nat
           /\ calls \in Nat /\ sent \in Nat /\ given \in Nat /\ echo \in Nat
  <1>1. ASSUME NEW q \in asked PROVE q.call \in Nat /\ q.echo \in Nat /\ q.type \in Types
    BY DEF TypeOK
  <1>2. Held \subseteq Message
    BY DEF TypeOK, Held
  <1>3. ASSUME NEW m \in Held PROVE m.call \in Nat /\ m.echo \in Nat /\ m.num \in Nat
    <2>1. m \in Message
      BY <1>2
    <2> QED
      BY <2>1 DEF Message
  <1> QED
    BY <1>1, <1>3 DEF TypeOK

\* Steps that give no number, return no call and make no new call.
LEMMA NumbersKept ==
    ASSUME NumInv, GotInv, Held' \subseteq Held, UNCHANGED <<given, calls, sent, got>>,
           waiting' => waiting,
           \A q \in asked' : q \in asked \/ (q.call = calls /\ q.echo = sent),
           calls \in Nat
    PROVE  NumInv' /\ GotInv'
  <1>1. \A q \in asked' : EchoOf(q)'
    BY DEF NumInv, EchoOf
  <1>2. \A m \in Held' : EchoOf(m)' /\ (m.type # "error" => m.num <= given')
    BY DEF NumInv, EchoOf
  <1>3. NumInv'
    BY <1>1, <1>2 DEF NumInv
  <1>4. GotInv'
    BY DEF GotInv
  <1> QED
    BY <1>3, <1>4

\* The socket: taking the oldest answer out, putting one in.
LEMMA HeldTail ==
    ASSUME TypeOK, inbox # <<>>, inbox' = Tail(inbox), flight' = flight
    PROVE  Held' \subseteq Held /\ Head(inbox) \in Held
  <1>1. inbox \in Seq(Message)
    BY DEF TypeOK
  <1>2. /\ DOMAIN inbox' = 1..(Len(inbox) - 1) /\ Len(inbox) \in Nat \ {0}
        /\ \A i \in 1..(Len(inbox) - 1) : inbox'[i] = inbox[i + 1]
        /\ Head(inbox) = inbox[1] /\ DOMAIN inbox = 1..Len(inbox)
    BY <1>1
  <1>3. ASSUME NEW i \in DOMAIN inbox' PROVE \E j \in DOMAIN inbox : inbox'[i] = inbox[j]
    <2>1. i + 1 \in DOMAIN inbox /\ inbox'[i] = inbox[i + 1]
      BY <1>2
    <2> QED
      BY <2>1
  <1>4. 1 \in DOMAIN inbox
    BY <1>2
  <1> QED
    BY <1>2, <1>3, <1>4 DEF Held

LEMMA HeldAppend ==
    ASSUME TypeOK, NEW m \in flight, inbox' = Append(inbox, m), flight' \subseteq flight
    PROVE  Held' \subseteq Held
  <1>1. inbox \in Seq(Message) /\ m \in Message
    BY DEF TypeOK
  <1>2. ASSUME NEW i \in DOMAIN inbox'
        PROVE  inbox'[i] = m \/ \E j \in DOMAIN inbox : inbox'[i] = inbox[j]
    <2>1. DOMAIN inbox' = 1..(Len(inbox) + 1) /\ Len(inbox) \in Nat
          /\ DOMAIN inbox = 1..Len(inbox)
      BY <1>1
    <2>2. CASE i = Len(inbox) + 1
      BY <1>1, <2>2
    <2>3. CASE i # Len(inbox) + 1
      <3>1. i \in 1..Len(inbox)
        BY <2>1, <2>3
      <3> QED
        BY <1>1, <2>1, <3>1
    <2> QED
      BY <2>2, <2>3
  <1> QED
    BY <1>2 DEF Held

\* A number is given.
LEMMA AnswerNumbers ==
    ASSUME TypeOK, NumInv, GotInv, NEW q \in asked, Answer(q), given < NumRange
    PROVE  NumInv' /\ GotInv'
  <1>1. PICK new : new = [from |-> q.to, type |-> q.type, echo |-> q.echo,
                          num |-> given', call |-> q.call]
    OBVIOUS
  <1>2. /\ new.num = given + 1 /\ new.call = q.call /\ new.echo = q.echo
        /\ given' = given + 1 /\ Held' = Held \cup {new} /\ asked' \subseteq asked
        /\ UNCHANGED <<calls, sent, got, waiting>>
    BY <1>1 DEF Answer, Held
  <1>3. given \in Nat /\ \A m \in Held : m.num \in Nat
    BY Fields
  <1>4. \A m \in Held : m.type # "error" => m.num # new.num /\ m.num <= given'
    BY <1>2, <1>3 DEF NumInv
  <1>5. NumInv'
    <2>1. \A r \in asked' : EchoOf(r)'
      BY <1>2 DEF NumInv, EchoOf
    <2>2. EchoOf(new)' /\ new.num <= given'
      BY <1>2, <1>3 DEF NumInv, EchoOf
    <2>3. \A m \in Held : EchoOf(m)'
      BY <1>2 DEF NumInv, EchoOf
    <2> QED
      BY <1>2, <1>4, <2>1, <2>2, <2>3 DEF NumInv
  <1>6. GotInv'
    <2>1. ASSUME NEW i \in DOMAIN got
          PROVE  got[i].num \in Nat /\ got[i].num <= given' /\ got[i].num # new.num
      <3>1. got[i] \in Returned
        BY DEF GotInv
      <3>2. PICK p \in Nat : p = got[i].num
        BY <3>1 DEF Returned
      <3>3. p <= given
        BY <3>2 DEF GotInv
      <3>4. p <= given + 1 /\ p # given + 1
        BY <1>3, <3>3
      <3> QED
        BY <1>2, <3>2, <3>4
    <2> QED
      BY <1>2, <2>1 DEF GotInv
  <1> QED
    BY <1>5, <1>6

\* An error carries no number.
LEMMA ErrorNumbers ==
    ASSUME NumInv, GotInv, NEW q \in asked, AnswerError(q)
    PROVE  NumInv' /\ GotInv'
  <1>1. PICK new : new = [from |-> q.to, type |-> "error", echo |-> q.echo,
                          num |-> 0, call |-> q.call]
    OBVIOUS
  <1>2. /\ new.type = "error" /\ new.call = q.call /\ new.echo = q.echo
        /\ Held' = Held \cup {new} /\ asked' \subseteq asked
        /\ UNCHANGED <<given, calls, sent, got, waiting>>
    BY <1>1 DEF AnswerError, Held
  <1>3. NumInv'
    <2>1. \A r \in asked' : EchoOf(r)'
      BY <1>2 DEF NumInv, EchoOf
    <2>2. EchoOf(new)'
      BY <1>2 DEF NumInv, EchoOf
    <2>3. \A m \in Held : EchoOf(m)'
      BY <1>2 DEF NumInv, EchoOf
    <2> QED
      BY <1>2, <2>1, <2>2, <2>3 DEF NumInv
  <1>4. GotInv'
    BY <1>2 DEF GotInv
  <1> QED
    BY <1>3, <1>4

\* A call takes a new echo, larger than all before it.
LEMMA CallEcho ==
    ASSUME EchoSuffices, TypeOK, EchoInv, NEW ty \in Types, Call(ty)
    PROVE  /\ EchoInv' /\ sent < sent' /\ sent' = GetEcho(echo) /\ GetEcho(echo) < EchoRange
  <1>1. /\ echo \in Nat /\ calls \in Nat /\ calls < MaxCalls /\ MaxCalls \in Nat
        /\ EchoRange \in Nat /\ EchoStart \in Nat /\ sent \in Nat
        /\ sent < echo /\ EchoStart <= echo /\ echo <= EchoStart + 2 * calls
        /\ EchoStart + 2 * MaxCalls < EchoRange
    BY ClientAssumption DEF EchoSuffices, TypeOK, EchoInv, Call
  <1>2. PICK e \in Nat : e = GetEcho(echo) /\ e >= echo /\ e <= echo + 1
    BY <1>1, GetEchoFacts
  <1>3. sent' = e /\ echo' = (e + 1) % EchoRange /\ calls' = calls + 1
    BY <1>2 DEF Call
  <1>4. e + 1 < EchoRange /\ e + 1 \in Nat /\ e + 1 <= EchoStart + 2 * (calls + 1)
    BY <1>1, <1>2
  <1>5. (e + 1) % EchoRange = e + 1
    BY <1>1, <1>4
  <1> QED
    BY <1>1, <1>2, <1>3, <1>4, <1>5 DEF EchoInv

LEMMA CallNumbers ==
    ASSUME TypeOK, NumInv, GotInv, NEW ty \in Types, Call(ty), sent < sent', sent' \in Nat,
           NEW q, asked' = asked \cup {q}, q.call = calls', q.echo = sent'
    PROVE  NumInv' /\ GotInv'
  <1>1. calls' = calls + 1 /\ calls \in Nat /\ sent \in Nat
    BY Fields DEF Call
  <1>2. UNCHANGED <<flight, inbox, given, got>>
    BY DEF Call
  <1>3. Held' = Held
    BY <1>2 DEF Held
  <1>4. ASSUME NEW m, EchoOf(m), m.call \in Nat, m.echo \in Nat PROVE EchoOf(m)'
    <2>1. m.call <= calls /\ m.call < calls'
      BY <1>1, <1>4 DEF EchoOf
    <2>2. m.echo <= sent
      BY <1>1, <1>4, <2>1 DEF EchoOf
    <2>3. m.echo < sent'
      BY <1>1, <1>4, <2>2
    <2> QED
      BY <1>1, <1>4, <2>1, <2>3 DEF EchoOf
  <1>5. EchoOf(q)'
    BY <1>1 DEF EchoOf
  <1>6. \A r \in asked' : EchoOf(r)'
    BY <1>4, <1>5, Fields DEF NumInv
  <1>7. \A m \in Held : EchoOf(m)'
    BY <1>4, Fields DEF NumInv
  <1>8. NumInv'
    BY <1>2, <1>3, <1>6, <1>7 DEF NumInv
  <1>9. GotInv'
    <2>1. ASSUME NEW i \in DOMAIN got PROVE got[i].call < calls' /\ got[i].call <= calls'
      <3>1. got[i] \in Returned
        BY DEF GotInv
      <3>2. PICK c \in Nat : c = got[i].call
        BY <3>1 DEF Returned
      <3>3. c <= calls
        BY <3>2 DEF GotInv
      <3>4. c < calls + 1 /\ c <= calls + 1
        BY <1>1, <3>3
      <3> QED
        BY <1>1, <3>2, <3>4
    <2> QED
      BY <1>2, <1>3, <2>1 DEF GotInv
  <1> QED
    BY <1>8, <1>9

\* An accepted answer is one to this very call, with a number no call returned.
LEMMA AcceptNumbers ==
    ASSUME TypeOK, NumInv, GotInv, waiting, inbox # <<>>, inbox' = Tail(inbox),
           UNCHANGED <<flight, asked, given, calls, sent>>,
           NEW m, m = Head(inbox), Accepted(m), waiting' = FALSE,
           got' = Append(got, [num |-> m.num, type |-> m.type,
                               call |-> calls, answer |-> m.call])
    PROVE  NumInv' /\ GotInv'
  <1>1. Held' \subseteq Held /\ m \in Held
    BY HeldTail
  <1>2. m.call \in Nat /\ m.echo \in Nat /\ m.num \in Nat /\ calls \in Nat /\ sent \in Nat
    BY <1>1, Fields
  <1>3. m.type \in Types /\ m.type # "error" /\ m.echo = sent
    BY ClientAssumption DEF Accepted, TypeOK
  <1>4. m.call = calls
    BY <1>1, <1>2, <1>3 DEF NumInv, EchoOf
  <1>5. NumInv'
    <2>1. \A q \in asked : EchoOf(q)'
      BY DEF NumInv, EchoOf
    <2>2. \A n \in Held : EchoOf(n)'
      BY DEF NumInv, EchoOf
    <2> QED
      BY <1>1, <2>1, <2>2 DEF NumInv
  <1>6. PICK r : r = [num |-> m.num, type |-> m.type, call |-> calls, answer |-> m.call]
    OBVIOUS
  <1>7. /\ r \in Returned /\ r.num = m.num /\ r.call = calls /\ r.answer = r.call
    BY <1>2, <1>3, <1>4, <1>6 DEF Returned
  <1>8. got \in Seq(Returned) /\ got' = Append(got, r)
    BY <1>6 DEF GotInv
  <1>9. /\ got' \in Seq(Returned) /\ Len(got) \in Nat /\ DOMAIN got = 1..Len(got)
        /\ DOMAIN got' = 1..(Len(got) + 1) /\ got'[Len(got) + 1] = r
        /\ \A i \in DOMAIN got : got'[i] = got[i]
    BY <1>7, <1>8
  <1>10. \A i \in DOMAIN got' : i \in DOMAIN got \/ got'[i] = r
    BY <1>9
  <1>11. ASSUME NEW i \in DOMAIN got PROVE got[i].num # m.num
    <2>1. PICK c \in Nat : c = got[i].call
      <3>1. got[i] \in Returned
        BY DEF GotInv
      <3> QED
        BY <3>1 DEF Returned
    <2>2. c < calls
      BY <2>1 DEF GotInv
    <2>3. got[i].num = m.num => m.call = c
      BY <1>1, <1>3, <2>1 DEF GotInv
    <2> QED
      BY <1>2, <1>4, <2>2, <2>3
  <1>12. \A n \in Held' : n.type # "error" /\ n.num = r.num => n.call = r.call
    BY <1>1, <1>3, <1>4, <1>7 DEF NumInv
  <1>13. r.num <= given /\ r.call <= calls
    BY <1>1, <1>2, <1>3, <1>7 DEF NumInv
  <1>14. ASSUME NEW i \in DOMAIN got'
         PROVE  /\ got'[i].answer = got'[i].call
                /\ got'[i].num <= given'
                /\ got'[i].call <= calls'
                /\ \A n \in Held' :
                      n.type # "error" /\ n.num = got'[i].num => n.call = got'[i].call
    <2>1. CASE i \in DOMAIN got
      BY <1>1, <1>9, <2>1 DEF GotInv
    <2>2. CASE got'[i] = r
      BY <1>7, <1>12, <1>13, <2>2
    <2> QED
      BY <1>10, <2>1, <2>2
  <1>15. ASSUME NEW i \in DOMAIN got', NEW j \in DOMAIN got', i < j
         PROVE  got'[i].num # got'[j].num
    <2>1. i \in DOMAIN got
      BY <1>9, <1>15
    <2>2. CASE j \in DOMAIN got
      BY <1>9, <1>15, <2>1, <2>2 DEF GotInv
    <2>3. CASE got'[j] = r
      BY <1>7, <1>9, <1>11, <2>1, <2>3
    <2> QED
      BY <1>10, <2>2, <2>3
  <1> QED
    BY <1>5, <1>9, <1>14, <1>15 DEF GotInv

-----------------------------------------------------------------------------
(* Steps                                                                   *)

LEMMA FailureNumbers ==
    ASSUME TypeOK, NumInv, GotInv, waiting, Failure, Held' \subseteq Held,
           UNCHANGED <<given, calls, sent, got>>
    PROVE  NumInv' /\ GotInv'
  <1>1. \A q \in asked' : q \in asked \/ (q.call = calls /\ q.echo = sent)
    BY DEF Failure, Attempt
  <1>2. calls \in Nat
    BY DEF TypeOK
  <1> QED
    BY <1>1, <1>2, NumbersKept

LEMMA InitClientInv == Init => ClientInv
  <1> SUFFICES ASSUME Init PROVE ClientInv
    OBVIOUS
  <1>1. TypeOK
    BY InitTypeOK
  <1>2. CountInv
    <2>1. IsFiniteSet(asked) /\ Cardinality(asked) = 0
      BY FS_EmptySet DEF Init
    <2> QED
      BY <2>1, TriesFacts DEF Init, CountInv, Spent
  <1>3. EchoInv
    BY ClientAssumption DEF Init, EchoInv
  <1>4. NumInv /\ GotInv
    BY DEF Init, NumInv, GotInv, Held
  <1> QED
    BY <1>1, <1>2, <1>3, <1>4 DEF ClientInv

LEMMA CallKeeps ==
    ASSUME EchoSuffices, ClientInv, NEW ty \in Types, Call(ty)
    PROVE  ClientInv'
  <1>0. TypeOK /\ CountInv /\ EchoInv /\ NumInv /\ GotInv
    BY DEF ClientInv
  <1>1. /\ EchoInv' /\ sent < sent' /\ sent' = GetEcho(echo) /\ GetEcho(echo) < EchoRange
    BY <1>0, CallEcho
  <1>2. TypeOK'
    BY <1>0, <1>1, CallType
  <1>3. CountInv'
    BY <1>0, CallCount
  <1>4. sent' \in Nat
    BY <1>2 DEF TypeOK
  <1>5. PICK q : asked' = asked \cup {q} /\ q.call = calls' /\ q.echo = sent'
    <2>1. Attempt(ty, sent', calls', 0)
      BY <1>1 DEF Call
    <2>2. PICK a : asked' = asked \cup {[to |-> a, type |-> ty, echo |-> sent',
                                         call |-> calls', retry |-> 0]}
      BY <2>1 DEF Attempt
    <2>3. PICK q : q = [to |-> a, type |-> ty, echo |-> sent', call |-> calls', retry |-> 0]
      OBVIOUS
    <2> QED
      BY <2>2, <2>3
  <1>6. NumInv' /\ GotInv'
    BY <1>0, <1>1, <1>4, <1>5, CallNumbers
  <1> QED
    BY <1>1, <1>2, <1>3, <1>6 DEF ClientInv

LEMMA ReceiveKeeps == ASSUME ClientInv, Receive PROVE ClientInv'
  <1>0. TypeOK /\ CountInv /\ EchoInv /\ NumInv /\ GotInv
    BY DEF ClientInv
  <1>1. /\ waiting /\ inbox # <<>> /\ inbox' = Tail(inbox)
        /\ UNCHANGED <<echo, type, sent, flight, given, faults, calls>>
    BY DEF Receive
  <1>2. TypeOK' /\ EchoInv'
    BY <1>0, <1>1, ReceiveType DEF EchoInv
  <1>3. Held' \subseteq Held
    BY <1>0, <1>1, HeldTail
  <1>4. PICK m : m = Head(inbox)
    OBVIOUS
  <1>5. CASE /\ Accepted(m) /\ waiting' = FALSE
             /\ got' = Append(got, [num |-> m.num, type |-> m.type,
                                    call |-> calls, answer |-> m.call])
             /\ UNCHANGED <<agent, asked, factor, retry>>
    <2>1. CountInv'
      BY <1>0, <1>1, <1>5 DEF CountInv, Spent
    <2>2. NumInv' /\ GotInv'
      BY <1>0, <1>1, <1>4, <1>5, AcceptNumbers
    <2> QED
      BY <1>2, <2>1, <2>2 DEF ClientInv
  <1>6. CASE Failure /\ UNCHANGED got
    <2>1. CountInv'
      BY <1>0, <1>1, <1>6, FailureCount
    <2>2. NumInv' /\ GotInv'
      BY <1>0, <1>1, <1>3, <1>6, FailureNumbers
    <2> QED
      BY <1>2, <2>1, <2>2 DEF ClientInv
  <1> QED
    BY <1>4, <1>5, <1>6 DEF Receive

LEMMA TimeoutKeeps == ASSUME ClientInv, Timeout PROVE ClientInv'
  <1>0. TypeOK /\ CountInv /\ EchoInv /\ NumInv /\ GotInv
    BY DEF ClientInv
  <1>1. waiting /\ Failure /\ UNCHANGED <<echo, type, sent, flight, inbox, given, calls, got>>
    BY DEF Timeout
  <1>2. TypeOK' /\ EchoInv'
    BY <1>0, <1>1, TimeoutType DEF EchoInv
  <1>3. Held' \subseteq Held
    BY <1>1 DEF Held
  <1>4. CountInv'
    BY <1>0, <1>1, FailureCount
  <1>5. NumInv' /\ GotInv'
    BY <1>0, <1>1, <1>3, FailureNumbers
  <1> QED
    BY <1>2, <1>4, <1>5 DEF ClientInv

LEMMA AgentKeeps ==
    ASSUME NumSuffices, ClientInv, NEW q \in asked, Answer(q) \/ AnswerError(q)
    PROVE  ClientInv'
  <1>0. TypeOK /\ CountInv /\ EchoInv /\ NumInv /\ GotInv
    BY DEF ClientInv
  <1>1. asked' = asked \ {q} /\ UNCHANGED <<echo, sent, calls, retry, waiting>>
    BY DEF Answer, AnswerError
  <1>2. TypeOK' /\ EchoInv'
    BY <1>0, <1>1, AgentType DEF EchoInv
  <1>3. given < NumRange
    BY <1>0, NumbersLeft
  <1>4. CASE Answer(q)
    <2>1. given' = given + 1
      BY <1>3, <1>4 DEF Answer
    <2>2. CountInv'
      BY <1>0, <1>1, <2>1, AnswerCount
    <2>3. NumInv' /\ GotInv'
      BY <1>0, <1>3, <1>4, AnswerNumbers
    <2> QED
      BY <1>2, <2>2, <2>3 DEF ClientInv
  <1>5. CASE AnswerError(q)
    <2>1. given' = given
      BY <1>5 DEF AnswerError
    <2>2. CountInv'
      BY <1>0, <1>1, <2>1, AnswerCount
    <2>3. NumInv' /\ GotInv'
      BY <1>0, <1>5, ErrorNumbers
    <2> QED
      BY <1>2, <2>2, <2>3 DEF ClientInv
  <1> QED
    BY <1>4, <1>5

LEMMA NetworkKeeps ==
    ASSUME ClientInv, Lose \/ \E m \in flight : Deliver(m)
    PROVE  ClientInv'
  <1>0. TypeOK /\ CountInv /\ EchoInv /\ NumInv /\ GotInv
    BY DEF ClientInv
  <1>1. UNCHANGED <<echo, sent, calls, retry, waiting, given, got>>
    BY DEF Lose, Deliver
  <1>2. TypeOK' /\ EchoInv'
    BY <1>0, <1>1, NetworkType DEF EchoInv
  <1>3. asked' \subseteq asked
    BY DEF Lose, Deliver
  <1>4. CountInv'
    <2>1. CASE asked' = asked
      BY <1>0, <1>1, <2>1 DEF CountInv, Spent
    <2>2. CASE \E q \in asked : asked' = asked \ {q}
      BY <1>0, <1>1, <2>2, AnswerCount
    <2> QED
      BY <2>1, <2>2 DEF Lose, Deliver
  <1>5. Held' \subseteq Held
    <2>1. CASE Lose
      BY <2>1 DEF Lose, Held
    <2>2. ASSUME NEW m \in flight, Deliver(m) PROVE Held' \subseteq Held
      <3>1. inbox' = Append(inbox, m) /\ flight' \subseteq flight
        BY <2>2 DEF Deliver
      <3> QED
        BY <1>0, <3>1, HeldAppend
    <2> QED
      BY <2>1, <2>2
  <1>6. calls \in Nat
    BY <1>0 DEF TypeOK
  <1>7. NumInv' /\ GotInv'
    BY <1>0, <1>1, <1>3, <1>5, <1>6, NumbersKept
  <1> QED
    BY <1>2, <1>4, <1>7 DEF ClientInv

LEMMA NextClientInv ==
    ASSUME EchoSuffices, NumSuffices
    PROVE  ClientInv /\ [Next]_vars => ClientInv'
  <1> SUFFICES ASSUME ClientInv, [Next]_vars PROVE ClientInv'
    OBVIOUS
  <1>1. CASE UNCHANGED vars
    <2>0. TypeOK /\ CountInv /\ EchoInv /\ NumInv /\ GotInv
      BY DEF ClientInv
    <2>1. TypeOK' /\ EchoInv'
      BY <1>1, <2>0 DEF vars, TypeOK, EchoInv
    <2>2. CountInv'
      BY <1>1, <2>0 DEF vars, CountInv, Spent
    <2>3. /\ Held' \subseteq Held /\ calls \in Nat /\ asked' = asked
          /\ UNCHANGED <<given, calls, sent, got, waiting>>
      BY <1>1, <2>0 DEF vars, Held, TypeOK
    <2>4. NumInv' /\ GotInv'
      BY <2>0, <2>3, NumbersKept
    <2> QED
      BY <2>1, <2>2, <2>4 DEF ClientInv
  <1> QED
    <2>1. ASSUME NEW ty \in Types, Call(ty) PROVE ClientInv'
      BY <2>1, CallKeeps
    <2>2. ASSUME NEW q \in asked, Answer(q) \/ AnswerError(q) PROVE ClientInv'
      BY <2>2, AgentKeeps
    <2>3. CASE Lose \/ \E m \in flight : Deliver(m)
      BY <2>3, NetworkKeeps
    <2>4. CASE Receive
      BY <2>4, ReceiveKeeps
    <2>5. CASE Timeout
      BY <2>5, TimeoutKeeps
    <2> QED
      BY <1>1, <2>1, <2>2, <2>3, <2>4, <2>5 DEF Next

-----------------------------------------------------------------------------
\* A call of CUniqId returns only the answer to a request of its own, and two calls
\* never the same number, whatever is late, lost, repeated or left in the socket, with
\* any number of agents, retries, faults and calls: the echo numbers and those of the
\* agents must last for the calls.
THEOREM AnswerOwnHolds ==
    ASSUME EchoSuffices, NumSuffices
    PROVE  Spec => []AnswerOwn
  <1>1. ClientInv => AnswerOwn
    BY DEF ClientInv, GotInv, AnswerOwn
  <1> QED
    BY InitClientInv, NextClientInv, <1>1, PTL DEF Spec

\* The client never makes more attempts than retry_times allows, and its messages have
\* the shapes the code gives them.
THEOREM ClientTypeCorrect ==
    ASSUME EchoSuffices, NumSuffices
    PROVE  Spec => []TypeOK
  <1>1. ClientInv => TypeOK
    BY DEF ClientInv
  <1> QED
    BY InitClientInv, NextClientInv, <1>1, PTL DEF Spec
=============================================================================
