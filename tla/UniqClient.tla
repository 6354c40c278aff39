----------------------------- MODULE UniqClient -----------------------------
(***************************************************************************)
(* The client library CUniqId (application/uniq_id/src/uniq_id.cpp): the   *)
(* loop that sends a request to an agent, waits for one datagram, checks   *)
(* it and turns to the next agent when it will not do.  The calls of the   *)
(* library differ only in the type of the request, so they are one here.   *)
(*                                                                         *)
(* The socket keeps the datagrams that come when nobody waits for them.    *)
(* MaxFaults bounds what goes wrong: answers that are lost, repeated or    *)
(* come after the client has stopped waiting.                              *)
(***************************************************************************)
EXTENDS Integers, Sequences

CONSTANTS
    NAgents,     \* the agents are 0..NAgents-1, in the order of _agents_addr
    Polling,     \* _polling: round robin instead of a random agent
    RetryTimes,  \* _retry_times
    Types,       \* types of request, and of the answers to them
    EchoStart,   \* ECHO_START
    EchoRange,   \* echo numbers, 2^32 in the code
    NumRange,    \* numbers an agent has to give
    MaxFaults,   \* bound: faults of the network
    MaxCalls     \* bound: calls

ASSUME ClientAssumption ==
    /\ NAgents \in Nat \ {0} /\ Polling \in BOOLEAN /\ RetryTimes \in Nat
    /\ "error" \notin Types
    /\ EchoStart \in Nat \ {0} /\ EchoRange \in Nat /\ EchoRange > EchoStart + 1
    /\ NumRange \in Nat \ {0} /\ MaxFaults \in Nat /\ MaxCalls \in Nat

Agents == 0..(NAgents - 1)

VARIABLES
    echo,      \* _echo
    factor,    \* static factor of pick_agent(), modulo NAgents
    waiting,   \* in timed_receive_from
    type,      \* type of the call
    sent,      \* echo of the request
    agent,     \* agent_addr
    retry,     \* retry
    asked,     \* requests under way: [to, type, echo, call, retry]
    flight,    \* answers under way: [from, type, echo, num, call]
    inbox,     \* answers in the receive buffer of the socket
    given,     \* numbers the agents have given so far
    faults,    \* faults so far
    calls,     \* history: calls so far
    got        \* history: [num, call, answer] of the calls that returned

vars == <<echo, factor, waiting, type, sent, agent, retry, asked, flight, inbox,
          given, faults, calls, got>>

\* call is the number of the call a request was made by, for the properties.
Message == [from : Agents, type : Types \cup {"error"}, echo : 0..(EchoRange - 1),
            num : 0..NumRange, call : 0..MaxCalls]

Init ==
    /\ echo = EchoStart
    /\ factor = 0
    /\ waiting = FALSE
    /\ type \in Types
    /\ sent = 0
    /\ agent = 0
    /\ retry = 0
    /\ asked = {}
    /\ flight = {}
    /\ inbox = <<>>
    /\ given = 0
    /\ faults = 0
    /\ calls = 0
    /\ got = <<>>

-----------------------------------------------------------------------------
\* get_echo, without the random start after the numbers have run out.
GetEcho(e) == IF e < EchoStart THEN EchoStart ELSE IF e % 10 = 0 THEN e + 1 ELSE e

\* pick_agent
Picked == IF Polling THEN {factor} ELSE Agents

\* An attempt: pick an agent and send it the request.
Attempt(ty, e, call, r) ==
    /\ \E a \in Picked :
          /\ agent' = a
          /\ asked' = asked \cup {[to |-> a, type |-> ty, echo |-> e,
                                   call |-> call, retry |-> r]}
    /\ factor' = (factor + 1) % NAgents
    /\ retry' = r
    /\ waiting' = TRUE

Call(ty) ==
    LET e == GetEcho(echo)
    IN  /\ ~waiting
        /\ calls < MaxCalls
        /\ calls' = calls + 1
        /\ type' = ty
        /\ sent' = e
        /\ echo' = (e + 1) % EchoRange
        /\ Attempt(ty, e, calls + 1, 0)
        /\ UNCHANGED <<flight, inbox, given, faults, got>>

\* The condition of the catch blocks: this attempt was the last one.
LastAttempt == RetryTimes = 0 \/ retry + 1 >= RetryTimes

\* An attempt has failed: throw, or try again with the same request.
Failure ==
    \/ /\ LastAttempt
       /\ waiting' = FALSE
       /\ UNCHANGED <<agent, asked, factor, retry>>
    \/ /\ ~LastAttempt
       /\ Attempt(type, sent, calls, retry + 1)

\* Mutant: the echo of the answer is not compared.
AcceptedAnyEcho(m) == m.from = agent /\ m.type = type

\* The checks of an answer; an error is refused before its echo is looked at.
Accepted(m) == m.from = agent /\ m.type = type /\ m.echo = sent

\* timed_receive_from returns the oldest datagram of the socket.
Receive ==
    /\ waiting
    /\ inbox # <<>>
    /\ inbox' = Tail(inbox)
    /\ LET m == Head(inbox)
       IN  \/ /\ Accepted(m)
              /\ waiting' = FALSE
              /\ got' = Append(got, [num |-> m.num, type |-> m.type,
                                     call |-> calls, answer |-> m.call])
              /\ UNCHANGED <<agent, asked, factor, retry>>
           \/ /\ ~Accepted(m)
              /\ Failure
              /\ UNCHANGED got
    /\ UNCHANGED <<echo, type, sent, flight, given, faults, calls>>

\* ETIMEDOUT: the answer is late or there is none.
Timeout ==
    /\ waiting
    /\ inbox = <<>>
    /\ \/ faults < MaxFaults /\ faults' = faults + 1
       \/ asked = {} /\ flight = {} /\ UNCHANGED faults
    /\ Failure
    /\ UNCHANGED <<echo, type, sent, flight, inbox, given, calls, got>>

-----------------------------------------------------------------------------
(* The agents and the network.                                             *)

\* The prepare_response functions: each number is given once (UniqSeq).
Answer(q) ==
    /\ q \in asked
    /\ asked' = asked \ {q}
    /\ given' = IF given < NumRange THEN given + 1 ELSE 1
    /\ flight' = flight \cup {[from |-> q.to, type |-> q.type, echo |-> q.echo,
                               num |-> given', call |-> q.call]}
    /\ UNCHANGED <<echo, factor, waiting, type, sent, agent, retry, inbox,
                   faults, calls, got>>

\* prepare_response_error: expired label, failed store.
AnswerError(q) ==
    /\ q \in asked
    /\ faults < MaxFaults
    /\ faults' = faults + 1
    /\ asked' = asked \ {q}
    /\ flight' = flight \cup {[from |-> q.to, type |-> "error", echo |-> q.echo,
                               num |-> 0, call |-> q.call]}
    /\ UNCHANGED <<echo, factor, waiting, type, sent, agent, retry, inbox,
                   given, calls, got>>

Deliver(m) ==
    /\ m \in flight
    /\ inbox' = Append(inbox, m)
    /\ \/ flight' = flight \ {m} /\ UNCHANGED faults
       \/ faults < MaxFaults /\ faults' = faults + 1 /\ UNCHANGED flight
    /\ UNCHANGED <<echo, factor, waiting, type, sent, agent, retry, asked,
                   given, calls, got>>

Lose ==
    /\ faults < MaxFaults
    /\ faults' = faults + 1
    /\ \/ \E q \in asked : asked' = asked \ {q} /\ UNCHANGED flight
       \/ \E m \in flight : flight' = flight \ {m} /\ UNCHANGED asked
    /\ UNCHANGED <<echo, factor, waiting, type, sent, agent, retry, inbox,
                   given, calls, got>>

Next ==
    \/ \E ty \in Types : Call(ty)
    \/ Receive
    \/ Timeout
    \/ \E q \in asked : Answer(q) \/ AnswerError(q)
    \/ \E m \in flight : Deliver(m)
    \/ Lose

Spec == Init /\ [][Next]_vars

-----------------------------------------------------------------------------
\* Type invariant: the attempts of a call never exceed retry_times.
TypeOK ==
    /\ echo \in 0..(EchoRange - 1) /\ sent \in 0..(EchoRange - 1)
    /\ factor \in Agents /\ agent \in Agents
    /\ waiting \in BOOLEAN
    /\ type \in Types
    /\ retry \in 0..RetryTimes
    /\ asked \subseteq [to : Agents, type : Types, echo : 0..(EchoRange - 1),
                        call : 0..MaxCalls, retry : 0..RetryTimes]
    /\ flight \subseteq Message
    /\ inbox \in Seq(Message)
    /\ given \in 0..NumRange
    /\ faults \in 0..MaxFaults
    /\ calls \in 0..MaxCalls

\* A call returns only what an agent answered to a request of this very call,
\* whatever datagrams of earlier calls are left in the socket, late or repeated:
\* so a number is never given to two callers.
AnswerOwn ==
    /\ \A i \in DOMAIN got : got[i].answer = got[i].call
    /\ \A i, j \in DOMAIN got : i < j => got[i].num # got[j].num
=============================================================================
