------------------------------ MODULE UniqNet ------------------------------
(***************************************************************************)
(* What UniqMaster and UniqAgent share: the clock and the UDP datagrams    *)
(* between them (application/uniq_id/src/protocol.h).                      *)
(*                                                                         *)
(* A datagram stays under way after it has been read, so it may arrive     *)
(* again, in any order; one that is never read is lost.  Requests may be   *)
(* arbitrarily late; an answer older than MaxDelay is taken for lost.  Of  *)
(* the error answers only ERROR_LABEL_NOT_HOLD changes an agent that runs, *)
(* and a starting agent takes any other one like no answer, so only that   *)
(* one is a message here.                                                  *)
(***************************************************************************)
EXTENDS Integers

CONSTANTS
    Agents,     \* the agents, each known to the masters by its IP
    LabelMax,   \* labels are 1..LabelMax; 254 in the code
    Expire,     \* argument::expire, the same for masters and agents
    Hour,       \* 3600 seconds, in ticks of the clock
    MaxDelay,   \* most ticks between the sending and the reading of an answer
    MaxTime     \* bound: last tick of the clock

ASSUME NetAssumption ==
    /\ LabelMax \in Nat \ {0}
    /\ Expire \in Nat \ {0}
    /\ Hour \in Nat \ {0}
    /\ MaxDelay \in Nat
    /\ MaxTime \in Nat

VARIABLES
    now,        \* time(NULL)
    requests,   \* REQUEST_LABEL datagrams: [from, label], label in value1
    responses   \* answers: [to, kind, label, sent], sent only for the bound

netVars == <<now, requests, responses>>

Labels == 1..LabelMax

Request == [from : Agents, label : 0..LabelMax]

\* kind "label" is RESPONSE_LABEL, "nothold" RESPONSE_ERROR with
\* ERROR_LABEL_NOT_HOLD (label is then 0).
Response == [to : Agents, kind : {"label", "nothold"}, label : 0..LabelMax, sent : Nat]

NetInit ==
    /\ now = 0
    /\ requests = {}
    /\ responses = {}

NetTypeOK ==
    /\ now \in Nat
    /\ requests \subseteq Request
    /\ responses \subseteq Response

\* Answers still young enough to be read at time t.
Fresh(t) == {r \in responses : t <= r.sent + MaxDelay}

SendRequest(q) == requests' = requests \cup {q}

SendResponse(r) == responses' = responses \cup {r}
=============================================================================
