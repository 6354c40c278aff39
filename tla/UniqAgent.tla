----------------------------- MODULE UniqAgent -----------------------------
(***************************************************************************)
(* The lease side of UniqAgent (application/uniq_id/src/agent.cpp): the    *)
(* label of the sequence block, when it was renewed, the requests to the   *)
(* master and the answers.  The sequence number is in UniqSeq; here a      *)
(* store may or may not reach the file.                                    *)
(***************************************************************************)
EXTENDS UniqNet

CONSTANTS
    Interval,   \* argument::interval
    Mortal,     \* the agents that may die or fail to start
    MaxLoop     \* most ticks init() or a round of the receive loop takes

\* init() refuses an expire below twice the interval.
ASSUME AgentAssumption ==
    /\ Interval \in Nat \ {0}
    /\ Expire >= 2 * Interval
    /\ MaxLoop \in Nat

VARIABLES
    mode,       \* "down", "rent1" and "rent2" (get_label(false) in init()),
                \* "idle" in epoll, "batch" in the receive loop
    clock,      \* _current_time; 0 where it is not read before it is set
    label,      \* _seq_block.label
    stamp,      \* _seq_block.timestamp
    lastRent,   \* _last_rent_time
    disk        \* [label, stamp] in .uniq.seq; stamp is Never if it is empty

agentVars == <<mode, clock, label, stamp, lastRent, disk>>

Never == -(MaxTime + Expire + Interval + 1)    \* a time long ago

Block == [label : 0..LabelMax, stamp : Int]

AgentInit ==
    /\ mode = [a \in Agents |-> "down"]
    /\ clock = [a \in Agents |-> 0]
    /\ label = [a \in Agents |-> 0]
    /\ stamp = [a \in Agents |-> Never]
    /\ lastRent = [a \in Agents |-> Never]
    /\ disk = [a \in Agents |-> [label |-> 0, stamp |-> Never]]

AgentTypeOK ==
    /\ mode \in [Agents -> {"down", "rent1", "rent2", "idle", "batch"}]
    /\ clock \in [Agents -> Nat]
    /\ label \in [Agents -> 0..LabelMax]
    /\ stamp \in [Agents -> Int]
    /\ lastRent \in [Agents -> Int]
    /\ disk \in [Agents -> Block]

-----------------------------------------------------------------------------
\* Mutant: the label is used one tick longer.
LabelExpiredLate(a, t) == t - stamp[a] > Expire + 1

\* label_expired() with the time t in _current_time.
LabelExpired(a, t) == t - stamp[a] > Expire

\* store_sequence(): the block goes to the file.
StoreOk(a, l, s) == disk' = [disk EXCEPT ![a] = [label |-> l, stamp |-> s]]

\* The caller goes on when pwrite has failed.
Store(a, l, s) == StoreOk(a, l, s) \/ UNCHANGED disk

(* restore_sequence                                                        *)

\* The block has expired, or there is none: a label must be rented first.
StartRent(a) ==
    /\ mode[a] = "down"
    /\ now - disk[a].stamp > Expire
    /\ mode' = [mode EXCEPT ![a] = "rent1"]
    /\ clock' = [clock EXCEPT ![a] = now]
    /\ label' = [label EXCEPT ![a] = disk[a].label]
    /\ stamp' = [stamp EXCEPT ![a] = disk[a].stamp]
    /\ lastRent' = [lastRent EXCEPT ![a] = Never]
    /\ SendRequest([from |-> a, label |-> disk[a].label])
    /\ UNCHANGED <<now, responses, disk>>

\* The block has not expired: its label is dropped, its timestamp kept.
StartUnexpired(a) ==
    /\ mode[a] = "down"
    /\ now - disk[a].stamp <= Expire
    /\ mode' = [mode EXCEPT ![a] = "idle"]
    /\ label' = [label EXCEPT ![a] = 0]
    /\ stamp' = [stamp EXCEPT ![a] = disk[a].stamp]
    /\ lastRent' = [lastRent EXCEPT ![a] = Never]
    /\ StoreOk(a, 0, disk[a].stamp)
    /\ UNCHANGED <<netVars, clock>>

\* get_label(false) reads an answer.  Echo numbers start at 0 in every process,
\* so an answer to the former process may pass the check of the echo; one that
\* does not pass ends init(), as AgentDies.
RentAnswered(a, r) ==
    /\ mode[a] \in {"rent1", "rent2"}
    /\ r \in Fresh(now) /\ r.to = a /\ r.kind = "label"
    /\ mode' = [mode EXCEPT ![a] = "idle"]
    /\ clock' = [clock EXCEPT ![a] = 0]
    /\ label' = [label EXCEPT ![a] = r.label]
    /\ stamp' = [stamp EXCEPT ![a] = clock[a]]
    /\ StoreOk(a, r.label, clock[a])
    /\ UNCHANGED <<netVars, lastRent>>

\* Mutant: the -1 of a failed get_label() becomes the label.
RentAgainMinusOne(a, r) ==
    /\ mode[a] = "rent1"
    /\ r \in Fresh(now) /\ r.to = a /\ r.kind = "nothold"
    /\ mode' = [mode EXCEPT ![a] = "rent2"]
    /\ label' = [label EXCEPT ![a] = -1]
    /\ SendRequest([from |-> a, label |-> 0])
    /\ UNCHANGED <<now, responses, clock, stamp, lastRent, disk>>

\* ERROR_LABEL_NOT_HOLD: once more, for any label.
RentAgain(a, r) ==
    /\ mode[a] = "rent1"
    /\ r \in Fresh(now) /\ r.to = a /\ r.kind = "nothold"
    /\ mode' = [mode EXCEPT ![a] = "rent2"]
    /\ label' = [label EXCEPT ![a] = 0]
    /\ SendRequest([from |-> a, label |-> 0])
    /\ UNCHANGED <<now, responses, clock, stamp, lastRent, disk>>

-----------------------------------------------------------------------------
(* run                                                                     *)

\* epoll returns; every Interval a renewal is sent, and not waited for.
Wake(a) ==
    /\ mode[a] = "idle"
    /\ mode' = [mode EXCEPT ![a] = "batch"]
    /\ clock' = [clock EXCEPT ![a] = now]
    /\ \/ /\ now - lastRent[a] > Interval
          /\ SendRequest([from |-> a, label |-> label[a]])
          /\ lastRent' = [lastRent EXCEPT ![a] = now]
       \/ /\ now - lastRent[a] <= Interval
          /\ UNCHANGED <<requests, lastRent>>
    /\ UNCHANGED <<now, responses, label, stamp, disk>>

\* on_response_label: taken whatever request it answers.
OnResponseLabel(a, r) ==
    /\ mode[a] = "batch"
    /\ r \in Fresh(now) /\ r.to = a /\ r.kind = "label"
    /\ label' = [label EXCEPT ![a] = r.label]
    /\ stamp' = [stamp EXCEPT ![a] = clock[a]]
    /\ IF label[a] # r.label THEN Store(a, r.label, clock[a]) ELSE UNCHANGED disk
    /\ UNCHANGED <<netVars, mode, clock, lastRent>>

\* on_response_error with ERROR_LABEL_NOT_HOLD: ask for any label.
OnResponseError(a, r) ==
    /\ mode[a] = "batch"
    /\ r \in Fresh(now) /\ r.to = a /\ r.kind = "nothold"
    /\ label' = [label EXCEPT ![a] = 0]
    /\ SendRequest([from |-> a, label |-> 0])
    /\ UNCHANGED <<now, responses, mode, clock, stamp, lastRent, disk>>

\* A client is served and inc_sequence() stores the block on the way.
ServeAndStore(a) ==
    /\ mode[a] = "batch"
    /\ ~LabelExpired(a, clock[a])
    /\ Store(a, label[a], stamp[a])
    /\ UNCHANGED <<netVars, mode, clock, label, stamp, lastRent>>

\* The loop has read what there was, or 10000 datagrams.
EndBatch(a) ==
    /\ mode[a] = "batch"
    /\ mode' = [mode EXCEPT ![a] = "idle"]
    /\ clock' = [clock EXCEPT ![a] = 0]
    /\ UNCHANGED <<netVars, label, stamp, lastRent, disk>>

\* The process dies, or init() fails: no answer in two seconds, one that will
\* not do, or the block cannot be stored.
AgentDies(a) ==
    /\ a \in Mortal
    /\ mode[a] # "down"
    /\ mode' = [mode EXCEPT ![a] = "down"]
    /\ clock' = [clock EXCEPT ![a] = 0]
    /\ label' = [label EXCEPT ![a] = 0]
    /\ stamp' = [stamp EXCEPT ![a] = Never]
    /\ lastRent' = [lastRent EXCEPT ![a] = Never]
    /\ UNCHANGED <<netVars, disk>>

AgentStep(a) ==
    \/ StartRent(a)
    \/ StartUnexpired(a)
    \/ Wake(a)
    \/ \E r \in responses : \/ RentAnswered(a, r)
                            \/ RentAgain(a, r)
                            \/ OnResponseLabel(a, r)
                            \/ OnResponseError(a, r)
    \/ ServeAndStore(a)
    \/ EndBatch(a)
    \/ AgentDies(a)
=============================================================================
