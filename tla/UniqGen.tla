------------------------------ MODULE UniqGen ------------------------------
(***************************************************************************)
(* The 64-bit identifiers of uniq_id: user, label, hour and the low bits   *)
(* of the sequence number.  The agent puts them together in get_uniq_id()  *)
(* (application/uniq_id/src/agent.cpp), the client in get_local_uniq_id()  *)
(* (uniq_id.cpp).  This module adds them to the sequence block of UniqSeq; *)
(* all are of one agent, so the label is left out.                         *)
(***************************************************************************)
EXTENDS UniqSeq

CONSTANTS
    IdMod,        \* numbers the field UniqID.seq tells apart, 2^29 in the code
    Hour,         \* ticks of the clock in an hour
    TmAge,        \* ticks that the agent reuses a broken-down time, 30 seconds
    ClientTimes,  \* values of current_seconds, beside 0, that clients pass
    MaxIds,       \* bound: identifiers in a behaviour
    MaxTime       \* bound: last tick of the clock

ASSUME GenAssumption ==
    /\ IdMod \in Nat \ {0} /\ SeqMod % IdMod = 0
    /\ Hour \in Nat \ {0} /\ TmAge \in Nat
    /\ ClientTimes \subseteq (TmAge + 1)..MaxTime
    /\ MaxIds \in Nat /\ MaxTime \in Nat

VARIABLES
    now,       \* _current_time of the agent, time(NULL) of the clients
    oldTime,   \* static old_time of get_uniq_id(); old_tm is its hour
    oldSeq,    \* _old_seq
    oldHour,   \* _old_year, _old_month, _old_day and _old_hour; -1 at first
    laps,      \* history: how often the counter has passed its end
    ids        \* history: the identifiers, with the place of the number in all
               \* the numbers of the counter

genVars == <<now, oldTime, oldSeq, oldHour, laps, ids>>

GenInit ==
    /\ Init
    /\ now = TmAge + 1
    /\ oldTime = 0
    /\ oldSeq = 0
    /\ oldHour = -1
    /\ laps = 0
    /\ ids = <<>>

\* Mutant: the field for the sequence number is a bit narrower.
IdNarrow(user, hour, seq, place) ==
    [user |-> user, hour |-> hour, seq |-> seq % (IdMod \div 2), place |-> place]

Id(user, hour, seq, place) ==
    [user |-> user, hour |-> hour, seq |-> seq % IdMod, place |-> place]

\* A reply moves the counter on, past its end if it is smaller afterwards.
CountLaps == laps' = IF sequence' < sequence THEN laps + 1 ELSE laps

\* A restart goes on from the number in the file, which may be from before the end,
\* and may pass the end itself.
RestoredLaps ==
    (IF file > sequence THEN laps - 1 ELSE laps) + (IF RestoreWraps THEN 1 ELSE 0)

-----------------------------------------------------------------------------
(* get_uniq_id of the agent.                                               *)

\* The time whose hour goes into the identifier: the cached one, unless the
\* time asked for is more than TmAge later.
TmTime(t) == IF t - oldTime > TmAge THEN t ELSE oldTime

Overflow(seq, hour) == oldSeq > seq /\ oldHour = hour

\* CUniqId::get_uniq_id: the user of the caller is overwritten by 0 on the way.
SentUser(user) == 0

\* One request: current_seconds is t, or 0 for the time of the agent.
GetUniqId(user, t) ==
    LET taken == Single(sequence)
        at    == IF t = 0 THEN now ELSE t
        hour  == TmTime(at) \div Hour
    IN  /\ running /\ ~ioError
        /\ Len(ids) < MaxIds
        /\ IF MustStore THEN StoreOk(sequence)
           ELSE UNCHANGED <<file, start, unsynced, durable, ioError>>
        /\ sequence' = taken.next
        /\ wrapped' = (wrapped \/ taken.next < sequence)
        /\ CountLaps
        /\ oldTime' = TmTime(at)
        /\ \/ /\ Overflow(taken.first, hour)
              /\ UNCHANGED <<oldSeq, oldHour, ids>>
           \/ /\ ~Overflow(taken.first, hour)
              /\ oldSeq' = taken.first
              /\ oldHour' = hour
              /\ ids' = Append(ids, Id(SentUser(user), hour, taken.first,
                                       laps * SeqMod + taken.first))
        /\ UNCHANGED <<running, restarts, issued, now>>

\* get_local_uniq_id: num numbers in one request, put together by the client
\* with its own time.
GetLocalUniqId(user, num) ==
    LET taken == Take(sequence, num)
        lap   == IF taken.first < sequence THEN laps + 1 ELSE laps
    IN  /\ Len(ids) + num <= MaxIds
        /\ GetUniqSeq(num)
        /\ CountLaps
        /\ ids' = IF taken.first = 0 THEN ids
                  ELSE ids \o [i \in 1..num |->
                          Id(user, now \div Hour, taken.first + i - 1,
                             lap * SeqMod + taken.first + i - 1)]
        /\ UNCHANGED <<now, oldTime, oldSeq, oldHour>>

\* The other steps of the agent; the memory of the process goes with it.
OtherStep ==
    /\ Restore \/ RestoreFailed \/ GetUniqSeqFailed \/ LabelChange
       \/ LabelChangeFailed \/ ProcessCrash \/ WriteBack \/ MachineCrash
    /\ laps' = IF ~running /\ running' THEN RestoredLaps ELSE laps
    /\ IF running /\ ~running'
       THEN oldTime' = 0 /\ oldSeq' = 0 /\ oldHour' = -1
       ELSE UNCHANGED <<oldTime, oldSeq, oldHour>>
    /\ UNCHANGED <<now, ids>>

Tick ==
    /\ now < MaxTime
    /\ now' = now + 1
    /\ UNCHANGED <<vars, oldTime, oldSeq, oldHour, laps, ids>>

\* Callers pass the minute as user, as uniq_id.h:110 advises.
GenNext ==
    \/ \E t \in ClientTimes \cup {0} : GetUniqId(now, t)
    \/ \E num \in 1..MaxNum : GetLocalUniqId(now, num)
    \/ OtherStep
    \/ Tick

GenSpec == GenInit /\ [][GenNext]_<<vars, genVars>>

-----------------------------------------------------------------------------
Same(i, j) == i.user = j.user /\ i.hour = j.hour /\ i.seq = j.seq

\* The identifiers of one hour take fewer than IdMod numbers of the counter.
InQuota ==
    \A i, j \in DOMAIN ids :
        i < j /\ ids[i].hour = ids[j].hour => ids[j].place - ids[i].place < IdMod

\* "Mind that an hour may not have more than this number, or identifiers
\* repeat" (uniq_id.h:66): as long as it has not, no identifier is made twice, be
\* it by agent or client, in one process or after a restart, past the end of the
\* counter or with a broken-down time of the hour before.
IdUnique ==
    InQuota => \A i, j \in DOMAIN ids : i < j => ~Same(ids[i], ids[j])
=============================================================================
