------------------------------ MODULE UniqSeq ------------------------------
(***************************************************************************)
(* The sequence block of one UniqAgent (application/uniq_id/src/agent.cpp).*)
(*                                                                         *)
(* The agent hands out numbers from a 32-bit counter that it keeps in      *)
(* memory and writes to the file .uniq.seq only now and then, without      *)
(* fsync.  A restart reads the file back and jumps ahead by 2*steps to     *)
(* stay clear of the numbers handed out since the last write.  This module *)
(* has the counter, the file as the kernel caches it, the part of the file *)
(* that is on the platter, and the crashes of the process and of the       *)
(* machine.  Labels, times and messages are in UniqLabel and UniqGen.      *)
(***************************************************************************)
EXTENDS Integers, Sequences

CONSTANTS
    Steps,        \* argument::steps, how far memory may run ahead of the file
    SeqMod,       \* number of values of the counter, 2^32 in the code
    MaxNum,       \* largest batch a client asks for
    MaxUnsynced,  \* most stores a crash of the machine may undo
    MaxIssued,    \* bound: replies in a behaviour
    MaxRestarts   \* bound: starts of the process in a behaviour

\* uniq_id.h:101 requires steps >= num of every client.
ASSUME SeqAssumption ==
    /\ Steps \in Nat \ {0}
    /\ SeqMod \in Nat /\ SeqMod > 2 * Steps + 2
    /\ MaxNum \in Nat \ {0} /\ MaxNum <= Steps
    /\ MaxUnsynced \in Nat
    /\ MaxIssued \in Nat
    /\ MaxRestarts \in Nat

NoFile == -1      \* .uniq.seq is empty
Torn   == -2      \* a block whose magic is wrong, restore_sequence refuses it

VARIABLES
    running,   \* the process is up and past init()
    sequence,  \* _seq_block.sequence; while down, its last value (never read)
    start,     \* _sequence_start
    ioError,   \* _io_error
    file,      \* the sequence number in .uniq.seq, as the kernel sees it
    durable,   \* the same, as a crash of the machine would leave it
    unsynced,  \* stores since the last write-back, capped at MaxUnsynced + 1
    wrapped,   \* history: the counter has gone past SeqMod
    issued,    \* history: the ranges [first, num] sent to clients
    restarts   \* history: starts of the process

vars == <<running, sequence, start, ioError, file, durable, unsynced,
          wrapped, issued, restarts>>

Init ==
    /\ running = FALSE
    /\ sequence = 0
    /\ start = 0
    /\ ioError = FALSE
    /\ file = NoFile
    /\ durable = NoFile
    /\ unsynced = 0
    /\ wrapped = FALSE
    /\ issued = <<>>
    /\ restarts = 0

-----------------------------------------------------------------------------
(* store_sequence: pwrite of the whole block at offset 0, no fsync.        *)

StoreOk(seq) ==
    /\ file' = seq
    /\ start' = seq
    /\ unsynced' = IF unsynced > MaxUnsynced THEN unsynced ELSE unsynced + 1
    /\ UNCHANGED <<durable, ioError>>

\* A failed pwrite leaves the block as it was or cut short.
StoreFailed ==
    /\ file' \in {file, Torn}
    /\ ioError' = TRUE
    /\ unsynced' = IF unsynced > MaxUnsynced THEN unsynced ELSE unsynced + 1
    /\ UNCHANGED <<durable, start>>

(* restore_sequence, called by init(); a failed get_label or an unreadable *)
(* block ends the process before anything changed, which is no step here.  *)

\* Variants with a plausible slip, used to see which property notices it.
RestoredAsStored == IF file = NoFile THEN Steps ELSE file
RestoredThreeSteps == IF file = NoFile THEN Steps ELSE (file + 3 * Steps) % SeqMod

RestoredSequence == IF file = NoFile THEN Steps ELSE (file + 2 * Steps) % SeqMod

RestoreWraps == file # NoFile /\ file + 2 * Steps >= SeqMod

Restore ==
    /\ ~running
    /\ restarts < MaxRestarts
    /\ restarts' = restarts + 1
    /\ file # Torn
    /\ sequence' = RestoredSequence
    /\ wrapped' = (wrapped \/ RestoreWraps)
    /\ StoreOk(RestoredSequence)
    /\ running' = TRUE
    /\ UNCHANGED issued

\* The first store fails: init() returns false and the process ends.  (One that
\* wrote nothing at all changes nothing.)
RestoreFailed ==
    /\ ~running
    /\ restarts < MaxRestarts
    /\ restarts' = restarts + 1
    /\ file # Torn
    /\ file' = Torn
    /\ unsynced' = IF unsynced > MaxUnsynced THEN unsynced ELSE unsynced + 1
    /\ UNCHANGED <<running, sequence, start, ioError, durable, wrapped, issued>>

-----------------------------------------------------------------------------
(* inc_sequence                                                            *)

MustStore == sequence < start \/ sequence - start > Steps

\* Variants of the two: no modulus, no restart of a batch at the end.
SingleNoWrap(s) ==
    LET f == IF s = 0 THEN 1 ELSE s
    IN  [first |-> f, next |-> f + 1]
BatchAcrossEnd(s, deta) == [first |-> s, next |-> (s + deta) % SeqMod]

\* One number; 0 is skipped because a reply of 0 means an error.
Single(s) ==
    LET f == IF s = 0 THEN 1 ELSE s
    IN  [first |-> f, next |-> (f + 1) % SeqMod]

\* A batch that would run over the end of the counter starts again at 1.
Batch(s, deta) ==
    IF s < (s + deta) % SeqMod
    THEN [first |-> s, next |-> (s + deta) % SeqMod]
    ELSE [first |-> 1, next |-> (1 + deta) % SeqMod]

Take(s, deta) == IF deta <= 1 THEN Single(s) ELSE Batch(s, deta)

NumOf(deta) == IF deta <= 1 THEN 1 ELSE deta

(* prepare_response_get_uniq_seq and prepare_response_get_label_and_seq    *)
(* once label_expired() and io_error() have let the request through.       *)

Reply(deta) ==
    LET t == Take(sequence, deta)
    IN  /\ sequence' = t.next
        /\ wrapped' = (wrapped \/ t.next < sequence)
        /\ issued' = IF t.first = 0 THEN issued
                     ELSE Append(issued, [first |-> t.first, num |-> NumOf(deta)])

GetUniqSeq(deta) ==
    /\ running /\ ~ioError
    /\ Len(issued) < MaxIssued
    /\ Reply(deta)
    /\ IF MustStore THEN StoreOk(sequence)
       ELSE UNCHANGED <<file, start, unsynced, durable, ioError>>
    /\ UNCHANGED <<running, restarts>>

\* The store in front of the reply fails: ERROR_STORE_SEQ, now and for good.
GetUniqSeqFailed ==
    /\ running /\ ~ioError
    /\ MustStore
    /\ StoreFailed
    /\ UNCHANGED <<running, sequence, wrapped, issued, restarts>>

(* on_response_label when the master's label differs from the held one:    *)
(* the block is stored at once and the result ignored.                     *)

LabelChange ==
    /\ running
    /\ StoreOk(sequence)
    /\ UNCHANGED <<running, sequence, wrapped, issued, restarts>>

LabelChangeFailed ==
    /\ running
    /\ StoreFailed
    /\ UNCHANGED <<running, sequence, wrapped, issued, restarts>>

-----------------------------------------------------------------------------
(* The world around the process.                                           *)

ProcessCrash ==
    /\ running
    /\ running' = FALSE
    /\ ioError' = FALSE
    /\ UNCHANGED <<sequence, start, file, durable, unsynced, wrapped, issued, restarts>>

WriteBack ==
    /\ durable # file \/ unsynced # 0
    /\ durable' = file
    /\ unsynced' = 0
    /\ UNCHANGED <<running, sequence, start, ioError, file, wrapped, issued, restarts>>

MachineCrash ==
    /\ unsynced <= MaxUnsynced
    /\ running
    /\ running' = FALSE
    /\ ioError' = FALSE
    /\ file' = durable
    /\ unsynced' = 0
    /\ UNCHANGED <<sequence, start, durable, wrapped, issued, restarts>>

Next ==
    \/ Restore
    \/ RestoreFailed
    \/ \E deta \in 0..MaxNum : GetUniqSeq(deta)
    \/ GetUniqSeqFailed
    \/ LabelChange
    \/ LabelChangeFailed
    \/ ProcessCrash
    \/ WriteBack
    \/ MachineCrash

Spec == Init /\ [][Next]_vars

-----------------------------------------------------------------------------
Word == 0..(SeqMod - 1)
SeqRange == [first : Word, num : 1..MaxNum]

\* The counter, the file and the history have the shapes the code gives them.
TypeOK ==
    /\ running \in BOOLEAN
    /\ sequence \in Word
    /\ start \in Word
    /\ ioError \in BOOLEAN
    /\ file \in Word \cup {NoFile, Torn}
    /\ durable \in Word \cup {NoFile, Torn}
    /\ unsynced \in 0..(MaxUnsynced + 1)
    /\ wrapped \in BOOLEAN
    /\ issued \in Seq(SeqRange)
    /\ restarts \in 0..MaxRestarts

Disjoint(r, q) == r.first + r.num <= q.first \/ q.first + q.num <= r.first

\* No number is handed out twice in one pass of the counter, whatever crashes
\* and restarts lie between the two replies (inc_sequence, restore_sequence).
NoReuse ==
    ~wrapped =>
        \A i, j \in DOMAIN issued : i < j => Disjoint(issued[i], issued[j])

\* Every range handed out lies in 1..SeqMod-1: never 0, which clients take for
\* an error, and never across the end of the counter (uniq_id.h:103).
RangeInWord ==
    \A i \in DOMAIN issued :
        issued[i].first >= 1 /\ issued[i].first + issued[i].num <= SeqMod

\* A restart never moves the counter back and wastes at most 2*steps numbers
\* (README.txt, advice 5: "at most twice steps are wasted by a restart").
RestartJump ==
    [][(~running /\ running' /\ ~wrapped' /\ file # NoFile)
          => sequence <= sequence' /\ sequence' <= sequence + 2 * Steps]_vars
=============================================================================
