--------------------------- MODULE UniqSeqProofs ---------------------------
(***************************************************************************)
(* Proofs about UniqSeq and UniqGen: type correctness, that no sequence    *)
(* number is handed out twice in one pass of the counter when a crash      *)
(* undoes no store, and that the identifiers made of the numbers are       *)
(* distinct, for every steps, word size and number of restarts.            *)
(***************************************************************************)
EXTENDS UniqGen, TLAPS

-----------------------------------------------------------------------------
(* Arithmetic of the counter.                                              *)

\* The modulus of a sum that passes the end of the counter at most once.
LEMMA ModOnce ==
    ASSUME NEW m \in Nat \ {0}, NEW a \in Nat, a < 2 * m
    PROVE  a % m = IF a < m THEN a ELSE a - m
  OBVIOUS

\* The same for the modulus of the counter.
LEMMA SeqModOnce ==
    \A a \in Nat : a < 2 * SeqMod =>
        a % SeqMod = IF a < SeqMod THEN a ELSE a - SeqMod
  <1>1. SeqMod \in Nat \ {0}
    BY SeqAssumption
  <1> QED
    BY ONLY <1>1, ModOnce

\* What one number costs (inc_sequence, deta <= 1).
LEMMA SingleFacts ==
    ASSUME NEW s \in Word
    PROVE  /\ Single(s).first \in Word \ {0}
           /\ Single(s).next \in Word
           /\ Single(s).next >= s =>
                 /\ Single(s).first >= s
                 /\ Single(s).next = Single(s).first + 1
                 /\ Single(s).next <= s + 1 \/ (s = 0 /\ Single(s).next = 2)
  <1> DEFINE f == IF s = 0 THEN 1 ELSE s
  <1>1. SeqMod \in Nat \ {0} /\ SeqMod > 4 /\ s \in Nat /\ s < SeqMod
    BY SeqAssumption DEF Word
  <1>2. f \in Nat /\ f < SeqMod /\ f # 0
    BY <1>1
  <1>3. (f + 1) % SeqMod = IF f + 1 < SeqMod THEN f + 1 ELSE f + 1 - SeqMod
    <2>1. f + 1 \in Nat /\ f + 1 < 2 * SeqMod
      BY <1>1, <1>2
    <2> QED
      BY <1>1, <2>1, SeqModOnce
  <1>4. Single(s) = [first |-> f, next |-> (f + 1) % SeqMod]
    BY DEF Single
  <1> HIDE DEF f
  <1>5. Single(s).first = f /\ Single(s).next = (f + 1) % SeqMod
    BY <1>4
  <1>6. s = 0 => f = 1
    BY DEF f
  <1>7. s # 0 => f = s
    BY DEF f
  <1> QED
    BY <1>1, <1>2, <1>3, <1>5, <1>6, <1>7 DEF Word

\* What a batch costs: it never runs over the end of the counter.
LEMMA BatchFacts ==
    ASSUME NEW s \in Word, NEW d \in 2..MaxNum
    PROVE  /\ Batch(s, d).first \in Word
           /\ Batch(s, d).next \in Word
           /\ Batch(s, d).first + d <= SeqMod
           /\ Batch(s, d).next >= s =>
                 /\ Batch(s, d).first >= s
                 /\ Batch(s, d).next = Batch(s, d).first + d
                 /\ Batch(s, d).next = s + d
  <1>1. /\ SeqMod \in Nat \ {0} /\ SeqMod > 2 * d + 2
        /\ s \in Nat /\ s < SeqMod /\ d \in Nat /\ d >= 2
    BY SeqAssumption DEF Word
  <1>2. (s + d) % SeqMod = IF s + d < SeqMod THEN s + d ELSE s + d - SeqMod
    <2>1. s + d \in Nat /\ s + d < 2 * SeqMod
      BY <1>1
    <2> QED
      BY <1>1, <2>1, SeqModOnce
  <1>3. (1 + d) % SeqMod = 1 + d
    <2>1. 1 + d \in Nat /\ 1 + d < SeqMod /\ 1 + d < 2 * SeqMod
      BY <1>1
    <2> QED
      BY <1>1, <2>1, SeqModOnce
  <1>4. CASE s + d < SeqMod
    BY <1>1, <1>2, <1>4 DEF Batch, Word
  <1>5. CASE s + d >= SeqMod
    BY <1>1, <1>2, <1>3, <1>5 DEF Batch, Word
  <1> QED
    BY <1>1, <1>4, <1>5

\* Both together, as the handlers use them.
LEMMA TakeFacts ==
    ASSUME NEW s \in Word, NEW d \in 0..MaxNum
    PROVE  /\ NumOf(d) \in 1..MaxNum
           /\ Take(s, d).first \in Word
           /\ Take(s, d).next \in Word
           /\ Take(s, d).first + NumOf(d) <= SeqMod
           /\ Take(s, d).next >= s =>
                 /\ Take(s, d).first >= s
                 /\ Take(s, d).next = Take(s, d).first + NumOf(d)
                 /\ Take(s, d).next <= s + MaxNum \/ (s = 0 /\ Take(s, d).next = 2)
  <1>1. MaxNum \in Nat \ {0} /\ SeqMod \in Nat
    BY SeqAssumption
  <1>2. CASE d <= 1
    <2>1. Take(s, d) = Single(s) /\ NumOf(d) = 1
      BY <1>2 DEF Take, NumOf
    <2>2. Single(s).first \in Nat /\ Single(s).first < SeqMod
      BY SingleFacts, <1>1 DEF Word
    <2> QED
      BY <2>1, <2>2, <1>1, SingleFacts DEF Word
  <1>3. CASE d > 1
    <2>1. Take(s, d) = Batch(s, d) /\ NumOf(d) = d /\ d \in 2..MaxNum
      BY <1>1, <1>3 DEF Take, NumOf
    <2> QED
      BY <2>1, <1>1, BatchFacts DEF Word
  <1> QED
    BY <1>1, <1>2, <1>3

-----------------------------------------------------------------------------
(* Type correctness.                                                       *)

\* RestoredSequence is a value of the counter.
LEMMA RestoredInWord ==
    ASSUME TypeOK, file # Torn
    PROVE  /\ RestoredSequence \in Word
           /\ ~RestoreWraps /\ file # NoFile => RestoredSequence = file + 2 * Steps
  <1>1. Steps \in Nat \ {0} /\ SeqMod \in Nat \ {0} /\ SeqMod > 2 * Steps + 2
    BY SeqAssumption
  <1>2. CASE file = NoFile
    BY <1>1, <1>2 DEF RestoredSequence, Word
  <1>3. CASE file # NoFile
    <2>1. file \in Nat /\ file < SeqMod
      BY <1>1, <1>3 DEF TypeOK, Word
    <2>2. file + 2 * Steps \in Nat /\ file + 2 * Steps < 2 * SeqMod
      BY <1>1, <2>1
    <2>3. (file + 2 * Steps) % SeqMod
             = IF file + 2 * Steps < SeqMod THEN file + 2 * Steps
               ELSE file + 2 * Steps - SeqMod
      BY <1>1, <2>1, <2>2, SeqModOnce
    <2> QED
      BY <1>1, <1>3, <2>1, <2>3 DEF RestoredSequence, RestoreWraps, Word
  <1> QED
    BY <1>2, <1>3

\* A reply appends a range of the right type and leaves the counter a word.
LEMMA ReplyType ==
    ASSUME TypeOK, NEW deta \in 0..MaxNum, Reply(deta)
    PROVE  /\ sequence' \in Word
           /\ wrapped' \in BOOLEAN
           /\ issued' \in Seq(SeqRange)
  <1>1. sequence \in Word /\ wrapped \in BOOLEAN /\ issued \in Seq(SeqRange)
    BY DEF TypeOK
  <1>2. [first |-> Take(sequence, deta).first, num |-> NumOf(deta)] \in SeqRange
    BY <1>1, TakeFacts DEF SeqRange
  <1>3. Append(issued, [first |-> Take(sequence, deta).first, num |-> NumOf(deta)])
           \in Seq(SeqRange)
    BY <1>1, <1>2
  <1> QED
    BY <1>1, <1>3, TakeFacts DEF Reply

\* A range that was handed out is a pair of naturals.
LEMMA IssuedType ==
    ASSUME TypeOK, NEW i \in DOMAIN issued
    PROVE  /\ issued[i].first \in Nat
           /\ issued[i].num \in Nat \ {0}
  <1>1. issued \in Seq(SeqRange)
    BY DEF TypeOK
  <1>2. issued[i] \in SeqRange
    BY <1>1
  <1>3. issued[i].first \in Word /\ issued[i].num \in 1..MaxNum
    BY <1>2 DEF SeqRange
  <1> QED
    BY <1>3, SeqAssumption DEF Word

\* store_sequence() leaves file, start and error flag well typed,
LEMMA StoreOkType ==
    ASSUME TypeOK, NEW s \in Word, StoreOk(s)
    PROVE  /\ file' \in Word \cup {NoFile, Torn}
           /\ start' \in Word
           /\ unsynced' \in 0..(MaxUnsynced + 1)
           /\ durable' \in Word \cup {NoFile, Torn}
           /\ ioError' \in BOOLEAN
  BY SeqAssumption DEF TypeOK, StoreOk

\* and so does a store that fails.
LEMMA StoreFailedType ==
    ASSUME TypeOK, StoreFailed
    PROVE  /\ file' \in Word \cup {NoFile, Torn}
           /\ start' \in Word
           /\ unsynced' \in 0..(MaxUnsynced + 1)
           /\ durable' \in Word \cup {NoFile, Torn}
           /\ ioError' \in BOOLEAN
  BY SeqAssumption DEF TypeOK, StoreFailed

\* A process that has not started yet has its types.
LEMMA InitType == Init => TypeOK
  <1>1. 0 \in Word /\ 0 \in 0..(MaxUnsynced + 1) /\ 0 \in 0..MaxRestarts
    BY SeqAssumption DEF Word
  <1>2. <<>> \in Seq(SeqRange)
    OBVIOUS
  <1> QED
    BY ZenonT(20), <1>1, <1>2 DEF Init, TypeOK

\* Every step of the agent, the disk and the crashes keeps the types.
LEMMA NextType == TypeOK /\ [Next]_vars => TypeOK'
  <1> SUFFICES ASSUME TypeOK, [Next]_vars PROVE TypeOK'
    OBVIOUS
  <1>1. CASE Restore
    BY <1>1, SeqAssumption, RestoredInWord, StoreOkType DEF Restore, TypeOK
  <1>2. CASE RestoreFailed
    BY <1>2, SeqAssumption DEF RestoreFailed, TypeOK
  <1>3. ASSUME NEW deta \in 0..MaxNum, GetUniqSeq(deta) PROVE TypeOK'
    <2>1. Reply(deta) /\ UNCHANGED <<running, restarts>>
      BY <1>3 DEF GetUniqSeq
    <2>2. CASE MustStore
      <3>1. StoreOk(sequence) /\ sequence \in Word
        BY <1>3, <2>2 DEF GetUniqSeq, TypeOK
      <3> QED
        BY <2>1, <3>1, ReplyType, StoreOkType DEF TypeOK
    <2>3. CASE ~MustStore
      <3>1. UNCHANGED <<file, start, unsynced, durable, ioError>>
        BY <1>3, <2>3 DEF GetUniqSeq
      <3> QED
        BY <2>1, <3>1, ReplyType DEF TypeOK
    <2> QED
      BY <2>2, <2>3
  <1>4. CASE GetUniqSeqFailed
    BY <1>4, StoreFailedType DEF GetUniqSeqFailed, TypeOK
  <1>5. CASE LabelChange
    BY <1>5, StoreOkType DEF LabelChange, TypeOK
  <1>6. CASE LabelChangeFailed
    BY <1>6, StoreFailedType DEF LabelChangeFailed, TypeOK
  <1>7. CASE ProcessCrash
    BY ZenonT(20), <1>7 DEF ProcessCrash, TypeOK
  <1>8. CASE WriteBack
    BY <1>8, SeqAssumption DEF WriteBack, TypeOK
  <1>9. CASE MachineCrash
    <2>1. 0 \in 0..(MaxUnsynced + 1)
      BY SeqAssumption
    <2> QED
      BY ZenonT(20), <1>9, <2>1 DEF MachineCrash, TypeOK
  <1>10. CASE UNCHANGED vars
    BY <1>10 DEF vars, TypeOK
  <1> QED
    BY <1>1, <1>2, <1>3, <1>4, <1>5, <1>6, <1>7, <1>8, <1>9, <1>10 DEF Next

\* The sequence block keeps its types in every behaviour.
THEOREM TypeCorrect == Spec => []TypeOK
  BY InitType, NextType, PTL DEF Spec

-----------------------------------------------------------------------------
(* No reuse.  Memory runs ahead of the file by at most Steps + MaxNum, and  *)
(* a restart jumps by 2 * Steps, so the jump passes everything handed out.  *)

\* With no store waiting for write-back, disk and cache agree.
Synced == unsynced = 0 => durable = file

\* An empty file means that nothing was ever handed out.
Fresh == file = NoFile => ~running /\ sequence = 0 /\ issued = <<>>

\* While up, the counter is at most one store interval and one batch ahead.
Ahead ==
    running =>
        /\ file # Torn => file = start
        /\ start <= sequence
        /\ sequence <= start + Steps + MaxNum

\* While down, the file is at most 2 * Steps behind where the counter was.
Behind ==
    ~running /\ file \in Word =>
        file <= sequence /\ sequence <= file + 2 * Steps

\* Everything handed out is below the counter.
Below ==
    \A i \in DOMAIN issued : issued[i].first + issued[i].num <= sequence

AllDisjoint ==
    \A i, j \in DOMAIN issued : i < j => Disjoint(issued[i], issued[j])

SeqInv ==
    /\ TypeOK
    /\ Synced
    /\ Fresh
    /\ ~wrapped => Ahead /\ Behind /\ Below /\ AllDisjoint

\* A store and a failed store keep file and disk as the invariant wants them.
LEMMA StoreKeepsSynced ==
    ASSUME TypeOK, Synced,
           \/ \E s \in Word : StoreOk(s)
           \/ StoreFailed
    PROVE  Synced'
  <1>1. unsynced \in Nat /\ MaxUnsynced \in Nat
    BY SeqAssumption DEF TypeOK
  <1>2. unsynced' # 0
    BY <1>1 DEF StoreOk, StoreFailed
  <1> QED
    BY <1>2 DEF Synced

\* Before the first start nothing was handed out.
LEMMA InitSeqInv == Init => SeqInv
  <1> SUFFICES ASSUME Init PROVE SeqInv
    OBVIOUS
  <1>1. TypeOK
    BY InitType
  <1>2. ~(NoFile \in Word)
    BY DEF NoFile, Word
  <1>3. Synced /\ Fresh /\ Ahead /\ Behind
    BY <1>2 DEF Init, Synced, Fresh, Ahead, Behind
  <1>4. Below /\ AllDisjoint
    BY DEF Init, Below, AllDisjoint
  <1> QED
    BY <1>1, <1>3, <1>4 DEF SeqInv

\* A start of the process jumps over everything handed out before.
LEMMA RestoreKeeps ==
    ASSUME SeqInv, Restore
    PROVE  SeqInv' /\ (~wrapped' => sequence <= sequence')
                   /\ (~wrapped' /\ file # NoFile => sequence' <= sequence + 2 * Steps)
  <1>1. TypeOK' /\ TypeOK
    BY NextType DEF SeqInv, Next
  <1>2. /\ Steps \in Nat \ {0} /\ MaxNum \in Nat
        /\ sequence \in Nat /\ sequence' \in Nat
    BY <1>1, SeqAssumption DEF TypeOK, Word
  <1>3. /\ sequence' = RestoredSequence /\ RestoredSequence \in Word
        /\ file' = sequence' /\ start' = sequence' /\ running' /\ issued' = issued
    BY <1>1, RestoredInWord DEF Restore, StoreOk
  <1>4. Synced'
    BY <1>1, <1>3, StoreKeepsSynced DEF Restore, SeqInv
  <1>5. Fresh'
    BY <1>1, <1>2, <1>3 DEF Fresh, NoFile
  <1>6. ASSUME ~wrapped'
        PROVE  /\ sequence <= sequence'
               /\ file # NoFile => sequence' <= sequence + 2 * Steps
               /\ Ahead' /\ Behind' /\ Below' /\ AllDisjoint'
    <2>1. ~wrapped /\ ~RestoreWraps
      BY ZenonT(20), <1>6 DEF Restore
    <2>2. Behind /\ Below /\ AllDisjoint /\ ~running
      BY <2>1 DEF SeqInv, Restore
    <2>3. /\ sequence <= sequence'
          /\ file # NoFile => sequence' <= sequence + 2 * Steps
      <3>1. CASE file = NoFile
        BY <3>1, <1>2 DEF SeqInv, Fresh
      <3>2. CASE file # NoFile
        <4>1. file \in Word /\ file \in Nat
          BY <3>2, <1>1 DEF TypeOK, Restore, Word
        <4>2. sequence' = file + 2 * Steps
          BY <1>1, <1>3, <2>1, <3>2, RestoredInWord DEF Restore
        <4> QED
          BY <1>2, <2>2, <4>1, <4>2 DEF Behind
      <3> QED
        BY <3>1, <3>2
    <2>4. Ahead' /\ Behind'
      BY <1>2, <1>3 DEF Ahead, Behind
    <2>5. Below'
      <3> SUFFICES ASSUME NEW i \in DOMAIN issued
                   PROVE  issued[i].first + issued[i].num <= sequence'
        BY <1>3 DEF Below
      <3>1. issued[i].first \in Nat /\ issued[i].num \in Nat
        BY <1>1, IssuedType
      <3> QED
        BY <1>2, <2>2, <2>3, <3>1 DEF Below
    <2>6. AllDisjoint'
      BY <1>3, <2>2 DEF AllDisjoint
    <2> QED
      BY <2>3, <2>4, <2>5, <2>6
  <1> QED
    BY <1>1, <1>4, <1>5, <1>6 DEF SeqInv

\* A reply takes its numbers at or above the counter and below the next one.
LEMMA ReplyKeeps ==
    ASSUME SeqInv, NEW deta \in 0..MaxNum, GetUniqSeq(deta)
    PROVE  SeqInv'
  <1>1. TypeOK' /\ TypeOK
    BY NextType DEF SeqInv, Next
  <1>2. /\ Steps \in Nat \ {0} /\ MaxNum \in Nat \ {0} /\ MaxNum <= Steps
        /\ sequence \in Nat /\ sequence' \in Nat
        /\ start \in Nat /\ start' \in Nat
        /\ sequence \in Word
    BY <1>1, SeqAssumption DEF TypeOK, Word
  <1> DEFINE t == Take(sequence, deta)
             r == [first |-> t.first, num |-> NumOf(deta)]
  <1>3. /\ running /\ running' /\ sequence' = t.next
        /\ wrapped' = (wrapped \/ t.next < sequence)
        /\ issued' = IF t.first = 0 THEN issued ELSE Append(issued, r)
    BY DEF GetUniqSeq, Reply
  <1>4. Synced'
    BY <1>1, <1>2, StoreKeepsSynced DEF GetUniqSeq, SeqInv, Synced
  <1>5. Fresh'
    <2>1. file # NoFile /\ sequence # NoFile
      BY <1>2, <1>3 DEF SeqInv, Fresh, NoFile
    <2>2. file' \in {file, sequence}
      BY DEF GetUniqSeq, StoreOk
    <2> QED
      BY <2>1, <2>2 DEF Fresh
  <1>6. ASSUME ~wrapped' PROVE Ahead' /\ Behind' /\ Below' /\ AllDisjoint'
    <2>1. ~wrapped /\ ~(t.next < sequence)
      BY ZenonT(20), <1>3, <1>6
    <2>2. Ahead /\ Below /\ AllDisjoint
      BY <2>1 DEF SeqInv
    <2>3. /\ t.first \in Nat /\ t.next \in Nat /\ NumOf(deta) \in Nat
          /\ t.first >= sequence
          /\ t.next = t.first + NumOf(deta)
          /\ t.next <= sequence + MaxNum \/ (sequence = 0 /\ t.next = 2)
      BY <1>2, <2>1, TakeFacts, SeqAssumption DEF Word
    <2> HIDE DEF t
    <2>4. Ahead'
      <3>1. CASE MustStore
        <4>1. file' = sequence /\ start' = sequence
          BY <3>1 DEF GetUniqSeq, StoreOk
        <4> QED
          BY <1>2, <1>3, <2>3, <4>1 DEF Ahead
      <3>2. CASE ~MustStore
        <4>1. file' = file /\ start' = start
          BY <3>2 DEF GetUniqSeq
        <4>2. start <= sequence /\ sequence <= start + Steps
          BY <1>2, <3>2 DEF MustStore
        <4>3. file # Torn => file = start
          BY <1>3, <2>2 DEF Ahead
        <4> QED
          BY SMTT(60), <1>2, <1>3, <2>3, <4>1, <4>2, <4>3 DEF Ahead
      <3> QED
        BY <3>1, <3>2
    <2>5. Behind'
      BY <1>3 DEF Behind
    <2>6. CASE t.first = 0
      <3>1. issued' = issued /\ sequence <= sequence'
        BY <1>2, <1>3, <2>3, <2>6
      <3>2. Below'
        <4> SUFFICES ASSUME NEW i \in DOMAIN issued
                     PROVE  issued[i].first + issued[i].num <= sequence'
          BY <3>1 DEF Below
        <4> QED
          BY <1>1, <1>2, <2>2, <3>1, IssuedType DEF Below
      <3> QED
        BY <2>2, <2>4, <2>5, <3>1, <3>2 DEF AllDisjoint
    <2>7. CASE t.first # 0
      <3>1. issued' = Append(issued, r) /\ issued \in Seq(SeqRange)
        BY <1>1, <1>3, <2>7 DEF TypeOK
      <3>2. /\ DOMAIN issued' = DOMAIN issued \cup {Len(issued) + 1}
            /\ \A i \in DOMAIN issued : issued'[i] = issued[i] /\ i <= Len(issued)
            /\ issued'[Len(issued) + 1] = r
            /\ Len(issued) \in Nat /\ DOMAIN issued = 1..Len(issued)
        BY <3>1
      <3>3. r.first = t.first /\ r.num = NumOf(deta)
        OBVIOUS
      <3>4. \A i \in DOMAIN issued : issued[i].first + issued[i].num <= sequence
        BY <2>2 DEF Below
      <3> HIDE DEF r
      <3>5. \A i \in DOMAIN issued :
                issued[i].first \in Nat /\ issued[i].num \in Nat
        BY <1>1, IssuedType
      <3>6. Below'
        <4> SUFFICES ASSUME NEW i \in DOMAIN issued'
                     PROVE  issued'[i].first + issued'[i].num <= sequence'
          BY DEF Below
        <4>1. CASE i \in DOMAIN issued
          <5>1. issued'[i] = issued[i]
            BY <4>1, <3>2
          <5>2. sequence <= sequence'
            BY <1>2, <1>3, <2>3
          <5>3. issued[i].first + issued[i].num <= sequence'
            BY <4>1, <1>2, <3>4, <3>5, <5>2
          <5> QED
            BY <5>1, <5>3
        <4>2. CASE i = Len(issued) + 1
          BY <4>2, <1>3, <2>3, <3>2, <3>3
        <4> QED
          BY <3>2, <4>1, <4>2
      <3>7. AllDisjoint'
        <4> SUFFICES ASSUME NEW i \in DOMAIN issued', NEW j \in DOMAIN issued', i < j
                     PROVE  Disjoint(issued'[i], issued'[j])
          BY DEF AllDisjoint, Disjoint
        <4>1. i \in DOMAIN issued
          BY <3>2
        <4>2. CASE j \in DOMAIN issued
          BY <2>2, <3>2, <4>1, <4>2 DEF AllDisjoint
        <4>3. CASE j = Len(issued) + 1
          <5>1. issued[i].first + issued[i].num <= r.first
            BY <1>2, <2>3, <3>3, <3>4, <3>5, <4>1
          <5> QED
            BY <3>2, <4>1, <4>3, <5>1 DEF Disjoint
        <4> QED
          BY <3>2, <4>2, <4>3
      <3> QED
        BY <2>4, <2>5, <3>6, <3>7
    <2> QED
      BY <2>6, <2>7
  <1> QED
    BY <1>1, <1>4, <1>5, <1>6 DEF SeqInv

\* A store that hands nothing out: a label change, or a failing pwrite.
LEMMA StoreKeeps ==
    ASSUME SeqInv, running, running', TypeOK',
           StoreOk(sequence) \/ StoreFailed,
           UNCHANGED <<sequence, wrapped, issued>>
    PROVE  SeqInv'
  <1>1. /\ TypeOK /\ sequence \in Word /\ sequence \in Nat /\ start \in Nat
        /\ Steps \in Nat /\ MaxNum \in Nat
    BY SeqAssumption DEF SeqInv, TypeOK, Word
  <1>2. Synced'
    BY <1>1, StoreKeepsSynced DEF SeqInv
  <1>3. Fresh'
    BY <1>1 DEF SeqInv, Fresh, StoreOk, StoreFailed, NoFile, Torn
  <1>4. ~wrapped => Ahead'
    BY <1>1 DEF SeqInv, Ahead, StoreOk, StoreFailed
  <1>5. Behind'
    BY DEF Behind
  <1>6. ~wrapped => Below' /\ AllDisjoint'
    BY DEF SeqInv, Below, AllDisjoint
  <1> QED
    BY <1>2, <1>3, <1>4, <1>5, <1>6 DEF SeqInv

\* The process stops and the file stays as it is.
LEMMA StopKeeps ==
    ASSUME SeqInv, running, ~running', TypeOK', Synced',
           UNCHANGED <<file, sequence, wrapped, issued>>
    PROVE  SeqInv'
  <1>1. /\ TypeOK /\ sequence \in Nat /\ start \in Nat
        /\ Steps \in Nat /\ MaxNum \in Nat /\ MaxNum <= Steps
    BY SeqAssumption DEF SeqInv, TypeOK, Word
  <1>2. Fresh' /\ Ahead'
    BY DEF SeqInv, Fresh, Ahead
  <1>3. ~(Torn \in Word)
    BY DEF Torn, Word
  <1>4. ~wrapped => Behind'
    <2> SUFFICES ASSUME ~wrapped, file \in Word
                 PROVE  file <= sequence /\ sequence <= file + 2 * Steps
      BY DEF Behind
    <2>1. file = start /\ start <= sequence /\ sequence <= start + Steps + MaxNum
      BY <1>3 DEF SeqInv, Ahead
    <2> QED
      BY <1>1, <2>1
  <1>5. ~wrapped => Below' /\ AllDisjoint'
    BY DEF SeqInv, Below, AllDisjoint
  <1> QED
    BY <1>2, <1>4, <1>5 DEF SeqInv

\* Every step keeps SeqInv when no crash undoes a store.
LEMMA NextSeqInv ==
    ASSUME MaxUnsynced = 0
    PROVE  SeqInv /\ [Next]_vars => SeqInv'
  <1> SUFFICES ASSUME SeqInv, [Next]_vars PROVE SeqInv'
    OBVIOUS
  <1>0. TypeOK /\ TypeOK'
    BY NextType DEF SeqInv
  <1>1. CASE Restore
    BY <1>1, RestoreKeeps
  <1>2. CASE RestoreFailed
    <2>1. unsynced' # 0
      BY <1>0, <1>2, SeqAssumption DEF RestoreFailed, TypeOK
    <2>2. ~(Torn \in Word) /\ Torn # NoFile
      BY DEF Torn, Word, NoFile
    <2>3. /\ file' = Torn /\ ~running'
          /\ UNCHANGED <<sequence, wrapped, issued>>
      BY <1>2 DEF RestoreFailed
    <2>4. Synced' /\ Fresh' /\ Ahead' /\ Behind'
      BY <2>1, <2>2, <2>3 DEF Synced, Fresh, Ahead, Behind
    <2>5. ~wrapped => Below' /\ AllDisjoint'
      BY <2>3 DEF SeqInv, Below, AllDisjoint
    <2> QED
      BY <1>0, <2>3, <2>4, <2>5 DEF SeqInv
  <1>3. ASSUME NEW deta \in 0..MaxNum, GetUniqSeq(deta) PROVE SeqInv'
    BY <1>3, ReplyKeeps
  <1>4. CASE GetUniqSeqFailed
    BY <1>0, <1>4, StoreKeeps DEF GetUniqSeqFailed
  <1>5. CASE LabelChange
    BY <1>0, <1>5, StoreKeeps DEF LabelChange
  <1>6. CASE LabelChangeFailed
    BY <1>0, <1>6, StoreKeeps DEF LabelChangeFailed
  <1>7. CASE ProcessCrash
    <2>1. Synced'
      BY <1>7 DEF ProcessCrash, SeqInv, Synced
    <2> QED
      BY <1>0, <1>7, <2>1, StopKeeps DEF ProcessCrash
  <1>8. CASE WriteBack
    BY <1>0, <1>8 DEF WriteBack, SeqInv, Synced, Fresh, Ahead, Behind, Below, AllDisjoint
  <1>9. CASE MachineCrash
    <2>1. unsynced = 0
      BY <1>0, <1>9 DEF MachineCrash, TypeOK
    <2>2. file' = file /\ durable' = durable /\ durable = file
      BY <1>9, <2>1 DEF MachineCrash, SeqInv, Synced
    <2> QED
      BY <1>0, <1>9, <2>2, StopKeeps DEF MachineCrash, Synced
  <1>10. CASE UNCHANGED vars
    BY <1>10 DEF vars, SeqInv, TypeOK, Synced, Fresh, Ahead, Behind, Below, AllDisjoint
  <1> QED
    BY <1>1, <1>2, <1>3, <1>4, <1>5, <1>6, <1>7, <1>8, <1>9, <1>10 DEF Next

\* No number is handed out twice in one pass of the counter if crashes undo
\* no store: inc_sequence stores every Steps numbers and restore_sequence
\* jumps 2 * Steps ahead.
THEOREM NoReuseHolds ==
    ASSUME MaxUnsynced = 0
    PROVE  Spec => []NoReuse
  <1>1. SeqInv => NoReuse
    BY DEF SeqInv, NoReuse, AllDisjoint
  <1> QED
    BY InitSeqInv, NextSeqInv, <1>1, PTL DEF Spec

\* A restart moves the counter forward, by 2 * Steps at most.
THEOREM RestartJumpHolds ==
    ASSUME MaxUnsynced = 0
    PROVE  Spec => RestartJump
  <1>1. ASSUME SeqInv, [Next]_vars
        PROVE  [(~running /\ running' /\ ~wrapped' /\ file # NoFile)
                  => sequence <= sequence' /\ sequence' <= sequence + 2 * Steps]_vars
    <2>1. CASE Restore
      BY <1>1, <2>1, RestoreKeeps
    <2>2. CASE ~Restore
      BY <1>1, <2>2 DEF Next, RestoreFailed, GetUniqSeq, GetUniqSeqFailed, LabelChange,
                        LabelChangeFailed, ProcessCrash, WriteBack, MachineCrash
    <2> QED
      BY <2>1, <2>2
  <1> QED
    BY InitSeqInv, NextSeqInv, <1>1, PTL DEF Spec, RestartJump

\* Every range handed out lies in 1..SeqMod-1, whatever crashes and wraps.
THEOREM RangeInWordHolds == Spec => []RangeInWord
  <1>1. Init => RangeInWord
    BY DEF Init, RangeInWord
  <1>2. TypeOK /\ RangeInWord /\ [Next]_vars => RangeInWord'
    <2> SUFFICES ASSUME TypeOK, RangeInWord, [Next]_vars PROVE RangeInWord'
      OBVIOUS
    <2>1. ASSUME NEW deta \in 0..MaxNum, GetUniqSeq(deta) PROVE RangeInWord'
      <3> DEFINE t == Take(sequence, deta)
                 r == [first |-> t.first, num |-> NumOf(deta)]
      <3>1. /\ issued \in Seq(SeqRange) /\ sequence \in Word
            /\ issued' = IF t.first = 0 THEN issued ELSE Append(issued, r)
        BY <2>1 DEF TypeOK, GetUniqSeq, Reply
      <3>2. t.first \in Word /\ r.first = t.first /\ r.first + r.num <= SeqMod
        BY <3>1, TakeFacts
      <3>3. t.first # 0 => r.first >= 1
        BY <3>2, SeqAssumption DEF Word
      <3> HIDE DEF r, t
      <3>4. CASE t.first = 0
        BY <3>1, <3>4 DEF RangeInWord
      <3>5. CASE t.first # 0
        <4>1. /\ DOMAIN issued' = DOMAIN issued \cup {Len(issued) + 1}
              /\ \A i \in DOMAIN issued : issued'[i] = issued[i]
              /\ issued'[Len(issued) + 1] = r
          BY <3>1, <3>5
        <4> QED
          BY <3>2, <3>3, <3>5, <4>1 DEF RangeInWord
      <3> QED
        BY <3>4, <3>5
    <2>2. CASE issued' = issued
      BY <2>2 DEF RangeInWord
    <2> QED
      BY <2>1, <2>2 DEF Next, Restore, RestoreFailed, GetUniqSeqFailed, LabelChange,
                        LabelChangeFailed, ProcessCrash, WriteBack, MachineCrash, vars
  <1> QED
    BY <1>1, <1>2, TypeCorrect, PTL DEF Spec

-----------------------------------------------------------------------------
(* The identifiers.  The agent and the clients make them of the numbers of  *)
(* the counter, which is here followed past its end.                        *)

\* A request of get_uniq_id() takes one number without a reply of get_uniq_seq().
LEMMA GetUniqIdFacts ==
    ASSUME NEW user, NEW time, GetUniqId(user, time)
    PROVE  /\ running /\ running' /\ sequence' = Single(sequence).next
           /\ wrapped' = (wrapped \/ Single(sequence).next < sequence)
           /\ issued' = issued /\ restarts' = restarts
           /\ IF MustStore THEN StoreOk(sequence)
              ELSE UNCHANGED <<file, start, unsynced, durable, ioError>>
  BY DEF GetUniqId

\* The sequence block keeps its invariant.
LEMMA GetUniqIdKeeps ==
    ASSUME SeqInv, NEW user, NEW time, GetUniqId(user, time)
    PROVE  SeqInv'
  <1> DEFINE t == Single(sequence)
  <1>1. /\ Steps \in Nat \ {0} /\ MaxNum \in Nat \ {0} /\ MaxNum <= Steps
        /\ TypeOK /\ sequence \in Nat /\ start \in Nat /\ sequence \in Word
    BY SeqAssumption DEF SeqInv, TypeOK, Word
  <1>2. /\ running /\ running' /\ sequence' = t.next
        /\ wrapped' = (wrapped \/ t.next < sequence)
        /\ issued' = issued /\ restarts' = restarts
        /\ IF MustStore THEN StoreOk(sequence)
           ELSE UNCHANGED <<file, start, unsynced, durable, ioError>>
    BY GetUniqIdFacts
  <1>3. /\ t.next \in Word /\ t.next \in Nat
        /\ t.next >= sequence => /\ t.next > sequence
                                 /\ t.next <= sequence + 1 \/ (sequence = 0 /\ t.next = 2)
    <2>1. /\ t.first \in Word \ {0} /\ t.next \in Word
          /\ t.next >= sequence => /\ t.first >= sequence /\ t.next = t.first + 1
                                   /\ t.next <= sequence + 1 \/ (sequence = 0 /\ t.next = 2)
      BY <1>1, SingleFacts
    <2> HIDE DEF t
    <2> QED
      BY <1>1, <2>1, SeqAssumption DEF Word
  <1> HIDE DEF t
  <1>4. TypeOK'
    <2>1. wrapped' \in BOOLEAN
      BY <1>2
    <2>2. CASE MustStore
      BY <1>1, <1>2, <1>3, <2>1, <2>2, StoreOkType DEF TypeOK
    <2>3. CASE ~MustStore
      BY <1>1, <1>2, <1>3, <2>1, <2>3 DEF TypeOK
    <2> QED
      BY <2>2, <2>3
  <1>5. Synced'
    BY <1>1, <1>2, StoreKeepsSynced DEF SeqInv, Synced
  <1>6. Fresh'
    <2>1. file # NoFile /\ sequence # NoFile
      BY <1>1, <1>2 DEF SeqInv, Fresh, NoFile
    <2>2. file' \in {file, sequence}
      BY <1>2 DEF StoreOk
    <2> QED
      BY <2>1, <2>2 DEF Fresh
  <1>7. ASSUME ~wrapped' PROVE Ahead' /\ Behind' /\ Below' /\ AllDisjoint'
    <2>1. ~wrapped /\ ~(t.next < sequence)
      BY ZenonT(20), <1>2, <1>7
    <2>2. Ahead /\ Below /\ AllDisjoint
      BY <2>1 DEF SeqInv
    <2>3. sequence' > sequence /\ sequence' <= sequence + 2 /\ (sequence' <= sequence + 1 \/ sequence = 0)
      BY <1>1, <1>2, <1>3, <2>1
    <2>4. Ahead'
      <3>1. CASE MustStore
        BY <1>1, <1>2, <1>3, <2>3, <3>1 DEF Ahead, StoreOk
      <3>2. CASE ~MustStore
        <4>1. file' = file /\ start' = start
          BY <1>2, <3>2
        <4>2. start <= sequence /\ sequence <= start + Steps
          BY <1>1, <3>2 DEF MustStore
        <4>3. file # Torn => file = start
          BY <1>2, <2>2 DEF Ahead
        <4> QED
          BY SMTT(60), <1>1, <1>2, <1>3, <2>3, <4>1, <4>2, <4>3 DEF Ahead
      <3> QED
        BY <3>1, <3>2
    <2>5. Behind'
      BY <1>2 DEF Behind
    <2>6. Below'
      <3> SUFFICES ASSUME NEW i \in DOMAIN issued
                   PROVE  issued[i].first + issued[i].num <= sequence'
        BY <1>2 DEF Below
      <3>1. /\ issued[i].first \in Nat /\ issued[i].num \in Nat /\ sequence' \in Nat
            /\ issued[i].first + issued[i].num <= sequence
        BY <1>1, <1>2, <1>3, <2>2, IssuedType DEF Below
      <3> QED
        BY <1>1, <2>3, <3>1
    <2>7. AllDisjoint'
      BY <1>2, <2>2 DEF AllDisjoint
    <2> QED
      BY <2>4, <2>5, <2>6, <2>7
  <1> QED
    BY <1>4, <1>5, <1>6, <1>7 DEF SeqInv

\* Beside get_uniq_id() the steps are those of the sequence block.
LEMMA GenIsSeq ==
    ASSUME [GenNext]_<<vars, genVars>>
    PROVE  \/ [Next]_vars
           \/ \E time \in ClientTimes \cup {0} : GetUniqId(now, time)
  <1>1. ASSUME NEW num \in 1..MaxNum, GetLocalUniqId(now, num)
        PROVE  Next
    BY <1>1, SeqAssumption DEF GetLocalUniqId, Next
  <1>2. CASE OtherStep
    BY <1>2 DEF OtherStep, Next
  <1>3. CASE Tick
    BY <1>3 DEF Tick
  <1> QED
    BY <1>1, <1>2, <1>3 DEF GenNext

LEMMA GenSeqInv ==
    ASSUME MaxUnsynced = 0
    PROVE  SeqInv /\ [GenNext]_<<vars, genVars>> => SeqInv'
  BY GenIsSeq, GetUniqIdKeeps, NextSeqInv

\* A batch is so small that the numbers it skips at the end of the counter do not
\* carry the counter further from the file than a restart jumps (uniq_id.h:101 advises
\* a tenth of steps).
SmallBatches == 2 * MaxNum < Steps

\* The counter, followed past its end.
Position == laps * SeqMod + sequence

\* How far a counter that is s now has gone since it was f.
Since(f, s) == IF f <= s THEN s - f ELSE s + SeqMod - f

Identifiers == [user : Nat, hour : Nat, seq : 0..(IdMod - 1), place : Nat]

GenType ==
    /\ now \in Nat /\ oldTime \in Nat /\ laps \in Nat
    /\ ids \in Seq(Identifiers)

\* Neither the file nor what the agent takes it to hold is further back than a restart
\* jumps.
NearFile ==
    /\ running => Since(start, sequence) <= 2 * Steps /\ (file # Torn => file = start)
    /\ file \in Word => Since(file, sequence) <= 2 * Steps

\* Identifiers are made of ever larger numbers of the counter, all below it, and keep
\* what the field tells apart of them.
PlaceInv ==
    /\ \A i \in DOMAIN ids : ids[i].place < Position
    /\ \A i, j \in DOMAIN ids : i < j => ids[i].place < ids[j].place
    /\ \A i \in DOMAIN ids : \E k \in Nat : ids[i].place = k * IdMod + ids[i].seq

GenInv == SeqInv /\ GenType /\ NearFile /\ PlaceInv

\* Taking numbers moves the counter on, by little more than the batch, or twice the
\* batch at its end.
LEMMA TakeMoves ==
    ASSUME NEW s \in Word, NEW d \in 0..MaxNum, NEW t, t = Take(s, d)
    PROVE  /\ t.first \in Nat /\ t.next \in Nat /\ NumOf(d) \in Nat \ {0}
           /\ s <= t.first + (IF t.first < s THEN SeqMod ELSE 0)
           /\ t.first + (IF t.first < s THEN SeqMod ELSE 0) + NumOf(d)
                 = t.next + (IF t.next < s THEN SeqMod ELSE 0)
           /\ t.next + (IF t.next < s THEN SeqMod ELSE 0) <= s + 2 * MaxNum + 1
  <1>1. /\ SeqMod \in Nat /\ MaxNum \in Nat \ {0} /\ Steps \in Nat /\ MaxNum <= Steps
        /\ SeqMod > 2 * Steps + 2 /\ s \in Nat /\ s < SeqMod /\ d \in Nat /\ d <= MaxNum
    BY SeqAssumption DEF Word
  <1>2. CASE d <= 1
    <2> DEFINE f == IF s = 0 THEN 1 ELSE s
    <2>1. t = [first |-> f, next |-> (f + 1) % SeqMod] /\ NumOf(d) = 1
      BY <1>2 DEF Take, Single, NumOf
    <2>2. f \in Nat /\ f < SeqMod /\ f >= s /\ f <= s + 1
      BY <1>1
    <2> HIDE DEF f
    <2>3. (f + 1) % SeqMod = IF f + 1 < SeqMod THEN f + 1 ELSE f + 1 - SeqMod
      BY <1>1, <2>2, SeqModOnce
    <2>4. t.first = f /\ t.next = (f + 1) % SeqMod
      BY <2>1
    <2>5. CASE f + 1 < SeqMod
      BY <1>1, <2>1, <2>2, <2>3, <2>4, <2>5
    <2>6. CASE f + 1 = SeqMod
      BY <1>1, <2>1, <2>2, <2>3, <2>4, <2>6
    <2> QED
      BY <1>1, <2>2, <2>5, <2>6
  <1>3. CASE d > 1
    <2>1. /\ NumOf(d) = d
          /\ t = IF s < (s + d) % SeqMod THEN [first |-> s, next |-> (s + d) % SeqMod]
                 ELSE [first |-> 1, next |-> (1 + d) % SeqMod]
      BY <1>1, <1>3 DEF Take, Batch, NumOf
    <2>2. (s + d) % SeqMod = IF s + d < SeqMod THEN s + d ELSE s + d - SeqMod
      BY <1>1, SeqModOnce
    <2>3. (1 + d) % SeqMod = 1 + d
      BY <1>1, SeqModOnce
    <2>4. CASE s + d < SeqMod
      <3>1. t.first = s /\ t.next = s + d
        BY <1>1, <1>3, <2>1, <2>2, <2>4
      <3> QED
        BY <1>1, <1>3, <2>1, <2>4, <3>1
    <2>5. CASE s + d >= SeqMod
      <3>1. t.first = 1 /\ t.next = 1 + d
        BY <1>1, <1>3, <2>1, <2>2, <2>3, <2>5
      <3> QED
        BY <1>1, <1>3, <2>1, <2>5, <3>1
    <2> QED
      BY <1>1, <2>4, <2>5
  <1> QED
    BY <1>1, <1>2, <1>3

\* A lap more is SeqMod numbers more.
LEMMA NextLap ==
    ASSUME NEW n \in Nat
    PROVE  (n + 1) * SeqMod = n * SeqMod + SeqMod /\ n * SeqMod \in Nat
  BY SeqAssumption

\* Numbers taken by a request, with the store in front of it.
LEMMA ServeMoves ==
    ASSUME SmallBatches, GenInv, NEW d \in 0..MaxNum, NEW t, t = Take(sequence, d),
           running, running', sequence' = t.next, CountLaps,
           IF MustStore THEN StoreOk(sequence)
           ELSE UNCHANGED <<file, start, unsynced, durable, ioError>>
    PROVE  /\ laps' \in Nat /\ NearFile'
           /\ t.first \in Nat /\ NumOf(d) \in Nat \ {0}
           /\ Position <= (IF t.first < sequence THEN laps + 1 ELSE laps) * SeqMod + t.first
           /\ (IF t.first < sequence THEN laps + 1 ELSE laps) * SeqMod + t.first + NumOf(d)
                 = Position'
  <1>1. /\ SeqMod \in Nat /\ MaxNum \in Nat \ {0} /\ Steps \in Nat /\ 2 * MaxNum + 1 <= Steps
        /\ SeqMod > 2 * Steps + 2 /\ sequence \in Nat /\ sequence \in Word
        /\ laps \in Nat /\ start \in Nat /\ start < SeqMod
    BY SeqAssumption DEF Word, SmallBatches, GenInv, SeqInv, TypeOK, GenType
  <1> DEFINE up(b) == IF b THEN SeqMod ELSE 0
  <1>2. /\ t.first \in Nat /\ t.next \in Nat /\ NumOf(d) \in Nat \ {0}
        /\ sequence <= t.first + up(t.first < sequence)
        /\ t.first + up(t.first < sequence) + NumOf(d) = t.next + up(t.next < sequence)
        /\ t.next + up(t.next < sequence) <= sequence + 2 * MaxNum + 1
    BY <1>1, TakeMoves
  <1>3. laps' = (IF t.next < sequence THEN laps + 1 ELSE laps) /\ laps' \in Nat
    BY <1>1 DEF CountLaps
  <1>4. /\ (IF t.first < sequence THEN laps + 1 ELSE laps) * SeqMod
              = laps * SeqMod + up(t.first < sequence)
        /\ laps' * SeqMod = laps * SeqMod + up(t.next < sequence)
        /\ laps * SeqMod \in Nat
    BY <1>1, <1>3, NextLap
  <1>5. /\ up(t.first < sequence) \in Nat /\ up(t.next < sequence) \in Nat
    BY <1>1
  <1>6. NearFile'
    <2>1. ASSUME NEW f \in Nat, f <= sequence, sequence - f <= Steps
          PROVE  Since(f, t.next) <= 2 * Steps
      <3>1. CASE t.next < sequence
        <4>1. t.next + SeqMod <= f + 2 * Steps
          BY <1>1, <1>2, <2>1, <3>1
        <4>2. ~(f <= t.next)
          BY <1>1, <1>2, <4>1, <2>1
        <4> QED
          BY <1>1, <1>2, <4>1, <4>2, <2>1 DEF Since
      <3>2. CASE ~(t.next < sequence)
        <4>1. t.next <= f + 2 * Steps /\ f <= t.next
          BY <1>1, <1>2, <2>1, <3>2
        <4> QED
          BY <1>1, <1>2, <4>1, <2>1 DEF Since
      <3> QED
        BY <3>1, <3>2
    <2>2. CASE MustStore
      <3>1. file' = sequence /\ start' = sequence
        BY <2>2 DEF StoreOk
      <3>2. Since(sequence, t.next) <= 2 * Steps
        BY <1>1, <2>1
      <3> QED
        BY <3>1, <3>2 DEF NearFile
    <2>3. CASE ~MustStore
      <3>1. file' = file /\ start' = start /\ start <= sequence /\ sequence - start <= Steps
        BY <1>1, <2>3 DEF MustStore
      <3>2. file # Torn => file = start
        BY DEF GenInv, NearFile
      <3>3. Torn \notin Word
        BY DEF Torn, Word
      <3>4. Since(start, t.next) <= 2 * Steps
        BY <1>1, <2>1, <3>1
      <3> QED
        BY <3>1, <3>2, <3>3, <3>4 DEF NearFile
    <2> QED
      BY <2>2, <2>3
  <1> QED
    BY <1>1, <1>2, <1>3, <1>4, <1>5, <1>6 DEF Position

\* What the field keeps of a number of the counter is the same in every lap.
LEMMA FieldOfPlace ==
    ASSUME NEW lap \in Nat, NEW x \in Nat
    PROVE  /\ x % IdMod \in 0..(IdMod - 1)
           /\ \E k \in Nat : lap * SeqMod + x = k * IdMod + (x % IdMod)
  <1> DEFINE c == SeqMod \div IdMod
             q == x \div IdMod
             r == x % IdMod
  <1>1. IdMod \in Nat \ {0} /\ SeqMod \in Nat /\ SeqMod % IdMod = 0
    BY GenAssumption, SeqAssumption
  <1>2. c \in Nat /\ SeqMod = IdMod * c
    BY <1>1
  <1>3. q \in Nat /\ r \in 0..(IdMod - 1) /\ x = IdMod * q + r
    BY <1>1
  <1> HIDE DEF c, q, r
  <1>4. lap * c + q \in Nat
    BY <1>2, <1>3
  <1>5. lap * SeqMod + x = (lap * c + q) * IdMod + r
    <2>1. lap * (IdMod * c) = (lap * c) * IdMod
      BY <1>1, <1>2
    <2>2. (lap * c + q) * IdMod = (lap * c) * IdMod + q * IdMod
      BY <1>1, <1>2, <1>3
    <2>3. IdMod * q = q * IdMod /\ q * IdMod \in Nat /\ (lap * c) * IdMod \in Nat
      BY <1>1, <1>2, <1>3
    <2> QED
      BY <1>2, <1>3, <2>1, <2>2, <2>3
  <1> QED
    BY <1>3, <1>4, <1>5 DEF r

\* Two numbers with the same field are IdMod apart.
LEMMA SameFieldFar ==
    ASSUME NEW m \in Nat \ {0}, NEW k \in Nat, NEW j \in Nat, NEW r \in Nat,
           k * m + r < j * m + r
    PROVE  (j * m + r) - (k * m + r) >= m
  <1>1. k * m \in Nat /\ j * m \in Nat
    OBVIOUS
  <1>2. k < j
    <2>1. j <= k => j * m <= k * m
      OBVIOUS
    <2> QED
      BY <1>1, <2>1
  <1>3. j * m = k * m + (j - k) * m
    OBVIOUS
  <1>4. (j - k) * m >= m
    BY <1>2
  <1> QED
    BY <1>1, <1>3, <1>4

\* What n numbers from first on, in the given lap of the counter, become.
MadeOf(new, n, lap, first) ==
    /\ DOMAIN new = 1..n
    /\ \A i \in 1..n : /\ new[i] \in Identifiers
                       /\ new[i].place = lap * SeqMod + first + (i - 1)
                       /\ new[i].seq = (first + (i - 1)) % IdMod

Extended(old, new, n) ==
    /\ Len(ids') = Len(old) + n
    /\ \A i \in 1..Len(old) : ids'[i] = old[i]
    /\ \A i \in 1..n : ids'[Len(old) + i] = new[i]

\* New identifiers are of numbers at or above the counter, below where it goes.
LEMMA MoreIds ==
    ASSUME GenType, PlaceInv, Position \in Nat, Position' \in Nat,
           NEW n \in Nat \ {0}, NEW lap \in Nat, NEW first \in Nat, NEW new,
           MadeOf(new, n, lap, first), Extended(ids, new, n),
           Position <= lap * SeqMod + first,
           lap * SeqMod + first + n <= Position',
           ids' \in Seq(Identifiers)
    PROVE  PlaceInv'
  <1>0. /\ \A i \in 1..n : /\ new[i] \in Identifiers
                           /\ new[i].place = lap * SeqMod + first + (i - 1)
                           /\ new[i].seq = (first + (i - 1)) % IdMod
        /\ Len(ids') = Len(ids) + n
        /\ \A i \in 1..Len(ids) : ids'[i] = ids[i]
        /\ \A i \in 1..n : ids'[Len(ids) + i] = new[i]
    BY DEF MadeOf, Extended
  <1>1. /\ Len(ids) \in Nat /\ DOMAIN ids = 1..Len(ids)
        /\ DOMAIN ids' = 1..(Len(ids) + n)
    BY <1>0 DEF GenType
  <1>2. lap * SeqMod \in Nat
    BY NextLap
  <1>3. ASSUME NEW i \in DOMAIN ids', i \notin DOMAIN ids
        PROVE  /\ i - Len(ids) \in 1..n /\ ids'[i] = new[i - Len(ids)]
               /\ i > Len(ids)
    <2>1. i - Len(ids) \in 1..n /\ i = Len(ids) + (i - Len(ids)) /\ i > Len(ids)
      BY <1>1, <1>3
    <2> QED
      BY <1>0, <2>1
  <1>4. ASSUME NEW i \in DOMAIN ids
        PROVE  ids'[i] = ids[i] /\ ids[i].place \in Nat /\ ids[i].place < Position
    <2>1. ids[i] \in Identifiers
      BY <1>1 DEF GenType
    <2>2. ids[i].place \in Nat
      BY <2>1 DEF Identifiers
    <2>3. ids'[i] = ids[i]
      BY <1>0, <1>1
    <2> QED
      BY <2>2, <2>3 DEF PlaceInv
  <1>5. ASSUME NEW i \in DOMAIN ids' PROVE ids'[i].place < Position'
    <2>1. CASE i \in DOMAIN ids
      BY <1>1, <1>2, <1>4, <2>1
    <2>2. CASE i \notin DOMAIN ids
      <3>1. PICK k \in 1..n : ids'[i] = new[k]
        BY <1>3, <2>2
      <3>2. ids'[i].place = lap * SeqMod + first + (k - 1)
        BY <1>0, <3>1
      <3> QED
        BY <1>2, <3>2
    <2> QED
      BY <2>1, <2>2
  <1>6. ASSUME NEW i \in DOMAIN ids', NEW j \in DOMAIN ids', i < j
        PROVE  ids'[i].place < ids'[j].place
    <2>1. CASE j \in DOMAIN ids
      <3>1. i \in DOMAIN ids
        BY <1>1, <1>6, <2>1
      <3>2. ids[i].place < ids[j].place
        BY <1>6, <2>1, <3>1 DEF PlaceInv
      <3> QED
        BY <1>4, <2>1, <3>1, <3>2
    <2>2. CASE j \notin DOMAIN ids
      <3>1. /\ j - Len(ids) \in 1..n /\ ids'[j] = new[j - Len(ids)]
        BY <1>3, <2>2
      <3>2. ids'[j].place = lap * SeqMod + first + ((j - Len(ids)) - 1)
        BY <1>0, <3>1
      <3>3. CASE i \in DOMAIN ids
        <4>1. ids'[i] = ids[i] /\ ids[i].place \in Nat /\ ids[i].place < Position
          BY <1>4, <3>3
        <4>2. PICK y \in 1..n : y = j - Len(ids)
          BY <3>1
        <4>3. ids'[j].place = lap * SeqMod + first + (y - 1)
          BY <3>2, <4>2
        <4>4. PICK p \in Nat : p = ids'[i].place
          BY <4>1
        <4>5. p < lap * SeqMod + first
          BY <1>2, <4>1, <4>4
        <4>6. p < lap * SeqMod + first + (y - 1)
          BY <1>2, <4>5
        <4> QED
          BY <4>3, <4>4, <4>6
      <3>4. CASE i \notin DOMAIN ids
        <4>1. i - Len(ids) \in 1..n /\ ids'[i] = new[i - Len(ids)]
          BY <1>3, <3>4
        <4>2. ids'[i].place = lap * SeqMod + first + ((i - Len(ids)) - 1)
          BY <1>0, <4>1
        <4>3. PICK x \in Int : x = i - Len(ids)
          BY <4>1
        <4>4. PICK y \in Int : y = j - Len(ids)
          BY <3>1
        <4>5. x < y
          <5>1. i \in Int /\ j \in Int /\ Len(ids) \in Int
            BY <1>1
          <5> QED
            BY <5>1, <1>6, <4>3, <4>4
        <4>6. lap * SeqMod + first + (x - 1) < lap * SeqMod + first + (y - 1)
          BY <1>2, <4>5
        <4> QED
          BY <3>2, <4>2, <4>3, <4>4, <4>6
      <3> QED
        BY <3>3, <3>4
    <2> QED
      BY <2>1, <2>2
  <1>7. ASSUME NEW i \in DOMAIN ids'
        PROVE  \E k \in Nat : ids'[i].place = k * IdMod + ids'[i].seq
    <2>1. CASE i \in DOMAIN ids
      BY <1>4, <2>1 DEF PlaceInv
    <2>2. CASE i \notin DOMAIN ids
      <3>1. PICK k \in 1..n : ids'[i] = new[k]
        BY <1>3, <2>2
      <3> DEFINE x == first + (k - 1)
      <3>2. x \in Nat /\ lap * SeqMod + first + (k - 1) = lap * SeqMod + x
        BY <1>2
      <3>3. ids'[i].place = lap * SeqMod + x /\ ids'[i].seq = x % IdMod
        BY <1>0, <3>1, <3>2
      <3> HIDE DEF x
      <3> QED
        BY <3>2, <3>3, FieldOfPlace
    <2> QED
      BY <2>1, <2>2
  <1> QED
    BY <1>5, <1>6, <1>7 DEF PlaceInv

LEMMA PositionNat ==
    ASSUME laps \in Nat, sequence \in Word
    PROVE  Position \in Nat
  BY NextLap DEF Position, Word

\* No new identifiers, and the counter is not set back.
LEMMA SamePlaces ==
    ASSUME GenType, PlaceInv, Position \in Nat, Position' \in Nat, Position <= Position',
           ids' = ids
    PROVE  PlaceInv'
  <1>1. ASSUME NEW i \in DOMAIN ids PROVE ids[i].place < Position'
    <2>1. ids[i] \in Identifiers
      BY DEF GenType
    <2>2. PICK p \in Nat : p = ids[i].place
      BY <2>1 DEF Identifiers
    <2>3. p < Position
      BY <2>2 DEF PlaceInv
    <2> QED
      BY <2>2, <2>3
  <1> QED
    BY <1>1 DEF PlaceInv

LEMMA InitGenInv == GenInit => GenInv
  <1> SUFFICES ASSUME GenInit PROVE GenInv
    OBVIOUS
  <1>1. SeqInv
    BY InitSeqInv DEF GenInit
  <1>2. GenType /\ PlaceInv
    BY GenAssumption DEF GenInit, GenType, PlaceInv
  <1>3. NearFile
    BY DEF GenInit, Init, NearFile, NoFile, Word
  <1> QED
    BY <1>1, <1>2, <1>3 DEF GenInv

\* An identifier made by the agent.
LEMMA GetUniqIdGen ==
    ASSUME SmallBatches, GenInv, NEW time \in ClientTimes \cup {0}, GetUniqId(now, time)
    PROVE  GenType' /\ NearFile' /\ PlaceInv'
  <1> DEFINE at   == IF time = 0 THEN now ELSE time
             hour == TmTime(at) \div Hour
  <1>0. /\ SeqInv /\ GenType /\ NearFile /\ PlaceInv /\ TypeOK
        /\ sequence \in Word /\ sequence \in Nat /\ laps \in Nat
        /\ now \in Nat /\ oldTime \in Nat /\ ids \in Seq(Identifiers)
    BY DEF GenInv, SeqInv, TypeOK, GenType, Word
  <1>1. PICK t : t = Single(sequence)
    OBVIOUS
  <1>2. /\ running /\ running' /\ sequence' = t.next /\ CountLaps
        /\ IF MustStore THEN StoreOk(sequence)
           ELSE UNCHANGED <<file, start, unsynced, durable, ioError>>
        /\ oldTime' = TmTime(at) /\ now' = now
        /\ ids' \in {ids, Append(ids, Id(SentUser(now), hour, t.first,
                                         laps * SeqMod + t.first))}
    BY <1>1 DEF GetUniqId
  <1>3. 0 \in 0..MaxNum /\ t = Take(sequence, 0) /\ NumOf(0) = 1
    BY <1>1, SeqAssumption DEF Take, NumOf
  <1>4. /\ laps' \in Nat /\ NearFile' /\ t.first \in Nat
        /\ Position <= (IF t.first < sequence THEN laps + 1 ELSE laps) * SeqMod + t.first
        /\ (IF t.first < sequence THEN laps + 1 ELSE laps) * SeqMod + t.first + 1
              = Position'
    BY <1>2, <1>3, ServeMoves
  <1>5. ~(t.first < sequence)
    BY <1>0, <1>1 DEF Single
  <1>6. Position <= laps * SeqMod + t.first /\ laps * SeqMod + t.first + 1 = Position'
    BY <1>4, <1>5
  <1>7. Position \in Nat /\ laps * SeqMod \in Nat
    BY <1>0, PositionNat, NextLap
  <1>8. Position' \in Nat
    BY <1>4, <1>6, <1>7
  <1>9. at \in Nat /\ TmTime(at) \in Nat
    BY <1>0, GenAssumption DEF TmTime
  <1>10. hour \in Nat
    BY <1>9, GenAssumption
  <1>11. t.first % IdMod \in 0..(IdMod - 1)
    BY <1>4, GenAssumption
  <1>12. PICK e : e = Id(SentUser(now), hour, t.first, laps * SeqMod + t.first)
    OBVIOUS
  <1>13. /\ e.place = laps * SeqMod + t.first /\ e.seq = t.first % IdMod
         /\ e \in Identifiers
    <2>1. laps * SeqMod + t.first \in Nat
      BY <1>4, <1>7
    <2> HIDE DEF hour
    <2> QED
      BY <1>10, <1>11, <1>12, <2>1 DEF Id, SentUser, Identifiers
  <1>14. ids' \in {ids, Append(ids, e)}
    BY <1>2, <1>12
  <1> HIDE DEF at, hour
  <1>15. ids' \in Seq(Identifiers)
    BY <1>0, <1>13, <1>14
  <1>16. GenType'
    BY <1>0, <1>2, <1>4, <1>9, <1>15 DEF GenType
  <1>17. CASE ids' = ids
    <2>1. Position <= Position'
      BY <1>4, <1>6, <1>7, <1>8
    <2> QED
      BY <1>0, <1>4, <1>7, <1>8, <1>16, <1>17, <2>1, SamePlaces
  <1>18. CASE ids' = Append(ids, e)
    <2>1. PICK n \in Nat \ {0} : n = 1
      OBVIOUS
    <2>2. PICK new : new = <<e>>
      OBVIOUS
    <2>3. DOMAIN new = 1..n /\ new[1] = e /\ \A i \in 1..n : i = 1
      BY <2>1, <2>2
    <2>4. /\ Len(ids') = Len(ids) + n /\ ids'[Len(ids) + 1] = e
          /\ \A i \in 1..Len(ids) : ids'[i] = ids[i]
      BY <1>0, <1>13, <1>18, <2>1
    <2>5. /\ laps * SeqMod + t.first + (1 - 1) = laps * SeqMod + t.first
          /\ t.first + (1 - 1) = t.first
      BY <1>4, <1>7
    <2>6. \A i \in 1..n : /\ new[i] \in Identifiers
                          /\ new[i].place = laps * SeqMod + t.first + (i - 1)
                          /\ new[i].seq = (t.first + (i - 1)) % IdMod
      BY <1>13, <2>3, <2>5
    <2>7. \A i \in 1..n : ids'[Len(ids) + i] = new[i]
      BY <2>3, <2>4
    <2>8. laps * SeqMod + t.first + n <= Position'
      BY <1>6, <1>8, <2>1
    <2>9. PICK f \in Nat : f = t.first
      BY <1>4
    <2>10. PlaceInv'
      <3>1. MadeOf(new, n, laps, f)
        BY <2>3, <2>6, <2>9 DEF MadeOf
      <3>2. Extended(ids, new, n)
        BY <2>4, <2>7 DEF Extended
      <3>3. Position <= laps * SeqMod + f /\ laps * SeqMod + f + n <= Position'
        BY <1>6, <2>8, <2>9
      <3> QED
        BY <1>0, <1>7, <1>8, <1>15, <3>1, <3>2, <3>3, MoreIds
    <2> QED
      BY <1>4, <1>16, <2>10
  <1> QED
    BY <1>4, <1>14, <1>16, <1>17, <1>18

\* What concatenation does, pointwise.
LEMMA ConcatFacts ==
    ASSUME NEW S, NEW s \in Seq(S), NEW r \in Seq(S)
    PROVE  /\ Len(s \o r) = Len(s) + Len(r)
           /\ \A i \in 1..(Len(s) + Len(r)) :
                 (s \o r)[i] = IF i <= Len(s) THEN s[i] ELSE r[i - Len(s)]
  OBVIOUS

\* Identifiers made by a client, of a batch of numbers.
LEMMA GetLocalUniqIdGen ==
    ASSUME SmallBatches, GenInv, NEW num \in 1..MaxNum, GetLocalUniqId(now, num)
    PROVE  GenType' /\ NearFile' /\ PlaceInv'
  <1>0. /\ SeqInv /\ GenType /\ NearFile /\ PlaceInv /\ TypeOK
        /\ sequence \in Word /\ sequence \in Nat /\ laps \in Nat
        /\ now \in Nat /\ oldTime \in Nat /\ ids \in Seq(Identifiers)
    BY DEF GenInv, SeqInv, TypeOK, GenType, Word
  <1>1. PICK t : t = Take(sequence, num)
    OBVIOUS
  <1>2. PICK lap : lap = IF t.first < sequence THEN laps + 1 ELSE laps
    OBVIOUS
  <1>3. PICK new : new = [i \in 1..num |->
                            Id(now, now \div Hour, t.first + i - 1,
                               lap * SeqMod + t.first + i - 1)]
    OBVIOUS
  <1>4. /\ running /\ running' /\ sequence' = t.next /\ CountLaps
        /\ IF MustStore THEN StoreOk(sequence)
           ELSE UNCHANGED <<file, start, unsynced, durable, ioError>>
        /\ oldTime' = oldTime /\ now' = now
        /\ ids' = IF t.first = 0 THEN ids ELSE ids \o new
    BY <1>1, <1>2, <1>3 DEF GetLocalUniqId, GetUniqSeq, Reply
  <1>5. num \in Nat \ {0} /\ num \in 0..MaxNum /\ NumOf(num) = num
    BY SeqAssumption DEF NumOf
  <1>6. /\ laps' \in Nat /\ NearFile' /\ t.first \in Nat
        /\ Position <= lap * SeqMod + t.first
        /\ lap * SeqMod + t.first + num = Position'
    BY <1>1, <1>2, <1>4, <1>5, ServeMoves
  <1>7. lap \in Nat
    BY <1>0, <1>2
  <1>8. Position \in Nat /\ lap * SeqMod \in Nat
    BY <1>0, <1>7, PositionNat, NextLap
  <1>9. Position' \in Nat
    BY <1>5, <1>6, <1>8
  <1>10. PICK f \in Nat : f = t.first
    BY <1>6
  <1>11. PICK base \in Nat : base = lap * SeqMod
    BY <1>8
  <1>12. ASSUME NEW i \in 1..num
         PROVE  /\ new[i] \in Identifiers
                /\ new[i].place = base + f + (i - 1)
                /\ new[i].seq = (f + (i - 1)) % IdMod
    <2>1. /\ f + i - 1 = f + (i - 1) /\ base + f + i - 1 = base + f + (i - 1)
          /\ f + (i - 1) \in Nat /\ base + f + (i - 1) \in Nat
      BY <1>5
    <2>2. new[i] = Id(now, now \div Hour, f + (i - 1), base + f + (i - 1))
      BY <1>3, <1>10, <1>11, <2>1
    <2>3. now \div Hour \in Nat
      BY <1>0, GenAssumption
    <2>4. PICK x \in Nat : x = f + (i - 1)
      BY <2>1
    <2>5. x % IdMod \in 0..(IdMod - 1)
      BY GenAssumption
    <2> QED
      BY <1>0, <2>1, <2>2, <2>3, <2>4, <2>5 DEF Id, Identifiers
  <1>13. DOMAIN new = 1..num
    BY <1>3
  <1>14. new = [i \in 1..num |-> new[i]]
    BY <1>3
  <1>15. new \in Seq(Identifiers) /\ Len(new) = num
    BY <1>5, <1>12, <1>13, <1>14
  <1>16. ids' \in Seq(Identifiers)
    BY <1>0, <1>4, <1>15
  <1>17. GenType'
    BY <1>0, <1>4, <1>6, <1>16 DEF GenType
  <1>18. PlaceInv'
    <2>1. CASE t.first = 0
      <3>1. Position <= Position'
        BY <1>5, <1>6, <1>8, <1>9
      <3> QED
        BY <1>0, <1>4, <1>8, <1>9, <2>1, <3>1, SamePlaces
    <2>2. CASE t.first # 0
      <3>1. MadeOf(new, num, lap, f)
        BY <1>11, <1>12, <1>13 DEF MadeOf
      <3>2. Extended(ids, new, num)
        <4>1. ids' = ids \o new
          BY <1>4, <2>2
        <4>2. /\ Len(ids \o new) = Len(ids) + Len(new)
              /\ \A i \in 1..(Len(ids) + Len(new)) :
                    (ids \o new)[i] = IF i <= Len(ids) THEN ids[i] ELSE new[i - Len(ids)]
          BY <1>0, <1>15, ConcatFacts
        <4>3. \A i \in 1..Len(ids) : i <= Len(ids) /\ i \in 1..(Len(ids) + num)
          BY <1>0, <1>5
        <4>4. \A i \in 1..Len(ids) : ids'[i] = ids[i]
          BY <1>15, <4>1, <4>2, <4>3
        <4>5. \A i \in 1..num : ids'[Len(ids) + i] = new[i]
          <5> TAKE i \in 1..num
          <5>1. PICK j \in Int : j = Len(ids) + i
            BY <1>0, <1>5
          <5>2. j \in 1..(Len(ids) + num) /\ ~(j <= Len(ids)) /\ j - Len(ids) = i
            BY <1>0, <1>5, <5>1
          <5> QED
            BY <1>15, <4>1, <4>2, <5>1, <5>2
        <4> QED
          BY <1>15, <4>1, <4>2, <4>4, <4>5 DEF Extended
      <3>3. Position <= lap * SeqMod + f /\ lap * SeqMod + f + num <= Position'
        BY <1>6, <1>9, <1>10
      <3> QED
        BY <1>0, <1>5, <1>7, <1>8, <1>9, <1>16, <3>1, <3>2, <3>3, MoreIds
    <2> QED
      BY <2>1, <2>2
  <1> QED
    BY <1>6, <1>17, <1>18

LEMMA LapLater ==
    ASSUME NEW base \in Nat, NEW a \in Nat, NEW m \in Nat, NEW c \in Nat, a < m
    PROVE  base + a <= base + m + c /\ base + m + c \in Nat
  OBVIOUS

\* A restart goes past every number handed out, also when the file is from before the
\* end of the counter.
LEMMA RestoreGen ==
    ASSUME GenInv, Restore, laps' = RestoredLaps
    PROVE  laps' \in Nat /\ NearFile' /\ Position <= Position' /\ Position' \in Nat
  <1>0. /\ SeqInv /\ GenType /\ NearFile /\ TypeOK /\ laps \in Nat /\ sequence \in Word
        /\ SeqMod \in Nat /\ SeqMod > 2 * Steps + 2 /\ Steps \in Nat
    BY SeqAssumption DEF GenInv, SeqInv, TypeOK, GenType
  <1>1. /\ file # Torn /\ sequence' = RestoredSequence /\ file' = sequence'
        /\ start' = sequence' /\ running'
    BY DEF Restore, StoreOk
  <1>2. CASE file = NoFile
    <2>1. /\ sequence = 0 /\ sequence' = Steps /\ laps' = laps
      BY <1>0, <1>1, <1>2 DEF SeqInv, Fresh, RestoredSequence, RestoredLaps, RestoreWraps,
                              NoFile
    <2>2. NearFile'
      BY <1>0, <1>1, <2>1 DEF NearFile, Since
    <2> QED
      BY <1>0, <2>1, <2>2, NextLap DEF Position
  <1>3. CASE file # NoFile
    <2>1. file \in Word /\ Since(file, sequence) <= 2 * Steps
      BY <1>0, <1>1, <1>3 DEF TypeOK, NearFile
    <2>2. file \in Nat /\ file < SeqMod /\ sequence \in Nat /\ sequence < SeqMod
      BY <1>0, <2>1 DEF Word
    <2>3. sequence' = (file + 2 * Steps) % SeqMod
      BY <1>1, <1>3 DEF RestoredSequence
    <2>4. CASE file + 2 * Steps >= SeqMod
      <3>1. sequence' = file + 2 * Steps - SeqMod
        <4>1. PICK x \in Nat : x = file + 2 * Steps
          BY <1>0, <2>2
        <4>2. x >= SeqMod /\ x < 2 * SeqMod
          BY <1>0, <2>2, <2>4, <4>1
        <4>3. x % SeqMod = x - SeqMod
          <5>1. x % SeqMod = IF x < SeqMod THEN x ELSE x - SeqMod
            BY <4>2, SeqModOnce
          <5>2. ~(x < SeqMod)
            BY <1>0, <4>2
          <5> QED
            BY <5>1, <5>2
        <4>4. file + 2 * Steps - SeqMod = x - SeqMod
          BY <1>0, <2>2, <4>1
        <4> QED
          BY <2>3, <4>1, <4>3, <4>4
      <3>2. laps' = (IF file > sequence THEN laps - 1 ELSE laps) + 1
        BY <1>3, <2>4 DEF RestoredLaps, RestoreWraps
      <3>3. NearFile'
        BY <1>0, <1>1, <2>2, <3>1 DEF NearFile, Since
      <3>4. CASE file > sequence
        <4>1. laps' = laps
          BY <1>0, <3>2, <3>4
        <4>2. sequence <= sequence' /\ sequence' \in Nat
          BY <1>0, <2>1, <2>2, <2>4, <3>1, <3>4 DEF Since
        <4>3. PICK b \in Nat : b = laps * SeqMod
          BY <1>0, NextLap
        <4>4. Position = b + sequence /\ Position' = b + sequence'
          BY <4>1, <4>3 DEF Position
        <4>5. Position <= Position' /\ Position' \in Nat
          <5>1. b + sequence <= b + sequence' /\ b + sequence' \in Nat
            BY <2>2, <4>2, <4>3
          <5> QED
            BY <4>4, <5>1
        <4>6. laps' \in Nat
          BY <1>0, <4>1
        <4> QED
          BY <3>3, <4>5, <4>6
      <3>5. CASE ~(file > sequence)
        <4>1. laps' = laps + 1
          BY <1>0, <3>2, <3>5
        <4>2. sequence' \in Nat
          BY <1>0, <2>2, <2>4, <3>1
        <4>3. PICK base \in Nat : base = laps * SeqMod
          BY <1>0, NextLap
        <4>4. Position = base + sequence /\ Position' = base + SeqMod + sequence'
          BY <1>0, <4>1, <4>3, NextLap DEF Position
        <4>5. Position <= Position' /\ Position' \in Nat
          BY <1>0, <2>2, <4>2, <4>3, <4>4, LapLater
        <4>6. laps' \in Nat
          BY <1>0, <4>1
        <4> QED
          BY <3>3, <4>5, <4>6
      <3> QED
        BY <3>4, <3>5
    <2>5. CASE ~(file + 2 * Steps >= SeqMod)
      <3>1. sequence' = file + 2 * Steps
        <4>1. PICK x \in Nat : x = file + 2 * Steps
          BY <1>0, <2>2
        <4>2. x < SeqMod
          BY <1>0, <2>5, <4>1
        <4> QED
          BY <1>0, <2>3, <4>1, <4>2, SeqModOnce
      <3>2. file <= sequence /\ sequence <= sequence'
        BY <1>0, <2>1, <2>2, <2>5, <3>1 DEF Since
      <3>3. laps' = laps
        BY <1>0, <2>2, <2>5, <3>2 DEF RestoredLaps, RestoreWraps
      <3>4. NearFile'
        BY <1>0, <1>1, <2>2, <3>1 DEF NearFile, Since
      <3> QED
        BY <1>0, <2>2, <3>1, <3>2, <3>3, <3>4, NextLap DEF Position
    <2> QED
      BY <2>4, <2>5
  <1> QED
    BY <1>2, <1>3

\* Stores, crashes and the write-back leave the counter alone and the file near it.
LEMMA OtherNear ==
    ASSUME MaxUnsynced = 0, GenInv,
           RestoreFailed \/ GetUniqSeqFailed \/ LabelChange \/ LabelChangeFailed
              \/ ProcessCrash \/ WriteBack \/ MachineCrash
    PROVE  NearFile' /\ sequence' = sequence /\ ~(~running /\ running')
  <1>0. NearFile /\ TypeOK /\ sequence \in Nat /\ Steps \in Nat /\ ~(Torn \in Word)
    BY SeqAssumption DEF GenInv, SeqInv, TypeOK, Word, Torn
  <1>1. ASSUME StoreFailed, sequence' = sequence, running' = running PROVE NearFile'
    BY <1>0, <1>1 DEF StoreFailed, NearFile
  <1>2. CASE RestoreFailed
    BY <1>0, <1>2 DEF RestoreFailed, NearFile
  <1>3. CASE GetUniqSeqFailed
    BY <1>1, <1>3 DEF GetUniqSeqFailed
  <1>4. CASE LabelChange
    <2>1. Since(sequence, sequence) <= 2 * Steps
      BY <1>0 DEF Since
    <2> QED
      BY <1>4, <2>1 DEF LabelChange, StoreOk, NearFile
  <1>5. CASE LabelChangeFailed
    BY <1>1, <1>5 DEF LabelChangeFailed
  <1>6. CASE ProcessCrash
    BY <1>0, <1>6 DEF ProcessCrash, NearFile
  <1>7. CASE WriteBack
    BY <1>0, <1>7 DEF WriteBack, NearFile
  <1>8. CASE MachineCrash
    <2>1. unsynced = 0
      BY <1>0, <1>8 DEF MachineCrash, TypeOK
    <2>2. file' = file
      BY <1>8, <2>1 DEF MachineCrash, GenInv, SeqInv, Synced
    <2> QED
      BY <1>0, <1>8, <2>2 DEF MachineCrash, NearFile
  <1> QED
    BY <1>2, <1>3, <1>4, <1>5, <1>6, <1>7, <1>8

LEMMA OtherStepGen ==
    ASSUME MaxUnsynced = 0, GenInv, OtherStep
    PROVE  GenType' /\ NearFile' /\ PlaceInv'
  <1>0. /\ GenType /\ PlaceInv /\ laps \in Nat /\ sequence \in Word
        /\ now \in Nat /\ oldTime \in Nat /\ ids \in Seq(Identifiers)
    BY DEF GenInv, GenType, SeqInv, TypeOK
  <1>1. ids' = ids /\ now' = now /\ oldTime' \in {0, oldTime}
    BY DEF OtherStep
  <1>2. Position \in Nat
    BY <1>0, PositionNat
  <1>3. laps' \in Nat /\ NearFile' /\ Position <= Position' /\ Position' \in Nat
    <2>1. CASE Restore
      <3>1. ~running /\ running'
        BY <2>1 DEF Restore
      <3>2. laps' = RestoredLaps
        BY <3>1 DEF OtherStep
      <3> QED
        BY <2>1, <3>2, RestoreGen
    <2>2. CASE ~Restore
      <3>1. NearFile' /\ sequence' = sequence /\ ~(~running /\ running')
        BY <2>2, OtherNear DEF OtherStep
      <3>2. laps' = laps
        BY <3>1 DEF OtherStep
      <3>3. Position' = Position
        BY <3>1, <3>2 DEF Position
      <3> QED
        BY <1>0, <1>2, <3>1, <3>2, <3>3
    <2> QED
      BY <2>1, <2>2
  <1>4. GenType'
    BY <1>0, <1>1, <1>3 DEF GenType
  <1> QED
    BY <1>0, <1>1, <1>2, <1>3, <1>4, SamePlaces

LEMMA NextGenInv ==
    ASSUME MaxUnsynced = 0, SmallBatches
    PROVE  GenInv /\ [GenNext]_<<vars, genVars>> => GenInv'
  <1> SUFFICES ASSUME GenInv, [GenNext]_<<vars, genVars>> PROVE GenInv'
    OBVIOUS
  <1>1. SeqInv'
    BY GenSeqInv DEF GenInv
  <1>2. ASSUME NEW time \in ClientTimes \cup {0}, GetUniqId(now, time)
        PROVE  GenInv'
    BY <1>1, <1>2, GetUniqIdGen DEF GenInv
  <1>3. ASSUME NEW num \in 1..MaxNum, GetLocalUniqId(now, num)
        PROVE  GenInv'
    BY <1>1, <1>3, GetLocalUniqIdGen DEF GenInv
  <1>4. CASE OtherStep
    BY <1>1, <1>4, OtherStepGen DEF GenInv
  <1>5. CASE Tick
    <2>1. /\ UNCHANGED <<running, sequence, start, file, laps, ids, oldTime>>
          /\ now' = now + 1
      BY <1>5 DEF Tick, vars
    <2>2. GenType' /\ NearFile' /\ PlaceInv'
      BY <2>1 DEF GenInv, GenType, NearFile, PlaceInv, Position
    <2> QED
      BY <1>1, <2>2 DEF GenInv
  <1>6. CASE UNCHANGED <<vars, genVars>>
    <2>1. UNCHANGED <<running, sequence, start, file, laps, ids, oldTime, now>>
      BY <1>6 DEF vars, genVars
    <2>2. GenType' /\ NearFile' /\ PlaceInv'
      BY <2>1 DEF GenInv, GenType, NearFile, PlaceInv, Position
    <2> QED
      BY <1>1, <2>2 DEF GenInv
  <1> QED
    BY <1>2, <1>3, <1>4, <1>5, <1>6 DEF GenNext

LEMMA GenInvUnique == GenInv => IdUnique
  <1> SUFFICES ASSUME GenInv, InQuota, NEW i \in DOMAIN ids, NEW j \in DOMAIN ids, i < j,
                      Same(ids[i], ids[j])
               PROVE  FALSE
    BY DEF IdUnique
  <1>1. /\ ids[i].hour = ids[j].hour /\ ids[i].seq = ids[j].seq
        /\ ids[j].place - ids[i].place < IdMod
    BY DEF Same, InQuota
  <1>2. ids[i].seq \in Nat
    <2>1. ids[i] \in Identifiers
      BY DEF GenInv, GenType
    <2> QED
      BY <2>1 DEF Identifiers
  <1>3. ids[i].place < ids[j].place
    BY DEF GenInv, PlaceInv
  <1>4. PICK k \in Nat : ids[i].place = k * IdMod + ids[i].seq
    BY DEF GenInv, PlaceInv
  <1>5. PICK h \in Nat : ids[j].place = h * IdMod + ids[j].seq
    BY DEF GenInv, PlaceInv
  <1>6. PICK r \in Nat : r = ids[i].seq
    BY <1>2
  <1>7. /\ k * IdMod + r < h * IdMod + r
        /\ (h * IdMod + r) - (k * IdMod + r) < IdMod
    BY <1>1, <1>3, <1>4, <1>5, <1>6
  <1>8. IdMod \in Nat \ {0}
    BY GenAssumption
  <1>9. (h * IdMod + r) - (k * IdMod + r) >= IdMod
    BY <1>7, <1>8, SameFieldFar
  <1>10. k * IdMod \in Nat /\ h * IdMod \in Nat
    BY <1>8
  <1> QED
    BY <1>7, <1>8, <1>9, <1>10

\* The numbers of get_uniq_seq() stay apart in one pass of the counter also when
\* identifiers are asked for in between.
THEOREM GenNoReuseHolds ==
    ASSUME MaxUnsynced = 0
    PROVE  GenSpec => []NoReuse
  <1>1. SeqInv => NoReuse
    BY DEF SeqInv, NoReuse, AllDisjoint
  <1>2. GenInit => SeqInv
    BY InitSeqInv DEF GenInit
  <1> QED
    BY <1>1, <1>2, GenSeqInv, PTL DEF GenSpec

\* The identifiers get_uniq_id() and get_local_uniq_id() make of an agent's numbers
\* differ as long as an hour takes fewer than the field holds, for every size of the
\* field, the counter and the steps, and however often the process restarts, if a crash
\* of the machine loses no store and batches are below half of steps.
THEOREM IdUniqueHolds ==
    ASSUME MaxUnsynced = 0, SmallBatches
    PROVE  GenSpec => []IdUnique
  <1>1. GenInit => GenInv
    BY InitGenInv
  <1>2. GenInv /\ [GenNext]_<<vars, genVars>> => GenInv'
    BY NextGenInv
  <1>3. GenInv => IdUnique
    BY GenInvUnique
  <1> QED
    BY <1>1, <1>2, <1>3, PTL DEF GenSpec

=============================================================================
