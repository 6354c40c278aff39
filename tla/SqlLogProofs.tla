---------------------------- MODULE SqlLogProofs ----------------------------
(***************************************************************************)
(* Proofs about SqlLog, for any number of statements, files, faults and    *)
(* restarts: nothing that sql.progress counts as done is executed again,   *)
(* how often a statement is executed is bounded by the faults, in which    *)
(* order statements get into the database, and how many may be lost.       *)
(***************************************************************************)
EXTENDS SqlLog, FiniteSetTheorems, WellFoundedInduction, TLAPS

\* handle_file is at work on a file.
Handling == pc \in {"read", "update", "progress"}

\* What the names refer to.
NamesInv ==
    /\ dir \subseteq Names /\ todo \subseteq Names
    /\ Handling => file \in Names
    /\ offset \in Nat
    /\ progress \in [file : Nat, offset : Nat]
    /\ done \in [file : Nat, offset : Nat]
    /\ stale \subseteq [file : Nat, offset : Nat]
    /\ wpc = "open" => path \in Names
    /\ left \in Nat

\* _progress is what sql.progress says, and the child is not behind it.
DoneInv ==
    left = 0 =>
    /\ pc # "down" /\ progress.file # None => done = progress
    /\ Handling /\ file = progress.file => offset >= progress.offset
    /\ pc \in {"update", "progress"} /\ file = progress.file => offset > progress.offset

\* The contents of the log: every statement has one place.
DataInv ==
    /\ data \in [Names -> Seq(Nat)]
    /\ written \in Nat
    /\ \A f \in Names : \A i \in DOMAIN data[f] : data[f][i] <= written
    /\ \A f, g \in Names : \A i \in DOMAIN data[f] : \A j \in DOMAIN data[g] :
          data[f][i] = data[g][j] => f = g /\ i = j

\* Who writes and who reads it.
LogInv ==
    /\ synced \in [Names -> Nat]
    /\ fd \in Names \cup {None}
    /\ wpc = "write" => fd \in Names
    /\ pc = "update" => offset \in DOMAIN data[file]

\* The child has come past place i of file f.
Passed(f, i) ==
    /\ f = file
    /\ \/ pc \in {"read", "progress"} /\ i <= offset
       \/ pc = "update" /\ i < offset

\* A statement that the child, if nothing fails, will still come to.
Pending(s) == \E f \in Names : \E i \in DOMAIN data[f] : data[f][i] = s /\ ~Passed(f, i)

Count(t, s) == Cardinality({i \in DOMAIN t : t[i] = s})

\* What the faults allow for; a stop of db_proxy is used up when the child has
\* noticed it.
Noticed == IF ~up /\ pc # "down" THEN 1 ELSE 0

Credit == 1 + faults + restarts - Noticed

\* How often a statement has been executed, or will be if nothing fails.
Weight(s) == Count(table, s) + Count(txn, s) + (IF Pending(s) THEN 1 ELSE 0)

\* A sequence of statements that have been written.
Below(t, w) == t \in Seq(Nat) /\ \A i \in DOMAIN t : t[i] <= w

TableInv == Below(table, written) /\ Below(txn, written) /\ faults \in Nat /\ restarts \in Nat

\* There is an open transaction only in a session that is not in autocommit mode.
SessionInv == auto \/ pc = "down" => txn = <<>>

WeightInv == \A s \in Nat : Weight(s) <= Credit

\* Most leaves are first-order reasoning; those with arithmetic, sequences or records
\* built by EXCEPT name the SMT solver.
USE Zenon

-----------------------------------------------------------------------------
(* Counting in sequences.                                                  *)

\* The places of a value in a sequence are finitely many.
LEMMA PlacesFinite ==
    ASSUME NEW t \in Seq(Nat), NEW s
    PROVE  IsFiniteSet({i \in DOMAIN t : t[i] = s}) /\ Count(t, s) \in Nat
  <1>1. DOMAIN t = 1..Len(t) /\ Len(t) \in Nat
    BY SMT
  <1>2. IsFiniteSet(1..Len(t))
    BY <1>1, FS_Interval, SMT
  <1>3. IsFiniteSet({i \in DOMAIN t : t[i] = s})
    BY <1>1, <1>2, FS_Subset
  <1> QED BY <1>3, FS_CardinalityType DEF Count

LEMMA CountEmpty == \A s : Count(<<>>, s) = 0
  <1> TAKE s
  <1>1. {i \in DOMAIN <<>> : <<>>[i] = s} = {}
    BY SMT
  <1> QED BY <1>1, FS_EmptySet DEF Count

LEMMA CountAppend ==
    ASSUME NEW t \in Seq(Nat), NEW x \in Nat, NEW s
    PROVE  Count(Append(t, x), s) = Count(t, s) + (IF x = s THEN 1 ELSE 0)
  <1> DEFINE A == {i \in DOMAIN t : t[i] = s}
             B == {i \in DOMAIN Append(t, x) : Append(t, x)[i] = s}
             n == Len(t) + 1
  <1>1. Count(t, s) = Cardinality(A) /\ Count(Append(t, x), s) = Cardinality(B)
    BY DEF Count
  <1>2. IsFiniteSet(A) /\ Cardinality(A) \in Nat
    BY PlacesFinite DEF Count
  <1>3. n \notin A
    BY SMT
  <1>4. x = s => B = A \cup {n}
    BY SMT
  <1>5. x # s => B = A
    BY SMT
  <1> HIDE DEF A, B, n
  <1>6. Cardinality(A \cup {n}) = Cardinality(A) + 1
    BY <1>2, <1>3, FS_AddElement
  <1>7. CASE x = s
    BY <1>1, <1>4, <1>6, <1>7
  <1>8. CASE x # s
    BY <1>1, <1>2, <1>5, <1>8, SMT
  <1> QED BY <1>7, <1>8

LEMMA CountConcat ==
    ASSUME NEW t \in Seq(Nat), NEW u \in Seq(Nat), NEW s
    PROVE  Count(t \o u, s) = Count(t, s) + Count(u, s)
  <1> DEFINE A == {i \in DOMAIN t : t[i] = s}
             B == {i \in DOMAIN u : u[i] = s}
             C == {i \in DOMAIN (t \o u) : (t \o u)[i] = s}
             n == Len(t)
             D == {i \in C : i > n}
             Shift == [i \in B |-> n + i]
  <1>1. IsFiniteSet(A) /\ IsFiniteSet(B) /\ Cardinality(A) \in Nat /\ Cardinality(B) \in Nat
    BY PlacesFinite DEF Count
  <1>2. /\ n \in Nat /\ Len(u) \in Nat /\ DOMAIN t = 1..n /\ DOMAIN u = 1..Len(u)
        /\ DOMAIN (t \o u) = 1..(n + Len(u))
        /\ \A i \in 1..n : (t \o u)[i] = t[i]
        /\ \A i \in 1..Len(u) : (t \o u)[n + i] = u[i]
    BY SMT
  <1>3. Shift \in [B -> D]
    BY <1>2, SMT
  <1>4. \A i, j \in B : Shift[i] = Shift[j] => i = j
    BY <1>2, SMT
  <1>5. \A d \in D : \E i \in B : Shift[i] = d
    <2> TAKE d \in D
    <2>1. d - n \in B /\ n + (d - n) = d
      <3>1. d \in 1..(n + Len(u)) /\ d > n /\ (t \o u)[d] = s
        BY <1>2
      <3>2. d - n \in 1..Len(u) /\ n + (d - n) = d
        BY <3>1, <1>2, SMT
      <3> QED BY <3>1, <3>2, <1>2
    <2> QED BY <2>1
  <1>6. ExistsBijection(B, D)
    <2> HIDE DEF B, D, Shift
    <2>1. Shift \in Injection(B, D)
      BY <1>3, <1>4, SMT DEF Injection, IsInjective
    <2>2. Shift \in Surjection(B, D)
      BY <1>3, <1>5, SMT DEF Surjection
    <2> QED BY <2>1, <2>2 DEF ExistsBijection, Bijection
  <1>7. IsFiniteSet(D) /\ Cardinality(D) = Cardinality(B)
    BY <1>1, <1>6, FS_Bijection
  <1>8. C = A \cup D /\ A \cap D = {}
    BY <1>2, SMT
  <1>9. /\ Count(t, s) = Cardinality(A) /\ Count(u, s) = Cardinality(B)
        /\ Count(t \o u, s) = Cardinality(C)
    BY DEF Count
  <1> HIDE DEF A, B, C, D, n
  <1>10. Cardinality(A \cup D) = Cardinality(A) + Cardinality(D) - Cardinality(A \cap D)
    BY <1>1, <1>7, FS_Union
  <1>11. Cardinality(A \cap D) = 0
    BY <1>8, FS_EmptySet
  <1> QED BY <1>1, <1>7, <1>8, <1>9, <1>10, <1>11, SMT

-----------------------------------------------------------------------------
(* sql.progress.                                                           *)

LEMMA InitNames == Init => NamesInv /\ DoneInv
  BY SMT DEF Init, LoggerInit, ProcessInit, Position, NamesInv, DoneInv, Handling, None, Names

LEMMA NextNames == NamesInv /\ [Next]_vars => NamesInv'
  <1> SUFFICES ASSUME NamesInv, [Next]_vars
               PROVE  NamesInv'
    OBVIOUS
  <1> USE DEF NamesInv, Handling, diskVars, writerVars, processVars, childVars, dbVars
  <1>1. CASE \E gap \in Gaps : Rotate(gap) /\ UNCHANGED processVars
    BY <1>1 DEF Rotate
  <1>2. CASE (OpenLog \/ KeepLog \/ WriteLog) /\ UNCHANGED processVars
    BY <1>2 DEF OpenLog, KeepLog, WriteLog, WriteSql
  <1>3. CASE (OpenLogFailed \/ WriteLogFailed) /\ UNCHANGED processVars
    BY <1>3 DEF OpenLogFailed, WriteLogFailed, WriteSql
  <1>4. CASE ChildStart
    <2>1. done' \in [file : Nat, offset : Nat]
      BY <1>4, ProcessAssumption, SMT DEF ChildStart, Position
    <2> QED BY <1>4, <2>1 DEF ChildStart
  <1>5. CASE ListDirectory
    BY <1>5 DEF ListDirectory
  <1>6. CASE EndDirectory
    BY <1>6 DEF EndDirectory
  <1>7. ASSUME NEW f \in todo, SkipFile(f) PROVE NamesInv'
    BY <1>7 DEF SkipFile, ArchiveFile, Archive
  <1>8. ASSUME NEW f \in todo, OpenFile(f) PROVE NamesInv'
    BY <1>8 DEF OpenFile, Seek
  <1>9. CASE ReadSql
    BY <1>9, SMT DEF ReadSql
  <1>10. CASE EndOfFile
    BY <1>10 DEF EndOfFile, ArchiveFile, Archive
  <1>11. CASE UpdateOk \/ UpdateRefused \/ UpdateGone \/ UpdateLost \/ CommitLost
    BY <1>11 DEF UpdateOk, UpdateRefused, UpdateGone, UpdateLost, CommitLost
  <1>12. CASE SaveProgress
    <2>1. file \in Nat
      BY <1>12, SMT DEF SaveProgress, Names
    <2> QED BY <1>12, <2>1, SMT DEF SaveProgress, Position
  <1>13. CASE LeaveFile
    <2>1. done' \in [file : Nat, offset : Nat]
      BY <1>13, SMT DEF LeaveFile, OpenFileFailed, Position, Names
    <2>2. todo' \subseteq Names
      BY <1>13 DEF LeaveFile, OpenFileFailed
    <2> QED BY <1>13, <2>1, <2>2, SMT DEF LeaveFile
  <1>14. CASE LoseConnection
    BY <1>14 DEF LoseConnection
  <1>15. CASE ChildExit \/ ChildCrash
    BY <1>15, SMT DEF ChildExit, ChildCrash, ChildEnds, Position, None
  <1>16. CASE ParentDown
    BY <1>16 DEF ParentDown, ParentEnds, WriteSql
  <1>17. CASE ParentStart
    BY <1>17 DEF ParentStart
  <1>18. CASE PowerLoss
    BY <1>18 DEF PowerLoss, ParentEnds, ChildEnds, Position, None
  <1>19. CASE UNCHANGED vars
    BY <1>19 DEF vars
  <1> QED BY <1>1, <1>2, <1>3, <1>4, <1>5, <1>6, <1>7, <1>8, <1>9, <1>10, <1>11, <1>12,
             <1>13, <1>14, <1>15, <1>16, <1>17, <1>18, <1>19 DEF Next, ChildStep

LEMMA NextDone == NamesInv /\ DoneInv /\ [Next]_vars => DoneInv'
  <1> SUFFICES ASSUME NamesInv, DoneInv, [Next]_vars
               PROVE  DoneInv'
    OBVIOUS
  <1> USE DEF DoneInv, Handling, diskVars, writerVars, processVars, childVars, dbVars
  <1>1. CASE \E gap \in Gaps : Rotate(gap) /\ UNCHANGED processVars
    BY <1>1
  <1>2. CASE (OpenLog \/ KeepLog \/ WriteLog) /\ UNCHANGED processVars
    BY <1>2
  <1>3. CASE (OpenLogFailed \/ WriteLogFailed) /\ UNCHANGED processVars
    BY <1>3
  <1>4. CASE ChildStart
    BY <1>4 DEF ChildStart
  <1>5. CASE ListDirectory
    BY <1>5 DEF ListDirectory
  <1>6. CASE EndDirectory
    BY <1>6 DEF EndDirectory
  <1>7. ASSUME NEW f \in todo, SkipFile(f) PROVE DoneInv'
    BY <1>7 DEF SkipFile
  <1>8. ASSUME NEW f \in todo, OpenFile(f) PROVE DoneInv'
    <2>1. f # None
      BY <1>8, SMT DEF NamesInv, Names, None
    <2>2. progress.offset \in Nat
      BY DEF NamesInv
    <2> QED BY <1>8, <2>1, <2>2, SMT DEF OpenFile, Seek
  <1>9. CASE ReadSql
    <2>1. progress.offset \in Nat /\ offset \in Nat
      BY DEF NamesInv
    <2> QED BY <1>9, <2>1, SMT DEF ReadSql
  <1>10. CASE EndOfFile
    BY <1>10 DEF EndOfFile
  <1>11. CASE UpdateOk \/ UpdateRefused \/ UpdateGone \/ UpdateLost \/ CommitLost
    BY <1>11 DEF UpdateOk, UpdateRefused, UpdateGone, UpdateLost, CommitLost
  <1>12. CASE SaveProgress
    BY <1>12, SMT DEF SaveProgress, Position, NamesInv
  <1>13. CASE LeaveFile
    BY <1>13, SMT DEF LeaveFile, NamesInv
  <1>14. CASE LoseConnection
    BY <1>14 DEF LoseConnection
  <1>15. CASE ChildExit \/ ChildCrash
    BY <1>15 DEF ChildExit, ChildCrash, ChildEnds
  <1>16. CASE ParentDown
    BY <1>16 DEF ParentDown
  <1>17. CASE ParentStart
    BY <1>17 DEF ParentStart
  <1>18. CASE PowerLoss
    BY <1>18 DEF PowerLoss, ChildEnds
  <1>19. CASE UNCHANGED vars
    BY <1>19 DEF vars
  <1> QED BY <1>1, <1>2, <1>3, <1>4, <1>5, <1>6, <1>7, <1>8, <1>9, <1>10, <1>11, <1>12,
             <1>13, <1>14, <1>15, <1>16, <1>17, <1>18, <1>19 DEF Next, ChildStep

\* Only update() changes the table.
LEMMA TableStep == [Next]_vars /\ table' # table => pc = "update"
  <1> USE DEF diskVars, writerVars, processVars, childVars, dbVars
  <1>1. [Next]_vars /\ pc # "update" => table' = table
    BY DEF Next, ChildStep, vars, ChildStart, ListDirectory, EndDirectory, SkipFile, OpenFile,
           ReadSql, EndOfFile, UpdateOk, UpdateRefused, UpdateGone, UpdateLost, CommitLost,
           SaveProgress, LeaveFile, LoseConnection, ChildExit, ChildCrash, ChildEnds,
           ParentDown, ParentStart, PowerLoss
  <1> QED BY <1>1

\* NotRedone, for any number of statements, files, faults and restarts and any
\* batch: in the file that sql.progress names nothing is executed that it counts as
\* done, across all ends of the child, of db_proxy and of the machine.
THEOREM NotRedoneHolds == Spec => NotRedone
  <1>1. Init => NamesInv /\ DoneInv
    BY InitNames
  <1>2. NamesInv /\ DoneInv /\ [Next]_vars => (NamesInv /\ DoneInv)'
    BY NextNames, NextDone
  <1>3. NamesInv /\ DoneInv /\ [Next]_vars
        => [left = 0 /\ table' # table /\ file = progress.file => offset > progress.offset]_vars
    BY TableStep DEF DoneInv
  <1> QED BY <1>1, <1>2, <1>3, PTL DEF Spec, NotRedone

-----------------------------------------------------------------------------
(* The log.                                                                *)

\* Every file of the log is a beginning of what it was.
Shorter ==
    /\ data' \in [Names -> Seq(Nat)]
    /\ \A f \in Names : \A i \in DOMAIN data'[f] : i \in DOMAIN data[f] /\ data'[f][i] = data[f][i]

\* Every file is what it was, with a new statement at most.
Longer ==
    /\ data' \in [Names -> Seq(Nat)]
    /\ \A f \in Names : \A i \in DOMAIN data[f] : i \in DOMAIN data'[f] /\ data'[f][i] = data[f][i]
    /\ \A f \in Names : \A i \in DOMAIN data'[f] \ DOMAIN data[f] : data'[f][i] = written'

LEMMA ShorterData == DataInv /\ Shorter /\ written' = written => DataInv'
  BY SMT DEF DataInv, Shorter

LEMMA ArchiveShorter ==
    ASSUME DataInv, NEW n \in Names, Archive(n)
    PROVE  Shorter /\ data'[n] = <<>>
  BY SMT DEF DataInv, Shorter, Archive

LEMMA ArchiveFileShorter ==
    ASSUME DataInv, NEW n \in Names, ArchiveFile(n)
    PROVE  Shorter
  <1>1. CASE Archive(n)
    BY <1>1, ArchiveShorter
  <1>2. CASE UNCHANGED data
    BY <1>2 DEF DataInv, Shorter
  <1> QED BY <1>1, <1>2 DEF ArchiveFile, diskVars

\* What is left of the files when power is lost: what was synced, at least.
LEMMA PowerShorter ==
    ASSUME NamesInv, DataInv, LogInv, PowerLoss
    PROVE  /\ Shorter /\ synced' \in [Names -> Nat]
           /\ \A f \in Names \ dir : data'[f] = data[f]
           /\ \A f \in dir : Len(data'[f]) = synced'[f] /\ synced[f] <= synced'[f]
  <1>1. PICK k \in [dir -> 0..MaxSql] :
           /\ \A n \in dir : synced[n] <= k[n] /\ k[n] <= Len(data[n])
           /\ data' = [n \in Names |-> IF n \in dir THEN SubSeq(data[n], 1, k[n]) ELSE data[n]]
           /\ synced' = [n \in Names |-> IF n \in dir THEN k[n] ELSE synced[n]]
    BY DEF PowerLoss
  <1>2. dir \subseteq Names /\ \A n \in Names : data[n] \in Seq(Nat) /\ synced[n] \in Nat
    BY DEF NamesInv, DataInv, LogInv
  <1>3. \A n \in dir : k[n] \in Nat
    <2>1. \A n \in dir : k[n] \in 0..MaxSql
      OBVIOUS
    <2>2. \A m \in 0..MaxSql : m \in Nat
      BY LoggerAssumption, SMT
    <2> QED BY <2>1, <2>2
  <1>4. \A n \in dir : data'[n] = SubSeq(data[n], 1, k[n]) /\ synced'[n] = k[n]
    BY <1>1, <1>2
  <1>5. \A n \in Names \ dir : data'[n] = data[n] /\ synced'[n] = synced[n]
    BY <1>1
  <1>6. ASSUME NEW t \in Seq(Nat), NEW m \in Nat, m <= Len(t)
        PROVE  /\ SubSeq(t, 1, m) \in Seq(Nat) /\ Len(SubSeq(t, 1, m)) = m
               /\ \A i \in DOMAIN SubSeq(t, 1, m) : i \in DOMAIN t /\ SubSeq(t, 1, m)[i] = t[i]
    BY <1>6, SMT
  <1>7. \A n \in Names : data'[n] \in Seq(Nat) /\ synced'[n] \in Nat
    BY <1>1, <1>2, <1>3, <1>4, <1>5, <1>6
  <1>8. data' \in [Names -> Seq(Nat)] /\ synced' \in [Names -> Nat]
    <2> DEFINE D == [n \in Names |-> IF n \in dir THEN SubSeq(data[n], 1, k[n]) ELSE data[n]]
               E == [n \in Names |-> IF n \in dir THEN k[n] ELSE synced[n]]
    <2>1. data' = D /\ synced' = E
      BY <1>1
    <2>2. \A n \in Names : D[n] \in Seq(Nat) /\ E[n] \in Nat
      BY <1>7, <2>1
    <2> QED BY <2>1, <2>2
  <1>9. \A f \in Names : \A i \in DOMAIN data'[f] : i \in DOMAIN data[f] /\ data'[f][i] = data[f][i]
    <2>1. ASSUME NEW f \in dir
          PROVE  \A i \in DOMAIN data'[f] : i \in DOMAIN data[f] /\ data'[f][i] = data[f][i]
      <3>1. data[f] \in Seq(Nat) /\ k[f] \in Nat /\ k[f] <= Len(data[f])
        BY <1>1, <1>2, <1>3
      <3>2. \A i \in DOMAIN SubSeq(data[f], 1, k[f]) :
               i \in DOMAIN data[f] /\ SubSeq(data[f], 1, k[f])[i] = data[f][i]
        BY <1>6, <3>1
      <3> QED BY <1>4, <3>2
    <2> QED BY <1>5, <2>1
  <1>10. \A f \in dir : Len(data'[f]) = synced'[f] /\ synced[f] <= synced'[f]
    <2>1. ASSUME NEW f \in dir
          PROVE  Len(data'[f]) = synced'[f] /\ synced[f] <= synced'[f]
      <3>1. data[f] \in Seq(Nat) /\ k[f] \in Nat /\ k[f] <= Len(data[f]) /\ synced[f] <= k[f]
        BY <1>1, <1>2, <1>3
      <3>2. Len(SubSeq(data[f], 1, k[f])) = k[f]
        BY <1>6, <3>1
      <3> QED BY <1>4, <3>1, <3>2
    <2> QED BY <2>1
  <1> QED BY <1>5, <1>8, <1>9, <1>10 DEF Shorter

LEMMA WriteLonger ==
    ASSUME DataInv, LogInv, NEW end \in BOOLEAN, WriteSql(end)
    PROVE  Longer /\ DataInv'
  <1>1. written' = written + 1 /\ written \in Nat /\ written' \in Nat /\ fd \in Names
    BY SMT DEF WriteSql, DataInv, LogInv
  <1>2. CASE gone
    BY <1>1, <1>2, SMT DEF WriteSql, DataInv, Longer
  <1>3. CASE ~gone
    <2>1. data' = [data EXCEPT ![fd] = Append(@, written')]
      BY <1>3 DEF WriteSql
    <2>2. data'[fd] = Append(data[fd], written') /\ \A f \in Names \ {fd} : data'[f] = data[f]
      BY <1>1, <2>1 DEF DataInv
    <2>3. data[fd] \in Seq(Nat)
      BY <1>1 DEF DataInv
    <2>4. /\ Append(data[fd], written') \in Seq(Nat)
          /\ DOMAIN Append(data[fd], written') = DOMAIN data[fd] \cup {Len(data[fd]) + 1}
          /\ Append(data[fd], written')[Len(data[fd]) + 1] = written'
          /\ \A i \in DOMAIN data[fd] : Append(data[fd], written')[i] = data[fd][i]
      BY <2>3, <1>1, SMT
    <2>5. data' \in [Names -> Seq(Nat)]
      BY <2>1, <2>4, <1>1 DEF DataInv
    <2>6. Longer
      BY <2>2, <2>4, <2>5 DEF Longer
    <2>7. \A f \in Names : \A i \in DOMAIN data'[f] :
             \/ i \in DOMAIN data[f] /\ data'[f][i] = data[f][i] /\ data'[f][i] <= written
             \/ f = fd /\ i = Len(data[fd]) + 1 /\ data'[f][i] = written'
      BY <2>2, <2>4 DEF DataInv
    <2>8. \A f \in Names : \A i \in DOMAIN data'[f] : data'[f][i] <= written'
      <3> TAKE f \in Names
      <3> TAKE i \in DOMAIN data'[f]
      <3>1. data'[f][i] \in Nat
        BY <2>5, SMT
      <3> QED BY <2>7, <1>1, <3>1, SMT
    <2>9. \A f, g \in Names : \A i \in DOMAIN data'[f] : \A j \in DOMAIN data'[g] :
             data'[f][i] = data'[g][j] => f = g /\ i = j
      <3>1. ~(written' <= written)
        BY <1>1, SMT
      <3> QED BY <2>7, <3>1, SMT DEF DataInv
    <2> QED BY <1>1, <2>5, <2>6, <2>8, <2>9 DEF DataInv
  <1> QED BY <1>2, <1>3

LEMMA InitLog == Init => DataInv /\ LogInv
  BY SMT DEF Init, LoggerInit, ProcessInit, DataInv, LogInv, None

LEMMA NextData == NamesInv /\ DataInv /\ LogInv /\ [Next]_vars => DataInv'
  <1> SUFFICES ASSUME NamesInv, DataInv, LogInv, [Next]_vars
               PROVE  DataInv'
    OBVIOUS
  <1> USE DEF diskVars, writerVars, processVars
  <1>1. ASSUME UNCHANGED <<data, written>> PROVE DataInv'
    BY <1>1, SMT DEF DataInv
  <1>2. ASSUME NEW end \in BOOLEAN, WriteSql(end) PROVE DataInv'
    BY <1>2, WriteLonger
  <1>3. CASE \E gap \in Gaps : Rotate(gap) /\ UNCHANGED processVars
    BY <1>1, <1>3 DEF Rotate
  <1>4. CASE (OpenLog \/ KeepLog \/ WriteLog) /\ UNCHANGED processVars
    BY <1>1, <1>2, <1>4 DEF OpenLog, KeepLog, WriteLog
  <1>5. CASE (OpenLogFailed \/ WriteLogFailed) /\ UNCHANGED processVars
    BY <1>1, <1>2, <1>5 DEF OpenLogFailed, WriteLogFailed
  <1>6. ASSUME NEW f \in todo, SkipFile(f) PROVE DataInv'
    BY <1>6, ArchiveFileShorter, ShorterData DEF SkipFile, NamesInv
  <1>7. ASSUME NEW f \in todo, OpenFile(f) PROVE DataInv'
    BY <1>1, <1>7 DEF OpenFile
  <1>8. CASE EndOfFile
    BY <1>8, ArchiveFileShorter, ShorterData DEF EndOfFile, NamesInv, Handling
  <1>9. CASE ChildStart \/ ListDirectory \/ EndDirectory \/ ReadSql \/ UpdateOk \/ UpdateRefused
             \/ UpdateGone \/ UpdateLost \/ CommitLost \/ SaveProgress \/ LeaveFile
             \/ LoseConnection \/ ChildExit \/ ChildCrash \/ ParentStart
    BY <1>1, <1>9 DEF ChildStart, ListDirectory, EndDirectory, ReadSql, UpdateOk,
       UpdateRefused, UpdateGone, UpdateLost, CommitLost, SaveProgress, LeaveFile,
       LoseConnection, ChildExit, ChildCrash, ParentStart
  <1>10. CASE ParentDown
    BY <1>1, <1>2, <1>10 DEF ParentDown
  <1>11. CASE PowerLoss
    BY <1>11, PowerShorter, ShorterData DEF PowerLoss
  <1>12. CASE UNCHANGED vars
    BY <1>1, <1>12 DEF vars
  <1> QED BY <1>3, <1>4, <1>5, <1>6, <1>7, <1>8, <1>9, <1>10, <1>11, <1>12 DEF Next, ChildStep

LEMMA WriteSynced ==
    ASSUME DataInv, LogInv, NEW end \in BOOLEAN, WriteSql(end)
    PROVE  synced' \in [Names -> Nat]
  <1>1. CASE gone
    BY <1>1 DEF WriteSql, LogInv
  <1>2. CASE ~gone
    <2>1. fd \in Names
      BY DEF WriteSql, LogInv
    <2>2. Len(data'[fd]) \in Nat
      BY <2>1, WriteLonger, SMT DEF Longer
    <2> QED BY <1>2, <2>1, <2>2 DEF WriteSql, LogInv
  <1> QED BY <1>1, <1>2

LEMMA NextLog == NamesInv /\ DataInv /\ LogInv /\ [Next]_vars => LogInv'
  <1> SUFFICES ASSUME NamesInv, DataInv, LogInv, [Next]_vars
               PROVE  LogInv'
    OBVIOUS
  <1> USE DEF diskVars, writerVars, processVars, childVars
  <1>1. ASSUME UNCHANGED <<data, synced, fd, wpc, pc, offset, file>> PROVE LogInv'
    BY <1>1 DEF LogInv
  <1>2. ASSUME UNCHANGED <<data, synced, fd, wpc>>, pc' # "update" PROVE LogInv'
    BY <1>2 DEF LogInv
  <1>3. ASSUME NEW end \in BOOLEAN, WriteSql(end), fd' \in {fd, None}, wpc' = "idle",
               UNCHANGED processVars
        PROVE  LogInv'
    <2>1. synced' \in [Names -> Nat] /\ Longer
      BY <1>3, WriteSynced, WriteLonger
    <2>2. pc = "update" => file \in Names /\ offset \in DOMAIN data[file]
      BY DEF NamesInv, LogInv, Handling
    <2>3. pc' = "update" => offset' \in DOMAIN data'[file']
      BY <1>3, <2>1, <2>2 DEF Longer
    <2> QED BY <1>3, <2>1, <2>3 DEF LogInv
  <1>4. CASE \E gap \in Gaps : Rotate(gap) /\ UNCHANGED processVars
    <2>1. synced' \in [Names -> Nat]
      <3>1. CASE fd = None \/ gone
        BY <1>4, <3>1 DEF Rotate, LogInv
      <3>2. CASE fd # None /\ ~gone
        <4>1. fd \in Names /\ Len(data[fd]) \in Nat
          BY <3>2, SMT DEF LogInv, DataInv
        <4> QED BY <1>4, <3>2, <4>1 DEF Rotate, LogInv
      <3> QED BY <3>1, <3>2
    <2> QED BY <1>4, <2>1 DEF Rotate, LogInv
  <1>5. CASE OpenLog /\ UNCHANGED processVars
    BY <1>5 DEF OpenLog, LogInv, NamesInv
  <1>6. CASE KeepLog /\ UNCHANGED processVars
    BY <1>6 DEF KeepLog, LogInv
  <1>7. CASE WriteLog /\ UNCHANGED processVars
    BY <1>7, <1>3 DEF WriteLog
  <1>8. CASE OpenLogFailed /\ UNCHANGED processVars
    BY <1>8 DEF OpenLogFailed, LogInv
  <1>9. CASE WriteLogFailed /\ UNCHANGED processVars
    <2>1. CASE WriteSql(FALSE)
      BY <1>9, <2>1, <1>3 DEF WriteLogFailed
    <2>2. CASE UNCHANGED diskVars
      BY <1>9, <2>2 DEF WriteLogFailed, LogInv
    <2> QED BY <1>9, <2>1, <2>2 DEF WriteLogFailed
  <1>10. ASSUME NEW n \in Names, ArchiveFile(n), UNCHANGED <<fd, wpc>>, pc' # "update"
         PROVE  LogInv'
    BY <1>10, SMT DEF ArchiveFile, Archive, LogInv
  <1>11. ASSUME NEW f \in todo, SkipFile(f) PROVE LogInv'
    BY <1>10, <1>11 DEF SkipFile, NamesInv
  <1>12. ASSUME NEW f \in todo, OpenFile(f) PROVE LogInv'
    BY <1>2, <1>12 DEF OpenFile
  <1>13. CASE EndOfFile
    BY <1>10, <1>13 DEF EndOfFile, NamesInv, Handling
  <1>14. CASE ReadSql
    <2>1. data[file] \in Seq(Nat) /\ offset \in Nat
      BY <1>14 DEF ReadSql, NamesInv, DataInv, Handling
    <2>2. offset + 1 \in DOMAIN data[file]
      BY <1>14, <2>1, SMT DEF ReadSql
    <2> QED BY <1>14, <2>2 DEF ReadSql, LogInv
  <1>15. CASE ChildStart \/ ListDirectory \/ EndDirectory \/ UpdateOk \/ UpdateRefused
              \/ SaveProgress \/ LeaveFile \/ ChildExit \/ ChildCrash
    BY <1>2, <1>15 DEF ChildStart, ListDirectory, EndDirectory, UpdateOk,
       UpdateRefused, SaveProgress, LeaveFile, ChildExit, ChildCrash, ChildEnds
  <1>16. CASE UpdateGone \/ UpdateLost \/ CommitLost \/ LoseConnection \/ ParentStart
    BY <1>1, <1>16 DEF UpdateGone, UpdateLost, CommitLost, LoseConnection, ParentStart
  <1>17. CASE ParentDown
    <2>1. CASE WriteSql(FALSE)
      BY <1>17, <2>1, <1>3 DEF ParentDown, ParentEnds
    <2>2. CASE UNCHANGED diskVars
      BY <1>17, <2>2 DEF ParentDown, ParentEnds, LogInv
    <2> QED BY <1>17, <2>1, <2>2 DEF ParentDown
  <1>18. CASE PowerLoss
    <2>1. synced' \in [Names -> Nat]
      BY <1>18, PowerShorter
    <2> QED BY <1>18, <2>1 DEF PowerLoss, ParentEnds, ChildEnds, LogInv
  <1>19. CASE UNCHANGED vars
    BY <1>1, <1>19 DEF vars
  <1> QED BY <1>4, <1>5, <1>6, <1>7, <1>8, <1>9, <1>11, <1>12, <1>13, <1>14, <1>15, <1>16,
             <1>17, <1>18, <1>19 DEF Next, ChildStep

-----------------------------------------------------------------------------
(* What is executed has been written.                                      *)

LEMMA BelowFacts ==
    ASSUME NEW w \in Nat, NEW t, NEW u, NEW x \in Nat, Below(t, w), Below(u, w), x <= w
    PROVE  Below(<<>>, w) /\ Below(Append(t, x), w) /\ Below(t \o u, w)
  <1>1. Below(<<>>, w)
    BY SMT DEF Below
  <1>2. t \in Seq(Nat) /\ u \in Seq(Nat)
    BY DEF Below
  <1>3. /\ Append(t, x) \in Seq(Nat)
        /\ DOMAIN Append(t, x) = DOMAIN t \cup {Len(t) + 1}
        /\ Append(t, x)[Len(t) + 1] = x
        /\ \A i \in DOMAIN t : Append(t, x)[i] = t[i]
    BY <1>2, SMT
  <1>4. t \o u \in Seq(Nat) /\ \A i \in DOMAIN (t \o u) :
           \/ i \in DOMAIN t /\ (t \o u)[i] = t[i]
           \/ i - Len(t) \in DOMAIN u /\ (t \o u)[i] = u[i - Len(t)]
    BY <1>2, SMT
  <1> QED BY <1>1, <1>3, <1>4 DEF Below

LEMMA BelowMore ==
    ASSUME NEW w \in Nat, NEW t, Below(t, w)
    PROVE  Below(t, w + 1)
  <1>1. \A i \in DOMAIN t : t[i] \in Nat /\ t[i] <= w
    BY SMT DEF Below
  <1> QED BY <1>1, SMT DEF Below

\* The statement that handle_file has read is in the log.
LEMMA SqlFacts ==
    ASSUME NamesInv, DataInv, LogInv, pc = "update"
    PROVE  file \in Names /\ offset \in DOMAIN data[file] /\ Sql \in Nat /\ Sql <= written
  BY SMT DEF NamesInv, DataInv, LogInv, Handling, Sql

\* table and txn after update(), or after a connection was lost in it.
LEMMA UpdateTable ==
    ASSUME UpdateOk \/ UpdateLost \/ CommitLost
    PROVE  /\ pc = "update"
           /\ \/ table' = table /\ txn' \in {<<>>, Append(txn, Sql)}
              \/ table' \in {table \o Append(txn, Sql), Append(table, Sql)} /\ txn' = <<>>
              \/ table' = table \o Append(txn, Sql) /\ txn' = txn /\ auto
  BY DEF UpdateOk, UpdateLost, CommitLost

LEMMA InitTable == Init => TableInv
  BY SMT DEF Init, LoggerInit, ProcessInit, TableInv, Below

LEMMA NextTable == NamesInv /\ DataInv /\ LogInv /\ TableInv /\ [Next]_vars => TableInv'
  <1> SUFFICES ASSUME NamesInv, DataInv, LogInv, TableInv, [Next]_vars
               PROVE  TableInv'
    OBVIOUS
  <1> USE DEF diskVars, writerVars, processVars, childVars, dbVars
  <1>1. /\ written \in Nat /\ Below(table, written) /\ Below(txn, written)
        /\ Below(table, written + 1) /\ Below(txn, written + 1)
        /\ Below(<<>>, written) /\ faults \in Nat /\ restarts \in Nat
    BY BelowFacts, BelowMore, SMT DEF TableInv, DataInv
  <1>2. ASSUME table' = table, txn' \in {txn, <<>>}, written' = written,
               faults' \in {faults, faults + 1}, restarts' \in {restarts, restarts + 1}
        PROVE  TableInv'
    BY <1>1, <1>2, SMT DEF TableInv
  <1>3. ASSUME NEW end \in BOOLEAN, WriteSql(end), table' = table, txn' = txn,
               faults' \in {faults, faults + 1}, restarts' \in {restarts, restarts + 1}
        PROVE  TableInv'
    BY <1>1, <1>3, SMT DEF TableInv, WriteSql
  <1>4. CASE \E gap \in Gaps : Rotate(gap) /\ UNCHANGED processVars
    BY <1>2, <1>4 DEF Rotate
  <1>5. CASE (OpenLog \/ KeepLog \/ WriteLog) /\ UNCHANGED processVars
    BY <1>2, <1>3, <1>5 DEF OpenLog, KeepLog, WriteLog
  <1>6. CASE (OpenLogFailed \/ WriteLogFailed) /\ UNCHANGED processVars
    BY <1>2, <1>3, <1>6 DEF OpenLogFailed, WriteLogFailed
  <1>7. ASSUME NEW f \in todo, SkipFile(f) PROVE TableInv'
    BY <1>2, <1>7 DEF SkipFile, ArchiveFile
  <1>8. ASSUME NEW f \in todo, OpenFile(f) PROVE TableInv'
    BY <1>2, <1>8 DEF OpenFile
  <1>9. CASE EndOfFile
    BY <1>2, <1>9 DEF EndOfFile, ArchiveFile
  <1>10. CASE ChildStart \/ ListDirectory \/ EndDirectory \/ ReadSql \/ UpdateRefused
              \/ UpdateGone \/ SaveProgress \/ LeaveFile
    BY <1>2, <1>10 DEF ChildStart, ListDirectory, EndDirectory, ReadSql, UpdateRefused,
       UpdateGone, SaveProgress, LeaveFile
  <1>11. CASE LoseConnection \/ ChildExit \/ ChildCrash \/ ParentStart
    BY <1>2, <1>11 DEF LoseConnection, ChildExit, ChildCrash, ChildEnds, ParentStart
  <1>12. CASE UpdateOk \/ UpdateLost \/ CommitLost
    <2>1. pc = "update"
      BY <1>12, UpdateTable
    <2>2. Sql \in Nat /\ Sql <= written
      BY <2>1, SqlFacts
    <2>3. Below(Append(txn, Sql), written) /\ Below(Append(table, Sql), written)
      BY <1>1, <2>2, BelowFacts
    <2>4. Below(table \o Append(txn, Sql), written)
      BY <1>1, <2>2, <2>3, BelowFacts
    <2>5. Below(table', written) /\ Below(txn', written)
      BY <1>1, <1>12, <2>3, <2>4, UpdateTable
    <2>6. written' = written /\ faults' \in {faults, faults + 1} /\ restarts' = restarts
      BY <1>12 DEF UpdateOk, UpdateLost, CommitLost
    <2> QED BY <1>1, <2>5, <2>6, SMT DEF TableInv
  <1>13. CASE ParentDown
    BY <1>2, <1>3, <1>13 DEF ParentDown, ParentEnds
  <1>14. CASE PowerLoss
    BY <1>2, <1>14 DEF PowerLoss, ParentEnds, ChildEnds
  <1>15. CASE UNCHANGED vars
    BY <1>2, <1>15 DEF vars
  <1> QED BY <1>4, <1>5, <1>6, <1>7, <1>8, <1>9, <1>10, <1>11, <1>12, <1>13, <1>14, <1>15
          DEF Next, ChildStep

LEMMA NextSession == SessionInv /\ [Next]_vars => SessionInv'
  <1> SUFFICES ASSUME SessionInv, [Next]_vars
               PROVE  SessionInv'
    OBVIOUS
  <1> USE DEF SessionInv, diskVars, writerVars, processVars, childVars, dbVars
  <1>1. CASE UNCHANGED <<auto, txn, pc>>
    BY <1>1
  <1>2. CASE UNCHANGED <<auto, txn>> /\ pc # "down" /\ pc' # "down"
    BY <1>2
  <1>3. CASE txn' = <<>>
    BY <1>3
  <1>4. CASE ChildStart
    BY <1>4 DEF ChildStart
  <1>5. CASE UpdateOk
    BY <1>5 DEF UpdateOk
  <1>6. ASSUME NEW f \in todo, SkipFile(f) \/ OpenFile(f) PROVE SessionInv'
    BY <1>1, <1>2, <1>6 DEF SkipFile, OpenFile
  <1>7. CASE ListDirectory \/ EndDirectory \/ ReadSql \/ EndOfFile \/ UpdateRefused \/ UpdateGone
             \/ UpdateLost \/ CommitLost \/ SaveProgress
    BY <1>1, <1>2, <1>3, <1>7 DEF ListDirectory, EndDirectory, ReadSql, EndOfFile, UpdateRefused,
       UpdateGone, UpdateLost, CommitLost, SaveProgress
  <1>8. CASE LeaveFile
    BY <1>2, <1>8 DEF LeaveFile, OpenFileFailed
  <1>9. CASE LoseConnection \/ ChildExit \/ ChildCrash \/ PowerLoss
    BY <1>3, <1>9 DEF LoseConnection, ChildExit, ChildCrash, PowerLoss, ChildEnds
  <1>10. CASE ParentDown \/ ParentStart \/ UNCHANGED vars
    BY <1>1, <1>10 DEF ParentDown, ParentStart, vars
  <1> QED BY <1>1, <1>4, <1>5, <1>6, <1>7, <1>8, <1>9, <1>10 DEF Next, ChildStep

-----------------------------------------------------------------------------
(* How often a statement is executed.                                      *)

LEMMA WeightFacts ==
    ASSUME TableInv, NEW s
    PROVE  /\ Count(table, s) \in Nat /\ Count(txn, s) \in Nat
           /\ Count(<<>>, s) = 0
  BY PlacesFinite, CountEmpty DEF TableInv, Below

\* A statement that has not been written has not been executed.
LEMMA CountNew ==
    ASSUME NEW w \in Nat, NEW t, Below(t, w)
    PROVE  Count(t, w + 1) = 0
  <1>1. \A i \in DOMAIN t : t[i] \in Nat /\ t[i] <= w
    BY SMT DEF Below
  <1>2. {i \in DOMAIN t : t[i] = w + 1} = {}
    BY <1>1, SMT
  <1> QED BY <1>2, FS_EmptySet DEF Count

\* Nothing is executed, and what is pending then was pending before.
LEMMA WeightKept ==
    ASSUME TableInv, WeightInv, NEW s \in Nat, table' = table, txn' \in {txn, <<>>},
           Pending(s)' => Pending(s), Credit \in Int, Credit' \in Int, Credit' >= Credit
    PROVE  Weight(s)' <= Credit'
  <1>1. Count(txn', s) \in Nat /\ Count(txn', s) <= Count(txn, s)
    BY WeightFacts, SMT
  <1>2. Count(table, s) \in Nat /\ Count(txn, s) \in Nat
    BY WeightFacts
  <1>3. Weight(s) <= Credit
    BY DEF WeightInv
  <1> QED BY <1>1, <1>2, <1>3, SMT DEF Weight

\* A fault may bring back one more.
LEMMA WeightFault ==
    ASSUME TableInv, WeightInv, NEW s \in Nat, table' = table, txn' \in {txn, <<>>},
           Credit \in Int, Credit' \in Int, Credit' >= Credit + 1
    PROVE  Weight(s)' <= Credit'
  <1>1. Count(txn', s) \in Nat /\ Count(txn', s) <= Count(txn, s)
    BY WeightFacts, SMT
  <1>2. Count(table, s) \in Nat /\ Count(txn, s) \in Nat
    BY WeightFacts
  <1>3. Weight(s) <= Credit
    BY DEF WeightInv
  <1> QED BY <1>1, <1>2, <1>3, SMT DEF Weight

\* A statement is written: it is the only new one.
LEMMA WeightWritten ==
    ASSUME DataInv, LogInv, TableInv, WeightInv, NEW s \in Nat, NEW end \in BOOLEAN, WriteSql(end),
           UNCHANGED processVars, Credit \in Int, Credit' \in Int, Credit' >= Credit, Credit' >= 1
    PROVE  Weight(s)' <= Credit'
  <1> USE DEF processVars, childVars, dbVars
  <1>1. written' = written + 1 /\ written \in Nat
    BY DEF WriteSql, DataInv
  <1>2. Longer
    BY WriteLonger
  <1>3. CASE s = written + 1
    <2>1. Count(table', s) = 0 /\ Count(txn', s) = 0
      BY <1>1, <1>3, CountNew DEF TableInv
    <2> QED BY <2>1, SMT DEF Weight
  <1>4. CASE s # written + 1
    <2>1. Pending(s)' => Pending(s)
      <3> SUFFICES ASSUME NEW f \in Names, NEW i \in DOMAIN data'[f], data'[f][i] = s, ~Passed(f, i)'
                   PROVE  Pending(s)
        BY DEF Pending
      <3>1. i \in DOMAIN data[f] /\ data[f][i] = s
        BY <1>1, <1>2, <1>4 DEF Longer
      <3>2. ~Passed(f, i)
        BY DEF Passed
      <3> QED BY <3>1, <3>2 DEF Pending
    <2> QED BY <2>1, WeightKept
  <1> QED BY <1>3, <1>4

\* update() executes the statement that was read, once.
LEMMA UpdateCount ==
    ASSUME NamesInv, DataInv, LogInv, TableInv, SessionInv, NEW s \in Nat,
           UpdateOk \/ UpdateLost \/ CommitLost
    PROVE  /\ Count(table', s) \in Nat /\ Count(txn', s) \in Nat
           /\ Count(table', s) + Count(txn', s)
              <= Count(table, s) + Count(txn, s) + (IF Sql = s THEN 1 ELSE 0)
  <1> DEFINE one == IF Sql = s THEN 1 ELSE 0
  <1>1. pc = "update"
    BY UpdateTable
  <1>2. Sql \in Nat /\ txn \in Seq(Nat) /\ table \in Seq(Nat)
    BY <1>1, SqlFacts DEF TableInv, Below
  <1>3. Append(txn, Sql) \in Seq(Nat) /\ Append(table, Sql) \in Seq(Nat)
    BY <1>2, SMT
  <1>4. Count(Append(txn, Sql), s) = Count(txn, s) + one
    BY <1>2, CountAppend
  <1>5. Count(Append(table, Sql), s) = Count(table, s) + one
    BY <1>2, CountAppend
  <1>6. Count(table \o Append(txn, Sql), s) = Count(table, s) + Count(Append(txn, Sql), s)
    BY <1>2, <1>3, CountConcat
  <1>7. one \in Nat
    OBVIOUS
  <1>8. Count(table, s) \in Nat /\ Count(txn, s) \in Nat /\ Count(<<>>, s) = 0
    BY WeightFacts
  <1> HIDE DEF one
  <1>9. CASE table' = table /\ txn' = <<>>
    BY <1>7, <1>8, <1>9, SMT DEF one
  <1>10. CASE table' = table /\ txn' = Append(txn, Sql)
    BY <1>4, <1>7, <1>8, <1>10, SMT DEF one
  <1>11. CASE table' = table \o Append(txn, Sql) /\ txn' = <<>>
    BY <1>4, <1>6, <1>7, <1>8, <1>11, SMT DEF one
  <1>12. CASE table' = Append(table, Sql) /\ txn' = <<>>
    BY <1>5, <1>7, <1>8, <1>12, SMT DEF one
  <1>13. CASE table' = table \o Append(txn, Sql) /\ txn' = txn /\ auto
    <2>1. txn = <<>>
      BY <1>13 DEF SessionInv
    <2> QED BY <2>1, <1>4, <1>6, <1>7, <1>8, <1>13, SMT DEF one
  <1> QED BY <1>9, <1>10, <1>11, <1>12, <1>13, UpdateTable

LEMMA WeightUpdated ==
    ASSUME NamesInv, DataInv, LogInv, TableInv, SessionInv, WeightInv, NEW s \in Nat, UpdateOk,
           Credit \in Int, Credit' = Credit
    PROVE  Weight(s)' <= Credit'
  <1>1. pc = "update" /\ pc' = "progress" /\ UNCHANGED <<data, file, offset>>
    BY DEF UpdateOk, diskVars
  <1>2. file \in Names /\ offset \in DOMAIN data[file] /\ offset \in Nat
    BY <1>1, SqlFacts DEF NamesInv
  <1>3. \A f \in Names : \A i \in DOMAIN data[f] : i \in Nat
    BY SMT DEF DataInv
  <1>4. Count(table, s) \in Nat /\ Count(txn, s) \in Nat /\ Weight(s) <= Credit
    BY WeightFacts DEF WeightInv
  <1>5. CASE s = Sql
    <2>1. Pending(s)
      <3>1. ~Passed(file, offset)
        BY <1>1, <1>2, SMT DEF Passed
      <3> QED BY <1>2, <1>5, <3>1 DEF Pending, Sql
    <2>2. ~Pending(s)'
      <3> SUFFICES ASSUME NEW f \in Names, NEW i \in DOMAIN data[f], data[f][i] = s
                   PROVE  Passed(f, i)'
        BY <1>1 DEF Pending
      <3>1. f = file /\ i = offset
        BY <1>2, <1>5, SMT DEF DataInv, Sql
      <3> QED BY <1>1, <1>2, <3>1, SMT DEF Passed
    <2>3. Weight(s) = Count(table, s) + Count(txn, s) + 1
      BY <2>1 DEF Weight
    <2>4. Weight(s)' = Count(table', s) + Count(txn', s) + 0
      BY <2>2 DEF Weight
    <2>5. /\ Count(table', s) \in Nat /\ Count(txn', s) \in Nat
          /\ Count(table', s) + Count(txn', s) <= Count(table, s) + Count(txn, s) + 1
      BY <1>5, UpdateCount
    <2> QED BY <1>4, <2>3, <2>4, <2>5, SMT
  <1>6. CASE s # Sql
    <2>1. Pending(s)' => Pending(s)
      <3> SUFFICES ASSUME NEW f \in Names, NEW i \in DOMAIN data[f], data[f][i] = s, ~Passed(f, i)'
                   PROVE  ~Passed(f, i)
        BY <1>1 DEF Pending
      <3> QED BY <1>1, <1>2, <1>3, SMT DEF Passed
    <2>2. /\ Count(table', s) \in Nat /\ Count(txn', s) \in Nat
          /\ Count(table', s) + Count(txn', s) <= Count(table, s) + Count(txn, s) + 0
      BY <1>6, UpdateCount
    <2> QED BY <1>4, <2>1, <2>2, SMT DEF Weight
  <1> QED BY <1>5, <1>6

LEMMA WeightRetried ==
    ASSUME NamesInv, DataInv, LogInv, TableInv, SessionInv, WeightInv, NEW s \in Nat,
           UpdateLost \/ CommitLost, Credit \in Int, Credit' = Credit + 1
    PROVE  Weight(s)' <= Credit'
  <1>1. UNCHANGED <<data, pc, file, offset>>
    BY DEF UpdateLost, CommitLost, diskVars, childVars
  <1>2. Pending(s)' <=> Pending(s)
    BY <1>1 DEF Pending, Passed
  <1>3. Count(table, s) \in Nat /\ Count(txn, s) \in Nat /\ Weight(s) <= Credit
    BY WeightFacts DEF WeightInv
  <1>4. /\ Count(table', s) \in Nat /\ Count(txn', s) \in Nat
        /\ Count(table', s) + Count(txn', s) <= Count(table, s) + Count(txn, s) + 1
    <2>1. CASE Sql = s
      BY <2>1, UpdateCount
    <2>2. CASE Sql # s
      <3>1. /\ Count(table', s) \in Nat /\ Count(txn', s) \in Nat
            /\ Count(table', s) + Count(txn', s) <= Count(table, s) + Count(txn, s) + 0
        BY <2>2, UpdateCount
      <3> QED BY <1>3, <3>1, SMT
    <2> QED BY <2>1, <2>2
  <1> QED BY <1>2, <1>3, <1>4, SMT DEF Weight

LEMMA InitWeight == Init => WeightInv
  <1> SUFFICES ASSUME Init, NEW s \in Nat
               PROVE  Weight(s) <= Credit
    BY DEF WeightInv
  <1>1. data = [n \in Names |-> <<>>] /\ table = <<>> /\ txn = <<>>
    BY DEF Init, LoggerInit, ProcessInit
  <1>2. ~Pending(s)
    BY <1>1, SMT DEF Pending
  <1>3. Count(table, s) = 0 /\ Count(txn, s) = 0
    BY <1>1, CountEmpty
  <1>4. Credit = 1
    BY SMT DEF Init, LoggerInit, Credit, Noticed
  <1> QED BY <1>2, <1>3, <1>4, SMT DEF Weight

LEMMA NextWeight ==
    NamesInv /\ DataInv /\ LogInv /\ TableInv /\ SessionInv /\ WeightInv /\ [Next]_vars
    => WeightInv'
  <1> SUFFICES ASSUME NamesInv, DataInv, LogInv, TableInv, SessionInv, WeightInv, [Next]_vars,
                      NEW s \in Nat
               PROVE  Weight(s)' <= Credit'
    BY DEF WeightInv
  <1> USE DEF diskVars, writerVars, processVars, childVars, dbVars
  <1> DEFINE n == Noticed
             n1 == Noticed'
  <1>0. /\ n \in 0..1 /\ n1 \in 0..1
        /\ Credit = 1 + faults + restarts - n
        /\ Credit' = 1 + faults' + restarts' - n1
    BY SMT DEF Noticed, Credit
  <1> HIDE DEF n, n1
  <1>1. Credit \in Int /\ faults \in Nat /\ restarts \in Nat
    BY <1>0, SMT DEF TableInv
  <1>2. \A f \in Names : \A i \in DOMAIN data[f] : i \in Nat
    BY SMT DEF DataInv
  \* The log and what the child has passed in it stay as they are.
  <1>3. ASSUME UNCHANGED <<data, pc, file, offset, table, txn, up, restarts>>,
               faults' \in {faults, faults + 1}
        PROVE  Weight(s)' <= Credit'
    <2>1. Pending(s)' => Pending(s)
      BY <1>3 DEF Pending, Passed
    <2>2. n1 = n
      BY <1>3 DEF Noticed, n, n1
    <2>3. restarts' = restarts /\ (faults' = faults \/ faults' = faults + 1)
      BY <1>3
    <2>4. Credit' \in Int /\ Credit' >= Credit
      BY <1>0, <1>1, <2>2, <2>3, SMT
    <2> QED BY <1>1, <1>3, <2>1, <2>4, WeightKept
  <1>4. ASSUME NEW end \in BOOLEAN, WriteSql(end), UNCHANGED processVars,
               \/ UNCHANGED <<up, restarts>> /\ faults' \in {faults, faults + 1}
               \/ restarts' = restarts + 1 /\ ~up' /\ faults' = faults
        PROVE  Weight(s)' <= Credit'
    <2>1. up
      BY <1>4 DEF WriteSql
    <2>2. n = 0 /\ (up' => n1 = 0)
      BY <2>1 DEF Noticed, n, n1
    <2>3. Credit' \in Int /\ Credit' >= Credit /\ Credit' >= 1
      <3>1. CASE up' /\ UNCHANGED restarts /\ faults' \in {faults, faults + 1}
        <4>1. n = 0 /\ n1 = 0 /\ restarts' = restarts /\ (faults' = faults \/ faults' = faults + 1)
          BY <2>2, <3>1
        <4> QED BY <1>0, <1>1, <4>1, SMT
      <3>2. CASE restarts' = restarts + 1 /\ faults' = faults
        BY <1>0, <1>1, <2>2, <3>2, SMT
      <3> QED BY <1>4, <2>1, <3>1, <3>2
    <2> QED BY <1>1, <1>4, <2>3, WeightWritten
  \* A fault for which the child may come to a statement again.
  <1>5. ASSUME UNCHANGED <<table, restarts, up>>, txn' \in {txn, <<>>}, faults' = faults + 1,
               pc # "down"
        PROVE  Weight(s)' <= Credit'
    <2>1. n1 <= n
      BY <1>5, SMT DEF Noticed, n, n1
    <2>2. Credit' \in Int /\ Credit' >= Credit + 1
      BY <1>0, <1>1, <1>5, <2>1, SMT
    <2> QED BY <1>1, <1>5, <2>2, WeightFault
  \* A step of the child that passes more of the log, if anything.
  <1>6. ASSUME UNCHANGED <<data, table, txn, up, faults, restarts>>, pc # "down" \/ up, pc' # "down",
               \A f \in Names : \A i \in DOMAIN data[f] : Passed(f, i) => Passed(f, i)'
        PROVE  Weight(s)' <= Credit'
    <2>1. Pending(s)' => Pending(s)
      BY <1>6 DEF Pending
    <2>2. Credit' = Credit
      BY <1>6 DEF Credit, Noticed
    <2> QED BY <1>1, <1>6, <2>1, <2>2, WeightKept, SMT
  \* A file is archived: what the child has not passed was elsewhere.
  <1>7. ASSUME NEW h \in Names, Archive(h), UNCHANGED <<table, txn, up, faults, restarts>>,
               pc # "down", pc' = "file", \A f \in Names \ {h} : \A i \in DOMAIN data[f] : ~Passed(f, i)
        PROVE  Weight(s)' <= Credit'
    <2>1. Shorter /\ data'[h] = <<>>
      BY <1>7, ArchiveShorter
    <2>2. Pending(s)' => Pending(s)
      <3> SUFFICES ASSUME NEW f \in Names, NEW i \in DOMAIN data'[f], data'[f][i] = s
                   PROVE  Pending(s)
        BY DEF Pending
      <3>1. f # h
        BY <2>1, SMT
      <3>2. i \in DOMAIN data[f] /\ data[f][i] = s
        BY <2>1 DEF Shorter
      <3> QED BY <1>7, <3>1, <3>2 DEF Pending
    <2>3. Credit' = Credit
      BY <1>7 DEF Credit, Noticed
    <2> QED BY <1>1, <1>7, <2>2, <2>3, WeightKept, SMT
  <1>8. CASE \E gap \in Gaps : Rotate(gap) /\ UNCHANGED processVars
    BY <1>3, <1>8 DEF Rotate
  <1>9. CASE (OpenLog \/ KeepLog \/ OpenLogFailed) /\ UNCHANGED processVars
    BY <1>3, <1>9 DEF OpenLog, KeepLog, OpenLogFailed
  <1>10. CASE WriteLog /\ UNCHANGED processVars
    BY <1>4, <1>10 DEF WriteLog
  <1>11. CASE WriteLogFailed /\ UNCHANGED processVars
    BY <1>3, <1>4, <1>11 DEF WriteLogFailed
  <1>12. CASE ChildStart \/ ListDirectory \/ EndDirectory
    BY <1>6, <1>12 DEF ChildStart, ListDirectory, EndDirectory, Passed
  <1>13. ASSUME NEW f \in todo, SkipFile(f) PROVE Weight(s)' <= Credit'
    <2>1. f \in Names /\ pc = "file" /\ pc' = "file" /\ UNCHANGED <<table, txn, up, restarts>>
      BY <1>13 DEF SkipFile, NamesInv
    <2>2. CASE Archive(f) /\ UNCHANGED faults
      BY <2>1, <2>2, <1>7 DEF Passed
    <2>3. CASE faults' = faults + 1
      BY <2>1, <2>3, <1>5
    <2> QED BY <1>13, <2>2, <2>3 DEF SkipFile, ArchiveFile
  <1>14. ASSUME NEW f \in todo, OpenFile(f) PROVE Weight(s)' <= Credit'
    BY <1>6, <1>14 DEF OpenFile, Passed
  <1>15. CASE ReadSql
    <2>1. offset \in Nat
      BY DEF NamesInv
    <2>2. \A f \in Names : \A i \in DOMAIN data[f] : Passed(f, i) => Passed(f, i)'
      BY <1>2, <1>15, <2>1, SMT DEF ReadSql, Passed
    <2> QED BY <1>6, <1>15, <2>2 DEF ReadSql
  <1>16. CASE EndOfFile
    <2>1. file \in Names /\ pc = "read" /\ pc' = "file" /\ UNCHANGED <<table, txn, up, restarts>>
      BY <1>16 DEF EndOfFile, NamesInv, Handling
    <2>2. CASE Archive(file) /\ UNCHANGED faults
      <3>1. \A f \in Names \ {file} : \A i \in DOMAIN data[f] : ~Passed(f, i)
        BY DEF Passed
      <3> QED BY <2>1, <2>2, <3>1, <1>7
    <2>3. CASE faults' = faults + 1
      BY <2>1, <2>3, <1>5
    <2> QED BY <1>16, <2>2, <2>3 DEF EndOfFile, ArchiveFile
  <1>17. CASE UpdateOk
    <2>1. Credit' = Credit
      BY <1>17 DEF UpdateOk, Credit, Noticed
    <2> QED BY <1>1, <1>17, <2>1, WeightUpdated
  <1>18. CASE UpdateRefused
    <2>1. offset \in Nat
      BY DEF NamesInv
    <2>2. \A f \in Names : \A i \in DOMAIN data[f] : Passed(f, i) => Passed(f, i)'
      BY <1>2, <1>18, <2>1, SMT DEF UpdateRefused, Passed
    <2> QED BY <1>6, <1>18, <2>2 DEF UpdateRefused
  <1>19. CASE UpdateGone
    BY <1>3, <1>19 DEF UpdateGone
  <1>20. CASE SaveProgress
    BY <1>6, <1>20 DEF SaveProgress, Passed
  <1>21. CASE UpdateLost \/ CommitLost
    <2>1. n1 = n /\ faults' = faults + 1 /\ restarts' = restarts
      BY <1>21, SMT DEF UpdateLost, CommitLost, Noticed, n, n1
    <2>2. Credit' = Credit + 1
      BY <1>0, <1>1, <2>1, SMT
    <2> QED BY <1>1, <1>21, <2>2, WeightRetried
  <1>22. CASE LeaveFile
    BY <1>5, <1>22 DEF LeaveFile, OpenFileFailed
  <1>23. CASE LoseConnection \/ ChildCrash
    BY <1>5, <1>23 DEF LoseConnection, ChildCrash, ChildEnds
  <1>24. CASE ChildExit
    <2>1. n = 1 /\ n1 = 0 /\ UNCHANGED <<faults, restarts>>
      BY <1>24 DEF ChildExit, ChildEnds, Noticed, n, n1
    <2>2. Credit' \in Int /\ Credit' >= Credit + 1
      BY <1>0, <1>1, <2>1, SMT
    <2> QED BY <1>1, <1>24, <2>2, WeightFault DEF ChildExit, ChildEnds
  <1>25. CASE ParentDown
    <2>1. CASE WriteSql(FALSE)
      BY <1>25, <2>1, <1>4 DEF ParentDown, ParentEnds
    <2>2. CASE UNCHANGED diskVars
      <3>1. Pending(s)' => Pending(s)
        BY <1>25, <2>2 DEF ParentDown, Pending, Passed
      <3>2. n = 0 /\ faults' = faults /\ restarts' = restarts + 1
        BY <1>25 DEF ParentDown, ParentEnds, Noticed, n, n1
      <3>3. Credit' \in Int /\ Credit' >= Credit
        BY <1>0, <1>1, <3>2, SMT
      <3> QED BY <1>1, <1>25, <3>1, <3>3, WeightKept DEF ParentDown
    <2> QED BY <1>25, <2>1, <2>2 DEF ParentDown
  <1>26. CASE ParentStart
    <2>1. Pending(s)' => Pending(s)
      BY <1>26 DEF ParentStart, Pending, Passed
    <2>2. Credit' = Credit
      BY <1>26 DEF ParentStart, Credit, Noticed
    <2> QED BY <1>1, <1>26, <2>1, <2>2, WeightKept, SMT DEF ParentStart
  <1>27. CASE PowerLoss
    <2>1. faults' = faults + 1 /\ restarts' = restarts + 1
      BY <1>27 DEF PowerLoss, ParentEnds
    <2>2. Credit' \in Int /\ Credit' >= Credit + 1
      BY <1>0, <1>1, <2>1, SMT
    <2> QED BY <1>1, <1>27, <2>2, WeightFault DEF PowerLoss, ChildEnds
  <1>28. CASE UNCHANGED vars
    BY <1>3, <1>28 DEF vars
  <1> QED BY <1>8, <1>9, <1>10, <1>11, <1>12, <1>13, <1>14, <1>15, <1>16, <1>17, <1>18, <1>19,
             <1>20, <1>21, <1>22, <1>23, <1>24, <1>25, <1>26, <1>27, <1>28 DEF Next, ChildStep

\* RepeatBounded, for any number of statements, files, faults and restarts and any
\* batch: a statement is executed once, and once more at most for every fault and
\* every restart of db_proxy.
THEOREM RepeatBoundedHolds == Spec => []RepeatBounded
  <1> DEFINE Inv == NamesInv /\ DataInv /\ LogInv /\ TableInv /\ SessionInv /\ WeightInv
  <1>1. Init => Inv
    <2>1. Init => SessionInv
      BY DEF Init, ProcessInit, SessionInv
    <2> QED BY <2>1, InitNames, InitLog, InitTable, InitWeight
  <1>2. Inv /\ [Next]_vars => Inv'
    BY NextNames, NextData, NextLog, NextTable, NextSession, NextWeight
  <1>3. Inv => RepeatBounded
    <2> SUFFICES ASSUME TableInv, WeightInv, NEW s \in 1..MaxSql
                 PROVE  Count(table, s) <= 1 + faults + restarts
      BY DEF RepeatBounded, Count
    <2>1. s \in Nat /\ Count(table, s) \in Nat /\ Count(txn, s) \in Nat
      BY WeightFacts, SMT
    <2>2. Weight(s) <= Credit
      BY <2>1 DEF WeightInv
    <2>3. faults \in Nat /\ restarts \in Nat
      BY DEF TableInv
    <2> QED BY <2>1, <2>2, <2>3, SMT DEF Weight, Credit, Noticed
  <1> QED BY <1>1, <1>2, <1>3, PTL DEF Spec

-----------------------------------------------------------------------------
(* The order of execution: where statements stand in the log.              *)

\* What is in the log directory, and the file of it that is written to.
DirInv ==
    /\ lastName \in Nat /\ path \in 0..lastName
    /\ \A g \in Names \ dir : data[g] = <<>>
    /\ \A g \in dir : g <= lastName /\ (path # None => g <= path)
    /\ fd # None => fd = path /\ (~gone => fd \in dir)
    /\ wpc = "open" => fd = None /\ path # None

\* The files of the listing, and the one that is handled, are there and in order.
TodoInv ==
    /\ todo \subseteq dir
    /\ pc \in {"down", "dir"} => todo = {}
    /\ Handling => file \in dir /\ \A g \in todo : file < g

\* Statements stand in the log in the order of write_log().
OrderInv ==
    \A f, g \in Names : \A i \in DOMAIN data[f], j \in DOMAIN data[g] :
        f < g \/ (f = g /\ i < j) => data[f][i] < data[g][j]

LEMMA LeastNumber ==
    ASSUME NEW T, T \subseteq Nat, T # {}
    PROVE  \E x \in T : \A y \in T : x <= y
  <1> DEFINE R == OpToRel(<, Nat)
  <1>1. IsWellFoundedOn(R, Nat)
    BY NatLessThanWellFounded
  <1>2. \A x, y \in Nat : x < y => <<x, y>> \in R
    BY SMT DEF OpToRel
  <1> HIDE DEF R
  <1>3. PICK x \in T : \A y \in T : ~ (<<y, x>> \in R)
    BY <1>1, WFMin
  <1>4. \A y \in T : ~ (y < x)
    BY <1>2, <1>3
  <1>5. \A y \in T : x <= y
    BY <1>4, SMT
  <1> QED BY <1>5

LEMMA LargestIs ==
    ASSUME NEW S, NEW n \in Nat, S \subseteq 0..n, S # {}
    PROVE  Largest(S) \in S /\ \A y \in S : y <= Largest(S)
  <1> DEFINE T == {n - y : y \in S}
  <1>1. \A y \in S : y \in Nat /\ n - y \in Nat
    BY SMT
  <1>2. T \subseteq Nat /\ T # {}
    BY <1>1
  <1>3. PICK x \in T : \A y \in T : x <= y
    BY <1>2, LeastNumber
  <1>4. PICK z \in S : x = n - z
    BY <1>3
  <1>5. \A y \in S : n - z <= n - y
    BY <1>3, <1>4
  <1>6. \A y \in S : y <= z
    <2>1. \A a, b, c \in Nat : c - a <= c - b => b <= a
      BY SMT
    <2> QED BY <1>1, <1>5, <2>1
  <1> QED BY <1>6 DEF Largest

LEMMA RotateFacts ==
    ASSUME NamesInv, DirInv, NEW gap \in Gaps, Rotate(gap)
    PROVE  /\ path' \in Names /\ lastName' \in Nat /\ lastName <= lastName' /\ path' <= lastName'
           /\ \A g \in dir : g <= path'
           /\ path = None /\ dir # {} => path' \in dir
           /\ path # None \/ dir = {} => lastName < path' /\ lastName' = path'
  <1>1. path' \in Names /\ path' = NextPath(gap) /\ lastName' = Largest({lastName, path'})
    BY DEF Rotate
  <1>2. /\ lastName \in Nat /\ path' \in Nat /\ MaxName \in Nat /\ gap \in Nat /\ gap > 0
        /\ dir \subseteq 0..MaxName /\ \A g \in dir : g \in Nat /\ g <= lastName
    BY <1>1, LoggerAssumption, SMT DEF DirInv, NamesInv, Names
  <1>3. {lastName, path'} \subseteq 0..(lastName + path') /\ lastName + path' \in Nat
    <2>1. \A a, b \in Nat : a \in 0..(a + b) /\ b \in 0..(a + b) /\ a + b \in Nat
      BY SMT
    <2> QED BY <1>2, <2>1
  <1>4. /\ lastName' \in {lastName, path'}
        /\ lastName <= lastName' /\ path' <= lastName'
    <2>1. lastName \in {lastName, path'} /\ path' \in {lastName, path'}
      OBVIOUS
    <2> DEFINE S == {lastName, path'}
    <2> HIDE DEF S
    <2>2. S \subseteq 0..(lastName + path') /\ S # {} /\ lastName \in S /\ path' \in S
      BY <1>3, <2>1 DEF S
    <2>3. Largest(S) \in S /\ lastName <= Largest(S) /\ path' <= Largest(S)
      BY <1>3, <2>2, LargestIs
    <2> QED BY <1>1, <2>3 DEF S
  <1>5. CASE path = None /\ dir # {}
    <2>1. path' \in dir /\ \A g \in dir : g <= path'
      BY <1>1, <1>2, <1>5, LargestIs DEF NextPath
    <2> QED BY <1>1, <1>2, <1>4, <1>5, <2>1
  <1>6. CASE path # None \/ dir = {}
    <2>1. path' = lastName + gap
      BY <1>1, <1>6 DEF NextPath
    <2>2. lastName < path' /\ lastName' = path' /\ \A g \in dir : g <= path'
      BY <1>2, <1>4, <2>1, SMT
    <2> QED BY <1>1, <1>2, <1>4, <1>6, <2>2
  <1> QED BY <1>5, <1>6

LEMMA InitDir == Init => DirInv /\ TodoInv /\ OrderInv
  BY SMT DEF Init, LoggerInit, ProcessInit, DirInv, TodoInv, OrderInv, Handling, None

\* Where a statement is written: at the end of the last file.
LEMMA WriteFacts ==
    ASSUME DataInv, LogInv, DirInv, NEW end \in BOOLEAN, WriteSql(end)
    PROVE  /\ written' = written + 1 /\ UNCHANGED <<dir, lastName>>
           /\ fd \in Names /\ fd = path /\ \A g \in dir : g <= fd
           /\ gone => data' = data
           /\ \A f \in Names : f # fd => data'[f] = data[f]
           /\ ~gone => /\ fd \in dir
                       /\ Len(data'[fd]) = Len(data[fd]) + 1
                       /\ DOMAIN data'[fd] = DOMAIN data[fd] \cup {Len(data[fd]) + 1}
                       /\ data'[fd][Len(data[fd]) + 1] = written'
                       /\ \A i \in DOMAIN data[fd] : data'[fd][i] = data[fd][i]
  <1>1. fd \in Names /\ fd # None
    BY SMT DEF WriteSql, LogInv, Names, None
  <1>2. fd = path /\ \A g \in dir : g <= fd
    BY <1>1 DEF DirInv
  <1>3. written' = written + 1 /\ written' \in Nat /\ UNCHANGED <<dir, lastName>>
    BY SMT DEF WriteSql, DataInv
  <1>4. CASE gone
    BY <1>1, <1>2, <1>3, <1>4 DEF WriteSql
  <1>5. CASE ~gone
    <2>1. data' = [data EXCEPT ![fd] = Append(@, written')]
      BY <1>5 DEF WriteSql
    <2>2. data'[fd] = Append(data[fd], written') /\ \A f \in Names : f # fd => data'[f] = data[f]
      BY <1>1, <2>1 DEF DataInv
    <2>3. data[fd] \in Seq(Nat)
      BY <1>1 DEF DataInv
    <2>4. /\ Len(Append(data[fd], written')) = Len(data[fd]) + 1
          /\ DOMAIN Append(data[fd], written') = DOMAIN data[fd] \cup {Len(data[fd]) + 1}
          /\ Append(data[fd], written')[Len(data[fd]) + 1] = written'
          /\ \A i \in DOMAIN data[fd] : Append(data[fd], written')[i] = data[fd][i]
      BY <2>3, <1>3, SMT
    <2>5. fd \in dir
      BY <1>1, <1>5 DEF DirInv
    <2> QED BY <1>1, <1>2, <1>3, <1>5, <2>2, <2>4, <2>5
  <1> QED BY <1>4, <1>5

LEMMA NextDir == NamesInv /\ DataInv /\ LogInv /\ DirInv /\ TodoInv /\ [Next]_vars => DirInv'
  <1> SUFFICES ASSUME NamesInv, DataInv, LogInv, DirInv, TodoInv, [Next]_vars
               PROVE  DirInv'
    OBVIOUS
  <1> USE DEF diskVars, writerVars, processVars, childVars
  <1>1. ASSUME UNCHANGED <<dir, data, lastName, path, fd, gone>>, wpc' = "open" => wpc = "open"
        PROVE  DirInv'
    BY <1>1 DEF DirInv
  <1>2. ASSUME NEW end \in BOOLEAN, WriteSql(end), wpc' = "idle",
               UNCHANGED <<path, fd, gone>> \/ (path' = None /\ fd' = None)
        PROVE  DirInv'
    <2>1. /\ dir' = dir /\ lastName' = lastName
          /\ gone => data' = data
          /\ ~gone => fd \in dir
          /\ \A f \in Names : f # fd => data'[f] = data[f]
      BY <1>2, WriteFacts
    <2>2. \A g \in Names \ dir' : data'[g] = <<>>
      BY <2>1 DEF DirInv
    <2>3. lastName \in Nat /\ 0 \in 0..lastName
      BY SMT DEF DirInv
    <2>4. CASE UNCHANGED <<path, fd, gone>>
      BY <1>2, <2>1, <2>2, <2>4 DEF DirInv
    <2>5. CASE path' = None /\ fd' = None
      BY <1>2, <2>1, <2>2, <2>3, <2>5 DEF DirInv, None
    <2> QED BY <1>2, <2>4, <2>5
  <1>3. ASSUME NEW gap \in Gaps, Rotate(gap) PROVE DirInv'
    <2>1. \A g \in dir : g \in Nat
      BY SMT DEF NamesInv, Names
    <2>2. path' \in 0..lastName' /\ path' # None /\ lastName' \in Nat
      BY <1>3, RotateFacts, SMT DEF Names, None
    <2>3. \A g \in dir : g <= lastName'
      BY <1>3, <2>1, RotateFacts, SMT DEF DirInv
    <2>4. UNCHANGED <<dir, data>> /\ fd' = None
      BY <1>3 DEF Rotate
    <2>5. \A g \in dir : g <= path'
      BY <1>3, RotateFacts
    <2> QED BY <2>2, <2>3, <2>4, <2>5 DEF DirInv
  <1>4. CASE OpenLog
    <2>1. path <= lastName /\ path <= path /\ path \in Names
      BY <1>4, SMT DEF OpenLog, DirInv, NamesInv, Names
    <2> QED BY <1>4, <2>1 DEF OpenLog, DirInv
  <1>5. CASE OpenLogFailed \/ KeepLog
    BY <1>1, <1>5 DEF OpenLogFailed, KeepLog
  <1>6. CASE WriteLog \/ WriteLogFailed
    BY <1>1, <1>2, <1>6 DEF WriteLog, WriteLogFailed
  <1>7. ASSUME NEW n \in dir, ArchiveFile(n), UNCHANGED <<wpc, path, fd>> PROVE DirInv'
    <2>1. CASE Archive(n)
      <3>1. n \in Names
        BY DEF NamesInv
      <3>2. UNCHANGED lastName /\ dir' = dir \ {n} /\ gone' = (gone \/ fd = n)
        BY <2>1 DEF Archive
      <3>3. \A g \in Names \ dir' : data'[g] = <<>>
        BY <2>1, <3>1 DEF Archive, DirInv, DataInv
      <3> QED BY <1>7, <3>1, <3>2, <3>3 DEF DirInv
    <2> QED BY <1>1, <1>7, <2>1 DEF ArchiveFile
  <1>8. ASSUME NEW f \in todo, SkipFile(f) PROVE DirInv'
    BY <1>7, <1>8 DEF SkipFile, TodoInv
  <1>9. CASE EndOfFile
    BY <1>7, <1>9 DEF EndOfFile, TodoInv, Handling
  <1>10. ASSUME NEW f \in todo, OpenFile(f) PROVE DirInv'
    BY <1>1, <1>10 DEF OpenFile
  <1>11. CASE ChildStart \/ ListDirectory \/ EndDirectory \/ ReadSql \/ UpdateOk \/ UpdateRefused
              \/ UpdateGone \/ UpdateLost \/ CommitLost \/ SaveProgress \/ LeaveFile
              \/ LoseConnection \/ ChildExit \/ ChildCrash \/ ParentStart
    BY <1>1, <1>11 DEF ChildStart, ListDirectory, EndDirectory, ReadSql, UpdateOk,
       UpdateRefused, UpdateGone, UpdateLost, CommitLost, SaveProgress, LeaveFile,
       LoseConnection, ChildExit, ChildCrash, ParentStart
  <1>12. ASSUME UNCHANGED <<dir, lastName>>, ParentEnds, \A g \in Names \ dir : data'[g] = <<>>
         PROVE  DirInv'
    <2>1. 0 \in 0..lastName
      BY SMT DEF DirInv
    <2> QED BY <1>12, <2>1 DEF ParentEnds, DirInv, None
  <1>13. CASE ParentDown
    <2>1. CASE WriteSql(FALSE)
      BY <1>13, <1>2, <2>1 DEF ParentDown, ParentEnds
    <2>2. CASE UNCHANGED diskVars
      BY <1>12, <1>13, <2>2 DEF ParentDown, DirInv
    <2> QED BY <1>13, <2>1, <2>2 DEF ParentDown
  <1>14. CASE PowerLoss
    <2>1. \A g \in Names \ dir : data'[g] = <<>>
      BY <1>14, PowerShorter DEF DirInv
    <2> QED BY <1>12, <1>14, <2>1 DEF PowerLoss
  <1>15. CASE UNCHANGED vars
    BY <1>1, <1>15 DEF vars
  <1> QED BY <1>3, <1>4, <1>5, <1>6, <1>8, <1>9, <1>10, <1>11, <1>13, <1>14, <1>15
          DEF Next, ChildStep

LEMMA NextTodo == NamesInv /\ TodoInv /\ [Next]_vars => TodoInv'
  <1> SUFFICES ASSUME NamesInv, TodoInv, [Next]_vars
               PROVE  TodoInv'
    OBVIOUS
  <1> USE DEF TodoInv, Handling, diskVars, writerVars, processVars, childVars
  <1>1. CASE dir \subseteq dir' /\ UNCHANGED <<todo, pc, file>>
    BY <1>1
  <1>2. CASE todo' = {} /\ pc' \in {"down", "dir"}
    BY <1>2
  <1>3. CASE UNCHANGED <<dir, todo, file>> /\ Handling /\ Handling'
    BY <1>3
  <1>4. CASE ListDirectory
    BY <1>4 DEF ListDirectory
  <1>5. ASSUME NEW f \in todo, SkipFile(f) PROVE TodoInv'
    BY <1>5 DEF SkipFile, ArchiveFile, Archive
  <1>6. ASSUME NEW f \in todo, OpenFile(f) PROVE TodoInv'
    <2>1. \A g \in todo \ {f} : f < g
      BY <1>6, SMT DEF OpenFile, First, NamesInv, Names
    <2> QED BY <1>6, <2>1 DEF OpenFile
  <1>7. CASE EndOfFile
    <2>1. file \notin todo
      BY <1>7, SMT DEF EndOfFile, NamesInv, Names
    <2> QED BY <1>7, <2>1 DEF EndOfFile, ArchiveFile, Archive
  <1>8. CASE LeaveFile
    BY <1>8 DEF LeaveFile, OpenFileFailed
  <1>9. CASE \E gap \in Gaps : Rotate(gap) /\ UNCHANGED processVars
    BY <1>1, <1>9 DEF Rotate
  <1>10. CASE (OpenLog \/ KeepLog \/ WriteLog) /\ UNCHANGED processVars
    BY <1>1, <1>10 DEF OpenLog, KeepLog, WriteLog, WriteSql
  <1>11. CASE (OpenLogFailed \/ WriteLogFailed) /\ UNCHANGED processVars
    BY <1>1, <1>11 DEF OpenLogFailed, WriteLogFailed, WriteSql
  <1>12. CASE ChildStart \/ EndDirectory
    BY <1>2, <1>12 DEF ChildStart, EndDirectory
  <1>13. CASE ReadSql \/ UpdateOk \/ UpdateRefused \/ UpdateGone \/ UpdateLost \/ CommitLost
              \/ SaveProgress \/ LoseConnection
    BY <1>1, <1>3, <1>13 DEF ReadSql, UpdateOk, UpdateRefused, UpdateGone, UpdateLost, CommitLost,
       SaveProgress, LoseConnection
  <1>14. CASE ChildExit \/ ChildCrash \/ PowerLoss
    BY <1>2, <1>14 DEF ChildExit, ChildCrash, PowerLoss, ChildEnds
  <1>15. CASE ParentDown \/ ParentStart \/ UNCHANGED vars
    BY <1>1, <1>15 DEF ParentDown, ParentStart, WriteSql, vars
  <1> QED BY <1>4, <1>5, <1>6, <1>7, <1>8, <1>9, <1>10, <1>11, <1>12, <1>13, <1>14, <1>15
          DEF Next, ChildStep

LEMMA WriteOrder ==
    ASSUME DataInv, LogInv, DirInv, OrderInv, NEW end \in BOOLEAN, WriteSql(end)
    PROVE  OrderInv'
  <1>1. /\ written' = written + 1 /\ fd \in Names /\ \A g \in dir : g <= fd
        /\ gone => data' = data
        /\ \A f \in Names : f # fd => data'[f] = data[f]
        /\ ~gone => /\ fd \in dir
                    /\ DOMAIN data'[fd] = DOMAIN data[fd] \cup {Len(data[fd]) + 1}
                    /\ data'[fd][Len(data[fd]) + 1] = written'
                    /\ \A i \in DOMAIN data[fd] : data'[fd][i] = data[fd][i]
    BY WriteFacts
  <1>2. CASE gone
    BY <1>1, <1>2 DEF OrderInv
  <1>3. CASE ~gone
    <2>1. \A f \in Names : \A i \in DOMAIN data'[f] :
             \/ i \in DOMAIN data[f] /\ data'[f][i] = data[f][i]
             \/ f = fd /\ i = Len(data[fd]) + 1 /\ data'[f][i] = written'
      BY <1>1, <1>3
    <2>2. \A f \in Names : \A i \in DOMAIN data[f] :
             /\ i \in Nat /\ data[f][i] \in Nat /\ data[f][i] < written'
             /\ f <= fd /\ (f = fd => i < Len(data[fd]) + 1)
      <3> TAKE f \in Names
      <3> TAKE i \in DOMAIN data[f]
      <3>1. data[f] \in Seq(Nat) /\ data[f][i] <= written /\ written \in Nat
        BY DEF DataInv
      <3>2. f \in dir
        BY <3>1, SMT DEF DirInv
      <3>3. i \in Nat /\ data[f][i] \in Nat /\ i <= Len(data[f]) /\ Len(data[f]) \in Nat
        BY <3>1, SMT
      <3>4. data[f][i] < written'
        BY <1>1, <3>1, <3>3, SMT
      <3>5. f = fd => i < Len(data[fd]) + 1
        BY <3>3, SMT
      <3> QED BY <1>1, <3>2, <3>3, <3>4, <3>5
    <2> SUFFICES ASSUME NEW f \in Names, NEW g \in Names,
                        NEW i \in DOMAIN data'[f], NEW j \in DOMAIN data'[g],
                        f < g \/ (f = g /\ i < j)
                 PROVE  data'[f][i] < data'[g][j]
      BY DEF OrderInv
    <2>3. CASE i \in DOMAIN data[f] /\ data'[f][i] = data[f][i]
      <3>1. CASE j \in DOMAIN data[g] /\ data'[g][j] = data[g][j]
        BY <2>3, <3>1 DEF OrderInv
      <3>2. CASE data'[g][j] = written'
        BY <2>2, <2>3, <3>2
      <3> QED BY <2>1, <3>1, <3>2
    <2>4. CASE f = fd /\ i = Len(data[fd]) + 1
      <3>1. g <= fd /\ (g = fd => j <= i)
        <4>1. Len(data[fd]) \in Nat
          BY <1>1, SMT DEF DataInv
        <4>2. CASE j \in DOMAIN data[g]
          BY <2>2, <2>4, <4>1, <4>2, SMT
        <4>3. CASE g = fd /\ j = Len(data[fd]) + 1
          BY <2>4, <4>1, <4>3, SMT DEF Names
        <4> QED BY <2>1, <4>2, <4>3
      <3>2. i \in Nat /\ j \in Nat
        BY WriteLonger, SMT DEF DataInv
      <3> QED BY <2>4, <3>1, <3>2, SMT DEF Names
    <2> QED BY <2>1, <2>3, <2>4
  <1> QED BY <1>2, <1>3

LEMMA NextOrder ==
    NamesInv /\ DataInv /\ LogInv /\ DirInv /\ OrderInv /\ [Next]_vars => OrderInv'
  <1> SUFFICES ASSUME NamesInv, DataInv, LogInv, DirInv, OrderInv, [Next]_vars
               PROVE  OrderInv'
    OBVIOUS
  <1> USE DEF diskVars, writerVars, processVars
  <1>1. ASSUME UNCHANGED data PROVE OrderInv'
    BY <1>1 DEF OrderInv
  <1>2. ASSUME NEW end \in BOOLEAN, WriteSql(end) PROVE OrderInv'
    BY <1>2, WriteOrder
  <1>3. ASSUME Shorter PROVE OrderInv'
    BY <1>3 DEF Shorter, OrderInv
  <1>4. CASE \E gap \in Gaps : Rotate(gap) /\ UNCHANGED processVars
    BY <1>1, <1>4 DEF Rotate
  <1>5. CASE (OpenLog \/ KeepLog \/ WriteLog) /\ UNCHANGED processVars
    BY <1>1, <1>2, <1>5 DEF OpenLog, KeepLog, WriteLog
  <1>6. CASE (OpenLogFailed \/ WriteLogFailed) /\ UNCHANGED processVars
    BY <1>1, <1>2, <1>6 DEF OpenLogFailed, WriteLogFailed
  <1>7. ASSUME NEW f \in todo, SkipFile(f) PROVE OrderInv'
    BY <1>3, <1>7, ArchiveFileShorter DEF SkipFile, NamesInv
  <1>8. ASSUME NEW f \in todo, OpenFile(f) PROVE OrderInv'
    BY <1>1, <1>8 DEF OpenFile
  <1>9. CASE EndOfFile
    BY <1>3, <1>9, ArchiveFileShorter DEF EndOfFile, NamesInv, Handling
  <1>10. CASE ChildStart \/ ListDirectory \/ EndDirectory \/ ReadSql \/ UpdateOk \/ UpdateRefused
              \/ UpdateGone \/ UpdateLost \/ CommitLost \/ SaveProgress \/ LeaveFile
              \/ LoseConnection \/ ChildExit \/ ChildCrash \/ ParentStart
    BY <1>1, <1>10 DEF ChildStart, ListDirectory, EndDirectory, ReadSql, UpdateOk,
       UpdateRefused, UpdateGone, UpdateLost, CommitLost, SaveProgress, LeaveFile,
       LoseConnection, ChildExit, ChildCrash, ParentStart
  <1>11. CASE ParentDown
    BY <1>1, <1>2, <1>11 DEF ParentDown
  <1>12. CASE PowerLoss
    BY <1>3, <1>12, PowerShorter
  <1>13. CASE UNCHANGED vars
    BY <1>1, <1>13 DEF vars
  <1> QED BY <1>4, <1>5, <1>6, <1>7, <1>8, <1>9, <1>10, <1>11, <1>12, <1>13 DEF Next, ChildStep

-----------------------------------------------------------------------------
(* Where the child and sql.progress are in the log.                        *)

\* Without batches there is no transaction.
PlainInv == batch = 1 => auto /\ txn = <<>>

\* How far into the file handle_file has come: up to its end, or to where
\* sql.progress says.
ReadInv ==
    left = 0 =>
    /\ pc # "down" /\ progress.file = None => done.file \in Garbage /\ done.offset = 0
    /\ pc \in {"update", "progress"} => offset <= Len(data[file])
    /\ pc = "read" => \/ offset <= Len(data[file])
                      \/ file = progress.file /\ offset = progress.offset

\* As long as db_proxy has not been restarted, every name it takes is new, and
\* sql.progress is within what has been written.
FreshInv ==
    restarts = 0 /\ left = 0 =>
    /\ path = None => dir = {}
    /\ path # None => path = lastName
    /\ progress.file <= lastName
    /\ wpc = "open" => progress.file < path /\ path \notin dir
    /\ fd # None /\ fd = progress.file /\ ~gone => progress.offset <= Len(data[fd])

\* As long as nothing has failed, what is before the child in the log is gone.
GoneInv ==
    faults = 0 =>
    /\ \A h \in dir : progress.file <= h
    /\ progress.file <= lastName
    /\ wpc = "open" => progress.file <= path
    /\ Handling => \A h \in dir : file <= h
    /\ \A h \in dir \ todo, g \in todo : g < h \/ (Handling /\ h = file)

LEMMA InitPlaces == Init => PlainInv /\ ReadInv /\ FreshInv /\ GoneInv
  BY SMT DEF Init, LoggerInit, ProcessInit, PlainInv, ReadInv, FreshInv, GoneInv, Handling, None,
     Position

LEMMA NextPlain == PlainInv /\ [Next]_vars => PlainInv'
  <1> SUFFICES ASSUME PlainInv, [Next]_vars
               PROVE  PlainInv'
    OBVIOUS
  <1> USE DEF PlainInv, diskVars, writerVars, processVars, childVars, dbVars
  <1>1. CASE UNCHANGED <<batch, auto, txn>>
    BY <1>1
  <1>2. CASE batch' = batch /\ auto' = TRUE /\ txn' = <<>>
    BY <1>2
  <1>3. CASE ChildStart
    <2>1. batch = 1 => batch <= 1
      BY SMT
    <2> QED BY <1>3, <2>1 DEF ChildStart
  <1>4. CASE UpdateOk
    <2>1. batch = 1 => ~(batch > 1)
      BY SMT
    <2> QED BY <1>4, <2>1 DEF UpdateOk
  <1>5. CASE LoseConnection \/ UpdateLost \/ CommitLost \/ ChildExit \/ ChildCrash \/ PowerLoss
    BY <1>2, <1>5 DEF LoseConnection, UpdateLost, CommitLost, ChildExit, ChildCrash, PowerLoss,
       ChildEnds
  <1>6. ASSUME NEW f \in todo, SkipFile(f) \/ OpenFile(f) PROVE PlainInv'
    BY <1>1, <1>6 DEF SkipFile, OpenFile
  <1>7. CASE ListDirectory \/ EndDirectory \/ ReadSql \/ EndOfFile \/ UpdateRefused \/ UpdateGone
             \/ SaveProgress \/ LeaveFile \/ ParentDown \/ ParentStart \/ UNCHANGED vars
    BY <1>1, <1>7 DEF ListDirectory, EndDirectory, ReadSql, EndOfFile, UpdateRefused, UpdateGone,
       SaveProgress, LeaveFile, ParentDown, ParentStart, vars
  <1> QED BY <1>1, <1>3, <1>4, <1>5, <1>6, <1>7 DEF Next, ChildStep

LEMMA NextRead ==
    NamesInv /\ DoneInv /\ DataInv /\ LogInv /\ ReadInv /\ [Next]_vars => ReadInv'
  <1> SUFFICES ASSUME NamesInv, DoneInv, DataInv, LogInv, ReadInv, [Next]_vars
               PROVE  ReadInv'
    OBVIOUS
  <1> USE DEF diskVars, writerVars, processVars, childVars, Handling
  <1>1. ASSUME UNCHANGED <<data, pc, file, offset, progress, done, left>> PROVE ReadInv'
    BY <1>1 DEF ReadInv
  <1>2. ASSUME pc # "down", pc' \in {"dir", "file"}, UNCHANGED <<progress, done, left>>
        PROVE  ReadInv'
    BY <1>2 DEF ReadInv
  <1>3. ASSUME NEW end \in BOOLEAN, WriteSql(end), UNCHANGED processVars PROVE ReadInv'
    <2>1. Handling => Len(data[file]) \in Nat /\ Len(data'[file]) \in Nat
                      /\ Len(data[file]) <= Len(data'[file])
      <3> SUFFICES ASSUME Handling
                   PROVE  Len(data[file]) \in Nat /\ Len(data'[file]) \in Nat
                          /\ Len(data[file]) <= Len(data'[file])
        OBVIOUS
      <3>1. file \in Names
        BY DEF NamesInv
      <3>2. /\ data[file] \in Seq(Nat) /\ data'[file] \in Seq(Nat)
            /\ \A i \in DOMAIN data[file] : i \in DOMAIN data'[file]
        BY <1>3, <3>1, WriteLonger DEF Longer, DataInv
      <3> QED BY <3>2, SMT
    <2>2. offset \in Nat
      BY DEF NamesInv
    <2>3. Handling /\ offset <= Len(data[file]) => offset <= Len(data'[file])
      BY <2>1, <2>2, SMT
    <2> QED BY <1>3, <2>3 DEF ReadInv
  <1>4. CASE ChildStart
    BY <1>4, SMT DEF ChildStart, ReadInv, Position
  <1>5. ASSUME NEW f \in todo, OpenFile(f) PROVE ReadInv'
    <2>1. f \in Names /\ Len(data[f]) \in Nat /\ 0 <= Len(data[f])
      BY SMT DEF NamesInv, DataInv
    <2>2. pc = "file" /\ pc' = "read" /\ file' = f /\ offset' = Seek(f)
          /\ UNCHANGED <<data, progress, done, left>>
      BY <1>5 DEF OpenFile
    <2>3. CASE f = done.file
      BY <2>1, <2>2, <2>3 DEF Seek, ReadInv, DoneInv
    <2>4. CASE f # done.file
      BY <2>1, <2>2, <2>4 DEF Seek, ReadInv
    <2> QED BY <2>3, <2>4
  <1>6. CASE ReadSql
    <2>1. file \in Names /\ offset \in Nat
      BY <1>6 DEF ReadSql, NamesInv
    <2>2. Len(data[file]) \in Nat
      BY <2>1, SMT DEF DataInv
    <2>3. offset + 1 <= Len(data[file])
      BY <1>6, <2>1, <2>2, SMT DEF ReadSql
    <2> QED BY <1>6, <2>3 DEF ReadSql, ReadInv
  <1>7. CASE UpdateOk \/ UpdateRefused
    BY <1>7 DEF UpdateOk, UpdateRefused, ReadInv
  <1>8. CASE SaveProgress
    <2>1. file # None
      BY <1>8, SMT DEF SaveProgress, NamesInv, Names, None
    <2>2. progress'.file = file /\ pc' = "read" /\ pc = "progress"
          /\ UNCHANGED <<data, file, offset, left>>
      BY <1>8, SMT DEF SaveProgress, Position
    <2> QED BY <2>1, <2>2 DEF ReadInv
  <1>9. CASE UpdateGone \/ UpdateLost \/ CommitLost \/ LoseConnection \/ ParentStart
    BY <1>1, <1>9 DEF UpdateGone, UpdateLost, CommitLost, LoseConnection, ParentStart
  <1>10. CASE LeaveFile
    BY <1>10, SMT DEF LeaveFile, NamesInv, ReadInv
  <1>11. CASE ChildExit \/ ChildCrash \/ PowerLoss
    BY <1>11 DEF ChildExit, ChildCrash, PowerLoss, ChildEnds, ReadInv
  <1>12. CASE \E gap \in Gaps : Rotate(gap) /\ UNCHANGED processVars
    BY <1>1, <1>12 DEF Rotate
  <1>13. CASE (OpenLog \/ KeepLog \/ WriteLog) /\ UNCHANGED processVars
    BY <1>1, <1>3, <1>13 DEF OpenLog, KeepLog, WriteLog
  <1>14. CASE (OpenLogFailed \/ WriteLogFailed) /\ UNCHANGED processVars
    BY <1>1, <1>3, <1>14 DEF OpenLogFailed, WriteLogFailed
  <1>15. ASSUME NEW f \in todo, SkipFile(f) PROVE ReadInv'
    BY <1>2, <1>15 DEF SkipFile
  <1>16. CASE ListDirectory \/ EndDirectory \/ EndOfFile
    BY <1>2, <1>16 DEF ListDirectory, EndDirectory, EndOfFile
  <1>17. CASE ParentDown
    BY <1>1, <1>3, <1>17 DEF ParentDown
  <1>18. CASE UNCHANGED vars
    BY <1>1, <1>18 DEF vars
  <1> QED BY <1>4, <1>5, <1>6, <1>7, <1>8, <1>9, <1>10, <1>11, <1>12, <1>13, <1>14, <1>15, <1>16,
             <1>17, <1>18 DEF Next, ChildStep

LEMMA NextFresh ==
    /\ NamesInv /\ DataInv /\ LogInv /\ TableInv /\ DirInv /\ TodoInv /\ ReadInv /\ FreshInv
    /\ [Next]_vars
    => FreshInv'
  <1> SUFFICES ASSUME NamesInv, DataInv, LogInv, TableInv, DirInv, TodoInv, ReadInv, FreshInv,
                      [Next]_vars, restarts' = 0, left' = 0
               PROVE  FreshInv'
    BY DEF FreshInv
  <1> USE DEF diskVars, writerVars, processVars, childVars, Handling
  <1>1. restarts \in Nat /\ left \in Nat
    BY DEF TableInv, NamesInv
  <1>2. ASSUME UNCHANGED <<dir, data, lastName, path, fd, gone, progress, restarts, left>>,
               wpc' = "open" => wpc = "open"
        PROVE  FreshInv'
    BY <1>2 DEF FreshInv
  <1>3. ASSUME NEW end \in BOOLEAN, WriteSql(end), wpc' = "idle",
               UNCHANGED <<path, fd, gone, progress, restarts, left>>
        PROVE  FreshInv'
    <2>1. /\ dir' = dir /\ lastName' = lastName /\ fd \in Names
          /\ gone => data' = data
          /\ ~gone => Len(data'[fd]) = Len(data[fd]) + 1
      BY <1>3, WriteFacts
    <2>2. Len(data[fd]) \in Nat /\ progress.offset \in Nat
      BY <2>1, SMT DEF DataInv, NamesInv
    <2>3. ~gone /\ progress.offset <= Len(data[fd]) => progress.offset <= Len(data'[fd])
      BY <2>1, <2>2, SMT
    <2> QED BY <1>3, <2>1, <2>3 DEF FreshInv
  <1>4. ASSUME NEW gap \in Gaps, Rotate(gap), UNCHANGED processVars PROVE FreshInv'
    <2>1. UNCHANGED <<dir, progress, restarts, left>> /\ fd' = None /\ restarts = 0 /\ left = 0
      BY <1>4 DEF Rotate
    <2>2. path # None \/ dir = {}
      BY <2>1 DEF FreshInv
    <2>3. path' \in Names /\ lastName < path' /\ lastName' = path'
      BY <1>4, <2>2, RotateFacts
    <2>4. progress.file \in Nat /\ progress.file <= lastName /\ lastName \in Nat /\ path' \in Nat
      BY <2>1, <2>3, SMT DEF NamesInv, FreshInv, DirInv, Names
    <2>5. progress.file < path' /\ progress.file <= lastName' /\ path' # None
      BY <2>3, <2>4, SMT DEF None
    <2>6. path' \notin dir
      <3>1. path' \in dir => path' <= lastName
        BY DEF DirInv
      <3> QED BY <2>3, <2>4, <3>1, SMT
    <2> QED BY <2>1, <2>3, <2>5, <2>6 DEF FreshInv
  <1>5. CASE OpenLog /\ UNCHANGED processVars
    <2>1. path # progress.file
      <3>1. progress.file < path
        BY <1>5 DEF OpenLog, FreshInv
      <3> QED BY <3>1, SMT DEF NamesInv
    <2> QED BY <1>5, <2>1 DEF OpenLog, FreshInv, DirInv
  <1>6. CASE (OpenLogFailed \/ KeepLog) /\ UNCHANGED processVars
    BY <1>2, <1>6 DEF OpenLogFailed, KeepLog
  <1>7. CASE (WriteLog \/ WriteLogFailed) /\ UNCHANGED processVars
    BY <1>2, <1>3, <1>7 DEF WriteLog, WriteLogFailed
  <1>8. ASSUME NEW n \in dir, ArchiveFile(n), UNCHANGED <<wpc, path, fd, progress, restarts, left>>
        PROVE  FreshInv'
    <2>1. CASE Archive(n)
      <3>1. lastName' = lastName /\ dir' = dir \ {n} /\ gone' = (gone \/ fd = n) /\ n \in Names
        BY <2>1 DEF Archive, NamesInv
      <3>2. fd \in Names /\ fd # n => data'[fd] = data[fd]
        BY <2>1, <3>1 DEF Archive, DataInv
      <3>3. fd # None => fd \in Names
        BY DEF LogInv
      <3> QED BY <1>8, <3>1, <3>2, <3>3 DEF FreshInv
    <2> QED BY <1>2, <1>8, <2>1 DEF ArchiveFile
  <1>9. ASSUME NEW f \in todo, SkipFile(f) PROVE FreshInv'
    BY <1>8, <1>9 DEF SkipFile, TodoInv
  <1>10. CASE EndOfFile
    BY <1>8, <1>10 DEF EndOfFile, TodoInv
  <1>11. CASE SaveProgress
    <2>1. progress'.file = file /\ progress'.offset = offset
      BY <1>11, SMT DEF SaveProgress, Position
    <2>2. file \in dir /\ file \in Names /\ offset <= Len(data[file]) /\ restarts = 0 /\ left = 0
      BY <1>11 DEF SaveProgress, TodoInv, ReadInv, NamesInv
    <2>3. file <= lastName
      BY <2>2 DEF DirInv
    <2>4. wpc = "open" => file < path
      <3> SUFFICES ASSUME wpc = "open"
                   PROVE  file < path
        OBVIOUS
      <3>1. path \notin dir /\ path \in Names /\ path # None
        BY <2>2 DEF FreshInv, NamesInv, DirInv
      <3>2. file <= path /\ file # path
        BY <2>2, <3>1 DEF DirInv
      <3> QED BY <2>2, <3>1, <3>2, SMT DEF Names
    <2> QED BY <1>11, <2>1, <2>2, <2>3, <2>4 DEF SaveProgress, FreshInv
  <1>12. ASSUME NEW f \in todo, OpenFile(f) PROVE FreshInv'
    BY <1>2, <1>12 DEF OpenFile
  <1>13. CASE ChildStart \/ ListDirectory \/ EndDirectory \/ ReadSql \/ UpdateOk \/ UpdateRefused
              \/ UpdateGone \/ UpdateLost \/ CommitLost \/ LoseConnection \/ ChildExit
              \/ ChildCrash \/ ParentStart
    BY <1>2, <1>13 DEF ChildStart, ListDirectory, EndDirectory, ReadSql, UpdateOk, UpdateRefused,
       UpdateGone, UpdateLost, CommitLost, LoseConnection, ChildExit, ChildCrash, ChildEnds,
       ParentStart
  <1>14. ~LeaveFile /\ ~ParentDown /\ ~PowerLoss
    <2>1. left + 1 # 0 /\ restarts + 1 # 0
      BY <1>1, SMT
    <2> QED BY <2>1 DEF LeaveFile, ParentDown, PowerLoss, ParentEnds
  <1>15. CASE UNCHANGED vars
    BY <1>2, <1>15 DEF vars
  <1> QED BY <1>4, <1>5, <1>6, <1>7, <1>9, <1>10, <1>11, <1>12, <1>13, <1>14, <1>15
          DEF Next, ChildStep

LEMMA NextGone ==
    /\ NamesInv /\ TableInv /\ DirInv /\ TodoInv /\ GoneInv
    /\ [Next]_vars
    => GoneInv'
  <1> SUFFICES ASSUME NamesInv, TableInv, DirInv, TodoInv, GoneInv, [Next]_vars, faults' = 0
               PROVE  GoneInv'
    BY DEF GoneInv
  <1> USE DEF diskVars, writerVars, processVars, childVars, Handling
  <1>1. faults \in Nat /\ faults + 1 # 0
    BY SMT DEF TableInv
  <1>2. /\ progress.file \in Nat /\ lastName \in Nat
        /\ \A h \in dir : h \in Nat /\ h <= lastName
        /\ \A h \in todo : h \in Nat
        /\ path # None => path \in Nat /\ \A h \in dir : h <= path
    BY SMT DEF NamesInv, DirInv, TodoInv, Names
  <1>3. ASSUME UNCHANGED <<dir, lastName, progress, todo, faults>>,
               wpc' = "open" => wpc = "open" /\ path' = path,
               UNCHANGED <<pc, file>> \/ (Handling /\ Handling' /\ UNCHANGED file)
        PROVE  GoneInv'
    BY <1>3 DEF GoneInv
  \* No file is handled; there is a listing at most.
  <1>4. ASSUME UNCHANGED <<dir, lastName, progress, faults, wpc, path>>, todo' = {}, ~Handling'
        PROVE  GoneInv'
    BY <1>4 DEF GoneInv
  <1>5. ASSUME NEW gap \in Gaps, Rotate(gap), UNCHANGED processVars PROVE GoneInv'
    <2>1. UNCHANGED <<dir, progress, todo, pc, file, faults>>
      BY <1>5 DEF Rotate
    <2>2. /\ path' \in Names /\ lastName' \in Nat /\ lastName <= lastName' /\ path' <= lastName'
          /\ path = None /\ dir # {} => path' \in dir
          /\ path # None \/ dir = {} => lastName < path'
      BY <1>5, RotateFacts
    <2>3. path' \in Nat
      BY <2>2, SMT DEF Names
    <2>4. progress.file <= lastName'
      BY <1>2, <2>1, <2>2, SMT DEF GoneInv
    <2>5. progress.file <= path'
      <3>1. CASE path' \in dir
        BY <2>1, <3>1 DEF GoneInv
      <3>2. CASE lastName < path'
        BY <1>2, <2>1, <2>3, <3>2, SMT DEF GoneInv
      <3> QED BY <2>2, <3>1, <3>2
    <2> QED BY <2>1, <2>4, <2>5 DEF GoneInv
  <1>6. CASE OpenLog /\ UNCHANGED processVars
    <2>1. UNCHANGED <<lastName, progress, todo, pc, file, faults, path>> /\ wpc' = "write"
          /\ dir' = dir \cup {path} /\ path # None /\ progress.file <= path
      BY <1>6 DEF OpenLog, DirInv, GoneInv
    <2>2. Handling => file \in dir /\ file <= path
      BY <1>2, <2>1 DEF TodoInv
    <2>3. \A g \in todo : path # g => g < path
      BY <1>2, <2>1, SMT DEF TodoInv
    <2> QED BY <2>1, <2>2, <2>3 DEF GoneInv
  <1>7. CASE (KeepLog \/ WriteLog) /\ UNCHANGED processVars
    BY <1>3, <1>7 DEF KeepLog, WriteLog, WriteSql
  <1>8. ASSUME NEW n \in dir, ArchiveFile(n), UNCHANGED <<wpc, path, progress>>, pc' = "file",
               \/ pc = "file" /\ todo' = todo \ {n}
               \/ pc = "read" /\ n = file /\ todo' = todo
        PROVE  GoneInv'
    <2>1. dir' = dir \ {n} /\ UNCHANGED <<lastName, faults>>
      BY <1>1, <1>8 DEF ArchiveFile, Archive
    <2> QED BY <1>8, <2>1 DEF GoneInv
  <1>9. ASSUME NEW f \in todo, SkipFile(f) PROVE GoneInv'
    BY <1>8, <1>9 DEF SkipFile, TodoInv
  <1>10. CASE EndOfFile
    BY <1>8, <1>10 DEF EndOfFile, TodoInv
  <1>11. ASSUME NEW f \in todo, OpenFile(f) PROVE GoneInv'
    <2>1. pc = "file" /\ pc' = "read" /\ file' = f /\ todo' = todo \ {f}
          /\ UNCHANGED <<dir, lastName, progress, faults, wpc, path>> /\ \A g \in todo : f <= g
      BY <1>11 DEF OpenFile, First
    <2>2. \A h \in dir : f <= h
      <3> TAKE h \in dir
      <3>1. CASE h \in todo
        BY <2>1, <3>1
      <3>2. CASE h \notin todo
        <4>1. f < h
          BY <2>1, <3>2 DEF GoneInv
        <4> QED BY <1>2, <4>1, SMT
      <3> QED BY <3>1, <3>2
    <2> QED BY <2>1, <2>2 DEF GoneInv
  <1>12. CASE ListDirectory
    BY <1>12 DEF ListDirectory, GoneInv
  <1>13. CASE ChildStart \/ EndDirectory
    BY <1>4, <1>13 DEF ChildStart, EndDirectory, TodoInv
  <1>14. CASE ReadSql \/ UpdateOk \/ UpdateRefused \/ UpdateGone
    BY <1>3, <1>14 DEF ReadSql, UpdateOk, UpdateRefused, UpdateGone
  <1>15. CASE SaveProgress
    <2>1. progress'.file = file
      BY <1>15, SMT DEF SaveProgress, Position
    <2>2. file \in dir /\ file <= lastName /\ (path # None => file <= path)
      BY <1>2, <1>15 DEF SaveProgress, TodoInv
    <2> QED BY <1>15, <2>1, <2>2 DEF SaveProgress, GoneInv, DirInv
  <1>16. CASE ChildExit
    BY <1>4, <1>16 DEF ChildExit, ChildEnds
  <1>17. CASE ParentDown
    BY <1>3, <1>17 DEF ParentDown, ParentEnds, WriteSql
  <1>18. CASE ParentStart
    BY <1>3, <1>18 DEF ParentStart
  <1>19. /\ ~OpenLogFailed /\ ~WriteLogFailed /\ ~UpdateLost /\ ~CommitLost /\ ~LoseConnection
         /\ ~LeaveFile /\ ~ChildCrash /\ ~PowerLoss
    BY <1>1 DEF OpenLogFailed, WriteLogFailed, UpdateLost, CommitLost, LoseConnection, LeaveFile,
       ChildCrash, PowerLoss
  <1>20. CASE UNCHANGED vars
    BY <1>3, <1>20 DEF vars
  <1> QED BY <1>5, <1>6, <1>7, <1>9, <1>10, <1>11, <1>12, <1>13, <1>14, <1>15, <1>16, <1>17, <1>18,
             <1>19, <1>20 DEF Next, ChildStep

-----------------------------------------------------------------------------
(* What has been executed.                                                 *)

\* No name in a Progress that was never set is one above the name of a file: file_handled
\* would take such a file for one that comes before the one in progress.
Distant == \A g \in Garbage, f \in Names : f - g # -1

\* What InOrder is about.
Orderly == batch = 1 /\ left = 0 /\ (restarts = 0 \/ faults = 0)

\* sql.progress counts place i of file f as done.
Behind(f, i) == f < progress.file \/ (f = progress.file /\ i <= progress.offset)

\* The statement there has been executed, or never will be.
Executed(f, i) == data[f][i] \in Elements(table) \cup Rejected

\* It will not be executed for the first time any more.
Settled(f, i) == Executed(f, i) \/ (faults = 0 /\ Behind(f, i))

\* Place i of file f is before the child, which is at work on a file.
Upto == IF pc = "update" THEN offset - 1 ELSE offset
Before(f, i) == Handling /\ (f < file \/ (f = file /\ i <= Upto))

\* The child has come past file f with a later one still in its listing.
Over(f) == f \notin todo /\ (\E g \in todo : f < g) /\ ~(Handling /\ f = file)

Sorted(t) ==
    \A i, j \in DOMAIN t : i < j /\ t[j] < t[i] => \E k \in 1..(i - 1) : t[k] = t[j]

ExecInv ==
    Orderly =>
    /\ \A f \in Names : \A i \in DOMAIN data[f] :
          /\ restarts = 0 /\ Behind(f, i) => Executed(f, i)
          /\ Before(f, i) => Settled(f, i)
          /\ Over(f) => Executed(f, i)
          /\ \A t \in Elements(table) : data[f][i] <= t => Settled(f, i)
    /\ Sorted(table)

BaseInv ==
    /\ NamesInv /\ DoneInv /\ DataInv /\ LogInv /\ TableInv /\ DirInv /\ TodoInv /\ OrderInv
    /\ PlainInv /\ ReadInv /\ FreshInv /\ GoneInv

LEMMA CounterStep ==
    ASSUME [Next]_vars
    PROVE  /\ batch' = batch /\ left' \in {left, left + 1}
           /\ faults' \in {faults, faults + 1} /\ restarts' \in {restarts, restarts + 1}
  <1> USE DEF diskVars, writerVars, processVars, childVars, dbVars
  <1>1. CASE UNCHANGED vars
    BY <1>1 DEF vars
  <1>2. CASE ChildStep
    BY <1>2 DEF ChildStep, ChildStart, ListDirectory, EndDirectory, SkipFile, OpenFile, ReadSql,
       EndOfFile, ArchiveFile, UpdateOk, UpdateRefused, UpdateGone, SaveProgress, ChildExit,
       ChildEnds
  <1>3. CASE UpdateLost \/ CommitLost \/ LoseConnection \/ LeaveFile \/ ChildCrash \/ ParentDown
             \/ ParentStart \/ PowerLoss
    BY <1>3 DEF UpdateLost, CommitLost, LoseConnection, LeaveFile, ChildCrash, ChildEnds,
       ParentDown, ParentStart, PowerLoss, ParentEnds
  <1>4. CASE UNCHANGED processVars /\ ((\E gap \in Gaps : Rotate(gap)) \/ OpenLog \/ KeepLog
             \/ WriteLog \/ OpenLogFailed \/ WriteLogFailed)
    BY <1>4 DEF Rotate, OpenLog, KeepLog, WriteLog, OpenLogFailed, WriteLogFailed
  <1> QED BY <1>1, <1>2, <1>3, <1>4 DEF Next

LEMMA OrderlyBack ==
    ASSUME BaseInv, [Next]_vars, Orderly'
    PROVE  /\ Orderly /\ (restarts' = 0 => restarts = 0)
           /\ faults' # 0 => restarts = 0 /\ restarts' = 0
  <1>1. left \in Nat /\ faults \in Nat /\ restarts \in Nat
    BY DEF BaseInv, NamesInv, TableInv
  <1>2. /\ batch' = batch /\ left' \in {left, left + 1}
        /\ faults' \in {faults, faults + 1} /\ restarts' \in {restarts, restarts + 1}
    BY CounterStep
  <1>3. left + 1 # 0 /\ faults + 1 # 0 /\ restarts + 1 # 0
    BY <1>1, SMT
  <1> QED BY <1>2, <1>3 DEF Orderly

LEMMA PlaceFacts ==
    ASSUME BaseInv, NEW f \in Names, NEW i \in DOMAIN data[f]
    PROVE  /\ f \in Nat /\ i \in Nat /\ 1 <= i /\ i <= Len(data[f]) /\ Len(data[f]) \in Nat
           /\ data[f][i] \in Nat /\ data[f][i] <= written /\ f \in dir
  <1>1. data[f] \in Seq(Nat) /\ data[f][i] <= written
    BY DEF BaseInv, DataInv
  <1>2. f \in dir
    <2>1. data[f] # <<>>
      BY SMT
    <2> QED BY <2>1 DEF BaseInv, DirInv
  <1>3. f \in Nat
    BY SMT DEF Names
  <1> QED BY <1>1, <1>2, <1>3, SMT

\* What is settled stays so, if sql.progress does not go back before it.
LEMMA SettledKept ==
    ASSUME ExecInv, Orderly, faults' # 0 => restarts = 0,
           NEW f \in Names, NEW i \in DOMAIN data[f], Settled(f, i),
           Behind(f, i) => Behind(f, i)', Executed(f, i) => Executed(f, i)'
    PROVE  Settled(f, i)'
  BY DEF Settled, ExecInv

\* Steps that neither execute nor write a statement, nor change sql.progress.
LEMMA ExecQuiet ==
    ASSUME ExecInv, Orderly, faults' # 0 => restarts = 0, restarts' = 0 => restarts = 0,
           UNCHANGED <<progress, table>>,
           \A f \in Names : \A i \in DOMAIN data'[f] :
              /\ i \in DOMAIN data[f] /\ data'[f][i] = data[f][i]
              /\ Before(f, i)' => Settled(f, i)
              /\ Over(f)' => Executed(f, i)
    PROVE  ExecInv'
  <1>1. \A f \in Names : \A i \in DOMAIN data'[f] :
           /\ i \in DOMAIN data[f] /\ (Behind(f, i)' <=> Behind(f, i))
           /\ Executed(f, i)' <=> Executed(f, i)
    BY DEF Behind, Executed
  <1>2. \A f \in Names : \A i \in DOMAIN data'[f] : Settled(f, i) => Settled(f, i)'
    BY <1>1, SettledKept
  <1> QED BY <1>1, <1>2 DEF ExecInv

LEMMA ElementsAppend ==
    ASSUME NEW t \in Seq(Nat), NEW x \in Nat
    PROVE  Elements(Append(t, x)) = Elements(t) \cup {x}
  <1>1. /\ DOMAIN Append(t, x) = DOMAIN t \cup {Len(t) + 1}
        /\ Append(t, x)[Len(t) + 1] = x
        /\ \A i \in DOMAIN t : Append(t, x)[i] = t[i]
    BY SMT
  <1> QED BY <1>1 DEF Elements

\* A statement is executed at the end of a sorted table, and is there already if it is
\* not the largest one.
LEMMA SortedAppend ==
    ASSUME NEW t \in Seq(Nat), NEW x \in Nat, Sorted(t),
           \A y \in Elements(t) : x < y => x \in Elements(t)
    PROVE  Sorted(Append(t, x))
  <1> DEFINE u == Append(t, x)
             n == Len(t)
  <1>1. /\ n \in Nat /\ DOMAIN t = 1..n /\ DOMAIN u = 1..(n + 1) /\ u[n + 1] = x
        /\ \A i \in 1..n : u[i] = t[i] /\ t[i] \in Nat
    BY SMT
  <1> HIDE DEF u, n
  <1> SUFFICES ASSUME NEW i \in DOMAIN u, NEW j \in DOMAIN u, i < j, u[j] < u[i]
               PROVE  \E k \in 1..(i - 1) : u[k] = u[j]
    BY DEF Sorted, u
  <1>2. i \in 1..n /\ \A k \in 1..(i - 1) : k \in 1..n
    BY <1>1, SMT
  <1>3. CASE j \in 1..n
    <2>1. \E k \in 1..(i - 1) : t[k] = t[j]
      BY <1>1, <1>2, <1>3 DEF Sorted
    <2> QED BY <1>1, <1>2, <1>3, <2>1
  <1>4. CASE j = n + 1
    <2>1. x < t[i] /\ t[i] \in Elements(t)
      BY <1>1, <1>2, <1>4 DEF Elements
    <2>2. PICK k \in 1..n : t[k] = x
      BY <1>1, <2>1 DEF Elements
    <2>3. CASE k < i
      <3>1. k \in 1..(i - 1)
        BY <1>1, <1>2, <2>3, SMT
      <3> QED BY <1>1, <1>2, <1>4, <2>2, <3>1
    <2>4. CASE i < k
      <3>1. \E m \in 1..(i - 1) : t[m] = t[k]
        BY <1>1, <1>2, <2>1, <2>2, <2>4 DEF Sorted
      <3> QED BY <1>1, <1>2, <1>4, <2>2, <3>1
    <2>5. k # i
      BY <1>1, <2>1, <2>2, <1>2, SMT
    <2> QED BY <1>1, <1>2, <2>2, <2>3, <2>4, <2>5, SMT
  <1>5. j \in 1..n \/ j = n + 1
    BY <1>1, SMT
  <1> QED BY <1>3, <1>4, <1>5

\* The child executes the statement that it has read.
LEMMA ExecUpdate ==
    ASSUME BaseInv, ExecInv, Orderly, faults' # 0 => restarts = 0, restarts' = 0 => restarts = 0,
           pc = "update", pc' \in {"update", "progress"},
           UNCHANGED <<data, progress, file, offset, todo>>,
           Sql \notin Rejected, table' = Append(table, Sql)
    PROVE  ExecInv'
  <1> USE DEF Handling
  <1>1. /\ file \in Names /\ offset \in DOMAIN data[file]
        /\ Sql \in Nat /\ file \in Nat /\ offset \in Nat
    BY SqlFacts, PlaceFacts DEF BaseInv
  <1>2. table \in Seq(Nat) /\ Elements(table') = Elements(table) \cup {Sql}
    BY <1>1, ElementsAppend DEF BaseInv, TableInv, Below
  <1>3. \A f \in Names : \A i \in DOMAIN data[f] : Executed(f, i) => Executed(f, i)'
    BY <1>2 DEF Executed
  <1>4. \A f \in Names : \A i \in DOMAIN data[f] : Behind(f, i)' <=> Behind(f, i)
    BY DEF Behind
  <1>5. \A f \in Names : \A i \in DOMAIN data[f] : Settled(f, i) => Settled(f, i)'
    BY <1>3, <1>4, SettledKept
  <1>6. Settled(file, offset)'
    BY <1>2 DEF Settled, Executed, Sql
  <1>7. \A f \in Names : \A i \in DOMAIN data[f] :
           f < file \/ (f = file /\ i <= offset) => Settled(f, i)'
    <2> SUFFICES ASSUME NEW f \in Names, NEW i \in DOMAIN data[f],
                        f < file \/ (f = file /\ i <= offset)
                 PROVE  Settled(f, i)'
      OBVIOUS
    <2>1. CASE f = file /\ i = offset
      BY <1>6, <2>1
    <2>2. CASE ~(f = file /\ i = offset)
      <3>1. i \in Nat
        BY PlaceFacts
      <3>2. f < file \/ (f = file /\ i <= offset - 1)
        BY <1>1, <2>2, <3>1, SMT
      <3>3. Before(f, i)
        BY <3>2 DEF Before, Upto
      <3> QED BY <1>5, <3>3 DEF ExecInv
    <2> QED BY <2>1, <2>2
  <1>8. ASSUME NEW f \in Names, NEW i \in DOMAIN data[f]
        PROVE  /\ restarts' = 0 /\ Behind(f, i)' => Executed(f, i)'
               /\ Before(f, i)' => Settled(f, i)'
               /\ Over(f)' => Executed(f, i)'
               /\ \A t \in Elements(table') : data[f][i] <= t => Settled(f, i)'
    <2>1. restarts' = 0 /\ Behind(f, i)' => Executed(f, i)'
      BY <1>3, <1>4 DEF ExecInv
    <2>2. Before(f, i)' => Settled(f, i)'
      <3>1. i \in Nat
        BY PlaceFacts
      <3>2. i <= offset - 1 => i <= offset
        BY <1>1, <3>1, SMT
      <3> QED BY <1>7, <3>2 DEF Before, Upto
    <2>3. Over(f)' => Executed(f, i)'
      BY <1>3 DEF Over, ExecInv
    <2>4. data[f][i] <= Sql => Settled(f, i)'
      <3> SUFFICES ASSUME data[f][i] <= Sql
                   PROVE  f < file \/ (f = file /\ i <= offset)
        BY <1>7
      <3>1. i \in Nat /\ f \in Nat /\ data[f][i] \in Nat
        BY PlaceFacts
      <3>2. ~(Sql < data[f][i])
        BY <1>1, <3>1, SMT
      <3>3. ~(file < f) /\ ~(file = f /\ offset < i)
        BY <1>1, <3>2 DEF BaseInv, OrderInv, Sql
      <3> QED BY <1>1, <3>1, <3>3, SMT
    <2>5. ASSUME NEW t \in Elements(table'), data[f][i] <= t PROVE Settled(f, i)'
      BY <1>2, <1>5, <2>4, <2>5 DEF ExecInv
    <2> QED BY <2>1, <2>2, <2>3, <2>5
  <1>9. \A y \in Elements(table) : Sql < y => Sql \in Elements(table)
    <2> SUFFICES ASSUME NEW y \in Elements(table), Sql < y
                 PROVE  Sql \in Elements(table)
      OBVIOUS
    <2>1. y \in Nat /\ Sql <= y
      <3>1. \A i \in DOMAIN table : table[i] \in Nat
        BY <1>2, SMT
      <3>2. y \in Nat
        BY <3>1 DEF Elements
      <3> QED BY <1>1, <3>2, SMT
    <2>2. Settled(file, offset)
      BY <1>1, <2>1 DEF ExecInv, Sql
    <2>3. ~(faults = 0 /\ Behind(file, offset))
      <3> SUFFICES ASSUME faults = 0
                   PROVE  ~Behind(file, offset)
        OBVIOUS
      <3>1. /\ file \in dir /\ progress.file <= file
            /\ progress.file \in Nat /\ progress.offset \in Nat
        BY DEF BaseInv, TodoInv, GoneInv, NamesInv
      <3>2. file = progress.file => offset > progress.offset
        BY DEF BaseInv, DoneInv, Orderly
      <3> QED BY <1>1, <3>1, <3>2, SMT DEF Behind
    <2> QED BY <2>2, <2>3 DEF Settled, Executed, Sql
  <1>10. Sorted(table')
    BY <1>1, <1>2, <1>9, SortedAppend DEF ExecInv
  <1> QED BY <1>8, <1>10 DEF ExecInv

\* A statement is written to the last file.
LEMMA ExecWrite ==
    ASSUME BaseInv, ExecInv, Orderly, Orderly', faults' # 0 => restarts = 0,
           restarts' = 0 => restarts = 0,
           NEW end \in BOOLEAN, WriteSql(end), UNCHANGED processVars
    PROVE  ExecInv'
  <1> USE DEF Handling, processVars, childVars, dbVars
  <1> DEFINE n == Len(data[fd]) + 1
  <1>1. /\ fd \in Names /\ fd = path /\ written' = written + 1
        /\ \A g \in dir : g <= fd
        /\ gone => data' = data
        /\ \A f \in Names : f # fd => data'[f] = data[f]
        /\ ~gone => /\ DOMAIN data'[fd] = DOMAIN data[fd] \cup {n}
                    /\ data'[fd][n] = written'
                    /\ \A i \in DOMAIN data[fd] : data'[fd][i] = data[fd][i]
    BY WriteFacts DEF BaseInv
  <1>2. n \in Nat /\ fd \in Nat /\ Len(data[fd]) \in Nat /\ n = Len(data[fd]) + 1 /\ fd # None
    BY <1>1, SMT DEF BaseInv, DataInv, Names, None
  <1> HIDE DEF n
  <1>3. \A f \in Names : \A i : Behind(f, i)' <=> Behind(f, i)
    BY DEF Behind
  <1>4. \A f \in Names : \A i : Before(f, i)' <=> Before(f, i)
    BY DEF Before, Upto
  <1>5. \A f \in Names : Over(f)' <=> Over(f)
    BY DEF Over
  <1>6. CASE gone
    BY <1>1, <1>4, <1>5, <1>6, ExecQuiet DEF ExecInv
  <1>7. CASE ~gone
    \* The places that were there.
    <2>1. ASSUME NEW f \in Names, NEW i \in DOMAIN data[f]
          PROVE  /\ data'[f][i] = data[f][i]
                 /\ restarts' = 0 /\ Behind(f, i)' => Executed(f, i)'
                 /\ Before(f, i)' => Settled(f, i)'
                 /\ Over(f)' => Executed(f, i)'
                 /\ \A t \in Elements(table') : data'[f][i] <= t => Settled(f, i)'
      <3>1. data'[f][i] = data[f][i]
        BY <1>1, <1>7
      <3>2. Executed(f, i)' <=> Executed(f, i)
        BY <3>1 DEF Executed
      <3>3. Settled(f, i) => Settled(f, i)'
        BY <1>3, <3>2, SettledKept
      <3> QED BY <1>3, <1>4, <1>5, <3>1, <3>2, <3>3 DEF ExecInv
    \* The new one.
    <2> PICK h \in Names, m \in Nat : h = fd /\ m = n
      BY <1>1, <1>2
    <2>2. restarts = 0 => ~Behind(h, m)
      <3> SUFFICES ASSUME restarts = 0
                   PROVE  ~Behind(fd, n)
        OBVIOUS
      <3>1. progress.file <= fd /\ (fd = progress.file => progress.offset <= Len(data[fd]))
        BY <1>1, <1>2, <1>7 DEF BaseInv, FreshInv, Orderly
      <3>2. progress.file \in Nat /\ progress.offset \in Nat
        BY DEF BaseInv, NamesInv
      <3> QED BY <1>2, <3>1, <3>2, SMT DEF Behind
    <2>3. Before(h, m) => Settled(h, m)'
      <3> SUFFICES ASSUME Before(h, m)
                   PROVE  Settled(h, m)'
        OBVIOUS
      <3>1. file \in dir /\ file <= fd /\ file \in Nat /\ offset \in Nat
        BY <1>1, SMT DEF Before, BaseInv, TodoInv, NamesInv, Names
      <3>2. file = fd /\ n <= Upto
        BY <1>2, <3>1, SMT DEF Before
      <3>3. pc = "read" /\ ~(offset <= Len(data[file]))
        <4>1. offset <= Len(data[file]) => ~(n <= offset) /\ ~(n <= offset - 1)
          BY <1>2, <3>1, <3>2, SMT
        <4> QED BY <3>2, <4>1 DEF Before, Upto, BaseInv, ReadInv, Orderly
      <3>4. file = progress.file /\ offset = progress.offset
        BY <3>3 DEF BaseInv, ReadInv, Orderly
      <3>5. Behind(h, m)
        BY <3>2, <3>3, <3>4 DEF Behind, Upto
      <3>6. faults' = 0
        BY <2>2, <3>5
      <3> QED BY <1>3, <3>5, <3>6 DEF Settled
    <2>4. ~Over(h)
      <3>1. \A g \in todo : ~(fd < g)
        BY <1>1, <1>2, SMT DEF BaseInv, TodoInv, NamesInv, Names
      <3> QED BY <3>1 DEF Over
    <2>5. \A t \in Elements(table) : ~(data'[h][m] <= t)
      <3> SUFFICES ASSUME NEW i \in DOMAIN table
                   PROVE  ~(data'[h][m] <= table[i])
        BY DEF Elements
      <3>1. table \in Seq(Nat) /\ table[i] <= written /\ written \in Nat
        BY DEF BaseInv, TableInv, Below, DataInv
      <3>2. data'[h][m] = written + 1
        BY <1>1, <1>7
      <3> QED BY <3>1, <3>2, SMT
    <2>6. \A f \in Names : \A i \in DOMAIN data'[f] :
             /\ restarts' = 0 /\ Behind(f, i)' => Executed(f, i)'
             /\ Before(f, i)' => Settled(f, i)'
             /\ Over(f)' => Executed(f, i)'
             /\ \A t \in Elements(table') : data'[f][i] <= t => Settled(f, i)'
      <3> TAKE f \in Names
      <3> TAKE i \in DOMAIN data'[f]
      <3>1. CASE i \in DOMAIN data[f]
        BY <2>1, <3>1
      <3>2. CASE f = h /\ i = m
        BY <1>3, <1>4, <1>5, <2>2, <2>3, <2>4, <2>5, <3>2
      <3> QED BY <1>1, <1>7, <3>1, <3>2
    <2> QED BY <2>6 DEF ExecInv
  <1> QED BY <1>6, <1>7

\* sql.progress is written.
LEMMA ExecSave ==
    ASSUME BaseInv, ExecInv, Orderly, SaveProgress, faults' # 0 => restarts = 0
    PROVE  ExecInv'
  <1> USE DEF Handling
  <1>1. /\ pc = "progress" /\ pc' = "read" /\ progress'.file = file /\ progress'.offset = offset
        /\ UNCHANGED <<data, table, faults, restarts, todo, file, offset>>
    BY SMT DEF SaveProgress, Position, diskVars, dbVars
  <1>2. /\ file \in dir /\ file \in Nat /\ offset \in Nat
        /\ progress.file \in Nat /\ progress.offset \in Nat
        /\ faults = 0 => progress.file <= file
        /\ file = progress.file => offset > progress.offset
    <2>1. file \in dir /\ file \in Names /\ offset \in Nat
      BY <1>1 DEF BaseInv, TodoInv, NamesInv
    <2>2. progress.file \in Nat /\ progress.offset \in Nat
      BY DEF BaseInv, NamesInv
    <2>3. file \in Nat
      BY <2>1, SMT DEF Names
    <2> QED BY <1>1, <2>1, <2>2, <2>3 DEF BaseInv, GoneInv, DoneInv, Orderly
  <1>3. \A f \in Names : \A i \in DOMAIN data[f] :
           /\ Behind(f, i)' <=> Before(f, i)
           /\ Before(f, i)' <=> Before(f, i)
           /\ Over(f)' <=> Over(f)
           /\ Executed(f, i)' <=> Executed(f, i)
    BY <1>1 DEF Behind, Before, Upto, Over, Executed
  <1>4. ASSUME NEW f \in Names, NEW i \in DOMAIN data[f], Settled(f, i) PROVE Settled(f, i)'
    <2>1. f \in Nat /\ i \in Nat
      BY PlaceFacts
    <2>2. faults = 0 /\ Behind(f, i) => Before(f, i)
      BY <1>1, <1>2, <2>1, SMT DEF Behind, Before, Upto
    <2> QED BY <1>1, <1>3, <1>4, <2>2 DEF Settled
  <1>5. \A f \in Names : \A i \in DOMAIN data[f] :
           /\ restarts' = 0 /\ Behind(f, i)' => Executed(f, i)'
           /\ Before(f, i)' => Settled(f, i)'
           /\ Over(f)' => Executed(f, i)'
           /\ \A t \in Elements(table) : data[f][i] <= t => Settled(f, i)'
    BY <1>1, <1>3, <1>4 DEF ExecInv, Settled
  <1> QED BY <1>1, <1>5 DEF ExecInv

LEMMA InitExec == Init => ExecInv
  <1> SUFFICES ASSUME Init
               PROVE  ExecInv
    OBVIOUS
  <1>1. data = [n \in Names |-> <<>>] /\ table = <<>>
    BY DEF Init, LoggerInit, ProcessInit
  <1>2. \A f \in Names : DOMAIN data[f] = {}
    BY <1>1, SMT
  <1>3. Sorted(table)
    BY <1>1, SMT DEF Sorted
  <1> QED BY <1>2, <1>3 DEF ExecInv

LEMMA NextExec ==
    ASSUME Distant, BaseInv, ExecInv, [Next]_vars, Orderly'
    PROVE  ExecInv'
  <1> USE DEF Handling, diskVars, writerVars, processVars, childVars, dbVars
  <1>1. /\ Orderly /\ (faults' # 0 => restarts = 0)
        /\ (restarts' = 0 => restarts = 0) /\ (restarts' # 0 => faults' = 0)
    BY OrderlyBack DEF Orderly
  <1>2. /\ faults \in Nat /\ restarts \in Nat /\ left \in Nat
        /\ faults + 1 # 0 /\ restarts + 1 # 0 /\ left + 1 # 0
    BY SMT DEF BaseInv, TableInv, NamesInv
  <1>3. ASSUME UNCHANGED <<data, progress, table>>,
               \A f \in Names : \A i \in DOMAIN data[f] : Before(f, i)' => Settled(f, i),
               \A f \in Names : \A i \in DOMAIN data[f] : Over(f)' => Executed(f, i)
        PROVE  ExecInv'
    BY <1>1, <1>3, ExecQuiet
  <1>4. ASSUME UNCHANGED <<data, progress, table, pc, file, offset, todo>> PROVE ExecInv'
    <2>1. \A f, i : (Before(f, i)' <=> Before(f, i)) /\ (Over(f)' <=> Over(f))
      BY <1>4 DEF Before, Upto, Over
    <2> QED BY <1>1, <1>3, <1>4, <2>1 DEF ExecInv
  \* No file is handled, and none is over.
  <1>5. ASSUME UNCHANGED <<data, progress, table>>, ~Handling', todo' = {} PROVE ExecInv'
    BY <1>3, <1>5 DEF Before, Over
  <1>6. ASSUME NEW end \in BOOLEAN, WriteSql(end), UNCHANGED processVars PROVE ExecInv'
    BY <1>1, <1>6, ExecWrite
  <1>7. ASSUME NEW gap \in Gaps, Rotate(gap), UNCHANGED processVars PROVE ExecInv'
    BY <1>4, <1>7 DEF Rotate
  <1>8. CASE (OpenLog \/ KeepLog \/ WriteLog) /\ UNCHANGED processVars
    BY <1>4, <1>6, <1>8 DEF OpenLog, KeepLog, WriteLog
  <1>9. CASE (OpenLogFailed \/ WriteLogFailed) /\ UNCHANGED processVars
    BY <1>4, <1>6, <1>9 DEF OpenLogFailed, WriteLogFailed
  <1>10. CASE ChildStart \/ EndDirectory
    BY <1>5, <1>10 DEF ChildStart, EndDirectory, BaseInv, TodoInv
  <1>11. CASE ListDirectory
    <2>1. \A f \in Names : \A i \in DOMAIN data[f] : ~Over(f)'
      BY <1>11, PlaceFacts DEF ListDirectory, Over
    <2>2. UNCHANGED <<data, progress, table>> /\ ~Handling'
      BY <1>11 DEF ListDirectory
    <2> QED BY <1>3, <2>1, <2>2 DEF Before
  <1>12. ASSUME NEW f \in todo, OpenFile(f) PROVE ExecInv'
    <2>1. /\ pc = "file" /\ pc' = "read" /\ file' = f /\ todo' = todo \ {f} /\ offset' = Seek(f)
          /\ UNCHANGED <<data, progress, table>> /\ \A g \in todo : f <= g
      BY <1>12 DEF OpenFile, First
    <2>2. f \in Names /\ f \in Nat /\ f # None
      BY SMT DEF BaseInv, NamesInv, Names, None
    <2>3. \A g \in Names : \A i \in DOMAIN data[g] : Over(g)' => Executed(g, i)
      BY <1>1, <2>1 DEF Over, ExecInv
    <2>4. ASSUME NEW g \in Names, NEW i \in DOMAIN data[g], Before(g, i)' PROVE Settled(g, i)
      <3>1. g \in Nat /\ i \in Nat /\ 1 <= i
        BY PlaceFacts
      <3>2. CASE g < f
        <4>1. g \notin todo
          BY <2>1, <2>2, <3>1, <3>2, SMT
        <4>2. Over(g)
          BY <2>1, <3>2, <4>1 DEF Over
        <4> QED BY <1>1, <4>2 DEF ExecInv, Settled
      <3>3. CASE g = f /\ i <= Seek(f)
        <4>1. f = done.file /\ i <= done.offset
          <5>1. ~(i <= 0)
            BY <3>1, SMT
          <5> QED BY <3>3, <5>1 DEF Seek
        <4>2. progress.file # None
          <5>1. ~(i <= 0)
            BY <3>1, SMT
          <5> QED BY <1>1, <2>1, <4>1, <5>1 DEF BaseInv, ReadInv, Orderly
        <4>3. done = progress
          BY <1>1, <2>1, <4>2 DEF BaseInv, DoneInv, Orderly
        <4>4. Behind(g, i)
          BY <3>3, <4>1, <4>3 DEF Behind
        <4> QED BY <1>1, <4>4 DEF ExecInv, Settled, Orderly
      <3> QED BY <2>1, <2>4, <3>2, <3>3 DEF Before, Upto
    <2> QED BY <1>3, <2>1, <2>3, <2>4
  <1>13. CASE ReadSql
    <2>1. /\ pc = "read" /\ pc' = "update" /\ offset' = offset + 1
          /\ UNCHANGED <<data, progress, table, file, todo>>
      BY <1>13 DEF ReadSql
    <2>2. Upto = offset /\ Upto' = offset
      BY <2>1, SMT DEF BaseInv, NamesInv, Upto
    <2>3. \A f, i : (Before(f, i)' <=> Before(f, i)) /\ (Over(f)' <=> Over(f))
      BY <2>1, <2>2 DEF Before, Over
    <2> QED BY <1>1, <1>3, <2>1, <2>3 DEF ExecInv
  \* A file is archived, or its rename fails.
  <1>14. ASSUME NEW f \in Names, ArchiveFile(f), UNCHANGED <<progress, table>>, ~Handling',
                \A g \in Names : Over(g)' /\ g # f => Over(g),
                restarts = 0 => \A i \in DOMAIN data[f] : Executed(f, i)
         PROVE  ExecInv'
    <2>1. CASE Archive(f)
      <3>1. Shorter /\ data'[f] = <<>>
        BY <2>1, ArchiveShorter DEF BaseInv
      <3>2. \A g \in Names : \A i \in DOMAIN data'[g] : g # f
        BY <3>1, SMT
      <3>3. \A g \in Names : \A i \in DOMAIN data'[g] :
               /\ i \in DOMAIN data[g] /\ data'[g][i] = data[g][i]
               /\ Before(g, i)' => Settled(g, i)
               /\ Over(g)' => Executed(g, i)
        BY <1>1, <1>14, <3>1, <3>2 DEF Shorter, Before, ExecInv
      <3> QED BY <1>1, <1>14, <3>3, ExecQuiet
    <2>2. CASE faults' = faults + 1 /\ UNCHANGED data
      <3>1. restarts = 0
        BY <1>1, <1>2, <2>2
      <3>2. \A g \in Names : \A i \in DOMAIN data[g] : Over(g)' => Executed(g, i)
        BY <1>1, <1>14, <3>1 DEF ExecInv
      <3> QED BY <1>3, <1>14, <2>2, <3>2 DEF Before
    <2> QED BY <1>14, <2>1, <2>2 DEF ArchiveFile
  <1>15. ASSUME NEW f \in todo, SkipFile(f) PROVE ExecInv'
    <2>1. /\ pc = "file" /\ pc' = "file" /\ todo' = todo \ {f} /\ ArchiveFile(f)
          /\ UNCHANGED <<progress, table>> /\ done.file # None /\ f - done.file = -1
      BY <1>15 DEF SkipFile, FileHandled
    <2>2. f \in Names
      BY DEF BaseInv, NamesInv
    <2>3. progress.file # None
      BY <1>1, <2>1, <2>2 DEF BaseInv, ReadInv, Orderly, Distant
    <2>4. done = progress
      BY <1>1, <2>1, <2>3 DEF BaseInv, DoneInv, Orderly
    <2>5. f < progress.file
      <3>1. f \in Nat /\ progress.file \in Nat
        BY <2>2, SMT DEF BaseInv, NamesInv, Names
      <3>2. f - progress.file = -1
        BY <2>1, <2>4
      <3> QED BY <3>1, <3>2, SMT
    <2>6. restarts = 0 => \A i \in DOMAIN data[f] : Executed(f, i)
      BY <1>1, <2>2, <2>5 DEF Behind, ExecInv
    <2>7. \A g \in Names : Over(g)' /\ g # f => Over(g)
      BY <2>1 DEF Over
    <2> QED BY <1>14, <2>1, <2>2, <2>6, <2>7
  <1>16. CASE EndOfFile
    <2>1. /\ pc = "read" /\ pc' = "file" /\ todo' = todo /\ ArchiveFile(file)
          /\ UNCHANGED <<progress, table>> /\ offset >= Len(data[file])
      BY <1>16 DEF EndOfFile
    <2>2. PICK f \in Names : f = file
      BY <2>1 DEF BaseInv, NamesInv
    <2>3. restarts = 0 => \A i \in DOMAIN data[f] : Executed(f, i)
      <3> SUFFICES ASSUME restarts = 0, NEW i \in DOMAIN data[f]
                   PROVE  Executed(f, i)
        OBVIOUS
      <3>1. i <= Len(data[f]) /\ i \in Nat /\ Len(data[f]) \in Nat /\ offset \in Nat
        BY PlaceFacts DEF BaseInv, NamesInv
      <3>2. i <= offset
        BY <2>1, <2>2, <3>1, SMT
      <3>3. Before(f, i)
        BY <2>1, <2>2, <3>2 DEF Before, Upto
      <3> QED BY <1>1, <3>3 DEF ExecInv, Settled
    <2>4. \A g \in Names : Over(g)' /\ g # f => Over(g)
      BY <2>1, <2>2 DEF Over
    <2> QED BY <1>14, <2>1, <2>2, <2>3, <2>4
  <1>17. CASE UpdateOk
    <2>1. /\ pc = "update" /\ pc' = "progress" /\ Sql \notin Rejected
          /\ UNCHANGED <<data, progress, file, offset, todo>>
      BY <1>17 DEF UpdateOk
    <2>2. txn = <<>> /\ auto /\ batch = 1
      BY <1>1 DEF BaseInv, PlainInv, Orderly
    <2>3. table' = table \o Append(txn, Sql)
      BY <1>17, <2>2 DEF UpdateOk
    <2>4. table \in Seq(Nat) /\ Sql \in Nat
      BY <2>1, SqlFacts DEF BaseInv, TableInv, Below
    <2>5. \A t \in Seq(Nat), x \in Nat : t \o Append(<<>>, x) = Append(t, x)
      BY SMT
    <2>6. table' = Append(table, Sql)
      BY <2>2, <2>3, <2>4, <2>5
    <2> QED BY <1>1, <2>1, <2>6, ExecUpdate
  <1>18. CASE UpdateRefused
    <2>1. /\ pc = "update" /\ pc' = "read" /\ Sql \in Rejected
          /\ UNCHANGED <<data, progress, table, file, offset, todo>>
      BY <1>18 DEF UpdateRefused
    <2>2. file \in Names /\ offset \in DOMAIN data[file] /\ offset \in Nat
      BY <2>1, SqlFacts DEF BaseInv, NamesInv
    <2>3. \A f \in Names : \A i \in DOMAIN data[f] : Over(f)' => Executed(f, i)
      BY <1>1, <2>1 DEF Over, ExecInv
    <2>4. ASSUME NEW f \in Names, NEW i \in DOMAIN data[f], Before(f, i)' PROVE Settled(f, i)
      <3>1. CASE f = file /\ i = offset
        BY <2>1, <3>1 DEF Settled, Executed, Sql
      <3>2. CASE ~(f = file /\ i = offset)
        <4>1. i \in Nat
          BY PlaceFacts
        <4>2. f < file \/ (f = file /\ i <= offset)
          BY <2>1, <2>4 DEF Before, Upto
        <4>3. f < file \/ (f = file /\ i <= offset - 1)
          BY <2>2, <3>2, <4>1, <4>2, SMT
        <4>4. Before(f, i)
          BY <2>1, <4>3 DEF Before, Upto
        <4> QED BY <1>1, <4>4 DEF ExecInv
      <3> QED BY <3>1, <3>2
    <2> QED BY <1>3, <2>1, <2>3, <2>4
  <1>19. CASE UpdateLost
    <2>1. pc = "update" /\ UNCHANGED <<data, progress, pc, file, offset, todo>>
      BY <1>19 DEF UpdateLost
    <2>2. CASE table' = table
      BY <1>4, <2>1, <2>2
    <2>3. CASE Sql \notin Rejected /\ table' = Append(table, Sql)
      BY <1>1, <2>1, <2>3, ExecUpdate
    <2> QED BY <1>19, <2>2, <2>3 DEF UpdateLost
  <1>20. CASE UpdateGone \/ LoseConnection \/ ParentStart
    BY <1>4, <1>20 DEF UpdateGone, LoseConnection, ParentStart
  <1>21. CASE SaveProgress
    BY <1>1, <1>21, ExecSave
  <1>22. CASE ChildExit \/ ChildCrash
    BY <1>5, <1>22 DEF ChildExit, ChildCrash, ChildEnds
  <1>23. CASE ParentDown
    BY <1>4, <1>6, <1>23 DEF ParentDown
  <1>24. ~CommitLost /\ ~LeaveFile /\ ~PowerLoss
    <2>1. ~CommitLost
      <3>1. ~(1 > 1)
        BY SMT
      <3> QED BY <1>1, <3>1 DEF CommitLost, Orderly
    <2>2. ~LeaveFile
      <3>1. left = 0 /\ left' = 0
        BY <1>1 DEF Orderly
      <3> QED BY <1>2, <3>1 DEF LeaveFile
    <2>3. ~PowerLoss
      BY <1>1, <1>2 DEF PowerLoss, ParentEnds
    <2> QED BY <2>1, <2>2, <2>3
  <1>25. CASE UNCHANGED vars
    BY <1>4, <1>25 DEF vars
  <1> QED BY <1>7, <1>8, <1>9, <1>10, <1>11, <1>12, <1>13, <1>15, <1>16, <1>17, <1>18, <1>19, <1>20,
             <1>21, <1>22, <1>23, <1>24, <1>25 DEF Next, ChildStep

LEMMA NextBase == BaseInv /\ [Next]_vars => BaseInv'
  BY NextNames, NextDone, NextData, NextLog, NextTable, NextDir, NextTodo, NextOrder, NextPlain,
     NextRead, NextFresh, NextGone DEF BaseInv

\* InOrder, for any number of statements, files, faults and restarts: without batches,
\* and unless both db_proxy was restarted and something else failed, statements get into the
\* database in the order of write_log(), and only ones that are there already come again.
THEOREM InOrderHolds ==
    ASSUME Distant
    PROVE  Spec => []InOrder
  <1>1. Init => BaseInv /\ ExecInv
    BY InitNames, InitLog, InitTable, InitDir, InitPlaces, InitExec DEF BaseInv
  <1>2. BaseInv /\ ExecInv /\ [Next]_vars => (BaseInv /\ ExecInv)'
    <2>1. BaseInv /\ ExecInv /\ [Next]_vars /\ ~Orderly' => ExecInv'
      BY DEF ExecInv
    <2> QED BY <2>1, NextBase, NextExec
  <1>3. ExecInv => InOrder
    BY DEF ExecInv, InOrder, Orderly, Sorted
  <1> QED BY <1>1, <1>2, <1>3, PTL DEF Spec

-----------------------------------------------------------------------------
(* What is lost.                                                           *)

\* Some sql.progress that a loss of power may bring back, or the one that is there, counts
\* place i of file f as done.
Noted(f, i) == \E p \in stale : f < p.file \/ (f = p.file /\ i <= p.offset)

\* The statement there has been executed, and sql.progress does not say so yet.
Leaving(f, i) == pc = "progress" /\ f = file /\ i = offset

\* The child comes to the statement, whatever fails.
Waiting(s) ==
    \E f \in Names : \E i \in DOMAIN data[f] : data[f][i] = s /\ ~Noted(f, i) /\ ~Leaving(f, i)

\* Statements that have been executed, or will be if the transaction is committed.
Kept == Elements(table) \cup refused \cup Elements(txn)

\* Statements that may be lost: every one that is, and those that will be unless they are
\* executed once more.
Missed == {s \in acked : s \notin Kept /\ ~Waiting(s)}

\* What sql.progress can be.
StaleInv == progress \in stale /\ \A p \in stale : p.file <= lastName

\* What write_log() has returned true for.
AckInv ==
    /\ acked \subseteq 1..written
    /\ history \in [Names -> Seq(Nat)]
    /\ \A f \in Names : \A i \in DOMAIN data[f] : data[f][i] \in acked => i <= synced[f]

\* A transaction is smaller than a batch.
TxnInv ==
    /\ batch \in Nat /\ batch >= 1 /\ nbatch \in Nat
    /\ Len(txn) <= nbatch /\ Len(txn) <= batch - 1

LEMMA InitLoss == Init => StaleInv /\ AckInv /\ TxnInv
  <1> SUFFICES ASSUME Init
               PROVE  StaleInv /\ AckInv /\ TxnInv
    OBVIOUS
  <1>1. StaleInv
    BY SMT DEF Init, LoggerInit, ProcessInit, StaleInv, Position, None
  <1>2. AckInv
    BY SMT DEF Init, LoggerInit, AckInv
  <1>3. TxnInv
    BY ProcessAssumption, SMT DEF Init, ProcessInit, TxnInv
  <1> QED BY <1>1, <1>2, <1>3

LEMMA NextStale == BaseInv /\ StaleInv /\ [Next]_vars => StaleInv'
  <1> SUFFICES ASSUME BaseInv, StaleInv, [Next]_vars
               PROVE  StaleInv'
    OBVIOUS
  <1> USE DEF diskVars, writerVars, processVars
  <1>1. ASSUME UNCHANGED <<progress, stale, lastName>> PROVE StaleInv'
    BY <1>1 DEF StaleInv
  <1>2. ASSUME NEW end \in BOOLEAN, WriteSql(end), UNCHANGED processVars PROVE StaleInv'
    BY <1>1, <1>2 DEF WriteSql
  <1>3. ASSUME NEW n, ArchiveFile(n), UNCHANGED <<progress, stale>> PROVE StaleInv'
    BY <1>1, <1>3 DEF ArchiveFile, Archive
  <1>4. ASSUME NEW gap \in Gaps, Rotate(gap), UNCHANGED processVars PROVE StaleInv'
    <2>1. lastName \in Nat /\ lastName' \in Nat /\ lastName <= lastName'
      BY <1>4, RotateFacts DEF BaseInv, DirInv
    <2>2. stale' = stale /\ progress' = progress /\ \A p \in stale : p.file \in Nat
      BY <1>4 DEF BaseInv, NamesInv
    <2>3. \A a \in Nat : a <= lastName => a <= lastName'
      BY <2>1, SMT
    <2> QED BY <2>2, <2>3 DEF StaleInv
  <1>5. CASE (OpenLog \/ KeepLog \/ WriteLog) /\ UNCHANGED processVars
    BY <1>1, <1>2, <1>5 DEF OpenLog, KeepLog, WriteLog
  <1>6. CASE (OpenLogFailed \/ WriteLogFailed) /\ UNCHANGED processVars
    BY <1>1, <1>2, <1>6 DEF OpenLogFailed, WriteLogFailed
  <1>7. CASE EndOfFile \/ \E f \in todo : SkipFile(f)
    BY <1>3, <1>7 DEF EndOfFile, SkipFile
  <1>8. CASE ChildStart \/ ListDirectory \/ EndDirectory \/ ReadSql \/ UpdateOk \/ UpdateRefused
             \/ UpdateGone \/ UpdateLost \/ CommitLost \/ LeaveFile \/ LoseConnection \/ ChildExit
             \/ ChildCrash \/ ParentStart \/ \E f \in todo : OpenFile(f)
    BY <1>1, <1>8 DEF ChildStart, ListDirectory, EndDirectory, ReadSql, UpdateOk, UpdateRefused,
       UpdateGone, UpdateLost, CommitLost, LeaveFile, LoseConnection, ChildExit, ChildCrash,
       ParentStart, OpenFile
  <1>9. CASE SaveProgress
    <2>1. /\ pc = "progress" /\ progress' = Position(file, offset)
          /\ stale' = stale \cup {progress'} /\ lastName' = lastName
      BY <1>9 DEF SaveProgress
    <2>2. progress'.file = file
      BY <2>1, SMT DEF Position
    <2>3. file <= lastName
      BY <2>1 DEF BaseInv, TodoInv, DirInv, Handling
    <2> QED BY <2>1, <2>2, <2>3 DEF StaleInv
  <1>10. CASE ParentDown
    BY <1>1, <1>2, <1>10 DEF ParentDown
  <1>11. CASE PowerLoss
    BY <1>11 DEF PowerLoss, StaleInv
  <1>12. CASE UNCHANGED vars
    BY <1>1, <1>12 DEF vars
  <1> QED BY <1>4, <1>5, <1>6, <1>7, <1>8, <1>9, <1>10, <1>11, <1>12 DEF Next, ChildStep

LEMMA NextTxn == BaseInv /\ SessionInv /\ TxnInv /\ [Next]_vars => TxnInv'
  <1> SUFFICES ASSUME BaseInv, SessionInv, TxnInv, [Next]_vars
               PROVE  TxnInv'
    OBVIOUS
  <1> USE DEF diskVars, writerVars, processVars, dbVars
  <1>1. txn \in Seq(Nat) /\ Len(<<>>) = 0
    BY SMT DEF BaseInv, TableInv, Below
  <1>2. ASSUME UNCHANGED <<batch, nbatch, txn>> PROVE TxnInv'
    BY <1>2 DEF TxnInv
  <1>3. ASSUME batch' = batch, nbatch' \in Nat, txn' = <<>> PROVE TxnInv'
    BY <1>1, <1>3, SMT DEF TxnInv
  <1>4. CASE UNCHANGED processVars
    BY <1>2, <1>4
  <1>5. CASE ChildStart
    <2>1. txn = <<>>
      BY <1>5 DEF ChildStart, SessionInv
    <2> QED BY <1>3, <1>5, <2>1, SMT DEF ChildStart
  <1>6. CASE UpdateOk
    <2>1. pc = "update" /\ batch' = batch
      BY <1>6 DEF UpdateOk
    <2>2. Sql \in Nat
      BY <2>1, SqlFacts DEF BaseInv
    <2>3. Len(Append(txn, Sql)) = Len(txn) + 1 /\ Len(txn) \in Nat
      BY <1>1, <2>2, SMT
    <2>4. \/ nbatch' = 0 /\ txn' = <<>>
          \/ nbatch + 1 < batch /\ nbatch' = nbatch + 1 /\ txn' \in {txn, Append(txn, Sql)}
      BY <1>6 DEF UpdateOk, Committed
    <2>5. Len(txn') \in {0, Len(txn), Len(txn) + 1}
      BY <1>1, <2>3, <2>4
    <2>6. CASE nbatch' = 0 /\ txn' = <<>>
      BY <1>3, <2>1, <2>6, SMT
    <2>7. CASE nbatch + 1 < batch /\ nbatch' = nbatch + 1 /\ Len(txn') \in {Len(txn), Len(txn) + 1}
      BY <2>1, <2>3, <2>7, SMT DEF TxnInv
    <2> QED BY <2>3, <2>4, <2>6, <2>7
  <1>7. CASE UpdateLost \/ LoseConnection
    BY <1>3, <1>7 DEF UpdateLost, LoseConnection, TxnInv
  <1>8. CASE CommitLost
    BY <1>3, <1>8, SMT DEF CommitLost, TxnInv
  <1>9. CASE ChildExit \/ ChildCrash \/ PowerLoss
    BY <1>3, <1>9, SMT DEF ChildExit, ChildCrash, PowerLoss, ChildEnds
  <1>10. CASE ListDirectory \/ EndDirectory \/ ReadSql \/ EndOfFile \/ UpdateRefused \/ UpdateGone
              \/ SaveProgress \/ LeaveFile \/ \E f \in todo : SkipFile(f) \/ OpenFile(f)
    BY <1>2, <1>10 DEF ListDirectory, EndDirectory, ReadSql, EndOfFile, UpdateRefused, UpdateGone,
       SaveProgress, LeaveFile, SkipFile, OpenFile
  <1>11. CASE UNCHANGED vars
    BY <1>2, <1>11 DEF vars
  <1> QED BY <1>4, <1>5, <1>6, <1>7, <1>8, <1>9, <1>10, <1>11 DEF Next, ChildStep, ParentDown,
             ParentStart

LEMMA NextAck == Lines = 1 /\ BaseInv /\ AckInv /\ [Next]_vars => AckInv'
  <1> SUFFICES ASSUME Lines = 1, BaseInv, AckInv, [Next]_vars
               PROVE  AckInv'
    OBVIOUS
  <1> USE DEF diskVars, writerVars, processVars
  <1>1. ASSUME UNCHANGED <<data, synced, history, written, acked>> PROVE AckInv'
    BY <1>1 DEF AckInv
  <1>2. ASSUME NEW end \in BOOLEAN, WriteSql(end) PROVE AckInv'
    <2>1. written \in Nat /\ written' = written + 1 /\ fd \in Names
      BY <1>2, WriteFacts DEF BaseInv, DataInv
    <2>2. acked' \subseteq 1..written' /\ (acked' = acked \/ (end /\ acked' = acked \cup {written'}))
      BY <1>2, <2>1, SMT DEF WriteSql, AckInv
    <2>3. history' \in [Names -> Seq(Nat)]
      <3>1. history[fd] \in Seq(Nat) /\ written' \in Nat
        BY <2>1, SMT DEF AckInv
      <3>2. Append(history[fd], written') \in Seq(Nat)
        BY <3>1, SMT
      <3>3. history' = history \/ history' = [history EXCEPT ![fd] = Append(@, written')]
        BY <1>2 DEF WriteSql
      <3> QED BY <3>2, <3>3 DEF AckInv
    <2>4. ASSUME NEW f \in Names, NEW i \in DOMAIN data'[f], data'[f][i] \in acked'
          PROVE  i <= synced'[f]
      <3>1. CASE gone
        <4>1. data' = data /\ synced' = synced
          BY <1>2, <3>1 DEF WriteSql
        <4>2. data[f][i] <= written /\ data[f][i] \in Nat
          BY <2>4, <4>1, PlaceFacts
        <4>3. data[f][i] # written'
          BY <2>1, <4>2, SMT
        <4> QED BY <2>2, <2>4, <4>1, <4>3 DEF AckInv
      <3>2. CASE ~gone
        <4>1. synced' = IF end THEN [synced EXCEPT ![fd] = Len(data'[fd])] ELSE synced
          BY <1>2, <3>2 DEF WriteSql
        <4>2. synced \in [Names -> Nat]
          BY DEF BaseInv, LogInv
        <4>3. CASE i \in DOMAIN data[f] /\ data'[f][i] = data[f][i]
          <5>1. data[f][i] <= written /\ data[f][i] \in Nat /\ i <= Len(data[f]) /\ i \in Nat
                /\ Len(data[f]) \in Nat
            BY <4>3, PlaceFacts
          <5>2. data[f][i] # written'
            BY <2>1, <5>1, SMT
          <5>3. i <= synced[f]
            BY <2>2, <2>4, <4>3, <5>2 DEF AckInv
          <5>4. f = fd => Len(data'[f]) = Len(data[f]) + 1
            BY <1>2, <3>2, WriteFacts DEF BaseInv
          <5>5. f = fd => i <= Len(data'[f])
            BY <5>1, <5>4, SMT
          <5> QED BY <2>1, <4>1, <4>2, <5>3, <5>5
        <4>4. CASE f = fd /\ i = Len(data[fd]) + 1 /\ data'[f][i] = written'
          <5>1. end
            <6>1. written' \notin 1..written
              BY <2>1, SMT
            <6> QED BY <2>2, <2>4, <4>4, <6>1 DEF AckInv
          <5>2. synced'[f] = Len(data'[fd]) /\ Len(data'[fd]) = Len(data[fd]) + 1
            BY <1>2, <2>1, <3>2, <4>1, <4>2, <4>4, <5>1, WriteFacts DEF BaseInv
          <5>3. data[fd] \in Seq(Nat)
            BY <2>1 DEF BaseInv, DataInv
          <5>4. Len(data[fd]) + 1 <= Len(data[fd]) + 1
            BY <5>3, SMT
          <5> QED BY <4>4, <5>2, <5>4
        <4> QED BY <1>2, <3>2, <4>3, <4>4, WriteFacts DEF BaseInv
      <3> QED BY <3>1, <3>2
    <2> QED BY <2>2, <2>3, <2>4 DEF AckInv
  <1>3. ASSUME NEW n \in Names, ArchiveFile(n), UNCHANGED <<written, acked>> PROVE AckInv'
    <2>1. CASE Archive(n)
      <3>1. /\ \A f \in Names : f # n => data'[f] = data[f] /\ synced'[f] = synced[f]
            /\ data'[n] = <<>>
        BY <2>1 DEF Archive, BaseInv, DataInv, LogInv
      <3>2. data[n] \in Seq(Nat) /\ DOMAIN <<>> = {}
        BY SMT DEF BaseInv, DataInv
      <3>3. history' \in [Names -> Seq(Nat)]
        BY <2>1, <3>2 DEF Archive, AckInv
      <3> QED BY <1>3, <3>1, <3>2, <3>3 DEF AckInv
    <2>2. CASE UNCHANGED diskVars
      BY <1>1, <1>3, <2>2
    <2> QED BY <1>3, <2>1, <2>2 DEF ArchiveFile
  <1>4. ASSUME NEW gap \in Gaps, Rotate(gap) PROVE AckInv'
    <2>1. UNCHANGED <<data, history, written, acked>>
      BY <1>4 DEF Rotate
    <2>2. CASE synced' = synced
      BY <1>1, <2>1, <2>2
    <2>3. CASE fd # None /\ synced' = [synced EXCEPT ![fd] = Len(data[fd])]
      <3>1. fd \in Names /\ synced \in [Names -> Nat]
        BY <2>3 DEF BaseInv, LogInv
      <3>2. \A f \in Names : \A i \in DOMAIN data[f] : i <= Len(data[f])
        BY PlaceFacts
      <3>3. \A f \in Names : synced'[f] = IF f = fd THEN Len(data[f]) ELSE synced[f]
        BY <2>3, <3>1
      <3> QED BY <2>1, <3>2, <3>3 DEF AckInv
    <2> QED BY <1>4, <2>2, <2>3 DEF Rotate
  <1>5. CASE (OpenLog \/ KeepLog \/ WriteLog) /\ UNCHANGED processVars
    BY <1>1, <1>2, <1>5 DEF OpenLog, KeepLog, WriteLog
  <1>6. CASE (OpenLogFailed \/ WriteLogFailed) /\ UNCHANGED processVars
    BY <1>1, <1>2, <1>6 DEF OpenLogFailed, WriteLogFailed
  <1>7. ASSUME NEW f \in todo, SkipFile(f) PROVE AckInv'
    BY <1>3, <1>7 DEF SkipFile, BaseInv, NamesInv
  <1>8. CASE EndOfFile
    BY <1>3, <1>8 DEF EndOfFile, BaseInv, NamesInv, Handling
  <1>9. CASE ChildStart \/ ListDirectory \/ EndDirectory \/ ReadSql \/ UpdateOk \/ UpdateRefused
             \/ UpdateGone \/ UpdateLost \/ CommitLost \/ SaveProgress \/ LeaveFile
             \/ LoseConnection \/ ChildExit \/ ChildCrash \/ ParentStart
             \/ \E f \in todo : OpenFile(f)
    BY <1>1, <1>9 DEF ChildStart, ListDirectory, EndDirectory, ReadSql, UpdateOk, UpdateRefused,
       UpdateGone, UpdateLost, CommitLost, SaveProgress, LeaveFile, LoseConnection, ChildExit,
       ChildCrash, ParentStart, OpenFile
  <1>10. CASE ParentDown
    BY <1>1, <1>2, <1>10 DEF ParentDown
  <1>11. CASE PowerLoss
    <2>1. /\ Shorter
          /\ \A f \in Names \ dir : data'[f] = data[f]
          /\ \A f \in dir : Len(data'[f]) = synced'[f]
      BY <1>11, PowerShorter DEF BaseInv
    <2>2. ASSUME NEW f \in Names, NEW i \in DOMAIN data'[f] PROVE i <= synced'[f]
      <3>1. f \in dir
        BY <2>1, PlaceFacts DEF Shorter
      <3>2. data'[f] \in Seq(Nat)
        BY <2>1 DEF Shorter
      <3>3. i <= Len(data'[f])
        BY <3>2, SMT
      <3> QED BY <2>1, <3>1, <3>3
    <2> QED BY <1>11, <2>2 DEF PowerLoss, AckInv
  <1>12. CASE UNCHANGED vars
    BY <1>1, <1>12 DEF vars
  <1> QED BY <1>4, <1>5, <1>6, <1>7, <1>8, <1>9, <1>10, <1>11, <1>12 DEF Next, ChildStep

-----------------------------------------------------------------------------
(* What the child has come past.                                           *)

\* The child is past place i of file f: it was there, or is at work on a later file, or has
\* one in its listing.
Reached(f, i) ==
    \/ Handling /\ (f < file \/ (f = file /\ (i < offset \/ (i = offset /\ pc = "read"))))
    \/ Over(f)

\* What the child is past it has noted, or MySQL has refused it.
Passing(f, i) == Noted(f, i) \/ data[f][i] \in refused

PassInv ==
    left = 0 => \A f \in Names : \A i \in DOMAIN data[f] : Reached(f, i) => Passing(f, i)

\* _progress names a file only if sql.progress does.
LEMMA DoneIsProgress ==
    ASSUME Distant, BaseInv, left = 0, pc # "down", NEW f \in Names
    PROVE  /\ FileHandled(f) => f < progress.file
           /\ \A i \in Nat : 1 <= i /\ i <= Seek(f) => f = progress.file /\ i <= progress.offset
  <1>1. progress.file # None => done = progress
    BY DEF BaseInv, DoneInv
  <1>2. progress.file = None => done.file \in Garbage /\ done.offset = 0
    BY DEF BaseInv, ReadInv
  <1>3. f \in Nat /\ done.file \in Nat
    BY SMT DEF BaseInv, NamesInv, Names
  <1>4. FileHandled(f) => progress.file # None
    BY <1>2 DEF Distant, FileHandled
  <1>5. FileHandled(f) => f < done.file
    BY <1>3, SMT DEF FileHandled
  <1>6. \A i \in Nat : 1 <= i => ~(i <= 0)
    BY SMT
  <1> QED BY <1>1, <1>2, <1>4, <1>5, <1>6 DEF Seek

LEMMA NotedBehind ==
    ASSUME StaleInv, NEW f, NEW i, f < progress.file \/ (f = progress.file /\ i <= progress.offset)
    PROVE  Noted(f, i)
  BY DEF StaleInv, Noted

\* A statement is written behind all that the child has come to, or before where sql.progress
\* says it is.
LEMMA PassWrite ==
    ASSUME BaseInv, StaleInv, PassInv, left = 0, NEW end \in BOOLEAN, WriteSql(end),
           UNCHANGED processVars
    PROVE  PassInv'
  <1> USE DEF processVars, childVars, dbVars
  <1>1. UNCHANGED <<stale, refused, pc, file, offset, todo>>
    OBVIOUS
  <1>2. \A f, i : (Reached(f, i)' <=> Reached(f, i)) /\ (Noted(f, i)' <=> Noted(f, i))
    BY <1>1 DEF Reached, Over, Handling, Noted
  <1>3. ASSUME NEW f \in Names, NEW i \in DOMAIN data[f], i \in DOMAIN data'[f],
               data'[f][i] = data[f][i], Reached(f, i)'
        PROVE  Passing(f, i)'
    BY <1>1, <1>2, <1>3 DEF PassInv, Passing
  <1>4. ASSUME ~gone, Reached(fd, Len(data[fd]) + 1) PROVE Noted(fd, Len(data[fd]) + 1)
    <2>1. fd \in Names /\ fd \in dir /\ \A g \in dir : g <= fd
      BY <1>4, WriteFacts DEF BaseInv
    <2>2. fd \in Nat /\ \A g \in dir : g \in Nat
      BY <2>1, SMT DEF BaseInv, NamesInv, Names
    <2>3. \A g \in dir : ~(fd < g)
      BY <2>1, <2>2, SMT
    <2>4. ~Over(fd) /\ (Handling => ~(fd < file))
      BY <2>3 DEF Over, BaseInv, TodoInv
    <2>5. data[fd] \in Seq(Nat) /\ offset \in Nat
      BY <2>1 DEF BaseInv, DataInv, NamesInv
    <2>6. Len(data[fd]) \in Nat
      BY <2>5, SMT
    <2>7. Handling /\ fd = file /\ (Len(data[fd]) + 1 < offset
                                      \/ (Len(data[fd]) + 1 = offset /\ pc = "read"))
      BY <1>4, <2>4 DEF Reached
    <2>8. ~(offset <= Len(data[fd])) /\ Len(data[fd]) + 1 <= offset
      BY <2>5, <2>6, <2>7, SMT
    <2>9. file = progress.file /\ offset = progress.offset
      BY <2>7, <2>8 DEF BaseInv, ReadInv, Handling
    <2> QED BY <2>7, <2>8, <2>9, NotedBehind
  <1> SUFFICES ASSUME NEW f \in Names, NEW i \in DOMAIN data'[f], Reached(f, i)'
               PROVE  Passing(f, i)'
    BY DEF PassInv
  <1>5. CASE i \in DOMAIN data[f] /\ data'[f][i] = data[f][i]
    BY <1>3, <1>5
  <1>6. CASE ~gone /\ f = fd /\ i = Len(data[fd]) + 1
    BY <1>2, <1>4, <1>6 DEF Passing
  <1> QED BY <1>5, <1>6, WriteFacts DEF BaseInv

LEMMA InitPass == Init => PassInv
  <1>1. Init => \A f \in Names : data[f] = <<>>
    BY DEF Init, LoggerInit
  <1>2. DOMAIN <<>> = {}
    BY SMT
  <1> QED BY <1>1, <1>2 DEF PassInv

LEMMA NextPass ==
    ASSUME Distant, BaseInv, StaleInv, PassInv, [Next]_vars
    PROVE  PassInv'
  <1> SUFFICES ASSUME left' = 0
               PROVE  PassInv'
    BY DEF PassInv
  <1> USE DEF Handling, diskVars, writerVars, processVars, childVars, dbVars
  <1>1. left = 0 /\ ~LeaveFile
    <2>1. left \in Nat
      BY DEF BaseInv, NamesInv
    <2>2. left + 1 # 0
      BY <2>1, SMT
    <2> QED BY <2>2, CounterStep DEF LeaveFile
  <1>2. ASSUME UNCHANGED data, stale \subseteq stale', refused \subseteq refused',
               NEW f \in Names, NEW i \in DOMAIN data[f], Passing(f, i)
        PROVE  Passing(f, i)'
    BY <1>2 DEF Passing, Noted
  <1>3. ASSUME UNCHANGED <<data, stale, refused>>,
               \A f \in Names : \A i \in DOMAIN data[f] : Reached(f, i)' => Passing(f, i)
        PROVE  PassInv'
    BY <1>3 DEF PassInv, Passing, Noted
  <1>4. ASSUME UNCHANGED <<data, stale, refused, pc, file, offset, todo>> PROVE PassInv'
    BY <1>1, <1>3, <1>4 DEF Reached, Over, PassInv
  <1>5. ASSUME ~Handling', todo' = {} PROVE PassInv'
    BY <1>5 DEF PassInv, Reached, Over
  <1>6. ASSUME NEW end \in BOOLEAN, WriteSql(end), UNCHANGED processVars PROVE PassInv'
    BY <1>1, <1>6, PassWrite
  <1>7. ASSUME NEW gap \in Gaps, Rotate(gap), UNCHANGED processVars PROVE PassInv'
    BY <1>4, <1>7 DEF Rotate
  <1>8. CASE (OpenLog \/ KeepLog \/ WriteLog) /\ UNCHANGED processVars
    BY <1>4, <1>6, <1>8 DEF OpenLog, KeepLog, WriteLog
  <1>9. CASE (OpenLogFailed \/ WriteLogFailed) /\ UNCHANGED processVars
    BY <1>4, <1>6, <1>9 DEF OpenLogFailed, WriteLogFailed
  <1>10. CASE ChildStart \/ EndDirectory \/ ChildExit \/ ChildCrash \/ PowerLoss
    BY <1>5, <1>10 DEF ChildStart, EndDirectory, ChildExit, ChildCrash, PowerLoss, ChildEnds,
       BaseInv, TodoInv
  <1>11. CASE ListDirectory
    <2>1. \A f \in Names : \A i \in DOMAIN data[f] : ~Over(f)'
      BY <1>11, PlaceFacts DEF ListDirectory, Over
    <2>2. UNCHANGED <<data, stale, refused>> /\ ~Handling'
      BY <1>11 DEF ListDirectory
    <2> QED BY <1>3, <2>1, <2>2 DEF Reached
  <1>12. ASSUME NEW f \in todo, OpenFile(f) PROVE PassInv'
    <2>1. /\ pc = "file" /\ pc' = "read" /\ file' = f /\ todo' = todo \ {f} /\ offset' = Seek(f)
          /\ UNCHANGED <<data, stale, refused>> /\ \A g \in todo : f <= g
      BY <1>12 DEF OpenFile, First
    <2>2. f \in Names /\ f \in Nat
      BY SMT DEF BaseInv, NamesInv, Names
    <2>3. ASSUME NEW g \in Names, NEW i \in DOMAIN data[g], Reached(g, i)' PROVE Passing(g, i)
      <3>1. g \in Nat /\ i \in Nat /\ 1 <= i
        BY PlaceFacts
      <3>2. CASE g < f
        <4>1. g \notin todo
          BY <2>1, <2>2, <3>1, <3>2, SMT
        <4>2. Over(g)
          BY <2>1, <3>2, <4>1 DEF Over
        <4> QED BY <1>1, <4>2 DEF PassInv, Reached
      <3>3. CASE g = f /\ (i < Seek(f) \/ i = Seek(f))
        <4>1. done.offset \in Nat
          BY DEF BaseInv, NamesInv
        <4>2. i <= Seek(f)
          BY <3>1, <3>3, <4>1, SMT DEF Seek
        <4>3. f = progress.file /\ i <= progress.offset
          BY <1>1, <2>1, <2>2, <3>1, <4>2, DoneIsProgress
        <4> QED BY <3>3, <4>3, NotedBehind DEF Passing
      <3>4. CASE Over(g)'
        <4>1. Over(g)
          BY <2>1, <3>4 DEF Over
        <4> QED BY <1>1, <4>1 DEF PassInv, Reached
      <3> QED BY <2>1, <2>3, <3>2, <3>3, <3>4 DEF Reached
    <2> QED BY <1>3, <2>1, <2>3
  <1>13. ASSUME NEW f \in Names, ArchiveFile(f), UNCHANGED <<stale, refused>>, ~Handling',
                \A i \in DOMAIN data[f] : Over(f)' => Passing(f, i),
                \A g \in Names : Over(g)' /\ g # f => Over(g)
         PROVE  PassInv'
    <2>1. Shorter
      BY <1>13, ArchiveFileShorter DEF BaseInv
    <2>2. \A g \in Names : \A i \in DOMAIN data[g] : Over(g)' => Passing(g, i)
      BY <1>1, <1>13 DEF PassInv, Reached
    <2>3. \A g \in Names : \A i \in DOMAIN data'[g] : Passing(g, i) => Passing(g, i)'
      BY <1>13, <2>1 DEF Shorter, Passing, Noted
    <2> QED BY <1>13, <2>1, <2>2, <2>3 DEF PassInv, Reached, Shorter
  <1>14. ASSUME NEW f \in todo, SkipFile(f) PROVE PassInv'
    <2>1. /\ pc = "file" /\ ArchiveFile(f) /\ FileHandled(f) /\ todo' = todo \ {f}
          /\ UNCHANGED <<stale, refused, pc, file>>
      BY <1>14 DEF SkipFile
    <2>2. f \in Names
      BY DEF BaseInv, NamesInv
    <2>3. f < progress.file
      BY <1>1, <2>1, <2>2, DoneIsProgress
    <2>4. \A i : Passing(f, i)
      BY <2>3, NotedBehind DEF Passing
    <2>5. \A g \in Names : Over(g)' /\ g # f => Over(g)
      BY <2>1 DEF Over
    <2> QED BY <1>13, <2>1, <2>2, <2>4, <2>5
  <1>15. CASE EndOfFile
    <2>1. /\ pc = "read" /\ offset >= Len(data[file]) /\ ArchiveFile(file) /\ pc' = "file"
          /\ UNCHANGED <<stale, refused, todo>>
      BY <1>15 DEF EndOfFile
    <2>2. file \in Names /\ offset \in Nat
      BY <2>1 DEF BaseInv, NamesInv
    <2> PICK f \in Names : f = file
      BY <2>2
    <2>3. ASSUME NEW i \in DOMAIN data[f] PROVE Passing(f, i)
      <3>1. i <= Len(data[f]) /\ i \in Nat /\ Len(data[f]) \in Nat
        BY PlaceFacts
      <3>2. i < offset \/ i = offset
        BY <2>1, <2>2, <3>1, SMT
      <3> QED BY <1>1, <2>1, <3>2 DEF PassInv, Reached
    <2>4. \A g \in Names : Over(g)' /\ g # f => Over(g)
      BY <2>1 DEF Over
    <2>5. ArchiveFile(f) /\ ~Handling'
      BY <2>1
    <2> QED BY <1>13, <2>1, <2>3, <2>4, <2>5
  <1>16. CASE ReadSql
    <2>1. /\ pc = "read" /\ pc' = "update" /\ offset' = offset + 1
          /\ UNCHANGED <<data, stale, refused, file, todo>>
      BY <1>16 DEF ReadSql
    <2>2. ASSUME NEW f \in Names, NEW i \in DOMAIN data[f], Reached(f, i)' PROVE Reached(f, i)
      <3>1. i \in Nat /\ offset \in Nat
        BY PlaceFacts DEF BaseInv, NamesInv
      <3>2. i < offset + 1 => i < offset \/ i = offset
        BY <3>1, SMT
      <3>3. Over(f)' => Over(f)
        BY <2>1 DEF Over
      <3> QED BY <2>1, <2>2, <3>2, <3>3 DEF Reached
    <2> QED BY <1>1, <1>3, <2>1, <2>2 DEF PassInv
  <1>17. CASE UpdateOk
    <2>1. pc = "update" /\ pc' = "progress" /\ UNCHANGED <<data, stale, refused, file, offset, todo>>
      BY <1>17 DEF UpdateOk
    <2>2. \A f, i : Reached(f, i)' => Reached(f, i)
      BY <2>1 DEF Reached, Over
    <2> QED BY <1>1, <1>3, <2>1, <2>2 DEF PassInv
  <1>18. CASE UpdateRefused \/ SaveProgress
    <2>1. /\ pc \in {"update", "progress"} /\ pc' = "read" /\ UNCHANGED <<data, file, offset, todo>>
          /\ stale \subseteq stale' /\ refused \subseteq refused'
      BY <1>18 DEF UpdateRefused, SaveProgress
    <2>2. \A f, i : Reached(f, i)' => Reached(f, i) \/ (f = file /\ i = offset)
      BY <2>1 DEF Reached, Over
    <2>3. Passing(file, offset)'
      <3>1. CASE UpdateRefused
        BY <3>1 DEF UpdateRefused, Passing, Sql
      <3>2. CASE SaveProgress
        <4>1. progress' \in stale' /\ progress' = Position(file, offset) /\ UNCHANGED <<file, offset>>
          BY <3>2 DEF SaveProgress
        <4>2. progress'.file = file /\ progress'.offset = offset /\ offset <= offset
          <5>1. offset \in Nat
            BY DEF BaseInv, NamesInv
          <5> QED BY <4>1, <5>1, SMT DEF Position
        <4> QED BY <4>1, <4>2 DEF Passing, Noted
      <3> QED BY <1>18, <3>1, <3>2
    <2>4. \A f \in Names : \A i \in DOMAIN data[f] : Passing(f, i) => Passing(f, i)'
      BY <1>2, <2>1
    <2> QED BY <1>1, <2>1, <2>2, <2>3, <2>4 DEF PassInv
  <1>19. CASE UpdateGone \/ UpdateLost \/ CommitLost \/ LoseConnection \/ ParentStart
    BY <1>4, <1>19 DEF UpdateGone, UpdateLost, CommitLost, LoseConnection, ParentStart
  <1>20. CASE ParentDown
    BY <1>4, <1>6, <1>20 DEF ParentDown
  <1>21. CASE UNCHANGED vars
    BY <1>4, <1>21 DEF vars
  <1> QED BY <1>1, <1>7, <1>8, <1>9, <1>10, <1>11, <1>12, <1>14, <1>15, <1>16, <1>17, <1>18, <1>19,
             <1>20, <1>21 DEF Next, ChildStep

\* A descriptor whose file has been archived is not one of the log directory.
FdInv == (fd = None => ~gone) /\ (gone => fd \notin dir)

LEMMA NextFd == BaseInv /\ FdInv /\ [Next]_vars => FdInv'
  <1> SUFFICES ASSUME BaseInv, FdInv, [Next]_vars
               PROVE  FdInv'
    OBVIOUS
  <1> USE DEF diskVars, writerVars, processVars
  <1>1. ASSUME UNCHANGED <<fd, gone, dir>> PROVE FdInv'
    BY <1>1 DEF FdInv
  <1>2. ASSUME ~gone' PROVE FdInv'
    BY <1>2 DEF FdInv
  <1>3. ASSUME NEW n \in Names, ArchiveFile(n), UNCHANGED fd PROVE FdInv'
    <2>1. n # None
      BY SMT DEF Names, None
    <2> QED BY <1>1, <1>3, <2>1 DEF ArchiveFile, Archive, FdInv
  <1>4. CASE OpenLog
    BY <1>2, <1>4 DEF OpenLog, BaseInv, DirInv, FdInv
  <1>5. CASE PowerLoss \/ ParentDown \/ \E gap \in Gaps : Rotate(gap)
    BY <1>2, <1>5 DEF Rotate, ParentDown, PowerLoss, ParentEnds
  <1>6. CASE KeepLog \/ WriteLog \/ OpenLogFailed \/ WriteLogFailed
    BY <1>1, <1>6 DEF KeepLog, WriteLog, OpenLogFailed, WriteLogFailed, WriteSql
  <1>7. ASSUME NEW f \in todo, SkipFile(f) PROVE FdInv'
    BY <1>3, <1>7 DEF SkipFile, BaseInv, NamesInv
  <1>8. CASE EndOfFile
    BY <1>3, <1>8 DEF EndOfFile, BaseInv, NamesInv, Handling
  <1>9. CASE ChildStart \/ ListDirectory \/ EndDirectory \/ ReadSql \/ UpdateOk \/ UpdateRefused
             \/ UpdateGone \/ UpdateLost \/ CommitLost \/ SaveProgress \/ LeaveFile
             \/ LoseConnection \/ ChildExit \/ ChildCrash \/ ParentStart
             \/ \E f \in todo : OpenFile(f)
    BY <1>1, <1>9 DEF ChildStart, ListDirectory, EndDirectory, ReadSql, UpdateOk, UpdateRefused,
       UpdateGone, UpdateLost, CommitLost, SaveProgress, LeaveFile, LoseConnection, ChildExit,
       ChildCrash, ParentStart, OpenFile
  <1>10. CASE UNCHANGED vars
    BY <1>1, <1>10 DEF vars
  <1> QED BY <1>4, <1>5, <1>6, <1>7, <1>8, <1>9, <1>10 DEF Next, ChildStep

-----------------------------------------------------------------------------
(* How many statements may still be lost by writing them to the open file. *)

\* The next statement that is written to the file is lost: it has been archived, or
\* sql.progress is past its end.
Exposed == gone \/ \E p \in stale : fd < p.file \/ (fd = p.file /\ Len(data[fd]) < p.offset)

\* Statements that are still written to the open file.
Room ==
    IF Len(Open) < FileSize THEN FileSize - Len(Open) ELSE IF wpc = "write" THEN 1 ELSE 0

\* Those of them that may be lost. A file with a new name is safe, as the child does not
\* finish it before it is full.
Budget ==
    IF path = None THEN IF dir = {} THEN 0 ELSE FileSize
    ELSE IF wpc = "open"
    THEN IF path \in dir \/ (\E p \in stale : path <= p.file) THEN FileSize ELSE 0
    ELSE IF fd # None /\ (Exposed \/ Len(Open) >= FileSize) THEN Room ELSE 0

LEMMA RoomFacts ==
    ASSUME BaseInv, AckInv, fd # None
    PROVE  /\ fd \in Names /\ Len(Open) \in Nat /\ Room \in Nat /\ Room <= FileSize
           /\ path = fd /\ path # None /\ wpc # "open"
  <1>1. fd \in Names /\ path = fd /\ path # None /\ wpc # "open"
    BY DEF BaseInv, LogInv, DirInv
  <1>2. Open \in Seq(Nat)
    BY <1>1 DEF BaseInv, DataInv, AckInv, Open
  <1>3. Len(Open) \in Nat /\ FileSize \in Nat /\ FileSize >= 1
    BY <1>2, LoggerAssumption, SMT
  <1>4. Room \in Nat /\ Room <= FileSize
    BY <1>3, SMT DEF Room
  <1> QED BY <1>1, <1>3, <1>4

LEMMA BudgetNow == BaseInv /\ AckInv => Budget \in Nat /\ Budget <= FileSize /\ 0 <= Budget
  <1> SUFFICES ASSUME BaseInv, AckInv
               PROVE  Budget \in Nat /\ Budget <= FileSize /\ 0 <= Budget
    OBVIOUS
  <1>1. FileSize \in Nat /\ 0 <= FileSize /\ FileSize <= FileSize /\ 0 \in Nat
    BY LoggerAssumption, SMT
  <1>2. Budget \in Nat /\ Budget <= FileSize
    BY <1>1, RoomFacts DEF Budget
  <1> QED BY <1>2, SMT

LEMMA BudgetFacts ==
    ASSUME BaseInv, AckInv, BaseInv', AckInv'
    PROVE  /\ Budget \in Nat /\ Budget <= FileSize /\ 0 <= Budget
           /\ Budget' \in Nat /\ Budget' <= FileSize
  <1>1. (BaseInv /\ AckInv => Budget \in Nat /\ Budget <= FileSize /\ 0 <= Budget)'
    BY BudgetNow, PTL
  <1> QED BY <1>1, BudgetNow

LEMMA BudgetRotate ==
    ASSUME BaseInv, AckInv, AckInv', BaseInv', StaleInv, NEW gap \in Gaps, Rotate(gap),
           UNCHANGED stale
    PROVE  Budget' <= Budget
  <1>1. Budget \in Nat /\ Budget' \in Nat /\ Budget' <= FileSize /\ 0 <= Budget
    BY BudgetFacts
  <1>2. CASE path = None /\ dir # {}
    BY <1>1, <1>2 DEF Budget
  <1>3. CASE path # None \/ dir = {}
    <2>1. lastName < path' /\ wpc' = "open" /\ path' \in Names /\ dir' = dir
      BY <1>3, RotateFacts DEF BaseInv, Rotate
    <2>2. lastName \in Nat /\ path' \in Nat /\ path' # None
      BY <2>1, SMT DEF BaseInv, DirInv, Names, None
    <2>3. \A a \in Nat : a <= lastName => ~(path' <= a) /\ a # path'
      BY <2>1, <2>2, SMT
    <2>4. path' \notin dir
      BY <2>1, <2>2, <2>3 DEF BaseInv, DirInv
    <2>5. \A p \in stale : ~(path' <= p.file)
      <3>1. \A p \in stale : p.file \in Nat
        BY DEF BaseInv, NamesInv
      <3> QED BY <2>3, <3>1 DEF StaleInv
    <2>6. Budget' = 0
      BY <2>1, <2>2, <2>4, <2>5 DEF Budget
    <2> QED BY <1>1, <2>6
  <1> QED BY <1>2, <1>3

LEMMA BudgetOpen ==
    ASSUME BaseInv, AckInv, AckInv', BaseInv', FdInv, OpenLog, UNCHANGED stale
    PROVE  Budget' <= Budget
  <1>1. Budget \in Nat /\ Budget' \in Nat /\ Budget' <= FileSize /\ 0 <= Budget
    BY BudgetFacts
  <1>2. /\ wpc = "open" /\ wpc' = "write" /\ path # None /\ path \in Names /\ path' = path
        /\ fd' = path /\ ~gone /\ ~gone' /\ data' = data
    BY DEF OpenLog, BaseInv, DirInv, NamesInv, FdInv
  <1>3. CASE path \in dir \/ \E p \in stale : path <= p.file
    BY <1>1, <1>2, <1>3 DEF Budget
  <1>4. CASE path \notin dir /\ ~\E p \in stale : path <= p.file
    <2>1. data[path] = <<>>
      BY <1>2, <1>4 DEF BaseInv, DirInv
    <2>2. ~Exposed'
      <3>1. path \in Nat /\ \A p \in stale : p.file \in Nat
        BY <1>2, SMT DEF BaseInv, NamesInv, Names
      <3>2. \A a \in Nat : path < a \/ path = a => path <= a
        BY <3>1, SMT
      <3> QED BY <1>2, <1>4, <3>1, <3>2 DEF Exposed
    <2>3. ~(Len(Open') >= FileSize)
      <3>1. Open' = <<>>
        BY <1>2, <2>1 DEF Open
      <3>2. ~(Len(<<>>) >= FileSize)
        BY LoggerAssumption, SMT
      <3> QED BY <3>1, <3>2
    <2>4. Budget' = 0
      BY <1>2, <2>2, <2>3 DEF Budget
    <2> QED BY <1>1, <2>4
  <1> QED BY <1>3, <1>4

LEMMA BudgetKeep ==
    ASSUME BaseInv, AckInv, OpenLogFailed \/ KeepLog \/ (WriteLogFailed /\ UNCHANGED diskVars),
           UNCHANGED stale, AckInv', BaseInv'
    PROVE  Budget' <= Budget
  <1> USE DEF diskVars
  <1>1. Budget \in Nat /\ Budget' \in Nat /\ 0 <= Budget
    BY BudgetFacts
  <1>2. CASE OpenLogFailed
    <2>1. wpc' = "idle" /\ path' # None /\ fd' = None
      BY <1>2 DEF OpenLogFailed, BaseInv, DirInv
    <2>2. Budget' = 0
      BY <2>1 DEF Budget
    <2> QED BY <1>1, <2>2
  <1>3. CASE KeepLog \/ (WriteLogFailed /\ UNCHANGED diskVars)
    <2>1. /\ UNCHANGED <<path, fd, gone, dir, data, history, stale>> /\ wpc' \in {"idle", "write"}
          /\ wpc' = "write" => Len(Open) < FileSize \/ wpc = "write"
      <3>1. KeepLog => ~(Len(Open) >= FileSize) /\ fd # None
        BY DEF KeepLog, NeedRotate
      <3>2. KeepLog => Len(Open) < FileSize
        BY <3>1, RoomFacts, LoggerAssumption, SMT
      <3> QED BY <1>3, <3>2 DEF KeepLog, WriteLogFailed
    <2>2. fd # None
      <3>1. None \notin Names
        BY SMT DEF None, Names
      <3> QED BY <1>3, <3>1 DEF KeepLog, WriteLogFailed, BaseInv, LogInv
    <2>3. Open' = Open /\ (Exposed' <=> Exposed)
      BY <2>1 DEF Open, Exposed
    <2>4. Room' <= Room
      <3>1. Len(Open) \in Nat /\ FileSize \in Nat
        BY <2>2, RoomFacts, LoggerAssumption
      <3> QED BY <2>1, <2>3, <3>1, SMT DEF Room
    <2>5. CASE Exposed \/ Len(Open) >= FileSize
      BY <2>1, <2>2, <2>3, <2>4, <2>5, RoomFacts DEF Budget
    <2>6. CASE ~(Exposed \/ Len(Open) >= FileSize)
      <3>1. Budget' = 0
        BY <2>1, <2>2, <2>3, <2>6, RoomFacts DEF Budget
      <3> QED BY <1>1, <3>1
    <2> QED BY <2>5, <2>6
  <1> QED BY <1>2, <1>3

LEMMA BudgetWrite ==
    ASSUME BaseInv, AckInv, BaseInv', AckInv', NEW end \in BOOLEAN, WriteSql(end),
           wpc' = "idle", UNCHANGED <<path, fd, gone, stale>>
    PROVE  Budget' + (IF Exposed THEN 1 ELSE 0) <= Budget
  <1>1. fd \in Names /\ fd # None /\ wpc = "write" /\ written' \in Nat
    BY SMT DEF WriteSql, BaseInv, LogInv, DataInv, None, Names
  <1>2. Len(Open') = Len(Open) + 1 /\ Len(Open) \in Nat
    <2>1. Open \in Seq(Nat)
      BY <1>1 DEF BaseInv, DataInv, AckInv, Open
    <2>2. Open' = Append(Open, written')
      BY <1>1 DEF WriteSql, Open, BaseInv, DataInv, AckInv
    <2> QED BY <1>1, <2>1, <2>2, SMT
  <1>3. FileSize \in Nat /\ FileSize >= 1
    BY LoggerAssumption, SMT
  <1>4. Budget \in Nat /\ Budget' \in Nat
    BY BudgetFacts
  <1>5. CASE Exposed
    <2>1. Budget = Room
      BY <1>1, <1>5, RoomFacts DEF Budget
    <2>2. Room' + 1 <= Room /\ Room' \in Nat /\ Room \in Nat
      BY <1>1, <1>2, <1>3, SMT DEF Room
    <2>3. Budget' = Room' \/ Budget' = 0
      BY <1>1, RoomFacts DEF Budget
    <2>4. \A a, b, c \in Nat : a + 1 <= c /\ (b = a \/ b = 0) => b + 1 <= c
      BY SMT
    <2>5. Budget' + 1 <= Budget
      BY <1>4, <2>1, <2>2, <2>3, <2>4
    <2> QED BY <1>5, <2>5
  <1>6. CASE ~Exposed
    <2>1. ~gone /\ ~gone'
      BY <1>6 DEF Exposed
    <2>2. Len(data'[fd]) = Len(data[fd]) + 1 /\ Len(data[fd]) \in Nat
      BY <1>2, <2>1 DEF Open
    <2>3. ~Exposed'
      <3>1. \A p \in stale : p.file \in Nat /\ p.offset \in Nat
        BY DEF BaseInv, NamesInv
      <3>2. \A a \in Nat : Len(data[fd]) + 1 < a => Len(data[fd]) < a
        BY <2>2, SMT
      <3> QED BY <1>6, <2>1, <2>2, <3>1, <3>2 DEF Exposed
    <2>4. Budget' = 0
      <3>1. Len(Open') >= FileSize => Room' = 0
        BY <1>2, <1>3, SMT DEF Room
      <3> QED BY <1>1, <2>3, <3>1, RoomFacts DEF Budget
    <2> QED BY <1>4, <1>6, <2>4, SMT
  <1> QED BY <1>5, <1>6

LEMMA BudgetArchive ==
    ASSUME BaseInv, AckInv, FdInv, BaseInv', AckInv', NEW n \in dir, ArchiveFile(n),
           UNCHANGED <<path, wpc, fd, stale>>,
           n = fd => Exposed \/ Len(data[fd]) >= FileSize
    PROVE  Budget' <= Budget
  <1> USE DEF diskVars
  <1>1. Budget \in Nat /\ Budget' \in Nat /\ 0 <= Budget /\ \A b \in Nat : b <= b
    <2>1. \A b \in Nat : b <= b
      BY SMT
    <2> QED BY <2>1, BudgetFacts
  <1>2. CASE UNCHANGED <<dir, data, history, gone>>
    <2>1. Budget' = Budget
      BY <1>2 DEF Budget, Exposed, Room, Open
    <2> QED BY <1>1, <2>1
  <1>3. CASE Archive(n)
    <2>1. /\ dir' = dir \ {n} /\ (gone' <=> gone \/ fd = n) /\ n \in Names
          /\ \A f \in Names : f # n => data'[f] = data[f] /\ history'[f] = history[f]
          /\ history'[n] = data[n]
      BY <1>3 DEF Archive, BaseInv, NamesInv, DataInv, AckInv
    <2>2. CASE path = None
      <3>1. dir # {}
        OBVIOUS
      <3>2. Budget = FileSize /\ Budget' <= FileSize
        BY <2>2, <3>1, BudgetFacts DEF Budget
      <3> QED BY <3>2
    <2>3. CASE path # None /\ wpc = "open"
      <3>1. Budget' = 0 \/ (Budget' = FileSize /\ Budget = FileSize)
        BY <2>1, <2>3 DEF Budget
      <3> QED BY <1>1, <3>1
    <2>4. CASE path # None /\ wpc # "open" /\ fd = None
      <3>1. Budget' = 0
        BY <2>4 DEF Budget
      <3> QED BY <1>1, <3>1
    <2>5. CASE path # None /\ wpc # "open" /\ fd # None
      <3>1. fd \in Names
        BY <2>5, RoomFacts
      <3>2. Open' = Open
        BY <2>1, <3>1 DEF Open, FdInv
      <3>3. Room' = Room
        BY <3>2 DEF Room
      <3>4. Exposed' => Exposed \/ Len(Open) >= FileSize
        <4>1. CASE n = fd
          BY <2>1, <4>1 DEF Open, FdInv
        <4>2. CASE n # fd
          BY <2>1, <3>1, <4>2 DEF Exposed
        <4> QED BY <4>1, <4>2
      <3>5. Budget' = 0 \/ Budget' = Budget
        BY <2>5, <3>2, <3>3, <3>4 DEF Budget
      <3> QED BY <1>1, <3>5
    <2> QED BY <2>2, <2>3, <2>4, <2>5
  <1> QED BY <1>2, <1>3 DEF ArchiveFile

LEMMA BudgetSave ==
    ASSUME BaseInv, AckInv, BaseInv', AckInv', left = 0, SaveProgress
    PROVE  Budget' <= Budget
  <1> USE DEF diskVars, writerVars
  <1>1. Budget \in Nat /\ Budget' \in Nat /\ 0 <= Budget /\ \A b \in Nat : b <= b
    <2>1. \A b \in Nat : b <= b
      BY SMT
    <2> QED BY <2>1, BudgetFacts
  <1>2. /\ pc = "progress" /\ stale' = stale \cup {Position(file, offset)}
        /\ UNCHANGED <<dir, data, history, path, wpc, fd, gone>>
    BY DEF SaveProgress
  <1>3. Position(file, offset).file = file /\ Position(file, offset).offset = offset
    BY SMT DEF Position
  <1>4. file \in dir /\ file \in Nat /\ offset <= Len(data[file]) /\ offset \in Nat
    <2>1. file \in dir /\ file \in Names /\ offset \in Nat
      BY <1>2 DEF BaseInv, TodoInv, NamesInv, Handling
    <2>2. offset <= Len(data[file])
      BY <1>2 DEF BaseInv, ReadInv
    <2> QED BY <2>1, <2>2, SMT DEF Names
  <1>5. path # None => file <= path /\ path \in Nat
    BY <1>4, SMT DEF BaseInv, DirInv
  <1>6. CASE wpc = "open"
    <2>1. path <= file => path \in dir
      <3>1. path <= file /\ file <= path /\ path \in Nat => path = file
        BY <1>4, SMT
      <3> QED BY <1>4, <1>5, <1>6, <3>1 DEF BaseInv, DirInv
    <2>2. Budget' = 0 \/ Budget' = Budget
      BY <1>2, <1>3, <1>6, <2>1 DEF Budget
    <2> QED BY <1>1, <2>2
  <1>7. CASE fd # None
    <2>1. fd \in Names /\ path = fd /\ fd \in Nat
      BY <1>5, <1>7, RoomFacts
    <2>2. ~(fd < file)
      BY <1>4, <1>5, <1>7, <2>1, RoomFacts, SMT
    <2>3. ~(fd = file /\ Len(data[fd]) < offset)
      <3>1. data[fd] \in Seq(Nat)
        BY <2>1 DEF BaseInv, DataInv
      <3> QED BY <1>4, <3>1, SMT
    <2>4. Exposed' <=> Exposed
      BY <1>2, <1>3, <2>2, <2>3 DEF Exposed
    <2>5. Budget' = Budget
      BY <1>2, <1>7, <2>4, RoomFacts DEF Budget, Room, Open
    <2> QED BY <1>1, <2>5
  <1>8. CASE wpc # "open" /\ fd = None
    <2>1. Budget' = Budget
      BY <1>2, <1>8 DEF Budget
    <2> QED BY <1>1, <2>1
  <1> QED BY <1>6, <1>7, <1>8

-----------------------------------------------------------------------------
(* How Missed grows.                                                       *)

LEMMA ElementsFinite ==
    ASSUME NEW t \in Seq(Nat)
    PROVE  IsFiniteSet(Elements(t)) /\ Cardinality(Elements(t)) <= Len(t)
  <1>1. DOMAIN t = 1..Len(t) /\ Len(t) \in Nat /\ t \in [1..Len(t) -> Nat]
    BY SMT
  <1>2. IsFiniteSet(1..Len(t)) /\ Cardinality(1..Len(t)) = Len(t)
    <2>1. 1 \in Int /\ Len(t) \in Int
      BY <1>1, SMT
    <2>2. PICK c : c = Cardinality(1..Len(t))
      OBVIOUS
    <2>3. /\ IsFiniteSet(1..Len(t))
          /\ c = IF 1 > Len(t) THEN 0 ELSE Len(t) - 1 + 1
      BY <2>1, <2>2, FS_Interval
    <2>4. c = Len(t)
      <3>1. CASE 1 > Len(t)
        <4>1. c = 0
          BY <2>3, <3>1
        <4> QED BY <1>1, <3>1, <4>1, SMT
      <3>2. CASE ~(1 > Len(t))
        <4>1. c = Len(t) - 1 + 1
          BY <2>3, <3>2
        <4> QED BY <1>1, <4>1, SMT
      <3> QED BY <3>1, <3>2
    <2> QED BY <2>2, <2>3, <2>4
  <1>3. t \in Surjection(1..Len(t), Elements(t))
    BY <1>1 DEF Surjection, Elements
  <1>4. IsFiniteSet(Elements(t)) /\ Cardinality(Elements(t)) <= Cardinality(1..Len(t))
    BY <1>2, <1>3, FS_Surjection
  <1> QED BY <1>2, <1>4

LEMMA MissedFinite == BaseInv /\ AckInv => IsFiniteSet(Missed) /\ Cardinality(Missed) \in Nat
  <1> SUFFICES ASSUME BaseInv, AckInv
               PROVE  IsFiniteSet(Missed) /\ Cardinality(Missed) \in Nat
    OBVIOUS
  <1>1. 1 \in Int /\ written \in Int
    BY SMT DEF BaseInv, DataInv
  <1>2. IsFiniteSet(1..written)
    BY <1>1, FS_Interval
  <1>3. Missed \in SUBSET (1..written)
    BY DEF Missed, AckInv
  <1>4. IsFiniteSet(Missed)
    BY <1>2, <1>3, FS_Subset
  <1> QED BY <1>4, FS_CardinalityType

LEMMA MissedGrows ==
    ASSUME BaseInv, AckInv, BaseInv', AckInv', NEW E, IsFiniteSet(E),
           NEW m \in Nat, Cardinality(E) <= m, Missed' \subseteq Missed \cup E
    PROVE  Cardinality(Missed') <= Cardinality(Missed) + m
  <1>1. IsFiniteSet(Missed) /\ Cardinality(Missed) \in Nat
    BY MissedFinite
  <1>2. Cardinality(Missed \cap E) \in Nat /\ Cardinality(E) \in Nat
    BY <1>1, FS_Intersection, FS_CardinalityType
  <1>3. /\ IsFiniteSet(Missed \cup E)
        /\ Cardinality(Missed \cup E)
             = Cardinality(Missed) + Cardinality(E) - Cardinality(Missed \cap E)
    BY <1>1, FS_Union
  <1>4. IsFiniteSet(Missed') /\ Cardinality(Missed') <= Cardinality(Missed \cup E)
    BY <1>3, FS_Subset
  <1>5. Cardinality(Missed') \in Nat
    BY <1>4, FS_CardinalityType
  <1> QED BY <1>1, <1>2, <1>3, <1>4, <1>5, SMT

\* Only what is written to no avail, what is no longer in the transaction or the table, and
\* what the child passes is missed anew.
LEMMA MissedStep ==
    ASSUME NEW E,
           \A s \in acked' \ acked : s \in E \/ Waiting(s)',
           Kept \subseteq Kept' \cup E,
           \A f \in Names : \A i \in DOMAIN data[f] :
              data[f][i] \in acked /\ ~Noted(f, i) /\ ~Leaving(f, i)
              => \/ /\ i \in DOMAIN data'[f] /\ data'[f][i] = data[f][i]
                    /\ ~Noted(f, i)' /\ ~Leaving(f, i)'
                 \/ data[f][i] \in Kept'
    PROVE  Missed' \subseteq Missed \cup E
  <1> SUFFICES ASSUME NEW s, s \in Missed', s \notin E
               PROVE  s \in Missed
    OBVIOUS
  <1>1. s \in acked' /\ s \notin Kept' /\ ~Waiting(s)'
    BY DEF Missed
  <1>2. s \in acked
    BY <1>1
  <1>3. s \notin Kept
    BY <1>1
  <1>4. ~Waiting(s)
    <2> SUFFICES ASSUME NEW f \in Names, NEW i \in DOMAIN data[f], data[f][i] = s,
                        ~Noted(f, i), ~Leaving(f, i)
                 PROVE  FALSE
      BY DEF Waiting
    <2>1. /\ i \in DOMAIN data'[f] /\ data'[f][i] = data[f][i]
          /\ ~Noted(f, i)' /\ ~Leaving(f, i)'
      BY <1>1, <1>2
    <2> QED BY <1>1, <2>1 DEF Waiting
  <1> QED BY <1>2, <1>3, <1>4 DEF Missed

\* Nothing that is in the log, or whether it counts as done, changes.
LEMMA MissedKept ==
    ASSUME NEW E, UNCHANGED <<data, acked>>, stale' \subseteq stale,
           Kept \subseteq Kept' \cup E, \A f, i : Leaving(f, i)' => Leaving(f, i)
    PROVE  Missed' \subseteq Missed \cup E
  <1>1. \A f, i : Noted(f, i)' => Noted(f, i)
    BY DEF Noted
  <1>2. \A s : Waiting(s) => Waiting(s)'
    BY <1>1 DEF Waiting
  <1> QED BY <1>2 DEF Missed

LEMMA MissedWrite ==
    ASSUME BaseInv, NEW end \in BOOLEAN, WriteSql(end), UNCHANGED processVars, left = 0
    PROVE  Missed' \subseteq Missed \cup (IF end /\ Exposed THEN {written'} ELSE {})
  <1> DEFINE E == IF end /\ Exposed THEN {written'} ELSE {}
  <1> USE DEF processVars, childVars, dbVars
  <1>1. /\ Kept' = Kept /\ stale' = stale
        /\ \A f, i : (Noted(f, i)' <=> Noted(f, i)) /\ (Leaving(f, i)' <=> Leaving(f, i))
    BY DEF Kept, Noted, Leaving
  <1>2. acked' \subseteq acked \cup (IF end THEN {written'} ELSE {})
    BY DEF WriteSql
  <1>3. \A f \in Names : \A i \in DOMAIN data[f] : i \in DOMAIN data'[f] /\ data'[f][i] = data[f][i]
    BY WriteLonger DEF BaseInv, Longer
  <1> PICK w : w = written'
    OBVIOUS
  <1>4. ASSUME ~Exposed PROVE Waiting(w)'
    <2>1. ~gone
      BY <1>4 DEF Exposed
    <2>2. /\ fd \in Names /\ DOMAIN data'[fd] = DOMAIN data[fd] \cup {Len(data[fd]) + 1}
          /\ data'[fd][Len(data[fd]) + 1] = written'
      BY <2>1, WriteFacts DEF BaseInv
    <2>3. data[fd] \in Seq(Nat) /\ offset \in Nat
      BY <2>2 DEF BaseInv, DataInv, NamesInv
    <2>4. Len(data[fd]) \in Nat /\ \A a \in Nat : Len(data[fd]) + 1 <= a => Len(data[fd]) < a
      BY <2>3, SMT
    <2>5. \A p \in stale : p.file \in Nat /\ p.offset \in Nat
      BY DEF BaseInv, NamesInv
    <2>6. ~Noted(fd, Len(data[fd]) + 1)
      BY <1>4, <2>4, <2>5 DEF Exposed, Noted
    <2>7. ~Leaving(fd, Len(data[fd]) + 1)
      <3> SUFFICES ASSUME pc = "progress", fd = file, Len(data[fd]) + 1 = offset
                   PROVE  FALSE
        BY DEF Leaving
      <3>1. offset <= Len(data[file])
        BY DEF BaseInv, ReadInv
      <3> QED BY <2>3, <2>4, <3>1, SMT
    <2>8. Len(data[fd]) + 1 \in Nat
      BY <2>4, SMT
    <2> PICK h \in Names, m \in Nat : h = fd /\ m = Len(data[fd]) + 1
      BY <2>2, <2>8
    <2>9. m \in DOMAIN data'[h] /\ data'[h][m] = written' /\ ~Noted(h, m)' /\ ~Leaving(h, m)'
      BY <1>1, <2>2, <2>6, <2>7
    <2> QED BY <2>9 DEF Waiting
  <1>5. \A s \in acked' \ acked : s \in E \/ Waiting(s)'
    BY <1>2, <1>4
  <1> HIDE DEF E
  <1>6. Missed' \subseteq Missed \cup E
    BY <1>1, <1>3, <1>5, MissedStep
  <1> QED BY <1>6 DEF E

LEMMA MissedArchive ==
    ASSUME BaseInv, StaleInv, PassInv, left = 0, NEW n \in Names, ArchiveFile(n),
           UNCHANGED <<stale, acked, table, refused, txn>>, pc # "progress", pc' # "progress",
           \A i \in DOMAIN data[n] : Passing(n, i)
    PROVE  Missed' \subseteq Missed
  <1> USE DEF diskVars
  <1>1. Kept' = Kept /\ \A f, i : (Noted(f, i)' <=> Noted(f, i)) /\ ~Leaving(f, i)'
    BY DEF Kept, Noted, Leaving
  <1>2. \A f \in Names : f # n => data'[f] = data[f]
    BY DEF ArchiveFile, Archive, BaseInv, DataInv
  <1>3. \A i \in DOMAIN data[n] : Noted(n, i) \/ data[n][i] \in Kept
    BY DEF Passing, Kept
  <1> DEFINE E == {}
  <1>4. Missed' \subseteq Missed \cup E
    BY <1>1, <1>2, <1>3, MissedStep
  <1> QED BY <1>4

LEMMA MissedSave ==
    ASSUME BaseInv, PassInv, left = 0, SaveProgress
    PROVE  Missed' \subseteq Missed
  <1> USE DEF diskVars, writerVars, dbVars
  <1>1. /\ pc = "progress" /\ pc' = "read" /\ stale' = stale \cup {Position(file, offset)}
        /\ UNCHANGED <<data, acked, table, refused, txn>>
    BY DEF SaveProgress
  <1>2. Position(file, offset).file = file /\ Position(file, offset).offset = offset
    BY SMT DEF Position
  <1>3. Kept' = Kept /\ \A f, i : ~Leaving(f, i)'
    BY <1>1 DEF Kept, Leaving
  <1>4. ASSUME NEW f \in Names, NEW i \in DOMAIN data[f], ~Noted(f, i), ~Leaving(f, i), Noted(f, i)'
        PROVE  data[f][i] \in Kept
    <2>1. f < file \/ (f = file /\ i <= offset)
      BY <1>1, <1>2, <1>4 DEF Noted
    <2>2. i \in Nat /\ offset \in Nat
      BY PlaceFacts DEF BaseInv, NamesInv
    <2>3. f < file \/ (f = file /\ i < offset)
      <3>1. f = file => i # offset
        BY <1>1, <1>4 DEF Leaving
      <3>2. i <= offset /\ i # offset => i < offset
        BY <2>2, SMT
      <3> QED BY <2>1, <3>1, <3>2
    <2>4. Reached(f, i)
      BY <1>1, <2>3 DEF Reached, Handling
    <2> QED BY <1>4, <2>4 DEF PassInv, Passing, Kept
  <1> DEFINE E == {}
  <1>5. Missed' \subseteq Missed \cup E
    BY <1>1, <1>3, <1>4, MissedStep
  <1> QED BY <1>5

LEMMA MissedPower ==
    ASSUME BaseInv, AckInv, PowerLoss
    PROVE  Missed' \subseteq Missed \cup Elements(txn)
  <1>1. /\ UNCHANGED <<acked, table, refused>> /\ pc' = "down" /\ stale' \subseteq stale
    BY DEF PowerLoss, ChildEnds
  <1>2. \A f, i : (Noted(f, i)' => Noted(f, i)) /\ ~Leaving(f, i)'
    BY <1>1 DEF Noted, Leaving
  <1>3. Kept \subseteq Kept' \cup Elements(txn)
    BY <1>1 DEF Kept
  <1>4. ASSUME NEW f \in Names, NEW i \in DOMAIN data[f], data[f][i] \in acked
        PROVE  i \in DOMAIN data'[f] /\ data'[f][i] = data[f][i]
    <2>1. f \in dir /\ i \in Nat /\ 1 <= i
      BY PlaceFacts
    <2>2. /\ Shorter /\ Len(data'[f]) = synced'[f] /\ synced[f] <= synced'[f]
          /\ synced' \in [Names -> Nat]
      BY <2>1, PowerShorter DEF BaseInv
    <2>3. i <= synced[f] /\ synced[f] \in Nat
      BY <1>4 DEF AckInv, BaseInv, LogInv
    <2>4. data'[f] \in Seq(Nat) /\ synced'[f] \in Nat
      BY <2>2 DEF Shorter
    <2>5. i \in DOMAIN data'[f]
      BY <2>1, <2>2, <2>3, <2>4, SMT
    <2> QED BY <2>2, <2>5 DEF Shorter
  <1>5. acked' \ acked = {}
    BY <1>1
  <1> DEFINE E == Elements(txn)
  <1> HIDE DEF E
  <1>6. Missed' \subseteq Missed \cup E
    BY <1>2, <1>3, <1>4, <1>5, MissedStep DEF E
  <1> QED BY <1>6 DEF E

\* The transaction is committed, or grows, or is gone.
LEMMA KeptUpdate ==
    ASSUME BaseInv, UpdateOk \/ UpdateLost \/ CommitLost
    PROVE  /\ Kept \subseteq Kept' \cup Elements(txn)
           /\ UpdateOk => Kept \cup {Sql} \subseteq Kept'
  <1>1. pc = "update" /\ UNCHANGED refused
    BY DEF UpdateOk, UpdateLost, CommitLost
  <1>2. Sql \in Nat /\ table \in Seq(Nat) /\ txn \in Seq(Nat) /\ Append(txn, Sql) \in Seq(Nat)
    <2>1. Sql \in Nat /\ table \in Seq(Nat) /\ txn \in Seq(Nat)
      BY <1>1, SqlFacts DEF BaseInv, TableInv, Below
    <2> QED BY <2>1, SMT
  <1>3. ASSUME NEW s \in Seq(Nat), NEW t \in Seq(Nat)
        PROVE  Elements(s \o t) = Elements(s) \cup Elements(t)
    <2>1. ASSUME NEW x \in Elements(s \o t) PROVE x \in Elements(s) \cup Elements(t)
      <3>1. PICK i \in DOMAIN (s \o t) : x = (s \o t)[i]
        BY DEF Elements
      <3>2. \/ i \in DOMAIN s /\ (s \o t)[i] = s[i]
            \/ i - Len(s) \in DOMAIN t /\ (s \o t)[i] = t[i - Len(s)]
        BY SMT
      <3> QED BY <3>1, <3>2 DEF Elements
    <2>2. \A i \in DOMAIN s : i \in DOMAIN (s \o t) /\ (s \o t)[i] = s[i]
      BY SMT
    <2>3. \A i \in DOMAIN t : i + Len(s) \in DOMAIN (s \o t) /\ (s \o t)[i + Len(s)] = t[i]
      BY SMT
    <2>4. ASSUME NEW x \in Elements(s) \cup Elements(t) PROVE x \in Elements(s \o t)
      <3>1. CASE x \in Elements(s)
        BY <2>2, <3>1 DEF Elements
      <3>2. CASE x \in Elements(t)
        BY <2>3, <3>2 DEF Elements
      <3> QED BY <3>1, <3>2
    <2> QED BY <2>1, <2>4
  <1>4. Elements(Append(txn, Sql)) = Elements(txn) \cup {Sql}
    BY <1>2, ElementsAppend
  <1>5. Elements(table \o Append(txn, Sql)) = Elements(table) \cup Elements(txn) \cup {Sql}
    <2>1. Elements(table \o Append(txn, Sql)) = Elements(table) \cup Elements(Append(txn, Sql))
      BY <1>2, <1>3
    <2> QED BY <1>4, <2>1
  <1>6. Elements(Append(table, Sql)) = Elements(table) \cup {Sql}
    BY <1>2, ElementsAppend
  <1>7. Elements(table) \subseteq Elements(table')
    BY <1>5, <1>6, UpdateTable
  <1>8. UpdateOk => Elements(table) \cup Elements(txn) \cup {Sql}
                    \subseteq Elements(table') \cup Elements(txn')
    <2>1. UpdateOk => \/ txn' = Append(txn, Sql) /\ table' = table
                      \/ table' = table \o Append(txn, Sql)
      BY DEF UpdateOk
    <2> QED BY <1>4, <1>5, <2>1
  <1> QED BY <1>1, <1>7, <1>8 DEF Kept

-----------------------------------------------------------------------------
(* What may be lost is bounded.                                            *)

\* Faults and stops of db_proxy that have cost a transaction.
Spent == faults + restarts - Noticed

Allow == (batch - 1) * Spent + FileSize * restarts

LossInv == left = 0 => Cardinality(Missed) + Budget <= Allow

LossBase ==
    BaseInv /\ SessionInv /\ StaleInv /\ AckInv /\ TxnInv /\ FdInv /\ PassInv

LEMMA AllowGrows ==
    ASSUME BaseInv, BaseInv', TxnInv, batch' = batch, Spent' >= Spent,
           restarts' \in {restarts, restarts + 1}
    PROVE  /\ Allow \in Int /\ Allow' \in Int /\ Allow' >= Allow /\ batch - 1 \in Nat
           /\ Spent' >= Spent + 1 => Allow' >= Allow + (batch - 1)
           /\ restarts' = restarts + 1 => Allow' >= Allow + FileSize
           /\ Spent' >= Spent + 1 /\ restarts' = restarts + 1
              => Allow' >= Allow + (batch - 1) + FileSize
  <1>1. batch - 1 \in Nat /\ restarts \in Nat /\ restarts' \in Nat /\ FileSize \in Nat
    BY LoggerAssumption, SMT DEF TxnInv, BaseInv, TableInv
  <1>2. Spent \in Int /\ Spent' \in Int
    <2>1. \A a, b \in Nat : a + b - 0 \in Int /\ a + b - 1 \in Int
      BY SMT
    <2>2. faults \in Nat /\ restarts \in Nat /\ faults' \in Nat /\ restarts' \in Nat
      BY DEF BaseInv, TableInv
    <2>3. Noticed \in {0, 1} /\ Noticed' \in {0, 1}
      BY DEF Noticed
    <2> QED BY <2>1, <2>2, <2>3 DEF Spent
  <1>3. ASSUME NEW c \in Nat, NEW x \in Int, NEW y \in Int
        PROVE  /\ c * x \in Int /\ c * y \in Int /\ (y >= x => c * y >= c * x)
               /\ y >= x + 1 => c * y >= c * x + c
    <2>1. \A d, e \in Nat : d * e \in Nat
      BY SMT
    <2>2. ASSUME y >= x PROVE c * y >= c * x
      <3>1. y - x \in Nat
        BY <2>2, SMT
      <3>2. c * (y - x) \in Nat
        BY <2>1, <3>1
      <3>3. c * (y - x) = c * y - c * x
        BY SMT
      <3> QED BY <3>2, <3>3, SMT
    <2>3. ASSUME y >= x + 1 PROVE c * y >= c * x + c
      <3>1. y - x - 1 \in Nat
        BY <2>3, SMT
      <3>2. c * (y - x - 1) \in Nat
        BY <2>1, <3>1
      <3>3. c * (y - x - 1) = c * y - c * x - c
        BY SMT
      <3> QED BY <3>2, <3>3, SMT
    <2> QED BY <2>2, <2>3, SMT
  <1>4. PICK u, v, w, z : /\ u = (batch - 1) * Spent /\ v = (batch - 1) * Spent'
                          /\ w = FileSize * restarts /\ z = FileSize * restarts'
    OBVIOUS
  <1>5. u \in Int /\ v \in Int /\ v >= u /\ (Spent' >= Spent + 1 => v >= u + (batch - 1))
    BY <1>1, <1>2, <1>3, <1>4
  <1>6. w \in Int /\ z \in Int /\ z >= w /\ (restarts' = restarts + 1 => z >= w + FileSize)
    <2>1. restarts \in Int /\ restarts' \in Int /\ restarts' >= restarts
          /\ (restarts' = restarts + 1 => restarts' >= restarts + 1)
      BY <1>1, SMT
    <2> QED BY <1>1, <1>3, <1>4, <2>1
  <1>7. Allow = u + w /\ Allow' = v + z
    BY <1>4 DEF Allow
  <1> QED BY <1>1, <1>5, <1>6, <1>7, SMT

\* What is missed anew is paid for by what is added to the bound, or was reckoned with.
LEMMA LossStep ==
    ASSUME LossBase, LossBase', LossInv, left = 0, NEW E, IsFiniteSet(E), NEW m \in Nat,
           Cardinality(E) <= m, Missed' \subseteq Missed \cup E, NEW g \in Nat,
           Budget' + m <= Budget + g, Allow \in Int, Allow' \in Int, Allow' >= Allow + g
    PROVE  LossInv'
  <1>1. Budget \in Nat /\ Budget' \in Nat
    BY BudgetFacts DEF LossBase
  <1>2. Cardinality(Missed) \in Nat
    BY MissedFinite DEF LossBase
  <1>3. Cardinality(Missed') \in Nat
    <2>1. (BaseInv /\ AckInv => IsFiniteSet(Missed) /\ Cardinality(Missed) \in Nat)'
      BY MissedFinite, PTL
    <2> QED BY <2>1 DEF LossBase
  <1>4. Cardinality(Missed') <= Cardinality(Missed) + m
    BY MissedGrows DEF LossBase
  <1>5. Cardinality(Missed) + Budget <= Allow
    BY DEF LossInv
  <1>6. \A a, b, c, d \in Nat, x, y \in Int :
           a <= b + m /\ c + m <= d + g /\ b + d <= x /\ y >= x + g => a + c <= y
    BY SMT
  <1>7. Cardinality(Missed') + Budget' <= Allow'
    BY <1>1, <1>2, <1>3, <1>4, <1>5, <1>6
  <1> QED BY <1>7 DEF LossInv

LEMMA TxnFinite ==
    ASSUME LossBase
    PROVE  IsFiniteSet(Elements(txn)) /\ Cardinality(Elements(txn)) <= batch - 1 /\ batch - 1 \in Nat
  <1>1. txn \in Seq(Nat) /\ Len(txn) <= batch - 1 /\ batch \in Nat /\ batch >= 1
    BY DEF LossBase, BaseInv, TableInv, Below, TxnInv
  <1>2. IsFiniteSet(Elements(txn)) /\ Cardinality(Elements(txn)) <= Len(txn)
    BY <1>1, ElementsFinite
  <1>3. Cardinality(Elements(txn)) \in Nat
    BY <1>2, FS_CardinalityType
  <1>4. Len(txn) \in Nat /\ batch - 1 \in Nat
    BY <1>1, SMT
  <1>5. \A a, b, c \in Nat : a <= b /\ b <= c => a <= c
    BY SMT
  <1> QED BY <1>1, <1>2, <1>3, <1>4, <1>5

\* A step of the child at the end of which nothing more is missed.
LEMMA LossQuiet ==
    ASSUME LossBase, LossBase', LossInv, left = 0, Missed' \subseteq Missed, Budget' <= Budget,
           Allow \in Int, Allow' \in Int, Allow' >= Allow
    PROVE  LossInv'
  <1> DEFINE E == {}
  <1>1. IsFiniteSet(E) /\ Cardinality(E) = 0
    BY FS_EmptySet
  <1>2. 0 \in Nat /\ 0 <= 0 /\ Allow' >= Allow + 0
    BY SMT
  <1>3. Budget' + 0 <= Budget + 0
    <2>1. Budget \in Nat /\ Budget' \in Nat
      BY BudgetFacts DEF LossBase
    <2>2. \A a, b \in Nat : a <= b => a + 0 <= b + 0
      BY SMT
    <2> QED BY <2>1, <2>2
  <1>4. Cardinality(E) <= 0 /\ Missed' \subseteq Missed \cup E
    BY <1>1, <1>2
  <1> HIDE DEF E
  <1> QED BY <1>1, <1>2, <1>3, <1>4, LossStep

\* A step with which the transaction may be lost.
LEMMA LossTxn ==
    ASSUME LossBase, LossBase', LossInv, left = 0, Missed' \subseteq Missed \cup Elements(txn),
           NEW d \in Nat, Budget' <= Budget + d, Allow \in Int, Allow' \in Int,
           Allow' >= Allow + (batch - 1) + d
    PROVE  LossInv'
  <1>1. IsFiniteSet(Elements(txn)) /\ Cardinality(Elements(txn)) <= batch - 1 /\ batch - 1 \in Nat
    BY TxnFinite
  <1>2. Budget \in Nat /\ Budget' \in Nat
    BY BudgetFacts DEF LossBase
  <1>3. \A a, b, m \in Nat : a <= b + d => a + m <= b + (m + d)
    BY SMT
  <1>4. Budget' + (batch - 1) <= Budget + ((batch - 1) + d)
    BY <1>1, <1>2, <1>3
  <1>5. (batch - 1) + d \in Nat /\ Allow' >= Allow + ((batch - 1) + d)
    BY <1>1, SMT
  <1> QED BY <1>1, <1>4, <1>5, LossStep

LEMMA InitLossInv == Init => FdInv /\ LossInv
  <1> SUFFICES ASSUME Init
               PROVE  FdInv /\ LossInv
    OBVIOUS
  <1>1. /\ acked = {} /\ path = None /\ dir = {} /\ faults = 0 /\ restarts = 0 /\ up /\ ~gone
        /\ batch \in Batches
    BY DEF Init, LoggerInit, ProcessInit
  <1>2. Missed = {} /\ Budget = 0 /\ Noticed = 0
    BY <1>1 DEF Missed, Budget, Noticed
  <1>3. Cardinality({}) = 0
    BY FS_EmptySet
  <1>4. batch \in Nat /\ FileSize \in Nat
    BY <1>1, LoggerAssumption, ProcessAssumption
  <1>5. \A b, c \in Nat : 0 + 0 <= (b - 1) * (0 + 0 - 0) + c * 0
    BY SMT
  <1>6. Cardinality(Missed) + Budget <= Allow
    BY <1>1, <1>2, <1>3, <1>4, <1>5 DEF Allow, Spent
  <1> QED BY <1>1, <1>6 DEF FdInv, LossInv

LEMMA NextLoss ==
    ASSUME Distant, LossBase, LossBase', LossInv, [Next]_vars, left' = 0
    PROVE  LossInv'
  <1> USE DEF diskVars, writerVars, processVars, childVars, dbVars
  <1>1. left = 0 /\ ~LeaveFile
    <2>1. left \in Nat
      BY DEF LossBase, BaseInv, NamesInv
    <2>2. left + 1 # 0
      BY <2>1, SMT
    <2> QED BY <2>2, CounterStep DEF LeaveFile
  <1>2. /\ batch' = batch /\ restarts' \in {restarts, restarts + 1}
        /\ faults \in Nat /\ restarts \in Nat /\ faults' \in {faults, faults + 1}
    BY CounterStep DEF LossBase, BaseInv, TableInv
  <1>3. ASSUME Spent' >= Spent
        PROVE  /\ Allow \in Int /\ Allow' \in Int /\ Allow' >= Allow /\ batch - 1 \in Nat
               /\ Spent' >= Spent + 1 => Allow' >= Allow + (batch - 1)
               /\ restarts' = restarts + 1 => Allow' >= Allow + FileSize
               /\ Spent' >= Spent + 1 /\ restarts' = restarts + 1
                  => Allow' >= Allow + (batch - 1) + FileSize
    BY <1>2, <1>3, AllowGrows DEF LossBase
  <1>4. Noticed \in {0, 1} /\ Noticed' \in {0, 1}
    BY DEF Noticed
  \* Whether db_proxy and the child run does not change.
  <1>5. ASSUME restarts' = restarts, Noticed' = Noticed
        PROVE  Spent' >= Spent /\ (faults' = faults + 1 => Spent' >= Spent + 1)
    <2>1. \A x, z, r, n \in Nat : z \in {x, x + 1} =>
             z + r - n >= x + r - n /\ (z = x + 1 => z + r - n >= x + r - n + 1)
      BY SMT
    <2>2. Noticed \in Nat /\ faults' \in Nat
      BY <1>2, <1>4, SMT
    <2> QED BY <1>2, <1>5, <2>1, <2>2 DEF Spent
  <1>6. ASSUME restarts' = restarts, Noticed' = Noticed, Missed' \subseteq Missed, Budget' <= Budget
        PROVE  LossInv'
    BY <1>1, <1>3, <1>5, <1>6, LossQuiet
  <1>7. ASSUME UNCHANGED <<path, dir, wpc, fd, gone, data, history, stale>>
        PROVE  Budget' = Budget /\ Budget' <= Budget
    <2>1. Budget' = Budget
      BY <1>7 DEF Budget, Exposed, Room, Open
    <2>2. Budget \in Nat /\ Budget' \in Nat
      BY BudgetFacts DEF LossBase
    <2> QED BY <2>1, <2>2, SMT
  \* Nothing in the log or in the database changes.
  <1>8. ASSUME UNCHANGED <<data, acked, stale, table, refused, txn>>,
               \A f, i : Leaving(f, i)' => Leaving(f, i)
        PROVE  Missed' \subseteq Missed
    <2>1. Kept' = Kept
      BY <1>8 DEF Kept
    <2> DEFINE E == {}
    <2>2. Missed' \subseteq Missed \cup E
      BY <1>8, <2>1, MissedKept
    <2> QED BY <2>2
  <1>9. UNCHANGED <<pc, file, offset>> \/ pc' # "progress" => \A f, i : Leaving(f, i)' => Leaving(f, i)
    BY DEF Leaving
  <1>10. ASSUME \/ up' = up /\ (pc' = pc \/ (pc # "down" /\ pc' # "down"))
                \/ up /\ up'
                \/ pc = "down" /\ pc' = "down"
         PROVE  Noticed' = Noticed
    <2>1. CASE up' = up /\ (pc' = pc \/ (pc # "down" /\ pc' # "down"))
      BY <2>1, SMT DEF Noticed
    <2>2. CASE (up /\ up') \/ (pc = "down" /\ pc' = "down")
      BY <2>2 DEF Noticed
    <2> QED BY <1>10, <2>1, <2>2
  <1>11. ASSUME NEW gap \in Gaps, Rotate(gap), UNCHANGED processVars PROVE LossInv'
    <2>1. Budget' <= Budget
      BY <1>11, BudgetRotate DEF LossBase
    <2> QED BY <1>6, <1>8, <1>9, <1>10, <1>11, <2>1 DEF Rotate
  <1>12. CASE (OpenLog \/ KeepLog \/ OpenLogFailed) /\ UNCHANGED processVars
    <2>1. Budget' <= Budget
      <3>1. UNCHANGED stale /\ BaseInv /\ BaseInv' /\ AckInv /\ AckInv' /\ FdInv
        BY <1>12 DEF LossBase
      <3>2. CASE OpenLog
        BY <3>1, <3>2, BudgetOpen
      <3>3. CASE KeepLog \/ OpenLogFailed
        BY <3>1, <3>3, BudgetKeep
      <3> QED BY <1>12, <3>2, <3>3
    <2> QED BY <1>6, <1>8, <1>9, <1>10, <1>12, <2>1 DEF OpenLog, KeepLog, OpenLogFailed
  <1>13. ASSUME NEW end \in BOOLEAN, WriteSql(end), wpc' = "idle",
                UNCHANGED <<up, path, fd, gone, restarts>>, UNCHANGED processVars
         PROVE  LossInv'
    <2> DEFINE E == IF end /\ Exposed THEN {written'} ELSE {}
               m == IF Exposed THEN 1 ELSE 0
    <2>1. Missed' \subseteq Missed \cup E
      BY <1>1, <1>13, MissedWrite DEF LossBase
    <2>2. Budget' + m <= Budget
      BY <1>13, BudgetWrite DEF LossBase
    <2>3. m \in Nat /\ IsFiniteSet(E) /\ Cardinality(E) <= m
      <3>1. \A x : IsFiniteSet({x}) /\ Cardinality({x}) = 1
        BY FS_Singleton
      <3>2. IsFiniteSet({}) /\ Cardinality({}) = 0
        BY FS_EmptySet
      <3>3. 0 \in Nat /\ 1 \in Nat /\ 0 <= 0 /\ 0 <= 1 /\ 1 <= 1
        BY SMT
      <3> QED BY <3>1, <3>2, <3>3
    <2> HIDE DEF E, m
    <2>4. Spent' >= Spent
      BY <1>5, <1>10, <1>13
    <2>5. Budget \in Nat /\ Budget' \in Nat /\ 0 \in Nat
      BY BudgetFacts DEF LossBase
    <2>6. Budget' + m <= Budget + 0
      BY <2>2, <2>5, SMT
    <2>7. Allow \in Int /\ Allow' \in Int /\ Allow' >= Allow + 0
      <3>1. Allow \in Int /\ Allow' \in Int /\ Allow' >= Allow
        BY <1>3, <2>4
      <3> QED BY <3>1, SMT
    <2> QED BY <1>1, <2>1, <2>3, <2>5, <2>6, <2>7, LossStep
  <1>14. CASE (WriteLog \/ WriteLogFailed) /\ UNCHANGED processVars
    <2>1. CASE WriteLogFailed /\ UNCHANGED <<diskVars, acked>>
      <3>1. Budget' <= Budget
        BY <1>14, <2>1, BudgetKeep DEF LossBase
      <3> QED BY <1>6, <1>8, <1>9, <1>10, <1>14, <2>1, <3>1 DEF WriteLogFailed
    <2> QED BY <1>13, <1>14, <2>1 DEF WriteLog, WriteLogFailed
  <1>15. CASE ChildStart \/ ListDirectory \/ EndDirectory \/ ReadSql \/ UpdateGone \/ ParentStart
              \/ \E f \in todo : OpenFile(f)
    <2>1. /\ UNCHANGED <<data, acked, stale, table, refused, txn>>
          /\ UNCHANGED <<path, dir, wpc, fd, gone, history, restarts>>
      BY <1>15 DEF ChildStart, ListDirectory, EndDirectory, ReadSql, UpdateGone, ParentStart, OpenFile
    <2>2. UNCHANGED <<pc, file, offset>> \/ pc' # "progress"
      BY <1>15 DEF ChildStart, ListDirectory, EndDirectory, ReadSql, UpdateGone, ParentStart, OpenFile
    <2>3. Noticed' = Noticed
      <3>1. CASE ChildStart
        BY <1>10, <3>1 DEF ChildStart
      <3>2. CASE ParentStart
        BY <1>10, <3>2 DEF ParentStart
      <3>3. CASE ListDirectory \/ EndDirectory \/ ReadSql \/ UpdateGone \/ \E f \in todo : OpenFile(f)
        <4>1. up' = up /\ pc # "down" /\ pc' # "down"
          BY <3>3 DEF ListDirectory, EndDirectory, ReadSql, UpdateGone, OpenFile
        <4> QED BY <1>10, <4>1
      <3> QED BY <1>15, <3>1, <3>2, <3>3
    <2> QED BY <1>6, <1>7, <1>8, <1>9, <2>1, <2>2, <2>3
  <1>16. ASSUME NEW n \in dir, ArchiveFile(n), pc \in {"file", "read"}, pc' = "file",
                UNCHANGED <<stale, acked, table, refused, txn, path, wpc, fd, up, restarts>>,
                n = fd => Exposed \/ Len(data[fd]) >= FileSize,
                \A i \in DOMAIN data[n] : Passing(n, i)
         PROVE  LossInv'
    <2>1. n \in Names
      BY DEF LossBase, BaseInv, NamesInv
    <2>2. Budget' <= Budget
      BY <1>16, BudgetArchive DEF LossBase
    <2>3. Missed' \subseteq Missed
      BY <1>1, <1>16, <2>1, MissedArchive DEF LossBase
    <2>4. Noticed' = Noticed
      BY <1>16 DEF Noticed
    <2> QED BY <1>6, <1>16, <2>2, <2>3, <2>4
  <1>17. ASSUME NEW f \in todo, SkipFile(f) PROVE LossInv'
    <2>1. f \in dir /\ f \in Names
      BY DEF LossBase, BaseInv, TodoInv, NamesInv
    <2>2. /\ pc = "file" /\ ArchiveFile(f) /\ FileHandled(f) /\ pc' = "file"
          /\ UNCHANGED <<stale, acked, table, refused, txn, path, wpc, fd, up, restarts>>
      BY <1>17 DEF SkipFile
    <2>3. f < progress.file
      BY <1>1, <2>1, <2>2, DoneIsProgress DEF LossBase
    <2>4. \A i : Passing(f, i)
      BY <2>3, NotedBehind DEF Passing, LossBase
    <2>5. f = fd => Exposed
      BY <2>3 DEF LossBase, StaleInv, Exposed
    <2> QED BY <1>16, <2>1, <2>2, <2>4, <2>5
  <1>18. CASE EndOfFile
    <2>1. /\ pc = "read" /\ ArchiveFile(file) /\ pc' = "file" /\ offset >= Len(data[file])
          /\ offset >= FileSize
          /\ UNCHANGED <<stale, acked, table, refused, txn, path, wpc, fd, up, restarts>>
      BY <1>18 DEF EndOfFile, IsOver
    <2>2. file \in dir /\ file \in Names /\ offset \in Nat
      BY <2>1 DEF LossBase, BaseInv, TodoInv, NamesInv, Handling
    <2> PICK f \in dir : f = file
      BY <2>2
    <2>3. ASSUME NEW i \in DOMAIN data[f] PROVE Passing(f, i)
      <3>1. i <= Len(data[f]) /\ i \in Nat /\ Len(data[f]) \in Nat
        BY <2>2, PlaceFacts DEF LossBase
      <3>2. i < offset \/ i = offset
        BY <2>1, <2>2, <3>1, SMT
      <3> QED BY <1>1, <2>1, <2>2, <3>2 DEF LossBase, PassInv, Reached, Handling
    <2>4. f = fd => Exposed \/ Len(data[fd]) >= FileSize
      <3>1. data[f] \in Seq(Nat) /\ FileSize \in Nat
        BY <2>2, LoggerAssumption DEF LossBase, BaseInv, DataInv
      <3>2. Len(data[f]) \in Nat /\ (offset <= Len(data[f]) => Len(data[f]) >= FileSize)
            /\ (~(offset <= Len(data[f])) => Len(data[f]) < offset)
        BY <2>1, <2>2, <3>1, SMT
      <3>3. ~(offset <= Len(data[f])) => f = progress.file /\ offset = progress.offset
        BY <1>1, <2>1 DEF LossBase, BaseInv, ReadInv
      <3> QED BY <3>2, <3>3 DEF LossBase, StaleInv, Exposed
    <2>5. ArchiveFile(f)
      BY <2>1
    <2> QED BY <1>16, <2>1, <2>3, <2>4, <2>5
  <1>19. CASE UpdateOk
    <2>1. /\ pc = "update" /\ UNCHANGED <<data, acked, stale, file, offset, up, restarts>>
          /\ UNCHANGED <<path, dir, wpc, fd, gone, history>> /\ pc' = "progress"
      BY <1>19 DEF UpdateOk
    <2>2. Kept \cup {Sql} \subseteq Kept'
      BY <1>19, KeptUpdate DEF LossBase
    <2>3. \A f, i : (Noted(f, i)' <=> Noted(f, i)) /\ (Leaving(f, i)' <=> f = file /\ i = offset)
      BY <2>1 DEF Noted, Leaving
    <2>4. data[file][offset] \in Kept'
      BY <2>2 DEF Sql
    <2> DEFINE E == {}
    <2>5. Missed' \subseteq Missed \cup E
      BY <2>1, <2>2, <2>3, <2>4, MissedStep
    <2>6. Noticed' = Noticed
      BY <2>1 DEF Noticed
    <2>7. Missed' \subseteq Missed
      BY <2>5
    <2> QED BY <1>6, <1>7, <2>1, <2>6, <2>7
  <1>20. CASE UpdateRefused
    <2>1. /\ pc = "update" /\ pc' = "read" /\ UNCHANGED <<data, acked, stale, up, restarts>>
          /\ UNCHANGED <<path, dir, wpc, fd, gone, history>>
      BY <1>20 DEF UpdateRefused
    <2>2. Kept \subseteq Kept'
      BY <1>20 DEF UpdateRefused, Kept
    <2> DEFINE E == {}
    <2>3. Missed' \subseteq Missed \cup E
      BY <1>9, <2>1, <2>2, MissedKept
    <2>4. Noticed' = Noticed
      BY <2>1 DEF Noticed
    <2>5. Missed' \subseteq Missed
      BY <2>3
    <2> QED BY <1>6, <1>7, <2>1, <2>4, <2>5
  <1>21. CASE SaveProgress
    <2>1. Missed' \subseteq Missed
      BY <1>1, <1>21, MissedSave DEF LossBase
    <2>2. Budget' <= Budget
      BY <1>1, <1>21, BudgetSave DEF LossBase
    <2>3. Noticed' = Noticed /\ restarts' = restarts
      BY <1>21 DEF SaveProgress, Noticed
    <2> QED BY <1>6, <2>1, <2>2, <2>3
  \* The transaction is lost.
  <1>22. ASSUME UNCHANGED <<data, acked, stale, path, dir, wpc, fd, gone, history, restarts>>,
                Kept \subseteq Kept' \cup Elements(txn),
                UNCHANGED <<pc, file, offset>> \/ pc' # "progress", Spent' >= Spent + 1
         PROVE  LossInv'
    <2>1. Missed' \subseteq Missed \cup Elements(txn)
      <3> DEFINE E == Elements(txn)
      <3> HIDE DEF E
      <3>1. Missed' \subseteq Missed \cup E
        BY <1>9, <1>22, MissedKept DEF E
      <3> QED BY <3>1 DEF E
    <2>2. Spent \in Int /\ Spent' \in Int
      BY <1>2, <1>4, SMT DEF Spent
    <2>3. Spent' >= Spent
      BY <1>22, <2>2, SMT
    <2>4. Allow \in Int /\ Allow' \in Int /\ Allow' >= Allow + (batch - 1) /\ batch - 1 \in Nat
      BY <1>3, <1>22, <2>3
    <2>5. 0 \in Nat /\ Allow' >= Allow + (batch - 1) + 0
      BY <2>4, SMT
    <2>6. Budget' <= Budget + 0
      <3>1. Budget \in Nat /\ Budget' = Budget
        BY <1>7, <1>22, BudgetFacts DEF LossBase
      <3> QED BY <3>1, SMT
    <2> QED BY <1>1, <2>1, <2>4, <2>5, <2>6, LossTxn
  <1>23. CASE UpdateLost \/ CommitLost \/ LoseConnection
    <2>1. /\ UNCHANGED <<data, acked, stale, path, dir, wpc, fd, gone, history, restarts, up>>
          /\ UNCHANGED <<pc, file, offset>> /\ faults' = faults + 1
      BY <1>23 DEF UpdateLost, CommitLost, LoseConnection
    <2>2. Kept \subseteq Kept' \cup Elements(txn)
      <3>1. CASE UpdateLost \/ CommitLost
        BY <3>1, KeptUpdate DEF LossBase
      <3>2. CASE LoseConnection
        BY <3>2 DEF LoseConnection, Kept
      <3> QED BY <1>23, <3>1, <3>2
    <2>3. Spent' >= Spent + 1
      BY <1>5, <1>10, <2>1
    <2> QED BY <1>22, <2>1, <2>2, <2>3
  <1>24. CASE ChildExit \/ ChildCrash
    <2>1. /\ UNCHANGED <<data, acked, stale, path, dir, wpc, fd, gone, history, restarts>>
          /\ pc # "down" /\ pc' = "down" /\ UNCHANGED <<table, refused>>
      BY <1>24 DEF ChildExit, ChildCrash, ChildEnds
    <2>2. Kept \subseteq Kept' \cup Elements(txn)
      BY <2>1 DEF Kept
    <2>3. Noticed' = 0 /\ (ChildExit => Noticed = 1)
      BY <2>1 DEF Noticed, ChildExit
    <2>4. faults' = faults + 1 \/ (faults' = faults /\ Noticed = 1)
      BY <1>24, <2>3 DEF ChildExit, ChildCrash
    <2>5. Spent' >= Spent + 1
      <3>1. \A x, r, n \in Nat : n \in {0, 1} =>
               x + 1 + r - 0 >= x + r - n + 1 /\ x + r - 0 >= x + r - 1 + 1
        BY SMT
      <3>2. Noticed \in Nat
        BY <1>4, SMT
      <3> QED BY <1>2, <1>4, <2>1, <2>3, <2>4, <3>1, <3>2 DEF Spent
    <2> QED BY <1>22, <2>1, <2>2, <2>5
  <1>25. CASE ParentDown
    <2>1. /\ up /\ restarts' = restarts + 1 /\ faults' = faults /\ path' = None
          /\ UNCHANGED processVars
      BY <1>25 DEF ParentDown, ParentEnds
    <2>2. Missed' \subseteq Missed
      <3>1. CASE WriteSql(FALSE)
        <4> DEFINE F == FALSE
                   E == IF F /\ Exposed THEN {written'} ELSE {}
        <4>1. Missed' \subseteq Missed \cup E
          BY <1>1, <2>1, <3>1, MissedWrite DEF LossBase
        <4> QED BY <4>1
      <3>2. CASE UNCHANGED <<diskVars, acked>>
        BY <1>8, <1>9, <2>1, <3>2
      <3> QED BY <1>25, <3>1, <3>2 DEF ParentDown
    <2>3. Noticed = 0
      BY <2>1 DEF Noticed
    <2>4. Spent' >= Spent
      <3>1. \A x, r, n \in Nat : n \in {0, 1} => x + (r + 1) - n >= x + r - 0
        BY SMT
      <3>2. Noticed' \in Nat
        BY <1>4, SMT
      <3> QED BY <1>2, <1>4, <2>1, <2>3, <3>1, <3>2 DEF Spent
    <2>5. Allow \in Int /\ Allow' \in Int /\ Allow' >= Allow + FileSize
      BY <1>3, <2>1, <2>4
    <2>6. Budget \in Nat /\ Budget' \in Nat /\ Budget' <= FileSize /\ FileSize \in Nat
      BY BudgetFacts, LoggerAssumption DEF LossBase
    <2>7. Budget' + 0 <= Budget + FileSize /\ 0 \in Nat /\ 0 <= 0
      <3>1. \A a, b, c \in Nat : a <= c => a + 0 <= b + c
        BY SMT
      <3>2. 0 \in Nat /\ 0 <= 0
        BY SMT
      <3> QED BY <2>6, <3>1, <3>2
    <2> DEFINE E == {}
    <2>8. IsFiniteSet(E) /\ Cardinality(E) <= 0 /\ Missed' \subseteq Missed \cup E
      BY <2>2, <2>7, FS_EmptySet
    <2> HIDE DEF E
    <2> QED BY <1>1, <2>5, <2>6, <2>7, <2>8, LossStep
  <1>26. CASE PowerLoss
    <2>1. /\ up /\ restarts' = restarts + 1 /\ faults' = faults + 1 /\ pc' = "down"
      BY <1>26 DEF PowerLoss, ParentEnds, ChildEnds
    <2>2. Noticed = 0 /\ Noticed' = 0
      BY <2>1 DEF Noticed
    <2>3. Spent' >= Spent /\ Spent' >= Spent + 1
      BY <1>2, <2>1, <2>2, SMT DEF Spent
    <2>4. Allow \in Int /\ Allow' \in Int /\ Allow' >= Allow + (batch - 1) + FileSize
      BY <1>3, <2>1, <2>3
    <2>5. FileSize \in Nat /\ Budget' <= Budget + FileSize
      <3>1. Budget \in Nat /\ Budget' \in Nat /\ Budget' <= FileSize /\ FileSize \in Nat
        BY BudgetFacts, LoggerAssumption DEF LossBase
      <3> QED BY <3>1, SMT
    <2>6. Missed' \subseteq Missed \cup Elements(txn)
      BY <1>26, MissedPower DEF LossBase
    <2> QED BY <1>1, <2>4, <2>5, <2>6, LossTxn
  <1>27. CASE UNCHANGED vars
    BY <1>6, <1>7, <1>8, <1>9, <1>10, <1>27 DEF vars
  <1> QED BY <1>1, <1>11, <1>12, <1>14, <1>15, <1>17, <1>18, <1>19, <1>20, <1>21, <1>23, <1>24,
             <1>25, <1>26, <1>27 DEF Next, ChildStep

LEMMA LostMissed ==
    ASSUME LossBase
    PROVE  Lost \subseteq Missed
  <1> SUFFICES ASSUME NEW s \in Lost, Waiting(s)
               PROVE  FALSE
    BY DEF Lost, Missed, Kept
  <1> PICK f \in Names : \E i \in DOMAIN data[f] : data[f][i] = s /\ ~Noted(f, i)
    BY DEF Waiting
  <1>1. PICK i \in DOMAIN data[f] : data[f][i] = s /\ ~Noted(f, i)
    OBVIOUS
  <1>2. f \in dir /\ f \in Nat /\ i \in Nat
    BY PlaceFacts DEF LossBase
  <1>3. ~(f < progress.file) /\ ~(f = progress.file /\ i <= progress.offset)
    BY <1>1, NotedBehind DEF LossBase
  <1>4. progress.file \in Nat /\ progress.offset \in Nat
    BY DEF LossBase, BaseInv, NamesInv
  <1>5. f >= progress.file /\ (f > progress.file \/ i > progress.offset)
    BY <1>2, <1>3, <1>4, SMT
  <1>6. s \in Ahead
    <2> DEFINE J == {j \in DOMAIN data[f] : f > progress.file \/ j > progress.offset}
    <2>1. s \in {data[f][j] : j \in J}
      BY <1>1, <1>5
    <2> QED BY <1>2, <1>5, <2>1 DEF Ahead
  <1> QED BY <1>6 DEF Lost

\* LossBounded, for any number of statements, files, faults and restarts and any batch: if
\* every statement is synced, and handle_file has not given up on a file, a fault costs one
\* transaction at most, and a restart one transaction and what fits into one file.
THEOREM LossBoundedHolds ==
    ASSUME Distant, Lines = 1
    PROVE  Spec => [](left = 0 => LossBounded)
  <1>1. Init => LossBase /\ LossInv
    BY InitNames, InitLog, InitTable, InitDir, InitPlaces, InitLoss, InitPass, InitLossInv
       DEF LossBase, BaseInv, Init, ProcessInit, SessionInv
  <1>2. LossBase /\ LossInv /\ [Next]_vars => (LossBase /\ LossInv)'
    <2> SUFFICES ASSUME LossBase, LossInv, [Next]_vars
                 PROVE  (LossBase /\ LossInv)'
      OBVIOUS
    <2>1. LossBase'
      BY NextBase, NextSession, NextStale, NextAck, NextTxn, NextFd, NextPass DEF LossBase
    <2>2. LossInv'
      BY <2>1, NextLoss DEF LossInv
    <2> QED BY <2>1, <2>2
  <1>3. LossBase /\ LossInv => (left = 0 => LossBounded)
    <2> SUFFICES ASSUME LossBase, LossInv, left = 0
                 PROVE  LossBounded
      OBVIOUS
    <2>1. IsFiniteSet(Missed) /\ Cardinality(Missed) \in Nat
      BY MissedFinite DEF LossBase
    <2>2. IsFiniteSet(Lost) /\ Cardinality(Lost) <= Cardinality(Missed)
      BY <2>1, LostMissed, FS_Subset
    <2>3. Cardinality(Lost) \in Nat
      BY <2>2, FS_CardinalityType
    <2>4. Budget \in Nat
      BY BudgetNow DEF LossBase
    <2>5. Cardinality(Missed) + Budget <= Allow
      BY DEF LossInv
    <2>6. batch - 1 \in Nat /\ faults \in Nat /\ restarts \in Nat /\ FileSize \in Nat
      BY LoggerAssumption, SMT DEF LossBase, TxnInv, BaseInv, TableInv
    <2>7. Spent \in {faults + restarts, (faults + restarts) - 1}
      <3>1. /\ faults + restarts - 0 = faults + restarts
            /\ faults + restarts - 1 = (faults + restarts) - 1
        BY <2>6, SMT
      <3> QED BY <3>1 DEF Spent, Noticed
    <2>8. Allow \in Int /\ Allow <= (batch - 1) * (faults + restarts) + FileSize * restarts
      <3>1. \A b, c, x, r \in Nat :
               /\ b * x + c * r \in Int /\ b * (x - 1) + c * r \in Int
               /\ b * (x - 1) = b * x - b
               /\ b * x + c * r <= b * x + c * r /\ b * (x - 1) + c * r <= b * x + c * r
        BY SMT
      <3>2. faults + restarts \in Nat
        BY <2>6, SMT
      <3>3. CASE Spent = faults + restarts
        BY <2>6, <3>1, <3>2, <3>3 DEF Allow
      <3>4. CASE Spent = (faults + restarts) - 1
        <4> DEFINE b == batch - 1
                   x == faults + restarts
        <4>1. b \in Nat /\ x \in Nat /\ Allow = b * (x - 1) + FileSize * restarts
          BY <2>6, <3>2, <3>4 DEF Allow
        <4> HIDE DEF b, x
        <4>2. Allow \in Int /\ Allow <= b * x + FileSize * restarts
          BY <2>6, <3>1, <4>1
        <4> QED BY <4>2 DEF b, x
      <3> QED BY <2>7, <3>3, <3>4
    <2>9. restarts + left = restarts
      BY <2>6, SMT
    <2>10. \A a, b, c \in Nat, x, y \in Int : a <= b /\ b + c <= x /\ x <= y => a <= y
      BY SMT
    <2>11. (batch - 1) * (faults + restarts) + FileSize * restarts \in Int
      BY <2>6, SMT
    <2> QED BY <2>1, <2>2, <2>3, <2>4, <2>5, <2>8, <2>9, <2>10, <2>11 DEF LossBounded
  <1> QED BY <1>1, <1>2, <1>3, PTL DEF Spec
=============================================================================
