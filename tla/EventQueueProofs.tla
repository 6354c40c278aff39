-------------------------- MODULE EventQueueProofs --------------------------
(***************************************************************************)
(* For any number of threads, any elements and any size of the ring: the   *)
(* types, the absence of lost wake-ups, and that CEventQueue implements    *)
(* the bounded FIFO queue (its safety part).                               *)
(***************************************************************************)
EXTENDS EventQueue, FiniteSetTheorems, TLAPS

\* Indices of the ring exceed its size at most once.
LEMMA ModOnce ==
    ASSUME NEW m \in Nat \ {0}, NEW a \in Nat, a < 2 * m
    PROVE  a % m = IF a < m THEN a ELSE a - m
  OBVIOUS

\* The same for the size of the ring.
LEMMA RingMod ==
    \A a \in Nat : a < 2 * QueueMax =>
        a % QueueMax = IF a < QueueMax THEN a ELSE a - QueueMax
  <1>1. QueueMax \in Nat \ {0}
    BY QueueAssumption
  <1> QED
    BY ONLY <1>1, ModOnce
-----------------------------------------------------------------------------
(* Types. *)

\* The ring's steps keep its indices in range.
LEMMA RingType ==
    ASSUME TypeOK
    PROVE  /\ \A v \in Items : ~is_full /\ RingPush(v) =>
                /\ elem' \in [Slots -> Items] /\ head' \in Slots
                /\ tail' \in Slots /\ size' \in 0 .. QueueMax
           /\ ~is_empty /\ RingPop =>
                /\ elem' \in [Slots -> Items] /\ head' \in Slots
                /\ tail' \in Slots /\ size' \in 0 .. QueueMax
  <1>1. QueueMax \in Nat \ {0} /\ head \in 0 .. QueueMax - 1
        /\ tail \in 0 .. QueueMax - 1 /\ size \in 0 .. QueueMax
    BY QueueAssumption DEF TypeOK, Slots
  <1>2. (head + 1) % QueueMax \in 0 .. QueueMax - 1
        /\ (tail + 1) % QueueMax \in 0 .. QueueMax - 1
    <2>1. head + 1 \in Nat /\ head + 1 < 2 * QueueMax
          /\ tail + 1 \in Nat /\ tail + 1 < 2 * QueueMax
      BY <1>1
    <2> QED
      BY <1>1, <2>1, RingMod
  <1> QED
    BY <1>1, <1>2 DEF TypeOK, Slots, is_full, is_empty, RingPush, RingPop

\* The threads inside push_back or pop_front (o) that CountHelper has counted.
Waiting(o) == {t \in Threads : op[t] = o /\ pc[t] \in {"wait", "woken", "late"}}

\* The counters count, a thread is in a call exactly when it is not idle, and
\* only calls that may wait do.
CountInv ==
    /\ pushers = Cardinality(Waiting("push"))
    /\ poppers = Cardinality(Waiting("pop"))
    /\ \A t \in Threads : pc[t] = "idle" <=> op[t] = "none"
    /\ \A t \in Threads : pc[t] \in {"wait", "woken", "late"} => waits[op[t]]

\* _tail is where the next element goes.
RingInv == tail = (head + size) % QueueMax

IInv == TypeOK /\ CountInv /\ RingInv /\ NoStrandedWaiter

\* The sets of waiters are finite, so that their sizes are numbers and a
\* waiter makes its counter positive.
LEMMA WaitingFinite ==
    ASSUME NEW o
    PROVE  /\ IsFiniteSet(Waiting(o))
           /\ Cardinality(Waiting(o)) \in Nat
           /\ Cardinality(Waiting(o)) = 0 <=> Waiting(o) = {}
  <1>1. Waiting(o) \in SUBSET Threads
    BY DEF Waiting
  <1>2. IsFiniteSet(Waiting(o))
    BY <1>1, FS_Subset, QueueAssumption
  <1> QED
    BY <1>2, FS_CardinalityType, FS_EmptySet

\* How the waiters change: a stretch takes the thread out or puts it in.
LEMMA WaitingStep ==
    ASSUME TypeOK, CountInv, NEW t \in Threads,
           NEW o \in {"push", "pop"}, op[t] = o, pc[t] \in Places \ {"idle"}
    PROVE  LET n == Cardinality(Waiting(o)) IN
           /\ n \in Nat /\ Counted(t) \in {0, 1} /\ n - Counted(t) \in Nat
           /\ pc[t] # "wait" =>
                /\ Cardinality(Waiting(o) \ {t}) = n - Counted(t)
                /\ Cardinality(Waiting(o) \cup {t}) = n - Counted(t) + 1
  <1>1. IsFiniteSet(Waiting(o)) /\ Cardinality(Waiting(o)) \in Nat
    BY WaitingFinite
  <1>2. t \in Waiting(o) <=> pc[t] \in {"wait", "woken", "late"}
    BY DEF Waiting
  <1>3. /\ Cardinality(Waiting(o) \ {t}) =
             IF t \in Waiting(o) THEN Cardinality(Waiting(o)) - 1
             ELSE Cardinality(Waiting(o))
        /\ Cardinality(Waiting(o) \cup {t}) =
             IF t \in Waiting(o) THEN Cardinality(Waiting(o))
             ELSE Cardinality(Waiting(o)) + 1
    BY <1>1, FS_RemoveElement, FS_AddElement
  <1>4. Waiting(o) = {} <=> Cardinality(Waiting(o)) = 0
    BY WaitingFinite
  <1> QED
    BY <1>1, <1>2, <1>3, <1>4 DEF Counted, Places
-----------------------------------------------------------------------------
(* Every step keeps the inductive invariant. *)

\* Where a thread that leaves push_back or pop_front successfully puts the
\* others: it wakes them, or leaves them alone when its counter is zero.
LEMMA LeaveStep ==
    ASSUME TypeOK, NEW t \in Threads, NEW n \in Nat,
           pc' = Notify(n, [pc EXCEPT ![t] = "idle"])
    PROVE  /\ pc' \in [Threads -> Places]
           /\ pc'[t] = "idle"
           /\ \A u \in Threads \ {t} :
                 pc'[u] = IF n > 0 /\ pc[u] = "wait" THEN "woken" ELSE pc[u]
  BY DEF TypeOK, Notify, Broadcast, Places

LEMMA TypeStep ==
    ASSUME IInv, Next
    PROVE  TypeOK'
  <1> USE DEF IInv
  <1>1. ASSUME NEW t \in Threads, NEW o \in {"push", "pop"}, NEW v \in Items,
               Call(t, o, v)
        PROVE  TypeOK'
    BY <1>1 DEF Call, TypeOK, Places, queue
  <1>2. ASSUME NEW t \in Threads, PushBack(t)
        PROVE  TypeOK'
    <2>1. arg[t] \in Items /\ elem' \in [Slots -> Items] /\ head' \in Slots
          /\ tail' \in Slots /\ size' \in 0 .. QueueMax /\ waits' = waits
      BY <1>2, RingType DEF PushBack, TypeOK, RingPush
    <2>2. pushers' \in Nat
      BY <1>2, WaitingStep DEF PushBack, CountInv, Running, Places
    <2>3. pc' \in [Threads -> Places]
      <3>1. poppers \in Nat
        BY DEF TypeOK
      <3> QED
        BY <1>2, <3>1, LeaveStep DEF PushBack
    <2>4. op' \in [Threads -> {"none", "push", "pop"}]
          /\ out' \in [Threads -> Seq(Items)]
      BY <1>2, <2>1 DEF PushBack, Return, TypeOK
    <2> QED
      BY <1>2, <2>1, <2>2, <2>3, <2>4 DEF PushBack, TypeOK
  <1>3. ASSUME NEW t \in Threads, PopFront(t)
        PROVE  TypeOK'
    <2>1. elem[head] \in Items /\ elem' \in [Slots -> Items] /\ head' \in Slots
          /\ tail' \in Slots /\ size' \in 0 .. QueueMax /\ waits' = waits
      BY <1>3, RingType DEF PopFront, TypeOK, RingPop
    <2>2. poppers' \in Nat
      BY <1>3, WaitingStep DEF PopFront, CountInv, Running, Places
    <2>3. pc' \in [Threads -> Places]
      <3>1. pushers \in Nat
        BY DEF TypeOK
      <3> QED
        BY <1>3, <3>1, LeaveStep DEF PopFront
    <2>4. op' \in [Threads -> {"none", "push", "pop"}]
          /\ out' \in [Threads -> Seq(Items)]
      BY <1>3, <2>1 DEF PopFront, Return, TypeOK
    <2> QED
      BY <1>3, <2>1, <2>2, <2>3, <2>4 DEF PopFront, TypeOK
  <1>4. ASSUME NEW t \in Threads, PushWait(t) \/ PushRefused(t)
        PROVE  TypeOK'
    <2>1. op[t] = "push" /\ pc[t] \in Places \ {"idle"} /\ pushers \in Nat
          /\ (pushers' = pushers - Counted(t) \/ pushers' = pushers - Counted(t) + 1)
      BY <1>4 DEF PushWait, PushRefused, Running, Places, TypeOK
    <2>2. pushers' \in Nat
      <3>1. pushers - Counted(t) \in Nat
        BY <2>1, WaitingStep DEF CountInv
      <3> QED
        BY <2>1, <3>1
    <2> QED
      BY <1>4, <2>2 DEF PushWait, PushRefused, Return, TypeOK, Places, queue
  <1>5. ASSUME NEW t \in Threads, PopWait(t) \/ PopRefused(t)
        PROVE  TypeOK'
    <2>1. op[t] = "pop" /\ pc[t] \in Places \ {"idle"} /\ poppers \in Nat
          /\ (poppers' = poppers - Counted(t) \/ poppers' = poppers - Counted(t) + 1)
      BY <1>5 DEF PopWait, PopRefused, Running, Places, TypeOK
    <2>2. poppers' \in Nat
      <3>1. poppers - Counted(t) \in Nat
        BY <2>1, WaitingStep DEF CountInv
      <3> QED
        BY <2>1, <3>1
    <2> QED
      BY <1>5, <2>2 DEF PopWait, PopRefused, Return, TypeOK, Places, queue
  <1>6. ASSUME NEW t \in Threads, Timeout(t) \/ SpuriousWakeup(t)
        PROVE  TypeOK'
    BY <1>6 DEF Timeout, SpuriousWakeup, TypeOK, Places, queue
  <1> QED
    BY <1>1, <1>2, <1>3, <1>4, <1>5, <1>6 DEF Next, Stretch

LEMMA CountStep ==
    ASSUME IInv, Next, TypeOK'
    PROVE  CountInv'
  <1> USE DEF IInv
  <1>1. ASSUME NEW t \in Threads, NEW o \in {"push", "pop"}, NEW v \in Items,
               Call(t, o, v)
        PROVE  CountInv'
    <2>1. Waiting("push")' = Waiting("push") /\ Waiting("pop")' = Waiting("pop")
      BY <1>1 DEF Call, Waiting, TypeOK, CountInv
    <2> QED
      BY <1>1, <2>1 DEF Call, TypeOK, CountInv, queue
  <1>2. ASSUME NEW t \in Threads, PushBack(t)
        PROVE  CountInv'
    <2>0. poppers \in Nat
      BY DEF TypeOK
    <2>1. /\ pc'[t] = "idle"
          /\ \A u \in Threads \ {t} :
                pc'[u] = IF poppers > 0 /\ pc[u] = "wait" THEN "woken" ELSE pc[u]
      BY <1>2, <2>0, LeaveStep DEF PushBack
    <2>2. /\ op[t] = "push" /\ pc[t] \in Places \ {"idle"} /\ pc[t] # "wait"
          /\ op' = [op EXCEPT ![t] = "none"] /\ waits' = waits
      BY <1>2 DEF PushBack, Running, Places, Return, RingPush
    <2>3. /\ Waiting("push")' = Waiting("push") \ {t}
          /\ Waiting("pop")' = Waiting("pop")
      BY <2>1, <2>2 DEF Waiting, TypeOK
    <2>4. pushers' = Cardinality(Waiting("push")') /\ poppers' = poppers
      BY <1>2, <2>2, <2>3, WaitingStep DEF PushBack, CountInv
    <2> QED
      BY <2>1, <2>2, <2>3, <2>4 DEF CountInv, TypeOK
  <1>3. ASSUME NEW t \in Threads, PopFront(t)
        PROVE  CountInv'
    <2>0. pushers \in Nat
      BY DEF TypeOK
    <2>1. /\ pc'[t] = "idle"
          /\ \A u \in Threads \ {t} :
                pc'[u] = IF pushers > 0 /\ pc[u] = "wait" THEN "woken" ELSE pc[u]
      BY <1>3, <2>0, LeaveStep DEF PopFront
    <2>2. /\ op[t] = "pop" /\ pc[t] \in Places \ {"idle"} /\ pc[t] # "wait"
          /\ op' = [op EXCEPT ![t] = "none"] /\ waits' = waits
      BY <1>3 DEF PopFront, Running, Places, Return, RingPop
    <2>3. /\ Waiting("pop")' = Waiting("pop") \ {t}
          /\ Waiting("push")' = Waiting("push")
      BY <2>1, <2>2 DEF Waiting, TypeOK
    <2>4. poppers' = Cardinality(Waiting("pop")') /\ pushers' = pushers
      BY <1>3, <2>2, <2>3, WaitingStep DEF PopFront, CountInv
    <2> QED
      BY <2>1, <2>2, <2>3, <2>4 DEF CountInv, TypeOK
  <1>4. ASSUME NEW t \in Threads, PushWait(t) \/ PopWait(t)
        PROVE  CountInv'
    <2>1. PICK o \in {"push", "pop"} : op[t] = o
      BY <1>4 DEF PushWait, PopWait
    <2>2. /\ pc[t] \in Places \ {"idle"} /\ pc[t] # "wait" /\ waits[o]
          /\ op' = op /\ waits' = waits /\ pc' = [pc EXCEPT ![t] = "wait"]
      BY <1>4, <2>1 DEF PushWait, PopWait, Running, Places, queue
    <2>3. /\ Waiting(o)' = Waiting(o) \cup {t}
          /\ \A r \in {"push", "pop"} \ {o} : Waiting(r)' = Waiting(r)
      BY <2>1, <2>2 DEF Waiting, TypeOK
    <2>4. Cardinality(Waiting(o)') = Cardinality(Waiting(o)) - Counted(t) + 1
      BY <2>1, <2>2, <2>3, WaitingStep
    <2>5. pushers' = Cardinality(Waiting("push")') /\ poppers' = Cardinality(Waiting("pop")')
      BY <1>4, <2>1, <2>3, <2>4 DEF PushWait, PopWait, CountInv
    <2> QED
      BY <2>1, <2>2, <2>5 DEF CountInv, TypeOK
  <1>5. ASSUME NEW t \in Threads, PushRefused(t) \/ PopRefused(t)
        PROVE  CountInv'
    <2>1. PICK o \in {"push", "pop"} : op[t] = o
      BY <1>5 DEF PushRefused, PopRefused
    <2>2. /\ pc[t] \in Places \ {"idle"} /\ pc[t] # "wait" /\ waits' = waits
          /\ op' = [op EXCEPT ![t] = "none"] /\ pc' = [pc EXCEPT ![t] = "idle"]
      BY <1>5 DEF PushRefused, PopRefused, Running, Places, Return, queue
    <2>3. /\ Waiting(o)' = Waiting(o) \ {t}
          /\ \A r \in {"push", "pop"} \ {o} : Waiting(r)' = Waiting(r)
      BY <2>1, <2>2 DEF Waiting, TypeOK
    <2>4. Cardinality(Waiting(o)') = Cardinality(Waiting(o)) - Counted(t)
      BY <2>1, <2>2, <2>3, WaitingStep
    <2>5. pushers' = Cardinality(Waiting("push")') /\ poppers' = Cardinality(Waiting("pop")')
      BY <1>5, <2>1, <2>3, <2>4 DEF PushRefused, PopRefused, CountInv
    <2> QED
      BY <2>1, <2>2, <2>5 DEF CountInv, TypeOK
  <1>6. ASSUME NEW t \in Threads, Timeout(t) \/ SpuriousWakeup(t)
        PROVE  CountInv'
    <2>1. /\ pc[t] = "wait" /\ op' = op /\ waits' = waits
          /\ pushers' = pushers /\ poppers' = poppers
          /\ \/ pc' = [pc EXCEPT ![t] = "late"]
             \/ pc' = [pc EXCEPT ![t] = "woken"]
      BY <1>6 DEF Timeout, SpuriousWakeup, queue
    <2>2. Waiting("push")' = Waiting("push") /\ Waiting("pop")' = Waiting("pop")
      BY <2>1 DEF Waiting, TypeOK
    <2> QED
      BY <2>1, <2>2 DEF CountInv, TypeOK
  <1> QED
    BY <1>1, <1>2, <1>3, <1>4, <1>5, <1>6 DEF Next, Stretch

LEMMA RingStep ==
    ASSUME IInv, Next, TypeOK'
    PROVE  RingInv'
  <1>0. QueueMax \in Nat \ {0} /\ head \in 0 .. QueueMax - 1
        /\ tail \in 0 .. QueueMax - 1 /\ size \in 0 .. QueueMax
    BY QueueAssumption DEF IInv, TypeOK, Slots
  <1>1. ASSUME NEW v \in Items, ~is_full, RingPush(v)
        PROVE  RingInv'
    <2>1. /\ tail' = (tail + 1) % QueueMax /\ head' = head /\ size' = size + 1
          /\ size < QueueMax /\ tail = (head + size) % QueueMax
      BY <1>0, <1>1 DEF RingPush, is_full, IInv, RingInv
    <2>2. tail + 1 \in Nat /\ tail + 1 < 2 * QueueMax /\ head + size \in Nat
          /\ head + size < 2 * QueueMax /\ head + (size + 1) \in Nat
          /\ head + (size + 1) < 2 * QueueMax
      BY <1>0, <2>1
    <2>3. tail = IF head + size < QueueMax THEN head + size ELSE head + size - QueueMax
      BY <1>0, <2>1, <2>2, RingMod
    <2>4. tail' = IF tail + 1 < QueueMax THEN tail + 1 ELSE tail + 1 - QueueMax
      BY <1>0, <2>1, <2>2, RingMod
    <2>5. (head + (size + 1)) % QueueMax
            = IF head + (size + 1) < QueueMax THEN head + (size + 1)
              ELSE head + (size + 1) - QueueMax
      BY <1>0, <2>2, RingMod
    <2>6. tail' = (head + (size + 1)) % QueueMax
      BY <1>0, <2>1, <2>3, <2>4, <2>5
    <2> QED
      BY <2>1, <2>6 DEF RingInv
  <1>2. ASSUME ~is_empty, RingPop
        PROVE  RingInv'
    <2>1. /\ head' = (head + 1) % QueueMax /\ tail' = tail /\ size' = size - 1
          /\ size > 0 /\ tail = (head + size) % QueueMax
      BY <1>0, <1>2 DEF RingPop, is_empty, IInv, RingInv
    <2>2. /\ head + 1 \in Nat /\ head + 1 < 2 * QueueMax
          /\ head + size \in Nat /\ head + size < 2 * QueueMax
      BY <1>0, <2>1
    <2>3. head' = IF head + 1 < QueueMax THEN head + 1 ELSE 0
      BY <1>0, <2>1, <2>2, RingMod
    <2> DEFINE k == head' + size'
    <2>4. k \in Nat /\ k < 2 * QueueMax
      BY <1>0, <2>1, <2>3
    <2>5. tail = IF head + size < QueueMax THEN head + size ELSE head + size - QueueMax
      BY <1>0, <2>1, <2>2, RingMod
    <2>6. tail' = IF k < QueueMax THEN k ELSE k - QueueMax
      BY <1>0, <2>1, <2>3, <2>5
    <2> HIDE DEF k
    <2>7. k % QueueMax = IF k < QueueMax THEN k ELSE k - QueueMax
      BY <1>0, <2>4, RingMod
    <2>8. tail' = k % QueueMax
      BY <2>6, <2>7
    <2> QED
      BY <2>8 DEF k, RingInv
  <1>3. \/ \E v \in Items : ~is_full /\ RingPush(v)
        \/ ~is_empty /\ RingPop
        \/ UNCHANGED <<head, tail, size>>
    <2>1. \A t \in Threads : arg[t] \in Items
      BY DEF IInv, TypeOK
    <2> QED
      BY <2>1 DEF Next, Call, Stretch, PushBack, PopFront, PushWait, PopWait,
           PushRefused, PopRefused, Timeout, SpuriousWakeup, queue
  <1> QED
    BY <1>1, <1>2, <1>3 DEF IInv, RingInv

\* A thread in the condition variable makes the counter of its kind positive.
LEMMA WaiterCounted ==
    ASSUME TypeOK, CountInv, NEW t \in Threads, pc[t] = "wait"
    PROVE  /\ op[t] = "push" => pushers > 0
           /\ op[t] = "pop" => poppers > 0
  <1>1. ASSUME NEW o \in {"push", "pop"}, op[t] = o
        PROVE  Cardinality(Waiting(o)) > 0
    <2>1. t \in Waiting(o)
      BY <1>1 DEF Waiting
    <2> QED
      BY <2>1, WaitingFinite
  <1> QED
    BY <1>1 DEF CountInv

LEMMA StrandStep ==
    ASSUME IInv, Next, TypeOK'
    PROVE  NoStrandedWaiter'
  <1> USE DEF IInv
  <1>0. QueueMax \in Nat \ {0} /\ size \in 0 .. QueueMax
    BY QueueAssumption DEF TypeOK
  <1>1. ASSUME NEW t \in Threads, PushBack(t)
        PROVE  NoStrandedWaiter'
    <2>1. poppers \in Nat /\ op' = [op EXCEPT ![t] = "none"]
      BY <1>1 DEF TypeOK, PushBack, Return
    <2>2. /\ pc'[t] = "idle"
          /\ \A u \in Threads \ {t} :
                pc'[u] = IF poppers > 0 /\ pc[u] = "wait" THEN "woken" ELSE pc[u]
      BY <1>1, <2>1, LeaveStep DEF PushBack
    <2>3. ASSUME NEW u \in Threads, pc'[u] = "wait"
          PROVE  FALSE
      <3>1. u # t /\ pc[u] = "wait" /\ ~(poppers > 0)
        BY <2>2, <2>3
      <3>2. op[u] # "pop"
        BY <3>1, WaiterCounted
      <3>3. op[u] # "push"
        BY <1>1, <3>1 DEF NoStrandedWaiter, PushBack
      <3> QED
        BY <3>1, <3>2, <3>3 DEF NoStrandedWaiter
    <2> QED
      BY <2>3 DEF NoStrandedWaiter
  <1>2. ASSUME NEW t \in Threads, PopFront(t)
        PROVE  NoStrandedWaiter'
    <2>1. pushers \in Nat /\ op' = [op EXCEPT ![t] = "none"]
      BY <1>2 DEF TypeOK, PopFront, Return
    <2>2. /\ pc'[t] = "idle"
          /\ \A u \in Threads \ {t} :
                pc'[u] = IF pushers > 0 /\ pc[u] = "wait" THEN "woken" ELSE pc[u]
      BY <1>2, <2>1, LeaveStep DEF PopFront
    <2>3. ASSUME NEW u \in Threads, pc'[u] = "wait"
          PROVE  FALSE
      <3>1. u # t /\ pc[u] = "wait" /\ ~(pushers > 0)
        BY <2>2, <2>3
      <3>2. op[u] # "push"
        BY <3>1, WaiterCounted
      <3>3. op[u] # "pop"
        BY <1>2, <3>1 DEF NoStrandedWaiter, PopFront
      <3> QED
        BY <3>1, <3>2, <3>3 DEF NoStrandedWaiter
    <2> QED
      BY <2>3 DEF NoStrandedWaiter
  <1>3. ASSUME NEW t \in Threads, PushWait(t) \/ PopWait(t)
        PROVE  NoStrandedWaiter'
    BY <1>3 DEF PushWait, PopWait, NoStrandedWaiter, TypeOK, is_full, is_empty, queue
  <1>4. ASSUME NEW t \in Threads,
               PushRefused(t) \/ PopRefused(t) \/ Timeout(t) \/ SpuriousWakeup(t)
        PROVE  NoStrandedWaiter'
    BY <1>4 DEF PushRefused, PopRefused, Timeout, SpuriousWakeup, Return,
         NoStrandedWaiter, TypeOK, is_full, is_empty, queue
  <1>5. ASSUME NEW t \in Threads, NEW o \in {"push", "pop"}, NEW v \in Items,
               Call(t, o, v)
        PROVE  NoStrandedWaiter'
    BY <1>5 DEF Call, NoStrandedWaiter, TypeOK, is_full, is_empty, queue
  <1> QED
    BY <1>1, <1>2, <1>3, <1>4, <1>5 DEF Next, Stretch

LEMMA InitInv == Init => IInv
  <1> SUFFICES ASSUME Init PROVE IInv
    OBVIOUS
  <1>0. QueueMax \in Nat \ {0}
    BY QueueAssumption
  <1>1. TypeOK
    BY <1>0 DEF Init, TypeOK, Slots, Places
  <1>2. Waiting("push") = {} /\ Waiting("pop") = {}
    BY DEF Init, Waiting
  <1>3. CountInv
    BY <1>2, FS_EmptySet DEF Init, CountInv
  <1>4. RingInv
    BY <1>0, RingMod DEF Init, RingInv
  <1>5. NoStrandedWaiter
    BY DEF Init, NoStrandedWaiter
  <1> QED
    BY <1>1, <1>3, <1>4, <1>5 DEF IInv

LEMMA StutterInv == IInv /\ UNCHANGED vars => IInv'
  <1> SUFFICES ASSUME IInv, UNCHANGED vars PROVE IInv'
    OBVIOUS
  <1>1. Waiting("push")' = Waiting("push") /\ Waiting("pop")' = Waiting("pop")
    BY DEF vars, Waiting
  <1> QED
    BY <1>1 DEF vars, IInv, TypeOK, CountInv, RingInv, NoStrandedWaiter, is_full, is_empty

\* The inductive invariant holds throughout.
THEOREM Invariance == Spec => []IInv
  <1>1. IInv /\ [Next]_vars => IInv'
    BY TypeStep, CountStep, RingStep, StrandStep, StutterInv DEF IInv
  <1> QED
    BY InitInv, <1>1, PTL DEF Spec

\* Types: ring indices, counters and results stay in range (event_queue.h,
\* array_queue.h).
THEOREM TypeCorrect == Spec => []TypeOK
  <1>1. IInv => TypeOK
    BY DEF IInv
  <1> QED
    BY Invariance, <1>1, PTL

\* pop_front and push_back lose no wake-up, for any number of threads.
THEOREM NoStrandedWaiterHolds == Spec => []NoStrandedWaiter
  <1>1. IInv => NoStrandedWaiter
    BY DEF IInv
  <1> QED
    BY Invariance, <1>1, PTL
-----------------------------------------------------------------------------
(* The ring is the queue: its steps on the elements seen from _head on. *)

\* The n elements from index h on, and where they are without the modulus.
Seen(e, h, n) == [i \in 1 .. n |-> e[(h + i - 1) % QueueMax]]

Index(h, i) == IF h + i - 1 < QueueMax THEN h + i - 1 ELSE h + i - 1 - QueueMax

LEMMA SeenFacts ==
    ASSUME NEW e \in [Slots -> Items], NEW h \in Slots, NEW n \in 0 .. QueueMax
    PROVE  /\ Seen(e, h, n) \in Seq(Items)
           /\ Len(Seen(e, h, n)) = n
           /\ \A i \in 1 .. n : Seen(e, h, n)[i] = e[Index(h, i)]
  <1>0. QueueMax \in Nat \ {0} /\ h \in 0 .. QueueMax - 1
        /\ e \in [0 .. QueueMax - 1 -> Items]
    BY QueueAssumption DEF Slots
  <1>1. ASSUME NEW i \in 1 .. n
        PROVE  /\ (h + i - 1) % QueueMax = Index(h, i)
               /\ Index(h, i) \in 0 .. QueueMax - 1
    <2>1. h + i - 1 \in Nat /\ h + i - 1 < 2 * QueueMax
      BY <1>0
    <2>2. (h + i - 1) % QueueMax = Index(h, i)
      <3> DEFINE a == h + i - 1
      <3>1. a \in Nat /\ a < 2 * QueueMax
        BY <2>1
      <3> HIDE DEF a
      <3>2. a % QueueMax = IF a < QueueMax THEN a ELSE a - QueueMax
        BY ONLY <3>1, RingMod
      <3> QED
        BY <1>0, <3>1, <3>2 DEF a, Index
    <2> QED
      BY <1>0, <2>1, <2>2 DEF Index
  <1>2. \A i \in 1 .. n : e[(h + i - 1) % QueueMax] \in Items
    BY <1>0, <1>1
  <1>3. Seen(e, h, n) \in Seq(Items) /\ Len(Seen(e, h, n)) = n
    BY <1>0, <1>2 DEF Seen
  <1> QED
    BY <1>0, <1>1, <1>3 DEF Seen

\* CArrayQueue::push_back appends.
LEMMA PushAppends ==
    ASSUME IInv, IInv', NEW v \in Items, ~is_full, RingPush(v)
    PROVE  Contents' = Append(Contents, v)
  <1>0. QueueMax \in Nat \ {0} /\ head \in 0 .. QueueMax - 1
        /\ size \in 0 .. QueueMax - 1 /\ elem \in [0 .. QueueMax - 1 -> Items]
        /\ tail \in 0 .. QueueMax - 1 /\ size' = size + 1 /\ head' = head
    BY QueueAssumption DEF IInv, TypeOK, Slots, is_full, RingPush
  <1>1. tail = IF head + size < QueueMax THEN head + size ELSE head + size - QueueMax
    <2>1. head + size \in Nat /\ head + size < 2 * QueueMax
      BY <1>0
    <2> DEFINE a == head + size
    <2>2. tail = a % QueueMax
      BY DEF IInv, RingInv
    <2>3. a \in Nat /\ a < 2 * QueueMax
      BY <2>1
    <2> HIDE DEF a
    <2>4. tail = IF a < QueueMax THEN a ELSE a - QueueMax
      BY ONLY <2>2, <2>3, RingMod
    <2> QED
      BY <1>0, <2>3, <2>4 DEF a
  <1>2. /\ Contents \in Seq(Items) /\ Len(Contents) = size
        /\ \A i \in 1 .. size : Contents[i] = elem[Index(head, i)]
    <2>1. Contents = Seen(elem, head, size)
      BY DEF Contents, Seen
    <2>2. elem \in [Slots -> Items] /\ head \in Slots /\ size \in 0 .. QueueMax
      BY DEF IInv, TypeOK
    <2> QED
      BY <2>1, <2>2, SeenFacts
  <1>3. /\ Contents' \in Seq(Items) /\ Len(Contents') = size + 1
        /\ \A i \in 1 .. size + 1 : Contents'[i] = elem'[Index(head, i)]
    <2>1. Contents' = Seen(elem', head', size')
      BY DEF Contents, Seen
    <2>2. elem' \in [Slots -> Items] /\ head' \in Slots /\ size' \in 0 .. QueueMax
      BY DEF IInv, TypeOK
    <2> QED
      BY <1>0, <2>1, <2>2, SeenFacts
  <1>4. elem' = [elem EXCEPT ![tail] = v]
    BY DEF RingPush
  <1>5. ASSUME NEW i \in 1 .. size + 1
        PROVE  Contents'[i] = IF i = size + 1 THEN v ELSE Contents[i]
    <2> DEFINE k == Index(head, i)
    <2>1. k \in 0 .. QueueMax - 1 /\ (k = tail <=> i = size + 1)
      BY <1>0, <1>1 DEF Index
    <2>2. elem'[k] = IF i = size + 1 THEN v ELSE elem[k]
      BY <1>0, <1>4, <2>1
    <2>3. Contents'[i] = elem'[k] /\ (i # size + 1 => Contents[i] = elem[k])
      BY <1>0, <1>2, <1>3
    <2> QED
      BY <2>2, <2>3
  <1> QED
    BY <1>0, <1>2, <1>3, <1>5

\* CArrayQueue::pop_front takes the head off.
LEMMA PopTails ==
    ASSUME IInv, IInv', ~is_empty, RingPop
    PROVE  /\ Contents # <<>>
           /\ Head(Contents) = elem[head]
           /\ Contents' = Tail(Contents)
  <1>0. QueueMax \in Nat \ {0} /\ head \in 0 .. QueueMax - 1
        /\ size \in 1 .. QueueMax /\ elem \in [0 .. QueueMax - 1 -> Items]
        /\ size' = size - 1 /\ elem' = elem
    BY QueueAssumption DEF IInv, TypeOK, Slots, is_empty, RingPop
  <1>1. head' = IF head + 1 < QueueMax THEN head + 1 ELSE 0
    <2>1. head + 1 \in Nat /\ head + 1 < 2 * QueueMax
      BY <1>0
    <2> QED
      BY <1>0, <2>1, RingMod DEF RingPop
  <1>2. /\ Contents \in Seq(Items) /\ Len(Contents) = size
        /\ \A i \in 1 .. size : Contents[i] = elem[Index(head, i)]
    <2>1. Contents = Seen(elem, head, size)
      BY DEF Contents, Seen
    <2>2. elem \in [Slots -> Items] /\ head \in Slots /\ size \in 0 .. QueueMax
      BY DEF IInv, TypeOK
    <2> QED
      BY <2>1, <2>2, SeenFacts
  <1>3. /\ Contents' \in Seq(Items) /\ Len(Contents') = size - 1
        /\ \A i \in 1 .. size - 1 : Contents'[i] = elem[Index(head', i)]
    <2>1. Contents' = Seen(elem', head', size')
      BY DEF Contents, Seen
    <2>2. elem' \in [Slots -> Items] /\ head' \in Slots /\ size' \in 0 .. QueueMax
      BY DEF IInv, TypeOK
    <2> QED
      BY <1>0, <2>1, <2>2, SeenFacts
  <1>4. Contents # <<>> /\ Head(Contents) = elem[head]
    <2>1. Index(head, 1) = head
      BY <1>0 DEF Index
    <2> QED
      BY <1>0, <1>2, <2>1
  <1>5. ASSUME NEW i \in 1 .. size - 1
        PROVE  Contents'[i] = Contents[i + 1]
    <2>1. Index(head', i) = Index(head, i + 1)
      BY <1>0, <1>1 DEF Index
    <2>2. i + 1 \in 1 .. size
      BY <1>0
    <2> QED
      BY <1>2, <1>3, <2>1, <2>2
  <1> QED
    BY <1>0, <1>2, <1>3, <1>4, <1>5
-----------------------------------------------------------------------------
(* The refinement. *)

LEMMA FifoInit == Init => Fifo!Init
  <1> SUFFICES ASSUME Init PROVE Fifo!Init
    OBVIOUS
  <1>1. Contents = <<>>
    BY DEF Init, Contents
  <1> QED
    BY <1>1 DEF Init, Fifo!Init

\* Each step of the code is a step of the abstract queue or leaves it alone.
LEMMA FifoStep ==
    ASSUME IInv, IInv', Next
    PROVE  Fifo!Next \/ UNCHANGED Fifo!vars
  <1> USE DEF Fifo!vars
  <1>0. /\ Len(Contents) = size /\ (Contents = <<>> <=> size = 0)
        /\ size \in 0 .. QueueMax /\ QueueMax \in Nat
    <2>1. Contents = Seen(elem, head, size)
      BY DEF Contents, Seen
    <2>2. elem \in [Slots -> Items] /\ head \in Slots /\ size \in 0 .. QueueMax
      BY DEF IInv, TypeOK
    <2> QED
      BY <2>1, <2>2, SeenFacts, QueueAssumption
  <1>1. UNCHANGED <<elem, head, size>> => Contents' = Contents
    BY DEF Contents
  <1>2. ASSUME NEW t \in Threads, NEW o \in {"push", "pop"}, NEW v \in Items,
               Call(t, o, v)
        PROVE  Fifo!Next
    <2>1. op[t] = "none" /\ Contents' = Contents
      BY <1>1, <1>2 DEF Call, IInv, CountInv, queue
    <2>2. Fifo!Call(t, o, v)
      BY <1>2, <2>1 DEF Call, Fifo!Call, queue
    <2> QED
      BY <2>2 DEF Fifo!Next
  <1>3. ASSUME NEW t \in Threads, PushBack(t)
        PROVE  Fifo!Next
    <2>1. arg[t] \in Items /\ ~is_full /\ RingPush(arg[t])
      BY <1>3 DEF PushBack, IInv, TypeOK
    <2>2. Contents' = Append(Contents, arg[t]) /\ Len(Contents) < QueueMax
      BY <1>0, <2>1, PushAppends DEF is_full
    <2>3. Fifo!Put(t)
      BY <1>3, <2>1, <2>2 DEF PushBack, Return, RingPush, Fifo!Put
    <2> QED
      BY <2>3 DEF Fifo!Next
  <1>4. ASSUME NEW t \in Threads, PopFront(t)
        PROVE  Fifo!Next
    <2>1. ~is_empty /\ RingPop
      BY <1>4 DEF PopFront
    <2>2. Contents' = Tail(Contents) /\ Contents # <<>> /\ Head(Contents) = elem[head]
      BY <2>1, PopTails
    <2>3. Fifo!Get(t)
      BY <1>4, <2>1, <2>2 DEF PopFront, Return, RingPop, Fifo!Get
    <2> QED
      BY <2>3 DEF Fifo!Next
  <1>5. ASSUME NEW t \in Threads,
               PushWait(t) \/ PopWait(t) \/ Timeout(t) \/ SpuriousWakeup(t)
        PROVE  UNCHANGED Fifo!vars
    BY <1>1, <1>5 DEF PushWait, PopWait, Timeout, SpuriousWakeup, queue
  <1>6. ASSUME NEW t \in Threads, PushRefused(t) \/ PopRefused(t)
        PROVE  Fifo!Next
    <2>1. Contents' = Contents /\ waits' = waits
      BY <1>1, <1>6 DEF PushRefused, PopRefused, queue
    <2>2. pc[t] = "late" => waits[op[t]]
      BY DEF IInv, CountInv
    <2>3. Fifo!Refuse(t)
      BY <1>0, <1>6, <2>1, <2>2
         DEF PushRefused, PopRefused, Return, is_full, is_empty, Fifo!Refuse
    <2> QED
      BY <2>3 DEF Fifo!Next
  <1> QED
    BY <1>2, <1>3, <1>4, <1>5, <1>6 DEF Next, Stretch

\* CEventQueue implements the bounded FIFO queue, for every size and any
\* number of threads: elements come out in the order they went in, none is
\* lost, invented or repeated, and a call that may not wait is refused only
\* when the queue is full (push_back) or empty (pop_front).
THEOREM FifoRefinement == Spec => ImplementsFifo
  <1>1. IInv /\ UNCHANGED vars => UNCHANGED Fifo!vars
    BY DEF vars, Fifo!vars, Contents
  <1>2. IInv /\ IInv' /\ [Next]_vars => [Fifo!Next]_(Fifo!vars)
    BY FifoStep, <1>1
  <1> QED
    BY FifoInit, Invariance, <1>2, PTL DEF Spec, ImplementsFifo, Fifo!Spec
=============================================================================
