----------------------------- MODULE EventQueue -----------------------------
(***************************************************************************)
(* sys::CEventQueue over a utils::CArrayQueue: a ring buffer under one     *)
(* lock, with one condition variable on which threads wait both for room   *)
(* and for elements.                                                       *)
(*                                                                         *)
(* Every method holds _lock from entry to return except while it is inside *)
(* timed_wait, so an action is one stretch of holding the lock: from entry *)
(* (or from the return of timed_wait) to the return or to the next         *)
(* timed_wait.                                                             *)
(***************************************************************************)
EXTENDS Naturals, Sequences, FiniteSets

CONSTANTS
    Threads,    \* callers; each may push and pop
    Items,      \* elements
    QueueMax    \* _queue_max of the ring

ASSUME QueueAssumption ==
    /\ QueueMax \in Nat \ {0}
    /\ IsFiniteSet(Threads)

VARIABLES
    waits,                      \* _push_milliseconds > 0, _pop_milliseconds > 0
    elem, head, tail, size,     \* the ring: _elem_array, _head, _tail, _queue_size
    pushers, poppers,           \* _push_waiter_number, _pop_waiter_number
    pc,                         \* where each thread is
    op, arg, out                \* call, argument and result, as in BoundedFifo

queue == <<waits, elem, head, tail, size>>
vars == <<waits, elem, head, tail, size, pushers, poppers, pc, op, arg, out>>

Slots == 0 .. QueueMax - 1

\* "enter": before the lock.  "wait": in the condition variable.  "woken" and
\* "late": timed_wait returns true or false once it has the lock again.
Places == {"idle", "enter", "wait", "woken", "late"}

Init ==
    /\ waits \in [{"push", "pop"} -> BOOLEAN]
    /\ elem \in [Slots -> Items]
    /\ head = 0
    /\ tail = 0
    /\ size = 0
    /\ pushers = 0
    /\ poppers = 0
    /\ pc = [t \in Threads |-> "idle"]
    /\ op = [t \in Threads |-> "none"]
    /\ arg \in [Threads -> Items]
    /\ out = [t \in Threads |-> <<>>]
-----------------------------------------------------------------------------
(* The ring. *)

is_full == QueueMax = size
is_empty == 0 = size

RingPush(v) ==
    /\ elem' = [elem EXCEPT ![tail] = v]
    /\ tail' = (tail + 1) % QueueMax
    /\ size' = size + 1
    /\ UNCHANGED <<waits, head>>

\* Variant: the last element is popped without moving _head.
RingPopKeepsHead ==
    /\ head' = IF size = 1 THEN head ELSE (head + 1) % QueueMax
    /\ size' = size - 1
    /\ UNCHANGED <<waits, elem, tail>>

RingPop ==
    /\ head' = (head + 1) % QueueMax
    /\ size' = size - 1
    /\ UNCHANGED <<waits, elem, tail>>
-----------------------------------------------------------------------------
(* The condition variable. *)

\* Variant of Broadcast: one waiting thread is woken.
Signal(f) ==
    IF \E t \in Threads : f[t] = "wait"
    THEN [f EXCEPT ![CHOOSE t \in Threads : f[t] = "wait"] = "woken"]
    ELSE f

Broadcast(f) == [t \in Threads |-> IF f[t] = "wait" THEN "woken" ELSE f[t]]

\* Variant: one waiter is not worth a broadcast.
NotifyBeyondOne(n, f) == IF n > 1 THEN Broadcast(f) ELSE f

\* if (_pop_waiter_number > 0) _event.broadcast(), and the same for pushers
Notify(n, f) == IF n > 0 THEN Broadcast(f) ELSE f

Timeout(t) ==
    /\ pc[t] = "wait"
    /\ pc' = [pc EXCEPT ![t] = "late"]
    /\ UNCHANGED <<queue, pushers, poppers, op, arg, out>>

SpuriousWakeup(t) ==
    /\ pc[t] = "wait"
    /\ pc' = [pc EXCEPT ![t] = "woken"]
    /\ UNCHANGED <<queue, pushers, poppers, op, arg, out>>
-----------------------------------------------------------------------------
(* The methods. *)

Call(t, o, v) ==
    /\ pc[t] = "idle"
    /\ pc' = [pc EXCEPT ![t] = "enter"]
    /\ op' = [op EXCEPT ![t] = o]
    /\ arg' = [arg EXCEPT ![t] = v]
    /\ out' = [out EXCEPT ![t] = <<>>]
    /\ UNCHANGED <<queue, pushers, poppers>>

\* The thread has the lock and its wait, if it was in one, did not time out.
Running(t) == pc[t] \in {"enter", "woken"}

\* Variant: the counter is taken back on the first entry too.
CountedOnEntry(t) == IF pc[t] \in {"enter", "woken", "late"} THEN 1 ELSE 0

\* What CountHelper's destructor takes back when timed_wait has returned.
Counted(t) == IF pc[t] \in {"woken", "late"} THEN 1 ELSE 0

Return(t) == op' = [op EXCEPT ![t] = "none"]

PushBack(t) ==
    /\ Running(t)
    /\ op[t] = "push"
    /\ ~is_full
    /\ RingPush(arg[t])
    /\ pushers' = pushers - Counted(t)
    /\ pc' = Notify(poppers, [pc EXCEPT ![t] = "idle"])
    /\ out' = [out EXCEPT ![t] = <<arg[t]>>]
    /\ Return(t)
    /\ UNCHANGED <<poppers, arg>>

PopFront(t) ==
    /\ Running(t)
    /\ op[t] = "pop"
    /\ ~is_empty
    /\ RingPop
    /\ poppers' = poppers - Counted(t)
    /\ pc' = Notify(pushers, [pc EXCEPT ![t] = "idle"])
    /\ out' = [out EXCEPT ![t] = <<elem[head]>>]
    /\ Return(t)
    /\ UNCHANGED <<pushers, arg>>

PushWait(t) ==
    /\ Running(t)
    /\ op[t] = "push"
    /\ is_full
    /\ waits["push"]
    /\ pushers' = pushers - Counted(t) + 1
    /\ pc' = [pc EXCEPT ![t] = "wait"]
    /\ UNCHANGED <<queue, poppers, op, arg, out>>

PopWait(t) ==
    /\ Running(t)
    /\ op[t] = "pop"
    /\ is_empty
    /\ waits["pop"]
    /\ poppers' = poppers - Counted(t) + 1
    /\ pc' = [pc EXCEPT ![t] = "wait"]
    /\ UNCHANGED <<queue, pushers, op, arg, out>>

\* Returns false: no waiting is wanted, or the wait has timed out.
PushRefused(t) ==
    /\ op[t] = "push"
    /\ \/ Running(t) /\ is_full /\ ~waits["push"]
       \/ pc[t] = "late"
    /\ pushers' = pushers - Counted(t)
    /\ pc' = [pc EXCEPT ![t] = "idle"]
    /\ Return(t)
    /\ UNCHANGED <<queue, poppers, arg, out>>

PopRefused(t) ==
    /\ op[t] = "pop"
    /\ \/ Running(t) /\ is_empty /\ ~waits["pop"]
       \/ pc[t] = "late"
    /\ poppers' = poppers - Counted(t)
    /\ pc' = [pc EXCEPT ![t] = "idle"]
    /\ Return(t)
    /\ UNCHANGED <<queue, pushers, arg, out>>

\* A thread that is past its call and outside the condition variable.
Stretch(t) ==
    \/ PushBack(t)
    \/ PopFront(t)
    \/ PushWait(t)
    \/ PopWait(t)
    \/ PushRefused(t)
    \/ PopRefused(t)

Next ==
    \E t \in Threads :
        \/ \E o \in {"push", "pop"}, v \in Items : Call(t, o, v)
        \/ Stretch(t)
        \/ Timeout(t)
        \/ SpuriousWakeup(t)

Spec == Init /\ [][Next]_vars

\* Threads that want the lock get it.  Callers need not call, and nothing is
\* said of the clock: a wait may last for ever.
Fairness == \A t \in Threads : WF_vars(Stretch(t))

FairSpec == Spec /\ Fairness
-----------------------------------------------------------------------------
(* Properties. *)

\* Type invariant: the ring stays in its array and the waiter counts never go below 0.
TypeOK ==
    /\ waits \in [{"push", "pop"} -> BOOLEAN]
    /\ elem \in [Slots -> Items]
    /\ head \in Slots
    /\ tail \in Slots
    /\ size \in 0 .. QueueMax
    /\ pushers \in Nat
    /\ poppers \in Nat
    /\ pc \in [Threads -> Places]
    /\ op \in [Threads -> {"none", "push", "pop"}]
    /\ arg \in [Threads -> Items]
    /\ out \in [Threads -> Seq(Items)]

\* No lost wake-up, although pushes and pops share one condition variable and
\* broadcast only if a counter says that someone waits: a thread is left inside
\* the condition variable only if the queue is full (push) or empty (pop).
NoStrandedWaiter ==
    \A t \in Threads :
        pc[t] = "wait" => \/ op[t] = "push" /\ is_full
                          \/ op[t] = "pop" /\ is_empty

\* The elements in the ring, from _head on.
Contents == [i \in 1 .. size |-> elem[(head + i - 1) % QueueMax]]

Fifo == INSTANCE BoundedFifo WITH fifo <- Contents

\* push_back and pop_front implement the bounded FIFO queue: a call takes effect
\* at once and in order, or is refused, and one that may not wait is refused
\* only by a queue that is full or empty at that moment.
ImplementsFifo == Fifo!Spec

\* As long as a caller could be served some caller is, without the help of a
\* timeout: pushing and popping never stop with room and a waiting pusher, or
\* with elements and a waiting popper.
ServesWaiters == Fifo!Progress
=============================================================================
