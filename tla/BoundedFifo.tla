---------------------------- MODULE BoundedFifo ----------------------------
(***************************************************************************)
(* What the thread-safe queues of the base library promise to their        *)
(* callers: a first-in first-out queue of at most QueueMax elements.  A    *)
(* call takes effect in one step between its start and its return, or is   *)
(* refused; where the caller asked not to wait, it is refused only in a    *)
(* state in which the queue is full (push) or empty (pop).                 *)
(***************************************************************************)
EXTENDS Naturals, Sequences

CONSTANTS Threads, Items, QueueMax

VARIABLES
    waits,  \* waits[o]: whether a call of kind o may wait, fixed from the start
    fifo,   \* the elements in the queue, the oldest first
    op,     \* op[t]: the call that t is in, "none" outside
    arg,    \* arg[t]: the element that t pushes
    out     \* out[t]: what t's last call moved, <<>> if it was refused

vars == <<waits, fifo, op, arg, out>>

Init ==
    /\ waits \in [{"push", "pop"} -> BOOLEAN]
    /\ fifo = <<>>
    /\ op = [t \in Threads |-> "none"]
    /\ arg \in [Threads -> Items]
    /\ out = [t \in Threads |-> <<>>]

Call(t, o, v) ==
    /\ op[t] = "none"
    /\ op' = [op EXCEPT ![t] = o]
    /\ arg' = [arg EXCEPT ![t] = v]
    /\ out' = [out EXCEPT ![t] = <<>>]
    /\ UNCHANGED <<waits, fifo>>

Put(t) ==
    /\ op[t] = "push"
    /\ Len(fifo) < QueueMax
    /\ fifo' = Append(fifo, arg[t])
    /\ out' = [out EXCEPT ![t] = <<arg[t]>>]
    /\ op' = [op EXCEPT ![t] = "none"]
    /\ UNCHANGED <<waits, arg>>

Get(t) ==
    /\ op[t] = "pop"
    /\ fifo # <<>>
    /\ fifo' = Tail(fifo)
    /\ out' = [out EXCEPT ![t] = <<Head(fifo)>>]
    /\ op' = [op EXCEPT ![t] = "none"]
    /\ UNCHANGED <<waits, arg>>

Refuse(t) ==
    /\ \/ op[t] = "push" /\ (waits["push"] \/ Len(fifo) = QueueMax)
       \/ op[t] = "pop" /\ (waits["pop"] \/ fifo = <<>>)
    /\ op' = [op EXCEPT ![t] = "none"]
    /\ UNCHANGED <<waits, fifo, arg, out>>

Next ==
    \E t \in Threads :
        \/ \E o \in {"push", "pop"}, v \in Items : Call(t, o, v)
        \/ Put(t)
        \/ Get(t)
        \/ Refuse(t)

Spec == Init /\ [][Next]_vars

\* The queue does not stand still while a caller could be served.
Progress ==
    /\ WF_vars(\E t \in Threads : Put(t))
    /\ WF_vars(\E t \in Threads : Get(t))

FairSpec == Spec /\ Progress
=============================================================================
