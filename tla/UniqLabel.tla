----------------------------- MODULE UniqLabel -----------------------------
(***************************************************************************)
(* The label leases of uniq_id: masters, agents and the network between    *)
(* them.  A label is the part of an identifier that tells machines apart,  *)
(* so no two agents may use the same one at the same time.                 *)
(***************************************************************************)
EXTENDS UniqMaster, UniqAgent

vars == <<netVars, masterVars, agentVars>>

Init == NetInit /\ MasterInit /\ AgentInit

\* Time passes: init() and a round of the receive loop do not take longer than
\* MaxLoop, and answers older than MaxDelay are lost.
Tick ==
    /\ now < MaxTime
    /\ \A a \in Agents : mode[a] \in {"rent1", "rent2", "batch"}
                          => now + 1 - clock[a] <= MaxLoop
    /\ now' = now + 1
    /\ responses' = Fresh(now + 1)
    /\ UNCHANGED <<requests, masterVars, agentVars>>

Next ==
    \/ \E m \in Masters : MasterStep(m) /\ UNCHANGED agentVars
    \/ \E a \in Agents : AgentStep(a) /\ UNCHANGED masterVars
    \/ Tick

Spec == Init /\ [][Next]_vars

-----------------------------------------------------------------------------
\* Type invariant of the masters, the agents and the network.
TypeOK == NetTypeOK /\ MasterTypeOK /\ AgentTypeOK

\* The time an agent compares with the expiry of its label.
Reading(a) == IF mode[a] = "batch" THEN clock[a] ELSE now

\* The agent answers clients with its label.
Serves(a) == mode[a] \in {"idle", "batch"} /\ ~LabelExpired(a, Reading(a))

\* "At the same time two machines do not have the same label" (uniq_id.h): no
\* two agents answer clients with one label, whatever datagrams are lost or late
\* and however often an agent dies.  Label 0 is the one an agent has before the first.
LabelUnique ==
    \A a, b \in Agents :
        a # b /\ Serves(a) /\ Serves(b) /\ label[a] > 0 => label[a] # label[b]

\* A label in use, or promised by an answer under way, keeps the row of its
\* agent: on_timeout() waits longer than the agent believes in its lease.
RowKept ==
    /\ \A a \in Agents : Serves(a) /\ label[a] > 0 => owner[label[a]] = a
    /\ \A r \in responses : r.kind = "label" => owner[r.label] = r.to

\* alloc_label() and on_timeout() move a label between the tables and never
\* lose or copy one, in the steps of two masters too.
Conserved == \A l \in Labels : l \in pool <=> owner[l] = NoIp

\* Failing statements, commits of unknown outcome, masters that die in a sweep and
\* fill the pool again, and two masters at once may leave a label in both tables
\* (generate_labels), and never lose one: it is in the pool or has a row.
NoneLost == \A l \in Labels : l \in pool \/ owner[l] # NoIp

\* A label is not recycled "within the freeze" (master.cpp), and on_timeout()
\* writes the renewals before it recycles, "otherwise they may conflict": a row
\* that goes was not renewed within expire and freeze, neither in the table nor
\* in the memory of a master.
RenewedNotRecycled ==
    [][\A l \in Labels : owner[l] # NoIp /\ owner'[l] = NoIp =>
          /\ ftime[l] < now - (Expire + Freeze)
          /\ \A m \in Masters : leaseIp[m][l] # NoIp =>
                leaseTime[m][l] < now - (Expire + Freeze)]_vars
=============================================================================
