-------------------------- MODULE UniqLabelProofs --------------------------
(***************************************************************************)
(* The label leases: type correctness, for any sets of masters and agents  *)
(* and any times, and that no two agents serve one label, for any number   *)
(* of agents and labels and any bounds, if one master runs and the freeze  *)
(* is long enough.                                                         *)
(***************************************************************************)
EXTENDS UniqLabel, TLAPS

-----------------------------------------------------------------------------
(* Types                                                                   *)

\* get_expire_time() subtracts a freeze that is never negative.
LEMMA FreezeNat == Freeze \in Nat
  BY NetAssumption DEF NetAssumption, Freeze

\* What a master answers and notes when it grants a label is well typed.
LEMMA GrantType ==
    ASSUME TypeOK, NEW m \in Masters, NEW q \in requests, NEW l \in Labels,
           Grant(m, q.from, l), UNCHANGED <<now, requests>>
    PROVE  NetTypeOK' /\ leaseIp' \in [Masters -> [Labels -> Agents \cup {NoIp}]]
           /\ leaseTime' \in [Masters -> [Labels -> Nat]]
  <1>1. q.from \in Agents
    BY DEF TypeOK, NetTypeOK, Request
  <1>2. [to |-> q.from, kind |-> "label", label |-> l, sent |-> now] \in Response
    BY <1>1, NetAssumption DEF TypeOK, NetTypeOK, Response, Labels, NetAssumption
  <1>3. NetTypeOK'
    BY <1>2 DEF Grant, SendResponse, TypeOK, NetTypeOK
  <1>4. leaseIp' \in [Masters -> [Labels -> Agents \cup {NoIp}]]
    BY <1>1 DEF Grant, TypeOK, MasterTypeOK
  <1>5. leaseTime' \in [Masters -> [Labels -> Nat]]
    BY DEF Grant, TypeOK, MasterTypeOK, NetTypeOK
  <1>6. QED
    BY <1>3, <1>4, <1>5

\* Every step of a master keeps the types.
LEMMA MasterStepType ==
    ASSUME TypeOK, NEW m \in Masters, MasterStep(m)
    PROVE  NetTypeOK' /\ MasterTypeOK'
  <1> USE DEF TypeOK, netVars, dbVars, mapVars, masterVars
  <1>1. ASSUME NEW q \in requests, Renew(m, q)
        PROVE  NetTypeOK' /\ MasterTypeOK'
    <2>1. q \in Request
      BY DEF NetTypeOK
    <2>2. CASE HoldValidLabel(q.from, q.label) /\ Grant(m, q.from, q.label)
      <3>1. q.label \in Labels
        BY <1>1, <2>1, NetAssumption DEF Renew, Request, Labels, NetAssumption
      <3>2. QED
        BY <1>1, <2>2, <3>1, GrantType DEF Renew, MasterTypeOK
    <2>3. CASE ~HoldValidLabel(q.from, q.label)
      <3>1. [to |-> q.from, kind |-> "nothold", label |-> 0, sent |-> now] \in Response
        BY <2>1, NetAssumption DEF NetTypeOK, Request, Response, NetAssumption
      <3>2. QED
        BY <1>1, <2>3, <3>1 DEF Renew, SendResponse, NetTypeOK, MasterTypeOK
    <2>4. QED
      BY <1>1, <2>2, <2>3 DEF Renew
  <1>2. ASSUME NEW q \in requests, RentHeld(m, q)
        PROVE  NetTypeOK' /\ MasterTypeOK'
    BY <1>2, GrantType DEF RentHeld, LabelsOf, MasterTypeOK
  <1>3. ASSUME NEW q \in requests, NEW l \in pool, MoveOnline(q.from, l)
        PROVE  pool' \subseteq Labels /\ owner' \in [Labels -> Agents \cup {NoIp}]
               /\ ftime' \in [Labels -> Nat]
    BY <1>3 DEF MoveOnline, NetTypeOK, MasterTypeOK, Request
  <1>4. ASSUME NEW q \in requests, RentNew(m, q)
        PROVE  NetTypeOK' /\ MasterTypeOK'
    <2>1. PICK l \in pool : MoveOnline(q.from, l) /\ Grant(m, q.from, l)
      BY <1>4 DEF RentNew
    <2>2. l \in Labels
      BY DEF MasterTypeOK
    <2>3. QED
      BY <1>3, <1>4, <2>1, <2>2, GrantType DEF RentNew, MasterTypeOK
  <1>5. ASSUME NEW q \in requests, RentUnknown(m, q)
        PROVE  NetTypeOK' /\ MasterTypeOK'
    <2>1. PICK l \in pool : MoveOnline(q.from, l)
      BY <1>5 DEF RentUnknown
    <2>2. QED
      BY <1>3, <1>5, <2>1 DEF RentUnknown, NetTypeOK, MasterTypeOK
  <1>6. ASSUME NEW q \in requests, RentNone(m, q) \/ RentError(m, q)
        PROVE  NetTypeOK' /\ MasterTypeOK'
    BY <1>6 DEF RentNone, RentError, NetTypeOK, MasterTypeOK
  <1>7. ASSUME NEW written \in SUBSET Labels, FlushAndSelect(m, written)
        PROVE  NetTypeOK' /\ pool' \subseteq Labels /\ owner' = owner
               /\ ftime' \in [Labels -> Nat] /\ victims' \in [Masters -> SUBSET Labels]
    BY <1>7 DEF FlushAndSelect, NetTypeOK, MasterTypeOK
  <1>8. ASSUME ClearLeases(m)
        PROVE  /\ leaseIp' \in [Masters -> [Labels -> Agents \cup {NoIp}]]
               /\ leaseTime' \in [Masters -> [Labels -> Nat]]
    BY <1>8 DEF ClearLeases, NoLease, MasterTypeOK
  <1>9. Renewals(m) \subseteq Labels
    BY DEF Renewals
  <1>10. CASE OnTimeout(m) \/ OnTimeoutDbError(m)
    BY <1>7, <1>8, <1>9, <1>10 DEF OnTimeout, OnTimeoutDbError, MasterTypeOK
  <1>11. ASSUME NEW l \in Labels, Recycle(m, l)
         PROVE  NetTypeOK' /\ MasterTypeOK'
    BY <1>11 DEF Recycle, NetTypeOK, MasterTypeOK
  <1>12. ASSUME NEW l \in Labels, RecycleGone(m, l) \/ RecycleAborted(m, l)
         PROVE  NetTypeOK' /\ MasterTypeOK'
    BY SMTT(60), <1>12 DEF RecycleGone, RecycleAborted, NetTypeOK, MasterTypeOK
  <1>13. CASE MasterCrash(m)
    BY <1>8, <1>13 DEF MasterCrash, NetTypeOK, MasterTypeOK
  <1>14. QED
    BY <1>1, <1>2, <1>4, <1>5, <1>6, <1>10, <1>11, <1>12, <1>13 DEF MasterStep

\* Every step of an agent keeps the types.
LEMMA AgentStepType ==
    ASSUME TypeOK, NEW a \in Agents, AgentStep(a)
    PROVE  NetTypeOK' /\ AgentTypeOK'
  <1> USE DEF TypeOK, netVars
  <1>1. 0 \in 0..LabelMax /\ Never \in Int
    BY NetAssumption, AgentAssumption DEF NetAssumption, AgentAssumption, Never
  <1>2. disk[a].label \in 0..LabelMax /\ disk[a].stamp \in Int
    BY DEF AgentTypeOK, Block
  <1>3. ASSUME NEW r \in responses PROVE r.label \in 0..LabelMax
    BY DEF NetTypeOK, Response
  <1>4. ASSUME NEW l \in 0..LabelMax, SendRequest([from |-> a, label |-> l])
        PROVE  requests' \subseteq Request
    BY <1>4 DEF SendRequest, NetTypeOK, Request
  <1>5. ASSUME NEW l \in 0..LabelMax, NEW t \in Int, StoreOk(a, l, t) \/ Store(a, l, t)
        PROVE  disk' \in [Agents -> Block]
    BY <1>5 DEF Store, StoreOk, AgentTypeOK, Block
  <1>6. CASE StartRent(a)
    BY <1>1, <1>2, <1>4, <1>6 DEF StartRent, NetTypeOK, AgentTypeOK
  <1>7. CASE StartUnexpired(a)
    BY <1>1, <1>2, <1>5, <1>7 DEF StartUnexpired, NetTypeOK, AgentTypeOK
  <1>8. CASE Wake(a)
    BY <1>4, <1>8 DEF Wake, NetTypeOK, AgentTypeOK
  <1>9. ASSUME NEW r \in responses, RentAnswered(a, r)
        PROVE  NetTypeOK' /\ AgentTypeOK'
    <2>1. clock[a] \in Int /\ clock[a] \in Nat
      BY DEF AgentTypeOK
    <2>2. disk' \in [Agents -> Block]
      BY <1>3, <1>5, <1>9, <2>1 DEF RentAnswered
    <2>3. QED
      BY ZenonT(20), <1>3, <1>9, <2>1, <2>2 DEF RentAnswered, NetTypeOK, AgentTypeOK
  <1>10. ASSUME NEW r \in responses, RentAgain(a, r) \/ OnResponseError(a, r)
        PROVE  NetTypeOK' /\ AgentTypeOK'
    BY <1>1, <1>4, <1>10 DEF RentAgain, OnResponseError, NetTypeOK, AgentTypeOK
  <1>11. ASSUME NEW r \in responses, OnResponseLabel(a, r)
        PROVE  NetTypeOK' /\ AgentTypeOK'
    <2>1. clock[a] \in Int /\ clock[a] \in Nat
      BY DEF AgentTypeOK
    <2>2. disk' \in [Agents -> Block]
      BY <1>3, <1>5, <1>11, <2>1 DEF OnResponseLabel, AgentTypeOK
    <2>3. QED
      BY ZenonT(20), <1>3, <1>11, <2>1, <2>2 DEF OnResponseLabel, NetTypeOK, AgentTypeOK
  <1>12. CASE ServeAndStore(a)
    <2>1. label[a] \in 0..LabelMax /\ stamp[a] \in Int
      BY DEF AgentTypeOK
    <2>2. QED
      BY <1>5, <1>12, <2>1 DEF ServeAndStore, NetTypeOK, AgentTypeOK
  <1>13. CASE EndBatch(a) \/ AgentDies(a)
    BY <1>1, <1>13 DEF EndBatch, AgentDies, NetTypeOK, AgentTypeOK
  <1>14. QED
    BY <1>6, <1>7, <1>8, <1>9, <1>10, <1>11, <1>12, <1>13 DEF AgentStep

\* The variables of masters, agents and network always have their types.
THEOREM TypeCorrect == Spec => []TypeOK
  <1>1. Init => TypeOK
    <2>1. 0 \in 0..LabelMax /\ Never \in Int
      BY NetAssumption, AgentAssumption DEF NetAssumption, AgentAssumption, Never
    <2>2. [label |-> 0, stamp |-> Never] \in Block
      BY <2>1 DEF Block
    <2>3. Init => AgentTypeOK
      BY <2>1, <2>2 DEF Init, AgentInit, AgentTypeOK
    <2>4. Init => NetTypeOK /\ MasterTypeOK
      BY DEF Init, NetInit, MasterInit, NetTypeOK, MasterTypeOK, NoLease
    <2>5. QED
      BY <2>3, <2>4 DEF TypeOK
  <1>2. TypeOK /\ [Next]_vars => TypeOK'
    <2> SUFFICES ASSUME TypeOK, [Next]_vars PROVE TypeOK'
      OBVIOUS
    <2>1. ASSUME NEW m \in Masters, MasterStep(m), UNCHANGED agentVars PROVE TypeOK'
      BY <2>1, MasterStepType DEF TypeOK, agentVars, AgentTypeOK
    <2>2. ASSUME NEW a \in Agents, AgentStep(a), UNCHANGED masterVars PROVE TypeOK'
      BY <2>2, AgentStepType DEF TypeOK, masterVars, dbVars, mapVars, MasterTypeOK
    <2>3. CASE Tick
      BY <2>3 DEF Tick, Fresh, TypeOK, NetTypeOK, masterVars, dbVars, mapVars,
                  MasterTypeOK, agentVars, AgentTypeOK
    <2>4. CASE UNCHANGED vars
      BY <2>4 DEF vars, TypeOK, netVars, NetTypeOK, masterVars, dbVars, mapVars,
                  MasterTypeOK, agentVars, AgentTypeOK
    <2>5. QED
      BY <2>1, <2>2, <2>3, <2>4 DEF Next
  <1>3. QED
    BY <1>1, <1>2, PTL DEF Spec

-----------------------------------------------------------------------------
(* The invariant                                                           *)

\* Two masters on one database break LabelUnique.
OneMaster == \A m, n \in Masters : m = n

\* Neither renewals are lost with the memory of a master nor by the database.
Reliable == ~CanCrash /\ ~DbFails

\* The freeze outlasts the delay of an answer and a round of the receive loop,
\* and, when renewals may be lost, also the expiry: a renewal that was answered
\* expire after the last one in the table is forgotten.
Margin == MaxDelay + MaxLoop + (IF Reliable THEN 0 ELSE Expire) <= Freeze

\* An answer for the label l may have been sent at time t, as far as the table
\* and the renewals in memory tell.
Covered(l, t) ==
    \/ t <= ftime[l]
    \/ ~Reliable /\ t <= ftime[l] + Expire
    \/ /\ Reliable
       /\ \E m \in Masters : leaseIp[m][l] = owner[l] /\ t <= leaseTime[m][l]

Kept(r) ==
    /\ r.label \in Labels
    /\ owner[r.label] = r.to
    /\ Covered(r.label, r.sent)
    /\ now <= r.sent + MaxDelay

AnswerInv == \A r \in responses : r.kind = "label" => Kept(r)

ServeInv ==
    \A a \in Agents : Serves(a) /\ label[a] > 0 =>
        /\ owner[label[a]] = a
        /\ Covered(label[a], stamp[a] - MaxDelay)

ClockInv ==
    \A a \in Agents :
        mode[a] \in {"rent1", "rent2", "batch"} =>
            clock[a] <= now /\ now <= clock[a] + MaxLoop

\* While a reliable master runs its map agrees with the table, and it is empty
\* during a sweep.
MapInv ==
    \A m \in Masters :
        /\ \A l \in Labels : leaseTime[m][l] <= now
        /\ Reliable => \A l \in Labels : leaseIp[m][l] \in {NoIp, owner[l]}
        /\ Reliable /\ victims[m] # {} => leaseIp[m] = NoLease

VictimInv ==
    \A m \in Masters : \A l \in victims[m] :
        owner[l] # NoIp /\ ftime[l] < now - (Expire + Freeze)

LabelInv == AnswerInv /\ ServeInv /\ ClockInv /\ MapInv /\ VictimInv

\* A label that the sweep has selected is neither served nor promised: the
\* heart of the argument, and the only place that needs Margin.
LEMMA VictimUnused ==
    ASSUME TypeOK, LabelInv, OneMaster, Margin, NEW m \in Masters, NEW l \in victims[m]
    PROVE  /\ \A r \in responses : r.kind = "label" => r.label # l
           /\ \A a \in Agents : Serves(a) => label[a] # l
  <1>1. /\ l \in Labels /\ l \in Nat /\ l > 0 /\ owner[l] # NoIp
        /\ ftime[l] \in Nat /\ now \in Nat /\ ftime[l] < now - (Expire + Freeze)
    BY DEF TypeOK, MasterTypeOK, NetTypeOK, Labels, LabelInv, VictimInv
  <1>2. MaxDelay \in Nat /\ MaxLoop \in Nat /\ Expire \in Nat /\ Freeze \in Nat
    BY NetAssumption, AgentAssumption, FreezeNat DEF NetAssumption, AgentAssumption
  <1>3. /\ MaxDelay + MaxLoop <= Freeze
        /\ ~Reliable => MaxDelay + MaxLoop + Expire <= Freeze
    <2>1. CASE Reliable
      BY <1>2, <2>1 DEF Margin
    <2>2. CASE ~Reliable
      BY <1>2, <2>2 DEF Margin
    <2>3. QED
      BY <2>1, <2>2
  <1>4. ASSUME NEW t \in Int, Covered(l, t)
        PROVE  t <= ftime[l] \/ (~Reliable /\ t <= ftime[l] + Expire)
    <2>1. ASSUME Reliable, NEW n \in Masters, leaseIp[n][l] = owner[l]
          PROVE  FALSE
      <3>1. n = m
        BY DEF OneMaster
      <3>2. leaseIp[m] = NoLease
        BY <2>1 DEF LabelInv, MapInv
      <3>3. QED
        BY <1>1, <2>1, <3>1, <3>2 DEF NoLease
    <2>2. QED
      BY <1>4, <2>1 DEF Covered
  <1>5. ASSUME NEW r \in responses, r.kind = "label", r.label = l PROVE FALSE
    <2>1. r.sent \in Nat
      BY DEF TypeOK, NetTypeOK, Response
    <2>2. Covered(l, r.sent) /\ now <= r.sent + MaxDelay
      BY <1>5 DEF LabelInv, AnswerInv, Kept
    <2>3. r.sent <= ftime[l] \/ (~Reliable /\ r.sent <= ftime[l] + Expire)
      BY <1>4, <2>1, <2>2
    <2>4. QED
      BY <1>1, <1>2, <1>3, <2>1, <2>2, <2>3
  <1>6. ASSUME NEW a \in Agents, Serves(a), label[a] = l PROVE FALSE
    <2>1. stamp[a] \in Int /\ clock[a] \in Nat
      BY DEF TypeOK, AgentTypeOK
    <2>2. Covered(l, stamp[a] - MaxDelay)
      BY <1>1, <1>6 DEF LabelInv, ServeInv
    <2>3. \/ stamp[a] - MaxDelay <= ftime[l]
          \/ ~Reliable /\ stamp[a] - MaxDelay <= ftime[l] + Expire
      BY <1>2, <1>4, <2>1, <2>2
    <2>4. Reading(a) \in Nat /\ now <= Reading(a) + MaxLoop
      BY <1>1, <1>2, <2>1 DEF Reading, LabelInv, ClockInv
    <2>5. Reading(a) - stamp[a] <= Expire
      BY <1>2, <1>6, <2>1, <2>4 DEF Serves, LabelExpired
    <2>6. QED
      BY <1>1, <1>2, <1>3, <2>1, <2>3, <2>4, <2>5
  <1>7. QED
    BY <1>5, <1>6

\* Initially nothing is served, promised or swept.
LEMMA InitLabelInv == Init => LabelInv
  <1> SUFFICES ASSUME Init PROVE LabelInv
    OBVIOUS
  <1>1. AnswerInv
    BY DEF Init, NetInit, AnswerInv
  <1>2. ServeInv /\ ClockInv
    BY DEF Init, AgentInit, ServeInv, ClockInv, Serves
  <1>3. MapInv /\ VictimInv
    BY DEF Init, NetInit, MasterInit, MapInv, VictimInv, NoLease
  <1>4. QED
    BY <1>1, <1>2, <1>3 DEF LabelInv

\* Labels with a row: all that is served or promised is among them.
LEMMA UsedHasRow ==
    ASSUME TypeOK, LabelInv
    PROVE  /\ \A a \in Agents : Serves(a) /\ label[a] > 0 =>
                label[a] \in Labels /\ owner[label[a]] # NoIp
           /\ \A r \in responses : r.kind = "label" =>
                r.label \in Labels /\ owner[r.label] # NoIp
  <1>1. ASSUME NEW a \in Agents, Serves(a), label[a] > 0
        PROVE  label[a] \in Labels /\ owner[label[a]] # NoIp
    BY <1>1, MasterAssumption, NetAssumption
       DEF TypeOK, AgentTypeOK, Labels, LabelInv, ServeInv, MasterAssumption, NetAssumption
  <1>2. ASSUME NEW r \in responses, r.kind = "label"
        PROVE  r.label \in Labels /\ owner[r.label] # NoIp
    BY <1>2, MasterAssumption
       DEF TypeOK, NetTypeOK, Response, LabelInv, AnswerInv, Kept, MasterAssumption
  <1>3. QED
    BY <1>1, <1>2

\* What a step that leaves the agents and the time alone keeps: it is enough
\* that rows in use are kept and what covered an answer still does.
LEMMA RowsKept ==
    ASSUME TypeOK, LabelInv, UNCHANGED <<now, agentVars>>,
           NEW used \in SUBSET Labels,
           \A a \in Agents : Serves(a) /\ label[a] > 0 => label[a] \in used,
           \A r \in responses : r.kind = "label" => r.label \in used,
           \A l \in used : owner'[l] = owner[l],
           \A l \in used, t \in Int : Covered(l, t) => Covered(l, t)'
    PROVE  /\ ServeInv'
           /\ ClockInv'
           /\ \A r \in responses : r.kind = "label" => Kept(r)'
  <1>1. ClockInv'
    BY DEF LabelInv, ClockInv, agentVars
  <1>2. ASSUME NEW a \in Agents PROVE Serves(a)' <=> Serves(a)
    BY SMTT(60) DEF Serves, LabelExpired, Reading, agentVars
  <1>3. ASSUME NEW a \in Agents, Serves(a)', (label[a] > 0)'
        PROVE  owner'[label'[a]] = a /\ Covered(label[a], stamp[a] - MaxDelay)'
    <2>1. Serves(a) /\ label[a] > 0 /\ label' = label /\ stamp' = stamp
      BY <1>2, <1>3 DEF agentVars
    <2>2. stamp[a] - MaxDelay \in Int
      BY NetAssumption DEF NetAssumption, TypeOK, AgentTypeOK
    <2>3. label[a] \in used /\ owner[label[a]] = a /\ Covered(label[a], stamp[a] - MaxDelay)
      BY <2>1 DEF LabelInv, ServeInv
    <2>4. QED
      BY <2>1, <2>2, <2>3 DEF Covered
  <1>4. ASSUME NEW r \in responses, r.kind = "label" PROVE Kept(r)'
    <2>1. r.sent \in Int
      BY DEF TypeOK, NetTypeOK, Response
    <2>2. Kept(r) /\ r.label \in used
      BY <1>4 DEF LabelInv, AnswerInv
    <2>3. Covered(r.label, r.sent)'
      BY <2>1, <2>2 DEF Kept
    <2>4. QED
      BY <2>2, <2>3 DEF Kept
  <1>5. QED
    BY <1>1, <1>3, <1>4 DEF ServeInv

\* prepare_response_get_label(): a label that is granted has the row of the
\* agent, valid or new, and the renewal is noted, so the answer is covered.
LEMMA GrantKeeps ==
    ASSUME TypeOK, LabelInv, OneMaster, NEW m \in Masters, victims[m] = {},
           NEW ip \in Agents, NEW l \in Labels, Grant(m, ip, l),
           UNCHANGED <<now, victims, agentVars>>,
           owner' \in [Labels -> Agents \cup {NoIp}], ftime' \in [Labels -> Nat],
           owner'[l] = ip, now <= ftime'[l] + Expire,
           \A k \in Labels : owner[k] # NoIp => owner'[k] = owner[k] /\ ftime'[k] = ftime[k],
           \A k \in Labels \ {l} : owner'[k] = owner[k]
    PROVE  LabelInv'
  <1> DEFINE used == {k \in Labels : owner[k] # NoIp}
  <1>1. /\ now \in Nat /\ NoIp # ip /\ owner[l] \in {NoIp, ip} /\ MaxDelay \in Nat
        /\ \A n \in Masters, k \in Labels : leaseTime[n][k] \in Nat /\ leaseTime[n][k] <= now
    BY MasterAssumption, NetAssumption
       DEF TypeOK, NetTypeOK, MasterTypeOK, MasterAssumption, NetAssumption, LabelInv, MapInv
  <1>2. /\ \A n \in Masters, k \in Labels :
             leaseIp'[n][k] = IF n = m /\ k = l /\ leaseIp[m][l] = NoIp THEN ip ELSE leaseIp[n][k]
        /\ \A n \in Masters, k \in Labels :
             leaseTime'[n][k] = IF n = m /\ k = l THEN now ELSE leaseTime[n][k]
    BY SMTT(60) DEF Grant, TypeOK, MasterTypeOK
  <1>3. ASSUME NEW k \in used, NEW t \in Int, Covered(k, t) PROVE Covered(k, t)'
    <2>1. k \in Labels /\ owner[k] # NoIp /\ owner'[k] = owner[k] /\ ftime'[k] = ftime[k]
      OBVIOUS
    <2>2. CASE t <= ftime[k] \/ (~Reliable /\ t <= ftime[k] + Expire)
      BY <2>1, <2>2 DEF Covered
    <2>3. ASSUME Reliable, NEW n \in Masters, leaseIp[n][k] = owner[k], t <= leaseTime[n][k]
          PROVE  Covered(k, t)'
      <3>1. leaseIp'[n][k] = owner'[k] /\ t <= leaseTime'[n][k]
        BY SMTT(60), <1>1, <1>2, <2>1, <2>3
      <3>2. QED
        BY <2>3, <3>1 DEF Covered
    <2>4. QED
      BY SMTT(60), <1>3, <2>2, <2>3 DEF Covered
  <1>4. ServeInv' /\ ClockInv' /\ \A r \in responses : r.kind = "label" => Kept(r)'
    BY ZenonT(20), <1>3, UsedHasRow, RowsKept
  <1>5. Reliable => leaseIp'[m][l] = ip
    BY <1>1, <1>2 DEF LabelInv, MapInv
  <1>6. Covered(l, now)'
    BY <1>1, <1>2, <1>5 DEF Covered
  <1>7. AnswerInv'
    <2> DEFINE new == [to |-> ip, kind |-> "label", label |-> l, sent |-> now]
    <2>1. Kept(new)'
      BY <1>1, <1>6 DEF Kept
    <2>2. responses' = responses \cup {new}
      BY DEF Grant, SendResponse
    <2>3. QED
      BY SMTT(60), <1>4, <2>1, <2>2 DEF AnswerInv
  <1>8. VictimInv'
    BY DEF VictimInv, OneMaster
  <1>9. MapInv'
    <2>1. ASSUME NEW n \in Masters, NEW k \in Labels
          PROVE  leaseTime'[n][k] <= now' /\ (Reliable => leaseIp'[n][k] \in {NoIp, owner'[k]})
      BY <1>1, <1>2, <1>5 DEF LabelInv, MapInv, OneMaster
    <2>2. QED
      BY <2>1 DEF MapInv, OneMaster
  <1>10. QED
    BY <1>4, <1>7, <1>8, <1>9 DEF LabelInv

\* on_timeout() up to its SELECT: what the map covered the table covers now.
LEMMA FlushKeeps ==
    ASSUME TypeOK, LabelInv, OneMaster, NEW m \in Masters, NEW written \in SUBSET Renewals(m),
           FlushAndSelect(m, written), UNCHANGED agentVars,
           Reliable => written = Renewals(m) /\ ClearLeases(m),
           ClearLeases(m) \/ UNCHANGED mapVars
    PROVE  LabelInv'
  <1> DEFINE used == {k \in Labels : owner[k] # NoIp}
  <1>1. /\ now \in Nat /\ Expire \in Nat /\ UNCHANGED <<now, requests, responses, pool, owner>>
        /\ \A k \in Labels : ftime[k] \in Nat
        /\ \A n \in Masters, k \in Labels : leaseTime[n][k] \in Nat /\ leaseTime[n][k] <= now
        /\ \A n \in Masters : n = m
    BY NetAssumption DEF TypeOK, NetTypeOK, MasterTypeOK, NetAssumption, LabelInv, MapInv,
                         FlushAndSelect, netVars, OneMaster
  <1>2. \A k \in Labels : ftime'[k] = IF k \in written THEN leaseTime[m][k] ELSE ftime[k]
    BY DEF FlushAndSelect
  <1>3. \A k \in Labels : ftime'[k] \in Nat /\ ftime[k] <= ftime'[k]
    BY <1>1, <1>2 DEF Renewals
  <1>4. ASSUME NEW k \in used, NEW t \in Int, Covered(k, t) PROVE Covered(k, t)'
    <2>1. k \in Labels /\ owner[k] # NoIp
      OBVIOUS
    <2>2. CASE t <= ftime[k] \/ (~Reliable /\ t <= ftime[k] + Expire)
      BY <1>1, <1>3, <2>1, <2>2 DEF Covered
    <2>3. CASE Reliable /\ leaseIp[m][k] = owner[k] /\ t <= leaseTime[m][k]
      <3>1. leaseTime[m][k] <= ftime'[k]
        BY SMTT(60), <1>1, <1>2, <2>1, <2>3 DEF Renewals
      <3>2. QED
        BY SMTT(60), <1>1, <1>3, <2>1, <2>3, <3>1 DEF Covered
    <2>4. QED
      BY <1>1, <1>4, <2>2, <2>3 DEF Covered
  <1>5. ServeInv' /\ ClockInv' /\ \A r \in responses : r.kind = "label" => Kept(r)'
    BY ZenonT(20), <1>1, <1>4, UsedHasRow, RowsKept
  <1>6. AnswerInv'
    BY ZenonT(20), <1>1, <1>5 DEF AnswerInv
  <1>7. VictimInv'
    BY <1>1 DEF VictimInv, FlushAndSelect, TypeOK, MasterTypeOK
  <1>8. MapInv'
    <2>1. CASE ClearLeases(m)
      <3>1. leaseIp'[m] = NoLease /\ \A k \in Labels : leaseTime'[m][k] = 0
        BY <2>1 DEF ClearLeases, TypeOK, MasterTypeOK
      <3>2. QED
        BY <1>1, <3>1 DEF MapInv, NoLease
    <2>2. CASE ~Reliable /\ UNCHANGED mapVars
      BY <1>1, <2>2 DEF MapInv, mapVars
    <2>3. QED
      BY SMTT(60), <2>1, <2>2
  <1>9. QED
    BY <1>5, <1>6, <1>7, <1>8 DEF LabelInv

\* One label recycled by on_timeout(): nobody uses it.
LEMMA RecycleKeeps ==
    ASSUME TypeOK, LabelInv, OneMaster, Margin, NEW m \in Masters, NEW l \in Labels,
           Recycle(m, l), UNCHANGED agentVars
    PROVE  LabelInv'
  <1> DEFINE used == Labels \ {l}
  <1>1. /\ l \in victims[m] /\ UNCHANGED <<now, requests, responses, leaseIp, leaseTime>>
        /\ \A n \in Masters : n = m
        /\ \A k \in used : owner'[k] = owner[k] /\ ftime'[k] = ftime[k]
        /\ victims'[m] = victims[m] \ {l} /\ owner'[l] = NoIp
    BY SMTT(60) DEF Recycle, netVars, mapVars, OneMaster, TypeOK, MasterTypeOK
  <1>2. ASSUME NEW k \in used, NEW t \in Int, Covered(k, t) PROVE Covered(k, t)'
    BY <1>1, <1>2 DEF Covered
  <1>3. /\ \A a \in Agents : Serves(a) /\ label[a] > 0 => label[a] \in used
        /\ \A r \in responses : r.kind = "label" => r.label \in used
    BY SMTT(60), <1>1, UsedHasRow, VictimUnused
  <1>4. ServeInv' /\ ClockInv' /\ \A r \in responses : r.kind = "label" => Kept(r)'
    BY ZenonT(20), <1>1, <1>2, <1>3, RowsKept
  <1>5. AnswerInv'
    BY <1>1, <1>4 DEF AnswerInv
  <1>6. VictimInv'
    <2>1. \A k \in victims[m] : k \in Labels
      BY SMTT(60) DEF TypeOK, MasterTypeOK
    <2>2. QED
      BY <1>1, <2>1 DEF LabelInv, VictimInv
  <1>7. MapInv'
    <2>1. Reliable => leaseIp[m] = NoLease
      BY <1>1 DEF LabelInv, MapInv
    <2>2. QED
      BY SMTT(60), <1>1, <2>1 DEF LabelInv, MapInv, NoLease
  <1>8. QED
    BY <1>4, <1>5, <1>6, <1>7 DEF LabelInv

\* A step that changes neither the rows of labels in use nor the answers that
\* grant one, and empties or keeps the map and the sweep.
LEMMA OtherKeeps ==
    ASSUME TypeOK, LabelInv, OneMaster, NEW m \in Masters,
           UNCHANGED <<now, agentVars>>,
           \A r \in responses' : r \in responses \/ r.kind # "label",
           \A k \in Labels : owner[k] # NoIp => owner'[k] = owner[k] /\ ftime'[k] = ftime[k],
           \/ UNCHANGED mapVars
           \/ ~Reliable /\ ClearLeases(m),
           victims'[m] \subseteq victims[m],
           Reliable => owner' = owner
    PROVE  LabelInv'
  <1> DEFINE used == {k \in Labels : owner[k] # NoIp}
  <1>1. \A n \in Masters : n = m
    BY DEF OneMaster
  <1>2. ASSUME NEW k \in used, NEW t \in Int, Covered(k, t) PROVE Covered(k, t)'
    <2>1. k \in Labels /\ owner[k] # NoIp /\ owner'[k] = owner[k] /\ ftime'[k] = ftime[k]
      OBVIOUS
    <2>2. CASE UNCHANGED mapVars
      BY <1>2, <2>1, <2>2 DEF Covered, mapVars
    <2>3. CASE ~Reliable
      BY SMTT(60), <1>2, <2>1, <2>3 DEF Covered
    <2>4. QED
      BY <2>2, <2>3
  <1>3. ServeInv' /\ ClockInv' /\ \A r \in responses : r.kind = "label" => Kept(r)'
    BY ZenonT(20), <1>2, UsedHasRow, RowsKept
  <1>4. AnswerInv'
    BY <1>3 DEF AnswerInv
  <1>5. VictimInv'
    <2>1. \A k \in victims[m] : k \in Labels
      BY SMTT(60) DEF TypeOK, MasterTypeOK
    <2>2. QED
      BY <1>1, <2>1 DEF LabelInv, VictimInv
  <1>6. MapInv'
    <2>1. CASE UNCHANGED mapVars
      BY SMTT(60), <1>1, <2>1 DEF LabelInv, MapInv, mapVars
    <2>2. CASE ~Reliable /\ ClearLeases(m)
      <3>1. now \in Nat /\ \A k \in Labels : leaseTime'[m][k] = 0
        BY <2>2 DEF ClearLeases, TypeOK, NetTypeOK, MasterTypeOK
      <3>2. QED
        BY <1>1, <2>2, <3>1 DEF MapInv
    <2>3. QED
      BY <2>1, <2>2
  <1>7. QED
    BY <1>3, <1>4, <1>5, <1>6 DEF LabelInv

\* Every step of the one master keeps the invariant.
LEMMA MasterStepKeeps ==
    ASSUME TypeOK, LabelInv, OneMaster, Margin, NEW m \in Masters, MasterStep(m),
           UNCHANGED agentVars
    PROVE  LabelInv'
  <1> USE DEF netVars, dbVars, mapVars, masterVars
  <1>1. TypeOK'
    BY MasterStepType DEF TypeOK, agentVars, AgentTypeOK
  <1>2. ASSUME NEW q \in requests
        PROVE  q \in Request /\ q.from \in Agents /\ q.label \in 0..LabelMax
    BY DEF TypeOK, NetTypeOK, Request
  <1>3. /\ Expire \in Nat /\ now \in Nat /\ \A l \in Labels : ftime[l] \in Nat
        /\ owner' \in [Labels -> Agents \cup {NoIp}] /\ ftime' \in [Labels -> Nat]
    BY SMTT(60), <1>1, NetAssumption DEF NetAssumption, TypeOK, NetTypeOK, MasterTypeOK
  <1>4. ASSUME NEW q \in requests, NEW l \in Labels, HoldValidLabel(q.from, l),
               victims[m] = {}, Grant(m, q.from, l), UNCHANGED <<now, dbVars, victims>>
        PROVE  LabelInv'
    <2>1. owner[l] = q.from /\ now <= ftime[l] + Expire
      BY SMTT(60), <1>3, <1>4 DEF HoldValidLabel, Unexpired
    <2>2. QED
      BY SMTT(60), <1>2, <1>3, <1>4, <2>1, GrantKeeps
  <1>5. ASSUME NEW q \in requests, Renew(m, q) PROVE LabelInv'
    <2>1. CASE HoldValidLabel(q.from, q.label) /\ Grant(m, q.from, q.label)
      <3>1. q.label \in Labels
        BY SMTT(60), <1>2, <1>5, NetAssumption DEF Renew, Labels, NetAssumption
      <3>2. QED
        BY SMTT(60), <1>4, <1>5, <2>1, <3>1 DEF Renew
    <2>2. CASE ~HoldValidLabel(q.from, q.label)
      <3>1. \A r \in responses' : r \in responses \/ r.kind # "label"
        <4> DEFINE n == [to |-> q.from, kind |-> "nothold", label |-> 0, sent |-> now]
        <4>1. responses' = responses \cup {n}
          BY ZenonT(20), <1>5, <2>2 DEF Renew, SendResponse
        <4>2. n.kind # "label"
          OBVIOUS
        <4> HIDE DEF n
        <4>3. QED
          BY SMTT(60), <4>1, <4>2
      <3>2. QED
        BY <1>5, <2>2, <3>1, OtherKeeps DEF Renew
    <2>3. QED
      BY ZenonT(20), <1>5, <2>1, <2>2 DEF Renew
  <1>6. ASSUME NEW q \in requests, RentHeld(m, q) PROVE LabelInv'
    <2>1. PICK l \in LabelsOf(q.from) : Grant(m, q.from, l)
      BY <1>6 DEF RentHeld
    <2>2. l \in Labels /\ HoldValidLabel(q.from, l)
      BY DEF LabelsOf
    <2>3. QED
      BY SMTT(60), <1>4, <1>6, <2>1, <2>2 DEF RentHeld
  <1>7. ASSUME NEW q \in requests, NEW l \in pool, owner[l] = NoIp, MoveOnline(q.from, l)
        PROVE  /\ l \in Labels /\ owner'[l] = q.from /\ now <= ftime'[l] + Expire
               /\ \A k \in Labels \ {l} : owner'[k] = owner[k] /\ ftime'[k] = ftime[k]
    BY SMTT(60), <1>3, <1>7 DEF MoveOnline, TypeOK, MasterTypeOK
  <1>8. ASSUME NEW q \in requests, RentNew(m, q) PROVE LabelInv'
    <2>1. PICK l \in pool : owner[l] = NoIp /\ MoveOnline(q.from, l) /\ Grant(m, q.from, l)
      BY SMTT(60), <1>8 DEF RentNew
    <2>2. /\ l \in Labels /\ owner'[l] = q.from /\ now <= ftime'[l] + Expire
          /\ \A k \in Labels \ {l} : owner'[k] = owner[k] /\ ftime'[k] = ftime[k]
      BY SMTT(60), <1>7, <2>1
    <2>3. \A k \in Labels : owner[k] # NoIp => owner'[k] = owner[k] /\ ftime'[k] = ftime[k]
      BY SMTT(60), <2>1, <2>2
    <2>4. QED
      BY SMTT(60), <1>2, <1>3, <1>8, <2>1, <2>2, <2>3, GrantKeeps DEF RentNew
  <1>9. ASSUME NEW q \in requests, RentUnknown(m, q) PROVE LabelInv'
    <2>1. PICK l \in pool : owner[l] = NoIp /\ MoveOnline(q.from, l)
      BY SMTT(60), <1>9 DEF RentUnknown
    <2>2. \A k \in Labels : owner[k] # NoIp => owner'[k] = owner[k] /\ ftime'[k] = ftime[k]
      BY SMTT(60), <1>7, <2>1
    <2>3. QED
      BY SMTT(60), <1>9, <2>2, OtherKeeps DEF RentUnknown, Reliable
  <1>10. ASSUME NEW q \in requests, RentNone(m, q) \/ RentError(m, q) PROVE LabelInv'
    BY <1>10, OtherKeeps DEF RentNone, RentError
  <1>11. CASE OnTimeout(m)
    BY <1>11, FlushKeeps DEF OnTimeout
  <1>12. CASE OnTimeoutDbError(m)
    BY <1>12, FlushKeeps DEF OnTimeoutDbError, Reliable
  <1>13. ASSUME NEW l \in Labels, Recycle(m, l) PROVE LabelInv'
    BY SMTT(60), <1>13, RecycleKeeps
  <1>14. ASSUME NEW l \in Labels, RecycleGone(m, l) \/ RecycleAborted(m, l) PROVE LabelInv'
    <2>1. victims'[m] \subseteq victims[m]
      BY SMTT(60), <1>14 DEF RecycleGone, RecycleAborted, TypeOK, MasterTypeOK
    <2>2. QED
      BY <1>14, <2>1, OtherKeeps DEF RecycleGone, RecycleAborted
  <1>15. CASE MasterCrash(m)
    <2>1. victims'[m] = {}
      BY <1>15 DEF MasterCrash, TypeOK, MasterTypeOK
    <2>2. QED
      BY <1>15, <2>1, OtherKeeps DEF MasterCrash, Reliable
  <1>16. QED
    BY <1>5, <1>6, <1>8, <1>9, <1>10, <1>11, <1>12, <1>13, <1>14, <1>15 DEF MasterStep

-----------------------------------------------------------------------------
(* The steps of agents and of time                                         *)

\* What a step of one agent leaves alone: the time, the answers under way and
\* the other agents.
OthersAlone(a) ==
    /\ UNCHANGED <<now, responses>>
    /\ \A b \in Agents \ {a} : /\ mode'[b] = mode[b] /\ clock'[b] = clock[b]
                              /\ label'[b] = label[b] /\ stamp'[b] = stamp[b]

\* A step of one agent keeps the invariant if what it then serves is covered
\* and its clock is not ahead.
LEMMA AgentFrame ==
    ASSUME TypeOK, LabelInv, NEW a \in Agents, OthersAlone(a), UNCHANGED masterVars,
           mode'[a] \in {"rent1", "rent2", "batch"} =>
               clock'[a] <= now /\ now <= clock'[a] + MaxLoop,
           Serves(a)' /\ label'[a] > 0 =>
               owner[label'[a]] = a /\ Covered(label'[a], stamp'[a] - MaxDelay)
    PROVE  LabelInv'
  <1> USE DEF masterVars, dbVars, mapVars, OthersAlone
  <1>1. AnswerInv' /\ MapInv' /\ VictimInv'
    BY DEF LabelInv, AnswerInv, Kept, Covered, MapInv, VictimInv
  <1>2. ClockInv'
    BY DEF LabelInv, ClockInv
  <1>3. ASSUME NEW b \in Agents, Serves(b)', label'[b] > 0
        PROVE  owner'[label'[b]] = b /\ Covered(label[b], stamp[b] - MaxDelay)'
    <2>1. CASE b = a
      BY <1>3, <2>1 DEF Covered
    <2>2. CASE b # a
      <3>1. Serves(b) /\ label[b] > 0
        BY <1>3, <2>2 DEF Serves, LabelExpired, Reading
      <3>2. QED
        BY <2>2, <3>1 DEF LabelInv, ServeInv, Covered
    <2>3. QED
      BY <2>1, <2>2
  <1>4. QED
    BY <1>1, <1>2, <1>3 DEF LabelInv, ServeInv

\* Every step of an agent is local in that sense.
LEMMA AgentStepLocal ==
    ASSUME TypeOK, NEW a \in Agents, AgentStep(a)
    PROVE  OthersAlone(a)
  <1> USE DEF netVars
  <1>1. /\ mode \in [Agents -> {"down", "rent1", "rent2", "idle", "batch"}]
        /\ clock \in [Agents -> Nat] /\ label \in [Agents -> 0..LabelMax]
        /\ stamp \in [Agents -> Int]
    BY DEF TypeOK, AgentTypeOK
  <1> USE DEF OthersAlone
  <1>2. CASE StartRent(a)
    BY <1>1, <1>2 DEF StartRent
  <1>3. CASE StartUnexpired(a)
    BY <1>1, <1>3 DEF StartUnexpired
  <1>4. ASSUME NEW r \in responses, RentAnswered(a, r) PROVE OthersAlone(a)
    BY <1>1, <1>4 DEF RentAnswered
  <1>5. ASSUME NEW r \in responses, RentAgain(a, r) PROVE OthersAlone(a)
    BY <1>1, <1>5 DEF RentAgain
  <1>6. CASE Wake(a)
    BY <1>1, <1>6 DEF Wake
  <1>7. ASSUME NEW r \in responses, OnResponseLabel(a, r) PROVE OthersAlone(a)
    BY <1>1, <1>7 DEF OnResponseLabel
  <1>8. ASSUME NEW r \in responses, OnResponseError(a, r) PROVE OthersAlone(a)
    BY <1>1, <1>8 DEF OnResponseError
  <1>9. CASE ServeAndStore(a)
    BY <1>9 DEF ServeAndStore
  <1>10. CASE EndBatch(a)
    BY <1>1, <1>10 DEF EndBatch
  <1>11. CASE AgentDies(a)
    BY <1>1, <1>11 DEF AgentDies
  <1> HIDE DEF OthersAlone
  <1>12. QED
    BY <1>2, <1>3, <1>4, <1>5, <1>6, <1>7, <1>8, <1>9, <1>10, <1>11 DEF AgentStep

\* Every step of an agent keeps the invariant: it serves a new label only on an
\* answer that is covered, and stamps it no later than it reads the answer.
LEMMA AgentStepKeeps ==
    ASSUME TypeOK, LabelInv, NEW a \in Agents, AgentStep(a), UNCHANGED masterVars
    PROVE  LabelInv'
  <1> USE DEF netVars
  <1>1. /\ now \in Nat /\ MaxLoop \in Nat /\ MaxDelay \in Nat /\ clock[a] \in Nat
        /\ Expire \in Nat /\ stamp[a] \in Int
        /\ mode \in [Agents -> {"down", "rent1", "rent2", "idle", "batch"}]
        /\ clock \in [Agents -> Nat] /\ label \in [Agents -> 0..LabelMax]
        /\ stamp \in [Agents -> Int]
    BY NetAssumption, AgentAssumption
       DEF NetAssumption, AgentAssumption, TypeOK, NetTypeOK, AgentTypeOK
  <1>0. OthersAlone(a)
    BY AgentStepLocal
  <1>2. ASSUME NEW r \in responses, r.to = a, r.kind = "label", NEW t \in Int, t <= now
        PROVE  owner[r.label] = a /\ Covered(r.label, t - MaxDelay)
    <2>1. r.sent \in Nat /\ r.label \in Labels
      BY <1>2 DEF TypeOK, NetTypeOK, Response, LabelInv, AnswerInv, Kept
    <2>2. Kept(r)
      BY <1>2 DEF LabelInv, AnswerInv
    <2>3. t - MaxDelay <= r.sent
      BY <1>1, <1>2, <2>1, <2>2 DEF Kept
    <2>4. /\ ftime[r.label] \in Nat
          /\ \A m \in Masters : leaseTime[m][r.label] \in Nat
      BY <2>1 DEF TypeOK, MasterTypeOK
    <2>5. QED
      BY <1>1, <1>2, <2>1, <2>2, <2>3, <2>4 DEF Kept, Covered
  <1>3. CASE StartRent(a)
    <2>1. mode'[a] = "rent1" /\ clock'[a] = now
      BY <1>1, <1>3 DEF StartRent
    <2>2. ~Serves(a)'
      BY <2>1 DEF Serves
    <2>3. QED
      BY <1>0, <1>1, <2>1, <2>2, AgentFrame
  <1>4. CASE StartUnexpired(a)
    <2>1. mode'[a] = "idle" /\ label'[a] = 0
      BY <1>1, <1>4 DEF StartUnexpired
    <2>2. QED
      BY <1>0, <2>1, AgentFrame
  <1>5. ASSUME NEW r \in responses, RentAnswered(a, r) PROVE LabelInv'
    <2>1. clock[a] <= now
      BY <1>5 DEF RentAnswered, LabelInv, ClockInv
    <2>2. owner[r.label] = a /\ Covered(r.label, clock[a] - MaxDelay)
      BY <1>1, <1>2, <1>5, <2>1 DEF RentAnswered
    <2>3. label'[a] = r.label /\ stamp'[a] = clock[a] /\ mode'[a] = "idle"
      BY <1>1, <1>5 DEF RentAnswered
    <2>4. QED
      BY <1>0, <2>2, <2>3, AgentFrame
  <1>6. ASSUME NEW r \in responses, RentAgain(a, r) PROVE LabelInv'
    <2>1. mode'[a] = "rent2" /\ clock'[a] = clock[a] /\ mode[a] = "rent1"
      BY <1>1, <1>6 DEF RentAgain
    <2>2. ~Serves(a)'
      BY <2>1 DEF Serves
    <2>3. clock[a] <= now /\ now <= clock[a] + MaxLoop
      BY <2>1 DEF LabelInv, ClockInv
    <2>4. QED
      BY <1>0, <2>1, <2>2, <2>3, AgentFrame
  <1>7. CASE Wake(a)
    <2>1. /\ mode'[a] = "batch" /\ clock'[a] = now
          /\ label' = label /\ stamp' = stamp /\ mode[a] = "idle" /\ now' = now
      BY <1>1, <1>7 DEF Wake
    <2>2. Serves(a)' => Serves(a)
      BY <2>1 DEF Serves, Reading, LabelExpired
    <2>3. QED
      BY <1>0, <1>1, <2>1, <2>2, AgentFrame DEF LabelInv, ServeInv
  <1>8. ASSUME NEW r \in responses, OnResponseLabel(a, r) PROVE LabelInv'
    <2>1. clock[a] <= now /\ now <= clock[a] + MaxLoop
      BY <1>8 DEF OnResponseLabel, LabelInv, ClockInv
    <2>2. owner[r.label] = a /\ Covered(r.label, clock[a] - MaxDelay)
      BY <1>1, <1>2, <1>8, <2>1 DEF OnResponseLabel
    <2>3. label'[a] = r.label /\ stamp'[a] = clock[a] /\ clock'[a] = clock[a]
      BY <1>1, <1>8 DEF OnResponseLabel
    <2>4. QED
      BY <1>0, <2>1, <2>2, <2>3, AgentFrame
  <1>9. ASSUME NEW r \in responses, OnResponseError(a, r) PROVE LabelInv'
    <2>1. /\ label'[a] = 0 /\ clock'[a] = clock[a]
          /\ clock[a] <= now /\ now <= clock[a] + MaxLoop
      BY <1>1, <1>9 DEF OnResponseError, LabelInv, ClockInv
    <2>2. QED
      BY <1>0, <2>1, AgentFrame
  <1>10. CASE ServeAndStore(a)
    <2>1. UNCHANGED <<now, mode, clock, label, stamp>>
      BY <1>10 DEF ServeAndStore
    <2>2. Serves(a)' => Serves(a)
      BY SMTT(60), <2>1 DEF Serves, Reading, LabelExpired
    <2>3. QED
      BY <1>0, <2>1, <2>2, AgentFrame DEF LabelInv, ServeInv, ClockInv
  <1>11. CASE EndBatch(a)
    <2>1. /\ clock[a] <= now /\ mode[a] = "batch" /\ mode'[a] = "idle"
          /\ UNCHANGED <<now, label, stamp>>
      BY <1>1, <1>11 DEF EndBatch, LabelInv, ClockInv
    <2>2. Serves(a)' => Serves(a)
      BY <1>1, <2>1 DEF Serves, Reading, LabelExpired
    <2>3. QED
      BY <1>0, <2>1, <2>2, AgentFrame DEF LabelInv, ServeInv
  <1>12. CASE AgentDies(a)
    <2>1. mode'[a] = "down"
      BY <1>1, <1>12 DEF AgentDies
    <2>2. ~Serves(a)'
      BY <2>1 DEF Serves
    <2>3. QED
      BY <1>0, <2>1, <2>2, AgentFrame
  <1>13. QED
    BY <1>3, <1>4, <1>5, <1>6, <1>7, <1>8, <1>9, <1>10, <1>11, <1>12 DEF AgentStep

\* Time keeps the invariant: answers too old are gone, agents only expire.
LEMMA TickKeeps ==
    ASSUME TypeOK, LabelInv, Tick
    PROVE  LabelInv'
  <1> USE DEF Tick, masterVars, dbVars, mapVars, agentVars
  <1>1. /\ now \in Nat /\ now' = now + 1 /\ MaxDelay \in Nat /\ MaxLoop \in Nat
        /\ Expire \in Nat /\ Freeze \in Nat
    BY NetAssumption, AgentAssumption, FreezeNat
       DEF NetAssumption, AgentAssumption, TypeOK, NetTypeOK
  <1>2. AnswerInv'
    <2>1. ASSUME NEW r \in responses', r.kind = "label" PROVE Kept(r)'
      <3>1. r \in responses /\ now + 1 <= r.sent + MaxDelay
        BY DEF Fresh
      <3>2. QED
        BY <2>1, <3>1 DEF LabelInv, AnswerInv, Kept, Covered
    <2>2. QED
      BY <2>1 DEF AnswerInv
  <1>3. ServeInv'
    <2>1. ASSUME NEW a \in Agents, Serves(a)' PROVE Serves(a)
      <3>1. stamp[a] \in Int /\ clock[a] \in Nat
        BY SMTT(60) DEF TypeOK, AgentTypeOK
      <3>2. QED
        BY <1>1, <2>1, <3>1 DEF Serves, Reading, LabelExpired
    <2>2. QED
      BY <2>1 DEF LabelInv, ServeInv, Covered
  <1>4. ClockInv'
    <2>1. ASSUME NEW a \in Agents, mode'[a] \in {"rent1", "rent2", "batch"}
          PROVE  clock'[a] <= now' /\ now' <= clock'[a] + MaxLoop
      <3>1. clock[a] \in Nat /\ clock[a] <= now /\ now + 1 - clock[a] <= MaxLoop
        BY <2>1 DEF TypeOK, AgentTypeOK, LabelInv, ClockInv
      <3>2. QED
        BY <1>1, <3>1
    <2>2. QED
      BY <2>1 DEF ClockInv
  <1>5. MapInv'
    <2>1. \A m \in Masters, l \in Labels : leaseTime[m][l] \in Nat
      BY DEF TypeOK, MasterTypeOK
    <2>2. QED
      BY <1>1, <2>1 DEF LabelInv, MapInv
  <1>6. VictimInv'
    <2>1. \A m \in Masters : \A l \in victims[m] : ftime[l] \in Nat
      BY DEF TypeOK, MasterTypeOK
    <2>2. QED
      BY <1>1, <2>1 DEF LabelInv, VictimInv
  <1>7. QED
    BY <1>2, <1>3, <1>4, <1>5, <1>6 DEF LabelInv

\* With one master and a freeze with that margin LabelInv always holds.
THEOREM LabelInvHolds ==
    ASSUME OneMaster, Margin
    PROVE  Spec => []LabelInv
  <1>1. TypeOK /\ LabelInv /\ [Next]_vars => LabelInv'
    <2> SUFFICES ASSUME TypeOK, LabelInv, [Next]_vars PROVE LabelInv'
      OBVIOUS
    <2>1. ASSUME NEW m \in Masters, MasterStep(m), UNCHANGED agentVars PROVE LabelInv'
      BY <2>1, MasterStepKeeps
    <2>2. ASSUME NEW a \in Agents, AgentStep(a), UNCHANGED masterVars PROVE LabelInv'
      BY <2>2, AgentStepKeeps
    <2>3. CASE Tick
      BY SMTT(60), <2>3, TickKeeps
    <2>4. CASE UNCHANGED vars
      BY <2>4 DEF vars, netVars, masterVars, dbVars, mapVars, agentVars, LabelInv, AnswerInv,
                  Kept, Covered, ServeInv, Serves, Reading, LabelExpired, ClockInv, MapInv,
                  VictimInv
    <2>5. QED
      BY <2>1, <2>2, <2>3, <2>4 DEF Next
  <1>2. QED
    BY InitLabelInv, TypeCorrect, <1>1, PTL DEF Spec

-----------------------------------------------------------------------------
(* The results                                                             *)

\* With one master and the margin, a label that an agent serves or is promised
\* keeps its row: on_timeout() never gives it away too early.
THEOREM RowKeptHolds ==
    ASSUME OneMaster, Margin
    PROVE  Spec => []RowKept
  <1>1. LabelInv => RowKept
    BY DEF LabelInv, ServeInv, AnswerInv, Kept, RowKept
  <1>2. QED
    BY <1>1, LabelInvHolds, PTL

\* With one master and the margin, no two agents ever answer clients with the
\* same label.
THEOREM LabelUniqueHolds ==
    ASSUME OneMaster, Margin
    PROVE  Spec => []LabelUnique
  <1>1. RowKept => LabelUnique
    BY DEF RowKept, LabelUnique
  <1>2. QED
    BY <1>1, RowKeptHolds, PTL

\* With one master that neither dies nor loses its database, on_timeout()
\* recycles no label that was renewed within expire and freeze.
THEOREM RenewedNotRecycledHolds ==
    ASSUME OneMaster, Margin, Reliable
    PROVE  Spec => RenewedNotRecycled
  <1> DEFINE Rule == \A l \in Labels : owner[l] # NoIp /\ owner'[l] = NoIp =>
                        /\ ftime[l] < now - (Expire + Freeze)
                        /\ \A m \in Masters : leaseIp[m][l] # NoIp =>
                              leaseTime[m][l] < now - (Expire + Freeze)
  <1>1. TypeOK /\ LabelInv /\ [Next]_vars => [Rule]_vars
    <2> SUFFICES ASSUME TypeOK, LabelInv, Next, NEW l \in Labels,
                        owner[l] # NoIp, owner'[l] = NoIp
                 PROVE  /\ ftime[l] < now - (Expire + Freeze)
                        /\ \A n \in Masters : leaseIp[n][l] = NoIp
      OBVIOUS
    <2>1. PICK m \in Masters : MasterStep(m)
      BY DEF Next, Tick, masterVars, dbVars
    <2>2. ASSUME NEW q \in requests, NEW k \in pool, MoveOnline(q.from, k) PROVE FALSE
      <3>1. q.from # NoIp
        BY SMTT(60), MasterAssumption DEF TypeOK, NetTypeOK, Request, MasterAssumption
      <3>2. QED
        BY <2>2, <3>1 DEF MoveOnline, TypeOK, MasterTypeOK
    <2>3. PICK k \in Labels : Recycle(m, k)
      BY ZenonT(20), <2>1, <2>2
         DEF MasterStep, Renew, RentHeld, RentNew, RentNone, RentError, RentUnknown,
             OnTimeout, OnTimeoutDbError, FlushAndSelect, RecycleGone, RecycleAborted,
             MasterCrash, masterVars, dbVars
    <2>4. k = l /\ l \in victims[m]
      BY <2>3 DEF Recycle, TypeOK, MasterTypeOK
    <2>5. ftime[l] < now - (Expire + Freeze)
      BY <2>4 DEF LabelInv, VictimInv
    <2>6. leaseIp[m] = NoLease /\ \A n \in Masters : n = m
      BY <2>4 DEF LabelInv, MapInv, OneMaster
    <2>7. QED
      BY <2>5, <2>6 DEF NoLease
  <1>2. QED
    BY <1>1, TypeCorrect, LabelInvHolds, PTL DEF Spec, RenewedNotRecycled

\* Any number of masters that are not restarted keep every label in exactly one
\* table: alloc_label() and on_timeout() move it in one transaction.
THEOREM ConservedHolds ==
    ASSUME Reliable
    PROVE  Spec => []Conserved
  <1>1. Init => Conserved
    BY DEF Init, MasterInit, Conserved
  <1>2. TypeOK /\ Conserved /\ [Next]_vars => Conserved'
    <2> SUFFICES ASSUME TypeOK, Conserved, [Next]_vars PROVE Conserved'
      OBVIOUS
    <2>1. ASSUME UNCHANGED <<pool, owner>> PROVE Conserved'
      BY SMTT(60), <2>1 DEF Conserved
    <2>2. ASSUME NEW m \in Masters, MasterStep(m) PROVE Conserved'
      <3>1. ASSUME NEW q \in requests, NEW k \in pool, MoveOnline(q.from, k) PROVE Conserved'
        <4>1. q.from # NoIp
          BY MasterAssumption DEF TypeOK, NetTypeOK, Request, MasterAssumption
        <4>2. QED
          BY <3>1, <4>1 DEF MoveOnline, Conserved, TypeOK, MasterTypeOK
      <3>2. ASSUME NEW k \in Labels, Recycle(m, k) PROVE Conserved'
        BY <3>2 DEF Recycle, Conserved, TypeOK, MasterTypeOK
      <3>3. QED
        BY ZenonT(20), <2>1, <2>2, <3>1, <3>2
           DEF MasterStep, Renew, RentHeld, RentNew, RentNone, RentError, RentUnknown,
               OnTimeout, OnTimeoutDbError, FlushAndSelect, RecycleGone, RecycleAborted,
               MasterCrash, masterVars, dbVars, Reliable
    <2>3. QED
      BY <2>1, <2>2 DEF Next, Tick, vars, masterVars, dbVars
  <1>3. QED
    BY <1>1, <1>2, TypeCorrect, PTL DEF Spec

\* Any number of masters, whatever fails and whoever dies, lose no label: it is in
\* the pool or has a row.
THEOREM NoneLostHolds == Spec => []NoneLost
  <1>1. Init => NoneLost
    BY DEF Init, MasterInit, NoneLost
  <1>2. TypeOK /\ NoneLost /\ [Next]_vars => NoneLost'
    <2> SUFFICES ASSUME TypeOK, NoneLost, [Next]_vars PROVE NoneLost'
      OBVIOUS
    <2>1. ASSUME UNCHANGED <<pool, owner>> PROVE NoneLost'
      BY SMTT(60), <2>1 DEF NoneLost
    <2>2. ASSUME NEW m \in Masters, MasterStep(m) PROVE NoneLost'
      <3>1. ASSUME NEW q \in requests, NEW k \in pool, MoveOnline(q.from, k) PROVE NoneLost'
        <4>1. q.from # NoIp
          BY MasterAssumption DEF TypeOK, NetTypeOK, Request, MasterAssumption
        <4>2. QED
          BY <3>1, <4>1 DEF MoveOnline, NoneLost, TypeOK, MasterTypeOK
      <3>2. ASSUME NEW k \in Labels, Recycle(m, k) PROVE NoneLost'
        BY <3>2 DEF Recycle, NoneLost, TypeOK, MasterTypeOK
      <3>3. ASSUME MasterCrash(m) PROVE NoneLost'
        BY <3>3 DEF MasterCrash, NoneLost
      <3>4. QED
        BY ZenonT(20), <2>1, <2>2, <3>1, <3>2, <3>3
           DEF MasterStep, Renew, RentHeld, RentNew, RentNone, RentError, RentUnknown,
               OnTimeout, OnTimeoutDbError, FlushAndSelect, RecycleGone, RecycleAborted,
               masterVars, dbVars
    <2>3. QED
      BY <2>1, <2>2 DEF Next, Tick, vars, masterVars, dbVars
  <1>3. QED
    BY <1>1, <1>2, TypeCorrect, PTL DEF Spec
=============================================================================
