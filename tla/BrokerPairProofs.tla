-------------------------- MODULE BrokerPairProofs --------------------------
(***************************************************************************)
(* Two brokers on one journal: for any number of sources, edges, actions   *)
(* and leases and any number of errors, an active lease is fenced off only *)
(* by a later one, and no row is settled twice; and, while the journal     *)
(* answers, no source lease is settled by the wrong broker.                *)
(***************************************************************************)
EXTENDS BrokerPair, TLAPS

IsActive(l) == status[l] = "active"

PEP == {"source", "relationship"}

\* A row exists only for a target that one of the brokers applies.
RowsHaveBroker ==
    \A l \in LeaseId : status[l] # "none" /\ body[l].tgt \in Source => "source" \in Brokers

\* A token names a lease of its target.
TokensOwnTarget ==
    \A b \in PEP, t \in Target :
        token[b][t] # None => status[token[b][t]] # "none" /\ body[token[b][t]].tgt = t

\* The token of a source names the lease that the maps hold for it.
TokenOfMaps == \A s \in Source : token["source"][s] = enf[s]

\* No PEP holds a token for a target of the other one.
NoForeignToken ==
    /\ \A e \in Edge : token["source"][e] = None
    /\ \A s \in Source : token["relationship"][s] = None

\* The token of an active lease is its own, or that of a later lease of another
\* action.
FencedOff ==
    \A l \in LeaseId, b \in PEP :
        IsActive(l) /\ token[b][body[l].tgt] \notin {l, None} =>
            /\ body[token[b][body[l].tgt]].action # body[l].action
            /\ body[token[b][body[l].tgt]].applied >= body[l].applied

AppliedInThePast == \A l \in LeaseId : status[l] # "none" => body[l].applied <= clock

\* The rows a pass has still to handle are active, or Apply found them fenced off.
TodoLive == \A l \in pass.todo : status[l] \in {"active", "conflict"}

PassInThePast == pass.now <= clock

\* The source leases that have expired at the time of the pass.
Overdue == {l \in LeaseId : IsActive(l) /\ body[l].tgt \in Source /\ body[l].expires <= pass.now}

\* What the order of the brokers is for: the source broker has all overdue source
\* leases on its list, and leaves none to the relationship broker.
SourceFirst ==
    faults.store = 0 =>
        /\ pass.at = "source" /\ pass.listed => Overdue \subseteq pass.todo
        /\ pass.at = "relationship" =>
              Overdue = {} /\ \A l \in pass.todo : body[l].tgt \notin Source

PairInv == /\ TypeOK /\ RowsHaveBroker /\ TokensOwnTarget /\ TokenOfMaps /\ NoForeignToken
           /\ FencedOff /\ AppliedInThePast /\ TodoLive /\ PassInThePast
           /\ SourceFirst /\ SettledSourceIsLifted

-----------------------------------------------------------------------------
\* The broker after this one is a broker or none; from the source broker a pass
\* goes to the relationship broker or ends, and it starts with the source broker
\* if there is one.
LEMMA SuccessorFact ==
    /\ \A b : Successor(b) \in {"idle", "source", "relationship"}
    /\ \A b : Successor(b) = "source" => b = "idle"
    /\ "source" \in Brokers => Successor("idle") = "source"
    /\ Successor("relationship") = "idle"
    /\ Successor("source") \in {"relationship", "idle"}
BY PairAssumption DEF Successor

\* What a pass looks like after its broker is done.
LEMMA NextBrokerFact ==
    ASSUME TypeOK, Running
    PROVE  /\ NextBroker \in [at : {"idle", "source", "relationship"}, now : Nat,
                              listed : BOOLEAN, todo : SUBSET LeaseId]
           /\ NextBroker.at \in {"idle", "relationship"}
           /\ NextBroker.at = "relationship" => pass.at = "source" /\ NextBroker.now = pass.now
           /\ NextBroker.now <= pass.now
           /\ NextBroker.listed = FALSE
           /\ NextBroker.todo = {}
BY SuccessorFact DEF NextBroker, IdlePass, TypeOK, Running

\* A journal error is counted.
LEMMA FaultFact ==
    ASSUME TypeOK, StoreFault
    PROVE  /\ faults' \in [edge : 0..MaxEdgeFaults, store : 0..MaxStoreFaults]
           /\ faults'.store # 0
BY PairAssumption DEF TypeOK, StoreFault

\* Init establishes the invariant.
LEMMA PairInit == Init => PairInv
<1> SUFFICES ASSUME Init PROVE PairInv
  OBVIOUS
<1>1. NoBody \in [tgt : Target, action : Action, applied : Nat, expires : Nat]
  BY PairAssumption DEF NoBody
<1>2. TypeOK
  BY <1>1, PairAssumption DEF Init, TypeOK, Status, IdlePass
<1>. QED
  BY <1>2, PairAssumption
     DEF Init, PairInv, RowsHaveBroker, TokensOwnTarget, TokenOfMaps, NoForeignToken, FencedOff,
         AppliedInThePast, TodoLive, PassInThePast, SourceFirst, SettledSourceIsLifted,
         IsActive, IdlePass, Target, PEP

-----------------------------------------------------------------------------
\* A renewal moves the expiry of an active row to the future and nothing else.
LEMMA RenewStep ==
    ASSUME PairInv, NEW b \in PEP, NEW t \in Target, NEW a \in Action, NEW ttl \in TTL,
           Renew(b, t, a, ttl)
    PROVE  PairInv'
<1>1. PICK l \in ActiveLease(t, a) : body' = [body EXCEPT ![l].expires = clock + ttl]
  BY DEF Renew
<1>2. ttl \in Nat \ {0} /\ clock \in Nat /\ pass.now \in Nat /\ l \in LeaseId
  BY <1>1, PairAssumption DEF ActiveLease, PairInv, TypeOK
<1>3. /\ body' \in [LeaseId -> [tgt : Target, action : Action, applied : Nat, expires : Nat]]
      /\ \A m \in LeaseId : /\ body'[m].tgt = body[m].tgt
                            /\ body'[m].action = body[m].action
                            /\ body'[m].applied = body[m].applied
      /\ \A m \in LeaseId : m # l => body'[m] = body[m]
      /\ body'[l].expires = clock + ttl
  BY <1>1, <1>2 DEF PairInv, TypeOK
<1>4. TypeOK'
  BY <1>3 DEF Renew, PairInv, TypeOK
<1>5. RowsHaveBroker' /\ AppliedInThePast' /\ TodoLive' /\ PassInThePast'
  BY <1>3 DEF Renew, PairInv, TypeOK, RowsHaveBroker, AppliedInThePast, TodoLive, PassInThePast
<1>6. TokenOfMaps' /\ SettledSourceIsLifted' /\ NoForeignToken'
  BY DEF Renew, PairInv, TokenOfMaps, SettledSourceIsLifted, NoForeignToken
<1>7. TokensOwnTarget' /\ FencedOff'
  <2>1. \A c \in PEP, u \in Target : token[c][u] \in LeaseId \cup {None}
    BY DEF PairInv, TypeOK, PEP
  <2>2. UNCHANGED <<status, token>>
    BY DEF Renew
  <2>3. TokensOwnTarget'
    BY <1>3, <2>1, <2>2 DEF PairInv, TokensOwnTarget
  <2>4. \A m \in LeaseId : body[m].tgt \in Target
    BY DEF PairInv, TypeOK
  <2>5. FencedOff'
    BY <1>3, <2>1, <2>2, <2>4 DEF PairInv, FencedOff, IsActive
  <2>. QED BY <2>3, <2>5
<1>8. SourceFirst'
  <2>1. ~ body'[l].expires <= pass.now
    BY <1>2, <1>3 DEF PairInv, PassInThePast
  <2>2. Overdue' \subseteq Overdue
    BY <1>3, <2>1 DEF Renew, Overdue, IsActive
  <2>3. \A m \in pass.todo : m \in LeaseId
    BY DEF PairInv, TypeOK
  <2>. QED BY <1>3, <2>2, <2>3 DEF Renew, PairInv, SourceFirst
<1>. QED BY <1>4, <1>5, <1>6, <1>7, <1>8 DEF PairInv

\* What a new row of an apply by broker b looks like; its expiry lies in the future.
\* An active row of the same action becomes a conflict beside it.
LEMMA NewRowFact ==
    ASSUME PairInv, NEW b \in PEP, NEW l \in LeaseId, NEW t \in Target, NEW a \in Action,
           NEW ttl \in TTL, NEW st \in {"active", "pending", "failed"},
           NewRow(b, l, t, a, ttl, st), UNCHANGED <<pass, clock>>
    PROVE  /\ l # None /\ status[l] = "none"
           /\ body' \in [LeaseId -> [tgt : Target, action : Action, applied : Nat, expires : Nat]]
           /\ status' \in [LeaseId -> Status]
           /\ status'[l] = st
           /\ body'[l].tgt = t /\ body'[l].action = a /\ body'[l].applied = clock
           /\ \A m \in LeaseId \ {l} :
                 /\ body'[m] = body[m]
                 /\ status'[m] \in {status[m], "conflict"}
                 /\ status[m] = "active" /\ status'[m] = "active" =>
                       ~ (body[m].tgt = t /\ body[m].action = a)
                 /\ status'[m] # status[m] => status[m] = "active" /\ body[m].tgt = t
           /\ AppliedInThePast' /\ TodoLive' /\ PassInThePast'
           /\ (faults'.store = 0 => faults.store = 0) => SourceFirst'
<1> USE DEF NewRow
<1>1. /\ ttl \in Nat \ {0} /\ clock \in Nat /\ pass.now \in Nat
      /\ l # None /\ status[l] = "none"
  BY PairAssumption DEF PairInv, TypeOK
<1>2. /\ body' \in [LeaseId -> [tgt : Target, action : Action, applied : Nat, expires : Nat]]
      /\ body'[l].tgt = t /\ body'[l].action = a /\ body'[l].applied = clock
      /\ body'[l].expires = clock + ttl
      /\ \A m \in LeaseId \ {l} : body'[m] = body[m]
  BY <1>1 DEF PairInv, TypeOK
<1>3. /\ status' \in [LeaseId -> Status]
      /\ status'[l] = st
      /\ \A m \in LeaseId \ {l} :
            /\ status'[m] \in {status[m], "conflict"}
            /\ status[m] = "active" /\ status'[m] = "active" =>
                  ~ (body[m].tgt = t /\ body[m].action = a)
            /\ status'[m] # status[m] => status[m] = "active" /\ body[m].tgt = t
  BY <1>1 DEF PairInv, TypeOK, Status, ActiveLease
<1>4. \A m \in pass.todo : m \in LeaseId /\ m # l
  BY <1>1 DEF PairInv, TypeOK, TodoLive
<1>5. TodoLive'
  BY <1>3, <1>4 DEF PairInv, TodoLive
<1>6. AppliedInThePast'
  BY <1>1, <1>2, <1>3 DEF PairInv, AppliedInThePast
<1>7. PassInThePast'
  BY DEF PairInv, PassInThePast
<1>8. Overdue' \subseteq Overdue
  <2>1. ~ body'[l].expires <= pass.now
    BY <1>1, <1>2 DEF PairInv, PassInThePast
  <2>. QED BY <1>2, <1>3, <2>1 DEF Overdue, IsActive
<1>9. (faults'.store = 0 => faults.store = 0) => SourceFirst'
  BY <1>2, <1>4, <1>8 DEF PairInv, SourceFirst
<1>. QED BY <1>1, <1>2, <1>3, <1>5, <1>6, <1>7, <1>9

\* An apply by broker b whose PEP took the lease, or (the relationship PEP's) did not.
LEMMA ApplyStep ==
    ASSUME PairInv, NEW b \in PEP, b \in Brokers, NEW l \in LeaseId,
           NEW t \in IF b = "source" THEN Source ELSE Edge, NEW a \in Action, NEW ttl \in TTL,
           NEW st \in {"active", "pending", "failed"},
           NewRow(b, l, t, a, ttl, st), UNCHANGED <<pass, clock>>,
           edgeDeny' \in SUBSET Edge, edgeAllow' \in SUBSET Edge,
           faults' \in [edge : 0..MaxEdgeFaults, store : 0..MaxStoreFaults],
           faults'.store = 0 => faults.store = 0 /\ st # "pending",
           \/ /\ st # "failed"
              /\ token' = [token EXCEPT ![b][t] = l]
              /\ enf' = IF b = "source" THEN [enf EXCEPT ![t] = l] ELSE enf
           \/ b = "relationship" /\ st # "active" /\ UNCHANGED <<token, enf>>
    PROVE  PairInv'
<1>1. /\ t \in Target
      /\ t \in Source <=> b = "source"
      /\ t \in Edge <=> b = "relationship"
  BY PairAssumption DEF Target, PEP
<1>2. /\ l # None /\ status[l] = "none"
      /\ body' \in [LeaseId -> [tgt : Target, action : Action, applied : Nat, expires : Nat]]
      /\ status' \in [LeaseId -> Status]
      /\ status'[l] = st
      /\ body'[l].tgt = t /\ body'[l].action = a /\ body'[l].applied = clock
      /\ \A m \in LeaseId \ {l} :
            /\ body'[m] = body[m]
            /\ status'[m] \in {status[m], "conflict"}
            /\ status[m] = "active" /\ status'[m] = "active" =>
                  ~ (body[m].tgt = t /\ body[m].action = a)
            /\ status'[m] # status[m] => status[m] = "active" /\ body[m].tgt = t
      /\ AppliedInThePast' /\ TodoLive' /\ PassInThePast'
      /\ SourceFirst'
  BY <1>1, NewRowFact
<1>3. /\ token' \in [PEP -> [Target -> LeaseId \cup {None}]]
      /\ enf' \in [Source -> LeaseId \cup {None}]
  BY <1>1 DEF PairInv, TypeOK, PEP
<1>4. \A c \in PEP, u \in Target :
         \/ token'[c][u] = token[c][u]
         \/ c = b /\ u = t /\ token'[c][u] = l
  BY <1>1 DEF PairInv, TypeOK, PEP
<1>5. st = "active" => token'[b][t] = l
  BY <1>1 DEF PairInv, TypeOK, PEP
<1>6. TypeOK'
  BY <1>2, <1>3 DEF PairInv, TypeOK, PEP
<1>7. RowsHaveBroker'
  BY <1>1, <1>2 DEF PairInv, RowsHaveBroker, PEP
<1>8. \A m \in LeaseId : m # l => (status'[m] # "none" <=> status[m] # "none")
  BY <1>2
<1>9. \A c \in PEP, u \in Target : token[c][u] # None =>
         token[c][u] \in LeaseId \ {l} /\ body'[token[c][u]] = body[token[c][u]]
  BY <1>2 DEF PairInv, TypeOK, TokensOwnTarget, PEP
<1>10. TokensOwnTarget'
  <2> SUFFICES ASSUME NEW c \in PEP, NEW u \in Target, token'[c][u] # None
               PROVE  /\ status'[token'[c][u]] # "none"
                      /\ body'[token'[c][u]].tgt = u
    BY DEF TokensOwnTarget
  <2>1. CASE token'[c][u] = token[c][u]
    BY <1>8, <1>9, <2>1 DEF PairInv, TokensOwnTarget
  <2>2. CASE c = b /\ u = t /\ token'[c][u] = l
    BY <1>2, <2>2
  <2>. QED BY <1>4, <2>1, <2>2
<1>11. NoForeignToken'
  <2>1. \A e \in Edge : token'["source"][e] = token["source"][e]
    BY <1>1, <1>4 DEF PEP, Target
  <2>2. \A s \in Source : token'["relationship"][s] = token["relationship"][s]
    BY <1>1, <1>4 DEF PEP, Target
  <2>. QED BY <2>1, <2>2 DEF PairInv, NoForeignToken
<1>12. TokenOfMaps'
  <2> SUFFICES ASSUME NEW s \in Source PROVE token'["source"][s] = enf'[s]
    BY DEF TokenOfMaps
  <2>1. token["source"][s] = enf[s] /\ s \in Target
    BY DEF PairInv, TokenOfMaps, Target
  <2>. QED BY <1>1, <2>1 DEF PairInv, TypeOK, PEP
<1>13. FencedOff'
  <2> SUFFICES ASSUME NEW m \in LeaseId, NEW c \in PEP, status'[m] = "active",
                      token'[c][body'[m].tgt] \notin {m, None}
               PROVE  /\ body'[token'[c][body'[m].tgt]].action # body'[m].action
                      /\ body'[token'[c][body'[m].tgt]].applied >= body'[m].applied
    BY DEF FencedOff, IsActive
  <2>1. CASE m = l
    <3>1. c # b /\ token'[c][t] = token[c][t] /\ token[c][t] # None
      BY <1>1, <1>2, <1>4, <1>5, <2>1
    <3>. QED BY <1>1, <3>1 DEF PairInv, NoForeignToken, PEP
  <2>2. CASE m # l
    <3>1. /\ status[m] = "active" /\ body'[m] = body[m] /\ body[m].tgt \in Target
          /\ ~ (body[m].tgt = t /\ body[m].action = a)
          /\ body[m].applied <= clock
      BY <1>2, <2>2 DEF PairInv, TypeOK, AppliedInThePast
    <3>2. CASE token'[c][body[m].tgt] = token[c][body[m].tgt]
      BY <1>9, <3>1, <3>2 DEF PairInv, FencedOff, IsActive
    <3>3. CASE body[m].tgt = t /\ token'[c][t] = l
      BY <1>2, <3>1, <3>3
    <3>. QED BY <1>4, <3>1, <3>2, <3>3
  <2>. QED BY <2>1, <2>2
<1>14. SettledSourceIsLifted'
  <2> SUFFICES ASSUME faults'.store = 0, NEW s \in Source, enf'[s] # None
               PROVE  status'[enf'[s]] = "active"
    BY DEF SettledSourceIsLifted
  <2>1. CASE b = "source" /\ s = t
    BY <1>1, <1>2, <2>1 DEF PairInv, TypeOK
  <2>2. CASE s # t
    <3>1. enf'[s] = enf[s] /\ token["source"][s] = enf[s] /\ s \in Target
      BY <2>2 DEF PairInv, TypeOK, TokenOfMaps, Target
    <3>2. status[enf[s]] = "active" /\ enf[s] \in LeaseId \ {l} /\ body[enf[s]].tgt = s
      BY <1>9, <3>1 DEF PairInv, SettledSourceIsLifted, TokensOwnTarget, PEP
    <3>. QED BY <1>2, <2>2, <3>1, <3>2
  <2>. QED BY <1>1, <2>1, <2>2 DEF PEP
<1>. QED BY <1>2, <1>6, <1>7, <1>10, <1>11, <1>12, <1>13, <1>14 DEF PairInv

\* Activation is a new row that is active, or pending after a journal error.
LEMMA ActivatedFact ==
    ASSUME PairInv, NEW b \in PEP, NEW l \in LeaseId, NEW t \in Target, NEW a \in Action,
           NEW ttl \in TTL, Activated(b, l, t, a, ttl)
    PROVE  \E st \in {"active", "pending"} :
              /\ NewRow(b, l, t, a, ttl, st)
              /\ faults' \in [edge : 0..MaxEdgeFaults, store : 0..MaxStoreFaults]
              /\ faults'.store = 0 => faults.store = 0 /\ st # "pending"
<1>1. CASE NewRow(b, l, t, a, ttl, "active") /\ UNCHANGED faults
  BY <1>1 DEF PairInv, TypeOK
<1>2. CASE NewRow(b, l, t, a, ttl, "pending") /\ StoreFault
  BY <1>2, FaultFact DEF PairInv
<1>. QED BY <1>1, <1>2 DEF Activated

\* A new source lease keeps the invariant.
LEMMA ApplySourceStep ==
    ASSUME PairInv, "source" \in Brokers, NEW l \in LeaseId, NEW s \in Source,
           NEW a \in Action, NEW ttl \in TTL, ApplySource(l, s, a, ttl)
    PROVE  PairInv'
<1>1. s \in Target /\ "source" \in PEP
  BY DEF Target, PEP
<1>2. PICK st \in {"active", "pending"} :
         /\ NewRow("source", l, s, a, ttl, st)
         /\ faults' \in [edge : 0..MaxEdgeFaults, store : 0..MaxStoreFaults]
         /\ faults'.store = 0 => faults.store = 0 /\ st # "pending"
  BY <1>1, ActivatedFact DEF ApplySource
<1>3. edgeDeny' \in SUBSET Edge /\ edgeAllow' \in SUBSET Edge
  BY DEF ApplySource, PairInv, TypeOK
<1>. QED BY <1>1, <1>2, <1>3, ApplyStep DEF ApplySource

\* A new relationship lease keeps the invariant.
LEMMA ApplyRelationshipStep ==
    ASSUME PairInv, "relationship" \in Brokers, NEW l \in LeaseId, NEW e \in Edge,
           NEW a \in Action, NEW ttl \in TTL, ApplyRelationship(l, e, a, ttl)
    PROVE  PairInv'
<1>1. e \in Target /\ "relationship" \in PEP
  BY DEF Target, PEP
<1>2. PICK st \in {"active", "pending"} :
         /\ NewRow("relationship", l, e, a, ttl, st)
         /\ faults' \in [edge : 0..MaxEdgeFaults, store : 0..MaxStoreFaults]
         /\ faults'.store = 0 => faults.store = 0 /\ st # "pending"
  BY <1>1, ActivatedFact DEF ApplyRelationship
<1>3. edgeDeny' \in SUBSET Edge /\ edgeAllow' \in SUBSET Edge
  BY DEF ApplyRelationship, PairInv, TypeOK
<1>. QED BY <1>1, <1>2, <1>3, ApplyStep DEF ApplyRelationship

\* So does one that the relationship PEP refused.
LEMMA ApplyRelationshipFailsStep ==
    ASSUME PairInv, "relationship" \in Brokers, NEW l \in LeaseId, NEW e \in Edge,
           NEW a \in Action, NEW ttl \in TTL, ApplyRelationshipFails(l, e, a, ttl)
    PROVE  PairInv'
<1>1. e \in Target /\ "relationship" \in PEP
  BY DEF Target, PEP
<1>2. PICK st \in {"failed", "pending"} :
         /\ NewRow("relationship", l, e, a, ttl, st)
         /\ faults' \in [edge : 0..MaxEdgeFaults, store : 0..MaxStoreFaults]
         /\ faults'.store = 0 => faults.store = 0 /\ st # "pending"
  BY PairAssumption DEF ApplyRelationshipFails, PairInv, TypeOK
<1>3. edgeDeny' \in SUBSET Edge /\ edgeAllow' \in SUBSET Edge
  BY DEF ApplyRelationshipFails, PairInv, TypeOK
<1>. QED BY <1>1, <1>2, <1>3, ApplyStep DEF ApplyRelationshipFails

-----------------------------------------------------------------------------
\* A pass begins with the source broker, unless there is none: then no source
\* lease is active either.
LEMMA PassBeginStep ==
    ASSUME PairInv, PassBegin
    PROVE  PairInv'
<1>1. pass' = [at |-> Successor("idle"), now |-> clock, listed |-> FALSE, todo |-> {}]
  BY DEF IdlePass, PassBegin
<1>2. TypeOK /\ UNCHANGED <<status, body, enf, edgeDeny, edgeAllow, token, clock, faults>>
  BY DEF PairInv, PassBegin
<1>3. TypeOK'
  <2>1. Successor("idle") \in {"idle", "source", "relationship"} /\ clock \in Nat
    BY <1>2, SuccessorFact DEF TypeOK
  <2>2. pass' \in [at : {"idle", "source", "relationship"}, now : Nat,
                   listed : BOOLEAN, todo : SUBSET LeaseId]
    BY <1>1, <2>1
  <2>. QED BY <1>2, <2>2 DEF TypeOK
<1>4. /\ RowsHaveBroker' /\ TokensOwnTarget' /\ TokenOfMaps' /\ NoForeignToken'
      /\ FencedOff' /\ AppliedInThePast' /\ SettledSourceIsLifted'
  BY <1>2 DEF PairInv, RowsHaveBroker, TokensOwnTarget, TokenOfMaps, NoForeignToken,
         FencedOff, AppliedInThePast, SettledSourceIsLifted, IsActive
<1>5. TodoLive' /\ PassInThePast'
  <2>1. pass'.todo = {} /\ pass'.now = clock /\ clock \in Nat
    BY <1>1, <1>2 DEF TypeOK
  <2>. QED BY <1>2, <2>1 DEF TodoLive, PassInThePast
<1>6. SourceFirst'
  <2>1. SUFFICES ASSUME pass'.at = "relationship" PROVE Overdue' = {}
    <3>1. pass'.todo = {} /\ pass'.listed = FALSE
      BY <1>1
    <3>. QED BY <3>1 DEF SourceFirst
  <2>2. "source" \notin Brokers
    BY <1>1, <2>1, SuccessorFact DEF PairInv
  <2>3. \A l \in LeaseId : IsActive(l) => body[l].tgt \notin Source
    BY <2>2 DEF PairInv, RowsHaveBroker, IsActive
  <2>. QED BY <1>2, <2>3 DEF Overdue, IsActive
<1>. QED BY <1>3, <1>4, <1>5, <1>6 DEF PairInv

\* The list holds every overdue row, so the broker after the source broker finds
\* no source lease.
LEMMA PassListStep ==
    ASSUME PairInv, PassList
    PROVE  PairInv'
<1> USE DEF PassList
<1>1. /\ RowsHaveBroker' /\ TokensOwnTarget' /\ TokenOfMaps' /\ NoForeignToken'
      /\ FencedOff' /\ AppliedInThePast'
  BY DEF PairInv, RowsHaveBroker, TokensOwnTarget, TokenOfMaps, NoForeignToken,
         FencedOff, AppliedInThePast, IsActive
<1>2. /\ faults' \in [edge : 0..MaxEdgeFaults, store : 0..MaxStoreFaults]
      /\ faults'.store = 0 => faults.store = 0
  BY FaultFact DEF PairInv, TypeOK
<1>3. SettledSourceIsLifted'
  BY <1>2 DEF PairInv, SettledSourceIsLifted
<1>4. CASE pass' = NextBroker
  <2>0. /\ pass' \in [at : {"idle", "source", "relationship"}, now : Nat,
                     listed : BOOLEAN, todo : SUBSET LeaseId]
        /\ pass'.at = "relationship" => pass.at = "source" /\ pass'.now = pass.now
        /\ pass'.now <= pass.now /\ pass'.listed = FALSE /\ pass'.todo = {}
    BY <1>4, NextBrokerFact DEF PairInv
  <2>1. TypeOK' /\ TodoLive' /\ PassInThePast'
    <3>1. TypeOK'
      BY <1>2, <2>0 DEF PairInv, TypeOK
    <3>2. pass.now <= clock /\ pass.now \in Nat /\ pass'.now \in Nat /\ clock \in Nat
      BY <2>0 DEF PairInv, TypeOK, PassInThePast
    <3>. QED BY <2>0, <3>1, <3>2 DEF TodoLive, PassInThePast
  <2>2. ASSUME faults'.store = 0, pass'.at = "relationship" PROVE Overdue' = {}
    <3>1. pass.at = "source" /\ pass'.now = pass.now
      BY <1>4, <2>2, NextBrokerFact DEF PairInv
    <3>2. ListExpired(pass.now) = {}
      <4>1. CASE StoreFault
        BY <2>2, <4>1, FaultFact DEF PairInv
      <4>2. CASE pass' = [pass EXCEPT !.listed = TRUE, !.todo = ListExpired(pass.now)]
        <5>1. pass'.at = "source"
          BY <3>1, <4>2 DEF PairInv, TypeOK
        <5>. QED BY <2>2, <5>1
      <4>. QED BY <4>1, <4>2
    <3>. QED BY <3>1, <3>2 DEF ListExpired, Overdue, IsActive
  <2>3. pass'.listed = FALSE /\ pass'.todo = {}
    BY <1>4, NextBrokerFact DEF PairInv
  <2>4. SourceFirst'
    BY <2>2, <2>3 DEF SourceFirst
  <2>. QED BY <1>1, <1>3, <2>1, <2>4 DEF PairInv
<1>5. CASE pass' = [pass EXCEPT !.listed = TRUE, !.todo = ListExpired(pass.now)]
  <2>1. /\ pass'.at = pass.at /\ pass'.now = pass.now /\ pass'.todo = ListExpired(pass.now)
        /\ ListExpired(pass.now) \subseteq LeaseId
    BY <1>5 DEF PairInv, TypeOK, ListExpired
  <2>2. TypeOK' /\ TodoLive' /\ PassInThePast'
    BY <1>2, <1>5, <2>1 DEF PairInv, TypeOK, TodoLive, PassInThePast, ListExpired, IsActive
  <2>3. Overdue' = Overdue /\ Overdue \subseteq pass'.todo
    BY <2>1 DEF Overdue, ListExpired, IsActive
  <2>4. \A l \in pass'.todo : body[l].tgt \in Source => l \in Overdue
    BY <2>1 DEF Overdue, ListExpired, IsActive
  <2>5. SourceFirst'
    BY <1>2, <2>1, <2>3, <2>4 DEF PairInv, SourceFirst
  <2>. QED BY <1>1, <1>3, <2>2, <2>5 DEF PairInv
<1>. QED BY <1>4, <1>5

-----------------------------------------------------------------------------
\* What the handling of one listed row may change: the row is settled or stays
\* as it is after a journal error; tokens and enforcement are only withdrawn.
Handles(l) ==
    /\ UNCHANGED <<body, clock>>
    /\ status' \in [LeaseId -> Status]
    /\ \A m \in LeaseId : m # l => status'[m] = status[m]
    /\ status'[l] \in {status[l], "reverted", "failed", "conflict"}
    /\ token' \in [PEP -> [Target -> LeaseId \cup {None}]]
    /\ \A b \in PEP, t \in Target : token'[b][t] \in {token[b][t], None}
    /\ enf' \in [Source -> LeaseId \cup {None}]
    /\ \A s \in Source : enf'[s] = token'["source"][s]
    /\ edgeDeny' \in SUBSET Edge /\ edgeAllow' \in SUBSET Edge
    /\ faults' \in [edge : 0..MaxEdgeFaults, store : 0..MaxStoreFaults]
    /\ pass' \in {AfterLease(l), NextBroker}
    /\ faults'.store = 0 =>
          /\ faults.store = 0
          /\ status'[l] # "active"
          /\ pass.at = "source" => pass' = AfterLease(l)
          /\ \A s \in Source : enf'[s] # l

\* Such a step keeps the invariant.
LEMMA HandlesStep ==
    ASSUME PairInv, Running, pass.listed, NEW l \in pass.todo, Handles(l)
    PROVE  PairInv'
<1>1. l \in LeaseId /\ status[l] \in {"active", "conflict"} /\ None \notin LeaseId
  BY PairAssumption DEF PairInv, TypeOK, TodoLive
<1>2. \/ pass' = NextBroker
      \/ /\ pass.todo # {l}
         /\ pass' = [pass EXCEPT !.todo = pass.todo \ {l}]
  BY DEF AfterLease, Handles
<1>3. /\ pass' \in [at : {"idle", "source", "relationship"}, now : Nat,
                   listed : BOOLEAN, todo : SUBSET LeaseId]
      /\ pass'.now <= pass.now
      /\ pass'.todo \subseteq pass.todo \ {l}
  <2>1. CASE pass' = NextBroker
    BY <2>1, NextBrokerFact DEF PairInv
  <2>2. CASE pass' = [pass EXCEPT !.todo = pass.todo \ {l}]
    <3>1. pass \in [at : {"idle", "source", "relationship"}, now : Nat,
                  listed : BOOLEAN, todo : SUBSET LeaseId]
      BY DEF PairInv, TypeOK
    <3>. QED BY <2>2, <3>1
  <2>. QED BY <1>2, <2>1, <2>2
<1> USE DEF Handles
<1>4. TypeOK'
  BY <1>3 DEF PairInv, TypeOK, PEP
<1>5. \A m \in LeaseId : /\ status'[m] # "none" <=> status[m] # "none"
                         /\ status'[m] = "active" => status[m] = "active"
  BY <1>1
<1>6. RowsHaveBroker' /\ AppliedInThePast' /\ TodoLive' /\ PassInThePast'
  <2>1. RowsHaveBroker'
    BY <1>5 DEF PairInv, RowsHaveBroker
  <2>2. AppliedInThePast'
    BY <1>5 DEF PairInv, AppliedInThePast
  <2>3. TodoLive'
    BY <1>1, <1>3 DEF PairInv, TypeOK, TodoLive
  <2>. QED BY <1>3, <2>1, <2>2, <2>3 DEF PairInv, TypeOK, PassInThePast
<1>7. TokensOwnTarget' /\ FencedOff'
  <2>1. \A c \in PEP, u \in Target : token[c][u] \in LeaseId \cup {None}
    BY DEF PairInv, TypeOK, PEP
  <2>2. TokensOwnTarget'
    BY <1>5, <2>1 DEF PairInv, TokensOwnTarget
  <2>3. \A m \in LeaseId : body[m].tgt \in Target
    BY DEF PairInv, TypeOK
  <2>4. FencedOff'
    BY <1>5, <2>1, <2>3 DEF PairInv, FencedOff, IsActive
  <2>. QED BY <2>2, <2>4
<1>8. TokenOfMaps'
  BY DEF TokenOfMaps
<1>9. NoForeignToken'
  BY DEF PairInv, NoForeignToken, Target, PEP
<1>10. SettledSourceIsLifted'
  <2> SUFFICES ASSUME faults'.store = 0, NEW s \in Source, enf'[s] # None
               PROVE  status'[enf'[s]] = "active"
    BY DEF SettledSourceIsLifted
  <2>1. enf'[s] = enf[s] /\ enf[s] # l /\ enf[s] \in LeaseId
    BY DEF PairInv, TypeOK, TokenOfMaps, Target, PEP
  <2>. QED BY <2>1 DEF PairInv, SettledSourceIsLifted
<1>11. SourceFirst'
  <2>1. SUFFICES ASSUME faults'.store = 0
                 PROVE /\ pass'.at = "source" /\ pass'.listed => Overdue' \subseteq pass'.todo
                       /\ pass'.at = "relationship" =>
                             Overdue' = {} /\ \A m \in pass'.todo : body'[m].tgt \notin Source
    BY DEF SourceFirst
  <2>2. pass'.now = pass.now => Overdue' \subseteq Overdue \ {l}
    BY <1>1, <1>5, <2>1 DEF Overdue, IsActive
  <2>3. CASE pass.todo # {l} /\ pass' = [pass EXCEPT !.todo = pass.todo \ {l}]
    <3>1. /\ pass'.at = pass.at /\ pass'.now = pass.now /\ pass'.listed = pass.listed
          /\ pass'.todo = pass.todo \ {l}
      BY <2>3 DEF PairInv, TypeOK
    <3>. QED BY <2>1, <2>2, <3>1 DEF PairInv, SourceFirst
  <2>4. CASE pass' = NextBroker
    <3>1. pass'.listed = FALSE /\ pass'.todo = {}
      BY <2>4, NextBrokerFact DEF PairInv
    <3>2. ASSUME pass'.at = "relationship" PROVE Overdue' = {}
      <4>1. pass.at = "source" /\ pass'.now = pass.now
        BY <2>4, <3>2, NextBrokerFact DEF PairInv
      <4>2. pass.todo = {l}
        <5>1. SUFFICES ASSUME pass.todo # {l} PROVE FALSE
          OBVIOUS
        <5>2. pass' = [pass EXCEPT !.todo = @ \ {l}]
          BY <2>1, <4>1, <5>1 DEF AfterLease
        <5>3. pass'.at = "source"
          BY <4>1, <5>2 DEF PairInv, TypeOK
        <5>. QED BY <3>2, <5>3
      <4>3. Overdue \subseteq {l}
        BY <2>1, <4>1, <4>2 DEF PairInv, SourceFirst
      <4>. QED BY <2>2, <4>1, <4>3
    <3>. QED BY <3>1, <3>2
  <2>. QED BY <1>2, <2>3, <2>4
<1>. QED BY <1>4, <1>6, <1>7, <1>8, <1>9, <1>10, <1>11 DEF PairInv

\* clearCurrentFencingToken empties at most one entry: its own.
LEMMA UnfenceFact ==
    ASSUME TypeOK, NEW l \in LeaseId, NEW c \in PEP, Unfence(c, l)
    PROVE  /\ token' \in [PEP -> [Target -> LeaseId \cup {None}]]
           /\ \A b \in PEP, t \in Target : token'[b][t] \in {token[b][t], None}
           /\ \A b \in PEP, t \in Target :
                 b # c \/ t # body[l].tgt => token'[b][t] = token[b][t]
           /\ CurrentToken(c, l) = l /\ l # None => token'[c][body[l].tgt] = None
BY DEF TypeOK, Unfence, CurrentToken, PEP

\* Revert settles the row, or a journal error stops the broker.
LEMMA SettleFact ==
    ASSUME TypeOK, NEW l \in LeaseId, NEW st \in {"reverted", "conflict"}, Settle(l, st)
    PROVE  /\ status' \in [LeaseId -> Status]
           /\ \A m \in LeaseId : m # l => status'[m] = status[m]
           /\ status'[l] \in {status[l], st}
           /\ faults' \in [edge : 0..MaxEdgeFaults, store : 0..MaxStoreFaults]
           /\ pass' \in {AfterLease(l), NextBroker}
           /\ faults'.store = 0 =>
                 faults.store = 0 /\ status'[l] = st /\ pass' = AfterLease(l)
<1>1. CASE /\ status' = [status EXCEPT ![l] = st]
           /\ pass' = AfterLease(l)
           /\ UNCHANGED faults
  BY <1>1 DEF TypeOK, Status
<1>2. CASE StoreFault /\ pass' = NextBroker /\ UNCHANGED status
  BY <1>2, FaultFact DEF TypeOK
<1>. QED BY <1>1, <1>2 DEF Settle

\* The maps never hold a lease that its PEP finds fenced off.
LEMMA FencedOffHoldsNothing ==
    ASSUME PairInv, NEW l \in LeaseId, CurrentToken("source", l) # l, NEW s \in Source
    PROVE  enf[s] # l
<1>1. ASSUME enf[s] = l PROVE FALSE
  <2>1. token["source"][s] = l /\ l # None /\ s \in Target
    BY <1>1, PairAssumption DEF PairInv, TokenOfMaps, Target
  <2>2. body[l].tgt = s
    BY <2>1 DEF PairInv, TokensOwnTarget, PEP
  <2>. QED BY <2>1, <2>2 DEF CurrentToken
<1>. QED BY <1>1

\* As long as the journal answered, the relationship broker has no row on its list
\* that the maps hold.
LEMMA RelationshipHoldsNothing ==
    ASSUME PairInv, NEW l \in pass.todo, pass.at = "relationship", faults.store = 0,
           NEW s \in Source
    PROVE  enf[s] # l
<1>1. body[l].tgt \notin Source /\ l \in LeaseId /\ l # None
  BY PairAssumption DEF PairInv, SourceFirst, TypeOK
<1>2. token["source"][s] = enf[s] /\ s \in Target
  BY DEF PairInv, TokenOfMaps, Target
<1>. QED BY <1>1, <1>2 DEF PairInv, TokensOwnTarget, PEP

\* Either broker leaves a fenced off row's enforcement alone.
LEMMA RevertFencedOffHandles ==
    ASSUME PairInv, NEW l \in pass.todo, pass.at \in PEP, RevertFencedOff(pass.at, l),
           UNCHANGED <<body, clock>>
    PROVE  Handles(l)
<1>1. TypeOK /\ l \in LeaseId
  BY DEF PairInv, TypeOK
<1>2. Settle(l, "conflict") /\ UNCHANGED <<enf, edgeDeny, edgeAllow, token>>
  BY DEF RevertFencedOff
<1>3. faults.store = 0 => \A s \in Source : enf[s] # l
  <2>1. CASE pass.at = "source"
    BY <1>1, <2>1, FencedOffHoldsNothing DEF RevertFencedOff
  <2>2. CASE pass.at = "relationship"
    BY <2>2, RelationshipHoldsNothing
  <2>. QED BY <2>1, <2>2 DEF PEP
<1>4. /\ token' \in [PEP -> [Target -> LeaseId \cup {None}]]
      /\ \A b \in PEP, t \in Target : token'[b][t] \in {token[b][t], None}
      /\ enf' \in [Source -> LeaseId \cup {None}]
      /\ \A s \in Source : enf'[s] = token'["source"][s]
      /\ edgeDeny' \in SUBSET Edge /\ edgeAllow' \in SUBSET Edge
  BY <1>1, <1>2 DEF PairInv, TypeOK, TokenOfMaps, PEP
<1>. QED BY <1>1, <1>2, <1>3, <1>4, SettleFact DEF Handles

\* The source broker withdraws what the maps hold for the row's source.
LEMMA RevertBySourceHandles ==
    ASSUME PairInv, NEW l \in pass.todo, pass.at = "source", RevertBySource(l),
           UNCHANGED <<body, clock>>
    PROVE  Handles(l)
<1>1. TypeOK /\ l \in LeaseId /\ l # None /\ "source" \in PEP /\ body[l].tgt \in Target
  BY PairAssumption DEF PairInv, TypeOK, PEP
<1>2. /\ token' \in [PEP -> [Target -> LeaseId \cup {None}]]
      /\ \A b \in PEP, t \in Target : token'[b][t] \in {token[b][t], None}
      /\ \A t \in Target : t # body[l].tgt => token'["source"][t] = token["source"][t]
      /\ token'["source"][body[l].tgt] = None
  BY <1>1, UnfenceFact DEF RevertBySource
<1>3. Settle(l, "reverted") /\ UNCHANGED <<edgeDeny, edgeAllow>>
  BY DEF RevertBySource
<1>4. /\ enf' \in [Source -> LeaseId \cup {None}]
      /\ \A s \in Source : enf'[s] = IF s = body[l].tgt THEN None ELSE enf[s]
  BY <1>1 DEF RevertBySource, TypeOK
<1>5. \A s \in Source : s \in Target /\ enf[s] = token["source"][s]
  BY DEF PairInv, TokenOfMaps, Target
<1>6. \A s \in Source : enf'[s] = token'["source"][s]
  BY <1>1, <1>2, <1>4, <1>5
<1>7. \A s \in Source : enf'[s] # l
  <2> SUFFICES ASSUME NEW s \in Source, enf'[s] = l PROVE FALSE
    OBVIOUS
  <2>1. s # body[l].tgt /\ enf[s] = l
    BY <1>1, <1>4
  <2>. QED BY <1>1, <1>5, <2>1 DEF PairInv, TokensOwnTarget
<1>8. edgeDeny' \in SUBSET Edge /\ edgeAllow' \in SUBSET Edge
  BY <1>1, <1>3 DEF TypeOK
<1>. QED BY <1>1, <1>2, <1>3, <1>4, <1>6, <1>7, <1>8, SettleFact DEF Handles

\* The relationship broker has no source lease on its list as long as the
\* journal answered, and so leaves nothing behind in the maps.
LEMMA RevertByRelationshipHandles ==
    ASSUME PairInv, NEW l \in pass.todo, pass.at = "relationship", RevertByRelationship(l),
           UNCHANGED <<body, clock>>
    PROVE  Handles(l)
<1>1. TypeOK /\ l \in LeaseId /\ l # None /\ "relationship" \in PEP
  BY PairAssumption DEF PairInv, TypeOK, PEP
<1>2. UNCHANGED <<enf, edgeDeny>>
  BY DEF RevertByRelationship
<1>3. faults.store = 0 => \A s \in Source : enf'[s] # l
  BY <1>2, RelationshipHoldsNothing
<1>4. \A s \in Source : s \in Target /\ enf[s] = token["source"][s]
  BY DEF PairInv, TokenOfMaps, Target
<1>5. enf' \in [Source -> LeaseId \cup {None}] /\ edgeDeny' \in SUBSET Edge
  BY <1>1, <1>2 DEF TypeOK
<1>6. edgeAllow' \in SUBSET Edge
  BY <1>1 DEF RevertByRelationship, TypeOK
<1>7. CASE Unfence("relationship", l) /\ Settle(l, "reverted")
  <2>1. /\ token' \in [PEP -> [Target -> LeaseId \cup {None}]]
        /\ \A b \in PEP, t \in Target : token'[b][t] \in {token[b][t], None}
        /\ \A t \in Target : token'["source"][t] = token["source"][t]
    BY <1>1, <1>7, UnfenceFact DEF PEP
  <2>2. \A s \in Source : enf'[s] = token'["source"][s]
    BY <1>2, <1>4, <2>1
  <2>. QED BY <1>1, <1>3, <1>5, <1>6, <1>7, <2>1, <2>2, SettleFact DEF Handles
<1>8. ASSUME NEW n \in {0, 1}, MarkFailed(l, n), UNCHANGED token
      PROVE  Handles(l)
  <2>1. /\ faults' \in [edge : 0..MaxEdgeFaults, store : 0..MaxStoreFaults]
        /\ faults'.store = 0 => faults.store = 0 /\ status' = [status EXCEPT ![l] = "failed"]
    BY <1>1, <1>8, PairAssumption DEF MarkFailed, TypeOK
  <2>2. /\ status' \in [LeaseId -> Status] /\ status'[l] \in {status[l], "failed"}
        /\ \A m \in LeaseId : m # l => status'[m] = status[m]
        /\ faults'.store = 0 => status'[l] = "failed"
        /\ pass' = NextBroker
    BY <1>1, <1>8, <2>1 DEF MarkFailed, TypeOK, Status
  <2>3. /\ token' \in [PEP -> [Target -> LeaseId \cup {None}]]
        /\ \A b \in PEP, t \in Target : token'[b][t] \in {token[b][t], None}
        /\ \A s \in Source : enf'[s] = token'["source"][s]
    BY <1>1, <1>2, <1>4, <1>8 DEF TypeOK, PEP
  <2>. QED BY <1>3, <1>5, <1>6, <2>1, <2>2, <2>3 DEF Handles
<1>. QED BY <1>7, <1>8 DEF RevertByRelationship

\* A pass handles one listed row at a time.
LEMMA PassRevertHandles ==
    ASSUME PairInv, PassRevert
    PROVE  \E l \in pass.todo : Running /\ pass.listed /\ Handles(l)
<1>1. pass.at \in PEP
  BY DEF PassRevert, Running, PairInv, TypeOK, PEP
<1>. QED BY <1>1, RevertFencedOffHandles, RevertBySourceHandles, RevertByRelationshipHandles
         DEF PassRevert

-----------------------------------------------------------------------------
\* Every apply keeps the invariant.
LEMMA ApplyKeeps ==
    ASSUME PairInv, NEW a \in Action, NEW ttl \in TTL, Apply(a, ttl)
    PROVE  PairInv'
<1>1. \A t \in Source \cup Edge : t \in Target
  BY DEF Target
<1>2. CASE \E s \in Source : Renew("source", s, a, ttl)
  BY <1>1, <1>2, RenewStep DEF PEP
<1>3. CASE \E e \in Edge : Renew("relationship", e, a, ttl)
  BY <1>1, <1>3, RenewStep DEF PEP
<1>. QED BY <1>2, <1>3, ApplySourceStep, ApplyRelationshipStep, ApplyRelationshipFailsStep
         DEF Apply

\* Every step of the two brokers preserves the invariant.
LEMMA PairStep == PairInv /\ [Next]_vars => PairInv'
<1> SUFFICES ASSUME PairInv, [Next]_vars PROVE PairInv'
  OBVIOUS
<1>1. CASE \E a \in Action, ttl \in TTL : Apply(a, ttl)
  BY <1>1, ApplyKeeps
<1>2. CASE PassBegin
  BY <1>2, PassBeginStep
<1>3. CASE PassList
  BY <1>3, PassListStep
<1>4. CASE PassRevert
  BY <1>4, PassRevertHandles, HandlesStep
<1>5. CASE Tick
  <2>1. clock \in Nat /\ pass.now \in Nat /\ clock' = clock + 1
    BY <1>5 DEF Tick, PairInv, TypeOK
  <2>2. TypeOK' /\ PassInThePast'
    BY <1>5, <2>1 DEF Tick, PairInv, TypeOK, PassInThePast
  <2>3. AppliedInThePast'
    <3>1. \A l \in LeaseId : body[l].applied \in Nat
      BY DEF PairInv, TypeOK
    <3>. QED BY <1>5, <2>1, <3>1 DEF Tick, PairInv, AppliedInThePast
  <2>. QED BY <1>5, <2>2, <2>3
     DEF Tick, PairInv, RowsHaveBroker, TokensOwnTarget, TokenOfMaps, NoForeignToken, FencedOff,
         TodoLive, SourceFirst, SettledSourceIsLifted, IsActive, Overdue
<1>6. CASE UNCHANGED vars
  BY <1>6
     DEF vars, PairInv, TypeOK, RowsHaveBroker, TokensOwnTarget, TokenOfMaps, NoForeignToken,
         FencedOff, AppliedInThePast, TodoLive, PassInThePast, SourceFirst,
         SettledSourceIsLifted, IsActive, Overdue
<1>. QED BY <1>1, <1>2, <1>3, <1>4, <1>5, <1>6 DEF Next

\* The invariant holds in every reachable state.
LEMMA PairInvariant == Spec => []PairInv
<1>. QED BY PairInit, PairStep, PTL DEF Spec

\* Every variable of the two brokers keeps its type.
THEOREM PairTypeCorrect == Spec => []TypeOK
<1>1. PairInv => TypeOK
  BY DEF PairInv
<1>. QED BY <1>1, PairInvariant, PTL

\* A settled source lease enforces nothing while the journal answers: it is the
\* source broker that has settled it (brokeredActionExecutor.RevertExpired).
THEOREM SourceSettledLifted == Spec => []SettledSourceIsLifted
<1>1. PairInv => SettledSourceIsLifted
  BY DEF PairInv
<1>. QED BY <1>1, PairInvariant, PTL

\* Whatever fails, and whichever broker asks (CurrentFencingToken in Revert), an
\* active lease is fenced off only by a later one of another action.
THEOREM OnlyLaterFences == Spec => []FencedOffByLater
<1>1. ASSUME PairInv, NEW l \in LeaseId, NEW b \in Brokers, status[l] = "active",
             CurrentToken(b, l) # l
      PROVE  /\ body[CurrentToken(b, l)].tgt = body[l].tgt
             /\ body[CurrentToken(b, l)].action # body[l].action
             /\ body[CurrentToken(b, l)].applied >= body[l].applied
  <2>1. b \in PEP /\ body[l].tgt \in Target
    BY <1>1, PairAssumption DEF PEP, PairInv, TypeOK
  <2>2. /\ CurrentToken(b, l) = token[b][body[l].tgt]
        /\ token[b][body[l].tgt] \notin {l, None}
    BY <1>1 DEF CurrentToken
  <2>. QED BY <1>1, <2>1, <2>2 DEF PairInv, TokensOwnTarget, FencedOff, IsActive
<1>2. PairInv => FencedOffByLater
  BY <1>1 DEF FencedOffByLater
<1>. QED BY <1>2, PairInvariant, PTL

\* What one broker of a pass has settled, the other does not handle again; a row
\* that Apply found fenced off is never active again.
THEOREM SettledFinal == Spec => SettledStaysSettled
<1>1. ASSUME PairInv, [Next]_vars, NEW m \in LeaseId
      PROVE  /\ status[m] \in {"reverted", "failed"} => status'[m] = status[m]
             /\ status[m] = "conflict" => status'[m] \in {"conflict", "reverted", "failed"}
  <2>1. CASE \E a \in Action, ttl \in TTL : Apply(a, ttl)
    <3>1. ASSUME NEW b, NEW l, NEW t, NEW a, NEW ttl, NEW st, NewRow(b, l, t, a, ttl, st),
                 status[m] \notin {"none", "active"}
          PROVE  status'[m] = status[m]
      BY <3>1 DEF NewRow, ActiveLease
    <3>2. ASSUME NEW b, NEW l, NEW t, NEW a, NEW ttl, Activated(b, l, t, a, ttl),
                 status[m] \notin {"none", "active"}
          PROVE  status'[m] = status[m]
      BY <3>1, <3>2, Zenon DEF Activated
    <3>3. status[m] \notin {"none", "active"} => status'[m] = status[m]
      BY <2>1, <3>1, <3>2
         DEF Apply, Renew, ApplySource, ApplyRelationship, ApplyRelationshipFails
    <3>. QED BY <3>3
  <2>2. CASE PassRevert
    <3>1. PICK l \in pass.todo : Handles(l)
      BY <1>1, <2>2, PassRevertHandles
    <3>2. status[l] \in {"active", "conflict"}
      BY <1>1 DEF PairInv, TodoLive
    <3>. QED BY <3>1, <3>2 DEF Handles
  <2>3. CASE PassBegin \/ PassList \/ Tick \/ UNCHANGED vars
    BY <2>3 DEF PassBegin, PassList, Tick, vars
  <2>. QED BY <1>1, <2>1, <2>2, <2>3 DEF Next
<1>2. PairInv /\ [Next]_vars =>
         [\A l \in LeaseId :
             /\ status[l] \in {"reverted", "failed"} => status'[l] = status[l]
             /\ status[l] = "conflict" => status'[l] \in {"conflict", "reverted", "failed"}]_vars
  BY <1>1
<1>. QED BY <1>2, PairInvariant, PTL DEF Spec, SettledStaysSettled
=============================================================================
