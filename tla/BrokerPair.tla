----------------------------- MODULE BrokerPair -----------------------------
(***************************************************************************)
(* The source broker and the relationship broker on one lease journal      *)
(* (brokeredActionExecutor).  Apply of either broker, and Revert of one    *)
(* lease, are single steps here: module ActionBroker opens them up.  What  *)
(* this module keeps is which broker handles which row:                    *)
(* ListExpiredActionLeases does not ask for the adapter, so a pass of      *)
(* RevertExpired gives every expired row to the source broker first.       *)
(* The actions are all of one strength (drop, deny): none supersedes the   *)
(* other, so a target has one active lease per action but one token, that  *)
(* of the lease applied last.  The process enforces for real (no dry run). *)
(***************************************************************************)
EXTENDS Naturals, FiniteSets

CONSTANTS
    Source,        \* source targets
    Edge,          \* relationship targets (source, port, protocol)
    Action,        \* executable actions of equal strength, each at one level
    LeaseId,
    None,
    TTL,
    Brokers,       \* the brokers the executor is built with
    MaxTime,       \* bound: the clock stops here
    MaxEdgeFaults, \* bound: calls the relationship PEP answers with an error
    MaxStoreFaults \* bound: journal reads and writes that fail

Target == Source \cup Edge

ASSUME PairAssumption ==
    /\ Source \cap Edge = {} /\ Target # {} /\ Action # {}
    /\ Brokers \subseteq {"source", "relationship"} /\ Brokers # {}
    /\ None \notin LeaseId
    /\ TTL \subseteq Nat \ {0}
    /\ {MaxTime, MaxEdgeFaults, MaxStoreFaults} \subseteq Nat

VARIABLES
    status,    \* action_leases.status; "none" while the row does not exist
    body,      \* target, action, applied_at and expires_at of the row
    enf,       \* enf[s]: the lease whose transition the maps hold for source s
    edgeDeny,  \* edge4_deny: in deny mode XDP drops exactly these edges
    edgeAllow, \* edge4_allow
    token,     \* currentTokens of either PEP
    pass,      \* the RevertExpired pass in flight: the broker at work, its rows to come
    clock,
    faults

vars == <<status, body, enf, edgeDeny, edgeAllow, token, pass, clock, faults>>

Status == {"none", "pending", "active", "reverted", "failed", "conflict"}

IdlePass == [at |-> "idle", now |-> 0, listed |-> FALSE, todo |-> {}]

Running == pass.at # "idle"

\* Wrong variant of Successor: relationships first.
SuccessorSwapped(at) ==
    IF at = "idle" /\ "relationship" \in Brokers THEN "relationship"
    ELSE IF at # "source" /\ "source" \in Brokers THEN "source" ELSE "idle"

\* The order in which a pass of RevertExpired calls the brokers that exist.
Successor(at) ==
    IF at = "idle" /\ "source" \in Brokers THEN "source"
    ELSE IF at # "relationship" /\ "relationship" \in Brokers THEN "relationship" ELSE "idle"

-----------------------------------------------------------------------------
\* FindActiveActionLease for an action on t.
ActiveLease(t, a) ==
    {l \in LeaseId : status[l] = "active" /\ body[l].tgt = t /\ body[l].action = a}

\* ListExpiredActionLeases: no condition on adapter_id.
ListExpired(now) == {l \in LeaseId : status[l] = "active" /\ body[l].expires <= now}

\* CurrentFencingToken of broker b's PEP: an absent entry answers with the lease.
CurrentToken(b, l) ==
    IF token[b][body[l].tgt] = None THEN l ELSE token[b][body[l].tgt]

StoreFault == faults.store < MaxStoreFaults /\ faults' = [faults EXCEPT !.store = @ + 1]

-----------------------------------------------------------------------------
(* Apply, of the broker of the target's granularity.                       *)

\* renewActiveLease: only the lease that holds the token of broker b's PEP.
Renew(b, t, a, ttl) ==
    /\ \E l \in ActiveLease(t, a) :
          CurrentToken(b, l) = l /\ body' = [body EXCEPT ![l].expires = clock + ttl]
    /\ UNCHANGED <<status, enf, edgeDeny, edgeAllow, token, pass, clock, faults>>

\* A new row l for an action on t, with the status st.  There was no lease to
\* renew, or renewActiveLease finds it fenced off and makes it a conflict.
NewRow(b, l, t, a, ttl, st) ==
    /\ status[l] = "none"
    /\ \A m \in ActiveLease(t, a) : CurrentToken(b, m) # m
    /\ body' = [body EXCEPT ![l] =
          [tgt |-> t, action |-> a, applied |-> clock, expires |-> clock + ttl]]
    /\ status' = [m \in LeaseId |-> IF m = l THEN st
                                    ELSE IF m \in ActiveLease(t, a) THEN "conflict"
                                    ELSE status[m]]

\* What the PEP has taken becomes active, or stays pending if the journal fails.
Activated(b, l, t, a, ttl) ==
    \/ NewRow(b, l, t, a, ttl, "active") /\ UNCHANGED faults
    \/ NewRow(b, l, t, a, ttl, "pending") /\ StoreFault

\* A new source lease: journal, TransitionSource, token, activation.
ApplySource(l, s, a, ttl) ==
    /\ Activated("source", l, s, a, ttl)
    /\ enf' = [enf EXCEPT ![s] = l]
    /\ token' = [token EXCEPT !["source"][s] = l]
    /\ UNCHANGED <<edgeDeny, edgeAllow, pass, clock>>

\* Wrong variant of ApplyRelationship: an older token is kept.
ApplyRelationshipKeepsToken(l, e, a, ttl) ==
    /\ Activated("relationship", l, e, a, ttl)
    /\ edgeDeny' = edgeDeny \cup {e}
    /\ token' = [token EXCEPT !["relationship"][e] = IF @ = None THEN l ELSE @]
    /\ UNCHANGED <<enf, edgeAllow, pass, clock>>

\* A new relationship lease: DenyRelationship adds the edge to edge4_deny.
ApplyRelationship(l, e, a, ttl) ==
    /\ Activated("relationship", l, e, a, ttl)
    /\ edgeDeny' = edgeDeny \cup {e}
    /\ token' = [token EXCEPT !["relationship"][e] = l]
    /\ UNCHANGED <<enf, edgeAllow, pass, clock>>

\* DenyRelationship failed: the row is failed, or stays pending if the journal
\* fails as well.
ApplyRelationshipFails(l, e, a, ttl) ==
    /\ faults.edge < MaxEdgeFaults
    /\ \/ /\ NewRow("relationship", l, e, a, ttl, "failed")
          /\ faults' = [faults EXCEPT !.edge = faults.edge + 1]
       \/ /\ NewRow("relationship", l, e, a, ttl, "pending")
          /\ faults.store < MaxStoreFaults
          /\ faults' = [edge |-> faults.edge + 1, store |-> faults.store + 1]
    /\ UNCHANGED <<enf, edgeDeny, edgeAllow, token, pass, clock>>

-----------------------------------------------------------------------------
(* brokeredActionExecutor.RevertExpired, on the tick goroutine.            *)

\* Both brokers get the "now" of the pass.  A pass over nothing is left out.
PassBegin ==
    /\ ~ Running
    /\ ListExpired(clock) # {}
    /\ pass' = [IdlePass EXCEPT !.at = Successor("idle"), !.now = clock]
    /\ UNCHANGED <<status, body, enf, edgeDeny, edgeAllow, token, clock, faults>>

\* The broker at work ends, or gives up on, its list; the next one starts.
NextBroker ==
    IF Successor(pass.at) = "idle"
    THEN IdlePass
    ELSE [at |-> Successor(pass.at), now |-> pass.now, listed |-> FALSE, todo |-> {}]

AfterLease(l) == IF pass.todo = {l} THEN NextBroker ELSE [pass EXCEPT !.todo = @ \ {l}]

PassList ==
    /\ Running /\ ~ pass.listed
    /\ \/ /\ pass' = IF ListExpired(pass.now) = {}
                     THEN NextBroker
                     ELSE [pass EXCEPT !.listed = TRUE, !.todo = ListExpired(pass.now)]
          /\ UNCHANGED faults
       \/ StoreFault /\ pass' = NextBroker
    /\ UNCHANGED <<status, body, enf, edgeDeny, edgeAllow, token, clock>>

\* clearCurrentFencingToken of broker b's PEP.
Unfence(b, l) ==
    token' = IF token[b][body[l].tgt] = l
             THEN [token EXCEPT ![b][body[l].tgt] = None] ELSE token

\* Wrong variant of Settle: another status.
SettleExpired(l, st) ==
    /\ status' = [status EXCEPT ![l] = "expired"]
    /\ pass' = AfterLease(l)
    /\ UNCHANGED faults

\* The status at the end of Revert; a journal error leaves the row as it was and
\* stops the broker.
Settle(l, st) ==
    \/ /\ status' = [status EXCEPT ![l] = st]
       /\ pass' = AfterLease(l)
       /\ UNCHANGED faults
    \/ /\ StoreFault
       /\ pass' = NextBroker
       /\ UNCHANGED status

\* PEP.Revert failed, in a call that counts n edge errors: the broker gives up.
\* A journal error on top of that is swallowed.
MarkFailed(l, n) ==
    /\ pass' = NextBroker
    /\ faults.edge + n <= MaxEdgeFaults
    /\ \/ /\ status' = [status EXCEPT ![l] = "failed"]
          /\ faults' = [faults EXCEPT !.edge = faults.edge + n]
       \/ /\ faults.store < MaxStoreFaults
          /\ faults' = [edge |-> faults.edge + n, store |-> faults.store + 1]
          /\ UNCHANGED status

\* Revert of a lease whose token the PEP of broker b no longer holds.
RevertFencedOff(b, l) ==
    /\ CurrentToken(b, l) # l
    /\ Settle(l, "conflict")
    /\ UNCHANGED <<enf, edgeDeny, edgeAllow, token>>

\* Broker.Revert of the source broker.  A relationship target is no IP address:
\* TransitionSource refuses it, and ApplyDeEnforceSource swallows the error.
RevertBySource(l) ==
    /\ CurrentToken("source", l) = l
    /\ enf' = IF body[l].tgt \in Source THEN [enf EXCEPT ![body[l].tgt] = None] ELSE enf
    /\ Unfence("source", l)
    /\ Settle(l, "reverted")
    /\ UNCHANGED <<edgeDeny, edgeAllow>>

\* Broker.Revert of the relationship broker: AllowRelationship writes edge4_allow
\* and leaves edge4_deny alone.  A source target is no relationship: an error.
RevertByRelationship(l) ==
    /\ CurrentToken("relationship", l) = l
    /\ \/ /\ body[l].tgt \in Edge
          /\ edgeAllow' = edgeAllow \cup {body[l].tgt}
          /\ Unfence("relationship", l)
          /\ Settle(l, "reverted")
       \/ /\ MarkFailed(l, IF body[l].tgt \in Edge THEN 1 ELSE 0)
          /\ UNCHANGED <<edgeAllow, token>>
    /\ UNCHANGED <<enf, edgeDeny>>

\* The listed rows are taken in the order of their expiry; here in any order.
PassRevert ==
    /\ Running /\ pass.listed
    /\ \E l \in pass.todo :
          \/ RevertFencedOff(pass.at, l)
          \/ pass.at = "source" /\ RevertBySource(l)
          \/ pass.at = "relationship" /\ RevertByRelationship(l)
    /\ UNCHANGED <<body, clock>>

Tick == /\ clock < MaxTime
        /\ clock' = clock + 1
        /\ UNCHANGED <<status, body, enf, edgeDeny, edgeAllow, token, pass, faults>>

-----------------------------------------------------------------------------
NoBody == [tgt |-> CHOOSE t \in Target : TRUE, action |-> CHOOSE a \in Action : TRUE,
           applied |-> 0, expires |-> 0]

Init ==
    /\ status = [l \in LeaseId |-> "none"]
    /\ body = [l \in LeaseId |-> NoBody]
    /\ enf = [s \in Source |-> None]
    /\ edgeDeny = {}
    /\ edgeAllow = {}
    /\ token = [b \in {"source", "relationship"} |-> [t \in Target |-> None]]
    /\ pass = IdlePass
    /\ clock = 0
    /\ faults = [edge |-> 0, store |-> 0]

\* A target is applied by the broker of its granularity, if the executor has it.
Apply(a, ttl) ==
    \/ /\ "source" \in Brokers
       /\ \E s \in Source :
             \/ Renew("source", s, a, ttl)
             \/ \E l \in LeaseId : ApplySource(l, s, a, ttl)
    \/ /\ "relationship" \in Brokers
       /\ \E e \in Edge :
             \/ Renew("relationship", e, a, ttl)
             \/ \E l \in LeaseId : \/ ApplyRelationship(l, e, a, ttl)
                                  \/ ApplyRelationshipFails(l, e, a, ttl)

Next == \/ \E a \in Action, ttl \in TTL : Apply(a, ttl)
        \/ PassBegin
        \/ PassList
        \/ PassRevert
        \/ Tick

Spec == Init /\ [][Next]_vars

-----------------------------------------------------------------------------
(* Properties.                                                             *)

\* Every variable has its type.
TypeOK ==
    /\ status \in [LeaseId -> Status]
    /\ body \in [LeaseId -> [tgt : Target, action : Action, applied : Nat, expires : Nat]]
    /\ enf \in [Source -> LeaseId \cup {None}]
    /\ edgeDeny \in SUBSET Edge
    /\ edgeAllow \in SUBSET Edge
    /\ token \in [{"source", "relationship"} -> [Target -> LeaseId \cup {None}]]
    /\ pass \in [at : {"idle", "source", "relationship"}, now : Nat,
                 listed : BOOLEAN, todo : SUBSET LeaseId]
    /\ clock \in Nat
    /\ faults \in [edge : 0..MaxEdgeFaults, store : 0..MaxStoreFaults]

\* A source lease that is settled enforces nothing any more.  It depends on the
\* source broker coming first: the relationship broker can only fail such a row.
\* (Holds while the journal answers.)
SettledSourceIsLifted ==
    faults.store = 0 => \A s \in Source : enf[s] # None => status[enf[s]] = "active"

\* The second broker of a pass does not handle again what the first one settled;
\* only a conflict found by Apply while the row was already on a pass's list may
\* still be reverted, never to be active again.
SettledStaysSettled ==
    [][\A l \in LeaseId :
          /\ status[l] \in {"reverted", "failed"} => status'[l] = status[l]
          /\ status[l] = "conflict" => status'[l] \in {"conflict", "reverted", "failed"}]_vars

\* An active lease is fenced off, whichever broker asks, only by one that was
\* applied to the same target with another action and no earlier: not by what the
\* source broker left in the other PEP's tokens when it reverted an edge.
FencedOffByLater ==
    \A l \in LeaseId, b \in Brokers : status[l] = "active" =>
        LET m == CurrentToken(b, l)
        IN  m # l => /\ body[m].tgt = body[l].tgt
                     /\ body[m].action # body[l].action
                     /\ body[m].applied >= body[l].applied

\* XDP no longer drops a relationship whose lease was reverted, unless a later
\* lease denies it (manual-test-guide.md:24: "auto-reverted").
RevertedEdgePasses ==
    \A e \in Edge : e \in edgeDeny => \E l \in LeaseId :
        body[l].tgt = e /\ status[l] # "reverted"
=============================================================================
