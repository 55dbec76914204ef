------------------------ MODULE ActionBrokerProofs ------------------------
(***************************************************************************)
(* Proofs about the action broker, for every set of targets, actions and   *)
(* leases and any number of goroutines that call Apply.  Under any         *)
(* failures: types, one active lease per tuple, the renewal limit, no      *)
(* dry-run lease in a process that enforces, and the refinement of         *)
(* LeaseLifecycle.  While nothing fails: leases of one strength, and       *)
(* enforcement backed by a lease.                                          *)
(***************************************************************************)
EXTENDS ActionBroker, TLAPS

\* While Apply is on its way to a new lease, its tuple has no active one.
NoActiveWhileApplying ==
    ap.pc \in {"insert", "pep", "fence", "activate"} =>
        \A l \in LeaseId : status[l] = "active" => TupleOf(l) # RequestSlot

\* Positions of Apply with a lease found in hand, and with one of its own.
Holding == {"examine", "replace", "disown", "renew"}
Owning  == {"pep", "abandon", "fence", "activate"}

\* The lease an Apply has in hand is one of the requested tuple.
LeaseOfRequest ==
    ap.pc \in Holding \cup Owning => ap.id \in LeaseId /\ TupleOf(ap.id) = RequestSlot

\* The lease found has the tuple to itself (the sweep may have deactivated it), and
\* one about to be renewed may still be renewed.
RenewalIsExclusive ==
    /\ ap.pc \in Holding =>
          \A m \in LeaseId : status[m] = "active" /\ TupleOf(m) = RequestSlot => m = ap.id
    /\ ap.pc = "renew" => MayRenew(ap.id)

BrokerInv == /\ TypeOK
             /\ OneActivePerTuple
             /\ RenewalsBounded
             /\ NoActiveWhileApplying
             /\ LeaseOfRequest
             /\ RenewalIsExclusive

-----------------------------------------------------------------------------
(* Type correctness.                                                       *)

LEMMA NoRequestType == NoRequest \in Request
BY BrokerAssumption DEF NoRequest, Request

LEMMA NoBodyType == NoBody \in Body
BY BrokerAssumption DEF NoBody, NoRequest, Body, Time

\* The records an operation in flight may be.
ApplyState  == [pc : ApplyPc, by : Goroutine, req : Request, now : Time,
                id : LeaseId \cup {None}, weaker : LeaseId \cup {None}]
RevertState == [pc : RevertPc, todo : SUBSET (LeaseId \X Time), id : LeaseId \cup {None}]

LEMMA IdleTypes == IdleApply \in ApplyState /\ IdleRevert \in RevertState
BY NoRequestType
   DEF IdleApply, IdleRevert, ApplyState, RevertState, ApplyPc, RevertPc, Goroutine, Time

\* What is left of a sweep is again a sweep.
LEMMA SweepRestType ==
    ASSUME rv \in RevertState, NEW le
    PROVE  SweepRest(le) \in RevertState
BY IdleTypes DEF SweepRest, RevertState, RevertPc

\* A status write, and a failed one, keep the types.
LEMMA SetStatusType ==
    ASSUME TypeOK, NEW l, NEW s \in Status, SetStatus(l, s)
    PROVE  status' \in [LeaseId -> Status] /\ faults' \in FaultCount
BY DEF TypeOK, SetStatus

LEMMA StoreFaultType ==
    ASSUME TypeOK, StoreFault
    PROVE  status' \in [LeaseId -> Status] /\ faults' \in FaultCount
BY BrokerAssumption DEF TypeOK, StoreFault, FaultCount

LEMMA PepFaultType ==
    ASSUME TypeOK, PepFault
    PROVE  faults' \in FaultCount
BY BrokerAssumption DEF TypeOK, PepFault, FaultCount

LEMMA TypeInit == Init => TypeOK
<1> SUFFICES ASSUME Init PROVE TypeOK
  OBVIOUS
<1>1. faults \in FaultCount /\ clock \in Time
  BY BrokerAssumption DEF Init, FaultCount, Time
<1>2. status \in [LeaseId -> Status] /\ body \in [LeaseId -> Body]
  BY NoBodyType DEF Init, Status
<1>3. ap \in ApplyState /\ rv \in RevertState
  BY IdleTypes DEF Init
<1> QED BY <1>1, <1>2, <1>3 DEF Init, TypeOK, ApplyState, RevertState

LEMMA ExpiryType == TypeOK => ap.now + ap.req.ttl \in Nat
<1> SUFFICES ASSUME TypeOK PROVE ap.now + ap.req.ttl \in Nat
  OBVIOUS
<1>1. ap.now \in Nat /\ ap.req \in Request
  BY DEF TypeOK, Time
<1>2. ap.req.ttl \in Nat
  BY <1>1, BrokerAssumption DEF Request
<1> QED BY <1>1, <1>2

\* The row that Apply journals.
LEMMA NewRowType ==
    ASSUME TypeOK
    PROVE  [tgt |-> ap.req.tgt, action |-> ap.req.action, level |-> ap.req.level,
            param |-> ap.req.param, dry |-> dry,
            expires |-> ap.now + ap.req.ttl, renewals |-> 0] \in Body
<1>1. ap.req \in Request /\ dry \in BOOLEAN
  BY DEF TypeOK
<1> QED BY <1>1, ExpiryType DEF Request, Body, Time

\* The renewed row.
LEMMA RenewedRowType ==
    ASSUME TypeOK
    PROVE  [body EXCEPT ![ap.id].expires = ap.now + ap.req.ttl,
                        ![ap.id].renewals = @ + 1] \in [LeaseId -> Body]
<1>1. body \in [LeaseId -> Body]
  BY DEF TypeOK
<1> DEFINE extended == [body EXCEPT ![ap.id].expires = ap.now + ap.req.ttl]
<1>2. extended \in [LeaseId -> Body]
  BY <1>1, ExpiryType DEF Body, Time
<1>3. [extended EXCEPT ![ap.id].renewals = @ + 1] \in [LeaseId -> Body]
  BY <1>2 DEF Body
<1> QED BY <1>3

\* The steps that take a lease in hand.
LEMMA InHandType ==
    ASSUME TypeOK
    PROVE  /\ ApplyFind => ap' \in ApplyState
           /\ \A l \in LeaseId : ApplyInsert(l) => ap' \in ApplyState
           /\ ApplySupersede => ap' \in ApplyState
           /\ ApplyOverrule => ap' \in ApplyState
           /\ SweepCheck => rv' \in RevertState
<1>1. ap \in ApplyState /\ rv \in RevertState
  BY DEF TypeOK, ApplyState, RevertState
<1>2. /\ FindActive(RequestSlot) \subseteq LeaseId
      /\ WeakerActive(ap.id) \subseteq LeaseId
  BY DEF FindActive, WeakerActive, Comparable, ActiveOn
<1>4. ASSUME ApplyFind PROVE ap' \in ApplyState
  <2>1. \A l \in LeaseId : [ap EXCEPT !.pc = "examine", !.id = l] \in ApplyState
    BY <1>1 DEF ApplyState, ApplyPc
  <2>2. [ap EXCEPT !.pc = "insert"] \in ApplyState
    BY <1>1 DEF ApplyState, ApplyPc
  <2> QED BY <1>2, <1>4, <2>1, <2>2, IdleTypes DEF ApplyFind, ApplyStops
<1>5. ASSUME NEW l \in LeaseId, ApplyInsert(l) PROVE ap' \in ApplyState
  <2>1. [ap EXCEPT !.pc = "pep", !.id = l] \in ApplyState
    BY <1>1 DEF ApplyState, ApplyPc
  <2> QED BY <1>5, <2>1, IdleTypes DEF ApplyInsert, ApplyStops
<1>6. ASSUME ApplySupersede PROVE ap' \in ApplyState
  <2>1. \A l \in LeaseId : [ap EXCEPT !.pc = "overrule", !.weaker = l] \in ApplyState
    BY <1>1 DEF ApplyState, ApplyPc
  <2> QED BY <1>2, <1>6, <2>1, IdleTypes DEF ApplySupersede, ApplyStops
<1>7. ASSUME ApplyOverrule PROVE ap' \in ApplyState
  <2>1. [ap EXCEPT !.pc = "supersede", !.weaker = None] \in ApplyState
    BY <1>1 DEF ApplyState, ApplyPc
  <2> QED BY <1>7, <2>1, IdleTypes DEF ApplyOverrule, ApplyStops
<1>8. ASSUME SweepCheck PROVE rv' \in RevertState
  <2>1. PICK le \in rv.todo, pc \in {"pep", "disown"} : rv' = [rv EXCEPT !.pc = pc, !.id = le[1]]
    BY <1>8 DEF SweepCheck
  <2>2. le[1] \in LeaseId /\ pc \in RevertPc
    BY <1>1 DEF RevertState, RevertPc
  <2> QED BY <1>1, <2>1, <2>2 DEF RevertState
<1> QED BY <1>4, <1>5, <1>6, <1>7, <1>8

LEMMA TypeNext == TypeOK /\ [Next]_vars => TypeOK'
<1> SUFFICES ASSUME TypeOK, [Next]_vars PROVE TypeOK'
  OBVIOUS
<1> USE BrokerAssumption, IdleTypes, SetStatusType, StoreFaultType, PepFaultType
        DEF TypeOK, ApplyState, RevertState, Time
<1>1. ASSUME NEW by \in Applier, NEW r \in Request, ApplyBegin(by, r)
      PROVE  TypeOK'
  BY <1>1 DEF ApplyBegin, ApplyPc
<1>2. CASE ApplyCheckStronger
  BY <1>2 DEF ApplyCheckStronger, ApplyStops, ApplyPc
<1>3. CASE ApplyFind \/ ApplyExamine \/ ApplyRetire
  <2>2. CASE ApplyFind
    BY <2>2, InHandType DEF ApplyFind, ApplyStops
  <2>3. CASE ApplyExamine
    BY <2>3 DEF ApplyExamine, ApplyPc
  <2>4. CASE ApplyRetire
    BY <2>4 DEF ApplyRetire, ApplyStops, ApplyPc, Status
  <2> QED BY <1>3, <2>2, <2>3, <2>4
<1>4. CASE ApplyRenew
  <2>1. body' \in [LeaseId -> Body]
    BY <1>4, RenewedRowType DEF ApplyRenew
  <2>2. status' \in [LeaseId -> Status] /\ faults' \in FaultCount
    BY <1>4 DEF ApplyRenew, ApplyStops, Status
  <2> QED BY <1>4, <2>1, <2>2 DEF ApplyRenew, ApplyStops
<1>5. ASSUME NEW l \in LeaseId, ApplyInsert(l)
      PROVE  TypeOK'
  <2>1. body' \in [LeaseId -> Body]
    BY <1>5, NewRowType DEF ApplyInsert
  <2>2. status' \in [LeaseId -> Status] /\ faults' \in FaultCount
    BY <1>5 DEF ApplyInsert, ApplyStops, Status
  <2>3. ap' \in ApplyState
    BY <1>5, InHandType
  <2> QED BY <1>5, <2>1, <2>2, <2>3 DEF ApplyInsert
<1>6. CASE ApplyPep \/ ApplyAbandon
  BY <1>6 DEF ApplyPep, ApplyAbandon, ApplyPc, Status
<1>7. CASE ApplyFence
  BY <1>7 DEF ApplyFence, ApplyPc
<1>8. CASE ApplyActivate
  BY <1>8 DEF ApplyActivate, ApplyStops, ApplyPc, Status
<1>9. CASE ApplySupersede \/ ApplyOverrule
  <2>2. CASE ApplySupersede
    BY <2>2, InHandType DEF ApplySupersede, ApplyStops
  <2>3. CASE ApplyOverrule
    BY <2>3, InHandType DEF ApplyOverrule, ApplyStops, Status
  <2> QED BY <1>9, <2>2, <2>3
<1>10. CASE SweepBegin
  <2>1. ListExpired(clock) \subseteq LeaseId \X Nat
    <3>1. \A l \in LeaseId : body[l].expires \in Nat
      BY DEF Body
    <3> QED BY <3>1 DEF ListExpired
  <2> QED BY <1>10, <2>1 DEF SweepBegin, RevertPc
<1>11. CASE SweepCheck \/ SweepDisown
  <2>1. CASE SweepCheck
    BY <2>1, InHandType DEF SweepCheck
  <2>2. CASE SweepDisown
    BY <2>2, SweepRestType DEF SweepDisown, Status
  <2> QED BY <1>11, <2>1, <2>2
<1>12. CASE SweepRevert
  BY <1>12 DEF SweepRevert, RevertPc
<1>13. CASE SweepUnfence
  BY <1>13 DEF SweepUnfence, RevertPc
<1>14. CASE SweepMark
  BY <1>14, SweepRestType DEF SweepMark, Status
<1>15. ASSUME NEW by \in Applier, NEW t \in Target, DirectObserve(by, t)
       PROVE  TypeOK'
  BY <1>15 DEF DirectObserve
<1>16. ASSUME NEW newDry \in BOOLEAN, Crash(newDry)
       PROVE  TypeOK'
  <2>1. status' \in [LeaseId -> Status]
    BY <1>16 DEF Crash, Status
  <2>2. PICK failed \in 0..2 :
            /\ faults.store + failed <= MaxStoreFaults
            /\ faults' = [faults EXCEPT !.restart = @ + 1, !.store = @ + failed]
    BY <1>16 DEF Crash
  <2>3. faults' \in FaultCount
    <3>1. faults.restart + 1 \in 0..MaxRestarts /\ faults.store + failed \in 0..MaxStoreFaults
      BY <1>16, <2>2 DEF Crash, FaultCount
    <3> QED BY <2>2, <3>1 DEF FaultCount
  <2> QED BY <1>16, <2>1, <2>3 DEF Crash
<1>17. CASE Tick
  BY <1>17 DEF Tick
<1>18. CASE UNCHANGED vars
  BY <1>18 DEF vars
<1>19. ASSUME NEW ok \in BOOLEAN, ObservePass(ok)
       PROVE  TypeOK'
  BY <1>19 DEF ObservePass
<1> QED BY <1>1, <1>2, <1>3, <1>4, <1>5, <1>6, <1>7, <1>8, <1>9, <1>10, <1>11, <1>12,
           <1>13, <1>14, <1>15, <1>16, <1>17, <1>18, <1>19 DEF Next, ApplyStep, SweepWork

\* Every variable keeps its type, whatever fails and whenever the process dies.
THEOREM TypeCorrect == Spec => []TypeOK
BY TypeInit, TypeNext, PTL DEF Spec

-----------------------------------------------------------------------------
(* One active lease per tuple, and the renewal limit.                      *)

\* Positions of Apply that the invariant says nothing about.
QuietPc == {"idle", "stronger", "find", "supersede", "overrule"}

\* Apply stays where it is or moves on with the same lease in hand.
Advances ==
    /\ ap'.req = ap.req /\ ap'.id = ap.id
    /\ \/ ap'.pc = ap.pc
       \/ ap.pc = "pep" /\ ap'.pc \in {"fence", "abandon"}
       \/ ap.pc = "fence" /\ ap'.pc = "activate"
       \/ ap.pc = "examine" /\ ap'.pc \in {"replace", "disown"}
       \/ ap.pc = "examine" /\ ap'.pc = "renew" /\ MayRenew(ap.id)

\* No lease becomes active.
NothingNewActive == \A l \in LeaseId : status'[l] = "active" => status[l] = "active"

StaysOrQuiet == ap'.pc \in QuietPc \/ Advances

\* A step that activates nothing and leaves the rows alone keeps the invariant.
LEMMA NothingActivated ==
    ASSUME BrokerInv, TypeOK', body' = body, NothingNewActive, StaysOrQuiet
    PROVE  BrokerInv'
<1> USE DEF BrokerInv
<1>1. OneActivePerTuple' /\ RenewalsBounded'
  BY DEF OneActivePerTuple, RenewalsBounded, TupleOf, NothingNewActive
<1>2. CASE ap'.pc \in QuietPc
  BY <1>1, <1>2
     DEF QuietPc, Holding, Owning, NoActiveWhileApplying, LeaseOfRequest, RenewalIsExclusive
<1>3. CASE Advances
  <2>1. /\ RequestSlot' = RequestSlot
        /\ \A l \in LeaseId : TupleOf(l)' = TupleOf(l) /\ (MayRenew(l)' <=> MayRenew(l))
    BY <1>3 DEF Advances, RequestSlot, TupleOf, MayRenew
  <2>2. /\ ap'.pc \in Holding => ap.pc \in Holding
        /\ ap'.pc \in Owning => ap.pc \in Owning
        /\ ap'.pc = "insert" => ap.pc = "insert"
        /\ ap'.pc \in {"pep", "fence", "activate"} => ap.pc \in {"pep", "fence", "activate"}
        /\ ap'.pc = "renew" => ap.pc \in Holding /\ (ap.pc = "renew" \/ MayRenew(ap.id))
    BY <1>3 DEF Advances, Holding, Owning
  <2>3. LeaseOfRequest'
    BY <1>3, <2>1, <2>2 DEF LeaseOfRequest, Advances
  <2>4. NoActiveWhileApplying'
    BY <1>3, <2>1, <2>2 DEF NoActiveWhileApplying, NothingNewActive
  <2>5. RenewalIsExclusive'
    BY <1>3, <2>1, <2>2 DEF RenewalIsExclusive, LeaseOfRequest, NothingNewActive, Advances
  <2> QED BY <1>1, <2>3, <2>4, <2>5
<1> QED BY <1>2, <1>3 DEF StaysOrQuiet

LEMMA InvInit == Init => BrokerInv
<1> SUFFICES ASSUME Init PROVE BrokerInv
  OBVIOUS
<1>1. TypeOK
  BY TypeInit
<1>2. OneActivePerTuple
  BY DEF Init, OneActivePerTuple
<1>3. RenewalsBounded
  BY BrokerAssumption DEF Init, RenewalsBounded, NoBody
<1>4. NoActiveWhileApplying /\ LeaseOfRequest /\ RenewalIsExclusive
  BY DEF Init, IdleApply, NoActiveWhileApplying, LeaseOfRequest, RenewalIsExclusive,
         Holding, Owning
<1> QED BY <1>1, <1>2, <1>3, <1>4 DEF BrokerInv

\* An active lease of the tuple is the one FindActiveActionLease returns.
LEMMA FindActiveFinds ==
    ASSUME BrokerInv, NEW m \in LeaseId, status[m] = "active", TupleOf(m) = RequestSlot
    PROVE  FindActive(RequestSlot) = {m}
<1>1. \A l \in LeaseId : status[l] = "active" /\ TupleOf(l) = RequestSlot => l = m
  BY DEF BrokerInv, OneActivePerTuple
<1>2. body[m].expires \in Nat
  BY DEF BrokerInv, TypeOK, Body, Time
<1> QED BY <1>1, <1>2 DEF FindActive

\* A step that fails ends Apply and activates nothing.
LEMMA StopsQuietly ==
    ASSUME ApplyStops
    PROVE  NothingNewActive /\ StaysOrQuiet /\ status' = status /\ ap' = IdleApply
BY DEF ApplyStops, StoreFault, IdleApply, QuietPc, NothingNewActive, StaysOrQuiet

LEMMA FindKeepsInv ==
    ASSUME BrokerInv, TypeOK', ApplyFind
    PROVE  BrokerInv'
<1> USE DEF BrokerInv
<1>1. ap.pc = "find" /\ body' = body
  BY DEF ApplyFind
<1>2. ap \in ApplyState /\ status \in [LeaseId -> Status]
  BY DEF TypeOK, ApplyState
<1>3. RenewalsBounded'
  BY <1>1 DEF RenewalsBounded
<1>4. CASE /\ FindActive(RequestSlot) = {} /\ status' = status
           /\ ap' = [ap EXCEPT !.pc = "insert"]
  <2>1. \A l \in LeaseId : status[l] = "active" => TupleOf(l) # RequestSlot
    BY <1>4, FindActiveFinds
  <2>2. RequestSlot' = RequestSlot /\ ap'.pc = "insert"
    BY <1>2, <1>4 DEF RequestSlot, ApplyState
  <2>3. OneActivePerTuple'
    BY <1>1, <1>4 DEF OneActivePerTuple, TupleOf
  <2>4. NoActiveWhileApplying'
    BY <1>1, <1>4, <2>1, <2>2 DEF NoActiveWhileApplying, TupleOf
  <2>5. LeaseOfRequest' /\ RenewalIsExclusive'
    BY <2>2 DEF LeaseOfRequest, RenewalIsExclusive, Holding, Owning
  <2> QED BY <1>3, <2>3, <2>4, <2>5
<1>5. ASSUME NEW l \in FindActive(RequestSlot), ap' = [ap EXCEPT !.pc = "examine", !.id = l],
             status' = status
      PROVE  BrokerInv'
  <2>1. l \in LeaseId /\ status[l] = "active" /\ TupleOf(l) = RequestSlot
    BY DEF FindActive
  <2>2. RequestSlot' = RequestSlot /\ ap'.pc = "examine" /\ ap'.id = l
    BY <1>2, <1>5 DEF RequestSlot, ApplyState
  <2>3. OneActivePerTuple'
    BY <1>1, <1>5 DEF OneActivePerTuple, TupleOf
  <2>4. NoActiveWhileApplying'
    BY <2>2 DEF NoActiveWhileApplying
  <2>5. LeaseOfRequest'
    BY <1>1, <2>1, <2>2 DEF LeaseOfRequest, TupleOf
  <2>6. \A m \in LeaseId : status'[m] = "active" /\ TupleOf(m)' = RequestSlot' => m = ap'.id
    BY <1>1, <1>5, <2>1, <2>2 DEF OneActivePerTuple, TupleOf
  <2>7. RenewalIsExclusive'
    BY <2>2, <2>6 DEF RenewalIsExclusive, TupleOf
  <2> QED BY <1>3, <2>3, <2>4, <2>5, <2>7
<1>6. CASE ApplyStops
  BY <1>1, <1>6, StopsQuietly, NothingActivated
<1> QED BY <1>4, <1>5, <1>6 DEF ApplyFind

LEMMA RetireKeepsInv ==
    ASSUME BrokerInv, TypeOK', ApplyRetire
    PROVE  BrokerInv'
<1> USE DEF BrokerInv
<1>1. ap.pc \in Holding /\ body' = body
  BY DEF ApplyRetire, Holding
<1>2. ap \in ApplyState /\ status \in [LeaseId -> Status] /\ ap.id \in LeaseId
  BY <1>1 DEF TypeOK, ApplyState, LeaseOfRequest
<1>3. CASE ApplyStops
  BY <1>1, <1>3, StopsQuietly, NothingActivated
<1>4. ASSUME NEW s \in {"superseded", "conflict"}, SetStatus(ap.id, s),
             ap' = [ap EXCEPT !.pc = "insert"]
      PROVE  BrokerInv'
  <2>1. \A m \in LeaseId : status'[m] = "active" => status[m] = "active" /\ m # ap.id
    BY <1>2, <1>4 DEF SetStatus
  <2>2. RequestSlot' = RequestSlot /\ ap'.pc = "insert"
    BY <1>2, <1>4 DEF RequestSlot, ApplyState
  <2>3. OneActivePerTuple' /\ RenewalsBounded'
    BY <1>1, <2>1 DEF OneActivePerTuple, TupleOf, RenewalsBounded
  <2>4. \A m \in LeaseId : status'[m] = "active" => TupleOf(m) # RequestSlot
    BY <1>1, <2>1 DEF RenewalIsExclusive
  <2>5. NoActiveWhileApplying'
    BY <1>1, <2>2, <2>4 DEF NoActiveWhileApplying, TupleOf
  <2>6. LeaseOfRequest' /\ RenewalIsExclusive'
    BY <2>2 DEF LeaseOfRequest, RenewalIsExclusive, Holding, Owning
  <2> QED BY <2>3, <2>5, <2>6
<1> QED BY <1>3, <1>4 DEF ApplyRetire

LEMMA RenewKeepsInv ==
    ASSUME BrokerInv, TypeOK', ApplyRenew
    PROVE  BrokerInv'
<1> USE DEF BrokerInv
<1>1. /\ ap.id \in LeaseId
      /\ body \in [LeaseId -> Body] /\ status \in [LeaseId -> Status]
  BY DEF ApplyRenew, LeaseOfRequest, TypeOK, Holding
<1>2. ap'.pc \in QuietPc
  BY DEF ApplyRenew, ApplyStops, IdleApply, QuietPc
<1>3. CASE ApplyStops /\ UNCHANGED body
  BY <1>3, StopsQuietly, NothingActivated
<1>4. CASE /\ SetStatus(ap.id, "active")
           /\ body' = [body EXCEPT ![ap.id].expires = ap.now + ap.req.ttl,
                                   ![ap.id].renewals = @ + 1]
  <2>1. \A l \in LeaseId : /\ body'[l].tgt = body[l].tgt
                           /\ body'[l].action = body[l].action
                           /\ body'[l].level = body[l].level
                           /\ l # ap.id => body'[l].renewals = body[l].renewals
    BY <1>1, <1>4 DEF Body
  <2>2. body'[ap.id].renewals = body[ap.id].renewals + 1
    BY <1>1, <1>4 DEF Body
  <2>3. \A l \in LeaseId : TupleOf(l)' = TupleOf(l)
    BY <2>1 DEF TupleOf
  <2>4. \A l \in LeaseId : status'[l] = "active" => status[l] = "active" \/ l = ap.id
    BY <1>1, <1>4 DEF SetStatus
  <2>5. \A m \in LeaseId : status[m] = "active" /\ TupleOf(m) = TupleOf(ap.id) => m = ap.id
    BY DEF ApplyRenew, RenewalIsExclusive, LeaseOfRequest, Holding
  <2>6. OneActivePerTuple'
    BY <1>1, <2>3, <2>4, <2>5 DEF OneActivePerTuple
  <2>7. RenewalsBounded'
    <3>1. \A l \in LeaseId : body[l].renewals \in Nat
      BY <1>1 DEF Body
    <3>2. MaxRenewals > 0 => body[ap.id].renewals < MaxRenewals
      BY DEF ApplyRenew, RenewalIsExclusive, MayRenew
    <3> QED BY <1>1, <2>1, <2>2, <3>1, <3>2, BrokerAssumption DEF RenewalsBounded
  <2> QED
    BY <1>2, <2>6, <2>7 DEF QuietPc, NoActiveWhileApplying, LeaseOfRequest, RenewalIsExclusive,
                                   Holding, Owning
<1> QED BY <1>3, <1>4 DEF ApplyRenew

LEMMA InsertKeepsInv ==
    ASSUME BrokerInv, TypeOK', NEW n \in LeaseId, ApplyInsert(n)
    PROVE  BrokerInv'
<1> USE DEF BrokerInv
<1>1. /\ ap.pc = "insert" /\ status[n] = "none" /\ ap \in ApplyState
      /\ body \in [LeaseId -> Body] /\ status \in [LeaseId -> Status]
  BY DEF ApplyInsert, TypeOK, ApplyState
<1>2. CASE ApplyStops /\ UNCHANGED body
  BY <1>2, StopsQuietly, NothingActivated
<1>3. CASE /\ SetStatus(n, "pending")
           /\ body' = [body EXCEPT ![n] =
                  [tgt |-> ap.req.tgt, action |-> ap.req.action, level |-> ap.req.level,
                   param |-> ap.req.param, dry |-> dry,
                   expires |-> ap.now + ap.req.ttl, renewals |-> 0]]
           /\ ap' = [ap EXCEPT !.pc = "pep", !.id = n]
  <2>1. RequestSlot' = RequestSlot /\ ap'.pc = "pep" /\ ap'.id = n
    BY <1>1, <1>3 DEF RequestSlot, ApplyState
  <2>2. TupleOf(n)' = RequestSlot /\ body'[n].renewals = 0
    BY <1>1, <1>3 DEF TupleOf, RequestSlot
  <2>3. \A l \in LeaseId : l # n => body'[l] = body[l]
    BY <1>1, <1>3
  <2>4. \A l \in LeaseId : status'[l] = "active" => status[l] = "active" /\ l # n
    BY <1>1, <1>3 DEF SetStatus
  <2>5. OneActivePerTuple'
    BY <2>3, <2>4 DEF OneActivePerTuple, TupleOf
  <2>6. RenewalsBounded'
    BY <2>2, <2>3, BrokerAssumption DEF RenewalsBounded
  <2>7. \A l \in LeaseId : status'[l] = "active" => TupleOf(l)' # RequestSlot
    BY <1>1, <2>3, <2>4 DEF NoActiveWhileApplying, TupleOf
  <2>8. NoActiveWhileApplying'
    BY <2>1, <2>7 DEF NoActiveWhileApplying
  <2>9. LeaseOfRequest' /\ RenewalIsExclusive'
    BY <2>1, <2>2 DEF LeaseOfRequest, RenewalIsExclusive, Holding
  <2> QED BY <2>5, <2>6, <2>8, <2>9
<1> QED BY <1>2, <1>3 DEF ApplyInsert

LEMMA ActivateKeepsInv ==
    ASSUME BrokerInv, TypeOK', ApplyActivate
    PROVE  BrokerInv'
<1> USE DEF BrokerInv
<1>1. /\ ap.id \in LeaseId /\ TupleOf(ap.id) = RequestSlot /\ body' = body
      /\ ap \in ApplyState /\ status \in [LeaseId -> Status]
  BY DEF ApplyActivate, LeaseOfRequest, TypeOK, ApplyState, Owning
<1>2. CASE ApplyStops
  BY <1>1, <1>2, StopsQuietly, NothingActivated
<1>3. CASE SetStatus(ap.id, "active") /\ ap' = [ap EXCEPT !.pc = "supersede"]
  <2>1. ap'.pc \in QuietPc
    BY <1>1, <1>3 DEF QuietPc, ApplyState
  <2>2. \A l \in LeaseId : status'[l] = "active" => status[l] = "active" \/ l = ap.id
    BY <1>1, <1>3 DEF SetStatus
  <2>3. \A l \in LeaseId : status[l] = "active" => TupleOf(l) # TupleOf(ap.id)
    BY <1>1 DEF ApplyActivate, NoActiveWhileApplying
  <2>4. OneActivePerTuple'
    BY <1>1, <2>2, <2>3 DEF OneActivePerTuple, TupleOf
  <2>5. RenewalsBounded'
    BY <1>1 DEF RenewalsBounded
  <2> QED
    BY <2>1, <2>4, <2>5 DEF QuietPc, NoActiveWhileApplying, LeaseOfRequest, RenewalIsExclusive,
                                   Holding, Owning
<1> QED BY <1>2, <1>3 DEF ApplyActivate

\* The steps that neither journal, find, retire nor activate a lease.
OtherStep ==
    \/ \E by \in Applier, r \in Request : ApplyBegin(by, r)
    \/ ApplyCheckStronger \/ ApplyExamine \/ ApplyPep \/ ApplyAbandon \/ ApplyFence
    \/ ApplySupersede \/ ApplyOverrule
    \/ SweepBegin \/ SweepWork
    \/ \E by \in Applier, t \in Target : DirectObserve(by, t)
    \/ \E newDry \in BOOLEAN : Crash(newDry)
    \/ \E ok \in BOOLEAN : ObservePass(ok)
    \/ Tick \/ UNCHANGED vars

LEMMA OtherStepsEffect ==
    ASSUME BrokerInv, OtherStep
    PROVE  body' = body /\ NothingNewActive /\ StaysOrQuiet
<1>1. ap \in ApplyState /\ status \in [LeaseId -> Status]
  BY DEF BrokerInv, TypeOK, ApplyState
<1>2. \A l, s : SetStatus(l, s) /\ s # "active" => NothingNewActive
  BY <1>1 DEF SetStatus, NothingNewActive
<1>3. StoreFault \/ status' = status => NothingNewActive
  BY DEF StoreFault, NothingNewActive
<1>4. ap'.pc \in QuietPc \/ ap' = IdleApply => StaysOrQuiet
  BY DEF IdleApply, QuietPc, StaysOrQuiet
<1>5. ap' = ap => StaysOrQuiet
  BY DEF StaysOrQuiet, Advances
<1>6. CASE \E by \in Applier, r \in Request : ApplyBegin(by, r)
  BY <1>3, <1>4, <1>6 DEF ApplyBegin, IdleApply, QuietPc
<1>7. CASE ApplyCheckStronger
  <2>1. ap'.pc \in QuietPc
    BY <1>1, <1>7, StopsQuietly DEF ApplyCheckStronger, QuietPc, ApplyState, IdleApply
  <2> QED BY <1>3, <1>4, <1>7, <2>1 DEF ApplyCheckStronger, ApplyStops
<1>8. CASE ApplyExamine
  <2>1. StaysOrQuiet
    BY <1>1, <1>4, <1>8 DEF ApplyExamine, ApplyState, StaysOrQuiet, Advances
  <2> QED BY <1>3, <1>8, <2>1 DEF ApplyExamine
<1>9. CASE ApplyPep \/ ApplyFence
  <2>1. StaysOrQuiet
    BY <1>1, <1>9 DEF ApplyPep, ApplyFence, ApplyState, StaysOrQuiet, Advances
  <2> QED BY <1>3, <1>9, <2>1 DEF ApplyPep, ApplyFence
<1>10. CASE ApplyAbandon
  BY <1>2, <1>3, <1>4, <1>10 DEF ApplyAbandon
<1>11. CASE ApplySupersede \/ ApplyOverrule
  <2>1. \A l : [ap EXCEPT !.pc = "overrule", !.weaker = l].pc = "overrule"
    BY <1>1 DEF ApplyState
  <2>2. \A l : [ap EXCEPT !.pc = "supersede", !.weaker = l].pc = "supersede"
    BY <1>1 DEF ApplyState
  <2>3. StaysOrQuiet
    BY <1>4, <1>11, <2>1, <2>2, StopsQuietly DEF ApplySupersede, ApplyOverrule, QuietPc
  <2> QED BY <1>2, <1>3, <1>11, <2>3 DEF ApplySupersede, ApplyOverrule, ApplyStops
<1>12. CASE SweepBegin
  BY <1>3, <1>5, <1>12 DEF SweepBegin
<1>13. CASE SweepWork
  BY <1>2, <1>3, <1>5, <1>13
     DEF SweepWork, SweepCheck, SweepDisown, SweepRevert, SweepUnfence, SweepMark
<1>14. CASE \E by \in Applier, t \in Target : DirectObserve(by, t)
  BY <1>3, <1>5, <1>14 DEF DirectObserve
<1>15. CASE \E newDry \in BOOLEAN : Crash(newDry)
  BY <1>4, <1>15 DEF Crash, NothingNewActive
<1>16. CASE (\E ok \in BOOLEAN : ObservePass(ok)) \/ Tick \/ UNCHANGED vars
  BY <1>3, <1>5, <1>16 DEF ObservePass, Tick, vars
<1> QED
  BY <1>6, <1>7, <1>8, <1>9, <1>10, <1>11, <1>12, <1>13, <1>14, <1>15, <1>16 DEF OtherStep

\* Every step is one of these or one of the five that matter to the journal's tuples.
LEMMA StepKinds ==
    ASSUME [Next]_vars
    PROVE  \/ OtherStep
           \/ ApplyFind \/ ApplyRetire \/ ApplyRenew \/ ApplyActivate
           \/ \E l \in LeaseId : ApplyInsert(l)
BY DEF Next, ApplyStep, OtherStep

LEMMA InvNext == BrokerInv /\ [Next]_vars => BrokerInv'
<1> SUFFICES ASSUME BrokerInv, [Next]_vars PROVE BrokerInv'
  OBVIOUS
<1>1. TypeOK'
  BY TypeNext DEF BrokerInv
<1>2. CASE ApplyFind
  BY <1>1, <1>2, FindKeepsInv
<1>3. CASE ApplyRetire
  BY <1>1, <1>3, RetireKeepsInv
<1>4. CASE ApplyRenew
  BY <1>1, <1>4, RenewKeepsInv
<1>5. CASE \E l \in LeaseId : ApplyInsert(l)
  BY <1>1, <1>5, InsertKeepsInv
<1>6. CASE ApplyActivate
  BY <1>1, <1>6, ActivateKeepsInv
<1>7. CASE OtherStep
  BY <1>1, <1>7, OtherStepsEffect, NothingActivated
<1> QED BY <1>2, <1>3, <1>4, <1>5, <1>6, <1>7, StepKinds

LEMMA BrokerInvariant == Spec => []BrokerInv
BY InvInit, InvNext, PTL DEF Spec

\* No tuple ever has two active leases, however many goroutines apply, and
\* whatever the sweep, failures and restarts do in between.
THEOREM OneActiveLease == Spec => []OneActivePerTuple
<1>1. BrokerInv => OneActivePerTuple
  BY DEF BrokerInv
<1> QED BY <1>1, BrokerInvariant, PTL

\* No lease is renewed more often than the autonomy limit allows.
THEOREM RenewalLimit == Spec => []RenewalsBounded
<1>1. BrokerInv => RenewalsBounded
  BY DEF BrokerInv
<1> QED BY <1>1, BrokerInvariant, PTL

-----------------------------------------------------------------------------
(* What a step may do to the rows, the mode and the count of faults.       *)

\* Faults are counted and never forgotten.
LEMMA FaultsOnlyGrow ==
    ASSUME TypeOK, [Next]_vars
    PROVE  /\ faults'.pep = 0 => faults.pep = 0
           /\ faults'.store = 0 => faults.store = 0
           /\ faults'.restart = 0 => faults.restart = 0
<1> DEFINE Grow == /\ faults'.pep >= faults.pep
                   /\ faults'.store >= faults.store
                   /\ faults'.restart >= faults.restart
<1>1. faults \in [pep : Nat, store : Nat, restart : Nat]
  BY BrokerAssumption DEF TypeOK, FaultCount
<1>2. UNCHANGED faults => Grow
  BY <1>1
<1>3. StoreFault \/ PepFault => Grow
  BY <1>1 DEF StoreFault, PepFault
<1>4. \A l, s : SetStatus(l, s) => Grow
  BY <1>2 DEF SetStatus
<1> HIDE DEF Grow
<1>5. ApplyStops => Grow
  BY <1>3 DEF ApplyStops
<1>6. \/ ApplyFind \/ ApplyExamine \/ ApplyRetire \/ ApplyRenew
      \/ \E l \in LeaseId : ApplyInsert(l)
      => Grow
  BY <1>2, <1>4, <1>5 DEF ApplyFind, ApplyExamine, ApplyRetire, ApplyRenew, ApplyInsert
<1>7. ApplyStep => Grow
  BY <1>2, <1>3, <1>4, <1>5, <1>6
     DEF ApplyStep, ApplyCheckStronger, ApplyPep, ApplyAbandon, ApplyFence,
         ApplyActivate, ApplySupersede, ApplyOverrule
<1>8. SweepWork => Grow
  BY <1>2, <1>3, <1>4
     DEF SweepWork, SweepCheck, SweepDisown, SweepRevert, SweepUnfence, SweepMark
<1>9. ASSUME NEW newDry \in BOOLEAN, Crash(newDry)
      PROVE  Grow
  <2>1. PICK failed \in 0..2 :
            faults' = [faults EXCEPT !.restart = @ + 1, !.store = @ + failed]
    BY <1>9 DEF Crash
  <2> QED BY <1>1, <2>1 DEF Grow
<1>10. Grow
  BY <1>2, <1>7, <1>8, <1>9
     DEF Next, vars, ApplyBegin, SweepBegin, DirectObserve, ObservePass, Tick
<1>11. faults' \in [pep : Nat, store : Nat, restart : Nat]
  BY TypeNext, BrokerAssumption DEF TypeOK, FaultCount
<1> QED BY <1>1, <1>10, <1>11 DEF Grow

\* A step in which a write fails is on the record.
LEMMA FailureShows ==
    ASSUME TypeOK
    PROVE  /\ StoreFault => faults'.store # 0
           /\ PepFault => faults'.pep # 0
           /\ \A newDry \in BOOLEAN : Crash(newDry) => faults'.restart # 0
<1>1. faults \in [pep : Nat, store : Nat, restart : Nat]
  BY BrokerAssumption DEF TypeOK, FaultCount
<1>2. StoreFault => faults'.store # 0
  BY <1>1 DEF StoreFault
<1>3. PepFault => faults'.pep # 0
  BY <1>1 DEF PepFault
<1>4. ASSUME NEW newDry \in BOOLEAN, Crash(newDry)
      PROVE  faults'.restart # 0
  <2>1. PICK failed \in 0..2 :
            faults' = [faults EXCEPT !.restart = @ + 1, !.store = @ + failed]
    BY <1>4 DEF Crash
  <2>2. faults'.restart = faults.restart + 1
    BY <1>1, <2>1
  <2> QED BY <1>1, <2>2
<1> QED BY <1>2, <1>3, <1>4

\* The mode of a process is fixed when it starts.
LEMMA ModeFixed ==
    ASSUME [Next]_vars
    PROVE  dry' = dry \/ \E newDry \in BOOLEAN : Crash(newDry)
<1>1. ApplyStep => dry' = dry
  BY DEF ApplyStep, ApplyCheckStronger, ApplyFind, ApplyExamine, ApplyRetire, ApplyRenew,
         ApplyInsert, ApplyPep, ApplyAbandon, ApplyFence, ApplyActivate, ApplySupersede,
         ApplyOverrule
<1>2. SweepWork => dry' = dry
  BY DEF SweepWork, SweepCheck, SweepDisown, SweepRevert, SweepUnfence, SweepMark
<1> QED
  BY <1>1, <1>2 DEF Next, vars, ApplyBegin, SweepBegin, DirectObserve, ObservePass, Tick

-----------------------------------------------------------------------------
(* No dry-run lease is active in a process that enforces.                  *)

\* The leases that are active or about to be were made by a process that enforces.
RealLeases ==
    /\ \A l \in LeaseId : status[l] = "active" => ~ body[l].dry
    /\ ap.pc \in Holding \cup Owning => ~ body[ap.id].dry

ModeInv == ~ dry /\ faults.store = 0 => RealLeases

LEMMA RetireActivatesNothing ==
    ASSUME TypeOK, ApplyRetire
    PROVE  NothingNewActive
<1>1. status \in [LeaseId -> Status]
  BY DEF TypeOK
<1>2. ASSUME NEW s \in {"superseded", "conflict"}, SetStatus(ap.id, s)
      PROVE  NothingNewActive
  BY <1>1, <1>2 DEF SetStatus, NothingNewActive
<1> QED BY <1>2, StopsQuietly DEF ApplyRetire

LEMMA ModeNext == BrokerInv /\ ModeInv /\ [Next]_vars => ModeInv'
<1> SUFFICES ASSUME BrokerInv, ModeInv, [Next]_vars, ~ dry', faults'.store = 0
             PROVE  RealLeases'
  BY DEF ModeInv
<1>1. /\ TypeOK /\ faults.store = 0
      /\ ap \in ApplyState /\ status \in [LeaseId -> Status] /\ body \in [LeaseId -> Body]
  BY FaultsOnlyGrow DEF BrokerInv, TypeOK, ApplyState
<1>2. ~ StoreFault
  BY <1>1, FailureShows
<1>3. ASSUME NEW newDry \in BOOLEAN, Crash(newDry)
      PROVE  RealLeases'
  <2>1. newDry = FALSE /\ ap' = IdleApply /\ body' = body
    BY <1>3 DEF Crash
  <2>2. \A l \in LeaseId : status'[l] = "active" => status[l] = "active" /\ l \notin StaleDryRun(newDry)
    <3>1. PICK retired \in SUBSET StaleDryRun(newDry),
               abandoned \in SUBSET {l \in LeaseId : status[l] = "pending"}, failed \in 0..2 :
              /\ retired # StaleDryRun(newDry) => failed >= 1
              /\ abandoned # {l \in LeaseId : status[l] = "pending"} => failed >= 1
              /\ /\ retired # StaleDryRun(newDry)
                 /\ abandoned # {l \in LeaseId : status[l] = "pending"}
                 => failed = 2
              /\ faults.store + failed <= MaxStoreFaults
              /\ status' = [l \in LeaseId |-> IF l \in abandoned THEN "failed"
                                              ELSE IF l \in retired THEN "superseded"
                                              ELSE status[l]]
              /\ faults' = [faults EXCEPT !.restart = @ + 1, !.store = @ + failed]
      BY <1>3, Zenon DEF Crash
    <3>2. faults'.store = faults.store + failed
      BY <1>1, <3>1, BrokerAssumption DEF TypeOK, FaultCount
    <3>3. retired = StaleDryRun(newDry)
      BY <1>1, <3>1, <3>2
    <3> QED BY <3>1, <3>3
  <2>3. \A l \in LeaseId : status'[l] = "active" => ~ body'[l].dry
    BY <1>1, <2>1, <2>2 DEF StaleDryRun, Body
  <2> QED BY <2>1, <2>3 DEF RealLeases, IdleApply, Holding, Owning
<1>4. ASSUME ~ \E newDry \in BOOLEAN : Crash(newDry)
      PROVE  RealLeases'
  <2>1. ~ dry /\ RealLeases
    BY <1>1, <1>4, ModeFixed DEF ModeInv
  <2>2. ASSUME body' = body, NothingNewActive, StaysOrQuiet
        PROVE  RealLeases'
    BY <2>1, <2>2
       DEF RealLeases, NothingNewActive, StaysOrQuiet, Advances, QuietPc, Holding, Owning
  <2>3. CASE ApplyFind \/ ApplyRetire
    <3>1. body' = body /\ ~ ApplyStops
      BY <1>2, <2>3 DEF ApplyFind, ApplyRetire, ApplyStops
    <3>2. CASE ap' = [ap EXCEPT !.pc = "insert"] /\ NothingNewActive
      <4>1. ap'.pc = "insert"
        BY <1>1, <3>2 DEF ApplyState
      <4> QED BY <2>1, <3>1, <3>2, <4>1 DEF RealLeases, NothingNewActive, Holding, Owning
    <3>3. CASE ApplyRetire
      <4>1. NothingNewActive
        BY <1>1, <1>2, <3>3, RetireActivatesNothing DEF BrokerInv
      <4> QED BY <3>1, <3>2, <3>3, <4>1 DEF ApplyRetire
    <3>4. ASSUME NEW l \in FindActive(RequestSlot), ap' = [ap EXCEPT !.pc = "examine", !.id = l],
                 status' = status
          PROVE  RealLeases'
      <4>1. l \in LeaseId /\ status[l] = "active" /\ ap'.id = l
        BY <1>1, <3>4 DEF FindActive, ApplyState
      <4> QED BY <2>1, <3>1, <3>4, <4>1 DEF RealLeases
    <3>5. CASE FindActive(RequestSlot) = {} /\ ap' = [ap EXCEPT !.pc = "insert"] /\ status' = status
      BY <3>2, <3>5 DEF NothingNewActive
    <3> QED BY <2>3, <3>1, <3>3, <3>4, <3>5 DEF ApplyFind
  <2>4. CASE ApplyRenew
    <3>1. ap.id \in LeaseId /\ ~ body[ap.id].dry
      BY <2>1, <2>4 DEF ApplyRenew, BrokerInv, LeaseOfRequest, RealLeases, Holding
    <3>2. SetStatus(ap.id, "active") /\ ap' = IdleApply
      BY <1>2, <2>4 DEF ApplyRenew, ApplyStops
    <3>3. \A l \in LeaseId : body'[l].dry = body[l].dry
      BY <1>1, <1>2, <2>4, <3>1 DEF ApplyRenew, ApplyStops, Body
    <3> QED BY <1>1, <2>1, <3>1, <3>2, <3>3
            DEF SetStatus, RealLeases, IdleApply, Holding, Owning
  <2>5. ASSUME NEW n \in LeaseId, ApplyInsert(n)
        PROVE  RealLeases'
    <3>1. /\ status' = [status EXCEPT ![n] = "pending"]
          /\ ap'.id = n
      BY <1>1, <1>2, <2>5 DEF ApplyInsert, ApplyStops, SetStatus, ApplyState
    <3>2. /\ body'[n].dry = dry
          /\ \A l \in LeaseId : l # n => body'[l] = body[l]
      BY <1>1, <1>2, <2>5 DEF ApplyInsert, ApplyStops
    <3> QED BY <1>1, <2>1, <3>1, <3>2 DEF RealLeases
  <2>6. CASE ApplyActivate
    <3>1. /\ ap.id \in LeaseId /\ ~ body[ap.id].dry /\ body' = body
          /\ SetStatus(ap.id, "active") /\ ap'.pc = "supersede"
      BY <1>1, <1>2, <2>1, <2>6
         DEF ApplyActivate, ApplyStops, BrokerInv, LeaseOfRequest, RealLeases, ApplyState,
             Owning
    <3> QED BY <1>1, <2>1, <3>1 DEF SetStatus, RealLeases, Holding, Owning
  <2> QED
    BY <1>1, <2>2, <2>3, <2>4, <2>5, <2>6, StepKinds, OtherStepsEffect
<1> QED BY <1>3, <1>4

\* A process that enforces never has an active dry-run lease, however leases are
\* journalled and renewed, and whatever process ran before it: unless a journal write
\* has failed (supersedeStaleDryRunExecutionLeases runs before anything is applied).
THEOREM NoDryRunSurvives == Spec => []NoDryRunLeaseInRealMode
<1>1. Init => ModeInv
  BY DEF Init, ModeInv, RealLeases, IdleApply, Holding, Owning
<1>2. ModeInv => NoDryRunLeaseInRealMode
  BY DEF ModeInv, RealLeases, NoDryRunLeaseInRealMode
<1> QED BY <1>1, <1>2, ModeNext, BrokerInvariant, PTL DEF Spec

-----------------------------------------------------------------------------
(* No weaker lease beside a stronger one.                                  *)

\* Positions of Apply after its check for stronger leases, up to the activation of a
\* lease; and those of the loop that supersedes the weaker ones.
Placing == {"find", "insert"} \cup Holding \cup Owning
Superseding == {"supersede", "overrule"}

RequestStrength == Strength(ap.req.action, ap.req.level)

\* The active leases of a target whose order is kept.
Counted(t) == {l \in ActiveOn(t) : body[l].action \in OrderedAction}

\* Two active leases of a target differ in strength only in the supersede loop; what
\* an Apply has in hand is as strong as anything active on its target, and what it has
\* found there is equally strong.
Ordered ==
    /\ \A t \in Target : \A l, m \in Counted(t) :
          \/ StrengthOf(l) = StrengthOf(m)
          \/ ap.pc \in Superseding /\ t = body[ap.id].tgt
    /\ ap.pc \in Superseding =>
          /\ ap.id \in LeaseId
          /\ \A l \in Counted(body[ap.id].tgt) : StrengthOf(l) <= StrengthOf(ap.id)
    /\ ap.pc \in Placing => \A l \in Counted(ap.req.tgt) : StrengthOf(l) <= RequestStrength
    /\ ap.pc \in Holding /\ ap.req.action \in OrderedAction =>
          \A l \in Counted(ap.req.tgt) : StrengthOf(l) = RequestStrength

\* Journal writes succeed and the process lives: else a supersede loop ends early.
OrderInv == faults.store = 0 /\ faults.restart = 0 => Ordered

LEMMA StrengthType == \A a, v : Strength(a, v) \in {100, 200, 300}
BY DEF Strength

\* The positions do not overlap.
LEMMA PositionsApart ==
    /\ Placing \cap Superseding = {} /\ Holding \subseteq Placing
    /\ {"idle", "stronger"} \cap (Placing \cup Superseding) = {}
BY DEF Placing, Superseding, Holding, Owning

\* A step that activates nothing keeps the order, unless it ends the supersede loop,
\* leaves the check for stronger leases behind or takes a lease found in hand.
LEMMA OrderKept ==
    ASSUME Ordered, body' = body, NothingNewActive,
           \/ ap'.pc \in {"idle", "stronger"} /\ ap.pc \notin Superseding
           \/ /\ ap'.req = ap.req /\ ap'.id = ap.id
              /\ \/ ap'.pc = ap.pc
                 \/ {ap.pc, ap'.pc} \subseteq Superseding
                 \/ /\ {ap.pc, ap'.pc} \subseteq Placing
                    /\ ap'.pc \in Holding => ap.pc \in Holding
    PROVE  Ordered'
<1>1. \A l \in LeaseId : StrengthOf(l)' = StrengthOf(l)
  BY DEF StrengthOf, Strength
<1>2. \A t : Counted(t)' \subseteq Counted(t)
  BY DEF Counted, ActiveOn, NothingNewActive
<1>3. ap'.req = ap.req => RequestStrength' = RequestStrength
  BY DEF RequestStrength, Strength
<1>4. \A t : Counted(t) \subseteq LeaseId
  BY DEF Counted, ActiveOn
<1>5. CASE ap'.pc \in {"idle", "stronger"} /\ ap.pc \notin Superseding
  BY <1>1, <1>2, <1>4, <1>5, PositionsApart DEF Ordered
<1>6. CASE /\ ap'.req = ap.req /\ ap'.id = ap.id
           /\ \/ ap'.pc = ap.pc
              \/ {ap.pc, ap'.pc} \subseteq Superseding
              \/ /\ {ap.pc, ap'.pc} \subseteq Placing
                 /\ ap'.pc \in Holding => ap.pc \in Holding
  <2>1. /\ ap'.pc \in Superseding <=> ap.pc \in Superseding
        /\ ap'.pc \in Holding => ap.pc \in Holding
        /\ ap'.pc \in Placing <=> ap.pc \in Placing
    BY <1>6, PositionsApart
  <2>2. Ordered!1'
    BY <1>1, <1>2, <1>4, <1>6, <2>1 DEF Ordered
  <2>3. Ordered!2'
    BY <1>1, <1>2, <1>4, <1>6, <2>1 DEF Ordered
  <2>4. Ordered!3' /\ Ordered!4'
    BY <1>1, <1>2, <1>3, <1>4, <1>6, <2>1 DEF Ordered
  <2> QED BY <2>2, <2>3, <2>4 DEF Ordered
<1> QED BY <1>5, <1>6

LEMMA RenewKeepsOrder ==
    ASSUME BrokerInv, Ordered, ApplyRenew, ~ StoreFault
    PROVE  Ordered'
<1>1. /\ ap.id \in LeaseId /\ TupleOf(ap.id) = RequestSlot /\ ap' = IdleApply
      /\ body \in [LeaseId -> Body] /\ status \in [LeaseId -> Status]
      /\ ap.pc \in Holding
  BY DEF ApplyRenew, BrokerInv, LeaseOfRequest, TypeOK, ApplyStops, Holding
<1>2. /\ SetStatus(ap.id, "active")
      /\ body' = [body EXCEPT ![ap.id].expires = ap.now + ap.req.ttl,
                              ![ap.id].renewals = @ + 1]
  BY DEF ApplyRenew, ApplyStops
<1>3. \A l \in LeaseId : /\ body'[l].tgt = body[l].tgt
                         /\ body'[l].action = body[l].action
                         /\ body'[l].level = body[l].level
  BY <1>1, <1>2 DEF Body
<1>4. \A l \in LeaseId : StrengthOf(l)' = StrengthOf(l)
  BY <1>3 DEF StrengthOf, Strength
<1>5. /\ body[ap.id].tgt = ap.req.tgt /\ body[ap.id].action = ap.req.action
      /\ StrengthOf(ap.id) = RequestStrength
  BY <1>1 DEF TupleOf, RequestSlot, StrengthOf, RequestStrength
<1>6. \A t : \A l \in Counted(t)' : l \in LeaseId /\ (l = ap.id \/ l \in Counted(t))
  <2>1. \A l \in LeaseId : status'[l] = "active" => l = ap.id \/ status[l] = "active"
    BY <1>1, <1>2 DEF SetStatus
  <2> QED BY <1>3, <2>1 DEF Counted, ActiveOn
<1>7. ap.req.action \in OrderedAction =>
          \A l \in Counted(ap.req.tgt) : StrengthOf(l) = RequestStrength
  BY <1>1 DEF Ordered
<1>8. \A t : ap.id \in Counted(t)' => t = ap.req.tgt /\ ap.req.action \in OrderedAction
  BY <1>1, <1>3, <1>5 DEF Counted, ActiveOn
<1>9. \A t \in Target : \A l, m \in Counted(t)' : StrengthOf(l) = StrengthOf(m)
  <2>1. \A t \in Target : \A l, m \in Counted(t) : StrengthOf(l) = StrengthOf(m)
    BY <1>1, PositionsApart DEF Ordered
  <2> QED BY <1>5, <1>6, <1>7, <1>8, <2>1
<1>10. Ordered!1'
  BY <1>4, <1>6, <1>9
<1> QED BY <1>1, <1>10, PositionsApart DEF Ordered, IdleApply

LEMMA InsertKeepsOrder ==
    ASSUME BrokerInv, Ordered, NEW n \in LeaseId, ApplyInsert(n), ~ StoreFault
    PROVE  Ordered'
<1>1. /\ ap \in ApplyState /\ body \in [LeaseId -> Body] /\ status \in [LeaseId -> Status]
      /\ ap.pc = "insert"
  BY DEF ApplyInsert, BrokerInv, TypeOK, ApplyState
<1>2. /\ status' = [status EXCEPT ![n] = "pending"]
      /\ \A l \in LeaseId \ {n} : body'[l] = body[l]
      /\ ap' = [ap EXCEPT !.pc = "pep", !.id = n]
  BY <1>1 DEF ApplyInsert, SetStatus, ApplyStops
<1>3. \A t : \A l \in Counted(t)' : l \in Counted(t) /\ StrengthOf(l)' = StrengthOf(l)
  BY <1>1, <1>2 DEF StrengthOf, Strength, Counted, ActiveOn
<1>4. ap'.pc = "pep" /\ RequestStrength' = RequestStrength /\ ap'.req = ap.req
  BY <1>1, <1>2 DEF RequestStrength, Strength, ApplyState
<1>5. "insert" \in Placing /\ "pep" \in Placing /\ "pep" \notin Superseding /\ "pep" \notin Holding
  BY DEF Placing, Superseding, Holding, Owning
<1>6. \A t \in Target : \A l, m \in Counted(t)' : StrengthOf(l)' = StrengthOf(m)'
  BY <1>1, <1>3, <1>5, PositionsApart DEF Ordered
<1>7. \A l \in Counted(ap.req.tgt)' : StrengthOf(l)' <= RequestStrength'
  BY <1>1, <1>3, <1>4, <1>5 DEF Ordered
<1> QED BY <1>4, <1>5, <1>6, <1>7 DEF Ordered

LEMMA ActivateKeepsOrder ==
    ASSUME BrokerInv, Ordered, ApplyActivate, ~ StoreFault
    PROVE  Ordered'
<1>1. /\ ap \in ApplyState /\ status \in [LeaseId -> Status] /\ ap.pc = "activate"
      /\ ap.id \in LeaseId /\ TupleOf(ap.id) = RequestSlot /\ body' = body
  BY DEF ApplyActivate, BrokerInv, LeaseOfRequest, TypeOK, ApplyState, Owning
<1>2. status' = [status EXCEPT ![ap.id] = "active"] /\ ap' = [ap EXCEPT !.pc = "supersede"]
  BY DEF ApplyActivate, SetStatus, ApplyStops
<1>3. ap'.pc = "supersede" /\ ap'.id = ap.id /\ ap'.req = ap.req
  BY <1>1, <1>2 DEF ApplyState
<1>4. /\ body[ap.id].tgt = ap.req.tgt
      /\ StrengthOf(ap.id) = RequestStrength
  BY <1>1 DEF TupleOf, RequestSlot, StrengthOf, RequestStrength
<1>5. \A l \in LeaseId : StrengthOf(l)' = StrengthOf(l)
  BY <1>1 DEF StrengthOf, Strength
<1>6. \A t : \A l \in Counted(t)' : /\ l \in LeaseId
                                    /\ l \in Counted(t) \/ (l = ap.id /\ t = ap.req.tgt)
  BY <1>1, <1>2, <1>4 DEF Counted, ActiveOn
<1>7. "activate" \in Placing /\ "supersede" \in Superseding
  BY DEF Placing, Superseding, Owning
<1>8. \A l \in Counted(ap.req.tgt)' : StrengthOf(l) <= StrengthOf(ap.id)
  <2>1. StrengthOf(ap.id) \in Nat
    BY StrengthType DEF StrengthOf
  <2>2. \A l \in Counted(ap.req.tgt) : StrengthOf(l) <= StrengthOf(ap.id)
    BY <1>1, <1>4, <1>7 DEF Ordered
  <2> QED BY <1>3, <1>6, <2>1, <2>2
<1>9. \A t \in Target : \A l, m \in Counted(t)' :
          StrengthOf(l) = StrengthOf(m) \/ t = body[ap.id].tgt
  BY <1>1, <1>4, <1>6, <1>7, PositionsApart DEF Ordered
<1>10. Ordered!1'
  BY <1>1, <1>3, <1>5, <1>6, <1>7, <1>9
<1>11. Ordered!2'
  <2>1. body'[ap'.id].tgt = ap.req.tgt
    BY <1>1, <1>3, <1>4
  <2>2. Counted(body[ap.id].tgt)' = Counted(ap.req.tgt)'
    BY <1>3, <2>1 DEF Counted, ActiveOn
  <2> QED BY <1>1, <1>3, <1>5, <1>6, <1>8, <2>2
<1> QED BY <1>3, <1>7, <1>10, <1>11, PositionsApart DEF Ordered

LEMMA SupersedeKeepsOrder ==
    ASSUME BrokerInv, Ordered, ApplySupersede \/ ApplyOverrule, ~ StoreFault
    PROVE  Ordered'
<1>1. /\ ap.pc \in Superseding /\ body' = body /\ status \in [LeaseId -> Status]
      /\ ap \in ApplyState
  BY DEF ApplySupersede, ApplyOverrule, BrokerInv, TypeOK, ApplyState, Superseding
<1>2. CASE ApplySupersede /\ WeakerActive(ap.id) = {} /\ ap' = IdleApply /\ UNCHANGED status
  <2>1. \A l \in LeaseId : StrengthOf(l)' = StrengthOf(l) /\ StrengthOf(l) \in Nat
    BY <1>1, StrengthType DEF StrengthOf, Strength
  <2>2. \A t : Counted(t)' = Counted(t) /\ Counted(t) \subseteq LeaseId
    BY <1>1, <1>2 DEF Counted, ActiveOn
  <2>3. \A l \in Counted(body[ap.id].tgt) : l = ap.id \/ ~ (StrengthOf(l) < StrengthOf(ap.id))
    BY <1>2 DEF WeakerActive, Comparable, Counted, ActiveOn
  <2>4. \A l \in Counted(body[ap.id].tgt) : StrengthOf(l) = StrengthOf(ap.id)
    BY <1>1, <2>1, <2>2, <2>3 DEF Ordered
  <2>5. \A t \in Target : \A l, m \in Counted(t) : StrengthOf(l) = StrengthOf(m)
    BY <2>4 DEF Ordered
  <2>6. Ordered!1'
    BY <2>1, <2>2, <2>5
  <2> QED BY <1>2, <2>6, PositionsApart DEF Ordered, IdleApply
<1>3. ASSUME NothingNewActive, ap'.pc \in Superseding, ap'.req = ap.req, ap'.id = ap.id
      PROVE  Ordered'
  BY <1>1, <1>3, OrderKept
<1>4. ASSUME NEW l, NEW pc \in Superseding, ap' = [ap EXCEPT !.pc = pc, !.weaker = l],
             NothingNewActive
      PROVE  Ordered'
  <2>1. ap'.pc \in Superseding /\ ap'.req = ap.req /\ ap'.id = ap.id
    BY <1>1, <1>4 DEF ApplyState
  <2> QED BY <1>3, <1>4, <2>1
<1>5. CASE ApplySupersede
  BY <1>2, <1>4, <1>5 DEF ApplySupersede, ApplyStops, NothingNewActive, Superseding
<1>6. CASE ApplyOverrule
  <2>1. NothingNewActive
    BY <1>1, <1>6 DEF ApplyOverrule, ApplyStops, SetStatus, NothingNewActive
  <2> QED BY <1>4, <1>6, <2>1 DEF ApplyOverrule, ApplyStops, Superseding
<1> QED BY <1>5, <1>6

LEMMA FindKeepsOrder ==
    ASSUME BrokerInv, Ordered, ApplyFind, ~ StoreFault
    PROVE  Ordered'
<1>1. /\ ap.pc = "find" /\ body' = body
      /\ ap \in ApplyState /\ status \in [LeaseId -> Status]
  BY DEF ApplyFind, BrokerInv, TypeOK, ApplyState
<1>2. {"find", "insert", "examine"} \subseteq Placing /\ "insert" \notin Holding
  BY DEF Placing, Holding, Owning
<1>3. CASE ap' = [ap EXCEPT !.pc = "insert"] /\ status' = status
  <2>1. NothingNewActive /\ ap'.pc = "insert" /\ ap'.req = ap.req /\ ap'.id = ap.id
    BY <1>1, <1>3 DEF NothingNewActive, ApplyState
  <2> QED BY <1>1, <1>2, <2>1, OrderKept
<1>4. ASSUME NEW l \in FindActive(RequestSlot), ap' = [ap EXCEPT !.pc = "examine", !.id = l],
             status' = status
      PROVE  Ordered'
  <2>1. l \in LeaseId /\ status[l] = "active" /\ TupleOf(l) = RequestSlot
    BY DEF FindActive
  <2>2. ap'.pc = "examine" /\ ap'.req = ap.req /\ RequestStrength' = RequestStrength
    BY <1>1, <1>4 DEF ApplyState, RequestStrength, Strength
  <2>3. \A m \in LeaseId : StrengthOf(m)' = StrengthOf(m)
    BY <1>1 DEF StrengthOf, Strength
  <2>4. \A t : Counted(t)' = Counted(t) /\ Counted(t) \subseteq LeaseId
    BY <1>1, <1>4 DEF Counted, ActiveOn
  <2>5. /\ body[l].tgt = ap.req.tgt /\ body[l].action = ap.req.action
        /\ StrengthOf(l) = RequestStrength /\ ap.req.tgt \in Target
    BY <1>1, <2>1 DEF TupleOf, RequestSlot, StrengthOf, RequestStrength, ApplyState, Request
  <2>6. ap.req.action \in OrderedAction => l \in Counted(ap.req.tgt)
    BY <2>1, <2>5 DEF Counted, ActiveOn
  <2>7. \A t \in Target : \A m, k \in Counted(t) : StrengthOf(m) = StrengthOf(k)
    BY <1>1, <1>2, PositionsApart DEF Ordered
  <2>8. Ordered!1'
    BY <2>3, <2>4, <2>7
  <2>9. Ordered!3'
    BY <1>1, <1>2, <2>2, <2>3, <2>4 DEF Ordered
  <2>10. Ordered!4'
    BY <2>2, <2>3, <2>4, <2>5, <2>6, <2>7
  <2> QED BY <1>2, <2>2, <2>8, <2>9, <2>10, PositionsApart DEF Ordered
<1> QED BY <1>3, <1>4 DEF ApplyFind, ApplyStops

LEMMA CheckStrongerKeepsOrder ==
    ASSUME BrokerInv, Ordered, ApplyCheckStronger, ~ StoreFault
    PROVE  Ordered'
<1>1. ap \in ApplyState /\ ap.pc = "stronger" /\ body' = body /\ status' = status
  BY DEF ApplyCheckStronger, ApplyStops, BrokerInv, TypeOK, ApplyState
<1>2. CASE ap' = IdleApply
  BY <1>1, <1>2, OrderKept, PositionsApart DEF IdleApply, NothingNewActive
<1>3. CASE ~ StrongerActive(ap.req) /\ ap' = [ap EXCEPT !.pc = "find"]
  <2>1. ap'.pc = "find" /\ ap'.req = ap.req /\ RequestStrength' = RequestStrength
    BY <1>1, <1>3 DEF ApplyState, RequestStrength, Strength
  <2>2. \A l \in LeaseId : StrengthOf(l)' = StrengthOf(l)
    BY <1>1 DEF StrengthOf, Strength
  <2>3. \A l \in Counted(ap.req.tgt) : StrengthOf(l) <= RequestStrength
    BY <1>3, StrengthType DEF StrongerActive, RequestStrength, StrengthOf, Comparable, Counted
  <2>4. \A t : Counted(t)' = Counted(t) /\ Counted(t) \subseteq LeaseId
    BY <1>1 DEF Counted, ActiveOn
  <2>5. "find" \in Placing /\ "find" \notin Holding
    BY DEF Placing, Holding
  <2>6. Ordered!1'
    BY <1>1, <2>2, <2>4, PositionsApart DEF Ordered
  <2>7. Ordered!3'
    BY <2>1, <2>2, <2>3, <2>4
  <2> QED BY <2>1, <2>5, <2>6, <2>7, PositionsApart DEF Ordered
<1> QED BY <1>2, <1>3 DEF ApplyCheckStronger, ApplyStops

\* The steps of an Apply that leave it among the positions it can place a lease from.
LEMMA PlacingKeepsOrder ==
    ASSUME BrokerInv, Ordered, ~ StoreFault,
           ApplyExamine \/ ApplyRetire \/ ApplyPep \/ ApplyAbandon \/ ApplyFence
    PROVE  Ordered'
<1>1. ap \in ApplyState /\ status \in [LeaseId -> Status]
  BY DEF BrokerInv, TypeOK, ApplyState
<1>2. body' = body /\ NothingNewActive
  BY OtherStepsEffect, RetireActivatesNothing
     DEF OtherStep, BrokerInv, ApplyRetire
<1>3. ap.pc \in Placing
  BY DEF ApplyExamine, ApplyRetire, ApplyPep, ApplyAbandon, ApplyFence, Placing, Holding, Owning
<1>4. \/ ap'.pc = "idle"
      \/ /\ ap'.req = ap.req /\ ap'.id = ap.id /\ ap'.pc \in Placing
         /\ ap'.pc \in Holding => ap.pc \in Holding
  <2>1. CASE ApplyExamine
    BY <1>1, <2>1 DEF ApplyExamine, ApplyState, IdleApply, Placing, Holding
  <2>2. CASE ApplyRetire
    BY <1>1, <2>2 DEF ApplyRetire, ApplyStops, ApplyState, Placing, Holding
  <2>3. CASE ApplyPep \/ ApplyAbandon \/ ApplyFence
    BY <1>1, <2>3 DEF ApplyPep, ApplyAbandon, ApplyFence, ApplyState, IdleApply,
                      Placing, Holding, Owning
  <2> QED BY <2>1, <2>2, <2>3
<1> QED BY <1>2, <1>3, <1>4, OrderKept, PositionsApart

LEMMA OrderNext == BrokerInv /\ OrderInv /\ [Next]_vars => OrderInv'
<1> SUFFICES ASSUME BrokerInv, OrderInv, [Next]_vars, faults'.store = 0, faults'.restart = 0
             PROVE  Ordered'
  BY DEF OrderInv
<1>1. TypeOK /\ TypeOK' /\ Ordered /\ ~ StoreFault /\ \A newDry \in BOOLEAN : ~ Crash(newDry)
  BY FaultsOnlyGrow, FailureShows, TypeNext DEF BrokerInv, OrderInv
<1>2. ap \in ApplyState /\ status \in [LeaseId -> Status]
  BY <1>1 DEF TypeOK, ApplyState
<1>3. CASE ApplyCheckStronger
  BY <1>1, <1>3, CheckStrongerKeepsOrder
<1>4. CASE ApplyFind
  BY <1>1, <1>4, FindKeepsOrder
<1>5. CASE ApplyRenew
  BY <1>1, <1>5, RenewKeepsOrder
<1>6. CASE \E n \in LeaseId : ApplyInsert(n)
  BY <1>1, <1>6, InsertKeepsOrder
<1>7. CASE ApplyActivate
  BY <1>1, <1>7, ActivateKeepsOrder
<1>8. CASE ApplySupersede \/ ApplyOverrule
  BY <1>1, <1>8, SupersedeKeepsOrder
<1>9. CASE \E by \in Applier, r \in Request : ApplyBegin(by, r)
  <2>1. ap.pc = "idle" /\ ap'.pc = "stronger" /\ body' = body /\ NothingNewActive
    BY <1>9 DEF ApplyBegin, NothingNewActive, IdleApply
  <2> QED BY <1>1, <2>1, OrderKept, PositionsApart
<1>10. CASE ApplyExamine \/ ApplyRetire \/ ApplyPep \/ ApplyAbandon \/ ApplyFence
  BY <1>1, <1>10, PlacingKeepsOrder
<1>11. CASE \/ SweepBegin \/ SweepWork \/ Tick \/ UNCHANGED vars
            \/ \E by \in Applier, t \in Target : DirectObserve(by, t)
            \/ \E ok \in BOOLEAN : ObservePass(ok)
  <2>1. body' = body /\ NothingNewActive
    BY <1>1, <1>11, OtherStepsEffect DEF OtherStep
  <2>2. ap' = ap
    BY <1>11 DEF SweepBegin, SweepWork, SweepCheck, SweepDisown, SweepRevert, SweepUnfence,
                 SweepMark, Tick, vars, DirectObserve, ObservePass
  <2> QED BY <1>1, <2>1, <2>2, OrderKept
<1> QED BY <1>1, <1>3, <1>4, <1>5, <1>6, <1>7, <1>8, <1>9, <1>10, <1>11 DEF Next, ApplyStep

\* While journal writes succeed and the process lives, the leases active on a target
\* for the ordered actions are equally strong outside the supersede loop: with any
\* number of goroutines that apply, beside a sweep that holds no lock, and also when
\* the maps fail.
THEOREM StrengthsAgree ==
    Spec => [](faults.store = 0 /\ faults.restart = 0 => NoWeakerBesideStronger)
<1>1. Init => OrderInv
  BY DEF Init, OrderInv, Ordered, IdleApply, Counted, ActiveOn, Placing, Superseding,
         Holding, Owning
<1>2. OrderInv => (faults.store = 0 /\ faults.restart = 0 => NoWeakerBesideStronger)
  BY DEF OrderInv, Ordered, NoWeakerBesideStronger, Counted, ActiveOn, Superseding
<1> QED BY <1>1, <1>2, OrderNext, BrokerInvariant, PTL DEF Spec

-----------------------------------------------------------------------------
(* The statuses of the leases that operations in flight hold.              *)

\* Statuses of a row that was active once.
Ran == {"active", "reverted", "superseded", "conflict"}

\* What a lease an Apply has found active may have become by the sweep.
Revivable == {"active", "reverted", "conflict"}

\* Positions of the sweep with a lease in hand.
Sweeping == {"disown", "pep", "unfence", "mark"}

\* A lease of an Apply's own stays pending, one it has found was only settled by the
\* sweep, and the sweep never holds one that was never active.
ApplyLife ==
    /\ ap.pc \in Owning => status[ap.id] = "pending"
    /\ ap.pc \in Holding => status[ap.id] \in Revivable
    /\ ap.pc \in Superseding => ap.id \in LeaseId /\ body[ap.id].tgt = ap.req.tgt
    /\ ap.pc = "overrule" =>
          /\ ap.weaker \in LeaseId \ {ap.id} /\ body[ap.weaker].tgt = ap.req.tgt
          /\ status[ap.weaker] \in Revivable

SweepLife ==
    /\ \A le \in rv.todo : status[le[1]] \in Ran
    /\ rv.pc \in Sweeping => rv.id \in LeaseId /\ status[rv.id] \in Ran

LifeInv == ApplyLife /\ SweepLife

\* The rest of a sweep is about leases it had listed.
LEMMA SweepRestHolds ==
    ASSUME NEW le
    PROVE  SweepRest(le).todo \subseteq rv.todo /\ SweepRest(le).pc \in {"idle", "next"}
BY DEF SweepRest, IdleRevert

\* Of an Apply that holds no lease there is nothing to say.
LEMMA QuietLife ==
    ASSUME ap'.pc \in {"idle", "stronger", "find", "insert"}
    PROVE  ApplyLife'
BY DEF ApplyLife, Owning, Holding, Superseding

\* A write to a row that the sweep may hold, of a status such a row may have.
LEMMA SweepLifeKept ==
    ASSUME TypeOK, SweepLife, UNCHANGED rv,
           \A l \in LeaseId : status[l] \in Ran => status'[l] \in Ran
    PROVE  SweepLife'
<1>1. rv.todo \subseteq LeaseId \X Time
  BY DEF TypeOK
<1> QED BY <1>1 DEF SweepLife

LEMMA ApplyKeepsLife ==
    ASSUME BrokerInv, LifeInv, ApplyStep
    PROVE  LifeInv'
<1>1. /\ TypeOK /\ ap \in ApplyState /\ status \in [LeaseId -> Status]
      /\ body \in [LeaseId -> Body] /\ ap.req \in Request
  BY DEF BrokerInv, TypeOK, ApplyState
<1>2. rv' = rv
  BY DEF ApplyStep, ApplyCheckStronger, ApplyFind, ApplyExamine, ApplyRetire, ApplyRenew,
         ApplyInsert, ApplyPep, ApplyAbandon, ApplyFence, ApplyActivate, ApplySupersede,
         ApplyOverrule
<1>3. status' = status => SweepLife'
  BY <1>1, <1>2, SweepLifeKept DEF LifeInv
<1>4. ASSUME ApplyStops PROVE LifeInv'
  BY <1>3, <1>4, QuietLife DEF ApplyStops, StoreFault, IdleApply, LifeInv
<1>5. ASSUME NEW l \in LeaseId, NEW s \in Ran, SetStatus(l, s)
      PROVE  SweepLife'
  BY <1>1, <1>2, <1>5, SweepLifeKept DEF LifeInv, SetStatus
<1>6. CASE ApplyCheckStronger
  <2>1. ap'.pc \in {"idle", "find"} \/ ApplyStops
    BY <1>1, <1>6 DEF ApplyCheckStronger, IdleApply, ApplyState
  <2> QED BY <1>3, <1>4, <1>6, <2>1, QuietLife DEF ApplyCheckStronger, LifeInv
<1>7. CASE ApplyFind
  <2>1. CASE ap' = [ap EXCEPT !.pc = "insert"] /\ status' = status
    <3>1. ap'.pc = "insert"
      BY <1>1, <2>1 DEF ApplyState
    <3> QED BY <1>3, <2>1, <3>1, QuietLife DEF LifeInv
  <2>2. ASSUME NEW l \in FindActive(RequestSlot), ap' = [ap EXCEPT !.pc = "examine", !.id = l],
               status' = status
        PROVE  LifeInv'
    <3>1. ap'.pc = "examine" /\ ap'.id = l /\ status[l] = "active"
      BY <1>1, <2>2 DEF ApplyState, FindActive
    <3>2. ApplyLife'
      BY <2>2, <3>1 DEF ApplyLife, Holding, Owning, Superseding, Revivable
    <3> QED BY <1>3, <2>2, <3>2 DEF LifeInv
  <2> QED BY <1>4, <1>7, <2>1, <2>2 DEF ApplyFind
<1>8. CASE ApplyExamine
  <2>1. ap' = IdleApply \/ (ap'.pc \in Holding /\ ap'.id = ap.id)
    BY <1>1, <1>8 DEF ApplyExamine, ApplyState, Holding
  <2>2. ap.pc \in Holding /\ status' = status
    BY <1>8 DEF ApplyExamine, Holding
  <2>3. ApplyLife'
    <3>1. CASE ap' = IdleApply
      BY <3>1, QuietLife DEF IdleApply
    <3>2. CASE ap'.pc \in Holding /\ ap'.id = ap.id
      BY <2>2, <3>2 DEF LifeInv, ApplyLife, Holding, Owning, Superseding
    <3> QED BY <2>1, <3>1, <3>2
  <2> QED BY <1>3, <2>2, <2>3 DEF LifeInv
<1>9. CASE ApplyRetire
  <2>1. ap.id \in LeaseId
    BY <1>9 DEF ApplyRetire, BrokerInv, LeaseOfRequest, Holding
  <2>2. ASSUME NEW s \in {"superseded", "conflict"}, SetStatus(ap.id, s),
               ap' = [ap EXCEPT !.pc = "insert"]
        PROVE  LifeInv'
    <3>1. ap'.pc = "insert" /\ s \in Ran
      BY <1>1, <2>2 DEF ApplyState, Ran
    <3> QED BY <1>5, <2>1, <2>2, <3>1, QuietLife DEF LifeInv
  <2> QED BY <1>4, <1>9, <2>2 DEF ApplyRetire
<1>10. CASE ApplyRenew
  <2>1. ap.id \in LeaseId /\ "active" \in Ran
    BY <1>10 DEF ApplyRenew, BrokerInv, LeaseOfRequest, Holding, Ran
  <2>2. ASSUME SetStatus(ap.id, "active"), ap' = IdleApply
        PROVE  LifeInv'
    BY <1>5, <2>1, <2>2, QuietLife DEF LifeInv, IdleApply
  <2> QED BY <1>4, <1>10, <2>2 DEF ApplyRenew
<1>11. ASSUME NEW n \in LeaseId, ApplyInsert(n)
       PROVE  LifeInv'
  <2>1. CASE SetStatus(n, "pending") /\ ap' = [ap EXCEPT !.pc = "pep", !.id = n]
    <3>1. /\ ap'.pc = "pep" /\ ap'.id = n /\ status' = [status EXCEPT ![n] = "pending"]
          /\ status[n] = "none"
      BY <1>1, <1>11, <2>1 DEF ApplyInsert, SetStatus, ApplyState
    <3>2. ApplyLife'
      BY <1>1, <3>1 DEF ApplyLife, Holding, Owning, Superseding
    <3>3. SweepLife'
      BY <1>1, <1>2, <3>1, SweepLifeKept DEF LifeInv, Ran
    <3> QED BY <3>2, <3>3 DEF LifeInv
  <2> QED BY <1>4, <1>11, <2>1 DEF ApplyInsert
<1>12. CASE ApplyPep \/ ApplyFence
  <2>1. ap.pc \in Owning /\ ap'.pc \in Owning /\ ap'.id = ap.id /\ status' = status
    BY <1>1, <1>12 DEF ApplyPep, ApplyFence, ApplyState, Owning
  <2>2. ApplyLife'
    BY <2>1 DEF LifeInv, ApplyLife, Holding, Owning, Superseding
  <2> QED BY <1>3, <2>1, <2>2 DEF LifeInv
<1>13. CASE ApplyAbandon
  <2>1. ap.id \in LeaseId /\ status[ap.id] = "pending" /\ ap' = IdleApply
    BY <1>13 DEF ApplyAbandon, BrokerInv, LeaseOfRequest, LifeInv, ApplyLife, Owning
  <2>2. \A l \in LeaseId : status[l] \in Ran => status'[l] \in Ran
    BY <1>1, <1>13, <2>1 DEF ApplyAbandon, SetStatus, StoreFault, Ran
  <2> QED BY <1>1, <1>2, <2>1, <2>2, SweepLifeKept, QuietLife DEF LifeInv, IdleApply
<1>14. CASE ApplyActivate
  <2>1. ap.id \in LeaseId /\ TupleOf(ap.id) = RequestSlot /\ body' = body
    BY <1>14 DEF ApplyActivate, BrokerInv, LeaseOfRequest, Owning
  <2>2. CASE SetStatus(ap.id, "active") /\ ap' = [ap EXCEPT !.pc = "supersede"]
    <3>1. ap'.pc = "supersede" /\ ap'.id = ap.id /\ ap'.req = ap.req
      BY <1>1, <2>2 DEF ApplyState
    <3>2. ApplyLife'
      BY <2>1, <3>1 DEF ApplyLife, Holding, Owning, Superseding, TupleOf, RequestSlot
    <3>3. SweepLife'
      BY <1>5, <2>1, <2>2 DEF Ran
    <3> QED BY <3>2, <3>3 DEF LifeInv
  <2> QED BY <1>4, <1>14, <2>2 DEF ApplyActivate
<1>15. CASE ApplySupersede
  <2>1. ap.pc = "supersede" /\ ap.id \in LeaseId /\ body[ap.id].tgt = ap.req.tgt /\ body' = body
    BY <1>15 DEF ApplySupersede, LifeInv, ApplyLife, Superseding
  <2>2. CASE ap' = IdleApply /\ status' = status
    BY <1>3, <2>2, QuietLife DEF LifeInv, IdleApply
  <2>3. ASSUME NEW l \in WeakerActive(ap.id),
               ap' = [ap EXCEPT !.pc = "overrule", !.weaker = l], status' = status
        PROVE  LifeInv'
    <3>1. ap'.pc = "overrule" /\ ap'.weaker = l /\ ap'.id = ap.id /\ ap'.req = ap.req
      BY <1>1, <2>3 DEF ApplyState
    <3>2. l \in LeaseId \ {ap.id} /\ body[l].tgt = ap.req.tgt /\ status[l] = "active"
      BY <2>1 DEF WeakerActive, Comparable, ActiveOn
    <3>3. ApplyLife'
      BY <2>1, <2>3, <3>1, <3>2 DEF ApplyLife, Holding, Owning, Superseding, Revivable
    <3> QED BY <1>3, <2>3, <3>3 DEF LifeInv
  <2> QED BY <1>4, <1>15, <2>2, <2>3 DEF ApplySupersede
<1>16. CASE ApplyOverrule
  <2>1. /\ ap.pc = "overrule" /\ ap.id \in LeaseId /\ body[ap.id].tgt = ap.req.tgt /\ body' = body
        /\ ap.weaker \in LeaseId
    BY <1>16 DEF ApplyOverrule, LifeInv, ApplyLife, Superseding
  <2>2. CASE SetStatus(ap.weaker, "superseded") /\ ap' = [ap EXCEPT !.pc = "supersede", !.weaker = None]
    <3>1. ap'.pc = "supersede" /\ ap'.id = ap.id /\ ap'.req = ap.req
      BY <1>1, <2>2 DEF ApplyState
    <3>2. ApplyLife'
      BY <2>1, <3>1 DEF ApplyLife, Holding, Owning, Superseding
    <3>3. SweepLife'
      BY <1>5, <2>1, <2>2 DEF Ran
    <3> QED BY <3>2, <3>3 DEF LifeInv
  <2> QED BY <1>4, <1>16, <2>2 DEF ApplyOverrule
<1> QED
  BY <1>6, <1>7, <1>8, <1>9, <1>10, <1>11, <1>12, <1>13, <1>14, <1>15, <1>16 DEF ApplyStep

LEMMA SweepKeepsLife ==
    ASSUME BrokerInv, LifeInv, SweepBegin \/ SweepWork
    PROVE  LifeInv'
<1>1. /\ TypeOK /\ status \in [LeaseId -> Status] /\ rv \in RevertState
  BY DEF BrokerInv, TypeOK, RevertState
<1>2. ap' = ap /\ body' = body
  BY DEF SweepBegin, SweepWork, SweepCheck, SweepDisown, SweepRevert, SweepUnfence, SweepMark
<1>3. status' = status => ApplyLife'
  BY <1>2 DEF LifeInv, ApplyLife
<1>4. CASE SweepBegin
  <2>1. rv'.pc = "next" /\ status' = status
    BY <1>4 DEF SweepBegin
  <2>2. \A le \in rv'.todo : status[le[1]] = "active"
    BY <1>4 DEF SweepBegin, ListExpired
  <2> QED BY <1>3, <2>1, <2>2 DEF LifeInv, SweepLife, Sweeping, Ran
<1>5. CASE SweepCheck
  <2>1. PICK le \in rv.todo, pc \in {"pep", "disown"} : rv' = [rv EXCEPT !.pc = pc, !.id = le[1]]
    BY <1>5 DEF SweepCheck
  <2>2. rv'.id = le[1] /\ le[1] \in LeaseId /\ rv'.todo = rv.todo /\ status' = status
    BY <1>1, <1>5, <2>1 DEF RevertState, SweepCheck
  <2> QED BY <1>3, <2>2 DEF LifeInv, SweepLife
<1>6. CASE SweepRevert \/ SweepUnfence
  <2>1. /\ rv.pc \in Sweeping /\ rv'.id = rv.id /\ rv'.todo = rv.todo /\ status' = status
    BY <1>1, <1>6 DEF SweepRevert, SweepUnfence, RevertState, Sweeping
  <2> QED BY <1>3, <2>1 DEF LifeInv, SweepLife
<1>7. CASE SweepDisown \/ SweepMark
  <2>1. rv.id \in LeaseId /\ status[rv.id] \in Ran
    BY <1>7 DEF SweepDisown, SweepMark, LifeInv, SweepLife, Sweeping
  <2>2. CASE StoreFault /\ rv' = IdleRevert
    BY <1>3, <2>2 DEF StoreFault, LifeInv, SweepLife, IdleRevert, Sweeping
  <2>3. ASSUME NEW s \in {"conflict", "reverted"}, SetStatus(rv.id, s),
               rv' = SweepRest(CurrentEntry)
        PROVE  LifeInv'
    <3>1. rv'.todo \subseteq rv.todo /\ rv'.pc \in {"idle", "next"}
      BY <2>3, SweepRestHolds
    <3>2. status' = [status EXCEPT ![rv.id] = s]
      BY <2>3 DEF SetStatus
    <3>3. SweepLife'
      BY <1>1, <3>1, <3>2 DEF LifeInv, SweepLife, RevertState, Ran, Sweeping
    <3>4. ApplyLife'
      <4>1. \A l \in LeaseId : /\ status[l] = "pending" => status'[l] = "pending"
                               /\ status[l] \in Revivable => status'[l] \in Revivable
        BY <1>1, <2>1, <3>2 DEF Ran, Revivable
      <4>2. ap.pc \in Owning \cup Holding => ap.id \in LeaseId
        BY DEF BrokerInv, LeaseOfRequest
      <4> QED BY <1>2, <4>1, <4>2 DEF LifeInv, ApplyLife
    <3> QED BY <3>3, <3>4 DEF LifeInv
  <2> QED BY <1>7, <2>2, <2>3 DEF SweepDisown, SweepMark
<1> QED BY <1>4, <1>5, <1>6, <1>7 DEF SweepWork

LEMMA LifeNext == BrokerInv /\ LifeInv /\ [Next]_vars => LifeInv'
<1> SUFFICES ASSUME BrokerInv, LifeInv, [Next]_vars PROVE LifeInv'
  OBVIOUS
<1>1. CASE ApplyStep
  BY <1>1, ApplyKeepsLife
<1>2. CASE SweepBegin \/ SweepWork
  BY <1>2, SweepKeepsLife
<1>3. CASE \E by \in Applier, r \in Request : ApplyBegin(by, r)
  <2>1. ap'.pc = "stronger" /\ UNCHANGED <<status, rv>>
    BY <1>3 DEF ApplyBegin, IdleApply
  <2> QED BY <2>1, QuietLife DEF LifeInv, SweepLife
<1>4. CASE \E newDry \in BOOLEAN : Crash(newDry)
  BY <1>4, QuietLife DEF Crash, LifeInv, SweepLife, IdleApply, IdleRevert, Sweeping
<1>5. CASE \/ Tick \/ UNCHANGED vars
           \/ \E by \in Applier, t \in Target : DirectObserve(by, t)
           \/ \E ok \in BOOLEAN : ObservePass(ok)
  BY <1>5 DEF Tick, vars, DirectObserve, ObservePass, LifeInv, ApplyLife, SweepLife
<1> QED BY <1>1, <1>2, <1>3, <1>4, <1>5 DEF Next

LEMMA LifeInvariant == Spec => [](BrokerInv /\ LifeInv)
<1>1. Init => LifeInv
  BY DEF Init, LifeInv, ApplyLife, SweepLife, IdleApply, IdleRevert, Holding, Owning,
         Superseding, Sweeping
<1> QED BY <1>1, LifeNext, BrokerInvariant, PTL DEF Spec

-----------------------------------------------------------------------------
(* What is enforced is backed by an active lease.                          *)

\* Positions of Apply between its journal row and the lease's activation, or from its
\* PEP call on.
Unbacked == {"insert", "pep", "fence", "activate"}
Enforcing == {"fence", "activate"} \cup Superseding

\* The lease enforced on a target is active, or is the one an Apply on that target has
\* retired or has just put there.
BackedAt(t) ==
    enf[t] # None =>
        /\ enf[t] \in LeaseId /\ body[enf[t]].tgt = t
        /\ \/ status[enf[t]] = "active"
           \/ /\ ap.pc \in {"insert", "pep"} /\ ap.req.tgt = t
              /\ status[enf[t]] \in {"superseded", "conflict"}
           \/ /\ ap.pc \in {"fence", "activate"} /\ ap.req.tgt = t
              /\ enf[t] = ap.id

\* The token of a target is that of what is enforced, except between the two writes.
TokenAt(t) ==
    enf[t] # None /\ token[t] # None =>
        \/ enf[t] = token[t]
        \/ ap.pc = "fence" /\ ap.req.tgt = t /\ enf[t] = ap.id

\* Once its PEP call is done, Apply has nothing but its own lease on its target; and a
\* lease that the sweep is about to settle is not enforced.
ApplyEnforces == ap.pc \in Enforcing => enf[ap.req.tgt] \in {None, ap.id}
SweepReleases == rv.pc \in {"disown", "unfence", "mark"} => \A t \in Target : enf[t] # rv.id

Backed ==
    /\ dry => \A t \in Target : enf[t] = None
    /\ \A t \in Target : BackedAt(t) /\ TokenAt(t)
    /\ ApplyEnforces
    /\ SweepReleases
    /\ ap.pc # "abandon"

BackedInv == Undisturbed => Backed

\* Steps that leave the rows, the maps and the tokens alone.
LEMMA BackedIdleStep ==
    ASSUME Backed, UNCHANGED <<status, body, enf, token, rv, dry>>,
           \/ /\ ap.pc \notin Unbacked
              /\ ap'.pc \notin Unbacked \cup Enforcing \cup {"abandon"}
           \/ ap.pc \in Superseding /\ ap'.pc \in Superseding /\ ap'.req = ap.req /\ ap'.id = ap.id
           \/ ap.pc = "find" /\ ap'.pc = "insert"
           \/ ap' = ap
    PROVE  Backed'
BY DEF Backed, BackedAt, TokenAt, ApplyEnforces, SweepReleases, Unbacked, Enforcing, Superseding

LEMMA FindKeepsBacked ==
    ASSUME TypeOK, Backed, ~ StoreFault,
           ApplyCheckStronger \/ ApplyFind \/ ApplyExamine \/ ApplySupersede
    PROVE  Backed'
<1>1. ap \in ApplyState /\ UNCHANGED <<status, body, enf, token, rv, dry>>
  BY DEF TypeOK, ApplyState, ApplyCheckStronger, ApplyFind, ApplyExamine, ApplySupersede,
         ApplyStops
<1>2. CASE ApplyCheckStronger
  <2>1. ap.pc = "stronger" /\ ap'.pc \in {"idle", "find"}
    BY <1>1, <1>2 DEF ApplyCheckStronger, ApplyStops, IdleApply, ApplyState
  <2> QED BY <1>1, <2>1, BackedIdleStep DEF Unbacked, Enforcing, Superseding
<1>3. CASE ApplyFind
  <2>1. ap.pc = "find" /\ ap'.pc \in {"insert", "examine"}
    BY <1>1, <1>3 DEF ApplyFind, ApplyStops, ApplyState
  <2> QED BY <1>1, <2>1, BackedIdleStep DEF Unbacked, Enforcing, Superseding
<1>4. CASE ApplyExamine
  <2>1. ap.pc = "examine" /\ ap'.pc \in {"idle", "replace", "disown", "renew"}
    BY <1>1, <1>4 DEF ApplyExamine, IdleApply, ApplyState
  <2> QED BY <1>1, <2>1, BackedIdleStep DEF Unbacked, Enforcing, Superseding
<1>5. CASE ApplySupersede
  <2>1. CASE ap' = IdleApply
    BY <1>1, <1>5, <2>1, BackedIdleStep
       DEF ApplySupersede, IdleApply, Unbacked, Enforcing, Superseding
  <2>2. ASSUME NEW l, ap' = [ap EXCEPT !.pc = "overrule", !.weaker = l]
        PROVE  Backed'
    <3>1. ap.pc = "supersede" /\ ap'.pc = "overrule" /\ ap'.req = ap.req /\ ap'.id = ap.id
      BY <1>1, <1>5, <2>2 DEF ApplySupersede, ApplyState
    <3> QED BY <1>1, <3>1, BackedIdleStep DEF Superseding
  <2> QED BY <1>5, <2>1, <2>2 DEF ApplySupersede, ApplyStops
<1> QED BY <1>2, <1>3, <1>4, <1>5

LEMMA RetireKeepsBacked ==
    ASSUME BrokerInv, LifeInv, Backed, ApplyRetire, ~ StoreFault
    PROVE  Backed'
<1>1. /\ ap.pc \in {"replace", "disown"} /\ UNCHANGED <<body, enf, token, rv, dry>>
      /\ ap \in ApplyState /\ status \in [LeaseId -> Status]
      /\ ap.id \in LeaseId /\ body[ap.id].tgt = ap.req.tgt
  BY DEF ApplyRetire, BrokerInv, TypeOK, ApplyState, LeaseOfRequest, Holding, TupleOf,
         RequestSlot
<1>2. PICK s \in {"superseded", "conflict"} :
          status' = [status EXCEPT ![ap.id] = s] /\ ap' = [ap EXCEPT !.pc = "insert"]
  BY DEF ApplyRetire, ApplyStops, SetStatus
<1>3. ap'.pc = "insert" /\ ap'.req = ap.req
  BY <1>1, <1>2 DEF ApplyState
<1>4. \A t \in Target : BackedAt(t)'
  BY <1>1, <1>2, <1>3 DEF Backed, BackedAt
<1>5. \A t \in Target : TokenAt(t)'
  BY <1>1 DEF Backed, TokenAt
<1>6. ApplyEnforces' /\ SweepReleases'
  BY <1>1, <1>3 DEF ApplyEnforces, SweepReleases, Backed, Enforcing, Superseding
<1> QED BY <1>1, <1>3, <1>4, <1>5, <1>6 DEF Backed

LEMMA RenewKeepsBacked ==
    ASSUME BrokerInv, Backed, ApplyRenew, ~ StoreFault
    PROVE  Backed'
<1>1. /\ ap.pc = "renew" /\ ap' = IdleApply /\ ap.id \in LeaseId
      /\ UNCHANGED <<enf, token, rv, dry>>
      /\ body \in [LeaseId -> Body] /\ status \in [LeaseId -> Status]
  BY DEF ApplyRenew, ApplyStops, BrokerInv, TypeOK, LeaseOfRequest, Holding
<1>2. /\ status' = [status EXCEPT ![ap.id] = "active"]
      /\ body' = [body EXCEPT ![ap.id].expires = ap.now + ap.req.ttl,
                              ![ap.id].renewals = @ + 1]
  BY DEF ApplyRenew, ApplyStops, SetStatus
<1>3. \A l \in LeaseId : body'[l].tgt = body[l].tgt
  BY <1>1, <1>2 DEF Body
<1>4. \A t \in Target : BackedAt(t)'
  BY <1>1, <1>2, <1>3 DEF Backed, BackedAt
<1>5. \A t \in Target : TokenAt(t)'
  BY <1>1 DEF Backed, TokenAt
<1>6. ApplyEnforces' /\ SweepReleases' /\ ap'.pc # "abandon"
  BY <1>1 DEF Backed, SweepReleases, ApplyEnforces, Enforcing, Superseding, IdleApply
<1> QED BY <1>1, <1>4, <1>5, <1>6 DEF Backed

LEMMA InsertKeepsBacked ==
    ASSUME TypeOK, Backed, NEW n \in LeaseId, ApplyInsert(n), ~ StoreFault
    PROVE  Backed'
<1>1. /\ ap.pc = "insert" /\ status[n] = "none" /\ ap \in ApplyState
      /\ UNCHANGED <<enf, token, rv, dry>>
      /\ body \in [LeaseId -> Body] /\ status \in [LeaseId -> Status]
  BY DEF ApplyInsert, TypeOK, ApplyState
<1>2. /\ status' = [status EXCEPT ![n] = "pending"]
      /\ ap' = [ap EXCEPT !.pc = "pep", !.id = n]
      /\ \A l \in LeaseId \ {n} : body'[l] = body[l]
      /\ body'[n].tgt = ap.req.tgt
  BY <1>1 DEF ApplyInsert, ApplyStops, SetStatus
<1>3. ap'.pc = "pep" /\ ap'.id = n /\ ap'.req = ap.req
  BY <1>1, <1>2 DEF ApplyState
<1>4. \A t \in Target : enf[t] # n
  BY <1>1, BrokerAssumption DEF Backed, BackedAt
<1>5. \A t \in Target : BackedAt(t)'
  BY <1>1, <1>2, <1>3, <1>4 DEF Backed, BackedAt
<1>6. \A t \in Target : TokenAt(t)'
  BY <1>1 DEF Backed, TokenAt
<1>7. SweepReleases' /\ ApplyEnforces' /\ ap'.pc # "abandon"
  BY <1>1, <1>3 DEF Backed, SweepReleases, ApplyEnforces, Enforcing, Superseding
<1> QED BY <1>1, <1>5, <1>6, <1>7 DEF Backed

LEMMA PepKeepsBacked ==
    ASSUME BrokerInv, LifeInv, Backed, ApplyPep, ~ PepFault
    PROVE  Backed'
<1>1. /\ ap.pc = "pep" /\ ap \in ApplyState /\ enf \in [Target -> LeaseId \cup {None}]
      /\ UNCHANGED <<status, body, token, rv, dry>>
      /\ ap.id \in LeaseId /\ status[ap.id] = "pending" /\ body[ap.id].tgt = ap.req.tgt
  BY DEF ApplyPep, BrokerInv, TypeOK, ApplyState, LeaseOfRequest, LifeInv, ApplyLife, Owning,
         TupleOf, RequestSlot
<1>2. /\ enf' = IF dry THEN enf ELSE [enf EXCEPT ![ap.req.tgt] = ap.id]
      /\ ap' = [ap EXCEPT !.pc = "fence"]
  BY DEF ApplyPep
<1>3. ap'.pc = "fence" /\ ap'.id = ap.id /\ ap'.req = ap.req /\ ap.req.tgt \in Target
  BY <1>1, <1>2 DEF ApplyState, Request
<1>4. \A t \in Target : t # ap.req.tgt => enf'[t] = enf[t]
  BY <1>1, <1>2
<1>5. enf'[ap.req.tgt] \in {None, ap.id}
  BY <1>1, <1>2, <1>3 DEF Backed
<1>6. \A t \in Target : BackedAt(t)'
  BY <1>1, <1>3, <1>4, <1>5 DEF Backed, BackedAt
<1>7. \A t \in Target : TokenAt(t)'
  BY <1>1, <1>3, <1>4, <1>5 DEF Backed, TokenAt
<1>8. ApplyEnforces'
  BY <1>3, <1>5 DEF ApplyEnforces
<1>9. SweepReleases'
  <2>1. rv.pc \in {"disown", "unfence", "mark"} => rv.id # ap.id /\ rv.id # None
    BY <1>1, BrokerAssumption DEF LifeInv, SweepLife, Sweeping, Ran
  <2> QED BY <1>1, <1>3, <1>4, <1>5, <2>1 DEF Backed, SweepReleases
<1> QED BY <1>1, <1>2, <1>3, <1>6, <1>7, <1>8, <1>9 DEF Backed

LEMMA FenceKeepsBacked ==
    ASSUME TypeOK, Backed, ApplyFence
    PROVE  Backed'
<1>1. /\ ap.pc = "fence" /\ ap \in ApplyState /\ token \in [Target -> LeaseId \cup {None}]
      /\ UNCHANGED <<status, body, enf, rv, dry>>
      /\ token' = [token EXCEPT ![ap.req.tgt] = ap.id]
      /\ ap' = [ap EXCEPT !.pc = "activate"]
  BY DEF ApplyFence, TypeOK, ApplyState
<1>2. ap'.pc = "activate" /\ ap'.id = ap.id /\ ap'.req = ap.req
  BY <1>1 DEF ApplyState
<1>3. \A t \in Target : TokenAt(t)'
  BY <1>1, <1>2 DEF Backed, TokenAt, ApplyEnforces, Enforcing
<1>4. \A t \in Target : BackedAt(t)'
  BY <1>1, <1>2 DEF Backed, BackedAt
<1>5. ApplyEnforces' /\ SweepReleases'
  BY <1>1, <1>2 DEF Backed, ApplyEnforces, SweepReleases, Enforcing
<1> QED BY <1>1, <1>2, <1>3, <1>4, <1>5 DEF Backed

LEMMA ActivateKeepsBacked ==
    ASSUME BrokerInv, Backed, ApplyActivate, ~ StoreFault
    PROVE  Backed'
<1>1. /\ ap.pc = "activate" /\ ap \in ApplyState /\ status \in [LeaseId -> Status]
      /\ UNCHANGED <<body, enf, token, rv, dry>> /\ ap.id \in LeaseId
      /\ status' = [status EXCEPT ![ap.id] = "active"]
      /\ ap' = [ap EXCEPT !.pc = "supersede"]
  BY DEF ApplyActivate, ApplyStops, SetStatus, BrokerInv, TypeOK, ApplyState, LeaseOfRequest,
         Owning
<1>2. ap'.pc = "supersede" /\ ap'.id = ap.id /\ ap'.req = ap.req
  BY <1>1 DEF ApplyState
<1>3. \A t \in Target : BackedAt(t)'
  BY <1>1, <1>2 DEF Backed, BackedAt
<1>4. \A t \in Target : TokenAt(t)'
  BY <1>1, <1>2 DEF Backed, TokenAt
<1>5. ApplyEnforces' /\ SweepReleases'
  BY <1>1, <1>2 DEF Backed, ApplyEnforces, SweepReleases, Enforcing, Superseding
<1> QED BY <1>1, <1>2, <1>3, <1>4, <1>5 DEF Backed

LEMMA OverruleKeepsBacked ==
    ASSUME TypeOK, LifeInv, Backed, ApplyOverrule, ~ StoreFault
    PROVE  Backed'
<1>1. /\ ap.pc = "overrule" /\ ap \in ApplyState /\ status \in [LeaseId -> Status]
      /\ UNCHANGED <<body, enf, token, rv, dry>>
      /\ status' = [status EXCEPT ![ap.weaker] = "superseded"]
      /\ ap' = [ap EXCEPT !.pc = "supersede", !.weaker = None]
      /\ ap.weaker \in LeaseId \ {ap.id} /\ body[ap.weaker].tgt = ap.req.tgt
  BY DEF ApplyOverrule, ApplyStops, SetStatus, TypeOK, ApplyState, LifeInv, ApplyLife
<1>2. ap'.pc = "supersede" /\ ap'.id = ap.id /\ ap'.req = ap.req
  BY <1>1 DEF ApplyState
<1>3. \A t \in Target : enf[t] # ap.weaker
  BY <1>1, BrokerAssumption DEF Backed, BackedAt, ApplyEnforces, Enforcing, Superseding
<1>4. \A t \in Target : BackedAt(t)'
  BY <1>1, <1>2, <1>3 DEF Backed, BackedAt
<1>5. \A t \in Target : TokenAt(t)'
  BY <1>1, <1>2 DEF Backed, TokenAt
<1>6. ApplyEnforces' /\ SweepReleases'
  BY <1>1, <1>2 DEF Backed, ApplyEnforces, SweepReleases, Enforcing, Superseding
<1> QED BY <1>1, <1>2, <1>4, <1>5, <1>6 DEF Backed

LEMMA SweepCheckKeepsBacked ==
    ASSUME TypeOK, LifeInv, Backed, SweepCheck
    PROVE  Backed'
<1>1. /\ UNCHANGED <<status, body, enf, token, ap, dry>> /\ rv \in RevertState
  BY DEF SweepCheck, TypeOK, RevertState
<1>2. PICK le \in rv.todo :
          rv' = [rv EXCEPT !.pc = IF CurrentToken(le[1]) = le[1] THEN "pep" ELSE "disown",
                           !.id = le[1]]
  BY DEF SweepCheck
<1>3. le[1] \in LeaseId /\ status[le[1]] \in Ran
  BY <1>1 DEF RevertState, LifeInv, SweepLife
<1>4. /\ rv'.id = le[1]
      /\ rv'.pc = IF CurrentToken(le[1]) = le[1] THEN "pep" ELSE "disown"
  BY <1>1, <1>2 DEF RevertState
<1>5. ASSUME CurrentToken(le[1]) # le[1], NEW t \in Target, enf[t] = le[1]
      PROVE  FALSE
  <2>1. enf[t] # None /\ body[le[1]].tgt = t
    BY <1>3, <1>5, BrokerAssumption DEF Backed, BackedAt
  <2>2. token[t] # None /\ token[t] # le[1]
    BY <1>5, <2>1 DEF CurrentToken
  <2>3. ap.pc = "fence" /\ le[1] = ap.id
    BY <1>5, <2>1, <2>2 DEF Backed, TokenAt
  <2> QED BY <1>3, <2>3 DEF LifeInv, ApplyLife, Owning, Ran
<1>6. SweepReleases'
  BY <1>1, <1>4, <1>5 DEF SweepReleases
<1> QED BY <1>1, <1>6 DEF Backed, BackedAt, TokenAt, ApplyEnforces

LEMMA SweepRevertKeepsBacked ==
    ASSUME TypeOK, LifeInv, Backed, SweepRevert, ~ PepFault
    PROVE  Backed'
<1>1. /\ UNCHANGED <<status, body, token, ap, dry>> /\ rv.pc = "pep"
      /\ rv \in RevertState /\ enf \in [Target -> LeaseId \cup {None}]
      /\ rv.id \in LeaseId
      /\ enf' = IF dry THEN enf ELSE [enf EXCEPT ![body[rv.id].tgt] = None]
      /\ rv' = [rv EXCEPT !.pc = "unfence"]
  BY DEF SweepRevert, TypeOK, RevertState, LifeInv, SweepLife, Sweeping
<1>2. \A t \in Target : enf'[t] = enf[t] \/ enf'[t] = None
  BY <1>1
<1>3. rv'.pc = "unfence" /\ rv'.id = rv.id
  BY <1>1 DEF RevertState
<1>4. \A t \in Target : enf'[t] # rv.id
  <2> SUFFICES ASSUME NEW t \in Target, enf'[t] = rv.id
               PROVE  FALSE
    OBVIOUS
  <2>1. enf[t] = rv.id /\ rv.id # None
    BY <1>1, <1>2, BrokerAssumption
  <2>2. body[rv.id].tgt = t /\ ~ dry
    BY <2>1 DEF Backed, BackedAt
  <2> QED BY <1>1, <2>1, <2>2
<1>5. \A t \in Target : BackedAt(t)' /\ TokenAt(t)'
  BY <1>1, <1>2 DEF Backed, BackedAt, TokenAt
<1>6. ApplyEnforces'
  <2>1. ap.req.tgt \in Target
    BY DEF TypeOK, Request
  <2> QED BY <1>1, <1>2, <2>1 DEF Backed, ApplyEnforces
<1>7. SweepReleases'
  BY <1>3, <1>4 DEF SweepReleases
<1> QED BY <1>1, <1>2, <1>5, <1>6, <1>7 DEF Backed

LEMMA SweepUnfenceKeepsBacked ==
    ASSUME TypeOK, Backed, SweepUnfence
    PROVE  Backed'
<1>1. /\ UNCHANGED <<status, body, enf, ap, dry>> /\ rv.pc = "unfence"
      /\ rv \in RevertState /\ token \in [Target -> LeaseId \cup {None}]
      /\ rv' = [rv EXCEPT !.pc = "mark"]
  BY DEF SweepUnfence, TypeOK, RevertState
<1>2. \A t \in Target : token'[t] = token[t] \/ token'[t] = None
  BY <1>1 DEF SweepUnfence
<1>3. rv'.pc = "mark" /\ rv'.id = rv.id
  BY <1>1 DEF RevertState
<1>4. SweepReleases'
  BY <1>1, <1>3 DEF Backed, SweepReleases
<1> QED BY <1>1, <1>2, <1>4 DEF Backed, BackedAt, TokenAt, ApplyEnforces

\* The status the sweep writes is that of a lease nothing enforces.
LEMMA SweepSettleKeepsBacked ==
    ASSUME TypeOK, LifeInv, Backed, SweepDisown \/ SweepMark, ~ StoreFault
    PROVE  Backed'
<1>1. /\ UNCHANGED <<body, enf, token, ap, dry>> /\ rv.pc \in {"disown", "mark"}
      /\ status \in [LeaseId -> Status] /\ rv.id \in LeaseId
      /\ rv' = SweepRest(CurrentEntry)
  BY DEF SweepDisown, SweepMark, TypeOK, LifeInv, SweepLife, Sweeping
<1>2. PICK s : status' = [status EXCEPT ![rv.id] = s]
  BY DEF SweepDisown, SweepMark, SetStatus
<1>3. \A t \in Target : BackedAt(t)'
  BY <1>1, <1>2 DEF Backed, BackedAt, SweepReleases
<1>4. SweepReleases'
  BY <1>1, SweepRestHolds DEF SweepReleases
<1> QED BY <1>1, <1>3, <1>4 DEF Backed, TokenAt, ApplyEnforces

LEMMA DirectKeepsBacked ==
    ASSUME TypeOK, LifeInv, Backed, NEW by \in Applier, NEW t \in Target, DirectObserve(by, t)
    PROVE  Backed'
<1>1. /\ UNCHANGED <<status, body, token, ap, rv, dry>>
      /\ \A u \in Target : enf'[u] = enf[u] \/ enf'[u] = None
      /\ ap.req.tgt \in Target
  BY DEF DirectObserve, TypeOK, Request
<1>2. rv.pc \in {"disown", "unfence", "mark"} => rv.id # None
  BY BrokerAssumption DEF LifeInv, SweepLife, Sweeping
<1> QED BY <1>1, <1>2 DEF Backed, BackedAt, TokenAt, ApplyEnforces, SweepReleases

LEMMA BackedNext == BrokerInv /\ LifeInv /\ BackedInv /\ [Next]_vars => BackedInv'
<1> SUFFICES ASSUME BrokerInv, LifeInv, BackedInv, [Next]_vars, Undisturbed'
             PROVE  Backed'
  BY DEF BackedInv
<1>1. /\ TypeOK /\ Backed /\ ~ StoreFault /\ ~ PepFault
      /\ \A newDry \in BOOLEAN : ~ Crash(newDry)
  BY FaultsOnlyGrow, FailureShows DEF BackedInv, Undisturbed, BrokerInv
<1>2. CASE \E by \in Applier, r \in Request : ApplyBegin(by, r)
  BY <1>1, <1>2, BackedIdleStep
     DEF ApplyBegin, IdleApply, Unbacked, Enforcing, Superseding
<1>3. CASE ApplyStep
  <2>1. ~ ApplyAbandon
    BY <1>1 DEF ApplyAbandon, Backed
  <2> QED
    BY <1>1, <1>3, <2>1, FindKeepsBacked, RetireKeepsBacked, RenewKeepsBacked,
       InsertKeepsBacked, PepKeepsBacked, FenceKeepsBacked, ActivateKeepsBacked,
       OverruleKeepsBacked
       DEF ApplyStep
<1>4. CASE SweepBegin
  <2>1. UNCHANGED <<status, body, enf, token, ap, dry>> /\ rv'.pc = "next"
    BY <1>4 DEF SweepBegin
  <2> QED BY <1>1, <2>1 DEF Backed, BackedAt, TokenAt, ApplyEnforces, SweepReleases
<1>5. CASE SweepWork
  BY <1>1, <1>5, SweepCheckKeepsBacked, SweepRevertKeepsBacked, SweepUnfenceKeepsBacked,
     SweepSettleKeepsBacked DEF SweepWork
<1>6. CASE \E by \in Applier, t \in Target : DirectObserve(by, t)
  BY <1>1, <1>6, DirectKeepsBacked
<1>7. CASE Tick \/ UNCHANGED vars \/ \E ok \in BOOLEAN : ObservePass(ok)
  BY <1>1, <1>7, BackedIdleStep DEF Tick, vars, ObservePass
<1> QED BY <1>1, <1>2, <1>3, <1>4, <1>5, <1>6, <1>7 DEF Next

\* Whatever the maps enforce while no Apply runs is backed by an active lease, as long
\* as no map or journal write fails and the process lives: also when applies of several
\* goroutines meet a sweep that is anywhere between its steps.
THEOREM EnforcementBacked == Spec => [](Undisturbed => EnforcementLeased)
<1>1. Init => BackedInv
  BY DEF Init, BackedInv, Backed, BackedAt, TokenAt, ApplyEnforces, SweepReleases,
         IdleApply, IdleRevert, Enforcing, Superseding
<1>2. BackedInv => (Undisturbed => EnforcementLeased)
  BY DEF BackedInv, Backed, BackedAt, EnforcementLeased
<1> QED BY <1>1, <1>2, BackedNext, LifeInvariant, PTL DEF Spec

-----------------------------------------------------------------------------
(* The broker implements the lease life cycle.                             *)

\* The slots of the life cycle, as the module's instance maps them.
SlotOf == [l \in LeaseId |-> TupleOf(l)]

LEMMA SlotType == TypeOK => SlotOf \in [LeaseId -> Target \X Action \X Level]
<1> SUFFICES ASSUME TypeOK, NEW l \in LeaseId PROVE TupleOf(l) \in Target \X Action \X Level
  BY DEF SlotOf
<1>1. body[l] \in Body
  BY DEF TypeOK
<1> QED BY <1>1 DEF Body, TupleOf

\* The steps of the life cycle, on the broker's rows.
LifecycleStep == Lifecycle!LifecycleNext \/ UNCHANGED <<status, SlotOf>>

LEMMA LifecycleMapped ==
    [Lifecycle!LifecycleNext]_(Lifecycle!lifecycleVars) <=> LifecycleStep
BY DEF LifecycleStep, Lifecycle!lifecycleVars, SlotOf

LEMMA LifecycleInitMapped == Init => Lifecycle!LifecycleInit
BY TypeInit, SlotType DEF Init, Lifecycle!LifecycleInit, SlotOf

LEMMA SameRows ==
    ASSUME UNCHANGED <<status, body>>
    PROVE  LifecycleStep
BY DEF LifecycleStep, SlotOf, TupleOf

\* A journal call that fails, and ends Apply, writes nothing.
LEMMA StopMapped ==
    ASSUME ApplyStops \/ StoreFault, body' = body
    PROVE  LifecycleStep
BY SameRows DEF ApplyStops, StoreFault

\* A write that settles a row that was active once is a step of the life cycle.
LEMMA SettleMapped ==
    ASSUME NEW l \in LeaseId, NEW s \in {"reverted", "superseded", "conflict"},
           status[l] \in Ran, SetStatus(l, s), body' = body
    PROVE  LifecycleStep
<1>1. SlotOf' = SlotOf
  BY DEF SlotOf, TupleOf
<1>2. Lifecycle!Settle(l, s)
  BY <1>1 DEF Lifecycle!Settle, Lifecycle!Settled, SetStatus, SlotOf, Ran
<1> QED BY <1>2 DEF LifecycleStep, Lifecycle!LifecycleNext, Lifecycle!Settled

LEMMA CreateMapped ==
    ASSUME TypeOK, NEW n \in LeaseId, ApplyInsert(n)
    PROVE  LifecycleStep
<1>1. status[n] = "none" /\ body \in [LeaseId -> Body]
  BY DEF ApplyInsert, TypeOK
<1>2. CASE ApplyStops /\ body' = body
  BY <1>2, StopMapped
<1>3. CASE /\ SetStatus(n, "pending")
           /\ body' = [body EXCEPT ![n] =
                  [tgt |-> ap.req.tgt, action |-> ap.req.action, level |-> ap.req.level,
                   param |-> ap.req.param, dry |-> dry,
                   expires |-> ap.now + ap.req.ttl, renewals |-> 0]]
  <2>1. RequestSlot \in Target \X Action \X Level
    BY DEF TypeOK, Request, RequestSlot
  <2>2. SlotOf' = [SlotOf EXCEPT ![n] = RequestSlot]
    BY <1>1, <1>3 DEF SlotOf, TupleOf, RequestSlot
  <2>3. Lifecycle!Create(n, RequestSlot)
    BY <1>1, <1>3, <2>2 DEF Lifecycle!Create, SetStatus, SlotOf
  <2> QED BY <2>1, <2>3 DEF LifecycleStep, Lifecycle!LifecycleNext
<1> QED BY <1>2, <1>3 DEF ApplyInsert

\* A renewal of an active lease changes nothing here; that of one the sweep has settled
\* activates it again, and finds its slot free.
LEMMA RenewMapped ==
    ASSUME BrokerInv, LifeInv, ApplyRenew
    PROVE  LifecycleStep
<1>1. /\ ap.id \in LeaseId /\ status[ap.id] \in Revivable /\ TupleOf(ap.id) = RequestSlot
      /\ body \in [LeaseId -> Body] /\ status \in [LeaseId -> Status]
      /\ \A m \in LeaseId : status[m] = "active" /\ TupleOf(m) = RequestSlot => m = ap.id
  BY DEF ApplyRenew, BrokerInv, LeaseOfRequest, TypeOK, LifeInv, ApplyLife, Holding,
         RenewalIsExclusive
<1>2. CASE ApplyStops /\ UNCHANGED body
  BY <1>2, StopMapped
<1>3. CASE /\ SetStatus(ap.id, "active")
           /\ body' = [body EXCEPT ![ap.id].expires = ap.now + ap.req.ttl,
                                   ![ap.id].renewals = @ + 1]
  <2>1. \A l \in LeaseId : /\ body'[l].tgt = body[l].tgt
                           /\ body'[l].action = body[l].action
                           /\ body'[l].level = body[l].level
    BY <1>1, <1>3 DEF Body
  <2>2. SlotOf' = SlotOf
    BY <2>1 DEF SlotOf, TupleOf
  <2>3. CASE status[ap.id] = "active"
    BY <1>1, <1>3, <2>2, <2>3 DEF LifecycleStep, SetStatus
  <2>4. CASE status[ap.id] \in {"reverted", "conflict"}
    <3>1. Lifecycle!Activate(ap.id)
      BY <1>1, <1>3, <2>2, <2>4 DEF Lifecycle!Activate, SetStatus, SlotOf
    <3> QED BY <1>1, <3>1 DEF LifecycleStep, Lifecycle!LifecycleNext
  <2> QED BY <1>1, <2>3, <2>4 DEF Revivable
<1> QED BY <1>2, <1>3 DEF ApplyRenew

LEMMA ActivateMapped ==
    ASSUME BrokerInv, LifeInv, ApplyActivate
    PROVE  LifecycleStep
<1>1. /\ ap.id \in LeaseId /\ status[ap.id] = "pending" /\ body' = body
      /\ TupleOf(ap.id) = RequestSlot
      /\ \A l \in LeaseId : status[l] = "active" => TupleOf(l) # RequestSlot
  BY DEF ApplyActivate, BrokerInv, LeaseOfRequest, NoActiveWhileApplying, LifeInv,
         ApplyLife, Owning
<1>2. CASE ApplyStops
  BY <1>1, <1>2, StopMapped
<1>3. CASE SetStatus(ap.id, "active")
  <2>1. SlotOf' = SlotOf
    BY <1>1 DEF SlotOf, TupleOf
  <2>2. Lifecycle!Activate(ap.id)
    BY <1>1, <1>3, <2>1 DEF Lifecycle!Activate, SetStatus, SlotOf
  <2> QED BY <1>1, <2>2 DEF LifecycleStep, Lifecycle!LifecycleNext
<1> QED BY <1>2, <1>3 DEF ApplyActivate

LEMMA AbandonMapped ==
    ASSUME BrokerInv, LifeInv, ApplyAbandon
    PROVE  LifecycleStep
<1>1. ap.id \in LeaseId /\ status[ap.id] = "pending" /\ body' = body
  BY DEF ApplyAbandon, BrokerInv, LeaseOfRequest, LifeInv, ApplyLife, Owning
<1>2. CASE SetStatus(ap.id, "failed")
  <2>1. SlotOf' = SlotOf
    BY <1>1 DEF SlotOf, TupleOf
  <2>2. Lifecycle!Fail(ap.id)
    BY <1>1, <1>2, <2>1 DEF Lifecycle!Fail, SetStatus, SlotOf
  <2> QED BY <1>1, <2>2 DEF LifecycleStep, Lifecycle!LifecycleNext
<1>3. CASE StoreFault
  BY <1>1, <1>3, StopMapped
<1> QED BY <1>2, <1>3 DEF ApplyAbandon

\* The lease an Apply retires, and the one it overrules.
LEMMA RetireMapped ==
    ASSUME BrokerInv, LifeInv, ApplyRetire \/ ApplyOverrule
    PROVE  LifecycleStep
<1>1. body' = body
  BY DEF ApplyRetire, ApplyOverrule
<1>2. CASE ApplyRetire
  <2>1. ap.id \in LeaseId /\ status[ap.id] \in Ran
    BY <1>2 DEF ApplyRetire, BrokerInv, LeaseOfRequest, LifeInv, ApplyLife, Holding,
                Revivable, Ran
  <2> QED BY <1>1, <1>2, <2>1, SettleMapped, StopMapped DEF ApplyRetire
<1>3. CASE ApplyOverrule
  <2>1. ap.weaker \in LeaseId /\ status[ap.weaker] \in Ran
    BY <1>3 DEF ApplyOverrule, LifeInv, ApplyLife, Revivable, Ran
  <2> QED BY <1>1, <1>3, <2>1, SettleMapped, StopMapped DEF ApplyOverrule
<1> QED BY <1>2, <1>3

LEMMA SweepMapped ==
    ASSUME LifeInv, SweepWork
    PROVE  LifecycleStep
<1>1. CASE SweepDisown \/ SweepMark
  <2>1. rv.id \in LeaseId /\ status[rv.id] \in Ran /\ body' = body
    BY <1>1 DEF SweepDisown, SweepMark, LifeInv, SweepLife, Sweeping
  <2> QED BY <1>1, <2>1, SettleMapped, StopMapped DEF SweepDisown, SweepMark
<1> QED BY <1>1, SameRows DEF SweepWork, SweepCheck, SweepRevert, SweepUnfence

LEMMA CrashMapped ==
    ASSUME NEW newDry \in BOOLEAN, Crash(newDry)
    PROVE  LifecycleStep
<1>1. body' = body
  BY DEF Crash
<1>2. SlotOf' = SlotOf
  BY <1>1 DEF SlotOf, TupleOf
<1>3. PICK retired \in SUBSET StaleDryRun(newDry),
           abandoned \in SUBSET {l \in LeaseId : status[l] = "pending"} :
          status' = [l \in LeaseId |-> IF l \in abandoned THEN "failed"
                                       ELSE IF l \in retired THEN "superseded"
                                       ELSE status[l]]
  BY DEF Crash
<1>4. retired \in SUBSET LeaseId /\ abandoned \in SUBSET LeaseId
  BY DEF StaleDryRun
<1>5. Lifecycle!Restart(abandoned, retired)
  BY <1>2, <1>3 DEF Lifecycle!Restart, StaleDryRun, SlotOf
<1> QED BY <1>4, <1>5 DEF LifecycleStep, Lifecycle!LifecycleNext

LEMMA NextMapped == BrokerInv /\ LifeInv /\ [Next]_vars => LifecycleStep
<1> SUFFICES ASSUME BrokerInv, LifeInv, [Next]_vars PROVE LifecycleStep
  OBVIOUS
<1>1. CASE ApplyStep
  <2>1. TypeOK
    BY DEF BrokerInv
  <2>2. CASE ApplyCheckStronger \/ ApplyFind \/ ApplySupersede
    BY <2>2, SameRows DEF ApplyCheckStronger, ApplyFind, ApplySupersede, ApplyStops, StoreFault
  <2>3. CASE ApplyExamine \/ ApplyPep \/ ApplyFence
    BY <2>3, SameRows DEF ApplyExamine, ApplyPep, ApplyFence
  <2> QED
    BY <1>1, <2>1, <2>2, <2>3, CreateMapped, RenewMapped, ActivateMapped, AbandonMapped,
       RetireMapped DEF ApplyStep
<1>2. CASE SweepWork
  BY <1>2, SweepMapped
<1>3. CASE \E newDry \in BOOLEAN : Crash(newDry)
  BY <1>3, CrashMapped
<1>4. CASE \/ \E by \in Applier, r \in Request : ApplyBegin(by, r)
           \/ \E by \in Applier, t \in Target : DirectObserve(by, t)
           \/ \E ok \in BOOLEAN : ObservePass(ok)
           \/ SweepBegin \/ Tick \/ UNCHANGED vars
  BY <1>4, SameRows DEF ApplyBegin, DirectObserve, ObservePass, SweepBegin, Tick, vars
<1> QED BY <1>1, <1>2, <1>3, <1>4 DEF Next

\* However many goroutines apply beside the sweep, whatever fails and whenever the
\* process dies, the journal's rows follow the lease life cycle: a failed lease stays
\* failed, only a renewal brings back a lease that a sweep has settled, and a lease that
\* becomes active finds its slot free.
THEOREM ImplementsLifecycle == Spec => LifecycleSpec
<1>1. Init => Lifecycle!LifecycleInit
  BY LifecycleInitMapped
<1>2. BrokerInv /\ LifeInv /\ [Next]_vars =>
          [Lifecycle!LifecycleNext]_(Lifecycle!lifecycleVars)
  BY NextMapped, LifecycleMapped
<1>3. Spec => Lifecycle!LifecycleInit /\ [][Lifecycle!LifecycleNext]_(Lifecycle!lifecycleVars)
  BY <1>1, <1>2, LifeInvariant, PTL DEF Spec
<1> QED BY <1>3 DEF LifecycleSpec, Lifecycle!LifecycleSpec
=============================================================================
