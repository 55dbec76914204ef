--------------------------- MODULE ActionBroker ---------------------------
(***************************************************************************)
(* The action broker (actionbroker.Broker) driving the source enforcement  *)
(* point (brokeredSourcePEP), with its SQLite lease journal.               *)
(*                                                                         *)
(* Broker.Apply runs under brokeredSourcePEP.applyMu: at most one Apply is *)
(* in flight, and its position is ap.pc.  Broker.RevertExpired runs on the *)
(* tick goroutine without that lock; its position is rv.pc.  Every         *)
(* statement of the two that reads or writes the journal, the fencing      *)
(* tokens or the enforcement maps is a step of its own, so the two         *)
(* interleave as the goroutines do.                                        *)
(***************************************************************************)
EXTENDS Naturals, FiniteSets

CONSTANTS
    Target,        \* canonical source targets ("source:<id>")
    Action,        \* executable actions
    OrderedAction, \* orderedRuntimeActions: those the strength checks look up
    StrongAction,  \* actions that always count as strongest (drop, deny, ...)
    Level,         \* the enforcing levels that are requested
    Param,         \* values of the execution_* lease metadata
    LeaseId,       \* lease identifiers (random UUIDs: no order is assumed)
    None,          \* no lease, no token
    TTL,           \* TTLs a resolution may carry, in ticks
    Prereq,        \* Prereq[a]: actions RequiresPreviousAction names for a
    MaxRenewals,   \* autonomy limit on renewals, 0 for no limit
    Applier,       \* goroutines that call ApplySource: tick loop, proposal applier,
                   \* signal consumer
    BlindPasses,   \* TRUE if the loop's observation may fail, FALSE if it never does
    MaxTime,       \* bound: the clock stops here
    MaxPepFaults,  \* bound: enforcement-map writes that fail
    MaxStoreFaults,\* bound: journal calls that fail
    MaxRestarts    \* bound: crashes followed by a restart

Goroutine == {"tick", "proposal", "signal"}

ASSUME BrokerAssumption ==
    /\ Level \subseteq {"soft", "hard", "block"} /\ Level # {}
    /\ Target # {} /\ Action # {} /\ Param # {} /\ TTL # {}
    /\ StrongAction \subseteq Action /\ OrderedAction \subseteq Action
    /\ None \notin LeaseId
    /\ TTL \subseteq Nat \ {0}
    /\ Prereq \in [Action -> SUBSET Action]
    /\ MaxRenewals \in Nat
    /\ Applier \subseteq Goroutine
    /\ BlindPasses \in BOOLEAN
    /\ {MaxTime, MaxPepFaults, MaxStoreFaults, MaxRestarts} \subseteq Nat

VARIABLES
    status,  \* action_leases.status; "none" while the row does not exist
    body,    \* the other columns of the row
    enf,     \* enf[t]: the lease whose transition the enforcement maps hold for t
    token,   \* brokeredSourcePEP.currentTokens (a token is its lease's identity)
    ap,      \* the Apply in flight
    rv,      \* the RevertExpired in flight
    dry,     \* this process runs with dry_run
    observed,\* the pass of the tick loop under way has observed something
    clock,
    faults   \* faults taken so far, by kind

vars == <<status, body, enf, token, ap, rv, dry, observed, clock, faults>>

Time   == Nat
Status == {"none", "pending", "active",
           "reverted", "superseded", "failed", "conflict"}
Body   == [tgt : Target, action : Action, level : Level, param : Param,
           dry : BOOLEAN, expires : Time, renewals : Nat]
Request == [tgt : Target, action : Action, level : Level, param : Param, ttl : TTL]

ApplyPc  == {"idle", "stronger", "find", "examine", "replace", "disown", "renew",
             "insert", "pep", "abandon", "fence", "activate", "supersede", "overrule"}
RevertPc == {"idle", "next", "disown", "pep", "unfence", "mark"}

-----------------------------------------------------------------------------
(* Reads of the journal.                                                   *)

\* actionLeaseStrength.
Strength(a, v) == CASE a \in StrongAction -> 300
                    [] v = "block" -> 300
                    [] v = "hard"  -> 200
                    [] OTHER       -> 100

StrengthOf(l) == Strength(body[l].action, body[l].level)

TupleOf(l) == <<body[l].tgt, body[l].action, body[l].level>>

ActiveOn(t) == {l \in LeaseId : status[l] = "active" /\ body[l].tgt = t}

\* Wrong variant of FindActive: expired rows are skipped.
FindActiveUnexpired(s) ==
    {l \in LeaseId : status[l] = "active" /\ TupleOf(l) = s /\ body[l].expires > clock}

\* FindActiveActionLease: an active lease of the tuple that expires last (the
\* query breaks ties by applied_at and the random identifier: any is allowed).
FindActive(s) ==
    LET matching == {l \in LeaseId : status[l] = "active" /\ TupleOf(l) = s}
    IN  {l \in matching : \A m \in matching : body[m].expires <= body[l].expires}

\* autonomyPrerequisiteDenyReason: expiry is not looked at.
PrerequisiteHolds(r) ==
    \A p \in Prereq[r.action] : \E l \in ActiveOn(r.tgt) : body[l].action = p

\* runtimeActionsWithRequested: the active leases of t the strength checks look up.
Comparable(t, a) == {l \in ActiveOn(t) : body[l].action \in OrderedAction \cup {a}}

\* Wrong variant of StrongerActive: the check is missing.
StrongerIgnored(r) == FALSE

\* strongerActiveLeaseDenyReason: expiry is not looked at.
StrongerActive(r) ==
    \E l \in Comparable(r.tgt, r.action) : StrengthOf(l) > Strength(r.action, r.level)

\* Wrong variant of WeakerActive: the applied lease is not excepted.
WeakerOrSelfActive(n) ==
    {l \in ActiveOn(body[n].tgt) : StrengthOf(l) <= StrengthOf(n)}

\* supersedeWeakerActiveLeases: the rows still to be superseded by lease n.
\* The code looks up one row per tuple; OneActivePerTuple says it is the only one.
WeakerActive(n) ==
    {l \in Comparable(body[n].tgt, body[n].action) \ {n} : StrengthOf(l) < StrengthOf(n)}

\* CurrentFencingToken: an absent entry answers with the lease's own token.
CurrentToken(l) ==
    IF token[body[l].tgt] = None THEN l ELSE token[body[l].tgt]

\* Wrong variant of ListExpired: rows of every status.
ListExpiredAnyStatus(now) ==
    {<<l, body[l].expires>> :
        l \in {m \in LeaseId : status[m] # "none" /\ body[m].expires <= now}}

\* ListExpiredActionLeases, with the expiry each row is ordered by.
ListExpired(now) ==
    {<<l, body[l].expires>> :
        l \in {m \in LeaseId : status[m] = "active" /\ body[m].expires <= now}}

-----------------------------------------------------------------------------
(* Calls that may fail.                                                    *)

\* UpdateActionLeaseStatus: unconditional by lease_id, whatever the row says now.
SetStatus(l, s) == /\ status' = [status EXCEPT ![l] = s]
                   /\ UNCHANGED faults

StoreFault == /\ faults.store < MaxStoreFaults
              /\ faults' = [faults EXCEPT !.store = @ + 1]
              /\ UNCHANGED status

PepFault == /\ faults.pep < MaxPepFaults
            /\ faults' = [faults EXCEPT !.pep = @ + 1]

NoRequest == [tgt |-> CHOOSE t \in Target : TRUE, action |-> CHOOSE a \in Action : TRUE,
              level |-> CHOOSE v \in Level : TRUE, param |-> CHOOSE p \in Param : TRUE,
              ttl |-> CHOOSE d \in TTL : TRUE]

NoBody == [tgt |-> NoRequest.tgt, action |-> NoRequest.action, level |-> NoRequest.level,
           param |-> NoRequest.param, dry |-> FALSE, expires |-> 0, renewals |-> 0]

IdleApply == [pc |-> "idle", by |-> "tick", req |-> NoRequest, now |-> 0,
              id |-> None, weaker |-> None]

IdleRevert == [pc |-> "idle", todo |-> {}, id |-> None]

\* A goroutine does one thing at a time; the tick loop runs candidates, the
\* sweep and the operator overrides one after the other.
Free(by) == /\ ap.pc # "idle" => ap.by # by
            /\ by = "tick" => rv.pc = "idle"

-----------------------------------------------------------------------------
(* Broker.Apply.                                                           *)

\* Entered with applyMu held; the clock is read once.  A resolution whose
\* prerequisite is missing ends here as "skipped", with nothing changed.  The
\* tick loop comes to its candidates only in a pass that has observed something.
ApplyBegin(by, r) ==
    /\ ap.pc = "idle"
    /\ Free(by)
    /\ by = "tick" => observed
    /\ \E l \in LeaseId : status[l] = "none"   \* bound: an identifier is left
    /\ PrerequisiteHolds(r)
    /\ ap' = [IdleApply EXCEPT !.pc = "stronger", !.by = by, !.req = r, !.now = clock]
    /\ UNCHANGED <<status, body, enf, token, rv, dry, observed, clock, faults>>

\* Any journal call of Apply may fail, and Apply then ends.
ApplyStops == StoreFault /\ ap' = IdleApply

ApplyCheckStronger ==
    /\ ap.pc = "stronger"
    /\ \/ /\ ap' = IF StrongerActive(ap.req) THEN IdleApply ELSE [ap EXCEPT !.pc = "find"]
          /\ UNCHANGED <<status, faults>>
       \/ ApplyStops
    /\ UNCHANGED <<body, enf, token, rv, dry, observed, clock>>

RequestSlot == <<ap.req.tgt, ap.req.action, ap.req.level>>

\* executionMetadataChanged: dry_run is part of the execution metadata.
MetadataChanged(l) == <<body[l].param, body[l].dry>> # <<ap.req.param, dry>>

\* renewActiveLease: the look-up.
ApplyFind ==
    /\ ap.pc = "find"
    /\ \/ /\ FindActive(RequestSlot) = {}
          /\ ap' = [ap EXCEPT !.pc = "insert"]
          /\ UNCHANGED <<status, faults>>
       \/ /\ \E l \in FindActive(RequestSlot) :
                ap' = [ap EXCEPT !.pc = "examine", !.id = l]
          /\ UNCHANGED <<status, faults>>
       \/ ApplyStops
    /\ UNCHANGED <<body, enf, token, rv, dry, observed, clock>>

\* Wrong variant of MayRenew: off by one in the renewal limit.
MayRenewOnceMore(l) == MaxRenewals > 0 => body[l].renewals <= MaxRenewals

MayRenew(l) == MaxRenewals > 0 => body[l].renewals < MaxRenewals

\* What becomes of the lease found, by its row as read and the token as it is now.
ApplyExamine ==
    /\ ap.pc = "examine"
    /\ \/ /\ MetadataChanged(ap.id)
          /\ ap' = [ap EXCEPT !.pc = "replace"]
       \/ /\ ~ MetadataChanged(ap.id)
          /\ CurrentToken(ap.id) # ap.id
          /\ ap' = [ap EXCEPT !.pc = "disown"]
       \/ /\ ~ MetadataChanged(ap.id)
          /\ CurrentToken(ap.id) = ap.id
          /\ ap' = IF MayRenew(ap.id) THEN [ap EXCEPT !.pc = "renew"] ELSE IdleApply
    /\ UNCHANGED <<status, body, enf, token, rv, dry, observed, clock, faults>>

\* Wrong variant of ApplyRetire: Apply ends there.
ApplyRetireStops ==
    /\ ap.pc \in {"replace", "disown"}
    /\ SetStatus(ap.id, IF ap.pc = "replace" THEN "superseded" ELSE "conflict")
    /\ ap' = IdleApply
    /\ UNCHANGED <<body, enf, token, rv, dry, observed, clock>>

\* The lease found is retired and Apply goes on to a new one.
ApplyRetire ==
    /\ ap.pc \in {"replace", "disown"}
    /\ \/ /\ SetStatus(ap.id, IF ap.pc = "replace" THEN "superseded" ELSE "conflict")
          /\ ap' = [ap EXCEPT !.pc = "insert"]
       \/ ApplyStops
    /\ UNCHANGED <<body, enf, token, rv, dry, observed, clock>>

\* The upsert writes the row as read: the status column becomes "active"
\* whatever happened to the row in between.
ApplyRenew ==
    /\ ap.pc = "renew"
    /\ \/ /\ SetStatus(ap.id, "active")
          /\ ap' = IdleApply
          /\ body' = [body EXCEPT ![ap.id].expires = ap.now + ap.req.ttl,
                                  ![ap.id].renewals = @ + 1]
       \/ /\ ApplyStops
          /\ UNCHANGED body
    /\ UNCHANGED <<enf, token, rv, dry, observed, clock>>

ApplyInsert(l) ==
    /\ ap.pc = "insert"
    /\ status[l] = "none"
    /\ \/ /\ SetStatus(l, "pending")
          /\ body' = [body EXCEPT ![l] =
                [tgt |-> ap.req.tgt, action |-> ap.req.action, level |-> ap.req.level,
                 param |-> ap.req.param, dry |-> dry,
                 expires |-> ap.now + ap.req.ttl, renewals |-> 0]]
          /\ ap' = [ap EXCEPT !.pc = "pep", !.id = l]
       \/ /\ ApplyStops
          /\ UNCHANGED body
    /\ UNCHANGED <<enf, token, rv, dry, observed, clock>>

\* brokeredSourcePEP.Apply, up to the transition: TransitionSource rewrites the
\* maps of this source.  A failed write leaves the old entry or none (the maps
\* are cleared before they are set); dry-run writes nothing.
ApplyPep ==
    /\ ap.pc = "pep"
    /\ LET t == ap.req.tgt
       IN  \/ /\ enf' = IF dry THEN enf ELSE [enf EXCEPT ![t] = ap.id]
              /\ ap' = [ap EXCEPT !.pc = "fence"]
              /\ UNCHANGED faults
           \/ /\ ~ dry
              /\ PepFault
              /\ enf' \in {enf, [enf EXCEPT ![t] = None]}
              /\ ap' = [ap EXCEPT !.pc = "abandon"]
    /\ UNCHANGED <<status, body, token, rv, dry, observed, clock>>

\* The error of this write is discarded: the row may stay pending.
ApplyAbandon ==
    /\ ap.pc = "abandon"
    /\ SetStatus(ap.id, "failed") \/ StoreFault
    /\ ap' = IdleApply
    /\ UNCHANGED <<body, enf, token, rv, dry, observed, clock>>

\* setCurrentFencingToken.
ApplyFence ==
    /\ ap.pc = "fence"
    /\ token' = [token EXCEPT ![ap.req.tgt] = ap.id]
    /\ ap' = [ap EXCEPT !.pc = "activate"]
    /\ UNCHANGED <<status, body, enf, rv, dry, observed, clock, faults>>

\* A store error here leaves the row pending although the PEP enforces it.
ApplyActivate ==
    /\ ap.pc = "activate"
    /\ \/ /\ SetStatus(ap.id, "active")
          /\ ap' = [ap EXCEPT !.pc = "supersede"]
       \/ ApplyStops
    /\ UNCHANGED <<body, enf, token, rv, dry, observed, clock>>

\* supersedeWeakerActiveLeases: look up the next weaker row, then retire it; a
\* store error ends it early.
ApplySupersede ==
    /\ ap.pc = "supersede"
    /\ \/ /\ \E l \in WeakerActive(ap.id) :
                ap' = [ap EXCEPT !.pc = "overrule", !.weaker = l]
          /\ UNCHANGED <<status, faults>>
       \/ /\ WeakerActive(ap.id) = {}
          /\ ap' = IdleApply
          /\ UNCHANGED <<status, faults>>
       \/ ApplyStops
    /\ UNCHANGED <<body, enf, token, rv, dry, observed, clock>>

ApplyOverrule ==
    /\ ap.pc = "overrule"
    /\ \/ /\ SetStatus(ap.weaker, "superseded")
          /\ ap' = [ap EXCEPT !.pc = "supersede", !.weaker = None]
       \/ ApplyStops
    /\ UNCHANGED <<body, enf, token, rv, dry, observed, clock>>

-----------------------------------------------------------------------------
(* Broker.RevertExpired and Broker.Revert, on the tick goroutine.          *)

\* At the end of a pass that has observed something.
SweepBegin ==
    /\ Free("tick")
    /\ observed
    /\ ListExpired(clock) # {}
    /\ rv' = [pc |-> "next", todo |-> ListExpired(clock), id |-> None]
    /\ UNCHANGED <<status, body, enf, token, ap, dry, observed, clock, faults>>

\* The sweep goes on with the rest of the list it read at the start.
SweepRest(le) ==
    LET todo == rv.todo \ {le}
    IN  IF todo = {} THEN IdleRevert ELSE [pc |-> "next", todo |-> todo, id |-> None]

\* Next listed lease in expiry order.  A token that is another lease's makes
\* this one a conflict and the PEP is left alone.
SweepCheck ==
    /\ rv.pc = "next"
    /\ \E le \in rv.todo :
          /\ \A other \in rv.todo : le[2] <= other[2]
          /\ rv' = [rv EXCEPT !.pc = IF CurrentToken(le[1]) = le[1] THEN "pep" ELSE "disown",
                              !.id = le[1]]
    /\ UNCHANGED <<status, body, enf, token, ap, dry, observed, clock, faults>>

\* The list entry the sweep is working on.
CurrentEntry == CHOOSE le \in rv.todo : le[1] = rv.id

SweepDisown ==
    /\ rv.pc = "disown"
    /\ \/ SetStatus(rv.id, "conflict") /\ rv' = SweepRest(CurrentEntry)
       \/ StoreFault /\ rv' = IdleRevert
    /\ UNCHANGED <<body, enf, token, ap, dry, observed, clock>>

\* brokeredSourcePEP.Revert: the whole source goes to observe, whoever enforced
\* it.  ApplyDeEnforceSource swallows a map error, so a failed transition looks
\* like a successful one.
SweepRevert ==
    /\ rv.pc = "pep"
    /\ LET t == body[rv.id].tgt
       IN  \/ /\ enf' = IF dry THEN enf ELSE [enf EXCEPT ![t] = None]
              /\ UNCHANGED faults
           \/ /\ ~ dry /\ enf[t] # None
              /\ PepFault
              /\ UNCHANGED enf
    /\ rv' = [rv EXCEPT !.pc = "unfence"]
    /\ UNCHANGED <<status, body, token, ap, dry, observed, clock>>

\* clearCurrentFencingToken: the token is forgotten if it is this lease's.
SweepUnfence ==
    /\ rv.pc = "unfence"
    /\ LET t == body[rv.id].tgt
       IN  token' = IF token[t] = rv.id THEN [token EXCEPT ![t] = None] ELSE token
    /\ rv' = [rv EXCEPT !.pc = "mark"]
    /\ UNCHANGED <<status, body, enf, ap, dry, observed, clock, faults>>

\* Wrong variants of SweepMark: another status; no status.
SweepMarkExpired ==
    /\ rv.pc = "mark"
    /\ SetStatus(rv.id, "expired")
    /\ rv' = SweepRest(CurrentEntry)
    /\ UNCHANGED <<body, enf, token, ap, dry, observed, clock>>
SweepMarkForgets ==
    /\ rv.pc = "mark"
    /\ rv' = SweepRest(CurrentEntry)
    /\ UNCHANGED <<status, body, enf, token, ap, dry, observed, clock, faults>>

SweepMark ==
    /\ rv.pc = "mark"
    /\ \/ SetStatus(rv.id, "reverted") /\ rv' = SweepRest(CurrentEntry)
       \/ StoreFault /\ rv' = IdleRevert
    /\ UNCHANGED <<body, enf, token, ap, dry, observed, clock>>

-----------------------------------------------------------------------------
(* Transitions to observe that do not pass the broker: a denied resolution,*)
(* an executable level of "observe", an operator reset or feedback.  The   *)
(* lease row and the token are not touched.                                *)
DirectObserve(by, t) ==
    /\ Free(by)
    /\ ~ dry /\ enf[t] # None
    /\ enf' = [enf EXCEPT ![t] = None]
    /\ UNCHANGED <<status, body, token, ap, rv, dry, observed, clock, faults>>

\* Wrong variant of StaleDryRun: the test of the new mode is inverted.
StaleDryRunInverted(newDry) ==
    {l \in LeaseId : status[l] = "active" /\ body[l].dry /\ newDry}

\* supersedeStaleDryRunExecutionLeases: the rows it retires.
StaleDryRun(newDry) ==
    {l \in LeaseId : status[l] = "active" /\ body[l].dry /\ ~ newDry}

\* Process death and restart.  The journal and the (pinned) maps survive, the
\* tokens do not.  supersedeStaleDryRunExecutionLeases runs first and only when
\* the new process enforces for real, then ReconcilePending; each stops at its
\* first store error, which is only logged.
Crash(newDry) ==
    /\ faults.restart < MaxRestarts
    /\ \E retired \in SUBSET StaleDryRun(newDry),
          abandoned \in SUBSET {l \in LeaseId : status[l] = "pending"}, failed \in 0..2 :
          /\ retired # StaleDryRun(newDry) => failed >= 1
          /\ abandoned # {l \in LeaseId : status[l] = "pending"} => failed >= 1
          /\ /\ retired # StaleDryRun(newDry)
             /\ abandoned # {l \in LeaseId : status[l] = "pending"}
             => failed = 2
          /\ faults.store + failed <= MaxStoreFaults
          /\ status' = [l \in LeaseId |-> IF l \in abandoned THEN "failed"
                                          ELSE IF l \in retired THEN "superseded"
                                          ELSE status[l]]
          /\ faults' = [faults EXCEPT !.restart = @ + 1, !.store = @ + failed]
    /\ token' = [t \in Target |-> None]
    /\ ap' = IdleApply
    /\ rv' = IdleRevert
    /\ dry' = newDry
    /\ observed' = FALSE
    /\ UNCHANGED <<body, enf, clock>>

\* A new pass of the loop: it observes, and goes on to the candidates and the
\* sweep unless every observation has failed and nothing was observed.
ObservePass(ok) ==
    /\ Free("tick")
    /\ ok \/ BlindPasses
    /\ observed' = ok
    /\ UNCHANGED <<status, body, enf, token, ap, rv, dry, clock, faults>>

Tick == /\ clock < MaxTime
        /\ clock' = clock + 1
        /\ UNCHANGED <<status, body, enf, token, ap, rv, dry, observed, faults>>

-----------------------------------------------------------------------------
Init ==
    /\ status = [l \in LeaseId |-> "none"]
    /\ body = [l \in LeaseId |-> NoBody]
    /\ enf = [t \in Target |-> None]
    /\ token = [t \in Target |-> None]
    /\ ap = IdleApply
    /\ rv = IdleRevert
    /\ dry \in BOOLEAN
    /\ observed = FALSE
    /\ clock = 0
    /\ faults = [pep |-> 0, store |-> 0, restart |-> 0]

ApplyStep == \/ ApplyCheckStronger \/ ApplyFind \/ ApplyExamine
             \/ ApplyRetire \/ ApplyRenew
             \/ \E l \in LeaseId : ApplyInsert(l)
             \/ ApplyPep \/ ApplyAbandon \/ ApplyFence \/ ApplyActivate
             \/ ApplySupersede \/ ApplyOverrule

SweepWork == SweepCheck \/ SweepDisown \/ SweepRevert \/ SweepUnfence \/ SweepMark

Next == \/ \E by \in Applier, r \in Request : ApplyBegin(by, r)
        \/ ApplyStep
        \/ SweepBegin
        \/ SweepWork
        \/ \E by \in Applier, t \in Target : DirectObserve(by, t)
        \/ \E newDry \in BOOLEAN : Crash(newDry)
        \/ \E ok \in BOOLEAN : ObservePass(ok)
        \/ Tick

Spec == Init /\ [][Next]_vars

\* An Apply in flight runs to its end, and every pass of the loop that has
\* observed something calls RevertExpired, whatever else it does in that pass.
\* Nothing says that observation succeeds: the liveness properties suppose it.
Fairness == /\ WF_vars(ApplyStep)
            /\ SF_vars(SweepBegin)
            /\ WF_vars(SweepWork)

FairSpec == Spec /\ Fairness

-----------------------------------------------------------------------------
(* Properties.                                                             *)

FaultCount == [pep : 0..MaxPepFaults, store : 0..MaxStoreFaults, restart : 0..MaxRestarts]

\* Every variable has its type (rows of action_leases, the token map, the two
\* operations in flight).
TypeOK ==
    /\ status \in [LeaseId -> Status]
    /\ body \in [LeaseId -> Body]
    /\ enf \in [Target -> LeaseId \cup {None}]
    /\ token \in [Target -> LeaseId \cup {None}]
    /\ ap \in [pc : ApplyPc, by : Goroutine, req : Request, now : Time,
               id : LeaseId \cup {None}, weaker : LeaseId \cup {None}]
    /\ rv \in [pc : RevertPc, todo : SUBSET (LeaseId \X Time), id : LeaseId \cup {None}]
    /\ dry \in BOOLEAN
    /\ observed \in BOOLEAN
    /\ clock \in Time
    /\ faults \in FaultCount

\* Although the journal has no unique index and FindActiveActionLease is ready
\* to choose "the newest", a tuple never has two active leases: not under the
\* race of a sweep with an Apply, nor after failures and restarts.
OneActivePerTuple ==
    \A l, m \in LeaseId :
        status[l] = "active" /\ status[m] = "active" /\ TupleOf(l) = TupleOf(m) => l = m

\* Outside the supersede loop of an Apply, the active leases a target has for
\* the ordered actions are all equally strong: a weaker one neither survives a
\* stronger one nor joins it.  (Holds while no journal call fails and the process
\* does not die.)
NoWeakerBesideStronger ==
    ap.pc \notin {"supersede", "overrule"} =>
        \A t \in Target : \A l, m \in ActiveOn(t) :
            {body[l].action, body[m].action} \subseteq OrderedAction
                => StrengthOf(l) = StrengthOf(m)

\* MaxRenewals bounds the renewals of every lease, however Apply and sweep
\* interleave.
RenewalsBounded == MaxRenewals > 0 => \A l \in LeaseId : body[l].renewals <= MaxRenewals

\* With no Apply in flight, whatever is enforced is backed by an active lease,
\* so that something is left to end it.
EnforcementLeased ==
    ap.pc = "idle" => \A t \in Target : enf[t] # None => status[enf[t]] = "active"

\* A process that enforces for real finds no active dry-run lease (it would be
\* renewed, or gate stronger actions, without anything in the maps), provided the
\* start-up pass over the journal met no store error.
NoDryRunLeaseInRealMode ==
    ~ dry /\ faults.store = 0 => \A l \in LeaseId : status[l] = "active" => ~ body[l].dry

\* Reverting a lease never removes the enforcement another lease installed
\* (the purpose of the fencing token).
FencedRevert ==
    [][rv.pc = "pep" /\ rv'.pc = "unfence" =>
          \A t \in Target : enf'[t] # enf[t] => enf[t] = rv.id]_vars

\* The lease life cycle (module LeaseLifecycle), refined by this module.
Lifecycle == INSTANCE LeaseLifecycle
             WITH Slot <- Target \X Action \X Level,
                  slot <- [l \in LeaseId |-> TupleOf(l)]
LifecycleSpec == Lifecycle!LifecycleSpec

\* If the loop observes something again and again, every active lease that has
\* expired is renewed or leaves "active".
ExpiredLeaseSettles ==
    []<> observed =>
        \A l \in LeaseId :
            status[l] = "active" /\ body[l].expires <= clock
                ~> status[l] # "active" \/ body[l].expires > clock

\* No map or journal call has failed and the process has not died.
Undisturbed == faults.pep = 0 /\ faults.store = 0 /\ faults.restart = 0

\* If the loop observes something again and again and nothing ever fails, what an
\* expired lease enforces does not stay in the maps, with any number of
\* goroutines.  (A row left pending by an error or a crash after the maps were
\* written is never listed, and what it enforces stays.)
ExpiredEnforcementEnds ==
    ([]<> observed) /\ ([] Undisturbed) =>
        \A l \in LeaseId, t \in Target :
            enf[t] = l /\ body[l].expires <= clock
                ~> enf[t] # l \/ body[l].expires > clock
=============================================================================
