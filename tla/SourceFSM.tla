----------------------------- MODULE SourceFSM ------------------------------
(***************************************************************************)
(* One source in KLIQ's main loop: the level logic of fsm.Advance, the     *)
(* loop that feeds it (operator reset and feedback, graph strikes,         *)
(* candidates, the sweep over the rest, revert and eviction), and what     *)
(* comes back from the Runtime PDP and the broker as level and expiry.     *)
(* Sources do not touch each other.                                        *)
(*                                                                         *)
(* Times are kept relative to now, in ticks of the loop, and only as far   *)
(* as a comparison can tell them apart.  A deadline is the time left, -1   *)
(* once now is after it; an age stops at the limit it is compared with.    *)
(* NoTime is the zero time.                                                *)
(***************************************************************************)
EXTENDS Integers

CONSTANTS
    Profiles,    \* configurations, see Config
    Severities,  \* scores a candidate may have
    Drops,       \* rates of enforcement feedback a candidate may have
    Credits,     \* strikes a graph signal may add
    MaxStrikes,  \* bound: no input takes a source beyond these strikes
    MaxStreak,   \* bound: streaks stop here; only as many neutral ticks could tell
    Scopes       \* the scenarios, see Scope

Observe == 0
Soft    == 1
Hard    == 2
Block   == 3
Levels  == Observe .. Block

Metrics == [sev : Severities, drop : Drops]

NoTime == -2

\* fsm.Config, with the lease TTL of the policy pack (pack), the lifetime of an idle
\* entry (state) and the renewals the autonomy limits allow, 0 for any number.
Config ==
    [step : [1..3 -> Nat], delta : [1..3 -> Nat], decayBelow : Nat,
     at : [Soft..Block -> Nat], upNeed : Nat, downNeed : Nat,
     hold : [Soft..Hard -> Nat], minSev : Nat, minDur : Nat, cooldown : Nat,
     ttl : [Soft..Block -> Nat], pack : Nat \ {0}, state : Nat, maxRenewals : Nat,
     noncomp : [at : Nat, drop : Nat, sev : Nat, below : Nat]]

\* What may still happen in a behaviour, and so the bounds: operator overrides, graph
\* strikes, actions of other goroutines, PDP decisions that hold, restarts.
Scope == [cfg : Profiles, operator : Nat, strikes : Nat, others : Nat, holds : Nat, restarts : Nat]

ASSUME FSMAssumption ==
    /\ Profiles \subseteq Config
    /\ Severities \subseteq Nat /\ 0 \in Severities
    /\ Drops \subseteq Nat /\ 0 \in Drops
    /\ Credits \subseteq Nat
    /\ MaxStrikes \in Nat /\ MaxStreak \in Nat
    /\ Scopes \subseteq Scope

VARIABLES
    st,     \* fsm.State of the source; Fresh if there is no entry
    lease,  \* the active lease of the source; level Observe for none
    enf,    \* level the maps enforce
    phase,  \* where the loop is: "begin", "struck", "expire"
    scope,
    hist    \* history, see Process

vars == <<st, lease, enf, phase, scope, hist>>

cfg == scope.cfg

Passed(d)   == d = -1           \* now.After(d)
Sooner(d)   == IF d >= 0 THEN d - 1 ELSE d
Larger(a, b) == IF a >= b THEN a ELSE b
Capped(n, max) == IF n > max THEN max ELSE n
Older(a, max) == IF a = NoTime THEN a ELSE Capped(a + 1, max)

MaxHold == Larger(cfg.hold[Soft], cfg.hold[Hard])

Fresh == [level |-> Observe, strikes |-> 0, expires |-> NoTime, cooldown |-> -1,
          trigger |-> MaxHold, high |-> NoTime, seen |-> NoTime,
          up |-> 0, down |-> 0, noncomp |-> 0, force |-> FALSE]

NoLease == [level |-> Observe, left |-> -1, renewals |-> 0]

-----------------------------------------------------------------------------
(* fsm.Advance, in its order.                                              *)

HighTick(m) == m.sev >= cfg.step[1] \/ (cfg.noncomp.drop > 0 /\ m.drop >= cfg.noncomp.drop)
LowTick(m)  == m.sev < cfg.decayBelow /\ m.drop = 0

\* High-severity tracking for the block gate.
High(m, s) ==
    IF cfg.minSev > 0 /\ m.sev >= cfg.minSev
    THEN IF s.high = NoTime THEN 0 ELSE s.high
    ELSE NoTime

\* Wrong variant of Less: below zero.
LessUnchecked(n) == n - 1

Less(n) == IF n > 0 THEN n - 1 ELSE 0

\* A streak: one more on a tick that counts, none on the opposite one, one less else.
Streak(n, counts, ends) ==
    IF counts THEN Capped(n + 1, MaxStreak) ELSE IF ends THEN 0 ELSE Less(n)

Up(m, s) == Streak(s.up, HighTick(m), LowTick(m))

\* Wrong variant of Down: counts the ticks of the other streak.
DownSwapped(m, s) == Up(m, s)

Down(m, s) == Streak(s.down, LowTick(m) /\ ~ HighTick(m), HighTick(m))

Delta(m) ==
    IF m.sev >= cfg.step[3] THEN cfg.delta[3]
    ELSE IF m.sev >= cfg.step[2] THEN cfg.delta[2]
    ELSE IF m.sev >= cfg.step[1] THEN cfg.delta[1] ELSE 0

Strikes(m, s) ==
    IF Delta(m) > 0 THEN s.strikes + Delta(m)
    ELSE IF LowTick(m) /\ Down(m, s) >= cfg.downNeed THEN Less(s.strikes)
    ELSE s.strikes

\* Ticks under a limit that the source does not respect.
NonComp(m, s) ==
    LET n == cfg.noncomp
    IN  IF s.level = Observe \/ n.at = 0 THEN 0
        ELSE IF (n.drop > 0 /\ m.drop >= n.drop) \/ (n.sev > 0 /\ m.sev >= n.sev)
             THEN Capped(s.noncomp + 1, n.at)
        ELSE IF m.sev < n.below /\ m.drop = 0 THEN 0 ELSE s.noncomp

Counts(m, s) ==
    [s EXCEPT !.high = High(m, s), !.up = Up(m, s), !.down = Down(m, s),
              !.strikes = Strikes(m, s), !.noncomp = NonComp(m, s),
              !.trigger = IF Delta(m) > 0 THEN 0 ELSE @]

\* syntheticFSMTransition; a TTL of 0 is no expiry.
To(s, level) ==
    [s EXCEPT !.level = level, !.cooldown = cfg.cooldown,
              !.expires = IF level = Observe \/ cfg.ttl[level] = 0 THEN NoTime ELSE cfg.ttl[level]]

\* Step-down of a level whose TTL is over, after a quiet streak and a minimum hold.
\* The cooldown that starts lets only one of the three happen in a tick.
StepDown(s) ==
    IF /\ s.level # Observe /\ Passed(s.expires) /\ s.down >= cfg.downNeed
       /\ s.trigger >= cfg.hold[IF s.level = Soft THEN Soft ELSE Hard] /\ Passed(s.cooldown)
    THEN To(s, s.level - 1) ELSE s

ByStrikes(s) ==
    IF s.strikes >= cfg.at[Block] THEN Block
    ELSE IF s.strikes >= cfg.at[Hard] THEN Hard
    ELSE IF s.strikes >= cfg.at[Soft] THEN Soft ELSE Observe

\* The level wanted: a source that ignores its limit is blocked; else by strikes, and
\* upwards only after a streak, unless a graph signal forces it.
Wanted(s) ==
    IF s.level = Hard /\ cfg.noncomp.at > 0 /\ s.noncomp >= cfg.noncomp.at THEN Block
    ELSE IF ByStrikes(s) > s.level /\ s.up < cfg.upNeed /\ ~ s.force THEN s.level
    ELSE ByStrikes(s)

\* Wrong variant of Held: a block ends with its strikes.
HeldNever(s, target) == target

\* A block is kept while its TTL runs.
Held(s, target) ==
    IF s.level = Block /\ s.expires > 0 /\ target < Block THEN Block ELSE target

\* Wrong variant of Gated: severe now is enough.
GatedByNow(s, target) ==
    IF target = Block /\ s.level < Block /\ cfg.minSev > 0 /\ ~ s.force /\ s.high = NoTime
    THEN Hard ELSE target

\* A block needs severity that lasts, unless it is forced.
Gated(s, target) ==
    IF /\ target = Block /\ s.level < Block /\ cfg.minSev > 0 /\ ~ s.force
       /\ (s.high = NoTime \/ s.high < cfg.minDur)
    THEN Hard ELSE target

\* The level wanted by the signals may need a cooldown to pass; it uses up a force.
Moves(s) ==
    LET target == Gated(s, Held(s, Wanted(s)))
    IN  IF target # s.level /\ Passed(s.cooldown)
        THEN [To(s, target) EXCEPT !.force = FALSE] ELSE s

\* evaluateFSMIntent: the state that Advance leads to, its level is the one proposed.
\* A set of one, so that each stage is evaluated once.
Intents(m, s) == {Moves(b) : b \in {StepDown(a) : a \in {Counts(m, s)}}}

-----------------------------------------------------------------------------
(* What the decision makes of it.                                          *)

\* mergeFSMRuntimeState: level, expiry and cooldown are those of what was done.
Merge(actual, signal) ==
    [signal EXCEPT !.level = actual.level, !.expires = actual.expires,
                   !.cooldown = actual.cooldown]

\* applyStateFields, after the maps were written.
Moved(s, level) ==
    [s EXCEPT !.level = level, !.cooldown = cfg.cooldown,
              !.expires = IF level = Observe THEN NoTime ELSE cfg.pack]

\* ApplySource for observe goes past the broker: the maps are cleared, the lease stays.
Release(s) == [st |-> Moved(s, Observe), lease |-> lease, enf |-> Observe]

\* Broker.Apply at a level above observe, without errors (ActionBroker has them): a
\* stronger lease refuses; the same one is renewed, or is left as it is at the renewal
\* limit, without a call to the maps; else a new lease supersedes a weaker one.
Enforce(s, level) ==
    LET limited == cfg.maxRenewals > 0 /\ lease.renewals >= cfg.maxRenewals
        renewed == IF limited THEN lease
                   ELSE [lease EXCEPT !.left = cfg.pack, !.renewals = @ + 1]
        counted == [renewed EXCEPT !.renewals = Capped(@, cfg.maxRenewals)]
    IN  IF lease.level > level THEN [st |-> s, lease |-> lease, enf |-> enf]
        ELSE IF lease.level = level
             THEN [st |-> [s EXCEPT !.level = level, !.expires = renewed.left],
                   lease |-> counted, enf |-> enf]
        ELSE [st |-> Moved(s, level), enf |-> level,
              lease |-> [level |-> level, left |-> cfg.pack, renewals |-> 0]]

\* The policy pack of the tests and the manual, first match first: a block proposed is
\* applied; a limit that still drops packets is kept, as a hard one; other levels are
\* applied as proposed, at every tick, observe only if it is not the current level.
Decide(m, s, level) ==
    IF level = Block THEN Enforce(s, Block)
    ELSE IF s.level # Observe /\ m.drop > 0 THEN Enforce(s, Hard)
    ELSE IF level # Observe THEN Enforce(s, level)
    ELSE IF s.level # Observe THEN Release(s)
    ELSE [st |-> s, lease |-> lease, enf |-> enf]

\* projectRuntimePDPLeaseState: a running lease says what the level is.
Projected(s) ==
    IF lease.level > Observe /\ lease.left > 0
    THEN [s EXCEPT !.level = lease.level, !.expires = lease.left] ELSE s

-----------------------------------------------------------------------------
(* The loop.                                                               *)

Uses(what) == scope[what] > 0 /\ scope' = [scope EXCEPT ![what] = @ - 1]

Take(result) == st' = result.st /\ lease' = result.lease /\ enf' = result.enf

\* The history.  highs: high ticks since the last low one, enough after a graph strike;
\* mild: age of the last tick below the severity of a block; drops: the last tick saw
\* packets dropped; quiet: it was low, and no strike came; foreign: another goroutine
\* has acted since the source was last a candidate.
NoHistory == [highs |-> 0, mild |-> cfg.minDur + 1, drops |-> FALSE, quiet |-> TRUE,
              foreign |-> FALSE]

\* One tick's decision for source state s, or none (no pack, no match, a refusal).
Process(m, s, foreign) ==
    \E intent \in Intents(m, s) : \E done \in {Decide(m, s, intent.level)} :
        /\ intent.strikes <= MaxStrikes
        /\ \/ /\ Take([done EXCEPT !.st = Merge(done.st, intent)])
              /\ UNCHANGED scope
           \/ /\ Uses("holds")
              /\ st' = Merge(s, intent)
              /\ UNCHANGED <<lease, enf>>
        /\ hist' = [highs |-> IF HighTick(m) THEN Capped(hist.highs + 1, cfg.upNeed)
                              ELSE IF LowTick(m) THEN 0 ELSE hist.highs,
                    mild |-> IF m.sev < cfg.minSev THEN 0 ELSE hist.mild,
                    drops |-> m.drop > 0,
                    quiet |-> LowTick(m),
                    foreign |-> foreign]
        /\ phase' = "expire"

\* processCandidateRuntimePDP.
Candidate(m) ==
    /\ phase # "expire"
    /\ \E s \in {[Projected(st) EXCEPT !.seen = 0]} : Process(m, s, FALSE)

\* sweepInactive: a source above observe that is no candidate, also one that came
\* after the first TopN, is processed with a score of 0; its lease is not looked at.
Sweep ==
    /\ phase # "expire"
    /\ \/ /\ st.level # Observe
          /\ Process([sev |-> 0, drop |-> 0], st, hist.foreign)
       \/ /\ st.level = Observe
          /\ phase' = "expire"
          /\ UNCHANGED <<st, lease, enf, scope, hist>>

\* sourceStates.reset (SIGUSR1).
Reset ==
    /\ phase = "begin" /\ st.level # Observe
    /\ Uses("operator")
    /\ Take(Release([st EXCEPT !.strikes = 0, !.up = 0, !.down = 0, !.noncomp = 0]))
    /\ UNCHANGED <<phase, hist>>

\* applyFeedback: as Reset, and the times go too.
Feedback ==
    /\ phase = "begin" /\ st.level # Observe
    /\ Uses("operator")
    /\ LET r == Release([st EXCEPT !.strikes = 0, !.up = 0, !.down = 0, !.noncomp = 0,
                                   !.high = NoTime])
       IN  Take([r EXCEPT !.st.cooldown = -1])
    /\ UNCHANGED <<phase, hist>>

\* applyGraphStrikeState: credit, or a forced block.
GraphStrike(n, force) ==
    /\ phase # "expire"
    /\ Uses("strikes")
    /\ LET strikes == IF force THEN Larger(st.strikes, cfg.at[Block] + 1) ELSE st.strikes + n
       IN  /\ strikes <= MaxStrikes
           /\ st' = [st EXCEPT !.strikes = strikes, !.force = @ \/ force, !.trigger = 0,
                               !.up = Larger(@, cfg.upNeed),
                               !.high = IF @ = NoTime THEN 0 ELSE @]
    /\ phase' = "struck"
    /\ hist' = [hist EXCEPT !.highs = cfg.upNeed, !.quiet = FALSE]
    /\ UNCHANGED <<lease, enf>>

\* The proposal applier or the signal consumer acts on this source: the state that
\* ApplySource returns is dropped.
OtherApplies(level) ==
    /\ Uses("others")
    /\ LET r == Enforce(Fresh, level) IN lease' = r.lease /\ enf' = r.enf
    /\ hist' = [hist EXCEPT !.foreign = TRUE]
    /\ UNCHANGED <<st, phase>>

\* evictIdle.
Idle(s) ==
    s.level = Observe /\ s.strikes = 0 /\ s.seen # NoTime /\ s.seen > cfg.state

\* Time until the next tick.
Aged(s) ==
    [s EXCEPT !.expires = Sooner(@), !.cooldown = Sooner(@),
              !.trigger = Older(@, MaxHold), !.high = Older(@, cfg.minDur),
              !.seen = Older(@, cfg.state + 1)]

\* RevertExpired and evictIdle end the iteration.
EndTick ==
    /\ phase = "expire"
    /\ LET over == lease.level > Observe /\ lease.left <= 0
       IN  /\ enf' = IF over THEN Observe ELSE enf
           /\ lease' = IF over \/ lease.level = Observe
                       THEN NoLease ELSE [lease EXCEPT !.left = @ - 1]
    /\ st' = IF Idle(st) THEN Fresh ELSE Aged(st)
    /\ hist' = [hist EXCEPT !.mild = Older(@, cfg.minDur + 1)]
    /\ phase' = "begin"
    /\ UNCHANGED scope

\* No adapter can be observed: the iteration ends there, without candidates, sweep,
\* RevertExpired or evictIdle.  This may go on for as long as it likes.
Blind ==
    /\ phase = "begin"
    /\ st' = Aged(st)
    /\ lease' = [lease EXCEPT !.left = Sooner(@)]
    /\ hist' = [hist EXCEPT !.mild = Older(@, cfg.minDur + 1)]
    /\ UNCHANGED <<enf, phase, scope>>

\* The process dies and starts again, which takes a tick: leases and maps are still there.
Restart ==
    /\ Uses("restarts")
    /\ st' = Fresh
    /\ lease' = [lease EXCEPT !.left = Sooner(@)]
    /\ hist' = [hist EXCEPT !.mild = Older(@, cfg.minDur + 1)]
    /\ phase' = "begin"
    /\ UNCHANGED enf

-----------------------------------------------------------------------------
Init ==
    /\ scope \in Scopes
    /\ st = Fresh
    /\ lease = NoLease
    /\ enf = Observe
    /\ phase = "begin"
    /\ hist = NoHistory

Work == (\E m \in Metrics : Candidate(m)) \/ Sweep

Next ==
    \/ Work \/ Blind
    \/ EndTick
    \/ Reset \/ Feedback
    \/ \E n \in Credits : GraphStrike(n, FALSE) \/ GraphStrike(0, TRUE)
    \/ \E level \in Soft..Block : OtherApplies(level)
    \/ Restart

Spec == Init /\ [][Next]_vars

\* The loop is driven by a ticker and its calls return; whether an iteration gets past
\* the observation is not up to it.
FairSpec == Spec /\ WF_vars(Work \/ Blind) /\ WF_vars(EndTick)

-----------------------------------------------------------------------------
(* Properties.                                                             *)

\* Every variable has its type.
TypeOK ==
    /\ st \in [level : Levels, strikes : 0..MaxStrikes, expires : Int, cooldown : Int,
               trigger : Nat, high : Nat \cup {NoTime}, seen : Nat \cup {NoTime},
               up : Nat, down : Nat, noncomp : Nat, force : BOOLEAN]
    /\ lease \in [level : Levels, left : Int, renewals : Nat]
    /\ enf \in Levels
    /\ phase \in {"begin", "struck", "expire"}
    /\ scope \in Scope
    /\ hist \in [highs : Nat, mild : Nat, drops : BOOLEAN, quiet : BOOLEAN, foreign : BOOLEAN]

Decides == phase # "expire" /\ phase' = "expire"

\* The loop raises a level only on a streak of high ticks, a graph strike, or a limit
\* that was ignored; a hard limit, the source's own or that of a lease merged into its
\* state, also to a block because severity lasted. To a block only if no tick was mild for
\* BlockMinDur before, or a graph signal forces it (fsm.go:219-257).  This depends on what
\* several ticks, leases and the merge leave in the state.
EscalationEarned ==
    [][Decides /\ st'.level > Larger(st.level, Projected(st).level) =>
         /\ \/ st.force \/ hist'.highs >= cfg.upNeed
            \/ Projected(st).level = Soft /\ st'.level = Hard /\ hist'.drops
            \/ Hard \in {st.level, Projected(st).level} /\ st'.level = Block
         /\ st'.level = Block /\ cfg.minSev > 0 => st.force \/ hist'.mild > cfg.minDur]_vars

\* The loop does not take a block out of the maps while its lease runs (fsm.go:239-241:
\* "escape the block early"), whatever the source does, and also after a restart;
\* unless another goroutine made the lease and the source was no candidate since.
BlockRunsItsTime ==
    [][Decides /\ enf = Block /\ lease.level = Block /\ lease.left > 0 /\ ~ hist.foreign
         => enf' = Block]_vars

\* Observation succeeds again and again, and from some time on finds the source quiet.
SeenQuiet == []<>(phase = "expire") /\ <>[](hist.quiet)

\* A source that stays quiet is let go at some time: by the level logic, by the lease,
\* or both (manual-test-guide.md:593-597: "Later ticks show fsm{soft=0 hard=0 block=0}").
QuietSourceReleased ==
    SeenQuiet => []<>(st.level = Observe /\ enf = Observe)

\* Where the renewals of a lease are limited, it is let go for good
\* (fsm.go:184-245, broker.go:409, kliq.go:1417-1421).
LimitedSourceRecovers ==
    cfg.maxRenewals > 0 /\ SeenQuiet => <>[](st.level = Observe /\ enf = Observe)
=============================================================================
