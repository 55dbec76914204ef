--------------------------- MODULE SourceFSMProofs ---------------------------
(* Theorems about SourceFSM, for every configuration and any scores.        *)
EXTENDS SourceFSM, TLAPS

-----------------------------------------------------------------------------
(* Types.                                                                  *)

State == [level : Levels, strikes : Nat, expires : Int, cooldown : Int,
          trigger : Nat, high : Nat \cup {NoTime}, seen : Nat \cup {NoTime},
          up : Nat, down : Nat, noncomp : Nat, force : BOOLEAN]

Lease == [level : Levels, left : Int, renewals : Nat]

History == [highs : Nat, mild : Nat, drops : BOOLEAN, quiet : BOOLEAN, foreign : BOOLEAN]

Outcome == [st : State, lease : Lease, enf : Levels]

\* The numbers of a configuration are numbers.
LEMMA CfgType ==
    ASSUME scope \in Scope
    PROVE  /\ cfg \in Config
           /\ \A i \in 1..3 : cfg.step[i] \in Nat /\ cfg.delta[i] \in Nat
           /\ \A l \in {Soft, Hard, Block} : cfg.at[l] \in Nat /\ cfg.ttl[l] \in Nat
           /\ cfg.hold[Soft] \in Nat /\ cfg.hold[Hard] \in Nat
           /\ cfg.decayBelow \in Nat /\ cfg.upNeed \in Nat /\ cfg.downNeed \in Nat
           /\ cfg.minSev \in Nat /\ cfg.minDur \in Nat /\ cfg.cooldown \in Nat
           /\ cfg.pack \in Nat \ {0} /\ cfg.state \in Nat /\ cfg.maxRenewals \in Nat
           /\ cfg.noncomp.at \in Nat /\ cfg.noncomp.drop \in Nat
           /\ cfg.noncomp.sev \in Nat /\ cfg.noncomp.below \in Nat
           /\ MaxHold \in Nat
  <1>1. cfg \in Config
    BY FSMAssumption DEF cfg, Scope
  <1>2. /\ cfg.step \in [1..3 -> Nat] /\ cfg.delta \in [1..3 -> Nat]
        /\ cfg.at \in [Soft..Block -> Nat] /\ cfg.ttl \in [Soft..Block -> Nat]
        /\ cfg.hold \in [Soft..Hard -> Nat]
        /\ cfg.noncomp \in [at : Nat, drop : Nat, sev : Nat, below : Nat]
    BY <1>1 DEF Config
  <1>3. Soft \in Soft..Hard /\ Hard \in Soft..Hard /\ {Soft, Hard, Block} \subseteq Soft..Block
    BY DEF Soft, Hard, Block
  <1>4. cfg.hold[Soft] \in Nat /\ cfg.hold[Hard] \in Nat
    BY <1>2, <1>3
  <1>5. \A l \in {Soft, Hard, Block} : cfg.at[l] \in Nat /\ cfg.ttl[l] \in Nat
    BY <1>2, <1>3
  <1>6. MaxHold \in Nat
    BY <1>4 DEF MaxHold, Larger
  <1>7. /\ cfg.decayBelow \in Nat /\ cfg.upNeed \in Nat /\ cfg.downNeed \in Nat
        /\ cfg.minSev \in Nat /\ cfg.minDur \in Nat /\ cfg.cooldown \in Nat
        /\ cfg.pack \in Nat \ {0} /\ cfg.state \in Nat /\ cfg.maxRenewals \in Nat
    BY <1>1 DEF Config
  <1> QED
    BY <1>1, <1>2, <1>4, <1>5, <1>6, <1>7

LEMMA MetricType ==
    ASSUME NEW m \in Metrics
    PROVE  m.sev \in Nat /\ m.drop \in Nat
  BY FSMAssumption DEF Metrics

LEMMA SmallTypes ==
    ASSUME NEW n \in Nat, NEW k \in Nat, NEW d \in Int
    PROVE  /\ Capped(n, k) \in Nat /\ Capped(n + 1, k) \in Nat /\ Less(n) \in Nat
           /\ Larger(n, k) \in Nat /\ Sooner(d) \in Int
           /\ Older(n, k) \in Nat /\ Older(NoTime, k) = NoTime
  BY DEF Capped, Less, Larger, Sooner, Older, NoTime

\* A source that moves to a level starts its cooldown.
LEMMA ToType ==
    ASSUME scope \in Scope, NEW s \in State, NEW level \in Levels
    PROVE  /\ To(s, level) \in State
           /\ To(s, level).level = level /\ ~ Passed(To(s, level).cooldown)
           /\ To(s, level).up = s.up /\ To(s, level).high = s.high
           /\ To(s, level).force = s.force /\ To(s, level).strikes = s.strikes
  <1>1. cfg.cooldown \in Nat /\ \A l \in {Soft, Hard, Block} : cfg.ttl[l] \in Nat
    BY CfgType
  <1>2. level # Observe => level \in {Soft, Hard, Block}
    BY DEF Levels, Observe, Soft, Hard, Block
  <1> DEFINE e == IF level = Observe \/ cfg.ttl[level] = 0 THEN NoTime ELSE cfg.ttl[level]
  <1>3. e \in Int
    BY <1>1, <1>2 DEF NoTime
  <1> HIDE DEF e
  <1>4. To(s, level) = [s EXCEPT !.level = level, !.cooldown = cfg.cooldown, !.expires = e]
    BY DEF To, e
  <1>5. To(s, level) \in State
    <2>1. cfg.cooldown \in Int
      BY <1>1
    <2> QED
      BY <1>3, <1>4, <2>1 DEF State
  <1>6. /\ To(s, level).level = level /\ To(s, level).cooldown = cfg.cooldown
        /\ To(s, level).up = s.up /\ To(s, level).high = s.high
        /\ To(s, level).force = s.force /\ To(s, level).strikes = s.strikes
    BY <1>4 DEF State
  <1>7. ~ Passed(cfg.cooldown)
    BY <1>1 DEF Passed
  <1> QED
    BY <1>5, <1>6, <1>7

LEMMA CountsType ==
    ASSUME scope \in Scope, NEW s \in State, NEW m \in Metrics
    PROVE  /\ Counts(m, s) \in State
           /\ Counts(m, s).level = s.level /\ Counts(m, s).force = s.force
           /\ Counts(m, s).cooldown = s.cooldown /\ Counts(m, s).expires = s.expires
           /\ Counts(m, s).up = Up(m, s) /\ Counts(m, s).high = High(m, s)
  <1>1. m.sev \in Nat /\ m.drop \in Nat
    BY MetricType
  <1>2. /\ s.strikes \in Nat /\ s.up \in Nat /\ s.down \in Nat /\ s.noncomp \in Nat
        /\ s.high \in Nat \cup {NoTime} /\ s.trigger \in Nat
    BY DEF State
  <1>3. /\ MaxStreak \in Nat /\ cfg.noncomp.at \in Nat
        /\ \A i \in 1..3 : cfg.delta[i] \in Nat
    BY CfgType, FSMAssumption
  <1>4. High(m, s) \in Nat \cup {NoTime}
    BY <1>2 DEF High
  <1>5. Up(m, s) \in Nat /\ Down(m, s) \in Nat
    BY <1>2, <1>3 DEF Up, Down, Streak, Capped, Less
  <1>6. Delta(m) \in Nat
    BY <1>3 DEF Delta
  <1>7. Strikes(m, s) \in Nat
    BY <1>2, <1>6 DEF Strikes, Less
  <1>8. NonComp(m, s) \in Nat
    BY <1>2, <1>3 DEF NonComp, Capped
  <1> DEFINE t == IF Delta(m) > 0 THEN 0 ELSE s.trigger
  <1>9. t \in Nat
    BY <1>2
  <1> HIDE DEF t
  <1>10. Counts(m, s) = [s EXCEPT !.high = High(m, s), !.up = Up(m, s), !.down = Down(m, s),
                                  !.strikes = Strikes(m, s), !.noncomp = NonComp(m, s),
                                  !.trigger = t]
    BY DEF Counts, t
  <1> QED
    BY <1>4, <1>5, <1>7, <1>8, <1>9, <1>10 DEF State

LEMMA StepDownType ==
    ASSUME scope \in Scope, NEW s \in State
    PROVE  /\ StepDown(s) \in State
           /\ StepDown(s).up = s.up /\ StepDown(s).high = s.high /\ StepDown(s).force = s.force
           /\ StepDown(s) = s \/ ~ Passed(StepDown(s).cooldown)
           /\ StepDown(s).level <= s.level
           /\ StepDown(s) # s => Passed(s.expires)
  <1>1. CASE StepDown(s) = s
    BY <1>1 DEF State, Levels, Observe, Block
  <1>2. CASE StepDown(s) # s
    <2>1. s.level # Observe /\ StepDown(s) = To(s, s.level - 1) /\ Passed(s.expires)
      BY <1>2 DEF StepDown
    <2>2. s.level - 1 \in Levels /\ s.level - 1 <= s.level
      BY <2>1 DEF State, Levels, Observe, Block
    <2> QED
      BY <2>1, <2>2, ToType
  <1> QED
    BY <1>1, <1>2

LEMMA WantedType ==
    ASSUME NEW s \in State
    PROVE  ByStrikes(s) \in Levels /\ Wanted(s) \in Levels /\ Gated(s, Held(s, Wanted(s))) \in Levels
  BY DEF State, Levels, Observe, Soft, Hard, Block, ByStrikes, Wanted, Gated, Held

LEMMA MovesType ==
    ASSUME scope \in Scope, NEW s \in State
    PROVE  /\ Moves(s) \in State
           /\ Moves(s).up = s.up /\ Moves(s).high = s.high
           /\ \/ Moves(s) = s
              \/ Passed(s.cooldown) /\ Moves(s).level = Gated(s, Held(s, Wanted(s)))
  <1> DEFINE target == Gated(s, Held(s, Wanted(s)))
  <1>1. CASE target # s.level /\ Passed(s.cooldown)
    <2>1. target \in Levels
      BY WantedType
    <2> DEFINE t == To(s, target)
    <2>2. t \in State /\ t.level = target /\ t.up = s.up /\ t.high = s.high
      BY <2>1, ToType
    <2>3. Moves(s) = [t EXCEPT !.force = FALSE]
      BY <1>1 DEF Moves
    <2> HIDE DEF t
    <2> QED
      BY <1>1, <2>2, <2>3 DEF State
  <1>2. CASE ~ (target # s.level /\ Passed(s.cooldown))
    BY <1>2 DEF Moves
  <1> QED
    BY <1>1, <1>2

-----------------------------------------------------------------------------
(* The level logic.                                                        *)

\* A level that goes up was wanted by the signals: after a streak, by force, or for a
\* limit that was ignored; and a block of a gated profile is due to lasting severity.
LEMMA IntentEarned ==
    ASSUME scope \in Scope, NEW s \in State, NEW m \in Metrics, NEW i \in Intents(m, s)
    PROVE  /\ i \in State /\ i.up = Up(m, s) /\ i.high = High(m, s)
           /\ i.level > s.level =>
                /\ s.force \/ Up(m, s) >= cfg.upNeed \/ (s.level = Hard /\ i.level = Block)
                /\ i.level = Block /\ cfg.minSev > 0 =>
                     s.force \/ (High(m, s) # NoTime /\ High(m, s) >= cfg.minDur)
  <1> DEFINE a == Counts(m, s)
             b == StepDown(a)
  <1>1. i = Moves(b)
    BY DEF Intents
  <1>2. /\ a \in State /\ a.level = s.level /\ a.force = s.force
        /\ a.up = Up(m, s) /\ a.high = High(m, s)
    BY CountsType
  <1> HIDE DEF a
  <1>3. /\ b \in State /\ b.up = a.up /\ b.high = a.high /\ b.level <= a.level
        /\ b = a \/ ~ Passed(b.cooldown)
    BY <1>2, StepDownType
  <1> HIDE DEF b
  <1>4. /\ i \in State /\ i.up = b.up /\ i.high = b.high
        /\ i = b \/ (Passed(b.cooldown) /\ i.level = Gated(b, Held(b, Wanted(b))))
    BY <1>1, <1>3, MovesType
  <1>5. ASSUME i.level > s.level
        PROVE  /\ s.force \/ Up(m, s) >= cfg.upNeed \/ (s.level = Hard /\ i.level = Block)
               /\ i.level = Block /\ cfg.minSev > 0 =>
                    s.force \/ (High(m, s) # NoTime /\ High(m, s) >= cfg.minDur)
    <2>1. s.level \in 0..3 /\ a.level \in 0..3 /\ b.level \in 0..3 /\ i.level \in 0..3
      BY <1>2, <1>3, <1>4 DEF State, Levels, Observe, Block
    <2>2. i # b
      BY <1>2, <1>3, <1>5, <2>1
    <2>3. b = a /\ i.level = Gated(a, Held(a, Wanted(a)))
      BY <1>3, <1>4, <2>2
    <2>4. a.up \in Nat /\ a.high \in Nat \cup {NoTime} /\ cfg.upNeed \in Nat /\ cfg.minDur \in Nat
          /\ Wanted(a) \in 0..3 /\ ByStrikes(a) \in 0..3
      BY <1>2, CfgType, WantedType DEF State, Levels, Observe, Block
    <2>5. Held(a, Wanted(a)) = Wanted(a) /\ Wanted(a) > a.level
      BY <1>2, <1>5, <2>1, <2>3, <2>4 DEF Held, Gated, Block, Hard
    <2>6. a.force \/ a.up >= cfg.upNeed \/ (a.level = Hard /\ Wanted(a) = Block)
      BY <2>1, <2>4, <2>5 DEF Wanted, Block, Hard
    <2>7. a.level = Hard => i.level = Block
      BY <1>2, <1>5, <2>1 DEF Hard, Block
    <2>8. i.level = Block /\ cfg.minSev > 0 =>
             a.force \/ (a.high # NoTime /\ a.high >= cfg.minDur)
      BY <1>2, <1>5, <2>1, <2>3, <2>4, <2>5 DEF Gated, Hard, Block, NoTime
    <2> QED
      BY <1>2, <2>6, <2>7, <2>8
  <1> QED
    BY <1>2, <1>3, <1>4, <1>5

\* A block whose time runs is the intent too.
LEMMA IntentKeepsBlock ==
    ASSUME scope \in Scope, NEW s \in State, NEW m \in Metrics, NEW i \in Intents(m, s),
           s.level = Block, s.expires > 0
    PROVE  i.level = Block
  <1> DEFINE a == Counts(m, s)
  <1>1. i = Moves(StepDown(a))
    BY DEF Intents
  <1>2. a \in State /\ a.level = Block /\ a.expires > 0
    BY CountsType
  <1> HIDE DEF a
  <1>3. StepDown(a) = a
    BY <1>2, StepDownType DEF Passed
  <1>4. Wanted(a) \in 0..3
    BY <1>2, WantedType DEF Levels, Observe, Block
  <1>5. Gated(a, Held(a, Wanted(a))) = Block
    BY <1>2, <1>4 DEF Gated, Held, Block
  <1> QED
    BY <1>1, <1>2, <1>3, <1>5, MovesType

-----------------------------------------------------------------------------
(* What the decision makes of it.                                          *)

LEMMA MovedType ==
    ASSUME scope \in Scope, NEW s \in State, NEW level \in Levels
    PROVE  /\ Moved(s, level) \in State /\ Moved(s, level).level = level
           /\ level # Observe => Moved(s, level).expires = cfg.pack
  <1> DEFINE e == IF level = Observe THEN NoTime ELSE cfg.pack
  <1>1. e \in Int /\ cfg.cooldown \in Int
    BY CfgType DEF NoTime
  <1>2. Moved(s, level) = [s EXCEPT !.level = level, !.cooldown = cfg.cooldown, !.expires = e]
    BY DEF Moved
  <1>3. Moved(s, level) \in State
    BY <1>1, <1>2 DEF State
  <1>4. Moved(s, level).level = level /\ Moved(s, level).expires = e
    BY <1>2 DEF State
  <1> QED
    BY <1>3, <1>4

LEMMA MergeType ==
    ASSUME NEW a \in State, NEW i \in State
    PROVE  /\ Merge(a, i) \in State
           /\ Merge(a, i).level = a.level /\ Merge(a, i).expires = a.expires
           /\ Merge(a, i).up = i.up /\ Merge(a, i).high = i.high
           /\ Merge(a, i).strikes = i.strikes
  BY DEF Merge, State

LEMMA ReleaseType ==
    ASSUME scope \in Scope, lease \in Lease, NEW s \in State
    PROVE  /\ Release(s) \in Outcome
           /\ Release(s).st = Moved(s, Observe) /\ Release(s).lease = lease
           /\ Release(s).enf = Observe
  <1>1. Observe \in Levels
    BY DEF Observe, Levels, Block
  <1>2. Moved(s, Observe) \in State
    BY <1>1, MovedType
  <1> QED
    BY <1>1, <1>2 DEF Release, Outcome

\* What enforcing a level does: nothing against a stronger lease; a lease of the same
\* level keeps its level and the maps; else lease and maps have the level.
LEMMA EnforceEffect ==
    ASSUME scope \in Scope, lease \in Lease, enf \in Levels, NEW s \in State,
           NEW level \in Levels, level # Observe
    PROVE  /\ Enforce(s, level) \in Outcome
           /\ \/ /\ lease.level > level
                 /\ Enforce(s, level) = [st |-> s, lease |-> lease, enf |-> enf]
              \/ /\ lease.level = level /\ Enforce(s, level).enf = enf
                 /\ Enforce(s, level).lease.level = level
                 /\ Enforce(s, level).st.level = level
                 /\ Enforce(s, level).st.expires = Enforce(s, level).lease.left
              \/ /\ lease.level < level /\ Enforce(s, level).enf = level
                 /\ Enforce(s, level).lease.level = level
                 /\ Enforce(s, level).st.level = level
                 /\ Enforce(s, level).st.expires = Enforce(s, level).lease.left
  <1> DEFINE limited == cfg.maxRenewals > 0 /\ lease.renewals >= cfg.maxRenewals
             renewed == IF limited THEN lease
                        ELSE [lease EXCEPT !.left = cfg.pack, !.renewals = @ + 1]
             counted == [renewed EXCEPT !.renewals = Capped(@, cfg.maxRenewals)]
             same == [st |-> [s EXCEPT !.level = level, !.expires = renewed.left],
                      lease |-> counted, enf |-> enf]
             new == [st |-> Moved(s, level), enf |-> level,
                     lease |-> [level |-> level, left |-> cfg.pack, renewals |-> 0]]
  <1>1. cfg.pack \in Int /\ cfg.maxRenewals \in Nat /\ lease.level \in 0..3 /\ level \in 0..3
    BY CfgType DEF Lease, Levels, Observe, Block
  <1>2. renewed \in Lease /\ renewed.level = lease.level
    <2>1. lease.renewals + 1 \in Nat /\ lease.level \in Levels
      BY DEF Lease
    <2>2. CASE limited
      BY <2>2
    <2>3. CASE ~ limited
      <3>1. renewed = [lease EXCEPT !.left = cfg.pack, !.renewals = lease.renewals + 1]
        BY <2>3
      <3> HIDE DEF renewed, limited
      <3> QED
        BY <1>1, <2>1, <3>1 DEF Lease
    <2> QED
      BY <2>2, <2>3
  <1> HIDE DEF renewed
  <1>3. counted \in Lease /\ counted.left = renewed.left /\ counted.level = lease.level
    BY <1>1, <1>2, SmallTypes DEF Lease
  <1> HIDE DEF counted
  <1>4. same.st \in State /\ same.st.level = level /\ same.st.expires = renewed.left
    BY <1>2 DEF State, Lease
  <1>5. same \in Outcome
    BY <1>3, <1>4 DEF Outcome
  <1>6. new.st \in State /\ new.st.level = level /\ new.st.expires = cfg.pack
    BY MovedType
  <1>7. new \in Outcome
    BY <1>1, <1>6 DEF Outcome, Lease
  <1>8. Enforce(s, level) = IF lease.level > level THEN [st |-> s, lease |-> lease, enf |-> enf]
                            ELSE IF lease.level = level THEN same ELSE new
    BY DEF Enforce, counted, renewed
  <1>9. CASE lease.level > level
    BY <1>8, <1>9 DEF Outcome
  <1>10. CASE lease.level = level
    <2>1. Enforce(s, level) = same
      BY <1>1, <1>8, <1>10
    <2>2. same.enf = enf /\ same.lease = counted
      OBVIOUS
    <2> HIDE DEF same
    <2> QED
      BY <1>3, <1>4, <1>5, <1>10, <2>1, <2>2
  <1>11. CASE lease.level < level
    <2>1. Enforce(s, level) = new
      BY <1>1, <1>8, <1>11
    <2>2. new.enf = level /\ new.lease.level = level /\ new.lease.left = cfg.pack
      OBVIOUS
    <2> HIDE DEF new
    <2> QED
      BY <1>6, <1>7, <1>11, <2>1, <2>2
  <1> QED
    BY <1>1, <1>9, <1>10, <1>11

\* The maps hold a block for its lease, and the source knows how long.
Aligned(s, l, e) ==
    e = Block /\ l.level = Block /\ l.left > 0 => s.level = Block /\ s.expires = l.left

\* A decision raises a level only to the one proposed, or to a hard limit that drops
\* packets; and it leaves a block in the maps that the source knows of.
LEMMA DecideEffect ==
    ASSUME scope \in Scope, lease \in Lease, enf \in Levels, NEW s \in State,
           NEW m \in Metrics, NEW level \in Levels
    PROVE  /\ Decide(m, s, level) \in Outcome
           /\ \/ Decide(m, s, level).st.level \in {s.level, level, Observe}
              \/ Decide(m, s, level).st.level = Hard /\ s.level # Observe /\ m.drop > 0
           /\ Aligned(s, lease, enf) =>
                 Aligned(Decide(m, s, level).st, Decide(m, s, level).lease,
                         Decide(m, s, level).enf)
           /\ level = Block /\ lease.level = Block => Decide(m, s, level).enf = enf
  <1> DEFINE Good(d) == /\ d \in Outcome
                        /\ Aligned(s, lease, enf) => Aligned(d.st, d.lease, d.enf)
  <1>1. Observe \in Levels /\ Hard \in Levels /\ Block \in Levels
        /\ Hard # Observe /\ Block # Observe
    BY DEF Observe, Hard, Block, Levels
  <1>2. ASSUME NEW l \in Levels, l # Observe
        PROVE  /\ Good(Enforce(s, l)) /\ Enforce(s, l).st.level \in {s.level, l}
               /\ l = Block /\ lease.level = Block => Enforce(s, l).enf = enf
    <2>1. lease.level \in 0..3 /\ l \in 0..3
      BY <1>2 DEF Lease, Levels, Observe, Block
    <2> QED
      BY <1>2, <2>1, EnforceEffect DEF Aligned, Block
  <1>3. ASSUME level = Observe, s.level # Observe
        PROVE  Good(Release(s)) /\ Release(s).st.level = Observe
    <2>1. Release(s) \in Outcome /\ Release(s).st.level = Observe /\ Release(s).enf = Observe
      BY <1>1, ReleaseType, MovedType
    <2> QED
      BY <1>1, <2>1 DEF Aligned
  <1> DEFINE none == [st |-> s, lease |-> lease, enf |-> enf]
  <1>4. Good(none) /\ none.st.level = s.level
    BY DEF Outcome
  <1>5. \/ level = Block /\ Decide(m, s, level) = Enforce(s, Block)
        \/ /\ level # Block /\ s.level # Observe /\ m.drop > 0
           /\ Decide(m, s, level) = Enforce(s, Hard)
        \/ level # Block /\ level # Observe /\ Decide(m, s, level) = Enforce(s, level)
        \/ level = Observe /\ s.level # Observe /\ Decide(m, s, level) = Release(s)
        \/ level = Observe /\ Decide(m, s, level) = none
    BY <1>1 DEF Decide
  <1> HIDE DEF Good, none
  <1>6. Good(Decide(m, s, level))
    BY <1>1, <1>2, <1>3, <1>4, <1>5
  <1>7. \/ Decide(m, s, level).st.level \in {s.level, level, Observe}
        \/ Decide(m, s, level).st.level = Hard /\ s.level # Observe /\ m.drop > 0
    BY <1>1, <1>2, <1>3, <1>4, <1>5
  <1>8. level = Block /\ lease.level = Block => Decide(m, s, level).enf = enf
    BY <1>1, <1>2, <1>5
  <1>9. /\ Decide(m, s, level) \in Outcome
        /\ Aligned(s, lease, enf) =>
              Aligned(Decide(m, s, level).st, Decide(m, s, level).lease,
                      Decide(m, s, level).enf)
    BY <1>6 DEF Good
  <1> QED
    BY <1>7, <1>8, <1>9

-----------------------------------------------------------------------------
(* The inductive invariant.                                                *)

\* An upward streak was seen: the history has as many high ticks, or enough.
StreakInv == st.up <= hist.highs \/ hist.highs >= cfg.upNeed

\* Severity that lasts began after the last mild tick (both are ages), and a tick that has
\* not been decided comes after the one before it.
MildInv ==
    /\ st.high # NoTime => st.high < hist.mild
    /\ phase # "expire" => hist.mild >= 1

\* A source that has a block in the maps is at block itself for the same time, or was
\* forgotten; unless another goroutine has acted on it.
BlockInv == ~ hist.foreign /\ st.level # Observe => Aligned(st, lease, enf)

FsmInv == TypeOK /\ StreakInv /\ MildInv /\ BlockInv

LEMMA Typed ==
    ASSUME TypeOK
    PROVE  /\ st \in State /\ st.strikes <= MaxStrikes /\ lease \in Lease /\ enf \in Levels
           /\ scope \in Scope /\ hist \in History
  BY FSMAssumption DEF TypeOK, State, Lease, History

LEMMA BoundedState ==
    ASSUME NEW s \in State, s.strikes <= MaxStrikes
    PROVE  s \in [level : Levels, strikes : 0..MaxStrikes, expires : Int, cooldown : Int,
                  trigger : Nat, high : Nat \cup {NoTime}, seen : Nat \cup {NoTime},
                  up : Nat, down : Nat, noncomp : Nat, force : BOOLEAN]
  <1>1. s.strikes \in 0..MaxStrikes
    BY FSMAssumption DEF State
  <1> QED
    BY <1>1 DEF State

LEMMA FreshType ==
    ASSUME scope \in Scope
    PROVE  /\ Fresh \in State /\ Fresh.level = Observe /\ Fresh.strikes = 0
           /\ Fresh.up = 0 /\ Fresh.high = NoTime
  BY CfgType DEF Fresh, State, Levels, Observe, Block, NoTime

\* What may still happen becomes less; the configuration stays.
LEMMA UsesType ==
    ASSUME scope \in Scope, NEW what \in {"operator", "strikes", "others", "holds", "restarts"},
           Uses(what)
    PROVE  scope' \in Scope /\ cfg' = cfg
  BY DEF Uses, Scope, cfg

-----------------------------------------------------------------------------
(* One tick.                                                               *)

\* What the source is taken to be: with its lease looked at, or without.
LEMMA ProjectedType ==
    ASSUME NEW s \in State, lease \in Lease
    PROVE  /\ Projected(s) \in State /\ [Projected(s) EXCEPT !.seen = 0] \in State
           /\ Projected(s).up = s.up /\ Projected(s).high = s.high
           /\ Projected(s).force = s.force
           /\ Projected(s).level \in {s.level, lease.level}
           /\ lease.level = Block /\ lease.left > 0
                => Projected(s).level = Block /\ Projected(s).expires = lease.left
  <1>1. CASE lease.level > Observe /\ lease.left > 0
    BY <1>1 DEF Projected, State, Lease
  <1>2. CASE ~ (lease.level > Observe /\ lease.left > 0)
    BY <1>2 DEF Projected, State, Lease, Observe, Block
  <1> QED
    BY <1>1, <1>2

\* A tick in three parts: the intent, the outcome for level and time, the history.
LEMMA ProcessEffect ==
    ASSUME TypeOK, NEW s \in State, NEW m \in Metrics, NEW foreign \in BOOLEAN,
           Process(m, s, foreign)
    PROVE  \E i \in Intents(m, s) :
              /\ i \in State /\ st' \in State /\ st'.strikes = i.strikes
              /\ i.strikes <= MaxStrikes
              /\ st'.up = Up(m, s) /\ st'.high = High(m, s)
              /\ scope' \in Scope /\ cfg' = cfg
              /\ lease' \in Lease /\ enf' \in Levels
              /\ hist' \in History /\ phase' = "expire"
              /\ \/ st'.level \in {s.level, i.level, Observe}
                 \/ st'.level = Hard /\ s.level # Observe /\ m.drop > 0
              /\ Aligned(s, lease, enf) => Aligned(st', lease', enf')
              /\ i.level = Block /\ lease.level = Block => enf' = enf
  <1>1. lease \in Lease /\ enf \in Levels /\ scope \in Scope /\ hist \in History
    BY Typed
  <1>2. PICK i \in Intents(m, s) : \E d \in {Decide(m, s, i.level)} :
          /\ i.strikes <= MaxStrikes
          /\ \/ /\ Take([d EXCEPT !.st = Merge(d.st, i)])
                /\ UNCHANGED scope
             \/ /\ Uses("holds")
                /\ st' = Merge(s, i)
                /\ UNCHANGED <<lease, enf>>
    BY DEF Process
  <1> DEFINE d == Decide(m, s, i.level)
  <1>3. /\ i \in State /\ i.level \in Levels /\ i.up = Up(m, s) /\ i.high = High(m, s)
    BY <1>1, IntentEarned DEF State
  <1>4. /\ d \in Outcome
        /\ \/ d.st.level \in {s.level, i.level, Observe}
           \/ d.st.level = Hard /\ s.level # Observe /\ m.drop > 0
        /\ Aligned(s, lease, enf) => Aligned(d.st, d.lease, d.enf)
        /\ i.level = Block /\ lease.level = Block => d.enf = enf
    BY <1>1, <1>3, DecideEffect
  <1>5. \/ Take([d EXCEPT !.st = Merge(d.st, i)]) /\ UNCHANGED scope
        \/ Uses("holds") /\ st' = Merge(s, i) /\ UNCHANGED <<lease, enf>>
    BY <1>2
  <1>6. hist' \in History /\ phase' = "expire"
    <2>1. /\ hist.highs \in Nat /\ hist.mild \in Nat /\ cfg.upNeed \in Nat
          /\ Capped(hist.highs + 1, cfg.upNeed) \in Nat
      <3>1. hist.highs \in Nat /\ hist.mild \in Nat
        BY <1>1 DEF History
      <3>2. cfg.upNeed \in Nat
        BY <1>1, CfgType
      <3> QED
        BY <3>1, <3>2 DEF Capped
    <2>2. HighTick(m) \in BOOLEAN /\ LowTick(m) \in BOOLEAN
      BY DEF HighTick, LowTick
    <2> QED
      BY <2>1, <2>2 DEF Process, History
  <1> HIDE DEF d
  <1>7. CASE Take([d EXCEPT !.st = Merge(d.st, i)]) /\ UNCHANGED scope
    <2>1. d.st \in State /\ d.lease \in Lease /\ d.enf \in Levels
      BY <1>4 DEF Outcome
    <2>2. st' = Merge(d.st, i) /\ lease' = d.lease /\ enf' = d.enf
      BY <1>4, <1>7 DEF Take, Outcome
    <2>3. /\ st' \in State /\ st'.level = d.st.level /\ st'.expires = d.st.expires
          /\ st'.up = i.up /\ st'.high = i.high /\ st'.strikes = i.strikes
      BY <1>3, <2>1, <2>2, MergeType
    <2>4. Aligned(s, lease, enf) => Aligned(st', lease', enf')
      BY <1>4, <2>2, <2>3 DEF Aligned
    <2>5. scope' \in Scope /\ cfg' = cfg
      BY <1>1, <1>7 DEF cfg
    <2> QED
      BY <1>2, <1>3, <1>4, <1>6, <2>1, <2>2, <2>3, <2>4, <2>5
  <1>8. CASE Uses("holds") /\ st' = Merge(s, i) /\ UNCHANGED <<lease, enf>>
    <2>1. /\ st' \in State /\ st'.level = s.level /\ st'.expires = s.expires
          /\ st'.up = i.up /\ st'.high = i.high /\ st'.strikes = i.strikes
      BY <1>3, <1>8, MergeType
    <2>2. scope' \in Scope /\ cfg' = cfg
      BY <1>1, <1>8, UsesType
    <2>3. Aligned(s, lease, enf) => Aligned(st', lease', enf')
      BY <1>8, <2>1 DEF Aligned
    <2> QED
      BY <1>1, <1>2, <1>3, <1>6, <1>8, <2>1, <2>2, <2>3
  <1> QED
    BY <1>5, <1>7, <1>8

\* A tick keeps the counts of streaks and severity true to the history.
LEMMA ProcessCounts ==
    ASSUME FsmInv, NEW s \in State, NEW m \in Metrics, NEW foreign \in BOOLEAN,
           Process(m, s, foreign), phase # "expire", s.up = st.up, s.high = st.high
    PROVE  /\ Up(m, s) <= hist'.highs \/ hist'.highs >= cfg.upNeed
           /\ High(m, s) # NoTime => High(m, s) < hist'.mild
  <1>1. /\ hist.highs \in Nat /\ hist.mild \in Nat /\ hist.mild >= 1
        /\ s.up \in Nat /\ s.high \in Nat \cup {NoTime}
        /\ s.up <= hist.highs \/ hist.highs >= cfg.upNeed
        /\ s.high # NoTime => s.high < hist.mild
    BY Typed DEF FsmInv, StreakInv, MildInv, State, History
  <1>2. cfg.upNeed \in Nat /\ MaxStreak \in Nat
    BY Typed, CfgType, FSMAssumption DEF FsmInv
  <1>3. /\ hist'.highs = IF HighTick(m) THEN Capped(hist.highs + 1, cfg.upNeed)
                         ELSE IF LowTick(m) THEN 0 ELSE hist.highs
        /\ hist'.mild = IF m.sev < cfg.minSev THEN 0 ELSE hist.mild
    BY DEF Process
  <1>4. Up(m, s) <= hist'.highs \/ hist'.highs >= cfg.upNeed
    <2>1. CASE HighTick(m)
      <3>1. Up(m, s) <= s.up + 1 /\ Up(m, s) \in Nat
        BY <1>1, <1>2, <2>1 DEF Up, Streak, Capped
      <3>2. hist'.highs = Capped(hist.highs + 1, cfg.upNeed)
        BY <1>3, <2>1
      <3> QED
        BY <1>1, <1>2, <3>1, <3>2 DEF Capped
    <2>2. CASE ~ HighTick(m) /\ LowTick(m)
      BY <1>1, <1>2, <1>3, <2>2 DEF Up, Streak
    <2>3. CASE ~ HighTick(m) /\ ~ LowTick(m)
      BY <1>1, <1>2, <1>3, <2>3 DEF Up, Streak, Less
    <2> QED
      BY <2>1, <2>2, <2>3
  <1>5. High(m, s) # NoTime => High(m, s) < hist'.mild
    <2>1. m.sev \in Nat /\ cfg.minSev \in Nat
      BY MetricType, Typed, CfgType DEF FsmInv
    <2> QED
      BY <1>1, <1>3, <2>1 DEF High
  <1> QED
    BY <1>4, <1>5

\* What the loop takes a source for, and which decision follows.
LEMMA DecidesHow ==
    ASSUME TypeOK, [Next]_vars, Decides
    PROVE  \/ \E m \in Metrics : Process(m, [Projected(st) EXCEPT !.seen = 0], FALSE)
           \/ /\ st.level # Observe
              /\ [sev |-> 0, drop |-> 0] \in Metrics
              /\ Process([sev |-> 0, drop |-> 0], st, hist.foreign)
           \/ st.level = Observe /\ UNCHANGED <<st, lease, enf, scope, hist>>
  <1>1. [sev |-> 0, drop |-> 0] \in Metrics
    BY FSMAssumption DEF Metrics
  <1>2. ASSUME NEW m \in Metrics, Candidate(m)
        PROVE  Process(m, [Projected(st) EXCEPT !.seen = 0], FALSE)
    BY <1>2 DEF Candidate
  <1>3. ~ UNCHANGED phase /\ phase' = "expire"
    BY DEF Decides
  <1>4. Work
    BY <1>3 DEF Next, Blind, EndTick, Reset, Feedback, GraphStrike, OtherApplies, Restart, vars
  <1> QED
    BY <1>1, <1>2, <1>4 DEF Work, Sweep

\* The state and the decision of a tick, for a candidate and for the sweep.
LEMMA TickEffect ==
    ASSUME FsmInv, NEW s \in State, NEW m \in Metrics, NEW foreign \in BOOLEAN,
           Process(m, s, foreign), phase # "expire", s.up = st.up, s.high = st.high,
           ~ foreign => Aligned(s, lease, enf)
    PROVE  FsmInv'
  <1>1. PICK i \in Intents(m, s) :
              /\ i \in State /\ st' \in State /\ st'.strikes = i.strikes
              /\ i.strikes <= MaxStrikes
              /\ st'.up = Up(m, s) /\ st'.high = High(m, s)
              /\ scope' \in Scope /\ cfg' = cfg
              /\ lease' \in Lease /\ enf' \in Levels
              /\ hist' \in History /\ phase' = "expire"
              /\ Aligned(s, lease, enf) => Aligned(st', lease', enf')
    BY ProcessEffect DEF FsmInv
  <1>2. TypeOK'
    BY <1>1, BoundedState DEF TypeOK, Lease, History
  <1>3. StreakInv' /\ MildInv'
    BY <1>1, ProcessCounts DEF StreakInv, MildInv
  <1>4. hist'.foreign = foreign
    BY DEF Process
  <1>5. BlockInv'
    BY <1>1, <1>4 DEF BlockInv, Aligned
  <1> QED
    BY <1>2, <1>3, <1>5 DEF FsmInv

LEMMA DecidesStep ==
    ASSUME FsmInv, [Next]_vars, Decides
    PROVE  FsmInv'
  <1>1. st \in State /\ lease \in Lease /\ phase # "expire" /\ hist.foreign \in BOOLEAN
    BY Typed DEF FsmInv, Decides, History
  <1>2. ASSUME NEW m \in Metrics, Process(m, [Projected(st) EXCEPT !.seen = 0], FALSE)
        PROVE  FsmInv'
    <2> DEFINE p == Projected(st)
               s == [p EXCEPT !.seen = 0]
    <2>1. /\ p \in State /\ s \in State /\ p.up = st.up /\ p.high = st.high
          /\ lease.level = Block /\ lease.left > 0 => p.level = Block /\ p.expires = lease.left
      BY <1>1, ProjectedType
    <2> HIDE DEF p
    <2>2. s.up = st.up /\ s.high = st.high /\ s.level = p.level /\ s.expires = p.expires
      BY <2>1 DEF State
    <2>3. Aligned(s, lease, enf)
      BY <2>1, <2>2 DEF Aligned
    <2>4. Process(m, s, FALSE)
      BY <1>2 DEF p
    <2> HIDE DEF s
    <2> QED
      BY <1>1, <2>1, <2>2, <2>3, <2>4, TickEffect
  <1>3. ASSUME st.level # Observe, Process([sev |-> 0, drop |-> 0], st, hist.foreign),
               [sev |-> 0, drop |-> 0] \in Metrics
        PROVE  FsmInv'
    <2>1. ~ hist.foreign => Aligned(st, lease, enf)
      BY <1>3 DEF FsmInv, BlockInv
    <2> QED
      BY <1>1, <1>3, <2>1, TickEffect
  <1>4. ASSUME UNCHANGED <<st, lease, enf, scope, hist>>
        PROVE  FsmInv'
    <2>1. phase' = "expire" /\ cfg' = cfg
      BY <1>4 DEF Decides, cfg
    <2>2. TypeOK'
      BY <1>4, <2>1 DEF FsmInv, TypeOK
    <2> QED
      BY <1>4, <2>1, <2>2 DEF FsmInv, StreakInv, MildInv, BlockInv, Aligned
  <1> QED
    BY <1>2, <1>3, <1>4, DecidesHow DEF FsmInv

-----------------------------------------------------------------------------
(* The steps around it.                                                    *)

\* Steps that leave streak, severity and configuration, or forget them.
LEMMA CountsKept ==
    ASSUME FsmInv, cfg' = cfg, hist'.highs = hist.highs,
           st'.up \in {0, st.up}, st'.high \in {NoTime, st.high},
           hist'.mild = hist.mild, phase' = phase, hist'.highs \in Nat
    PROVE  StreakInv' /\ MildInv'
  BY DEF FsmInv, StreakInv, MildInv

LEMMA OperatorStep ==
    ASSUME FsmInv, Reset \/ Feedback
    PROVE  FsmInv'
  <1>1. /\ st \in State /\ st.strikes <= MaxStrikes /\ lease \in Lease /\ scope \in Scope
        /\ hist \in History /\ phase \in {"begin", "struck", "expire"}
    BY Typed DEF FsmInv, TypeOK
  <1> DEFINE s == [st EXCEPT !.strikes = 0, !.up = 0, !.down = 0, !.noncomp = 0]
             t == [st EXCEPT !.strikes = 0, !.up = 0, !.down = 0, !.noncomp = 0, !.high = NoTime]
             r == Release(t)
  <1>2. /\ s \in State /\ t \in State /\ s.up = 0 /\ t.up = 0 /\ s.strikes = 0 /\ t.strikes = 0
        /\ s.high = st.high /\ t.high = NoTime
    BY <1>1 DEF State
  <1>3. Observe \in Levels
    BY DEF Levels, Observe, Block
  <1>4. \A z \in State : /\ Moved(z, Observe) \in State /\ Moved(z, Observe).level = Observe
                         /\ Moved(z, Observe).up = z.up /\ Moved(z, Observe).high = z.high
                         /\ Moved(z, Observe).strikes = z.strikes
    BY <1>1, <1>3, MovedType DEF Moved, State
  <1>5. \A z \in State : /\ Release(z) \in Outcome /\ Release(z).st = Moved(z, Observe)
                         /\ Release(z).lease = lease /\ Release(z).enf = Observe
    BY <1>1, ReleaseType
  <1>6. scope' \in Scope /\ cfg' = cfg
    BY <1>1, UsesType DEF Reset, Feedback
  <1>7. /\ st' \in State /\ st'.up = 0 /\ st'.strikes = 0 /\ st'.high \in {NoTime, st.high}
        /\ lease' = lease /\ enf' = Observe
        /\ st'.level = Observe
    <2>1. CASE Reset
      <3>1. Take(Release(s))
        BY <2>1 DEF Reset
      <3> HIDE DEF s
      <3> QED
        BY <1>2, <1>4, <1>5, <3>1 DEF Take
    <2>2. CASE Feedback
      <3>1. Take([r EXCEPT !.st.cooldown = -1])
        BY <2>2 DEF Feedback
      <3>2. r \in Outcome /\ r.st = Moved(t, Observe) /\ r.lease = lease /\ r.enf = Observe
        BY <1>2, <1>5
      <3> HIDE DEF r, t
      <3> DEFINE z == Moved(t, Observe)
      <3>3. z \in State /\ z.up = 0 /\ z.high = NoTime /\ z.strikes = 0 /\ z.level = Observe
        BY <1>2, <1>4
      <3> HIDE DEF z
      <3>4. st' = [z EXCEPT !.cooldown = -1] /\ lease' = lease /\ enf' = Observe
        BY <3>1, <3>2 DEF Take, Outcome, z
      <3> QED
        BY <3>3, <3>4 DEF State
    <2> QED
      BY <2>1, <2>2
  <1>8. phase' = phase /\ hist' = hist
    BY DEF Reset, Feedback
  <1>9. TypeOK'
    <2>1. st'.strikes <= MaxStrikes
      BY <1>7, FSMAssumption
    <2> QED
      BY <1>1, <1>3, <1>6, <1>7, <1>8, <2>1, BoundedState DEF TypeOK, Lease, History
  <1>10. StreakInv' /\ MildInv'
    BY <1>1, <1>6, <1>7, <1>8, CountsKept DEF History
  <1>11. BlockInv'
    BY <1>7 DEF BlockInv
  <1> QED
    BY <1>9, <1>10, <1>11 DEF FsmInv

LEMMA StrikeStep ==
    ASSUME FsmInv, NEW n \in Credits \cup {0}, NEW force \in BOOLEAN, GraphStrike(n, force)
    PROVE  FsmInv'
  <1> DEFINE k == IF force THEN Larger(st.strikes, cfg.at[Block] + 1) ELSE st.strikes + n
             h == IF st.high = NoTime THEN 0 ELSE st.high
             u == Larger(st.up, cfg.upNeed)
             f == st.force \/ force
  <1>1. /\ st \in State /\ lease \in Lease /\ enf \in Levels /\ scope \in Scope
        /\ hist \in History /\ phase # "expire"
    BY Typed DEF FsmInv, GraphStrike
  <1>2. /\ st.strikes \in Nat /\ st.up \in Nat /\ st.high \in Nat \cup {NoTime}
        /\ n \in Nat /\ cfg.at[Block] \in Nat /\ cfg.upNeed \in Nat
    BY <1>1, CfgType, FSMAssumption DEF State
  <1>3. k \in Nat /\ h \in Nat /\ u \in Nat /\ f \in BOOLEAN
    <2>1. st.force \in BOOLEAN
      BY <1>1 DEF State
    <2>2. k \in Nat /\ u \in Nat
      BY <1>2 DEF Larger
    <2>3. h \in Nat
      BY <1>2
    <2> QED
      BY <2>1, <2>2, <2>3
  <1>4. /\ k <= MaxStrikes
        /\ st' = [st EXCEPT !.strikes = k, !.force = f, !.trigger = 0, !.up = u, !.high = h]
    BY DEF GraphStrike
  <1> HIDE DEF k, u, f
  <1>5. /\ st' \in State /\ st'.strikes <= MaxStrikes /\ st'.high = h /\ st'.level = st.level
        /\ st'.expires = st.expires
    <2> HIDE DEF h
    <2> QED
      BY <1>1, <1>3, <1>4 DEF State
  <1>6. /\ hist' = [hist EXCEPT !.highs = cfg.upNeed, !.quiet = FALSE]
        /\ phase' = "struck" /\ lease' = lease /\ enf' = enf
    BY DEF GraphStrike
  <1>7. /\ hist' \in History /\ hist'.highs = cfg.upNeed /\ hist'.mild = hist.mild
        /\ hist'.foreign = hist.foreign /\ hist.mild \in Nat
    BY <1>1, <1>2, <1>6 DEF History
  <1>8. scope' \in Scope /\ cfg' = cfg
    BY <1>1, UsesType DEF GraphStrike
  <1>9. TypeOK'
    BY <1>1, <1>5, <1>6, <1>7, <1>8, BoundedState DEF TypeOK, Lease, History
  <1>10. StreakInv'
    BY <1>2, <1>7, <1>8 DEF StreakInv
  <1>11. MildInv'
    BY <1>1, <1>2, <1>5, <1>7 DEF MildInv, FsmInv
  <1>12. BlockInv'
    BY <1>5, <1>6, <1>7 DEF BlockInv, FsmInv, Aligned
  <1> QED
    BY <1>9, <1>10, <1>11, <1>12 DEF FsmInv

LEMMA OthersStep ==
    ASSUME FsmInv, NEW level \in Soft..Block, OtherApplies(level)
    PROVE  FsmInv'
  <1>1. /\ st \in State /\ lease \in Lease /\ enf \in Levels /\ scope \in Scope
        /\ hist \in History
    BY Typed DEF FsmInv
  <1>2. level \in Levels /\ level # Observe
    BY DEF Levels, Observe, Soft, Block
  <1>3. Enforce(Fresh, level) \in Outcome
    BY <1>1, <1>2, FreshType, EnforceEffect
  <1>4. /\ lease' \in Lease /\ enf' \in Levels
        /\ hist' = [hist EXCEPT !.foreign = TRUE] /\ st' = st /\ phase' = phase
    BY <1>3 DEF OtherApplies, Outcome
  <1>5. /\ hist' \in History /\ hist'.highs = hist.highs /\ hist'.mild = hist.mild
        /\ hist'.foreign /\ hist.highs \in Nat
    BY <1>1, <1>4 DEF History
  <1>6. scope' \in Scope /\ cfg' = cfg
    BY <1>1, UsesType DEF OtherApplies
  <1>7. TypeOK'
    BY <1>4, <1>5, <1>6 DEF FsmInv, TypeOK, Lease, History
  <1>8. StreakInv' /\ MildInv'
    BY <1>4, <1>5, <1>6, CountsKept
  <1>9. BlockInv'
    BY <1>5 DEF BlockInv
  <1> QED
    BY <1>7, <1>8, <1>9 DEF FsmInv

LEMMA EndTickStep ==
    ASSUME FsmInv, EndTick \/ Blind
    PROVE  FsmInv'
  <1>1. /\ st \in State /\ st.strikes <= MaxStrikes /\ lease \in Lease /\ enf \in Levels
        /\ scope \in Scope /\ hist \in History
    BY Typed DEF FsmInv
  <1>2. /\ cfg.upNeed \in Nat /\ cfg.minDur \in Nat /\ cfg.state \in Nat /\ MaxHold \in Nat
        /\ hist.mild \in Nat /\ hist.highs \in Nat
    <2>1. hist.mild \in Nat /\ hist.highs \in Nat
      BY <1>1 DEF History
    <2> QED
      BY <1>1, <2>1, CfgType
  <1>3. /\ Aged(st) \in State /\ Aged(st).strikes = st.strikes /\ Aged(st).level = st.level
        /\ Aged(st).up = st.up /\ Aged(st).high = Older(st.high, cfg.minDur)
        /\ Aged(st).expires = Sooner(st.expires)
    <2>1. /\ st.expires \in Int /\ st.cooldown \in Int /\ st.trigger \in Nat
          /\ st.high \in Nat \cup {NoTime} /\ st.seen \in Nat \cup {NoTime}
      BY <1>1 DEF State
    <2>2. Sooner(st.expires) \in Int /\ Sooner(st.cooldown) \in Int
      BY <2>1 DEF Sooner
    <2>3. \A a \in Nat \cup {NoTime}, k \in Nat : Older(a, k) \in Nat \cup {NoTime}
      BY DEF Older, Capped
    <2>4. Older(st.trigger, MaxHold) \in Nat
      BY <1>2, <2>1, SmallTypes
    <2>5. cfg.state + 1 \in Nat
      BY <1>2
    <2>6. /\ Older(st.high, cfg.minDur) \in Nat \cup {NoTime}
          /\ Older(st.seen, cfg.state + 1) \in Nat \cup {NoTime}
      BY <1>2, <2>1, <2>3, <2>5
    <2> QED
      BY <1>1, <2>2, <2>4, <2>6 DEF Aged, State
  <1>4. Fresh \in State /\ Fresh.strikes = 0 /\ Fresh.level = Observe /\ Fresh.up = 0
        /\ Fresh.high = NoTime
    BY <1>1, FreshType
  <1>5. /\ st' \in {Fresh, Aged(st)} /\ phase' = "begin" /\ scope' = scope
        /\ hist' = [hist EXCEPT !.mild = Older(@, cfg.minDur + 1)]
    BY DEF EndTick, Blind
  <1>6. /\ hist' \in History /\ hist'.highs = hist.highs /\ hist'.foreign = hist.foreign
        /\ hist'.mild = Capped(hist.mild + 1, cfg.minDur + 1)
    BY <1>1, <1>2, <1>5, SmallTypes DEF History, Older, NoTime
  <1>7. lease' \in Lease /\ enf' \in Levels
    <2>1. NoLease \in Lease /\ Observe \in Levels
      BY DEF NoLease, Lease, Levels, Observe, Block
    <2>2. [lease EXCEPT !.left = @ - 1] \in Lease
      BY <1>1 DEF Lease
    <2>3. [lease EXCEPT !.left = Sooner(@)] \in Lease
      BY <1>1, SmallTypes DEF Lease
    <2> QED
      BY <1>1, <2>1, <2>2, <2>3 DEF EndTick, Blind
  <1>8. cfg' = cfg
    BY <1>5 DEF cfg
  <1>9. TypeOK'
    <2>1. st' \in State /\ st'.strikes <= MaxStrikes
      BY <1>1, <1>3, <1>4, <1>5, FSMAssumption
    <2> QED
      BY <1>1, <1>5, <1>6, <1>7, <2>1, BoundedState DEF TypeOK, Lease, History
  <1>10. StreakInv'
    BY <1>2, <1>3, <1>4, <1>5, <1>6, <1>8 DEF StreakInv, FsmInv
  <1>11. MildInv'
    <2>1. hist'.mild >= 1
      BY <1>2, <1>6 DEF Capped
    <2>2. ASSUME st' = Aged(st), st'.high # NoTime PROVE st'.high < hist'.mild
      <3>1. st.high \in Nat /\ st'.high = Capped(st.high + 1, cfg.minDur)
        BY <1>1, <1>3, <2>2 DEF State, Older
      <3>2. st.high < hist.mild
        BY <3>1 DEF FsmInv, MildInv, NoTime
      <3> QED
        BY <1>2, <1>6, <3>1, <3>2 DEF Capped
    <2> QED
      BY <1>4, <1>5, <2>1, <2>2 DEF MildInv
  <1>12. BlockInv'
    <2> SUFFICES ASSUME ~ hist.foreign, st'.level # Observe,
                        enf' = Block, lease'.level = Block, lease'.left > 0
                 PROVE  st'.level = Block /\ st'.expires = lease'.left
      BY <1>6 DEF BlockInv, Aligned
    <2>1. st' = Aged(st) /\ st.level # Observe
      BY <1>3, <1>4, <1>5
    <2>2. /\ \/ lease' = [lease EXCEPT !.left = @ - 1]
             \/ lease' = [lease EXCEPT !.left = Sooner(@)]
          /\ enf' = enf
      BY DEF EndTick, Blind, NoLease, Observe, Block
    <2>3. lease.level = Block /\ lease'.left = lease.left - 1 /\ lease.left \in Int
      BY <1>1, <2>2 DEF Lease, Sooner
    <2>4. lease.left > 0
      BY <2>3
    <2>5. st.level = Block /\ st.expires = lease.left
      BY <2>1, <2>2, <2>3, <2>4 DEF FsmInv, BlockInv, Aligned
    <2> QED
      BY <1>3, <2>1, <2>3, <2>4, <2>5 DEF Sooner
  <1> QED
    BY <1>9, <1>10, <1>11, <1>12 DEF FsmInv

LEMMA RestartStep ==
    ASSUME FsmInv, Restart
    PROVE  FsmInv'
  <1>1. /\ st \in State /\ lease \in Lease /\ enf \in Levels /\ scope \in Scope
        /\ hist \in History
    BY Typed DEF FsmInv
  <1>2. cfg.minDur \in Nat /\ cfg.upNeed \in Nat /\ hist.mild \in Nat /\ hist.highs \in Nat
    <2>1. hist.mild \in Nat /\ hist.highs \in Nat
      BY <1>1 DEF History
    <2> QED
      BY <1>1, <2>1, CfgType
  <1>3. Fresh \in State /\ Fresh.strikes = 0 /\ Fresh.level = Observe /\ Fresh.up = 0
        /\ Fresh.high = NoTime
    BY <1>1, FreshType
  <1>4. /\ st' = Fresh /\ phase' = "begin" /\ enf' = enf
        /\ hist' = [hist EXCEPT !.mild = Older(@, cfg.minDur + 1)]
        /\ lease' = [lease EXCEPT !.left = Sooner(@)]
    BY DEF Restart
  <1>5. /\ hist' \in History /\ hist'.highs = hist.highs
        /\ hist'.mild = Capped(hist.mild + 1, cfg.minDur + 1)
    BY <1>1, <1>2, <1>4, SmallTypes DEF History, Older, NoTime
  <1>6. lease' \in Lease
    BY <1>1, <1>4, SmallTypes DEF Lease
  <1>7. scope' \in Scope /\ cfg' = cfg
    BY <1>1, UsesType DEF Restart
  <1>8. TypeOK'
    <2>1. st' \in State /\ st'.strikes <= MaxStrikes
      BY <1>3, <1>4, FSMAssumption
    <2> QED
      BY <1>1, <1>4, <1>5, <1>6, <1>7, <2>1, BoundedState DEF TypeOK, Lease, History
  <1>9. StreakInv' /\ MildInv'
    BY <1>2, <1>3, <1>4, <1>5 DEF StreakInv, MildInv, Capped
  <1>10. BlockInv'
    BY <1>3, <1>4 DEF BlockInv
  <1> QED
    BY <1>8, <1>9, <1>10 DEF FsmInv

LEMMA FsmInit == Init => FsmInv
  <1> SUFFICES ASSUME Init PROVE FsmInv
    OBVIOUS
  <1>1. scope \in Scope /\ st = Fresh /\ phase = "begin" /\ enf = Observe
    BY FSMAssumption DEF Init
  <1>2. cfg.minDur \in Nat /\ cfg.upNeed \in Nat
    BY <1>1, CfgType
  <1>3. hist \in History /\ hist.highs = 0 /\ hist.mild = cfg.minDur + 1
    BY <1>2 DEF Init, NoHistory, History
  <1>4. Fresh \in State /\ Fresh.strikes = 0 /\ Fresh.level = Observe /\ Fresh.up = 0
        /\ Fresh.high = NoTime
    BY <1>1, FreshType
  <1>5. lease \in Lease /\ enf \in Levels
    BY DEF Init, NoLease, Lease, Levels, Observe, Block
  <1>6. TypeOK
    BY <1>1, <1>3, <1>4, <1>5, BoundedState, FSMAssumption DEF TypeOK, Lease, History
  <1> QED
    BY <1>1, <1>2, <1>3, <1>4, <1>6 DEF FsmInv, StreakInv, MildInv, BlockInv

LEMMA FsmStep == FsmInv /\ [Next]_vars => FsmInv'
  <1> SUFFICES ASSUME FsmInv, [Next]_vars PROVE FsmInv'
    OBVIOUS
  <1>1. CASE UNCHANGED vars
    BY <1>1 DEF vars, FsmInv, TypeOK, StreakInv, MildInv, BlockInv, Aligned, cfg
  <1>2. CASE Decides
    BY <1>2, DecidesStep
  <1>3. CASE Work /\ ~ Decides
    BY <1>3 DEF Work, Candidate, Sweep, Process, Decides
  <1>4. ASSUME NEW n \in Credits, GraphStrike(n, FALSE) \/ GraphStrike(0, TRUE)
        PROVE  FsmInv'
    BY <1>4, StrikeStep
  <1> QED
    BY <1>1, <1>2, <1>3, <1>4, EndTickStep, OperatorStep, OthersStep, RestartStep DEF Next

LEMMA FsmInvariant == Spec => []FsmInv
  BY FsmInit, FsmStep, PTL DEF Spec

-----------------------------------------------------------------------------
(* The theorems.                                                           *)

\* Every variable has its type: no count of fsm.Advance falls below zero, and no input
\* takes a level out of its range.
THEOREM FsmTypeCorrect == Spec => []TypeOK
  <1>1. FsmInv => TypeOK
    BY DEF FsmInv
  <1> QED
    BY <1>1, FsmInvariant, PTL

\* What a tick makes of a source is earned, whatever level the source is taken for.
LEMMA ProcessEarned ==
    ASSUME FsmInv, NEW s \in State, NEW m \in Metrics, NEW foreign \in BOOLEAN,
           Process(m, s, foreign), phase # "expire",
           s.up = st.up, s.high = st.high, s.force = st.force, st'.level > s.level
    PROVE  /\ \/ st.force \/ hist'.highs >= cfg.upNeed
              \/ s.level = Soft /\ st'.level = Hard /\ m.drop > 0
              \/ s.level = Hard /\ st'.level = Block
           /\ st'.level = Block /\ cfg.minSev > 0 => st.force \/ hist'.mild > cfg.minDur
  <1>1. /\ scope \in Scope /\ hist \in History
        /\ cfg.upNeed \in Nat /\ cfg.minDur \in Nat
    BY Typed, CfgType DEF FsmInv
  <1>2. PICK i \in Intents(m, s) :
          /\ i \in State /\ st' \in State /\ hist' \in History
          /\ st'.up = Up(m, s) /\ st'.high = High(m, s)
          /\ \/ st'.level \in {s.level, i.level, Observe}
             \/ st'.level = Hard /\ s.level # Observe /\ m.drop > 0
    BY ProcessEffect DEF FsmInv
  <1>3. i.level > s.level =>
          /\ s.force \/ Up(m, s) >= cfg.upNeed \/ (s.level = Hard /\ i.level = Block)
          /\ i.level = Block /\ cfg.minSev > 0 =>
               s.force \/ (High(m, s) # NoTime /\ High(m, s) >= cfg.minDur)
    BY <1>1, IntentEarned
  <1>4. /\ Up(m, s) <= hist'.highs \/ hist'.highs >= cfg.upNeed
        /\ High(m, s) # NoTime => High(m, s) < hist'.mild
    BY ProcessCounts
  <1>5. /\ s.level \in 0..3 /\ i.level \in 0..3 /\ st'.level \in 0..3
        /\ hist'.highs \in Nat /\ hist'.mild \in Nat
        /\ Up(m, s) \in Nat /\ High(m, s) \in Nat \cup {NoTime}
    BY <1>2 DEF State, History, Levels, Observe, Block
  <1>6. CASE st'.level = i.level
    <2>1. s.force \/ Up(m, s) >= cfg.upNeed \/ (s.level = Hard /\ st'.level = Block)
      BY <1>3, <1>6
    <2>2. Up(m, s) >= cfg.upNeed => hist'.highs >= cfg.upNeed
      BY <1>1, <1>4, <1>5
    <2>3. High(m, s) # NoTime /\ High(m, s) >= cfg.minDur => hist'.mild > cfg.minDur
      BY <1>1, <1>4, <1>5
    <2> QED
      BY <1>3, <1>6, <2>1, <2>2, <2>3
  <1>7. CASE st'.level = Hard /\ s.level # Observe /\ m.drop > 0
    BY <1>5, <1>7 DEF Observe, Soft, Hard, Block
  <1>8. CASE st'.level \in {s.level, Observe}
    BY <1>5, <1>8 DEF Observe
  <1> QED
    BY <1>2, <1>6, <1>7, <1>8

\* Levels the loop raises are earned (fsm.go:219-257): by a streak of high ticks, a graph
\* strike or an ignored limit; and a block by severity that lasted for BlockMinDur.
THEOREM LevelsAreEarned == Spec => EscalationEarned
  <1> DEFINE Earned == Decides /\ st'.level > Larger(st.level, Projected(st).level) =>
               /\ \/ st.force \/ hist'.highs >= cfg.upNeed
                  \/ Projected(st).level = Soft /\ st'.level = Hard /\ hist'.drops
                  \/ Hard \in {st.level, Projected(st).level} /\ st'.level = Block
               /\ st'.level = Block /\ cfg.minSev > 0 => st.force \/ hist'.mild > cfg.minDur
  <1>1. FsmInv /\ [Next]_vars => Earned
    <2> SUFFICES ASSUME FsmInv, [Next]_vars, Decides,
                        st'.level > Larger(st.level, Projected(st).level)
                 PROVE  /\ \/ st.force \/ hist'.highs >= cfg.upNeed
                           \/ Projected(st).level = Soft /\ st'.level = Hard /\ hist'.drops
                           \/ Hard \in {st.level, Projected(st).level} /\ st'.level = Block
                        /\ st'.level = Block /\ cfg.minSev > 0
                             => st.force \/ hist'.mild > cfg.minDur
      OBVIOUS
    <2> DEFINE p == Projected(st)
    <2>1. /\ st \in State /\ lease \in Lease /\ phase # "expire" /\ hist.foreign \in BOOLEAN
      BY Typed DEF FsmInv, Decides, History
    <2>2. /\ p \in State /\ [p EXCEPT !.seen = 0] \in State
          /\ p.up = st.up /\ p.high = st.high /\ p.force = st.force
      BY <2>1, ProjectedType
    <2>3. st'.level > st.level /\ st'.level > p.level
      <3>1. st.level \in Int /\ p.level \in Int /\ st'.level \in Int
        <4>1. st' \in State
          BY FsmStep, BoundedState DEF FsmInv, TypeOK, State, Levels, Observe, Block
        <4> QED
          BY <2>1, <2>2, <4>1 DEF State, Levels, Observe, Block
      <3> HIDE DEF p
      <3>2. st'.level > Larger(st.level, p.level)
        BY DEF p
      <3> QED
        BY <3>1, <3>2 DEF Larger
    <2>4. ASSUME NEW m \in Metrics, Process(m, [Projected(st) EXCEPT !.seen = 0], FALSE)
          PROVE  /\ \/ st.force \/ hist'.highs >= cfg.upNeed
                    \/ p.level = Soft /\ st'.level = Hard /\ hist'.drops
                    \/ p.level = Hard /\ st'.level = Block
                 /\ st'.level = Block /\ cfg.minSev > 0
                      => st.force \/ hist'.mild > cfg.minDur
      <3> DEFINE s == [p EXCEPT !.seen = 0]
      <3>0. hist'.drops = (m.drop > 0)
        <4>1. \E h, w, q, d : /\ hist' = [highs |-> h, mild |-> w, drops |-> d, quiet |-> q,
                                       foreign |-> FALSE]
                             /\ d = (m.drop > 0)
          BY <2>4, Zenon DEF Process
        <4>2. PICK h, w, q, d : /\ hist' = [highs |-> h, mild |-> w, drops |-> d, quiet |-> q,
                                          foreign |-> FALSE]
                                /\ d = (m.drop > 0)
          BY <4>1, Zenon
        <4>3. hist'.drops = d
          BY <4>2
        <4> QED
          BY <4>2, <4>3, Zenon
      <3>1. Process(m, s, FALSE)
        BY <2>4
      <3> HIDE DEF p
      <3>2. s.up = st.up /\ s.high = st.high /\ s.force = st.force /\ s.level = p.level
        BY <2>2 DEF State
      <3>3. s \in State
        BY <2>2
      <3> HIDE DEF s
      <3> QED
        BY <2>1, <2>3, <3>0, <3>1, <3>2, <3>3, ProcessEarned
    <2>5. ASSUME st.level # Observe, Process([sev |-> 0, drop |-> 0], st, hist.foreign),
                 [sev |-> 0, drop |-> 0] \in Metrics
          PROVE  /\ \/ st.force \/ hist'.highs >= cfg.upNeed
                    \/ st.level = Hard /\ st'.level = Block
                 /\ st'.level = Block /\ cfg.minSev > 0
                      => st.force \/ hist'.mild > cfg.minDur
      BY <2>1, <2>3, <2>5, ProcessEarned
    <2>6. ~ UNCHANGED st
      BY <2>1, <2>3 DEF State, Levels, Observe, Block
    <2> QED
      BY <2>4, <2>5, <2>6, DecidesHow DEF FsmInv
  <1> QED
    BY <1>1, FsmInvariant, PTL DEF Spec, EscalationEarned

\* A block in the maps stays there while its lease runs (fsm.go:239-241), in every
\* configuration, after restarts, refusals and operator overrides.
THEOREM BlocksRunTheirTime == Spec => BlockRunsItsTime
  <1>1. FsmInv /\ [Next]_vars =>
          (Decides /\ enf = Block /\ lease.level = Block /\ lease.left > 0 /\ ~ hist.foreign
             => enf' = Block)
    <2> SUFFICES ASSUME FsmInv, [Next]_vars, Decides, enf = Block, lease.level = Block,
                        lease.left > 0, ~ hist.foreign
                 PROVE  enf' = Block
      OBVIOUS
    <2>1. /\ st \in State /\ lease \in Lease /\ scope \in Scope /\ hist.foreign \in BOOLEAN
      BY Typed DEF FsmInv, History
    <2>2. ASSUME NEW s \in State, NEW m \in Metrics, NEW foreign \in BOOLEAN,
                 Process(m, s, foreign), s.level = Block, s.expires > 0
          PROVE  enf' = Block
      <3>1. PICK i \in Intents(m, s) : i.level = Block /\ lease.level = Block => enf' = enf
        BY <2>2, ProcessEffect DEF FsmInv
      <3>2. i.level = Block
        BY <2>1, <2>2, IntentKeepsBlock
      <3> QED
        BY <3>1, <3>2
    <2>3. ASSUME NEW m \in Metrics, Process(m, [Projected(st) EXCEPT !.seen = 0], FALSE)
          PROVE  enf' = Block
      <3> DEFINE p == Projected(st)
                 s == [p EXCEPT !.seen = 0]
      <3>1. p \in State /\ s \in State /\ p.level = Block /\ p.expires = lease.left
        BY <2>1, ProjectedType
      <3>2. Process(m, s, FALSE)
        BY <2>3
      <3> HIDE DEF p
      <3>3. s.level = Block /\ s.expires > 0
        BY <3>1 DEF State
      <3> HIDE DEF s
      <3> QED
        BY <2>2, <3>1, <3>2, <3>3
    <2>4. ASSUME st.level # Observe, Process([sev |-> 0, drop |-> 0], st, hist.foreign),
                 [sev |-> 0, drop |-> 0] \in Metrics
          PROVE  enf' = Block
      <3>1. st.level = Block /\ st.expires > 0
        BY <2>4 DEF FsmInv, BlockInv, Aligned
      <3> QED
        BY <2>1, <2>2, <2>4, <3>1
    <2> QED
      BY <2>3, <2>4, DecidesHow DEF FsmInv
  <1> QED
    BY <1>1, FsmInvariant, PTL DEF Spec, BlockRunsItsTime
=============================================================================
