--------------------------- MODULE ReactionProofs ---------------------------
(***************************************************************************)
(* Proofs about ReactionEngine: types, that a detection is active while it *)
(* may not fire again, that alerts keep their distance, that each is       *)
(* escalated once, and that detections count what was observed.            *)
(***************************************************************************)
EXTENDS ReactionEngine, FiniteSetTheorems, WellFoundedInduction, TLAPS

Jobs == [at : Places, now : Times, todo : SUBSET Rules, then : Places, snap : Snapshots,
         rule : SUBSET Rules, due : SUBSET Alerts]

\* Every alert is known to the deduplication, and only alerts are escalated.
AlertsAnswered(m) ==
    /\ m.escalated \subseteq m.alerts
    /\ \A a \in m.alerts : a[2] <= m.resp[a[1]]

\* What holds of the maps, and of every copy that a restart may bring back.
Sound(m) == QuietWhileActive(m) /\ AlertsAnswered(m)

Copies == {mem, stored} \cup pending \cup {job[c].snap : c \in Callers}

CopiesSound == \A m \in Copies : Sound(m)

\* A caller's time is not ahead of the clock, and it works on one rule.
JobsSound ==
    \A c \in Callers : job[c].now <= clock /\ \A r, s \in job[c].rule : r = s

\* Alerts of this process that were tried or will be: none after the last response, and
\* all apart.
TriedAnswered == \A a \in hist.tried : a[2] <= mem.resp[a[1]]

TellingAnswered ==
    \A c \in Callers : Telling(c) => \A r \in job[c].rule : job[c].now <= mem.resp[r]

TellingApartFromTried ==
    \A c \in Callers, a \in hist.tried :
        Telling(c) /\ a[1] \in job[c].rule => Apart(a[2], job[c].now)

TellingApart ==
    \A c, d \in Callers :
        c # d /\ Telling(c) /\ Telling(d) /\ job[c].rule \cap job[d].rule # {}
            => Apart(job[c].now, job[d].now)

AlertInv == TriedAnswered /\ TellingAnswered /\ TellingApartFromTried /\ TellingApart

\* Escalations under way or done are marked in the maps, and no two are of one alert.
EscalationInv ==
    /\ hist.esc \subseteq mem.escalated
    /\ \A c \in Callers : job[c].due \subseteq mem.escalated /\ job[c].due \cap hist.esc = {}
    /\ \A c, d \in Callers : c # d => job[c].due \cap job[d].due = {}

ReactionInv == TypeOK /\ CopiesSound /\ JobsSound /\ AlertInv /\ EscalationInv

-----------------------------------------------------------------------------
(* Types.                                                                  *)

\* A new engine has empty maps of the right type (newRuntimeReactionEngine).
LEMMA BlankType == Blank \in Snapshots /\ Idle \in Jobs
BY ReactionAssumption DEF Blank, Idle, Snapshots, Jobs, Places, Times, Alerts, NoTime

\* Nothing contradicts an empty engine.
LEMMA BlankSound == Sound(Blank)
BY DEF Blank, Sound, QuietWhileActive, AlertsAnswered

\* A bounded resource that is used stays a scenario.
LEMMA UsesType ==
    ASSUME scope \in Scope, NEW what \in {"samples", "failures", "restarts"}, Uses(what)
    PROVE  scope' \in Scope
<1>1. scope[what] \in Nat /\ scope[what] > 0
    BY DEF Scope, Uses
<1>2. scope[what] - 1 \in Nat /\ (what = "restarts" => scope[what] - 1 \in 0 .. MaxRestarts)
    BY <1>1, ReactionAssumption DEF Scope
<1> QED BY <1>1, <1>2 DEF Scope, Uses

\* observeDetection leaves maps of the right type.
LEMMA KeptType ==
    ASSUME NEW w \in [Times -> Nat], NEW now \in Times, NEW n \in Nat
    PROVE  Kept([w EXCEPT ![now] = @ + n], now) \in [Times -> Nat]
BY ReactionAssumption DEF Kept, Times

\* A caller that goes on with a job keeps all jobs typed.
LEMMA BecomesType ==
    ASSUME TypeOK, NEW c \in Callers, NEW j \in Jobs, Becomes(c, j)
    PROVE  job' \in [Callers -> Jobs]
BY DEF TypeOK, Jobs, Becomes

\* The copy that snapshotLocked makes is part of the job.
LEMMA SavesType ==
    ASSUME NEW j \in Jobs, NEW m \in Snapshots, NEW then \in Places
    PROVE  Saves(j, m, then) \in Jobs
BY DEF Saves, Jobs, Places

\* Every variable keeps its type in every step of a caller.
LEMMA BeginType == ASSUME TypeOK, NEW c \in Callers, Begin(c) PROVE TypeOK'
<1>1. scope' \in Scope
    <2> DEFINE e == IF scope.evals[c] = NoEnd THEN scope.evals[c] ELSE scope.evals[c] - 1
    <2>1. scope.evals \in [Callers -> Nat \cup {NoEnd}] /\ scope.evals[c] # 0
        BY DEF TypeOK, Begin, Scope
    <2>2. e \in Nat \cup {NoEnd}
        BY <2>1 DEF NoEnd
    <2>3. [scope.evals EXCEPT ![c] = e] \in [Callers -> Nat \cup {NoEnd}]
        BY <2>1, <2>2
    <2>4. scope' = [scope EXCEPT !.evals = [scope.evals EXCEPT ![c] = e]]
        BY DEF TypeOK, Begin, Scope
    <2> QED BY <2>3, <2>4 DEF TypeOK, Scope
<1>2. job' \in [Callers -> Jobs]
    <2> DEFINE j(at) == [Idle EXCEPT !.at = at, !.now = clock,
                                     !.todo = IF at = "sweep" THEN scope.rules ELSE {}]
    <2>1. PICK at \in Entries[c] : Becomes(c, j(at))
        BY DEF Begin
    <2>2. at \in Places
        BY DEF Entries, Callers, Places
    <2>3. j(at) \in Jobs
        BY <2>2, BlankType DEF TypeOK, Jobs, Scope
    <2> HIDE DEF j
    <2> QED BY <2>1, <2>3, BecomesType
<1> QED BY <1>1, <1>2 DEF TypeOK, Begin, Jobs

LEMMA SweepType == ASSUME TypeOK, NEW c \in Callers, Sweep(c) PROVE TypeOK'
<1> DEFINE due == Due(mem, job[c].now)
<1>1. due \subseteq Alerts
    BY DEF TypeOK, Due, Snapshots
<1>2. mem' \in Snapshots
    BY <1>1 DEF TypeOK, Sweep, Escalated, Snapshots
<1>3. job[c] \in Jobs
    BY DEF TypeOK, Jobs
<1>4. job' \in [Callers -> Jobs]
    <2>1. CASE due = {}
        BY <1>3, <2>1 DEF TypeOK, Sweep, Becomes, Jobs, Places
    <2>2. CASE due # {}
        BY <1>1, <1>2, <1>3, <2>2 DEF TypeOK, Sweep, Becomes, Saves, Jobs, Places
    <2> QED BY <2>1, <2>2
<1> QED BY <1>2, <1>4 DEF TypeOK, Sweep, Jobs

LEMMA ObserveType ==
    ASSUME TypeOK, NEW c \in Callers, NEW r \in Rules, NEW n \in Counts, Observe(c, r, n)
    PROVE  TypeOK'
<1> DEFINE j == job[c]
           w == [mem.win[r] EXCEPT ![j.now] = @ + n]
           fires == Reached(r, w, j.now) /\ ~ Recent(mem.fire[r], j.now, Window)
           next == [j EXCEPT !.todo = @ \ {r}]
<1>1. j \in Jobs /\ next \in Jobs /\ n \in Nat
    BY ReactionAssumption DEF TypeOK, Jobs
<1>2. CASE n = 0
    <2>1. job' = [job EXCEPT ![c] = next] /\ UNCHANGED <<mem, stored, pending, clock, scope, hist>>
        BY <1>1, <1>2 DEF Observe, Becomes
    <2>2. job' \in [Callers -> Jobs]
        <3> HIDE DEF next
        <3> QED BY <1>1, <2>1 DEF TypeOK, Jobs
    <2> QED BY <2>1, <2>2 DEF TypeOK, Jobs
<1>3. CASE n > 0
    <2>1. Kept(w, j.now) \in [Times -> Nat]
        BY <1>1, KeptType DEF TypeOK, Snapshots, Jobs
    <2>2. Expiry(j.now) \in Window .. MaxTime + Window
        BY <1>1, ReactionAssumption DEF Expiry, Jobs, Times
    <2>3. mem' \in Snapshots
        <3>1. mem' = [mem EXCEPT !.win[r] = Kept(w, j.now),
                                 !.fire[r] = IF fires THEN j.now ELSE @,
                                 !.active[r] = IF fires THEN Expiry(j.now) ELSE @]
            BY <1>3 DEF Observe
        <3>2. j.now \in Times
            BY <1>1 DEF Jobs
        <3>3. Expiry(j.now) \in {NoTime} \cup (Window .. MaxTime + Window)
            BY <2>2
        <3> DEFINE k == Kept(w, j.now)
                   f == IF fires THEN j.now ELSE mem.fire[r]
                   a == IF fires THEN Expiry(j.now) ELSE mem.active[r]
        <3>4. /\ k \in [Times -> Nat] /\ f \in Times \cup {NoTime}
              /\ a \in {NoTime} \cup (Window .. MaxTime + Window)
            <4> HIDE DEF fires, w, j
            <4> QED BY <2>1, <3>2, <3>3 DEF TypeOK, Snapshots
        <3>5. mem' = [mem EXCEPT !.win = [mem.win EXCEPT ![r] = k],
                                 !.fire = [mem.fire EXCEPT ![r] = f],
                                 !.active = [mem.active EXCEPT ![r] = a]]
            <4> HIDE DEF fires, w, j
            <4> QED BY <3>1 DEF TypeOK, Snapshots
        <3> HIDE DEF k, f, a
        <3> QED BY <3>4, <3>5 DEF TypeOK, Snapshots
    <2>4. job' \in [Callers -> Jobs]
        <3> DEFINE then == IF fires THEN "emit" ELSE "observe"
                   rule == IF fires THEN {r} ELSE {}
                   saves == Saves(next, mem', then)
                   goes == [saves EXCEPT !.rule = rule]
        <3>1. then \in Places /\ rule \in SUBSET Rules
            <4> HIDE DEF fires
            <4> QED BY DEF Places
        <3>2. saves \in Jobs
            <4> HIDE DEF next, then
            <4> QED BY <1>1, <2>3, <3>1, SavesType
        <3>3. Becomes(c, goes)
            BY <1>3 DEF Observe
        <3>4. goes \in Jobs
            <4> HIDE DEF saves, rule
            <4> QED BY <3>1, <3>2 DEF Jobs
        <3> HIDE DEF goes
        <3> QED BY <3>3, <3>4, BecomesType
    <2>5. scope' \in Scope
        BY <1>3, UsesType DEF TypeOK, Observe
    <2>6. hist' \in [obs : [Rules -> [Times -> Nat]], tried : SUBSET Alerts, esc : SUBSET Alerts]
        <3> DEFINE seen == [hist.obs[r] EXCEPT ![j.now] = hist.obs[r][j.now] + n]
                   obs  == [hist.obs EXCEPT ![r] = seen]
        <3>1. hist' = [hist EXCEPT !.obs[r][j.now] = @ + n]
            BY <1>3 DEF Observe
        <3>2. j.now \in Times /\ hist.obs \in [Rules -> [Times -> Nat]]
            BY <1>1 DEF Jobs, TypeOK
        <3> HIDE DEF j
        <3>3. hist' = [hist EXCEPT !.obs = obs]
            BY <3>1
        <3>4. seen \in [Times -> Nat]
            BY <1>1, <3>2
        <3> HIDE DEF seen
        <3>5. obs \in [Rules -> [Times -> Nat]]
            BY <3>2, <3>4
        <3> HIDE DEF obs
        <3> QED BY <3>3, <3>5 DEF TypeOK
    <2> QED BY <1>3, <2>3, <2>4, <2>5, <2>6 DEF TypeOK, Observe, Jobs
<1> QED BY <1>1, <1>2, <1>3

LEMMA EmitType == ASSUME TypeOK, NEW c \in Callers, Emit(c) PROVE TypeOK'
<1>1. job[c] \in Jobs
    BY DEF TypeOK, Jobs
<1>2. PICK r \in job[c].rule :
          IF Recent(LastResponse(r), job[c].now, Dedupe)
          THEN Becomes(c, [job[c] EXCEPT !.at = "observe", !.rule = {}]) /\ UNCHANGED mem
          ELSE /\ mem' = [mem EXCEPT !.resp[r] = job[c].now,
                                     !.alerts = @ \cup {<<r, job[c].now>>},
                                     !.escalated = @ \ {<<r, job[c].now>>}]
               /\ Becomes(c, Saves(job[c], mem', "tell"))
    BY DEF Emit
<1>3. r \in Rules /\ <<r, job[c].now>> \in Alerts
    BY <1>1 DEF Jobs, Alerts
<1>4. mem' \in Snapshots
    <2>1. CASE Recent(LastResponse(r), job[c].now, Dedupe)
        BY <1>2, <2>1 DEF TypeOK
    <2>2. CASE ~ Recent(LastResponse(r), job[c].now, Dedupe)
        <3> DEFINE resp == [mem.resp EXCEPT ![r] = job[c].now]
        <3>1. mem' = [mem EXCEPT !.resp = resp, !.alerts = @ \cup {<<r, job[c].now>>},
                                 !.escalated = @ \ {<<r, job[c].now>>}]
            BY <1>2, <2>2
        <3>2. resp \in [Rules -> Times \cup {NoTime}]
            BY <1>1, <1>3 DEF TypeOK, Snapshots, Jobs
        <3> HIDE DEF resp
        <3> QED BY <1>3, <3>1, <3>2 DEF TypeOK, Snapshots
    <2> QED BY <2>1, <2>2
<1>5. job' \in [Callers -> Jobs]
    <2> DEFINE quiet == [job[c] EXCEPT !.at = "observe", !.rule = {}]
    <2>1. quiet \in Jobs
        BY <1>1 DEF Jobs, Places
    <2>2. Saves(job[c], mem', "tell") \in Jobs
        BY <1>1, <1>4, SavesType DEF Places
    <2> QED BY <1>2, <2>1, <2>2, BecomesType
<1> QED BY <1>4, <1>5 DEF TypeOK, Emit, Jobs

LEMMA ReadType == ASSUME TypeOK, NEW c \in Callers, Read(c) PROVE TypeOK'
<1>1. mem' \in Snapshots
    BY DEF TypeOK, Read, Snapshots, NoTime
<1>2. job' \in [Callers -> Jobs]
    BY BlankType DEF TypeOK, Read, Becomes, Jobs
<1> QED BY <1>1, <1>2 DEF TypeOK, Read, Jobs

LEMMA FinishType == ASSUME TypeOK, NEW c \in Callers, Finish(c) PROVE TypeOK'
<1>1. job[c] \in Jobs
    BY DEF TypeOK, Jobs
<1>2. [job[c] EXCEPT !.at = "read"] \in Jobs
    BY <1>1 DEF Jobs, Places
<1>3. job' \in [Callers -> Jobs]
    BY <1>2, BlankType, BecomesType DEF Finish
<1> QED BY <1>3 DEF TypeOK, Finish, Jobs

\* persistSnapshot writes a copy of the right type, or none.
LEMMA PersistType ==
    ASSUME TypeOK, NEW m \in Snapshots, Persist(m)
    PROVE  stored' \in Snapshots /\ scope' \in Scope
BY UsesType DEF TypeOK, Persist

LEMMA SaveType == ASSUME TypeOK, NEW c \in Callers, Save(c) PROVE TypeOK'
<1>1. job[c] \in Jobs
    BY DEF TypeOK, Jobs
<1>2. stored' \in Snapshots /\ scope' \in Scope
    BY <1>1, PersistType DEF Save, Jobs
<1>3. job' \in [Callers -> Jobs]
    BY <1>1, BlankType DEF TypeOK, Save, Becomes, Jobs, Places
<1> QED BY <1>2, <1>3 DEF TypeOK, Save, Jobs

LEMMA SaveLateType == ASSUME TypeOK, SaveLate PROVE TypeOK'
BY PersistType DEF TypeOK, SaveLate

LEMMA TellType == ASSUME TypeOK, NEW c \in Callers, Tell(c) PROVE TypeOK'
<1>1. job[c] \in Jobs
    BY DEF TypeOK, Jobs
<1>2. {<<r, job[c].now>> : r \in job[c].rule} \subseteq Alerts
    BY <1>1 DEF Jobs, Alerts
<1>3. job' \in [Callers -> Jobs]
    BY <1>1 DEF TypeOK, Tell, Becomes, Jobs, Places
<1> QED BY <1>2, <1>3 DEF TypeOK, Tell, Jobs

LEMMA NotifiedType == ASSUME TypeOK, NEW c \in Callers, Notified(c) PROVE TypeOK'
<1>1. [job[c] EXCEPT !.at = "observe"] \in Jobs
    BY DEF TypeOK, Jobs, Places
<1>2. job' \in [Callers -> Jobs]
    BY <1>1, BecomesType DEF Notified
<1> QED BY <1>2 DEF TypeOK, Notified, Jobs

LEMMA EscalateType == ASSUME TypeOK, NEW c \in Callers, Escalate(c) PROVE TypeOK'
<1>1. job[c] \in Jobs
    BY DEF TypeOK, Jobs
<1>2. job' \in [Callers -> Jobs]
    BY <1>1 DEF TypeOK, Escalate, Becomes, Jobs, Places
<1> QED BY <1>1, <1>2 DEF TypeOK, Escalate, Jobs

LEMMA RestartType == ASSUME TypeOK, Restart PROVE TypeOK'
<1>1. scope.restarts - 1 \in 0 .. MaxRestarts
    BY ReactionAssumption DEF TypeOK, Restart, Scope
<1>2. scope.failures > 0 => scope.failures - 1 \in Nat
    BY DEF TypeOK, Scope
<1>3. scope' \in Scope
    BY <1>1, <1>2 DEF TypeOK, Restart, Scope
<1> QED BY <1>3, BlankType DEF TypeOK, Restart, Loaded, Jobs

LEMMA TickType == ASSUME TypeOK, Tick PROVE TypeOK'
BY ReactionAssumption DEF TypeOK, Tick, Times

LEMMA InitType == ASSUME Init PROVE TypeOK
BY BlankType, ReactionAssumption DEF Init, TypeOK, Jobs, Times, Snapshots, Blank

LEMMA TypeStep == ASSUME TypeOK, [Next]_vars PROVE TypeOK'
<1>1. CASE \E c \in Callers : Begin(c)
    BY <1>1, BeginType
<1>2. CASE \E c \in Callers : Step(c)
    <2>1. PICK c \in Callers : Step(c)
        BY <1>2
    <2> QED BY <2>1, SweepType, EmitType, FinishType, ReadType, SaveType, TellType, NotifiedType,
               EscalateType, ObserveType DEF Step, Runs
<1>3. CASE SaveLate \/ Restart \/ Tick
    BY <1>3, SaveLateType, RestartType, TickType
<1>4. CASE UNCHANGED vars
    BY <1>4 DEF TypeOK, vars
<1> QED BY <1>1, <1>2, <1>3, <1>4 DEF Next

\* TypeOK holds for all rules, windows, observations, failed saves and restarts
\* (runtime_reaction.go as a whole).
THEOREM ReactionTypeCorrect == Spec => []TypeOK
BY InitType, TypeStep, PTL DEF Spec

-----------------------------------------------------------------------------
(* What steps do to jobs and maps.                                         *)

\* A step of c: of the others nothing changes, it works on one rule at a time, a copy is
\* made of the maps as they are; only Emit makes it tell and only Sweep marks alerts.
Goes(c) ==
    /\ \A d \in Callers \ {c} : job'[d] = job[d]
    /\ job'[c].now \in {job[c].now, clock, 0}
    /\ job'[c].snap \in {job[c].snap, Blank, mem'}
    /\ job'[c].rule \subseteq job[c].rule \/ \E r \in Rules : job'[c].rule = {r}
    /\ Emit(c) \/ (/\ Telling(c)' /\ job'[c].rule # {}
                   => Telling(c) /\ job'[c].rule \subseteq job[c].rule /\ job'[c].now = job[c].now)
    /\ Sweep(c) \/ job'[c].due \subseteq job[c].due

\* The job that c goes on with is what Goes says.
LEMMA BecomesGoes ==
    ASSUME TypeOK, NEW c \in Callers, NEW j \in Jobs, Becomes(c, j),
           j.now \in {job[c].now, clock, 0}, j.snap \in {job[c].snap, Blank, mem'},
           j.rule \subseteq job[c].rule \/ \E r \in Rules : j.rule = {r},
           \/ Emit(c)
           \/ j.rule = {}
           \/ "tell" \notin {j.at, j.then}
           \/ Telling(c) /\ j.rule \subseteq job[c].rule /\ j.now = job[c].now,
           Sweep(c) \/ j.due \subseteq job[c].due
    PROVE  Goes(c)
<1>1. job'[c] = j /\ \A d \in Callers \ {c} : job'[d] = job[d]
    BY DEF TypeOK, Becomes
<1> QED BY <1>1 DEF Goes, Telling

LEMMA BeginGoes == ASSUME TypeOK, NEW c \in Callers, Begin(c) PROVE Goes(c)
<1> DEFINE j(at) == [Idle EXCEPT !.at = at, !.now = clock,
                                 !.todo = IF at = "sweep" THEN scope.rules ELSE {}]
<1>1. PICK at \in Entries[c] : Becomes(c, j(at))
    BY DEF Begin
<1>2. at \in Places
    BY DEF Entries, Callers, Places
<1>3. /\ j(at) \in Jobs /\ j(at).now = clock /\ j(at).snap = Blank
      /\ j(at).rule = {} /\ j(at).due = {}
    BY <1>2, BlankType DEF TypeOK, Jobs, Idle, Scope
<1> HIDE DEF j
<1> QED BY <1>1, <1>3, BecomesGoes

LEMMA SweepGoes == ASSUME TypeOK, NEW c \in Callers, Sweep(c) PROVE Goes(c)
<1> DEFINE due == Due(mem, job[c].now)
           quiet == [job[c] EXCEPT !.at = "observe"]
           marks == [Saves(job[c], mem', "escalate") EXCEPT !.due = due]
<1>1. job[c] \in Jobs /\ mem' \in Snapshots
    BY SweepType DEF TypeOK, Jobs
<1>2. CASE due = {}
    <2>1. Becomes(c, quiet)
        BY <1>2 DEF Sweep
    <2>2. quiet \in Jobs
        BY <1>1 DEF Jobs, Places
    <2>3. /\ quiet.now = job[c].now /\ quiet.snap = job[c].snap /\ quiet.rule = job[c].rule
          /\ quiet.due = job[c].due /\ quiet.at = "observe" /\ quiet.then = job[c].then
        BY <1>1 DEF Jobs
    <2> HIDE DEF quiet
    <2> QED BY <2>1, <2>2, <2>3, BecomesGoes DEF Telling
<1>3. CASE due # {}
    <2>1. Becomes(c, marks)
        BY <1>3 DEF Sweep
    <2>2. marks \in Jobs
        <3>1. due \subseteq Alerts
            BY DEF TypeOK, Due, Snapshots
        <3> HIDE DEF due
        <3> QED BY <1>1, <3>1 DEF Saves, Jobs, Places
    <2>3. /\ marks.now = job[c].now /\ marks.snap = mem' /\ marks.rule = job[c].rule
          /\ marks.at = "save" /\ marks.then = "escalate"
        BY <1>1 DEF Jobs, Saves
    <2> HIDE DEF marks
    <2> QED BY <2>1, <2>2, <2>3, BecomesGoes
<1> QED BY <1>2, <1>3

LEMMA ObserveGoes ==
    ASSUME TypeOK, NEW c \in Callers, NEW r \in Rules, NEW n \in Counts, Observe(c, r, n)
    PROVE  Goes(c)
<1> DEFINE j == job[c]
           w == [mem.win[r] EXCEPT ![j.now] = @ + n]
           fires == Reached(r, w, j.now) /\ ~ Recent(mem.fire[r], j.now, Window)
           next == [j EXCEPT !.todo = @ \ {r}]
           goes == [Saves(next, mem', IF fires THEN "emit" ELSE "observe") EXCEPT
                        !.rule = IF fires THEN {r} ELSE {}]
<1>1. j \in Jobs /\ job' \in [Callers -> Jobs] /\ job \in [Callers -> Jobs]
    BY ObserveType DEF TypeOK, Jobs
<1>2. CASE n = 0
    <2>1. Becomes(c, next)
        BY <1>2, ReactionAssumption DEF Observe
    <2>2. /\ next \in Jobs /\ next.now = j.now /\ next.snap = j.snap /\ next.rule = j.rule
          /\ next.due = j.due /\ next.at = "observe" /\ next.then = j.then
        BY <1>1 DEF Jobs, Observe
    <2> HIDE DEF next
    <2> QED BY <2>1, <2>2, BecomesGoes DEF Telling
<1>3. CASE n # 0
    <2>1. Becomes(c, goes)
        BY <1>3 DEF Observe
    <2>2. goes \in Jobs
        BY <1>1, <2>1 DEF Becomes
    <2>3. /\ goes.now = j.now /\ goes.snap = mem' /\ goes.rule = (IF fires THEN {r} ELSE {})
          /\ goes.due = j.due /\ goes.at = "save" /\ goes.then \in {"emit", "observe"}
        <3> HIDE DEF fires
        <3> QED BY <1>1 DEF Saves, Jobs
    <2> HIDE DEF goes, fires
    <2> QED BY <2>1, <2>2, <2>3, BecomesGoes
<1> QED BY <1>2, <1>3

\* What Emit does if the alert is deduplicated, and if it is not.
LEMMA EmitShape ==
    ASSUME TypeOK, NEW c \in Callers, Emit(c)
    PROVE  \/ Becomes(c, [job[c] EXCEPT !.at = "observe", !.rule = {}]) /\ UNCHANGED mem
           \/ \E r \in job[c].rule :
                 /\ ~ Recent(mem.resp[r], job[c].now, Dedupe)
                 /\ mem' = [mem EXCEPT !.resp[r] = job[c].now,
                                       !.alerts = @ \cup {<<r, job[c].now>>},
                                       !.escalated = @ \ {<<r, job[c].now>>}]
                 /\ Becomes(c, Saves(job[c], mem', "tell"))
BY DEF Emit, LastResponse

LEMMA EmitGoes == ASSUME TypeOK, NEW c \in Callers, Emit(c) PROVE Goes(c)
<1> DEFINE quiet == [job[c] EXCEPT !.at = "observe", !.rule = {}]
           tells == Saves(job[c], mem', "tell")
<1>1. job[c] \in Jobs /\ mem' \in Snapshots
    BY EmitType DEF TypeOK, Jobs
<1>2. Becomes(c, quiet) \/ Becomes(c, tells)
    BY EmitShape
<1>3. /\ quiet \in Jobs /\ quiet.now = job[c].now /\ quiet.snap = job[c].snap
      /\ quiet.rule = {} /\ quiet.due = job[c].due
    BY <1>1 DEF Jobs, Places
<1>4. /\ tells \in Jobs /\ tells.now = job[c].now /\ tells.snap = mem'
      /\ tells.rule = job[c].rule /\ tells.due = job[c].due
    BY <1>1 DEF Jobs, Places, Saves
<1> HIDE DEF quiet, tells
<1> QED BY <1>2, <1>3, <1>4, BecomesGoes

LEMMA FinishGoes == ASSUME TypeOK, NEW c \in Callers, Finish(c) PROVE Goes(c)
<1> DEFINE reads == [job[c] EXCEPT !.at = "read"]
<1>1. job[c] \in Jobs
    BY DEF TypeOK, Jobs
<1>2. /\ reads \in Jobs /\ reads.now = job[c].now /\ reads.snap = job[c].snap
      /\ reads.rule = job[c].rule /\ reads.due = job[c].due /\ reads.at = "read"
      /\ reads.then = job[c].then
    BY <1>1 DEF Jobs, Places
<1>3. Becomes(c, reads) \/ Becomes(c, Idle)
    BY DEF Finish
<1>4. Idle.now = 0 /\ Idle.snap = Blank /\ Idle.rule = {} /\ Idle.due = {}
    BY DEF Idle
<1> HIDE DEF reads
<1> QED BY <1>2, <1>3, <1>4, BlankType, BecomesGoes DEF Telling

LEMMA ReadGoes == ASSUME TypeOK, NEW c \in Callers, Read(c) PROVE Goes(c)
<1>1. Idle.now = 0 /\ Idle.snap = Blank /\ Idle.rule = {} /\ Idle.due = {}
    BY DEF Idle
<1> QED BY <1>1, BlankType, BecomesGoes DEF Read

LEMMA SaveGoes == ASSUME TypeOK, NEW c \in Callers, Save(c) PROVE Goes(c)
<1> DEFINE saved == [job[c] EXCEPT !.at = job[c].then, !.then = "idle", !.snap = Blank]
<1>1. job[c] \in Jobs
    BY DEF TypeOK, Jobs
<1>2. /\ saved \in Jobs /\ saved.now = job[c].now /\ saved.snap = Blank
      /\ saved.rule = job[c].rule /\ saved.due = job[c].due /\ saved.at = job[c].then
      /\ saved.then = "idle"
    BY <1>1, BlankType DEF Jobs, Places
<1>3. Becomes(c, saved)
    BY DEF Save
<1> HIDE DEF saved
<1> QED BY <1>2, <1>3, BecomesGoes DEF Telling

LEMMA TellGoes == ASSUME TypeOK, NEW c \in Callers, Tell(c) PROVE Goes(c)
<1> DEFINE told == [job[c] EXCEPT !.at = "notify", !.rule = {}]
<1>1. job[c] \in Jobs
    BY DEF TypeOK, Jobs
<1>2. /\ told \in Jobs /\ told.now = job[c].now /\ told.snap = job[c].snap
      /\ told.rule = {} /\ told.due = job[c].due
    BY <1>1 DEF Jobs, Places
<1>3. Becomes(c, told)
    BY DEF Tell
<1> HIDE DEF told
<1> QED BY <1>2, <1>3, BecomesGoes

LEMMA NotifiedGoes == ASSUME TypeOK, NEW c \in Callers, Notified(c) PROVE Goes(c)
<1> DEFINE done == [job[c] EXCEPT !.at = "observe"]
<1>1. job[c] \in Jobs
    BY DEF TypeOK, Jobs
<1>2. /\ done \in Jobs /\ done.now = job[c].now /\ done.snap = job[c].snap
      /\ done.rule = job[c].rule /\ done.due = job[c].due /\ done.at = "observe"
      /\ done.then = job[c].then
    BY <1>1 DEF Jobs, Places
<1>3. Becomes(c, done)
    BY DEF Notified
<1> HIDE DEF done
<1> QED BY <1>2, <1>3, BecomesGoes DEF Telling

LEMMA EscalateGoes == ASSUME TypeOK, NEW c \in Callers, Escalate(c) PROVE Goes(c)
<1> DEFINE done == [job[c] EXCEPT !.at = "observe", !.due = {}]
<1>1. job[c] \in Jobs
    BY DEF TypeOK, Jobs
<1>2. /\ done \in Jobs /\ done.now = job[c].now /\ done.snap = job[c].snap
      /\ done.rule = job[c].rule /\ done.due = {} /\ done.at = "observe"
      /\ done.then = job[c].then
    BY <1>1 DEF Jobs, Places
<1>3. Becomes(c, done)
    BY DEF Escalate
<1> HIDE DEF done
<1> QED BY <1>2, <1>3, BecomesGoes DEF Telling

LEMMA CallerGoes ==
    ASSUME TypeOK, NEW c \in Callers, Begin(c) \/ Step(c) PROVE Goes(c)
BY BeginGoes, SweepGoes, ObserveGoes, EmitGoes, FinishGoes, ReadGoes, SaveGoes, TellGoes,
   NotifiedGoes, EscalateGoes DEF Step, Runs

\* Time passes between the steps of callers only.
LEMMA CallerClock == ASSUME NEW c \in Callers, Begin(c) \/ Step(c) PROVE clock' = clock
BY DEF Begin, Step, Runs, Sweep, Observe, Emit, Finish, Read, Save, Tell, Notified,
       Escalate

\* The deduplication and the escalation state that a step leaves alone.
AnswersKept == mem'.resp = mem.resp /\ mem'.alerts = mem.alerts /\ mem'.escalated = mem.escalated

\* What observeDetection does to the maps of a rule.
LEMMA ObserveMem ==
    ASSUME TypeOK, NEW c \in Callers, NEW r \in Rules, NEW n \in Counts, Observe(c, r, n)
    PROVE  /\ AnswersKept
           /\ \A s \in Rules \ {r} : mem'.fire[s] = mem.fire[s] /\ mem'.active[s] = mem.active[s]
           /\ \/ mem'.fire[r] = mem.fire[r] /\ mem'.active[r] = mem.active[r]
              \/ mem'.fire[r] = job[c].now /\ mem'.active[r] = job[c].now + Window
<1> DEFINE j == job[c]
           w == [mem.win[r] EXCEPT ![j.now] = @ + n]
           fires == Reached(r, w, j.now) /\ ~ Recent(mem.fire[r], j.now, Window)
<1>1. CASE UNCHANGED mem
    BY <1>1 DEF AnswersKept
<1>2. CASE mem' = [mem EXCEPT !.win[r] = Kept(w, j.now),
                              !.fire[r] = IF fires THEN j.now ELSE @,
                              !.active[r] = IF fires THEN Expiry(j.now) ELSE @]
    <2> DEFINE k == Kept(w, j.now)
               f == IF fires THEN j.now ELSE mem.fire[r]
               a == IF fires THEN Expiry(j.now) ELSE mem.active[r]
    <2> HIDE DEF fires, w
    <2>1. mem' = [mem EXCEPT !.win = [mem.win EXCEPT ![r] = k],
                             !.fire = [mem.fire EXCEPT ![r] = f],
                             !.active = [mem.active EXCEPT ![r] = a]]
        BY <1>2 DEF TypeOK, Snapshots
    <2>2. \/ f = mem.fire[r] /\ a = mem.active[r]
          \/ f = job[c].now /\ a = job[c].now + Window
        BY DEF Expiry
    <2> HIDE DEF k, f, a
    <2>3. AnswersKept
        BY <2>1 DEF TypeOK, Snapshots, AnswersKept
    <2>4. mem'.fire = [mem.fire EXCEPT ![r] = f] /\ mem'.active = [mem.active EXCEPT ![r] = a]
        BY <2>1 DEF TypeOK, Snapshots
    <2>5. mem.fire \in [Rules -> Times \cup {NoTime}] /\ DOMAIN mem.active = Rules
        BY DEF TypeOK, Snapshots
    <2> QED BY <2>2, <2>3, <2>4, <2>5
<1> QED BY <1>1, <1>2 DEF Observe

\* What emitAlert does to the maps: nothing, or an alert of a rule that is later than all.
LEMMA EmitMem ==
    ASSUME TypeOK, AlertsAnswered(mem), NEW c \in Callers, Emit(c)
    PROVE  \/ UNCHANGED mem /\ job'[c].rule = {}
           \/ \E r \in job[c].rule :
                 /\ mem'.fire = mem.fire /\ mem'.active = mem.active
                 /\ mem'.resp = [mem.resp EXCEPT ![r] = job[c].now]
                 /\ mem'.alerts = mem.alerts \cup {<<r, job[c].now>>}
                 /\ mem'.escalated = mem.escalated
                 /\ job'[c].rule = job[c].rule
                 /\ \A t \in Times : t <= mem.resp[r] => t + Dedupe <= job[c].now
<1>1. job[c] \in Jobs
    BY DEF TypeOK, Jobs
<1>2. CASE Becomes(c, [job[c] EXCEPT !.at = "observe", !.rule = {}]) /\ UNCHANGED mem
    BY <1>1, <1>2 DEF TypeOK, Becomes, Jobs
<1>3. CASE \E r \in job[c].rule :
                 /\ ~ Recent(mem.resp[r], job[c].now, Dedupe)
                 /\ mem' = [mem EXCEPT !.resp[r] = job[c].now,
                                       !.alerts = @ \cup {<<r, job[c].now>>},
                                       !.escalated = @ \ {<<r, job[c].now>>}]
                 /\ Becomes(c, Saves(job[c], mem', "tell"))
    <2>1. PICK r \in job[c].rule :
                 /\ ~ Recent(mem.resp[r], job[c].now, Dedupe)
                 /\ mem' = [mem EXCEPT !.resp[r] = job[c].now,
                                       !.alerts = @ \cup {<<r, job[c].now>>},
                                       !.escalated = @ \ {<<r, job[c].now>>}]
                 /\ Becomes(c, Saves(job[c], mem', "tell"))
        BY <1>3
    <2>2. r \in Rules /\ job[c].now \in Times /\ mem.resp[r] \in Times \cup {NoTime}
        BY <1>1 DEF TypeOK, Snapshots, Jobs
    <2>3. \A t \in Times : t <= mem.resp[r] => t + Dedupe <= job[c].now
        BY <2>1, <2>2, ReactionAssumption DEF Recent, Times, NoTime
    <2>4. <<r, job[c].now>> \notin mem.escalated
        <3>1. ASSUME <<r, job[c].now>> \in mem.alerts PROVE FALSE
            <4>1. job[c].now <= mem.resp[r]
                BY <3>1 DEF AlertsAnswered
            <4> QED BY <2>2, <2>3, <4>1, ReactionAssumption DEF Times
        <3> QED BY <3>1 DEF AlertsAnswered
    <2>5. job'[c].rule = job[c].rule
        BY <1>1, <2>1 DEF TypeOK, Becomes, Saves, Jobs
    <2>6. /\ mem'.fire = mem.fire /\ mem'.active = mem.active
          /\ mem'.resp = [mem.resp EXCEPT ![r] = job[c].now]
          /\ mem'.alerts = mem.alerts \cup {<<r, job[c].now>>}
          /\ mem'.escalated = mem.escalated \ {<<r, job[c].now>>}
        BY <2>1 DEF TypeOK, Snapshots
    <2> QED BY <2>3, <2>4, <2>5, <2>6
<1> QED BY <1>2, <1>3, EmitShape

\* What the sweep does to the maps: it marks alerts that were not.
LEMMA SweepMem ==
    ASSUME TypeOK, NEW c \in Callers, Sweep(c)
    PROVE  \E due \in SUBSET (mem.alerts \ mem.escalated) :
              /\ mem' = [mem EXCEPT !.escalated = mem.escalated \cup due]
              /\ \/ job'[c].due = due
                 \/ due = {} /\ job'[c].due = job[c].due
<1> DEFINE due == Due(mem, job[c].now)
<1>1. job[c] \in Jobs
    BY DEF TypeOK, Jobs
<1>2. due \in SUBSET (mem.alerts \ mem.escalated)
    BY DEF Due
<1>3. mem' = [mem EXCEPT !.escalated = mem.escalated \cup due]
    BY DEF Sweep, Escalated
<1>4. CASE due = {}
    BY <1>1, <1>2, <1>3, <1>4 DEF TypeOK, Sweep, Becomes, Jobs
<1>5. CASE due # {}
    <2>1. Becomes(c, [Saves(job[c], mem', "escalate") EXCEPT !.due = due])
        BY <1>5 DEF Sweep
    <2>2. job'[c].due = due
        <3> HIDE DEF due
        <3> QED BY <1>1, <2>1 DEF TypeOK, Becomes, Saves, Jobs
    <2> QED BY <1>2, <1>3, <2>2
<1> QED BY <1>4, <1>5

-----------------------------------------------------------------------------
(* Detections: every copy is sound.                                        *)

\* What is sound stays so as time goes on.
LEMMA SoundLater ==
    ASSUME TypeOK, TypeOK', clock <= clock', NEW m \in Snapshots, Sound(m)
    PROVE  Sound(m)'
<1>1. clock \in Int /\ clock' \in Int /\ \A r \in Rules : m.fire[r] \in Int /\ Window \in Int
    BY ReactionAssumption DEF TypeOK, Times, Snapshots, NoTime
<1> QED BY <1>1 DEF Sound, QuietWhileActive, AlertsAnswered

\* A lock section of a caller leaves sound maps.
LEMMA MemSound ==
    ASSUME TypeOK, TypeOK', Sound(mem), JobsSound, NEW c \in Callers, Begin(c) \/ Step(c)
    PROVE  Sound(mem)'
<1>1. /\ job[c] \in Jobs /\ job[c].now \in Times /\ job[c].now <= clock /\ clock \in Times
      /\ mem \in Snapshots /\ Window \in Nat
    BY ReactionAssumption DEF TypeOK, Jobs, JobsSound
<1>2. clock' = clock
    BY CallerClock
<1>3. CASE UNCHANGED mem
    BY <1>2, <1>3 DEF Sound, QuietWhileActive, AlertsAnswered
<1>4. CASE \E r \in Rules, n \in Counts : Observe(c, r, n)
    <2>1. PICK r \in Rules, n \in Counts : Observe(c, r, n)
        BY <1>4
    <2>2. QuietWhileActive(mem)'
        BY <1>2, <2>1, ObserveMem DEF Sound, QuietWhileActive
    <2>3. AlertsAnswered(mem)'
        BY <2>1, ObserveMem DEF Sound, AlertsAnswered, AnswersKept
    <2> QED BY <2>2, <2>3 DEF Sound
<1>5. CASE Read(c)
    <2>1. mem' = [mem EXCEPT !.active =
                     [r \in Rules |-> IF Over(mem.active[r], job[c].now) THEN NoTime ELSE mem.active[r]]]
        BY <1>5 DEF Read
    <2>2. /\ mem'.fire = mem.fire /\ AnswersKept
          /\ \A r \in Rules : ~ Over(mem.active[r], job[c].now) => mem'.active[r] = mem.active[r]
        BY <1>1, <2>1 DEF Snapshots, AnswersKept
    <2>3. ASSUME NEW r \in Rules, mem.fire[r] # NoTime, clock < mem.fire[r] + Window
          PROVE  mem'.active[r] = mem.fire[r] + Window
        <3>1. mem.active[r] = mem.fire[r] + Window /\ mem.fire[r] \in Times
            BY <1>1, <2>3 DEF Sound, QuietWhileActive, Snapshots
        <3>2. ~ Over(mem.active[r], job[c].now)
            BY <1>1, <2>3, <3>1, ReactionAssumption DEF Over, Times
        <3> QED BY <2>2, <3>1, <3>2
    <2>4. QuietWhileActive(mem)'
        BY <1>2, <2>2, <2>3 DEF QuietWhileActive
    <2>5. AlertsAnswered(mem)'
        BY <2>2 DEF Sound, AlertsAnswered, AnswersKept
    <2> QED BY <2>4, <2>5 DEF Sound
<1>6. CASE Emit(c)
    <2>1. CASE \E r \in job[c].rule :
                 /\ mem'.fire = mem.fire /\ mem'.active = mem.active
                 /\ mem'.resp = [mem.resp EXCEPT ![r] = job[c].now]
                 /\ mem'.alerts = mem.alerts \cup {<<r, job[c].now>>}
                 /\ mem'.escalated = mem.escalated
                 /\ \A t \in Times : t <= mem.resp[r] => t + Dedupe <= job[c].now
        <3>1. PICK r \in job[c].rule :
                 /\ mem'.fire = mem.fire /\ mem'.active = mem.active
                 /\ mem'.resp = [mem.resp EXCEPT ![r] = job[c].now]
                 /\ mem'.alerts = mem.alerts \cup {<<r, job[c].now>>}
                 /\ mem'.escalated = mem.escalated
                 /\ \A t \in Times : t <= mem.resp[r] => t + Dedupe <= job[c].now
            BY <2>1
        <3>2. r \in Rules /\ mem.resp \in [Rules -> Times \cup {NoTime}] /\ mem.alerts \subseteq Alerts
            BY <1>1 DEF Jobs, Snapshots
        <3>3. ASSUME NEW a \in mem'.alerts PROVE a[2] <= mem'.resp[a[1]]
            <4>1. CASE a = <<r, job[c].now>>
                BY <1>1, <3>1, <3>2, <4>1 DEF Times
            <4>2. CASE a \in mem.alerts /\ a[1] # r
                BY <3>1, <3>2, <4>2 DEF Sound, AlertsAnswered
            <4>3. CASE a \in mem.alerts /\ a[1] = r
                <5>1. a[2] \in Times /\ a[2] <= mem.resp[r]
                    BY <3>2, <4>3 DEF Sound, AlertsAnswered, Alerts
                <5>2. a[2] + Dedupe <= job[c].now /\ mem'.resp[r] = job[c].now
                    BY <3>1, <3>2, <5>1
                <5> QED BY <1>1, <4>3, <5>1, <5>2, ReactionAssumption DEF Times
            <4> QED BY <3>1, <4>1, <4>2, <4>3
        <3>4. mem'.escalated \subseteq mem'.alerts
            BY <3>1 DEF Sound, AlertsAnswered
        <3> QED BY <1>2, <3>1, <3>3, <3>4 DEF Sound, QuietWhileActive, AlertsAnswered
    <2> QED BY <1>3, <1>6, <2>1, EmitMem DEF Sound
<1>7. CASE Sweep(c)
    <2>1. PICK due \in SUBSET (mem.alerts \ mem.escalated) :
             mem' = [mem EXCEPT !.escalated = mem.escalated \cup due]
        BY <1>7, SweepMem
    <2>2. /\ mem'.fire = mem.fire /\ mem'.active = mem.active /\ mem'.resp = mem.resp
          /\ mem'.alerts = mem.alerts /\ mem'.escalated = mem.escalated \cup due
        BY <1>1, <2>1 DEF Snapshots
    <2> QED BY <1>2, <2>2 DEF Sound, QuietWhileActive, AlertsAnswered
<1> QED BY <1>3, <1>4, <1>5, <1>6, <1>7 DEF Step, Runs, Begin, Finish, Save, Tell, Notified,
                                                  Escalate

\* A step of a caller makes no copies but of what there is.
LEMMA CopiesWithin ==
    ASSUME TypeOK, NEW c \in Callers, Begin(c) \/ Step(c)
    PROVE  Copies' \subseteq Copies \cup {Blank, mem'}
<1>1. Goes(c)
    BY CallerGoes
<1>2. {job'[d].snap : d \in Callers} \subseteq Copies \cup {Blank, mem'}
    BY <1>1 DEF Goes, Copies
<1>3. stored' \in Copies
    BY DEF Copies, Persist, Begin, Step, Runs, Sweep, Observe, Emit, Finish, Read, Save, Tell,
              Notified, Escalate
<1>4. pending' \subseteq pending \cup {mem'}
    BY DEF Begin, Step, Runs, Sweep, Observe, Emit, Finish, Read, Save, Tell, Notified,
       Escalate
<1> QED BY <1>2, <1>3, <1>4 DEF Copies

\* All copies are maps.
LEMMA CopiesType == ASSUME TypeOK PROVE Copies \subseteq Snapshots
BY DEF TypeOK, Copies

LEMMA CopiesStep ==
    ASSUME TypeOK, TypeOK', CopiesSound, JobsSound, [Next]_vars PROVE CopiesSound'
<1>1. /\ clock \in Int /\ clock' \in Int
      /\ \A m \in Copies \cup {Blank} : m \in Snapshots /\ Sound(m)
    BY CopiesType, BlankType, BlankSound DEF CopiesSound, TypeOK, Times
<1>2. clock <= clock'
    <2>1. CASE \E c \in Callers : Begin(c) \/ Step(c)
        BY <2>1, CallerClock, <1>1
    <2>2. CASE SaveLate \/ Restart \/ UNCHANGED vars
        BY <1>1, <2>2 DEF SaveLate, Restart, vars
    <2>3. CASE Tick
        BY <1>1, <2>3 DEF Tick
    <2> QED BY <2>1, <2>2, <2>3 DEF Next
<1>3. \A m \in Copies \cup {Blank} : Sound(m)'
    BY <1>1, <1>2, SoundLater
<1>4. CASE \E c \in Callers : Begin(c) \/ Step(c)
    <2>1. PICK c \in Callers : Begin(c) \/ Step(c)
        BY <1>4
    <2>2. Sound(mem)'
        BY <1>1, <2>1, MemSound DEF Copies
    <2>3. ASSUME NEW m, m = mem' PROVE Sound(m)'
        BY <2>2, <2>3 DEF Sound, QuietWhileActive, AlertsAnswered
    <2>4. Copies' \subseteq Copies \cup {Blank, mem'}
        BY <2>1, CopiesWithin
    <2> QED BY <1>3, <2>3, <2>4 DEF CopiesSound
<1>5. CASE SaveLate
    <2>1. Copies' \subseteq Copies
        BY <1>5 DEF SaveLate, Persist, Copies
    <2> QED BY <1>3, <2>1 DEF CopiesSound
<1>6. CASE Restart
    <2>1. Copies' \subseteq Copies \cup {Blank}
        BY <1>6 DEF Restart, Loaded, Idle, Copies
    <2> QED BY <1>3, <2>1 DEF CopiesSound
<1>7. CASE Tick \/ UNCHANGED vars
    <2>1. Copies' = Copies
        BY <1>7 DEF Tick, vars, Copies
    <2> QED BY <1>3, <2>1 DEF CopiesSound
<1> QED BY <1>4, <1>5, <1>6, <1>7 DEF Next

-----------------------------------------------------------------------------
(* Alerts and escalations.                                                 *)

\* Only Emit changes what alerts are deduplicated against, only Sweep marks alerts.
LEMMA AnswersStep ==
    ASSUME TypeOK, AlertsAnswered(mem), NEW c \in Callers, Begin(c) \/ Step(c)
    PROVE  (Emit(c) \/ mem'.resp = mem.resp) /\ (Sweep(c) \/ mem'.escalated = mem.escalated)
<1>1. CASE UNCHANGED mem
    BY <1>1
<1>2. CASE \E r \in Rules, n \in Counts : Observe(c, r, n)
    BY <1>2, ObserveMem DEF AnswersKept
<1>3. CASE Emit(c)
    BY <1>3, EmitMem
<1>4. CASE Sweep(c)
    BY <1>4, SweepMem DEF TypeOK, Snapshots
<1>5. CASE Read(c)
    BY <1>5 DEF Read, TypeOK, Snapshots
<1> QED BY <1>1, <1>2, <1>3, <1>4, <1>5 DEF Step, Runs, Begin, Finish, Save, Tell, Notified,
                                                  Escalate

\* Only Tell tells, only Escalate escalates.
LEMMA HistoryStep ==
    ASSUME TypeOK, NEW c \in Callers, Begin(c) \/ Step(c)
    PROVE  (Tell(c) \/ hist'.tried = hist.tried) /\ (Escalate(c) \/ hist'.esc = hist.esc)
<1>1. CASE UNCHANGED hist
    BY <1>1
<1>2. CASE Tell(c) \/ Escalate(c)
    BY <1>2 DEF Tell, Escalate, TypeOK
<1>3. CASE \E r \in Rules, n \in Counts : Observe(c, r, n)
    BY <1>3 DEF Observe, TypeOK
<1> QED BY <1>1, <1>2, <1>3 DEF Step, Runs, Begin, Sweep, Emit, Finish, Read, Save, Notified

LEMMA JobsStep == ASSUME TypeOK, TypeOK', JobsSound, [Next]_vars PROVE JobsSound'
<1>1. clock \in Times /\ clock' \in Times /\ \A c \in Callers : job[c].now \in Times
    BY DEF TypeOK
<1>2. CASE \E c \in Callers : Begin(c) \/ Step(c)
    <2>1. PICK c \in Callers : Begin(c) \/ Step(c)
        BY <1>2
    <2>2. Goes(c) /\ clock' = clock
        BY <2>1, CallerGoes, CallerClock
    <2>3. job'[c].now <= clock'
        BY <1>1, <2>2 DEF Goes, JobsSound, Times
    <2>4. \A r, s \in job'[c].rule : r = s
        BY <2>2 DEF Goes, JobsSound
    <2>5. \A d \in Callers \ {c} : job'[d] = job[d]
        BY <2>2 DEF Goes
    <2> QED BY <2>2, <2>3, <2>4, <2>5 DEF JobsSound
<1>3. CASE Restart
    BY <1>1, <1>3 DEF Restart, JobsSound, Idle, Times
<1>4. CASE Tick
    BY <1>1, <1>4 DEF Tick, JobsSound, Times
<1>5. CASE SaveLate \/ UNCHANGED vars
    BY <1>5 DEF SaveLate, vars, JobsSound
<1> QED BY <1>2, <1>3, <1>4, <1>5 DEF Next

\* Distances are symmetric.
LEMMA ApartSymmetric == ASSUME NEW t, NEW u, Apart(t, u) PROVE Apart(u, t)
BY DEF Apart

\* An alert that is emitted keeps its distance from those before it.
LEMMA EmitAlerts ==
    ASSUME TypeOK, TypeOK', Sound(mem), JobsSound, AlertInv, NEW c \in Callers, Emit(c)
    PROVE  AlertInv'
<1>1. Goes(c) /\ hist' = hist
    BY EmitGoes DEF Emit
<1>2. /\ \A d \in Callers : job[d] \in Jobs /\ job[d].now \in Times
      /\ hist.tried \subseteq Alerts /\ mem.resp \in [Rules -> Times \cup {NoTime}]
    BY DEF TypeOK, Jobs, Snapshots
<1>3. \A d \in Callers \ {c} : job'[d] = job[d] /\ (Telling(d)' <=> Telling(d))
    BY <1>1 DEF Goes, Telling
<1>4. CASE UNCHANGED mem /\ job'[c].rule = {}
    BY <1>1, <1>3, <1>4
       DEF AlertInv, TriedAnswered, TellingAnswered, TellingApartFromTried, TellingApart
<1>5. CASE \E r \in job[c].rule :
              /\ mem'.resp = [mem.resp EXCEPT ![r] = job[c].now]
              /\ job'[c].rule = job[c].rule
              /\ \A t \in Times : t <= mem.resp[r] => t + Dedupe <= job[c].now
    <2>1. PICK r \in job[c].rule :
              /\ mem'.resp = [mem.resp EXCEPT ![r] = job[c].now]
              /\ job'[c].rule = job[c].rule
              /\ \A t \in Times : t <= mem.resp[r] => t + Dedupe <= job[c].now
        BY <1>5
    <2>2. job[c].rule = {r} /\ r \in Rules
        BY <1>2 DEF JobsSound, Jobs
    <2>3. \A s \in Rules : mem'.resp[s] = IF s = r THEN job[c].now ELSE mem.resp[s]
        BY <1>2, <2>1
    <2>4. job'[c].now = job[c].now
        <3>1. [job[c] EXCEPT !.at = "observe", !.rule = {}].now = job[c].now
            BY <1>2 DEF Jobs
        <3>2. Saves(job[c], mem', "tell").now = job[c].now
            BY <1>2 DEF Jobs, Saves
        <3> QED BY <3>1, <3>2, EmitShape DEF Becomes, TypeOK
    <2>5. \A t \in Times : t <= mem.resp[r] => Apart(t, job[c].now) /\ t <= job[c].now
        BY <1>2, <2>1, ReactionAssumption DEF Apart, Times
    <2>6. TriedAnswered'
        <3> SUFFICES ASSUME NEW a \in hist.tried PROVE a[2] <= mem'.resp[a[1]]
            BY <1>1 DEF TriedAnswered
        <3>1. a[1] \in Rules /\ a[2] \in Times /\ a[2] <= mem.resp[a[1]]
            BY <1>2 DEF AlertInv, TriedAnswered, Alerts
        <3> QED BY <2>3, <2>5, <3>1
    <2>7. TellingAnswered'
        <3> SUFFICES ASSUME NEW d \in Callers, Telling(d)', NEW s \in job'[d].rule
                     PROVE  job'[d].now <= mem'.resp[s]
            BY DEF TellingAnswered
        <3>1. CASE d = c
            BY <1>2, <2>1, <2>2, <2>3, <2>4, <3>1 DEF Times
        <3>2. CASE d # c
            <4>1. job[d].now <= mem.resp[s] /\ s \in Rules
                BY <1>2, <1>3, <3>2 DEF AlertInv, TellingAnswered, Jobs
            <4> QED BY <1>2, <1>3, <2>3, <2>5, <3>2, <4>1
        <3> QED BY <3>1, <3>2
    <2>8. TellingApartFromTried'
        <3> SUFFICES ASSUME NEW d \in Callers, NEW a \in hist.tried, Telling(d)',
                            a[1] \in job'[d].rule
                     PROVE  Apart(a[2], job'[d].now)
            BY <1>1 DEF TellingApartFromTried
        <3>1. CASE d = c
            <4>1. a[1] = r /\ a[2] \in Times /\ a[2] <= mem.resp[r]
                BY <1>2, <2>1, <2>2, <3>1 DEF AlertInv, TriedAnswered, Alerts
            <4> QED BY <2>4, <2>5, <3>1, <4>1
        <3>2. CASE d # c
            BY <1>3, <3>2 DEF AlertInv, TellingApartFromTried
        <3> QED BY <3>1, <3>2
    <2>9. \A d \in Callers \ {c} :
             Telling(d) /\ job[c].rule \cap job[d].rule # {} => Apart(job[d].now, job[c].now)
        <3> SUFFICES ASSUME NEW d \in Callers \ {c}, Telling(d), r \in job[d].rule
                     PROVE  Apart(job[d].now, job[c].now)
            BY <2>2
        <3> QED BY <1>2, <2>5 DEF AlertInv, TellingAnswered
    <2>10. TellingApart'
        <3> SUFFICES ASSUME NEW d \in Callers, NEW e \in Callers, d # e, Telling(d)', Telling(e)',
                            job'[d].rule \cap job'[e].rule # {}
                     PROVE  Apart(job'[d].now, job'[e].now)
            BY DEF TellingApart
        <3>1. CASE d # c /\ e # c
            BY <1>3, <3>1 DEF AlertInv, TellingApart
        <3>2. CASE e = c
            BY <1>3, <2>1, <2>4, <2>9, <3>2
        <3>3. CASE d = c
            BY <1>3, <2>1, <2>4, <2>9, <3>3, ApartSymmetric
        <3> QED BY <3>1, <3>2, <3>3
    <2> QED BY <2>6, <2>7, <2>8, <2>10 DEF AlertInv
<1> QED BY <1>4, <1>5, EmitMem DEF Sound

\* An alert that is tried is apart from those tried, and from those about to be.
LEMMA TellAlerts ==
    ASSUME TypeOK, AlertsAnswered(mem), JobsSound, AlertInv, NEW c \in Callers, Tell(c)
    PROVE  AlertInv'
<1>1. /\ \A d \in Callers \ {c} : job'[d] = job[d] /\ (Telling(d)' <=> Telling(d))
      /\ job'[c].rule = {}
    <2>1. [job[c] EXCEPT !.at = "notify", !.rule = {}].rule = {}
        BY DEF TypeOK
    <2>2. job'[c].rule = {}
        BY <2>1 DEF Tell, Becomes, TypeOK
    <2> QED BY <2>2, TellGoes DEF Goes, Telling
<1>2. Telling(c) /\ mem' = mem
    BY DEF Tell, Telling
<1>3. hist'.tried = hist.tried \cup {<<r, job[c].now>> : r \in job[c].rule}
    BY DEF Tell, TypeOK
<1>4. \A a \in hist'.tried \ hist.tried : a[1] \in job[c].rule /\ a[2] = job[c].now
    BY <1>3
<1>5. TriedAnswered'
    BY <1>2, <1>4 DEF AlertInv, TriedAnswered, TellingAnswered
<1>6. TellingApartFromTried'
    <2> SUFFICES ASSUME NEW d \in Callers \ {c}, NEW a \in hist'.tried, Telling(d),
                        a[1] \in job[d].rule
                 PROVE  Apart(a[2], job[d].now)
        BY <1>1 DEF TellingApartFromTried
    <2>1. CASE a \in hist.tried
        BY <2>1 DEF AlertInv, TellingApartFromTried
    <2>2. CASE a \notin hist.tried
        BY <1>2, <1>4, <2>2 DEF AlertInv, TellingApart
    <2> QED BY <2>1, <2>2
<1>7. TellingAnswered' /\ TellingApart'
    BY <1>1, <1>2 DEF AlertInv, TellingAnswered, TellingApart
<1> QED BY <1>5, <1>6, <1>7 DEF AlertInv

LEMMA AlertStep ==
    ASSUME TypeOK, TypeOK', Sound(mem), JobsSound, AlertInv, [Next]_vars PROVE AlertInv'
<1>1. CASE \E c \in Callers : Begin(c) \/ Step(c)
    <2>1. PICK c \in Callers : Begin(c) \/ Step(c)
        BY <1>1
    <2>2. CASE Emit(c)
        BY <2>2, EmitAlerts
    <2>3. CASE Tell(c)
        BY <2>3, TellAlerts DEF Sound
    <2>4. CASE ~ Emit(c) /\ ~ Tell(c)
        <3>1. Goes(c) /\ mem'.resp = mem.resp /\ hist'.tried = hist.tried
            BY <2>1, <2>4, CallerGoes, AnswersStep, HistoryStep DEF Sound
        <3>2. \A d \in Callers : Telling(d)' /\ job'[d].rule # {} =>
                 Telling(d) /\ job'[d].rule \subseteq job[d].rule /\ job'[d].now = job[d].now
            BY <2>4, <3>1 DEF Goes, Telling
        <3>3. TriedAnswered' /\ TellingAnswered' /\ TellingApartFromTried'
            BY <3>1, <3>2 DEF AlertInv, TriedAnswered, TellingAnswered, TellingApartFromTried
        <3>4. TellingApart'
            BY <3>2 DEF AlertInv, TellingApart
        <3> QED BY <3>3, <3>4 DEF AlertInv
    <2> QED BY <2>2, <2>3, <2>4
<1>2. CASE Restart
    <2>1. \A c \in Callers : job'[c].rule = {}
        BY <1>2 DEF Restart, Idle
    <2>2. hist'.tried = {}
        BY <1>2 DEF Restart, TypeOK
    <2> QED BY <2>1, <2>2
            DEF AlertInv, TriedAnswered, TellingAnswered, TellingApartFromTried, TellingApart
<1>3. CASE SaveLate \/ Tick \/ UNCHANGED vars
    <2>1. UNCHANGED <<mem, job, hist>>
        BY <1>3 DEF SaveLate, Tick, vars
    <2> QED BY <2>1 DEF AlertInv, TriedAnswered, TellingAnswered, TellingApartFromTried,
                        TellingApart, Telling
<1> QED BY <1>1, <1>2, <1>3 DEF Next

LEMMA EscalationStep ==
    ASSUME TypeOK, TypeOK', AlertsAnswered(mem), EscalationInv, [Next]_vars PROVE EscalationInv'
<1>1. CASE \E c \in Callers : Begin(c) \/ Step(c)
    <2>1. PICK c \in Callers : Begin(c) \/ Step(c)
        BY <1>1
    <2>2. \A d \in Callers \ {c} : job'[d].due = job[d].due
        BY <2>1, CallerGoes DEF Goes
    <2>3. CASE Sweep(c)
        <3>1. PICK due \in SUBSET (mem.alerts \ mem.escalated) :
                 /\ mem' = [mem EXCEPT !.escalated = mem.escalated \cup due]
                 /\ \/ job'[c].due = due
                    \/ due = {} /\ job'[c].due = job[c].due
            BY <2>3, SweepMem
        <3>2. mem'.escalated = mem.escalated \cup due /\ hist' = hist
            BY <2>3, <3>1 DEF TypeOK, Snapshots, Sweep
        <3> QED BY <2>2, <3>1, <3>2 DEF EscalationInv
    <2>4. CASE Escalate(c)
        <3>1. hist'.esc = hist.esc \cup job[c].due /\ mem' = mem /\ job'[c].due = {}
            <4>1. [job[c] EXCEPT !.at = "observe", !.due = {}].due = {}
                BY DEF TypeOK
            <4> QED BY <2>4, <4>1 DEF Escalate, Becomes, TypeOK
        <3> QED BY <2>2, <3>1 DEF EscalationInv
    <2>5. CASE ~ Sweep(c) /\ ~ Escalate(c)
        <3>1. /\ mem'.escalated = mem.escalated /\ hist'.esc = hist.esc
              /\ job'[c].due \subseteq job[c].due
            BY <2>1, <2>5, CallerGoes, AnswersStep, HistoryStep DEF Goes
        <3> QED BY <2>2, <3>1 DEF EscalationInv
    <2> QED BY <2>3, <2>4, <2>5
<1>2. CASE Restart
    <2>1. (\A c \in Callers : job'[c].due = {}) /\ hist'.esc = {}
        BY <1>2 DEF Restart, Idle, TypeOK
    <2> QED BY <2>1 DEF EscalationInv
<1>3. CASE SaveLate \/ Tick \/ UNCHANGED vars
    <2>1. UNCHANGED <<mem, job, hist>>
        BY <1>3 DEF SaveLate, Tick, vars
    <2> QED BY <2>1 DEF EscalationInv
<1> QED BY <1>1, <1>2, <1>3 DEF Next

-----------------------------------------------------------------------------
(* The invariant and what it gives.                                        *)

LEMMA ReactionInitially == ASSUME Init PROVE ReactionInv
<1>1. TypeOK
    BY InitType
<1>2. Copies = {Blank}
    BY DEF Init, Copies, Idle, Callers
<1>3. \A c \in Callers : job[c] = Idle
    BY DEF Init
<1>4. JobsSound /\ AlertInv /\ EscalationInv
    BY <1>3 DEF Init, Idle, JobsSound, AlertInv, TriedAnswered, TellingAnswered,
                TellingApartFromTried, TellingApart, EscalationInv
<1> QED BY <1>1, <1>2, <1>4, BlankSound DEF ReactionInv, CopiesSound

LEMMA ReactionStep == ASSUME ReactionInv, [Next]_vars PROVE ReactionInv'
<1>1. TypeOK' /\ Sound(mem)
    BY TypeStep DEF ReactionInv, CopiesSound, Copies
<1> QED BY <1>1, CopiesStep, JobsStep, AlertStep, EscalationStep DEF ReactionInv, Sound

\* ReactionInv holds throughout: the maps and their copies, what is about to be tried or
\* escalated and what was fit together.
THEOREM ReactionInvariant == Spec => []ReactionInv
BY ReactionInitially, ReactionStep, PTL DEF Spec

\* ActiveUntilOver: a detection that may not fire again yet is active in the facts,
\* although readers come with other times (runtime_reaction.go:194-197, 325-345).
THEOREM DetectionLasts == Spec => []ActiveUntilOver
<1>1. ReactionInv => ActiveUntilOver
    BY DEF ReactionInv, CopiesSound, Copies, Sound, ActiveUntilOver
<1> QED BY <1>1, ReactionInvariant, PTL

\* AlertsSpaced: alerts of a rule that a process tries to send are Dedupe apart, in
\* whatever order the goroutines emit and send (runtime_reaction.go:402-452).
THEOREM AlertsKeepDistance == Spec => AlertsSpaced
<1>1. ASSUME ReactionInv, [Next]_vars
      PROVE  [\A c \in Callers, a \in hist.tried :
                 Tell(c) /\ a[1] \in job[c].rule => Apart(a[2], job[c].now)]_vars
    BY <1>1 DEF ReactionInv, AlertInv, TellingApartFromTried, Tell, Telling
<1> QED BY <1>1, ReactionInvariant, PTL DEF Spec, AlertsSpaced

\* EscalatesOnce: no alert is escalated twice by a process (runtime_reaction.go:497-527).
THEOREM OneEscalation == Spec => EscalatesOnce
<1>1. ASSUME ReactionInv, [Next]_vars
      PROVE  [\A c \in Callers : Escalate(c) => job[c].due \cap hist.esc = {}]_vars
    BY <1>1 DEF ReactionInv, EscalationInv
<1> QED BY <1>1, ReactionInvariant, PTL DEF Spec, EscalatesOnce

-----------------------------------------------------------------------------
(* Sums over a finite set: what MapThenSumSet computes.                    *)

\* Induction over the subsets of a finite set: the strict subset relation has minimal elements.
LEMMA SubsetInduction ==
    ASSUME NEW S, IsFiniteSet(S), NEW G,
           \A T \in SUBSET S : (\A U \in SUBSET T : U # T => U \in G) => T \in G
    PROVE  SUBSET S \subseteq G
<1> SUFFICES ASSUME (SUBSET S) \ G # {} PROVE FALSE
    OBVIOUS
<1>1. PICK T \in (SUBSET S) \ G :
        \A U \in (SUBSET S) \ G : <<U, T>> \notin StrictSubsetOrdering(S)
    <2> DEFINE R == StrictSubsetOrdering(S)
               X == (SUBSET S) \ G
    <2>1. IsWellFoundedOn(R, SUBSET S)
        <3>1. FiniteSubsetsOf(S) = SUBSET S
            BY FS_FiniteSubsetsOfFinite
        <3>2. IsWellFoundedOn(R, FiniteSubsetsOf(S))
            BY FS_StrictSubsetOrderingWellFounded
        <3> HIDE DEF R
        <3> QED BY <3>1, <3>2
    <2>2. X \subseteq SUBSET S /\ X # {}
        OBVIOUS
    <2> HIDE DEF R, X
    <2>3. \E T \in X : \A U \in X : ~ (<<U, T>> \in R)
        BY <2>1, <2>2, WFMin
    <2> QED BY <2>3 DEF R, X
<1> QED BY <1>1 DEF StrictSubsetOrdering

\* A sum of w over the elements of a set, taken in the order CHOOSE gives: the function
\* that MapThenSumSet evaluates.
First(s) == CHOOSE x \in s : TRUE

Adds(w, S, g) == g = [s \in SUBSET S |-> IF s = {} THEN 0 ELSE w[First(s)] + g[s \ {First(s)}]]

Sums(w, S) == CHOOSE g : Adds(w, S, g)

\* What MapThenSumSet makes of w, as an operator of functions.
SumOver(w, S) == MapThenSumSet(LAMBDA t : w[t], S)

LEMMA FoldIsSum ==
    ASSUME NEW w, NEW S
    PROVE  SumOver(w, S) = Sums(w, S)[S]
BY DEF SumOver, MapThenSumSet, MapThenFoldSet, Sums, Adds, First

LEMMA FirstIn == ASSUME NEW s, s # {} PROVE First(s) \in s
BY DEF First

LEMMA AddsAt ==
    ASSUME NEW w, NEW S, NEW g, Adds(w, S, g), NEW T \in SUBSET S
    PROVE  g[T] = IF T = {} THEN 0 ELSE w[First(T)] + g[T \ {First(T)}]
BY Zenon DEF Adds

\* Two of them agree where both are defined.
LEMMA SumsAgree ==
    ASSUME NEW w, NEW S, IsFiniteSet(S), NEW R, NEW g, NEW h, Adds(w, S, g), Adds(w, R, h),
           S \subseteq R
    PROVE  \A T \in SUBSET S : g[T] = h[T]
<1> DEFINE G == {T \in SUBSET S : g[T] = h[T]}
<1>1. ASSUME NEW T \in SUBSET S, \A U \in SUBSET T : U # T => U \in G
      PROVE  T \in G
    <2>1. CASE T = {}
        BY <2>1, AddsAt
    <2>2. CASE T # {}
        <3>1. T \ {First(T)} \in SUBSET T /\ T \ {First(T)} # T
            BY <2>2, FirstIn
        <3>2. g[T \ {First(T)}] = h[T \ {First(T)}]
            BY <1>1, <3>1
        <3> QED BY <2>2, <3>2, AddsAt
    <2> QED BY <2>1, <2>2
<1> HIDE DEF G
<1>2. SUBSET S \subseteq G
    BY <1>1, SubsetInduction
<1> QED BY <1>2 DEF G

\* There is one for every finite set.
LEMMA SumsExist ==
    ASSUME NEW w, NEW S, IsFiniteSet(S)
    PROVE  Adds(w, S, Sums(w, S))
<1> DEFINE G == {T \in SUBSET S : Adds(w, T, Sums(w, T))}
<1>1. ASSUME NEW T \in SUBSET S, \A U \in SUBSET T : U # T => U \in G
      PROVE  T \in G
    <2> DEFINE At(s) == IF s = {} THEN 0
                        ELSE w[First(s)] + Sums(w, s \ {First(s)})[s \ {First(s)}]
               g == [s \in SUBSET T |-> At(s)]
    <2>1. ASSUME NEW U \in SUBSET T, U # T PROVE Sums(w, U)[U] = g[U]
        <3>1. Adds(w, U, Sums(w, U))
            BY <1>1, <2>1
        <3>2. CASE U = {}
            BY <3>1, <3>2, AddsAt
        <3>3. CASE U # {}
            <4> DEFINE V == U \ {First(U)}
            <4>1. V \in SUBSET U /\ V # U /\ V # T /\ V \in SUBSET T
                BY <2>1, <3>3, FirstIn
            <4>2. Adds(w, V, Sums(w, V)) /\ IsFiniteSet(V)
                BY <1>1, <4>1, FS_Subset
            <4>3. Sums(w, U)[V] = Sums(w, V)[V]
                <5>1. V \subseteq U /\ V \in SUBSET V
                    BY <4>1
                <5> HIDE DEF V
                <5> QED BY <3>1, <4>2, <5>1, SumsAgree
            <4>4. Sums(w, U)[U] = w[First(U)] + Sums(w, U)[V]
                BY <3>1, <3>3, AddsAt
            <4> QED BY <3>3, <4>3, <4>4
        <3> QED BY <3>2, <3>3
    <2>2. ASSUME NEW s \in SUBSET T
          PROVE  At(s) = IF s = {} THEN 0 ELSE w[First(s)] + g[s \ {First(s)}]
        <3>1. CASE s = {}
            BY <3>1
        <3>2. CASE s # {}
            <4>1. s \ {First(s)} \in SUBSET T /\ s \ {First(s)} # T
                BY <3>2, FirstIn
            <4>2. Sums(w, s \ {First(s)})[s \ {First(s)}] = g[s \ {First(s)}]
                BY <2>1, <4>1
            <4> HIDE DEF g
            <4> QED BY <3>2, <4>2
        <3> QED BY <3>1, <3>2
    <2>3. Adds(w, T, g)
        <3>1. g = [s \in SUBSET T |-> At(s)]
            OBVIOUS
        <3> HIDE DEF g
        <3>2. [s \in SUBSET T |-> At(s)] =
                [s \in SUBSET T |-> IF s = {} THEN 0 ELSE w[First(s)] + g[s \ {First(s)}]]
            <4> HIDE DEF At
            <4> QED BY <2>2
        <3> QED BY <3>1, <3>2 DEF Adds
    <2>4. Adds(w, T, Sums(w, T))
        <3> HIDE DEF g
        <3> QED BY <2>3, Zenon DEF Sums
    <2> QED BY <2>4
<1> HIDE DEF G
<1>2. S \in G
    BY <1>1, SubsetInduction
<1> QED BY <1>2 DEF G

\* A sum of numbers is a number, and any element may be taken out of it.
LEMMA SumType ==
    ASSUME NEW w, NEW S, IsFiniteSet(S), \A t \in S : w[t] \in Nat
    PROVE  \A T \in SUBSET S : Sums(w, S)[T] \in Nat
<1> DEFINE g == Sums(w, S)
           G == {T \in SUBSET S : g[T] \in Nat}
<1>1. Adds(w, S, g)
    BY SumsExist
<1> HIDE DEF g
<1>2. ASSUME NEW T \in SUBSET S, \A U \in SUBSET T : U # T => U \in G
      PROVE  T \in G
    <2>1. CASE T = {}
        BY <1>1, <2>1, AddsAt
    <2>2. CASE T # {}
        <3>1. First(T) \in T /\ T \ {First(T)} \in SUBSET T /\ T \ {First(T)} # T
            BY <2>2, FirstIn
        <3>2. g[T \ {First(T)}] \in Nat /\ w[First(T)] \in Nat
            BY <1>2, <3>1
        <3> QED BY <1>1, <2>2, <3>2, AddsAt
    <2> QED BY <2>1, <2>2
<1> HIDE DEF G
<1>3. SUBSET S \subseteq G
    BY <1>2, SubsetInduction
<1> QED BY <1>3 DEF G, g

LEMMA SumTake ==
    ASSUME NEW w, NEW S, IsFiniteSet(S), \A t \in S : w[t] \in Nat
    PROVE  \A T \in SUBSET S : \A x \in T : Sums(w, S)[T] = w[x] + Sums(w, S)[T \ {x}]
<1> DEFINE g == Sums(w, S)
           G == {T \in SUBSET S : \A x \in T : g[T] = w[x] + g[T \ {x}]}
<1>1. Adds(w, S, g) /\ \A T \in SUBSET S : g[T] \in Nat
    BY SumsExist, SumType
<1> HIDE DEF g
<1>2. ASSUME NEW T \in SUBSET S, \A U \in SUBSET T : U # T => U \in G
      PROVE  T \in G
    <2> SUFFICES ASSUME NEW x \in T PROVE g[T] = w[x] + g[T \ {x}]
        OBVIOUS
    <2> DEFINE y == First(T)
    <2>1. y \in T /\ g[T] = w[y] + g[T \ {y}]
        BY <1>1, AddsAt, FirstIn
    <2> HIDE DEF y
    <2>2. CASE x # y
        <3>1. g[T \ {y}] = w[x] + g[(T \ {y}) \ {x}]
            <4>1. T \ {y} \in SUBSET T /\ T \ {y} # T /\ x \in T \ {y}
                BY <2>1, <2>2
            <4> QED BY <1>2, <4>1
        <3>2. g[T \ {x}] = w[y] + g[(T \ {x}) \ {y}]
            <4>1. T \ {x} \in SUBSET T /\ T \ {x} # T /\ y \in T \ {x}
                BY <2>1, <2>2
            <4> QED BY <1>2, <4>1
        <3>3. (T \ {x}) \ {y} = (T \ {y}) \ {x}
            OBVIOUS
        <3>4. g[(T \ {y}) \ {x}] \in Nat /\ w[x] \in Nat /\ w[y] \in Nat
            BY <1>1, <2>1
        <3> DEFINE a == g[T \ {y}]   b == g[T \ {x}]   e == g[(T \ {y}) \ {x}]
        <3>5. g[T] = w[y] + a /\ a = w[x] + e /\ b = w[y] + e /\ e \in Nat
            BY <2>1, <3>1, <3>2, <3>3, <3>4
        <3> HIDE DEF a, b, e
        <3>6. g[T] = w[x] + b
            BY <3>4, <3>5
        <3> QED BY <3>6 DEF b
    <2> QED BY <2>1, <2>2
<1> HIDE DEF G
<1>3. SUBSET S \subseteq G
    BY <1>2, SubsetInduction
<1> QED BY <1>3 DEF G, g

\* A sum is at most one that has as much for each element, and may leave out zeros.
LEMMA SumAtMost ==
    ASSUME NEW w, NEW S, NEW v, NEW A \in SUBSET S, IsFiniteSet(S),
           \A t \in S : w[t] \in Nat, \A t \in A : v[t] \in Nat /\ w[t] <= v[t],
           \A t \in S \ A : w[t] = 0
    PROVE  /\ SumOver(w, S) \in Nat /\ SumOver(v, A) \in Nat
           /\ SumOver(w, S) <= SumOver(v, A)
<1> DEFINE g == Sums(w, S)
           h == Sums(v, A)
           G == {T \in SUBSET S : g[T] <= h[T \cap A]}
<1>1. IsFiniteSet(A)
    BY FS_Subset
<1>2. /\ Adds(w, S, g) /\ \A T \in SUBSET S : g[T] \in Nat
      /\ \A T \in SUBSET A : h[T] \in Nat
      /\ \A T \in SUBSET A : \A x \in T : h[T] = v[x] + h[T \ {x}]
    BY <1>1, SumsExist, SumType, SumTake
<1> HIDE DEF g, h
<1>3. ASSUME NEW T \in SUBSET S, \A U \in SUBSET T : U # T => U \in G
      PROVE  T \in G
    <2>1. T \cap A \in SUBSET A
        OBVIOUS
    <2>2. CASE T = {}
        <3>1. g[T] = 0 /\ h[T \cap A] \in Nat
            BY <1>2, <2>1, <2>2, AddsAt
        <3> QED BY <3>1
    <2>3. CASE T # {}
        <3> DEFINE x == First(T)
                   U == T \ {x}
        <3>1. x \in T /\ g[T] = w[x] + g[U]
            BY <1>2, <2>3, AddsAt, FirstIn
        <3>2. U \in SUBSET T /\ U # T /\ x \in S
            BY <3>1
        <3>3. g[U] <= h[U \cap A] /\ g[U] \in Nat /\ U \cap A \in SUBSET A
            BY <1>2, <1>3, <3>2
        <3>4. CASE x \in A
            <4>1. U \cap A = (T \cap A) \ {x} /\ x \in T \cap A
                BY <3>1, <3>4
            <4> HIDE DEF U, x
            <4>2. h[T \cap A] = v[x] + h[U \cap A]
                BY <1>2, <2>1, <4>1
            <4>3. w[x] <= v[x] /\ w[x] \in Nat /\ v[x] \in Nat /\ h[U \cap A] \in Nat
                BY <1>2, <3>3, <3>4
            <4> QED BY <3>1, <3>3, <4>2, <4>3
        <3>5. CASE x \notin A
            <4>1. U \cap A = T \cap A
                BY <3>5
            <4>2. w[x] = 0
                BY <3>2, <3>5
            <4>3. g[U] <= h[T \cap A] /\ g[T] = 0 + g[U]
                BY <3>1, <3>3, <4>1, <4>2
            <4> HIDE DEF U, x
            <4>4. g[T] = g[U]
                BY <3>3, <4>3
            <4> QED BY <4>3, <4>4
        <3> QED BY <3>4, <3>5
    <2> QED BY <2>2, <2>3
<1> HIDE DEF G
<1>4. S \in G
    BY <1>3, SubsetInduction
<1>5. g[S] <= h[A]
    <2>1. S \cap A = A
        OBVIOUS
    <2> QED BY <1>4, <2>1 DEF G
<1>6. g[S] \in Nat /\ h[A] \in Nat
    BY <1>2
<1> QED BY <1>5, <1>6, FoldIsSum DEF g, h

-----------------------------------------------------------------------------
(* Windows: a detection counts what was observed, and nothing twice.       *)

\* No copy of the windows has more of an instant than was observed then.
WindowsHonest ==
    \A m \in Copies, r \in Rules, t \in Times : m.win[r][t] <= hist.obs[r][t]

\* n observations more at t.
Plus(w, t, n) == [w EXCEPT ![t] = w[t] + n]

\* What observeDetection does to the windows.
LEMMA ObserveWin ==
    ASSUME TypeOK, NEW c \in Callers, NEW r \in Rules, NEW n \in Counts, Observe(c, r, n)
    PROVE  \/ UNCHANGED <<mem, hist>>
           \/ /\ n > 0
              /\ mem'.win = [mem.win EXCEPT ![r] =
                    Kept(Plus(mem.win[r], job[c].now, n), job[c].now)]
              /\ hist'.obs = [hist.obs EXCEPT ![r] = Plus(hist.obs[r], job[c].now, n)]
<1> DEFINE w == Plus(mem.win[r], job[c].now, n)
           fires == Reached(r, w, job[c].now) /\ ~ Recent(mem.fire[r], job[c].now, Window)
           k == Kept(w, job[c].now)
           f == IF fires THEN job[c].now ELSE mem.fire[r]
           a == IF fires THEN Expiry(job[c].now) ELSE mem.active[r]
<1>1. CASE n = 0
    BY <1>1, ReactionAssumption DEF Observe
<1>2. CASE n # 0
    <2>1. n > 0 /\ mem' = [mem EXCEPT !.win[r] = k, !.fire[r] = IF fires THEN job[c].now ELSE @,
                                      !.active[r] = IF fires THEN Expiry(job[c].now) ELSE @]
        BY <1>2 DEF Observe, Plus
    <2>2. hist'.obs = [hist.obs EXCEPT ![r] = Plus(hist.obs[r], job[c].now, n)]
        <3>1. hist' = [hist EXCEPT !.obs[r][job[c].now] = @ + n]
            BY <1>2 DEF Observe
        <3> QED BY <3>1 DEF TypeOK, Plus
    <2> HIDE DEF fires, w, k
    <2>3. mem' = [mem EXCEPT !.win = [mem.win EXCEPT ![r] = k],
                             !.fire = [mem.fire EXCEPT ![r] = f],
                             !.active = [mem.active EXCEPT ![r] = a]]
        BY <2>1 DEF TypeOK, Snapshots
    <2> HIDE DEF f, a
    <2>4. mem'.win = [mem.win EXCEPT ![r] = k]
        BY <2>3 DEF TypeOK, Snapshots
    <2> QED BY <2>1, <2>2, <2>4 DEF k, w
<1> QED BY <1>1, <1>2

\* A window that takes in n of now, with the observations that do so too.
LEMMA WindowTakes ==
    ASSUME NEW w \in [Times -> Nat], NEW o \in [Times -> Nat], NEW now \in Times, NEW n \in Nat,
           \A t \in Times : w[t] <= o[t]
    PROVE  \A t \in Times : /\ o[t] <= Plus(o, now, n)[t]
                            /\ Plus(w, now, n)[t] <= Plus(o, now, n)[t]
                            /\ Kept(Plus(w, now, n), now)[t]
                                 <= Plus(o, now, n)[t]
<1> DEFINE u == Plus(w, now, n)
           p == Plus(o, now, n)
<1>1. \A t \in Times : u[t] \in Nat /\ p[t] \in Nat /\ o[t] <= p[t] /\ u[t] <= p[t]
    BY DEF Plus
<1> HIDE DEF u, p
<1>2. \A t \in Times : Kept(u, now)[t] <= p[t]
    BY <1>1 DEF Kept
<1> QED BY <1>1, <1>2 DEF u, p

\* A step adds to what was observed, and leaves windows that are honest.
LEMMA WindowsOf ==
    ASSUME TypeOK, WindowsHonest, NEW c \in Callers, Begin(c) \/ Step(c)
    PROVE  \A r \in Rules, t \in Times : /\ hist.obs[r][t] <= hist'.obs[r][t]
                                         /\ mem'.win[r][t] <= hist'.obs[r][t]
<1>1. /\ \A r \in Rules, t \in Times : mem.win[r][t] <= hist.obs[r][t]
      /\ mem.win \in [Rules -> [Times -> Nat]] /\ hist.obs \in [Rules -> [Times -> Nat]]
      /\ job[c].now \in Times
    BY DEF WindowsHonest, Copies, TypeOK, Snapshots
<1>2. CASE mem'.win = mem.win /\ hist'.obs = hist.obs
    BY <1>1, <1>2
<1>3. ASSUME NEW s \in Rules, NEW n \in Counts, Observe(c, s, n)
      PROVE  \A r \in Rules, t \in Times : /\ hist.obs[r][t] <= hist'.obs[r][t]
                                           /\ mem'.win[r][t] <= hist'.obs[r][t]
    <2>1. CASE UNCHANGED <<mem, hist>>
        BY <1>1, <2>1
    <2>2. CASE /\ n > 0
               /\ mem'.win = [mem.win EXCEPT ![s] =
                     Kept(Plus(mem.win[s], job[c].now, n), job[c].now)]
               /\ hist'.obs = [hist.obs EXCEPT ![s] = Plus(hist.obs[s], job[c].now, n)]
        <3> DEFINE k == Kept(Plus(mem.win[s], job[c].now, n), job[c].now)
                   p == Plus(hist.obs[s], job[c].now, n)
        <3>1. \A t \in Times : hist.obs[s][t] <= p[t] /\ k[t] <= p[t]
            BY <1>1, ReactionAssumption, WindowTakes
        <3>2. mem'.win = [mem.win EXCEPT ![s] = k] /\ hist'.obs = [hist.obs EXCEPT ![s] = p]
            BY <2>2
        <3> HIDE DEF k, p
        <3>3. \A r \in Rules \ {s} : mem'.win[r] = mem.win[r] /\ hist'.obs[r] = hist.obs[r]
            BY <1>1, <3>2
        <3>4. mem'.win[s] = k /\ hist'.obs[s] = p
            BY <1>1, <3>2
        <3> QED BY <1>1, <3>1, <3>3, <3>4
    <2> QED BY <1>3, <2>1, <2>2, ObserveWin
<1>4. CASE Emit(c)
    <2>1. UNCHANGED hist
        BY <1>4 DEF Emit
    <2>2. mem'.win = mem.win
        BY <1>4, EmitShape DEF TypeOK, Snapshots
    <2> QED BY <1>2, <2>1, <2>2
<1>5. CASE Sweep(c)
    BY <1>2, <1>5 DEF Sweep, Escalated, TypeOK, Snapshots
<1>6. CASE Read(c)
    BY <1>2, <1>6 DEF Read, TypeOK, Snapshots
<1>7. CASE Begin(c) \/ Finish(c) \/ Save(c) \/ Tell(c) \/ Notified(c) \/ Escalate(c)
    BY <1>2, <1>7 DEF Begin, Finish, Save, Tell, Notified, Escalate, TypeOK
<1> QED BY <1>3, <1>4, <1>5, <1>6, <1>7 DEF Step, Runs

LEMMA WindowsStep ==
    ASSUME TypeOK, TypeOK', WindowsHonest, [Next]_vars PROVE WindowsHonest'
<1>1. /\ \A m \in Copies \cup {Blank}, r \in Rules, t \in Times : m.win[r][t] <= hist.obs[r][t]
      /\ \A m \in Copies \cup {Blank} : m \in Snapshots
      /\ hist.obs \in [Rules -> [Times -> Nat]] /\ hist'.obs \in [Rules -> [Times -> Nat]]
    <2>1. \A m \in Copies \cup {Blank} : m \in Snapshots
        BY CopiesType, BlankType
    <2>2. hist.obs \in [Rules -> [Times -> Nat]] /\ hist'.obs \in [Rules -> [Times -> Nat]]
        BY DEF TypeOK
    <2>3. \A r \in Rules, t \in Times : Blank.win[r][t] = 0
        BY DEF Blank
    <2>4. \A r \in Rules, t \in Times : Blank.win[r][t] <= hist.obs[r][t]
        BY <2>2, <2>3
    <2> QED BY <2>1, <2>2, <2>4 DEF WindowsHonest
<1>2. ASSUME NEW c \in Callers, Begin(c) \/ Step(c) PROVE WindowsHonest'
    <2>1. \A r \in Rules, t \in Times : /\ hist.obs[r][t] <= hist'.obs[r][t]
                                        /\ mem'.win[r][t] <= hist'.obs[r][t]
        BY <1>2, WindowsOf
    <2>2. Copies' \subseteq Copies \cup {Blank, mem'}
        BY <1>2, CopiesWithin
    <2>3. ASSUME NEW m \in Copies \cup {Blank}, NEW r \in Rules, NEW t \in Times
          PROVE  m.win[r][t] <= hist'.obs[r][t]
        <3>1. m.win[r][t] \in Nat /\ hist.obs[r][t] \in Nat /\ hist'.obs[r][t] \in Nat
            BY <1>1 DEF Snapshots
        <3>2. m.win[r][t] <= hist.obs[r][t] /\ hist.obs[r][t] <= hist'.obs[r][t]
            BY <1>1, <2>1
        <3> QED BY <3>1, <3>2
    <2> QED BY <2>1, <2>2, <2>3 DEF WindowsHonest
<1>3. CASE Restart \/ SaveLate \/ Tick \/ UNCHANGED vars
    <2>1. Copies' \subseteq Copies \cup {Blank}
        BY <1>3 DEF Restart, Loaded, Idle, SaveLate, Persist, Tick, vars, Copies
    <2>2. hist'.obs = hist.obs
        BY <1>3 DEF Restart, SaveLate, Tick, vars, TypeOK
    <2> QED BY <1>1, <2>1, <2>2 DEF WindowsHonest
<1> QED BY <1>2, <1>3 DEF Next

\* Only a caller's own steps change what it is doing.
LEMMA StepBecomes ==
    ASSUME NEW d \in Callers, Begin(d) \/ Step(d) PROVE \E j : Becomes(d, j)
<1>1. ASSUME NEW s \in Rules, NEW n \in Counts, Observe(d, s, n) PROVE \E j : Becomes(d, j)
    BY <1>1, Zenon DEF Observe
<1>2. CASE Emit(d)
    BY <1>2, Zenon DEF Emit
<1>3. CASE \/ Begin(d) \/ Sweep(d) \/ Finish(d) \/ Read(d) \/ Save(d) \/ Tell(d)
           \/ Notified(d) \/ Escalate(d)
    BY <1>3, Zenon DEF Begin, Sweep, Finish, Read, Save, Tell, Notified, Escalate
<1> QED BY <1>1, <1>2, <1>3 DEF Step, Runs

\* A caller that goes on to save a detection has just observed for its rule.
LEMMA FiringCounts ==
    ASSUME TypeOK, [Next]_vars, NEW c \in Callers, NEW r \in Rules,
           job[c].at = "observe", job'[c].at = "save", job'[c].rule = {r}
    PROVE  \E n \in Counts : /\ n > 0 /\ Observe(c, r, n)
                              /\ Reached(r, Plus(mem.win[r], job[c].now, n), job[c].now)
<1>1. job \in [Callers -> Jobs]
    BY DEF TypeOK, Jobs
<1>2. ASSUME NEW d \in Callers, Begin(d) \/ Step(d) PROVE d = c
    <2>1. PICK j : Becomes(d, j)
        BY <1>2, StepBecomes
    <2> QED BY <1>1, <2>1 DEF Becomes
<1>3. CASE Begin(c) \/ Step(c)
    <2>1. PICK s \in Rules, n \in Counts : Observe(c, s, n)
        <3>1. ~ Finish(c)
            BY <1>1 DEF Finish, Becomes, Idle, Jobs
        <3> QED BY <1>3, <3>1 DEF Begin, Step, Runs, Sweep, Emit, Read, Save, Tell, Notified,
                                 Escalate
    <2> DEFINE fires == /\ Reached(s, [mem.win[s] EXCEPT ![job[c].now] = @ + n], job[c].now)
                        /\ ~ Recent(mem.fire[s], job[c].now, Window)
               next == [job[c] EXCEPT !.todo = @ \ {s}]
    <2>2. n # 0
        <3>1. ASSUME n = 0 PROVE job' = [job EXCEPT ![c] = next]
            BY <2>1, <3>1 DEF Observe, Becomes
        <3> QED BY <1>1, <3>1 DEF Jobs
    <2>3. n > 0 /\ Becomes(c, [Saves(next, mem', IF fires THEN "emit" ELSE "observe") EXCEPT
                                !.rule = IF fires THEN {s} ELSE {}])
        BY <2>1, <2>2 DEF Observe
    <2> HIDE DEF fires
    <2>4. job'[c].rule = IF fires THEN {s} ELSE {}
        BY <1>1, <2>3 DEF Becomes, Saves, Jobs
    <2>5. fires /\ s = r
        BY <2>4
    <2> QED BY <2>1, <2>3, <2>5 DEF fires, Plus
<1>4. CASE SaveLate \/ Tick \/ UNCHANGED vars
    BY <1>4 DEF SaveLate, Tick, vars
<1>5. CASE Restart
    BY <1>5 DEF Restart, Idle
<1> QED BY <1>2, <1>3, <1>4, <1>5 DEF Next

\* What is reached with the windows m was observed, if no instant has more in m than in v.
LEMMA ReachedObserved ==
    ASSUME NEW now \in Times, NEW n \in Nat, NEW r \in Rules, NEW m \in [Times -> Nat],
           NEW v \in [Times -> Nat], \A t \in Times : m[t] <= v[t],
           NEW o, o = Plus(v, now, n), NEW w, w = Plus(m, now, n), Reached(r, w, now)
    PROVE  /\ SumOver(o, {t \in Times : t >= now - Window}) >= Threshold
           /\ r \in scope.sustained => \E t \in Times : t <= now - Window /\ v[t] > 0
<1> DEFINE k == Kept(w, now)
           A == {t \in Times : t >= now - Window}
<1>1. /\ \A t \in Times : o[t] \in Nat /\ w[t] \in Nat /\ w[t] <= o[t]
      /\ \A t \in Times \ {now} : w[t] = m[t]
    BY DEF Plus
<1>2. now \in Nat /\ Window \in Nat /\ Window > 0 /\ Tolerance \in Nat /\ Times \subseteq Nat
    BY ReactionAssumption DEF Times
<1>3. /\ \A t \in Times : k[t] \in Nat
      /\ \A t \in A : k[t] <= o[t] /\ o[t] \in Nat
      /\ \A t \in Times \ A : k[t] = 0
    BY <1>1, <1>2 DEF Kept
<1>4. IsFiniteSet(Times)
    BY ReactionAssumption, FS_Interval DEF Times
<1>5. A \in SUBSET Times
    OBVIOUS
<1>6. Total(k) >= Threshold
    BY DEF Reached
<1>7. ASSUME r \in scope.sustained PROVE \E t \in Times : t <= now - Window /\ v[t] > 0
    <2>1. PICK t \in Times : w[t] > 0 /\ t \in (now - Window - Tolerance) .. (now - Window)
        BY <1>7 DEF Reached, Covers
    <2>2. t <= now - Window /\ t # now
        BY <1>2, <2>1
    <2>3. m[t] \in Nat /\ v[t] \in Nat /\ m[t] <= v[t] /\ m[t] > 0
        BY <1>1, <2>1, <2>2
    <2> QED BY <2>2, <2>3
<1> HIDE DEF k, A
<1>8. SumOver(k, Times) \in Nat /\ SumOver(o, A) \in Nat /\ SumOver(k, Times) <= SumOver(o, A)
    BY <1>3, <1>4, <1>5, SumAtMost
<1>9. SumOver(k, Times) >= Threshold
    BY <1>6 DEF Total, SumOver
<1>10. SumOver(o, A) >= Threshold
    BY <1>8, <1>9, ReactionAssumption
<1> QED BY <1>7, <1>10 DEF A

\* DetectionsEarned: a detection counts observations of its window only, each at most once,
\* whichever goroutines brought them and whichever snapshot a restart loaded
\* (runtime_reaction.go:299-345).
THEOREM DetectionsCountObservations == Spec => DetectionsEarned
<1> DEFINE Earned(c, r) ==
        LET now == job[c].now IN
        /\ MapThenSumSet(LAMBDA t : hist'.obs[r][t], {t \in Times : t >= now - Window}) >= Threshold
        /\ r \in scope.sustained => \E t \in Times : t <= now - Window /\ hist.obs[r][t] > 0
<1>1. ASSUME TypeOK, TypeOK', WindowsHonest, [Next]_vars, NEW c \in Callers, NEW r \in Rules,
             job[c].at = "observe", job'[c].at = "save", job'[c].rule = {r}
      PROVE  Earned(c, r)
    <2>1. PICK n \in Counts : /\ Observe(c, r, n) /\ n > 0
                              /\ Reached(r, Plus(mem.win[r], job[c].now, n), job[c].now)
        BY <1>1, FiringCounts
    <2>2. /\ job[c].now \in Times /\ mem.win[r] \in [Times -> Nat] /\ hist.obs[r] \in [Times -> Nat]
          /\ n \in Nat /\ \A t \in Times : mem.win[r][t] <= hist.obs[r][t]
        BY <1>1, ReactionAssumption DEF TypeOK, Snapshots, WindowsHonest, Copies
    <2>3. hist'.obs[r] = Plus(hist.obs[r], job[c].now, n)
        <3>1. hist' = [hist EXCEPT !.obs[r][job[c].now] = @ + n]
            BY <2>1 DEF Observe
        <3> QED BY <1>1, <3>1 DEF TypeOK, Plus
    <2>4. /\ SumOver(hist'.obs[r], {t \in Times : t >= job[c].now - Window}) >= Threshold
          /\ r \in scope.sustained
             => \E t \in Times : t <= job[c].now - Window /\ hist.obs[r][t] > 0
        BY <2>1, <2>2, <2>3, ReachedObserved
    <2> QED BY <2>4 DEF Earned, SumOver
<1>2. Init => WindowsHonest
    BY BlankType DEF Init, WindowsHonest, Copies, Idle, Snapshots
<1>3. TypeOK /\ TypeOK' /\ WindowsHonest /\ [Next]_vars => WindowsHonest'
    BY WindowsStep
<1>4. ASSUME TypeOK, TypeOK', WindowsHonest, [Next]_vars
      PROVE  [\A c \in Callers, r \in Rules :
                 /\ job[c].at = "observe" /\ job'[c].at = "save" /\ job'[c].rule = {r}
                 => LET now == job[c].now IN
                    /\ MapThenSumSet(LAMBDA t : hist'.obs[r][t], {t \in Times : t >= now - Window})
                           >= Threshold
                    /\ r \in scope.sustained
                       => \E t \in Times : t <= now - Window /\ hist.obs[r][t] > 0]_vars
    BY <1>1, <1>4
<1> QED BY <1>2, <1>3, <1>4, ReactionTypeCorrect, PTL DEF Spec, DetectionsEarned
=============================================================================
