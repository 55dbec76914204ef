--------------------------- MODULE ReactionEngine ---------------------------
(***************************************************************************)
(* runtimeReactionEngine: the detection windows of one source, the alerts  *)
(* that detections raise, and the state that is saved for a restart.       *)
(*                                                                         *)
(* The main loop (EvaluateCandidate, then the facts for its decision) and  *)
(* the signal consumer (EvaluateSignal) feed the same windows, each with   *)
(* the time it took when it began; the shadow PDP reads the facts as well, *)
(* and the consumer does before it decides on a graph relationship.        *)
(* Every lock section of the code is one step here.  A snapshot is copied  *)
(* under the lock and written after it, by the caller or by a goroutine of *)
(* its own.                                                                *)
(***************************************************************************)
EXTENDS Integers, FiniteSetsExt

CONSTANTS
    Rules,       \* detection rules, each with one alert response
    Threshold, Window, Tolerance,
    Counts,      \* what an observation may count, 0 if it does not match
    Dedupe,      \* deduplication window of the alert
    AckTimeout,  \* of its route, which requires an acknowledgement
    MaxTime,     \* bound: the clock
    MaxDelay,    \* bound: time that passes during an evaluation, notifications apart; MaxTime for any
    MaxRestarts, \* bound: restarts of any scenario
    Scopes       \* the scenarios, see Scope

Times  == 0 .. MaxTime
NoTime == -1
NoEnd  == -1

Callers == {"loop", "signals", "shadow"}

\* The rules of the pack, those of type source.rate_limit_drops_sustained, and what may still
\* happen in a behaviour, and so the bounds: evaluations of each caller (NoEnd for any number),
\* observations that count, saves that fail, restarts.
Scope == [rules : SUBSET Rules, sustained : SUBSET Rules, evals : [Callers -> Nat \cup {NoEnd}], samples : Nat, failures : Nat, restarts : 0 .. MaxRestarts]

ASSUME ReactionAssumption ==
    /\ Threshold \in Nat \ {0} /\ Window \in Nat \ {0} /\ Tolerance \in Nat
    /\ Counts \subseteq Nat
    /\ Dedupe \in Nat \ {0} /\ AckTimeout \in Nat \ {0} /\ MaxTime \in Nat
    /\ MaxDelay \in Nat /\ MaxRestarts \in Nat
    /\ Scopes \subseteq Scope

VARIABLES
    mem,      \* the engine's maps
    stored,   \* the row of adapter_state
    job,      \* what each goroutine is doing in the engine
    pending,  \* snapshots of goroutines that only save
    clock,
    scope,
    hist      \* history: what was observed, and the alerts this process tried to send

vars == <<mem, stored, job, pending, clock, scope, hist>>

Alerts == Rules \X Times

\* A snapshot has all the maps (activeActions is never filled: recordActiveAction has no
\* caller).  win sums up the samples of an instant; active is the expiry of a detection,
\* alerts the entries of activeAlerts with the time they were emitted.
Snapshots ==
    [win : [Rules -> [Times -> Nat]], fire : [Rules -> Times \cup {NoTime}],
     active : [Rules -> {NoTime} \cup (Window .. MaxTime + Window)],
     resp : [Rules -> Times \cup {NoTime}],
     alerts : SUBSET Alerts, escalated : SUBSET Alerts]

Blank ==
    [win |-> [r \in Rules |-> [t \in Times |-> 0]], fire |-> [r \in Rules |-> NoTime],
     active |-> [r \in Rules |-> NoTime], resp |-> [r \in Rules |-> NoTime],
     alerts |-> {}, escalated |-> {}]

\* What an evaluation begins with.
Entries == [loop |-> {"sweep"}, signals |-> {"sweep", "read"}, shadow |-> {"read"}]

\* todo: rules to evaluate; then: where to go on after the save of snap; rule: the one
\* that fired; due: alerts to escalate.
Idle == [at |-> "idle", now |-> 0, todo |-> {}, then |-> "idle", snap |-> Blank,
         rule |-> {}, due |-> {}]

Uses(what) == scope[what] > 0 /\ scope' = [scope EXCEPT ![what] = @ - 1]

Becomes(c, j) == job' = [job EXCEPT ![c] = j]

\* snapshotLocked, on leaving the lock section that made m.
Saves(j, m, then) == [j EXCEPT !.at = "save", !.snap = m, !.then = then]

-----------------------------------------------------------------------------
(* Lock sections.                                                          *)

\* Wrong variant of Kept: nothing is cut off.
KeptAll(w, now) == w

\* The samples that are not before the window.
Kept(w, now) == [t \in Times |-> IF t < now - Window THEN 0 ELSE w[t]]

Total(w) == MapThenSumSet(LAMBDA t : w[t], Times)

\* reactionSamplesCoverWindow: a sample from about one window ago.
Covers(w, now) == \E t \in Times : w[t] > 0 /\ t \in (now - Window - Tolerance) .. (now - Window)

Reached(r, w, now) == Total(Kept(w, now)) >= Threshold /\ (r \in scope.sustained => Covers(w, now))

\* Wrong variant of Recent: an answer that overtook this one does not count.
RecentInOrder(last, now, span) == last # NoTime /\ now >= last /\ now - last < span

\* now.Sub(last) < span, also if last is later than now.
Recent(last, now, span) == last # NoTime /\ now - last < span

\* Wrong variant of Expiry: it ends when it begins.
ExpiryNow(now) == now

\* When a detection that fires now ends.
Expiry(now) == now + Window

\* A detection whose expiry has come.
Over(expires, now) == expires # NoTime /\ now >= expires

\* The time is taken outside the lock: at the start of a tick, on receipt of a signal.
Begin(c) ==
    /\ job[c].at = "idle"
    /\ scope.evals[c] # 0
    /\ scope' = [scope EXCEPT !.evals[c] = IF @ = NoEnd THEN @ ELSE @ - 1]
    /\ \E at \in Entries[c] :
          Becomes(c, [Idle EXCEPT !.at = at, !.now = clock,
                                  !.todo = IF at = "sweep" THEN scope.rules ELSE {}])
    /\ UNCHANGED <<mem, stored, pending, clock, hist>>

\* Wrong variant of Due: only at the deadline.
DueThen(m, now) == {a \in m.alerts \ m.escalated : now = a[2] + AckTimeout}

\* Alerts nobody acknowledged in time; nothing acknowledges one.
Due(m, now) == {a \in m.alerts \ m.escalated : now >= a[2] + AckTimeout}

Escalated(m, due) == [m EXCEPT !.escalated = @ \cup due]

\* sweepAlertEscalations.
Sweep(c) ==
    /\ job[c].at = "sweep"
    /\ LET due == Due(mem, job[c].now)
       IN  /\ mem' = Escalated(mem, due)
           /\ Becomes(c, IF due = {} THEN [job[c] EXCEPT !.at = "observe"]
                         ELSE [Saves(job[c], mem', "escalate") EXCEPT !.due = due])
    /\ UNCHANGED <<stored, pending, clock, scope, hist>>

\* observeDetection of rule r with a count of n.
Observe(c, r, n) ==
    LET j == job[c]
        w == [mem.win[r] EXCEPT ![j.now] = @ + n]
        fires   == Reached(r, w, j.now) /\ ~ Recent(mem.fire[r], j.now, Window)
        next    == [j EXCEPT !.todo = @ \ {r}]
    IN  /\ j.at = "observe" /\ r \in j.todo
        /\ \/ /\ n = 0
              /\ Becomes(c, next)
              /\ UNCHANGED <<mem, scope, hist>>
           \/ /\ n > 0 /\ Uses("samples")
              /\ mem' = [mem EXCEPT
                           !.win[r] = Kept(w, j.now),
                           !.fire[r] = IF fires THEN j.now ELSE @,
                           !.active[r] = IF fires THEN Expiry(j.now) ELSE @]
              /\ Becomes(c, [Saves(next, mem', IF fires THEN "emit" ELSE "observe") EXCEPT
                               !.rule = IF fires THEN {r} ELSE {}])
              /\ hist' = [hist EXCEPT !.obs[r][j.now] = @ + n]
        /\ UNCHANGED <<stored, pending, clock>>

\* Wrong variant of LastResponse: the detection's own time.
LastFire(r) == mem.fire[r]

\* What an alert is deduplicated against.
LastResponse(r) == mem.resp[r]

\* The lock section of emitAlert for the rule that fired.
Emit(c) ==
    LET j == job[c] IN
    /\ j.at = "emit"
    /\ \E r \in j.rule :
          IF Recent(LastResponse(r), j.now, Dedupe)
          THEN Becomes(c, [j EXCEPT !.at = "observe", !.rule = {}]) /\ UNCHANGED mem
          ELSE /\ mem' = [mem EXCEPT !.resp[r] = j.now,
                                     !.alerts = @ \cup {<<r, j.now>>},
                                     !.escalated = @ \ {<<r, j.now>>}]
               /\ Becomes(c, Saves(j, mem', "tell"))
    /\ UNCHANGED <<stored, pending, clock, scope, hist>>

\* Rules done: the main loop asks for the facts, the consumer waits for a signal.
Finish(c) ==
    /\ job[c].at = "observe" /\ job[c].todo = {}
    /\ Becomes(c, IF c = "loop" THEN [job[c] EXCEPT !.at = "read"] ELSE Idle)
    /\ UNCHANGED <<mem, stored, pending, clock, scope, hist>>

\* detectionFactsForSource: expired detections go; a goroutine saves what is left.
Read(c) ==
    /\ job[c].at = "read"
    /\ LET m == [mem EXCEPT !.active =
                    [r \in Rules |-> IF Over(@[r], job[c].now) THEN NoTime ELSE @[r]]]
       IN  /\ mem' = m
           /\ pending' = IF m = mem THEN pending ELSE pending \cup {m}
    /\ Becomes(c, Idle)
    /\ UNCHANGED <<stored, clock, scope, hist>>

-----------------------------------------------------------------------------
(* Outside the lock.                                                       *)

\* persistSnapshot; an error or its timeout is only logged.
Persist(snap) ==
    \/ stored' = snap /\ UNCHANGED scope
    \/ Uses("failures") /\ UNCHANGED stored

Save(c) ==
    /\ job[c].at = "save"
    /\ Persist(job[c].snap)
    /\ Becomes(c, [job[c] EXCEPT !.at = job[c].then, !.then = "idle", !.snap = Blank])
    /\ UNCHANGED <<mem, pending, clock, hist>>

\* The goroutine that Read started.
SaveLate ==
    /\ \E snap \in pending : Persist(snap) /\ pending' = pending \ {snap}
    /\ UNCHANGED <<mem, job, clock, hist>>

\* After the state of an alert was saved: its signal is stored, an error or timeout of
\* which is only logged, and its notifications begin.  An alert is tried from here on.
Tell(c) ==
    /\ job[c].at = "tell"
    /\ hist' = [hist EXCEPT !.tried = @ \cup {<<r, job[c].now>> : r \in job[c].rule}]
    /\ Becomes(c, [job[c] EXCEPT !.at = "notify", !.rule = {}])
    /\ UNCHANGED <<mem, stored, pending, clock, scope>>

\* dispatchAlertNotifications returns.  A mail that was refused, a file without a path or a
\* channel that is not known are warned about and dropped: nothing else depends on it.
Notified(c) ==
    /\ job[c].at = "notify"
    /\ Becomes(c, [job[c] EXCEPT !.at = "observe"])
    /\ UNCHANGED <<mem, stored, pending, clock, scope, hist>>

\* Escalations, after their state was saved.
Escalate(c) ==
    /\ job[c].at = "escalate"
    /\ hist' = [hist EXCEPT !.esc = @ \cup job[c].due]
    /\ Becomes(c, [job[c] EXCEPT !.at = "observe", !.due = {}])
    /\ UNCHANGED <<mem, stored, pending, clock, scope>>

\* Wrong variant of Loaded: the active detections are left out.
LoadedPartly(snap) == [snap EXCEPT !.active = Blank.active]

\* What Load takes over.
Loaded(snap) == snap

\* The process ends at any point and starts again.  An error of Load is only logged and
\* leaves the maps of a new engine.
Restart ==
    /\ scope.restarts > 0
    /\ \/ mem' = Loaded(stored) /\ scope' = [scope EXCEPT !.restarts = @ - 1]
       \/ /\ mem' = Blank /\ scope.failures > 0
          /\ scope' = [scope EXCEPT !.restarts = @ - 1, !.failures = @ - 1]
    /\ job' = [c \in Callers |-> Idle]
    /\ pending' = {}
    /\ hist' = [hist EXCEPT !.tried = {}, !.esc = {}]
    /\ UNCHANGED <<stored, clock>>

Tick ==
    /\ clock < MaxTime
    /\ \A c \in Callers : job[c].at \notin {"idle", "notify"} => clock < job[c].now + MaxDelay
    /\ clock' = clock + 1
    /\ UNCHANGED <<mem, stored, job, pending, scope, hist>>

-----------------------------------------------------------------------------
Init ==
    /\ mem = Blank /\ stored = Blank
    /\ job = [c \in Callers |-> Idle]
    /\ pending = {}
    /\ clock = 0
    /\ scope \in Scopes
    /\ hist = [obs |-> Blank.win, tried |-> {}, esc |-> {}]

\* What a goroutine does next in the engine, but for waiting for a notification.
Runs(c) ==
    \/ Sweep(c) \/ Emit(c) \/ Finish(c) \/ Read(c) \/ Save(c) \/ Tell(c) \/ Escalate(c)
    \/ \E r \in Rules, n \in Counts : Observe(c, r, n)

Step(c) == Runs(c) \/ Notified(c)

Next ==
    \/ \E c \in Callers : Begin(c) \/ Step(c)
    \/ SaveLate \/ Restart \/ Tick

Spec == Init /\ [][Next]_vars

\* A goroutine that is in the engine runs on: locks are short, saves have a timeout.  Not
\* out of a notification: sending a mail has no deadline (runtime_reaction.go:686).
\* Whether a source is evaluated again depends on its traffic.
FairSpec == Spec /\ (\A c \in Callers : WF_vars(Runs(c))) /\ WF_vars(SaveLate) /\ WF_vars(Tick)

-----------------------------------------------------------------------------
(* Properties.                                                             *)

Places == {"idle", "sweep", "observe", "emit", "read", "save", "tell", "notify", "escalate"}

\* Every variable has its type.
TypeOK ==
    /\ mem \in Snapshots /\ stored \in Snapshots /\ pending \subseteq Snapshots
    /\ job \in [Callers -> [at : Places, now : Times, todo : SUBSET Rules, then : Places,
                            snap : Snapshots, rule : SUBSET Rules, due : SUBSET Alerts]]
    /\ clock \in Times
    /\ scope \in Scope
    /\ hist \in [obs : [Rules -> [Times -> Nat]], tried : SUBSET Alerts, esc : SUBSET Alerts]

\* A detection is active for as long as lastFire keeps it from firing again
\* (runtime_reaction.go:325-345, 194-197): whoever cleans up with whatever time, and in
\* whatever order snapshots are saved and loaded.
QuietWhileActive(m) ==
    \A r \in Rules : m.fire[r] # NoTime /\ clock < m.fire[r] + Window
                        => m.active[r] = m.fire[r] + Window

ActiveUntilOver == QuietWhileActive(mem)

\* A detection fires only for observations that were made, each counted once although
\* two goroutines and a restart bring samples in, within its window, and over all of it
\* if it is sustained (runtime_reaction.go:299-316).
DetectionsEarned ==
    [][\A c \in Callers, r \in Rules :
          /\ job[c].at = "observe" /\ job'[c].at = "save" /\ job'[c].rule = {r}
          => LET now == job[c].now IN
             /\ MapThenSumSet(LAMBDA t : hist'.obs[r][t], {t \in Times : t >= now - Window})
                    >= Threshold
             /\ r \in scope.sustained => \E t \in Times : t <= now - Window /\ hist.obs[r][t] > 0]_vars

Apart(t, u) == t + Dedupe <= u \/ u + Dedupe <= t

\* While a process lives, the times of the alerts of a rule that it tries to send are Dedupe
\* apart, also when goroutines overtake each other between firing and emitting
\* (runtime_reaction.go:404-409).
AlertsSpaced ==
    [][\A c \in Callers, a \in hist.tried :
          Tell(c) /\ a[1] \in job[c].rule => Apart(a[2], job[c].now)]_vars

\* While a process lives, an alert is escalated at most once, although every evaluation
\* of either goroutine sweeps (runtime_reaction.go:497-507).
EscalatesOnce ==
    [][\A c \in Callers : Escalate(c) => job[c].due \cap hist.esc = {}]_vars

\* An alert that is overdue is escalated, if the source is evaluated again and again and
\* the process lives on (runtime_reaction.go:493-527).
OverdueEscalates ==
    []<>(job["loop"].at = "sweep") =>
        \A a \in Alerts : \A n \in 0 .. MaxRestarts :
            /\ a \in mem.alerts \ mem.escalated /\ clock >= a[2] + AckTimeout
            /\ scope.restarts = n
            ~> a \in hist.esc \/ scope.restarts # n

Telling(c) == "tell" \in {job[c].at, job[c].then}
Firing(c)  == "emit" \in {job[c].at, job[c].then}

\* The alert that the next one is compared with was, or is about to be, tried here.
Accounted(r) ==
    \/ mem.resp[r] = NoTime
    \/ <<r, mem.resp[r]>> \in hist.tried
    \/ \E c \in Callers : Telling(c) /\ r \in job[c].rule /\ job[c].now = mem.resp[r]

\* Every detection that fires has an alert tried, its own or one less than Dedupe before it
\* or later: the other goroutine's alert, which may be later than the detection, never keeps
\* both unsent (runtime_reaction.go:404-409).  Not if the process ends, or an ended one saved
\* an alert it had not tried.  Whether one arrives nobody sees to.
DetectionAlerted ==
    \A r \in Rules, t \in Times, n \in 0 .. MaxRestarts :
        /\ scope.restarts = n /\ Accounted(r)
        /\ \E c \in Callers : Firing(c) /\ r \in job[c].rule /\ job[c].now = t
        ~> \/ scope.restarts # n
           \/ \E u \in Times : <<r, u>> \in hist.tried /\ u + Dedupe > t
=============================================================================
