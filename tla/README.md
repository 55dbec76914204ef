# Kernloom in TLA+

Kernloom watches network sources, decides what to do about them, and enforces it
in kernel maps that an XDP program reads for every packet. What it enforces is
bounded in time by *action leases* kept in SQLite. This directory holds TLA+ models
of that control plane and of the packet program, TLC configurations that check them
on small instances, and TLAPS proofs that hold for every instance. Paths below are
relative to the repository root.

## 1. The system

`kliq` (iq/cmd/kliq) is one process per node. Adapters deliver observations and
signals; a tick loop turns them into proposals; the Runtime PDP and the policy
resolver decide; an executor applies the result through a broker, which journals
a lease, calls an enforcement point (PEP), and later reverts the lease.

| Component | State it keeps | Operations | Interacts with | What makes it correct |
|---|---|---|---|---|
| Action broker (`iq/internal/actionbroker`) | none of its own but limits; the journal | `Apply`, `RevertExpired`, `Revert`, `ReconcilePending`, `UpdateAutonomyConstraints` | journal, PEP | one active lease per (target, action, level); stronger supersedes weaker; expiry ends enforcement; a revert touches only its own enforcement |
| Lease journal (`pkg/statestore/sqlite/action_leases.go`) | rows of `action_leases` | find active, list expired / pending, upsert, update status | both brokers | settled rows stay settled |
| Brokered executor and PEPs (`brokered_executor.go`, `executor.go`) | `currentTokens`, the active context under `applyMu` | `ApplySource`, `ApplyRelationship`, override, `RevertExpired` | brokers, klshield maps | tokens name what is enforced; receipts say what happened |
| klshield adapter | snapshots of counters, the flow batch | transitions of a source; deny / allow an edge; sample rates; read and clear flows | executor, kernel maps | maps follow the level asked for; the runtime adapter reports no rate that never came |
| XDP program (`shield/bpf`) | pinned maps: lists, limits, token buckets, edges, counters | a verdict per packet, on every CPU at once | maps written by klshield and KLIQ, counters read by KLIQ | a verdict has its cause in the rules; a bucket lets through what its limit says, no more and no less |
| Receipt queue (`receipt_uploader.go`, `receipts.go`) | rows of `action_receipts` | persist, list, upload, mark, prune | Forge | at least once; none lost |
| Policy resolver (`iq/internal/actions/resolver.go`) | mode, ceilings, allow-lists | `Resolve`, sync from configuration | tick loop, goroutines | never above the ceiling; no policy pack, no enforcement |
| Source FSM (`pkg/core/fsm`, `source_fsm.go`) | strikes, streaks, level, TTL, cooldown per source | `Advance`, sweep, reset, feedback | PDP, executor | escalation only after `UpNeed`; block held for its TTL; quiet sources come down |
| Runtime PDP (`iq/internal/runtimepdp`) | policy pack, counters | decide, reload | facts, resolver | first match; a reload is atomic |
| Reaction engine (`runtime_reaction.go`) | windows, detections, alerts, a snapshot in SQLite | evaluate, alert, escalate, answer the facts of a source, save, load | main loop, signal consumer, shadow PDP, notification sinks | a detection is earned and stays active for its window; alerts keep their distance, deduplication swallows none, overdue ones are escalated |
| Runtime services (`runtime_services.go`, `shadow_pdp.go`) | bounded channels | proposal applier, policy reload, signal consumer | all of the above | nothing that must not be dropped is dropped |
| Managed bundles, forge agent | bundle version, session | verify, activate, fall back, heartbeat | Forge, PDP | only verified bundles act |
| Event bus (`pkg/adapterruntime/bus.go`) | channels per subscriber | publish, subscribe | adapters | what its backpressure rules promise |
| Lifecycle controllers, relationship learner, learning guard, baselines | phases, edges, exclusions, statistics | observe, freeze, approve | graph store | frozen graphs do not learn |
| Scoring, filters, netfilter and OpenZiti adapters, klshield CLI, configuration, reports | – | – | – | stateless, textual or input/output |

Hard behaviours: `Apply` runs on the tick, proposal and signal goroutines and is
serialised by `brokeredSourcePEP.applyMu`; `RevertExpired` runs on the tick
goroutine **without** that lock, and only in passes that have observed something; every
step of either is a separate SQLite statement, a map write or a token write, each of
which can fail; the process can die between any two, and the pinned maps survive it
while the tokens do not. The
XDP program takes no lock but the one in a bucket: each look-up sees the maps as they
are at that moment, counters are loaded and stored without atomics, and LRU maps
lose entries on their own.

## 2. Modules

| Module | Models |
|---|---|
| `LeaseLifecycle` | what the journal shows, for any goroutines and failures: a lease is created pending, becomes active only while its tuple is free, from "pending" or as the renewal of one that a sweep has just settled, and a failed one stays failed |
| `ActionBroker` | `Broker` and `brokeredSourcePEP` in full interleaving; refines `LeaseLifecycle` (`Lifecycle == INSTANCE ...`) |
| `ActionBrokerProofs` | its properties for all constants, up to liveness, and the refinement |
| `BrokerPair`, `BrokerPairProofs` | source and relationship broker on one journal, at the grain of whole operations, and their proofs |
| `ReceiptUploader`, `ReceiptUploaderProofs` | the upload queue and its proofs |
| `TokenBucket`, `TokenBucketProofs` | refill and charge of a bucket, as a function on 64-bit words, and what it is worth |
| `Shield`, `ShieldProofs` | the XDP program's decision on several CPUs while its maps are written, and its proofs |
| `ShieldTelemetry`, `ShieldTelemetryProofs` | what the program counts, without atomics, and the two readers in KLIQ; and the proofs |
| `SourceFSM`, `SourceFSMProofs` | one source through KLIQ's loop: `fsm.Advance`, the decision, the lease that comes back; and the proofs |
| `ReactionEngine`, `ReactionProofs` | the detection windows of one source, alerts and escalations, the goroutines that share them, saves and restarts; and their proofs |
| `MC...` | constants for TLC |

### ActionBroker

| Variable | Code |
|---|---|
| `status`, `body` | the row of `action_leases`; the metadata that `executionMetadataChanged` compares is `param` and `dry` |
| `enf[t]` | the lease whose transition the klshield maps hold for a source; `None` is observe |
| `token[t]` | `brokeredSourcePEP.currentTokens`; a token is represented by its lease |
| `observed` | the loop's pass under way has observed something; else it works on no candidate and does not sweep (`kliq.go:1345-1347`) |
| `ap` | the `Apply` in flight: program counter, goroutine, request, time read, lease |
| `rv` | the `RevertExpired` in flight: program counter, rows listed, current row |
| `dry` | this process runs with `dry_run` |
| `clock`, `faults` | time; faults taken so far (bounds of the model) |

`Apply` is cut at every point where it reads or writes something the sweep also
uses: `ApplyBegin` (prerequisite gate, 144-158), `ApplyCheckStronger` (159-170),
`ApplyFind` (the look-up, 380), `ApplyExamine` (metadata, token and limit: renew, replace
or insert), `ApplyRetire` (the status write, 389 or 403), `ApplyRenew` (412-426),
`ApplyInsert` (179-200), `ApplyPep` and `ApplyFence` (`brokeredSourcePEP.Apply`),
`ApplyAbandon` (the write after a PEP error, whose own error is dropped, 205),
`ApplyActivate` (218-223), `ApplySupersede` and `ApplyOverrule` (312-339: a look-up, then a
write). The sweep is `SweepBegin` (the list), then per row `SweepCheck` (token),
`SweepDisown` (a conflict) or `SweepRevert` (maps), `SweepUnfence` (token), `SweepMark`
(row). `ObservePass` is a pass of the tick loop, which may observe nothing.
`DirectObserve` stands for every transition to observe that passes the broker by.
`Crash` is death and start-up: `supersedeStaleDryRunExecutionLeases` and
`ReconcilePending`, each of which may stop at a journal error of its own. Lines without
a file name are of `broker.go`.

Abstractions. Metadata is a value of `Param`. Expiry is a number, not text.
`Request` ranges over resolutions that are leased (`shouldBrokerLease`). Two
lookups of the code that return "the newest row" return any row of maximal
expiry. Messages and receipts of the broker are left out: no decision reads them.

### BrokerPair

`RevertExpired` of the executor gives the same `now` to each broker in turn
(`Successor`, `pass.at`); each lists the expired rows of *every* adapter
(`PassList`) and reverts them (`RevertBySource`, `RevertByRelationship`), or finds them
fenced off (`RevertFencedOff`). An apply is one step. A target may have an active lease
for each of several actions of one strength (drop, deny: `broker.go:284`, 326), but it has
one token, that of the lease applied last. Edges have their two maps, `edgeDeny` and
`edgeAllow`. Journal errors are those of the list, of the activation and of the
statuses at the end of a revert; the others, map errors of sources, restarts and dry run
are in `ActionBroker`.

### ReceiptUploader

`upload`, `applied` are the row; `forge` is what Forge holds (external); `up` is
the upload in flight. `PostFailed` is a lost request, a lost answer or an error
status, any number of times; `PostAnswered` a 200 answer; `Mark` writes one row per step.
`Answers` is external: the identifiers accepted, or an answer without any, which an
answer that cannot be read is taken for (`forge_client.go:314`) and which the code reads
as the whole batch.

### TokenBucket, Shield

| Variable | Code |
|---|---|
| `rules` | the control maps: `xdp_cfg`, the lists, `xdp_rl_cfg`, `xdp_rl_policy4/6`, `edge4_*` |
| `bucket[k][c]`, `current[k]` | the `rl_state_t` element that CPU `c` inserted for key `k`, and whose element the map holds: a CPU that has looked one up keeps its pointer when another CPU replaces it |
| `pc`, `pkt`, `now`, `stage`, `limit`, `at`, `mode`, `drop` | the invocation on each CPU and its locals; `limit` is a pointer, live for the array element of the default limit |
| `totals` | `xdp_totals`, per CPU |
| `during`, `paid`, `ledger` | history: the rules since the packet came; limiters that charged it; the account of a bucket |

A look-up in a shared map is a step (`ReadConfig`, `AllowLookup`, `DenyLookup`,
`SelectDefault`, `SelectOverride`, `BucketLookup`, `ReadMode`, `EdgeLookup`, `SelectEdge`),
`ChargeBucket` is the section under the bucket's lock, `ReadBurst` and `CreateBucket` the
value of a first bucket and its insertion with `BPF_ANY`; parsing and per-CPU counters go
with a step next to them. IPv4 and IPv6 take the same steps; only IPv4 packets with a port
have an edge. `Write...` are the control plane, one map write each, in place for the array
elements. An LRU eviction of an edge entry is a `WriteEdge...` too.

Assumptions. Limits fit (`Fits`): burst times 10^9 plus rate stays below 2^64. An
element that was replaced is not handed out again while a CPU still uses it. The two
reads of `ecfg->mode` (972, 979) are one, and so are those of `burst` (950), as the
compiler makes them. `bpf_ktime_get_ns` does not run backwards. A packet that finds the
bucket map full counts as charged.

### ShieldTelemetry

`at[k]` is the element of an LRU map that holds the row of `k`, and `element` what each
element holds; a deleted or evicted row frees its element for the next key at once,
while a CPU that has looked it up keeps its pointer and stores into whatever row is there
by then. `Lookup`, `Insert`, `Load` and `Store` are the steps of `src4_update`,
`src6_update` and `flow4_update`, a counter at a time; `Evict` is the LRU map. `Sample` is
`observe4/6` with `calculateRates`, `Forget` is `evictPrev`; `PollBegin`, `ReadFlow`,
`Restart` (the iteration starts again when its key is gone, and meets rows twice),
`ReadEnd`, `PollFails`, `ClearFlow` and `ClearFails` (the dropped error of `Delete`) are
`pollFlow4`. What the poller publishes is not a variable: the code may publish a row twice
or never, and no document promises a total. Counters behave alike: packets, two verdicts and
port changes stand for all of them. Rates are those of the runtime adapter; the other
reader (`telemetry/adapter.go:226`, 308) subtracts unchecked, nothing is promised of it,
and it is not modelled.

### SourceFSM

`st` is `fsm.State`, `lease` the active lease of the source, `enf` what the maps enforce.
`Counts`, `StepDown`, `Wanted`, `Held`, `Gated` and `Moves` are `Advance` in its order.
`Candidate` and `Sweep` are a tick's work on the source: intent, decision (`Decide`,
external: the policy pack of the manual and the integration tests), merge and projection.
`EndTick` is `RevertExpired`, `evictIdle` and the time to the next tick. `Blind` is a tick
whose observations all fail: none of this happens. `Reset`, `Feedback`, `GraphStrike`,
`OtherApplies` (the proposal applier and the signal consumer, whose new state is dropped)
and `Restart` come from outside the loop. Times are kept relative to now, which makes the
states finite without a bound on time. What the broker does to a lease is short here
(`Enforce`); `ActionBroker` has its steps and errors.

What the model shows about the code, without contradicting a document: the "minimum time"
and the low streak apply to the step-down by TTL, not to the loss of strikes; `UpStreak` and
`HighSevSince` outlive the ticks in which a source is not seen; a source that falls out of
the candidates is swept with severity 0, and its lease is not projected; an intent consumes
a forced block even when the decision holds; a reset leaves the lease active, so the next
projection raises the level again; at the limit of renewals the lease lapses, the maps are
cleared, and the source is enforced anew while its strikes last.

### ReactionEngine

| Variable | Code |
|---|---|
| `mem` | the maps of `runtimeReactionEngine`: `windows` (`win`, summed by instant), `lastFire` (`fire`), `active` (its `expires`), `lastResponse` (`resp`), `activeAlerts` (`alerts`) and the `Escalated` mark of each |
| `stored` | the row of `adapter_state` |
| `job[c]` | what the main loop, the signal consumer and the shadow PDP are doing: the time they came with, the rules left, the copy to be written, the rule that fired, the alerts to escalate |
| `pending` | copies that the goroutine of `detectionFactsForSource` has still to write |
| `clock`, `scope`, `hist` | time; what may still happen; observations made, alerts tried and escalated by this process |

A step is a lock section or a call outside the lock. `Begin` takes the time before the lock
(`kliq.go:1281`, a signal's receipt); a signal is evaluated, or its facts are read for the
decision on a graph relationship (`Entries`). `Sweep` is `sweepAlertEscalations`, `Observe`
`observeDetection` of one rule, `Emit` the lock section of `emitAlert`, `Read`
`detectionFactsForSource`; the first three copy the maps under the lock and write the copy
in `Save`, before they `Tell` or `Escalate`. `Tell` is the signal of an alert and the
beginning of its notifications, `Notified` their return: what fails is logged and dropped,
and a mail may never return. `Read` leaves its copy to `SaveLate`. `Restart` is death at any
point and `Load`, which leaves the maps blank if it fails. A failed or timed-out write is
only logged (`Persist`). Rules match in any way (`Counts`), so one source and its rules show
what several do: the maps are keyed by rule and source. `activeActions` and the
acknowledgement of alerts have no writer in the code and are left out.

## 3. Runs

| Run | Bounds | Shows |
|---|---|---|
| `broker` | 1 source, drop (gated by limit) and limit at soft/block, 2 params, 3 leases, 1 renewal, Apply from tick and proposal goroutine, no faults | `TypeOK`, `NoWeakerBesideStronger`, `EnforcementLeased`, `OneActivePerTuple`, `RenewalsBounded` |
| `broker_faults` | limit at soft/hard, 2 leases, both goroutines, 1 map error, 2 journal errors, 1 restart into either mode, blind passes | `NoDryRunLeaseInRealMode`, `LifecycleSpec` (refinement), `ExpiredLeaseSettles`, `ExpiredEnforcementEnds` |
| `pair_journal` | 1 source, 1 edge, 2 actions of equal strength, 3 leases, 1 edge error, 1 journal error | `TypeOK`, `SettledSourceIsLifted`, `FencedOffByLater` |
| `receipts` | 4 receipts (2 refused), batches of 2, 1 journal error, 1 crash, any number of failed uploads | `TypeOK`, `NoReceiptLost`, `QueueDrains` |
| `shield` | 2 CPUs, 3 sources (one IPv6), 1 port, up to 3 packets a CPU, 3 map writes, 3 clock units, 64 for 2^64, 3 for 10^9, room for one bucket; nine scenarios | `TypeOK`, `DroppedHasCause`, `PassedIsPermitted`, `ChargedWhenLimited`, `RateHonoured`, `TokensCapped`, `RefusedOnlyOverLimit` |
| `shield_telemetry` | 2 CPUs, an IPv4 source with 1 or 2 flows, one or two IPv6 sources, 2 elements a map, 2 or 3 packets, 1 eviction, 1 failed iteration or deletion, 2 samples; four scenarios | `TypeOK`, `CountersBounded`, `RatesReal`, `FlowsDrain` |
| `source_fsm` | severities 0..3, strikes to 5, a gated configuration with one renewal and the manual's with no limit; two of: a decision that holds, a graph strike, an override, another goroutine, a restart; blind ticks | `TypeOK`, `EscalationEarned`, `BlockRunsItsTime`, `LimitedSourceRecovers` |
| `reaction_engine` | 1 rule (plain or sustained), threshold 2, window 2, tolerance 1, deduplication 3, acknowledgement 1, clock to 3, an evaluation takes up to 2, notifications any time; six scenarios: two goroutines; the loop twice with the shadow PDP; both with a sustained rule; a failed save or load and a restart; evaluations without end and a restart | `TypeOK`, `ActiveUntilOver`, `DetectionsEarned`, `AlertsSpaced`, `OverdueEscalates`, `DetectionAlerted` |
| `shared_blind_revert` | limit at soft/hard, 2 leases, both goroutines, no faults | **violated**: `FencedRevert` |
| `edge_still_denied` | relationship broker alone, no faults | **violated**: `RevertedEdgePasses` |
| `rejected_marked_uploaded` | as `receipts`, 3 receipts (1 refused) | **violated**: `UploadedIsAccepted` |
| `quiet_source_blocked` | `source_fsm` with the manual's configuration alone | **violated**: `QuietSourceReleased` |

Why the bounds are enough. Nothing in the broker relates two sources: rows,
tokens and map entries are all keyed by target, so one source shows every race.
Three leases let one be settled, one be reverted and one take over. Two levels
are needed for supersede and for a sweep that meets a stronger lease; the drop
adds the strong actions, equal strength (limit at block) and the gate. The clock of `broker`
runs to 2, which lets a lease of TTL 1 expire, be renewed and expire again. Runs
without temporal properties use the symmetry of lease identifiers and metadata values (only
equality is ever applied to them). Four receipts let a full batch of refused ones stand in front of an
acceptable one, with another behind it. Two elements of a map let one be given on to
another key while a CPU still holds it.
Two CPUs show every race of the packet program: it touches an entry by look-up and
then by one more access, so a third CPU only repeats what the second does. A scenario
of `shield` combines the packets, rules and writes that one rule depends on; the
products in the bucket reach every case of `Refill` with a rate of 1 or 2 per 3 units.
What the small numbers cannot show, overflow and rounding at real sizes, is what the
proofs are for. The strikes and streaks of `source_fsm` reach one more than the
highest threshold.

Runs end with states that have no successor because the clock and the
identifiers are bounded, so deadlock is not checked.

Fairness. `FairSpec` of `ActionBroker`: an `Apply` in flight runs on (it holds a
mutex, waits for nothing and its calls return); a pass of the loop that has observed
something calls `RevertExpired`, again and again (strong fairness, because an `Apply` on
the same goroutine makes the sweep wait in between), and finishes it. That observation
succeeds is not assumed: the loop goes on with its next tick as long as it fails
(`kliq.go:1345-1347`), and `ExpiredLeaseSettles` and `ExpiredEnforcementEnds` are about
behaviours in which it succeeds again and again (`[]<> observed`). `Apply` is never forced
to begin, nor are time, faults and crashes fair. `ReceiptUploader`: its ticker fires for
ever; `QueueDrains` names what it needs of Forge, which is not the node's: that of the
uploads that keep coming it answers some (`ForgeAnswers`). `SourceFSM`: the loop is driven
by a ticker, and a tick works on the source, leaves it, or observes nothing (`Blind`);
`LimitedSourceRecovers` and `QuietSourceReleased` are about behaviours in which it observes
again and again. `ShieldTelemetry`: the poller's ticker fires and its calls return.
`ReactionEngine`: a goroutine inside the engine runs on (locks are short, writes have a
timeout) except out of a notification, which has no deadline (`runtime_reaction.go:686`);
the saving goroutine runs, time passes; evaluations never have to begin. Packets,
evictions, errors and writes are never fair.

### What the violations say

* `shared_blind_revert` - `broker.go:559` reads the fencing token and `broker.go:582`
  reverts later; an `Apply` in between installs a stronger lease whose enforcement
  is then removed, while its row stays active.
* `edge_still_denied` - denying writes `edge4_deny`, reverting writes `edge4_allow`.
  XDP in deny mode reads only the former.
* `rejected_marked_uploaded` - an empty list of accepted receipts, and an answer that
  cannot be read, are taken for "all". The same reading is what lets the queue drain past a batch of refused
  receipts (`QueueDrains`): a fix has to provide another way past them.

* `quiet_source_blocked` - without a limit on renewals, the default, a block renews
  itself with the pack of the manual: the running expiry keeps the level at block
  (`fsm.go:242`), the rule proposes block again, the broker renews the lease, and the
  renewal moves the expiry ahead (`brokered_executor.go:279`).
  `_docs/testing/manual-test-guide.md:593-597` expects the level to come down when the load
  ends. `source_fsm` checks what is left: where renewals are limited, the source is released.

Limits of the properties that hold, each visible by loosening a run:

* A lease renewed after the sweep listed it is reverted all the same (`broker.go:515`).
* The prerequisite gate is checked (144-158) long before the activation (219): with the
  proposal applier, a sweep may settle the gating lease in between.
* A settled lease may come back: the upsert of a renewal (`broker.go:419-422`) writes
  "active" over what a sweep has just written. `LeaseLifecycle` says so, and that it
  happens only while no other lease of the tuple is active.
* `ExpiredEnforcementEnds` and `EnforcementLeased` suppose that nothing fails
  (`Undisturbed`). A crash or a journal error between `pep.Apply` (201) and the activation
  (219) leaves enforcement that `ReconcilePending` only marks as failed: nothing lifts it.
  `ApplyDeEnforceSource` drops map errors (`executor.go:124`), so the row says "reverted"
  and the entry stays.
* `NoWeakerBesideStronger` needs the journal's writes to succeed and the process to live.
* `DirectObserve` leaves the row active and the token in place, so a later
  proposal is answered "lease renewed" with nothing in the maps.
* Two leases of equal strength (drop, deny) share the maps and the token of their source.
  When the later one ends, nothing is enforced, although the older one may be active for
  longer; it ends as a conflict or a revert without effect. `SettledSourceIsLifted` and
  `FencedOffByLater` say what does hold.
* The journal's query has no adapter filter and the source broker is first: an
  expired relationship lease goes to the source PEP, whose complaint is swallowed,
  and it is marked reverted without its own PEP. `pair_journal` therefore speaks of
  source leases.
* A batch that Forge refuses with an error status every time stays in front of the queue
  for ever: rows marked "failed" are listed again, in the same order.
* `CountersBounded` and `RatesReal` compare with what came for the whole map. Of a single
  key they cannot: a late store carries the count of one key into the row of another.
* `RateHonoured` is about one bucket. Two CPUs that race for the first one make two,
  and a full map makes none; `CreatesOnce` bounds the first, `ChargedWhenLimited`
  excepts the second.
* `ActiveUntilOver` is about what is saved being consistent, not about it being new. Two
  copies may be written in the other order (`runtime_reaction.go:348`, 433, 514, 222), and
  a restart then loses the newer observation.
* `ActiveUntilOver` speaks of the clock, not of a caller's time. The shadow PDP may remove
  a detection that is over by its time (195) while the main loop, which began earlier, is
  still kept from firing it again (325): the loop then decides without it.
* `DetectionAlerted` and `AlertsSpaced` are about a living process and about attempts. An
  alert that was saved and not yet tried when the process ends still silences the next
  ones, and so does one whose notifications failed: nothing sees to it that one arrives.
* `OverdueEscalates` assumes that the source is evaluated again: nothing but an
  evaluation sweeps.

## 4. Proofs

All theorems rest on the modules' named assumptions only (`BrokerAssumption`,
`PairAssumption`, `UploaderAssumption`, `BucketAssumption`, `ShieldAssumption`,
`TelemetryAssumption`, `FSMAssumption`, `ReactionAssumption`) and on the hypotheses the
table names; they hold for any number of targets, leases, levels, goroutines and
faults, of CPUs, sources, edges, limits, map writes and rows, for every configuration of
the state machine, and for any rules, observations, failed saves and restarts.

| Theorem | Establishes |
|---|---|
| `ActionBrokerProofs!TypeCorrect` | `Spec => []TypeOK` |
| `ActionBrokerProofs!OneActiveLease` | `Spec => []OneActivePerTuple` |
| `ActionBrokerProofs!RenewalLimit` | `Spec => []RenewalsBounded` |
| `ActionBrokerProofs!NoDryRunSurvives` | `Spec => []NoDryRunLeaseInRealMode` |
| `ActionBrokerProofs!StrengthsAgree` | `NoWeakerBesideStronger` while no journal write has failed and the process lives |
| `ActionBrokerProofs!EnforcementBacked` | `EnforcementLeased` while no map or journal write has failed and the process lives |
| `ActionBrokerProofs!ImplementsLifecycle` | `Spec => LifecycleSpec`, the refinement of `LeaseLifecycle`, for any goroutines and failures |
| `BrokerPairProofs!PairTypeCorrect` | `Spec => []TypeOK` |
| `BrokerPairProofs!SourceSettledLifted` | `Spec => []SettledSourceIsLifted` |
| `BrokerPairProofs!OnlyLaterFences` | `Spec => []FencedOffByLater` |
| `BrokerPairProofs!SettledFinal` | `Spec => SettledStaysSettled` |
| `ReceiptUploaderProofs!QueueTypeCorrect` | `Spec => []TypeOK` |
| `ReceiptUploaderProofs!NothingLost` | `Spec => []NoReceiptLost` |
| `TokenBucketProofs!RefillKeepsBucket` | a refill stays in range, below the burst, and not ahead of the packet |
| `TokenBucketProofs!RefillCredit` | what is added is paid for by time; credit is lost only to a full bucket |
| `ShieldProofs!ShieldTypeCorrect` | `Spec => []TypeOK` |
| `ShieldProofs!OneBucketPerCpu` | `Spec => []CreatesOnce` |
| `ShieldProofs!BurstIsCap` | `Spec => []TokensCapped` |
| `ShieldProofs!RateLimitHolds` | `Spec => []RateHonoured` |
| `ShieldProofs!RefusalsJustified` | `Spec => RefusedOnlyOverLimit` |
| `ShieldProofs!CountersAddUp` | `Spec => []TotalsBalanced` |
| `ShieldProofs!DropsHaveCause` | `Spec => []DroppedHasCause` |
| `ShieldProofs!NoWayRound` | `Spec => []PassedIsPermitted` |
| `ShieldProofs!NoUnchargedPass` | `Spec => []ChargedWhenLimited` |
| `ShieldTelemetryProofs!TelemetryTypeCorrect` | `Spec => []TypeOK` |
| `ShieldTelemetryProofs!CountsAreOfPackets` | `Spec => []CountersBounded` |
| `ShieldTelemetryProofs!RatesOfTraffic` | `Spec => []RatesReal` |
| `SourceFSMProofs!FsmTypeCorrect` | `Spec => []TypeOK` |
| `SourceFSMProofs!LevelsAreEarned` | `Spec => EscalationEarned` |
| `SourceFSMProofs!BlocksRunTheirTime` | `Spec => BlockRunsItsTime` |
| `ReactionProofs!ReactionTypeCorrect` | `Spec => []TypeOK` |
| `ReactionProofs!DetectionLasts` | `Spec => []ActiveUntilOver` |
| `ReactionProofs!AlertsKeepDistance` | `Spec => AlertsSpaced` |
| `ReactionProofs!OneEscalation` | `Spec => EscalatesOnce` |
| `ReactionProofs!DetectionsCountObservations` | `Spec => DetectionsEarned` |

`SettledStaysSettled`, `CreatesOnce`, `TotalsBalanced` and `EscalatesOnce` are proved for
every instance, so no run repeats them.

`OneActivePerTuple` is not inductive: the update of a status is unconditional, so
one has to know what an `Apply` in flight may assume about rows it does not hold
a lock on. `BrokerInv` adds

* `NoActiveWhileApplying` - while `Apply` is past its look-up, its tuple has no
  active lease. Only `Apply` activates rows, one `Apply` is in flight, and the
  sweep only takes rows out of "active";
* `LeaseOfRequest` - the row in `ap.id` is of the request's tuple;
* `RenewalIsExclusive` - the lease that an `Apply` has found is the only one of its tuple
  that may be active, and one about to be renewed is below the limit. This is what makes
  the unconditional upsert of a renewal harmless for the tuple even when the sweep has
  just reverted the row.

The proof has one step per action; each cites only the conjuncts it can disturb.

The other properties of the broker need an invariant each, and a hypothesis where the
code needs it too (section 3 says what happens without it).

* `ModeInv` (`NoDryRunSurvives`): also the lease that an `Apply` in flight has found or made
  is of this process's mode. One failed journal write at start-up breaks it.
* `OrderInv` (`StrengthsAgree`): the check for stronger leases stays good until the
  activation, because only `Apply` activates and applies exclude each other; the
  supersede loop is the one place where two strengths meet, and what it retires is
  weaker than what it keeps. The sweep only takes leases away.
* `BackedInv` (`EnforcementBacked`): what the maps hold of a target is an active lease, or
  the one an `Apply` has just put there or is retiring; the token says which, except
  between the two writes. A lease in the hands of a sweep past its map write is
  enforced nowhere, so marking it takes nothing away.
* `LifeInv` (`ImplementsLifecycle`): what statuses a lease in somebody's hand may have. One
  that an `Apply` has made stays pending until it writes it; one it has found active may
  only have been settled by the sweep (`Revivable`), never failed; and the sweep holds only
  leases that were active. With `NoActiveWhileApplying` and `RenewalIsExclusive` each write
  of a status is then a step of `LeaseLifecycle`. The refinement maps `status` to `status`
  and the slot of a lease to its tuple; a crash, with what the next process retires and
  gives up on, is its `Restart`.

`PairInv` of the two brokers explains why their order in `RevertExpired` matters.
`SourceFirst` says that, while the journal answers, the source broker has every overdue
source lease on its list and leaves none for the relationship broker; rows created or
renewed during the pass expire after its `now`. So no source lease is settled by the broker
that cannot lift it. `FencedOff`, with `AppliedInThePast` and `NoForeignToken` (no PEP holds
a token for a target of the other), gives `FencedOffByLater`: what the source broker leaves
behind when it reverts an edge is never the token of another action's lease. `TodoLive` (a
listed row is active, or `Apply` has found it fenced off) gives `SettledStaysSettled`. One
lemma, `HandlesStep`, covers the handling of a row by either broker: each is shown to be a
step of `Handles`.

`QueueInv` of the receipt queue adds `MarksAreTaken`: the marks still to be written
of an answered upload are of receipts that Forge has taken.

The token bucket is proved in two layers. `TokenBucketProofs` deals with one refill:
`PartialRefill` shows that no product leaves 64 bits while the bucket is not full and
that the integer divisions round the safe way, `RefillCredit` states what the refill
is worth in clock units. `ShieldProofs` adds up over a behaviour. The invariant
`Accounted` relates each bucket to its account: from above, tokens let through and
tokens left are within the first tokens plus `(last - born) * rate`, plus less than one
unit of rounding a packet; from below, tokens left and packets used since the bucket was
last full are at least `cap` plus `(last - since) * low`. Neither `RateHonoured` nor
`RefusedOnlyOverLimit` is inductive without the other side of `last_ns`: a packet with
an older clock reading neither gains nor loses. `Live` says that an account exists
exactly while there is a bucket; from it, a CPU that is about to insert has not done
so before. `Frame` shows once that no other step touches any of this. For the counters,
`Tally` adds that inside a limiter `rl_hits` is already ahead of `drop_rl`.

What a verdict says about the rules is proved from `Witnessed`: at each program point
there are rules among those the packet met, in the order it met them, that account for
the branch taken so far: the lists (`ListsMet`), the limit of the source (`SourceMet`),
the mode and the edge (`EdgeMet`). A write of the control plane only adds to what was met
(`WitnessGrows`), so it is the steps of the packet's own CPU that need an argument, one
lemma each, over any history. Two look-ups need no common set of rules, which is what
`PassedIsPermitted` ("not forbidden all the time") and `DroppedHasCause` (in order, not at
once) say. A limit of an edge counts as a cause only after a mode was read: both need not
have held together, which a scenario of `shield` shows.

`TelemetryInv` counts what is owed. A packet has come as soon as a CPU receives it, and
`Owing` is the set of CPUs that have not yet added theirs to a counter of a map; `CountInv`
says that a counter of any element of the map, in use or free, and any value a CPU is about
to store, is at most what came less what is owed (`Room`). A store pays the debt of its own
CPU, which makes room for exactly one; whatever it overwrites was no more. Since `Room` is
of the map and not of a key, it does not matter whose row the element is by then. A rate
is the difference of two such values that did not go back (`RatesOfTraffic`).

`FsmInv` of the state machine has three parts: a streak in the state was seen
(`StreakInv`), severity that lasts is younger than the last mild tick (`MildInv`), and a
source whose block is enforced for a lease is at block itself, for the same time
(`BlockInv`), whatever was merged or projected into its state. `EscalationEarned` names the
level of the lease beside the source's own, since either may be the base of an escalation:
with a softer lease of another goroutine on the source, the step from hard limit to
block starts from the source's own level.

`ReactionInv` has a part for each thing that goroutines hand on. `CopiesSound`: what
`ActiveUntilOver` says holds not only of the maps but of every copy under way and of
the row, so it does not matter which is written last or loaded; `JobsSound` (a caller's
time is not ahead of the clock) is why an old reader cannot remove a detection too early.
`AlertInv`: alerts tried, and alerts emitted but not tried, are at most as late as the
last response, and all apart - the deduplication decides at `Emit`, while the property is
about `Tell`. `EscalationInv`: what is being escalated is marked in the maps, and no two
callers hold the same alert. The lemmas `...Goes` show once for each action what it may do
to its caller's job (`Goes`); the step lemmas argue from that.

`DetectionsEarned` compares two sums. `WindowsHonest` says that no copy of the windows, in
the maps, under way or saved, has more of an instant than was observed then; a restart
loads such a copy. What a detection adds up is then at most the sum of what was observed
in its window. The sum is the fold that `MapThenSumSet` evaluates, defined by
recursion over sets; `SubsetInduction` gives induction over the subsets of a finite set
(from the well-foundedness of the strict subset relation), `SumsExist` that the
recursion has a solution, `SumTake` that any element may be taken out first, `SumAtMost`
that the sum is monotone.

Model-checked only: the liveness properties (`ExpiredEnforcementEnds`,
`ExpiredLeaseSettles`, `QueueDrains`, `FlowsDrain`, `LimitedSourceRecovers`,
`OverdueEscalates`, `DetectionAlerted`), because the prover does not deal with fairness and
`ENABLED`. Every other property that a passing run checks is stated by a theorem.
`StrengthsAgree` and `EnforcementBacked` suppose that nothing fails, as section 3 says.

## 5. Plan

Done: `LeaseLifecycle`, `ActionBroker`, `BrokerPair`, `ReceiptUploader`, `TokenBucket`,
`Shield`, `ShieldTelemetry`, `SourceFSM`, `ReactionEngine`. Left, in this order:

1. `PolicyResolver`: `Resolve` as a function of proposal and policy over bounded
   inputs, against a reference definition (never above the ceiling, nothing
   without a pack); the resolver copied under its readers.
2. `RuntimeServices`: proposal, policy and signal channels with their drops, and
   `UpdateAutonomyConstraints` as an action of `ActionBroker`.
3. Bundles and the forge agent: verify, activate, fall back. What a first reading of the
   source says the module has to show (read, not checked by any run here):
   - the start-up restores the bundle's hash before it applies the last-known-good
     bundle (`kliq.go:717-722`, `745-748`), and `applyBundleUpdate` returns at once for
     an unchanged hash (`managed.go:63-67`), so after a restart the file is not applied;
   - the resolver is synchronised before the enforcement bounds reach `cfg`
     (`managed.go:87`, `112`), so it keeps the ceiling of the pack;
   - the next bundle is checked against the `PolicyMaxAction` the last one left
     (`managed.go:255-262`), so a newer one with stronger rules may be refused;
   - packs are applied to `cfg` on the heartbeat's goroutine (`kliq.go:862-880`) beside
     the main loop's bundles, where `managed.go:10-14` counts on a single writer.
4. Proofs: the theorems of the modules above.

## 6. Not modelled, and why

CEL expressions, severity scores and baselines (floating point); signatures and
parsing (abstract or absent); of the XDP program the sampled events and the per-CPU
histograms, which nothing decides on, and the bytes of headers; netfilter and OpenZiti
rule text; commands, reports and configuration files (input and output).

Times are numbers. The journal stores them as RFC3339Nano and compares texts
(`util.go:19`, `action_leases.go:141`): the fraction loses its trailing zeros, so two
times in one second may be in the wrong order. A lease is then reverted one sweep early
or late, which no property here tells apart.

Of the reaction engine: which rule and subject match, counting of metrics, rendering of
notifications, and blast-radius checks.

Of the two C files, `shield/bpf/include/vmlinux.h` is generated from a kernel's type
information: 112955 lines of declarations without behaviour. Nothing in it can be
modelled, so any share of the C lines taken over both files stays close to zero, while
about two thirds of the program itself (`xdp_kernloom_shield.bpf.c`) is mapped.

`PROJECT.json` lists every component with its status and every hazard with the
property that covers it, or the reason none does yet.
