------------------------------- MODULE Shield -------------------------------
(***************************************************************************)
(* The decision of the XDP program (xdp_klshield, SEC("xdp")) on several   *)
(* CPUs, while the control plane writes the maps.  The program takes no    *)
(* lock but the one in a bucket, so every access to a shared map is a step *)
(* of its own; what a CPU keeps to itself (parsing, per-CPU counters) goes *)
(* with the step before it.  The telemetry maps are in ShieldTelemetry.    *)
(***************************************************************************)
EXTENDS TokenBucket, Sequences, FiniteSets

CONSTANTS
    CPU,
    None,
    Source,         \* source addresses
    V4,             \* those of them that are IPv4 addresses
    Port,           \* destination port and protocol; 0 stands for no port
    Cidr,           \* prefixes, each the set of sources it covers
    MaxRate,        \* limits that are set stay below these two
    MaxBurst,
    Limits,         \* the limits the control plane sets
    Scopes,         \* the scenarios, see Scope
    StateCapacity   \* max_entries of a bucket map

Edge   == [src : V4, port : Port]             \* struct edge4_key
Packet == [src : Source, port : Port \cup {0}]

NoPacket == CHOOSE p \in Packet : TRUE

\* A bucket's key: an edge, or a source (port 0).
Key == Edge \cup [src : Source, port : {0}]

Settable == [rate : 0..MaxRate, burst : 0..MaxBurst]

Rules ==
    [enforce : BOOLEAN, allow : SUBSET Cidr, deny : SUBSET Source,
     def : Settable, policy : [Source -> Settable], mode : 0..2,
     edgeDeny : SUBSET Edge, edgeAllow : SUBSET Edge, edgeRl : [Edge -> Settable]]

MapName == {"cfg", "allow", "deny", "rl_cfg", "rl_policy", "edge4_cfg",
            "edge4_deny", "edge4_allow", "edge4_rl"}

\* What happens in a behaviour: the packets that come (cut: also frames the parser
\* gives up on), the maps that are written; and the bounds: packets of a CPU, map
\* writes, the time when the clock stops.
Scope == [packets : SUBSET Packet, cut : BOOLEAN, maps : SUBSET MapName,
          perCpu : Nat, writes : Nat, until : Word]

ASSUME ShieldAssumption ==
    /\ IsFiniteSet(CPU) /\ CPU # {} /\ None \notin CPU
    /\ Source # {} /\ V4 \subseteq Source
    /\ Port \subseteq Nat \ {0}
    /\ Cidr \subseteq SUBSET Source
    /\ MaxRate \in Nat /\ MaxBurst \in Nat
    /\ Fits([rate |-> MaxRate, burst |-> MaxBurst])
    /\ Limits \subseteq Settable
    /\ Scopes \subseteq [rules : Rules, scope : Scope]
    /\ StateCapacity \in Nat

VARIABLES
    scope,    \* packets and writes of this behaviour
    rules,    \* the control maps
    bucket,   \* bucket[k][c]: the rl_state element that CPU c inserted for key k
    current,  \* current[k]: whose element the map holds for k
    pc,       \* where the program is on each CPU, "idle" between packets
    pkt,      \* the packet a CPU works on
    now,      \* its bpf_ktime_get_ns, read once
    stage,    \* which limiter a CPU is in: "source" or "edge"
    limit,    \* the rl_cfg_t pointer a CPU holds
    at,       \* the bucket a CPU has looked up
    mode,     \* edge mode a CPU has read
    drop,     \* "none" or the drop_ flag that is set
    totals,   \* xdp_totals, per CPU
    clock,
    writes,
    during,   \* history: the rules since the CPU's packet came, in order
    paid,     \* history: limiters whose bucket has charged the packet, or was full
    ledger    \* history: account of each bucket

progVars == <<pc, pkt, now, stage, limit, at, mode, drop, totals>>
bucketVars == <<bucket, current, ledger>>
vars == <<scope, rules, bucketVars, progVars, clock, writes, during, paid>>

-----------------------------------------------------------------------------
(* What the program computes from what it has read.                        *)

\* in_allow: longest-prefix match finds some prefix.
Allowed(r, s) == \E p \in r.allow : s \in p

\* Wrong variant of EdgeBlocked: the modes swapped.
EdgeBlockedSwapped(r, m, e) == IF m = 1 THEN e \notin r.edgeAllow ELSE e \in r.edgeDeny

\* Only the map of the mode that was read is consulted.
EdgeBlocked(r, m, e) == IF m = 2 THEN e \notin r.edgeAllow ELSE e \in r.edgeDeny

\* A pointer to the element of the array xdp_rl_cfg, or to a hash element, which a
\* later update replaces and does not change.
ToDefault      == [live |-> TRUE, is |-> NoLimit]
ToPolicy(l)    == [live |-> FALSE, is |-> l]
Pointed(r, p)  == IF p.live THEN r.def ELSE p.is

\* Wrong variant of Override: an override of 0 takes the limit away.
OverrideByZero(r, s, p) == ToPolicy(r.policy[s])

\* select_rl: an override counts if both its numbers are set.
Override(r, s, p) == IF IsSet(r.policy[s]) THEN ToPolicy(r.policy[s]) ELSE p

\* Wrong variant of InitialTokens: no care for a burst that was cleared meanwhile.
InitialTokensUnchecked(l) == l.burst - 1

\* The first packet is charged when its bucket is created.
InitialTokens(l) == IF l.burst > 0 THEN l.burst - 1 ELSE 0

\* The edge stage is for IPv4 packets with a destination port.
HasEdge(p) == p.src \in V4 /\ p.port # 0

BucketKey(c) == IF stage[c] = "source" THEN [src |-> pkt[c].src, port |-> 0] ELSE pkt[c]

\* Where a packet goes that a limiter lets through.
Onward(c) == IF stage[c] = "source" /\ HasEdge(pkt[c]) THEN "mode" ELSE "verdict"

\* The maps xdp_rl_state4, xdp_rl_state6 and edge4_rl_state, which fill up separately.
SameMap(k, j) ==
    (k.port = 0) = (j.port = 0) /\ (k.src \in V4) = (j.src \in V4)

HasRoom(k) ==
    Cardinality({j \in Key : SameMap(k, j) /\ current[j] # None}) < StateCapacity

\* bpf_map_lookup_elem on the bucket map.
Found(k) == current[k] # None

-----------------------------------------------------------------------------
(* The program, on CPU c.                                                  *)

Count(c, fields) ==
    totals' = [totals EXCEPT ![c] = [f \in DOMAIN @ |-> IF f \in fields THEN @[f] + 1 ELSE @[f]]]

Goto(c, where) == pc' = [pc EXCEPT ![c] = where]

\* The packet is dropped and skips the rest of the rules.
Drop(c, why) ==
    /\ drop' = [drop EXCEPT ![c] = why]
    /\ Goto(c, "verdict")

\* A packet comes: totals_add_basic and parsing.
Receive(c, p) ==
    /\ pc[c] = "idle" /\ totals[c].pkts < scope.perCpu
    /\ p \in scope.packets
    /\ pkt' = [pkt EXCEPT ![c] = p]
    /\ now' = [now EXCEPT ![c] = clock]
    /\ Count(c, {"pkts"})
    /\ during' = [during EXCEPT ![c] = <<rules>>]
    /\ paid' = [paid EXCEPT ![c] = {}]
    /\ Goto(c, "config")
    /\ UNCHANGED <<scope, rules, bucketVars, stage, limit, at, mode, drop, clock, writes>>

\* A frame that is no IP packet, or is cut short, is passed at once.
ReceiveUnparsed(c) ==
    /\ pc[c] = "idle" /\ scope.cut /\ totals[c].pkts < scope.perCpu
    /\ Count(c, {"pkts", "pass"})
    /\ UNCHANGED <<scope, rules, bucketVars, pc, pkt, now, stage, limit, at, mode, drop,
                   clock, writes, during, paid>>

\* xdp_cfg is read once, before the rules that depend on it.
ReadConfig(c) ==
    /\ pc[c] = "config"
    /\ Goto(c, IF rules.enforce THEN "allow" ELSE "deny")
    /\ UNCHANGED <<scope, rules, bucketVars, pkt, now, stage, limit, at, mode, drop, totals,
                   clock, writes, during, paid>>

\* Wrong variant of AllowLookup: a listed source is not looked up in the deny list.
AllowLookupFinal(c) ==
    /\ pc[c] = "allow"
    /\ \/ /\ Allowed(rules, pkt[c].src)
          /\ Count(c, {"allow_hits"})
          /\ Goto(c, "default")
          /\ UNCHANGED drop
       \/ /\ ~ Allowed(rules, pkt[c].src)
          /\ Drop(c, "allow")
          /\ UNCHANGED totals
    /\ UNCHANGED <<scope, rules, bucketVars, pkt, now, stage, limit, at, mode,
                   clock, writes, during, paid>>

\* Nothing to look up unless the list is enforced: a source that is not covered is dropped.
AllowLookup(c) ==
    /\ pc[c] = "allow"
    /\ \/ /\ Allowed(rules, pkt[c].src)
          /\ Count(c, {"allow_hits"})
          /\ Goto(c, "deny")
          /\ UNCHANGED drop
       \/ /\ ~ Allowed(rules, pkt[c].src)
          /\ Drop(c, "allow")
          /\ UNCHANGED totals
    /\ UNCHANGED <<scope, rules, bucketVars, pkt, now, stage, limit, at, mode,
                   clock, writes, during, paid>>

DenyLookup(c) ==
    /\ pc[c] = "deny"
    /\ \/ /\ pkt[c].src \in rules.deny
          /\ Count(c, {"deny_hits"})
          /\ Drop(c, "deny")
       \/ /\ pkt[c].src \notin rules.deny
          /\ Goto(c, "default")
          /\ UNCHANGED <<drop, totals>>
    /\ UNCHANGED <<scope, rules, bucketVars, pkt, now, stage, limit, at, mode,
                   clock, writes, during, paid>>

\* select_rl, first map: the default limit.
SelectDefault(c) ==
    /\ pc[c] = "default"
    /\ limit' = [limit EXCEPT ![c] = IF IsSet(rules.def) THEN ToDefault ELSE ToPolicy(NoLimit)]
    /\ stage' = [stage EXCEPT ![c] = "source"]
    /\ Goto(c, "override")
    /\ UNCHANGED <<scope, rules, bucketVars, pkt, now, at, mode, drop, totals,
                   clock, writes, during, paid>>

\* select_rl, second map: the limit of this source.
SelectOverride(c) ==
    /\ pc[c] = "override"
    /\ LET p == Override(rules, pkt[c].src, limit[c])
       IN  /\ limit' = [limit EXCEPT ![c] = p]
           /\ \/ /\ p = ToPolicy(NoLimit)
                 /\ Goto(c, Onward(c))
                 /\ UNCHANGED totals
              \/ /\ p # ToPolicy(NoLimit)
                 /\ Count(c, {"rl_hits"})
                 /\ Goto(c, "lookup")
    /\ UNCHANGED <<scope, rules, bucketVars, pkt, now, stage, at, mode, drop,
                   clock, writes, during, paid>>

\* The lookup in the bucket map, of either limiter.
BucketLookup(c) ==
    /\ pc[c] = "lookup"
    /\ \/ /\ Found(BucketKey(c))
          /\ at' = [at EXCEPT ![c] = current[BucketKey(c)]]
          /\ Goto(c, "charge")
       \/ /\ ~ Found(BucketKey(c))
          /\ Goto(c, "burst")
          /\ UNCHANGED at
    /\ UNCHANGED <<scope, rules, bucketVars, pkt, now, stage, limit, mode, drop, totals,
                   clock, writes, during, paid>>

\* The account of a bucket.  Since it was made: when (born), its first tokens and
\* its creator's (first), packets let through (spent), the highest limit that
\* charged it (rate, burst).  Since it was last full: when (since), tokens then
\* (cap), packets since then (used), the lowest rate (low).
NewAccount(l, t) ==
    LET n == InitialTokens(l) + 1
    IN  [born |-> t, first |-> n, spent |-> 1, rate |-> l.rate, burst |-> n,
         since |-> t, cap |-> n, used |-> 1, low |-> l.rate]

AtLeast(a, b) == IF a >= b THEN a ELSE b
AtMost(a, b)  == IF a <= b THEN a ELSE b

Entered(a, b, l, t) ==
    LET one   == IF Allows(b, l, t) THEN 1 ELSE 0
        fresh == b.tokens < l.burst /\ Refill(b, l, t) = [last |-> t, tokens |-> l.burst]
    IN  [born |-> a.born, first |-> a.first, spent |-> a.spent + one,
         rate |-> AtLeast(a.rate, l.rate), burst |-> AtLeast(a.burst, l.burst),
         since |-> IF fresh THEN t ELSE a.since,
         cap   |-> IF fresh THEN l.burst ELSE a.cap,
         used  |-> IF fresh THEN one ELSE a.used + one,
         low   |-> IF fresh THEN l.rate ELSE AtMost(a.low, l.rate)]

\* tb_allow_and_update: refill and charge under the lock of the bucket, with the
\* numbers the limit has now.  A limit that was cleared meanwhile allows.
ChargeBucket(c) ==
    /\ pc[c] = "charge"
    /\ LET k == BucketKey(c)
           b == bucket[k][at[c]]
           l == Pointed(rules, limit[c])
       IN  \/ /\ ~ IsSet(l)
              /\ Goto(c, Onward(c))
              /\ UNCHANGED <<bucket, ledger, drop, paid>>
           \/ /\ IsSet(l)
              /\ bucket' = [bucket EXCEPT ![k][at[c]] = Charged(b, l, now[c])]
              /\ ledger' = [ledger EXCEPT ![k][at[c]] = Entered(@, b, l, now[c])]
              /\ paid' = [paid EXCEPT ![c] = @ \cup {stage[c]}]
              /\ \/ Allows(b, l, now[c]) /\ Goto(c, Onward(c)) /\ UNCHANGED drop
                 \/ ~ Allows(b, l, now[c]) /\ Drop(c, "rl")
    /\ UNCHANGED <<scope, rules, current, pkt, now, stage, limit, at, mode, totals,
                   clock, writes, during>>

\* The burst for the first bucket of a key is read before the insertion.
ReadBurst(c) ==
    /\ pc[c] = "burst"
    /\ limit' = [limit EXCEPT ![c] = ToPolicy(Pointed(rules, @))]
    /\ Goto(c, "create")
    /\ UNCHANGED <<scope, rules, bucketVars, pkt, now, stage, at, mode, drop, totals,
                   clock, writes, during, paid>>

\* bpf_map_update_elem(BPF_ANY) of a first bucket; its result is ignored, so a
\* full map leaves the packet without a limit.  BPF_ANY replaces what another CPU
\* inserted since the lookup; a CPU that has looked that up keeps using it.
CreateBucket(c) ==
    /\ pc[c] = "create"
    /\ LET k == BucketKey(c)
           l == Pointed(rules, limit[c])
       IN  IF current[k] # None \/ HasRoom(k)
           THEN /\ bucket' = [bucket EXCEPT ![k][c] = [last |-> now[c], tokens |-> InitialTokens(l)]]
                /\ current' = [current EXCEPT ![k] = c]
                /\ ledger' = [ledger EXCEPT ![k][c] = NewAccount(l, now[c])]
           ELSE UNCHANGED bucketVars
    /\ paid' = [paid EXCEPT ![c] = @ \cup {stage[c]}]
    /\ Goto(c, Onward(c))
    /\ UNCHANGED <<scope, rules, pkt, now, stage, limit, at, mode, drop, totals,
                   clock, writes, during>>

\* edge4_cfg: mode 0 is off.
ReadMode(c) ==
    /\ pc[c] = "mode"
    /\ mode' = [mode EXCEPT ![c] = rules.mode]
    /\ Goto(c, IF rules.mode = 0 THEN "verdict" ELSE "edge")
    /\ UNCHANGED <<scope, rules, bucketVars, pkt, now, stage, limit, at, drop, totals,
                   clock, writes, during, paid>>

EdgeLookup(c) ==
    /\ pc[c] = "edge"
    /\ \/ /\ EdgeBlocked(rules, mode[c], pkt[c])
          /\ Count(c, {"deny_hits"})
          /\ Drop(c, "deny")
       \/ /\ ~ EdgeBlocked(rules, mode[c], pkt[c])
          /\ Goto(c, "edgelimit")
          /\ UNCHANGED <<drop, totals>>
    /\ UNCHANGED <<scope, rules, bucketVars, pkt, now, stage, limit, at, mode,
                   clock, writes, during, paid>>

\* select_edge_rl_v4: there is no default for edges.
SelectEdge(c) ==
    /\ pc[c] = "edgelimit"
    /\ \/ /\ IsSet(rules.edgeRl[pkt[c]])
          /\ limit' = [limit EXCEPT ![c] = ToPolicy(rules.edgeRl[pkt[c]])]
          /\ stage' = [stage EXCEPT ![c] = "edge"]
          /\ Count(c, {"rl_hits"})
          /\ Goto(c, "lookup")
       \/ /\ ~ IsSet(rules.edgeRl[pkt[c]])
          /\ Goto(c, "verdict")
          /\ UNCHANGED <<limit, stage, totals>>
    /\ UNCHANGED <<scope, rules, bucketVars, pkt, now, at, mode, drop,
                   clock, writes, during, paid>>

\* The counter of a verdict.
Outcome(why) == IF why = "none" THEN "pass"
                ELSE IF why = "allow" THEN "drop_allow"
                ELSE IF why = "deny" THEN "drop_deny" ELSE "drop_rl"

\* The verdict is counted and returned; the locals of the invocation are gone.
Verdict(c) ==
    /\ pc[c] = "verdict"
    /\ Count(c, {Outcome(drop[c])})
    /\ Goto(c, "idle")
    /\ pkt' = [pkt EXCEPT ![c] = NoPacket]
    /\ now' = [now EXCEPT ![c] = 0]
    /\ at' = [at EXCEPT ![c] = c]
    /\ drop' = [drop EXCEPT ![c] = "none"]
    /\ stage' = [stage EXCEPT ![c] = "source"]
    /\ limit' = [limit EXCEPT ![c] = ToPolicy(NoLimit)]
    /\ mode' = [mode EXCEPT ![c] = 0]
    /\ during' = [during EXCEPT ![c] = <<>>]
    /\ paid' = [paid EXCEPT ![c] = {}]
    /\ UNCHANGED <<scope, rules, bucketVars, clock, writes>>

-----------------------------------------------------------------------------
(* The control plane: klshield, KLIQ.  Each map write is a step.           *)

Rewrite(m, r) ==
    /\ m \in scope.maps
    /\ writes < scope.writes /\ writes' = writes + 1
    /\ r # rules
    /\ rules' = r
    /\ during' = [c \in CPU |-> IF pc[c] = "idle" THEN during[c] ELSE Append(during[c], r)]
    /\ UNCHANGED <<scope, bucketVars, progVars, clock, paid>>

\* Adds or deletes one key.
Toggle(S, x) == IF x \in S THEN S \ {x} ELSE S \cup {x}

WriteConfig == Rewrite("cfg", [rules EXCEPT !.enforce = ~ @])

WriteAllow == \E p \in Cidr : Rewrite("allow", [rules EXCEPT !.allow = Toggle(@, p)])

WriteDeny == \E s \in Source : Rewrite("deny", [rules EXCEPT !.deny = Toggle(@, s)])

\* An array element is updated in place, one word after the other.
WriteDefault ==
    \E l \in Limits \cup {NoLimit} :
        \/ Rewrite("rl_cfg", [rules EXCEPT !.def.rate = l.rate])
        \/ Rewrite("rl_cfg", [rules EXCEPT !.def.burst = l.burst])

\* A hash element is replaced as a whole; without an entry the limit is NoLimit.
WritePolicy ==
    \E s \in Source, l \in Limits \cup {NoLimit} :
        Rewrite("rl_policy", [rules EXCEPT !.policy[s] = l])

WriteMode == \E m \in 0..2 : Rewrite("edge4_cfg", [rules EXCEPT !.mode = m])

\* The edge maps are LRU hashes: an entry may also go because others came.
WriteEdgeDeny == \E e \in Edge : Rewrite("edge4_deny", [rules EXCEPT !.edgeDeny = Toggle(@, e)])

WriteEdgeAllow == \E e \in Edge : Rewrite("edge4_allow", [rules EXCEPT !.edgeAllow = Toggle(@, e)])

WriteEdgeLimit ==
    \E e \in Edge, l \in Limits \cup {NoLimit} :
        Rewrite("edge4_rl", [rules EXCEPT !.edgeRl[e] = l])

Tick ==
    /\ clock < scope.until
    /\ clock' = clock + 1
    /\ UNCHANGED <<scope, rules, bucketVars, progVars, writes, during, paid>>

-----------------------------------------------------------------------------
NoBucket  == [last |-> 0, tokens |-> 0]
NoAccount == [born |-> 0, first |-> 0, spent |-> 0, rate |-> 0, burst |-> 0,
              since |-> 0, cap |-> 0, used |-> 0, low |-> 0]
NoTotals  == [pkts |-> 0, pass |-> 0, drop_allow |-> 0, drop_deny |-> 0, drop_rl |-> 0,
              allow_hits |-> 0, deny_hits |-> 0, rl_hits |-> 0]

Init ==
    /\ \E s \in Scopes : rules = s.rules /\ scope = s.scope
    /\ bucket = [k \in Key |-> [c \in CPU |-> NoBucket]]
    /\ current = [k \in Key |-> None]
    /\ pc = [c \in CPU |-> "idle"]
    /\ pkt = [c \in CPU |-> NoPacket]
    /\ now = [c \in CPU |-> 0]
    /\ stage = [c \in CPU |-> "source"]
    /\ limit = [c \in CPU |-> ToPolicy(NoLimit)]
    /\ at = [c \in CPU |-> c]
    /\ mode = [c \in CPU |-> 0]
    /\ drop = [c \in CPU |-> "none"]
    /\ totals = [c \in CPU |-> NoTotals]
    /\ clock = 0
    /\ writes = 0
    /\ during = [c \in CPU |-> <<>>]
    /\ paid = [c \in CPU |-> {}]
    /\ ledger = [k \in Key |-> [c \in CPU |-> NoAccount]]

Step(c) ==
    \/ \E p \in Packet : Receive(c, p)
    \/ ReceiveUnparsed(c)
    \/ ReadConfig(c) \/ AllowLookup(c) \/ DenyLookup(c)
    \/ SelectDefault(c) \/ SelectOverride(c)
    \/ BucketLookup(c) \/ ChargeBucket(c) \/ ReadBurst(c) \/ CreateBucket(c)
    \/ ReadMode(c) \/ EdgeLookup(c) \/ SelectEdge(c)
    \/ Verdict(c)

Control ==
    \/ WriteConfig \/ WriteAllow \/ WriteDeny
    \/ WriteDefault \/ WritePolicy
    \/ WriteMode \/ WriteEdgeDeny \/ WriteEdgeAllow \/ WriteEdgeLimit

Next == (\E c \in CPU : Step(c)) \/ Control \/ Tick

Spec == Init /\ [][Next]_vars

-----------------------------------------------------------------------------
(* Properties.                                                             *)

Where == {"idle", "config", "allow", "deny", "default", "override", "lookup", "charge",
          "burst", "create", "mode", "edge", "edgelimit", "verdict"}
Why   == {"none", "allow", "deny", "rl"}

\* Every variable has its type; in particular a bucket never holds a number that
\* is no 64-bit word (line 950 guards the subtraction).
TypeOK ==
    /\ scope \in Scope
    /\ rules \in Rules
    /\ bucket \in [Key -> [CPU -> Bucket]]
    /\ current \in [Key -> CPU \cup {None}]
    /\ pc \in [CPU -> Where]
    /\ pkt \in [CPU -> Packet]
    /\ now \in [CPU -> Word]
    /\ stage \in [CPU -> {"source", "edge"}]
    /\ limit \in [CPU -> [live : BOOLEAN, is : Settable]]
    /\ at \in [CPU -> CPU]
    /\ mode \in [CPU -> 0..2]
    /\ drop \in [CPU -> Why]
    /\ totals \in [CPU -> [DOMAIN NoTotals -> Nat]]
    /\ clock \in Word
    /\ writes \in Nat
    /\ during \in [CPU -> Seq(Rules)]
    /\ paid \in [CPU -> SUBSET {"source", "edge"}]
    /\ ledger \in [Key -> [CPU -> [DOMAIN NoAccount -> Nat]]]

\* Each packet is counted under exactly one verdict, and every drop by a list or a
\* limiter has its hit, so that the totals KLIQ reads add up (lines 1017-1022).
TotalsBalanced ==
    \A c \in CPU :
        LET t == totals[c]
        IN  /\ t.pkts = t.pass + t.drop_allow + t.drop_deny + t.drop_rl
                          + (IF pc[c] = "idle" THEN 0 ELSE 1)
            /\ t.deny_hits = t.drop_deny + (IF drop[c] = "deny" THEN 1 ELSE 0)
            /\ t.drop_rl + (IF drop[c] = "rl" THEN 1 ELSE 0) <= t.rl_hits

\* The rules in force at some time of c's packet, and at that time or later.
Once(c, P(_)) == \E i \in DOMAIN during[c] : P(during[c][i])
Throughout(c, P(_)) == \A i \in DOMAIN during[c] : P(during[c][i])
InOrder(c, P(_), Q(_)) ==
    \E i, j \in DOMAIN during[c] : i <= j /\ P(during[c][i]) /\ Q(during[c][j])

\* A dropped packet has its cause in the rules it met, read in the program's
\* order: the allow list was enforced and then did not cover the source; or the
\* source was denied; or the edge was refused under a mode that was set before; or
\* a limit was set, an edge's after a mode (lines 930-1013).
DroppedHasCause ==
    \A c \in CPU : pc[c] = "verdict" =>
        LET s == pkt[c].src
        IN  /\ drop[c] = "allow" =>
                 InOrder(c, LAMBDA r : r.enforce, LAMBDA r : ~ Allowed(r, s))
            /\ drop[c] = "deny" =>
                 \/ Once(c, LAMBDA r : s \in r.deny)
                 \/ /\ HasEdge(pkt[c])
                    /\ \/ InOrder(c, LAMBDA r : r.mode = 1, LAMBDA r : pkt[c] \in r.edgeDeny)
                       \/ InOrder(c, LAMBDA r : r.mode = 2, LAMBDA r : pkt[c] \notin r.edgeAllow)
            /\ drop[c] = "rl" =>
                 \/ Once(c, LAMBDA r : IsSet(r.def) \/ IsSet(r.policy[s]))
                 \/ /\ HasEdge(pkt[c])
                    /\ InOrder(c, LAMBDA r : r.mode # 0, LAMBDA r : IsSet(r.edgeRl[pkt[c]]))

\* A packet that passes was not forbidden all the time it was in the program: its
\* source denied, or left out of an enforced allow list, or its edge refused.
\* Writes of the control plane in the middle do not open a way round
\* (lines 930-993; "No race window" of line 967).
PassedIsPermitted ==
    \A c \in CPU : pc[c] = "verdict" /\ drop[c] = "none" =>
        LET s == pkt[c].src
        IN  /\ ~ Throughout(c, LAMBDA r : s \in r.deny)
            /\ ~ Throughout(c, LAMBDA r : r.enforce /\ ~ Allowed(r, s))
            /\ HasEdge(pkt[c]) =>
                 /\ ~ Throughout(c, LAMBDA r : r.mode = 1 /\ pkt[c] \in r.edgeDeny)
                 /\ ~ Throughout(c, LAMBDA r : r.mode = 2 /\ pkt[c] \notin r.edgeAllow)

\* A packet that passes under a limit that was set all the time has been charged to
\* a bucket of that limiter, or met a full bucket map: no change of another limit,
\* and no race for the bucket, lets it pass uncharged (lines 943-960, 994-1010).
ChargedWhenLimited ==
    \A c \in CPU : pc[c] = "verdict" /\ drop[c] = "none" =>
        /\ \/ Throughout(c, LAMBDA r : IsSet(r.def))
           \/ Throughout(c, LAMBDA r : IsSet(r.policy[pkt[c].src]))
           => "source" \in paid[c]
        /\ /\ HasEdge(pkt[c])
           /\ Throughout(c, LAMBDA r : r.mode # 0 /\ IsSet(r.edgeRl[pkt[c]]))
           => "edge" \in paid[c]

\* A bucket lets through what it started with and what its highest rate earns in
\* the time since, whatever the order in which CPUs charge it; each later packet may
\* gain less than one clock unit's worth by rounding (manual-test-guide.md:566-574).
RateHonoured ==
    \A k \in Key, c \in CPU :
        LET a == ledger[k][c]
        IN  a.spent > 0 =>
              a.spent * NSEC <= a.first * NSEC + (clock - a.born) * a.rate + (a.spent - 1) * (a.rate - 1)

\* A bucket never saves up more than a burst some limit allowed it: a quiet source
\* cannot come back with more (lines 562-573).
TokensCapped ==
    \A k \in Key, c \in CPU : ledger[k][c].spent > 0 =>
        bucket[k][c].tokens < ledger[k][c].burst

\* A CPU makes the bucket of a key once: with BPF_ANY two CPUs may both make the
\* first one and the key gets a burst from each, but no more than that
\* (lines 947-954).
CreatesOnce ==
    \A c \in CPU : pc[c] \in {"burst", "create"} => ledger[BucketKey(c)][c].spent = 0

\* A packet refused by a limiter really was over the limit: with it, the bucket
\* would have let through more since it was last full than that burst and the
\* lowest rate in force since then allow.  No credit is lost to rounding, nor to
\* clocks of other CPUs (lines 562-582).
RefusedOnlyOverLimit ==
    [][\A c \in CPU : drop[c] = "none" /\ drop'[c] = "rl" =>
         LET k == BucketKey(c)
             a == ledger[k][at[c]]
             z == ledger'[k][at[c]]
         IN  (z.used + 1) * NSEC > z.cap * NSEC + (now[c] - z.since) * z.low]_vars
=============================================================================
