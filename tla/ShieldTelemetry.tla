-------------------------- MODULE ShieldTelemetry ---------------------------
(***************************************************************************)
(* What xdp_klshield counts after its verdict, in LRU maps that all CPUs   *)
(* share without a lock or an atomic (src4_update, src6_update,            *)
(* flow4_update), and two readers in KLIQ: the rates of the runtime        *)
(* adapter and the read-and-clear poll of flows.  A counter is loaded and  *)
(* stored in two steps, in an element that may belong to another key by    *)
(* then: an LRU map gives the element of a deleted or evicted row to the   *)
(* next one at once.  The verdict comes from Shield; here it is given.     *)
(***************************************************************************)
EXTENDS Integers, Sequences

CONSTANTS
    CPU,
    Source,        \* source addresses
    V4,            \* those that are IPv4: only they have flow rows
    Packets,       \* packets that come: source, port and verdict
    Slot,          \* elements of each map
    None,          \* no element, no key
    U64,           \* 2^64: the readers subtract modulo this
    Scopes         \* the scenarios, see Scope

Map     == {"src4", "src6", "flow4"}
Counter == {"pkts", "pass", "drop", "changes"}
Ports   == {p.port : p \in Packets}
Flow    == [src : V4, port : Ports]     \* struct flow4_key
Key     == Source \cup Flow

MapOf(k) == IF k \in V4 THEN "src4" ELSE IF k \in Source THEN "src6" ELSE "flow4"

\* What may still happen in a behaviour, and so the bounds: which packets and how
\* many, rows the LRU maps evict, iterations and deletions of flows that end in an
\* error, rows that the rate reader reads.
Scope == [kinds : SUBSET Packets, packets : Nat, evictions : Nat, failures : Nat, samples : Nat]

ASSUME TelemetryAssumption ==
    /\ Packets \subseteq [src : Source, port : Nat, verdict : {"pass", "drop"}]
    /\ Packets # {} /\ V4 \subseteq Source /\ Source \cap Flow = {}
    /\ None \notin Slot /\ None \notin Key
    /\ U64 \in Nat \ {0}
    /\ Scopes \subseteq Scope

VARIABLES
    at,         \* at[k]: the element that the map of k has for it, or None
    element,    \* element[m][s]: what element s of map m holds, in use or free
    pc,         \* where the program is on each CPU
    pkt,        \* the packet of a CPU
    work,       \* the element a CPU has looked up and the counters still to add to
    loaded,     \* the counter value a CPU has loaded
    prev,       \* prev4, prev6: the counters of the last sample
    rates,      \* the increases the last valid sample reported
    poll,       \* pollFlow4 in flight
    came,       \* history: packets for each map, by counter
    scope       \* what may still happen

mapVars     == <<at, element>>
programVars == <<pc, pkt, work, loaded>>
readerVars  == <<prev, rates, poll>>
vars == <<mapVars, programVars, readerVars, came, scope>>

Uses(what) == scope[what] > 0 /\ scope' = [scope EXCEPT ![what] = @ - 1]

Zero == [n \in Counter |-> 0]

FlowOf(p) == [src |-> p.src, port |-> p.port]

IdlePoll == [at |-> "idle", unread |-> {}, cursor |-> None, met |-> {}]

Live(k) == at[k] # None

Free(m) == {s \in Slot : \A k \in Key : MapOf(k) = m => at[k] # s}

-----------------------------------------------------------------------------
(* The program.                                                            *)

\* The maps and counters a packet is counted in.
MapsOf(p) == {MapOf(p.src)} \cup (IF p.src \in V4 THEN {"flow4"} ELSE {})

CountersOf(p) == {"pkts", p.verdict, "changes"}

\* The verdict is known and counted in the totals; the telemetry maps follow.
Receive(c, p) ==
    /\ pc[c] = "idle"
    /\ p \in scope.kinds /\ Uses("packets")
    /\ pkt' = [pkt EXCEPT ![c] = p]
    /\ work' = [work EXCEPT ![c] = [key |-> p.src, slot |-> None, todo |-> <<>>]]
    /\ came' = [m \in Map |-> [n \in Counter |->
                  IF m \in MapsOf(p) /\ n \in CountersOf(p) THEN came[m][n] + 1
                  ELSE came[m][n]]]
    /\ pc' = [pc EXCEPT ![c] = "lookup"]
    /\ UNCHANGED <<mapVars, loaded, readerVars>>

OfSource(c) == work[c].key \in Source

\* Wrong variant of NextRow: a flow row for IPv6 too.
NextRowAny(c) ==
    IF OfSource(c)
    THEN /\ work' = [work EXCEPT ![c] = [key |-> FlowOf(pkt[c]), slot |-> None, todo |-> <<>>]]
         /\ pc' = [pc EXCEPT ![c] = "lookup"]
    ELSE /\ work' = [work EXCEPT ![c].todo = <<>>]
         /\ pc' = [pc EXCEPT ![c] = "idle"]

\* After the source row comes the flow row, for IPv4.
NextRow(c) ==
    IF OfSource(c) /\ pkt[c].src \in V4
    THEN /\ work' = [work EXCEPT ![c] = [key |-> FlowOf(pkt[c]), slot |-> None, todo |-> <<>>]]
         /\ pc' = [pc EXCEPT ![c] = "lookup"]
    ELSE /\ work' = [work EXCEPT ![c].todo = <<>>]
         /\ pc' = [pc EXCEPT ![c] = "idle"]

\* The counters a packet adds to, in the program's order.
Additions(c) ==
    IF OfSource(c) THEN <<"pkts", pkt[c].verdict, "changes">> ELSE <<"pkts">>

Lookup(c) ==
    /\ pc[c] = "lookup"
    /\ LET k == work[c].key
       IN  IF Live(k)
           THEN /\ work' = [work EXCEPT ![c].slot = at[k], ![c].todo = Additions(c)]
                /\ pc' = [pc EXCEPT ![c] = "load"]
           ELSE /\ pc' = [pc EXCEPT ![c] = "insert"]
                /\ UNCHANGED work
    /\ UNCHANGED <<mapVars, pkt, loaded, readerVars, came, scope>>

Firsts(c) == IF OfSource(c) THEN {"pkts", pkt[c].verdict} ELSE {"pkts"}

\* Wrong variant of FirstRow: the packet is counted again below the insertion.
FirstRowTwice(c) ==
    [port |-> pkt[c].port, n |-> [n \in Counter |-> IF n \in Firsts(c) THEN 2 ELSE 0]]

\* The row of a packet that is the first.
FirstRow(c) ==
    [port |-> pkt[c].port, n |-> [n \in Counter |-> IF n \in Firsts(c) THEN 1 ELSE 0]]

\* A source row is inserted with BPF_ANY, over one that another CPU has inserted
\* meanwhile; a flow row with BPF_NOEXIST: then this packet is not counted.  The row
\* takes a free element, and one it replaces becomes free; the result of the
\* insertion, which can fail, is not looked at.
Insert(c) ==
    /\ pc[c] = "insert"
    /\ LET k == work[c].key
       IN  \/ /\ OfSource(c) \/ ~ Live(k)
              /\ \E s \in Free(MapOf(k)) :
                    /\ at' = [at EXCEPT ![k] = s]
                    /\ element' = [element EXCEPT ![MapOf(k)][s] = FirstRow(c)]
           \/ UNCHANGED mapVars
    /\ NextRow(c)
    /\ UNCHANGED <<pkt, loaded, readerVars, came, scope>>

\* What the pointer of a CPU points to, whosever it is by now.
Held(c) == element[MapOf(work[c].key)][work[c].slot]

\* dport_changes is for a port that is set and not the last one.
Skips(c) ==
    Head(work[c].todo) = "changes" /\ (pkt[c].port = 0 \/ Held(c).port = pkt[c].port)

\* What is left to do after the counter at hand.
Proceed(c) ==
    IF Len(work[c].todo) = 1 THEN NextRow(c)
    ELSE /\ work' = [work EXCEPT ![c].todo = Tail(@)]
         /\ pc' = [pc EXCEPT ![c] = "load"]

Load(c) ==
    /\ pc[c] = "load"
    /\ \/ /\ Skips(c)
          /\ Proceed(c)
          /\ UNCHANGED loaded
       \/ /\ ~ Skips(c)
          /\ loaded' = [loaded EXCEPT ![c] = Held(c).n[Head(work[c].todo)]]
          /\ pc' = [pc EXCEPT ![c] = "store"]
          /\ UNCHANGED work
    /\ UNCHANGED <<mapVars, pkt, readerVars, came, scope>>

\* What the element holds after the store.
Stored(c) ==
    LET f == Head(work[c].todo)
    IN  [port |-> IF f = "changes" THEN pkt[c].port ELSE Held(c).port,
         n    |-> [Held(c).n EXCEPT ![f] = loaded[c] + 1]]

Store(c) ==
    /\ pc[c] = "store"
    /\ element' = [element EXCEPT ![MapOf(work[c].key)][work[c].slot] = Stored(c)]
    /\ loaded' = [loaded EXCEPT ![c] = 0]
    /\ Proceed(c)
    /\ UNCHANGED <<at, pkt, readerVars, came, scope>>

\* The kernel takes the element of a row of an LRU hash away.
Evict(k) ==
    /\ Live(k)
    /\ Uses("evictions")
    /\ at' = [at EXCEPT ![k] = None]
    /\ UNCHANGED <<element, programVars, readerVars, came>>

-----------------------------------------------------------------------------
(* KLIQ: the rates of the runtime adapter (observe4, observe6).            *)

\* Wrong variant of Regressed, the calculation of the telemetry adapter: never.
RegressedUnchecked(old, new) == FALSE

\* A counter went back: the row was evicted and made anew, or a store was late.
Regressed(old, new) == \E n \in Counter : new[n] < old[n]

Counters(k) == element[MapOf(k)][at[k]].n

\* One row: the first sample, and one that went back, only set the base.
Sample(s) ==
    /\ Uses("samples")
    /\ Live(s)
    /\ prev' = [prev EXCEPT ![s] = [known |-> TRUE, n |-> Counters(s)]]
    /\ rates' = IF prev[s].known /\ ~ Regressed(prev[s].n, Counters(s))
                THEN [rates EXCEPT ![s] = [n \in Counter |-> (Counters(s)[n] - prev[s].n[n]) % U64]]
                ELSE rates
    /\ UNCHANGED <<mapVars, programVars, poll, came>>

\* A base that is older than PrevTTL is dropped.
Forget(s) ==
    /\ prev[s].known
    /\ prev' = [prev EXCEPT ![s] = [known |-> FALSE, n |-> Zero]]
    /\ UNCHANGED <<mapVars, programVars, rates, poll, came, scope>>

-----------------------------------------------------------------------------
(* KLIQ: pollFlow4.  A flow that is met twice is appended and published    *)
(* twice; what is published is not modelled.                               *)

PollBegin ==
    /\ poll.at = "idle"
    /\ \E f \in Flow : Live(f)   \* a poll of an empty map changes nothing
    /\ poll' = [IdlePoll EXCEPT !.at = "read", !.unread = Flow]
    /\ UNCHANGED <<mapVars, programVars, prev, rates, came, scope>>

\* The key that the iteration has come to is no longer in the map.
CursorLost == poll.cursor # None /\ ~ Live(poll.cursor)

ReadFlow(f) ==
    /\ f \in poll.unread /\ ~ CursorLost
    /\ poll' = IF Live(f)
               THEN [poll EXCEPT !.unread = @ \ {f}, !.cursor = f, !.met = @ \cup {f}]
               ELSE [poll EXCEPT !.unread = @ \ {f}]
    /\ UNCHANGED <<mapVars, programVars, prev, rates, came, scope>>

\* Then the kernel answers with the first key, and flows are met again.
Restart ==
    /\ poll.at = "read" /\ CursorLost
    /\ poll' = [poll EXCEPT !.unread = Flow, !.cursor = None]
    /\ UNCHANGED <<mapVars, programVars, prev, rates, came, scope>>

ReadEnd ==
    /\ poll.at = "read" /\ poll.unread = {} /\ ~ CursorLost
    /\ poll' = IF poll.met = {} THEN IdlePoll
               ELSE [poll EXCEPT !.at = "clear", !.cursor = None]
    /\ UNCHANGED <<mapVars, programVars, prev, rates, came, scope>>

\* An iteration that ends in an error is given up, and nothing is deleted.
PollFails ==
    /\ poll.at = "read"
    /\ Uses("failures")
    /\ poll' = IdlePoll
    /\ UNCHANGED <<mapVars, programVars, prev, rates, came>>

Cleared(f) == IF poll.met = {f} THEN IdlePoll ELSE [poll EXCEPT !.met = @ \ {f}]

\* Wrong variant of ClearFlow: the row stays.
ClearFlowKeeps(f) ==
    /\ poll.at = "clear" /\ f \in poll.met
    /\ poll' = Cleared(f)
    /\ UNCHANGED <<mapVars, programVars, prev, rates, came, scope>>

\* Every row met is deleted, whatever it holds by now.
ClearFlow(f) ==
    /\ poll.at = "clear" /\ f \in poll.met
    /\ poll' = Cleared(f)
    /\ at' = [at EXCEPT ![f] = None]
    /\ UNCHANGED <<element, programVars, prev, rates, came, scope>>

\* The error of Delete is ignored: the row stays, and is published again.
ClearFails(f) ==
    /\ poll.at = "clear" /\ f \in poll.met
    /\ Uses("failures")
    /\ poll' = Cleared(f)
    /\ UNCHANGED <<mapVars, programVars, prev, rates, came>>

-----------------------------------------------------------------------------
NoPacket == CHOOSE p \in Packets : TRUE

Init ==
    /\ at = [k \in Key |-> None]
    /\ element = [m \in Map |-> [s \in Slot |-> [port |-> 0, n |-> Zero]]]
    /\ pc = [c \in CPU |-> "idle"]
    /\ pkt = [c \in CPU |-> NoPacket]
    /\ work = [c \in CPU |-> [key |-> NoPacket.src, slot |-> None, todo |-> <<>>]]
    /\ loaded = [c \in CPU |-> 0]
    /\ prev = [s \in Source |-> [known |-> FALSE, n |-> Zero]]
    /\ rates = [s \in Source |-> Zero]
    /\ poll = IdlePoll
    /\ came = [m \in Map |-> Zero]
    /\ scope \in Scopes

Program(c) == (\E p \in Packets : Receive(c, p)) \/ Lookup(c) \/ Insert(c) \/ Load(c) \/ Store(c)

Poll == PollBegin \/ Restart \/ ReadEnd \/ \E f \in Flow : ReadFlow(f) \/ ClearFlow(f)

Next ==
    \/ \E c \in CPU : Program(c)
    \/ \E k \in Key : Evict(k)
    \/ \E s \in Source : Sample(s) \/ Forget(s)
    \/ Poll
    \/ PollFails
    \/ \E f \in Flow : ClearFails(f)

Spec == Init /\ [][Next]_vars

\* The poll is driven by a ticker.
FairSpec == Spec /\ WF_vars(Poll)

-----------------------------------------------------------------------------
(* Properties.                                                             *)

\* Every variable has its type.
TypeOK ==
    /\ at \in [Key -> Slot \cup {None}]
    /\ element \in [Map -> [Slot -> [port : Nat, n : [Counter -> Nat]]]]
    /\ pc \in [CPU -> {"idle", "lookup", "insert", "load", "store"}]
    /\ pkt \in [CPU -> Packets]
    /\ work \in [CPU -> [key : Key, slot : Slot \cup {None}, todo : Seq(Counter)]]
    /\ loaded \in [CPU -> Nat]
    /\ prev \in [Source -> [known : BOOLEAN, n : [Counter -> Nat]]]
    /\ rates \in [Source -> [Counter -> Nat]]
    /\ poll \in [at : {"idle", "read", "clear"}, unread : SUBSET Flow,
                 cursor : Flow \cup {None}, met : SUBSET Flow]
    /\ came \in [Map -> [Counter -> Nat]]
    /\ scope \in Scope

\* Races between CPUs make up no packets: no counter says more than came for its
\* whole map, although loads and stores of CPUs mix and late stores reach elements
\* that belong to other keys by then (lines 694-709, 820).  Of its own key it can
\* say more: an element that is given on may carry a count over.
CountersBounded ==
    \A m \in Map, s \in Slot, n \in Counter : element[m][s].n[n] <= came[m][n]

\* No increase the runtime adapter reports is more than ever came for the map: a row
\* that starts from one again, or a counter that a late store has set back, does not
\* come out as a rate of nearly 2^64 (metrics.go:45-50).
RatesReal ==
    \A s \in Source, n \in Counter : rates[s][n] <= came[MapOf(s)][n]

\* A flow row does not stay in the map: it is read and cleared, or evicted, however
\* long packets keep adding to it (while errors of iterations and deletions end).
FlowsDrain == \A f \in Flow : Live(f) ~> ~ Live(f)
=============================================================================
