------------------------ MODULE ShieldTelemetryProofs ------------------------
(* Theorems about ShieldTelemetry, for any number of CPUs, packets and rows. *)
EXTENDS ShieldTelemetry, FiniteSetTheorems, TLAPS

-----------------------------------------------------------------------------
(* The inductive invariant.                                                *)

\* What is left to do on a source row, and on a flow row.
SourceTodo(v) == {<<"pkts", v, "changes">>, <<v, "changes">>, <<"changes">>}
FlowTodo      == {<<"pkts">>}

Remaining(todo) == {n \in Counter : \E i \in 1..Len(todo) : todo[i] = n}

\* A CPU at work is on a row of its packet, and holds an element while it adds.
AtWork(c) ==
    pc[c] # "idle" =>
        /\ \/ work[c].key = pkt[c].src
           \/ pkt[c].src \in V4 /\ work[c].key = FlowOf(pkt[c])
        /\ pc[c] \in {"load", "store"} =>
              /\ work[c].todo \in IF OfSource(c) THEN SourceTodo(pkt[c].verdict) ELSE FlowTodo
              /\ work[c].slot \in Slot

WorkInv == \A c \in CPU : AtWork(c)

MapAt(c) == MapOf(work[c].key)

\* A packet that came and that CPU c has not yet added to a counter n of map m.
Owes(c, m, n) ==
    \/ /\ pc[c] \in {"lookup", "insert"}
       /\ m = MapAt(c) /\ n \in CountersOf(pkt[c])
    \/ /\ pc[c] \in {"load", "store"}
       /\ m = MapAt(c) /\ n \in Remaining(work[c].todo)
    \/ /\ pc[c] # "idle" /\ OfSource(c) /\ pkt[c].src \in V4
       /\ m = "flow4" /\ n \in CountersOf(pkt[c])

Owing(m, n) == {c \in CPU : Owes(c, m, n)}

\* The packets that were counted or lost: the most a counter may say.
Room(m, n) == came[m][n] - Cardinality(Owing(m, n))

\* CPU c is about to store a counter n of map m.
Stores(c, m, n) == pc[c] = "store" /\ MapAt(c) = m /\ Head(work[c].todo) = n

FiniteInv == \A m \in Map, n \in Counter : IsFiniteSet(Owing(m, n))

\* No counter says more than there is room for, nor will one after a store.
CountInv ==
    \A m \in Map, n \in Counter :
        /\ \A s \in Slot : element[m][s].n[n] <= Room(m, n)
        /\ \A c \in CPU : Stores(c, m, n) => loaded[c] <= Room(m, n)

-----------------------------------------------------------------------------
(* What is left to do.                                                     *)

\* The maps of keys: a flow is in the flow map, a source in that of its family.
LEMMA Maps ==
    /\ \A k \in Key : MapOf(k) \in Map
    /\ \A f \in Flow : f \in Key /\ f \notin Source /\ MapOf(f) = "flow4"
    /\ \A s \in Source : s \in Key /\ MapOf(s) \in {"src4", "src6"}
  BY TelemetryAssumption DEF Map, Key, MapOf

\* The head of what is left is left; after it, the rest is.
LEMMA TodoSteps ==
    ASSUME NEW v \in {"pass", "drop"}, NEW todo \in SourceTodo(v) \cup FlowTodo
    PROVE  /\ todo \in Seq(Counter) /\ todo # <<>>
           /\ todo \in FlowTodo => Len(todo) = 1 /\ Head(todo) = "pkts"
           /\ Head(todo) \in Counter
           /\ Head(todo) \in Remaining(todo)
           /\ Len(todo) # 1 => /\ todo \in SourceTodo(v)
                               /\ Tail(todo) \in SourceTodo(v)
                               /\ Remaining(Tail(todo)) \subseteq Remaining(todo) \ {Head(todo)}
  <1>0. todo \in FlowTodo => Len(todo) = 1 /\ Head(todo) = "pkts"
    BY DEF FlowTodo
  <1>1. /\ Remaining(<<"pkts", v, "changes">>) = {"pkts", v, "changes"}
        /\ Remaining(<<v, "changes">>) = {v, "changes"}
        /\ Remaining(<<"changes">>) = {"changes"}
        /\ Remaining(<<"pkts">>) = {"pkts"}
    <2>1. \A i \in 1..3 : i = 1 \/ i = 2 \/ i = 3
      OBVIOUS
    <2>2. \A i \in 1..2 : i = 1 \/ i = 2
      OBVIOUS
    <2>3. Remaining(<<"pkts", v, "changes">>) = {"pkts", v, "changes"}
      BY <2>1 DEF Remaining, Counter
    <2>4. Remaining(<<v, "changes">>) = {v, "changes"}
      BY <2>2 DEF Remaining, Counter
    <2> QED
      BY <2>3, <2>4 DEF Remaining, Counter
  <1>2. CASE todo = <<"pkts", v, "changes">>
    <2>1. Head(todo) = "pkts" /\ Tail(todo) = <<v, "changes">> /\ Len(todo) = 3
      BY <1>2
    <2>2. todo \in Seq(Counter)
      BY <1>2 DEF Counter
    <2> QED
      BY <1>0, <1>1, <1>2, <2>1, <2>2 DEF Counter, SourceTodo
  <1>3. CASE todo = <<v, "changes">>
    <2>1. Head(todo) = v /\ Tail(todo) = <<"changes">> /\ Len(todo) = 2
      BY <1>3
    <2>2. todo \in Seq(Counter)
      BY <1>3 DEF Counter
    <2> QED
      BY <1>0, <1>1, <1>3, <2>1, <2>2 DEF Counter, SourceTodo
  <1>4. CASE todo = <<"changes">>
    <2>1. Head(todo) = "changes" /\ Len(todo) = 1 /\ todo \in Seq(Counter)
      BY <1>4 DEF Counter
    <2> QED
      BY <1>0, <1>1, <1>4, <2>1 DEF Counter
  <1>5. CASE todo = <<"pkts">>
    <2>1. Head(todo) = "pkts" /\ Len(todo) = 1 /\ todo \in Seq(Counter)
      BY <1>5 DEF Counter
    <2> QED
      BY <1>0, <1>1, <1>5, <2>1 DEF Counter
  <1> QED
    BY <1>2, <1>3, <1>4, <1>5 DEF SourceTodo, FlowTodo

\* What a row needs is what the packet counts in it.
LEMMA TodoCounts ==
    ASSUME NEW p \in Packets
    PROVE  /\ CountersOf(p) \subseteq Counter
           /\ <<"pkts", p.verdict, "changes">> \in SourceTodo(p.verdict)
           /\ Remaining(<<"pkts", p.verdict, "changes">>) = CountersOf(p)
           /\ Remaining(<<"pkts">>) \subseteq CountersOf(p)
           /\ p.verdict \in {"pass", "drop"} /\ p.src \in Source /\ p.port \in Nat
           /\ p.src \in V4 => FlowOf(p) \in Flow
  <1> DEFINE v == p.verdict
             s == <<"pkts", v, "changes">>
  <1>1. v \in {"pass", "drop"} /\ p.src \in Source /\ p.port \in Nat /\ p.port \in Ports
    BY TelemetryAssumption DEF Ports
  <1>2. Len(s) = 3 /\ s[1] = "pkts" /\ s[2] = v /\ s[3] = "changes"
    OBVIOUS
  <1>3. \A i \in 1..3 : i = 1 \/ i = 2 \/ i = 3
    OBVIOUS
  <1>4. Len(<<"pkts">>) = 1 /\ <<"pkts">>[1] = "pkts"
    OBVIOUS
  <1>5. Remaining(s) = CountersOf(p)
    BY <1>1, <1>2, <1>3 DEF Remaining, CountersOf, Counter
  <1>6. Remaining(<<"pkts">>) \subseteq CountersOf(p)
    BY <1>4 DEF Remaining, CountersOf
  <1> QED
    BY <1>1, <1>5, <1>6 DEF CountersOf, Counter, SourceTodo, FlowOf, Flow

-----------------------------------------------------------------------------
(* Types.                                                                  *)

Work == [key : Key, slot : Slot \cup {None}, todo : Seq(Counter)]

\* CPU c is done with the counter at hand, or with the row, and has gone on.
Advance(c, a, w) ==
    /\ w \in Work
    /\ pc' = [pc EXCEPT ![c] = a] /\ work' = [work EXCEPT ![c] = w]
    /\ \/ a = "idle"
       \/ /\ a = "lookup"
          /\ OfSource(c) /\ pkt[c].src \in V4 /\ w.key = FlowOf(pkt[c])
       \/ /\ a = "load" /\ pc[c] \in {"load", "store"} /\ OfSource(c)
          /\ w.key = work[c].key /\ w.slot = work[c].slot
          /\ w.todo \in SourceTodo(pkt[c].verdict)
          /\ Remaining(w.todo) \subseteq Remaining(work[c].todo) \ {Head(work[c].todo)}

\* A CPU goes on to the flow row of an IPv4 packet, or is done with the packet.
LEMMA NextRowAdvances ==
    ASSUME TypeOK, NEW c \in CPU, NextRow(c)
    PROVE  \E a \in {"idle", "lookup"}, w \in Work : Advance(c, a, w)
  <1>0. <<>> \in Seq(Counter)
    OBVIOUS
  <1>1. pkt[c] \in Packets /\ work[c] \in Work /\ work \in [CPU -> Work]
    BY DEF TypeOK, Work
  <1>2. CASE OfSource(c) /\ pkt[c].src \in V4
    <2> DEFINE w == [key |-> FlowOf(pkt[c]), slot |-> None, todo |-> <<>>]
    <2>1. w \in Work
      <3>1. FlowOf(pkt[c]) \in Key
        BY <1>1, <1>2, TodoCounts DEF Key
      <3> QED
        BY <1>0, <3>1 DEF Work
    <2>2. work' = [work EXCEPT ![c] = w] /\ pc' = [pc EXCEPT ![c] = "lookup"]
      BY <1>2 DEF NextRow
    <2>3. Advance(c, "lookup", w)
      BY <1>2, <2>1, <2>2 DEF Advance
    <2> HIDE DEF w
    <2> QED
      BY <2>1, <2>3
  <1>3. CASE ~ (OfSource(c) /\ pkt[c].src \in V4)
    <2> DEFINE w == [work[c] EXCEPT !.todo = <<>>]
    <2>1. w \in Work
      BY <1>0, <1>1 DEF Work
    <2>2. work' = [work EXCEPT ![c] = w] /\ pc' = [pc EXCEPT ![c] = "idle"]
      BY <1>1, <1>3 DEF NextRow, Work
    <2>3. Advance(c, "idle", w)
      BY <2>1, <2>2 DEF Advance
    <2> HIDE DEF w
    <2> QED
      BY <2>1, <2>3
  <1> QED
    BY <1>2, <1>3

\* After a counter comes the next one of a source row, or the next row.
LEMMA ProceedAdvances ==
    ASSUME TypeOK, WorkInv, NEW c \in CPU, pc[c] \in {"load", "store"}, Proceed(c)
    PROVE  \E a \in {"idle", "lookup", "load"}, w \in Work : Advance(c, a, w)
  <1>1. CASE Len(work[c].todo) = 1
    BY <1>1, NextRowAdvances DEF Proceed
  <1>2. CASE Len(work[c].todo) # 1
    <2> DEFINE todo == work[c].todo
               w == [work[c] EXCEPT !.todo = Tail(todo)]
    <2>1. pkt[c] \in Packets /\ work[c] \in Work /\ work \in [CPU -> Work]
      BY DEF TypeOK, Work
    <2>2. /\ pkt[c].verdict \in {"pass", "drop"}
          /\ todo \in SourceTodo(pkt[c].verdict) \cup FlowTodo
          /\ ~ OfSource(c) => todo \in FlowTodo
      BY <2>1, TodoCounts DEF WorkInv, AtWork
    <2>3. /\ OfSource(c) /\ Tail(todo) \in SourceTodo(pkt[c].verdict)
          /\ Remaining(Tail(todo)) \subseteq Remaining(todo) \ {Head(todo)}
      BY <1>2, <2>2, TodoSteps
    <2>4. Tail(todo) \in Seq(Counter)
      BY <2>2, <2>3, TodoSteps
    <2>5. w \in Work /\ w.key = work[c].key /\ w.slot = work[c].slot /\ w.todo = Tail(todo)
      BY <2>1, <2>4 DEF Work
    <2>6. work' = [work EXCEPT ![c] = w] /\ pc' = [pc EXCEPT ![c] = "load"]
      BY <1>2, <2>1 DEF Proceed, Work
    <2> QED
      BY <2>3, <2>5, <2>6 DEF Advance
  <1> QED
    BY <1>1, <1>2

LEMMA AdvanceType ==
    ASSUME TypeOK, NEW c \in CPU, NEW a \in {"idle", "lookup", "load"}, NEW w \in Work,
           Advance(c, a, w)
    PROVE  /\ pc' \in [CPU -> {"idle", "lookup", "insert", "load", "store"}]
           /\ work' \in [CPU -> [key : Key, slot : Slot \cup {None}, todo : Seq(Counter)]]
  <1>1. work \in [CPU -> Work]
    BY DEF TypeOK, Work
  <1>2. work' \in [CPU -> Work]
    BY <1>1 DEF Advance
  <1> QED
    BY <1>2 DEF TypeOK, Advance, Work

LEMMA UsesType ==
    ASSUME scope \in Scope, NEW what \in {"packets", "evictions", "failures", "samples"},
           Uses(what)
    PROVE  scope' \in Scope
  BY DEF Uses, Scope

Row   == [port : Nat, n : [Counter -> Nat]]
PollT == [at : {"idle", "read", "clear"}, unread : SUBSET Flow, cursor : Flow \cup {None},
          met : SUBSET Flow]

LEMMA ZeroType == Zero \in [Counter -> Nat] /\ IdlePoll \in PollT
  BY DEF Zero, IdlePoll, PollT

\* The first packet of a row counts once, as what it is.
LEMMA FirstRowType ==
    ASSUME TypeOK, NEW c \in CPU
    PROVE  /\ FirstRow(c) \in Row
           /\ \A n \in Counter : FirstRow(c).n[n] \in {0, 1}
           /\ \A n \in Counter : FirstRow(c).n[n] = 1 => n \in CountersOf(pkt[c])
  <1>1. pkt[c].verdict \in {"pass", "drop"} /\ pkt[c].port \in Nat
    BY TodoCounts DEF TypeOK
  <1> DEFINE n == [m \in Counter |-> IF m \in Firsts(c) THEN 1 ELSE 0]
  <1>2. n \in [Counter -> Nat] /\ \A m \in Counter : n[m] = IF m \in Firsts(c) THEN 1 ELSE 0
    OBVIOUS
  <1>3. FirstRow(c) = [port |-> pkt[c].port, n |-> n]
    BY DEF FirstRow
  <1> HIDE DEF n
  <1>4. Firsts(c) \subseteq CountersOf(pkt[c])
    BY DEF Firsts, CountersOf
  <1> QED
    BY <1>1, <1>2, <1>3, <1>4 DEF Row

\* The element a CPU holds, and what it writes there: one counter and the port.
LEMMA StoredType ==
    ASSUME TypeOK, WorkInv, NEW c \in CPU, pc[c] \in {"load", "store"}
    PROVE  /\ work[c].key \in Key /\ MapAt(c) \in Map /\ work[c].slot \in Slot
           /\ Head(work[c].todo) \in Counter
           /\ Held(c) = element[MapAt(c)][work[c].slot] /\ Held(c) \in Row
           /\ Stored(c) \in Row
           /\ \A n \in Counter : Stored(c).n[n] = IF n = Head(work[c].todo) THEN loaded[c] + 1
                                                  ELSE Held(c).n[n]
  <1> DEFINE f == Head(work[c].todo)
             n == [Held(c).n EXCEPT ![f] = loaded[c] + 1]
             p == IF f = "changes" THEN pkt[c].port ELSE Held(c).port
  <1>1. /\ pkt[c].verdict \in {"pass", "drop"} /\ pkt[c].port \in Nat
        /\ work[c].todo \in SourceTodo(pkt[c].verdict) \cup FlowTodo
        /\ work[c].slot \in Slot /\ work[c].key \in Key
    BY TodoCounts DEF WorkInv, AtWork, TypeOK
  <1>2. f \in Counter
    BY <1>1, TodoSteps
  <1>3. MapAt(c) \in Map /\ Held(c) = element[MapAt(c)][work[c].slot] /\ Held(c) \in Row
    BY <1>1, Maps DEF MapAt, Held, TypeOK, Row
  <1>4. loaded[c] + 1 \in Nat
    BY DEF TypeOK
  <1> HIDE DEF f
  <1>5. n \in [Counter -> Nat] /\ p \in Nat
    BY <1>1, <1>2, <1>3, <1>4 DEF Row
  <1>6. \A m \in Counter : n[m] = IF m = f THEN loaded[c] + 1 ELSE Held(c).n[m]
    BY <1>2, <1>3 DEF Row
  <1>7. Stored(c) = [port |-> p, n |-> n]
    BY DEF Stored, f
  <1> HIDE DEF n, p
  <1>8. Stored(c) \in Row /\ Stored(c).n = n
    BY <1>5, <1>7 DEF Row
  <1> QED
    BY <1>1, <1>2, <1>3, <1>6, <1>8 DEF f

\* An element is given its first row or a store.
LEMMA WrittenType ==
    ASSUME element \in [Map -> [Slot -> Row]], NEW m \in Map, NEW s \in Slot, NEW r \in Row,
           element' = [element EXCEPT ![m][s] = r]
    PROVE  /\ element' \in [Map -> [Slot -> Row]]
           /\ element'[m][s] = r
           /\ \A j \in Map, t \in Slot : j # m \/ t # s => element'[j][t] = element[j][t]
  <1> DEFINE e == [element[m] EXCEPT ![s] = r]
  <1>1. element[m] \in [Slot -> Row]
    OBVIOUS
  <1>2. e \in [Slot -> Row] /\ e[s] = r /\ \A t \in Slot : t # s => e[t] = element[m][t]
    BY <1>1
  <1>3. element' = [element EXCEPT ![m] = e]
    OBVIOUS
  <1> HIDE DEF e
  <1> QED
    BY <1>2, <1>3

\* Every step keeps the types.
LEMMA TypeStep ==
    ASSUME TypeOK, WorkInv, [Next]_vars
    PROVE  TypeOK'
  <1> USE DEF TypeOK
  <1>1. CASE UNCHANGED vars
    BY <1>1 DEF vars, mapVars, programVars, readerVars
  <1>2. ASSUME NEW c \in CPU, NEW p \in Packets, Receive(c, p) PROVE TypeOK'
    <2>1. scope' \in Scope
      BY <1>2, UsesType DEF Receive
    <2>2. p.src \in Key
      BY TodoCounts DEF Key
    <2>3. <<>> \in Seq(Counter)
      OBVIOUS
    <2>4. [key |-> p.src, slot |-> None, todo |-> <<>>]
             \in [key : Key, slot : Slot \cup {None}, todo : Seq(Counter)]
      BY <2>2, <2>3
    <2>5. came' \in [Map -> [Counter -> Nat]]
      BY <1>2 DEF Receive
    <2> QED
      BY <1>2, <2>1, <2>4, <2>5 DEF Receive, mapVars, readerVars
  <1>3. ASSUME NEW c \in CPU, Lookup(c) PROVE TypeOK'
    <2> DEFINE k == work[c].key
    <2>1. Additions(c) \in Seq(Counter)
      <3>1. pkt[c].verdict \in {"pass", "drop"}
        BY TodoCounts
      <3>2. <<"pkts", pkt[c].verdict, "changes">> \in Seq(Counter) /\ <<"pkts">> \in Seq(Counter)
        BY <3>1, TodoSteps DEF SourceTodo, FlowTodo
      <3> QED
        BY <3>2 DEF Additions
    <2>2. work[c] \in Work /\ work \in [CPU -> Work] /\ at[k] \in Slot \cup {None}
      BY DEF Work
    <2>3. work' \in [CPU -> Work]
      <3>1. CASE Live(k)
        <4> DEFINE w == [key |-> k, slot |-> at[k], todo |-> Additions(c)]
        <4>1. w \in Work
          BY <2>1, <2>2 DEF Work
        <4>2. work' = [work EXCEPT ![c] = w]
          BY <1>3, <3>1, <2>2 DEF Lookup, Work
        <4> HIDE DEF w
        <4> QED
          BY <2>2, <4>1, <4>2
      <3> QED
        BY <1>3, <2>2, <3>1 DEF Lookup
    <2> QED
      BY <1>3, <2>3 DEF Lookup, mapVars, readerVars, Work
  <1>4. ASSUME NEW c \in CPU, Insert(c) PROVE TypeOK'
    <2>1. PICK a \in {"idle", "lookup"}, w \in Work : Advance(c, a, w)
      BY <1>4, NextRowAdvances DEF Insert
    <2>2. FirstRow(c) \in Row /\ work[c].key \in Key /\ MapAt(c) \in Map
      BY FirstRowType, Maps DEF MapAt
    <2>3. at' \in [Key -> Slot \cup {None}]
      BY <1>4, <2>2 DEF Insert, Free, mapVars
    <2>4. element' \in [Map -> [Slot -> Row]]
      <3>1. ASSUME NEW s \in Slot, element' = [element EXCEPT ![MapAt(c)][s] = FirstRow(c)]
            PROVE  element' \in [Map -> [Slot -> Row]]
        BY <2>2, <3>1, WrittenType DEF Row
      <3>2. \/ element' = element
            \/ \E s \in Slot : element' = [element EXCEPT ![MapAt(c)][s] = FirstRow(c)]
        BY <1>4 DEF Insert, Free, mapVars, MapAt
      <3> QED
        BY <3>1, <3>2 DEF Row
    <2>5. /\ pc' \in [CPU -> {"idle", "lookup", "insert", "load", "store"}]
          /\ work' \in [CPU -> [key : Key, slot : Slot \cup {None}, todo : Seq(Counter)]]
      BY <2>1, AdvanceType
    <2> QED
      BY <1>4, <2>3, <2>4, <2>5 DEF Insert, Row, readerVars
  <1>5. ASSUME NEW c \in CPU, Load(c) PROVE TypeOK'
    <2>1. CASE Skips(c) /\ Proceed(c) /\ UNCHANGED loaded
      <3>1. PICK a \in {"idle", "lookup", "load"}, w \in Work : Advance(c, a, w)
        BY <1>5, <2>1, ProceedAdvances DEF Load
      <3> QED
        BY <1>5, <2>1, <3>1, AdvanceType DEF Load, mapVars, readerVars
    <2>2. CASE UNCHANGED work /\ ~ Skips(c)
      <3>1. Held(c).n[Head(work[c].todo)] \in Nat
        BY <1>5, StoredType DEF Load, Row
      <3>2. loaded' \in [CPU -> Nat] /\ pc' = [pc EXCEPT ![c] = "store"]
        BY <1>5, <2>2, <3>1 DEF Load
      <3> QED
        BY <1>5, <2>2, <3>2 DEF Load, mapVars, readerVars
    <2> QED
      BY <1>5, <2>1, <2>2 DEF Load
  <1>6. ASSUME NEW c \in CPU, Store(c) PROVE TypeOK'
    <2>1. PICK a \in {"idle", "lookup", "load"}, w \in Work : Advance(c, a, w)
      BY <1>6, ProceedAdvances DEF Store
    <2>2. Stored(c) \in Row /\ MapAt(c) \in Map /\ work[c].slot \in Slot
      BY <1>6, StoredType DEF Store
    <2>3. element' \in [Map -> [Slot -> Row]]
      BY <1>6, <2>2, WrittenType DEF Store, Row, MapAt
    <2>4. loaded' \in [CPU -> Nat]
      BY <1>6 DEF Store
    <2>5. /\ pc' \in [CPU -> {"idle", "lookup", "insert", "load", "store"}]
          /\ work' \in [CPU -> [key : Key, slot : Slot \cup {None}, todo : Seq(Counter)]]
      BY <2>1, AdvanceType
    <2> QED
      BY <1>6, <2>3, <2>4, <2>5 DEF Store, Row, readerVars
  <1>7. ASSUME NEW k \in Key, Evict(k) PROVE TypeOK'
    <2>1. scope' \in Scope
      BY <1>7, UsesType DEF Evict
    <2> QED
      BY <1>7, <2>1 DEF Evict, programVars, readerVars
  <1>8. ASSUME NEW s \in Source, Sample(s) PROVE TypeOK'
    <2>1. scope' \in Scope /\ s \in Key
      BY <1>8, UsesType DEF Sample, Key
    <2>2. Counters(s) \in [Counter -> Nat]
      <3>1. at[s] \in Slot /\ MapOf(s) \in Map
        BY <1>8, <2>1, Maps DEF Sample, Live
      <3> QED
        BY <3>1 DEF Counters
    <2>3. \A n \in Counter : (Counters(s)[n] - prev[s].n[n]) % U64 \in Nat
      BY <2>2, TelemetryAssumption
    <2>4. rates' \in [Source -> [Counter -> Nat]]
      BY <1>8, <2>3 DEF Sample
    <2>5. prev' \in [Source -> [known : BOOLEAN, n : [Counter -> Nat]]]
      BY <1>8, <2>2 DEF Sample
    <2> QED
      BY <1>8, <2>1, <2>4, <2>5 DEF Sample, mapVars, programVars
  <1>9. ASSUME NEW s \in Source, Forget(s) PROVE TypeOK'
    BY <1>9, ZeroType DEF Forget, mapVars, programVars
  <1>10. CASE PollBegin
    <2>1. poll' \in PollT
      BY <1>10, ZeroType DEF PollBegin, PollT
    <2> QED
      BY <1>10, <2>1 DEF PollBegin, mapVars, programVars, PollT
  <1>11. ASSUME NEW f \in Flow, ReadFlow(f) PROVE TypeOK'
    <2>1. poll' \in PollT
      BY <1>11 DEF ReadFlow, PollT
    <2> QED
      BY <1>11, <2>1 DEF ReadFlow, mapVars, programVars, PollT
  <1>12. CASE Restart
    <2>1. poll' \in PollT
      BY <1>12 DEF Restart, PollT
    <2> QED
      BY <1>12, <2>1 DEF Restart, mapVars, programVars, PollT
  <1>13. CASE ReadEnd
    <2>1. poll' \in PollT
      BY <1>13, ZeroType DEF ReadEnd, PollT
    <2> QED
      BY <1>13, <2>1 DEF ReadEnd, mapVars, programVars, PollT
  <1>14. ASSUME NEW f \in Flow PROVE Cleared(f) \in PollT
    <2>1. [poll EXCEPT !.met = poll.met \ {f}] \in PollT
      BY DEF PollT
    <2> QED
      BY <2>1, ZeroType DEF Cleared
  <1>15. ASSUME NEW f \in Flow, ClearFlow(f) PROVE TypeOK'
    <2>1. at' \in [Key -> Slot \cup {None}]
      BY <1>15 DEF ClearFlow
    <2>2. poll' \in PollT
      BY <1>14, <1>15 DEF ClearFlow
    <2> QED
      BY <1>15, <2>1, <2>2 DEF ClearFlow, programVars, PollT
  <1>16. ASSUME NEW f \in Flow, ClearFails(f) PROVE TypeOK'
    <2>1. poll' \in PollT /\ scope' \in Scope
      BY <1>14, <1>16, UsesType DEF ClearFails
    <2> QED
      BY <1>16, <2>1 DEF ClearFails, mapVars, programVars, PollT
  <1>17. CASE PollFails
    BY <1>17, ZeroType, UsesType DEF PollFails, mapVars, programVars, PollT
  <1> HIDE DEF TypeOK
  <1> QED
    BY <1>1, <1>2, <1>3, <1>4, <1>5, <1>6, <1>7, <1>8, <1>9, <1>10, <1>11, <1>12, <1>13,
       <1>15, <1>16, <1>17 DEF Next, Program, Poll

-----------------------------------------------------------------------------
(* The work of a CPU.                                                      *)

\* What KLIQ and the kernel do, and that it touches no CPU and no element.
Around == \/ UNCHANGED vars
          \/ \E k \in Key : Evict(k)
          \/ \E s \in Source : Sample(s) \/ Forget(s)
          \/ Poll
          \/ PollFails
          \/ \E f \in Flow : ClearFails(f)

LEMMA AroundProgram ==
    ASSUME Around
    PROVE  UNCHANGED <<programVars, element, came>>
  BY DEF Around, Poll, vars, mapVars, programVars, Evict, Sample, Forget, PollBegin, ReadFlow,
         Restart, ReadEnd, ClearFlow, ClearFails, PollFails

LEMMA ProgramOrNot ==
    ASSUME [Next]_vars
    PROVE  (\E c \in CPU : Program(c)) \/ Around
  BY DEF Next, Around

LEMMA OthersWait ==
    ASSUME TypeOK, NEW c \in CPU, Program(c), NEW d \in CPU, d # c
    PROVE  /\ pc'[d] = pc[d] /\ work'[d] = work[d] /\ pkt'[d] = pkt[d] /\ loaded'[d] = loaded[d]
  <1> USE DEF TypeOK
  <1>1. ASSUME NEW p \in Packets, Receive(c, p)
        PROVE  pc'[d] = pc[d] /\ work'[d] = work[d] /\ pkt'[d] = pkt[d] /\ loaded'[d] = loaded[d]
    BY <1>1 DEF Receive
  <1>2. CASE Lookup(c)
    BY <1>2 DEF Lookup
  <1>3. NextRow(c) \/ Proceed(c) => pc'[d] = pc[d] /\ work'[d] = work[d]
    BY DEF NextRow, Proceed
  <1>4. CASE Insert(c)
    BY <1>3, <1>4 DEF Insert
  <1>5. CASE Load(c)
    BY <1>3, <1>5 DEF Load
  <1>6. CASE Store(c)
    BY <1>3, <1>6 DEF Store
  <1> QED
    BY <1>1, <1>2, <1>4, <1>5, <1>6 DEF Program

LEMMA WorkStep ==
    ASSUME TypeOK, WorkInv, [Next]_vars
    PROVE  WorkInv'
  <1> SUFFICES ASSUME NEW c \in CPU PROVE AtWork(c)'
    BY DEF WorkInv
  <1>0. /\ AtWork(c) /\ pkt[c] \in Packets /\ work[c].key \in Key
        /\ work \in [CPU -> Work] /\ pc \in [CPU -> {"idle", "lookup", "insert", "load", "store"}]
        /\ \A k \in Key : at[k] \in Slot \cup {None}
    BY DEF WorkInv, TypeOK, Work
  <1>1. CASE pc'[c] = pc[c] /\ work'[c] = work[c] /\ pkt'[c] = pkt[c]
    BY <1>0, <1>1 DEF AtWork, OfSource
  <1>2. ASSUME NEW a \in {"idle", "lookup", "load"}, NEW w \in Work, Advance(c, a, w), pkt' = pkt
        PROVE  AtWork(c)'
    BY <1>0, <1>2, TodoCounts DEF Advance, AtWork, OfSource
  <1>3. ASSUME NEW p \in Packets, Receive(c, p) PROVE AtWork(c)'
    <2>1. pc'[c] = "lookup" /\ work'[c].key = p.src /\ pkt'[c] = p
      BY <1>0, <1>3 DEF Receive, TypeOK
    <2> QED
      BY <2>1 DEF AtWork
  <1>4. CASE Lookup(c)
    <2>1. CASE Live(work[c].key)
      <3>1. /\ pc'[c] = "load" /\ work'[c].key = work[c].key /\ pkt'[c] = pkt[c]
            /\ work'[c].slot = at[work[c].key] /\ work'[c].todo = Additions(c)
        BY <1>0, <1>4, <2>1 DEF Lookup, Work
      <3>2. Additions(c) \in IF OfSource(c) THEN SourceTodo(pkt[c].verdict) ELSE FlowTodo
        BY <1>0, TodoCounts DEF Additions, FlowTodo
      <3>3. at[work[c].key] \in Slot
        BY <1>0, <2>1 DEF Live
      <3> QED
        BY <1>0, <1>4, <3>1, <3>2, <3>3 DEF AtWork, OfSource, Lookup
    <2>2. CASE ~ Live(work[c].key)
      BY <1>0, <1>4, <2>2 DEF Lookup, AtWork
    <2> QED
      BY <2>1, <2>2
  <1>5. CASE Insert(c)
    BY <1>2, <1>5, NextRowAdvances DEF Insert
  <1>6. CASE Load(c)
    <2>1. CASE Proceed(c)
      BY <1>2, <1>6, <2>1, ProceedAdvances DEF Load
    <2>2. CASE UNCHANGED work /\ pc' = [pc EXCEPT ![c] = "store"]
      BY <1>0, <1>6, <2>2 DEF Load, AtWork, OfSource
    <2> QED
      BY <1>6, <2>1, <2>2 DEF Load
  <1>7. CASE Store(c)
    BY <1>2, <1>7, ProceedAdvances DEF Store
  <1>8. CASE Around
    BY <1>1, <1>8, AroundProgram DEF programVars
  <1>9. ASSUME NEW d \in CPU, Program(d), d # c PROVE AtWork(c)'
    BY <1>1, <1>9, OthersWait
  <1> QED
    BY <1>3, <1>4, <1>5, <1>6, <1>7, <1>8, <1>9, ProgramOrNot DEF Program

-----------------------------------------------------------------------------
(* Room: it never shrinks, and it grows by one with every count.           *)

LEMMA Smaller ==
    ASSUME NEW S, IsFiniteSet(S), NEW T \in SUBSET S
    PROVE  /\ IsFiniteSet(T) /\ Cardinality(T) \in Nat /\ Cardinality(S) \in Nat
           /\ Cardinality(T) <= Cardinality(S)
           /\ \A c \in S : c \notin T => Cardinality(T) + 1 <= Cardinality(S)
  <1>1. IsFiniteSet(T) /\ Cardinality(T) <= Cardinality(S)
        /\ (Cardinality(S) = Cardinality(T) => S = T)
    BY FS_Subset
  <1>2. Cardinality(T) \in Nat /\ Cardinality(S) \in Nat
    BY <1>1, FS_CardinalityType
  <1>3. ASSUME NEW c \in S, c \notin T PROVE Cardinality(T) + 1 <= Cardinality(S)
    <2>1. S # T
      BY <1>3
    <2> QED
      BY <1>1, <1>2, <2>1
  <1> QED
    BY <1>1, <1>2, <1>3

\* A CPU that goes on owes no more than before, and not what it has just been at.
LEMMA AdvanceOwes ==
    ASSUME TypeOK, WorkInv, NEW c \in CPU, pc[c] \in {"insert", "load", "store"}, pkt' = pkt,
           NEW a \in {"idle", "lookup", "load"}, NEW w \in Work, Advance(c, a, w),
           NEW m \in Map, NEW n \in Counter
    PROVE  /\ Owing(m, n)' \subseteq Owing(m, n)
           /\ m = MapAt(c) /\ (pc[c] = "insert" \/ n = Head(work[c].todo))
                => c \in Owing(m, n) \ Owing(m, n)' \/ (pc[c] = "insert" /\ n \notin CountersOf(pkt[c]))
  <1>0. /\ AtWork(c) /\ pkt[c] \in Packets
        /\ work \in [CPU -> Work] /\ pc \in [CPU -> {"idle", "lookup", "insert", "load", "store"}]
        /\ pkt[c].verdict \in {"pass", "drop"}
        /\ pkt[c].src \in V4 =>
              /\ FlowOf(pkt[c]) \in Flow /\ FlowOf(pkt[c]) \notin Source
              /\ MapOf(FlowOf(pkt[c])) = "flow4"
        /\ OfSource(c) => MapAt(c) # "flow4"
    BY TodoCounts, Maps DEF WorkInv, TypeOK, Work, OfSource, MapAt
  <1>1. ASSUME NEW d \in CPU, d # c PROVE Owes(d, m, n)' = Owes(d, m, n)
    <2>1. pc'[d] = pc[d] /\ work'[d] = work[d] /\ pkt'[d] = pkt[d]
      BY <1>0, <1>1 DEF Advance
    <2> QED
      BY <2>1 DEF Owes, OfSource, MapAt
  <1>2. /\ pc'[c] = a /\ work'[c] = w /\ pkt'[c] = pkt[c]
    BY <1>0 DEF Advance
  <1>3. Owes(c, m, n)' => Owes(c, m, n)
    <2>1. CASE a = "idle"
      BY <1>2, <2>1 DEF Owes
    <2>2. CASE a = "lookup"
      BY <1>0, <1>2, <2>2 DEF Owes, Advance, OfSource, MapAt
    <2>3. CASE a = "load"
      BY <1>0, <1>2, <2>3 DEF Owes, Advance, OfSource, MapAt
    <2> QED
      BY <2>1, <2>2, <2>3
  <1>4. ASSUME m = MapAt(c), pc[c] = "insert" \/ n = Head(work[c].todo)
        PROVE  ~ Owes(c, m, n)'
    <2>1. CASE a = "idle"
      BY <1>2, <2>1 DEF Owes
    <2>2. CASE a = "lookup"
      BY <1>0, <1>2, <1>4, <2>2 DEF Owes, Advance, OfSource, MapAt
    <2>3. CASE a = "load"
      BY <1>0, <1>2, <1>4, <2>3 DEF Owes, Advance, OfSource, MapAt
    <2> QED
      BY <2>1, <2>2, <2>3
  <1>5. ASSUME m = MapAt(c), pc[c] # "insert", n = Head(work[c].todo)
        PROVE  Owes(c, m, n)
    <2>1. work[c].todo \in SourceTodo(pkt[c].verdict) \cup FlowTodo
      BY <1>0, <1>5 DEF AtWork
    <2>2. n \in Remaining(work[c].todo)
      BY <1>0, <1>5, <2>1, TodoSteps
    <2> QED
      BY <1>5, <2>2 DEF Owes
  <1>6. ASSUME m = MapAt(c), pc[c] = "insert", n \in CountersOf(pkt[c])
        PROVE  Owes(c, m, n)
    BY <1>6 DEF Owes
  <1>7. Owing(m, n)' = {d \in CPU : Owes(d, m, n)'}
    BY DEF Owing
  <1> QED
    BY <1>1, <1>3, <1>4, <1>5, <1>6, <1>7 DEF Owing

\* Counting takes a packet off what is owed.
LEMMA CountMakesRoom ==
    ASSUME TypeOK, WorkInv, FiniteInv, NEW c \in CPU, Insert(c) \/ Store(c),
           NEW m \in Map, m = MapAt(c), NEW n \in Counter,
           IF pc[c] = "insert" THEN n \in CountersOf(pkt[c]) ELSE n = Head(work[c].todo)
    PROVE  Room(m, n) + 1 <= Room(m, n)'
  <1>1. came' = came /\ came[m][n] \in Nat /\ pkt' = pkt
        /\ pc[c] \in {"insert", "store"} /\ IsFiniteSet(Owing(m, n))
    BY DEF TypeOK, Insert, Store, FiniteInv
  <1>2. PICK a \in {"idle", "lookup", "load"}, w \in Work : Advance(c, a, w)
    BY NextRowAdvances, ProceedAdvances DEF Insert, Store
  <1>3. Owing(m, n)' \in SUBSET Owing(m, n) /\ c \in Owing(m, n) /\ c \notin Owing(m, n)'
    BY <1>1, <1>2, AdvanceOwes
  <1>4. /\ Cardinality(Owing(m, n)') \in Nat /\ Cardinality(Owing(m, n)) \in Nat
        /\ Cardinality(Owing(m, n)') + 1 <= Cardinality(Owing(m, n))
    BY <1>1, <1>3, Smaller
  <1> QED
    BY <1>1, <1>4 DEF Room

\* All that a step changes in what is owed.
LEMMA OwingStep ==
    ASSUME TypeOK, WorkInv, [Next]_vars, NEW m \in Map, NEW n \in Counter
    PROVE  \/ Owing(m, n)' \subseteq Owing(m, n) /\ came'[m][n] = came[m][n]
           \/ /\ came'[m][n] = came[m][n] + 1
              /\ \E c \in CPU : Owing(m, n)' \subseteq Owing(m, n) \cup {c}
  <1> DEFINE Goal == \/ Owing(m, n)' \subseteq Owing(m, n) /\ came'[m][n] = came[m][n]
                     \/ /\ came'[m][n] = came[m][n] + 1
                        /\ \E c \in CPU : Owing(m, n)' \subseteq Owing(m, n) \cup {c}
  <1>0. Owing(m, n)' = {d \in CPU : Owes(d, m, n)'}
    BY DEF Owing
  <1>1. CASE Around
    <2>1. came' = came /\ UNCHANGED programVars
      BY <1>1, AroundProgram
    <2>2. \A d \in CPU : Owes(d, m, n)' = Owes(d, m, n)
      BY <2>1 DEF Owes, OfSource, MapAt, programVars
    <2> QED
      BY <1>0, <2>1, <2>2 DEF Owing
  <1>2. ASSUME NEW c \in CPU, Program(c) PROVE Goal
    <2>0. \A d \in CPU : d # c => Owes(d, m, n)' = Owes(d, m, n)
      BY <1>2, OthersWait DEF Owes, OfSource, MapAt
    <2>1. /\ AtWork(c) /\ pkt[c] \in Packets
          /\ work \in [CPU -> Work] /\ pc \in [CPU -> {"idle", "lookup", "insert", "load", "store"}]
          /\ CountersOf(pkt[c]) \subseteq Counter
      BY TodoCounts DEF WorkInv, TypeOK, Work
    <2>2. ASSUME NEW p \in Packets, Receive(c, p) PROVE Goal
      <3>1. /\ pc'[c] = "lookup" /\ work'[c].key = p.src /\ pkt'[c] = p
        BY <2>1, <2>2 DEF Receive, TypeOK
      <3> DEFINE counted == m \in MapsOf(p) /\ n \in CountersOf(p)
      <3>2. Owes(c, m, n)' => counted
        BY <3>1 DEF Owes, OfSource, MapAt, MapsOf
      <3>3. came'[m][n] = IF counted THEN came[m][n] + 1 ELSE came[m][n]
        BY <2>2 DEF Receive
      <3> QED
        BY <1>0, <2>0, <3>2, <3>3 DEF Owing
    <2>3. CASE Lookup(c)
      <3>1. Remaining(Additions(c)) \subseteq CountersOf(pkt[c])
        BY <2>1, TodoCounts DEF Additions
      <3>2. /\ pc[c] = "lookup" /\ pkt' = pkt /\ work'[c].key = work[c].key
            /\ \/ pc'[c] = "insert"
               \/ pc'[c] = "load" /\ work'[c].todo = Additions(c)
        <4>1. CASE Live(work[c].key)
          <5>1. work'[c] = [work[c] EXCEPT !.slot = at[work[c].key], !.todo = Additions(c)]
            BY <2>1, <2>3, <4>1 DEF Lookup
          <5>2. work'[c].key = work[c].key /\ work'[c].todo = Additions(c)
            BY <2>1, <5>1 DEF Work
          <5> QED
            BY <2>1, <2>3, <4>1, <5>2 DEF Lookup
        <4>2. CASE ~ Live(work[c].key)
          BY <2>1, <2>3, <4>2 DEF Lookup
        <4> QED
          BY <4>1, <4>2
      <3>3. Owes(c, m, n)' => Owes(c, m, n)
        BY <3>1, <3>2 DEF Owes, OfSource, MapAt
      <3> QED
        BY <1>0, <2>0, <2>3, <3>3 DEF Owing, Lookup
    <2>4. CASE Load(c) /\ UNCHANGED work
      <3>1. Owes(c, m, n)' => Owes(c, m, n)
        BY <2>1, <2>4 DEF Load, Owes, OfSource, MapAt, Proceed, NextRow
      <3> QED
        BY <1>0, <2>0, <2>4, <3>1 DEF Owing, Load
    <2>5. CASE Insert(c) \/ Store(c) \/ (Load(c) /\ Proceed(c))
      <3>1. PICK a \in {"idle", "lookup", "load"}, w \in Work : Advance(c, a, w)
        BY <2>5, NextRowAdvances, ProceedAdvances DEF Insert, Store, Load
      <3>2. pkt' = pkt /\ came' = came /\ pc[c] \in {"insert", "load", "store"}
        BY <2>5 DEF Insert, Store, Load
      <3> QED
        BY <3>1, <3>2, AdvanceOwes
    <2> QED
      BY <1>2, <2>2, <2>3, <2>4, <2>5 DEF Program, Load
  <1> QED
    BY <1>1, <1>2, ProgramOrNot

LEMMA RoomStep ==
    ASSUME TypeOK, WorkInv, FiniteInv, [Next]_vars, NEW m \in Map, NEW n \in Counter
    PROVE  /\ IsFiniteSet(Owing(m, n)')
           /\ Room(m, n) \in Int /\ Room(m, n)' \in Int
           /\ Room(m, n) <= Room(m, n)'
  <1> DEFINE S == Owing(m, n)
  <1>1. came[m][n] \in Nat /\ came'[m][n] \in Nat /\ IsFiniteSet(S)
    BY TypeStep DEF TypeOK, FiniteInv
  <1>2. Cardinality(S) \in Nat
    BY <1>1, FS_CardinalityType
  <1>3. CASE S' \subseteq S /\ came'[m][n] = came[m][n]
    <2>1. IsFiniteSet(S') /\ Cardinality(S') \in Nat /\ Cardinality(S') <= Cardinality(S)
      BY <1>1, <1>3, Smaller
    <2> QED
      BY <1>1, <1>2, <1>3, <2>1 DEF Room
  <1>4. ASSUME NEW c \in CPU, S' \subseteq S \cup {c}, came'[m][n] = came[m][n] + 1
        PROVE  /\ IsFiniteSet(S')
               /\ Room(m, n) \in Int /\ Room(m, n)' \in Int /\ Room(m, n) <= Room(m, n)'
    <2>1. IsFiniteSet(S \cup {c}) /\ Cardinality(S \cup {c}) <= Cardinality(S) + 1
      <3>1. /\ IsFiniteSet(S \cup {c})
            /\ Cardinality(S \cup {c}) = IF c \in S THEN Cardinality(S) ELSE Cardinality(S) + 1
        BY <1>1, FS_AddElement
      <3> HIDE DEF S
      <3> QED
        BY <1>2, <3>1
    <2>2. /\ IsFiniteSet(S') /\ Cardinality(S') \in Nat /\ Cardinality(S \cup {c}) \in Nat
          /\ Cardinality(S') <= Cardinality(S \cup {c})
      BY <1>4, <2>1, Smaller
    <2> QED
      BY <1>1, <1>2, <1>4, <2>1, <2>2 DEF Room
  <1> QED
    BY <1>3, <1>4, OwingStep

-----------------------------------------------------------------------------
(* Counters.                                                               *)

\* A counter of an element grows by the first row of a key, or by a store.
LEMMA ElementStep ==
    ASSUME TypeOK, WorkInv, [Next]_vars, NEW m \in Map, NEW s \in Slot, NEW n \in Counter
    PROVE  \/ element'[m][s].n[n] \in {0, element[m][s].n[n]}
           \/ \E c \in CPU :
                 /\ Insert(c) /\ m = MapAt(c) /\ n \in CountersOf(pkt[c])
                 /\ element'[m][s].n[n] = 1
           \/ \E c \in CPU :
                 /\ Store(c) /\ m = MapAt(c) /\ n = Head(work[c].todo)
                 /\ element'[m][s].n[n] = loaded[c] + 1
  <1>0. element \in [Map -> [Slot -> Row]]
    BY DEF TypeOK, Row
  <1>1. ASSUME NEW c \in CPU, Insert(c), element' # element
        PROVE  \/ element'[m][s] = element[m][s]
               \/ /\ m = MapAt(c)
                  /\ element'[m][s].n[n] \in {0, 1}
                  /\ element'[m][s].n[n] = 1 => n \in CountersOf(pkt[c])
    <2>1. PICK t \in Slot : element' = [element EXCEPT ![MapAt(c)][t] = FirstRow(c)]
      BY <1>1 DEF Insert, Free, MapAt, mapVars
    <2>2. MapAt(c) \in Map
      BY Maps DEF MapAt, TypeOK
    <2> QED
      BY <1>0, <2>1, <2>2, FirstRowType, WrittenType
  <1>2. ASSUME NEW c \in CPU, Store(c)
        PROVE  \/ element'[m][s].n[n] = element[m][s].n[n]
               \/ /\ m = MapAt(c) /\ n = Head(work[c].todo)
                  /\ element'[m][s].n[n] = loaded[c] + 1
    <2>1. /\ MapAt(c) \in Map /\ work[c].slot \in Slot /\ Stored(c) \in Row
          /\ Held(c) = element[MapAt(c)][work[c].slot]
          /\ Stored(c).n[n] = IF n = Head(work[c].todo) THEN loaded[c] + 1 ELSE Held(c).n[n]
      BY <1>2, StoredType DEF Store
    <2>2. element' = [element EXCEPT ![MapAt(c)][work[c].slot] = Stored(c)]
      BY <1>2 DEF Store, MapAt
    <2> QED
      BY <1>0, <2>1, <2>2, WrittenType
  <1>3. CASE element' = element
    BY <1>3
  <1>4. CASE element' # element
    <2>1. \E c \in CPU : Insert(c) \/ Store(c)
      <3>1. ASSUME NEW c \in CPU, (\E p \in Packets : Receive(c, p)) \/ Lookup(c) \/ Load(c)
            PROVE  element' = element
        BY <3>1 DEF Receive, Lookup, Load, mapVars
      <3> QED
        BY <1>4, <3>1, ProgramOrNot, AroundProgram DEF Program
    <2> QED
      BY <1>1, <1>2, <1>4, <2>1
  <1> QED
    BY <1>3, <1>4

\* A value that is about to be stored was loaded before, or has just been.
LEMMA StoresStep ==
    ASSUME TypeOK, WorkInv, [Next]_vars, NEW m \in Map, NEW n \in Counter,
           NEW c \in CPU, Stores(c, m, n)'
    PROVE  \/ Stores(c, m, n) /\ loaded'[c] = loaded[c]
           \/ Load(c) /\ \E s \in Slot : loaded'[c] = element[m][s].n[n]
  <1>0. /\ work \in [CPU -> Work] /\ pc \in [CPU -> {"idle", "lookup", "insert", "load", "store"}]
        /\ loaded \in [CPU -> Nat]
    BY DEF TypeOK, Work
  <1>1. CASE pc'[c] = pc[c] /\ work'[c] = work[c] /\ loaded'[c] = loaded[c]
    BY <1>1 DEF Stores, MapAt
  <1>2. CASE Load(c) /\ ~ Proceed(c)
    <2>1. work' = work /\ loaded'[c] = Held(c).n[Head(work[c].todo)]
      BY <1>0, <1>2 DEF Load
    <2>2. m = MapAt(c) /\ n = Head(work[c].todo)
      BY <2>1 DEF Stores, MapAt
    <2>3. Held(c) = element[MapAt(c)][work[c].slot] /\ work[c].slot \in Slot
      BY <1>2, StoredType DEF Load
    <2> QED
      BY <1>2, <2>1, <2>2, <2>3
  <1>3. ASSUME NEW a \in {"idle", "lookup", "load"}, NEW w \in Work, Advance(c, a, w) PROVE FALSE
    BY <1>0, <1>3 DEF Advance, Stores
  <1>4. CASE Program(c)
    <2>1. CASE (\E p \in Packets : Receive(c, p)) \/ Lookup(c)
      BY <1>0, <2>1 DEF Receive, Lookup, Stores
    <2>2. CASE Insert(c) \/ Store(c) \/ (Load(c) /\ Proceed(c))
      BY <1>3, <2>2, NextRowAdvances, ProceedAdvances DEF Insert, Store, Load
    <2> QED
      BY <1>2, <1>4, <2>1, <2>2 DEF Program, Load
  <1>5. CASE Around
    BY <1>1, <1>5, AroundProgram DEF programVars
  <1>6. ASSUME NEW d \in CPU, Program(d), d # c PROVE UNCHANGED <<pc[c], work[c], loaded[c]>>
    BY <1>6, OthersWait
  <1> QED
    BY <1>1, <1>4, <1>5, <1>6, ProgramOrNot

LEMMA CountStep ==
    ASSUME TypeOK, WorkInv, FiniteInv, CountInv, [Next]_vars
    PROVE  FiniteInv' /\ CountInv'
  <1>1. FiniteInv'
    BY RoomStep DEF FiniteInv
  <1>2. ASSUME NEW m \in Map, NEW n \in Counter
        PROVE  /\ \A s \in Slot : element[m][s].n[n] \in Nat /\ element[m][s].n[n] <= Room(m, n)
               /\ \A c \in CPU : Stores(c, m, n) => loaded[c] <= Room(m, n)
               /\ \A c \in CPU : loaded[c] \in Nat
               /\ Room(m, n) \in Int /\ Room(m, n)' \in Int /\ Room(m, n) <= Room(m, n)'
    BY RoomStep DEF CountInv, TypeOK
  <1>3. ASSUME NEW m \in Map, NEW n \in Counter, NEW s \in Slot
        PROVE  element'[m][s].n[n] <= Room(m, n)'
    <2>1. CASE element'[m][s].n[n] \in {0, element[m][s].n[n]}
      BY <1>2, <2>1
    <2>2. ASSUME NEW c \in CPU, Insert(c), m = MapAt(c), n \in CountersOf(pkt[c]),
                 element'[m][s].n[n] = 1
          PROVE  element'[m][s].n[n] <= Room(m, n)'
      <3>1. Room(m, n) + 1 <= Room(m, n)'
        BY <2>2, CountMakesRoom DEF Insert
      <3> QED
        BY <1>2, <2>2, <3>1
    <2>3. ASSUME NEW c \in CPU, Store(c), m = MapAt(c), n = Head(work[c].todo),
                 element'[m][s].n[n] = loaded[c] + 1
          PROVE  element'[m][s].n[n] <= Room(m, n)'
      <3>1. Room(m, n) + 1 <= Room(m, n)' /\ Stores(c, m, n)
        BY <2>3, CountMakesRoom DEF Store, Stores
      <3> QED
        BY <1>2, <2>3, <3>1
    <2> QED
      BY <2>1, <2>2, <2>3, ElementStep
  <1>4. ASSUME NEW m \in Map, NEW n \in Counter, NEW c \in CPU, Stores(c, m, n)'
        PROVE  loaded'[c] <= Room(m, n)'
    BY <1>2, <1>4, StoresStep
  <1>5. CountInv'
    BY <1>3, <1>4 DEF CountInv
  <1> QED
    BY <1>1, <1>5

-----------------------------------------------------------------------------
(* The theorems.                                                           *)

TelemetryInv == TypeOK /\ WorkInv /\ FiniteInv /\ CountInv

LEMMA TelemetryInit == Init => TelemetryInv
  <1> SUFFICES ASSUME Init PROVE TelemetryInv
    OBVIOUS
  <1>1. NoPacket \in Packets
    BY TelemetryAssumption DEF NoPacket
  <1>2. TypeOK
    <2>1. NoPacket.src \in Key
      BY <1>1, TodoCounts DEF Key
    <2>2. <<>> \in Seq(Counter)
      OBVIOUS
    <2>3. [key |-> NoPacket.src, slot |-> None, todo |-> <<>>]
             \in [key : Key, slot : Slot \cup {None}, todo : Seq(Counter)]
      BY <2>1, <2>2
    <2>4. scope \in Scope
      BY TelemetryAssumption DEF Init
    <2>5. element \in [Map -> [Slot -> [port : Nat, n : [Counter -> Nat]]]]
      BY ZeroType DEF Init
    <2>6. poll \in [at : {"idle", "read", "clear"}, unread : SUBSET Flow,
                    cursor : Flow \cup {None}, met : SUBSET Flow]
      BY ZeroType DEF Init, PollT
    <2> QED
      BY <1>1, <2>3, <2>4, <2>5, <2>6, ZeroType DEF Init, TypeOK
  <1>3. WorkInv
    BY DEF Init, WorkInv, AtWork
  <1>4. ASSUME NEW m \in Map, NEW n \in Counter
        PROVE  /\ Owing(m, n) = {} /\ came[m][n] = 0
               /\ \A s \in Slot : element[m][s].n[n] = 0
               /\ \A c \in CPU : ~ Stores(c, m, n)
    BY <1>4 DEF Init, Owing, Owes, Zero, Stores
  <1>5. FiniteInv /\ \A m \in Map, n \in Counter : Room(m, n) = 0
    <2>1. IsFiniteSet({}) /\ Cardinality({}) = 0
      BY FS_EmptySet
    <2>2. FiniteInv
      BY <1>4, <2>1 DEF FiniteInv
    <2>3. ASSUME NEW m \in Map, NEW n \in Counter PROVE Room(m, n) = 0
      <3>1. Owing(m, n) = {} /\ came[m][n] = 0
        BY <1>4
      <3> QED
        BY <2>1, <3>1 DEF Room
    <2> QED
      BY <2>2, <2>3
  <1>6. CountInv
    BY <1>4, <1>5 DEF CountInv
  <1> QED
    BY <1>2, <1>3, <1>5, <1>6 DEF TelemetryInv

\* The inductive invariant.
LEMMA TelemetryInvariant == Spec => []TelemetryInv
  <1>1. TelemetryInv /\ [Next]_vars => TelemetryInv'
    BY TypeStep, WorkStep, CountStep DEF TelemetryInv
  <1> QED
    BY <1>1, TelemetryInit, PTL DEF Spec

\* Every variable has its type, whichever rows are made anew under the program.
THEOREM TelemetryTypeCorrect == Spec => []TypeOK
  <1>1. TelemetryInv => TypeOK
    BY DEF TelemetryInv
  <1> QED
    BY <1>1, TelemetryInvariant, PTL

\* A counter in an element is at most what came for the map.
LEMMA CountersFit == TelemetryInv => CountersBounded
  <1> SUFFICES ASSUME TelemetryInv, NEW m \in Map, NEW s \in Slot, NEW n \in Counter
               PROVE  element[m][s].n[n] <= came[m][n]
    BY DEF CountersBounded
  <1>1. element[m][s].n[n] <= Room(m, n) /\ element[m][s].n[n] \in Nat /\ came[m][n] \in Nat
    BY DEF TelemetryInv, CountInv, TypeOK
  <1>2. Cardinality(Owing(m, n)) \in Nat
    BY FS_CardinalityType DEF TelemetryInv, FiniteInv
  <1> QED
    BY <1>1, <1>2 DEF Room

\* However the loads and stores of any number of CPUs mix (src4_update, src6_update,
\* flow4_update), and whoever the element they hold belongs to by then, no counter
\* says more than came for its map: a count is lost or misplaced, never made up.
THEOREM CountsAreOfPackets == Spec => []CountersBounded
  <1> QED
    BY CountersFit, TelemetryInvariant, PTL

LEMMA CameGrows ==
    ASSUME TypeOK, WorkInv, [Next]_vars, NEW m \in Map, NEW n \in Counter
    PROVE  came[m][n] <= came'[m][n]
  <1>1. came[m][n] \in Nat
    BY DEF TypeOK
  <1> QED
    BY <1>1, OwingStep

\* A remainder is no more than the number.
LEMMA RemainderBounded ==
    ASSUME NEW x \in Nat, NEW m \in Nat \ {0}
    PROVE  x % m <= x /\ x % m \in Nat
  OBVIOUS

\* No increase the runtime adapter reports (observe4, observe6) is more than ever came
\* for the map, also after an eviction, a reused element or a late store: a counter
\* that went back only sets the base.
THEOREM RatesOfTraffic == Spec => []RatesReal
  <1>1. Init => RatesReal
    BY Maps DEF Init, RatesReal, Zero
  <1>2. TelemetryInv /\ RatesReal /\ [Next]_vars => RatesReal'
    <2> SUFFICES ASSUME TelemetryInv, RatesReal, [Next]_vars,
                        NEW s \in Source, NEW n \in Counter
                 PROVE  rates'[s][n] <= came'[MapOf(s)][n]
      BY DEF RatesReal
    <2> DEFINE m == MapOf(s)
    <2>0. m \in Map /\ s \in Key
      BY Maps
    <2> HIDE DEF m
    <2>1. /\ TypeOK /\ WorkInv
          /\ rates[s][n] \in Nat /\ came[m][n] \in Nat /\ came'[m][n] \in Nat
          /\ rates[s][n] <= came[m][n]
      <3>1. TypeOK /\ WorkInv
        BY DEF TelemetryInv
      <3>2. TypeOK'
        BY <3>1, TypeStep
      <3> QED
        BY <2>0, <3>1, <3>2 DEF RatesReal, TypeOK, m
    <2>2. came[m][n] <= came'[m][n]
      BY <2>0, <2>1, CameGrows
    <2>3. CASE rates'[s] = rates[s]
      BY <2>1, <2>2, <2>3 DEF m
    <2>4. ASSUME NEW t \in Source, Sample(t) PROVE rates'[s][n] <= came'[m][n]
      <3>1. CASE rates'[s] # rates[s]
        <4> DEFINE new == Counters(s)
                   x   == new[n] - prev[s].n[n]
        <4>1. /\ t = s /\ Live(s) /\ ~ Regressed(prev[s].n, new)
              /\ rates'[s] = [j \in Counter |-> (new[j] - prev[s].n[j]) % U64]
          BY <2>1, <2>4, <3>1 DEF Sample, TypeOK
        <4>2. at[s] \in Slot /\ new = element[m][at[s]].n
          BY <2>0, <2>1, <4>1 DEF TypeOK, Live, Counters, m
        <4>3. new[n] \in Nat /\ new[n] <= came[m][n]
          BY <2>0, <2>1, <4>2, CountersFit DEF CountersBounded, TypeOK
        <4>4. prev[s].n[n] \in Nat /\ prev[s].n[n] <= new[n]
          BY <2>1, <4>1, <4>3 DEF TypeOK, Regressed
        <4>5. rates'[s][n] = x % U64
          BY <4>1
        <4> HIDE DEF new
        <4>6. x \in Nat /\ x <= new[n]
          BY <4>3, <4>4
        <4> HIDE DEF x
        <4>7. x % U64 <= x /\ x % U64 \in Nat
          BY <4>6, RemainderBounded, TelemetryAssumption
        <4> QED
          BY <2>1, <2>2, <4>3, <4>5, <4>6, <4>7
      <3> QED
        BY <2>1, <2>2, <3>1
    <2>5. CASE ~ \E t \in Source : Sample(t)
      <3>1. rates' = rates
        BY <2>5 DEF Next, Program, Poll, vars, readerVars, Receive, Lookup, Insert, Load, Store,
                    Evict, Forget, PollBegin, ReadFlow, Restart, ReadEnd, ClearFlow, ClearFails,
                    PollFails
      <3> QED
        BY <2>3, <3>1
    <2> QED
      BY <2>3, <2>4, <2>5 DEF m
  <1> QED
    BY <1>1, <1>2, TelemetryInvariant, PTL DEF Spec
=============================================================================
