---------------------------- MODULE ShieldProofs ----------------------------
(* Theorems about Shield, for any number of CPUs, sources, edges and rules. *)
EXTENDS Shield, TokenBucketProofs

Account == [DOMAIN NoAccount -> Nat]
Pointer == [live : BOOLEAN, is : Settable]

-----------------------------------------------------------------------------
(* Limits, buckets and their accounts.                                     *)

\* Every limit that can be set is one whose products fit 64 bits.
LEMMA LimitsFit ==
    ASSUME NEW l \in Settable
    PROVE  /\ l \in Limit /\ Fits(l) /\ l.rate \in Nat /\ l.burst \in Nat
           /\ InitialTokens(l) \in Word
  <1>1. /\ l.rate \in 0..MaxRate /\ l.burst \in 0..MaxBurst
        /\ l = [rate |-> l.rate, burst |-> l.burst]
        /\ MaxRate \in Nat /\ MaxBurst \in Nat /\ NSEC \in Nat \ {0} /\ U64 \in Nat \ {0}
    BY ShieldAssumption, BucketAssumption DEF Settable
  <1>2. l.burst * NSEC <= MaxBurst * NSEC /\ l.burst * NSEC \in Nat /\ MaxBurst * NSEC \in Nat
    BY <1>1, Monotone, SMT
  <1>3. MaxBurst * NSEC + MaxRate < U64
    BY ShieldAssumption DEF Fits
  <1>4. l.burst * NSEC + l.rate < U64
    BY <1>1, <1>2, <1>3
  <1>5. l.burst <= l.burst * NSEC
    <2>1. 1 * l.burst <= NSEC * l.burst
      BY <1>1, Monotone
    <2> QED
      BY <2>1, <1>1, SMT
  <1>6. l.rate < U64 /\ l.burst < U64
    BY <1>1, <1>2, <1>4, <1>5
  <1> QED
    BY <1>1, <1>4, <1>6 DEF Limit, Word, Fits, InitialTokens

\* The limit a CPU finds where it points is one that was set.
LEMMA PointedSettable ==
    ASSUME NEW r \in Rules, NEW p \in Pointer
    PROVE  Pointed(r, p) \in Settable
  BY DEF Pointed, Pointer, Rules

LEMMA NoLimitSettable == NoLimit \in Settable
  BY ShieldAssumption DEF NoLimit, Settable

\* A charge keeps a bucket a bucket.
LEMMA ChargedBucket ==
    ASSUME NEW b \in Bucket, NEW l \in Settable, NEW t \in Word, IsSet(l)
    PROVE  Charged(b, l, t) \in Bucket
  <1>1. Refill(b, l, t) \in Bucket
    BY LimitsFit, RefillKeepsBucket
  <1> DEFINE r == Refill(b, l, t)
  <1> HIDE DEF r
  <1> QED
    BY <1>1, BucketAssumption DEF Charged, Bucket, Word, r

\* Accounts hold numbers.
LEMMA NewAccountType ==
    ASSUME NEW l \in Settable, NEW t \in Word
    PROVE  NewAccount(l, t) \in Account
  <1>1. l.rate \in Nat /\ InitialTokens(l) \in Nat /\ t \in Nat
    BY LimitsFit DEF Word
  <1> QED
    BY <1>1 DEF NewAccount, Account, NoAccount

LEMMA EnteredType ==
    ASSUME NEW a \in Account, NEW b \in Bucket, NEW l \in Settable, NEW t \in Word
    PROVE  Entered(a, b, l, t) \in Account
  <1> DEFINE fresh == b.tokens < l.burst /\ Refill(b, l, t) = [last |-> t, tokens |-> l.burst]
             one   == IF Allows(b, l, t) THEN 1 ELSE 0
  <1>1. l.rate \in Nat /\ l.burst \in Nat /\ t \in Nat
    BY LimitsFit DEF Word
  <1>2. /\ a.born \in Nat /\ a.first \in Nat /\ a.spent \in Nat /\ a.rate \in Nat
        /\ a.burst \in Nat /\ a.since \in Nat /\ a.cap \in Nat /\ a.used \in Nat
        /\ a.low \in Nat
    BY DEF Account, NoAccount
  <1>3. one \in Nat
    OBVIOUS
  <1>4. Entered(a, b, l, t) =
          [born |-> a.born, first |-> a.first, spent |-> a.spent + one,
           rate |-> AtLeast(a.rate, l.rate), burst |-> AtLeast(a.burst, l.burst),
           since |-> IF fresh THEN t ELSE a.since,
           cap   |-> IF fresh THEN l.burst ELSE a.cap,
           used  |-> IF fresh THEN one ELSE a.used + one,
           low   |-> IF fresh THEN l.rate ELSE AtMost(a.low, l.rate)]
    BY DEF Entered
  <1> HIDE DEF fresh, one
  <1> QED
    BY <1>1, <1>2, <1>3, <1>4 DEF Account, NoAccount, AtLeast, AtMost

-----------------------------------------------------------------------------
(* Types.                                                                  *)

\* Where the program is tells what it holds: an edge stage has an IPv4 packet with
\* a port, a drop flag is set only on the way to the verdict.
Shape ==
    \A c \in CPU :
        /\ stage[c] = "edge" => HasEdge(pkt[c])
        /\ pc[c] = "idle" => stage[c] = "source"
        /\ pc[c] \in {"mode", "edge", "edgelimit"} => HasEdge(pkt[c])
        /\ drop[c] # "none" => pc[c] = "verdict"

Types == TypeOK /\ Shape

LEMMA EdgePacket ==
    ASSUME NEW p \in Packet, HasEdge(p)
    PROVE  p \in Edge
  BY DEF Packet, HasEdge, Edge

LEMMA KeyType ==
    ASSUME Types, NEW c \in CPU
    PROVE  BucketKey(c) \in Key
  <1>1. pkt[c] \in Packet /\ stage[c] \in {"source", "edge"}
        /\ (stage[c] = "edge" => HasEdge(pkt[c]))
    BY DEF Types, TypeOK, Shape
  <1>2. CASE stage[c] = "source"
    <2>1. pkt[c].src \in Source
      BY <1>1 DEF Packet
    <2> QED
      BY <1>2, <2>1 DEF BucketKey, Key
  <1>3. CASE stage[c] = "edge"
    BY <1>1, <1>3, EdgePacket DEF BucketKey, Key
  <1> QED
    BY <1>1, <1>2, <1>3

LEMMA TypesInit == Init => Types
  <1> SUFFICES ASSUME Init PROVE Types
    OBVIOUS
  <1>1. NoPacket \in Packet
    <2>1. PICK s \in Source : TRUE
      BY ShieldAssumption
    <2>2. [src |-> s, port |-> 0] \in Packet
      BY DEF Packet
    <2> QED
      BY <2>2 DEF NoPacket
  <1>2. rules \in Rules /\ scope \in Scope
    BY ShieldAssumption DEF Init
  <1>3. NoBucket \in Bucket /\ 0 \in Word
    BY BucketAssumption DEF NoBucket, Bucket, Word
  <1>4. ToPolicy(NoLimit) \in [live : BOOLEAN, is : Settable]
    BY NoLimitSettable DEF ToPolicy
  <1>5. NoTotals \in [DOMAIN NoTotals -> Nat] /\ NoAccount \in [DOMAIN NoAccount -> Nat]
    BY DEF NoTotals, NoAccount
  <1>6. <<>> \in Seq(Rules)
    OBVIOUS
  <1>7. TypeOK
    BY <1>1, <1>2, <1>3, <1>4, <1>5, <1>6 DEF Init, TypeOK, Where, Why
  <1>8. Shape
    BY DEF Init, Shape
  <1> QED
    BY <1>7, <1>8 DEF Types

\* Counting and jumping keep the types.
LEMMA CountType ==
    ASSUME Types, NEW c \in CPU, NEW fields, Count(c, fields)
    PROVE  totals' \in [CPU -> [DOMAIN NoTotals -> Nat]]
  <1>1. totals \in [CPU -> [DOMAIN NoTotals -> Nat]]
    BY DEF Types, TypeOK
  <1> QED
    BY <1>1 DEF Count, NoTotals

LEMMA DropType ==
    ASSUME Types, NEW c \in CPU, NEW why \in Why, Drop(c, why)
    PROVE  drop' \in [CPU -> Why] /\ pc' \in [CPU -> Where]
  BY DEF Types, TypeOK, Drop, Goto, Where

LEMMA TypesReceive ==
    ASSUME Types, NEW c \in CPU, NEW p \in Packet, Receive(c, p)
    PROVE  Types'
  <1>1. totals' \in [CPU -> [DOMAIN NoTotals -> Nat]]
    BY CountType DEF Receive
  <1>2. <<rules>> \in Seq(Rules) /\ clock \in Word /\ rules \in Rules
    BY DEF Types, TypeOK
  <1>3. TypeOK'
    BY <1>1, <1>2 DEF Types, TypeOK, Receive, Goto, Where, bucketVars
  <1>4. Shape'
    BY DEF Types, TypeOK, Shape, Receive, Goto
  <1> QED
    BY <1>3, <1>4 DEF Types

LEMMA TypesUnparsed ==
    ASSUME Types, NEW c \in CPU, ReceiveUnparsed(c)
    PROVE  Types'
  <1>1. totals' \in [CPU -> [DOMAIN NoTotals -> Nat]]
    BY CountType DEF ReceiveUnparsed
  <1>2. TypeOK'
    BY <1>1 DEF Types, TypeOK, ReceiveUnparsed, bucketVars
  <1>3. Shape'
    BY DEF Types, Shape, ReceiveUnparsed
  <1> QED
    BY <1>2, <1>3 DEF Types

LEMMA TypesLookups ==
    ASSUME Types, NEW c \in CPU,
           ReadConfig(c) \/ AllowLookup(c) \/ DenyLookup(c)
    PROVE  Types'
  <1>1. TypeOK'
    <2>1. CASE ReadConfig(c)
      BY <2>1 DEF Types, TypeOK, ReadConfig, Goto, Where, Why, bucketVars
    <2>2. CASE AllowLookup(c)
      <3>1. CASE Count(c, {"allow_hits"}) /\ Goto(c, "deny") /\ UNCHANGED drop
        <4>1. totals' \in [CPU -> [DOMAIN NoTotals -> Nat]]
          BY <3>1, CountType
        <4> QED
          BY <2>2, <3>1, <4>1 DEF Types, TypeOK, AllowLookup, Goto, Where, bucketVars
      <3>2. CASE Drop(c, "allow") /\ UNCHANGED totals
        <4>1. drop' \in [CPU -> Why] /\ pc' \in [CPU -> Where]
          BY <3>2, DropType DEF Why
        <4> QED
          BY <2>2, <3>2, <4>1 DEF Types, TypeOK, AllowLookup, bucketVars
      <3> QED
        BY <2>2, <3>1, <3>2 DEF AllowLookup
    <2>3. CASE DenyLookup(c)
      <3>1. CASE Count(c, {"deny_hits"}) /\ Drop(c, "deny")
        <4>1. /\ totals' \in [CPU -> [DOMAIN NoTotals -> Nat]]
              /\ drop' \in [CPU -> Why] /\ pc' \in [CPU -> Where]
          BY <3>1, CountType, DropType DEF Why
        <4> QED
          BY <2>3, <4>1 DEF Types, TypeOK, DenyLookup, bucketVars
      <3>2. CASE Goto(c, "default") /\ UNCHANGED <<drop, totals>>
        BY <2>3, <3>2 DEF Types, TypeOK, DenyLookup, Goto, Where, bucketVars
      <3> QED
        BY <2>3, <3>1, <3>2 DEF DenyLookup
    <2> QED
      BY <2>1, <2>2, <2>3
  <1>2. Shape'
    BY DEF Types, TypeOK, Shape, ReadConfig, AllowLookup, DenyLookup, Drop, Goto
  <1> QED
    BY <1>1, <1>2 DEF Types

LEMMA TypesSelect ==
    ASSUME Types, NEW c \in CPU,
           SelectDefault(c) \/ SelectOverride(c) \/ SelectEdge(c)
    PROVE  Types'
  <1>1. /\ rules \in Rules /\ pkt[c] \in Packet /\ limit[c] \in Pointer
        /\ pc \in [CPU -> Where] /\ limit \in [CPU -> Pointer]
        /\ pkt[c].src \in Source
    BY DEF Types, TypeOK, Pointer, Packet
  <1>2. CASE SelectDefault(c)
    <2>1. /\ ToDefault \in Pointer /\ ToPolicy(NoLimit) \in Pointer
      BY NoLimitSettable DEF ToDefault, ToPolicy, Pointer
    <2>2. limit' \in [CPU -> Pointer]
      BY <1>1, <1>2, <2>1 DEF SelectDefault
    <2>3. TypeOK'
      BY <1>2, <2>2 DEF Types, TypeOK, SelectDefault, Goto, Where, bucketVars, Pointer
    <2>4. Shape'
      BY <1>2 DEF Types, TypeOK, Shape, SelectDefault, Goto
    <2> QED
      BY <2>3, <2>4 DEF Types
  <1>3. CASE SelectOverride(c)
    <2> DEFINE p == Override(rules, pkt[c].src, limit[c])
    <2>1. p \in Pointer
      BY <1>1 DEF Override, ToPolicy, Pointer, Rules
    <2> HIDE DEF p
    <2>2. /\ limit' = [limit EXCEPT ![c] = p]
          /\ \/ Goto(c, Onward(c)) /\ UNCHANGED totals
             \/ Count(c, {"rl_hits"}) /\ Goto(c, "lookup")
          /\ UNCHANGED <<scope, rules, bucketVars, pkt, now, stage, at, mode, drop,
                         clock, writes, during, paid>>
          /\ pc[c] = "override"
      BY <1>3 DEF SelectOverride, p
    <2>3. limit' \in [CPU -> Pointer]
      BY <1>1, <2>1, <2>2
    <2>4. totals' \in [CPU -> [DOMAIN NoTotals -> Nat]]
      BY <2>2, CountType DEF Types, TypeOK
    <2>5. /\ Onward(c) \in {"mode", "verdict"}
          /\ Onward(c) = "mode" => HasEdge(pkt[c])
      BY DEF Onward
    <2>6. \E w \in {"mode", "verdict", "lookup"} :
            pc' = [pc EXCEPT ![c] = w] /\ (w = "mode" => HasEdge(pkt[c]))
      BY <2>2, <2>5 DEF Goto
    <2>7. TypeOK'
      BY <2>2, <2>3, <2>4, <2>6 DEF Types, TypeOK, Where, bucketVars, Pointer
    <2>8. Shape'
      BY <2>2, <2>6 DEF Types, TypeOK, Shape
    <2> QED
      BY <2>7, <2>8 DEF Types
  <1>4. CASE SelectEdge(c)
    <2>1. HasEdge(pkt[c]) /\ pkt[c] \in Edge
      BY <1>1, <1>4, EdgePacket DEF Types, Shape, SelectEdge
    <2>2. ToPolicy(rules.edgeRl[pkt[c]]) \in Pointer
      BY <1>1, <2>1 DEF ToPolicy, Pointer, Rules
    <2>3. CASE UNCHANGED <<limit, stage, totals>> /\ Goto(c, "verdict")
      <3>1. TypeOK'
        BY <1>4, <2>3 DEF Types, TypeOK, SelectEdge, Goto, Where, bucketVars
      <3>2. Shape'
        BY <1>4, <2>3 DEF Types, TypeOK, Shape, SelectEdge, Goto
      <3> QED
        BY <3>1, <3>2 DEF Types
    <2>4. CASE /\ limit' = [limit EXCEPT ![c] = ToPolicy(rules.edgeRl[pkt[c]])]
               /\ stage' = [stage EXCEPT ![c] = "edge"]
               /\ Count(c, {"rl_hits"}) /\ Goto(c, "lookup")
      <3>1. totals' \in [CPU -> [DOMAIN NoTotals -> Nat]] /\ limit' \in [CPU -> Pointer]
        BY <1>1, <2>2, <2>4, CountType
      <3>2. TypeOK'
        BY <1>4, <2>4, <3>1 DEF Types, TypeOK, SelectEdge, Goto, Where, bucketVars, Pointer
      <3>3. Shape'
        BY <1>4, <2>1, <2>4 DEF Types, TypeOK, Shape, SelectEdge, Goto
      <3> QED
        BY <3>2, <3>3 DEF Types
    <2> QED
      BY <1>4, <2>3, <2>4 DEF SelectEdge
  <1> QED
    BY <1>2, <1>3, <1>4

LEMMA TypesBucket ==
    ASSUME Types, NEW c \in CPU,
           BucketLookup(c) \/ ChargeBucket(c) \/ ReadBurst(c) \/ CreateBucket(c)
    PROVE  Types'
  <1> DEFINE k == BucketKey(c)
             l == Pointed(rules, limit[c])
  <1>1. /\ k \in Key /\ l \in Settable /\ rules \in Rules /\ now[c] \in Word
        /\ at[c] \in CPU /\ stage[c] \in {"source", "edge"}
        /\ bucket \in [Key -> [CPU -> Bucket]]
        /\ ledger \in [Key -> [CPU -> Account]]
        /\ pc \in [CPU -> Where] /\ current \in [Key -> CPU \cup {None}]
        /\ at \in [CPU -> CPU] /\ paid \in [CPU -> SUBSET {"source", "edge"}]
    BY KeyType, PointedSettable DEF Types, TypeOK, Account, Pointer
  <1>2. /\ Onward(c) \in {"mode", "verdict"}
        /\ Onward(c) = "mode" => HasEdge(pkt[c])
    BY DEF Onward
  <1> HIDE DEF k, l
  <1>3. CASE BucketLookup(c)
    <2>1. /\ at' = at \/ \E d \in CPU : at' = [at EXCEPT ![c] = d]
          /\ \E w \in {"charge", "burst"} : pc' = [pc EXCEPT ![c] = w]
      BY <1>1, <1>3 DEF BucketLookup, Found, Goto, k
    <2>2. /\ UNCHANGED <<scope, rules, bucketVars, pkt, now, stage, limit, mode, drop, totals,
                         clock, writes, during, paid>>
          /\ pc[c] = "lookup"
      BY <1>3 DEF BucketLookup
    <2>3. TypeOK'
      <3>1. at' \in [CPU -> CPU] /\ pc' \in [CPU -> Where]
        BY <1>1, <2>1 DEF Where
      <3> QED
        BY <2>2, <3>1 DEF Types, TypeOK, bucketVars
    <2>4. Shape'
      BY <2>1, <2>2 DEF Types, TypeOK, Shape
    <2> QED
      BY <2>3, <2>4 DEF Types
  <1>4. CASE ChargeBucket(c)
    <2> DEFINE b == bucket[k][at[c]]
    <2>1. b \in Bucket /\ ledger[k][at[c]] \in Account
      BY <1>1
    <2> HIDE DEF b
    <2>2. /\ pc[c] = "charge"
          /\ UNCHANGED <<scope, rules, current, pkt, now, stage, limit, at, mode, totals,
                         clock, writes, during>>
          /\ \/ /\ UNCHANGED <<bucket, ledger, drop, paid>>
                /\ Goto(c, Onward(c))
             \/ /\ IsSet(l)
                /\ bucket' = [bucket EXCEPT ![k][at[c]] = Charged(b, l, now[c])]
                /\ ledger' = [ledger EXCEPT ![k][at[c]] = Entered(@, b, l, now[c])]
                /\ paid' = [paid EXCEPT ![c] = @ \cup {stage[c]}]
                /\ \/ Goto(c, Onward(c)) /\ UNCHANGED drop
                   \/ Drop(c, "rl")
      BY <1>4 DEF ChargeBucket, k, l, b
    <2>3. /\ bucket' \in [Key -> [CPU -> Bucket]]
          /\ ledger' \in [Key -> [CPU -> Account]]
          /\ paid' \in [CPU -> SUBSET {"source", "edge"}]
      <3>1. IsSet(l) => Charged(b, l, now[c]) \in Bucket
        BY <1>1, <2>1, ChargedBucket
      <3>2. Entered(ledger[k][at[c]], b, l, now[c]) \in Account
        BY <1>1, <2>1, EnteredType
      <3>3. CASE UNCHANGED <<bucket, ledger, paid>>
        BY <1>1, <3>3
      <3>4. CASE /\ IsSet(l)
                 /\ bucket' = [bucket EXCEPT ![k][at[c]] = Charged(b, l, now[c])]
                 /\ ledger' = [ledger EXCEPT ![k][at[c]] = Entered(@, b, l, now[c])]
                 /\ paid' = [paid EXCEPT ![c] = @ \cup {stage[c]}]
        <4> DEFINE v == Charged(b, l, now[c])
                   w == Entered(ledger[k][at[c]], b, l, now[c])
        <4>1. /\ v \in Bucket /\ bucket' = [bucket EXCEPT ![k][at[c]] = v]
              /\ w \in Account /\ ledger' = [ledger EXCEPT ![k][at[c]] = w]
          BY <1>1, <3>1, <3>2, <3>4
        <4> HIDE DEF v, w
        <4>2. bucket' \in [Key -> [CPU -> Bucket]]
          BY <1>1, <4>1
        <4>3. ledger' \in [Key -> [CPU -> Account]]
          BY <1>1, <4>1
        <4> QED
          BY <1>1, <3>4, <4>2, <4>3
      <3> QED
        BY <2>2, <3>3, <3>4
    <2>4. /\ drop' \in [CPU -> Why] /\ pc' \in [CPU -> Where]
      <3>1. CASE Drop(c, "rl")
        BY <3>1, DropType DEF Why
      <3>2. CASE Goto(c, Onward(c)) /\ UNCHANGED drop
        BY <1>1, <1>2, <3>2 DEF Goto, Where, Types, TypeOK
      <3> QED
        BY <2>2, <3>1, <3>2
    <2>5. TypeOK'
      BY <2>2, <2>3, <2>4 DEF Types, TypeOK, Account
    <2>6. Shape'
      <3>1. UNCHANGED <<pkt, stage>>
        BY <2>2
      <3>2. CASE Drop(c, "rl")
        BY <2>2, <3>1, <3>2 DEF Types, TypeOK, Shape, Drop, Goto
      <3>3. CASE Goto(c, Onward(c)) /\ UNCHANGED drop
        BY <1>2, <2>2, <3>1, <3>3 DEF Types, TypeOK, Shape, Goto
      <3> QED
        BY <2>2, <3>2, <3>3
    <2> QED
      BY <2>5, <2>6 DEF Types
  <1>6. CASE ReadBurst(c)
    <2>1. /\ UNCHANGED <<scope, rules, bucketVars, pkt, now, stage, at, mode, drop, totals,
                         clock, writes, during, paid>>
          /\ pc' = [pc EXCEPT ![c] = "create"] /\ pc[c] = "burst"
          /\ limit' = [limit EXCEPT ![c] = ToPolicy(l)]
      BY <1>6 DEF ReadBurst, Goto, l
    <2>2. ToPolicy(l) \in Pointer
      BY <1>1 DEF ToPolicy, Pointer
    <2>3. TypeOK'
      <3>1. limit' \in [CPU -> Pointer] /\ pc' \in [CPU -> Where]
        BY <1>1, <2>1, <2>2 DEF Types, TypeOK, Where, Pointer
      <3> QED
        BY <2>1, <3>1 DEF Types, TypeOK, bucketVars, Pointer
    <2>4. Shape'
      BY <2>1 DEF Types, TypeOK, Shape
    <2> QED
      BY <2>3, <2>4 DEF Types
  <1>5. CASE CreateBucket(c)
    <2>1. /\ pc[c] = "create" /\ Goto(c, Onward(c))
          /\ paid' = [paid EXCEPT ![c] = @ \cup {stage[c]}]
          /\ UNCHANGED <<scope, rules, pkt, now, stage, limit, at, mode, drop, totals,
                         clock, writes, during>>
          /\ \/ UNCHANGED bucketVars
             \/ /\ bucket' = [bucket EXCEPT ![k][c] =
                                [last |-> now[c], tokens |-> InitialTokens(l)]]
                /\ current' = [current EXCEPT ![k] = c]
                /\ ledger' = [ledger EXCEPT ![k][c] = NewAccount(l, now[c])]
      BY <1>5 DEF CreateBucket, k, l
    <2>2. /\ [last |-> now[c], tokens |-> InitialTokens(l)] \in Bucket
          /\ NewAccount(l, now[c]) \in Account
      BY <1>1, LimitsFit, NewAccountType DEF Bucket
    <2>3. /\ bucket' \in [Key -> [CPU -> Bucket]]
          /\ ledger' \in [Key -> [CPU -> Account]]
          /\ current' \in [Key -> CPU \cup {None}]
          /\ paid' \in [CPU -> SUBSET {"source", "edge"}]
          /\ pc' \in [CPU -> Where]
      <3>1. paid' \in [CPU -> SUBSET {"source", "edge"}] /\ pc' \in [CPU -> Where]
        BY <1>1, <1>2, <2>1 DEF Goto, Where
      <3>2. CASE UNCHANGED bucketVars
        BY <1>1, <3>1, <3>2 DEF bucketVars
      <3>3. CASE /\ bucket' = [bucket EXCEPT ![k][c] =
                                [last |-> now[c], tokens |-> InitialTokens(l)]]
                 /\ current' = [current EXCEPT ![k] = c]
                 /\ ledger' = [ledger EXCEPT ![k][c] = NewAccount(l, now[c])]
        <4> DEFINE v == [last |-> now[c], tokens |-> InitialTokens(l)]
                   w == NewAccount(l, now[c])
        <4>1. /\ v \in Bucket /\ bucket' = [bucket EXCEPT ![k][c] = v]
              /\ w \in Account /\ ledger' = [ledger EXCEPT ![k][c] = w]
          BY <2>2, <3>3
        <4> HIDE DEF v, w
        <4>2. bucket' \in [Key -> [CPU -> Bucket]]
          BY <1>1, <4>1
        <4>3. ledger' \in [Key -> [CPU -> Account]]
          BY <1>1, <4>1
        <4>4. current' \in [Key -> CPU \cup {None}]
          BY <1>1, <3>3
        <4> QED
          BY <3>1, <4>2, <4>3, <4>4
      <3> QED
        BY <2>1, <3>2, <3>3
    <2>4. TypeOK'
      BY <2>1, <2>3 DEF Types, TypeOK, Account
    <2>5. Shape'
      BY <1>2, <2>1 DEF Types, TypeOK, Shape, Goto
    <2> QED
      BY <2>4, <2>5 DEF Types
  <1> QED
    BY <1>3, <1>4, <1>5, <1>6

LEMMA TypesEdge ==
    ASSUME Types, NEW c \in CPU, ReadMode(c) \/ EdgeLookup(c)
    PROVE  Types'
  <1>1. CASE ReadMode(c)
    <2>1. rules.mode \in 0..2
      BY DEF Types, TypeOK, Rules
    <2>2. TypeOK'
      BY <1>1, <2>1 DEF Types, TypeOK, ReadMode, Goto, Where, bucketVars
    <2>3. Shape'
      BY <1>1 DEF Types, TypeOK, Shape, ReadMode, Goto
    <2> QED
      BY <2>2, <2>3 DEF Types
  <1>2. CASE EdgeLookup(c)
    <2>1. CASE Count(c, {"deny_hits"}) /\ Drop(c, "deny")
      <3>1. /\ totals' \in [CPU -> [DOMAIN NoTotals -> Nat]]
            /\ drop' \in [CPU -> Why] /\ pc' \in [CPU -> Where]
        BY <2>1, CountType, DropType DEF Why
      <3>2. TypeOK'
        BY <1>2, <3>1 DEF Types, TypeOK, EdgeLookup, bucketVars
      <3>3. Shape'
        BY <1>2, <2>1 DEF Types, TypeOK, Shape, EdgeLookup, Drop, Goto
      <3> QED
        BY <3>2, <3>3 DEF Types
    <2>2. CASE Goto(c, "edgelimit") /\ UNCHANGED <<drop, totals>>
      <3>1. TypeOK'
        BY <1>2, <2>2 DEF Types, TypeOK, EdgeLookup, Goto, Where, bucketVars
      <3>2. Shape'
        BY <1>2, <2>2 DEF Types, TypeOK, Shape, EdgeLookup, Goto
      <3> QED
        BY <3>1, <3>2 DEF Types
    <2> QED
      BY <1>2, <2>1, <2>2 DEF EdgeLookup
  <1> QED
    BY <1>1, <1>2

LEMMA TypesVerdict ==
    ASSUME Types, NEW c \in CPU, Verdict(c)
    PROVE  Types'
  <1>1. /\ NoPacket \in Packet /\ 0 \in Word /\ ToPolicy(NoLimit) \in Pointer
        /\ <<>> \in Seq(Rules) 
    <2>1. NoPacket \in Packet
      <3>1. pkt[c] \in Packet
        BY DEF Types, TypeOK
      <3> QED
        BY <3>1 DEF NoPacket
    <2> QED
      BY <2>1, NoLimitSettable, BucketAssumption DEF Word, ToPolicy, Pointer
  <1>2. totals' \in [CPU -> [DOMAIN NoTotals -> Nat]]
    <2>1. Count(c, {Outcome(drop[c])})
      BY DEF Verdict
    <2> QED
      BY <2>1, CountType
  <1>3. limit' \in [CPU -> Pointer]
    BY <1>1 DEF Verdict, Types, TypeOK, Pointer
  <1>4. TypeOK'
    BY <1>1, <1>2, <1>3 DEF Types, TypeOK, Verdict, Goto, Where, Why, bucketVars, Pointer
  <1>5. Shape'
    BY DEF Types, TypeOK, Shape, Verdict, Goto
  <1> QED
    BY <1>4, <1>5 DEF Types

LEMMA RewriteTypes ==
    ASSUME Types, NEW m, NEW r \in Rules, Rewrite(m, r)
    PROVE  Types'
  <1>1. during' \in [CPU -> Seq(Rules)]
    <2>1. \A c \in CPU : during[c] \in Seq(Rules) /\ Append(during[c], r) \in Seq(Rules)
      BY DEF Types, TypeOK
    <2> QED
      BY <2>1 DEF Rewrite
  <1>2. TypeOK'
    BY <1>1 DEF Types, TypeOK, Rewrite, bucketVars, progVars
  <1>3. Shape'
    BY DEF Types, Shape, Rewrite, progVars
  <1> QED
    BY <1>2, <1>3 DEF Types

LEMMA TypesControl ==
    ASSUME Types, Control
    PROVE  Types'
  <1>1. rules \in Rules /\ Limits \cup {NoLimit} \subseteq Settable
    BY ShieldAssumption, NoLimitSettable DEF Types, TypeOK
  <1>2. CASE WriteConfig
    <2>1. [rules EXCEPT !.enforce = ~ @] \in Rules
      BY <1>1 DEF Rules
    <2> QED
      BY <1>2, <2>1, RewriteTypes DEF WriteConfig
  <1>3. CASE WriteAllow
    <2>1. ASSUME NEW p \in Cidr PROVE [rules EXCEPT !.allow = Toggle(@, p)] \in Rules
      BY <1>1 DEF Rules, Toggle
    <2> QED
      BY <1>3, <2>1, RewriteTypes DEF WriteAllow
  <1>4. CASE WriteDeny
    <2>1. ASSUME NEW s \in Source PROVE [rules EXCEPT !.deny = Toggle(@, s)] \in Rules
      BY <1>1 DEF Rules, Toggle
    <2> QED
      BY <1>4, <2>1, RewriteTypes DEF WriteDeny
  <1>5. CASE WriteDefault
    <2>1. ASSUME NEW l \in Settable
          PROVE  /\ [rules EXCEPT !.def.rate = l.rate] \in Rules
                 /\ [rules EXCEPT !.def.burst = l.burst] \in Rules
      <3>1. /\ l.rate \in 0..MaxRate /\ l.burst \in 0..MaxBurst
            /\ rules.def \in Settable
        BY <1>1 DEF Rules, Settable
      <3>2. /\ [rules.def EXCEPT !.rate = l.rate] \in Settable
            /\ [rules.def EXCEPT !.burst = l.burst] \in Settable
        BY <3>1 DEF Settable
      <3> QED
        BY <1>1, <3>2 DEF Rules
    <2> QED
      BY <1>1, <1>5, <2>1, RewriteTypes DEF WriteDefault
  <1>6. CASE WritePolicy
    <2>1. ASSUME NEW s \in Source, NEW l \in Settable
          PROVE  [rules EXCEPT !.policy[s] = l] \in Rules
      BY <1>1 DEF Rules
    <2> QED
      BY <1>1, <1>6, <2>1, RewriteTypes DEF WritePolicy
  <1>7. CASE WriteMode
    <2>1. ASSUME NEW m \in 0..2 PROVE [rules EXCEPT !.mode = m] \in Rules
      BY <1>1 DEF Rules
    <2> QED
      BY <1>7, <2>1, RewriteTypes DEF WriteMode
  <1>8. CASE WriteEdgeDeny
    <2>1. ASSUME NEW e \in Edge PROVE [rules EXCEPT !.edgeDeny = Toggle(@, e)] \in Rules
      BY <1>1 DEF Rules, Toggle
    <2> QED
      BY <1>8, <2>1, RewriteTypes DEF WriteEdgeDeny
  <1>9. CASE WriteEdgeAllow
    <2>1. ASSUME NEW e \in Edge PROVE [rules EXCEPT !.edgeAllow = Toggle(@, e)] \in Rules
      BY <1>1 DEF Rules, Toggle
    <2> QED
      BY <1>9, <2>1, RewriteTypes DEF WriteEdgeAllow
  <1>10. CASE WriteEdgeLimit
    <2>1. ASSUME NEW e \in Edge, NEW l \in Settable
          PROVE  [rules EXCEPT !.edgeRl[e] = l] \in Rules
      BY <1>1 DEF Rules
    <2> QED
      BY <1>1, <1>10, <2>1, RewriteTypes DEF WriteEdgeLimit
  <1> QED
    BY <1>2, <1>3, <1>4, <1>5, <1>6, <1>7, <1>8, <1>9, <1>10 DEF Control

LEMMA TypesTick ==
    ASSUME Types, Tick
    PROVE  Types'
  <1>1. clock' \in Word
    <2>1. scope.until \in Word /\ clock \in Word
      BY DEF Types, TypeOK, Scope
    <2> QED
      BY <2>1, BucketAssumption DEF Tick, Word
  <1> QED
    BY <1>1 DEF Types, TypeOK, Shape, Tick, bucketVars, progVars

LEMMA TypesStep ==
    ASSUME Types, [Next]_vars
    PROVE  Types'
  <1>1. ASSUME NEW c \in CPU, Step(c) PROVE Types'
    BY <1>1, TypesReceive, TypesUnparsed, TypesLookups, TypesSelect, TypesBucket, TypesEdge,
       TypesVerdict DEF Step
  <1>2. CASE UNCHANGED vars
    BY <1>2 DEF Types, TypeOK, Shape, vars, bucketVars, progVars
  <1> QED
    BY <1>1, <1>2, TypesControl, TypesTick DEF Next

LEMMA TypesHold == Spec => []Types
  <1>1. Init => Types
    BY TypesInit
  <1>2. Types /\ [Next]_vars => Types'
    BY TypesStep
  <1> QED
    BY <1>1, <1>2, PTL DEF Spec

\* Every variable keeps its type, with any limits whose products fit 64 bits, and
\* while the control plane changes a limit under a CPU that creates a bucket.
THEOREM ShieldTypeCorrect == Spec => []TypeOK
  <1>1. Types => TypeOK
    BY DEF Types
  <1> QED
    BY <1>1, TypesHold, PTL

-----------------------------------------------------------------------------
(* Accounts.                                                               *)

\* What an account says of its bucket at time t: from above, what was let through and
\* what is left was there at first or earned; from below, no credit since the bucket
\* was last full is missing.
Accounted(a, b, t) ==
    a.spent > 0 =>
        /\ a.born <= b.last /\ a.since <= b.last /\ b.last <= t
        /\ b.tokens < a.burst
        /\ (a.spent + b.tokens) * NSEC
             <= a.first * NSEC + (b.last - a.born) * a.rate + (a.spent - 1) * (a.rate - 1)
        /\ (b.tokens + a.used) * NSEC >= a.cap * NSEC + (b.last - a.since) * a.low

LEMMA NewAccounted ==
    ASSUME NEW l \in Settable, NEW t \in Word, NEW u \in Nat, t <= u
    PROVE  Accounted(NewAccount(l, t), [last |-> t, tokens |-> InitialTokens(l)], u)
  <1> DEFINE n == InitialTokens(l)
  <1>1. n \in Nat /\ t \in Nat /\ l.rate \in Nat /\ NSEC \in Nat
    BY LimitsFit, BucketAssumption DEF Word
  <1> HIDE DEF n
  <1>2. (t - t) * l.rate = 0 /\ (1 - 1) * (l.rate - 1) = 0 /\ (1 + n) * NSEC = (n + 1) * NSEC
        /\ (n + 1) * NSEC \in Nat
    BY <1>1, SMT
  <1>3. NewAccount(l, t) = [born |-> t, first |-> n + 1, spent |-> 1, rate |-> l.rate,
                            burst |-> n + 1, since |-> t, cap |-> n + 1, used |-> 1,
                            low |-> l.rate]
    BY DEF NewAccount, n
  <1> QED
    BY <1>1, <1>2, <1>3 DEF Accounted, n

\* From above: a packet let through was paid for, by tokens or by time.
LEMMA PaidFor ==
    ASSUME NEW s \in Nat \ {0}, NEW k \in Nat, NEW m \in Nat, NEW first \in Nat,
           NEW born \in Nat, NEW last \in Nat, NEW next \in Nat,
           NEW rate \in Nat, NEW lr \in Nat \ {0}, NEW R \in Nat \ {0}, rate <= R, lr <= R,
           born <= last, last <= next,
           (s + k) * NSEC <= first * NSEC + (last - born) * rate + (s - 1) * (rate - 1),
           \/ m = k /\ next = last
           \/ m * NSEC < k * NSEC + (next - last) * lr + lr
    PROVE  (s + m) * NSEC <= first * NSEC + (next - born) * R + s * (R - 1)
  <1> DEFINE p == (last - born) * R
             g == (next - last) * R
             q == (s - 1) * (R - 1)
             f == first * NSEC
             x == s * NSEC
             y == k * NSEC
             z == m * NSEC
  <1>1. NSEC \in Nat \ {0}
    BY BucketAssumption
  <1>2. (last - born) * rate <= p /\ p \in Nat
    <2>1. rate * (last - born) <= R * (last - born)
      BY Monotone
    <2> QED
      BY <2>1, SMT
  <1>3. (s - 1) * (rate - 1) <= q /\ q \in Nat
    <2>1. rate * (s - 1) <= R * (s - 1)
      BY Monotone
    <2>2. /\ (s - 1) * (rate - 1) = rate * (s - 1) - (s - 1)
          /\ (s - 1) * (R - 1) = R * (s - 1) - (s - 1)
      BY SMT
    <2>3. q \in Nat
      BY SMT
    <2> QED
      BY <2>1, <2>2, <2>3
  <1>4. (next - last) * lr <= g /\ g \in Nat
    <2>1. lr * (next - last) <= R * (next - last)
      BY Monotone
    <2> QED
      BY <2>1, SMT
  <1>5. f \in Nat /\ x \in Nat /\ y \in Nat /\ z \in Nat
    BY <1>1, SMT
  <1>6. /\ (s + k) * NSEC = x + y /\ (s + m) * NSEC = x + z
        /\ (next - born) * R = p + g
        /\ s * (R - 1) = q + (R - 1)
    BY <1>1, SMT
  <1>7. x + y <= f + p + q
    <2>1. x + y <= f + (last - born) * rate + (s - 1) * (rate - 1)
      BY <1>6
    <2>2. (last - born) * rate \in Int /\ (s - 1) * (rate - 1) \in Int
      BY SMT
    <2> HIDE DEF f, p, q, x, y
    <2> QED
      BY <2>1, <2>2, <1>2, <1>3, <1>5
  <1>8. z <= y + g + (R - 1)
    <2>1. CASE m = k
      BY <2>1, <1>4, <1>5
    <2>2. CASE z < y + (next - last) * lr + lr
      <3>1. (next - last) * lr \in Nat
        BY SMT
      <3> HIDE DEF g, y, z
      <3> QED
        BY <2>2, <3>1, <1>4, <1>5
    <2> QED
      BY <2>1, <2>2
  <1>9. x + z <= f + p + g + q + (R - 1)
    <2> HIDE DEF f, p, g, q, x, y, z
    <2> QED
      BY <1>2, <1>3, <1>4, <1>5, <1>7, <1>8
  <1> HIDE DEF f, p, g, q, x, y, z
  <1>10. (s + m) * NSEC <= f + (p + g) + (q + (R - 1))
    BY <1>2, <1>3, <1>4, <1>5, <1>6, <1>9
  <1> QED
    BY <1>6, <1>10 DEF f

\* From below: no credit is lost while a bucket is not full.
LEMMA KeepsCredit ==
    ASSUME NEW used \in Nat, NEW k \in Nat, NEW m \in Nat, NEW cap \in Nat,
           NEW since \in Nat, NEW last \in Nat, NEW next \in Nat,
           NEW low \in Nat, NEW lr \in Nat, NEW L \in Nat, L <= low, L <= lr,
           since <= last, last <= next,
           (k + used) * NSEC >= cap * NSEC + (last - since) * low,
           m * NSEC >= k * NSEC + (next - last) * lr
    PROVE  (m + used) * NSEC >= cap * NSEC + (next - since) * L
  <1> DEFINE p == (last - since) * L
             g == (next - last) * L
             f == cap * NSEC
             x == used * NSEC
             y == k * NSEC
             z == m * NSEC
  <1>1. NSEC \in Nat \ {0}
    BY BucketAssumption
  <1>2. p <= (last - since) * low /\ p \in Nat /\ (last - since) * low \in Nat
    <2>1. L * (last - since) <= low * (last - since)
      BY Monotone
    <2> QED
      BY <2>1, SMT
  <1>3. g <= (next - last) * lr /\ g \in Nat /\ (next - last) * lr \in Nat
    <2>1. L * (next - last) <= lr * (next - last)
      BY Monotone
    <2> QED
      BY <2>1, SMT
  <1>4. f \in Nat /\ x \in Nat /\ y \in Nat /\ z \in Nat
    BY <1>1, SMT
  <1>5. /\ (k + used) * NSEC = y + x /\ (m + used) * NSEC = z + x
        /\ (next - since) * L = p + g
    BY <1>1, SMT
  <1>6. z + x >= f + (p + g)
    <2> HIDE DEF f, p, g, x, y, z
    <2>1. y + x >= f + p
      BY <1>2, <1>4, <1>5 DEF f
    <2>2. z >= y + g
      BY <1>3, <1>4 DEF y, z
    <2> QED
      BY <2>1, <2>2, <1>2, <1>3, <1>4
  <1> QED
    BY <1>5, <1>6

\* From above, when nothing changes but the highest rate.
LEMMA StillPaid ==
    ASSUME NEW s \in Nat \ {0}, NEW x \in Nat, NEW f \in Nat, NEW d \in Nat,
           NEW rate \in Nat, NEW R \in Nat, rate <= R,
           x <= f + d * rate + (s - 1) * (rate - 1)
    PROVE  x <= f + d * R + (s - 1) * (R - 1)
  <1> DEFINE p == d * rate
             q == (s - 1) * (rate - 1)
             g == d * R
             h == (s - 1) * (R - 1)
  <1>1. p <= g
    <2>1. rate * d <= R * d
      BY Monotone
    <2> QED
      BY <2>1, SMT
  <1>2. q <= h
    <2>1. rate * (s - 1) <= R * (s - 1)
      BY Monotone
    <2>2. q = rate * (s - 1) - (s - 1) /\ h = R * (s - 1) - (s - 1)
      BY SMT
    <2> QED
      BY <2>1, <2>2
  <1>3. p \in Int /\ q \in Int /\ g \in Int /\ h \in Int
    BY SMT
  <1>4. x <= f + p + q
    OBVIOUS
  <1> HIDE DEF p, q, g, h
  <1>5. x <= f + g + h
    BY <1>1, <1>2, <1>3, <1>4
  <1> QED
    BY <1>5 DEF g, h

\* A charge keeps the account true, whichever packet makes it and whatever limit is
\* in force then (lines 556-594).
LEMMA EnteredAccounted ==
    ASSUME NEW a \in Account, NEW b \in Bucket, NEW l \in Settable, NEW t \in Word,
           NEW u \in Nat, IsSet(l), t <= u, a.spent > 0, Accounted(a, b, u)
    PROVE  Accounted(Entered(a, b, l, t), Charged(b, l, t), u)
  <1> DEFINE r     == Refill(b, l, t)
             fresh == b.tokens < l.burst /\ r = [last |-> t, tokens |-> l.burst]
             R     == AtLeast(a.rate, l.rate)
             L     == AtMost(a.low, l.rate)
             z     == Entered(a, b, l, t)
             d     == Charged(b, l, t)
  <1>1. /\ l.rate \in Nat \ {0} /\ l.burst \in Nat \ {0} /\ t \in Nat /\ NSEC \in Nat \ {0}
        /\ b.last \in Nat /\ b.tokens \in Nat /\ r.last \in Nat /\ r.tokens \in Nat
        /\ r \in Bucket
    <2>1. r \in Bucket
      BY LimitsFit, RefillKeepsBucket
    <2> HIDE DEF r
    <2> QED
      BY <2>1, LimitsFit, BucketAssumption DEF IsSet, Word, Bucket
  <1>2. /\ a.born \in Nat /\ a.first \in Nat /\ a.spent \in Nat \ {0} /\ a.rate \in Nat
        /\ a.burst \in Nat /\ a.since \in Nat /\ a.cap \in Nat /\ a.used \in Nat
        /\ a.low \in Nat
    BY DEF Account, NoAccount
  <1>3. /\ R \in Nat \ {0} /\ a.rate <= R /\ l.rate <= R
        /\ L \in Nat /\ L <= a.low /\ L <= l.rate
        /\ AtLeast(a.burst, l.burst) \in Nat
        /\ a.burst <= AtLeast(a.burst, l.burst) /\ l.burst <= AtLeast(a.burst, l.burst)
    BY <1>1, <1>2 DEF AtLeast, AtMost
  <1>4. /\ a.born <= b.last /\ a.since <= b.last /\ b.last <= u /\ b.tokens < a.burst
        /\ (a.spent + b.tokens) * NSEC
             <= a.first * NSEC + (b.last - a.born) * a.rate + (a.spent - 1) * (a.rate - 1)
        /\ (b.tokens + a.used) * NSEC >= a.cap * NSEC + (b.last - a.since) * a.low
    BY DEF Accounted
  <1>5. /\ b.last <= r.last /\ (r.last = b.last \/ r.last <= t)
        /\ r.tokens <= b.tokens \/ r.tokens <= l.burst
    BY LimitsFit, RefillKeepsBucket
  <1>6. /\ \/ r = b
           \/ r.tokens * NSEC < b.tokens * NSEC + (r.last - b.last) * l.rate + l.rate
        /\ \/ r = [last |-> t, tokens |-> l.burst] /\ b.last < t
           \/ r.tokens * NSEC >= b.tokens * NSEC + (r.last - b.last) * l.rate
        /\ r.tokens = 0 => r = b
    BY LimitsFit, RefillCredit
  <1>7. fresh \/ r.tokens * NSEC >= b.tokens * NSEC + (r.last - b.last) * l.rate
    <2>1. CASE b.tokens < l.burst
      BY <1>6, <2>1
    <2>2. CASE ~ (b.tokens < l.burst)
      <3>1. r = b
        BY <1>1, <2>2 DEF Refill
      <3> HIDE DEF r
      <3>2. r # [last |-> t, tokens |-> l.burst] \/ ~ (b.last < t)
        BY <3>1, <1>1
      <3> QED
        BY <1>6, <3>2
    <2> QED
      BY <2>1, <2>2
  <1>8. /\ z.born = a.born /\ z.first = a.first /\ z.rate = R
        /\ z.burst = AtLeast(a.burst, l.burst)
        /\ z.since = IF fresh THEN t ELSE a.since
        /\ z.cap = IF fresh THEN l.burst ELSE a.cap
        /\ z.low = IF fresh THEN l.rate ELSE L
        /\ d.last = r.last
    BY DEF Entered, Charged
  <1>9. CASE r.tokens > 0
    <2>1. /\ z.spent = a.spent + 1 /\ z.used = (IF fresh THEN 1 ELSE a.used + 1)
          /\ d.tokens = r.tokens - 1
      BY <1>1, <1>9 DEF Entered, Charged, Allows
    <2>2. (a.spent + r.tokens) * NSEC
            <= a.first * NSEC + (r.last - a.born) * R + a.spent * (R - 1)
      <3> HIDE DEF r, R
      <3> QED
        BY <1>1, <1>2, <1>3, <1>4, <1>5, <1>6, PaidFor
    <2>3. (r.tokens - 1 + z.used) * NSEC >= z.cap * NSEC + (r.last - z.since) * z.low
      <3>1. CASE fresh
        <4>1. r.last = t /\ r.tokens = l.burst
          BY <3>1
        <4>2. (t - t) * l.rate = 0 /\ l.burst * NSEC \in Nat
          BY <1>1, SMT
        <4>3. z.used = 1 /\ z.cap = l.burst /\ z.since = t /\ z.low = l.rate
          BY <2>1, <1>8, <3>1
        <4> HIDE DEF r, z
        <4> QED
          BY <4>1, <4>2, <4>3, <1>1
      <3>2. CASE ~ fresh
        <4>1. z.used = a.used + 1 /\ z.cap = a.cap /\ z.since = a.since /\ z.low = L
          BY <2>1, <1>8, <3>2
        <4>2. (r.tokens + a.used) * NSEC >= a.cap * NSEC + (r.last - a.since) * L
          <5>1. r.tokens * NSEC >= b.tokens * NSEC + (r.last - b.last) * l.rate
            BY <1>7, <3>2
          <5> HIDE DEF r, L
          <5> QED
            BY <5>1, <1>1, <1>2, <1>3, <1>4, <1>5, KeepsCredit
        <4>3. r.tokens - 1 + z.used = r.tokens + a.used
          <5> HIDE DEF r, z
          <5> QED
            BY <4>1, <1>1, <1>2
        <4> QED
          BY <4>1, <4>2, <4>3
      <3> QED
        BY <3>1, <3>2
    <2>4. d.tokens < z.burst /\ z.born <= d.last /\ z.since <= d.last /\ d.last <= u
      <3>1. z.since <= d.last
        BY <1>1, <1>2, <1>4, <1>5, <1>8
      <3> HIDE DEF z, d, r, fresh, R
      <3> QED
        BY <3>1, <1>1, <1>2, <1>3, <1>4, <1>5, <1>8, <2>1
    <2>5. z.spent + d.tokens = a.spent + r.tokens /\ z.spent - 1 = a.spent
      <3> HIDE DEF z, d, r
      <3> QED
        BY <2>1, <1>1, <1>2
    <2> HIDE DEF z, d, r, fresh, R, L
    <2> QED
      BY <1>8, <2>1, <2>2, <2>3, <2>4, <2>5 DEF Accounted, z, d
  <1>10. CASE r.tokens = 0
    <2>1. r = b /\ ~ fresh
      BY <1>1, <1>6, <1>10
    <2>2. /\ z.spent = a.spent /\ z.used = a.used /\ d.tokens = 0 /\ b.tokens = 0
          /\ z.cap = a.cap /\ z.since = a.since /\ z.low = L /\ d.last = b.last
      <3>1. ~ Allows(b, l, t)
        BY <1>10 DEF Allows
      <3>2. /\ z.spent = a.spent + 0 /\ z.used = a.used + 0
        BY <2>1, <3>1 DEF Entered
      <3>3. d.tokens = 0 /\ b.tokens = 0 /\ d.last = b.last
        <4>1. d.tokens = 0
          BY <1>10 DEF Charged
        <4> QED
          BY <4>1, <1>8, <1>10, <2>1
      <3> HIDE DEF z, d
      <3> QED
        BY <3>2, <3>3, <1>2, <1>8, <2>1
    <2>3. (a.spent + b.tokens) * NSEC
            <= a.first * NSEC + (b.last - a.born) * R + (a.spent - 1) * (R - 1)
      <3>1. /\ (a.spent + b.tokens) * NSEC \in Nat /\ a.first * NSEC \in Nat
            /\ b.last - a.born \in Nat
        BY <1>1, <1>2, <1>4, SMT
      <3> HIDE DEF R
      <3> QED
        BY <3>1, <1>2, <1>3, <1>4, StillPaid
    <2>4. (b.tokens + a.used) * NSEC >= a.cap * NSEC + (b.last - a.since) * L
      <3>1. /\ b.tokens * NSEC >= b.tokens * NSEC + (b.last - b.last) * l.rate
            /\ b.last <= b.last
        BY <1>1, SMT
      <3> HIDE DEF L
      <3> QED
        BY <3>1, <1>1, <1>2, <1>3, <1>4, KeepsCredit
    <2> HIDE DEF z, d, r, fresh, R, L
    <2>5. /\ d.tokens < z.burst /\ z.born <= d.last /\ z.since <= d.last /\ d.last <= u
          /\ z.spent + d.tokens = a.spent + b.tokens
      BY <1>2, <1>3, <1>4, <1>8, <2>2
    <2>6. d.tokens + z.used = b.tokens + a.used
      BY <2>2
    <2> QED
      BY <1>8, <2>2, <2>3, <2>4, <2>5, <2>6 DEF Accounted, z, d
  <1> QED
    BY <1>1, <1>9, <1>10

\* Time passes.
LEMMA AccountedLater ==
    ASSUME NEW a, NEW b \in Bucket, NEW t \in Nat, NEW u \in Nat, t <= u, Accounted(a, b, t)
    PROVE  Accounted(a, b, u)
  BY BucketAssumption DEF Accounted, Bucket, Word

-----------------------------------------------------------------------------
(* Buckets.                                                                *)

\* The account of a bucket is kept exactly while there is one: a CPU that is about to
\* charge has a bucket, one that is about to create it has not made it before.
Live ==
    /\ \A k \in Key : current[k] # None => ledger[k][current[k]].spent > 0
    /\ \A k \in Key, d \in CPU : ledger[k][d].spent > 0 => current[k] # None
    /\ \A c \in CPU : pc[c] = "charge" => ledger[BucketKey(c)][at[c]].spent > 0
    /\ CreatesOnce

AllAccounted ==
    /\ \A c \in CPU : now[c] <= clock
    /\ \A k \in Key, d \in CPU : Accounted(ledger[k][d], bucket[k][d], clock)

Books == Types /\ Live /\ AllAccounted

\* What a step does that is no step of the limiters' buckets.
Bucketless ==
    /\ UNCHANGED bucketVars
    /\ clock <= clock'
    /\ \A c \in CPU :
        /\ pc'[c] \in {"charge", "burst", "create"} =>
             pc[c] = pc'[c] /\ pkt[c] = pkt'[c] /\ stage[c] = stage'[c] /\ at[c] = at'[c]
        /\ now'[c] <= clock'
        /\ drop'[c] = "rl" => drop[c] = "rl"

LEMMA BooksInit == Init => Books
  <1> SUFFICES ASSUME Init PROVE Books
    OBVIOUS
  <1>1. Types
    BY TypesInit
  <1>2. /\ \A k \in Key : current[k] = None
        /\ \A k \in Key, d \in CPU : ledger[k][d].spent = 0
        /\ \A c \in CPU : pc[c] = "idle" /\ now[c] = 0
        /\ clock = 0
    BY DEF Init, NoAccount
  <1>3. Live
    BY <1>2 DEF Live, CreatesOnce
  <1>4. AllAccounted
    BY <1>2 DEF AllAccounted, Accounted
  <1> QED
    BY <1>1, <1>3, <1>4 DEF Books

LEMMA Frame ==
    ASSUME Books, [Next]_vars
    PROVE  \/ Bucketless
           \/ \E c \in CPU :
                BucketLookup(c) \/ ChargeBucket(c) \/ ReadBurst(c) \/ CreateBucket(c)
  <1>1. /\ pc \in [CPU -> Where] /\ pkt \in [CPU -> Packet] /\ at \in [CPU -> CPU]
        /\ stage \in [CPU -> {"source", "edge"}] /\ drop \in [CPU -> Why]
        /\ now \in [CPU -> Word] /\ clock \in Nat /\ 0 \in Nat
        /\ \A c \in CPU : now[c] <= clock
    BY BucketAssumption DEF Books, AllAccounted, Types, TypeOK, Word
  <1>2. ASSUME NEW c \in CPU,
               \/ \E p \in Packet : Receive(c, p)
               \/ ReceiveUnparsed(c) \/ ReadConfig(c)
        PROVE  Bucketless
    BY <1>1, <1>2 DEF Bucketless, bucketVars, Receive, ReceiveUnparsed, ReadConfig, Goto
  <1>3. ASSUME NEW c \in CPU, AllowLookup(c) \/ DenyLookup(c) \/ EdgeLookup(c)
        PROVE  Bucketless
    BY <1>1, <1>3 DEF Bucketless, bucketVars, AllowLookup, DenyLookup, EdgeLookup, Drop, Goto
  <1>4. ASSUME NEW c \in CPU,
               SelectDefault(c) \/ SelectOverride(c) \/ SelectEdge(c) \/ ReadMode(c)
        PROVE  Bucketless
    <2>1. /\ UNCHANGED <<bucketVars, now, clock, drop, pkt, at>>
          /\ \E w \in Where \ {"charge", "burst", "create"} : pc' = [pc EXCEPT ![c] = w]
      BY <1>4 DEF SelectDefault, SelectOverride, SelectEdge, ReadMode, Goto, Onward, Where
    <2>2. \A e \in CPU \ {c} : stage'[e] = stage[e]
      BY <1>1, <1>4 DEF SelectDefault, SelectOverride, SelectEdge, ReadMode
    <2> QED
      BY <1>1, <2>1, <2>2 DEF Bucketless
  <1>5. ASSUME NEW c \in CPU, Verdict(c)
        PROVE  Bucketless
    BY <1>1, <1>5 DEF Bucketless, bucketVars, Verdict, Goto
  <1>6. CASE Control
    <2>1. UNCHANGED <<bucketVars, progVars, clock>>
      BY <1>6 DEF Control, WriteConfig, WriteAllow, WriteDeny, WriteDefault, WritePolicy,
                  WriteMode, WriteEdgeDeny, WriteEdgeAllow, WriteEdgeLimit, Rewrite
    <2> QED
      BY <1>1, <2>1 DEF Bucketless, progVars
  <1>7. CASE Tick
    <2>1. clock' = clock + 1 /\ UNCHANGED <<bucketVars, progVars>>
      BY <1>7 DEF Tick
    <2>2. \A c \in CPU : now[c] \in Nat
      BY <1>1, BucketAssumption DEF Word
    <2> QED
      BY <1>1, <2>1, <2>2 DEF Bucketless, progVars
  <1>8. CASE UNCHANGED vars
    BY <1>1, <1>8 DEF Bucketless, vars, progVars, bucketVars
  <1> QED
    BY <1>2, <1>3, <1>4, <1>5, <1>6, <1>7, <1>8 DEF Next, Step

\* Keys do not change where a CPU's packet and limiter do not.
LEMMA SameKey ==
    ASSUME NEW c \in CPU, pkt'[c] = pkt[c], stage'[c] = stage[c]
    PROVE  BucketKey(c)' = BucketKey(c)
  BY DEF BucketKey

LEMMA BooksFrame ==
    ASSUME Books, Types', Bucketless
    PROVE  Live' /\ AllAccounted'
  <1>1. bucket' = bucket /\ current' = current /\ ledger' = ledger
    BY DEF Bucketless, bucketVars
  <1>2. \A c \in CPU : pc'[c] \in {"charge", "burst", "create"} =>
          pc[c] = pc'[c] /\ BucketKey(c)' = BucketKey(c) /\ at'[c] = at[c]
    BY SameKey DEF Bucketless
  <1>3. Live'
    <2>1. \A c \in CPU : pc'[c] = "charge" => (ledger[BucketKey(c)][at[c]].spent > 0)'
      BY <1>1, <1>2 DEF Books, Live
    <2>2. CreatesOnce'
      BY <1>1, <1>2 DEF Books, Live, CreatesOnce
    <2> QED
      BY <1>1, <2>1, <2>2 DEF Books, Live
  <1>4. AllAccounted'
    <2>1. \A c \in CPU : now'[c] <= clock'
      BY DEF Bucketless
    <2>2. clock \in Nat /\ clock' \in Nat /\ clock <= clock'
      BY BucketAssumption DEF Books, Types, TypeOK, Word, Bucketless
    <2>3. \A k \in Key, d \in CPU : Accounted(ledger[k][d], bucket[k][d], clock')
      <3>1. \A k \in Key, d \in CPU :
              bucket[k][d] \in Bucket /\ Accounted(ledger[k][d], bucket[k][d], clock)
        BY DEF Books, AllAccounted, Types, TypeOK
      <3> QED
        BY <2>2, <3>1, AccountedLater
    <2> QED
      BY <1>1, <2>1, <2>3 DEF AllAccounted
  <1> QED
    BY <1>3, <1>4

LEMMA BooksLookup ==
    ASSUME Books, NEW c \in CPU, BucketLookup(c)
    PROVE  Live' /\ AllAccounted'
  <1> DEFINE k == BucketKey(c)
  <1>1. /\ k \in Key /\ pc \in [CPU -> Where] /\ at \in [CPU -> CPU]
        /\ current \in [Key -> CPU \cup {None}]
        /\ ledger \in [Key -> [CPU -> Account]]
    BY KeyType DEF Books, Types, TypeOK, Account
  <1>2. /\ bucket' = bucket /\ current' = current /\ ledger' = ledger
        /\ UNCHANGED <<pkt, stage, now, clock>>
    BY DEF BucketLookup, bucketVars
  <1>3. \A e \in CPU : BucketKey(e)' = BucketKey(e)
    BY <1>2 DEF BucketKey
  <1>4. \/ /\ current[k] # None
           /\ at' = [at EXCEPT ![c] = current[k]] /\ pc' = [pc EXCEPT ![c] = "charge"]
        \/ /\ current[k] = None
           /\ at' = at /\ pc' = [pc EXCEPT ![c] = "burst"]
    BY DEF BucketLookup, Found, Goto
  <1>5. current[k] = None => ledger[k][c].spent = 0
    <2>1. ledger[k][c].spent \in Nat
      BY <1>1 DEF Account, NoAccount
    <2> HIDE DEF k
    <2> QED
      BY <1>1, <2>1 DEF Books, Live
  <1>6. current[k] # None => ledger[k][current[k]].spent > 0
    BY <1>1 DEF Books, Live
  <1>7. \A e \in CPU : pc'[e] = "charge" => ledger[BucketKey(e)][at'[e]].spent > 0
    BY <1>1, <1>4, <1>6 DEF Books, Live
  <1>8. \A e \in CPU : pc'[e] \in {"burst", "create"} => ledger[BucketKey(e)][e].spent = 0
    BY <1>1, <1>4, <1>5 DEF Books, Live, CreatesOnce
  <1>9. Live'
    BY <1>2, <1>3, <1>7, <1>8 DEF Books, Live, CreatesOnce
  <1> QED
    BY <1>2, <1>9 DEF Books, AllAccounted

\* A charge is to a bucket that has an account, which it keeps.
LEMMA BooksCharge ==
    ASSUME Books, NEW c \in CPU, ChargeBucket(c)
    PROVE  Live' /\ AllAccounted'
  <1> DEFINE k == BucketKey(c)
             d == at[c]
             b == bucket[k][d]
             a == ledger[k][d]
             l == Pointed(rules, limit[c])
  <1>1. /\ k \in Key /\ d \in CPU /\ b \in Bucket /\ a \in Account /\ l \in Settable
        /\ now[c] \in Word /\ now[c] <= clock /\ clock \in Nat
        /\ pc \in [CPU -> Where] /\ a.spent > 0 /\ Accounted(a, b, clock)
        /\ bucket \in [Key -> [CPU -> Bucket]] /\ ledger \in [Key -> [CPU -> Account]]
    <2>1. k \in Key /\ l \in Settable
      BY KeyType, PointedSettable DEF Books, Types, TypeOK, Pointer
    <2>2. /\ d \in CPU /\ now[c] \in Word /\ clock \in Word /\ pc \in [CPU -> Where]
          /\ bucket \in [Key -> [CPU -> Bucket]] /\ ledger \in [Key -> [CPU -> Account]]
      BY DEF Books, Types, TypeOK, Account
    <2>3. clock \in Nat
      BY <2>2, BucketAssumption DEF Word
    <2>4. pc[c] = "charge" /\ a.spent > 0
      BY DEF Books, Live, ChargeBucket
    <2> HIDE DEF k, l
    <2> QED
      BY <2>1, <2>2, <2>3, <2>4 DEF Books, AllAccounted
  <1> HIDE DEF k, l
  <1>2. /\ UNCHANGED <<current, pkt, stage, at, now, clock>>
        /\ \E w \in Where \ {"charge", "burst", "create"} : pc' = [pc EXCEPT ![c] = w]
        /\ \/ UNCHANGED <<bucket, ledger>>
           \/ /\ IsSet(l)
              /\ bucket' = [bucket EXCEPT ![k][d] = Charged(b, l, now[c])]
              /\ ledger' = [ledger EXCEPT ![k][d] = Entered(a, b, l, now[c])]
    BY <1>1 DEF ChargeBucket, Drop, Goto, Onward, Where, k, l
  <1>3. \A e \in CPU : BucketKey(e)' = BucketKey(e)
    BY <1>2 DEF BucketKey
  <1>4. CASE UNCHANGED <<bucket, ledger>>
    <2>1. Live'
      BY <1>1, <1>2, <1>3, <1>4 DEF Books, Live, CreatesOnce
    <2>2. AllAccounted'
      BY <1>2, <1>4 DEF Books, AllAccounted
    <2> QED
      BY <2>1, <2>2
  <1>5. CASE /\ IsSet(l)
             /\ bucket' = [bucket EXCEPT ![k][d] = Charged(b, l, now[c])]
             /\ ledger' = [ledger EXCEPT ![k][d] = Entered(a, b, l, now[c])]
    <2> DEFINE v == Charged(b, l, now[c])
               z == Entered(a, b, l, now[c])
    <2>1. Accounted(z, v, clock)
      BY <1>1, <1>5, EnteredAccounted
    <2>2. z.spent > 0
      <3>1. /\ a.spent \in Nat /\ a.spent > 0
            /\ z.spent = a.spent \/ z.spent = a.spent + 1
        <4>1. a.spent \in Nat
          BY <1>1 DEF Account, NoAccount
        <4> QED
          BY <4>1, <1>1 DEF Entered
      <3> HIDE DEF z
      <3> QED
        BY <3>1
    <2> HIDE DEF v, z
    <2>3. /\ bucket' = [bucket EXCEPT ![k][d] = v]
          /\ ledger' = [ledger EXCEPT ![k][d] = z]
      BY <1>5 DEF v, z
    <2> HIDE DEF b, a
    <2>4. \A j \in Key, e \in CPU :
            \/ j = k /\ e = d /\ bucket'[j][e] = v /\ ledger'[j][e] = z
            \/ (j # k \/ e # d) /\ bucket'[j][e] = bucket[j][e] /\ ledger'[j][e] = ledger[j][e]
      BY <1>1, <2>3
    <2>5. \A j \in Key, e \in CPU : ledger'[j][e].spent > 0 <=> ledger[j][e].spent > 0
      BY <1>1, <2>2, <2>4 DEF a
    <2>6. \A e \in CPU : BucketKey(e) \in Key /\ at[e] \in CPU
      BY KeyType DEF Books, Types, TypeOK
    <2>7. \A j \in Key : current[j] \in CPU \cup {None}
      BY DEF Books, Types, TypeOK
    <2>8. \A e \in CPU : pc'[e] \in {"burst", "create"} => ledger'[BucketKey(e)][e].spent = 0
      <3> SUFFICES ASSUME NEW e \in CPU, pc'[e] \in {"burst", "create"}
                   PROVE  ledger'[BucketKey(e)][e].spent = 0
        OBVIOUS
      <3>1. ledger[BucketKey(e)][e].spent = 0
        BY <1>1, <1>2 DEF Books, Live, CreatesOnce
      <3>2. BucketKey(e) # k \/ e # d
        BY <1>1, <3>1 DEF a
      <3> QED
        BY <2>4, <2>6, <3>1, <3>2
    <2>9. Live'
      <3>1. \A e \in CPU : pc'[e] = "charge" => ledger'[BucketKey(e)][at[e]].spent > 0
        BY <1>1, <1>2, <2>5, <2>6 DEF Books, Live
      <3>2. \A j \in Key : current[j] # None => ledger'[j][current[j]].spent > 0
        BY <2>5, <2>7 DEF Books, Live
      <3>3. \A j \in Key, e \in CPU : ledger'[j][e].spent > 0 => current[j] # None
        BY <2>5 DEF Books, Live
      <3> QED
        BY <1>2, <1>3, <2>8, <3>1, <3>2, <3>3 DEF Live, CreatesOnce
    <2>10. AllAccounted'
      BY <1>2, <2>1, <2>4 DEF Books, AllAccounted
    <2> QED
      BY <2>9, <2>10
  <1> QED
    BY <1>2, <1>4, <1>5

\* The reading of the burst touches no bucket and no account.
LEMMA BooksBurst ==
    ASSUME Books, NEW c \in CPU, ReadBurst(c)
    PROVE  Live' /\ AllAccounted'
  <1>1. /\ UNCHANGED <<bucket, current, ledger, pkt, stage, at, now, clock>>
        /\ pc' = [pc EXCEPT ![c] = "create"] /\ pc[c] = "burst"
    BY DEF ReadBurst, Goto, bucketVars
  <1>2. pc \in [CPU -> Where]
    BY DEF Books, Types, TypeOK
  <1>3. \A e \in CPU : BucketKey(e)' = BucketKey(e)
    BY <1>1 DEF BucketKey
  <1>4. Live'
    BY <1>1, <1>2, <1>3 DEF Books, Live, CreatesOnce
  <1> QED
    BY <1>1, <1>4 DEF Books, AllAccounted

\* A bucket that is created opens its account.
LEMMA BooksCreate ==
    ASSUME Books, NEW c \in CPU, CreateBucket(c)
    PROVE  Live' /\ AllAccounted'
  <1> DEFINE k == BucketKey(c)
             l == Pointed(rules, limit[c])
             v == [last |-> now[c], tokens |-> InitialTokens(l)]
             z == NewAccount(l, now[c])
  <1>1. /\ k \in Key /\ l \in Settable /\ now[c] \in Word /\ now[c] <= clock /\ clock \in Nat
        /\ pc \in [CPU -> Where] /\ current \in [Key -> CPU \cup {None}]
        /\ bucket \in [Key -> [CPU -> Bucket]] /\ ledger \in [Key -> [CPU -> Account]]
    <2>1. k \in Key /\ l \in Settable
      BY KeyType, PointedSettable DEF Books, Types, TypeOK, Pointer
    <2>2. /\ now[c] \in Word /\ clock \in Word /\ pc \in [CPU -> Where]
          /\ current \in [Key -> CPU \cup {None}]
          /\ bucket \in [Key -> [CPU -> Bucket]] /\ ledger \in [Key -> [CPU -> Account]]
      BY DEF Books, Types, TypeOK, Account
    <2>3. clock \in Nat
      BY <2>2, BucketAssumption DEF Word
    <2> HIDE DEF k, l
    <2> QED
      BY <2>1, <2>2, <2>3 DEF Books, AllAccounted
  <1>2. Accounted(z, v, clock) /\ z.spent = 1
    BY <1>1, NewAccounted DEF NewAccount
  <1> HIDE DEF k, l, v, z
  <1>3. /\ UNCHANGED <<pkt, stage, at, now, clock>>
        /\ \E w \in Where \ {"charge", "burst", "create"} : pc' = [pc EXCEPT ![c] = w]
        /\ \/ UNCHANGED bucketVars
           \/ /\ bucket' = [bucket EXCEPT ![k][c] = v]
              /\ current' = [current EXCEPT ![k] = c]
              /\ ledger' = [ledger EXCEPT ![k][c] = z]
    <2>1. Onward(c) \in Where \ {"charge", "burst", "create"}
      BY DEF Onward, Where
    <2>2. UNCHANGED <<pkt, stage, at, now, clock>> /\ pc' = [pc EXCEPT ![c] = Onward(c)]
      BY DEF CreateBucket, Goto
    <2>3. \/ UNCHANGED bucketVars
          \/ /\ bucket' = [bucket EXCEPT ![k][c] = v]
             /\ current' = [current EXCEPT ![k] = c]
             /\ ledger' = [ledger EXCEPT ![k][c] = z]
      BY DEF CreateBucket, k, l, v, z
    <2> QED
      BY <2>1, <2>2, <2>3
  <1>4. \A e \in CPU : BucketKey(e)' = BucketKey(e)
    BY <1>3 DEF BucketKey
  <1>5. CASE UNCHANGED bucketVars
    <2>1. Live'
      BY <1>1, <1>3, <1>4, <1>5 DEF Books, Live, CreatesOnce, bucketVars
    <2>2. AllAccounted'
      BY <1>3, <1>5 DEF Books, AllAccounted, bucketVars
    <2> QED
      BY <2>1, <2>2
  <1>6. CASE /\ bucket' = [bucket EXCEPT ![k][c] = v]
             /\ current' = [current EXCEPT ![k] = c]
             /\ ledger' = [ledger EXCEPT ![k][c] = z]
    <2>1. \A j \in Key, e \in CPU :
            \/ j = k /\ e = c /\ bucket'[j][e] = v /\ ledger'[j][e] = z
            \/ (j # k \/ e # c) /\ bucket'[j][e] = bucket[j][e] /\ ledger'[j][e] = ledger[j][e]
      BY <1>1, <1>6
    <2>2. \A j \in Key, e \in CPU : ledger[j][e].spent > 0 => ledger'[j][e].spent > 0
      BY <1>2, <2>1
    <2>3. \A e \in CPU : BucketKey(e) \in Key /\ at[e] \in CPU
      BY KeyType DEF Books, Types, TypeOK
    <2>4. \A j \in Key : current'[j] = (IF j = k THEN c ELSE current[j])
      BY <1>1, <1>6
    <2>5. \A e \in CPU : pc'[e] \in {"burst", "create"} => e # c /\ pc[e] = pc'[e]
      BY <1>1, <1>3
    <2>6. \A e \in CPU : pc'[e] = "charge" => pc[e] = "charge"
      BY <1>1, <1>3
    <2>7. Live'
      <3>1. \A j \in Key : current'[j] # None => ledger'[j][current'[j]].spent > 0
        BY <1>1, <1>2, <2>1, <2>2, <2>4 DEF Books, Live
      <3>2. \A j \in Key, e \in CPU : ledger'[j][e].spent > 0 => current'[j] # None
        BY <1>1, <2>1, <2>4, ShieldAssumption DEF Books, Live
      <3>3. \A e \in CPU : pc'[e] = "charge" => ledger'[BucketKey(e)][at[e]].spent > 0
        BY <2>2, <2>3, <2>6 DEF Books, Live
      <3>4. \A e \in CPU : pc'[e] \in {"burst", "create"} => ledger'[BucketKey(e)][e].spent = 0
        BY <2>1, <2>3, <2>5 DEF Books, Live, CreatesOnce
      <3> QED
        BY <1>3, <1>4, <3>1, <3>2, <3>3, <3>4 DEF Live, CreatesOnce
    <2>8. AllAccounted'
      BY <1>2, <1>3, <2>1 DEF Books, AllAccounted
    <2> QED
      BY <2>7, <2>8
  <1> QED
    BY <1>3, <1>5, <1>6

LEMMA BooksStep == Books /\ [Next]_vars => Books'
  <1> SUFFICES ASSUME Books, [Next]_vars PROVE Books'
    OBVIOUS
  <1>1. Types'
    BY TypesStep DEF Books
  <1>2. Live' /\ AllAccounted'
    BY <1>1, Frame, BooksFrame, BooksLookup, BooksCharge, BooksBurst, BooksCreate
  <1> QED
    BY <1>1, <1>2 DEF Books

LEMMA BooksHold == Spec => []Books
  <1> QED
    BY BooksInit, BooksStep, PTL DEF Spec

\* A CPU makes the bucket of a key at most once, so that the race of first packets
\* costs no more than a burst for each CPU, in spite of BPF_ANY (lines 947-954).
THEOREM OneBucketPerCpu == Spec => []CreatesOnce
  <1>1. Books => CreatesOnce
    BY DEF Books, Live
  <1> QED
    BY <1>1, BooksHold, PTL

\* A bucket saves up no more than a burst some limit allowed it, whatever the control
\* plane sets the limit to in between (lines 562-573).
THEOREM BurstIsCap == Spec => []TokensCapped
  <1>1. Books => TokensCapped
    BY DEF Books, AllAccounted, Accounted, TokensCapped
  <1> QED
    BY <1>1, BooksHold, PTL

\* What a bucket lets through is bounded by its first tokens and the highest rate
\* that charged it, in whatever order CPUs with different clock readings charge it, and
\* with no overflow in any product (lines 556-594).
THEOREM RateLimitHolds == Spec => []RateHonoured
  <1>1. Books => RateHonoured
    <2> SUFFICES ASSUME Books, NEW k \in Key, NEW d \in CPU, ledger[k][d].spent > 0
                 PROVE  ledger[k][d].spent * NSEC
                          <= ledger[k][d].first * NSEC
                             + (clock - ledger[k][d].born) * ledger[k][d].rate
                             + (ledger[k][d].spent - 1) * (ledger[k][d].rate - 1)
      BY DEF RateHonoured
    <2> DEFINE a == ledger[k][d]
               b == bucket[k][d]
    <2>1. a \in Account /\ b \in Bucket /\ Accounted(a, b, clock) /\ clock \in Nat
      BY BucketAssumption DEF Books, Types, TypeOK, Account, AllAccounted, Word
    <2> HIDE DEF a, b
    <2>2. /\ a.spent \in Nat \ {0} /\ a.first \in Nat /\ a.born \in Nat /\ a.rate \in Nat
          /\ b.tokens \in Nat /\ b.last \in Nat /\ NSEC \in Nat
      BY <2>1, BucketAssumption DEF Account, NoAccount, Bucket, Word, a
    <2>3. /\ a.born <= b.last /\ b.last <= clock
          /\ (a.spent + b.tokens) * NSEC
               <= a.first * NSEC + (b.last - a.born) * a.rate + (a.spent - 1) * (a.rate - 1)
      BY <2>1 DEF Accounted, a
    <2>4. a.spent * NSEC <= (a.spent + b.tokens) * NSEC
      BY <2>2, Monotone
    <2>5. (b.last - a.born) * a.rate <= (clock - a.born) * a.rate
      <3>1. /\ b.last - a.born \in Nat /\ clock - a.born \in Nat
            /\ b.last - a.born <= clock - a.born
        BY <2>1, <2>2, <2>3
      <3> QED
        BY <2>2, <3>1, Monotone
    <2>6. /\ a.spent * NSEC \in Nat /\ (a.spent + b.tokens) * NSEC \in Nat /\ a.first * NSEC \in Nat
          /\ (b.last - a.born) * a.rate \in Int /\ (clock - a.born) * a.rate \in Int
          /\ (a.spent - 1) * (a.rate - 1) \in Int
      BY <2>1, <2>2, SMT
    <2> DEFINE x == a.spent * NSEC
               y == (a.spent + b.tokens) * NSEC
               f == a.first * NSEC
               p == (b.last - a.born) * a.rate
               g == (clock - a.born) * a.rate
               q == (a.spent - 1) * (a.rate - 1)
    <2>7. /\ x \in Int /\ y \in Int /\ f \in Int /\ p \in Int /\ g \in Int /\ q \in Int
          /\ x <= y /\ y <= f + p + q /\ p <= g
      BY <2>3, <2>4, <2>5, <2>6
    <2> HIDE DEF x, y, f, p, g, q
    <2>8. x <= f + g + q
      BY <2>7
    <2> QED
      BY <2>8 DEF x, f, g, q, a
  <1> QED
    BY <1>1, BooksHold, PTL

-----------------------------------------------------------------------------
(* Refusals.                                                               *)

\* A bucket that stays empty has no credit that was not used, since it was last full.
LEMMA OverLimit ==
    ASSUME NEW used \in Nat, NEW cap \in Nat, NEW since \in Nat, NEW last \in Nat,
           NEW t \in Nat, NEW low \in Nat, NEW lr \in Nat, NEW L \in Nat,
           L <= low, L <= lr, since <= last,
           used * NSEC >= cap * NSEC + (last - since) * low,
           last < t => (t - last) * lr < NSEC
    PROVE  (used + 1) * NSEC > cap * NSEC + (t - since) * L
  <1> DEFINE p == (last - since) * L
             g == (t - last) * L
             f == cap * NSEC
             x == used * NSEC
  <1>1. NSEC \in Nat \ {0}
    BY BucketAssumption
  <1>2. p <= (last - since) * low /\ p \in Nat /\ (last - since) * low \in Nat
    <2>1. L * (last - since) <= low * (last - since)
      BY Monotone
    <2> QED
      BY <2>1, SMT
  <1>3. g < NSEC /\ g \in Int
    <2>1. CASE last < t
      <3>1. L * (t - last) <= lr * (t - last)
        BY <2>1, Monotone
      <3>2. L * (t - last) = g /\ lr * (t - last) = (t - last) * lr /\ (t - last) * lr \in Int
            /\ g \in Int
        BY SMT
      <3> HIDE DEF g
      <3> QED
        BY <2>1, <3>1, <3>2, <1>1
    <2>2. CASE t <= last
      <3>1. g = 0 - (last - t) * L /\ (last - t) * L \in Nat
        BY <2>2, SMT
      <3> HIDE DEF g
      <3> QED
        BY <3>1, <1>1
    <2> QED
      BY <2>1, <2>2
  <1>4. f \in Nat /\ x \in Nat
    BY <1>1, SMT
  <1>5. (used + 1) * NSEC = x + NSEC /\ (t - since) * L = p + g
    BY <1>1, SMT
  <1>6. x >= f + p
    <2>1. x >= f + (last - since) * low
      OBVIOUS
    <2> HIDE DEF f, p, x
    <2> QED
      BY <2>1, <1>2, <1>4
  <1> HIDE DEF p, g, x, f
  <1>7. x + NSEC > f + (p + g)
    BY <1>1, <1>2, <1>3, <1>4, <1>6
  <1> QED
    BY <1>5, <1>7 DEF f

\* A packet that is refused would have exceeded the burst and the lowest rate since
\* the bucket was last full (lines 562-582).
LEMMA RefusalOverLimit ==
    ASSUME NEW a \in Account, NEW b \in Bucket, NEW l \in Settable, NEW t \in Word,
           NEW u \in Nat, IsSet(l), a.spent > 0, Accounted(a, b, u), ~ Allows(b, l, t)
    PROVE  LET z == Entered(a, b, l, t)
           IN  (z.used + 1) * NSEC > z.cap * NSEC + (t - z.since) * z.low
  <1> DEFINE r     == Refill(b, l, t)
             fresh == b.tokens < l.burst /\ r = [last |-> t, tokens |-> l.burst]
             L     == AtMost(a.low, l.rate)
             z     == Entered(a, b, l, t)
  <1>1. /\ l.rate \in Nat \ {0} /\ l.burst \in Nat \ {0} /\ t \in Nat /\ NSEC \in Nat \ {0}
        /\ b.last \in Nat /\ b.tokens \in Nat
    BY LimitsFit, BucketAssumption DEF IsSet, Word, Bucket
  <1>2. a.since \in Nat /\ a.cap \in Nat /\ a.used \in Nat /\ a.low \in Nat
    BY DEF Account, NoAccount
  <1>3. r.tokens = 0
    <2>1. r \in Bucket
      BY LimitsFit, RefillKeepsBucket
    <2> HIDE DEF r
    <2>2. ~ (r.tokens > 0)
      BY DEF Allows, r
    <2> QED
      BY <2>1, <2>2, BucketAssumption DEF Bucket, Word
  <1>4. /\ r = b
        /\ b.last < t => (t - b.last) * l.rate < NSEC
    BY <1>3, LimitsFit, RefillCredit
  <1>5. b.tokens = 0 /\ ~ fresh
    <2>1. b.tokens = 0
      <3> HIDE DEF r
      <3> QED
        BY <1>3, <1>4
    <2>2. r.tokens # l.burst
      BY <1>1, <1>3
    <2> HIDE DEF r
    <2> QED
      BY <2>1, <2>2
  <1>6. z.used = a.used /\ z.cap = a.cap /\ z.since = a.since /\ z.low = L
    <2>1. z.used = a.used + 0 /\ z.cap = a.cap /\ z.since = a.since /\ z.low = L
      BY <1>5 DEF Entered
    <2> HIDE DEF z
    <2> QED
      BY <2>1, <1>2
  <1>7. L \in Nat /\ L <= a.low /\ L <= l.rate
    BY <1>1, <1>2 DEF AtMost
  <1>8. /\ a.since <= b.last
        /\ a.used * NSEC >= a.cap * NSEC + (b.last - a.since) * a.low
    <2>1. (b.tokens + a.used) = a.used
      BY <1>2, <1>5
    <2> QED
      BY <2>1 DEF Accounted
  <1> HIDE DEF L, z, r, fresh
  <1>9. (a.used + 1) * NSEC > a.cap * NSEC + (t - a.since) * L
    BY <1>1, <1>2, <1>4, <1>7, <1>8, OverLimit
  <1> QED
    BY <1>6, <1>9 DEF z

LEMMA RefusedStep ==
    ASSUME Books, [Next]_vars, NEW c \in CPU, drop[c] = "none", drop'[c] = "rl"
    PROVE  LET k == BucketKey(c)
               z == ledger'[k][at[c]]
           IN  (z.used + 1) * NSEC > z.cap * NSEC + (now[c] - z.since) * z.low
  <1>1. ~ Bucketless
    BY DEF Bucketless
  <1>2. PICK e \in CPU :
          BucketLookup(e) \/ ChargeBucket(e) \/ ReadBurst(e) \/ CreateBucket(e)
    BY <1>1, Frame
  <1>3. ChargeBucket(e)
    <2>1. drop' # drop
      OBVIOUS
    <2> QED
      BY <1>2, <2>1 DEF BucketLookup, ReadBurst, CreateBucket
  <1> DEFINE k == BucketKey(e)
             d == at[e]
             b == bucket[k][d]
             a == ledger[k][d]
             l == Pointed(rules, limit[e])
  <1>4. /\ k \in Key /\ d \in CPU /\ b \in Bucket /\ a \in Account /\ l \in Settable
        /\ now[e] \in Word /\ clock \in Nat
        /\ a.spent > 0 /\ Accounted(a, b, clock)
        /\ ledger \in [Key -> [CPU -> Account]] /\ drop \in [CPU -> Why]
    <2>1. k \in Key /\ l \in Settable
      BY KeyType, PointedSettable DEF Books, Types, TypeOK, Pointer
    <2>2. /\ d \in CPU /\ now[e] \in Word /\ clock \in Word /\ drop \in [CPU -> Why]
          /\ bucket \in [Key -> [CPU -> Bucket]] /\ ledger \in [Key -> [CPU -> Account]]
      BY DEF Books, Types, TypeOK, Account
    <2>3. clock \in Nat
      BY <2>2, BucketAssumption DEF Word
    <2>4. a.spent > 0
      BY <1>3 DEF Books, Live, ChargeBucket
    <2> HIDE DEF k, l
    <2> QED
      BY <2>1, <2>2, <2>3, <2>4 DEF Books, AllAccounted
  <1>5. /\ IsSet(l) /\ ~ Allows(b, l, now[e]) /\ c = e
        /\ ledger' = [ledger EXCEPT ![k][d] = Entered(@, b, l, now[e])]
    <2> HIDE DEF k, l, b
    <2>1. /\ drop' # drop
          /\ \/ UNCHANGED drop
             \/ /\ IsSet(l) /\ ~ Allows(b, l, now[e]) /\ drop' = [drop EXCEPT ![e] = "rl"]
                /\ ledger' = [ledger EXCEPT ![k][d] = Entered(@, b, l, now[e])]
      BY <1>3 DEF ChargeBucket, Drop, k, l, b
    <2> QED
      BY <1>4, <2>1
  <1> DEFINE z == Entered(a, b, l, now[e])
  <1>6. (z.used + 1) * NSEC > z.cap * NSEC + (now[e] - z.since) * z.low
    BY <1>4, <1>5, RefusalOverLimit
  <1>7. ledger'[k][d] = z
    <2> HIDE DEF z
    <2>1. ledger' = [ledger EXCEPT ![k][d] = z]
      BY <1>5 DEF z
    <2> HIDE DEF k, d
    <2> QED
      BY <1>4, <2>1
  <1> QED
    BY <1>5, <1>6, <1>7

\* A packet the limiter refuses was over the limit: no credit is lost to rounding, to
\* refills at the wrong time or to packets whose time was read before (lines 562-582).
THEOREM RefusalsJustified == Spec => RefusedOnlyOverLimit
  <1>1. Books /\ [Next]_vars =>
          [\A c \in CPU : drop[c] = "none" /\ drop'[c] = "rl" =>
             LET k == BucketKey(c)
                 a == ledger[k][at[c]]
                 z == ledger'[k][at[c]]
             IN  (z.used + 1) * NSEC > z.cap * NSEC + (now[c] - z.since) * z.low]_vars
    BY RefusedStep
  <1> QED
    BY <1>1, BooksHold, PTL DEF Spec, RefusedOnlyOverLimit

-----------------------------------------------------------------------------
(* Counters.                                                               *)

\* How the counters of a CPU stand, with a packet under way or none; in a limiter,
\* rl_hits has counted this packet already.
Tally(t, where, why) ==
    /\ t.pkts = t.pass + t.drop_allow + t.drop_deny + t.drop_rl + (IF where = "idle" THEN 0 ELSE 1)
    /\ t.deny_hits = t.drop_deny + (IF why = "deny" THEN 1 ELSE 0)
    /\ t.drop_rl + (IF why = "rl" THEN 1 ELSE 0) <= t.rl_hits
    /\ where \in {"lookup", "charge", "burst", "create"} => t.drop_rl < t.rl_hits

Counted == Types /\ \A c \in CPU : Tally(totals[c], pc[c], drop[c])

LEMMA CountOn ==
    ASSUME Types, NEW c \in CPU, NEW fields, Count(c, fields)
    PROVE  /\ \A f \in DOMAIN NoTotals :
                totals'[c][f] = (IF f \in fields THEN totals[c][f] + 1 ELSE totals[c][f])
           /\ \A e \in CPU \ {c} : totals'[e] = totals[e]
  <1>1. totals \in [CPU -> [DOMAIN NoTotals -> Nat]]
    BY DEF Types, TypeOK
  <1>2. totals' = [totals EXCEPT ![c] = [f \in DOMAIN totals[c] |->
                     IF f \in fields THEN totals[c][f] + 1 ELSE totals[c][f]]]
    BY DEF Count
  <1> QED
    BY <1>1, <1>2

\* A step on one CPU leaves the counters, the place and the flag of the others alone.
LEMMA Elsewhere ==
    ASSUME Types, NEW c \in CPU, Step(c), NEW e \in CPU \ {c}
    PROVE  totals'[e] = totals[e] /\ pc'[e] = pc[e] /\ drop'[e] = drop[e]
  <1>1. /\ pc \in [CPU -> Where] /\ drop \in [CPU -> Why]
        /\ totals \in [CPU -> [DOMAIN NoTotals -> Nat]]
    BY DEF Types, TypeOK
  <1>2. pc'[e] = pc[e]
    BY <1>1 DEF Step, Receive, ReceiveUnparsed, ReadConfig, AllowLookup, DenyLookup,
                SelectDefault, SelectOverride, BucketLookup, ChargeBucket, ReadBurst, CreateBucket,
                ReadMode, EdgeLookup, SelectEdge, Verdict, Drop, Goto
  <1>3. drop'[e] = drop[e]
    BY <1>1 DEF Step, Receive, ReceiveUnparsed, ReadConfig, AllowLookup, DenyLookup,
                SelectDefault, SelectOverride, BucketLookup, ChargeBucket, ReadBurst, CreateBucket,
                ReadMode, EdgeLookup, SelectEdge, Verdict, Drop
  <1>4. totals' = totals \/ \E fields : Count(c, fields)
    BY DEF Step, Receive, ReceiveUnparsed, ReadConfig, AllowLookup, DenyLookup,
           SelectDefault, SelectOverride, BucketLookup, ChargeBucket, ReadBurst, CreateBucket,
           ReadMode, EdgeLookup, SelectEdge, Verdict
  <1> QED
    BY <1>2, <1>3, <1>4, CountOn

LEMMA CountedHere ==
    ASSUME Counted, NEW c \in CPU, Step(c)
    PROVE  Tally(totals'[c], pc'[c], drop'[c])
  <1> DEFINE t == totals[c]
             u == totals'[c]
  <1>1. /\ pc \in [CPU -> Where] /\ drop \in [CPU -> Why]
        /\ pc[c] # "verdict" => drop[c] = "none"
        /\ drop[c] \in Why /\ Types
    BY DEF Counted, Types, TypeOK, Shape
  <1>2. /\ t.pkts \in Nat /\ t.pass \in Nat /\ t.drop_allow \in Nat /\ t.drop_deny \in Nat
        /\ t.drop_rl \in Nat /\ t.allow_hits \in Nat /\ t.deny_hits \in Nat /\ t.rl_hits \in Nat
    BY DEF Counted, Types, TypeOK, NoTotals
  <1>3. Tally(t, pc[c], drop[c])
    BY DEF Counted
  <1>4. ASSUME NEW fields, Count(c, fields)
        PROVE  /\ u.pkts = (IF "pkts" \in fields THEN t.pkts + 1 ELSE t.pkts)
               /\ u.pass = (IF "pass" \in fields THEN t.pass + 1 ELSE t.pass)
               /\ u.drop_allow = (IF "drop_allow" \in fields THEN t.drop_allow + 1 ELSE t.drop_allow)
               /\ u.drop_deny = (IF "drop_deny" \in fields THEN t.drop_deny + 1 ELSE t.drop_deny)
               /\ u.drop_rl = (IF "drop_rl" \in fields THEN t.drop_rl + 1 ELSE t.drop_rl)
               /\ u.deny_hits = (IF "deny_hits" \in fields THEN t.deny_hits + 1 ELSE t.deny_hits)
               /\ u.rl_hits = (IF "rl_hits" \in fields THEN t.rl_hits + 1 ELSE t.rl_hits)
    BY <1>1, <1>4, CountOn DEF NoTotals
  <1> HIDE DEF t, u
  \* Steps that do not count, and end in no limiter or come from the same one.
  <1>5. ASSUME totals' = totals, drop' = drop, NEW w \in Where \ {"idle"},
               pc' = [pc EXCEPT ![c] = w], pc[c] # "idle",
               w \in {"lookup", "charge", "burst", "create"} => pc[c] \in {"lookup", "charge", "burst", "create"}
        PROVE  Tally(u, pc'[c], drop'[c])
    <2>1. u = t /\ pc'[c] = w /\ drop'[c] = drop[c]
      BY <1>1, <1>5 DEF t, u
    <2> QED
      BY <1>3, <1>5, <2>1 DEF Tally
  <1>6. ASSUME NEW p \in Packet, Receive(c, p)
        PROVE  Tally(u, pc'[c], drop'[c])
    <2>1. pc[c] = "idle" /\ pc'[c] = "config" /\ drop'[c] = drop[c] /\ drop[c] = "none"
      BY <1>1, <1>6 DEF Receive, Goto
    <2>2. Count(c, {"pkts"})
      BY <1>6 DEF Receive
    <2> QED
      BY <1>2, <1>3, <1>4, <2>1, <2>2 DEF Tally
  <1>7. ASSUME ReceiveUnparsed(c)
        PROVE  Tally(u, pc'[c], drop'[c])
    <2>1. pc[c] = "idle" /\ pc'[c] = "idle" /\ drop'[c] = drop[c]
      BY <1>1, <1>7 DEF ReceiveUnparsed
    <2>2. Count(c, {"pkts", "pass"})
      BY <1>7 DEF ReceiveUnparsed
    <2> QED
      BY <1>2, <1>3, <1>4, <2>1, <2>2 DEF Tally
  <1>8. ASSUME ReadConfig(c) \/ SelectDefault(c) \/ ReadMode(c)
        PROVE  Tally(u, pc'[c], drop'[c])
    BY <1>5, <1>8 DEF ReadConfig, SelectDefault, ReadMode, Goto, Where
  <1>9. ASSUME BucketLookup(c) \/ ReadBurst(c) \/ CreateBucket(c)
        PROVE  Tally(u, pc'[c], drop'[c])
    BY <1>5, <1>9 DEF BucketLookup, ReadBurst, CreateBucket, Goto, Where, Onward
  <1>10. ASSUME ChargeBucket(c)
         PROVE  Tally(u, pc'[c], drop'[c])
    <2>1. CASE Goto(c, Onward(c)) /\ UNCHANGED drop
      BY <1>5, <1>10, <2>1 DEF ChargeBucket, Goto, Where, Onward
    <2>2. CASE Drop(c, "rl")
      <3>1. pc[c] = "charge" /\ pc'[c] = "verdict" /\ drop'[c] = "rl" /\ drop[c] = "none"
        BY <1>1, <1>10, <2>2 DEF ChargeBucket, Drop, Goto
      <3>2. u = t
        BY <1>10 DEF ChargeBucket, t, u
      <3> QED
        BY <1>2, <1>3, <3>1, <3>2 DEF Tally
    <2> QED
      BY <1>10, <2>1, <2>2 DEF ChargeBucket
  <1>11. ASSUME AllowLookup(c)
         PROVE  Tally(u, pc'[c], drop'[c])
    <2>1. CASE Count(c, {"allow_hits"}) /\ Goto(c, "deny") /\ UNCHANGED drop
      <3>1. pc[c] = "allow" /\ pc'[c] = "deny" /\ drop'[c] = drop[c]
        BY <1>1, <1>11, <2>1 DEF AllowLookup, Goto
      <3> QED
        BY <1>2, <1>3, <1>4, <2>1, <3>1 DEF Tally
    <2>2. CASE Drop(c, "allow") /\ UNCHANGED totals
      <3>1. /\ pc[c] = "allow" /\ pc'[c] = "verdict" /\ drop'[c] = "allow" /\ drop[c] = "none"
            /\ u = t
        BY <1>1, <1>11, <2>2 DEF AllowLookup, Drop, Goto, t, u
      <3> QED
        BY <1>2, <1>3, <3>1 DEF Tally
    <2> QED
      BY <1>11, <2>1, <2>2 DEF AllowLookup
  <1>12. ASSUME DenyLookup(c) \/ EdgeLookup(c)
         PROVE  Tally(u, pc'[c], drop'[c])
    <2>1. CASE UNCHANGED <<drop, totals>>
      <3>1. ~ Drop(c, "deny")
        BY <1>1, <1>12, <2>1 DEF DenyLookup, EdgeLookup, Drop
      <3>2. \E w \in {"default", "edgelimit"} : pc' = [pc EXCEPT ![c] = w]
        BY <1>12, <3>1 DEF DenyLookup, EdgeLookup, Goto
      <3>3. pc[c] # "idle"
        BY <1>12 DEF DenyLookup, EdgeLookup
      <3> QED
        BY <1>5, <2>1, <3>2, <3>3 DEF Where
    <2>2. CASE Count(c, {"deny_hits"}) /\ Drop(c, "deny")
      <3>1. pc[c] # "idle" /\ pc'[c] = "verdict" /\ drop'[c] = "deny" /\ drop[c] = "none"
        BY <1>1, <1>12, <2>2 DEF DenyLookup, EdgeLookup, Drop, Goto
      <3> QED
        BY <1>2, <1>3, <1>4, <2>2, <3>1 DEF Tally
    <2> QED
      BY <1>12, <2>1, <2>2 DEF DenyLookup, EdgeLookup
  <1>13. ASSUME SelectOverride(c) \/ SelectEdge(c)
         PROVE  Tally(u, pc'[c], drop'[c])
    <2>1. CASE UNCHANGED totals /\ \E w \in {"mode", "verdict"} : Goto(c, w)
      <3>1. drop' = drop /\ pc[c] # "idle"
        BY <1>13 DEF SelectOverride, SelectEdge
      <3> QED
        BY <1>5, <2>1, <3>1 DEF Goto, Where
    <2>2. CASE Count(c, {"rl_hits"}) /\ Goto(c, "lookup")
      <3>1. pc[c] # "idle" /\ pc'[c] = "lookup" /\ drop'[c] = "none" /\ drop[c] = "none"
        BY <1>1, <1>13, <2>2 DEF SelectOverride, SelectEdge, Goto
      <3> QED
        BY <1>2, <1>3, <1>4, <2>2, <3>1 DEF Tally
    <2> QED
      BY <1>13, <2>1, <2>2 DEF SelectOverride, SelectEdge, Onward
  <1>14. ASSUME Verdict(c)
         PROVE  Tally(u, pc'[c], drop'[c])
    <2>1. pc[c] = "verdict" /\ pc'[c] = "idle" /\ drop'[c] = "none"
      BY <1>1, <1>14 DEF Verdict, Goto
    <2>2. Count(c, {Outcome(drop[c])})
      BY <1>14 DEF Verdict
    <2>3. CASE drop[c] = "none"
      <3>1. Count(c, {"pass"})
        BY <2>2, <2>3 DEF Outcome
      <3> QED
        BY <1>2, <1>3, <1>4, <2>1, <2>3, <3>1 DEF Tally
    <2>4. CASE drop[c] = "allow"
      <3>1. Count(c, {"drop_allow"})
        BY <2>2, <2>4 DEF Outcome
      <3> QED
        BY <1>2, <1>3, <1>4, <2>1, <2>4, <3>1 DEF Tally
    <2>5. CASE drop[c] = "deny"
      <3>1. Count(c, {"drop_deny"})
        BY <2>2, <2>5 DEF Outcome
      <3> QED
        BY <1>2, <1>3, <1>4, <2>1, <2>5, <3>1 DEF Tally
    <2>6. CASE drop[c] = "rl"
      <3>1. Count(c, {"drop_rl"})
        BY <2>2, <2>6 DEF Outcome
      <3> QED
        BY <1>2, <1>3, <1>4, <2>1, <2>6, <3>1 DEF Tally
    <2> QED
      BY <1>1, <2>3, <2>4, <2>5, <2>6 DEF Why
  <1> QED
    BY <1>6, <1>7, <1>8, <1>9, <1>10, <1>11, <1>12, <1>13, <1>14 DEF Step, u

LEMMA CountedStep == Counted /\ [Next]_vars => Counted'
  <1> SUFFICES ASSUME Counted, [Next]_vars PROVE Counted'
    OBVIOUS
  <1>1. Types'
    BY TypesStep DEF Counted
  <1>2. CASE UNCHANGED <<totals, pc, drop>>
    BY <1>1, <1>2 DEF Counted
  <1>3. ASSUME NEW c \in CPU, Step(c)
        PROVE  Counted'
    <2>1. Tally(totals'[c], pc'[c], drop'[c])
      BY <1>3, CountedHere
    <2>2. \A e \in CPU \ {c} : Tally(totals'[e], pc'[e], drop'[e])
      BY <1>3, Elsewhere DEF Counted
    <2> QED
      BY <1>1, <2>1, <2>2 DEF Counted
  <1>4. CASE Control
    BY <1>2, <1>4 DEF Control, WriteConfig, WriteAllow, WriteDeny, WriteDefault, WritePolicy,
                      WriteMode, WriteEdgeDeny, WriteEdgeAllow, WriteEdgeLimit, Rewrite, progVars
  <1>5. CASE Tick
    BY <1>2, <1>5 DEF Tick, progVars
  <1>6. CASE UNCHANGED vars
    BY <1>2, <1>6 DEF vars, progVars
  <1> QED
    BY <1>3, <1>4, <1>5, <1>6 DEF Next

\* The counters add up at every step: each packet has one verdict, each deny drop one
\* hit, and no limiter drops more than it looked at (lines 1017-1022).
THEOREM CountersAddUp == Spec => []TotalsBalanced
  <1>1. Init => Counted
    <2> SUFFICES ASSUME Init PROVE Counted
      OBVIOUS
    <2>1. Types
      BY TypesInit
    <2>2. \A c \in CPU : totals[c] = NoTotals /\ pc[c] = "idle" /\ drop[c] = "none"
      BY DEF Init
    <2> QED
      BY <2>1, <2>2 DEF Counted, Tally, NoTotals
  <1>2. Counted /\ [Next]_vars => Counted'
    BY CountedStep
  <1>3. Counted => TotalsBalanced
    BY DEF Counted, Tally, TotalsBalanced
  <1> QED
    BY <1>1, <1>2, <1>3, PTL DEF Spec

-----------------------------------------------------------------------------
(* What the rules a packet met have told the program so far.               *)

\* The rules of a history, and the pairs of them in its order.
Met(d)    == {d[i] : i \in DOMAIN d}
Before(d) == {<<d[q[1]], d[q[2]]>> : q \in {x \in (DOMAIN d) \X (DOMAIN d) : x[1] <= x[2]}}

\* The history of a packet ends with the rules of now.
Latest(d, r) == d \in Seq(Rules) /\ d # <<>> /\ d[Len(d)] = r

Bucketing == {"lookup", "charge", "burst", "create"}
AfterDeny == {"default", "override", "mode", "edge", "edgelimit", "verdict"} \cup Bucketing

\* The lists of sources: a packet that is not dropped has met rules that let it by.
ListsMet(d, p, where, why) ==
    /\ where = "allow" => \E r \in Met(d) : r.enforce
    /\ where \in AfterDeny \cup {"deny"} /\ why = "none"
         => \E r \in Met(d) : r.enforce => Allowed(r, p.src)
    /\ where \in AfterDeny /\ why = "none" => \E r \in Met(d) : p.src \notin r.deny
    /\ why = "allow" => \E q \in Before(d) : q[1].enforce /\ ~ Allowed(q[2], p.src)

\* The limiter of sources: the limit a CPU points at was set when it took it, and what
\* it did not take was not; a packet that went on without a charge met no limit.
SourceMet(d, p, where, st, l, why, pd) ==
    /\ where = "override" =>
         \/ l = ToDefault /\ \E r \in Met(d) : IsSet(r.def)
         \/ l = ToPolicy(NoLimit) /\ \E r \in Met(d) : ~ IsSet(r.def)
    /\ where \in Bucketing \ {"create"} /\ st = "source" =>
         \/ /\ l.live
            /\ \E r \in Met(d) : IsSet(r.def)
            /\ \E r \in Met(d) : ~ IsSet(r.policy[p.src])
         \/ /\ ~ l.live /\ IsSet(l.is)
            /\ \E r \in Met(d) : IsSet(r.policy[p.src])
    /\ (where \in {"mode", "edge", "edgelimit", "verdict"} \/ st = "edge") /\ why = "none" =>
         \/ "source" \in pd
         \/ /\ \E r \in Met(d) : ~ IsSet(r.def)
            /\ \E r \in Met(d) : ~ IsSet(r.policy[p.src])
    /\ why = "rl" /\ st = "source" =>
         \E r \in Met(d) : IsSet(r.def) \/ IsSet(r.policy[p.src])

\* The edge stage, and the denials of either stage.
EdgeMet(d, p, where, st, l, m, why, pd) ==
    /\ where = "edge" => m # 0 /\ \E r \in Met(d) : r.mode = m
    /\ where = "edgelimit" => \E r \in Met(d) : r.mode # 0
    /\ st = "edge" =>
         /\ where \in Bucketing \cup {"verdict"}
         /\ ~ l.live /\ IsSet(l.is)
         /\ \E q \in Before(d) : q[1].mode # 0 /\ IsSet(q[2].edgeRl[p])
    /\ (where \in {"edgelimit", "verdict"} \/ st = "edge") /\ HasEdge(p) /\ why = "none" =>
         /\ \E r \in Met(d) : ~ (r.mode = 1 /\ p \in r.edgeDeny)
         /\ \E r \in Met(d) : ~ (r.mode = 2 /\ p \notin r.edgeAllow)
    /\ where = "verdict" /\ HasEdge(p) /\ why = "none" =>
         \/ "edge" \in pd
         \/ \E r \in Met(d) : r.mode = 0 \/ ~ IsSet(r.edgeRl[p])
    /\ why = "deny" =>
         \/ \E r \in Met(d) : p.src \in r.deny
         \/ /\ HasEdge(p)
            /\ \E q \in Before(d) :
                 \/ q[1].mode = 1 /\ p \in q[2].edgeDeny
                 \/ q[1].mode = 2 /\ p \notin q[2].edgeAllow

Witness(d, r, p, where, st, l, m, why, pd) ==
    /\ Latest(d, r)
    /\ ListsMet(d, p, where, why)
    /\ SourceMet(d, p, where, st, l, why, pd)
    /\ EdgeMet(d, p, where, st, l, m, why, pd)

Witnessed ==
    \A c \in CPU : pc[c] # "idle" =>
        Witness(during[c], rules, pkt[c], pc[c], stage[c], limit[c], mode[c], drop[c], paid[c])

\* The rules of now are among those met, after each of them.
LEMMA NowMet ==
    ASSUME NEW d, NEW r, Latest(d, r)
    PROVE  /\ r \in Met(d)
           /\ \A x \in Met(d) : <<x, r>> \in Before(d)
  <1>1. /\ d \in Seq(Rules) /\ Len(d) \in Nat /\ DOMAIN d = 1..Len(d) /\ Len(d) \in DOMAIN d
        /\ d[Len(d)] = r
    BY DEF Latest
  <1>2. ASSUME NEW x \in Met(d) PROVE <<x, r>> \in Before(d)
    <2>1. PICK i \in DOMAIN d : x = d[i]
      BY DEF Met
    <2>2. <<i, Len(d)>> \in (DOMAIN d) \X (DOMAIN d) /\ i <= Len(d)
      BY <1>1, <2>1
    <2>3. <<d[<<i, Len(d)>>[1]], d[<<i, Len(d)>>[2]]>> = <<x, r>>
      BY <1>1, <2>1
    <2>4. <<i, Len(d)>> \in {y \in (DOMAIN d) \X (DOMAIN d) : y[1] <= y[2]}
      BY <2>2
    <2> QED
      BY <2>3, <2>4, Zenon DEF Before
  <1> QED
    BY <1>1, <1>2 DEF Met

\* A write of the control plane adds to what a packet met, and takes nothing away.
LEMMA MetGrows ==
    ASSUME NEW d, NEW r, NEW x \in Rules, Latest(d, r)
    PROVE  /\ Latest(Append(d, x), x)
           /\ Met(d) \subseteq Met(Append(d, x))
           /\ Before(d) \subseteq Before(Append(d, x))
  <1> DEFINE e == Append(d, x)
  <1>1. d \in Seq(Rules) /\ d # <<>>
    BY DEF Latest
  <1>2. /\ e \in Seq(Rules) /\ e # <<>> /\ e[Len(e)] = x
        /\ DOMAIN d \subseteq DOMAIN e
        /\ \A i \in DOMAIN d : e[i] = d[i]
        /\ DOMAIN d \subseteq Int
    BY <1>1
  <1> HIDE DEF e
  <1>3. ASSUME NEW q \in Before(d) PROVE q \in Before(e)
    <2>1. PICK y \in (DOMAIN d) \X (DOMAIN d) : y[1] <= y[2] /\ q = <<d[y[1]], d[y[2]]>>
      BY DEF Before
    <2>2. y \in (DOMAIN e) \X (DOMAIN e) /\ q = <<e[y[1]], e[y[2]]>>
      BY <1>2, <2>1
    <2>3. y \in {z \in (DOMAIN e) \X (DOMAIN e) : z[1] <= z[2]}
      BY <2>1, <2>2
    <2> QED
      BY <2>2, <2>3, Zenon DEF Before
  <1>4. Met(d) \subseteq Met(e)
    BY <1>2 DEF Met
  <1> QED
    BY <1>2, <1>3, <1>4 DEF Latest, e

LEMMA WitnessGrows ==
    ASSUME NEW d, NEW r, NEW p, NEW where, NEW st, NEW l, NEW m, NEW why, NEW pd,
           Witness(d, r, p, where, st, l, m, why, pd), NEW x \in Rules
    PROVE  Witness(Append(d, x), x, p, where, st, l, m, why, pd)
  <1> DEFINE e == Append(d, x)
  <1>1. Latest(e, x) /\ Met(d) \subseteq Met(e) /\ Before(d) \subseteq Before(e)
    BY MetGrows DEF Witness
  <1> HIDE DEF e
  <1>2. ListsMet(e, p, where, why)
    BY <1>1 DEF Witness, ListsMet
  <1>3. SourceMet(e, p, where, st, l, why, pd)
    BY <1>1 DEF Witness, SourceMet
  <1>4. EdgeMet(e, p, where, st, l, m, why, pd)
    BY <1>1 DEF Witness, EdgeMet
  <1> QED
    BY <1>1, <1>2, <1>3, <1>4 DEF Witness, e

-----------------------------------------------------------------------------
(* What a step adds: facts about the rules of now, for a CPU whose history d they end. *)

\* Types and shape at one CPU.
LEMMA Local ==
    ASSUME Types, NEW c \in CPU
    PROVE  /\ pc[c] \in Where /\ pkt[c] \in Packet /\ stage[c] \in {"source", "edge"}
           /\ limit[c] \in Pointer /\ mode[c] \in 0..2 /\ drop[c] \in Why /\ rules \in Rules
           /\ during[c] \in Seq(Rules) /\ paid[c] \in SUBSET {"source", "edge"}
           /\ stage[c] = "edge" => HasEdge(pkt[c])
           /\ pc[c] \in {"mode", "edge", "edgelimit"} => HasEdge(pkt[c])
           /\ drop[c] # "none" => pc[c] = "verdict"
  BY DEF Types, TypeOK, Shape, Pointer

\* The rules of now are those a new packet meets first.
LEMMA WitnessReceive ==
    ASSUME NEW p, NEW l, NEW m, NEW pd, rules \in Rules
    PROVE  Witness(<<rules>>, rules, p, "config", "source", l, m, "none", pd)
  BY DEF Witness, Latest, ListsMet, SourceMet, EdgeMet, Bucketing, AfterDeny

LEMMA WitnessLists ==
    ASSUME NEW d, NEW r, NEW p \in Packet, NEW where, NEW l, NEW m, NEW pd,
           Witness(d, r, p, where, "source", l, m, "none", pd)
    PROVE  /\ where = "config" =>
                /\ r.enforce => Witness(d, r, p, "allow", "source", l, m, "none", pd)
                /\ ~ r.enforce => Witness(d, r, p, "deny", "source", l, m, "none", pd)
           /\ where = "allow" =>
                /\ Allowed(r, p.src) => Witness(d, r, p, "deny", "source", l, m, "none", pd)
                /\ ~ Allowed(r, p.src) => Witness(d, r, p, "verdict", "source", l, m, "allow", pd)
           /\ where = "deny" =>
                /\ p.src \in r.deny => Witness(d, r, p, "verdict", "source", l, m, "deny", pd)
                /\ p.src \notin r.deny => Witness(d, r, p, "default", "source", l, m, "none", pd)
  <1>1. Latest(d, r) /\ r \in Met(d) /\ \A x \in Met(d) : <<x, r>> \in Before(d)
    BY NowMet DEF Witness
  <1>2. CASE where = "config"
    BY <1>1, <1>2 DEF Witness, ListsMet, SourceMet, EdgeMet, Bucketing, AfterDeny
  <1>3. CASE where = "allow"
    <2>1. ~ Allowed(r, p.src) => \E q \in Before(d) : q[1].enforce /\ ~ Allowed(q[2], p.src)
      <3>1. PICK x \in Met(d) : x.enforce
        BY <1>3 DEF Witness, ListsMet
      <3>2. <<x, r>> \in Before(d) /\ <<x, r>>[1].enforce /\ <<x, r>>[2] = r
        BY <1>1, <3>1
      <3> QED
        BY <3>2, Zenon
    <2> QED
      BY <1>1, <1>3, <2>1 DEF Witness, ListsMet, SourceMet, EdgeMet, Bucketing, AfterDeny
  <1>4. CASE where = "deny"
    BY <1>1, <1>4 DEF Witness, ListsMet, SourceMet, EdgeMet, Bucketing, AfterDeny
  <1> QED
    BY <1>2, <1>3, <1>4

LEMMA WitnessDefault ==
    ASSUME NEW d, NEW r, NEW p \in Packet, NEW l, NEW m, NEW pd, NEW st,
           st = "source",
           Witness(d, r, p, "default", st, l, m, "none", pd)
    PROVE  Witness(d, r, p, "override", "source",
                   IF IsSet(r.def) THEN ToDefault ELSE ToPolicy(NoLimit), m, "none", pd)
  <1>1. r \in Met(d)
    BY NowMet DEF Witness
  <1> QED
    BY <1>1 DEF Witness, ListsMet, SourceMet, EdgeMet, Bucketing, AfterDeny

LEMMA WitnessOverride ==
    ASSUME NEW d, NEW r, NEW p \in Packet, NEW l, NEW m, NEW pd,
           Witness(d, r, p, "override", "source", l, m, "none", pd)
    PROVE  LET o == Override(r, p.src, l)
               w == IF HasEdge(p) THEN "mode" ELSE "verdict"
           IN  /\ o = ToPolicy(NoLimit) => Witness(d, r, p, w, "source", o, m, "none", pd)
               /\ o # ToPolicy(NoLimit) => Witness(d, r, p, "lookup", "source", o, m, "none", pd)
  <1> DEFINE o == Override(r, p.src, l)
  <1>1. r \in Met(d)
    BY NowMet DEF Witness
  <1>2. ~ IsSet(NoLimit)
    BY DEF IsSet, NoLimit
  <1>3. \/ l = ToDefault /\ \E x \in Met(d) : IsSet(x.def)
        \/ l = ToPolicy(NoLimit) /\ \E x \in Met(d) : ~ IsSet(x.def)
    BY DEF Witness, SourceMet
  <1>4. ~ IsSet(r.policy[p.src]) => o = l
    BY DEF Override
  <1>5. IsSet(r.policy[p.src]) => ~ o.live /\ o.is = r.policy[p.src] /\ o # ToPolicy(NoLimit)
    BY <1>2 DEF Override, ToPolicy
  <1>6. ToDefault.live /\ ToDefault # ToPolicy(NoLimit)
    BY DEF ToDefault, ToPolicy
  <1> HIDE DEF o
  <1>7. ASSUME o = ToPolicy(NoLimit), NEW w \in {"mode", "verdict"}, w = "verdict" => ~ HasEdge(p)
        PROVE  Witness(d, r, p, w, "source", o, m, "none", pd)
    BY <1>1, <1>3, <1>4, <1>5, <1>6, <1>7
       DEF Witness, ListsMet, SourceMet, EdgeMet, Bucketing, AfterDeny
  <1>8. ASSUME o # ToPolicy(NoLimit)
        PROVE  Witness(d, r, p, "lookup", "source", o, m, "none", pd)
    BY <1>1, <1>3, <1>4, <1>5, <1>6, <1>8
       DEF Witness, ListsMet, SourceMet, EdgeMet, Bucketing, AfterDeny
  <1> QED
    BY <1>7, <1>8 DEF o

\* A limiter lets a packet go on when it was charged, or when the limit that was taken
\* is cleared meanwhile, which only the default can be.
LEMMA WitnessOnward ==
    ASSUME NEW d, NEW r, NEW p \in Packet, NEW where \in Bucketing, NEW st \in {"source", "edge"},
           NEW l \in Pointer, NEW m, NEW pd, NEW qd,
           Witness(d, r, p, where, st, l, m, "none", pd),
           st = "edge" => HasEdge(p),
           qd # pd \cup {st} => qd = pd /\ ~ IsSet(Pointed(r, l)),
           where = "create" => qd = pd \cup {st},
           NEW w, w = (IF st = "source" /\ HasEdge(p) THEN "mode" ELSE "verdict")
    PROVE  Witness(d, r, p, w, st, l, m, "none", qd)
  <1>1. r \in Met(d)
    BY NowMet DEF Witness
  <1>2. pd \subseteq qd
    OBVIOUS
  <1>3. CASE st = "source"
    <2>1. \/ "source" \in qd
          \/ /\ \E x \in Met(d) : ~ IsSet(x.def)
             /\ \E x \in Met(d) : ~ IsSet(x.policy[p.src])
      BY <1>1, <1>3 DEF Witness, SourceMet, Pointed
    <2> QED
      BY <1>1, <1>3, <2>1 DEF Witness, ListsMet, SourceMet, EdgeMet, Bucketing, AfterDeny
  <1>4. CASE st = "edge"
    <2>1. "edge" \in qd
      BY <1>4 DEF Witness, EdgeMet, Pointed
    <2> QED
      BY <1>1, <1>2, <1>4, <2>1 DEF Witness, ListsMet, SourceMet, EdgeMet, Bucketing, AfterDeny
  <1> QED
    BY <1>3, <1>4

\* The limit is read once more for the first bucket of a key, whose packet is charged
\* whatever it says.
LEMMA WitnessBurst ==
    ASSUME NEW d, NEW r, NEW p \in Packet, NEW st \in {"source", "edge"},
           NEW l \in Pointer, NEW m, NEW pd,
           Witness(d, r, p, "burst", st, l, m, "none", pd)
    PROVE  Witness(d, r, p, "create", st, ToPolicy(Pointed(r, l)), m, "none", pd)
  <1>1. st = "edge" => ~ l.live /\ IsSet(l.is)
    BY DEF Witness, EdgeMet
  <1>2. ~ l.live => ToPolicy(Pointed(r, l)).is = l.is
    BY DEF ToPolicy, Pointed
  <1>3. ~ ToPolicy(Pointed(r, l)).live
    BY DEF ToPolicy
  <1> DEFINE o == ToPolicy(Pointed(r, l))
  <1>4. st = "edge" => ~ o.live /\ IsSet(o.is)
    BY <1>1, <1>2, <1>3
  <1> HIDE DEF o
  <1> QED
    BY <1>4 DEF Witness, ListsMet, SourceMet, EdgeMet, Bucketing, AfterDeny, o

LEMMA WitnessWithin ==
    ASSUME NEW d, NEW r, NEW p \in Packet, NEW where \in Bucketing \ {"create"}, NEW st \in {"source", "edge"},
           NEW l \in Pointer, NEW m, NEW pd, NEW qd,
           Witness(d, r, p, where, st, l, m, "none", pd)
    PROVE  /\ \A w \in Bucketing : Witness(d, r, p, w, st, l, m, "none", pd)
           /\ Witness(d, r, p, "verdict", st, l, m, "rl", qd)
  <1>1. ASSUME NEW w \in Bucketing PROVE Witness(d, r, p, w, st, l, m, "none", pd)
    BY <1>1 DEF Witness, ListsMet, SourceMet, EdgeMet, Bucketing, AfterDeny
  <1>2. Witness(d, r, p, "verdict", st, l, m, "rl", qd)
    BY DEF Witness, ListsMet, SourceMet, EdgeMet, Bucketing, AfterDeny
  <1> QED
    BY <1>1, <1>2

LEMMA WitnessMode ==
    ASSUME NEW d, NEW r \in Rules, NEW p \in Packet, NEW st, st = "source",
           NEW l, NEW m, NEW pd,
           Witness(d, r, p, "mode", st, l, m, "none", pd)
    PROVE  Witness(d, r, p, IF r.mode = 0 THEN "verdict" ELSE "edge", st, l, r.mode, "none", pd)
  <1>1. r \in Met(d)
    BY NowMet DEF Witness
  <1>2. CASE r.mode = 0
    BY <1>1, <1>2 DEF Witness, ListsMet, SourceMet, EdgeMet, Bucketing, AfterDeny
  <1>3. CASE r.mode # 0
    BY <1>1, <1>3 DEF Witness, ListsMet, SourceMet, EdgeMet, Bucketing, AfterDeny
  <1> QED
    BY <1>2, <1>3

LEMMA WitnessEdge ==
    ASSUME NEW d, NEW r, NEW p \in Packet, HasEdge(p), NEW st, st = "source",
           NEW l, NEW m \in 0..2, NEW pd,
           Witness(d, r, p, "edge", st, l, m, "none", pd)
    PROVE  /\ EdgeBlocked(r, m, p) => Witness(d, r, p, "verdict", st, l, m, "deny", pd)
           /\ ~ EdgeBlocked(r, m, p) => Witness(d, r, p, "edgelimit", st, l, m, "none", pd)
  <1>1. r \in Met(d) /\ \A x \in Met(d) : <<x, r>> \in Before(d)
    BY NowMet DEF Witness
  <1>2. m \in {1, 2}
    BY DEF Witness, EdgeMet
  <1>3. PICK x \in Met(d) : x.mode = m
    BY DEF Witness, EdgeMet
  <1>4. CASE EdgeBlocked(r, m, p)
    <2>1. \E q \in Before(d) : \/ q[1].mode = 1 /\ p \in q[2].edgeDeny
                               \/ q[1].mode = 2 /\ p \notin q[2].edgeAllow
      <3>1. <<x, r>> \in Before(d) /\ <<x, r>>[1] = x /\ <<x, r>>[2] = r
        BY <1>1, <1>3
      <3>2. \/ x.mode = 1 /\ p \in r.edgeDeny
            \/ x.mode = 2 /\ p \notin r.edgeAllow
        BY <1>2, <1>3, <1>4 DEF EdgeBlocked
      <3> QED
        BY <3>1, <3>2
    <2> QED
      BY <1>4, <2>1 DEF Witness, ListsMet, SourceMet, EdgeMet, Bucketing, AfterDeny
  <1>5. CASE ~ EdgeBlocked(r, m, p)
    <2>1. /\ \E y \in Met(d) : ~ (y.mode = 1 /\ p \in y.edgeDeny)
          /\ \E y \in Met(d) : ~ (y.mode = 2 /\ p \notin y.edgeAllow)
      BY <1>1, <1>2, <1>3, <1>5 DEF EdgeBlocked
    <2> QED
      BY <1>2, <1>3, <1>5, <2>1
         DEF Witness, ListsMet, SourceMet, EdgeMet, Bucketing, AfterDeny
  <1> QED
    BY <1>4, <1>5

LEMMA WitnessEdgeLimit ==
    ASSUME NEW d, NEW r, NEW p \in Packet, HasEdge(p), NEW st, st = "source",
           NEW l, NEW m, NEW pd,
           Witness(d, r, p, "edgelimit", st, l, m, "none", pd)
    PROVE  /\ IsSet(r.edgeRl[p]) =>
                Witness(d, r, p, "lookup", "edge", ToPolicy(r.edgeRl[p]), m, "none", pd)
           /\ ~ IsSet(r.edgeRl[p]) => Witness(d, r, p, "verdict", st, l, m, "none", pd)
  <1>1. r \in Met(d) /\ \A x \in Met(d) : <<x, r>> \in Before(d)
    BY NowMet DEF Witness
  <1>2. CASE IsSet(r.edgeRl[p])
    <2>1. \E q \in Before(d) : q[1].mode # 0 /\ IsSet(q[2].edgeRl[p])
      <3>1. PICK x \in Met(d) : x.mode # 0
        BY DEF Witness, EdgeMet
      <3>2. <<x, r>> \in Before(d) /\ <<x, r>>[1] = x /\ <<x, r>>[2] = r
        BY <1>1, <3>1
      <3> QED
        BY <1>2, <3>1, <3>2
    <2>2. ~ ToPolicy(r.edgeRl[p]).live /\ IsSet(ToPolicy(r.edgeRl[p]).is)
      BY <1>2 DEF ToPolicy
    <2> DEFINE l2 == ToPolicy(r.edgeRl[p])
    <2> HIDE DEF l2
    <2>3. ~ l2.live /\ IsSet(l2.is)
      BY <2>2 DEF l2
    <2>4. Witness(d, r, p, "lookup", "edge", l2, m, "none", pd)
      BY <2>1, <2>3 DEF Witness, ListsMet, SourceMet, EdgeMet, Bucketing, AfterDeny
    <2> QED
      BY <1>2, <2>4 DEF l2
  <1>3. CASE ~ IsSet(r.edgeRl[p])
    BY <1>1, <1>3 DEF Witness, ListsMet, SourceMet, EdgeMet, Bucketing, AfterDeny
  <1> QED
    BY <1>2, <1>3

\* What a packet of CPU c has met, as the variables have it.
Told(c) == Witness(during[c], rules, pkt[c], pc[c], stage[c], limit[c], mode[c], drop[c], paid[c])

\* A step of the program leaves the histories of the other CPUs alone, and the rules.
LEMMA OthersWitness ==
    ASSUME Types, NEW c \in CPU, Step(c), NEW e \in CPU \ {c}
    PROVE  /\ UNCHANGED rules
           /\ during'[e] = during[e] /\ pkt'[e] = pkt[e] /\ pc'[e] = pc[e]
           /\ stage'[e] = stage[e] /\ limit'[e] = limit[e] /\ mode'[e] = mode[e]
           /\ drop'[e] = drop[e] /\ paid'[e] = paid[e]
  <1>1. /\ DOMAIN during = CPU /\ DOMAIN pkt = CPU /\ DOMAIN stage = CPU /\ DOMAIN limit = CPU
        /\ DOMAIN mode = CPU /\ DOMAIN paid = CPU
    BY DEF Types, TypeOK
  <1>2. UNCHANGED rules /\ during'[e] = during[e] /\ pkt'[e] = pkt[e] /\ paid'[e] = paid[e]
    BY <1>1 DEF Step, Receive, ReceiveUnparsed, ReadConfig, AllowLookup, DenyLookup,
                SelectDefault, SelectOverride, BucketLookup, ChargeBucket, ReadBurst, CreateBucket,
                ReadMode, EdgeLookup, SelectEdge, Verdict
  <1>3. stage'[e] = stage[e] /\ limit'[e] = limit[e] /\ mode'[e] = mode[e]
    BY <1>1 DEF Step, Receive, ReceiveUnparsed, ReadConfig, AllowLookup, DenyLookup,
                SelectDefault, SelectOverride, BucketLookup, ChargeBucket, ReadBurst, CreateBucket,
                ReadMode, EdgeLookup, SelectEdge, Verdict
  <1> QED
    BY <1>2, <1>3, Elsewhere

\* The step of the program on CPU c keeps what it tells, one action after the other.
LEMMA WitnessHere ==
    ASSUME Types, NEW c \in CPU, pc[c] # "idle" => Told(c), Step(c), pc'[c] # "idle"
    PROVE  Told(c)'
  <1> DEFINE d == during[c]   p == pkt[c]   st == stage[c]   l == limit[c]
             m == mode[c]     pd == paid[c]
  <1>1. /\ p \in Packet /\ st \in {"source", "edge"} /\ l \in Pointer /\ m \in 0..2
        /\ rules \in Rules
        /\ st = "edge" => HasEdge(p)
        /\ pc[c] \in {"mode", "edge", "edgelimit"} => HasEdge(p)
        /\ pc[c] # "verdict" => drop[c] = "none"
        /\ pc[c] = "idle" => st = "source"
    BY Local DEF Types, Shape
  <1>2. /\ DOMAIN during = CPU /\ DOMAIN pkt = CPU /\ DOMAIN stage = CPU /\ DOMAIN limit = CPU
        /\ DOMAIN mode = CPU /\ DOMAIN paid = CPU /\ DOMAIN pc = CPU /\ DOMAIN drop = CPU
    BY DEF Types, TypeOK
  <1>3. ASSUME pc[c] \notin {"idle", "verdict"}
        PROVE  /\ Witness(d, rules, p, pc[c], st, l, m, "none", pd)
               /\ pc[c] \notin Bucketing => st = "source"
    <2>1. Witness(d, rules, p, pc[c], st, l, m, "none", pd)
      BY <1>1, <1>3 DEF Told
    <2> QED
      BY <1>1, <1>3, <2>1 DEF Witness, EdgeMet
  <1>4. ASSUME NEW q \in Packet, Receive(c, q) PROVE Told(c)'
    <2>1. /\ during'[c] = <<rules>> /\ rules' = rules /\ pc'[c] = "config" /\ drop'[c] = "none"
          /\ stage'[c] = "source"
      BY <1>1, <1>2, <1>4 DEF Receive, Goto
    <2> QED
      BY <1>1, <2>1, WitnessReceive DEF Told
  <1>5. ~ ReceiveUnparsed(c) /\ ~ Verdict(c)
    BY <1>2 DEF ReceiveUnparsed, Verdict, Goto
  <1>6. ASSUME ReadConfig(c) \/ AllowLookup(c) \/ DenyLookup(c) PROVE Told(c)'
    <2>1. /\ during'[c] = d /\ rules' = rules /\ pkt'[c] = p /\ stage'[c] = st
          /\ limit'[c] = l /\ mode'[c] = m /\ paid'[c] = pd
          /\ pc[c] \in {"config", "allow", "deny"}
          /\ pc[c] = "config" => /\ pc'[c] = (IF rules.enforce THEN "allow" ELSE "deny")
                                 /\ drop'[c] = "none"
          /\ pc[c] = "allow" =>
               \/ Allowed(rules, p.src) /\ pc'[c] = "deny" /\ drop'[c] = "none"
               \/ ~ Allowed(rules, p.src) /\ pc'[c] = "verdict" /\ drop'[c] = "allow"
          /\ pc[c] = "deny" =>
               \/ p.src \in rules.deny /\ pc'[c] = "verdict" /\ drop'[c] = "deny"
               \/ p.src \notin rules.deny /\ pc'[c] = "default" /\ drop'[c] = "none"
      BY <1>1, <1>2, <1>6 DEF ReadConfig, AllowLookup, DenyLookup, Drop, Goto
    <2>2. Witness(d, rules, p, pc[c], "source", l, m, "none", pd) /\ st = "source"
      BY <1>1, <1>3, <2>1 DEF Bucketing
    <2> QED
      BY <1>1, <2>1, <2>2, WitnessLists DEF Told
  <1>7. ASSUME SelectDefault(c) PROVE Told(c)'
    <2>1. /\ during'[c] = d /\ rules' = rules /\ pkt'[c] = p /\ stage'[c] = "source"
          /\ limit'[c] = (IF IsSet(rules.def) THEN ToDefault ELSE ToPolicy(NoLimit))
          /\ mode'[c] = m /\ paid'[c] = pd /\ drop'[c] = "none"
          /\ pc[c] = "default" /\ pc'[c] = "override"
      BY <1>1, <1>2, <1>7 DEF SelectDefault, Goto
    <2>2. Witness(d, rules, p, "default", st, l, m, "none", pd) /\ st = "source"
      BY <1>3, <2>1 DEF Bucketing
    <2> QED
      BY <1>1, <2>1, <2>2, WitnessDefault DEF Told
  <1>8. ASSUME SelectOverride(c) PROVE Told(c)'
    <2> DEFINE o == Override(rules, p.src, l)
    <2>1. st = "source" /\ pc[c] = "override"
          /\ Witness(d, rules, p, "override", "source", l, m, "none", pd)
      <3>1. pc[c] = "override"
        BY <1>8 DEF SelectOverride
      <3> QED
        BY <1>3, <3>1 DEF Bucketing
    <2>2. /\ during'[c] = d /\ rules' = rules /\ pkt'[c] = p /\ stage'[c] = "source"
          /\ limit'[c] = o /\ mode'[c] = m /\ paid'[c] = pd /\ drop'[c] = "none"
          /\ o = ToPolicy(NoLimit) => pc'[c] = IF HasEdge(p) THEN "mode" ELSE "verdict"
          /\ o # ToPolicy(NoLimit) => pc'[c] = "lookup"
      BY <1>1, <1>2, <1>8, <2>1 DEF SelectOverride, Goto, Onward
    <2> HIDE DEF o
    <2>3. /\ o = ToPolicy(NoLimit) => Witness(d, rules, p, IF HasEdge(p) THEN "mode" ELSE "verdict",
                                              "source", o, m, "none", pd)
          /\ o # ToPolicy(NoLimit) => Witness(d, rules, p, "lookup", "source", o, m, "none", pd)
      BY <1>1, <2>1, WitnessOverride DEF o
    <2> QED
      BY <2>2, <2>3 DEF Told
  <1>9. ASSUME BucketLookup(c) \/ ChargeBucket(c) \/ CreateBucket(c) PROVE Told(c)'
    <2>1. /\ during'[c] = d /\ rules' = rules /\ pkt'[c] = p /\ stage'[c] = st
          /\ limit'[c] = l /\ mode'[c] = m /\ pc[c] \in Bucketing
      BY <1>9 DEF BucketLookup, ChargeBucket, CreateBucket, Bucketing
    <2>2. Witness(d, rules, p, pc[c], st, l, m, "none", pd)
      BY <1>3, <2>1 DEF Bucketing
    <2>3. \/ /\ pc'[c] \in Bucketing /\ drop'[c] = "none" /\ paid'[c] = pd
             /\ pc[c] # "create"
          \/ pc'[c] = "verdict" /\ drop'[c] = "rl" /\ pc[c] # "create"
          \/ /\ pc'[c] = (IF st = "source" /\ HasEdge(p) THEN "mode" ELSE "verdict")
             /\ drop'[c] = "none"
             /\ paid'[c] # pd \cup {st} => paid'[c] = pd /\ ~ IsSet(Pointed(rules, l))
             /\ pc[c] = "create" => paid'[c] = pd \cup {st}
      <3>1. drop[c] = "none"
        BY <1>1, <2>1 DEF Bucketing
      <3>2. CASE BucketLookup(c)
        BY <1>2, <3>1, <3>2 DEF BucketLookup, Goto, Bucketing
      <3>3. CASE ChargeBucket(c)
        BY <1>2, <3>1, <3>3 DEF ChargeBucket, Goto, Drop, Onward
      <3>4. CASE CreateBucket(c)
        BY <1>2, <3>1, <3>4 DEF CreateBucket, Goto, Onward
      <3> QED
        BY <1>9, <3>2, <3>3, <3>4
    <2>4. CASE /\ pc'[c] \in Bucketing /\ drop'[c] = "none" /\ paid'[c] = pd
               /\ pc[c] # "create"
      <3>1. Witness(d, rules, p, pc'[c], st, l, m, "none", pd)
        BY <1>1, <2>1, <2>2, <2>4, WitnessWithin
      <3> QED
        BY <2>1, <2>4, <3>1 DEF Told
    <2>5. CASE pc'[c] = "verdict" /\ drop'[c] = "rl" /\ pc[c] # "create"
      BY <1>1, <2>1, <2>2, <2>5, WitnessWithin DEF Told
    <2>6. CASE /\ pc'[c] = (IF st = "source" /\ HasEdge(p) THEN "mode" ELSE "verdict")
               /\ drop'[c] = "none"
               /\ paid'[c] # pd \cup {st} => paid'[c] = pd /\ ~ IsSet(Pointed(rules, l))
               /\ pc[c] = "create" => paid'[c] = pd \cup {st}
      <3> DEFINE qd == paid'[c]   w == pc'[c]   at0 == pc[c]
      <3>1. /\ at0 \in Bucketing /\ (st = "edge" => HasEdge(p))
            /\ Witness(d, rules, p, at0, st, l, m, "none", pd)
            /\ (qd # pd \cup {st} => qd = pd /\ ~ IsSet(Pointed(rules, l)))
            /\ (at0 = "create" => qd = pd \cup {st})
            /\ w = (IF st = "source" /\ HasEdge(p) THEN "mode" ELSE "verdict")
        BY <1>1, <2>1, <2>2, <2>6
      <3>2. Witness(d, rules, p, w, st, l, m, "none", qd)
        <4> HIDE DEF d, p, st, l, m, pd, qd, w, at0
        <4> QED
          BY <1>1, <3>1, WitnessOnward
      <3> QED
        BY <2>1, <2>6, <3>2 DEF Told
    <2> QED
      BY <2>3, <2>4, <2>5, <2>6
  <1>13. ASSUME ReadBurst(c) PROVE Told(c)'
    <2>1. /\ during'[c] = d /\ rules' = rules /\ pkt'[c] = p /\ stage'[c] = st
          /\ limit'[c] = ToPolicy(Pointed(rules, l)) /\ mode'[c] = m /\ paid'[c] = pd
          /\ pc[c] = "burst" /\ pc'[c] = "create" /\ drop'[c] = "none"
      BY <1>1, <1>2, <1>13 DEF ReadBurst, Goto
    <2>2. Witness(d, rules, p, "burst", st, l, m, "none", pd)
      BY <1>3, <2>1
    <2>3. Witness(d, rules, p, "create", st, ToPolicy(Pointed(rules, l)), m, "none", pd)
      BY <1>1, <2>2, WitnessBurst
    <2> QED
      BY <2>1, <2>3 DEF Told
  <1>10. ASSUME ReadMode(c) PROVE Told(c)'
    <2>1. /\ during'[c] = d /\ rules' = rules /\ pkt'[c] = p /\ stage'[c] = st
          /\ limit'[c] = l /\ mode'[c] = rules.mode /\ paid'[c] = pd /\ drop'[c] = "none"
          /\ pc[c] = "mode" /\ pc'[c] = IF rules.mode = 0 THEN "verdict" ELSE "edge"
      BY <1>1, <1>2, <1>10 DEF ReadMode, Goto
    <2>2. Witness(d, rules, p, "mode", st, l, m, "none", pd) /\ st = "source"
      BY <1>3, <2>1 DEF Bucketing
    <2> QED
      BY <1>1, <2>1, <2>2, WitnessMode DEF Told
  <1>11. ASSUME EdgeLookup(c) PROVE Told(c)'
    <2>1. /\ during'[c] = d /\ rules' = rules /\ pkt'[c] = p /\ stage'[c] = st
          /\ limit'[c] = l /\ mode'[c] = m /\ paid'[c] = pd /\ pc[c] = "edge" /\ HasEdge(p)
          /\ \/ EdgeBlocked(rules, m, p) /\ pc'[c] = "verdict" /\ drop'[c] = "deny"
             \/ ~ EdgeBlocked(rules, m, p) /\ pc'[c] = "edgelimit" /\ drop'[c] = "none"
      BY <1>1, <1>2, <1>11 DEF EdgeLookup, Drop, Goto
    <2>2. Witness(d, rules, p, "edge", st, l, m, "none", pd) /\ st = "source"
      BY <1>3, <2>1 DEF Bucketing
    <2> QED
      BY <1>1, <2>1, <2>2, WitnessEdge DEF Told
  <1>12. ASSUME SelectEdge(c) PROVE Told(c)'
    <2>1. /\ during'[c] = d /\ rules' = rules /\ pkt'[c] = p /\ mode'[c] = m /\ paid'[c] = pd
          /\ drop'[c] = "none" /\ pc[c] = "edgelimit" /\ HasEdge(p)
          /\ \/ /\ IsSet(rules.edgeRl[p]) /\ pc'[c] = "lookup" /\ stage'[c] = "edge"
                /\ limit'[c] = ToPolicy(rules.edgeRl[p])
             \/ /\ ~ IsSet(rules.edgeRl[p]) /\ pc'[c] = "verdict" /\ stage'[c] = st
                /\ limit'[c] = l
      BY <1>1, <1>2, <1>12 DEF SelectEdge, Goto
    <2>2. Witness(d, rules, p, "edgelimit", st, l, m, "none", pd) /\ st = "source"
      BY <1>3, <2>1 DEF Bucketing
    <2> QED
      BY <1>1, <2>1, <2>2, WitnessEdgeLimit DEF Told
  <1> QED
    BY <1>4, <1>5, <1>6, <1>7, <1>8, <1>9, <1>10, <1>11, <1>12, <1>13 DEF Step

\* What a pair of a history is.
LEMMA BeforeIn ==
    ASSUME NEW d, NEW q \in Before(d)
    PROVE  \E i \in DOMAIN d, j \in DOMAIN d : i <= j /\ q = <<d[i], d[j]>>
  <1>1. PICK y \in {x \in (DOMAIN d) \X (DOMAIN d) : x[1] <= x[2]} : q = <<d[y[1]], d[y[2]]>>
    BY DEF Before
  <1>2. y[1] \in DOMAIN d /\ y[2] \in DOMAIN d /\ y[1] <= y[2]
    BY <1>1
  <1> QED
    BY <1>1, <1>2

\* Types and histories at every step.
Recorded == Types /\ Witnessed

LEMMA RewriteWitness ==
    ASSUME Recorded, Types', NEW m, NEW r, Rewrite(m, r)
    PROVE  Witnessed'
  <1>1. /\ UNCHANGED <<pkt, pc, stage, limit, mode, drop, paid>> /\ rules' = r /\ r \in Rules
        /\ during' = [c \in CPU |-> IF pc[c] = "idle" THEN during[c] ELSE Append(during[c], r)]
    BY DEF Rewrite, progVars, Types, TypeOK
  <1> SUFFICES ASSUME NEW c \in CPU, pc'[c] # "idle"
               PROVE  Witness(during'[c], rules', pkt'[c], pc'[c], stage'[c], limit'[c],
                              mode'[c], drop'[c], paid'[c])
    BY DEF Witnessed
  <1>2. Witness(during[c], rules, pkt[c], pc[c], stage[c], limit[c], mode[c], drop[c], paid[c])
    BY <1>1 DEF Recorded, Witnessed
  <1>3. Witness(Append(during[c], r), r, pkt[c], pc[c], stage[c], limit[c], mode[c], drop[c], paid[c])
    BY <1>1, <1>2, WitnessGrows
  <1> QED
    BY <1>1, <1>3

LEMMA RecordedStep == Recorded /\ [Next]_vars => Recorded'
  <1> SUFFICES ASSUME Recorded, [Next]_vars PROVE Recorded'
    OBVIOUS
  <1>1. Types' /\ Types
    BY TypesStep DEF Recorded
  <1>2. CASE UNCHANGED <<rules, during, pkt, pc, stage, limit, mode, drop, paid>>
    BY <1>1, <1>2 DEF Recorded, Witnessed
  <1>3. ASSUME NEW c \in CPU, Step(c)
        PROVE  Recorded'
    <2>1. pc'[c] # "idle" => Told(c)'
      BY <1>1, <1>3, WitnessHere DEF Recorded, Witnessed, Told
    <2>2. \A e \in CPU \ {c} : pc'[e] # "idle" => Told(e)'
      BY <1>1, <1>3, OthersWitness DEF Recorded, Witnessed, Told
    <2> QED
      BY <1>1, <2>1, <2>2 DEF Recorded, Witnessed, Told
  <1>4. CASE Control
    <2>1. \E m, r : Rewrite(m, r)
      BY <1>4, Zenon DEF Control, WriteConfig, WriteAllow, WriteDeny, WriteDefault, WritePolicy,
                         WriteMode, WriteEdgeDeny, WriteEdgeAllow, WriteEdgeLimit
    <2> QED
      BY <1>1, <2>1, RewriteWitness DEF Recorded
  <1>5. CASE Tick
    BY <1>2, <1>5 DEF Tick, progVars
  <1>6. CASE UNCHANGED vars
    BY <1>2, <1>6 DEF vars, progVars
  <1> QED
    BY <1>3, <1>4, <1>5, <1>6 DEF Next

LEMMA RecordedHold == Spec => []Recorded
  <1>1. Init => Recorded
    <2> SUFFICES ASSUME Init PROVE Recorded
      OBVIOUS
    <2>1. \A c \in CPU : pc[c] = "idle"
      BY DEF Init
    <2> QED
      BY <2>1, TypesInit DEF Recorded, Witnessed
  <1> QED
    BY <1>1, RecordedStep, PTL DEF Spec

\* A dropped packet has its cause (lines 930-1013): among the rules it met, in the order
\* the program reads them, whatever the control plane wrote in the middle.
THEOREM DropsHaveCause == Spec => []DroppedHasCause
  <1>1. Recorded => DroppedHasCause
    <2> SUFFICES ASSUME Recorded, NEW c \in CPU, pc[c] = "verdict"
                 PROVE  /\ drop[c] = "allow" =>
                             InOrder(c, LAMBDA r : r.enforce, LAMBDA r : ~ Allowed(r, pkt[c].src))
                        /\ drop[c] = "deny" =>
                             \/ Once(c, LAMBDA r : pkt[c].src \in r.deny)
                             \/ /\ HasEdge(pkt[c])
                                /\ \/ InOrder(c, LAMBDA r : r.mode = 1,
                                                LAMBDA r : pkt[c] \in r.edgeDeny)
                                   \/ InOrder(c, LAMBDA r : r.mode = 2,
                                                LAMBDA r : pkt[c] \notin r.edgeAllow)
                        /\ drop[c] = "rl" =>
                             \/ Once(c, LAMBDA r : IsSet(r.def) \/ IsSet(r.policy[pkt[c].src]))
                             \/ /\ HasEdge(pkt[c])
                                /\ InOrder(c, LAMBDA r : r.mode # 0,
                                             LAMBDA r : IsSet(r.edgeRl[pkt[c]]))
      BY DEF DroppedHasCause
    <2>1. /\ ListsMet(during[c], pkt[c], pc[c], drop[c])
          /\ SourceMet(during[c], pkt[c], pc[c], stage[c], limit[c], drop[c], paid[c])
          /\ EdgeMet(during[c], pkt[c], pc[c], stage[c], limit[c], mode[c], drop[c], paid[c])
          /\ stage[c] \in {"source", "edge"} /\ (stage[c] = "edge" => HasEdge(pkt[c]))
      BY Local DEF Recorded, Witnessed, Witness
    <2>2. CASE drop[c] = "allow"
      <3>1. PICK i \in DOMAIN during[c], j \in DOMAIN during[c] :
              i <= j /\ during[c][i].enforce /\ ~ Allowed(during[c][j], pkt[c].src)
        BY <2>1, <2>2, BeforeIn DEF ListsMet
      <3> QED
        BY <2>2, <3>1 DEF InOrder
    <2>3. CASE drop[c] = "deny"
      <3>1. CASE \E r \in Met(during[c]) : pkt[c].src \in r.deny
        BY <2>3, <3>1 DEF Met, Once
      <3>2. CASE /\ HasEdge(pkt[c])
                 /\ \E q \in Before(during[c]) :
                      \/ q[1].mode = 1 /\ pkt[c] \in q[2].edgeDeny
                      \/ q[1].mode = 2 /\ pkt[c] \notin q[2].edgeAllow
        <4>1. PICK i \in DOMAIN during[c], j \in DOMAIN during[c] :
                /\ i <= j
                /\ \/ during[c][i].mode = 1 /\ pkt[c] \in during[c][j].edgeDeny
                   \/ during[c][i].mode = 2 /\ pkt[c] \notin during[c][j].edgeAllow
          BY <3>2, BeforeIn
        <4> QED
          BY <2>3, <3>2, <4>1 DEF InOrder
      <3> QED
        BY <2>1, <2>3, <3>1, <3>2 DEF EdgeMet
    <2>4. CASE drop[c] = "rl"
      <3>1. CASE stage[c] = "source"
        BY <2>1, <2>4, <3>1 DEF SourceMet, Met, Once
      <3>2. CASE stage[c] = "edge"
        <4>1. PICK i \in DOMAIN during[c], j \in DOMAIN during[c] :
                i <= j /\ during[c][i].mode # 0 /\ IsSet(during[c][j].edgeRl[pkt[c]])
          BY <2>1, <3>2, BeforeIn DEF EdgeMet
        <4> QED
          BY <2>1, <2>4, <3>2, <4>1 DEF InOrder
      <3> QED
        BY <2>1, <3>1, <3>2
    <2> QED
      BY <2>2, <2>3, <2>4
  <1> QED
    BY <1>1, RecordedHold, PTL

\* A packet that passes was not forbidden all the time it was in the program
\* (lines 930-993), with any lists, any number of writes meanwhile and any number of CPUs.
THEOREM NoWayRound == Spec => []PassedIsPermitted
  <1>1. Recorded => PassedIsPermitted
    <2> SUFFICES ASSUME Recorded, NEW c \in CPU, pc[c] = "verdict", drop[c] = "none"
                 PROVE  /\ ~ Throughout(c, LAMBDA r : pkt[c].src \in r.deny)
                        /\ ~ Throughout(c, LAMBDA r : r.enforce /\ ~ Allowed(r, pkt[c].src))
                        /\ HasEdge(pkt[c]) =>
                             /\ ~ Throughout(c, LAMBDA r : r.mode = 1 /\ pkt[c] \in r.edgeDeny)
                             /\ ~ Throughout(c, LAMBDA r : r.mode = 2 /\ pkt[c] \notin r.edgeAllow)
      BY DEF PassedIsPermitted
    <2>1. /\ ListsMet(during[c], pkt[c], pc[c], drop[c])
          /\ EdgeMet(during[c], pkt[c], pc[c], stage[c], limit[c], mode[c], drop[c], paid[c])
      BY DEF Recorded, Witnessed, Witness
    <2>2. /\ ~ Throughout(c, LAMBDA r : pkt[c].src \in r.deny)
          /\ ~ Throughout(c, LAMBDA r : r.enforce /\ ~ Allowed(r, pkt[c].src))
      BY <2>1 DEF ListsMet, AfterDeny, Met, Throughout
    <2>3. ASSUME HasEdge(pkt[c])
          PROVE  /\ ~ Throughout(c, LAMBDA r : r.mode = 1 /\ pkt[c] \in r.edgeDeny)
                 /\ ~ Throughout(c, LAMBDA r : r.mode = 2 /\ pkt[c] \notin r.edgeAllow)
      BY <2>1, <2>3 DEF EdgeMet, Met, Throughout
    <2> QED
      BY <2>2, <2>3
  <1> QED
    BY <1>1, RecordedHold, PTL

\* A packet that passes under a limit that was set all the time has been charged for it,
\* or met a full bucket map (lines 943-960, 994-1010), whatever else is written meanwhile.
THEOREM NoUnchargedPass == Spec => []ChargedWhenLimited
  <1>1. Recorded => ChargedWhenLimited
    <2> SUFFICES ASSUME Recorded, NEW c \in CPU, pc[c] = "verdict", drop[c] = "none"
                 PROVE  /\ \/ Throughout(c, LAMBDA r : IsSet(r.def))
                           \/ Throughout(c, LAMBDA r : IsSet(r.policy[pkt[c].src]))
                           => "source" \in paid[c]
                        /\ /\ HasEdge(pkt[c])
                           /\ Throughout(c, LAMBDA r : r.mode # 0 /\ IsSet(r.edgeRl[pkt[c]]))
                           => "edge" \in paid[c]
      BY DEF ChargedWhenLimited
    <2>1. /\ SourceMet(during[c], pkt[c], pc[c], stage[c], limit[c], drop[c], paid[c])
          /\ EdgeMet(during[c], pkt[c], pc[c], stage[c], limit[c], mode[c], drop[c], paid[c])
      BY DEF Recorded, Witnessed, Witness
    <2>2. ASSUME "source" \notin paid[c]
          PROVE  /\ ~ Throughout(c, LAMBDA r : IsSet(r.def))
                 /\ ~ Throughout(c, LAMBDA r : IsSet(r.policy[pkt[c].src]))
      BY <2>1, <2>2 DEF SourceMet, Met, Throughout
    <2>3. ASSUME HasEdge(pkt[c]), "edge" \notin paid[c]
          PROVE  ~ Throughout(c, LAMBDA r : r.mode # 0 /\ IsSet(r.edgeRl[pkt[c]]))
      BY <2>1, <2>3 DEF EdgeMet, Met, Throughout
    <2> QED
      BY <2>2, <2>3
  <1> QED
    BY <1>1, RecordedHold, PTL
=============================================================================
