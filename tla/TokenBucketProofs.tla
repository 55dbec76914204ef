-------------------------- MODULE TokenBucketProofs --------------------------
EXTENDS TokenBucket, TLAPS

\* Integer division rounds down.
LEMMA Floor ==
    ASSUME NEW x \in Nat, NEW d \in Nat \ {0}
    PROVE  /\ x \div d \in Nat
           /\ (x \div d) * d <= x
           /\ x < (x \div d) * d + d
  BY SMT

\* A product grows with its factors.
LEMMA Monotone ==
    ASSUME NEW a \in Nat, NEW b \in Nat, NEW c \in Nat, a <= b
    PROVE  a * c <= b * c
  BY SMT

\* Words that are small enough do not wrap.
LEMMA NoWrap ==
    ASSUME NEW x \in Nat, x < U64
    PROVE  Wrap(x) = x
  BY BucketAssumption, SMT DEF Wrap

\* The order of two products is the order of their first factors.
LEMMA Cancel ==
    ASSUME NEW a \in Nat, NEW b \in Nat, NEW c \in Nat \ {0}, a * c < b * c
    PROVE  a < b
  <1>1. SUFFICES ASSUME b <= a PROVE FALSE
    BY SMT
  <1>2. b * c <= a * c
    BY <1>1, Monotone
  <1> QED
    BY <1>2, SMT

\* While a bucket is not full, a refill computes without leaving 64 bits: the time
\* to fill it is exact, an earlier packet adds fewer tokens than are missing, and
\* last_ns moves by no more than the time that passed (lines 562-577).
LEMMA PartialRefill ==
    ASSUME NEW b \in Bucket, NEW limit \in Limit, NEW now \in Word,
           IsSet(limit), Fits(limit), b.tokens < limit.burst
    PROVE  LET delta   == Delta(b, now)
               need    == NeedNs(b, limit)
               add     == Earned(delta, limit)
               missing == limit.burst - b.tokens
           IN  /\ delta \in Nat /\ need \in Nat
               /\ delta >= need => missing * NSEC <= delta * limit.rate /\ delta > 0
               /\ delta < need =>
                    /\ add \in Nat /\ add < missing
                    /\ add * NSEC <= delta * limit.rate
                    /\ delta * limit.rate < add * NSEC + NSEC
                    /\ add > 0 => /\ Advance(b, limit, add, now) \in Word
                                  /\ b.last <= Advance(b, limit, add, now)
                                  /\ Advance(b, limit, add, now) <= now
                                  /\ (Advance(b, limit, add, now) - b.last) * limit.rate
                                       <= add * NSEC
                                  /\ add * NSEC
                                       < (Advance(b, limit, add, now) - b.last) * limit.rate
                                         + limit.rate
  <1> DEFINE delta   == Delta(b, now)
             need    == NeedNs(b, limit)
             add     == Earned(delta, limit)
             missing == limit.burst - b.tokens
             rate    == limit.rate
  <1>1. /\ NSEC \in Nat \ {0} /\ U64 \in Nat \ {0}
        /\ b.last \in Nat /\ b.last < U64 /\ b.tokens \in Nat
        /\ limit.rate \in Nat \ {0} /\ limit.burst \in Nat \ {0}
        /\ now \in Nat /\ now < U64
    BY BucketAssumption DEF Bucket, Limit, Word, IsSet
  <1>2. /\ delta \in Nat /\ missing \in Nat \ {0} /\ missing <= limit.burst
        /\ delta > 0 => delta = now - b.last
    BY <1>1 DEF Delta
  <1>3. missing * NSEC <= limit.burst * NSEC /\ missing * NSEC \in Nat \ {0}
    <2>1. missing * NSEC <= limit.burst * NSEC
      BY <1>1, <1>2, Monotone
    <2> QED
      BY <2>1, <1>1, <1>2, SMT
  <1> DEFINE x == missing * NSEC + rate - 1
  <1>4. x \in Nat /\ x < U64 /\ limit.burst * NSEC + rate < U64
    BY <1>1, <1>3 DEF Fits
  <1>5. need = x \div rate
    BY <1>4, NoWrap DEF NeedNs
  <1>6. need \in Nat /\ need * rate <= x /\ x < need * rate + rate
    BY <1>1, <1>4, <1>5, Floor
  <1>7. missing * NSEC <= need * rate
    <2>1. need * rate \in Nat
      BY <1>1, <1>6, SMT
    <2> HIDE DEF need, missing
    <2> QED
      BY <2>1, <1>1, <1>3, <1>6, SMT
  <1>8. ASSUME delta >= need
        PROVE  missing * NSEC <= delta * rate /\ delta > 0
    <2>1. need * rate <= delta * rate
      BY <1>1, <1>2, <1>6, <1>8, Monotone
    <2>2. delta * rate \in Nat /\ (delta = 0 => delta * rate = 0)
      BY <1>1, <1>2, SMT
    <2> HIDE DEF need, missing, delta
    <2> QED
      BY <2>1, <2>2, <1>1, <1>2, <1>3, <1>6, <1>7, SMT
  <1>9. ASSUME delta < need
        PROVE  /\ add \in Nat /\ add < missing
               /\ add * NSEC <= delta * rate
               /\ delta * rate < add * NSEC + NSEC
               /\ add > 0 => /\ Advance(b, limit, add, now) \in Word
                             /\ b.last <= Advance(b, limit, add, now)
                             /\ Advance(b, limit, add, now) <= now
                             /\ (Advance(b, limit, add, now) - b.last) * rate <= add * NSEC
                             /\ add * NSEC < (Advance(b, limit, add, now) - b.last) * rate + rate
    <2>1. (delta + 1) * rate <= need * rate
      BY <1>1, <1>2, <1>6, <1>9, Monotone
    <2>2. delta * rate \in Nat /\ (delta + 1) * rate = delta * rate + rate
      BY <1>1, <1>2, SMT
    <2>3. delta * rate < missing * NSEC
      <3> HIDE DEF need, missing, delta
      <3> QED
        BY <2>1, <2>2, <1>1, <1>3, <1>6, SMT
    <2>4. delta * rate < U64
      <3> HIDE DEF missing, delta
      <3> QED
        BY <2>2, <2>3, <1>1, <1>3, <1>4, SMT
    <2>5. add = (delta * rate) \div NSEC
      BY <2>2, <2>4, NoWrap DEF Earned
    <2>6. add \in Nat /\ add * NSEC <= delta * rate /\ delta * rate < add * NSEC + NSEC
      BY <1>1, <2>2, <2>5, Floor
    <2>7. add * NSEC \in Nat
      BY <1>1, <2>6, SMT
    <2>8. add < missing
      <3>1. add * NSEC < missing * NSEC
        <4> HIDE DEF missing, delta, add
        <4> QED
          BY <2>2, <2>3, <2>6, <2>7, <1>3, SMT
      <3> QED
        BY <3>1, <2>6, <1>1, <1>2, Cancel
    <2>9. ASSUME add > 0
          PROVE  /\ Advance(b, limit, add, now) \in Word
                 /\ b.last <= Advance(b, limit, add, now)
                 /\ Advance(b, limit, add, now) <= now
                 /\ (Advance(b, limit, add, now) - b.last) * rate <= add * NSEC
                 /\ add * NSEC < (Advance(b, limit, add, now) - b.last) * rate + rate
      <3> DEFINE adv == (add * NSEC) \div rate
      <3>1. add * NSEC < U64 /\ Wrap(add * NSEC) = add * NSEC
        <4>1. add * NSEC < U64
          <5> HIDE DEF delta, add
          <5> QED
            BY <2>2, <2>4, <2>6, <2>7, <1>1, SMT
        <4> QED
          BY <4>1, <2>7, NoWrap
      <3>2. adv \in Nat /\ adv * rate <= add * NSEC /\ add * NSEC < adv * rate + rate
        BY <1>1, <2>7, Floor
      <3>3. adv <= delta
        <4>1. adv * rate < (delta + 1) * rate
          <5>1. adv * rate \in Nat
            BY <3>2, <1>1, SMT
          <5> HIDE DEF delta, add, adv
          <5> QED
            BY <5>1, <3>2, <2>2, <2>6, <2>7, <1>1, SMT
        <4>2. adv < delta + 1
          BY <4>1, <3>2, <1>1, <1>2, Cancel
        <4> QED
          BY <4>2, <3>2, <1>2
      <3>4. delta > 0
        <4>1. delta = 0 => delta * rate = 0
          BY <1>1, SMT
        <4> DEFINE earned == delta * rate
                   paid   == add * NSEC
        <4>2. NSEC <= add * NSEC
          <5>1. 1 * NSEC <= add * NSEC
            BY <2>6, <2>9, <1>1, Monotone
          <5> QED
            BY <5>1, <1>1
        <4>3. /\ earned \in Nat /\ paid \in Nat /\ delta \in Nat /\ NSEC \in Nat \ {0}
              /\ NSEC <= paid /\ paid <= earned /\ (delta = 0 => earned = 0)
          BY <4>1, <4>2, <2>2, <2>6, <2>7, <1>1, <1>2
        <4> HIDE DEF delta, earned, paid
        <4> QED
          BY <4>3, SMT
      <3>5. b.last + adv \in Nat /\ b.last + adv <= now
        <4> HIDE DEF adv, delta
        <4> QED
          BY <3>2, <3>3, <3>4, <1>1, <1>2
      <3>6. Advance(b, limit, add, now) = b.last + adv
        <4>1. Advance(b, limit, add, now) = Wrap(b.last + adv)
          BY <3>1 DEF Advance
        <4> QED
          BY <4>1, <3>5, <1>1, NoWrap
      <3> HIDE DEF adv, add, delta
      <3> QED
        BY <3>2, <3>5, <3>6, <1>1 DEF Word
    <2> QED
      BY <2>6, <2>8, <2>9
  <1> QED
    BY <1>2, <1>6, <1>8, <1>9

\* What a refill may do to a bucket: it stays a bucket, time does not run backwards
\* or ahead of the packet, and a full bucket is left alone (lines 559-577).
LEMMA RefillKeepsBucket ==
    ASSUME NEW b \in Bucket, NEW limit \in Limit, NEW now \in Word,
           IsSet(limit), Fits(limit)
    PROVE  LET r == Refill(b, limit, now)
           IN  /\ r \in Bucket
               /\ b.last <= r.last
               /\ r.last = b.last \/ r.last <= now
               /\ b.tokens <= r.tokens
               /\ r.tokens <= b.tokens \/ r.tokens <= limit.burst
  <1>1. CASE b.tokens >= limit.burst
    BY <1>1 DEF Refill, Bucket, Limit, Word
  <1>2. CASE ~ (b.tokens >= limit.burst)
    <2>1. b.tokens < limit.burst
      BY <1>2 DEF Bucket, Limit, Word
    <2> DEFINE delta == Delta(b, now)
               need  == NeedNs(b, limit)
               add   == Earned(delta, limit)
               adv   == Advance(b, limit, add, now)
    <2>2. /\ delta \in Nat /\ need \in Nat
          /\ delta >= need => delta > 0
          /\ delta < need =>
               /\ add \in Nat /\ add < limit.burst - b.tokens
               /\ add > 0 => adv \in Word /\ b.last <= adv /\ adv <= now
      BY <2>1, PartialRefill
    <2>3. CASE delta >= need
      <3>1. Refill(b, limit, now) = [last |-> now, tokens |-> limit.burst]
        BY <1>2, <2>3 DEF Refill
      <3>2. b.last < now
        BY <2>2, <2>3, BucketAssumption DEF Delta, Bucket, Word
      <3> QED
        BY <3>1, <3>2, <2>1, BucketAssumption DEF Bucket, Limit, Word
    <2>4. CASE delta < need /\ add = 0
      <3>1. Refill(b, limit, now) = b
        BY <1>2, <2>2, <2>4 DEF Refill
      <3> QED
        BY <3>1, BucketAssumption DEF Bucket, Word
    <2>5. CASE delta < need /\ add > 0
      <3> HIDE DEF delta, need, add, adv
      <3>1. /\ b.tokens + add \in Nat /\ b.tokens + add < limit.burst
            /\ b.tokens + add < U64 /\ b.tokens + add > b.tokens
        BY <2>1, <2>2, <2>5, BucketAssumption DEF Bucket, Limit, Word
      <3>2. Wrap(b.tokens + add) = b.tokens + add
        BY <3>1, NoWrap
      <3>3. Refill(b, limit, now) = [last |-> adv, tokens |-> b.tokens + add]
        BY <1>2, <2>2, <2>5, <3>1, <3>2, BucketAssumption
        DEF Refill, Limit, Bucket, Word, delta, need, add, adv
      <3> QED
        BY <3>1, <3>3, <2>2, <2>5, BucketAssumption DEF Bucket, Limit, Word
    <2> QED
      BY <2>2, <2>3, <2>4, <2>5
  <1> QED
    BY <1>1, <1>2

\* What a refill is worth.  The tokens added are paid for by the time last_ns moved,
\* but for less than one clock unit's worth per refill; no earned credit is
\* lost, unless the bucket becomes full; and a bucket that stays empty had not
\* earned one whole token (lines 562-582).
LEMMA RefillCredit ==
    ASSUME NEW b \in Bucket, NEW limit \in Limit, NEW now \in Word,
           IsSet(limit), Fits(limit)
    PROVE  LET r == Refill(b, limit, now)
           IN  /\ \/ r = b
                  \/ /\ r.tokens > 0
                     /\ r.tokens * NSEC
                          < b.tokens * NSEC + (r.last - b.last) * limit.rate + limit.rate
               /\ \/ r = [last |-> now, tokens |-> limit.burst] /\ b.last < now
                  \/ r.tokens * NSEC >= b.tokens * NSEC + (r.last - b.last) * limit.rate
               /\ r.tokens = 0 =>
                    r = b /\ (b.last < now => (now - b.last) * limit.rate < NSEC)
  <1>1. /\ NSEC \in Nat \ {0} /\ U64 \in Nat \ {0}
        /\ b.last \in Nat /\ b.tokens \in Nat /\ now \in Nat /\ now < U64
        /\ limit.rate \in Nat \ {0} /\ limit.burst \in Nat \ {0}
        /\ b.tokens < U64 /\ limit.burst < U64
    BY BucketAssumption DEF Bucket, Limit, Word, IsSet
  <1>2. ASSUME Refill(b, limit, now) = b
        PROVE  Refill(b, limit, now).tokens * NSEC
                 >= b.tokens * NSEC + (Refill(b, limit, now).last - b.last) * limit.rate
    <2>1. (b.last - b.last) * limit.rate = 0 /\ b.tokens * NSEC \in Nat
      BY <1>1, SMT
    <2> QED
      BY <1>2, <2>1
  <1>3. CASE b.tokens >= limit.burst
    <2>1. Refill(b, limit, now) = b
      BY <1>3 DEF Refill
    <2> QED
      BY <2>1, <1>1, <1>2, <1>3
  <1>4. CASE b.tokens < limit.burst
    <2> DEFINE delta == Delta(b, now)
               need  == NeedNs(b, limit)
               add   == Earned(delta, limit)
               adv   == Advance(b, limit, add, now)
               rate  == limit.rate
    <2>1. /\ delta \in Nat /\ need \in Nat
          /\ delta >= need =>
               (limit.burst - b.tokens) * NSEC <= delta * rate /\ delta > 0
          /\ delta < need =>
               /\ add \in Nat /\ add < limit.burst - b.tokens
               /\ delta * rate < add * NSEC + NSEC
               /\ add > 0 => /\ adv \in Word /\ b.last <= adv
                             /\ (adv - b.last) * rate <= add * NSEC
                             /\ add * NSEC < (adv - b.last) * rate + rate
      BY <1>4, PartialRefill
    <2>2. b.last < now => delta = now - b.last
      BY <1>1 DEF Delta
    <2>3. CASE delta >= need
      <3>1. Refill(b, limit, now) = [last |-> now, tokens |-> limit.burst]
        BY <1>1, <1>4, <2>3 DEF Refill
      <3>2. b.last < now
        BY <1>1, <2>1, <2>3 DEF Delta
      <3>3. limit.burst * NSEC = b.tokens * NSEC + (limit.burst - b.tokens) * NSEC
        BY <1>1, <1>4, SMT
      <3>4. /\ limit.burst * NSEC <= b.tokens * NSEC + (now - b.last) * rate
        <4> DEFINE have  == b.tokens * NSEC
                   lacks == (limit.burst - b.tokens) * NSEC
                   paid  == (now - b.last) * rate
        <4>1. have \in Nat /\ lacks \in Nat /\ paid \in Nat /\ lacks <= paid
          BY <1>1, <1>4, <2>1, <2>2, <2>3, <3>2
        <4> HIDE DEF have, lacks, paid
        <4> QED
          BY <4>1, <3>3 DEF have, lacks, paid
      <3>5. limit.burst * NSEC \in Nat /\ b.tokens * NSEC + (now - b.last) * rate \in Nat
        BY <1>1, <3>2, SMT
      <3>6. limit.burst * NSEC < b.tokens * NSEC + (now - b.last) * rate + rate
        <4> DEFINE cap  == limit.burst * NSEC
                   paid == b.tokens * NSEC + (now - b.last) * rate
        <4>1. cap \in Nat /\ paid \in Nat /\ cap <= paid /\ rate \in Nat \ {0}
          BY <1>1, <3>4, <3>5
        <4> HIDE DEF cap, paid, rate
        <4>2. cap < paid + rate
          BY <4>1
        <4> QED
          BY <4>2 DEF cap, paid
      <3> QED
        BY <3>1, <3>2, <3>6, <1>1
    <2>4. CASE delta < need /\ add = 0
      <3>1. Refill(b, limit, now) = b
        BY <1>1, <1>4, <2>1, <2>4 DEF Refill
      <3>2. b.last < now => (now - b.last) * rate < NSEC
        BY <2>1, <2>2, <2>4, <1>1
      <3> QED
        BY <3>1, <3>2, <1>1, <1>2
    <2>5. CASE delta < need /\ add > 0
      <3>1. /\ add \in Nat /\ adv \in Nat /\ b.last <= adv
            /\ add < limit.burst - b.tokens
            /\ (adv - b.last) * rate <= add * NSEC
            /\ add * NSEC < (adv - b.last) * rate + rate
        BY <2>1, <2>5, BucketAssumption DEF Word
      <3> HIDE DEF delta, need, add, adv
      <3>2. /\ b.tokens + add \in Nat /\ b.tokens + add < limit.burst
            /\ b.tokens + add < U64 /\ b.tokens + add > 0
        BY <1>1, <1>4, <3>1, <2>5
      <3>3. Wrap(b.tokens + add) = b.tokens + add
        BY <3>2, NoWrap
      <3>4. Refill(b, limit, now) = [last |-> adv, tokens |-> b.tokens + add]
        BY <1>1, <1>4, <2>1, <2>5, <3>2, <3>3 DEF Refill, delta, need, add, adv
      <3>5. (b.tokens + add) * NSEC = b.tokens * NSEC + add * NSEC
        BY <1>1, <3>1, SMT
      <3>6. /\ (b.tokens + add) * NSEC < b.tokens * NSEC + (adv - b.last) * rate + rate
            /\ (b.tokens + add) * NSEC >= b.tokens * NSEC + (adv - b.last) * rate
        <4> DEFINE have == b.tokens * NSEC
                   gain == add * NSEC
                   paid == (adv - b.last) * rate
        <4>1. have \in Nat /\ gain \in Nat /\ paid \in Nat /\ rate \in Nat
          BY <1>1, <3>1, SMT
        <4>2. paid <= gain /\ gain < paid + rate
          BY <3>1
        <4> HIDE DEF have, gain, paid, rate
        <4>3. have + gain < have + paid + rate /\ have + gain >= have + paid
          BY <4>1, <4>2
        <4> QED
          BY <4>3, <3>5 DEF have, gain, paid
      <3> QED
        BY <3>2, <3>4, <3>6
    <2> QED
      BY <2>1, <2>3, <2>4, <2>5
  <1> QED
    BY <1>1, <1>3, <1>4
=============================================================================
