---------------------------- MODULE TokenBucket -----------------------------
(***************************************************************************)
(* The token bucket of the XDP program (tb_allow_and_update_unlocked): a   *)
(* pure function of the stored state, the limit and the packet's time.     *)
(* All of it is arithmetic on unsigned 64-bit words.                       *)
(***************************************************************************)
EXTENDS Integers

CONSTANTS
    NSEC,   \* NSEC_PER_SEC: clock units per second
    U64     \* 2^64: arithmetic is modulo this

ASSUME BucketAssumption == NSEC \in Nat \ {0} /\ U64 \in Nat \ {0}

Word   == 0 .. U64 - 1
Limit  == [rate : Word, burst : Word]      \* struct rl_cfg_t
Bucket == [last : Word, tokens : Word]     \* struct rl_state_t without its lock

NoLimit == [rate |-> 0, burst |-> 0]

\* Both numbers of a limit must be set for it to count.
IsSet(limit) == limit.rate > 0 /\ limit.burst > 0

Wrap(x) == x % U64

\* Time since the last refill; a packet whose clock was read earlier gets none.
Delta(b, now) == IF now > b.last THEN now - b.last ELSE 0

\* Time until the bucket is full, rounded up.
NeedNs(b, limit) == Wrap((limit.burst - b.tokens) * NSEC + limit.rate - 1) \div limit.rate

\* Whole tokens earned in delta.
Earned(delta, limit) == Wrap(delta * limit.rate) \div NSEC

\* Wrong variant of Advance: the fraction of a token is forgotten.
AdvanceToNow(b, limit, add, now) == now

\* last_ns after a partial refill: the time paid for by whole tokens, so that the
\* remainder is kept for the next packet.
Advance(b, limit, add, now) == Wrap(b.last + Wrap(add * NSEC) \div limit.rate)

\* Wrong variant of Refill: an idle bucket is not capped.
RefillUncapped(b, limit, now) ==
    LET add == Earned(Delta(b, now), limit)
    IN  IF add = 0 THEN b ELSE [last |-> now, tokens |-> b.tokens + add]

\* Wrong variant of Refill: a full refill does not move last_ns.
RefillKeepsTime(b, limit, now) ==
    IF b.tokens < limit.burst /\ Delta(b, now) >= NeedNs(b, limit)
    THEN [last |-> b.last, tokens |-> limit.burst] ELSE b

\* Refill as far as time allows: to the burst if enough has passed.
Refill(b, limit, now) ==
    LET delta == Delta(b, now)
        add   == Earned(delta, limit)
        sum   == Wrap(b.tokens + add)
    IN  IF b.tokens >= limit.burst THEN b
        ELSE IF delta >= NeedNs(b, limit) THEN [last |-> now, tokens |-> limit.burst]
        ELSE IF add = 0 THEN b
        ELSE [last   |-> Advance(b, limit, add, now),
              tokens |-> IF sum > limit.burst THEN limit.burst ELSE sum]

\* A packet takes one token of the refilled bucket, if there is one.
Allows(b, limit, now) == Refill(b, limit, now).tokens > 0

Charged(b, limit, now) ==
    LET r == Refill(b, limit, now)
    IN  [last |-> r.last, tokens |-> IF r.tokens = 0 THEN 0 ELSE r.tokens - 1]

\* No intermediate product of a refill leaves 64 bits.
Fits(limit) == limit.burst * NSEC + limit.rate < U64
=============================================================================
