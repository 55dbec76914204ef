-------------------------- MODULE MCActionBroker --------------------------
(* Values of the constants for model-checking ActionBroker. *)
EXTENDS ActionBroker, TLC

CONSTANTS t1, drop, limit, p1, p2, l1, l2, l3

\* drop always counts as strongest; dropping requires an active rate limit.
PrereqLimit == [a \in Action |-> IF a = drop THEN {limit} ELSE {}]
PrereqNone  == [a \in Action |-> {}]

\* Lease identifiers and metadata values are only ever compared for equality.  (The value
\* that NoRequest and NoBody are given by CHOOSE is never looked at.)
BrokerSymmetry == Permutations(LeaseId) \cup Permutations(Param)
=============================================================================
