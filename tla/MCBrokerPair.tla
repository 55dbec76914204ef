---------------------------- MODULE MCBrokerPair ----------------------------
(* Small instances of BrokerPair for TLC.                                  *)
EXTENDS BrokerPair, TLC

CONSTANTS s1, e1, l1, l2, l3, drop, deny

PairSymmetry == Permutations(LeaseId) \cup Permutations(Action)
=============================================================================
