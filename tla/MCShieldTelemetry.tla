------------------------- MODULE MCShieldTelemetry --------------------------
(* A small instance of ShieldTelemetry for TLC.                            *)
EXTENDS ShieldTelemetry

CONSTANTS s1, s2, s3, c1, c2, e1, e2

To(s, n, v) == [src |-> s, port |-> n, verdict |-> v]

MCPackets == {To(s1, 1, "pass"), To(s1, 2, "drop"), To(s2, 1, "pass"), To(s2, 2, "drop"),
              To(s3, 1, "pass")}

MCScopes == {
    \* rates of an IPv6 source, which has no flows
    [kinds |-> {To(s2, 1, "pass"), To(s2, 2, "drop")},
     packets |-> 3, evictions |-> 1, failures |-> 0, samples |-> 2],
    \* two IPv6 sources that an element passes between
    [kinds |-> {To(s2, 1, "pass"), To(s3, 1, "pass")},
     packets |-> 3, evictions |-> 1, failures |-> 0, samples |-> 2],
    \* two flows of an IPv4 source
    [kinds |-> {To(s1, 1, "pass"), To(s1, 2, "drop")},
     packets |-> 2, evictions |-> 1, failures |-> 1, samples |-> 0],
    \* one flow of an IPv4 source
    [kinds |-> {To(s1, 1, "pass")},
     packets |-> 3, evictions |-> 0, failures |-> 0, samples |-> 0]}
=============================================================================
