------------------------------ MODULE MCShield ------------------------------
(* A small instance of Shield for TLC.                                     *)
EXTENDS Shield, TLC

CONSTANTS c1, c2, s1, s2, s3

Slow == [rate |-> 1, burst |-> 1]
Fast == [rate |-> 2, burst |-> 2]

Both == {s1, s2}

e1 == [src |-> s1, port |-> 1]

Open == [enforce |-> FALSE, allow |-> {}, deny |-> {}, def |-> NoLimit,
         policy |-> [s \in Source |-> NoLimit], mode |-> 0,
         edgeDeny |-> {}, edgeAllow |-> {}, edgeRl |-> [e \in Edge |-> NoLimit]]

MCLimits == {Slow, Fast}

MCCidr == {Both, {s1}}

Case(r, p, m, n, w, t) ==
    [rules |-> r,
     scope |-> [packets |-> p, cut |-> m = {"cfg"}, maps |-> m,
                perCpu |-> n, writes |-> w, until |-> t]]

MCScopes == {
    \* the lists of sources change under a packet
    Case([Open EXCEPT !.enforce = TRUE, !.allow = {Both}],
         {e1}, {"cfg", "allow", "deny"}, 1, 3, 0),
    Case([Open EXCEPT !.deny = {s2}],
         [src : Source, port : {0}], {"cfg"}, 2, 1, 0),
    \* the edge maps and their mode change
    Case([Open EXCEPT !.mode = 1, !.edgeDeny = {e1}],
         {e1}, {"edge4_cfg", "edge4_deny", "edge4_allow"}, 1, 3, 0),
    \* two CPUs, one source, a default limit, and one that is turned down
    Case([Open EXCEPT !.def = Fast],
         {[src |-> s1, port |-> 0]}, {}, 3, 0, 3),
    Case([Open EXCEPT !.def = Fast],
         {[src |-> s1, port |-> 0]}, {"rl_cfg"}, 2, 1, 2),
    \* an override beside the default; an IPv6 source without edges
    Case([Open EXCEPT !.def = Slow, !.mode = 2],
         {[src |-> s2, port |-> 1]}, {"rl_policy"}, 2, 1, 1),
    \* both limiters on one packet
    Case([Open EXCEPT !.policy[s1] = Slow, !.mode = 1, !.edgeRl[e1] = Fast],
         {e1}, {"edge4_rl"}, 2, 1, 0),
    \* a limit for the edge is set after its mode was turned off
    Case([Open EXCEPT !.mode = 1],
         {e1}, {"edge4_cfg", "edge4_rl"}, 1, 2, 0),
    \* more sources than a bucket map has room for
    Case([Open EXCEPT !.def = Slow],
         {[src |-> s1, port |-> 0], [src |-> s3, port |-> 0]}, {}, 2, 0, 1)}

CpuSymmetry == Permutations(CPU)
=============================================================================
