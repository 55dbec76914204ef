---------------------------- MODULE MCSourceFSM -----------------------------
(* A small instance of SourceFSM for TLC.                                  *)
EXTENDS SourceFSM, TLC

\* Escalation by streak, a gated block, limits that may be ignored.
Strict ==
    [step |-> <<2, 2, 3>>, delta |-> <<1, 1, 2>>, decayBelow |-> 1,
     at |-> <<1, 2, 3>>, upNeed |-> 2, downNeed |-> 2,
     hold |-> <<0, 1>>, minSev |-> 3, minDur |-> 1, cooldown |-> 1,
     ttl |-> <<1, 1, 1>>, pack |-> 2, state |-> 1, maxRenewals |-> 1,
     noncomp |-> [at |-> 2, drop |-> 1, sev |-> 0, below |-> 1]]

\* The configuration of manual-test-guide.md:363-404, 513-544, on a smaller scale: no gate
\* for blocks, and, as by default, no limit on renewals.
Manual ==
    [step |-> <<2, 2, 3>>, delta |-> <<1, 1, 1>>, decayBelow |-> 1,
     at |-> <<1, 2, 3>>, upNeed |-> 1, downNeed |-> 2,
     hold |-> <<0, 0>>, minSev |-> 0, minDur |-> 0, cooldown |-> 1,
     ttl |-> <<1, 1, 1>>, pack |-> 3, state |-> 1, maxRenewals |-> 0,
     noncomp |-> [at |-> 2, drop |-> 1, sev |-> 0, below |-> 1]]

Quiet == [cfg |-> Strict, operator |-> 0, strikes |-> 0, others |-> 0, holds |-> 0, restarts |-> 0]

ManualScopes == {[Quiet EXCEPT !.cfg = Manual]}

MCScopes == {
    [Quiet EXCEPT !.holds = 1, !.strikes = 1],
    [Quiet EXCEPT !.operator = 1, !.strikes = 1],
    [Quiet EXCEPT !.others = 1, !.restarts = 1]} \cup ManualScopes

MCProfiles == {Strict, Manual}
=============================================================================
