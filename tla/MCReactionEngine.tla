-------------------------- MODULE MCReactionEngine --------------------------
(* A small instance of ReactionEngine for TLC.                             *)
EXTENDS ReactionEngine

Evals(loop, signals, shadow) ==
    [c \in Callers |-> CASE c = "loop" -> loop [] c = "signals" -> signals [] OTHER -> shadow]

CONSTANT flood

Scenario(rules, sustained, evals, samples) ==
    [rules |-> rules, sustained |-> sustained, evals |-> evals, samples |-> samples,
     failures |-> 0, restarts |-> 0]

\* Both goroutines and the shadow PDP, a failed save with a restart, evaluations without end.
MCScopes == {
    Scenario(Rules, {}, Evals(1, 1, 0), 2),
    Scenario(Rules, {}, Evals(2, 0, 1), 1),
    Scenario(Rules, Rules, Evals(1, 1, 0), 2),
    Scenario(Rules, Rules, Evals(2, 0, 1), 2),
    [Scenario(Rules, {}, Evals(1, 1, 0), 1) EXCEPT !.failures = 1, !.restarts = 1],
    [Scenario(Rules, {}, Evals(NoEnd, 1, 0), 1) EXCEPT !.restarts = 1]}
=============================================================================
