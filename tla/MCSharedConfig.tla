---------------------------- MODULE MCSharedConfig ----------------------------
(* Values of the constants of SharedConfig for model checking. *)
EXTENDS SharedConfig

CONSTANTS r1, r2, k1, k2, v1, v2, tight, tighter, long, overlong

OneReader == {r1}
Names == {k1, k2}
Values == {v1, v2, tight, tighter, long, overlong}
LossOfValues ==
  [v \in Values |-> CASE v = tight -> 1 [] v = tighter -> 2 [] v = long -> 3
                      [] v = overlong -> 5 [] OTHER -> 0]
OverlongValues == {overlong}

P(key, value) == [key |-> key, value |-> value]

Config(params, levels, server) ==
  [params |-> params, levels |-> levels, server |-> server, port |-> v1]

Plain == << P(k1, v1), P(k2, v1) >>
Changed == << P(k1, v2), P(k2, v1) >>

TwoConfigs == { Config(Plain, << >>, TRUE), Config(Changed, << Plain >>, TRUE) }

\* No level; levels of several sizes, with and without a server.  A format that
\* loses its newline, at the end of a level and before another parameter, or
\* more; two that do, in both orders; one that overruns.
Configurations ==
  { Config(Plain, << >>, FALSE), Config(Plain, << >>, TRUE),
    Config(Changed, << Plain >>, TRUE), Config(Changed, << << P(k1, v1) >>, Plain >>, FALSE),
    Config(Plain, << << P(k1, v1), P(k2, tight) >>, << P(k1, tight) >> >>, TRUE),
    Config(Plain, << << P(k1, tight), P(k2, v2) >>, << P(k1, tight) >> >>, FALSE),
    Config(<< P(k1, tight), P(k2, v1) >>, << << P(k2, tight) >> >>, TRUE),
    Config(Plain, << << P(k1, tighter) >>, << P(k2, v1) >> >>, TRUE),
    Config(Plain, << << P(k1, tight) >>, << P(k2, long) >> >>, TRUE),
    Config(Plain, << << P(k1, overlong) >> >>, TRUE) }
=============================================================================
