----------------------------- MODULE MCCollector -----------------------------
EXTENDS Collector, TLC

CONSTANTS n1, n2, c1, c2, d1

\* One cluster, of which the manager holds two values.
OneName == {n1}
TwoValues == {c1, c2}
TwoValuesOf == (c1 :> n1) @@ (c2 :> n1)

\* That cluster and one with a name of its own (which may be the empty one).
TwoNames == {n1, n2}
ThreeValues == {c1, c2, d1}
ThreeValuesOf == TwoValuesOf @@ (d1 :> n2)

\* Nothing tells the two values of one cluster apart.
ValuesOfOneName == Permutations(TwoValues)
=============================================================================
