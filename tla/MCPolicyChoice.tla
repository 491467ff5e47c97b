--------------------------- MODULE MCPolicyChoice ---------------------------
(***************************************************************************)
(* Up to three nodes.  In the weighted cases the ranges of the signals     *)
(* divide Scale, so that the scaled signals are exact; in the epsilon case *)
(* carbon and energy lie on both sides of the 15 percent guard.            *)
(***************************************************************************)
EXTENDS PolicyChoice

W(a, b, g, d, fit, lambda, rt, move) ==
    [alpha |-> a, beta |-> b, gamma |-> g, delta |-> d, fit |-> fit,
     lambda |-> lambda, maxRuntime |-> rt, maxMove |-> move]

Of(kinds, configs, signal) ==
    {[kind |-> k, weights |-> w, signal |-> signal] : k \in kinds, w \in configs}

MCCases ==
    UNION {
        Of({"eco-weighted-sum"}, {W(25, 40, 35, 0, 20, 0, 0, 0)},
           [co2 |-> 0..2, energy |-> {1, 2}, runtime |-> {2}, queue |-> {0, 2},
            move |-> {0}, fit |-> {3, 10}]),
        Of({"eco-weighted-sum"}, {W(40, 30, 20, 25, 0, 0, 0, 0)},
           [co2 |-> 0..2, energy |-> {1, 2}, runtime |-> {2}, queue |-> {0, 2},
            move |-> {0, 3}, fit |-> {10}]),
        Of({"eco-fastest"}, {W(25, 40, 35, 0, 20, 0, 0, 0)}, [co2 |-> {1}]),
        Of({"eco-epsilon-constraint"}, {W(0, 0, 0, 0, 0, 0, rt, 0) : rt \in {0, 1}},
           [co2 |-> {20, 22, 24}, energy |-> {20, 24}, runtime |-> {1, 2},
            queue |-> {0, 1}, move |-> {0}]),
        Of({"topsis"}, {W(3, 1, 1, 0, 0, 0, 0, 0)},
           [co2 |-> {0, 2, 3}, runtime |-> {1, 2}, queue |-> 0..2]),
        UNION {Of({"keids"}, {W(3, 1, 1, 0, 0, 0, 0, 0)},
                  [co2 |-> {0, 2, 3}, runtime |-> {r}, queue |-> {0, 1, 4}]) : r \in {0, 2}},
        Of({"carbonscaler"}, {W(0, 0, 0, 0, 0, l, 0, 0) : l \in {-10, 50, 100}},
           [co2 |-> {1, 2, 3}, queue |-> 0..2]),
        Of({"k8s"}, {W(0, 0, 0, 0, 0, 0, 0, 0)}, [used |-> 0..3])}

MCLists == {<<>>, <<1>>, <<2, 1>>, <<1, 3, 2>>}

ASSUME FineScale == ScaleIsFine
=============================================================================
