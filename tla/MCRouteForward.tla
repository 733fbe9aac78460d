-------------------------- MODULE MCRouteForward ---------------------------
(* Small instances of RouteForward: one route over three kernels, which    *)
(* every kernel has loaded.                                                *)
EXTENDS RouteForward

CONSTANTS k1, k2, k3

Route == {Config("route", Along(<<k1, k2, k3>>), TRUE), Config("old", Along(<<k3, k1, k2>>), FALSE)}
OneRoute == [k \in Kernels |-> Route]

TwoSenders == <<k1, k2>>
OneSender == <<k1>>
=============================================================================
