--------------------------- MODULE MCRouteMonitor ---------------------------
(***************************************************************************)
(* Model-checking instance of RouteMonitor: two interfaces, so the best   *)
(* route can move from one to the other and tie between them.  Default    *)
(* routes carry metrics 1 and 2, above the metric 0 of a prefix route.    *)
(***************************************************************************)
EXTENDS RouteMonitor

MCIfaceOrder == <<"eth0", "wlan0">>
MCMetrics == {1, 2}

=============================================================================
