----------------------------- MODULE MCRTSPProxy -----------------------------
(* One path, routed to one server to begin with, then to another, to none    *)
(* or to the default server, as SetRoute pleases.                            *)
EXTENDS RTSPProxy, TLC

CONSTANTS p1, a, b

MCRoutes == (p1 :> a) @@ (Default :> NoServer)
=============================================================================
