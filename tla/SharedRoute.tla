---------------------------- MODULE SharedRoute ----------------------------
(***************************************************************************)
(* What one epoch of the session supervisor promises: sessions join and    *)
(* leave a route that they share.  Nothing is published for nobody; the    *)
(* last session that leaves ends the epoch for good, and the fence goes    *)
(* only when no session and no open gate is left.                          *)
(***************************************************************************)
EXTENDS GenerationGate

CONSTANT Session

VARIABLES
    interest,   \* the sessions that hold a lease
    draining,   \* the epoch has lost its last interest, or was told to end
    fenced      \* the recovery fence of the epoch is in place

routeVars == <<open, last, interest, draining, fenced>>

RouteInit == GateInit /\ interest = {} /\ draining = FALSE /\ fenced = TRUE

Join(s) ==
    /\ ~draining /\ s \notin interest
    /\ interest' = interest \cup {s}
    /\ UNCHANGED <<gateVars, draining, fenced>>

Leave(s) ==
    /\ s \in interest
    /\ interest' = interest \ {s}
    /\ draining' = (draining \/ interest' = {})
    /\ UNCHANGED <<gateVars, fenced>>

Publish ==
    /\ ~draining /\ interest # {}
    /\ Open /\ open' > last
    /\ UNCHANGED <<interest, draining, fenced>>

Withdraw == Shut /\ UNCHANGED <<interest, draining, fenced>>

\* Nobody came, a signal came, or the route is lost.
Stop == ~draining /\ draining' = TRUE /\ UNCHANGED <<gateVars, interest, fenced>>

Clear ==
    /\ draining /\ interest = {} /\ open = 0 /\ fenced
    /\ fenced' = FALSE
    /\ UNCHANGED <<gateVars, interest, draining>>

RouteNext ==
    \/ \E s \in Session : Join(s) \/ Leave(s)
    \/ Publish \/ Withdraw \/ Stop \/ Clear

RouteSpec == RouteInit /\ [][RouteNext]_routeVars
=============================================================================
