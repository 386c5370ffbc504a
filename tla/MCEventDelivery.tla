---------------------------- MODULE MCEventDelivery ----------------------------
EXTENDS EventDelivery

(* A connection breaks; or a request fails and the page is loaded again. *)
MCScenarios ==
    {[losses |-> 1, failures |-> 0, reloads |-> 0, requests |-> 2],
     [losses |-> 0, failures |-> 1, reloads |-> 1, requests |-> 2]}
=============================================================================
