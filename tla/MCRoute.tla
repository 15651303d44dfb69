------------------------------ MODULE MCRoute -------------------------------
(* A cluster of three hosts.                                                *)
EXTENDS Route

CONSTANTS h1, h2, h3

\* Two hosts that are told of each other, with a fault; one that is told of
\* another, with two; a host that is told of two others, of which one hears of
\* the other.
MCPlans ==
  { [ links |-> { << h1, h2 >>, << h2, h1 >> }, faults |-> 1, active |-> {h1, h2} ],
    [ links |-> { << h1, h2 >> }, faults |-> 2, active |-> {h1} ],
    [ links |-> { << h2, h1 >>, << h2, h3 >> }, faults |-> 0, active |-> {h1, h2} ] }
=============================================================================
