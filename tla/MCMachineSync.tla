--------------------------- MODULE MCMachineSync ----------------------------
(* Two workspaces: in the first two commits and `ae-cli sync`, in the second a  *)
(* commit.  A behaviour has at most three of the four and one fault or one     *)
(* expiry, or two of them and two faults and two expiries.                    *)
EXTENDS MachineSync

CONSTANTS w1, w2, h1, h2, h3, m, r1, r2, r3, r4, r5

Homes == [h \in Hooks |-> IF h = h3 THEN w2 ELSE w1]

Bound(hooks, troubles, expiries) == [hooks |-> hooks, faults |-> troubles, timeouts |-> expiries]

SomeBounds == {Bound({h1, h2, h3}, 1, 0), Bound({h1, h2, h3}, 0, 1), Bound({h1, m, h3}, 1, 0),
               Bound({h1, h3}, 2, 2), Bound({h1, m}, 2, 2)}
=============================================================================
