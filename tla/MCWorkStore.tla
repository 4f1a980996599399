------------------------------ MODULE MCWorkStore ------------------------------
(* WorkStore for TLC: a plan of two units, the first of them running.       *)
EXTENDS WorkStore, TLC

CONSTANTS u1, u2

MCUnitId == {u1, u2}
MCPlan == <<[id |-> u1, kind |-> "step", state |-> "running", attempt |-> 1],
            [id |-> u2, kind |-> "gate", state |-> "pending", attempt |-> 0]>>

=============================================================================
