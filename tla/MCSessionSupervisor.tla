------------------------- MODULE MCSessionSupervisor -------------------------
(* Two clients; each budget lets one side of the surroundings act freely.     *)
EXTENDS SessionSupervisor
CONSTANTS c1, c2

SafetyBudgets == {
    [output |-> 2, faults |-> 0, typists |-> {}, leavers |-> {}],
    [output |-> 1, faults |-> 0, typists |-> {}, leavers |-> {c1}],
    [output |-> 0, faults |-> 0, typists |-> {c1, c2}, leavers |-> {c1}],
    [output |-> 0, faults |-> 0, typists |-> {}, leavers |-> {c1, c2}],
    [output |-> 1, faults |-> 1, typists |-> {}, leavers |-> {}],
    [output |-> 0, faults |-> 1, typists |-> {c2}, leavers |-> {}]}
LiveBudgets == {
    [output |-> 1, faults |-> 0, typists |-> {}, leavers |-> {}],
    [output |-> 0, faults |-> 1, typists |-> {}, leavers |-> {}]}
=============================================================================
