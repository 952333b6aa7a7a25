---------------------------- MODULE MCRegistryLoop ----------------------------
EXTENDS RegistryLoop

CONSTANTS s1, s2

B(c, q, r, f, names, keys, relay) ==
    [commits |-> c, requests |-> q, regs |-> r, faults |-> f, names |-> names,
     spks |-> keys, relay |-> relay]

\* Each line is an instance of its own; their behaviours do not mix.
MCBudgets == {
    B(2, 0, 0, 1, {1, 2}, {s1}, TRUE),       \* publishing, with a fault
    B(1, 1, 0, 0, {1, 2}, {s1}, TRUE),       \* ... and a concurrent request
    B(1, 0, 1, 0, {1, 2}, {s1}, TRUE),       \* both halves of the loop
    B(1, 1, 2, 1, {1}, {s1, s2}, FALSE),     \* two users, one name, a fault
    B(0, 0, 2, 1, {1, 3}, {s1}, FALSE)}      \* a name that is none
=============================================================================
