----------------------------- MODULE MC_Lifecycle -----------------------------
(* An instance of ServerLifecycle for TLC. *)
EXTENDS ServerLifecycle

CONSTANTS j1, j2

\* Nothing set; delays that overflow when doubled; a maximum below the initial delay.
Unset == [interval |-> 0, initial |-> 0, max |-> 0, failures |-> 0, cooldown |-> 0]
Large == [interval |-> 2, initial |-> 5, max |-> 7, failures |-> 2, cooldown |-> 0]
Crossed == [interval |-> 1, initial |-> 3, max |-> 1, failures |-> 1, cooldown |-> 2]
Settings == {Unset, Large, Crossed}
=============================================================================
