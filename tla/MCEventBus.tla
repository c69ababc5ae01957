------------------------------ MODULE MCEventBus ------------------------------
(* Instances of EventBus for TLC. *)
EXTENDS EventBus

Sub(mode, policy, once, timeout) ==
    [mode |-> mode, policy |-> policy, once |-> once, timeout |-> timeout]

\* Every mode, every policy, and the combinations in which they meet: a
\* queue that is waited for and one that overflows, with a handler that is
\* called inline, by a worker or in a goroutine.
MCOptions ==
    { Sub("chan", "drop_oldest", FALSE, FALSE),
      Sub("locked", "block", FALSE, FALSE),
      Sub("locked", "drop_oldest", FALSE, TRUE),
      Sub("concurrent", "drop_newest", FALSE, FALSE),
      Sub("keyed", "block", FALSE, FALSE),
      Sub("keyed", "drop_newest", FALSE, TRUE),
      Sub("locked", "block", TRUE, FALSE),
      Sub("keyed", "drop_oldest", TRUE, FALSE),
      Sub("concurrent", "block", TRUE, TRUE) }
===============================================================================
