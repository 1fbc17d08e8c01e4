-------------------------- MODULE MCNotifications --------------------------
(* Instances of Notifications for TLC. *)
EXTENDS Notifications, TLC

\* Processes are interchangeable.
Symmetry == Permutations(Processes)
============================================================================
