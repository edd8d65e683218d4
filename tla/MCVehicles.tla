----------------------------- MODULE MCVehicles -----------------------------
(* Two people, either of whom may register as a driver or a manager, and an    *)
(* address they type in either case; two vehicles that compete for two plates; *)
(* and two overlapping requests, each a PATCH of any fields or a DELETE.       *)
EXTENDS Vehicles, TLC

Symmetry == Permutations(Req) \cup Permutations(Vehicle) \cup Permutations(Plate)
            \cup Permutations(Driver) \cup Permutations(Person)
=============================================================================
