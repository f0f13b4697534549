----------------------------- MODULE MCOverlay -----------------------------
(* Instances of Overlay for model checking. *)
EXTENDS Overlay, TLC

\* The session ids of the first, second, third and fourth connection.
CONSTANTS First, Second, Third, Fourth

MCSession == [c \in Conns |-> CASE c = 1 -> First [] c = 2 -> Second 
                           [] c = 3 -> Third [] OTHER -> Fourth]

Symmetry == Permutations(Nodes)
============================================================================
