-------------------------------- MODULE MCSkills --------------------------------
(* Small instance of the skills: two directories and two packages. *)
EXTENDS Skills, TLC

TwoNames == <<"a", "b">>

(* one named by its directory, and one with the id of the other            *)
TwoPackages ==
  { [base |-> "a", id |-> None, tools |-> {"list_files"}],
    [base |-> "b", id |-> "a", tools |-> {"list_files", "run_command"}] }

(* Bound: a skill of the root is installed while at most one other request *)
(* is at work or done.                                                     *)
InsideInPairs ==
  (\E r \in Requests : req[r].kind = "install" /\ From(r) # None) =>
    Cardinality({r \in Requests : ~At(r, "idle")}) <= 2

Symmetry == Permutations(Requests)
================================================================================
