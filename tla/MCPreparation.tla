------------------------------- MODULE MCPreparation -------------------------------
EXTENDS Preparation

CONSTANTS r1, r2, s1, s2, s3

KeywordedTexts == [list |-> "LIST_FILES"]
TwoGuesses == { [intent |-> "OPEN_URL", confidence |-> 60],
                [intent |-> "OPEN_URL", confidence |-> 35] }

TwoLengths == [brief |-> 1, long |-> 3]

(* Two sessions of one user, and one of another. *)
Owners == [s \in NoteSessions |-> IF s = s3 THEN "v" ELSE "u"]

Symmetry == Permutations({r1, r2}) \cup Permutations({s1, s2})
================================================================================
