------------------------------- MODULE MCMail -------------------------------
(* Instances of Mail for TLC. *)
EXTENDS Mail, TLC

MCCallers == Jobs \cup {Verify}
Symmetry == Permutations(Jobs)

(* Numbers of generations and openings matter only where they are equal. *)
Canonical ==
  <<[breaker EXCEPT !.generation = 0],
    [c \in Callers |-> IF calls[c] = NoCall THEN NoCall
                       ELSE <<Counts(c), calls[c].probing, calls[c].opened = opened>>],
    IF passed < halfOpenSuccesses THEN passed ELSE halfOpenSuccesses, mail>>
=============================================================================
