----------------------------- MODULE MCDownstream -----------------------------
(* Small instances of Downstream for TLC: the workers, artifacts, keys and  *)
(* contents are interchangeable, so the safety runs reduce by symmetry.     *)
EXTENDS Downstream, TLC

\* An authorization binds one key; a non-production adapter needs none for any key.
OneOrAll == {{k} : k \in Keys} \cup {Keys}

Symmetric ==
  Permutations(Keys) \cup Permutations(Artifacts) \cup Permutations(Series)
    \cup Permutations(Contents) \cup Permutations(Workers) \cup Permutations(Operators)
=============================================================================
