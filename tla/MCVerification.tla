--------------------------- MODULE MCVerification ----------------------------
EXTENDS Verification, TLC

Symmetry == Permutations(Req) \cup Permutations(Request)

\* Bound of the model: one accident at a time, no document beyond the bound,
\* and not every subject judged outside the queue.  A new document is an
\* accident, with what it leads to.
OneAccident ==
  /\ Cardinality(crossed) + Cardinality(lost)
       + (IF document > 1 THEN 1 + Cardinality(unqueued \ {Profile})
          ELSE Cardinality(unqueued) + (IF late THEN 1 ELSE 0)) <= 1
  /\ document <= MaxDocument
  /\ \E s \in Subject : status[s] \in {"PASSED", "FAILED"} => verdictBy[s] # None
=============================================================================
