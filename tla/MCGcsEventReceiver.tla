------------------------- MODULE MCGcsEventReceiver -------------------------
(* Instances of GcsEventReceiver for TLC: one object, two generations.     *)
EXTENDS GcsEventReceiver, TLC

CONSTANTS m1, m2, m3, m4, o1

ObjectOfMessage(m) == o1

\* m1 and m4 announce the first generation, m3 the second; m2 is another event
\* of the first
IsFinalize(m) == m # m2
Generation(m) == IF m = m3 THEN 2 ELSE 1

\* m2: OBJECT_DELETE, because the second replaces it
LiveAtDelete(m) == IF m \in {m2, m3} THEN 2 ELSE 1

Symmetry == Permutations(Workers)
=============================================================================
