------------------------- MODULE MCS3EventReceiver -------------------------
(* Instances of S3EventReceiver for TLC.                                   *)
EXTENDS S3EventReceiver, TLC

CONSTANTS m1, m2, m3, o1, o2

\* m1 and m2 announce two versions of o1
OverwriteEvents(m) == {o1}
\* m1 names two objects, of the others the filters leave nothing
PairEvents(m) == IF m = m1 THEN {o1, o2} ELSE {}

\* the second version is shorter
OverwriteContent(o, v) == IF v = 1 THEN <<"log", "log">> ELSE <<"log">>
\* a malformed record, then the end of the object is cut off
PairContent(o, v) ==
    IF o = o1 THEN <<"log", "log">> ELSE <<"malformed", "cut">>

\* a new ETag for every version
UniqueETag(o, v) == <<o, v>>

OwnKey(o) == o

Symmetry == Permutations(Workers)
=============================================================================
