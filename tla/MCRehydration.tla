--------------------------- MODULE MCRehydration ---------------------------
(* Instances of Rehydration: four objects, the second not wanted, the      *)
(* third and fourth of the same minute, or two folders, each sorted.       *)
EXTENDS Rehydration

AllButSecond(i) == i # 2

SortedTime == <<1, 2, 3, 3>>
FoldersTime == <<2, 3, 1, 2>>

Scenario(r, t, f) == [receiver |-> r, time |-> t, faults |-> f]
Crashes == {"crash", "save", "load"}

AllScenarios ==
    {Scenario(r, SortedTime, Crashes) : r \in {"gcs", "azure", "s3"}}
    \cup {Scenario(r, FoldersTime, Crashes \cup {"fail", "shutdown"}) : r \in {"gcs", "s3"}}

OneShutdown == {Scenario("gcs", SortedTime, {"shutdown"})}
=============================================================================
