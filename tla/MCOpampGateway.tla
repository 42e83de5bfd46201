--------------------------- MODULE MCOpampGateway ---------------------------
(* Instances of OpampGateway for TLC.                                      *)
EXTENDS OpampGateway, TLC

\* Ids are only compared, and none is chosen by CHOOSE.
Symmetry == Permutations(Upstreams) \cup Permutations(Downstreams)
            \cup Permutations(Agents)
=============================================================================
