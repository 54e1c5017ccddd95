----------------------------- MODULE MCDataCache -----------------------------
(* Small instances of the flat product cache.                               *)
EXTENDS DataCache, TLC

CONSTANTS c1, c2, v1, v2

TwoCallers == {c1, c2}
TwoVersions == {v1, v2}
CallerSymmetry == Permutations({c1, c2}) \cup Permutations({v1, v2})
AllFaults == {"crash", "damage", "disk"}
AllKinds == {"gnss", "space_weather", "terrain"}
=============================================================================
