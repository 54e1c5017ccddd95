-------------------------- MODULE MCExactAcquisition --------------------------
(* Small instances of exact acquisition: one remote and one local source.   *)
EXTENDS ExactAcquisitionProperties, TLC

CONSTANTS c1, c2, v1, v2

TwoCallers == {c1, c2}
TwoSources == {"direct", "local_file"}
TwoRemotes == {"direct", "nasa_cddis"}
OnlyDirect == {"direct"}
RemoteFirst == {<<"direct", "local_file">>}
RemoteOrders == {<<>>, <<"direct", "nasa_cddis">>, <<"nasa_cddis", "direct">>}
Asked(offline, pin) == [offline |-> offline, pin |-> pin]
Online == {Asked(FALSE, NoPin)}
SomePinned == {Asked(FALSE, NoPin), Asked(FALSE, v1), Asked(TRUE, NoPin)}
AllFaults == {"crash", "damage", "disk"}
CallerSymmetry == Permutations({c1, c2})
=============================================================================
