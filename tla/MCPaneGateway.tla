--------------------------- MODULE MCPaneGateway ---------------------------
(* Instances of PaneGateway for TLC. *)
EXTENDS PaneGateway, TLC

CONSTANTS w1, p1, f1, f2, c1, c2

OneWorld == {w1}
OnePane == {p1}
TwoFingerprints == {f1, f2}
TwoConnections == {c1, c2}

\* Connections and fingerprints are interchangeable.
PaneSymmetry == Permutations({c1, c2}) \cup Permutations({f1, f2})

=============================================================================
