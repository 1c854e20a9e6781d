--------------------------- MODULE MCEsentDatabase ---------------------------
(* EsentDatabase with regions a, b and a.b, two guids and one reader.      *)
EXTENDS EsentDatabase, TLC

CONSTANTS a, b, g1, g2, r1

MCSegments == {a, b}
MCGuids == {g1, g2}
MCRegions == {<<a>>, <<b>>, <<a, b>>}
MCUnloadable == {[region |-> <<b>>, guid |-> g1]}
MCReaders == {r1}
=============================================================================
