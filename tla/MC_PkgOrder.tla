---------------------------- MODULE MC_PkgOrder ----------------------------
(* Checksum words: too short, two that differ only above bit 28, and one   *)
(* more; int values: one inline and two that need the int32 pool.          *)
EXTENDS PkgOrder

MCNames == <<"a", "b">>
MCVersions == <<"1", "2">>
MCCrossNames == <<"a">>
MCCrossVersions == <<"1">>
MCCsums == {Short, 7, 9, 2^28 + 7}
MCIntVals == {3}
MCCrossCsums == {7}
MCCrossIntVals == {3, 2^28 + 1, 2^28 + 2}
=============================================================================
