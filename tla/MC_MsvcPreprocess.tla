-------------------------- MODULE MC_MsvcPreprocess --------------------------
(* Instantiates MsvcPreprocess.  Spellings 1 and 2 name the same header    *)
(* (Windows normpath resolves both to path 1), 3 and 4 are distinct        *)
(* headers, and path 2 has a space in it.  Four lines fit a duplicate, a   *)
(* space path, a new header and a diagnostic.                              *)
EXTENDS MsvcPreprocess

MCSpellings == 1 .. 4
MCNorm == (1 :> 1) @@ (2 :> 1) @@ (3 :> 2) @@ (4 :> 3)
MCSpacey == {2}
=============================================================================
