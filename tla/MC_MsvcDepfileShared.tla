------------------------ MODULE MC_MsvcDepfileShared ------------------------
(* Two identical compiles sharing one depfile path.  The synthesis writes  *)
(* four pieces: the header, one dep, the end of the rule line and the     *)
(* input rule; numbered apart so a piece in the wrong place shows.  A      *)
(* depfile from an earlier, longer build may be there already.             *)
EXTENDS MsvcDepfileShared

MCContent == <<1, 2, 3, 4>>
\* An earlier build of the same object that had one more dep, 5.
MCOld     == <<1, 2, 5, 3, 4, 5>>
=============================================================================
