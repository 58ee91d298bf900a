--------------------------- MODULE MC_MsvcCompile ----------------------------
(* Instantiates MsvcCompile for TLC; the constants are set in the .cfg.    *)
EXTENDS MsvcCompile
=============================================================================
