--------------------------- MODULE MC_MsvcPipeline ---------------------------
(***************************************************************************)
(* Two jobs of one compiler.  MSVC's prefix "Note: including file: " has   *)
(* spaces of its own; the header stdio.h lives under a directory with a    *)
(* space ("C:\P F\stdio.h"), another header does not.  Only full paths     *)
(* exist, seen from the server's cwd.  Diagnostics include one that starts *)
(* like the prefix and stops short of it.                                  *)
(***************************************************************************)
EXTENDS MsvcPipeline

MCNotePrefix  == <<"Note:", "including", "file:">>
StdioPath     == <<"C:\\P", "F\\stdio.h">>
MCPaths       == {StdioPath, <<"C:\\i.h">>}
MCExists      == MCPaths
MCCompilerOut == <<<<"t.c">>, MCNotePrefix \o StdioPath>>
MCDiagnostics == {<<"t.c(1):", "warning">>, <<"Note:", "including">>}
MCWords       == {"Note:", "including", "file:", "C:\\P", "F\\stdio.h", "t.c", ""}
MCStdioWords  == {"F\\stdio.h"}
=============================================================================
