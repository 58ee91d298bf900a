------------------------- MODULE MC_MsvcShowIncludes -------------------------
(***************************************************************************)
(* The detector over small lines.  "Note:" stands for MSVC's prefix        *)
(* "Note: including file:", "C:\P" and "F\stdio.h" for the two halves of   *)
(* a header path with a space in it ("C:\Program Files\...\stdio.h").      *)
(* The full path exists, and so does its tail "F\stdio.h" seen from the    *)
(* server's cwd.                                                           *)
(***************************************************************************)
EXTENDS MsvcShowIncludes

MCWords      == {"Note:", "", "C:\\P", "F\\stdio.h"}
MCStdioWords == {"F\\stdio.h"}
MCExists     == {<<"C:\\P", "F\\stdio.h">>, <<"F\\stdio.h">>}

\* Every stdout of up to two lines of up to three words.
MCOutputs == BoundedSeq(Line, 2)

\* What cl prints for test.c: the file name, then the include note.
NoteLine      == <<"Note:", "C:\\P", "F\\stdio.h">>
MCCompilerOut == {<<<<"test.c">>, NoteLine>>}
MCWordsReal   == MCWords \cup {"test.c"}

\* spec.md 4.2: the detector discovers "the diagnostic line prefix [the
\* compiler] emits before each included-file path", and the comment at the
\* scan looks for the space after which "the rest of this line is a full
\* pathname".  For MSVC's real output the prefix found is "Note: ".
DetectsNotePrefix ==
    (result # None /\ result.kind = "ok") => result.prefix = <<"Note:">>

=============================================================================
