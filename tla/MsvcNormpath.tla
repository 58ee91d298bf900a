----------------------------- MODULE MsvcNormpath -----------------------------
(***************************************************************************)
(* Path normalization: normpath in src/src/compiler/msvc.rs, applied by    *)
(* preprocess to every include path.                                      *)
(*                                                                         *)
(* On Windows it opens the file and asks GetFinalPathNameByHandleW twice:  *)
(* once with an empty buffer for the size (the API then returns the        *)
(* length it needs, its NUL included), once to fill a zeroed buffer of     *)
(* that size (the API then returns the length it wrote, NUL excluded, or,  *)
(* if the buffer is too small, the size it needs, leaving it untouched).   *)
(* The code only checks either result against 0; it keeps the first size, *)
(* cuts the "\\?\" prefix and the last wide char, converts to a String and *)
(* turns '\' into '/'.  Any failure falls back to the spelling with '/'.   *)
(* Elsewhere normpath is the identity.                                     *)
(*                                                                         *)
(* Paths are sequences of characters.  final is the path the opened file  *)
(* has now, after the "\\?\"; another process may rename the file (Rust's *)
(* File::open shares delete access, so a rename of an open file works).   *)
(***************************************************************************)
EXTENDS Naturals, Sequences, SequencesExt

CONSTANTS
    Path,           \* the spelling normpath is called with
    Finals,         \* the final paths (after "\\?\") the file may have
    NUL,            \* the wide char 0 of the zeroed buffer
    Lone,           \* a lone UTF-16 surrogate: not convertible to a String
    MaxRenames,     \* how many renames by other processes are considered
    None            \* model value: no file at Path / nothing yet

ASSUME MaxRenames \in Nat

\* The "\\?\" GetFinalPathNameByHandleW puts before the path.
VolPrefix == <<"\\", "\\", "?", "\\">>

Api(f) == VolPrefix \o f

\* s.replace('\\', "/")
Slashes(s) == [n \in DOMAIN s |-> IF s[n] = "\\" THEN "/" ELSE s[n]]

\* Variant with a bug: the slice keeps the last wide char.
FinalNameKeepsLast(wchars, size) == SubSeq(wchars, 5, size)

\* &wchars[4..wchars.len() - 1], wchars.len() being the first size.
FinalName(wchars, size) == SubSeq(wchars, 5, size - 1)

VARIABLES
    windows,    \* the build: #[cfg(windows)] or not
    pc,         \* where the call is
    final,      \* the path the file has now, or None if it cannot be opened
    size,       \* what the first GetFinalPathNameByHandleW returned
    result,     \* the String normpath returns, or None
    seen,       \* history: every final path the file had while open
    moved,      \* history: a rename fell between the two API calls
    renames     \* renames by other processes so far

vars == <<windows, pc, final, size, result, seen, moved, renames>>

Init ==
    /\ windows \in BOOLEAN
    /\ pc = "open"
    /\ final \in Finals \cup {None}
    /\ size = 0 /\ result = None /\ seen = {} /\ moved = FALSE
    /\ renames = 0

\* .unwrap_or(path.replace('\\', "/"))
Fallback ==
    /\ pc' = "done" /\ result' = Slashes(Path)
    /\ UNCHANGED <<size, seen, moved>>

\* #[cfg(not(windows))]: path.to_owned()
NormpathOther ==
    /\ pc = "open" /\ ~windows
    /\ pc' = "done" /\ result' = Path
    /\ UNCHANGED <<windows, final, size, seen, moved, renames>>

\* File::open(path): no file there is an Err.
Open ==
    /\ pc = "open" /\ windows
    /\ IF final = None THEN Fallback
       ELSE pc' = "size" /\ seen' = {final} /\ UNCHANGED <<size, result, moved>>
    /\ UNCHANGED <<windows, final, renames>>

\* The first call, with a null buffer: size == 0 is an Err.
QuerySize ==
    /\ pc = "size"
    /\ size' = Len(Api(final)) + 1
    /\ pc' = "fill"
    /\ UNCHANGED <<windows, final, result, seen, moved, renames>>

QuerySizeFails ==
    /\ pc = "size" /\ Fallback
    /\ UNCHANGED <<windows, final, renames>>

\* The second call into vec![0; size], accepted if it is not 0, the slice,
\* into_string (an Err on a lone surrogate) and the replace.
Fill ==
    /\ pc = "fill"
    /\ LET s      == Api(final)
           zeros  == [n \in 1 .. size |-> NUL]
           wchars == IF Len(s) < size THEN s \o SubSeq(zeros, Len(s) + 1, size)
                     ELSE zeros
           o      == FinalName(wchars, size)
       IN  result' = IF \E n \in DOMAIN o : o[n] = Lone THEN Slashes(Path)
                     ELSE Slashes(o)
    /\ pc' = "done"
    /\ UNCHANGED <<windows, final, size, seen, moved, renames>>

FillFails ==
    /\ pc = "fill" /\ Fallback
    /\ UNCHANGED <<windows, final, renames>>

\* Another process renames the file (the handle stays valid).
Rename ==
    /\ final # None /\ renames < MaxRenames
    /\ \E f \in Finals \ {final} :
         /\ final' = f
         /\ seen' = IF pc \in {"size", "fill"} THEN seen \cup {f} ELSE seen
    /\ moved' = (moved \/ pc = "fill")
    /\ renames' = renames + 1
    /\ UNCHANGED <<windows, pc, size, result>>

Done ==
    /\ pc = "done"
    /\ UNCHANGED vars

Next ==
    \/ NormpathOther \/ Open
    \/ QuerySize \/ QuerySizeFails
    \/ Fill \/ FillFails
    \/ Rename \/ Done

Spec == Init /\ [][Next]_vars

(***************************************************************************)
(* Properties                                                              *)
(***************************************************************************)
\* The name a user writes for the API's path after "\\?\": a path on a
\* share, "\\?\UNC\server\share\...", is "\\server\share\...".
UserName(f) ==
    IF Len(f) >= 4 /\ SubSeq(f, 1, 4) = <<"U", "N", "C", "\\">>
    THEN <<"\\">> \o SubSeq(f, 4, Len(f))
    ELSE f

\* What normpath may return: on Windows the spelling or a name the file
\* had while it was open, with '/' separators; elsewhere the spelling.
Names == IF windows THEN {Slashes(Path)} \cup {Slashes(UserName(f)) : f \in seen}
         ELSE {Path}

\* spec.md 4.3 step 4: normpath resolves an include path to the file's
\* canonical form, or falls back to the spelling with '/' -- whenever the
\* file keeps its name between the two GetFinalPathNameByHandleW calls.
NormpathCanonical == (pc = "done" /\ ~moved) => result \in Names

\* The same without the proviso: neither a rename between the two calls
\* nor a file on a share may make normpath return something that is not a
\* name of the file.
NormpathNamesTheFile == pc = "done" => result \in Names

=============================================================================
