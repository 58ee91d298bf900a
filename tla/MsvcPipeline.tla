------------------------------ MODULE MsvcPipeline ------------------------------
(***************************************************************************)
(* The Include-Prefix Detector composed with the Preprocessor Runner, for  *)
(* several concurrent jobs of one compiler that share the caller's prefix  *)
(* cache (spec.md 2 and 5: detected once per compiler, read many times,    *)
(* and not locked by this code -- concurrent first use runs the detector   *)
(* twice).                                                                 *)
(*                                                                         *)
(* Lines are word sequences as in MsvcShowIncludes.  The -E run's stderr   *)
(* is generated from what the compiler means to say: an include note of    *)
(* nesting depth d is NotePrefix, d - 1 empty words (MSVC indents nested   *)
(* notes by one space per level) and the path; a diagnostic is its words.  *)
(* The property checks that preprocess, given the detected prefix, tells   *)
(* the two apart and recovers each path.                                   *)
(***************************************************************************)
EXTENDS Naturals, Sequences, SequencesExt

CONSTANTS
    Jobs,           \* concurrent compilations with the same compiler
    Words, StdioWords, Exists, MaxWords, None,   \* as in MsvcShowIncludes
    CompilerOut,    \* what the detector's compiler run prints on stdout
    NotePrefix,     \* the words MSVC puts before an included path
    Paths,          \* header paths (word sequences) a note may carry
    Diagnostics,    \* the words of genuine diagnostic lines
    MaxDepth,       \* deepest include nesting considered
    MaxLines        \* the longest stderr considered

D == INSTANCE MsvcShowIncludes
        WITH Outputs <- {CompilerOut}, pc <- "done", status <- None,
             stdout <- CompilerOut, decoded <- TRUE, result <- None

\* A stderr line by what it means: kind "note" with depth and path, or
\* kind "diag" with its words in path.
StderrLine ==
    [kind : {"note"}, depth : 1 .. MaxDepth, path : Paths] \cup
    [kind : {"diag"}, depth : {0}, path : Diagnostics]

\* The text the compiler prints for it.
Render(l) ==
    IF l.kind = "note"
    THEN NotePrefix \o [n \in 1 .. l.depth - 1 |-> ""] \o l.path
    ELSE l.path

(***************************************************************************)
(* preprocess, lines 287-297, on one decoded line.                        *)
(***************************************************************************)
\* line.starts_with(&includes_prefix): the prefix ends with its space.
StartsWithPrefix(line, p) == Len(line) > Len(p) /\ SubSeq(line, 1, Len(p)) = p

\* str::trim on words: leading and trailing empty words are spaces.
RECURSIVE Trim(_)
Trim(ws) ==
    IF ws # <<>> /\ Head(ws) = "" THEN Trim(Tail(ws))
    ELSE IF ws # <<>> /\ Last(ws) = "" THEN Trim(Front(ws))
    ELSE ws

\* Variant with a bug: the rest of the line is used without trim().
IncludeDepUntrimmed(line, p) == SubSeq(line, Len(p) + 1, Len(line))

\* line[includes_prefix.len()..].trim()  (normpath is MsvcPreprocess's Norm)
IncludeDep(line, p) == Trim(SubSeq(line, Len(p) + 1, Len(line)))

VARIABLES
    cache,      \* the caller's prefix cache for this compiler: None or a prefix
    stage,      \* stage[j]: where job j is
    prefix,     \* prefix[j]: the includes_prefix job j passes to preprocess
    stderr,     \* stderr[j]: what j's -E run printed, by meaning
    deps,       \* deps[j]: the HashSet of include paths preprocess collected
    kept,       \* kept[j]: the lines preprocess kept as diagnostics
    result      \* result[j]: None, "ok" or "error"

vars == <<cache, stage, prefix, stderr, deps, kept, result>>

Init ==
    /\ cache = None
    /\ stage = [j \in Jobs |-> "lookup"]
    /\ prefix = [j \in Jobs |-> None]
    /\ stderr = [j \in Jobs |-> <<>>]
    /\ deps = [j \in Jobs |-> {}]
    /\ kept = [j \in Jobs |-> <<>>]
    /\ result = [j \in Jobs |-> None]

Fail(j) ==
    /\ stage' = [stage EXCEPT ![j] = "done"]
    /\ result' = [result EXCEPT ![j] = "error"]
    /\ UNCHANGED <<cache, prefix, stderr, deps, kept>>

\* The caller: a cached prefix is used, a missing one is detected.
Lookup(j) ==
    /\ stage[j] = "lookup"
    /\ IF cache # None
       THEN /\ prefix' = [prefix EXCEPT ![j] = cache]
            /\ stage' = [stage EXCEPT ![j] = "preprocess"]
       ELSE /\ stage' = [stage EXCEPT ![j] = "detect"]
            /\ UNCHANGED prefix
    /\ UNCHANGED <<cache, stderr, deps, kept, result>>

\* detect_showincludes_prefix on a successful, decoded run returns
\* FirstPrefix of its stdout (MsvcShowIncludes); the caller stores it.
Detect(j) ==
    /\ stage[j] = "detect"
    /\ D!FirstPrefix(CompilerOut) # None
    /\ cache' = D!FirstPrefix(CompilerOut)
    /\ prefix' = [prefix EXCEPT ![j] = cache']
    /\ stage' = [stage EXCEPT ![j] = "preprocess"]
    /\ UNCHANGED <<stderr, deps, kept, result>>

\* The temp write, the spawn, the status, the decoding or the scan fail:
\* Err aborts this compilation (spec.md 7 (b)); nothing is cached.
DetectFails(j) ==
    /\ stage[j] = "detect"
    /\ Fail(j)

\* preprocess: the -E -showIncludes run, then the loop over stderr lines.
Preprocess(j) ==
    /\ stage[j] = "preprocess"
    /\ \E err \in BoundedSeq(StderrLine, MaxLines) :
         LET text == [n \in DOMAIN err |-> Render(err[n])]
             inc(line) == StartsWithPrefix(line, prefix[j])
         IN  /\ stderr' = [stderr EXCEPT ![j] = err]
             /\ deps' = [deps EXCEPT ![j] =
                          {IncludeDep(text[n], prefix[j]) : n \in {n \in DOMAIN text : inc(text[n])}}]
             /\ kept' = [kept EXCEPT ![j] = SelectSeq(text, LAMBDA line : ~inc(line))]
    /\ stage' = [stage EXCEPT ![j] = "done"]
    /\ result' = [result EXCEPT ![j] = "ok"]
    /\ UNCHANGED <<cache, prefix>>

PreprocessFails(j) ==
    /\ stage[j] = "preprocess"
    /\ Fail(j)

Finished ==
    /\ \A j \in Jobs : stage[j] = "done"
    /\ UNCHANGED vars

Next ==
    \/ Finished
    \/ \E j \in Jobs :
          \/ Lookup(j) \/ Detect(j) \/ DetectFails(j)
          \/ Preprocess(j) \/ PreprocessFails(j)

Spec == Init /\ [][Next]_vars

(***************************************************************************)
(* Properties                                                              *)
(***************************************************************************)
\* spec.md 4.3 step 4 across the two stages: with the prefix the detector
\* learned from the -c run's stdout, preprocess takes every include note
\* of the -E run, at any nesting depth and with spaces in its path, as a
\* dependency on exactly that path, and keeps every other line, in order.
NotesRecognised ==
    \A j \in Jobs :
        result[j] = "ok" =>
            LET notes == {n \in DOMAIN stderr[j] : stderr[j][n].kind = "note"}
                diags == SelectSeq(stderr[j], LAMBDA l : l.kind = "diag")
            IN  /\ deps[j] = {stderr[j][n].path : n \in notes}
                /\ kept[j] = [n \in DOMAIN diags |-> diags[n].path]

=============================================================================
