--------------------------- MODULE MsvcShowIncludes ---------------------------
(***************************************************************************)
(* The Include-Prefix Detector: detect_showincludes_prefix in              *)
(* src/src/compiler/msvc.rs.                                               *)
(*                                                                         *)
(* The pool writes test.c ("#include <stdio.h>"), the compiler runs on it  *)
(* with -showIncludes and its stdout captured, and the closure after the   *)
(* run checks the status, decodes stdout and scans it for the prefix.      *)
(*                                                                         *)
(* Data abstraction: a line of text is the sequence of its words, the line *)
(* split at every ' ' (so n words stand for n - 1 spaces, and "" is an     *)
(* empty word between two adjacent spaces).  "Everything up to and         *)
(* including the k-th space" is then the first k words, and "the rest      *)
(* after it" the remaining ones.  Which rests are paths that exist, seen   *)
(* from the server's cwd, is the constant set Exists.                      *)
(***************************************************************************)
EXTENDS Naturals, Sequences, SequencesExt, FiniteSetsExt

CONSTANTS
    Words,          \* the space-free pieces a line is made of ("" among them)
    StdioWords,     \* the words that end with "stdio.h"
    Exists,         \* word sequences s such that Path::new(s).exists()
    MaxWords,       \* the longest line considered, in words
    Outputs,        \* the stdouts the compiler run may print, as lines
    None            \* model value: no prefix found

ASSUME StdioWords \subseteq Words /\ MaxWords \in Nat \ {0}

\* A line of stdout.lines(): at least one (possibly empty) word.
Line == BoundedSeq(Words, MaxWords) \ {<<>>}

\* line.ends_with("stdio.h")
EndsWithStdio(line) == Last(line) \in StdioWords

\* line[..i+1] and line[i+1..] for the i of the k-th space.
UpTo(line, k)     == SubSeq(line, 1, k)
RestAfter(line, k) == SubSeq(line, k + 1, Len(line))

(***************************************************************************)
(* The scan of the closure: for (i, c) in line.char_indices().rev(), at   *)
(* each ' ' whose rest exists return the prefix; lines in order.          *)
(***************************************************************************)
\* Variant with a bug: line[i..] instead of line[i+1..], keeping the space.
RECURSIVE ScanKeepsSpace(_, _)
ScanKeepsSpace(line, k) ==
    IF k = 0 THEN None
    ELSE IF <<"">> \o RestAfter(line, k) \in Exists THEN UpTo(line, k)
    ELSE ScanKeepsSpace(line, k - 1)

\* The inner loop, from the k-th space leftwards.
RECURSIVE ScanRev(_, _)
ScanRev(line, k) ==
    IF k = 0 THEN None
    ELSE IF RestAfter(line, k) \in Exists THEN UpTo(line, k)
    ELSE ScanRev(line, k - 1)

\* The outer loop: the first line ending with stdio.h that yields a prefix.
RECURSIVE FirstPrefix(_)
FirstPrefix(lines) ==
    IF lines = <<>> THEN None
    ELSE LET line  == Head(lines)
             found == IF EndsWithStdio(line) THEN ScanRev(line, Len(line) - 1)
                      ELSE None
         IN  IF found # None THEN found ELSE FirstPrefix(Tail(lines))

Err == [kind |-> "error"]

VARIABLES
    pc,         \* where the future is
    status,     \* the exit status of the compiler run, or None
    stdout,     \* its stdout, as lines
    decoded,    \* from_local_codepage(&stdout_bytes) succeeded
    result      \* what the future resolved to, or None

vars == <<pc, status, stdout, decoded, result>>

Init ==
    /\ pc = "write"
    /\ status = None /\ stdout = <<>> /\ decoded = FALSE
    /\ result = None

Resolve(r) == pc' = "done" /\ result' = r

\* write_temp_file(pool, "test.c", ...) completes, or fails with Err.
WriteTestFile ==
    /\ pc = "write" /\ pc' = "run"
    /\ UNCHANGED <<status, stdout, decoded, result>>

WriteTestFileFails ==
    /\ pc = "write" /\ Resolve(Err)
    /\ UNCHANGED <<status, stdout, decoded>>

\* run_input_output: cl -nologo -showIncludes -c -Fonul test.c exits with
\* some status and stdout; its map drops the temp dir.
RunCompiler ==
    /\ pc = "run"
    /\ \E st \in {"success", "failure"}, out \in Outputs :
          status' = st /\ stdout' = out
    /\ pc' = "check"
    /\ UNCHANGED <<decoded, result>>

SpawnFails ==
    /\ pc = "run" /\ Resolve(Err)
    /\ UNCHANGED <<status, stdout, decoded>>

\* if !output.status.success() { bail!(...) }
CheckStatus ==
    /\ pc = "check"
    /\ IF status = "success" THEN pc' = "decode" /\ UNCHANGED result
       ELSE Resolve(Err)
    /\ UNCHANGED <<status, stdout, decoded>>

\* Variant with a bug: no bail! after the loop, the Option is unwrapped.
DecodeNoBail ==
    /\ pc = "decode"
    /\ decoded' = TRUE
    /\ Resolve([kind |-> "ok", prefix |-> FirstPrefix(stdout)])
    /\ UNCHANGED <<status, stdout>>

\* try!(from_local_codepage(&stdout_bytes)), then the scan of the lines:
\* Ok(prefix), or bail! when no line yields one.
Decode ==
    /\ pc = "decode"
    /\ decoded' = TRUE
    /\ LET p == FirstPrefix(stdout)
       IN  Resolve(IF p = None THEN Err ELSE [kind |-> "ok", prefix |-> p])
    /\ UNCHANGED <<status, stdout>>

DecodeFails ==
    /\ pc = "decode" /\ Resolve(Err)
    /\ UNCHANGED <<status, stdout, decoded>>

Done ==
    /\ pc = "done"
    /\ UNCHANGED vars

Next ==
    \/ WriteTestFile \/ WriteTestFileFails
    \/ RunCompiler \/ SpawnFails
    \/ CheckStatus
    \/ Decode \/ DecodeFails
    \/ Done

Spec == Init /\ [][Next]_vars

(***************************************************************************)
(* Properties                                                              *)
(***************************************************************************)
TypeOK ==
    /\ pc \in {"write", "run", "check", "decode", "done"}
    /\ status \in {None, "success", "failure"}
    /\ stdout \in Seq(Line)
    /\ decoded \in BOOLEAN
    /\ result \in {None, Err} \cup [kind : {"ok"}, prefix : Seq(Words)]

\* The spaces of a line after which the rest is a path that exists.
Splits(line) == {k \in 1 .. Len(line) - 1 : RestAfter(line, k) \in Exists}

\* spec.md 4.2, stated over the whole output at once: the detector
\* succeeds exactly when the run succeeded, stdout decoded, and some line
\* ending with the header name has a space after which the rest exists;
\* the prefix is then that line up to its rightmost such space, on the
\* first such line.  This checks the two nested loops, the reversed
\* character scan and the i / i+1 boundaries of the code.
DetectMatchesContract ==
    decoded =>
        LET cands == {n \in DOMAIN stdout :
                        EndsWithStdio(stdout[n]) /\ Splits(stdout[n]) # {}}
            first == stdout[Min(cands)]
        IN  /\ status = "success"
            /\ result = IF cands = {} THEN Err
                        ELSE [kind |-> "ok", prefix |-> UpTo(first, Max(Splits(first)))]

=============================================================================
