---------------------------- MODULE MsvcPreprocess ----------------------------
(***************************************************************************)
(* The Preprocessor Runner: preprocess in src/src/compiler/msvc.rs.        *)
(*                                                                         *)
(* The compiler runs with -E (and -showIncludes when a depfile was asked   *)
(* for); when ParsedArguments has both an "obj" output and a depfile, the  *)
(* closure after the run writes the depfile while it splits stderr into    *)
(* include notes and genuine diagnostics.  Every `?` in that closure is an *)
(* I/O step that may fail and return Err, leaving the file as it is.       *)
(*                                                                         *)
(* Data abstraction: a stderr line is either an include note, "prefix"     *)
(* followed by a path spelling (its indentation already trimmed), or a     *)
(* diagnostic.  normpath maps spellings to canonical paths; canonical      *)
(* paths are the numbers 1..N in the byte order of their strings, so the   *)
(* code's sort is the order on numbers.  Spacey holds those containing a   *)
(* space.  The depfile is the sequence of pieces written to it.            *)
(***************************************************************************)
EXTENDS Naturals, Sequences, FiniteSets, SequencesExt, Functions

CONSTANTS
    Spellings,      \* path spellings that may follow the prefix
    Norm,           \* Norm[s]: normpath(s), a canonical path in 1..N
    Spacey,         \* canonical paths that contain a space
    MaxLines,       \* the longest stderr considered
    None            \* model value: nothing yet

ASSUME Norm \in [Spellings -> Nat \ {0}] /\ Spacey \subseteq Range(Norm)

Diagnostic == [inc |-> FALSE]
IncludeLine == [inc : {TRUE}, path : Spellings]
Line == IncludeLine \cup {Diagnostic}

\* Pieces of the depfile text:  "<obj>: <input> " / "<dep> " / "\n" /
\* "<input>:\n" / "<dep>:\n"; a depfile left from an earlier build is Stale.
Header       == [k |-> "header", p |-> 0]
Eol          == [k |-> "eol", p |-> 0]
InputRule    == [k |-> "inputRule", p |-> 0]
Stale        == [k |-> "stale", p |-> 0]
RuleDep(p)   == [k |-> "dep", p |-> p]
EmptyRule(p) == [k |-> "rule", p |-> p]

VARIABLES
    wantsDepfile,   \* parsed_args.depfile.is_some() (obj is always present)
    pc,             \* where preprocess is
    status,         \* the exit status of the -E run: "success" or "failure"
    stderr,         \* its stderr, decoded, as lines
    i,              \* the next stderr line the loop reads
    deps,           \* the HashSet of normalized include paths
    retained,       \* the diagnostics kept for the returned stderr
    sorted,         \* the deps the trailing loop has yet to write, in order
    depfile,        \* the pieces written to the depfile, or None if absent
    result          \* None, or what the future resolves to: Err or Ok(Output)

vars == <<wantsDepfile, pc, status, stderr, i, deps, retained, sorted,
          depfile, result>>

Init ==
    /\ wantsDepfile \in BOOLEAN
    /\ pc = "run"
    /\ status = None /\ stderr = <<>> /\ i = 1
    /\ deps = {} /\ retained = <<>> /\ sorted = <<>>
    /\ depfile \in {None, <<Stale>>}
    /\ result = None

Goto(l) == pc' = l
Fail == pc' = "done" /\ result' = [kind |-> "error"]

\* run_input_output: the -E run exits with some status and stderr; without
\* a depfile the output is returned as it is.
RunPreprocessor ==
    /\ pc = "run"
    /\ \E st \in {"success", "failure"}, err \in BoundedSeq(Line, MaxLines) :
         /\ status' = st /\ stderr' = err
         /\ IF wantsDepfile THEN Goto("create") /\ UNCHANGED result
            ELSE pc' = "done" /\ result' = [kind |-> "ok", status |-> st, stderr |-> err]
    /\ UNCHANGED <<wantsDepfile, i, deps, retained, sorted, depfile>>

SpawnFails ==
    /\ pc = "run"
    /\ Fail
    /\ UNCHANGED <<wantsDepfile, status, stderr, i, deps, retained, sorted, depfile>>

\* File::create truncates (or creates) the depfile, then write! the header.
CreateDepfile ==
    /\ pc = "create"
    /\ depfile' = <<>>
    /\ Goto("header")
    /\ UNCHANGED <<wantsDepfile, status, stderr, i, deps, retained, sorted, result>>

WriteHeader ==
    /\ pc = "header"
    /\ depfile' = Append(depfile, Header)
    /\ Goto("decode")
    /\ UNCHANGED <<wantsDepfile, status, stderr, i, deps, retained, sorted, result>>

\* from_local_codepage(&stderr_bytes)? succeeded: start the line loop.
Decode ==
    /\ pc = "decode"
    /\ Goto("lines")
    /\ UNCHANGED <<wantsDepfile, status, stderr, i, deps, retained, sorted, depfile, result>>

\* Variant with a bug: the path is used as spelled, without normpath.
IncludeNoteUnnormalized ==
    LET dep == stderr[i].path
    IN  /\ pc = "lines" /\ i <= Len(stderr) /\ stderr[i].inc
        /\ deps' = deps \cup {dep}
        /\ depfile' = IF dep \notin deps /\ dep \notin Spacey
                      THEN Append(depfile, RuleDep(dep)) ELSE depfile
        /\ i' = i + 1
        /\ UNCHANGED <<wantsDepfile, pc, status, stderr, retained, sorted, result>>

\* A line with the prefix: deps.insert(dep) && !dep.contains(' ') writes it.
IncludeNote ==
    LET dep == Norm[stderr[i].path]
    IN  /\ pc = "lines" /\ i <= Len(stderr) /\ stderr[i].inc
        /\ deps' = deps \cup {dep}
        /\ depfile' = IF dep \notin deps /\ dep \notin Spacey
                      THEN Append(depfile, RuleDep(dep)) ELSE depfile
        /\ i' = i + 1
        /\ UNCHANGED <<wantsDepfile, pc, status, stderr, retained, sorted, result>>

\* Any other line is kept as a genuine diagnostic.
DiagnosticLine ==
    /\ pc = "lines" /\ i <= Len(stderr) /\ ~stderr[i].inc
    /\ retained' = Append(retained, stderr[i])
    /\ i' = i + 1
    /\ UNCHANGED <<wantsDepfile, pc, status, stderr, deps, sorted, depfile, result>>

\* writeln!(f, ""), then writeln!(f, "{}:", input), then sort the deps.
EndRuleLine ==
    /\ pc = "lines" /\ i > Len(stderr)
    /\ depfile' = Append(depfile, Eol)
    /\ Goto("inputRule")
    /\ UNCHANGED <<wantsDepfile, status, stderr, i, deps, retained, sorted, result>>

WriteInputRule ==
    /\ pc = "inputRule"
    /\ depfile' = Append(depfile, InputRule)
    /\ sorted' = SetToSortSeq(deps, <)
    /\ Goto("sorted")
    /\ UNCHANGED <<wantsDepfile, status, stderr, i, deps, retained, result>>

\* Variant with a bug: the trailing loop writes paths with spaces too.
EmptyRuleForAll ==
    /\ pc = "sorted" /\ sorted # <<>>
    /\ depfile' = Append(depfile, EmptyRule(Head(sorted)))
    /\ sorted' = Tail(sorted)
    /\ UNCHANGED <<wantsDepfile, pc, status, stderr, i, deps, retained, result>>

\* for dep in sorted: if !dep.contains(' ') { writeln!(f, "{}:", dep)? }
EmptyRuleFor ==
    /\ pc = "sorted" /\ sorted # <<>>
    /\ depfile' = IF Head(sorted) \notin Spacey
                  THEN Append(depfile, EmptyRule(Head(sorted))) ELSE depfile
    /\ sorted' = Tail(sorted)
    /\ UNCHANGED <<wantsDepfile, pc, status, stderr, i, deps, retained, result>>

\* Variant with a bug: the output keeps its original stderr.
ReturnOutputUnfiltered ==
    /\ pc = "sorted" /\ sorted = <<>>
    /\ pc' = "done" /\ result' = [kind |-> "ok", status |-> status, stderr |-> stderr]
    /\ UNCHANGED <<wantsDepfile, status, stderr, i, deps, retained, sorted, depfile>>

\* Ok(process::Output { status, stdout, stderr: the kept lines })
ReturnOutput ==
    /\ pc = "sorted" /\ sorted = <<>>
    /\ pc' = "done" /\ result' = [kind |-> "ok", status |-> status, stderr |-> retained]
    /\ UNCHANGED <<wantsDepfile, status, stderr, i, deps, retained, sorted, depfile>>

\* The `?` of File::create, of each write!/writeln!, or of the decoding.
Writes ==
    \/ pc \in {"create", "header", "decode", "inputRule"}
    \/ pc = "lines" /\ i > Len(stderr)
    \/ pc = "sorted" /\ sorted # <<>> /\ Head(sorted) \notin Spacey
    \/ /\ pc = "lines" /\ i <= Len(stderr) /\ stderr[i].inc
       /\ Norm[stderr[i].path] \notin deps \cup Spacey
IoError ==
    /\ Writes
    /\ Fail
    /\ UNCHANGED <<wantsDepfile, status, stderr, i, deps, retained, sorted, depfile>>

Done ==
    /\ pc = "done"
    /\ UNCHANGED vars

Next ==
    \/ RunPreprocessor \/ SpawnFails
    \/ CreateDepfile \/ WriteHeader \/ Decode
    \/ IncludeNote \/ DiagnosticLine \/ EndRuleLine
    \/ WriteInputRule \/ EmptyRuleFor \/ ReturnOutput
    \/ IoError
    \/ Done

Spec == Init /\ [][Next]_vars

(***************************************************************************)
(* Properties                                                              *)
(***************************************************************************)
Piece == {Header, Eol, InputRule, Stale} \cup
         {RuleDep(p) : p \in Range(Norm)} \cup {EmptyRule(p) : p \in Range(Norm)}

TypeOK ==
    /\ wantsDepfile \in BOOLEAN
    /\ pc \in {"run", "create", "header", "decode", "lines", "inputRule", "sorted", "done"}
    /\ status \in {None, "success", "failure"}
    /\ stderr \in BoundedSeq(Line, MaxLines)
    /\ deps \subseteq Range(Norm)
    /\ retained \in Seq(Line)
    /\ depfile = None \/ depfile \in Seq(Piece)
    /\ result = None \/ result.kind \in {"ok", "error"}

Returned == result # None /\ result.kind = "ok"

\* The distinct space-free canonical paths of the include notes.
Listed == {Norm[stderr[k].path] : k \in {k \in DOMAIN stderr : stderr[k].inc}} \ Spacey

\* spec.md 4.3 and 6: a returned depfile is "<obj>: <input> <dep>...\n",
\* "<input>:\n", then "<dep>:\n" for each dep in sorted order.  Each
\* distinct normalized include path without a space is on the rule line
\* once and has one empty rule; paths with a space appear nowhere.
DepfileMatchesIncludes ==
    (Returned /\ wantsDepfile) =>
        \E k \in DOMAIN depfile :
            LET line  == SubSeq(depfile, 2, k - 1)
                rules == SubSeq(depfile, k + 2, Len(depfile))
            IN  /\ depfile[1] = Header /\ depfile[k] = Eol
                /\ k < Len(depfile) /\ depfile[k + 1] = InputRule
                /\ IsInjective(line)
                /\ Range(line) = {RuleDep(p) : p \in Listed}
                /\ rules = [n \in 1 .. Cardinality(Listed) |->
                              EmptyRule(SetToSortSeq(Listed, <)[n])]

\* spec.md 4.3 step 6: the returned stderr is exactly the lines that are
\* not include notes, in their order; without a depfile it is untouched.
DiagnosticsKept ==
    Returned =>
        result.stderr = IF wantsDepfile
                        THEN SelectSeq(stderr, LAMBDA l : ~l.inc)
                        ELSE stderr

=============================================================================
