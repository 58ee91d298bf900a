----------------------------- MODULE MsvcCompile -----------------------------
(***************************************************************************)
(* The Compile Executor: compile in src/src/compiler/msvc.rs, run by       *)
(* several concurrent jobs (one per compile request the server is serving) *)
(* that share the working directory, so the PDB files in it.               *)
(*                                                                         *)
(* A job goes through the code's steps in order:                           *)
(*   Start      the synchronous body of compile(): the "obj" lookup, the   *)
(*              PDB existence check that fixes `cacheable`, the file-name  *)
(*              lookup, and the temporary-file write handed to the pool;   *)
(*   WriteTemp  the pool writes the preprocessed source to a temp dir;     *)
(*   Primary    the compiler runs on the temporary file;                   *)
(*   Fallback   if it failed, the compiler runs on the original source.    *)
(* A compiler run with -Zi -Fd<pdb> writes the PDB (MSVC creates it, or    *)
(* adds to the one already there).  pdbWriters[p] is who wrote what file  *)
(* p now holds: {} when p does not exist, Outside for a file that was      *)
(* there before any job.                                                   *)
(***************************************************************************)
EXTENDS Naturals, Sequences, FiniteSets, SequencesExt

CONSTANTS
    Jobs,           \* concurrent compile() calls
    PdbPaths,       \* PDB paths (relative to the shared cwd)
    None,           \* model value: an absent Option
    Outside,        \* model value: a writer that is not one of Jobs
    SharePdbs       \* may two jobs name the same PDB path?

ASSUME SharePdbs \in BOOLEAN

VARIABLES
    parsed,         \* parsed[j]: what compile() reads of j's ParsedArguments
    pc,             \* pc[j]: where job j's future is
    cacheable,      \* cacheable[j]: "Yes", "No", or None before it is decided
    runs,           \* runs[j]: the compiler runs of j, in order
    result,         \* result[j]: what j's future resolved to, or None
    pdbWriters      \* pdbWriters[p]: who wrote the PDB file p now holds

vars == <<parsed, pc, cacheable, runs, result, pdbWriters>>

\* The parts of ParsedArguments compile() reads: whether outputs has "obj",
\* whether the input path has a file name, and outputs["pdb"] (or None).
Parsed == [hasObj : BOOLEAN, hasFileName : BOOLEAN, pdb : PdbPaths \cup {None}]

DistinctPdbs(p) ==
    \A j, k \in Jobs : j # k /\ p[j].pdb # None => p[j].pdb # p[k].pdb

Run == [input : {"temp", "source"}, success : BOOLEAN]

Init ==
    /\ parsed \in [Jobs -> Parsed]
    /\ SharePdbs \/ DistinctPdbs(parsed)
    /\ pc = [j \in Jobs |-> "start"]
    /\ cacheable = [j \in Jobs |-> None]
    /\ runs = [j \in Jobs |-> <<>>]
    /\ result = [j \in Jobs |-> None]
    /\ pdbWriters \in [PdbPaths -> {{}, {Outside}}]

\* The future of j resolves: Err (out is None), or Ok((cacheable, output))
\* with `out` the compiler run whose process::Output it carries.  The PDB
\* as it is at that instant is what the caller stores with the object.
Return(j, kind, fs, out) ==
    /\ pc' = [pc EXCEPT ![j] = "done"]
    /\ result' = [result EXCEPT ![j] =
                    [kind |-> kind, out |-> out,
                     pdb |-> IF parsed[j].pdb = None THEN {} ELSE fs[parsed[j].pdb]]]

\* The PDB files after a compiler run of j: with a PDB it writes into it.
WrittenBy(j) ==
    IF parsed[j].pdb = None THEN pdbWriters
    ELSE [pdbWriters EXCEPT ![parsed[j].pdb] = @ \cup {j}]

\* A compiler run of j on `input` that exits with success `ok`.
Compiles(j, input, ok) ==
    /\ runs' = [runs EXCEPT ![j] = Append(@, [input |-> input, success |-> ok])]
    /\ pdbWriters' = WrittenBy(j)

(***************************************************************************)
(* compile(): the body that runs before the returned future is polled.     *)
(***************************************************************************)
IsCacheable(j) ==
    IF parsed[j].pdb # None /\ pdbWriters[parsed[j].pdb] # {} THEN "No" ELSE "Yes"

StartMissingObj(j) ==
    /\ pc[j] = "start"
    /\ ~parsed[j].hasObj
    /\ Return(j, "error", pdbWriters, None)
    /\ UNCHANGED <<parsed, cacheable, runs, pdbWriters>>

StartMissingFileName(j) ==
    /\ pc[j] = "start"
    /\ parsed[j].hasObj /\ ~parsed[j].hasFileName
    /\ Return(j, "error", pdbWriters, None)
    /\ UNCHANGED <<parsed, cacheable, runs, pdbWriters>>

Start(j) ==
    /\ pc[j] = "start"
    /\ parsed[j].hasObj /\ parsed[j].hasFileName
    /\ cacheable' = [cacheable EXCEPT ![j] = IsCacheable(j)]
    /\ pc' = [pc EXCEPT ![j] = "writing"]
    /\ UNCHANGED <<parsed, runs, result, pdbWriters>>

(***************************************************************************)
(* write_temp_file on the pool, then the two compiler runs.                *)
(***************************************************************************)
WriteTemp(j) ==
    /\ pc[j] = "writing"
    /\ pc' = [pc EXCEPT ![j] = "primary"]
    /\ UNCHANGED <<parsed, cacheable, runs, result, pdbWriters>>

WriteTempFails(j) ==
    /\ pc[j] = "writing"
    /\ Return(j, "error", pdbWriters, None)
    /\ UNCHANGED <<parsed, cacheable, runs, pdbWriters>>

\* Variant with a bug: the fallback runs whatever the first run returned.
PrimaryAlwaysFallsBack(j) ==
    /\ pc[j] = "primary"
    /\ \E ok \in BOOLEAN :
         /\ Compiles(j, "temp", ok)
         /\ pc' = [pc EXCEPT ![j] = "fallback"]
         /\ UNCHANGED result
    /\ UNCHANGED <<parsed, cacheable>>

\* run_input_output on the temp file; its map drops the temp dir.  A
\* success resolves the future with this output.
Primary(j) ==
    /\ pc[j] = "primary"
    /\ \E ok \in BOOLEAN :
         /\ Compiles(j, "temp", ok)
         /\ IF ok THEN Return(j, "ok", WrittenBy(j), [input |-> "temp", success |-> TRUE])
            ELSE /\ pc' = [pc EXCEPT ![j] = "fallback"]
                 /\ UNCHANGED result
    /\ UNCHANGED <<parsed, cacheable>>

\* The compiler cannot be spawned: the error propagates, and dropping the
\* future drops the temp dir.
PrimarySpawnFails(j) ==
    /\ pc[j] = "primary"
    /\ Return(j, "error", pdbWriters, None)
    /\ UNCHANGED <<parsed, cacheable, runs, pdbWriters>>

\* Variant with a bug: a failed fallback is retried.
FallbackRetries(j) ==
    /\ pc[j] = "fallback"
    /\ \E ok \in BOOLEAN :
         /\ Compiles(j, "source", ok)
         /\ IF ok THEN Return(j, "ok", WrittenBy(j), [input |-> "source", success |-> TRUE])
            ELSE UNCHANGED <<pc, result>>
    /\ UNCHANGED <<parsed, cacheable>>

\* Variant with a bug: the closure returns the `output` of the primary run
\* it was given instead of the one run_input_output produced.
FallbackReturnsPrimary(j) ==
    /\ pc[j] = "fallback"
    /\ \E ok \in BOOLEAN : Compiles(j, "source", ok)
    /\ Return(j, "ok", WrittenBy(j), runs[j][1])
    /\ UNCHANGED <<parsed, cacheable>>

\* The primary run failed: run on the original input and return its
\* output, whatever its exit status.
Fallback(j) ==
    /\ pc[j] = "fallback"
    /\ \E ok \in BOOLEAN :
         /\ Compiles(j, "source", ok)
         /\ Return(j, "ok", WrittenBy(j), [input |-> "source", success |-> ok])
    /\ UNCHANGED <<parsed, cacheable>>

FallbackSpawnFails(j) ==
    /\ pc[j] = "fallback"
    /\ Return(j, "error", pdbWriters, None)
    /\ UNCHANGED <<parsed, cacheable, runs, pdbWriters>>

\* Every future has resolved: the server has nothing left of these jobs.
Finished ==
    /\ \A j \in Jobs : pc[j] = "done"
    /\ UNCHANGED vars

Next ==
    \/ Finished
    \/ \E j \in Jobs :
          \/ StartMissingObj(j) \/ StartMissingFileName(j) \/ Start(j)
          \/ WriteTemp(j) \/ WriteTempFails(j)
          \/ Primary(j) \/ PrimarySpawnFails(j)
          \/ Fallback(j) \/ FallbackSpawnFails(j)

Spec == Init /\ [][Next]_vars


(***************************************************************************)
(* Properties                                                              *)
(***************************************************************************)
Writer == Jobs \cup {Outside}

TypeOK ==
    /\ parsed \in [Jobs -> Parsed]
    /\ pc \in [Jobs -> {"start", "writing", "primary", "fallback", "done"}]
    /\ cacheable \in [Jobs -> {"Yes", "No", None}]
    /\ runs \in [Jobs -> BoundedSeq(Run, 2)]
    /\ result \in [Jobs -> {None} \cup [kind : {"ok", "error"}, out : Run \cup {None},
                                        pdb : SUBSET Writer]]
    /\ pdbWriters \in [PdbPaths -> SUBSET Writer]

\* compile(), comment at the PDB check: "If the PDB exists, we don't know
\* if it's shared with another compilation.  If it is, we can't cache."  A
\* compile that returns Cacheable::Yes with a PDB returns one that only its
\* own compiler runs wrote.
PdbNotShared ==
    \A j \in Jobs :
        (result[j] # None /\ result[j].kind = "ok" /\ cacheable[j] = "Yes")
            => result[j].pdb \subseteq {j}

\* compile(), comment at the second command: "have a fallback path that
\* compiles from the original input file"; spec.md 4.4 step 6 and 8: the
\* compiler first runs on the preprocessed temp file; exactly one more run,
\* on the original source, follows if and only if that one failed; the
\* Ok output is the last run's, and an Err carries none.  Nothing runs after
\* the future resolved.
FallbackOnlyAfterFailure ==
    \A j \in Jobs :
        /\ runs[j] \in {<<>>,
                        <<[input |-> "temp", success |-> TRUE]>>,
                        <<[input |-> "temp", success |-> FALSE]>>} \cup
                       {<<[input |-> "temp", success |-> FALSE],
                          [input |-> "source", success |-> b]>> : b \in BOOLEAN}
        /\ (pc[j] = "done" /\ result[j].kind = "ok")
               => /\ runs[j] # <<>>
                  /\ Len(runs[j]) = 2 <=> ~runs[j][1].success
                  /\ result[j].out = Last(runs[j])
        /\ (pc[j] = "done" /\ result[j].kind = "error") => result[j].out = None

=============================================================================
