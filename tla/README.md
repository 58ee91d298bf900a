# TLA+ models of the MSVC compiler backend (`src/src/compiler/msvc.rs`)

This directory checks the MSVC backend of sccache with TLC. The backend is one
Rust file. Its functions are `parse_arguments`, `detect_showincludes_prefix`,
`preprocess` and `compile`. The prose spec is `spec.md`.

## 1. Inventory

| Component | Code | State it keeps | Operations |
|---|---|---|---|
| Argument Classifier | `parse_arguments` (103–208) | Locals of one scan: `output_arg`, `input_arg`, `common_args`, `compilation`, `debug_info`, `pdb`, `depfile`, and the iterator | One match arm per token, with early `CannotCache` returns. Then the post-scan checks, in order. |
| Include-Prefix Detector | `detect_showincludes_prefix` (47–101) | A temp dir holding `test.c`, the compiler's stdout | Write the temp file on the pool, run `cl -showIncludes -c`, decode stdout. Then scan each line ending in `stdio.h` right to left for a space after which the rest is an existing path. |
| Preprocessor Runner | `preprocess` (251–315) | The depfile on disk, the `deps` HashSet, the kept stderr lines | Run `-E` (plus `-showIncludes` when a depfile is asked for). Then, when there is a depfile: create it, write the header, decode stderr, and sort each line into a dep or a kept diagnostic. Finish with `\n`, `input:`, and one empty rule per sorted dep. Every write can fail. |
| Compile Executor | `compile` (317–391) | `cacheable` (a snapshot), the temp dir, the shared working directory (PDB files) | Look up "obj", check whether the PDB exists, look up the file name, write the temp file on the pool. Run the compiler on the temp file. If that run fails, run it once more on the original source. |
| Path normalization | `normpath` (210–249) | The open file's handle, the size from the first API call, the zeroed buffer | Windows: open the file, call `GetFinalPathNameByHandleW` for the size, then to fill a zeroed buffer, cut `\\?\` and the last wide char, convert, and turn `\` into `/`. Any failure falls back to the spelling with `/`. Other platforms: the identity. |
| Code-page decoding | `from_local_codepage` (43–45) | none | Converts bytes to text. It may fail. |

How they interact. The caller runs them in a fixed order: the classifier, then
the detector (once per compiler, cached by the caller), then `preprocess`,
then `compile`. Each stage is a future. A failed stage short-circuits the
later ones. Compiler runs go through `CommandCreatorSync`. Temp-file writes go
to a `CpuPool`. No state is shared between invocations except two things: the
file system of the working directory (object files, PDBs, depfiles) and the
caller's prefix cache. The sccache server runs many invocations at once, so
two compiles can interleave on the same PDB or depfile path.

What is hard to get right:
- **Rule precedence and lookahead in the scan.** The first match wins. `-FI`
  consumes the next token, whatever it is. Early returns can come before the
  `-c` check. Prefix matches (`-Fo`, `-Fd`, `-deps`) compete with exact
  matches (`-FA`, `-Fa`, …).
- **Concurrency on the file system.** `cacheable` is a snapshot of "the PDB
  exists", taken before this job and others compile into the same cwd.
- **Partial failure.** Each `?` in the depfile closure can fail after earlier
  writes are already done. The primary compile run can fail and hand over to
  the fallback. A spawn error goes straight to the caller.
- **Depfile synthesis.** Two loops must agree: the rule line and the sorted
  empty rules. Both must deduplicate on normalized paths and drop paths with
  a space. Diagnostics must survive, in order.

Properties that make each component correct:
- Classifier: the verdict equals the whole-list rules of spec.md 4.1. No
  untracked-output flag is cached. The early `CannotCache` returns come
  before the `-c` check, as `MsvcClassify` states: `["-FA"]` is
  `CannotCache`, although spec.md 8 says a list without `-c` is
  `NotCompilation` "regardless of other content". `Refines` pins the
  code's order; there is no separate violation run for it.
- Detector: the returned prefix, followed by an existing path, is the line.
  It is the rightmost such split. Applied to the `-E` output, it recognises
  the include notes.
- Preprocessor: a returned depfile lists each distinct space-free header once
  on the rule line, plus its empty rules in sorted order. The returned stderr
  is exactly the diagnostics. (spec.md 4.3 step 1 adds that a failed `-E`
  run fails preprocess; the code does not check, see section 5.)
- Compile: `Yes` never comes with a PDB that another compile wrote (it
  does when two compiles share a PDB path). The fallback runs exactly when
  the primary run failed, and the Ok output is the last run's.
- Shared depfile: a preprocess that returned Ok keeps its complete depfile
  (it does not when an identical compile runs at the same time and fails).

## 2. Plan

Modules, in priority order.

1. `MsvcArgTokens` (tokens and match arms), `MsvcClassify` (the abstract
   classifier), `MsvcArgs` (the scan), `MC_MsvcArgs`. **Done.**
2. `MsvcCompile`: concurrent compile jobs sharing PDB files. **Done.**
3. `MsvcPreprocess`: the depfile synthesis with I/O errors. **Done.**
4. `MsvcShowIncludes`: the detector. **Done.** Also done:
   `MsvcArgsTests`, which replays the unit tests of
   `parse_arguments`, and `MsvcDepfileShared`, for concurrent writers of one
   depfile.
5. `MsvcPipeline` (**partly done**: detection, the cache, and preprocess's
   line classification): composes 1–4 for several jobs. It adds the caller's
   prefix cache (spec_modelled: the caller is not in `src/`), shared
   depfile/PDB paths, and concurrent first use of the cache. The properties:
   a depfile written for a job lists that job's headers; the detected prefix
   recognises the include notes.
6. Liveness of `MsvcCompile`: **not checked**. The only way a compile
   fails to resolve is a compiler that never exits (the code has no
   timeout), and a fairness assumption would have to rule out exactly
   that; see Fairness in section 4. A
   refinement of `MsvcCompile` against an abstract "one compile returns one
   output and a tag fixed at the start" spec is not written. Such a spec
   would say no more than `FallbackOnlyAfterFailure` and `PdbNotShared`
   already check on the detailed spec. Refinement is checked where it
   says more: the scan of `MsvcArgs` against the whole-list rules of
   `MsvcClassify`.
7. `MsvcNormpath`: `normpath` step by step, with renames of the open
   file by other processes, and files on shares (UNC paths). **Done.**
8. The compile unit tests: **not modelled**. They assert the `Cacheable`
   of the PDB check and the run sequence that `FallbackOnlyAfterFailure`
   already states for every job, so a replay checks nothing new.

## 3. Modules and how they correspond to the code

### `MsvcArgTokens`
A token is the record `[pre, val]`, standing for the string `pre \o val`.
`pre` is the code pattern the token is built on (`"-Fo"`, `"-FA"`, `"@"`,
`"-"`, or `""` for a plain word). The values in `Vals` never begin with the
letters of another pattern. So `arg.starts_with(p)` is `pre = p`, and
`arg == p` is `pre = p /\ val = ""`. `RuleOf(t)` is the match, arm by arm,
in code order. `Extension` is `Path::extension`, given per word by the
constant `Ext`.

### `MsvcClassify` (the abstract classifier)
This module classifies the whole list in one step, `Decide`, with the rules
of spec.md 4.1 stated over positions:
- positions consumed by `-FI` are skipped;
- any rejected flag, or a second input, gives `CannotCache`;
- then come the checks for `-c`, input/extension, `-Fo`, and `-Zi`/`-Fd`;
- on success it uses the last `-Fo`/`-Fd`/`-deps`, and keeps the
  pass-through tokens in order.

### `MsvcArgs`
- Variables: the locals of `parse_arguments`, plus `pos` (the iterator) and
  `result`.
- Actions: one per arm (`ArgCompile` … `ArgOther`, `ArgInput`,
  `ArgSecondInput`), then `Finish`. `Finish` applies the post-scan early
  returns (`Verdict`).
- `Refines` instantiates `MsvcClassify` with
  `verdict <- IF result = None THEN Pending ELSE result` and checks its
  `Spec` as a temporal property.

### `MsvcArgsTests`
- `UnitTests` maps the argument list of each `test_parse_arguments_*` test
  to the result the test asserts.
- For an Ok result, `Agrees` compares the fields the test checks: input,
  extension, the whole outputs map, the empty preprocessor_args, and
  common_args. The tests do not check depfile.
- `MC_MsvcArgs` adds these lists to the bounded lists of `args_classify`.

### `MsvcShowIncludes`
- Data abstraction: a line is the sequence of its words, the line split at
  every space. `""` is the empty word between two adjacent spaces. "Up to
  and including the k-th space" is the first k words (`UpTo`), and "the
  rest after it" is the remaining words (`RestAfter`).
- Constants: `Exists` is the set of word sequences for which
  `Path::new(..).exists()` holds, seen from the server's cwd. `StdioWords`
  are the words ending in `stdio.h`. `Outputs` are the stdouts the compiler
  may print.
- Operators: `ScanRev` is the RECURSIVE inner loop over
  `char_indices().rev()`. `FirstPrefix` is the loop over the lines.
- Actions: `WriteTestFile`/`WriteTestFileFails` (the pool),
  `RunCompiler`/`SpawnFails`, `CheckStatus` (the `bail!` on an unsuccessful
  exit), and `Decode`/`DecodeFails`. `Decode` is the decoding plus both
  loops.

### `MsvcDepfileShared`
- Several identical `preprocess` calls name one depfile path. `Content` is
  the piece sequence that one complete synthesis writes; `MsvcPreprocess`
  is the module that derives it.
- `Create` is `File::create`. It truncates, and the job's handle starts at
  offset 0.
- `Write` puts the job's next piece at its own offset. Past the end of a
  file truncated by another job, the gap becomes `Hole`s.
- `Fails` is any `?` of the closure before the last write: the create, a
  write, or the decoding.
- `ReturnOk` is the closure returning `Ok(Output)` after its last write.

### `MsvcPipeline`
- Jobs of one compiler share the caller's prefix cache. The caller is not
  in `src/`, so `Lookup` is modelled from spec.md 2 and 5.
- On a miss, `Detect` takes the result `MsvcShowIncludes` computes, through
  `D!FirstPrefix` on the compiler's stdout, and stores it. `DetectFails`
  covers every way the detector fails.
- `Preprocess` generates the -E stderr by meaning: an include note of depth
  d, or a diagnostic. It renders each line as MSVC does (nested notes
  indented by one space per level). Then it applies lines 287–297:
  `StartsWithPrefix`, `IncludeDep`, with `Trim` as `str::trim`.

### `MsvcCompile`
- Constants: `Jobs` are concurrent `compile()` calls. They share the
  `PdbPaths` of one cwd.
- Variables: `parsed[j]` is the part of ParsedArguments that `compile` reads.
  `cacheable`, `runs`, and `result` are per job. `pdbWriters[p]` records
  who wrote the file `p`: `{}` if it does not exist, `Outside` for a file
  that was there before any job.
- Actions:
  - `Start` is the synchronous body, including the PDB snapshot
    `IsCacheable`. Its two early errors are separate actions.
  - `WriteTemp` and `WriteTempFails` are the pool write.
  - `Primary` and `PrimarySpawnFails` are the compiler run on the temp
    file.
  - `Fallback` and `FallbackSpawnFails` are the run on the original source.
- A run of a job with a PDB adds the job to that file's writers. With `-Zi
  -Fd`, MSVC creates the PDB or merges into it.
- `Return` records the PDB's writers at the moment the future resolves.
  That is when the caller stores the outputs. It also records `out`, the
  compiler run whose `process::Output` an Ok carries (`None` for an Err).

### `MsvcNormpath`
- A path is a sequence of characters. `final` is the path the opened file
  has now, written as the API writes it after `\\?\`. `Api(f)` adds that
  prefix. `NUL` is the wide char 0 and `Lone` a lone UTF-16 surrogate.
- `windows` is the build. `NormpathOther` is the non-Windows identity.
- Actions, in code order: `Open` (no file is the fallback), `QuerySize`
  and `QuerySizeFails` (the first call), `Fill` and `FillFails` (the second
  call into `vec![0; size]`, the `== 0` check, the slice `FinalName`,
  `into_string` and the replace). `Fallback` is `unwrap_or`.
- The second call follows the documented API. If the buffer holds the path
  and its NUL, it writes them and returns the length. Otherwise it returns
  the size it needs and leaves the buffer untouched.
- `Rename` is another process renaming the file; Rust's `File::open` shares
  delete access, so this works while the handle is open. `seen` and `moved`
  are history: the names the file had while open, and whether a rename fell
  between the two calls.
- `UserName` turns the API's form of a path on a share, `UNC\server\...`,
  into the name a user writes, `\\server\...`. The properties compare
  `normpath`'s result with the names, with `/`, the file had while open.

### `MsvcPreprocess`
- Data abstraction:
  - A stderr line is an include note (a path spelling) or a diagnostic.
  - `Norm` is `normpath`, mapping spellings to canonical paths. The paths are
    numbered in the byte order of their strings, so the code's `sort()` is
    `<`.
  - `Spacey` holds the paths that contain a space.
  - The depfile is the sequence of pieces written to it. A file left by an
    earlier build is `Stale`.
- Actions, one per step in code order: `RunPreprocessor`, `CreateDepfile`,
  `WriteHeader`, `Decode`, then the line loop (`IncludeNote`,
  `DiagnosticLine`), then `EndRuleLine`, `WriteInputRule` (which also sorts),
  `EmptyRuleFor`, and `ReturnOutput`.
- `IoError` is the `?` of any write, of `File::create`, or of the decoding.
  `Writes` says which steps write. `SpawnFails` is a failure of the `-E`
  run.

## 4. Runs

| Run | Expect | What it shows |
|---|---|---|
| `args_classify` | pass | `Refines` holds for every list of ≤4 tokens drawn from 13 tokens, one per arm, plus words with and without an extension and a bare `-`. It also covers the 12 unit-test lists. `UnitTestsAgree`: each of those lists gets what its test asserts. About 117k states. |
| `args_listing_flag` | violation | `NoUntrackedOutputs`: `a.c -Faa -c -Foa` is Ok with `-Faa` passed through. MSVC writes a listing named `a` that the cache never sees. |
| `compile_concurrent` | pass | Three jobs with distinct PDB paths, some PDBs pre-existing, any run or spawn failing. `FallbackOnlyAfterFailure`: the fallback runs once, exactly when the primary run failed; an Ok carries the last run's output (the mutant returns the primary's output from the fallback closure), an Err none. About 175k states. |
| `compile_shared_pdb` | violation | `PdbNotShared`: two jobs with one `-Fd` path both take the "absent" snapshot, both compile into it, and both are `Yes`. |
| `preprocess_depfile` | pass | Every stderr of ≤4 lines over 4 spellings (two of them one header, one path with a space) and a diagnostic. `DepfileMatchesIncludes` and `DiagnosticsKept` hold. |
| `detect_prefix` | pass | Every stdout of ≤2 lines of ≤3 words, over `Note:`, `""`, `C:\P` and `F\stdio.h`, where both the full path and its tail `F\stdio.h` exist. `DetectMatchesContract`: when stdout decoded, the run succeeded, and the result is the rightmost existing split of the first `stdio.h` line that has one, or `Err` if there is none. About 43k states. |
| `detect_relative_tail` | violation | `DetectsNotePrefix`: MSVC prints `test.c`, then `Note: C:\P F\stdio.h`. The tail `F\stdio.h` exists relative to the server's cwd, so the detector returns `Note: C:\P ` rather than `Note: `. |
| `depfile_shared` | violation | `OkDepfileIntact`: two identical `preprocess` calls on one depfile path. The first writes the whole depfile and returns Ok. The second's `File::create` then truncates it, and its first write fails (disk full, I/O error), so it returns Err. Both are done and the depfile of the Ok call is empty. |
| `pipeline_prefix` | pass | Two jobs sharing the cache. MSVC's three-word prefix, stdio.h under a directory with a space, notes nested to depth 3, and a diagnostic `Note: including` that stops short of the prefix. `NotesRecognised`: every note becomes a dep on exactly its path, and every other line is kept in order. Only full paths exist here; the relative-tail case is `detect_relative_tail`. |
| `normpath_canonical` | pass | Both builds; the file absent, at a short path, at a longer path, or at a name with a lone surrogate; up to two renames at any time. `NormpathCanonical`: unless a rename falls between the two API calls, the result is a name the file had, with `/`, or the spelling with `/`. |
| `normpath_rename` | violation | `NormpathNamesTheFile`: the file is renamed between the size query and the fill call. Renamed to a longer path (`C:\a` to `C:\x\a`), the fill returns the size it needs and writes nothing, and `normpath` returns four NULs. Renamed to a shorter one (`C:\x\a` to `C:\a`), the code still cuts at the first size and returns `C:/a` followed by two NULs. Both are in the run; TLC reports whichever it reaches first, which can vary with the number of workers. |
| `normpath_unc` | violation | `NormpathNamesTheFile`: the file `\\s\a` on a share. The API returns `\\?\UNC\s\a`, and cutting four characters leaves `UNC/s/a`, a relative path. The depfile then names a file that does not exist, and the header's changes never trigger a rebuild. |

Each property of a passing run has a mutant in `PROJECT.json`. The mutant is
an operator defined just before the action it replaces, marked "Variant with
a bug". TLC must find the property violated when that variant is used.

**Bounds.** Four tokens are enough to reach every pair of arms, including
`-FI` followed by any token, `-FI` last, and a repeated flag. With 13 tokens
that is already about 31k lists. The 12 unit-test lists (up to 5 tokens)
are added to these. Stdouts of two lines of three words fit these cases:
- a `stdio.h` line with no existing split, followed by one with a split;
- an existing tail and an existing full path on one line;
- empty words.

Two writers of four pieces allow a truncation between any two writes of
the other writer, or after it returned, with a failure anywhere. Three jobs and two PDB paths allow two jobs
to race while a third holds a pre-existing PDB. Four stderr lines fit a
duplicate, a second spelling, a path with a space and a diagnostic in one
run. Two finals of different lengths and one rename are enough for the
buffer to be too small or too large at the second call.

**Fairness.** No run states fairness, and no liveness property is
checked. Every step of the code happens once per job, so a liveness
property "every compile resolves" could fail only if some step were never
taken. The event loop polls every future that can progress and the
`CpuPool` runs every queued write, so the one such step is a compiler
process that never exits. The code has no timeout for it (spec.md 5 says
so), and weak fairness on the compiler runs would assume exactly the
hazard away. It is listed as a hazard without a property.

**Deadlock.**
- `MsvcCompile` and `MsvcPreprocess` end in an explicit stuttering step
  (`Finished`, `Done`), so TLC's deadlock check still catches a job stuck
  short of that.
- The `MsvcArgs` runs use `CHECK_DEADLOCK FALSE` because `parse_arguments`
  is a function that returns: its final state has no successor.

## 5. Not modelled
- Only part of the composition of the four stages (plan item 5) is
  modelled: `MsvcPipeline` joins detection and preprocess line
  classification through the cache. The classifier's and compile's hand-off
  is not composed, since they share no state beyond their arguments. The
  effect of a wrong prefix on the depfile follows from
  `detect_relative_tail`; it is not a run of its own.
- `test_detect_showincludes_prefix` has no property of its own. Its stdout
  is a word and an existing full path, `blah: <path>`, and it is among the
  stdouts `detect_prefix` enumerates (`Note: F\stdio.h`).
  `DetectMatchesContract` fixes its result.
- The code-page conversion. `from_local_codepage` is one call into the
  `local_encoding` crate, which is outside this repository. It is a decode
  step that may fail, and the lines are taken as decoded.
- A failed `-E` run with a depfile requested. spec.md 4.3 step 1 says
  preprocess then fails. The code never reads `output.status`: it truncates
  the depfile, rewrites it from the failed run's notes and returns Ok.
  `MsvcPreprocess` lets the run end with either status, so this is in its
  state space, but no run states the spec's rule; one mocked exit status
  in a unit test would show it.
- `MsvcPreprocess` takes `normpath` as the constant `Norm`. `MsvcNormpath`
  checks `normpath` itself, one call at a time.
- Formatting: the text of the depfile, the `trace!`/`debug!` logging, and
  the exact command lines. The model keeps which input each compiler run
  uses, and whether it writes the PDB.
- The object file written by two concurrent compiles to the same `-Fo`
  path. The code does nothing about it, and no stated property covers it.
