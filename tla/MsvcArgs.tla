------------------------------ MODULE MsvcArgs ------------------------------
(***************************************************************************)
(* The Argument Classifier: parse_arguments in src/src/compiler/msvc.rs.   *)
(*                                                                         *)
(* One action per arm of the match in the scan loop, each consuming the    *)
(* token at pos (and -FI its value), then one action for the post-scan     *)
(* checks.  An arm that returns CannotCache ends the function at once.     *)
(* result is None while the function runs and its return value after.      *)
(***************************************************************************)
EXTENDS MsvcArgTokens, Naturals, SequencesExt

CONSTANT
    Lists       \* the argument lists parse_arguments is called with

ASSUME Lists \subseteq Seq(Token)

VARIABLES
    args,           \* arguments: the input list, never modified
    pos,            \* index of the next token it.next() returns
    output_arg,     \* the -Fo value, or None
    input_arg,      \* the input token, or None
    common_args,    \* pass-through arguments, in order
    compilation,    \* -c was seen
    debug_info,     \* -Zi was seen
    pdb,            \* the -Fd value, or None
    depfile,        \* the -deps value, or None
    result          \* the CompilerArguments returned, or None

vars == <<args, pos, output_arg, input_arg, common_args, compilation,
          debug_info, pdb, depfile, result>>
scan == <<output_arg, input_arg, common_args, compilation, debug_info, pdb,
          depfile>>

Init ==
    /\ args \in Lists
    /\ pos = 1
    /\ output_arg = None /\ input_arg = None /\ pdb = None /\ depfile = None
    /\ common_args = <<>>
    /\ compilation = FALSE /\ debug_info = FALSE
    /\ result = None

\* The loop body runs on args[pos] with the arm `rule`.
Arm(rule) ==
    /\ result = None
    /\ pos <= Len(args)
    /\ RuleOf(args[pos]) = rule

Push(toks) == common_args' = common_args \o toks

\* "-c" => compilation = true
ArgCompile ==
    /\ Arm("compile")
    /\ compilation' = TRUE /\ pos' = pos + 1
    /\ UNCHANGED <<output_arg, input_arg, common_args, debug_info, pdb, depfile, args, result>>

\* v.starts_with("-Fo"): output_arg = Some(v[3..]); a later one overwrites.
ArgOutput ==
    /\ Arm("output")
    /\ output_arg' = args[pos].val /\ pos' = pos + 1
    /\ UNCHANGED <<input_arg, common_args, compilation, debug_info, pdb, depfile, args, result>>

\* Variant with a bug: -FI always skips a value, even when it is last.
ArgTakesValueSkipsTwo ==
    LET taken == SubSeq(args, pos, IF pos < Len(args) THEN pos + 1 ELSE pos)
    IN  /\ Arm("takesValue")
        /\ Push(taken) /\ pos' = pos + 2
        /\ UNCHANGED <<output_arg, input_arg, compilation, debug_info, pdb, depfile, args, result>>

\* "-FI": push it, and the next token too if there is one.
ArgTakesValue ==
    LET taken == SubSeq(args, pos, IF pos < Len(args) THEN pos + 1 ELSE pos)
    IN  /\ Arm("takesValue")
        /\ Push(taken) /\ pos' = pos + Len(taken)
        /\ UNCHANGED <<output_arg, input_arg, compilation, debug_info, pdb, depfile, args, result>>

\* v.starts_with("-deps"): depfile = Some(v[5..])
ArgDepfile ==
    /\ Arm("depfile")
    /\ depfile' = args[pos].val /\ pos' = pos + 1
    /\ UNCHANGED <<output_arg, input_arg, common_args, compilation, debug_info, pdb, args, result>>

\* "-showIncludes", "@...", and the multi-output flags return CannotCache.
ArgCannotCache ==
    /\ Arm("cannotCache")
    /\ result' = CannotCache
    /\ UNCHANGED <<args, pos>> /\ UNCHANGED scan

\* "-Zi": debug_info = true, and it is passed through.
ArgDebugInfo ==
    /\ Arm("debugInfo")
    /\ debug_info' = TRUE /\ Push(<<args[pos]>>) /\ pos' = pos + 1
    /\ UNCHANGED <<output_arg, input_arg, compilation, pdb, depfile, args, result>>

\* v.starts_with("-Fd"): pdb = Some(v[3..]), and it is passed through.
ArgPdb ==
    /\ Arm("pdb")
    /\ pdb' = args[pos].val /\ Push(<<args[pos]>>) /\ pos' = pos + 1
    /\ UNCHANGED <<output_arg, input_arg, compilation, debug_info, depfile, args, result>>

\* Any other option is passed through unmodified.
ArgOther ==
    /\ Arm("other")
    /\ Push(<<args[pos]>>) /\ pos' = pos + 1
    /\ UNCHANGED <<output_arg, input_arg, compilation, debug_info, pdb, depfile, args, result>>

\* Anything else is the input file ...
ArgInput ==
    /\ Arm("input")
    /\ input_arg = None
    /\ input_arg' = args[pos] /\ pos' = pos + 1
    /\ UNCHANGED <<output_arg, common_args, compilation, debug_info, pdb, depfile, args, result>>

\* ... and a second one returns CannotCache.
ArgSecondInput ==
    /\ Arm("input")
    /\ input_arg # None
    /\ result' = CannotCache
    /\ UNCHANGED <<args, pos>> /\ UNCHANGED scan

(***************************************************************************)
(* After the loop: the early returns in code order, then Ok.               *)
(***************************************************************************)
\* Variant with a bug: -Fd becomes an output even without -Zi.
VerdictPdbWithoutZi ==
    IF ~compilation THEN NotCompilation
    ELSE IF input_arg = None \/ Extension(input_arg) = None THEN CannotCache
    ELSE IF output_arg = None THEN CannotCache
    ELSE IF debug_info /\ pdb = None THEN CannotCache
    ELSE OkVerdict(input_arg, Extension(input_arg), depfile,
                   ("obj" :> output_arg) @@
                   (IF pdb # None THEN "pdb" :> pdb ELSE <<>>),
                   common_args)

\* Variant with a bug: -Zi without -Fd is not rejected.
VerdictNoPdbCheck ==
    IF ~compilation THEN NotCompilation
    ELSE IF input_arg = None \/ Extension(input_arg) = None THEN CannotCache
    ELSE IF output_arg = None THEN CannotCache
    ELSE OkVerdict(input_arg, Extension(input_arg), depfile,
                   ("obj" :> output_arg) @@
                   (IF debug_info THEN "pdb" :> pdb ELSE <<>>),
                   common_args)

Verdict ==
    IF ~compilation THEN NotCompilation
    ELSE IF input_arg = None \/ Extension(input_arg) = None THEN CannotCache
    ELSE IF output_arg = None THEN CannotCache
    ELSE IF debug_info /\ pdb = None THEN CannotCache
    ELSE OkVerdict(input_arg, Extension(input_arg), depfile,
                   ("obj" :> output_arg) @@
                   (IF debug_info THEN "pdb" :> pdb ELSE <<>>),
                   common_args)

Finish ==
    /\ result = None
    /\ pos > Len(args)
    /\ result' = Verdict
    /\ UNCHANGED <<args, pos>> /\ UNCHANGED scan

Next ==
    \/ ArgCompile \/ ArgOutput \/ ArgTakesValue \/ ArgDepfile
    \/ ArgCannotCache \/ ArgDebugInfo \/ ArgPdb \/ ArgOther
    \/ ArgInput \/ ArgSecondInput
    \/ Finish

Spec == Init /\ [][Next]_vars

(***************************************************************************)
(* Properties                                                              *)
(***************************************************************************)
OptVal == Vals \cup {None}

TypeOK ==
    /\ args \in Lists
    /\ pos \in 1 .. Len(args) + 1
    /\ output_arg \in OptVal /\ pdb \in OptVal /\ depfile \in OptVal
    /\ input_arg \in Token \cup {None}
    /\ common_args \in Seq(Token)
    /\ compilation \in BOOLEAN /\ debug_info \in BOOLEAN
    /\ result = None \/ result.kind \in {"NotCompilation", "CannotCache", "Ok"}

\* The scan, with its early returns, -FI lookahead and overwriting of
\* repeated flags, returns exactly the verdict spec.md 4.1 states for the
\* whole list: parse_arguments refines MsvcClassify.
Abs == INSTANCE MsvcClassify WITH verdict <- IF result = None THEN Pending ELSE result
Refines == Abs!Spec

\* spec.md 4.1: a flag that makes the compiler write an output the cache
\* does not track (listing, map, browse, pch ... file) forces CannotCache.
\* MSVC takes the file name glued to the flag (-Fafoo.asm, -Fmfoo.map), and
\* the match arm compares the whole token with "-Fa", "-Fm", ...
NoUntrackedOutputs ==
    (result # None /\ result.kind = "Ok")
        => \A i \in DOMAIN args : args[i].pre \notin MultiOutputFlags

=============================================================================
