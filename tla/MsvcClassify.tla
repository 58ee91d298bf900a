---------------------------- MODULE MsvcClassify ----------------------------
(***************************************************************************)
(* What the Argument Classifier promises (spec.md 4.1), stated over the    *)
(* whole argument list at once rather than as a left-to-right scan:        *)
(*   - a -FI token takes the next token as its value, so the positions the *)
(*     match actually sees are the others;                                 *)
(*   - any rejected flag, or a second input, among those positions gives   *)
(*     CannotCache, whatever else the list holds;                          *)
(*   - otherwise: no -c gives NotCompilation; no input, an input without   *)
(*     an extension, no -Fo, or -Zi without -Fd gives CannotCache;         *)
(*   - otherwise Ok, with the last -Fo, -Fd and -deps values, and the      *)
(*     pass-through flags and -FI values in their original order.          *)
(* The abstract machine classifies the list in one step.                   *)
(***************************************************************************)
EXTENDS MsvcArgTokens, Naturals, SequencesExt, FiniteSetsExt

VARIABLES args, verdict

\* Positions of s, from i on, that a -FI consumes as its value.
RECURSIVE ValuePositions(_, _)
ValuePositions(s, i) ==
    IF i > Len(s) THEN {}
    ELSE IF RuleOf(s[i]) = "takesValue" /\ i < Len(s)
         THEN {i + 1} \cup ValuePositions(s, i + 2)
         ELSE ValuePositions(s, i + 1)

Matched(s) == (1 .. Len(s)) \ ValuePositions(s, 1)
At(s, r)   == {i \in Matched(s) : RuleOf(s[i]) = r}
LastVal(s, r) == s[Max(At(s, r))].val

Classify(s) ==
    LET inputs == At(s, "input")
        input  == s[Min(inputs)]
        extra  == IF inputs = {} THEN {} ELSE inputs \ {Min(inputs)}
        kept   == SetToSortSeq(ValuePositions(s, 1) \cup
                               UNION {At(s, r) : r \in {"takesValue", "debugInfo", "pdb", "other"}}, <)
        common == [k \in DOMAIN kept |-> s[kept[k]]]
        dep    == IF At(s, "depfile") = {} THEN None ELSE LastVal(s, "depfile")
        debug  == At(s, "debugInfo") # {}
        outs   == ("obj" :> LastVal(s, "output")) @@
                  (IF debug THEN "pdb" :> LastVal(s, "pdb") ELSE <<>>)
    IN  IF At(s, "cannotCache") \cup extra # {} THEN CannotCache
        ELSE IF At(s, "compile") = {} THEN NotCompilation
        ELSE IF inputs = {} \/ Extension(input) = None THEN CannotCache
        ELSE IF At(s, "output") = {} THEN CannotCache
        ELSE IF debug /\ At(s, "pdb") = {} THEN CannotCache
        ELSE OkVerdict(input, Extension(input), dep, outs, common)

Init == verdict = Pending

Decide ==
    /\ verdict = Pending
    /\ verdict' = Classify(args)
    /\ UNCHANGED args

Spec == Init /\ [][Decide]_<<args, verdict>>

=============================================================================
