--------------------------- MODULE MsvcArgTokens ---------------------------
(***************************************************************************)
(* Command-line tokens as parse_arguments (src/src/compiler/msvc.rs) sees  *)
(* them, and the match arm each token selects.                             *)
(*                                                                         *)
(* A token is the string pre \o val, kept as the record [pre, val]: pre is *)
(* the pattern of the code the token is built on (or "" for a plain word), *)
(* val the rest of the string.  The values in Vals never begin with the    *)
(* letters of another pattern, so "arg starts with p" is exactly           *)
(* "pre = p", and "arg = p" is "pre = p /\ val = ''".                      *)
(***************************************************************************)
EXTENDS Sequences

CONSTANTS
    Vals,   \* the suffixes a token may carry ("" among them)
    Ext,    \* Ext[v]: Path::new(v).extension() of a plain word v, or None
    None    \* model value: an absent Option

ASSUME "" \in Vals /\ Ext \in [Vals -> STRING \cup {None}]

\* The literal patterns the match in parse_arguments tests, in code order.
MultiOutputFlags == {"-FA", "-Fa", "-Fe", "-Fm", "-Fp", "-FR", "-Fx"}
Pres == {"-c", "-Fo", "-FI", "-deps", "-showIncludes", "@", "-Zi", "-Fd",
         "-", ""} \cup MultiOutputFlags

Token == [pre : Pres, val : Vals]

Is(t, p)         == t.pre = p /\ t.val = ""     \* arg == p
StartsWith(t, p) == t.pre = p                   \* arg.starts_with(p)
\* v.starts_with('-') && v.len() > 1
IsOtherOption(t) == t.pre \notin {"", "@"} /\ ~Is(t, "-")

(***************************************************************************)
(* The arm of the match (first match wins) that token t selects.           *)
(***************************************************************************)
RuleOf(t) ==
    IF Is(t, "-c") THEN "compile"
    ELSE IF StartsWith(t, "-Fo") THEN "output"
    ELSE IF Is(t, "-FI") THEN "takesValue"
    ELSE IF StartsWith(t, "-deps") THEN "depfile"
    ELSE IF Is(t, "-showIncludes") THEN "cannotCache"
    ELSE IF StartsWith(t, "@") THEN "cannotCache"
    ELSE IF \E p \in MultiOutputFlags : Is(t, p) THEN "cannotCache"
    ELSE IF Is(t, "-Zi") THEN "debugInfo"
    ELSE IF StartsWith(t, "-Fd") THEN "pdb"
    ELSE IF IsOtherOption(t) THEN "other"
    ELSE "input"

\* Path::new(i).extension().and_then(|e| e.to_str()) of an input token:
\* "-" has no extension, a plain word the one Ext gives it.
Extension(t) == IF t.pre = "" THEN Ext[t.val] ELSE None

\* The verdicts of CompilerArguments.
NotCompilation == [kind |-> "NotCompilation"]
CannotCache    == [kind |-> "CannotCache"]
Pending        == [kind |-> "Pending"]    \* not yet returned
OkVerdict(input, ext, dep, outs, common) ==
    [kind |-> "Ok", input |-> input, extension |-> ext, depfile |-> dep,
     outputs |-> outs, preprocessor_args |-> <<>>, common_args |-> common]

=============================================================================
