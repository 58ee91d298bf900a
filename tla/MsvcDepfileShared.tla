--------------------------- MODULE MsvcDepfileShared ---------------------------
(***************************************************************************)
(* The depfile writes of preprocess (src/src/compiler/msvc.rs) when        *)
(* several jobs name the same -deps path in the same cwd: the same compile *)
(* requested twice at once.  Nothing locks the file.  File::create opens   *)
(* it with O_TRUNC, and each job's handle then writes at its own offset,   *)
(* so a truncation by one job leaves the other's later writes past the end *)
(* of the file, with a hole before them.                                   *)
(*                                                                         *)
(* Identical compiles write identical text: Content is the sequence of     *)
(* pieces one complete synthesis writes (the header, each dep, the end of  *)
(* the rule line, the input rule, the empty rules; MsvcPreprocess shows    *)
(* which).  Offsets are counted in pieces, exact here since every writer   *)
(* writes the same pieces in the same order.  Any create or write may fail *)
(* (the `?`s), and so may the decoding between the header and the deps.   *)
(***************************************************************************)
EXTENDS Naturals, Sequences

CONSTANTS
    Jobs,       \* concurrent preprocess calls with the same depfile path
    Content,    \* the pieces one complete depfile synthesis writes, in order
    Old,        \* the depfile an earlier build left at that path
    Hole,       \* model value: a piece of the file no handle wrote
    None        \* model value: the file does not exist / nothing yet

ASSUME Content \in Seq(Nat) /\ Content # <<>> /\ Old \in Seq(Nat)

VARIABLES
    file,       \* the depfile on disk: a sequence of pieces, or None
    pc,         \* pc[j]: where job j's depfile closure is
    offset,     \* offset[j]: pieces job j's handle has written
    result      \* result[j]: "ok", "error", or None

vars == <<file, pc, offset, result>>

Init ==
    /\ file \in {None, Old}
    /\ pc = [j \in Jobs |-> "create"]
    /\ offset = [j \in Jobs |-> 0]
    /\ result = [j \in Jobs |-> None]

\* write(2) of x at position k of f: past the end, the gap reads as holes.
WriteAt(f, k, x) ==
    IF k <= Len(f) THEN [f EXCEPT ![k] = x]
    ELSE f \o [n \in 1 .. k - 1 - Len(f) |-> Hole] \o <<x>>

Resolve(j, r) ==
    /\ pc' = [pc EXCEPT ![j] = "done"]
    /\ result' = [result EXCEPT ![j] = r]

\* File::create(Path::new(&cwd).join(depfile))?
Create(j) ==
    /\ pc[j] = "create"
    /\ file' = <<>>
    /\ offset' = [offset EXCEPT ![j] = 0]
    /\ pc' = [pc EXCEPT ![j] = "write"]
    /\ UNCHANGED result

\* The next write!/writeln! of the synthesis, at the handle's offset.
Write(j) ==
    /\ pc[j] = "write" /\ offset[j] < Len(Content)
    /\ file' = WriteAt(file, offset[j] + 1, Content[offset[j] + 1])
    /\ offset' = [offset EXCEPT ![j] = @ + 1]
    /\ UNCHANGED <<pc, result>>

\* The last piece is written: Ok(Output).
ReturnOk(j) ==
    /\ pc[j] = "write" /\ offset[j] = Len(Content)
    /\ Resolve(j, "ok")
    /\ UNCHANGED <<file, offset>>

\* The `?` of the create, of a write, or of from_local_codepage.
Fails(j) ==
    /\ pc[j] \in {"create", "write"} /\ offset[j] < Len(Content)
    /\ Resolve(j, "error")
    /\ UNCHANGED <<file, offset>>

Finished ==
    /\ \A j \in Jobs : pc[j] = "done"
    /\ UNCHANGED vars

Next ==
    \/ Finished
    \/ \E j \in Jobs : Create(j) \/ Write(j) \/ ReturnOk(j) \/ Fails(j)

Spec == Init /\ [][Next]_vars

(***************************************************************************)
(* Properties                                                              *)
(***************************************************************************)
\* spec.md 3: "DependencyFile is written exactly once, synchronously,
\* before the preprocessing stage's result is returned"; spec.md 5: each
\* invocation "operates on its own ... dependency file, so no locking is
\* required".  A preprocess that returned Ok is left with a complete
\* depfile: once every job is done, if any returned Ok, the file is one
\* whole synthesis -- whatever a concurrent job that truncated it later
\* managed to write before its own `?` returned Err.
OkDepfileIntact ==
    (/\ \A j \in Jobs : pc[j] = "done"
     /\ \E j \in Jobs : result[j] = "ok")
        => file = Content

=============================================================================
