----------------------------- MODULE MsvcArgsTests -----------------------------
(***************************************************************************)
(* The unit tests of parse_arguments (mod test in                         *)
(* src/src/compiler/msvc.rs): each test's argument list and what it        *)
(* asserts of the result.  A test of an Ok result asserts input,          *)
(* extension, the whole outputs map (its length is checked), that         *)
(* preprocessor_args is empty and the common_args; it ignores depfile.    *)
(***************************************************************************)
EXTENDS MsvcArgs

Tok(p, v) == [pre |-> p, val |-> v]

C      == Tok("-c", "")
FooC   == Tok("", "foo.c")
FoObj  == Tok("-Fo", "foo.obj")

OkTest(common, outs) ==
    [kind |-> "Ok", input |-> FooC, extension |-> "c", outputs |-> outs,
     preprocessor_args |-> <<>>, common_args |-> common]

\* The argument list of each test, and the result it asserts.
UnitTests ==
    \* test_parse_arguments_simple
    (<<C, FooC, FoObj>> :> OkTest(<<>>, "obj" :> "foo.obj")) @@
    \* test_parse_arguments_extra
    (<<C, FooC, Tok("-", "foo"), FoObj, Tok("-", "bar")>> :>
        OkTest(<<Tok("-", "foo"), Tok("-", "bar")>>, "obj" :> "foo.obj")) @@
    \* test_parse_arguments_values
    (<<C, FooC, Tok("-FI", ""), Tok("", "file"), FoObj>> :>
        OkTest(<<Tok("-FI", ""), Tok("", "file")>>, "obj" :> "foo.obj")) @@
    \* test_parse_arguments_pdb
    (<<C, FooC, Tok("-Zi", ""), Tok("-Fd", "foo.pdb"), FoObj>> :>
        OkTest(<<Tok("-Zi", ""), Tok("-Fd", "foo.pdb")>>,
               ("obj" :> "foo.obj") @@ ("pdb" :> "foo.pdb"))) @@
    \* test_parse_arguments_empty_args, test_parse_arguments_not_compile
    (<<>> :> NotCompilation) @@
    (<<Tok("-Fo", "foo"), FooC>> :> NotCompilation) @@
    \* test_parse_arguments_too_many_inputs
    (<<C, FooC, FoObj, Tok("", "bar.c")>> :> CannotCache) @@
    \* test_parse_arguments_unsupported
    (<<C, FooC, FoObj, Tok("-FA", "")>> :> CannotCache) @@
    (<<Tok("-Fa", ""), C, FooC, FoObj>> :> CannotCache) @@
    (<<C, FooC, Tok("-FR", ""), FoObj>> :> CannotCache) @@
    \* test_parse_arguments_response_file
    (<<C, FooC, Tok("@", "foo"), FoObj>> :> CannotCache) @@
    \* test_parse_arguments_missing_pdb
    (<<C, FooC, Tok("-Zi", ""), FoObj>> :> CannotCache)

\* The fields a test asserts agree with the result.
Agrees(expected, r) ==
    /\ r.kind = expected.kind
    /\ r.kind = "Ok" => \A f \in DOMAIN expected : r[f] = expected[f]

\* parse_arguments returns, for the argument list of every unit test, the
\* result that test asserts: the model's scan passes the repository's own
\* tests of the classifier.
UnitTestsAgree ==
    (result # None /\ args \in DOMAIN UnitTests) => Agrees(UnitTests[args], result)

=============================================================================
