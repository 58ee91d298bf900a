---------------------------- MODULE MC_MsvcArgs -----------------------------
(* Instantiates MsvcArgs with one token of each arm of the match.          *)
EXTENDS MsvcArgsTests

\* "a", "a.c" and "" for the bounded lists; the others for the unit tests.
MCVals == {"", "a", "a.c", "foo", "foo.c", "foo.obj", "foo.pdb", "bar", "bar.c", "file"}
MCExt  == [v \in MCVals |->
             CASE v \in {"a.c", "foo.c", "bar.c"} -> "c"
               [] v = "foo.obj" -> "obj"
               [] v = "foo.pdb" -> "pdb"
               [] OTHER -> None]

\* -c, -Foa, -FI, -depsa, -showIncludes, @a, -FA, -Zi, -Fda, -a, a.c, a, -
MCTokens ==
    {Tok("-c", ""), Tok("-Fo", "a"), Tok("-FI", ""), Tok("-deps", "a"),
     Tok("-showIncludes", ""), Tok("@", "a"), Tok("-FA", ""), Tok("-Zi", ""),
     Tok("-Fd", "a"), Tok("-", "a"), Tok("", "a.c"), Tok("", "a"), Tok("-", "")}

\* Every list of up to four of those tokens, and the unit tests' lists.
MCLists == BoundedSeq(MCTokens, 4) \cup DOMAIN UnitTests

\* Adds -Faa: a listing file named by the glued value.
MCTokensListing == MCTokens \cup {Tok("-Fa", "a")}
MCListsListing  == BoundedSeq(MCTokensListing, 4)

\* Lists without -c whose scan stops early.
=============================================================================
