----------------------------- MODULE MCCoverageRun -----------------------------
(* Programs of two files: a test file a.ts that calls helpers of b.ts.          *)
EXTENDS CoverageRun

S(file, kind, up, slot) ==
    [file |-> file, kind |-> kind, up |-> up, slot |-> slot, call |-> 0, art |-> FALSE, bare |-> "none"]
Calls(s, f) == [s EXCEPT !.call = f]
Takes(s) == [s EXCEPT !.art = TRUE]
Says(s, bare) == [s EXCEPT !.bare = bare]

\* A helper with branches and a loop, with and without braces, of which "last" is the
\* bare call in it, and two tests that take artifacts around it.
Branches(last) == <<
    S("b", "Function", 0, "list"),                       \*  1 helper
    S("b", "If", 1, "list"),                             \*  2   if without braces
    S("b", "Return", 2, "arm"),                          \*  3     return
    S("b", "Loop", 1, "list"),                           \*  4   loop with braces
    S("b", "Block", 4, "arm"),                           \*  5
    Takes(S("b", "Expression", 5, "list")),              \*  6     snapshot
    Says(S("b", "Variable", 1, "list"), last),           \*  7   const x = ...
    S("a", "Expression", 0, "list"),                     \*  8 test(
    S("a", "Callback", 8, "part"),                       \*  9   () =>
    Calls(S("a", "Expression", 9, "list"), 1),           \* 10     helper()
    Takes(S("a", "Variable", 9, "list")),                \* 11     const s = snapshot
    Takes(Calls(S("a", "Expression", 9, "list"), 1))>>   \* 12     snapshot(helper())

\* A class whose method aborts beyond the rewriting, a switch, and a top-level call.
Classes(bare) == <<
    S("b", "Class", 0, "list"),                          \*  1 class
    S("b", "Method", 1, "part"),                         \*  2   method
    S("b", "Switch", 2, "list"),                         \*  3     switch
    Says(S("b", "Expression", 3, "list"), "abort"),      \*  4       abort()
    Takes(S("b", "Return", 2, "list")),                  \*  5     return snapshot
    S("b", "Function", 0, "list"),                       \*  6 other
    Says(S("b", "If", 6, "list"), bare),                 \*  7   if (trace or abort)
    S("b", "Throw", 7, "arm"),                           \*  8     throw
    Takes(S("b", "Expression", 6, "list")),              \*  9   snapshot
    S("a", "Expression", 0, "list"),                     \* 10 test(
    S("a", "Callback", 10, "part"),                      \* 11   () =>
    Calls(S("a", "Variable", 11, "list"), 2),            \* 12     method()
    Takes(S("a", "Expression", 11, "list")),             \* 13     snapshot
    Calls(S("a", "Expression", 0, "list"), 6),           \* 14 other()
    S("a", "Expression", 0, "list"),                     \* 15 test(
    S("a", "Callback", 15, "part"),                      \* 16   () =>
    Calls(S("a", "If", 16, "list"), 6),                  \* 17     if (other())
    Takes(S("a", "Expression", 17, "arm")),              \* 18       snapshot
    Takes(S("a", "Expression", 16, "list"))>>            \* 19     snapshot

SomePrograms == {Branches(bare) : bare \in {"none", "trace", "abort"}}
                  \cup {Classes(bare) : bare \in {"none", "trace", "abort"}}

SomeOptions == {[files |-> files, types |-> types] :
                  files \in {{"a", "b"}, {"b"}, {}},
                  types \in {{"function", "block", "expression"}, {"function"}, {"block", "expression"}}}

\* Two points of different statements share an id.
SharedHash(p) == IF p.line \in {2, 7} THEN [p EXCEPT !.line = 2] ELSE p
=============================================================================
