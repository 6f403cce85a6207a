---------------------------- MODULE MCSnapshots ----------------------------
(****************************************************************************)
(* Guests and files for TLC.  Two versions of a guest differ in a value, in *)
(* a check that is gone, and in a trap between two checks.                  *)
(****************************************************************************)
EXTENDS Snapshots

Test(x) == [kind |-> "test", name |-> x, hook |-> ""]
Hook(x) == [kind |-> "hook", name |-> "suite", hook |-> x]

Shot(s, f, l, v) ==
  [what |-> "snapshot", source |-> s, frame |-> f, label |-> l, value |-> v]
Stop == [what |-> "trap", source |-> "none", frame |-> Test("t"), label |-> "", value |-> <<>>]

Plain   == <<"x">>
Special == <<"dollar", "brace", "quote", "backslash">>

MCPaths == {"a", "b"}
MCFallback == "a"

Run(steps) == [export |-> "run", ops |-> steps]

\* A hook before each of two tests; the suite checks in its own body, which
\* discovery runs as well.
MCPrograms ==
  LET suite == Shot("none", [kind |-> "suite", name |-> "suite", hook |-> ""], "", Plain)
      t(v) == Shot("none", Test("t"), "", v)
      u(v) == Shot("none", Test("u"), "first", v)
  IN  { << [export |-> "discover", ops |-> <<suite>>],
           Run(<<t(Plain), t(Special)>>), Run(<<u(Special), Shot("none", Test("u"), "", Plain)>>) >>,
        << Run(<<t(Special)>>), Run(<<u(Plain)>>) >>,
        << Run(<<t(Plain), Stop, t(Special)>>), Run(<<Shot("none", Test(""), "", Plain), u(Plain)>>) >>,
        << Run(<<Shot("b", Test("t"), "", Plain), t(Special)>>),
           Run(<<Shot("none", Hook("beforeEach hook"), "", Plain), u(Plain)>>) >>,
        << Run(<<t(Plain)>>), Run(<<t(Special), t(Plain)>>) >> }

Entry(x, i, chars) == [name |-> x, n |-> i, text |-> chars]

MCDisks ==
  { [p \in MCPaths |-> Missing],
    [p \in MCPaths |->
      IF p = "a" THEN Holding(<<Entry("t", 0, Plain), Entry("old", 0, <<"backslash", "n">>),
                                Entry("t", 1, <<"y">>), Entry("t", 2, Plain)>>)
      ELSE Holding(<<Entry("t", 0, <<"dollar", "brace">>)>>)],
    [p \in MCPaths |->
      IF p = "a" THEN Missing ELSE Holding(<<Entry("t", 0, Plain), Entry("t", 0, Plain)>>)] }
=============================================================================
