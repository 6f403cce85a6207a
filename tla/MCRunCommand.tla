------------------------------ MODULE MCRunCommand ------------------------------
(* Every list of at most two tokens after the command, and some longer ones that  *)
(* reach each harness, coverage in a good and a bad format, and a run of nothing. *)
EXTENDS RunCommand

Tokens == {"--help", "--", "--glob", "--coverage", "--update-snapshots", "--harness", "--coverage-format", "--ignore",
           "--noEmit", "--initialMemory", "--disableWarning", "--coverage-point-type",
           "--harness=", "--coverage-format=", "--ignore=", "--initialMemory=", "--disableWarning=",
           "--coverage-point-type=", "--unknown", "", "5", "a.ts", "gone.ts", "*"}

Short == {<<>>, <<"help">>, <<"--version">>, <<"check">>}
           \cup {<<c>> : c \in {"run", "list"}}
           \cup {<<c, t>> : c \in {"run", "list"}, t \in Tokens}
           \cup {<<c, t, u>> : c \in {"run", "list"}, t \in Tokens, u \in Tokens}

Long == {<<"run", "--harness", h, "--coverage">> \o rest :
           h \in {"js", "wasmtime", "wazero", "./h.mjs"},
           rest \in {<<>>, <<"--coverage-format", "json">>, <<"--coverage-format", "xml">>,
                    <<"--coverage-format=">>, <<"--noEmit">>}}
          \cup {<<"run", "--harness=", "--coverage", "--coverage-format=">>}
          \cup {<<"run", "a.ts", "gone.ts", "--ignore", "*">>, <<"run", "--glob", "*", "--ignore", "a.ts">>}

SomeArguments == Short \cup Long
=============================================================================
