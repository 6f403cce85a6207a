------------------------------ MODULE SourcePasses ------------------------------
(****************************************************************************)
(* What the compiler front end does to the user's files before they are     *)
(* compiled: the rewriting of bare trace and abort calls                    *)
(* (cli/as/compile.ts), the coverage transform (cli/transform/src/covers.ts)*)
(* and the artifact-frame transform (cli/transform/src/artifactFrames.ts),  *)
(* in the order the run command applies them.                               *)
(*                                                                          *)
(* A program is a sequence of statements in source order, one per line.     *)
(* "up" is the statement or function a statement stands in, 0 at the top    *)
(* level of its file; "slot" says how it stands there: in a statement       *)
(* "list", alone as the unbraced "arm" of a branch or loop, or as a "part"  *)
(* of an expression or of a class.  "call" is the function its expression   *)
(* calls (0: none), "bare" the trace or abort call in it, "art" whether it  *)
(* takes a snapshot or reads a fixture.                                     *)
(****************************************************************************)
EXTENDS Naturals, Sequences, SequencesExt

CONSTANTS
    Hash(_)  \* the 32-bit id of a coverage point; two points may share one

FunctionKinds == {"Function", "Method", "Callback"}

Kinds == FunctionKinds \cup {"Class", "Block", "If", "Loop", "Switch", "Return",
                             "Throw", "Expression", "Variable"}

Statements(prog) == 1..Len(prog)

\* The kinds each pass walks into.  No pass asks for the kind another names: the
\* coverage pass looks for a FunctionExpression, the parser makes a Function.
Walked == {"Block", "If", "Loop", "Switch", "Return", "Throw", "Expression", "Variable"}
RewriteEnters == Walked \cup {"Function", "Callback"}
CoverEnters == Walked \cup {"Function", "Class", "Method"}
MarkEnters == Walked \cup {"Function", "Callback"}

\* The statements a pass that walks into the given kinds comes to.
Visited(prog, enters) ==
    LET visited[s \in Statements(prog)] ==
            \/ prog[s].up = 0
            \/ prog[prog[s].up].kind \in enters /\ visited[prog[s].up]
    IN  {s \in Statements(prog) : visited[s]}

\* The statements that stand alone under one.
Arms(prog, up) == {s \in Statements(prog) : prog[s].up = up /\ prog[s].slot = "arm"}

----------------------------------------------------------------------------
(* Rewriting of bare calls, on the text of a file *)

Rewritten(prog) == {s \in Visited(prog, RewriteEnters) : prog[s].bare # "none"}

\* A file with an edit gets an import in front of its first line, so that the
\* passes on the parsed file see every statement one line further down.
LineOf(prog, s) ==
    IF \E r \in Rewritten(prog) : prog[r].file = prog[s].file THEN s + 1 ELSE s

\* The place an abort names: the rewritten call carries the line of the text as it
\* was, a call the rewriting does not reach the line the compiler sees.
AbortLine(prog, s) == IF s \in Rewritten(prog) THEN s ELSE LineOf(prog, s)

----------------------------------------------------------------------------
(* Coverage points *)

When(condition, item) == IF condition THEN <<item>> ELSE <<>>

\* The types of the points a statement has.
PointTypes(prog, s) ==
    CASE prog[s].kind \in FunctionKinds -> {"function", "block"}
      [] prog[s].kind = "Block" -> {"block"}
      [] prog[s].kind = "Class" -> {}
      [] OTHER -> {"expression"}

Point(prog, s, type) == [file |-> prog[s].file, line |-> LineOf(prog, s), type |-> type]

Instrumented(prog, opts, s) ==
    /\ prog[s].file \in opts.files
    /\ s \in Visited(prog, CoverEnters)
    /\ prog[s].kind # "Callback"

\* The types a statement is instrumented for, in the order they are inserted.
AskedTypes(prog, opts, s) ==
    LET asked == IF Instrumented(prog, opts, s) THEN PointTypes(prog, s) \cap opts.types ELSE {}
    IN  When("function" \in asked, "function") \o When("block" \in asked, "block")
          \o When("expression" \in asked, "expression")

\* In the order of the source, which is the order of the declarations.
Declarations(prog, opts) ==
    FlattenSeq([s \in Statements(prog) |->
        LET types == AskedTypes(prog, opts, s)
        IN  [i \in DOMAIN types |-> Point(prog, s, types[i])]])

Item(op, s, type) == [op |-> op, s |-> s, type |-> type]

Hits(prog, opts, s) ==
    LET types == AskedTypes(prog, opts, s)
    IN  [i \in DOMAIN types |-> Item("hit", s, types[i])]

----------------------------------------------------------------------------
(* Artifact markers *)

\* Mutant of ArtifactMarked: an artifact kept in a variable has no marker.
MarkedExpression(prog, s) ==
    /\ s \in Visited(prog, MarkEnters)
    /\ prog[s].kind = "Expression"
    /\ prog[s].art

\* A statement that takes an artifact is preceded by a marker, in a list.
ArtifactMarked(prog, s) ==
    /\ s \in Visited(prog, MarkEnters)
    /\ prog[s].kind \in {"Expression", "Variable"}
    /\ prog[s].art

\* A function given to a declaration call starts with one.
CallbackMarked(prog, s) == s \in Visited(prog, MarkEnters) /\ prog[s].kind = "Callback"

----------------------------------------------------------------------------
(* What is left to execute: the passes put together *)

\* A statement of a list: its hit, its marker, itself.  The statements put before an
\* arm go to a list of its own that is thrown away.
InList(prog, opts, s) ==
    (IF prog[s].kind \in FunctionKinds \cup {"Block"} THEN <<>> ELSE Hits(prog, opts, s))
      \o When(ArtifactMarked(prog, s), Item("mark", s, ""))
      \o <<Item("do", s, "")>>

\* The statements of a list, in order.
Body(prog, opts, up) ==
    FlattenSeq([s \in Statements(prog) |->
        IF prog[s].up = up /\ prog[s].slot = "list" THEN InList(prog, opts, s) ELSE <<>>])

\* A function or a block, entered.
Entered(prog, opts, s) ==
    When(CallbackMarked(prog, s), Item("mark", s, ""))
      \o Hits(prog, opts, s) \o Body(prog, opts, s)
=============================================================================
