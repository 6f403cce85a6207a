----------------------------- MODULE RunCommand -----------------------------
(***************************************************************************)
(* One process of the command line: the arguments (cli/index.ts), the      *)
(* sequence of the run command (cli/run.ts) with the directories it makes  *)
(* and the harness it opens, the preparation of the compiler               *)
(* (cli/as/compile.ts), the choice of the runtime (cli/runtime/resolve.ts, *)
(* wazero.ts), the report (cli/reporter.ts) and the exit code.             *)
(*                                                                         *)
(* Every step that touches the file system, the compiler or a harness may  *)
(* fail.  An option written --name=value with a value that is not empty is  *)
(* one followed by its value, if it is an option that takes one.           *)
(***************************************************************************)
EXTENDS ProcessOutcome, Integers, Sequences, FiniteSets, SequencesExt

CONSTANTS
    ArgumentLists,  \* the argument lists, sequences of tokens
    MaxFaults       \* bound: steps that fail in one process

VARIABLES
    args,      \* the tokens that are not read yet
    removing,  \* the directories a removal nobody waits for is still working on
    hooked     \* the exit hook that removes the addon is registered

disk == <<dirs, removing, hooked>>
outcome == <<harness, result, printed>>
vars == <<args, command, stage, code, disk, outcome, faults>>

ASSUME FaultAssumption == MaxFaults \in Nat

----------------------------------------------------------------------------
(* Arguments *)

Flags == {"--glob", "--coverage", "--update-snapshots"}
ValueOptions == {"--harness", "--coverage-format", "--coverage-point-type", "--ignore"}

\* Of the compiler's options, which only the run command reads: without a value, and
\* with one that must be a number.
CompilerFlags == {"--noEmit"}
CompilerNumbers == {"--initialMemory"}

PointTypeNames == {"function", "block", "expression"}
Numbers == {"5"}

\* The token --name= of an option with an empty value.
Inline(option) == option \o "="
InlineOptions == ValueOptions \cup CompilerNumbers \cup {"--disableWarning"}

IsOption(token) ==
    token \in Flags \cup ValueOptions \cup CompilerFlags \cup CompilerNumbers
                \cup {"--help", "--", "--disableWarning", "--unknown"}
                \cup {Inline(option) : option \in InlineOptions}

NoCommand == [kind |-> "none", ordinals |-> <<>>, glob |-> FALSE, coverage |-> FALSE,
              harness |-> "js", format |-> "text", ignore |-> {}, emits |-> TRUE]

\* A value is refused when it is of the wrong sort.
Accepts(option, value) ==
    CASE option = "--coverage-point-type" -> value \in PointTypeNames
      [] option \in CompilerNumbers \cup {"--disableWarning"} -> value \in Numbers
      [] OTHER -> TRUE

WithFlag(c, flag) ==
    CASE flag = "--glob" -> [c EXCEPT !.glob = TRUE]
      [] flag = "--coverage" -> [c EXCEPT !.coverage = TRUE]
      [] flag = "--noEmit" -> [c EXCEPT !.emits = FALSE]
      [] OTHER -> c

WithValue(c, option, value) ==
    CASE option = "--harness" -> [c EXCEPT !.harness = value]
      [] option = "--coverage-format" -> [c EXCEPT !.format = value]
      [] option = "--ignore" -> [c EXCEPT !.ignore = @ \cup {value}]
      [] OTHER -> c

----------------------------------------------------------------------------
(* Entries and runtimes *)

Builtin == {"js", "wasmtime", "wazero"}
Custom(c) == c.harness \notin Builtin

----------------------------------------------------------------------------

Undecided == -1
NoResult == [discovery |-> "none", failed |-> FALSE, blocked |-> FALSE, coverage |-> FALSE]

\* What start() may resolve to.  Discovery fails at the top level, with no branch to
\* blame, or in a branch; in either case nothing was executed.
Results ==
    {r \in [discovery : {"ok", "top", "branch"}, failed : BOOLEAN, blocked : BOOLEAN, coverage : BOOLEAN] :
        r.discovery # "ok" => ~r.failed /\ ~r.blocked}

Init ==
    /\ args \in ArgumentLists /\ command = NoCommand
    /\ stage = "parse" /\ code = Undecided
    /\ dirs = {} /\ removing = {} /\ hooked = FALSE
    /\ harness = "none" /\ result = NoResult /\ printed = {}
    /\ faults = {}

Works == UNCHANGED faults
Fails(step, object) ==
    /\ Cardinality(faults) < MaxFaults
    /\ faults' = faults \cup {<<step, object>>}

Goto(next) == stage' = next /\ UNCHANGED code
ExitWith(number) == stage' = "exit" /\ code' = number

----------------------------------------------------------------------------
(* parseCommand, a token at a time *)

Parsing(token) == stage = "parse" /\ command.kind # "none" /\ args # <<>> /\ Head(args) = token
Read(count) == args' = SubSeq(args, count + 1, Len(args))
Parse(c, count) == command' = c /\ Read(count) /\ Goto("parse") /\ UNCHANGED <<disk, outcome, faults>>
Stop(c) == command' = c /\ args' = <<>> /\ Goto("parsed") /\ UNCHANGED <<disk, outcome, faults>>
\* main catches what parseCommand throws.
Refuse == ExitWith(1) /\ UNCHANGED <<args, command, disk, outcome, faults>>

ReadCommand ==
    /\ stage = "parse" /\ command.kind = "none"
    /\ IF args = <<>> \/ args[1] \in {"help", "--help"}
       THEN Stop([NoCommand EXCEPT !.kind = "help"])
       ELSE \/ args[1] = "--version" /\ Stop([NoCommand EXCEPT !.kind = "version"])
            \/ args[1] \in {"list", "run"} /\ Parse([NoCommand EXCEPT !.kind = args[1]], 1)
            \/ args[1] \notin {"--version", "list", "run"} /\ Refuse

AskHelp == Parsing("--help") /\ Stop([command EXCEPT !.kind = "help", !.ordinals = <<>>])

EndOptions == Parsing("--") /\ Stop([command EXCEPT !.ordinals = @ \o Tail(args)])

ReadFlag ==
    \E flag \in Flags \cup (IF command.kind = "run" THEN CompilerFlags ELSE {}) :
        Parsing(flag) /\ Parse(WithFlag(command, flag), 1)

\* The next token is the value whatever it looks like, unless it is missing or empty.
ReadValue ==
    \E option \in ValueOptions \cup (IF command.kind = "run" THEN CompilerNumbers ELSE {}) :
        /\ Parsing(option)
        /\ IF Len(args) = 1 \/ args[2] = "" \/ ~Accepts(option, args[2]) THEN Refuse
           ELSE Parse(WithValue(command, option, args[2]), 2)

\* The inline form takes an empty value that is of the right sort, which no number is, so
\* that the list command, which knows no compiler option, refuses the same tokens.
ReadInline ==
    \E option \in InlineOptions :
        /\ Parsing(Inline(option))
        /\ IF Accepts(option, "") THEN Parse(WithValue(command, option, ""), 1) ELSE Refuse

\* --disableWarning takes a token only when it is a number.
ReadWarning ==
    /\ Parsing("--disableWarning") /\ command.kind = "run"
    /\ Parse(command, IF Len(args) > 1 /\ args[2] \in Numbers THEN 2 ELSE 1)

ReadUnknown ==
    /\ \E token \in CompilerFlags \cup CompilerNumbers \cup {"--disableWarning", "--unknown"} :
          Parsing(token) /\ (token = "--unknown" \/ command.kind = "list")
    /\ Refuse

ReadOrdinal ==
    /\ stage = "parse" /\ command.kind # "none" /\ args # <<>> /\ ~IsOption(Head(args))
    /\ Parse([command EXCEPT !.ordinals = Append(@, Head(args))], 1)

EndArguments == stage = "parse" /\ command.kind # "none" /\ args = <<>> /\ Stop(command)

ParseStep == ReadCommand \/ AskHelp \/ EndOptions \/ ReadFlag \/ ReadValue \/ ReadInline
               \/ ReadWarning \/ ReadUnknown \/ ReadOrdinal \/ EndArguments

----------------------------------------------------------------------------
(* runEntryFiles *)

Running(p) == stage = p /\ UNCHANGED <<args, command>>

\* main: help, version and list print and are done, run needs an entry.
Dispatch ==
    /\ Running("parsed")
    /\ IF command.kind # "run" THEN ExitWith(0)
       ELSE IF Entries(command) = {} THEN ExitWith(1)
       ELSE Goto("entrypoint")
    /\ UNCHANGED <<disk, outcome, faults>>

\* createRunEntrypoint stands before every try: its errors end in main.
CreateEntrypoint ==
    /\ Running("entrypoint")
    /\ \/ Works /\ dirs' = dirs \cup {"entry"} /\ Goto(IF Custom(command) THEN "custom" ELSE "prepare")
       \/ Fails("make", "entry") /\ UNCHANGED dirs /\ ExitWith(1)
       \/ Fails("fill", "entry") /\ dirs' = dirs \cup {"entry"} /\ ExitWith(1)
    /\ UNCHANGED <<removing, hooked, outcome>>

\* Mutant of ResolveCustom: the early return forgets the entrypoint.
ResolveCustomAndReturn ==
    /\ Running("custom")
    /\ \/ Works /\ Goto("prepare")
       \/ Fails("resolve", "harness") /\ ExitWith(3)
    /\ UNCHANGED <<disk, outcome>>

\* A custom harness is loaded before the compilation, whose arguments it may change.
ResolveCustom ==
    /\ Running("custom")
    /\ \/ Works /\ Goto("prepare")
       \/ Fails("resolve", "harness") /\ stage' = "remove" /\ code' = 3
    /\ UNCHANGED <<disk, outcome>>

\* prepareCompilerOptions: the transforms if one was asked for by its path, then the
\* library unless this is Windows, each to a directory of its own.  What is thrown here
\* reaches no cleanup but that of the entrypoint.
Prepare ==
    /\ Running("prepare")
    /\ \E some \in SUBSET {"transforms", "library"} :
          \/ Works /\ dirs' = dirs \cup some /\ Goto("compile")
          \/ /\ stage' = "remove" /\ code' = 2
             /\ \E d \in some :
                   LET before == IF d = "library" THEN some \ {d} ELSE {}
                   IN  \/ Fails("make", d) /\ dirs' = dirs \cup before
                       \/ Fails("fill", d) /\ dirs' = dirs \cup before \cup {d}
    /\ UNCHANGED <<removing, hooked, outcome>>

\* asc, with the arguments of the runtime; without an emitted module there is nothing to
\* run.  A custom harness that throws over the arguments is a fault of the harness.
Compile ==
    /\ Running("compile")
    /\ \/ Works /\ stage' = "unprepare" /\ code' = IF command.emits THEN code ELSE 2
       \/ Fails("compile", "entry") /\ stage' = "unprepare" /\ code' = 2
       \/ Custom(command) /\ Fails("arguments", "harness") /\ stage' = "unprepare" /\ code' = 3
    /\ UNCHANGED <<disk, outcome>>

Prepared == dirs \cap {"library", "transforms"}

\* All removals are started; the first that fails is thrown in place of whatever there
\* was, and nobody waits for the other.
Unprepare ==
    /\ Running("unprepare")
    /\ \/ Works /\ dirs' = dirs \ Prepared /\ Goto("remove") /\ UNCHANGED removing
       \/ \E d \in Prepared :
             /\ Fails("remove", d)
             /\ UNCHANGED dirs /\ removing' = Prepared \ {d}
             /\ stage' = "remove" /\ code' = 2
    /\ UNCHANGED <<hooked, outcome>>

FinishRemoval ==
    /\ stage # "exited" /\ removing # {}
    /\ dirs' = dirs \ removing /\ removing' = {}
    /\ UNCHANGED <<args, command, stage, code, hooked, outcome, faults>>

\* temporaryEntrypoint.cleanup: when it throws, that is the end of the command.
RemoveEntrypoint ==
    /\ Running("remove")
    /\ \/ Works /\ dirs' = dirs \ {"entry"}
          /\ stage' = (IF code # Undecided THEN "exit" ELSE "resolve") /\ UNCHANGED code
       \/ Fails("remove", "entry") /\ UNCHANGED dirs /\ ExitWith(1)
    /\ UNCHANGED <<removing, hooked, outcome>>

\* A builtin runtime is resolved only now; the JavaScript runtime is always there.
ResolveBuiltin ==
    /\ Running("resolve")
    /\ \/ Works /\ Goto("create")
       \/ command.harness \in Builtin \ {"js"} /\ Fails("resolve", "harness") /\ ExitWith(3)
    /\ UNCHANGED <<disk, outcome>>

\* The bundled wazero addon is unpacked first, and its hook registered.
CreateHarness ==
    /\ Running("create")
    /\ \/ /\ Works \/ Fails("create", "harness")
          /\ dirs' = IF command.harness = "wazero" THEN dirs \cup {"addon"} ELSE dirs
          /\ hooked' = (command.harness = "wazero")
          /\ IF faults' = faults THEN harness' = "open" /\ Goto("start")
             ELSE UNCHANGED harness /\ ExitWith(3)
       \/ /\ command.harness = "wazero" /\ Fails("fill", "addon")
          /\ dirs' = dirs \cup {"addon"} /\ UNCHANGED <<hooked, harness>> /\ ExitWith(3)
    /\ UNCHANGED <<removing, result, printed>>

Start ==
    /\ Running("start")
    /\ \/ Works /\ result' \in Results /\ Goto("close")
       \/ Fails("start", "harness") /\ UNCHANGED result /\ stage' = "close" /\ code' = 3
    /\ UNCHANGED <<disk, harness, printed>>

\* The finally of createHarness and start: what close throws is not caught.
CloseHarness ==
    /\ Running("close")
    /\ harness' = "closed"
    /\ \/ Works /\ stage' = (IF code # Undecided THEN "exit" ELSE "report") /\ UNCHANGED code
       \/ Fails("close", "harness") /\ ExitWith(1)
    /\ UNCHANGED <<disk, result, printed>>

\* defaultRunReporter, by the counts of the report and not by its verdict.
Line(r) ==
    CASE r.discovery = "branch" -> "discovery failed"
      [] r.failed \/ r.blocked -> "FAIL"
      [] OTHER -> "PASS"

\* Mutant of Verdict: a blocked test does not count.
VerdictOfFailures(r) ==
    CASE r.discovery # "ok" -> 3
      [] r.failed -> 1
      [] OTHER -> 0

Verdict(r) ==
    CASE r.discovery # "ok" -> 3
      [] r.failed \/ r.blocked -> 1
      [] OTHER -> 0

\* The coverage is printed after the report, in a format that is looked at only now.
Report ==
    /\ Running("report")
    /\ LET shows == result.discovery = "ok" /\ command.coverage /\ result.coverage
       IN  /\ printed' = {Line(result)} \cup (IF shows /\ command.format \in Formats THEN {"coverage"} ELSE {})
           /\ ExitWith(IF shows /\ command.format \notin Formats THEN 1 ELSE Verdict(result))
    /\ UNCHANGED <<disk, harness, result, faults>>

\* process.exit: the exit hook runs and keeps quiet about a failure.
Exit ==
    /\ Running("exit")
    /\ stage' = "exited" /\ UNCHANGED code
    /\ \/ Works /\ dirs' = IF hooked THEN dirs \ {"addon"} ELSE dirs
       \/ hooked /\ Fails("remove", "addon") /\ UNCHANGED dirs
    /\ UNCHANGED <<removing, hooked, outcome>>

Next == ParseStep \/ Dispatch \/ CreateEntrypoint \/ ResolveCustom \/ Prepare \/ Compile
          \/ Unprepare \/ FinishRemoval \/ RemoveEntrypoint \/ ResolveBuiltin \/ CreateHarness
          \/ Start \/ CloseHarness \/ Report \/ Exit

Spec == Init /\ [][Next]_vars

=============================================================================
