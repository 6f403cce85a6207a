---------------------------- MODULE ProcessOutcome ----------------------------
(***************************************************************************)
(* What is left of one process of the command line (cli/index.ts,          *)
(* cli/run.ts) for those around it: the directories on the disk, the       *)
(* harness, the lines on the terminal and the exit code, beside what the   *)
(* command was and which of its steps failed.  RunCommand says how a       *)
(* process comes to it.                                                    *)
(***************************************************************************)
EXTENDS SequencesExt

CONSTANT
    Files      \* the files that exist; all of them match the default globs

VARIABLES
    command,   \* what parseCommand has made of the arguments
    stage,     \* where the process is; "exited" at the end
    code,      \* the exit code once it is decided
    dirs,      \* the temporary directories on the disk
    harness,   \* "none", "open", "closed"
    result,    \* what start() gave
    printed,   \* the lines on the terminal that the properties are about
    faults     \* history: <<step, object>> of every step that failed

Formats == {"text", "json", "yaml", "csv", "lcov", "cobertura"}

Matching(pattern) == IF pattern = "*" THEN Files ELSE {pattern} \cap Files

\* discoverEntryFiles: a file that does not exist is left out without a word.
Entries(c) ==
    LET named == IF c.ordinals = <<>> THEN Files
                 ELSE IF c.glob THEN UNION {Matching(o) : o \in ToSet(c.ordinals)}
                 ELSE ToSet(c.ordinals) \cap Files
    IN  named \ UNION {Matching(i) : i \in c.ignore}

----------------------------------------------------------------------------
(* Properties *)

\* Whatever fails on the way, the process leaves no directory behind but those whose own
\* filling or removal failed, and those of the compiler whose cleanup was never reached
\* (preparation failed) or cut short (the removal of the other one failed); and a harness
\* that was opened has been closed.
NothingLeftBehind ==
    stage = "exited" =>
        /\ harness # "open"
        /\ \A d \in dirs :
             \/ {<<"fill", d>>, <<"remove", d>>} \cap faults # {}
             \/ /\ d \in {"library", "transforms"}
                /\ \E other \in {"library", "transforms"} \ {d} :
                      {<<"make", other>>, <<"fill", other>>, <<"remove", other>>} \cap faults # {}

\* The exit code tells the run.  0: no step failed but the removal of the addon on the
\* way out, no test failed or was blocked, the pass line was printed, and the coverage
\* that was asked for.  2: no harness was opened.  3: no test failed or was blocked in a
\* run that was reported.  A failed or blocked test always ends in 1, and whenever a
\* pass line is followed by another code, either the top level could not be discovered or
\* the coverage not printed.
ExitCodeTellsTheRun ==
    stage = "exited" /\ command.kind = "run" =>
        /\ code = 0 =>
             /\ faults \subseteq {<<"remove", "addon">>}
             /\ Entries(command) # {} /\ result.discovery = "ok" /\ ~result.failed /\ ~result.blocked
             /\ "PASS" \in printed
             /\ command.coverage /\ result.coverage => "coverage" \in printed
        /\ code = 2 => harness = "none"
        /\ result.failed \/ result.blocked => code = 1
        /\ code = 3 => result.discovery \in {"none", "top", "branch"}
        /\ "PASS" \in printed /\ code # 0 =>
             result.discovery = "top" \/ (command.coverage /\ command.format \notin Formats)
=============================================================================
