------------------------------ MODULE CoverageView ------------------------------
(****************************************************************************)
(* What a run with coverage (CoverageRun) leaves for its reader: the merged *)
(* snapshot and what the host was told of the source, next to the places    *)
(* that were executed.                                                      *)
(****************************************************************************)
EXTENDS SourcePasses

VARIABLES
    prog, opts,
    merged,     \* [done, points, covered]
    reached,    \* history: the places <<statement, type>> that were executed
    sightings   \* history: [s, what, file, line], as the host was told

----------------------------------------------------------------------------
\* A place of a file and a type the options ask for, outside the callbacks, which the
\* coverage pass does not look into.
Asked(place) ==
    /\ prog[place[1]].file \in opts.files /\ place[2] \in opts.types
    /\ place[1] \in Visited(prog, CoverEnters) /\ prog[place[1]].kind # "Callback"

\* The hit of an arm without braces is thrown away with the list it was put in.
Unbraced(place) == place[2] = "expression" /\ prog[place[1]].slot = "arm"

IdOf(place) == Hash(Point(prog, place[1], place[2]))

\* The merged coverage is exact whatever the order of the tests and wherever they
\* trapped: a point is listed for every place that was executed, a listed point counts
\* as covered only when a place of its id was executed, and each executed place but an
\* arm without braces covers the point of its id.
CoverageIsExact ==
    merged.done =>
        LET asked == {place \in reached : Asked(place)}
        IN  /\ {IdOf(place) : place \in asked} \subseteq DOMAIN merged.points
            /\ merged.covered \subseteq {IdOf(place) : place \in asked}
            /\ \A place \in asked : ~Unbraced(place) => IdOf(place) \in merged.covered

\* The statement calls nothing that moves the frame, and the artifact pass comes to it.
Plain(s) ==
    /\ prog[s].call = 0 /\ prog[s].slot = "list" /\ prog[s].kind \in {"Expression", "Variable"}
    /\ s \in Visited(prog, MarkEnters)

\* What the host is told of the source is true: an artifact taken in a frame by a
\* statement of a list is filed under the statement's own file, also behind a helper of
\* another file that took one, and its line is the line of the text unless the file's
\* bare calls were rewritten; a rewritten abort always names its own line.
EventsAreLocated ==
    \A seen \in sightings :
        /\ seen.what = "artifact" /\ seen.file # "" /\ Plain(seen.s) =>
             /\ seen.file = prog[seen.s].file
             /\ (\A r \in Rewritten(prog) : prog[r].file # seen.file) => seen.line = seen.s
        /\ seen.what = "abort" /\ seen.s \in Visited(prog, RewriteEnters) => seen.line = seen.s
=============================================================================
