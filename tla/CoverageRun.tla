------------------------------ MODULE CoverageRun ------------------------------
(****************************************************************************)
(* A run of an instrumented program: the harness that discovers, a harness  *)
(* of its own for every test, the coverage each collects, the artifact frame*)
(* a marker moves, and the merge of the snapshots at the end                *)
(* (harness/shared/covers.cjs, start.cjs, js/index.cjs, internal/           *)
(* artifact-frame.ts).  Tests run one at a time here: the instances share   *)
(* nothing, and only the order of their snapshots can tell.                 *)
(****************************************************************************)
EXTENDS CoverageView, FiniteSets

CONSTANTS
    Programs,  \* the programs, sequences of statements
    Options    \* [files, types]: the files and point types that are instrumented

\* A statement stands in an earlier one of its file, a method and a callback as a part
\* of it, and calls a function.
IsProgram(p) ==
    /\ p \in Seq(ToSet(p))
    /\ \A s \in Statements(p) :
        /\ p[s].kind \in Kinds /\ p[s].slot \in {"list", "arm", "part"}
        /\ p[s].kind \in {"Method", "Callback"} => p[s].slot = "part"
        /\ p[s].up \in 0..(s - 1) /\ (p[s].up # 0 => p[p[s].up].file = p[s].file)
        /\ p[s].call \in 0..Len(p) /\ (p[s].call # 0 => p[p[s].call].kind \in FunctionKinds)
        /\ p[s].art \in BOOLEAN /\ p[s].bare \in {"none", "trace", "abort"}

ASSUME ProgramAssumption == \A p \in Programs : IsProgram(p)

VARIABLES
    todo,       \* the tests that have no harness yet
    instance,   \* "none", "discovery", "test"
    agenda,     \* what the guest has still to execute
    points,     \* the collector of the instance: id -> the point declared first
    covered,    \* and the ids that were hit
    frame,      \* the source of the active artifact frame
    snapshots   \* the snapshots of the closed instances

guest == <<instance, agenda, points, covered, frame>>
history == <<reached, sightings>>
vars == <<prog, opts, todo, guest, snapshots, merged, history>>

----------------------------------------------------------------------------
(* The collector *)

NoPoints == [id \in {} |-> 0]

\* A second declaration of an id changes nothing, whatever it says.
DeclareAll(list) ==
    [id \in {Hash(list[i]) : i \in DOMAIN list} |->
        list[Min({i \in DOMAIN list : Hash(list[i]) = id})]]

\* The points of several snapshots: the one that knows an id first gives its point.
MergedPoints(list) ==
    [id \in UNION {DOMAIN list[i].points : i \in DOMAIN list} |->
        list[Min({i \in DOMAIN list : id \in DOMAIN list[i].points})].points[id]]

\* Mutant of Merge: what a later snapshot says of a known id is dropped with its point.
MergeNewPoints(list) ==
    [done |-> TRUE, points |-> MergedPoints(list),
     covered |-> UNION {list[i].covered \ UNION {DOMAIN list[j].points : j \in 1..(i - 1)} :
                          i \in DOMAIN list}]

\* mergeCoverageSnapshots: an id is covered when some snapshot covers it.
Merge(list) ==
    [done |-> TRUE, points |-> MergedPoints(list),
     covered |-> UNION {list[i].covered : i \in DOMAIN list}]

----------------------------------------------------------------------------

NoFrame == [active |-> FALSE, file |-> "", line |-> 0]

Tests(p) == {s \in Statements(p) : p[s].kind = "Callback"}

Init ==
    /\ prog \in Programs /\ opts \in Options
    /\ todo = Tests(prog)
    /\ instance = "none" /\ agenda = <<>> /\ points = NoPoints /\ covered = {} /\ frame = NoFrame
    /\ snapshots = <<>> /\ merged = [done |-> FALSE, points |-> NoPoints, covered |-> {}]
    /\ reached = {} /\ sightings = {}

\* The top level of every file: the declarations come first.
Start == Body(prog, opts, 0)

Load(which, rest) ==
    /\ instance' = which
    /\ points' = DeclareAll(Declarations(prog, opts)) /\ covered' = {}
    /\ frame' = NoFrame
    /\ agenda' = Start \o rest
    /\ UNCHANGED <<prog, opts, snapshots, merged, history>>

\* The harness startHarness discovers with.
Discover ==
    /\ instance = "none" /\ snapshots = <<>> /\ ~merged.done
    /\ Load("discovery", <<>>)
    /\ UNCHANGED todo

\* The harness of a worker, for one test: its callback runs in an artifact frame.
RunTest(t) ==
    /\ instance = "none" /\ snapshots # <<>> /\ ~merged.done
    /\ t \in todo /\ todo' = todo \ {t}
    /\ Load("test", <<Item("frame", t, ""), Item("call", t, "")>>)

\* readCoverageSnapshot, and the harness is closed.
Close ==
    /\ instance # "none" /\ agenda = <<>>
    /\ instance' = "none"
    /\ snapshots' = Append(snapshots, [points |-> points, covered |-> covered])
    /\ points' = NoPoints /\ covered' = {} /\ frame' = NoFrame
    /\ UNCHANGED <<prog, opts, todo, agenda, merged, history>>

Finish ==
    /\ instance = "none" /\ snapshots # <<>> /\ todo = {} /\ ~merged.done
    /\ merged' = Merge(snapshots)
    /\ UNCHANGED <<prog, opts, todo, guest, snapshots, history>>

----------------------------------------------------------------------------
(* The guest: one item of the agenda at a time *)

Is(op) == agenda # <<>> /\ Head(agenda).op = op
Now == Head(agenda).s
Continue(items) == agenda' = items \o Tail(agenda)
Reach(places) == reached' = reached \cup places

Hit ==
    /\ Is("hit")
    /\ covered' = covered \cup {Hash(Point(prog, Now, Head(agenda).type))}
    /\ Continue(<<>>)
    /\ UNCHANGED <<prog, opts, todo, instance, points, frame, snapshots, merged, history>>

\* recordActiveArtifactFrameSource: without a frame, nothing is recorded.
Mark ==
    /\ Is("mark")
    /\ frame' = IF frame.active
                THEN [active |-> TRUE, file |-> prog[Now].file, line |-> LineOf(prog, Now)]
                ELSE frame
    /\ Continue(<<>>)
    /\ UNCHANGED <<prog, opts, todo, instance, points, covered, snapshots, merged, history>>

PushFrame ==
    /\ Is("frame")
    /\ frame' = [NoFrame EXCEPT !.active = TRUE]
    /\ Continue(<<>>)
    /\ UNCHANGED <<prog, opts, todo, instance, points, covered, snapshots, merged, history>>

\* What the expression of a statement does: the call in it is evaluated before the
\* artifact, whose text it may be, and before a bare trace or abort.
Evaluation(s) ==
    When(prog[s].call # 0, Item("call", prog[s].call, ""))
      \o When(prog[s].art, Item("art", s, ""))
      \o When(prog[s].bare # "none", Item(prog[s].bare, s, ""))

Do ==
    /\ Is("do")
    /\ LET s == Now
           kind == prog[s].kind
       IN  CASE kind \in {"Function", "Class"} -> Continue(<<>>) /\ UNCHANGED reached
             [] kind = "Block" -> Continue(Entered(prog, opts, s)) /\ Reach({<<s, "block">>})
             [] kind \in {"If", "Loop", "Switch"} ->
                  Continue(Evaluation(s) \o <<Item("choose", s, "")>>) /\ Reach({<<s, "expression">>})
             [] kind \in {"Return", "Throw"} ->
                  Continue(Evaluation(s) \o <<Item(kind, s, "")>>) /\ Reach({<<s, "expression">>})
             [] OTHER -> Continue(Evaluation(s)) /\ Reach({<<s, "expression">>})
    /\ UNCHANGED <<prog, opts, todo, instance, points, covered, frame, snapshots, merged, sightings>>

\* A branch that is taken, a case, or one more turn of a loop.
Take ==
    /\ Is("choose")
    /\ IF prog[Now].kind = "Switch"
       THEN Continue(Body(prog, opts, Now))
       ELSE \E a \in Arms(prog, Now) :
              Continue(<<Item("do", a, "")>> \o When(prog[Now].kind = "Loop", Head(agenda)))
    /\ UNCHANGED <<prog, opts, todo, instance, points, covered, frame, snapshots, merged, history>>

Skip ==
    /\ Is("choose")
    /\ Continue(<<>>)
    /\ UNCHANGED <<prog, opts, todo, instance, points, covered, frame, snapshots, merged, history>>

Call ==
    /\ Is("call")
    /\ Continue(Entered(prog, opts, Now) \o <<Item("back", Now, "")>>)
    /\ Reach({<<Now, "function">>, <<Now, "block">>})
    /\ UNCHANGED <<prog, opts, todo, instance, points, covered, frame, snapshots, merged, sightings>>

\* The end of a function, reached or returned to: the nearest one that is left.
Leave ==
    /\ Is("back") \/ Is("Return")
    /\ \E end \in DOMAIN agenda :
         /\ agenda[end].op = "back" /\ \A j \in 1..(end - 1) : agenda[j].op # "back"
         /\ agenda' = SubSeq(agenda, end + 1, Len(agenda))
    /\ UNCHANGED <<prog, opts, todo, instance, points, covered, frame, snapshots, merged, history>>

\* A snapshot or a fixture: the host files it under the source of the active frame.
Artifact ==
    /\ Is("art")
    /\ sightings' = sightings \cup {[s |-> Now, what |-> "artifact", file |-> frame.file, line |-> frame.line]}
    /\ Continue(<<>>)
    /\ UNCHANGED <<prog, opts, todo, instance, points, covered, frame, snapshots, merged, reached>>

\* harnessTrace reports where the frame is; the trace of the compiler's library,
\* outside the rewriting, reports no place.
Trace ==
    /\ Is("trace")
    /\ sightings' = IF Now \in Rewritten(prog)
                    THEN sightings \cup {[s |-> Now, what |-> "trace", file |-> frame.file, line |-> frame.line]}
                    ELSE sightings
    /\ Continue(<<>>)
    /\ UNCHANGED <<prog, opts, todo, instance, points, covered, frame, snapshots, merged, reached>>

\* A throw and an abort end the call of the export; an abort says where it stands.
Trap ==
    /\ Is("Throw") \/ Is("abort")
    /\ agenda' = <<>>
    /\ sightings' = IF Is("abort")
                    THEN sightings \cup {[s |-> Now, what |-> "abort", file |-> prog[Now].file,
                                          line |-> AbortLine(prog, Now)]}
                    ELSE sightings
    /\ UNCHANGED <<prog, opts, todo, instance, points, covered, frame, snapshots, merged, reached>>

Step == Hit \/ Mark \/ PushFrame \/ Do \/ Take \/ Skip \/ Call \/ Leave \/ Artifact \/ Trace \/ Trap

Next == Discover \/ (\E t \in Statements(prog) : RunTest(t)) \/ Close \/ Finish \/ Step

Spec == Init /\ [][Next]_vars
=============================================================================
