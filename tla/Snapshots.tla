----------------------------- MODULE Snapshots -----------------------------
(***************************************************************************)
(* Snapshot artifacts: the manifest that a host loads for each call of an  *)
(* export, the checks a guest makes against it, its finalization behind a  *)
(* run, and the files that outlive the calls (harness/shared/snapshots.cjs *)
(* and the artifact imports of the hosts).  A session is one run of the    *)
(* command line, with or without --update-snapshots.  A text is a sequence *)
(* of characters; names and paths are values of their own.                 *)
(***************************************************************************)
EXTENDS Integers, FiniteSets, Sequences, SequencesExt

CONSTANTS
  Paths,       \* the snapshot files, by relative path
  Programs,    \* guests: sequences of calls [export, ops]
  Disks,       \* the files there may be at first
  Fallback,    \* the path of the only source file, or "none" if there are more
  MaxSessions  \* bound on the sessions

Missing == [exists |-> FALSE, entries |-> <<>>]
Holding(entries) == [exists |-> TRUE, entries |-> entries]

IsSequence(s) == s \in Seq(ToSet(s))

ASSUME ProgramsAssumption ==
  /\ \A p \in Programs : \A i \in DOMAIN p :
       /\ p[i].export \in {"discover", "run"}
       /\ IsSequence(p[i].ops)
       /\ \A k \in DOMAIN p[i].ops :
            /\ p[i].ops[k].what \in {"snapshot", "trap"}
            /\ p[i].ops[k].source \in Paths \cup {"none"}
            /\ IsSequence(p[i].ops[k].value)
  /\ Fallback \in Paths \cup {"none"} /\ MaxSessions \in Nat

ASSUME DisksAssumption ==
  \A d \in Disks : d = [p \in Paths |-> d[p]] /\ \A p \in Paths :
    /\ d[p].exists \in BOOLEAN /\ IsSequence(d[p].entries)
    /\ ~ d[p].exists => d[p].entries = <<>>
    /\ \A i \in DOMAIN d[p].entries : IsSequence(d[p].entries[i].text)

VARIABLES
  host,      \* "js" or "native" (never changes)
  files,     \* path -> Missing, or Holding entries [name, n, text]
  program,   \* the guest of the session
  update,    \* --update-snapshots
  todo,      \* the calls of the session that have not begun
  phase,     \* "over", "idle", "calling", "returned"
  call, pc,  \* the present or last call and its next operation
  manifest,  \* path -> [exists, entries, touched]
  counts,    \* <<path, name>> -> checks of the call so far
  ok,        \* what the last call answered
  sessions,  \* the bounded counter
  captured,  \* history: the checks of the call, [path, name, n, value]
  intact,    \* history: no call of the session failed or was cut short
  settled    \* history: the program the files were last fully updated for

session == <<host, program, update, sessions, settled>>
callState == <<call, pc, manifest, counts, captured>>
vars == <<session, files, todo, phase, callState, ok, intact>>

-----------------------------------------------------------------------------
(* The text of a snapshot file. *)

\* Mutant of Escape: the mark of an interpolation is left as it is, and so is
\* the backslash in front of it.
EscapeQuotesOnly(t) ==
  FlattenSeq([i \in DOMAIN t |-> IF t[i] = "quote" THEN <<"backslash", "quote">> ELSE <<t[i]>>])

\* escapeTemplateLiteral
Escape(t) ==
  FlattenSeq([i \in DOMAIN t |->
    IF t[i] \in {"backslash", "quote"} \/ (t[i] = "dollar" /\ i < Len(t) /\ t[i + 1] = "brace")
    THEN <<"backslash", t[i]>> ELSE <<t[i]>>])

\* The character that a backslash and c stand for.
Escaped(c) == CASE c = "n" -> "newline" [] c = "r" -> "return" [] c = "t" -> "tab" [] OTHER -> c

\* readTemplateLiteral up to the end of the literal; good is FALSE where it
\* throws, or ends the literal before the text does.
ReadCharacter(acc, t, i) ==
  IF acc.escape
  THEN [value |-> Append(acc.value, Escaped(t[i])), escape |-> FALSE,
        good |-> /\ acc.good
                 /\ \/ t[i] \in {"backslash", "quote", "n", "r", "t"}
                    \/ t[i] = "dollar" /\ i < Len(t) /\ t[i + 1] = "brace"]
  ELSE IF t[i] = "backslash"
  THEN [value |-> acc.value, escape |-> TRUE, good |-> acc.good]
  ELSE [value |-> Append(acc.value, t[i]), escape |-> FALSE,
        good |-> acc.good /\ t[i] # "quote"]

Read(t) ==
  LET read[i \in 0..Len(t)] ==
        IF i = 0 THEN [value |-> <<>>, escape |-> FALSE, good |-> TRUE]
        ELSE ReadCharacter(read[i - 1], t, i)
  IN  read[Len(t)]

\* parseSnapshotFile accepts the file.
Parses(entries) ==
  /\ \A i \in DOMAIN entries : Read(entries[i].text).good /\ ~ Read(entries[i].text).escape
  /\ \A i, j \in DOMAIN entries :
       <<entries[i].name, entries[i].n>> = <<entries[j].name, entries[j].n>> => i = j

Loadable == \A p \in Paths : Parses(files[p].entries)

\* createSnapshotFileState
Loaded(file) ==
  [exists |-> file.exists, touched |-> {},
   entries |-> [i \in DOMAIN file.entries |->
     [name |-> file.entries[i].name, n |-> file.entries[i].n,
      value |-> Read(file.entries[i].text).value, matched |-> FALSE]]]

\* renderSnapshotFile
Rendered(entries) ==
  Holding([i \in DOMAIN entries |->
    [name |-> entries[i].name, n |-> entries[i].n, text |-> Escape(entries[i].value)]])

-----------------------------------------------------------------------------
(* The manifest during a call. *)

\* The file of a check: the source of the active frame, or the only source.
PathOf(op) == IF op.source # "none" THEN op.source ELSE Fallback

\* resolveSnapshotExecutionName
NameOf(op) ==
  IF op.label # "" THEN op.label
  ELSE IF op.frame.kind = "hook" THEN op.frame.hook
  ELSE op.frame.name

CountOf(path, name) == IF <<path, name>> \in DOMAIN counts THEN counts[<<path, name>>] ELSE 0

Position(state, name, n) ==
  {i \in DOMAIN state.entries : state.entries[i].name = name /\ state.entries[i].n = n}

\* The entries at these positions are matched.
Marked(state, name, at) ==
  [exists |-> TRUE, touched |-> state.touched \cup {name},
   entries |-> [i \in DOMAIN state.entries |->
                 [state.entries[i] EXCEPT !.matched = @ \/ i \in at]]]

\* Mutant of Match: the entries of a name are not told apart by occurrence.
MatchName(state, name, n, value) ==
  LET at == {i \in DOMAIN state.entries : state.entries[i].name = name}
  IN  [ok |-> \E i \in at : state.entries[i].value = value,
       state |-> Marked(state, name, at)]

\* The outcome of matchSnapshotEntry and the state of the file behind it.
Match(state, name, n, value) ==
  IF ~ state.exists THEN [ok |-> FALSE, state |-> state]
  ELSE LET at == Position(state, name, n)
       IN  [ok |-> \E i \in at : state.entries[i].value = value,
            state |-> Marked(state, name, at)]

\* upsertSnapshotEntry
Upserted(state, name, n, value) ==
  LET entry == [name |-> name, n |-> n, value |-> value, matched |-> TRUE]
      at == Position(state, name, n)
  IN  [exists |-> TRUE, touched |-> state.touched \cup {name},
       entries |-> IF at = {} THEN Append(state.entries, entry)
                   ELSE [i \in DOMAIN state.entries |-> IF i \in at THEN entry ELSE state.entries[i]]]

\* The entries at the positions in keep, in their order.
Filtered(entries, keep) ==
  FlattenSeq([i \in DOMAIN entries |-> IF i \in keep THEN <<entries[i]>> ELSE <<>>])

\* Mutant of Kept: every entry of a touched file that no check has matched
\* goes, as docs/016 describes it.
KeptIfMatched(state, entry) == entry.matched

\* What finalizeSnapshotManifest keeps of a touched file.
Kept(state, entry) == entry.matched \/ entry.name \notin state.touched

Stale(state) == {i \in DOMAIN state.entries : ~ Kept(state, state.entries[i])}

HasStale(state) == state.touched # {} /\ Stale(state) # {}

\* The files it writes in update mode.
Finalized(m) ==
  [p \in Paths |->
    IF HasStale(m[p])
    THEN Rendered(Filtered(m[p].entries, DOMAIN m[p].entries \ Stale(m[p])))
    ELSE files[p]]

-----------------------------------------------------------------------------
NoCall == [export |-> "discover", ops |-> <<>>]
NoManifest == [p \in Paths |-> Loaded(Missing)]

Init ==
  /\ host \in {"js", "native"}
  /\ files \in Disks
  /\ program = <<>> /\ update = FALSE /\ todo = {} /\ phase = "over"
  /\ call = NoCall /\ pc = 1 /\ manifest = NoManifest /\ counts = <<>>
  /\ ok = TRUE /\ sessions = 0 /\ captured = {} /\ intact = TRUE /\ settled = <<>>

\* as-harness run
BeginSession(p, u) ==
  /\ phase = "over" /\ sessions < MaxSessions
  /\ sessions' = sessions + 1
  /\ program' = p /\ update' = u
  /\ todo' = DOMAIN p /\ phase' = "idle" /\ intact' = TRUE
  /\ settled' = IF u THEN <<>> ELSE settled
  /\ UNCHANGED <<host, files, callState, ok>>

\* #callNodeIndexExport up to the export: a fresh manifest and fresh counts.
\* With updates the calls are made one after the other, in the order of a plan;
\* without, they only read, and one order stands for all.
Begin(i) ==
  /\ phase \in {"idle", "returned"} /\ i \in todo
  /\ update \/ \A k \in todo : i <= k
  /\ todo' = todo \ {i}
  /\ call' = program[i] /\ pc' = 1 /\ counts' = <<>> /\ captured' = {}
  /\ IF Loadable
     THEN /\ manifest' = [p \in Paths |-> Loaded(files[p])]
          /\ phase' = "calling" /\ ok' = TRUE /\ UNCHANGED intact
     ELSE /\ phase' = "returned" /\ ok' = FALSE /\ intact' = FALSE
          /\ UNCHANGED manifest
  /\ UNCHANGED <<session, files>>

Op == call.ops[pc]

\* The guest stops at a check that fails and at a trap: the rest of the body is
\* not run, and the export answers 0 (didCallbackTrap).
Fail ==
  /\ pc' = Len(call.ops) + 1 /\ ok' = FALSE /\ intact' = FALSE

\* normalizeArtifactSourceFile of the JavaScript host uses a name that the
\* module does not define, and throws through the guest.
Raises(op) == host = "js" /\ op.source # "none"

Refused(op) == Raises(op) \/ PathOf(op) = "none" \/ NameOf(op) = ""

\* snapshot_check
Check ==
  /\ phase = "calling" /\ pc <= Len(call.ops)
  /\ Op.what = "snapshot" /\ ~ Refused(Op)
  /\ LET path == PathOf(Op)
         name == NameOf(Op)
         n == CountOf(path, name)
         matched == Match(manifest[path], name, n, Op.value)
         written == Upserted(manifest[path], name, n, Op.value)
     IN  /\ counts' = [c \in DOMAIN counts \cup {<<path, name>>} |->
                         IF c = <<path, name>> THEN n + 1 ELSE counts[c]]
         /\ captured' = captured \cup {[path |-> path, name |-> name, n |-> n, value |-> Op.value]}
         /\ IF update
            THEN /\ manifest' = [manifest EXCEPT ![path] = written]
                 /\ files' = [files EXCEPT ![path] = Rendered(written.entries)]
                 /\ pc' = pc + 1 /\ UNCHANGED <<ok, intact>>
            ELSE /\ manifest' = [manifest EXCEPT ![path] = matched.state]
                 /\ IF matched.ok THEN pc' = pc + 1 /\ UNCHANGED <<ok, intact>> ELSE Fail
                 /\ UNCHANGED files
  /\ UNCHANGED <<session, todo, phase, call>>

\* A trap of the guest, or a check that the host refuses.
Trap ==
  /\ phase = "calling" /\ pc <= Len(call.ops)
  /\ Op.what = "trap" \/ Refused(Op)
  /\ Fail
  /\ UNCHANGED <<session, files, todo, phase, call, manifest, counts, captured>>

\* #callNodeIndexExport behind the export.
Return ==
  /\ phase = "calling" /\ pc > Len(call.ops)
  /\ phase' = "returned"
  /\ IF call.export # "run" THEN UNCHANGED <<files, ok, intact>>
     ELSE IF update THEN files' = Finalized(manifest) /\ UNCHANGED <<ok, intact>>
     ELSE /\ ok' = (ok /\ \A p \in Paths : ~ HasStale(manifest[p])) /\ intact' = (intact /\ ok')
          /\ UNCHANGED files
  /\ manifest' = NoManifest /\ counts' = <<>>
  /\ UNCHANGED <<session, todo, call, pc, captured>>

\* The session is over, or its process is killed.
EndSession ==
  /\ phase # "over"
  /\ phase' = "over" /\ todo' = {}
  /\ settled' = IF update /\ intact /\ todo = {} /\ phase = "returned" THEN program ELSE settled
  /\ call' = NoCall /\ pc' = 1 /\ captured' = {} /\ ok' = TRUE /\ intact' = TRUE
  /\ manifest' = NoManifest /\ counts' = <<>>
  /\ program' = <<>> /\ update' = FALSE
  /\ UNCHANGED <<host, sessions, files>>

Next ==
  \/ \E p \in Programs, u \in BOOLEAN : BeginSession(p, u)
  \/ \E i \in todo : Begin(i)
  \/ Check
  \/ Trap
  \/ Return
  \/ EndSession

Spec == Init /\ [][Next]_vars

-----------------------------------------------------------------------------
(***************************************************************************)
(* Properties.                                                             *)
(***************************************************************************)

Checks(c) == {k \in DOMAIN c.ops : c.ops[k].what = "snapshot"}

\* Two calls of the program check under one name in one file: tests of the same
\* name, or hooks of one kind, whose entries have the same keys.
Ambiguous(p) ==
  \E i, j \in DOMAIN p : i # j /\ \E a \in Checks(p[i]), b \in Checks(p[j]) :
    /\ PathOf(p[i].ops[a]) = PathOf(p[j].ops[b])
    /\ NameOf(p[i].ops[a]) = NameOf(p[j].ops[b])

\* After a session with --update-snapshots that no failure or kill cut short,
\* the same tests pass without it, whatever the files held before, in whatever
\* order the calls were made, and whatever characters the values have
\* (docs/016 "Update mode"; README.md:21).
UpdatedSnapshotsPass ==
  (/\ phase = "returned" /\ ~ update /\ settled = program /\ ~ Ambiguous(program)) => intact

\* A run that passes without the flag has made exactly the checks that the
\* file holds under the names it has checked: none is missing, none is left
\* over, and each value is the one of the file (finalizeSnapshotManifest).
GreenRunIsExact ==
  phase = "returned" /\ ~ update /\ ok /\ call.export = "run" =>
    \A c \in captured :
      {[n |-> e.n, value |-> Read(e.text).value] :
          e \in {x \in ToSet(files[c.path].entries) : x.name = c.name}}
        = {[n |-> x.n, value |-> x.value] : x \in {y \in captured : y.path = c.path /\ y.name = c.name}}

\* What a call does to the files concerns the entries of the names that it has
\* checked; all others stay as they are and in their order, and nothing is
\* written without --update-snapshots.
Others(file, names) ==
  Filtered(file.entries, {i \in DOMAIN file.entries : file.entries[i].name \notin names})

CallsTouchTheirOwn ==
  [][\A p \in Paths : files'[p] # files[p] =>
       LET names == {c.name : c \in {x \in captured' : x.path = p}}
           old == Others(files[p], names)
           new == Others(files'[p], names)
       IN  /\ update
           /\ Loadable =>
                /\ Len(old) = Len(new)
                /\ \A i \in DOMAIN old :
                     /\ old[i].name = new[i].name /\ old[i].n = new[i].n
                     /\ Read(old[i].text).value = Read(new[i].text).value]_vars
=============================================================================
