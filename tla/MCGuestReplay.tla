-------------------------- MODULE MCGuestReplay --------------------------
(* Guest programs for GuestReplay. *)
EXTENDS GuestReplay, TLC

Decl(kind, mode, only, handle) == [kind |-> kind, mode |-> mode, only |-> only, handle |-> handle]
Test == Decl("test", "normal", FALSE, FALSE)
Suite == Decl("suite", "normal", FALSE, FALSE)

B(decls, hooks) == [Quiet EXCEPT !.decls = decls, !.hooks = hooks]

\* Hooks on every level, a test with a subtest, and a top-level test with one.
Nested ==
  (<<>> :> B(<<Suite, Test>>, 1)) @@ (<<1>> :> B(<<Test>>, 1)) @@
  (<<2>> :> B(<<Test>>, 1)) @@ (<<1, 1>> :> B(<<Test>>, 0)) @@
  (<<2, 1>> :> B(<<>>, 0)) @@ (<<1, 1, 1>> :> B(<<>>, 1))

\* A focused child beside one that is not, a skipped suite and a todo.
Filtered ==
  (<<>> :> B(<<Suite, Decl("suite", "skip", FALSE, FALSE)>>, 0)) @@
  (<<1>> :> B(<<Test, Decl("test", "normal", TRUE, FALSE),
                Decl("test", "todo", TRUE, FALSE)>>, 1)) @@
  (<<2>> :> B(<<Test>>, 1)) @@ (<<1, 1>> :> B(<<>>, 0)) @@ (<<1, 2>> :> B(<<>>, 1)) @@
  (<<1, 3>> :> B(<<Test>>, 0)) @@ (<<2, 1>> :> B(<<>>, 0)) @@ (<<1, 3, 1>> :> B(<<>>, 0))

\* Hints on a handle and by a context, and a body that skips itself.
Hinted ==
  (<<>> :> B(<<Suite, Suite>>, 0)) @@
  (<<1>> :> [B(<<Decl("test", "normal", FALSE, TRUE)>>, 0) EXCEPT !.mark = "todo"]) @@
  (<<2>> :> B(<<Suite, Test>>, 0)) @@ (<<1, 1>> :> B(<<>>, 0)) @@
  (<<2, 1>> :> [B(<<Test>>, 0) EXCEPT !.hint = TRUE]) @@ (<<2, 1, 1>> :> B(<<>>, 0)) @@
  (<<2, 2>> :> [B(<<>>, 0) EXCEPT !.mark = "skip"])

Programs == {Nested, Filtered, Hinted}
=============================================================================
