----------------------------- MODULE MCHandoff -----------------------------
(* Small instances of Handoff: two terminals, one text. *)
EXTENDS Handoff, TLC

CONSTANTS d1, d2, p1, p2

Editing(d) == <<"b", d>>
Start(drafts, finished) == [editors |-> {Editing(d) : d \in drafts}, finished |-> finished]

\* Two drafts of browsers on one terminal; or one of them beside a browser of
\* the release before drafts, with fewer tasks to make.
TwoDraftsOrOld ==
  {Start({d1, d2}, {})} \cup {Start({d, Untracked}, {3}) : d \in {d1, d2}}

\* A larger instance: the old browser, with all three tasks to make.
OldAndNew == {Start({d, Untracked}, {}) : d \in {d1, d2}}

Symmetry == Permutations({d1, d2}) \cup Permutations({p1, p2})
=============================================================================
