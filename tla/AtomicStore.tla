----------------------------- MODULE AtomicStore -----------------------------
(***************************************************************************)
(* What a store of one document promises. A read or a write that is        *)
(* answered settles the document at one version: everything answered later *)
(* returns that version until a later write. A write that ends without an  *)
(* answer, because it failed or the server stopped, leaves it undecided    *)
(* whether it took effect; the next answer decides that for good. No       *)
(* version but the settled and the undecided ones is ever written twice.   *)
(***************************************************************************)
CONSTANTS Versions, None

VARIABLES
  settled,    \* the version of the last answer
  undecided,  \* versions whose writes have ended without one since
  made,       \* versions that there have been
  writing     \* the version being written, or None

vars == <<settled, undecided, made, writing>>

Init ==
  /\ settled \in Versions /\ made = {settled}
  /\ undecided = {} /\ writing = None

Candidates == undecided \cup {settled}

Begin ==
  /\ writing = None
  /\ writing' \in Candidates \cup (Versions \ made)
  /\ made' = made \cup {writing'}
  /\ UNCHANGED <<settled, undecided>>

Answer(v) == settled' = v /\ undecided' = {} /\ writing' = None /\ UNCHANGED made

Written == writing # None /\ Answer(writing)

Read == writing = None /\ \E v \in Candidates : Answer(v)

Fail ==
  /\ writing # None /\ writing' = None
  /\ undecided' = undecided \cup {writing}
  /\ UNCHANGED <<settled, made>>

Next == Begin \/ Written \/ Read \/ Fail

Spec == Init /\ [][Next]_vars
=============================================================================
