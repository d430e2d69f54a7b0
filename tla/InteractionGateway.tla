------------------------- MODULE InteractionGateway -------------------------
(***************************************************************************)
(* The interaction control plane: the SQLite repository an agent asks its  *)
(* questions through and a human answers from the web or a phone           *)
(* (internal/controlplane/repository.go), together with the project store  *)
(* that reads every interaction into its JSON state, changes it under its  *)
(* own mutex and imports it back when it saves                             *)
(* (runtime_checkpoint_persistence.go, migration.go).                      *)
(*                                                                         *)
(* The repository has one connection and every operation is one            *)
(* transaction, so each is one action. The project store holds its view    *)
(* between two transactions: StoreLoad and StoreSave are separate actions  *)
(* and everything else may happen between them.                            *)
(*                                                                         *)
(* A call that is refused changes nothing and is not an action.            *)
(***************************************************************************)
EXTENDS Naturals, Sequences

CONSTANTS
  Requests,    \* request ids newID can draw
  Proposals,   \* what adapters may ask: see ProposalType
  Gates,       \* checkpoints the project store may raise, same type
  Scopes,      \* actor:device pairs of human clients
  Keys,        \* idempotency keys
  MaxTime,     \* bound of the clock
  Never,       \* "no expiry"
  None         \* "no row"

ASSUME GatewayConstants ==
  /\ MaxTime \in Nat
  /\ Never \notin Nat
  /\ \A p \in Proposals \cup Gates :
       /\ p.kind \in {"command", "final_acceptance", "human_dispatch"}
       /\ p.allowed \subseteq {"approve", "approve_session", "reject", "answer"}
       /\ p.expiry \in Nat \cup {Never}
       /\ p = [vendor |-> p.vendor, session |-> p.session, kind |-> p.kind,
               high |-> p.high, allowed |-> p.allowed, content |-> p.content,
               expiry |-> p.expiry]
       /\ p # None

Kinds == {"command", "final_acceptance", "human_dispatch"}
Actions == {"approve", "approve_session", "reject", "answer"}

\* A create call, reduced to what the repository tells apart. vendor stands
\* for (adapter_kind, vendor_request_id), content for the reviewed input and
\* its hash; kind "human_dispatch" is a dispatch request on a task raised by
\* a human, which the project store approves by itself.
ProposalType(Vendors, Sessions, Contents) ==
  [vendor : Vendors, session : Sessions, kind : Kinds, high : BOOLEAN,
   allowed : SUBSET Actions, content : Contents, expiry : Nat \cup {Never}]

VARIABLES
  \* table interactions, one function per column the properties read
  body,       \* the immutable columns
  status,     \* "absent" where there is no row
  version,    \* row_version, 0 where there is no row
  final,      \* final_action
  hash,       \* input_hash
  \* the other tables
  responses,  \* responses joined with decisions
  idem,       \* idempotency_keys: the command stored under a scope and key
  posted,     \* post_idempotency_keys: per operation and key
  outbox,     \* outbox_events per request
  projection, \* task_projections.state of the request's response
  \* outside the database
  now,
  view,       \* the project store's hydrated copy, None outside a session
  answered    \* history: the responses clients were given for their keys

rowVars == <<body, status, version, final, hash>>
vars == <<body, status, version, final, hash, responses, idem, posted, outbox,
          projection, now, view, answered>>

ClosedStatuses == {"resolved", "expired", "cancelled"}
LegacyHash == "legacy"

\* The policy engine answers under its own scope, with a key per request.
Policy == "policy"
IdemKeys == (Scopes \X Keys) \cup ({Policy} \X Requests)

Contents == {p.content : p \in Proposals \cup Gates}

CommandsBy(scopes, keys) ==
  [scope : scopes, key : keys, request : Requests, action : Actions,
   version : 1..2, hash : Contents]

Commands == CommandsBy(Scopes, Keys)

ASSUME NoneIsNoCommand == None \notin CommandsBy(Scopes \cup {Policy}, Keys \cup Requests)

-----------------------------------------------------------------------------
Pending(r) == status[r] = "pending"
Due(r) == Pending(r) /\ body[r].expiry # Never /\ body[r].expiry <= now
ResponseOf(r) == CHOOSE x \in responses : x.request = r
HasResponse(r) == \E x \in responses : x.request = r

\* A high-risk request never offers an approval for the whole session.
Stripped(p) ==
  IF p.high THEN [p EXCEPT !.allowed = @ \ {"approve_session"}] ELSE p

Row(r, p) ==
  /\ body' = [body EXCEPT ![r] = p]
  /\ status' = [status EXCEPT ![r] = "pending"]
  /\ version' = [version EXCEPT ![r] = 1]
  /\ hash' = [hash EXCEPT ![r] = p.content]
  /\ outbox' = [outbox EXCEPT ![r] = Append(@, "created")]
  /\ UNCHANGED final

\* UPDATE interactions SET status, final_action, row_version+1 for rows that
\* are still pending, and the outbox event of each.
CloseRows(rs, st, act) ==
  /\ status' = [r \in Requests |-> IF r \in rs THEN st ELSE status[r]]
  /\ version' = [r \in Requests |-> IF r \in rs THEN version[r] + 1 ELSE version[r]]
  /\ final' = [r \in Requests |-> IF r \in rs THEN act ELSE final[r]]
  /\ outbox' = [r \in Requests |-> IF r \in rs THEN Append(outbox[r], st) ELSE outbox[r]]
  /\ UNCHANGED <<body, hash>>

Init ==
  /\ body = [r \in Requests |-> None]
  /\ status = [r \in Requests |-> "absent"]
  /\ version = [r \in Requests |-> 0]
  /\ final = [r \in Requests |-> ""]
  /\ hash = [r \in Requests |-> None]
  /\ responses = {}
  /\ idem = [k \in IdemKeys |-> None]
  /\ posted = [op \in {"create", "cancel"} |-> [k \in Keys |-> None]]
  /\ outbox = [r \in Requests |-> <<>>]
  /\ projection = [r \in Requests |-> "none"]
  /\ now = 0
  /\ view = None
  /\ answered = {}

-----------------------------------------------------------------------------
\* The adapter's operations.

\* UNIQUE(username, adapter_kind, session_id, vendor_request_id)
Taken(p) ==
  {r \in Requests : status[r] # "absent" /\ body[r].vendor = p.vendor
                                         /\ body[r].session = p.session}

CreateInteraction(q, k, r) ==
  LET p == Stripped(q) IN
  /\ p.allowed # {}
  /\ posted["create"][k] = None
  /\ Taken(p) = {}
  /\ status[r] = "absent"
  /\ Row(r, p)
  /\ posted' = [posted EXCEPT !["create"][k] = [input |-> p, request |-> r]]
  /\ UNCHANGED <<responses, idem, projection, now, view, answered>>

\* The insert hits the row of the same vendor request: the call is answered
\* with that row when the reviewed input is the same, and its key is stored.
CreateDuplicate(q, k, r) ==
  LET p == Stripped(q) IN
  /\ p.allowed # {}
  /\ posted["create"][k] = None
  /\ r \in Taken(p)
  /\ hash[r] = p.content
  /\ posted' = [posted EXCEPT !["create"][k] = [input |-> p, request |-> r]]
  /\ UNCHANGED <<rowVars, responses, idem, outbox, projection, now, view, answered>>

\* Faulty variant: the update checks the version and not the status.
CancelAnyStatus(r, v, k) ==
  /\ posted["cancel"][k] = None
  /\ status[r] # "absent" /\ version[r] = v
  /\ CloseRows({r}, "cancelled", "cancel")
  /\ posted' = [posted EXCEPT !["cancel"][k] = [input |-> v, request |-> r]]
  /\ UNCHANGED <<responses, idem, projection, now, view, answered>>

CancelInteraction(r, v, k) ==
  /\ posted["cancel"][k] = None
  /\ Pending(r) /\ version[r] = v
  /\ CloseRows({r}, "cancelled", "cancel")
  /\ posted' = [posted EXCEPT !["cancel"][k] = [input |-> v, request |-> r]]
  /\ UNCHANGED <<responses, idem, projection, now, view, answered>>

\* The terminal session an adapter runs in ends.
CancelPendingInteractionsForSession(s) ==
  LET rs == {r \in Requests : Pending(r) /\ body[r].session = s} IN
  /\ rs # {}
  /\ CloseRows(rs, "cancelled", "cancel")
  /\ UNCHANGED <<responses, idem, posted, projection, now, view, answered>>

\* Faulty variant: a request is due only after its expiry.
ExpireOverdueInteractions ==
  LET rs == {r \in Requests : Due(r) /\ body[r].expiry < now} IN
  /\ rs # {}
  /\ CloseRows(rs, "expired", "expire")
  /\ UNCHANGED <<responses, idem, posted, projection, now, view, answered>>

\* The sweep every second, on a listing, on a wait and at server start.
ExpireDueInteractions ==
  LET rs == {r \in Requests : Due(r)} IN
  /\ rs # {}
  /\ CloseRows(rs, "expired", "expire")
  /\ UNCHANGED <<responses, idem, posted, projection, now, view, answered>>

-----------------------------------------------------------------------------
\* The human's operation.

validateResponse(r, action) ==
  /\ action \in body[r].allowed
  /\ ~(body[r].high /\ action = "approve_session")

\* Faulty variant: the expiry is left to the sweep.
AcceptableAnyTime(c) ==
  /\ Pending(c.request)
  /\ version[c.request] = c.version
  /\ hash[c.request] = c.hash
  /\ validateResponse(c.request, c.action)
  /\ ~HasResponse(c.request)

\* Status, version and reviewed input have to be what the client saw.
Acceptable(c) ==
  /\ Pending(c.request)
  /\ ~Due(c.request)
  /\ version[c.request] = c.version
  /\ hash[c.request] = c.hash
  /\ validateResponse(c.request, c.action)
  /\ ~HasResponse(c.request)

Resolve(c) ==
  LET x == [request |-> c.request, action |-> c.action, version |-> c.version,
            hash |-> c.hash, at |-> now]
  IN
  /\ responses' = responses \cup {x}
  /\ CloseRows({c.request}, "resolved", c.action)
  /\ idem' = [idem EXCEPT ![<<c.scope, c.key>>] = c]
  /\ projection' = [projection EXCEPT ![c.request] = "pending"]
  /\ answered' = answered \cup {[scope |-> c.scope, key |-> c.key, response |-> x]}

\* Faulty variant: a key that was used is used again.
RespondAnyKey(c) ==
  /\ Acceptable(c)
  /\ Resolve(c)
  /\ UNCHANGED <<posted, now, view>>

Respond(c) ==
  /\ idem[<<c.scope, c.key>>] = None
  /\ Acceptable(c)
  /\ Resolve(c)
  /\ UNCHANGED <<posted, now, view>>

\* A retry with the stored key and the same input gets the stored response;
\* with other input it is refused.
RespondReplay(c) ==
  /\ idem[<<c.scope, c.key>>] = c
  /\ answered' = answered \cup
       {[scope |-> c.scope, key |-> c.key,
         response |-> ResponseOf(idem[<<c.scope, c.key>>].request)]}
  /\ UNCHANGED <<rowVars, responses, idem, posted, outbox, projection, now, view>>

\* A response that arrives after the expiry closes the request as expired.
RespondLate(c) ==
  /\ idem[<<c.scope, c.key>>] = None
  /\ Due(c.request)
  /\ CloseRows({c.request}, "expired", "expire")
  /\ UNCHANGED <<responses, idem, posted, projection, now, view, answered>>

-----------------------------------------------------------------------------
\* The project store's session: it copies every interaction into its state,
\* changes the copy, and imports the copy when it saves.

\* compatibilityCheckpointStatus: the copy of a resolved row has the verdict
\* as its status when it is a legacy decision, "answered" stands for the rest.
CompatStatus(r) ==
  IF status[r] = "resolved" /\ final[r] \notin {"approve", "approve_session", "reject"}
  THEN "answered" ELSE status[r]

\* legacyInteractionStatus: what the import makes of the status of a copy. It
\* does not know "answered" and takes it for "pending".
LegacyStatus(st) == IF st = "answered" THEN "pending" ELSE st

StoreLoad ==
  /\ view = None
  /\ view' = [status |-> [r \in Requests |-> CompatStatus(r)],
              version |-> version,
              decided |-> {x.request : x \in responses},
              raised |-> {}]
  /\ UNCHANGED <<rowVars, responses, idem, posted, outbox, projection, now, answered>>

\* The change fails or the server stops: the copy is dropped.
StoreAbandon ==
  /\ view # None
  /\ view' = None
  /\ UNCHANGED <<rowVars, responses, idem, posted, outbox, projection, now, answered>>

StoreRaise(g) ==
  /\ view # None
  /\ g \notin view.raised
  /\ view' = [view EXCEPT !.raised = @ \cup {g}]
  /\ UNCHANGED <<rowVars, responses, idem, posted, outbox, projection, now, answered>>

\* Faulty variant: a checkpoint that is closed is closed again.
InViewAnyStatus(r, kind) ==
  view # None /\ view.status[r] # "absent" /\ body[r].kind = kind

InView(r, kind) ==
  /\ view # None
  /\ view.status[r] = "pending"
  /\ body[r].kind = kind

ViewClose(r, st) ==
  view' = [view EXCEPT !.status[r] = st, !.version[r] = @ + 1]

\* The task left the review its acceptance checkpoint belongs to.
StoreExpire(r) ==
  /\ InView(r, "final_acceptance")
  /\ ViewClose(r, "expired")
  /\ UNCHANGED <<rowVars, responses, idem, posted, outbox, projection, now, answered>>

\* A dispatch gate of a human-raised task is approved without a decision.
StoreAutoApprove(r) ==
  /\ InView(r, "human_dispatch")
  /\ ViewClose(r, "resolved")
  /\ UNCHANGED <<rowVars, responses, idem, posted, outbox, projection, now, answered>>

\* The same when the state is loaded for a snapshot: the stored interaction
\* is answered too, as the policy engine, if it still takes the answer.
StoreResolveStaleGate(r) ==
  LET c == [scope |-> Policy, key |-> r, request |-> r, action |-> "approve",
            version |-> version[r], hash |-> hash[r]]
  IN
  /\ InView(r, "human_dispatch")
  /\ ViewClose(r, "resolved")
  /\ \/ idem[<<Policy, r>>] = None /\ Acceptable(c) /\ Resolve(c)
     \/ /\ idem[<<Policy, r>>] = None /\ Due(r)
        /\ CloseRows({r}, "expired", "expire")
        /\ UNCHANGED <<responses, idem, projection, answered>>
     \/ /\ idem[<<Policy, r>>] = None => ~Acceptable(c) /\ ~Due(r)
        /\ UNCHANGED <<rowVars, responses, idem, outbox, projection, answered>>
  /\ UNCHANGED <<posted, now>>

\* Faulty variants: the import does not look at the row's version, or takes a
\* copy of the same version for newer.
NewerBlind(r) ==
  LET st == LegacyStatus(view.status[r]) IN
  /\ st # "absent"
  /\ Pending(r) \/ st # "pending"

NewerOrSame(r) ==
  LET st == LegacyStatus(view.status[r]) IN
  /\ st # "absent"
  /\ view.version[r] >= version[r]
  /\ Pending(r) \/ st # "pending"

\* importLegacyCheckpoint replaces a row by a newer copy, never a closed row
\* by a pending copy.
Newer(r) ==
  LET st == LegacyStatus(view.status[r]) IN
  /\ st # "absent"
  /\ \/ view.version[r] > version[r]
     \/ Pending(r) /\ st # "pending" /\ view.version[r] >= version[r]
  /\ Pending(r) \/ st # "pending"

\* importLegacyDecision rewrites the row of every response in the copy, in
\* the words of the legacy decision types.
Relabelled(kind, action) ==
  IF kind # "final_acceptance" THEN action
  ELSE IF action \in {"approve", "approve_session"} THEN "approve"
  ELSE IF action = "reject" THEN "reject" ELSE "final_acceptance_answer"

FinalActionOf(st) ==
  CASE st = "resolved" -> "approve" [] st = "expired" -> "expire"
    [] st = "cancelled" -> "cancel" [] OTHER -> ""

EventOf(st) == IF st \in {"expired", "cancelled"} THEN st ELSE "updated"

\* A checkpoint's id is also its vendor request id.
RaisedAs(g, r) == [g EXCEPT !.vendor = r]

\* place gives every raised checkpoint a request id of its own. The save is
\* refused when its row is not inserted (INSERT OR IGNORE finds its id or its
\* vendor request taken) and there is none to update.
StoreSave(place) ==
  LET updated == {r \in Requests : Newer(r)}
      placed  == {place[g] : g \in view.raised}
      gate(r) == CHOOSE g \in view.raised : place[g] = r
  IN
  /\ view # None
  /\ \A g \in view.raised :
       status[place[g]] = "absent" /\ Taken(RaisedAs(g, place[g])) = {}
  /\ \A g, h \in view.raised : place[g] = place[h] => g = h
  /\ body' = [r \in Requests |-> IF r \in placed THEN RaisedAs(gate(r), r) ELSE body[r]]
  /\ hash' = [r \in Requests |-> IF r \in placed THEN gate(r).content
                                 ELSE IF r \in updated THEN LegacyHash ELSE hash[r]]
  /\ version' = [r \in Requests |-> IF r \in placed THEN 1
                                    ELSE IF r \in updated THEN view.version[r] ELSE version[r]]
  /\ status' = [r \in Requests |-> IF r \in placed THEN "pending"
                                   ELSE IF r \in view.decided THEN "resolved"
                                   ELSE IF r \in updated THEN view.status[r] ELSE status[r]]
  /\ final' = [r \in Requests |->
                 IF r \in view.decided THEN Relabelled(body[r].kind, ResponseOf(r).action)
                 ELSE IF r \in updated THEN FinalActionOf(view.status[r]) ELSE final[r]]
  /\ outbox' = [r \in Requests |->
                  IF r \in placed THEN Append(outbox[r], "created")
                  ELSE IF r \in updated THEN Append(outbox[r], EventOf(view.status[r]))
                  ELSE outbox[r]]
  /\ view' = None
  /\ UNCHANGED <<responses, idem, posted, projection, now, answered>>

-----------------------------------------------------------------------------
Tick ==
  /\ now < MaxTime
  /\ now' = now + 1
  /\ UNCHANGED <<rowVars, responses, idem, posted, outbox, projection, view, answered>>

Sessions == {p.session : p \in Proposals}

AdapterNext ==
  \/ \E q \in Proposals, k \in Keys, r \in Requests :
       CreateInteraction(q, k, r) \/ CreateDuplicate(q, k, r)
  \/ \E r \in Requests, v \in 1..2, k \in Keys : CancelInteraction(r, v, k)
  \/ \E s \in Sessions : CancelPendingInteractionsForSession(s)

HumanNext ==
  \E c \in Commands : Respond(c) \/ RespondReplay(c) \/ RespondLate(c)

StoreNext ==
  \/ StoreLoad
  \/ StoreAbandon
  \/ \E g \in Gates : StoreRaise(g)
  \/ \E r \in Requests : StoreExpire(r) \/ StoreAutoApprove(r) \/ StoreResolveStaleGate(r)
  \/ \E place \in [Gates -> Requests] : StoreSave(place)

Next == AdapterNext \/ HumanNext \/ StoreNext \/ ExpireDueInteractions \/ Tick

\* The expiry sweep runs every second for as long as the server lives.
Fairness == WF_vars(ExpireDueInteractions)

Spec == Init /\ [][Next]_vars /\ Fairness

-----------------------------------------------------------------------------
Responses ==
  [request : Requests, action : Actions, version : 1..2,
   hash : Contents, at : 0..MaxTime]

Bodies == {Stripped(p) : p \in Proposals} \cup {RaisedAs(g, r) : g \in Gates, r \in Requests}

FinalActions == Actions \cup {"", "expire", "cancel", "final_acceptance_answer"}

Views ==
  [status : [Requests -> {"absent", "pending", "answered"} \cup ClosedStatuses],
   version : [Requests -> 0..2], decided : SUBSET Requests, raised : SUBSET Gates]

\* Every table and the store's copy hold rows of their schema; the checks of
\* the schema (status, row_version >= 1) are part of it.
TypeOK ==
  /\ body \in [Requests -> Bodies \cup {None}]
  /\ status \in [Requests -> {"absent", "pending"} \cup ClosedStatuses]
  /\ version \in [Requests -> 0..2]
  /\ final \in [Requests -> FinalActions]
  /\ hash \in [Requests -> Contents \cup {LegacyHash, None}]
  /\ responses \subseteq Responses
  /\ outbox \in [Requests -> Seq(ClosedStatuses \cup {"created", "updated"})]
  /\ projection \in [Requests -> {"none", "pending"}]
  /\ now \in 0..MaxTime
  /\ view = None \/ view \in Views

\* A row is closed exactly once, whoever closes it and however many closings
\* race: its version counts one closing, and its outbox tells subscribers of
\* its creation and then of that closing, under the name of the status the
\* row has. (An automatically approved gate is announced as "updated".)
Announced(r) ==
  /\ status[r] = "absent" => outbox[r] = <<>>
  /\ status[r] = "pending" => outbox[r] = <<"created">>
  /\ status[r] \in ClosedStatuses =>
       \/ outbox[r] = <<"created", status[r]>>
       \/ /\ outbox[r] = <<"created", "updated">>
          /\ status[r] = "resolved" /\ body[r].kind = "human_dispatch"

ClosedOnce ==
  \A r \in Requests :
    /\ version[r] = (IF status[r] = "absent" THEN 0 ELSE IF Pending(r) THEN 1 ELSE 2)
    /\ Announced(r)

\* The decision an adapter is given is the human's: a row is resolved exactly
\* when it has a response, and its final action says what the response says,
\* also after the project store has rewritten it. Dispatch gates of human
\* tasks may be resolved without one (StoreAutoApprove).
Verdict(action) ==
  CASE action \in {"approve", "approve_session"} -> "approve"
    [] action = "reject" -> "reject"
    [] OTHER -> "other"

ResolvedAsAnswered ==
  \A r \in Requests : status[r] # "absent" =>
    /\ body[r].kind # "human_dispatch" => (status[r] = "resolved" <=> HasResponse(r))
    /\ HasResponse(r) => Verdict(final[r]) = Verdict(ResponseOf(r).action)

\* A response is on the input the row was raised with, on a row that was
\* still open and in time, and its effect on the task is queued.
ReviewedInTime ==
  \A x \in responses :
    /\ x.hash = body[x.request].content
    /\ x.version = 1
    /\ body[x.request].expiry # Never => x.at < body[x.request].expiry
    /\ projection[x.request] # "none"

\* A repeated call changes nothing: one idempotency key has one answer, a
\* create key names a row of the vendor request it was sent for, and no two
\* rows are about the same vendor request.
RetriesChangeNothing ==
  /\ \A a, b \in answered : a.scope = b.scope /\ a.key = b.key => a.response = b.response
  /\ \A r, s \in Requests :
       status[r] # "absent" /\ s \in Taken(body[r]) => r = s
  /\ \A k \in Keys : posted["create"][k] # None =>
       posted["create"][k].request \in Taken(posted["create"][k].input)

\* The store's copy may be behind the tables but is at most its own one
\* closing ahead of them, and what it calls decided is decided: this is what
\* makes importing a stale copy harmless.
ViewConsistent ==
  view # None => \A r \in Requests :
    /\ view.status[r] = "absent" <=> view.version[r] = 0
    /\ view.status[r] = "pending" <=> view.version[r] = 1
    /\ view.version[r] # 0 => version[r] # 0
    /\ view.status[r] \in {"answered", "cancelled"} => version[r] = 2
    /\ view.status[r] = "expired" =>
         version[r] = 2 \/ body[r].kind = "final_acceptance"
    /\ view.status[r] = "resolved" =>
         HasResponse(r) \/ body[r].kind = "human_dispatch"
    /\ r \in view.decided => HasResponse(r)

\* The gateway implements the promise of FinalDecision.
Outcome(r) ==
  CASE status[r] = "absent" -> "unasked"
    [] status[r] = "pending" -> "open"
    [] status[r] = "resolved" -> Verdict(final[r])
    [] OTHER -> status[r]

Outcomes == {"approve", "reject", "other", "expired", "cancelled"}

Decision == INSTANCE FinalDecision
  WITH outcome <- [r \in Requests |-> Outcome(r)], Outcomes <- Outcomes

OneFinalDecision == Decision!FDSpec

\* A request nobody answers in time does not stay open.
DueRequestsClose ==
  \A r \in Requests : Due(r) ~> ~Pending(r)
=============================================================================
