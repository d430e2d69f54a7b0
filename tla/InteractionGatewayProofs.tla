---------------------- MODULE InteractionGatewayProofs ----------------------
(***************************************************************************)
(* Proofs about InteractionGateway, for any set of requests, calls, keys   *)
(* and any clock bound. The inductive invariant joins the properties of    *)
(* the tables (Tables) with that of the project store's copy (ViewOK); the *)
(* two meet in Advance, what every transaction guarantees a copy taken     *)
(* before it: rows only get newer, keep their body, keep their response.   *)
(***************************************************************************)
EXTENDS InteractionGateway, SequenceTheorems, TLAPS

Events == ClosedStatuses \cup {"created", "updated"}

TypeTables ==
  /\ body \in [Requests -> Bodies \cup {None}]
  /\ status \in [Requests -> {"absent", "pending"} \cup ClosedStatuses]
  /\ version \in [Requests -> 0..2]
  /\ final \in [Requests -> FinalActions]
  /\ hash \in [Requests -> Contents \cup {LegacyHash, None}]
  /\ responses \subseteq Responses
  /\ outbox \in [Requests -> Seq(Events)]
  /\ projection \in [Requests -> {"none", "pending"}]
  /\ now \in 0..MaxTime

\* A present row has a body, and while it is open its hash is the hash of
\* that body; a response is unique to its row, and the row is resolved.
RowsOK ==
  /\ \A r \in Requests : status[r] # "absent" => body[r] \in Bodies
  /\ \A r \in Requests : Pending(r) => hash[r] = body[r].content
  /\ \A x, y \in responses : x.request = y.request => x = y
  /\ \A x \in responses : status[x.request] = "resolved"

Tables == TypeTables /\ RowsOK /\ ClosedOnce /\ ResolvedAsAnswered /\ ReviewedInTime

ViewOK == (view = None \/ view \in Views) /\ ViewConsistent

IInv == Tables /\ ViewOK

Advance ==
  \A r \in Requests :
    /\ version[r] <= version'[r] /\ version'[r] <= version[r] + 1
    /\ version[r] # 0 => body'[r] = body[r]
    /\ HasResponse(r) => HasResponse(r)'
    /\ version[r] = 2 => /\ status'[r] = status[r]
                         /\ Verdict(final'[r]) = Verdict(final[r])

-----------------------------------------------------------------------------
LEMMA AppendPair ==
  ASSUME NEW S, NEW c \in S, NEW d \in S
  PROVE  Append(<<c>>, d) = <<c, d>>
<1> DEFINE a == Append(<<c>>, d)
           b == <<c, d>>
<1>1. <<c>> \in Seq(S)
  OBVIOUS
<1>2. a \in Seq(S)
  BY <1>1
<1>3. Len(a) = 2
  BY <1>1
<1>4. a[1] = c /\ a[2] = d
  BY <1>1
<1>5. b \in Seq(S) /\ Len(b) = 2 /\ b[1] = c /\ b[2] = d
  OBVIOUS
<1>6. \A i \in 1..Len(a) : a[i] = b[i]
  BY <1>3, <1>4, <1>5
<1>. HIDE DEF a, b
<1>7. a = b
  BY <1>2, <1>3, <1>5, <1>6, SeqEqual
<1>. QED BY <1>7 DEF a, b

\* What an announcement is: the outbox of a new row, and of a closed one.
LEMMA Announcements ==
  /\ Append(<<>>, "created") = <<"created">>
  /\ <<>> \in Seq(Events) /\ <<"created">> \in Seq(Events)
  /\ \A e \in Events : /\ Append(<<"created">>, e) = <<"created", e>>
                       /\ <<"created", e>> \in Seq(Events)
<1>1. "created" \in Events
  BY DEF Events
<1>2. ASSUME NEW e \in Events
      PROVE  Append(<<"created">>, e) = <<"created", e>> /\ <<"created", e>> \in Seq(Events)
  BY <1>1, AppendPair
<1>. QED BY <1>1, <1>2

\* Every body is a record of its fields; only its risk and its actions change
\* on the way in.
LEMMA BodyFacts ==
  /\ \A q \in Proposals : /\ Stripped(q) \in Bodies
                          /\ Stripped(q).content = q.content
                          /\ Stripped(q).expiry = q.expiry
  /\ \A g \in Gates, r \in Requests : /\ RaisedAs(g, r) \in Bodies
                                      /\ RaisedAs(g, r).content = g.content
                                      /\ RaisedAs(g, r).expiry = g.expiry
  /\ \A b \in Bodies : /\ b.content \in Contents
                       /\ b.expiry \in Nat \cup {Never}
<1>1. \A p \in Proposals \cup Gates :
        DOMAIN p = {"vendor", "session", "kind", "high", "allowed", "content", "expiry"}
  BY GatewayConstants
<1>2. ASSUME NEW q \in Proposals
      PROVE  /\ Stripped(q) \in Bodies
             /\ Stripped(q).content = q.content
             /\ Stripped(q).expiry = q.expiry
  <2>1. Stripped(q) \in Bodies
    BY DEF Bodies
  <2>2. Stripped(q).content = q.content /\ Stripped(q).expiry = q.expiry
    BY <1>1 DEF Stripped
  <2>. QED BY <2>1, <2>2
<1>3. ASSUME NEW g \in Gates, NEW r \in Requests
      PROVE  /\ RaisedAs(g, r) \in Bodies
             /\ RaisedAs(g, r).content = g.content
             /\ RaisedAs(g, r).expiry = g.expiry
  <2>1. RaisedAs(g, r) \in Bodies
    BY DEF Bodies
  <2>2. RaisedAs(g, r).content = g.content /\ RaisedAs(g, r).expiry = g.expiry
    BY <1>1 DEF RaisedAs
  <2>. QED BY <2>1, <2>2
<1>4. \A b \in Bodies : b.content \in Contents /\ b.expiry \in Nat \cup {Never}
  BY <1>2, <1>3, GatewayConstants DEF Bodies, Contents
<1>. QED BY <1>2, <1>3, <1>4

\* A response is the one its row answers with.
LEMMA ResponseIs ==
  ASSUME NEW R, \A x, y \in R : x.request = y.request => x = y, NEW x \in R
  PROVE  (CHOOSE y \in R : y.request = x.request) = x
<1> DEFINE z == CHOOSE y \in R : y.request = x.request
<1>1. \E y \in R : y.request = x.request
  OBVIOUS
<1>2. z \in R /\ z.request = x.request
  BY <1>1
<1>. HIDE DEF z
<1>3. z = x
  BY <1>2
<1>. QED BY <1>3 DEF z

\* The version of a row tells whether it is absent, open or closed.
LEMMA Versions ==
  ASSUME TypeTables, ClosedOnce, NEW r \in Requests
  PROVE  /\ version[r] \in {0, 1, 2}
         /\ version[r] = 0 <=> status[r] = "absent"
         /\ version[r] = 1 <=> Pending(r)
         /\ version[r] = 2 <=> status[r] \in ClosedStatuses
<1>1. status[r] \in {"absent", "pending"} \cup ClosedStatuses
  BY DEF TypeTables
<1>2. version[r] = (IF status[r] = "absent" THEN 0 ELSE IF Pending(r) THEN 1 ELSE 2)
  BY DEF ClosedOnce
<1>3. CASE status[r] = "absent"
  BY <1>2, <1>3 DEF Pending, ClosedStatuses
<1>4. CASE Pending(r)
  BY <1>2, <1>4 DEF Pending, ClosedStatuses
<1>5. CASE status[r] \in ClosedStatuses
  BY <1>2, <1>5 DEF Pending, ClosedStatuses
<1>. QED BY <1>1, <1>3, <1>4, <1>5 DEF Pending

-----------------------------------------------------------------------------
LEMMA InitTables == Init => IInv
<1> SUFFICES ASSUME Init PROVE IInv
  OBVIOUS
<1>1. TypeTables
  <2>1. outbox \in [Requests -> Seq(Events)]
    <3>1. <<>> \in Seq(Events)
      BY Announcements
    <3>. QED BY <3>1 DEF Init
  <2>2. now \in 0..MaxTime
    <3>1. MaxTime \in Nat
      BY GatewayConstants, Zenon
    <3>2. now = 0
      BY DEF Init
    <3>. QED BY <3>1, <3>2
  <2>3. final \in [Requests -> FinalActions] /\ hash \in [Requests -> Contents \cup {LegacyHash, None}]
    BY DEF Init, FinalActions
  <2>4. body \in [Requests -> Bodies \cup {None}]
    BY DEF Init
  <2>5. /\ status \in [Requests -> {"absent", "pending"} \cup ClosedStatuses]
        /\ projection \in [Requests -> {"none", "pending"}]
    BY DEF Init
  <2>7. version \in [Requests -> 0..2]
    <3>1. 0 \in 0..2
      OBVIOUS
    <3>. QED BY <3>1 DEF Init
  <2>6. responses \subseteq Responses
    BY DEF Init
  <2>. QED BY <2>1, <2>2, <2>3, <2>4, <2>5, <2>6, <2>7 DEF TypeTables
<1>2. RowsOK
  BY DEF Init, RowsOK, Pending
<1>3. ClosedOnce /\ ResolvedAsAnswered /\ ReviewedInTime
  BY DEF Init, ClosedOnce, Announced, ClosedStatuses, ResolvedAsAnswered, ReviewedInTime
<1>4. ViewOK
  BY DEF Init, ViewOK, ViewConsistent
<1>. QED BY <1>1, <1>2, <1>3, <1>4 DEF IInv, Tables

\* A transaction that closes open rows without a response.
LEMMA CloseTables ==
  ASSUME Tables, NEW rs \in SUBSET Requests, NEW st \in {"expired", "cancelled"},
         NEW act \in FinalActions, \A r \in rs : Pending(r),
         CloseRows(rs, st, act), UNCHANGED <<responses, projection, now>>
  PROVE  Tables' /\ Advance
<1> USE DEF Tables, Pending
<1>1. \A r \in rs : Append(outbox[r], st) = <<"created", st>> /\ <<"created", st>> \in Seq(Events)
  BY Announcements DEF ClosedOnce, Announced, Events, ClosedStatuses
<1>2. TypeTables'
  <2>1. outbox' \in [Requests -> Seq(Events)]
    BY <1>1 DEF TypeTables, CloseRows
  <2>2. version' \in [Requests -> 0..2]
    BY DEF TypeTables, ClosedOnce, CloseRows
  <2>3. status' \in [Requests -> {"absent", "pending"} \cup ClosedStatuses]
    BY DEF TypeTables, CloseRows, ClosedStatuses
  <2>4. final' \in [Requests -> FinalActions]
    BY DEF TypeTables, CloseRows
  <2>5. UNCHANGED <<body, hash, responses, projection, now>>
    BY DEF CloseRows
  <2>. QED BY <2>1, <2>2, <2>3, <2>4, <2>5 DEF TypeTables
<1>3. RowsOK'
  BY DEF RowsOK, CloseRows, TypeTables, Responses
<1>4. ClosedOnce'
  BY <1>1 DEF ClosedOnce, Announced, CloseRows, TypeTables, ClosedStatuses
<1>5. \A r \in Requests : HasResponse(r)' <=> HasResponse(r)
  BY DEF HasResponse
<1>6. ResolvedAsAnswered'
  <2>1. \A r \in rs : ~HasResponse(r)
    BY DEF RowsOK, HasResponse
  <2>2. \A r \in Requests : ResponseOf(r)' = ResponseOf(r)
    BY DEF ResponseOf
  <2>. QED BY <1>5, <2>1, <2>2 DEF ResolvedAsAnswered, CloseRows, TypeTables
<1>7. ReviewedInTime'
  BY DEF ReviewedInTime, CloseRows
<1>8. Advance
  <2>1. \A r \in Requests : version[r] <= version'[r] /\ version'[r] <= version[r] + 1
    <3>1. \A r \in Requests : version[r] \in Nat
      BY DEF TypeTables
    <3>. QED BY <3>1 DEF CloseRows
  <2>2. body' = body
    BY DEF CloseRows
  <2>3. \A r \in Requests : version[r] = 2 => status'[r] = status[r] /\ final'[r] = final[r]
    <3>1. \A r \in Requests : version[r] = 2 => r \notin rs
      BY Versions
    <3>. QED BY <3>1 DEF CloseRows
  <2>. QED BY <1>5, <2>1, <2>2, <2>3 DEF Advance
<1>. QED BY <1>2, <1>3, <1>4, <1>6, <1>7, <1>8

\* A new row takes an id no response is about.
LEMMA CreateTables ==
  ASSUME Tables, NEW q \in Requests, NEW p \in Bodies, status[q] = "absent",
         Row(q, p), UNCHANGED <<responses, projection, now>>
  PROVE  Tables' /\ Advance
<1> USE DEF Tables, Pending
<1>1. Append(outbox[q], "created") = <<"created">> /\ <<"created">> \in Seq(Events)
  BY Announcements DEF ClosedOnce, Announced
<1>2. \A x \in responses : x.request \in Requests /\ x.request # q
  BY DEF RowsOK, TypeTables, Responses
<1>3. \A r \in Requests : version[r] \in Nat /\ (version[r] = 0 <=> status[r] = "absent")
  BY Versions
<1>4. TypeTables'
  <2>1. outbox' \in [Requests -> Seq(Events)]
    BY <1>1 DEF TypeTables, Row
  <2>2. version' \in [Requests -> 0..2]
    BY DEF TypeTables, Row
  <2>3. /\ status' \in [Requests -> {"absent", "pending"} \cup ClosedStatuses]
        /\ body' \in [Requests -> Bodies \cup {None}]
    BY DEF TypeTables, Row
  <2>4. hash' \in [Requests -> Contents \cup {LegacyHash, None}]
    BY BodyFacts DEF TypeTables, Row
  <2>5. UNCHANGED <<final, responses, projection, now>>
    BY DEF Row
  <2>. QED BY <2>1, <2>2, <2>3, <2>4, <2>5 DEF TypeTables
<1>5. RowsOK'
  BY <1>2 DEF RowsOK, Row, TypeTables
<1>6. ClosedOnce'
  BY <1>1 DEF ClosedOnce, Announced, Row, TypeTables, ClosedStatuses
<1>7. ResolvedAsAnswered'
  BY <1>2 DEF ResolvedAsAnswered, Row, TypeTables, HasResponse, ResponseOf
<1>8. ReviewedInTime'
  BY <1>2 DEF ReviewedInTime, Row, TypeTables
<1>9. Advance
  <2>1. \A r \in Requests : version[r] <= version'[r] /\ version'[r] <= version[r] + 1
    BY <1>3 DEF Row, TypeTables
  <2>2. \A r \in Requests : HasResponse(r)' <=> HasResponse(r)
    BY DEF HasResponse
  <2>3. \A r \in Requests : r # q => body'[r] = body[r] /\ status'[r] = status[r]
    BY DEF Row, TypeTables
  <2>. QED BY <1>3, <2>1, <2>2, <2>3 DEF Advance, Row
<1>. QED BY <1>4, <1>5, <1>6, <1>7, <1>8, <1>9

\* Answering an open row in time, for a human or for the policy engine.
LEMMA ResolveTables ==
  ASSUME Tables, NEW c, c.request \in Requests, c.action \in Actions,
         c.version \in 1..2, c.hash \in Contents,
         Acceptable(c), Resolve(c), UNCHANGED now
  PROVE  Tables' /\ Advance /\ HasResponse(c.request)'
<1> DEFINE q == c.request
           y == [request |-> c.request, action |-> c.action, version |-> c.version,
                 hash |-> c.hash, at |-> now]
<1> USE DEF Tables
<1>1. /\ Pending(q) /\ ~Due(q) /\ version[q] = c.version /\ hash[q] = c.hash
      /\ ~HasResponse(q)
  BY DEF Acceptable
<1>2. /\ responses' = responses \cup {y}
      /\ CloseRows({q}, "resolved", c.action)
      /\ projection' = [projection EXCEPT ![q] = "pending"]
      /\ now' = now
  BY DEF Resolve
<1>3. y \in Responses /\ y.request = q
  BY DEF Responses, TypeTables
<1>4. Append(outbox[q], "resolved") = <<"created", "resolved">> /\ <<"created", "resolved">> \in Seq(Events)
  BY <1>1, Announcements DEF ClosedOnce, Announced, Events, ClosedStatuses, Pending
<1>5. \A x \in responses : x.request \in Requests /\ x.request # q
  BY <1>1 DEF HasResponse, TypeTables, Responses
<1>6. version[q] = 1 /\ \A r \in Requests : version[r] \in Nat
  BY <1>1, Versions
<1> HIDE DEF y
<1>7. TypeTables'
  <2>1. outbox' \in [Requests -> Seq(Events)]
    BY <1>2, <1>4 DEF TypeTables, CloseRows
  <2>2. version' \in [Requests -> 0..2]
    BY <1>2, <1>6 DEF TypeTables, CloseRows
  <2>3. status' \in [Requests -> {"absent", "pending"} \cup ClosedStatuses]
    BY <1>2 DEF TypeTables, CloseRows, ClosedStatuses
  <2>4. final' \in [Requests -> FinalActions]
    BY <1>2 DEF TypeTables, CloseRows, FinalActions
  <2>5. responses' \subseteq Responses /\ projection' \in [Requests -> {"none", "pending"}]
    BY <1>2, <1>3 DEF TypeTables
  <2>6. UNCHANGED <<body, hash, now>>
    BY <1>2 DEF CloseRows
  <2>. QED BY <2>1, <2>2, <2>3, <2>4, <2>5, <2>6 DEF TypeTables
<1>8. RowsOK'
  BY <1>1, <1>2, <1>3, <1>5 DEF RowsOK, CloseRows, TypeTables, Pending
<1>9. ClosedOnce'
  BY <1>1, <1>2, <1>4, <1>6 DEF ClosedOnce, Announced, CloseRows, TypeTables, ClosedStatuses, Pending
<1>10. \A r \in Requests : HasResponse(r)' <=> HasResponse(r) \/ r = q
  BY <1>2, <1>3 DEF HasResponse
<1>11. ResolvedAsAnswered'
  <2> SUFFICES ASSUME NEW r \in Requests, status'[r] # "absent"
               PROVE  /\ body'[r].kind # "human_dispatch" => (status'[r] = "resolved" <=> HasResponse(r)')
                      /\ HasResponse(r)' => Verdict(final'[r]) = Verdict(ResponseOf(r)'.action)
    BY DEF ResolvedAsAnswered
  <2>1. CASE r = q
    <3>1. status'[q] = "resolved" /\ final'[q] = c.action /\ y.action = c.action
      BY <1>2 DEF CloseRows, y
    <3>2. ResponseOf(q)' = y
      BY <1>2, <1>3, <1>8, ResponseIs DEF RowsOK, ResponseOf
    <3>. QED BY <2>1, <3>1, <3>2, <1>10
  <2>2. CASE r # q
    <3>1. status'[r] = status[r] /\ final'[r] = final[r] /\ body' = body
      BY <1>2, <2>2 DEF CloseRows
    <3>2. HasResponse(r) => ResponseOf(r)' = ResponseOf(r)
      <4> SUFFICES ASSUME HasResponse(r) PROVE ResponseOf(r)' = ResponseOf(r)
        OBVIOUS
      <4>1. PICK x \in responses : x.request = r
        BY DEF HasResponse
      <4>2. ResponseOf(r) = x
        BY <4>1, ResponseIs DEF RowsOK, ResponseOf
      <4>3. x \in responses'
        BY <4>1, <1>2
      <4>4. ResponseOf(r)' = x
        BY <4>1, <4>3, <1>8, ResponseIs DEF RowsOK, ResponseOf
      <4>. QED BY <4>2, <4>4
    <3>. QED BY <2>2, <3>1, <3>2, <1>10 DEF ResolvedAsAnswered
  <2>. QED BY <2>1, <2>2
<1>12. ReviewedInTime'
  <2>1. y.hash = body[q].content /\ y.version = 1 /\ y.at = now
    BY <1>1, <1>6 DEF y, RowsOK
  <2>2. body[q].expiry # Never => now < body[q].expiry
    <3>1. body[q].expiry \in Nat \cup {Never}
      BY <1>1, BodyFacts DEF RowsOK, Pending
    <3>2. now \in Nat
      BY DEF TypeTables
    <3>. QED BY <1>1, <3>1, <3>2 DEF Due
  <2>3. projection'[q] = "pending" /\ body' = body
    BY <1>2 DEF TypeTables, CloseRows
  <2>4. \A x \in responses : projection'[x.request] = projection[x.request]
    BY <1>2, <1>5 DEF TypeTables
  <2>. QED BY <1>2, <1>3, <2>1, <2>2, <2>3, <2>4 DEF ReviewedInTime
<1>13. Advance
  <2>1. \A r \in Requests : version[r] <= version'[r] /\ version'[r] <= version[r] + 1
    BY <1>2, <1>6 DEF CloseRows
  <2>2. body' = body
    BY <1>2 DEF CloseRows
  <2>3. \A r \in Requests : version[r] = 2 => status'[r] = status[r] /\ final'[r] = final[r]
    BY <1>2, <1>6 DEF CloseRows
  <2>. QED BY <1>10, <2>1, <2>2, <2>3 DEF Advance
<1>. QED BY <1>7, <1>8, <1>9, <1>10, <1>11, <1>12, <1>13

-----------------------------------------------------------------------------
\* What a save rewrites: rows that are still open, and only with a closing of
\* the store's own.
LEMMA SavedRows ==
  ASSUME Tables, ViewOK, view # None, NEW r \in Requests, Newer(r)
  PROVE  /\ Pending(r) /\ view.version[r] = 2 /\ r \notin view.decided
         /\ \/ view.status[r] = "expired"
            \/ view.status[r] = "resolved" /\ body[r].kind = "human_dispatch"
<1> USE DEF Tables
<1>1. /\ view.status[r] \in {"absent", "pending", "answered", "resolved", "expired", "cancelled"}
      /\ view.version[r] \in {0, 1, 2}
  BY DEF ViewOK, Views, ClosedStatuses
<1>2. version[r] \in {0, 1, 2} /\ (version[r] = 1 <=> Pending(r))
  BY Versions
<1>3. HasResponse(r) => ~Pending(r)
  BY DEF HasResponse, RowsOK, Pending
<1>4. /\ view.status[r] = "absent" <=> view.version[r] = 0
      /\ view.status[r] = "pending" <=> view.version[r] = 1
      /\ view.version[r] # 0 => version[r] # 0
      /\ view.status[r] \in {"answered", "cancelled"} => version[r] = 2
      /\ view.status[r] = "resolved" => HasResponse(r) \/ body[r].kind = "human_dispatch"
      /\ r \in view.decided => HasResponse(r)
  BY DEF ViewOK, ViewConsistent
<1>5. /\ view.status[r] # "absent"
      /\ view.version[r] > version[r] \/ Pending(r)
      /\ Pending(r) \/ view.status[r] \notin {"pending", "answered"}
      /\ view.version[r] > version[r] \/ view.status[r] \notin {"pending", "answered"}
  BY <1>1 DEF Newer, LegacyStatus
<1>6. Pending(r)
  BY <1>1, <1>2, <1>4, <1>5
<1>7. view.version[r] = 2
  BY <1>1, <1>2, <1>4, <1>5, <1>6
<1>. QED BY <1>1, <1>2, <1>3, <1>4, <1>5, <1>6, <1>7

\* Rewriting a final action in the legacy words keeps its verdict.
LEMMA Relabelling ==
  ASSUME NEW k, NEW a \in Actions
  PROVE  Relabelled(k, a) \in FinalActions /\ Verdict(Relabelled(k, a)) = Verdict(a)
<1>1. a \in {"approve", "approve_session", "reject", "answer"}
  BY DEF Actions
<1>. QED BY <1>1 DEF Relabelled, Verdict, FinalActions, Actions

\* Importing a copy, however old, keeps the tables right: this is where the
\* consistency of the copy is needed.
LEMMA SaveTables ==
  ASSUME Tables, ViewOK, NEW place \in [Gates -> Requests], StoreSave(place)
  PROVE  Tables' /\ Advance /\ ViewOK'
<1> DEFINE updated == {r \in Requests : Newer(r)}
           placed == {place[g] : g \in view.raised}
           gate(r) == CHOOSE g \in view.raised : place[g] = r
<1> USE DEF Tables
<1>1. /\ view # None /\ view \in Views
      /\ UNCHANGED <<responses, projection, now>>
      /\ \A r \in Requests : HasResponse(r)' <=> HasResponse(r)
      /\ \A r \in Requests : ResponseOf(r)' = ResponseOf(r)
  BY DEF StoreSave, ViewOK, HasResponse, ResponseOf
<1>2. \A r \in placed : r \in Requests /\ status[r] = "absent" /\ gate(r) \in Gates
  <2>1. view.raised \subseteq Gates
    BY <1>1 DEF Views
  <2>2. \A r \in placed : gate(r) \in view.raised
    OBVIOUS
  <2>. QED BY <2>1, <2>2 DEF StoreSave
<1>3. \A r \in updated : /\ Pending(r) /\ view.version[r] = 2 /\ r \notin view.decided
                         /\ \/ view.status[r] = "expired"
                            \/ view.status[r] = "resolved" /\ body[r].kind = "human_dispatch"
  BY <1>1, SavedRows
<1>4. \A r \in view.decided : /\ r \in Requests /\ HasResponse(r) /\ status[r] = "resolved"
                              /\ ResponseOf(r).action \in Actions
  <2> SUFFICES ASSUME NEW r \in view.decided
               PROVE  /\ r \in Requests /\ HasResponse(r) /\ status[r] = "resolved"
                      /\ ResponseOf(r).action \in Actions
    OBVIOUS
  <2>1. r \in Requests /\ HasResponse(r)
    BY <1>1 DEF Views, ViewOK, ViewConsistent
  <2>2. PICK x \in responses : x.request = r
    BY <2>1 DEF HasResponse
  <2>3. ResponseOf(r) = x
    BY <2>2, ResponseIs DEF RowsOK, ResponseOf
  <2>4. x.action \in Actions
    BY <2>2 DEF TypeTables, Responses
  <2>. QED BY <2>1, <2>2, <2>3, <2>4 DEF RowsOK
<1>5. /\ body' = [r \in Requests |-> IF r \in placed THEN RaisedAs(gate(r), r) ELSE body[r]]
      /\ hash' = [r \in Requests |-> IF r \in placed THEN gate(r).content
                                      ELSE IF r \in updated THEN LegacyHash ELSE hash[r]]
      /\ version' = [r \in Requests |-> IF r \in placed THEN 1
                        ELSE IF r \in updated THEN view.version[r] ELSE version[r]]
      /\ status' = [r \in Requests |-> IF r \in placed THEN "pending"
                       ELSE IF r \in view.decided THEN "resolved"
                       ELSE IF r \in updated THEN view.status[r] ELSE status[r]]
      /\ final' = [r \in Requests |->
                      IF r \in view.decided THEN Relabelled(body[r].kind, ResponseOf(r).action)
                      ELSE IF r \in updated THEN FinalActionOf(view.status[r]) ELSE final[r]]
      /\ outbox' = [r \in Requests |->
                       IF r \in placed THEN Append(outbox[r], "created")
                       ELSE IF r \in updated THEN Append(outbox[r], EventOf(view.status[r]))
                       ELSE outbox[r]]
      /\ view' = None
  BY DEF StoreSave
<1> HIDE DEF updated, placed, gate
\* A save treats each row in one of four ways.
<1>6. ASSUME NEW r \in Requests
      PROVE  \/ r \in placed /\ r \notin updated /\ r \notin view.decided
             \/ r \in updated /\ r \notin placed /\ r \notin view.decided
             \/ r \in view.decided /\ r \notin placed /\ r \notin updated
             \/ r \notin placed /\ r \notin updated /\ r \notin view.decided
  BY <1>2, <1>3, <1>4 DEF Pending
<1>7. ASSUME NEW r \in placed
      PROVE  /\ body'[r] = RaisedAs(gate(r), r) /\ body'[r] \in Bodies
             /\ hash'[r] = body'[r].content /\ hash'[r] \in Contents
             /\ version[r] = 0 /\ version'[r] = 1 /\ status'[r] = "pending"
             /\ final'[r] = final[r] /\ outbox'[r] = <<"created">>
             /\ ~HasResponse(r)
  <2>1. r \in Requests /\ status[r] = "absent" /\ gate(r) \in Gates
    BY <1>2
  <2>2. outbox[r] = <<>> /\ version[r] = 0
    BY <2>1, Versions DEF ClosedOnce, Announced
  <2>3. RaisedAs(gate(r), r) \in Bodies /\ RaisedAs(gate(r), r).content = gate(r).content
    BY <2>1, BodyFacts
  <2>4. ~HasResponse(r)
    BY <2>1 DEF RowsOK, HasResponse
  <2>. QED BY <1>5, <1>6, <2>1, <2>2, <2>3, <2>4, BodyFacts, Announcements
<1>8. ASSUME NEW r \in updated
      PROVE  /\ r \in Requests /\ body'[r] = body[r] /\ hash'[r] = LegacyHash
             /\ version[r] = 1 /\ version'[r] = 2 /\ status'[r] = view.status[r]
             /\ status'[r] \in {"expired", "resolved"}
             /\ status'[r] = "resolved" => body[r].kind = "human_dispatch"
             /\ final'[r] \in FinalActions /\ ~HasResponse(r)
             /\ outbox'[r] \in Seq(Events)
             /\ outbox'[r] = <<"created", EventOf(view.status[r])>>
  <2>1. r \in Requests
    BY DEF updated
  <2>2. r \notin placed /\ r \notin view.decided
    BY <2>1, <1>6
  <2>3. version[r] = 1 /\ status[r] = "pending" /\ ~HasResponse(r) /\ outbox[r] = <<"created">>
    BY <1>3, <2>1, Versions DEF Pending, HasResponse, RowsOK, ClosedOnce, Announced
  <2>4. EventOf(view.status[r]) \in Events
    BY <1>3 DEF EventOf, Events, ClosedStatuses
  <2>5. FinalActionOf(view.status[r]) \in FinalActions
    BY <1>3 DEF FinalActionOf, FinalActions, Actions
  <2>6. outbox'[r] = Append(<<"created">>, EventOf(view.status[r]))
    BY <1>5, <2>1, <2>2, <2>3
  <2>7. outbox'[r] \in Seq(Events) /\ outbox'[r] = <<"created", EventOf(view.status[r])>>
    BY <2>4, <2>6, Announcements
  <2>. QED BY <1>3, <1>5, <2>1, <2>2, <2>3, <2>5, <2>7
<1>9. ASSUME NEW r \in view.decided
      PROVE  /\ r \in Requests /\ UNCHANGED <<body[r], hash[r], version[r], status[r], outbox[r]>>
             /\ status[r] = "resolved" /\ HasResponse(r)
             /\ final'[r] \in FinalActions
             /\ Verdict(final'[r]) = Verdict(ResponseOf(r).action)
             /\ Verdict(final'[r]) = Verdict(final[r])
  <2>1. r \in Requests /\ HasResponse(r) /\ status[r] = "resolved" /\ ResponseOf(r).action \in Actions
    BY <1>4
  <2>2. r \notin placed /\ r \notin updated
    BY <2>1, <1>6
  <2>3. final'[r] = Relabelled(body[r].kind, ResponseOf(r).action)
    BY <1>5, <2>1
  <2>4. Verdict(final[r]) = Verdict(ResponseOf(r).action)
    BY <2>1 DEF ResolvedAsAnswered
  <2>. QED BY <1>5, <2>1, <2>2, <2>3, <2>4, Relabelling
<1>10. ASSUME NEW r \in Requests, r \notin placed, r \notin updated, r \notin view.decided
       PROVE  UNCHANGED <<body[r], hash[r], version[r], status[r], final[r], outbox[r]>>
  BY <1>5, <1>10
<1>11. TypeTables'
  <2>1. \A r \in Requests : body'[r] \in Bodies \cup {None}
    BY <1>6, <1>7, <1>8, <1>9, <1>10 DEF TypeTables
  <2>2. \A r \in Requests : status'[r] \in {"absent", "pending"} \cup ClosedStatuses
    BY <1>6, <1>7, <1>8, <1>9, <1>10 DEF TypeTables, ClosedStatuses
  <2>3. \A r \in Requests : version'[r] \in 0..2
    <3>1. 1 \in 0..2 /\ 2 \in 0..2
      OBVIOUS
    <3>. QED BY <3>1, <1>6, <1>7, <1>8, <1>9, <1>10 DEF TypeTables
  <2>4. \A r \in Requests : final'[r] \in FinalActions
    BY <1>6, <1>7, <1>8, <1>9, <1>10 DEF TypeTables
  <2>5. \A r \in Requests : hash'[r] \in Contents \cup {LegacyHash, None}
    BY <1>6, <1>7, <1>8, <1>9, <1>10 DEF TypeTables
  <2>6. \A r \in Requests : outbox'[r] \in Seq(Events)
    BY <1>6, <1>7, <1>8, <1>9, <1>10, Announcements DEF TypeTables
  <2>. QED BY <1>1, <1>5, <2>1, <2>2, <2>3, <2>4, <2>5, <2>6 DEF TypeTables
<1>12. RowsOK'
  <2>1. ASSUME NEW r \in Requests, status'[r] # "absent" PROVE body'[r] \in Bodies
    <3>1. CASE r \in placed
      BY <1>7, <3>1
    <3>2. CASE r \notin placed
      <4>1. body'[r] = body[r]
        BY <1>5, <3>2
      <4>2. status[r] # "absent"
        <5>1. r \in updated => status[r] = "pending"
          BY <1>3 DEF Pending
        <5>2. r \in view.decided => status[r] = "resolved"
          BY <1>9
        <5>3. r \notin updated /\ r \notin view.decided => status'[r] = status[r]
          BY <1>10, <3>2
        <5>. QED BY <2>1, <5>1, <5>2, <5>3
      <4>. QED BY <4>1, <4>2 DEF RowsOK
    <3>. QED BY <3>1, <3>2
  <2>2. \A r \in Requests : status'[r] = "pending" => hash'[r] = body'[r].content
    BY <1>6, <1>7, <1>8, <1>9, <1>10 DEF RowsOK, Pending
  <2>3. \A x \in responses : x.request \in Requests /\ HasResponse(x.request)
    BY DEF TypeTables, Responses, HasResponse
  <2>4. \A x \in responses : status'[x.request] = "resolved"
    BY <1>6, <1>7, <1>8, <1>9, <1>10, <2>3 DEF RowsOK
  <2>. QED BY <1>1, <2>1, <2>2, <2>4 DEF RowsOK, Pending
<1>13. ClosedOnce'
  <2> SUFFICES ASSUME NEW r \in Requests
               PROVE  /\ version'[r] = (IF status'[r] = "absent" THEN 0
                                        ELSE IF status'[r] = "pending" THEN 1 ELSE 2)
                      /\ Announced(r)'
    BY DEF ClosedOnce, Pending
  <2>1. CASE r \in placed
    BY <1>7, <2>1 DEF Announced, ClosedStatuses
  <2>2. CASE r \in updated
    <3>1. CASE view.status[r] = "expired"
      BY <1>8, <2>2, <3>1 DEF Announced, ClosedStatuses, EventOf
    <3>2. CASE view.status[r] = "resolved"
      BY <1>8, <2>2, <3>2 DEF Announced, ClosedStatuses, EventOf
    <3>. QED BY <1>8, <2>2, <3>1, <3>2
  <2>3. CASE r \in view.decided \/ (r \notin placed /\ r \notin updated /\ r \notin view.decided)
    <3>1. UNCHANGED <<body[r], version[r], status[r], outbox[r]>>
      BY <1>9, <1>10, <2>3
    <3>. QED BY <3>1 DEF ClosedOnce, Announced, Pending
  <2>. QED BY <2>1, <2>2, <2>3
<1>14. ResolvedAsAnswered'
  <2> SUFFICES ASSUME NEW r \in Requests, status'[r] # "absent"
               PROVE  /\ body'[r].kind # "human_dispatch" => (status'[r] = "resolved" <=> HasResponse(r))
                      /\ HasResponse(r) => Verdict(final'[r]) = Verdict(ResponseOf(r).action)
    BY <1>1 DEF ResolvedAsAnswered
  <2>1. CASE r \in placed
    BY <1>7, <2>1
  <2>2. CASE r \in updated
    BY <1>8, <2>2
  <2>3. CASE r \in view.decided
    BY <1>9, <2>3
  <2>4. CASE r \notin placed /\ r \notin updated /\ r \notin view.decided
    BY <1>10, <2>4 DEF ResolvedAsAnswered
  <2>. QED BY <2>1, <2>2, <2>3, <2>4
<1>15. \A r \in Requests : version[r] # 0 => body'[r] = body[r]
  BY <1>6, <1>7, <1>8, <1>9, <1>10
<1>16. ReviewedInTime'
  <2>1. \A x \in responses : x.request \in Requests /\ version[x.request] # 0
    BY Versions DEF TypeTables, Responses, RowsOK
  <2>. QED BY <1>1, <1>15, <2>1 DEF ReviewedInTime
<1>17. Advance
  <2>1. \A r \in Requests : version[r] \in {0, 1, 2}
    BY Versions
  <2>2. \A r \in Requests : version[r] <= version'[r] /\ version'[r] <= version[r] + 1
    BY <1>6, <1>7, <1>8, <1>9, <1>10, <2>1
  <2>3. \A r \in Requests : version[r] = 2 => /\ status'[r] = status[r]
                                              /\ Verdict(final'[r]) = Verdict(final[r])
    BY <1>6, <1>7, <1>8, <1>9, <1>10
  <2>. QED BY <1>1, <1>15, <2>2, <2>3 DEF Advance
<1>18. ViewOK'
  BY <1>5 DEF ViewOK, ViewConsistent
<1>. QED BY <1>11, <1>12, <1>13, <1>14, <1>16, <1>17, <1>18

-----------------------------------------------------------------------------
\* A copy stays consistent while rows advance under it.
LEMMA ViewStays ==
  ASSUME Tables, Tables', Advance, ViewOK, view' = view
  PROVE  ViewOK'
<1> USE DEF Tables
<1> SUFFICES ASSUME view # None
             PROVE  ViewConsistent'
  BY DEF ViewOK, ViewConsistent
<1>1. view \in Views
  BY DEF ViewOK
<1> SUFFICES ASSUME NEW r \in Requests
             PROVE  /\ view.status[r] = "absent" <=> view.version[r] = 0
                    /\ view.status[r] = "pending" <=> view.version[r] = 1
                    /\ view.version[r] # 0 => version'[r] # 0
                    /\ view.status[r] \in {"answered", "cancelled"} => version'[r] = 2
                    /\ view.status[r] = "expired" =>
                         version'[r] = 2 \/ body'[r].kind = "final_acceptance"
                    /\ view.status[r] = "resolved" =>
                         HasResponse(r)' \/ body'[r].kind = "human_dispatch"
                    /\ r \in view.decided => HasResponse(r)'
  BY DEF ViewConsistent
<1>2. version[r] \in {0, 1, 2} /\ version'[r] \in {0, 1, 2}
  BY Versions DEF TypeTables
<1>3. /\ version[r] <= version'[r]
      /\ version[r] # 0 => body'[r] = body[r]
      /\ HasResponse(r) => HasResponse(r)'
  BY DEF Advance
<1>. QED BY <1>2, <1>3 DEF ViewOK, ViewConsistent

\* So does a copy in which the store closes an open checkpoint of its own.
LEMMA ViewCloses ==
  ASSUME Tables, Tables', Advance, ViewOK, NEW q \in Requests, NEW st, NEW k,
         \/ st = "expired" /\ k = "final_acceptance"
         \/ st = "resolved" /\ k = "human_dispatch",
         InView(q, k), ViewClose(q, st)
  PROVE  ViewOK'
<1> USE DEF Tables
<1>1. view \in Views /\ view.status[q] = "pending" /\ body[q].kind = k
  BY DEF ViewOK, InView
<1>2. view.version[q] = 1 /\ version[q] # 0
  BY <1>1 DEF ViewOK, ViewConsistent, InView
<1>3. /\ view' \in Views
      /\ view'.decided = view.decided
      /\ view'.status[q] = st /\ view'.version[q] = 2
      /\ \A r \in Requests : r # q => /\ view'.status[r] = view.status[r]
                                      /\ view'.version[r] = view.version[r]
  <2>1. view' = [view EXCEPT !.status[q] = st, !.version[q] = @ + 1]
    BY DEF ViewClose
  <2>2. /\ view'.status = [view.status EXCEPT ![q] = st]
        /\ view'.version = [view.version EXCEPT ![q] = 2]
        /\ view'.decided = view.decided /\ view'.raised = view.raised
    <3>1. DOMAIN view = {"status", "version", "decided", "raised"}
      BY <1>1 DEF Views
    <3>2. DOMAIN view.version = Requests
      BY <1>1 DEF Views
    <3>3. view.version[q] + 1 = 2
      BY <1>2
    <3>. QED BY <2>1, <3>1, <3>2, <3>3
  <2>3. st \in ClosedStatuses
    BY DEF ClosedStatuses
  <2>4. view'.status \in [Requests -> {"absent", "pending", "answered"} \cup ClosedStatuses]
    BY <1>1, <2>2, <2>3 DEF Views
  <2>5. view'.version \in [Requests -> 0..2]
    BY <1>1, <2>2 DEF Views
  <2>6. view' \in Views
    <3>1. view' = [status |-> view'.status, version |-> view'.version,
                   decided |-> view'.decided, raised |-> view'.raised]
      BY <1>1, <2>1 DEF Views
    <3>. QED BY <1>1, <2>2, <2>4, <2>5, <3>1 DEF Views
  <2>. QED BY <1>1, <2>2, <2>6 DEF Views
<1> SUFFICES ASSUME NEW r \in Requests
             PROVE  /\ view'.status[r] = "absent" <=> view'.version[r] = 0
                    /\ view'.status[r] = "pending" <=> view'.version[r] = 1
                    /\ view'.version[r] # 0 => version'[r] # 0
                    /\ view'.status[r] \in {"answered", "cancelled"} => version'[r] = 2
                    /\ view'.status[r] = "expired" =>
                         version'[r] = 2 \/ body'[r].kind = "final_acceptance"
                    /\ view'.status[r] = "resolved" =>
                         HasResponse(r)' \/ body'[r].kind = "human_dispatch"
                    /\ r \in view'.decided => HasResponse(r)'
  BY <1>3 DEF ViewOK, ViewConsistent
<1>4. version[r] \in {0, 1, 2} /\ version'[r] \in {0, 1, 2}
  BY Versions DEF TypeTables
<1>5. /\ version[r] <= version'[r]
      /\ version[r] # 0 => body'[r] = body[r]
      /\ HasResponse(r) => HasResponse(r)'
  BY DEF Advance
<1>6. CASE r = q
  <2>1. r \in view.decided => HasResponse(r)
    BY DEF ViewOK, ViewConsistent, InView
  <2>. QED BY <1>1, <1>2, <1>3, <1>4, <1>5, <1>6, <2>1
<1>7. CASE r # q
  BY <1>3, <1>4, <1>5, <1>7 DEF ViewOK, ViewConsistent, InView
<1>. QED BY <1>6, <1>7

\* A freshly loaded copy is consistent.
LEMMA ViewLoads ==
  ASSUME Tables, StoreLoad
  PROVE  ViewOK'
<1> USE DEF Tables
<1>1. /\ view' = [status |-> [r \in Requests |-> CompatStatus(r)],
                  version |-> version,
                  decided |-> {x.request : x \in responses},
                  raised |-> {}]
      /\ UNCHANGED <<body, status, version, final, responses>>
  BY DEF StoreLoad, rowVars
<1>2. ASSUME NEW r \in Requests
      PROVE  /\ CompatStatus(r) \in {"absent", "pending", "answered"} \cup ClosedStatuses
             /\ CompatStatus(r) = "absent" <=> status[r] = "absent"
             /\ CompatStatus(r) = "pending" <=> status[r] = "pending"
             /\ CompatStatus(r) \in {"answered", "cancelled", "expired"} => status[r] \in ClosedStatuses
             /\ CompatStatus(r) = "resolved" => status[r] = "resolved"
  BY DEF CompatStatus, TypeTables, ClosedStatuses
<1>3. view' \in Views
  <2>1. {x.request : x \in responses} \subseteq Requests
    BY DEF TypeTables, Responses
  <2>. QED BY <1>1, <1>2, <2>1 DEF Views, TypeTables
<1>4. \A r \in Requests : r \in {x.request : x \in responses} => HasResponse(r)
  BY DEF HasResponse
<1>5. \A r \in Requests : HasResponse(r)' <=> HasResponse(r)
  BY <1>1 DEF HasResponse
<1> SUFFICES ASSUME NEW r \in Requests
             PROVE  /\ CompatStatus(r) = "absent" <=> version[r] = 0
                    /\ CompatStatus(r) = "pending" <=> version[r] = 1
                    /\ CompatStatus(r) \in {"answered", "cancelled"} => version[r] = 2
                    /\ CompatStatus(r) = "expired" => version[r] = 2
                    /\ CompatStatus(r) = "resolved" =>
                         HasResponse(r) \/ body[r].kind = "human_dispatch"
  BY <1>1, <1>3, <1>4, <1>5 DEF ViewOK, ViewConsistent
<1>. QED BY <1>2, Versions DEF Pending, ResolvedAsAnswered

-----------------------------------------------------------------------------
\* A step that leaves the tables alone.
LEMMA SameTables ==
  ASSUME Tables, UNCHANGED <<body, status, version, final, hash, responses, outbox, projection>>,
         now' \in 0..MaxTime
  PROVE  Tables' /\ Advance
<1>1. TypeTables'
  BY DEF Tables, TypeTables
<1>2. RowsOK' /\ ReviewedInTime'
  BY DEF Tables, RowsOK, ReviewedInTime, Pending
<1>3. ClosedOnce'
  BY DEF Tables, ClosedOnce, Announced, Pending
<1>4. \A r \in Requests : HasResponse(r)' <=> HasResponse(r)
  BY DEF HasResponse
<1>5. \A r \in Requests : ResponseOf(r)' = ResponseOf(r)
  BY DEF ResponseOf
<1>6. ResolvedAsAnswered'
  BY <1>4, <1>5 DEF Tables, ResolvedAsAnswered
<1>7. \A r \in Requests : version[r] <= version[r] /\ version[r] <= version[r] + 1
  <2>1. \A r \in Requests : version[r] \in {0, 1, 2}
    BY Versions DEF Tables
  <2>. QED BY <2>1
<1>8. Advance
  BY <1>4, <1>7 DEF Advance
<1>. QED BY <1>1, <1>2, <1>3, <1>6, <1>8 DEF Tables

\* Every step keeps the tables right, only advances rows, and keeps the copy
\* consistent.
LEMMA StepAdvances ==
  ASSUME IInv, [Next]_vars
  PROVE  IInv' /\ Advance
<1> SUFFICES Tables' /\ Advance /\ ViewOK'
  BY DEF IInv
<1> USE DEF IInv
<1>0. "expire" \in FinalActions /\ "cancel" \in FinalActions
  BY DEF FinalActions
<1>1. now \in 0..MaxTime
  BY DEF Tables, TypeTables
<1>2. ASSUME NEW q \in Proposals, NEW k \in Keys, NEW r \in Requests,
             CreateInteraction(q, k, r)
      PROVE  Tables' /\ Advance /\ ViewOK'
  <2>1. Tables' /\ Advance
    BY <1>2, BodyFacts, CreateTables DEF CreateInteraction
  <2>. QED BY <1>2, <2>1, ViewStays DEF CreateInteraction
<1>3. ASSUME NEW q \in Proposals, NEW k \in Keys, NEW r \in Requests,
             CreateDuplicate(q, k, r)
      PROVE  Tables' /\ Advance /\ ViewOK'
  <2>1. Tables' /\ Advance
    BY <1>1, <1>3, SameTables DEF CreateDuplicate, rowVars
  <2>. QED BY <1>3, <2>1, ViewStays DEF CreateDuplicate
<1>4. ASSUME NEW r \in Requests, NEW v \in 1..2, NEW k \in Keys,
             CancelInteraction(r, v, k)
      PROVE  Tables' /\ Advance /\ ViewOK'
  <2>1. Tables' /\ Advance
    <3>1. /\ CloseRows({r}, "cancelled", "cancel") /\ \A x \in {r} : Pending(x)
          /\ UNCHANGED <<responses, projection, now>>
      BY <1>4 DEF CancelInteraction
    <3>. QED BY <1>0, <3>1, CloseTables
  <2>. QED BY <1>4, <2>1, ViewStays DEF CancelInteraction
<1>5. ASSUME NEW s \in Sessions, CancelPendingInteractionsForSession(s)
      PROVE  Tables' /\ Advance /\ ViewOK'
  <2>1. Tables' /\ Advance
    <3> DEFINE rs == {r \in Requests : Pending(r) /\ body[r].session = s}
    <3>1. /\ CloseRows(rs, "cancelled", "cancel") /\ \A x \in rs : Pending(x)
          /\ UNCHANGED <<responses, projection, now>> /\ rs \in SUBSET Requests
      BY <1>5 DEF CancelPendingInteractionsForSession
    <3> HIDE DEF rs
    <3>. QED BY <1>0, <3>1, CloseTables
  <2>. QED BY <1>5, <2>1, ViewStays DEF CancelPendingInteractionsForSession
<1>6. CASE ExpireDueInteractions
  <2>1. Tables' /\ Advance
    <3> DEFINE rs == {r \in Requests : Due(r)}
    <3>1. /\ CloseRows(rs, "expired", "expire") /\ \A x \in rs : Pending(x)
          /\ UNCHANGED <<responses, projection, now>> /\ rs \in SUBSET Requests
      BY <1>6 DEF ExpireDueInteractions, Due
    <3> HIDE DEF rs
    <3>. QED BY <1>0, <3>1, CloseTables
  <2>. QED BY <1>6, <2>1, ViewStays DEF ExpireDueInteractions
<1>7. ASSUME NEW c \in Commands, Respond(c)
      PROVE  Tables' /\ Advance /\ ViewOK'
  <2>1. Tables' /\ Advance
    BY <1>7, ResolveTables DEF Respond, Commands, CommandsBy
  <2>. QED BY <1>7, <2>1, ViewStays DEF Respond
<1>8. ASSUME NEW c \in Commands, RespondReplay(c)
      PROVE  Tables' /\ Advance /\ ViewOK'
  <2>1. Tables' /\ Advance
    BY <1>1, <1>8, SameTables DEF RespondReplay, rowVars
  <2>. QED BY <1>8, <2>1, ViewStays DEF RespondReplay
<1>9. ASSUME NEW c \in Commands, RespondLate(c)
      PROVE  Tables' /\ Advance /\ ViewOK'
  <2>1. c.request \in Requests
    BY DEF Commands, CommandsBy
  <2>2. Tables' /\ Advance
    <3>1. /\ CloseRows({c.request}, "expired", "expire") /\ \A x \in {c.request} : Pending(x)
          /\ UNCHANGED <<responses, projection, now>>
      BY <1>9 DEF RespondLate, Due
    <3>. QED BY <1>0, <2>1, <3>1, CloseTables
  <2>. QED BY <1>9, <2>2, ViewStays DEF RespondLate
<1>10. CASE StoreLoad
  <2>1. Tables' /\ Advance
    BY <1>1, <1>10, SameTables DEF StoreLoad, rowVars
  <2>. QED BY <1>10, <2>1, ViewLoads
<1>11. CASE StoreAbandon
  <2>1. Tables' /\ Advance
    BY <1>1, <1>11, SameTables DEF StoreAbandon, rowVars
  <2>2. ViewOK'
    BY <1>11 DEF StoreAbandon, ViewOK, ViewConsistent
  <2>. QED BY <2>1, <2>2
<1>12. ASSUME NEW g \in Gates, StoreRaise(g)
       PROVE  Tables' /\ Advance /\ ViewOK'
  <2>1. Tables' /\ Advance
    BY <1>1, <1>12, SameTables DEF StoreRaise, rowVars
  <2>2. /\ view' \in Views /\ view'.status = view.status
        /\ view'.version = view.version /\ view'.decided = view.decided
    BY <1>12 DEF StoreRaise, ViewOK, Views
  <2>3. ViewConsistent'
    BY <1>12, <2>2 DEF StoreRaise, rowVars, ViewOK, ViewConsistent, HasResponse
  <2>. QED BY <2>1, <2>2, <2>3 DEF ViewOK
<1>13. ASSUME NEW r \in Requests, StoreExpire(r)
       PROVE  Tables' /\ Advance /\ ViewOK'
  <2>1. Tables' /\ Advance
    BY <1>1, <1>13, SameTables DEF StoreExpire, rowVars
  <2>. QED BY <1>13, <2>1, ViewCloses DEF StoreExpire
<1>14. ASSUME NEW r \in Requests, StoreAutoApprove(r)
       PROVE  Tables' /\ Advance /\ ViewOK'
  <2>1. Tables' /\ Advance
    BY <1>1, <1>14, SameTables DEF StoreAutoApprove, rowVars
  <2>. QED BY <1>14, <2>1, ViewCloses DEF StoreAutoApprove
<1>15. ASSUME NEW r \in Requests, StoreResolveStaleGate(r)
       PROVE  Tables' /\ Advance /\ ViewOK'
  <2> DEFINE c == [scope |-> Policy, key |-> r, request |-> r, action |-> "approve",
                   version |-> version[r], hash |-> hash[r]]
  <2>1. /\ InView(r, "human_dispatch") /\ ViewClose(r, "resolved")
        /\ now' = now
        /\ \/ Acceptable(c) /\ Resolve(c)
           \/ /\ Due(r)
              /\ CloseRows({r}, "expired", "expire")
              /\ UNCHANGED <<responses, idem, projection, answered>>
           \/ UNCHANGED <<rowVars, responses, idem, outbox, projection, answered>>
    BY <1>15 DEF StoreResolveStaleGate
  <2>2. ASSUME Acceptable(c), Resolve(c) PROVE Tables' /\ Advance
    <3>1. Pending(r)
      BY <2>2 DEF Acceptable
    <3>2. version[r] \in 1..2
      BY <3>1, Versions DEF Tables
    <3>3. hash[r] \in Contents
      BY <3>1, BodyFacts DEF Tables, RowsOK, Pending
    <3>4. /\ c.request = r /\ c.action = "approve" /\ c.version = version[r] /\ c.hash = hash[r]
          /\ "approve" \in Actions
      BY DEF Actions
    <3> HIDE DEF c
    <3>. QED BY <2>1, <2>2, <3>2, <3>3, <3>4, ResolveTables
  <2>3. ASSUME Due(r), CloseRows({r}, "expired", "expire"), UNCHANGED <<responses, projection>>
        PROVE  Tables' /\ Advance
    <3>1. \A x \in {r} : Pending(x)
      BY <2>3 DEF Due
    <3> HIDE DEF c
    <3>. QED BY <1>0, <2>1, <2>3, <3>1, CloseTables
  <2>4. ASSUME UNCHANGED <<rowVars, responses, outbox, projection>>
        PROVE  Tables' /\ Advance
    <3>1. UNCHANGED <<body, status, version, final, hash, responses, outbox, projection>>
      BY <2>4 DEF rowVars
    <3> HIDE DEF c
    <3>. QED BY <1>1, <2>1, <3>1, SameTables
  <2>5. Tables' /\ Advance
    BY <2>1, <2>2, <2>3, <2>4
  <2>. QED BY <2>1, <2>5, ViewCloses
<1>16. ASSUME NEW place \in [Gates -> Requests], StoreSave(place)
       PROVE  Tables' /\ Advance /\ ViewOK'
  BY <1>16, SaveTables
<1>17. CASE Tick
  <2>1. now' \in 0..MaxTime
    <3>1. MaxTime \in Nat
      BY GatewayConstants, Zenon
    <3>. QED BY <1>1, <1>17, <3>1 DEF Tick
  <2>2. Tables' /\ Advance
    BY <1>17, <2>1, SameTables DEF Tick, rowVars
  <2>. QED BY <1>17, <2>2, ViewStays DEF Tick
<1>18. CASE UNCHANGED vars
  <2>1. Tables' /\ Advance
    BY <1>1, <1>18, SameTables DEF vars
  <2>. QED BY <1>18, <2>1, ViewStays DEF vars
<1>. QED
  BY <1>2, <1>3, <1>4, <1>5, <1>6, <1>7, <1>8, <1>9, <1>10, <1>11, <1>12, <1>13,
     <1>14, <1>15, <1>16, <1>17, <1>18
  DEF Next, AdapterNext, HumanNext, StoreNext

-----------------------------------------------------------------------------
(***************************************************************************)
(* Retries. The second invariant ties what clients were told to the tables *)
(* their keys live in: a stored key names a request that has a response,   *)
(* whoever was answered under a key was given that response, and a create  *)
(* key names a row of the vendor request it was sent for. It rests on two  *)
(* facts of the first one: a row keeps its body, and a response is unique. *)
(***************************************************************************)
AllCommands == CommandsBy(Scopes \cup {Policy}, Keys \cup Requests)

KeysOK ==
  /\ idem \in [IdemKeys -> {None} \cup AllCommands]
  /\ \A k \in IdemKeys : idem[k] # None => HasResponse(idem[k].request)
  /\ \A a \in answered :
       /\ <<a.scope, a.key>> \in IdemKeys
       /\ idem[<<a.scope, a.key>>] # None
       /\ a.response \in responses
       /\ a.response.request = idem[<<a.scope, a.key>>].request

PostsOK ==
  /\ posted = [op \in {"create", "cancel"} |-> [k \in Keys |-> posted[op][k]]]
  /\ \A k \in Keys : posted["create"][k] # None =>
       posted["create"][k].request \in Taken(posted["create"][k].input)

RowsUnique ==
  \A r, s \in Requests : status[r] # "absent" /\ s \in Taken(body[r]) => r = s

RetryInv == KeysOK /\ PostsOK /\ RowsUnique

SameRows ==
  /\ body' = body
  /\ \A r \in Requests : status'[r] = "absent" <=> status[r] = "absent"

SameKeys == UNCHANGED <<responses, idem, answered>>

LEMMA InitRetries == Init => RetryInv
<1> SUFFICES ASSUME Init PROVE RetryInv
  OBVIOUS
<1>1. KeysOK
  BY DEF Init, KeysOK
<1>2. PostsOK
  BY DEF Init, PostsOK
<1>3. RowsUnique
  BY DEF Init, RowsUnique
<1>. QED BY <1>1, <1>2, <1>3 DEF RetryInv

\* A row that is there stays there, about the same vendor request.
LEMMA RowsStay ==
  ASSUME IInv, IInv', Advance, NEW r \in Requests, status[r] # "absent"
  PROVE  status'[r] # "absent" /\ body'[r] = body[r]
<1>1. version[r] \in {1, 2}
  BY Versions DEF IInv, Tables
<1>2. version'[r] # 0 /\ body'[r] = body[r]
  <2>1. version[r] <= version'[r] /\ (version[r] # 0 => body'[r] = body[r])
    BY DEF Advance
  <2>2. version'[r] \in 0..2
    BY DEF IInv, Tables, TypeTables
  <2>. QED BY <1>1, <2>1, <2>2
<1>3. version'[r] = (IF status'[r] = "absent" THEN 0 ELSE IF Pending(r)' THEN 1 ELSE 2)
  BY DEF IInv, Tables, ClosedOnce
<1>. QED BY <1>2, <1>3

LEMMA TakenStays ==
  ASSUME IInv, IInv', Advance, NEW p, NEW r \in Taken(p)
  PROVE  r \in Taken(p)'
<1>1. /\ r \in Requests /\ status[r] # "absent"
      /\ body[r].vendor = p.vendor /\ body[r].session = p.session
  BY DEF Taken
<1>2. status'[r] # "absent" /\ body'[r] = body[r]
  BY <1>1, RowsStay
<1>. QED BY <1>1, <1>2 DEF Taken

LEMMA UniqueStays ==
  ASSUME RowsUnique, SameRows
  PROVE  RowsUnique'
BY DEF RowsUnique, SameRows, Taken

LEMMA ClosingKeepsRows ==
  ASSUME Tables, NEW rs, NEW st \in ClosedStatuses, NEW act,
         \A r \in rs : Pending(r), CloseRows(rs, st, act)
  PROVE  SameRows
BY DEF SameRows, CloseRows, Pending, ClosedStatuses

LEMMA SameRowsStay ==
  ASSUME UNCHANGED rowVars
  PROVE  SameRows
BY DEF SameRows, rowVars

\* No create key is stored anew.
LEMMA PostsStay ==
  ASSUME IInv, IInv', Advance, PostsOK,
         posted' = [op \in {"create", "cancel"} |-> [k \in Keys |-> posted'[op][k]]],
         \A k \in Keys : posted'["create"][k] = posted["create"][k]
  PROVE  PostsOK'
<1>1. ASSUME NEW k \in Keys, posted'["create"][k] # None
      PROVE  (posted["create"][k].request \in Taken(posted["create"][k].input))'
  <2>1. PICK x : x = posted["create"][k] /\ posted'["create"][k] = x /\ x # None
    BY <1>1
  <2>2. x.request \in Taken(x.input)
    BY <2>1 DEF PostsOK
  <2>3. x.request \in Taken(x.input)'
    BY <2>2, TakenStays
  <2>. QED BY <2>1, <2>3 DEF Taken
<1>. QED BY <1>1 DEF PostsOK

LEMMA PostsUnchanged ==
  ASSUME IInv, IInv', Advance, PostsOK, UNCHANGED posted
  PROVE  PostsOK'
<1>1. posted' = [op \in {"create", "cancel"} |-> [k \in Keys |-> posted'[op][k]]]
  BY DEF PostsOK
<1>. QED BY <1>1, PostsStay

\* A create key is stored with the row the call is answered with.
LEMMA CreatePosts ==
  ASSUME IInv, IInv', Advance, PostsOK, NEW j \in Keys, NEW p, NEW q,
         q \in Taken(p)',
         posted' = [posted EXCEPT !["create"][j] = [input |-> p, request |-> q]]
  PROVE  PostsOK'
<1> DEFINE y == [input |-> p, request |-> q]
<1>1. y.input = p /\ y.request = q
  OBVIOUS
<1>2. posted' = [posted EXCEPT !["create"][j] = y]
  OBVIOUS
<1> HIDE DEF y
<1>3. posted' = [op \in {"create", "cancel"} |-> [k \in Keys |-> posted'[op][k]]]
  BY <1>2 DEF PostsOK
<1>4. \A k \in Keys : posted'["create"][k] = IF k = j THEN y ELSE posted["create"][k]
  BY <1>2 DEF PostsOK
<1>5. ASSUME NEW k \in Keys, posted'["create"][k] # None
      PROVE  (posted["create"][k].request \in Taken(posted["create"][k].input))'
  <2>1. CASE k = j
    <3>1. posted'["create"][k] = y
      BY <1>4, <2>1
    <3>. QED BY <1>1, <3>1 DEF Taken
  <2>2. CASE k # j
    <3>1. PICK x : x = posted["create"][k] /\ posted'["create"][k] = x /\ x # None
      BY <1>4, <1>5, <2>2
    <3>2. x.request \in Taken(x.input)
      BY <3>1 DEF PostsOK
    <3>3. x.request \in Taken(x.input)'
      BY <3>2, TakenStays
    <3>. QED BY <3>1, <3>3 DEF Taken
  <2>. QED BY <2>1, <2>2
<1>. QED BY <1>3, <1>5 DEF PostsOK

LEMMA CancelPosts ==
  ASSUME IInv, IInv', Advance, PostsOK, NEW j \in Keys, NEW y,
         posted' = [posted EXCEPT !["cancel"][j] = y]
  PROVE  PostsOK'
<1>1. posted' = [op \in {"create", "cancel"} |-> [k \in Keys |-> posted'[op][k]]]
  BY DEF PostsOK
<1>2. \A k \in Keys : posted'["create"][k] = posted["create"][k]
  BY DEF PostsOK
<1>. QED BY <1>1, <1>2, PostsStay

LEMMA KeysStay ==
  ASSUME KeysOK, SameKeys
  PROVE  KeysOK'
BY DEF KeysOK, SameKeys, HasResponse

\* A key that is free is stored with the answer it is used for.
LEMMA ResolveKeys ==
  ASSUME KeysOK, NEW c \in AllCommands, <<c.scope, c.key>> \in IdemKeys,
         idem[<<c.scope, c.key>>] = None, Resolve(c)
  PROVE  KeysOK'
<1> DEFINE x == [request |-> c.request, action |-> c.action, version |-> c.version,
                 hash |-> c.hash, at |-> now]
           i == <<c.scope, c.key>>
           y == [scope |-> c.scope, key |-> c.key, response |-> x]
<1>1. /\ responses' = responses \cup {x}
      /\ idem' = [idem EXCEPT ![i] = c]
      /\ answered' = answered \cup {y}
  BY DEF Resolve
<1>2. x.request = c.request /\ <<y.scope, y.key>> = i /\ y.response = x
  OBVIOUS
<1>3. i \in IdemKeys /\ idem[i] = None /\ c # None
  BY NoneIsNoCommand DEF AllCommands
<1> HIDE DEF x, i, y
<1>4. idem' \in [IdemKeys -> {None} \cup AllCommands]
  BY <1>1 DEF KeysOK
<1>5. \A k \in IdemKeys : idem'[k] = IF k = i THEN c ELSE idem[k]
  BY <1>1 DEF KeysOK
<1>6. \A r : HasResponse(r) \/ r = c.request => HasResponse(r)'
  BY <1>1, <1>2 DEF HasResponse
<1>7. (\A k \in IdemKeys : idem[k] # None => HasResponse(idem[k].request))'
  <2>1. \A k \in IdemKeys : idem[k] # None => HasResponse(idem[k].request)
    BY DEF KeysOK
  <2>2. ASSUME NEW k \in IdemKeys, idem'[k] # None
        PROVE  \E z \in responses' : z.request = idem'[k].request
    <3>1. CASE k = i
      BY <1>1, <1>2, <1>5, <3>1
    <3>2. CASE k # i
      BY <1>1, <1>5, <2>1, <2>2, <3>2 DEF HasResponse
    <3>. QED BY <3>1, <3>2
  <2>. QED BY <2>2 DEF HasResponse
<1>8. ASSUME NEW a \in answered'
      PROVE  /\ <<a.scope, a.key>> \in IdemKeys
             /\ idem'[<<a.scope, a.key>>] # None
             /\ a.response \in responses'
             /\ a.response.request = idem'[<<a.scope, a.key>>].request
  <2>1. CASE a = y
    BY <1>1, <1>2, <1>3, <1>5, <2>1
  <2>2. CASE a \in answered
    <3> DEFINE k == <<a.scope, a.key>>
    <3>1. /\ k \in IdemKeys /\ idem[k] # None
          /\ a.response \in responses /\ a.response.request = idem[k].request
      BY <2>2 DEF KeysOK
    <3> HIDE DEF k
    <3>2. idem'[k] = idem[k]
      BY <1>3, <1>5, <3>1
    <3>3. /\ k \in IdemKeys /\ idem'[k] # None
          /\ a.response \in responses' /\ a.response.request = idem'[k].request
      BY <1>1, <3>1, <3>2
    <3>. QED BY <3>3 DEF k
  <2>. QED BY <1>1, <1>8, <2>1, <2>2
<1>. QED BY <1>4, <1>7, <1>8 DEF KeysOK

\* A retry is told what the tables hold.
LEMMA ReplayKeys ==
  ASSUME Tables, KeysOK, NEW c \in AllCommands, <<c.scope, c.key>> \in IdemKeys,
         RespondReplay(c)
  PROVE  KeysOK'
<1> DEFINE i == <<c.scope, c.key>>
           x == ResponseOf(idem[i].request)
           y == [scope |-> c.scope, key |-> c.key, response |-> x]
<1>1. /\ idem[i] = c /\ i \in IdemKeys
      /\ answered' = answered \cup {y}
      /\ responses' = responses /\ idem' = idem
  BY DEF RespondReplay
<1>2. c # None
  BY NoneIsNoCommand DEF AllCommands
<1>3. HasResponse(idem[i].request)
  BY <1>1, <1>2 DEF KeysOK
<1>4. x \in responses /\ x.request = idem[i].request
  BY <1>3 DEF HasResponse, ResponseOf
<1>5. <<y.scope, y.key>> = i /\ y.response = x
  OBVIOUS
<1> HIDE DEF x, i, y
<1>6. (\A k \in IdemKeys : idem[k] # None => HasResponse(idem[k].request))'
  BY <1>1 DEF KeysOK, HasResponse
<1>7. ASSUME NEW a \in answered'
      PROVE  /\ <<a.scope, a.key>> \in IdemKeys
             /\ idem'[<<a.scope, a.key>>] # None
             /\ a.response \in responses'
             /\ a.response.request = idem'[<<a.scope, a.key>>].request
  <2>1. CASE a = y
    BY <1>1, <1>2, <1>4, <1>5, <2>1
  <2>2. CASE a \in answered
    BY <1>1, <2>2 DEF KeysOK
  <2>. QED BY <1>1, <1>7, <2>1, <2>2
<1>. QED BY <1>1, <1>6, <1>7 DEF KeysOK

\* A command of a human is a command, and its key is one of a human.
LEMMA HumanCommands ==
  ASSUME NEW c \in Commands
  PROVE  c \in AllCommands /\ <<c.scope, c.key>> \in IdemKeys
BY DEF Commands, AllCommands, CommandsBy, IdemKeys

\* Rows that are new are about a vendor request no other row is about.
LEMMA SaveKeepsUnique ==
  ASSUME IInv, RowsUnique, NEW place \in [Gates -> Requests], StoreSave(place)
  PROVE  RowsUnique'
<1> DEFINE placed == {place[g] : g \in view.raised}
           new(r) == RaisedAs(CHOOSE g \in view.raised : place[g] = r, r)
<1>1. /\ \A g \in view.raised :
           status[place[g]] = "absent" /\ Taken(RaisedAs(g, place[g])) = {}
      /\ body' = [r \in Requests |-> IF r \in placed THEN new(r) ELSE body[r]]
      /\ \A r \in Requests \ placed : status[r] = "absent" => status'[r] = "absent"
      /\ \A r \in Requests : r \in placed => status'[r] = "pending"
  <2>1. ViewConsistent /\ view \in Views /\ view # None
    BY DEF StoreSave, IInv, ViewOK
  <2>2. \A r \in view.decided : status[r] # "absent"
    <3>1. view.decided \subseteq Requests
      BY <2>1 DEF Views
    <3>2. \A r \in view.decided : HasResponse(r)
      BY <2>1, <3>1 DEF ViewConsistent
    <3>3. \A x \in responses : status[x.request] = "resolved"
      BY DEF IInv, Tables, RowsOK
    <3>. QED BY <3>2, <3>3 DEF HasResponse
  <2>3. \A r \in Requests : status[r] = "absent" => ~Newer(r)
    <3>1. ASSUME NEW r \in Requests, status[r] = "absent" PROVE ~Newer(r)
      <4>1. version[r] = 0
        BY <3>1 DEF IInv, Tables, ClosedOnce
      <4>2. view.version[r] = 0 /\ view.status[r] = "absent"
        BY <2>1, <4>1 DEF ViewConsistent
      <4>. QED BY <4>2 DEF Newer, LegacyStatus
    <3>. QED BY <3>1
  <2>. QED BY <2>2, <2>3 DEF StoreSave
<1>2. view.raised \subseteq Gates
  BY DEF StoreSave, IInv, ViewOK, Views
<1>3. ASSUME NEW r \in placed
      PROVE  /\ r \in Requests /\ new(r).vendor = r /\ Taken(new(r)) = {}
  <2>1. PICK g \in view.raised : place[g] = r
    OBVIOUS
  <2> DEFINE h == CHOOSE f \in view.raised : place[f] = r
  <2>2. h \in view.raised /\ place[h] = r
    BY <2>1
  <2>3. new(r) = RaisedAs(h, r)
    OBVIOUS
  <2> HIDE DEF h, new
  <2>4. h \in Gates /\ Taken(RaisedAs(h, r)) = {}
    BY <1>1, <1>2, <2>2
  <2>5. RaisedAs(h, r).vendor = r
    <3>1. h = [vendor |-> h.vendor, session |-> h.session, kind |-> h.kind,
               high |-> h.high, allowed |-> h.allowed, content |-> h.content,
               expiry |-> h.expiry]
      BY <2>4, GatewayConstants
    <3>. QED BY <3>1 DEF RaisedAs
  <2>. QED BY <1>2, <2>2, <2>3, <2>4, <2>5
<1> HIDE DEF new
<1>4. ASSUME NEW r \in Requests, NEW s \in Requests,
             status'[r] # "absent", status'[s] # "absent",
             body'[s].vendor = body'[r].vendor, body'[s].session = body'[r].session
      PROVE  r = s
  <2>1. \A t \in Requests : t \notin placed /\ status'[t] # "absent"
          => status[t] # "absent" /\ body'[t] = body[t]
    BY <1>1
  <2>2. \A t \in Requests : t \in placed => body'[t] = new(t)
    BY <1>1
  <2>3. CASE r \in placed /\ s \in placed
    BY <1>3, <1>4, <2>2, <2>3
  <2>4. CASE r \in placed /\ s \notin placed
    <3>1. s \in Taken(new(r))
      BY <1>4, <2>1, <2>2, <2>4 DEF Taken
    <3>. QED BY <1>3, <2>4, <3>1
  <2>5. CASE r \notin placed /\ s \in placed
    <3>1. r \in Taken(new(s))
      BY <1>4, <2>1, <2>2, <2>5 DEF Taken
    <3>. QED BY <1>3, <2>5, <3>1
  <2>6. CASE r \notin placed /\ s \notin placed
    <3>1. s \in Taken(body[r])
      BY <1>4, <2>1, <2>6 DEF Taken
    <3>. QED BY <1>4, <2>1, <2>6, <3>1 DEF RowsUnique
  <2>. QED BY <2>3, <2>4, <2>5, <2>6
<1>. QED BY <1>4 DEF RowsUnique, Taken

LEMMA CreateKeepsUnique ==
  ASSUME IInv, RowsUnique, NEW q \in Requests, NEW p,
         status[q] = "absent", Taken(p) = {}, Row(q, p)
  PROVE  RowsUnique' /\ q \in Taken(p)'
<1>1. /\ body' = [body EXCEPT ![q] = p]
      /\ status' = [status EXCEPT ![q] = "pending"]
      /\ body \in [Requests -> Bodies \cup {None}]
      /\ status \in [Requests -> {"absent", "pending"} \cup ClosedStatuses]
  BY DEF Row, IInv, Tables, TypeTables
<1>2. /\ body'[q] = p /\ status'[q] = "pending"
      /\ \A r \in Requests : r # q => body'[r] = body[r] /\ status'[r] = status[r]
  BY <1>1
<1>3. q \in Taken(p)'
  BY <1>2 DEF Taken
<1>4. ASSUME NEW r \in Requests, NEW s \in Requests,
             status'[r] # "absent", status'[s] # "absent",
             body'[s].vendor = body'[r].vendor, body'[s].session = body'[r].session
      PROVE  r = s
  <2>1. CASE r = q /\ s # q
    BY <1>2, <1>4, <2>1 DEF Taken
  <2>2. CASE r # q /\ s = q
    BY <1>2, <1>4, <2>2 DEF Taken
  <2>3. CASE r # q /\ s # q
    BY <1>2, <1>4, <2>3 DEF Taken, RowsUnique
  <2>. QED BY <2>1, <2>2, <2>3
<1>. QED BY <1>3, <1>4 DEF RowsUnique, Taken

\* Every step keeps what retries rely on.
LEMMA StepRetries ==
  ASSUME IInv, IInv', Advance, RetryInv, [Next]_vars
  PROVE  RetryInv'
<1> SUFFICES KeysOK' /\ PostsOK' /\ RowsUnique'
  BY DEF RetryInv
<1>0. KeysOK /\ PostsOK /\ RowsUnique /\ Tables
  BY DEF RetryInv, IInv
<1>1. UNCHANGED posted => PostsOK'
  BY <1>0, PostsUnchanged
<1>2. SameRows => RowsUnique'
  BY <1>0, UniqueStays
<1>3. SameKeys => KeysOK'
  BY <1>0, KeysStay
<1>4. \A rs, act : \A st \in ClosedStatuses :
        (\A r \in rs : Pending(r)) /\ CloseRows(rs, st, act) => SameRows
  BY <1>0, ClosingKeepsRows
<1>5. UNCHANGED rowVars => SameRows
  BY SameRowsStay
<1>6. {"resolved", "expired", "cancelled"} \subseteq ClosedStatuses
  BY DEF ClosedStatuses
<1>7. ASSUME NEW q \in Proposals, NEW k \in Keys, NEW r \in Requests,
             CreateInteraction(q, k, r)
      PROVE  KeysOK' /\ PostsOK' /\ RowsUnique'
  <2>1. SameKeys
    BY <1>7 DEF CreateInteraction, SameKeys
  <2>2. PICK p : /\ p = Stripped(q) /\ Taken(p) = {} /\ status[r] = "absent" /\ Row(r, p)
                 /\ posted' = [posted EXCEPT !["create"][k] = [input |-> p, request |-> r]]
    BY <1>7 DEF CreateInteraction
  <2>3. RowsUnique' /\ r \in Taken(p)'
    BY <1>0, <2>2, CreateKeepsUnique
  <2>4. PostsOK'
    BY <1>0, <2>2, <2>3, CreatePosts
  <2>. QED BY <1>3, <2>1, <2>3, <2>4
<1>8. ASSUME NEW q \in Proposals, NEW k \in Keys, NEW r \in Requests,
             CreateDuplicate(q, k, r)
      PROVE  KeysOK' /\ PostsOK' /\ RowsUnique'
  <2>1. SameKeys /\ SameRows
    BY <1>5, <1>8 DEF CreateDuplicate, SameKeys
  <2>2. PICK p : /\ p = Stripped(q) /\ r \in Taken(p)
                 /\ posted' = [posted EXCEPT !["create"][k] = [input |-> p, request |-> r]]
    BY <1>8 DEF CreateDuplicate
  <2>3. r \in Taken(p)'
    BY <2>2, TakenStays
  <2>4. PostsOK'
    BY <1>0, <2>2, <2>3, CreatePosts
  <2>. QED BY <1>2, <1>3, <2>1, <2>4
<1>9. ASSUME NEW r \in Requests, NEW v \in 1..2, NEW k \in Keys,
             CancelInteraction(r, v, k)
      PROVE  KeysOK' /\ PostsOK' /\ RowsUnique'
  <2>1. SameKeys
    BY <1>9 DEF CancelInteraction, SameKeys
  <2>2. SameRows
    <3>1. CloseRows({r}, "cancelled", "cancel") /\ \A x \in {r} : Pending(x)
      BY <1>9 DEF CancelInteraction
    <3>. QED BY <1>4, <1>6, <3>1
  <2>3. PICK y : posted' = [posted EXCEPT !["cancel"][k] = y]
    BY <1>9 DEF CancelInteraction
  <2>4. PostsOK'
    BY <1>0, <2>3, CancelPosts
  <2>. QED BY <1>2, <1>3, <2>1, <2>2, <2>4
<1>10. ASSUME NEW s \in Sessions, CancelPendingInteractionsForSession(s)
       PROVE  KeysOK' /\ PostsOK' /\ RowsUnique'
  <2>1. SameKeys /\ UNCHANGED posted
    BY <1>10 DEF CancelPendingInteractionsForSession, SameKeys
  <2>2. SameRows
    <3> DEFINE rs == {r \in Requests : Pending(r) /\ body[r].session = s}
    <3>1. CloseRows(rs, "cancelled", "cancel") /\ \A x \in rs : Pending(x)
      BY <1>10 DEF CancelPendingInteractionsForSession
    <3> HIDE DEF rs
    <3>. QED BY <1>4, <1>6, <3>1
  <2>. QED BY <1>1, <1>2, <1>3, <2>1, <2>2
<1>11. CASE ExpireDueInteractions
  <2>1. SameKeys /\ UNCHANGED posted
    BY <1>11 DEF ExpireDueInteractions, SameKeys
  <2>2. SameRows
    <3> DEFINE rs == {r \in Requests : Due(r)}
    <3>1. CloseRows(rs, "expired", "expire") /\ \A x \in rs : Pending(x)
      BY <1>11 DEF ExpireDueInteractions, Due
    <3> HIDE DEF rs
    <3>. QED BY <1>4, <1>6, <3>1
  <2>. QED BY <1>1, <1>2, <1>3, <2>1, <2>2
<1>12. ASSUME NEW c, Acceptable(c), Resolve(c)
       PROVE  SameRows
  <2>1. CloseRows({c.request}, "resolved", c.action) /\ \A x \in {c.request} : Pending(x)
    BY <1>12 DEF Acceptable, Resolve
  <2>. QED BY <1>4, <1>6, <2>1
<1>13. ASSUME NEW r \in Requests, Due(r), CloseRows({r}, "expired", "expire")
       PROVE  SameRows
  <2>1. \A x \in {r} : Pending(x)
    BY <1>13 DEF Due
  <2>. QED BY <1>4, <1>6, <1>13, <2>1
<1>14. ASSUME NEW c \in Commands, Respond(c)
       PROVE  KeysOK' /\ PostsOK' /\ RowsUnique'
  <2>1. /\ idem[<<c.scope, c.key>>] = None /\ Acceptable(c) /\ Resolve(c)
        /\ UNCHANGED posted
    BY <1>14 DEF Respond
  <2>2. KeysOK'
    BY <1>0, <2>1, HumanCommands, ResolveKeys
  <2>. QED BY <1>1, <1>2, <1>12, <2>1, <2>2
<1>15. ASSUME NEW c \in Commands, RespondReplay(c)
       PROVE  KeysOK' /\ PostsOK' /\ RowsUnique'
  <2>1. UNCHANGED rowVars /\ UNCHANGED posted
    BY <1>15 DEF RespondReplay
  <2>2. KeysOK'
    BY <1>0, <1>15, HumanCommands, ReplayKeys
  <2>. QED BY <1>1, <1>2, <1>5, <2>1, <2>2
<1>16. ASSUME NEW c \in Commands, RespondLate(c)
       PROVE  KeysOK' /\ PostsOK' /\ RowsUnique'
  <2>1. c.request \in Requests
    BY DEF Commands, CommandsBy
  <2>2. /\ SameKeys /\ UNCHANGED posted
        /\ Due(c.request) /\ CloseRows({c.request}, "expired", "expire")
    BY <1>16 DEF RespondLate, SameKeys
  <2>. QED BY <1>1, <1>2, <1>3, <1>13, <2>1, <2>2
<1>17. ASSUME UNCHANGED <<rowVars, responses, idem, posted, answered>>
       PROVE  KeysOK' /\ PostsOK' /\ RowsUnique'
  <2>1. SameKeys /\ UNCHANGED posted /\ UNCHANGED rowVars
    BY <1>17 DEF SameKeys
  <2>. QED BY <1>1, <1>2, <1>3, <1>5, <2>1
<1>18. ASSUME NEW r \in Requests, StoreResolveStaleGate(r)
       PROVE  KeysOK' /\ PostsOK' /\ RowsUnique'
  <2>1. PICK c : c = [scope |-> Policy, key |-> r, request |-> r, action |-> "approve",
                      version |-> version[r], hash |-> hash[r]]
    OBVIOUS
  <2>2. /\ UNCHANGED posted
        /\ \/ idem[<<Policy, r>>] = None /\ Acceptable(c) /\ Resolve(c)
           \/ SameKeys /\ Due(r) /\ CloseRows({r}, "expired", "expire")
           \/ SameKeys /\ UNCHANGED rowVars
    BY <1>18, <2>1 DEF StoreResolveStaleGate, SameKeys
  <2>3. ASSUME idem[<<Policy, r>>] = None, Acceptable(c), Resolve(c)
        PROVE  KeysOK'
    <3>1. c.request = r /\ c.scope = Policy /\ c.key = r /\ c.version = version[r] /\ c.hash = hash[r]
      BY <2>1
    <3>2. Pending(r)
      BY <2>3, <3>1 DEF Acceptable
    <3>3. version[r] \in 1..2
      BY <1>0, <3>2, Versions DEF Tables
    <3>4. hash[r] \in Contents
      BY <1>0, <3>2, BodyFacts DEF Tables, RowsOK, Pending
    <3>5. c \in AllCommands
      BY <2>1, <3>3, <3>4 DEF AllCommands, CommandsBy, Actions
    <3>6. <<c.scope, c.key>> \in IdemKeys
      BY <3>1 DEF IdemKeys
    <3>. QED BY <1>0, <2>3, <3>1, <3>5, <3>6, ResolveKeys
  <2>. QED BY <1>1, <1>2, <1>3, <1>5, <1>12, <1>13, <2>2, <2>3
<1>19. ASSUME NEW place \in [Gates -> Requests], StoreSave(place)
       PROVE  KeysOK' /\ PostsOK' /\ RowsUnique'
  <2>1. SameKeys /\ UNCHANGED posted
    BY <1>19 DEF StoreSave, SameKeys
  <2>2. RowsUnique'
    BY <1>0, <1>19, SaveKeepsUnique
  <2>. QED BY <1>1, <1>3, <2>1, <2>2
<1>20. CASE AdapterNext
  BY <1>7, <1>8, <1>9, <1>10, <1>20 DEF AdapterNext
<1>21. CASE HumanNext
  BY <1>14, <1>15, <1>16, <1>21 DEF HumanNext
<1>22. CASE StoreNext
  <2>1. CASE StoreLoad \/ StoreAbandon \/ \E g \in Gates : StoreRaise(g)
    BY <1>17, <2>1 DEF StoreLoad, StoreAbandon, StoreRaise
  <2>2. CASE \E r \in Requests : StoreExpire(r) \/ StoreAutoApprove(r)
    BY <1>17, <2>2 DEF StoreExpire, StoreAutoApprove
  <2>3. CASE \E r \in Requests : StoreResolveStaleGate(r)
    BY <1>18, <2>3
  <2>4. CASE \E place \in [Gates -> Requests] : StoreSave(place)
    BY <1>19, <2>4
  <2>. QED BY <1>22, <2>1, <2>2, <2>3, <2>4 DEF StoreNext
<1>23. CASE Tick \/ UNCHANGED vars
  BY <1>17, <1>23 DEF Tick, vars, rowVars
<1>. QED BY <1>11, <1>20, <1>21, <1>22, <1>23 DEF Next

-----------------------------------------------------------------------------
\* The inductive invariant holds in every reachable state.
LEMMA Invariance == Spec => []IInv
<1>1. Init => IInv
  BY InitTables
<1>2. IInv /\ [Next]_vars => IInv'
  BY StepAdvances
<1>. QED BY <1>1, <1>2, PTL DEF Spec

\* So does what retries rely on.
LEMMA RetryInvariance == Spec => []RetryInv
<1>1. Init => RetryInv
  BY InitRetries
<1>2. IInv /\ IInv' /\ RetryInv /\ [Next]_vars => RetryInv'
  BY StepAdvances, StepRetries
<1>. QED BY <1>1, <1>2, Invariance, PTL DEF Spec

\* The tables and the store's copy keep their schema, for any number of
\* requests, clients and calls.
THEOREM TypeCorrect == Spec => []TypeOK
<1>1. IInv => TypeOK
  BY DEF IInv, Tables, TypeTables, ViewOK, TypeOK, Events
<1>. QED BY <1>1, Invariance, PTL

\* Whoever races to close a row, it is closed and announced once.
THEOREM RowsCloseOnce == Spec => []ClosedOnce
<1>1. IInv => ClosedOnce
  BY DEF IInv, Tables
<1>. QED BY <1>1, Invariance, PTL

\* The verdict an adapter reads is the one the human gave, and stays so when
\* the project store imports its copy.
THEOREM VerdictsAreAnswers == Spec => []ResolvedAsAnswered
<1>1. IInv => ResolvedAsAnswered
  BY DEF IInv, Tables
<1>. QED BY <1>1, Invariance, PTL

\* Every response is on the reviewed input, on the open row, before expiry.
THEOREM ResponsesInTime == Spec => []ReviewedInTime
<1>1. IInv => ReviewedInTime
  BY DEF IInv, Tables
<1>. QED BY <1>1, Invariance, PTL

\* The project store's copy never runs ahead of what was decided.
THEOREM CopiesConsistent == Spec => []ViewConsistent
<1>1. IInv => ViewConsistent
  BY DEF IInv, ViewOK
<1>. QED BY <1>1, Invariance, PTL

\* However often calls are sent again: a key has one answer, a create key
\* names a row of its vendor request, and a vendor request has one row.
THEOREM RetriesAreHarmless == Spec => []RetriesChangeNothing
<1>1. ASSUME IInv, RetryInv PROVE RetriesChangeNothing
  <2>1. ASSUME NEW a \in answered, NEW b \in answered, a.scope = b.scope, a.key = b.key
        PROVE  a.response = b.response
    <3> DEFINE k == <<a.scope, a.key>>
    <3>1. /\ a.response \in responses /\ a.response.request = idem[k].request
          /\ b.response \in responses /\ b.response.request = idem[k].request
      BY <1>1, <2>1 DEF RetryInv, KeysOK
    <3> HIDE DEF k
    <3>2. a.response.request = b.response.request
      BY <3>1
    <3>3. \A x, y \in responses : x.request = y.request => x = y
      BY <1>1 DEF IInv, Tables, RowsOK
    <3>. QED BY <3>1, <3>2, <3>3
  <2>. QED BY <1>1, <2>1 DEF RetriesChangeNothing, RetryInv, PostsOK, RowsUnique
<1>. QED BY <1>1, Invariance, RetryInvariance, PTL

\* The gateway implements FinalDecision: every transaction asks, closes or
\* leaves each request alone, and a closed request keeps its outcome.
THEOREM DecidesOnce == Spec => OneFinalDecision
<1> DEFINE outcome == [r \in Requests |-> Outcome(r)]
<1>1. Init => Decision!FDInit
  BY DEF Init, Decision!FDInit, Outcome
<1>2. ASSUME IInv, IInv', Advance
      PROVE  Decision!FDNext
  <2>1. outcome' = [r \in Requests |-> outcome'[r]]
    OBVIOUS
  <2>2. ASSUME NEW r \in Requests
        PROVE  Decision!Ask(r) \/ Decision!Close(r) \/ outcome'[r] = outcome[r]
    <3>1. /\ status[r] \in {"absent", "pending"} \cup ClosedStatuses
          /\ status'[r] \in {"absent", "pending"} \cup ClosedStatuses
      BY <1>2 DEF IInv, Tables, TypeTables
    <3>2. /\ version[r] \in {0, 1, 2}
          /\ version[r] = 0 <=> status[r] = "absent"
          /\ version[r] = 1 <=> status[r] = "pending"
      BY <1>2, Versions DEF IInv, Tables, Pending
    <3>3. /\ version'[r] \in {0, 1, 2}
          /\ version'[r] = 0 <=> status'[r] = "absent"
          /\ version'[r] = 1 <=> status'[r] = "pending"
      <4>1. TypeTables' /\ ClosedOnce'
        BY <1>2 DEF IInv, Tables
      <4>2. version'[r] = (IF status'[r] = "absent" THEN 0 ELSE IF status'[r] = "pending" THEN 1 ELSE 2)
        BY <4>1 DEF ClosedOnce, Pending
      <4>. QED BY <4>2
    <3>4. /\ version[r] <= version'[r] /\ version'[r] <= version[r] + 1
          /\ version[r] = 2 => /\ status'[r] = status[r]
                               /\ Verdict(final'[r]) = Verdict(final[r])
      BY <1>2 DEF Advance
    <3>5. outcome[r] = Outcome(r) /\ outcome'[r] = Outcome(r)'
      OBVIOUS
    <3>6. \A a : Verdict(a) \in Outcomes
      BY DEF Verdict, Outcomes
    <3>7. CASE version[r] = 0 /\ version'[r] = 0
      BY <3>2, <3>3, <3>5, <3>7 DEF Outcome
    <3>8. CASE version[r] = 0 /\ version'[r] = 1
      BY <3>2, <3>3, <3>5, <3>8 DEF Outcome, Decision!Ask
    <3>9. CASE version[r] = 1 /\ version'[r] = 1
      BY <3>2, <3>3, <3>5, <3>9 DEF Outcome
    <3>10. CASE version[r] = 1 /\ version'[r] = 2
      BY <3>1, <3>2, <3>3, <3>5, <3>6, <3>10 DEF Outcome, Outcomes, ClosedStatuses, Decision!Close
    <3>11. CASE version[r] = 2
      BY <3>4, <3>5, <3>11 DEF Outcome
    <3>. QED BY <3>2, <3>3, <3>4, <3>7, <3>8, <3>9, <3>10, <3>11
  <2>. QED BY <2>1, <2>2 DEF Decision!FDNext
<1>3. IInv /\ [Next]_vars => [Decision!FDNext]_outcome
  BY <1>2, StepAdvances
<1>. QED BY <1>1, <1>3, Invariance, PTL DEF Spec, OneFinalDecision, Decision!FDSpec
=============================================================================
