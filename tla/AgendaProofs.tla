---------------------------- MODULE AgendaProofs ----------------------------
(***************************************************************************)
(* Proofs about Agenda, and with it about EventLifecycle and about the     *)
(* accounts the requests are authenticated against: for any organizers,    *)
(* events, sessions, times, tokens and workers.                            *)
(***************************************************************************)
EXTENDS Agenda, AccountsProofs

\* A PATCH leaves the times it read in order, or out of it, or changes one of them.
Partial(seen, new) ==
  \/ Ordered(new)
  \/ ~Ordered(seen)
  \/ new.start = seen.start /\ new.end # seen.end
  \/ new.start # seen.start /\ new.end = seen.end

\* What a request about an event is about to write, to an event that has not gone
\* away since it was read.
EditOK(w) ==
  pc[w] = "event_save" =>
    /\ edit[w].op \in {"create", "patch", "publish", "cancel"} /\ edit[w].new \in Row
    /\ edit[w].op # "create" => edit[w].seen \in Row /\ row[edit[w].at] \in Row
    /\ edit[w].op = "publish" => edit[w].seen.status = "DRAFT"
    /\ edit[w].op = "cancel" => edit[w].new.status = "CANCELLED"
    /\ edit[w].op = "create" => Ordered(edit[w].new)
    /\ edit[w].op = "patch" => Partial(edit[w].seen, edit[w].new)

\* A PATCH or DELETE under way has found the session, under a key handed out.
DraftOK(w) == pc[w] = "session_save" /\ draft[w].op # "create" => draft[w].at \in used

OfficeInv ==
  /\ AInv
  /\ AgendaTypeOK
  /\ \A w \in Workers : EditOK(w) /\ DraftOK(w)

\* The invariant holds while there are no events, sessions and requests.
LEMMA OfficeInit == AgendaInit => OfficeInv
<1> SUFFICES ASSUME AgendaInit PROVE OfficeInv
  OBVIOUS
<1>1. AInv
  BY AInvInit DEF AgendaInit, EventInit
<1>2. AgendaTypeOK
  BY <1>1 DEF AgendaInit, EventInit, Init, AInv, AgendaTypeOK, EventTypeOK, EventLabels
<1>3. \A w \in Workers : EditOK(w) /\ DraftOK(w)
  BY DEF AgendaInit, EventInit, Init, EditOK, DraftOK
<1> QED BY <1>1, <1>2, <1>3 DEF OfficeInv

(***************************************************************************)
(* Requests about accounts                                                 *)
(***************************************************************************)

\* A request about an account stays one until it ends, and touches no other.
LEMMA OwnLabels ==
  ASSUME AInv, [Next]_accounts, NEW v \in Workers
  PROVE  \/ pc'[v] = pc[v]
         \/ /\ pc[v] \in AccountLabels \union {"idle"}
            /\ pc'[v] \in AccountLabels \union {"idle"}
<1> DEFINE Stays == \/ pc'[v] = pc[v]
                    \/ /\ pc[v] \in AccountLabels \union {"idle"}
                       /\ pc'[v] \in AccountLabels \union {"idle"}
<1> USE DEF AInv, RequestTypeOK, AccountLabels
<1>1. ASSUME NEW w \in Workers, AccountStep(w) PROVE Stays
  <2>1. pc[w] \in AccountLabels
    BY <1>1 DEF AccountStep, RegisterUser, RegisterProfile, Issue, RefreshBlacklist,
                LogoutBlacklist, Fail, Goto
  <2>2. \E label \in AccountLabels \union {"idle"} : pc' = [pc EXCEPT ![w] = label]
    BY <1>1 DEF AccountStep, RegisterUser, RegisterProfile, Issue, RefreshBlacklist,
                LogoutBlacklist, Fail, Goto, End
  <2> QED BY <2>1, <2>2
<1>2. ASSUME NEW w \in Workers, NEW u \in Users, RegisterRead(w, u) \/ LoginRead(w, u)
      PROVE  Stays
  BY <1>2 DEF RegisterRead, LoginRead, Begin
<1>3. ASSUME NEW w \in Workers, NEW k \in Tokens,
             RefreshRead(w, k) \/ \E u \in Users : LogoutRead(w, u, k)
      PROVE  Stays
  BY <1>3 DEF RefreshRead, LogoutRead, Begin
<1>4. CASE (\E u \in Users : Suspend(u)) \/ UNCHANGED accounts
  BY <1>4 DEF Suspend, accounts, request
<1> QED BY <1>1, <1>2, <1>3, <1>4 DEF Next

\* Accounts change under the requests about events, and nothing those know of
\* rows is of an account.
LEMMA AccountsStep ==
  ASSUME OfficeInv, [Next]_accounts, UNCHANGED <<row, edit, session, used, draft>>
  PROVE  OfficeInv'
<1>1. AInv'
  BY AInvStep DEF OfficeInv
<1>2. ASSUME NEW v \in Workers
      PROVE  \/ pc'[v] = pc[v]
             \/ /\ pc[v] \in AccountLabels \union {"idle"}
                /\ pc'[v] \in AccountLabels \union {"idle"}
  BY OwnLabels DEF OfficeInv
<1>3. EventTypeOK'
  BY <1>1, <1>2 DEF OfficeInv, AInv, AgendaTypeOK, EventTypeOK, EventLabels, AccountLabels
<1>4. pc' \in [Workers -> AccountLabels \union EventLabels \union {"idle", "session_save"}]
  BY <1>1 DEF AInv, RequestTypeOK, WorkerLabels, EventLabels
<1>5. AgendaTypeOK'
  BY <1>2, <1>3, <1>4 DEF OfficeInv, AgendaTypeOK, AccountLabels
<1>6. \A v \in Workers : EditOK(v)' /\ DraftOK(v)'
  BY <1>2 DEF OfficeInv, EditOK, DraftOK, AccountLabels
<1> QED BY <1>1, <1>5, <1>6 DEF OfficeInv

(***************************************************************************)
(* Requests about events                                                   *)
(***************************************************************************)

\* Each request leaves a row in the object: partial, published or cancelled.
LEMMA OutcomesTyped ==
  ASSUME NEW seen \in Row \union {NoRow}, NEW o \in Outcomes(seen)
  PROVE  /\ o[1] \in {"create", "patch", "publish", "cancel"} /\ o[2] \in Row
         /\ o[1] # "create" => seen \in Row
         /\ o[1] = "publish" => seen.status = "DRAFT"
         /\ o[1] = "cancel" => o[2].status = "CANCELLED"
         /\ o[1] = "create" => Ordered(o[2])
         /\ o[1] = "patch" => Partial(seen, o[2])
<1>1. CASE seen = NoRow
  <2>1. PICK p \in Patch \intersect Row : InOrder(p) /\ o = <<"create", p>>
    BY <1>1 DEF Outcomes
  <2>2. p.start # Same /\ p.end # Same
    BY EventsAssumption DEF Row
  <2> QED BY <2>1, <2>2 DEF InOrder, Ordered
<1>2. CASE seen # NoRow
  <2>1. seen \in Row
    BY <1>2
  <2>2. CASE \E p \in Patch : InOrder(p) /\ o = <<"patch", Applied(p, seen)>>
    <3>1. PICK p \in Patch : InOrder(p) /\ o = <<"patch", Applied(p, seen)>>
      BY <2>2
    <3>2. Applied(p, seen) \in Row
      BY <2>1 DEF Applied, Patch, Row, Statuses
    <3>3. /\ Applied(p, seen).start = IF p.start = Same THEN seen.start ELSE p.start
          /\ Applied(p, seen).end = IF p.end = Same THEN seen.end ELSE p.end
      BY DEF Applied
    <3>4. Partial(seen, Applied(p, seen))
      BY <3>1, <3>3 DEF Partial, InOrder, Ordered
    <3> QED BY <2>1, <3>1, <3>2, <3>4
  <2>3. CASE o = <<"cancel", [seen EXCEPT !.status = "CANCELLED"]>>
    BY <2>1, <2>3 DEF Row, Statuses
  <2>4. CASE /\ Publishable(seen.status)
             /\ o = <<"publish", [seen EXCEPT !.status = "PUBLISHED"]>>
    BY <2>1, <2>4 DEF Row, Statuses, Publishable
  <2> QED BY <1>2, <2>2, <2>3, <2>4 DEF Outcomes
<1> QED BY <1>1, <1>2

\* A request about an event begins without a token and with nothing read.
LEMMA EventOpenStep ==
  ASSUME OfficeInv, NEW w \in Workers, NEW e \in Events, EventOpen(w, e),
         UNCHANGED <<session, used, draft>>
  PROVE  OfficeInv'
<1> USE DEF OfficeInv
<1>1. OwnerOf[e] \in Users
  BY EventsAssumption
<1>2. AInv'
  BY <1>1, BeginStep DEF EventOpen, AccountLabels, WorkerLabels
<1>3. /\ pc[w] = "idle" /\ pc' = [pc EXCEPT ![w] = "event_read"]
      /\ edit'[w] # NoEdit /\ edit' \in [Workers -> Edit \union {NoEdit}]
      /\ \A v \in Workers \ {w} : edit'[v] = edit[v]
  BY EventsAssumption DEF EventOpen, Begin, AgendaTypeOK, EventTypeOK, Edit
<1>4. EventTypeOK'
  BY <1>2, <1>3 DEF EventOpen, AInv, RequestTypeOK, AgendaTypeOK, EventTypeOK, EventLabels
<1>5. AgendaTypeOK'
  BY <1>3, <1>4 DEF AgendaTypeOK, EventLabels
<1>6. \A v \in Workers : EditOK(v)' /\ DraftOK(v)'
  BY <1>3 DEF EventOpen, EditOK, DraftOK, AInv, RequestTypeOK
<1> QED BY <1>2, <1>5, <1>6

\* Going on with a request about an event leaves no mark on the accounts.
LEMMA GotoSaveStep ==
  ASSUME AInv, NEW w \in Workers, Goto(w, "event_read", "event_save"), UNCHANGED rows
  PROVE  AInv'
<1>1. RequestTypeOK' /\ TypeOK'
  BY DEF AInv, TypeOK, RequestTypeOK, Goto, rows, AccountLabels, WorkerLabels
<1>2. OneCreator' /\ RotationRetires'
  BY DEF AInv, OneCreator, RotationRetires, RequestTypeOK, Goto, rows
<1>3. \A v \in Workers : RequestOK(v)'
  BY DEF AInv, RequestOK, RequestTypeOK, Goto, rows
<1> QED BY <1>1, <1>2, <1>3 DEF AInv

\* What the request has read and decided is what EditOK says.
LEMMA EventReadStep ==
  ASSUME OfficeInv, NEW w \in Workers, EventRead(w), UNCHANGED <<session, used, draft>>
  PROVE  OfficeInv'
<1> USE DEF OfficeInv
<1>1. AInv'
  BY GotoSaveStep DEF EventRead
<1>2. pc[w] = "event_read" /\ pc' = [pc EXCEPT ![w] = "event_save"]
  BY DEF EventRead, Goto
<1>3. edit[w] \in Edit /\ row[edit[w].at] \in Row \union {NoRow}
  BY <1>2 DEF AgendaTypeOK, EventTypeOK, EventLabels, Edit
<1>4. PICK o \in Outcomes(row[edit[w].at]) :
        edit' = [edit EXCEPT ![w] = [op |-> o[1], at |-> edit[w].at,
                                     seen |-> row[edit[w].at], new |-> o[2]]]
  BY DEF EventRead
<1> DEFINE next == [op |-> o[1], at |-> edit[w].at, seen |-> row[edit[w].at], new |-> o[2]]
<1>5. next \in Edit /\ next # NoEdit
  BY <1>3, <1>4, OutcomesTyped, EventsAssumption DEF Edit
<1>6. EventTypeOK'
  BY <1>1, <1>2, <1>4, <1>5
  DEF EventRead, AInv, RequestTypeOK, AgendaTypeOK, EventTypeOK, EventLabels
<1>7. AgendaTypeOK'
  BY <1>2, <1>6 DEF AgendaTypeOK, EventLabels
<1>8. \A v \in Workers : DraftOK(v)'
  BY <1>2 DEF DraftOK, AInv, RequestTypeOK
<1>9. ASSUME NEW v \in Workers PROVE EditOK(v)'
  <2>1. CASE v = w
    BY <2>1, <1>3, <1>4, OutcomesTyped DEF EventRead, EditOK, AgendaTypeOK, EventTypeOK
  <2>2. CASE v # w
    BY <2>2, <1>2, <1>4 DEF EventRead, EditOK, AInv, RequestTypeOK
  <2> QED BY <2>1, <2>2
<1> QED BY <1>1, <1>7, <1>8, <1>9

\* A request about an event that ends, whatever it has written.
LEMMA FinishStep ==
  ASSUME OfficeInv, NEW w \in Workers, pc[w] \in EventLabels, Finish(w), UNCHANGED rows,
         UNCHANGED <<session, used, draft>>,
         row' \in [Events -> Row \union {NoRow}],
         \A e \in Events : row[e] \in Row => row'[e] \in Row
  PROVE  OfficeInv'
<1> USE DEF OfficeInv
<1>1. AInv'
  BY EndStep DEF Finish
<1>2. pc' = [pc EXCEPT ![w] = "idle"] /\ edit' = [edit EXCEPT ![w] = NoEdit]
  BY DEF Finish, End
<1>3. EventTypeOK'
  BY <1>1, <1>2 DEF AInv, RequestTypeOK, AgendaTypeOK, EventTypeOK, EventLabels
<1>4. AgendaTypeOK'
  BY <1>2, <1>3 DEF AgendaTypeOK, EventLabels
<1>5. ASSUME NEW v \in Workers, pc'[v] = "event_save" PROVE EditOK(v)'
  <2>1. v # w /\ pc[v] = "event_save" /\ edit'[v] = edit[v] /\ edit[v] \in Edit
    BY <1>2, <1>5 DEF AInv, RequestTypeOK, AgendaTypeOK, EventTypeOK, EventLabels
  <2>2. edit[v].at \in Events
    BY <2>1 DEF Edit
  <2> QED BY <2>1, <2>2 DEF EditOK
<1>6. \A v \in Workers : DraftOK(v)'
  BY <1>2 DEF DraftOK, AInv, RequestTypeOK
<1> QED BY <1>1, <1>4, <1>5, <1>6 DEF EditOK

\* Whatever is saved is a row, and no event is lost.
LEMMA EventSaveStep ==
  ASSUME OfficeInv, NEW w \in Workers, EventSave(w), UNCHANGED <<session, used, draft>>
  PROVE  OfficeInv'
<1>1. pc[w] = "event_save" /\ edit[w] \in Edit /\ EditOK(w) /\ row \in [Events -> Row \union {NoRow}]
  BY DEF EventSave, OfficeInv, AgendaTypeOK, EventTypeOK, EventLabels
<1>2. edit[w].at \in Events
  BY <1>1 DEF Edit
<1>3. /\ row' \in [Events -> Row \union {NoRow}]
      /\ \A e \in Events : row[e] \in Row => row'[e] \in Row
  BY <1>1, <1>2 DEF EventSave, EditOK, Row
<1> QED BY <1>1, <1>3, FinishStep DEF EventSave, EventLabels

\* Every step of EventLifecycle keeps the invariant.
LEMMA EventsStep ==
  ASSUME OfficeInv, EventNext, UNCHANGED <<session, used, draft>>
  PROVE  OfficeInv'
<1>1. ASSUME NEW w \in Workers, EventFail(w) PROVE OfficeInv'
  BY <1>1, FinishStep DEF EventFail, OfficeInv, AgendaTypeOK, EventTypeOK
<1> QED
  BY <1>1, AccountsStep, EventOpenStep, EventReadStep, EventSaveStep DEF EventNext

(***************************************************************************)
(* Requests about sessions                                                 *)
(***************************************************************************)

\* A request about a session begins with its write decided.
LEMMA StartDraftStep ==
  ASSUME OfficeInv, NEW w \in Workers, NEW e \in Events, NEW d \in Draft, StartDraft(w, e, d),
         d.op # "create" => d.at \in used
  PROVE  OfficeInv'
<1> USE DEF OfficeInv
<1>1. OwnerOf[e] \in Users
  BY EventsAssumption
<1>2. AInv'
  BY <1>1, BeginStep DEF StartDraft, AccountLabels, WorkerLabels
<1>3. pc[w] = "idle" /\ pc' = [pc EXCEPT ![w] = "session_save"] /\ d # NoEdit
  BY SessionsAssumption DEF StartDraft, Begin
<1>4. EventTypeOK'
  BY <1>2, <1>3 DEF StartDraft, AInv, RequestTypeOK, AgendaTypeOK, EventTypeOK, EventLabels
<1>5. AgendaTypeOK'
  BY <1>3, <1>4 DEF StartDraft, AgendaTypeOK
<1>6. \A v \in Workers : EditOK(v)' /\ DraftOK(v)'
  BY <1>3 DEF StartDraft, EditOK, DraftOK, AInv, RequestTypeOK, AgendaTypeOK
<1> QED BY <1>2, <1>5, <1>6

\* What a create, a PATCH and a DELETE of a session are about to write.
LEMMA SessionRequestStep ==
  ASSUME OfficeInv, NEW w \in Workers, NEW s \in Sessions,
         \/ \E e \in Events, start \in Times : SessionCreate(w, s, e, start)
         \/ \E e \in Events \union {Same}, start \in Times \union {Same} :
              SessionPatch(w, s, e, start)
         \/ SessionDelete(w, s)
  PROVE  \E e \in Events, d \in Draft :
           /\ StartDraft(w, e, d)
           /\ d.at = s
           /\ d.op # "create" => session[s] # NoRow
<1>1. ASSUME NEW e \in Events, NEW start \in Times, SessionCreate(w, s, e, start)
      PROVE  \E d \in Draft : StartDraft(w, e, d) /\ d.at = s /\ d.op = "create"
  <2> DEFINE d == [op |-> "create", at |-> s, new |-> [event |-> e, start |-> start]]
  <2>1. d \in Draft
    BY DEF Draft, SessionRow
  <2> QED BY <1>1, <2>1 DEF SessionCreate
<1>2. ASSUME session[s] # NoRow PROVE session[s] \in SessionRow
  BY <1>2 DEF OfficeInv, AgendaTypeOK
<1>3. ASSUME NEW e \in Events \union {Same}, NEW start \in Times \union {Same},
             SessionPatch(w, s, e, start)
      PROVE  \E d \in Draft :
               StartDraft(w, session[s].event, d) /\ d.at = s /\ session[s] \in SessionRow
  <2> DEFINE new == [event |-> IF e = Same THEN session[s].event ELSE e,
                     start |-> IF start = Same THEN session[s].start ELSE start]
             d == [op |-> "patch", at |-> s, new |-> new]
  <2>1. session[s] \in SessionRow
    BY <1>2, <1>3 DEF SessionPatch
  <2>2. d \in Draft
    BY <2>1 DEF Draft, SessionRow
  <2> QED BY <1>3, <2>1, <2>2 DEF SessionPatch
<1>4. ASSUME SessionDelete(w, s)
      PROVE  \E d \in Draft :
               StartDraft(w, session[s].event, d) /\ d.at = s /\ session[s] \in SessionRow
  <2> DEFINE d == [op |-> "delete", at |-> s]
  <2>1. d \in Draft
    BY DEF Draft
  <2> QED BY <1>2, <1>4, <2>1 DEF SessionDelete
<1>5. session[s] \in SessionRow => session[s].event \in Events /\ session[s] # NoRow
  BY SessionsAssumption DEF SessionRow
<1> QED BY <1>1, <1>3, <1>4, <1>5

\* A request about a session that ends, whatever it has written.
LEMMA DraftEndStep ==
  ASSUME OfficeInv, NEW w \in Workers, pc[w] = "session_save", End(w),
         draft' = [draft EXCEPT ![w] = NoEdit], UNCHANGED <<rows, row, edit>>,
         session' \in [Sessions -> SessionRow \union {NoRow}],
         {s \in Sessions : session'[s] # NoRow} \subseteq used', used \subseteq used',
         used' \subseteq Sessions
  PROVE  OfficeInv'
<1> USE DEF OfficeInv
<1>1. AInv'
  BY EndStep
<1>2. pc' = [pc EXCEPT ![w] = "idle"]
  BY DEF End
<1>3. EventTypeOK'
  BY <1>1, <1>2 DEF AInv, RequestTypeOK, AgendaTypeOK, EventTypeOK, EventLabels
<1>4. AgendaTypeOK'
  BY <1>2, <1>3 DEF AgendaTypeOK
<1>5. \A v \in Workers : EditOK(v)' /\ DraftOK(v)'
  BY <1>2 DEF EditOK, DraftOK, AInv, RequestTypeOK, AgendaTypeOK
<1> QED BY <1>1, <1>4, <1>5

\* A session is written under a key that has been handed out.
LEMMA SessionSaveStep ==
  ASSUME OfficeInv, NEW w \in Workers, SessionSave(w)
  PROVE  OfficeInv'
<1>1. draft[w] \in Draft /\ session \in [Sessions -> SessionRow \union {NoRow}] /\ DraftOK(w)
  BY DEF SessionSave, OfficeInv, AgendaTypeOK
<1>2. session' \in [Sessions -> SessionRow \union {NoRow}]
  BY <1>1 DEF SessionSave, Written, Draft
<1>3. draft[w].at \in used' /\ used \subseteq used' /\ used' \subseteq Sessions
  BY <1>1 DEF SessionSave, OfficeInv, AgendaTypeOK, DraftOK, Draft
<1>4. {s \in Sessions : session'[s] # NoRow} \subseteq used'
  BY <1>1, <1>3 DEF SessionSave, Written, OfficeInv, AgendaTypeOK
<1> QED BY <1>1, <1>2, <1>3, <1>4, DraftEndStep DEF SessionSave

\* Every step keeps the invariant.
LEMMA OfficeStep == OfficeInv /\ [AgendaNext]_agendaVars => OfficeInv'
<1> SUFFICES ASSUME OfficeInv, [AgendaNext]_agendaVars PROVE OfficeInv'
  OBVIOUS
<1>1. CASE UNCHANGED agendaVars
  BY <1>1, AccountsStep DEF agendaVars, eventVars
<1>2. ASSUME NEW w \in Workers, NEW s \in Sessions,
             \/ \E e \in Events, start \in Times : SessionCreate(w, s, e, start)
             \/ \E e \in Events \union {Same}, start \in Times \union {Same} :
                  SessionPatch(w, s, e, start)
             \/ SessionDelete(w, s)
      PROVE  OfficeInv'
  <2>1. session[s] # NoRow => s \in used
    BY DEF OfficeInv, AgendaTypeOK
  <2> QED BY <1>2, <2>1, SessionRequestStep, StartDraftStep
<1>3. ASSUME NEW w \in Workers, SessionFail(w) PROVE OfficeInv'
  BY <1>3, DraftEndStep DEF SessionFail, OfficeInv, AgendaTypeOK
<1> QED
  BY <1>1, <1>2, <1>3, EventsStep, SessionSaveStep DEF AgendaNext

\* The invariant is inductive.
LEMMA OfficeInductive == AgendaSpec => []OfficeInv
BY OfficeInit, OfficeStep, PTL DEF AgendaSpec

(***************************************************************************)
(* Theorems                                                                *)
(***************************************************************************)

\* Rows, drafts and requests keep their types: whatever a partial PATCH names,
\* what is saved is a whole row, and a session lives under a key handed out.
THEOREM OfficeTyped == AgendaSpec => []AgendaTypeOK
<1>1. OfficeInv => AgendaTypeOK
  BY DEF OfficeInv
<1> QED BY <1>1, OfficeInductive, PTL

\* The profile of an account is made by one request (the unique constraint on
\* User.email), also while its workers serve requests about events and sessions.
THEOREM OneRequestCreatesInOffice == AgendaSpec => []OneCreator
<1>1. OfficeInv => OneCreator
  BY DEF OfficeInv, AInv
<1> QED BY <1>1, OfficeInductive, PTL

\* refresh_view retires a token before its successor exists, in the same setting.
THEOREM RefreshRetiresInOffice == AgendaSpec => []RotationRetires
<1>1. OfficeInv => RotationRetires
  BY DEF OfficeInv, AInv
<1> QED BY <1>1, OfficeInductive, PTL

(***************************************************************************)
(* Cancelled events                                                        *)
(***************************************************************************)

\* Only the write of a request about it changes an event.
LEMMA OnlySavesWrite ==
  ASSUME [AgendaNext]_agendaVars, row' # row
  PROVE  \E w \in Workers : EventSave(w)
BY DEF AgendaNext, agendaVars, EventNext, eventVars, EventOpen, EventRead, EventFail,
       SessionCreate, SessionPatch, SessionDelete, StartDraft, SessionSave, SessionFail

\* A write that takes an event out of CANCELLED is of a PATCH or a publish: of a
\* PATCH that names a status, or of a request that saw another.
LEMMA RevivesStep ==
  ASSUME OfficeInv, [AgendaNext]_agendaVars, NEW e \in Events,
         row[e] # NoRow, row[e].status = "CANCELLED", row'[e].status # "CANCELLED"
  PROVE  \E w \in Workers :
           /\ pc[w] = "event_save" /\ edit'[w] = NoEdit
           /\ edit[w].at = e /\ edit[w].op \in {"patch", "publish"}
           /\ \/ edit[w].seen.status # "CANCELLED"
              \/ edit[w].op = "patch" /\ edit[w].new.status # edit[w].seen.status
<1>1. PICK w \in Workers : EventSave(w)
  BY OnlySavesWrite
<1>2. /\ pc[w] = "event_save" /\ edit[w] \in Edit /\ EditOK(w) /\ edit'[w] = NoEdit
      /\ row \in [Events -> Row \union {NoRow}] /\ row[e] \in Row
  BY <1>1 DEF EventSave, Finish, OfficeInv, AgendaTypeOK, EventTypeOK, EventLabels
<1>3. edit[w].at = e
  BY <1>1, <1>2 DEF EventSave, Edit
<1>4. CASE edit[w].op = "patch"
  <2>1. row'[e] = edit[w].new
    BY <1>1, <1>2, <1>3, <1>4 DEF EventSave
  <2> QED BY <1>2, <1>3, <1>4, <2>1
<1>5. CASE edit[w].op = "publish"
  BY <1>2, <1>3, <1>5 DEF EditOK
<1>6. CASE edit[w].op = "cancel"
  BY <1>1, <1>2, <1>3, <1>6 DEF EventSave, EditOK, Row
<1>7. edit[w].op # "create"
  BY <1>1, <1>2, <1>3 DEF EventSave
<1> QED BY <1>2, <1>4, <1>5, <1>6, <1>7 DEF EditOK

\* A cancelled event comes back only by a request that read it before, or by a
\* PATCH that names another status (event_publish and event_update look at what
\* they have read, not at what they overwrite).
THEOREM CancelledStaysButForStale == AgendaSpec => OnlyStaleRevives
<1>1. OfficeInv /\ [AgendaNext]_agendaVars =>
        [\A e \in Events :
           row[e] # NoRow /\ row[e].status = "CANCELLED" /\ row'[e].status # "CANCELLED"
             => \E w \in Workers :
                  /\ pc[w] = "event_save" /\ edit'[w] = NoEdit
                  /\ edit[w].at = e /\ edit[w].op \in {"patch", "publish"}
                  /\ \/ edit[w].seen.status # "CANCELLED"
                     \/ edit[w].op = "patch" /\ edit[w].new.status # edit[w].seen.status]_eventVars
  BY RevivesStep
<1> QED BY <1>1, OfficeInductive, PTL DEF AgendaSpec, OnlyStaleRevives

(***************************************************************************)
(* The times of an event                                                   *)
(***************************************************************************)

\* A write that puts an event out of order is of a PATCH; publish and cancel leave
\* its times alone.
LEMMA DisordersStep ==
  ASSUME OfficeInv, [AgendaNext]_agendaVars, NEW e \in Events,
         row'[e] # NoRow, ~Ordered(row'[e]), row[e] # NoRow => Ordered(row[e])
  PROVE  \E w \in Workers :
           /\ pc[w] = "event_save" /\ edit'[w] = NoEdit
           /\ edit[w].at = e /\ edit[w].op = "patch"
           /\ \/ ~Ordered(edit[w].seen)
              \/ edit[w].new.start = edit[w].seen.start /\ edit[w].new.end # edit[w].seen.end
              \/ edit[w].new.start # edit[w].seen.start /\ edit[w].new.end = edit[w].seen.end
<1>1. PICK w \in Workers : EventSave(w)
  BY OnlySavesWrite
<1>2. /\ pc[w] = "event_save" /\ edit[w] \in Edit /\ EditOK(w) /\ edit'[w] = NoEdit
      /\ row \in [Events -> Row \union {NoRow}]
  BY <1>1 DEF EventSave, Finish, OfficeInv, AgendaTypeOK, EventTypeOK, EventLabels
<1>3. edit[w].at = e
  BY <1>1, <1>2 DEF EventSave, Edit
<1>4. CASE edit[w].op = "patch"
  <2>1. row'[e] = edit[w].new
    BY <1>1, <1>2, <1>3, <1>4 DEF EventSave
  <2> QED BY <1>2, <1>3, <1>4, <2>1 DEF EditOK, Partial
<1>5. CASE edit[w].op = "create"
  <2>1. row'[e] = edit[w].new
    BY <1>1, <1>2, <1>3, <1>5 DEF EventSave
  <2> QED BY <1>2, <1>5, <2>1 DEF EditOK
<1>6. CASE edit[w].op \in {"publish", "cancel"}
  <2>1. row[e] \in Row
    BY <1>2, <1>3, <1>6 DEF EditOK
  <2>2. row'[e].start = row[e].start /\ row'[e].end = row[e].end
    BY <1>1, <1>2, <1>3, <1>6, <2>1 DEF EventSave, Row
  <2> QED BY <2>1, <2>2, EventsAssumption DEF Ordered
<1> QED BY <1>2, <1>4, <1>5, <1>6 DEF EditOK

\* EventCreateSerializer.validate keeps every new event in order; what gets one out
\* of order is a PATCH of one of its times, or of a row read out of order before.
THEOREM DisorderIsPartial == AgendaSpec => OnlyPartialDisorders
<1>1. OfficeInv /\ [AgendaNext]_agendaVars =>
        [\A e \in Events :
           row'[e] # NoRow /\ ~Ordered(row'[e]) /\ (row[e] # NoRow => Ordered(row[e]))
             => \E w \in Workers :
                  /\ pc[w] = "event_save" /\ edit'[w] = NoEdit
                  /\ edit[w].at = e /\ edit[w].op = "patch"
                  /\ \/ ~Ordered(edit[w].seen)
                     \/ edit[w].new.start = edit[w].seen.start /\ edit[w].new.end # edit[w].seen.end
                     \/ edit[w].new.start # edit[w].seen.start
                        /\ edit[w].new.end = edit[w].seen.end]_eventVars
  BY DisordersStep
<1> QED BY <1>1, OfficeInductive, PTL DEF AgendaSpec, OnlyPartialDisorders

(***************************************************************************)
(* Blacklisted tokens                                                      *)
(***************************************************************************)

\* A request about an event or a session holds no token: it exchanges none.
LEMMA BystanderGains ==
  ASSUME OfficeInv, NEW w \in Workers, UNCHANGED rows, NEW k \in blacklist,
         \/ \E u, label : Begin(w, u, NoToken, label)
         \/ Goto(w, "event_read", "event_save")
         \/ End(w)
  PROVE  Cardinality(Successors(k)') + Cardinality(Refreshing(k)')
           <= Cardinality(Successors(k)) + Cardinality(Refreshing(k))
<1>1. k \in Tokens /\ RequestTypeOK
  BY DEF OfficeInv, AInv, TypeOK
<1>2. Successors(k)' \subseteq Successors(k)
  BY DEF rows, Successors
<1>3. Refreshing(k)' \subseteq Refreshing(k)
  BY <1>1, AccountsAssumption DEF Begin, Goto, End, Refreshing, RequestTypeOK
<1> QED BY <1>2, <1>3, NoGain

\* The accounting of a step, also next to the requests about events and sessions.
LEMMA OfficeGainStep ==
  ASSUME OfficeInv, [AgendaNext]_agendaVars, NEW k \in blacklist
  PROVE  Cardinality(Successors(k)') + Cardinality(Refreshing(k)')
           <= Cardinality(Successors(k)) + Cardinality(Refreshing(k))
<1>1. CASE Next \/ UNCHANGED accounts
  BY <1>1, GainStep DEF OfficeInv
<1>2. ASSUME NEW w \in Workers, UNCHANGED rows,
             \/ \E u, label : Begin(w, u, NoToken, label)
             \/ Goto(w, "event_read", "event_save")
             \/ End(w)
      PROVE  Cardinality(Successors(k)') + Cardinality(Refreshing(k)')
               <= Cardinality(Successors(k)) + Cardinality(Refreshing(k))
  BY <1>2, BystanderGains
<1>3. CASE \E w \in Workers : (\E e \in Events : EventOpen(w, e)) \/ EventRead(w)
                              \/ EventSave(w) \/ EventFail(w)
  BY <1>2, <1>3 DEF EventOpen, EventRead, EventSave, EventFail, Finish
<1>4. CASE \E w \in Workers : SessionSave(w) \/ SessionFail(w)
  BY <1>2, <1>4 DEF SessionSave, SessionFail
<1>5. ASSUME NEW w \in Workers, NEW e, NEW d, StartDraft(w, e, d)
      PROVE  Cardinality(Successors(k)') + Cardinality(Refreshing(k)')
               <= Cardinality(Successors(k)) + Cardinality(Refreshing(k))
  BY <1>2, <1>5 DEF StartDraft
<1> QED
  BY <1>1, <1>3, <1>4, <1>5
  DEF AgendaNext, EventNext, agendaVars, eventVars, SessionCreate, SessionPatch, SessionDelete

\* A blacklisted token gains no successor that was not under way, in the same
\* setting (refresh_view, logout_view).
THEOREM RetiredGainsNothingInOffice == AgendaSpec => BlacklistedGainsNothing
<1>1. OfficeInv /\ [AgendaNext]_agendaVars =>
        [\A k \in blacklist :
           Cardinality(Successors(k)') + Cardinality(Refreshing(k)')
             <= Cardinality(Successors(k)) + Cardinality(Refreshing(k))]_accounts
  BY OfficeGainStep
<1> QED BY <1>1, OfficeInductive, PTL DEF AgendaSpec, BlacklistedGainsNothing

(***************************************************************************)
(* Deleted sessions                                                        *)
(***************************************************************************)

\* No new PATCH and no row: no gain.
LEMMA NoSessionGain ==
  ASSUME NEW s \in Sessions, session'[s] = NoRow, Patching(s)' \subseteq Patching(s)
  PROVE  Cardinality(Patching(s)') + (IF session'[s] = NoRow THEN 0 ELSE 1)
           <= Cardinality(Patching(s))
<1>1. IsFiniteSet(Patching(s))
  BY AccountsAssumption, FS_Subset DEF Patching
<1>2. IsFiniteSet(Patching(s)') /\ Cardinality(Patching(s)') <= Cardinality(Patching(s))
  BY <1>1, FS_Subset
<1> QED BY <1>1, <1>2, FS_CardinalityType

\* A PATCH that brings the session back is used up.
LEMMA PatchUsesUp ==
  ASSUME OfficeInv, NEW w \in Workers, SessionSave(w),
         NEW s \in used, session[s] = NoRow, session'[s] # NoRow
  PROVE  Cardinality(Patching(s)') + (IF session'[s] = NoRow THEN 0 ELSE 1)
           <= Cardinality(Patching(s))
<1>1. s \in Sessions /\ draft[w] \in Draft /\ draft[w] # NoEdit /\ draft \in [Workers -> Draft \union {NoEdit}]
  BY DEF SessionSave, OfficeInv, AgendaTypeOK
<1>2. draft[w].at = s /\ draft[w].op # "delete"
  BY <1>1 DEF SessionSave, Written, OfficeInv, AgendaTypeOK
<1>3. draft[w].op = "patch"
  BY <1>2 DEF SessionSave, NewKey
<1>4. w \in Patching(s) /\ Patching(s)' \subseteq Patching(s) \ {w}
  BY <1>1, <1>2, <1>3 DEF SessionSave, Patching
<1>5. IsFiniteSet(Patching(s))
  BY AccountsAssumption, FS_Subset DEF Patching
<1>6. /\ IsFiniteSet(Patching(s) \ {w})
      /\ Cardinality(Patching(s) \ {w}) = Cardinality(Patching(s)) - 1
  BY <1>4, <1>5, FS_RemoveElement
<1>7. IsFiniteSet(Patching(s)') /\ Cardinality(Patching(s)') <= Cardinality(Patching(s) \ {w})
  BY <1>4, <1>6, FS_Subset
<1> QED BY <1>5, <1>6, <1>7, FS_CardinalityType

\* The accounting of a step: a request that begins after the DELETE finds nothing.
LEMMA DeletedStep ==
  ASSUME OfficeInv, [AgendaNext]_agendaVars, NEW s \in used, session[s] = NoRow
  PROVE  Cardinality(Patching(s)') + (IF session'[s] = NoRow THEN 0 ELSE 1)
           <= Cardinality(Patching(s))
<1>1. s \in Sessions /\ draft \in [Workers -> Draft \union {NoEdit}]
  BY DEF OfficeInv, AgendaTypeOK
<1>2. CASE UNCHANGED <<session, draft>>
  BY <1>1, <1>2, NoSessionGain DEF Patching
<1>3. ASSUME NEW w \in Workers, NEW e \in Events, NEW d \in Draft, StartDraft(w, e, d),
             d.op # "create" => session[d.at] # NoRow
      PROVE  session'[s] = NoRow /\ Patching(s)' \subseteq Patching(s)
  BY <1>1, <1>3 DEF StartDraft, Patching
<1>4. ASSUME NEW w \in Workers, NEW q \in Sessions,
             \/ \E e \in Events, start \in Times : SessionCreate(w, q, e, start)
             \/ \E e \in Events \union {Same}, start \in Times \union {Same} :
                  SessionPatch(w, q, e, start)
             \/ SessionDelete(w, q)
      PROVE  session'[s] = NoRow /\ Patching(s)' \subseteq Patching(s)
  BY <1>3, <1>4, SessionRequestStep
<1>5. ASSUME NEW w \in Workers, SessionSave(w) \/ SessionFail(w), session'[s] = NoRow
      PROVE  Patching(s)' \subseteq Patching(s)
  BY <1>1, <1>5 DEF SessionSave, SessionFail, Patching
<1>6. ASSUME NEW w \in Workers, SessionFail(w) PROVE session'[s] = NoRow
  BY <1>6 DEF SessionFail
<1> QED
  BY <1>1, <1>2, <1>4, <1>5, <1>6, NoSessionGain, PatchUsesUp
  DEF AgendaNext, agendaVars

\* A session that was deleted comes back only by PATCHes that had read it before,
\* and once by each (session_detail saves what it has read, whole).
THEOREM DeletedStaysButForStale == AgendaSpec => DeletedGainsNothing
<1>1. OfficeInv /\ [AgendaNext]_agendaVars =>
        [\A s \in used : session[s] = NoRow =>
           Cardinality(Patching(s)') + (IF session'[s] = NoRow THEN 0 ELSE 1)
             <= Cardinality(Patching(s))]_agendaVars
  BY DeletedStep
<1> QED BY <1>1, OfficeInductive, PTL DEF AgendaSpec, DeletedGainsNothing
=============================================================================
