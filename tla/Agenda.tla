------------------------------- MODULE Agenda -------------------------------
(***************************************************************************)
(* The sessions of an event (session_create and session_detail in          *)
(* events/views.py, SessionSerializer), next to the requests about the     *)
(* event itself and the accounts of EventLifecycle.                        *)
(*                                                                         *)
(* A PATCH or DELETE reads the session and its event in one query without  *)
(* a lock and writes by primary key.  Of a session the model keeps the     *)
(* event it belongs to and its start; title, speaker and duration travel   *)
(* with them.  The reads of the user, its profile and the rows are one     *)
(* step: what a request decides on them only lets it start.                *)
(***************************************************************************)
EXTENDS EventLifecycle

CONSTANT Sessions  \* primary keys of sessions

SessionRow == [event : Events, start : Times]

Draft == [op : {"create", "patch"}, at : Sessions, new : SessionRow]
           \union [op : {"delete"}, at : Sessions]

ASSUME SessionsAssumption ==
  /\ NoRow \notin SessionRow
  /\ Same \notin Events
  /\ NoEdit \notin Draft

VARIABLES
  session,  \* the session rows, NoRow for a key without one
  used,     \* the keys the sequence has handed out
  draft     \* what each worker is about to write

agendaVars == <<eventVars, session, used, draft>>

AgendaTypeOK ==
  /\ EventTypeOK
  /\ session \in [Sessions -> SessionRow \union {NoRow}]
  /\ {s \in Sessions : session[s] # NoRow} \subseteq used /\ used \subseteq Sessions
  /\ draft \in [Workers -> Draft \union {NoEdit}]
  /\ pc \in [Workers -> AccountLabels \union EventLabels \union {"idle", "session_save"}]
  /\ \A w \in Workers : draft[w] # NoEdit <=> pc[w] = "session_save"

AgendaInit ==
  /\ EventInit
  /\ session = [s \in Sessions |-> NoRow]
  /\ used = {}
  /\ draft = [w \in Workers |-> NoEdit]

\* The organizer of the event, whose token and profile the request needs.
Organizes(e) == Authentic(OwnerOf[e]) /\ account[OwnerOf[e]] = "full"

StartDraft(w, e, d) ==
  /\ Organizes(e)
  /\ Begin(w, OwnerOf[e], NoToken, "session_save")
  /\ draft' = [draft EXCEPT ![w] = d]
  /\ UNCHANGED <<rows, row, edit, session, used>>

\* The sequence hands out every key once, whether its row is committed or not.
NewKey_OfNoRow(s) == session[s] = NoRow
NewKey(s) == s \notin used

SessionCreate(w, s, e, start) ==
  /\ row[e] # NoRow
  /\ StartDraft(w, e, [op |-> "create", at |-> s, new |-> [event |-> e, start |-> start]])

\* event is a field of the request like the others; an event it names exists.
SessionPatch(w, s, e, start) ==
  /\ session[s] # NoRow
  /\ e # Same => row[e] # NoRow
  /\ StartDraft(w, session[s].event,
       [op |-> "patch", at |-> s,
        new |-> [event |-> IF e = Same THEN session[s].event ELSE e,
                 start |-> IF start = Same THEN session[s].start ELSE start]])

SessionDelete(w, s) ==
  /\ session[s] # NoRow
  /\ StartDraft(w, session[s].event, [op |-> "delete", at |-> s])

\* save() of a session read before it was deleted inserts it again: an UPDATE of
\* no row is followed by an INSERT.  A DELETE of no row is no error.
Written(w) ==
  [session EXCEPT ![draft[w].at] = IF draft[w].op = "delete" THEN NoRow ELSE draft[w].new]

SessionSave(w) ==
  /\ pc[w] = "session_save"
  /\ \/ draft[w].op = "create" /\ NewKey(draft[w].at) /\ used' = used \union {draft[w].at}
     \/ draft[w].op \in {"patch", "delete"} /\ UNCHANGED used
  /\ session' = Written(w)
  /\ draft' = [draft EXCEPT ![w] = NoEdit]
  /\ End(w)
  /\ UNCHANGED <<rows, row, edit>>

SessionFail(w) ==
  /\ pc[w] = "session_save"
  /\ draft' = [draft EXCEPT ![w] = NoEdit]
  /\ End(w)
  /\ UNCHANGED <<rows, row, edit, session, used>>

AgendaNext ==
  \/ EventNext /\ UNCHANGED <<session, used, draft>>
  \/ \E w \in Workers, s \in Sessions :
       \/ \E e \in Events, start \in Times : SessionCreate(w, s, e, start)
       \/ \E e \in Events \union {Same}, start \in Times \union {Same} : SessionPatch(w, s, e, start)
       \/ SessionDelete(w, s)
  \/ \E w \in Workers : SessionSave(w) \/ SessionFail(w)

AgendaSpec == AgendaInit /\ [][AgendaNext]_agendaVars

(***************************************************************************)
(* Properties                                                              *)
(***************************************************************************)

\* The PATCHes of a session that are under way.
Patching(s) == {w \in Workers : draft[w] # NoEdit /\ draft[w].op = "patch" /\ draft[w].at = s}

\* A session that was deleted comes back only by a PATCH that had read it
\* before, and each of them brings it back once: whatever its organizer sends
\* after the DELETE is answered 404.
DeletedGainsNothing ==
  [][\A s \in used : session[s] = NoRow =>
       Cardinality(Patching(s)') + (IF session'[s] = NoRow THEN 0 ELSE 1)
         <= Cardinality(Patching(s))]_agendaVars
=============================================================================
