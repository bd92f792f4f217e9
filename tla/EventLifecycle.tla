--------------------------- MODULE EventLifecycle ---------------------------
(***************************************************************************)
(* Events and their organizers' requests about them (events/views.py,      *)
(* events/models.py, events/serializers.py): create, PATCH, publish and    *)
(* cancel, next to the accounts the requests are authenticated against.    *)
(*                                                                         *)
(* Each request reads the user, then the event without a lock, decides on  *)
(* what it read, and writes: publish and cancel the status alone, a PATCH  *)
(* every column of the object it read and changed.  Of an event the model  *)
(* keeps its status and its two times.  Requests of others than the owner  *)
(* are refused and change nothing.                                         *)
(***************************************************************************)
EXTENDS Accounts

CONSTANTS Events,   \* primary keys of events
          OwnerOf,  \* the organizer of each event
          Times,    \* points in time
          Same,     \* a field a PATCH does not name
          NoRow, NoEdit

Statuses == {"DRAFT", "PUBLISHED", "CANCELLED"}
Row   == [status : Statuses, start : Times, end : Times]
Edit  == [op : {"opened", "create", "patch", "publish", "cancel"}, at : Events,
          seen : Row \union {NoRow}, new : Row \union {NoRow}]

\* The body of a PATCH; that of a create names every field, and no status in it
\* means DRAFT.
Patch == [status : Statuses \union {Same}, start : Times \union {Same},
          end : Times \union {Same}]

ASSUME EventsAssumption ==
  /\ OwnerOf \in [Events -> Users]
  /\ Times \subseteq Nat
  /\ Same \notin Statuses /\ Same \notin Times
  /\ NoRow \notin Row
  /\ NoEdit \notin Edit

VARIABLES
  row,  \* the event rows, NoRow before an event is created
  edit  \* what each worker has read and is about to write

eventVars == <<accounts, row, edit>>

EventLabels == {"event_read", "event_save"}

EventTypeOK ==
  /\ TypeOK
  /\ row \in [Events -> Row \union {NoRow}]
  /\ edit \in [Workers -> Edit \union {NoEdit}]
  /\ \A w \in Workers : edit[w] # NoEdit <=> pc[w] \in EventLabels

EventInit ==
  /\ Init
  /\ row = [e \in Events |-> NoRow]
  /\ edit = [w \in Workers |-> NoEdit]

Finish(w) == End(w) /\ edit' = [edit EXCEPT ![w] = NoEdit]

EventOpen(w, e) ==
  /\ Authentic(OwnerOf[e])
  /\ Begin(w, OwnerOf[e], NoToken, "event_read")
  /\ edit' = [edit EXCEPT ![w] = [op |-> "opened", at |-> e, seen |-> NoRow, new |-> NoRow]]
  /\ UNCHANGED <<rows, row>>

\* EventCreateSerializer.validate looks at the times of the request alone.
InOrder_OrEqual(p) == p.start # Same /\ p.end # Same => p.start <= p.end
InOrder(p) == p.start # Same /\ p.end # Same => p.start < p.end

\* event_publish: "Only draft events can be published."
Publishable_Any(s) == s \in Statuses
Publishable(s) == s = "DRAFT"

\* A PATCH is partial: a field it does not name keeps what the object holds.
Applied_NotPartial(p, r) == [f \in DOMAIN r |-> p[f]]
Applied(p, r) ==
  [f \in {"status", "start", "end"} |-> IF p[f] = Same THEN r[f] ELSE p[f]]

\* The requests there are for an event that looks like seen, and the row each
\* leaves in the object.  request.user.organizer is the profile.
Outcomes(seen) ==
  IF seen = NoRow
  THEN {<<"create", p>> : p \in {q \in Patch \intersect Row : InOrder(q)}}
  ELSE {<<"patch", Applied(p, seen)>> : p \in {q \in Patch : InOrder(q)}}
         \union {<<"cancel", [seen EXCEPT !.status = "CANCELLED"]>>}
         \union {<<"publish", [r EXCEPT !.status = "PUBLISHED"]>> :
                   r \in {q \in {seen} : Publishable(q.status)}}

EventRead(w) ==
  LET e == edit[w].at IN
  /\ pc[w] = "event_read"
  /\ account[user[w]] = "full"
  /\ \E o \in Outcomes(row[e]) :
       edit' = [edit EXCEPT ![w] = [op |-> o[1], at |-> e, seen |-> row[e], new |-> o[2]]]
  /\ Goto(w, "event_read", "event_save")
  /\ UNCHANGED <<rows, row>>

\* A create takes a key of its own; another request has taken this one.
EventSave(w) ==
  LET e == edit[w].at IN
  /\ pc[w] = "event_save"
  /\ \/ edit[w].op = "create" /\ row[e] = NoRow /\ row' = [row EXCEPT ![e] = edit[w].new]
     \/ edit[w].op = "patch" /\ row' = [row EXCEPT ![e] = edit[w].new]
     \/ edit[w].op \in {"publish", "cancel"} /\ row' = [row EXCEPT ![e].status = edit[w].new.status]
  /\ Finish(w)
  /\ UNCHANGED rows

\* The request dies, or is refused.
EventFail(w) ==
  /\ pc[w] \in EventLabels
  /\ Finish(w)
  /\ UNCHANGED <<rows, row>>

EventNext ==
  \/ Next /\ UNCHANGED <<row, edit>>
  \/ \E w \in Workers, e \in Events : EventOpen(w, e)
  \/ \E w \in Workers : EventRead(w) \/ EventSave(w) \/ EventFail(w)

EventSpec == EventInit /\ [][EventNext]_eventVars

(***************************************************************************)
(* Properties                                                              *)
(***************************************************************************)

\* An event leaves CANCELLED only by a request that read it before it was
\* cancelled, or by one that names another status itself: publish, on an event
\* it sees cancelled, is refused, and a PATCH of other fields keeps the status.
OnlyStaleRevives ==
  [][\A e \in Events :
       row[e] # NoRow /\ row[e].status = "CANCELLED" /\ row'[e].status # "CANCELLED"
         => \E w \in Workers :
              /\ pc[w] = "event_save" /\ edit'[w] = NoEdit
              /\ edit[w].at = e /\ edit[w].op \in {"patch", "publish"}
              /\ \/ edit[w].seen.status # "CANCELLED"
                 \/ edit[w].op = "patch" /\ edit[w].new.status # edit[w].seen.status]_eventVars

Ordered(r) == r.start < r.end

\* "End time must be after start time.", says the validation of the serializer, which
\* sees the times a request names and not the row it results in.  An event is created
\* in order, and gets out of order only by a PATCH that changes one of its two times,
\* or that saves the times of a row it had read out of order, since put right.
OnlyPartialDisorders ==
  [][\A e \in Events :
       row'[e] # NoRow /\ ~Ordered(row'[e]) /\ (row[e] # NoRow => Ordered(row[e]))
         => \E w \in Workers :
              /\ pc[w] = "event_save" /\ edit'[w] = NoEdit
              /\ edit[w].at = e /\ edit[w].op = "patch"
              /\ \/ ~Ordered(edit[w].seen)
                 \/ edit[w].new.start = edit[w].seen.start /\ edit[w].new.end # edit[w].seen.end
                 \/ edit[w].new.start # edit[w].seen.start /\ edit[w].new.end = edit[w].seen.end]_eventVars
=============================================================================
