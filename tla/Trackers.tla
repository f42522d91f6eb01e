------------------------------ MODULE Trackers ------------------------------
(***************************************************************************)
(* Everything a request can do to a tracker, statement by statement:       *)
(*                                                                         *)
(*   toggle_tracker, edit_tracker, delete_tracker, add_tracker             *)
(*                            app/routes/dashboard.py 420-482, 563-580     *)
(*   mark_tracker             app/routes/journal.py 220-261                *)
(*   recompute_tracker_state  app/recompute.py 100-128                     *)
(*                                                                         *)
(* A request is one transaction at READ COMMITTED, as in module Journal.   *)
(* New here are the foreign keys: an INSERT of a child row holds the       *)
(* tracker's row against a DELETE, and the DELETE of a tracker is refused  *)
(* while a child is left.  Archived trackers are left out: no route sets   *)
(* archived_at.                                                            *)
(***************************************************************************)
EXTENDS Integers, Sequences, FiniteSets

CONSTANTS
    Trackers,          \* ids the sequence may give out
    Days,              \* the dates a press can name, and the days that pass
    FirstToday,        \* the day on which the behaviour starts
    Plans,             \* what the forms send: a cadence and the days it shows on
    Threads,           \* the threads that serve requests
    Buttons,           \* the requests the user makes
    MaxRequests,       \* bound: requests started in a behaviour
    NoRow              \* Python None: no row, or a NULL column

Kinds == {"toggle", "mark", "edit", "delete"}

AllButtons ==
    [kind : {"toggle", "delete"}, k : Trackers, day : {NoRow}, plan : {NoRow}]
    \cup [kind : {"mark"}, k : Trackers, day : Days, plan : {NoRow}]
    \cup [kind : {"edit"}, k : Trackers, day : {NoRow}, plan : Plans]

(* A tracker's own columns.  Two edits at once can leave one column of each *)
(* form: no form need ever have sent the row (see Merged).                 *)
PlanRows == [limit : Nat \ {0}, shown : SUBSET Days]

ASSUME TrackersAssumption ==
    /\ Days \subseteq Nat /\ IsFiniteSet(Days) /\ FirstToday \in Days
    /\ Plans \subseteq PlanRows
    /\ Buttons \subseteq AllButtons
    /\ MaxRequests \in Nat
    /\ NoRow \notin Days /\ NoRow \notin PlanRows
    /\ NoRow \notin [last : Days \cup {NoRow}, since : Int]

VARIABLES
    plan,       \* trackers rows: threshold_days and visible_on_days
    events,     \* tracker_events rows: the days a tracker was done
    state,      \* tracker_state rows
    edits,      \* edit_log rows of trackers, in commit order
    used,       \* ids given out so far
    today,      \* the local day current_date() returns
    req,        \* what each thread's request holds
    started     \* requests started so far (bound)

rows == <<plan, events, state, edits, used>>
vars == <<plan, events, state, edits, used, today, req, started>>

StateRows == [last : Days \cup {NoRow}, since : Int]

Edits == [k : Trackers, day : Days, old : BOOLEAN, new : BOOLEAN]

(* The rows a delete has still to send, and has sent.                      *)
Parts == {"events", "state", "tracker"}

NoButton == [kind |-> "toggle", k |-> NoRow, day |-> NoRow, plan |-> NoRow]

(* A thread between two requests: every local is back at its start value.  *)
Idle ==
    [ step |-> "idle", ask |-> NoButton,
      day |-> FirstToday, now |-> FirstToday,
      found |-> FALSE,                 \* the event row was there when read
      audits |-> FALSE,                \* an edit_log row is pending
      wrote |-> FALSE,                 \* the event row is written, uncommitted
      last |-> NoRow, had |-> NoRow,   \* the maximum and the state row it read
      row |-> NoRow,                   \* the state row written, uncommitted
      cut |-> {},                      \* the days of the events a delete loaded
      todo |-> {}, gone |-> {},        \* its parts to send, and sent
      alone |-> FALSE ]                \* history: no other request overlapped it

Steps == {"idle", "read", "audit", "clock", "flush", "max", "state", "write",
          "edit", "drop", "commit"}

Requests ==
    [ step : Steps, ask : AllButtons \cup {NoButton}, day : Days, now : Days,
      found : BOOLEAN, audits : BOOLEAN, wrote : BOOLEAN,
      last : Days \cup {NoRow}, had : StateRows \cup PlanRows \cup {NoRow},
      row : StateRows \cup {NoRow}, cut : SUBSET Days,
      todo : SUBSET Parts, gone : SUBSET Parts, alone : BOOLEAN ]

TypeOK ==
    /\ plan \in [Trackers -> PlanRows \cup {NoRow}]
    /\ events \in SUBSET (Trackers \X Days)
    /\ state \in [Trackers -> StateRows \cup {NoRow}]
    /\ edits \in Seq(Edits)
    /\ used \in SUBSET Trackers
    /\ today \in Days
    /\ req \in [Threads -> Requests]
    /\ started \in 0 .. MaxRequests

Init ==
    /\ plan = [k \in Trackers |-> NoRow]
    /\ events = {}
    /\ state = [k \in Trackers |-> NoRow]
    /\ edits = << >>
    /\ used = {}
    /\ today = FirstToday
    /\ req = [t \in Threads |-> Idle]
    /\ started = 0

-----------------------------------------------------------------------------
(* Locks, held until the transaction ends: on the rows it wrote, and on    *)
(* the tracker of a child row it inserted.                                 *)
On(t, k) == req[t].step # "idle" /\ req[t].ask.k = k

HoldsEvent(t, k, d) ==
    /\ On(t, k)
    /\ \/ req[t].wrote /\ req[t].day = d
       \/ "events" \in req[t].gone /\ d \in req[t].cut
HoldsState(t, k)   == On(t, k) /\ (req[t].row # NoRow \/ "state" \in req[t].gone)
HoldsTracker(t, k) == On(t, k) /\ "tracker" \in req[t].gone
SharesTracker(t, k) == On(t, k) /\ req[t].wrote /\ ~req[t].found

(* The event days of tracker k as thread t's SELECTs see them.             *)
DaysDone(k) == {d \in Days : <<k, d>> \in events}
Seen(t) ==
    LET k == req[t].ask.k
    IN  IF ~req[t].wrote THEN DaysDone(k)
        ELSE IF req[t].found THEN DaysDone(k) \ {req[t].day}
        ELSE DaysDone(k) \cup {req[t].day}

(* What a write of thread t would have to wait for.                        *)
Blocking(t) ==
    LET k == req[t].ask.k
        Others == Threads \ {t}
    IN  CASE req[t].step = "flush" ->
               {u \in Others : \/ HoldsEvent(u, k, req[t].day)
                               \/ ~req[t].found /\ HoldsTracker(u, k)}
          [] req[t].step = "write" -> {u \in Others : HoldsState(u, k)}
          [] req[t].step = "edit" -> {u \in Others : HoldsTracker(u, k)}
          [] OTHER -> {}

(* Of a delete: what each of its three statements would have to wait for.  *)
BlockingPart(t, part) ==
    LET k == req[t].ask.k
        Others == Threads \ {t}
    IN  CASE part = "events" -> {u \in Others : \E d \in req[t].cut : HoldsEvent(u, k, d)}
          [] part = "state" -> {u \in Others : HoldsState(u, k)}
          [] part = "tracker" -> {u \in Others : HoldsTracker(u, k) \/ SharesTracker(u, k)}

Become(t, r) == req' = [req EXCEPT ![t] = r]

(* The request ends without a trace: an error page or a dead process.      *)
Rollback(t) == Become(t, Idle) /\ UNCHANGED <<rows, today, started>>

Reads(t, r) == Become(t, r) /\ UNCHANGED <<rows, today, started>>

-----------------------------------------------------------------------------
\* mutant of Add: the new tracker is committed before it is recomputed
AddNoState(t, k, p) ==
    /\ req[t].step = "idle"
    /\ started < MaxRequests /\ k \notin used
    /\ started' = started + 1
    /\ used' = used \cup {k}
    /\ plan' = [plan EXCEPT ![k] = p]
    /\ req' = [u \in Threads |-> [req[u] EXCEPT !.alone = FALSE]]
    /\ UNCHANGED <<events, edits, state, today>>

(* add_tracker: nothing it writes can be seen, or locked, before it        *)
(* commits, and a rollback leaves only the id used up.                     *)
Add(t, k, p) ==
    /\ req[t].step = "idle"
    /\ started < MaxRequests /\ k \notin used
    /\ started' = started + 1
    /\ used' = used \cup {k}
    /\ plan' = [plan EXCEPT ![k] = p]
    /\ state' = [state EXCEPT ![k] = [last |-> NoRow, since |-> 0]]
    /\ req' = [u \in Threads |-> [req[u] EXCEPT !.alone = FALSE]]
    /\ UNCHANGED <<events, edits, today>>

FirstStep(kind) == IF kind = "edit" THEN "edit" ELSE "read"

(* The request arrives and looks its tracker up: 404, or it goes on.       *)
Press(t, b) ==
    /\ req[t].step = "idle"
    /\ started < MaxRequests
    /\ plan[b.k] # NoRow
    /\ started' = started + 1
    /\ req' = [u \in Threads |->
         IF u = t
         THEN [Idle EXCEPT !.step = FirstStep(b.kind), !.ask = b,
                           !.had = IF b.kind = "edit" THEN plan[b.k] ELSE NoRow,
                           !.alone = \A v \in Threads : req[v].step = "idle"]
         ELSE [req[u] EXCEPT !.alone = FALSE]]
    /\ UNCHANGED <<rows, today>>

(* toggle_tracker asks for today once and keeps the answer.                *)
ReadToday(t) ==
    /\ req[t].step = "read" /\ req[t].ask.kind = "toggle"
    /\ Reads(t, [req[t] EXCEPT !.day = today, !.now = today, !.step = "flush",
                               !.found = <<req[t].ask.k, today>> \in events])

\* mutant of ReadDay: the summary is selected FOR UPDATE before the event
ReadDayLocks(t) ==
    /\ req[t].step = "read" /\ req[t].ask.kind = "mark"
    /\ Reads(t, [req[t] EXCEPT !.day = req[t].ask.day, !.step = "audit",
                               !.found = <<req[t].ask.k, req[t].ask.day>> \in events,
                               !.row = state[req[t].ask.k]])

(* mark_tracker has its day from the page ...                              *)
ReadDay(t) ==
    /\ req[t].step = "read" /\ req[t].ask.kind = "mark"
    /\ Reads(t, [req[t] EXCEPT !.day = req[t].ask.day, !.step = "audit",
                               !.found = <<req[t].ask.k, req[t].ask.day>> \in events])

(* ... and asks for today twice, for the audit and for the recompute.      *)
Audit(t) ==
    /\ req[t].step = "audit"
    /\ Reads(t, [req[t] EXCEPT !.audits = req[t].found \/ req[t].day # today,
                               !.step = "clock"])

ReadClock(t) ==
    /\ req[t].step = "clock"
    /\ Reads(t, [req[t] EXCEPT !.now = today, !.step = "flush"])

-----------------------------------------------------------------------------
(* The flush in front of the recompute's SELECT.                           *)
AtFlush(t) == req[t].step = "flush" /\ Blocking(t) = {}

InsertEvent(t) ==
    /\ AtFlush(t) /\ ~req[t].found
    /\ <<req[t].ask.k, req[t].day>> \notin events /\ plan[req[t].ask.k] # NoRow
    /\ Reads(t, [req[t] EXCEPT !.wrote = TRUE, !.step = "max"])

(* The key was taken, or the tracker deleted, since it was looked up.      *)
InsertRefused(t) ==
    /\ AtFlush(t) /\ ~req[t].found
    /\ (<<req[t].ask.k, req[t].day>> \in events \/ plan[req[t].ask.k] = NoRow)
    /\ Rollback(t)

(* A DELETE that matches no row is only a warning.                         *)
DeleteEvent(t) ==
    /\ AtFlush(t) /\ req[t].found
    /\ Reads(t, [req[t] EXCEPT !.wrote = <<req[t].ask.k, req[t].day>> \in events,
                               !.step = "max"])

Latest(S) == IF S = {} THEN NoRow ELSE CHOOSE d \in S : \A e \in S : e <= d

\* mutant of ReadMax: the session is not flushed first
ReadMaxUnflushed(t) ==
    /\ req[t].step = "max"
    /\ Reads(t, [req[t] EXCEPT !.last = Latest(DaysDone(req[t].ask.k)), !.step = "state"])

ReadMax(t) ==
    /\ req[t].step = "max"
    /\ Reads(t, [req[t] EXCEPT !.last = Latest(Seen(t)), !.step = "state"])

ReadState(t) ==
    /\ req[t].step = "state"
    /\ LET had == state[req[t].ask.k]
       IN  IF req[t].ask.kind = "delete"
           THEN Reads(t, [req[t] EXCEPT !.had = had, !.step = "drop",
                  !.todo = {"tracker"} \cup (IF req[t].cut = {} THEN {} ELSE {"events"})
                                       \cup (IF had = NoRow THEN {} ELSE {"state"})])
           ELSE Reads(t, [req[t] EXCEPT !.had = had, !.step = "write"])

NewState(t) ==
    [last |-> req[t].last,
     since |-> IF req[t].last = NoRow THEN 0 ELSE req[t].now - req[t].last]

(* An UPDATE sends only the columns that differ from the row it loaded.    *)
Merged(new, had, stored) ==
    [c \in DOMAIN new |-> IF new[c] = had[c] THEN stored[c] ELSE new[c]]

AtWrite(t) == req[t].step = "write" /\ Blocking(t) = {}

UpdateState(t) ==
    /\ AtWrite(t) /\ req[t].had # NoRow /\ state[req[t].ask.k] # NoRow
    /\ Reads(t, [req[t] EXCEPT
         !.row = Merged(NewState(t), req[t].had, state[req[t].ask.k]), !.step = "commit"])

(* The row vanished with its tracker: StaleDataError, or, when it was gone *)
(* before it was loaded, a new row whose foreign key points at nothing.    *)
(* Only so can a tracker be without its state: see TrackerHasState.        *)
StateRefused(t) ==
    /\ AtWrite(t) /\ state[req[t].ask.k] = NoRow
    /\ Rollback(t)

-----------------------------------------------------------------------------
(* delete_tracker: three groups of DELETEs in one flush.  The models       *)
(* declare no relationship(), so the unit of work promises no order        *)
(* between the tables, whatever order session.delete was called in.        *)
ReadHistory(t) ==
    /\ req[t].step = "read" /\ req[t].ask.kind = "delete"
    /\ Reads(t, [req[t] EXCEPT !.cut = DaysDone(req[t].ask.k), !.step = "state"])

ChildLeft(t) ==
    LET k == req[t].ask.k
    IN  \/ DaysDone(k) \ (IF "events" \in req[t].gone THEN req[t].cut ELSE {}) # {}
        \/ state[k] # NoRow /\ "state" \notin req[t].gone

\* mutant of Drop: a statement that was sent is sent again
DropAgain(t, part) ==
    /\ req[t].step = "drop" /\ part \in req[t].todo
    /\ BlockingPart(t, part) = {}
    /\ Reads(t, [req[t] EXCEPT !.gone = @ \cup {part}])

Drop(t, part) ==
    /\ req[t].step = "drop" /\ part \in req[t].todo
    /\ BlockingPart(t, part) = {}
    /\ IF part = "tracker" /\ plan[req[t].ask.k] # NoRow /\ ChildLeft(t)
       THEN Rollback(t)
       ELSE Reads(t, [req[t] EXCEPT
              !.todo = @ \ {part}, !.gone = @ \cup {part},
              !.step = IF req[t].todo = {part} THEN "commit" ELSE "drop"])

(* edit_tracker writes one row, in commit().                               *)
Edit(t) ==
    /\ req[t].step = "edit" /\ Blocking(t) = {}
    /\ LET k == req[t].ask.k
           new == req[t].ask.plan
       IN  /\ plan' = IF plan[k] = NoRow THEN plan
                      ELSE [plan EXCEPT ![k] = Merged(new, req[t].had, plan[k])]
           /\ Become(t, Idle)
           /\ UNCHANGED <<events, state, edits, used, today, started>>

-----------------------------------------------------------------------------
Commit(t) ==
    /\ req[t].step = "commit"
    /\ LET k == req[t].ask.k
           dropped == "tracker" \in req[t].gone
           kept == IF dropped THEN DaysDone(k) \ req[t].cut ELSE Seen(t)
       IN  /\ plan' = IF dropped THEN [plan EXCEPT ![k] = NoRow] ELSE plan
           /\ state' = [state EXCEPT ![k] = IF dropped THEN NoRow ELSE req[t].row]
           /\ events' = {e \in events : e[1] # k} \cup {<<k, d>> : d \in kept}
           /\ edits' = IF req[t].audits
                       THEN Append(edits, [k |-> k, day |-> req[t].day,
                                           old |-> req[t].found, new |-> ~req[t].found])
                       ELSE edits
    /\ Become(t, Idle)
    /\ UNCHANGED <<used, today, started>>

Die(t) == req[t].step # "idle" /\ Rollback(t)

(* A set of requests each of which waits for another of the set.  A delete *)
(* waits when every statement it could send next has to.                   *)
WaitsFor(t) ==
    IF req[t].step = "drop"
    THEN IF \E p \in req[t].todo : BlockingPart(t, p) = {} THEN {}
         ELSE UNION {BlockingPart(t, p) : p \in req[t].todo}
    ELSE Blocking(t)

Stuck(S) == S # {} /\ \A t \in S : WaitsFor(t) \cap S # {}

(* After deadlock_timeout PostgreSQL aborts one of them.                   *)
BreakDeadlock(t) ==
    /\ \E S \in SUBSET Threads : t \in S /\ Stuck(S)
    /\ Rollback(t)

NextDay ==
    /\ today + 1 \in Days
    /\ today' = today + 1
    /\ UNCHANGED <<rows, req, started>>

Step(t) ==
    \/ ReadToday(t) \/ ReadDay(t) \/ Audit(t) \/ ReadClock(t)
    \/ InsertEvent(t) \/ InsertRefused(t) \/ DeleteEvent(t)
    \/ ReadMax(t) \/ ReadState(t) \/ UpdateState(t) \/ StateRefused(t)
    \/ ReadHistory(t) \/ (\E part \in Parts : Drop(t, part)) \/ Edit(t)
    \/ Commit(t) \/ BreakDeadlock(t)

Next ==
    \/ \E t \in Threads :
         \/ \E k \in Trackers, p \in Plans : Add(t, k, p)
         \/ \E b \in Buttons : Press(t, b)
         \/ Step(t) \/ Die(t)
    \/ NextDay

Spec == Init /\ [][Next]_vars
FairSpec == Spec /\ \A t \in Threads : WF_vars(Step(t))

-----------------------------------------------------------------------------
(* A tracker always has its state row, or the agenda would never show it   *)
(* (dashboard.py 577): whatever is added, marked and deleted at once.      *)
TrackerHasState == \A k \in Trackers : plan[k] # NoRow => state[k] # NoRow

(* A recompute that ran alone leaves the day of the last event, and the    *)
(* days up to its own today, whatever an earlier race left behind.         *)
Derived(k, now) ==
    LET last == Latest(DaysDone(k))
    IN  [last |-> last, since |-> IF last = NoRow THEN 0 ELSE now - last]

HealsWhenAlone ==
    [][\A t \in Threads, k \in Trackers, now \in Days :
          (Commit(t) /\ k = req[t].ask.k /\ now = req[t].now
             /\ req[t].alone /\ req[t].row # NoRow)
          => (state[k] = Derived(k, now))']_vars

(* Marks, toggles and edits never wait for each other in a circle.  With a *)
(* delete they do: it takes the state row before it waits for the tracker, *)
(* a first mark takes the tracker before it waits for the state row.       *)
DeadlockNeedsDelete ==
    \A S \in SUBSET Threads : Stuck(S) => \E t \in S : req[t].ask.kind = "delete"

(* Every request is answered, by the page or by an error.                  *)
EveryRequestAnswered == \A t \in Threads : req[t].step # "idle" ~> req[t].step = "idle"

=============================================================================
