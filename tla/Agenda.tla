------------------------------- MODULE Agenda -------------------------------
(***************************************************************************)
(* The requests that change what the front page lists, and how:            *)
(*                                                                         *)
(*   tasks    app/routes/dashboard.py 290-417                              *)
(*   order    app/routes/dashboard.py 485-550                              *)
(*                                                                         *)
(* A request on one task loads its row (Load), sends the UPDATE and the    *)
(* INSERT of its event (Flush) and commits (CommitTask).  That the UPDATE  *)
(* goes first, and so has the row locked when the event gets its id, is an *)
(* assumption: no relationship() orders the two tables, and SQLAlchemy 2   *)
(* then takes them by the name of their class, Task before TaskEvent.  The *)
(* other requests send everything in the flush of their commit, in one     *)
(* order, so that a wait changes nothing but the moment: flush and commit  *)
(* are one action, which waits for the task rows it writes.  Ticking a     *)
(* tracker, see module Trackers, is one step.                              *)
(***************************************************************************)
EXTENDS DayList, FiniteSets

CONSTANTS
    Boards,            \* the databases a behaviour may start from
    FirstToday,        \* the day on which it starts
    Times,             \* the minutes a form can name, NoRow for none
    Threads,           \* the threads that serve requests
    Buttons,           \* the requests the user makes
    MaxRequests        \* bound: requests started in a behaviour

MaybeDay == Days \cup {NoRow}

TaskRows ==
    [ due : MaybeDay, planned : MaybeDay, time : Times, vital : BOOLEAN,
      done : MaybeDay, archived : BOOLEAN, key : Int \cup {NoRow}, born : Days,
      touched : Days ]

TrackerRows ==
    [ limit : Nat \ {0}, shown : SUBSET Days, days : SUBSET Days,
      last : MaybeDay, since : Int, key : Int \cup {NoRow} ]

BoardRows ==
    [ task : [Tasks -> TaskRows \cup {NoRow}],
      tracker : [Trackers -> TrackerRows \cup {NoRow}] ]

(* A behaviour starts from rows that were added, and perhaps edited and    *)
(* moved, on its first day or before it: tasks with a date and not done.   *)
ASSUME AgendaAssumption ==
    /\ Days \subseteq Nat /\ IsFiniteSet(Days) /\ FirstToday \in Days
    /\ Tasks \subseteq Nat /\ IsFiniteSet(Tasks)
    /\ Trackers \subseteq Nat /\ IsFiniteSet(Trackers)
    /\ \A d \in Days : Calendar[d] \subseteq Nat /\ IsFiniteSet(Calendar[d])
    /\ NoRow \in Times /\ Times \ {NoRow} \subseteq Nat
    /\ NoRow \notin Int /\ NoRow \notin TaskRows /\ NoRow \notin TrackerRows
    /\ MaxRequests \in Nat
    /\ Boards \subseteq BoardRows
    /\ \A b \in Boards, k \in Tasks : b.task[k] # NoRow =>
          /\ b.task[k].due # NoRow \/ b.task[k].planned # NoRow
          /\ b.task[k].done = NoRow /\ b.task[k].born <= FirstToday

VARIABLES
    board,      \* the committed rows of tasks and trackers
    log,        \* the committed task_events of each task, without order
    ids,        \* the last id drawn for an event of each task
    today,      \* the local day current_date() returns
    req,        \* what each thread's request holds
    started     \* requests started so far (bound)

vars == <<board, log, ids, today, req, started>>

(* task requests name a task; reschedule also a date, its kind and a time; *)
(* a move names an item of the day list and a direction.                   *)
Actions == {"toggle", "vital", "keep", "archive", "delete"}
Dirs == {"top", "up", "down", "bottom"}
TaskButtons == [act : Actions, k : Tasks]
DateButtons == [act : {"reschedule"}, k : Tasks, kind : {"due", "planned"},
                date : Days, time : Times]
MoveButtons == [act : {"move"}, item : [kind : {"task"}, id : Tasks]
                                       \cup [kind : {"tracker"}, id : Trackers],
                dir : Dirs]
ResetButton == [act |-> "reset"]

(* One sequence numbers the rows of all tasks.  Each task has its own here *)
(* since only the order among its own rows is ever told apart.  occurred_at*)
(* is left out: it is when the transaction began, not when it wrote.       *)
Events == {"created", "completed", "uncompleted", "edited", "archived"}
EventRows == [id : Nat, act : Events]

Idle == [step |-> "idle", ask |-> ResetButton, had |-> NoRow, new |-> NoRow,
         event |-> "edited", id |-> 0, seen |-> 0, rows |-> {}, alone |-> FALSE]

Init ==
    /\ board \in Boards
    /\ ids = [k \in Tasks |-> IF board.task[k] = NoRow THEN 0 ELSE 1]
    /\ log = [k \in Tasks |-> {[id |-> n, act |-> "created"] : n \in 1 .. ids[k]}]
    /\ today = FirstToday
    /\ req = [t \in Threads |-> Idle]
    /\ started = 0

TypeOK ==
    /\ board \in BoardRows
    /\ log \in [Tasks -> SUBSET EventRows]
    /\ ids \in [Tasks -> Nat]
    /\ today \in Days
    /\ started \in 0 .. MaxRequests
    /\ DOMAIN req = Threads
    /\ \A t \in Threads :
          /\ DOMAIN req[t] = DOMAIN Idle
          /\ req[t].step \in {"idle", "task", "flushed", "delete", "move", "reset"}
          /\ req[t].step \in {"task", "flushed", "delete"} => req[t].had \in TaskRows
          /\ req[t].step \in {"task", "flushed"} => req[t].new \in TaskRows
          /\ req[t].step = "move" => req[t].new \in Int
          /\ req[t].event \in Events /\ req[t].id \in Nat /\ req[t].seen \in Nat

-----------------------------------------------------------------------------
Begin(t, r) ==
    /\ req[t].step = "idle" /\ started < MaxRequests
    /\ started' = started + 1
    /\ req' = [u \in Threads |->
         IF u = t THEN [r EXCEPT !.alone = \A v \in Threads : req[v].step = "idle"]
         ELSE [req[u] EXCEPT !.alone = FALSE]]
    /\ UNCHANGED <<board, log, ids, today>>

Rollback(t) ==
    /\ req' = [req EXCEPT ![t] = Idle]
    /\ UNCHANGED <<board, log, ids, today, started>>

Commit(t, b, l) ==
    /\ board' = b
    /\ log' = l
    /\ req' = [req EXCEPT ![t] = Idle]
    /\ UNCHANGED <<ids, today, started>>

(* Another transaction has sent the row of the task and not ended yet.     *)
Locked(t, k) == \E u \in Threads \ {t} : req[u].step = "flushed" /\ req[u].ask.k = k

Unseen(t) ==
    /\ req[t].step = "idle" /\ started < MaxRequests
    /\ started' = started + 1
    /\ req' = [u \in Threads |-> [req[u] EXCEPT !.alone = FALSE]]
    /\ UNCHANGED today

(* add_task: nothing it writes is seen before it commits, so it is one     *)
(* step.  The form's date is a deadline or a planned day, never both.      *)
AddTask(t, k, kind, date, time, vital) ==
    /\ Unseen(t)
    /\ board.task[k] = NoRow /\ ids[k] = 0
    /\ board' = [board EXCEPT !.task[k] =
         [ due |-> IF kind = "due" THEN date ELSE NoRow,
           planned |-> IF kind = "planned" THEN date ELSE NoRow,
           time |-> time, vital |-> vital, done |-> NoRow, archived |-> FALSE,
           key |-> NoRow, born |-> today, touched |-> today ]]
    /\ ids' = [ids EXCEPT ![k] = 1]
    /\ log' = [log EXCEPT ![k] = {[id |-> 1, act |-> "created"]}]

\* mutant of Edited: rescheduling leaves the other date alone
EditedKeeping(b, row) ==
    CASE b.act = "reschedule" ->
            [row EXCEPT !.due = IF b.kind = "due" THEN b.date ELSE @,
                        !.planned = IF b.kind = "planned" THEN b.date ELSE @,
                        !.time = b.time]
      [] b.act = "toggle" -> [row EXCEPT !.done = IF row.done = NoRow THEN today ELSE NoRow]
      [] OTHER -> row

(* What a task request makes of the row it loaded.                         *)
Edited(b, row) ==
    CASE b.act = "toggle" -> [row EXCEPT !.done = IF row.done = NoRow THEN today ELSE NoRow]
      [] b.act = "vital" -> [row EXCEPT !.vital = ~row.vital]
      [] b.act = "archive" -> [row EXCEPT !.archived = TRUE]
      [] b.act = "reschedule" ->
            [row EXCEPT !.due = IF b.kind = "due" THEN b.date ELSE NoRow,
                        !.planned = IF b.kind = "planned" THEN b.date ELSE NoRow,
                        !.time = b.time]
      [] OTHER -> row

EventOf(b, row) ==
    CASE b.act = "toggle" -> IF row.done = NoRow THEN "completed" ELSE "uncompleted"
      [] b.act = "archive" -> "archived"
      [] OTHER -> "edited"

Load(t, b) ==
    /\ b.act # "delete" /\ board.task[b.k] # NoRow
    /\ Begin(t, [Idle EXCEPT !.step = "task", !.ask = b, !.had = board.task[b.k],
                   !.new = [Edited(b, board.task[b.k]) EXCEPT !.touched = today],
                   !.event = EventOf(b, board.task[b.k])])

(* An UPDATE sends only the columns that differ from the row it loaded.    *)
Merged(new, had, stored) ==
    [c \in DOMAIN new |-> IF new[c] = had[c] THEN stored[c] ELSE new[c]]

\* mutant of Flush: the event is inserted before the row is updated
FlushEventFirst(t) ==
    /\ req[t].step = "task"
    /\ LET k == req[t].ask.k
           row == Merged(req[t].new, req[t].had, board.task[k])
       IN  IF req[t].id = 0
           THEN /\ ids' = [ids EXCEPT ![k] = @ + 1]
                /\ req' = [req EXCEPT ![t].id = ids[k] + 1]
                /\ UNCHANGED <<board, log, today, started>>
           ELSE /\ ~Locked(t, k) /\ board.task[k] # NoRow
                /\ row.due # NoRow \/ row.planned # NoRow
                /\ req' = [req EXCEPT ![t].step = "flushed", ![t].new = row]
                /\ UNCHANGED <<board, log, ids, today, started>>

(* The UPDATE waits for the row and needs it, and a date of some kind in   *)
(* it; the INSERT then draws the event's id, which no rollback gives back. *)
Flush(t) ==
    /\ req[t].step = "task"
    /\ LET k == req[t].ask.k
           row == Merged(req[t].new, req[t].had, board.task[k])
       IN  /\ ~Locked(t, k)
           /\ IF board.task[k] = NoRow THEN Rollback(t)
              ELSE IF row.due = NoRow /\ row.planned = NoRow THEN Rollback(t)
              ELSE /\ ids' = [ids EXCEPT ![k] = @ + 1]
                   /\ req' = [req EXCEPT ![t] = [req[t] EXCEPT
                        !.step = "flushed", !.new = row, !.id = ids[k] + 1]]
                   /\ UNCHANGED <<board, log, today, started>>

CommitTask(t) ==
    /\ req[t].step = "flushed"
    /\ LET k == req[t].ask.k
       IN  Commit(t, [board EXCEPT !.task[k] = req[t].new],
                  [log EXCEPT ![k] = @ \cup {[id |-> req[t].id, act |-> req[t].event]}])

LoadDelete(t, b) ==
    /\ b.act = "delete" /\ board.task[b.k] # NoRow
    /\ Begin(t, [Idle EXCEPT !.step = "delete", !.ask = b, !.had = board.task[b.k],
                   !.rows = log[b.k]])

(* The events it loaded and the task, in an order nothing fixes (see Drop  *)
(* in module Trackers).  An event it did not load keeps the task.          *)
CommitDelete(t) ==
    /\ req[t].step = "delete"
    /\ LET k == req[t].ask.k
       IN  /\ ~Locked(t, k)
           /\ board.task[k] = NoRow \/ log[k] \subseteq req[t].rows
           /\ Commit(t, [board EXCEPT !.task[k] = NoRow], [log EXCEPT ![k] = {}])

DeleteRefused(t) ==
    /\ req[t].step = "delete"
    /\ ~Locked(t, req[t].ask.k) /\ board.task[req[t].ask.k] # NoRow
    /\ Rollback(t)

-----------------------------------------------------------------------------
(* toggle_tracker with no other request in its way.                        *)
Latest(S) == IF S = {} THEN NoRow ELSE CHOOSE d \in S : \A e \in S : e <= d

Tick(t, k) ==
    /\ Unseen(t)
    /\ board.tracker[k] # NoRow
    /\ LET row == board.tracker[k]
           days == IF today \in row.days THEN row.days \ {today} ELSE row.days \cup {today}
           last == Latest(days)
       IN  board' = [board EXCEPT !.tracker[k] =
             [row EXCEPT !.days = days, !.last = last,
                         !.since = IF last = NoRow THEN 0 ELSE today - last]]
    /\ UNCHANGED <<log, ids>>

LoadMove(t, b) ==
    /\ b.act = "move" /\ b.item \in Items(board, today)
    /\ \E list \in DayLists(board, today) :
         Begin(t, [Idle EXCEPT !.step = "move", !.ask = b,
                     !.had = ManualKey(board, b.item),
                     !.new = MovedKey(board, today, list, b.item, b.dir),
                     !.seen = PlaceOf(list, b.item)])

Place(b, i, key) ==
    IF i.kind = "task" THEN [b EXCEPT !.task[i.id].key = key]
    ELSE [b EXCEPT !.tracker[i.id].key = key]

CommitMove(t) ==
    /\ req[t].step = "move"
    /\ LET i == req[t].ask.item
       IN  IF req[t].new = req[t].had THEN Commit(t, board, log)
           ELSE /\ i.kind = "task" => ~Locked(t, i.id)
                /\ IF i.kind = "task" /\ board.task[i.id] = NoRow THEN Rollback(t)
                   ELSE Commit(t, Place(board, i, req[t].new), log)

(* The rows that have a manual position, and only those, lose it.          *)
LoadReset(t) ==
    Begin(t, [Idle EXCEPT !.step = "reset", !.rows =
      [kind : {"task"}, id : {k \in Tasks :
          board.task[k] # NoRow /\ board.task[k].key # NoRow}]
      \cup [kind : {"tracker"}, id : {k \in Trackers :
          board.tracker[k] # NoRow /\ board.tracker[k].key # NoRow}]])

CommitReset(t) ==
    /\ req[t].step = "reset"
    /\ \A i \in req[t].rows : i.kind = "task" => ~Locked(t, i.id)
    /\ IF \E i \in req[t].rows : i.kind = "task" /\ board.task[i.id] = NoRow
       THEN Rollback(t)
       ELSE Commit(t, [board EXCEPT
              !.task = [k \in Tasks |->
                 IF [kind |-> "task", id |-> k] \in req[t].rows
                 THEN [board.task[k] EXCEPT !.key = NoRow] ELSE board.task[k]],
              !.tracker = [k \in Trackers |->
                 IF [kind |-> "tracker", id |-> k] \in req[t].rows
                 THEN [board.tracker[k] EXCEPT !.key = NoRow] ELSE board.tracker[k]]], log)

Die(t) == req[t].step # "idle" /\ Rollback(t)

NextDay ==
    /\ today + 1 \in Days
    /\ today' = today + 1
    /\ req' = [u \in Threads |-> [req[u] EXCEPT !.alone = FALSE]]
    /\ UNCHANGED <<board, log, ids, started>>

Next ==
    \/ \E t \in Threads :
         \/ \E b \in Buttons \cap DateButtons, vital \in BOOLEAN :
               AddTask(t, b.k, b.kind, b.date, b.time, vital)
         \/ \E b \in Buttons \cap (TaskButtons \cup DateButtons) :
               Load(t, b) \/ LoadDelete(t, b)
         \/ \E b \in Buttons \cap MoveButtons : LoadMove(t, b)
         \/ \E k \in Trackers : Tick(t, k)
         \/ LoadReset(t)
         \/ Flush(t) \/ CommitTask(t) \/ CommitDelete(t) \/ DeleteRefused(t)
         \/ CommitMove(t) \/ CommitReset(t) \/ Die(t)
    \/ NextDay

Spec == Init /\ [][Next]_vars

-----------------------------------------------------------------------------
(* Read by id, the last toggle in the log is a completion.                 *)
SaysDone(events) ==
    \E e \in events :
        /\ e.act = "completed"
        /\ \A f \in events : f.id > e.id => f.act # "uncompleted"

(* However toggles of one task race, the row says done exactly when the    *)
(* last of them in the task's log, by id, says so: record_event beside the *)
(* change, dashboard.py 276-278 and 320-334.  The row's lock makes it so,  *)
(* taken before the id is drawn.  The order of occurred_at is another: a   *)
(* toggle that began first and wrote last has the row, not the last time.  *)
LogTellsTheState ==
    \A k \in Tasks : board.task[k] # NoRow =>
        (board.task[k].done # NoRow <=> SaysDone(log[k]))

(* "One date, one meaning" (dashboard.py 354) as far as it goes: of a      *)
(* reschedule that no other request overlaps.  Two at once can leave both  *)
(* dates, since each UPDATE sends only the column it changed.              *)
OneMeaningWhenAlone ==
    [][\A t \in Threads : (CommitTask(t) /\ req[t].ask.act = "reschedule" /\ req[t].alone) =>
          LET row == board'.task[req[t].ask.k]
          IN  (row.due = NoRow) # (row.planned = NoRow)]_vars

(* A task that is not archived can be found: on the front page, or on the  *)
(* page of some other day, where the calendar leads (journal.py 103-136).  *)
NothingIsLost ==
    \A k \in Tasks : board.task[k] # NoRow /\ ~board.task[k].archived =>
        \/ k \in Overdue(board, today) \cup DayTasks(board, today) \cup Finished(board, today)
        \/ \E day \in Days : k \in Upcoming(board, today, day)
        \/ \E day \in Days \ {today} : k \in DayPage(board, day)

(* The position a move aims at, and the boards no two keys are equal on.   *)
Target(n, len, dir) ==
    CASE dir = "top" -> 1
      [] dir = "bottom" -> len
      [] dir = "up" -> IF n = 1 THEN 1 ELSE n - 1
      [] dir = "down" -> IF n = len THEN len ELSE n + 1

NoTies(b) ==
    \A i, j \in Items(b, today) :
        i # j => EffectiveKey(b, today, i) # EffectiveKey(b, today, j)

(* A move that ran alone puts its item where its button says, in every     *)
(* order the SELECT may return next time, and leaves the others in theirs; *)
(* as long as no two keys are equal, and the new one is not either.        *)
MoveLands ==
    [][\A t \in Threads : (/\ CommitMove(t) /\ req[t].alone /\ NoTies(board) /\ NoTies(board)') =>
          \A list \in DayLists(board, today), after \in DayLists(board, today)' :
             LET i == req[t].ask.item
             IN  /\ after[Target(req[t].seen, Len(list), req[t].ask.dir)] = i
                 /\ \A o, p \in Items(board, today) \ {i} :
                       PlaceOf(list, o) < PlaceOf(list, p)
                         <=> PlaceOf(after, o) < PlaceOf(after, p)]_vars

-----------------------------------------------------------------------------
(* Two claims of the README the code does not keep: no run lists them, and *)
(* TLC refutes each of them under MCAgenda.cfg.                            *)

(* src/README.md:46: the day lists "any recurring task that has become     *)
(* due".  The day count a tracker is judged by is stored, and recomputed   *)
(* only when the tracker is pressed.                                       *)
DueTrackerListed ==
    \A k \in Trackers :
        LET row == board.tracker[k]
        IN  (/\ row # NoRow /\ today \in row.shown /\ today \notin row.days
             /\ row.last # NoRow /\ today - row.last >= row.limit)
            => k \in DayTrackers(board, today)

(* src/README.md:48: overdue are tasks "not done when they were planned".  *)
(* The code looks at the deadline alone.                                   *)
PlannedTaskListed ==
    \A k \in Open(board) :
        TaskDay(board.task[k]) < today
          => k \in Overdue(board, today) \cup DayTasks(board, today)

=============================================================================
