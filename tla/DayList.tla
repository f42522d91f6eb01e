------------------------------ MODULE DayList -------------------------------
(***************************************************************************)
(* What the pages show of a database: the agenda of app/routes/dashboard   *)
(* 62-215 and the day page of app/routes/journal 103-136.  A board holds   *)
(* the rows they read: board.task and board.tracker give each id its row   *)
(* or NoRow.  An item of a day is [kind, id]; a calendar event is known by *)
(* its minute.  remind_after is left out: no route sets it.                *)
(***************************************************************************)
EXTENDS Integers, Sequences, SequencesExt

CONSTANTS
    Tasks, Trackers,   \* ids, numbers: an untimed item's key is made from it
    Days,              \* the dates there are
    Calendar,          \* the minutes at which each day's calendar events start
    NoRow              \* Python None

BandTimed == 10000
BandVital == 30000
BandUntimed == 40000
BandTracker == 50000
KeyGap == 100
UpcomingDays == 7

Open(board) ==
    {k \in Tasks : /\ board.task[k] # NoRow
                   /\ ~board.task[k].archived /\ board.task[k].done = NoRow}

TaskDay(row) == IF row.planned # NoRow THEN row.planned ELSE row.due

OverdueDays(row, today) ==
    IF row.due # NoRow /\ row.done = NoRow /\ row.due < today THEN today - row.due ELSE 0

(* tracker_status: from the stored day count, not from the date.           *)
Status(row, today) ==
    CASE today \in row.days -> "done"
      [] today \notin row.days /\ row.last = NoRow -> "never"
      [] today \notin row.days /\ row.last # NoRow /\ row.since >= row.limit -> "due"
      [] today \notin row.days /\ row.last # NoRow /\ row.since < row.limit ->
            IF row.since >= 2 THEN "soon" ELSE "hidden"

-----------------------------------------------------------------------------
(* The regions of the front page.                                          *)
Overdue(board, today) == {k \in Open(board) : OverdueDays(board.task[k], today) > 0}

DayTasks(board, today) ==
    {k \in Open(board) \ Overdue(board, today) :
        TaskDay(board.task[k]) = today \/ board.task[k].vital}

DayTrackers(board, today) ==
    {k \in Trackers : /\ board.tracker[k] # NoRow
                      /\ today \in board.tracker[k].shown
                      /\ Status(board.tracker[k], today) # "hidden"}

Upcoming(board, today, day) ==
    {k \in Open(board) \ Overdue(board, today) :
        /\ ~board.task[k].vital /\ TaskDay(board.task[k]) = day
        /\ today < day /\ day <= today + UpcomingDays}

Finished(board, today) ==
    {k \in Tasks : /\ board.task[k] # NoRow /\ ~board.task[k].archived
                   /\ board.task[k].done # NoRow /\ board.task[k].done >= today}

-----------------------------------------------------------------------------
(* The order within a day: one number per item, the manual one first.      *)
Items(board, today) ==
    [kind : {"task"}, id : DayTasks(board, today)]
    \cup [kind : {"event"}, id : Calendar[today]]
    \cup [kind : {"tracker"}, id : DayTrackers(board, today)]

StatusRank == [due |-> 0, soon |-> 1, never |-> 2, done |-> 3]

DefaultKey(board, today, i) ==
    CASE i.kind = "event" -> BandTimed + i.id
      [] i.kind = "task" ->
            LET row == board.task[i.id]
            IN  IF row.time # NoRow THEN BandTimed + row.time
                ELSE (IF row.vital THEN BandVital ELSE BandUntimed) + i.id
      [] i.kind = "tracker" ->
            BandTracker + StatusRank[Status(board.tracker[i.id], today)] * KeyGap + i.id

ManualKey(board, i) ==
    CASE i.kind = "task" -> board.task[i.id].key
      [] i.kind = "tracker" -> board.tracker[i.id].key
      [] OTHER -> NoRow

EffectiveKey(board, today, i) ==
    IF ManualKey(board, i) # NoRow THEN ManualKey(board, i) ELSE DefaultKey(board, today, i)

(* The sort is stable: of equal keys tasks come before events and trackers *)
(* last.  Within a table equal keys come as the SELECT returned them,      *)
(* which no ORDER BY fixes, so there may be several lists.                 *)
KindRank == [task |-> 0, event |-> 1, tracker |-> 2]

DayLists(board, today) ==
    LET Key(i) == EffectiveKey(board, today, i)
    IN  {list \in SetToSeqs(Items(board, today)) :
            \A n \in 1 .. Len(list) - 1 :
                \/ Key(list[n]) < Key(list[n + 1])
                \/ /\ Key(list[n]) = Key(list[n + 1])
                   /\ KindRank[list[n].kind] <= KindRank[list[n + 1].kind]}

PlaceOf(list, i) == CHOOSE n \in DOMAIN list : list[n] = i

\* mutant of MovedKey: the midpoint of the wrong pair
MovedKeyOwn(board, today, list, i, dir) ==
    LET n == PlaceOf(list, i)
        At(m) == EffectiveKey(board, today, list[m])
    IN  CASE dir = "top" -> At(1) - KeyGap
          [] dir = "bottom" -> At(Len(list)) + KeyGap
          [] dir = "up" -> IF n <= 2 THEN At(1) - KeyGap ELSE (At(n - 1) + At(n)) \div 2
          [] dir = "down" -> IF n >= Len(list) - 1 THEN At(Len(list)) + KeyGap
                             ELSE (At(n) + At(n + 1)) \div 2

(* move_item: the key that puts item i of a list where its button says.    *)
MovedKey(board, today, list, i, dir) ==
    LET n == PlaceOf(list, i)
        len == Len(list)
        At(m) == EffectiveKey(board, today, list[m])
    IN  CASE dir = "top" -> At(1) - KeyGap
          [] dir = "bottom" -> At(len) + KeyGap
          [] dir = "up" /\ n = 1 -> At(1)
          [] dir = "up" /\ n = 2 -> At(1) - KeyGap
          [] dir = "up" /\ n > 2 -> (At(n - 2) + At(n - 1)) \div 2
          [] dir = "down" /\ n = len -> At(len)
          [] dir = "down" /\ n = len - 1 -> At(len) + KeyGap
          [] dir = "down" /\ n < len - 1 -> (At(n + 1) + At(n + 2)) \div 2

-----------------------------------------------------------------------------
(* day_items: the tasks of the journal's page for one day.                 *)
\* mutant of DayPage: a finished task leaves the page of the day it was finished on
DayPageStrict(board, day) ==
    {k \in Tasks :
        LET row == board.task[k]
        IN  /\ row # NoRow
            /\ ~row.archived
            /\ row.done = NoRow \/ row.done > day
            /\ row.planned = day \/ (row.due # NoRow /\ row.born <= day)}

DayPage(board, day) ==
    {k \in Tasks :
        LET row == board.task[k]
        IN  /\ row # NoRow
            /\ ~row.archived
            /\ row.done = NoRow \/ row.done >= day
            /\ \/ row.done = day
               \/ row.planned = day
               \/ row.due # NoRow /\ row.born <= day}

=============================================================================
