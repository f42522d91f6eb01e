------------------------------ MODULE MCAgenda ------------------------------
EXTENDS Agenda

CONSTANTS w1, w2
MCThreads == {w1, w2}
MCSymmetry == Permutations(MCThreads)

MCTasks == {1, 4}
MCTrackers == {2}
MCDays == 1 .. 4
MCCalendar == [d \in MCDays |-> IF d = 2 THEN {600} ELSE {}]
MCTimes == {540, NoRow}

Untouched ==
    [due |-> NoRow, planned |-> 2, time |-> NoRow, vital |-> FALSE, done |-> NoRow,
     archived |-> FALSE, key |-> NoRow, born |-> 1, touched |-> 1]
Watered ==
    [limit |-> 2, shown |-> MCDays, days |-> {1}, last |-> 1, since |-> 1, key |-> NoRow]

(* One task; nothing but a tracker; two tasks of one day, the one with     *)
(* both dates a race can leave; a day of four items in which the tasks     *)
(* were moved.                                                             *)
MCBoards ==
    { [task |-> [k \in MCTasks |-> IF k = 1 THEN Untouched ELSE NoRow],
       tracker |-> [k \in MCTrackers |-> NoRow]],
      [task |-> [k \in MCTasks |-> NoRow], tracker |-> [k \in MCTrackers |-> Watered]],
      [task |-> [k \in MCTasks |->
          IF k = 1 THEN [Untouched EXCEPT !.due = 3, !.planned = 3] ELSE Untouched],
       tracker |-> [k \in MCTrackers |-> NoRow]],
      [task |-> [k \in MCTasks |->
          IF k = 1 THEN [Untouched EXCEPT !.key = 10300]
          ELSE [Untouched EXCEPT !.due = 2, !.planned = NoRow, !.vital = TRUE]],
       tracker |-> [k \in MCTrackers |-> [Watered EXCEPT !.limit = 1]]] }

MCTaskButtons == [act : {"toggle", "keep", "delete"}, k : {1}]
MCButtons ==
    [act : Actions, k : {1}]
    \cup {b \in DateButtons : b.k \in {1} /\ b.date \in {1, 3} /\ b.time = NoRow}
    \cup {b \in DateButtons : b.k = 4 /\ b.date = 2 /\ b.kind = "planned" /\ b.time # NoRow}
    \cup MoveButtons

(* Two requests of any kind; and on the board of one task, which has been  *)
(* toggled, kept or deleted and nothing else so far, up to four of these.  *)
MCBound ==
    \/ started <= 2
    \/ /\ board.task[4] = NoRow /\ board.tracker[2] = NoRow /\ ids[1] > 0
       /\ board.task[1] # NoRow =>
             [board.task[1] EXCEPT !.done = NoRow, !.touched = 1] = Untouched
       /\ \A t \in Threads : req[t].step # "idle" => req[t].ask \in MCTaskButtons
=============================================================================
