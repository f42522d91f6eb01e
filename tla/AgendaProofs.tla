---------------------------- MODULE AgendaProofs ----------------------------
(***************************************************************************)
(* For every number of tasks, trackers, days, buttons, threads and         *)
(* requests: the rows keep their types, a task's log tells whether it is   *)
(* done, no task drops out of the pages, a reschedule that ran alone       *)
(* leaves one date, and a move that ran alone lands where its button says. *)
(***************************************************************************)
EXTENDS Agenda, FiniteSetTheorems, SequenceTheorems, WellFoundedInduction, TLAPS

Movables == [kind : {"task"}, id : Tasks] \cup [kind : {"tracker"}, id : Trackers]

(* What TypeOK says of one request.                                        *)
RequestType(x) ==
    /\ DOMAIN x = DOMAIN Idle
    /\ x.step \in {"idle", "task", "flushed", "delete", "move", "reset"}
    /\ x.step \in {"task", "flushed", "delete"} => x.had \in TaskRows
    /\ x.step \in {"task", "flushed"} => x.new \in TaskRows
    /\ x.step = "move" => x.new \in Int
    /\ x.event \in Events /\ x.id \in Nat /\ x.seen \in Nat

(* An edit changes whether its task is done as its event says, never when  *)
(* the task was added, and a reschedule leaves one date.                   *)
EditOK(x) ==
    /\ x.ask.k \in Tasks
    /\ x.new.born = x.had.born
    /\ x.event = "completed" => x.had.done = NoRow /\ x.new.done # NoRow
    /\ x.event = "uncompleted" => x.had.done # NoRow /\ x.new.done = NoRow
    /\ x.event \notin {"completed", "uncompleted"} => x.new.done = x.had.done
    /\ x.ask.act = "reschedule" => (x.new.due = NoRow) # (x.new.planned = NoRow)

RequestOK(x) ==
    /\ x.step = "task" => EditOK(x)
    /\ x.step = "flushed" => x.ask.k \in Tasks
    /\ x.step = "delete" => x.ask.k \in Tasks
    /\ x.step = "move" => x.ask.item \in Movables
    /\ x.step = "reset" => x.rows \subseteq Movables

(* What a request relies on in the database: a tracker it moves is there,  *)
(* and the row of a request that nothing overlapped is still as loaded.    *)
HoldsOn(x, b) ==
    /\ x.step = "task" /\ x.alone => x.had = b.task[x.ask.k]
    /\ x.step = "move" /\ x.ask.item.kind = "tracker" => b.tracker[x.ask.item.id] # NoRow
    /\ x.step = "reset" => \A i \in x.rows : i.kind = "tracker" => b.tracker[i.id] # NoRow

(* What a request has sent: a row for the task as it is stored, done as    *)
(* its event says, and an id that no committed event has reached.          *)
SentOK(x, b, l, i) ==
    x.step = "flushed" =>
        /\ b.task[x.ask.k] # NoRow
        /\ x.new.due # NoRow \/ x.new.planned # NoRow
        /\ x.new.born = b.task[x.ask.k].born
        /\ x.event = "completed" => x.new.done # NoRow
        /\ x.event = "uncompleted" => x.new.done = NoRow
        /\ x.event \notin {"completed", "uncompleted"} => x.new.done = b.task[x.ask.k].done
        /\ x.alone /\ x.ask.act = "reschedule" => (x.new.due = NoRow) # (x.new.planned = NoRow)
        /\ x.id <= i[x.ask.k]
        /\ \A e \in l[x.ask.k] : e.id < x.id

(* The lock: of one task, one request at most has sent the row.            *)
OneSender(r) ==
    \A t, u \in Threads : t # u /\ r[t].step = "flushed" /\ r[u].step = "flushed" =>
        r[t].ask.k # r[u].ask.k

(* While a request is alone every other thread is idle.                    *)
OneAlone(r) ==
    \A t, u \in Threads : t # u /\ r[t].alone /\ r[t].step # "idle" => r[u].step = "idle"

(* A task has a date, and was added today or before.                       *)
RowsOK(b, day) ==
    \A k \in Tasks : b.task[k] # NoRow =>
        /\ b.task[k].due # NoRow \/ b.task[k].planned # NoRow
        /\ b.task[k].born <= day

LogOK(b, l) ==
    \A k \in Tasks : b.task[k] # NoRow => (b.task[k].done # NoRow <=> SaysDone(l[k]))

IdsOK(l, i) == \A k \in Tasks : \A e \in l[k] : e.id <= i[k]

AgendaInv ==
    /\ TypeOK
    /\ OneAlone(req) /\ OneSender(req)
    /\ \A t \in Threads : RequestOK(req[t]) /\ HoldsOn(req[t], board)
    /\ \A t \in Threads : SentOK(req[t], board, log, ids)
    /\ LogOK(board, log) /\ IdsOK(log, ids)
    /\ RowsOK(board, today)

-----------------------------------------------------------------------------
(* What the constants say, in the form the proofs use.                     *)
LEMMA DayFacts ==
    /\ Days \subseteq Int /\ NoRow \notin Days /\ NoRow \in MaybeDay
    /\ NoRow \in Times /\ \A m \in Times : m # NoRow => m \in Nat
<1>1. Days \subseteq Nat /\ NoRow \notin Int /\ NoRow \in Times /\ Times \ {NoRow} \subseteq Nat
    BY AgendaAssumption
<1>2. Days \subseteq Int
    BY <1>1
<1>3. NoRow \notin Days
    BY <1>1, <1>2, Zenon
<1>4. NoRow \in MaybeDay
    BY DEF MaybeDay
<1>5. \A m \in Times : m # NoRow => m \in Nat
    BY <1>1
<1> QED
    BY <1>1, <1>2, <1>3, <1>4, <1>5

LEMMA RowFacts ==
    ASSUME NEW row \in TaskRows
    PROVE  /\ row.due \in MaybeDay /\ row.planned \in MaybeDay /\ row.done \in MaybeDay
           /\ row.time \in Times /\ row.born \in Days /\ row.touched \in Days
           /\ row.vital \in BOOLEAN /\ row.archived \in BOOLEAN
           /\ row.key \in Int \cup {NoRow} /\ row # NoRow
    BY AgendaAssumption DEF TaskRows

LEMMA TrackerFacts ==
    ASSUME NEW row \in TrackerRows
    PROVE  /\ row.limit \in Int /\ row.shown \in SUBSET Days /\ row.days \in SUBSET Days
           /\ row.last \in MaybeDay /\ row.since \in Int
           /\ row.key \in Int \cup {NoRow} /\ row # NoRow
    BY AgendaAssumption DEF TrackerRows

LEMMA BoardFacts ==
    ASSUME NEW b \in BoardRows
    PROVE  /\ \A k \in Tasks : b.task[k] \in TaskRows \cup {NoRow}
           /\ \A k \in Trackers : b.tracker[k] \in TrackerRows \cup {NoRow}
           /\ DOMAIN b.task = Tasks /\ DOMAIN b.tracker = Trackers
    BY DEF BoardRows

LEMMA IdleOK ==
    /\ RequestType(Idle) /\ RequestOK(Idle) /\ Idle.step = "idle"
    /\ \A b : HoldsOn(Idle, b)
    /\ \A b, l, i : SentOK(Idle, b, l, i)
    BY DEF Idle, RequestType, RequestOK, HoldsOn, SentOK, Events

LEMMA TypesOfRequests ==
    TypeOK <=> /\ board \in BoardRows
               /\ log \in [Tasks -> SUBSET EventRows]
               /\ ids \in [Tasks -> Nat]
               /\ today \in Days
               /\ started \in 0 .. MaxRequests
               /\ DOMAIN req = Threads
               /\ \A t \in Threads : RequestType(req[t])
    BY DEF TypeOK, RequestType

-----------------------------------------------------------------------------
(* A task's events, and one with a higher id.                              *)
LEMMA SaysDoneAdded ==
    ASSUME NEW events \in SUBSET EventRows, NEW x \in EventRows,
           \A e \in events : e.id < x.id
    PROVE  /\ events \cup {x} \in SUBSET EventRows
           /\ x.act = "completed" => SaysDone(events \cup {x})
           /\ x.act = "uncompleted" => ~SaysDone(events \cup {x})
           /\ x.act \notin {"completed", "uncompleted"} =>
                 (SaysDone(events \cup {x}) <=> SaysDone(events))
<1> DEFINE more == events \cup {x}
<1>1. /\ more \in SUBSET EventRows /\ x \in more
      /\ \A e \in more : e.id \in Nat /\ (e = x \/ (e \in events /\ e.id < x.id))
      /\ \A e \in events : e \in more
    BY DEF EventRows
<1> HIDE DEF more
<1>2. x.act = "completed" => SaysDone(more)
    BY <1>1 DEF SaysDone
<1>3. x.act = "uncompleted" => ~SaysDone(more)
    BY <1>1 DEF SaysDone
<1>4. ASSUME x.act \notin {"completed", "uncompleted"}
      PROVE  SaysDone(more) <=> SaysDone(events)
    <2>1. ASSUME SaysDone(more) PROVE SaysDone(events)
        <3>1. PICK e \in more : /\ e.act = "completed"
                                /\ \A f \in more : f.id > e.id => f.act # "uncompleted"
            BY <2>1 DEF SaysDone
        <3>2. e \in events
            BY <1>1, <1>4, <3>1
        <3> QED
            BY <1>1, <3>1, <3>2 DEF SaysDone
    <2>2. ASSUME SaysDone(events) PROVE SaysDone(more)
        <3>1. PICK e \in events : /\ e.act = "completed"
                                  /\ \A f \in events : f.id > e.id => f.act # "uncompleted"
            BY <2>2 DEF SaysDone
        <3>2. \A f \in more : f.id > e.id => f.act # "uncompleted"
            BY <1>1, <1>4, <3>1
        <3> QED
            BY <1>1, <3>1, <3>2 DEF SaysDone
    <2> QED
        BY <2>1, <2>2
<1> QED
    BY <1>1, <1>2, <1>3, <1>4 DEF more

(* Two rows merged column by column are a row, whatever was loaded.        *)
LEMMA MergedRow ==
    ASSUME NEW new \in TaskRows, NEW had, NEW stored \in TaskRows
    PROVE  Merged(new, had, stored) \in TaskRows
    BY DEF Merged, TaskRows

LEMMA MergedColumns ==
    ASSUME NEW new \in TaskRows, NEW had, NEW stored
    PROVE  LET row == Merged(new, had, stored)
           IN  /\ row.done = IF new.done = had.done THEN stored.done ELSE new.done
               /\ row.born = IF new.born = had.born THEN stored.born ELSE new.born
    BY DEF Merged, TaskRows

(* An UPDATE of the very row that was loaded sends the new row whole.      *)
LEMMA MergedWhole ==
    ASSUME NEW new \in TaskRows, NEW had
    PROVE  Merged(new, had, had) = new
    BY DEF Merged, TaskRows

(* What a button makes of the row it is pressed on.                        *)
LEMMA EditedRow ==
    ASSUME NEW b \in TaskButtons \cup DateButtons, b.act # "delete",
           NEW row \in TaskRows, today \in Days, NEW x,
           x.ask = b, x.had = row, x.event = EventOf(b, row),
           x.new = [Edited(b, row) EXCEPT !.touched = today]
    PROVE  x.new \in TaskRows /\ EditOK(x) /\ EventOf(b, row) \in Events
<1> DEFINE new == [Edited(b, row) EXCEPT !.touched = today]
<1>1. b.k \in Tasks
    BY DEF TaskButtons, DateButtons
<1>2. NoRow \notin Days /\ NoRow \in MaybeDay /\ Days \subseteq MaybeDay
    BY DayFacts DEF MaybeDay
<1>3. CASE b.act = "toggle"
    <2>1. Edited(b, row) = [row EXCEPT !.done = IF row.done = NoRow THEN today ELSE NoRow]
        BY <1>3 DEF Edited
    <2>2. /\ new \in TaskRows /\ new.born = row.born
          /\ new.done = IF row.done = NoRow THEN today ELSE NoRow
        BY <1>2, <2>1, ZenonT(60) DEF TaskRows
    <2>3. EventOf(b, row) = IF row.done = NoRow THEN "completed" ELSE "uncompleted"
        BY <1>3 DEF EventOf
    <2> HIDE DEF new
    <2> QED
        BY <1>1, <1>2, <1>3, <2>2, <2>3 DEF EditOK, Events, new
<1>4. CASE b.act \in {"vital", "keep", "archive"}
    <2>1. /\ b.act = "vital" => Edited(b, row) = [row EXCEPT !.vital = ~row.vital]
          /\ b.act = "archive" => Edited(b, row) = [row EXCEPT !.archived = TRUE]
          /\ b.act = "keep" => Edited(b, row) = row
        BY <1>4 DEF Edited
    <2>2. /\ new \in TaskRows /\ new.born = row.born /\ new.done = row.done
        BY <1>4, <2>1, ZenonT(60) DEF TaskRows
    <2>3. EventOf(b, row) \in {"archived", "edited"}
        BY <1>4 DEF EventOf
    <2> HIDE DEF new
    <2> QED
        BY <1>1, <1>4, <2>2, <2>3 DEF EditOK, Events, new
<1>5. CASE b.act = "reschedule"
    <2>1. /\ b.kind \in {"due", "planned"} /\ b.date \in Days /\ b.time \in Times
        BY <1>5 DEF TaskButtons, DateButtons, Actions
    <2> DEFINE d == IF b.kind = "due" THEN b.date ELSE NoRow
               p == IF b.kind = "planned" THEN b.date ELSE NoRow
    <2>2. Edited(b, row) = [row EXCEPT !.due = d, !.planned = p, !.time = b.time]
        BY <1>5 DEF Edited
    <2>3. d \in MaybeDay /\ p \in MaybeDay /\ (d = NoRow) # (p = NoRow)
        BY <1>2, <2>1
    <2> HIDE DEF d, p
    <2>4. /\ new \in TaskRows /\ new.born = row.born /\ new.done = row.done
          /\ new.due = d /\ new.planned = p
        BY <2>1, <2>2, <2>3, ZenonT(60) DEF TaskRows
    <2>5. EventOf(b, row) = "edited"
        BY <1>5 DEF EventOf
    <2> HIDE DEF new
    <2> QED
        BY <1>1, <2>3, <2>4, <2>5 DEF EditOK, Events, new
<1> QED
    BY <1>3, <1>4, <1>5 DEF TaskButtons, DateButtons, Actions

-----------------------------------------------------------------------------
(* Some day of a nonempty set is the last: take the day with the fewest    *)
(* days after it.                                                          *)
LEMMA LatestType ==
    ASSUME NEW D \in SUBSET Days
    PROVE  Latest(D) \in MaybeDay
<1>1. CASE D = {}
    BY <1>1 DEF Latest, MaybeDay
<1>2. CASE D # {}
    <2> DEFINE After(d) == {e \in D : e > d}
               Afters == {After(d) : d \in D}
    <2>1. D \subseteq Int /\ Afters # {}
        BY <1>2, DayFacts
    <2>2. Afters \subseteq FiniteSubsetsOf(Days)
        <3>1. \A d \in D : After(d) \in FiniteSubsetsOf(Days)
            BY AgendaAssumption, FS_Subset DEF FiniteSubsetsOf
        <3> QED
            BY <3>1
    <2>3. PICK U \in Afters : \A V \in Afters : ~(<<V, U>> \in StrictSubsetOrdering(Days))
        <3> HIDE DEF Afters
        <3> QED
            BY <2>1, <2>2, FS_StrictSubsetOrderingWellFounded, WFMin
    <2>4. PICK d \in D : U = After(d)
        OBVIOUS
    <2>5. \A e \in D : e <= d
        <3> SUFFICES ASSUME NEW e \in D, e > d PROVE FALSE
            BY <2>1
        <3>1. After(e) \subseteq After(d) /\ e \in After(d) /\ e \notin After(e)
            <4>1. \A x \in D : x > e => x > d
                BY <2>1
            <4>2. e \in Int /\ ~(e > e)
                BY <2>1
            <4> QED
                BY <4>1, <4>2
        <3>2. <<After(e), After(d)>> \in StrictSubsetOrdering(Days)
            <4> HIDE DEF After
            <4>1. After(d) \subseteq Days /\ After(e) \subseteq Days
                BY DEF After
            <4> QED
                BY <3>1, <4>1 DEF StrictSubsetOrdering
        <3> QED
            BY <2>3, <2>4, <3>2
    <2> QED
        BY <1>2, <2>5 DEF Latest, MaybeDay
<1> QED
    BY <1>1, <1>2

(* The items of one kind are as many as their ids.                         *)
LEMMA KindFinite ==
    ASSUME NEW name, NEW S, IsFiniteSet(S)
    PROVE  IsFiniteSet([kind : {name}, id : S])
<1> DEFINE R == [kind : {name}, id : S]
           f == [i \in R |-> i.id]
<1>1. f \in Injection(R, S)
    BY DEF Injection, IsInjective
<1> QED
    BY <1>1, FS_Injection

LEMMA ItemsFinite ==
    ASSUME NEW b, NEW day \in Days
    PROVE  IsFiniteSet(Items(b, day))
<1>1. DayTasks(b, day) \subseteq Tasks /\ DayTrackers(b, day) \subseteq Trackers
    BY DEF DayTasks, Open, DayTrackers
<1>2. /\ IsFiniteSet(DayTasks(b, day)) /\ IsFiniteSet(DayTrackers(b, day))
      /\ IsFiniteSet(Calendar[day])
    BY <1>1, AgendaAssumption, FS_Subset
<1>3. /\ IsFiniteSet([kind : {"task"}, id : DayTasks(b, day)])
      /\ IsFiniteSet([kind : {"event"}, id : Calendar[day]])
      /\ IsFiniteSet([kind : {"tracker"}, id : DayTrackers(b, day)])
    BY <1>2, KindFinite
<1> DEFINE A == [kind : {"task"}, id : DayTasks(b, day)]
           E == [kind : {"event"}, id : Calendar[day]]
           T == [kind : {"tracker"}, id : DayTrackers(b, day)]
<1>4. Items(b, day) = (A \cup E) \cup T
    BY DEF Items
<1> HIDE DEF A, E, T
<1>5. IsFiniteSet(A) /\ IsFiniteSet(E) /\ IsFiniteSet(T)
    BY <1>3 DEF A, E, T
<1>6. IsFiniteSet(A \cup E)
    BY <1>5, FS_Union
<1> QED
    BY <1>4, <1>5, <1>6, FS_Union

(* A list of the day's items holds each of them at one place.              *)
LEMMA ListIs ==
    ASSUME NEW b, NEW day \in Days, NEW list \in DayLists(b, day)
    PROVE  /\ Len(list) \in Nat /\ Len(list) = Cardinality(Items(b, day))
           /\ list \in [1 .. Len(list) -> Items(b, day)]
           /\ \A m, n \in 1 .. Len(list) : m # n => list[m] # list[n]
           /\ \A i \in Items(b, day) : \E n \in 1 .. Len(list) : list[n] = i
<1> DEFINE S == Items(b, day)
           c == Cardinality(S)
<1>1. IsFiniteSet(S) /\ c \in Nat
    BY ItemsFinite, FS_CardinalityType
<1>2. list \in SetToSeqs(S)
    BY DEF DayLists
<1> HIDE DEF S
<1>3. list \in [1 .. c -> S] /\ \A m, n \in 1 .. c : m # n => list[m] # list[n]
    BY <1>2 DEF SetToSeqs
<1>4. list \in Surjection(1 .. c, S)
    <2>1. list \in Injection(1 .. c, S)
        BY <1>3 DEF Injection, IsInjective
    <2>2. Cardinality(1 .. c) = c
        BY <1>1, FS_Interval
    <2> QED
        BY <1>1, <2>1, <2>2, FS_Injection
<1> HIDE DEF c
<1>5. Len(list) = c
    BY <1>1, <1>3
<1>6. \A i \in S : \E n \in 1 .. c : list[n] = i
    BY <1>4 DEF Surjection
<1> QED
    BY <1>1, <1>3, <1>5, <1>6 DEF S, c

LEMMA ListOfItems ==
    ASSUME NEW b, NEW day \in Days, NEW list \in DayLists(b, day),
           NEW i \in Items(b, day)
    PROVE  /\ Len(list) \in Nat \ {0}
           /\ \A n \in 1 .. Len(list) : list[n] \in Items(b, day)
           /\ PlaceOf(list, i) \in 1 .. Len(list) /\ list[PlaceOf(list, i)] = i
<1>1. /\ Len(list) \in Nat /\ list \in [1 .. Len(list) -> Items(b, day)]
      /\ \E n \in 1 .. Len(list) : list[n] = i
    BY ListIs
<1>2. PlaceOf(list, i) \in 1 .. Len(list) /\ list[PlaceOf(list, i)] = i
    BY <1>1 DEF PlaceOf
<1> QED
    BY <1>1, <1>2

(* Every item of a day has a number to be sorted by.                       *)
LEMMA KeyIsNumber ==
    ASSUME NEW b \in BoardRows, NEW day \in Days, NEW i \in Items(b, day)
    PROVE  EffectiveKey(b, day, i) \in Int
<1>1. CASE i.kind = "event"
    <2>1. i.id \in Nat
        BY <1>1, AgendaAssumption DEF Items
    <2> QED
        BY <1>1, <2>1 DEF EffectiveKey, ManualKey, DefaultKey, BandTimed
<1>2. CASE i.kind = "task"
    <2> DEFINE row == b.task[i.id]
    <2>1. i.id \in Tasks /\ row # NoRow
        BY <1>2 DEF Items, DayTasks, Open
    <2>2. row \in TaskRows /\ i.id \in Int
        <3>1. row \in TaskRows
            BY <2>1, BoardFacts
        <3>2. Tasks \subseteq Nat
            BY AgendaAssumption
        <3>3. i.id \in Nat
            BY <2>1, <3>2, Zenon
        <3> QED
            BY <3>1, <3>3
    <2>3. row.key \in Int \cup {NoRow} /\ row.time \in Times
        BY <2>2, RowFacts
    <2>4. row.time # NoRow => row.time \in Nat
        BY <2>3, DayFacts
    <2>5. DefaultKey(b, day, i) = IF row.time # NoRow THEN BandTimed + row.time
                                  ELSE (IF row.vital THEN BandVital ELSE BandUntimed) + i.id
        BY <1>2 DEF DefaultKey
    <2>6. ManualKey(b, i) = row.key
        BY <1>2 DEF ManualKey
    <2> HIDE DEF row
    <2>7. DefaultKey(b, day, i) \in Int
        BY <2>2, <2>4, <2>5 DEF BandTimed, BandVital, BandUntimed
    <2> QED
        BY <2>3, <2>6, <2>7 DEF EffectiveKey
<1>3. CASE i.kind = "tracker"
    <2> DEFINE row == b.tracker[i.id]
               rank == StatusRank[Status(row, day)]
    <2>1. i.id \in Trackers /\ row # NoRow /\ Status(row, day) # "hidden"
        BY <1>3 DEF Items, DayTrackers
    <2>2. row \in TrackerRows /\ i.id \in Int
        <3>1. row \in TrackerRows
            BY <2>1, BoardFacts
        <3>2. Trackers \subseteq Nat
            BY AgendaAssumption
        <3>3. i.id \in Nat
            BY <2>1, <3>2, Zenon
        <3> QED
            BY <3>1, <3>3
    <2>3. row.key \in Int \cup {NoRow} /\ row.since \in Int /\ row.limit \in Int
        BY <2>2, TrackerFacts
    <2>4. Status(row, day) \in {"due", "soon", "never", "done"}
        <3> HIDE DEF row
        <3>1. CASE day \in row.days
            BY <3>1 DEF Status
        <3>2. CASE day \notin row.days /\ row.last = NoRow
            BY <3>2 DEF Status
        <3>3. CASE day \notin row.days /\ row.last # NoRow /\ row.since >= row.limit
            BY <2>3, <3>3 DEF Status
        <3>4. CASE day \notin row.days /\ row.last # NoRow /\ row.since < row.limit
            <4>1. Status(row, day) = IF row.since >= 2 THEN "soon" ELSE "hidden"
                BY <2>3, <3>4 DEF Status
            <4> QED
                BY <2>1, <4>1
        <3> QED
            BY <2>3, <3>1, <3>2, <3>3, <3>4
    <2>5. rank \in 0 .. 3
        BY <2>4 DEF StatusRank
    <2>6. DefaultKey(b, day, i) = BandTracker + rank * KeyGap + i.id
        BY <1>3 DEF DefaultKey
    <2>7. ManualKey(b, i) = row.key
        BY <1>3 DEF ManualKey
    <2> HIDE DEF row, rank
    <2>8. DefaultKey(b, day, i) \in Int
        BY <2>2, <2>5, <2>6 DEF BandTracker, KeyGap
    <2> QED
        BY <2>3, <2>7, <2>8 DEF EffectiveKey
<1> QED
    BY <1>1, <1>2, <1>3 DEF Items

(* The key move_item writes, in terms of the keys of the list it saw.      *)
Aims(key, At, c, n, dir) ==
    /\ dir = "top" => key = At[1] - KeyGap
    /\ dir = "bottom" => key = At[c] + KeyGap
    /\ dir = "up" /\ n = 1 => key = At[1]
    /\ dir = "up" /\ n = 2 => key = At[1] - KeyGap
    /\ dir = "up" /\ n > 2 => key = (At[n - 2] + At[n - 1]) \div 2
    /\ dir = "down" /\ n = c => key = At[c]
    /\ dir = "down" /\ n = c - 1 => key = At[c] + KeyGap
    /\ dir = "down" /\ n < c - 1 => key = (At[n + 1] + At[n + 2]) \div 2

LEMMA MoveAims ==
    ASSUME NEW b \in BoardRows, NEW day \in Days, NEW list \in DayLists(b, day),
           NEW i \in Items(b, day), NEW dir \in Dirs
    PROVE  Aims(MovedKey(b, day, list, i, dir),
                [m \in 1 .. Len(list) |-> EffectiveKey(b, day, list[m])],
                Len(list), PlaceOf(list, i), dir)
<1> DEFINE n == PlaceOf(list, i)
           len == Len(list)
           At == [m \in 1 .. len |-> EffectiveKey(b, day, list[m])]
           key == MovedKey(b, day, list, i, dir)
<1>1. len \in Nat \ {0} /\ n \in 1 .. len
    BY ListOfItems
<1>2. 1 \in 1 .. len /\ len \in 1 .. len
    BY <1>1
<1>3. /\ dir = "top" => key = At[1] - KeyGap
      /\ dir = "bottom" => key = At[len] + KeyGap
      /\ dir = "up" /\ n = 1 => key = At[1]
      /\ dir = "up" /\ n = 2 => key = At[1] - KeyGap
      /\ dir = "down" /\ n = len => key = At[len]
      /\ dir = "down" /\ n = len - 1 => key = At[len] + KeyGap
    BY <1>1, <1>2 DEF MovedKey
<1>4. /\ dir = "up" /\ n > 2 => key = (At[n - 2] + At[n - 1]) \div 2
      /\ dir = "down" /\ n < len - 1 => key = (At[n + 1] + At[n + 2]) \div 2
    BY <1>1 DEF MovedKey
<1> QED
    BY <1>3, <1>4 DEF Aims

(* So a move always has a number to write: every place it looks at is a    *)
(* place of the list.                                                      *)
LEMMA MovedKeyType ==
    ASSUME NEW b \in BoardRows, NEW day \in Days, NEW list \in DayLists(b, day),
           NEW i \in Items(b, day), NEW dir \in Dirs
    PROVE  MovedKey(b, day, list, i, dir) \in Int
<1> DEFINE n == PlaceOf(list, i)
           len == Len(list)
           At == [m \in 1 .. len |-> EffectiveKey(b, day, list[m])]
           key == MovedKey(b, day, list, i, dir)
<1>1. len \in Nat \ {0} /\ n \in 1 .. len
    BY ListOfItems
<1>2. \A m \in 1 .. len : At[m] \in Int
    BY ListOfItems, KeyIsNumber
<1>3. 1 \in 1 .. len /\ len \in 1 .. len
    BY <1>1
<1>4. Aims(key, At, len, n, dir)
    BY MoveAims
<1> SUFFICES key \in Int
    OBVIOUS
<1> HIDE DEF n, len, At, key
<1>6. CASE dir = "top" \/ dir = "bottom"
    BY <1>2, <1>3, <1>4, <1>6 DEF Aims, KeyGap
<1>7. CASE dir = "up"
    <2>1. CASE n <= 2
        BY <1>1, <1>2, <1>3, <1>4, <1>7, <2>1 DEF Aims, KeyGap
    <2>2. CASE n > 2
        <3>1. At[n - 2] \in Int /\ At[n - 1] \in Int
            BY <1>1, <1>2, <2>2
        <3>2. (At[n - 2] + At[n - 1]) \div 2 \in Int
            BY <3>1
        <3> QED
            BY <1>4, <1>7, <2>2, <3>2 DEF Aims
    <2> QED
        BY <1>1, <2>1, <2>2
<1>8. CASE dir = "down"
    <2>1. CASE n >= len - 1
        BY <1>1, <1>2, <1>3, <1>4, <1>8, <2>1 DEF Aims, KeyGap
    <2>2. CASE n < len - 1
        <3>1. At[n + 1] \in Int /\ At[n + 2] \in Int
            BY <1>1, <1>2, <2>2
        <3>2. (At[n + 1] + At[n + 2]) \div 2 \in Int
            BY <3>1
        <3> QED
            BY <1>4, <1>8, <2>2, <3>2 DEF Aims
    <2> QED
        BY <1>1, <2>1, <2>2
<1> QED
    BY <1>6, <1>7, <1>8 DEF Dirs

-----------------------------------------------------------------------------
(* How a step touches the requests, whatever it does to the rows.          *)
LEMMA AloneChanged ==
    ASSUME NEW x, RequestType(x), RequestOK(x), NEW v \in BOOLEAN
    PROVE  LET y == [x EXCEPT !.alone = v]
           IN  /\ RequestType(y) /\ RequestOK(y) /\ y.alone = v /\ y.step = x.step
               /\ y.ask = x.ask /\ y.had = x.had /\ y.rows = x.rows
               /\ y.new = x.new /\ y.event = x.event /\ y.id = x.id
<1> DEFINE y == [x EXCEPT !.alone = v]
<1>1. /\ DOMAIN y = DOMAIN Idle /\ y.alone = v /\ y.step = x.step /\ y.ask = x.ask
      /\ y.had = x.had /\ y.new = x.new /\ y.event = x.event /\ y.seen = x.seen
      /\ y.rows = x.rows /\ y.id = x.id
    BY DEF RequestType, Idle
<1> HIDE DEF y
<1>2. RequestType(y) /\ RequestOK(y)
    BY <1>1 DEF RequestType, RequestOK, EditOK
<1> QED
    BY <1>1, <1>2 DEF y

(* A board in which every tracker row of an earlier one still exists.      *)
KeepsTrackers(b, c) == \A k \in Trackers : b.tracker[k] # NoRow => c.tracker[k] # NoRow

LEMMA HoldsOnLater ==
    ASSUME NEW x, RequestOK(x), NEW b, HoldsOn(x, b), NEW c, KeepsTrackers(b, c),
           NEW y, y.step = x.step, y.ask = x.ask, y.rows = x.rows, ~y.alone
    PROVE  HoldsOn(y, c)
    BY DEF HoldsOn, RequestOK, KeepsTrackers, Movables

(* Rows that differ in their manual positions alone.                       *)
SameButKey(r, s) ==
    /\ r = NoRow <=> s = NoRow
    /\ r # NoRow => /\ s.due = r.due /\ s.planned = r.planned /\ s.done = r.done
                    /\ s.born = r.born

(* What was sent stays good while its task's row and log are left alone.   *)
LEMMA SentLater ==
    ASSUME NEW x, NEW b, NEW l, NEW i, SentOK(x, b, l, i), NEW c, NEW m, NEW j,
           x.step = "flushed" => /\ SameButKey(b.task[x.ask.k], c.task[x.ask.k])
                                 /\ m[x.ask.k] = l[x.ask.k] /\ j[x.ask.k] = i[x.ask.k],
           NEW y, y.step = x.step, y.ask = x.ask, y.new = x.new, y.event = x.event,
           y.id = x.id, y.alone => x.alone
    PROVE  SentOK(y, c, m, j)
    BY DEF SentOK, SameButKey

(* No other request has sent the row of the task.                          *)
LEMMA NotLocked ==
    ASSUME NEW t \in Threads, NEW k, ~Locked(t, k), NEW u \in Threads, u # t,
           req[u].step = "flushed"
    PROVE  req[u].ask.k # k
    BY DEF Locked

LEMMA StartKeeps ==
    ASSUME AgendaInv, NEW t \in Threads, NEW r, RequestType(r), RequestOK(r), r.step # "flushed",
           HoldsOn([r EXCEPT !.alone = TRUE], board), Begin(t, r)
    PROVE  AgendaInv'
<1> DEFINE solo == \A v \in Threads : req[v].step = "idle"
           y == [r EXCEPT !.alone = solo]
<1>1. /\ RequestType(y) /\ RequestOK(y) /\ y.alone = solo
      /\ y.step = r.step /\ y.ask = r.ask /\ y.had = r.had /\ y.rows = r.rows
    <2>1. solo \in BOOLEAN
        OBVIOUS
    <2> HIDE DEF solo
    <2> QED
        BY <2>1, AloneChanged
<1>2. HoldsOn(y, board)
    <2> HIDE DEF y, solo
    <2> DEFINE z == [r EXCEPT !.alone = TRUE]
    <2>1. z.alone /\ z.step = r.step /\ z.ask = r.ask /\ z.had = r.had /\ z.rows = r.rows
        BY AloneChanged
    <2> HIDE DEF z
    <2>2. HoldsOn(z, board)
        BY DEF z
    <2> QED
        BY <1>1, <2>1, <2>2 DEF HoldsOn
<1>3. /\ req' = [u \in Threads |-> IF u = t THEN y ELSE [req[u] EXCEPT !.alone = FALSE]]
      /\ UNCHANGED <<board, log, ids, today>> /\ started' \in 0 .. MaxRequests
    <2>1. started < MaxRequests /\ started' = started + 1
        BY DEF Begin
    <2>2. started' \in 0 .. MaxRequests
        BY <2>1, AgendaAssumption DEF AgendaInv, TypeOK
    <2> QED
        BY <2>2 DEF Begin
<1> HIDE DEF y
<1>4. \A u \in Threads \ {t} :
          /\ RequestType(req'[u]) /\ RequestOK(req'[u]) /\ HoldsOn(req'[u], board)
          /\ ~req'[u].alone /\ req'[u].step = req[u].step /\ req'[u].ask = req[u].ask
          /\ SentOK(req'[u], board, log, ids)
    <2> TAKE u \in Threads \ {t}
    <2>1. /\ RequestType(req[u]) /\ RequestOK(req[u]) /\ HoldsOn(req[u], board)
          /\ SentOK(req[u], board, log, ids)
          /\ req'[u] = [req[u] EXCEPT !.alone = FALSE]
        BY <1>3, TypesOfRequests DEF AgendaInv
    <2>2. /\ RequestType(req'[u]) /\ RequestOK(req'[u]) /\ req'[u].alone = FALSE
          /\ req'[u].step = req[u].step /\ req'[u].ask = req[u].ask
          /\ req'[u].rows = req[u].rows /\ req'[u].new = req[u].new
          /\ req'[u].event = req[u].event /\ req'[u].id = req[u].id
        BY <2>1, AloneChanged, ZenonT(60)
    <2>3. HoldsOn(req'[u], board)
        BY <2>1, <2>2, HoldsOnLater DEF KeepsTrackers
    <2>4. SentOK(req'[u], board, log, ids)
        BY <2>1, <2>2 DEF SentOK
    <2> QED
        BY <2>2, <2>3, <2>4
<1>5. TypeOK'
    <2>1. /\ DOMAIN req' = Threads /\ \A u \in Threads : RequestType(req'[u])
        BY <1>1, <1>3, <1>4
    <2> QED
        BY <1>3, <2>1 DEF AgendaInv, TypeOK, RequestType
<1>6. OneAlone(req')
    <2>1. req'[t].alone => \A v \in Threads : req[v].step = "idle"
        BY <1>1, <1>3
    <2> QED
        BY <1>4, <2>1 DEF OneAlone
<1>7. \A u \in Threads : RequestOK(req'[u]) /\ HoldsOn(req'[u], board')
    BY <1>1, <1>2, <1>3, <1>4
<1>8. ASSUME NEW u \in Threads PROVE SentOK(req'[u], board', log', ids')
    <2>1. CASE u = t
        <3>1. req'[u].step # "flushed"
            BY <1>1, <1>3, <2>1
        <3> QED
            BY <3>1 DEF SentOK
    <2>2. CASE u # t
        <3>1. SentOK(req'[u], board, log, ids)
            BY <1>4, <2>2
        <3> QED
            BY <1>3, <3>1
    <2> QED
        BY <2>1, <2>2
<1>9. OneSender(req')
    <2>1. req'[t].step # "flushed"
        BY <1>1, <1>3
    <2> QED
        BY <1>4, <2>1 DEF AgendaInv, OneSender
<1>10. LogOK(board', log') /\ IdsOK(log', ids') /\ RowsOK(board', today')
    BY <1>3 DEF AgendaInv
<1> QED
    BY <1>5, <1>6, <1>7, <1>8, <1>9, <1>10 DEF AgendaInv

(* What a step has to show of the rows it writes.                          *)
GoodRows(b, l, i, day) ==
    /\ b \in BoardRows /\ l \in [Tasks -> SUBSET EventRows] /\ i \in [Tasks -> Nat]
    /\ KeepsTrackers(board, b) /\ LogOK(b, l) /\ IdsOK(l, i) /\ RowsOK(b, day)

(* A step after which no request is alone.                                 *)
LEMMA InterruptKeeps ==
    ASSUME AgendaInv, NEW b, NEW l, NEW i, NEW day \in Days, GoodRows(b, l, i, day),
           \A u \in Threads : SentOK(req[u], b, l, i),
           board' = b, log' = l, ids' = i, today' = day, started' \in 0 .. MaxRequests,
           req' = [u \in Threads |-> [req[u] EXCEPT !.alone = FALSE]]
    PROVE  AgendaInv'
<1>1. \A u \in Threads :
          /\ RequestType(req'[u]) /\ RequestOK(req'[u]) /\ HoldsOn(req'[u], b) /\ ~req'[u].alone
          /\ req'[u].step = req[u].step /\ req'[u].ask = req[u].ask /\ SentOK(req'[u], b, l, i)
    <2> TAKE u \in Threads
    <2>1. /\ RequestType(req[u]) /\ RequestOK(req[u]) /\ HoldsOn(req[u], board)
          /\ req'[u] = [req[u] EXCEPT !.alone = FALSE]
        BY TypesOfRequests DEF AgendaInv
    <2>2. /\ RequestType(req'[u]) /\ RequestOK(req'[u]) /\ req'[u].alone = FALSE
          /\ req'[u].step = req[u].step /\ req'[u].ask = req[u].ask
          /\ req'[u].rows = req[u].rows /\ req'[u].new = req[u].new
          /\ req'[u].event = req[u].event /\ req'[u].id = req[u].id
        BY <2>1, AloneChanged
    <2>3. HoldsOn(req'[u], b)
        BY <2>1, <2>2, HoldsOnLater DEF GoodRows
    <2>4. SentOK(req'[u], b, l, i)
        BY <2>2 DEF SentOK
    <2> QED
        BY <2>2, <2>3, <2>4
<1>2. TypeOK'
    BY <1>1 DEF GoodRows, TypeOK, RequestType
<1>3. OneAlone(req') /\ OneSender(req')
    <2>1. OneAlone(req')
        BY <1>1 DEF OneAlone
    <2>2. OneSender(req)
        BY DEF AgendaInv
    <2>3. \A u \in Threads : req'[u].step = req[u].step /\ req'[u].ask = req[u].ask
        BY <1>1
    <2>4. OneSender(req')
        BY <2>2, <2>3 DEF OneSender
    <2> QED
        BY <2>1, <2>4
<1>4. LogOK(board', log') /\ IdsOK(log', ids') /\ RowsOK(board', today')
    BY DEF GoodRows
<1>5. \A u \in Threads : RequestOK(req'[u]) /\ HoldsOn(req'[u], board')
                          /\ SentOK(req'[u], board', log', ids')
    BY <1>1
<1> QED
    BY <1>2, <1>3, <1>4, <1>5 DEF AgendaInv

LEMMA CommitKeeps ==
    ASSUME AgendaInv, NEW t \in Threads, req[t].step # "idle",
           NEW b, NEW l, GoodRows(b, l, ids, today), Commit(t, b, l),
           \A u \in Threads \ {t} : SentOK(req[u], b, l, ids)
    PROVE  AgendaInv'
<1>1. /\ req' = [req EXCEPT ![t] = Idle] /\ board' = b /\ log' = l /\ ids' = ids
      /\ today' = today /\ started' = started
    BY DEF Commit
<1>2. \A u \in Threads : RequestType(req[u]) /\ RequestOK(req[u]) /\ HoldsOn(req[u], board)
    BY TypesOfRequests DEF AgendaInv
<1>3. \A u \in Threads : req'[u] = IF u = t THEN Idle ELSE req[u]
    BY <1>1 DEF AgendaInv, TypeOK
<1>4. \A u \in Threads : RequestType(req'[u]) /\ RequestOK(req'[u])
    BY <1>2, <1>3, IdleOK
<1>5. ASSUME NEW u \in Threads PROVE HoldsOn(req'[u], b)
    <2>1. CASE u = t
        BY <1>3, <2>1, IdleOK
    <2>2. CASE u # t
        <3>1. req'[u] = req[u] /\ (req[u].step = "idle" \/ ~req[u].alone)
            BY <1>3, <2>2 DEF AgendaInv, OneAlone
        <3>2. RequestOK(req[u]) /\ HoldsOn(req[u], board) /\ KeepsTrackers(board, b)
            BY <1>2 DEF GoodRows
        <3>3. CASE req[u].step = "idle"
            BY <3>1, <3>3 DEF HoldsOn
        <3>4. CASE ~req[u].alone
            BY <3>1, <3>2, <3>4, HoldsOnLater
        <3> QED
            BY <3>1, <3>3, <3>4
    <2> QED
        BY <2>1, <2>2
<1>6. TypeOK'
    <2>1. DOMAIN req' = Threads
        BY <1>1 DEF AgendaInv, TypeOK
    <2> QED
        BY <1>1, <1>4, <2>1 DEF AgendaInv, GoodRows, TypeOK, RequestType
<1>7. OneAlone(req') /\ OneSender(req')
    BY <1>3, IdleOK DEF AgendaInv, OneAlone, OneSender
<1>8. LogOK(board', log') /\ IdsOK(log', ids') /\ RowsOK(board', today')
    BY <1>1 DEF GoodRows
<1>9. \A u \in Threads : RequestOK(req'[u]) /\ HoldsOn(req'[u], board')
    BY <1>1, <1>4, <1>5
<1>10. \A u \in Threads : SentOK(req'[u], board', log', ids')
    BY <1>1, <1>3, IdleOK
<1> QED
    BY <1>6, <1>7, <1>8, <1>9, <1>10 DEF AgendaInv

(* Giving up is committing nothing.                                        *)
LEMMA SameRows ==
    ASSUME AgendaInv
    PROVE  GoodRows(board, log, ids, today)
    BY DEF AgendaInv, TypeOK, GoodRows, KeepsTrackers

LEMMA RollbackKeeps ==
    ASSUME AgendaInv, NEW t \in Threads, req[t].step # "idle", Rollback(t)
    PROVE  AgendaInv'
<1>1. Commit(t, board, log)
    BY DEF Rollback, Commit
<1>2. \A u \in Threads \ {t} : SentOK(req[u], board, log, ids)
    BY DEF AgendaInv
<1> QED
    BY <1>1, <1>2, SameRows, CommitKeeps

LEMMA UnseenKeeps ==
    ASSUME AgendaInv, NEW t \in Threads, Unseen(t), GoodRows(board', log', ids', today),
           \A u \in Threads : SentOK(req[u], board', log', ids')
    PROVE  AgendaInv'
<1>1. started < MaxRequests /\ started' = started + 1 /\ today' = today
    BY DEF Unseen
<1>2. started' \in 0 .. MaxRequests
    BY <1>1, AgendaAssumption DEF AgendaInv, TypeOK
<1>3. today \in Days
    BY DEF AgendaInv, TypeOK
<1> QED
    BY <1>1, <1>2, <1>3, InterruptKeeps DEF Unseen

LEMMA PositionsKeep ==
    ASSUME AgendaInv, NEW b \in BoardRows, KeepsTrackers(board, b),
           \A k \in Tasks : SameButKey(board.task[k], b.task[k])
    PROVE  /\ GoodRows(b, log, ids, today)
           /\ \A u \in Threads : SentOK(req[u], b, log, ids)
<1>1. GoodRows(b, log, ids, today)
    BY DEF AgendaInv, TypeOK, GoodRows, SameButKey, LogOK, RowsOK
<1>2. ASSUME NEW u \in Threads PROVE SentOK(req[u], b, log, ids)
    BY SentLater DEF AgendaInv, RequestOK
<1> QED
    BY <1>1, <1>2

-----------------------------------------------------------------------------
(* One lemma per action.                                                   *)

LEMMA AddTaskKeeps ==
    ASSUME AgendaInv, NEW t \in Threads, NEW b \in DateButtons, NEW vital \in BOOLEAN,
           AddTask(t, b.k, b.kind, b.date, b.time, vital)
    PROVE  AgendaInv'
<1> DEFINE k == b.k
           row == [ due |-> IF b.kind = "due" THEN b.date ELSE NoRow,
                    planned |-> IF b.kind = "planned" THEN b.date ELSE NoRow,
                    time |-> b.time, vital |-> vital, done |-> NoRow, archived |-> FALSE,
                    key |-> NoRow, born |-> today, touched |-> today ]
<1>1. /\ b.k \in Tasks /\ b.kind \in {"due", "planned"} /\ b.date \in Days /\ b.time \in Times
      /\ today \in Days /\ today \in Int
    BY DayFacts DEF DateButtons, AgendaInv, TypeOK
<1>2. row \in TaskRows
    BY <1>1, DayFacts DEF TaskRows, MaybeDay
<1>3. row.done = NoRow /\ row.born = today /\ (row.due # NoRow \/ row.planned # NoRow)
    BY <1>1, DayFacts
<1>4. row # NoRow
    BY <1>2, RowFacts
<1>5. /\ board' = [board EXCEPT !.task[k] = row] /\ ids' = [ids EXCEPT ![k] = 1]
      /\ log' = [log EXCEPT ![k] = {[id |-> 1, act |-> "created"]}]
      /\ board.task[k] = NoRow
    BY DEF AddTask
<1> DEFINE first == {[id |-> 1, act |-> "created"]}
<1> HIDE DEF row
<1>6. /\ board \in BoardRows /\ log \in [Tasks -> SUBSET EventRows] /\ ids \in [Tasks -> Nat]
    BY DEF AgendaInv, TypeOK
<1>7. /\ board' \in BoardRows /\ board'.tracker = board.tracker
      /\ \A j \in Tasks : board'.task[j] = IF j = k THEN row ELSE board.task[j]
    BY <1>1, <1>2, <1>5, <1>6 DEF BoardRows
<1>8. first \in SUBSET EventRows /\ ~SaysDone(first) /\ \A e \in first : e.id = 1
    BY DEF SaysDone, EventRows, Events
<1> HIDE DEF first
<1>9. /\ log' \in [Tasks -> SUBSET EventRows] /\ ids' \in [Tasks -> Nat]
      /\ \A j \in Tasks : log'[j] = IF j = k THEN first ELSE log[j]
      /\ \A j \in Tasks : ids'[j] = IF j = k THEN 1 ELSE ids[j]
    <2>1. log' = [log EXCEPT ![k] = first]
        BY <1>5 DEF first
    <2>2. /\ log' \in [Tasks -> SUBSET EventRows]
          /\ \A j \in Tasks : log'[j] = IF j = k THEN first ELSE log[j]
        BY <1>1, <1>6, <1>8, <2>1
    <2>3. /\ ids' \in [Tasks -> Nat]
          /\ \A j \in Tasks : ids'[j] = IF j = k THEN 1 ELSE ids[j]
        BY <1>1, <1>5, <1>6
    <2> QED
        BY <2>2, <2>3
<1>10. LogOK(board', log')
    BY <1>3, <1>7, <1>8, <1>9 DEF AgendaInv, LogOK
<1>11. RowsOK(board', today)
    BY <1>1, <1>3, <1>7 DEF AgendaInv, RowsOK
<1>12. KeepsTrackers(board, board') /\ IdsOK(log', ids')
    BY <1>7, <1>8, <1>9 DEF KeepsTrackers, AgendaInv, IdsOK
<1>13. GoodRows(board', log', ids', today)
    BY <1>7, <1>9, <1>10, <1>11, <1>12 DEF GoodRows
<1>14. ASSUME NEW u \in Threads PROVE SentOK(req[u], board', log', ids')
    <2>1. SentOK(req[u], board, log, ids) /\ RequestOK(req[u])
        BY DEF AgendaInv
    <2>2. ASSUME req[u].step = "flushed"
          PROVE  /\ req[u].ask.k \in Tasks /\ req[u].ask.k # k
                 /\ board'.task[req[u].ask.k] = board.task[req[u].ask.k]
                 /\ log'[req[u].ask.k] = log[req[u].ask.k]
                 /\ ids'[req[u].ask.k] = ids[req[u].ask.k]
        <3>1. req[u].ask.k \in Tasks /\ req[u].ask.k # k
            BY <1>5, <2>1, <2>2 DEF SentOK, RequestOK
        <3> QED
            BY <1>7, <1>9, <3>1
    <2> QED
        BY <2>1, <2>2, SentLater DEF SameButKey
<1> QED
    BY <1>13, <1>14, UnseenKeeps DEF AddTask

LEMMA TickKeeps ==
    ASSUME AgendaInv, NEW t \in Threads, NEW k \in Trackers, Tick(t, k)
    PROVE  AgendaInv'
<1> DEFINE row == board.tracker[k]
           days == IF today \in row.days THEN row.days \ {today} ELSE row.days \cup {today}
           last == Latest(days)
           since == IF last = NoRow THEN 0 ELSE today - last
           new == [row EXCEPT !.days = days, !.last = last, !.since = since]
<1>1. board \in BoardRows /\ today \in Days /\ row # NoRow /\ row \in TrackerRows
    BY BoardFacts DEF Tick, AgendaInv, TypeOK
<1>2. days \in SUBSET Days
    BY <1>1, TrackerFacts
<1>3. last \in MaybeDay
    BY <1>2, LatestType
<1>4. since \in Int
    <2>1. last # NoRow => last \in Int
        BY <1>3, DayFacts DEF MaybeDay
    <2> QED
        BY <1>1, <2>1, DayFacts
<1>5. board' = [board EXCEPT !.tracker[k] = new] /\ log' = log /\ ids' = ids
    BY DEF Tick
<1> HIDE DEF days, last, since
<1>6. new \in TrackerRows /\ new # NoRow
    <2>1. new \in TrackerRows
        BY <1>1, <1>2, <1>3, <1>4 DEF TrackerRows
    <2> QED
        BY <2>1, TrackerFacts
<1> HIDE DEF new, row
<1>7. /\ board' \in BoardRows /\ board'.task = board.task
      /\ \A j \in Trackers : board'.tracker[j] = IF j = k THEN new ELSE board.tracker[j]
    BY <1>1, <1>5, <1>6 DEF BoardRows
<1>8. KeepsTrackers(board, board') /\ \A j \in Tasks : SameButKey(board.task[j], board'.task[j])
    BY <1>6, <1>7 DEF KeepsTrackers, SameButKey
<1>9. GoodRows(board', log', ids', today) /\ \A u \in Threads : SentOK(req[u], board', log', ids')
    BY <1>5, <1>7, <1>8, PositionsKeep
<1> QED
    BY <1>9, UnseenKeeps DEF Tick

LEMMA NextDayKeeps ==
    ASSUME AgendaInv, NextDay
    PROVE  AgendaInv'
<1>1. /\ today + 1 \in Days /\ today' = today + 1 /\ today \in Int
      /\ started' \in 0 .. MaxRequests /\ board' = board /\ log' = log /\ ids' = ids
    BY DayFacts DEF NextDay, AgendaInv, TypeOK
<1>2. RowsOK(board, today + 1)
    <2>1. \A k \in Tasks : board.task[k] # NoRow => board.task[k].born \in Int
        BY BoardFacts, RowFacts, DayFacts DEF AgendaInv, TypeOK
    <2> QED
        BY <1>1, <2>1 DEF AgendaInv, RowsOK
<1>3. GoodRows(board, log, ids, today + 1)
    BY <1>2, SameRows DEF GoodRows
<1>4. \A u \in Threads : SentOK(req[u], board, log, ids)
    BY DEF AgendaInv
<1> QED
    BY <1>1, <1>3, <1>4, InterruptKeeps DEF NextDay

LEMMA LoadKeeps ==
    ASSUME AgendaInv, NEW t \in Threads, NEW b \in TaskButtons \cup DateButtons,
           Load(t, b) \/ LoadDelete(t, b)
    PROVE  AgendaInv'
<1>1. b.k \in Tasks /\ today \in Days
    BY DEF TaskButtons, DateButtons, AgendaInv, TypeOK
<1>2. board.task[b.k] # NoRow /\ board.task[b.k] \in TaskRows
    BY <1>1, BoardFacts DEF Load, LoadDelete, AgendaInv, TypeOK
<1>3. CASE Load(t, b)
    <2> DEFINE row == board.task[b.k]
               new == [Edited(b, row) EXCEPT !.touched = today]
               event == EventOf(b, row)
               r == [Idle EXCEPT !.step = "task", !.ask = b, !.had = row, !.new = new,
                                 !.event = event]
    <2>1. b.act # "delete" /\ Begin(t, r)
        BY <1>3 DEF Load
    <2> HIDE DEF new, event
    <2>2. /\ r.step = "task" /\ r.ask = b /\ r.had = row /\ r.new = new /\ r.event = event
          /\ r.id = 0 /\ r.seen = 0 /\ DOMAIN r = DOMAIN Idle
          /\ [r EXCEPT !.alone = TRUE].step = "task" /\ [r EXCEPT !.alone = TRUE].ask = b
          /\ [r EXCEPT !.alone = TRUE].had = row
        BY DEF Idle
    <2> HIDE DEF r
    <2>3. r.new \in TaskRows /\ EditOK(r) /\ event \in Events
        <3>1. r.event = EventOf(b, row) /\ r.new = [Edited(b, row) EXCEPT !.touched = today]
            BY <2>2 DEF new, event
        <3>2. row \in TaskRows
            BY <1>2
        <3> HIDE DEF row
        <3> QED
            BY <1>1, <2>1, <2>2, <3>1, <3>2, EditedRow DEF event
    <2>4. RequestType(r)
        BY <1>2, <2>2, <2>3 DEF RequestType
    <2>5. RequestOK(r)
        BY <2>2, <2>3 DEF RequestOK
    <2>6. HoldsOn([r EXCEPT !.alone = TRUE], board)
        BY <2>2 DEF HoldsOn
    <2> QED
        BY <2>1, <2>2, <2>4, <2>5, <2>6, StartKeeps
<1>4. CASE LoadDelete(t, b)
    <2> DEFINE rows == log[b.k]
               r == [Idle EXCEPT !.step = "delete", !.ask = b, !.had = board.task[b.k],
                                 !.rows = rows]
    <2>1. Begin(t, r)
        BY <1>4 DEF LoadDelete
    <2> HIDE DEF rows
    <2>3. /\ r.step = "delete" /\ r.ask = b /\ r.had = board.task[b.k]
          /\ r.id = 0 /\ r.seen = 0 /\ r.event = "edited" /\ DOMAIN r = DOMAIN Idle
          /\ [r EXCEPT !.alone = TRUE].step = "delete"
        BY DEF Idle
    <2> HIDE DEF r
    <2>4. RequestType(r)
        BY <1>2, <2>3 DEF RequestType, Events
    <2>5. RequestOK(r)
        BY <1>1, <2>3 DEF RequestOK
    <2>6. HoldsOn([r EXCEPT !.alone = TRUE], board)
        BY <2>3 DEF HoldsOn
    <2> QED
        BY <2>1, <2>3, <2>4, <2>5, <2>6, StartKeeps
<1> QED
    BY <1>3, <1>4

LEMMA LoadMoveKeeps ==
    ASSUME AgendaInv, NEW t \in Threads, NEW b \in MoveButtons, LoadMove(t, b)
    PROVE  AgendaInv'
<1>1. /\ board \in BoardRows /\ today \in Days /\ b.item \in Items(board, today)
      /\ b.item \in Movables /\ b.dir \in Dirs
    BY DEF LoadMove, MoveButtons, Movables, AgendaInv, TypeOK
<1>2. PICK list \in DayLists(board, today) :
         Begin(t, [Idle EXCEPT !.step = "move", !.ask = b,
                     !.had = ManualKey(board, b.item),
                     !.new = MovedKey(board, today, list, b.item, b.dir),
                     !.seen = PlaceOf(list, b.item)])
    BY DEF LoadMove
<1> DEFINE had == ManualKey(board, b.item)
           new == MovedKey(board, today, list, b.item, b.dir)
           seen == PlaceOf(list, b.item)
           r == [Idle EXCEPT !.step = "move", !.ask = b, !.had = had, !.new = new,
                             !.seen = seen]
<1>3. Begin(t, r)
    BY <1>2
<1>4. new \in Int /\ seen \in Nat
    BY <1>1, MovedKeyType, ListOfItems
<1>5. b.item.kind = "tracker" => board.tracker[b.item.id] # NoRow
    BY <1>1 DEF Items, DayTrackers
<1> HIDE DEF had, new, seen
<1>6. /\ r.step = "move" /\ r.ask = b /\ r.new = new /\ r.seen = seen
      /\ r.id = 0 /\ r.event = "edited" /\ DOMAIN r = DOMAIN Idle
      /\ [r EXCEPT !.alone = TRUE].step = "move" /\ [r EXCEPT !.alone = TRUE].ask = b
    BY DEF Idle
<1> HIDE DEF r
<1>7. RequestType(r) /\ RequestOK(r)
    BY <1>1, <1>4, <1>6 DEF RequestType, RequestOK, Events
<1>8. HoldsOn([r EXCEPT !.alone = TRUE], board)
    BY <1>5, <1>6 DEF HoldsOn
<1> QED
    BY <1>3, <1>6, <1>7, <1>8, StartKeeps

LEMMA LoadResetKeeps ==
    ASSUME AgendaInv, NEW t \in Threads, LoadReset(t)
    PROVE  AgendaInv'
<1> DEFINE rows == [kind : {"task"}, id : {k \in Tasks :
                       board.task[k] # NoRow /\ board.task[k].key # NoRow}]
                   \cup [kind : {"tracker"}, id : {k \in Trackers :
                       board.tracker[k] # NoRow /\ board.tracker[k].key # NoRow}]
           r == [Idle EXCEPT !.step = "reset", !.rows = rows]
<1>1. Begin(t, r)
    BY DEF LoadReset
<1>2. /\ rows \subseteq Movables
      /\ \A i \in rows : i.kind = "tracker" => board.tracker[i.id] # NoRow
    BY DEF Movables
<1> HIDE DEF rows
<1>3. /\ r.step = "reset" /\ r.rows = rows /\ r.id = 0 /\ r.seen = 0 /\ r.event = "edited"
      /\ DOMAIN r = DOMAIN Idle
      /\ [r EXCEPT !.alone = TRUE].step = "reset" /\ [r EXCEPT !.alone = TRUE].rows = rows
    BY DEF Idle
<1> HIDE DEF r
<1>4. RequestType(r) /\ RequestOK(r)
    BY <1>2, <1>3 DEF RequestType, RequestOK, Events
<1>5. HoldsOn([r EXCEPT !.alone = TRUE], board)
    BY <1>2, <1>3 DEF HoldsOn
<1> QED
    BY <1>1, <1>3, <1>4, <1>5, StartKeeps

(* The flush merges the row into the one stored, which the lock holds from *)
(* now on, and draws an id above every other.                              *)
LEMMA FlushKeeps ==
    ASSUME AgendaInv, NEW t \in Threads, Flush(t)
    PROVE  AgendaInv'
<1> DEFINE x == req[t]
           k == x.ask.k
           stored == board.task[k]
           row == Merged(x.new, x.had, stored)
           y == [x EXCEPT !.step = "flushed", !.new = row, !.id = ids[k] + 1]
<1>1. /\ x.step = "task" /\ EditOK(x) /\ k \in Tasks /\ RequestType(x) /\ HoldsOn(x, board)
      /\ x.new \in TaskRows /\ x.had \in TaskRows /\ ~Locked(t, k)
    BY TypesOfRequests DEF Flush, AgendaInv, RequestType, RequestOK, EditOK
<1>2. /\ board \in BoardRows /\ log \in [Tasks -> SUBSET EventRows] /\ ids \in [Tasks -> Nat]
      /\ stored \in TaskRows \cup {NoRow} /\ ids[k] \in Nat /\ DOMAIN req = Threads
    BY <1>1, BoardFacts DEF AgendaInv, TypeOK
<1>3. CASE Rollback(t)
    BY <1>1, <1>3, RollbackKeeps
<1>4. CASE ~Rollback(t)
    <2>1. /\ stored # NoRow /\ (row.due # NoRow \/ row.planned # NoRow)
          /\ ids' = [ids EXCEPT ![k] = @ + 1] /\ req' = [req EXCEPT ![t] = y]
          /\ board' = board /\ log' = log /\ today' = today /\ started' = started
        BY <1>4 DEF Flush
    <2>2. /\ row \in TaskRows /\ row # NoRow
          /\ row.done = IF x.new.done = x.had.done THEN stored.done ELSE x.new.done
          /\ row.born = stored.born
        <3>1. row \in TaskRows
            BY <1>1, <1>2, <2>1, MergedRow
        <3>2. row # NoRow
            BY <3>1, RowFacts
        <3>3. /\ row.done = IF x.new.done = x.had.done THEN stored.done ELSE x.new.done
              /\ row.born = IF x.new.born = x.had.born THEN stored.born ELSE x.new.born
            BY <1>1, MergedColumns
        <3>4. x.new.born = x.had.born
            BY <1>1 DEF EditOK
        <3> HIDE DEF row, stored, x
        <3> QED
            BY <3>1, <3>2, <3>3, <3>4
    <2>3. x.alone => row = x.new
        BY <1>1, MergedWhole DEF HoldsOn
    <2>4. /\ DOMAIN y = DOMAIN Idle /\ y.step = "flushed" /\ y.ask = x.ask /\ y.had = x.had
          /\ y.new = row /\ y.event = x.event /\ y.id = ids[k] + 1 /\ y.seen = x.seen
          /\ y.rows = x.rows /\ y.alone = x.alone
        BY <1>1 DEF RequestType, Idle
    <2>5. \A u \in Threads : req'[u] = IF u = t THEN y ELSE req[u]
        BY <1>2, <2>1
    <2>6. /\ ids' \in [Tasks -> Nat] /\ ids'[k] = ids[k] + 1
          /\ \A j \in Tasks : ids'[j] \in Nat /\ ids[j] <= ids'[j]
        BY <1>1, <1>2, <2>1
    <2> HIDE DEF y
    <2>7. RequestType(y) /\ RequestOK(y) /\ HoldsOn(y, board)
        BY <1>1, <1>2, <2>2, <2>4 DEF RequestType, RequestOK, HoldsOn
    <2>8. \A e \in log[k] : e.id < ids[k] + 1
        <3>1. \A e \in log[k] : e.id <= ids[k] /\ e.id \in Nat
            BY <1>1, <1>2 DEF AgendaInv, IdsOK, EventRows
        <3> QED
            BY <1>2, <3>1
    <2>9. SentOK(y, board, log, ids')
        <3>1. ids[k] + 1 <= ids'[k]
            BY <1>2, <2>6
        <3>2. /\ x.event = "completed" => row.done # NoRow
              /\ x.event = "uncompleted" => row.done = NoRow
              /\ x.event \notin {"completed", "uncompleted"} => row.done = stored.done
              /\ x.alone /\ x.ask.act = "reschedule" => (row.due = NoRow) # (row.planned = NoRow)
            <4> HIDE DEF x, k, stored, row
            <4> QED
                BY <1>1, <2>2, <2>3 DEF EditOK
        <3> HIDE DEF x, row
        <3> QED
            BY <2>1, <2>2, <2>4, <2>8, <3>1, <3>2 DEF SentOK
    <2>10. ASSUME NEW u \in Threads, u # t PROVE SentOK(req[u], board, log, ids')
        <3>1. SentOK(req[u], board, log, ids) /\ RequestOK(req[u]) /\ req[u].id \in Nat
            BY DEF AgendaInv, TypeOK
        <3>2. ASSUME req[u].step = "flushed" PROVE req[u].id <= ids'[req[u].ask.k]
            <4>1. req[u].ask.k \in Tasks /\ req[u].id <= ids[req[u].ask.k]
                BY <3>1, <3>2 DEF SentOK, RequestOK
            <4>2. ids[req[u].ask.k] \in Nat /\ ids[req[u].ask.k] <= ids'[req[u].ask.k]
                  /\ ids'[req[u].ask.k] \in Nat
                BY <1>2, <2>6, <4>1
            <4> QED
                BY <3>1, <4>1, <4>2
        <3> QED
            BY <3>1, <3>2 DEF SentOK
    <2>11. TypeOK'
        <3>1. DOMAIN req' = Threads
            BY <1>2, <2>1
        <3>2. \A u \in Threads : RequestType(req'[u])
            BY <2>5, <2>7, TypesOfRequests DEF AgendaInv
        <3> QED
            BY <2>1, <2>6, <3>1, <3>2 DEF AgendaInv, TypeOK, RequestType
    <2>12. OneAlone(req')
        BY <1>1, <2>4, <2>5 DEF AgendaInv, OneAlone
    <2>13. OneSender(req')
        <3>1. ASSUME NEW u \in Threads, u # t, req[u].step = "flushed" PROVE req[u].ask.k # k
            BY <1>1, <3>1, NotLocked
        <3> HIDE DEF x
        <3> QED
            BY <2>4, <2>5, <3>1 DEF AgendaInv, OneSender
    <2>14. \A u \in Threads : /\ RequestOK(req'[u]) /\ HoldsOn(req'[u], board')
                              /\ SentOK(req'[u], board', log', ids')
        BY <2>1, <2>5, <2>7, <2>9, <2>10 DEF AgendaInv
    <2>15. IdsOK(log', ids')
        <3> SUFFICES ASSUME NEW j \in Tasks, NEW e \in log[j] PROVE e.id <= ids'[j]
            BY <2>1 DEF IdsOK
        <3>1. e.id \in Nat /\ e.id <= ids[j] /\ ids[j] \in Nat
            BY <1>2 DEF AgendaInv, IdsOK, EventRows
        <3> QED
            BY <2>6, <3>1
    <2>16. LogOK(board', log') /\ RowsOK(board', today')
        BY <2>1 DEF AgendaInv
    <2> QED
        BY <2>11, <2>12, <2>13, <2>14, <2>15, <2>16 DEF AgendaInv
<1> QED
    BY <1>3, <1>4

(* The row and the event go in together, and the event, whose id is above  *)
(* those of the others, says what became of the row.                       *)
LEMMA CommitTaskKeeps ==
    ASSUME AgendaInv, NEW t \in Threads, CommitTask(t)
    PROVE  AgendaInv'
<1> DEFINE x == req[t]
           k == x.ask.k
           stored == board.task[k]
           row == x.new
           event == [id |-> x.id, act |-> x.event]
           events == log[k] \cup {event}
           b == [board EXCEPT !.task[k] = row]
           l == [log EXCEPT ![k] = events]
<1>1. /\ x.step = "flushed" /\ k \in Tasks /\ SentOK(x, board, log, ids)
      /\ row \in TaskRows /\ x.event \in Events /\ x.id \in Nat /\ Commit(t, b, l)
    BY DEF CommitTask, AgendaInv, TypeOK, RequestOK
<1>2. /\ board \in BoardRows /\ log \in [Tasks -> SUBSET EventRows] /\ ids \in [Tasks -> Nat]
      /\ log[k] \in SUBSET EventRows
    BY <1>1 DEF AgendaInv, TypeOK
<1>3. /\ stored # NoRow /\ (row.due # NoRow \/ row.planned # NoRow) /\ row.born = stored.born
      /\ x.event = "completed" => row.done # NoRow
      /\ x.event = "uncompleted" => row.done = NoRow
      /\ x.event \notin {"completed", "uncompleted"} => row.done = stored.done
      /\ x.id <= ids[k] /\ \A e \in log[k] : e.id < x.id
    BY <1>1 DEF SentOK
<1>4. event \in EventRows /\ event.id = x.id /\ event.act = x.event
    BY <1>1 DEF EventRows
<1>5. row # NoRow
    BY <1>1, RowFacts
<1> HIDE DEF event
<1>6. /\ events \in SUBSET EventRows
      /\ x.event = "completed" => SaysDone(events)
      /\ x.event = "uncompleted" => ~SaysDone(events)
      /\ x.event \notin {"completed", "uncompleted"} =>
            (SaysDone(events) <=> SaysDone(log[k]))
      /\ \A e \in events : e = event \/ e \in log[k]
    BY <1>2, <1>3, <1>4, SaysDoneAdded
<1>7. (stored.done # NoRow <=> SaysDone(log[k])) /\ stored.born <= today
    BY <1>1, <1>3 DEF AgendaInv, LogOK, RowsOK
<1>8. row.done # NoRow <=> SaysDone(events)
    <2> HIDE DEF x, k, stored, row, events
    <2> QED
        BY <1>3, <1>6, <1>7
<1>9. ASSUME NEW u \in Threads, u # t, req[u].step = "flushed"
      PROVE  req[u].ask.k \in Tasks /\ req[u].ask.k # k
    BY <1>1, <1>9 DEF AgendaInv, OneSender, RequestOK
<1> HIDE DEF x, row, events
<1>10. /\ b \in BoardRows /\ b.tracker = board.tracker
       /\ \A j \in Tasks : b.task[j] = IF j = k THEN row ELSE board.task[j]
    BY <1>1, <1>2 DEF BoardRows
<1>11. /\ l \in [Tasks -> SUBSET EventRows]
       /\ \A j \in Tasks : l[j] = IF j = k THEN events ELSE log[j]
    BY <1>1, <1>2, <1>6
<1> HIDE DEF b, l, k
<1>12. LogOK(b, l)
    BY <1>8, <1>10, <1>11 DEF AgendaInv, LogOK
<1>13. RowsOK(b, today)
    BY <1>3, <1>7, <1>10 DEF AgendaInv, RowsOK
<1>14. IdsOK(l, ids)
    BY <1>3, <1>4, <1>6, <1>11 DEF AgendaInv, IdsOK
<1>15. GoodRows(b, l, ids, today)
    BY <1>2, <1>10, <1>11, <1>12, <1>13, <1>14 DEF GoodRows, KeepsTrackers
<1>16. ASSUME NEW u \in Threads \ {t} PROVE SentOK(req[u], b, l, ids)
    <2>1. SentOK(req[u], board, log, ids) /\ RequestOK(req[u])
        BY DEF AgendaInv
    <2>2. ASSUME req[u].step = "flushed"
          PROVE  /\ SameButKey(board.task[req[u].ask.k], b.task[req[u].ask.k])
                 /\ l[req[u].ask.k] = log[req[u].ask.k]
        BY <1>9, <1>10, <1>11, <2>2 DEF SameButKey
    <2> QED
        BY <2>1, <2>2, SentLater
<1>17. req[t].step # "idle"
    BY <1>1 DEF x
<1> QED
    BY <1>1, <1>15, <1>16, <1>17, CommitKeeps

LEMMA CommitDeleteKeeps ==
    ASSUME AgendaInv, NEW t \in Threads, CommitDelete(t)
    PROVE  AgendaInv'
<1> DEFINE k == req[t].ask.k
           b == [board EXCEPT !.task[k] = NoRow]
           l == [log EXCEPT ![k] = {}]
<1>1. /\ req[t].step = "delete" /\ k \in Tasks /\ Commit(t, b, l) /\ ~Locked(t, k)
    BY DEF CommitDelete, AgendaInv, RequestOK
<1>2. board \in BoardRows /\ log \in [Tasks -> SUBSET EventRows] /\ ids \in [Tasks -> Nat]
    BY DEF AgendaInv, TypeOK
<1> HIDE DEF k
<1>3. /\ b \in BoardRows /\ b.tracker = board.tracker
      /\ \A j \in Tasks : b.task[j] = IF j = k THEN NoRow ELSE board.task[j]
    BY <1>1, <1>2 DEF BoardRows
<1>4. /\ l \in [Tasks -> SUBSET EventRows]
      /\ \A j \in Tasks : l[j] = IF j = k THEN {} ELSE log[j]
    BY <1>1, <1>2
<1> HIDE DEF b, l
<1>5. GoodRows(b, l, ids, today)
    BY <1>2, <1>3, <1>4 DEF AgendaInv, GoodRows, KeepsTrackers, LogOK, IdsOK, RowsOK
<1>6. ASSUME NEW u \in Threads \ {t} PROVE SentOK(req[u], b, l, ids)
    <2>1. SentOK(req[u], board, log, ids) /\ RequestOK(req[u])
        BY DEF AgendaInv
    <2>2. ASSUME req[u].step = "flushed"
          PROVE  /\ SameButKey(board.task[req[u].ask.k], b.task[req[u].ask.k])
                 /\ l[req[u].ask.k] = log[req[u].ask.k]
        <3>1. req[u].ask.k \in Tasks /\ req[u].ask.k # k
            BY <1>1, <2>1, <2>2, NotLocked DEF RequestOK
        <3> QED
            BY <1>3, <1>4, <3>1 DEF SameButKey
    <2> QED
        BY <2>1, <2>2, SentLater
<1> QED
    BY <1>1, <1>5, <1>6, CommitKeeps

LEMMA CommitMoveKeeps ==
    ASSUME AgendaInv, NEW t \in Threads, CommitMove(t)
    PROVE  AgendaInv'
<1> DEFINE i == req[t].ask.item
           key == req[t].new
           b == IF key = req[t].had THEN board ELSE Place(board, i, key)
<1>1. /\ req[t].step = "move" /\ i \in Movables /\ key \in Int
      /\ i.kind = "tracker" => board.tracker[i.id] # NoRow
      /\ board \in BoardRows
    BY DEF CommitMove, AgendaInv, TypeOK, RequestOK, HoldsOn
<1>2. CASE Rollback(t)
    BY <1>1, <1>2, RollbackKeeps
<1>3. CASE ~Rollback(t)
    <2>1. /\ Commit(t, b, log)
          /\ key # req[t].had => ~(i.kind = "task" /\ board.task[i.id] = NoRow)
        BY <1>3 DEF CommitMove
    <2>2. GoodRows(b, log, ids, today) /\ \A u \in Threads : SentOK(req[u], b, log, ids)
        <3>1. CASE key = req[t].had
            BY <3>1, SameRows DEF AgendaInv
        <3>2. CASE key # req[t].had /\ i.kind = "task"
            <4> DEFINE row == board.task[i.id]
                       new == [row EXCEPT !.key = key]
            <4>1. i.id \in Tasks /\ row # NoRow /\ row \in TaskRows
                BY <1>1, <2>1, <3>2, BoardFacts DEF Movables
            <4>2. new \in TaskRows /\ SameButKey(row, new)
                <5>1. new \in TaskRows /\ new.due = row.due /\ new.planned = row.planned
                      /\ new.done = row.done /\ new.born = row.born
                    BY <1>1, <4>1 DEF TaskRows
                <5>2. new # NoRow
                    BY <5>1, RowFacts
                <5> QED
                    BY <4>1, <5>1, <5>2 DEF SameButKey
            <4>3. b = [board EXCEPT !.task[i.id] = new]
                BY <3>2 DEF Place
            <4> HIDE DEF i, new, b
            <4>4. /\ b \in BoardRows /\ b.tracker = board.tracker
                  /\ \A j \in Tasks : b.task[j] = IF j = i.id THEN new ELSE board.task[j]
                BY <1>1, <4>1, <4>2, <4>3 DEF BoardRows
            <4> QED
                BY <4>1, <4>2, <4>4, PositionsKeep DEF KeepsTrackers, SameButKey
        <3>3. CASE key # req[t].had /\ i.kind = "tracker"
            <4> DEFINE row == board.tracker[i.id]
                       new == [row EXCEPT !.key = key]
            <4>1. i.id \in Trackers /\ row # NoRow /\ row \in TrackerRows
                BY <1>1, <3>3, BoardFacts DEF Movables
            <4>2. new \in TrackerRows /\ new # NoRow
                <5>1. new \in TrackerRows
                    BY <1>1, <4>1 DEF TrackerRows
                <5> QED
                    BY <5>1, TrackerFacts
            <4>3. b = [board EXCEPT !.tracker[i.id] = new]
                BY <3>3 DEF Place
            <4> HIDE DEF i, new, b
            <4>4. /\ b \in BoardRows /\ b.task = board.task
                  /\ \A j \in Trackers : b.tracker[j] = IF j = i.id THEN new ELSE board.tracker[j]
                BY <1>1, <4>1, <4>2, <4>3 DEF BoardRows
            <4> QED
                BY <4>2, <4>4, PositionsKeep DEF KeepsTrackers, SameButKey
        <3> QED
            BY <1>1, <3>1, <3>2, <3>3 DEF Movables
    <2> QED
        BY <1>1, <2>1, <2>2, CommitKeeps
<1> QED
    BY <1>2, <1>3

LEMMA CommitResetKeeps ==
    ASSUME AgendaInv, NEW t \in Threads, CommitReset(t)
    PROVE  AgendaInv'
<1> DEFINE rows == req[t].rows
           tasks == [k \in Tasks |->
              IF [kind |-> "task", id |-> k] \in rows
              THEN [board.task[k] EXCEPT !.key = NoRow] ELSE board.task[k]]
           trackers == [k \in Trackers |->
              IF [kind |-> "tracker", id |-> k] \in rows
              THEN [board.tracker[k] EXCEPT !.key = NoRow] ELSE board.tracker[k]]
           b == [board EXCEPT !.task = tasks, !.tracker = trackers]
<1>1. /\ req[t].step = "reset" /\ rows \subseteq Movables
      /\ \A i \in rows : i.kind = "tracker" => board.tracker[i.id] # NoRow
      /\ board \in BoardRows
    BY DEF CommitReset, AgendaInv, TypeOK, RequestOK, HoldsOn
<1>2. CASE \E i \in rows : i.kind = "task" /\ board.task[i.id] = NoRow
    <2>1. Rollback(t)
        BY <1>2 DEF CommitReset
    <2> QED
        BY <1>1, <2>1, RollbackKeeps
<1>3. CASE ~\E i \in rows : i.kind = "task" /\ board.task[i.id] = NoRow
    <2>1. Commit(t, b, log)
        BY <1>3 DEF CommitReset
    <2>2. \A k \in Tasks : tasks[k] \in TaskRows \cup {NoRow} /\ SameButKey(board.task[k], tasks[k])
        <3> TAKE k \in Tasks
        <3>1. CASE [kind |-> "task", id |-> k] \in rows
            <4> DEFINE row == board.task[k]
                       new == [row EXCEPT !.key = NoRow]
            <4>1. row # NoRow
                <5> DEFINE i == [kind |-> "task", id |-> k]
                <5>1. i \in rows /\ i.kind = "task" /\ i.id = k
                    BY <3>1
                <5> HIDE DEF i
                <5> QED
                    BY <1>3, <5>1
            <4>2. row \in TaskRows
                BY <1>1, <4>1, BoardFacts
            <4>3. new \in TaskRows /\ new.due = row.due /\ new.planned = row.planned
                  /\ new.done = row.done /\ new.born = row.born
                BY <4>2 DEF TaskRows
            <4>4. new # NoRow
                BY <4>3, RowFacts
            <4>5. tasks[k] = new
                BY <3>1
            <4> HIDE DEF new, tasks
            <4> QED
                BY <4>1, <4>3, <4>4, <4>5 DEF SameButKey
        <3>2. CASE [kind |-> "task", id |-> k] \notin rows
            <4>1. tasks[k] = board.task[k]
                BY <3>2
            <4> HIDE DEF tasks
            <4> QED
                BY <1>1, <4>1, BoardFacts DEF SameButKey
        <3> QED
            BY <3>1, <3>2
    <2>3. \A k \in Trackers : /\ trackers[k] \in TrackerRows \cup {NoRow}
                              /\ board.tracker[k] # NoRow => trackers[k] # NoRow
        <3> TAKE k \in Trackers
        <3>1. CASE [kind |-> "tracker", id |-> k] \in rows
            <4> DEFINE row == board.tracker[k]
                       new == [row EXCEPT !.key = NoRow]
            <4>1. row # NoRow
                <5> DEFINE i == [kind |-> "tracker", id |-> k]
                <5>1. i \in rows /\ i.kind = "tracker" /\ i.id = k
                    BY <3>1
                <5> HIDE DEF i
                <5> QED
                    BY <1>1, <5>1
            <4>2. row \in TrackerRows
                BY <1>1, <4>1, BoardFacts
            <4>3. new \in TrackerRows
                BY <4>2 DEF TrackerRows
            <4>4. new # NoRow
                BY <4>3, TrackerFacts
            <4>5. trackers[k] = new
                BY <3>1
            <4> HIDE DEF new, trackers
            <4> QED
                BY <4>3, <4>4, <4>5
        <3>2. CASE [kind |-> "tracker", id |-> k] \notin rows
            <4>1. trackers[k] = board.tracker[k]
                BY <3>2
            <4> HIDE DEF trackers
            <4> QED
                BY <1>1, <4>1, BoardFacts
        <3> QED
            BY <3>1, <3>2
    <2>4. DOMAIN tasks = Tasks /\ DOMAIN trackers = Trackers
          /\ tasks = [k \in Tasks |-> tasks[k]] /\ trackers = [k \in Trackers |-> trackers[k]]
        OBVIOUS
    <2> HIDE DEF tasks, trackers
    <2>5. tasks \in [Tasks -> TaskRows \cup {NoRow}]
        BY <2>2, <2>4
    <2>6. trackers \in [Trackers -> TrackerRows \cup {NoRow}]
        BY <2>3, <2>4
    <2>7. b \in BoardRows /\ b.task = tasks /\ b.tracker = trackers
        BY <1>1, <2>5, <2>6 DEF BoardRows
    <2> HIDE DEF b
    <2>8. KeepsTrackers(board, b)
        BY <2>3, <2>7 DEF KeepsTrackers
    <2>9. GoodRows(b, log, ids, today) /\ \A u \in Threads : SentOK(req[u], b, log, ids)
        BY <2>2, <2>7, <2>8, PositionsKeep
    <2> QED
        BY <1>1, <2>1, <2>9, CommitKeeps
<1> QED
    BY <1>2, <1>3

-----------------------------------------------------------------------------
(* The invariant holds of every reachable state.                           *)
LEMMA InitOK == Init => AgendaInv
<1> SUFFICES ASSUME Init PROVE AgendaInv
    OBVIOUS
<1>1. /\ board \in Boards /\ board \in BoardRows /\ today = FirstToday /\ today \in Days
      /\ started \in 0 .. MaxRequests /\ req = [t \in Threads |-> Idle]
      /\ ids = [k \in Tasks |-> IF board.task[k] = NoRow THEN 0 ELSE 1]
      /\ log = [k \in Tasks |-> {[id |-> n, act |-> "created"] : n \in 1 .. ids[k]}]
    BY AgendaAssumption DEF Init
<1>2. /\ ids \in [Tasks -> Nat]
      /\ \A k \in Tasks : log[k] = {[id |-> n, act |-> "created"] : n \in 1 .. ids[k]}
    BY <1>1
<1>3. /\ log \in [Tasks -> SUBSET EventRows]
      /\ \A k \in Tasks : \A e \in log[k] : e.act = "created" /\ e.id <= ids[k]
    <2>1. ASSUME NEW k \in Tasks, NEW e \in log[k]
          PROVE  e \in EventRows /\ e.act = "created" /\ e.id <= ids[k]
        <3>1. PICK n \in 1 .. ids[k] : e = [id |-> n, act |-> "created"]
            BY <1>2
        <3> QED
            BY <1>2, <3>1 DEF EventRows, Events
    <2>2. DOMAIN log = Tasks /\ log = [k \in Tasks |-> log[k]]
        BY <1>1
    <2> QED
        BY <2>1, <2>2
<1>4. \A t \in Threads : RequestType(req[t]) /\ RequestOK(req[t]) /\ HoldsOn(req[t], board)
                         /\ req[t].step = "idle" /\ SentOK(req[t], board, log, ids)
    BY <1>1, IdleOK
<1>5. TypeOK
    BY <1>1, <1>2, <1>3, <1>4, TypesOfRequests
<1>6. \A k \in Tasks : board.task[k] # NoRow =>
          /\ board.task[k].due # NoRow \/ board.task[k].planned # NoRow
          /\ board.task[k].done = NoRow /\ board.task[k].born <= today
    BY <1>1, AgendaAssumption
<1>7. LogOK(board, log) /\ IdsOK(log, ids)
    BY <1>3, <1>6 DEF LogOK, IdsOK, SaysDone
<1>8. RowsOK(board, today)
    BY <1>6 DEF RowsOK
<1> QED
    BY <1>4, <1>5, <1>7, <1>8 DEF AgendaInv, OneAlone, OneSender

LEMMA StepKeeps == AgendaInv /\ [Next]_vars => AgendaInv'
<1> SUFFICES ASSUME AgendaInv, [Next]_vars PROVE AgendaInv'
    OBVIOUS
<1>1. ASSUME NEW t \in Threads, NEW b \in Buttons \cap DateButtons, NEW vital \in BOOLEAN,
             AddTask(t, b.k, b.kind, b.date, b.time, vital)
      PROVE  AgendaInv'
    BY <1>1, AddTaskKeeps
<1>2. ASSUME NEW t \in Threads, NEW b \in Buttons \cap (TaskButtons \cup DateButtons),
             Load(t, b) \/ LoadDelete(t, b)
      PROVE  AgendaInv'
    BY <1>2, LoadKeeps
<1>3. ASSUME NEW t \in Threads, NEW b \in Buttons \cap MoveButtons, LoadMove(t, b)
      PROVE  AgendaInv'
    BY <1>3, LoadMoveKeeps
<1>4. ASSUME NEW t \in Threads, NEW k \in Trackers, Tick(t, k)
      PROVE  AgendaInv'
    BY <1>4, TickKeeps
<1>5. ASSUME NEW t \in Threads, LoadReset(t)
      PROVE  AgendaInv'
    BY <1>5, LoadResetKeeps
<1>6. ASSUME NEW t \in Threads, CommitTask(t)
      PROVE  AgendaInv'
    BY <1>6, CommitTaskKeeps
<1>7. ASSUME NEW t \in Threads, CommitDelete(t)
      PROVE  AgendaInv'
    BY <1>7, CommitDeleteKeeps
<1>8. ASSUME NEW t \in Threads, DeleteRefused(t) \/ Die(t)
      PROVE  AgendaInv'
    BY <1>8, RollbackKeeps DEF DeleteRefused, Die
<1>9. ASSUME NEW t \in Threads, CommitMove(t)
      PROVE  AgendaInv'
    BY <1>9, CommitMoveKeeps
<1>10. ASSUME NEW t \in Threads, CommitReset(t)
       PROVE  AgendaInv'
    BY <1>10, CommitResetKeeps
<1>11. CASE NextDay
    BY <1>11, NextDayKeeps
<1>12. CASE UNCHANGED vars
    BY <1>12 DEF vars, AgendaInv, TypeOK, OneAlone, OneSender, RequestOK, EditOK, HoldsOn, SentOK,
        LogOK, IdsOK, RowsOK, SaysDone
<1>13. ASSUME NEW t \in Threads, Flush(t)
       PROVE  AgendaInv'
    BY <1>13, FlushKeeps
<1> QED
    BY <1>1, <1>2, <1>3, <1>4, <1>5, <1>6, <1>7, <1>8, <1>9, <1>10, <1>11, <1>12, <1>13 DEF Next

LEMMA AgendaInvariant == Spec => []AgendaInv
    BY InitOK, StepKeeps, PTL DEF Spec

(* Whatever races, every row, log and request keeps its type.              *)
THEOREM AgendaTypeOK == Spec => []TypeOK
<1>1. AgendaInv => TypeOK
    BY DEF AgendaInv
<1> QED
    BY <1>1, AgendaInvariant, PTL

(* Toggles of one task may race as they like: its row says done exactly    *)
(* when the last of them in its log, by id, does (dashboard.py 320-334).   *)
(* The row is locked before the id is drawn and until the commit, so the   *)
(* ids of one task's events grow in the order of the commits that wrote    *)
(* its row.  Which of the two statements goes first is an assumption.      *)
THEOREM LogsTellTheState == Spec => []LogTellsTheState
<1>1. AgendaInv => LogTellsTheState
    BY DEF AgendaInv, LogOK, LogTellsTheState
<1> QED
    BY <1>1, AgendaInvariant, PTL

(* A task that is not archived is on the front page today or on the page   *)
(* of some other day: the dates a task has are days, and it was added on   *)
(* one that is past.                                                       *)
THEOREM NoTaskIsLost == Spec => []NothingIsLost
<1>1. AgendaInv => NothingIsLost
    <2> SUFFICES ASSUME AgendaInv, NEW k \in Tasks, board.task[k] # NoRow,
                        ~board.task[k].archived
                 PROVE  \/ k \in Overdue(board, today) \cup DayTasks(board, today)
                                 \cup Finished(board, today)
                        \/ \E day \in Days \ {today} : k \in DayPage(board, day)
        BY DEF NothingIsLost
    <2> DEFINE row == board.task[k]
    <2>1. row \in TaskRows /\ today \in Days
        BY BoardFacts DEF AgendaInv, TypeOK
    <2>2. /\ row.due \in MaybeDay /\ row.planned \in MaybeDay /\ row.done \in MaybeDay
          /\ row.born \in Days /\ row # NoRow /\ ~row.archived
        BY <2>1, RowFacts
    <2>3. row.born <= today /\ (row.due # NoRow \/ row.planned # NoRow)
        BY DEF AgendaInv, RowsOK
    <2>4. /\ row.due # NoRow => row.due \in Days /\ row.due \in Int
          /\ row.planned # NoRow => row.planned \in Days /\ row.planned \in Int
          /\ row.done # NoRow => row.done \in Days /\ row.done \in Int
          /\ row.born \in Int /\ today \in Int
        BY <2>1, <2>2, DayFacts DEF MaybeDay
    <2>5. ASSUME row.done # NoRow, row.done >= today PROVE k \in Finished(board, today)
        BY <2>5 DEF Finished
    <2>6. ASSUME NEW day \in Days, row.done = NoRow \/ row.done >= day,
                 \/ row.done = day \/ row.planned = day
                 \/ row.due # NoRow /\ row.born <= day
          PROVE  k \in DayPage(board, day)
        BY <2>6 DEF DayPage
    <2>7. CASE row.done # NoRow
        <3>1. CASE row.done >= today
            BY <2>5, <2>7, <3>1
        <3>2. CASE row.done < today
            <4>1. row.done \in Days \ {today} /\ row.done >= row.done
                BY <2>4, <2>7, <3>2
            <4> HIDE DEF row
            <4> QED
                BY <2>6, <4>1
        <3> QED
            BY <2>4, <2>7, <3>1, <3>2
    <2>8. CASE row.done = NoRow
        <3>1. k \in Open(board)
            BY <2>2, <2>8 DEF Open
        <3>2. CASE row.due # NoRow /\ row.due < today
            <4>1. OverdueDays(row, today) > 0
                BY <2>4, <2>8, <3>2 DEF OverdueDays
            <4> QED
                BY <3>1, <4>1 DEF Overdue
        <3>3. CASE ~(row.due # NoRow /\ row.due < today)
            <4>1. k \notin Overdue(board, today)
                <5>1. OverdueDays(row, today) = 0
                    BY <3>3 DEF OverdueDays
                <5> QED
                    BY <5>1 DEF Overdue
            <4>2. CASE row.planned # NoRow
                <5>1. CASE row.planned = today
                    BY <3>1, <4>1, <4>2, <5>1 DEF DayTasks, TaskDay
                <5>2. CASE row.planned # today
                    BY <2>4, <2>6, <2>8, <4>2, <5>2
                <5> QED
                    BY <5>1, <5>2
            <4>3. CASE row.planned = NoRow
                <5>1. row.due # NoRow /\ row.due >= today
                    BY <2>3, <2>4, <3>3, <4>3
                <5>2. CASE row.due = today
                    BY <3>1, <4>1, <4>3, <5>2 DEF DayTasks, TaskDay
                <5>3. CASE row.due # today
                    <6>1. row.due \in Days \ {today} /\ row.born <= row.due
                        BY <2>3, <2>4, <5>1, <5>3
                    <6> QED
                        BY <2>6, <2>8, <5>1, <6>1
                <5> QED
                    BY <5>2, <5>3
            <4> QED
                BY <4>2, <4>3
        <3> QED
            BY <3>2, <3>3
    <2> QED
        BY <2>7, <2>8
<1> QED
    BY <1>1, AgendaInvariant, PTL

(* "One date, one meaning" (dashboard.py 354) of a reschedule that nothing *)
(* overlapped: its row is as it loaded it, so all of the new row goes in.  *)
THEOREM LoneRescheduleLeavesOneDate == Spec => OneMeaningWhenAlone
<1> DEFINE Body ==
      \A t \in Threads : (CommitTask(t) /\ req[t].ask.act = "reschedule" /\ req[t].alone) =>
          LET row == board'.task[req[t].ask.k]
          IN  (row.due = NoRow) # (row.planned = NoRow)
<1>1. AgendaInv /\ [Next]_vars => [Body]_vars
    <2> SUFFICES ASSUME AgendaInv, NEW t \in Threads, CommitTask(t),
                        req[t].ask.act = "reschedule", req[t].alone
                 PROVE  LET row == board'.task[req[t].ask.k]
                        IN  (row.due = NoRow) # (row.planned = NoRow)
        OBVIOUS
    <2> DEFINE x == req[t]
               k == x.ask.k
    <2>1. /\ k \in Tasks /\ (x.new.due = NoRow) # (x.new.planned = NoRow)
        BY DEF CommitTask, AgendaInv, RequestOK, SentOK
    <2>2. board' = [board EXCEPT !.task[k] = x.new]
        BY DEF CommitTask, Commit
    <2>3. board'.task[k] = x.new
        BY <2>1, <2>2 DEF AgendaInv, TypeOK, BoardRows
    <2> QED
        BY <2>1, <2>3
<1>2. OneMeaningWhenAlone <=> [][Body]_vars
    BY DEF OneMeaningWhenAlone
<1> HIDE DEF Body
<1> QED
    BY <1>1, <1>2, AgendaInvariant, PTL DEF Spec

-----------------------------------------------------------------------------
(* Why a lone move lands.  A list of distinct keys is put together from an *)
(* enumeration of a set and the number each member is sorted by.           *)
Sorted(list, c, S, k) ==
    /\ list \in [1 .. c -> S]
    /\ \A o \in S : \E m \in 1 .. c : list[m] = o
    /\ \A m \in 1 .. c - 1 : k[list[m]] < k[list[m + 1]]

LEMMA LeastNumber ==
    ASSUME NEW D \in SUBSET Nat, D # {}
    PROVE  \E d \in D : \A e \in D : d <= e
<1> DEFINE Below == {ss \in Nat \X Nat : ss[1] < ss[2]}
<1>1. OpToRel(<, Nat) = Below
    BY Zenon DEF OpToRel
<1>2. IsWellFoundedOn(Below, Nat)
    BY <1>1, NatLessThanWellFounded, Zenon
<1>3. PICK d \in D : \A e \in D : ~(<<e, d>> \in Below)
    <2> HIDE DEF Below
    <2> QED
        BY <1>2, WFMin
<1>4. ASSUME NEW e \in D PROVE d <= e
    <2>1. d \in Nat /\ e \in Nat /\ <<e, d>> \in Nat \X Nat
        OBVIOUS
    <2>2. e < d => <<e, d>> \in Below
        BY <2>1
    <2> QED
        BY <1>3, <2>1, <2>2
<1> QED
    BY <1>4

(* Sorted from each place to the next is sorted throughout.                *)
LEMMA InOrder ==
    ASSUME NEW c \in Nat, NEW S, NEW k \in [S -> Int], NEW list, Sorted(list, c, S, k),
           NEW m \in 1 .. c, NEW n \in 1 .. c
    PROVE  m < n <=> k[list[m]] < k[list[n]]
<1> DEFINE At == [x \in 1 .. c |-> k[list[x]]]
<1>1. At \in [1 .. c -> Int] /\ \A x \in 1 .. c - 1 : At[x] < At[x + 1]
    <2>1. \A x \in 1 .. c : At[x] \in Int
        BY DEF Sorted
    <2>2. ASSUME NEW x \in 1 .. c - 1 PROVE At[x] < At[x + 1]
        <3>1. x \in 1 .. c /\ x + 1 \in 1 .. c
            OBVIOUS
        <3> QED
            BY <3>1 DEF Sorted
    <2> QED
        BY <2>1, <2>2
<1>2. At[m] = k[list[m]] /\ At[n] = k[list[n]]
    OBVIOUS
<1> HIDE DEF At
<1>3. ASSUME NEW a \in 1 .. c, NEW b \in 1 .. c, a < b PROVE At[a] < At[b]
    <2> DEFINE D == {x \in 1 .. c : a < x /\ ~(At[a] < At[x])}
    <2> SUFFICES ASSUME D # {} PROVE FALSE
        BY <1>3
    <2>1. PICK x \in D : \A y \in D : x <= y
        <3>1. D \in SUBSET Nat
            OBVIOUS
        <3> HIDE DEF D
        <3> QED
            BY <3>1, LeastNumber
    <2>2. x \in 1 .. c /\ a < x /\ ~(At[a] < At[x]) /\ x - 1 \in 1 .. c - 1 /\ (x - 1) + 1 = x
        OBVIOUS
    <2>3. At[x - 1] < At[x]
        BY <1>1, <2>2
    <2>4. a = x - 1 \/ At[a] < At[x - 1]
        <3>1. x - 1 \in 1 .. c /\ ~(x <= x - 1)
            BY <2>2
        <3> QED
            BY <2>1, <2>2, <3>1
    <2>5. x - 1 \in 1 .. c /\ At[a] \in Int /\ At[x] \in Int /\ At[x - 1] \in Int
        BY <1>1, <2>2
    <2>6. At[a] < At[x]
        <3>1. CASE a = x - 1
            BY <2>3, <3>1
        <3>2. CASE At[a] < At[x - 1]
            BY <2>3, <2>5, <3>2
        <3> QED
            BY <2>4, <3>1, <3>2
    <2> QED
        BY <2>2, <2>6
<1>4. m < n => At[m] < At[n]
    BY <1>3
<1>5. n < m => At[n] < At[m]
    BY <1>3
<1>6. At[m] \in Int /\ At[n] \in Int /\ (m < n \/ m = n \/ n < m)
    BY <1>1
<1> QED
    BY <1>2, <1>4, <1>5, <1>6

LEMMA PlaceIs ==
    ASSUME NEW c \in Nat, NEW S, NEW k \in [S -> Int], NEW list, Sorted(list, c, S, k),
           NEW m \in 1 .. c
    PROVE  PlaceOf(list, list[m]) = m
<1>1. DOMAIN list = 1 .. c
    BY DEF Sorted
<1>2. ASSUME NEW n \in 1 .. c, list[n] = list[m] PROVE n = m
    <2>1. k[list[m]] \in Int
        BY DEF Sorted
    <2>2. ~(m < n) /\ ~(n < m)
        BY <1>2, <2>1, InOrder
    <2> QED
        BY <2>2
<1> QED
    BY <1>1, <1>2 DEF PlaceOf

(* The items before a place are as many as there are places before it.     *)
FirstOf(list, e) == {list[m] : m \in 1 .. e - 1}

LEMMA Prefix ==
    ASSUME NEW c \in Nat, NEW S, NEW k \in [S -> Int], NEW list, Sorted(list, c, S, k),
           NEW e \in 1 .. c + 1
    PROVE  IsFiniteSet(FirstOf(list, e)) /\ Cardinality(FirstOf(list, e)) = e - 1
<1> DEFINE Before == {list[m] : m \in 1 .. e - 1}
           f == [m \in 1 .. e - 1 |-> list[m]]
<1>1. \A m \in 1 .. e - 1 : m \in 1 .. c
    OBVIOUS
<1>2. ASSUME NEW x \in 1 .. e - 1, NEW y \in 1 .. e - 1, f[x] = f[y] PROVE x = y
    <2>1. PlaceOf(list, list[x]) = x /\ PlaceOf(list, list[y]) = y
        BY <1>1, PlaceIs
    <2> QED
        BY <1>2, <2>1
<1>3. f \in Bijection(1 .. e - 1, Before)
    <2>1. f \in [1 .. e - 1 -> Before] /\ \A o \in Before : \E m \in 1 .. e - 1 : f[m] = o
        OBVIOUS
    <2> HIDE DEF f, Before
    <2>2. f \in Injection(1 .. e - 1, Before)
        BY <1>2, <2>1 DEF Injection, IsInjective
    <2>3. f \in Surjection(1 .. e - 1, Before)
        BY <2>1 DEF Surjection
    <2> QED
        BY <2>2, <2>3 DEF Bijection
<1>4. IsFiniteSet(1 .. e - 1) /\ Cardinality(1 .. e - 1) = e - 1
    BY FS_Interval
<1> HIDE DEF f, Before
<1>5. IsFiniteSet(Before) /\ Cardinality(Before) = e - 1
    BY <1>3, <1>4, FS_Bijection DEF ExistsBijection
<1> QED
    BY <1>5 DEF Before, FirstOf

(* Give one item, of place n, the key of a place between e - 1 and e: that *)
(* is where it is found, whatever list the new keys allow.                 *)
LEMMA LandsBetween ==
    ASSUME NEW c \in Nat, NEW S, NEW k \in [S -> Int], NEW k2 \in [S -> Int],
           NEW list, Sorted(list, c, S, k), NEW after, Sorted(after, c, S, k2),
           NEW n \in 1 .. c, \A o \in S : o # list[n] => k2[o] = k[o],
           NEW e \in 1 .. c + 1,
           \A x \in 1 .. c : x # n => (k[list[x]] < k2[list[n]] <=> x < e)
    PROVE  after[IF n < e THEN e - 1 ELSE e] = list[n]
<1> DEFINE i == list[n]
           First == FirstOf(list, e)
           q == IF n < e THEN e - 1 ELSE e
<1>1. i \in S /\ list \in [1 .. c -> S]
    BY DEF Sorted
<1>2. PICK p \in 1 .. c : after[p] = i
    BY <1>1 DEF Sorted
<1>3. Cardinality(FirstOf(after, p)) = p - 1
    <2>1. p \in 1 .. c + 1
        BY <1>2
    <2> QED
        BY <2>1, Prefix
<1>4. FirstOf(after, p) = {o \in S : k2[o] < k2[i]}
    <2>1. ASSUME NEW m \in 1 .. p - 1 PROVE after[m] \in S /\ k2[after[m]] < k2[i]
        <3>1. m \in 1 .. c /\ m < p
            OBVIOUS
        <3>2. k2[after[m]] < k2[after[p]]
            BY <3>1, InOrder
        <3> QED
            BY <1>2, <3>1, <3>2 DEF Sorted
    <2>2. ASSUME NEW o \in S, k2[o] < k2[i] PROVE \E m \in 1 .. p - 1 : after[m] = o
        <3>1. PICK m \in 1 .. c : after[m] = o
            BY DEF Sorted
        <3>2. m < p
            <4>1. k2[after[m]] < k2[after[p]]
                BY <1>2, <2>2, <3>1
            <4> QED
                BY <4>1, InOrder
        <3> QED
            BY <3>1, <3>2
    <2> QED
        BY <2>1, <2>2 DEF FirstOf
<1>5. {o \in S : k2[o] < k2[i]} = First \ {i}
    <2>1. ASSUME NEW o \in S PROVE k2[o] < k2[i] <=> o \in First /\ o # i
        <3>1. PICK x \in 1 .. c : list[x] = o
            BY DEF Sorted
        <3>2. o \in First <=> x < e
            <4>1. x < e => x \in 1 .. e - 1
                OBVIOUS
            <4>2. ASSUME NEW m \in 1 .. e - 1, o = list[m] PROVE x = m
                <5>1. m \in 1 .. c
                    OBVIOUS
                <5>2. PlaceOf(list, list[m]) = m /\ PlaceOf(list, list[x]) = x
                    BY <5>1, PlaceIs
                <5> QED
                    BY <3>1, <4>2, <5>2
            <4> QED
                BY <3>1, <4>1, <4>2 DEF FirstOf
        <3>3. CASE o = i
            BY <1>1, <3>3
        <3>4. CASE o # i
            <4>1. k2[o] = k[o] /\ x # n
                BY <3>1, <3>4
            <4> QED
                BY <3>1, <3>2, <3>4, <4>1
        <3> QED
            BY <3>3, <3>4
    <2>2. First \subseteq S
        BY <1>1 DEF FirstOf
    <2> HIDE DEF First, i
    <2> QED
        BY <2>1, <2>2
<1>6. IsFiniteSet(First) /\ Cardinality(First) = e - 1
    BY Prefix
<1>7. i \in First <=> n < e
    <2>1. n < e => n \in 1 .. e - 1
        OBVIOUS
    <2>2. ASSUME NEW m \in 1 .. e - 1, i = list[m] PROVE n = m
        <3>1. m \in 1 .. c
            OBVIOUS
        <3>2. PlaceOf(list, list[m]) = m /\ PlaceOf(list, list[n]) = n
            BY <3>1, PlaceIs
        <3> QED
            BY <2>2, <3>2
    <2> QED
        BY <2>1, <2>2 DEF FirstOf
<1> HIDE DEF First, i
<1>8. Cardinality(First \ {i}) = IF i \in First THEN Cardinality(First) - 1 ELSE Cardinality(First)
    BY <1>6, FS_RemoveElement
<1>9. p - 1 = IF n < e THEN e - 2 ELSE e - 1
    <2>1. Cardinality(First \ {i}) = p - 1
        BY <1>3, <1>4, <1>5
    <2>2. CASE n < e
        BY <1>6, <1>7, <1>8, <2>1, <2>2
    <2>3. CASE ~(n < e)
        BY <1>6, <1>7, <1>8, <2>1, <2>3
    <2> QED
        BY <2>2, <2>3
<1>10. p = q
    BY <1>9
<1> QED
    BY <1>2, <1>10 DEF i

(* It lies before the place its button says: the midpoint of two different *)
(* keys is one of them or between them.                                    *)
LEMMA Midpoint ==
    ASSUME NEW a \in Int, NEW b \in Int, a < b
    PROVE  /\ (a + b) \div 2 \in Int
           /\ a <= (a + b) \div 2 /\ (a + b) \div 2 < b
    OBVIOUS

(* The keys of a list in increasing order; a key that none of the others   *)
(* has; the place among the others where that key falls.                   *)
Increasing(At, c) ==
    /\ At \in [1 .. c -> Int]
    /\ \A x, y \in 1 .. c : x < y <=> At[x] < At[y]

NewKey(key, At, c, n) == \A x \in 1 .. c : x # n => At[x] # key

Falls(key, At, c, n, e) == \A x \in 1 .. c : x # n => (At[x] < key <=> x < e)

LEMMA PlaceAimedAt ==
    ASSUME NEW c \in Nat, NEW At, Increasing(At, c),
           NEW n \in 1 .. c, NEW key \in Int, NewKey(key, At, c, n),
           NEW dir \in Dirs, Aims(key, At, c, n, dir)
    PROVE  \E e \in 1 .. c + 1 :
              /\ Falls(key, At, c, n, e)
              /\ Target(n, c, dir) = IF n < e THEN e - 1 ELSE e
<1> SUFFICES ASSUME At \in [1 .. c -> Int], \A x, y \in 1 .. c : x < y <=> At[x] < At[y],
                    \A x \in 1 .. c : x # n => At[x] # key
             PROVE  \E e \in 1 .. c + 1 :
                       /\ \A x \in 1 .. c : x # n => (At[x] < key <=> x < e)
                       /\ Target(n, c, dir) = IF n < e THEN e - 1 ELSE e
    BY DEF Increasing, NewKey, Falls
<1>1. 1 \in 1 .. c /\ c \in 1 .. c /\ 1 \in 1 .. c + 1 /\ c + 1 \in 1 .. c + 1 /\ KeyGap = 100
    BY DEF KeyGap
<1>2. \A x, y \in 1 .. c : x <= y => At[x] <= At[y]
    <2> TAKE x \in 1 .. c
    <2> TAKE y \in 1 .. c
    <2>1. At[x] \in Int /\ At[y] \in Int /\ (y < x <=> At[y] < At[x])
        OBVIOUS
    <2> QED
        BY <2>1
<1>3. ASSUME key = At[1] - KeyGap
      PROVE  \A x \in 1 .. c : x # n => (At[x] < key <=> x < 1)
    <2> TAKE x \in 1 .. c
    <2>1. At[1] <= At[x] /\ At[1] \in Int /\ At[x] \in Int
        BY <1>1, <1>2
    <2> QED
        BY <1>1, <1>3, <2>1
<1>4. ASSUME key = At[c] + KeyGap
      PROVE  \A x \in 1 .. c : x # n => (At[x] < key <=> x < c + 1)
    <2> TAKE x \in 1 .. c
    <2>1. At[x] <= At[c] /\ At[c] \in Int /\ At[x] \in Int
        BY <1>1, <1>2
    <2> QED
        BY <1>1, <1>4, <2>1
<1>5. ASSUME NEW m \in 1 .. c, m + 1 \in 1 .. c, m # n, m + 1 # n,
             key = (At[m] + At[m + 1]) \div 2
      PROVE  \A x \in 1 .. c : x # n => (At[x] < key <=> x < m + 1)
    <2>1. At[m] \in Int /\ At[m + 1] \in Int /\ At[m] < At[m + 1]
        BY <1>5
    <2>2. At[m] <= key /\ key < At[m + 1]
        BY <1>5, <2>1, Midpoint
    <2>3. At[m] < key
        BY <1>5, <2>1, <2>2
    <2> TAKE x \in 1 .. c
    <2>4. x <= m \/ m + 1 <= x
        OBVIOUS
    <2>5. x <= m => At[x] <= At[m]
        BY <1>2
    <2>6. m + 1 <= x => At[m + 1] <= At[x]
        BY <1>2, <1>5
    <2>7. At[x] \in Int
        OBVIOUS
    <2>8. CASE x <= m
        BY <2>1, <2>3, <2>5, <2>7, <2>8
    <2>9. CASE m + 1 <= x
        BY <2>1, <2>2, <2>6, <2>7, <2>9
    <2> QED
        BY <2>4, <2>8, <2>9
<1>6. CASE dir = "top"
    <2>1. \A x \in 1 .. c : x # n => (At[x] < key <=> x < 1)
        BY <1>3, <1>6 DEF Aims
    <2>2. Target(n, c, dir) = 1 /\ ~(n < 1)
        BY <1>6 DEF Target
    <2> QED
        BY <1>1, <2>1, <2>2
<1>7. CASE dir = "bottom"
    <2>1. \A x \in 1 .. c : x # n => (At[x] < key <=> x < c + 1)
        BY <1>4, <1>7 DEF Aims
    <2>2. Target(n, c, dir) = c /\ n < c + 1 /\ (c + 1) - 1 = c
        BY <1>7 DEF Target
    <2> QED
        BY <1>1, <2>1, <2>2
<1>8. CASE dir = "up" /\ n = 1
    <2>1. Target(n, c, dir) = n /\ n \in 1 .. c + 1 /\ ~(n < n)
        BY <1>8 DEF Target
    <2>2. key = At[n]
        BY <1>8 DEF Aims
    <2> QED
        BY <2>1, <2>2
<1>9. CASE dir = "up" /\ n = 2
    <2>1. \A x \in 1 .. c : x # n => (At[x] < key <=> x < 1)
        BY <1>3, <1>9 DEF Aims
    <2>2. Target(n, c, dir) = 1 /\ ~(n < 1)
        BY <1>9 DEF Target
    <2> QED
        BY <1>1, <2>1, <2>2
<1>10. CASE dir = "up" /\ n > 2
    <2> DEFINE m == n - 2
    <2>1. m \in 1 .. c /\ m + 1 \in 1 .. c /\ m # n /\ m + 1 # n /\ m + 1 = n - 1
        BY <1>10
    <2>2. key = (At[m] + At[m + 1]) \div 2
        BY <1>10, <2>1 DEF Aims
    <2>3. Target(n, c, dir) = m + 1 /\ ~(n < m + 1) /\ m + 1 \in 1 .. c + 1
        BY <1>10, <2>1 DEF Target
    <2> HIDE DEF m
    <2>4. \A x \in 1 .. c : x # n => (At[x] < key <=> x < m + 1)
        BY <1>5, <2>1, <2>2
    <2> QED
        BY <2>3, <2>4
<1>11. CASE dir = "down" /\ n = c
    <2>1. Target(n, c, dir) = n /\ n \in 1 .. c + 1 /\ ~(n < n)
        BY <1>11 DEF Target
    <2>2. key = At[n]
        BY <1>11 DEF Aims
    <2> QED
        BY <2>1, <2>2
<1>12. CASE dir = "down" /\ n = c - 1
    <2>1. \A x \in 1 .. c : x # n => (At[x] < key <=> x < c + 1)
        BY <1>4, <1>12 DEF Aims
    <2>2. Target(n, c, dir) = c /\ n < c + 1 /\ (c + 1) - 1 = c
        BY <1>12 DEF Target
    <2> QED
        BY <1>1, <2>1, <2>2
<1>13. CASE dir = "down" /\ n < c - 1
    <2> DEFINE m == n + 1
    <2>1. m \in 1 .. c /\ m + 1 \in 1 .. c /\ m # n /\ m + 1 # n /\ m + 1 = n + 2
        BY <1>13
    <2>2. key = (At[m] + At[m + 1]) \div 2
        BY <1>13, <2>1 DEF Aims
    <2>3. Target(n, c, dir) = m /\ n < m + 1 /\ m + 1 \in 1 .. c + 1 /\ (m + 1) - 1 = m
        BY <1>13, <2>1 DEF Target
    <2> HIDE DEF m
    <2>4. \A x \in 1 .. c : x # n => (At[x] < key <=> x < m + 1)
        BY <1>5, <2>1, <2>2
    <2> QED
        BY <2>3, <2>4
<1>14. dir \in {"top", "bottom", "up", "down"} /\ n >= 1 /\ n <= c
    BY DEF Dirs
<1> QED
    BY <1>6, <1>7, <1>8, <1>9, <1>10, <1>11, <1>12, <1>13, <1>14

-----------------------------------------------------------------------------
(* The lists of a board on which no two keys are equal.                    *)
Keys(b, day) == [o \in Items(b, day) |-> EffectiveKey(b, day, o)]

Distinct(b, day) ==
    \A i, j \in Items(b, day) : i # j => EffectiveKey(b, day, i) # EffectiveKey(b, day, j)

LEMMA ListIsSorted ==
    ASSUME NEW b \in BoardRows, NEW day \in Days, Distinct(b, day),
           NEW list \in DayLists(b, day)
    PROVE  /\ Keys(b, day) \in [Items(b, day) -> Int]
           /\ Sorted(list, Len(list), Items(b, day), Keys(b, day))
<1> DEFINE S == Items(b, day)
           K == Keys(b, day)
           c == Len(list)
<1>1. K \in [S -> Int] /\ \A o \in S : K[o] = EffectiveKey(b, day, o)
    BY KeyIsNumber DEF Keys
<1>2. /\ c \in Nat /\ list \in [1 .. c -> S]
      /\ \A m, n \in 1 .. c : m # n => list[m] # list[n]
      /\ \A i \in S : \E n \in 1 .. c : list[n] = i
    BY ListIs
<1>3. \A n \in 1 .. c - 1 :
          \/ EffectiveKey(b, day, list[n]) < EffectiveKey(b, day, list[n + 1])
          \/ EffectiveKey(b, day, list[n]) = EffectiveKey(b, day, list[n + 1])
    BY DEF DayLists
<1>4. ASSUME NEW n \in 1 .. c - 1 PROVE K[list[n]] < K[list[n + 1]]
    <2>1. n \in 1 .. c /\ n + 1 \in 1 .. c /\ n # n + 1
        BY <1>2
    <2>2. list[n] \in S /\ list[n + 1] \in S /\ list[n] # list[n + 1]
        BY <1>2, <2>1
    <2>3. EffectiveKey(b, day, list[n]) # EffectiveKey(b, day, list[n + 1])
        BY <2>2 DEF Distinct
    <2>4. EffectiveKey(b, day, list[n]) < EffectiveKey(b, day, list[n + 1])
        BY <1>3, <2>3
    <2> QED
        BY <1>1, <2>2, <2>4
<1> HIDE DEF S, K, c
<1>5. Sorted(list, c, S, K)
    BY <1>2, <1>4 DEF Sorted
<1> QED
    BY <1>1, <1>5 DEF S, K, c

(* Writing a key to one item changes nothing a list is made from, except   *)
(* that key.                                                               *)
LEMMA MovedBoard ==
    ASSUME NEW b \in BoardRows, NEW day \in Days, NEW i \in Items(b, day), i \in Movables,
           NEW key \in Int, NEW c, c = Place(b, i, key)
    PROVE  /\ Items(c, day) = Items(b, day)
           /\ \A o \in Items(b, day) : o # i => EffectiveKey(c, day, o) = EffectiveKey(b, day, o)
           /\ EffectiveKey(c, day, i) = key
<1>1. key # NoRow
    BY AgendaAssumption
<1>2. CASE i.kind = "task"
    <2> DEFINE row == b.task[i.id]
               new == [row EXCEPT !.key = key]
    <2>1. i.id \in Tasks /\ row # NoRow /\ row \in TaskRows
        BY <1>2, BoardFacts DEF Items, DayTasks, Open
    <2>2. /\ new.due = row.due /\ new.planned = row.planned /\ new.done = row.done
          /\ new.archived = row.archived /\ new.vital = row.vital /\ new.time = row.time
          /\ new.key = key /\ new # NoRow
        <3>1. /\ new.due = row.due /\ new.planned = row.planned /\ new.done = row.done
              /\ new.archived = row.archived /\ new.vital = row.vital /\ new.time = row.time
              /\ new.key = key /\ new \in TaskRows
            BY <2>1 DEF TaskRows
        <3> QED
            BY <3>1, RowFacts
    <2>3. c = [b EXCEPT !.task[i.id] = new]
        BY <1>2 DEF Place
    <2> HIDE DEF row, new
    <2>4. /\ c.tracker = b.tracker
          /\ \A j \in Tasks : c.task[j] = IF j = i.id THEN new ELSE b.task[j]
        BY <2>1, <2>3 DEF BoardRows
    <2>5. \A j \in Tasks : /\ c.task[j] = NoRow <=> b.task[j] = NoRow
                           /\ b.task[j] # NoRow =>
                                 /\ c.task[j].due = b.task[j].due
                                 /\ c.task[j].planned = b.task[j].planned
                                 /\ c.task[j].done = b.task[j].done
                                 /\ c.task[j].archived = b.task[j].archived
                                 /\ c.task[j].vital = b.task[j].vital
                                 /\ c.task[j].time = b.task[j].time
        BY <2>1, <2>2, <2>4 DEF row
    <2>6. Open(c) = Open(b)
        BY <2>5 DEF Open
    <2>7. \A j \in Open(b) : /\ OverdueDays(c.task[j], day) = OverdueDays(b.task[j], day)
                             /\ TaskDay(c.task[j]) = TaskDay(b.task[j])
                             /\ c.task[j].vital = b.task[j].vital
        BY <2>5 DEF Open, OverdueDays, TaskDay
    <2>8. DayTasks(c, day) = DayTasks(b, day)
        BY <2>6, <2>7 DEF DayTasks, Overdue
    <2>9. DayTrackers(c, day) = DayTrackers(b, day)
        BY <2>4 DEF DayTrackers
    <2>10. \A o \in Items(b, day) : o.kind = "task" => o.id \in Tasks /\ b.task[o.id] # NoRow
        BY DEF Items, DayTasks, Open
    <2>11. \A o \in Items(b, day) : DefaultKey(c, day, o) = DefaultKey(b, day, o)
        BY <2>4, <2>5, <2>10 DEF Items, DefaultKey
    <2>12. ASSUME NEW o \in Items(b, day), o # i PROVE ManualKey(c, o) = ManualKey(b, o)
        <3>1. CASE o.kind = "task"
            <4>1. o.id # i.id
                BY <1>2, <2>12, <3>1 DEF Items
            <4> QED
                BY <2>4, <2>10, <3>1, <4>1 DEF ManualKey
        <3>2. CASE o.kind # "task"
            BY <2>4, <3>2 DEF ManualKey
        <3> QED
            BY <3>1, <3>2
    <2>13. ManualKey(c, i) = key
        BY <1>2, <2>1, <2>2, <2>4 DEF ManualKey
    <2> QED
        BY <1>1, <2>8, <2>9, <2>11, <2>12, <2>13 DEF Items, EffectiveKey
<1>3. CASE i.kind = "tracker"
    <2> DEFINE row == b.tracker[i.id]
               new == [row EXCEPT !.key = key]
    <2>1. i.id \in Trackers /\ row # NoRow /\ row \in TrackerRows
        BY <1>3, BoardFacts DEF Items, DayTrackers
    <2>2. /\ new.limit = row.limit /\ new.shown = row.shown /\ new.days = row.days
          /\ new.last = row.last /\ new.since = row.since
          /\ new.key = key /\ new # NoRow
        <3>1. /\ new.limit = row.limit /\ new.shown = row.shown /\ new.days = row.days
              /\ new.last = row.last /\ new.since = row.since
              /\ new.key = key /\ new \in TrackerRows
            BY <2>1 DEF TrackerRows
        <3> QED
            BY <3>1, TrackerFacts
    <2>3. c = [b EXCEPT !.tracker[i.id] = new]
        BY <1>3 DEF Place
    <2> HIDE DEF row, new
    <2>4. /\ c.task = b.task
          /\ \A j \in Trackers : c.tracker[j] = IF j = i.id THEN new ELSE b.tracker[j]
        BY <2>1, <2>3 DEF BoardRows
    <2>5. \A j \in Trackers : /\ c.tracker[j] = NoRow <=> b.tracker[j] = NoRow
                              /\ b.tracker[j] # NoRow =>
                                    /\ c.tracker[j].shown = b.tracker[j].shown
                                    /\ Status(c.tracker[j], day) = Status(b.tracker[j], day)
        BY <2>1, <2>2, <2>4 DEF row, Status
    <2>6. DayTasks(c, day) = DayTasks(b, day)
        BY <2>4 DEF DayTasks, Overdue, Open
    <2>7. DayTrackers(c, day) = DayTrackers(b, day)
        BY <2>5 DEF DayTrackers
    <2>8. \A o \in Items(b, day) : o.kind = "tracker" => o.id \in Trackers /\ b.tracker[o.id] # NoRow
        BY DEF Items, DayTrackers
    <2>9. \A o \in Items(b, day) : DefaultKey(c, day, o) = DefaultKey(b, day, o)
        BY <2>4, <2>5, <2>8 DEF Items, DefaultKey
    <2>10. ASSUME NEW o \in Items(b, day), o # i PROVE ManualKey(c, o) = ManualKey(b, o)
        <3>1. CASE o.kind = "tracker"
            <4>1. o.id # i.id
                BY <1>3, <2>10, <3>1 DEF Items
            <4> QED
                BY <2>4, <2>8, <3>1, <4>1 DEF ManualKey
        <3>2. CASE o.kind # "tracker"
            BY <2>4, <3>2 DEF ManualKey
        <3> QED
            BY <3>1, <3>2
    <2>11. ManualKey(c, i) = key
        BY <1>3, <2>1, <2>2, <2>4 DEF ManualKey
    <2> QED
        BY <1>1, <2>6, <2>7, <2>9, <2>10, <2>11 DEF Items, EffectiveKey
<1> QED
    BY <1>2, <1>3 DEF Movables

-----------------------------------------------------------------------------
(* What a move that nothing overlapped knows when it commits: the list it  *)
(* computed its key from is a list of the rows as they still are.          *)
MoveOK(x, b, day) ==
    x.step = "move" /\ x.alone =>
        /\ x.ask.dir \in Dirs
        /\ x.ask.item \in Items(b, day)
        /\ x.had = ManualKey(b, x.ask.item)
        /\ \E list \in DayLists(b, day) :
              /\ x.new = MovedKey(b, day, list, x.ask.item, x.ask.dir)
              /\ x.seen = PlaceOf(list, x.ask.item)

MoveInv == AgendaInv /\ \A t \in Threads : MoveOK(req[t], board, today)

LEMMA IdleMove ==
    ASSUME NEW b, NEW day
    PROVE  MoveOK(Idle, b, day)
    BY DEF MoveOK, Idle

(* A thread that commits or gives up was not overlapped by a lone one.     *)
LEMMA EndsAlone ==
    ASSUME MoveInv, NEW t \in Threads, req[t].step # "idle",
           req' = [req EXCEPT ![t] = Idle], today' = today,
           NEW u \in Threads
    PROVE  MoveOK(req'[u], board', today')
<1>1. req'[u] = IF u = t THEN Idle ELSE req[u]
    BY DEF MoveInv, AgendaInv, TypeOK
<1>2. CASE u = t
    BY <1>1, <1>2, IdleMove
<1>3. CASE u # t
    <2>1. ~(req[u].step = "move" /\ req[u].alone)
        BY <1>3 DEF MoveInv, AgendaInv, OneAlone
    <2> QED
        BY <1>1, <1>3, <2>1 DEF MoveOK
<1> QED
    BY <1>2, <1>3

(* A request that sends its row is not a move, and no move is alone then.  *)
LEMMA SentMove ==
    ASSUME MoveInv, NEW t \in Threads, Flush(t), NEW u \in Threads
    PROVE  MoveOK(req'[u], board', today')
<1>1. CASE Rollback(t)
    BY <1>1, EndsAlone DEF Flush, Rollback
<1>2. CASE ~Rollback(t)
    <2> DEFINE y == [req[t] EXCEPT !.step = "flushed",
                       !.new = Merged(req[t].new, req[t].had, board.task[req[t].ask.k]),
                       !.id = ids[req[t].ask.k] + 1]
    <2>1. /\ req' = [req EXCEPT ![t] = y] /\ board' = board /\ today' = today
          /\ req[t].step = "task"
        BY <1>2 DEF Flush
    <2>2. y.step = "flushed"
        BY TypesOfRequests DEF MoveInv, AgendaInv, RequestType, Idle
    <2> HIDE DEF y
    <2>3. req'[u] = IF u = t THEN y ELSE req[u]
        BY <2>1 DEF MoveInv, AgendaInv, TypeOK
    <2> QED
        BY <2>1, <2>2, <2>3 DEF MoveInv, MoveOK
<1> QED
    BY <1>1, <1>2

LEMMA NotAloneMove ==
    ASSUME MoveInv, NEW u \in Threads, req'[u] = [req[u] EXCEPT !.alone = FALSE]
    PROVE  MoveOK(req'[u], board', today')
<1>1. req'[u].alone = FALSE
    BY TypesOfRequests, AloneChanged DEF MoveInv, AgendaInv
<1> QED
    BY <1>1 DEF MoveOK

LEMMA BeginsMove ==
    ASSUME MoveInv, NEW t \in Threads, NEW r, Begin(t, r),
           MoveOK([r EXCEPT !.alone = \A v \in Threads : req[v].step = "idle"], board, today),
           NEW u \in Threads
    PROVE  MoveOK(req'[u], board', today')
<1>1. /\ board' = board /\ today' = today
      /\ req'[u] = IF u = t THEN [r EXCEPT !.alone = \A v \in Threads : req[v].step = "idle"]
                   ELSE [req[u] EXCEPT !.alone = FALSE]
    BY DEF Begin
<1>2. CASE u = t
    BY <1>1, <1>2
<1>3. CASE u # t
    BY <1>1, <1>3, NotAloneMove
<1> QED
    BY <1>2, <1>3

LEMMA OtherLoadsMove ==
    ASSUME MoveInv, NEW t \in Threads, NEW r, Begin(t, r), r.step # "move",
           DOMAIN r = DOMAIN Idle, NEW u \in Threads
    PROVE  MoveOK(req'[u], board', today')
<1> DEFINE y == [r EXCEPT !.alone = \A v \in Threads : req[v].step = "idle"]
<1>1. y.step = r.step
    BY DEF Idle
<1> HIDE DEF y
<1>2. MoveOK(y, board, today)
    BY <1>1 DEF MoveOK
<1> QED
    BY <1>2, BeginsMove DEF y

LEMMA LoadMoveMove ==
    ASSUME MoveInv, NEW t \in Threads, NEW b \in MoveButtons, LoadMove(t, b),
           NEW u \in Threads
    PROVE  MoveOK(req'[u], board', today')
<1>1. /\ b.item \in Items(board, today) /\ b.dir \in Dirs
    BY DEF LoadMove, MoveButtons
<1>2. PICK list \in DayLists(board, today) :
          Begin(t, [Idle EXCEPT !.step = "move", !.ask = b,
                      !.had = ManualKey(board, b.item),
                      !.new = MovedKey(board, today, list, b.item, b.dir),
                      !.seen = PlaceOf(list, b.item)])
    BY DEF LoadMove
<1> DEFINE r == [Idle EXCEPT !.step = "move", !.ask = b,
                   !.had = ManualKey(board, b.item),
                   !.new = MovedKey(board, today, list, b.item, b.dir),
                   !.seen = PlaceOf(list, b.item)]
           y == [r EXCEPT !.alone = \A v \in Threads : req[v].step = "idle"]
<1>3. /\ y.ask = b /\ y.had = ManualKey(board, b.item)
      /\ y.new = MovedKey(board, today, list, b.item, b.dir)
      /\ y.seen = PlaceOf(list, b.item)
    BY DEF Idle
<1> HIDE DEF y
<1>4. MoveOK(y, board, today)
    BY <1>1, <1>3 DEF MoveOK
<1> HIDE DEF r
<1>5. Begin(t, r)
    BY <1>2 DEF r
<1> QED
    BY <1>4, <1>5, BeginsMove DEF y

LEMMA MoveInductive == MoveInv /\ [Next]_vars => MoveInv'
<1> SUFFICES ASSUME MoveInv, [Next]_vars, NEW u \in Threads
             PROVE  MoveOK(req'[u], board', today')
    BY StepKeeps DEF MoveInv
<1>1. ASSUME NEW t \in Threads, Unseen(t) PROVE MoveOK(req'[u], board', today')
    BY <1>1, NotAloneMove DEF Unseen
<1>2. ASSUME NEW t \in Threads, req[t].step # "idle", Rollback(t)
      PROVE  MoveOK(req'[u], board', today')
    BY <1>2, EndsAlone DEF Rollback
<1>3. ASSUME NEW t \in Threads, req[t].step # "idle", NEW b, NEW l, Commit(t, b, l)
      PROVE  MoveOK(req'[u], board', today')
    BY <1>3, EndsAlone DEF Commit
<1>4. ASSUME NEW t \in Threads, NEW b \in Buttons \cap DateButtons, NEW vital \in BOOLEAN,
             AddTask(t, b.k, b.kind, b.date, b.time, vital)
      PROVE  MoveOK(req'[u], board', today')
    BY <1>1, <1>4 DEF AddTask
<1>5. ASSUME NEW t \in Threads, NEW b, Load(t, b)
      PROVE  MoveOK(req'[u], board', today')
    <2> DEFINE r == [Idle EXCEPT !.step = "task", !.ask = b, !.had = board.task[b.k],
                       !.new = [Edited(b, board.task[b.k]) EXCEPT !.touched = today],
                       !.event = EventOf(b, board.task[b.k])]
    <2>1. Begin(t, r)
        BY <1>5 DEF Load
    <2>2. r.step = "task" /\ DOMAIN r = DOMAIN Idle
        BY DEF Idle
    <2> HIDE DEF r
    <2> QED
        BY <2>1, <2>2, OtherLoadsMove
<1>6. ASSUME NEW t \in Threads, NEW b, LoadDelete(t, b)
      PROVE  MoveOK(req'[u], board', today')
    <2> DEFINE r == [Idle EXCEPT !.step = "delete", !.ask = b, !.had = board.task[b.k],
                       !.rows = log[b.k]]
    <2>1. Begin(t, r)
        BY <1>6 DEF LoadDelete
    <2>2. r.step = "delete" /\ DOMAIN r = DOMAIN Idle
        BY DEF Idle
    <2> HIDE DEF r
    <2> QED
        BY <2>1, <2>2, OtherLoadsMove
<1>7. ASSUME NEW t \in Threads, NEW b \in Buttons \cap MoveButtons, LoadMove(t, b)
      PROVE  MoveOK(req'[u], board', today')
    BY <1>7, LoadMoveMove
<1>8. ASSUME NEW t \in Threads, NEW k \in Trackers, Tick(t, k)
      PROVE  MoveOK(req'[u], board', today')
    BY <1>1, <1>8 DEF Tick
<1>9. ASSUME NEW t \in Threads, LoadReset(t)
      PROVE  MoveOK(req'[u], board', today')
    <2>1. PICK r : Begin(t, r) /\ r.step = "reset" /\ DOMAIN r = DOMAIN Idle
        <3> DEFINE rows == [kind : {"task"}, id : {k \in Tasks :
                              board.task[k] # NoRow /\ board.task[k].key # NoRow}]
                           \cup [kind : {"tracker"}, id : {k \in Trackers :
                              board.tracker[k] # NoRow /\ board.tracker[k].key # NoRow}]
                   r == [Idle EXCEPT !.step = "reset", !.rows = rows]
        <3>1. Begin(t, r)
            BY <1>9 DEF LoadReset
        <3> HIDE DEF rows
        <3>2. r.step = "reset" /\ DOMAIN r = DOMAIN Idle
            BY DEF Idle
        <3> HIDE DEF r
        <3> QED
            BY <3>1, <3>2
    <2> QED
        BY <2>1, OtherLoadsMove
<1>10. ASSUME NEW t \in Threads, CommitTask(t)
       PROVE  MoveOK(req'[u], board', today')
    BY <1>10, <1>3 DEF CommitTask
<1>11. ASSUME NEW t \in Threads, CommitDelete(t)
       PROVE  MoveOK(req'[u], board', today')
    BY <1>11, <1>3 DEF CommitDelete
<1>12. ASSUME NEW t \in Threads, DeleteRefused(t) \/ Die(t)
       PROVE  MoveOK(req'[u], board', today')
    BY <1>12, <1>2 DEF DeleteRefused, Die
<1>13. ASSUME NEW t \in Threads, CommitMove(t)
       PROVE  MoveOK(req'[u], board', today')
    BY <1>13, <1>2, <1>3 DEF CommitMove
<1>14. ASSUME NEW t \in Threads, CommitReset(t)
       PROVE  MoveOK(req'[u], board', today')
    BY <1>14, <1>2, <1>3 DEF CommitReset
<1>15. CASE NextDay
    BY <1>15, NotAloneMove DEF NextDay
<1>16. CASE UNCHANGED vars
    BY <1>16 DEF vars, MoveInv
<1>17. ASSUME NEW t \in Threads, Flush(t)
       PROVE  MoveOK(req'[u], board', today')
    BY <1>17, SentMove
<1> QED
    BY <1>4, <1>5, <1>6, <1>7, <1>8, <1>9, <1>10, <1>11, <1>12, <1>13, <1>14, <1>15, <1>16, <1>17
       DEF Next

LEMMA MoveInvariant == Spec => []MoveInv
<1>1. Init => MoveInv
    <2> SUFFICES ASSUME Init PROVE MoveInv
        OBVIOUS
    <2>1. \A t \in Threads : req[t] = Idle
        BY DEF Init
    <2> QED
        BY <2>1, InitOK, IdleMove DEF MoveInv
<1> QED
    BY <1>1, MoveInductive, PTL DEF Spec

(* The rows a lone move leaves, and the keys its day's list is sorted by.  *)
LEMMA MoveCommits ==
    ASSUME MoveInv, NEW t \in Threads, CommitMove(t), req[t].alone
    PROVE  /\ board \in BoardRows /\ today \in Days /\ board' \in BoardRows /\ today' = today
           /\ req[t].ask.dir \in Dirs /\ req[t].ask.item \in Items(board, today)
           /\ req[t].new \in Int
           /\ Items(board', today) = Items(board, today)
           /\ \A o \in Items(board, today) : o # req[t].ask.item =>
                 EffectiveKey(board', today, o) = EffectiveKey(board, today, o)
           /\ EffectiveKey(board', today, req[t].ask.item) = req[t].new
           /\ \E list \in DayLists(board, today) :
                 /\ req[t].new = MovedKey(board, today, list, req[t].ask.item, req[t].ask.dir)
                 /\ req[t].seen = PlaceOf(list, req[t].ask.item)
<1> DEFINE x == req[t]
           i == x.ask.item
<1>1. /\ x.step = "move" /\ x.new \in Int /\ i \in Movables
      /\ board \in BoardRows /\ today \in Days
    BY DEF CommitMove, MoveInv, AgendaInv, TypeOK, RequestOK
<1>2. /\ x.ask.dir \in Dirs /\ i \in Items(board, today) /\ x.had = ManualKey(board, i)
      /\ \E list \in DayLists(board, today) :
            /\ x.new = MovedKey(board, today, list, i, x.ask.dir)
            /\ x.seen = PlaceOf(list, i)
    BY <1>1 DEF MoveInv, MoveOK
<1>3. ~(i.kind = "task" /\ board.task[i.id] = NoRow)
    BY <1>2 DEF Items, DayTasks, Open
<1>4. Commit(t, IF x.new = x.had THEN board ELSE Place(board, i, x.new), log)
    BY <1>3 DEF CommitMove, Rollback, Commit
<1>5. board' = (IF x.new = x.had THEN board ELSE Place(board, i, x.new)) /\ today' = today
    BY <1>4 DEF Commit
<1>6. board' \in BoardRows
    <2>1. [Next]_vars
        BY DEF Next
    <2>2. TypeOK'
        BY <2>1, StepKeeps DEF MoveInv, AgendaInv
    <2> QED
        BY <2>2 DEF TypeOK
<1>7. /\ Items(board', today) = Items(board, today)
      /\ \A o \in Items(board, today) : o # i =>
            EffectiveKey(board', today, o) = EffectiveKey(board, today, o)
      /\ EffectiveKey(board', today, i) = x.new
    <2>1. CASE x.new = x.had
        <3>1. x.new # NoRow
            BY <1>1, AgendaAssumption
        <3>2. EffectiveKey(board, today, i) = x.new
            BY <1>2, <2>1, <3>1 DEF EffectiveKey
        <3> QED
            BY <1>5, <2>1, <3>2
    <2>2. CASE x.new # x.had
        <3>1. board' = Place(board, i, x.new)
            BY <1>5, <2>2
        <3> HIDE DEF x, i
        <3> QED
            BY <1>1, <1>2, <3>1, MovedBoard
    <2> QED
        BY <2>1, <2>2
<1> QED
    BY <1>1, <1>2, <1>5, <1>6, <1>7

(* A move that ran alone puts its item where its button says and leaves    *)
(* the others in their order, for any number of items, whatever keys they  *)
(* have, as long as no two are equal before it and after it.               *)
THEOREM LoneMovesLand == Spec => MoveLands
<1> DEFINE Body ==
      \A t \in Threads : (/\ CommitMove(t) /\ req[t].alone /\ NoTies(board) /\ NoTies(board)') =>
          \A list \in DayLists(board, today), after \in DayLists(board, today)' :
             LET i == req[t].ask.item
             IN  /\ after[Target(req[t].seen, Len(list), req[t].ask.dir)] = i
                 /\ \A o, p \in Items(board, today) \ {i} :
                       PlaceOf(list, o) < PlaceOf(list, p)
                         <=> PlaceOf(after, o) < PlaceOf(after, p)
<1>1. MoveInv /\ [Next]_vars => [Body]_vars
    <2> SUFFICES ASSUME MoveInv, NEW t \in Threads, CommitMove(t), req[t].alone,
                        NoTies(board), NoTies(board)',
                        NEW list \in DayLists(board, today),
                        NEW after \in DayLists(board, today)'
                 PROVE  LET i == req[t].ask.item
                        IN  /\ after[Target(req[t].seen, Len(list), req[t].ask.dir)] = i
                            /\ \A o, p \in Items(board, today) \ {i} :
                                  PlaceOf(list, o) < PlaceOf(list, p)
                                    <=> PlaceOf(after, o) < PlaceOf(after, p)
        OBVIOUS
    <2> DEFINE x == req[t]
               i == x.ask.item
               dir == x.ask.dir
               S == Items(board, today)
               k == Keys(board, today)
               k2 == Keys(board', today)
               c == Len(list)
    <2>1. /\ board \in BoardRows /\ today \in Days /\ board' \in BoardRows /\ today' = today
          /\ dir \in Dirs /\ i \in S /\ x.new \in Int /\ Items(board', today) = S
          /\ \A o \in S : o # i =>
                EffectiveKey(board', today, o) = EffectiveKey(board, today, o)
          /\ EffectiveKey(board', today, i) = x.new
          /\ \E seen \in DayLists(board, today) :
                x.new = MovedKey(board, today, seen, i, dir) /\ x.seen = PlaceOf(seen, i)
        BY MoveCommits
    <2>2. after \in DayLists(board', today)
        BY <2>1
    <2>3. Distinct(board, today) /\ Distinct(board', today)
        BY <2>1 DEF NoTies, Distinct
    <2>4. PICK seen \in DayLists(board, today) :
              x.new = MovedKey(board, today, seen, i, dir) /\ x.seen = PlaceOf(seen, i)
        BY <2>1
    <2>5. c \in Nat /\ Len(seen) = c /\ Len(after) = c
        BY <2>1, <2>2, ListIs
    <2>6. /\ k \in [S -> Int] /\ k2 \in [S -> Int]
          /\ Sorted(list, c, S, k) /\ Sorted(seen, c, S, k) /\ Sorted(after, c, S, k2)
        <3>1. k \in [S -> Int] /\ Sorted(list, c, S, k) /\ Sorted(seen, c, S, k)
            BY <2>1, <2>3, <2>5, ListIsSorted
        <3>2. k2 \in [S -> Int] /\ Sorted(after, c, S, k2)
            BY <2>1, <2>2, <2>3, <2>5, ListIsSorted
        <3> QED
            BY <3>1, <3>2
    <2>7. /\ \A o \in S : k[o] = EffectiveKey(board, today, o)
          /\ \A o \in S : k2[o] = EffectiveKey(board', today, o)
        BY <2>1 DEF Keys
    <2>8. /\ \A o \in S : o # i => k2[o] = k[o] /\ k2[o] # k2[i]
          /\ k2[i] = x.new
        BY <2>1, <2>3, <2>7 DEF Distinct
    <2>9. PlaceOf(seen, i) \in 1 .. c /\ seen[PlaceOf(seen, i)] = i
        BY <2>1, <2>5, ListOfItems
    <2> DEFINE n == PlaceOf(seen, i)
               At == [m \in 1 .. c |-> k[seen[m]]]
    <2>10. seen \in [1 .. c -> S]
        BY <2>6 DEF Sorted
    <2>11. At = [m \in 1 .. Len(seen) |-> EffectiveKey(board, today, seen[m])]
        BY <2>5, <2>7, <2>10
    <2>12. Aims(x.new, At, c, n, dir)
        <3>1. Aims(MovedKey(board, today, seen, i, dir),
                   [m \in 1 .. Len(seen) |-> EffectiveKey(board, today, seen[m])],
                   Len(seen), PlaceOf(seen, i), dir)
            BY <2>1, MoveAims
        <3> QED
            BY <2>4, <2>5, <2>11, <3>1
    <2> HIDE DEF k, k2, S, i, dir, c, n, x
    <2>13. /\ At \in [1 .. c -> Int]
           /\ \A m \in 1 .. c : At[m] = k[seen[m]]
        BY <2>6, <2>10
    <2>14. \A y, z \in 1 .. c : y < z <=> At[y] < At[z]
        BY <2>5, <2>6, <2>13, InOrder
    <2>15. \A y \in 1 .. c : y # n => At[y] # x.new
        <3> TAKE y \in 1 .. c
        <3> HAVE y # n
        <3>1. seen[y] # i
            <4>1. PlaceOf(seen, seen[y]) = y
                BY <2>5, <2>6, PlaceIs
            <4> QED
                BY <4>1 DEF n
        <3>2. seen[y] \in S
            BY <2>10
        <3> QED
            BY <2>8, <2>13, <3>1, <3>2
    <2> HIDE DEF At
    <2>16. n \in 1 .. c /\ seen[n] = i
        BY <2>9 DEF n
    <2>17. PICK e \in 1 .. c + 1 :
              /\ Falls(x.new, At, c, n, e)
              /\ Target(n, c, dir) = IF n < e THEN e - 1 ELSE e
        <3>1. c \in Nat /\ n \in 1 .. c /\ x.new \in Int /\ dir \in Dirs
            BY <2>1, <2>5, <2>16
        <3>2. Increasing(At, c)
            BY <2>13, <2>14 DEF Increasing
        <3>3. NewKey(x.new, At, c, n)
            BY <2>15 DEF NewKey
        <3> QED
            <4>1. \A key \in Int : NewKey(key, At, c, n) /\ Aims(key, At, c, n, dir) =>
                     \E e \in 1 .. c + 1 :
                        /\ Falls(key, At, c, n, e)
                        /\ Target(n, c, dir) = IF n < e THEN e - 1 ELSE e
                BY <3>1, <3>2, PlaceAimedAt
            <4> QED
                BY <2>12, <3>1, <3>3, <4>1
    <2>18. after[Target(n, c, dir)] = i
        <3>1. \A y \in 1 .. c : y # n => (k[seen[y]] < k2[seen[n]] <=> y < e)
            BY <2>8, <2>13, <2>16, <2>17 DEF Falls
        <3>2. \A o \in S : o # seen[n] => k2[o] = k[o]
            BY <2>8, <2>16
        <3>3. after[IF n < e THEN e - 1 ELSE e] = seen[n]
            <4>1. /\ c \in Nat /\ k \in [S -> Int] /\ k2 \in [S -> Int] /\ n \in 1 .. c
                  /\ e \in 1 .. c + 1
                  /\ Sorted(seen, c, S, k) /\ Sorted(after, c, S, k2)
                BY <2>5, <2>6, <2>16
            <4> QED
                BY <3>1, <3>2, <4>1, LandsBetween, SMTT(30)
        <3> QED
            BY <2>16, <2>17, <3>3
    <2>19. ASSUME NEW o \in S, o # i, NEW p \in S, p # i
           PROVE  PlaceOf(list, o) < PlaceOf(list, p) <=> PlaceOf(after, o) < PlaceOf(after, p)
        <3>1. PICK o1 \in 1 .. c, p1 \in 1 .. c : list[o1] = o /\ list[p1] = p
            BY <2>6 DEF Sorted
        <3>2. PICK o2 \in 1 .. c, p2 \in 1 .. c : after[o2] = o /\ after[p2] = p
            BY <2>6 DEF Sorted
        <3>3. /\ PlaceOf(list, o) = o1 /\ PlaceOf(list, p) = p1
              /\ PlaceOf(after, o) = o2 /\ PlaceOf(after, p) = p2
            <4>1. /\ PlaceOf(list, list[o1]) = o1 /\ PlaceOf(list, list[p1]) = p1
                BY <2>5, <2>6, PlaceIs
            <4>2. /\ PlaceOf(after, after[o2]) = o2 /\ PlaceOf(after, after[p2]) = p2
                BY <2>5, <2>6, PlaceIs
            <4> QED
                BY <3>1, <3>2, <4>1, <4>2
        <3>4. o1 < p1 <=> k[o] < k[p]
            <4>1. o1 < p1 <=> k[list[o1]] < k[list[p1]]
                BY <2>5, <2>6, InOrder
            <4> QED
                BY <3>1, <4>1
        <3>5. o2 < p2 <=> k2[o] < k2[p]
            <4>1. o2 < p2 <=> k2[after[o2]] < k2[after[p2]]
                BY <2>5, <2>6, InOrder
            <4> QED
                BY <3>2, <4>1
        <3>6. k2[o] = k[o] /\ k2[p] = k[p]
            BY <2>8, <2>19
        <3> QED
            BY <3>3, <3>4, <3>5, <3>6
    <2>20. x.seen = n
        BY <2>4 DEF n
    <2> QED
        BY <2>18, <2>19, <2>20 DEF x, i, dir, S, c
<1>2. MoveLands <=> [][Body]_vars
    BY DEF MoveLands
<1> HIDE DEF Body
<1> QED
    BY <1>1, <1>2, MoveInvariant, PTL DEF Spec

=============================================================================
