--------------------------- MODULE TrackersProofs ---------------------------
(***************************************************************************)
(* For every number of trackers, days, forms, threads and requests: the    *)
(* rows keep their types, a tracker keeps its state row, a recompute that  *)
(* ran alone is right, and only a delete can close a circle of waits.      *)
(***************************************************************************)
EXTENDS Trackers, FiniteSetTheorems, TLAPS

(* What a request in flight has done so far, by its step and its button.   *)
RequestOK(x) ==
    /\ x.step # "idle" => x.ask \in AllButtons
    /\ x.step \in {"audit", "clock", "flush", "max", "write"} => x.ask.kind # "delete"
    /\ x.step = "edit" => x.ask.kind = "edit"
    /\ x.step = "drop" => x.ask.kind = "delete" /\ "tracker" \in x.todo \cup x.gone
    /\ x.step = "commit" => "tracker" \in x.gone \/ x.row # NoRow
    /\ x.wrote => x.step \in {"max", "state", "write", "commit"} /\ x.ask.kind # "delete"
    /\ x.row # NoRow => x.step = "commit" /\ x.ask.kind # "delete"
    /\ x.gone # {} => x.ask.kind = "delete"

(* The event days and the state row as request x makes them: Seen and      *)
(* NewState of the thread that holds it.                                   *)
View(x) ==
    IF ~x.wrote THEN DaysDone(x.ask.k)
    ELSE IF x.found THEN DaysDone(x.ask.k) \ {x.day}
    ELSE DaysDone(x.ask.k) \cup {x.day}

StateOf(x) ==
    [last |-> x.last, since |-> IF x.last = NoRow THEN 0 ELSE x.now - x.last]

(* What a request that nothing overlapped has read is still so.            *)
AloneOK(x) ==
    x.alone /\ x.step # "idle" =>
        /\ x.step \in {"state", "write", "commit"} /\ x.ask.kind # "delete"
             => x.last = Latest(View(x))
        /\ x.step = "write" => x.had = state[x.ask.k]
        /\ x.row # NoRow => x.row = StateOf(x)

(* While it is alone every other thread is idle.                           *)
OneAlone ==
    \A t, u \in Threads :
        t # u /\ req[t].alone /\ req[t].step # "idle" => req[u].step = "idle"

TrackersInv ==
    /\ TypeOK
    /\ OneAlone
    /\ \A t \in Threads : RequestOK(req[t]) /\ AloneOK(req[t])
    /\ TrackerHasState

-----------------------------------------------------------------------------
(* Types of the pieces the actions are made of.                            *)

LEMMA ButtonType ==
    ASSUME NEW b \in AllButtons
    PROVE  /\ b.k \in Trackers
           /\ b.kind \in Kinds
           /\ b.kind = "mark" => b.day \in Days
           /\ b.kind = "edit" => b.plan \in Plans
    BY DEF AllButtons, Kinds

(* Two rows merged column by column are a row, whatever was loaded.        *)
LEMMA MergedState ==
    ASSUME NEW new \in StateRows, NEW had, NEW stored \in StateRows
    PROVE  Merged(new, had, stored) \in StateRows
    BY DEF Merged, StateRows

LEMMA MergedPlan ==
    ASSUME NEW new \in PlanRows, NEW had, NEW stored \in PlanRows
    PROVE  Merged(new, had, stored) \in PlanRows
    BY DEF Merged, PlanRows

(* An UPDATE of the very row that was loaded sends the new row whole.      *)
LEMMA MergedWhole ==
    ASSUME NEW new \in StateRows, NEW had
    PROVE  Merged(new, had, had) = new
    BY DEF Merged, StateRows

(* Some day of a nonempty set is the last: the days are finitely many, so  *)
(* of the sets without a last day one would be least, and it is not.       *)
LEMMA LastDay ==
    ASSUME NEW D \in SUBSET Days, D # {}
    PROVE  \E d \in D : \A e \in D : e <= d
<1> DEFINE Top(U) == \E d \in U : \A e \in U : e <= d
           Bad == {U \in SUBSET Days : U # {} /\ ~Top(U)}
<1> SUFFICES ASSUME Bad # {} PROVE FALSE
    OBVIOUS
<1>1. IsFiniteSet(Days) /\ Days \subseteq Nat
    BY TrackersAssumption
<1>2. Bad \subseteq FiniteSubsetsOf(Days)
    BY <1>1, FS_Subset DEF FiniteSubsetsOf
<1>3. PICK U \in Bad : \A V \in Bad : ~(<<V, U>> \in StrictSubsetOrdering(Days))
    <2> HIDE DEF Bad
    <2> QED
        BY <1>2, FS_StrictSubsetOrderingWellFounded, WFMin
<1>4. PICK x \in U : TRUE
    OBVIOUS
<1> DEFINE V == U \ {x}
<1>5. V \notin Bad
    <2>1. <<V, U>> \in StrictSubsetOrdering(Days)
        BY <1>4 DEF StrictSubsetOrdering
    <2> QED
        BY <1>3, <2>1
<1>6. CASE V = {}
    <2>1. \A e \in U : e = x
        BY <1>6
    <2> QED
        BY <1>1, <1>4, <2>1
<1>7. CASE V # {}
    <2>1. PICK m \in V : \A e \in V : e <= m
        BY <1>5, <1>7
    <2>2. m \in Nat /\ x \in Nat /\ U \subseteq Nat /\ \A e \in U : e = x \/ e \in V
        BY <1>1, <1>4
    <2>3. CASE x <= m
        BY <1>4, <2>1, <2>2, <2>3
    <2>4. CASE m <= x
        <3>1. \A e \in U : e <= x
            BY <2>1, <2>2, <2>4
        <3> QED
            BY <1>4, <3>1
    <2> QED
        BY <2>2, <2>3, <2>4
<1> QED
    BY <1>6, <1>7

LEMMA LatestType ==
    ASSUME NEW D \in SUBSET Days
    PROVE  Latest(D) \in Days \cup {NoRow}
<1>1. CASE D = {}
    BY <1>1 DEF Latest
<1>2. CASE D # {}
    <2>1. \E d \in D : \A e \in D : e <= d
        BY <1>2, LastDay
    <2> QED
        BY <1>2, <2>1 DEF Latest
<1> QED
    BY <1>1, <1>2

LEMMA IdleOK ==
    /\ Idle \in Requests
    /\ RequestOK(Idle) /\ AloneOK(Idle) /\ Idle.step = "idle"
    BY TrackersAssumption DEF Idle, Requests, Steps, Parts, RequestOK, AloneOK, NoButton

-----------------------------------------------------------------------------
(* The rows a thread may find are typed, and so is what it makes of them.  *)
LEMMA ViewType ==
    ASSUME NEW x \in Requests
    PROVE  View(x) \in SUBSET Days
    BY DEF View, DaysDone, Requests

LEMMA StateOfType ==
    ASSUME NEW x \in Requests
    PROVE  StateOf(x) \in StateRows
<1>1. x.now \in Int /\ x.last \in Days \cup {NoRow} /\ Days \subseteq Int
    <2>1. Days \subseteq Int
        BY TrackersAssumption
    <2>2. x.now \in Days /\ x.last \in Days \cup {NoRow}
        BY DEF Requests
    <2> QED
        BY <2>1, <2>2
<1>2. x.last # NoRow => x.now - x.last \in Int
    <2>1. x.last # NoRow => x.last \in Int
        BY <1>1
    <2> QED
        BY <1>1, <2>1
<1> QED
    BY <1>1, <1>2 DEF StateOf, StateRows

LEMMA SeenIsView ==
    ASSUME NEW t \in Threads
    PROVE  Seen(t) = View(req[t]) /\ NewState(t) = StateOf(req[t])
    BY DEF Seen, View, NewState, StateOf

(* A thread that only moves its own request on keeps the invariant when    *)
(* the request it carries on with is in order.                             *)
LEMMA OneRequestKeeps ==
    ASSUME TrackersInv, NEW t \in Threads, NEW y \in Requests,
           RequestOK(y), AloneOK(y), Reads(t, y),
           y.step = "idle" \/ (y.alone = req[t].alone /\ req[t].step # "idle")
    PROVE  TrackersInv'
<1>1. TypeOK'
    BY DEF TrackersInv, TypeOK, Reads, Become, rows
<1>2. OneAlone'
    BY DEF TrackersInv, TypeOK, OneAlone, Reads, Become
<1>3. ASSUME NEW u \in Threads PROVE (RequestOK(req[u]) /\ AloneOK(req[u]))'
    <2>1. req' = [req EXCEPT ![t] = y] /\ UNCHANGED <<events, state>>
        BY DEF Reads, Become, rows
    <2>2. RequestOK(req[u])'
        BY <2>1 DEF TrackersInv, TypeOK, RequestOK
    <2>3. AloneOK(req[u])'
        BY <2>1, ZenonT(60) DEF TrackersInv, TypeOK, AloneOK, View, DaysDone, StateOf
    <2> QED
        BY <2>2, <2>3
<1>4. TrackerHasState'
    BY DEF TrackersInv, TrackerHasState, Reads, rows
<1> QED
    BY <1>1, <1>2, <1>3, <1>4 DEF TrackersInv

LEMMA RollbackKeeps ==
    ASSUME TrackersInv, NEW t \in Threads, Rollback(t)
    PROVE  TrackersInv'
<1>1. Reads(t, Idle)
    BY DEF Rollback, Reads
<1> QED
    BY <1>1, IdleOK, OneRequestKeeps

(* Starting a request ends the solitude of all the others.                 *)
LEMMA NotAlone ==
    ASSUME NEW x \in Requests, RequestOK(x)
    PROVE  /\ [x EXCEPT !.alone = FALSE] \in Requests
           /\ RequestOK([x EXCEPT !.alone = FALSE])
           /\ ~[x EXCEPT !.alone = FALSE].alone
<1> DEFINE y == [x EXCEPT !.alone = FALSE]
<1>1. /\ y \in Requests /\ ~y.alone /\ y.step = x.step /\ y.ask = x.ask
      /\ y.todo = x.todo /\ y.gone = x.gone /\ y.row = x.row /\ y.wrote = x.wrote
    BY DEF Requests
<1> HIDE DEF y
<1>2. RequestOK(y)
    BY <1>1 DEF RequestOK
<1> QED
    BY <1>1, <1>2 DEF y

-----------------------------------------------------------------------------
(* One lemma per kind of step.                                             *)

LEMMA AddKeeps ==
    ASSUME TrackersInv, NEW t \in Threads, NEW k \in Trackers, NEW p \in Plans,
           Add(t, k, p)
    PROVE  TrackersInv'
<1> DEFINE fresh == [last |-> NoRow, since |-> 0]
<1>1. fresh \in StateRows /\ fresh # NoRow
    BY TrackersAssumption DEF StateRows
<1>2. \A u \in Threads : /\ req'[u] \in Requests /\ RequestOK(req'[u])
                         /\ ~req'[u].alone
    BY NotAlone DEF Add, TrackersInv, TypeOK
<1>3. plan' \in [Trackers -> PlanRows \cup {NoRow}]
    BY TrackersAssumption DEF Add, TrackersInv, TypeOK
<1>4. state' \in [Trackers -> StateRows \cup {NoRow}]
    BY <1>1 DEF Add, TrackersInv, TypeOK
<1>5. started' \in 0 .. MaxRequests
    BY TrackersAssumption DEF Add, TrackersInv, TypeOK
<1>6. TypeOK'
    BY <1>2, <1>3, <1>4, <1>5 DEF Add, TrackersInv, TypeOK
<1>7. OneAlone'
    BY <1>2 DEF OneAlone
<1>8. \A u \in Threads : (RequestOK(req[u]) /\ AloneOK(req[u]))'
    BY <1>2 DEF RequestOK, AloneOK
<1>9. TrackerHasState'
    BY <1>1 DEF Add, TrackersInv, TypeOK, TrackerHasState
<1> QED
    BY <1>6, <1>7, <1>8, <1>9 DEF TrackersInv

LEMMA PressKeeps ==
    ASSUME TrackersInv, NEW t \in Threads, NEW b \in Buttons, Press(t, b)
    PROVE  TrackersInv'
<1> DEFINE first == FirstStep(b.kind)
           had == IF b.kind = "edit" THEN plan[b.k] ELSE NoRow
           solo == \A v \in Threads : req[v].step = "idle"
           y == [Idle EXCEPT !.step = first, !.ask = b, !.had = had, !.alone = solo]
<1>1. b \in AllButtons /\ b.k \in Trackers
    BY ButtonType, TrackersAssumption
<1>2. plan[b.k] \in PlanRows \cup {NoRow}
    BY <1>1 DEF TrackersInv, TypeOK
<1>3. /\ first \in Steps /\ first \in {"read", "edit"}
      /\ first = "edit" => b.kind = "edit"
      /\ had \in PlanRows \cup {NoRow} /\ solo \in BOOLEAN
    BY <1>2 DEF FirstStep, Steps
<1>4. y \in Requests
    <2> HIDE DEF first, had, solo
    <2> QED
        BY <1>1, <1>3, IdleOK DEF Requests
<1>5. /\ y.step \in {"read", "edit"} /\ (y.step = "edit" => b.kind = "edit") /\ y.ask = b
      /\ ~y.wrote /\ y.row = NoRow /\ y.gone = {}
      /\ y.alone => \A v \in Threads : req[v].step = "idle"
    <2>1. y.step = first /\ y.ask = b /\ y.alone = solo
          /\ y.wrote = FALSE /\ y.row = NoRow /\ y.gone = {}
        <3> HIDE DEF first, had, solo
        <3> QED
            BY DEF Idle
    <2> QED
        BY <1>3, <2>1
<1>6. req' = [u \in Threads |-> IF u = t THEN y ELSE [req[u] EXCEPT !.alone = FALSE]]
    BY DEF Press
<1> HIDE DEF y
<1>7. \A u \in Threads \ {t} :
          /\ req'[u] \in Requests /\ RequestOK(req'[u]) /\ ~req'[u].alone
          /\ req'[u].step = req[u].step
    BY <1>6, NotAlone DEF TrackersInv, TypeOK, Requests
<1>8. TypeOK'
    <2>1. started' \in 0 .. MaxRequests
        <3>1. started < MaxRequests /\ started' = started + 1
            BY DEF Press
        <3> QED
            BY <3>1, TrackersAssumption DEF TrackersInv, TypeOK
    <2>2. req' \in [Threads -> Requests]
        BY <1>4, <1>6, <1>7
    <2> QED
        BY <2>1, <2>2 DEF Press, TrackersInv, TypeOK, rows
<1>9. OneAlone'
    BY <1>5, <1>6, <1>7 DEF OneAlone
<1>10. \A u \in Threads : (RequestOK(req[u]) /\ AloneOK(req[u]))'
    <2> TAKE u \in Threads
    <2>1. CASE u = t
        <3>1. req'[u] = y
            BY <1>6, <2>1
        <3> QED
            BY <1>1, <1>5, <3>1 DEF RequestOK, AloneOK
    <2>2. CASE u # t
        BY <1>7, <2>2 DEF RequestOK, AloneOK
    <2> QED
        BY <2>1, <2>2
<1>11. TrackerHasState'
    BY DEF Press, TrackersInv, TrackerHasState, rows
<1> QED
    BY <1>8, <1>9, <1>10, <1>11 DEF TrackersInv

LEMMA FirstReadsKeep ==
    ASSUME TrackersInv, NEW t \in Threads,
           ReadToday(t) \/ ReadDay(t) \/ Audit(t) \/ ReadClock(t) \/ ReadHistory(t)
    PROVE  TrackersInv'
<1> DEFINE x == req[t]
<1>1. x \in Requests /\ RequestOK(x) /\ AloneOK(x) /\ today \in Days
    BY DEF TrackersInv, TypeOK
<1>2. x.step \in {"read", "audit", "clock"} /\ x.ask \in AllButtons
    BY <1>1 DEF RequestOK, ReadToday, ReadDay, Audit, ReadClock, ReadHistory
<1>3. ASSUME NEW y \in Requests, Reads(t, y), y.alone = x.alone, y.ask = x.ask,
             y.wrote = x.wrote, y.row = x.row, y.gone = x.gone,
             \/ y.step \in {"audit", "clock", "flush"} /\ y.ask.kind # "delete"
             \/ y.step = "state" /\ y.ask.kind = "delete"
      PROVE  TrackersInv'
    <2>1. RequestOK(y) /\ AloneOK(y) /\ x.step # "idle"
        BY <1>1, <1>2, <1>3 DEF RequestOK, AloneOK
    <2> QED
        BY <1>3, <2>1, OneRequestKeeps
<1>4. CASE ReadToday(t)
    <2> DEFINE found == <<x.ask.k, today>> \in events
               y == [x EXCEPT !.day = today, !.now = today, !.step = "flush", !.found = found]
    <2>1. Reads(t, y) /\ x.ask.kind = "toggle" /\ found \in BOOLEAN
        BY <1>4 DEF ReadToday
    <2> HIDE DEF found
    <2>2. y \in Requests
        BY <1>1, <2>1 DEF Requests, Steps
    <2> QED
        BY <1>1, <1>3, <2>1, <2>2 DEF Requests
<1>5. CASE ReadDay(t)
    <2> DEFINE found == <<x.ask.k, x.ask.day>> \in events
               y == [x EXCEPT !.day = x.ask.day, !.step = "audit", !.found = found]
    <2>1. /\ Reads(t, y) /\ x.ask.kind = "mark" /\ found \in BOOLEAN
          /\ x.ask.day \in Days
        BY <1>2, <1>5, ButtonType DEF ReadDay
    <2> HIDE DEF found
    <2>2. y \in Requests
        BY <1>1, <2>1 DEF Requests, Steps
    <2> QED
        BY <1>1, <1>3, <2>1, <2>2 DEF Requests
<1>6. CASE Audit(t)
    <2> DEFINE y == [x EXCEPT !.audits = x.found \/ x.day # today, !.step = "clock"]
    <2>1. y \in Requests /\ Reads(t, y) /\ x.ask.kind # "delete"
        BY <1>1, <1>6, ZenonT(60) DEF Requests, Steps, Audit, RequestOK
    <2> QED
        BY <1>1, <1>3, <2>1 DEF Requests
<1>7. CASE ReadClock(t)
    <2> DEFINE y == [x EXCEPT !.now = today, !.step = "flush"]
    <2>1. y \in Requests /\ Reads(t, y) /\ x.ask.kind # "delete"
        BY <1>1, <1>7 DEF Requests, Steps, ReadClock, RequestOK
    <2> QED
        BY <1>1, <1>3, <2>1 DEF Requests
<1>8. CASE ReadHistory(t)
    <2> DEFINE y == [x EXCEPT !.cut = DaysDone(x.ask.k), !.step = "state"]
    <2>1. y \in Requests /\ Reads(t, y) /\ x.ask.kind = "delete"
        BY <1>1, <1>8 DEF Requests, Steps, ReadHistory, DaysDone
    <2> QED
        BY <1>1, <1>3, <2>1 DEF Requests
<1> QED
    BY <1>4, <1>5, <1>6, <1>7, <1>8

LEMMA FlushKeeps ==
    ASSUME TrackersInv, NEW t \in Threads,
           InsertEvent(t) \/ InsertRefused(t) \/ DeleteEvent(t)
    PROVE  TrackersInv'
<1> DEFINE x == req[t]
<1>1. x \in Requests /\ RequestOK(x) /\ AloneOK(x)
    BY DEF TrackersInv, TypeOK
<1>2. x.step = "flush" /\ x.ask.kind # "delete"
    BY <1>1 DEF RequestOK, InsertEvent, InsertRefused, DeleteEvent, AtFlush
<1>3. ASSUME NEW wrote \in BOOLEAN, Reads(t, [x EXCEPT !.wrote = wrote, !.step = "max"])
      PROVE  TrackersInv'
    <2> DEFINE y == [x EXCEPT !.wrote = wrote, !.step = "max"]
    <2>1. y \in Requests
        BY <1>1 DEF Requests, Steps
    <2>2. RequestOK(y) /\ AloneOK(y) /\ y.alone = x.alone
        BY <1>1, <1>2 DEF Requests, RequestOK, AloneOK
    <2> QED
        BY <1>2, <1>3, <2>1, <2>2, OneRequestKeeps
<1>4. CASE InsertEvent(t)
    BY <1>3, <1>4 DEF InsertEvent
<1>5. CASE InsertRefused(t)
    BY <1>5, RollbackKeeps DEF InsertRefused
<1>6. CASE DeleteEvent(t)
    <2> DEFINE wrote == <<x.ask.k, x.day>> \in events
    <2>1. Reads(t, [x EXCEPT !.wrote = wrote, !.step = "max"]) /\ wrote \in BOOLEAN
        BY <1>6 DEF DeleteEvent
    <2> HIDE DEF wrote
    <2> QED
        BY <1>3, <2>1
<1> QED
    BY <1>4, <1>5, <1>6

LEMMA MaxKeeps ==
    ASSUME TrackersInv, NEW t \in Threads, ReadMax(t)
    PROVE  TrackersInv'
<1> DEFINE x == req[t]
           last == Latest(Seen(t))
           y == [x EXCEPT !.last = last, !.step = "state"]
<1>1. x \in Requests /\ RequestOK(x) /\ AloneOK(x)
    BY DEF TrackersInv, TypeOK
<1>2. x.step = "max" /\ x.ask.kind # "delete" /\ Reads(t, y)
    BY <1>1 DEF RequestOK, ReadMax
<1>3. last = Latest(View(x)) /\ last \in Days \cup {NoRow}
    BY <1>1, SeenIsView, ViewType, LatestType
<1> HIDE DEF last
<1>4. /\ y \in Requests /\ y.step = "state" /\ y.last = last /\ y.ask = x.ask
      /\ y.wrote = x.wrote /\ y.found = x.found /\ y.day = x.day /\ y.row = x.row
      /\ y.gone = x.gone /\ y.alone = x.alone
    BY <1>1, <1>3 DEF Requests, Steps
<1> HIDE DEF y
<1>5. RequestOK(y)
    BY <1>1, <1>2, <1>4 DEF RequestOK
<1>6. View(y) = View(x)
    BY <1>4 DEF View
<1>7. AloneOK(y)
    BY <1>1, <1>2, <1>3, <1>4, <1>5, <1>6 DEF AloneOK, RequestOK
<1> QED
    BY <1>2, <1>4, <1>5, <1>7, OneRequestKeeps

LEMMA StateKeeps ==
    ASSUME TrackersInv, NEW t \in Threads, ReadState(t)
    PROVE  TrackersInv'
<1> DEFINE x == req[t]
           had == state[x.ask.k]
<1>1. x \in Requests /\ RequestOK(x) /\ AloneOK(x)
    BY DEF TrackersInv, TypeOK
<1>2. x.step = "state" /\ x.ask.k \in Trackers
    BY <1>1, ButtonType DEF ReadState, RequestOK
<1>3. had \in StateRows \cup {NoRow}
    BY <1>2 DEF TrackersInv, TypeOK
<1>4. CASE x.ask.kind = "delete"
    <2> DEFINE todo == {"tracker"} \cup (IF x.cut = {} THEN {} ELSE {"events"})
                                   \cup (IF had = NoRow THEN {} ELSE {"state"})
               y == [x EXCEPT !.had = had, !.step = "drop", !.todo = todo]
    <2>1. todo \in SUBSET Parts /\ "tracker" \in todo /\ Reads(t, y)
        BY <1>4 DEF Parts, ReadState
    <2> HIDE DEF todo
    <2>2. /\ y \in Requests /\ y.step = "drop" /\ y.todo = todo /\ y.ask = x.ask
          /\ y.wrote = x.wrote /\ y.row = x.row /\ y.gone = x.gone /\ y.alone = x.alone
        BY <1>1, <1>3, <2>1 DEF Requests, Steps
    <2> HIDE DEF y
    <2>3. RequestOK(y) /\ AloneOK(y)
        BY <1>1, <1>2, <1>4, <2>1, <2>2 DEF RequestOK, AloneOK
    <2> QED
        BY <1>2, <2>1, <2>2, <2>3, OneRequestKeeps
<1>5. CASE x.ask.kind # "delete"
    <2> DEFINE y == [x EXCEPT !.had = had, !.step = "write"]
    <2>1. Reads(t, y)
        BY <1>5 DEF ReadState
    <2>2. /\ y \in Requests /\ y.step = "write" /\ y.had = had /\ y.last = x.last
          /\ y.ask = x.ask /\ y.wrote = x.wrote /\ y.found = x.found /\ y.day = x.day
          /\ y.row = x.row /\ y.gone = x.gone /\ y.alone = x.alone
        BY <1>1, <1>3 DEF Requests, Steps
    <2> HIDE DEF y
    <2>3. RequestOK(y) /\ View(y) = View(x)
        BY <1>1, <1>2, <1>5, <2>2 DEF RequestOK, View
    <2>4. AloneOK(y)
        BY <1>1, <1>2, <1>5, <2>2, <2>3 DEF AloneOK, RequestOK
    <2> QED
        BY <1>2, <2>1, <2>2, <2>3, <2>4, OneRequestKeeps
<1> QED
    BY <1>4, <1>5

LEMMA WriteKeeps ==
    ASSUME TrackersInv, NEW t \in Threads, UpdateState(t) \/ StateRefused(t)
    PROVE  TrackersInv'
<1>1. CASE StateRefused(t)
    BY <1>1, RollbackKeeps DEF StateRefused
<1>2. CASE UpdateState(t)
    <2> DEFINE x == req[t]
               stored == state[x.ask.k]
               row == Merged(NewState(t), x.had, stored)
               y == [x EXCEPT !.row = row, !.step = "commit"]
    <2>1. x \in Requests /\ RequestOK(x) /\ AloneOK(x)
        BY DEF TrackersInv, TypeOK
    <2>2. x.step = "write" /\ x.ask.kind # "delete" /\ x.ask.k \in Trackers
          /\ stored # NoRow /\ Reads(t, y)
        BY <1>2, <2>1, ButtonType DEF UpdateState, AtWrite, RequestOK
    <2>3. NewState(t) = StateOf(x) /\ StateOf(x) \in StateRows /\ stored \in StateRows
        BY <2>1, <2>2, SeenIsView, StateOfType DEF TrackersInv, TypeOK
    <2>4. row \in StateRows /\ row # NoRow
        BY <2>3, MergedState, TrackersAssumption DEF StateRows
    <2>5. x.alone => row = StateOf(x)
        BY <2>1, <2>2, <2>3, MergedWhole DEF AloneOK
    <2> HIDE DEF row
    <2>6. /\ y \in Requests /\ y.step = "commit" /\ y.row = row /\ y.last = x.last
          /\ y.ask = x.ask /\ y.wrote = x.wrote /\ y.found = x.found /\ y.day = x.day
          /\ y.gone = x.gone /\ y.alone = x.alone /\ y.now = x.now
        BY <2>1, <2>4 DEF Requests, Steps
    <2> HIDE DEF y
    <2>7. RequestOK(y) /\ View(y) = View(x) /\ StateOf(y) = StateOf(x)
        BY <2>1, <2>2, <2>4, <2>6 DEF RequestOK, View, StateOf
    <2>8. AloneOK(y)
        BY <2>1, <2>2, <2>5, <2>6, <2>7 DEF AloneOK
    <2> QED
        BY <2>2, <2>6, <2>7, <2>8, OneRequestKeeps
<1> QED
    BY <1>1, <1>2

LEMMA DropKeeps ==
    ASSUME TrackersInv, NEW t \in Threads, NEW part \in Parts, Drop(t, part)
    PROVE  TrackersInv'
<1>1. CASE Rollback(t)
    BY <1>1, RollbackKeeps
<1>2. CASE ~Rollback(t)
    <2> DEFINE x == req[t]
               next == IF x.todo = {part} THEN "commit" ELSE "drop"
               y == [x EXCEPT !.todo = x.todo \ {part}, !.gone = x.gone \cup {part},
                              !.step = next]
    <2>1. x \in Requests /\ RequestOK(x) /\ AloneOK(x)
        BY DEF TrackersInv, TypeOK
    <2>2. x.step = "drop" /\ Reads(t, y)
        BY <1>2 DEF Drop
    <2>3. /\ next \in Steps /\ next \in {"drop", "commit"}
          /\ next = "commit" => x.todo = {part}
        BY DEF Steps
    <2> HIDE DEF next
    <2>4. /\ y \in Requests /\ y.step = next /\ y.todo = x.todo \ {part}
          /\ y.gone = x.gone \cup {part} /\ y.ask = x.ask /\ y.wrote = x.wrote
          /\ y.row = x.row /\ y.alone = x.alone
        BY <2>1, <2>3 DEF Requests
    <2> HIDE DEF y
    <2>5. RequestOK(y) /\ AloneOK(y)
        BY <2>1, <2>2, <2>3, <2>4 DEF RequestOK, AloneOK
    <2> QED
        BY <2>2, <2>4, <2>5, OneRequestKeeps
<1> QED
    BY <1>1, <1>2

LEMMA EditKeeps ==
    ASSUME TrackersInv, NEW t \in Threads, Edit(t)
    PROVE  TrackersInv'
<1> DEFINE x == req[t]
           k == x.ask.k
           stored == plan[k]
           row == Merged(x.ask.plan, x.had, stored)
<1>1. x \in Requests /\ RequestOK(x) /\ x.step = "edit"
    BY DEF TrackersInv, TypeOK, Edit
<1>2. k \in Trackers /\ x.ask.plan \in PlanRows /\ stored \in PlanRows \cup {NoRow}
    BY <1>1, ButtonType, TrackersAssumption DEF RequestOK, TrackersInv, TypeOK
<1>3. /\ plan' = IF stored = NoRow THEN plan ELSE [plan EXCEPT ![k] = row]
      /\ req' = [req EXCEPT ![t] = Idle]
      /\ UNCHANGED <<events, state, edits, used, today, started>>
    BY DEF Edit, Become
<1>4. stored # NoRow => row \in PlanRows
    BY <1>2, MergedPlan
<1> HIDE DEF row
<1>5. TypeOK'
    BY <1>2, <1>3, <1>4, IdleOK DEF TrackersInv, TypeOK
<1>6. OneAlone'
    BY <1>3, IdleOK DEF TrackersInv, TypeOK, OneAlone
<1>7. \A u \in Threads : (RequestOK(req[u]) /\ AloneOK(req[u]))'
    <2> TAKE u \in Threads
    <2>1. CASE u = t
        <3>1. req'[u] = Idle
            BY <1>3, <2>1 DEF TrackersInv, TypeOK
        <3> QED
            BY <3>1, IdleOK DEF RequestOK, AloneOK
    <2>2. CASE u # t
        <3>1. req'[u] = req[u]
            BY <1>3, <2>2 DEF TrackersInv, TypeOK
        <3>2. RequestOK(req[u])'
            BY <3>1 DEF TrackersInv, RequestOK
        <3>3. AloneOK(req[u])'
            <4>1. DaysDone(req[u].ask.k)' = DaysDone(req[u].ask.k)
                BY <1>3, <3>1 DEF DaysDone
            <4>2. View(req[u])' = View(req[u])
                BY <3>1, <4>1 DEF View
            <4>3. StateOf(req[u])' = StateOf(req[u])
                BY <3>1 DEF StateOf
            <4>4. AloneOK(req[u])
                BY DEF TrackersInv
            <4> QED
                BY <1>3, <3>1, <4>2, <4>3, <4>4 DEF AloneOK
        <3> QED
            BY <3>2, <3>3
    <2> QED
        BY <2>1, <2>2
<1>8. TrackerHasState'
    BY <1>2, <1>3 DEF TrackersInv, TypeOK, TrackerHasState
<1> QED
    BY <1>5, <1>6, <1>7, <1>8 DEF TrackersInv

(* A commit ends the solitude of nobody: who is alone is the one.          *)
LEMMA CommitKeeps ==
    ASSUME TrackersInv, NEW t \in Threads, Commit(t)
    PROVE  TrackersInv'
<1> DEFINE x == req[t]
           k == x.ask.k
           dropped == "tracker" \in x.gone
           kept == IF dropped THEN DaysDone(k) \ x.cut ELSE Seen(t)
           edit == [k |-> k, day |-> x.day, old |-> x.found, new |-> ~x.found]
<1>1. x \in Requests /\ RequestOK(x) /\ x.step = "commit"
    BY DEF TrackersInv, TypeOK, Commit
<1>2. k \in Trackers
    BY <1>1, ButtonType DEF RequestOK
<1>3. /\ plan' = IF dropped THEN [plan EXCEPT ![k] = NoRow] ELSE plan
      /\ state' = [state EXCEPT ![k] = IF dropped THEN NoRow ELSE x.row]
      /\ events' = {e \in events : e[1] # k} \cup {<<k, d>> : d \in kept}
      /\ edits' = IF x.audits THEN Append(edits, edit) ELSE edits
      /\ req' = [req EXCEPT ![t] = Idle]
      /\ UNCHANGED <<used, today, started>>
    BY DEF Commit, Become
<1>4. kept \in SUBSET Days
    BY <1>1, SeenIsView, ViewType DEF DaysDone
<1>5. ~dropped => x.row \in StateRows
    BY <1>1 DEF RequestOK, Requests
<1>6. edit \in Edits
    BY <1>1, <1>2 DEF Edits, Requests
<1> HIDE DEF kept, edit
<1>7. TypeOK'
    <2>1. plan' \in [Trackers -> PlanRows \cup {NoRow}]
        BY <1>2, <1>3 DEF TrackersInv, TypeOK
    <2>2. state' \in [Trackers -> StateRows \cup {NoRow}]
        BY <1>2, <1>3, <1>5 DEF TrackersInv, TypeOK
    <2>3. events' \in SUBSET (Trackers \X Days)
        BY <1>2, <1>3, <1>4 DEF TrackersInv, TypeOK
    <2>4. edits' \in Seq(Edits)
        BY <1>3, <1>6 DEF TrackersInv, TypeOK
    <2>5. req' \in [Threads -> Requests]
        BY <1>3, IdleOK DEF TrackersInv, TypeOK
    <2> QED
        BY <1>3, <2>1, <2>2, <2>3, <2>4, <2>5 DEF TrackersInv, TypeOK
<1>8. OneAlone'
    BY <1>3, IdleOK DEF TrackersInv, TypeOK, OneAlone
<1>9. \A u \in Threads : (RequestOK(req[u]) /\ AloneOK(req[u]))'
    <2> TAKE u \in Threads
    <2>1. CASE u = t
        <3>1. req'[u] = Idle
            BY <1>3, <2>1 DEF TrackersInv, TypeOK
        <3> QED
            BY <3>1, IdleOK DEF RequestOK, AloneOK
    <2>2. CASE u # t
        <3>1. req'[u] = req[u]
            BY <1>3, <2>2 DEF TrackersInv, TypeOK
        <3>2. ~(req[u].alone /\ req[u].step # "idle")
            BY <1>1, <2>2 DEF TrackersInv, OneAlone
        <3> QED
            BY <3>1, <3>2 DEF TrackersInv, RequestOK, AloneOK
    <2> QED
        BY <2>1, <2>2
<1>10. TrackerHasState'
    <2>1. NoRow \notin StateRows
        BY TrackersAssumption DEF StateRows
    <2> QED
        BY <1>2, <1>3, <1>5, <2>1 DEF TrackersInv, TypeOK, TrackerHasState
<1> QED
    BY <1>7, <1>8, <1>9, <1>10 DEF TrackersInv

(* No request reads another day off the clock than the one it has kept.    *)
LEMMA ClockKeeps ==
    ASSUME TrackersInv, UNCHANGED <<rows, req, started>>, today' \in Days
    PROVE  TrackersInv'
<1>1. UNCHANGED <<plan, events, state, edits, used>>
    BY DEF rows
<1>2. TypeOK'
    BY <1>1 DEF TrackersInv, TypeOK
<1>3. OneAlone'
    BY DEF TrackersInv, OneAlone
<1>4. ASSUME NEW u \in Threads PROVE RequestOK(req[u])'
    BY DEF TrackersInv, RequestOK
<1>5. ASSUME NEW u \in Threads PROVE AloneOK(req[u])'
    BY <1>1 DEF TrackersInv, AloneOK, View, DaysDone, StateOf
<1>6. TrackerHasState'
    BY <1>1 DEF TrackersInv, TrackerHasState
<1> QED
    BY <1>2, <1>3, <1>4, <1>5, <1>6 DEF TrackersInv

LEMMA Inductive == TrackersInv /\ [Next]_vars => TrackersInv'
<1> SUFFICES ASSUME TrackersInv, [Next]_vars PROVE TrackersInv'
    OBVIOUS
<1>1. ASSUME NEW t \in Threads, NEW k \in Trackers, NEW p \in Plans, Add(t, k, p)
      PROVE  TrackersInv'
    BY <1>1, AddKeeps
<1>2. ASSUME NEW t \in Threads, NEW b \in Buttons, Press(t, b) PROVE TrackersInv'
    BY <1>2, PressKeeps
<1>3. ASSUME NEW t \in Threads, Step(t) PROVE TrackersInv'
    BY <1>3, FirstReadsKeep, FlushKeeps, MaxKeeps, StateKeeps, WriteKeeps, DropKeeps,
       EditKeeps, CommitKeeps, RollbackKeeps DEF Step, BreakDeadlock
<1>4. ASSUME NEW t \in Threads, Die(t) PROVE TrackersInv'
    BY <1>4, RollbackKeeps DEF Die
<1>5. CASE NextDay
    BY <1>5, ClockKeeps DEF NextDay
<1>6. CASE UNCHANGED vars
    <2>1. UNCHANGED <<rows, req, started>> /\ today' \in Days
        BY <1>6 DEF vars, rows, TrackersInv, TypeOK
    <2> QED
        BY <2>1, ClockKeeps
<1> QED
    BY <1>1, <1>2, <1>3, <1>4, <1>5, <1>6 DEF Next

LEMMA Invariant == Spec => []TrackersInv
<1>1. Init => TrackersInv
    BY IdleOK, TrackersAssumption
       DEF Init, TrackersInv, TypeOK, OneAlone, TrackerHasState
<1> QED
    BY <1>1, Inductive, PTL DEF Spec

-----------------------------------------------------------------------------
(* The rows of trackers, events, states and edits keep their types, and so *)
(* does what a request holds, however adds, marks, edits and deletes race. *)
THEOREM TrackersTypeOK == Spec => []TypeOK
<1>1. TrackersInv => TypeOK
    BY DEF TrackersInv
<1> QED
    BY <1>1, Invariant, PTL

(* No interleaving of the requests leaves a tracker without its state row, *)
(* as the inner join of the agenda needs.                                  *)
THEOREM TrackersKeepTheirState == Spec => []TrackerHasState
<1>1. TrackersInv => TrackerHasState
    BY DEF TrackersInv
<1> QED
    BY <1>1, Invariant, PTL

(* Whatever earlier races left in the summary, the next recompute that no  *)
(* other request overlaps writes the day of the last event and the days    *)
(* since.                                                                  *)
THEOREM AloneRecomputeHeals == Spec => HealsWhenAlone
<1> DEFINE Heals ==
        \A t \in Threads, k \in Trackers, now \in Days :
          (Commit(t) /\ k = req[t].ask.k /\ now = req[t].now
             /\ req[t].alone /\ req[t].row # NoRow)
          => (state[k] = Derived(k, now))'
<1>1. TrackersInv => Heals
    <2> SUFFICES ASSUME TrackersInv, NEW t \in Threads, NEW k \in Trackers, NEW now \in Days,
                        Commit(t), k = req[t].ask.k, now = req[t].now,
                        req[t].alone, req[t].row # NoRow
                 PROVE  (state[k] = Derived(k, now))'
        OBVIOUS
    <2> DEFINE x == req[t]
    <2>1. x \in Requests /\ RequestOK(x) /\ AloneOK(x) /\ x.step = "commit"
        BY DEF TrackersInv, TypeOK, Commit
    <2>2. "tracker" \notin x.gone /\ x.ask.kind # "delete"
        BY <2>1 DEF RequestOK
    <2>3. x.row = StateOf(x) /\ x.last = Latest(View(x))
        BY <2>1, <2>2 DEF AloneOK
    <2>4. /\ state' = [state EXCEPT ![k] = x.row]
          /\ events' = {e \in events : e[1] # k} \cup {<<k, d>> : d \in View(x)}
        BY <2>2, SeenIsView DEF Commit
    <2>5. View(x) \in SUBSET Days
        BY <2>1, ViewType
    <2>6. DaysDone(k)' = View(x)
        <3> HIDE DEF x
        <3> QED
            BY <2>4, <2>5 DEF DaysDone
    <2>7. state'[k] = x.row
        BY <2>4 DEF TrackersInv, TypeOK
    <2>8. Derived(k, now)' = StateOf(x)
        BY <2>3, <2>6 DEF Derived, StateOf
    <2> QED
        BY <2>3, <2>7, <2>8
<1> HIDE DEF Heals
<1>2. Spec => [][Heals]_vars
    BY <1>1, Invariant, PTL
<1> QED
    BY <1>2 DEF HealsWhenAlone, Heals

-----------------------------------------------------------------------------
(* What the waits of a request that deletes nothing can be for.            *)

LEMMA WaitsOfOthers ==
    ASSUME TrackersInv, NEW t \in Threads, NEW u \in WaitsFor(t),
           req[t].ask.kind # "delete", req[u].ask.kind # "delete"
    PROVE  /\ req[t].step \in {"flush", "write"}
           /\ req[t].step = "flush" => req[u].step # "flush"
           /\ req[t].step = "write" => req[u].step = "commit"
<1>1. RequestOK(req[t]) /\ RequestOK(req[u]) /\ u \in Threads
    <2>1. req[t].step # "drop"
        BY DEF TrackersInv, RequestOK
    <2>2. u \in Threads
        BY <2>1 DEF WaitsFor, Blocking
    <2> QED
        BY <2>2 DEF TrackersInv
<1>2. req[t].step # "drop" /\ req[u].gone = {}
    BY <1>1 DEF RequestOK
<1>3. u \in Blocking(t)
    BY <1>2 DEF WaitsFor
<1>4. CASE req[t].step = "flush"
    <2>1. req[u].wrote
        BY <1>2, <1>3, <1>4 DEF Blocking, HoldsEvent, HoldsTracker
    <2> QED
        BY <1>1, <1>4, <2>1 DEF RequestOK
<1>5. CASE req[t].step = "write"
    <2>1. req[u].row # NoRow
        BY <1>2, <1>3, <1>5 DEF Blocking, HoldsState
    <2> QED
        BY <1>1, <1>5, <2>1 DEF RequestOK
<1>6. CASE req[t].step = "edit"
    BY <1>2, <1>3, <1>6 DEF Blocking, HoldsTracker
<1>7. CASE req[t].step \notin {"flush", "write", "edit"}
    BY <1>3, <1>7 DEF Blocking
<1> QED
    BY <1>4, <1>5, <1>6, <1>7

(* A circle of requests that wait for each other holds a delete.  Without  *)
(* one a mark waits for a mark that has flushed, which waits at its write, *)
(* for one that has written and waits for nothing.                         *)
THEOREM DeadlocksNeedADelete == Spec => []DeadlockNeedsDelete
<1>1. TrackersInv => DeadlockNeedsDelete
    <2> SUFFICES ASSUME TrackersInv, NEW S \in SUBSET Threads, Stuck(S),
                        \A t \in S : req[t].ask.kind # "delete"
                 PROVE  FALSE
        BY DEF DeadlockNeedsDelete
    <2>1. \A t \in S : \E u \in S : u \in WaitsFor(t)
        BY DEF Stuck
    <2>2. PICK t \in S : TRUE
        BY DEF Stuck
    <2>3. PICK u \in S : u \in WaitsFor(t)
        BY <2>1
    <2>4. PICK v \in S : v \in WaitsFor(u)
        BY <2>1
    <2>5. PICK w \in S : w \in WaitsFor(v)
        BY <2>1
    <2>6. req[u].step = "write" \/ req[v].step = "write" \/ req[t].step = "write"
        BY <2>3, <2>4, <2>5, WaitsOfOthers
    <2>7. \A r \in S : req[r].step # "commit"
        BY <2>1, WaitsOfOthers
    <2> QED
        BY <2>3, <2>4, <2>5, <2>6, <2>7, WaitsOfOthers
<1> QED
    BY <1>1, Invariant, PTL

=============================================================================
