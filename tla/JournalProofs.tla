--------------------------- MODULE JournalProofs ---------------------------
(***************************************************************************)
(* For every number of threads, streaks, days, presses and requests: the   *)
(* journal keeps its types, and its requests never wait for each other in  *)
(* a circle.                                                               *)
(***************************************************************************)
EXTENDS Journal, FiniteSetTheorems, SequenceTheorems, WellFoundedInduction, TLAPS

(* What is known of the request a thread holds, whatever its table.        *)
Recomputing == {"clock", "log", "bad", "state", "write"}

RequestOK(x) ==
    /\ x.step \in Recomputing => x.todo # << >>
    /\ x.step = "audit" /\ IsHabit(x.press) => x.todo # << >>

JournalInv == TypeOK /\ \A t \in Threads : RequestOK(txn[t])

-----------------------------------------------------------------------------
(* Types of the pieces the actions are made of.                            *)

LEMMA CountsType == Counts \subseteq Nat /\ 0 \in Counts /\ Cardinality(Days) \in Nat
<1>1. Cardinality(Days) \in Nat
    BY DataAssumption, FS_CardinalityType
<1> QED
    BY <1>1 DEF Counts

LEMMA PressType ==
    ASSUME NEW p \in AllPresses
    PROVE  /\ p.row \in EventRows
           /\ IsHabit(p) => StreakOf(p) \in Streaks /\ p.mark \in BOOLEAN
    BY DEF AllPresses, EventRows, IsHabit, StreakOf, HabitRows, HabitRow, DailyRows, DailyRow, PrefsRow

LEMMA AfterType ==
    ASSUME NEW p \in AllPresses, NEW old \in Value
    PROVE  After(p, old) \in Value
<1>1. CASE IsHabit(p)
    BY <1>1, PressType DEF After, Value
<1>2. CASE old = NoRow
    BY <1>2, PressType DEF After, Value, GraceDefault
<1>3. CASE ~IsHabit(p) /\ old \in BOOLEAN
    <2>1. (~old) \in BOOLEAN
        BY <1>3
    <2> QED
        BY <1>3, <2>1, DataAssumption DEF After, Value
<1> QED
    BY <1>1, <1>2, <1>3 DEF Value

LEMMA ReadTypes ==
    ASSUME NEW tab \in [EventRows -> Value], NEW s \in Streaks
    PROVE  /\ LogIn(tab, s) \in Logs
           /\ BadIn(tab) \in SUBSET Days
           /\ GraceIn(tab) \in BOOLEAN
<1>1. \A d \in Days : HabitRow(s, d) \in EventRows
    BY DEF EventRows, HabitRows
<1>2. LogIn(tab, s) \in Logs
    <2> DEFINE D == {e \in Days : tab[HabitRow(s, e)] # NoRow}
    <2>1. LogIn(tab, s) \in [D -> BOOLEAN]
        BY <1>1 DEF LogIn, Value
    <2> QED
        BY <2>1 DEF Logs
<1>3. PrefsRow \in EventRows
    BY DEF EventRows
<1> QED
    BY <1>2, <1>3 DEF BadIn, GraceIn, GraceDefault, Value

LEMMA RecomputedType ==
    ASSUME NEW h \in Histories, NEW had \in StateRows \cup {NoRow}
    PROVE  Recomputed(h, had) \in StateRows
<1>1. RecordOf(had) \in Counts
    BY CountsType, DataAssumption DEF RecordOf, StateRows
<1>2. Summarise(h, RecordOf(had)) \in Summaries
    BY <1>1, SummariseAssumption
<1> QED
    BY <1>2 DEF Recomputed, Summaries, StateRows, Histories

LEMMA VisibleType ==
    ASSUME TypeOK, NEW t \in Threads
    PROVE  Visible(t) \in [EventRows -> Value]
<1>1. txn[t] \in Transactions
    BY DEF TypeOK
<1> QED
    BY <1>1 DEF TypeOK, Visible, Transactions

LEMMA IdleType == Idle \in Transactions
<1>1. NoPress \in AllPresses
    BY DEF NoPress, AllPresses
<1>2. << >> \in Logs
    <2>1. << >> \in [{} -> BOOLEAN]
        OBVIOUS
    <2> QED
        BY <2>1 DEF Logs
<1>3. << >> \in UNION {[S -> StateRows] : S \in SUBSET Streaks}
    <2>1. << >> \in [{} -> StateRows]
        OBVIOUS
    <2> QED
        BY <2>1
<1>4. Idle.todo \in Seq(Streaks)
    BY DEF Idle
<1> QED
    BY <1>1, <1>2, <1>3, <1>4, DataAssumption
       DEF Idle, Transactions, Steps, Value, GraceDefault

-----------------------------------------------------------------------------
(* Each action of a thread gives it a well-typed request to carry on with. *)

LEMMA PressKeeps ==
    ASSUME JournalInv, NEW t \in Threads, NEW p \in Presses, Press(t, p)
    PROVE  JournalInv'
<1>1. p \in AllPresses /\ p.row \in EventRows /\ table[p.row] \in Value
    BY DataAssumption, PressType DEF JournalInv, TypeOK
<1>2. After(p, table[p.row]) \in Value
    BY <1>1, AfterType
<1> DEFINE y == [Idle EXCEPT !.step = IF IsPrefs(p) THEN "flush" ELSE "audit",
                             !.press = p,
                             !.old = table[p.row],
                             !.new = After(p, table[p.row]),
                             !.todo = IF IsHabit(p) THEN <<StreakOf(p)>> ELSE << >>,
                             !.from = today,
                             !.alone = AllIdle]
<1>3. (IF IsHabit(p) THEN <<StreakOf(p)>> ELSE << >>) \in Seq(Streaks)
    BY <1>1, PressType
<1>4. today \in Days /\ AllIdle \in BOOLEAN
    BY DEF JournalInv, TypeOK, AllIdle
<1>5. (IF IsPrefs(p) THEN "flush" ELSE "audit") \in Steps
    BY DEF Steps
<1>6. y \in Transactions
    BY <1>1, <1>2, <1>3, <1>4, <1>5, IdleType DEF Transactions
<1>7. RequestOK(y)
    BY IdleType DEF RequestOK, Recomputing, Transactions
<1>8. \A u \in Threads \ {t} : /\ [txn[u] EXCEPT !.alone = FALSE] \in Transactions
                               /\ RequestOK([txn[u] EXCEPT !.alone = FALSE])
    BY ZenonT(60) DEF JournalInv, TypeOK, Transactions, RequestOK
<1>9. txn' = [u \in Threads |-> IF u = t THEN y ELSE [txn[u] EXCEPT !.alone = FALSE]]
    BY DEF Press
<1>10. started' \in 0 .. MaxRequests
    BY JournalAssumption DEF JournalInv, TypeOK, Press
<1> HIDE DEF y
<1> QED
    BY <1>6, <1>7, <1>8, <1>9, <1>10 DEF JournalInv, TypeOK, Press

(* An action that only changes the request of t keeps the invariant when   *)
(* the new request is well formed.                                         *)
LEMMA OneRequestKeeps ==
    ASSUME JournalInv, NEW t \in Threads, NEW y \in Transactions, RequestOK(y),
           txn' = [txn EXCEPT ![t] = y], OnlyTxn
    PROVE  JournalInv'
    BY DEF JournalInv, TypeOK, OnlyTxn

LEMMA RollbackKeeps ==
    ASSUME JournalInv, NEW t \in Threads, Rollback(t)
    PROVE  JournalInv'
<1>1. RequestOK(Idle)
    BY DEF RequestOK, Recomputing, Idle
<1> QED
    BY <1>1, IdleType, OneRequestKeeps DEF Rollback, OnlyTxn

LEMMA ReadsKeep ==
    ASSUME JournalInv, NEW t \in Threads,
           Audit(t) \/ ReadClock(t) \/ ReadRules(t)
    PROVE  JournalInv'
<1> DEFINE x == txn[t]
<1>1. x \in Transactions /\ RequestOK(x) /\ table \in [EventRows -> Value] /\ today \in Days
    BY DEF JournalInv, TypeOK
<1>2. CASE Audit(t)
    <2> DEFINE y == [x EXCEPT !.audits = Audited(x.press, x.old, x.new, today),
                              !.step = IF IsHabit(x.press) THEN "clock" ELSE "rules"]
    <2>1. Audited(x.press, x.old, x.new, today) \in BOOLEAN
        BY DEF Audited
    <2>2. y \in Transactions
        BY <1>1, <2>1 DEF Transactions, Steps
    <2>3. RequestOK(y)
        BY <1>1, <1>2 DEF RequestOK, Recomputing, Transactions, Audit
    <2>4. txn' = [txn EXCEPT ![t] = y] /\ OnlyTxn
        BY <1>2 DEF Audit, JournalInv, TypeOK
    <2> QED
        BY <2>2, <2>3, <2>4, OneRequestKeeps
<1>3. CASE ReadClock(t)
    <2> DEFINE y == [x EXCEPT !.today = today,
                              !.step = IF IsHabit(x.press) THEN "rules"
                                       ELSE IF x.dirty THEN "log" ELSE "flush"]
    <2>1. y \in Transactions
        BY <1>1 DEF Transactions, Steps
    <2>2. RequestOK(y)
        BY <1>1, <1>3 DEF RequestOK, Recomputing, Transactions, ReadClock
    <2>3. txn' = [txn EXCEPT ![t] = y] /\ OnlyTxn
        BY <1>3 DEF ReadClock, JournalInv, TypeOK
    <2> QED
        BY <2>1, <2>2, <2>3, OneRequestKeeps
<1>4. CASE ReadRules(t)
    <2> DEFINE y == [x EXCEPT !.grace = GraceIn(table),
                              !.todo = IF IsHabit(x.press) THEN x.todo ELSE ScanOrder,
                              !.step = IF IsHabit(x.press) \/ ScanOrder = << >>
                                       THEN "flush" ELSE "clock"]
    <2>1. GraceIn(table) \in BOOLEAN
        BY <1>1 DEF GraceIn, GraceDefault, Value, EventRows
    <2>2. y \in Transactions
        BY <1>1, <2>1, DataAssumption, ZenonT(60) DEF Transactions, Steps
    <2>3. RequestOK(y)
        BY <1>1, <1>4 DEF RequestOK, Recomputing, Transactions, ReadRules
    <2>4. txn' = [txn EXCEPT ![t] = y] /\ OnlyTxn
        BY <1>4 DEF ReadRules, JournalInv, TypeOK
    <2> QED
        BY <2>2, <2>3, <2>4, OneRequestKeeps
<1> QED
    BY <1>2, <1>3, <1>4

LEMMA FlushKeeps ==
    ASSUME JournalInv, NEW t \in Threads, Flush(t)
    PROVE  JournalInv'
<1>1. CASE Rollback(t)
    BY <1>1, RollbackKeeps
<1>2. ASSUME NEW wrote \in BOOLEAN, AtFlush(t), Flushed(t, wrote)
      PROVE  JournalInv'
    <2> DEFINE x == txn[t]
               y == [x EXCEPT !.dirty = wrote,
                              !.step = IF x.todo = << >> THEN "commit" ELSE "log"]
    <2>1. x \in Transactions /\ RequestOK(x)
        BY DEF JournalInv, TypeOK
    <2>2. y \in Transactions /\ RequestOK(y)
        BY <2>1, ZenonT(60) DEF Transactions, Steps, RequestOK, Recomputing
    <2>3. txn' = [txn EXCEPT ![t] = y] /\ OnlyTxn
        BY <1>2 DEF Flushed, JournalInv, TypeOK
    <2> QED
        BY <2>2, <2>3, OneRequestKeeps
<1> QED
    BY <1>1, <1>2 DEF Flush, InsertEvent, InsertConflict, UpdateEvent, UpdateVanished,
                      DeleteEvent, DeleteVanished

LEMMA HistoryReadsKeep ==
    ASSUME JournalInv, NEW t \in Threads,
           ReadLog(t) \/ ReadBadDays(t) \/ ReadState(t)
    PROVE  JournalInv'
<1> DEFINE x == txn[t]
           s == Head(x.todo)
<1>1. x \in Transactions /\ RequestOK(x) /\ summary \in [Streaks -> StateRows \cup {NoRow}]
    BY DEF JournalInv, TypeOK
<1>2. x.step \in {"log", "bad", "state"}
    BY DEF ReadLog, ReadBadDays, ReadState
<1>3. x.todo \in Seq(Streaks) /\ x.todo # << >> /\ s \in Streaks
    <2>1. x.todo \in Seq(Streaks) /\ x.todo # << >>
        BY <1>1, <1>2 DEF Transactions, RequestOK, Recomputing
    <2> QED
        BY <2>1
<1>4. /\ LogIn(Visible(t), s) \in Logs
      /\ BadIn(Visible(t)) \in SUBSET Days
      /\ summary[s] \in StateRows \cup {NoRow}
    <2>1. Visible(t) \in [EventRows -> Value]
        BY VisibleType DEF JournalInv
    <2> QED
        BY <1>1, <1>3, <2>1, ReadTypes
<1>5. CASE ReadLog(t)
    <2> DEFINE y == [x EXCEPT !.logged = LogIn(Visible(t), s), !.step = "bad"]
    <2>1. y \in Transactions /\ RequestOK(y)
        BY <1>1, <1>3, <1>4 DEF Transactions, Steps, RequestOK
    <2>2. txn' = [txn EXCEPT ![t] = y] /\ OnlyTxn
        BY <1>5 DEF ReadLog, JournalInv, TypeOK
    <2> QED
        BY <2>1, <2>2, OneRequestKeeps
<1>6. CASE ReadBadDays(t)
    <2> DEFINE y == [x EXCEPT !.bad = BadIn(Visible(t)), !.step = "state"]
    <2>1. y \in Transactions /\ RequestOK(y)
        BY <1>1, <1>3, <1>4 DEF Transactions, Steps, RequestOK
    <2>2. txn' = [txn EXCEPT ![t] = y] /\ OnlyTxn
        BY <1>6 DEF ReadBadDays, JournalInv, TypeOK
    <2> QED
        BY <2>1, <2>2, OneRequestKeeps
<1>7. CASE ReadState(t)
    <2> DEFINE y == [x EXCEPT !.had = summary[s], !.step = "write"]
    <2>1. y \in Transactions /\ RequestOK(y)
        BY <1>1, <1>3, <1>4 DEF Transactions, Steps, RequestOK
    <2>2. txn' = [txn EXCEPT ![t] = y] /\ OnlyTxn
        BY <1>7 DEF ReadState, JournalInv, TypeOK
    <2> QED
        BY <2>1, <2>2, OneRequestKeeps
<1> QED
    BY <1>5, <1>6, <1>7

LEMMA ChangedColumnsType ==
    ASSUME NEW new \in StateRows, NEW had \in StateRows, NEW stored \in StateRows
    PROVE  ChangedColumns(new, had, stored) \in StateRows
    BY DEF ChangedColumns, StateRows

LEMMA WriteKeeps ==
    ASSUME JournalInv, NEW t \in Threads, WriteState(t)
    PROVE  JournalInv'
<1> DEFINE x == txn[t]
           s == Head(x.todo)
<1>1. x \in Transactions /\ RequestOK(x) /\ summary \in [Streaks -> StateRows \cup {NoRow}]
    BY DEF JournalInv, TypeOK
<1>2. x.step = "write"
    BY DEF WriteState, InsertSummary, SummaryConflict, UpdateSummary, AtWrite
<1>3. x.todo \in Seq(Streaks) /\ x.todo # << >> /\ s \in Streaks
    <2>1. x.todo \in Seq(Streaks) /\ x.todo # << >>
        BY <1>1, <1>2 DEF Transactions, RequestOK, Recomputing
    <2> QED
        BY <2>1
<1>4. NewRow(t) \in StateRows
    <2>1. ReadHistory(t) \in Histories /\ x.had \in StateRows \cup {NoRow}
        BY <1>1 DEF ReadHistory, Histories, Transactions
    <2> QED
        BY <2>1, RecomputedType DEF NewRow
<1>5. CASE SummaryConflict(t)
    BY <1>5, RollbackKeeps DEF SummaryConflict
<1>6. ASSUME NEW row \in StateRows, Wrote(t, row)
      PROVE  JournalInv'
    <2> DEFINE rows == [z \in DOMAIN x.rows \cup {s} |-> IF z = s THEN row ELSE x.rows[z]]
               y == [x EXCEPT !.rows = rows, !.todo = Tail(x.todo),
                              !.step = IF Len(x.todo) = 1 THEN "commit" ELSE "clock"]
    <2>1. rows \in UNION {[S -> StateRows] : S \in SUBSET Streaks}
        <3>1. PICK S \in SUBSET Streaks : x.rows \in [S -> StateRows]
            BY <1>1 DEF Transactions
        <3>2. rows \in [S \cup {s} -> StateRows] /\ S \cup {s} \in SUBSET Streaks
            BY <1>3, <3>1
        <3> QED
            BY <3>2
    <2>2. Tail(x.todo) \in Seq(Streaks) /\ (Len(x.todo) # 1 => Tail(x.todo) # << >>)
        <3>1. /\ Tail(x.todo) \in Seq(Streaks) /\ Len(x.todo) \in Nat
              /\ Len(Tail(x.todo)) = Len(x.todo) - 1
            BY <1>3, HeadTailProperties, LenProperties
        <3>2. Len(<< >>) = 0
            OBVIOUS
        <3>3. Tail(x.todo) = << >> => Len(x.todo) = 1
            <4>1. ASSUME Tail(x.todo) = << >> PROVE Len(x.todo) - 1 = 0
                BY <3>1, <3>2, <4>1
            <4> QED
                BY <3>1, <4>1
        <3> QED
            BY <3>1, <3>3
    <2>3. y \in Transactions
        <3> HIDE DEF rows
        <3> QED
            BY <1>1, <2>1, <2>2 DEF Transactions, Steps
    <2>4. RequestOK(y)
        <3> HIDE DEF rows
        <3>1. /\ y.step = IF Len(x.todo) = 1 THEN "commit" ELSE "clock"
              /\ y.todo = Tail(x.todo)
            BY <1>1 DEF Transactions
        <3> QED
            BY <2>2, <3>1 DEF RequestOK, Recomputing
    <2>5. txn' = [txn EXCEPT ![t] = y] /\ OnlyTxn
        BY <1>6 DEF Wrote, JournalInv, TypeOK
    <2> QED
        BY <2>3, <2>4, <2>5, OneRequestKeeps
<1>7. CASE InsertSummary(t)
    BY <1>4, <1>6, <1>7 DEF InsertSummary
<1>8. CASE UpdateSummary(t)
    <2>1. x.had \in StateRows /\ summary[s] \in StateRows
        BY <1>1, <1>3, <1>8 DEF UpdateSummary, Transactions
    <2>2. ChangedColumns(NewRow(t), x.had, summary[s]) \in StateRows
        BY <1>4, <2>1, ChangedColumnsType
    <2> QED
        BY <1>6, <1>8, <2>2 DEF UpdateSummary
<1> QED
    BY <1>5, <1>7, <1>8 DEF WriteState

LEMMA CommitKeeps ==
    ASSUME JournalInv, NEW t \in Threads, Commit(t)
    PROVE  JournalInv'
<1> DEFINE x == txn[t]
<1>1. x \in Transactions
    BY DEF JournalInv, TypeOK
<1>2. table' \in [EventRows -> Value]
    BY VisibleType DEF Commit, JournalInv
<1>3. summary' \in [Streaks -> StateRows \cup {NoRow}]
    <2>1. PICK S \in SUBSET Streaks : x.rows \in [S -> StateRows]
        BY <1>1 DEF Transactions
    <2> QED
        BY <2>1 DEF Commit, JournalInv, TypeOK, HoldsSummary
<1>4. edits' \in Seq(Edits)
    <2>1. [row |-> x.press.row, old |-> x.old, new |-> x.new] \in Edits
        BY <1>1, PressType DEF Transactions, Edits
    <2> QED
        BY <2>1 DEF Commit, JournalInv, TypeOK
<1>5. txn' \in [Threads -> Transactions] /\ \A u \in Threads : RequestOK(txn'[u])
    <2>1. RequestOK(Idle)
        BY DEF RequestOK, Recomputing, Idle
    <2> QED
        BY <2>1, IdleType DEF Commit, JournalInv, TypeOK
<1> QED
    BY <1>2, <1>3, <1>4, <1>5 DEF Commit, JournalInv, TypeOK

-----------------------------------------------------------------------------
LEMMA JournalInductive == JournalInv /\ [Next]_vars => JournalInv'
<1> SUFFICES ASSUME JournalInv, [Next]_vars PROVE JournalInv'
    OBVIOUS
<1>1. CASE \E t \in Threads : (\E p \in Presses : Press(t, p)) \/ Step(t) \/ Die(t)
    BY <1>1, PressKeeps, ReadsKeep, FlushKeeps, HistoryReadsKeep, WriteKeeps, CommitKeeps,
       RollbackKeeps DEF Step, Die
<1>2. CASE NextDay
    BY <1>2 DEF NextDay, JournalInv, TypeOK
<1>3. CASE UNCHANGED vars
    BY <1>3 DEF vars, JournalInv, TypeOK
<1> QED
    BY <1>1, <1>2, <1>3 DEF Next

LEMMA JournalInvariant == Spec => []JournalInv
<1>1. Init => JournalInv
    BY IdleType, DataAssumption, JournalAssumption
       DEF Init, JournalInv, TypeOK, RequestOK, Recomputing, Idle, Value
<1>2. JournalInv /\ [Next]_vars => JournalInv'
    BY JournalInductive
<1> QED
    BY <1>1, <1>2, PTL DEF Spec

(* Rows, summaries, the edit log and every request in flight keep their    *)
(* types whatever the interleaving, for every number of threads.           *)
THEOREM JournalTypeCorrect == Spec => []TypeOK
<1>1. JournalInv => TypeOK
    BY DEF JournalInv
<1> QED
    BY <1>1, JournalInvariant, PTL

-----------------------------------------------------------------------------
(* Why requests never wait in a circle.  A request holds nothing when it   *)
(* waits for its event row, so nobody waits for it; and a bad-day request  *)
(* that waits for a summary only holds summaries that come earlier in the  *)
(* order in which every request visits them.                               *)

Done(x) == Len(ScanOrder) - Len(x.todo)

InScanOrder(x) ==
    /\ Len(x.todo) <= Len(ScanOrder)
    /\ \A i \in 1 .. Len(x.todo) : x.todo[i] = ScanOrder[Done(x) + i]
    /\ \A s \in DOMAIN x.rows : \E i \in 1 .. Done(x) : ScanOrder[i] = s

HoldsOK(x) ==
    /\ x.step \in {"idle", "audit", "rules", "flush"} => ~x.dirty /\ DOMAIN x.rows = {}
    /\ x.step = "clock" =>
          /\ ~x.dirty => DOMAIN x.rows = {}
          /\ IsHabit(x.press) => ~x.dirty
    /\ IsHabit(x.press) /\ x.step \notin {"idle", "commit"} =>
          DOMAIN x.rows = {} /\ Len(x.todo) = 1
    /\ ~IsHabit(x.press) => InScanOrder(x)
    /\ ~IsHabit(x.press) /\ x.step \in {"log", "bad", "state", "write"} => x.dirty
    /\ ~IsHabit(x.press) /\ x.step # "idle" => x.new # NoRow

LockInv == JournalInv /\ \A t \in Threads : HoldsOK(txn[t])

LEMMA ScanOrderType == Len(ScanOrder) \in Nat /\ ScanOrder \in Seq(Streaks)
    BY DataAssumption, LenProperties

LEMMA NothingHeld ==
    ASSUME NEW x, x.todo = << >>, x.rows = << >>
    PROVE  InScanOrder(x) /\ DOMAIN x.rows = {} /\ Len(x.todo) = 0
<1>1. Len(x.todo) = 0
    OBVIOUS
<1>2. DOMAIN x.rows = {}
    OBVIOUS
<1> QED
    BY <1>1, <1>2, ScanOrderType DEF InScanOrder

LEMMA IdleHolds == HoldsOK(Idle)
<1>1. Idle.todo = << >> /\ Idle.rows = << >> /\ Idle.step = "idle" /\ Idle.dirty = FALSE
    BY DEF Idle
<1> QED
    BY <1>1, NothingHeld DEF HoldsOK

(* A request that only changes locals the invariant does not mention, or   *)
(* moves on without writing, keeps what it holds in order.                 *)
LEMMA SameScan ==
    ASSUME NEW x, NEW y, y.todo = x.todo, y.rows = x.rows, InScanOrder(x)
    PROVE  InScanOrder(y)
    BY DEF InScanOrder, Done

LEMMA OneHolderKeeps ==
    ASSUME LockInv, JournalInv', NEW t \in Threads, NEW y, HoldsOK(y),
           txn' = [txn EXCEPT ![t] = y]
    PROVE  LockInv'
    BY DEF LockInv, JournalInv, TypeOK

LEMMA PressHolds ==
    ASSUME LockInv, JournalInv', NEW t \in Threads, NEW p \in Presses, Press(t, p)
    PROVE  LockInv'
<1>1. p \in AllPresses /\ table[p.row] \in Value
    BY DataAssumption, PressType DEF LockInv, JournalInv, TypeOK
<1> DEFINE y == txn'[t]
<1>2. /\ y.step = IF IsPrefs(p) THEN "flush" ELSE "audit"
      /\ y.press = p /\ y.new = After(p, table[p.row])
      /\ y.todo = IF IsHabit(p) THEN <<StreakOf(p)>> ELSE << >>
      /\ y.rows = << >> /\ y.dirty = FALSE
    BY DEF Press, Idle
<1>3. ~IsHabit(p) => y.new # NoRow
    <2>1. CASE table[p.row] = NoRow
        BY <1>2, <2>1, DataAssumption DEF After, GraceDefault
    <2>2. CASE table[p.row] \in BOOLEAN
        <3>1. (~table[p.row]) \in BOOLEAN
            BY <2>2
        <3>2. table[p.row] # NoRow
            BY <2>2, DataAssumption
        <3> QED
            BY <1>2, <3>1, <3>2, DataAssumption DEF After
    <2> QED
        BY <1>1, <2>1, <2>2 DEF Value
<1>4. DOMAIN y.rows = {} /\ (IsHabit(p) => Len(y.todo) = 1)
    BY <1>2
<1>5. ~IsHabit(p) => InScanOrder(y)
    BY <1>2, NothingHeld
<1>6. HoldsOK(y)
    <2> HIDE DEF y
    <2> QED
        BY <1>2, <1>3, <1>4, <1>5 DEF HoldsOK
<1>7. ASSUME NEW u \in Threads, u # t PROVE HoldsOK(txn'[u])
    <2>1. txn'[u] = [txn[u] EXCEPT !.alone = FALSE] /\ txn[u] \in Transactions
        BY <1>7 DEF Press, LockInv, JournalInv, TypeOK
    <2>2. /\ txn'[u].step = txn[u].step /\ txn'[u].press = txn[u].press
          /\ txn'[u].todo = txn[u].todo /\ txn'[u].rows = txn[u].rows
          /\ txn'[u].dirty = txn[u].dirty /\ txn'[u].new = txn[u].new
        BY <2>1 DEF Transactions
    <2> QED
        BY <2>2, SameScan DEF LockInv, HoldsOK
<1> QED
    BY <1>6, <1>7 DEF LockInv

LEMMA ReadsHold ==
    ASSUME LockInv, JournalInv', NEW t \in Threads,
           Audit(t) \/ ReadClock(t) \/ ReadRules(t)
    PROVE  LockInv'
<1> DEFINE x == txn[t]
           y == txn'[t]
<1>1. x \in Transactions /\ HoldsOK(x)
    BY DEF LockInv, JournalInv, TypeOK
<1>2. txn' = [txn EXCEPT ![t] = y] /\ y.press = x.press /\ y.rows = x.rows
      /\ y.dirty = x.dirty /\ y.new = x.new
    BY <1>1 DEF Audit, ReadClock, ReadRules, LockInv, JournalInv, TypeOK, Transactions
<1>3. CASE Audit(t)
    <2>1. /\ x.step = "audit" /\ y.todo = x.todo
          /\ y.step = IF IsHabit(x.press) THEN "clock" ELSE "rules"
        BY <1>1, <1>3 DEF Audit, LockInv, JournalInv, TypeOK, Transactions
    <2>2. HoldsOK(y)
        <3> HIDE DEF x, y
        <3> QED
            BY <1>1, <1>2, <2>1, SameScan DEF HoldsOK
    <2> QED
        BY <1>2, <2>2, OneHolderKeeps
<1>4. CASE ReadClock(t)
    <2>1. /\ x.step = "clock" /\ y.todo = x.todo
          /\ y.step = IF IsHabit(x.press) THEN "rules"
                      ELSE IF x.dirty THEN "log" ELSE "flush"
        BY <1>1, <1>4 DEF ReadClock, LockInv, JournalInv, TypeOK, Transactions
    <2>2. HoldsOK(y)
        <3> HIDE DEF x, y
        <3> QED
            BY <1>1, <1>2, <2>1, SameScan DEF HoldsOK
    <2> QED
        BY <1>2, <2>2, OneHolderKeeps
<1>5. CASE ReadRules(t)
    <2>1. /\ x.step = "rules"
          /\ y.todo = IF IsHabit(x.press) THEN x.todo ELSE ScanOrder
          /\ y.step = IF IsHabit(x.press) \/ ScanOrder = << >> THEN "flush" ELSE "clock"
        BY <1>1, <1>5 DEF ReadRules, LockInv, JournalInv, TypeOK, Transactions
    <2>2. ~x.dirty /\ DOMAIN x.rows = {}
        BY <1>1, <2>1 DEF HoldsOK
    <2>3. ~IsHabit(x.press) => InScanOrder(y)
        <3> HIDE DEF x, y
        <3> QED
            BY <1>2, <2>1, <2>2, ScanOrderType DEF InScanOrder, Done
    <2>4. HoldsOK(y)
        <3> HIDE DEF x, y
        <3> QED
            BY <1>1, <1>2, <2>1, <2>2, <2>3 DEF HoldsOK
    <2> QED
        BY <1>2, <2>4, OneHolderKeeps
<1> QED
    BY <1>3, <1>4, <1>5

LEMMA RollbackHolds ==
    ASSUME LockInv, JournalInv', NEW t \in Threads, txn' = [txn EXCEPT ![t] = Idle]
    PROVE  LockInv'
    BY IdleHolds, OneHolderKeeps

LEMMA FlushHolds ==
    ASSUME LockInv, JournalInv', NEW t \in Threads, Flush(t)
    PROVE  LockInv'
<1> DEFINE x == txn[t]
           y == txn'[t]
<1>1. x \in Transactions /\ HoldsOK(x) /\ x.step = "flush"
    BY DEF LockInv, JournalInv, TypeOK, Flush, InsertEvent, InsertConflict, UpdateEvent,
           UpdateVanished, DeleteEvent, DeleteVanished, AtFlush
<1>2. CASE Rollback(t)
    BY <1>2, RollbackHolds DEF Rollback
<1>3. ASSUME NEW wrote \in BOOLEAN, Flushed(t, wrote), wrote \/ x.new = NoRow
      PROVE  LockInv'
    <2>1. /\ txn' = [txn EXCEPT ![t] = y] /\ y.press = x.press /\ y.rows = x.rows
          /\ y.todo = x.todo /\ y.new = x.new /\ y.dirty = wrote
          /\ y.step = IF x.todo = << >> THEN "commit" ELSE "log"
        BY <1>1, <1>3 DEF Flushed, LockInv, JournalInv, TypeOK, Transactions
    <2>2. HoldsOK(y)
        <3> HIDE DEF x, y
        <3> QED
            BY <1>1, <1>3, <2>1, SameScan DEF HoldsOK
    <2> QED
        BY <2>1, <2>2, OneHolderKeeps
<1> QED
    BY <1>2, <1>3 DEF Flush, InsertEvent, InsertConflict, UpdateEvent, UpdateVanished,
                      DeleteEvent, DeleteVanished

LEMMA HistoryReadsHold ==
    ASSUME LockInv, JournalInv', NEW t \in Threads,
           ReadLog(t) \/ ReadBadDays(t) \/ ReadState(t)
    PROVE  LockInv'
<1> DEFINE x == txn[t]
           y == txn'[t]
<1>1. x \in Transactions /\ HoldsOK(x)
    BY DEF LockInv, JournalInv, TypeOK
<1>2. /\ txn' = [txn EXCEPT ![t] = y] /\ y.press = x.press /\ y.rows = x.rows
      /\ y.dirty = x.dirty /\ y.new = x.new /\ y.todo = x.todo
      /\ x.step \in {"log", "bad", "state"} /\ y.step \in {"bad", "state", "write"}
    BY <1>1 DEF ReadLog, ReadBadDays, ReadState, LockInv, JournalInv, TypeOK, Transactions
<1>3. HoldsOK(y)
    <2> HIDE DEF x, y
    <2> QED
        BY <1>1, <1>2, SameScan DEF HoldsOK
<1> QED
    BY <1>2, <1>3, OneHolderKeeps

(* Writing a summary moves it from the streaks to do to the streaks held.  *)
LEMMA WriteHolds ==
    ASSUME LockInv, JournalInv', NEW t \in Threads, WriteState(t)
    PROVE  LockInv'
<1> DEFINE x == txn[t]
           y == txn'[t]
           s == Head(x.todo)
<1>1. x \in Transactions /\ HoldsOK(x) /\ RequestOK(x) /\ x.step = "write"
    BY DEF LockInv, JournalInv, TypeOK, WriteState, InsertSummary, SummaryConflict,
           UpdateSummary, AtWrite
<1>2. x.todo \in Seq(Streaks) /\ x.todo # << >>
    BY <1>1 DEF Transactions, RequestOK, Recomputing
<1>3. /\ Len(x.todo) \in Nat \ {0} /\ s = x.todo[1]
      /\ Len(Tail(x.todo)) = Len(x.todo) - 1
      /\ \A i \in 1 .. Len(Tail(x.todo)) : Tail(x.todo)[i] = x.todo[i + 1]
    BY <1>2, HeadTailProperties, EmptySeq
<1>4. CASE SummaryConflict(t)
    BY <1>4, RollbackHolds DEF SummaryConflict, Rollback
<1>5. ASSUME NEW row, Wrote(t, row)
      PROVE  LockInv'
    <2>1. /\ txn' = [txn EXCEPT ![t] = y] /\ y.press = x.press /\ y.new = x.new
          /\ y.dirty = x.dirty /\ y.todo = Tail(x.todo)
          /\ DOMAIN y.rows = DOMAIN x.rows \cup {s}
          /\ y.step = IF Len(x.todo) = 1 THEN "commit" ELSE "clock"
        BY <1>1, <1>5 DEF Wrote, LockInv, JournalInv, TypeOK, Transactions
    <2>2. ASSUME InScanOrder(x) PROVE InScanOrder(y)
        <3>1. Done(y) = Done(x) + 1 /\ Done(x) \in Nat /\ Len(ScanOrder) \in Nat
            <4>1. Len(x.todo) <= Len(ScanOrder)
                BY <2>2 DEF InScanOrder
            <4>2. Len(y.todo) = Len(x.todo) - 1
                BY <1>3, <2>1
            <4> HIDE DEF x, y, s
            <4> QED
                BY <1>3, <4>1, <4>2, ScanOrderType DEF Done
        <3>2. s = ScanOrder[Done(y)]
            BY <1>3, <2>2, <3>1 DEF InScanOrder
        <3>3. \A i \in 1 .. Len(y.todo) : y.todo[i] = ScanOrder[Done(y) + i]
            <4> TAKE i \in 1 .. Len(y.todo)
            <4>1. i + 1 \in 1 .. Len(x.todo) /\ y.todo[i] = x.todo[i + 1]
                BY <1>3, <2>1
            <4>2. x.todo[i + 1] = ScanOrder[Done(x) + (i + 1)]
                BY <2>2, <4>1 DEF InScanOrder
            <4>3. Done(x) + (i + 1) = Done(y) + i
                BY <1>3, <2>1, <3>1
            <4> QED
                BY <4>1, <4>2, <4>3
        <3>4. \A z \in DOMAIN y.rows : \E i \in 1 .. Done(y) : ScanOrder[i] = z
            <4> TAKE z \in DOMAIN y.rows
            <4>1. CASE z = s
                BY <3>1, <3>2, <4>1
            <4>2. CASE z \in DOMAIN x.rows
                <5>1. PICK i \in 1 .. Done(x) : ScanOrder[i] = z
                    BY <2>2, <4>2 DEF InScanOrder
                <5> QED
                    BY <3>1, <5>1
            <4> QED
                BY <2>1, <4>1, <4>2
        <3>5. Len(y.todo) <= Len(ScanOrder)
            BY <1>3, <2>1, <2>2, <3>1 DEF InScanOrder
        <3> QED
            BY <3>3, <3>4, <3>5 DEF InScanOrder
    <2>3. HoldsOK(y)
        <3> HIDE DEF x, y
        <3> QED
            BY <1>1, <2>1, <2>2 DEF HoldsOK
    <2> QED
        BY <2>1, <2>3, OneHolderKeeps
<1> QED
    BY <1>4, <1>5 DEF WriteState, InsertSummary, UpdateSummary

LEMMA LockInductive == LockInv /\ [Next]_vars => LockInv'
<1> SUFFICES ASSUME LockInv, [Next]_vars PROVE LockInv'
    OBVIOUS
<1>1. JournalInv'
    BY JournalInductive DEF LockInv
<1>2. CASE \E t \in Threads : (\E p \in Presses : Press(t, p)) \/ Step(t) \/ Die(t)
    BY <1>1, <1>2, PressHolds, ReadsHold, FlushHolds, HistoryReadsHold, WriteHolds,
       RollbackHolds DEF Step, Die, Rollback, Commit
<1>3. CASE NextDay
    BY <1>1, <1>3 DEF NextDay, LockInv
<1>4. CASE UNCHANGED vars
    BY <1>1, <1>4 DEF vars, LockInv
<1> QED
    BY <1>2, <1>3, <1>4 DEF Next

LEMMA LockInvariant == Spec => []LockInv
<1>1. Init => JournalInv
    BY IdleType, DataAssumption, JournalAssumption
       DEF Init, JournalInv, TypeOK, RequestOK, Recomputing, Idle, Value
<1>2. Init => LockInv
    BY <1>1, IdleHolds DEF Init, LockInv
<1>3. LockInv /\ [Next]_vars => LockInv'
    BY LockInductive
<1> QED
    BY <1>2, <1>3, PTL DEF Spec

-----------------------------------------------------------------------------
(* A waiting request that somebody waits for is waiting for a summary: a    *)
(* request that waits for its event row holds nothing yet.                 *)
LEMMA WaiterHoldsSummaries ==
    ASSUME LockInv, NEW t \in Threads, NEW u \in Threads, NEW v \in Threads,
           WaitsFor(t, u), WaitsFor(u, v)
    PROVE  AtWrite(u)
<1>1. HoldsOK(txn[u])
    BY DEF LockInv
<1>2. txn[u].dirty \/ DOMAIN txn[u].rows # {}
    BY DEF WaitsFor, HoldsEvent, HoldsSummary
<1>3. ~AtFlush(u)
    BY <1>1, <1>2 DEF HoldsOK, AtFlush
<1> QED
    BY <1>3 DEF WaitsFor

(* If it is waited for at a summary, the one it waits for comes later.     *)
LEMMA WaitsGoUp ==
    ASSUME LockInv, NEW t \in Threads, NEW u \in Threads,
           AtWrite(t), AtWrite(u), WaitsFor(t, u)
    PROVE  \E i, j \in 1 .. Len(ScanOrder) :
               /\ i < j
               /\ Head(txn[t].todo) = ScanOrder[i]
               /\ Head(txn[u].todo) = ScanOrder[j]
<1> DEFINE x == txn[u]
           s == Head(txn[t].todo)
<1>1. x \in Transactions /\ HoldsOK(x) /\ RequestOK(x) /\ x.step = "write"
    BY DEF LockInv, JournalInv, TypeOK, AtWrite
<1>2. s \in DOMAIN x.rows
    BY DEF WaitsFor, HoldsSummary, AtFlush, AtWrite
<1>3. InScanOrder(x)
    BY <1>1, <1>2 DEF HoldsOK
<1>4. Len(x.todo) \in Nat \ {0} /\ Head(x.todo) = x.todo[1]
    <2>1. x.todo \in Seq(Streaks) /\ x.todo # << >>
        BY <1>1 DEF Transactions, RequestOK, Recomputing
    <2> QED
        BY <2>1, EmptySeq
<1> HIDE DEF x, s
<1>5. PICK i \in 1 .. Done(x) : ScanOrder[i] = s
    BY <1>2, <1>3 DEF InScanOrder
<1>6. Done(x) \in Nat /\ Done(x) + 1 <= Len(ScanOrder) /\ Len(ScanOrder) \in Nat
    BY <1>3, <1>4, ScanOrderType DEF InScanOrder, Done
<1>7. Head(x.todo) = ScanOrder[Done(x) + 1]
    BY <1>3, <1>4 DEF InScanOrder
<1>8. i \in 1 .. Len(ScanOrder) /\ Done(x) + 1 \in 1 .. Len(ScanOrder) /\ i < Done(x) + 1
    BY <1>5, <1>6
<1> QED
    BY <1>5, <1>7, <1>8 DEF x, s

(* A nonempty set of numbers up to n has a greatest one: its distance from *)
(* n is the least of all the distances.                                    *)
LEMMA GreatestNumber ==
    ASSUME NEW n \in Nat, NEW D \in SUBSET (0 .. n), D # {}
    PROVE  \E d \in D : \A e \in D : e <= d
<1> DEFINE Mirror == {n - d : d \in D}
           Below == {ss \in Nat \X Nat : ss[1] < ss[2]}
<1>1. Mirror \in SUBSET Nat /\ Mirror # {}
    <2>1. \A d \in D : n - d \in Nat
        OBVIOUS
    <2>2. PICK d \in D : TRUE
        OBVIOUS
    <2>3. n - d \in Mirror
        OBVIOUS
    <2> QED
        BY <2>1, <2>3
<1>2. PICK m \in Mirror : \A k \in Mirror : ~(<<k, m>> \in Below)
    <2>1. OpToRel(<, Nat) = Below
        BY Zenon DEF OpToRel
    <2>2. IsWellFoundedOn(Below, Nat)
        BY <2>1, NatLessThanWellFounded, Zenon
    <2> HIDE DEF Mirror, Below
    <2> QED
        BY <1>1, <2>2, WFMin
<1>3. PICK d \in D : m = n - d
    OBVIOUS
<1>4. ASSUME NEW e \in D PROVE e <= d
    <2>1. n - e \in Mirror
        OBVIOUS
    <2>2. /\ d \in Nat /\ d <= n
          /\ e \in Nat /\ e <= n
        <3> HIDE DEF Mirror, Below
        <3> QED
            OBVIOUS
    <2>3. n - e \in Nat /\ n - d \in Nat
        BY <2>2
    <2>4. ~(<<n - e, n - d>> \in Below)
        BY <1>2, <1>3, <2>1
    <2>5. ~(n - e < n - d)
        BY <2>3, <2>4
    <2> QED
        BY <2>2, <2>5
<1> QED
    BY <1>4

(* So the member of a circle that waits furthest on would have to wait for *)
(* one that waits further still.                                           *)
LEMMA NoCircle ==
    ASSUME LockInv
    PROVE  NoWaitCycle
<1> SUFFICES ASSUME NEW W \in SUBSET Threads, W # {},
                    \A t \in W : \E u \in W : WaitsFor(t, u)
             PROVE  FALSE
    BY DEF NoWaitCycle
<1> DEFINE Writers == {t \in W : AtWrite(t)}
           At(i) == \E t \in Writers : Head(txn[t].todo) = ScanOrder[i]
           Places == {i \in 1 .. Len(ScanOrder) : At(i)}
<1>1. \A t \in W : \E u \in Writers : WaitsFor(t, u)
    BY WaiterHoldsSummaries
<1>2. Len(ScanOrder) \in Nat /\ Places \in SUBSET (0 .. Len(ScanOrder))
    BY ScanOrderType
<1>3. ASSUME NEW t \in Writers
      PROVE  \E i, j \in 1 .. Len(ScanOrder) :
                /\ i < j /\ j \in Places
                /\ Head(txn[t].todo) = ScanOrder[i]
    <2>1. PICK u \in Writers : WaitsFor(t, u)
        BY <1>1
    <2> QED
        BY <2>1, WaitsGoUp
<1>4. PICK t \in Writers : TRUE
    BY <1>1
<1>5. Places # {}
    BY <1>3, <1>4
<1>6. PICK top \in Places : \A i \in Places : i <= top
    <2> HIDE DEF Places
    <2> QED
        BY <1>2, <1>5, GreatestNumber
<1>7. PICK w \in Writers : Head(txn[w].todo) = ScanOrder[top]
    BY <1>6
<1>8. PICK i, j \in 1 .. Len(ScanOrder) : /\ i < j /\ j \in Places
                                         /\ Head(txn[w].todo) = ScanOrder[i]
    BY <1>3, <1>7
<1>9. i = top
    BY <1>2, <1>6, <1>7, <1>8, DataAssumption, LenProperties
<1> QED
    BY <1>2, <1>6, <1>8, <1>9

(* Journal requests never deadlock in the database, whatever the number of *)
(* threads and streaks, as long as every bad-day request visits the active *)
(* streaks in the same order.                                              *)
THEOREM JournalNeverDeadlocks == Spec => []NoWaitCycle
<1>1. LockInv => NoWaitCycle
    BY NoCircle
<1> QED
    BY <1>1, LockInvariant, PTL

-----------------------------------------------------------------------------
(* Why a streak with a logged day has a summary.  A mark that commits has  *)
(* written the summary of its own streak, whatever else runs.              *)

MarkOK(x) ==
    IsHabit(x.press) /\ x.step # "idle" =>
        IF x.step = "commit" THEN StreakOf(x.press) \in DOMAIN x.rows
                             ELSE x.todo = <<StreakOf(x.press)>>

MarkInv == LockInv /\ (\A t \in Threads : MarkOK(txn[t])) /\ LoggedStreakHasSummary

LEMMA OneMarkKeeps ==
    ASSUME MarkInv, LockInv', NEW t \in Threads, NEW y, MarkOK(y),
           txn' = [txn EXCEPT ![t] = y], UNCHANGED <<table, summary>>
    PROVE  MarkInv'
<1>1. \A u \in Threads : MarkOK(txn'[u])
    BY DEF MarkInv, LockInv, JournalInv, TypeOK
<1>2. \A s \in Streaks : LogIn(table', s) = LogIn(table, s)
    OBVIOUS
<1>3. LoggedStreakHasSummary'
    BY <1>2 DEF MarkInv, LoggedStreakHasSummary
<1> QED
    BY <1>1, <1>3 DEF MarkInv

LEMMA IdleMark == MarkOK(Idle)
    BY DEF MarkOK, Idle

LEMMA PressMarks ==
    ASSUME MarkInv, LockInv', NEW t \in Threads, NEW p \in Presses, Press(t, p)
    PROVE  MarkInv'
<1> DEFINE y == txn'[t]
<1>1. /\ y.press = p /\ y.step # "commit"
      /\ y.todo = IF IsHabit(p) THEN <<StreakOf(p)>> ELSE << >>
    BY DEF Press, Idle
<1>2. MarkOK(y)
    <2> HIDE DEF y
    <2> QED
        BY <1>1 DEF MarkOK
<1>3. ASSUME NEW u \in Threads, u # t PROVE MarkOK(txn'[u])
    <2>1. txn'[u] = [txn[u] EXCEPT !.alone = FALSE] /\ txn[u] \in Transactions
        BY <1>3 DEF Press, MarkInv, LockInv, JournalInv, TypeOK
    <2>2. /\ txn'[u].step = txn[u].step /\ txn'[u].press = txn[u].press
          /\ txn'[u].todo = txn[u].todo /\ txn'[u].rows = txn[u].rows
        BY <2>1 DEF Transactions
    <2> QED
        BY <2>2 DEF MarkInv, MarkOK
<1>4. LoggedStreakHasSummary'
    <2>1. UNCHANGED <<table, summary>>
        BY DEF Press
    <2>2. \A s \in Streaks : LogIn(table', s) = LogIn(table, s)
        BY <2>1
    <2> QED
        BY <2>1, <2>2 DEF MarkInv, LoggedStreakHasSummary
<1> QED
    BY <1>2, <1>3, <1>4 DEF MarkInv

LEMMA ReadsMark ==
    ASSUME MarkInv, LockInv', NEW t \in Threads,
           \/ Audit(t) \/ ReadClock(t) \/ ReadRules(t)
           \/ ReadLog(t) \/ ReadBadDays(t) \/ ReadState(t)
    PROVE  MarkInv'
<1> DEFINE x == txn[t]
           y == txn'[t]
<1>1. x \in Transactions /\ MarkOK(x)
    BY DEF MarkInv, LockInv, JournalInv, TypeOK
<1>2. /\ txn' = [txn EXCEPT ![t] = y] /\ UNCHANGED <<table, summary>>
      /\ y.press = x.press /\ x.step \notin {"idle", "commit"} /\ y.step # "commit"
      /\ IsHabit(x.press) => y.todo = x.todo
    BY <1>1 DEF Audit, ReadClock, ReadRules, ReadLog, ReadBadDays, ReadState, OnlyTxn,
                MarkInv, LockInv, JournalInv, TypeOK, Transactions
<1> HIDE DEF x, y
<1>3. MarkOK(y)
    BY <1>1, <1>2 DEF MarkOK
<1> QED
    BY <1>2, <1>3, OneMarkKeeps

LEMMA WritesMark ==
    ASSUME MarkInv, LockInv', NEW t \in Threads, Flush(t) \/ WriteState(t)
    PROVE  MarkInv'
<1> DEFINE x == txn[t]
           y == txn'[t]
<1>1. x \in Transactions /\ MarkOK(x)
    BY DEF MarkInv, LockInv, JournalInv, TypeOK
<1>2. CASE Rollback(t)
    BY <1>2, IdleMark, OneMarkKeeps DEF Rollback
<1>3. ASSUME NEW wrote, AtFlush(t), Flushed(t, wrote)
      PROVE  MarkInv'
    <2>1. /\ txn' = [txn EXCEPT ![t] = y] /\ UNCHANGED <<table, summary>>
          /\ y.press = x.press /\ x.step = "flush" /\ y.todo = x.todo
          /\ y.step = IF x.todo = << >> THEN "commit" ELSE "log"
        BY <1>1, <1>3 DEF AtFlush, Flushed, OnlyTxn, MarkInv, LockInv, JournalInv, TypeOK,
                          Transactions
    <2> HIDE DEF x, y
    <2>2. MarkOK(y)
        BY <1>1, <2>1, SMTT(30) DEF MarkOK
    <2> QED
        BY <2>1, <2>2, OneMarkKeeps
<1>4. ASSUME NEW row, AtWrite(t), Wrote(t, row)
      PROVE  MarkInv'
    <2>1. /\ txn' = [txn EXCEPT ![t] = y] /\ UNCHANGED <<table, summary>>
          /\ y.press = x.press /\ x.step = "write"
          /\ DOMAIN y.rows = DOMAIN x.rows \cup {Head(x.todo)}
          /\ y.step = IF Len(x.todo) = 1 THEN "commit" ELSE "clock"
        BY <1>1, <1>4 DEF AtWrite, Wrote, OnlyTxn, MarkInv, LockInv, JournalInv, TypeOK,
                          Transactions
    <2> HIDE DEF x, y
    <2>2. MarkOK(y)
        <3> SUFFICES ASSUME IsHabit(x.press)
                     PROVE  y.step = "commit" /\ StreakOf(x.press) \in DOMAIN y.rows
            BY <2>1 DEF MarkOK
        <3>1. x.todo = <<StreakOf(x.press)>>
            BY <1>1, <2>1 DEF MarkOK
        <3>2. Len(x.todo) = 1 /\ Head(x.todo) = StreakOf(x.press)
            BY <3>1
        <3> QED
            BY <2>1, <3>2
    <2> QED
        BY <2>1, <2>2, OneMarkKeeps
<1> QED
    BY <1>2, <1>3, <1>4
       DEF Flush, InsertEvent, InsertConflict, UpdateEvent, UpdateVanished, DeleteEvent,
           DeleteVanished, WriteState, InsertSummary, SummaryConflict, UpdateSummary

(* A commit changes one row at most, and a mark's row belongs to a streak  *)
(* whose summary it writes.                                                *)
LEMMA CommitMarks ==
    ASSUME MarkInv, LockInv', NEW t \in Threads, Commit(t)
    PROVE  MarkInv'
<1> DEFINE x == txn[t]
<1>1. /\ x \in Transactions /\ MarkOK(x) /\ x.step = "commit"
      /\ table \in [EventRows -> Value] /\ summary \in [Streaks -> StateRows \cup {NoRow}]
    BY DEF MarkInv, LockInv, JournalInv, TypeOK, Commit
<1>2. \A u \in Threads : MarkOK(txn'[u])
    BY IdleMark DEF MarkInv, LockInv, JournalInv, TypeOK, Commit
<1>3. LoggedStreakHasSummary'
    <2> SUFFICES ASSUME NEW s \in Streaks, NEW e \in Days, table'[HabitRow(s, e)] # NoRow
                 PROVE  summary'[s] # NoRow
        BY DEF LoggedStreakHasSummary, LogIn
    <2>1. HabitRow(s, e) \in EventRows /\ HabitRow(s, e) \in HabitRows
        BY DEF EventRows, HabitRows
    <2>2. summary'[s] = IF s \in DOMAIN x.rows THEN x.rows[s] ELSE summary[s]
        BY DEF Commit, HoldsSummary
    <2>3. s \in DOMAIN x.rows => x.rows[s] # NoRow
        BY <1>1, DataAssumption DEF Transactions
    <2>4. CASE table[HabitRow(s, e)] # NoRow
        <3>1. summary[s] # NoRow
            BY <2>4 DEF MarkInv, LoggedStreakHasSummary, LogIn
        <3> QED
            BY <2>2, <2>3, <3>1
    <2>5. CASE table[HabitRow(s, e)] = NoRow
        <3>1. x.press.row = HabitRow(s, e)
            BY <1>1, <2>1, <2>5 DEF Commit, Visible
        <3>2. IsHabit(x.press) /\ StreakOf(x.press) = s
            BY <2>1, <3>1 DEF IsHabit, StreakOf, HabitRow
        <3> QED
            BY <1>1, <2>2, <2>3, <3>2 DEF MarkOK
    <2> QED
        BY <2>4, <2>5
<1> QED
    BY <1>2, <1>3 DEF MarkInv

LEMMA MarkInductive == MarkInv /\ [Next]_vars => MarkInv'
<1> SUFFICES ASSUME MarkInv, [Next]_vars PROVE MarkInv'
    OBVIOUS
<1>1. LockInv'
    BY LockInductive DEF MarkInv
<1>2. ASSUME NEW t \in Threads, \/ \E p \in Presses : Press(t, p)
                                \/ Step(t) \/ Die(t)
      PROVE  MarkInv'
    <2>1. CASE Rollback(t)
        BY <1>1, <2>1, IdleMark, OneMarkKeeps DEF Rollback
    <2> QED
        BY <1>1, <1>2, <2>1, PressMarks, ReadsMark, WritesMark, CommitMarks DEF Step, Die
<1>3. CASE UNCHANGED <<table, summary, txn>>
    <2>1. \A s \in Streaks : LogIn(table', s) = LogIn(table, s)
        BY <1>3
    <2> QED
        BY <1>1, <1>3, <2>1 DEF MarkInv, LoggedStreakHasSummary
<1> QED
    BY <1>2, <1>3 DEF Next, NextDay, vars

LEMMA MarkInit == Init => MarkInv
<1>1. Init => LoggedStreakHasSummary
    BY DEF Init, LoggedStreakHasSummary, LogIn, EventRows, HabitRows
<1>2. Init => JournalInv
    BY IdleType, DataAssumption, JournalAssumption
       DEF Init, JournalInv, TypeOK, RequestOK, Recomputing, Idle, Value
<1> QED
    BY <1>1, <1>2, IdleHolds, IdleMark DEF Init, MarkInv, LockInv

LEMMA MarkInvariant == Spec => []MarkInv
    BY MarkInit, MarkInductive, PTL DEF Spec

(* A streak with a logged day has a summary to show, however requests race *)
(* and whichever of them fail or are killed: the mark and the summary it   *)
(* first gets are committed together.                                      *)
THEOREM LoggedStreaksHaveSummaries == Spec => []LoggedStreakHasSummary
<1>1. MarkInv => LoggedStreakHasSummary
    BY DEF MarkInv
<1> QED
    BY <1>1, MarkInvariant, PTL

-----------------------------------------------------------------------------
(* A request that no other overlaps.  Everything it has read of the rows   *)
(* is still so when it commits, and what it has written is what the press  *)
(* makes of them.  The rows are arguments: now is the day, tab and sums    *)
(* are the tables.                                                         *)

ToDo(x) == {x.todo[i] : i \in DOMAIN x.todo}

(* The rows with the press of request x carried out.                       *)
Pressed(x, tab) == [tab EXCEPT ![x.press.row] = x.new]

Touched(p) ==
    IF IsHabit(p) THEN {StreakOf(p)} ELSE IF IsPrefs(p) THEN {} ELSE Active

(* The history a recompute of streak s as of day d reads after the press.  *)
HistoryOf(x, tab, s, d) ==
    [logged |-> LogIn(Pressed(x, tab), s), bad |-> BadIn(Pressed(x, tab)),
     today |-> d, grace |-> GraceIn(tab)]

RulesRead(x) ==
    \/ x.step \in {"flush", "log", "bad", "state", "write", "commit"}
    \/ x.step = "clock" /\ ~IsHabit(x.press)

PressOK(x, tab) ==
    /\ x.press \in Presses
    /\ IsPrefs(x.press) => x.step \in {"flush", "commit"}
    /\ x.old = tab[x.press.row] /\ x.new = After(x.press, x.old)

(* The audit was decided on a day of the request, perhaps not the last.    *)
AuditOK(x, now) ==
    x.step # "audit" =>
        \E d \in Days : /\ x.from <= d /\ d <= now
                        /\ x.audits = Audited(x.press, x.old, x.new, d)

ReadOK(x, tab, sums) ==
    /\ RulesRead(x) /\ ~IsPrefs(x.press) => x.grace = GraceIn(tab)
    /\ x.step \in {"log", "bad", "state", "write", "commit"} => x.dirty
    /\ x.step \in {"bad", "state", "write"} =>
          x.logged = LogIn(Pressed(x, tab), Head(x.todo))
    /\ x.step \in {"state", "write"} => x.bad = BadIn(Pressed(x, tab))
    /\ x.step = "write" => x.had = sums[Head(x.todo)]

WroteOK(x, tab, sums, now) ==
    \A s \in DOMAIN x.rows : \E d \in Days :
        d <= now /\ x.rows[s] = Recomputed(HistoryOf(x, tab, s, d), sums[s])

ScanOK(x) ==
    /\ RulesRead(x) => Touched(x.press) = DOMAIN x.rows \cup ToDo(x)
    /\ x.step = "commit" => x.todo = << >>

AloneOK(x, tab, sums, now) ==
    x.alone /\ x.step # "idle" =>
        /\ PressOK(x, tab) /\ AuditOK(x, now) /\ ReadOK(x, tab, sums)
        /\ WroteOK(x, tab, sums, now) /\ ScanOK(x)

(* While it is alone every other thread is idle.                           *)
OneAlone ==
    \A t, u \in Threads :
        t # u /\ txn[t].alone /\ txn[t].step # "idle" => txn[u].step = "idle"

DatesOK(x, now) == x.from <= now /\ x.today <= now

AloneInv ==
    /\ MarkInv /\ OneAlone
    /\ FirstToday <= today
    /\ \A t \in Threads : DatesOK(txn[t], today) /\ AloneOK(txn[t], table, summary, today)

LEMMA OneAloneKeeps ==
    ASSUME AloneInv, MarkInv', NEW t \in Threads, NEW y,
           txn' = [txn EXCEPT ![t] = y], UNCHANGED <<table, summary, today>>,
           DatesOK(y, today), AloneOK(y, table, summary, today),
           y.step = "idle" \/ (y.alone = txn[t].alone /\ txn[t].step # "idle")
    PROVE  AloneInv'
<1>1. \A u \in Threads : txn'[u] = IF u = t THEN y ELSE txn[u]
    BY DEF AloneInv, MarkInv, LockInv, JournalInv, TypeOK
<1>2. OneAlone'
    BY <1>1 DEF AloneInv, OneAlone
<1> QED
    BY <1>1, <1>2 DEF AloneInv

LEMMA DaysOrder ==
    /\ Days \subseteq Nat /\ FirstToday \in Nat
    /\ \A d \in Days : d <= d
    BY DataAssumption

LEMMA IdleAlone ==
    ASSUME NEW now, FirstToday <= now, NEW tab, NEW sums
    PROVE  DatesOK(Idle, now) /\ AloneOK(Idle, tab, sums, now) /\ Idle.step = "idle"
    BY DEF DatesOK, AloneOK, Idle

LEMMA RollbackAlone ==
    ASSUME AloneInv, MarkInv', NEW t \in Threads, Rollback(t)
    PROVE  AloneInv'
    BY IdleAlone, OneAloneKeeps DEF Rollback, AloneInv

LEMMA PressAlone ==
    ASSUME AloneInv, MarkInv', NEW t \in Threads, NEW p \in Presses, Press(t, p)
    PROVE  AloneInv'
<1> DEFINE y == txn'[t]
<1>1. /\ y.press = p /\ y.old = table[p.row] /\ y.new = After(p, table[p.row])
      /\ y.step = IF IsPrefs(p) THEN "flush" ELSE "audit"
      /\ y.todo = IF IsHabit(p) THEN <<StreakOf(p)>> ELSE << >>
      /\ y.rows = << >> /\ y.audits = FALSE /\ y.from = today /\ y.today = FirstToday
      /\ y.alone = AllIdle
    BY DEF Press, Idle
<1>2. today \in Days /\ FirstToday <= today
    BY DEF AloneInv, MarkInv, LockInv, JournalInv, TypeOK
<1>3. DatesOK(y, today)
    BY <1>1, <1>2, DaysOrder DEF DatesOK
<1>4. AloneOK(y, table, summary, today)
    <2> HIDE DEF y
    <2>1. PressOK(y, table)
        BY <1>1 DEF PressOK
    <2>2. AuditOK(y, today)
        BY <1>1, <1>2, DaysOrder DEF AuditOK, Audited
    <2>3. ReadOK(y, table, summary)
        BY <1>1 DEF ReadOK, RulesRead
    <2>4. WroteOK(y, table, summary, today)
        BY <1>1 DEF WroteOK
    <2>5. ScanOK(y)
        <3>1. ~IsHabit(p) => ToDo(y) = {}
            BY <1>1 DEF ToDo
        <3>2. IsPrefs(p) => ~IsHabit(p)
            BY DEF IsPrefs, IsHabit, HabitRows, HabitRow, PrefsRow
        <3>3. DOMAIN y.rows = {}
            BY <1>1
        <3> QED
            BY <1>1, <3>1, <3>2, <3>3 DEF ScanOK, RulesRead, Touched
    <2> QED
        BY <2>1, <2>2, <2>3, <2>4, <2>5 DEF AloneOK
<1>5. ASSUME NEW u \in Threads, u # t
      PROVE  /\ DatesOK(txn'[u], today) /\ ~txn'[u].alone /\ txn'[u].step = txn[u].step
    <2>1. txn'[u] = [txn[u] EXCEPT !.alone = FALSE] /\ txn[u] \in Transactions
        BY <1>5 DEF Press, AloneInv, MarkInv, LockInv, JournalInv, TypeOK
    <2>2. /\ txn'[u].from = txn[u].from /\ txn'[u].today = txn[u].today
          /\ txn'[u].alone = FALSE /\ txn'[u].step = txn[u].step
        BY <2>1 DEF Transactions
    <2> QED
        BY <2>2 DEF AloneInv, DatesOK
<1>6. UNCHANGED <<table, summary, today>>
    BY DEF Press
<1>7. OneAlone'
    <2> HIDE DEF y
    <2> SUFFICES ASSUME NEW v \in Threads, NEW u \in Threads, v # u,
                        txn'[v].alone, txn'[v].step # "idle"
                 PROVE  txn'[u].step = "idle"
        BY DEF OneAlone
    <2>1. v = t
        BY <1>5
    <2> QED
        BY <1>1, <1>5, <2>1 DEF AllIdle, y
<1>8. \A u \in Threads : (DatesOK(txn[u], today) /\ AloneOK(txn[u], table, summary, today))'
    <2> TAKE u \in Threads
    <2>1. CASE u = t
        BY <1>3, <1>4, <1>6, <2>1
    <2>2. CASE u # t
        <3>1. AloneOK(txn'[u], table, summary, today)
            BY <1>5, <2>2 DEF AloneOK
        <3> QED
            BY <1>5, <1>6, <2>2, <3>1
    <2> QED
        BY <2>1, <2>2
<1> QED
    BY <1>2, <1>6, <1>7, <1>8 DEF AloneInv

(* The clock and the rules are read before anything is written.            *)
LEMMA ReadsAlone ==
    ASSUME AloneInv, MarkInv', NEW t \in Threads,
           Audit(t) \/ ReadClock(t) \/ ReadRules(t)
    PROVE  AloneInv'
<1> DEFINE x == txn[t]
           y == txn'[t]
<1>1. /\ x \in Transactions /\ HoldsOK(x) /\ MarkOK(x) /\ DatesOK(x, today)
      /\ AloneOK(x, table, summary, today) /\ today \in Days
    BY DEF AloneInv, MarkInv, LockInv, JournalInv, TypeOK
<1>2. /\ txn' = [txn EXCEPT ![t] = y] /\ UNCHANGED <<table, summary, today>>
      /\ x.step \notin {"idle", "flush", "commit"}
      /\ y.press = x.press /\ y.rows = x.rows /\ y.dirty = x.dirty
      /\ y.old = x.old /\ y.new = x.new /\ y.from = x.from /\ y.alone = x.alone
    BY <1>1 DEF Audit, ReadClock, ReadRules, OnlyTxn, AloneInv, MarkInv, LockInv, JournalInv,
                TypeOK, Transactions
<1>3. CASE Audit(t)
    <2>1. /\ x.step = "audit" /\ y.todo = x.todo /\ y.today = x.today
          /\ y.audits = Audited(x.press, x.old, x.new, today)
          /\ y.step = IF IsHabit(x.press) THEN "clock" ELSE "rules"
        BY <1>1, <1>3 DEF Audit, AloneInv, MarkInv, LockInv, JournalInv, TypeOK, Transactions
    <2> HIDE DEF x, y
    <2>2. DatesOK(y, today)
        BY <1>1, <1>2, <2>1 DEF DatesOK
    <2>3. AloneOK(y, table, summary, today)
        <3> SUFFICES ASSUME x.alone
                     PROVE  /\ PressOK(y, table) /\ AuditOK(y, today) /\ ReadOK(y, table, summary)
                            /\ WroteOK(y, table, summary, today) /\ ScanOK(y)
            BY <1>2 DEF AloneOK
        <3>1. PressOK(x, table) /\ WroteOK(x, table, summary, today)
            BY <1>1, <1>2 DEF AloneOK
        <3>2. PressOK(y, table)
            BY <1>2, <2>1, <3>1 DEF PressOK
        <3>3. AuditOK(y, today)
            BY <1>1, <1>2, <2>1, DaysOrder DEF AuditOK, DatesOK
        <3>4. ReadOK(y, table, summary) /\ ScanOK(y)
            BY <2>1, <1>2 DEF ReadOK, ScanOK, RulesRead
        <3>5. WroteOK(y, table, summary, today)
            BY <1>2, <3>1, ZenonT(60) DEF WroteOK, HistoryOf, Pressed
        <3> QED
            BY <3>2, <3>3, <3>4, <3>5
    <2> QED
        BY <1>2, <2>2, <2>3, OneAloneKeeps DEF x
<1>4. CASE ReadClock(t)
    <2>1. /\ x.step = "clock" /\ y.todo = x.todo /\ y.today = today
          /\ y.audits = x.audits /\ y.grace = x.grace
          /\ y.step = IF IsHabit(x.press) THEN "rules"
                      ELSE IF x.dirty THEN "log" ELSE "flush"
        BY <1>1, <1>4 DEF ReadClock, AloneInv, MarkInv, LockInv, JournalInv, TypeOK, Transactions
    <2> HIDE DEF x, y
    <2>2. DatesOK(y, today)
        BY <1>1, <1>2, <2>1, DaysOrder DEF DatesOK
    <2>3. AloneOK(y, table, summary, today)
        <3> SUFFICES ASSUME x.alone
                     PROVE  /\ PressOK(y, table) /\ AuditOK(y, today) /\ ReadOK(y, table, summary)
                            /\ WroteOK(y, table, summary, today) /\ ScanOK(y)
            BY <1>2 DEF AloneOK
        <3>1. /\ PressOK(x, table) /\ AuditOK(x, today) /\ ReadOK(x, table, summary)
              /\ WroteOK(x, table, summary, today) /\ ScanOK(x)
            BY <1>1, <1>2 DEF AloneOK
        <3>2. PressOK(y, table) /\ AuditOK(y, today)
            BY <1>2, <2>1, <3>1 DEF PressOK, AuditOK
        <3>3. ReadOK(y, table, summary)
            BY <1>2, <2>1, <3>1 DEF ReadOK, RulesRead
        <3>4. ScanOK(y)
            BY <1>2, <2>1, <3>1 DEF ScanOK, RulesRead, ToDo
        <3>5. WroteOK(y, table, summary, today)
            BY <1>2, <3>1, ZenonT(60) DEF WroteOK, HistoryOf, Pressed
        <3> QED
            BY <3>2, <3>3, <3>4, <3>5
    <2> QED
        BY <1>2, <2>2, <2>3, OneAloneKeeps DEF x
<1>5. CASE ReadRules(t)
    <2>1. /\ x.step = "rules" /\ y.today = x.today /\ y.audits = x.audits
          /\ y.grace = GraceIn(table)
          /\ y.todo = IF IsHabit(x.press) THEN x.todo ELSE ScanOrder
          /\ y.step = IF IsHabit(x.press) \/ ScanOrder = << >> THEN "flush" ELSE "clock"
        BY <1>1, <1>5 DEF ReadRules, AloneInv, MarkInv, LockInv, JournalInv, TypeOK, Transactions
    <2> HIDE DEF x, y
    <2>2. DatesOK(y, today)
        BY <1>1, <1>2, <2>1 DEF DatesOK
    <2>3. AloneOK(y, table, summary, today)
        <3> SUFFICES ASSUME x.alone
                     PROVE  /\ PressOK(y, table) /\ AuditOK(y, today) /\ ReadOK(y, table, summary)
                            /\ WroteOK(y, table, summary, today) /\ ScanOK(y)
            BY <1>2 DEF AloneOK
        <3>1. PressOK(x, table) /\ AuditOK(x, today) /\ ~IsPrefs(x.press)
            BY <1>1, <1>2, <2>1 DEF AloneOK, PressOK
        <3>2. PressOK(y, table) /\ AuditOK(y, today)
            BY <1>2, <2>1, <3>1 DEF PressOK, AuditOK
        <3>3. ReadOK(y, table, summary)
            BY <1>2, <2>1 DEF ReadOK
        <3>4. DOMAIN y.rows = {}
            BY <1>1, <1>2, <2>1 DEF HoldsOK
        <3>5. ScanOK(y)
            <4>1. CASE IsHabit(x.press)
                <5>1. y.todo = <<StreakOf(x.press)>>
                    BY <1>1, <2>1, <4>1 DEF MarkOK
                <5>2. ToDo(y) = {StreakOf(x.press)}
                    BY <5>1 DEF ToDo
                <5> QED
                    BY <1>2, <2>1, <3>4, <4>1, <5>2 DEF ScanOK, Touched
            <4>2. CASE ~IsHabit(x.press)
                <5>1. ToDo(y) = Active
                    BY <2>1, <4>2 DEF ToDo, Active
                <5> QED
                    BY <1>2, <2>1, <3>1, <3>4, <4>2, <5>1 DEF ScanOK, Touched
            <4> QED
                BY <4>1, <4>2
        <3>6. WroteOK(y, table, summary, today)
            BY <3>4 DEF WroteOK
        <3> QED
            BY <3>2, <3>3, <3>5, <3>6
    <2> QED
        BY <1>2, <2>2, <2>3, OneAloneKeeps DEF x
<1> QED
    BY <1>3, <1>4, <1>5

(* Nobody has taken or deleted the row it read, so its write finds it.     *)
LEMMA FlushAlone ==
    ASSUME AloneInv, MarkInv', NEW t \in Threads, Flush(t)
    PROVE  AloneInv'
<1> DEFINE x == txn[t]
           y == txn'[t]
<1>1. /\ x \in Transactions /\ DatesOK(x, today) /\ AloneOK(x, table, summary, today)
    BY DEF AloneInv, MarkInv, LockInv, JournalInv, TypeOK
<1>2. CASE Rollback(t)
    BY <1>2, RollbackAlone
<1>3. ASSUME NEW wrote \in BOOLEAN, AtFlush(t), Flushed(t, wrote),
             wrote \/ (x.old # NoRow /\ table[x.press.row] = NoRow)
      PROVE  AloneInv'
    <2>1. /\ txn' = [txn EXCEPT ![t] = y] /\ UNCHANGED <<table, summary, today>>
          /\ x.step = "flush" /\ y.dirty = wrote
          /\ y.press = x.press /\ y.rows = x.rows /\ y.todo = x.todo /\ y.today = x.today
          /\ y.old = x.old /\ y.new = x.new /\ y.from = x.from /\ y.alone = x.alone
          /\ y.audits = x.audits /\ y.grace = x.grace
          /\ y.step = IF x.todo = << >> THEN "commit" ELSE "log"
        BY <1>1, <1>3 DEF AtFlush, Flushed, OnlyTxn, AloneInv, MarkInv, LockInv, JournalInv,
                          TypeOK, Transactions
    <2> HIDE DEF x, y
    <2>2. DatesOK(y, today)
        BY <1>1, <2>1 DEF DatesOK
    <2>3. AloneOK(y, table, summary, today)
        <3> SUFFICES ASSUME x.alone
                     PROVE  /\ PressOK(y, table) /\ AuditOK(y, today) /\ ReadOK(y, table, summary)
                            /\ WroteOK(y, table, summary, today) /\ ScanOK(y)
            BY <2>1 DEF AloneOK
        <3>1. /\ PressOK(x, table) /\ AuditOK(x, today) /\ ReadOK(x, table, summary)
              /\ WroteOK(x, table, summary, today) /\ ScanOK(x)
            BY <1>1, <2>1 DEF AloneOK
        <3>2. PressOK(y, table)
            <4>1. IsPrefs(x.press) => x.todo = << >>
                <5>1. IsPrefs(x.press) => ToDo(x) = {}
                    BY <2>1, <3>1 DEF ScanOK, RulesRead, Touched, IsPrefs, IsHabit, HabitRows,
                                      HabitRow, PrefsRow
                <5>2. x.todo # << >> => x.todo[1] \in ToDo(x)
                    BY <1>1, EmptySeq, LenProperties DEF Transactions, ToDo
                <5> QED
                    BY <5>1, <5>2
            <4> QED
                BY <2>1, <3>1, <4>1 DEF PressOK
        <3>3. AuditOK(y, today)
            BY <2>1, <3>1 DEF AuditOK
        <3>4. ReadOK(y, table, summary)
            <4>1. wrote
                BY <1>3, <3>1 DEF PressOK
            <4> QED
                BY <2>1, <3>1, <4>1 DEF ReadOK, RulesRead
        <3>5. ScanOK(y)
            BY <2>1, <3>1 DEF ScanOK, RulesRead, ToDo
        <3>6. WroteOK(y, table, summary, today)
            <4>1. Pressed(y, table) = Pressed(x, table)
                BY <2>1 DEF Pressed
            <4> QED
                BY <2>1, <3>1, <4>1 DEF WroteOK, HistoryOf
        <3> QED
            BY <3>2, <3>3, <3>4, <3>5, <3>6
    <2> QED
        BY <2>1, <2>2, <2>3, OneAloneKeeps DEF x
<1> QED
    BY <1>2, <1>3 DEF Flush, InsertEvent, InsertConflict, UpdateEvent, UpdateVanished,
                      DeleteEvent, DeleteVanished

LEMMA HistoryReadsAlone ==
    ASSUME AloneInv, MarkInv', NEW t \in Threads,
           ReadLog(t) \/ ReadBadDays(t) \/ ReadState(t)
    PROVE  AloneInv'
<1> DEFINE x == txn[t]
           y == txn'[t]
           s == Head(x.todo)
<1>1. x \in Transactions /\ DatesOK(x, today) /\ AloneOK(x, table, summary, today)
    BY DEF AloneInv, MarkInv, LockInv, JournalInv, TypeOK
<1>2. /\ txn' = [txn EXCEPT ![t] = y] /\ UNCHANGED <<table, summary, today>>
      /\ x.step \in {"log", "bad", "state"} /\ y.dirty = x.dirty
      /\ y.press = x.press /\ y.rows = x.rows /\ y.todo = x.todo /\ y.today = x.today
      /\ y.old = x.old /\ y.new = x.new /\ y.from = x.from /\ y.alone = x.alone
      /\ y.audits = x.audits /\ y.grace = x.grace
    BY <1>1 DEF ReadLog, ReadBadDays, ReadState, OnlyTxn, AloneInv, MarkInv, LockInv,
                JournalInv, TypeOK, Transactions
<1>3. x.dirty => Visible(t) = Pressed(x, table)
    BY DEF Visible, Pressed
<1>4. \/ x.step = "log" /\ y.step = "bad" /\ y.logged = LogIn(Visible(t), s)
      \/ x.step = "bad" /\ y.step = "state" /\ y.logged = x.logged /\ y.bad = BadIn(Visible(t))
      \/ /\ x.step = "state" /\ y.step = "write" /\ y.logged = x.logged /\ y.bad = x.bad
         /\ y.had = summary[s]
    BY <1>1 DEF ReadLog, ReadBadDays, ReadState, AloneInv, MarkInv, LockInv, JournalInv,
                TypeOK, Transactions
<1> HIDE DEF x, y
<1>5. DatesOK(y, today)
    BY <1>1, <1>2 DEF DatesOK
<1>6. AloneOK(y, table, summary, today)
    <2> SUFFICES ASSUME x.alone
                 PROVE  /\ PressOK(y, table) /\ AuditOK(y, today) /\ ReadOK(y, table, summary)
                        /\ WroteOK(y, table, summary, today) /\ ScanOK(y)
        BY <1>2 DEF AloneOK
    <2>1. /\ PressOK(x, table) /\ AuditOK(x, today) /\ ReadOK(x, table, summary)
          /\ WroteOK(x, table, summary, today) /\ ScanOK(x)
        BY <1>1, <1>2 DEF AloneOK
    <2>2. PressOK(y, table) /\ AuditOK(y, today)
        BY <1>2, <1>4, <2>1 DEF PressOK, AuditOK
    <2>3. Pressed(y, table) = Pressed(x, table)
        BY <1>2 DEF Pressed
    <2>4. x.dirty /\ (~IsPrefs(x.press) => x.grace = GraceIn(table))
        BY <1>2, <2>1 DEF ReadOK, RulesRead
    <2>5. ReadOK(y, table, summary)
        BY <1>2, <1>3, <1>4, <2>1, <2>3, <2>4 DEF ReadOK
    <2>6. ScanOK(y)
        BY <1>2, <1>4, <2>1 DEF ScanOK, RulesRead, ToDo
    <2>7. WroteOK(y, table, summary, today)
        BY <1>2, <2>1, <2>3 DEF WroteOK, HistoryOf
    <2> QED
        BY <2>2, <2>5, <2>6, <2>7
<1> QED
    BY <1>2, <1>5, <1>6, OneAloneKeeps DEF x

(* An UPDATE of the very row that was loaded sends the new row whole.      *)
LEMMA ChangedWhole ==
    ASSUME NEW new \in StateRows, NEW had
    PROVE  ChangedColumns(new, had, had) = new
    BY DEF ChangedColumns, StateRows

LEMMA WriteAlone ==
    ASSUME AloneInv, MarkInv', NEW t \in Threads, WriteState(t)
    PROVE  AloneInv'
<1> DEFINE x == txn[t]
           y == txn'[t]
           s == Head(x.todo)
<1>1. /\ x \in Transactions /\ RequestOK(x) /\ DatesOK(x, today)
      /\ AloneOK(x, table, summary, today)
      /\ x.step = "write" /\ summary \in [Streaks -> StateRows \cup {NoRow}]
    BY DEF AloneInv, MarkInv, LockInv, JournalInv, TypeOK, WriteState, InsertSummary,
           SummaryConflict, UpdateSummary, AtWrite
<1>2. x.todo \in Seq(Streaks) /\ x.todo # << >> /\ s \in Streaks
    <2>1. x.todo \in Seq(Streaks) /\ x.todo # << >>
        BY <1>1 DEF Transactions, RequestOK, Recomputing
    <2> QED
        BY <2>1
<1>3. NewRow(t) \in StateRows
    <2>1. ReadHistory(t) \in Histories /\ x.had \in StateRows \cup {NoRow}
        BY <1>1 DEF ReadHistory, Histories, Transactions
    <2> QED
        BY <2>1, RecomputedType DEF NewRow
<1>4. CASE SummaryConflict(t)
    BY <1>4, RollbackAlone DEF SummaryConflict
<1>5. ASSUME NEW row, Wrote(t, row), x.had = summary[s] => row = NewRow(t)
      PROVE  AloneInv'
    <2>1. /\ txn' = [txn EXCEPT ![t] = y] /\ UNCHANGED <<table, summary, today>>
          /\ y.rows = [z \in DOMAIN x.rows \cup {s} |-> IF z = s THEN row ELSE x.rows[z]]
          /\ y.todo = Tail(x.todo) /\ y.step = IF Len(x.todo) = 1 THEN "commit" ELSE "clock"
          /\ y.press = x.press /\ y.today = x.today /\ y.dirty = x.dirty
          /\ y.old = x.old /\ y.new = x.new /\ y.from = x.from /\ y.alone = x.alone
          /\ y.audits = x.audits /\ y.grace = x.grace
          /\ x.alone = txn[t].alone /\ txn[t].step = "write"
        BY <1>1, <1>5 DEF Wrote, OnlyTxn, AloneInv, MarkInv, LockInv, JournalInv, TypeOK,
                          Transactions
    <2>2. /\ Len(x.todo) = 1 => y.todo = << >>
          /\ ToDo(x) = ToDo(y) \cup {s}
        <3>1. /\ Len(x.todo) \in Nat \ {0} /\ s = x.todo[1]
              /\ Len(Tail(x.todo)) = Len(x.todo) - 1 /\ Tail(x.todo) \in Seq(Streaks)
              /\ \A i \in 1 .. Len(Tail(x.todo)) : Tail(x.todo)[i] = x.todo[i + 1]
            BY <1>2, HeadTailProperties, EmptySeq
        <3>2. DOMAIN x.todo = 1 .. Len(x.todo) /\ DOMAIN y.todo = 1 .. Len(x.todo) - 1
            BY <1>2, <2>1, <3>1
        <3>3. \A i \in DOMAIN y.todo : i + 1 \in DOMAIN x.todo /\ y.todo[i] = x.todo[i + 1]
            BY <2>1, <3>1, <3>2
        <3>4. \A i \in DOMAIN x.todo : i = 1 \/ (i - 1 \in DOMAIN y.todo
                                                  /\ y.todo[i - 1] = x.todo[i])
            <4> TAKE i \in DOMAIN x.todo
            <4> SUFFICES ASSUME i # 1
                         PROVE  i - 1 \in DOMAIN y.todo /\ y.todo[i - 1] = x.todo[i]
                OBVIOUS
            <4>1. i - 1 \in DOMAIN y.todo /\ (i - 1) + 1 = i
                BY <3>1, <3>2
            <4> QED
                BY <3>3, <4>1
        <3>5. 1 \in DOMAIN x.todo
            BY <3>1, <3>2
        <3>6. Len(x.todo) = 1 => y.todo = << >>
            <4> SUFFICES ASSUME Len(x.todo) = 1
                         PROVE  Tail(x.todo) = << >>
                BY <2>1
            <4>1. Len(Tail(x.todo)) = 0
                BY <3>1
            <4> QED
                BY <3>1, <4>1, EmptySeq
        <3> HIDE DEF x, y, s
        <3> QED
            BY <3>1, <3>3, <3>4, <3>5, <3>6 DEF ToDo
    <2>3. s \in ToDo(x)
        BY <2>2
    <2>4. DOMAIN y.rows = DOMAIN x.rows \cup {s} /\ y.rows[s] = row
          /\ \A z \in DOMAIN x.rows : z # s => y.rows[z] = x.rows[z]
        BY <2>1
    <2>5. /\ ReadHistory(t).logged = x.logged /\ NewRow(t) = Recomputed(ReadHistory(t), x.had)
          /\ ReadHistory(t) = [logged |-> x.logged, bad |-> x.bad, today |-> x.today,
                               grace |-> x.grace]
          /\ x.today \in Days
        BY <1>1 DEF ReadHistory, NewRow, Transactions
    <2> HIDE DEF x, y, s
    <2>6. DatesOK(y, today)
        BY <1>1, <2>1 DEF DatesOK
    <2>7. AloneOK(y, table, summary, today)
        <3> SUFFICES ASSUME x.alone
                     PROVE  /\ PressOK(y, table) /\ AuditOK(y, today) /\ ReadOK(y, table, summary)
                            /\ WroteOK(y, table, summary, today) /\ ScanOK(y)
            BY <2>1 DEF AloneOK
        <3>1. /\ PressOK(x, table) /\ AuditOK(x, today) /\ ReadOK(x, table, summary)
              /\ WroteOK(x, table, summary, today) /\ ScanOK(x)
            BY <1>1 DEF AloneOK
        <3>2. ~IsPrefs(x.press)
            BY <1>1, <3>1 DEF PressOK
        <3>3. PressOK(y, table) /\ AuditOK(y, today)
            BY <1>1, <2>1, <3>1, <3>2 DEF PressOK, AuditOK
        <3>4. /\ x.grace = GraceIn(table) /\ x.dirty /\ x.had = summary[s]
              /\ x.logged = LogIn(Pressed(x, table), s) /\ x.bad = BadIn(Pressed(x, table))
            BY <1>1, <3>1, <3>2 DEF ReadOK, RulesRead, s
        <3>5. ReadOK(y, table, summary)
            BY <2>1, <3>4 DEF ReadOK
        <3>6. Pressed(y, table) = Pressed(x, table)
            BY <2>1 DEF Pressed
        <3>7. row = Recomputed(HistoryOf(y, table, s, x.today), summary[s])
            BY <1>5, <2>5, <3>4, <3>6 DEF HistoryOf, x
        <3>8. WroteOK(y, table, summary, today)
            <4> SUFFICES ASSUME NEW z \in DOMAIN y.rows
                         PROVE  \E d \in Days : d <= today
                                 /\ y.rows[z] = Recomputed(HistoryOf(y, table, z, d), summary[z])
                BY DEF WroteOK
            <4>1. CASE z = s
                BY <1>1, <2>4, <2>5, <3>7, <4>1 DEF DatesOK
            <4>2. CASE z # s
                <5>1. z \in DOMAIN x.rows /\ y.rows[z] = x.rows[z]
                    BY <2>4, <4>2
                <5> QED
                    BY <3>1, <3>6, <5>1 DEF WroteOK, HistoryOf
            <4> QED
                BY <4>1, <4>2
        <3>9. ScanOK(y)
            <4>1. Touched(x.press) = DOMAIN x.rows \cup ToDo(x)
                BY <1>1, <3>1 DEF ScanOK, RulesRead
            <4> QED
                BY <2>1, <2>2, <2>4, <4>1 DEF ScanOK
        <3> QED
            BY <3>3, <3>5, <3>8, <3>9
    <2> QED
        BY <2>1, <2>6, <2>7, OneAloneKeeps
<1>6. CASE InsertSummary(t)
    BY <1>5, <1>6 DEF InsertSummary
<1>7. CASE UpdateSummary(t)
    <2>1. x.had = summary[s] =>
             ChangedColumns(NewRow(t), x.had, summary[s]) = NewRow(t)
        BY <1>3, ChangedWhole
    <2> QED
        BY <1>5, <1>7, <2>1 DEF UpdateSummary
<1> QED
    BY <1>4, <1>6, <1>7 DEF WriteState

(* A commit ends the solitude of nobody: who is alone is the one.          *)
LEMMA CommitAlone ==
    ASSUME AloneInv, MarkInv', NEW t \in Threads, Commit(t)
    PROVE  AloneInv'
<1>1. \A u \in Threads : txn'[u] = IF u = t THEN Idle ELSE txn[u]
    BY DEF AloneInv, MarkInv, LockInv, JournalInv, TypeOK, Commit
<1>2. today' = today /\ FirstToday <= today /\ txn[t].step = "commit"
    BY DEF AloneInv, Commit
<1>3. OneAlone'
    BY <1>1, IdleAlone DEF AloneInv, OneAlone, Idle
<1>4. ASSUME NEW u \in Threads
      PROVE  DatesOK(txn'[u], today') /\ AloneOK(txn'[u], table', summary', today')
    <2>1. CASE u = t
        BY <1>1, <1>2, <2>1, IdleAlone
    <2>2. CASE u # t
        <3>1. txn'[u] = txn[u] /\ ~(txn[u].alone /\ txn[u].step # "idle")
            BY <1>1, <1>2, <2>2 DEF AloneInv, OneAlone
        <3>2. DatesOK(txn[u], today)
            BY DEF AloneInv
        <3> QED
            BY <1>2, <3>1, <3>2 DEF AloneOK
    <2> QED
        BY <2>1, <2>2
<1> QED
    BY <1>2, <1>3, <1>4 DEF AloneInv

(* What was so by some day is so by a later one.                           *)
LEMMA ClockAlone ==
    ASSUME AloneInv, MarkInv', UNCHANGED <<table, summary, txn>>,
           today' = today \/ today' = today + 1
    PROVE  AloneInv'
<1>1. today \in Nat /\ today' \in Nat /\ today <= today'
    BY DaysOrder DEF AloneInv, MarkInv, LockInv, JournalInv, TypeOK
<1>2. FirstToday <= today'
    BY <1>1, DaysOrder DEF AloneInv
<1>3. OneAlone'
    BY DEF AloneInv, OneAlone
<1>4. ASSUME NEW u \in Threads
      PROVE  DatesOK(txn[u], today') /\ AloneOK(txn[u], table, summary, today')
    <2> DEFINE x == txn[u]
    <2>1. x \in Transactions /\ DatesOK(x, today) /\ AloneOK(x, table, summary, today)
        BY DEF AloneInv, MarkInv, LockInv, JournalInv, TypeOK
    <2>2. x.from \in Nat /\ x.today \in Nat
        BY <2>1, DaysOrder DEF Transactions
    <2> HIDE DEF x
    <2>3. \A d \in Days : d <= today => d <= today'
        BY <1>1, DaysOrder
    <2>4. DatesOK(x, today')
        BY <1>1, <2>1, <2>2 DEF DatesOK
    <2>5. AuditOK(x, today) => AuditOK(x, today')
        BY <2>3 DEF AuditOK
    <2>6. WroteOK(x, table, summary, today) => WroteOK(x, table, summary, today')
        BY <2>3 DEF WroteOK
    <2> QED
        BY <2>1, <2>4, <2>5, <2>6 DEF AloneOK, x
<1> QED
    BY <1>2, <1>3, <1>4 DEF AloneInv

LEMMA AloneInductive == AloneInv /\ [Next]_vars => AloneInv'
<1> SUFFICES ASSUME AloneInv, [Next]_vars PROVE AloneInv'
    OBVIOUS
<1>1. MarkInv'
    BY MarkInductive DEF AloneInv
<1>2. ASSUME NEW t \in Threads, \/ \E p \in Presses : Press(t, p)
                                \/ Step(t) \/ Die(t)
      PROVE  AloneInv'
    BY <1>1, <1>2, PressAlone, ReadsAlone, FlushAlone, HistoryReadsAlone, WriteAlone,
       CommitAlone, RollbackAlone DEF Step, Die
<1>3. CASE NextDay \/ UNCHANGED vars
    BY <1>1, <1>3, ClockAlone DEF NextDay, vars
<1> QED
    BY <1>2, <1>3 DEF Next

LEMMA AloneInit == Init => AloneInv
<1> SUFFICES ASSUME Init PROVE AloneInv
    OBVIOUS
<1>1. FirstToday <= today /\ \A t \in Threads : txn[t] = Idle
    BY DaysOrder DEF Init
<1>2. Idle.step = "idle" /\ DatesOK(Idle, today) /\ AloneOK(Idle, table, summary, today)
    BY <1>1, IdleAlone
<1> QED
    BY <1>1, <1>2, MarkInit DEF AloneInv, OneAlone

LEMMA AloneInvariant == Spec => []AloneInv
    BY AloneInit, AloneInductive, PTL DEF Spec

-----------------------------------------------------------------------------
(* What the commit of a request that was alone does to the rows.           *)

LEMMA PressedType ==
    ASSUME NEW x \in Transactions, NEW tab \in [EventRows -> Value]
    PROVE  Pressed(x, tab) \in [EventRows -> Value]
    BY DEF Pressed, Transactions

LEMMA HistoryType ==
    ASSUME NEW x \in Transactions, NEW tab \in [EventRows -> Value],
           NEW s \in Streaks, NEW d \in Days
    PROVE  HistoryOf(x, tab, s, d) \in Histories
<1>1. /\ LogIn(Pressed(x, tab), s) \in Logs
      /\ BadIn(Pressed(x, tab)) \in SUBSET Days /\ GraceIn(tab) \in BOOLEAN
    BY PressedType, ReadTypes
<1> QED
    BY <1>1 DEF HistoryOf, Histories

(* The row a recompute writes: what it counts does not depend on the row   *)
(* it found, and its record is never below that row's.                     *)
LEMMA RecomputedRow ==
    ASSUME NEW h \in Histories, NEW had \in StateRows \cup {NoRow}
    PROVE  /\ Recomputed(h, had) # NoRow
           /\ Recomputed(h, had).asOf = h.today /\ Recomputed(h, had).grace = h.grace
           /\ Recomputed(h, had).current = Summarise(h, 0).current
           /\ Recomputed(h, had).lastGrace = Summarise(h, 0).lastGrace
           /\ Recomputed(h, had).record >= RecordOf(had)
<1>1. RecordOf(had) \in Counts
    BY CountsType, DataAssumption DEF RecordOf, StateRows
<1>2. Recomputed(h, had) # NoRow
    BY RecomputedType, DataAssumption
<1> QED
    BY <1>1, <1>2, SummariseAssumption DEF Recomputed

LEMMA AloneCommit ==
    ASSUME AloneInv, NEW t \in Threads, Commit(t), txn[t].alone,
           NEW x, x = txn[t]
    PROVE  /\ x \in Transactions /\ x.press \in Presses /\ x.press.row \in EventRows
           /\ x.old = table[x.press.row] /\ x.new = After(x.press, x.old)
           /\ table' = Pressed(x, table)
           /\ \E d \in Days : /\ x.from <= d /\ d <= today
                              /\ x.audits = Audited(x.press, x.old, x.new, d)
           /\ edits' = IF x.audits
                       THEN Append(edits, [row |-> x.press.row, old |-> x.old, new |-> x.new])
                       ELSE edits
           /\ Touched(x.press) = DOMAIN x.rows /\ DOMAIN x.rows \in SUBSET Streaks
           /\ summary' = [s \in Streaks |-> IF s \in DOMAIN x.rows THEN x.rows[s] ELSE summary[s]]
           /\ WroteOK(x, table, summary, today)
<1>1. /\ x \in Transactions /\ x.step = "commit" /\ AloneOK(x, table, summary, today)
      /\ x.alone
    BY DEF AloneInv, MarkInv, LockInv, JournalInv, TypeOK, Commit
<1>2. /\ PressOK(x, table) /\ AuditOK(x, today) /\ ReadOK(x, table, summary)
      /\ WroteOK(x, table, summary, today) /\ ScanOK(x)
    BY <1>1 DEF AloneOK
<1>3. table' = Pressed(x, table)
    BY <1>1, <1>2 DEF Commit, Visible, Pressed, ReadOK
<1>4. x.press.row \in EventRows /\ DOMAIN x.rows \in SUBSET Streaks
    BY <1>1, PressType DEF Transactions
<1>5. Touched(x.press) = DOMAIN x.rows
    <2>1. x.todo = << >> /\ Touched(x.press) = DOMAIN x.rows \cup ToDo(x)
        BY <1>1, <1>2 DEF ScanOK, RulesRead
    <2>2. ToDo(x) = {}
        BY <2>1 DEF ToDo
    <2> QED
        BY <2>1, <2>2
<1>6. summary' = [s \in Streaks |-> IF s \in DOMAIN x.rows THEN x.rows[s] ELSE summary[s]]
    BY DEF Commit, HoldsSummary
<1> QED
    BY <1>1, <1>2, <1>3, <1>4, <1>5, <1>6 DEF Commit, PressOK, AuditOK

LEMMA AloneCommitAgrees ==
    ASSUME AloneInv, NEW t \in Threads, Commit(t), txn[t].alone,
           NEW s \in DOMAIN txn[t].rows
    PROVE  Consistent(s)'
<1> DEFINE x == txn[t]
<1>1. /\ x \in Transactions /\ table' = Pressed(x, table) /\ s \in Streaks
      /\ summary'[s] = x.rows[s] /\ WroteOK(x, table, summary, today)
    BY AloneCommit
<1>2. table \in [EventRows -> Value] /\ summary \in [Streaks -> StateRows \cup {NoRow}]
    BY DEF AloneInv, MarkInv, LockInv, JournalInv, TypeOK
<1>3. PICK d \in Days : x.rows[s] = Recomputed(HistoryOf(x, table, s, d), summary[s])
    BY <1>1 DEF WroteOK
<1> DEFINE h == HistoryOf(x, table, s, d)
<1>4. h \in Histories /\ summary[s] \in StateRows \cup {NoRow}
    BY <1>1, <1>2, HistoryType
<1>5. /\ h = [logged |-> LogIn(table', s), bad |-> BadIn(table'), today |-> d,
              grace |-> GraceIn(table)]
      /\ h.today = d /\ h.grace = GraceIn(table)
    BY <1>1 DEF HistoryOf
<1> HIDE DEF h, x
<1>6. /\ summary'[s] # NoRow
      /\ summary'[s].asOf = d /\ summary'[s].grace = GraceIn(table)
      /\ summary'[s].current = Summarise(h, 0).current
      /\ summary'[s].lastGrace = Summarise(h, 0).lastGrace
    BY <1>1, <1>3, <1>4, <1>5, RecomputedRow DEF h
<1> QED
    BY <1>5, <1>6 DEF Consistent

(* Whatever summaries an earlier race left wrong, a recompute that no      *)
(* other request overlaps makes right, on any number of threads.           *)
THEOREM AloneRecomputeRepairs == Spec => HealsWhenAlone
<1> DEFINE Repairs ==
        \A t \in Threads : Commit(t) /\ txn[t].alone =>
            \A s \in DOMAIN txn[t].rows : Consistent(s)'
<1>1. AloneInv => Repairs
    BY AloneCommitAgrees
<1>2. Spec => [][Repairs]_vars
    <2> HIDE DEF Repairs
    <2> QED
        BY <1>1, AloneInvariant, PTL
<1> QED
    BY <1>2 DEF HealsWhenAlone

-----------------------------------------------------------------------------
(* On one thread every request is alone, and each one takes effect in a    *)
(* single step.                                                            *)

OneThread == \A t, u \in Threads : t = u

SerialInv ==
    /\ AloneInv
    /\ \A t \in Threads : txn[t].step # "idle" => txn[t].alone
    /\ SummaryMatchesLog

(* Only a commit changes what other transactions see.                      *)
LEMMA OnlyCommits ==
    ASSUME [Next]_vars
    PROVE  \/ \E t \in Threads : Commit(t)
           \/ UNCHANGED <<table, summary, edits>> /\ (NextDay \/ UNCHANGED today)
<1> DEFINE Same == UNCHANGED <<table, summary, edits, today>>
<1>1. ASSUME NEW t \in Threads, OnlyTxn \/ Rollback(t) PROVE Same
    BY <1>1 DEF OnlyTxn, Rollback
<1>2. ASSUME NEW t \in Threads, NEW p \in Presses, Press(t, p) PROVE Same
    BY <1>2 DEF Press
<1>3. ASSUME NEW t \in Threads, Flush(t) \/ WriteState(t) PROVE Same
    BY <1>1, <1>3 DEF Flush, InsertEvent, InsertConflict, UpdateEvent, UpdateVanished,
                      DeleteEvent, DeleteVanished, Flushed, WriteState, InsertSummary,
                      SummaryConflict, UpdateSummary, Wrote
<1>4. ASSUME NEW t \in Threads, Step(t), ~Commit(t) PROVE Same
    BY <1>1, <1>3, <1>4 DEF Step, Audit, ReadClock, ReadRules, ReadLog, ReadBadDays, ReadState
<1> QED
    BY <1>1, <1>2, <1>4 DEF Next, NextDay, Die, vars

LEMMA StaysAlone ==
    ASSUME TypeOK, NEW t \in Threads, Step(t) \/ Die(t)
    PROVE  /\ txn'[t].alone = txn[t].alone \/ txn'[t].step = "idle"
           /\ txn[t].step # "idle"
<1>1. txn[t] \in Transactions /\ t \in DOMAIN txn
    BY DEF TypeOK
<1>2. CASE txn' = [txn EXCEPT ![t] = Idle] /\ txn[t].step # "idle"
    BY <1>1, <1>2 DEF Idle
<1>3. CASE Audit(t) \/ ReadClock(t) \/ ReadRules(t) \/ ReadLog(t) \/ ReadBadDays(t) \/ ReadState(t)
    BY <1>1, <1>3 DEF Audit, ReadClock, ReadRules, ReadLog, ReadBadDays, ReadState, Transactions
<1>4. ASSUME NEW wrote, AtFlush(t), Flushed(t, wrote)
      PROVE  txn'[t].alone = txn[t].alone /\ txn[t].step # "idle"
    BY <1>1, <1>4 DEF AtFlush, Flushed, Transactions
<1>5. ASSUME NEW row, AtWrite(t), Wrote(t, row)
      PROVE  txn'[t].alone = txn[t].alone /\ txn[t].step # "idle"
    BY <1>1, <1>5 DEF AtWrite, Wrote, Transactions
<1>6. CASE Flush(t) \/ WriteState(t)
    BY <1>2, <1>4, <1>5, <1>6
       DEF Flush, InsertEvent, InsertConflict, UpdateEvent, UpdateVanished, DeleteEvent,
           DeleteVanished, WriteState, InsertSummary, SummaryConflict, UpdateSummary,
           AtFlush, AtWrite, Rollback
<1> QED
    BY <1>2, <1>3, <1>6 DEF Step, Die, Rollback, Commit

(* A streak the press does not touch has the log and the bad days it had.  *)
LEMMA UntouchedLog ==
    ASSUME NEW x \in Transactions, NEW tab \in [EventRows -> Value],
           NEW s \in Active, s \notin Touched(x.press)
    PROVE  LogIn(Pressed(x, tab), s) = LogIn(tab, s) /\ BadIn(Pressed(x, tab)) = BadIn(tab)
<1>1. x.press \in AllPresses
    BY DEF Transactions
<1>2. \A e \in Days : HabitRow(s, e) # x.press.row /\ DailyRow(e) # x.press.row
    <2> TAKE e \in Days
    <2>1. CASE IsHabit(x.press)
        <3>1. PICK z \in Streaks, d \in Days : x.press.row = HabitRow(z, d)
            BY <2>1 DEF IsHabit, HabitRows
        <3>2. s # z
            BY <2>1, <3>1 DEF Touched, StreakOf, HabitRow
        <3> QED
            BY <3>1, <3>2 DEF HabitRow, DailyRow
    <2>2. CASE ~IsHabit(x.press)
        <3>1. x.press.row = PrefsRow
            BY <2>2 DEF Touched, IsPrefs
        <3> QED
            BY <3>1 DEF PrefsRow, HabitRow, DailyRow
    <2> QED
        BY <2>1, <2>2
<1>3. \A e \in Days : /\ Pressed(x, tab)[HabitRow(s, e)] = tab[HabitRow(s, e)]
                      /\ Pressed(x, tab)[DailyRow(e)] = tab[DailyRow(e)]
    <2>1. \A e \in Days : HabitRow(s, e) \in EventRows /\ DailyRow(e) \in EventRows
        BY DataAssumption DEF EventRows, HabitRows, DailyRows, Active
    <2> QED
        BY <1>2, <2>1 DEF Pressed
<1> DEFINE new == Pressed(x, tab)
<1> HIDE DEF new
<1>4. {e \in Days : new[HabitRow(s, e)] # NoRow} = {e \in Days : tab[HabitRow(s, e)] # NoRow}
    BY <1>3 DEF new
<1>5. LogIn(new, s) = LogIn(tab, s)
    BY <1>3, <1>4 DEF LogIn, new
<1>6. BadIn(new) = BadIn(tab)
    BY <1>3 DEF BadIn, new
<1> QED
    BY <1>5, <1>6 DEF new

LEMMA SerialCommit ==
    ASSUME SerialInv, NEW t \in Threads, Commit(t)
    PROVE  SummaryMatchesLog'
<1> SUFFICES ASSUME NEW s \in Active PROVE Consistent(s)'
    BY DEF SummaryMatchesLog
<1> DEFINE x == txn[t]
<1>1. AloneInv /\ x.alone
    BY DEF SerialInv, Commit
<1>2. CASE s \in DOMAIN x.rows
    BY <1>1, <1>2, AloneCommitAgrees
<1>3. CASE s \notin DOMAIN x.rows
    <2>1. /\ x \in Transactions /\ table' = Pressed(x, table) /\ s \notin Touched(x.press)
          /\ summary'[s] = summary[s]
        <3>1. s \in Streaks
            BY DataAssumption DEF Active
        <3>2. /\ x \in Transactions /\ table' = Pressed(x, table)
              /\ Touched(x.press) = DOMAIN x.rows
            BY <1>1, AloneCommit
        <3>3. summary' = [z \in Streaks |-> IF z \in DOMAIN x.rows THEN x.rows[z] ELSE summary[z]]
            BY <1>1, AloneCommit
        <3> QED
            BY <1>3, <3>1, <3>2, <3>3
    <2>2. LogIn(table', s) = LogIn(table, s) /\ BadIn(table') = BadIn(table)
        BY <1>1, <2>1, UntouchedLog DEF AloneInv, MarkInv, LockInv, JournalInv, TypeOK
    <2>3. Consistent(s)
        BY DEF SerialInv, SummaryMatchesLog
    <2> QED
        BY <2>1, <2>2, <2>3 DEF Consistent
<1> QED
    BY <1>2, <1>3

LEMMA SerialInductive ==
    ASSUME OneThread
    PROVE  SerialInv /\ [Next]_vars => SerialInv'
<1> SUFFICES ASSUME SerialInv, [Next]_vars PROVE SerialInv'
    OBVIOUS
<1>1. AloneInv'
    BY AloneInductive DEF SerialInv
<1>2. TypeOK
    BY DEF SerialInv, AloneInv, MarkInv, LockInv, JournalInv
<1>3. ASSUME NEW t \in Threads PROVE txn'[t].step # "idle" => txn'[t].alone
    <2>1. CASE \E p \in Presses : Press(t, p)
        <3>1. txn'[t].alone = AllIdle /\ txn[t].step = "idle"
            BY <2>1, ZenonT(60) DEF Press, Idle
        <3> QED
            BY <3>1 DEF AllIdle, OneThread
    <2>2. CASE Step(t) \/ Die(t)
        BY <1>2, <2>2, StaysAlone DEF SerialInv
    <2>3. CASE UNCHANGED txn
        BY <2>3 DEF SerialInv
    <2> QED
        BY <2>1, <2>2, <2>3 DEF OneThread, Next, NextDay, vars
<1>4. SummaryMatchesLog'
    <2>1. CASE \E t \in Threads : Commit(t)
        BY <2>1, SerialCommit
    <2>2. CASE UNCHANGED <<table, summary, edits>>
        <3>1. \A s \in Streaks : LogIn(table', s) = LogIn(table, s)
            BY <2>2
        <3>2. BadIn(table') = BadIn(table)
            BY <2>2
        <3>3. \A s \in Active : s \in Streaks /\ Consistent(s)
            BY DataAssumption DEF Active, SerialInv, SummaryMatchesLog
        <3>4. \A s \in Active : Consistent(s)'
            BY <2>2, <3>1, <3>2, <3>3 DEF Consistent
        <3> QED
            BY <3>4 DEF SummaryMatchesLog
    <2> QED
        BY <2>1, <2>2, OnlyCommits
<1> QED
    BY <1>1, <1>3, <1>4 DEF SerialInv

LEMMA SerialInvariant ==
    ASSUME OneThread
    PROVE  Spec => []SerialInv
<1>1. Init => SummaryMatchesLog
    <2> SUFFICES ASSUME Init, NEW s \in Active PROVE Consistent(s)
        BY DEF SummaryMatchesLog
    <2>1. s \in Streaks
        BY DataAssumption DEF Active
    <2>2. summary[s] = NoRow /\ DOMAIN LogIn(table, s) = {}
        BY <2>1 DEF Init, LogIn, EventRows, HabitRows
    <2> QED
        BY <2>2 DEF Consistent
<1>2. Init => SerialInv
    BY <1>1, AloneInit DEF Init, Idle, SerialInv
<1>3. SerialInv /\ [Next]_vars => SerialInv'
    BY SerialInductive
<1> QED
    BY <1>2, <1>3, PTL DEF Spec

(* On one thread the summary of an active streak never disagrees with the  *)
(* rows it is computed from.                                               *)
THEOREM SerialSummariesMatch ==
    ASSUME OneThread
    PROVE  Spec => []SummaryMatchesLog
<1>1. SerialInv => SummaryMatchesLog
    BY DEF SerialInv
<1> QED
    BY <1>1, SerialInvariant, PTL

(* On one thread no personal record ever decreases, and no summary row     *)
(* disappears.                                                             *)
THEOREM SerialRecordsGrow ==
    ASSUME OneThread
    PROVE  Spec => RecordNeverDecreases
<1> DEFINE Grows ==
        \A s \in Streaks : summary[s] # NoRow =>
            summary'[s] # NoRow /\ summary'[s].record >= summary[s].record
<1>1. SerialInv /\ [Next]_vars => [Grows]_vars
    <2> SUFFICES ASSUME SerialInv, [Next]_vars, NEW s \in Streaks, summary[s] # NoRow
                 PROVE  summary'[s] # NoRow /\ summary'[s].record >= summary[s].record
        OBVIOUS
    <2>1. /\ summary \in [Streaks -> StateRows \cup {NoRow}]
          /\ table \in [EventRows -> Value] /\ AloneInv
        BY DEF SerialInv, AloneInv, MarkInv, LockInv, JournalInv, TypeOK
    <2>2. summary[s] \in StateRows /\ summary[s].record >= summary[s].record
        <3>1. summary[s] \in StateRows
            BY <2>1
        <3>2. summary[s].record \in Nat
            BY <3>1, CountsType DEF StateRows
        <3> QED
            BY <3>1, <3>2
    <2>3. CASE summary'[s] = summary[s]
        BY <2>2, <2>3
    <2>4. ASSUME NEW t \in Threads, Commit(t), s \in DOMAIN txn[t].rows
          PROVE  summary'[s] # NoRow /\ summary'[s].record >= summary[s].record
        <3> DEFINE x == txn[t]
        <3>1. x.alone
            BY <2>4 DEF SerialInv, Commit
        <3>2. x \in Transactions /\ WroteOK(x, table, summary, today)
            BY <2>1, <2>4, <3>1, AloneCommit
        <3>3. summary'[s] = x.rows[s]
            BY <2>4 DEF Commit, HoldsSummary
        <3>4. PICK d \in Days : x.rows[s] = Recomputed(HistoryOf(x, table, s, d), summary[s])
            BY <2>4, <3>2 DEF WroteOK
        <3>5. HistoryOf(x, table, s, d) \in Histories
            BY <2>1, <3>2, HistoryType
        <3> QED
            BY <2>2, <3>3, <3>4, <3>5, RecomputedRow DEF RecordOf
    <2>5. ASSUME NEW t \in Threads, Commit(t), s \notin DOMAIN txn[t].rows
          PROVE  summary'[s] = summary[s]
        BY <2>5 DEF Commit, HoldsSummary
    <2> QED
        BY <2>3, <2>4, <2>5, OnlyCommits
<1>2. Spec => [][Grows]_vars
    <2> HIDE DEF Grows
    <2> QED
        BY <1>1, SerialInvariant, PTL DEF Spec
<1> QED
    BY <1>2 DEF RecordNeverDecreases

(* A commit on one thread: the audit row, when there is one, tells the     *)
(* change, and there is none only for the row of a day of the request.     *)
LEMMA SerialAudit ==
    ASSUME SerialInv, NEW t \in Threads, Commit(t), NEW x, x = txn[t]
    PROVE  /\ x.press.row \in EventRows /\ x.old = table[x.press.row]
           /\ table' = [table EXCEPT ![x.press.row] = x.new]
           /\ table'[x.press.row] = x.new
           /\ x.audits => /\ ~IsPrefs(x.press) /\ x.old # x.new
                          /\ edits' = Append(edits, [row |-> x.press.row, old |-> x.old,
                                                     new |-> x.new])
           /\ ~x.audits => edits' = edits
           /\ ~x.audits /\ ~IsPrefs(x.press) /\ x.old # x.new =>
                 x.old = NoRow /\ DayOf(x.press.row) \in x.from .. today
<1>1. AloneInv /\ txn[t].alone /\ table \in [EventRows -> Value] /\ today \in Nat
    BY DaysOrder DEF SerialInv, Commit, AloneInv, MarkInv, LockInv, JournalInv, TypeOK
<1>2. /\ x \in Transactions /\ x.press.row \in EventRows
      /\ x.old = table[x.press.row]
      /\ table' = Pressed(x, table)
      /\ edits' = IF x.audits
                  THEN Append(edits, [row |-> x.press.row, old |-> x.old, new |-> x.new])
                  ELSE edits
    BY <1>1, AloneCommit
<1>3. PICK d \in Days : /\ x.from <= d /\ d <= today
                        /\ x.audits = Audited(x.press, x.old, x.new, d)
    BY <1>1, AloneCommit
<1>4. x.from \in Nat /\ d \in Nat /\ d \in x.from .. today
    <2>1. x.from \in Days
        BY <1>2 DEF Transactions
    <2>2. x.from \in Nat /\ d \in Nat
        BY <2>1, DaysOrder
    <2> QED
        BY <1>1, <1>3, <2>2
<1> QED
    BY <1>1, <1>2, <1>3, <1>4 DEF Audited, Pressed

(* On one thread every change of a mark or a bad day is in the edit log    *)
(* with its two values, or creates the row of a day that was today while   *)
(* the request ran.                                                        *)
THEOREM SerialChangesAudited ==
    ASSUME OneThread
    PROVE  Spec => EveryChangeAudited
<1> DEFINE Told ==
        \A r \in HabitRows \cup DailyRows : table'[r] # table[r] =>
          \/ edits' = Append(edits, [row |-> r, old |-> table[r], new |-> table'[r]])
          \/ /\ table[r] = NoRow
             /\ edits' = edits
             /\ \E t \in Threads : txn[t].press.row = r /\ DayOf(r) \in txn[t].from .. today
<1>1. SerialInv /\ [Next]_vars => [Told]_vars
    <2> SUFFICES ASSUME SerialInv, [Next]_vars, NEW r \in HabitRows \cup DailyRows,
                        table'[r] # table[r]
                 PROVE  \/ edits' = Append(edits, [row |-> r, old |-> table[r], new |-> table'[r]])
                        \/ /\ table[r] = NoRow /\ edits' = edits
                           /\ \E t \in Threads : /\ txn[t].press.row = r
                                                 /\ DayOf(r) \in txn[t].from .. today
        OBVIOUS
    <2>1. PICK t \in Threads : Commit(t)
        BY OnlyCommits
    <2> DEFINE x == txn[t]
    <2>2. /\ x.old = table[x.press.row] /\ table'[x.press.row] = x.new
          /\ x.audits => edits' = Append(edits, [row |-> x.press.row, old |-> x.old,
                                                 new |-> x.new])
          /\ ~x.audits => edits' = edits
          /\ ~x.audits /\ ~IsPrefs(x.press) /\ x.old # x.new =>
                x.old = NoRow /\ DayOf(x.press.row) \in x.from .. today
        BY <2>1, SerialAudit
    <2>3. x.press.row = r
        <3>1. table \in [EventRows -> Value] /\ r \in EventRows
            BY DEF SerialInv, AloneInv, MarkInv, LockInv, JournalInv, TypeOK, EventRows
        <3>2. table' = [table EXCEPT ![x.press.row] = x.new]
            BY <2>1, SerialAudit
        <3> QED
            BY <3>1, <3>2
    <2>4. ~IsPrefs(x.press)
        BY <2>3 DEF IsPrefs, HabitRows, DailyRows, HabitRow, DailyRow, PrefsRow
    <2> QED
        BY <2>2, <2>3, <2>4
<1>2. Spec => [][Told]_vars
    <2> HIDE DEF Told
    <2> QED
        BY <1>1, SerialInvariant, PTL DEF Spec
<1> QED
    BY <1>2 DEF EveryChangeAudited

(* And the edit log tells no change that did not happen.                   *)
THEOREM SerialEditsHappened ==
    ASSUME OneThread
    PROVE  Spec => NoPhantomEdit
<1> DEFINE Real ==
        edits' # edits =>
          LET e == edits'[Len(edits')]
          IN  table[e.row] = e.old /\ table'[e.row] = e.new /\ e.old # e.new
<1>1. SerialInv /\ [Next]_vars => [Real]_vars
    <2> SUFFICES ASSUME SerialInv, [Next]_vars, edits' # edits
                 PROVE  Real
        OBVIOUS
    <2>1. PICK t \in Threads : Commit(t)
        BY OnlyCommits
    <2> DEFINE x == txn[t]
               e == [row |-> x.press.row, old |-> x.old, new |-> x.new]
    <2>2. /\ x.old = table[x.press.row] /\ table'[x.press.row] = x.new
          /\ x.old # x.new /\ edits' = Append(edits, e)
        BY <2>1, SerialAudit
    <2>3. edits \in Seq(Edits)
        BY DEF SerialInv, AloneInv, MarkInv, LockInv, JournalInv, TypeOK
    <2>4. edits'[Len(edits')] = e
        <3> HIDE DEF e
        <3> QED
            BY <2>2, <2>3, AppendProperties
    <2> QED
        BY <2>2, <2>4
<1>2. Spec => [][Real]_vars
    <2> HIDE DEF Real
    <2> QED
        BY <1>1, SerialInvariant, PTL DEF Spec
<1> QED
    BY <1>2 DEF NoPhantomEdit

-----------------------------------------------------------------------------
(* The refinement.  The two specifications share JournalData: what the     *)
(* atomic one says of the rows is what the requests do to them.            *)

LEMMA SameRows ==
    /\ Atomic!EventRows = EventRows
    /\ \A p : Atomic!IsHabit(p) = IsHabit(p) /\ Atomic!IsPrefs(p) = IsPrefs(p)
    /\ \A r : Atomic!DayOf(r) = DayOf(r)
<1>1. Atomic!HabitRows = HabitRows /\ Atomic!DailyRows = DailyRows /\ Atomic!PrefsRow = PrefsRow
    BY DEF Atomic!HabitRows, Atomic!HabitRow, Atomic!DailyRows, Atomic!DailyRow,
           Atomic!PrefsRow, HabitRows, HabitRow, DailyRows, DailyRow, PrefsRow
<1> QED
    BY <1>1 DEF Atomic!EventRows, EventRows, Atomic!IsHabit, IsHabit, Atomic!IsPrefs, IsPrefs,
                Atomic!DayOf, DayOf

LEMMA SameHelpers ==
    /\ \A p, old : Atomic!After(p, old) = After(p, old)
    /\ \A p, old, new, d : Atomic!Audited(p, old, new, d) = Audited(p, old, new, d)
    /\ \A p : Atomic!Touched(p) = Touched(p)
    /\ \A tab, s : Atomic!LogIn(tab, s) = LogIn(tab, s)
    /\ \A tab : Atomic!BadIn(tab) = BadIn(tab) /\ Atomic!GraceIn(tab) = GraceIn(tab)
    /\ \A h, had : Atomic!Recomputed(h, had) = Recomputed(h, had)
    /\ \A d : Atomic!DaysUpTo(d) = {e \in Days : e <= d}
<1>1. \A p, old : Atomic!After(p, old) = After(p, old)
    BY SameRows DEF Atomic!After, After, Atomic!GraceDefault, GraceDefault
<1>2. \A p, old, new, d : Atomic!Audited(p, old, new, d) = Audited(p, old, new, d)
    BY SameRows DEF Atomic!Audited, Audited
<1>3. \A p : Atomic!Touched(p) = Touched(p)
    BY SameRows DEF Atomic!Touched, Touched, Atomic!StreakOf, StreakOf, Atomic!Active, Active
<1>4. \A tab, s : Atomic!LogIn(tab, s) = LogIn(tab, s)
    BY DEF Atomic!LogIn, LogIn, Atomic!HabitRow, HabitRow
<1>5. \A tab : Atomic!BadIn(tab) = BadIn(tab) /\ Atomic!GraceIn(tab) = GraceIn(tab)
    BY DEF Atomic!BadIn, BadIn, Atomic!DailyRow, DailyRow, Atomic!GraceIn, GraceIn,
           Atomic!GraceDefault, GraceDefault, Atomic!PrefsRow, PrefsRow
<1>6. \A h, had : Atomic!Recomputed(h, had) = Recomputed(h, had)
    BY DEF Atomic!Recomputed, Recomputed, Atomic!RecordOf, RecordOf
<1>7. \A d : Atomic!DaysUpTo(d) = {e \in Days : e <= d}
    BY DEF Atomic!DaysUpTo
<1> QED
    BY <1>1, <1>2, <1>3, <1>4, <1>5, <1>6, <1>7

(* The commit of a request that was alone is the atomic press: audited on  *)
(* one day of the request, each summary computed as of one.                *)
LEMMA CommitIsTake ==
    ASSUME AloneInv, NEW t \in Threads, Commit(t), txn[t].alone
    PROVE  Atomic!Next
<1> DEFINE x == txn[t]
           p == x.press
           Upto == {e \in Days : e <= today}
           Right(s, d) == x.rows[s] = Recomputed(HistoryOf(x, table, s, d), summary[s])
           asOf == [s \in Touched(p) |-> CHOOSE d \in Upto : Right(s, d)]
<1>1. /\ p \in Presses /\ x.old = table[p.row] /\ x.new = After(p, x.old)
      /\ table' = Pressed(x, table)
      /\ edits' = IF x.audits
                  THEN Append(edits, [row |-> p.row, old |-> x.old, new |-> x.new])
                  ELSE edits
    BY AloneCommit
<1>2. /\ Touched(p) = DOMAIN x.rows
      /\ summary' = [s \in Streaks |-> IF s \in DOMAIN x.rows THEN x.rows[s] ELSE summary[s]]
      /\ WroteOK(x, table, summary, today)
    BY AloneCommit
<1>3. PICK dated \in Upto : x.audits = Audited(p, x.old, x.new, dated)
    BY AloneCommit
<1>4. \A s \in Touched(p) : asOf[s] \in Upto /\ Right(s, asOf[s])
    BY <1>2 DEF WroteOK
<1>5. asOf \in [Touched(p) -> Upto]
    <2>1. \A s \in Touched(p) : (CHOOSE d \in Upto : Right(s, d)) \in Upto
        BY <1>4
    <2> QED
        BY <2>1
<1>6. today' = today
    BY DEF Commit
<1> HIDE DEF asOf, Upto
<1> DEFINE hist(s) == [logged |-> LogIn(table', s), bad |-> BadIn(table'),
                       today |-> asOf[s], grace |-> GraceIn(table)]
<1>7. \A s \in Touched(p) : x.rows[s] = Recomputed(hist(s), summary[s])
    BY <1>1, <1>4 DEF HistoryOf
<1>8. summary' = [s \in Streaks |-> IF s \in Touched(p) THEN Recomputed(hist(s), summary[s])
                                                       ELSE summary[s]]
    <2> HIDE DEF hist
    <2> QED
        BY <1>2, <1>7
<1>9. Atomic!Take(p, dated, asOf)
    <2>1. table' = [table EXCEPT ![p.row] = After(p, table[p.row])]
        BY <1>1 DEF Pressed
    <2>2. edits' = IF Audited(p, table[p.row], After(p, table[p.row]), dated)
                   THEN Append(edits, [row |-> p.row, old |-> table[p.row],
                                       new |-> After(p, table[p.row])])
                   ELSE edits
        BY <1>1, <1>3
    <2> HIDE DEF x, p
    <2> QED
        BY <1>6, <1>8, <2>1, <2>2, SameHelpers DEF Atomic!Take
<1> QED
    BY <1>1, <1>3, <1>5, <1>9, SameHelpers DEF Atomic!Next, Upto

(* On one thread each request, however many statements and clock readings  *)
(* it is made of and wherever it may be killed, is one atomic press.       *)
THEOREM SerialRequestsAreAtomic ==
    ASSUME OneThread
    PROVE  Spec => TakesEffectAtomically
<1>1. Init => Atomic!Init
    BY SameRows DEF Init, Atomic!Init
<1>2. SerialInv /\ [Next]_vars => [Atomic!Next]_(Atomic!vars)
    <2> SUFFICES ASSUME SerialInv, [Next]_vars PROVE [Atomic!Next]_(Atomic!vars)
        OBVIOUS
    <2>1. CASE \E t \in Threads : Commit(t)
        BY <2>1, CommitIsTake DEF SerialInv, Commit
    <2>2. CASE NextDay
        BY <2>2 DEF NextDay, Atomic!Next, Atomic!NextDay
    <2>3. CASE UNCHANGED <<table, summary, edits, today>>
        BY <2>3 DEF Atomic!vars
    <2> QED
        BY <2>1, <2>2, <2>3, OnlyCommits
<1>3. Spec => Atomic!Spec
    BY <1>1, <1>2, SerialInvariant, PTL DEF Spec, Atomic!Spec
<1> QED
    BY <1>3 DEF TakesEffectAtomically

=============================================================================
