------------------------------ MODULE Journal ------------------------------
(***************************************************************************)
(* The three requests that change how a streak is counted, statement by    *)
(* statement, on the threads of the web server:                            *)
(*                                                                         *)
(*   mark_habit      app/routes/journal.py 165-217                         *)
(*   toggle_bad_day  app/routes/journal.py 321-355                         *)
(*   toggle_grace    app/routes/settings.py 65-77                          *)
(*                                                                         *)
(* Each request is one PostgreSQL transaction at READ COMMITTED: a SELECT  *)
(* sees what was committed when it runs plus the transaction's own writes, *)
(* an UPDATE or DELETE waits for the other writer of its row, and an       *)
(* INSERT waits for the other writer of its key.  A request that fails,    *)
(* and one whose process is killed, is rolled back.                        *)
(***************************************************************************)
EXTENDS JournalData

CONSTANTS
    Threads,           \* the threads that serve requests
    MaxRequests        \* bound: requests started in a behaviour

ASSUME JournalAssumption == MaxRequests \in Nat

VARIABLES
    table,      \* committed habit_log, daily_state and settings rows
    summary,    \* committed streak_state rows
    edits,      \* committed edit_log rows, in commit order
    today,      \* the local day current_date() returns
    txn,        \* what each thread's request holds
    started     \* requests started so far (bound)

vars == <<table, summary, edits, today, txn, started>>

Steps == {"idle", "audit", "clock", "rules", "flush", "log", "bad", "state",
          "write", "commit"}

NoPress == [row |-> PrefsRow, mark |-> NoRow]

(* A thread between two requests: every local is back at its start value.  *)
Idle ==
    [ step |-> "idle", press |-> NoPress, old |-> NoRow, new |-> NoRow,
      audits |-> FALSE,                \* an edit_log row is pending
      dirty |-> FALSE,                 \* the event row is written, uncommitted
      todo |-> << >>,                  \* streaks still to recompute
      today |-> FirstToday, grace |-> GraceDefault,
      logged |-> << >>, bad |-> {},    \* the history the recompute read
      had |-> NoRow,                   \* the streak_state row it loaded
      rows |-> << >>,                  \* summaries written, uncommitted
      from |-> FirstToday,             \* history: the day the request began on
      alone |-> FALSE ]                \* history: no other request overlapped it

Edits == [row : EventRows, old : Value, new : Value]

Transactions ==
    [ step : Steps, press : AllPresses, old : Value, new : Value,
      audits : BOOLEAN, dirty : BOOLEAN, todo : Seq(Streaks),
      today : Days, grace : BOOLEAN,
      logged : Logs, bad : SUBSET Days, had : StateRows \cup {NoRow},
      rows : UNION {[S -> StateRows] : S \in SUBSET Streaks},
      from : Days, alone : BOOLEAN ]

TypeOK ==
    /\ table \in [EventRows -> Value]
    /\ summary \in [Streaks -> StateRows \cup {NoRow}]
    /\ edits \in Seq(Edits)
    /\ today \in Days
    /\ started \in 0 .. MaxRequests
    /\ txn \in [Threads -> Transactions]

Init ==
    /\ table = [r \in EventRows |-> NoRow]
    /\ summary = [s \in Streaks |-> NoRow]
    /\ edits = << >>
    /\ today = FirstToday
    /\ txn = [t \in Threads |-> Idle]
    /\ started = 0

-----------------------------------------------------------------------------
(* Row locks.  A thread holds a row it wrote until its transaction ends.   *)
HoldsEvent(t, r)   == txn[t].dirty /\ txn[t].press.row = r
HoldsSummary(t, s) == s \in DOMAIN txn[t].rows

EventFree(t, r)   == \A u \in Threads \ {t} : ~HoldsEvent(u, r)
SummaryFree(t, s) == \A u \in Threads \ {t} : ~HoldsSummary(u, s)

(* The event tables as thread t's SELECTs see them.                        *)
Visible(t) ==
    IF txn[t].dirty THEN [table EXCEPT ![txn[t].press.row] = txn[t].new] ELSE table

AllIdle == \A t \in Threads : txn[t].step = "idle"

(* The request ends without a trace; the connection is rolled back.        *)
Rollback(t) ==
    /\ txn' = [txn EXCEPT ![t] = Idle]
    /\ UNCHANGED <<table, summary, edits, today, started>>

OnlyTxn == UNCHANGED <<table, summary, edits, today, started>>

-----------------------------------------------------------------------------
(* The request arrives and SELECTs the row its button is about.            *)
Press(t, p) ==
    /\ txn[t].step = "idle"
    /\ started < MaxRequests
    /\ started' = started + 1
    /\ txn' = [u \in Threads |->
         IF u = t
         THEN [Idle EXCEPT !.step = IF IsPrefs(p) THEN "flush" ELSE "audit",
                           !.press = p,
                           !.old = table[p.row],
                           !.new = After(p, table[p.row]),
                           !.todo = IF IsHabit(p) THEN <<StreakOf(p)>> ELSE << >>,
                           !.from = today,
                           !.alone = AllIdle]
         ELSE [txn[u] EXCEPT !.alone = FALSE]]
    /\ UNCHANGED <<table, summary, edits, today>>

(* maybe_audit, with its own reading of the clock.                         *)
Audit(t) ==
    /\ txn[t].step = "audit"
    /\ txn' = [txn EXCEPT
         ![t].audits = Audited(txn[t].press, txn[t].old, txn[t].new, today),
         ![t].step = IF IsHabit(txn[t].press) THEN "clock" ELSE "rules"]
    /\ OnlyTxn

(* current_date(): once for a habit mark, once per streak for a bad day.   *)
ReadClock(t) ==
    /\ txn[t].step = "clock"
    /\ txn' = [txn EXCEPT
         ![t].today = today,
         ![t].step = IF IsHabit(txn[t].press) THEN "rules"
                     ELSE IF txn[t].dirty THEN "log" ELSE "flush"]
    /\ OnlyTxn

\* mutants of ReadRules: the bad day recomputes nothing; the streaks come in
\* either order, as a SELECT without ORDER BY may return them
ReadRulesScanning(t, orders) ==
    /\ txn[t].step = "rules"
    /\ \E order \in orders :
         txn' = [txn EXCEPT
           ![t].grace = GraceIn(table),
           ![t].todo = IF IsHabit(txn[t].press) THEN @ ELSE order,
           ![t].step = IF IsHabit(txn[t].press) \/ order = << >> THEN "flush" ELSE "clock"]
    /\ OnlyTxn

ReadRulesNoScan(t) == ReadRulesScanning(t, {<< >>})
ReadRulesAnyOrder(t) ==
    ReadRulesScanning(t, {ScanOrder, [i \in DOMAIN ScanOrder |-> ScanOrder[Len(ScanOrder) + 1 - i]]})

(* grace_enabled, and for a bad day the list of active streaks.            *)
ReadRules(t) ==
    /\ txn[t].step = "rules"
    /\ txn' = [txn EXCEPT
         ![t].grace = GraceIn(table),
         ![t].todo = IF IsHabit(txn[t].press) THEN @ ELSE ScanOrder,
         ![t].step = IF IsHabit(txn[t].press) \/ ScanOrder = << >> THEN "flush" ELSE "clock"]
    /\ OnlyTxn

-----------------------------------------------------------------------------
(* The first flush sends the event row to the database.  A request with no *)
(* streak to recompute flushes in commit() instead: same order, same row.  *)
Flushed(t, wrote) ==
    /\ txn' = [txn EXCEPT
         ![t].dirty = wrote,
         ![t].step = IF txn[t].todo = << >> THEN "commit" ELSE "log"]
    /\ OnlyTxn

AtFlush(t) == txn[t].step = "flush"

InsertEvent(t) ==
    /\ AtFlush(t)
    /\ txn[t].old = NoRow
    /\ EventFree(t, txn[t].press.row)
    /\ table[txn[t].press.row] = NoRow
    /\ Flushed(t, TRUE)

(* The key was taken since the SELECT: IntegrityError, a 500 page.         *)
InsertConflict(t) ==
    /\ AtFlush(t)
    /\ txn[t].old = NoRow
    /\ EventFree(t, txn[t].press.row)
    /\ table[txn[t].press.row] # NoRow
    /\ Rollback(t)

UpdateEvent(t) ==
    /\ AtFlush(t)
    /\ txn[t].old # NoRow /\ txn[t].new # NoRow
    /\ EventFree(t, txn[t].press.row)
    /\ table[txn[t].press.row] # NoRow
    /\ Flushed(t, TRUE)

(* The row was deleted since the SELECT: StaleDataError, a 500 page.       *)
UpdateVanished(t) ==
    /\ AtFlush(t)
    /\ txn[t].old # NoRow /\ txn[t].new # NoRow
    /\ table[txn[t].press.row] = NoRow
    /\ Rollback(t)

DeleteEvent(t) ==
    /\ AtFlush(t)
    /\ txn[t].old # NoRow /\ txn[t].new = NoRow
    /\ EventFree(t, txn[t].press.row)
    /\ table[txn[t].press.row] # NoRow
    /\ Flushed(t, TRUE)

(* A DELETE that matches no row is only a warning.                         *)
DeleteVanished(t) ==
    /\ AtFlush(t)
    /\ txn[t].old # NoRow /\ txn[t].new = NoRow
    /\ table[txn[t].press.row] = NoRow
    /\ Flushed(t, FALSE)

Flush(t) ==
    \/ InsertEvent(t) \/ InsertConflict(t)
    \/ UpdateEvent(t) \/ UpdateVanished(t)
    \/ DeleteEvent(t) \/ DeleteVanished(t)

-----------------------------------------------------------------------------
\* mutants of ReadLog and ReadBadDays: the session is not flushed first, so the
\* SELECT does not see the request's own write
ReadLogUnflushed(t) ==
    /\ txn[t].step = "log"
    /\ txn' = [txn EXCEPT ![t].logged = LogIn(table, Head(txn[t].todo)), ![t].step = "bad"]
    /\ OnlyTxn

ReadBadDaysUnflushed(t) ==
    /\ txn[t].step = "bad"
    /\ txn' = [txn EXCEPT ![t].bad = BadIn(table), ![t].step = "state"]
    /\ OnlyTxn

(* recompute_streak_state for the first streak of todo: three SELECTs, the *)
(* replay, one INSERT or UPDATE.                                           *)
ReadLog(t) ==
    /\ txn[t].step = "log"
    /\ txn' = [txn EXCEPT ![t].logged = LogIn(Visible(t), Head(txn[t].todo)),
                          ![t].step = "bad"]
    /\ OnlyTxn

ReadBadDays(t) ==
    /\ txn[t].step = "bad"
    /\ txn' = [txn EXCEPT ![t].bad = BadIn(Visible(t)), ![t].step = "state"]
    /\ OnlyTxn

ReadState(t) ==
    /\ txn[t].step = "state"
    /\ txn' = [txn EXCEPT ![t].had = summary[Head(txn[t].todo)], ![t].step = "write"]
    /\ OnlyTxn

ReadHistory(t) ==
    [logged |-> txn[t].logged, bad |-> txn[t].bad,
     today |-> txn[t].today, grace |-> txn[t].grace]

NewRow(t) == Recomputed(ReadHistory(t), txn[t].had)

(* The session sends only the columns whose value differs from the loaded  *)
(* one; the others keep what the row holds when the UPDATE gets its lock.  *)
ChangedColumns(new, had, stored) ==
    [ current   |-> IF new.current = had.current THEN stored.current ELSE new.current,
      record    |-> IF new.record = had.record THEN stored.record ELSE new.record,
      lastGrace |-> IF new.lastGrace = had.lastGrace THEN stored.lastGrace
                                                     ELSE new.lastGrace,
      asOf      |-> new.asOf,
      grace     |-> new.grace ]

Wrote(t, row) ==
    LET s == Head(txn[t].todo)
    IN  /\ txn' = [txn EXCEPT
             ![t].rows = [x \in DOMAIN txn[t].rows \cup {s} |->
                            IF x = s THEN row ELSE txn[t].rows[x]],
             ![t].todo = Tail(@),
             ![t].step = IF Len(txn[t].todo) = 1 THEN "commit" ELSE "clock"]
        /\ OnlyTxn

AtWrite(t) == txn[t].step = "write"

\* mutant of InsertSummary: the new state row is never added to the session
InsertSummaryForgotten(t) ==
    /\ AtWrite(t)
    /\ txn[t].had = NoRow
    /\ txn' = [txn EXCEPT ![t].todo = Tail(@),
                          ![t].step = IF Len(txn[t].todo) = 1 THEN "commit" ELSE "clock"]
    /\ OnlyTxn

InsertSummary(t) ==
    /\ AtWrite(t)
    /\ txn[t].had = NoRow
    /\ SummaryFree(t, Head(txn[t].todo))
    /\ summary[Head(txn[t].todo)] = NoRow
    /\ Wrote(t, NewRow(t))

SummaryConflict(t) ==
    /\ AtWrite(t)
    /\ txn[t].had = NoRow
    /\ SummaryFree(t, Head(txn[t].todo))
    /\ summary[Head(txn[t].todo)] # NoRow
    /\ Rollback(t)

(* No code deletes a streak_state row, so the UPDATE finds the one loaded. *)
UpdateSummary(t) ==
    /\ AtWrite(t)
    /\ txn[t].had # NoRow
    /\ SummaryFree(t, Head(txn[t].todo))
    /\ summary[Head(txn[t].todo)] # NoRow
    /\ Wrote(t, ChangedColumns(NewRow(t), txn[t].had, summary[Head(txn[t].todo)]))

WriteState(t) == InsertSummary(t) \/ SummaryConflict(t) \/ UpdateSummary(t)

\* mutant of Commit: the audit row has its values the wrong way round
CommitSwapped(t) ==
    /\ txn[t].step = "commit"
    /\ table' = Visible(t)
    /\ summary' = [s \in Streaks |->
         IF HoldsSummary(t, s) THEN txn[t].rows[s] ELSE summary[s]]
    /\ edits' = IF txn[t].audits
                THEN Append(edits, [row |-> txn[t].press.row,
                                    old |-> txn[t].new, new |-> txn[t].old])
                ELSE edits
    /\ txn' = [txn EXCEPT ![t] = Idle]
    /\ UNCHANGED <<today, started>>

Commit(t) ==
    /\ txn[t].step = "commit"
    /\ table' = Visible(t)
    /\ summary' = [s \in Streaks |->
         IF HoldsSummary(t, s) THEN txn[t].rows[s] ELSE summary[s]]
    /\ edits' = IF txn[t].audits
                THEN Append(edits, [row |-> txn[t].press.row,
                                    old |-> txn[t].old, new |-> txn[t].new])
                ELSE edits
    /\ txn' = [txn EXCEPT ![t] = Idle]
    /\ UNCHANGED <<today, started>>

-----------------------------------------------------------------------------
(* The process serving the request is killed: gunicorn's timeout, a        *)
(* rolling update, a lost database connection.                             *)
Die(t) == txn[t].step # "idle" /\ Rollback(t)

(* Local midnight.                                                         *)
NextDay ==
    /\ today + 1 \in Days
    /\ today' = today + 1
    /\ UNCHANGED <<table, summary, edits, txn, started>>

Step(t) ==
    \/ Audit(t) \/ ReadClock(t) \/ ReadRules(t) \/ Flush(t)
    \/ ReadLog(t) \/ ReadBadDays(t) \/ ReadState(t) \/ WriteState(t)
    \/ Commit(t)

Next ==
    \/ \E t \in Threads : (\E p \in Presses : Press(t, p)) \/ Step(t) \/ Die(t)
    \/ NextDay

Spec == Init /\ [][Next]_vars

-----------------------------------------------------------------------------
(* What a summary claims, held against the rows it was computed from: the  *)
(* count and the day grace was last spent are those of the log, under the  *)
(* day and the grace rule the summary was computed with.                   *)
Consistent(s) ==
    LET log == LogIn(table, s)
    IN  IF summary[s] = NoRow
        THEN DOMAIN log = {}
        ELSE LET now == Summarise([logged |-> log, bad |-> BadIn(table),
                                   today |-> summary[s].asOf,
                                   grace |-> summary[s].grace], 0)
             IN  /\ summary[s].current = now.current
                 /\ summary[s].lastGrace = now.lastGrace

(* The summary of an active streak cannot disagree with the log.           *)
SummaryMatchesLog == \A s \in Active : Consistent(s)

(* A streak with a logged day always has a summary to show, even when the  *)
(* recompute of its first mark fails or is killed.                         *)
LoggedStreakHasSummary ==
    \A s \in Streaks : DOMAIN LogIn(table, s) # {} => summary[s] # NoRow

(* The personal record never decreases, and no summary row disappears.     *)
RecordNeverDecreases ==
    [][\A s \in Streaks : summary[s] # NoRow =>
          summary'[s] # NoRow /\ summary'[s].record >= summary[s].record]_vars

(* Every change of past data is in the edit log, with the value the row    *)
(* had and the one it got.  Only the creation of a row for a day that was  *)
(* today while the request ran is silent.                                  *)
EveryChangeAudited ==
    [][\A r \in HabitRows \cup DailyRows : table'[r] # table[r] =>
          \/ edits' = Append(edits, [row |-> r, old |-> table[r], new |-> table'[r]])
          \/ /\ table[r] = NoRow
             /\ edits' = edits
             /\ \E t \in Threads : txn[t].press.row = r /\ DayOf(r) \in txn[t].from .. today
      ]_vars

(* The edit log tells no change that did not happen.                       *)
NoPhantomEdit ==
    [][edits' # edits =>
          LET e == edits'[Len(edits')]
          IN  table[e.row] = e.old /\ table'[e.row] = e.new /\ e.old # e.new]_vars

(* A recompute that ran alone repairs what any earlier race left behind:   *)
(* after it commits, the summaries it wrote agree with the log.            *)
HealsWhenAlone ==
    [][\A t \in Threads : Commit(t) /\ txn[t].alone =>
          \A s \in DOMAIN txn[t].rows : Consistent(s)']_vars

-----------------------------------------------------------------------------
(* Thread t's next statement waits for a lock that u holds.                *)
WaitsFor(t, u) ==
    /\ t # u
    /\ \/ /\ AtFlush(t)
          /\ HoldsEvent(u, txn[t].press.row)
          /\ txn[t].old = NoRow \/ table[txn[t].press.row] # NoRow
       \/ /\ AtWrite(t)
          /\ HoldsSummary(u, Head(txn[t].todo))

(* No group of requests waits only for members of the group: PostgreSQL    *)
(* never has to break a deadlock between journal requests.                 *)
NoWaitCycle ==
    \A W \in SUBSET Threads : W # {} => \E t \in W : \A u \in W : ~WaitsFor(t, u)

(* What the user is promised: each request takes effect in one step.       *)
Atomic == INSTANCE JournalAtomic
TakesEffectAtomically == Atomic!Spec

=============================================================================
