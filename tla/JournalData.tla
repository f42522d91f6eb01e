----------------------------- MODULE JournalData ----------------------------
(***************************************************************************)
(* The rows the journal writes, what a button press does to one of them,   *)
(* when a change is audited, and the summary row a recompute writes.       *)
(* Shared by the request-level specification (Journal) and the atomic one  *)
(* it implements for a single thread (JournalAtomic).                      *)
(***************************************************************************)
EXTENDS Integers, Sequences, FiniteSets

CONSTANTS
    Streaks,           \* ids in the streaks table, archived ones included
    ScanOrder,         \* the active streaks, in the order SELECT returns them
    Days,              \* the dates a press can name, and the days that pass
    FirstToday,        \* the day on which the behaviour starts
    Presses,           \* the button presses the user makes
    NoRow,             \* Python None: no row, or a NULL column
    Summarise(_, _)    \* the replay: (history, record held before) -> summary

(* Event rows by table and primary key.  The single settings row is among  *)
(* them: toggling grace reads it, flips it and writes it like a bad day.   *)
HabitRow(s, d) == <<"habit_log", s, d>>
DailyRow(d)    == <<"daily_state", d>>
PrefsRow       == <<"settings", 1>>

HabitRows == {HabitRow(s, d) : s \in Streaks, d \in Days}
DailyRows == {DailyRow(d) : d \in Days}
EventRows == HabitRows \cup DailyRows \cup {PrefsRow}

Value == BOOLEAN \cup {NoRow}

(* mark is the pass or fail of a habit press; the toggles carry none.      *)
AllPresses ==
    [row : HabitRows, mark : BOOLEAN] \cup [row : DailyRows \cup {PrefsRow}, mark : {NoRow}]

(* No count exceeds the number of days there are to count.                 *)
Counts == 0 .. Cardinality(Days)

Summaries == [current : Counts, record : Counts, lastGrace : Days \cup {NoRow}]

(* A stored summary with two history fields: the day it was computed for   *)
(* (the code keeps last_recomputed_at) and the grace rule it used.         *)
StateRows == [current : Counts, record : Counts, lastGrace : Days \cup {NoRow},
              asOf : Days, grace : BOOLEAN]

(* The marks of one streak: a function from the days that have one.        *)
Logs == UNION {[D -> BOOLEAN] : D \in SUBSET Days}

Histories == [logged : Logs, bad : SUBSET Days, today : Days, grace : BOOLEAN]

Active == {ScanOrder[i] : i \in DOMAIN ScanOrder}

ASSUME DataAssumption ==
    /\ Days \subseteq Nat /\ IsFiniteSet(Days)
    /\ FirstToday \in Days
    /\ ScanOrder \in Seq(Streaks)
    /\ \A i, j \in DOMAIN ScanOrder : ScanOrder[i] = ScanOrder[j] => i = j
    /\ Presses \subseteq AllPresses
    /\ NoRow \notin BOOLEAN /\ NoRow \notin Days /\ NoRow \notin StateRows

(* What the requests need of the replay; module StreakReplay shows the     *)
(* loop of the code has these properties.                                  *)
ASSUME SummariseAssumption ==
    \A h \in Histories : \A r \in Counts :
        /\ Summarise(h, r) \in Summaries
        /\ Summarise(h, r).record >= r
        /\ Summarise(h, r).record >= Summarise(h, r).current
        /\ Summarise(h, r).current = Summarise(h, 0).current
        /\ Summarise(h, r).lastGrace = Summarise(h, 0).lastGrace

-----------------------------------------------------------------------------
IsHabit(p) == p.row \in HabitRows
IsPrefs(p) == p.row = PrefsRow

(* The streaks a habit press names, by a function so that p.row needs no   *)
(* taking apart: the row's second component.                               *)
StreakOf(p) == p.row[2]
DayOf(r)    == IF r \in HabitRows THEN r[3] ELSE r[2]

GraceDefault == TRUE

(* The value the row gets: pressing the active mark clears it, a bad day   *)
(* is created set and then flipped, and the settings row is created with   *)
(* its default and flipped at once.                                        *)
After(p, old) ==
    IF IsHabit(p) THEN (IF old = p.mark THEN NoRow ELSE p.mark)
    ELSE IF IsPrefs(p) THEN (IF old = NoRow THEN ~GraceDefault ELSE ~old)
    ELSE (IF old = NoRow THEN TRUE ELSE ~old)

(* maybe_audit: all but the creation of today's row.  The settings are not *)
(* an event table and no route audits them.                                *)
\* mutant of Audited: writing into a past day counts as daily use
AuditedEditsOnly(p, old, new, today) == ~IsPrefs(p) /\ old # NoRow /\ old # new

Audited(p, old, new, today) ==
    /\ ~IsPrefs(p)
    /\ ~(old = NoRow /\ DayOf(p.row) = today)
    /\ old # new

LogIn(tab, s) ==
    [d \in {e \in Days : tab[HabitRow(s, e)] # NoRow} |-> tab[HabitRow(s, d)]]

BadIn(tab) == {d \in Days : tab[DailyRow(d)] = TRUE}

GraceIn(tab) == IF tab[PrefsRow] = NoRow THEN GraceDefault ELSE tab[PrefsRow]

\* mutant of RecordOf: the replay starts its record from zero
RecordOfZero(had) == 0

RecordOf(had) == IF had = NoRow THEN 0 ELSE had.record

\* mutant of Recomputed: the row is dated a day ahead
RecomputedAhead(h, had) ==
    LET new == Summarise(h, RecordOf(had))
    IN  [ current |-> new.current, record |-> new.record, lastGrace |-> new.lastGrace,
          asOf |-> h.today + 1, grace |-> h.grace ]

(* The row a recompute of history h writes over the row `had`.             *)
Recomputed(h, had) ==
    LET new == Summarise(h, RecordOf(had))
    IN  [ current |-> new.current, record |-> new.record, lastGrace |-> new.lastGrace,
          asOf |-> h.today, grace |-> h.grace ]

=============================================================================
