---------------------------- MODULE StreakReplay ----------------------------
(***************************************************************************)
(* recompute_streak_state (app/recompute.py 39-97): replay every logged    *)
(* day of one streak, one day a step, and overwrite its summary row.       *)
(*                                                                         *)
(* The history is fixed while the replay runs: the code copies it out of   *)
(* the database before the loop starts.  What concurrent requests do to    *)
(* that copy is the subject of module Journal.                             *)
(***************************************************************************)
EXTENDS StreakRules

CONSTANTS Days,              \* the days a history may mention
          Histories,         \* the histories to replay
          StoredRecords      \* personal records a stored row may hold

ASSUME ReplayAssumption ==
    /\ Days \subseteq Nat
    /\ Histories \subseteq History(Days)
    /\ StoredRecords \subseteq Nat

VARIABLES
    hist,        \* the history read before the loop (logged, bad_days, today, grace_enabled)
    row,         \* the streak_state row, NoRow if there is none
    pc,          \* "start", "loop" or "done"
    day,         \* the loop variables of the code
    current,
    record,
    lastGrace,
    forgiven,    \* history variable: the days on which grace was spent
    before       \* history variable: the record held before the replay

vars == <<hist, row, pc, day, current, record, lastGrace, forgiven, before>>

Rows == [current : Nat, record : Nat, lastGrace : Int \cup {NoRow}]

BlankRow == [current |-> 0, record |-> 0, lastGrace |-> NoRow]

StoredRows == {NoRow} \cup {[BlankRow EXCEPT !.record = r] : r \in StoredRecords}

TypeOK ==
    /\ hist \in Histories
    /\ row \in Rows \cup {NoRow}
    /\ pc \in {"start", "loop", "done"}
    /\ day \in Int
    /\ current \in Nat
    /\ record \in Nat
    /\ lastGrace \in Int \cup {NoRow}
    /\ forgiven \in SUBSET Int
    /\ before \in Nat

-----------------------------------------------------------------------------
Init ==
    /\ hist \in Histories
    /\ row \in StoredRows
    /\ pc = "start"
    /\ day = hist.today
    /\ current = 0
    /\ record = 0
    /\ lastGrace = NoRow
    /\ forgiven = {}
    /\ before = 0

(* session.get, a fresh row if there is none, and the loop's first values. *)
Start ==
    /\ pc = "start"
    /\ row' = IF row = NoRow THEN BlankRow ELSE row
    /\ record' = row'.record
    /\ before' = row'.record
    /\ day' = FirstDay(hist)
    /\ pc' = "loop"
    /\ UNCHANGED <<hist, current, lastGrace, forgiven>>

InLoop == pc = "loop" /\ day <= hist.today

\* mutants of CanForgive: the cooldown is forgotten, the minimum run is
\* forgotten, the cooldown is one day too long
CanForgiveTooSoon == hist.grace /\ current >= GraceMinStreak

CanForgiveShortRun ==
    hist.grace /\ (lastGrace # NoRow => day - lastGrace >= GraceCooldownDays)

CanForgiveLate ==
    /\ hist.grace
    /\ current >= GraceMinStreak
    /\ lastGrace # NoRow => day - lastGrace > GraceCooldownDays

CanForgive ==
    /\ hist.grace
    /\ current >= GraceMinStreak
    /\ lastGrace # NoRow => day - lastGrace >= GraceCooldownDays

CountPass ==
    /\ InLoop
    /\ Passed(hist, day)
    /\ current' = current + 1
    /\ record' = IF current + 1 > record THEN current + 1 ELSE record
    /\ day' = day + 1
    /\ UNCHANGED <<hist, row, pc, lastGrace, forgiven, before>>

\* mutants of SkipExcused: an excused day ends the run, or counts as a pass
SkipExcusedAs(count) ==
    /\ InLoop
    /\ Excused(hist, day)
    /\ current' = count
    /\ day' = day + 1
    /\ UNCHANGED <<hist, row, pc, record, lastGrace, forgiven, before>>

SkipExcusedResets == SkipExcusedAs(0)
SkipExcusedCounts == SkipExcusedAs(current + 1)

SkipExcused ==
    /\ InLoop
    /\ Excused(hist, day)
    /\ day' = day + 1
    /\ UNCHANGED <<hist, row, pc, current, record, lastGrace, forgiven, before>>

ForgiveMiss ==
    /\ InLoop
    /\ ~Passed(hist, day) /\ ~Excused(hist, day)
    /\ CanForgive
    /\ lastGrace' = day
    /\ forgiven' = forgiven \cup {day}
    /\ day' = day + 1
    /\ UNCHANGED <<hist, row, pc, current, record, before>>

\* mutant of BreakRun: a miss takes nothing at all
BreakRunForgotten ==
    /\ InLoop
    /\ ~Passed(hist, day) /\ ~Excused(hist, day)
    /\ ~CanForgive
    /\ day' = day + 1
    /\ UNCHANGED <<hist, row, pc, current, record, lastGrace, forgiven, before>>

BreakRun ==
    /\ InLoop
    /\ ~Passed(hist, day) /\ ~Excused(hist, day)
    /\ ~CanForgive
    /\ current' = 0
    /\ day' = day + 1
    /\ UNCHANGED <<hist, row, pc, record, lastGrace, forgiven, before>>

WriteRow ==
    /\ pc = "loop" /\ day > hist.today
    /\ row' = [current |-> current, record |-> record, lastGrace |-> lastGrace]
    /\ pc' = "done"
    /\ UNCHANGED <<hist, day, current, record, lastGrace, forgiven, before>>

Next == Start \/ CountPass \/ SkipExcused \/ ForgiveMiss \/ BreakRun \/ WriteRow

Spec == Init /\ [][Next]_vars

-----------------------------------------------------------------------------
(* The row the loop leaves is the one the rule promises, whatever the      *)
(* history and whatever the row held before.                               *)
WritesThePromise ==
    pc = "done" => row = PromisedSummary(hist, before)

(* The rule leaves no choice: exactly one set of misses is forgivable, and *)
(* it is the set the loop forgave.                                         *)
OneLawfulGrace ==
    pc = "done" =>
        \A G \in SUBSET MissedDays(hist) : LawfulGrace(hist, G) <=> G = forgiven

(* At every iteration `current` is the length of the unbroken run before   *)
(* the day the loop looks at, given what it forgave so far.                *)
CountsTheRun ==
    pc = "loop" => current = Cardinality(RunBefore(hist, forgiven, day))

(* At every iteration the misses already passed were forgiven exactly when *)
(* the rule forgives them; the loop keeps only the last one of them.       *)
ForgivesByTheRule ==
    pc \in {"loop", "done"} =>
        /\ \A d \in MissedDays(hist) : d < day =>
              (d \in forgiven <=> MayForgive(hist, forgiven, d))
        /\ forgiven = {} => lastGrace = NoRow
        /\ forgiven # {} => lastGrace \in forgiven /\ \A g \in forgiven : g <= lastGrace

(* What the row ends up saying obeys the rule over the whole history: the  *)
(* forgiven misses are a lawful set and the count is the run that stands   *)
(* after today.                                                            *)
LawfulResult ==
    pc = "done" =>
        /\ LawfulGrace(hist, forgiven)
        /\ row.current = Cardinality(RunBefore(hist, forgiven, hist.today + 1))
        /\ row.lastGrace = lastGrace

(* The displayed count never exceeds the personal record beside it, and    *)
(* the record never falls below the one the row already held.              *)
RecordCoversCurrent ==
    pc \in {"loop", "done"} => record >= current /\ record >= before

(* Correcting a day the user forgot, from a miss or no entry to a pass,    *)
(* never lowers the count, although it may move the day grace is spent on. *)
CorrectionNeverCosts ==
    pc = "done" =>
        \A d \in {e \in Days : e <= hist.today /\ ~Passed(hist, e)} :
            LET logged == [e \in DOMAIN hist.logged \cup {d} |->
                             IF e = d THEN TRUE ELSE hist.logged[e]]
            IN  PromisedSummary([hist EXCEPT !.logged = logged], before).current
                    >= row.current

(* Calling a day a bad day, or switching grace on, never lowers the count. *)
LeniencyNeverCosts ==
    pc = "done" =>
        /\ \A d \in {e \in Days : e <= hist.today} :
              PromisedSummary([hist EXCEPT !.bad = @ \cup {d}], before).current
                  >= row.current
        /\ PromisedSummary([hist EXCEPT !.grace = TRUE], before).current
               >= row.current

=============================================================================
