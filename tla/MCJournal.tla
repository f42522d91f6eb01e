----------------------------- MODULE MCJournal -----------------------------
(***************************************************************************)
(* The journal with the real replay, small grace constants and a few       *)
(* buttons.  One pass makes a streak long enough to be forgiven a miss.    *)
(***************************************************************************)
EXTENDS Journal

CONSTANTS s1, s2

Rules == INSTANCE StreakRules WITH GraceMinStreak <- 1, GraceCooldownDays <- 1

\* evaluated once, looked up at every recompute
Promises == [h \in Histories |-> [before \in Counts |-> Rules!PromisedSummary(h, before)]]
MCSummarise(h, before) == Promises[h][before]

Pass(s, d) == [row |-> HabitRow(s, d), mark |-> TRUE]
Fail(s, d) == [row |-> HabitRow(s, d), mark |-> FALSE]
BadDay(d)  == [row |-> DailyRow(d), mark |-> NoRow]
Grace      == [row |-> PrefsRow, mark |-> NoRow]

\* one thread: every button of one streak over three days
MCOneStreak == {s1}
MCOrderOne == <<s1>>
MCThreeDays == 1..3
MCAllButtons == AllPresses

\* two threads: the buttons of two days, two active streaks
MCTwoStreaks == {s1, s2}
MCOrderTwo == <<s2, s1>>
MCTwoDays == 1..2
MCRacePresses ==
    {Pass(s1, 1), Fail(s1, 1), Pass(s1, 2), BadDay(1), BadDay(2), Grace}

=============================================================================
