---------------------------- MODULE StreakRules ----------------------------
(***************************************************************************)
(* What app/recompute.py promises about one streak, stated without the     *)
(* loop that computes it.                                                  *)
(*                                                                         *)
(* A history h is everything the recompute reads:                          *)
(*   h.logged  the habit_log rows of the streak, a function from the days  *)
(*             that have a row to BOOLEAN (the dict `logged` of the code)  *)
(*   h.bad     the days whose daily_state row has bad_day = TRUE           *)
(*   h.today   the day the caller passes as today                          *)
(*   h.grace   settings.grace_enabled, or its default                      *)
(*                                                                         *)
(* Days are numbers (date.toordinal of Python): the date arithmetic the    *)
(* code needs is +1 day, <= and the difference of two dates in days.       *)
(***************************************************************************)
EXTENDS Integers, FiniteSetsExt

CONSTANTS GraceMinStreak,      \* passes a streak needs before a miss is forgiven
          GraceCooldownDays,   \* days between two forgiven misses
          NoRow                \* Python None: no row, or a NULL column

ASSUME RulesAssumption ==
    /\ GraceMinStreak \in Nat
    /\ GraceCooldownDays \in Nat \ {0}
    /\ NoRow \notin Int
    /\ NoRow \notin BOOLEAN

History(days) ==
    [ logged : UNION {[D -> BOOLEAN] : D \in SUBSET days},
      bad    : SUBSET days,
      today  : days,
      grace  : BOOLEAN ]

(* The replay starts at the first logged day and ends today, inclusive.    *)
FirstDay(h) ==
    IF DOMAIN h.logged = {}
    THEN h.today
    ELSE CHOOSE d \in DOMAIN h.logged : \A e \in DOMAIN h.logged : d <= e

Span(h) == FirstDay(h) .. h.today

Passed(h, d) == d \in DOMAIN h.logged /\ h.logged[d]

(* A day without an entry is excused when the user called it a bad day, or *)
(* when it is today, which is not over yet.                                *)
Excused(h, d) == d \notin DOMAIN h.logged /\ (d = h.today \/ d \in h.bad)

MissedDays(h) == {d \in Span(h) : ~Passed(h, d) /\ ~Excused(h, d)}

-----------------------------------------------------------------------------
(* With the misses in G forgiven, the run that stands before day d: the    *)
(* passes that no unforgiven miss separates from d.                        *)
RunBefore(h, G, d) ==
    {p \in Span(h) : /\ p < d
                     /\ Passed(h, p)
                     /\ \A b \in MissedDays(h) \ G : ~(p < b /\ b < d)}

(* The one way to spend grace: a miss is forgiven exactly when grace is on,*)
(* the run before it is long enough, and the last forgiven miss is at      *)
(* least a cooldown away.                                                  *)
MayForgive(h, G, d) ==
    /\ h.grace
    /\ Cardinality(RunBefore(h, G, d)) >= GraceMinStreak
    /\ \A g \in G : g < d => d - g >= GraceCooldownDays

LawfulGrace(h, G) ==
    /\ G \subseteq MissedDays(h)
    /\ \A d \in MissedDays(h) : d \in G <=> MayForgive(h, G, d)

(* The summary row of a lawful set of forgiven days; `before` is the       *)
(* personal record the row already held.                                   *)
SummaryWith(h, G, before) ==
    LET runs == {Cardinality(RunBefore(h, G, d + 1)) : d \in Span(h)}
    IN  [ current   |-> Cardinality(RunBefore(h, G, h.today + 1)),
          record    |-> Max(runs \cup {before}),
          lastGrace |-> IF G = {} THEN NoRow ELSE Max(G) ]

PromisedSummary(h, before) ==
    LET G == CHOOSE G \in SUBSET MissedDays(h) : LawfulGrace(h, G)
    IN  SummaryWith(h, G, before)

=============================================================================
