--------------------------- MODULE JournalAtomic ---------------------------
(***************************************************************************)
(* What the journal promises its user: a button press takes effect in one  *)
(* step.  The event row changes, the change is audited unless it creates   *)
(* the row of the day, and every streak that counts differently now has    *)
(* its summary rebuilt from the rows as they stand after the press.        *)
(*                                                                         *)
(* A press that spans midnight may have dated its audit decision and its   *)
(* summaries by the old day or the new one, so both are days up to today.  *)
(***************************************************************************)
EXTENDS JournalData

VARIABLES table, summary, edits, today

vars == <<table, summary, edits, today>>

Init ==
    /\ table = [r \in EventRows |-> NoRow]
    /\ summary = [s \in Streaks |-> NoRow]
    /\ edits = << >>
    /\ today = FirstToday

(* The streaks whose count the press can move.                             *)
Touched(p) ==
    IF IsHabit(p) THEN {StreakOf(p)} ELSE IF IsPrefs(p) THEN {} ELSE Active

DaysUpTo(d) == {e \in Days : e <= d}

Take(p, dated, asOf) ==
    LET old == table[p.row]
        new == After(p, old)
        rows == [table EXCEPT ![p.row] = new]
    IN  /\ table' = rows
        /\ edits' = IF Audited(p, old, new, dated)
                    THEN Append(edits, [row |-> p.row, old |-> old, new |-> new])
                    ELSE edits
        /\ summary' = [s \in Streaks |->
              IF s \in Touched(p)
              THEN Recomputed([logged |-> LogIn(rows, s), bad |-> BadIn(rows),
                               today |-> asOf[s], grace |-> GraceIn(table)], summary[s])
              ELSE summary[s]]
        /\ UNCHANGED today

NextDay == today + 1 \in Days /\ today' = today + 1 /\ UNCHANGED <<table, summary, edits>>

Next ==
    \/ \E p \in Presses :
         \E dated \in DaysUpTo(today) : \E asOf \in [Touched(p) -> DaysUpTo(today)] :
             Take(p, dated, asOf)
    \/ NextDay

Spec == Init /\ [][Next]_vars

=============================================================================
