------------------------- MODULE StreakReplayProofs -------------------------
(***************************************************************************)
(* The replay of one streak is correct for every history, every stored     *)
(* record and every value of the two grace constants.                      *)
(***************************************************************************)
EXTENDS StreakReplay, FiniteSetTheorems, WellFoundedInduction, TLAPS

(* A nonempty set of natural numbers has a least one.  The library states  *)
(* it with the order as an operator parameter; this is the plain form.     *)
LEMMA LeastNumber ==
    ASSUME NEW D \in SUBSET Nat, D # {}
    PROVE  \E d \in D : \A e \in D : d <= e
<1> DEFINE Below == {ss \in Nat \X Nat : ss[1] < ss[2]}
<1>1. OpToRel(<, Nat) = Below
    BY Zenon DEF OpToRel
<1>2. IsWellFoundedOn(Below, Nat)
    BY <1>1, NatLessThanWellFounded, Zenon
<1>3. PICK d \in D : \A e \in D : ~(<<e, d>> \in Below)
    <2> HIDE DEF Below
    <2> QED
        BY <1>2, WFMin
<1>4. ASSUME NEW e \in D PROVE d <= e
    <2>1. d \in Nat /\ e \in Nat /\ <<e, d>> \in Nat \X Nat
        OBVIOUS
    <2>2. e < d => <<e, d>> \in Below
        BY <2>1
    <2> QED
        BY <1>3, <2>1, <2>2
<1> QED
    BY <1>4

(* FirstDay is a day number, so the loop has a first iteration.            *)
LEMMA FirstDayType ==
    ASSUME NEW h \in History(Days)
    PROVE  FirstDay(h) \in Nat
<1>1. DOMAIN h.logged \subseteq Nat /\ h.today \in Nat
    BY ReplayAssumption DEF History
<1>2. CASE DOMAIN h.logged = {}
    BY <1>1, <1>2 DEF FirstDay
<1>3. CASE DOMAIN h.logged # {}
    <2>1. \E d \in DOMAIN h.logged : \A e \in DOMAIN h.logged : d <= e
        BY <1>1, <1>3, LeastNumber
    <2> QED
        BY <1>1, <1>3, <2>1 DEF FirstDay
<1> QED
    BY <1>2, <1>3

-----------------------------------------------------------------------------
(* The run before a day, and what one more day does to it.                 *)

LEMMA SpanType ==
    ASSUME NEW h \in History(Days)
    PROVE  /\ FirstDay(h) \in Nat /\ h.today \in Nat
           /\ Span(h) \subseteq Nat /\ IsFiniteSet(Span(h))
           /\ MissedDays(h) \subseteq Span(h)
<1>1. FirstDay(h) \in Nat /\ h.today \in Nat
    BY FirstDayType, ReplayAssumption DEF History
<1>2. IsFiniteSet(FirstDay(h) .. h.today)
    BY <1>1, FS_Interval
<1>3. Span(h) = FirstDay(h) .. h.today
    BY DEF Span
<1> QED
    BY <1>1, <1>2, <1>3 DEF MissedDays

(* A run is a finite set, so its length is a number.                       *)
LEMMA RunType ==
    ASSUME NEW h \in History(Days), NEW G, NEW d
    PROVE  /\ RunBefore(h, G, d) \subseteq Span(h)
           /\ IsFiniteSet(RunBefore(h, G, d))
           /\ Cardinality(RunBefore(h, G, d)) \in Nat
<1>1. RunBefore(h, G, d) \in SUBSET Span(h)
    BY DEF RunBefore
<1> QED
    BY <1>1, SpanType, FS_Subset, FS_CardinalityType

(* Forgiving a day changes no run that ends on it or before it.            *)
LEMMA EarlierRuns ==
    ASSUME NEW h \in History(Days), NEW G, NEW d \in Nat, NEW e \in Nat, e <= d
    PROVE  RunBefore(h, G \cup {d}, e) = RunBefore(h, G, e)
    BY SpanType DEF RunBefore

(* A passed day extends the run by itself.                                 *)
LEMMA PassExtends ==
    ASSUME NEW h \in History(Days), NEW G, NEW d \in Span(h), Passed(h, d)
    PROVE  /\ RunBefore(h, G, d + 1) = RunBefore(h, G, d) \cup {d}
           /\ Cardinality(RunBefore(h, G, d + 1)) =
                  Cardinality(RunBefore(h, G, d)) + 1
<1>1. d \in Nat /\ Span(h) \subseteq Nat /\ d \notin MissedDays(h)
    BY SpanType DEF MissedDays
<1>2. RunBefore(h, G, d + 1) = RunBefore(h, G, d) \cup {d}
    BY <1>1, SpanType DEF RunBefore
<1>3. d \notin RunBefore(h, G, d)
    BY <1>1 DEF RunBefore
<1> QED
    BY <1>2, <1>3, RunType, FS_AddElement

(* A day that is neither a pass nor an unforgiven miss leaves it alone.    *)
LEMMA GapKeeps ==
    ASSUME NEW h \in History(Days), NEW G, NEW d \in Nat,
           ~Passed(h, d), d \notin MissedDays(h) \ G
    PROVE  RunBefore(h, G, d + 1) = RunBefore(h, G, d)
    BY SpanType DEF RunBefore

(* An unforgiven miss ends it.                                             *)
LEMMA MissEnds ==
    ASSUME NEW h \in History(Days), NEW G, NEW d \in MissedDays(h) \ G
    PROVE  RunBefore(h, G, d + 1) = {}
<1>1. d \in Nat /\ Span(h) \subseteq Nat /\ ~Passed(h, d)
    BY SpanType DEF MissedDays
<1> QED
    BY <1>1 DEF RunBefore

-----------------------------------------------------------------------------
(* The inductive invariant: where the loop stands, what it forgave, and    *)
(* that its count is the run before the day it looks at.                   *)
LoopStands ==
    /\ pc = "start" => forgiven = {} /\ lastGrace = NoRow /\ current = 0
    /\ pc # "start" =>
          /\ FirstDay(hist) <= day
          /\ day <= hist.today + 1 \/ hist.today < FirstDay(hist)
          /\ \A g \in forgiven : g \in MissedDays(hist) /\ g < day
          /\ current = Cardinality(RunBefore(hist, forgiven, day))
    /\ pc = "done" =>
          /\ hist.today < day
          /\ row = [current |-> current, record |-> record, lastGrace |-> lastGrace]

ReplayInv == TypeOK /\ LoopStands /\ ForgivesByTheRule /\ RecordCoversCurrent

(* Types: every field stays a number or NoRow, whatever the history.       *)
LEMMA InitType == Init => TypeOK
    BY RulesAssumption, ReplayAssumption DEF Init, TypeOK, StoredRows, BlankRow, Rows, History

LEMMA NextType == TypeOK /\ [Next]_vars => TypeOK'
<1> SUFFICES ASSUME TypeOK, [Next]_vars PROVE TypeOK'
    OBVIOUS
<1> USE RulesAssumption DEF TypeOK
<1>0. hist \in History(Days) /\ hist.today \in Nat /\ FirstDay(hist) \in Nat
    BY ReplayAssumption, SpanType
<1>1. CASE Start
    BY <1>0, <1>1 DEF Start, BlankRow, Rows
<1>2. CASE CountPass
    BY <1>0, <1>2 DEF CountPass, InLoop
<1>3. CASE SkipExcused
    BY <1>0, <1>3 DEF SkipExcused, InLoop
<1>4. CASE ForgiveMiss
    BY <1>0, <1>4 DEF ForgiveMiss, InLoop
<1>5. CASE BreakRun
    BY <1>0, <1>5 DEF BreakRun, InLoop
<1>6. CASE WriteRow
    BY <1>0, <1>6 DEF WriteRow, Rows
<1>7. CASE UNCHANGED vars
    BY <1>7 DEF vars
<1> QED
    BY <1>1, <1>2, <1>3, <1>4, <1>5, <1>6, <1>7 DEF Next

LEMMA ForgivenType ==
    ASSUME ReplayInv
    PROVE  forgiven \subseteq Nat
<1>1. hist \in History(Days)
    BY ReplayAssumption DEF ReplayInv, TypeOK
<1>2. pc # "start" => forgiven \subseteq MissedDays(hist)
    BY DEF ReplayInv, LoopStands
<1> QED
    BY <1>1, <1>2, SpanType DEF ReplayInv, LoopStands

(* The first iteration looks at the first day, with no run behind it.      *)
LEMMA StartKeeps ==
    ASSUME ReplayInv, Start
    PROVE  ReplayInv'
<1> USE DEF ReplayInv
<1>1. TypeOK'
    BY NextType DEF Next
<1>2. hist \in History(Days)
    BY ReplayAssumption DEF TypeOK
<1>3. /\ hist' = hist /\ forgiven' = {} /\ lastGrace' = NoRow /\ current' = 0
      /\ day' = FirstDay(hist) /\ pc' = "loop" /\ record' \in Nat /\ before' = record'
    BY <1>1 DEF Start, LoopStands, TypeOK
<1>4. RunBefore(hist, {}, FirstDay(hist)) = {}
    BY <1>2, SpanType DEF RunBefore, Span
<1>5. \A d \in MissedDays(hist) : ~(d < FirstDay(hist))
    BY <1>2, SpanType DEF Span
<1>6. FirstDay(hist) <= hist.today + 1 \/ hist.today < FirstDay(hist)
    BY <1>2, SpanType
<1>7. LoopStands'
    <2>1. FirstDay(hist) \in Nat
        BY <1>2, SpanType
    <2>2. Cardinality(RunBefore(hist, {}, FirstDay(hist))) = 0
        BY <1>4, FS_EmptySet
    <2> QED
        BY <1>3, <1>6, <2>1, <2>2 DEF LoopStands
<1>8. ForgivesByTheRule'
    BY <1>3, <1>5 DEF ForgivesByTheRule
<1>9. RecordCoversCurrent'
    BY <1>3 DEF RecordCoversCurrent
<1> QED
    BY <1>1, <1>7, <1>8, <1>9

(* Spending no grace leaves every verdict on an earlier miss as it was.    *)
LEMMA VerdictsStand ==
    ASSUME ReplayInv, InLoop, forgiven' = forgiven, hist' = hist, pc' = pc,
           lastGrace' = lastGrace, day' = day + 1,
           day \in MissedDays(hist) => ~MayForgive(hist, forgiven, day)
    PROVE  ForgivesByTheRule'
<1>1. hist \in History(Days) /\ day \in Nat
    BY ReplayAssumption, SpanType DEF ReplayInv, TypeOK, LoopStands, InLoop
<1>2. day \notin forgiven
    BY <1>1 DEF ReplayInv, LoopStands, InLoop
<1>3. ASSUME NEW d \in MissedDays(hist), d < day + 1
      PROVE  d \in forgiven <=> MayForgive(hist, forgiven, d)
    <2>1. d < day \/ d = day
        BY <1>1, <1>3, SpanType
    <2> QED
        BY <1>2, <1>3, <2>1 DEF ReplayInv, ForgivesByTheRule, InLoop
<1> QED
    BY <1>3 DEF ReplayInv, ForgivesByTheRule, InLoop

(* The model's variables keep their types for every set of days, every     *)
(* stored record and both constants of the rule.                           *)
THEOREM ReplayTypeCorrect == Spec => []TypeOK
<1>1. Init => TypeOK
    BY InitType
<1>2. TypeOK /\ [Next]_vars => TypeOK'
    BY NextType
<1> QED
    BY <1>1, <1>2, PTL DEF Spec
LEMMA CountPassKeeps ==
    ASSUME ReplayInv, CountPass
    PROVE  ReplayInv'
<1>1. TypeOK' /\ TypeOK
    BY NextType DEF Next, ReplayInv
<1>2. /\ hist \in History(Days) /\ day \in Span(hist) /\ day \in Nat
      /\ hist.today \in Nat /\ FirstDay(hist) \in Nat
    BY <1>1, ReplayAssumption, SpanType
       DEF TypeOK, ReplayInv, LoopStands, CountPass, InLoop, Span
<1>3. day \notin MissedDays(hist)
    BY DEF CountPass, MissedDays
<1>4. current' = Cardinality(RunBefore(hist, forgiven, day + 1))
    BY <1>2, PassExtends DEF ReplayInv, LoopStands, CountPass, InLoop
<1>5. LoopStands'
    <2>1. \A g \in forgiven : g \in MissedDays(hist) /\ g < day + 1
        BY <1>2, ForgivenType DEF ReplayInv, LoopStands, CountPass, InLoop
    <2> QED
        BY <1>2, <1>4, <2>1 DEF ReplayInv, LoopStands, CountPass, InLoop
<1>6. ForgivesByTheRule'
    BY <1>3, VerdictsStand DEF CountPass
<1>7. RecordCoversCurrent'
    BY <1>1 DEF ReplayInv, RecordCoversCurrent, CountPass, InLoop, TypeOK
<1> QED
    BY <1>1, <1>5, <1>6, <1>7 DEF ReplayInv

LEMMA SkipExcusedKeeps ==
    ASSUME ReplayInv, SkipExcused
    PROVE  ReplayInv'
<1>1. TypeOK' /\ TypeOK
    BY NextType DEF Next, ReplayInv
<1>2. /\ hist \in History(Days) /\ day \in Nat
      /\ hist.today \in Nat /\ FirstDay(hist) \in Nat
    BY <1>1, ReplayAssumption, SpanType
       DEF TypeOK, ReplayInv, LoopStands, SkipExcused, InLoop
<1>3. day \notin MissedDays(hist) /\ ~Passed(hist, day)
    BY DEF SkipExcused, MissedDays, Excused, Passed
<1>4. current' = Cardinality(RunBefore(hist, forgiven, day + 1))
    BY <1>2, <1>3, GapKeeps DEF ReplayInv, LoopStands, SkipExcused, InLoop
<1>5. LoopStands'
    <2>1. \A g \in forgiven : g \in MissedDays(hist) /\ g < day + 1
        BY <1>2, ForgivenType DEF ReplayInv, LoopStands, SkipExcused, InLoop
    <2> QED
        BY <1>2, <1>4, <2>1 DEF ReplayInv, LoopStands, SkipExcused, InLoop
<1>6. ForgivesByTheRule'
    BY <1>3, VerdictsStand DEF SkipExcused
<1>7. RecordCoversCurrent'
    BY <1>1 DEF ReplayInv, RecordCoversCurrent, SkipExcused, InLoop, TypeOK
<1> QED
    BY <1>1, <1>5, <1>6, <1>7 DEF ReplayInv

(* The guard the loop evaluates with last_grace alone is the rule's guard  *)
(* over all the days forgiven so far.                                      *)
LEMMA GuardIsTheRule ==
    ASSUME ReplayInv, InLoop
    PROVE  CanForgive <=> MayForgive(hist, forgiven, day)
<1>1. /\ day \in Nat /\ GraceCooldownDays \in Nat
      /\ forgiven \subseteq Nat /\ \A g \in forgiven : g < day
    BY ReplayAssumption, RulesAssumption, SpanType
       DEF ReplayInv, TypeOK, LoopStands, InLoop
<1>2. current = Cardinality(RunBefore(hist, forgiven, day))
    BY DEF ReplayInv, LoopStands, InLoop
<1>3. (lastGrace # NoRow => day - lastGrace >= GraceCooldownDays)
          <=> \A g \in forgiven : g < day => day - g >= GraceCooldownDays
    <2>1. CASE forgiven = {}
        BY <2>1 DEF ReplayInv, ForgivesByTheRule, InLoop
    <2>2. CASE forgiven # {}
        <3>1. lastGrace \in forgiven /\ \A g \in forgiven : g <= lastGrace
            BY <2>2 DEF ReplayInv, ForgivesByTheRule, InLoop
        <3>2. lastGrace \in Nat /\ lastGrace # NoRow
            BY <1>1, <3>1, RulesAssumption
        <3> QED
            BY <1>1, <3>1, <3>2
    <2> QED
        BY <2>1, <2>2
<1> QED
    BY <1>2, <1>3 DEF CanForgive, MayForgive

LEMMA BreakRunKeeps ==
    ASSUME ReplayInv, BreakRun
    PROVE  ReplayInv'
<1>1. TypeOK' /\ TypeOK
    BY NextType DEF Next, ReplayInv
<1>2. /\ hist \in History(Days) /\ day \in Nat /\ day \in Span(hist)
      /\ hist.today \in Nat /\ FirstDay(hist) \in Nat
    BY <1>1, ReplayAssumption, SpanType
       DEF TypeOK, ReplayInv, LoopStands, BreakRun, InLoop, Span
<1>3. day \in MissedDays(hist) \ forgiven
    BY <1>2 DEF BreakRun, MissedDays, ReplayInv, LoopStands, InLoop
<1>4. current' = Cardinality(RunBefore(hist, forgiven, day + 1))
    <2>1. RunBefore(hist, forgiven, day + 1) = {}
        BY <1>2, <1>3, MissEnds
    <2> QED
        BY <2>1, FS_EmptySet DEF BreakRun
<1>5. LoopStands'
    <2>1. \A g \in forgiven : g \in MissedDays(hist) /\ g < day + 1
        BY <1>2, ForgivenType DEF ReplayInv, LoopStands, BreakRun, InLoop
    <2> QED
        BY <1>2, <1>4, <2>1 DEF ReplayInv, LoopStands, BreakRun, InLoop
<1>6. ForgivesByTheRule'
    BY VerdictsStand, GuardIsTheRule DEF BreakRun
<1>7. RecordCoversCurrent'
    BY <1>1 DEF ReplayInv, RecordCoversCurrent, BreakRun, InLoop, TypeOK
<1> QED
    BY <1>1, <1>5, <1>6, <1>7 DEF ReplayInv

LEMMA ForgiveMissKeeps ==
    ASSUME ReplayInv, ForgiveMiss
    PROVE  ReplayInv'
<1>1. TypeOK' /\ TypeOK
    BY NextType DEF Next, ReplayInv
<1>2. /\ hist \in History(Days) /\ day \in Nat /\ day \in Span(hist)
      /\ hist.today \in Nat /\ FirstDay(hist) \in Nat
      /\ forgiven \subseteq Nat /\ \A g \in forgiven : g < day
    BY <1>1, ForgivenType, ReplayAssumption, SpanType
       DEF TypeOK, ReplayInv, LoopStands, ForgiveMiss, InLoop, Span
<1>3. day \in MissedDays(hist) /\ ~Passed(hist, day)
    BY <1>2 DEF ForgiveMiss, MissedDays
<1>4. /\ hist' = hist /\ pc' = pc /\ pc = "loop" /\ day' = day + 1
      /\ forgiven' = forgiven \cup {day} /\ lastGrace' = day
      /\ current' = current /\ record' = record /\ before' = before
    BY DEF ForgiveMiss, InLoop
<1>5. \A d \in Nat : d <= day =>
          RunBefore(hist, forgiven \cup {day}, d) = RunBefore(hist, forgiven, d)
    BY <1>2, EarlierRuns
<1>6. LoopStands'
    <2>1. RunBefore(hist, forgiven \cup {day}, day + 1) = RunBefore(hist, forgiven, day)
        BY <1>2, <1>3, <1>5, GapKeeps, SMTT(30)
    <2>2. current' = Cardinality(RunBefore(hist, forgiven', day'))
        BY <1>4, <2>1 DEF ReplayInv, LoopStands
    <2>3. \A g \in forgiven' : g \in MissedDays(hist) /\ g < day'
        BY <1>2, <1>3, <1>4 DEF ReplayInv, LoopStands
    <2>4. FirstDay(hist) <= day' /\ (day' <= hist.today + 1 \/ hist.today < FirstDay(hist))
        BY <1>2, <1>4 DEF ForgiveMiss, InLoop, Span
    <2> QED
        BY <1>4, <2>2, <2>3, <2>4 DEF LoopStands
<1>7. ForgivesByTheRule'
    <2>1. ASSUME NEW d \in MissedDays(hist), d < day + 1
          PROVE  d \in forgiven' <=> MayForgive(hist, forgiven', d)
        <3>1. d \in Nat /\ d <= day
            BY <1>2, <2>1, SpanType
        <3>2. MayForgive(hist, forgiven', d) <=> MayForgive(hist, forgiven, d)
            <4>1. RunBefore(hist, forgiven', d) = RunBefore(hist, forgiven, d)
                BY <1>4, <1>5, <3>1
            <4>2. \A g \in forgiven' : g < d => g \in forgiven
                BY <1>2, <1>4, <3>1
            <4>3. forgiven \subseteq forgiven'
                BY <1>4
            <4> QED
                BY <4>1, <4>2, <4>3 DEF MayForgive
        <3>3. CASE d = day
            BY <1>4, <3>2, <3>3, GuardIsTheRule DEF ForgiveMiss
        <3>4. CASE d < day
            BY <1>4, <3>1, <3>2, <3>4 DEF ReplayInv, ForgivesByTheRule
        <3> QED
            BY <1>2, <3>1, <3>3, <3>4
    <2>2. lastGrace' \in forgiven' /\ \A g \in forgiven' : g <= lastGrace'
        BY <1>2, <1>4
    <2> QED
        BY <1>4, <2>1, <2>2 DEF ForgivesByTheRule
<1>8. RecordCoversCurrent'
    BY <1>4 DEF ReplayInv, RecordCoversCurrent
<1> QED
    BY <1>1, <1>6, <1>7, <1>8 DEF ReplayInv

LEMMA WriteRowKeeps ==
    ASSUME ReplayInv, WriteRow
    PROVE  ReplayInv'
<1>1. TypeOK' /\ TypeOK
    BY NextType DEF Next, ReplayInv
<1>2. hist.today < day
    BY <1>1, ReplayAssumption, SpanType DEF WriteRow, TypeOK
<1>3. LoopStands'
    BY <1>2 DEF ReplayInv, LoopStands, WriteRow
<1>4. ForgivesByTheRule' /\ RecordCoversCurrent'
    BY DEF ReplayInv, ForgivesByTheRule, RecordCoversCurrent, WriteRow
<1> QED
    BY <1>1, <1>3, <1>4 DEF ReplayInv

LEMMA ReplayInductive == ReplayInv /\ [Next]_vars => ReplayInv'
<1> SUFFICES ASSUME ReplayInv, [Next]_vars PROVE ReplayInv'
    OBVIOUS
<1>1. CASE Start
    BY <1>1, StartKeeps
<1>2. CASE CountPass
    BY <1>2, CountPassKeeps
<1>3. CASE SkipExcused
    BY <1>3, SkipExcusedKeeps
<1>4. CASE ForgiveMiss
    BY <1>4, ForgiveMissKeeps
<1>5. CASE BreakRun
    BY <1>5, BreakRunKeeps
<1>6. CASE WriteRow
    BY <1>6, WriteRowKeeps
<1>7. CASE UNCHANGED vars
    BY <1>7 DEF vars, ReplayInv, TypeOK, LoopStands, ForgivesByTheRule, RecordCoversCurrent
<1> QED
    BY <1>1, <1>2, <1>3, <1>4, <1>5, <1>6, <1>7 DEF Next

LEMMA ReplayInvariant == Spec => []ReplayInv
<1>1. Init => ReplayInv
    BY InitType DEF Init, ReplayInv, LoopStands, ForgivesByTheRule, RecordCoversCurrent
<1>2. ReplayInv /\ [Next]_vars => ReplayInv'
    BY ReplayInductive
<1> QED
    BY <1>1, <1>2, PTL DEF Spec

-----------------------------------------------------------------------------
(* The count the loop carries is the unbroken run behind the day it looks  *)
(* at, for every history and both constants of the rule.                   *)
THEOREM ReplayCountsTheRun == Spec => []CountsTheRun
<1>1. ReplayInv => CountsTheRun
    BY DEF ReplayInv, LoopStands, CountsTheRun
<1> QED
    BY <1>1, ReplayInvariant, PTL

(* Remembering only the last forgiven day is enough to forgive by the rule.*)
THEOREM ReplayForgivesByTheRule == Spec => []ForgivesByTheRule
<1>1. ReplayInv => ForgivesByTheRule
    BY DEF ReplayInv
<1> QED
    BY <1>1, ReplayInvariant, PTL

(* The record covers the count it is shown beside, and never drops.        *)
THEOREM ReplayRecordCovers == Spec => []RecordCoversCurrent
<1>1. ReplayInv => RecordCoversCurrent
    BY DEF ReplayInv
<1> QED
    BY <1>1, ReplayInvariant, PTL

(* When the loop is over the verdicts cover every miss there is.           *)
LEMMA DoneIsLawful ==
    ASSUME ReplayInv, pc = "done"
    PROVE  LawfulResult
<1>1. hist \in History(Days)
    BY ReplayAssumption DEF ReplayInv, TypeOK
<1>2. /\ FirstDay(hist) \in Nat /\ hist.today \in Nat /\ day \in Int
      /\ hist.today < day
      /\ day <= hist.today + 1 \/ hist.today < FirstDay(hist)
    BY <1>1, SpanType DEF ReplayInv, TypeOK, LoopStands
<1>3. \A d \in MissedDays(hist) : d < day
    BY <1>1, <1>2, SpanType DEF Span
<1>4. LawfulGrace(hist, forgiven)
    BY <1>3 DEF ReplayInv, ForgivesByTheRule, LoopStands, LawfulGrace
<1>5. RunBefore(hist, forgiven, day) = RunBefore(hist, forgiven, hist.today + 1)
    <2>1. CASE day = hist.today + 1
        BY <2>1
    <2>2. CASE hist.today < FirstDay(hist)
        BY <1>2, <2>2 DEF RunBefore, Span
    <2> QED
        BY <1>2, <2>1, <2>2
<1>6. /\ row.current = Cardinality(RunBefore(hist, forgiven, day))
      /\ row.lastGrace = lastGrace
    BY DEF ReplayInv, LoopStands
<1> QED
    BY <1>4, <1>5, <1>6 DEF LawfulResult

(* The row written obeys the declarative rule over the whole history.      *)
THEOREM ReplayIsLawful == Spec => []LawfulResult
<1>1. ReplayInv => LawfulResult
    BY DoneIsLawful DEF LawfulResult
<1> QED
    BY <1>1, ReplayInvariant, PTL

-----------------------------------------------------------------------------
(* What the record stands for: the longest of the runs there have been,    *)
(* with the days forgiven so far, and of the record the row held before.   *)
RunOf(h, G, d) == Cardinality(RunBefore(h, G, d + 1))

RecordInv ==
    pc \in {"loop", "done"} =>
        /\ \A d \in Span(hist) : d < day => RunOf(hist, forgiven, d) <= record
        /\ record = before \/ \E d \in Span(hist) : d < day /\ record = RunOf(hist, forgiven, d)

(* One more day: the runs up to it stand, and the new one is the count.    *)
LEMMA IterationKeepsRecord ==
    ASSUME ReplayInv, ReplayInv', RecordInv, InLoop, hist' = hist, pc' = pc,
           day' = day + 1, before' = before,
           forgiven' = forgiven \/ forgiven' = forgiven \cup {day},
           record' = record \/ (record' >= record /\ record' = current' /\ day \in Span(hist))
    PROVE  RecordInv'
<1>1. /\ hist \in History(Days) /\ day \in Nat /\ Span(hist) \subseteq Nat
      /\ pc = "loop" /\ record \in Nat /\ record' \in Nat /\ current' \in Nat
    BY ReplayAssumption, SpanType DEF ReplayInv, TypeOK, LoopStands, InLoop
<1>2. \A d \in Span(hist) : d < day => RunOf(hist, forgiven', d) = RunOf(hist, forgiven, d)
    <2> TAKE d \in Span(hist)
    <2> HAVE d < day
    <2>1. d + 1 \in Nat /\ d + 1 <= day
        BY <1>1
    <2>2. RunBefore(hist, forgiven', d + 1) = RunBefore(hist, forgiven, d + 1)
        BY <1>1, <2>1, EarlierRuns
    <2> QED
        BY <2>2 DEF RunOf
<1>3. RunOf(hist, forgiven', day) = current' /\ current' <= record'
    BY <1>1 DEF ReplayInv, LoopStands, RecordCoversCurrent, RunOf
<1>4. \A d \in Span(hist) : d < day + 1 <=> (d < day \/ d = day)
    BY <1>1
<1>5. \A d \in Span(hist) : d < day + 1 => RunOf(hist, forgiven', d) <= record'
    <2> TAKE d \in Span(hist)
    <2> HAVE d < day + 1
    <2>1. CASE d = day
        BY <1>3, <2>1
    <2>2. CASE d < day
        <3>1. RunOf(hist, forgiven, d) <= record /\ RunOf(hist, forgiven', d) = RunOf(hist, forgiven, d)
            BY <1>1, <1>2, <2>2 DEF RecordInv
        <3>2. RunOf(hist, forgiven, d) \in Nat
            BY <1>1, RunType DEF RunOf
        <3> QED
            BY <1>1, <3>1, <3>2
    <2> QED
        BY <1>4, <2>1, <2>2
<1>6. record' = before' \/ \E d \in Span(hist) : d < day + 1 /\ record' = RunOf(hist, forgiven', d)
    <2>1. CASE record' = record
        BY <1>1, <1>2, <1>4, <2>1 DEF RecordInv
    <2>2. CASE record' = current' /\ day \in Span(hist)
        <3>1. day < day + 1 /\ record' = RunOf(hist, forgiven', day)
            BY <1>1, <1>3, <2>2
        <3> QED
            BY <2>2, <3>1
    <2> QED
        BY <2>1, <2>2
<1> QED
    BY <1>1, <1>5, <1>6 DEF RecordInv

LEMMA RecordInductive == ReplayInv /\ RecordInv /\ [Next]_vars => RecordInv'
<1> SUFFICES ASSUME ReplayInv, RecordInv, [Next]_vars PROVE RecordInv'
    OBVIOUS
<1>1. ReplayInv'
    BY ReplayInductive
<1>2. hist \in History(Days) /\ current \in Nat /\ record \in Nat
    BY ReplayAssumption DEF ReplayInv, TypeOK
<1>3. CASE Start
    <2>1. \A d \in Span(hist) : ~(d < FirstDay(hist))
        BY <1>2, SpanType DEF Span
    <2> QED
        BY <1>3, <2>1 DEF Start, RecordInv
<1>4. CASE CountPass
    <2>1. /\ InLoop /\ hist' = hist /\ pc' = pc /\ day' = day + 1 /\ before' = before
          /\ forgiven' = forgiven
          /\ record' = record \/ (record' >= record /\ record' = current')
        BY <1>2, <1>4 DEF CountPass
    <2>2. day \in Span(hist)
        BY <1>2, <2>1, SpanType DEF ReplayInv, TypeOK, LoopStands, InLoop, Span
    <2> QED
        BY <1>1, <2>1, <2>2, IterationKeepsRecord
<1>5. CASE SkipExcused
    BY <1>1, <1>5, IterationKeepsRecord DEF SkipExcused
<1>6. CASE ForgiveMiss
    BY <1>1, <1>6, IterationKeepsRecord DEF ForgiveMiss
<1>7. CASE BreakRun
    BY <1>1, <1>7, IterationKeepsRecord DEF BreakRun
<1>8. CASE WriteRow
    BY <1>8 DEF WriteRow, RecordInv, RunOf
<1>9. CASE UNCHANGED vars
    BY <1>9 DEF vars, RecordInv, RunOf
<1> QED
    BY <1>3, <1>4, <1>5, <1>6, <1>7, <1>8, <1>9 DEF Next

LEMMA RecordInvariant == Spec => [](ReplayInv /\ RecordInv)
<1>1. Init => RecordInv
    BY DEF Init, RecordInv
<1> QED
    BY <1>1, RecordInductive, ReplayInvariant, PTL DEF Spec

-----------------------------------------------------------------------------
(* Two lawful sets agree: before the first miss on which they differ they  *)
(* agree, so the run before it is the same, and so is the verdict.         *)
LEMMA LawIsUnique ==
    ASSUME NEW h \in History(Days), NEW G, LawfulGrace(h, G), NEW H, LawfulGrace(h, H)
    PROVE  G = H
<1> DEFINE D == {d \in MissedDays(h) : ~(d \in G <=> d \in H)}
<1> SUFFICES ASSUME D # {} PROVE FALSE
    BY DEF LawfulGrace
<1>1. D \in SUBSET Nat /\ Span(h) \subseteq Nat /\ MissedDays(h) \subseteq Nat
    BY SpanType
<1>2. PICK m \in D : \A d \in D : m <= d
    <2> HIDE DEF D
    <2> QED
        BY <1>1, LeastNumber
<1>3. \A d \in MissedDays(h) : d < m => (d \in G <=> d \in H)
    BY <1>1, <1>2
<1>4. RunBefore(h, G, m) = RunBefore(h, H, m)
    BY <1>1, <1>3 DEF RunBefore
<1>5. MayForgive(h, G, m) <=> MayForgive(h, H, m)
    <2>1. \A g : g < m => (g \in G <=> g \in H)
        BY <1>3 DEF LawfulGrace
    <2> QED
        BY <1>4, <2>1 DEF MayForgive
<1> QED
    BY <1>2, <1>5 DEF LawfulGrace

(* Of numbers, the one that bounds the others is the maximum.              *)
LEMMA MaxIs ==
    ASSUME NEW S, S \subseteq Int, NEW m \in S, \A x \in S : x <= m
    PROVE  Max(S) = m
<1>1. \A y \in S : m >= y
    OBVIOUS
<1>2. Max(S) \in S /\ \A y \in S : Max(S) >= y
    BY <1>1 DEF Max
<1>3. m \in Int /\ Max(S) \in Int /\ Max(S) >= m /\ Max(S) <= m
    BY <1>2
<1> QED
    BY <1>3

(* The rule leaves no choice, for every history: one set of misses is      *)
(* lawful, and the loop (recompute.py 58-84) forgave it.                   *)
THEOREM ReplayGraceIsUnique == Spec => []OneLawfulGrace
<1>1. ReplayInv => OneLawfulGrace
    <2> SUFFICES ASSUME ReplayInv, pc = "done", NEW G \in SUBSET MissedDays(hist)
                 PROVE  LawfulGrace(hist, G) <=> G = forgiven
        BY DEF OneLawfulGrace
    <2>1. LawfulGrace(hist, forgiven) /\ hist \in History(Days)
        BY DoneIsLawful, ReplayAssumption DEF ReplayInv, TypeOK, LawfulResult
    <2> QED
        BY <2>1, LawIsUnique
<1> QED
    BY <1>1, ReplayInvariant, PTL

(* The row the code writes is the promised one, column by column, for      *)
(* every history, every row it may find and every pair of constants.       *)
THEOREM ReplayWritesThePromise == Spec => []WritesThePromise
<1>1. ReplayInv /\ RecordInv => WritesThePromise
    <2> SUFFICES ASSUME ReplayInv, RecordInv, pc = "done"
                 PROVE  row = PromisedSummary(hist, before)
        BY DEF WritesThePromise
    <2>1. /\ hist \in History(Days) /\ record \in Nat /\ before \in Nat /\ day \in Int
          /\ hist.today \in Nat /\ FirstDay(hist) \in Nat
        BY ReplayAssumption, SpanType DEF ReplayInv, TypeOK
    <2>2. /\ LawfulGrace(hist, forgiven)
          /\ row.current = Cardinality(RunBefore(hist, forgiven, hist.today + 1))
        BY DoneIsLawful DEF LawfulResult
    <2>3. /\ row = [current |-> current, record |-> record, lastGrace |-> lastGrace]
          /\ hist.today < day
        BY DEF ReplayInv, LoopStands
    <2> DEFINE runs == {Cardinality(RunBefore(hist, forgiven, d + 1)) : d \in Span(hist)}
    <2>4. (CHOOSE G \in SUBSET MissedDays(hist) : LawfulGrace(hist, G)) = forgiven
        <3>1. forgiven \in SUBSET MissedDays(hist)
            BY <2>2 DEF LawfulGrace
        <3> QED
            BY <2>1, <2>2, <3>1, LawIsUnique
    <2>5. Max(runs \cup {before}) = record
        <3>1. \A d \in Span(hist) : d \in Nat /\ d < day
            BY <2>1, <2>3, SpanType DEF Span
        <3>2. \A d \in Span(hist) : RunOf(hist, forgiven, d) <= record /\ RunOf(hist, forgiven, d) \in Nat
            BY <2>1, <3>1, RunType DEF RecordInv, RunOf
        <3>3. runs = {RunOf(hist, forgiven, d) : d \in Span(hist)}
            BY DEF RunOf
        <3> HIDE DEF runs
        <3>4. runs \cup {before} \subseteq Int
            BY <2>1, <3>2, <3>3
        <3>5. record \in runs \cup {before}
            BY <3>3 DEF RecordInv
        <3>6. \A x \in runs \cup {before} : x <= record
            BY <3>2, <3>3 DEF ReplayInv, RecordCoversCurrent
        <3> QED
            BY <3>4, <3>5, <3>6, MaxIs
    <2>6. lastGrace = IF forgiven = {} THEN NoRow ELSE Max(forgiven)
        <3>1. CASE forgiven = {}
            BY <3>1 DEF ReplayInv, ForgivesByTheRule
        <3>2. CASE forgiven # {}
            <4>1. lastGrace \in forgiven /\ \A g \in forgiven : g <= lastGrace
                BY <3>2 DEF ReplayInv, ForgivesByTheRule
            <4>2. forgiven \subseteq Int
                BY ForgivenType
            <4> QED
                BY <3>2, <4>1, <4>2, MaxIs
        <3> QED
            BY <3>1, <3>2
    <2>7. PromisedSummary(hist, before) = SummaryWith(hist, forgiven, before)
        BY <2>4 DEF PromisedSummary
    <2>8. row.current = current
        BY <2>3
    <2> QED
        BY <2>2, <2>3, <2>5, <2>6, <2>7, <2>8 DEF SummaryWith
<1> QED
    BY <1>1, RecordInvariant, PTL

-----------------------------------------------------------------------------
(* What a kinder history does to the count.  The rule gives every history  *)
(* an answer: the lawful set is built one day at a time.                   *)
LawfulUpTo(h, G, n) ==
    /\ G \subseteq MissedDays(h)
    /\ \A g \in G : g < n
    /\ \A d \in MissedDays(h) : d < n => (d \in G <=> MayForgive(h, G, d))

(* Forgiving a day changes no verdict on it or on an earlier one.          *)
LEMMA EarlierVerdicts ==
    ASSUME NEW h \in History(Days), NEW G, NEW k \in Nat, NEW d \in Nat, d <= k
    PROVE  MayForgive(h, G \cup {k}, d) <=> MayForgive(h, G, d)
<1>1. RunBefore(h, G \cup {k}, d) = RunBefore(h, G, d)
    BY EarlierRuns
<1>2. ~(k < d)
    OBVIOUS
<1> QED
    BY <1>1, <1>2 DEF MayForgive

LEMMA LawGrows ==
    ASSUME NEW h \in History(Days), NEW k \in Nat, NEW G, LawfulUpTo(h, G, k)
    PROVE  \E H : LawfulUpTo(h, H, k + 1)
<1>1. MissedDays(h) \subseteq Nat /\ G \subseteq Nat
    BY SpanType DEF LawfulUpTo
<1>2. \A d \in Nat : d < k + 1 <=> d < k \/ d = k
    OBVIOUS
<1>3. CASE k \in MissedDays(h) /\ MayForgive(h, G, k)
    <2> DEFINE H == G \cup {k}
    <2>1. H \subseteq MissedDays(h) /\ \A g \in H : g < k + 1
        BY <1>1, <1>3 DEF LawfulUpTo
    <2>2. \A d \in MissedDays(h) : d <= k => (MayForgive(h, H, d) <=> MayForgive(h, G, d))
        BY <1>1, EarlierVerdicts
    <2>3. ASSUME NEW d \in MissedDays(h), d < k + 1
          PROVE  d \in H <=> MayForgive(h, H, d)
        <3>1. CASE d = k
            BY <1>1, <1>3, <2>2, <3>1
        <3>2. CASE d < k
            <4>1. d <= k /\ d # k
                BY <1>1, <3>2
            <4> QED
                BY <2>2, <3>2, <4>1 DEF LawfulUpTo
        <3> QED
            BY <1>1, <1>2, <2>3, <3>1, <3>2
    <2> HIDE DEF H
    <2> QED
        BY <2>1, <2>3 DEF LawfulUpTo
<1>4. CASE ~(k \in MissedDays(h) /\ MayForgive(h, G, k))
    <2>1. k \notin G
        BY <1>1 DEF LawfulUpTo
    <2>2. \A g \in G : g < k + 1
        BY <1>1 DEF LawfulUpTo
    <2> QED
        BY <1>1, <1>2, <1>4, <2>1, <2>2 DEF LawfulUpTo
<1> QED
    BY <1>3, <1>4

LEMMA LawExists ==
    ASSUME NEW h \in History(Days)
    PROVE  \E G \in SUBSET MissedDays(h) : LawfulGrace(h, G)
<1> DEFINE Stuck == {n \in Nat : ~\E G : LawfulUpTo(h, G, n)}
<1>1. /\ h.today \in Nat /\ FirstDay(h) \in Nat
      /\ MissedDays(h) \subseteq Span(h) /\ Span(h) \subseteq Nat
    BY SpanType
<1>2. Stuck = {}
    <2> SUFFICES ASSUME Stuck # {} PROVE FALSE
        OBVIOUS
    <2>1. PICK n \in Stuck : \A e \in Stuck : n <= e
        <3>1. Stuck \in SUBSET Nat
            OBVIOUS
        <3> HIDE DEF Stuck
        <3> QED
            BY <3>1, LeastNumber
    <2>2. n # 0
        <3>1. LawfulUpTo(h, {}, 0)
            BY <1>1 DEF LawfulUpTo
        <3> QED
            BY <3>1
    <2>3. n - 1 \in Nat /\ ~(n <= n - 1) /\ (n - 1) + 1 = n
        BY <2>2
    <2>4. \E G : LawfulUpTo(h, G, n - 1)
        BY <2>1, <2>3
    <2>5. \E G : LawfulUpTo(h, G, n)
        BY <2>3, <2>4, LawGrows
    <2> QED
        BY <2>1, <2>5
<1>3. PICK G : LawfulUpTo(h, G, h.today + 1)
    BY <1>1, <1>2
<1>4. \A d \in MissedDays(h) : d < h.today + 1
    BY <1>1 DEF Span
<1> QED
    BY <1>3, <1>4 DEF LawfulUpTo, LawfulGrace

(* The promised count is the run that the one lawful set leaves standing.  *)
LEMMA PromisedCount ==
    ASSUME NEW h \in History(Days), NEW b
    PROVE  \E G : /\ LawfulGrace(h, G)
                  /\ PromisedSummary(h, b).current
                         = Cardinality(RunBefore(h, G, h.today + 1))
<1> DEFINE L == CHOOSE G \in SUBSET MissedDays(h) : LawfulGrace(h, G)
<1>1. LawfulGrace(h, L)
    BY LawExists
<1>2. PromisedSummary(h, b) = SummaryWith(h, L, b)
    BY DEF PromisedSummary
<1> HIDE DEF L
<1>3. PromisedSummary(h, b).current = Cardinality(RunBefore(h, L, h.today + 1))
    BY <1>2 DEF SummaryWith
<1> QED
    BY <1>1, <1>3

(* h2 is kinder than h: it has the passes of h and maybe more, every miss  *)
(* it has among the days of h is a miss of h too, and grace is no less on. *)
Kinder(h, h2) ==
    /\ h2.today = h.today
    /\ \A d : Passed(h, d) => Passed(h2, d)
    /\ Span(h) \subseteq Span(h2)
    /\ Span(h) \cap MissedDays(h2) \subseteq MissedDays(h)
    /\ h.grace => h2.grace

(* As long as h2 has forgiven what h has, its run holds the run of h.      *)
LEMMA KinderRun ==
    ASSUME NEW h \in History(Days), NEW h2 \in History(Days), Kinder(h, h2),
           NEW G, NEW H, NEW d \in Nat,
           \A f \in G \cap MissedDays(h2) : f < d => f \in H
    PROVE  RunBefore(h, G, d) \subseteq RunBefore(h2, H, d)
<1>1. /\ h.today \in Nat /\ FirstDay(h) \in Nat /\ FirstDay(h2) \in Nat
      /\ Span(h) \subseteq Nat /\ Span(h2) \subseteq Nat /\ MissedDays(h2) \subseteq Span(h2)
      /\ h2.today = h.today
    BY SpanType DEF Kinder
<1>2. ASSUME NEW p \in RunBefore(h, G, d)
      PROVE  p \in RunBefore(h2, H, d)
    <2>1. p \in Span(h) /\ p \in Span(h2) /\ p < d /\ Passed(h2, p)
        BY DEF RunBefore, Kinder
    <2>2. ASSUME NEW b \in MissedDays(h2) \ H, p < b, b < d PROVE FALSE
        <3>1. b \in Span(h)
            BY <1>1, <2>1, <2>2 DEF Span
        <3>2. b \in MissedDays(h) \ G
            BY <2>2, <3>1 DEF Kinder
        <3> QED
            BY <2>2, <3>2 DEF RunBefore
    <2> QED
        BY <2>1, <2>2 DEF RunBefore
<1> QED
    BY <1>2

(* A run that a day g cannot be part of and that lies wholly between g and *)
(* f is shorter than their distance.                                       *)
LEMMA RunFits ==
    ASSUME NEW h \in History(Days), NEW G, NEW g \in Nat, NEW f \in Nat, g < f,
           \A p \in RunBefore(h, G, f) : g < p
    PROVE  Cardinality(RunBefore(h, G, f)) + 1 <= f - g
<1>1. /\ IsFiniteSet(g + 1 .. f - 1)
      /\ Cardinality(g + 1 .. f - 1) = f - g - 1
    BY FS_Interval
<1>2. RunBefore(h, G, f) \subseteq g + 1 .. f - 1
    BY SpanType DEF RunBefore
<1>3. Cardinality(RunBefore(h, G, f)) <= Cardinality(g + 1 .. f - 1)
    BY <1>1, <1>2, FS_Subset
<1> QED
    BY <1>1, <1>3, RunType

(* A kinder history forgives every miss of h it still has.  At the first   *)
(* one it would not, its run is no shorter, so only a day g forgiven too   *)
(* recently stands in the way.  If h forgave g as well, g is a cooldown    *)
(* away by the rule of h; if not, the run of h, which reaches the minimum, *)
(* fits between g and that miss, and g is a cooldown away because the      *)
(* cooldown is at most one day longer than the minimum.                    *)
LEMMA KinderForgives ==
    ASSUME NEW h \in History(Days), NEW h2 \in History(Days), Kinder(h, h2),
           NEW G, LawfulGrace(h, G), NEW H, LawfulGrace(h2, H),
           GraceCooldownDays <= GraceMinStreak + 1
    PROVE  G \cap MissedDays(h2) \subseteq H
<1> DEFINE D == {f \in G \cap MissedDays(h2) : f \notin H}
<1> SUFFICES ASSUME D # {} PROVE FALSE
    OBVIOUS
<1>1. /\ h.today \in Nat /\ FirstDay(h) \in Nat /\ FirstDay(h2) \in Nat
      /\ Span(h) \subseteq Nat /\ Span(h2) \subseteq Nat
      /\ MissedDays(h) \subseteq Span(h) /\ MissedDays(h2) \subseteq Span(h2)
      /\ h2.today = h.today
      /\ GraceMinStreak \in Nat /\ GraceCooldownDays \in Nat
    BY SpanType, RulesAssumption DEF Kinder
<1>2. D \in SUBSET Nat
    BY <1>1
<1>3. PICK f \in D : \A e \in D : f <= e
    <2> HIDE DEF D
    <2> QED
        BY <1>2, LeastNumber
<1>4. /\ f \in Nat /\ f \in G /\ f \in MissedDays(h) /\ f \in MissedDays(h2) /\ f \notin H
      /\ f <= h.today
    BY <1>1, <1>2 DEF LawfulGrace, Span
<1>5. MayForgive(h, G, f)
    BY <1>4 DEF LawfulGrace
<1>6. \A e \in G \cap MissedDays(h2) : e < f => e \in H
    BY <1>1, <1>2, <1>3, <1>4
<1> HIDE DEF D
<1>7. RunBefore(h, G, f) \subseteq RunBefore(h2, H, f)
    BY <1>4, <1>6, KinderRun
<1>8. Cardinality(RunBefore(h2, H, f)) >= GraceMinStreak
    <2>1. Cardinality(RunBefore(h, G, f)) <= Cardinality(RunBefore(h2, H, f))
        BY <1>7, RunType, FS_Subset
    <2>2. Cardinality(RunBefore(h, G, f)) >= GraceMinStreak
        BY <1>5 DEF MayForgive
    <2> QED
        BY <1>1, <2>1, <2>2, RunType
<1>9. ASSUME NEW g \in H, g < f
      PROVE  f - g >= GraceCooldownDays
    <2>1. g \in MissedDays(h2) /\ g \in Nat
        BY <1>1 DEF LawfulGrace
    <2>2. CASE g \in G
        BY <1>5, <1>9, <2>2 DEF MayForgive
    <2>3. CASE g \notin G
        <3>1. ASSUME NEW p \in RunBefore(h, G, f) PROVE g < p
            <4>1. p \in Span(h) /\ p < f /\ Passed(h, p) /\ p \in Nat
                BY <1>1 DEF RunBefore
            <4>2. p # g
                BY <2>1, <4>1 DEF Kinder, MissedDays
            <4>3. ~(p < g)
                <5>1. p < g => g \in Span(h)
                    BY <1>1, <1>4, <1>9, <2>1, <4>1 DEF Span
                <5>2. g \in Span(h) => g \in MissedDays(h) \ G
                    BY <2>1, <2>3 DEF Kinder
                <5> QED
                    BY <1>9, <5>1, <5>2 DEF RunBefore
            <4> QED
                BY <2>1, <4>1, <4>2, <4>3
        <3>2. Cardinality(RunBefore(h, G, f)) + 1 <= f - g
            BY <1>4, <1>9, <2>1, <3>1, RunFits
        <3>3. Cardinality(RunBefore(h, G, f)) >= GraceMinStreak
            BY <1>5 DEF MayForgive
        <3>4. Cardinality(RunBefore(h, G, f)) \in Nat
            BY RunType
        <3> QED
            BY <1>1, <1>4, <2>1, <3>2, <3>3, <3>4
    <2> QED
        BY <2>2, <2>3
<1>10. MayForgive(h2, H, f)
    BY <1>5, <1>8, <1>9 DEF MayForgive, Kinder
<1> QED
    BY <1>4, <1>10 DEF LawfulGrace

(* So its count is at least the count of h.                                *)
LEMMA KinderCounts ==
    ASSUME NEW h \in History(Days), NEW h2 \in History(Days), Kinder(h, h2),
           NEW G, LawfulGrace(h, G), NEW b, GraceCooldownDays <= GraceMinStreak + 1
    PROVE  PromisedSummary(h2, b).current >= Cardinality(RunBefore(h, G, h.today + 1))
<1>1. PICK H : /\ LawfulGrace(h2, H)
               /\ PromisedSummary(h2, b).current
                      = Cardinality(RunBefore(h2, H, h2.today + 1))
    BY PromisedCount
<1>2. G \cap MissedDays(h2) \subseteq H
    BY <1>1, KinderForgives
<1>3. h2.today = h.today /\ h.today + 1 \in Nat
    BY SpanType DEF Kinder
<1>4. RunBefore(h, G, h.today + 1) \subseteq RunBefore(h2, H, h.today + 1)
    BY <1>2, <1>3, KinderRun
<1>5. Cardinality(RunBefore(h, G, h.today + 1)) <= Cardinality(RunBefore(h2, H, h.today + 1))
    BY <1>4, RunType, FS_Subset
<1>6. /\ Cardinality(RunBefore(h, G, h.today + 1)) \in Nat
      /\ Cardinality(RunBefore(h2, H, h.today + 1)) \in Nat
    BY RunType
<1> QED
    BY <1>1, <1>3, <1>5, <1>6

(* The three ways the user makes a history kinder.                         *)
LEMMA FirstDayIsFirst ==
    ASSUME NEW h \in History(Days), DOMAIN h.logged # {}
    PROVE  FirstDay(h) \in DOMAIN h.logged /\ \A e \in DOMAIN h.logged : FirstDay(h) <= e
<1>1. DOMAIN h.logged \subseteq Nat
    BY ReplayAssumption DEF History
<1>2. \E d \in DOMAIN h.logged : \A e \in DOMAIN h.logged : d <= e
    BY <1>1, LeastNumber
<1> QED
    BY <1>2 DEF FirstDay

LEMMA CorrectionIsKinder ==
    ASSUME NEW h \in History(Days), NEW d \in Days, d <= h.today, ~Passed(h, d),
           NEW l, l = [e \in DOMAIN h.logged \cup {d} |-> IF e = d THEN TRUE ELSE h.logged[e]],
           NEW h2, h2 = [h EXCEPT !.logged = l]
    PROVE  h2 \in History(Days) /\ Kinder(h, h2)
<1>1. /\ DOMAIN h.logged \subseteq Days /\ Days \subseteq Nat /\ h.today \in Nat /\ d \in Nat
      /\ h.logged \in [DOMAIN h.logged -> BOOLEAN]
    BY ReplayAssumption DEF History
<1>2. /\ h2.logged = l /\ h2.bad = h.bad /\ h2.today = h.today /\ h2.grace = h.grace
      /\ DOMAIN l = DOMAIN h.logged \cup {d}
    BY DEF History
<1>3. l \in [DOMAIN h.logged \cup {d} -> BOOLEAN]
    BY <1>1
<1>4. h2 \in History(Days)
    <2>1. DOMAIN h.logged \cup {d} \in SUBSET Days
        BY <1>1
    <2>2. l \in UNION {[D -> BOOLEAN] : D \in SUBSET Days}
        BY <1>3, <2>1
    <2> QED
        BY <2>2 DEF History
<1>5. \A e : Passed(h, e) => Passed(h2, e)
    BY <1>2 DEF Passed
<1>6. /\ FirstDay(h2) <= FirstDay(h)
      /\ FirstDay(h2) \in Nat /\ FirstDay(h) \in Nat
    <2>1. FirstDay(h2) \in Nat /\ FirstDay(h) \in Nat
        BY <1>4, FirstDayType
    <2>2. \A e \in DOMAIN h.logged \cup {d} : FirstDay(h2) <= e
        BY <1>2, <1>4, FirstDayIsFirst
    <2>3. CASE DOMAIN h.logged = {}
        <3>1. FirstDay(h) = h.today
            BY <2>3 DEF FirstDay
        <3>2. FirstDay(h2) <= d
            BY <2>2
        <3>3. \A a, b, c \in Nat : a <= b /\ b <= c => a <= c
            OBVIOUS
        <3> QED
            BY <1>1, <2>1, <3>1, <3>2, <3>3, Zenon
    <2>4. CASE DOMAIN h.logged # {}
        BY <2>1, <2>2, <2>4, FirstDayIsFirst
    <2> QED
        BY <2>1, <2>3, <2>4
<1>7. Span(h) \subseteq Span(h2)
    <2>1. \A a, b, c \in Nat : a <= b => (b .. c) \subseteq (a .. c)
        OBVIOUS
    <2>2. h.today \in Nat /\ h2.today = h.today
        BY <1>1, <1>2
    <2> QED
        BY <1>6, <2>1, <2>2, Zenon DEF Span
<1>8. \A e : Excused(h, e) /\ e # d => Excused(h2, e)
    BY <1>2 DEF Excused
<1>9. ASSUME NEW e \in MissedDays(h2), e \in Span(h)
      PROVE  e \in MissedDays(h)
    <2>1. e # d
        BY <1>2, <1>9 DEF MissedDays, Passed
    <2> QED
        BY <1>5, <1>8, <1>9, <2>1 DEF MissedDays
<1> QED
    BY <1>2, <1>4, <1>5, <1>7, <1>9 DEF Kinder

LEMMA BadDayIsKinder ==
    ASSUME NEW h \in History(Days), NEW d \in Days,
           NEW h2, h2 = [h EXCEPT !.bad = @ \cup {d}]
    PROVE  h2 \in History(Days) /\ Kinder(h, h2)
<1>1. /\ h2.logged = h.logged /\ h2.bad = h.bad \cup {d}
      /\ h2.today = h.today /\ h2.grace = h.grace
    BY DEF History
<1>2. h2 \in History(Days)
    BY DEF History
<1>3. Span(h2) = Span(h)
    BY <1>1 DEF Span, FirstDay
<1>4. \A e : (Passed(h2, e) <=> Passed(h, e)) /\ (Excused(h, e) => Excused(h2, e))
    BY <1>1 DEF Passed, Excused
<1> QED
    BY <1>1, <1>2, <1>3, <1>4 DEF Kinder, MissedDays

LEMMA GraceIsKinder ==
    ASSUME NEW h \in History(Days), NEW h2, h2 = [h EXCEPT !.grace = TRUE]
    PROVE  h2 \in History(Days) /\ Kinder(h, h2)
<1>1. /\ h2.logged = h.logged /\ h2.bad = h.bad
      /\ h2.today = h.today /\ h2.grace = TRUE
    BY DEF History
<1>2. h2 \in History(Days)
    BY DEF History
<1>3. Span(h2) = Span(h)
    BY <1>1 DEF Span, FirstDay
<1>4. \A e : (Passed(h2, e) <=> Passed(h, e)) /\ (Excused(h, e) <=> Excused(h2, e))
    BY <1>1 DEF Passed, Excused
<1> QED
    BY <1>1, <1>2, <1>3, <1>4 DEF Kinder, MissedDays

(* Correcting a forgotten day never costs a day, for every history and for *)
(* every minimum and cooldown that stand as the code's 7 and 7 do: a       *)
(* cooldown at most one day longer than the run it takes to earn grace.    *)
THEOREM ReplayCorrectionNeverCosts ==
    ASSUME GraceCooldownDays <= GraceMinStreak + 1
    PROVE  Spec => []CorrectionNeverCosts
<1>1. ReplayInv => CorrectionNeverCosts
    <2> SUFFICES ASSUME ReplayInv, pc = "done",
                        NEW d \in Days, d <= hist.today, ~Passed(hist, d),
                        NEW l, l = [e \in DOMAIN hist.logged \cup {d} |->
                                      IF e = d THEN TRUE ELSE hist.logged[e]]
                 PROVE  PromisedSummary([hist EXCEPT !.logged = l], before).current
                            >= row.current
        BY DEF CorrectionNeverCosts
    <2> DEFINE h2 == [hist EXCEPT !.logged = l]
    <2>1. hist \in History(Days)
        BY ReplayAssumption DEF ReplayInv, TypeOK
    <2>2. /\ LawfulGrace(hist, forgiven)
          /\ row.current = Cardinality(RunBefore(hist, forgiven, hist.today + 1))
        BY DoneIsLawful DEF LawfulResult
    <2>3. h2 \in History(Days) /\ Kinder(hist, h2)
        BY <2>1, CorrectionIsKinder
    <2> HIDE DEF h2
    <2>4. PromisedSummary(h2, before).current >= row.current
        BY <2>1, <2>2, <2>3, KinderCounts
    <2> QED
        BY <2>4 DEF h2
<1> QED
    BY <1>1, ReplayInvariant, PTL

(* Nor does calling a day a bad day, or switching grace on, under the same *)
(* relation of the two constants.                                          *)
THEOREM ReplayLeniencyNeverCosts ==
    ASSUME GraceCooldownDays <= GraceMinStreak + 1
    PROVE  Spec => []LeniencyNeverCosts
<1>1. ReplayInv => LeniencyNeverCosts
    <2> SUFFICES ASSUME ReplayInv, pc = "done" PROVE LeniencyNeverCosts
        BY DEF LeniencyNeverCosts
    <2>1. hist \in History(Days)
        BY ReplayAssumption DEF ReplayInv, TypeOK
    <2>2. /\ LawfulGrace(hist, forgiven)
          /\ row.current = Cardinality(RunBefore(hist, forgiven, hist.today + 1))
        BY DoneIsLawful DEF LawfulResult
    <2>3. ASSUME NEW h2 \in History(Days), Kinder(hist, h2)
          PROVE  PromisedSummary(h2, before).current >= row.current
        BY <2>1, <2>2, <2>3, KinderCounts
    <2>4. ASSUME NEW d \in Days
          PROVE  PromisedSummary([hist EXCEPT !.bad = @ \cup {d}], before).current
                     >= row.current
        BY <2>1, <2>3, BadDayIsKinder
    <2>5. PromisedSummary([hist EXCEPT !.grace = TRUE], before).current >= row.current
        BY <2>1, <2>3, GraceIsKinder
    <2> QED
        BY <2>4, <2>5 DEF LeniencyNeverCosts
<1> QED
    BY <1>1, ReplayInvariant, PTL

-----------------------------------------------------------------------------
(* What the journal's requests assume of a replay (SummariseAssumption of  *)
(* module JournalData) is true of the promised row.                        *)

LEMMA GreatestNumber ==
    ASSUME NEW n \in Nat, NEW D \in SUBSET (0 .. n), D # {}
    PROVE  \E d \in D : \A e \in D : e <= d
<1> DEFINE Mirror == {n - d : d \in D}
<1>1. Mirror \in SUBSET Nat /\ Mirror # {}
    <2>1. \A d \in D : n - d \in Nat /\ n - d \in Mirror
        OBVIOUS
    <2> QED
        BY <2>1
<1>2. PICK m \in Mirror : \A k \in Mirror : m <= k
    <2> HIDE DEF Mirror
    <2> QED
        BY <1>1, LeastNumber
<1>3. PICK d \in D : m = n - d
    OBVIOUS
<1>4. \A e \in D : e <= d
    <2> TAKE e \in D
    <2>1. m <= n - e
        BY <1>2
    <2>2. d \in 0 .. n /\ e \in 0 .. n
        BY Zenon
    <2> HIDE DEF Mirror
    <2> QED
        BY <1>3, <2>1, <2>2
<1> QED
    BY <1>4

LEMMA MaxBounded ==
    ASSUME NEW n \in Nat, NEW D \in SUBSET (0 .. n), D # {}
    PROVE  Max(D) \in D /\ \A e \in D : e <= Max(D)
<1>1. PICK d \in D : \A e \in D : e <= d
    BY GreatestNumber
<1>2. Max(D) = d
    <2>1. D \subseteq Int
        OBVIOUS
    <2> QED
        BY <1>1, <2>1, MaxIs
<1> QED
    BY <1>1, <1>2

(* Every run is a set of days, so no run is longer than there are days.    *)
LEMMA RunBounded ==
    ASSUME IsFiniteSet(Days), NEW h \in History(Days), NEW G, NEW d
    PROVE  Cardinality(RunBefore(h, G, d)) \in 0 .. Cardinality(Days)
<1>1. RunBefore(h, G, d) \subseteq Days
    BY DEF RunBefore, Passed, History
<1>2. Cardinality(RunBefore(h, G, d)) <= Cardinality(Days)
    BY <1>1, FS_Subset
<1> QED
    BY <1>2, RunType, FS_CardinalityType

(* For consecutive days the promised row has the type of a stored one, its *)
(* record covers the one given and the count, and only the record depends  *)
(* on the one given.                                                       *)
THEOREM PromiseSuitsTheJournal ==
    ASSUME IsFiniteSet(Days), \A a, b \in Days : a .. b \subseteq Days,
           NEW h \in History(Days), NEW r \in 0 .. Cardinality(Days)
    PROVE  /\ PromisedSummary(h, r) \in [ current   : 0 .. Cardinality(Days),
                                          record    : 0 .. Cardinality(Days),
                                          lastGrace : Days \cup {NoRow} ]
           /\ PromisedSummary(h, r).record >= r
           /\ PromisedSummary(h, r).record >= PromisedSummary(h, r).current
           /\ PromisedSummary(h, r).current = PromisedSummary(h, 0).current
           /\ PromisedSummary(h, r).lastGrace = PromisedSummary(h, 0).lastGrace
<1> DEFINE L == CHOOSE G \in SUBSET MissedDays(h) : LawfulGrace(h, G)
           N == Cardinality(Days)
           count == Cardinality(RunBefore(h, L, h.today + 1))
           runs == {Cardinality(RunBefore(h, L, d + 1)) : d \in Span(h)}
           last == IF L = {} THEN NoRow ELSE Max(L)
<1>1. L \in SUBSET MissedDays(h)
    BY LawExists
<1>2. /\ PromisedSummary(h, r) =
             [current |-> count, record |-> Max(runs \cup {r}), lastGrace |-> last]
      /\ PromisedSummary(h, 0) =
             [current |-> count, record |-> Max(runs \cup {0}), lastGrace |-> last]
    BY DEF PromisedSummary, SummaryWith
<1> HIDE DEF L
<1>3. N \in Nat /\ count \in 0 .. N /\ runs \subseteq 0 .. N
    BY RunBounded, FS_CardinalityType
<1>4. runs # {} => count \in runs
    <2>1. Span(h) # {} => h.today \in Span(h)
        BY SpanType DEF Span
    <2> QED
        BY <2>1
<1>5. runs = {} => count = 0
    <2>1. runs = {} => Span(h) = {}
        OBVIOUS
    <2>2. Span(h) = {} => RunBefore(h, L, h.today + 1) = {}
        BY DEF RunBefore
    <2> QED
        BY <2>1, <2>2, FS_EmptySet
<1>6. last \in Days \cup {NoRow}
    <2>1. CASE L = {}
        BY <2>1
    <2>2. CASE L # {}
        <3>1. FirstDay(h) \in Days /\ h.today \in Days /\ h.today \in Nat
            <4>1. h.today \in Days /\ DOMAIN h.logged \subseteq Days /\ h.today \in Nat
                BY SpanType DEF History
            <4>2. CASE DOMAIN h.logged = {}
                BY <4>1, <4>2, Zenon DEF FirstDay
            <4>3. CASE DOMAIN h.logged # {}
                <5>1. FirstDay(h) \in DOMAIN h.logged
                    BY <4>3, FirstDayIsFirst
                <5> QED
                    BY <4>1, <5>1, Zenon
            <4> QED
                BY <4>2, <4>3
        <3>2. Span(h) \subseteq Days /\ L \subseteq Span(h)
            BY <1>1, <3>1, SpanType DEF Span
        <3>3. L \in SUBSET (0 .. h.today)
            BY <3>1, <3>2, SpanType DEF Span
        <3>4. Max(L) \in L
            BY <2>2, <3>1, <3>3, MaxBounded
        <3> QED
            BY <2>2, <3>2, <3>4
    <2> QED
        BY <2>1, <2>2
<1> HIDE DEF N, count, runs, last
<1>7. /\ Max(runs \cup {r}) \in 0 .. N
      /\ Max(runs \cup {r}) >= r
      /\ Max(runs \cup {r}) >= count
    <2>1. runs \cup {r} \in SUBSET (0 .. N) /\ runs \cup {r} # {}
        BY <1>3 DEF N
    <2>2. Max(runs \cup {r}) \in runs \cup {r} /\ \A e \in runs \cup {r} : e <= Max(runs \cup {r})
        BY <1>3, <2>1, MaxBounded
    <2>3. Max(runs \cup {r}) \in 0 .. N
        BY <2>1, <2>2
    <2>4. r <= Max(runs \cup {r})
        BY <2>2
    <2>5. count <= Max(runs \cup {r})
        BY <1>3, <1>4, <1>5, <2>2, <2>3
    <2> QED
        BY <1>3, <2>1, <2>3, <2>4, <2>5
<1>8. /\ PromisedSummary(h, r).current = count
      /\ PromisedSummary(h, r).record = Max(runs \cup {r})
      /\ PromisedSummary(h, r).lastGrace = last
    BY <1>2
<1>9. /\ PromisedSummary(h, 0).current = count
      /\ PromisedSummary(h, 0).lastGrace = last
    BY <1>2
<1>10. PromisedSummary(h, r) \in [ current   : 0 .. N,
                                   record    : 0 .. N,
                                   lastGrace : Days \cup {NoRow} ]
    BY <1>2, <1>3, <1>6, <1>7
<1> QED
    BY <1>7, <1>8, <1>9, <1>10 DEF N

=============================================================================
