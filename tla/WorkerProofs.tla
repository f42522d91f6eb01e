---------------------------- MODULE WorkerProofs ----------------------------
(***************************************************************************)
(* For any number of pages, days and restarts: what the success gauge of   *)
(* the clean-up, a saved location and an error page can be trusted for.    *)
(***************************************************************************)
EXTENDS Worker, TLAPS

(* Nothing is cached, or being fetched, beyond the days warmed ahead.      *)
TimeInv ==
    /\ \A c \in Callers : call[c].day + call[c].left <= today + Lookahead
    /\ \A d \in 1 .. LastDay + Lookahead : cache[d] # NoRow => d <= today + Lookahead
    /\ changed <= today

(* A forecast of another place, cached or on its way, is for a day that    *)
(* was within reach when the location changed.                             *)
PlaceInv ==
    /\ \A d \in 1 .. LastDay + Lookahead :
          cache[d] \notin {NoRow, place} => d <= changed + Lookahead
    /\ \A c \in Callers :
          call[c].step \in {"fetch", "insert"} /\ call[c].place # place
            => call[c].day <= changed + Lookahead

(* Whoever fetches a day alone finds it still free, and an error page has  *)
(* one of the three reasons.                                               *)
RaceInv ==
    /\ \A c \in Callers : call[c].step \in {"fetch", "insert"} /\ ~call[c].raced =>
          /\ cache[call[c].day] = NoRow
          /\ \A e \in Callers \ {c} :
                call[e].step \in {"fetch", "insert"} => call[e].day # call[c].day
    /\ \A c \in Callers : call[c].step = "error" =>
          call[c].raced \/ call[c].day \in odd

(* What a clean-up under way knows: its cutoff is not in the future, and   *)
(* once its DELETE is committed nothing older is left.                     *)
CutInv ==
    /\ call[Cleanup].step \in {"cutoff", "gauge"} => call[Cleanup].day <= today
    /\ call[Cleanup].step = "gauge" =>
          \A d \in edits : d >= call[Cleanup].day - Retention

GaugeInv ==
    /\ cleaned # NoRow => cleaned <= today
    /\ CleanSinceSuccess

IInv == TypeOK /\ TimeInv /\ PlaceInv /\ RaceInv /\ CutInv /\ GaugeInv

Caller == Pages \cup {Refresh}

-----------------------------------------------------------------------------
USE DEF Days, Callers, Jobs, Refresh, Cleanup, Calls, Idle, Quiet, process, rows,
        stored, gauge

LEMMA Constants ==
    /\ LastDay \in Nat \ {0} /\ Lookahead \in Nat /\ Retention \in Nat \ {0}
    /\ MaxCalls \in Nat /\ MaxStarts \in Nat /\ MaxSaves \in Nat
    /\ NoRow \notin Places /\ NoRow \notin Days /\ Pages \cap Jobs = {}
    /\ FirstPlaces \subseteq Places \cup {NoRow}
    BY WorkerAssumption

(* The fields of a record of call, one at a time.                          *)
LEMMA Fields ==
    ASSUME TypeOK, NEW c \in Callers
    PROVE  /\ call[c] \in Calls
           /\ call[c].day \in 1 .. LastDay + Lookahead /\ call[c].left \in 0 .. Lookahead
           /\ call[c].day \in Int /\ call[c].left \in Int
           /\ call[c].place \in Places \cup {NoRow} /\ call[c].odd \in BOOLEAN
           /\ call[c].raced \in BOOLEAN
    <1>1. call[c] \in Calls
        BY DEF TypeOK
    <1> QED BY <1>1, Constants

LEMMA InitIInv == Init => IInv
    <1> SUFFICES ASSUME Init PROVE IInv
        OBVIOUS
    <1> USE Constants DEF Init
    <1>1. TypeOK
        BY DEF TypeOK
    <1>2. TimeInv /\ PlaceInv /\ RaceInv /\ CutInv /\ GaugeInv
        BY DEF TimeInv, PlaceInv, RaceInv, CutInv, GaugeInv, CleanSinceSuccess
    <1> QED BY <1>1, <1>2 DEF IInv

(* What one record of call, replaced, may disturb when nothing else moves  *)
(* but audit rows that go.                                                 *)
LEMMA OneCall ==
    ASSUME IInv, NEW c \in Callers, NEW r \in Calls, Become(c, r),
           r.day + r.left <= today + Lookahead,
           r.step \notin {"fetch", "insert"},
           r.step = "error" => r.raced \/ r.day \in odd,
           r.step \in {"cutoff", "gauge"} => r.day <= today,
           r.step = "gauge" => \A d \in edits' : d >= r.day - Retention,
           UNCHANGED <<place, cache, odd, today, changed>>, edits' \subseteq edits
    PROVE  /\ call' \in [Callers -> Calls]
           /\ TimeInv' /\ PlaceInv' /\ RaceInv' /\ CutInv'
    <1> USE DEF IInv, TypeOK, Become
    <1>1. call' \in [Callers -> Calls] /\ call'[c] = r /\ \A e \in Callers \ {c} : call'[e] = call[e]
        OBVIOUS
    <1>2. TimeInv'
        BY <1>1 DEF TimeInv
    <1>3. PlaceInv'
        BY <1>1 DEF PlaceInv
    <1>4. RaceInv'
        BY <1>1 DEF RaceInv
    <1>5. CutInv'
        <2>1. CASE c = Cleanup
            BY <1>1, <2>1 DEF CutInv
        <2>2. CASE c # Cleanup
            BY <1>1, <2>2 DEF CutInv
        <2> QED BY <2>1, <2>2
    <1> QED BY <1>1, <1>2, <1>3, <1>4, <1>5

LEMMA FromOneCall ==
    ASSUME IInv, NEW c \in Callers, NEW r \in Calls, Become(c, r),
           r.day + r.left <= today + Lookahead,
           r.step \notin {"fetch", "insert", "gauge"},
           r.step = "error" => r.raced \/ r.day \in odd,
           r.step = "cutoff" => r.day <= today,
           UNCHANGED <<place, cache, odd, edits, today, changed, worker, starts, saves>>,
           UNCHANGED gauge, due' \in SUBSET Jobs, calls' \in 0 .. MaxCalls
    PROVE  IInv'
    <1>1. call' \in [Callers -> Calls] /\ TimeInv' /\ PlaceInv' /\ RaceInv' /\ CutInv'
        BY OneCall
    <1>2. TypeOK'
        BY <1>1 DEF IInv, TypeOK
    <1>3. GaugeInv'
        BY DEF IInv, GaugeInv, CleanSinceSuccess
    <1> QED BY <1>1, <1>2, <1>3 DEF IInv

(* What is next for a caller that has its answer is within reach.          *)
LEMMA AnsweredTo ==
    ASSUME IInv, NEW c \in Caller, Answered(c)
    PROVE  /\ UNCHANGED gauge
           /\ \E r \in Calls : /\ Become(c, r) /\ r.step \in {"look", "idle"}
                               /\ r.day + r.left <= today + Lookahead
    <1> USE Constants
    <1>0. c \in Callers /\ c # Cleanup /\ TypeOK
        BY DEF IInv, Caller
    <1>f. /\ call[c].day \in 1 .. LastDay + Lookahead /\ call[c].left \in 0 .. Lookahead
          /\ call[c].day + call[c].left <= today + Lookahead
          /\ today \in 1 .. LastDay
        BY <1>0, Fields DEF IInv, TypeOK, TimeInv
    <1>1. CASE c = Refresh /\ call[c].left > 0
        <2> DEFINE d == call[c].day + 1
                   l == call[c].left - 1
                   r == [Idle EXCEPT !.step = "look", !.day = d, !.left = l]
        <2>1. d \in 1 .. LastDay + Lookahead /\ l \in 0 .. Lookahead /\ d + l <= today + Lookahead
            BY <1>f, <1>1
        <2>2. Become(c, r) /\ UNCHANGED gauge
            BY <1>1 DEF Answered
        <2>3. r \in Calls /\ r.step = "look" /\ r.day = d /\ r.left = l
            <3> HIDE DEF d, l
            <3> QED BY <2>1
        <2> HIDE DEF d, l, r
        <2> QED BY <2>1, <2>2, <2>3
    <1>2. CASE ~(c = Refresh /\ call[c].left > 0)
        <2>1. Become(c, Idle) /\ UNCHANGED gauge
            BY <1>0, <1>2 DEF Answered, Succeed
        <2>2. Idle \in Calls /\ Idle.day + Idle.left <= today + Lookahead /\ Idle.step = "idle"
            BY <1>f
        <2> HIDE DEF Idle
        <2> QED BY <2>1, <2>2
    <1> QED BY <1>1, <1>2

(* An error page remembers its day and whether it was raced.               *)
LEMMA RaisedTo ==
    ASSUME IInv, NEW c \in Caller, Raised(c)
    PROVE  /\ UNCHANGED gauge
           /\ \E r \in Calls : /\ Become(c, r) /\ r.step \in {"idle", "error"}
                               /\ r.day + r.left <= today + Lookahead
                               /\ r.step = "error" => /\ r.day = call[c].day
                                                      /\ r.raced = call[c].raced
    <1> USE Constants
    <1>0. c \in Callers /\ c # Cleanup /\ TypeOK
        BY DEF IInv, Caller
    <1>f. /\ call[c] \in Calls /\ call[c].day + call[c].left <= today + Lookahead
          /\ today \in 1 .. LastDay
        BY <1>0, Fields DEF IInv, TypeOK, TimeInv
    <1>1. CASE c = Refresh
        <2>1. Become(c, Idle) /\ UNCHANGED gauge
            BY <1>0, <1>1 DEF Raised, Succeed
        <2>2. Idle \in Calls /\ Idle.day + Idle.left <= today + Lookahead /\ Idle.step = "idle"
            BY <1>f
        <2> HIDE DEF Idle
        <2> QED BY <2>1, <2>2
    <1>2. CASE c # Refresh
        <2> DEFINE r == [call[c] EXCEPT !.step = "error"]
        <2>1. Become(c, r) /\ UNCHANGED gauge
            BY <1>2 DEF Raised
        <2>2. r \in Calls
            BY <1>f
        <2>3. /\ r.step = "error" /\ r.raced = call[c].raced
              /\ r.day = call[c].day /\ r.left = call[c].left
            BY <1>f
        <2>4. r.day + r.left <= today + Lookahead
            BY <1>f, <2>3
        <2> HIDE DEF r
        <2> QED BY <2>1, <2>2, <2>3, <2>4
    <1> QED BY <1>1, <1>2

LEMMA AnsweredKeeps ==
    ASSUME IInv, NEW c \in Caller, Answered(c), UNCHANGED stored, Quiet
    PROVE  IInv'
    <1>0. c \in Callers /\ due \in SUBSET Jobs /\ calls \in 0 .. MaxCalls
        BY Constants DEF IInv, TypeOK, Caller
    <1>1. PICK r \in Calls : /\ Become(c, r) /\ r.step \in {"look", "idle"}
                             /\ r.day + r.left <= today + Lookahead
        BY AnsweredTo
    <1>2. UNCHANGED gauge
        BY AnsweredTo
    <1> QED BY <1>0, <1>1, <1>2, FromOneCall

LEMMA RaisedKeeps ==
    ASSUME IInv, NEW c \in Caller, Raised(c), call[c].raced \/ call[c].day \in odd,
           UNCHANGED stored, Quiet
    PROVE  IInv'
    <1>0. c \in Callers /\ due \in SUBSET Jobs /\ calls \in 0 .. MaxCalls
        BY Constants DEF IInv, TypeOK, Caller
    <1>1. PICK r \in Calls : /\ Become(c, r) /\ r.step \in {"idle", "error"}
                             /\ r.day + r.left <= today + Lookahead
                             /\ r.step = "error" => /\ r.day = call[c].day
                                                    /\ r.raced = call[c].raced
        BY RaisedTo
    <1>2. UNCHANGED gauge
        BY RaisedTo
    <1>3. r.step = "error" => r.raced \/ r.day \in odd
        BY <1>1
    <1> QED BY <1>0, <1>1, <1>2, <1>3, FromOneCall

(* A caller that found nothing cached races whoever is past its own look   *)
(* at the same day, and they it; nobody else is disturbed.                 *)
LEMMA ToFetchKeeps ==
    ASSUME IInv, NEW c \in Caller, ToFetch(c)
    PROVE  IInv'
    <1> DEFINE b == (Racers(c) # {})
               r == [call[c] EXCEPT !.step = "fetch", !.place = place, !.raced = b]
               m(e) == [call[e] EXCEPT !.raced = TRUE]
    <1>0. c \in Callers /\ c # Cleanup /\ place \in Places /\ TypeOK /\ b \in BOOLEAN
        BY Constants DEF IInv, TypeOK, Caller, ToFetch, Fetch
    <1>q. UNCHANGED <<place, cache, odd, edits, today, changed, worker, due, starts, calls,
                      saves, cleaned, cut>>
        BY DEF ToFetch, Fetch
    <1>1. call' = [e \in Callers |-> IF e = c THEN r
                                     ELSE IF e \in Racers(c) THEN m(e) ELSE call[e]]
        BY DEF ToFetch, Fetch
    <1>2. /\ r \in Calls /\ r.step = "fetch" /\ r.place = place /\ r.raced = b
          /\ r.day = call[c].day /\ r.left = call[c].left
        <2> HIDE DEF b
        <2>1. call[c] \in Calls
            BY <1>0, Fields
        <2> QED BY <1>0, <2>1
    <1>3. \A e \in Callers : m(e) \in Calls /\ m(e).raced = TRUE
        BY <1>0, Fields, ZenonT(60)
    <1>4. \A e \in Callers : /\ m(e).step = call[e].step /\ m(e).day = call[e].day
                             /\ m(e).left = call[e].left /\ m(e).place = call[e].place
        BY <1>0, Fields
    <1>i. \A e \in Callers : call[e] \in Calls
        BY <1>0, Fields
    <1> HIDE DEF r, m
    <1>5. call' \in [Callers -> Calls] /\ call'[c] = r
        BY <1>0, <1>1, <1>2, <1>3, <1>i
    <1>6. \A e \in Callers \ {c} :
              /\ call'[e].step = call[e].step /\ call'[e].day = call[e].day
              /\ call'[e].left = call[e].left /\ call'[e].place = call[e].place
              /\ IF e \in Racers(c) THEN call'[e].raced = TRUE
                 ELSE call'[e].raced = call[e].raced
        <2> TAKE e \in Callers \ {c}
        <2>1. call'[e] = IF e \in Racers(c) THEN m(e) ELSE call[e]
            BY <1>1
        <2>2. CASE e \in Racers(c)
            BY <1>3, <1>4, <2>1, <2>2
        <2>3. CASE e \notin Racers(c)
            BY <2>1, <2>3
        <2> QED BY <2>2, <2>3
    <1>n. cache[call[c].day] = NoRow
        BY DEF ToFetch
    <1>7. TypeOK'
        BY <1>0, <1>q, <1>5 DEF TypeOK
    <1>8. TimeInv'
        <2>1. \A e \in Callers : call[e].day + call[e].left <= today + Lookahead
            BY DEF IInv, TimeInv
        <2>2. \A e \in Callers : call'[e].day + call'[e].left <= today + Lookahead
            BY <1>0, <1>2, <1>5, <1>6, <2>1
        <2> QED BY <1>q, <2>2 DEF IInv, TimeInv
    <1>9. PlaceInv'
        <2>1. \A e \in Callers : call'[e].step \in {"fetch", "insert"} /\ call'[e].place # place
                                 => call'[e].day <= changed + Lookahead
            BY <1>0, <1>2, <1>5, <1>6 DEF IInv, PlaceInv
        <2> QED BY <1>q, <2>1 DEF IInv, PlaceInv
    <1>10. RaceInv'
        <2>1. \A e \in Callers \ {c} : call[e].step \in {"fetch", "insert"}
                                       /\ call[e].day = call[c].day <=> e \in Racers(c)
            BY <1>0 DEF Racers
        <2>2. ASSUME NEW e \in Callers, call'[e].step \in {"fetch", "insert"}, ~call'[e].raced
              PROVE  /\ cache[call'[e].day] = NoRow
                     /\ \A d \in Callers \ {e} : call'[d].step \in {"fetch", "insert"}
                                                 => call'[d].day # call'[e].day
            <3>1. CASE e = c
                <4>1. Racers(c) = {}
                    BY <1>2, <1>5, <2>2, <3>1
                <4>2. \A d \in Callers \ {c} : call[d].step \in {"fetch", "insert"}
                                               => call[d].day # call[c].day
                    BY <2>1, <4>1
                <4> QED BY <1>2, <1>5, <1>6, <1>n, <3>1, <4>2
            <3>2. CASE e # c
                <4>1. e \notin Racers(c) /\ ~call[e].raced /\ call[e].step \in {"fetch", "insert"}
                    BY <1>6, <2>2, <3>2
                <4>2. call[e].day # call[c].day
                    BY <2>1, <3>2, <4>1
                <4>3. /\ cache[call[e].day] = NoRow
                      /\ \A d \in Callers \ {e} : call[d].step \in {"fetch", "insert"}
                                                  => call[d].day # call[e].day
                    BY <4>1 DEF IInv, RaceInv
                <4>4. call'[e].day = call[e].day
                    BY <1>6, <3>2
                <4>5. \A d \in Callers \ {e} : call'[d].step \in {"fetch", "insert"}
                                               => call'[d].day # call[e].day
                    <5> TAKE d \in Callers \ {e}
                    <5>1. CASE d = c
                        BY <1>2, <1>5, <4>2, <5>1
                    <5>2. CASE d # c
                        BY <1>6, <4>3, <5>2
                    <5> QED BY <5>1, <5>2
                <4> QED BY <4>3, <4>4, <4>5
            <3> QED BY <3>1, <3>2
        <2>3. ASSUME NEW e \in Callers, call'[e].step = "error"
              PROVE  call'[e].raced \/ call'[e].day \in odd
            <3>1. e # c
                BY <1>2, <1>5, <2>3
            <3>2. e \notin Racers(c)
                BY <1>6, <2>3, <3>1 DEF Racers
            <3> QED BY <1>6, <2>3, <3>1, <3>2 DEF IInv, RaceInv
        <2> QED BY <1>q, <2>2, <2>3 DEF RaceInv
    <1>11. CutInv' /\ GaugeInv'
        BY <1>0, <1>q, <1>6 DEF IInv, CutInv, GaugeInv, CleanSinceSuccess
    <1> QED BY <1>7, <1>8, <1>9, <1>10, <1>11 DEF IInv

LEMMA FetchAnswersKeeps ==
    ASSUME IInv, NEW c \in Caller, FetchAnswers(c)
    PROVE  IInv'
    <1>p. PICK o \in BOOLEAN : Become(c, [call[c] EXCEPT !.step = "insert", !.odd = o])
        BY DEF FetchAnswers
    <1> DEFINE r == [call[c] EXCEPT !.step = "insert", !.odd = o]
    <1>0. c \in Callers /\ c # Cleanup /\ TypeOK /\ call[c] \in Calls
        BY Constants, Fields DEF IInv, Caller
    <1>q. UNCHANGED <<place, cache, odd, edits, today, changed, worker, due, starts, calls,
                      saves, cleaned, cut>>
        BY DEF FetchAnswers
    <1>1. call' = [call EXCEPT ![c] = r] /\ call[c].step = "fetch"
        BY <1>p DEF FetchAnswers, Become
    <1>2. r \in Calls
        BY <1>0
    <1>3. /\ r.step = "insert" /\ r.place = call[c].place /\ r.raced = call[c].raced
          /\ r.day = call[c].day /\ r.left = call[c].left
        BY <1>0
    <1> HIDE DEF r
    <1>4. /\ call' \in [Callers -> Calls] /\ call'[c] = r
          /\ \A e \in Callers \ {c} : call'[e] = call[e]
        BY <1>0, <1>1, <1>2 DEF TypeOK
    <1>5. TypeOK'
        BY <1>0, <1>q, <1>4 DEF TypeOK
    <1>6. TimeInv'
        BY <1>0, <1>q, <1>3, <1>4 DEF IInv, TimeInv
    <1>7. PlaceInv'
        BY <1>0, <1>q, <1>1, <1>3, <1>4 DEF IInv, PlaceInv
    <1>8. RaceInv'
        <2>1. \A e \in Callers : /\ call'[e].day = call[e].day /\ call'[e].raced = call[e].raced
                                 /\ call'[e].step \in {"fetch", "insert"}
                                        <=> call[e].step \in {"fetch", "insert"}
                                 /\ call'[e].step = "error" => call[e].step = "error"
            BY <1>1, <1>3, <1>4
        <2> QED BY <1>q, <2>1 DEF IInv, RaceInv
    <1>9. CutInv' /\ GaugeInv'
        BY <1>0, <1>q, <1>4 DEF IInv, CutInv, GaugeInv, CleanSinceSuccess
    <1> QED BY <1>5, <1>6, <1>7, <1>8, <1>9 DEF IInv

(* The day is filled for every caller that waits for it; each of those     *)
(* was raced.                                                              *)
LEMMA InsertKeeps ==
    ASSUME IInv, NEW c \in Caller, Insert(c)
    PROVE  IInv'
    <1>0. c \in Callers /\ c # Cleanup /\ TypeOK
        BY Constants DEF IInv, Caller
    <1>q. /\ UNCHANGED <<place, edits, today, changed, worker, due, starts, calls, saves>>
          /\ call[c].step = "insert"
          /\ IF call[c].odd THEN Raised(c) ELSE Answered(c)
          /\ cache' = [cache EXCEPT ![call[c].day] = call[c].place]
          /\ odd' = IF call[c].odd THEN odd \cup {call[c].day} ELSE odd
        BY DEF Insert, Store
    <1>f. /\ call[c].day \in 1 .. LastDay + Lookahead /\ call[c].left \in 0 .. Lookahead
          /\ call[c].place \in Places \cup {NoRow} /\ today \in 1 .. LastDay
          /\ call[c].odd \in BOOLEAN
        BY <1>0, Fields DEF TypeOK
    <1>r. \E r \in Calls : /\ Become(c, r) /\ r.step \in {"look", "idle", "error"}
                           /\ r.day + r.left <= today + Lookahead
                           /\ r.step = "error" => r.day \in odd'
        <2>1. CASE call[c].odd
            <3>1. PICK r \in Calls : /\ Become(c, r) /\ r.step \in {"idle", "error"}
                                     /\ r.day + r.left <= today + Lookahead
                                     /\ r.step = "error" => r.day = call[c].day
                BY <1>q, <2>1, RaisedTo
            <3> QED BY <1>q, <2>1, <3>1
        <2>2. CASE ~call[c].odd
            <3>1. PICK r \in Calls : /\ Become(c, r) /\ r.step \in {"look", "idle"}
                                     /\ r.day + r.left <= today + Lookahead
                BY <1>q, <2>2, AnsweredTo
            <3> QED BY <3>1
        <2> QED BY <2>1, <2>2
    <1>1. PICK r \in Calls : /\ Become(c, r) /\ r.step \in {"look", "idle", "error"}
                             /\ r.day + r.left <= today + Lookahead
                             /\ r.step = "error" => r.day \in odd'
        BY <1>r
    <1>2. UNCHANGED gauge
        BY <1>q, AnsweredTo, RaisedTo
    <1>3. /\ call' \in [Callers -> Calls] /\ call'[c] = r
          /\ \A e \in Callers \ {c} : call'[e] = call[e]
        BY <1>0, <1>1 DEF TypeOK, Become
    <1>4. /\ cache' \in [1 .. LastDay + Lookahead -> Places \cup {NoRow}]
          /\ cache'[call[c].day] = call[c].place
          /\ \A d \in (1 .. LastDay + Lookahead) \ {call[c].day} : cache'[d] = cache[d]
          /\ odd' \subseteq 1 .. LastDay + Lookahead /\ odd \subseteq odd'
        BY <1>0, <1>f, <1>q DEF TypeOK
    <1>5. TypeOK'
        BY <1>0, <1>q, <1>2, <1>3, <1>4 DEF TypeOK
    <1>6. TimeInv'
        <2>1. \A e \in Callers : call'[e].day + call'[e].left <= today + Lookahead
            BY <1>1, <1>3 DEF IInv, TimeInv
        <2>2. call[c].day <= today + Lookahead
            BY <1>0, <1>f, Constants DEF IInv, TimeInv
        <2>3. \A d \in 1 .. LastDay + Lookahead : cache'[d] # NoRow => d <= today + Lookahead
            BY <1>f, <1>4, <2>2 DEF IInv, TimeInv
        <2> QED BY <1>q, <2>1, <2>3 DEF IInv, TimeInv
    <1>7. PlaceInv'
        <2>1. \A d \in 1 .. LastDay + Lookahead :
                  cache'[d] \notin {NoRow, place} => d <= changed + Lookahead
            BY <1>0, <1>q, <1>4 DEF IInv, PlaceInv
        <2>2. \A e \in Callers : call'[e].step \in {"fetch", "insert"} /\ call'[e].place # place
                                 => call'[e].day <= changed + Lookahead
            BY <1>1, <1>3 DEF IInv, PlaceInv
        <2> QED BY <1>q, <2>1, <2>2 DEF PlaceInv
    <1>8. RaceInv'
        <2>1. ASSUME NEW e \in Callers, call'[e].step \in {"fetch", "insert"}, ~call'[e].raced
              PROVE  /\ cache'[call'[e].day] = NoRow
                     /\ \A d \in Callers \ {e} : call'[d].step \in {"fetch", "insert"}
                                                 => call'[d].day # call'[e].day
            <3>1. e # c /\ call'[e] = call[e] /\ call[e].day \in 1 .. LastDay + Lookahead
                BY <1>0, <1>1, <1>3, <2>1, Fields
            <3>2. /\ cache[call[e].day] = NoRow
                  /\ \A d \in Callers \ {e} : call[d].step \in {"fetch", "insert"}
                                              => call[d].day # call[e].day
                BY <2>1, <3>1 DEF IInv, RaceInv
            <3>3. call[e].day # call[c].day
                BY <1>0, <1>q, <3>1, <3>2
            <3>4. cache'[call'[e].day] = NoRow
                BY <1>4, <3>1, <3>2, <3>3
            <3>5. \A d \in Callers \ {e} : call'[d].step \in {"fetch", "insert"}
                                           => call'[d].day # call'[e].day
                BY <1>1, <1>3, <3>1, <3>2
            <3> QED BY <3>4, <3>5
        <2>2. ASSUME NEW e \in Callers, call'[e].step = "error"
              PROVE  call'[e].raced \/ call'[e].day \in odd'
            <3>1. CASE e = c
                BY <1>1, <1>3, <2>2, <3>1
            <3>2. CASE e # c
                BY <1>3, <1>4, <2>2, <3>2 DEF IInv, RaceInv
            <3> QED BY <3>1, <3>2
        <2> QED BY <2>1, <2>2 DEF RaceInv
    <1>9. CutInv' /\ GaugeInv'
        BY <1>0, <1>q, <1>2, <1>3 DEF IInv, CutInv, GaugeInv, CleanSinceSuccess
    <1> QED BY <1>5, <1>6, <1>7, <1>8, <1>9 DEF IInv

LEMMA IdleFits ==
    ASSUME IInv
    PROVE  Idle \in Calls /\ Idle.day + Idle.left <= today + Lookahead /\ Idle.step = "idle"
    BY Constants DEF IInv, TypeOK

(* A refused row means that the caller was raced, a cached payload that    *)
(* raises is one of the odd days.                                          *)
LEMMA InsertRefusedKeeps ==
    ASSUME IInv, NEW c \in Caller, InsertRefused(c)
    PROVE  IInv'
    <1>1. c \in Callers /\ Raised(c) /\ UNCHANGED stored /\ Quiet
        BY DEF InsertRefused, Caller
    <1>2. call[c].raced
        BY <1>1 DEF IInv, RaceInv, InsertRefused
    <1> QED BY <1>1, <1>2, RaisedKeeps

LEMMA LookedUpKeeps ==
    ASSUME IInv, NEW c \in Caller, LookedUp(c)
    PROVE  IInv'
    <1>1. CASE call[c].day \in odd
        BY <1>1, RaisedKeeps DEF LookedUp
    <1>2. CASE call[c].day \notin odd
        BY <1>2, AnsweredKeeps DEF LookedUp
    <1> QED BY <1>1, <1>2

LEMMA WeatherStepKeeps ==
    ASSUME IInv, NEW c \in Caller, WeatherStep(c)
    PROVE  IInv'
    <1>1. CASE FetchFails(c)
        BY <1>1, AnsweredKeeps DEF FetchFails
    <1> QED BY <1>1, LookedUpKeeps, ToFetchKeeps, FetchAnswersKeeps, InsertKeeps,
               InsertRefusedKeeps DEF WeatherStep

LEMMA PageKeeps ==
    ASSUME IInv, NEW p \in Pages, OpenPage(p) \/ PageFails(p) \/ Close(p)
    PROVE  IInv'
    <1>0. /\ p \in Callers /\ p # Cleanup /\ due \in SUBSET Jobs
          /\ calls \in 0 .. MaxCalls /\ today \in 1 .. LastDay
        BY Constants DEF IInv, TypeOK
    <1>1. CASE OpenPage(p)
        <2> DEFINE r == [Idle EXCEPT !.step = "look", !.day = today]
        <2>1. /\ Become(p, r) /\ calls' = calls + 1 /\ calls < MaxCalls
              /\ UNCHANGED <<place, cache, odd, edits, today, changed, worker, due, starts,
                             saves, cleaned, cut>>
            BY <1>1 DEF OpenPage
        <2>2. r \in Calls /\ r.step = "look" /\ r.day = today /\ r.left = 0
            <3>1. today \in 1 .. LastDay + Lookahead /\ 0 \in 0 .. Lookahead
                BY <1>0, Constants
            <3>2. r \in Calls
                BY <3>1
            <3>3. r.step = "look" /\ r.day = today /\ r.left = 0
                OBVIOUS
            <3> QED BY <3>2, <3>3
        <2>3. r.day + r.left <= today + Lookahead
            BY <1>0, <2>2, Constants
        <2>4. calls' \in 0 .. MaxCalls
            BY <1>0, <2>1, Constants
        <2> HIDE DEF r
        <2> QED BY <1>0, <2>1, <2>2, <2>3, <2>4, FromOneCall
    <1>2. CASE Close(p)
        <2>1. Become(p, Idle) /\ UNCHANGED <<place, cache, odd, edits, today, changed, worker, due,
                                           starts, calls, saves, cleaned, cut>>
            BY <1>2 DEF Close
        <2> HIDE DEF Idle
        <2> QED BY <1>0, <2>1, IdleFits, FromOneCall
    <1>3. CASE PageFails(p)
        <2> DEFINE r == [Idle EXCEPT !.step = "failed"]
        <2>1. /\ Become(p, r)
              /\ UNCHANGED <<place, cache, odd, edits, today, changed, worker, due, starts,
                             calls, saves, cleaned, cut>>
            BY <1>3 DEF PageFails
        <2>2. r \in Calls /\ r.step = "failed" /\ r.day + r.left <= today + Lookahead
            BY IdleFits
        <2> HIDE DEF r
        <2> QED BY <1>0, <2>1, <2>2, FromOneCall
    <1> QED BY <1>1, <1>2, <1>3

LEMMA JobKeeps ==
    ASSUME IInv, NEW j \in Jobs, StartupRun(j) \/ Fire(j) \/ JobFails(j)
    PROVE  IInv'
    <1>0. /\ j \in Callers /\ due \in SUBSET Jobs /\ TypeOK
          /\ calls \in 0 .. MaxCalls /\ today \in 1 .. LastDay
        BY DEF IInv, TypeOK
    <1>1. CASE JobFails(j)
        <2>1. Become(j, Idle) /\ UNCHANGED <<place, cache, odd, edits, today, changed, worker, due,
                                           starts, calls, saves, cleaned, cut>>
            BY <1>1 DEF JobFails, Succeed
        <2> HIDE DEF Idle
        <2> QED BY <1>0, <2>1, IdleFits, FromOneCall
    <1>2. CASE Become(j, Begin(j)) /\ (StartupRun(j) \/ Fire(j))
        <2>1. /\ due' \in SUBSET Jobs
              /\ UNCHANGED <<place, cache, odd, edits, today, changed, worker, starts, calls,
                             saves, cleaned, cut>>
            BY <1>0, <1>2 DEF StartupRun, Fire
        <2>2. /\ Begin(j) \in Calls /\ Begin(j).day = today
              /\ Begin(j).step \in {"look", "cutoff"}
              /\ Begin(j).left \in 0 .. Lookahead
            <3>1. /\ today \in 1 .. LastDay + Lookahead
                  /\ 0 \in 0 .. Lookahead /\ Lookahead \in 0 .. Lookahead
                BY <1>0, Constants
            <3>2. CASE j = Cleanup
                BY <3>1, <3>2 DEF Begin
            <3>3. CASE j # Cleanup
                BY <3>1, <3>3 DEF Begin
            <3> QED BY <3>2, <3>3
        <2>3. Begin(j).day + Begin(j).left <= today + Lookahead /\ Begin(j).day <= today
            BY <1>0, <2>2, Constants
        <2> QED BY <1>0, <1>2, <2>1, <2>2, <2>3, FromOneCall
    <1>3. CASE UNCHANGED call /\ Fire(j)
        <2>1. /\ due' \in SUBSET Jobs
              /\ UNCHANGED <<place, cache, odd, edits, today, changed, worker, starts, calls,
                             saves, cleaned, cut>>
            BY <1>0, <1>3 DEF Fire
        <2> QED BY <1>0, <1>3, <2>1 DEF IInv, TypeOK, TimeInv, PlaceInv, RaceInv, CutInv,
                                      GaugeInv, CleanSinceSuccess
    <1> QED BY <1>1, <1>2, <1>3 DEF StartupRun, Fire

(* The DELETE leaves nothing older than its own cutoff allows.             *)
LEMMA CommitCleanupKeeps == IInv /\ CommitCleanup => IInv'
    <1> SUFFICES ASSUME IInv, CommitCleanup PROVE IInv'
        OBVIOUS
    <1> DEFINE r == [call[Cleanup] EXCEPT !.step = "gauge"]
    <1>0. /\ Cleanup \in Callers /\ TypeOK /\ today \in 1 .. LastDay
          /\ call[Cleanup] \in Calls
        BY Fields DEF IInv, TypeOK
    <1>1. /\ Become(Cleanup, r)
          /\ edits' = {d \in edits : d >= call[Cleanup].day - Retention}
          /\ call[Cleanup].day <= today
          /\ UNCHANGED <<place, cache, odd, today, changed, worker, due, starts, calls, saves,
                         cleaned, cut>>
        BY DEF CommitCleanup, IInv, CutInv
    <1>2. /\ r \in Calls /\ r.step = "gauge"
          /\ r.day = call[Cleanup].day /\ r.left = call[Cleanup].left
        BY <1>0
    <1>3. r.day + r.left <= today + Lookahead
        BY <1>0, <1>2 DEF IInv, TimeInv
    <1> HIDE DEF r
    <1>4. call' \in [Callers -> Calls] /\ TimeInv' /\ PlaceInv' /\ RaceInv' /\ CutInv'
        <2>1. \A d \in edits' : d >= r.day - Retention
            BY <1>1, <1>2
        <2>2. r.day <= today /\ edits' \subseteq edits
            BY <1>1, <1>2
        <2> QED BY <1>0, <1>1, <1>2, <1>3, <2>1, <2>2, OneCall
    <1>5. TypeOK'
        BY <1>0, <1>1, <1>4 DEF TypeOK
    <1>6. GaugeInv'
        BY <1>1 DEF IInv, GaugeInv, CleanSinceSuccess
    <1> QED BY <1>4, <1>5, <1>6 DEF IInv

(* The gauge tells the end of the run, the history the day of its cutoff.  *)
LEMMA SetGaugeKeeps == IInv /\ SetGauge => IInv'
    <1> SUFFICES ASSUME IInv, SetGauge PROVE IInv'
        OBVIOUS
    <1>0. /\ Cleanup \in Callers /\ TypeOK /\ today \in 1 .. LastDay
          /\ call[Cleanup].step = "gauge"
        BY DEF IInv, TypeOK, SetGauge
    <1>1. /\ Become(Cleanup, Idle) /\ cleaned' = today /\ cut' = call[Cleanup].day
          /\ UNCHANGED <<place, cache, odd, edits, today, changed, worker, due, starts,
                         calls, saves>>
        BY DEF SetGauge, Succeed
    <1>2. /\ call[Cleanup].day <= today
          /\ \A d \in edits : d >= call[Cleanup].day - Retention
        BY <1>0 DEF IInv, CutInv
    <1>3. call[Cleanup].day \in 1 .. LastDay
        <2>1. call[Cleanup].day \in 1 .. LastDay + Lookahead
            BY <1>0, Fields
        <2> QED BY <1>0, <1>2, <2>1, Constants
    <1>4. call' \in [Callers -> Calls] /\ TimeInv' /\ PlaceInv' /\ RaceInv' /\ CutInv'
        <2> HIDE DEF Idle
        <2> QED BY <1>0, <1>1, IdleFits, OneCall
    <1>5. TypeOK'
        BY <1>0, <1>1, <1>3, <1>4 DEF TypeOK
    <1>6. GaugeInv'
        <2>1. cut' # NoRow /\ cut' <= cleaned' /\ cleaned' <= today'
            BY <1>0, <1>1, <1>2, <1>3, Constants
        <2> QED BY <1>1, <1>2, <2>1 DEF GaugeInv, CleanSinceSuccess
    <1> QED BY <1>4, <1>5, <1>6 DEF IInv

LEMMA ProcessKeeps ==
    ASSUME IInv, StartWorker \/ StartScheduler \/ StopWorker
    PROVE  IInv'
    <1>0. TypeOK
        BY DEF IInv
    <1>q. /\ UNCHANGED <<place, cache, odd, edits, today, changed, calls, saves>>
          /\ UNCHANGED gauge \/ (cleaned' = NoRow /\ cut' = NoRow)
        <2> HIDE DEF Idle
        <2> QED BY DEF StartWorker, StartScheduler, StopWorker
    <1>1. TypeOK'
        <2>1. /\ due' \in SUBSET Jobs /\ starts' \in 0 .. MaxStarts
              /\ worker' \in {"down", "starting", "waiting"}
            BY <1>0, Constants DEF TypeOK, StartWorker, StartScheduler, StopWorker
        <2>2. call' \in [Callers -> Calls]
            <3>1. Idle \in Calls
                BY IdleFits
            <3> HIDE DEF Idle
            <3> QED BY <1>0, <3>1 DEF TypeOK, StartWorker, StartScheduler, StopWorker
        <2> QED BY <1>0, <1>q, <2>1, <2>2 DEF TypeOK
    <1>2. \A c \in Callers : call'[c] \in {call[c], Idle}
        <2> HIDE DEF Idle
        <2> QED BY <1>0 DEF TypeOK, StartWorker, StartScheduler, StopWorker
    <1>3. TimeInv'
        <2> HIDE DEF Idle
        <2> QED BY <1>q, <1>2, IdleFits DEF IInv, TimeInv
    <1>4. PlaceInv'
        <2> HIDE DEF Idle
        <2> QED BY <1>q, <1>2, IdleFits DEF IInv, PlaceInv
    <1>5. RaceInv'
        <2> HIDE DEF Idle
        <2> QED BY <1>q, <1>2, IdleFits DEF IInv, RaceInv
    <1>6. CutInv'
        <2> HIDE DEF Idle
        <2> QED BY <1>q, <1>2, IdleFits DEF IInv, CutInv
    <1>7. GaugeInv'
        BY <1>q DEF IInv, GaugeInv, CleanSinceSuccess
    <1> QED BY <1>1, <1>3, <1>4, <1>5, <1>6, <1>7 DEF IInv

(* A new location resets the horizon to everything within reach today.     *)
LEMMA SaveWeatherKeeps ==
    ASSUME IInv, NEW p \in Places, SaveWeather(p)
    PROVE  IInv'
    <1>0. TypeOK /\ today \in 1 .. LastDay /\ changed \in 1 .. LastDay
        BY DEF IInv, TypeOK
    <1>1. /\ place' = p /\ changed' = IF p = place THEN changed ELSE today
          /\ saves' = saves + 1 /\ saves < MaxSaves
          /\ UNCHANGED <<cache, odd, edits, today, worker, due, starts, call, cleaned, cut, calls>>
        BY DEF SaveWeather
    <1>2. TypeOK'
        BY <1>0, <1>1, Constants DEF TypeOK
    <1>3. TimeInv' /\ RaceInv' /\ CutInv' /\ GaugeInv'
        BY <1>0, <1>1 DEF IInv, TimeInv, RaceInv, CutInv, GaugeInv, CleanSinceSuccess
    <1>4. PlaceInv'
        <2>1. CASE p = place
            BY <1>1, <2>1 DEF IInv, PlaceInv
        <2>2. CASE p # place
            <3>1. changed' = today
                BY <1>1, <2>2
            <3>2. \A c \in Callers : call[c].day <= today + Lookahead
                <4> TAKE c \in Callers
                <4>1. call[c].day \in Int /\ call[c].left \in 0 .. Lookahead
                    BY <1>0, Fields
                <4>2. call[c].day + call[c].left <= today + Lookahead
                    BY DEF IInv, TimeInv
                <4> QED BY <1>0, <4>1, <4>2, Constants
            <3>3. \A d \in 1 .. LastDay + Lookahead : cache[d] # NoRow => d <= today + Lookahead
                BY DEF IInv, TimeInv
            <3> QED BY <1>1, <3>1, <3>2, <3>3 DEF PlaceInv
        <2> QED BY <2>1, <2>2
    <1> QED BY <1>2, <1>3, <1>4 DEF IInv

(* A row written now is dated today, or yesterday if its request began     *)
(* then: no cutoff of the past reaches it.                                 *)
LEMMA AuditKeeps == IInv /\ Audit => IInv'
    <1> SUFFICES ASSUME IInv, Audit PROVE IInv'
        OBVIOUS
    <1>1. PICK d \in {today - 1, today} \cap Days : edits' = edits \cup {d}
        BY DEF Audit
    <1>q. UNCHANGED <<place, cache, odd, changed, today, worker, due, starts, call, cleaned,
                      cut, calls, saves>>
        BY DEF Audit
    <1>0. /\ TypeOK /\ today \in 1 .. LastDay /\ d \in 1 .. LastDay /\ d >= today - 1
          /\ Cleanup \in Callers
        BY <1>1 DEF IInv, TypeOK
    <1>2. TypeOK'
        BY <1>1, <1>q DEF IInv, TypeOK
    <1>3. TimeInv' /\ PlaceInv' /\ RaceInv'
        BY <1>q DEF IInv, TimeInv, PlaceInv, RaceInv
    <1>4. \A x \in Int : x <= today => d >= x - Retention
        BY <1>0, Constants
    <1>5. CutInv'
        BY <1>0, <1>1, <1>q, <1>4, Fields DEF IInv, CutInv
    <1>6. GaugeInv'
        <2>1. cleaned # NoRow => cut \in Int /\ cleaned \in Int /\ cut <= today
            BY <1>0, Constants DEF IInv, TypeOK, GaugeInv, CleanSinceSuccess
        <2> QED BY <1>1, <1>q, <1>4, <2>1 DEF IInv, GaugeInv, CleanSinceSuccess
    <1> QED BY <1>2, <1>3, <1>5, <1>6 DEF IInv

LEMMA NextDayKeeps == IInv /\ NextDay => IInv'
    <1> SUFFICES ASSUME IInv, NextDay PROVE IInv'
        OBVIOUS
    <1>0. TypeOK /\ today \in 1 .. LastDay /\ changed \in 1 .. LastDay
        BY DEF IInv, TypeOK
    <1>1. /\ today' = today + 1 /\ today < LastDay
          /\ due' \in {Jobs, due}
          /\ UNCHANGED <<place, cache, odd, edits, changed, worker, starts, call, cleaned, cut,
                         calls, saves>>
        BY DEF NextDay
    <1>2. TypeOK'
        BY <1>0, <1>1, Constants DEF TypeOK
    <1>3. TimeInv'
        <2>1. \A c \in Callers : call[c].day + call[c].left <= (today + 1) + Lookahead
            <3> TAKE c \in Callers
            <3>1. call[c].day \in Int /\ call[c].left \in Int
                BY <1>0, Fields
            <3>2. call[c].day + call[c].left <= today + Lookahead
                BY DEF IInv, TimeInv
            <3> QED BY <1>0, <3>1, <3>2, Constants
        <2>2. \A d \in 1 .. LastDay + Lookahead :
                  cache[d] # NoRow => d <= (today + 1) + Lookahead
            BY <1>0, Constants DEF IInv, TimeInv
        <2>3. changed <= today + 1
            BY <1>0 DEF IInv, TimeInv
        <2> QED BY <1>1, <2>1, <2>2, <2>3 DEF TimeInv
    <1>4. PlaceInv' /\ RaceInv'
        BY <1>1 DEF IInv, PlaceInv, RaceInv
    <1>5. CutInv'
        <2>1. Cleanup \in Callers
            OBVIOUS
        <2> QED BY <1>0, <1>1, <2>1, Fields DEF IInv, CutInv
    <1>6. GaugeInv'
        BY <1>0, <1>1 DEF IInv, TypeOK, GaugeInv, CleanSinceSuccess
    <1> QED BY <1>2, <1>3, <1>4, <1>5, <1>6 DEF IInv

LEMMA StepKeeps == IInv /\ [Next]_vars => IInv'
    <1> SUFFICES ASSUME IInv, [Next]_vars PROVE IInv'
        OBVIOUS
    <1>1. CASE UNCHANGED vars
        BY <1>1 DEF vars, IInv, TypeOK, TimeInv, PlaceInv, RaceInv, CutInv, GaugeInv,
                    CleanSinceSuccess
    <1>2. CASE \E p \in Pages : OpenPage(p) \/ WeatherStep(p) \/ PageFails(p) \/ Close(p)
        BY <1>2, PageKeeps, WeatherStepKeeps DEF Caller
    <1>3. CASE WeatherStep(Refresh)
        BY <1>3, WeatherStepKeeps DEF Caller
    <1>4. CASE CommitCleanup \/ SetGauge \/ StartWorker \/ StartScheduler \/ StopWorker
        BY <1>4, CommitCleanupKeeps, SetGaugeKeeps, ProcessKeeps
    <1>5. CASE \E j \in Jobs : StartupRun(j) \/ Fire(j) \/ JobFails(j)
        BY <1>5, JobKeeps
    <1>6. CASE (\E p \in Places : SaveWeather(p)) \/ Audit \/ NextDay
        BY <1>6, SaveWeatherKeeps, AuditKeeps, NextDayKeeps
    <1> QED BY <1>1, <1>2, <1>3, <1>4, <1>5, <1>6 DEF Next

LEMMA Inductive == Spec => []IInv
    BY InitIInv, StepKeeps, PTL DEF Spec

-----------------------------------------------------------------------------
(* The rows, the process and the callers keep their types.                 *)
THEOREM WorkerTypeOK == Spec => []TypeOK
    <1>1. IInv => TypeOK
        BY DEF IInv
    <1> QED BY <1>1, Inductive, PTL

(* What the gauge of the clean-up (jobs.py 41-55, 126-139) can be trusted  *)
(* for, through midnights, failures and restarts at any point: a run has   *)
(* succeeded, its cutoff was not after what the gauge says, and no audit   *)
(* row is older than the retention before that cutoff.                     *)
THEOREM GaugeIsTrue == Spec => []CleanSinceSuccess
    <1>1. IInv => CleanSinceSuccess
        BY DEF IInv, GaugeInv
    <1> QED BY <1>1, Inductive, PTL

(* The saved location is what a page shows once the days warmed ahead have *)
(* passed, whatever was cached or being fetched (brightsky.py 52-72).      *)
THEOREM OldPlaceFadesAlways == Spec => []OldPlaceFades
    <1>1. IInv => OldPlaceFades
        <2> SUFFICES ASSUME IInv, today > changed + Lookahead, cache[today] # NoRow,
                            cache[today] # place
                     PROVE  FALSE
            BY DEF OldPlaceFades
        <2>1. today \in 1 .. LastDay + Lookahead /\ today \in Int /\ changed \in Int
            BY Constants DEF IInv, TypeOK
        <2>2. today <= changed + Lookahead
            BY <2>1 DEF IInv, PlaceInv
        <2> QED BY <2>1, <2>2, Constants
    <1> QED BY <1>1, Inductive, PTL

(* A page whose database works, that nobody raced for the row of its day   *)
(* and whose day has a readable payload is no error page (brightsky.py     *)
(* 52-72).                                                                 *)
THEOREM ErrorsHaveReasons == Spec => []ErrorsExplained
    <1>1. IInv => ErrorsExplained
        BY DEF IInv, RaceInv, ErrorsExplained
    <1> QED BY <1>1, Inductive, PTL

=============================================================================
