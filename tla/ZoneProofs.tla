----------------------------- MODULE ZoneProofs -----------------------------
(***************************************************************************)
(* For any number of processes, threads and requests: which zones a        *)
(* process may keep, when a saved zone applies, and when a request sees    *)
(* one zone only.                                                          *)
(***************************************************************************)
EXTENDS Zone, TLAPS

(* A thread about to fill the cache holds a zone the row has held.         *)
HeldWasSaved ==
    /\ saved # NoZone => saved \in everSaved
    /\ \A t \in Threads : req[t].step = "keep" => req[t].zone \in everSaved

(* In a process whose cache is up to date no reader holds an older zone.   *)
HeldIsCurrent ==
    \A t \in Threads :
        req[t].step = "keep" /\ ProcessOf[t] \in current => req[t].zone = saved

(* How far a request has come with its calls of zone_name; between two of  *)
(* them the cache holds what the first one saw.                            *)
OneZoneSoFar(t) ==
    \/ Len(req[t].seen) = 0
    \/ /\ Len(req[t].seen) = 1
       /\ req[t].step \in {"look", "commit"}
       /\ req[t].step = "look" => cached[ProcessOf[t]] = req[t].seen[1]
    \/ /\ Len(req[t].seen) = 2
       /\ req[t].step = "commit"
       /\ req[t].seen[1] = req[t].seen[2]

AloneStands ==
    \A t \in Threads : req[t].alone =>
        /\ Quiet(t)
        /\ saved # NoZone
        /\ ~req[t].lost => OneZoneSoFar(t)

(* What a thread is about to keep or to save is a zone.                    *)
HoldsZone ==
    \A t \in Threads :
        req[t].step = "keep" \/ (req[t].step = "prefs" /\ req[t].kind = "timezone")
            => req[t].zone \in Zones

TypeInv == TypeOK /\ HoldsZone

SavedInv == HeldWasSaved /\ FallbackNeverKept /\ HeldIsCurrent /\ SavedZoneApplies

-----------------------------------------------------------------------------
(* What a finished call of zone_name leaves in the request.                *)
LEMMA AnswerEffect ==
    ASSUME TypeOK, NEW t \in Threads, NEW z \in Zones, NEW lost \in BOOLEAN,
           Answer(t, z, lost)
    PROVE  /\ req' \in [Threads -> Requests]
           /\ \A u \in Threads \ {t} : req'[u] = req[u]
           /\ req'[t].kind = req[t].kind
           /\ req'[t].alone = req[t].alone
           /\ req'[t].lost = (req[t].lost \/ lost)
           /\ Len(req'[t].seen) = Len(req[t].seen) + 1
           /\ req'[t].seen[Len(req[t].seen) + 1] = z
           /\ \A i \in 1 .. Len(req[t].seen) : req'[t].seen[i] = req[t].seen[i]
           /\ req'[t].step = IF req[t].kind = "mark" /\ Len(req[t].seen) = 0
                             THEN "look" ELSE "commit"
    <1> DEFINE r    == req[t]
               seen == Append(r.seen, z)
               gone == r.lost \/ lost
               next == IF r.kind = "mark" /\ Len(r.seen) = 0 THEN "look" ELSE "commit"
               new  == [r EXCEPT !.seen = seen, !.zone = NoZone, !.lost = gone, !.step = next]
    <1>1. r \in Requests
        BY DEF TypeOK
    <1>2. req' = [req EXCEPT ![t] = new]
        BY DEF Answer
    <1>3. seen \in Seq(Zones) /\ gone \in BOOLEAN /\ next \in {"look", "commit"}
        BY <1>1 DEF Requests
    <1>4. /\ Len(seen) = Len(r.seen) + 1
          /\ seen[Len(r.seen) + 1] = z
          /\ \A i \in 1 .. Len(r.seen) : seen[i] = r.seen[i]
        BY <1>1 DEF Requests
    <1>5. req'[t] = new /\ \A u \in Threads \ {t} : req'[u] = req[u]
        BY <1>2 DEF TypeOK
    <1> HIDE DEF seen, gone, next
    <1>6. new \in Requests
        BY <1>1, <1>3 DEF Requests, MaybeZone
    <1>7. /\ new.kind = r.kind /\ new.alone = r.alone
          /\ new.lost = gone /\ new.seen = seen /\ new.step = next
        BY <1>1 DEF Requests
    <1>8. req' \in [Threads -> Requests]
        BY <1>2, <1>6 DEF TypeOK
    <1> HIDE DEF new
    <1>9. QED
        BY <1>4, <1>5, <1>7, <1>8 DEF gone, next

(* What the arrival of a request does: it starts with nothing seen, and    *)
(* the requests it overlaps are no longer alone.                           *)
LEMMA BeginEffect ==
    ASSUME TypeOK, NEW t \in Threads, NEW new \in Requests, Begin(t, new)
    PROVE  /\ req' \in [Threads -> Requests]
           /\ req'[t].alone = (Quiet(t) /\ saved # NoZone)
           /\ req'[t].step = new.step /\ req'[t].kind = new.kind
           /\ req'[t].zone = new.zone /\ req'[t].seen = new.seen
           /\ \A u \in Others(t) : ~req'[u].alone
           /\ \A u \in Threads \ {t} :
                 /\ req'[u].step = req[u].step /\ req'[u].kind = req[u].kind
                 /\ req'[u].zone = req[u].zone /\ req'[u].seen = req[u].seen
                 /\ req'[u].lost = req[u].lost
                 /\ req'[u].alone => req[u].alone
    <1> DEFINE alone == Quiet(t) /\ saved # NoZone
               first == [new EXCEPT !.id = started + 1, !.alone = alone]
               other(u) == [req[u] EXCEPT !.alone = FALSE]
    <1>1. started + 1 \in 0 .. MaxRequests
        BY ZoneAssumption DEF TypeOK, Begin
    <1>2. alone \in BOOLEAN
        BY Zenon DEF Quiet
    <1>3. req' = [u \in Threads |-> IF u = t THEN first
                      ELSE IF u \in Others(t) THEN other(u) ELSE req[u]]
        BY DEF Begin
    <1>4. t \notin Others(t) /\ Others(t) \subseteq Threads
        BY DEF Others
    <1>5. alone = (Quiet(t) /\ saved # NoZone)
        OBVIOUS
    <1> HIDE DEF alone
    <1>6. /\ first \in Requests /\ first.step = new.step /\ first.kind = new.kind
          /\ first.zone = new.zone /\ first.seen = new.seen /\ first.alone = alone
        BY <1>1, <1>2 DEF Requests
    <1>7. \A u \in Threads : /\ other(u) \in Requests
                             /\ other(u).step = req[u].step
                             /\ other(u).kind = req[u].kind
                             /\ other(u).zone = req[u].zone
                             /\ other(u).seen = req[u].seen
                             /\ other(u).lost = req[u].lost
                             /\ other(u).alone = FALSE
        BY DEF TypeOK, Requests
    <1> HIDE DEF first, other
    <1>8. req' \in [Threads -> Requests]
        BY <1>3, <1>6, <1>7 DEF TypeOK
    <1>9. req'[t] = first
        BY <1>3
    <1>10. \A u \in Others(t) : req'[u] = other(u)
        BY <1>3, <1>4
    <1>11. \A u \in Threads \ {t} : req'[u] = other(u) \/ req'[u] = req[u]
        BY <1>3
    <1>12. req'[t].alone = (Quiet(t) /\ saved # NoZone)
        BY <1>5, <1>6, <1>9, Zenon
    <1>13. \A u \in Others(t) : ~req'[u].alone
        BY <1>4, <1>7, <1>10
    <1>14. QED
        BY <1>6, <1>7, <1>8, <1>9, <1>11, <1>12, <1>13

LEMMA ArriveEffect ==
    ASSUME TypeOK, NEW t \in Threads, Arrive(t)
    PROVE  \E new \in Requests :
              /\ Begin(t, new)
              /\ new.step \in {"look", "prefs"} /\ new.seen = << >>
              /\ new.step = "prefs" /\ new.kind = "timezone" => new.zone \in Zones
    <1>1. Idle \in Requests
        BY ZoneAssumption DEF Idle, Requests, Kinds, MaybeZone
    <1>2. Idle.seen = << >>
        BY DEF Idle
    <1>3. ASSUME NEW z \in Zones
          PROVE  LET new == [Idle EXCEPT !.step = "prefs", !.kind = "timezone", !.zone = z]
                 IN  new \in Requests /\ new.step = "prefs" /\ new.zone = z /\ new.seen = << >>
        BY <1>1, <1>2 DEF Requests, Kinds, MaybeZone
    <1>4. LET new == [Idle EXCEPT !.step = "look"]
          IN  new \in Requests /\ new.step = "look" /\ new.seen = << >>
        BY <1>1, <1>2 DEF Requests
    <1>5. LET new == [Idle EXCEPT !.step = "prefs", !.kind = "settings"]
          IN  /\ new \in Requests /\ new.step = "prefs" /\ new.kind = "settings"
              /\ new.seen = << >>
        BY <1>1, <1>2 DEF Requests, Kinds
    <1>6. CASE MarkDay(t)
        BY <1>4, <1>6 DEF MarkDay
    <1>7. CASE OpenSettings(t)
        BY <1>5, <1>7 DEF OpenSettings
    <1>8. ASSUME NEW z \in Zones, SaveZone(t, z)
          PROVE  \E new \in Requests :
                    /\ Begin(t, new)
                    /\ new.step \in {"look", "prefs"} /\ new.seen = << >>
                    /\ new.step = "prefs" /\ new.kind = "timezone" => new.zone \in Zones
        BY <1>3, <1>8 DEF SaveZone
    <1>9. QED
        BY <1>6, <1>7, <1>8 DEF Arrive

(* The types and the zones held; every step keeps both.                    *)
LEMMA TypeStep == TypeInv /\ [Next]_vars => TypeInv'
    <1> SUFFICES ASSUME TypeInv, [Next]_vars PROVE TypeInv'
        OBVIOUS
    <1> USE ZoneAssumption
    <1>0. TypeOK /\ HoldsZone /\ \A t \in Threads : req[t] \in Requests
        BY DEF TypeInv, TypeOK
    <1>5. Idle \in Requests /\ Idle.step = "idle"
        BY DEF Idle, Requests, Kinds, MaybeZone
    <1>2. ASSUME NEW t \in Threads, Arrive(t) PROVE TypeInv'
        <2>1. PICK new \in Requests :
                  /\ Begin(t, new)
                  /\ new.step \in {"look", "prefs"} /\ new.seen = << >>
                  /\ new.step = "prefs" /\ new.kind = "timezone" => new.zone \in Zones
            BY <1>0, <1>2, ArriveEffect
        <2>2. /\ started' \in 0 .. MaxRequests
              /\ UNCHANGED <<saved, cached, log, answered, everSaved, current>>
            BY <1>0, <2>1 DEF Begin, TypeOK
        <2>3. /\ req' \in [Threads -> Requests]
              /\ req'[t].step = new.step /\ req'[t].kind = new.kind /\ req'[t].zone = new.zone
              /\ \A u \in Threads \ {t} : /\ req'[u].step = req[u].step
                                          /\ req'[u].kind = req[u].kind
                                          /\ req'[u].zone = req[u].zone
            BY <1>0, <2>1, BeginEffect
        <2>4. TypeOK'
            BY <1>0, <2>2, <2>3 DEF TypeOK
        <2>5. HoldsZone'
            BY <1>0, <2>1, <2>3 DEF HoldsZone
        <2>6. QED
            BY <2>4, <2>5 DEF TypeInv
    <1>3. ASSUME NEW t \in Threads, NEW z \in Zones, NEW lost \in BOOLEAN,
                 Answer(t, z, lost)
          PROVE  req' \in [Threads -> Requests] /\ HoldsZone'
        <2>1. /\ req' \in [Threads -> Requests]
              /\ \A u \in Threads \ {t} : req'[u] = req[u]
              /\ req'[t].step \in {"look", "commit"}
            BY <1>0, <1>3, AnswerEffect
        <2>2. QED
            BY <1>0, <2>1 DEF HoldsZone
    <1>4. ASSUME NEW t \in Threads, NEW new \in Requests,
                 req' = [req EXCEPT ![t] = new],
                 new.step = "keep" => new.zone \in Zones, new.step # "prefs"
          PROVE  req' \in [Threads -> Requests] /\ HoldsZone'
        BY <1>0, <1>4 DEF TypeOK, HoldsZone
    <1>6. ASSUME NEW t \in Threads, Step(t) PROVE TypeInv'
        <2>1. CASE UseCached(t)
            <3>1. cached[ProcessOf[t]] \in Zones
                BY <1>0, <2>1 DEF UseCached, TypeOK, MaybeZone
            <3>2. QED
                BY <1>0, <2>1, <3>1, <1>3 DEF UseCached, OnlyReq, TypeOK, TypeInv
        <2>2. CASE NothingCached(t)
            <3>1. [req[t] EXCEPT !.step = "read"] \in Requests
                  /\ [req[t] EXCEPT !.step = "read"].step = "read"
                BY <1>0 DEF Requests
            <3>2. QED
                BY <1>0, <2>2, <3>1, <1>4 DEF NothingCached, OnlyReq, TypeOK, TypeInv
        <2>3. CASE ReadSaved(t)
            <3> DEFINE new == [req[t] EXCEPT !.zone = saved, !.step = "keep"]
            <3>1. new \in Requests /\ new.step = "keep" /\ new.zone \in Zones
                BY <1>0, <2>3 DEF ReadSaved, Requests, TypeOK, MaybeZone
            <3>2. req' = [req EXCEPT ![t] = new]
                BY <2>3 DEF ReadSaved
            <3> HIDE DEF new
            <3>3. QED
                BY <1>0, <2>3, <3>1, <3>2, <1>4 DEF ReadSaved, OnlyReq, TypeOK, TypeInv
        <2>4. CASE FallBack(t)
            BY <1>0, <2>4, <1>3 DEF FallBack, OnlyReq, TypeOK, TypeInv
        <2>5. CASE ReadFails(t)
            BY <1>0, <2>5, <1>3 DEF ReadFails, OnlyReq, TypeOK, TypeInv
        <2>6. CASE Keep(t)
            <3>1. req[t].zone \in Zones
                BY <1>0, <2>6 DEF Keep, HoldsZone
            <3>2. req' \in [Threads -> Requests] /\ HoldsZone'
                BY <2>6, <3>1, <1>3 DEF Keep
            <3>3. cached' \in [Processes -> MaybeZone]
                BY <1>0, <2>6, <3>1 DEF Keep, TypeOK, MaybeZone
            <3>4. QED
                BY <1>0, <2>6, <3>2, <3>3 DEF Keep, TypeOK, TypeInv
        <2>7. CASE CommitMark(t)
            <3>1. req[t].id \in 0 .. MaxRequests
                BY <1>0 DEF Requests
            <3>2. QED
                BY <1>0, <1>4, <1>5, <2>7, <3>1 DEF CommitMark, TypeOK, TypeInv
        <2>8. CASE ShowSettings(t)
            BY <1>0, <1>4, <1>5, <2>8 DEF ShowSettings, OnlyReq, TypeOK, TypeInv
        <2>9. ASSUME NEW z \in Zones, NEW step \in {"look", "forget"}, WriteRow(t, z, step)
              PROVE  TypeInv'
            <3> DEFINE new == [req[t] EXCEPT !.step = step, !.zone = NoZone]
            <3>1. new \in Requests /\ new.step = step
                BY <1>0 DEF Requests, MaybeZone
            <3>2. req' = [req EXCEPT ![t] = new]
                BY <2>9 DEF WriteRow
            <3> HIDE DEF new
            <3>3. req' \in [Threads -> Requests] /\ HoldsZone'
                BY <3>1, <3>2, <1>4
            <3>4. QED
                BY <1>0, <2>9, <3>3 DEF WriteRow, TypeOK, TypeInv, MaybeZone
        <2>10. CASE EnsurePrefs(t)
            <3>1. (IF saved = NoZone THEN DefaultZone ELSE saved) \in Zones
                BY <1>0 DEF TypeOK, MaybeZone
            <3>2. QED
                BY <2>10, <3>1, <2>9 DEF EnsurePrefs
        <2>11. CASE CommitZone(t)
            <3>1. req[t].zone \in Zones
                BY <1>0, <2>11 DEF CommitZone, HoldsZone
            <3>2. QED
                BY <2>11, <3>1, <2>9 DEF CommitZone
        <2>12. CASE ForgetZone(t)
            BY <1>0, <1>4, <1>5, <2>12 DEF ForgetZone, TypeOK, TypeInv, MaybeZone
        <2>13. QED
            BY <1>6, <2>1, <2>2, <2>3, <2>4, <2>5, <2>6, <2>7, <2>8, <2>10, <2>11, <2>12 DEF Step
    <1>7. ASSUME NEW t \in Threads, Fail(t) PROVE TypeInv'
        BY <1>0, <1>4, <1>5, <1>7 DEF Fail, OnlyReq, TypeOK, TypeInv
    <1>8. ASSUME NEW p \in Processes, Restart(p) PROVE TypeInv'
        BY <1>0, <1>5, <1>8 DEF Restart, TypeOK, TypeInv, HoldsZone, MaybeZone
    <1>9. CASE UNCHANGED vars
        BY <1>0, <1>9 DEF vars, TypeOK, TypeInv, HoldsZone
    <1>10. QED
        BY <1>2, <1>6, <1>7, <1>8, <1>9 DEF Next

(* Type correctness of the whole component.                                *)
THEOREM ZoneTypeCorrect == Spec => []TypeOK
    <1>1. Init => TypeInv
        BY ZoneAssumption DEF Init, TypeInv, TypeOK, HoldsZone, Idle, Requests, Kinds, MaybeZone
    <1>2. TypeInv => TypeOK
        BY DEF TypeInv
    <1>3. QED
        BY <1>1, <1>2, TypeStep, PTL DEF Spec

(* What a step that only moves requests must not do to the saved zones:    *)
(* bring a thread to the cache with a zone it did not read from the row.   *)
LEMMA OnlyReqKeepsSaved ==
    ASSUME TypeInv, SavedInv, UNCHANGED <<saved, cached, everSaved, current>>,
           \A u \in Threads : req'[u].step = "keep" =>
               \/ req[u].step = "keep" /\ req'[u].zone = req[u].zone
               \/ saved # NoZone /\ req'[u].zone = saved
    PROVE  SavedInv'
    BY DEF SavedInv, HeldWasSaved, FallbackNeverKept, HeldIsCurrent, SavedZoneApplies

(* Every step keeps SavedInv: a zone reaches a cache only from the row,    *)
(* and an up to date process gets the row's current one.                   *)
LEMMA SavedStep == TypeInv /\ SavedInv /\ [Next]_vars => SavedInv'
    <1> SUFFICES ASSUME TypeInv, SavedInv, [Next]_vars PROVE SavedInv'
        OBVIOUS
    <1> USE ZoneAssumption
    <1>0. TypeOK /\ HoldsZone /\ \A t \in Threads : req[t] \in Requests
        BY DEF TypeInv, TypeOK
    <1>1. Idle.step = "idle"
        BY DEF Idle
    <1>3. ASSUME NEW t \in Threads, Arrive(t) PROVE SavedInv'
        <2>1. PICK new \in Requests : Begin(t, new) /\ new.step \in {"look", "prefs"}
            BY <1>0, <1>3, ArriveEffect
        <2>2. \A u \in Threads : req'[u].step = "keep" =>
                  req[u].step = "keep" /\ req'[u].zone = req[u].zone
            BY <1>0, <2>1, BeginEffect
        <2>3. QED
            BY <2>1, <2>2, OnlyReqKeepsSaved DEF Begin
    <1>4. ASSUME NEW t \in Threads, NEW z \in Zones, NEW lost \in BOOLEAN, Answer(t, z, lost)
          PROVE  \A u \in Threads : req'[u].step = "keep" => u # t /\ req'[u] = req[u]
        BY <1>0, <1>4, AnswerEffect
    <1>5. ASSUME NEW t \in Threads, NEW new, new.step # "keep",
                 req' = [req EXCEPT ![t] = new]
          PROVE  \A u \in Threads : req'[u].step = "keep" => u # t /\ req'[u] = req[u]
        BY <1>0, <1>5 DEF TypeOK
    <1>6. ASSUME NEW t \in Threads, Step(t) PROVE SavedInv'
        <2>1. CASE UseCached(t)
            <3>1. cached[ProcessOf[t]] \in Zones
                BY <1>0, <2>1 DEF UseCached, TypeOK, MaybeZone
            <3>2. QED
                BY <2>1, <3>1, <1>4, OnlyReqKeepsSaved DEF UseCached, OnlyReq
        <2>2. CASE NothingCached(t)
            <3>1. \A u \in Threads : u # t => req'[u] = req[u]
                BY <1>0, <2>2 DEF NothingCached, TypeOK
            <3>2. req'[t].step = "read"
                BY <1>0, <2>2 DEF NothingCached, TypeOK, Requests
            <3>3. QED
                BY <2>2, <3>1, <3>2, OnlyReqKeepsSaved DEF NothingCached, OnlyReq
        <2>3. CASE ReadSaved(t)
            <3>1. \A u \in Threads : u # t => req'[u] = req[u]
                BY <1>0, <2>3 DEF ReadSaved, TypeOK
            <3>2. saved # NoZone /\ req'[t].zone = saved
                BY <1>0, <2>3 DEF ReadSaved, TypeOK, Requests
            <3>3. QED
                BY <2>3, <3>1, <3>2, OnlyReqKeepsSaved DEF ReadSaved, OnlyReq
        <2>4. CASE FallBack(t)
            BY <2>4, <1>4, OnlyReqKeepsSaved DEF FallBack, OnlyReq
        <2>5. CASE ReadFails(t)
            BY <2>5, <1>4, OnlyReqKeepsSaved DEF ReadFails, OnlyReq
        <2>6. CASE Keep(t)
            <3>1. req[t].zone \in Zones
                BY <1>0, <2>6 DEF Keep, HoldsZone
            <3>2. \A u \in Threads : req'[u].step = "keep" => u # t /\ req'[u] = req[u]
                BY <2>6, <3>1, <1>4 DEF Keep
            <3>3. \A p \in Processes : cached'[p] = IF p = ProcessOf[t] THEN req[t].zone ELSE cached[p]
                BY <1>0, <2>6 DEF Keep, TypeOK
            <3>4. req[t].zone \in everSaved
                  /\ (ProcessOf[t] \in current => req[t].zone = saved)
                BY <2>6 DEF Keep, SavedInv, HeldWasSaved, HeldIsCurrent
            <3>5. QED
                BY <1>0, <2>6, <3>2, <3>3, <3>4
                DEF Keep, TypeOK, SavedInv, HeldWasSaved, FallbackNeverKept, HeldIsCurrent, SavedZoneApplies
        <2>7. CASE CommitMark(t)
            BY <1>1, <2>7, <1>5, OnlyReqKeepsSaved DEF CommitMark
        <2>8. CASE ShowSettings(t)
            BY <1>1, <2>8, <1>5, OnlyReqKeepsSaved DEF ShowSettings, OnlyReq
        <2>9. ASSUME NEW z \in Zones, NEW step \in {"look", "forget"}, WriteRow(t, z, step)
              PROVE  SavedInv'
            <3> DEFINE new == [req[t] EXCEPT !.step = step, !.zone = NoZone]
            <3>1. new.step # "keep" /\ req' = [req EXCEPT ![t] = new]
                BY <1>0, <2>9 DEF WriteRow, Requests
            <3> HIDE DEF new
            <3>2. \A u \in Threads : req'[u].step = "keep" => u # t /\ req'[u] = req[u]
                BY <3>1, <1>5
            <3>3. saved' = z /\ everSaved' = everSaved \cup {z} /\ cached' = cached
                BY <2>9 DEF WriteRow
            <3>4. HeldWasSaved' /\ FallbackNeverKept'
                BY <3>2, <3>3 DEF SavedInv, HeldWasSaved, FallbackNeverKept
            <3>5. HeldIsCurrent' /\ SavedZoneApplies'
                BY <1>0, <2>9, <3>2 DEF WriteRow, TypeOK, SavedInv, HeldIsCurrent, SavedZoneApplies
            <3>6. QED
                BY <3>4, <3>5 DEF SavedInv
        <2>10. CASE EnsurePrefs(t)
            <3>1. (IF saved = NoZone THEN DefaultZone ELSE saved) \in Zones
                BY <1>0 DEF TypeOK, MaybeZone
            <3>2. QED
                BY <2>10, <3>1, <2>9 DEF EnsurePrefs
        <2>11. CASE CommitZone(t)
            <3>1. req[t].zone \in Zones
                BY <1>0, <2>11 DEF CommitZone, HoldsZone
            <3>2. QED
                BY <2>11, <3>1, <2>9 DEF CommitZone
        <2>12. CASE ForgetZone(t)
            <3>1. \A u \in Threads : req'[u].step = "keep" => u # t /\ req'[u] = req[u]
                BY <1>1, <2>12, <1>5 DEF ForgetZone
            <3>2. \A p \in Processes : cached'[p] = IF p = ProcessOf[t] THEN NoZone ELSE cached[p]
                BY <1>0, <2>12 DEF ForgetZone, TypeOK
            <3>3. \A u \in Threads \ {t} : Quiet(t) /\ ProcessOf[u] = ProcessOf[t] => req[u].step = "idle"
                BY DEF Quiet, Others
            <3>4. QED
                BY <1>0, <2>12, <3>1, <3>2, <3>3
                DEF ForgetZone, TypeOK, SavedInv, HeldWasSaved, FallbackNeverKept, HeldIsCurrent, SavedZoneApplies
        <2>13. QED
            BY <1>6, <2>1, <2>2, <2>3, <2>4, <2>5, <2>6, <2>7, <2>8, <2>10, <2>11, <2>12 DEF Step
    <1>7. ASSUME NEW t \in Threads, Fail(t) PROVE SavedInv'
        BY <1>1, <1>5, <1>7, OnlyReqKeepsSaved DEF Fail, OnlyReq
    <1>8. ASSUME NEW p \in Processes, Restart(p) PROVE SavedInv'
        <2>1. \A u \in Threads : req'[u].step = "keep" => ProcessOf[u] # p /\ req'[u] = req[u]
            BY <1>1, <1>8 DEF Restart
        <2>2. \A q \in Processes : cached'[q] = IF q = p THEN NoZone ELSE cached[q]
            BY <1>0, <1>8 DEF Restart, TypeOK
        <2>3. QED
            BY <1>0, <1>8, <2>1, <2>2
            DEF Restart, TypeOK, SavedInv, HeldWasSaved, FallbackNeverKept, HeldIsCurrent, SavedZoneApplies
    <1>9. CASE UNCHANGED vars
        BY <1>9, OnlyReqKeepsSaved DEF vars
    <1>10. QED
        BY <1>3, <1>6, <1>7, <1>8, <1>9 DEF Next

LEMMA ZoneInit == Init => TypeInv /\ SavedInv
    BY ZoneAssumption
    DEF Init, TypeInv, TypeOK, HoldsZone, Idle, Requests, Kinds, MaybeZone, SavedInv,
        HeldWasSaved, FallbackNeverKept, HeldIsCurrent, SavedZoneApplies

(* No process ever keeps a zone the settings row did not hold, not even    *)
(* after a failed read (clock.py 43-46).                                   *)
THEOREM ZoneFallbackNeverKept == Spec => []FallbackNeverKept
    <1>1. SavedInv => FallbackNeverKept
        BY DEF SavedInv
    <1>2. QED
        BY <1>1, ZoneInit, TypeStep, SavedStep, PTL DEF Spec

(* A process that restarted, or dropped its cache with no other request    *)
(* under way, keeps the saved zone or none, until the row changes again.   *)
THEOREM ZoneSavedApplies == Spec => []SavedZoneApplies
    <1>1. SavedInv => SavedZoneApplies
        BY DEF SavedInv
    <1>2. QED
        BY <1>1, ZoneInit, TypeStep, SavedStep, PTL DEF Spec

(* A request that is alone is not disturbed by the others: whoever moves   *)
(* is of another process, whose cache is another variable.                 *)
LEMMA AloneUndisturbed ==
    ASSUME TypeInv, AloneStands, NEW t \in Threads, req[t].step # "idle",
           saved # NoZone => saved' # NoZone,
           \A u \in Threads \ {t} : req'[u] = req[u],
           \A p \in Processes \ {ProcessOf[t]} : cached'[p] = cached[p],
           req'[t].alone => req[t].alone,
           req'[t].alone /\ ~req'[t].lost => OneZoneSoFar(t)'
    PROVE  AloneStands'
    <1>1. ASSUME NEW u \in Threads, req'[u].alone
          PROVE  /\ Quiet(u)'
                 /\ saved' # NoZone
                 /\ ~req'[u].lost => OneZoneSoFar(u)'
        <2>1. req[u].alone
            BY <1>1
        <2>2. Quiet(u) /\ saved # NoZone /\ (~req[u].lost => OneZoneSoFar(u))
            BY <2>1 DEF AloneStands
        <2>3. u # t => ProcessOf[u] # ProcessOf[t]
            BY <2>2 DEF Quiet, Others
        <2>4. Quiet(u)'
            BY <2>2, <2>3 DEF Quiet, Others
        <2>5. CASE u = t
            BY <1>1, <2>2, <2>4, <2>5
        <2>6. CASE u # t
            <3>1. req'[u] = req[u] /\ cached'[ProcessOf[u]] = cached[ProcessOf[u]]
                BY <2>3, <2>6, ZoneAssumption
            <3>2. QED
                BY <2>2, <2>4, <3>1 DEF OneZoneSoFar
        <2>7. QED
            BY <2>5, <2>6
    <1>2. QED
        BY <1>1 DEF AloneStands

(* One more call of zone_name, answered with z: the first of the request,  *)
(* or one that agrees with it.                                             *)
LEMMA AnswerKeepsAlone ==
    ASSUME TypeInv, AloneStands, NEW t \in Threads, NEW z \in Zones, NEW lost \in BOOLEAN,
           Answer(t, z, lost), req[t].step # "idle", UNCHANGED saved,
           \A p \in Processes \ {ProcessOf[t]} : cached'[p] = cached[p],
           req[t].alone /\ ~lost => cached'[ProcessOf[t]] = z,
           req[t].alone /\ ~lost /\ Len(req[t].seen) # 0 =>
               \/ req[t].step = "look" /\ cached[ProcessOf[t]] = z
               \/ req[t].step \in {"read", "keep"}
    PROVE  AloneStands'
    <1>1. TypeOK /\ req[t] \in Requests
        BY DEF TypeInv, TypeOK
    <1>2. /\ \A u \in Threads \ {t} : req'[u] = req[u]
          /\ req'[t].alone = req[t].alone
          /\ req'[t].lost = (req[t].lost \/ lost)
          /\ Len(req'[t].seen) = Len(req[t].seen) + 1
          /\ req'[t].seen[Len(req[t].seen) + 1] = z
          /\ \A i \in 1 .. Len(req[t].seen) : req'[t].seen[i] = req[t].seen[i]
          /\ req'[t].step = IF req[t].kind = "mark" /\ Len(req[t].seen) = 0
                            THEN "look" ELSE "commit"
        BY <1>1, AnswerEffect
    <1>3. ASSUME req[t].alone, ~req[t].lost, ~lost PROVE OneZoneSoFar(t)'
        <2>1. OneZoneSoFar(t)
            BY <1>3 DEF AloneStands
        <2>2. CASE Len(req[t].seen) = 0
            BY <1>2, <1>3, <2>2 DEF OneZoneSoFar
        <2>3. CASE Len(req[t].seen) # 0
            <3>1. /\ Len(req[t].seen) = 1 /\ req[t].step = "look"
                  /\ cached[ProcessOf[t]] = z /\ req[t].seen[1] = z
                BY <1>3, <2>1, <2>3 DEF OneZoneSoFar
            <3>2. /\ Len(req'[t].seen) = 2 /\ req'[t].step = "commit"
                  /\ req'[t].seen[1] = z /\ req'[t].seen[2] = z
                BY <1>2, <3>1
            <3>3. QED
                BY <3>2 DEF OneZoneSoFar
        <2>4. QED
            BY <2>2, <2>3
    <1>4. req'[t].alone /\ ~req'[t].lost => OneZoneSoFar(t)'
        BY <1>2, <1>3
    <1>5. QED
        BY <1>2, <1>4, AloneUndisturbed

(* Every step keeps AloneStands.                                           *)
LEMMA AloneStep == TypeInv /\ AloneStands /\ [Next]_vars => AloneStands'
    <1> SUFFICES ASSUME TypeInv, AloneStands, [Next]_vars PROVE AloneStands'
        OBVIOUS
    <1> USE ZoneAssumption
    <1>0. TypeOK /\ HoldsZone /\ \A t \in Threads : req[t] \in Requests
        BY DEF TypeInv, TypeOK
    <1>1. ~Idle.alone /\ Idle.step = "idle"
        BY DEF Idle
    <1>2. ASSUME NEW t \in Threads, Arrive(t) PROVE AloneStands'
        <2>1. PICK new \in Requests :
                  Begin(t, new) /\ new.step \in {"look", "prefs"} /\ new.seen = << >>
            BY <1>0, <1>2, ArriveEffect
        <2>2. saved' = saved /\ cached' = cached /\ req[t].step = "idle"
            BY <2>1 DEF Begin
        <2>3. /\ req'[t].alone = (Quiet(t) /\ saved # NoZone)
              /\ req'[t].seen = << >>
              /\ \A u \in Others(t) : ~req'[u].alone
              /\ \A u \in Threads \ {t} :
                    /\ req'[u].step = req[u].step /\ req'[u].seen = req[u].seen
                    /\ req'[u].lost = req[u].lost
                    /\ req'[u].alone => req[u].alone
            BY <1>0, <2>1, BeginEffect
        <2>4. ASSUME NEW u \in Threads, req'[u].alone
              PROVE  Quiet(u)' /\ saved' # NoZone /\ (~req'[u].lost => OneZoneSoFar(u)')
            <3>1. CASE u = t
                <4>1. Quiet(u) /\ saved # NoZone
                    BY <2>3, <2>4, <3>1, Zenon
                <4>2. Quiet(u)'
                    BY <2>3, <3>1, <4>1 DEF Quiet, Others
                <4>3. OneZoneSoFar(u)'
                    BY <2>3, <3>1 DEF OneZoneSoFar
                <4>4. QED
                    BY <2>2, <4>1, <4>2, <4>3
            <3>2. CASE u # t
                <4>1. Quiet(u) /\ saved # NoZone /\ (~req[u].lost => OneZoneSoFar(u))
                    BY <2>3, <2>4, <3>2 DEF AloneStands
                <4>2. u \notin Others(t) /\ t \notin Others(u)
                    BY <2>3, <2>4, <3>2 DEF Others
                <4>3. Quiet(u)'
                    BY <2>3, <4>1, <4>2 DEF Quiet, Others
                <4>4. ~req'[u].lost => OneZoneSoFar(u)'
                    BY <2>2, <2>3, <3>2, <4>1 DEF OneZoneSoFar
                <4>5. QED
                    BY <2>2, <4>1, <4>3, <4>4
            <3>3. QED
                BY <3>1, <3>2
        <2>5. QED
            BY <2>4 DEF AloneStands
    <1>3. ASSUME NEW t \in Threads, req[t].step # "idle",
                 req' = [req EXCEPT ![t] = Idle], UNCHANGED saved,
                 \A p \in Processes \ {ProcessOf[t]} : cached'[p] = cached[p]
          PROVE  AloneStands'
        <2>1. (\A u \in Threads \ {t} : req'[u] = req[u]) /\ req'[t] = Idle
            BY <1>0, <1>3 DEF TypeOK
        <2>2. ~req'[t].alone
            BY <1>1, <2>1
        <2>3. QED
            BY <1>3, <2>1, <2>2, AloneUndisturbed
    <1>4. ASSUME NEW t \in Threads, NEW new \in Requests, req[t].step # "idle",
                 req' = [req EXCEPT ![t] = new], saved # NoZone => saved' # NoZone,
                 UNCHANGED cached,
                 new.alone = req[t].alone, new.lost = req[t].lost, new.seen = req[t].seen,
                 req[t].alone /\ ~req[t].lost => Len(req[t].seen) = 0
          PROVE  AloneStands'
        <2>1. (\A u \in Threads \ {t} : req'[u] = req[u]) /\ req'[t] = new
            BY <1>0, <1>4 DEF TypeOK
        <2>2. req'[t].alone /\ ~req'[t].lost => OneZoneSoFar(t)'
            BY <1>4, <2>1 DEF OneZoneSoFar
        <2>3. QED
            BY <1>4, <2>1, <2>2, AloneUndisturbed
    <1>5. ASSUME NEW t \in Threads, Step(t) PROVE AloneStands'
        <2>0. req[t].alone /\ ~req[t].lost => OneZoneSoFar(t)
            BY DEF AloneStands
        <2>1. CASE UseCached(t)
            <3>1. cached[ProcessOf[t]] \in Zones
                BY <1>0, <2>1 DEF UseCached, TypeOK, MaybeZone
            <3>2. QED
                BY <2>1, <3>1, AnswerKeepsAlone DEF UseCached, OnlyReq
        <2>2. CASE NothingCached(t)
            <3> DEFINE new == [req[t] EXCEPT !.step = "read"]
            <3>1. /\ new \in Requests /\ new.alone = req[t].alone
                  /\ new.lost = req[t].lost /\ new.seen = req[t].seen
                BY <1>0 DEF Requests
            <3>2. req' = [req EXCEPT ![t] = new]
                BY <2>2 DEF NothingCached
            <3> HIDE DEF new
            <3>3. req[t].alone /\ ~req[t].lost => Len(req[t].seen) = 0
                BY <1>0, <2>0, <2>2 DEF NothingCached, OneZoneSoFar, Requests
            <3>4. QED
                BY <2>2, <3>1, <3>2, <3>3, <1>4 DEF NothingCached, OnlyReq
        <2>3. CASE ReadSaved(t)
            <3> DEFINE new == [req[t] EXCEPT !.zone = saved, !.step = "keep"]
            <3>1. /\ new \in Requests /\ new.alone = req[t].alone
                  /\ new.lost = req[t].lost /\ new.seen = req[t].seen
                BY <1>0 DEF Requests, TypeOK
            <3>2. req' = [req EXCEPT ![t] = new]
                BY <2>3 DEF ReadSaved
            <3> HIDE DEF new
            <3>3. req[t].alone /\ ~req[t].lost => Len(req[t].seen) = 0
                BY <2>0, <2>3 DEF ReadSaved, OneZoneSoFar
            <3>4. QED
                BY <2>3, <3>1, <3>2, <3>3, <1>4 DEF ReadSaved, OnlyReq
        <2>4. CASE FallBack(t)
            <3>1. ~req[t].alone
                BY <2>4 DEF FallBack, AloneStands
            <3>2. QED
                BY <2>4, <3>1, AnswerKeepsAlone DEF FallBack, OnlyReq
        <2>5. CASE ReadFails(t)
            BY <2>5, AnswerKeepsAlone DEF ReadFails, OnlyReq
        <2>6. CASE Keep(t)
            <3>1. req[t].zone \in Zones
                BY <1>0, <2>6 DEF Keep, HoldsZone
            <3>2. \A p \in Processes : cached'[p] = IF p = ProcessOf[t] THEN req[t].zone ELSE cached[p]
                BY <1>0, <2>6 DEF Keep, TypeOK
            <3>3. QED
                BY <2>6, <3>1, <3>2, AnswerKeepsAlone DEF Keep
        <2>7. CASE CommitMark(t)
            BY <2>7, <1>3 DEF CommitMark
        <2>8. CASE ShowSettings(t)
            BY <2>8, <1>3 DEF ShowSettings, OnlyReq
        <2>9. ASSUME NEW z \in Zones, NEW step \in {"look", "forget"}, WriteRow(t, z, step),
                     req[t].step = "prefs"
              PROVE  AloneStands'
            <3> DEFINE new == [req[t] EXCEPT !.step = step, !.zone = NoZone]
            <3>1. /\ new \in Requests /\ new.alone = req[t].alone
                  /\ new.lost = req[t].lost /\ new.seen = req[t].seen
                BY <1>0 DEF Requests, MaybeZone
            <3>2. req' = [req EXCEPT ![t] = new]
                BY <2>9 DEF WriteRow
            <3> HIDE DEF new
            <3>3. req[t].alone /\ ~req[t].lost => Len(req[t].seen) = 0
                BY <2>0, <2>9 DEF OneZoneSoFar
            <3>4. saved' # NoZone /\ cached' = cached
                BY <2>9 DEF WriteRow
            <3>5. QED
                BY <2>9, <3>1, <3>2, <3>3, <3>4, <1>4
        <2>10. CASE EnsurePrefs(t)
            <3>1. (IF saved = NoZone THEN DefaultZone ELSE saved) \in Zones
                BY <1>0 DEF TypeOK, MaybeZone
            <3>2. QED
                BY <2>10, <3>1, <2>9 DEF EnsurePrefs
        <2>11. CASE CommitZone(t)
            <3>1. req[t].zone \in Zones
                BY <1>0, <2>11 DEF CommitZone, HoldsZone
            <3>2. QED
                BY <2>11, <3>1, <2>9 DEF CommitZone
        <2>12. CASE ForgetZone(t)
            <3>1. \A p \in Processes \ {ProcessOf[t]} : cached'[p] = cached[p]
                BY <1>0, <2>12 DEF ForgetZone, TypeOK
            <3>2. QED
                BY <2>12, <3>1, <1>3 DEF ForgetZone
        <2>13. QED
            BY <1>5, <2>1, <2>2, <2>3, <2>4, <2>5, <2>6, <2>7, <2>8, <2>10, <2>11, <2>12 DEF Step
    <1>6. ASSUME NEW t \in Threads, Fail(t) PROVE AloneStands'
        BY <1>6, <1>3 DEF Fail, OnlyReq
    <1>7. ASSUME NEW p \in Processes, Restart(p) PROVE AloneStands'
        <2>1. \A u \in Threads : req'[u].alone => ProcessOf[u] # p
            BY <1>1, <1>7 DEF Restart
        <2>2. \A u \in Threads : ProcessOf[u] # p =>
                  req'[u] = req[u] /\ cached'[ProcessOf[u]] = cached[ProcessOf[u]]
            BY <1>0, <1>7 DEF Restart, TypeOK
        <2>3. \A u \in Threads : Quiet(u) /\ ProcessOf[u] # p => Quiet(u)'
            BY <2>2 DEF Quiet, Others
        <2>4. \A u \in Threads : OneZoneSoFar(u) /\ ProcessOf[u] # p => OneZoneSoFar(u)'
            BY <2>2 DEF OneZoneSoFar
        <2>5. saved' = saved
            BY <1>7 DEF Restart
        <2>6. QED
            BY <2>1, <2>2, <2>3, <2>4, <2>5 DEF AloneStands
    <1>8. CASE UNCHANGED vars
        BY <1>8 DEF vars, AloneStands, OneZoneSoFar, Quiet, Others
    <1>9. QED
        BY <1>2, <1>5, <1>6, <1>7, <1>8 DEF Next

(* A request that began with a settings row, that no other request of its  *)
(* process overlaps and none of whose reads of the zone failed, sees one   *)
(* zone in all its calls of zone_name, whatever zones other processes save *)
(* while it runs.  Without any of the three TLC shows one that sees two.   *)
THEOREM ZoneAloneSeesOne == Spec => []AloneSeesOneZone
    <1>1. Init => AloneStands
        BY DEF Init, AloneStands, Idle
    <1>2. TypeInv /\ AloneStands => AloneSeesOneZone
        <2> SUFFICES ASSUME TypeInv, AloneStands, NEW t \in Threads, req[t].alone, ~req[t].lost,
                            NEW i \in DOMAIN req[t].seen, NEW j \in DOMAIN req[t].seen
                     PROVE  req[t].seen[i] = req[t].seen[j]
            BY DEF AloneSeesOneZone
        <2>1. OneZoneSoFar(t)
            BY DEF AloneStands
        <2>2. req[t].seen \in Seq(Zones)
            BY DEF TypeInv, TypeOK, Requests
        <2>3. DOMAIN req[t].seen = 1 .. Len(req[t].seen)
            BY <2>2
        <2>4. QED
            BY <2>1, <2>2, <2>3 DEF OneZoneSoFar
    <1>3. QED
        BY <1>1, <1>2, ZoneInit, TypeStep, AloneStep, PTL DEF Spec

=============================================================================
