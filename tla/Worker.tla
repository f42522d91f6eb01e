------------------------------- MODULE Worker -------------------------------
(***************************************************************************)
(* The weather cache and the audit clean-up, and who works on them:        *)
(*                                                                         *)
(*   weather_summary   app/integrations/brightsky.py 52-72, called by page *)
(*                     loads (dashboard.py 256-266) and by the worker      *)
(*   the jobs          worker/jobs.py 61-155                               *)
(*   the scheduler     worker/scheduler.py 36-99                           *)
(*                                                                         *)
(* A caller of weather_summary is a thread serving the front page or the   *)
(* job refresh-weather; both look a day up, fetch it and insert it, with   *)
(* anything in between.  The clean-up takes its cutoff, commits its DELETE *)
(* and sets its gauge, with anything in between, midnights included.       *)
(* Of a forecast only the place it is for is kept and whether summarize    *)
(* can read it; of an audit row only its day; of a cadence that it comes   *)
(* up once a day.                                                          *)
(***************************************************************************)
EXTENDS Integers, FiniteSets

CONSTANTS
    Pages,             \* the threads that serve the front page
    Places,            \* locations the settings may hold
    FirstPlaces,       \* the location a behaviour starts with, or NoRow
    LastDay,           \* bound: days pass from 1 to LastDay
    Lookahead,         \* WEATHER_LOOKAHEAD_DAYS, 7
    Retention,         \* AUDIT_RETENTION_DAYS, 180
    MaxCalls,          \* bound: pages opened
    MaxStarts,         \* bound: starts of the worker
    MaxSaves,          \* bound: locations saved
    MaxEdits,          \* bound: days with an audited change left
    NoRow

Days == 1 .. LastDay
Refresh == "refresh-weather"
Cleanup == "cleanup-audit-log"
Jobs == {Refresh, Cleanup}
Callers == Pages \cup Jobs

ASSUME WorkerAssumption ==
    /\ Pages \cap Jobs = {} /\ NoRow \notin Places \cup Days
    /\ FirstPlaces \subseteq Places \cup {NoRow}
    /\ LastDay \in Nat \ {0} /\ Lookahead \in Nat /\ Retention \in Nat \ {0}
    /\ MaxCalls \in Nat /\ MaxStarts \in Nat /\ MaxSaves \in Nat /\ MaxEdits \in Nat

VARIABLES
    place,      \* the location of the settings row, NoRow without one
    cache,      \* weather_cache: the place each cached day is for
    odd,        \* the cached days whose payload summarize raises on
    edits,      \* the days of the edit_log rows there are
    today,      \* the local day
    worker,     \* the worker process
    due,        \* the jobs it has still to run: at its start, then today
    call,       \* what each caller holds
    cleaned,    \* JOB_LAST_SUCCESS of the clean-up, as a day
    cut,        \* history: the day of the cutoff of the run that set it
    changed,    \* history: the day the location was last changed
    calls, starts, saves

stored == <<cache, odd>>
gauge == <<cleaned, cut>>
rows == <<place, stored, edits, changed>>
process == <<worker, due, starts>>
vars == <<place, cache, odd, edits, today, worker, due, call,
          cleaned, cut, changed, calls, starts, saves>>

Idle == [step |-> "idle", day |-> 1, left |-> 0, place |-> NoRow,
         odd |-> FALSE, raced |-> FALSE]

(* odd: the shape of the reply; raced: another caller was fetching its     *)
(* day.  A page is "failed" by its database, an "error" by anything else.  *)
Calls == [step : {"idle", "look", "fetch", "insert", "cutoff", "gauge",
                  "error", "failed"},
          day : 1 .. LastDay + Lookahead, left : 0 .. Lookahead,
          place : Places \cup {NoRow}, odd : BOOLEAN, raced : BOOLEAN]

TypeOK ==
    /\ place \in Places \cup {NoRow}
    /\ cache \in [1 .. LastDay + Lookahead -> Places \cup {NoRow}]
    /\ odd \subseteq 1 .. LastDay + Lookahead
    /\ edits \subseteq Days /\ today \in Days
    /\ worker \in {"down", "starting", "waiting"}
    /\ due \subseteq Jobs
    /\ call \in [Callers -> Calls]
    /\ cleaned \in Days \cup {NoRow} /\ cut \in Days \cup {NoRow} /\ changed \in Days
    /\ calls \in 0 .. MaxCalls /\ starts \in 0 .. MaxStarts /\ saves \in 0 .. MaxSaves

Init ==
    /\ place \in FirstPlaces
    /\ cache = [d \in 1 .. LastDay + Lookahead |-> NoRow]
    /\ odd = {} /\ edits = {} /\ today = 1
    /\ worker = "down" /\ due = {}
    /\ call = [c \in Callers |-> Idle]
    /\ cleaned = NoRow /\ cut = NoRow
    /\ changed = 1 /\ calls = 0 /\ starts = 0 /\ saves = 0

-----------------------------------------------------------------------------
(* weather_summary, called by c for call[c].day.                           *)
Become(c, r) == call' = [call EXCEPT ![c] = r]

Quiet == UNCHANGED <<place, edits, today, changed, process, calls, saves>>

\* mutant of Succeed: the gauge is set on every way out of run()
SucceedAlways(j, failed) ==
    /\ Become(j, Idle)
    /\ cleaned' = IF j = Cleanup THEN today ELSE cleaned
    /\ cut' = IF j = Cleanup THEN call[j].day ELSE cut

(* run: a job that returned is counted and its gauge set to the time it is *)
(* by then; one that raised is counted and raises on, into the scheduler   *)
(* or run_every_job_once.                                                  *)
Succeed(j, failed) ==
    /\ Become(j, Idle)
    /\ cleaned' = IF j = Cleanup /\ ~failed THEN today ELSE cleaned
    /\ cut' = IF j = Cleanup /\ ~failed THEN call[j].day ELSE cut

(* A summary, or None: the page is rendered, the job goes to its next day. *)
Answered(c) ==
    IF c = Refresh /\ call[c].left > 0
    THEN /\ Become(c, [Idle EXCEPT !.step = "look", !.day = call[c].day + 1,
                                   !.left = call[c].left - 1])
         /\ UNCHANGED gauge
    ELSE IF c = Refresh THEN Succeed(c, FALSE)
    ELSE Become(c, Idle) /\ UNCHANGED gauge

(* Nobody catches what weather_summary raises: the page becomes an error   *)
(* page, the job a failed one that leaves its later days alone.            *)
Raised(c) ==
    IF c = Refresh THEN Succeed(c, TRUE)
    ELSE Become(c, [call[c] EXCEPT !.step = "error"]) /\ UNCHANGED gauge

LookedUp(c) ==
    /\ call[c].step = "look"
    /\ cache[call[c].day] # NoRow \/ place = NoRow
    /\ IF call[c].day \in odd THEN Raised(c) ELSE Answered(c)
    /\ UNCHANGED stored /\ Quiet

(* Who else is between its look at c's day and its row for it.             *)
Racers(c) == {e \in Callers \ {c} : /\ call[e].step \in {"fetch", "insert"}
                                    /\ call[e].day = call[c].day}

Fetch(c) ==
    /\ place # NoRow
    /\ call' = [e \in Callers |->
         IF e = c THEN [call[c] EXCEPT !.step = "fetch", !.place = place,
                          !.raced = (Racers(c) # {})]
         ELSE IF e \in Racers(c) THEN [call[e] EXCEPT !.raced = TRUE]
         ELSE call[e]]
    /\ UNCHANGED <<stored, gauge>> /\ Quiet

\* mutant of ToFetch: the cache is not asked first
ToFetchBlind(c) ==
    /\ call[c].step = "look"
    /\ Fetch(c)

ToFetch(c) ==
    /\ call[c].step = "look" /\ cache[call[c].day] = NoRow
    /\ Fetch(c)

(* Any failure of the network means no weather.                            *)
FetchFails(c) ==
    /\ call[c].step = "fetch"
    /\ Answered(c)
    /\ UNCHANGED stored /\ Quiet

(* Anything json.load returns is a forecast here, of the expected shape or *)
(* not.  One without a single temperature has the expected shape.          *)
FetchAnswers(c) ==
    /\ call[c].step = "fetch"
    /\ \E o \in BOOLEAN : Become(c, [call[c] EXCEPT !.step = "insert", !.odd = o])
    /\ UNCHANGED <<stored, gauge>> /\ Quiet

(* The row is committed before it is summarized, outside the try.          *)
Store(c, day) ==
    /\ call[c].step = "insert" /\ cache[day] = NoRow
    /\ cache' = [cache EXCEPT ![day] = call[c].place]
    /\ odd' = IF call[c].odd THEN odd \cup {day} ELSE odd
    /\ IF call[c].odd THEN Raised(c) ELSE Answered(c)
    /\ Quiet

\* mutant of Insert: the forecast is filed under the day it arrived
InsertToday(c) == Store(c, today)

Insert(c) == Store(c, call[c].day)

(* The day was inserted since it was looked up: an IntegrityError, outside *)
(* the try.                                                                *)
InsertRefused(c) ==
    /\ call[c].step = "insert" /\ cache[call[c].day] # NoRow
    /\ Raised(c)
    /\ UNCHANGED stored /\ Quiet

(* The database fails under a page; what it had not committed is lost.     *)
PageFails(p) ==
    /\ call[p].step \in {"look", "fetch", "insert"}
    /\ Become(p, [Idle EXCEPT !.step = "failed"])
    /\ UNCHANGED <<stored, gauge>> /\ Quiet

Close(p) ==
    /\ call[p].step \in {"error", "failed"}
    /\ Become(p, Idle)
    /\ UNCHANGED <<stored, gauge>> /\ Quiet

OpenPage(p) ==
    /\ call[p].step = "idle" /\ calls < MaxCalls
    /\ calls' = calls + 1
    /\ Become(p, [Idle EXCEPT !.step = "look", !.day = today])
    /\ UNCHANGED <<rows, today, process, gauge, saves>>

-----------------------------------------------------------------------------
(* The jobs: one DELETE under a cutoff, or one weather_summary a day.      *)
Begin(j) ==
    IF j = Cleanup THEN [Idle EXCEPT !.step = "cutoff", !.day = today]
    ELSE [Idle EXCEPT !.step = "look", !.day = today, !.left = Lookahead]

(* The DELETE is under the cutoff taken at its start, however long ago.    *)
CommitCleanup ==
    /\ call[Cleanup].step = "cutoff"
    /\ edits' = {d \in edits : d >= call[Cleanup].day - Retention}
    /\ Become(Cleanup, [call[Cleanup] EXCEPT !.step = "gauge"])
    /\ UNCHANGED <<place, stored, gauge, today, changed, process, calls, saves>>

SetGauge ==
    /\ call[Cleanup].step = "gauge"
    /\ Succeed(Cleanup, FALSE)
    /\ UNCHANGED stored /\ Quiet

(* The database fails under a job: session_scope rolls back what it has    *)
(* not committed, which for refresh-weather is at most one day.  A clean-up *)
(* whose DELETE is committed may still fail, giving its connection back.   *)
JobFails(j) ==
    /\ call[j].step # "idle"
    /\ Succeed(j, TRUE)
    /\ UNCHANGED stored /\ Quiet

(* main: the cadence is read first, then every job is run once, by name.   *)
StartWorker ==
    /\ worker = "down" /\ starts < MaxStarts
    /\ starts' = starts + 1
    /\ worker' = "starting" /\ due' = Jobs
    /\ UNCHANGED <<rows, today, call, gauge, calls, saves>>

Running(j) == call[j].step # "idle"

StartupRun(j) ==
    /\ worker = "starting" /\ j \in due
    /\ \A k \in Jobs : ~Running(k)
    /\ j = Refresh => Cleanup \notin due
    /\ due' = due \ {j}
    /\ Become(j, Begin(j))
    /\ UNCHANGED <<rows, today, worker, starts, gauge, calls, saves>>

(* Today's times may be over: they are not caught up on.                   *)
StartScheduler ==
    /\ worker = "starting" /\ due = {}
    /\ \A k \in Jobs : ~Running(k)
    /\ worker' = "waiting"
    /\ due' \in SUBSET Jobs
    /\ UNCHANGED <<rows, today, starts, call, gauge, calls, saves>>

(* max_instances=1: a job still running when its time comes is left out.   *)
Fire(j) ==
    /\ worker = "waiting" /\ j \in due
    /\ due' = due \ {j}
    /\ IF Running(j) THEN UNCHANGED call ELSE Become(j, Begin(j))
    /\ UNCHANGED <<rows, today, worker, starts, gauge, calls, saves>>

(* The gauge lives in the process: the next one starts without a value.    *)
StopWorker ==
    /\ worker # "down"
    /\ worker' = "down" /\ due' = {}
    /\ call' = [c \in Callers |-> IF c \in Jobs THEN Idle ELSE call[c]]
    /\ cleaned' = NoRow /\ cut' = NoRow
    /\ UNCHANGED <<rows, today, starts, calls, saves>>

-----------------------------------------------------------------------------
(* The settings form; the cached days are left alone.                      *)
SaveWeather(p) ==
    /\ saves < MaxSaves
    /\ saves' = saves + 1
    /\ place' = p
    /\ changed' = IF p = place THEN changed ELSE today
    /\ UNCHANGED <<stored, edits, today, process, call, gauge, calls>>

(* Some request commits an audited change, dated by the beginning of its   *)
(* transaction, which spans at most one midnight.                          *)
Audit ==
    /\ Cardinality(edits) < MaxEdits
    /\ \E d \in {today - 1, today} \cap Days : edits' = edits \cup {d}
    /\ UNCHANGED <<place, stored, changed, today, process, call, gauge, calls, saves>>

(* Midnight falls anywhere, within a clean-up, too.                        *)
NextDay ==
    /\ today < LastDay
    /\ today' = today + 1
    /\ due' = IF worker = "waiting" THEN Jobs ELSE due
    /\ UNCHANGED <<rows, worker, starts, call, gauge, calls, saves>>

WeatherStep(c) ==
    \/ LookedUp(c) \/ ToFetch(c) \/ FetchFails(c) \/ FetchAnswers(c)
    \/ Insert(c) \/ InsertRefused(c)

Next ==
    \/ \E p \in Pages : OpenPage(p) \/ WeatherStep(p) \/ PageFails(p) \/ Close(p)
    \/ WeatherStep(Refresh) \/ CommitCleanup \/ SetGauge
    \/ StartWorker \/ StartScheduler \/ StopWorker
    \/ \E j \in Jobs : StartupRun(j) \/ Fire(j) \/ JobFails(j)
    \/ \E p \in Places : SaveWeather(p)
    \/ Audit \/ NextDay

Spec == Init /\ [][Next]_vars

-----------------------------------------------------------------------------
(* What the staleness alert (jobs.py 41-55) may conclude from the gauge:   *)
(* a run has succeeded in this process, and whatever failed, was written   *)
(* or passed midnight since, no audit row is older than the retention      *)
(* before the cutoff of that run.  The gauge tells when that run ended:    *)
(* it may be later than the cutoff by as long as the run took.             *)
CleanSinceSuccess ==
    cleaned # NoRow =>
        /\ cut # NoRow /\ cut <= cleaned
        /\ \A d \in edits : d >= cut - Retention

(* The cached days of the old location are not dropped by SaveWeather, but *)
(* they run out: once the window the worker warms ahead has passed, a page *)
(* shows the saved location, whatever fetch was under way.                 *)
OldPlaceFades ==
    today > changed + Lookahead /\ cache[today] # NoRow => cache[today] = place

(* While its database works a page fails on its weather in a race for the  *)
(* row of its day or on a cached reply of another shape, and never for     *)
(* anything else: a fetch of another day under way does it no harm.        *)
ErrorsExplained ==
    \A p \in Pages : call[p].step = "error" => call[p].raced \/ call[p].day \in odd

(* brightsky.py 5-6: "Any failure means no weather today, never an error   *)
(* page".  Refuted, while the database works, by a reply of another shape: *)
(* no run lists it, and TLC finds this under MCWorkerRace.cfg.             *)
NeverAnErrorPage == \A p \in Pages : call[p].step # "error"

(* The same sentence, where every reply has the shape expected: refuted by *)
(* two callers that miss one day.  See the run weather_race.               *)
NoErrorFromARace == \A p \in Pages : call[p].step = "error" => call[p].day \in odd

=============================================================================
