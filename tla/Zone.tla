-------------------------------- MODULE Zone --------------------------------
(***************************************************************************)
(* Which time zone, and so which day, a request sees.  app/clock.py keeps  *)
(* the zone in a module variable, one per process, filled from the         *)
(* settings row by the first call that can read it and dropped by the      *)
(* request that saves another zone (app/routes/settings.py).               *)
(*                                                                         *)
(* Requests run on the threads of one or more processes.  A thread can be  *)
(* interrupted at a database call and between a commit and what follows    *)
(* it; the tests and assignments of the module variable run without a      *)
(* switch of threads in between.                                           *)
(***************************************************************************)
EXTENDS Integers, Sequences

CONSTANTS
    Processes,     \* web processes, one cached zone each
    Threads,       \* threads that serve requests
    ProcessOf,     \* the process of each thread
    Zones,         \* usable zone names
    EnvZone,       \* get_settings().tz, from the environment
    DefaultZone,   \* the default of the timezone column
    NoZone,        \* Python None: nothing cached, or no settings row
    MaxRequests    \* bound: requests started in a behaviour

ASSUME ZoneAssumption ==
    /\ ProcessOf \in [Threads -> Processes]
    /\ {EnvZone, DefaultZone} \subseteq Zones
    /\ NoZone \notin Zones
    /\ MaxRequests \in Nat

VARIABLES
    saved,       \* the timezone of the settings row, NoZone before there is one
    cached,      \* _zone_name of each process
    log,         \* requests whose event row is committed
    answered,    \* marks answered with their row, not with an error page
    req,         \* what each thread's request holds
    started,     \* requests started so far (bound)
    everSaved,   \* history: the zones the settings row has held
    current      \* history: processes that dropped their cache, with no call of
                 \* zone_name under way, since the row last changed

vars == <<saved, cached, log, answered, req, started, everSaved, current>>

MaybeZone == Zones \cup {NoZone}

(* mark stands for the journal's dated writes: an event row is pending     *)
(* when current_date() is called, first for the audit, then for the        *)
(* recompute.  settings is the settings page, which shows the zone; its    *)
(* forms create the row in the same way.  timezone saves a zone.           *)
Kinds == {"mark", "settings", "timezone"}

Idle == [step |-> "idle", kind |-> "mark", id |-> 0, zone |-> NoZone,
         seen |-> << >>, lost |-> FALSE, alone |-> FALSE]

Requests ==
    [ step : {"idle", "prefs", "look", "read", "keep", "commit", "forget"},
      kind : Kinds,
      id   : 0 .. MaxRequests,
      zone : MaybeZone,        \* the zone to save, or the one just read
      seen : Seq(Zones),       \* what its calls of zone_name returned
      lost : BOOLEAN,          \* its session was removed with the row pending
      alone : BOOLEAN ]        \* history: no other request of its process
                               \* overlapped it and the row existed before it

TypeOK ==
    /\ saved \in MaybeZone
    /\ cached \in [Processes -> MaybeZone]
    /\ log \subseteq 0 .. MaxRequests
    /\ answered \subseteq 0 .. MaxRequests
    /\ req \in [Threads -> Requests]
    /\ started \in 0 .. MaxRequests
    /\ everSaved \subseteq Zones
    /\ current \subseteq Processes

Init ==
    /\ saved = NoZone
    /\ cached = [p \in Processes |-> NoZone]
    /\ log = {}
    /\ answered = {}
    /\ req = [t \in Threads |-> Idle]
    /\ started = 0
    /\ everSaved = {}
    /\ current = Processes

-----------------------------------------------------------------------------
Others(t) == {u \in Threads \ {t} : ProcessOf[u] = ProcessOf[t]}

Quiet(t) == \A u \in Others(t) : req[u].step = "idle"

OnlyReq == UNCHANGED <<saved, cached, log, answered, started, everSaved, current>>

Begin(t, new) ==
    /\ req[t].step = "idle"
    /\ started < MaxRequests
    /\ started' = started + 1
    /\ req' = [u \in Threads |->
         IF u = t THEN [new EXCEPT !.id = started + 1,
                                   !.alone = Quiet(t) /\ saved # NoZone]
         ELSE IF u \in Others(t) THEN [req[u] EXCEPT !.alone = FALSE]
         ELSE req[u]]
    /\ UNCHANGED <<saved, cached, log, answered, everSaved, current>>

MarkDay(t)      == Begin(t, [Idle EXCEPT !.step = "look"])
OpenSettings(t) == Begin(t, [Idle EXCEPT !.step = "prefs", !.kind = "settings"])
SaveZone(t, z)  == Begin(t, [Idle EXCEPT !.step = "prefs", !.kind = "timezone", !.zone = z])

-----------------------------------------------------------------------------
(* A call of zone_name returned z: the next call, or the commit.           *)
Answer(t, z, lost) ==
    req' = [req EXCEPT
        ![t].seen = Append(@, z),
        ![t].zone = NoZone,
        ![t].lost = @ \/ lost,
        ![t].step = IF req[t].kind = "mark" /\ Len(req[t].seen) = 0 THEN "look" ELSE "commit"]

UseCached(t) ==
    /\ req[t].step = "look"
    /\ cached[ProcessOf[t]] # NoZone
    /\ Answer(t, cached[ProcessOf[t]], FALSE)
    /\ OnlyReq

NothingCached(t) ==
    /\ req[t].step = "look"
    /\ cached[ProcessOf[t]] = NoZone
    /\ req' = [req EXCEPT ![t].step = "read"]
    /\ OnlyReq

ReadSaved(t) ==
    /\ req[t].step = "read"
    /\ saved # NoZone
    /\ req' = [req EXCEPT ![t].zone = saved, ![t].step = "keep"]
    /\ OnlyReq

\* mutant of FallBack: the fallback is cached like a saved zone
FallBackKept(t) ==
    /\ req[t].step = "read"
    /\ saved = NoZone
    /\ req' = [req EXCEPT ![t].zone = EnvZone, ![t].step = "keep"]
    /\ OnlyReq

(* No row yet: the environment's zone, which is not cached.                *)
FallBack(t) ==
    /\ req[t].step = "read"
    /\ saved = NoZone
    /\ Answer(t, EnvZone, FALSE)
    /\ OnlyReq

(* The SELECT raises.  db_session.remove() closes the session, and with it *)
(* goes every row the request added and has not committed.                 *)
ReadFails(t) ==
    /\ req[t].step = "read"
    /\ Answer(t, EnvZone, TRUE)
    /\ OnlyReq

\* mutant of Keep: the zone is read per call and never kept
KeepNothing(t) ==
    /\ req[t].step = "keep"
    /\ Answer(t, req[t].zone, FALSE)
    /\ OnlyReq

Keep(t) ==
    /\ req[t].step = "keep"
    /\ cached' = [cached EXCEPT ![ProcessOf[t]] = req[t].zone]
    /\ Answer(t, req[t].zone, FALSE)
    /\ UNCHANGED <<saved, log, answered, started, everSaved, current>>

-----------------------------------------------------------------------------
(* commit() and the rendered row.  After a removed session the commit is   *)
(* that of a new, empty one, and the row is rendered all the same.         *)
CommitMark(t) ==
    /\ req[t].step = "commit" /\ req[t].kind = "mark"
    /\ log' = IF req[t].lost THEN log ELSE log \cup {req[t].id}
    /\ answered' = answered \cup {req[t].id}
    /\ req' = [req EXCEPT ![t] = Idle]
    /\ UNCHANGED <<saved, cached, started, everSaved, current>>

ShowSettings(t) ==
    /\ req[t].step = "commit" /\ req[t].kind = "settings"
    /\ req' = [req EXCEPT ![t] = Idle]
    /\ OnlyReq

(* The settings row changes for every process, cached zones do not.        *)
WriteRow(t, z, step) ==
    /\ saved' = z
    /\ everSaved' = everSaved \cup {z}
    /\ current' = IF z = saved THEN current ELSE {p \in current : cached[p] = NoZone /\
                      \A u \in Threads : ProcessOf[u] = p => req[u].step # "keep"}
    /\ req' = [req EXCEPT ![t].step = step, ![t].zone = NoZone]
    /\ UNCHANGED <<cached, log, answered, started>>

(* The page creates the row with its defaults and commits, then asks for   *)
(* the zone in use.                                                        *)
EnsurePrefs(t) ==
    /\ req[t].step = "prefs" /\ req[t].kind = "settings"
    /\ WriteRow(t, IF saved = NoZone THEN DefaultZone ELSE saved, "look")

CommitZone(t) ==
    /\ req[t].step = "prefs" /\ req[t].kind = "timezone"
    /\ WriteRow(t, req[t].zone, "forget")

\* mutant of ForgetZone: the process that saved the zone keeps its cache
ForgetNothing(t) ==
    /\ req[t].step = "forget"
    /\ current' = IF Quiet(t) THEN current \cup {ProcessOf[t]} ELSE current
    /\ req' = [req EXCEPT ![t] = Idle]
    /\ UNCHANGED <<saved, cached, log, answered, started, everSaved>>

ForgetZone(t) ==
    /\ req[t].step = "forget"
    /\ cached' = [cached EXCEPT ![ProcessOf[t]] = NoZone]
    /\ current' = IF Quiet(t) THEN current \cup {ProcessOf[t]} ELSE current
    /\ req' = [req EXCEPT ![t] = Idle]
    /\ UNCHANGED <<saved, log, answered, started, everSaved>>

(* A request fails or is killed: an error page, nothing committed by it.   *)
Fail(t) ==
    /\ req[t].step # "idle"
    /\ req' = [req EXCEPT ![t] = Idle]
    /\ OnlyReq

(* A process restarts: the module variable and every request are gone.     *)
Restart(p) ==
    /\ cached' = [cached EXCEPT ![p] = NoZone]
    /\ req' = [t \in Threads |-> IF ProcessOf[t] = p THEN Idle ELSE req[t]]
    /\ current' = current \cup {p}
    /\ UNCHANGED <<saved, log, answered, started, everSaved>>

Arrive(t) == MarkDay(t) \/ OpenSettings(t) \/ \E z \in Zones : SaveZone(t, z)

Step(t) ==
    \/ UseCached(t) \/ NothingCached(t)
    \/ ReadSaved(t) \/ FallBack(t) \/ ReadFails(t) \/ Keep(t)
    \/ CommitMark(t) \/ ShowSettings(t)
    \/ EnsurePrefs(t) \/ CommitZone(t) \/ ForgetZone(t)

Next ==
    \/ \E t \in Threads : Arrive(t) \/ Step(t) \/ Fail(t)
    \/ \E p \in Processes : Restart(p)

Spec == Init /\ [][Next]_vars

-----------------------------------------------------------------------------
(* The fallback is deliberately not cached (clock.py 43-46): whatever      *)
(* failed or raced, a process never keeps a zone the settings row did not  *)
(* hold.                                                                   *)
FallbackNeverKept ==
    \A p \in Processes : cached[p] # NoZone => cached[p] \in everSaved

(* Changing the zone takes effect on restart, or when the saving process   *)
(* drops its cache while no other request of it is running: from then on   *)
(* the process keeps the saved zone or none.                               *)
SavedZoneApplies ==
    \A p \in current : cached[p] \in {saved, NoZone}

(* Three things can show a request two zones: another request of its own   *)
(* process that overlaps it, a read of the zone that fails (clock.py 28-32)*)
(* and the lack of a settings row when it began.  Without them it sees one *)
(* (clock.py 49-54), although other processes may save zones while it runs.*)
AloneSeesOneZone ==
    \A t \in Threads : req[t].alone /\ ~req[t].lost =>
        \A i, j \in DOMAIN req[t].seen : req[t].seen[i] = req[t].seen[j]

-----------------------------------------------------------------------------
(* Two claims of the repository the code does not keep.                    *)

(* No request picks up a change of zone halfway through and files two of   *)
(* its own writes under different days (clock.py 10-12).  No run lists it, *)
(* and TLC refutes it under MCZone.cfg.                                    *)
OneZonePerRequest ==
    \A t \in Threads :
        \A i, j \in DOMAIN req[t].seen : req[t].seen[i] = req[t].seen[j]

(* Each POST records one interaction (journal.py 7): a mark answered with  *)
(* its row is in the log.  No run lists it, and TLC refutes it under       *)
(* MCZone.cfg.                                                             *)
AnsweredIsSaved == answered \subseteq log

=============================================================================
