----------------------------- MODULE Deployment -----------------------------
(***************************************************************************)
(* How a release comes up on a cluster:                                    *)
(*                                                                         *)
(*   the database pod   bootstrap-db.sh and init-db.sh before the server   *)
(*                      (deploy/helm/eps/files, templates/postgres.yaml)   *)
(*   the schema         alembic upgrade head under the advisory lock       *)
(*                      (app/migration_lock.py, alembic/env.py)            *)
(*   the web pods       which run that first (templates/web.yaml)          *)
(*                                                                         *)
(* Anything may be killed between any two steps; the volume stays.  The    *)
(* image of a pod carries the revisions 1 .. its version, and the database *)
(* the ones up to schema.                                                  *)
(***************************************************************************)
EXTENDS Integers, Sequences, FiniteSets

CONSTANTS
    Pods,              \* the pods, or operators, that run migrations
    Versions,          \* the images there are
    Polls,             \* how often the lock is tried before the deadline
    MaxStarts,         \* bound: starts of pods
    MaxBoots,          \* bound: starts of the database pod
    Nobody

ASSUME DeploymentAssumption ==
    /\ Versions \subseteq Nat \ {0} /\ Polls \in Nat
    /\ MaxStarts \in Nat /\ MaxBoots \in Nat /\ Nobody \notin Pods

VARIABLES
    disk,       \* the volume: what the bootstrap has left on it
    boot,       \* the database pod: where its bootstrap stands, or the server
    schema,     \* the revision of the database
    applied,    \* history: the revisions run, in order
    holder,     \* the session that has the advisory lock
    pod,        \* each pod
    boots, starts

vars == <<disk, boot, schema, applied, holder, pod, boots, starts>>

Items == {"files", "version", "hba", "database", "roles", "marker"}
BootSteps == {"off", "check", "initdb", "version", "hba", "start", "createdb",
              "roles", "stop", "touch", "up"}

Off == [step |-> "off", image |-> 0, left |-> 0, from |-> 0, ok |-> FALSE]

PodSteps == {"off", "connect", "try", "read", "upgrade", "unlock", "serve"}
InSession == {"try", "read", "upgrade", "unlock"}

TypeOK ==
    /\ disk \subseteq Items /\ boot \in BootSteps
    /\ schema \in Versions \cup {0} /\ applied \in Seq(Nat)
    /\ holder \in Pods \cup {Nobody}
    /\ pod \in [Pods -> [step : PodSteps, image : Versions \cup {0}, left : 0 .. Polls,
                         from : Versions \cup {0}, ok : BOOLEAN]]
    /\ boots \in 0 .. MaxBoots /\ starts \in 0 .. MaxStarts

Init ==
    /\ disk = {} /\ boot = "off" /\ schema = 0 /\ applied = << >>
    /\ holder = Nobody /\ pod = [p \in Pods |-> Off] /\ boots = 0 /\ starts = 0

-----------------------------------------------------------------------------
(* The init container of the database pod.                                 *)
Boot ==
    /\ boot = "off" /\ boots < MaxBoots
    /\ boots' = boots + 1 /\ boot' = "check"
    /\ UNCHANGED <<disk, schema, applied, holder, pod, starts>>

DatabasePod == UNCHANGED <<schema, applied, holder, pod, boots, starts>>

\* mutant of Check: a data directory with a version in it is taken as complete
CheckVersionOnly ==
    /\ boot = "check"
    /\ boot' = IF "version" \in disk THEN "up" ELSE "initdb"
    /\ UNCHANGED disk /\ DatabasePod

(* A complete database is served; an interrupted one, or a foreign one, is *)
(* refused; only then there is something to initialise.                    *)
Check ==
    /\ boot = "check"
    /\ boot' = IF {"version", "marker"} \subseteq disk THEN "up"
               ELSE IF disk \cap {"version", "marker"} # {} THEN "off"
               ELSE "initdb"
    /\ UNCHANGED disk /\ DatabasePod

(* initdb refuses a directory that is not empty.                           *)
InitDb ==
    /\ boot = "initdb"
    /\ IF "files" \in disk THEN boot' = "off" /\ UNCHANGED disk
       ELSE boot' = "version" /\ disk' = disk \cup {"files"}
    /\ DatabasePod

(* One command after the other, set -e; the role script is a transaction.  *)
Leaves == [version |-> {"version"}, hba |-> {"hba"}, start |-> {},
           createdb |-> {"database"}, roles |-> {"roles"}, stop |-> {},
           touch |-> {"marker"}]

Then == [version |-> "hba", hba |-> "start", start |-> "createdb",
         createdb |-> "roles", roles |-> "stop", stop |-> "touch", touch |-> "up"]

BootStep ==
    /\ boot \in DOMAIN Leaves
    /\ disk' = disk \cup Leaves[boot]
    /\ boot' = Then[boot]
    /\ DatabasePod

(* A command fails, or the pod is killed.  Every session of its server     *)
(* ends with it: locks are gone, transactions rolled back.                 *)
BootDies ==
    /\ boot # "off"
    /\ boot' = "off"
    /\ holder' = Nobody
    /\ pod' = [p \in Pods |-> IF pod[p].step \in InSession THEN Off ELSE pod[p]]
    /\ UNCHANGED <<disk, schema, applied, boots, starts>>

(* "Interrupted init needs operator recovery": the volume is emptied.      *)
Recover ==
    /\ boot = "off" /\ disk # {} /\ "marker" \notin disk
    /\ disk' = {}
    /\ UNCHANGED boot /\ DatabasePod

-----------------------------------------------------------------------------
Become(p, r) == pod' = [pod EXCEPT ![p] = r]

Database == UNCHANGED <<disk, boot, boots>>

Start(p, v) ==
    /\ pod[p].step = "off" /\ starts < MaxStarts
    /\ starts' = starts + 1
    /\ Become(p, [Off EXCEPT !.step = "connect", !.image = v, !.left = Polls])
    /\ UNCHANGED <<schema, applied, holder>> /\ Database

Connect(p) ==
    /\ pod[p].step = "connect"
    /\ Become(p, IF boot = "up" THEN [pod[p] EXCEPT !.step = "try"] ELSE Off)
    /\ UNCHANGED <<schema, applied, holder, starts>> /\ Database

\* mutant of Poll: the deadline is never looked at
PollForever(p) ==
    /\ pod[p].step = "try"
    /\ IF holder = Nobody
       THEN holder' = p /\ Become(p, [pod[p] EXCEPT !.step = "read"])
       ELSE UNCHANGED <<holder, pod>>
    /\ UNCHANGED <<schema, applied, starts>> /\ Database

\* mutant of Poll: the answer of pg_try_advisory_lock is not looked at
PollBlind(p) ==
    /\ pod[p].step = "try"
    /\ holder' = IF holder = Nobody THEN p ELSE holder
    /\ Become(p, [pod[p] EXCEPT !.step = "read"])
    /\ UNCHANGED <<schema, applied, starts>> /\ Database

(* One pg_try_advisory_lock; the deadline is looked at after it failed.    *)
Poll(p) ==
    /\ pod[p].step = "try"
    /\ IF holder = Nobody
       THEN holder' = p /\ Become(p, [pod[p] EXCEPT !.step = "read"])
       ELSE /\ UNCHANGED holder
            /\ Become(p, IF pod[p].left = 0 THEN Off ELSE [pod[p] EXCEPT !.left = @ - 1])
    /\ UNCHANGED <<schema, applied, starts>> /\ Database

(* Alembic begins its transaction and reads the revision of the database;  *)
(* one that its image does not know is an error.                           *)
ReadRevision(p) ==
    /\ pod[p].step = "read"
    /\ Become(p, IF schema > pod[p].image
                 THEN [pod[p] EXCEPT !.step = "unlock"]
                 ELSE [pod[p] EXCEPT !.step = "upgrade", !.from = schema])
    /\ UNCHANGED <<schema, applied, holder, starts>> /\ Database

(* Every missing revision and the new number, in one transaction.          *)
Upgrade(p) ==
    /\ pod[p].step = "upgrade"
    /\ schema' = pod[p].image
    /\ applied' = applied \o [n \in 1 .. pod[p].image - pod[p].from |-> pod[p].from + n]
    /\ Become(p, [pod[p] EXCEPT !.step = "unlock", !.ok = TRUE])
    /\ UNCHANGED <<holder, starts>> /\ Database

(* A revision fails: it is rolled back, and the exception goes on.         *)
UpgradeFails(p) ==
    /\ pod[p].step = "upgrade"
    /\ Become(p, [pod[p] EXCEPT !.step = "unlock"])
    /\ UNCHANGED <<schema, applied, holder, starts>> /\ Database

\* mutant of Unlock: there is no finally around the migration
UnlockOnSuccess(p) ==
    /\ pod[p].step = "unlock"
    /\ holder' = IF pod[p].ok THEN Nobody ELSE holder
    /\ Become(p, IF pod[p].ok THEN [pod[p] EXCEPT !.step = "serve"] ELSE Off)
    /\ UNCHANGED <<schema, applied, starts>> /\ Database

\* mutant of Unlock: the web container is started whatever the migration did
UnlockAnyway(p) ==
    /\ pod[p].step = "unlock"
    /\ holder' = Nobody
    /\ Become(p, [pod[p] EXCEPT !.step = "serve"])
    /\ UNCHANGED <<schema, applied, starts>> /\ Database

(* finally: the lock is given back; the pod goes on, or exits.             *)
Unlock(p) ==
    /\ pod[p].step = "unlock"
    /\ holder' = Nobody
    /\ Become(p, IF pod[p].ok THEN [pod[p] EXCEPT !.step = "serve"] ELSE Off)
    /\ UNCHANGED <<schema, applied, starts>> /\ Database

(* A pod is killed, or scaled away.                                        *)
Die(p) ==
    /\ pod[p].step # "off"
    /\ Become(p, Off)
    /\ holder' = IF holder = p THEN Nobody ELSE holder
    /\ UNCHANGED <<schema, applied, starts>> /\ Database

Next ==
    \/ Boot \/ Check \/ InitDb \/ BootStep \/ BootDies \/ Recover
    \/ \E p \in Pods :
         \/ \E v \in Versions : Start(p, v)
         \/ Connect(p) \/ Poll(p) \/ ReadRevision(p)
         \/ Upgrade(p) \/ UpgradeFails(p) \/ Unlock(p) \/ Die(p)

Spec == Init /\ [][Next]_vars

(* Only the waiting pods are assumed to run: a holder may hang for ever.   *)
FairSpec == Spec /\ \A p \in Pods : WF_vars(Poll(p))

-----------------------------------------------------------------------------
(* The server only ever runs on a database with its roles and its rules:   *)
(* whenever the first start was cut off, a later one refuses the volume    *)
(* (bootstrap-db.sh 11-18).                                                *)
ServerNeedsBootstrap == boot = "up" => disk = Items

(* Whatever is killed and restarted, each revision is run once, in order;  *)
(* the lock and the transaction see to it together (env.py 63-73).         *)
EachRevisionOnce ==
    /\ Len(applied) = schema
    /\ \A n \in 1 .. Len(applied) : applied[n] = n

(* A web pod serves only on a database that has the revisions of its image *)
(* (compose.yml 28-31, templates/web.yaml 37-41).                          *)
ServesItsSchema == \A p \in Pods : pod[p].step = "serve" => schema >= pod[p].image

(* The lock is held by a session that is in the section, and by no other:  *)
(* it is never left behind and never given back by one that has not got it.*)
LockIsHeldInside ==
    \A p \in Pods : holder = p <=> pod[p].step \in {"read", "upgrade", "unlock"}

(* Nobody waits for the lock for ever, even when its holder hangs          *)
(* (migration_lock.py 19-31).                                              *)
NobodyWaitsForever == \A p \in Pods : pod[p].step = "try" ~> pod[p].step # "try"

=============================================================================
