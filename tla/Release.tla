------------------------------ MODULE Release ------------------------------
(* The release pipeline: .github/workflows/ci.yml on master, the scripts its
   jobs run (record_image_digest, sign_image, prepare_release) and the
   operator's verify_release on a snapshot that was downloaded.

   A commit is the number of its push on master, and so the name of its CI
   run.  GitHub re-runs a completed run as a new attempt: all of its jobs, the
   ones that did not succeed, or one job with the jobs that need it; a job that
   is not re-run keeps its result and its artifacts.  The operator's commands
   each read something that moves: the run, two records, the branch.

   Left out: nginx and argocd (built and signed like the two images below, but
   in no snapshot), the scans, and the chart's own files, which git serves by
   commit and which differ only if the operator edits them.                    *)
EXTENDS Integers, FiniteSets

CONSTANTS MaxCommit,       \* pushes to master
          MaxAttempt,      \* commit -> attempts of its run
          None             \* an artifact that was never uploaded

ASSUME ReleaseAssumption ==
    /\ MaxCommit \in Nat
    /\ MaxAttempt \in [1..MaxCommit -> Nat \ {0}]

VARIABLES
    master,     \* the commit refs/heads/master points to
    attempt,    \* commit -> github.run_attempt of its run, 0 before the push
    job,        \* commit -> job -> "waiting", "ok" or "failed"
    record,     \* commit -> image name -> the artifact image-digest-<name>
    signed,     \* <<commit, name, record>>: what cosign signed, in which attempt
    snapshot,   \* commit -> the artifact release-snapshot
    check,      \* verify_release: its step, its snapshot, the records it read
    accepted    \* history: the snapshots verify_release passed

vars == <<master, attempt, job, record, signed, snapshot, check, accepted>>

Commits == 1..MaxCommit
Names == {"web", "worker"}
Images == {<<"images", n>> : n \in Names}
Signs == {<<"sign", n>> : n \in Names}
Snapshot == <<"snapshot", "chart">>
Jobs == Images \cup Signs \cup {Snapshot}

(* A digest is the number of the attempt that first built it: a cached build
   may reproduce an earlier one. *)
Attempts == UNION {1..MaxAttempt[c] : c \in Commits}
Records == [image : Attempts, attempt : Attempts]
Snapshots == [commit : Commits, attempt : Attempts, images : [Names -> Attempts]]

ASSUME NoneAssumption == None \notin Snapshots

Idle == [step |-> "idle", snap |-> None, read |-> [n \in Names |-> None]]

Init ==
    /\ master = 0
    /\ attempt = [c \in Commits |-> 0]
    /\ job = [c \in Commits |-> [j \in Jobs |-> "waiting"]]
    /\ record = [c \in Commits |-> [n \in Names |-> None]]
    /\ signed = {}
    /\ snapshot = [c \in Commits |-> None]
    /\ check = Idle
    /\ accepted = {}

-----------------------------------------------------------------------------
(* The workflow. *)

Needs(j) == IF j \in Images THEN {} ELSE IF j \in Signs THEN Images ELSE Signs
Dependents(j) ==
    IF j \in Images THEN Signs \cup {Snapshot} ELSE IF j \in Signs THEN {Snapshot} ELSE {}

Ready(c, j) ==
    /\ attempt[c] > 0
    /\ job[c][j] = "waiting"
    /\ \A k \in Needs(j) : job[c][k] = "ok"

(* A job whose needs failed is skipped, so a run is over when none is ready. *)
Completed(c) == attempt[c] > 0 /\ \A j \in Jobs : ~Ready(c, j)
Success(c) == \A j \in Jobs : job[c][j] = "ok"

(* mutant of ValidRecord: a record of any attempt of the run. *)
ValidRecordOfRun(r, a) == r # None

(* validate_record: the record is of this run's current attempt. *)
ValidRecord(r, a) == r # None /\ r.attempt = a

(* cancel-in-progress: a run that starts ends the others on the branch. *)
Cancelled(c) ==
    [d \in Commits |->
        IF d = c \/ Completed(d) \/ attempt[d] = 0 THEN job[d]
        ELSE [j \in Jobs |-> IF job[d][j] = "waiting" THEN "failed" ELSE job[d][j]]]

Push ==
    /\ master < MaxCommit
    /\ master' = master + 1
    /\ attempt' = [attempt EXCEPT ![master + 1] = 1]
    /\ job' = Cancelled(master + 1)
    /\ UNCHANGED <<record, signed, snapshot, check, accepted>>

Rerun(c, again) ==
    /\ Completed(c)
    /\ attempt[c] < MaxAttempt[c]
    /\ again # {}
    /\ attempt' = [attempt EXCEPT ![c] = @ + 1]
    /\ job' = [Cancelled(c) EXCEPT ![c] =
                   [j \in Jobs |-> IF j \in again THEN "waiting" ELSE job[c][j]]]
    /\ UNCHANGED <<master, record, signed, snapshot, check, accepted>>

RerunAll(c) == Rerun(c, Jobs)
RerunFailed(c) == Rerun(c, {j \in Jobs : job[c][j] # "ok"})
RerunJob(c, j) == Rerun(c, {j} \cup Dependents(j))

Finish(c, j, result) == job' = [job EXCEPT ![c][j] = result]

(* Build, push under the commit's tag, record the digest Docker returned and
   upload the record; any step before the upload may fail. *)
BuildImage(c, n) ==
    /\ Ready(c, <<"images", n>>)
    /\ \/ /\ Finish(c, <<"images", n>>, "failed")
          /\ UNCHANGED record
       \/ \E d \in 1..attempt[c] :
            /\ record' = [record EXCEPT ![c][n] = [image |-> d, attempt |-> attempt[c]]]
            /\ Finish(c, <<"images", n>>, "ok")
    /\ UNCHANGED <<master, attempt, signed, snapshot, check, accepted>>

(* sign_image.main: cosign verify, or the upload, may fail after the signature. *)
SignImage(c, n) ==
    LET r == record[c][n] IN
    /\ Ready(c, <<"sign", n>>)
    /\ \/ /\ Finish(c, <<"sign", n>>, "failed")
          /\ UNCHANGED signed
       \/ /\ ValidRecord(r, attempt[c])
          /\ signed' = signed \cup {<<c, n, r>>}
          /\ \E result \in {"ok", "failed"} : Finish(c, <<"sign", n>>, result)
    /\ UNCHANGED <<master, attempt, record, snapshot, check, accepted>>

(* prepare_release.main, check_release_snapshot and the upload. *)
PrepareSnapshot(c) ==
    /\ Ready(c, Snapshot)
    /\ \/ /\ Finish(c, Snapshot, "failed")
          /\ UNCHANGED snapshot
       \/ /\ \A n \in Names : ValidRecord(record[c][n], attempt[c])
          /\ snapshot' = [snapshot EXCEPT ![c] =
                 [commit |-> c, attempt |-> attempt[c],
                  images |-> [n \in Names |-> record[c][n].image]]]
          /\ Finish(c, Snapshot, "ok")
    /\ UNCHANGED <<master, attempt, record, signed, check, accepted>>

-----------------------------------------------------------------------------
(* verify_release: every read is a step of its own. *)

(* A snapshot artifact, and its copies in which one image was replaced by
   another build of it. *)
CopiesOf(s) ==
    {t \in Snapshots : /\ t.commit = s.commit /\ t.attempt = s.attempt
                       /\ \E n \in Names : \A m \in Names \ {n} : t.images[m] = s.images[m]}

(* The operator holds one of them. *)
Download(c) ==
    /\ check = Idle
    /\ snapshot[c] # None
    /\ \E s \in CopiesOf(snapshot[c]) : check' = [Idle EXCEPT !.step = "run", !.snap = s]
    /\ UNCHANGED <<master, attempt, job, record, signed, snapshot, accepted>>

(* gh api repos/.../actions/runs/<run_id>. *)
ReadRun ==
    LET c == check.snap.commit IN
    /\ check.step = "run"
    /\ Success(c)
    /\ attempt[c] = check.snap.attempt
    /\ check' = [check EXCEPT !.step = "records"]
    /\ UNCHANGED <<master, attempt, job, record, signed, snapshot, accepted>>

(* gh run download: the latest record of that name, of whichever attempt. *)
ReadRecord(n) ==
    /\ check.step = "records"
    /\ check.read[n] = None
    /\ n = "worker" => check.read["web"] # None
    /\ check' = [check EXCEPT !.read[n] = record[check.snap.commit][n]]
    /\ UNCHANGED <<master, attempt, job, record, signed, snapshot, accepted>>

(* mutant of Matches: the records are validated, the files not compared. *)
MatchesRecords(s, read) == \A n \in Names : ValidRecord(read[n], s.attempt)

(* prepare_snapshot again from the records read, and the comparison. *)
Matches(s, read) ==
    \A n \in Names : ValidRecord(read[n], s.attempt) /\ read[n].image = s.images[n]

Compare ==
    /\ check.step = "records"
    /\ \A n \in Names : check.read[n] # None
    /\ Matches(check.snap, check.read)
    /\ check' = [check EXCEPT !.step = "branch"]
    /\ UNCHANGED <<master, attempt, job, record, signed, snapshot, accepted>>

(* mutant of ReadBranch: the branch is not compared with the snapshot's commit. *)
ReadBranchAny ==
    /\ check.step = "branch"
    /\ accepted' = accepted \cup {check.snap}
    /\ check' = Idle
    /\ UNCHANGED <<master, attempt, job, record, signed, snapshot>>

(* git ls-remote origin refs/heads/master. *)
ReadBranch ==
    /\ check.step = "branch"
    /\ master = check.snap.commit
    /\ accepted' = accepted \cup {check.snap}
    /\ check' = Idle
    /\ UNCHANGED <<master, attempt, job, record, signed, snapshot>>

(* Any of the checks raises, or the command fails or is interrupted. *)
Abandon ==
    /\ check # Idle
    /\ check' = Idle
    /\ UNCHANGED <<master, attempt, job, record, signed, snapshot, accepted>>

Next ==
    \/ Push
    \/ \E c \in Commits :
         \/ RerunAll(c)
         \/ RerunFailed(c)
         \/ \E j \in Jobs : RerunJob(c, j)
         \/ \E n \in Names : BuildImage(c, n) \/ SignImage(c, n)
         \/ PrepareSnapshot(c)
         \/ Download(c)
    \/ ReadRun
    \/ \E n \in Names : ReadRecord(n)
    \/ Compare
    \/ ReadBranch
    \/ Abandon

Spec == Init /\ [][Next]_vars

-----------------------------------------------------------------------------
TypeOK ==
    /\ master \in 0..MaxCommit
    /\ attempt \in [Commits -> {0} \cup Attempts]
    /\ job \in [Commits -> [Jobs -> {"waiting", "ok", "failed"}]]
    /\ record \in [Commits -> [Names -> Records \cup {None}]]
    /\ signed \subseteq Commits \X Names \X Records
    /\ snapshot \in [Commits -> Snapshots \cup {None}]
    /\ check \in [step : {"idle", "run", "records", "branch"},
                  snap : Snapshots \cup {None},
                  read : [Names -> Records \cup {None}]]
    /\ accepted \subseteq Snapshots

(* What verify_release passes was signed: each of its digests, by the very
   attempt the snapshot names, although the run, the records and the branch
   were read one after the other while attempts came and went. *)
AcceptedIsSigned ==
    \A s \in accepted : \A n \in Names :
        <<s.commit, n, [image |-> s.images[n], attempt |-> s.attempt]>> \in signed

(* A green run vouches for one attempt: both records, both signatures and the
   snapshot are of the current one.  A partial re-run that keeps an earlier
   image can therefore never become green. *)
GreenIsOneAttempt ==
    \A c \in Commits : Success(c) =>
        /\ snapshot[c] # None /\ snapshot[c].attempt = attempt[c]
        /\ \A n \in Names :
             /\ record[c][n] # None /\ record[c][n].attempt = attempt[c]
             /\ record[c][n].image = snapshot[c].images[n]
             /\ <<c, n, record[c][n]>> \in signed

(* Verified releases never go back: a snapshot that passes is at least as new
   as every one that passed before (the branch is read last). *)
NeverBackwards ==
    [][\A s \in accepted' \ accepted, t \in accepted : t.commit <= s.commit]_vars
=============================================================================
