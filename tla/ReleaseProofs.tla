---------------------------- MODULE ReleaseProofs ----------------------------
(* For any number of pushes and attempts: a snapshot that verify_release passes
   was signed, digest by digest, and releases never go back.                   *)
EXTENDS Release, TLAPS

Img(n) == <<"images", n>>
Sgn(n) == <<"sign", n>>

(* Nothing has run of a commit that was not pushed, and no record is of an
   attempt to come. *)
PushInv ==
    /\ \A c \in Commits : c > master => attempt[c] = 0
    /\ \A c \in Commits : attempt[c] = 0 => \A j \in Jobs : job[c][j] # "ok"
    /\ \A c \in Commits : \A n \in Names :
          record[c][n] # None => record[c][n].attempt <= attempt[c]
    /\ \A s \in accepted : s.commit <= master

(* A sign job that is ok vouches for the record there is, *)
SignInv ==
    \A c \in Commits : \A n \in Names : job[c][Sgn(n)] = "ok" =>
          /\ \A m \in Names : job[c][Img(m)] = "ok"
          /\ record[c][n] # None /\ <<c, n, record[c][n]>> \in signed

(* and a snapshot job that is ok, for one attempt. *)
GreenInv ==
    \A c \in Commits : job[c][Snapshot] = "ok" =>
          /\ \A n \in Names : job[c][Sgn(n)] = "ok"
          /\ snapshot[c] # None /\ snapshot[c].attempt = attempt[c]
          /\ \A n \in Names : /\ record[c][n].attempt = attempt[c]
                              /\ record[c][n].image = snapshot[c].images[n]

(* Once the run was seen green, whatever record of the snapshot's attempt is
   left, or was read, is signed: a record of that attempt is written no more. *)
Vouched(c, a) ==
    /\ attempt[c] >= a
    /\ attempt[c] = a => Success(c)
    /\ \A n \in Names : record[c][n] # None /\ record[c][n].attempt = a
                          => <<c, n, record[c][n]>> \in signed

CheckInv ==
    /\ check.step # "idle" => check.snap \in Snapshots
    /\ check.step = "run" => \A n \in Names : check.read[n] = None
    /\ check.step \in {"records", "branch"} =>
          /\ Vouched(check.snap.commit, check.snap.attempt)
          /\ \A n \in Names :
                check.read[n] # None /\ check.read[n].attempt = check.snap.attempt
                  => <<check.snap.commit, n, check.read[n]>> \in signed
    /\ check.step = "branch" => Matches(check.snap, check.read)

IInv == TypeOK /\ PushInv /\ SignInv /\ GreenInv /\ CheckInv /\ AcceptedIsSigned

-----------------------------------------------------------------------------
LEMMA Constants ==
    /\ MaxCommit \in Nat /\ Commits = 1 .. MaxCommit
    /\ MaxAttempt \in [Commits -> Nat \ {0}] /\ None \notin Snapshots
    BY ReleaseAssumption, NoneAssumption DEF Commits

LEMMA AttemptFacts ==
    /\ Attempts \subseteq Nat \ {0}
    /\ \A c \in Commits : 1 \in Attempts /\ 1 .. MaxAttempt[c] \subseteq Attempts
    /\ \A a \in {0} \cup Attempts : a \in Nat /\ 1 .. a \subseteq Attempts
    <1> USE Constants
    <1>1. \A a : a \in Attempts <=> \E c \in Commits : a \in 1 .. MaxAttempt[c]
        BY DEF Attempts
    <1> QED BY <1>1, SMTT(30)

(* The jobs are what their names say, and need what the workflow says.     *)
LEMMA JobFacts ==
    /\ \A j : j \in Jobs <=> j = Snapshot \/ \E n \in Names : j = Img(n) \/ j = Sgn(n)
    /\ \A n, m \in Names : /\ Img(n) # Sgn(m) /\ Img(n) # Snapshot /\ Sgn(n) # Snapshot
                           /\ Img(n) = Img(m) => n = m
                           /\ Sgn(n) = Sgn(m) => n = m
    /\ \A n, m \in Names : Img(m) \in Needs(Sgn(n)) /\ Sgn(m) \in Needs(Snapshot)
    /\ \A n, m \in Names : Sgn(m) \in Dependents(Img(n)) /\ Snapshot \in Dependents(Img(n))
    /\ \A n \in Names : Snapshot \in Dependents(Sgn(n))
    /\ \A n \in Names : \A m \in Names : Img(m) \notin Dependents(Sgn(n))
    /\ \A m \in Names : Img(m) \notin Dependents(Snapshot) /\ Img(m) # Snapshot
    <1> USE DEF Jobs, Images, Signs, Snapshot, Names, Img, Sgn, Needs, Dependents
    <1>1. \A j : j \in Jobs <=> j = Snapshot \/ \E n \in Names : j = Img(n) \/ j = Sgn(n)
        OBVIOUS
    <1>2. \A n, m \in Names : /\ Img(n) # Sgn(m) /\ Img(n) # Snapshot /\ Sgn(n) # Snapshot
                              /\ Img(n) = Img(m) => n = m
                              /\ Sgn(n) = Sgn(m) => n = m
        OBVIOUS
    <1>3. \A n \in Names : /\ Img(n) \in Images /\ Img(n) \notin Signs
                           /\ Sgn(n) \in Signs /\ Sgn(n) \notin Images
                           /\ Snapshot \notin Images /\ Snapshot \notin Signs
        OBVIOUS
    <1>4. /\ \A n, m \in Names : Img(m) \in Needs(Sgn(n)) /\ Sgn(m) \in Needs(Snapshot)
          /\ \A n, m \in Names : Sgn(m) \in Dependents(Img(n))
          /\ \A n, m \in Names : Img(m) \notin Dependents(Sgn(n))
          /\ \A n \in Names : Snapshot \in Dependents(Img(n)) /\ Snapshot \in Dependents(Sgn(n))
          /\ \A m \in Names : Img(m) \notin Dependents(Snapshot)
        BY <1>2, <1>3
    <1> QED BY <1>1, <1>2, <1>4

(* Cancelling a run makes no job ok and none that was ok anything else.    *)
LEMMA CancelledKeeps ==
    ASSUME TypeOK, NEW c \in Commits
    PROVE  /\ Cancelled(c) \in [Commits -> [Jobs -> {"waiting", "ok", "failed"}]]
           /\ \A d \in Commits : \A j \in Jobs :
                 Cancelled(c)[d][j] = "ok" <=> job[d][j] = "ok"
    BY DEF TypeOK, Cancelled

LEMMA JobNames ==
    Snapshot \in Jobs /\ \A n \in Names : Img(n) \in Jobs /\ Sgn(n) \in Jobs
    BY JobFacts

LEMMA Known ==
    ASSUME TypeOK
    PROVE  /\ \A c \in Commits : attempt[c] \in Nat
           /\ \A c \in Commits : \A n \in Names : record[c][n] # None =>
                 record[c][n] \in Records /\ record[c][n].attempt \in Nat \ {0}
           /\ \A s \in Snapshots : s.commit \in Commits /\ s.attempt \in Nat \ {0}
    <1>1. \A c \in Commits : attempt[c] \in Nat
        BY AttemptFacts DEF TypeOK
    <1>2. \A c \in Commits : \A n \in Names : record[c][n] # None => record[c][n] \in Records
        BY DEF TypeOK
    <1>3. \A r \in Records : r.attempt \in Nat \ {0}
        BY AttemptFacts DEF Records
    <1>4. \A s \in Snapshots : s.commit \in Commits /\ s.attempt \in Nat \ {0}
        BY AttemptFacts DEF Snapshots
    <1> QED BY <1>1, <1>2, <1>3, <1>4

(* A snapshot job that is ok makes the run green. *)
LEMMA SnapshotIsGreen ==
    ASSUME IInv, NEW c \in Commits, job[c][Snapshot] = "ok"
    PROVE  Success(c)
    <1>1. \A n \in Names : job[c][Sgn(n)] = "ok"
        BY DEF IInv, GreenInv
    <1>2. \A n \in Names : job[c][Img(n)] = "ok"
        BY <1>1 DEF IInv, SignInv, Names
    <1> QED BY <1>1, <1>2, JobFacts DEF Success

(* What the operator has seen stays vouched for by a step that writes no
   record and makes no green run anything else without a new attempt. *)
LEMMA VouchedKeeps ==
    ASSUME IInv, UNCHANGED record, signed \subseteq signed', check.step \in {"records", "branch"},
           NEW c \in Commits, attempt'[c] >= attempt[c] /\ attempt'[c] \in Nat,
           (attempt'[c] = attempt[c] /\ Success(c)) => Success(c)',
           c = check.snap.commit
    PROVE  /\ attempt'[c] >= check.snap.attempt
           /\ attempt'[c] = check.snap.attempt => Success(c)'
           /\ \A n \in Names : record'[c][n] # None /\ record'[c][n].attempt = check.snap.attempt
                                => <<c, n, record'[c][n]>> \in signed'
    <1>1. check.snap \in Snapshots /\ Vouched(c, check.snap.attempt)
        BY DEF IInv, CheckInv
    <1>2. check.snap.attempt \in Nat \ {0} /\ attempt[c] \in Nat
        BY <1>1, Known DEF IInv
    <1> QED BY <1>1, <1>2 DEF Vouched

LEMMA InitIInv == Init => IInv
    <1> SUFFICES ASSUME Init PROVE IInv
        OBVIOUS
    <1>1. TypeOK
        BY Constants DEF Init, TypeOK, Idle
    <1>2. PushInv
        BY DEF Init, PushInv
    <1>3. SignInv /\ GreenInv
        BY JobFacts DEF Init, SignInv, GreenInv
    <1>4. CheckInv /\ AcceptedIsSigned
        BY DEF Init, CheckInv, AcceptedIsSigned, Idle
    <1> QED BY <1>1, <1>2, <1>3, <1>4 DEF IInv

-----------------------------------------------------------------------------
(* The steps of the workflow. *)

LEMMA PushKeeps == IInv /\ Push => IInv'
    <1> SUFFICES ASSUME IInv, Push PROVE IInv'
        OBVIOUS
    <1> USE Constants
    <1> DEFINE x == master + 1
    <1>0. /\ TypeOK /\ x \in Commits /\ master \in Nat
          /\ attempt[x] = 0 /\ attempt' = [attempt EXCEPT ![x] = 1]
          /\ master' = x /\ job' = Cancelled(x)
          /\ UNCHANGED <<record, signed, snapshot, check, accepted>>
        BY DEF IInv, TypeOK, PushInv, Push
    <1>1. /\ attempt' \in [Commits -> {0} \cup Attempts] /\ attempt'[x] = 1
          /\ \A d \in Commits \ {x} : attempt'[d] = attempt[d]
        BY <1>0, AttemptFacts DEF TypeOK
    <1>2. /\ job' \in [Commits -> [Jobs -> {"waiting", "ok", "failed"}]]
          /\ \A d \in Commits : \A j \in Jobs : job'[d][j] = "ok" <=> job[d][j] = "ok"
        BY <1>0, CancelledKeeps
    <1>3. /\ \A j \in Jobs : job'[x][j] # "ok"
          /\ \A n \in Names : record[x][n] = None
        <2>1. \A j \in Jobs : job'[x][j] # "ok"
            BY <1>0, <1>2 DEF IInv, PushInv
        <2>2. \A n \in Names : record[x][n] # None => record[x][n].attempt \in Attempts
            BY <1>0 DEF TypeOK, Records
        <2>3. \A n \in Names : record[x][n] # None => record[x][n].attempt <= 0
            BY <1>0 DEF IInv, PushInv
        <2> QED BY <2>1, <2>2, <2>3, AttemptFacts
    <1> HIDE DEF x
    <1>4. TypeOK'
        BY <1>0, <1>1, <1>2 DEF TypeOK
    <1>5. PushInv'
        <2>1. \A c \in Commits : c > x => attempt'[c] = 0
            BY <1>0, <1>1 DEF IInv, PushInv, x
        <2>2. \A c \in Commits : attempt'[c] = 0 => \A j \in Jobs : job'[c][j] # "ok"
            BY <1>1, <1>2, <1>3 DEF IInv, PushInv
        <2>3. \A c \in Commits : \A n \in Names :
                  record[c][n] # None => record[c][n].attempt <= attempt'[c]
            BY <1>1, <1>3 DEF IInv, PushInv
        <2>4. \A s \in accepted : s.commit <= x
            <3> TAKE s \in accepted
            <3>1. s.commit \in Int /\ s.commit <= master
                BY <1>0 DEF IInv, PushInv, TypeOK, Snapshots
            <3> QED BY <1>0, <3>1 DEF x
        <2> QED BY <1>0, <2>1, <2>2, <2>3, <2>4 DEF PushInv
    <1>6. SignInv'
        <2> SUFFICES ASSUME NEW c \in Commits, NEW n \in Names, job'[c][Sgn(n)] = "ok"
                     PROVE  /\ \A m \in Names : job'[c][Img(m)] = "ok"
                            /\ record[c][n] # None /\ <<c, n, record[c][n]>> \in signed
            BY <1>0 DEF SignInv
        <2>1. job[c][Sgn(n)] = "ok"
            BY <1>2, JobNames
        <2> QED BY <1>2, <2>1, JobNames DEF IInv, SignInv
    <1>7. GreenInv'
        <2> SUFFICES ASSUME NEW c \in Commits, job'[c][Snapshot] = "ok"
                     PROVE  /\ \A n \in Names : job'[c][Sgn(n)] = "ok"
                            /\ snapshot[c] # None /\ snapshot[c].attempt = attempt'[c]
                            /\ \A n \in Names : /\ record[c][n].attempt = attempt'[c]
                                                /\ record[c][n].image = snapshot[c].images[n]
            BY <1>0 DEF GreenInv
        <2>1. c # x /\ job[c][Snapshot] = "ok" /\ attempt'[c] = attempt[c]
            BY <1>1, <1>2, <1>3, JobNames
        <2> QED BY <1>2, <2>1, JobNames DEF IInv, GreenInv
    <1>8. CheckInv' /\ AcceptedIsSigned'
        <2>1. ASSUME check.step \in {"records", "branch"}
              PROVE  Vouched(check.snap.commit, check.snap.attempt)'
            <3>0. check.snap.commit \in Commits
                BY <1>0, <2>1, Known DEF IInv, CheckInv
            <3> PICK c \in Commits : c = check.snap.commit
                BY <3>0
            <3>1. check.snap.attempt \in Nat \ {0} /\ attempt[c] \in Nat
                BY <1>0, <2>1, Known DEF IInv, CheckInv
            <3>2. c # x
                BY <1>0, <2>1, <3>1 DEF IInv, CheckInv, Vouched
            <3>3. attempt'[c] = attempt[c] /\ (Success(c) => Success(c)')
                BY <1>1, <1>2, <3>2 DEF Success
            <3>4. UNCHANGED <<record, signed, check>>
                BY <1>0
            <3>5. attempt'[c] >= attempt[c] /\ attempt'[c] \in Nat
                BY <3>1, <3>3
            <3>6. /\ attempt'[c] >= check.snap.attempt
                  /\ attempt'[c] = check.snap.attempt => Success(c)'
                  /\ \A n \in Names :
                        record'[c][n] # None /\ record'[c][n].attempt = check.snap.attempt
                          => <<c, n, record'[c][n]>> \in signed'
                BY <2>1, <3>3, <3>4, <3>5, VouchedKeeps
            <3> QED BY <3>4, <3>6 DEF Vouched, Success
        <2> QED BY <1>0, <2>1 DEF IInv, CheckInv, AcceptedIsSigned
    <1> QED BY <1>4, <1>5, <1>6, <1>7, <1>8 DEF IInv

(* What is re-run takes everything that needs it along, the snapshot always. *)
LEMMA RerunKeeps ==
    ASSUME IInv, NEW c \in Commits, NEW again \in SUBSET Jobs, Rerun(c, again),
           Snapshot \in again,
           \A n, m \in Names : Img(m) \in again => Sgn(n) \in again \/ job[c][Sgn(n)] # "ok"
    PROVE  IInv'
    <1> USE Constants
    <1>0. /\ TypeOK /\ attempt[c] \in Nat \ {0} /\ attempt[c] < MaxAttempt[c]
          /\ attempt' = [attempt EXCEPT ![c] = attempt[c] + 1]
          /\ job' = [Cancelled(c) EXCEPT ![c] =
                       [j \in Jobs |-> IF j \in again THEN "waiting" ELSE job[c][j]]]
          /\ UNCHANGED <<master, record, signed, snapshot, check, accepted>>
        <2>1. attempt[c] \in Nat
            BY Known DEF IInv
        <2> QED BY <2>1 DEF IInv, Rerun, Completed
    <1>1. /\ attempt' \in [Commits -> {0} \cup Attempts] /\ attempt'[c] = attempt[c] + 1
          /\ \A d \in Commits \ {c} : attempt'[d] = attempt[d]
        <2>1. attempt[c] + 1 \in 1 .. MaxAttempt[c]
            BY <1>0
        <2>2. attempt[c] + 1 \in Attempts
            BY <2>1, AttemptFacts
        <2> QED BY <1>0, <2>2 DEF TypeOK
    <1>2. /\ job' \in [Commits -> [Jobs -> {"waiting", "ok", "failed"}]]
          /\ \A d \in Commits \ {c} : \A j \in Jobs : job'[d][j] = "ok" <=> job[d][j] = "ok"
          /\ \A j \in Jobs : job'[c][j] = IF j \in again THEN "waiting" ELSE job[c][j]
        <2>1. \A d \in Commits \ {c} : job'[d] = Cancelled(c)[d]
            BY <1>0, CancelledKeeps
        <2>2. job'[c] = [j \in Jobs |-> IF j \in again THEN "waiting" ELSE job[c][j]]
            BY <1>0, CancelledKeeps
        <2>3. job'[c] \in [Jobs -> {"waiting", "ok", "failed"}]
            BY <1>0, <2>2 DEF TypeOK
        <2>4. job' \in [Commits -> [Jobs -> {"waiting", "ok", "failed"}]]
            BY <1>0, <2>2, <2>3, CancelledKeeps
        <2> QED BY <1>0, <2>1, <2>2, <2>4, CancelledKeeps
    <1>3. TypeOK'
        BY <1>0, <1>1, <1>2 DEF TypeOK
    <1>4. PushInv'
        <2>1. ~(c > master)
            BY <1>0 DEF IInv, PushInv
        <2>2. \A d \in Commits : d > master => attempt'[d] = 0
            BY <1>0, <1>1, <2>1 DEF IInv, PushInv
        <2>3. \A d \in Commits : attempt'[d] = 0 => \A j \in Jobs : job'[d][j] # "ok"
            <3> SUFFICES ASSUME NEW d \in Commits, attempt'[d] = 0, NEW j \in Jobs
                         PROVE  job'[d][j] # "ok"
                OBVIOUS
            <3>1. d # c /\ attempt[d] = 0
                BY <1>0, <1>1
            <3> QED BY <1>2, <3>1 DEF IInv, PushInv
        <2>4. \A d \in Commits : \A n \in Names :
                  record[d][n] # None => record[d][n].attempt <= attempt'[d]
            <3> TAKE d \in Commits
            <3> TAKE n \in Names
            <3> HAVE record[d][n] # None
            <3>1. /\ record[d][n].attempt \in Nat /\ attempt[d] \in Nat
                  /\ record[d][n].attempt <= attempt[d]
                BY <1>0, Known DEF IInv, PushInv
            <3> QED BY <1>0, <1>1, <3>1
        <2> QED BY <1>0, <2>2, <2>3, <2>4 DEF IInv, PushInv
    <1>5. SignInv'
        <2> SUFFICES ASSUME NEW d \in Commits, NEW n \in Names, job'[d][Sgn(n)] = "ok"
                     PROVE  /\ \A m \in Names : job'[d][Img(m)] = "ok"
                            /\ record[d][n] # None /\ <<d, n, record[d][n]>> \in signed
            BY <1>0 DEF SignInv
        <2>1. CASE d = c
            <3>1. Sgn(n) \notin again /\ job[c][Sgn(n)] = "ok"
                BY <1>2, <2>1, JobNames
            <3>2. \A m \in Names : job[c][Img(m)] = "ok" /\ Img(m) \notin again
                BY <3>1 DEF IInv, SignInv
            <3>3. \A m \in Names : job'[c][Img(m)] = "ok"
                BY <1>2, <3>2, JobNames
            <3> QED BY <2>1, <3>1, <3>3 DEF IInv, SignInv
        <2>2. CASE d # c
            <3>1. job[d][Sgn(n)] = "ok"
                BY <1>2, <2>2, JobNames
            <3> QED BY <1>2, <2>2, <3>1, JobNames DEF IInv, SignInv
        <2> QED BY <2>1, <2>2
    <1>6. GreenInv'
        <2> SUFFICES ASSUME NEW d \in Commits, job'[d][Snapshot] = "ok"
                     PROVE  /\ \A n \in Names : job'[d][Sgn(n)] = "ok"
                            /\ snapshot[d] # None /\ snapshot[d].attempt = attempt'[d]
                            /\ \A n \in Names : /\ record[d][n].attempt = attempt'[d]
                                                /\ record[d][n].image = snapshot[d].images[n]
            <3>1. UNCHANGED <<record, snapshot>>
                BY <1>0
            <3> QED BY <3>1 DEF GreenInv
        <2>1. d # c
            BY <1>2, JobNames
        <2>2. job[d][Snapshot] = "ok" /\ attempt'[d] = attempt[d]
            BY <1>1, <1>2, <2>1, JobNames
        <2> QED BY <1>2, <2>1, <2>2, JobNames DEF IInv, GreenInv
    <1>7. CheckInv' /\ AcceptedIsSigned'
        <2>1. ASSUME check.step \in {"records", "branch"}
              PROVE  Vouched(check.snap.commit, check.snap.attempt)'
            <3>0. check.snap.commit \in Commits
                BY <1>0, <2>1, Known DEF IInv, CheckInv
            <3> PICK d \in Commits : d = check.snap.commit
                BY <3>0
            <3>1. attempt[d] \in Nat
                BY <1>0, Known
            <3>2. attempt'[d] >= attempt[d] /\ attempt'[d] \in Nat
                BY <1>0, <1>1, <3>1
            <3>3. attempt'[d] = attempt[d] /\ Success(d) => Success(d)'
                <4>1. CASE d = c
                    BY <1>0, <1>1, <4>1
                <4>2. CASE d # c
                    BY <1>2, <4>2 DEF Success
                <4> QED BY <4>1, <4>2
            <3>4. UNCHANGED <<record, signed, check>>
                BY <1>0
            <3>5. /\ attempt'[d] >= check.snap.attempt
                  /\ attempt'[d] = check.snap.attempt => Success(d)'
                  /\ \A n \in Names :
                        record'[d][n] # None /\ record'[d][n].attempt = check.snap.attempt
                          => <<d, n, record'[d][n]>> \in signed'
                BY <2>1, <3>2, <3>3, <3>4, VouchedKeeps
            <3> QED BY <3>4, <3>5 DEF Vouched, Success
        <2> QED BY <1>0, <2>1 DEF IInv, CheckInv, AcceptedIsSigned
    <1> QED BY <1>3, <1>4, <1>5, <1>6, <1>7 DEF IInv

LEMMA RerunsKeep ==
    ASSUME IInv, NEW c \in Commits,
           RerunAll(c) \/ RerunFailed(c) \/ \E j \in Jobs : RerunJob(c, j)
    PROVE  IInv'
    <1>1. CASE RerunAll(c)
        BY <1>1, RerunKeeps, JobFacts DEF RerunAll
    <1>2. CASE RerunFailed(c)
        <2> DEFINE again == {j \in Jobs : job[c][j] # "ok"}
        <2>1. Rerun(c, again) /\ again # {}
            BY <1>2 DEF RerunFailed, Rerun
        <2>2. Snapshot \in again
            <3>1. job[c][Snapshot] = "ok" => \A j \in Jobs : job[c][j] = "ok"
                BY SnapshotIsGreen DEF Success
            <3> QED BY <2>1, <3>1, JobNames
        <2>3. \A n, m \in Names : Img(m) \in again => job[c][Sgn(n)] # "ok"
            BY DEF IInv, SignInv
        <2> HIDE DEF again
        <2>4. again \in SUBSET Jobs
            BY DEF again
        <2> QED BY <2>1, <2>2, <2>3, <2>4, RerunKeeps
    <1>3. ASSUME NEW j \in Jobs, RerunJob(c, j) PROVE IInv'
        <2> DEFINE again == {j} \cup Dependents(j)
        <2>1. Rerun(c, again)
            BY <1>3 DEF RerunJob
        <2>2. Snapshot \in again
            BY JobFacts
        <2>3. \A n, m \in Names : Img(m) \in again => Sgn(n) \in again
            BY JobFacts
        <2>4. again \in SUBSET Jobs
            BY DEF Dependents, Jobs
        <2> HIDE DEF again
        <2> QED BY <2>1, <2>2, <2>3, <2>4, RerunKeeps
    <1> QED BY <1>1, <1>2, <1>3

LEMMA BuildKeeps ==
    ASSUME IInv, NEW c \in Commits, NEW n \in Names, BuildImage(c, n)
    PROVE  IInv'
    <1>0. /\ TypeOK /\ attempt[c] \in Nat \ {0} /\ job[c][Img(n)] = "waiting"
          /\ UNCHANGED <<master, attempt, signed, snapshot, check, accepted>>
        BY Known DEF IInv, BuildImage, Ready, Img
    <1>1. PICK result \in {"ok", "failed"} : job' = [job EXCEPT ![c][Img(n)] = result]
        BY DEF BuildImage, Finish, Img
    <1>2. /\ job' \in [Commits -> [Jobs -> {"waiting", "ok", "failed"}]]
          /\ \A d \in Commits : \A j \in Jobs :
                d # c \/ j # Img(n) => job'[d][j] = job[d][j]
        BY <1>0, <1>1, JobNames DEF TypeOK
    <1>3. /\ record' \in [Commits -> [Names -> Records \cup {None}]]
          /\ \A d \in Commits : \A m \in Names : d # c \/ m # n => record'[d][m] = record[d][m]
          /\ record'[c][n] # record[c][n] => record'[c][n].attempt = attempt[c]
        <2>1. CASE UNCHANGED record
            BY <1>0, <2>1 DEF TypeOK
        <2>2. ASSUME NEW d \in 1 .. attempt[c],
                     record' = [record EXCEPT ![c][n] = [image |-> d, attempt |-> attempt[c]]]
              PROVE  /\ record' \in [Commits -> [Names -> Records \cup {None}]]
                     /\ \A e \in Commits : \A m \in Names :
                           e # c \/ m # n => record'[e][m] = record[e][m]
                     /\ record'[c][n] # record[c][n] => record'[c][n].attempt = attempt[c]
            <3> DEFINE r == [image |-> d, attempt |-> attempt[c]]
            <3>1. d \in Attempts /\ attempt[c] \in Attempts
                BY <1>0, AttemptFacts DEF TypeOK
            <3>2. r \in Records /\ r.attempt = attempt[c]
                BY <3>1 DEF Records
            <3>3. record' = [record EXCEPT ![c][n] = r]
                BY <2>2
            <3> HIDE DEF r
            <3> QED BY <1>0, <3>2, <3>3 DEF TypeOK
        <2> QED BY <2>1, <2>2 DEF BuildImage
    <1>4. /\ \A m \in Names : job[c][Sgn(m)] # "ok"
          /\ job[c][Snapshot] # "ok" /\ ~Success(c)
        <2>1. \A m \in Names : job[c][Sgn(m)] # "ok"
            BY <1>0 DEF IInv, SignInv
        <2> QED BY <1>0, <2>1, JobNames DEF IInv, GreenInv, Success
    <1>5. TypeOK'
        BY <1>0, <1>2, <1>3 DEF TypeOK
    <1>6. PushInv'
        <2>1. \A d \in Commits : attempt[d] = 0 => \A j \in Jobs : job'[d][j] # "ok"
            BY <1>0, <1>2 DEF IInv, PushInv
        <2>2. \A d \in Commits : \A m \in Names :
                  record'[d][m] # None => record'[d][m].attempt <= attempt[d]
            <3> TAKE d \in Commits
            <3> TAKE m \in Names
            <3>1. CASE record'[d][m] = record[d][m]
                BY <3>1 DEF IInv, PushInv
            <3>2. CASE record'[d][m] # record[d][m]
                BY <1>0, <1>3, <3>2
            <3> QED BY <3>1, <3>2
        <2> QED BY <1>0, <2>1, <2>2 DEF IInv, PushInv
    <1>7. SignInv'
        <2> SUFFICES ASSUME NEW d \in Commits, NEW m \in Names, job'[d][Sgn(m)] = "ok"
                     PROVE  /\ \A k \in Names : job'[d][Img(k)] = "ok"
                            /\ record'[d][m] # None /\ <<d, m, record'[d][m]>> \in signed
            BY <1>0 DEF SignInv
        <2>1. job[d][Sgn(m)] = "ok"
            BY <1>2, JobNames, JobFacts
        <2>2. d # c
            BY <1>4, <2>1
        <2>3. /\ \A j \in Jobs : job'[d][j] = job[d][j]
              /\ \A k \in Names : record'[d][k] = record[d][k]
            BY <1>2, <1>3, <2>2
        <2> QED BY <2>1, <2>3, JobNames DEF IInv, SignInv
    <1>8. GreenInv'
        <2> SUFFICES ASSUME NEW d \in Commits, job'[d][Snapshot] = "ok"
                     PROVE  /\ \A m \in Names : job'[d][Sgn(m)] = "ok"
                            /\ snapshot[d] # None /\ snapshot[d].attempt = attempt[d]
                            /\ \A m \in Names : /\ record'[d][m].attempt = attempt[d]
                                                /\ record'[d][m].image = snapshot[d].images[m]
            <3>1. UNCHANGED <<attempt, snapshot>>
                BY <1>0
            <3> QED BY <3>1 DEF GreenInv
        <2>1. job[d][Snapshot] = "ok"
            BY <1>2, JobNames, JobFacts
        <2>2. d # c
            BY <1>4, <2>1
        <2>3. /\ \A j \in Jobs : job'[d][j] = job[d][j]
              /\ \A k \in Names : record'[d][k] = record[d][k]
            BY <1>2, <1>3, <2>2
        <2> QED BY <2>1, <2>3, JobNames DEF IInv, GreenInv
    <1>9. CheckInv' /\ AcceptedIsSigned'
        <2>1. ASSUME check.step \in {"records", "branch"}
              PROVE  Vouched(check.snap.commit, check.snap.attempt)'
            <3>0. check.snap.commit \in Commits
                BY <1>0, <2>1, Known DEF IInv, CheckInv
            <3> PICK d \in Commits : d = check.snap.commit
                BY <3>0
            <3> PICK a : a = check.snap.attempt
                OBVIOUS
            <3>1. Vouched(d, a) /\ UNCHANGED <<attempt, signed, check>>
                BY <1>0, <2>1 DEF IInv, CheckInv
            <3>2. CASE d = c
                <4>1. attempt[c] # a
                    BY <1>4, <3>1, <3>2 DEF Vouched
                <4>2. \A m \in Names : record'[c][m] # None /\ record'[c][m].attempt = a
                                       => record'[c][m] = record[c][m]
                    BY <1>3, <4>1
                <4> QED BY <3>1, <3>2, <4>1, <4>2 DEF Vouched
            <3>3. CASE d # c
                <4>1. Success(d) => Success(d)'
                    BY <1>2, <3>3 DEF Success
                <4> QED BY <1>3, <3>1, <3>3, <4>1 DEF Vouched
            <3> QED BY <3>2, <3>3
        <2> QED BY <1>0, <2>1 DEF IInv, CheckInv, AcceptedIsSigned
    <1> QED BY <1>5, <1>6, <1>7, <1>8, <1>9 DEF IInv

(* A job of a run that is not green finishes: no other run is touched. *)
LEMMA NoGreenLost ==
    ASSUME IInv, NEW c \in Commits, ~Success(c),
           UNCHANGED <<attempt, record, check>>, signed \subseteq signed',
           \A d \in Commits : \A j \in Jobs : d # c => job'[d][j] = job[d][j]
    PROVE  CheckInv'
    <1>1. ASSUME check.step \in {"records", "branch"}
          PROVE  Vouched(check.snap.commit, check.snap.attempt)'
        <2>0. check.snap.commit \in Commits
            BY <1>1, Known DEF IInv, CheckInv
        <2> PICK d \in Commits : d = check.snap.commit
            BY <2>0
        <2>1. attempt'[d] >= attempt[d] /\ attempt'[d] \in Nat
            BY Known DEF IInv
        <2>2. Success(d) => Success(d)'
            BY DEF Success
        <2>3. /\ attempt'[d] >= check.snap.attempt
              /\ attempt'[d] = check.snap.attempt => Success(d)'
              /\ \A n \in Names :
                    record'[d][n] # None /\ record'[d][n].attempt = check.snap.attempt
                      => <<d, n, record'[d][n]>> \in signed'
            BY <1>1, <2>1, <2>2, VouchedKeeps
        <2> QED BY <2>3 DEF Vouched, Success
    <1> QED BY <1>1 DEF IInv, CheckInv

(* A signature only adds to what was signed. *)
LEMMA SignKeeps ==
    ASSUME IInv, NEW c \in Commits, NEW n \in Names, SignImage(c, n)
    PROVE  IInv'
    <1>0. /\ TypeOK /\ attempt[c] \in Nat \ {0} /\ job[c][Sgn(n)] = "waiting"
          /\ UNCHANGED <<master, attempt, record, snapshot, check, accepted>>
        BY Known DEF IInv, SignImage, Ready, Sgn
    <1>1. PICK result \in {"ok", "failed"} : job' = [job EXCEPT ![c][Sgn(n)] = result]
        BY DEF SignImage, Finish, Sgn
    <1>2. /\ job' \in [Commits -> [Jobs -> {"waiting", "ok", "failed"}]]
          /\ \A d \in Commits : \A j \in Jobs :
                d # c \/ j # Sgn(n) => job'[d][j] = job[d][j]
        BY <1>0, <1>1, JobNames DEF TypeOK
    <1>3. /\ signed \subseteq signed' /\ signed' \subseteq Commits \X Names \X Records
          /\ job'[c][Sgn(n)] = "ok" => /\ record[c][n] # None
                                      /\ <<c, n, record[c][n]>> \in signed'
        <2>1. CASE Finish(c, <<"sign", n>>, "failed") /\ UNCHANGED signed
            <3>1. job'[c][Sgn(n)] = "failed"
                BY <1>0, <2>1, JobNames DEF Finish, Sgn, TypeOK
            <3> QED BY <1>0, <2>1, <3>1 DEF TypeOK
        <2>2. CASE /\ ValidRecord(record[c][n], attempt[c])
                   /\ signed' = signed \cup {<<c, n, record[c][n]>>}
            <3>1. record[c][n] # None /\ record[c][n] \in Records
                BY <1>0, <2>2, Known DEF ValidRecord
            <3> QED BY <1>0, <2>2, <3>1 DEF TypeOK
        <2> QED BY <2>1, <2>2 DEF SignImage
    <1>4. \A m \in Names : job[c][Img(m)] = "ok"
        BY JobFacts DEF SignImage, Ready, Sgn
    <1>5. job[c][Snapshot] # "ok" /\ ~Success(c)
        BY <1>0, JobNames DEF IInv, GreenInv, Success
    <1>6. TypeOK'
        BY <1>0, <1>2, <1>3 DEF TypeOK
    <1>7. PushInv'
        <2>1. \A d \in Commits : attempt[d] = 0 => \A j \in Jobs : job'[d][j] # "ok"
            BY <1>0, <1>2 DEF IInv, PushInv
        <2> QED BY <1>0, <2>1 DEF IInv, PushInv
    <1>8. SignInv'
        <2> SUFFICES ASSUME NEW d \in Commits, NEW m \in Names, job'[d][Sgn(m)] = "ok"
                     PROVE  /\ \A k \in Names : job'[d][Img(k)] = "ok"
                            /\ record[d][m] # None /\ <<d, m, record[d][m]>> \in signed'
            BY <1>0 DEF SignInv
        <2>1. \A k \in Names : job'[d][Img(k)] = job[d][Img(k)]
            BY <1>2, JobNames, JobFacts
        <2>2. CASE d = c /\ m = n
            BY <1>3, <1>4, <2>1, <2>2
        <2>3. CASE d # c \/ m # n
            <3>1. job[d][Sgn(m)] = "ok"
                BY <1>2, <2>3, JobNames, JobFacts
            <3> QED BY <1>3, <2>1, <3>1 DEF IInv, SignInv
        <2> QED BY <2>2, <2>3
    <1>9. GreenInv'
        <2> SUFFICES ASSUME NEW d \in Commits, job'[d][Snapshot] = "ok"
                     PROVE  /\ \A m \in Names : job'[d][Sgn(m)] = "ok"
                            /\ snapshot[d] # None /\ snapshot[d].attempt = attempt[d]
                            /\ \A m \in Names : /\ record[d][m].attempt = attempt[d]
                                                /\ record[d][m].image = snapshot[d].images[m]
            <3>1. UNCHANGED <<attempt, snapshot, record>>
                BY <1>0
            <3> QED BY <3>1 DEF GreenInv
        <2>1. job[d][Snapshot] = "ok"
            BY <1>2, JobNames, JobFacts
        <2>2. d # c
            BY <1>5, <2>1
        <2>3. \A j \in Jobs : job'[d][j] = job[d][j]
            BY <1>2, <2>2
        <2> QED BY <2>1, <2>3, JobNames DEF IInv, GreenInv
    <1>10. CheckInv' /\ AcceptedIsSigned'
        BY <1>0, <1>2, <1>3, <1>5, NoGreenLost DEF AcceptedIsSigned, IInv
    <1> QED BY <1>6, <1>7, <1>8, <1>9, <1>10 DEF IInv

(* The snapshot job reads two records of the current attempt. *)
LEMMA PrepareKeeps ==
    ASSUME IInv, NEW c \in Commits, PrepareSnapshot(c)
    PROVE  IInv'
    <1>0. /\ TypeOK /\ attempt[c] \in Nat \ {0} /\ job[c][Snapshot] = "waiting"
          /\ UNCHANGED <<master, attempt, record, signed, check, accepted>>
        BY Known DEF IInv, PrepareSnapshot, Ready
    <1>1. PICK result \in {"ok", "failed"} : job' = [job EXCEPT ![c][Snapshot] = result]
        BY DEF PrepareSnapshot, Finish
    <1>2. /\ job' \in [Commits -> [Jobs -> {"waiting", "ok", "failed"}]]
          /\ \A d \in Commits : \A j \in Jobs :
                d # c \/ j # Snapshot => job'[d][j] = job[d][j]
        BY <1>0, <1>1, JobNames DEF TypeOK
    <1>3. /\ snapshot' \in [Commits -> Snapshots \cup {None}]
          /\ \A d \in Commits : d # c => snapshot'[d] = snapshot[d]
          /\ job'[c][Snapshot] = "ok" =>
                /\ snapshot'[c] # None /\ snapshot'[c].attempt = attempt[c]
                /\ \A n \in Names : /\ record[c][n].attempt = attempt[c]
                                    /\ record[c][n].image = snapshot'[c].images[n]
        <2>1. CASE Finish(c, Snapshot, "failed") /\ UNCHANGED snapshot
            <3>1. job'[c][Snapshot] = "failed"
                BY <1>0, <2>1, JobNames DEF Finish, TypeOK
            <3> QED BY <1>0, <2>1, <3>1 DEF TypeOK
        <2>2. ASSUME \A n \in Names : ValidRecord(record[c][n], attempt[c]),
                     snapshot' = [snapshot EXCEPT ![c] =
                         [commit |-> c, attempt |-> attempt[c],
                          images |-> [n \in Names |-> record[c][n].image]]]
              PROVE  /\ snapshot' \in [Commits -> Snapshots \cup {None}]
                     /\ \A d \in Commits : d # c => snapshot'[d] = snapshot[d]
                     /\ snapshot'[c] # None /\ snapshot'[c].attempt = attempt[c]
                     /\ \A n \in Names : /\ record[c][n].attempt = attempt[c]
                                         /\ record[c][n].image = snapshot'[c].images[n]
            <3> DEFINE f == [n \in Names |-> record[c][n].image]
                       s == [commit |-> c, attempt |-> attempt[c], images |-> f]
            <3>1. \A n \in Names : record[c][n] \in Records /\ record[c][n].attempt = attempt[c]
                BY <1>0, <2>2, Known DEF ValidRecord
            <3>2. f \in [Names -> Attempts] /\ attempt[c] \in Attempts
                BY <1>0, <3>1 DEF Records, TypeOK
            <3>3. \A n \in Names : f[n] = record[c][n].image
                OBVIOUS
            <3> HIDE DEF f
            <3>4. s \in Snapshots /\ s.attempt = attempt[c] /\ s.images = f
                BY <3>2 DEF Snapshots
            <3>5. snapshot' = [snapshot EXCEPT ![c] = s]
                BY <2>2 DEF f
            <3> HIDE DEF s
            <3>6. /\ snapshot' \in [Commits -> Snapshots \cup {None}] /\ snapshot'[c] = s
                  /\ \A d \in Commits : d # c => snapshot'[d] = snapshot[d]
                BY <1>0, <3>4, <3>5 DEF TypeOK
            <3> QED BY <3>1, <3>3, <3>4, <3>6, NoneAssumption
        <2> QED BY <2>1, <2>2 DEF PrepareSnapshot
    <1>4. \A n \in Names : job[c][Sgn(n)] = "ok"
        BY JobFacts DEF PrepareSnapshot, Ready
    <1>5. ~Success(c)
        BY <1>0, JobNames DEF Success
    <1>6. TypeOK'
        BY <1>0, <1>2, <1>3 DEF TypeOK
    <1>7. PushInv'
        <2>1. \A d \in Commits : attempt[d] = 0 => \A j \in Jobs : job'[d][j] # "ok"
            BY <1>0, <1>2 DEF IInv, PushInv
        <2> QED BY <1>0, <2>1 DEF IInv, PushInv
    <1>8. SignInv'
        <2>1. \A d \in Commits : \A n \in Names : /\ job'[d][Sgn(n)] = job[d][Sgn(n)]
                                                /\ job'[d][Img(n)] = job[d][Img(n)]
            BY <1>2, JobNames, JobFacts
        <2>2. UNCHANGED <<record, signed>>
            BY <1>0
        <2> QED BY <2>1, <2>2 DEF IInv, SignInv
    <1>9. GreenInv'
        <2> SUFFICES ASSUME NEW d \in Commits, job'[d][Snapshot] = "ok"
                     PROVE  /\ \A m \in Names : job'[d][Sgn(m)] = "ok"
                            /\ snapshot'[d] # None /\ snapshot'[d].attempt = attempt[d]
                            /\ \A m \in Names : /\ record[d][m].attempt = attempt[d]
                                                /\ record[d][m].image = snapshot'[d].images[m]
            <3>1. UNCHANGED <<attempt, record>>
                BY <1>0
            <3> QED BY <3>1 DEF GreenInv
        <2>1. CASE d = c
            <3>1. \A m \in Names : job'[c][Sgn(m)] = "ok"
                BY <1>2, <1>4, JobNames, JobFacts
            <3> QED BY <1>3, <2>1, <3>1
        <2>2. CASE d # c
            <3>1. /\ \A j \in Jobs : job'[d][j] = job[d][j]
                  /\ snapshot'[d] = snapshot[d]
                BY <1>2, <1>3, <2>2
            <3> QED BY <3>1, JobNames DEF IInv, GreenInv
        <2> QED BY <2>1, <2>2
    <1>10. CheckInv' /\ AcceptedIsSigned'
        BY <1>0, <1>2, <1>5, NoGreenLost DEF AcceptedIsSigned, IInv
    <1> QED BY <1>6, <1>7, <1>8, <1>9, <1>10 DEF IInv

-----------------------------------------------------------------------------
(* The reads of verify_release: the rest of the state stands still. *)

LEMMA CheckKeeps ==
    ASSUME IInv, UNCHANGED <<master, attempt, job, record, signed, snapshot>>,
           check' \in [step : {"idle", "run", "records", "branch"},
                      snap : Snapshots \cup {None}, read : [Names -> Records \cup {None}]],
           CheckInv', AcceptedIsSigned', accepted' \subseteq Snapshots,
           \A s \in accepted' : s.commit <= master
    PROVE  IInv'
    <1>1. TypeOK'
        BY DEF IInv, TypeOK
    <1>2. PushInv'
        BY DEF IInv, PushInv
    <1>3. SignInv' /\ GreenInv'
        BY DEF IInv, SignInv, GreenInv
    <1> QED BY <1>1, <1>2, <1>3 DEF IInv

(* The artifact, or a copy of it in which an image was replaced. *)
LEMMA DownloadKeeps ==
    ASSUME IInv, NEW c \in Commits, Download(c)
    PROVE  IInv'
    <1>0. /\ TypeOK
          /\ UNCHANGED <<master, attempt, job, record, signed, snapshot, accepted>>
        BY DEF IInv, Download
    <1>2. PICK s \in Snapshots : check' = [Idle EXCEPT !.step = "run", !.snap = s]
        BY DEF Download, CopiesOf
    <1>3. /\ check'.step = "run" /\ check'.snap = s /\ \A n \in Names : check'.read[n] = None
          /\ check' \in [step : {"idle", "run", "records", "branch"},
                         snap : Snapshots \cup {None}, read : [Names -> Records \cup {None}]]
        BY <1>2 DEF Idle
    <1>4. CheckInv'
        BY <1>3 DEF CheckInv
    <1>5. /\ AcceptedIsSigned' /\ accepted' \subseteq Snapshots
          /\ \A t \in accepted' : t.commit <= master
        BY <1>0 DEF IInv, TypeOK, PushInv, AcceptedIsSigned
    <1> QED BY <1>0, <1>3, <1>4, <1>5, CheckKeeps

LEMMA ReadKeeps ==
    ASSUME IInv, ReadRun \/ Compare \/ Abandon \/ \E n \in Names : ReadRecord(n)
    PROVE  IInv'
    <1>0. /\ TypeOK
          /\ UNCHANGED <<master, attempt, job, record, signed, snapshot, accepted>>
        BY DEF IInv, ReadRun, Compare, Abandon, ReadRecord
    <1>1. /\ AcceptedIsSigned' /\ accepted' \subseteq Snapshots
          /\ \A t \in accepted' : t.commit <= master
        BY <1>0 DEF IInv, TypeOK, PushInv, AcceptedIsSigned
    <1>c. /\ check \in [step : {"idle", "run", "records", "branch"},
                        snap : Snapshots \cup {None}, read : [Names -> Records \cup {None}]]
          /\ \A c \in Commits : \A n \in Names : record[c][n] \in Records \cup {None}
        BY <1>0 DEF TypeOK
    <1>2. CASE ReadRun
        <2>1. /\ check.snap \in Snapshots /\ check.step = "run"
              /\ \A n \in Names : check.read[n] = None
              /\ Success(check.snap.commit) /\ attempt[check.snap.commit] = check.snap.attempt
              /\ check' = [check EXCEPT !.step = "records"]
            BY <1>2 DEF IInv, CheckInv, ReadRun
        <2>2. check.snap.commit \in Commits /\ attempt[check.snap.commit] \in Nat
            BY <1>0, <2>1, Known
        <2>3. /\ check'.step = "records" /\ check'.snap = check.snap /\ check'.read = check.read
              /\ check' \in [step : {"idle", "run", "records", "branch"},
                             snap : Snapshots \cup {None}, read : [Names -> Records \cup {None}]]
            BY <1>c, <2>1
        <2>4. Vouched(check.snap.commit, check.snap.attempt)
            <3>1. \A n \in Names : job[check.snap.commit][Sgn(n)] = "ok"
                BY <2>1, JobNames DEF Success
            <3> QED BY <2>1, <2>2, <3>1 DEF Vouched, IInv, SignInv
        <2>5. CheckInv'
            BY <1>0, <2>1, <2>3, <2>4 DEF CheckInv, Vouched, Success
        <2> QED BY <1>0, <1>1, <2>3, <2>5, CheckKeeps
    <1>3. ASSUME NEW n \in Names, ReadRecord(n) PROVE IInv'
        <2>1. /\ check.snap \in Snapshots /\ check.step = "records"
              /\ Vouched(check.snap.commit, check.snap.attempt)
              /\ check' = [check EXCEPT !.read[n] = record[check.snap.commit][n]]
            BY <1>3 DEF IInv, CheckInv, ReadRecord
        <2>2. check.snap.commit \in Commits
            BY <1>0, <2>1, Known
        <2> DEFINE f == [check.read EXCEPT ![n] = record[check.snap.commit][n]]
        <2>3. /\ f \in [Names -> Records \cup {None}] /\ f[n] = record[check.snap.commit][n]
              /\ \A m \in Names : m # n => f[m] = check.read[m]
            BY <1>c, <2>2
        <2>4. check' = [check EXCEPT !.read = f]
            BY <2>1
        <2> HIDE DEF f
        <2>5. /\ check'.step = "records" /\ check'.snap = check.snap /\ check'.read = f
              /\ check' \in [step : {"idle", "run", "records", "branch"},
                             snap : Snapshots \cup {None}, read : [Names -> Records \cup {None}]]
            BY <1>c, <2>1, <2>3, <2>4
        <2>6. \A m \in Names : f[m] # None /\ f[m].attempt = check.snap.attempt
                               => <<check.snap.commit, m, f[m]>> \in signed
            BY <2>1, <2>3 DEF IInv, CheckInv, Vouched
        <2>7. CheckInv'
            BY <1>0, <2>1, <2>5, <2>6 DEF CheckInv, Vouched, Success
        <2> QED BY <1>0, <1>1, <2>5, <2>7, CheckKeeps
    <1>4. CASE Compare
        <2>1. /\ check.snap \in Snapshots /\ check.step = "records"
              /\ Matches(check.snap, check.read)
              /\ check' = [check EXCEPT !.step = "branch"]
            BY <1>4 DEF IInv, CheckInv, Compare
        <2>2. /\ check'.step = "branch" /\ check'.snap = check.snap /\ check'.read = check.read
              /\ check' \in [step : {"idle", "run", "records", "branch"},
                             snap : Snapshots \cup {None}, read : [Names -> Records \cup {None}]]
            BY <1>c, <2>1
        <2>3. CheckInv'
            BY <1>0, <2>1, <2>2 DEF IInv, CheckInv, Vouched, Success, Matches
        <2> QED BY <1>0, <1>1, <2>2, <2>3, CheckKeeps
    <1>5. CASE Abandon
        <2>1. /\ check'.step = "idle"
              /\ check' \in [step : {"idle", "run", "records", "branch"},
                             snap : Snapshots \cup {None}, read : [Names -> Records \cup {None}]]
            BY <1>5 DEF Abandon, Idle
        <2>2. CheckInv'
            BY <2>1 DEF CheckInv
        <2> QED BY <1>0, <1>1, <2>1, <2>2, CheckKeeps
    <1> QED BY <1>2, <1>3, <1>4, <1>5

(* The branch is read last: what passes is the newest there is. *)
LEMMA BranchKeeps == IInv /\ ReadBranch => IInv'
    <1> SUFFICES ASSUME IInv, ReadBranch PROVE IInv'
        OBVIOUS
    <1>1. /\ TypeOK /\ check.snap \in Snapshots /\ master = check.snap.commit
          /\ accepted' = accepted \cup {check.snap} /\ check' = Idle
          /\ Matches(check.snap, check.read)
          /\ UNCHANGED <<master, attempt, job, record, signed, snapshot>>
        BY DEF IInv, CheckInv, ReadBranch
    <1>2. /\ check'.step = "idle"
          /\ check' \in [step : {"idle", "run", "records", "branch"},
                         snap : Snapshots \cup {None}, read : [Names -> Records \cup {None}]]
        BY <1>1 DEF Idle
    <1>3. CheckInv'
        BY <1>2 DEF CheckInv
    <1>4. /\ accepted' \subseteq Snapshots /\ check.snap.commit \in Nat
          /\ \A s \in accepted' : s.commit <= master
        BY <1>1, Known, Constants DEF IInv, TypeOK, PushInv
    <1>5. AcceptedIsSigned'
        <2>1. ASSUME NEW n \in Names
              PROVE  <<check.snap.commit, n, [image |-> check.snap.images[n],
                                             attempt |-> check.snap.attempt]>> \in signed
            <3>1. /\ check.read[n] # None /\ check.read[n].attempt = check.snap.attempt
                  /\ check.read[n].image = check.snap.images[n]
                BY <1>1 DEF Matches, ValidRecord
            <3>2. check.read[n] \in Records
                BY <1>1, <3>1 DEF TypeOK
            <3>3. check.read[n] = [image |-> check.snap.images[n], attempt |-> check.snap.attempt]
                BY <3>1, <3>2 DEF Records
            <3>4. <<check.snap.commit, n, check.read[n]>> \in signed
                BY <3>1 DEF IInv, CheckInv, ReadBranch
            <3> QED BY <3>3, <3>4
        <2> QED BY <1>1, <2>1 DEF IInv, AcceptedIsSigned
    <1> QED BY <1>1, <1>2, <1>3, <1>4, <1>5, CheckKeeps

LEMMA StepKeeps == IInv /\ [Next]_vars => IInv'
    <1> SUFFICES ASSUME IInv, [Next]_vars PROVE IInv'
        OBVIOUS
    <1>1. CASE UNCHANGED vars
        BY <1>1 DEF vars, IInv, TypeOK, PushInv, SignInv, GreenInv, CheckInv, Vouched, Success,
                    AcceptedIsSigned
    <1>2. CASE Push
        BY <1>2, PushKeeps
    <1>3. ASSUME NEW c \in Commits,
                 RerunAll(c) \/ RerunFailed(c) \/ \E j \in Jobs : RerunJob(c, j)
          PROVE  IInv'
        BY <1>3, RerunsKeep
    <1>4. ASSUME NEW c \in Commits,
                 \/ \E n \in Names : BuildImage(c, n) \/ SignImage(c, n)
                 \/ PrepareSnapshot(c) \/ Download(c)
          PROVE  IInv'
        BY <1>4, BuildKeeps, SignKeeps, PrepareKeeps, DownloadKeeps
    <1>5. CASE ReadRun \/ Compare \/ Abandon \/ \E n \in Names : ReadRecord(n)
        BY <1>5, ReadKeeps
    <1>6. CASE ReadBranch
        BY <1>6, BranchKeeps
    <1> QED BY <1>1, <1>2, <1>3, <1>4, <1>5, <1>6 DEF Next

LEMMA Inductive == Spec => []IInv
    BY InitIInv, StepKeeps, PTL DEF Spec

-----------------------------------------------------------------------------
(* Jobs, records, signatures, snapshots and the check keep their types. *)
THEOREM ReleaseTypeOK == Spec => []TypeOK
    <1>1. IInv => TypeOK
        BY DEF IInv
    <1> QED BY <1>1, Inductive, PTL

(* Whatever attempts ran and were re-run between the reads of verify_release,
   each digest of a snapshot it passes was signed by the attempt it names. *)
THEOREM AcceptedSnapshotsAreSigned == Spec => []AcceptedIsSigned
    <1>1. IInv => AcceptedIsSigned
        BY DEF IInv
    <1> QED BY <1>1, Inductive, PTL

(* A green run of ci.yml is one attempt, however it was re-run: its records,
   signatures and snapshot belong together. *)
THEOREM GreenRunsAreOneAttempt == Spec => []GreenIsOneAttempt
    <1>1. IInv => GreenIsOneAttempt
        <2> SUFFICES ASSUME IInv, NEW c \in Commits, Success(c)
                     PROVE  /\ snapshot[c] # None /\ snapshot[c].attempt = attempt[c]
                            /\ \A n \in Names :
                                 /\ record[c][n] # None /\ record[c][n].attempt = attempt[c]
                                 /\ record[c][n].image = snapshot[c].images[n]
                                 /\ <<c, n, record[c][n]>> \in signed
            BY DEF GreenIsOneAttempt
        <2>1. job[c][Snapshot] = "ok" /\ \A n \in Names : job[c][Sgn(n)] = "ok"
            BY JobNames DEF Success
        <2> QED BY <2>1 DEF IInv, SignInv, GreenInv
    <1> QED BY <1>1, Inductive, PTL

(* The releases verify_release passes only move forward on master. *)
THEOREM ReleasesNeverGoBack == Spec => NeverBackwards
    <1> DEFINE Forward == \A s \in accepted' \ accepted, t \in accepted : t.commit <= s.commit
    <1>1. IInv /\ [Next]_vars => Forward
        <2> SUFFICES ASSUME IInv, [Next]_vars, NEW s \in accepted' \ accepted, NEW t \in accepted
                     PROVE  t.commit <= s.commit
            OBVIOUS
        <2>1. ReadBranch
            <3>1. Push => UNCHANGED accepted
                BY DEF Push
            <3>2. \A c \in Commits :
                      RerunAll(c) \/ RerunFailed(c) \/ (\E j \in Jobs : RerunJob(c, j))
                        => UNCHANGED accepted
                BY DEF RerunAll, RerunFailed, RerunJob, Rerun
            <3>3. \A c \in Commits :
                      (\E n \in Names : BuildImage(c, n) \/ SignImage(c, n))
                        \/ PrepareSnapshot(c) \/ Download(c)
                        => UNCHANGED accepted
                BY DEF BuildImage, SignImage, PrepareSnapshot, Download
            <3>4. ReadRun \/ Compare \/ Abandon \/ (\E n \in Names : ReadRecord(n))
                    => UNCHANGED accepted
                BY DEF ReadRun, Compare, Abandon, ReadRecord
            <3>5. UNCHANGED vars => UNCHANGED accepted
                BY DEF vars
            <3> QED BY <3>1, <3>2, <3>3, <3>4, <3>5 DEF Next
        <2>2. s.commit = master
            BY <2>1 DEF ReadBranch
        <2> QED BY <2>2 DEF IInv, PushInv
    <1>2. IInv /\ [Next]_vars => [Forward]_vars
        BY <1>1
    <1>3. Spec => [][Forward]_vars
        <2> HIDE DEF Forward
        <2> QED BY <1>2, Inductive, PTL DEF Spec
    <1> QED BY <1>3 DEF NeverBackwards

==============================================================================
