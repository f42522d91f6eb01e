--------------------------- MODULE ClusterProofs ---------------------------
(***************************************************************************)
(* What runs on a cluster, and what is done to it.  The first part is      *)
(* about Deployment: for any number of pods, images, starts and crashes,   *)
(* what the lock, the transaction and the marker file guarantee.  The      *)
(* second is about Rehearsal: for any number of scripts, kills and         *)
(* retirements, and a failure of any command, what the operator's scripts  *)
(* leave behind.                                                           *)
(***************************************************************************)
EXTENDS Deployment, Rehearsal, SequenceTheorems, TLAPS

-----------------------------------------------------------------------------
(* Deployment.                                                             *)

(* What the bootstrap has left on the volume, by the step it has come to.  *)
LeftBefore ==
    [version |-> {"files"}, hba |-> {"files", "version"},
     start |-> {"files", "version", "hba"}, createdb |-> {"files", "version", "hba"},
     roles |-> Items \ {"roles", "marker"}, stop |-> Items \ {"marker"},
     touch |-> Items \ {"marker"}]

(* The marker is the last thing written, and a running bootstrap has done  *)
(* exactly the steps before its own.                                       *)
BootInv ==
    /\ "marker" \in disk => disk = Items
    /\ "version" \notin disk => disk \subseteq {"files"}
    /\ boot = "initdb" => disk \cap {"version", "marker"} = {}
    /\ boot \in DOMAIN LeftBefore => disk = LeftBefore[boot]
    /\ boot = "up" => disk = Items

(* The section is exclusive, and what its owner has read still holds.      *)
SectionInv ==
    /\ LockIsHeldInside
    /\ \A p \in Pods : pod[p].step = "upgrade" =>
          pod[p].from = schema /\ schema <= pod[p].image
    /\ \A p \in Pods : pod[p].ok =>
          pod[p].step \in {"unlock", "serve"} /\ schema >= pod[p].image
    /\ ServesItsSchema
    /\ EachRevisionOnce

IInv == TypeOK /\ BootInv /\ SectionInv

Bootstrap == Boot \/ Check \/ InitDb \/ BootStep \/ Recover

Pod(p) ==
    \/ \E v \in Versions : Start(p, v)
    \/ Connect(p) \/ Poll(p) \/ ReadRevision(p)
    \/ Upgrade(p) \/ UpgradeFails(p) \/ Unlock(p) \/ Die(p)

PodRecord == [step : PodSteps, image : Versions \cup {0}, left : 0 .. Polls,
              from : Versions \cup {0}, ok : BOOLEAN]

-----------------------------------------------------------------------------
(* The revisions 1 .. b, in order, and the batch a+1 .. b.                 *)
OneTo(b, s) == Len(s) = b /\ \A n \in 1 .. b : s[n] = n
NextUpTo(a, b, s) == s \in [1 .. b - a -> Nat] /\ \A n \in 1 .. b - a : s[n] = a + n

(* A batch appended to the revisions before it.                            *)
LEMMA Batch ==
    ASSUME NEW a \in Nat, NEW b \in Nat, a <= b, NEW s \in Seq(Nat), OneTo(a, s),
           NEW new, NextUpTo(a, b, new), NEW t, t = s \o new
    PROVE  t \in Seq(Nat) /\ OneTo(b, t)
    <1> USE DEF OneTo, NextUpTo
    <1>0. t = s \o new
        OBVIOUS
    <1>1. b - a \in Nat /\ a + (b - a) = b
        OBVIOUS
    <1>2. new \in [1 .. b - a -> Nat]
        OBVIOUS
    <1>3. new \in Seq(Nat)
        BY <1>1, <1>2, SeqDef
    <1>4. Len(new) = b - a
        BY <1>1, <1>2, <1>3, LenProperties
    <1>5. \A n \in 1 .. b - a : new[n] = a + n
        OBVIOUS
    <1>6. /\ t \in Seq(Nat) /\ Len(t) = b
          /\ \A i \in 1 .. b : t[i] = IF i <= a THEN s[i] ELSE new[i - a]
        <2>1. /\ s \o new \in Seq(Nat)
              /\ Len(s \o new) = Len(s) + Len(new)
              /\ \A i \in 1 .. Len(s) + Len(new) :
                    (s \o new)[i] = IF i <= Len(s) THEN s[i] ELSE new[i - Len(s)]
            <3>1. s \in Seq(Nat)
                OBVIOUS
            <3> HIDE DEF OneTo, NextUpTo
            <3> QED BY <3>1, <1>3, ConcatProperties
        <2>2. Len(s) = a /\ Len(s) + Len(new) = b
            BY <1>1, <1>4
        <2> HIDE DEF OneTo, NextUpTo
        <2> QED BY <2>1, <2>2, <1>0
    <1>7. \A i \in 1 .. b : t[i] = i
        <2> SUFFICES ASSUME NEW i \in 1 .. b PROVE t[i] = i
            OBVIOUS
        <2>1. t[i] = IF i <= a THEN s[i] ELSE new[i - a]
            BY <1>6
        <2>2. CASE i <= a
            BY <2>1, <2>2
        <2>3. CASE ~(i <= a)
            <3>1. i - a \in 1 .. b - a /\ a + (i - a) = i
                BY <2>3
            <3> QED BY <2>1, <2>3, <3>1, <1>5
        <2> QED BY <2>2, <2>3
    <1> QED BY <1>6, <1>7

LEMMA InitIInv == Init => IInv
    <1> SUFFICES ASSUME Init PROVE IInv
        OBVIOUS
    <1> USE DeploymentAssumption DEF Init
    <1>1. TypeOK
        BY DEF TypeOK, Off, PodSteps, BootSteps, Items
    <1>2. BootInv
        BY DEF BootInv, LeftBefore
    <1>3. SectionInv
        BY DEF SectionInv, LockIsHeldInside, ServesItsSchema, EachRevisionOnce, Off
    <1> QED BY <1>1, <1>2, <1>3 DEF IInv

(* A step of the database pod that does not end its server.                *)
LEMMA BootstrapKeeps == IInv /\ Bootstrap => IInv'
    <1> SUFFICES ASSUME IInv, Bootstrap PROVE IInv'
        OBVIOUS
    <1> USE DeploymentAssumption DEF IInv
    <1>1. UNCHANGED <<schema, applied, holder, pod, starts>>
        BY DEF Bootstrap, Boot, Check, InitDb, BootStep, Recover, DatabasePod
    <1>2. SectionInv'
        BY <1>1 DEF SectionInv, LockIsHeldInside, ServesItsSchema, EachRevisionOnce
    <1>3. disk' \subseteq Items /\ boot' \in BootSteps /\ boots' \in 0 .. MaxBoots /\ BootInv'
        <2>1. CASE Boot
            BY <2>1 DEF Boot, TypeOK, BootSteps, BootInv, LeftBefore
        <2>2. CASE Check
            BY <2>2 DEF Check, DatabasePod, TypeOK, BootSteps, BootInv, LeftBefore, Items
        <2>3. CASE InitDb
            <3>1. CASE "files" \in disk
                BY <2>3, <3>1 DEF InitDb, DatabasePod, TypeOK, BootSteps, BootInv, LeftBefore
            <3>2. CASE "files" \notin disk
                <4>1. boot' = "version" /\ disk' = disk \cup {"files"} /\ boots' = boots
                    BY <2>3, <3>2 DEF InitDb, DatabasePod
                <4>2. disk \subseteq {"files"}
                    BY <2>3 DEF InitDb, BootInv
                <4>3. disk' = {"files"}
                    BY <4>1, <4>2
                <4> QED BY <4>1, <4>3 DEF TypeOK, BootSteps, BootInv, LeftBefore, Items
            <3> QED BY <3>1, <3>2
        <2>4. CASE BootStep
            <3>1. disk' = disk \cup Leaves[boot] /\ boot' = Then[boot] /\ boots' = boots
                BY <2>4 DEF BootStep, DatabasePod
            <3>2. boot \in {"version", "hba", "start", "createdb", "roles", "stop", "touch"}
                BY <2>4 DEF BootStep, Leaves
            <3>3. disk = LeftBefore[boot]
                BY <3>2 DEF BootInv, LeftBefore
            <3>4. CASE boot \in {"version", "hba", "start", "createdb", "roles", "stop"}
                <4>1. /\ boot' \in {"hba", "start", "createdb", "roles", "stop", "touch"}
                      /\ disk' = LeftBefore[boot']
                    BY <3>1, <3>3, <3>4 DEF LeftBefore, Leaves, Then, Items
                <4>2. disk' \subseteq Items /\ "marker" \notin disk' /\ "version" \in disk'
                    BY <4>1 DEF LeftBefore, Items
                <4> QED BY <3>1, <4>1, <4>2 DEF TypeOK, BootSteps, BootInv, LeftBefore
            <3>5. CASE boot = "touch"
                <4>1. boot' = "up" /\ disk' = Items
                    BY <3>1, <3>3, <3>5 DEF LeftBefore, Leaves, Then, Items
                <4> QED BY <3>1, <4>1 DEF TypeOK, BootSteps, BootInv, LeftBefore, Items
            <3> QED BY <3>2, <3>4, <3>5
        <2>5. CASE Recover
            BY <2>5 DEF Recover, DatabasePod, TypeOK, BootSteps, BootInv, LeftBefore
        <2> QED BY <2>1, <2>2, <2>3, <2>4, <2>5 DEF Bootstrap
    <1>4. TypeOK'
        BY <1>1, <1>3 DEF TypeOK
    <1> QED BY <1>2, <1>3, <1>4

(* The server ends: every session, and so every lock, with it.             *)
LEMMA BootDiesKeeps == IInv /\ BootDies => IInv'
    <1> SUFFICES ASSUME IInv, BootDies PROVE IInv'
        OBVIOUS
    <1> USE DeploymentAssumption DEF IInv
    <1>1. TypeOK'
        BY DEF TypeOK, BootDies, BootSteps, Off, PodSteps
    <1>2. BootInv'
        BY DEF BootInv, BootDies, LeftBefore
    <1>3. \A p \in Pods : pod'[p] = IF pod[p].step \in InSession THEN Off ELSE pod[p]
        BY DEF BootDies
    <1>4. holder' = Nobody /\ schema' = schema /\ applied' = applied
        BY DEF BootDies
    <1>5. \A p \in Pods : /\ pod'[p].step \notin {"read", "upgrade", "unlock"}
                          /\ pod'[p].ok => pod'[p] = pod[p]
                          /\ pod'[p].step = "serve" => pod'[p] = pod[p]
        BY <1>3 DEF Off, InSession
    <1>6. SectionInv'
        BY <1>4, <1>5 DEF SectionInv, LockIsHeldInside, ServesItsSchema, EachRevisionOnce
    <1> QED BY <1>1, <1>2, <1>6

(* A step of a pod changes that pod, the lock and the schema.              *)
LEMMA PodKeeps ==
    ASSUME IInv, NEW p \in Pods, Pod(p)
    PROVE  IInv'
    <1> USE DeploymentAssumption DEF IInv
    <1>1. disk' = disk /\ boot' = boot /\ boots' = boots
        BY DEF Pod, Start, Connect, Poll, ReadRevision, Upgrade, UpgradeFails, Unlock, Die,
               Database
    <1>2. BootInv'
        BY <1>1 DEF BootInv
    <1>3. /\ pod \in [Pods -> PodRecord] /\ pod[p] \in PodRecord
          /\ schema \in Nat /\ holder \in Pods \cup {Nobody} /\ applied \in Seq(Nat)
          /\ starts \in 0 .. MaxStarts
          /\ \A q \in Pods : pod[q].image \in Nat /\ pod[q].from \in Nat
        <2>1. /\ pod \in [Pods -> PodRecord] /\ holder \in Pods \cup {Nobody}
              /\ schema \in Versions \cup {0} /\ applied \in Seq(Nat)
              /\ starts \in 0 .. MaxStarts
            BY DEF TypeOK, PodRecord
        <2>2. Versions \cup {0} \subseteq Nat
            OBVIOUS
        <2>3. \A q \in Pods : pod[q] \in PodRecord
            BY <2>1
        <2>4. \A q \in Pods : pod[q].image \in Versions \cup {0} /\ pod[q].from \in Versions \cup {0}
            BY <2>3 DEF PodRecord
        <2> QED BY <2>1, <2>2, <2>3, <2>4
    <1> DEFINE Moved(r) == pod' = [pod EXCEPT ![p] = r]
    <1>4. ASSUME NEW r \in PodRecord, Moved(r)
          PROVE  /\ pod' \in [Pods -> PodRecord] /\ pod'[p] = r
                 /\ \A q \in Pods \ {p} : pod'[q] = pod[q]
        BY <1>3, <1>4
    <1>5. ASSUME NEW r \in PodRecord, Moved(r), schema' = schema, applied' = applied,
                 starts' \in 0 .. MaxStarts, holder' \in {holder, p, Nobody},
                 holder' = p => holder \in {p, Nobody},
                 holder' = Nobody => holder \in {p, Nobody},
                 holder' = p <=> r.step \in {"read", "upgrade", "unlock"},
                 r.step = "upgrade" => r.from = schema /\ schema <= r.image,
                 r.ok => r.step \in {"unlock", "serve"} /\ schema >= r.image,
                 r.step = "serve" => schema >= r.image
          PROVE  IInv'
        <2>1. TypeOK'
            BY <1>1, <1>4, <1>5 DEF TypeOK, PodRecord
        <2>2. LockIsHeldInside'
            <3> SUFFICES ASSUME NEW q \in Pods
                         PROVE  holder' = q <=> pod'[q].step \in {"read", "upgrade", "unlock"}
                BY DEF LockIsHeldInside
            <3>1. CASE q = p
                BY <3>1, <1>4, <1>5
            <3>2. CASE q # p
                <4>1. pod'[q] = pod[q]
                    BY <3>2, <1>4, <1>5
                <4>2. holder = q <=> pod[q].step \in {"read", "upgrade", "unlock"}
                    BY DEF SectionInv, LockIsHeldInside
                <4>3. holder' = q <=> holder = q
                    BY <3>2, <1>5
                <4> QED BY <4>1, <4>2, <4>3
            <3> QED BY <3>1, <3>2
        <2>3. \A q \in Pods :
                 /\ pod'[q].step = "upgrade" => pod'[q].from = schema /\ schema <= pod'[q].image
                 /\ pod'[q].ok => pod'[q].step \in {"unlock", "serve"} /\ schema >= pod'[q].image
                 /\ pod'[q].step = "serve" => schema >= pod'[q].image
            BY <1>4, <1>5 DEF SectionInv, ServesItsSchema
        <2>4. EachRevisionOnce'
            BY <1>5 DEF SectionInv, EachRevisionOnce
        <2>5. SectionInv'
            BY <2>2, <2>3, <2>4, <1>5 DEF SectionInv, ServesItsSchema
        <2> QED BY <2>1, <1>2, <2>5
    <1>6. Off \in PodRecord /\ Off.step = "off" /\ ~Off.ok
        BY DEF Off, PodRecord, PodSteps
    <1>7. holder = p <=> pod[p].step \in {"read", "upgrade", "unlock"}
        BY DEF SectionInv, LockIsHeldInside
    <1>8. pod[p].ok => pod[p].step \in {"unlock", "serve"} /\ schema >= pod[p].image
        BY DEF SectionInv
    <1>a. ASSUME NEW v \in Versions, Start(p, v) PROVE IInv'
        <2> DEFINE r == [Off EXCEPT !.step = "connect", !.image = v, !.left = Polls]
        <2>1. r \in PodRecord /\ r.step = "connect" /\ ~r.ok
            <3>1. Polls \in 0 .. Polls
                OBVIOUS
            <3>2. Off \in PodRecord
                BY <1>6
            <3>3. Off.step # "connect" /\ ~Off.ok
                BY <1>6
            <3> HIDE DEF Off
            <3> QED BY <3>1, <3>2, <3>3 DEF PodRecord, PodSteps
        <2>2. /\ Moved(r) /\ schema' = schema /\ applied' = applied /\ holder' = holder
              /\ starts' \in 0 .. MaxStarts /\ holder # p
            BY <1>a, <1>3, <1>7 DEF Start, Become
        <2> QED BY <2>1, <2>2, <1>5
    <1>b. CASE Connect(p)
        <2> DEFINE r == IF boot = "up" THEN [pod[p] EXCEPT !.step = "try"] ELSE Off
        <2>1. r \in PodRecord /\ r.step \in {"try", "off"} /\ ~r.ok
            BY <1>b, <1>3, <1>6, <1>8 DEF Connect, PodRecord, PodSteps
        <2>2. /\ Moved(r) /\ schema' = schema /\ applied' = applied /\ holder' = holder
              /\ starts' \in 0 .. MaxStarts /\ holder # p
            BY <1>b, <1>3, <1>7 DEF Connect, Become
        <2> QED BY <2>1, <2>2, <1>5
    <1>c. CASE Poll(p)
        <2>1. CASE holder = Nobody
            <3> DEFINE r == [pod[p] EXCEPT !.step = "read"]
            <3>1. r \in PodRecord /\ r.step = "read" /\ ~r.ok
                BY <1>c, <1>3, <1>8 DEF Poll, PodRecord, PodSteps
            <3>2. /\ Moved(r) /\ schema' = schema /\ applied' = applied /\ holder' = p
                  /\ starts' \in 0 .. MaxStarts
                BY <1>c, <2>1, <1>3 DEF Poll, Become
            <3> QED BY <2>1, <3>1, <3>2, <1>5
        <2>2. CASE holder # Nobody
            <3> DEFINE r == IF pod[p].left = 0 THEN Off ELSE [pod[p] EXCEPT !.left = @ - 1]
            <3>1. r \in PodRecord /\ r.step \in {"try", "off"} /\ ~r.ok
                <4>1. pod[p].step = "try" /\ ~pod[p].ok /\ pod[p].left \in 0 .. Polls
                    BY <1>c, <1>3, <1>8 DEF Poll, PodRecord
                <4>2. CASE pod[p].left = 0
                    BY <4>2, <1>6
                <4>3. CASE pod[p].left # 0
                    <5>1. pod[p].left - 1 \in 0 .. Polls
                        BY <4>1, <4>3
                    <5> QED BY <4>1, <4>3, <5>1, <1>3 DEF PodRecord
                <4> QED BY <4>2, <4>3
            <3>2. /\ Moved(r) /\ schema' = schema /\ applied' = applied /\ holder' = holder
                  /\ starts' \in 0 .. MaxStarts /\ holder # p
                BY <1>c, <2>2, <1>3, <1>7 DEF Poll, Become
            <3> QED BY <2>2, <3>1, <3>2, <1>5
        <2> QED BY <2>1, <2>2
    <1>d. CASE ReadRevision(p)
        <2> DEFINE r == IF schema > pod[p].image THEN [pod[p] EXCEPT !.step = "unlock"]
                        ELSE [pod[p] EXCEPT !.step = "upgrade", !.from = schema]
        <2>1. /\ r \in PodRecord /\ r.step \in {"unlock", "upgrade"} /\ ~r.ok
              /\ r.step = "upgrade" => r.from = schema /\ schema <= r.image
            <3>1. pod[p].step = "read" /\ ~pod[p].ok /\ schema \in Versions \cup {0}
                BY <1>d, <1>8 DEF ReadRevision, TypeOK
            <3>2. CASE schema > pod[p].image
                <4>1. r = [pod[p] EXCEPT !.step = "unlock"]
                    BY <3>2
                <4> HIDE DEF r
                <4> QED BY <4>1, <3>1, <1>3 DEF PodRecord, PodSteps
            <3>3. CASE ~(schema > pod[p].image)
                <4>1. r = [pod[p] EXCEPT !.step = "upgrade", !.from = schema]
                    BY <3>3
                <4>2. schema <= pod[p].image
                    BY <3>3, <1>3
                <4> HIDE DEF r
                <4> QED BY <4>1, <4>2, <3>1, <1>3 DEF PodRecord, PodSteps
            <3> QED BY <3>2, <3>3
        <2>2. /\ Moved(r) /\ schema' = schema /\ applied' = applied /\ holder' = holder
              /\ starts' \in 0 .. MaxStarts /\ holder = p
            BY <1>d, <1>3, <1>7 DEF ReadRevision, Become
        <2> QED BY <2>1, <2>2, <1>5
    <1>e. CASE Upgrade(p)
        <2> DEFINE r == [pod[p] EXCEPT !.step = "unlock", !.ok = TRUE]
        <2>1. r \in PodRecord /\ r.step = "unlock" /\ r.ok /\ r.image = pod[p].image
            BY <1>3 DEF PodRecord, PodSteps
        <2>2. /\ Moved(r) /\ holder' = holder /\ starts' = starts /\ holder = p
              /\ schema' = pod[p].image
              /\ applied' = applied \o [n \in 1 .. pod[p].image - pod[p].from |-> pod[p].from + n]
            BY <1>e, <1>7 DEF Upgrade, Become
        <2>3. pod[p].from = schema /\ schema <= pod[p].image
            BY <1>e DEF Upgrade, SectionInv
        <2>4. /\ applied' \in Seq(Nat) /\ Len(applied') = schema'
              /\ \A n \in 1 .. Len(applied') : applied'[n] = n
            <3>1. Len(applied) = schema /\ \A n \in 1 .. Len(applied) : applied[n] = n
                BY DEF SectionInv, EachRevisionOnce
            <3> DEFINE batch == [n \in 1 .. pod[p].image - schema |-> schema + n]
            <3>2. applied' = applied \o batch
                BY <2>2, <2>3
            <3>3. pod[p].image \in Nat /\ schema \in Nat /\ applied \in Seq(Nat)
                BY <1>3 DEF PodRecord, TypeOK
            <3>5. /\ batch \in [1 .. pod[p].image - schema -> Nat]
                  /\ \A n \in 1 .. pod[p].image - schema : batch[n] = schema + n
                BY <3>3
            <3> HIDE DEF batch, r
            <3>4. /\ applied' \in Seq(Nat) /\ Len(applied') = pod[p].image
                  /\ \A n \in 1 .. Len(applied') : applied'[n] = n
                <4> DEFINE image == pod[p].image
                           after == applied'
                <4>1. image \in Nat /\ schema <= image
                    BY <2>3, <3>3
                <4>2. NextUpTo(schema, image, batch)
                    BY <3>5 DEF NextUpTo
                <4>3. after = applied \o batch
                    BY <3>2
                <4>4. OneTo(schema, applied)
                    BY <3>1 DEF OneTo
                <4> HIDE DEF image, after
                <4>5. after \in Seq(Nat) /\ OneTo(image, after)
                    BY <3>3, <4>1, <4>2, <4>3, <4>4, Batch
                <4> QED BY <4>5 DEF image, after, OneTo
            <3> QED BY <2>2, <3>4
        <2>5. schema' >= schema /\ schema' \in Versions \cup {0}
            BY <2>2, <2>3, <1>3 DEF PodRecord
        <2>6. TypeOK'
            BY <1>1, <1>3, <1>4, <2>1, <2>2, <2>4, <2>5 DEF TypeOK, PodRecord
        <2>7. \A q \in Pods \ {p} : pod'[q] = pod[q]
                                    /\ pod[q].step \notin {"read", "upgrade", "unlock"}
            BY <1>4, <2>1, <2>2 DEF SectionInv, LockIsHeldInside
        <2>8. LockIsHeldInside'
            BY <1>4, <2>1, <2>2, <2>7 DEF LockIsHeldInside
        <2>9. \A q \in Pods :
                 /\ pod'[q].step # "upgrade"
                 /\ pod'[q].ok => pod'[q].step \in {"unlock", "serve"} /\ schema' >= pod'[q].image
                 /\ pod'[q].step = "serve" => schema' >= pod'[q].image
            <3> SUFFICES ASSUME NEW q \in Pods
                         PROVE /\ pod'[q].step # "upgrade"
                               /\ pod'[q].ok => /\ pod'[q].step \in {"unlock", "serve"}
                                                /\ schema' >= pod'[q].image
                               /\ pod'[q].step = "serve" => schema' >= pod'[q].image
                OBVIOUS
            <3>1. CASE q = p
                BY <3>1, <1>3, <1>4, <2>1, <2>2
            <3>2. CASE q # p
                <4>1. pod'[q] = pod[q] /\ pod[q].step \notin {"read", "upgrade", "unlock"}
                    BY <3>2, <2>7
                <4>2. /\ pod[q].ok => pod[q].step \in {"unlock", "serve"} /\ schema >= pod[q].image
                      /\ pod[q].step = "serve" => schema >= pod[q].image
                    BY DEF SectionInv, ServesItsSchema
                <4>3. schema' \in Nat /\ pod[q].image \in Nat
                    BY <1>3, <2>2
                <4> QED BY <4>1, <4>2, <4>3, <2>5, <1>3
            <3> QED BY <3>1, <3>2
        <2> QED BY <1>2, <2>4, <2>6, <2>8, <2>9
                DEF SectionInv, ServesItsSchema, EachRevisionOnce
    <1>f. CASE UpgradeFails(p)
        <2> DEFINE r == [pod[p] EXCEPT !.step = "unlock"]
        <2>1. r \in PodRecord /\ r.step = "unlock" /\ ~r.ok
            BY <1>f, <1>3, <1>8 DEF UpgradeFails, PodRecord, PodSteps
        <2>2. /\ Moved(r) /\ schema' = schema /\ applied' = applied /\ holder' = holder
              /\ starts' \in 0 .. MaxStarts /\ holder = p
            BY <1>f, <1>3, <1>7 DEF UpgradeFails, Become
        <2> QED BY <2>1, <2>2, <1>5
    <1>g. CASE Unlock(p)
        <2> DEFINE r == IF pod[p].ok THEN [pod[p] EXCEPT !.step = "serve"] ELSE Off
        <2>1. /\ r \in PodRecord /\ r.step \in {"serve", "off"}
              /\ r.ok => r.step = "serve"
              /\ r.step = "serve" => schema >= r.image
            BY <1>3, <1>6, <1>8 DEF PodRecord, PodSteps
        <2>2. /\ Moved(r) /\ schema' = schema /\ applied' = applied /\ holder' = Nobody
              /\ starts' \in 0 .. MaxStarts /\ holder = p
            BY <1>g, <1>3, <1>7 DEF Unlock, Become
        <2> QED BY <2>1, <2>2, <1>5
    <1>h. CASE Die(p)
        <2>1. /\ Moved(Off) /\ schema' = schema /\ applied' = applied
              /\ holder' = IF holder = p THEN Nobody ELSE holder
              /\ starts' \in 0 .. MaxStarts
            BY <1>h, <1>3 DEF Die, Become
        <2> QED BY <2>1, <1>6, <1>5
    <1> QED BY <1>a, <1>b, <1>c, <1>d, <1>e, <1>f, <1>g, <1>h DEF Pod

LEMMA StepKeeps == IInv /\ [Next]_vars => IInv'
    <1> SUFFICES ASSUME IInv, [Next]_vars PROVE IInv'
        OBVIOUS
    <1>1. CASE Bootstrap
        BY <1>1, BootstrapKeeps
    <1>2. CASE BootDies
        BY <1>2, BootDiesKeeps
    <1>3. ASSUME NEW p \in Pods, Pod(p) PROVE IInv'
        BY <1>3, PodKeeps
    <1>4. CASE UNCHANGED vars
        BY <1>4 DEF vars, IInv, TypeOK, BootInv, SectionInv, LockIsHeldInside,
                    ServesItsSchema, EachRevisionOnce
    <1> QED BY <1>1, <1>2, <1>3, <1>4 DEF Next, Bootstrap, Pod

LEMMA AlwaysIInv == Spec => []IInv
    BY InitIInv, StepKeeps, PTL DEF Spec

(* The variables of a deployment stay within their types.                  *)
THEOREM DeploymentTypeOK == Spec => []TypeOK
    <1>1. IInv => TypeOK
        BY DEF IInv
    <1> QED BY <1>1, AlwaysIInv, PTL

(* However often the first start of the database is cut off, its server    *)
(* only runs on a complete volume (bootstrap-db.sh 11-34).                 *)
THEOREM ServerIsBootstrapped == Spec => []ServerNeedsBootstrap
    <1>1. IInv => ServerNeedsBootstrap
        BY DEF IInv, BootInv, ServerNeedsBootstrap
    <1> QED BY <1>1, AlwaysIInv, PTL

(* For any number of pods, the lock is held exactly inside the section     *)
(* (migration_lock.py 13-36).                                              *)
THEOREM LockIsExclusive == Spec => []LockIsHeldInside
    <1>1. IInv => LockIsHeldInside
        BY DEF IInv, SectionInv
    <1> QED BY <1>1, AlwaysIInv, PTL

(* Each revision runs once and in order, whatever is killed in between     *)
(* (env.py 63-73).                                                         *)
THEOREM RevisionsRunOnce == Spec => []EachRevisionOnce
    <1>1. IInv => EachRevisionOnce
        BY DEF IInv, SectionInv
    <1> QED BY <1>1, AlwaysIInv, PTL

(* No web pod serves on a database without the revisions of its image      *)
(* (templates/web.yaml 37-41).                                             *)
THEOREM PodsServeTheirSchema == Spec => []ServesItsSchema
    <1>1. IInv => ServesItsSchema
        BY DEF IInv, SectionInv
    <1> QED BY <1>1, AlwaysIInv, PTL


-----------------------------------------------------------------------------
(* Rehearsal.  First, what each command of a script may be, and what the   *)
(* blocks of a script owe each other.                                      *)

Makers == {"apply", "create", "open", "keep", "issue", "deploy"}
Touchers == {"apply", "create", "open", "drop", "close"}
Secrets == Credentials \cup {"database"}
Kept == Retained \cup {"database"}

(* It replaces or removes nothing that is to be kept.                      *)
Gentle(c) ==
    /\ c.op \in Touchers => c.what \notin Kept
    /\ c.op = "deploy" => c.what = "database"

(* It leaves the credentials and the volume as they are.                   *)
Mild(c) ==
    /\ Gentle(c)
    /\ c.op \notin {"fresh", "issue", "deploy"}
    /\ c.op = "keep" => c.what \notin Secrets

(* It leaves the signing key, too.                                         *)
Sparing(c) == Mild(c) /\ c.op # "renew"

(* What it makes may stay when the script is over.                         *)
Lasting(c) == c.op \in Makers => c.what \notin Temporary

(* The finally of B begins with the removal of n, its k-th command, and    *)
(* what it asks for before is that removal.                                *)
RemovesAt(B, n, k) ==
    /\ k <= Len(B.undo) /\ B.undo[k].op \in {"drop", "close"} /\ B.undo[k].what = n
    /\ k = 2 => B.undo[1].op = "ask" /\ B.undo[1].what = n

Removes(B, n) == \E k \in 1 .. 2 : RemovesAt(B, n, k)

(* A script removes what it makes for itself: in the finally of the block  *)
(* that makes it, or, made by the last command before a try statement, in  *)
(* the finally of that statement.                                          *)
HandedOver(S, b, n) ==
    Len(S[b].undo) = 0 /\ b < Len(S) /\ Removes(S[b + 1], n)

TidyBlock(S, b) ==
    /\ Len(S[b].do) \in Nat /\ Len(S[b].undo) \in Nat
    /\ \A i \in 1 .. Len(S[b].undo) : Lasting(S[b].undo[i])
    /\ \A i \in 1 .. Len(S[b].do) :
          \/ Lasting(S[b].do[i])
          \/ Removes(S[b], S[b].do[i].what)
          \/ i = Len(S[b].do) /\ HandedOver(S, b, S[b].do[i].what)

Tidy(S) == Len(S) \in Nat /\ \A b \in 1 .. Len(S) : TidyBlock(S, b)

SparesAll(S) ==
    \A b \in 1 .. Len(S) :
        /\ \A i \in 1 .. Len(S[b].do) : Sparing(S[b].do[i])
        /\ \A i \in 1 .. Len(S[b].undo) : Sparing(S[b].undo[i])

Good(S) == Tidy(S) /\ SparesAll(S)

MildAll(S) ==
    \A b \in 1 .. Len(S) :
        /\ \A i \in 1 .. Len(S[b].do) : Mild(S[b].do[i])
        /\ \A i \in 1 .. Len(S[b].undo) : Mild(S[b].undo[i])

(* Commands that do neither harm, and blocks that need no other.           *)
Fine(c) == Sparing(c) /\ Lasting(c)

Steady(q) == Len(q) \in Nat /\ \A i \in 1 .. Len(q) : Fine(q[i])

OwnBlock(B) ==
    /\ Steady(B.undo)
    /\ Len(B.do) \in Nat
    /\ \A i \in 1 .. Len(B.do) :
          Sparing(B.do[i]) /\ (Lasting(B.do[i]) \/ Removes(B, B.do[i].what))

LEMMA SteadyJoin ==
    ASSUME NEW p, NEW q, Steady(p), Steady(q)
    PROVE  Steady(p \o q)
<1>1. /\ Len(p) \in Nat /\ Len(q) \in Nat /\ Len(p \o q) = Len(p) + Len(q)
      /\ \A i \in 1 .. Len(p) + Len(q) :
            (p \o q)[i] = IF i <= Len(p) THEN p[i] ELSE q[i - Len(p)]
    BY DEF Steady, Fine
<1> DEFINE s == p \o q
<1> HIDE DEF s
<1>2. ASSUME NEW i \in 1 .. Len(s) PROVE Sparing(s[i]) /\ Lasting(s[i])
    <2>1. CASE i <= Len(p)
        BY <1>1, <2>1 DEF Steady, Fine, s
    <2>2. CASE i > Len(p)
        <3>1. i - Len(p) \in 1 .. Len(q) /\ s[i] = q[i - Len(p)]
            BY <1>1, <2>2 DEF s
        <3> QED
            BY <3>1 DEF Steady, Fine
    <2> QED
        BY <1>1, <2>1, <2>2 DEF s
<1> QED
    BY <1>1, <1>2 DEF Steady, Fine, s

LEMMA OwnBlocksAreGood ==
    ASSUME NEW S, Len(S) \in Nat, \A b \in 1 .. Len(S) : OwnBlock(S[b])
    PROVE  Good(S)
    BY DEF Good, Tidy, TidyBlock, SparesAll, OwnBlock, Steady, Fine

LEMMA JoinedBlocks ==
    ASSUME NEW S, NEW T, Len(S) \in Nat, Len(T) \in Nat
    PROVE  /\ Len(S \o T) = Len(S) + Len(T)
           /\ \A b \in 1 .. Len(S) : (S \o T)[b] = S[b]
           /\ \A b \in 1 .. Len(T) : (S \o T)[b + Len(S)] = T[b]
           /\ \A b \in 1 .. Len(S \o T) :
                 b \in 1 .. Len(S) \/ \E a \in 1 .. Len(T) : b = a + Len(S)
<1>1. /\ Len(S \o T) = Len(S) + Len(T)
      /\ \A b \in 1 .. Len(S) + Len(T) :
            (S \o T)[b] = IF b <= Len(S) THEN S[b] ELSE T[b - Len(S)]
    OBVIOUS
<1> DEFINE U == S \o T
<1>2. /\ Len(U) = Len(S) + Len(T)
      /\ \A b \in 1 .. Len(S) : U[b] = S[b]
      /\ \A b \in 1 .. Len(T) : U[b + Len(S)] = T[b]
    BY <1>1
<1> HIDE DEF U
<1>3. ASSUME NEW b \in 1 .. Len(U)
      PROVE  b \in 1 .. Len(S) \/ \E a \in 1 .. Len(T) : b = a + Len(S)
    <2>1. CASE b <= Len(S)
        BY <1>3, <2>1
    <2>2. CASE b > Len(S)
        <3>1. b - Len(S) \in 1 .. Len(T) /\ b = (b - Len(S)) + Len(S)
            BY <1>2, <1>3, <2>2
        <3> QED
            BY <3>1
    <2> QED
        BY <1>2, <1>3, <2>1, <2>2
<1> QED
    BY <1>2, <1>3 DEF U

LEMMA TidyJoin ==
    ASSUME NEW S, NEW T, Tidy(S), Tidy(T)
    PROVE  Tidy(S \o T)
<1> DEFINE U == S \o T
<1>1. Len(S) \in Nat /\ Len(T) \in Nat
    BY DEF Tidy
<1>2. /\ Len(U) = Len(S) + Len(T)
      /\ \A b \in 1 .. Len(S) : U[b] = S[b]
      /\ \A b \in 1 .. Len(T) : U[b + Len(S)] = T[b]
      /\ \A b \in 1 .. Len(U) :
            b \in 1 .. Len(S) \/ \E a \in 1 .. Len(T) : b = a + Len(S)
    BY <1>1, JoinedBlocks
<1> HIDE DEF U
<1>3. ASSUME NEW b \in 1 .. Len(S), TidyBlock(S, b)
      PROVE  TidyBlock(U, b)
    <2>1. U[b] = S[b] /\ (b < Len(S) => U[b + 1] = S[b + 1] /\ b < Len(U))
        BY <1>1, <1>2
    <2>2. \A n : HandedOver(S, b, n) => HandedOver(U, b, n)
        BY <2>1 DEF HandedOver
    <2> QED
        BY <1>3, <2>1, <2>2 DEF TidyBlock
<1>4. ASSUME NEW b \in 1 .. Len(T), TidyBlock(T, b)
      PROVE  TidyBlock(U, b + Len(S))
    <2> DEFINE d == b + Len(S)
    <2>1. U[d] = T[b] /\ (b < Len(T) => U[d + 1] = T[b + 1] /\ d < Len(U))
        <3>1. U[d] = T[b]
            BY <1>2
        <3>2. ASSUME b < Len(T)
              PROVE  U[d + 1] = T[b + 1] /\ d < Len(U)
            <4>1. b + 1 \in 1 .. Len(T) /\ d + 1 = (b + 1) + Len(S) /\ d < Len(U)
                BY <1>1, <1>2, <3>2
            <4> QED
                BY <1>2, <4>1
        <3> QED
            BY <3>1, <3>2
    <2> HIDE DEF d
    <2>2. \A n : HandedOver(T, b, n) => HandedOver(U, d, n)
        BY <2>1 DEF HandedOver
    <2>3. TidyBlock(U, d)
        BY <1>4, <2>1, <2>2 DEF TidyBlock
    <2> QED
        BY <2>3 DEF d
<1>5. \A b \in 1 .. Len(S) : TidyBlock(U, b)
    BY <1>3 DEF Tidy
<1>6. \A b \in 1 .. Len(T) : TidyBlock(U, b + Len(S))
    BY <1>4 DEF Tidy
<1>7. \A b \in 1 .. Len(U) : TidyBlock(U, b)
    BY <1>2, <1>5, <1>6
<1> QED
    BY <1>1, <1>2, <1>7 DEF Tidy, U

LEMMA MildJoin ==
    ASSUME NEW S, NEW T, Len(S) \in Nat, Len(T) \in Nat, MildAll(S), MildAll(T)
    PROVE  MildAll(S \o T)
<1> DEFINE U == S \o T
<1>1. /\ \A b \in 1 .. Len(S) : U[b] = S[b]
      /\ \A b \in 1 .. Len(T) : U[b + Len(S)] = T[b]
      /\ \A b \in 1 .. Len(U) :
            b \in 1 .. Len(S) \/ \E a \in 1 .. Len(T) : b = a + Len(S)
    BY JoinedBlocks
<1> HIDE DEF U
<1>2. \A b \in 1 .. Len(U) : \/ \E a \in 1 .. Len(S) : U[b] = S[a]
                             \/ \E a \in 1 .. Len(T) : U[b] = T[a]
    BY <1>1
<1> QED
    BY <1>2 DEF MildAll, U

LEMMA GoodJoin ==
    ASSUME NEW S, NEW T, Good(S), Good(T)
    PROVE  Good(S \o T)
<1> DEFINE U == S \o T
<1>1. Tidy(U)
    BY TidyJoin DEF Good
<1>2. /\ \A b \in 1 .. Len(S) : U[b] = S[b]
      /\ \A b \in 1 .. Len(T) : U[b + Len(S)] = T[b]
      /\ \A b \in 1 .. Len(U) :
            b \in 1 .. Len(S) \/ \E a \in 1 .. Len(T) : b = a + Len(S)
    BY JoinedBlocks DEF Good, Tidy
<1> HIDE DEF U
<1>3. \A b \in 1 .. Len(U) : \/ \E a \in 1 .. Len(S) : U[b] = S[a]
                             \/ \E a \in 1 .. Len(T) : U[b] = T[a]
    BY <1>2
<1>4. SparesAll(U)
    BY <1>3 DEF Good, SparesAll
<1> QED
    BY <1>1, <1>4 DEF Good, U

(* The commands one by one.                                                *)
Plainly(n) == n \notin Kept /\ n \notin Temporary

LEMMA PlainCommands ==
    /\ \A n : Fine(Work(n)) /\ Fine(Need(n))
    /\ \A n : Plainly(n) => Fine(Apply(n))
    /\ \A n : n \notin Secrets /\ n \notin Temporary => Fine(Keep(n))
<1> SUFFICES ASSUME NEW n
             PROVE  /\ Fine(Work(n)) /\ Fine(Need(n))
                    /\ Plainly(n) => Fine(Apply(n))
                    /\ n \notin Secrets /\ n \notin Temporary => Fine(Keep(n))
    OBVIOUS
<1> QED
    BY DEF Fine, Plainly, Sparing, Mild, Gentle, Lasting, Touchers, Makers, Command,
           Work, Need, Apply, Keep

LEMMA MakingAndRemoving ==
    ASSUME NEW n, n \notin Kept
    PROVE  /\ Sparing(Apply(n)) /\ Apply(n).what = n
           /\ Sparing(Create(n)) /\ Create(n).what = n
           /\ Sparing(Open(n)) /\ Open(n).what = n
           /\ Fine(Drop(n)) /\ Drop(n).op = "drop" /\ Drop(n).what = n
           /\ Fine(Close(n)) /\ Close(n).op = "close" /\ Close(n).what = n
           /\ Fine(Ask(n)) /\ Ask(n).op = "ask" /\ Ask(n).what = n
    BY DEF Fine, Sparing, Mild, Gentle, Lasting, Touchers, Makers, Command, Apply,
           Create, Open, Drop, Close, Ask

(* A finally that begins with the removal of n.                            *)
Begins(fin, n) ==
    /\ Len(fin) > 0 /\ fin[1].op \in {"drop", "close"} /\ fin[1].what = n

LEMMA BeginningRemoves ==
    ASSUME NEW B, Len(B.undo) \in Nat, NEW n, Begins(B.undo, n)
    PROVE  Removes(B, n)
<1>1. RemovesAt(B, n, 1) /\ 1 \in 1 .. 2
    BY DEF Begins, RemovesAt
<1> QED
    BY <1>1 DEF Removes

LEMMA PlainIsOwn ==
    ASSUME NEW q, Steady(q)
    PROVE  OwnBlock(Plain(q))
    BY DEF OwnBlock, Steady, Fine, Plain, Block

LEMMA WholeIsGood ==
    ASSUME NEW q, Steady(q)
    PROVE  Good(<<Plain(q)>>)
    BY PlainIsOwn, OwnBlocksAreGood

LEMMA GuardedIsGood ==
    ASSUME NEW make, Sparing(make), NEW body, Steady(body), NEW fin, Steady(fin),
           Len(fin) > 0, fin[1].op \in {"drop", "close"}, fin[1].what = make.what
    PROVE  Good(Guarded(make, body, fin))
<1> DEFINE S == Guarded(make, body, fin)
<1>1. /\ Len(S) = 2
      /\ Len(S[1].do) = 1 /\ S[1].do[1] = make /\ Len(S[1].undo) = 0
      /\ S[2].do = body /\ S[2].undo = fin
    BY DEF Guarded, Plain, Block
<1> HIDE DEF S
<1>2. TidyBlock(S, 1)
    <2>1. Removes(S[2], make.what)
        BY <1>1, BeginningRemoves DEF Begins, Steady
    <2> QED
        BY <1>1, <2>1 DEF TidyBlock, HandedOver
<1>3. TidyBlock(S, 2)
    BY <1>1 DEF TidyBlock, Steady, Fine
<1>4. SparesAll(S)
    BY <1>1 DEF SparesAll, Steady, Fine
<1> QED
    BY <1>1, <1>2, <1>3, <1>4 DEF Good, Tidy, S

(* A try body that begins by making what its finally begins by removing.   *)
LEMMA RemovingIsOwn ==
    ASSUME NEW q, Len(q) \in Nat, Len(q) > 0, Sparing(q[1]),
           \A i \in 2 .. Len(q) : Sparing(q[i]) /\ Lasting(q[i]),
           NEW fin, Steady(fin), Removes(Block(q, fin), q[1].what)
    PROVE  OwnBlock(Block(q, fin))
<1> DEFINE B == Block(q, fin)
<1>1. B.do = q /\ B.undo = fin
    BY DEF Block
<1> HIDE DEF B
<1>2. \A i \in 1 .. Len(q) : i = 1 \/ i \in 2 .. Len(q)
    OBVIOUS
<1>3. Removes(B, q[1].what)
    BY DEF B
<1>4. OwnBlock(B)
    BY <1>1, <1>2, <1>3 DEF OwnBlock
<1> QED
    BY <1>4 DEF B

(* The scripts.                                                            *)
LEMMA RegistryIsGood == Good(Registry)
<1>1. ASSUME NEW n, n \notin Kept PROVE OwnBlock(Probe(n))
    <2> DEFINE q == <<Apply(n), Work("pull")>>
    <2>1. /\ Len(q) = 2 /\ q[1] = Apply(n)
          /\ \A i \in 2 .. Len(q) : Sparing(q[i]) /\ Lasting(q[i])
        BY PlainCommands DEF Fine
    <2> DEFINE fin == <<Drop(n)>>
    <2>2. Steady(fin) /\ Len(fin) > 0 /\ fin[1] = Drop(n)
        BY <1>1, MakingAndRemoving DEF Steady
    <2>3. /\ Sparing(q[1]) /\ q[1].what = n
          /\ fin[1].op \in {"drop", "close"} /\ fin[1].what = n
        BY <1>1, <2>1, <2>2, MakingAndRemoving
    <2> HIDE DEF q, fin
    <2>4. Len(q) \in Nat /\ Len(q) > 0
        BY <2>1
    <2>5. Removes(Block(q, fin), q[1].what)
        BY <2>2, <2>3, BeginningRemoves DEF Begins, Block, Steady
    <2>6. OwnBlock(Block(q, fin))
        BY <2>1, <2>2, <2>3, <2>4, <2>5, RemovingIsOwn
    <2> QED
        BY <2>6 DEF Probe, q, fin
<1>2. Steady(<<Apply("eps_namespace"), Apply("dhi-pull_eps"),
              Apply("external-secrets_namespace"), Apply("dhi-pull_external-secrets")>>)
    <2>1. /\ Plainly("eps_namespace") /\ Plainly("dhi-pull_eps")
          /\ Plainly("external-secrets_namespace") /\ Plainly("dhi-pull_external-secrets")
        BY DEF Plainly, Kept, Retained, Credentials, Temporary
    <2> QED
        BY <2>1, PlainCommands DEF Steady
<1>3. OwnBlock(Probe("probe_eps")) /\ OwnBlock(Probe("probe_external-secrets"))
    BY <1>1 DEF Kept, Retained, Credentials
<1>4. \A b \in 1 .. Len(Registry) : OwnBlock(Registry[b])
    BY <1>2, <1>3, PlainIsOwn DEF Registry
<1> QED
    BY <1>4, OwnBlocksAreGood DEF Registry

LEMMA KubernetesDbIsGood == Good(KubernetesDb)
<1> DEFINE S == KubernetesDb
           body == DatabaseSetup \o DatabaseRestore \o DatabaseRotation
<1>1. Steady(DatabaseSetup) /\ Steady(DatabaseRestore) /\ Steady(DatabaseRotation)
    BY PlainCommands DEF Steady, DatabaseSetup, DatabaseRestore, DatabaseRotation
<1>2. Steady(body)
    BY <1>1, SteadyJoin
<1>3. "database_namespace" \notin Kept
    BY DEF Kept, Retained, Credentials
<1>4. Steady(<<Drop("database_namespace")>>)
    BY <1>3, MakingAndRemoving DEF Steady
<1> HIDE DEF body
<1>5. /\ Len(S) = 2
      /\ Len(S[1].do) = 2 /\ Len(S[1].undo) = 0
      /\ S[1].do[1] = Need("dhi-pull_eps") /\ S[1].do[2] = Create("database_namespace")
      /\ S[2].do = body /\ S[2].undo = <<Drop("database_namespace")>>
    BY DEF KubernetesDb, Plain, Block, body
<1> HIDE DEF S
<1>6. TidyBlock(S, 1)
    <2>1. Removes(S[2], "database_namespace")
        <3>1. /\ Len(S[2].undo) = 1 /\ S[2].undo[1].op = "drop"
              /\ S[2].undo[1].what = "database_namespace"
            BY <1>3, <1>5, MakingAndRemoving
        <3> QED
            BY <3>1, BeginningRemoves DEF Begins
    <2>2. Lasting(S[1].do[1]) /\ HandedOver(S, 1, S[1].do[2].what)
        BY <1>3, <1>5, <2>1, PlainCommands, MakingAndRemoving DEF HandedOver, Fine
    <2> QED
        BY <1>5, <2>2 DEF TidyBlock
<1>7. TidyBlock(S, 2)
    BY <1>2, <1>4, <1>5 DEF TidyBlock, Steady, Fine
<1>8. SparesAll(S)
    <2>1. Sparing(S[1].do[1]) /\ Sparing(S[1].do[2])
        BY <1>3, <1>5, PlainCommands, MakingAndRemoving DEF Fine
    <2> QED
        BY <1>2, <1>4, <1>5, <2>1 DEF SparesAll, Steady, Fine
<1> QED
    BY <1>5, <1>6, <1>7, <1>8 DEF Good, Tidy, S

LEMMA SecretControllersAreGood == Good(SecretControllers)
<1>1. /\ Plainly("platform_namespaces") /\ Plainly("cert-manager")
      /\ Plainly("webhook_issuer") /\ Plainly("identities") /\ Plainly("external-secrets")
    BY DEF Plainly, Kept, Retained, Credentials, Temporary
<1>2. Steady(<<Work("archives"), Need("dhi-pull_external-secrets"),
              Apply("platform_namespaces"), Apply("cert-manager"),
              Apply("webhook_issuer"), Work("issuer_ready"), Apply("identities"),
              Apply("external-secrets"), Work("permissions")>>)
    BY <1>1, PlainCommands DEF Steady
<1> QED
    BY <1>2, WholeIsGood DEF SecretControllers

LEMMA IngressIsGood == Good(Ingress)
<1>1. /\ Plainly("issuer") /\ Plainly("ingress_CA") /\ Plainly("ingress")
      /\ Plainly("blackbox")
    BY DEF Plainly, Kept, Retained, Credentials, Temporary
<1>2. Steady(<<Work("loopback"), Work("no_unrelated_issuer"), Apply("issuer"),
              Work("certificates"), Need("issuer"), Apply("ingress_CA"),
              Apply("ingress"), Work("certificate"), Apply("blackbox"),
              Work("rollout")>>)
    BY <1>1, PlainCommands DEF Steady
<1> QED
    BY <1>2, WholeIsGood DEF Ingress

LEMMA MonitoringIsGood == Good(Monitoring)
<1>1. /\ Plainly("dashboards") /\ Plainly("monitoring")
      /\ "dhi-pull_monitoring" \notin Secrets \cup Temporary
      /\ "eps-grafana" \notin Secrets \cup Temporary
    BY DEF Plainly, Kept, Secrets, Retained, Credentials, Temporary
<1>2. Steady(<<Work("archives"), Need("platform_namespaces"),
              Keep("dhi-pull_monitoring"), Keep("eps-grafana"),
              Apply("dashboards"), Apply("monitoring"), Work("ready")>>)
    BY <1>1, PlainCommands DEF Steady
<1> QED
    BY <1>2, WholeIsGood DEF Monitoring

LEMMA ArgocdIsGood == Good(Argocd)
<1>1. /\ Plainly("argocd_namespace") /\ Plainly("private-argo") /\ Plainly("argocd_rbac")
      /\ Plainly("argocd") /\ "argocd-redis" \notin Secrets \cup Temporary
    BY DEF Plainly, Kept, Secrets, Retained, Credentials, Temporary
<1>2. Steady(ArgocdInstall)
    BY <1>1, PlainCommands DEF Steady, ArgocdInstall
<1>3. Steady(ArgocdChecks)
    BY PlainCommands DEF Steady, ArgocdChecks
<1> QED
    BY <1>2, <1>3, SteadyJoin, WholeIsGood DEF Argocd

(* A command, its checks and its removal: the shape of most scripts.       *)
LEMMA MadeAndDropped ==
    ASSUME NEW n, n \notin Kept, NEW body, Steady(body), NEW rest, Steady(rest)
    PROVE  /\ Good(Guarded(Create(n), body, <<Drop(n)>> \o rest))
           /\ Good(Guarded(Create(n), body, <<Drop(n)>>))
           /\ Good(Guarded(Open(n), body, <<Close(n)>>))
<1>1. Steady(<<Drop(n)>>) /\ Steady(<<Close(n)>>)
    BY MakingAndRemoving DEF Steady
<1>2. Steady(<<Drop(n)>> \o rest)
    BY <1>1, SteadyJoin
<1>3. ASSUME NEW make, Sparing(make), make.what = n, NEW fin, Steady(fin), Len(fin) > 0,
             fin[1] = Drop(n) \/ fin[1] = Close(n)
      PROVE  Good(Guarded(make, body, fin))
    <2>1. fin[1].op \in {"drop", "close"} /\ fin[1].what = make.what
        BY <1>3, MakingAndRemoving
    <2> QED
        BY <1>3, <2>1, GuardedIsGood
<1>4. /\ Len(<<Drop(n)>>) > 0 /\ <<Drop(n)>>[1] = Drop(n)
      /\ Len(<<Close(n)>>) > 0 /\ <<Close(n)>>[1] = Close(n)
      /\ Len(<<Drop(n)>> \o rest) > 0 /\ (<<Drop(n)>> \o rest)[1] = Drop(n)
    BY DEF Steady
<1>5. /\ Sparing(Create(n)) /\ Create(n).what = n
      /\ Sparing(Open(n)) /\ Open(n).what = n
    BY MakingAndRemoving
<1>6. Good(Guarded(Create(n), body, <<Drop(n)>> \o rest))
    BY <1>2, <1>3, <1>4, <1>5
<1>7. Good(Guarded(Create(n), body, <<Drop(n)>>))
    BY <1>1, <1>3, <1>4, <1>5
<1>8. Good(Guarded(Open(n), body, <<Close(n)>>))
    BY <1>1, <1>3, <1>4, <1>5
<1> QED
    BY <1>6, <1>7, <1>8

LEMMA TunnelIsGood ==
    ASSUME NEW n, n \notin Kept, NEW body, Steady(body)
    PROVE  Good(Tunnel(n, body))
<1>1. Steady(<<Work("forward")>>) /\ Steady(<<>>)
    BY PlainCommands DEF Steady
<1>2. Steady(<<Work("forward")>> \o body)
    BY <1>1, SteadyJoin
<1> QED
    BY <1>1, <1>2, MadeAndDropped DEF Tunnel

LEMMA ChecksAreGood ==
    /\ Good(LiveChecks) /\ Good(NetworkCheck) /\ Good(AlertCheck)
    /\ Good(DatabaseRestart)
<1>1. /\ "tunnel_web" \notin Kept /\ "tunnel_grafana" \notin Kept
      /\ "network_pod" \notin Kept /\ "alert_rule" \notin Kept
      /\ "canary_table" \notin Kept
    BY DEF Kept, Retained, Credentials
<1>2. /\ Steady(<<Work("request")>>) /\ Steady(<<Need("eps-grafana")>>)
      /\ Steady(<<Work("scrapes"), Work("logs"), Work("trace")>>)
      /\ Steady(<<Work("ready"), Work("denied")>>)
      /\ Steady(<<Work("firing"), Work("resolved")>>)
      /\ Steady(<<Work("replace"), Work("canary")>>)
      /\ Steady(<<>>)
    BY PlainCommands DEF Steady
<1>3. Good(LiveChecks)
    <2>1. Good(Tunnel("tunnel_web", <<Work("request")>>)
               \o <<Plain(<<Need("eps-grafana")>>)>>)
        BY <1>1, <1>2, TunnelIsGood, WholeIsGood, GoodJoin
    <2> QED
        BY <1>1, <1>2, <2>1, TunnelIsGood, GoodJoin DEF LiveChecks
<1>4. Good(NetworkCheck) /\ Good(AlertCheck) /\ Good(DatabaseRestart)
    BY <1>1, <1>2, MadeAndDropped DEF NetworkCheck, AlertCheck, DatabaseRestart
<1> QED
    BY <1>3, <1>4

(* The renewal of the signing key apart, maintenance is like the others.   *)
LEMMA MaintenanceIsMild == Tidy(Maintenance) /\ MildAll(Maintenance)
<1> DEFINE q == <<Need("eps"), Work("cookie"), Renew("eps"), Work("restart"),
                  Work("signatures")>>
           S == <<Plain(q)>>
<1>1. "cleanup-audit-log" \notin Kept /\ "refresh-weather" \notin Kept
    BY DEF Kept, Retained, Credentials
<1>2. Good(CatchUp("cleanup-audit-log")) /\ Good(CatchUp("refresh-weather"))
    <2>1. Steady(<<Work("complete")>>) /\ Steady(<<>>)
        BY PlainCommands DEF Steady
    <2> QED
        BY <1>1, <2>1, MadeAndDropped DEF CatchUp
<1>3. Len(q) = 5 /\ \A i \in 1 .. Len(q) : Mild(q[i]) /\ Lasting(q[i])
    <2>1. Mild(Renew("eps")) /\ Lasting(Renew("eps"))
        BY DEF Mild, Gentle, Lasting, Touchers, Makers, Command, Renew
    <2>2. \A i \in 1 .. 5 : i = 3 \/ Fine(q[i])
        BY PlainCommands
    <2>3. Len(q) = 5 /\ q[3] = Renew("eps")
        OBVIOUS
    <2> HIDE DEF q
    <2> QED
        BY <2>1, <2>2, <2>3 DEF Fine, Sparing
<1>4. /\ Len(S) = 1 /\ S[1].do = q /\ Len(S[1].undo) = 0
      /\ \A b \in 1 .. 1 : b = 1
      /\ \A i \in 1 .. 0 : FALSE
    BY DEF Plain, Block
<1> HIDE DEF q, S
<1>5. TidyBlock(S, 1)
    <2>1. /\ Len(S[1].do) = 5 /\ Len(S[1].undo) = 0
          /\ \A i \in 1 .. 5 : Lasting(S[1].do[i])
        BY <1>3, <1>4
    <2> QED
        BY <1>4, <2>1 DEF TidyBlock
<1>6. Tidy(S) /\ MildAll(S)
    BY <1>3, <1>4, <1>5 DEF Tidy, MildAll
<1>7. /\ Tidy(CatchUp("cleanup-audit-log")) /\ MildAll(CatchUp("cleanup-audit-log"))
      /\ Tidy(CatchUp("refresh-weather")) /\ MildAll(CatchUp("refresh-weather"))
    BY <1>2 DEF Good, SparesAll, MildAll, Sparing
<1> DEFINE first == S \o CatchUp("cleanup-audit-log")
           whole == first \o CatchUp("refresh-weather")
<1>8. Tidy(first) /\ MildAll(first)
    BY <1>6, <1>7, TidyJoin, MildJoin DEF Tidy
<1> HIDE DEF first
<1>9. Tidy(whole) /\ MildAll(whole)
    BY <1>7, <1>8, TidyJoin, MildJoin DEF Tidy
<1> QED
    BY <1>9 DEF Maintenance, first, S, q

LEMMA ScalingIsGood == Good(Scaling)
<1>1. "tunnel_web" \notin Kept /\ "adapter_outage" \notin Kept
    BY DEF Kept, Retained, Credentials
<1>2. /\ Steady(<<Work("settings")>>) /\ Steady(<<Work("traffic")>>)
      /\ Steady(<<Work("scaled_up")>>) /\ Steady(<<Work("scaled_down")>>)
      /\ Steady(<<Work("unavailable"), Work("error")>>) /\ Steady(<<Work("rollout")>>)
    BY PlainCommands DEF Steady
<1> DEFINE outage == Guarded(Create("adapter_outage"),
                               <<Work("unavailable"), Work("error")>>,
                               <<Drop("adapter_outage"), Work("rollout")>>)
           first == <<Plain(<<Work("settings")>>)>>
           second == first \o Tunnel("tunnel_web", <<Work("traffic")>>)
           third == second \o <<Plain(<<Work("scaled_up")>>)>>
<1>3. Good(outage)
    <2>1. Steady(<<Drop("adapter_outage"), Work("rollout")>>)
        BY <1>1, PlainCommands, MakingAndRemoving DEF Steady
    <2>2. /\ Sparing(Create("adapter_outage"))
          /\ Create("adapter_outage").what = "adapter_outage"
          /\ <<Drop("adapter_outage"), Work("rollout")>>[1].op \in {"drop", "close"}
          /\ <<Drop("adapter_outage"), Work("rollout")>>[1].what = "adapter_outage"
          /\ Len(<<Drop("adapter_outage"), Work("rollout")>>) > 0
        BY <1>1, MakingAndRemoving
    <2> QED
        BY <1>2, <2>1, <2>2, GuardedIsGood
<1>4. Good(second)
    BY <1>1, <1>2, WholeIsGood, TunnelIsGood, GoodJoin
<1>5. Good(third)
    BY <1>2, <1>4, WholeIsGood, GoodJoin
<1>6. Good(third \o outage)
    BY <1>3, <1>5, GoodJoin
<1>7. Good((third \o outage) \o <<Plain(<<Work("scaled_down")>>)>>)
    BY <1>2, <1>6, WholeIsGood, GoodJoin
<1> QED
    BY <1>7 DEF Scaling

LEMMA SyncIsOwn ==
    ASSUME NEW n, n \notin Kept, NEW body, Steady(body), NEW rest, Steady(rest)
    PROVE  OwnBlock(Sync(n, body, rest))
<1> DEFINE q == <<Create(n)>> \o body
           two == <<Ask(n), Drop(n)>>
           fin == two \o rest
<1>1. /\ Len(q) \in Nat /\ Len(q) > 0 /\ q[1] = Create(n)
      /\ \A i \in 2 .. Len(q) : i - 1 \in 1 .. Len(body) /\ q[i] = body[i - 1]
    BY DEF Steady
<1>2. Steady(two) /\ Len(two) = 2 /\ two[1] = Ask(n) /\ two[2] = Drop(n)
    BY MakingAndRemoving DEF Steady
<1>3. Steady(fin)
    BY <1>2, SteadyJoin
<1>4. Len(fin) \in Nat /\ 2 <= Len(fin) /\ fin[1] = Ask(n) /\ fin[2] = Drop(n)
    BY <1>2 DEF Steady
<1> HIDE DEF q, fin
<1>5. Sparing(q[1]) /\ q[1].what = n
    BY <1>1, MakingAndRemoving
<1>6. \A i \in 2 .. Len(q) : Sparing(q[i]) /\ Lasting(q[i])
    BY <1>1 DEF Steady, Fine
<1>7. Removes(Block(q, fin), n)
    <2>1. RemovesAt(Block(q, fin), n, 2) /\ 2 \in 1 .. 2
        BY <1>4, MakingAndRemoving DEF RemovesAt, Block
    <2> QED
        BY <2>1 DEF Removes
<1>8. OwnBlock(Block(q, fin))
    BY <1>1, <1>3, <1>5, <1>6, <1>7, RemovingIsOwn
<1> QED
    BY <1>8 DEF Sync, q, fin

LEMMA GitopsIsGood == Good(Gitops)
<1>1. "failing_migration" \notin Kept /\ "changed_sampling" \notin Kept
    BY DEF Kept, Retained, Credentials
<1>2. /\ Steady(<<>>) /\ Steady(<<Work("history")>>) /\ Steady(<<Work("restored")>>)
      /\ Steady(<<Work("verify_release"), Work("production"), Work("healthy"),
                  Work("template")>>)
      /\ Steady(<<Work("failed"), Work("web_unchanged")>>)
      /\ Steady(<<Work("succeeded"), Work("template")>>) /\ Steady(<<Work("rollout")>>)
    BY PlainCommands DEF Steady
<1>3. /\ OwnBlock(Sync("failing_migration",
                         <<Work("failed"), Work("web_unchanged")>>, <<>>))
      /\ OwnBlock(Sync("changed_sampling",
                         <<Work("succeeded"), Work("template")>>, <<Work("rollout")>>))
    BY <1>1, <1>2, SyncIsOwn
<1>4. \A b \in 1 .. Len(Gitops) : OwnBlock(Gitops[b])
    BY <1>2, <1>3, PlainIsOwn DEF Gitops
<1> QED
    BY <1>4, OwnBlocksAreGood DEF Gitops

LEMMA ArgocdImageIsGood == Good(ArgocdImage)
<1>1. "donor_container" \notin Kept /\ "candidate_container" \notin Kept
    BY DEF Kept, Retained, Credentials
<1>2. /\ Steady(<<>>) /\ Steady(<<Work("export")>>) /\ Steady(<<Work("runs")>>)
      /\ Steady(<<Work("pins"), Work("attestation")>>)
    BY PlainCommands DEF Steady
<1>3. Good(ImageFiles("donor_container")) /\ Good(ImageFiles("candidate_container"))
    BY <1>1, <1>2, MadeAndDropped DEF ImageFiles
<1> DEFINE first == <<Plain(<<Work("pins"), Work("attestation")>>)>>
<1>4. Good(first \o ImageFiles("donor_container"))
    BY <1>2, <1>3, WholeIsGood, GoodJoin
<1>5. Good((first \o ImageFiles("donor_container")) \o ImageFiles("candidate_container"))
    BY <1>3, <1>4, GoodJoin
<1>6. Good(((first \o ImageFiles("donor_container")) \o ImageFiles("candidate_container"))
           \o <<Plain(<<Work("runs")>>)>>)
    BY <1>2, <1>5, WholeIsGood, GoodJoin
<1> QED
    BY <1>6 DEF ArgocdImage

(* rehearse_observability alone touches the credentials and the volume.    *)
Refounding == {3, 4, 5, 6, 8}

LEMMA ObservabilityIs ==
    /\ Len(Observability) = 1
    /\ Len(Observability[1].undo) = 0
    /\ Len(Observability[1].do) = 11
    /\ Observability[1].do[3] = Fresh
    /\ Observability[1].do[4] = Issue("eps")
    /\ Observability[1].do[5] = Issue("eps-db-admin")
    /\ Observability[1].do[6] = Issue("eps-exporter")
    /\ Observability[1].do[8] = Deploy("database")
    /\ \A i \in (1 .. 11) \ Refounding : Fine(Observability[1].do[i])
<1> DEFINE q == <<Work("records"), Need("eps_namespace"), Fresh,
                  Issue("eps"), Issue("eps-db-admin"), Issue("eps-exporter"),
                  Apply("policies"), Deploy("database"), Work("rollouts"),
                  Apply("postgres-exporter"), Work("exporter")>>
<1>1. Len(q) = 11 /\ q[3] = Fresh /\ q[4] = Issue("eps")
      /\ q[5] = Issue("eps-db-admin") /\ q[6] = Issue("eps-exporter")
      /\ q[8] = Deploy("database")
    OBVIOUS
<1>2. Plainly("policies") /\ Plainly("postgres-exporter")
    BY DEF Plainly, Kept, Retained, Credentials, Temporary
<1>3. Fine(q[1]) /\ Fine(q[2]) /\ Fine(q[7]) /\ Fine(q[9]) /\ Fine(q[10]) /\ Fine(q[11])
    BY <1>2, PlainCommands
<1>4. Len(Observability) = 1 /\ Len(Observability[1].undo) = 0
      /\ Observability[1].do = q
    BY DEF Observability, Plain, Block
<1> HIDE DEF q
<1>5. \A i \in (1 .. 11) \ Refounding : Fine(q[i])
    <2>1. \A i \in (1 .. 11) \ Refounding : i \in {1, 2, 7, 9, 10, 11}
        BY DEF Refounding
    <2> QED
        BY <1>3, <2>1
<1> QED
    BY <1>1, <1>4, <1>5

LEMMA RefoundingCommands ==
    /\ Fresh.op = "fresh"
    /\ \A n : Issue(n).op = "issue" /\ Issue(n).what = n
    /\ \A n : Deploy(n).op = "deploy" /\ Deploy(n).what = n
    BY DEF Fresh, Issue, Deploy, Command

AllGentle(S) ==
    \A b \in 1 .. Len(S) :
        /\ \A i \in 1 .. Len(S[b].do) : Gentle(S[b].do[i])
        /\ \A i \in 1 .. Len(S[b].undo) : Gentle(S[b].undo[i])

LEMMA ObservabilityIsTidy == Tidy(Observability) /\ AllGentle(Observability)
<1> DEFINE B == Observability[1]
<1>1. \A i \in 1 .. 11 : Gentle(B.do[i]) /\ Lasting(B.do[i])
    <2>1. \A i \in (1 .. 11) \ Refounding : Gentle(B.do[i]) /\ Lasting(B.do[i])
        BY ObservabilityIs DEF Fine, Sparing, Mild
    <2>2. \A i \in Refounding : Gentle(B.do[i]) /\ Lasting(B.do[i])
        BY ObservabilityIs, RefoundingCommands
           DEF Refounding, Gentle, Lasting, Touchers, Makers, Temporary
    <2> QED
        BY <2>1, <2>2
<1>2. Len(Observability) = 1 /\ Len(B.do) = 11 /\ Len(B.undo) = 0
    BY ObservabilityIs
<1> HIDE DEF B
<1>3. \A b \in 1 .. 1 : b = 1
    OBVIOUS
<1>4. TidyBlock(Observability, 1)
    <2>1. /\ Len(Observability[1].do) = 11 /\ Len(Observability[1].undo) = 0
          /\ \A i \in 1 .. 11 : Lasting(Observability[1].do[i])
        BY <1>1, <1>2 DEF B
    <2>2. \A i \in 1 .. 0 : FALSE
        OBVIOUS
    <2> QED
        BY <2>1, <2>2 DEF TidyBlock
<1>5. Tidy(Observability)
    BY <1>2, <1>3, <1>4 DEF Tidy
<1>6. AllGentle(Observability)
    <2>1. /\ \A i \in 1 .. Len(B.do) : Gentle(B.do[i])
          /\ \A i \in 1 .. Len(B.undo) : Gentle(B.undo[i])
        BY <1>1, <1>2
    <2> QED
        BY <1>2, <1>3, <2>1 DEF AllGentle, B
<1> QED
    BY <1>5, <1>6

LEMMA GoodIsMild ==
    ASSUME NEW S, Good(S)
    PROVE  MildAll(S)
    BY DEF Good, SparesAll, MildAll, Sparing

LEMMA MildIsGentle ==
    ASSUME NEW S, MildAll(S)
    PROVE  AllGentle(S)
    BY DEF MildAll, AllGentle, Mild

LEMMA ScriptsAreTidy ==
    ASSUME NEW s \in Scripts
    PROVE  /\ Tidy(Script[s])
           /\ AllGentle(Script[s])
           /\ s # "observability" => MildAll(Script[s])
           /\ s \notin {"observability", "maintenance"} => SparesAll(Script[s])
           /\ s = "observability" => Script[s] = Observability
<1>1. Good(LiveChecks \o DatabaseRestart)
    BY ChecksAreGood, GoodJoin
<1>2. Good(LiveChecks \o NetworkCheck \o AlertCheck)
    <2>1. Good(LiveChecks \o NetworkCheck)
        BY ChecksAreGood, GoodJoin
    <2> QED
        BY <2>1, ChecksAreGood, GoodJoin
<1>3. \/ s = "observability" /\ Script[s] = Observability
      \/ s = "maintenance" /\ Script[s] = Maintenance
      \/ s \notin {"observability", "maintenance"} /\ Good(Script[s])
    <2>1. s \in {"registry", "kubernetes_db", "secret_controllers", "ingress", "monitoring",
                 "argocd", "observability", "live", "restart", "maintenance", "scaling",
                 "gitops", "argocd_image"}
        BY DEF Scripts, Script
    <2>2. /\ Script["observability"] = Observability
          /\ Script["maintenance"] = Maintenance
          /\ Script["live"] = LiveChecks \o NetworkCheck \o AlertCheck
          /\ Script["restart"] = LiveChecks \o DatabaseRestart
        BY DEF Script
    <2>3. /\ Good(Script["registry"]) /\ Good(Script["kubernetes_db"])
          /\ Good(Script["secret_controllers"]) /\ Good(Script["ingress"])
          /\ Good(Script["monitoring"]) /\ Good(Script["argocd"])
        BY RegistryIsGood, KubernetesDbIsGood, SecretControllersAreGood, IngressIsGood,
           MonitoringIsGood, ArgocdIsGood DEF Script
    <2>4. /\ Good(Script["scaling"]) /\ Good(Script["gitops"])
          /\ Good(Script["argocd_image"])
        BY ScalingIsGood, GitopsIsGood, ArgocdImageIsGood DEF Script
    <2> QED
        BY <1>1, <1>2, <2>1, <2>2, <2>3, <2>4
<1> QED
    BY <1>3, ObservabilityIsTidy, MaintenanceIsMild, GoodIsMild, MildIsGentle DEF Good

-----------------------------------------------------------------------------
(* Then, what the commands do to the objects.                              *)

LEMMA EffectIs ==
    ASSUME NEW c
    PROVE  /\ c.op \in {"apply", "create", "open"} => Effect(c) = Put(world, c.what)
           /\ c.op = "keep" =>
                Effect(c) = IF Has(world, c.what) THEN world ELSE Put(world, c.what)
           /\ c.op = "issue" =>
                Effect(c) = IF now.issuing /\ ~Has(world, c.what)
                              THEN Put(world, c.what) ELSE world
           /\ c.op = "deploy" =>
                Effect(c) = IF Has(world, c.what) THEN world
                              ELSE world \cup {[name |-> c.what,
                                               by |-> By(world, "eps-db-admin")]}
           /\ c.op \in {"drop", "close"} => Effect(c) = world \ {Made(c.what)}
           /\ c.op \notin Makers \cup {"drop", "close"} => Effect(c) = world
    BY DEF Effect, Makers

LEMMA PutIs ==
    ASSUME NEW n, NEW o
    PROVE  /\ o \in Put(world, n) => o \in world \/ o = Made(n)
           /\ o \in world /\ o.name # n => o \in Put(world, n)
           /\ Made(n) \in Put(world, n)
           /\ Made(n).name = n /\ Made(n).by = runs
    BY DEF Put, Made

LEMMA EffectMakes ==
    ASSUME NEW c, NEW o \in Effect(c), o \notin world
    PROVE  /\ c.op \in Makers
           /\ \/ o = Made(c.what)
              \/ c.op = "deploy" /\ o = [name |-> c.what, by |-> By(world, "eps-db-admin")]
<1>1. CASE c.op \in {"apply", "create", "open"}
    BY <1>1, EffectIs, PutIs DEF Makers
<1>2. CASE c.op \in {"keep", "issue"}
    BY <1>2, EffectIs, PutIs DEF Makers
<1>3. CASE c.op = "deploy"
    BY <1>3, EffectIs DEF Makers
<1>4. CASE c.op \notin Makers
    BY <1>4, EffectIs DEF Makers
<1> QED
    BY <1>1, <1>2, <1>3, <1>4 DEF Makers

LEMMA KeptStays ==
    ASSUME NEW c, Gentle(c), NEW o \in world, o.name \in Kept
    PROVE  o \in Effect(c)
<1>1. CASE c.op \in {"apply", "create", "open"}
    BY <1>1, EffectIs, PutIs DEF Gentle, Touchers
<1>2. CASE c.op \in {"keep", "issue"}
    BY <1>2, EffectIs, PutIs DEF Has
<1>3. CASE c.op = "deploy"
    BY <1>3, EffectIs
<1>4. CASE c.op \in {"drop", "close"}
    BY <1>4, EffectIs, PutIs DEF Gentle, Touchers
<1>5. CASE c.op \notin Makers \cup {"drop", "close"}
    BY <1>5, EffectIs
<1> QED
    BY <1>1, <1>2, <1>3, <1>4, <1>5 DEF Makers

LEMMA MildKeepsSecrets ==
    ASSUME NEW c, Mild(c), NEW o, o.name \in Secrets
    PROVE  o \in Effect(c) <=> o \in world
<1>1. o.name \in Kept
    BY DEF Secrets, Kept, Retained
<1>2. o \in world => o \in Effect(c)
    BY <1>1, KeptStays DEF Mild
<1>3. ASSUME o \in Effect(c), o \notin world PROVE FALSE
    <2>1. c.op \in Makers \ {"issue", "deploy"} /\ o = Made(c.what)
        BY <1>3, EffectMakes DEF Mild
    <2>2. c.what \in Secrets /\ c.what \in Kept
        BY <1>1, <2>1, PutIs
    <2> QED
        BY <2>1, <2>2 DEF Mild, Gentle, Makers, Touchers
<1> QED
    BY <1>2, <1>3

(* The command to be run is one of the running script's.                   *)
LEMMA CommandIs ==
    ASSUME RehearsalTypeOK, HasCommand
    PROVE  /\ now.script \in Scripts /\ now # Idle
           /\ runs \in Nat /\ runs > 0
           /\ Len(Blocks) \in Nat /\ now.block \in 1 .. Len(Blocks)
           /\ TidyBlock(Blocks, now.block)
           /\ now.phase \in {"do", "undo"}
           /\ now.phase = "do" => Commands = Blocks[now.block].do /\ now.fate = "ok"
           /\ now.phase = "undo" => Commands = Blocks[now.block].undo
           /\ now.at \in 1 .. Len(Commands)
           /\ Cmd = Commands[now.at]
           /\ Gentle(Cmd)
           /\ now.script # "observability" => Mild(Cmd)
           /\ now.script \notin {"observability", "maintenance"} => Cmd.op # "renew"
<1>1. /\ now.script \in Scripts /\ now # Idle /\ runs \in Nat /\ runs > 0
      /\ now.at \in Nat /\ now.at > 0 /\ now.block \in Nat
      /\ now.block \in 1 .. Len(Blocks) + 1 /\ now.block <= Len(Blocks)
      /\ now.at <= Len(Commands)
      /\ now.phase \in {"do", "undo"} /\ (now.phase = "do" => now.fate = "ok")
    BY DEF RehearsalTypeOK, HasCommand, Running
<1>2. /\ Tidy(Blocks) /\ AllGentle(Blocks)
      /\ now.script # "observability" => MildAll(Blocks)
      /\ now.script \notin {"observability", "maintenance"} => SparesAll(Blocks)
    BY <1>1, ScriptsAreTidy DEF Blocks
<1>3. /\ Len(Blocks) \in Nat /\ now.block \in 1 .. Len(Blocks)
      /\ TidyBlock(Blocks, now.block)
    BY <1>1, <1>2 DEF Tidy
<1>4. /\ now.phase = "do" => Commands = Blocks[now.block].do
      /\ now.phase = "undo" => Commands = Blocks[now.block].undo
    BY <1>1 DEF Commands
<1>5. Len(Commands) \in Nat /\ now.at \in 1 .. Len(Commands)
    BY <1>1, <1>3, <1>4 DEF TidyBlock
<1>6. Cmd = Commands[now.at]
    BY DEF Cmd
<1>7. Gentle(Commands[now.at])
    BY <1>1, <1>2, <1>3, <1>4, <1>5 DEF AllGentle
<1>8. now.script # "observability" => Mild(Commands[now.at])
    BY <1>1, <1>2, <1>3, <1>4, <1>5 DEF MildAll
<1>9. now.script \notin {"observability", "maintenance"} => Commands[now.at].op # "renew"
    BY <1>1, <1>2, <1>3, <1>4, <1>5 DEF SparesAll, Sparing
<1> QED
    BY <1>1, <1>3, <1>4, <1>5, <1>6, <1>7, <1>8, <1>9

-----------------------------------------------------------------------------
(* The inductive invariant.                                                *)

(* n is going to be removed: by the finally of this block, which is still  *)
(* to run or about to, or by that of the next one, which will be entered.  *)
Pending(n) ==
    /\ now.block <= Len(Blocks)
    /\ \/ \E k \in 1 .. 2 : /\ RemovesAt(Blocks[now.block], n, k)
                            /\ now.phase = "do" \/ now.at <= k
       \/ /\ HandedOver(Blocks, now.block, n) /\ now.fate = "ok"
          /\ now.phase = "do" => now.at > Len(Blocks[now.block].do)

Excused(o) ==
    \/ o.by \in killed \/ o \in unsure
    \/ now # Idle /\ o.by = runs /\ (o.name = "kubeconfig" \/ Pending(o.name))

LeftInv == \A o \in world : o.name \in Temporary => Excused(o)

(* The credentials and the volume are of one issue.                        *)
Matching ==
    \A o, p \in world : o.name \in Secrets /\ p.name \in Secrets => o.by = p.by

(* What rehearse_observability has found and made when it goes on.         *)
IssueInv ==
    now.script = "observability" /\ now.block = 1 /\ now.phase = "do" /\ now.at > 3 =>
        /\ now.issuing =>
              \/ now.at > 8
              \/ /\ ~Has(world, "database")
                 /\ \A o \in world : o.name \in Credentials => o.by = runs
        /\ now.at > 5 \/ ~now.issuing => Has(world, "eps-db-admin")

RehearsalInv == RehearsalTypeOK /\ LeftInv /\ Matching /\ IssueInv

LEMMA InitHasInv == RehearsalInit => RehearsalInv
<1> SUFFICES ASSUME RehearsalInit PROVE RehearsalInv
    OBVIOUS
<1>1. /\ runs = 0 /\ now = Idle /\ signed = 0 /\ killed = {} /\ unsure = {}
      /\ \A o \in world : o = [name |-> o.name, by |-> o.by] /\ o.by = 0
      /\ \A o \in world : o.name \notin Secrets \cup Temporary
    BY DEF RehearsalInit, Secrets, Credentials, Temporary
<1>2. now.script # "observability"
    BY <1>1 DEF Idle
<1>3. RehearsalTypeOK
    BY <1>1 DEF RehearsalTypeOK, Idle
<1> QED
    BY <1>1, <1>2, <1>3 DEF RehearsalInv, LeftInv, Matching, IssueInv

LEMMA ScriptHasBlocks ==
    ASSUME NEW s \in Scripts
    PROVE  Len(Script[s]) \in Nat
    BY ScriptsAreTidy DEF Tidy

(* The commands of rehearse_observability, by their place.                 *)
LEMMA RefoundingIs ==
    ASSUME RehearsalTypeOK, HasCommand, now.script = "observability"
    PROVE  /\ now.block = 1 /\ now.phase = "do" /\ now.at \in 1 .. 11
           /\ now.at \notin Refounding => Mild(Cmd) /\ Cmd.op # "renew"
           /\ now.at = 3 => Cmd = Fresh
           /\ now.at = 4 => Cmd = Issue("eps")
           /\ now.at = 5 => Cmd = Issue("eps-db-admin")
           /\ now.at = 6 => Cmd = Issue("eps-exporter")
           /\ now.at = 8 => Cmd = Deploy("database")
<1>1. Blocks = Observability
    BY CommandIs, ScriptsAreTidy DEF Blocks
<1>2. now.block = 1
    BY <1>1, CommandIs, ObservabilityIs
<1>3. now.phase = "do" /\ Commands = Observability[1].do
    BY <1>1, <1>2, CommandIs, ObservabilityIs
<1>4. now.at \in 1 .. 11 /\ Cmd = Observability[1].do[now.at]
    BY <1>3, CommandIs, ObservabilityIs
<1> QED
    BY <1>2, <1>3, <1>4, ObservabilityIs DEF Fine, Sparing

(* The chart's volume takes the passwords of the Secret that is there.     *)
LEMMA ByIs ==
    ASSUME NEW n, Has(world, n)
    PROVE  \E o \in world : o.name = n /\ By(world, n) = o.by
    BY DEF Has, By

LEMMA DeployFinds ==
    ASSUME RehearsalInv, HasCommand, Cmd.op = "deploy"
    PROVE  /\ now.script = "observability" /\ now.at = 8
           /\ \E o \in world : /\ o.name = "eps-db-admin"
                              /\ By(world, "eps-db-admin") = o.by
<1>1. now.script = "observability"
    BY CommandIs DEF RehearsalInv, Mild
<1>2. now.block = 1 /\ now.phase = "do" /\ now.at \in Refounding
    BY <1>1, RefoundingIs DEF RehearsalInv, Mild
<1>3. now.at = 8
    BY <1>1, <1>2, RefoundingIs, RefoundingCommands DEF RehearsalInv, Refounding
<1>4. Has(world, "eps-db-admin")
    BY <1>1, <1>2, <1>3 DEF RehearsalInv, IssueInv
<1> QED
    BY <1>1, <1>3, <1>4, ByIs

(* What a command makes is of the running script, or the volume.           *)
LEMMA CommandMakes ==
    ASSUME RehearsalInv, HasCommand, NEW o \in Effect(Cmd), o \notin world
    PROVE  /\ Cmd.op \in Makers /\ o.name = Cmd.what
           /\ o = [name |-> o.name, by |-> o.by] /\ o.by \in 0 .. runs
           /\ o.name \in Temporary => o = Made(Cmd.what) /\ o.by = runs
<1>1. runs \in Nat /\ runs \in 0 .. runs
    BY DEF RehearsalInv, RehearsalTypeOK
<1>2. Cmd.op \in Makers
    BY EffectMakes
<1>3. CASE o = Made(Cmd.what)
    <2>1. o.name = Cmd.what /\ o.by = runs /\ o = [name |-> o.name, by |-> o.by]
        BY <1>3 DEF Made
    <2> QED
        BY <1>1, <1>2, <1>3, <2>1
<1>4. CASE Cmd.op = "deploy"
           /\ o = [name |-> Cmd.what, by |-> By(world, "eps-db-admin")]
    <2>1. By(world, "eps-db-admin") \in 0 .. runs
        BY <1>4, DeployFinds DEF RehearsalInv, RehearsalTypeOK
    <2>2. Cmd.what = "database"
        BY <1>4, CommandIs DEF RehearsalInv, Gentle
    <2>3. "database" \notin Temporary
        BY DEF Temporary
    <2> QED
        BY <1>2, <1>4, <2>1, <2>2, <2>3
<1> QED
    BY <1>3, <1>4, EffectMakes

LEMMA CommandKeepsTypes ==
    ASSUME RehearsalInv, HasCommand, world' \in {world, Effect(Cmd)}
    PROVE  \A o \in world' : o = [name |-> o.name, by |-> o.by] /\ o.by \in 0 .. runs
    BY CommandMakes DEF RehearsalInv, RehearsalTypeOK

LEMMA CommandKeepsMatching ==
    ASSUME RehearsalInv, HasCommand, Possible(Cmd),
           world' = Effect(Cmd)
    PROVE  Matching'
<1> SUFFICES ASSUME NEW o \in world', NEW p \in world', o.name \in Secrets, p.name \in Secrets
             PROVE  o.by = p.by
    BY DEF Matching
<1>1. CASE Mild(Cmd)
    BY <1>1, MildKeepsSecrets DEF RehearsalInv, Matching
<1>2. CASE ~Mild(Cmd)
    <2>1. now.script = "observability" /\ now.at \in Refounding
        BY <1>2, CommandIs, RefoundingIs DEF RehearsalInv
    <2>2. now.block = 1 /\ now.phase = "do"
        BY <2>1, RefoundingIs DEF RehearsalInv
    <2>3. CASE now.at = 3
        <3>1. world' = world
            BY <2>1, <2>3, RefoundingIs, RefoundingCommands, EffectIs
               DEF RehearsalInv, Makers
        <3> QED
            BY <3>1 DEF RehearsalInv, Matching
    <2>4. CASE now.at \in {4, 5, 6}
        <3>1. Cmd.op = "issue" /\ Cmd.what \in Credentials
            BY <2>1, <2>4, RefoundingIs, RefoundingCommands DEF RehearsalInv, Credentials
        <3>2. CASE ~now.issuing \/ Has(world, Cmd.what)
            <4>1. world' = world
                BY <3>1, <3>2, EffectIs
            <4> QED
                BY <4>1 DEF RehearsalInv, Matching
        <3>3. CASE now.issuing /\ ~Has(world, Cmd.what)
            <4>1. \A q \in world : q.name \in Secrets => q.by = runs
                BY <2>1, <2>2, <2>4, <3>3 DEF RehearsalInv, IssueInv, Secrets, Has
            <4>2. \A q \in world' : q \in world \/ q = Made(Cmd.what)
                BY <3>1, EffectMakes
            <4> QED
                BY <4>1, <4>2, PutIs
        <3> QED
            BY <3>2, <3>3
    <2>5. CASE now.at = 8
        <3>1. Cmd.op = "deploy" /\ Cmd.what = "database"
            BY <2>1, <2>5, RefoundingIs, RefoundingCommands DEF RehearsalInv
        <3>2. PICK q \in world : q.name = "eps-db-admin" /\ By(world, "eps-db-admin") = q.by
            BY <3>1, DeployFinds
        <3>3. q.name \in Secrets
            BY <3>2 DEF Secrets, Credentials
        <3>4. \A v \in world' : v \in world \/ v.by = q.by
            BY <3>1, <3>2, EffectIs
        <3>5. \A v \in world' : v.name \in Secrets => v.by = q.by
            BY <3>3, <3>4 DEF RehearsalInv, Matching
        <3> QED
            BY <3>5
    <2> QED
        BY <2>1, <2>3, <2>4, <2>5 DEF Refounding
<1> QED
    BY <1>1, <1>2

LEMMA SameScript ==
    ASSUME now'.script = now.script
    PROVE  Blocks' = Blocks
    BY DEF Blocks

Progress ==
    [script : Scripts \cup {"none"}, block : Nat, phase : {"do", "undo"},
     at : Nat, fate : {"ok", "failed"}, issuing : BOOLEAN]

LEMMA NowIsProgress ==
    ASSUME RehearsalInv
    PROVE  now \in Progress /\ now.at \in Nat /\ now.block \in Nat
    BY DEF RehearsalInv, RehearsalTypeOK, Progress

LEMMA ProgressGoesOn ==
    ASSUME NEW r \in Progress
    PROVE  /\ \A k \in Nat : [r EXCEPT !.at = k] \in Progress
           /\ \A k \in Nat : [r EXCEPT !.block = k] \in Progress
           /\ \A k \in {"do", "undo"} : [r EXCEPT !.phase = k] \in Progress
           /\ [r EXCEPT !.fate = "failed"] \in Progress
           /\ \A k \in BOOLEAN : [r EXCEPT !.issuing = k] \in Progress
           /\ \A k \in Scripts : [r EXCEPT !.script = k] \in Progress
    BY DEF Progress

LEMMA SignatureIs ==
    ASSUME RehearsalInv, NEW c
    PROVE  Signature(c) \in {signed, runs} /\ Signature(c) \in 0 .. runs
<1>1. Signature(c) \in {signed, runs}
    BY DEF Signature
<1> QED
    BY <1>1 DEF RehearsalInv, RehearsalTypeOK

LEMMA SucceedKeepsTypes ==
    ASSUME RehearsalInv, Succeed
    PROVE  RehearsalTypeOK'
<1>1. /\ HasCommand /\ runs' = runs /\ killed' = killed /\ unsure' = unsure
      /\ world' = Effect(Cmd) /\ signed' = Signature(Cmd)
      /\ now' = [now EXCEPT !.at = @ + 1,
                            !.issuing = IF Cmd.op = "fresh" THEN Present = {} ELSE @]
    BY DEF Succeed
<1>2. \A o \in world' : o = [name |-> o.name, by |-> o.by] /\ o.by \in 0 .. runs'
    BY <1>1, CommandKeepsTypes
<1>3. /\ now'.script = now.script /\ now'.block = now.block /\ now'.phase = now.phase
      /\ now'.at = now.at + 1 /\ now'.fate = now.fate
    BY <1>1 DEF RehearsalInv, RehearsalTypeOK
<1>4. now' \in Progress
    <2> DEFINE v == IF Cmd.op = "fresh" THEN Present = {} ELSE now.issuing
    <2>1. v \in BOOLEAN
        BY DEF RehearsalInv, RehearsalTypeOK
    <2> DEFINE on == [now EXCEPT !.at = now.at + 1]
    <2>2. now' = [on EXCEPT !.issuing = v]
        BY <1>1
    <2>3. on \in Progress
        <3>1. now.at + 1 \in Nat
            BY NowIsProgress
        <3> QED
            BY <3>1, NowIsProgress, ProgressGoesOn
    <2> HIDE DEF v, on
    <2> QED
        BY <2>1, <2>2, <2>3, ProgressGoesOn
<1>5. Blocks' = Blocks
    BY <1>3, SameScript
<1>6. now # Idle
    BY <1>1 DEF HasCommand, Running
<1>7. /\ runs \in Nat /\ killed \subseteq 1 .. runs /\ signed \in 0 .. runs
      /\ unsure \subseteq [name : Temporary, by : 1 .. runs]
    BY DEF RehearsalInv, RehearsalTypeOK
<1>8. /\ runs > 0 /\ now.script \in Scripts
      /\ now.block \in 1 .. Len(Blocks) + 1 /\ now.at \in Nat /\ now.at > 0
      /\ now.phase = "do" /\ now.block <= Len(Blocks) => now.fate = "ok"
    BY <1>6 DEF RehearsalInv, RehearsalTypeOK
<1>9. signed' \in 0 .. runs
    BY <1>1, SignatureIs
<1> QED
    BY <1>1, <1>2, <1>3, <1>4, <1>5, <1>7, <1>8, <1>9 DEF RehearsalTypeOK, Progress

LEMMA RaiseKeepsTypes ==
    ASSUME RehearsalInv, Raise
    PROVE  RehearsalTypeOK'
<1>1. /\ HasCommand /\ runs' = runs /\ killed' = killed
      /\ unsure' = unsure \cup ({Made(Cmd.what)} \cap [name : Temporary, by : 1 .. runs])
      /\ world' \in {world, Effect(Cmd)} /\ signed' \in {signed, Signature(Cmd)}
      /\ now' = IF now.phase = "do"
                THEN [now EXCEPT !.phase = "undo", !.at = 1, !.fate = "failed"]
                ELSE [now EXCEPT !.at = Len(Commands) + 1, !.fate = "failed"]
    BY DEF Raise
<1>2. \A o \in world' : o = [name |-> o.name, by |-> o.by] /\ o.by \in 0 .. runs'
    BY <1>1, CommandKeepsTypes
<1>3. Len(Commands) \in Nat
    BY <1>1, CommandIs DEF RehearsalInv, TidyBlock
<1>4. /\ now'.script = now.script /\ now'.block = now.block /\ now'.phase = "undo"
      /\ now'.at > 0
    BY <1>1, <1>3 DEF RehearsalInv, RehearsalTypeOK
<1>5. now' \in Progress
    <2> DEFINE back == [now EXCEPT !.phase = "undo"]
               rest == [back EXCEPT !.at = 1]
               over == [now EXCEPT !.at = Len(Commands) + 1]
    <2>1. back \in Progress /\ over \in Progress
        <3>1. Len(Commands) + 1 \in Nat /\ "undo" \in {"do", "undo"}
            BY <1>3
        <3> QED
            BY <3>1, NowIsProgress, ProgressGoesOn
    <2>2. now' \in {[rest EXCEPT !.fate = "failed"], [over EXCEPT !.fate = "failed"]}
        BY <1>1
    <2> HIDE DEF back, over
    <2>3. rest \in Progress
        BY <2>1, ProgressGoesOn
    <2> HIDE DEF rest
    <2> QED
        BY <2>1, <2>2, <2>3, ProgressGoesOn
<1>6. Blocks' = Blocks
    BY <1>4, SameScript
<1>7. now # Idle
    BY <1>1 DEF HasCommand, Running
<1>8. /\ runs \in Nat /\ killed \subseteq 1 .. runs /\ signed \in 0 .. runs
      /\ unsure' \subseteq [name : Temporary, by : 1 .. runs]
    BY <1>1 DEF RehearsalInv, RehearsalTypeOK
<1>9. /\ runs > 0 /\ now.script \in Scripts
      /\ now.block \in 1 .. Len(Blocks) + 1
    BY <1>7 DEF RehearsalInv, RehearsalTypeOK
<1>10. signed' \in 0 .. runs
    BY <1>1, SignatureIs DEF RehearsalInv, RehearsalTypeOK
<1> QED
    BY <1>1, <1>2, <1>4, <1>5, <1>6, <1>8, <1>9, <1>10 DEF RehearsalTypeOK, Progress

(* A command of a finally removes what is pending, or asks for it and      *)
(* leaves it pending.                                                      *)
LEMMA RemovalRemoves ==
    ASSUME RehearsalInv, HasCommand, now.phase = "undo", NEW n, Pending(n),
           NEW o \in world, o.name = n, o.by = runs
    PROVE  /\ o = Made(Cmd.what)
           /\ \/ o \notin Effect(Cmd)
              \/ now.at = 1 /\ RemovesAt(Blocks[now.block], n, 2)
<1>1. /\ Commands = Blocks[now.block].undo
      /\ Cmd = Commands[now.at] /\ Len(Commands) > 0
      /\ now.at \in 1 .. Len(Commands)
    BY CommandIs DEF RehearsalInv
<1>2. PICK k \in 1 .. 2 : RemovesAt(Blocks[now.block], n, k) /\ now.at <= k
    BY <1>1 DEF Pending, HandedOver
<1>3. o = Made(n)
    <2>1. o = [name |-> o.name, by |-> o.by]
        BY DEF RehearsalInv, RehearsalTypeOK
    <2> QED
        BY <2>1 DEF Made
<1>4. CASE now.at = k
    <2>1. Cmd.op \in {"drop", "close"} /\ Cmd.what = n
        BY <1>1, <1>2, <1>4 DEF RemovesAt
    <2> QED
        BY <1>3, <2>1, EffectIs
<1>5. CASE now.at # k
    <2>1. now.at = 1 /\ k = 2
        BY <1>1, <1>2, <1>5
    <2>2. Cmd.what = n
        BY <1>1, <1>2, <2>1 DEF RemovesAt
    <2> QED
        BY <1>2, <1>3, <2>1, <2>2
<1> QED
    BY <1>4, <1>5

(* What a command of a try body makes for the run will be removed.         *)
LEMMA MakingIsPending ==
    ASSUME RehearsalInv, HasCommand, NEW o \in Effect(Cmd), o \notin world,
           o.name \in Temporary
    PROVE  /\ now.phase = "do" /\ now.fate = "ok" /\ o.by = runs /\ o = Made(Cmd.what)
           /\ \/ Removes(Blocks[now.block], o.name)
              \/ now.at = Len(Commands) /\ HandedOver(Blocks, now.block, o.name)
<1>1. /\ Cmd.op \in Makers /\ o.name = Cmd.what /\ o.by = runs
      /\ o = Made(Cmd.what)
    BY CommandMakes
<1>2. ~Lasting(Cmd)
    BY <1>1 DEF Lasting
<1>3. now.phase = "do"
    BY <1>2, CommandIs DEF RehearsalInv, TidyBlock
<1>4. /\ Commands = Blocks[now.block].do /\ now.fate = "ok"
      /\ now.at \in 1 .. Len(Commands) /\ Cmd = Commands[now.at]
      /\ TidyBlock(Blocks, now.block)
    BY <1>3, CommandIs DEF RehearsalInv
<1> QED
    BY <1>1, <1>2, <1>3, <1>4 DEF TidyBlock

LEMMA SucceedKeepsLeft ==
    ASSUME RehearsalInv, Succeed
    PROVE  LeftInv'
<1> SUFFICES ASSUME NEW o \in world', o.name \in Temporary
             PROVE  Excused(o)'
    BY DEF LeftInv
<1>1. /\ HasCommand /\ runs' = runs /\ killed' = killed /\ unsure' = unsure
      /\ world' = Effect(Cmd) /\ signed' = Signature(Cmd)
      /\ now' = [now EXCEPT !.at = @ + 1,
                            !.issuing = IF Cmd.op = "fresh" THEN Present = {} ELSE @]
    BY DEF Succeed
<1>2. /\ now'.script = now.script /\ now'.block = now.block /\ now'.phase = now.phase
      /\ now'.at = now.at + 1 /\ now'.fate = now.fate
    BY <1>1 DEF RehearsalInv, RehearsalTypeOK
<1>3. Blocks' = Blocks
    BY <1>2, SameScript
<1>4. now # Idle /\ now' # Idle
    <2>1. now # Idle /\ now'.block > 0
        BY <1>1, <1>2, CommandIs DEF RehearsalInv
    <2> QED
        BY <2>1 DEF Idle
<1>5. /\ now.block <= Len(Blocks) /\ now.at \in 1 .. Len(Commands)
      /\ now.phase \in {"do", "undo"}
      /\ now.phase = "do" => Commands = Blocks[now.block].do
    BY <1>1, CommandIs DEF RehearsalInv
<1>6. CASE o \in world
    <2>1. \/ o.by \in killed \/ o \in unsure
          \/ o.by = runs /\ o.name = "kubeconfig"
          \/ o.by = runs /\ Pending(o.name)
        <3>1. Excused(o)
            BY <1>6 DEF RehearsalInv, LeftInv
        <3> QED
            BY <3>1 DEF Excused
    <2>2. CASE o.by \in killed \/ o \in unsure \/ (o.by = runs /\ o.name = "kubeconfig")
        BY <1>1, <1>4, <2>2 DEF Excused
    <2>3. CASE o.by = runs /\ Pending(o.name)
        <3>1. ASSUME now.phase = "do" PROVE Pending(o.name)'
            <4>1. PICK k \in 1 .. 2 : RemovesAt(Blocks[now.block], o.name, k)
                BY <1>5, <2>3, <3>1 DEF Pending
            <4> QED
                BY <1>2, <1>3, <1>5, <3>1, <4>1 DEF Pending, RemovesAt
        <3>2. ASSUME now.phase = "undo" PROVE Pending(o.name)'
            <4>1. now.at = 1 /\ RemovesAt(Blocks[now.block], o.name, 2)
                BY <1>1, <1>6, <2>3, <3>2, RemovalRemoves
            <4>2. now'.at <= 2 /\ 2 \in 1 .. 2
                BY <1>2, <4>1
            <4> QED
                BY <1>2, <1>3, <1>5, <4>1, <4>2 DEF Pending, RemovesAt
        <3>3. Pending(o.name)'
            BY <1>5, <3>1, <3>2
        <3> QED
            BY <1>1, <1>4, <2>3, <3>3 DEF Excused
    <2> QED
        BY <2>1, <2>2, <2>3
<1>7. CASE o \notin world
    <2>1. /\ now.phase = "do" /\ now.fate = "ok" /\ o.by = runs
          /\ \/ Removes(Blocks[now.block], o.name)
             \/ now.at = Len(Commands) /\ HandedOver(Blocks, now.block, o.name)
        BY <1>1, <1>7, MakingIsPending
    <2>2. Pending(o.name)'
        <3>1. Removes(Blocks[now.block], o.name) =>
                 \E k \in 1 .. 2 : RemovesAt(Blocks[now.block], o.name, k)
            BY DEF Removes
        <3>2. CASE Removes(Blocks[now.block], o.name)
            BY <1>2, <1>3, <1>5, <2>1, <3>1, <3>2 DEF Pending, RemovesAt
        <3>3. CASE now.at = Len(Commands) /\ HandedOver(Blocks, now.block, o.name)
            BY <1>2, <1>3, <1>5, <2>1, <3>3
               DEF Pending, HandedOver, Removes, RemovesAt
        <3> QED
            BY <2>1, <3>2, <3>3
    <2> QED
        BY <1>1, <1>4, <2>1, <2>2 DEF Excused
<1> QED
    BY <1>6, <1>7

LEMMA RaiseKeepsLeft ==
    ASSUME RehearsalInv, Raise
    PROVE  LeftInv'
<1> SUFFICES ASSUME NEW o \in world', o.name \in Temporary
             PROVE  Excused(o)'
    BY DEF LeftInv
<1>1. /\ HasCommand /\ runs' = runs /\ killed' = killed
      /\ unsure' = unsure \cup ({Made(Cmd.what)} \cap [name : Temporary, by : 1 .. runs])
      /\ world' \in {world, Effect(Cmd)} /\ signed' \in {signed, Signature(Cmd)}
      /\ now' = IF now.phase = "do"
                THEN [now EXCEPT !.phase = "undo", !.at = 1, !.fate = "failed"]
                ELSE [now EXCEPT !.at = Len(Commands) + 1, !.fate = "failed"]
    BY DEF Raise
<1>2. /\ now'.script = now.script /\ now'.block = now.block /\ now'.phase = "undo"
      /\ now.phase = "do" => now'.at = 1
    BY <1>1 DEF RehearsalInv, RehearsalTypeOK
<1>3. Blocks' = Blocks
    BY <1>2, SameScript
<1>4. now # Idle /\ now' # Idle
    <2>1. now # Idle /\ now'.block > 0
        BY <1>1, <1>2, CommandIs DEF RehearsalInv
    <2> QED
        BY <2>1 DEF Idle
<1>5. /\ now.block <= Len(Blocks) /\ now.at \in 1 .. Len(Commands)
      /\ now.phase \in {"do", "undo"} /\ runs \in 1 .. runs
      /\ now.phase = "do" => Commands = Blocks[now.block].do
    BY <1>1, CommandIs DEF RehearsalInv
<1>6. o.by = runs /\ o = Made(Cmd.what) => o \in unsure'
    <2>1. o = Made(Cmd.what) => Made(Cmd.what) \in [name : Temporary, by : 1 .. runs]
        BY <1>5 DEF Made
    <2> QED
        BY <1>1, <2>1
<1>7. CASE o \in world
    <2>1. \/ o.by \in killed \/ o \in unsure
          \/ o.by = runs /\ o.name = "kubeconfig"
          \/ o.by = runs /\ Pending(o.name)
        <3>1. Excused(o)
            BY <1>7 DEF RehearsalInv, LeftInv
        <3> QED
            BY <3>1 DEF Excused
    <2>2. CASE o.by \in killed \/ o \in unsure \/ (o.by = runs /\ o.name = "kubeconfig")
        BY <1>1, <1>4, <2>2 DEF Excused
    <2>3. CASE o.by = runs /\ Pending(o.name)
        <3>1. CASE now.phase = "undo"
            <4>1. o = Made(Cmd.what)
                BY <1>1, <1>7, <2>3, <3>1, RemovalRemoves
            <4> QED
                BY <1>6, <2>3, <4>1 DEF Excused
        <3>2. CASE now.phase = "do"
            <4>1. PICK k \in 1 .. 2 : RemovesAt(Blocks[now.block], o.name, k)
                BY <1>5, <2>3, <3>2 DEF Pending
            <4>2. Pending(o.name)'
                <5>1. now'.at <= k
                    BY <1>2, <3>2
                <5> QED
                    BY <1>2, <1>3, <1>5, <4>1, <5>1 DEF Pending, RemovesAt
            <4> QED
                BY <1>1, <1>4, <2>3, <4>2 DEF Excused
        <3> QED
            BY <1>5, <3>1, <3>2
    <2> QED
        BY <2>1, <2>2, <2>3
<1>8. CASE o \notin world
    <2>1. o.by = runs /\ o = Made(Cmd.what)
        BY <1>1, <1>8, MakingIsPending
    <2> QED
        BY <1>6, <2>1 DEF Excused
<1> QED
    BY <1>7, <1>8

LEMMA WelcomeMeans ==
    ASSUME Welcome
    PROVE  /\ Present = {} => /\ ~Has(world, "database")
                               /\ \A o \in world : o.name \notin Credentials
           /\ Present # {} => Has(world, "eps-db-admin")
    BY DEF Welcome, Present, Has, Credentials

(* rehearse_observability goes from the listing to the database.           *)
LEMMA SucceedKeepsIssue ==
    ASSUME RehearsalInv, Succeed
    PROVE  IssueInv'
<1>1. /\ HasCommand /\ runs' = runs /\ Possible(Cmd) /\ world' = Effect(Cmd)
      /\ now' = [now EXCEPT !.at = @ + 1,
                            !.issuing = IF Cmd.op = "fresh" THEN Present = {} ELSE @]
    BY DEF Succeed
<1>2. /\ now'.script = now.script /\ now'.block = now.block /\ now'.phase = now.phase
      /\ now'.at = now.at + 1
      /\ Cmd.op = "fresh" => (now'.issuing <=> Present = {})
      /\ Cmd.op # "fresh" => now'.issuing = now.issuing
    BY <1>1, NowIsProgress DEF Progress
<1>3. SUFFICES ASSUME now.script = "observability", now.at + 1 > 3
               PROVE  /\ now'.issuing =>
                            \/ now'.at > 8
                            \/ /\ ~Has(world', "database")
                               /\ \A o \in world' : o.name \in Credentials => o.by = runs'
                      /\ now'.at > 5 \/ ~now'.issuing => Has(world', "eps-db-admin")
    BY <1>2 DEF IssueInv, Has
<1>4. /\ now.block = 1 /\ now.phase = "do" /\ now.at \in 3 .. 11
    BY <1>1, <1>3, RefoundingIs DEF RehearsalInv
<1>5. Has(world, "eps-db-admin") => Has(world', "eps-db-admin")
    <2>1. Gentle(Cmd) /\ "eps-db-admin" \in Kept
        BY <1>1, CommandIs DEF RehearsalInv, Kept, Retained, Credentials
    <2> QED
        BY <1>1, <2>1, KeptStays DEF Has
<1>6. CASE now.at = 3
    <2>1. Cmd = Fresh /\ Cmd.op = "fresh"
        BY <1>1, <1>3, <1>6, RefoundingIs, RefoundingCommands DEF RehearsalInv
    <2>2. Welcome
        BY <1>1, <2>1 DEF Possible
    <2>3. world' = world
        BY <1>1, <2>1, EffectIs DEF Makers
    <2> QED
        BY <1>2, <1>6, <2>1, <2>2, <2>3, WelcomeMeans
<1>7. CASE now.at # 3
    <2>1. /\ now.issuing => now.at > 8 \/ (/\ ~Has(world, "database")
                         /\ \A o \in world : o.name \in Credentials => o.by = runs)
          /\ now.at > 5 \/ ~now.issuing => Has(world, "eps-db-admin")
        BY <1>3, <1>4, <1>7 DEF RehearsalInv, IssueInv
    <2>2. Cmd.op # "fresh"
        <3>1. CASE now.at \in Refounding
            BY <1>1, <1>3, <1>7, <3>1, RefoundingIs, RefoundingCommands
               DEF RehearsalInv, Refounding
        <3>2. CASE now.at \notin Refounding
            BY <1>1, <1>3, <3>2, RefoundingIs DEF RehearsalInv, Mild
        <3> QED
            BY <3>1, <3>2
    <2>3. now'.issuing = now.issuing
        BY <1>2, <2>2
    <2>4. now'.at > 5 \/ ~now'.issuing => Has(world', "eps-db-admin")
        <3>1. CASE now.at > 5 \/ ~now.issuing
            BY <1>5, <2>1, <3>1
        <3>2. CASE now.at = 5 /\ now.issuing
            <4>1. Cmd.op = "issue" /\ Cmd.what = "eps-db-admin"
                BY <1>1, <1>3, <3>2, RefoundingIs, RefoundingCommands DEF RehearsalInv
            <4>2. ~Has(world, "eps-db-admin")
                BY <1>1, <3>2, <4>1 DEF Possible
            <4>3. world' = Put(world, "eps-db-admin")
                BY <1>1, <3>2, <4>1, <4>2, EffectIs
            <4> QED
                BY <4>3, PutIs DEF Has
        <3> QED
            BY <1>2, <1>4, <2>3, <3>1, <3>2
    <2>5. ASSUME now.issuing, now.at <= 7
          PROVE  /\ ~Has(world', "database")
                 /\ \A o \in world' : o.name \in Credentials => o.by = runs'
        <3>1. /\ ~Has(world, "database")
              /\ \A o \in world : o.name \in Credentials => o.by = runs
            BY <1>4, <2>1, <2>5
        <3>2. "database" \in Secrets /\ \A n \in Credentials : n \in Secrets
            BY DEF Secrets
        <3>3. CASE Mild(Cmd)
            BY <1>1, <3>1, <3>2, <3>3, MildKeepsSecrets DEF Has
        <3>4. CASE now.at \in {4, 5, 6}
            <4>1. Cmd.op = "issue" /\ Cmd.what # "database"
                BY <1>1, <1>3, <3>4, RefoundingIs, RefoundingCommands DEF RehearsalInv
            <4>2. \A o \in world' : o \in world \/ o = Made(Cmd.what)
                BY <1>1, <4>1, EffectMakes
            <4> QED
                BY <1>1, <3>1, <4>1, <4>2, PutIs DEF Has
        <3>5. now.at \in {4, 5, 6} \/ Mild(Cmd)
            BY <1>1, <1>3, <1>4, <1>7, <2>5, RefoundingIs DEF RehearsalInv, Refounding
        <3> QED
            BY <3>3, <3>4, <3>5
    <2> QED
        BY <1>2, <1>4, <2>3, <2>4, <2>5
<1> QED
    BY <1>6, <1>7

LEMMA SucceedKeepsInv ==
    ASSUME RehearsalInv, Succeed
    PROVE  RehearsalInv'
<1>1. Matching'
    BY CommandKeepsMatching DEF Succeed
<1> QED
    BY <1>1, SucceedKeepsTypes, SucceedKeepsLeft, SucceedKeepsIssue DEF RehearsalInv

LEMMA RaiseKeepsInv ==
    ASSUME RehearsalInv, Raise
    PROVE  RehearsalInv'
<1>1. Matching'
    <2>1. CASE world' = world
        BY <2>1 DEF RehearsalInv, Matching
    <2>2. CASE world' # world
        BY <2>2, CommandKeepsMatching DEF Raise
    <2> QED
        BY <2>1, <2>2
<1>2. now'.phase = "undo"
    BY NowIsProgress DEF Raise, Progress
<1>3. IssueInv'
    BY <1>2 DEF IssueInv
<1> QED
    BY <1>1, <1>3, RaiseKeepsTypes, RaiseKeepsLeft DEF RehearsalInv

LEMMA EnterFinallyKeepsInv ==
    ASSUME RehearsalInv, EnterFinally
    PROVE  RehearsalInv'
<1>1. /\ UNCHANGED <<world, runs, signed, killed, unsure>>
      /\ now # Idle /\ now.block <= Len(Blocks) /\ now.phase = "do"
      /\ now.at > Len(Commands)
      /\ now' = [now EXCEPT !.phase = "undo", !.at = 1]
    BY DEF EnterFinally, Running
<1>2. /\ now'.script = now.script /\ now'.block = now.block /\ now'.phase = "undo"
      /\ now'.at = 1 /\ now'.fate = now.fate
    BY <1>1, NowIsProgress DEF Progress
<1>3. Blocks' = Blocks
    BY <1>2, SameScript
<1>4. /\ runs > 0 /\ now.script \in Scripts /\ now.block \in 1 .. Len(Blocks) + 1
      /\ runs \in Nat /\ killed \subseteq 1 .. runs /\ signed \in 0 .. runs
      /\ unsure \subseteq [name : Temporary, by : 1 .. runs]
      /\ \A o \in world : o = [name |-> o.name, by |-> o.by] /\ o.by \in 0 .. runs
    BY <1>1 DEF RehearsalInv, RehearsalTypeOK
<1>5. now' \in Progress
    <2> DEFINE back == [now EXCEPT !.phase = "undo"]
    <2>1. back \in Progress
        <3>1. "undo" \in {"do", "undo"}
            OBVIOUS
        <3> QED
            BY <3>1, NowIsProgress, ProgressGoesOn
    <2>2. now' = [back EXCEPT !.at = 1]
        BY <1>1
    <2> HIDE DEF back
    <2> QED
        BY <2>1, <2>2, ProgressGoesOn
<1>6. RehearsalTypeOK'
    BY <1>1, <1>2, <1>3, <1>4, <1>5 DEF RehearsalTypeOK, Progress
<1>7. LeftInv'
    <2> SUFFICES ASSUME NEW o \in world, o.name \in Temporary
                 PROVE  Excused(o)'
        BY <1>1 DEF LeftInv
    <2>1. Excused(o)
        BY DEF RehearsalInv, LeftInv
    <2>2. Pending(o.name) => Pending(o.name)'
        <3> SUFFICES ASSUME Pending(o.name) PROVE Pending(o.name)'
            OBVIOUS
        <3>1. CASE \E k \in 1 .. 2 : RemovesAt(Blocks[now.block], o.name, k)
            <4>1. PICK k \in 1 .. 2 : RemovesAt(Blocks[now.block], o.name, k)
                BY <3>1
            <4>2. now'.at <= k
                BY <1>2
            <4> QED
                BY <1>1, <1>2, <1>3, <4>1, <4>2 DEF Pending, RemovesAt
        <3>2. CASE HandedOver(Blocks, now.block, o.name) /\ now.fate = "ok"
            BY <1>1, <1>2, <1>3, <3>2 DEF Pending, HandedOver, Removes, RemovesAt
        <3> QED
            BY <3>1, <3>2 DEF Pending
    <2>3. now' # Idle
        BY <1>2 DEF Idle
    <2> QED
        BY <1>1, <2>1, <2>2, <2>3 DEF Excused
<1>8. Matching' /\ IssueInv'
    BY <1>1, <1>2 DEF RehearsalInv, Matching, IssueInv
<1> QED
    BY <1>6, <1>7, <1>8 DEF RehearsalInv

LEMMA LeaveBlockKeepsInv ==
    ASSUME RehearsalInv, LeaveBlock
    PROVE  RehearsalInv'
<1>1. /\ UNCHANGED <<world, runs, signed, killed, unsure>>
      /\ now # Idle /\ now.block <= Len(Blocks) /\ now.phase = "undo"
      /\ now.at > Len(Commands)
      /\ now' = [now EXCEPT !.phase = "do", !.at = 1,
                 !.block = IF now.fate = "ok" THEN @ + 1 ELSE Len(Blocks) + 1]
    BY DEF LeaveBlock, Running
<1>2. /\ now'.script = now.script /\ now'.phase = "do"
      /\ now'.at = 1 /\ now'.fate = now.fate
      /\ now'.block = IF now.fate = "ok" THEN now.block + 1 ELSE Len(Blocks) + 1
    BY <1>1, NowIsProgress DEF Progress
<1>3. Blocks' = Blocks
    BY <1>2, SameScript
<1>4. /\ runs > 0 /\ now.script \in Scripts /\ now.block \in 1 .. Len(Blocks) + 1
      /\ runs \in Nat /\ killed \subseteq 1 .. runs /\ signed \in 0 .. runs
      /\ unsure \subseteq [name : Temporary, by : 1 .. runs]
      /\ \A o \in world : o = [name |-> o.name, by |-> o.by] /\ o.by \in 0 .. runs
      /\ now.fate \in {"ok", "failed"}
    BY <1>1 DEF RehearsalInv, RehearsalTypeOK
<1>5. Len(Blocks) \in Nat /\ Tidy(Blocks)
    BY <1>4, ScriptsAreTidy DEF Blocks, Tidy
<1>6. now' \in Progress
    <2> DEFINE on == [now EXCEPT !.phase = "do"]
               first == [on EXCEPT !.at = 1]
               k == IF now.fate = "ok" THEN now.block + 1 ELSE Len(Blocks) + 1
    <2>1. on \in Progress
        <3>1. "do" \in {"do", "undo"}
            OBVIOUS
        <3> QED
            BY <3>1, NowIsProgress, ProgressGoesOn
    <2>2. k \in Nat
        BY <1>5, NowIsProgress
    <2>3. now' = [first EXCEPT !.block = k]
        BY <1>1
    <2> HIDE DEF on, k
    <2>4. first \in Progress
        BY <2>1, ProgressGoesOn
    <2> HIDE DEF first
    <2> QED
        BY <2>2, <2>3, <2>4, ProgressGoesOn
<1>7. RehearsalTypeOK'
    <2>1. now'.block \in 1 .. Len(Blocks) + 1
        BY <1>1, <1>2, <1>4, <1>5
    <2>2. now'.block <= Len(Blocks) => now'.fate = "ok"
        BY <1>2, <1>4, <1>5
    <2> QED
        BY <1>1, <1>2, <1>3, <1>4, <1>6, <2>1, <2>2 DEF RehearsalTypeOK, Progress
<1>8. LeftInv'
    <2> SUFFICES ASSUME NEW o \in world, o.name \in Temporary
                 PROVE  Excused(o)'
        BY <1>1 DEF LeftInv
    <2>1. Excused(o)
        BY DEF RehearsalInv, LeftInv
    <2>2. Pending(o.name) => Pending(o.name)'
        <3> SUFFICES ASSUME Pending(o.name) PROVE Pending(o.name)'
            OBVIOUS
        <3>1. Commands = Blocks[now.block].undo
            BY <1>1 DEF Commands
        <3>2. ~ \E k \in 1 .. 2 : RemovesAt(Blocks[now.block], o.name, k) /\ now.at <= k
            <4>1. Len(Blocks[now.block].undo) \in Nat /\ now.at \in Nat
                BY <1>1, <1>4, <1>5, NowIsProgress DEF Tidy, TidyBlock
            <4> QED
                BY <1>1, <3>1, <4>1 DEF RemovesAt
        <3>3. HandedOver(Blocks, now.block, o.name) /\ now.fate = "ok"
            BY <1>1, <3>2 DEF Pending
        <3>4. /\ now'.block = now.block + 1 /\ now'.block <= Len(Blocks)
              /\ Removes(Blocks[now'.block], o.name)
            BY <1>2, <1>4, <1>5, <3>3 DEF HandedOver
        <3>5. PICK k \in 1 .. 2 : RemovesAt(Blocks[now'.block], o.name, k)
            BY <3>4 DEF Removes
        <3> QED
            BY <1>2, <1>3, <3>4, <3>5 DEF Pending, RemovesAt
    <2>3. now' # Idle
        BY <1>2, <1>4 DEF Idle
    <2> QED
        BY <1>1, <2>1, <2>2, <2>3 DEF Excused
<1>9. Matching' /\ IssueInv'
    BY <1>1, <1>2 DEF RehearsalInv, Matching, IssueInv
<1> QED
    BY <1>7, <1>8, <1>9 DEF RehearsalInv

LEMMA IdleIsTyped ==
    /\ Idle \in Progress
    /\ Idle.script # "observability"
    BY DEF Idle, Progress

(* The end of a script, the operator's own hand and a new start.           *)
LEMMA EndKeepsInv ==
    ASSUME RehearsalInv, Exit \/ Kill
    PROVE  RehearsalInv'
<1>1. /\ now # Idle /\ now' = Idle /\ runs' = runs /\ unsure' = unsure
      /\ signed' = signed
      /\ killed' \in {killed, killed \cup {runs}} /\ world' \subseteq world
    BY DEF Exit, Kill
<1>2. /\ runs > 0 /\ runs \in Nat /\ killed \subseteq 1 .. runs /\ signed \in 0 .. runs
      /\ unsure \subseteq [name : Temporary, by : 1 .. runs]
      /\ \A o \in world : o = [name |-> o.name, by |-> o.by] /\ o.by \in 0 .. runs
    BY <1>1 DEF RehearsalInv, RehearsalTypeOK
<1>3. RehearsalTypeOK'
    BY <1>1, <1>2, IdleIsTyped DEF RehearsalTypeOK, Progress
<1>4. LeftInv'
    <2> SUFFICES ASSUME NEW o \in world', o.name \in Temporary
                 PROVE  Excused(o)'
        BY DEF LeftInv
    <2>1. Excused(o)
        BY <1>1 DEF RehearsalInv, LeftInv
    <2>2. CASE Kill
        BY <2>1, <2>2 DEF Excused, Kill
    <2>3. CASE Exit
        <3>1. ~Pending(o.name)
            <4>1. Len(Blocks) \in Nat /\ now.block \in Nat /\ now.block > Len(Blocks)
                BY <1>1, <2>3, ScriptsAreTidy
                   DEF Exit, Blocks, RehearsalInv, RehearsalTypeOK, Tidy
            <4> QED
                BY <4>1 DEF Pending
        <3>2. o = [name |-> o.name, by |-> o.by] /\ o # Made("kubeconfig")
            BY <1>1, <1>2, <2>3 DEF Exit
        <3>3. ~(o.name = "kubeconfig" /\ o.by = runs)
            BY <3>2 DEF Made
        <3> QED
            BY <2>1, <2>3, <3>1, <3>3 DEF Excused, Exit
    <2> QED
        BY <2>2, <2>3
<1>5. Matching' /\ IssueInv'
    BY <1>1, IdleIsTyped DEF RehearsalInv, Matching, IssueInv
<1> QED
    BY <1>3, <1>4, <1>5 DEF RehearsalInv

LEMMA RetireKeepsInv ==
    ASSUME RehearsalInv, NEW n, Retire(n)
    PROVE  RehearsalInv'
<1>1. /\ now = Idle /\ now' = now /\ runs' = runs /\ unsure' = unsure /\ killed' = killed
      /\ signed' = signed
      /\ world' \subseteq world
    BY DEF Retire
<1>2. RehearsalTypeOK'
    <2>1. /\ runs \in Nat /\ killed \subseteq 1 .. runs /\ signed \in 0 .. runs
          /\ unsure \subseteq [name : Temporary, by : 1 .. runs]
          /\ \A o \in world : o = [name |-> o.name, by |-> o.by] /\ o.by \in 0 .. runs
        BY DEF RehearsalInv, RehearsalTypeOK
    <2> QED
        BY <1>1, <2>1, IdleIsTyped DEF RehearsalTypeOK, Progress
<1>3. LeftInv'
    BY <1>1 DEF RehearsalInv, LeftInv, Excused
<1>4. Matching' /\ IssueInv'
    BY <1>1, IdleIsTyped DEF RehearsalInv, Matching, IssueInv
<1> QED
    BY <1>2, <1>3, <1>4 DEF RehearsalInv

LEMMA StartKeepsInv ==
    ASSUME RehearsalInv, NEW s \in Scripts, Launch(s)
    PROVE  RehearsalInv'
<1>1. /\ now = Idle /\ runs' = runs + 1 /\ unsure' = unsure /\ killed' = killed
      /\ signed' = signed
      /\ world' \subseteq world \cup {[name |-> "kubeconfig", by |-> runs + 1]}
      /\ now' = [Idle EXCEPT !.script = s, !.block = 1, !.at = 1]
    BY DEF Launch
<1>2. /\ runs \in Nat /\ killed \subseteq 1 .. runs /\ signed \in 0 .. runs
      /\ unsure \subseteq [name : Temporary, by : 1 .. runs]
      /\ \A o \in world : o = [name |-> o.name, by |-> o.by] /\ o.by \in 0 .. runs
    BY DEF RehearsalInv, RehearsalTypeOK
<1>3. /\ now' \in Progress /\ now'.script = s /\ now'.block = 1 /\ now'.at = 1
      /\ now'.phase = "do" /\ now'.fate = "ok"
    <2> DEFINE named == [Idle EXCEPT !.script = s]
               first == [named EXCEPT !.block = 1]
    <2>1. Idle.phase = "do" /\ Idle.fate = "ok"
        BY DEF Idle
    <2>2. /\ named \in Progress /\ named.script = s
          /\ named.phase = "do" /\ named.fate = "ok"
        BY <2>1, IdleIsTyped DEF Progress
    <2>3. now' = [first EXCEPT !.at = 1]
        BY <1>1
    <2> HIDE DEF named
    <2>4. /\ first \in Progress /\ first.script = s /\ first.block = 1
          /\ first.phase = "do" /\ first.fate = "ok"
        BY <2>2 DEF Progress
    <2> HIDE DEF first
    <2> QED
        BY <2>3, <2>4 DEF Progress
<1>4. now' # Idle
    BY <1>3 DEF Idle
<1>5. \A o \in world' : o = [name |-> o.name, by |-> o.by] /\ o.by \in 0 .. runs'
    BY <1>1, <1>2
<1>6. /\ killed' \subseteq 1 .. runs' /\ signed' \in 0 .. runs'
      /\ unsure' \subseteq [name : Temporary, by : 1 .. runs']
    BY <1>1, <1>2
<1>7. Blocks' = Script[s] /\ Len(Script[s]) \in Nat
    BY <1>3, ScriptHasBlocks DEF Blocks
<1>8. RehearsalTypeOK'
    BY <1>1, <1>2, <1>3, <1>5, <1>6, <1>7 DEF RehearsalTypeOK, Progress
<1>9. LeftInv'
    <2> SUFFICES ASSUME NEW o \in world', o.name \in Temporary
                 PROVE  Excused(o)'
        BY DEF LeftInv
    <2>1. CASE o \in world
        BY <1>1, <2>1 DEF RehearsalInv, LeftInv, Excused
    <2>2. CASE o \notin world
        BY <1>1, <1>4, <2>2 DEF Excused
    <2> QED
        BY <2>1, <2>2
<1>10. Matching'
    <2>1. \A o \in world' : o.name \in Secrets => o \in world
        BY <1>1 DEF Secrets, Credentials
    <2> QED
        BY <2>1 DEF RehearsalInv, Matching
<1>11. IssueInv'
    BY <1>3 DEF IssueInv
<1> QED
    BY <1>8, <1>9, <1>10, <1>11 DEF RehearsalInv

LEMMA StepKeepsInv == RehearsalInv /\ [RehearsalNext]_rehearsalVars => RehearsalInv'
<1> SUFFICES ASSUME RehearsalInv, [RehearsalNext]_rehearsalVars
             PROVE  RehearsalInv'
    OBVIOUS
<1>1. ASSUME NEW s \in Scripts, Launch(s)
      PROVE  RehearsalInv'
    BY <1>1, StartKeepsInv
<1>2. CASE Succeed
    BY <1>2, SucceedKeepsInv
<1>3. CASE Raise
    BY <1>3, RaiseKeepsInv
<1>4. CASE EnterFinally
    BY <1>4, EnterFinallyKeepsInv
<1>5. CASE LeaveBlock
    BY <1>5, LeaveBlockKeepsInv
<1>6. CASE Exit \/ Kill
    BY <1>6, EndKeepsInv
<1>7. ASSUME NEW what \in Credentials \cup {"database"}, Retire(what)
      PROVE  RehearsalInv'
    BY <1>7, RetireKeepsInv
<1>8. CASE UNCHANGED rehearsalVars
    <2>1. /\ world' = world /\ runs' = runs /\ now' = now /\ killed' = killed
          /\ unsure' = unsure /\ signed' = signed
        BY <1>8 DEF rehearsalVars
    <2>2. RehearsalTypeOK' /\ LeftInv'
        <3>1. Blocks' = Blocks
            BY <2>1, SameScript
        <3> QED
            BY <2>1, <3>1 DEF RehearsalInv, RehearsalTypeOK, LeftInv, Excused, Pending
    <2> QED
        BY <2>1, <2>2 DEF RehearsalInv, Matching, IssueInv
<1> QED
    BY <1>1, <1>2, <1>3, <1>4, <1>5, <1>6, <1>7, <1>8 DEF RehearsalNext

LEMMA RehearsalIsInductive == RehearsalSpec => []RehearsalInv
    BY InitHasInv, StepKeepsInv, PTL DEF RehearsalSpec

(* The types of the rehearsals' state, whatever fails or is killed.        *)
THEOREM RehearsalTypesHold == RehearsalSpec => []RehearsalTypeOK
<1>1. RehearsalInv => RehearsalTypeOK
    BY DEF RehearsalInv
<1> QED
    BY <1>1, RehearsalIsInductive, PTL

(* What a script makes for itself outlives it only after a kill, or after  *)
(* the failure of the very command that makes it, asks for its removal, or *)
(* removes it: the restoring sync of the deployment rehearsal among them,  *)
(* which is asked for by one command and seen to succeed by the next.      *)
THEOREM LeftoversAreExplained == RehearsalSpec => []LeftoversExplained
<1>1. RehearsalInv => LeftoversExplained
    <2> SUFFICES ASSUME RehearsalInv, NEW o \in world, o.name \in Temporary, Over(o.by)
                 PROVE  o.by \in killed \/ o \in unsure
        BY DEF LeftoversExplained
    <2>1. Excused(o)
        BY DEF RehearsalInv, LeftInv
    <2>2. runs \in Nat
        BY DEF RehearsalInv, RehearsalTypeOK
    <2>3. ~(now # Idle /\ o.by = runs)
        BY <2>2 DEF Over
    <2> QED
        BY <2>1, <2>3 DEF Excused
<1> QED
    BY <1>1, RehearsalIsInductive, PTL

(* The credentials are always those the volume was initialised with.       *)
THEOREM VolumeFitsItsPasswords == RehearsalSpec => []VolumeKnowsItsPasswords
<1>1. RehearsalInv => VolumeKnowsItsPasswords
    <2> SUFFICES ASSUME RehearsalInv, Has(world, "database"),
                        NEW o \in world, o.name \in Credentials
                 PROVE  o.by = By(world, "database")
        BY DEF VolumeKnowsItsPasswords
    <2>1. PICK d \in world : d.name = "database" /\ By(world, "database") = d.by
        BY ByIs
    <2>2. o.name \in Secrets /\ d.name \in Secrets
        BY <2>1 DEF Secrets
    <2>3. o.by = d.by
        BY <2>2 DEF RehearsalInv, Matching
    <2> QED
        BY <2>1, <2>3
<1> QED
    BY <1>1, RehearsalIsInductive, PTL

(* The signing key of a Secret that exists is renewed by maintenance only. *)
LEMMA OnlyMaintenanceSigns ==
    ASSUME RehearsalInv, HasCommand, Signature(Cmd) # signed, Has(world, "eps")
    PROVE  now.script = "maintenance"
<1>1. Cmd.what = "eps" /\ (Cmd.op = "renew" \/ Effect(Cmd) # world)
    BY DEF Signature
<1>2. Gentle(Cmd) /\ "eps" \in Kept
    BY CommandIs DEF RehearsalInv, Kept, Retained, Credentials
<1>3. Effect(Cmd) = world
    <2>1. Cmd.op \notin Touchers \cup {"deploy"}
        BY <1>1, <1>2 DEF Gentle
    <2>2. CASE Cmd.op \in {"keep", "issue"}
        BY <1>1, <2>2, EffectIs
    <2>3. CASE Cmd.op \notin {"keep", "issue"}
        BY <2>1, <2>3, EffectIs DEF Touchers, Makers
    <2> QED
        BY <2>2, <2>3
<1>4. Cmd.op = "renew"
    BY <1>1, <1>3
<1>5. now.script # "observability"
    <2>1. ASSUME now.script = "observability" PROVE FALSE
        <3>1. now.at \in Refounding
            BY <1>4, <2>1, RefoundingIs DEF RehearsalInv
        <3> QED
            BY <1>4, <2>1, <3>1, RefoundingIs, RefoundingCommands
               DEF RehearsalInv, Refounding
    <2> QED
        BY <2>1
<1> QED
    BY <1>4, <1>5, CommandIs DEF RehearsalInv

(* No script, and no failure of one, replaces or removes a credential that *)
(* exists: only the operator does, between two scripts.  Of the Secret eps *)
(* the maintenance rehearsal renews the signing key, and no other script.  *)
THEOREM CredentialsAreKept == RehearsalSpec => CredentialsKept
<1> DEFINE Kind == /\ \A o \in world : o.name \in Retained =>
                         o \in world' \/ (now = Idle /\ ~Has(world', o.name))
                   /\ signed' # signed /\ Has(world, "eps") =>
                         now.script = "maintenance"
<1>1. ASSUME RehearsalInv, RehearsalNext, NEW o \in world, o.name \in Retained
      PROVE  o \in world' \/ (now = Idle /\ ~Has(world', o.name))
    <2>1. CASE Succeed \/ Raise
        <3>1. HasCommand /\ world' \in {world, Effect(Cmd)}
            BY <2>1 DEF Succeed, Raise
        <3>2. Gentle(Cmd) /\ o.name \in Kept
            BY <1>1, <3>1, CommandIs DEF RehearsalInv, Kept
        <3> QED
            BY <3>1, <3>2, KeptStays
    <2>2. CASE Exit
        <3>1. o # Made("kubeconfig")
            BY <1>1 DEF Made, Retained, Credentials
        <3> QED
            BY <2>2, <3>1 DEF Exit
    <2>3. ASSUME NEW n, Retire(n)
          PROVE  o \in world' \/ (now = Idle /\ ~Has(world', o.name))
        BY <2>3 DEF Retire, Has
    <2>4. ASSUME NEW s, Launch(s)
          PROVE  o \in world'
        BY <2>4 DEF Launch
    <2>5. CASE EnterFinally \/ LeaveBlock \/ Kill
        BY <2>5 DEF EnterFinally, LeaveBlock, Kill
    <2> QED
        BY <1>1, <2>1, <2>2, <2>3, <2>4, <2>5 DEF RehearsalNext
<1>2. ASSUME RehearsalInv, RehearsalNext, signed' # signed, Has(world, "eps")
      PROVE  now.script = "maintenance"
    <2>1. HasCommand /\ signed' = Signature(Cmd)
        BY <1>2 DEF RehearsalNext, Launch, Succeed, Raise, EnterFinally, LeaveBlock, Exit,
                    Kill, Retire
    <2> QED
        BY <1>2, <2>1, OnlyMaintenanceSigns
<1>3. RehearsalInv /\ [RehearsalNext]_rehearsalVars => [Kind]_rehearsalVars
    BY <1>1, <1>2
<1>4. RehearsalSpec => [][Kind]_rehearsalVars
    <2> HIDE DEF Kind
    <2> QED
        BY <1>3, RehearsalIsInductive, PTL DEF RehearsalSpec
<1> QED
    BY <1>4 DEF CredentialsKept
=============================================================================
