----------------------------- MODULE Rehearsal -----------------------------
(* The operator's rehearsal and acceptance scripts against the local cluster,
   scripts/rehearse_*.py, check_live_observability.py, check_gitops.py, and the
   docker part of verify_argocd_image.py.

   Every script is a straight line of commands, some inside try/finally.  A
   command that returns non-zero or exceeds its 180 s raises (`run`), so each
   one may fail with or without its effect; the process may also be killed, and
   then no finally block runs.  A script is a sequence of blocks, each with the
   commands of its try body and those of its finally.  One definition per script
   below lists them in order; the objects are what the script leaves in the
   cluster or on the workstation, and the checks it makes without changing
   anything are "work".                                                        *)
EXTENDS Integers, Sequences

CONSTANT MaxRuns             \* scripts started

ASSUME RehearsalAssumption == MaxRuns \in Nat

VARIABLES
    world,      \* the objects that exist: [name, by], by the run that made them
    runs,       \* how many scripts were started
    now,        \* the running script: its block, its phase, its next command
    signed,     \* the run that gave the Secret eps its signing key
    killed,     \* history: the runs that were killed
    unsure      \* history: temporary objects whose own command raised

rehearsalVars == <<world, runs, now, signed, killed, unsure>>

-----------------------------------------------------------------------------
(* Commands. *)

Command(op, what) == [op |-> op, what |-> what]
Apply(what) == Command("apply", what)       \* kubectl apply, helm upgrade --install
Create(what) == Command("create", what)     \* kubectl create of a name made of a uuid
Open(what) == Command("open", what)         \* a local process
Close(what) == Command("close", what)       \* its end
(* mutant of Keep: the Secret is applied whether or not it was listed. *)
KeepAlways(what) == Command("apply", what)
Keep(what) == Command("keep", what)         \* applied when the listing had no such Secret
Issue(what) == Command("issue", what)       \* created when Fresh found no credentials
Deploy(what) == Command("deploy", what)     \* the chart with the database volume
Renew(what) == Command("renew", what)       \* kubectl replace, with a new signing key
Need(what) == Command("need", what)         \* get: raises when it is missing
Fresh == Command("fresh", "credentials")    \* rehearse_observability's refusal
Work(what) == Command("work", what)
Ask(what) == Command("ask", what)           \* posts an operation to Argo, no more
Drop(what) == Command("drop", what)

Block(body, finally) == [do |-> body, undo |-> finally]
Plain(body) == Block(body, <<>>)
(* mutant of Guarded: the removal ends the body instead of a finally. *)
GuardedInline(make, body, finally) == <<Plain(<<make>> \o body \o finally)>>
(* What is made before its try statement: a block of its own. *)
Guarded(make, body, finally) == <<Plain(<<make>>), Block(body, finally)>>

Credentials == {"eps", "eps-db-admin", "eps-exporter"}

-----------------------------------------------------------------------------
(* Scripts. *)

Probe(pod) == Block(<<Apply(pod), Work("pull")>>, <<Drop(pod)>>)

Registry ==
    <<Plain(<<Apply("eps_namespace"), Apply("dhi-pull_eps"),
              Apply("external-secrets_namespace"), Apply("dhi-pull_external-secrets")>>),
      Probe("probe_eps"), Probe("probe_external-secrets")>>

DatabaseSetup ==
    <<Work("default-deny"), Work("credentials"), Work("database"), Work("rollout")>>
DatabaseRestore == <<Work("roles"), Work("dump"), Work("restore"), Work("version")>>
DatabaseRotation ==
    <<Work("canary"), Work("alter_role"), Work("new_password"), Work("secret"), Work("pod")>>

KubernetesDb ==
    <<Plain(<<Need("dhi-pull_eps"), Create("database_namespace")>>),
      Block(DatabaseSetup \o DatabaseRestore \o DatabaseRotation,
            <<Drop("database_namespace")>>)>>

SecretControllers ==
    <<Plain(<<Work("archives"), Need("dhi-pull_external-secrets"),
              Apply("platform_namespaces"), Apply("cert-manager"),
              Apply("webhook_issuer"), Work("issuer_ready"), Apply("identities"),
              Apply("external-secrets"), Work("permissions")>>)>>

Ingress ==
    <<Plain(<<Work("loopback"), Work("no_unrelated_issuer"), Apply("issuer"),
              Work("certificates"), Need("issuer"), Apply("ingress_CA"), Apply("ingress"),
              Work("certificate"), Apply("blackbox"), Work("rollout")>>)>>

Monitoring ==
    <<Plain(<<Work("archives"), Need("platform_namespaces"), Keep("dhi-pull_monitoring"),
              Keep("eps-grafana"), Apply("dashboards"), Apply("monitoring"),
              Work("ready")>>)>>

ArgocdInstall ==
    <<Work("archive"), Apply("argocd_namespace"), Apply("private-argo"),
      Keep("argocd-redis"), Apply("argocd_rbac"), Apply("argocd")>>
ArgocdChecks ==
    <<Work("rollouts"), Need("argocd-redis"), Work("ping"), Work("private"), Work("denied")>>
Argocd == <<Plain(ArgocdInstall \o ArgocdChecks)>>

Observability ==
    <<Plain(<<Work("records"), Need("eps_namespace"), Fresh,
              Issue("eps"), Issue("eps-db-admin"), Issue("eps-exporter"),
              Apply("policies"), Deploy("database"), Work("rollouts"),
              Apply("postgres-exporter"), Work("exporter")>>)>>

Tunnel(to, body) == Guarded(Open(to), <<Work("forward")>> \o body, <<Close(to)>>)

LiveChecks ==
    Tunnel("tunnel_web", <<Work("request")>>)
    \o <<Plain(<<Need("eps-grafana")>>)>>
    \o Tunnel("tunnel_grafana", <<Work("scrapes"), Work("logs"), Work("trace")>>)
NetworkCheck ==
    Guarded(Create("network_pod"), <<Work("ready"), Work("denied")>>, <<Drop("network_pod")>>)
AlertCheck ==
    Guarded(Create("alert_rule"), <<Work("firing"), Work("resolved")>>, <<Drop("alert_rule")>>)
DatabaseRestart ==
    Guarded(Create("canary_table"), <<Work("replace"), Work("canary")>>, <<Drop("canary_table")>>)
CatchUp(cronjob) == Guarded(Create(cronjob), <<Work("complete")>>, <<Drop(cronjob)>>)
Maintenance ==
    <<Plain(<<Need("eps"), Work("cookie"), Renew("eps"), Work("restart"), Work("signatures")>>)>>
    \o CatchUp("cleanup-audit-log") \o CatchUp("refresh-weather")
Scaling ==
    <<Plain(<<Work("settings")>>)>>
    \o Tunnel("tunnel_web", <<Work("traffic")>>)
    \o <<Plain(<<Work("scaled_up")>>)>>
    \o Guarded(Create("adapter_outage"), <<Work("unavailable"), Work("error")>>,
               <<Drop("adapter_outage"), Work("rollout")>>)
    \o <<Plain(<<Work("scaled_down")>>)>>

(* A sync with a changed source, and the one of the verified revision: asked
   for by request_sync, done when wait_operation has seen it succeed.  One that
   fails or is not over in time raises, and the change may stay. *)
Sync(change, body, after) ==
    Block(<<Create(change)>> \o body, <<Ask(change), Drop(change)>> \o after)
Gitops ==
    <<Plain(<<Work("verify_release"), Work("production"), Work("healthy"), Work("template")>>),
      Sync("failing_migration", <<Work("failed"), Work("web_unchanged")>>, <<>>),
      Plain(<<Work("history")>>),
      Sync("changed_sampling", <<Work("succeeded"), Work("template")>>, <<Work("rollout")>>),
      Plain(<<Work("restored")>>)>>

ImageFiles(image) == Guarded(Create(image), <<Work("export")>>, <<Drop(image)>>)
ArgocdImage ==
    <<Plain(<<Work("pins"), Work("attestation")>>)>>
    \o ImageFiles("donor_container") \o ImageFiles("candidate_container")
    \o <<Plain(<<Work("runs")>>)>>

Script ==
    [registry |-> Registry, kubernetes_db |-> KubernetesDb,
     secret_controllers |-> SecretControllers, ingress |-> Ingress,
     monitoring |-> Monitoring, argocd |-> Argocd, observability |-> Observability,
     live |-> LiveChecks \o NetworkCheck \o AlertCheck,
     restart |-> LiveChecks \o DatabaseRestart,
     maintenance |-> Maintenance, scaling |-> Scaling, gitops |-> Gitops, argocd_image |-> ArgocdImage]

Scripts == DOMAIN Script

(* Made for one run: they have no business outliving it. *)
Temporary ==
    {"kubeconfig", "probe_eps", "probe_external-secrets", "database_namespace",
     "tunnel_web", "tunnel_grafana", "network_pod", "alert_rule", "canary_table",
     "cleanup-audit-log", "refresh-weather", "adapter_outage", "failing_migration",
     "changed_sampling", "donor_container", "candidate_container"}

-----------------------------------------------------------------------------
(* The cluster and the process. *)

Idle == [script |-> "none", block |-> 0, phase |-> "do", at |-> 0, fate |-> "ok",
         issuing |-> FALSE]

Has(w, name) == \E o \in w : o.name = name
By(w, name) == (CHOOSE o \in w : o.name = name).by
Made(name) == [name |-> name, by |-> runs]
Put(w, name) == {o \in w : o.name # name \/ name \in Temporary} \cup {Made(name)}

Blocks == Script[now.script]
Commands == Blocks[now.block][now.phase]
Cmd == Commands[now.at]

Present == {c \in Credentials : Has(world, c)}

(* mutant of Welcome: a used namespace gets fresh credentials. *)
WelcomeUsed == Present \in {{}, Credentials}

(* "Refusing to replace existing application credentials", and "Fresh
   credentials require an unused application namespace". *)
Welcome ==
    \/ Present = Credentials
    \/ Present = {} /\ ~Has(world, "database")

(* Whether a command may succeed, and the world it leaves. *)
Possible(c) ==
    CASE c.op = "need" -> Has(world, c.what)
      [] c.op = "fresh" -> Welcome
      [] c.op = "issue" -> now.issuing => ~Has(world, c.what)
      [] c.op = "renew" -> Has(world, c.what)
      [] OTHER -> TRUE

Effect(c) ==
    CASE c.op \in {"apply", "create", "open"} -> Put(world, c.what)
      [] c.op = "keep" -> IF Has(world, c.what) THEN world ELSE Put(world, c.what)
      [] c.op = "issue" -> IF now.issuing /\ ~Has(world, c.what)
                           THEN Put(world, c.what) ELSE world
      [] c.op = "deploy" ->
            (* An existing volume keeps the passwords it was created with. *)
            IF Has(world, c.what) THEN world
            ELSE world \cup {[name |-> c.what, by |-> By(world, "eps-db-admin")]}
      [] c.op \in {"drop", "close"} -> world \ {Made(c.what)}
      [] OTHER -> world

(* The Secret eps is created with a signing key, or keeps all but that. *)
Signature(c) ==
    IF c.what = "eps" /\ (c.op = "renew" \/ Effect(c) # world) THEN runs ELSE signed

RehearsalInit ==
    /\ world \in {{}, {[name |-> n, by |-> 0] :
                        n \in {"eps_namespace", "dhi-pull_eps", "dhi-pull_external-secrets",
                               "platform_namespaces", "eps-grafana"}}}
    /\ runs = 0
    /\ now = Idle
    /\ signed = 0
    /\ killed = {}
    /\ unsure = {}

(* local_cluster's temporary kubeconfig lives as long as the script. *)
Launch(s) ==
    /\ now = Idle
    /\ runs < MaxRuns
    /\ runs' = runs + 1
    /\ world' = IF s = "argocd_image" THEN world
                ELSE world \cup {[name |-> "kubeconfig", by |-> runs + 1]}
    /\ now' = [Idle EXCEPT !.script = s, !.block = 1, !.at = 1]
    /\ UNCHANGED <<signed, killed, unsure>>

Running == now # Idle /\ now.block <= Len(Blocks)
HasCommand == Running /\ now.at <= Len(Commands)

Succeed ==
    /\ HasCommand
    /\ Possible(Cmd)
    /\ world' = Effect(Cmd)
    /\ signed' = Signature(Cmd)
    /\ now' = [now EXCEPT !.at = @ + 1,
                          !.issuing = IF Cmd.op = "fresh" THEN Present = {} ELSE @]
    /\ UNCHANGED <<runs, killed, unsure>>

(* The command raises: in a try body its finally runs, in a finally the rest of
   it is skipped.  A local process that does not start leaves nothing, and one
   that is slow to end was terminated all the same. *)
Raise ==
    /\ HasCommand
    /\ \/ Cmd.op # "close" /\ UNCHANGED <<world, signed>>
       \/ Cmd.op # "open" /\ Possible(Cmd) /\ world' = Effect(Cmd) /\ signed' = Signature(Cmd)
    /\ unsure' = unsure \cup ({Made(Cmd.what)} \cap [name : Temporary, by : 1..runs])
    /\ now' = IF now.phase = "do"
              THEN [now EXCEPT !.phase = "undo", !.at = 1, !.fate = "failed"]
              ELSE [now EXCEPT !.at = Len(Commands) + 1, !.fate = "failed"]
    /\ UNCHANGED <<runs, killed>>

EnterFinally ==
    /\ Running
    /\ now.phase = "do"
    /\ now.at > Len(Commands)
    /\ now' = [now EXCEPT !.phase = "undo", !.at = 1]
    /\ UNCHANGED <<world, runs, signed, killed, unsure>>

LeaveBlock ==
    /\ Running
    /\ now.phase = "undo"
    /\ now.at > Len(Commands)
    /\ now' = [now EXCEPT !.phase = "do", !.at = 1,
                          !.block = IF now.fate = "ok" THEN @ + 1 ELSE Len(Blocks) + 1]
    /\ UNCHANGED <<world, runs, signed, killed, unsure>>

Exit ==
    /\ now # Idle
    /\ now.block > Len(Blocks)
    /\ world' = world \ {Made("kubeconfig")}
    /\ now' = Idle
    /\ UNCHANGED <<runs, signed, killed, unsure>>

Kill ==
    /\ now # Idle
    /\ killed' = killed \cup {runs}
    /\ now' = Idle
    /\ UNCHANGED <<world, runs, signed, unsure>>

(* The operator retires part of the local application by hand. *)
Retire(what) ==
    /\ now = Idle
    /\ Has(world, what)
    /\ world' = {o \in world : o.name # what}
    /\ UNCHANGED <<runs, now, signed, killed, unsure>>

RehearsalNext ==
    \/ \E s \in Scripts : Launch(s)
    \/ Succeed \/ Raise \/ EnterFinally \/ LeaveBlock \/ Exit \/ Kill
    \/ \E what \in Credentials \cup {"database"} : Retire(what)

RehearsalSpec == RehearsalInit /\ [][RehearsalNext]_rehearsalVars

-----------------------------------------------------------------------------
(* The types: an object is its name and the run that made it, and a running
   script is in a block of its own, or past the last one.                     *)
RehearsalTypeOK ==
    /\ runs \in Nat
    /\ \A o \in world : o = [name |-> o.name, by |-> o.by] /\ o.by \in 0 .. runs
    /\ signed \in 0 .. runs /\ killed \subseteq 1 .. runs
    /\ unsure \subseteq [name : Temporary, by : 1 .. runs]
    /\ now \in [script : Scripts \cup {"none"}, block : Nat, phase : {"do", "undo"},
                at : Nat, fate : {"ok", "failed"}, issuing : BOOLEAN]
    /\ now # Idle =>
          /\ runs > 0 /\ now.script \in Scripts
          /\ now.block \in 1 .. Len(Blocks) + 1 /\ now.at > 0
          /\ now.phase = "do" /\ now.block <= Len(Blocks) => now.fate = "ok"

Over(r) == now = Idle \/ r < runs

(* What a script makes for itself outlives it only when the process was killed,
   or when a command that makes it, asks for its removal or removes it raised: no
   other failure of any command leaves a pod, a rule, a tunnel, a table, a job, a
   container, a namespace, a stopped adapter, a changed release or a kubeconfig
   behind. *)
LeftoversExplained ==
    \A o \in world : o.name \in Temporary /\ Over(o.by) => o.by \in killed \/ o \in unsure

(* The credentials of the local application are those its database volume was
   initialised with, whatever was interrupted or retired by hand in between. *)
VolumeKnowsItsPasswords ==
    Has(world, "database") =>
        \A o \in world : o.name \in Credentials => o.by = By(world, "database")

(* A credential that exists stays: no re-run replaces its passwords.  One rehearsal
   renews the signing key in the Secret eps and keeps the rest of it
   (check_live_observability.py 254-255), the only one that touches that key.  The
   two dhi-pull Secrets are the registry rehearsal's to renew. *)
Retained == Credentials \cup {"eps-grafana", "argocd-redis", "dhi-pull_monitoring"}
CredentialsKept ==
    [][/\ \A o \in world : o.name \in Retained =>
             o \in world' \/ (now = Idle /\ ~Has(world', o.name))
       /\ signed' # signed /\ Has(world, "eps") => now.script = "maintenance"]_rehearsalVars
=============================================================================
