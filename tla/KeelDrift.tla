------------------------------ MODULE KeelDrift ------------------------------
(***************************************************************************)
(* keel-drift (dgxarley/k3shelperstuff/keel_drift.py): compares the image  *)
(* that runs in each workload with the one its tag names in the registry.  *)
(* The workloads here share one tag; pods restart, the tag moves and the   *)
(* registry fails while the program goes from workload to workload.        *)
(*                                                                         *)
(* A digest is a record: a platform manifest has shell 0 and contains      *)
(* itself, an index has a shell and contains a manifest for each platform. *)
(* Pushing the index again gives it a new shell.                           *)
(***************************************************************************)
EXTENDS Naturals, FiniteSets, Functions

CONSTANTS
    Jobs,           \* the number of workloads
    Pods,           \* pods of a workload, in the order the cluster lists them
    Platforms,      \* platforms of an index; the cluster's is 1
    MaxAttempts,    \* REGISTRY_MAX_ATTEMPTS
    MaxPushes,      \* bound: the tag is moved
    MaxMoves,       \* bound: pods restart, stop or come back
    MaxFailures     \* bound: requests that fail

ASSUME DriftAssumption ==
    /\ Jobs \in Nat \ {0} /\ Pods \in Nat \ {0} /\ 1 \in Platforms /\ MaxAttempts \in Nat \ {0}
    /\ {MaxPushes, MaxMoves, MaxFailures} \subseteq Nat

VARIABLES
    tag,        \* the registry: what the tag names, how often it was pushed
    access,     \* whom the registry serves: "open", "public" (with a token), "private"
    secret,     \* the workloads' pull secrets: "none", "good", "bad"
    login,      \* the local docker login: "none" or "good"
    running,    \* running[w][i], the image of a pod, or Down
    driftPc, job, attempt,  \* the program: its step, the workload, requests answered 429
    ran,        \* ran[w], the digest it took for the one that runs
    lookup,     \* digest_cache of the tag
    childCache, \* child_cache, by digest
    verdict,    \* the findings
    moves, failures

clusterVars == <<tag, access, secret, login, running, moves>>
programVars == <<driftPc, job, attempt, ran, lookup, childCache, verdict, failures>>
driftVars == <<clusterVars, programVars>>

Workloads == 1 .. Jobs
Down == [shell |-> 0, of |-> {}]
Manifest(m) == [shell |-> 0, of |-> {m}]
ManifestsOf(d) == IF d.shell = 0 THEN {} ELSE {Manifest(m) : m \in d.of}
FirstBuild == [shell |-> 1, of |-> Platforms \X {0}]
NoLookup == [error |-> TRUE, acceptable |-> {}, of |-> {}]

DriftInit ==
    /\ tag = [now |-> FirstBuild, pushes |-> 0]
    /\ access \in {"open", "public", "private"}
    /\ secret \in [Workloads -> {"none", "good", "bad"}] /\ login \in {"none", "good"}
    /\ running = [w \in Workloads |-> [i \in 1 .. Pods |-> FirstBuild]]
    /\ driftPc = "pods" /\ job = 1 /\ attempt = 0
    /\ ran = [w \in Workloads |-> Down]
    /\ lookup = <<>> /\ childCache = << >>
    /\ verdict = [w \in Workloads |-> "open"]
    /\ moves = 0 /\ failures = 0

----------------------------------------------------------------------------
(* The registry and the cluster *)

Rebuilt(m) == IF m[1] \in Platforms THEN <<m[1], tag.pushes + 1>> ELSE m

\* Some platforms are built anew, none of them when only the index is.
Push(new) ==
    /\ tag.pushes < MaxPushes
    /\ tag' = [now |-> [shell |-> tag.pushes + 2,
                        of |-> {IF m[1] \in new THEN Rebuilt(m) ELSE m : m \in tag.now.of}],
               pushes |-> tag.pushes + 1]
    /\ UNCHANGED <<access, secret, login, running, moves, programVars>>

\* imageID is the index or the manifest of the platform.
Pulled == {tag.now} \cup {Manifest(m) : m \in {x \in tag.now.of : x[1] = 1}}

Move(w, i) ==
    /\ moves < MaxMoves /\ moves' = moves + 1
    /\ \E d \in Pulled \cup {Down} : running' = [running EXCEPT ![w][i] = d]
    /\ UNCHANGED <<tag, access, secret, login, programVars>>

----------------------------------------------------------------------------
(* The program *)

\* running_digests: every pod that runs overwrites what the ones before it said.
RunningDigest(w) ==
    LET up == {i \in 1 .. Pods : running[w][i] # Down}
    IN  IF up = {} THEN Down ELSE running[w][CHOOSE i \in up : \A k \in up : k <= i]

LookAtPods ==
    /\ driftPc = "pods"
    /\ ran' = [ran EXCEPT ![job] = RunningDigest(job)]
    /\ driftPc' = IF lookup = <<>> THEN "lookup" ELSE "compare"
    /\ UNCHANGED <<clusterVars, job, attempt, lookup, childCache, verdict, failures>>

\* RegistryAuth.for_registry: the pull secret, whether it is good or not, and
\* only without one the local login.
Login == IF secret[job] # "none" THEN secret[job] ELSE login

\* _authenticated_get
Served == \/ access = "open" \/ Login = "good"
          \/ access = "public" /\ Login = "none"

Fails == failures < MaxFailures /\ failures' = failures + 1

\* _request: 429, and the wait before the next attempt
Throttled ==
    /\ driftPc \in {"lookup", "children"} /\ attempt + 1 < MaxAttempts
    /\ Fails
    /\ attempt' = attempt + 1
    /\ UNCHANGED <<clusterVars, driftPc, job, ran, lookup, childCache, verdict>>

\* registry_digests: the answer may lack the digest or the list of manifests.
Answer(index, parts) ==
    [error |-> FALSE, of |-> tag.now.of,
     acceptable |-> (IF index THEN {tag.now} ELSE {}) \cup (IF parts THEN ManifestsOf(tag.now) ELSE {})]

Lookup ==
    /\ driftPc = "lookup" /\ driftPc' = "compare" /\ attempt' = 0
    /\ \/ Served /\ UNCHANGED failures /\ lookup' = <<Answer(TRUE, TRUE)>>
       \/ Served /\ Fails /\ \E index, parts \in BOOLEAN : lookup' = <<Answer(index, parts)>>
       \/ (Fails \/ (~Served /\ UNCHANGED failures)) /\ lookup' = <<NoLookup>>
    /\ UNCHANGED <<clusterVars, job, ran, childCache, verdict>>

Judge(status) ==
    /\ verdict' = [verdict EXCEPT ![job] = status]
    /\ job' = job + 1
    /\ driftPc' = IF job = Jobs THEN "exit" ELSE "pods"

\* _examine_containers: what can be told without the children
Compare ==
    /\ driftPc = "compare"
    /\ IF lookup[1].error \/ lookup[1].acceptable = {} \/ ran[job] = Down THEN Judge("unclear")
       ELSE IF ran[job] \in lookup[1].acceptable THEN Judge("current")
       ELSE driftPc' = (IF ran[job] \in DOMAIN childCache THEN "children known" ELSE "children")
            /\ UNCHANGED <<verdict, job>>
    /\ UNCHANGED <<clusterVars, attempt, ran, lookup, childCache, failures>>

\* Mutant: the cache is not kept by digest.
Cached_AnyDigest(found) == [d \in {Manifest(m) : m \in Platforms \X (0 .. MaxPushes)}
                                  \cup {ran[w] : w \in Workloads} \cup {x : x \in DOMAIN childCache} |-> found]
\* child_cache[key] = ...
Cached(found) == [d \in DOMAIN childCache \cup {ran[job]} |-> IF d = ran[job] THEN found ELSE childCache[d]]

\* child_digests: nothing is found below a manifest, or when the request fails.
Children ==
    /\ driftPc = "children" /\ driftPc' = "children known" /\ attempt' = 0
    /\ \/ Served /\ UNCHANGED failures /\ childCache' = Cached([parts |-> ManifestsOf(ran[job]), failed |-> FALSE])
       \/ (Fails \/ (~Served /\ UNCHANGED failures)) /\ childCache' = Cached([parts |-> {}, failed |-> TRUE])
    /\ UNCHANGED <<clusterVars, job, ran, lookup, verdict>>

CompareChildren ==
    /\ driftPc = "children known"
    /\ Judge(IF childCache[ran[job]].parts \cap lookup[1].acceptable # {} THEN "current" ELSE "stale")
    /\ UNCHANGED <<clusterVars, attempt, ran, lookup, childCache, failures>>

DriftNext ==
    \/ LookAtPods \/ Throttled \/ Lookup \/ Compare \/ Children \/ CompareChildren
    \/ driftPc # "exit" /\ \E new \in SUBSET Platforms : Push(new)
    \/ driftPc # "exit" /\ \E w \in Workloads, i \in 1 .. Pods : Move(w, i)

DriftSpec == DriftInit /\ [][DriftNext]_driftVars

----------------------------------------------------------------------------
(* Properties *)

\* A workload is called stale only when nothing of what runs in it is in the
\* tag as it was looked up, or when the registry would not say so: an index
\* that was pushed again over the same manifests is no drift.
StaleIsElsewhere ==
    \A w \in Workloads :
        verdict[w] = "stale" =>
            \/ ran[w].of \cap lookup[1].of = {}
            \/ ran[w] \in DOMAIN childCache /\ childCache[ran[w]].failed
            \/ ManifestsOf([shell |-> 1, of |-> lookup[1].of]) \cap lookup[1].acceptable = {}

\* A workload is called current only when what runs in it shares a manifest
\* with the tag, whatever the caches remember of other workloads.  For a pod that
\* runs a manifest this is the tag's build of its own platform; for one that runs an
\* index it may be another platform's, see CurrentIsUpToDate.
CurrentIsShared ==
    \A w \in Workloads : verdict[w] = "current" => ran[w].of \cap lookup[1].of # {}

\* Two workloads of one tag that run the same digest get the same verdict,
\* although the tag moves and requests fail between them.
SameDigestSameVerdict ==
    \A v, w \in Workloads :
        ran[v] = ran[w] /\ "open" \notin {verdict[v], verdict[w]} => verdict[v] = verdict[w]

\* What the comment at :991 says of a workload called current, that it is up to date
\* "content-wise": it runs the tag's build of the cluster's platform.  It fails for
\* an older index of which only another platform's manifest is still in the tag.
CurrentIsUpToDate ==
    \A w \in Workloads :
        verdict[w] = "current" => \A m \in ran[w].of : m[1] = 1 => m \in lookup[1].of

\* A verdict is about what runs and what the tag was, not about the order of the
\* look-ups or what the caches remember.
VerdictsHold == StaleIsElsewhere /\ CurrentIsShared /\ SameDigestSameVerdict
=============================================================================
