---------------------------- MODULE WorkerModels ----------------------------
(***************************************************************************)
(* What the vision worker makes of the machine it starts on: which model   *)
(* files it loads, on which onnxruntime provider, and which landmark       *)
(* backend it ends up with (build_engine of scan.py and what it calls).    *)
(*                                                                         *)
(* A machine is a record of                                                *)
(*   files    per model: "missing", "good" or "swapped" (a file that does  *)
(*            not have the checksum of the manifest)                       *)
(*   pinned   the models whose manifest entry has a real checksum          *)
(*   drivers  per accelerator: "works", "falls" (onnxruntime goes back to  *)
(*            CPU without an error) or "raises"                            *)
(*   cores    its CPUs, affinity those the process may run on, each or None *)
(*   quotas   what cgroup v2 and v1 say: [quota, period], or None when there *)
(*            is no limit or no number                                       *)
(*   env      FACEID_MAX_THREADS and FACEID_INTRA_OP_THREADS, or None        *)
(*   mesh     what the mediapipe wheel offers: "tasks", "legacy", "none"   *)
(***************************************************************************)
EXTENDS Integers, Sequences, SequencesExt

CONSTANTS
    Preference,   \* accelerators, fastest first (PROVIDER_PREFERENCE)
    None

CPU == "CPUExecutionProvider"
Models == {"detector", "recognizer", "antispoof", "landmarks"}

\* models.resolve with verify: the file, or an error.
Resolves(m, name) == m.files[name] = "good" /\ name \in m.pinned

\* models.resolve_optional: never an error; what cannot be trusted is absent.
ResolveOptional(m, name) ==
    IF name \in m.pinned /\ m.files[name] = "good" THEN m.files[name] ELSE None

Files    == {"missing", "good", "swapped"}
Backends == {"mediapipe_tasks", "mediapipe_solutions", "none"}

\* The machine a worker finds. The kernel counts at least one CPU when it
\* counts at all; what the cgroup files and the environment hold is any number.
IsMachine(m) ==
    /\ m.files \in [Models -> Files] /\ m.pinned \subseteq Models
    /\ m.drivers \in [Range(Preference) -> {"works", "falls", "raises"}]
    /\ {m.cores, m.affinity} \subseteq (Nat \ {0}) \cup {None}
    /\ m.quotas \in Seq([quota : Int, period : Int] \cup {None})
    /\ {m.env.max, m.env.intra} \subseteq Int \cup {None}

Providers == Range(Preference) \cup {CPU}

\* What hardware.json and a ScanEngine hold.
Profiles == [providers : Seq(Providers), threads : Nat \ {0}]
Engines  == [loaded : SUBSET (Models \X Files), mesh : Backends, antispoof : BOOLEAN,
             live : Providers, threads : Nat \ {0}]

\* None is no value of any kind, and the preference an ordered list.
ASSUME ModelsAssumption ==
    /\ None \notin Int \cup Files \cup Providers \cup Engines
    /\ Preference \in Seq(Range(Preference))

-----------------------------------------------------------------------------
(* onnxruntime (external): the provider a session ends up on.              *)

\* The first element of s that is in good, or the default.
FirstIn(s, good, default) ==
    LET at == {i \in DOMAIN s : s[i] \in good}
    IN  IF at = {} THEN default ELSE s[Min(at)]

Works(m, p) == p = CPU \/ m.drivers[p] = "works"

CannotBuild(m, chosen) ==
    \E i \in DOMAIN chosen : chosen[i] # CPU /\ m.drivers[chosen[i]] = "raises"

BuiltOn(m, chosen) == FirstIn(chosen, {p \in Range(chosen) : Works(m, p)}, CPU)

\* hardware.probe_providers with a model at hand: the first accelerator a
\* session was really built on, with CPU behind it.
ProbeProviders(m) ==
    LET proven == FirstIn(Preference, {p \in Range(Preference) : Works(m, p)}, CPU)
    IN  IF proven = CPU THEN <<CPU>> ELSE <<proven, CPU>>

\* _cgroup_cpu_limit: a started CPU counts.
CgroupCpuLimit(m) ==
    LET limits == {q \in Range(m.quotas) : q # None /\ q.quota > 0 /\ q.period > 0}
        first  == FirstIn(m.quotas, limits, None)
    IN  IF first = None THEN None
        ELSE Max({1, (first.quota + first.period - 1) \div first.period})

UsableCpus(m) ==
    LET known == {m.affinity, m.cores, CgroupCpuLimit(m)} \ {None}
    IN  IF known = {} THEN 1 ELSE Max({1, Min(known)})

IntEnv(v) == IF v = None THEN None ELSE IF v > 0 THEN v ELSE None

\* _DEFAULT_MAX_THREADS
MaxThreads == 4

\* As many threads as there are CPUs.
BadThreads(m) == UsableCpus(m)

\* The threads of an inference: a scan is one face, and a few are enough.
Threads(m) ==
    LET Or(v, default) == IF IntEnv(v) = None THEN default ELSE IntEnv(v)
    IN  Or(m.env.intra, Max({1, Min({UsableCpus(m), Or(m.env.max, MaxThreads)})}))

\* hardware.probe: the profile of the cache if there is one, else a fresh one.
\* Nothing ever invalidates the cache.
Probe(m, cache) ==
    IF cache # None THEN cache
    ELSE [providers |-> ProbeProviders(m), threads |-> Threads(m)]

\* hardware.profile, which has no model to prove anything with.
Profile(m, cache) ==
    IF cache # None THEN cache
    ELSE [providers |-> Append(Preference, CPU), threads |-> Threads(m)]

\* _store_cache, when the runtime directory can be written.
StoreCache(profile, cache, writable) == IF writable THEN profile ELSE cache

\* rt.session: what the profile says, and CPU when that cannot be built.
BadSession(m, cache) ==
    LET chosen == Probe(m, cache).providers IN
    IF CannotBuild(m, chosen) THEN None ELSE BuiltOn(m, chosen)

Session(m, cache) ==
    LET chosen == Probe(m, cache).providers IN
    IF CannotBuild(m, chosen) THEN CPU ELSE BuiltOn(m, chosen)

-----------------------------------------------------------------------------
(* The landmark backends of landmarks.py.                                  *)

\* _default_model_path: the verified file, else whatever has its name.
DefaultModelPath(m) == m.files["landmarks"]

\* FaceMesh(model_path = path): the file it works from and the backend it
\* keeps. The legacy backend brings its own model.
FaceMesh(m, path) ==
    LET file == IF path = None THEN DefaultModelPath(m) ELSE path IN
    CASE file = "missing"   -> [backend |-> "none", loads |-> None]
      [] m.mesh = "tasks"   -> [backend |-> "mediapipe_tasks", loads |-> file]
      [] m.mesh = "legacy"  -> [backend |-> "mediapipe_solutions", loads |-> None]
      [] OTHER              -> [backend |-> "none", loads |-> None]

\* Embedder and Detector: without a session there is no engine.
Embedder(m, cache) == Session(m, cache)

\* PassiveAntiSpoof: no model or no session is "no opinion".
AntiSpoof(m, cache) ==
    /\ ResolveOptional(m, "antispoof") # None
    /\ Session(m, cache) # None

\* The files an engine was built from, with the state they were in.
Loaded(m, mesh) ==
    {<<n, m.files[n]>> : n \in {"detector", "recognizer"}}
    \cup {<<"antispoof", f>> : f \in {ResolveOptional(m, "antispoof")} \ {None}}
    \cup {<<"landmarks", f>> : f \in {mesh.loads} \ {None}}

\* build_engine: None when the worker must not start.
BuildEngine(m, cache) ==
    IF \/ ~Resolves(m, "detector")
       \/ ~Resolves(m, "recognizer")
       \/ Embedder(m, cache) = None
    THEN None
    ELSE LET mesh == FaceMesh(m, ResolveOptional(m, "landmarks")) IN
         [loaded |-> Loaded(m, mesh), mesh |-> mesh.backend,
          antispoof |-> AntiSpoof(m, cache), live |-> Embedder(m, cache),
          threads |-> Max({1, Probe(m, cache).threads})]
=============================================================================
