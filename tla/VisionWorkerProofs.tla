------------------------- MODULE VisionWorkerProofs -------------------------
(***************************************************************************)
(* The vision worker, for every set of clients, lines, machines and        *)
(* cameras: what an engine may be built of first, then what holds between  *)
(* the connection being served, the line being handled, the cameras and    *)
(* the events on the wire.                                                 *)
(***************************************************************************)
EXTENDS VisionWorker, WellFoundedInduction, TLAPS

-----------------------------------------------------------------------------
(* Minima and maxima, which CHOOSE has a value for only where there is one. *)

LEMMA LeastExists ==
    ASSUME NEW S \in SUBSET Nat, S # {}
    PROVE  \E x \in S : \A y \in S : x <= y
<1>1. PICK x \in S : \A y \in S : ~(<<y, x>> \in OpToRel(<, Nat))
  BY WFMin, NatLessThanWellFounded, Zenon
<1>2. \A y \in S : ~(y < x)
  BY <1>1, Zenon DEF OpToRel
<1>3. QED
  BY <1>2

\* The minimum of a set of natural numbers is one of them.
LEMMA MinIn ==
    ASSUME NEW S \in SUBSET Nat, S # {}
    PROVE  Min(S) \in S /\ \A y \in S : Min(S) <= y
<1>1. \E x \in S : \A y \in S : x <= y
  BY LeastExists
<1>2. QED
  BY <1>1, Zenon DEF Min

\* The minimum and the maximum of two numbers.
LEMMA PairMin ==
    ASSUME NEW a \in Int, NEW b \in Int
    PROVE  Min({a, b}) \in {a, b} /\ Min({a, b}) <= a /\ Min({a, b}) <= b
<1>1. \E x \in {a, b} : \A y \in {a, b} : x <= y
  OBVIOUS
<1>2. Min({a, b}) \in {a, b} /\ \A y \in {a, b} : Min({a, b}) <= y
  BY <1>1, Zenon DEF Min
<1>3. QED
  BY <1>2

LEMMA PairMax ==
    ASSUME NEW a \in Int, NEW b \in Int
    PROVE  Max({a, b}) \in {a, b} /\ Max({a, b}) >= a /\ Max({a, b}) >= b
<1>1. \E x \in {a, b} : \A y \in {a, b} : x >= y
  OBVIOUS
<1>2. Max({a, b}) \in {a, b} /\ \A y \in {a, b} : Max({a, b}) >= y
  BY <1>1, Zenon DEF Max
<1>3. QED
  BY <1>2

\* What is found in a sequence is one of its elements, and one that is good.
LEMMA FirstInFinds ==
    ASSUME NEW S, NEW s \in Seq(S), NEW good, NEW default
    PROVE  FirstIn(s, good, default) \in (S \cap good) \cup {default}
<1> DEFINE at == {i \in DOMAIN s : s[i] \in good}
<1>1. CASE at = {}
  BY <1>1 DEF FirstIn
<1>2. CASE at # {}
  <2>1. at \in SUBSET Nat
    OBVIOUS
  <2>2. Min(at) \in at
    <3> HIDE DEF at
    <3> QED  BY <1>2, <2>1, MinIn
  <2>3. s[Min(at)] \in S /\ s[Min(at)] \in good
    BY <2>2
  <2>4. FirstIn(s, good, default) = s[Min(at)]
    BY <1>2 DEF FirstIn
  <2>5. QED
    BY <2>3, <2>4
<1>3. QED
  BY <1>1, <1>2

-----------------------------------------------------------------------------
(* The engine.                                                             *)

\* What the machine says of its CPUs is a number of CPUs or nothing.
LEMMA CpusType ==
    ASSUME NEW m, IsMachine(m)
    PROVE  UsableCpus(m) \in Nat \ {0}
<1> DEFINE limits == {q \in Range(m.quotas) : q # None /\ q.quota > 0 /\ q.period > 0}
           first == FirstIn(m.quotas, limits, None)
<1>1. CgroupCpuLimit(m) \in (Nat \ {0}) \cup {None}
  <2>1. CgroupCpuLimit(m) = IF first = None THEN None
            ELSE Max({1, (first.quota + first.period - 1) \div first.period})
    BY DEF CgroupCpuLimit
  <2>2. first \in (([quota : Int, period : Int] \cup {None}) \cap limits) \cup {None}
    <3>1. m.quotas \in Seq([quota : Int, period : Int] \cup {None})
      BY DEF IsMachine
    <3> HIDE DEF limits
    <3>2. QED
      BY <3>1, FirstInFinds
  <2>3. CASE first = None
    BY <2>1, <2>3
  <2>4. CASE first # None
    <3>1. first \in [quota : Int, period : Int] /\ first.quota > 0 /\ first.period > 0
      BY <2>2, <2>4
    <3> DEFINE n == (first.quota + first.period - 1) \div first.period
    <3>2. n \in Int
      <4> HIDE DEF first
      <4> QED  BY <3>1
    <3>3. Max({1, n}) \in {1, n} /\ Max({1, n}) >= 1
      <4> HIDE DEF n
      <4> QED  BY <3>2, PairMax
    <3>4. CgroupCpuLimit(m) = Max({1, n})
      BY <2>1, <2>4
    <3> HIDE DEF n
    <3>5. QED
      BY <3>2, <3>3, <3>4
  <2>5. QED
    BY <2>3, <2>4
<1> DEFINE known == {m.affinity, m.cores, CgroupCpuLimit(m)} \ {None}
<1>2. known \subseteq Nat \ {0}
  BY <1>1 DEF IsMachine
<1>3. UsableCpus(m) = IF known = {} THEN 1 ELSE Max({1, Min(known)})
  BY DEF UsableCpus
<1> HIDE DEF known
<1>4. CASE known = {}
  BY <1>3, <1>4
<1>5. CASE known # {}
  <2>1. Min(known) \in Nat \ {0}
    BY <1>2, <1>5, MinIn
  <2>2. Max({1, Min(known)}) \in {1, Min(known)}
    BY <2>1, PairMax
  <2>3. QED
    BY <1>3, <1>5, <2>1, <2>2
<1>6. QED
  BY <1>4, <1>5

\* Nobody set FACEID_MAX_THREADS or FACEID_INTRA_OP_THREADS.
Unlimited(m) == IntEnv(m.env.max) = None /\ IntEnv(m.env.intra) = None

\* At least one thread, and a few unless somebody asked for more.
LEMMA ThreadsType ==
    ASSUME NEW m, IsMachine(m)
    PROVE  /\ Threads(m) \in Nat \ {0}
           /\ Unlimited(m) => Threads(m) <= MaxThreads
<1> DEFINE cpus  == UsableCpus(m)
           most  == IF IntEnv(m.env.max) = None THEN MaxThreads ELSE IntEnv(m.env.max)
           few   == Min({cpus, most})
           some  == Max({1, few})
<1>1. /\ IntEnv(m.env.max) \in (Nat \ {0}) \cup {None}
      /\ IntEnv(m.env.intra) \in (Nat \ {0}) \cup {None}
  BY ModelsAssumption DEF IsMachine, IntEnv
<1>2. cpus \in Nat \ {0} /\ most \in Nat \ {0}
  BY <1>1, CpusType DEF MaxThreads
<1>3. few \in Nat \ {0} /\ few <= most
  <2> HIDE DEF cpus, most
  <2> QED  BY <1>2, PairMin
<1>4. some \in Nat \ {0} /\ some <= most
  <2>1. some \in {1, few}
    <3>1. few \in Int /\ 1 \in Int
      BY <1>3
    <3> HIDE DEF few
    <3>2. Max({1, few}) \in {1, few}
      BY <3>1, PairMax
    <3>3. QED
      BY <3>2
  <2>2. most >= 1
    BY <1>2
  <2> HIDE DEF few, some, most
  <2>3. QED
    BY <1>2, <1>3, <2>1, <2>2
<1>5. Threads(m) = IF IntEnv(m.env.intra) = None THEN some ELSE IntEnv(m.env.intra)
  BY DEF Threads
<1>6. QED
  <2> HIDE DEF some
  <2> QED  BY <1>1, <1>4, <1>5 DEF Unlimited

LEMMA ProbeType ==
    ASSUME NEW m, IsMachine(m), NEW c \in Profiles \cup {None}
    PROVE  /\ Probe(m, c) \in Profiles /\ Profile(m, c) \in Profiles
           /\ c = None => /\ Probe(m, c).threads = Threads(m)
                          /\ Profile(m, c).threads = Threads(m)
           /\ c # None => Probe(m, c) = c /\ Profile(m, c) = c
<1>1. ProbeProviders(m) \in Seq(Providers)
  <2> DEFINE good == {p \in Range(Preference) : Works(m, p)}
             proven == FirstIn(Preference, good, CPU)
  <2>1. proven \in Providers
    <3>1. Preference \in Seq(Range(Preference))
      BY ModelsAssumption
    <3> HIDE DEF good
    <3>2. proven \in (Range(Preference) \cap good) \cup {CPU}
      BY <3>1, FirstInFinds
    <3>3. QED
      BY <3>2 DEF Providers
  <2>2. ProbeProviders(m) = IF proven = CPU THEN <<CPU>> ELSE <<proven, CPU>>
    BY DEF ProbeProviders
  <2>3. CPU \in Providers
    BY DEF Providers
  <2> HIDE DEF proven
  <2>4. QED
    BY <2>1, <2>2, <2>3
<1>2. Append(Preference, CPU) \in Seq(Providers)
  <2>1. Preference \in Seq(Providers) /\ CPU \in Providers
    BY ModelsAssumption DEF Providers
  <2>2. QED
    BY <2>1
<1>3. QED
  BY <1>1, <1>2, ThreadsType DEF Probe, Profile, Profiles

\* A session ends up somewhere: on CPU when nothing else can be built.
LEMMA SessionType ==
    ASSUME NEW m, IsMachine(m), NEW c \in Profiles \cup {None}
    PROVE  Session(m, c) \in Providers
<1> DEFINE chosen == Probe(m, c).providers
           good == {p \in Range(chosen) : Works(m, p)}
<1>1. chosen \in Seq(Providers)
  BY ProbeType DEF Profiles
<1>2. FirstIn(chosen, good, CPU) \in Providers
  <2>1. CPU \in Providers
    BY DEF Providers
  <2> HIDE DEF chosen, good
  <2>2. QED
    BY <1>1, <2>1, FirstInFinds
<1>3. Session(m, c) \in {CPU, FirstIn(chosen, good, CPU)}
  BY DEF Session, BuiltOn
<1>4. QED
  BY <1>2, <1>3 DEF Providers

\* An engine is built from typed parts, and refused only for a model.
LEMMA EngineType ==
    ASSUME NEW m, IsMachine(m), NEW c \in Profiles \cup {None}
    PROVE  /\ BuildEngine(m, c) \in Engines \cup {None}
           /\ BuildEngine(m, c) # None => BuildEngine(m, c).threads = Probe(m, c).threads
           /\ Resolves(m, "detector") /\ Resolves(m, "recognizer") => BuildEngine(m, c) # None
<1> DEFINE mesh == FaceMesh(m, ResolveOptional(m, "landmarks"))
           e == [loaded |-> Loaded(m, mesh), mesh |-> mesh.backend,
                 antispoof |-> AntiSpoof(m, c), live |-> Embedder(m, c),
                 threads |-> Max({1, Probe(m, c).threads})]
<1>1. Embedder(m, c) \in Providers /\ Embedder(m, c) # None
  BY SessionType, ModelsAssumption DEF Embedder
<1>2. Max({1, Probe(m, c).threads}) = Probe(m, c).threads
  <2> DEFINE t == Probe(m, c).threads
  <2>1. t \in Nat \ {0}
    BY ProbeType DEF Profiles
  <2> HIDE DEF t
  <2>2. Max({1, t}) \in {1, t} /\ Max({1, t}) >= t
    BY <2>1, PairMax
  <2>3. Max({1, t}) = t
    BY <2>1, <2>2
  <2>4. QED
    BY <2>3 DEF t
<1>3. \A n \in Models : m.files[n] \in Files /\ ResolveOptional(m, n) \in Files \cup {None}
  BY DEF IsMachine, ResolveOptional
<1>4. mesh.backend \in Backends /\ mesh.loads \in Files \cup {None}
  <2> DEFINE path == ResolveOptional(m, "landmarks")
             file == IF path = None THEN DefaultModelPath(m) ELSE path
  <2>1. file \in Files
    BY <1>3, ModelsAssumption DEF DefaultModelPath, Models
  <2>2. mesh = CASE file = "missing"   -> [backend |-> "none", loads |-> None]
                 [] m.mesh = "tasks"   -> [backend |-> "mediapipe_tasks", loads |-> file]
                 [] m.mesh = "legacy"  -> [backend |-> "mediapipe_solutions", loads |-> None]
                 [] OTHER              -> [backend |-> "none", loads |-> None]
    BY DEF FaceMesh
  <2> HIDE DEF file
  <2>3. QED
    BY <2>1, <2>2 DEF Backends
<1>5. Loaded(m, mesh) \in SUBSET (Models \X Files)
  <2> HIDE DEF mesh
  <2> QED  BY <1>3, <1>4 DEF Loaded, Models
<1>6. AntiSpoof(m, c) \in BOOLEAN
  BY DEF AntiSpoof
<1>7. e \in Engines
  <2>1. Probe(m, c).threads \in Nat \ {0}
    BY ProbeType DEF Profiles
  <2> HIDE DEF mesh
  <2>2. QED
    BY <1>1, <1>2, <1>4, <1>5, <1>6, <2>1 DEF Engines
<1>8. BuildEngine(m, c) = IF \/ ~Resolves(m, "detector")
                             \/ ~Resolves(m, "recognizer")
                             \/ Embedder(m, c) = None
                          THEN None ELSE e
  BY DEF BuildEngine
<1>9. e.threads = Probe(m, c).threads
  BY <1>2
<1> HIDE DEF e
<1>10. QED
  BY <1>1, <1>7, <1>8, <1>9, ModelsAssumption

-----------------------------------------------------------------------------
(* The inductive invariant.                                                *)

\* The process: a profile in the cache and an engine are well formed, and their
\* threads are few on machines that nobody set another limit for.
ProcessTyped ==
    /\ machine \in Machines
    /\ cache \in Profiles \cup {None}
    /\ lives \in 0..MaxLives
    /\ engine \in Engines \cup {None}

FewThreads ==
    (\A m \in Machines : Unlimited(m)) =>
        /\ cache # None => cache.threads <= MaxThreads
        /\ engine # None => engine.threads <= MaxThreads

LinksTyped ==
    /\ pc \in Down \cup {"accept", "line"} \cup Scanning
    /\ queue \in Seq(Clients)
    /\ conn \in Clients \cup {None}
    /\ st \in [Clients -> {"new", "queued", "served", "left", "dropped"}]
    /\ sent \in [Clients -> Seq(Requests)]
    /\ done \in [Clients -> Nat]
    /\ wire \in [Clients -> Seq(Events)]

ScanTyped ==
    /\ lastAuto \in {"rgb", "ir"}
    /\ mode \in Modes
    /\ tries \in 0..2
    /\ cams \subseteq Devices

\* A connection is being served exactly while the thread is past accept.
Serving == (conn # None) <=> (pc \in {"line"} \cup Scanning)

\* Who waits was never accepted before; who is served was, and may have left.
Waiting ==
    /\ \A i \in DOMAIN queue : st[queue[i]] \in {"queued", "left"}
    /\ \A i, j \in DOMAIN queue : queue[i] = queue[j] => i = j
    /\ conn # None => st[conn] \in {"served", "left"}

\* While a scan is handled its line is there, and it is a scan.
ScanLine == pc \in Scanning => done[conn] < Len(sent[conn]) /\ Line.op = "scan"

\* An auto scan that opens its cameras has decided for a spectrum it can have.
AutoDecided ==
    pc \in {"open", "second", "scan"} /\ Line.mode = "auto" =>
        mode \in {"rgb", "ir"} /\ (IrField = None => mode = "rgb")

\* Which cameras are open where.
CamerasByStep ==
    /\ pc \notin {"metering", "second", "scan"} => cams = {}
    /\ pc = "metering" => cams \subseteq {RgbDevice}
    /\ pc = "second" => cams \subseteq {Primary(mode)}
    /\ pc = "scan" => cams \subseteq {Primary(mode), Secondary(mode)} \ {None}

\* An event tells the truth about the line it answers, as AutoSpectrum says.
Truthful(e, r) ==
    LET ir == IF r.ir # None THEN r.ir ELSE CliIr
        rgb == IF r.device # None THEN r.device ELSE CliDevice
    IN  e.ev = "done" /\ r.mode = "auto" /\ rgb # ir =>
            (e.spectrum = "ir") = (e.used = ir)

\* The events w that k answered lines of s have brought: about lines that were
\* written, up to the one being handled, in order, each answered once.
Numbered(s, k, w) ==
    \A i \in DOMAIN w : /\ w[i].n \in 1..Len(s) /\ w[i].n <= k + 1
                        /\ IsFinal(w[i]) => w[i].n <= k

Ordered(w) ==
    \A i, j \in DOMAIN w : i < j =>
        /\ w[i].n <= w[j].n
        /\ IsFinal(w[i]) => w[i].n < w[j].n

AnsweredTo(w) == {w[i].n : i \in {j \in DOMAIN w : IsFinal(w[j])}}

Log(s, k, w) ==
    /\ Numbered(s, k, w)
    /\ Ordered(w)
    /\ AnsweredTo(w) = 1..k
    /\ \A i \in DOMAIN w : Truthful(w[i], s[w[i].n])

Logged ==
    \A c \in Clients :
        /\ done[c] <= Len(sent[c])
        /\ IF st[c] = "left" THEN wire[c] = <<>> ELSE Log(sent[c], done[c], wire[c])

-----------------------------------------------------------------------------
(* The process.                                                            *)

\* Only a start, a change of the machine and a question for its capabilities
\* touch the process; its end takes the engine with it.
LEMMA ProcessSteps ==
    ASSUME [Next]_vars
    PROVE  \/ Start \/ MachineChanges \/ Capabilities
           \/ UNCHANGED <<machine, cache, lives>> /\ engine' \in {engine, None}
<1>1. CASE Client
  BY <1>1 DEF Client, Connect, Write, Close, server
<1>2. CASE Crash \/ Returns
  BY <1>2 DEF Crash, Returns, Dies
<1>3. CASE Stop
  BY <1>3 DEF Stop
<1>4. CASE Accept \/ SessionEnds \/ Simple \/ TooLong
  BY <1>4 DEF Accept, SessionEnds, Simple, TooLong, server
<1>5. CASE ScanBegins \/ MeterOpens \/ MeterFails \/ MeterReads
  BY <1>5 DEF ScanBegins, MeterOpens, MeterFails, MeterReads, server
<1>6. CASE OpenPrimary \/ NoCamera \/ OpenSecondary \/ Progress \/ ScanEnds
  BY <1>6 DEF OpenPrimary, NoCamera, OpenSecondary, Progress, ScanEnds, server
<1>7. CASE UNCHANGED vars
  BY <1>7 DEF vars, server
<1>8. QED
  BY <1>1, <1>2, <1>3, <1>4, <1>5, <1>6, <1>7 DEF Next, Worker

LEMMA ProcessPreserved ==
    ASSUME ProcessTyped, FewThreads, [Next]_vars
    PROVE  ProcessTyped' /\ FewThreads'
<1> USE DEF ProcessTyped
<1>1. IsMachine(machine) /\ MaxLives \in Nat
  BY WorkerAssumption
<1>2. Probe(machine, cache) \in Profiles /\ Profile(machine, cache) \in Profiles
  BY <1>1, ProbeType
<1>3. (\A m \in Machines : Unlimited(m)) =>
        Probe(machine, cache).threads <= MaxThreads /\ Profile(machine, cache).threads <= MaxThreads
  <2>1. CASE cache = None
    BY <1>1, <2>1, ProbeType, ThreadsType
  <2>2. CASE cache # None
    BY <1>1, <2>2, ProbeType DEF FewThreads
  <2>3. QED
    BY <2>1, <2>2
<1>4. CASE Start
  <2> DEFINE e == BuildEngine(machine, cache)
  <2>1. engine' = e /\ lives' = lives + 1 /\ lives < MaxLives /\ machine' = machine
        /\ cache' \in {cache, Probe(machine, cache)}
    BY <1>4 DEF Start, StoreCache
  <2>2. /\ e \in Engines \cup {None}
        /\ e # None => e.threads = Probe(machine, cache).threads
    BY <1>1, EngineType
  <2> HIDE DEF e
  <2>3. QED
    BY <1>1, <1>2, <1>3, <2>1, <2>2 DEF FewThreads
<1>5. CASE MachineChanges
  BY <1>5 DEF MachineChanges, FewThreads
<1>6. CASE Capabilities
  <2>1. /\ UNCHANGED <<machine, lives, engine>>
        /\ cache' \in {cache, Profile(machine, cache)}
    BY <1>6 DEF Capabilities, StoreCache
  <2>2. QED
    BY <1>2, <1>3, <2>1 DEF FewThreads
<1>7. CASE UNCHANGED <<machine, cache, lives>> /\ engine' \in {engine, None}
  BY <1>7 DEF FewThreads
<1>8. QED
  BY <1>4, <1>5, <1>6, <1>7, ProcessSteps

LEMMA ProcessInit ==
    ASSUME Init
    PROVE  ProcessTyped /\ FewThreads
BY WorkerAssumption DEF Init, ProcessTyped, FewThreads

LEMMA ProcessInvariant == Spec => [](ProcessTyped /\ FewThreads)
BY ProcessInit, ProcessPreserved, PTL DEF Spec

\* An accelerator that stops working costs speed and never the feature
\* (rt.session falls back to CPU): the worker refuses to start only when a model
\* it cannot do without is missing or not the pinned one.
THEOREM OnlySpeedIsLost == Spec => DriversCostSpeedOnly
<1>1. ASSUME ProcessTyped, [Next]_vars
      PROVE  [pc' = "failed" =>
                ~(Resolves(machine, "detector") /\ Resolves(machine, "recognizer"))]_<<lives, pc>>
  <2>1. CASE Start
    <3>1. pc' = "failed" => BuildEngine(machine, cache) = None
      BY <2>1 DEF Start
    <3>2. QED
      BY <1>1, <3>1, EngineType, WorkerAssumption DEF ProcessTyped
  <2>2. CASE ~Start
    <3>1. pc' # "failed" \/ UNCHANGED <<lives, pc>>
      <4>1. CASE Client \/ Stop \/ MachineChanges
        BY <4>1 DEF Client, Connect, Write, Close, Stop, MachineChanges, server
      <4>2. CASE Crash \/ Returns
        BY <4>2 DEF Crash, Returns, Dies
      <4>3. CASE Accept \/ SessionEnds \/ Simple \/ Capabilities \/ TooLong
        BY <4>3 DEF Accept, SessionEnds, Simple, Capabilities, TooLong, HangUp, Answers
      <4>4. CASE ScanBegins \/ MeterOpens \/ MeterFails \/ MeterReads
        BY <4>4 DEF ScanBegins, MeterOpens, MeterFails, MeterReads
      <4>5. CASE OpenPrimary \/ NoCamera \/ OpenSecondary \/ Progress \/ ScanEnds
        BY <4>5 DEF OpenPrimary, NoCamera, OpenSecondary, Progress, ScanEnds, Answers, server
      <4>6. CASE UNCHANGED vars
        BY <4>6 DEF vars, server
      <4>7. QED
        BY <1>1, <2>2, <4>1, <4>2, <4>3, <4>4, <4>5, <4>6 DEF Next, Worker
    <3>2. QED
      BY <3>1
  <2>3. QED
    BY <2>1, <2>2
<1>2. QED
  BY <1>1, ProcessInvariant, PTL DEF Spec, DriversCostSpeedOnly

\* Every model but the landmarks is the pinned one (models.resolve and
\* resolve_optional): the way past the checksum that the refuted LoadsOnlyPinned
\* shows, the default path of landmarks.py, is the only one.
PinnedButLandmarks ==
    engine # None => \A l \in engine.loaded : l[1] # "landmarks" => l[2] = "good"

THEOREM OnlyLandmarksUnpinned == Spec => []PinnedButLandmarks
<1>1. Init => PinnedButLandmarks
  BY DEF Init, PinnedButLandmarks
<1>2. ASSUME ProcessTyped, PinnedButLandmarks, [Next]_vars
      PROVE  PinnedButLandmarks'
  <2>1. CASE Start
    <3> SUFFICES ASSUME engine' # None, NEW l \in engine'.loaded, l[1] # "landmarks"
                 PROVE  l[2] = "good"
      BY DEF PinnedButLandmarks
    <3> DEFINE mesh == FaceMesh(machine, ResolveOptional(machine, "landmarks"))
    <3>1. engine' = BuildEngine(machine, cache)
      BY <2>1 DEF Start
    <3>2. /\ engine'.loaded = Loaded(machine, mesh)
          /\ Resolves(machine, "detector") /\ Resolves(machine, "recognizer")
      BY <3>1 DEF BuildEngine
    <3> HIDE DEF mesh
    <3>3. /\ machine.files["detector"] = "good" /\ machine.files["recognizer"] = "good"
          /\ ResolveOptional(machine, "antispoof") \in {"good", None}
      BY <3>2 DEF Resolves, ResolveOptional
    <3>4. QED
      BY <3>2, <3>3 DEF Loaded
  <2>2. CASE MachineChanges \/ Capabilities
    BY <1>2, <2>2 DEF MachineChanges, Capabilities, PinnedButLandmarks
  <2>3. CASE UNCHANGED <<machine, cache, lives>> /\ engine' \in {engine, None}
    BY <1>2, <2>3 DEF PinnedButLandmarks
  <2>4. QED
    BY <1>2, <2>1, <2>2, <2>3, ProcessSteps
<1>3. QED
  BY <1>1, <1>2, ProcessInvariant, PTL DEF Spec

-----------------------------------------------------------------------------
(* Types of the connections and of the scan.                               *)

Typed == LinksTyped /\ ScanTyped /\ Serving

\* The line being handled is one of the requests.
LEMMA LineTyped ==
    ASSUME Typed, pc \in {"line"} \cup Scanning, done[conn] < Len(sent[conn])
    PROVE  /\ conn \in Clients /\ Line \in Requests
           /\ Line.mode \in Modes \cup {None}
           /\ RgbDevice \in Devices /\ IrField \in Devices \cup {None}
           /\ \A m : Primary(m) \in Devices /\ Secondary(m) \in Devices \cup {None}
<1>1. conn \in Clients
  BY WorkerAssumption DEF Typed, LinksTyped, Serving
<1>2. Line \in Requests
  <2>1. sent[conn] \in Seq(Requests) /\ done[conn] \in Nat
    BY <1>1 DEF Typed, LinksTyped
  <2>2. done[conn] + 1 \in 1..Len(sent[conn])
    BY <2>1
  <2>3. QED
    BY <2>1, <2>2 DEF Line
<1>3. IsRequest(Line)
  BY <1>2, WorkerAssumption
<1>4. RgbDevice \in Devices /\ IrField \in Devices \cup {None}
  BY <1>3, WorkerAssumption DEF RgbDevice, IrField, IsRequest
<1>5. QED
  BY <1>1, <1>2, <1>3, <1>4 DEF Primary, Secondary, IrDevice, IsRequest

\* An event has the type of an event.
LEMMA FinalTyped ==
    ASSUME Typed, conn \in Clients,
           NEW ev \in {"ping", "capabilities", "cancel", "progress", "done", "error"},
           NEW spectrum \in {"rgb", "ir", None}, NEW used \in Devices \cup {None}
    PROVE  Final(ev, spectrum, used) \in Events
BY DEF Final, Events, Typed, LinksTyped

LEMMA SendTyped ==
    ASSUME Typed, conn \in Clients, NEW e \in Events, Send(e)
    PROVE  wire' \in [Clients -> Seq(Events)]
BY DEF Send, Typed, LinksTyped

\* An answer to a line, with whatever it does to the locals of a scan.
LEMMA AnswersTyped ==
    ASSUME Typed, conn \in Clients, NEW e \in Events, Answers(e), ScanTyped', UNCHANGED links
    PROVE  Typed'
<1>1. wire' \in [Clients -> Seq(Events)]
  BY SendTyped DEF Answers
<1>2. done' = [done EXCEPT ![conn] = @ + 1] /\ pc' = "line" /\ UNCHANGED <<queue, conn, st, sent>>
  BY DEF Answers, links
<1>3. done' \in [Clients -> Nat]
  BY <1>2 DEF Typed, LinksTyped
<1>4. conn # None
  BY WorkerAssumption
<1>5. QED
  BY <1>1, <1>2, <1>3, <1>4 DEF Typed, LinksTyped, Serving

LEMMA TypedInit ==
    ASSUME Init
    PROVE  Typed
BY WorkerAssumption DEF Init, Typed, LinksTyped, ScanTyped, Serving, Down, Scanning, Modes

LEMMA TypedClient ==
    ASSUME Typed, Client
    PROVE  Typed'
<1> USE DEF Typed, LinksTyped, ScanTyped, Serving, server, links, scan
<1> PICK c \in Clients : Connect(c) \/ Write(c) \/ Close(c)
  BY DEF Client
<1>1. CASE Connect(c)
  <2>1. /\ queue' \in {queue, Append(queue, c)}
        /\ st' \in {[st EXCEPT ![c] = "queued"], [st EXCEPT ![c] = "dropped"]}
        /\ UNCHANGED <<server, pc, conn, sent, done, wire, scan>>
    BY <1>1 DEF Connect
  <2>2. queue' \in Seq(Clients)
    <3>1. queue \in Seq(Clients) /\ Append(queue, c) \in Seq(Clients)
      OBVIOUS
    <3>2. queue' = queue \/ queue' = Append(queue, c)
      BY <2>1, Zenon
    <3>3. QED
      BY <3>1, <3>2, Zenon
  <2>3. st' \in [Clients -> {"new", "queued", "served", "left", "dropped"}]
    BY <2>1
  <2>4. UNCHANGED <<pc, conn, sent, done, wire, lastAuto, mode, tries, cams>>
    BY <2>1
  <2>5. QED
    BY <2>2, <2>3, <2>4
<1>2. CASE Write(c)
  BY <1>2 DEF Write
<1>3. CASE Close(c)
  BY <1>3 DEF Close
<1>4. QED
  BY <1>1, <1>2, <1>3

LEMMA TypedProcess ==
    ASSUME Typed, Start \/ MachineChanges \/ Crash \/ Stop \/ Returns
    PROVE  Typed'
<1> USE DEF Typed, LinksTyped, ScanTyped, Serving, server, links, scan, Down, Scanning
<1>1. CASE Start
  <2>1. pc' \in {"accept", "failed"} /\ lastAuto' = "rgb"
        /\ pc \in Down /\ UNCHANGED <<links, done, wire, mode, tries, cams>>
    BY <1>1 DEF Start
  <2>2. QED
    BY <2>1
<1>2. CASE MachineChanges
  BY <1>2 DEF MachineChanges
<1>3. CASE Crash \/ Returns
  <2>1. /\ pc' = "down" /\ queue' = <<>> /\ conn' = None /\ cams' = {}
        /\ mode' = "rgb" /\ tries' = 0
        /\ UNCHANGED <<sent, done, wire, lastAuto>>
    BY <1>3 DEF Crash, Returns, Dies, ScanOver
  <2>2. st' \in [Clients -> {"new", "queued", "served", "left", "dropped"}]
    BY <1>3 DEF Crash, Returns, Dies, Dropped
  <2>3. QED
    BY <2>1, <2>2 DEF Modes
<1>4. CASE Stop
  BY <1>4 DEF Stop, Dropped
<1>5. QED
  BY <1>1, <1>2, <1>3, <1>4

LEMMA TypedLines ==
    ASSUME Typed, Accept \/ SessionEnds \/ Simple \/ Capabilities \/ TooLong
    PROVE  Typed'
<1> USE DEF Typed, LinksTyped, ScanTyped, Serving, server, links, scan, Down, Scanning
<1>1. CASE Accept
  <2>1. Head(queue) \in Clients /\ Tail(queue) \in Seq(Clients)
    BY <1>1 DEF Accept
  <2>2. QED
    BY <1>1, <2>1, WorkerAssumption DEF Accept
<1>2. CASE SessionEnds
  BY <1>2 DEF SessionEnds, HangUp, Dropped
<1>3. LineWaits => conn \in Clients
  BY WorkerAssumption DEF LineWaits
<1>4. CASE Simple
  <2> DEFINE ev == IF Line.op = "bad" THEN "error" ELSE Line.op
  <2>1. /\ ev \in {"ping", "capabilities", "cancel", "error"}
        /\ LineWaits /\ Answers(Final(ev, None, None)) /\ UNCHANGED <<links, scan>>
    BY <1>4 DEF Simple
  <2> HIDE DEF ev
  <2>2. Final(ev, None, None) \in Events
    BY <1>3, <2>1, FinalTyped
  <2>3. ScanTyped'
    BY <2>1
  <2>4. QED
    BY <1>3, <2>1, <2>2, <2>3, AnswersTyped
<1>5. CASE Capabilities
  <2>1. LineWaits /\ Answers(Final("capabilities", None, None)) /\ UNCHANGED <<links, scan>>
    BY <1>5 DEF Capabilities
  <2>2. Final("capabilities", None, None) \in Events
    BY <1>3, <2>1, FinalTyped
  <2>3. ScanTyped'
    BY <2>1
  <2>4. QED
    BY <1>3, <2>1, <2>2, <2>3, AnswersTyped
<1>6. CASE TooLong
  <2>1. LineWaits /\ Send(Final("error", None, None))
        /\ done' = [done EXCEPT ![conn] = @ + 1] /\ HangUp /\ UNCHANGED <<queue, sent, scan>>
    BY <1>6 DEF TooLong
  <2>2. Final("error", None, None) \in Events
    BY <1>3, <2>1, FinalTyped
  <2>3. wire' \in [Clients -> Seq(Events)] /\ done' \in [Clients -> Nat]
    BY <1>3, <2>1, <2>2, SendTyped
  <2>4. QED
    BY <2>1, <2>3 DEF HangUp, Dropped
<1>7. QED
  BY <1>1, <1>2, <1>4, <1>5, <1>6

LEMMA TypedScan ==
    ASSUME Typed, ScanLine,
           \/ ScanBegins \/ MeterOpens \/ MeterFails \/ MeterReads
           \/ OpenPrimary \/ NoCamera \/ OpenSecondary \/ Progress \/ ScanEnds
    PROVE  Typed'
<1> USE DEF Typed, LinksTyped, ScanTyped, Serving, server, links, scan, Down, Scanning
<1>1. /\ conn \in Clients /\ Line.mode \in Modes \cup {None}
      /\ RgbDevice \in Devices
      /\ \A m : Primary(m) \in Devices /\ Secondary(m) \in Devices \cup {None}
  <2>1. pc \in {"line"} \cup Scanning /\ done[conn] < Len(sent[conn])
    BY DEF ScanLine, ScanBegins, LineWaits, MeterOpens, MeterFails, MeterReads,
           OpenPrimary, NoCamera, OpenSecondary, Progress, ScanEnds
  <2>2. QED
    BY <2>1, LineTyped
<1>2. CASE ScanBegins
  BY <1>1, <1>2 DEF ScanBegins, LineWaits, ClassifyMode, Modes
<1>3. CASE MeterOpens
  BY <1>1, <1>3 DEF MeterOpens, Enters
<1>4. CASE MeterFails
  BY <1>1, <1>4 DEF MeterFails, Exits, Modes
<1>5. CASE MeterReads
  <2>1. \A l \in {"dark", "band", "light"} : Picked(l) \in {"rgb", "ir"}
    BY DEF Picked, PickSpectrum
  <2>2. QED
    BY <1>1, <1>5, <2>1 DEF MeterReads, Exits, Modes
<1>6. CASE OpenPrimary
  BY <1>1, <1>6 DEF OpenPrimary, Enters
<1>7. CASE NoCamera
  <2>1. Final("error", None, None) \in Events
    BY <1>1, FinalTyped
  <2>2. Answers(Final("error", None, None)) /\ ScanOver /\ UNCHANGED <<links, lastAuto, cams>>
    BY <1>7 DEF NoCamera
  <2>3. ScanTyped'
    BY <2>2 DEF ScanOver, Modes
  <2>4. QED
    BY <1>1, <2>1, <2>2, <2>3, AnswersTyped
<1>8. CASE OpenSecondary
  BY <1>1, <1>8 DEF OpenSecondary, Enters
<1>9. CASE Progress
  <2>1. Final("progress", None, None) \in Events
    BY <1>1, FinalTyped
  <2>2. wire' \in [Clients -> Seq(Events)]
    BY <1>1, <1>9, <2>1, SendTyped DEF Progress
  <2>3. QED
    BY <1>1, <1>9, <2>2 DEF Progress
<1>10. CASE ScanEnds
  <2>1. PICK e \in Outcome : Answers(e)
    BY <1>10 DEF ScanEnds
  <2>2. Final("error", None, None) \in Events
    BY <1>1, FinalTyped
  <2>3. Final("done", Spectrum, Primary(mode)) \in Events
    BY <1>1, FinalTyped DEF Spectrum
  <2>4. e \in Events
    BY <2>1, <2>2, <2>3 DEF Outcome
  <2>5. Exits(cams) /\ ScanOver /\ UNCHANGED <<links, lastAuto>>
    BY <1>10 DEF ScanEnds
  <2>6. ScanTyped'
    BY <2>5 DEF ScanOver, Exits, Modes
  <2>7. QED
    BY <1>1, <2>1, <2>4, <2>5, <2>6, AnswersTyped
<1>11. QED
  BY <1>2, <1>3, <1>4, <1>5, <1>6, <1>7, <1>8, <1>9, <1>10

LEMMA TypedInvariant ==
    ASSUME Typed, ScanLine, [Next]_vars
    PROVE  Typed'
<1>1. CASE Client
  BY <1>1, TypedClient
<1>2. CASE Start \/ MachineChanges \/ Crash \/ Stop \/ Returns
  BY <1>2, TypedProcess
<1>3. CASE Accept \/ SessionEnds \/ Simple \/ Capabilities \/ TooLong
  BY <1>3, TypedLines
<1>4. CASE \/ ScanBegins \/ MeterOpens \/ MeterFails \/ MeterReads
           \/ OpenPrimary \/ NoCamera \/ OpenSecondary \/ Progress \/ ScanEnds
  BY <1>4, TypedScan
<1>5. CASE UNCHANGED vars
  BY <1>5 DEF vars, links, scan, Typed, LinksTyped, ScanTyped, Serving
<1>6. QED
  BY <1>1, <1>2, <1>3, <1>4, <1>5 DEF Next, Worker

-----------------------------------------------------------------------------
(* The line being handled and its cameras.                                 *)

Scene == ScanLine /\ AutoDecided /\ CamerasByStep

\* A line that is being handled stays what it is while its client writes more.
LEMMA LineStays ==
    ASSUME Typed, pc \in Scanning, ScanLine, UNCHANGED <<conn, done>>,
           UNCHANGED sent \/ \E c \in Clients : Write(c)
    PROVE  Line' = Line /\ done'[conn'] < Len(sent'[conn'])
<1>1. conn \in Clients /\ sent[conn] \in Seq(Requests) /\ done[conn] \in Nat
      /\ done[conn] < Len(sent[conn])
  BY DEF Typed, LinksTyped, Serving, ScanLine
<1>2. CASE UNCHANGED sent
  BY <1>1, <1>2 DEF Line
<1>3. ASSUME NEW c \in Clients, Write(c)
      PROVE  Line' = Line /\ done'[conn'] < Len(sent'[conn'])
  <2>1. PICK r \in Requests : sent' = [sent EXCEPT ![c] = Append(@, r)]
    BY <1>3 DEF Write
  <2>2. sent'[conn] = sent[conn] \/ sent'[conn] = Append(sent[conn], r)
    BY <1>1, <2>1 DEF Typed, LinksTyped
  <2>3. done[conn] + 1 \in 1..Len(sent[conn])
    BY <1>1
  <2>4. sent'[conn][done[conn] + 1] = sent[conn][done[conn] + 1]
        /\ done[conn] < Len(sent'[conn])
    BY <1>1, <2>2, <2>3
  <2>5. QED
    BY <2>4 DEF Line
<1>4. QED
  BY <1>2, <1>3

\* What a scan does with its cameras follows from its line and its mode.
LEMMA CamerasStay ==
    ASSUME Line' = Line
    PROVE  /\ RgbDevice' = RgbDevice /\ IrField' = IrField
           /\ UNCHANGED mode => Primary(mode)' = Primary(mode)
                                /\ Secondary(mode)' = Secondary(mode)
BY DEF RgbDevice, IrField, Primary, Secondary, IrDevice

LEMMA SceneStays ==
    ASSUME Typed, Scene, UNCHANGED <<pc, conn, done, mode, cams>>,
           UNCHANGED sent \/ \E c \in Clients : Write(c)
    PROVE  Scene'
<1>1. CASE pc \notin Scanning
  BY <1>1 DEF Scene, ScanLine, AutoDecided, CamerasByStep, Scanning
<1>2. CASE pc \in Scanning
  <2>1. Line' = Line /\ done'[conn'] < Len(sent'[conn'])
    BY <1>2, LineStays DEF Scene
  <2>2. QED
    BY <2>1, CamerasStay DEF Scene, ScanLine, AutoDecided, CamerasByStep
<1>3. QED
  BY <1>1, <1>2

\* No scan is being handled any more, and no camera is open.
LEMMA SceneEnds ==
    ASSUME pc' \notin Scanning, cams' = {}
    PROVE  Scene'
BY DEF Scene, ScanLine, AutoDecided, CamerasByStep, Scanning

LEMMA SceneInit ==
    ASSUME Init
    PROVE  Scene
BY DEF Init, Scene, ScanLine, AutoDecided, CamerasByStep, Scanning

LEMMA SceneScan ==
    ASSUME Typed, Scene,
           \/ ScanBegins \/ MeterOpens \/ MeterFails \/ MeterReads
           \/ OpenPrimary \/ OpenSecondary
    PROVE  Scene'
<1>1. UNCHANGED <<conn, sent, done>>
  BY DEF ScanBegins, MeterOpens, MeterFails, MeterReads, OpenPrimary, OpenSecondary, links
<1>2. Line' = Line /\ RgbDevice' = RgbDevice /\ IrField' = IrField
  BY <1>1 DEF Line, RgbDevice, IrField
<1>3. ScanLine'
  BY <1>1, <1>2 DEF Scene, ScanLine, ScanBegins, LineWaits, MeterOpens, MeterFails, MeterReads,
     OpenPrimary, OpenSecondary, Scanning
<1>4. CASE ScanBegins
  <2>1. cams' = {} /\ pc' = IF Line.mode = "auto" THEN "meter" ELSE "open"
    BY <1>4 DEF ScanBegins, LineWaits, Scene, CamerasByStep
  <2>2. QED
    BY <1>2, <1>3, <2>1 DEF Scene, AutoDecided, CamerasByStep
<1>5. CASE MeterOpens
  <2>1. cams' \in {{}, {RgbDevice}} /\ pc' \in {"meter", "metering"}
        /\ (pc' = "meter" => cams' = {})
    BY <1>5 DEF MeterOpens, Enters, Scene, CamerasByStep
  <2>2. QED
    BY <1>2, <1>3, <2>1 DEF Scene, AutoDecided, CamerasByStep
<1>6. CASE MeterFails
  <2>1. cams' = {} /\ pc' = "open" /\ mode' = IF IrField = None THEN "rgb" ELSE "ir"
    BY <1>6 DEF MeterFails, Exits
  <2>2. QED
    BY <1>2, <1>3, <2>1 DEF Scene, AutoDecided, CamerasByStep
<1>7. CASE MeterReads
  <2>1. cams' = {} /\ pc' = "open"
    BY <1>7 DEF MeterReads, Exits
  <2>2. mode' \in {"rgb", "ir"} /\ (IrField = None => mode' = "rgb")
    BY <1>7 DEF MeterReads, Picked, PickSpectrum, Typed, ScanTyped
  <2>3. QED
    BY <1>2, <1>3, <2>1, <2>2 DEF Scene, AutoDecided, CamerasByStep
<1>8. CASE OpenPrimary
  <2>1. /\ pc = "open" /\ cams = {} /\ UNCHANGED mode
        /\ \/ pc' = "second" /\ cams' = {Primary(mode)}
           \/ pc' = "open" /\ cams' = {}
    BY <1>8 DEF OpenPrimary, Enters, Scene, CamerasByStep
  <2>2. QED
    BY <1>2, <1>3, <2>1, CamerasStay DEF Scene, AutoDecided, CamerasByStep
<1>9. CASE OpenSecondary
  <2>1. /\ pc = "second" /\ pc' = "scan" /\ UNCHANGED mode
        /\ cams \subseteq {Primary(mode)}
        /\ \/ cams' = cams
           \/ cams' = cams \cup {Secondary(mode)} /\ Secondary(mode) # None
    BY <1>9 DEF OpenSecondary, Enters, Scene, CamerasByStep
  <2>2. Primary(mode) # None
    <3>1. Primary(mode) \in Devices
      BY <2>1, LineTyped DEF Scene, ScanLine, Scanning
    <3>2. QED
      BY <3>1, WorkerAssumption
  <2>3. cams' \subseteq {Primary(mode), Secondary(mode)} \ {None}
    BY <2>1, <2>2
  <2>4. QED
    BY <1>2, <1>3, <2>1, <2>3, CamerasStay DEF Scene, AutoDecided, CamerasByStep
<1>10. QED
  BY <1>4, <1>5, <1>6, <1>7, <1>8, <1>9

LEMMA ScenePreserved ==
    ASSUME Typed, Scene, [Next]_vars
    PROVE  Scene'
<1>1. CASE Client \/ MachineChanges \/ Stop \/ Progress \/ UNCHANGED vars
  <2>1. UNCHANGED <<pc, conn, done, mode, cams>>
        /\ (UNCHANGED sent \/ \E c \in Clients : Write(c))
    BY <1>1 DEF Client, Connect, Close, Write, MachineChanges, Stop, Progress, vars, links, scan
  <2>2. QED
    BY <2>1, SceneStays
<1>2. CASE \/ Start \/ Crash \/ Returns \/ Accept \/ SessionEnds \/ Simple \/ Capabilities
           \/ TooLong \/ NoCamera \/ ScanEnds
  <2>1. CASE Crash \/ Returns
    BY <2>1, SceneEnds DEF Crash, Returns, Dies, Scanning
  <2>2. CASE Start \/ Accept \/ SessionEnds \/ TooLong \/ Simple \/ Capabilities \/ NoCamera
    <3>1. pc \notin {"metering", "second", "scan"} /\ UNCHANGED cams /\ pc' \notin Scanning
      BY <2>2 DEF Start, Accept, SessionEnds, TooLong, HangUp, Simple, Capabilities, NoCamera,
                  LineWaits, Answers, scan, Down, Scanning
    <3>2. cams' = {}
      BY <3>1 DEF Scene, CamerasByStep
    <3>3. QED
      BY <3>1, <3>2, SceneEnds
  <2>3. CASE ScanEnds
    BY <2>3, SceneEnds DEF ScanEnds, Answers, Exits, Scanning
  <2>4. QED
    BY <1>2, <2>1, <2>2, <2>3
<1>3. CASE ScanBegins \/ MeterOpens \/ MeterFails \/ MeterReads \/ OpenPrimary \/ OpenSecondary
  BY <1>3, SceneScan
<1>4. QED
  BY <1>1, <1>2, <1>3 DEF Next, Worker

-----------------------------------------------------------------------------
(* The queue and the connection being served.                              *)

\* What a step does to the queue, the connection and the clients.
LEMMA LinkSteps ==
    ASSUME Typed, [Next]_vars
    PROVE  \/ UNCHANGED <<queue, conn, st>>
           \/ \E c \in Clients : Connect(c) \/ Close(c)
           \/ Accept
           \/ /\ UNCHANGED queue /\ conn \in Clients /\ conn' = None
              /\ st' = Dropped({conn} \cap {c \in Clients : st[c] = "served"})
           \/ Stop
           \/ Crash \/ Returns
<1>1. CASE Client
  BY <1>1 DEF Client, Write
<1>2. CASE Start \/ MachineChanges \/ UNCHANGED vars
  BY <1>2 DEF Start, MachineChanges, vars, links
<1>3. CASE SessionEnds \/ TooLong
  <2>1. UNCHANGED queue /\ HangUp /\ pc = "line"
    BY <1>3 DEF SessionEnds, TooLong, LineWaits
  <2>2. conn \in Clients
    BY <2>1 DEF Typed, LinksTyped, Serving
  <2>3. QED
    BY <2>1, <2>2 DEF HangUp
<1>4. CASE Simple \/ Capabilities \/ ScanBegins \/ MeterOpens \/ MeterFails \/ MeterReads
  BY <1>4 DEF Simple, Capabilities, ScanBegins, MeterOpens, MeterFails, MeterReads, links
<1>5. CASE OpenPrimary \/ NoCamera \/ OpenSecondary \/ Progress \/ ScanEnds
  BY <1>5 DEF OpenPrimary, NoCamera, OpenSecondary, Progress, ScanEnds, links
<1>6. QED
  BY <1>1, <1>2, <1>3, <1>4, <1>5 DEF Next, Worker

LEMMA WaitingPreserved ==
    ASSUME Typed, Waiting, [Next]_vars
    PROVE  Waiting'
<1> USE DEF Typed, LinksTyped
<1>1. CASE UNCHANGED <<queue, conn, st>>
  BY <1>1 DEF Waiting
<1>2. ASSUME NEW c \in Clients, Connect(c)
      PROVE  Waiting'
  <2>1. /\ st[c] = "new" /\ UNCHANGED conn
        /\ \/ queue' = Append(queue, c) /\ st' = [st EXCEPT ![c] = "queued"]
           \/ queue' = queue /\ st' = [st EXCEPT ![c] = "dropped"]
    BY <1>2 DEF Connect
  <2>2. \A i \in DOMAIN queue : queue[i] # c
    BY <2>1 DEF Waiting
  <2>3. conn # c
    BY <1>2, <2>1, WorkerAssumption DEF Waiting
  <2>4. CASE queue' = queue /\ st' = [st EXCEPT ![c] = "dropped"]
    BY <2>1, <2>2, <2>3, <2>4 DEF Waiting
  <2>5. CASE queue' = Append(queue, c) /\ st' = [st EXCEPT ![c] = "queued"]
    <3>1. /\ DOMAIN queue' = DOMAIN queue \cup {Len(queue) + 1}
          /\ \A i \in DOMAIN queue : queue'[i] = queue[i]
          /\ queue'[Len(queue) + 1] = c
      BY <2>5
    <3>2. st'[c] = "queued" /\ \A d \in Clients \ {c} : st'[d] = st[d]
      BY <2>5
    <3>3. \A i \in DOMAIN queue : queue[i] \in Clients \ {c}
      BY <2>2
    <3>4. conn' # None => st'[conn'] \in {"served", "left"}
      BY <2>1, <2>3, <3>2 DEF Waiting
    <3>5. \A i \in DOMAIN queue' : st'[queue'[i]] \in {"queued", "left"}
      BY <3>1, <3>2, <3>3 DEF Waiting
    <3>6. \A i, j \in DOMAIN queue' : queue'[i] = queue'[j] => i = j
      BY <3>1, <3>3 DEF Waiting
    <3>7. QED
      BY <3>4, <3>5, <3>6 DEF Waiting
  <2>6. QED
    BY <2>1, <2>4, <2>5
<1>3. ASSUME NEW c \in Clients, Close(c)
      PROVE  Waiting'
  BY <1>3 DEF Close, Waiting
<1>4. CASE Accept
  <2>1. /\ queue # <<>> /\ conn' = Head(queue) /\ queue' = Tail(queue)
        /\ st' = [st EXCEPT ![conn'] = IF @ = "queued" THEN "served" ELSE @]
    BY <1>4 DEF Accept
  <2>2. /\ conn' = queue[1] /\ 1 \in DOMAIN queue
        /\ \A i \in DOMAIN queue' : queue'[i] = queue[i + 1] /\ i + 1 \in DOMAIN queue /\ i + 1 # 1
    <3>1. /\ Len(queue) \in Nat \ {0} /\ DOMAIN queue = 1..Len(queue)
          /\ DOMAIN Tail(queue) = 1..(Len(queue) - 1) /\ Head(queue) = queue[1]
          /\ \A i \in 1..(Len(queue) - 1) : Tail(queue)[i] = queue[i + 1]
      BY <2>1
    <3>2. QED
      BY <2>1, <3>1
  <2>3. conn' \in Clients
    BY <2>2
  <2>4. st'[conn'] \in {"served", "left"}
    BY <2>1, <2>2, <2>3 DEF Waiting
  <2>5. \A i \in DOMAIN queue' : queue'[i] # conn' /\ queue'[i] \in Clients
    BY <2>2 DEF Waiting
  <2>6. \A i \in DOMAIN queue' : st'[queue'[i]] = st[queue'[i]]
    BY <2>1, <2>3, <2>5
  <2>7. \A i \in DOMAIN queue' : st'[queue'[i]] \in {"queued", "left"}
    BY <2>2, <2>6 DEF Waiting
  <2>8. \A i, j \in DOMAIN queue' : queue'[i] = queue'[j] => i = j
    <3>1. DOMAIN queue' \subseteq Int
      BY <2>1
    <3>2. QED
      BY <2>2, <3>1 DEF Waiting
  <2>9. QED
    BY <2>4, <2>7, <2>8 DEF Waiting
<1>5. CASE /\ UNCHANGED queue /\ conn \in Clients /\ conn' = None
           /\ st' = Dropped({conn} \cap {c \in Clients : st[c] = "served"})
  <2>1. \A c \in Clients : st[c] # "served" => st'[c] = st[c]
    BY <1>5 DEF Dropped
  <2>2. \A i \in DOMAIN queue : queue[i] \in Clients /\ st[queue[i]] \in {"queued", "left"}
    BY DEF Waiting
  <2>3. \A i \in DOMAIN queue : st'[queue[i]] \in {"queued", "left"}
    BY <2>1, <2>2
  <2>4. QED
    BY <1>5, <2>3 DEF Waiting
<1>6. CASE Stop
  <2>1. queue' = <<>> /\ conn' = conn /\ \A c \in Clients : st[c] # "queued" => st'[c] = st[c]
    BY <1>6 DEF Stop, Dropped
  <2>2. QED
    BY <2>1 DEF Waiting
<1>7. CASE Crash \/ Returns
  BY <1>7 DEF Crash, Returns, Dies, Waiting
<1>8. QED
  BY <1>1, <1>2, <1>3, <1>4, <1>5, <1>6, <1>7, LinkSteps

-----------------------------------------------------------------------------
(* The events on the wire.                                                 *)

\* A client writes another line: what it was told stays about the lines it was
\* told of.
LEMMA LogGrows ==
    ASSUME NEW s \in Seq(Requests), NEW k \in Nat, NEW w \in Seq(Events), Log(s, k, w),
           NEW r \in Requests
    PROVE  Log(Append(s, r), k, w)
<1>1. \A n \in 1..Len(s) : Append(s, r)[n] = s[n]
  OBVIOUS
<1>2. Numbered(Append(s, r), k, w)
  BY DEF Log, Numbered
<1>3. \A i \in DOMAIN w : Truthful(w[i], Append(s, r)[w[i].n])
  BY <1>1 DEF Log, Numbered
<1>4. QED
  BY <1>2, <1>3 DEF Log

\* A report about the line being handled.
LEMMA LogProgress ==
    ASSUME NEW s \in Seq(Requests), NEW k \in Nat, NEW w \in Seq(Events), Log(s, k, w),
           k < Len(s), NEW e \in Events, e.n = k + 1, e.ev = "progress"
    PROVE  Log(s, k, Append(w, e))
<1> DEFINE v == Append(w, e)
<1>1. /\ DOMAIN v = DOMAIN w \cup {Len(w) + 1} /\ DOMAIN w = 1..Len(w) /\ Len(w) \in Nat
      /\ v[Len(w) + 1] = e /\ \A i \in DOMAIN w : v[i] = w[i]
  OBVIOUS
<1>2. \A i \in DOMAIN w : w[i].n \in Nat /\ w[i].n <= k + 1 /\ (IsFinal(w[i]) => w[i].n <= k)
  BY DEF Log, Numbered
<1>3. ~IsFinal(e) /\ e.n \in 1..Len(s)
  BY DEF IsFinal
<1> HIDE DEF v
<1>4. Numbered(s, k, v)
  BY <1>1, <1>2, <1>3 DEF Log, Numbered
<1>5. Ordered(v)
  BY <1>1, <1>2, <1>3 DEF Log, Ordered
<1>6. AnsweredTo(v) = AnsweredTo(w)
  BY <1>1, <1>3 DEF AnsweredTo
<1>7. \A i \in DOMAIN v : Truthful(v[i], s[v[i].n])
  BY <1>1 DEF Log, Truthful
<1>8. QED
  BY <1>4, <1>5, <1>6, <1>7 DEF Log, v

\* The answer to the line being handled.
LEMMA LogAnswer ==
    ASSUME NEW s \in Seq(Requests), NEW k \in Nat, NEW w \in Seq(Events), Log(s, k, w),
           k < Len(s), NEW e \in Events, e.n = k + 1, IsFinal(e), Truthful(e, s[k + 1])
    PROVE  Log(s, k + 1, Append(w, e))
<1> DEFINE v == Append(w, e)
<1>1. /\ DOMAIN v = DOMAIN w \cup {Len(w) + 1} /\ DOMAIN w = 1..Len(w) /\ Len(w) \in Nat
      /\ v[Len(w) + 1] = e /\ \A i \in DOMAIN w : v[i] = w[i]
  OBVIOUS
<1>2. \A i \in DOMAIN w : w[i].n \in Nat /\ w[i].n <= k + 1 /\ (IsFinal(w[i]) => w[i].n <= k)
  BY DEF Log, Numbered
<1>3. e.n \in 1..Len(s)
  OBVIOUS
<1> HIDE DEF v
<1>4. Numbered(s, k + 1, v)
  BY <1>1, <1>2, <1>3 DEF Log, Numbered
<1>5. Ordered(v)
  BY <1>1, <1>2, <1>3 DEF Log, Ordered
<1>6. AnsweredTo(v) = AnsweredTo(w) \cup {k + 1}
  BY <1>1, <1>3 DEF AnsweredTo
<1>7. AnsweredTo(v) = 1..(k + 1)
  BY <1>6 DEF Log
<1>8. \A i \in DOMAIN v : Truthful(v[i], s[v[i].n])
  BY <1>1 DEF Log
<1>9. QED
  BY <1>4, <1>5, <1>7, <1>8 DEF Log, v

\* Nobody who left comes back, and nobody leaves but by closing.
LeftSame == \A c \in Clients : st'[c] = "left" <=> st[c] = "left"

LEMMA LoggedQuiet ==
    ASSUME Typed, Logged, UNCHANGED <<sent, done, wire>>, LeftSame
    PROVE  Logged'
BY DEF Logged, LeftSame

LEMMA LoggedClient ==
    ASSUME Typed, Logged, NEW c \in Clients, Write(c) \/ Close(c)
    PROVE  Logged'
<1> USE DEF Typed, LinksTyped
<1>1. CASE Write(c)
  <2>1. PICK r \in Requests : sent' = [sent EXCEPT ![c] = Append(@, r)]
    BY <1>1 DEF Write
  <2>2. UNCHANGED <<done, wire, st>>
    BY <1>1 DEF Write, server
  <2>3. \A d \in Clients \ {c} : sent'[d] = sent[d]
    BY <2>1
  <2>4. /\ sent'[c] = Append(sent[c], r) /\ sent[c] \in Seq(Requests)
        /\ done[c] \in Nat /\ wire[c] \in Seq(Events)
    BY <2>1
  <2>5. Len(sent'[c]) = Len(sent[c]) + 1 /\ Len(sent[c]) \in Nat
    BY <2>4
  <2>6. st[c] # "left" => Log(sent'[c], done[c], wire[c])
    BY <2>4, LogGrows DEF Logged
  <2>7. ASSUME NEW d \in Clients
        PROVE  /\ done'[d] <= Len(sent'[d])
               /\ IF st'[d] = "left" THEN wire'[d] = <<>> ELSE Log(sent'[d], done'[d], wire'[d])
    <3>1. CASE d # c
      BY <2>2, <2>3, <3>1 DEF Logged
    <3>2. CASE d = c
      <4>1. done[c] <= Len(sent[c]) /\ (st[c] = "left" => wire[c] = <<>>)
        BY DEF Logged
      <4>2. done'[c] = done[c] /\ wire'[c] = wire[c] /\ st'[c] = st[c]
        BY <2>2
      <4>3. done[c] <= Len(sent'[c])
        BY <2>4, <2>5, <4>1
      <4>4. QED
        BY <2>6, <3>2, <4>1, <4>2, <4>3
    <3>3. QED
      BY <3>1, <3>2
  <2>8. QED
    BY <2>7 DEF Logged
<1>2. CASE Close(c)
  <2>1. UNCHANGED <<sent, done>> /\ st' = [st EXCEPT ![c] = "left"]
        /\ wire' = [wire EXCEPT ![c] = <<>>]
    BY <1>2 DEF Close
  <2>2. \A d \in Clients \ {c} : st'[d] = st[d] /\ wire'[d] = wire[d]
    BY <2>1
  <2>3. st'[c] = "left" /\ wire'[c] = <<>>
    BY <2>1
  <2>4. QED
    BY <2>1, <2>2, <2>3 DEF Logged
<1>3. QED
  BY <1>1, <1>2

\* The step that deals with the line being handled, whoever it is from.
LEMMA LoggedAnswer ==
    ASSUME Typed, Waiting, Logged, conn \in Clients, done[conn] < Len(sent[conn]),
           NEW e \in Events, e.n = done[conn] + 1, IsFinal(e), Truthful(e, Line),
           Send(e), done' = [done EXCEPT ![conn] = @ + 1], UNCHANGED sent, LeftSame
    PROVE  Logged'
<1> USE DEF Typed, LinksTyped
<1>1. \A d \in Clients \ {conn} : wire'[d] = wire[d] /\ done'[d] = done[d]
  BY DEF Send
<1>2. /\ done'[conn] = done[conn] + 1 /\ done[conn] \in Nat /\ sent[conn] \in Seq(Requests)
      /\ wire[conn] \in Seq(Events)
  OBVIOUS
<1>3. CASE st[conn] = "served"
  <2>1. wire'[conn] = Append(wire[conn], e)
    BY <1>3 DEF Send
  <2>2. Log(sent[conn], done[conn], wire[conn])
    BY <1>3 DEF Logged
  <2>3. Truthful(e, sent[conn][done[conn] + 1])
    BY DEF Line
  <2>4. Log(sent[conn], done[conn] + 1, Append(wire[conn], e))
    BY <1>2, <2>2, <2>3, LogAnswer
  <2>5. ASSUME NEW d \in Clients
        PROVE  /\ done'[d] <= Len(sent'[d])
               /\ IF st'[d] = "left" THEN wire'[d] = <<>> ELSE Log(sent'[d], done'[d], wire'[d])
    <3>1. CASE d # conn
      BY <1>1, <3>1 DEF Logged, LeftSame
    <3>2. CASE d = conn
      <4>1. st'[d] # "left"
        BY <1>3, <3>2 DEF LeftSame
      <4>2. done'[d] = done[conn] + 1 /\ sent'[d] = sent[conn] /\ wire'[d] = Append(wire[conn], e)
        BY <1>2, <2>1, <3>2
      <4>3. done[conn] + 1 <= Len(sent[conn])
        BY <1>2
      <4>4. QED
        BY <2>4, <4>1, <4>2, <4>3
    <3>3. QED
      BY <3>1, <3>2
  <2>6. QED
    BY <2>5 DEF Logged
<1>4. CASE st[conn] = "left"
  BY <1>1, <1>2, <1>4 DEF Logged, LeftSame, Send
<1>5. QED
  BY <1>3, <1>4, WorkerAssumption DEF Waiting

LEMMA LoggedProgress ==
    ASSUME Typed, Waiting, Logged, Scene, Progress
    PROVE  Logged'
<1> USE DEF Typed, LinksTyped
<1> DEFINE e == Final("progress", None, None)
<1>1. pc = "scan" /\ Send(e) /\ UNCHANGED <<sent, done, st>>
  BY DEF Progress, links
<1>2. conn \in Clients /\ done[conn] < Len(sent[conn])
  BY <1>1, WorkerAssumption DEF Serving, Scene, ScanLine, Scanning
<1>3. e \in Events /\ e.n = done[conn] + 1 /\ e.ev = "progress"
  <2>1. e \in Events
    BY <1>2, FinalTyped
  <2>2. QED
    BY <2>1 DEF Final
<1> HIDE DEF e
<1>4. /\ done[conn] \in Nat /\ sent[conn] \in Seq(Requests) /\ wire[conn] \in Seq(Events)
  BY <1>2
<1>5. \A d \in Clients \ {conn} : wire'[d] = wire[d]
  BY <1>1, <1>2 DEF Send
<1>6. CASE st[conn] = "served"
  <2>1. wire'[conn] = Append(wire[conn], e)
    BY <1>1, <1>2, <1>6 DEF Send
  <2>2. Log(sent[conn], done[conn], wire[conn])
    BY <1>2, <1>6 DEF Logged
  <2>3. Log(sent[conn], done[conn], Append(wire[conn], e))
    BY <1>2, <1>3, <1>4, <2>2, LogProgress
  <2>4. QED
    BY <1>1, <1>2, <1>5, <1>6, <2>1, <2>3 DEF Logged
<1>7. CASE st[conn] # "served"
  BY <1>1, <1>7 DEF Logged, Send
<1>8. QED
  BY <1>6, <1>7

\* What an auto scan says of its spectrum is true of the camera it used.
LEMMA OutcomeTrue ==
    ASSUME Typed, Scene, pc = "scan", NEW e \in Outcome
    PROVE  e \in Events /\ e.n = done[conn] + 1 /\ IsFinal(e) /\ Truthful(e, Line)
<1>1. conn \in Clients /\ Primary(mode) \in Devices
  BY LineTyped DEF Scene, ScanLine, Scanning
<1>2. /\ Final("error", None, None) \in Events
      /\ Final("done", Spectrum, Primary(mode)) \in Events
  BY <1>1, FinalTyped DEF Spectrum
<1>3. e \in Events /\ e.n = done[conn] + 1 /\ IsFinal(e)
  BY <1>2 DEF Outcome, Final, IsFinal
<1>4. CASE e = Final("error", None, None)
  <2>1. e.ev = "error"
    BY <1>4 DEF Final
  <2>2. QED
    BY <1>3, <2>1 DEF Truthful
<1>5. CASE e = Final("done", Spectrum, Primary(mode))
  <2>1. e.spectrum = Spectrum /\ e.used = Primary(mode)
    BY <1>5 DEF Final
  <2>2. ASSUME Line.mode = "auto", RgbDevice # IrField
        PROVE  (Spectrum = "ir") = (Primary(mode) = IrField)
    <3>1. mode \in {"rgb", "ir"} /\ (IrField = None => mode = "rgb")
      BY <2>2 DEF Scene, AutoDecided
    <3>2. QED
      BY <2>2, <3>1 DEF Spectrum, Primary, IrDevice
  <2>3. Truthful(e, Line) <=>
            (e.ev = "done" /\ Line.mode = "auto" /\ RgbDevice # IrField =>
                (e.spectrum = "ir") = (e.used = IrField))
    BY DEF Truthful, RgbDevice, IrField
  <2>4. QED
    BY <1>3, <2>1, <2>2, <2>3
<1>6. QED
  BY <1>3, <1>4, <1>5 DEF Outcome

LEMMA LoggedAnswers ==
    ASSUME Typed, Waiting, Logged, Scene,
           Simple \/ Capabilities \/ TooLong \/ NoCamera \/ ScanEnds
    PROVE  Logged'
<1>1. conn \in Clients /\ done[conn] < Len(sent[conn])
  BY WorkerAssumption DEF Simple, Capabilities, TooLong, NoCamera, ScanEnds, LineWaits,
     Typed, LinksTyped, Serving, Scene, ScanLine, Scanning
<1>2. UNCHANGED sent /\ done' = [done EXCEPT ![conn] = @ + 1]
  BY DEF Simple, Capabilities, TooLong, NoCamera, ScanEnds, Answers, links
<1>3. LeftSame
  <2>1. CASE Simple \/ Capabilities \/ NoCamera \/ ScanEnds
    BY <2>1 DEF Simple, Capabilities, NoCamera, ScanEnds, links, LeftSame
  <2>2. CASE TooLong
    BY <1>1, <2>2 DEF TooLong, HangUp, Dropped, LeftSame, Typed, LinksTyped
  <2>3. QED
    BY <2>1, <2>2
<1>4. \E e \in Events : e.n = done[conn] + 1 /\ IsFinal(e) /\ Truthful(e, Line) /\ Send(e)
  <2>1. ASSUME NEW ev \in {"ping", "capabilities", "cancel", "error"},
               Send(Final(ev, None, None))
        PROVE  \E e \in Events : /\ e.n = done[conn] + 1 /\ IsFinal(e)
                                 /\ Truthful(e, Line) /\ Send(e)
    <3> DEFINE e == Final(ev, None, None)
    <3>1. e \in Events
      BY <1>1, FinalTyped
    <3>2. e.n = done[conn] + 1 /\ e.ev = ev
      BY DEF Final
    <3>3. IsFinal(e) /\ Truthful(e, Line)
      BY <3>2 DEF IsFinal, Truthful
    <3>4. QED
      BY <2>1, <3>1, <3>2, <3>3
  <2>2. CASE Simple
    <3> DEFINE ev == IF Line.op = "bad" THEN "error" ELSE Line.op
    <3>1. ev \in {"ping", "capabilities", "cancel", "error"} /\ Send(Final(ev, None, None))
      BY <2>2 DEF Simple, Answers
    <3> HIDE DEF ev
    <3>2. QED
      BY <2>1, <3>1
  <2>3. CASE Capabilities \/ TooLong \/ NoCamera
    <3>1. \E ev \in {"capabilities", "error"} : Send(Final(ev, None, None))
      BY <2>3 DEF Capabilities, TooLong, NoCamera, Answers
    <3>2. QED
      BY <2>1, <3>1
  <2>4. CASE ScanEnds
    <3>1. PICK e \in Outcome : Send(e)
      BY <2>4 DEF ScanEnds, Answers
    <3>2. QED
      BY <2>4, <3>1, OutcomeTrue DEF ScanEnds
  <2>5. QED
    BY <2>2, <2>3, <2>4
<1>5. QED
  BY <1>1, <1>2, <1>3, <1>4, LoggedAnswer

LEMMA LoggedPreserved ==
    ASSUME Typed, Waiting, Logged, Scene, [Next]_vars
    PROVE  Logged'
<1> USE DEF Typed, LinksTyped
<1>1. CASE Client
  <2>1. PICK c \in Clients : Connect(c) \/ Write(c) \/ Close(c)
    BY <1>1 DEF Client
  <2>2. CASE Connect(c)
    BY <2>2, LoggedQuiet DEF Connect, LeftSame
  <2>3. QED
    BY <2>1, <2>2, LoggedClient
<1>2. CASE Accept
  <2>1. UNCHANGED <<sent, done, wire>>
        /\ st' = [st EXCEPT ![conn'] = IF @ = "queued" THEN "served" ELSE @]
    BY <1>2 DEF Accept
  <2>2. LeftSame
    BY <2>1 DEF LeftSame
  <2>3. QED
    BY <2>1, <2>2, LoggedQuiet
<1>3. CASE Crash \/ Returns \/ Stop
  <2>1. UNCHANGED <<sent, done, wire>>
        /\ \E hung : st' = Dropped(hung) /\ hung \subseteq {c \in Clients : st[c] \in {"queued", "served"}}
    BY <1>3 DEF Crash, Returns, Dies, Stop
  <2>2. LeftSame
    BY <2>1 DEF LeftSame, Dropped
  <2>3. QED
    BY <2>1, <2>2, LoggedQuiet
<1>4. CASE SessionEnds
  <2>1. /\ conn \in Clients /\ st[conn] = "left" /\ UNCHANGED wire
        /\ sent' = [sent EXCEPT ![conn] = <<>>] /\ done' = [done EXCEPT ![conn] = 0]
        /\ st' = Dropped({conn} \cap {c \in Clients : st[c] = "served"})
    BY <1>4, WorkerAssumption DEF SessionEnds, HangUp, Serving
  <2>2. \A d \in Clients \ {conn} : sent'[d] = sent[d] /\ done'[d] = done[d]
    BY <2>1
  <2>3. sent'[conn] = <<>> /\ done'[conn] = 0
    BY <2>1
  <2>4. \A c \in Clients : st'[c] = st[c]
    BY <2>1 DEF Dropped
  <2>5. Len(sent'[conn]) = 0
    BY <2>3
  <2>6. QED
    BY <2>1, <2>2, <2>3, <2>4, <2>5 DEF Logged
<1>5. CASE Simple \/ Capabilities \/ TooLong \/ NoCamera \/ ScanEnds
  BY <1>5, LoggedAnswers
<1>6. CASE Progress
  BY <1>6, LoggedProgress
<1>7. CASE \/ Start \/ MachineChanges \/ ScanBegins \/ MeterOpens \/ MeterFails \/ MeterReads
           \/ OpenPrimary \/ OpenSecondary \/ UNCHANGED vars
  <2>1. UNCHANGED <<sent, done, wire, st>>
    BY <1>7 DEF Start, MachineChanges, ScanBegins, MeterOpens, MeterFails, MeterReads,
                OpenPrimary, OpenSecondary, vars, links
  <2>2. QED
    BY <2>1, LoggedQuiet DEF LeftSame
<1>8. QED
  BY <1>1, <1>2, <1>3, <1>4, <1>5, <1>6, <1>7 DEF Next, Worker

-----------------------------------------------------------------------------
(* What the worker promises.                                               *)

Inv == ProcessTyped /\ FewThreads /\ Typed /\ Waiting /\ Scene /\ Logged

LEMMA InvInit ==
    ASSUME Init
    PROVE  Inv
<1>1. Waiting
  BY WorkerAssumption DEF Init, Waiting
<1>2. Scene
  BY SceneInit
<1>3. Logged
  <2>1. \A k \in Nat : Len(<<>>) = 0 /\ DOMAIN <<>> = {} /\ 1..0 = {}
    OBVIOUS
  <2>2. Log(<<>>, 0, <<>>)
    BY <2>1 DEF Log, Numbered, Ordered, AnsweredTo
  <2>3. QED
    BY <2>1, <2>2 DEF Init, Logged
<1>4. QED
  BY <1>1, <1>2, <1>3, ProcessInit, TypedInit DEF Inv

LEMMA InvPreserved ==
    ASSUME Inv, [Next]_vars
    PROVE  Inv'
BY ProcessPreserved, TypedInvariant, WaitingPreserved, ScenePreserved, LoggedPreserved
   DEF Inv, Scene

LEMMA InvInvariant == Spec => []Inv
BY InvInit, InvPreserved, PTL DEF Spec

\* The flag of _serve is a flag.
Flag == running \in BOOLEAN

LEMMA RunningFlag == Spec => []Flag
<1>1. Init => Flag
  BY DEF Init, Flag
<1>2. Flag /\ [Next]_vars => Flag'
  <2> SUFFICES ASSUME running \in BOOLEAN, [Next]_vars
               PROVE  running' \in BOOLEAN
    BY DEF Flag
  <2>1. CASE Start
    <3>1. running' = (engine' # None)
      BY <2>1, Zenon DEF Start
    <3>2. QED
      BY <3>1, Zenon
  <2>2. CASE Crash \/ Returns \/ Stop
    <3>1. running' = FALSE
      BY <2>2, Zenon DEF Crash, Returns, Dies, Stop
    <3>2. QED
      BY <3>1, Zenon
  <2>3. CASE ~(Start \/ Crash \/ Returns \/ Stop)
    <3>1. running' = running
      <4>1. CASE Client
        BY <4>1, Zenon DEF Client, Connect, Write, Close, server
      <4>2. CASE Worker
        BY <2>3, <4>2, Zenon DEF Worker, Accept, SessionEnds, Simple, Capabilities, TooLong, ScanBegins,
           MeterOpens, MeterFails, MeterReads, OpenPrimary, NoCamera, OpenSecondary, Progress,
           ScanEnds, server
      <4>3. CASE MachineChanges \/ UNCHANGED vars
        BY <4>3, Zenon DEF MachineChanges, vars, server
      <4>4. QED
        BY <2>3, <4>1, <4>2, <4>3 DEF Next
    <3>2. QED
      BY <3>1, Zenon
  <2>4. QED
    BY <2>1, <2>2, <2>3
<1>3. QED
  BY <1>1, <1>2, PTL DEF Spec

\* Every variable keeps its type; the worker serves one connection exactly while
\* it is past accept, and an engine runs with a thread at least and, unless
\* somebody asked for more, with a few at most (hardware.probe).
THEOREM TypeCorrect == Spec => []TypeOK
<1>1. ASSUME Inv, Flag
      PROVE  TypeOK
  <2>1. engine # None => engine.threads \in Nat /\ engine.threads >= 1
    BY <1>1 DEF Inv, ProcessTyped, Engines
  <2>2. engine # None /\ (\A m \in Machines : IntEnv(m.env.max) = None /\ IntEnv(m.env.intra) = None)
          => engine.threads <= MaxThreads
    BY <1>1 DEF Inv, FewThreads, Unlimited
  <2>3. (conn # None) = (pc \in {"line"} \cup Scanning)
    BY <1>1 DEF Inv, Typed, Serving
  <2>4. machine \in Machines /\ lives \in 0..MaxLives
    BY <1>1 DEF Inv, ProcessTyped
  <2>5. LinksTyped /\ ScanTyped
    BY <1>1 DEF Inv, Typed
  <2>6. QED
    BY <1>1, <2>1, <2>2, <2>3, <2>4, <2>5 DEF TypeOK, LinksTyped, ScanTyped, Flag
<1>2. QED
  BY <1>1, InvInvariant, RunningFlag, PTL

\* The camera light means something: whatever is written, refused, crashed or
\* given up, a camera is open only while a scan line that names it is handled,
\* and a scan that runs as "rgb" opens no IR sensor (_handle_scan).
THEOREM CamerasAsked == Spec => []CamerasOnlyAsAsked
<1>1. ASSUME Inv
      PROVE  CamerasOnlyAsAsked
  <2> SUFFICES ASSUME cams # {}
               PROVE  /\ pc \in {"metering", "second", "scan"}
                      /\ Line.op = "scan"
                      /\ cams \subseteq {RgbDevice, IrField}
                      /\ (pc = "metering" \/ mode = "rgb") => cams \subseteq {RgbDevice}
    BY DEF CamerasOnlyAsAsked
  <2>1. pc \in {"metering", "second", "scan"} /\ Line.op = "scan"
    BY <1>1 DEF Inv, Scene, CamerasByStep, ScanLine, Scanning
  <2>2. CASE pc = "metering"
    BY <1>1, <2>1, <2>2 DEF Inv, Scene, CamerasByStep
  <2>3. CASE pc \in {"second", "scan"}
    <3>1. cams \subseteq {Primary(mode), Secondary(mode)} \ {None} \/ cams \subseteq {Primary(mode)}
      BY <1>1, <2>3 DEF Inv, Scene, CamerasByStep
    <3>2. Primary(mode) \in {RgbDevice, IrField}
      BY DEF Primary, IrDevice
    <3>3. Secondary(mode) \in {RgbDevice, IrField, None}
      BY DEF Secondary, IrDevice
    <3>4. mode = "rgb" => Primary(mode) = RgbDevice /\ Secondary(mode) = None
      BY DEF Primary, Secondary, IrDevice
    <3>5. QED
      BY <2>1, <2>3, <3>1, <3>2, <3>3, <3>4
  <2>4. QED
    BY <2>1, <2>2, <2>3
<1>2. QED
  BY <1>1, InvInvariant, PTL

\* A client that has not left was answered once for each line the worker has
\* dealt with, in the order it wrote them, and every report of a scan came
\* before its answer (_session, send).
THEOREM AnswersInOrder == Spec => []AnsweredInOrder
<1>1. ASSUME Inv
      PROVE  AnsweredInOrder
  <2> SUFFICES ASSUME NEW c \in Clients
               PROVE  /\ \A i, j \in DOMAIN wire[c] : i < j =>
                            /\ wire[c][i].n <= wire[c][j].n
                            /\ IsFinal(wire[c][i]) => wire[c][i].n < wire[c][j].n
                      /\ st[c] # "left" => Answered(c) = 1..done[c]
    BY DEF AnsweredInOrder
  <2>1. CASE st[c] = "left"
    <3>1. wire[c] = <<>>
      BY <1>1, <2>1 DEF Inv, Logged
    <3>2. QED
      BY <2>1, <3>1
  <2>2. CASE st[c] # "left"
    <3>1. Log(sent[c], done[c], wire[c])
      BY <1>1, <2>2 DEF Inv, Logged
    <3>2. QED
      BY <3>1 DEF Log, Ordered, AnsweredTo, Answered
  <2>3. QED
    BY <2>1, <2>2
<1>2. QED
  BY <1>1, InvInvariant, PTL

\* What the daemon is told about the spectrum of an auto scan is true: "ir"
\* exactly when the IR sensor was the primary camera (_handle_scan, meter.py).
THEOREM SpectrumTold == Spec => []AutoSpectrum
<1>1. ASSUME Inv
      PROVE  AutoSpectrum
  <2> SUFFICES ASSUME NEW c \in Clients, NEW i \in DOMAIN wire[c]
               PROVE  Truthful(wire[c][i], sent[c][wire[c][i].n])
    BY DEF AutoSpectrum, Truthful
  <2>1. st[c] # "left"
    BY <1>1 DEF Inv, Logged
  <2>2. Log(sent[c], done[c], wire[c])
    BY <1>1, <2>1 DEF Inv, Logged
  <2>3. QED
    BY <2>2 DEF Log
<1>2. QED
  BY <1>1, InvInvariant, PTL
=============================================================================
