---------------------------- MODULE VisionWorker ----------------------------
(***************************************************************************)
(* The vision worker process (vision/faceid_vision/__main__.py): one       *)
(* thread that starts its engine, accepts one connection at a time,        *)
(* answers its lines in order, and owns the cameras while it does.  The    *)
(* clients are calls of the daemon: each connects, writes its lines, and   *)
(* closes when it has its answer or its patience has run out.              *)
(*                                                                         *)
(* A client that has given up stays in the queue of the socket, and what   *)
(* it wrote is still executed: the worker notices a closed connection only *)
(* when it reads again.  engine.scan is one step with any outcome here;    *)
(* module ScanSession is the scan itself.                                  *)
(***************************************************************************)
EXTENDS WorkerModels, Integers, FiniteSets

CONSTANTS
    Clients,      \* calls of the daemon
    Requests,     \* the lines they may write: see IsRequest
    Backlog,      \* listen(4): the socket queues one connection more
    MaxLines,     \* bound: lines a client writes
    MaxLives,     \* bound: starts of the process
    Machines,     \* machines the process may start on: see WorkerModels
    Devices,      \* camera nodes
    Mono,         \* those that advertise only monochrome formats
    CliDevice,    \* --device
    CliIr         \* --ir-device, or None

Ops   == {"ping", "capabilities", "cancel", "scan", "bad", "long"}
Modes == {"rgb", "ir", "both", "hybrid", "auto"}

\* "bad" is a line decode or validate_request refuses, "long" one without an
\* end; an absent field is None.  "enroll" is "scan" with previews.
IsRequest(r) ==
    /\ r.op \in Ops
    /\ r.mode \in Modes \cup {None}
    /\ r.device \in Devices \cup {None}
    /\ r.ir \in Devices \cup {None}

ASSUME WorkerAssumption ==
    /\ None \notin Devices \cup Clients \cup Requests
    /\ None \notin {"dark", "band", "light"}
    /\ Mono \subseteq Devices /\ CliDevice \in Devices
    /\ CliIr \in Devices \cup {None}
    /\ Backlog \in Nat /\ MaxLines \in Nat /\ MaxLives \in Nat
    /\ \A r \in Requests : IsRequest(r)
    /\ \A m \in Machines : IsMachine(m)

VARIABLES
    machine,   \* the files and drivers of the machine
    cache,     \* hardware.json in the runtime directory, or None
    lives,     \* how often the process was started
    engine,    \* the ScanEngine, or None
    pc,        \* where the thread is
    running,   \* the flag of _serve that stop() clears
    queue,     \* connections nobody has accepted yet
    conn,      \* the connection being served, or None
    st,        \* each client: "new", "queued", "served", "left", "dropped"
    sent,      \* the lines each client has written
    done,      \* how many of them the worker has dealt with
    wire,      \* the events each client has been sent
    lastAuto,  \* _LAST_AUTO
    mode,      \* the mode of the current scan
    tries,     \* attempts of _open_with_retry
    cams       \* the devices that are open

server == <<machine, cache, lives, engine, running>>
links  == <<queue, conn, st, sent>>
scan   == <<lastAuto, mode, tries, cams>>
vars   == <<server, pc, links, done, wire, scan>>

Down     == {"down", "failed"}
Scanning == {"meter", "metering", "open", "second", "scan"}

Line == sent[conn][done[conn] + 1]

-----------------------------------------------------------------------------
(* The process: start, stop, crash.                                        *)

\* main: no engine, no service (exit 2; systemd tries again).
Start ==
    /\ pc \in Down /\ lives < MaxLives
    /\ LET e == BuildEngine(machine, cache) IN
        /\ engine' = e
        /\ pc' = IF e = None THEN "failed" ELSE "accept"
        /\ \E writable \in BOOLEAN :
              cache' = StoreCache(Probe(machine, cache), cache, writable /\ e # None)
    /\ lives' = lives + 1
    /\ running' = (engine' # None)
    /\ lastAuto' = "rgb"
    /\ UNCHANGED <<machine, links, done, wire, mode, tries, cams>>

\* Files are fetched and drivers change while the process is down.
MachineChanges ==
    /\ pc \in Down
    /\ \E m \in Machines : machine' = m
    /\ UNCHANGED <<cache, lives, engine, running, pc, links, done, wire, scan>>

\* The locals of _handle_scan are gone when it has returned.
ScanOver == mode' = "rgb" /\ tries' = 0

\* The end of the process closes its sockets and its cameras.
Dropped(hung) == [c \in Clients |-> IF c \in hung THEN "dropped" ELSE st[c]]

Dies ==
    /\ pc' = "down"
    /\ engine' = None
    /\ running' = FALSE
    /\ queue' = <<>> /\ conn' = None /\ cams' = {}
    /\ st' = Dropped({c \in Clients : st[c] \in {"queued", "served"}})
    /\ ScanOver
    /\ UNCHANGED <<machine, cache, lives, sent, done, wire, lastAuto>>

Crash == pc \notin Down /\ Dies

\* SIGTERM: the listening socket closes at once and takes its queue with it;
\* the connection being served goes on to its end.
Stop ==
    /\ pc \notin Down /\ running
    /\ running' = FALSE
    /\ queue' = <<>>
    /\ st' = Dropped({c \in Clients : st[c] = "queued"})
    /\ UNCHANGED <<machine, cache, lives, engine, pc, conn, sent, done, wire, scan>>

Returns == pc = "accept" /\ ~running /\ Dies

-----------------------------------------------------------------------------
(* Clients (the daemon's Worker).                                          *)

Connect(c) ==
    /\ st[c] = "new" /\ running
    /\ IF Len(queue) <= Backlog
       THEN queue' = Append(queue, c) /\ st' = [st EXCEPT ![c] = "queued"]
       ELSE queue' = queue /\ st' = [st EXCEPT ![c] = "dropped"]
    /\ UNCHANGED <<server, pc, conn, sent, done, wire, scan>>

Write(c) ==
    /\ st[c] \in {"queued", "served"} /\ Len(sent[c]) < MaxLines
    /\ \E r \in Requests : sent' = [sent EXCEPT ![c] = Append(@, r)]
    /\ UNCHANGED <<server, pc, queue, conn, st, done, wire, scan>>

\* An answer, or a budget that has run out.
Close(c) ==
    /\ st[c] \in {"queued", "served"}
    /\ st' = [st EXCEPT ![c] = "left"]
    /\ wire' = [wire EXCEPT ![c] = <<>>]
    /\ UNCHANGED <<server, pc, queue, conn, sent, done, scan>>

-----------------------------------------------------------------------------
(* _serve and _session.                                                    *)

Accept ==
    /\ pc = "accept" /\ running /\ queue # <<>>
    /\ conn' = Head(queue) /\ queue' = Tail(queue)
    /\ st' = [st EXCEPT ![conn'] = IF @ = "queued" THEN "served" ELSE @]
    /\ pc' = "line"
    /\ UNCHANGED <<server, sent, done, wire, scan>>

\* send: an event for a client that has left is lost without an error.
Send(e) == wire' = IF st[conn] = "served"
                   THEN [wire EXCEPT ![conn] = Append(@, e)] ELSE wire

Final(ev, spectrum, used) ==
    [n |-> done[conn] + 1, ev |-> ev, spectrum |-> spectrum, used |-> used]

Answers(e) ==
    /\ Send(e)
    /\ done' = [done EXCEPT ![conn] = @ + 1]
    /\ pc' = "line"

HangUp ==
    /\ pc' = "accept" /\ conn' = None
    /\ st' = Dropped({conn} \cap {c \in Clients : st[c] = "served"})

BadSessionEnds ==
    /\ pc = "line" /\ st[conn] = "left" /\ done[conn] = Len(sent[conn])
    /\ sent[conn] # <<>>
    /\ HangUp
    /\ sent' = [sent EXCEPT ![conn] = <<>>]
    /\ done' = [done EXCEPT ![conn] = 0]
    /\ UNCHANGED <<server, queue, wire, scan>>

\* recv returns nothing: the client closed and everything it wrote is done.
SessionEnds ==
    /\ pc = "line" /\ st[conn] = "left" /\ done[conn] = Len(sent[conn])
    /\ HangUp
    /\ sent' = [sent EXCEPT ![conn] = <<>>]
    /\ done' = [done EXCEPT ![conn] = 0]
    /\ UNCHANGED <<server, queue, wire, scan>>

LineWaits == pc = "line" /\ done[conn] < Len(sent[conn])

\* What is answered without a camera.
Simple ==
    /\ LineWaits /\ Line.op \in {"ping", "cancel", "bad"}
    /\ Answers(Final(IF Line.op = "bad" THEN "error" ELSE Line.op, None, None))
    /\ UNCHANGED <<server, links, scan>>

\* _accel_info asks for the profile, which may leave it in the cache.
Capabilities ==
    /\ LineWaits /\ Line.op = "capabilities"
    /\ Answers(Final("capabilities", None, None))
    /\ \E writable \in BOOLEAN :
          cache' = StoreCache(Profile(machine, cache), cache, writable)
    /\ UNCHANGED <<machine, lives, engine, running, links, scan>>

TooLong ==
    /\ LineWaits /\ Line.op = "long"
    /\ Send(Final("error", None, None))
    /\ done' = [done EXCEPT ![conn] = @ + 1]
    /\ HangUp
    /\ UNCHANGED <<server, queue, sent, scan>>

-----------------------------------------------------------------------------
(* _handle_scan.                                                           *)

RgbDevice == IF Line.device # None THEN Line.device ELSE CliDevice
IrField   == IF Line.ir # None THEN Line.ir ELSE CliIr

\* _classify_mode, for a request that names no mode.
ClassifyMode == IF CliDevice \in Mono THEN "ir" ELSE "rgb"

\* The primary and the secondary camera of a scan in mode m.
BadIrDevice(m) == IrField

IrDevice(m) == IF m \in {"ir", "both", "hybrid"} THEN IrField ELSE None

Primary(m) == IF m = "ir" /\ IrDevice(m) # None THEN IrDevice(m) ELSE RgbDevice

Secondary(m) ==
    IF m = "ir" /\ IrDevice(m) # None THEN RgbDevice ELSE IrDevice(m)

\* Camera.__enter__ leaves the device open or, on any failure, closed.
Enters(ds) == cams' = cams \cup ds

\* Camera.__exit__
Exits(ds) == cams' = cams \ ds

ScanBegins ==
    /\ LineWaits /\ Line.op = "scan"
    /\ mode' = IF Line.mode = None THEN ClassifyMode ELSE Line.mode
    /\ pc' = IF Line.mode = "auto" THEN "meter" ELSE "open"
    /\ tries' = 0
    /\ UNCHANGED <<server, links, done, wire, lastAuto, cams>>

\* _sample_luma opens the RGB camera, with a retry, and reads a few frames.
MeterOpens ==
    /\ pc = "meter" /\ tries < 2
    /\ \/ pc' = "metering" /\ Enters({RgbDevice}) /\ UNCHANGED tries
       \/ pc' = pc /\ tries' = tries + 1 /\ UNCHANGED cams
    /\ UNCHANGED <<server, links, done, wire, lastAuto, mode>>

\* meter.pick_spectrum
PickSpectrum(l, last) ==
    CASE l = "dark"  -> "ir"
      [] l = "light" -> "rgb"
      [] OTHER       -> last

\* Without an IR camera a dark room is still scanned, in RGB.
BadPicked(l) == PickSpectrum(l, lastAuto)

Picked(l) == IF IrField = None THEN "rgb" ELSE PickSpectrum(l, lastAuto)

\* The meter is out of reach: IR if there is any. _LAST_AUTO stays.
MeterFails ==
    /\ \/ pc = "meter" /\ tries = 2
       \/ pc = "metering"
    /\ mode' = IF IrField = None THEN "rgb" ELSE "ir"
    /\ pc' = "open" /\ tries' = 0 /\ Exits(cams)
    /\ UNCHANGED <<server, links, done, wire, lastAuto>>

MeterReads ==
    /\ pc = "metering"
    /\ \E l \in {"dark", "band", "light"} :
        /\ mode' = Picked(l)
        /\ lastAuto' = Picked(l)
    /\ pc' = "open" /\ tries' = 0 /\ Exits(cams)
    /\ UNCHANGED <<server, links, done, wire>>

OpenPrimary ==
    /\ pc = "open" /\ tries < 2
    /\ \/ pc' = "second" /\ Enters({Primary(mode)}) /\ UNCHANGED tries
       \/ pc' = pc /\ tries' = tries + 1 /\ UNCHANGED cams
    /\ UNCHANGED <<server, links, done, wire, lastAuto, mode>>

BadNoCamera ==
    /\ pc = "open" /\ tries = 2
    /\ done' = [done EXCEPT ![conn] = @ + 1] /\ pc' = "line"
    /\ ScanOver
    /\ UNCHANGED <<server, links, wire, lastAuto, cams>>

NoCamera ==
    /\ pc = "open" /\ tries = 2
    /\ Answers(Final("error", None, None))
    /\ ScanOver
    /\ UNCHANGED <<server, links, lastAuto, cams>>

\* The secondary camera is a bonus: one attempt, and the scan goes on without.
OpenSecondary ==
    /\ pc = "second"
    /\ pc' = "scan"
    /\ \/ UNCHANGED cams
       \/ /\ Secondary(mode) \notin cams \cup {None}
          /\ Enters({Secondary(mode)})
    /\ UNCHANGED <<server, links, done, wire, lastAuto, mode, tries>>

Progress ==
    /\ pc = "scan"
    /\ \A i \in DOMAIN wire[conn] : wire[conn][i].n # done[conn] + 1
    /\ Send(Final("progress", None, None))
    /\ UNCHANGED <<server, pc, links, done, scan>>

Spectrum == IF mode = "ir" THEN "ir" ELSE "rgb"

\* engine.scan returns or raises: both cameras close, then the answer goes out.
Outcome ==
    {Final("error", None, None), Final("done", Spectrum, Primary(mode))}

BadScanEnds ==
    /\ pc = "scan"
    /\ \E e \in Outcome :
        /\ cams' = IF e.ev = "error" THEN cams ELSE {}
        /\ Answers(e)
    /\ ScanOver
    /\ UNCHANGED <<server, links, lastAuto>>

ScanEnds ==
    /\ pc = "scan"
    /\ \E e \in Outcome : Answers(e)
    /\ Exits(cams)
    /\ ScanOver
    /\ UNCHANGED <<server, links, lastAuto>>

-----------------------------------------------------------------------------
Init ==
    /\ machine \in Machines
    /\ cache = None /\ lives = 0 /\ engine = None
    /\ pc = "down" /\ running = FALSE
    /\ queue = <<>> /\ conn = None
    /\ st = [c \in Clients |-> "new"]
    /\ sent = [c \in Clients |-> <<>>]
    /\ done = [c \in Clients |-> 0]
    /\ wire = [c \in Clients |-> <<>>]
    /\ lastAuto = "rgb" /\ mode = "rgb"
    /\ tries = 0 /\ cams = {}

Client == \E c \in Clients : Connect(c) \/ Write(c) \/ Close(c)

Worker ==
    \/ Accept \/ SessionEnds \/ Simple \/ Capabilities \/ TooLong
    \/ ScanBegins \/ MeterOpens \/ MeterFails \/ MeterReads
    \/ OpenPrimary \/ NoCamera \/ OpenSecondary \/ Progress \/ ScanEnds
    \/ Returns

Next == Client \/ Worker \/ Start \/ MachineChanges \/ Crash \/ Stop

Spec == Init /\ [][Next]_vars

\* The thread runs, and a call of the daemon ends: Worker::scan waits for each
\* line only so long.  Nobody has to start, stop or write.
FairSpec == Spec /\ WF_vars(Worker) /\ \A c \in Clients : WF_vars(Close(c))

-----------------------------------------------------------------------------
(* Properties.                                                             *)

Events == [n : Nat, ev : {"ping", "capabilities", "cancel", "progress", "done", "error"},
           spectrum : {"rgb", "ir", None}, used : Devices \cup {None}]

\* Every variable keeps its type: the worker serves one connection exactly while
\* it is past accept, and no inference runs without a thread, or on every core of
\* a large machine that nobody set another limit for.
TypeOK ==
    /\ machine \in Machines
    /\ lives \in 0..MaxLives
    /\ engine # None => engine.threads >= 1
    /\ engine # None /\ (\A m \in Machines : IntEnv(m.env.max) = None /\ IntEnv(m.env.intra) = None)
          => engine.threads <= MaxThreads
    /\ pc \in Down \cup {"accept", "line"} \cup Scanning
    /\ running \in BOOLEAN
    /\ queue \in Seq(Clients)
    /\ conn \in Clients \cup {None}
    /\ (conn # None) = (pc \in {"line"} \cup Scanning)
    /\ st \in [Clients -> {"new", "queued", "served", "left", "dropped"}]
    /\ sent \in [Clients -> Seq(Requests)]
    /\ done \in [Clients -> Nat]
    /\ wire \in [Clients -> Seq(Events)]
    /\ lastAuto \in {"rgb", "ir"}
    /\ mode \in Modes
    /\ tries \in 0..2
    /\ cams \subseteq Devices

\* The camera light means something: a camera is open only for a scan line
\* that is being handled, only a camera that line names, and a scan that runs
\* as "rgb" opens no IR sensor even when the request carries one (comment at
\* __main__.py:142).
CamerasOnlyAsAsked ==
    cams # {} =>
        /\ pc \in {"metering", "second", "scan"}
        /\ Line.op = "scan"
        /\ cams \subseteq {RgbDevice, IrField}
        /\ (pc = "metering" \/ mode = "rgb") => cams \subseteq {RgbDevice}

IsFinal(e) == e.ev # "progress"

\* The lines of a client that have their answer on the wire.
Answered(c) == {wire[c][i].n : i \in {j \in DOMAIN wire[c] : IsFinal(wire[c][j])}}

\* A client that stays is answered once per line, in the order it wrote them,
\* whatever fails; and what a scan reports on its way comes before its answer.
AnsweredInOrder ==
    \A c \in Clients :
        /\ \A i, j \in DOMAIN wire[c] : i < j =>
              /\ wire[c][i].n <= wire[c][j].n
              /\ IsFinal(wire[c][i]) => wire[c][i].n < wire[c][j].n
        /\ st[c] # "left" => Answered(c) = 1..done[c]

\* What the daemon is told about the spectrum of an auto scan is true: "ir"
\* exactly when the IR sensor was the primary camera.  The templates it may
\* match against depend on it.
AutoSpectrum ==
    \A c \in Clients : \A i \in DOMAIN wire[c] :
        LET e == wire[c][i]
            r == sent[c][e.n]
            ir == IF r.ir # None THEN r.ir ELSE CliIr
            rgb == IF r.device # None THEN r.device ELSE CliDevice
        IN  e.ev = "done" /\ r.mode = "auto" /\ rgb # ir =>
                (e.spectrum = "ir") = (e.used = ir)

\* An accelerator that stops working costs speed and never the feature, even
\* when the cached profile still believes in it: the worker refuses to start
\* only when a model it cannot do without is missing or not the pinned one.
DriversCostSpeedOnly ==
    [][pc' = "failed" =>
        ~(Resolves(machine, "detector") /\ Resolves(machine, "recognizer"))]_<<lives, pc>>

\* models.py, line 4: a model that does not match its pin is never loaded.
LoadsOnlyPinned ==
    engine # None => \A l \in engine.loaded : l[2] = "good"

Queued(c) == \E i \in DOMAIN queue : queue[i] = c

\* A connection does not wait in the queue forever, although the worker still
\* works off the scans of clients that have given up.
QueueDrains == \A c \in Clients : Queued(c) ~> ~Queued(c)

\* A camera that is open is closed again, also when its scan failed or its
\* client is gone.
CamerasReleased == cams # {} ~> cams = {}
=============================================================================
