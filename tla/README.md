# Verification of faceid-nim

TLA+ models of the parts of faceid-nim that decide who is let in, who waits
for whom, what a scan says of the face in front of it, and what the windows of
the app do to all that; TLC configurations that check them on small instances;
and TLAPS proofs of the central results for every instance.

Contents: 1 the system, 2 the modules and the code, 3 the runs, 4 fairness,
5 the proofs, 6 what the code does differently from its comments, 7 what is
not modelled, 8 the plan.

## 1. The system

faceid-nim unlocks an Ubuntu session by face. These are its parts, the state
each keeps, and who calls whom:

| part | state | operations | depends on |
|---|---|---|---|
| PAM module (`pam/pam_faceid.c`) | a socket, a deadline | `pam_sm_authenticate` | auth socket |
| auth socket (`daemon/src/ipc.rs`) | 64 connection permits | `serve`, `handle` | engine |
| engine (`session.rs`) | a lock per uid, 2 scan permits, a channel of ScanState events | `authenticate` | policy, store, worker |
| attempt limiter (`policy.rs`) | failures and `locked_until` per uid | `check`, `record_success`, `record_failure` | the clock |
| template store (`store.rs`) | one encrypted file per identity, one key | `save`, `load`, `list`, `any_enabled`, `load_enabled`, `delete` | file system |
| configuration (`config.rs`) | one record, one TOML file | `load`, `save`, `validate` | file system |
| enrollment (`enroll.rs`) | a map of sessions, a counter | start, pose, finish, cancel, info | worker, store, polkit |
| D-Bus object (`dbus.rs`) | a TestScan limiter, the previews | settings, identities, TestScan, previews, signals | all of the above |
| worker client (`worker.rs`) | none between calls | `scan`, `ping`, `capabilities` | worker |
| vision worker (`vision/`): process | a listening socket, the connection it serves, the open cameras, the last spectrum of auto mode, `hardware.json` | `main`, `_serve`, `_session`, `_handle_scan` | models, cameras |
| vision worker: one scan (`scan.py` and the detectors) | windows, counters and trackers over the frames of a scan | `ScanEngine.scan` | cameras |
| cameras (`cameras.py`, `camera.py`) | none but the open device | `discover`, `pick`, `resolve_plan`, `Camera` | the kernel |
| settings window (`app/main.py`) | a cache of the configuration, the widgets, the cameras found, `prefs.json` | refresh, settings, camera mode, auto tune | D-Bus object |
| enrollment wizard (`app/onboarding.py`) | page, session, pose, timers | start, poses, retries, finish, close | D-Bus object, preview pipe |
| preview pipe | bytes between the daemon's `push_*` and the app's `PreviewReader` | write, read, either end closes | |
| opening animations (`app/openings.py`) | a library of decorations in the user's home | install, activate, delete, undo | file system |
| shell extension (`shell-ext/`) | the last terminal state, the phase of the pill | ScanState and lock callbacks | D-Bus signal |
| desktop animation (`linux-anim/`) | what it draws | ScanState callbacks | D-Bus signal |

A login goes PAM module, auth socket, engine, worker, matcher, limiter, and
back, while the engine tells the shell about its progress over a bounded
channel and a signal. Enrollment, TestScan and previews use the same worker
and cameras from D-Bus calls of the app.

What is hard here, and what each part has to get right in spite of it:

* **Concurrency.** The daemon is multi-threaded tokio; every socket connection
  and every D-Bus call is a task. Attempts of one account overlap (limiter:
  check, scan and record must be one step); poses overlap with cancel, finish
  and start (enrollment: nobody's face in another's template set, no two
  models in one set); settings are compared, released and overwritten.
* **State read before an await and used after it.** The configuration an
  attempt clones, the enrolled identities it looked for before the scan, the
  cancellation a pose looked for.
* **Resources at their limit.** Two scan permits, 64 connections, channels of
  64 and 16 events, a worker that serves one connection at a time, a preview
  pipe that does not block and stops in the middle of a frame.
* **Failure.** Camera errors, a worker that is gone or silent, a failed save, a
  daemon that restarts, a driver that broke since the worker last looked: a
  user must not pay with an attempt, a face or the feature for any of them.
* **Memory within a scan.** Five detectors, each fed on other frames than the
  rest, have to agree with what the frames showed, wherever the scan breaks off.
* **Callbacks.** The app's windows live on one main loop and wait for nothing:
  replies, refreshes, timers and time-outs arrive when the state they were
  asked for is gone, and after the window is.
* **Time.** A lockout that ends lazily, deadlines at four levels (PAM,
  daemon, worker, app), events of overlapping scans that carry no scan id.

`PROJECT.json` lists every hazard of this kind at its line, with the properties
that cover it, or what is planned where none does yet.

## 2. The modules and the code

| module | models | lines of code |
|---|---|---|
| `Policy` | the limiter's operations on one entry | `policy.rs` 33-76 |
| `Lockout` | what the limiter and the engine together promise | the comments of `auth_locks` and `Policy` |
| `AuthEngine` | `Engine::authenticate` and what it shares with others | `session.rs` 23-448, `matcher.rs`, parts of `store.rs`, `main.rs`, `dbus.rs` |
| `AuthEngineProofs` | proofs | |
| `Enrollment` | `Enrollment1` | `enroll.rs` 75-633 |
| `EnrollmentProofs` | proofs | |
| `WorkerModels` | what the worker makes of the machine it starts on | `models.py`, `hardware.py`, `rt.py`, `landmarks.py`, `build_engine` |
| `VisionWorker` | the worker's process, its socket, its cameras and its clients | `__main__.py`, `camera.py`, `meter.py`, `worker.rs` |
| `VisionWorkerProofs` | proofs | |
| `ScanSession` | one scan, frame by frame, and its detectors | `scan.py`, `liveness/` (`screen`, `passive`, `ir`, `blink`, `challenge`, `geometry`), `quality.py`, `enrollpreview.py` |
| `ScanSessionProofs` | proofs | |
| `Cameras` | probing, classifying and choosing cameras | `cameras.py`, `auto_tune.py` |
| `CamerasProofs` | proofs | |
| `SettingsApp` | the settings window and the part of the daemon it talks to | `main.py`, `prefs.py`, `dbus_client.py`, parts of `dbus.rs`, `config.rs` |
| `SettingsAppProofs` | proofs | |
| `PreviewPipe` | the preview pipe, from writer to reader | `enroll.rs`, `PreviewReader` of `onboarding.py` |
| `PreviewPipeProofs` | proofs | |
| `Onboarding` | the wizard, its client and one user's sessions | `onboarding.py`, `dbus_client.py`, `enroll.rs` |
| `OnboardingProofs` | proofs | |
| `MCAuthEngine`, `MCEnrollment`, `MCVisionWorker`, `MCScanSession`, `MCSettingsApp`, `MCOnboarding` | the instances TLC checks | |

`AuthEngine`, `Enrollment`, `VisionWorker`, `ScanSession` and `SettingsApp` are
each a composition of one component with as much of its neighbours as it can
tell apart: the engine sees the worker as the outcomes of a scan, the worker
sees the engine as clients that write lines and lose patience, and
`VisionWorker` sees a scan as any outcome, which `ScanSession` is the inside of.
`Onboarding` composes the wizard with the daemon's sessions and with
`PreviewPipe`, `SettingsApp` with `Cameras`, `VisionWorker` with `WorkerModels`.

**AuthEngine.** One action is one stretch of `authenticate` between two awaits,
in the order of the function: decline at once, or clone the configuration
(`Begin`), queue for the lock of the uid (`LockUid`), ask the limiter
(`CheckRefuses`, `CheckAllows`), ask the store (`Enrolled`,
`ReturnUnenrolled`), get a permit (`TakeSlot`), send two events, scan
(`ScanFails`, `ScanReports`), tell the limiter (`Record`), send the last event
and return (`Finish`). `pc` is where an attempt is; `who`, `snap` and `verdict`
are its locals; `cfg`, `store`, `policy`, `holder`, `permits` and `backlog` are
the fields of `Engine`. Around them the environment changes settings and
identities, the clock passes `locked_until`, the pump of the signal takes
events, and the daemon restarts.

Abstractions. A deadline is "off", "running" or "expired" instead of an
`Instant`. An embedding is the set of identities it matches, so that the vote
counts frames and the similarities are gone; tau, and the gate that lets
templates vote only in their own spectrum, decide what is in that set. An
identity that is disabled is not in `store` at all. The events of the channel
are counted, not told apart, and the pump of progress events is part of the
attempt it belongs to (an aborted pump may still send the one event it had in
hand, which adds nothing to a count that others can add to anyway).

**Lockout** knows no attempts: a strike and the closing of the gate are one
step, taken only while the gate is open. `Promise` in `AuthEngine` maps
`strikes` and `gate` to the two fields of a limiter entry.

**Enrollment.** One action is what a call does while it holds the lock of the
sessions map, or a scan. `start_enrollment` has two such sections
(`StartClears`, `StartInserts`); `enroll_pose` has four and two scans
(`PoseBegins`, `PoseScanned`, `PoseCounts`, `PoseScannedOther`, `PosePushes`);
`finish_enrollment` and `cancel_enrollment` hold the lock to the end. A
template keeps its face (embeddings closer than `DUP_SIMILARITY` are one
face), tag and model, and, for the properties, who collected it (`by`). A scan may come without a model name, as
`ScanEvidence` allows; the second of a pose is kept when it names the model of
the first or none (`SecondKept`).

**WorkerModels** and **VisionWorker.** A machine is a record of files (with or
without the checksum of the manifest), drivers, CPUs and the landmark wheel;
`BuildEngine` is what `build_engine` makes of it, by way of a cached profile
that nothing invalidates. `machine` changes only while the process is down,
which is when the difference between a cached profile and the machine matters.
`pc` is where the one thread is: waiting (`accept`), between lines (`line`), or
at a stage of `_handle_scan`: `meter` and `metering` (the light meter opens and
reads the RGB camera), `open` and `second` (the primary camera with a retry, the
secondary without), `scan`. `queue` and `conn` are the socket, `cams` the
devices that are open, `lastAuto` is `_LAST_AUTO`. A client connects, writes and
closes whenever it likes; the worker learns of a close only when it reads again,
so that lines of a client that has left are executed (`SessionEnds` wants them
all done). A camera is a node, luma is "dark", "band" (the hysteresis) or
"light", and `engine.scan` is one step with any outcome.

**ScanSession.** A frame is what the image processing says of it, each
measurement a small number: the ear and the pose in hundredths, as the
thresholds of the code are, the planarity residual as flat, neither, solid or
not a number (no homography fits).
`Use` is one pass of the loop in `scan` in its order: landmarks and blinks,
the challenge, the cues, the embedding, `_enough`. `Breaks` ends the scan at each
point of a pass that can raise; what was collected before stays. `Judge` is the
code after the loop. `moires` and `poses` are history that only properties read.

**Cameras** has operators only. A machine's nodes are a function; `Discover`,
`Kind`, `Pick`, `ResolvePlan`, `AutoConfig` and `HardwareSuggestion` are the
functions of those names, on the size of the largest frame instead of format
lists.

**SettingsApp.** A configuration is a function of `Keys`; `tau` stands for the
keys the window does not show and `timeline` for those it shows and nobody has
to be authorised for. What the window holds or sends may lack keys, and `Parsed`
fills in serde's defaults. A refresh is a thread in three steps (settings, the
rest, the main loop's `ApplyRefresh`); a call goes through the daemon in two,
with polkit's answer between comparing and installing (`Ask`, `Install`).
`cache`, `widgets`, `prefs`, `discovery`, `override` and `dialog` are the fields
of the window, `stored` is `prefs.json`, `generation` numbers refreshes. The
entry of the IR camera, which works as that of the RGB camera does, the
greeting's texts and whatever only redraws are left out. `held`, and `why`,
`blind` and `warned` of a call, are history for the properties.

**PreviewPipe.** A byte is a record of what it is and which frame it belongs
to, so that the reader is right exactly when it puts bytes of one frame
together. The four bytes of a length are two, which keeps the case in which a
piece ends inside a length.

**Onboarding.** A handler, callback or timer of the wizard is one action. A
call is a record that moves through the daemon and comes back as `done`; after
`TimesOut` the wizard has its error while the same call, `gone`, goes on in the
daemon. `StartEnrollment` is synchronous in the code and one action here. A
session that the client stopped waiting for is `lost`: the wizard never learns
of it. The daemon's side is `Enrollment` seen by one user: instead of templates
a session has how many there are (`count`, at most `MaxTemplates`) and the
positions they hold something of (`covered`: a near-duplicate is covered by what
it is near to; in a full session nothing of a position goes in, although
`enroll_pose` reports it complete).

Operators called `Bad...` stand before the definition they spoil. They are
what a plausible mistake would make of the code; `PROJECT.json` pairs each
property with one, and TLC finds the property violated under it.

## 3. The runs

| run | instance | result |
|---|---|---|
| `auth_one_user` | 1 account, 3 attempts, 2 services, 3 configurations (limits 2 and 3, off), 3 stores, 4 scans, 1 permit, channel of 1; 40 257 states | passes |
| `auth_liveness` | 2 accounts, 2 attempts, 1 permit, channel of 1, fairness; 36 236 states | passes |
| `enroll_safety` | 2 users, 1 start, 2 poses, 2 models or none named, 2 sessions; 1 348 895 states | passes |
| `enroll_cancel` | 1 user, 2 poses | `CancelDiscards` fails, section 6 |
| `enroll_starts` | 1 user, 2 starts | `OneSessionPerUser` fails, section 6 |
| `worker_serves` | 2 clients of one line each, 7 kinds of line, 3 machines, 2 lives, a queue of one; 408 326 states | passes |
| `worker_model_pin` | the same with a machine whose landmark model was replaced | `LoadsOnlyPinned` fails, section 6 |
| `scan_evidence` | 5 frames out of 11, 4 configurations, 3 engines; 4 777 317 states | passes |
| `settings_page` | 2 acts of the user, 1 outage, 3 machines, a fresh and a used installation; 2 489 524 states | passes |
| `settings_cosmetic` | 2 acts, no outage | `CosmeticStaysCosmetic` fails, section 6 |
| `settings_unread` | 1 act, 1 outage | `UnreadNotSaved` fails, section 6 |
| `wizard` | 2 positions, 2 templates a session, 2 sessions, 1 outage, 2 frames through a pipe of 6; 683 358 states | passes |

Why the bounds are enough. The limiter and the lock are per account, so that
one account shows every interleaving of its attempts; three attempts are one
in the critical section, one queueing and one that comes or goes. The limits 2
and 3 let a limit drop to the current count and below the count that an older
configuration allows; the clamps at 1 and 20 are left to the proofs. One permit
and a channel of one make both run out at once. Two accounts are needed where
they compete, for permits and for the channel: `auth_liveness`. Three attempts
are interchangeable and TLC treats them so (`Symmetry`). The four evidences of
`auth_one_user` are one for each thing the verdict depends on: one frame of
each of two faces, a vote of two only while both are enrolled; a scan with one
matching frame; a match that a liveness cue denies; a match under a model other
than that of the stored templates.

In `enroll_safety` two poses overlap in one session or lie in two sessions of
two users, and `MaxSessions` 2 lets a session be replaced while a pose of the
old one is at the camera. `MaxTemplates` 2 and `OtherCap` 1 make the cap on the
other spectrum bite. The numbers in the code are 15 and 12. Enrollment may
stop: once `MaxSessions` ids are used no call is enabled, so deadlock is not an
error in these runs. In the runs of the engine TLC looks for deadlock, but
settings can always change; what excludes attempts that wait for each other
forever is `AttemptsReturn`.

In `worker_serves` two clients are the one served and the one that queues, gives
up, or finds the queue full (`Backlog` 0 holds one connection); their lines are
scans with and without an IR sensor and each kind that needs no camera. One line
per client and two lives let a crash, a stop and a start fall anywhere. The
machines: one in order; a container with half a CPU, without landmarks and with a
driver that broke since the profile was cached; one with a replaced detector.

In `scan_evidence` no frame passes two tests that could hide each other; one
head is turned enough for the planarity tracker and too little for a challenge. Five
frames are one more than the longest story a detector remembers there: a moire
window of three and a hit that leaves it, two blinks (shut, open, shut, open), a
challenge that is posed, missed and met. `MaxClosed` 1 (7 in the code) and
`Window` 1 tick (2.5 s) make a dip and an answer that come too late possible.

In `settings_page` two acts are a change and one that overtakes it, or the
dialog and what follows its answer; one outage is a daemon that goes away, a
worker that does, a camera that is unplugged, a preferences file that cannot be
written or a call that times out. The machines have a handle that streams
nothing, a busy camera, a node behind a gap, two sensors of one name, an emitter
that is off. In `wizard` two positions are a last and one before it; two
sessions, one that was started over; two templates, a session that the first
position fills (`MAX_TEMPLATES` is 15 in the code); a frame of `MaxFrame` 2 and one
of 3 through a capacity of 6 make a frame that is too large and one that is cut off
possible. The wizard may stop in
all these runs (no ids, acts or lines left), so deadlock is not an error there;
a scan always goes on to `Judge`, so in `scan_evidence` it is.

What the properties say, beyond types:

* `OneAttemptPerUser`, `NoJudgementPastLockout`, `FailureBudget`, `CountedOnce`:
  the limiter is exact under concurrency, changing limits and failing scans.
* `RevokedFaceRefused`: an account that has no enabled face left when the scan
  reports is refused, whatever it had when the scan began. Of an account that
  keeps one of several the property says nothing: the vote sees what is left.
* `PermitsConserved`, `AttemptsReturn`: nothing is leaked and nobody waits
  forever, although the engine awaits a bounded channel while it holds a lock
  and a permit.
* `PromiseKept`: `AuthEngine` implements `Lockout`.
* `OwnFacesOnly`, `OneModelPerIdentity`, `EndedStaysEnded`: what is saved is
  one person's, from a session that was still open, and of one model as far as
  the worker named it.
* `CamerasOnlyAsAsked`, `CamerasReleased`: a camera is open only for a line that
  asked for it, in a scan of its spectrum, and is closed again whatever fails.
* `AnsweredInOrder`, `QueueDrains`: the worker answers a client that stays once
  per line, in order, and works off those that left.
* `AutoSpectrum`: the spectrum an auto scan reports, which decides the templates
  that may match, is that of the camera it used.
* `DriversCostSpeedOnly`: no accelerator keeps the worker from starting, although
  it trusts a profile of another day.
* `MoireExact`, `BlinksExact`, `ChallengeEarned`, `AttentionMeasured`: each
  detector, which works with counters, says what its definition over the whole
  history says. `PlanarityDecides`: depth is never both confirmed and denied.
  `PreviewTold`: the app's picture of a pose is that of the last frame.
* `CacheWasHeld`: what the next save starts from is a configuration the daemon
  has had, also after a refused, failed or overtaken call; it may be an old one,
  as after a restart that brought an older file back, which no property excludes.
  `NewestIsShown`: the same of refreshes.
* `ProtectedGranted`: the daemon only runs with protected settings it was found
  with or an administrator agreed to. That a save authorised as cosmetic changes
  none is false (`CosmeticStaysCosmetic`, section 6); what it can do is bring
  back some that were in force before.
* `HeavyConfirmed`: a confirmation kept in a flag across a callback is used once.
* `PlanSound`: whatever is plugged in, pinned or wished for, a plan uses sensors
  that exist and are what it takes them for.
* `FramesWhole`: however the pipe cuts the bytes up, frames come out whole.
* `SavedIsComplete`: no face is saved with a position missing that the wizard
  asked for, unless its session was full before (section 6). `HonestEnd`: "enrolled"
  is shown only when the session opened last was saved. `ClosedReleases`,
  `NothingAfterClose`: a closed window leaves no session open (of the pipe the
  property says nothing) and sends nothing, although timers and replies still
  come. `NeverStuck`: the user always has something to press.

## 4. Fairness

Three runs assume any.

`auth_liveness`: `Deliver` is weakly fair: the task that takes
events from the channel runs as long as the daemon does (`drain` replaces it
when there is no bus). An attempt's own steps are strongly fair: tokio's
`Mutex`, `Semaphore` and `mpsc` serve their waiters in FIFO order, so that a
waiter that could go again and again does go; the model lets any waiter go and
strong fairness stands for the queue. A scan ends because `Worker::scan` has a
budget; the model does not say when. Attempts never have to begin, settings
need not change, and a lockout need not end.

`worker_serves`: the worker's thread runs (`Worker` is weakly fair; the model lets
a scan end at any time, and `ScanConfig.timeout_s` makes it end), and a call of
the daemon ends, because `Worker::scan` and `call` wait for each line only so
long (`Close`). Nobody has to connect, write, start, stop or crash.

`wizard`: GTK's main loop dispatches what is ready (`Replies`, `CaptureNext`,
`Finish`), and a call that is not answered times out after the time the client
gives it (`TimesOut`). The daemon need not do anything and neither need the user.

## 5. The proofs

Checked by `tlapm` to the last leaf, for every value of the constants that
satisfies the assumption of its module (`AuthAssumption`: at least one permit
and a place in the channel, finitely many attempts, well-formed configurations
and evidence; `EnrollAssumption`: positive bounds, well-formed camera
settings; `ModelsAssumption` and `WorkerAssumption`: every machine is one that
`hardware.py` can meet (`IsMachine`: a CPU at least, whatever the files of the
cgroup and the environment hold), every line one of the kinds of the protocol;
`ScanAssumption`: frames are what the image processing can say of one
(`IsFrame`), with a moire score, an ear or a pose of any integer, requests are
any of `scan.ScanConfig`, zeros included, and a blink takes at least one closed
frame; `SettingsAssumption`: machines with finitely many device nodes, each with
finitely many formats, and installations whose settings are whole, as serde's
defaults make them; `PipeAssumption`: frames of any size, natural numbers for
the limits; `OnboardingAssumption`: at least one pose, and `None` is no number,
session or saved face). Every invariant and every action property that a
passing run checks is stated by one of these theorems.

`AuthEngineProofs`. Types are not inductive alone: that a counter is a number
needs that `snap` holds a configuration when `Record` uses it, and that a
returned permit stays within `Slots` needs that one was out. The invariant
`Inv` adds `LocalsSet` (an attempt under way has its arguments), `GuardHeld`
(past the policy check an attempt holds its user's lock) and `JudgedOnly`
(only verdicts of the matcher are recorded); `PermitsConserved` is inductive
next to it, and the whole, with `AllJudged` and `FailureBudget`, is `IInv`. From
`GuardHeld` mutual exclusion follows in one step, and from
mutual exclusion that nobody but the clock touches a limiter entry between
check and record, which is what `NoJudgementPastLockout`, `CountedOnce` and the
refinement of `Lockout` rest on. `FailureBudget` is proved from
`NoJudgementPastLockout`: a strike happens only while the gate is open, so that
it starts below some limit.

`EnrollmentProofs`. The invariant is `Collected`: what a session holds carries
its owner and its model. No fact about a pose's past is needed, because
`PosePushes` asks `Owned` again; that is the proof that the second look at the
session is what makes overlapping poses safe. `EndedEnded` rests on ids being
handed out once.

`VisionWorkerProofs`. `Logged` is what makes `AnsweredInOrder` inductive: the
events a client was sent are about lines it wrote, in order, each line up to
`done` has been answered once and none after it, and each answer is truthful
(`AutoSpectrum` over the whole wire). That an answer is about the line being
handled needs `Waiting` (nobody waits twice, and nobody waits again who was
served) and `Serving`; that it tells the truth needs `CamerasByStep`, which
cameras are open at which stage of `_handle_scan`, and `AutoDecided`, that an
auto scan past the meter has a spectrum of its own. `CamerasOnlyAsAsked` is
`CamerasByStep` and `ScanLine`. `ProcessTyped` is what `hardware.json` and an
engine can hold: a cached profile is trusted, so that `DriversCostSpeedOnly`
needs that whatever was cached, by whichever machine, was well formed.
`FewThreads` bounds the threads where neither the environment nor a test says
otherwise. `OnlyLandmarksUnpinned` completes the refuted `LoadsOnlyPinned`: the
path past the checksum in `landmarks.py` is the only one.

`ScanSessionProofs`. The detectors forget, and the properties speak about
everything they saw; each part of the invariant says what a counter still knows
of the history. `Windowed`: the queue holds the last observations of a growing
sequence and `hits` is the number of hits in it, so that pushing one and dropping
one changes the count by what comes and goes. `EyesKept`: `run` counts the dip
the eyes are in (`DipBefore`), and a blink is counted exactly when a frame ends a
dip of the right length, which is when the set of blinks over the whole history
grows by one. `ChallengeKept`: the challenge started from the first pose it was
shown, and passed by a later one in time. `DenyKept` and `ConfirmKept` tie each
cue to what it was raised for, and hold because a veto ends the scan. Counting
over histories of every length needs no induction here: a step appends one
element, and the cardinalities of two sets that differ by that element are
compared.

`CamerasProofs`. `PlansAreSound`: `resolve_plan` makes a sound plan of any set
of cameras, whatever is wished for or pinned. A camera is picked as the least
path among those of the greatest resolution, so that the proof needs that
finite nonempty sets of numbers have least and greatest elements
(`LeastExists` from the well-foundedness of `<`, `GreatestExists` from it and
an upper bound), and that `discover` returns a finite set.

`SettingsAppProofs`. What the window may rely on travels with the calls. The
invariant is `Good` of each call: one that came back as saved carries a
configuration the daemon has had, one that waits to be installed as cosmetic
carries protected settings that were in force when it was compared, and so had
been granted, and one made while the model of
landmarks was missing does not carry Heavy unless that was confirmed; with
`RefreshesHeld` (what a refresh brings was the daemon's) the cache is always
something the daemon had (`CacheWasHeld`) and the rest follows. `OnlyGranted` is
`DaemonHeld`: the configuration in memory and the one on disk, which a restart
brings back, are both granted. `NewestIsShown`
has an invariant of its own: whoever is newest has been shown or is still under
way. `TypeOK` comes last, over `Typed`: what calls and refreshes carry has to be
of a type before the window can take it over, and a plan can only be shown once
`PlansAreSound` says that its devices are numbers.

`PreviewPipeProofs`. `FramesWhole` is about frames that are still bytes, so the
invariant says where each frame not yet shown begins in what the reader has
buffered and the pipe still holds (`Laid`): the first may begin before the
buffer, the last end past it when the daemon left in the middle of it. `AtStage`
ties the reader's stage and what it waits for to where the first of them begins;
`Full` says that nothing is cut off while the daemon writes, which is what lets
the next frame be laid behind the last. A read may go through the loop of
`_on_bytes` any number of times; `TurnsExist` and `PiecesKeep` carry the invariant
through them by a minimal counterexample in the naturals (`Upwards`), since the
library's induction theorems take an operator. `OnboardingProofs` shows that each
step of the wizard and of its daemon is a step of the pipe or leaves it alone
(`PipeSteps`), and has `FramesArrive` from that.

`OnboardingProofs`. `SavedIsComplete` is not inductive by far: that a finish
call finds every pose rests on the session not being captured into, cancelled
or finished by another call meanwhile. `OneThing` says that the wizard awaits at
most one pose, one end or one timer, and none while a card or a retry button is
up; `Current`, that what it awaits is of the session and the index it shows;
`Abandoned`, that a session with a call the wizard gave up on is one it leaves;
`Apart`, that no session has a pose and a finish call at once, and that the
current one is not being cancelled. Over these, `Progress` (the session has the
poses behind the index, or is full) is kept, because a session only grows and a
full one stays full, and becomes `Whole` (what a finish call
will find) when the last timer fires. `Released` and `Forgets` carry
`ClosedReleases` and `NothingAfterClose`. `HonestEnd` needs `Newest` (there is one
session at most, the last that was opened, and every call that is waited for is
of it) and `Honest` (what came back as saved was that session, and once the end is
shown nothing is begun any more).

Left to TLC are the liveness properties `AttemptsReturn`, `QueueDrains`,
`CamerasReleased` and `NeverStuck`: fairness is out of the prover's reach. The
invariants the proofs use were checked with TLC on the instances of the runs
before they were proved, all but `PipeInv`, which speaks of the existence of a
function into the integers and cannot be enumerated.

## 6. Where code and comments differ

* **A cancel in the middle of a pose** (`enroll_cancel`). `enroll_pose` looks at
  `cancelled` after the first scan (427-435) and not at the push (505-560). A
  cancel during the second scan clears the session, and the push fills it
  again; `finish_enrollment` does not look at `cancelled` either. The comment of
  `cancel_enrollment` promises that every embedding is discarded.
* **Two starts at once** (`enroll_starts`). The map is unlocked between clearing
  and inserting (302, 310).
* **A landmark model that fails its checksum** (`worker_model_pin`).
  `resolve_optional` refuses it, as `models.py` promises, and `FaceMesh`, which
  gets no path then, finds and loads the file of that name itself
  (`landmarks.py` 278, 305-327).
* **A page that could not be read is saved** (`settings_unread`). The warning
  says settings cannot be saved (`main.py` 617); the guard of
  `on_setting_changed` (2056) knows `None` and not the empty dictionary that a
  failed refresh leaves, and what is sent without a key becomes its default.
* **A cosmetic save that waits** (`settings_cosmetic`). `set_settings` compares
  protected keys before the question to polkit (`dbus.rs` 622-625) and installs
  the whole configuration after it (634-639). A save that differed in nothing
  protected and waits there overwrites a protected change that an administrator
  agreed to meanwhile, although its comment (618-621) says that the comparison
  keeps protected keys out of the weaker action.

Met while modelling, in the models, without a run of their own:

* `enroll_tag(.., "rgb")` never returns ANY, so that the branch that forces the
  intended tag of a second scan (`enroll.rs` 530-541) is never taken; an IR scan
  without a report is kept as RGB.
* `push_tagged` stops at `MAX_TEMPLATES`, and `enroll_pose` reports a pose complete
  whenever its scan found a face (`enroll.rs` 116, 551-558). With nine positions of
  several embeddings in two spectra a session fills up before the last, and the
  face is saved without a template of the later ones. The comment at 463 means the
  cap of 12 on the second spectrum to keep the total below it.
* A change of "enabled" goes to the PAM profile and then to the settings: two
  quick toggles may arrive in either order and leave the daemon enabled when the
  page says disabled, or the PAM profile and the settings apart.
* A plan computed by a refresh before the user chose another camera mode is sent
  after it (`_apply_refresh`), and wins.
* `_auto_tune` sets the strictness to "light" whatever it was (`main.py` 2279);
  `auto_tune.py` 6 says tuning never weakens silently.
* A `prefs.json` that cannot be written is no error, and the next refresh, which
  reads the file, undoes the choice on the page.
* A profile in `hardware.json` keeps the thread count of the machine it was made
  on; the model's worker starts with it after the container shrank.
* In mode "ir" with both devices the RGB camera is passed to the scan as
  `ir_camera` (`__main__.py` 174-194, `scan.py` 273-278): the IR check then looks
  at an RGB picture.
* Another client that takes the user's session away makes a pose end as
  "cancelled", for which the wizard shows neither a card nor a button
  (`onboarding.py` 845); `NeverStuck` excepts `taken`.
* The app waits 30 s for `FinishEnrollment` and the user may type the password
  for longer: an error card, and then the face is saved. `StartEnrollment` that
  takes longer than 20 s leaves a session that nobody cancels; `ClosedReleases`
  excepts `lost`. When `ListPoses` fails the wizard enrolls one position.
* A frame over 256 KiB, or a pipe that is full once, ends the preview for good.

Met outside of what the models hold:

* `_enough` in `scan.py` stops "only when nothing more can change the outcome";
  in light mode it stops at enough embeddings, and a later frame might have
  shown a veto.
* `Gio.UnixInputStream` owns the preview's descriptor, and `Enrollment.close`
  closes the same number again later, when it may be another file's. Closing the
  stream with a read pending fails, so the read end may stay open until the
  daemon closes its own.
* `on_enroll` says there is no usable camera when the plan's mode is "auto"
  (`main.py` 2339-2350).
* In `openings.py`, a deletion that is undone restores an entry without its
  directory; a package of the same id then replaces it without the confirmation
  that `install_package` (404-408) describes. Two writers of the library use one
  temporary file and save what they read, so that an install during an edit is
  lost although its toast says it is active.

## 7. Not modelled

* The auth socket and the PAM module: the login path, first in the plan.
* `SetIdentityEnabled`, `DeleteIdentity`, TestScan and camera-test previews of
  the D-Bus object, its own `Enroll` (`dbus.rs` 142-279), which scans and saves in
  one call without a session, the files of the template store, encryption.
* The openings library, the camera test window, the desktop animation, the pill
  and its guard. Nothing they do reaches a decision about a login; the pill's
  ordering and liveness are planned.
* In the wizard the ring, the labels and the progress signal, which only moves
  them (`_on_progress` does not look at the session it is told of).
* `permits` of `fuse.py` and the `Voter` of `matching.py`, Python copies of the
  daemon's decision that only tests call.
* Image processing and the numbers behind it, drivers and format negotiation,
  drawing, log formats, packaging. Polkit and D-Bus deliver answers and calls
  that the models choose freely. Nothing is said about how well faces are told
  apart.

## 8. The plan

Done: the engine, the limiter and `Lockout`; enrollment; the vision worker, its
models and one scan; the settings window with cameras and preferences; the
wizard with its pipe; all with the proofs of their safety properties. Next, in
order of what matters most to the system:

1. `LoginPath`: the PAM client, the socket and its permits, with the engine
   behind them as `Lockout` sees it. A late answer, a closed client, an idle
   client, a queue at the socket. Promise: `PAM_SUCCESS` only for a request the
   engine accepted; the client always returns.
2. The template store: save, load, delete, the key file, crashes between their
   steps; `set_identity_enabled` against deletion and finish; TestScan with its
   limiter and permits, previews.
3. `ScanFeed`: events of overlapping scans through the channel, the filter of
   terminal states and the phases of the pill with discrete time.
4. The budget per line of `read_reply` composed with `VisionWorker`.
