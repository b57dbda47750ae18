---------------------------- MODULE ScanSession ----------------------------
(***************************************************************************)
(* ScanEngine.scan of vision/faceid_vision/scan.py: one scan, frame by     *)
(* frame, and the windows and counters that turn frames into evidence: the *)
(* moire window, the blink detector, the planarity tracker, the challenge  *)
(* and the preview of an enrollment.                                       *)
(*                                                                         *)
(* A frame is what the image processing says of it:                        *)
(*   face     a face was found              flaws   what assess objects to *)
(*   screen   hard screen cues              moire   the moire score        *)
(*   spoof    percent the anti-spoof model gives, or None: it failed       *)
(*   crop     it can be aligned and embedded                               *)
(*   ir       what the IR sensor measures of it: [lum, contrast]           *)
(*   dense    dense landmarks were found, with                             *)
(*   ear      the eye aspect ratio, in hundredths                          *)
(*   yaw, pitch  the pose, in hundredths                                   *)
(*   resid    the planarity residual against the reference frame: 0 flat,  *)
(*            1 neither, 2 solid, None: no homography fits                 *)
(***************************************************************************)
EXTENDS Integers, Sequences, FiniteSets, SequencesExt

CONSTANTS
    Frames,        \* what a camera may show
    RawConfigs,    \* the requests' configurations: see PostInit
    Gears,         \* what an engine may have: [mesh, irCamera, antispoof]
    MinClosed, MaxClosed,   \* frames a blink may last (1 and 7)
    Window,        \* ticks a challenge may take (2.5 s)
    MaxFrames,     \* bound: frames of a scan
    None

\* Thresholds of BlinkDetector and the tail of eyes_open.
ClosedThr == 20
OpenThr   == 25
Tail5     == 5
MoireThreshold == 20
DenyPercent    == 70    \* PassiveAntiSpoof.deny_threshold
MinPoseDelta == 10    \* of PlanarityTracker
YawDelta   == 16      \* of ChallengeRunner
PitchDelta == 14
DarkLum == 35
MinContrast == 18

Challenges == {"turn_left", "turn_right", "look_up", "blink_twice"}

\* What a request may ask of a scan.
Configs == [mode : {"rgb", "ir", "both", "hybrid"}, strict : {"off", "light", "heavy"},
            challenge : BOOLEAN, preview : BOOLEAN, minEmbeddings : Nat, maxEmbeddings : Nat,
            embedEvery : Nat, moireFrames : Nat, moireRequired : Nat]

BadPostInit(raw) ==
    LET Or(x, default) == IF x = 0 THEN default ELSE x IN
    [raw EXCEPT !.maxEmbeddings = Or(@, 1), !.minEmbeddings = Or(@, 1),
                !.embedEvery = Or(@, 1), !.moireFrames = Or(@, 5),
                !.moireRequired = Or(@, 3)]

\* ScanConfig.__post_init__: zero means the default, and no more moire hits
\* are required than the window holds.
PostInit(raw) ==
    LET Or(x, default) == IF x = 0 THEN default ELSE x
        n == Or(raw.moireFrames, 5)
        k == Or(raw.moireRequired, 3)
    IN  [raw EXCEPT !.maxEmbeddings = Or(@, 1),
                    !.minEmbeddings = Or(@, 1),
                    !.embedEvery    = Or(@, 1),
                    !.moireFrames   = n,
                    !.moireRequired = IF k > n THEN n ELSE k]

\* What the image processing can say of a frame.
IsFrame(f) ==
    /\ {f.face, f.crop, f.dense} \subseteq BOOLEAN
    /\ f.screen \subseteq {"glare", "device_frame"}
    /\ f.moire \in Int /\ f.spoof \in Nat \cup {None}
    /\ f.ir \in [lum : Int, contrast : Int]
    /\ f.ear \in Int /\ f.yaw \in Int /\ f.pitch \in Int
    /\ f.resid \in 0..2 \cup {None}

ASSUME ScanAssumption ==
    /\ MinClosed \in Nat \ {0} /\ MaxClosed \in Nat /\ MinClosed <= MaxClosed
    /\ Window \in Nat /\ MaxFrames \in Nat
    /\ None \notin Int /\ None \notin Challenges
    /\ \A f \in Frames : IsFrame(f)
    /\ Gears \subseteq [mesh : BOOLEAN, irCamera : BOOLEAN, antispoof : BOOLEAN]
    /\ RawConfigs \subseteq Configs

VARIABLES
    cfg,       \* the configuration of this scan
    gear,      \* what the engine has: [mesh, irCamera, antispoof]
    pc,        \* "run", or how it ended: "enough", "time", "camera" or "worker"
               \* (a camera that failed, an exception)
    clock,     \* ticks since the scan began
    frames, usable, embeddings,   \* the counters of ScanResult
    moireQ, hits,                 \* _MoireWindow
    eyes,      \* BlinkDetector: [blinks, run, closed, history]
    planar,    \* PlanarityTracker: [ref, best], best the largest residual
    chal,      \* ChallengeRunner: [kind, t0, yaw, pitch, blinks, passed]
    deny, confirm, attention,     \* LivenessState
    told,      \* the pose_status events sent
    shown,     \* PreviewState.last_status
    moires,    \* history: the moire observations of all usable RGB frames
    poses      \* history: what the challenge was shown, from its start on

vars == <<cfg, gear, pc, clock, frames, usable, embeddings, moireQ, hits, eyes,
          planar, chal, deny, confirm, attention, told, shown, moires, poses>>

-----------------------------------------------------------------------------
(* The moire window.                                                       *)

BadPush(hit) ==
    LET q == Append(moireQ, hit) IN
    /\ moireQ' = IF Len(q) > cfg.moireFrames THEN Tail(q) ELSE q
    /\ hits' = hits + (IF hit THEN 1 ELSE 0)

\* _MoireWindow.push: the hit that falls out of the window is taken off.
Push(hit) ==
    LET q == Append(moireQ, hit)
        full == Len(q) > cfg.moireFrames
    IN  /\ moireQ' = IF full THEN Tail(q) ELSE q
        /\ hits' = hits + (IF hit THEN 1 ELSE 0)
                        - (IF full /\ Head(q) THEN 1 ELSE 0)

-----------------------------------------------------------------------------
(* BlinkDetector: a dip below one threshold that comes back above another. *)

BadBlink(e, ear) ==
    [e EXCEPT !.history = Append(@, ear),
              !.run     = IF ear < ClosedThr THEN @ + 1 ELSE @,
              !.closed  = IF ear < ClosedThr THEN TRUE ELSE ear <= OpenThr /\ @,
              !.blinks  = IF ear > OpenThr /\ e.closed /\ e.run \in MinClosed..MaxClosed
                          THEN @ + 1 ELSE @]

Blink(e, ear) ==
    LET shuts == ear < ClosedThr
        opens == ear > OpenThr /\ e.closed
    IN  [history |-> Append(e.history, ear),
         run     |-> IF shuts THEN e.run + 1 ELSE IF opens THEN 0 ELSE e.run,
         closed  |-> (shuts \/ e.closed) /\ ~opens,
         blinks  |-> IF opens /\ e.run \in MinClosed..MaxClosed
                     THEN e.blinks + 1 ELSE e.blinks]

Least(a, b) == IF a < b THEN a ELSE b

\* The tail of the history, and its sum.
Measured(h) == Least(Len(h), Tail5)
Ago(h, k)   == IF k < Len(h) THEN h[Len(h) - k] ELSE 0
TailSum(h)  == Ago(h, 0) + Ago(h, 1) + Ago(h, 2) + Ago(h, 3) + Ago(h, 4)

BadEyesOpen(h) == TailSum(h) > OpenThr * Measured(h)

\* eyes_open: the mean of the last five measurements; unknown is not closed.
EyesOpen(h) == h = <<>> \/ TailSum(h) > OpenThr * Measured(h)

-----------------------------------------------------------------------------
(* PlanarityTracker and ChallengeRunner.                                   *)

Abs(n) == IF n < 0 THEN -n ELSE n

\* The first frame is the reference; only a turned head is compared with it,
\* and only a residual that is a number counts.
Planar(p, f) ==
    IF p.ref = None THEN [p EXCEPT !.ref = f.yaw]
    ELSE IF Abs(f.yaw - p.ref) < MinPoseDelta \/ f.resid = None THEN p
    ELSE [p EXCEPT !.best = IF f.resid > @ THEN f.resid ELSE @]

Confirms(p) == p.best = 2
Denies(p)   == p.best = 0

StartChallenge(c, f, blinks, now) ==
    [c EXCEPT !.t0 = now, !.yaw = f.yaw, !.pitch = f.pitch, !.blinks = blinks]

Met(c, yaw, pitch, blinks) ==
    CASE c.kind = "turn_left"   -> yaw - c.yaw <= -YawDelta
      [] c.kind = "turn_right"  -> yaw - c.yaw >= YawDelta
      [] c.kind = "look_up"     -> pitch - c.pitch <= -PitchDelta
      [] c.kind = "blink_twice" -> blinks - c.blinks >= 2

BadUpdateChallenge(c, f, blinks, now) ==
    [c EXCEPT !.passed = @ \/ Met(c, f.yaw, f.pitch, blinks)]

\* ChallengeRunner.update: once passed it stays passed; too late is too late.
UpdateChallenge(c, f, blinks, now) ==
    [c EXCEPT !.passed = @ \/ (now - c.t0 <= Window /\ Met(c, f.yaw, f.pitch, blinks))]

-----------------------------------------------------------------------------
(* The preview of an enrollment.                                           *)

\* assess objects to the first flaw it finds.
Usable(f) == f.face /\ f.flaws = {}

StatusFor(f) == IF Usable(f) THEN "good" ELSE "acquiring"

BadPreview(f) ==
    /\ told' = IF cfg.preview /\ StatusFor(f) # shown
               THEN Append(told, StatusFor(f)) ELSE told
    /\ UNCHANGED shown

\* preview_events: a status is sent when it differs from the last one.
Preview(f) ==
    IF cfg.preview /\ StatusFor(f) # shown
    THEN told' = Append(told, StatusFor(f)) /\ shown' = StatusFor(f)
    ELSE UNCHANGED <<told, shown>>

-----------------------------------------------------------------------------
(* The cues of a usable frame.                                             *)

\* _moire: the peak of the spectrum over its median.
MoireHit(f) == f.moire >= MoireThreshold

\* PassiveAntiSpoof.denies: a model that is missing or fails denies nothing.
AntispoofDenies(f) == gear.antispoof /\ f.spoof # None /\ f.spoof > DenyPercent

\* analyse_ir_face, with a dead band between screen and skin.
ScreenDark(ir)     == ir.lum < DarkLum - 10 \/ ir.contrast < MinContrast - 6
SkinResponseOk(ir) == ~ScreenDark(ir) /\ ir.lum >= DarkLum /\ ir.contrast >= MinContrast

\* _collect_deny_cues. The screen cues are tuned to RGB frames; the IR check
\* looks at the secondary camera, or in mode "ir" without one at this frame.
IrChecked == cfg.mode = "ir" \/ (cfg.mode \in {"both", "hybrid"} /\ gear.irCamera)

DenyCues(f) ==
    (IF cfg.mode # "ir"
     THEN f.screen \cup (IF hits' >= cfg.moireRequired THEN {"moire"} ELSE {})
     ELSE {})
    \cup (IF AntispoofDenies(f) THEN {"antispoof_model"} ELSE {})
    \cup (IF IrChecked /\ ScreenDark(f.ir) THEN {"ir_screen_dark"} ELSE {})
    \cup (IF Denies(planar') THEN {"planar_photo"} ELSE {})

ConfirmCues(f) ==
    (IF IrChecked /\ SkinResponseOk(f.ir) THEN {"ir_skin"} ELSE {})
    \cup (IF eyes'.blinks > 0 THEN {"blink"} ELSE {})
    \cup (IF Confirms(planar') THEN {"parallax"} ELSE {})
    \cup (IF chal'.passed THEN {"challenge"} ELSE {})

Dense(f) == gear.mesh /\ f.dense

\* _collect_confirm_cues
Landmarks(f) ==
    IF Dense(f)
    THEN eyes' = Blink(eyes, f.ear) /\ planar' = Planar(planar, f)
    ELSE UNCHANGED <<eyes, planar>>

Challenge(f) ==
    IF ~cfg.challenge \/ ~Dense(f) THEN UNCHANGED <<chal, poses>>
    ELSE /\ chal' = IF chal.t0 = None
                    THEN StartChallenge(chal, f, eyes'.blinks, clock')
                    ELSE UpdateChallenge(chal, f, eyes'.blinks, clock')
         /\ poses' = Append(poses, [t |-> clock', yaw |-> f.yaw, pitch |-> f.pitch,
                                    blinks |-> eyes'.blinks])

\* At most maxEmbeddings, one in every embedEvery usable frames; a frame that
\* cannot be aligned or embedded is skipped.
Embed(f) ==
    embeddings' = IF /\ usable' % cfg.embedEvery = 0
                     /\ embeddings < cfg.maxEmbeddings
                     /\ f.crop
                  THEN embeddings + 1 ELSE embeddings

BadEnough ==
    /\ embeddings' >= cfg.minEmbeddings
    /\ cfg.strict = "heavy" => confirm' # {}

\* ScanResult.error, when the scan is over.
Error == CASE pc = "camera" -> "camera_unavailable"
           [] pc = "worker" -> "worker_error"
           [] OTHER -> IF embeddings = 0 THEN "no_usable_face" ELSE None

\* _enough: a veto ends the scan, or enough embeddings and what heavy needs.
Enough ==
    \/ deny' # {}
    \/ /\ embeddings' >= cfg.minEmbeddings
       /\ cfg.strict = "heavy" => confirm' # {}

-----------------------------------------------------------------------------
Init ==
    /\ \E raw \in RawConfigs : cfg = PostInit(raw)
    /\ gear \in Gears
    /\ pc = "run" /\ clock = 0
    /\ frames = 0 /\ usable = 0 /\ embeddings = 0
    /\ moireQ = <<>> /\ hits = 0
    /\ eyes = [blinks |-> 0, run |-> 0, closed |-> FALSE, history |-> <<>>]
    /\ planar = [ref |-> None, best |-> -1]
    /\ \E k \in IF cfg.challenge THEN Challenges ELSE {None} :
         chal = [kind |-> k, t0 |-> None, yaw |-> 0, pitch |-> 0, blinks |-> 0,
                 passed |-> FALSE]
    /\ deny = {} /\ confirm = {} /\ attention = TRUE
    /\ told = <<>> /\ shown = "acquiring"
    /\ moires = <<>> /\ poses = <<>>

\* camera.frames hands over the next frame.
Arrives(f) ==
    /\ pc = "run" /\ frames < MaxFrames
    /\ frames' = frames + 1
    /\ \E dt \in (IF chal.t0 = None THEN {0} ELSE {0, 1}) : clock' = clock + dt
    /\ Preview(f)
    /\ UNCHANGED <<cfg, gear, attention>>

\* No face, or one of no use: the evidence is not touched.
Skip(f) ==
    /\ Arrives(f) /\ ~Usable(f)
    /\ UNCHANGED <<pc, usable, embeddings, moireQ, hits, eyes, planar, chal,
                   deny, confirm, moires, poses>>

\* What is collected of a usable frame before it is embedded.
Collect(f) ==
    /\ usable' = usable + 1
    /\ IF cfg.mode # "ir" THEN Push(MoireHit(f)) /\ moires' = Append(moires, MoireHit(f))
                          ELSE UNCHANGED <<moireQ, hits, moires>>
    /\ deny' = deny \cup DenyCues(f)
    /\ confirm' = confirm \cup ConfirmCues(f)

Use(f) ==
    /\ Arrives(f) /\ Usable(f)
    /\ Landmarks(f) /\ Challenge(f) /\ Collect(f)
    /\ Embed(f)
    /\ pc' = IF Enough THEN "enough" ELSE "run"

\* The screen checks, the homography or the recogniser raise in the middle of
\* a frame: what was collected before that stays.
Breaks(f) ==
    /\ Arrives(f) /\ Usable(f)
    /\ pc' = "worker"
    /\ UNCHANGED embeddings
    /\ \/ /\ usable' = usable + 1
          /\ UNCHANGED <<moireQ, hits, eyes, planar, chal, deny, confirm, moires, poses>>
       \/ /\ Dense(f) /\ eyes' = Blink(eyes, f.ear)
          /\ UNCHANGED <<planar, chal, poses>>
          /\ Collect(f)
       \/ Landmarks(f) /\ Challenge(f) /\ Collect(f)

\* The detector raises before the frame is looked at.
Raises ==
    /\ pc = "run" /\ frames < MaxFrames
    /\ frames' = frames + 1 /\ pc' = "worker"
    /\ UNCHANGED <<cfg, gear, clock, usable, embeddings, moireQ, hits, eyes, planar,
                   chal, deny, confirm, attention, told, shown, moires, poses>>

Ends(how) ==
    /\ pc = "run"
    /\ pc' = how
    /\ UNCHANGED <<cfg, gear, clock, frames, usable, embeddings, moireQ, hits, eyes,
                   planar, chal, deny, confirm, attention, told, shown, moires, poses>>

Timeout     == Ends("time")
CameraFails == Ends("camera")

\* The last lines of scan: attention is judged once, from what was measured.
Judge ==
    /\ pc # "run"
    /\ attention' = (gear.mesh => EyesOpen(eyes.history))
    /\ UNCHANGED <<cfg, gear, pc, clock, frames, usable, embeddings, moireQ, hits, eyes,
                   planar, chal, deny, confirm, told, shown, moires, poses>>

Next == (\E f \in Frames : Skip(f) \/ Use(f) \/ Breaks(f)) 
        \/ Raises \/ Timeout \/ CameraFails \/ Judge

Spec == Init /\ [][Next]_vars

-----------------------------------------------------------------------------
(* What a scan promises.                                                   *)

Cues == {"glare", "device_frame", "moire", "antispoof_model", "ir_screen_dark", "planar_photo"}
Confirmations == {"ir_skin", "blink", "parallax", "challenge"}

\* Every variable keeps its type, and no counter overtakes what it counts.
TypeOK ==
    /\ pc \in {"run", "enough", "time", "camera", "worker"}
    /\ embeddings <= usable \div cfg.embedEvery /\ usable <= frames /\ frames <= MaxFrames
    /\ embeddings <= cfg.maxEmbeddings
    /\ cfg.moireRequired \in 1..cfg.moireFrames
    /\ moireQ \in Seq(BOOLEAN) /\ hits \in 0..Len(moireQ)
    /\ eyes.blinks \in Nat /\ eyes.run \in Nat /\ eyes.closed \in BOOLEAN
    /\ planar.best \in -1..2
    /\ chal.kind \in Challenges \cup {None} /\ chal.passed \in BOOLEAN
    /\ deny \subseteq Cues /\ confirm \subseteq Confirmations
    /\ attention \in BOOLEAN /\ shown \in {"acquiring", "good"}

\* One flickering frame is no replay: the moire veto stands exactly when
\* moireRequired of the last moireFrames usable RGB frames were hits, however
\* many frames the window has dropped.
MoireExact ==
    LET n == Len(moires)
        window == (n - Least(n, cfg.moireFrames) + 1)..n
        seen == Cardinality({i \in window : moires[i]})
    IN  hits = seen /\ (("moire" \in deny) <=> seen >= cfg.moireRequired)

\* The blinks of a measured history: reopenings whose dip, the closed frames
\* since the eyes were last open, was neither too short nor too long.
BlinksOf(h) ==
    Cardinality({k \in 1..Len(h) :
        /\ h[k] > OpenThr
        /\ Cardinality({j \in 1..(k-1) :
              h[j] < ClosedThr /\ \A i \in j..(k-1) : h[i] <= OpenThr})
           \in MinClosed..MaxClosed})

\* A squint, a sleeper and noise between the thresholds are no blinks, and the
\* blink that confirms a scan is one of those that were measured.
BlinksExact ==
    /\ eyes.blinks = BlinksOf(eyes.history)
    /\ ("blink" \in confirm) <=> eyes.blinks > 0

\* A passed challenge was answered: after it was posed, and within its window,
\* the head or the eyes did what was asked, relative to where they were.
ChallengeEarned ==
    "challenge" \in confirm =>
        \E i \in 2..Len(poses) :
          /\ poses[i].t - poses[1].t <= Window
          /\ CASE chal.kind = "turn_left"   -> poses[i].yaw < poses[1].yaw
               [] chal.kind = "turn_right"  -> poses[i].yaw > poses[1].yaw
               [] chal.kind = "look_up"     -> poses[i].pitch < poses[1].pitch
               [] chal.kind = "blink_twice" -> poses[i].blinks > poses[1].blinks + 1

\* "Only a measured closed eye may veto": a scan that saw no landmarks, in the
\* dark or without the model, says nothing against the user's attention.
AttentionMeasured ==
    ~attention => \E i \in 1..Len(eyes.history) :
                     i > Len(eyes.history) - Tail5 /\ eyes.history[i] <= OpenThr

\* One scan never both confirms depth and denies it: the verdict of the
\* tracker may change with the next frame, the evidence sent may not.
PlanarityDecides == ~("planar_photo" \in deny /\ "parallax" \in confirm)

\* The app's picture of the pose is that of the last frame: a status is sent
\* for every change, and the last one sent is right.
PreviewTold ==
    [][cfg.preview /\ frames' > frames /\ pc' # "worker" =>
         Last(<<"acquiring">> \o told') = IF usable' > usable THEN "good" ELSE "acquiring"]_vars
=============================================================================
