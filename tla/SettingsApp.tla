---------------------------- MODULE SettingsApp -----------------------------
(***************************************************************************)
(* The settings window of the app (app/faceid_app/main.py) and the part of *)
(* the daemon it talks to (SetSettings, GetSettings, SetPamEnabled and     *)
(* Diagnostics of dbus.rs, Config of config.rs), and the file the window    *)
(* keeps its own preferences in (prefs.py).                                *)
(*                                                                         *)
(* The window runs on GTK's main loop: a handler is one action.  It loads  *)
(* in threads (refresh) and calls the daemon asynchronously; the daemon    *)
(* serves calls side by side and asks the user for authorisation in the    *)
(* middle of one.  A configuration is a function of Keys; what the app     *)
(* holds or sends may have fewer keys, and serde fills in the defaults.    *)
(* "tau" stands for every key the window does not show, "timeline" for the *)
(* shown ones that need no administrator.                                  *)
(***************************************************************************)
EXTENDS Cameras, Sequences

CONSTANTS
    Home,          \* the machine at first: a function from node numbers, see Cameras
    Machines,      \* what plugging and unplugging makes of it
    Landmarks,     \* may the worker have its landmark model: a subset of BOOLEAN
    Installed,     \* beyond a fresh start: configurations of the daemon, each with
                   \* the preferences file found with it
    MotionOk,      \* does the desktop ask for animations: a subset of BOOLEAN
    Wishes,        \* the camera modes a user tries
    Pins,          \* the nodes a user types
    MaxActs, MaxOutages   \* bounds: what the user does, what goes wrong

Keys == {"enabled", "strictness", "timeline", "tau", "mode", "camera", "ir_camera"}

\* Config: what serde accepts for each key.
Configs == [enabled : BOOLEAN, strictness : {"off", "light", "heavy"}, timeline : BOOLEAN,
            tau : {"default", "measured", "rgb", "ir"},
            mode : {"rgb", "ir", "both", "hybrid", "auto"},
            camera : Nat \cup {None}, ir_camera : Nat \cup {None}]

\* impl Default for Config
Defaults == [enabled |-> FALSE, strictness |-> "light", timeline |-> FALSE,
             tau |-> "default", mode |-> "rgb", camera |-> 0, ir_camera |-> None]

Empty == [k \in {} |-> None]

\* A dictionary g after g.update(f).
Over(f, g) == [k \in DOMAIN f \cup DOMAIN g |-> IF k \in DOMAIN f THEN f[k] ELSE g[k]]

\* The preferences, and what each of them may be.
DefaultPrefs == [camera_mode |-> "auto", rgb_dev |-> None, ir_dev |-> None,
                 animations_enabled |-> TRUE]

Sound(k, v) ==
    CASE k = "camera_mode"        -> v \in {"auto", "ir", "rgb", "hybrid"}
      [] k = "animations_enabled" -> v \in BOOLEAN
      [] OTHER                    -> v \in Nat \cup {None}

\* load: a preference the file does not name, or gives a value it cannot have,
\* is the default's.  A file that is not there or cannot be read names none.
LoadPrefs(file) ==
    Over([k \in DOMAIN file |-> IF Sound(k, file[k]) THEN file[k] ELSE DefaultPrefs[k]],
         DefaultPrefs)

HasUserValue(file, k) == k \in DOMAIN file

BadParsed(s) == [k \in Keys |-> IF k \in DOMAIN s THEN s[k] ELSE None]

\* #[serde(default)]: what the JSON does not name is the default's.
Parsed(s) == Over(s, Defaults)

BadProtectedChanged(a, b) == {k \in {"enabled", "tau"} : a[k] # b[k]}

\* protected_settings_changed
ProtectedChanged(a, b) == {k \in {"enabled", "strictness", "tau"} : a[k] # b[k]}

Protected(c) == [enabled |-> c.enabled, strictness |-> c.strictness, tau |-> c.tau]

ASSUME SettingsAssumption ==
    /\ Home \in Machines
    /\ \A m \in Machines :
         /\ DOMAIN m \subseteq Nat /\ IsFiniteSet(DOMAIN m)
         /\ \A i \in DOMAIN m : m[i] # None =>
               IsFiniteSet(m[i].formats) /\ m[i].formats \subseteq [mono : BOOLEAN, area : Nat]
    /\ Landmarks \subseteq BOOLEAN /\ MotionOk \subseteq BOOLEAN
    /\ \A i \in Installed : i.cfg \in Configs /\ DOMAIN i.file \subseteq DOMAIN DefaultPrefs
    /\ Wishes \subseteq {"auto", "rgb", "ir", "hybrid"} /\ Pins \subseteq Nat
    /\ None \notin Nat
    /\ MaxActs \in Nat /\ MaxOutages \in Nat

VARIABLES
    \* the daemon; granted is history, as held is: the protected settings it was
    \* found with and those installed since with an administrator's authorisation
    cfg, disk, pam, up, worker, landmarks, held, granted, calls,
    \* the machine
    nodes,
    \* the window
    cache, widgets, prefs, stored, discovery, landmarksOk, override, dialog, timer,
    warned, generation, applied, refreshes, acts, outages

daemonVars == <<cfg, disk, pam, up, held, granted>>
windowVars == <<cache, widgets, prefs, stored, discovery, landmarksOk, override, dialog, timer, warned>>
vars == <<cfg, disk, pam, up, worker, landmarks, held, granted, calls, nodes, cache,
          widgets, prefs, stored, discovery, landmarksOk, override, dialog, timer, warned,
          generation, applied, refreshes, acts, outages>>

Or(s, k, default) == IF k \in DOMAIN s THEN s[k] ELSE default

\* The widgets, as a configuration and the preferences fill them.
Shown(s, p) == [
             pin        |-> p.rgb_dev,
             enabled    |-> Or(s, "enabled", FALSE),
             strictness |-> Or(s, "strictness", "light"),
             timeline   |-> Or(s, "timeline", FALSE)]

\* What postinst writes on this machine: the rest is the default.
Fresh(ns) ==
    Over(ConfigLines(AutoConfig(None, None, Discover(ns))), [Defaults EXCEPT !.mode = "auto"])

\* What a look at each machine finds, and what the tuning of it suggests.
Found     == [m \in Machines |-> Discover(m)]
Suggested == [m \in Machines |-> HardwareSuggestion(m)]

\* The window reads its file, and on its first run writes there what the
\* desktop says of animations; the write may fail.
OpenWindow(file) ==
    IF HasUserValue(file, "animations_enabled")
    THEN prefs = LoadPrefs(file) /\ stored = file /\ outages = 0
    ELSE \E motion \in MotionOk :
           /\ prefs = [LoadPrefs(file) EXCEPT !.animations_enabled = motion]
           /\ \/ stored = prefs /\ outages = 0
              \/ stored = file /\ outages = 1 /\ MaxOutages > 0

Init ==
    /\ nodes = Home
    /\ \E i \in {[cfg |-> Fresh(nodes), file |-> Empty]} \cup Installed :
         cfg = i.cfg /\ OpenWindow(i.file)
    /\ disk = cfg /\ held = {cfg} /\ granted = {Protected(cfg)} /\ pam = cfg.enabled
    /\ up = TRUE /\ worker = TRUE /\ landmarks \in Landmarks
    /\ calls = {}
    /\ cache = Empty /\ discovery = Empty
    /\ widgets = Shown(Empty, prefs)
    /\ landmarksOk = None /\ override = FALSE /\ dialog = None /\ timer = FALSE
    /\ warned = FALSE
    /\ generation = 1 /\ applied = 0
    /\ refreshes = {[gen |-> 1, stage |-> "started"]}
    /\ acts = 0

-----------------------------------------------------------------------------
(* The daemon: SetSettings asks for authorisation between comparing and     *)
(* installing; SetPamEnabled changes the PAM profile.                       *)

Others == UNCHANGED <<worker, landmarks, nodes, windowVars, generation, applied,
                      refreshes, acts, outages>>

Done(c, ok) == [c EXCEPT !.stage = "done", !.ok = ok, !.secure = FALSE]

Goes(c, d) == calls' = (calls \ {c}) \cup {d}

\* The answer to a call, for which the window may have stopped waiting.
Answer(c, ok) ==
    calls' = (calls \ {c}) \cup (IF c.gone THEN {} ELSE {Done(c, ok)})

\* The protected keys are compared, under the lock; the lock is released.
Ask(c) ==
    /\ up /\ c \in calls /\ c.stage = "sent"
    /\ Goes(c, [c EXCEPT !.stage = "asked",
                         !.secure = c.kind # "set"
                                    \/ ProtectedChanged(cfg, Parsed(c.s)) # {}])
    /\ UNCHANGED daemonVars /\ Others

\* polkit says no, or nobody answers.
Refuse(c) ==
    /\ up /\ c \in calls /\ c.stage = "asked"
    /\ Answer(c, FALSE)
    /\ UNCHANGED daemonVars /\ Others

\* polkit says yes: the configuration is installed, then saved, and a save
\* that fails is an error although the configuration stays installed.
Install(c) ==
    /\ up /\ c \in calls /\ c.stage = "asked" /\ c.kind = "set"
    /\ cfg' = Parsed(c.s) /\ held' = held \cup {cfg'}
    /\ granted' = IF c.secure THEN granted \cup {Protected(cfg')} ELSE granted
    /\ \E saves \in BOOLEAN :
         /\ disk' = IF saves THEN cfg' ELSE disk
         /\ Answer(c, saves)
    /\ UNCHANGED <<pam, up>> /\ Others

PamAuthUpdate(c) ==
    /\ up /\ c \in calls /\ c.stage = "asked" /\ c.kind = "pam"
    /\ \E works \in BOOLEAN :
         /\ pam' = IF works THEN c.s.enabled ELSE pam
         /\ Answer(c, works)
    /\ UNCHANGED <<cfg, disk, up, held, granted>> /\ Others

\* SetIdentityEnabled, DeleteIdentity and DeleteAllData: what they do to the
\* templates is not the window's.
Templates(c) ==
    /\ up /\ c \in calls /\ c.stage = "asked" /\ c.kind = "face"
    /\ \E works \in BOOLEAN : Answer(c, works)
    /\ UNCHANGED daemonVars /\ Others

\* The daemon goes away: whoever waits for it gets an error.
GoDown ==
    /\ up /\ outages < MaxOutages
    /\ up' = FALSE /\ outages' = outages + 1
    /\ calls' = {IF c.stage = "done" THEN c ELSE Done(c, FALSE)
                 : c \in {x \in calls : ~x.gone}}
    /\ UNCHANGED <<cfg, disk, pam, worker, landmarks, held, granted, nodes, windowVars,
                   generation, applied, refreshes, acts>>

\* It starts with what is on the disk (Config::load).
ComeUp ==
    /\ ~up /\ up' = TRUE
    /\ cfg' = disk /\ held' = held \cup {disk}
    /\ UNCHANGED <<disk, pam, granted, calls>> /\ Others

WorkerGoes ==
    /\ outages < MaxOutages /\ outages' = outages + 1
    /\ worker' = ~worker
    /\ UNCHANGED <<daemonVars, landmarks, calls, nodes, windowVars, generation,
                   applied, refreshes, acts>>

Plug ==
    /\ outages < MaxOutages /\ outages' = outages + 1
    /\ nodes' \in Machines \ {nodes}
    /\ UNCHANGED <<daemonVars, worker, landmarks, calls, windowVars, generation,
                   applied, refreshes, acts>>

-----------------------------------------------------------------------------
(* The window's calls.  Without a daemon a call fails at once.             *)

\* A number to tell calls apart.
FreeId == Min((0..Cardinality(calls)) \ {c.id : c \in calls})

Call(kind, s, why) ==
    calls' = calls \cup
        {[id |-> FreeId, kind |-> kind, s |-> s, why |-> why,
          stage |-> IF up THEN "sent" ELSE "done", ok |-> FALSE,
          secure |-> FALSE, gone |-> FALSE, warned |-> warned,
          blind |-> why = "changed" /\ Or(cache, "strictness", "light") # "heavy"
                    /\ landmarksOk = FALSE]}

NoCall == UNCHANGED calls

\* _push_plan: what the cache says, with the plan's cameras.
PushPlan(s, plan) ==
    IF DOMAIN s = {} THEN NoCall ELSE Call("set", Over(plan, s), "plan")

StartRefresh ==
    /\ generation' = generation + 1
    /\ refreshes' = refreshes \cup {[gen |-> generation', stage |-> "started"]}

\* _toggle refreshes after an error, _delete and _wipe after a success.
Refreshes(c) == c.kind = "face" /\ (c.ok <=> c.why = "delete")

BadReply(c) ==
    /\ c \in calls /\ c.stage = "done"
    /\ IF c.ok /\ c.kind = "pam"
       THEN calls' = (calls \ {c}) \cup
                {[c EXCEPT !.kind = "set", !.ok = FALSE,
                           !.stage = IF up THEN "sent" ELSE "done"]}
       ELSE calls' = calls \ {c}
    /\ cache' = IF c.kind = "set" THEN c.s ELSE cache
    /\ IF Refreshes(c) THEN StartRefresh ELSE UNCHANGED <<generation, refreshes>>
    /\ UNCHANGED <<daemonVars, worker, landmarks, nodes, widgets, prefs, stored, discovery,
                   landmarksOk, override, dialog, timer, warned, applied, acts, outages>>

\* finished of _set_settings_async, pam_saved of on_setting_changed: an error
\* is a toast; the cache is what was saved; a changed PAM profile is followed
\* by the settings it was changed for.
Reply(c) ==
    /\ c \in calls /\ c.stage = "done"
    /\ IF c.ok /\ c.kind = "pam"
       THEN calls' = (calls \ {c}) \cup
                {[c EXCEPT !.kind = "set", !.ok = FALSE,
                           !.stage = IF up THEN "sent" ELSE "done"]}
       ELSE calls' = calls \ {c}
    /\ cache' = IF c.ok /\ c.kind = "set" THEN c.s ELSE cache
    /\ IF Refreshes(c) THEN StartRefresh ELSE UNCHANGED <<generation, refreshes>>
    /\ UNCHANGED <<daemonVars, worker, landmarks, nodes, widgets, prefs, stored, discovery,
                   landmarksOk, override, dialog, timer, warned, applied, acts, outages>>

\* The user takes longer than 60 s over the authorisation: the window has its
\* error, the daemon goes on.
TimesOut(c) ==
    /\ outages < MaxOutages /\ outages' = outages + 1
    /\ c \in calls /\ c.stage = "asked" /\ ~c.gone
    /\ Goes(c, [c EXCEPT !.gone = TRUE])
    /\ IF Refreshes([c EXCEPT !.ok = FALSE]) THEN StartRefresh
       ELSE UNCHANGED <<generation, refreshes>>
    /\ UNCHANGED <<daemonVars, worker, landmarks, nodes, windowVars, applied, acts>>

-----------------------------------------------------------------------------
(* Refresh: a thread asks the daemon and looks at the cameras, the main     *)
(* loop shows what it found, unless a newer refresh was started.            *)

\* get_settings fails when the daemon is away; so do the diagnostics.  (They
\* and the look at the cameras are one step: nothing checked here tells them
\* apart.)
LoadSettings(r) ==
    /\ r \in refreshes /\ r.stage = "started"
    /\ refreshes' = (refreshes \ {r}) \cup
          {[gen |-> r.gen, stage |-> "asked", s |-> IF up THEN cfg ELSE Empty]}
    /\ UNCHANGED <<daemonVars, worker, landmarks, calls, nodes, windowVars,
                   generation, applied, acts, outages>>

LoadRest(r) ==
    /\ r \in refreshes /\ r.stage = "asked"
    /\ refreshes' = (refreshes \ {r}) \cup
          {[gen |-> r.gen, stage |-> "loaded", s |-> r.s,
            errors |-> ~up \/ DOMAIN r.s = {},
            worker |-> up /\ worker, cams |-> Found[nodes],
            landmarksOk |-> IF up /\ worker THEN landmarks ELSE None,
            plan |-> ResolvePlan(LoadPrefs(stored), Found[nodes])]}
    /\ UNCHANGED <<daemonVars, worker, landmarks, calls, nodes, windowVars,
                   generation, applied, acts, outages>>

BadApplyRefresh(r) ==
    /\ r \in refreshes /\ r.stage = "loaded"
    /\ refreshes' = refreshes \ {r}
    /\ discovery' = r.cams /\ cache' = r.s /\ landmarksOk' = r.landmarksOk
    /\ widgets' = Shown(r.s, prefs) /\ timer' = timer
    /\ applied' = r.gen /\ warned' = r.errors
    /\ IF r.worker /\ DOMAIN r.s # {} /\ \E k \in DOMAIN r.plan : r.s[k] # r.plan[k]
       THEN PushPlan(r.s, r.plan) ELSE NoCall
    /\ UNCHANGED <<daemonVars, worker, landmarks, nodes, prefs, stored, override, dialog,
                   generation, acts, outages>>

\* _apply_refresh: the cache and the widgets become what was loaded, without
\* their handlers (but for the text of a camera, which starts its timer), the
\* preferences become what the file has: one that could not be saved is lost; the
\* plan is pushed when the worker is there and the daemon has another one.
ApplyRefresh(r) ==
    /\ r \in refreshes /\ r.stage = "loaded"
    /\ refreshes' = refreshes \ {r}
    /\ IF r.gen # generation
       THEN NoCall /\ UNCHANGED <<discovery, cache, landmarksOk, prefs, widgets, timer, warned,
                                applied>>
       ELSE /\ discovery' = r.cams /\ cache' = r.s /\ landmarksOk' = r.landmarksOk
            /\ prefs' = LoadPrefs(stored) /\ widgets' = Shown(r.s, prefs')
            /\ timer' = (timer \/ widgets.pin # prefs'.rgb_dev)
            /\ applied' = r.gen /\ warned' = r.errors
            /\ IF r.worker /\ DOMAIN r.s # {} /\ \E k \in DOMAIN r.plan : r.s[k] # r.plan[k]
               THEN PushPlan(r.s, r.plan) ELSE NoCall
    /\ UNCHANGED <<daemonVars, worker, landmarks, nodes, stored, override, dialog,
                   generation, acts, outages>>

-----------------------------------------------------------------------------
(* What the user does.  A dialog is modal.                                 *)

Acts == /\ dialog = None
        /\ acts < MaxActs /\ acts' = acts + 1
        /\ UNCHANGED <<daemonVars, worker, landmarks, nodes, discovery, landmarksOk, warned,
                       applied>>

\* save: the file is replaced as a whole, or the error is swallowed.
SavePrefs(p) ==
    \/ stored' = p /\ UNCHANGED outages
    \/ /\ outages < MaxOutages /\ outages' = outages + 1
       /\ p # stored /\ UNCHANGED stored

NoSave == UNCHANGED <<stored, outages>>

Refresh ==
    /\ Acts /\ StartRefresh /\ NoSave
    /\ NoCall /\ UNCHANGED <<cache, widgets, prefs, override, dialog, timer>>

FaceCall(why) ==
    /\ Acts /\ Call("face", Empty, why) /\ NoSave
    /\ UNCHANGED <<cache, widgets, prefs, override, dialog, timer, generation, refreshes>>

\* on_setting_changed sends all the page shows, over what the cache has: a
\* change of "enabled" by way of the PAM profile.
Save(w, why) ==
    LET s == Over([k \in {"enabled", "strictness", "timeline"} |-> w[k]], cache)
        kind == IF w.enabled # Or(cache, "enabled", FALSE) THEN "pam" ELSE "set"
    IN  Call(kind, s, why)

BadSettingChanged(w, why) ==
    /\ widgets' = w
    /\ IF /\ w.strictness = "heavy" /\ Or(cache, "strictness", "light") # "heavy"
          /\ landmarksOk = FALSE /\ ~override /\ why # "confirmed"
       THEN dialog' = Or(cache, "strictness", "light") /\ UNCHANGED override /\ NoCall
       ELSE override' = (override \/ why = "confirmed") /\ dialog' = None /\ Save(w, why)

\* Heavy without landmarks has to be confirmed, once for every time it is
\* sent.
SettingChanged(w, why) ==
    /\ widgets' = w
    /\ IF /\ w.strictness = "heavy" /\ Or(cache, "strictness", "light") # "heavy"
          /\ landmarksOk = FALSE /\ ~override /\ why # "confirmed"
       THEN dialog' = Or(cache, "strictness", "light") /\ UNCHANGED override /\ NoCall
       ELSE override' = FALSE /\ dialog' = None /\ Save(w, why)

Change(w) ==
    /\ w # widgets
    /\ Acts /\ SettingChanged(w, "changed") /\ NoSave
    /\ UNCHANGED <<cache, prefs, timer, generation, refreshes>>

\* The dialog of _confirm_heavy_without_landmarks.
Cancel ==
    /\ dialog # None
    /\ widgets' = [widgets EXCEPT !.strictness = dialog] /\ dialog' = None
    /\ NoCall
    /\ UNCHANGED <<daemonVars, worker, landmarks, nodes, cache, prefs, stored, discovery,
                   landmarksOk, override, timer, warned, generation, applied, refreshes, acts, outages>>

Confirm ==
    /\ dialog # None
    /\ SettingChanged(widgets, "confirmed")
    /\ UNCHANGED <<daemonVars, worker, landmarks, nodes, cache, prefs, stored, discovery,
                   landmarksOk, timer, warned, generation, applied, refreshes, acts, outages>>

\* on_camera_mode_changed: the wish is kept, and what it resolves to is sent.
Wish(want) ==
    /\ want # prefs.camera_mode
    /\ Acts /\ prefs' = [prefs EXCEPT !.camera_mode = want] /\ SavePrefs(prefs')
    /\ PushPlan(cache, ResolvePlan(prefs', discovery))
    /\ UNCHANGED <<cache, widgets, override, dialog, timer, generation, refreshes>>

\* on_animations_changed: the window's own affair.  (The greeting's switch and
\* texts are kept in the same way.)
Animate ==
    /\ Acts
    /\ prefs' = [prefs EXCEPT !.animations_enabled = ~@] /\ SavePrefs(prefs')
    /\ NoCall /\ UNCHANGED <<cache, widgets, override, dialog, timer, generation, refreshes>>

\* _on_camera_edited: the text is looked at when the user has stopped typing.
\* (The entry of the IR camera is the same.)
Type(pin) ==
    /\ pin # widgets.pin
    /\ Acts /\ widgets' = [widgets EXCEPT !.pin = pin] /\ timer' = TRUE
    /\ NoSave /\ NoCall /\ UNCHANGED <<cache, prefs, override, dialog, generation, refreshes>>

ApplyCamera ==
    /\ timer /\ timer' = FALSE
    /\ prefs' = [prefs EXCEPT !.rgb_dev = widgets.pin] /\ SavePrefs(prefs')
    /\ IF prefs' # prefs THEN PushPlan(cache, ResolvePlan(prefs', discovery)) ELSE NoCall
    /\ UNCHANGED <<daemonVars, worker, landmarks, nodes, cache, widgets, discovery,
                   landmarksOk, override, dialog, warned, generation, applied, refreshes,
                   acts>>

\* _auto_tune: the suggestion over the cache.
AutoTune ==
    /\ Acts
    /\ LET sug == Suggested[nodes] IN
       /\ prefs' = [prefs EXCEPT !.camera_mode = sug.camera_mode] /\ SavePrefs(prefs')
       /\ Call("set", Over([k \in DOMAIN sug \ {"camera_mode"} |-> sug[k]], cache), "tune")
    /\ UNCHANGED <<cache, widgets, override, dialog, timer, generation, refreshes>>

Changes(w) == {[w EXCEPT !.enabled = ~@], [w EXCEPT !.timeline = ~@]}
              \cup {[w EXCEPT !.strictness = x] : x \in {"light", "heavy"}}

Loading == \E r \in refreshes : LoadSettings(r) \/ LoadRest(r) \/ ApplyRefresh(r)

Next ==
    \/ \E c \in calls : \/ Ask(c) \/ Refuse(c) \/ Install(c) \/ PamAuthUpdate(c)
                        \/ Templates(c) \/ Reply(c) \/ TimesOut(c)
    \/ GoDown \/ ComeUp \/ WorkerGoes \/ Plug
    \/ Loading
    \/ Refresh \/ \E why \in {"toggle", "delete"} : FaceCall(why)
    \/ \E w \in Changes(widgets) : Change(w)
    \/ Cancel \/ Confirm \/ AutoTune \/ Animate \/ ApplyCamera
    \/ \E x \in Wishes : Wish(x)
    \/ \E pin \in Pins : Type(pin)

Spec == Init /\ [][Next]_vars

-----------------------------------------------------------------------------
\* Every variable keeps its type: above all, the daemon's configuration always
\* has every key, whatever JSON it was sent.
TypeOK ==
    /\ cfg \in Configs /\ disk \in held /\ cfg \in held
    /\ {pam, up, worker, landmarks, override, timer, warned} \subseteq BOOLEAN
    /\ DOMAIN cache \subseteq Keys
    /\ \A k \in DOMAIN DefaultPrefs : Sound(k, prefs[k])
    /\ dialog \in {None, "off", "light", "heavy"}
    /\ applied \in 0..generation
    /\ \A c \in calls : c.kind \in {"set", "pam", "face"} /\ c.stage \in {"sent", "asked", "done"}
    /\ \A r \in refreshes : r.gen <= generation /\ r.stage \in {"started", "asked", "loaded"}

\* The window never takes a proposal for the configuration: what its next save
\* starts from is something the daemon has had, whether calls were refused,
\* lost, half done, or answered out of order.
CacheWasHeld == \E h \in held : \A k \in DOMAIN cache : cache[k] = h[k]

\* "Heavy cannot be satisfied" without landmarks: every save that turns it on
\* while they are known to be missing was confirmed for this save, and not for
\* an earlier one.
HeavyConfirmed ==
    \A c \in calls :
        c.blind => c.s.strictness # "heavy"

\* Whatever is plugged in and wished for, a plan that uses IR has an infrared
\* sensor, "auto" has both cameras, no handle of a camera is taken for one, and
\* the colour camera stays configured as long as there is a usable one.
PlanSound ==
    LET plan == ResolvePlan(prefs, discovery)
    IN  /\ (plan.mode # "rgb") <=> plan.ir_camera # None
        /\ plan.ir_camera # None => Kind(discovery[plan.ir_camera]) = "ir"
        /\ plan.camera # None => Kind(discovery[plan.camera]) = "rgb"
        /\ plan.mode = "auto" => plan.camera # None
        /\ Pick(discovery, "rgb") # None => plan.camera # None

\* Whatever saves overlap while users are being asked, fail halfway or are
\* undone by a restart, the daemon only ever runs with protected settings it was
\* found with or an administrator agreed to: what slips through as cosmetic can
\* at worst bring back some that were in force before (set_settings).
ProtectedGranted == Protected(cfg) \in granted

\* "Checking the *diff* ... stops smuggling protected keys through the weaker
\* action" (dbus.rs, set_settings): a save that was authorised as cosmetic leaves
\* the protected settings as they are.
CosmeticStaysCosmetic ==
    [][\A c \in calls :
         /\ c.stage = "asked" /\ c.kind = "set" /\ ~c.secure /\ Install(c)
         => Protected(cfg') = Protected(cfg)]_vars

\* When all its threads are back the window shows what the newest refresh
\* found, however many there were and in whatever order they came back.
NewestIsShown == refreshes = {} => applied = generation

\* "Settings show defaults and cannot be saved", says the page while the daemon
\* cannot be reached.
UnreadNotSaved ==
    \A c \in calls : c.warned /\ c.kind = "set" => ~(c.stage = "done" /\ c.ok)
=============================================================================
