------------------------- MODULE SettingsAppProofs --------------------------
(***************************************************************************)
(* The safety of SettingsApp for every machine, preferences file and       *)
(* number of acts and outages.                                             *)
(*                                                                         *)
(* What the window may rely on travels with the calls: a call that came    *)
(* back as saved carries a configuration the daemon has had, and one that  *)
(* is asked about as cosmetic carries protected settings that were granted *)
(* before, since it was compared with a configuration that had them.       *)
(* Good is that of one call; everything else about the window hangs on it. *)
(***************************************************************************)
EXTENDS SettingsApp, CamerasProofs

Fields == {"id", "kind", "s", "why", "stage", "ok", "secure", "gone", "warned",
           "blind"}

\* A call is a record.
IsCall(c) == c = [f \in Fields |-> c[f]]

\* What holds of a call when the daemon has had the configurations hs and was
\* granted the protected settings gs.
Good(c, hs, gs) ==
    /\ IsCall(c)
    /\ c.blind => c.s.strictness # "heavy"
    /\ c.kind = "set" /\ c.ok => c.stage = "done" /\ Parsed(c.s) \in hs
    /\ c.stage = "asked" /\ c.kind = "set" /\ ~c.secure => Protected(Parsed(c.s)) \in gs

CallsGood == \A c \in calls : Good(c, held, granted)

\* What a refresh brings was the daemon's.
RefreshesHeld ==
    \A r \in refreshes : r.stage # "started" => r.s = Empty \/ r.s \in held

\* A restart brings back what is on the disk, which is no worse.
DaemonHeld ==
    /\ cfg \in held /\ disk \in held
    /\ Protected(cfg) \in granted /\ Protected(disk) \in granted

Inv ==
    /\ DaemonHeld /\ CallsGood /\ RefreshesHeld
    /\ CacheWasHeld /\ override = FALSE

-----------------------------------------------------------------------------
(* Lemmas about one call.                                                  *)

LEMMA GoodGrows ==
    ASSUME NEW c, NEW hs, NEW gs, Good(c, hs, gs),
           NEW hs2, hs \subseteq hs2, NEW gs2, gs \subseteq gs2
    PROVE  Good(c, hs2, gs2)
BY DEF Good

LEMMA SameProtected ==
    ASSUME NEW a, NEW b, ProtectedChanged(a, b) = {}
    PROVE  Protected(b) = Protected(a)
<1>1. \A k \in {"enabled", "strictness", "tau"} : a[k] = b[k]
  BY DEF ProtectedChanged
<1>2. QED
  BY <1>1 DEF Protected

LEMMA GoodDone ==
    ASSUME NEW c, NEW hs, NEW gs, Good(c, hs, gs), NEW ok \in BOOLEAN,
           ok /\ c.kind = "set" => Parsed(c.s) \in hs
    PROVE  Good(Done(c, ok), hs, gs)
<1> DEFINE d == Done(c, ok)
<1>1. /\ IsCall(d) /\ d.kind = c.kind /\ d.s = c.s /\ d.blind = c.blind
      /\ d.stage = "done" /\ d.ok = ok
  BY DEF Done, Good, IsCall, Fields
<1> HIDE DEF d
<1>2. QED
  BY <1>1 DEF Good, d

LEMMA GoodAsked ==
    ASSUME NEW c, NEW hs, NEW gs, Good(c, hs, gs), c.stage = "sent",
           NEW b, Protected(b) \in gs
    PROVE  Good([c EXCEPT !.stage = "asked",
                          !.secure = c.kind # "set" \/ ProtectedChanged(b, Parsed(c.s)) # {}], hs, gs)
<1> DEFINE sec == c.kind # "set" \/ ProtectedChanged(b, Parsed(c.s)) # {}
           d == [c EXCEPT !.stage = "asked", !.secure = sec]
<1>1. /\ IsCall(d) /\ d.kind = c.kind /\ d.s = c.s /\ d.blind = c.blind
      /\ d.stage = "asked" /\ d.ok = c.ok /\ d.secure = sec
  <2> HIDE DEF sec
  <2>1. QED
    BY DEF Good, IsCall, Fields
<1>2. ~(c.kind = "set" /\ c.ok)
  BY DEF Good
<1>3. c.kind = "set" /\ ~sec => Protected(Parsed(c.s)) \in gs
  <2>1. c.kind = "set" /\ ~sec => ProtectedChanged(b, Parsed(c.s)) = {}
    BY Zenon
  <2>2. QED
    BY <2>1, SameProtected
<1> HIDE DEF d, sec
<1>4. Good(d, hs, gs)
  BY <1>1, <1>2, <1>3 DEF Good
<1>5. QED
  BY <1>4 DEF d, sec

LEMMA GoodGone ==
    ASSUME NEW c, NEW hs, NEW gs, Good(c, hs, gs)
    PROVE  Good([c EXCEPT !.gone = TRUE], hs, gs)
<1> DEFINE d == [c EXCEPT !.gone = TRUE]
<1>1. /\ IsCall(d) /\ d.kind = c.kind /\ d.s = c.s /\ d.blind = c.blind
      /\ d.stage = c.stage /\ d.ok = c.ok /\ d.secure = c.secure
  BY DEF Good, IsCall, Fields
<1> HIDE DEF d
<1>2. QED
  BY <1>1 DEF Good, d

\* The settings that follow a changed PAM profile are a call that has not come
\* back yet.
LEMMA GoodFollows ==
    ASSUME NEW c, NEW hs, NEW gs, Good(c, hs, gs), NEW stage \in {"sent", "done"}
    PROVE  Good([c EXCEPT !.kind = "set", !.ok = FALSE, !.stage = stage], hs, gs)
<1> DEFINE d == [c EXCEPT !.kind = "set", !.ok = FALSE, !.stage = stage]
<1>1. /\ IsCall(d) /\ d.s = c.s /\ d.blind = c.blind /\ d.stage = stage /\ d.ok = FALSE
  BY DEF Good, IsCall, Fields
<1> HIDE DEF d
<1>2. QED
  BY <1>1 DEF Good, d

\* A new call asks for Heavy knowingly, or it is not the user's change.
LEMMA GoodNew ==
    ASSUME CallsGood, NEW kind, NEW s, NEW why, Call(kind, s, why),
           (/\ why = "changed" /\ Or(cache, "strictness", "light") # "heavy"
            /\ landmarksOk = FALSE) => s.strictness # "heavy"
    PROVE  \A c \in calls' : Good(c, held, granted)
<1> DEFINE blind == /\ why = "changed" /\ Or(cache, "strictness", "light") # "heavy"
                    /\ landmarksOk = FALSE
           stage == IF up THEN "sent" ELSE "done"
           d == [id |-> FreeId, kind |-> kind, s |-> s, why |-> why, stage |-> stage,
                 ok |-> FALSE, secure |-> FALSE, gone |-> FALSE,
                 warned |-> warned, blind |-> blind]
<1>1. calls' = calls \cup {d}
  BY DEF Call
<1>2. /\ IsCall(d) /\ d.s = s /\ d.ok = FALSE /\ d.stage \in {"sent", "done"}
      /\ d.blind = blind
  <2> HIDE DEF blind
  <2>1. QED
    BY DEF IsCall, Fields
<1>3. Good(d, held, granted)
  <2> HIDE DEF d
  <2>1. QED
    BY <1>2 DEF Good
<1> HIDE DEF d
<1>4. QED
  BY <1>1, <1>3 DEF CallsGood

LEMMA OwnNew ==
    ASSUME CallsGood, NEW kind, NEW s, NEW why \in {"plan", "tune", "toggle", "delete"},
           Call(kind, s, why)
    PROVE  \A c \in calls' : Good(c, held, granted)
<1>1. why # "changed"
  OBVIOUS
<1>2. QED
  BY <1>1, GoodNew

-----------------------------------------------------------------------------
(* Lemmas about the ways an action changes the calls and the refreshes.    *)

LEMMA GoesGood ==
    ASSUME CallsGood, NEW c, NEW d, Goes(c, d), held \subseteq held', granted \subseteq granted', Good(d, held', granted')
    PROVE  CallsGood'
<1>1. calls' = (calls \ {c}) \cup {d}
  BY DEF Goes
<1>2. \A x \in calls : Good(x, held', granted')
  BY GoodGrows DEF CallsGood
<1>3. QED
  BY <1>1, <1>2 DEF CallsGood

LEMMA AnswerGood ==
    ASSUME CallsGood, NEW c \in calls, NEW ok \in BOOLEAN, Answer(c, ok),
           held \subseteq held', granted \subseteq granted', ok /\ c.kind = "set" => Parsed(c.s) \in held'
    PROVE  CallsGood'
<1>1. calls' \subseteq calls \cup {Done(c, ok)}
  BY DEF Answer
<1>2. \A x \in calls : Good(x, held', granted')
  BY GoodGrows DEF CallsGood
<1>3. Good(Done(c, ok), held', granted')
  BY <1>2, GoodDone
<1>4. QED
  BY <1>1, <1>2, <1>3 DEF CallsGood

LEMMA SameHeldGood ==
    ASSUME CallsGood, held' = held, granted' = granted, \A c \in calls' : Good(c, held, granted)
    PROVE  CallsGood'
BY DEF CallsGood

LEMMA StartHeld ==
    ASSUME RefreshesHeld, StartRefresh, held' = held
    PROVE  RefreshesHeld'
BY DEF RefreshesHeld, StartRefresh

\* A step that leaves the window's cache and refreshes alone.
LEMMA Quiet ==
    ASSUME Inv, CallsGood', DaemonHeld', held \subseteq held', granted \subseteq granted',
           cache' = cache, refreshes' = refreshes, override' = override
    PROVE  Inv'
BY DEF Inv, RefreshesHeld, CacheWasHeld

\* A plan is not the user's change.
LEMMA PushGood ==
    ASSUME CallsGood, NEW s, NEW plan, PushPlan(s, plan)
    PROVE  \A c \in calls' : Good(c, held, granted)
<1>1. CASE DOMAIN s = {}
  BY <1>1 DEF PushPlan, NoCall, CallsGood
<1>2. CASE DOMAIN s # {}
  <2>1. Call("set", Over(plan, s), "plan")
    BY <1>2 DEF PushPlan
  <2> DEFINE t == Over(plan, s)
  <2>2. Call("set", t, "plan")
    BY <2>1
  <2> HIDE DEF t
  <2>3. QED
    BY <2>2, OwnNew
<1>3. QED
  BY <1>1, <1>2

\* Heavy is sent only by a change whose dialog was answered, or that needs none.
LEMMA SettingGood ==
    ASSUME CallsGood, override = FALSE, NEW w, NEW why, SettingChanged(w, why)
    PROVE  (\A c \in calls' : Good(c, held, granted)) /\ override' = FALSE
<1> DEFINE asks == /\ w.strictness = "heavy" /\ Or(cache, "strictness", "light") # "heavy"
                   /\ landmarksOk = FALSE /\ ~override /\ why # "confirmed"
           s == Over([k \in {"enabled", "strictness", "timeline"} |-> w[k]], cache)
           kind == IF w.enabled # Or(cache, "enabled", FALSE) THEN "pam" ELSE "set"
<1>1. CASE asks
  BY <1>1 DEF SettingChanged, NoCall, CallsGood
<1>2. CASE ~asks
  <2>1. override' = FALSE /\ Call(kind, s, why)
    BY <1>2 DEF SettingChanged, Save
  <2>2. s.strictness = w.strictness
    BY DEF Over
  <2>3. (/\ why = "changed" /\ Or(cache, "strictness", "light") # "heavy"
         /\ landmarksOk = FALSE) => s.strictness # "heavy"
    <3> HIDE DEF s
    <3>1. ~override
      OBVIOUS
    <3>2. why = "changed" => why # "confirmed"
      OBVIOUS
    <3>3. QED
      BY <1>2, <2>2, <3>1, <3>2, Zenon
  <2> HIDE DEF s, kind
  <2>4. QED
    BY <2>1, <2>3, GoodNew
<1>3. QED
  BY <1>1, <1>2

-----------------------------------------------------------------------------
(* The invariant.                                                          *)

LEMMA InitInv == Init => Inv
<1> SUFFICES ASSUME Init PROVE Inv
  OBVIOUS
<1>1. DaemonHeld /\ override = FALSE /\ calls = {}
  BY DEF Init, DaemonHeld
<1>2. RefreshesHeld
  BY DEF Init, RefreshesHeld
<1>3. CacheWasHeld
  BY DEF Init, CacheWasHeld, Empty
<1>4. QED
  BY <1>1, <1>2, <1>3 DEF Inv, CallsGood

LEMMA NextInv == Inv /\ [Next]_vars => Inv'
<1> SUFFICES ASSUME Inv, [Next]_vars PROVE Inv'
  OBVIOUS
<1> USE DEF Others
<1>1. ASSUME NEW c \in calls, Ask(c) PROVE Inv'
  <2> DEFINE d == [c EXCEPT !.stage = "asked",
                            !.secure = c.kind # "set"
                                       \/ ProtectedChanged(cfg, Parsed(c.s)) # {}]
  <2>1. /\ Goes(c, d) /\ UNCHANGED daemonVars /\ c.stage = "sent"
        /\ UNCHANGED <<cache, refreshes, override>>
    BY <1>1 DEF Ask, windowVars
  <2>2. Good(d, held, granted)
    <3>1. Good(c, held, granted)
      BY DEF Inv, CallsGood
    <3>2. Protected(cfg) \in granted
      BY DEF Inv, DaemonHeld
    <3>3. QED
      BY <2>1, <3>1, <3>2, GoodAsked
  <2> HIDE DEF d
  <2>3. CallsGood'
    BY <2>1, <2>2, GoesGood DEF Inv, daemonVars
  <2>4. QED
    BY <2>1, <2>3, Quiet DEF Inv, DaemonHeld, daemonVars
<1>2. ASSUME NEW c \in calls, Refuse(c) PROVE Inv'
  <2>1. /\ Answer(c, FALSE) /\ UNCHANGED daemonVars
        /\ UNCHANGED <<cache, refreshes, override>>
    BY <1>2 DEF Refuse, windowVars
  <2>2. CallsGood'
    BY <2>1, AnswerGood DEF Inv, daemonVars
  <2>3. QED
    BY <2>1, <2>2, Quiet DEF Inv, DaemonHeld, daemonVars
<1>3. ASSUME NEW c \in calls, Install(c) PROVE Inv'
  <2>1. PICK saves \in BOOLEAN :
           disk' = (IF saves THEN cfg' ELSE disk) /\ Answer(c, saves)
    BY <1>3 DEF Install
  <2>2. /\ cfg' = Parsed(c.s) /\ held' = held \cup {cfg'}
        /\ granted' = IF c.secure THEN granted \cup {Protected(cfg')} ELSE granted
        /\ UNCHANGED <<cache, refreshes, override>>
    BY <1>3 DEF Install, windowVars
  <2>3. granted \subseteq granted' /\ Protected(cfg') \in granted'
    <3>1. CASE c.secure
      BY <2>2, <3>1
    <3>2. CASE ~c.secure
      <4>1. Protected(Parsed(c.s)) \in granted
        BY <1>3, <3>2 DEF Install, Inv, CallsGood, Good
      <4>2. QED
        BY <2>2, <3>2, <4>1
    <3>3. QED
      BY <3>1, <3>2
  <2>4. CallsGood'
    BY <2>1, <2>2, <2>3, AnswerGood DEF Inv
  <2>5. DaemonHeld'
    BY <2>1, <2>2, <2>3 DEF Inv, DaemonHeld
  <2>6. QED
    BY <2>2, <2>3, <2>4, <2>5, Quiet
<1>4. ASSUME NEW c \in calls, PamAuthUpdate(c) \/ Templates(c) PROVE Inv'
  <2>1. PICK works \in BOOLEAN : Answer(c, works)
    BY <1>4 DEF PamAuthUpdate, Templates
  <2>2. /\ c.kind # "set" /\ UNCHANGED <<cfg, disk, held, granted>>
        /\ UNCHANGED <<cache, refreshes, override>>
    BY <1>4 DEF PamAuthUpdate, Templates, windowVars, daemonVars
  <2>3. CallsGood'
    BY <2>1, <2>2, AnswerGood DEF Inv
  <2>4. QED
    BY <2>2, <2>3, Quiet DEF Inv, DaemonHeld
<1>5. ASSUME NEW c \in calls, Reply(c) PROVE Inv'
  <2>1. CallsGood'
    <3>1. held' = held /\ granted' = granted
      BY <1>5 DEF Reply, daemonVars
    <3>2. CASE c.ok /\ c.kind = "pam"
      <4> DEFINE stage == IF up THEN "sent" ELSE "done"
      <4>1. Goes(c, [c EXCEPT !.kind = "set", !.ok = FALSE, !.stage = stage])
        BY <1>5, <3>2 DEF Reply, Goes
      <4>2. stage \in {"sent", "done"}
        OBVIOUS
      <4>3. Good(c, held, granted)
        BY DEF Inv, CallsGood
      <4> HIDE DEF stage
      <4>4. QED
        BY <3>1, <4>1, <4>2, <4>3, GoodFollows, GoesGood DEF Inv
    <3>3. CASE ~(c.ok /\ c.kind = "pam")
      BY <1>5, <3>1, <3>3 DEF Reply, Inv, CallsGood
    <3>4. QED
      BY <3>2, <3>3
  <2>2. CacheWasHeld'
    <3>1. CASE c.ok /\ c.kind = "set"
      <4>1. cache' = c.s /\ held' = held
        BY <1>5, <3>1 DEF Reply, daemonVars
      <4>2. Parsed(c.s) \in held
        BY <3>1 DEF Inv, CallsGood, Good
      <4>3. \A k \in DOMAIN c.s : c.s[k] = Parsed(c.s)[k]
        BY DEF Parsed, Over
      <4>4. QED
        BY <4>1, <4>2, <4>3 DEF CacheWasHeld
    <3>2. CASE ~(c.ok /\ c.kind = "set")
      BY <1>5, <3>2 DEF Reply, daemonVars, Inv, CacheWasHeld
    <3>3. QED
      BY <3>1, <3>2
  <2>3. RefreshesHeld'
    BY <1>5, StartHeld DEF Reply, daemonVars, Inv, RefreshesHeld
  <2>4. DaemonHeld' /\ override' = FALSE
    BY <1>5 DEF Reply, daemonVars, Inv, DaemonHeld
  <2>5. QED
    BY <2>1, <2>2, <2>3, <2>4 DEF Inv
<1>6. ASSUME NEW c \in calls, TimesOut(c) PROVE Inv'
  <2>1. Goes(c, [c EXCEPT !.gone = TRUE]) /\ UNCHANGED <<cfg, disk, held, granted, cache, override>>
    BY <1>6 DEF TimesOut, daemonVars, windowVars
  <2>2. CallsGood'
    BY <2>1, GoodGone, GoesGood DEF Inv, CallsGood
  <2>3. RefreshesHeld'
    BY <1>6, <2>1, StartHeld DEF TimesOut, Inv, RefreshesHeld
  <2>4. QED
    BY <2>1, <2>2, <2>3 DEF Inv, DaemonHeld, CacheWasHeld
<1>7. ASSUME GoDown PROVE Inv'
  <2>1. /\ UNCHANGED <<cfg, disk, held, granted, cache, refreshes, override>>
        /\ calls' \subseteq calls \cup {Done(c, FALSE) : c \in calls}
    BY <1>7 DEF GoDown, windowVars
  <2>2. \A c \in calls : Good(c, held, granted) /\ Good(Done(c, FALSE), held, granted)
    BY GoodDone DEF Inv, CallsGood
  <2>3. CallsGood'
    BY <2>1, <2>2 DEF CallsGood
  <2>4. QED
    BY <2>1, <2>3, Quiet DEF Inv, DaemonHeld
<1>8. ASSUME ComeUp PROVE Inv'
  <2>1. /\ cfg' = disk /\ disk' = disk /\ held' = held \cup {disk} /\ calls' = calls
        /\ UNCHANGED <<granted, cache, refreshes, override>>
    BY <1>8 DEF ComeUp, windowVars
  <2>2. held' = held
    BY <2>1 DEF Inv, DaemonHeld
  <2>3. QED
    BY <2>1, <2>2, Quiet DEF Inv, DaemonHeld, CallsGood
<1>9. ASSUME WorkerGoes \/ Plug PROVE Inv'
  <2>1. UNCHANGED <<cfg, disk, held, granted, calls, cache, refreshes, override>>
    BY <1>9 DEF WorkerGoes, Plug, windowVars, daemonVars
  <2>2. QED
    BY <2>1, Quiet DEF Inv, DaemonHeld, CallsGood
<1>10. ASSUME NEW r \in refreshes, LoadSettings(r) \/ LoadRest(r) PROVE Inv'
  <2>1. UNCHANGED <<cfg, disk, held, granted, calls, cache, override>>
    BY <1>10 DEF LoadSettings, LoadRest, windowVars, daemonVars
  <2>2. PICK l : /\ refreshes' = (refreshes \ {r}) \cup {l}
                 /\ l.s = Empty \/ l.s \in held
    <3>1. CASE LoadSettings(r)
      <4> DEFINE l == [gen |-> r.gen, stage |-> "asked", s |-> IF up THEN cfg ELSE Empty]
      <4>1. l.s = Empty \/ l.s \in held
        BY DEF Inv, DaemonHeld
      <4>2. refreshes' = (refreshes \ {r}) \cup {l}
        BY <3>1 DEF LoadSettings
      <4> HIDE DEF l
      <4>3. QED
        BY <4>1, <4>2
    <3>2. CASE LoadRest(r)
      <4>1. r.s = Empty \/ r.s \in held
        BY <3>2 DEF LoadRest, Inv, RefreshesHeld
      <4> DEFINE errors == ~up \/ DOMAIN r.s = {}
                 there == up /\ worker
                 marks == IF there THEN landmarks ELSE None
                 plan == ResolvePlan(LoadPrefs(stored), Found[nodes])
                 l == [gen |-> r.gen, stage |-> "loaded", s |-> r.s, errors |-> errors,
                       worker |-> there, cams |-> Found[nodes], landmarksOk |-> marks,
                       plan |-> plan]
      <4>2. refreshes' = (refreshes \ {r}) \cup {l}
        BY <3>2 DEF LoadRest
      <4> HIDE DEF errors, there, marks, plan
      <4>3. l.s = r.s
        OBVIOUS
      <4> HIDE DEF l
      <4>4. QED
        BY <4>1, <4>2, <4>3
    <3>3. QED
      BY <1>10, <3>1, <3>2
  <2>3. RefreshesHeld'
    BY <2>1, <2>2 DEF Inv, RefreshesHeld
  <2>4. QED
    BY <2>1, <2>3 DEF Inv, DaemonHeld, CallsGood, CacheWasHeld
<1>11. ASSUME NEW r \in refreshes, ApplyRefresh(r) PROVE Inv'
  <2>1. UNCHANGED <<cfg, disk, held, granted, override>> /\ refreshes' = refreshes \ {r}
    BY <1>11 DEF ApplyRefresh, daemonVars
  <2>2. r.s = Empty \/ r.s \in held
    BY <1>11 DEF ApplyRefresh, Inv, RefreshesHeld
  <2>3. cache' = cache \/ cache' = r.s
    BY <1>11 DEF ApplyRefresh
  <2>4. CacheWasHeld'
    BY <2>1, <2>2, <2>3 DEF CacheWasHeld, Inv, DaemonHeld, Empty
  <2>5. calls' = calls \/ PushPlan(r.s, r.plan)
    BY <1>11 DEF ApplyRefresh, NoCall
  <2>6. CallsGood'
    BY <2>1, <2>5, PushGood, SameHeldGood DEF Inv, CallsGood
  <2>7. QED
    BY <2>1, <2>4, <2>6 DEF Inv, DaemonHeld, RefreshesHeld
<1>12. ASSUME Refresh \/ \E why \in {"toggle", "delete"} : FaceCall(why) PROVE Inv'
  <2>1. UNCHANGED <<cfg, disk, held, granted, cache, override>>
    BY <1>12 DEF Refresh, FaceCall, Acts, daemonVars
  <2>2. RefreshesHeld'
    BY <1>12, <2>1, StartHeld DEF Refresh, FaceCall, Inv, RefreshesHeld
  <2>3. CallsGood'
    <3>1. CASE Refresh
      BY <2>1, <3>1 DEF Refresh, NoCall, Inv, CallsGood
    <3>2. ASSUME NEW why \in {"toggle", "delete"}, FaceCall(why) PROVE CallsGood'
      <4>1. Call("face", Empty, why)
        BY <3>2 DEF FaceCall
      <4>2. QED
        BY <2>1, <4>1, OwnNew, SameHeldGood DEF Inv
    <3>3. QED
      BY <1>12, <3>1, <3>2
  <2>4. QED
    BY <2>1, <2>2, <2>3 DEF Inv, DaemonHeld, CacheWasHeld
<1>13. ASSUME (\E w \in Changes(widgets) : Change(w)) \/ Confirm PROVE Inv'
  <2>1. UNCHANGED <<cfg, disk, held, granted, cache, refreshes>>
    BY <1>13 DEF Change, Confirm, Acts, daemonVars
  <2>2. \E w, why : SettingChanged(w, why)
    BY <1>13 DEF Change, Confirm
  <2>3. CallsGood' /\ override' = FALSE
    BY <2>1, <2>2, SettingGood, SameHeldGood DEF Inv
  <2>4. QED
    BY <2>1, <2>3 DEF Inv, DaemonHeld, RefreshesHeld, CacheWasHeld
<1>14. ASSUME Cancel \/ Animate \/ \E pin \in Pins : Type(pin) PROVE Inv'
  <2>1. UNCHANGED <<cfg, disk, held, granted, calls, cache, refreshes, override>>
    BY <1>14 DEF Cancel, Animate, Type, Acts, NoCall, daemonVars
  <2>2. QED
    BY <2>1, Quiet DEF Inv, DaemonHeld, CallsGood
<1>15. ASSUME AutoTune PROVE Inv'
  <2>1. UNCHANGED <<cfg, disk, held, granted, cache, refreshes, override>>
    BY <1>15 DEF AutoTune, Acts, daemonVars
  <2>2. \E s : Call("set", s, "tune")
    BY <1>15 DEF AutoTune
  <2>3. CallsGood'
    BY <2>1, <2>2, OwnNew, SameHeldGood DEF Inv
  <2>4. QED
    BY <2>1, <2>3, Quiet DEF Inv, DaemonHeld
<1>16. ASSUME ApplyCamera \/ \E x \in Wishes : Wish(x) PROVE Inv'
  <2>1. UNCHANGED <<cfg, disk, held, granted, cache, refreshes, override>>
    BY <1>16 DEF ApplyCamera, Wish, Acts, daemonVars
  <2>2. calls' = calls \/ \E s, plan : PushPlan(s, plan)
    BY <1>16 DEF ApplyCamera, Wish, NoCall
  <2>3. CallsGood'
    BY <2>1, <2>2, PushGood, SameHeldGood DEF Inv, CallsGood
  <2>4. QED
    BY <2>1, <2>3, Quiet DEF Inv, DaemonHeld
<1>17. ASSUME UNCHANGED vars PROVE Inv'
  <2>1. UNCHANGED <<cfg, disk, held, granted, calls, cache, refreshes, override>>
    BY <1>17 DEF vars
  <2>2. QED
    BY <2>1, Quiet DEF Inv, DaemonHeld, CallsGood
<1>18. QED
  BY <1>1, <1>2, <1>3, <1>4, <1>5, <1>6, <1>7, <1>8, <1>9, <1>10, <1>11, <1>12, <1>13,
     <1>14, <1>15, <1>16, <1>17 DEF Next, Loading

\* Every reachable state satisfies the invariant.
THEOREM Invariance == Spec => []Inv
BY InitInv, NextInv, PTL DEF Spec

\* What the window's next save starts from is a configuration the daemon has had.
THEOREM CacheHeld == Spec => []CacheWasHeld
<1>1. Inv => CacheWasHeld
  BY DEF Inv
<1>2. QED
  BY <1>1, Invariance, PTL

\* No save turns Heavy on unconfirmed while the landmarks are known to be missing.
THEOREM HeavyIsConfirmed == Spec => []HeavyConfirmed
<1>1. Inv => HeavyConfirmed
  BY DEF Inv, CallsGood, Good, HeavyConfirmed
<1>2. QED
  BY <1>1, Invariance, PTL

\* The daemon runs only with protected settings that it was found with or that
\* an administrator agreed to, for any number of saves that overlap.
THEOREM OnlyGranted == Spec => []ProtectedGranted
<1>1. Inv => ProtectedGranted
  BY DEF Inv, DaemonHeld, ProtectedGranted
<1>2. QED
  BY <1>1, Invariance, PTL

-----------------------------------------------------------------------------
(* The newest refresh is the one that is shown.  Refreshes that come back  *)
(* late are dropped, so that the one on whose number the window waits must *)
(* still be under way.                                                     *)

Underway == applied = generation \/ \E r \in refreshes : r.gen = generation

LEMMA StartUnderway == ASSUME StartRefresh PROVE Underway'
<1> DEFINE r == [gen |-> generation', stage |-> "started"]
<1>1. r \in refreshes' /\ r.gen = generation'
  BY DEF StartRefresh
<1> HIDE DEF r
<1>2. QED
  BY <1>1 DEF Underway

LEMMA NextUnderway == Underway /\ [Next]_vars => Underway'
<1> SUFFICES ASSUME Underway, [Next]_vars PROVE Underway'
  OBVIOUS
<1>1. CASE UNCHANGED <<applied, generation, refreshes>>
  BY <1>1 DEF Underway
<1>2. CASE StartRefresh
  BY <1>2, StartUnderway
<1>3. ASSUME NEW r \in refreshes, LoadSettings(r) \/ LoadRest(r) PROVE Underway'
  <2>1. applied' = applied /\ generation' = generation
    BY <1>3 DEF LoadSettings, LoadRest
  <2>2. \E l : refreshes' = (refreshes \ {r}) \cup {l} /\ l.gen = r.gen
    <3>1. CASE LoadSettings(r)
      <4> DEFINE l == [gen |-> r.gen, stage |-> "asked", s |-> IF up THEN cfg ELSE Empty]
      <4>1. l.gen = r.gen /\ refreshes' = (refreshes \ {r}) \cup {l}
        BY <3>1 DEF LoadSettings
      <4> HIDE DEF l
      <4>2. QED
        BY <4>1
    <3>2. CASE LoadRest(r)
      <4> DEFINE errors == ~up \/ DOMAIN r.s = {}
                 there == up /\ worker
                 marks == IF there THEN landmarks ELSE None
                 plan == ResolvePlan(LoadPrefs(stored), Found[nodes])
                 l == [gen |-> r.gen, stage |-> "loaded", s |-> r.s, errors |-> errors,
                       worker |-> there, cams |-> Found[nodes], landmarksOk |-> marks,
                       plan |-> plan]
      <4>1. refreshes' = (refreshes \ {r}) \cup {l}
        BY <3>2 DEF LoadRest
      <4> HIDE DEF errors, there, marks, plan
      <4>2. l.gen = r.gen
        OBVIOUS
      <4> HIDE DEF l
      <4>3. QED
        BY <4>1, <4>2
    <3>3. QED
      BY <1>3, <3>1, <3>2
  <2>3. QED
    BY <2>1, <2>2 DEF Underway
<1>4. ASSUME NEW r \in refreshes, ApplyRefresh(r) PROVE Underway'
  <2>1. generation' = generation /\ refreshes' = refreshes \ {r}
    BY <1>4 DEF ApplyRefresh
  <2>2. CASE r.gen = generation
    BY <1>4, <2>1, <2>2 DEF ApplyRefresh, Underway
  <2>3. CASE r.gen # generation
    BY <1>4, <2>1, <2>3 DEF ApplyRefresh, Underway
  <2>4. QED
    BY <2>2, <2>3
<1>5. \/ UNCHANGED <<applied, generation, refreshes>> \/ StartRefresh
      \/ \E r \in refreshes : LoadSettings(r) \/ LoadRest(r) \/ ApplyRefresh(r)
  <2>1. ASSUME NEW c \in calls,
               Ask(c) \/ Refuse(c) \/ Install(c) \/ PamAuthUpdate(c) \/ Templates(c)
        PROVE  UNCHANGED <<applied, generation, refreshes>>
    BY <2>1 DEF Ask, Refuse, Install, PamAuthUpdate, Templates, Others
  <2>2. ASSUME NEW c \in calls, Reply(c) \/ TimesOut(c)
        PROVE  UNCHANGED <<applied, generation, refreshes>> \/ StartRefresh
    BY <2>2 DEF Reply, TimesOut
  <2>3. ASSUME GoDown \/ ComeUp \/ WorkerGoes \/ Plug \/ Cancel \/ Confirm \/ ApplyCamera
        PROVE  UNCHANGED <<applied, generation, refreshes>>
    BY <2>3 DEF GoDown, ComeUp, WorkerGoes, Plug, Cancel, Confirm, ApplyCamera, Others
  <2>4. ASSUME \/ \E why \in {"toggle", "delete"} : FaceCall(why)
               \/ \E w \in Changes(widgets) : Change(w)
               \/ \E x \in Wishes : Wish(x)
               \/ \E pin \in Pins : Type(pin)
               \/ AutoTune \/ Animate
        PROVE  UNCHANGED <<applied, generation, refreshes>>
    BY <2>4 DEF FaceCall, Change, Wish, Type, AutoTune, Animate, Acts
  <2>5. ASSUME Refresh
        PROVE  StartRefresh
    BY <2>5 DEF Refresh
  <2>6. ASSUME UNCHANGED vars
        PROVE  UNCHANGED <<applied, generation, refreshes>>
    BY <2>6 DEF vars
  <2>7. QED
    BY <2>1, <2>2, <2>3, <2>4, <2>5, <2>6 DEF Next, Loading
<1>6. QED
  BY <1>1, <1>2, <1>3, <1>4, <1>5

\* When no refresh is under way the page shows what the newest one found.
THEOREM NewestShown == Spec => []NewestIsShown
<1>1. Init => Underway
  BY DEF Init, Underway
<1>2. Underway => NewestIsShown
  BY DEF Underway, NewestIsShown
<1>3. QED
  BY <1>1, <1>2, NextUnderway, PTL DEF Spec

-----------------------------------------------------------------------------
(* Plans.  What the window plans with are cameras that discover found, and *)
(* preferences that load has looked at or the window has set itself.       *)

HasMode(p) == p = [k \in DOMAIN p |-> p[k]] /\ "camera_mode" \in DOMAIN p
              /\ p.camera_mode \in CameraModes

PlanInv ==
    /\ nodes \in Machines
    /\ CameraSet(discovery)
    /\ \A r \in refreshes : r.stage = "loaded" => CameraSet(r.cams)
    /\ HasMode(prefs)

\* Whatever the file says, a mode comes out of it.
LEMMA LoadsMode ==
    ASSUME NEW file
    PROVE  HasMode(LoadPrefs(file))
<1> DEFINE f == [k \in DOMAIN file |-> IF Sound(k, file[k]) THEN file[k] ELSE DefaultPrefs[k]]
           p == Over(f, DefaultPrefs)
<1>1. "camera_mode" \in DOMAIN DefaultPrefs /\ DefaultPrefs["camera_mode"] \in CameraModes
  BY DEF DefaultPrefs, CameraModes
<1>2. "camera_mode" \in DOMAIN p /\ p = [k \in DOMAIN p |-> p[k]]
  <2> HIDE DEF f
  <2>1. QED
    BY <1>1 DEF Over
<1>3. p["camera_mode"] \in CameraModes
  <2>1. CASE "camera_mode" \in DOMAIN file
    <3>1. p["camera_mode"] = IF Sound("camera_mode", file["camera_mode"])
                             THEN file["camera_mode"] ELSE DefaultPrefs["camera_mode"]
      BY <2>1 DEF Over
    <3>2. Sound("camera_mode", file["camera_mode"]) => file["camera_mode"] \in CameraModes
      BY DEF Sound, CameraModes
    <3>3. QED
      BY <1>1, <3>1, <3>2
  <2>2. CASE "camera_mode" \notin DOMAIN file
    <3>1. p["camera_mode"] = DefaultPrefs["camera_mode"]
      BY <1>1, <2>2 DEF Over
    <3>2. QED
      BY <1>1, <3>1
  <2>3. QED
    BY <2>1, <2>2
<1>4. QED
  BY <1>2, <1>3 DEF LoadPrefs, HasMode

\* A preference that is changed is not the mode, or a mode is put there.
LEMMA KeepsMode ==
    ASSUME NEW p, HasMode(p), NEW k, NEW v, k = "camera_mode" => v \in CameraModes
    PROVE  HasMode([p EXCEPT ![k] = v])
<1>1. CASE k = "camera_mode"
  BY <1>1 DEF HasMode
<1>2. CASE k # "camera_mode"
  BY <1>2 DEF HasMode
<1>3. QED
  BY <1>1, <1>2

LEMMA FoundCameras ==
    ASSUME NEW m \in Machines
    PROVE  CameraSet(Found[m])
<1>1. CameraSet(Discover(m))
  BY SettingsAssumption, DiscoverFinds
<1>2. QED
  BY <1>1 DEF Found

LEMMA InitPlan == Init => PlanInv
<1> SUFFICES ASSUME Init PROVE PlanInv
  OBVIOUS
<1>1. nodes \in Machines
  BY SettingsAssumption DEF Init
<1>2. CameraSet(discovery)
  BY FS_EmptySet DEF Init, Empty, CameraSet
<1>3. \A r \in refreshes : r.stage # "loaded"
  BY DEF Init
<1>4. HasMode(prefs)
  <2>1. PICK file : OpenWindow(file)
    BY DEF Init
  <2>2. CASE HasUserValue(file, "animations_enabled")
    BY <2>1, <2>2, LoadsMode DEF OpenWindow
  <2>3. CASE ~HasUserValue(file, "animations_enabled")
    <3>1. PICK motion : prefs = [LoadPrefs(file) EXCEPT !.animations_enabled = motion]
      BY <2>1, <2>3 DEF OpenWindow
    <3>2. HasMode([LoadPrefs(file) EXCEPT !["animations_enabled"] = motion])
      BY LoadsMode, KeepsMode
    <3>3. QED
      BY <3>1, <3>2
  <2>4. QED
    BY <2>2, <2>3
<1>5. QED
  BY <1>1, <1>2, <1>3, <1>4 DEF PlanInv

LEMMA StartPlan ==
    ASSUME PlanInv, StartRefresh
    PROVE  \A r \in refreshes' : r.stage = "loaded" => CameraSet(r.cams)
<1> DEFINE l == [gen |-> generation', stage |-> "started"]
<1>1. refreshes' = refreshes \cup {l} /\ l.stage # "loaded"
  BY DEF StartRefresh
<1> HIDE DEF l
<1>2. QED
  BY <1>1 DEF PlanInv

LEMMA NextPlan == PlanInv /\ [Next]_vars => PlanInv'
<1> SUFFICES ASSUME PlanInv, [Next]_vars PROVE PlanInv'
  OBVIOUS
<1>1. ASSUME NEW r \in refreshes, LoadSettings(r) \/ LoadRest(r) PROVE PlanInv'
  <2>1. UNCHANGED <<nodes, discovery, prefs>>
    BY <1>1 DEF LoadSettings, LoadRest, windowVars
  <2>2. \E l : /\ refreshes' = (refreshes \ {r}) \cup {l}
               /\ l.stage = "loaded" => CameraSet(l.cams)
    <3>1. CASE LoadSettings(r)
      <4> DEFINE l == [gen |-> r.gen, stage |-> "asked", s |-> IF up THEN cfg ELSE Empty]
      <4>1. l.stage # "loaded" /\ refreshes' = (refreshes \ {r}) \cup {l}
        BY <3>1 DEF LoadSettings
      <4> HIDE DEF l
      <4>2. QED
        BY <4>1
    <3>2. CASE LoadRest(r)
      <4> DEFINE errors == ~up \/ DOMAIN r.s = {}
                 there == up /\ worker
                 marks == IF there THEN landmarks ELSE None
                 plan == ResolvePlan(LoadPrefs(stored), Found[nodes])
                 l == [gen |-> r.gen, stage |-> "loaded", s |-> r.s, errors |-> errors,
                       worker |-> there, cams |-> Found[nodes], landmarksOk |-> marks,
                       plan |-> plan]
      <4>1. refreshes' = (refreshes \ {r}) \cup {l}
        BY <3>2 DEF LoadRest
      <4> HIDE DEF errors, there, marks, plan
      <4>2. l.cams = Found[nodes]
        OBVIOUS
      <4> HIDE DEF l
      <4>3. CameraSet(l.cams)
        BY <4>2, FoundCameras DEF PlanInv
      <4>4. QED
        BY <4>1, <4>3
    <3>3. QED
      BY <1>1, <3>1, <3>2
  <2>3. QED
    BY <2>1, <2>2 DEF PlanInv
<1>2. ASSUME NEW r \in refreshes, ApplyRefresh(r) PROVE PlanInv'
  <2>1. nodes' = nodes /\ refreshes' \subseteq refreshes /\ r.stage = "loaded"
    BY <1>2 DEF ApplyRefresh
  <2>2. discovery' \in {discovery, r.cams} /\ prefs' \in {prefs, LoadPrefs(stored)}
    BY <1>2 DEF ApplyRefresh
  <2>3. QED
    BY <2>1, <2>2, LoadsMode DEF PlanInv
<1>3. ASSUME \/ Animate \/ AutoTune \/ ApplyCamera \/ \E x \in Wishes : Wish(x)
      PROVE  PlanInv'
  <2>1. UNCHANGED <<nodes, discovery, refreshes>>
    BY <1>3 DEF Animate, AutoTune, ApplyCamera, Wish, Acts
  <2>2. HasMode(prefs')
    <3>1. CASE Animate
      BY <3>1, KeepsMode DEF Animate, PlanInv
    <3>2. CASE AutoTune
      <4>1. Suggested[nodes].camera_mode \in CameraModes
        BY SuggestsMode DEF Suggested, PlanInv
      <4>2. prefs' = [prefs EXCEPT !["camera_mode"] = Suggested[nodes].camera_mode]
        BY <3>2 DEF AutoTune
      <4>3. QED
        BY <4>1, <4>2, KeepsMode DEF PlanInv
    <3>3. CASE ApplyCamera
      <4>1. prefs' = [prefs EXCEPT !["rgb_dev"] = widgets.pin]
        BY <3>3 DEF ApplyCamera
      <4>2. QED
        BY <4>1, KeepsMode DEF PlanInv
    <3>4. ASSUME NEW x \in Wishes, Wish(x) PROVE HasMode(prefs')
      <4>1. prefs' = [prefs EXCEPT !["camera_mode"] = x] /\ x \in CameraModes
        BY <3>4, SettingsAssumption DEF Wish, CameraModes
      <4>2. QED
        BY <4>1, KeepsMode DEF PlanInv
    <3>5. QED
      BY <1>3, <3>1, <3>2, <3>3, <3>4
  <2>3. QED
    BY <2>1, <2>2 DEF PlanInv, HasMode
<1>4. ASSUME nodes' \in Machines, UNCHANGED <<discovery, prefs>>,
             refreshes' = refreshes \/ StartRefresh
      PROVE  PlanInv'
  BY <1>4, StartPlan DEF PlanInv
<1>5. \/ /\ nodes' \in Machines /\ UNCHANGED <<discovery, prefs>>
         /\ refreshes' = refreshes \/ StartRefresh
      \/ \E r \in refreshes : LoadSettings(r) \/ LoadRest(r) \/ ApplyRefresh(r)
      \/ Animate \/ AutoTune \/ ApplyCamera \/ \E x \in Wishes : Wish(x)
  <2> DEFINE Quietly == /\ nodes' \in Machines /\ UNCHANGED <<discovery, prefs>>
                        /\ refreshes' = refreshes \/ StartRefresh
  <2>0. nodes \in Machines
    BY DEF PlanInv
  <2>1. ASSUME NEW c \in calls,
               \/ Ask(c) \/ Refuse(c) \/ Install(c) \/ PamAuthUpdate(c) \/ Templates(c)
               \/ Reply(c) \/ TimesOut(c)
        PROVE  Quietly
    BY <2>0, <2>1 DEF Ask, Refuse, Install, PamAuthUpdate, Templates, Reply, TimesOut,
                      Others, windowVars
  <2>2. ASSUME GoDown \/ ComeUp \/ WorkerGoes \/ Plug \/ Cancel \/ Confirm
        PROVE  Quietly
    BY <2>0, <2>2 DEF GoDown, ComeUp, WorkerGoes, Plug, Cancel, Confirm, Others, windowVars
  <2>3. ASSUME \/ \E why \in {"toggle", "delete"} : FaceCall(why)
               \/ \E w \in Changes(widgets) : Change(w)
               \/ \E pin \in Pins : Type(pin)
               \/ Refresh
        PROVE  Quietly
    BY <2>0, <2>3 DEF FaceCall, Change, Type, Refresh, Acts
  <2>4. ASSUME UNCHANGED vars
        PROVE  Quietly
    BY <2>0, <2>4 DEF vars
  <2>5. QED
    BY <2>1, <2>2, <2>3, <2>4 DEF Next, Loading
<1>6. QED
  BY <1>1, <1>2, <1>3, <1>4, <1>5

\* Whatever machine it is, whatever is plugged in and out, wished for, pinned or
\* found in the file, what the window plans with is sound.
THEOREM PlansSound == Spec => []PlanSound
<1>1. PlanInv => PlanSound
  <2> SUFFICES ASSUME PlanInv PROVE PlanSound
    OBVIOUS
  <2>1. SoundPlan(ResolvePlan(prefs, discovery), discovery)
    BY PlansAreSound, SettingsAssumption DEF PlanInv, HasMode
  <2>2. QED
    BY <2>1 DEF SoundPlan, PlanSound
<1>2. QED
  BY <1>1, InitPlan, NextPlan, PTL DEF Spec

-----------------------------------------------------------------------------
(* Types.  JSON may lack keys on its way to the daemon, but what it has    *)
(* fits; so does what is laid over it, and what serde makes of it.         *)

\* What the daemon takes for a mode; the window never asks for "both".
DaemonModes == {"rgb", "ir", "both", "hybrid", "auto"}

ValuesOf(k) ==
    CASE k \in {"enabled", "timeline"} -> BOOLEAN
      [] k = "strictness" -> {"off", "light", "heavy"}
      [] k = "tau"        -> {"default", "measured", "rgb", "ir"}
      [] k = "mode"       -> DaemonModes
      [] OTHER            -> Nat \cup {None}

Fits(s) == \A k \in DOMAIN s : k \in Keys /\ s[k] \in ValuesOf(k)

LEMMA ConfigFits ==
    ASSUME NEW s \in Configs
    PROVE  Fits(s) /\ DOMAIN s = Keys
<1>1. DOMAIN s = Keys
  BY DEF Configs, Keys
<1>2. /\ s["enabled"] \in BOOLEAN /\ s["timeline"] \in BOOLEAN
      /\ s["strictness"] \in {"off", "light", "heavy"}
      /\ s["tau"] \in {"default", "measured", "rgb", "ir"}
      /\ s["mode"] \in DaemonModes
      /\ s["camera"] \in Nat \cup {None} /\ s["ir_camera"] \in Nat \cup {None}
  BY DEF Configs, DaemonModes
<1>3. QED
  BY <1>1, <1>2 DEF Fits, ValuesOf, Keys

LEMMA FittingConfig ==
    ASSUME NEW s, s = [k \in Keys |-> s[k]], Fits(s)
    PROVE  s \in Configs
<1>1. DOMAIN s = Keys
  OBVIOUS
<1>2. /\ s["enabled"] \in BOOLEAN /\ s["timeline"] \in BOOLEAN
      /\ s["strictness"] \in {"off", "light", "heavy"}
      /\ s["tau"] \in {"default", "measured", "rgb", "ir"}
      /\ s["mode"] \in DaemonModes
      /\ s["camera"] \in Nat \cup {None} /\ s["ir_camera"] \in Nat \cup {None}
  BY <1>1 DEF Fits, ValuesOf, Keys
<1>3. QED
  BY <1>1, <1>2 DEF Configs, DaemonModes, Keys

LEMMA OverFits ==
    ASSUME NEW f, Fits(f), NEW g, Fits(g)
    PROVE  /\ Fits(Over(f, g)) /\ DOMAIN f \subseteq DOMAIN Over(f, g)
           /\ \A k \in DOMAIN f : Over(f, g)[k] = f[k]
BY DEF Fits, Over

LEMMA DefaultsFit == Defaults \in Configs
BY DEF Defaults, Configs

LEMMA ParsedConfig ==
    ASSUME NEW s, Fits(s)
    PROVE  Parsed(s) \in Configs
<1>1. Fits(Defaults) /\ DOMAIN Defaults = Keys
  BY DefaultsFit, ConfigFits
<1>2. Fits(Parsed(s))
  BY <1>1, OverFits DEF Parsed
<1>3. DOMAIN s \cup DOMAIN Defaults = Keys
  BY <1>1 DEF Fits
<1>4. Parsed(s) = [k \in Keys |-> Parsed(s)[k]]
  BY <1>3 DEF Parsed, Over
<1>5. QED
  BY <1>2, <1>4, FittingConfig

LEMMA EmptyFits == Fits(Empty)
BY DEF Fits, Empty

LEMMA PlanFits ==
    ASSUME NEW cams, CameraSet(cams), NEW p, p.camera_mode \in CameraModes
    PROVE  Fits(ResolvePlan(p, cams))
<1> DEFINE rgb == PinnedOr(p.rgb_dev, "rgb", cams)
           ir  == PinnedOr(p.ir_dev, "ir", cams)
           plan == ResolvePlan(p, cams)
<1>1. rgb \in Nat \cup {None} /\ ir \in Nat \cup {None}
  BY Pinned, SettingsAssumption DEF CameraSet
<1>2. /\ plan.camera = rgb /\ plan.ir_camera \in {None, ir}
      /\ plan.mode \in CameraModes
      /\ DOMAIN plan = {"mode", "camera", "ir_camera"}
  <2> HIDE DEF rgb, ir
  <2>1. CASE ir = None
    BY <2>1 DEF ResolvePlan, rgb, ir, CameraModes
  <2>2. CASE ir # None
    BY <2>2 DEF ResolvePlan, rgb, ir, CameraModes
  <2>3. QED
    BY <2>1, <2>2
<1> HIDE DEF rgb, ir, plan
<1>3. QED
  BY <1>1, <1>2 DEF Fits, ValuesOf, Keys, plan, CameraModes, DaemonModes

\* What auto_tune suggests, less the window's own mode.
LEMMA SuggestionFits ==
    ASSUME NEW m
    PROVE  LET sug == HardwareSuggestion(m) IN
           Fits([k \in DOMAIN sug \ {"camera_mode"} |-> sug[k]])
<1> DEFINE luma == SampleLight(m, Pick(Discover(m), "ir"))
           live == luma # None /\ luma >= IrUsableLuma
           sug == HardwareSuggestion(m)
<1>1. \E want, mode \in CameraModes, tau \in {"rgb", "ir"} :
         sug = [camera_mode |-> want, mode |-> mode, strictness |-> "light", tau |-> tau]
  <2>1. CASE Pick(Discover(m), "rgb") # None /\ Pick(Discover(m), "ir") # None /\ live
    BY <2>1 DEF HardwareSuggestion, CameraModes
  <2>2. CASE Pick(Discover(m), "rgb") # None /\ (Pick(Discover(m), "ir") = None \/ ~live)
    BY <2>2 DEF HardwareSuggestion, CameraModes
  <2>3. CASE Pick(Discover(m), "rgb") = None /\ Pick(Discover(m), "ir") # None
    BY <2>3 DEF HardwareSuggestion, CameraModes
  <2>4. CASE Pick(Discover(m), "rgb") = None /\ Pick(Discover(m), "ir") = None
    BY <2>4 DEF HardwareSuggestion, CameraModes
  <2>5. QED
    BY <2>1, <2>2, <2>3, <2>4
<1> HIDE DEF sug
<1>2. QED
  BY <1>1 DEF Fits, ValuesOf, Keys, sug, CameraModes, DaemonModes

\* What postinst writes is a configuration.
LEMMA FreshConfig ==
    ASSUME NEW m \in Machines
    PROVE  Fresh(m) \in Configs
<1> DEFINE cams == Discover(m)
           lines == ConfigLines(AutoConfig(None, None, cams))
           rest == [Defaults EXCEPT !.mode = "auto"]
<1>1. CameraSet(cams)
  BY SettingsAssumption, DiscoverFinds
<1>2. Fits(lines)
  <2> DEFINE plan == AutoConfig(None, None, cams)
  <2>1. plan.camera \in Nat \cup {None} /\ plan.ir_camera \in Nat \cup {None}
    <3>1. None \notin DOMAIN cams
      BY <1>1, SettingsAssumption DEF CameraSet
    <3>2. plan.camera = Pick(cams, "rgb") /\ plan.ir_camera = Pick(cams, "ir")
      BY <3>1 DEF AutoConfig
    <3>3. QED
      BY <1>1, <3>2, Picked DEF CameraSet
  <2> HIDE DEF plan
  <2>2. QED
    BY <2>1 DEF ConfigLines, Fits, ValuesOf, Keys, plan
<1>3. rest \in Configs
  BY DefaultsFit DEF Configs
<1>4. Fresh(m) = Over(lines, rest)
  BY DEF Fresh
<1> HIDE DEF lines, rest
<1>5. Fits(rest) /\ DOMAIN rest = Keys
  BY <1>3, ConfigFits
<1>6. Fits(Over(lines, rest))
  BY <1>2, <1>5, OverFits
<1>7. DOMAIN lines \cup DOMAIN rest = Keys
  BY <1>2, <1>5 DEF Fits
<1>8. Over(lines, rest) = [k \in Keys |-> Over(lines, rest)[k]]
  BY <1>7 DEF Over
<1>9. QED
  BY <1>4, <1>6, <1>8, FittingConfig

-----------------------------------------------------------------------------
(* The preferences.                                                        *)

PrefsTyped(p) ==
    /\ p = [k \in DOMAIN p |-> p[k]] /\ DOMAIN DefaultPrefs \subseteq DOMAIN p
    /\ \A k \in DOMAIN DefaultPrefs : Sound(k, p[k])

LEMMA LoadsPrefs ==
    ASSUME NEW file
    PROVE  PrefsTyped(LoadPrefs(file))
<1> DEFINE f == [k \in DOMAIN file |-> IF Sound(k, file[k]) THEN file[k] ELSE DefaultPrefs[k]]
           p == Over(f, DefaultPrefs)
<1>1. \A k \in DOMAIN DefaultPrefs : Sound(k, DefaultPrefs[k])
  <2>1. DOMAIN DefaultPrefs = {"camera_mode", "rgb_dev", "ir_dev", "animations_enabled"}
    BY DEF DefaultPrefs
  <2>2. DefaultPrefs["camera_mode"] = "auto"
    BY DEF DefaultPrefs
  <2>3. DefaultPrefs["rgb_dev"] = None /\ DefaultPrefs["ir_dev"] = None
    BY DEF DefaultPrefs
  <2>4. DefaultPrefs["animations_enabled"] \in BOOLEAN
    BY DEF DefaultPrefs
  <2>5. /\ Sound("camera_mode", DefaultPrefs["camera_mode"])
        /\ Sound("rgb_dev", DefaultPrefs["rgb_dev"]) /\ Sound("ir_dev", DefaultPrefs["ir_dev"])
    BY <2>2, <2>3 DEF Sound
  <2>6. Sound("animations_enabled", DefaultPrefs["animations_enabled"])
    BY <2>4 DEF Sound
  <2>7. QED
    BY <2>1, <2>5, <2>6
<1>2. DOMAIN p = DOMAIN file \cup DOMAIN DefaultPrefs /\ p = [k \in DOMAIN p |-> p[k]]
  BY DEF Over
<1>3. ASSUME NEW k \in DOMAIN DefaultPrefs
      PROVE  Sound(k, p[k])
  <2>1. CASE k \in DOMAIN file
    <3>1. p[k] = IF Sound(k, file[k]) THEN file[k] ELSE DefaultPrefs[k]
      BY <2>1, Zenon DEF Over
    <3>2. CASE Sound(k, file[k])
      BY <3>1, <3>2, Zenon
    <3>3. CASE ~Sound(k, file[k])
      BY <1>1, <3>1, <3>3, Zenon
    <3>4. QED
      BY <3>2, <3>3
  <2>2. CASE k \notin DOMAIN file
    <3>1. p[k] = DefaultPrefs[k]
      BY <2>2, Zenon DEF Over
    <3>2. QED
      BY <1>1, <3>1, Zenon
  <2>3. QED
    BY <2>1, <2>2
<1>4. LoadPrefs(file) = p
  BY DEF LoadPrefs
<1> HIDE DEF p
<1>5. QED
  BY <1>2, <1>3, <1>4 DEF PrefsTyped

LEMMA KeepsPrefs ==
    ASSUME NEW p, PrefsTyped(p), NEW k \in DOMAIN DefaultPrefs, NEW v, Sound(k, v)
    PROVE  PrefsTyped([p EXCEPT ![k] = v])
<1> DEFINE q == [p EXCEPT ![k] = v]
<1>1. /\ DOMAIN q = DOMAIN p /\ q = [x \in DOMAIN q |-> q[x]]
      /\ q[k] = v /\ \A x \in DOMAIN p : x # k => q[x] = p[x]
  BY DEF PrefsTyped
<1> HIDE DEF q
<1>2. ASSUME NEW x \in DOMAIN DefaultPrefs
      PROVE  Sound(x, q[x])
  <2>1. CASE x = k
    BY <1>1, <2>1, Zenon
  <2>2. CASE x # k
    BY <1>1, <2>2, Zenon DEF PrefsTyped
  <2>3. QED
    BY <2>1, <2>2
<1>3. QED
  BY <1>1, <1>2 DEF PrefsTyped, q

\* A camera that is pinned, and the mode that is wished for.
LEMMA PinsTyped ==
    ASSUME NEW p, PrefsTyped(p)
    PROVE  p.rgb_dev \in Nat \cup {None} /\ p.camera_mode \in CameraModes
<1>1. Sound("rgb_dev", p["rgb_dev"]) /\ Sound("camera_mode", p["camera_mode"])
  BY DEF PrefsTyped, DefaultPrefs
<1>2. QED
  BY <1>1 DEF Sound, CameraModes

-----------------------------------------------------------------------------
(* The calls.                                                              *)

\* What a call asks for fits, and one that changes the PAM profile says how.
Request(c) ==
    /\ IsCall(c)
    /\ c.kind \in {"set", "pam", "face"} /\ c.stage \in {"sent", "asked", "done"}
    /\ Fits(c.s) /\ (c.kind = "pam" => "enabled" \in DOMAIN c.s)

Requests == \A c \in calls : Request(c)

\* What is done to a call leaves what it asks for.
LEMMA RequestDone ==
    ASSUME NEW c, Request(c), NEW ok \in BOOLEAN
    PROVE  Request(Done(c, ok))
<1> DEFINE d == Done(c, ok)
<1>1. IsCall(d) /\ d.kind = c.kind /\ d.s = c.s /\ d.stage = "done"
  BY DEF Done, Request, IsCall, Fields
<1> HIDE DEF d
<1>2. QED
  BY <1>1 DEF Request, d

LEMMA RequestAsked ==
    ASSUME NEW c, Request(c), NEW sec
    PROVE  Request([c EXCEPT !.stage = "asked", !.secure = sec])
<1> DEFINE d == [c EXCEPT !.stage = "asked", !.secure = sec]
<1>1. IsCall(d) /\ d.kind = c.kind /\ d.s = c.s /\ d.stage = "asked"
  BY DEF Request, IsCall, Fields
<1> HIDE DEF d
<1>2. QED
  BY <1>1 DEF Request, d

LEMMA RequestGone ==
    ASSUME NEW c, Request(c)
    PROVE  Request([c EXCEPT !.gone = TRUE])
<1> DEFINE d == [c EXCEPT !.gone = TRUE]
<1>1. IsCall(d) /\ d.kind = c.kind /\ d.s = c.s /\ d.stage = c.stage
  BY DEF Request, IsCall, Fields
<1> HIDE DEF d
<1>2. QED
  BY <1>1 DEF Request, d

LEMMA RequestFollows ==
    ASSUME NEW c, Request(c), NEW stage \in {"sent", "done"}
    PROVE  Request([c EXCEPT !.kind = "set", !.ok = FALSE, !.stage = stage])
<1> DEFINE d == [c EXCEPT !.kind = "set", !.ok = FALSE, !.stage = stage]
<1>1. IsCall(d) /\ d.kind = "set" /\ d.s = c.s /\ d.stage = stage
  BY DEF Request, IsCall, Fields
<1> HIDE DEF d
<1>2. QED
  BY <1>1 DEF Request, d

LEMMA RequestNew ==
    ASSUME Requests, NEW kind \in {"set", "pam", "face"}, NEW s, NEW why, Call(kind, s, why),
           Fits(s), kind = "pam" => "enabled" \in DOMAIN s
    PROVE  Requests'
<1> DEFINE blind == /\ why = "changed" /\ Or(cache, "strictness", "light") # "heavy"
                    /\ landmarksOk = FALSE
           stage == IF up THEN "sent" ELSE "done"
           d == [id |-> FreeId, kind |-> kind, s |-> s, why |-> why, stage |-> stage,
                 ok |-> FALSE, secure |-> FALSE, gone |-> FALSE,
                 warned |-> warned, blind |-> blind]
<1>1. calls' = calls \cup {d}
  BY DEF Call
<1>2. IsCall(d) /\ d.s = s /\ d.kind = kind /\ d.stage \in {"sent", "done"}
  <2> HIDE DEF blind
  <2>1. QED
    BY DEF IsCall, Fields
<1> HIDE DEF d
<1>3. Request(d)
  BY <1>2 DEF Request
<1>4. QED
  BY <1>1, <1>3 DEF Requests

LEMMA RequestPushed ==
    ASSUME Requests, NEW s, Fits(s), NEW plan, Fits(plan), PushPlan(s, plan)
    PROVE  Requests'
<1>1. CASE DOMAIN s = {}
  BY <1>1 DEF PushPlan, NoCall, Requests
<1>2. CASE DOMAIN s # {}
  <2> DEFINE t == Over(plan, s)
  <2>1. Call("set", t, "plan") /\ Fits(t)
    BY <1>2, OverFits DEF PushPlan
  <2> HIDE DEF t
  <2>2. QED
    BY <2>1, RequestNew
<1>3. QED
  BY <1>1, <1>2

LEMMA RequestAnswered ==
    ASSUME Requests, NEW c \in calls, NEW ok \in BOOLEAN, Answer(c, ok)
    PROVE  Requests'
<1>1. calls' \subseteq calls \cup {Done(c, ok)}
  BY DEF Answer
<1>2. Request(Done(c, ok))
  BY RequestDone DEF Requests
<1>3. QED
  BY <1>1, <1>2 DEF Requests

LEMMA RequestGoes ==
    ASSUME Requests, NEW c, NEW d, Goes(c, d), Request(d)
    PROVE  Requests'
BY DEF Goes, Requests

-----------------------------------------------------------------------------
(* The window and what it loads.                                           *)

Widgets == [pin : Nat \cup {None}, enabled : BOOLEAN, strictness : {"off", "light", "heavy"},
            timeline : BOOLEAN]

WindowTyped ==
    /\ Fits(cache) /\ PrefsTyped(prefs) /\ widgets \in Widgets
    /\ dialog \in {None, "off", "light", "heavy"}

RefreshTyped(r, gen) ==
    /\ r.gen \in 0..gen /\ r.stage \in {"started", "asked", "loaded"}
    /\ r.stage # "started" => Fits(r.s)
    /\ r.stage = "loaded" => Fits(r.plan)

RefreshesTyped ==
    /\ generation \in Nat /\ applied \in 0..generation
    /\ \A r \in refreshes : RefreshTyped(r, generation)

DaemonTyped == cfg \in Configs /\ held \subseteq Configs /\ cfg \in held /\ disk \in held

FlagsTyped ==
    /\ {pam, up, worker, landmarks, timer, warned} \subseteq BOOLEAN
    /\ \A r \in refreshes : r.stage = "loaded" => r.errors \in BOOLEAN

\* A switch that is on, when the cache does not say.
LEMMA OrFits ==
    ASSUME NEW s, Fits(s), NEW k \in Keys, NEW default \in ValuesOf(k)
    PROVE  Or(s, k, default) \in ValuesOf(k)
<1>1. CASE k \in DOMAIN s
  BY <1>1 DEF Or, Fits
<1>2. CASE k \notin DOMAIN s
  BY <1>2 DEF Or
<1>3. QED
  BY <1>1, <1>2

LEMMA ShownTyped ==
    ASSUME NEW s, Fits(s), NEW p, PrefsTyped(p)
    PROVE  Shown(s, p) \in Widgets
<1> DEFINE on   == Or(s, "enabled", FALSE)
           how  == Or(s, "strictness", "light")
           line == Or(s, "timeline", FALSE)
           pin  == p.rgb_dev
<1>1. on \in BOOLEAN
  BY OrFits DEF ValuesOf, Keys
<1>2. line \in BOOLEAN
  BY OrFits DEF ValuesOf, Keys
<1>3. how \in {"off", "light", "heavy"}
  BY OrFits DEF ValuesOf, Keys
<1>4. pin \in Nat \cup {None}
  BY PinsTyped
<1>5. Shown(s, p) = [pin |-> pin, enabled |-> on, strictness |-> how, timeline |-> line]
  BY DEF Shown
<1> HIDE DEF on, how, line, pin
<1>6. QED
  BY <1>1, <1>2, <1>3, <1>4, <1>5 DEF Widgets

LEMMA ChangesTyped ==
    ASSUME NEW w \in Widgets, NEW v \in Changes(w)
    PROVE  v \in Widgets
<1> DEFINE on == ~w.enabled
           line == ~w.timeline
<1>1. on \in BOOLEAN /\ line \in BOOLEAN
  OBVIOUS
<1>2. \/ v = [w EXCEPT !.enabled = on] \/ v = [w EXCEPT !.timeline = line]
      \/ \E x \in {"light", "heavy"} : v = [w EXCEPT !.strictness = x]
  BY DEF Changes
<1> HIDE DEF on, line
<1>3. QED
  BY <1>1, <1>2 DEF Widgets

\* The page, laid over the cache, fits.
LEMMA PageFits ==
    ASSUME NEW w \in Widgets, Fits(cache)
    PROVE  LET s == Over([k \in {"enabled", "strictness", "timeline"} |-> w[k]], cache) IN
           Fits(s) /\ "enabled" \in DOMAIN s
<1> DEFINE page == [k \in {"enabled", "strictness", "timeline"} |-> w[k]]
<1>1. w["enabled"] \in BOOLEAN /\ w["timeline"] \in BOOLEAN
      /\ w["strictness"] \in {"off", "light", "heavy"}
  BY DEF Widgets
<1>2. Fits(page) /\ "enabled" \in DOMAIN page
  BY <1>1 DEF Fits, ValuesOf, Keys
<1> HIDE DEF page
<1>3. QED
  BY <1>2, OverFits DEF page

LEMMA SettingTyped ==
    ASSUME Requests, WindowTyped, NEW w \in Widgets, NEW why, SettingChanged(w, why)
    PROVE  Requests' /\ widgets' \in Widgets /\ dialog' \in {None, "off", "light", "heavy"}
<1> DEFINE asks == /\ w.strictness = "heavy" /\ Or(cache, "strictness", "light") # "heavy"
                   /\ landmarksOk = FALSE /\ ~override /\ why # "confirmed"
           s == Over([k \in {"enabled", "strictness", "timeline"} |-> w[k]], cache)
           kind == IF w.enabled # Or(cache, "enabled", FALSE) THEN "pam" ELSE "set"
<1>1. widgets' = w
  BY DEF SettingChanged
<1>2. CASE asks
  <2>1. dialog' = Or(cache, "strictness", "light") /\ calls' = calls
    BY <1>2 DEF SettingChanged, NoCall
  <2>2. Or(cache, "strictness", "light") \in {"off", "light", "heavy"}
    BY OrFits DEF ValuesOf, Keys, WindowTyped
  <2>3. QED
    BY <1>1, <2>1, <2>2 DEF Requests
<1>3. CASE ~asks
  <2>1. dialog' = None /\ Call(kind, s, why)
    BY <1>3 DEF SettingChanged, Save
  <2>2. Fits(s) /\ "enabled" \in DOMAIN s
    BY PageFits DEF WindowTyped
  <2>3. kind \in {"set", "pam", "face"}
    OBVIOUS
  <2> HIDE DEF s, kind
  <2>4. Requests'
    BY <2>1, <2>2, <2>3, RequestNew
  <2>5. QED
    BY <1>1, <2>1, <2>4
<1>4. QED
  BY <1>2, <1>3

Typed == Requests /\ WindowTyped /\ RefreshesTyped /\ DaemonTyped /\ FlagsTyped

-----------------------------------------------------------------------------
(* Every step keeps the types.                                             *)

LEMMA RequestsPreserved ==
    ASSUME Typed, PlanInv, [Next]_vars
    PROVE  Requests'
<1> USE DEF Typed
<1>1. ASSUME NEW c \in calls, Ask(c)
      PROVE  Requests'
  <2> DEFINE sec == c.kind # "set" \/ ProtectedChanged(cfg, Parsed(c.s)) # {}
             d == [c EXCEPT !.stage = "asked", !.secure = sec]
  <2>1. Goes(c, d)
    BY <1>1 DEF Ask
  <2>2. Request(d)
    BY RequestAsked DEF Requests
  <2> HIDE DEF d
  <2>3. QED
    BY <2>1, <2>2, RequestGoes
<1>2. ASSUME NEW c \in calls, Refuse(c) \/ Install(c) \/ PamAuthUpdate(c) \/ Templates(c)
      PROVE  Requests'
  <2>1. \E ok \in BOOLEAN : Answer(c, ok)
    BY <1>2 DEF Refuse, Install, PamAuthUpdate, Templates
  <2>2. QED
    BY <2>1, RequestAnswered
<1>3. ASSUME NEW c \in calls, Reply(c)
      PROVE  Requests'
  <2>1. CASE c.ok /\ c.kind = "pam"
    <3> DEFINE stage == IF up THEN "sent" ELSE "done"
               d == [c EXCEPT !.kind = "set", !.ok = FALSE, !.stage = stage]
    <3>1. Goes(c, d)
      BY <1>3, <2>1 DEF Reply, Goes
    <3>2. stage \in {"sent", "done"}
      OBVIOUS
    <3>3. Request(d)
      <4> HIDE DEF stage
      <4> QED  BY <3>2, RequestFollows DEF Requests
    <3> HIDE DEF d
    <3>4. QED
      BY <3>1, <3>3, RequestGoes
  <2>2. CASE ~(c.ok /\ c.kind = "pam")
    BY <1>3, <2>2 DEF Reply, Requests
  <2>3. QED
    BY <2>1, <2>2
<1>4. ASSUME NEW c \in calls, TimesOut(c)
      PROVE  Requests'
  BY <1>4, RequestGone, RequestGoes DEF TimesOut, Requests
<1>5. CASE GoDown
  <2>1. ASSUME NEW d \in calls'
        PROVE  d \in calls \/ \E c \in calls : d = Done(c, FALSE)
    BY <1>5 DEF GoDown
  <2>2. QED
    BY <2>1, RequestDone DEF Requests
<1>6. ASSUME NEW r \in refreshes, ApplyRefresh(r)
      PROVE  Requests'
  <2>1. calls' = calls \/ PushPlan(r.s, r.plan)
    BY <1>6 DEF ApplyRefresh, NoCall
  <2>2. Fits(r.s) /\ Fits(r.plan)
    BY <1>6 DEF ApplyRefresh, RefreshesTyped, RefreshTyped
  <2>3. QED
    BY <2>1, <2>2, RequestPushed DEF Requests
<1>7. ASSUME NEW why \in {"toggle", "delete"}, FaceCall(why)
      PROVE  Requests'
  BY <1>7, EmptyFits, RequestNew DEF FaceCall
<1>8. ASSUME NEW w \in Changes(widgets), Change(w)
      PROVE  Requests'
  BY <1>8, ChangesTyped, SettingTyped DEF Change, WindowTyped
<1>9. CASE Confirm
  BY <1>9, SettingTyped DEF Confirm, WindowTyped
<1>10. CASE AutoTune
  <2> DEFINE sug == Suggested[nodes]
             f == [k \in DOMAIN sug \ {"camera_mode"} |-> sug[k]]
             s == Over(f, cache)
  <2>1. Call("set", s, "tune")
    BY <1>10 DEF AutoTune
  <2>2. Fits(f)
    <3>1. sug = HardwareSuggestion(nodes)
      BY DEF Suggested, PlanInv
    <3>2. QED
      BY <3>1, SuggestionFits
  <2> HIDE DEF f
  <2>3. Fits(s)
    BY <2>2, OverFits DEF WindowTyped
  <2> HIDE DEF s
  <2>4. QED
    BY <2>1, <2>3, RequestNew
<1>11. ASSUME ApplyCamera \/ \E x \in Wishes : Wish(x)
       PROVE  Requests'
  <2>1. calls' = calls \/ PushPlan(cache, ResolvePlan(prefs', discovery))
    BY <1>11 DEF ApplyCamera, Wish, NoCall
  <2>2. HasMode(prefs') /\ CameraSet(discovery)
    BY NextPlan DEF PlanInv
  <2>3. Fits(ResolvePlan(prefs', discovery)) /\ Fits(cache)
    BY <2>2, PlanFits DEF HasMode, WindowTyped
  <2> DEFINE plan == ResolvePlan(prefs', discovery)
  <2> HIDE DEF plan
  <2>4. QED
    BY <2>1, <2>3, RequestPushed DEF Requests, plan
<1>12. ASSUME calls' = calls
       PROVE  Requests'
  BY <1>12 DEF Requests
<1>13. ASSUME \/ ComeUp \/ WorkerGoes \/ Plug \/ Refresh \/ Cancel \/ Animate
              \/ (\E r \in refreshes : LoadSettings(r) \/ LoadRest(r))
              \/ (\E pin \in Pins : Type(pin)) \/ UNCHANGED vars
       PROVE  calls' = calls
  BY <1>13 DEF ComeUp, WorkerGoes, Plug, Refresh, Cancel, Animate, LoadSettings, LoadRest,
               Type, NoCall, vars
<1>14. QED
  BY <1>1, <1>2, <1>3, <1>4, <1>5, <1>6, <1>7, <1>8, <1>9, <1>10, <1>11, <1>12, <1>13
     DEF Next, Loading

LEMMA RefreshesPreserved ==
    ASSUME Typed, PlanInv, [Next]_vars
    PROVE  RefreshesTyped'
<1> USE DEF Typed
<1>1. CASE UNCHANGED <<generation, applied, refreshes>>
  BY <1>1 DEF RefreshesTyped
<1>2. CASE StartRefresh /\ applied' = applied
  <2> DEFINE n == [gen |-> generation', stage |-> "started"]
  <2>1. generation' = generation + 1 /\ refreshes' = refreshes \cup {n}
    BY <1>2 DEF StartRefresh
  <2>2. RefreshTyped(n, generation')
    BY <2>1 DEF RefreshTyped, RefreshesTyped
  <2>3. \A r \in refreshes : RefreshTyped(r, generation')
    BY <2>1 DEF RefreshTyped, RefreshesTyped
  <2> HIDE DEF n
  <2>4. QED
    BY <1>2, <2>1, <2>2, <2>3 DEF RefreshesTyped
<1>3. ASSUME NEW r \in refreshes, LoadSettings(r)
      PROVE  RefreshesTyped'
  <2> DEFINE l == [gen |-> r.gen, stage |-> "asked", s |-> IF up THEN cfg ELSE Empty]
  <2>1. refreshes' = (refreshes \ {r}) \cup {l} /\ UNCHANGED <<generation, applied>>
    BY <1>3 DEF LoadSettings
  <2>2. Fits(l.s) /\ l.gen = r.gen /\ l.stage = "asked"
    BY ConfigFits, EmptyFits DEF DaemonTyped
  <2> HIDE DEF l
  <2>3. RefreshTyped(l, generation)
    BY <2>2 DEF RefreshTyped, RefreshesTyped
  <2>4. QED
    BY <2>1, <2>3 DEF RefreshesTyped
<1>4. ASSUME NEW r \in refreshes, LoadRest(r)
      PROVE  RefreshesTyped'
  <2> DEFINE errors == ~up \/ DOMAIN r.s = {}
             there == up /\ worker
             marks == IF there THEN landmarks ELSE None
             plan == ResolvePlan(LoadPrefs(stored), Found[nodes])
             l == [gen |-> r.gen, stage |-> "loaded", s |-> r.s, errors |-> errors,
                   worker |-> there, cams |-> Found[nodes], landmarksOk |-> marks,
                   plan |-> plan]
  <2>1. /\ refreshes' = (refreshes \ {r}) \cup {l} /\ UNCHANGED <<generation, applied>>
        /\ r.stage = "asked"
    BY <1>4 DEF LoadRest
  <2>2. Fits(plan)
    BY FoundCameras, LoadsMode, PlanFits DEF PlanInv, HasMode
  <2> HIDE DEF errors, there, marks, plan
  <2>3. l.gen = r.gen /\ l.stage = "loaded" /\ l.s = r.s /\ l.plan = plan
    OBVIOUS
  <2> HIDE DEF l
  <2>4. RefreshTyped(l, generation)
    BY <2>1, <2>2, <2>3 DEF RefreshTyped, RefreshesTyped
  <2>5. QED
    BY <2>1, <2>4 DEF RefreshesTyped
<1>5. ASSUME NEW r \in refreshes, ApplyRefresh(r)
      PROVE  RefreshesTyped'
  <2>1. /\ refreshes' \subseteq refreshes /\ generation' = generation
        /\ applied' \in {applied, r.gen}
    BY <1>5 DEF ApplyRefresh
  <2>2. QED
    BY <2>1 DEF RefreshesTyped, RefreshTyped
<1>6. \/ UNCHANGED <<applied, generation, refreshes>>
      \/ StartRefresh /\ applied' = applied
      \/ \E r \in refreshes : LoadSettings(r) \/ LoadRest(r) \/ ApplyRefresh(r)
  <2>1. ASSUME NEW c \in calls,
               Ask(c) \/ Refuse(c) \/ Install(c) \/ PamAuthUpdate(c) \/ Templates(c)
        PROVE  UNCHANGED <<applied, generation, refreshes>>
    BY <2>1 DEF Ask, Refuse, Install, PamAuthUpdate, Templates, Others
  <2>2. ASSUME NEW c \in calls, Reply(c) \/ TimesOut(c)
        PROVE  applied' = applied /\ (UNCHANGED <<generation, refreshes>> \/ StartRefresh)
    BY <2>2 DEF Reply, TimesOut
  <2>3. ASSUME GoDown \/ ComeUp \/ WorkerGoes \/ Plug \/ Cancel \/ Confirm \/ ApplyCamera
        PROVE  UNCHANGED <<applied, generation, refreshes>>
    BY <2>3 DEF GoDown, ComeUp, WorkerGoes, Plug, Cancel, Confirm, ApplyCamera, Others
  <2>4. ASSUME \/ \E why \in {"toggle", "delete"} : FaceCall(why)
               \/ \E w \in Changes(widgets) : Change(w)
               \/ \E x \in Wishes : Wish(x)
               \/ \E pin \in Pins : Type(pin)
               \/ AutoTune \/ Animate
        PROVE  UNCHANGED <<applied, generation, refreshes>>
    BY <2>4 DEF FaceCall, Change, Wish, Type, AutoTune, Animate, Acts
  <2>5. ASSUME Refresh
        PROVE  StartRefresh /\ applied' = applied
    BY <2>5 DEF Refresh, Acts
  <2>6. ASSUME UNCHANGED vars
        PROVE  UNCHANGED <<applied, generation, refreshes>>
    BY <2>6 DEF vars
  <2>7. QED
    BY <2>1, <2>2, <2>3, <2>4, <2>5, <2>6 DEF Next, Loading
<1>7. QED
  BY <1>1, <1>2, <1>3, <1>4, <1>5, <1>6

LEMMA DaemonPreserved ==
    ASSUME Typed, [Next]_vars
    PROVE  DaemonTyped'
<1> USE DEF Typed, DaemonTyped
<1>1. ASSUME NEW c \in calls, Install(c)
      PROVE  DaemonTyped'
  <2>1. cfg' = Parsed(c.s) /\ held' = held \cup {cfg'} /\ disk' \in {cfg', disk}
    BY <1>1 DEF Install
  <2>2. cfg' \in Configs
    BY <2>1, ParsedConfig DEF Requests, Request
  <2>3. QED
    BY <2>1, <2>2
<1>2. CASE ComeUp
  BY <1>2 DEF ComeUp
<1>3. ASSUME UNCHANGED <<cfg, disk, held>>
      PROVE  DaemonTyped'
  BY <1>3
<1>4. ASSUME NEW c \in calls, \/ Ask(c) \/ Refuse(c) \/ PamAuthUpdate(c) \/ Templates(c)
                              \/ Reply(c) \/ TimesOut(c)
      PROVE  UNCHANGED <<cfg, disk>> /\ (held' = held)
  BY <1>4 DEF Ask, Refuse, PamAuthUpdate, Templates, Reply, TimesOut, daemonVars, Others
<1>5. ASSUME \/ GoDown \/ WorkerGoes \/ Plug \/ Loading \/ Refresh
             \/ (\E why \in {"toggle", "delete"} : FaceCall(why))
             \/ (\E w \in Changes(widgets) : Change(w))
             \/ Cancel \/ Confirm \/ AutoTune \/ Animate \/ ApplyCamera
             \/ (\E x \in Wishes : Wish(x)) \/ (\E pin \in Pins : Type(pin))
             \/ UNCHANGED vars
      PROVE  UNCHANGED <<cfg, disk, held>>
  BY <1>5 DEF GoDown, WorkerGoes, Plug, Loading, LoadSettings, LoadRest, ApplyRefresh, Refresh,
              FaceCall, Change, Cancel, Confirm, AutoTune, Animate, ApplyCamera, Wish, Type,
              Acts, daemonVars, vars
<1>6. QED
  BY <1>1, <1>2, <1>3, <1>4, <1>5 DEF Next

LEMMA WindowPreserved ==
    ASSUME Typed, PlanInv, [Next]_vars
    PROVE  WindowTyped'
<1> USE DEF Typed
<1>1. CASE UNCHANGED <<cache, prefs, widgets, dialog>>
  BY <1>1 DEF WindowTyped
<1>2. ASSUME NEW c \in calls, Reply(c)
      PROVE  WindowTyped'
  <2>1. cache' \in {cache, c.s} /\ UNCHANGED <<prefs, widgets, dialog>>
    BY <1>2 DEF Reply
  <2>2. QED
    BY <2>1 DEF WindowTyped, Requests, Request
<1>3. ASSUME NEW r \in refreshes, ApplyRefresh(r)
      PROVE  WindowTyped'
  <2>1. dialog' = dialog
    BY <1>3 DEF ApplyRefresh
  <2>2. \/ UNCHANGED <<cache, prefs, widgets>>
        \/ /\ cache' = r.s /\ prefs' = LoadPrefs(stored) /\ widgets' = Shown(r.s, prefs')
           /\ r.stage = "loaded"
    BY <1>3 DEF ApplyRefresh
  <2>3. r.stage = "loaded" => Fits(r.s)
    BY DEF RefreshesTyped, RefreshTyped
  <2>4. PrefsTyped(LoadPrefs(stored))
    BY LoadsPrefs
  <2>5. QED
    BY <2>1, <2>2, <2>3, <2>4, ShownTyped DEF WindowTyped
<1>4. ASSUME NEW w \in Changes(widgets), Change(w)
      PROVE  WindowTyped'
  <2>1. UNCHANGED <<cache, prefs>> /\ SettingChanged(w, "changed")
    BY <1>4 DEF Change
  <2>2. QED
    BY <2>1, ChangesTyped, SettingTyped DEF WindowTyped
<1>5. CASE Confirm
  <2>1. UNCHANGED <<cache, prefs>> /\ SettingChanged(widgets, "confirmed")
    BY <1>5 DEF Confirm
  <2>2. QED
    BY <2>1, SettingTyped DEF WindowTyped
<1>6. CASE Cancel
  <2>1. /\ UNCHANGED <<cache, prefs>> /\ dialog' = None /\ dialog # None
        /\ widgets' = [widgets EXCEPT !.strictness = dialog]
    BY <1>6 DEF Cancel
  <2>2. widgets' \in Widgets
    BY <2>1 DEF WindowTyped, Widgets
  <2>3. QED
    BY <2>1, <2>2 DEF WindowTyped
<1>7. CASE AutoTune
  <2>1. /\ UNCHANGED <<cache, widgets, dialog>>
        /\ prefs' = [prefs EXCEPT !["camera_mode"] = Suggested[nodes].camera_mode]
    BY <1>7 DEF AutoTune
  <2>2. Suggested[nodes].camera_mode \in CameraModes
    BY SuggestsMode DEF Suggested, PlanInv
  <2>3. Sound("camera_mode", Suggested[nodes].camera_mode) /\ "camera_mode" \in DOMAIN DefaultPrefs
    BY <2>2 DEF Sound, CameraModes, DefaultPrefs
  <2>4. QED
    BY <2>1, <2>3, KeepsPrefs DEF WindowTyped
<1>8. ASSUME NEW x \in Wishes, Wish(x)
      PROVE  WindowTyped'
  <2>1. UNCHANGED <<cache, widgets, dialog>> /\ prefs' = [prefs EXCEPT !["camera_mode"] = x]
    BY <1>8 DEF Wish
  <2>2. x \in CameraModes
    BY SettingsAssumption DEF CameraModes
  <2>3. Sound("camera_mode", x) /\ "camera_mode" \in DOMAIN DefaultPrefs
    BY <2>2 DEF Sound, CameraModes, DefaultPrefs
  <2>4. QED
    BY <2>1, <2>3, KeepsPrefs DEF WindowTyped
<1>9. CASE Animate
  <2> DEFINE moves == ~prefs.animations_enabled
  <2>1. UNCHANGED <<cache, widgets, dialog>> /\ prefs' = [prefs EXCEPT !["animations_enabled"] = moves]
    BY <1>9 DEF Animate
  <2>2. moves \in BOOLEAN
    OBVIOUS
  <2> HIDE DEF moves
  <2>3. Sound("animations_enabled", moves) /\ "animations_enabled" \in DOMAIN DefaultPrefs
    BY <2>2 DEF Sound, DefaultPrefs
  <2>4. QED
    BY <2>1, <2>3, KeepsPrefs DEF WindowTyped
<1>10. ASSUME NEW pin \in Pins, Type(pin)
       PROVE  WindowTyped'
  <2>1. UNCHANGED <<cache, prefs, dialog>> /\ widgets' = [widgets EXCEPT !.pin = pin]
    BY <1>10 DEF Type
  <2>2. widgets' \in Widgets
    BY <2>1, SettingsAssumption DEF WindowTyped, Widgets
  <2>3. QED
    BY <2>1, <2>2 DEF WindowTyped
<1>11. CASE ApplyCamera
  <2>1. UNCHANGED <<cache, widgets, dialog>> /\ prefs' = [prefs EXCEPT !["rgb_dev"] = widgets.pin]
    BY <1>11 DEF ApplyCamera
  <2>2. widgets.pin \in Nat \cup {None}
    BY DEF WindowTyped, Widgets
  <2>3. Sound("rgb_dev", widgets.pin) /\ "rgb_dev" \in DOMAIN DefaultPrefs
    BY <2>2 DEF Sound, DefaultPrefs
  <2>4. QED
    BY <2>1, <2>3, KeepsPrefs DEF WindowTyped
<1>12. ASSUME NEW c \in calls, \/ Ask(c) \/ Refuse(c) \/ Install(c) \/ PamAuthUpdate(c)
                               \/ Templates(c) \/ TimesOut(c)
       PROVE  UNCHANGED <<cache, prefs, widgets, dialog>>
  BY <1>12 DEF Ask, Refuse, Install, PamAuthUpdate, Templates, TimesOut, windowVars, Others
<1>13. ASSUME \/ GoDown \/ ComeUp \/ WorkerGoes \/ Plug \/ Refresh
              \/ (\E why \in {"toggle", "delete"} : FaceCall(why))
              \/ (\E r \in refreshes : LoadSettings(r) \/ LoadRest(r)) \/ UNCHANGED vars
       PROVE  UNCHANGED <<cache, prefs, widgets, dialog>>
  BY <1>13 DEF GoDown, ComeUp, WorkerGoes, Plug, Refresh, FaceCall, LoadSettings, LoadRest,
               windowVars, Others, vars
<1>14. QED
  BY <1>1, <1>2, <1>3, <1>4, <1>5, <1>6, <1>7, <1>8, <1>9, <1>10, <1>11, <1>12, <1>13
     DEF Next, Loading

LEMMA FlagsPreserved ==
    ASSUME Typed, [Next]_vars
    PROVE  FlagsTyped'
<1> USE DEF Typed
<1>1. landmarks' = landmarks
  <2>1. ASSUME NEW c \in calls,
               \/ Ask(c) \/ Refuse(c) \/ Install(c) \/ PamAuthUpdate(c) \/ Templates(c)
               \/ Reply(c) \/ TimesOut(c)
        PROVE  landmarks' = landmarks
    BY <2>1 DEF Ask, Refuse, Install, PamAuthUpdate, Templates, Reply, TimesOut, Others
  <2>2. ASSUME \/ GoDown \/ ComeUp \/ WorkerGoes \/ Plug \/ Loading \/ Cancel \/ Confirm
               \/ ApplyCamera
        PROVE  landmarks' = landmarks
    BY <2>2 DEF GoDown, ComeUp, WorkerGoes, Plug, Loading, LoadSettings, LoadRest, ApplyRefresh,
                Cancel, Confirm, ApplyCamera, Others
  <2>3. ASSUME \/ Refresh \/ AutoTune \/ Animate
               \/ (\E why \in {"toggle", "delete"} : FaceCall(why))
               \/ (\E w \in Changes(widgets) : Change(w))
               \/ (\E x \in Wishes : Wish(x)) \/ (\E pin \in Pins : Type(pin))
        PROVE  landmarks' = landmarks
    BY <2>3 DEF Refresh, FaceCall, Change, AutoTune, Animate, Wish, Type, Acts
  <2>4. QED
    BY <2>1, <2>2, <2>3 DEF Next, vars
<1>2. pam' \in BOOLEAN
  <2>1. ASSUME NEW c \in calls, PamAuthUpdate(c)
        PROVE  pam' \in BOOLEAN
    <3>1. pam' = c.s.enabled \/ pam' = pam
      BY <2>1 DEF PamAuthUpdate
    <3>2. c.s["enabled"] \in ValuesOf("enabled")
      BY <2>1 DEF PamAuthUpdate, Requests, Request, Fits
    <3>3. QED
      BY <3>1, <3>2 DEF ValuesOf, FlagsTyped
  <2>2. ASSUME NEW c \in calls,
               \/ Ask(c) \/ Refuse(c) \/ Install(c) \/ Templates(c) \/ Reply(c) \/ TimesOut(c)
        PROVE  pam' = pam
    BY <2>2 DEF Ask, Refuse, Install, Templates, Reply, TimesOut, daemonVars
  <2>3. ASSUME \/ GoDown \/ ComeUp \/ WorkerGoes \/ Plug \/ Loading \/ Cancel \/ Confirm
               \/ ApplyCamera
        PROVE  pam' = pam
    BY <2>3 DEF GoDown, ComeUp, WorkerGoes, Plug, Loading, LoadSettings, LoadRest, ApplyRefresh,
                Cancel, Confirm, ApplyCamera, daemonVars
  <2>4. ASSUME \/ Refresh \/ AutoTune \/ Animate
               \/ (\E why \in {"toggle", "delete"} : FaceCall(why))
               \/ (\E w \in Changes(widgets) : Change(w))
               \/ (\E x \in Wishes : Wish(x)) \/ (\E pin \in Pins : Type(pin))
        PROVE  pam' = pam
    BY <2>4 DEF Refresh, FaceCall, Change, AutoTune, Animate, Wish, Type, Acts, daemonVars
  <2>5. QED
    BY <2>1, <2>2, <2>3, <2>4 DEF Next, vars, FlagsTyped
<1>3. up' \in BOOLEAN /\ worker' \in BOOLEAN
  <2>1. up' \in {up, TRUE, FALSE}
    BY DEF Next, Loading, LoadSettings, LoadRest, ApplyRefresh, Ask, Refuse, Install,
           PamAuthUpdate, Templates, Reply, TimesOut, GoDown, ComeUp, WorkerGoes, Plug, Refresh,
           FaceCall, Change, Cancel, Confirm, AutoTune, Animate, ApplyCamera, Wish, Type, Acts,
           daemonVars, vars
  <2>2. worker' = worker \/ worker' = ~worker
    BY DEF Next, Loading, LoadSettings, LoadRest, ApplyRefresh, Ask, Refuse, Install,
           PamAuthUpdate, Templates, Reply, TimesOut, GoDown, ComeUp, WorkerGoes, Plug, Refresh,
           FaceCall, Change, Cancel, Confirm, AutoTune, Animate, ApplyCamera, Wish, Type, Acts,
           Others, vars
  <2>3. QED
    BY <2>1, <2>2 DEF FlagsTyped
<1>4. timer' \in BOOLEAN /\ warned' \in BOOLEAN
  <2>1. ASSUME NEW r \in refreshes, ApplyRefresh(r)
        PROVE  timer' \in BOOLEAN /\ warned' \in BOOLEAN
    <3>1. r.errors \in BOOLEAN
      BY <2>1 DEF ApplyRefresh, FlagsTyped
    <3>2. warned' \in {warned, r.errors}
      BY <2>1 DEF ApplyRefresh
    <3>3. timer' = timer \/ timer' = (timer \/ widgets.pin # prefs'.rgb_dev)
      BY <2>1 DEF ApplyRefresh
    <3>4. timer' \in BOOLEAN
      BY <3>3, Zenon DEF FlagsTyped
    <3>5. QED
      BY <3>1, <3>2, <3>4 DEF FlagsTyped
  <2>2. ASSUME NEW c \in calls,
               \/ Ask(c) \/ Refuse(c) \/ Install(c) \/ PamAuthUpdate(c) \/ Templates(c)
               \/ Reply(c) \/ TimesOut(c)
        PROVE  UNCHANGED <<timer, warned>>
    BY <2>2 DEF Ask, Refuse, Install, PamAuthUpdate, Templates, Reply, TimesOut, Others, windowVars
  <2>3. ASSUME \/ GoDown \/ ComeUp \/ WorkerGoes \/ Plug \/ Cancel \/ Confirm
               \/ \E r \in refreshes : LoadSettings(r) \/ LoadRest(r)
        PROVE  UNCHANGED <<timer, warned>>
    BY <2>3 DEF GoDown, ComeUp, WorkerGoes, Plug, LoadSettings, LoadRest,
                Cancel, Confirm, windowVars, Others
  <2>4. ASSUME \/ Refresh \/ AutoTune \/ Animate \/ ApplyCamera
               \/ (\E why \in {"toggle", "delete"} : FaceCall(why))
               \/ (\E w \in Changes(widgets) : Change(w))
               \/ (\E x \in Wishes : Wish(x)) \/ (\E pin \in Pins : Type(pin))
        PROVE  timer' \in {timer, TRUE, FALSE} /\ warned' = warned
    BY <2>4 DEF Refresh, FaceCall, Change, AutoTune, Animate, Wish, Type, ApplyCamera, Acts
  <2>5. QED
    BY <2>1, <2>2, <2>3, <2>4 DEF Next, Loading, vars, FlagsTyped
<1>5. ASSUME NEW l \in refreshes', l.stage = "loaded"
      PROVE  l.errors \in BOOLEAN
  <2>1. CASE l \in refreshes
    BY <1>5, <2>1 DEF FlagsTyped
  <2>2. ASSUME StartRefresh, l \notin refreshes
        PROVE  FALSE
    BY <1>5, <2>2 DEF StartRefresh
  <2>3. ASSUME NEW r \in refreshes, LoadSettings(r), l \notin refreshes
        PROVE  FALSE
    <3> DEFINE s == IF up THEN cfg ELSE Empty
    <3>1. l = [gen |-> r.gen, stage |-> "asked", s |-> s]
      BY <2>3 DEF LoadSettings
    <3> HIDE DEF s
    <3>2. QED
      BY <1>5, <3>1
  <2>4. ASSUME NEW r \in refreshes, LoadRest(r), l \notin refreshes
        PROVE  l.errors \in BOOLEAN
    <3> DEFINE errors == ~up \/ DOMAIN r.s = {}
               there == up /\ worker
               marks == IF there THEN landmarks ELSE None
               plan == ResolvePlan(LoadPrefs(stored), Found[nodes])
    <3>1. l = [gen |-> r.gen, stage |-> "loaded", s |-> r.s, errors |-> errors,
               worker |-> there, cams |-> Found[nodes], landmarksOk |-> marks, plan |-> plan]
      BY <2>4 DEF LoadRest
    <3>2. errors \in BOOLEAN
      BY Zenon
    <3> HIDE DEF errors, there, marks, plan
    <3>3. QED
      BY <3>1, <3>2
  <2>5. \/ refreshes' \subseteq refreshes \/ StartRefresh
        \/ \E r \in refreshes : LoadSettings(r) \/ LoadRest(r)
    BY DEF Next, Loading, ApplyRefresh, Ask, Refuse, Install, PamAuthUpdate, Templates, Reply,
           TimesOut, GoDown, ComeUp, WorkerGoes, Plug, Refresh, FaceCall, Change, Cancel,
           Confirm, AutoTune, Animate, ApplyCamera, Wish, Type, Acts, Others, vars
  <2>6. QED
    BY <2>1, <2>2, <2>3, <2>4, <2>5
<1>6. QED
  BY <1>1, <1>2, <1>3, <1>4, <1>5 DEF FlagsTyped

LEMMA InitTyped == Init => Typed
<1> SUFFICES ASSUME Init PROVE Typed
  OBVIOUS
<1>1. PICK i \in {[cfg |-> Fresh(nodes), file |-> Empty]} \cup Installed :
         cfg = i.cfg /\ OpenWindow(i.file)
  BY DEF Init
<1>2. cfg \in Configs
  <2>1. CASE i \in Installed
    BY <1>1, <2>1, SettingsAssumption
  <2>2. CASE i = [cfg |-> Fresh(nodes), file |-> Empty]
    <3>1. cfg = Fresh(nodes) /\ nodes \in Machines
      BY <1>1, <2>2, SettingsAssumption DEF Init
    <3>2. QED
      BY <3>1, FreshConfig
  <2>3. QED
    BY <2>1, <2>2
<1>3. PrefsTyped(prefs)
  <2> DEFINE file == i.file
  <2>1. OpenWindow(file)
    BY <1>1
  <2> HIDE DEF file
  <2>2. CASE HasUserValue(file, "animations_enabled")
    BY <2>1, <2>2, LoadsPrefs DEF OpenWindow
  <2>3. CASE ~HasUserValue(file, "animations_enabled")
    <3>1. PICK motion \in MotionOk :
             prefs = [LoadPrefs(file) EXCEPT !["animations_enabled"] = motion]
      BY <2>1, <2>3 DEF OpenWindow
    <3>2. motion \in BOOLEAN
      BY <3>1, SettingsAssumption
    <3>3. Sound("animations_enabled", motion) /\ "animations_enabled" \in DOMAIN DefaultPrefs
      BY <3>2 DEF Sound, DefaultPrefs
    <3>4. QED
      BY <3>1, <3>3, LoadsPrefs, KeepsPrefs
  <2>4. QED
    BY <2>2, <2>3
<1>4. Requests
  BY DEF Init, Requests
<1>5. WindowTyped
  BY <1>3, EmptyFits, ShownTyped DEF Init, WindowTyped
<1>6. RefreshesTyped
  <2> DEFINE l == [gen |-> 1, stage |-> "started"]
  <2>1. refreshes = {l} /\ generation = 1 /\ applied = 0
    BY DEF Init
  <2>2. RefreshTyped(l, 1)
    BY DEF RefreshTyped
  <2> HIDE DEF l
  <2>3. QED
    BY <2>1, <2>2 DEF RefreshesTyped
<1>7. DaemonTyped
  BY <1>2 DEF Init, DaemonTyped, DaemonHeld
<1>8. FlagsTyped
  <2>1. cfg["enabled"] \in BOOLEAN
    BY <1>2 DEF Configs
  <2>2. pam \in BOOLEAN /\ landmarks \in BOOLEAN
    BY <2>1, SettingsAssumption DEF Init
  <2>3. up \in BOOLEAN /\ worker \in BOOLEAN /\ timer \in BOOLEAN /\ warned \in BOOLEAN
    BY DEF Init
  <2>4. \A r \in refreshes : r.stage # "loaded"
    BY DEF Init
  <2>5. QED
    BY <2>2, <2>3, <2>4 DEF FlagsTyped
<1>9. QED
  BY <1>4, <1>5, <1>6, <1>7, <1>8 DEF Typed

LEMMA NextTyped == Typed /\ PlanInv /\ [Next]_vars => Typed'
BY RequestsPreserved, WindowPreserved, RefreshesPreserved, DaemonPreserved, FlagsPreserved
   DEF Typed

\* The daemon's configuration is always a whole one, whatever part of one it is
\* sent, from whatever the window has loaded, cached, planned or been told.
THEOREM TypeCorrect == Spec => []TypeOK
<1>1. Typed /\ Inv => TypeOK
  <2> SUFFICES ASSUME Typed, Inv PROVE TypeOK
    OBVIOUS
  <2>1. cfg \in Configs /\ disk \in held /\ cfg \in held
    BY DEF Typed, DaemonTyped, DaemonHeld
  <2>2. {pam, up, worker, landmarks, override, timer, warned} \subseteq BOOLEAN
    BY DEF Typed, FlagsTyped, Inv
  <2>3. DOMAIN cache \subseteq Keys /\ \A k \in DOMAIN DefaultPrefs : Sound(k, prefs[k])
    BY DEF Typed, WindowTyped, Fits, PrefsTyped
  <2>4. dialog \in {None, "off", "light", "heavy"} /\ applied \in 0..generation
    BY DEF Typed, WindowTyped, RefreshesTyped
  <2>5. \A c \in calls : c.kind \in {"set", "pam", "face"} /\ c.stage \in {"sent", "asked", "done"}
    BY DEF Typed, Requests, Request
  <2>6. \A r \in refreshes : r.gen <= generation /\ r.stage \in {"started", "asked", "loaded"}
    BY DEF Typed, RefreshesTyped, RefreshTyped
  <2>7. QED
    BY <2>1, <2>2, <2>3, <2>4, <2>5, <2>6 DEF TypeOK
<1>2. Spec => [](Typed /\ PlanInv)
  BY InitTyped, NextTyped, InitPlan, NextPlan, PTL DEF Spec
<1>3. QED
  BY <1>1, <1>2, Invariance, PTL
=============================================================================
