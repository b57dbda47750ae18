-------------------------- MODULE OnboardingProofs --------------------------
(***************************************************************************)
(* The safety of Onboarding for any number of poses, sessions and outages. *)
(*                                                                         *)
(* The wizard waits for one thing at a time: a pose, the end, or a timer   *)
(* (OneThing), and what it waits for is about the session and the pose it  *)
(* shows (Current).  A call it gave up on goes on in the daemon, but the   *)
(* wizard never goes on with that session (Abandoned).  From this follows  *)
(* that a session is finished by whoever went through its poses, and that  *)
(* nothing is captured or taken away behind the back of a finish call.     *)
(***************************************************************************)
EXTENDS Onboarding, PreviewPipeProofs, TLAPS

Places  == 0..Poses
Stages  == {"sent", "scan", "push", "done"}
Results == {None, "error", "cancelled", "failed", "pose_complete", "saved"}

Call == [kind : {"pose", "finish", "cancel"}, sid : Ids, idx : Places,
         stage : Stages, result : Results, gone : BOOLEAN]

Session == [covered : SUBSET (0..Poses-1), count : 0..MaxTemplates,
            cancelled : BOOLEAN, lost : BOOLEAN]

Face == [sid : Ids, covered : SUBSET (0..Poses-1), count : 0..MaxTemplates, want : 0..Poses]

SessionsTyped ==
    /\ counter \in 0..MaxSessions
    /\ sessions \in [Ids -> Session \cup {None}]
    /\ \A s \in Ids : sessions[s] # None => s <= counter
    /\ saved \in Face \cup {None}

CallsTyped ==
    \A c \in calls :
        /\ c \in Call
        /\ c.sid <= counter
        /\ c.kind = "pose" => c.idx < Poses

WizardTyped ==
    /\ page \in {"welcome", "camera", "enroll", "test", "done"}
    /\ session \in 1..counter \cup {None}
    /\ poses \in 0..Poses
    /\ index \in 0..poses
    /\ timer \in {None, "next", "finish"}

Flags ==
    /\ ready \in BOOLEAN /\ running \in BOOLEAN /\ success \in BOOLEAN /\ complete \in BOOLEAN
    /\ card \in BOOLEAN /\ retry \in BOOLEAN /\ closed \in BOOLEAN /\ taken \in BOOLEAN

\* What the wizard waits for.
Awaited(c) == c.kind # "cancel" /\ ~c.gone
Idle == \A c \in calls : ~Awaited(c)

Early == page \in {"welcome", "camera"}

OneThing ==
    /\ \A c, d \in calls : Awaited(c) /\ Awaited(d) => c = d
    /\ (timer # None \/ card \/ retry \/ Early) => Idle
    /\ (card \/ retry \/ Early) => timer = None
    /\ card => ~retry
    /\ running <=> (\E c \in calls : Awaited(c) /\ c.kind = "pose")
    /\ Early => session = None /\ index = 0 /\ ~card /\ ~retry
    /\ ~Early => poses # 0

Current ==
    /\ \A c \in calls : Awaited(c) => session \in {None, c.sid}
    /\ \A c \in calls : Awaited(c) /\ c.kind = "pose" => c.idx = index /\ index < poses
    /\ (timer = "next" \/ retry) => index < poses
    /\ timer = "finish" => index = poses

\* The daemon may go on with a call, the wizard does not go on with its session.
Abandoned ==
    \A g \in calls : g.gone =>
        /\ g.kind # "cancel" /\ g.stage # "done"
        /\ session = g.sid => card \/ ~Idle
        /\ \A c \in calls : Awaited(c) /\ c.sid = g.sid =>
               c.kind = g.kind /\ c.stage = "done" /\ c.result = "error"

Apart ==
    /\ \A f, p \in calls : f.kind = "finish" /\ p.kind = "pose" => f.sid # p.sid
    /\ \A c \in calls : c.kind = "cancel" => c.sid # session

Waiting == CallsTyped /\ WizardTyped /\ OneThing /\ Current /\ Abandoned /\ Apart

\* The first n poses are in the session, or it was full before.
HeldUpTo(s, n) == 0..n-1 \subseteq s.covered \/ s.count = MaxTemplates

\* The poses behind the current one are, unless there is nothing but the card.
Progress ==
    ~card => \A s \in Ids : s = session /\ sessions[s] # None =>
        /\ HeldUpTo(sessions[s], index)
        /\ \A c \in calls : Awaited(c) /\ c.kind = "pose" /\ c.result = "pose_complete"
               => HeldUpTo(sessions[s], index + 1)

\* What a finish call will find: every pose that was asked for, or nothing.
Whole ==
    \A f \in calls : f.kind = "finish" /\ sessions[f.sid] # None =>
        HeldUpTo(sessions[f.sid], f.idx) \/ sessions[f.sid].count = 0

Released ==
    \A s \in Ids : sessions[s] # None =>
        \/ sessions[s].cancelled \/ sessions[s].lost \/ s = session
        \/ \E c \in calls : c.kind = "cancel" /\ c.sid = s

Forgets == closed => session = None

Held == Progress /\ Whole /\ SavedIsComplete /\ Released /\ Forgets

\* There is one session at most, the last that was opened, and whoever waits does
\* so for it.
Newest ==
    /\ session \in {None, counter}
    /\ \A c \in calls : Awaited(c) => c.sid = counter
    /\ \A s \in Ids : sessions[s] # None => s = counter

Ended == page \in {"test", "done"}

\* "Saved" is said of that session, and nothing is begun any more.
Honest ==
    /\ Ended => Idle /\ timer = None /\ ~card /\ ~retry
    /\ Ended \/ (\E c \in calls : Awaited(c) /\ c.result = "saved")
          => saved # None /\ saved.sid = counter

IInv == SessionsTyped /\ Flags /\ Waiting /\ Held /\ Newest /\ Honest

-----------------------------------------------------------------------------
(* Lemmas about one call.                                                  *)

\* The same call, further on.
Same(d, c) == d.kind = c.kind /\ d.sid = c.sid /\ d.idx = c.idx /\ d.gone = c.gone

LEMMA Staged ==
    ASSUME NEW c \in Call, NEW stage \in Stages
    PROVE  LET d == [c EXCEPT !.stage = stage]
           IN  d \in Call /\ Same(d, c) /\ d.stage = stage /\ d.result = c.result
BY DEF Call, Same

LEMMA Answered ==
    ASSUME NEW c \in Call, NEW result \in Results
    PROVE  LET d == [c EXCEPT !.stage = "done", !.result = result]
           IN  d \in Call /\ Same(d, c) /\ d.stage = "done" /\ d.result = result
BY DEF Call, Same, Stages

LEMMA GivenUp ==
    ASSUME NEW c \in Call
    PROVE  LET g == [c EXCEPT !.gone = TRUE]
           IN  /\ g \in Call /\ g.kind = c.kind /\ g.sid = c.sid /\ g.idx = c.idx
               /\ g.stage = c.stage /\ g.result = c.result /\ g.gone
BY DEF Call

\* A call that was sent, besides the old ones.
Sent(d, kind, sid, idx) ==
    /\ d \in Call /\ d.kind = kind /\ d.sid = sid /\ d.idx = idx
    /\ d.stage = "sent" /\ d.result = None /\ ~d.gone

Fresh(kind, sid, idx) ==
    [kind |-> kind, sid |-> sid, idx |-> idx, stage |-> "sent", result |-> None, gone |-> FALSE]

LEMMA Sending ==
    ASSUME NEW kind \in {"pose", "finish", "cancel"}, NEW sid \in Ids, NEW idx \in Places
    PROVE  Sent(Fresh(kind, sid, idx), kind, sid, idx)
BY DEF Fresh, Sent, Call, Stages, Results

LEMMA Sends ==
    ASSUME NEW old, NEW kind, NEW sid, NEW idx
    PROVE  Send(old, kind, sid, idx) = old \cup {Fresh(kind, sid, idx)}
BY DEF Fresh, Send

\* The daemon served c: it is d now, or nobody waits and it is over.
Serves(c, d) ==
    /\ c \in calls /\ c.stage # "done" /\ d \in Call /\ Same(d, c) /\ d.stage # "sent"
    /\ \/ calls' = (calls \ {c}) \cup {d} /\ (d.gone => d.stage # "done")
       \/ calls' = calls \ {c} /\ ~Awaited(c)

LEMMA GoesServes ==
    ASSUME NEW c \in calls, c \in Call, c.stage # "done",
           NEW stage \in {"scan", "push"}, Goes(c, stage)
    PROVE  \E d : Serves(c, d) /\ d.result = c.result
<1> DEFINE d == [c EXCEPT !.stage = stage]
<1>1. d \in Call /\ Same(d, c) /\ d.stage = stage /\ d.result = c.result
  BY Staged DEF Stages
<1>2. calls' = (calls \ {c}) \cup {d}
  BY DEF Goes
<1> HIDE DEF d
<1>3. QED
  BY <1>1, <1>2 DEF Serves

LEMMA AnswerServes ==
    ASSUME NEW c \in calls, c \in Call, c.stage # "done",
           NEW result \in Results, Answer(c, result)
    PROVE  \E d : Serves(c, d) /\ d.result = result
<1> DEFINE d == [c EXCEPT !.stage = "done", !.result = result]
<1>1. d \in Call /\ Same(d, c) /\ d.stage = "done" /\ d.result = result
  BY Answered
<1>2. IF c.gone THEN calls' = calls \ {c} ELSE calls' = (calls \ {c}) \cup {d}
  BY DEF Answer
<1> HIDE DEF d
<1>3. QED
  BY <1>1, <1>2 DEF Serves, Same, Awaited

-----------------------------------------------------------------------------
(* What the wizard waits for.                                              *)

\* A service of the daemon leaves the wizard waiting as it was.
LEMMA ServesWaiting ==
    ASSUME Waiting, NEW c, NEW d, Serves(c, d), UNCHANGED <<counter, taken, wizardVars>>
    PROVE  Waiting'
<1> USE DEF Serves, Same, Awaited, wizardVars
<1>1. CallsTyped' /\ WizardTyped'
  BY DEF Waiting, CallsTyped, WizardTyped
<1>2. \A x \in calls' : x \in calls \/ (x = d /\ c \in calls)
  OBVIOUS
<1>3. Idle' = Idle
  BY DEF Idle
<1>4. OneThing'
  <2>1. (\E x \in calls : Awaited(x) /\ x.kind = "pose")' = (\E x \in calls : Awaited(x) /\ x.kind = "pose")
    OBVIOUS
  <2>2. \A x, y \in calls' : Awaited(x) /\ Awaited(y) => x = y
    BY DEF Waiting, OneThing
  <2>3. QED
    BY <1>3, <2>1, <2>2 DEF Waiting, OneThing, Early
<1>5. Current'
  BY <1>2 DEF Waiting, Current
<1>6. Abandoned'
  <2>1. SUFFICES ASSUME NEW g \in calls', g.gone
                 PROVE  /\ g.kind # "cancel" /\ g.stage # "done"
                        /\ session = g.sid => card \/ ~Idle
                        /\ \A x \in calls' : Awaited(x) /\ x.sid = g.sid =>
                               x.kind = g.kind /\ x.stage = "done" /\ x.result = "error"
    BY <1>3 DEF Abandoned
  <2>2. PICK h \in calls : h.gone /\ h.kind = g.kind /\ h.sid = g.sid
    BY <1>2, <2>1
  <2>3. /\ session = h.sid => card \/ ~Idle
        /\ \A x \in calls : Awaited(x) /\ x.sid = h.sid =>
               x.kind = h.kind /\ x.stage = "done" /\ x.result = "error"
        /\ h.kind # "cancel"
    BY <2>2 DEF Waiting, Abandoned
  <2>4. g.stage # "done"
    BY <1>2, <2>1 DEF Waiting, Abandoned
  <2>5. \A x \in calls' : Awaited(x) /\ x.sid = g.sid => x \in calls
    BY <1>2, <2>2, <2>3
  <2>6. QED
    BY <2>2, <2>3, <2>4, <2>5
<1>7. Apart'
  BY <1>2 DEF Waiting, Apart
<1>8. QED
  BY <1>1, <1>4, <1>5, <1>6, <1>7 DEF Waiting

LEMMA CancelsWaiting ==
    ASSUME Waiting, NEW c, Cancels(c)
    PROVE  Waiting'
<1> USE DEF Cancels, Daemon, wizardVars, Awaited
<1>1. calls' = calls \ {c} /\ c \in calls /\ c.kind = "cancel"
  OBVIOUS
<1>2. Idle' = Idle
  BY <1>1 DEF Idle
<1>3. OneThing'
  <2>1. (\E x \in calls : Awaited(x) /\ x.kind = "pose")' = (\E x \in calls : Awaited(x) /\ x.kind = "pose")
    BY <1>1
  <2>2. QED
    BY <1>1, <1>2, <2>1 DEF Waiting, OneThing, Early
<1>4. Abandoned'
  BY <1>1, <1>2 DEF Waiting, Abandoned
<1>5. CallsTyped' /\ WizardTyped' /\ Current' /\ Apart'
  BY <1>1 DEF Waiting, CallsTyped, WizardTyped, Current, Apart
<1>6. QED
  BY <1>3, <1>4, <1>5 DEF Waiting

\* The wizard has its error and goes on; so does the daemon.
LEMMA TimesOutWaiting ==
    ASSUME Waiting, NEW c, TimesOut(c)
    PROVE  Waiting'
<1> USE DEF Awaited
<1> DEFINE g == [c EXCEPT !.gone = TRUE]
           e == [c EXCEPT !.stage = "done", !.result = "error"]
<1>1. /\ c \in calls /\ c \in Call /\ c.kind # "cancel" /\ c.stage # "done" /\ ~c.gone
      /\ calls' = (calls \ {c}) \cup {g, e}
      /\ UNCHANGED <<counter, taken, wizardVars>>
  BY DEF TimesOut, daemonVars, Waiting, CallsTyped
<1>2. /\ g \in Call /\ g.kind = c.kind /\ g.sid = c.sid /\ g.idx = c.idx
      /\ g.stage = c.stage /\ g.gone
  BY <1>1, GivenUp
<1>3. /\ e \in Call /\ Same(e, c) /\ e.stage = "done" /\ e.result = "error"
  BY <1>1, Answered DEF Results
<1> HIDE DEF g, e
<1> USE DEF Same
<1>4. CallsTyped' /\ WizardTyped'
  BY <1>1, <1>2, <1>3 DEF Waiting, CallsTyped, WizardTyped, wizardVars
<1>5. ~Idle /\ ~Idle'
  BY <1>1, <1>3 DEF Idle
<1>6. \A x \in calls' : Awaited(x) => x = e
  BY <1>1, <1>2 DEF Waiting, OneThing
<1>7. OneThing'
  <2>1. (\E x \in calls : Awaited(x) /\ x.kind = "pose")' = (\E x \in calls : Awaited(x) /\ x.kind = "pose")
    BY <1>1, <1>3, <1>6 DEF Waiting, OneThing
  <2>2. QED
    BY <1>1, <1>5, <1>6, <2>1 DEF Waiting, OneThing, Early, wizardVars
<1>8. Current'
  BY <1>1, <1>3, <1>6 DEF Waiting, Current, wizardVars
<1>9. Abandoned'
  <2>1. SUFFICES ASSUME NEW h \in calls', h.gone
                 PROVE  /\ h.kind # "cancel" /\ h.stage # "done"
                        /\ e.sid = h.sid => e.kind = h.kind
    BY <1>3, <1>5, <1>6 DEF Abandoned
  <2>2. CASE h \in calls
    BY <1>1, <1>3, <2>1, <2>2 DEF Waiting, Abandoned
  <2>3. CASE h = g
    BY <1>1, <1>2, <1>3, <2>3
  <2>4. CASE h = e
    BY <1>1, <1>3, <2>1, <2>4
  <2>5. QED
    BY <1>1, <2>2, <2>3, <2>4
<1>10. Apart'
  BY <1>1, <1>2, <1>3 DEF Waiting, Apart, wizardVars
<1>11. QED
  BY <1>4, <1>7, <1>8, <1>9, <1>10 DEF Waiting

LEMMA RestartWaiting ==
    ASSUME Waiting, Restart
    PROVE  Waiting'
<1> USE DEF Awaited
<1> DEFINE Over(c) == [c EXCEPT !.stage = "done", !.result = IF c.stage = "done" THEN @ ELSE "error"]
<1>1. calls' = {Over(c) : c \in {x \in calls : x.kind # "cancel" /\ ~x.gone}}
      /\ UNCHANGED <<counter, taken, wizardVars>>
  BY DEF Restart
<1>2. \A c \in calls : Over(c) \in Call /\ Same(Over(c), c)
  BY DEF Waiting, CallsTyped, Call, Same, Stages, Results
<1> HIDE DEF Over
<1> USE DEF Same
<1>3. \A x \in calls' : ~x.gone /\ x.kind # "cancel" /\ x \in Call
          /\ \E c \in calls : x = Over(c) /\ Awaited(c) /\ Same(x, c)
  BY <1>1, <1>2
<1>4. \A c \in calls : Awaited(c) => Over(c) \in calls'
  BY <1>1
<1>5. CallsTyped' /\ WizardTyped'
  BY <1>1, <1>3 DEF Waiting, CallsTyped, WizardTyped, wizardVars
<1>6. Idle' = Idle
  BY <1>2, <1>3, <1>4 DEF Idle
<1>7. OneThing'
  <2>1. (\E x \in calls : Awaited(x) /\ x.kind = "pose")' = (\E x \in calls : Awaited(x) /\ x.kind = "pose")
    BY <1>2, <1>3, <1>4
  <2>2. \A x, y \in calls' : Awaited(x) /\ Awaited(y) => x = y
    BY <1>3 DEF Waiting, OneThing
  <2>3. QED
    BY <1>1, <1>6, <2>1, <2>2 DEF Waiting, OneThing, Early, wizardVars
<1>8. Current' /\ Abandoned' /\ Apart'
  BY <1>1, <1>3 DEF Waiting, Current, Abandoned, Apart, wizardVars
<1>9. QED
  BY <1>5, <1>7, <1>8 DEF Waiting

\* After a step the wizard waits for no call: at most it has sent a cancellation.
LEMMA RestsWaiting ==
    ASSUME Waiting, WizardTyped', counter \in Nat, counter' \in Nat, counter <= counter',
           \A x \in calls' :
               /\ ~Awaited(x)
               /\ x \in calls \/ (x \in Call /\ x.sid <= counter' /\ x.kind = "cancel" /\ ~x.gone)
               /\ x.kind = "cancel" => x.sid # session'
               /\ x.gone /\ session' = x.sid => card',
           (card' \/ retry' \/ Early') => timer' = None,
           card' => ~retry',
           ~running',
           Early' => session' = None /\ index' = 0 /\ ~card' /\ ~retry',
           ~Early' => poses' # 0,
           (timer' = "next" \/ retry') => index' < poses',
           timer' = "finish" => index' = poses'
    PROVE  Waiting'
<1>1. Idle' /\ \A x \in calls' : ~Awaited(x)
  BY DEF Idle
<1>2. CallsTyped'
  <2>1. \A x \in calls : x \in Call /\ x.sid \in Nat /\ x.sid <= counter
                         /\ (x.kind = "pose" => x.idx < Poses)
    BY DEF Waiting, CallsTyped, Call, Ids
  <2>2. QED
    BY <2>1 DEF CallsTyped
<1>3. OneThing'
  BY <1>1 DEF OneThing
<1>4. Current'
  BY <1>1 DEF Current
<1>5. Abandoned'
  BY <1>1 DEF Waiting, Abandoned, Awaited
<1>6. Apart'
  BY DEF Waiting, Apart, Awaited
<1>7. QED
  BY <1>2, <1>3, <1>4, <1>5, <1>6 DEF Waiting

\* After a step the wizard waits for p alone.
LEMMA AsksWaiting ==
    ASSUME Waiting, WizardTyped', counter \in Nat, counter' \in Nat, counter <= counter',
           NEW p \in calls', p \in Call, Awaited(p), p.sid <= counter',
           \A x \in calls' : x = p \/
               /\ ~Awaited(x)
               /\ x \in calls \/ (x \in Call /\ x.sid <= counter' /\ x.kind = "cancel" /\ ~x.gone)
               /\ x.kind = "cancel" => x.sid # session'
               /\ x.gone => x.sid # session',
           session' = p.sid,
           p.kind = "pose" => p.idx = index' /\ index' < poses',
           timer' = None, ~card', ~retry', ~Early', poses' # 0,
           running' <=> p.kind = "pose"
    PROVE  Waiting'
<1>1. ~Idle' /\ \A x \in calls' : Awaited(x) => x = p
  BY DEF Idle
<1>2. CallsTyped'
  <2>1. \A x \in calls : x \in Call /\ x.sid \in Nat /\ x.sid <= counter
                         /\ (x.kind = "pose" => x.idx < Poses)
    BY DEF Waiting, CallsTyped, Call, Ids
  <2>2. p.kind = "pose" => p.idx < Poses
    BY OnboardingAssumption DEF WizardTyped
  <2>3. QED
    BY <2>1, <2>2 DEF CallsTyped, Awaited
<1>3. OneThing'
  BY <1>1 DEF OneThing
<1>4. Current'
  BY <1>1, OnboardingAssumption DEF Current
<1>5. Abandoned'
  BY <1>1 DEF Waiting, Abandoned, Awaited
<1>6. Apart'
  BY DEF Waiting, Apart, Awaited
<1>7. QED
  BY <1>2, <1>3, <1>4, <1>5, <1>6 DEF Waiting

-----------------------------------------------------------------------------
(* The steps of the wizard.                                                *)

\* The calls, and perhaps a cancellation.
Kept(old) ==
    /\ calls \subseteq old
    /\ \A x \in old : x \in calls \/
           (x \in Call /\ x.sid <= counter /\ x.kind = "cancel" /\ ~x.gone)

LEMMA CancelKept ==
    ASSUME SessionsTyped, Waiting
    PROVE  /\ Kept(CancelSession)
           /\ session # None => \E x \in CancelSession : x.kind = "cancel" /\ x.sid = session
<1>1. CASE session = None
  BY <1>1 DEF CancelSession, Kept
<1>2. CASE session # None
  <2>1. session \in Ids /\ session <= counter /\ 0 \in Places
    BY <1>2, OnboardingAssumption DEF SessionsTyped, Waiting, WizardTyped, Ids, Places
  <2>2. PICK d : Sent(d, "cancel", session, 0) /\ CancelSession = calls \cup {d}
    <3>1. Sent(Fresh("cancel", session, 0), "cancel", session, 0)
      BY <2>1, Sending
    <3>2. QED
      BY <1>2, <3>1, Sends DEF CancelSession
  <2>3. QED
    BY <2>1, <2>2 DEF Kept, Sent
<1>3. QED
  BY <1>1, <1>2

LEMMA StartWaiting ==
    ASSUME SessionsTyped, Waiting, Idle, timer = None, NEW old, Kept(old), StartSession(old),
           page' = "enroll" \/ (page' = page /\ ~Early), poses' \in 1..Poses, index \in 0..poses',
           UNCHANGED <<ready, timer, closed>>
    PROVE  Waiting'
<1>1. \A x \in calls : x \in Call /\ x.sid \in Nat /\ x.sid <= counter /\ ~Awaited(x)
  BY DEF Waiting, CallsTyped, Call, Ids, Idle
<1>2. counter \in Nat /\ counter <= MaxSessions /\ MaxSessions \in Nat /\ Poses \in Nat
  BY OnboardingAssumption DEF SessionsTyped
<1>3. ~Early' /\ page' \in {"welcome", "camera", "enroll", "test", "done"}
  BY DEF Early, Waiting, WizardTyped
<1>4. \A x \in old : /\ ~Awaited(x) /\ x \in Call /\ x.sid \in Nat /\ x.sid <= counter
                     /\ x \in calls \/ (x.kind = "cancel" /\ ~x.gone)
  BY <1>1 DEF Kept, Awaited, Call, Ids
<1>5. ~running
  BY <1>1 DEF Waiting, OneThing, WizardTyped
<1>6. CASE /\ calls' = old /\ card' /\ ~retry' /\ ~running' /\ UNCHANGED index
           /\ counter' \in {counter, counter + 1} /\ counter' <= MaxSessions
           /\ session' = None \/ (session' = counter' /\ counter' = counter + 1)
  <2>1. WizardTyped'
    BY <1>2, <1>3, <1>6 DEF Waiting, WizardTyped
  <2>2. \A x \in calls' : x.sid # session'
    BY <1>2, <1>4, <1>6, OnboardingAssumption
  <2>3. counter' \in Nat /\ counter <= counter' /\ card' /\ ~retry'
        /\ ~running' /\ timer' = None /\ poses' # 0
    BY <1>2, <1>6
  <2>4. \A x \in calls' :
          /\ ~Awaited(x)
          /\ x \in calls \/ (x \in Call /\ x.sid <= counter' /\ x.kind = "cancel" /\ ~x.gone)
          /\ x.kind = "cancel" => x.sid # session'
          /\ x.gone /\ session' = x.sid => card'
    BY <1>2, <1>4, <1>6, <2>2, <2>3
  <2>5. QED
    BY <1>2, <1>3, <2>1, <2>3, <2>4, RestsWaiting, OnboardingAssumption
<1>7. CASE /\ counter < MaxSessions /\ counter' = counter + 1
           /\ session' = counter' /\ index' = FirstIndex
           /\ Capturing(old, counter', FirstIndex) /\ ~card'
  <2>1. counter' \in Ids /\ FirstIndex = 0 /\ 0 \in Places /\ counter' \in Nat
    BY <1>2, <1>7 DEF Ids, FirstIndex, Places
  <2>2. PICK p : Sent(p, "pose", counter', 0) /\ calls' = old \cup {p}
    <3>1. Sent(Fresh("pose", counter', 0), "pose", counter', 0)
      BY <2>1, Sending
    <3>2. QED
      BY <1>5, <1>7, <2>1, <3>1, Sends DEF Capturing
  <2>3. /\ WizardTyped' /\ running' /\ ~retry' /\ timer' = None
        /\ session' = p.sid /\ p.idx = index' /\ index' < poses' /\ p.sid <= counter'
        /\ p.kind = "pose" /\ poses' # 0 /\ Awaited(p) /\ p \in Call /\ p \in calls'
    BY <1>2, <1>3, <1>5, <1>7, <2>1, <2>2 DEF Waiting, WizardTyped, Capturing, Sent, Awaited
  <2>4. \A x \in calls' : x = p \/
          /\ ~Awaited(x)
          /\ x \in calls \/ (x \in Call /\ x.sid <= counter' /\ x.kind = "cancel" /\ ~x.gone)
          /\ x.kind = "cancel" => x.sid # session'
          /\ x.gone => x.sid # session'
    BY <1>2, <1>4, <1>7, <2>2
  <2>5. QED
    BY <1>2, <1>3, <1>7, <2>1, <2>3, <2>4, AsksWaiting
<1>8. QED
  BY <1>2, <1>6, <1>7 DEF StartSession, Opens, Fail

LEMMA CaptureWaiting ==
    ASSUME SessionsTyped, Waiting, Idle, ~Early, ~card, index < poses, timer' = None, CapturePose,
           UNCHANGED <<counter, taken, page, ready, session, poses, index, closed>>
    PROVE  Waiting'
<1>1. \A x \in calls : x \in Call /\ x.sid \in Nat /\ x.sid <= counter /\ ~Awaited(x)
  BY DEF Waiting, CallsTyped, Call, Ids, Idle
<1>2. counter \in Nat /\ counter <= MaxSessions /\ MaxSessions \in Nat /\ Poses \in Nat
      /\ poses \in 0..Poses /\ index \in 0..poses
  BY OnboardingAssumption DEF SessionsTyped, Waiting, WizardTyped
<1>3. ~running /\ ~Early' /\ poses' # 0
  BY <1>1 DEF Waiting, OneThing, WizardTyped, Early
<1>4. \A x \in calls : /\ x.kind = "cancel" => x.sid # session
                       /\ x.gone => x.sid # session
  BY DEF Waiting, Apart, Abandoned
<1>5. CASE session = None
  <2>1. calls' = calls /\ card' /\ ~retry' /\ ~running'
    BY <1>3, <1>5 DEF CapturePose, Fail
  <2>2. WizardTyped'
    BY <2>1 DEF Waiting, WizardTyped
  <2>3. \A x \in calls' :
          /\ ~Awaited(x)
          /\ x \in calls \/ (x \in Call /\ x.sid <= counter' /\ x.kind = "cancel" /\ ~x.gone)
          /\ x.kind = "cancel" => x.sid # session'
          /\ x.gone /\ session' = x.sid => card'
    BY <1>1, <1>4, <2>1
  <2>4. QED
    BY <1>2, <1>3, <2>1, <2>2, <2>3, RestsWaiting, OnboardingAssumption
<1>6. CASE session # None
  <2>1. session \in Ids /\ session <= counter /\ index \in Places
    BY <1>2, <1>6 DEF Waiting, WizardTyped, Ids, Places
  <2>2. PICK p : Sent(p, "pose", session, index) /\ calls' = calls \cup {p}
    <3>1. calls' = Send(calls, "pose", session, index)
      BY <1>3, <1>6 DEF CapturePose, Capturing
    <3>2. Sent(Fresh("pose", session, index), "pose", session, index)
      BY <2>1, Sending
    <3>3. QED
      BY <3>1, <3>2, Sends
  <2>3. /\ ~card' /\ ~retry' /\ running'
        /\ WizardTyped' /\ session' = p.sid /\ p.idx = index' /\ index' < poses' /\ p.sid <= counter'
        /\ p.kind = "pose" /\ Awaited(p) /\ p \in Call /\ p \in calls'
    BY <1>2, <1>3, <1>6, <2>1, <2>2 DEF Waiting, WizardTyped, CapturePose, Capturing, Sent, Awaited
  <2>4. \A x \in calls' : x = p \/
          /\ ~Awaited(x)
          /\ x \in calls \/ (x \in Call /\ x.sid <= counter' /\ x.kind = "cancel" /\ ~x.gone)
          /\ x.kind = "cancel" => x.sid # session'
          /\ x.gone => x.sid # session'
    BY <1>1, <1>4, <2>2
  <2>5. QED
    BY <1>2, <1>3, <2>3, <2>4, AsksWaiting
<1>7. QED
  BY <1>5, <1>6

LEMMA DeclareCalls ==
    ASSUME SessionsTyped, Waiting
    PROVE  /\ \A x \in calls : x \in Call /\ x.sid \in Nat /\ x.sid <= counter
           /\ counter \in Nat /\ counter <= MaxSessions /\ MaxSessions \in Nat /\ Poses \in Nat
           /\ poses \in 0..Poses /\ index \in 0..poses
BY OnboardingAssumption DEF SessionsTyped, Waiting, WizardTyped, CallsTyped, Call, Ids

LEMMA GoCameraWaiting ==
    ASSUME SessionsTyped, Waiting, GoCamera
    PROVE  Waiting'
<1>1. Early /\ Early' /\ WizardTyped'
  BY DEF GoCamera, daemonVars, Early, Waiting, WizardTyped
<1>2. Idle /\ timer = None
  BY <1>1 DEF Waiting, OneThing
<1>3. calls' = calls /\ counter' = counter
      /\ UNCHANGED <<session, poses, index, running, card, retry, timer>>
  BY DEF GoCamera, daemonVars
<1>4. QED
  BY <1>1, <1>2, <1>3 DEF Waiting, CallsTyped, OneThing, Idle, Current, Abandoned, Apart

LEMMA DoneWaiting ==
    ASSUME SessionsTyped, Waiting, Done
    PROVE  Waiting'
<1>1. ~Early /\ ~Early' /\ WizardTyped'
  BY DEF Done, daemonVars, Early, Waiting, WizardTyped
<1>2. calls' = calls /\ counter' = counter
      /\ UNCHANGED <<session, poses, index, running, card, retry, timer>>
  BY DEF Done, daemonVars
<1>3. QED
  BY <1>1, <1>2 DEF Waiting, CallsTyped, OneThing, Idle, Current, Abandoned, Apart

LEMMA GoEnrollWaiting ==
    ASSUME SessionsTyped, Waiting, GoEnroll
    PROVE  Waiting'
<1>1. Early /\ page' = "enroll" /\ poses' \in {Poses, 1} /\ StartSession(calls)
      /\ UNCHANGED <<ready, timer, closed>>
  BY DEF GoEnroll, Early
<1>2. Idle /\ timer = None /\ index = 0 /\ poses' \in 1..Poses
  BY <1>1, OnboardingAssumption DEF Waiting, OneThing
<1>3. Kept(calls) /\ index \in 0..poses'
  BY <1>2 DEF Kept
<1>4. QED
  BY <1>1, <1>2, <1>3, StartWaiting

LEMMA TryAgainWaiting ==
    ASSUME SessionsTyped, Waiting, TryAgain
    PROVE  Waiting'
<1>1. card /\ StartSession(CancelSession) /\ UNCHANGED <<page, ready, poses, timer, closed>>
  BY DEF TryAgain
<1>2. Idle /\ timer = None /\ ~Early /\ poses # 0
  BY <1>1 DEF Waiting, OneThing
<1>3. Kept(CancelSession)
  BY CancelKept
<1>4. poses' \in 1..Poses /\ index \in 0..poses' /\ page' = page
  BY <1>1, <1>2, DeclareCalls
<1>5. QED
  BY <1>1, <1>2, <1>3, <1>4, StartWaiting

LEMMA RetryPoseWaiting ==
    ASSUME SessionsTyped, Waiting, RetryPose
    PROVE  Waiting'
<1>1. /\ retry /\ CapturePose
      /\ UNCHANGED <<counter, taken, page, ready, session, poses, index, timer, closed>>
  BY DEF RetryPose, daemonVars
<1>2. Idle /\ timer = None /\ ~Early /\ ~card /\ index < poses
  BY <1>1 DEF Waiting, OneThing, Current
<1>3. QED
  BY <1>1, <1>2, CaptureWaiting

LEMMA CaptureNextWaiting ==
    ASSUME SessionsTyped, Waiting, CaptureNext
    PROVE  Waiting'
<1>1. /\ timer = "next" /\ timer' = None /\ CapturePose
      /\ UNCHANGED <<counter, taken, page, ready, session, poses, index, closed>>
  BY DEF CaptureNext, daemonVars
<1>2. Idle /\ ~Early /\ ~card /\ index < poses
  BY <1>1, OnboardingAssumption DEF Waiting, OneThing, Current
<1>3. QED
  BY <1>1, <1>2, CaptureWaiting

LEMMA FinishWaiting ==
    ASSUME SessionsTyped, Waiting, Finish
    PROVE  Waiting'
<1>1. /\ timer = "finish" /\ timer' = None
      /\ UNCHANGED <<counter, taken, page, ready, session, poses, index, closed>>
  BY DEF Finish, daemonVars
<1>2. Idle /\ ~Early /\ ~card /\ ~retry /\ index = poses /\ ~Early' /\ poses' # 0
  BY <1>1, OnboardingAssumption DEF Waiting, OneThing, Current, Early
<1>3. \A x \in calls : ~Awaited(x) /\ (x.kind = "cancel" => x.sid # session)
                       /\ (x.gone => x.sid # session)
  BY <1>2 DEF Waiting, Apart, Abandoned, Idle
<1>4. WizardTyped' /\ ~running
  BY <1>1, <1>3 DEF Waiting, WizardTyped, OneThing
<1>5. CASE session = None
  <2>1. calls' = calls /\ card' /\ ~retry' /\ ~running'
    BY <1>5 DEF Finish, Fail
  <2>2. \A x \in calls' :
          /\ ~Awaited(x)
          /\ x \in calls \/ (x \in Call /\ x.sid <= counter' /\ x.kind = "cancel" /\ ~x.gone)
          /\ x.kind = "cancel" => x.sid # session'
          /\ x.gone /\ session' = x.sid => card'
    BY <1>1, <1>3, <2>1
  <2>3. QED
    BY <1>1, <1>2, <1>4, <2>1, <2>2, DeclareCalls, RestsWaiting, OnboardingAssumption
<1>6. CASE session # None
  <2>1. session \in Ids /\ session <= counter /\ poses \in Places
    BY <1>6, DeclareCalls DEF Waiting, WizardTyped, Ids, Places
  <2>2. Sent(Fresh("finish", session, poses), "finish", session, poses)
    BY <2>1, Sending
  <2>3. calls' = Send(calls, "finish", session, poses) /\ UNCHANGED <<card, retry, running>>
    BY <1>6 DEF Finish
  <2>4. PICK p : Sent(p, "finish", session, poses) /\ calls' = calls \cup {p}
    BY <2>2, <2>3, Sends
  <2>5. /\ ~card' /\ ~retry' /\ ~running' /\ session' = p.sid /\ p.sid <= counter'
        /\ p.kind = "finish" /\ Awaited(p) /\ p \in Call /\ p \in calls'
    BY <1>1, <1>2, <1>4, <2>1, <2>3, <2>4 DEF Sent, Awaited
  <2>6. \A x \in calls' : x = p \/
          /\ ~Awaited(x)
          /\ x \in calls \/ (x \in Call /\ x.sid <= counter' /\ x.kind = "cancel" /\ ~x.gone)
          /\ x.kind = "cancel" => x.sid # session'
          /\ x.gone => x.sid # session'
    BY <1>1, <1>3, <2>4
  <2>7. QED
    BY <1>1, <1>2, <1>4, <2>5, <2>6, DeclareCalls, AsksWaiting
<1>7. QED
  BY <1>5, <1>6

\* A reply is for the pose and the session the wizard is at.
LEMMA Replied ==
    ASSUME SessionsTyped, Waiting, NEW c \in calls, c.kind # "cancel", c.stage = "done",
           calls' = calls \ {c}
    PROVE  /\ Awaited(c) /\ timer = None /\ ~card /\ ~retry /\ ~Early /\ poses # 0
           /\ \A x \in calls' : ~Awaited(x) /\ x \in calls
           /\ \A x \in calls' : x.kind = "cancel" => x.sid # session
           /\ c.result # "error" => \A x \in calls' : x.gone => x.sid # session
           /\ c.kind = "pose" => c.idx = index /\ index < poses
<1>1. Awaited(c)
  BY DEF Waiting, Abandoned, Awaited
<1>2. \A x \in calls : Awaited(x) => x = c
  BY <1>1 DEF Waiting, OneThing
<1>3. c.result # "error" => \A x \in calls' : x.gone => x.sid # session
  BY <1>1, DeclareCalls, OnboardingAssumption DEF Waiting, Abandoned, Current
<1>4. QED
  BY <1>1, <1>2, <1>3 DEF Waiting, OneThing, Idle, Apart, Current

LEMMA OnPoseDoneWaiting ==
    ASSUME SessionsTyped, Waiting, NEW c, OnPoseDone(c)
    PROVE  Waiting'
<1>1. /\ c \in calls /\ c.kind = "pose" /\ c.stage = "done" /\ calls' = calls \ {c}
      /\ UNCHANGED <<counter, taken, page, ready, session, poses, closed>>
  BY DEF OnPoseDone, daemonVars
<1>2. /\ timer = None /\ ~card /\ ~retry /\ ~Early' /\ poses' # 0
      /\ \A x \in calls' : ~Awaited(x) /\ x \in calls
      /\ \A x \in calls' : x.kind = "cancel" => x.sid # session'
      /\ c.result # "error" => \A x \in calls' : x.gone => x.sid # session'
      /\ index < poses /\ index' \in {index, index + 1}
  BY <1>1, Replied DEF Early, OnPoseDone
<1>3. /\ index' \in 0..poses' /\ timer' \in {None, "next", "finish"} /\ ~running'
      /\ timer' = "next" \/ retry' => index' < poses'
      /\ timer' = "finish" => index' = poses'
      /\ card' \/ retry' => timer' = None
      /\ card' => ~retry'
      /\ c.result = "error" => card'
  BY <1>1, <1>2, DeclareCalls, OnboardingAssumption DEF OnPoseDone, Fail, NextTimer, RetryShown
<1>4. WizardTyped'
  BY <1>1, <1>3 DEF Waiting, WizardTyped
<1>5. QED
  BY <1>1, <1>2, <1>3, <1>4, DeclareCalls, RestsWaiting

LEMMA OnFinishedWaiting ==
    ASSUME SessionsTyped, Waiting, NEW c, OnFinished(c)
    PROVE  Waiting'
<1>1. /\ c \in calls /\ c.kind = "finish" /\ c.stage = "done" /\ calls' = calls \ {c}
      /\ UNCHANGED <<counter, taken, ready, session, poses, index, timer, closed>>
  BY DEF OnFinished, daemonVars
<1>2. /\ timer' = None /\ ~card /\ ~retry /\ ~Early /\ poses' # 0
      /\ \A x \in calls' : ~Awaited(x) /\ x \in calls
      /\ \A x \in calls' : x.kind = "cancel" => x.sid # session'
      /\ c.result # "error" => \A x \in calls' : x.gone => x.sid # session'
      /\ index' \in 0..poses'
  BY <1>1, Replied, DeclareCalls
<1>3. ~running
  <2>1. Awaited(c)
    BY <1>1, Replied
  <2>2. QED
    BY <1>1, <2>1 DEF Waiting, OneThing
<1>4. /\ ~Early' /\ page' \in {page, "test"} /\ ~running' /\ ~retry'
      /\ c.result = "error" => card'
  BY <1>2, <1>3 DEF OnFinished, Fail, Early
<1>5. WizardTyped'
  BY <1>1, <1>2, <1>4 DEF Waiting, WizardTyped
<1>6. QED
  BY <1>1, <1>2, <1>4, <1>5, DeclareCalls, RestsWaiting, OnboardingAssumption

LEMMA CloseWaiting ==
    ASSUME SessionsTyped, Waiting, CloseWindow
    PROVE  Waiting'
<1>1. /\ calls' = CancelSession /\ session' = None
      /\ UNCHANGED <<counter, taken, page, ready, poses, index, running, card, retry, timer>>
  BY DEF CloseWindow, daemonVars
<1>2. /\ calls \subseteq calls'
      /\ \A x \in calls' : x \in calls \/
             (x \in Call /\ x.sid <= counter /\ x.kind = "cancel" /\ ~x.gone)
  BY <1>1, CancelKept DEF Kept
<1>3. CallsTyped' /\ WizardTyped'
  BY <1>1, <1>2 DEF Waiting, CallsTyped, WizardTyped
<1>4. (Idle' <=> Idle) /\ (Early' <=> Early)
  BY <1>1, <1>2 DEF Idle, Awaited, Early
<1>5. \A x \in calls' : Awaited(x) => x \in calls
  BY <1>2 DEF Awaited
<1>6. OneThing'
  BY <1>1, <1>2, <1>4, <1>5 DEF Waiting, OneThing
<1>7. Current'
  BY <1>1, <1>5 DEF Waiting, Current
<1>8. \A x \in calls' : x.sid # session'
  BY <1>1, <1>2, DeclareCalls, OnboardingAssumption DEF Call, Ids
<1>9. Abandoned'
  BY <1>2, <1>5, <1>8 DEF Waiting, Abandoned
<1>10. Apart'
  BY <1>2, <1>8 DEF Waiting, Apart
<1>11. QED
  BY <1>3, <1>6, <1>7, <1>9, <1>10 DEF Waiting

-----------------------------------------------------------------------------
(* What the sessions hold, step by step of the daemon.                     *)

LEMMA NoneApart == None \notin Session /\ None \notin Face /\ None # "pose_complete" /\ None # "saved"
BY OnboardingAssumption DEF Session, Face, Ids

LEMMA Put ==
    ASSUME SessionsTyped, NEW s \in Ids, sessions[s] # None,
           NEW r \in Session, r.lost = sessions[s].lost,
           sessions' = [sessions EXCEPT ![s] = r], UNCHANGED <<counter, saved>>
    PROVE  /\ SessionsTyped' /\ sessions'[s] = r
           /\ \A t \in Ids : sessions'[t] # None => sessions[t] # None /\ sessions'[t].lost = sessions[t].lost
           /\ \A t \in Ids : t # s => sessions'[t] = sessions[t]
BY DEF SessionsTyped

\* What is pushed covers the pose, or the session is full.
LEMMA Pushing ==
    ASSUME NEW s \in Session, NEW i \in 0..Poses-1, NEW n \in s.count..MaxTemplates
    PROVE  LET r == Pushed(s, i, n)
           IN  /\ r \in Session /\ r.cancelled = s.cancelled /\ r.lost = s.lost
               /\ \A m \in Nat : HeldUpTo(s, m) => HeldUpTo(r, m)
               /\ HeldUpTo(s, i) => HeldUpTo(r, i + 1)
<1> DEFINE r == Pushed(s, i, n)
<1>1. s.covered \subseteq 0..Poses-1 /\ s.count \in 0..MaxTemplates /\ MaxTemplates \in Nat
      /\ s.cancelled \in BOOLEAN /\ s.lost \in BOOLEAN
  BY OnboardingAssumption DEF Session
<1>2. /\ r.count = n /\ r.cancelled = s.cancelled /\ r.lost = s.lost
      /\ s.count < MaxTemplates => r.covered = s.covered \cup {i}
      /\ s.count >= MaxTemplates => r.covered = s.covered
  BY <1>1 DEF Pushed, Session
<1>3. r \in Session
  <2>1. n \in 0..MaxTemplates
    BY <1>1
  <2>2. (IF s.count < MaxTemplates THEN s.covered \cup {i} ELSE s.covered) \in SUBSET (0..Poses-1)
    BY <1>1
  <2>3. QED
    BY <2>1, <2>2 DEF Pushed, Session
<1> HIDE DEF r
<1>4. s.count = MaxTemplates => r.count = MaxTemplates
  BY <1>1, <1>2
<1>5. s.count # MaxTemplates => r.covered = s.covered \cup {i}
  BY <1>1, <1>2
<1>6. QED
  BY <1>2, <1>3, <1>4, <1>5 DEF HeldUpTo, r

LEMMA PutsPushed ==
    ASSUME SessionsTyped, NEW s \in Ids, NEW i \in 0..Poses-1, sessions[s] # None,
           NEW n \in (sessions[s].count..MaxTemplates) \ {0},
           sessions' = [sessions EXCEPT ![s] = Pushed(@, i, n)], UNCHANGED <<counter, saved>>
    PROVE  /\ SessionsTyped'
           /\ \A t \in Ids : sessions'[t] # None => sessions[t] # None /\ sessions'[t].lost = sessions[t].lost
           /\ \A t \in Ids : t # s => sessions'[t] = sessions[t]
           /\ \A m \in Nat : HeldUpTo(sessions[s], m) => HeldUpTo(sessions'[s], m)
           /\ HeldUpTo(sessions[s], i) => HeldUpTo(sessions'[s], i + 1)
           /\ sessions'[s].cancelled = sessions[s].cancelled
<1> DEFINE r == Pushed(sessions[s], i, n)
<1>1. sessions[s] \in Session
  BY DEF SessionsTyped
<1>2. /\ r \in Session /\ r.cancelled = sessions[s].cancelled /\ r.lost = sessions[s].lost
      /\ \A m \in Nat : HeldUpTo(sessions[s], m) => HeldUpTo(r, m)
      /\ HeldUpTo(sessions[s], i) => HeldUpTo(r, i + 1)
  BY <1>1, Pushing
<1>3. sessions' = [sessions EXCEPT ![s] = r]
  BY Zenon
<1> HIDE DEF r
<1>4. /\ SessionsTyped' /\ sessions'[s] = r
      /\ \A t \in Ids : sessions'[t] # None => sessions[t] # None /\ sessions'[t].lost = sessions[t].lost
      /\ \A t \in Ids : t # s => sessions'[t] = sessions[t]
  BY <1>2, <1>3, Put
<1>5. QED
  BY <1>2, <1>4

LEMMA PutsCancelled ==
    ASSUME SessionsTyped, NEW s \in Ids, sessions[s] # None,
           sessions' = [sessions EXCEPT ![s] = [@ EXCEPT !.cancelled = TRUE, !.covered = {}, !.count = 0]],
           UNCHANGED <<counter, saved>>
    PROVE  /\ SessionsTyped'
           /\ \A t \in Ids : sessions'[t] # None => sessions[t] # None /\ sessions'[t].lost = sessions[t].lost
           /\ \A t \in Ids : t # s => sessions'[t] = sessions[t]
           /\ sessions'[s].count = 0 /\ sessions'[s].cancelled
<1> DEFINE r == [sessions[s] EXCEPT !.cancelled = TRUE, !.covered = {}, !.count = 0]
<1>1. sessions[s] \in Session
  BY DEF SessionsTyped
<1>2. /\ r \in Session /\ r.count = 0 /\ r.cancelled /\ r.lost = sessions[s].lost
  <2>1. 0 \in 0..MaxTemplates /\ {} \in SUBSET (0..Poses-1) /\ TRUE \in BOOLEAN
    BY OnboardingAssumption
  <2>2. QED
    BY <1>1, <2>1 DEF Session
<1>3. sessions' = [sessions EXCEPT ![s] = r]
  BY Zenon
<1> HIDE DEF r
<1>4. QED
  BY <1>2, <1>3, Put

\* A call that is answered with less than a success changes nothing else.
LEMMA ServesHeld ==
    ASSUME SessionsTyped, Waiting, Held, NEW c, NEW d, Serves(c, d), c.kind # "cancel",
           d.result = c.result \/ d.result \in {"error", "cancelled", "failed"},
           UNCHANGED <<sessions, counter, saved, wizardVars>>
    PROVE  SessionsTyped' /\ Held'
<1> USE DEF wizardVars, Serves, Same
<1>1. \A x \in calls' : x \in calls \/ x = d
  OBVIOUS
<1>2. \A x \in calls : x = c \/ x \in calls'
  OBVIOUS
<1>3. Progress'
  BY <1>1 DEF Held, Progress, Awaited
<1>4. Whole'
  BY <1>1 DEF Held, Whole
<1>5. Released'
  BY <1>2 DEF Held, Released
<1>6. QED
  BY <1>3, <1>4, <1>5 DEF SessionsTyped, Held, SavedIsComplete, Forgets

\* A pose is added to the session the wizard is at, or to one without an end.
LEMMA PushHeld ==
    ASSUME SessionsTyped, Waiting, Held, NEW c \in calls, c.kind = "pose",
           NEW d, Serves(c, d), d.result = "pose_complete", sessions[c.sid] # None,
           NEW n \in (sessions[c.sid].count..MaxTemplates) \ {0},
           sessions' = [sessions EXCEPT ![c.sid] = Pushed(@, c.idx, n)],
           UNCHANGED <<counter, saved, wizardVars>>
    PROVE  SessionsTyped' /\ Held'
<1> USE DEF wizardVars, Serves, Same
<1>1. c.sid \in Ids /\ c.idx \in 0..Poses-1 /\ index \in Nat
  BY OnboardingAssumption DEF Waiting, CallsTyped, WizardTyped, Call, Places
<1>2. /\ SessionsTyped'
      /\ \A t \in Ids : sessions'[t] # None => sessions[t] # None /\ sessions'[t].lost = sessions[t].lost
      /\ \A t \in Ids : t # c.sid => sessions'[t] = sessions[t]
      /\ \A m \in Nat : HeldUpTo(sessions[c.sid], m) => HeldUpTo(sessions'[c.sid], m)
      /\ HeldUpTo(sessions[c.sid], c.idx) => HeldUpTo(sessions'[c.sid], c.idx + 1)
      /\ sessions'[c.sid].cancelled = sessions[c.sid].cancelled
  BY <1>1, PutsPushed
<1>3. \A x \in calls' : x \in calls \/ x = d
  OBVIOUS
<1>4. \A x \in calls : x = c \/ x \in calls'
  OBVIOUS
<1>5. Progress'
  <2>1. SUFFICES ASSUME ~card, NEW s \in Ids, s = session, sessions'[s] # None
                 PROVE  /\ HeldUpTo(sessions'[s], index)
                        /\ \A x \in calls' : Awaited(x) /\ x.kind = "pose" /\ x.result = "pose_complete"
                               => HeldUpTo(sessions'[s], index + 1)
    BY DEF Progress, HeldUpTo
  <2>2. /\ sessions[s] # None /\ HeldUpTo(sessions[s], index)
        /\ \A m \in Nat : HeldUpTo(sessions[s], m) => HeldUpTo(sessions'[s], m)
    BY <1>1, <1>2, <2>1 DEF Held, Progress
  <2>3. HeldUpTo(sessions'[s], index)
    BY <1>1, <2>2
  <2>4. ASSUME Awaited(d) PROVE HeldUpTo(sessions'[s], index + 1)
    <3>1. session \in {None, c.sid} /\ c.idx = index
      BY <2>4 DEF Waiting, Current, Awaited
    <3>2. s = c.sid
      BY <2>1, <3>1, OnboardingAssumption DEF Ids
    <3>3. QED
      BY <1>2, <2>2, <3>1, <3>2
  <2>5. ASSUME NEW x \in calls, Awaited(x), x.kind = "pose", x.result = "pose_complete"
        PROVE  HeldUpTo(sessions'[s], index + 1)
    <3>1. HeldUpTo(sessions[s], index + 1)
      BY <2>1, <2>2, <2>5 DEF Held, Progress
    <3>2. QED
      BY <1>1, <2>2, <3>1
  <2>6. QED
    BY <1>3, <2>3, <2>4, <2>5
<1>6. Whole'
  <2>1. \A f \in calls' : f.kind = "finish" => f \in calls /\ f.sid # c.sid /\ f.sid \in Ids
    BY <1>3 DEF Waiting, Apart, CallsTyped, Call
  <2>2. QED
    BY <1>2, <2>1 DEF Held, Whole, HeldUpTo
<1>7. Released'
  BY <1>1, <1>2, <1>4 DEF Held, Released
<1>8. QED
  BY <1>2, <1>5, <1>6, <1>7 DEF Held, SavedIsComplete, Forgets

\* What finish_enrollment saves for c.
Result(c) == [sid |-> c.sid, covered |-> sessions[c.sid].covered,
              count |-> sessions[c.sid].count, want |-> c.idx]

\* A session that is finished is over, and what was saved is what it held.
LEMMA SaveHeld ==
    ASSUME SessionsTyped, Waiting, Held, NEW c \in calls, c.kind = "finish", NEW d, Serves(c, d),
           sessions' = [sessions EXCEPT ![c.sid] = None], UNCHANGED <<counter, wizardVars>>,
           \/ /\ sessions[c.sid] # None /\ sessions[c.sid].count > 0 /\ d.result = "saved"
              /\ saved' = Result(c)
           \/ d.result = "error" /\ UNCHANGED saved
    PROVE  SessionsTyped' /\ Held'
<1> USE DEF wizardVars, Serves, Same
<1>1. c.sid \in Ids /\ c.idx \in 0..Poses
  BY DEF Waiting, CallsTyped, Call, Places
<1>2. /\ sessions' \in [Ids -> Session \cup {None}]
      /\ \A t \in Ids : sessions'[t] # None => sessions'[t] = sessions[t]
  BY <1>1 DEF SessionsTyped
<1>3. saved' \in Face \cup {None}
      /\ (saved' = saved \/ 0..saved'.want-1 \subseteq saved'.covered \/ saved'.count = MaxTemplates)
  <2>1. CASE d.result = "error" /\ UNCHANGED saved
    BY <2>1 DEF SessionsTyped
  <2>2. CASE /\ sessions[c.sid] # None /\ sessions[c.sid].count > 0 /\ d.result = "saved"
             /\ saved' = Result(c)
    <3>1. sessions[c.sid] \in Session
      BY <1>1, <2>2 DEF SessionsTyped
    <3>2. saved' \in Face
      BY <1>1, <2>2, <3>1 DEF Face, Session, Result
    <3>3. 0..c.idx-1 \subseteq sessions[c.sid].covered \/ sessions[c.sid].count = MaxTemplates
      BY <2>2 DEF Held, Whole, HeldUpTo
    <3>4. /\ saved'.want = c.idx /\ saved'.covered = sessions[c.sid].covered
          /\ saved'.count = sessions[c.sid].count
      BY <2>2 DEF Result
    <3>5. QED
      BY <3>2, <3>3, <3>4
  <2>3. QED
    BY <2>1, <2>2
<1>4. \A x \in calls' : x \in calls \/ x = d
  OBVIOUS
<1>5. \A x \in calls : x = c \/ x \in calls'
  OBVIOUS
<1>6. Progress'
  BY <1>2, <1>4 DEF Held, Progress, Awaited
<1>7. Whole'
  <2>1. \A f \in calls' : f.sid \in Ids
    BY <1>1, <1>4 DEF Waiting, CallsTyped, Call
  <2>2. QED
    BY <1>2, <1>4, <2>1 DEF Held, Whole
<1>8. Released'
  BY <1>2, <1>5 DEF Held, Released
<1>9. SessionsTyped'
  BY <1>2, <1>3 DEF SessionsTyped
<1>10. QED
  BY <1>3, <1>6, <1>7, <1>8, <1>9 DEF Held, SavedIsComplete, Forgets

LEMMA CancelsHeld ==
    ASSUME SessionsTyped, Waiting, Held, NEW c, Cancels(c)
    PROVE  SessionsTyped' /\ Held'
<1>1. /\ c \in calls /\ c.kind = "cancel" /\ calls' = calls \ {c}
      /\ UNCHANGED <<saved, counter, page, session, index, closed, card>>
  BY DEF Cancels, Daemon, wizardVars
<1>2. c.sid \in Ids /\ c.sid # session
  BY <1>1 DEF Waiting, CallsTyped, Call, Apart
<1>3. CASE sessions[c.sid] = None
  <2>1. sessions' = sessions
    BY <1>3 DEF Cancels
  <2>2. QED
    BY <1>1, <1>3, <2>1 DEF SessionsTyped, Held, Progress, Whole, SavedIsComplete,
                            Released, Forgets, Awaited
<1>4. CASE sessions[c.sid] # None
  <2>1. sessions' = [sessions EXCEPT ![c.sid] = [@ EXCEPT !.cancelled = TRUE, !.covered = {}, !.count = 0]]
    BY <1>4 DEF Cancels
  <2>2. /\ SessionsTyped'
        /\ \A t \in Ids : sessions'[t] # None => sessions[t] # None /\ sessions'[t].lost = sessions[t].lost
        /\ \A t \in Ids : t # c.sid => sessions'[t] = sessions[t]
        /\ sessions'[c.sid].count = 0 /\ sessions'[c.sid].cancelled
    BY <1>1, <1>2, <1>4, <2>1, PutsCancelled
  <2>3. Progress'
    BY <1>1, <1>2, <2>2 DEF Held, Progress, Awaited
  <2>4. Whole'
    <3>1. \A f \in calls' : f \in calls /\ f.sid \in Ids
      BY <1>1 DEF Waiting, CallsTyped, Call
    <3>2. QED
      BY <2>2, <3>1 DEF Held, Whole
  <2>5. Released'
    BY <1>1, <1>2, <2>2 DEF Held, Released
  <2>6. QED
    BY <1>1, <2>2, <2>3, <2>4, <2>5 DEF Held, SavedIsComplete, Forgets
<1>5. QED
  BY <1>3, <1>4

\* A restart, or another client: no session is left.
LEMMA EmptiedHeld ==
    ASSUME SessionsTyped, Held, Waiting', sessions' = [s \in Ids |-> None],
           UNCHANGED <<saved, counter, session, closed>>
    PROVE  SessionsTyped' /\ Held'
<1>1. \A s \in Ids : sessions'[s] = None
  OBVIOUS
<1>2. SessionsTyped'
  BY <1>1 DEF SessionsTyped
<1>3. Progress' /\ Released'
  BY <1>1 DEF Progress, Released
<1>4. Whole'
  <2>1. \A f \in calls' : f.sid \in Ids
    BY DEF Waiting, CallsTyped, Call
  <2>2. QED
    BY <1>1, <2>1 DEF Whole
<1>5. QED
  BY <1>2, <1>3, <1>4 DEF Held, SavedIsComplete, Forgets

LEMMA RestartHeld ==
    ASSUME SessionsTyped, Waiting, Held, Restart, Waiting'
    PROVE  SessionsTyped' /\ Held'
BY EmptiedHeld DEF Restart, wizardVars

LEMMA TimesOutHeld ==
    ASSUME SessionsTyped, Waiting, Held, NEW c, TimesOut(c)
    PROVE  SessionsTyped' /\ Held'
<1> DEFINE g == [c EXCEPT !.gone = TRUE]
           e == [c EXCEPT !.stage = "done", !.result = "error"]
<1>1. /\ c \in calls /\ c \in Call /\ c.kind # "cancel"
      /\ calls' = (calls \ {c}) \cup {g, e}
      /\ UNCHANGED <<sessions, saved, counter, session, index, card, closed>>
  BY DEF TimesOut, daemonVars, wizardVars, Waiting, CallsTyped
<1>2. /\ g.kind = c.kind /\ g.sid = c.sid /\ g.idx = c.idx /\ g.result = c.result /\ g.gone
  BY <1>1, GivenUp
<1>3. Same(e, c) /\ e.result = "error"
  BY <1>1, Answered DEF Results
<1> HIDE DEF g, e
<1> USE DEF Same
<1>4. \A x \in calls' : x \in calls \/ x = g \/ x = e
  BY <1>1
<1>5. Progress'
  BY <1>1, <1>2, <1>3, <1>4 DEF Held, Progress, Awaited
<1>6. Whole'
  BY <1>1, <1>2, <1>3, <1>4 DEF Held, Whole
<1>7. Released'
  BY <1>1 DEF Held, Released
<1>8. QED
  BY <1>1, <1>5, <1>6, <1>7 DEF SessionsTyped, Held, SavedIsComplete, Forgets

-----------------------------------------------------------------------------
(* What the sessions hold, step by step of the wizard.                     *)

\* A new session holds nothing and the wizard is at its first pose; the one
\* before is cancelled, or will be.
LEMMA StartHeld ==
    ASSUME SessionsTyped, Waiting, Held, Idle, NEW old, Kept(old), StartSession(old),
           session # None => \E x \in old : x.kind = "cancel" /\ x.sid = session,
           ~closed, UNCHANGED <<saved, closed>>
    PROVE  SessionsTyped' /\ Held'
<1> DEFINE r(b) == [covered |-> {}, count |-> 0, cancelled |-> FALSE, lost |-> b]
           new(b) == [s \in Ids |-> IF s # counter' THEN None ELSE r(b)]
           Opened == /\ counter < MaxSessions /\ counter' = counter + 1
                     /\ sessions' \in [Ids -> Session \cup {None}]
                     /\ \A s \in Ids : sessions'[s] # None =>
                            /\ s = counter' /\ sessions'[s].count = 0
                            /\ sessions'[s].lost \/ session' = counter'
<1>1. ASSUME NEW b \in BOOLEAN, counter < MaxSessions, counter' = counter + 1, sessions' = new(b),
             b \/ session' = counter'
      PROVE  Opened
  <2>1. r(b) \in Session /\ r(b).count = 0 /\ (r(b).lost <=> b)
    BY OnboardingAssumption DEF Session
  <2> HIDE DEF r
  <2>2. QED
    BY <1>1, <2>1
<1>2. \/ sessions' = sessions /\ counter' = counter /\ session' = None /\ calls' = old
      \/ /\ counter < MaxSessions /\ counter' = counter + 1 /\ sessions' = new(TRUE)
         /\ session' = None /\ calls' = old
      \/ /\ counter < MaxSessions /\ counter' = counter + 1 /\ sessions' = new(FALSE)
         /\ session' = counter' /\ calls' = old /\ card'
      \/ /\ counter < MaxSessions /\ counter' = counter + 1 /\ sessions' = new(FALSE)
         /\ session' = counter' /\ index' = 0 /\ Capturing(old, counter', 0)
  BY DEF StartSession, Opens, FirstIndex
<1> HIDE DEF new
<1>3. /\ \/ sessions' = sessions /\ counter' = counter /\ session' = None
         \/ Opened
      /\ session' = None \/ card' \/ index' = 0
      /\ \/ calls' = old
         \/ counter < MaxSessions /\ counter' = counter + 1 /\ Capturing(old, counter', 0)
  BY <1>1, <1>2
<1> HIDE DEF Opened
<1>4. \A x \in calls : x \in Call /\ x.sid \in Nat /\ x.sid <= counter /\ ~Awaited(x)
  BY DeclareCalls DEF Idle
<1>5. \A x \in old : /\ ~Awaited(x) /\ x.sid \in Nat /\ x.sid <= counter
                     /\ x.kind = "finish" => x \in calls
  BY <1>4 DEF Kept, Awaited, Call, Ids
<1>6. \/ calls' = old
      \/ /\ old \subseteq calls'
         /\ \E p : Sent(p, "pose", counter', 0) /\ calls' \subseteq old \cup {p}
  <2>1. CASE calls' = old
    BY <2>1
  <2>2. CASE counter < MaxSessions /\ counter' = counter + 1 /\ Capturing(old, counter', 0)
    <3>1. ~running
      BY <1>4 DEF Waiting, OneThing
    <3>2. calls' = Send(old, "pose", counter', 0)
      BY <2>2, <3>1 DEF Capturing
    <3>3. counter' \in Ids /\ 0 \in Places
      BY <2>2, DeclareCalls DEF Ids, Places
    <3>4. Sent(Fresh("pose", counter', 0), "pose", counter', 0)
      BY <3>3, Sending
    <3>5. QED
      BY <3>2, <3>4, Sends
  <2>3. QED
    BY <1>3, <2>1, <2>2
<1>7. /\ \A x \in old : x \in calls'
      /\ \A x \in calls' : x \in old \/ (x.kind = "pose" /\ x.result = None)
  BY <1>6 DEF Sent
<1>8. SessionsTyped'
  BY <1>3, DeclareCalls, NoneApart DEF SessionsTyped, Opened
<1>9. Progress'
  <2>1. SUFFICES ASSUME ~card', NEW s \in Ids, s = session', sessions'[s] # None
                 PROVE  /\ HeldUpTo(sessions'[s], index')
                        /\ \A x \in calls' : ~(Awaited(x) /\ x.kind = "pose" /\ x.result = "pose_complete")
    BY DEF Progress, HeldUpTo
  <2>2. index' = 0
    BY <1>3, <2>1, OnboardingAssumption DEF Ids
  <2>3. QED
    BY <1>5, <1>7, <2>2, NoneApart DEF HeldUpTo
<1>10. Whole'
  <2>1. SUFFICES ASSUME NEW f \in calls', f.kind = "finish", sessions'[f.sid] # None
                 PROVE  HeldUpTo(sessions'[f.sid], f.idx) \/ sessions'[f.sid].count = 0
    BY DEF Whole, HeldUpTo
  <2>2. f \in calls /\ f.sid \in Ids /\ f.sid <= counter
    BY <1>4, <1>5, <1>7, <2>1 DEF Call
  <2>3. sessions' = sessions
    BY <1>3, <2>1, <2>2, DeclareCalls DEF Opened
  <2>4. QED
    BY <2>1, <2>2, <2>3 DEF Held, Whole
<1>11. Released'
  <2>1. \A x \in calls : x \in calls'
    BY <1>7 DEF Kept
  <2>2. CASE sessions' = sessions
    BY <1>7, <2>1, <2>2, OnboardingAssumption DEF Held, Released, Ids
  <2>3. CASE Opened
    BY <2>3 DEF Released, Opened
  <2>4. QED
    BY <1>3, <2>2, <2>3
<1>12. QED
  BY <1>8, <1>9, <1>10, <1>11 DEF Held, SavedIsComplete, Forgets

\* The other steps of the wizard leave the sessions alone.
LEMMA WizardHeld ==
    ASSUME SessionsTyped, Waiting, Held, UNCHANGED <<sessions, saved, counter>>,
           \A x \in calls : x.kind = "cancel" => x \in calls',
           \A x \in calls' : x \in calls \/
               /\ x.result = None
               /\ x.kind = "finish" /\ sessions[x.sid] # None => HeldUpTo(sessions[x.sid], x.idx),
           \/ session' = session
           \/ session' = None /\ (session # None => \E x \in calls' : x.kind = "cancel" /\ x.sid = session),
           \/ index' = index
           \/ /\ \A x \in calls' : ~Awaited(x)
              /\ \A s \in Ids : s = session' /\ sessions[s] # None => HeldUpTo(sessions[s], index'),
           card => card', closed' => session' = None
    PROVE  SessionsTyped' /\ Held'
<1>1. Progress'
  <2>1. SUFFICES ASSUME ~card, NEW s \in Ids, s = session', sessions[s] # None
                 PROVE  /\ HeldUpTo(sessions[s], index')
                        /\ \A x \in calls' : Awaited(x) /\ x.kind = "pose" /\ x.result = "pose_complete"
                               => HeldUpTo(sessions[s], index' + 1)
    BY DEF Progress, HeldUpTo
  <2>2. s = session
    BY <2>1, OnboardingAssumption DEF Ids
  <2>3. QED
    BY <2>1, <2>2, NoneApart DEF Held, Progress
<1>2. Whole'
  BY DEF Held, Whole
<1>3. Released'
  BY OnboardingAssumption DEF Held, Released, Ids
<1>4. QED
  BY <1>1, <1>2, <1>3 DEF SessionsTyped, Held, SavedIsComplete, Forgets

LEMMA GoCameraHeld ==
    ASSUME SessionsTyped, Waiting, Held, GoCamera \/ Done
    PROVE  SessionsTyped' /\ Held'
<1>1. UNCHANGED <<sessions, saved, counter, calls, session, index, card, closed>>
  BY DEF GoCamera, Done, daemonVars
<1>2. QED
  BY <1>1, WizardHeld DEF Held, Forgets

LEMMA CaptureHeld ==
    ASSUME SessionsTyped, Waiting, Held, CapturePose,
           UNCHANGED <<sessions, saved, counter, session, index, closed>>
    PROVE  SessionsTyped' /\ Held'
<1>1. /\ \A x \in calls : x \in calls'
      /\ \A x \in calls' : x \in calls \/ (x.result = None /\ x.kind = "pose")
  <2>1. CASE calls' = calls
    BY <2>1
  <2>2. CASE session # None /\ ~running
    <3>1. calls' = Send(calls, "pose", session, index)
      BY <2>2 DEF CapturePose, Capturing
    <3>2. session \in Ids /\ session <= counter /\ index \in Places
      BY <2>2, DeclareCalls DEF Waiting, WizardTyped, Ids, Places
    <3>3. Sent(Fresh("pose", session, index), "pose", session, index)
      BY <3>2, Sending
    <3>4. QED
      BY <3>1, <3>3, Sends DEF Sent
  <2>3. QED
    BY <2>1, <2>2 DEF CapturePose, Capturing
<1>2. card => card'
  BY DEF CapturePose, Fail
<1>3. QED
  BY <1>1, <1>2, WizardHeld DEF Held, Forgets

LEMMA FinishHeld ==
    ASSUME SessionsTyped, Waiting, Held, Finish
    PROVE  SessionsTyped' /\ Held'
<1>1. UNCHANGED <<sessions, saved, counter, session, index, closed>> /\ timer = "finish" /\ ~card
  BY OnboardingAssumption DEF Finish, daemonVars, Waiting, OneThing
<1>2. /\ \A x \in calls : x \in calls'
      /\ \A x \in calls' : x \in calls \/ (x.result = None /\ x.sid = session /\ x.idx = index)
  <2>1. CASE session = None
    BY <2>1 DEF Finish
  <2>2. CASE session # None
    <3>1. calls' = Send(calls, "finish", session, poses)
      BY <2>2 DEF Finish
    <3>2. session \in Ids /\ poses \in Places
      BY <2>2, DeclareCalls DEF Waiting, WizardTyped, Ids, Places
    <3>3. Sent(Fresh("finish", session, poses), "finish", session, poses)
      BY <3>2, Sending
    <3>4. index = poses
      BY <1>1 DEF Waiting, Current
    <3>5. QED
      BY <3>1, <3>3, <3>4, Sends DEF Sent
  <2>3. QED
    BY <2>1, <2>2
<1>3. \A x \in calls' : x \in calls \/
          /\ x.result = None
          /\ x.kind = "finish" /\ sessions[x.sid] # None => HeldUpTo(sessions[x.sid], x.idx)
  <2>1. session \in Ids \cup {None}
    BY DeclareCalls DEF Waiting, WizardTyped, Ids
  <2>2. \A x \in calls' : x.sid \in Ids
    BY <1>1, <1>2, <2>1, FinishWaiting DEF Waiting, CallsTyped, Call
  <2>3. QED
    BY <1>1, <1>2, <2>1, <2>2 DEF Held, Progress
<1>4. QED
  BY <1>1, <1>2, <1>3, WizardHeld DEF Held, Forgets

LEMMA CloseHeld ==
    ASSUME SessionsTyped, Waiting, Held, CloseWindow
    PROVE  SessionsTyped' /\ Held'
<1>1. /\ UNCHANGED <<sessions, saved, counter, index>>
      /\ session' = None /\ calls' = CancelSession
  BY DEF CloseWindow, daemonVars
<1>2. /\ Kept(CancelSession)
      /\ session # None => \E x \in CancelSession : x.kind = "cancel" /\ x.sid = session
  BY CancelKept
<1>3. /\ \A x \in calls : x \in calls'
      /\ \A x \in calls' : x \in calls \/ x.kind = "cancel"
  BY <1>1, <1>2 DEF Kept
<1>4. Progress' /\ SessionsTyped'
  BY <1>1, OnboardingAssumption DEF Progress, SessionsTyped, Ids
<1>5. Whole'
  BY <1>1, <1>3 DEF Held, Whole
<1>6. Released'
  BY <1>1, <1>2, <1>3, OnboardingAssumption DEF Held, Released, Ids
<1>7. QED
  BY <1>1, <1>4, <1>5, <1>6 DEF Held, SavedIsComplete, Forgets

LEMMA OnPoseDoneHeld ==
    ASSUME SessionsTyped, Waiting, Held, NEW c, OnPoseDone(c)
    PROVE  SessionsTyped' /\ Held'
<1>1. /\ c \in calls /\ c.kind = "pose" /\ c.stage = "done" /\ calls' = calls \ {c}
      /\ UNCHANGED <<sessions, saved, counter, session, closed>>
      /\ index' = index \/ (c.result = "pose_complete" /\ index' = index + 1)
  BY DEF OnPoseDone, daemonVars
<1>2. Awaited(c) /\ ~card /\ \A x \in calls' : ~Awaited(x)
  BY <1>1, Replied
<1>3. CASE index' = index
  BY <1>1, <1>2, <1>3, WizardHeld DEF Held, Forgets
<1>4. CASE c.result = "pose_complete" /\ index' = index + 1
  <2>1. \A s \in Ids : s = session' /\ sessions[s] # None => HeldUpTo(sessions[s], index')
    BY <1>1, <1>2, <1>4 DEF Held, Progress
  <2>2. QED
    BY <1>1, <1>2, <2>1, WizardHeld DEF Held, Forgets
<1>5. QED
  BY <1>1, <1>3, <1>4

LEMMA OnFinishedHeld ==
    ASSUME SessionsTyped, Waiting, Held, NEW c, OnFinished(c)
    PROVE  SessionsTyped' /\ Held'
<1>1. /\ c \in calls /\ c.kind = "finish" /\ calls' = calls \ {c}
      /\ UNCHANGED <<sessions, saved, counter, session, index, closed>>
      /\ card => card'
  BY DEF OnFinished, Fail, daemonVars
<1>2. QED
  BY <1>1, WizardHeld DEF Held, Forgets

-----------------------------------------------------------------------------
(* Whose face was saved.                                                   *)

Truth == Newest /\ Honest

\* A service of the daemon says "saved" of the last session only.
LEMMA ServesTruth ==
    ASSUME Truth, NEW c, NEW d, Serves(c, d), UNCHANGED <<counter, wizardVars>>,
           \A s \in Ids : sessions'[s] # None => sessions[s] # None,
           \/ saved' = saved /\ (d.result = c.result \/ d.result # "saved")
           \/ saved' # None /\ saved'.sid = counter
    PROVE  Truth'
<1> USE DEF Serves, Same, wizardVars, Awaited
<1>1. \A x \in calls' : x \in calls \/ (x = d /\ c \in calls)
  OBVIOUS
<1>2. Idle' = Idle
  BY DEF Idle
<1>3. Newest'
  BY <1>1 DEF Truth, Newest
<1>4. Ended' => Idle' /\ timer' = None /\ ~card' /\ ~retry'
  BY <1>2 DEF Truth, Honest, Ended
<1>5. Ended' \/ (\E x \in calls' : Awaited(x) /\ x.result = "saved")
          => saved' # None /\ saved'.sid = counter'
  BY <1>1 DEF Truth, Honest, Ended
<1>6. QED
  BY <1>3, <1>4, <1>5 DEF Truth, Honest, Awaited

\* Nothing is asked for but of the last session.
LEMMA AsksTruth ==
    ASSUME Truth, UNCHANGED <<saved, counter, page>>,
           \A s \in Ids : sessions'[s] # None => sessions[s] # None,
           session' \in {session, None},
           \A x \in calls' : Awaited(x) => x.sid = counter /\
               (x.result = "saved" => \E c \in calls : Awaited(c) /\ c.result = "saved"),
           Ended => Idle' /\ timer' = None /\ ~card' /\ ~retry'
    PROVE  Truth'
<1>1. Newest'
  BY DEF Truth, Newest, Awaited
<1>2. Honest'
  BY DEF Truth, Honest, Ended, Awaited
<1>3. QED
  BY <1>1, <1>2 DEF Truth

LEMMA CancelsTruth ==
    ASSUME SessionsTyped, Waiting, Truth, NEW c, Cancels(c)
    PROVE  Truth'
<1>1. /\ c \in calls /\ c.kind = "cancel" /\ calls' = calls \ {c} /\ c.sid \in Ids
      /\ UNCHANGED <<saved, counter, page, session, timer, card, retry>>
      /\ sessions[c.sid] = None => sessions' = sessions
  BY DEF Cancels, Daemon, wizardVars, Waiting, CallsTyped, Call
<1>2. \A s \in Ids : sessions'[s] # None => sessions[s] # None
  BY <1>1 DEF Cancels, SessionsTyped
<1>3. Ended => Idle' /\ timer' = None /\ ~card' /\ ~retry'
  BY <1>1 DEF Truth, Honest, Idle, Awaited
<1>4. QED
  BY <1>1, <1>2, <1>3, AsksTruth DEF Truth, Newest

LEMMA TimesOutTruth ==
    ASSUME Waiting, Truth, NEW c, TimesOut(c)
    PROVE  Truth'
<1> DEFINE g == [c EXCEPT !.gone = TRUE]
           e == [c EXCEPT !.stage = "done", !.result = "error"]
<1>1. /\ c \in calls /\ c \in Call /\ Awaited(c)
      /\ calls' = (calls \ {c}) \cup {g, e}
      /\ UNCHANGED <<sessions, saved, counter, page, session>>
  BY DEF TimesOut, daemonVars, wizardVars, Waiting, CallsTyped, Awaited
<1>2. g.gone
  BY <1>1, GivenUp
<1>3. Same(e, c) /\ e.result = "error"
  BY <1>1, Answered DEF Results
<1> HIDE DEF g, e
<1>4. \A x \in calls' : Awaited(x) => x.sid = counter /\
          (x.result = "saved" => \E y \in calls : Awaited(y) /\ y.result = "saved")
  BY <1>1, <1>2, <1>3 DEF Truth, Newest, Awaited, Same
<1>5. ~Ended
  BY <1>1 DEF Truth, Honest, Idle
<1>6. QED
  BY <1>1, <1>4, <1>5, AsksTruth

\* A restart, or another client.
LEMMA EmptiedTruth ==
    ASSUME Waiting, Truth, Restart \/ Taken
    PROVE  Truth'
<1> DEFINE Over(c) == [c EXCEPT !.stage = "done", !.result = IF c.stage = "done" THEN @ ELSE "error"]
<1>1. /\ \A s \in Ids : sessions'[s] = None
      /\ UNCHANGED <<saved, counter, page, session, timer, card, retry>>
      /\ \/ calls' = calls
         \/ calls' = {Over(c) : c \in {x \in calls : x.kind # "cancel" /\ ~x.gone}}
  BY DEF Restart, Taken, wizardVars
<1>2. \A c \in calls : Same(Over(c), c) /\ (Over(c).result = c.result \/ Over(c).result = "error")
  BY DEF Waiting, CallsTyped, Call, Same
<1> HIDE DEF Over
<1>3. \A x \in calls' : Awaited(x) =>
          \E c \in calls : Awaited(c) /\ x.sid = c.sid /\ (x.result = c.result \/ x.result = "error")
  BY <1>1, <1>2 DEF Same, Awaited
<1>4. Ended => Idle' /\ timer' = None /\ ~card' /\ ~retry'
  BY <1>1, <1>3 DEF Truth, Honest, Idle, Awaited
<1>5. QED
  BY <1>1, <1>3, <1>4, AsksTruth DEF Truth, Newest

\* A session is opened by a window that has not ended, and waits for nothing.
LEMMA StartTruth ==
    ASSUME SessionsTyped, Waiting, Truth, Idle, ~Ended, NEW old, Kept(old), StartSession(old),
           page' \in {page, "enroll"}, UNCHANGED saved
    PROVE  Truth'
<1> DEFINE new(b) == [s \in Ids |-> IF s # counter' THEN None ELSE
                         [covered |-> {}, count |-> 0, cancelled |-> FALSE, lost |-> b]]
<1>1. /\ \/ sessions' = sessions /\ counter' = counter /\ session' = None
         \/ counter' = counter + 1 /\ sessions' \in {new(TRUE), new(FALSE)}
      /\ session' \in {None, counter'}
      /\ \/ calls' = old
         \/ Capturing(old, counter', 0) /\ counter' = counter + 1 /\ counter < MaxSessions
  BY DEF StartSession, Opens, FirstIndex
<1>2. \A s \in Ids : sessions'[s] # None => s = counter'
  BY <1>1 DEF Truth, Newest
<1> HIDE DEF new
<1>3. \A x \in old : ~Awaited(x)
  BY DEF Kept, Idle, Awaited
<1>4. \A x \in calls' : Awaited(x) => x.sid = counter' /\ x.result # "saved"
  <2>1. CASE calls' = old
    BY <1>3, <2>1
  <2>2. CASE Capturing(old, counter', 0) /\ counter' = counter + 1 /\ counter < MaxSessions
    <3>1. ~running
      BY DEF Waiting, OneThing, Idle, Awaited
    <3>2. calls' = Send(old, "pose", counter', 0)
      BY <2>2, <3>1 DEF Capturing
    <3>3. counter' \in Ids /\ 0 \in Places
      BY <2>2, DeclareCalls DEF Ids, Places
    <3>4. Sent(Fresh("pose", counter', 0), "pose", counter', 0)
      BY <3>3, Sending
    <3>5. QED
      BY <1>3, <3>2, <3>4, Sends, NoneApart DEF Sent
  <2>3. QED
    BY <1>1, <2>1, <2>2
<1>5. ~Ended'
  BY DEF Ended
<1>6. QED
  BY <1>1, <1>2, <1>4, <1>5 DEF Truth, Newest, Honest, Awaited

LEMMA GoCameraTruth ==
    ASSUME Truth, GoCamera
    PROVE  Truth'
<1>1. /\ ~Ended' /\ calls' = calls /\ UNCHANGED <<sessions, saved, counter, session>>
  BY DEF GoCamera, daemonVars, Ended
<1>2. QED
  BY <1>1 DEF Truth, Newest, Honest, Awaited

LEMMA DoneTruth ==
    ASSUME Truth, Done
    PROVE  Truth'
<1>1. /\ Ended /\ calls' = calls
      /\ UNCHANGED <<sessions, saved, counter, session, timer, card, retry>>
  BY DEF Done, daemonVars, Ended
<1>2. QED
  BY <1>1 DEF Truth, Newest, Honest, Awaited, Idle

LEMMA CaptureTruth ==
    ASSUME SessionsTyped, Waiting, Truth, CapturePose, retry \/ timer # None,
           UNCHANGED <<sessions, saved, counter, session, page>>
    PROVE  Truth'
<1>1. ~Ended
  BY DEF Truth, Honest
<1>2. \A x \in calls' : Awaited(x) => x \in calls \/ (x.sid = session /\ session # None /\ x.result = None)
  <2>1. CASE calls' = calls
    BY <2>1
  <2>2. CASE session # None /\ ~running
    <3>1. calls' = Send(calls, "pose", session, index)
      BY <2>2 DEF CapturePose, Capturing
    <3>2. session \in Ids /\ index \in Places
      BY <2>2, DeclareCalls DEF Waiting, WizardTyped, Ids, Places
    <3>3. Sent(Fresh("pose", session, index), "pose", session, index)
      BY <3>2, Sending
    <3>4. QED
      BY <2>2, <3>1, <3>3, Sends DEF Sent
  <2>3. QED
    BY <2>1, <2>2 DEF CapturePose, Capturing
<1>3. QED
  BY <1>1, <1>2, AsksTruth, NoneApart DEF Truth, Newest

LEMMA FinishTruth ==
    ASSUME SessionsTyped, Waiting, Truth, Finish
    PROVE  Truth'
<1>1. /\ UNCHANGED <<sessions, saved, counter, session, page>> /\ timer # None
  BY OnboardingAssumption DEF Finish, daemonVars
<1>2. ~Ended
  BY <1>1 DEF Truth, Honest
<1>3. \A x \in calls' : Awaited(x) => x \in calls \/ (x.sid = session /\ session # None /\ x.result = None)
  <2>1. CASE session = None
    BY <2>1 DEF Finish
  <2>2. CASE session # None
    <3>1. calls' = Send(calls, "finish", session, poses)
      BY <2>2 DEF Finish
    <3>2. session \in Ids /\ poses \in Places
      BY <2>2, DeclareCalls DEF Waiting, WizardTyped, Ids, Places
    <3>3. Sent(Fresh("finish", session, poses), "finish", session, poses)
      BY <3>2, Sending
    <3>4. QED
      BY <2>2, <3>1, <3>3, Sends DEF Sent
  <2>3. QED
    BY <2>1, <2>2
<1>4. QED
  BY <1>1, <1>2, <1>3, AsksTruth, NoneApart DEF Truth, Newest

LEMMA OnPoseDoneTruth ==
    ASSUME SessionsTyped, Waiting, Truth, NEW c, OnPoseDone(c)
    PROVE  Truth'
<1>1. /\ c \in calls /\ c.kind = "pose" /\ c.stage = "done" /\ calls' = calls \ {c}
      /\ UNCHANGED <<sessions, saved, counter, page, session>>
  BY DEF OnPoseDone, daemonVars
<1>2. ~Ended
  BY <1>1, Replied DEF Truth, Honest, Idle
<1>3. QED
  BY <1>1, <1>2, AsksTruth DEF Truth, Newest

LEMMA OnFinishedTruth ==
    ASSUME SessionsTyped, Waiting, Truth, NEW c, OnFinished(c)
    PROVE  Truth'
<1>1. /\ c \in calls /\ c.kind = "finish" /\ c.stage = "done" /\ calls' = calls \ {c}
      /\ UNCHANGED <<sessions, saved, counter, session, timer>>
  BY DEF OnFinished, daemonVars
<1>2. /\ Awaited(c) /\ timer = None /\ ~card /\ ~retry /\ \A x \in calls' : ~Awaited(x)
  BY <1>1, Replied
<1>3. ~Ended
  BY <1>1, <1>2 DEF Truth, Honest, Idle
<1>4. CASE c.result = "saved"
  <2>1. UNCHANGED <<card, retry>>
    BY <1>4 DEF OnFinished
  <2>2. saved # None /\ saved.sid = counter
    BY <1>1, <1>2, <1>4 DEF Truth, Honest
  <2>3. Idle'
    BY <1>2 DEF Idle, Awaited
  <2>4. QED
    BY <1>1, <1>2, <2>1, <2>2, <2>3 DEF Truth, Newest, Honest, Awaited
<1>5. CASE c.result # "saved"
  <2>1. page' = page
    BY <1>5 DEF OnFinished
  <2>2. QED
    BY <1>1, <1>2, <1>3, <2>1, AsksTruth
<1>6. QED
  BY <1>4, <1>5

LEMMA CloseTruth ==
    ASSUME SessionsTyped, Waiting, Truth, CloseWindow
    PROVE  Truth'
<1>1. /\ UNCHANGED <<sessions, saved, counter, page, timer, card, retry>>
      /\ session' = None /\ calls' = CancelSession
  BY DEF CloseWindow, daemonVars
<1>2. \A x \in calls' : Awaited(x) => x \in calls
  BY <1>1, CancelKept DEF Kept, Awaited
<1>3. Ended => Idle' /\ timer' = None /\ ~card' /\ ~retry'
  BY <1>1, <1>2 DEF Truth, Honest, Idle, Awaited
<1>4. QED
  BY <1>1, <1>2, <1>3, AsksTruth DEF Truth, Newest

-----------------------------------------------------------------------------
(* Every step.                                                             *)

Inductive == SessionsTyped /\ Waiting /\ Held /\ Truth

LEMMA Undisturbed ==
    ASSUME Waiting, UNCHANGED <<counter, calls, wizardVars>>
    PROVE  Waiting'
<1>1. (Idle' <=> Idle) /\ (Early' <=> Early)
  BY DEF Idle, Awaited, Early, wizardVars
<1>2. QED
  BY <1>1 DEF Waiting, CallsTyped, WizardTyped, OneThing, Current, Abandoned, Apart, wizardVars, Awaited

LEMMA Unchanged ==
    ASSUME Inductive, UNCHANGED <<sessions, counter, saved, calls, wizardVars>>
    PROVE  Inductive'
<1>1. Waiting'
  BY Undisturbed DEF Inductive
<1>2. QED
  BY <1>1 DEF Inductive, SessionsTyped, Held, Progress, Whole, SavedIsComplete, Released,
              Forgets, Truth, Newest, Honest, Ended, Idle, wizardVars, Awaited

\* A step of the daemon that serves c short of a success.
LEMMA PlainServed ==
    ASSUME Inductive, NEW c \in calls, c.kind # "cancel", c.stage # "done",
           UNCHANGED <<sessions, counter, taken, saved, wizardVars>>,
           \/ \E stage \in {"scan", "push"} : Goes(c, stage)
           \/ \E result \in {"error", "cancelled", "failed"} : Answer(c, result)
    PROVE  Inductive' /\ \A x \in calls' : x.stage = "sent" => x \in calls
<1>1. c \in Call
  BY DEF Inductive, Waiting, CallsTyped
<1>2. PICK d : Serves(c, d) /\ (d.result = c.result \/ d.result \in {"error", "cancelled", "failed"})
  <2>1. CASE \E stage \in {"scan", "push"} : Goes(c, stage)
    BY <1>1, <2>1, GoesServes
  <2>2. CASE \E result \in {"error", "cancelled", "failed"} : Answer(c, result)
    BY <1>1, <2>2, AnswerServes DEF Results
  <2>3. QED
    BY <2>1, <2>2
<1>3. Waiting'
  BY <1>2, ServesWaiting DEF Inductive
<1>4. SessionsTyped' /\ Held'
  BY <1>2, ServesHeld DEF Inductive
<1>5. Truth'
  BY <1>2, ServesTruth DEF Inductive
<1>6. QED
  BY <1>2, <1>3, <1>4, <1>5 DEF Inductive, Serves

LEMMA PushesServed ==
    ASSUME Inductive, NEW c \in calls, PosePushes(c)
    PROVE  Inductive' /\ \A x \in calls' : x.stage = "sent" => x \in calls
<1>1. /\ c.kind = "pose" /\ c.stage = "push" /\ c \in Call
      /\ UNCHANGED <<counter, taken, saved, wizardVars>>
  BY DEF PosePushes, Daemon, Inductive, Waiting, CallsTyped
<1>2. CASE /\ sessions[c.sid] # None /\ Answer(c, "pose_complete")
           /\ \E n \in (sessions[c.sid].count..MaxTemplates) \ {0} :
                 sessions' = [sessions EXCEPT ![c.sid] = Pushed(@, c.idx, n)]
  <2>1. PICK d : Serves(c, d) /\ d.result = "pose_complete"
    BY <1>1, <1>2, AnswerServes DEF Results
  <2>2. Waiting'
    BY <1>1, <2>1, ServesWaiting DEF Inductive
  <2>3. SessionsTyped' /\ Held'
    BY <1>1, <1>2, <2>1, PushHeld DEF Inductive
  <2>4. \A s \in Ids : sessions'[s] # None => sessions[s] # None
    BY <1>2 DEF Inductive, SessionsTyped
  <2>5. Truth'
    BY <1>1, <2>1, <2>4, ServesTruth DEF Inductive
  <2>6. QED
    BY <2>1, <2>2, <2>3, <2>5 DEF Inductive, Serves
<1>3. CASE UNCHANGED sessions /\ Answer(c, "error")
  BY <1>1, <1>3, PlainServed
<1>4. QED
  BY <1>2, <1>3 DEF PosePushes

LEMMA SaveServed ==
    ASSUME Inductive, NEW c \in calls, Save(c)
    PROVE  Inductive' /\ \A x \in calls' : x.stage = "sent" => x \in calls
<1>1. /\ c.kind = "finish" /\ c.stage = "sent" /\ c \in Call
      /\ sessions' = [sessions EXCEPT ![c.sid] = None]
      /\ UNCHANGED <<counter, taken, wizardVars>>
  BY DEF Save, Daemon, Inductive, Waiting, CallsTyped
<1>2. PICK d : Serves(c, d) /\
          \/ /\ sessions[c.sid] # None /\ sessions[c.sid].count > 0 /\ d.result = "saved"
             /\ saved' = Result(c)
          \/ d.result = "error" /\ UNCHANGED saved
  <2>1. CASE /\ sessions[c.sid] # None /\ sessions[c.sid].count > 0 /\ Answer(c, "saved")
             /\ saved' = Result(c)
    BY <1>1, <2>1, AnswerServes DEF Results
  <2>2. CASE Answer(c, "error") /\ UNCHANGED saved
    BY <1>1, <2>2, AnswerServes DEF Results
  <2>3. QED
    BY <2>1, <2>2 DEF Save, Result
<1>3. Waiting'
  BY <1>1, <1>2, ServesWaiting DEF Inductive
<1>4. SessionsTyped' /\ Held'
  BY <1>1, <1>2, SaveHeld DEF Inductive
<1>5. Truth'
  <2>1. c.sid \in Ids
    BY <1>1 DEF Call
  <2>2. \A s \in Ids : sessions'[s] # None => sessions[s] # None
    BY <1>1 DEF Inductive, SessionsTyped
  <2>3. sessions[c.sid] # None => c.sid = counter
    BY <2>1 DEF Inductive, Truth, Newest
  <2>4. sessions[c.sid] # None => Result(c) # None /\ Result(c).sid = c.sid
    <3>1. sessions[c.sid] # None => Result(c) \in Face
      BY <1>1, <2>1 DEF Inductive, SessionsTyped, Session, Face, Result, Call, Places
    <3>2. QED
      BY <3>1, NoneApart DEF Result
  <2>5. QED
    BY <1>1, <1>2, <2>2, <2>3, <2>4, ServesTruth DEF Inductive
<1>6. QED
  BY <1>2, <1>3, <1>4, <1>5 DEF Inductive, Serves

LEMMA RestartEnds ==
    ASSUME Inductive, Restart
    PROVE  \A x \in calls' : x.stage # "sent"
<1> DEFINE Over(c) == [c EXCEPT !.stage = "done", !.result = IF c.stage = "done" THEN @ ELSE "error"]
<1>1. calls' = {Over(c) : c \in {x \in calls : x.kind # "cancel" /\ ~x.gone}}
  BY DEF Restart
<1>2. \A c \in calls : Over(c).stage = "done"
  BY DEF Inductive, Waiting, CallsTyped, Call
<1> HIDE DEF Over
<1>3. QED
  BY <1>1, <1>2

LEMMA TimesOutEnds ==
    ASSUME Inductive, NEW c, TimesOut(c)
    PROVE  \A x \in calls' : x.stage = "sent" /\ ~x.gone => x \in calls
<1> DEFINE g == [c EXCEPT !.gone = TRUE]
           e == [c EXCEPT !.stage = "done", !.result = "error"]
<1>1. calls' = (calls \ {c}) \cup {g, e} /\ c \in Call
  BY DEF TimesOut, Inductive, Waiting, CallsTyped
<1>2. g.gone /\ e.stage = "done"
  BY <1>1, GivenUp, Answered DEF Results
<1> HIDE DEF g, e
<1>3. QED
  BY <1>1, <1>2

\* The invariant is kept, and a closed window sends nothing.
LEMMA NextInductive ==
    ASSUME Inductive, Next
    PROVE  /\ Inductive'
           /\ closed => \A c \in calls' : c.stage = "sent" /\ ~c.gone => c \in calls
<1> USE DEF Inductive
<1>1. ASSUME NEW c \in calls, PoseBegins(c) \/ PoseScanned(c) \/ Refuse(c)
      PROVE  Inductive' /\ \A x \in calls' : x.stage = "sent" => x \in calls
  <2>1. /\ c.kind # "cancel" /\ c.stage # "done"
        /\ UNCHANGED <<sessions, counter, taken, saved, wizardVars>>
    BY <1>1 DEF PoseBegins, PoseScanned, Refuse, Daemon
  <2>2. \/ \E stage \in {"scan", "push"} : Goes(c, stage)
        \/ \E result \in {"error", "cancelled", "failed"} : Answer(c, result)
    BY <1>1 DEF PoseBegins, PoseScanned, Refuse
  <2>3. QED
    BY <2>1, <2>2, PlainServed
<1>2. ASSUME NEW c \in calls, Cancels(c)
      PROVE  Inductive' /\ calls' \subseteq calls
  BY <1>2, CancelsWaiting, CancelsHeld, CancelsTruth DEF Cancels
<1>3. ASSUME NEW c \in calls, TimesOut(c)
      PROVE  Inductive'
  BY <1>3, TimesOutWaiting, TimesOutHeld, TimesOutTruth
<1>4. ASSUME Restart
      PROVE  Inductive'
  BY <1>4, RestartWaiting, RestartHeld, EmptiedTruth
<1>5. ASSUME UNCHANGED <<sessions, counter, saved, taken, calls, wizardVars>>
      PROVE  Inductive' /\ calls' = calls
  BY <1>5, Unchanged
<1>6. ASSUME Taken
      PROVE  Inductive' /\ calls' = calls
  <2>1. /\ sessions' = [s \in Ids |-> None] /\ taken' = TRUE /\ calls' = calls
        /\ UNCHANGED <<counter, saved, wizardVars>>
    BY <1>6 DEF Taken
  <2>2. Waiting'
    BY <2>1, Undisturbed
  <2>3. QED
    BY <1>6, <2>1, <2>2, EmptiedHeld, EmptiedTruth DEF wizardVars
<1>7. ASSUME GoEnroll
      PROVE  Inductive' /\ ~closed
  <2>1. /\ StartSession(calls) /\ Early /\ page' = "enroll" /\ ~closed /\ UNCHANGED <<saved, closed>>
    BY <1>7 DEF GoEnroll, Early
  <2>2. Idle /\ session = None /\ Kept(calls) /\ ~Ended
    BY <2>1 DEF Waiting, OneThing, Kept, Early, Ended
  <2>3. QED
    BY <1>7, <2>1, <2>2, GoEnrollWaiting, StartHeld, StartTruth
<1>8. ASSUME TryAgain
      PROVE  Inductive' /\ ~closed
  <2>1. /\ StartSession(CancelSession) /\ card /\ page' = page /\ ~closed /\ UNCHANGED <<saved, closed>>
    BY <1>8 DEF TryAgain
  <2>2. /\ Idle /\ Kept(CancelSession) /\ ~Ended
        /\ session # None => \E x \in CancelSession : x.kind = "cancel" /\ x.sid = session
    BY <2>1, CancelKept DEF Waiting, OneThing, Truth, Honest
  <2>3. QED
    BY <1>8, <2>1, <2>2, TryAgainWaiting, StartHeld, StartTruth
<1>9. ASSUME RetryPose \/ CaptureNext
      PROVE  Inductive' /\ (closed => calls' = calls)
  <2>1. /\ CapturePose /\ UNCHANGED <<sessions, saved, counter, session, index, page, closed>>
        /\ retry \/ timer # None
    BY <1>9, OnboardingAssumption DEF RetryPose, CaptureNext, daemonVars
  <2>2. closed => calls' = calls
    BY <2>1 DEF Held, Forgets, CapturePose
  <2>3. QED
    BY <1>9, <2>1, <2>2, RetryPoseWaiting, CaptureNextWaiting, CaptureHeld, CaptureTruth
<1>10. ASSUME Finish
       PROVE  Inductive' /\ (closed => calls' = calls)
  BY <1>10, FinishWaiting, FinishHeld, FinishTruth DEF Held, Forgets, Finish
<1>11. ASSUME NEW c \in calls, OnPoseDone(c) \/ OnFinished(c)
       PROVE  Inductive' /\ calls' \subseteq calls
  BY <1>11, OnPoseDoneWaiting, OnPoseDoneHeld, OnPoseDoneTruth,
     OnFinishedWaiting, OnFinishedHeld, OnFinishedTruth
     DEF OnPoseDone, OnFinished
<1>12. ASSUME GoCamera \/ Done
       PROVE  Inductive' /\ calls' = calls
  BY <1>12, GoCameraWaiting, DoneWaiting, GoCameraHeld, GoCameraTruth, DoneTruth DEF GoCamera, Done
<1>13. ASSUME CloseWindow
       PROVE  Inductive' /\ ~closed
  BY <1>13, CloseWaiting, CloseHeld, CloseTruth DEF CloseWindow
<1>14. ASSUME NEW c \in calls, Delivers(c)
       PROVE  UNCHANGED <<sessions, counter, saved, taken, calls, wizardVars>>
  BY <1>14 DEF Delivers, daemonVars
<1>15. ASSUME Unread \/ Reads
       PROVE  UNCHANGED <<sessions, counter, saved, taken, calls, wizardVars>>
  BY <1>15 DEF Unread, Reads, Daemon, daemonVars
<1>16. QED
  BY <1>1, <1>2, <1>3, <1>4, <1>5, <1>6, <1>7, <1>8, <1>9, <1>10, <1>11, <1>12, <1>13, <1>14, <1>15,
     PushesServed, SaveServed, RestartEnds, TimesOutEnds DEF Next, Replies

LEMMA NextFlags ==
    ASSUME Flags, Next
    PROVE  Flags'
<1>1. ASSUME UNCHANGED <<taken, wizardVars>>
      PROVE  Flags'
  BY <1>1 DEF Flags, wizardVars
<1>2. ASSUME NEW c \in calls,
             \/ PoseBegins(c) \/ PoseScanned(c) \/ PosePushes(c) \/ Refuse(c) \/ Save(c)
             \/ Cancels(c) \/ TimesOut(c) \/ Delivers(c)
      PROVE  UNCHANGED <<taken, wizardVars>>
  BY <1>2 DEF PoseBegins, PoseScanned, PosePushes, Refuse, Save, Cancels, TimesOut, Delivers,
              Daemon, daemonVars
<1>3. ASSUME Restart \/ Unread \/ Reads
      PROVE  UNCHANGED <<taken, wizardVars>>
  BY <1>3 DEF Restart, Unread, Reads, Daemon, daemonVars
<1>4. ASSUME Taken
      PROVE  Flags'
  BY <1>4 DEF Taken, Flags, wizardVars
<1>5. ASSUME GoCamera \/ Done
      PROVE  Flags'
  BY <1>5 DEF GoCamera, Done, daemonVars, Flags
<1>6. ASSUME NEW old, StartSession(old), UNCHANGED <<ready, closed>>
      PROVE  Flags'
  BY <1>6 DEF StartSession, Fail, Capturing, Flags
<1>7. ASSUME GoEnroll \/ TryAgain
      PROVE  Flags'
  BY <1>6, <1>7 DEF GoEnroll, TryAgain
<1>8. ASSUME CapturePose, UNCHANGED <<taken, ready, closed>>
      PROVE  Flags'
  BY <1>8 DEF CapturePose, Fail, Capturing, Flags
<1>9. ASSUME RetryPose \/ CaptureNext
      PROVE  Flags'
  BY <1>8, <1>9 DEF RetryPose, CaptureNext, daemonVars
<1>10. ASSUME NEW c \in calls, OnPoseDone(c)
       PROVE  Flags'
  BY <1>10 DEF OnPoseDone, Fail, RetryShown, Flags, daemonVars
<1>11. ASSUME NEW c \in calls, OnFinished(c)
       PROVE  Flags'
  BY <1>11 DEF OnFinished, Fail, Flags, daemonVars
<1>12. ASSUME Finish
       PROVE  Flags'
  BY <1>12 DEF Finish, Fail, Flags, daemonVars
<1>13. ASSUME CloseWindow
       PROVE  Flags'
  BY <1>13 DEF CloseWindow, Flags, daemonVars
<1>14. QED
  BY <1>1, <1>2, <1>3, <1>4, <1>5, <1>7, <1>9, <1>10, <1>11, <1>12, <1>13 DEF Next, Replies

-----------------------------------------------------------------------------
(* The theorems.                                                           *)

LEMMA Starts == Init => IInv
<1> SUFFICES ASSUME Init PROVE IInv
  OBVIOUS
<1>1. SessionsTyped
  BY OnboardingAssumption DEF Init, SessionsTyped, Ids
<1>2. Flags
  BY DEF Init, Flags
<1>3. Waiting
  BY OnboardingAssumption
     DEF Init, Waiting, CallsTyped, WizardTyped, OneThing, Idle, Early, Current, Abandoned, Apart
<1>4. Held
  BY DEF Init, Held, Progress, Whole, SavedIsComplete, Released, Forgets
<1>5. Newest /\ Honest
  BY DEF Init, Newest, Honest, Ended
<1>6. QED
  BY <1>1, <1>2, <1>3, <1>4, <1>5 DEF IInv

LEMMA Keeps == IInv /\ [Next]_vars => IInv'
<1> SUFFICES ASSUME IInv, [Next]_vars PROVE IInv'
  OBVIOUS
<1>1. CASE Next
  BY <1>1, NextInductive, NextFlags DEF IInv, Inductive, Truth
<1>2. CASE UNCHANGED vars
  <2>1. UNCHANGED <<sessions, counter, saved, taken, calls, wizardVars>>
    BY <1>2 DEF vars, daemonVars
  <2>2. Inductive'
    BY <2>1, Unchanged DEF IInv, Inductive, Truth
  <2>3. Flags'
    BY <2>1 DEF IInv, Flags, wizardVars
  <2>4. QED
    BY <2>2, <2>3 DEF IInv, Inductive, Truth
<1>3. QED
  BY <1>1, <1>2

\* The inductive invariant of the wizard: it waits for one thing at a time, of
\* the session and the pose it shows, and never goes on with a session it gave
\* a call up of.
THEOREM Invariance == Spec => []IInv
<1>1. QED
  BY Starts, Keeps, PTL DEF Spec

\* The types of the wizard's and the daemon's state.
THEOREM TypeCorrect == Spec => []TypeOK
<1>1. IInv => TypeOK
  <2> SUFFICES ASSUME IInv PROVE TypeOK
    OBVIOUS
  <2>1. \A s \in Ids : sessions[s] # None =>
            /\ s <= counter /\ sessions[s].covered \subseteq 0..Poses-1
            /\ sessions[s].count \in 0..MaxTemplates
    BY DEF IInv, SessionsTyped, Session
  <2>2. \A c \in calls : c.kind \in {"pose", "finish", "cancel"} /\ c.sid \in 1..counter
    BY DEF IInv, SessionsTyped, Waiting, CallsTyped, Call, Ids
  <2>3. {ready, running, success, complete, card, retry, closed, taken} \subseteq BOOLEAN
    BY Zenon DEF IInv, Flags
  <2>4. QED
    BY <2>1, <2>2, <2>3 DEF IInv, Waiting, WizardTyped, TypeOK
<1>2. QED
  BY <1>1, Invariance, PTL

\* A face is saved with something of every position the wizard asked for (_finish
\* sends what it counted, finish_enrollment saves what there is), unless the
\* session was full (MAX_TEMPLATES) before the last one.
THEOREM Complete == Spec => []SavedIsComplete
<1>1. IInv => SavedIsComplete
  BY DEF IInv, Held
<1>2. QED
  BY <1>1, Invariance, PTL

\* "Enrolled" (_on_finished) is shown only when the last session opened was saved.
THEOREM EndIsHonest == Spec => []HonestEnd
<1>1. IInv => HonestEnd
  BY DEF IInv, Honest, Ended, HonestEnd
<1>2. QED
  BY <1>1, Invariance, PTL

\* A window that is closed (_on_close) leaves no session open in the daemon.
THEOREM CloseReleases == Spec => []ClosedReleases
<1>1. IInv => ClosedReleases
  <2> SUFFICES ASSUME IInv, closed, \A c \in calls : c.kind # "cancel",
                      NEW s \in Ids, sessions[s] # None
               PROVE  sessions[s].cancelled \/ sessions[s].lost
    BY DEF ClosedReleases
  <2>1. s # session
    BY OnboardingAssumption DEF IInv, Held, Forgets, Ids
  <2>2. QED
    BY <2>1 DEF IInv, Held, Released
<1>2. QED
  BY <1>1, Invariance, PTL

\* A window that is closed sends nothing more, whatever comes back to it.
THEOREM Silent == Spec => NothingAfterClose
<1>1. IInv /\ [Next]_vars => [closed => \A c \in calls' : c.stage = "sent" /\ ~c.gone => c \in calls]_vars
  BY NextInductive DEF IInv, Inductive, Truth
<1>2. QED
  BY <1>1, Invariance, PTL DEF Spec, NothingAfterClose

-----------------------------------------------------------------------------
(* The preview pipe.                                                       *)

\* What the wizard and the daemon do to the pipe.
PipeStep ==
    \/ UNCHANGED pipeVars
    \/ Read
    \/ reader # None /\ \E f \in Frames : Write(f)
    \/ pipe' = ClosedEnd(pipe) /\ UNCHANGED <<reader, frames>>
    \/ DropReader /\ UNCHANGED frames
    \/ pipe' = NewPipe /\ reader' \in {NewReader, None} /\ UNCHANGED frames

LEMMA PipeSteps == [Next]_vars => PipeStep
<1> SUFFICES ASSUME [Next]_vars PROVE PipeStep
  OBVIOUS
<1>1. CASE UNCHANGED vars
  BY <1>1, Zenon DEF vars, PipeStep
<1>2. ASSUME NEW c \in calls,
             PoseBegins(c) \/ PoseScanned(c) \/ PosePushes(c) \/ Refuse(c) \/ TimesOut(c)
      PROVE  PipeStep
  BY <1>2, Zenon DEF PoseBegins, PoseScanned, PosePushes, Refuse, TimesOut, Daemon, pipeVars, PipeStep
<1>3. ASSUME NEW c \in calls, Save(c) \/ Cancels(c) PROVE PipeStep
  BY <1>3, Zenon DEF Save, Cancels, CloseEnd, Daemon, pipeVars, PipeStep
<1>4. ASSUME NEW c \in calls, Delivers(c) PROVE PipeStep
  BY <1>4, Zenon DEF Delivers, PipeStep
<1>5. CASE Restart \/ Taken \/ Unread
  BY <1>5, Zenon DEF Restart, Taken, Unread, Daemon, PipeStep
<1>6. CASE GoCamera \/ Done
  BY <1>6, Zenon DEF GoCamera, Done, pipeVars, PipeStep
<1>7. CASE GoEnroll \/ TryAgain
  BY <1>7, Zenon DEF GoEnroll, TryAgain, StartSession, Fail, PipeStep
<1>8. CASE RetryPose \/ CaptureNext
  BY <1>8, Zenon DEF RetryPose, CaptureNext, CapturePose, Fail, pipeVars, PipeStep
<1>9. CASE Replies
  BY <1>9, Zenon DEF Replies, OnPoseDone, OnFinished, Fail, pipeVars, PipeStep
<1>10. CASE Finish \/ CloseWindow
  BY <1>10, Zenon DEF Finish, CloseWindow, Fail, pipeVars, PipeStep
<1>11. CASE Reads
  BY <1>11, Zenon DEF Reads, PipeStep
<1>12. QED
  BY <1>1, <1>2, <1>3, <1>4, <1>5, <1>6, <1>7, <1>8, <1>9, <1>10, <1>11, Zenon DEF Next

LEMMA PipeKept == PipeInv /\ PipeStep => PipeInv'
<1> SUFFICES ASSUME PipeInv, PipeStep PROVE PipeInv'
  OBVIOUS
<1>1. CASE UNCHANGED pipeVars
  BY <1>1, Zenon DEF pipeVars, PipeInv
<1>2. CASE Read
  BY <1>2, PipeRead, Zenon
<1>3. CASE reader # None /\ \E f \in Frames : Write(f)
  BY <1>3, PipeWrites, Zenon
<1>4. CASE pipe' = ClosedEnd(pipe) /\ UNCHANGED <<reader, frames>>
  BY <1>4, PipeEnded, Zenon DEF PipeInv
<1>5. CASE DropReader /\ UNCHANGED frames
  BY <1>5, PipeDropped, Zenon DEF PipeInv, DropReader
<1>6. CASE pipe' = NewPipe /\ reader' \in {NewReader, None} /\ UNCHANGED frames
  <2>1. PipeOK(NewPipe, NewReader) /\ PipeOK(NewPipe, None)
    BY PipeFresh, Zenon DEF PipeOK
  <2>2. QED
    BY <1>6, <2>1, Zenon DEF PipeInv
<1>7. QED
  BY <1>1, <1>2, <1>3, <1>4, <1>5, <1>6, Zenon DEF PipeStep

\* However the bytes are cut up on the way (_on_read) and wherever the daemon
\* stops writing (push_preview, push_guidance), the reader shows the frames that
\* were written: whole, in order, none twice.
THEOREM FramesArrive == Spec => []FramesWhole
<1>1. Init => PipeInv
  BY PipeStarts, Zenon DEF Init
<1>2. PipeInv /\ [Next]_vars => PipeInv'
  BY PipeSteps, PipeKept, Zenon
<1>3. QED
  BY <1>1, <1>2, PipeWhole, PTL DEF Spec
=============================================================================
