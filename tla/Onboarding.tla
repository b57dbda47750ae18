----------------------------- MODULE Onboarding -----------------------------
(***************************************************************************)
(* The enrollment wizard of the app (app/faceid_app/onboarding.py), its     *)
(* client of Enrollment1 (class Enrollment of dbus_client.py), and what    *)
(* the daemon does with one user's sessions (enroll.rs; in detail, with     *)
(* the templates and several users, in Enrollment).                        *)
(*                                                                         *)
(* The wizard lives on GTK's main loop: a handler is one action.  Calls of *)
(* the daemon are asynchronous, but for StartEnrollment, and are tasks that *)
(* run side by side there.  Timers between the poses are never removed.    *)
(***************************************************************************)
EXTENDS PreviewPipe, FiniteSets

CONSTANTS
    Poses,         \* how many positions the daemon asks for
    MaxTemplates,  \* MAX_TEMPLATES: what a session holds
    MaxSessions,   \* bound on the sessions opened
    MaxOutages     \* bound on restarts, refusals to start and other clients

ASSUME OnboardingAssumption ==
    /\ {Poses, MaxTemplates} \subseteq Nat \ {0} /\ {MaxSessions, MaxOutages} \subseteq Nat
    /\ None \notin Nat \cup {"next", "finish", "pose_complete", "saved"}
    /\ None \notin [covered : SUBSET Nat, count : Nat, cancelled : BOOLEAN, lost : BOOLEAN]
    /\ None \notin [sid : Nat, covered : SUBSET Nat, count : Nat, want : Nat]

VARIABLES
    \* the daemon
    sessions, counter, saved, calls, outages, taken,
    \* the wizard
    page, ready, session, poses, index, running, success, complete,
    card, retry, timer, closed

daemonVars == <<sessions, counter, saved, outages, taken>>
wizardVars == <<page, ready, session, poses, index, running, success, complete,
                card, retry, timer, closed>>
vars == <<pipeVars, daemonVars, calls, wizardVars>>

Ids == 1..MaxSessions

Init ==
    /\ InitPipe
    /\ sessions = [s \in Ids |-> None] /\ counter = 0
    /\ saved = None /\ calls = {} /\ outages = 0 /\ taken = FALSE
    /\ page = "welcome" /\ ready = FALSE /\ session = None
    /\ poses = 0 /\ index = 0
    /\ running = FALSE /\ success = FALSE /\ complete = FALSE
    /\ card = FALSE /\ retry = FALSE /\ timer = None /\ closed = FALSE

-----------------------------------------------------------------------------
(* The daemon.                                                             *)

Live(s) == sessions[s] # None /\ ~sessions[s].cancelled

Goes(c, stage) == calls' = (calls \ {c}) \cup {[c EXCEPT !.stage = stage]}

\* The reply, if the wizard still waits for it.
Answer(c, result) ==
    calls' = (calls \ {c}) \cup
        (IF c.gone THEN {} ELSE {[c EXCEPT !.stage = "done", !.result = result]})

CloseEnd(s) == pipe' = IF s = counter THEN ClosedEnd(pipe) ELSE pipe

Daemon == UNCHANGED <<counter, outages, taken, reader, frames, wizardVars>>

\* enroll_pose, up to the scan: whose session it is, and cancelled or not.
PoseBegins(c) ==
    /\ c \in calls /\ c.kind = "pose" /\ c.stage = "sent"
    /\ IF Live(c.sid) THEN Goes(c, "scan") ELSE Answer(c, "error")
    /\ UNCHANGED <<sessions, saved, pipe>> /\ Daemon

\* deliver_preview_map, deliver_guidance_map, while the camera is open.
Delivers(c) ==
    /\ c \in calls /\ c.kind = "pose" /\ c.stage = "scan"
    /\ Live(c.sid) /\ c.sid = counter /\ reader # None
    /\ \E f \in Frames : Write(f)
    /\ UNCHANGED <<daemonVars, calls, wizardVars>>

\* The scan is over, and so may be the session.
PoseScanned(c) ==
    /\ c \in calls /\ c.kind = "pose" /\ c.stage = "scan"
    /\ IF ~Live(c.sid) THEN Answer(c, "cancelled")
       ELSE Answer(c, "failed") \/ Goes(c, "push")
    /\ UNCHANGED <<sessions, saved, pipe>> /\ Daemon

\* push_tagged of what was found at position i, after which s holds n
\* templates: near-duplicates are left out, the position is covered by what they
\* are near to; once the session is full nothing of it goes in.
Pushed(s, i, n) ==
    [s EXCEPT !.count = n,
              !.covered = IF s.count < MaxTemplates THEN @ \cup {i} ELSE @]

\* What was found (a scan that found nothing has failed) goes into the session,
\* if there is one and another model did not find it. The pose is complete
\* whether or not any of it was kept.
PosePushes(c) ==
    /\ c \in calls /\ c.kind = "pose" /\ c.stage = "push"
    /\ \/ /\ sessions[c.sid] # None
          /\ \E n \in (sessions[c.sid].count..MaxTemplates) \ {0} :
                sessions' = [sessions EXCEPT ![c.sid] = Pushed(@, c.idx, n)]
          /\ Answer(c, "pose_complete")
       \/ Answer(c, "error") /\ UNCHANGED sessions
    /\ UNCHANGED <<saved, pipe>> /\ Daemon

\* finish_enrollment: nothing happens to the session before the user is
\* authorised; then it is gone, and what it held is saved, or that fails.
Refuse(c) ==
    /\ c \in calls /\ c.kind = "finish" /\ c.stage = "sent"
    /\ Answer(c, "error")
    /\ UNCHANGED <<sessions, saved, pipe>> /\ Daemon

Save(c) ==
    /\ c \in calls /\ c.kind = "finish" /\ c.stage = "sent"
    /\ sessions' = [sessions EXCEPT ![c.sid] = None]
    /\ CloseEnd(c.sid)
    /\ \/ /\ sessions[c.sid] # None /\ sessions[c.sid].count > 0
          /\ saved' = [sid |-> c.sid, covered |-> sessions[c.sid].covered,
                       count |-> sessions[c.sid].count, want |-> c.idx]
          /\ Answer(c, "saved")
       \/ Answer(c, "error") /\ UNCHANGED saved
    /\ Daemon

\* cancel_enrollment
Cancels(c) ==
    /\ c \in calls /\ c.kind = "cancel"
    /\ calls' = calls \ {c}
    /\ IF sessions[c.sid] = None THEN UNCHANGED <<sessions, pipe>>
       ELSE /\ sessions' = [sessions EXCEPT ![c.sid] =
                               [@ EXCEPT !.cancelled = TRUE, !.covered = {}, !.count = 0]]
            /\ CloseEnd(c.sid)
    /\ UNCHANGED saved /\ Daemon

\* A restart: no session survives, and whoever waits has an error.
Restart ==
    /\ outages < MaxOutages /\ outages' = outages + 1
    /\ sessions' = [s \in Ids |-> None] /\ pipe' = ClosedEnd(pipe)
    /\ calls' = {[c EXCEPT !.stage = "done", !.result = IF c.stage = "done" THEN @ ELSE "error"]
                 : c \in {x \in calls : x.kind # "cancel" /\ ~x.gone}}
    /\ UNCHANGED <<counter, saved, taken, reader, frames, wizardVars>>

\* Another client of this user starts an enrollment: the others are removed.
Taken ==
    /\ outages < MaxOutages /\ outages' = outages + 1 /\ taken' = TRUE
    /\ \E s \in Ids : sessions[s] # None
    /\ sessions' = [s \in Ids |-> None] /\ pipe' = ClosedEnd(pipe)
    /\ UNCHANGED <<counter, saved, calls, reader, frames, wizardVars>>

\* A write into a pipe that nobody reads fails.
Unread ==
    /\ reader # None => ~reader.open
    /\ pipe.open /\ pipe' = ClosedEnd(pipe)
    /\ UNCHANGED <<sessions, saved, calls>> /\ Daemon

-----------------------------------------------------------------------------
(* The client: its calls, and the time it waits for them.                  *)

Send(old, kind, sid, idx) ==
    old \cup {[kind |-> kind, sid |-> sid, idx |-> idx, stage |-> "sent",
               result |-> None, gone |-> FALSE]}

\* Enrollment.cancel
CancelSession == IF session = None THEN calls ELSE Send(calls, "cancel", session, 0)

\* 60 s for a pose, 30 s for the end, in which the user types a password: the
\* wizard has its error, the daemon goes on.
TimesOut(c) ==
    /\ c \in calls /\ c.kind # "cancel" /\ c.stage # "done" /\ ~c.gone
    /\ calls' = (calls \ {c}) \cup
          {[c EXCEPT !.gone = TRUE], [c EXCEPT !.stage = "done", !.result = "error"]}
    /\ UNCHANGED <<pipeVars, daemonVars, wizardVars>>

-----------------------------------------------------------------------------
(* The wizard.                                                             *)

\* _fail
Fail ==
    /\ card' = TRUE /\ retry' = FALSE /\ running' = FALSE
    /\ DropReader

\* The request of a pose, unless another runs.
Capturing(old, sid, i) ==
    IF running THEN calls' = old /\ UNCHANGED <<running, retry>>
    ELSE calls' = Send(old, "pose", sid, i) /\ running' = TRUE /\ retry' = FALSE

\* _capture_pose; without a session the client answers with an error.
CapturePose ==
    IF running THEN UNCHANGED <<calls, running, retry, success, complete, card, reader, pipe>>
    ELSE /\ success' = FALSE /\ complete' = FALSE
         /\ IF session = None THEN Fail /\ UNCHANGED calls
            ELSE Capturing(calls, session, index) /\ UNCHANGED <<card, reader, pipe>>

BadFirstIndex == index

\* A new session begins with the first pose.
FirstIndex == 0

\* start_enrollment: the one session, if there is room for it in the model.
Opens(lost) ==
    /\ counter < MaxSessions /\ counter' = counter + 1
    /\ sessions' = [s \in Ids |-> IF s # counter' THEN None ELSE
                       [covered |-> {}, count |-> 0, cancelled |-> FALSE, lost |-> lost]]

\* _start_enroll_session, after what was sent before it.
StartSession(old) ==
    /\ success' = FALSE /\ complete' = FALSE
    /\ \/ \* refused, or opened too late for the 20 s the client waits
          /\ outages < MaxOutages /\ outages' = outages + 1
          /\ UNCHANGED <<sessions, counter>> \/ Opens(TRUE)
          /\ session' = None /\ calls' = old /\ Fail
          /\ UNCHANGED <<index, taken>>
       \/ \* opened, but the reply came without a descriptor
          /\ outages < MaxOutages /\ outages' = outages + 1
          /\ Opens(FALSE)
          /\ session' = counter' /\ calls' = old
          /\ card' = TRUE /\ retry' = FALSE /\ running' = FALSE
          /\ pipe' = NewPipe /\ reader' = None
          /\ taken' = FALSE /\ UNCHANGED index
       \/ \* opened, and the first pose is asked for
          /\ Opens(FALSE)
          /\ session' = counter' /\ index' = FirstIndex
          /\ card' = FALSE /\ Capturing(old, counter', FirstIndex)
          /\ pipe' = NewPipe /\ reader' = NewReader
          /\ taken' = FALSE /\ UNCHANGED outages

\* "Continue" and "Check again": is there a daemon, and a worker?
GoCamera ==
    /\ ~closed /\ page \in {"welcome", "camera"}
    /\ page' = "camera" /\ ready' \in BOOLEAN
    /\ UNCHANGED <<pipeVars, daemonVars, calls, session, poses, index, running, success,
                   complete, card, retry, timer, closed>>

\* _go_enroll: without the list of poses there is one.
GoEnroll ==
    /\ ~closed /\ page = "camera" /\ ready
    /\ page' = "enroll" /\ poses' \in {Poses, 1}
    /\ StartSession(calls)
    /\ UNCHANGED <<saved, frames, ready, timer, closed>>

\* _retry_enrollment, from the error card.
TryAgain ==
    /\ ~closed /\ card
    /\ StartSession(CancelSession)
    /\ UNCHANGED <<saved, frames, page, ready, poses, timer, closed>>

\* "Retry this pose"
RetryPose ==
    /\ ~closed /\ retry
    /\ CapturePose
    /\ UNCHANGED <<daemonVars, frames, page, ready, session, poses, index, timer, closed>>

BadRetryShown(result) == FALSE

\* The button for another attempt at this pose.
RetryShown(result) == result = "failed"

BadNextTimer == "next"

NextTimer == IF index + 1 >= poses THEN "finish" ELSE "next"

\* _on_pose_done
OnPoseDone(c) ==
    /\ c \in calls /\ c.kind = "pose" /\ c.stage = "done"
    /\ calls' = calls \ {c}
    /\ \/ c.result = "error" /\ Fail /\ UNCHANGED <<index, timer, success, complete>>
       \/ /\ c.result \in {"cancelled", "failed"} /\ running' = FALSE
          /\ retry' = (retry \/ RetryShown(c.result))
          /\ UNCHANGED <<index, success, complete, card, timer, reader, pipe>>
       \/ /\ c.result = "pose_complete" /\ running' = FALSE
          /\ success' = TRUE /\ index' = index + 1 /\ timer' = NextTimer
          /\ UNCHANGED <<complete, card, retry, reader, pipe>>
    /\ UNCHANGED <<daemonVars, frames, page, ready, session, poses, closed>>

\* _capture_next, 450 ms after a pose.
CaptureNext ==
    /\ timer = "next" /\ timer' = None
    /\ CapturePose
    /\ UNCHANGED <<daemonVars, frames, page, ready, session, poses, index, closed>>

\* _finish, 520 ms after the last one.
Finish ==
    /\ timer = "finish" /\ timer' = None
    /\ complete' = TRUE /\ success' = FALSE
    /\ IF session = None
       THEN Fail /\ UNCHANGED calls
       ELSE calls' = Send(calls, "finish", session, poses)
            /\ UNCHANGED <<card, retry, running, reader, pipe>>
    /\ UNCHANGED <<daemonVars, frames, page, ready, session, poses, index, closed>>

BadOnFinished(c) ==
    /\ c \in calls /\ c.kind = "finish" /\ c.stage = "done"
    /\ calls' = calls \ {c}
    /\ page' = "test" /\ DropReader /\ UNCHANGED <<card, retry, running, success, complete>>
    /\ UNCHANGED <<daemonVars, frames, ready, session, poses, index, timer, closed>>

\* _on_finished
OnFinished(c) ==
    /\ c \in calls /\ c.kind = "finish" /\ c.stage = "done"
    /\ calls' = calls \ {c}
    /\ IF c.result = "saved"
       THEN page' = "test" /\ DropReader /\ UNCHANGED <<card, retry, running>>
       ELSE Fail /\ UNCHANGED page
    /\ UNCHANGED <<daemonVars, frames, ready, session, poses, index, success, complete,
                   timer, closed>>

Done ==
    /\ ~closed /\ page = "test" /\ page' = "done"
    /\ UNCHANGED <<pipeVars, daemonVars, calls, ready, session, poses, index, running, success,
                   complete, card, retry, timer, closed>>

BadCloseWindow ==
    /\ ~closed /\ closed' = TRUE
    /\ DropReader /\ UNCHANGED <<calls, session>>
    /\ UNCHANGED <<daemonVars, frames, page, ready, poses, index, running, success,
                   complete, card, retry, timer>>

\* The session is cancelled but not forgotten.
BadForget ==
    /\ ~closed /\ closed' = TRUE
    /\ DropReader /\ calls' = CancelSession /\ UNCHANGED session
    /\ UNCHANGED <<daemonVars, frames, page, ready, poses, index, running, success,
                   complete, card, retry, timer>>

\* _cancel_enrollment, _on_close: on any page.  Callbacks and timers still come.
CloseWindow ==
    /\ ~closed /\ closed' = TRUE
    /\ DropReader /\ calls' = CancelSession /\ session' = None
    /\ UNCHANGED <<daemonVars, frames, page, ready, poses, index, running, success,
                   complete, card, retry, timer>>

Reads == Read /\ UNCHANGED <<daemonVars, calls, wizardVars>>

Replies == \E c \in calls : OnPoseDone(c) \/ OnFinished(c)

Next ==
    \/ \E c \in calls : \/ PoseBegins(c) \/ Delivers(c) \/ PoseScanned(c) \/ PosePushes(c)
                        \/ Refuse(c) \/ Save(c) \/ Cancels(c) \/ TimesOut(c)
    \/ Restart \/ Taken \/ Unread
    \/ GoCamera \/ GoEnroll \/ TryAgain \/ RetryPose
    \/ Replies \/ CaptureNext \/ Finish \/ Done \/ CloseWindow
    \/ Reads

Spec == Init /\ [][Next]_vars

\* The main loop dispatches replies and timers, and a call times out.
FairSpec ==
    /\ Spec /\ WF_vars(Replies) /\ WF_vars(CaptureNext) /\ WF_vars(Finish)
    /\ WF_vars(\E c \in calls : TimesOut(c))

-----------------------------------------------------------------------------
TypeOK ==
    /\ \A s \in Ids : sessions[s] # None =>
          s <= counter /\ sessions[s].covered \subseteq 0..Poses-1 /\ sessions[s].count \in 0..MaxTemplates
    /\ page \in {"welcome", "camera", "enroll", "test", "done"}
    /\ session \in 1..counter \cup {None}
    /\ index \in 0..poses /\ timer \in {None, "next", "finish"}
    /\ {ready, running, success, complete, card, retry, closed, taken} \subseteq BOOLEAN
    /\ \A c \in calls : c.kind \in {"pose", "finish", "cancel"} /\ c.sid \in 1..counter

\* Whatever failed, timed out, was retried or started over on the way: a face is
\* saved with something of every position the wizard asked for in this session,
\* unless the session was full (MAX_TEMPLATES), when push_tagged drops the
\* positions that come later and enroll_pose reports them complete all the same.
SavedIsComplete ==
    saved # None => 0..saved.want-1 \subseteq saved.covered \/ saved.count = MaxTemplates

\* Closing the window must "not leave a session open in the daemon": once the
\* cancellation has been served, every session the wizard was told of is
\* cancelled or gone.
ClosedReleases ==
    closed /\ (\A c \in calls : c.kind # "cancel") =>
        \A s \in Ids : sessions[s] # None => sessions[s].cancelled \/ sessions[s].lost

\* "Enrolled" is shown when the session that was opened last was saved, and
\* never for one that an earlier attempt of this window saved.
HonestEnd == page \in {"test", "done"} => saved # None /\ saved.sid = counter

\* A window that is closed sends nothing more, though the timer between two
\* poses and the reply to a capture still come.
NothingAfterClose ==
    [][closed => \A c \in calls' : c.stage = "sent" /\ ~c.gone => c \in calls]_vars

\* The wizard never leaves the user in front of a scan that does not go on: it
\* ends, or shows what to press; unless another client took the session away,
\* in which case the answer "cancelled" is ignored.
NeverStuck ==
    page = "enroll" ~> (card \/ retry \/ page = "test" \/ closed \/ taken)
=============================================================================
