----------------------------- MODULE Enrollment -----------------------------
(***************************************************************************)
(* Enrollment1 of daemon/src/enroll.rs: sessions that collect face         *)
(* templates over several poses. zbus runs every method call as a task of  *)
(* its own, so calls of one user and of several users interleave; one      *)
(* action is what a call does while it holds the lock of the sessions map, *)
(* or one scan by the worker. A restart of the daemon loses all of it but   *)
(* what was saved, and is left out: it leads to Init with saved kept.      *)
(***************************************************************************)
EXTENDS Naturals, FiniteSets, FiniteSetsExt

CONSTANTS
    Uids,
    Starts,        \* concurrent start_enrollment calls
    Poses,         \* concurrent enroll_pose calls
    Faces,         \* embeddings, up to near-duplicates (DUP_SIMILARITY)
    Models,        \* recognition models the worker may be running
    Cameras,       \* cfg.mode and whether cfg.ir_camera is set: see ASSUME
    Reports,       \* TRUE: the worker names the sensor it used; FALSE: it does not
    MaxTemplates,  \* MAX_TEMPLATES
    OtherCap,      \* templates of the other spectrum that spare a second scan
    MaxSessions,   \* bound on the sessions ever opened
    None

ASSUME EnrollAssumption ==
    /\ Cameras \subseteq [mode : {"rgb", "ir", "both", "hybrid", "auto"}, ir : BOOLEAN]
    /\ Reports \subseteq BOOLEAN
    /\ {MaxTemplates, OtherCap, MaxSessions} \subseteq Nat \ {0}
    /\ None \notin Uids \cup Faces \cup Models \cup Cameras

VARIABLES
    sessions,  \* the map: per id, a session or None
    counter,   \* last session id handed out
    starts,    \* per start call, the uid that waits to insert its session
    poses,     \* per enroll_pose call, where it is and its locals
    saved      \* per uid, the templates of the identity last saved

vars == <<sessions, counter, starts, poses, saved>>

Ids == 1..MaxSessions

Spectra == {"rgb", "ir"}

\* What a scan returns. report is what ev_done.spectrum says: "" if nothing;
\* model is None when the worker does not name one, which serde reads as "".
Scans == [face : Faces, model : Models \cup {None}, report : Spectra \cup {""}]

\* A template: what is kept of an embedding, under which model its scan was,
\* and by whom it was collected.
Template == [face : Faces, tag : Spectra, model : Models \cup {None}, by : Uids]

Session == [uid : Uids, preview : BOOLEAN, templates : SUBSET Template,
            model : Models \cup {None}, cancelled : BOOLEAN]

\* An enroll_pose call: where it is, its arguments, the configuration it
\* cloned and the evidence of its two scans.
Call == [pc : {"idle", "scan", "other", "scan2", "push"},
         uid : Uids \cup {None}, sid : 0..MaxSessions, cfg : Cameras \cup {None},
         first : Scans \cup {None}, second : Scans \cup {None}]

Resting == [pc |-> "idle", uid |-> None, sid |-> 0, cfg |-> None,
            first |-> None, second |-> None]

Init ==
    /\ sessions = [s \in Ids |-> None]
    /\ counter = 0
    /\ starts = [k \in Starts |-> None]
    /\ poses = [p \in Poses |-> Resting]
    /\ saved = [u \in Uids |-> {}]

-----------------------------------------------------------------------------
(* Helpers.                                                                *)

\* enroll_tag: the reported spectrum wins, else the requested mode decides.
EnrollTag(report, mode) ==
    IF report \in Spectra THEN report ELSE IF mode = "ir" THEN "ir" ELSE "rgb"

Other(tag) == IF tag = "ir" THEN "rgb" ELSE "ir"

\* Faulty variants, named Bad..., turn the definition that follows them into
\* what a plausible bug would make of it; they serve to test the properties.

BadOwned(s, u) == s \in Ids /\ sessions[s] # None

\* with_session lets the closure run.
Owned(s, u) == s \in Ids /\ sessions[s] # None /\ sessions[s].uid = u

\* push_tagged: a template like one already there, in the same spectrum, is
\* dropped, and so is what exceeds the maximum. The results, as a set of one
\* or, when only some fit, of every choice.
Pushed(old, new) ==
    LET fresh == {t \in new : \A o \in old : o.face # t.face \/ o.tag # t.tag}
        room  == MaxTemplates - Cardinality(old)
    IN  IF Cardinality(fresh) <= room THEN {old \cup fresh}
        ELSE {old \cup some : some \in kSubset(room, fresh)}

\* What a scan in some mode may return. The worker reports the spectrum its
\* mode resolved to, and only "auto" leaves the choice to the room light.
ScanIn(mode) ==
    {r \in Scans :
        /\ (r.report # "") \in Reports
        /\ r.report # "" => mode = "auto" \/ (r.report = "ir") = (mode = "ir")}

SetSession(s, new) == sessions' = [sessions EXCEPT ![s] = new]

Done(p) == poses' = [poses EXCEPT ![p] = Resting]

-----------------------------------------------------------------------------
(* start_enrollment: two sections under the lock, with the pipe made and    *)
(* the session id drawn in between.                                        *)

\* Any session of the caller is removed.
StartClears(k, u) ==
    /\ starts[k] = None
    /\ starts' = [starts EXCEPT ![k] = u]
    /\ sessions' = [s \in Ids |-> IF Owned(s, u) THEN None ELSE sessions[s]]
    /\ UNCHANGED <<counter, poses, saved>>

\* Ids that repeat.
BadStartInserts(k) ==
    /\ starts[k] # None
    /\ counter' = 1
    /\ SetSession(1, [uid |-> starts[k], preview |-> TRUE, templates |-> {},
                      model |-> None, cancelled |-> FALSE])
    /\ starts' = [starts EXCEPT ![k] = None]
    /\ UNCHANGED <<poses, saved>>

\* The counter is read but not advanced.
BadCounter(k) ==
    /\ starts[k] # None
    /\ counter < MaxSessions
    /\ SetSession(counter + 1, [uid |-> starts[k], preview |-> TRUE, templates |-> {},
                                model |-> None, cancelled |-> FALSE])
    /\ starts' = [starts EXCEPT ![k] = None]
    /\ UNCHANGED <<counter, poses, saved>>

StartInserts(k) ==
    /\ starts[k] # None
    /\ counter < MaxSessions
    /\ counter' = counter + 1
    /\ SetSession(counter + 1, [uid |-> starts[k], preview |-> TRUE, templates |-> {},
                                model |-> None, cancelled |-> FALSE])
    /\ starts' = [starts EXCEPT ![k] = None]
    /\ UNCHANGED <<poses, saved>>

-----------------------------------------------------------------------------
(* enroll_pose, from lock to lock.                                         *)

\* Ownership and cancellation are checked, then the configuration is cloned.
PoseBegins(p, u, s, cfg) ==
    /\ poses[p].pc = "idle"
    /\ Owned(s, u)
    /\ ~sessions[s].cancelled
    /\ poses' = [poses EXCEPT ![p] =
                     [pc |-> "scan", uid |-> u, sid |-> s, cfg |-> cfg,
                      first |-> None, second |-> None]]
    /\ UNCHANGED <<sessions, counter, starts, saved>>

\* The scan ended; a session that is gone or cancelled by now, or a failed
\* scan, ends the call. r is None when the worker failed.
PoseScanned(p, r) ==
    LET c    == poses[p]
        live == Owned(c.sid, c.uid) /\ ~sessions[c.sid].cancelled /\ r # None
        both == EnrollTag(r.report, c.cfg.mode) = "ir" \/ c.cfg.ir
    IN  /\ c.pc = "scan"
        /\ \/ ~live /\ Done(p)
           \/ live /\ poses' = [poses EXCEPT ![p].first = r,
                                  ![p].pc = IF both THEN "other" ELSE "push"]
        /\ UNCHANGED <<sessions, counter, starts, saved>>

\* Is a scan of the other spectrum worth it? A session that is gone spares it.
PoseCounts(p) ==
    LET c == poses[p]
        want == Other(EnrollTag(c.first.report, c.cfg.mode))
        plenty == Owned(c.sid, c.uid) =>
                    Cardinality({t \in sessions[c.sid].templates : t.tag = want}) >= OtherCap
    IN  /\ c.pc = "other"
        /\ poses' = [poses EXCEPT ![p].pc = IF plenty THEN "push" ELSE "scan2"]
        /\ UNCHANGED <<sessions, counter, starts, saved>>

\* The quiet second scan; a failure only costs its own templates.
PoseScannedOther(p, r) ==
    /\ poses[p].pc = "scan2"
    /\ poses' = [poses EXCEPT ![p].pc = "push", ![p].second = r]
    /\ UNCHANGED <<sessions, counter, starts, saved>>

\* The templates of both scans. The second has enroll_tag(report, "rgb") as
\* its tag: ANY never comes out of enroll_tag, so the intended spectrum is
\* never forced.
FirstTemplate(c) ==
    [face |-> c.first.face, tag |-> EnrollTag(c.first.report, c.cfg.mode),
     model |-> c.first.model, by |-> c.uid]

SecondTemplate(c) ==
    [face |-> c.second.face, tag |-> EnrollTag(c.second.report, "rgb"),
     model |-> c.second.model, by |-> c.uid]

\* The model of the second scan is not compared.
BadSecondKept(c) == c.second # None

\* The second scan goes in unless it names another model than the session's.
SecondKept(c) == c.second # None /\ c.second.model \in {None, c.first.model}

PosePushes(p) ==
    LET c    == poses[p]
        s    == sessions[c.sid]
        fits == Owned(c.sid, c.uid) /\ s.model \in {None, c.first.model}
    IN  /\ c.pc = "push"
        /\ \/ ~fits /\ UNCHANGED sessions
           \/ /\ fits
              /\ \E one \in Pushed(s.templates, {FirstTemplate(c)}) :
                 \E two \in IF SecondKept(c) THEN Pushed(one, {SecondTemplate(c)})
                            ELSE {one} :
                   SetSession(c.sid, [s EXCEPT !.model = c.first.model,
                                               !.templates = two])
        /\ Done(p)
        /\ UNCHANGED <<counter, starts, saved>>

-----------------------------------------------------------------------------
(* The calls that hold the lock from beginning to end.                     *)

\* finish_enrollment. The session leaves the map whoever calls, and whether
\* or not there is something to save and the save succeeds.
Finish(u, s) ==
    /\ s \in Ids
    /\ sessions[s] # None
    /\ \/ UNCHANGED saved
       \/ /\ sessions[s].uid = u
          /\ sessions[s].templates # {}
          /\ saved' = [saved EXCEPT ![u] = sessions[s].templates]
    /\ SetSession(s, None)
    /\ UNCHANGED <<counter, starts, poses>>

Cancel(u, s) ==
    /\ Owned(s, u)
    /\ SetSession(s, [sessions[s] EXCEPT !.cancelled = TRUE, !.preview = FALSE,
                                         !.templates = {}])
    /\ UNCHANGED <<counter, starts, poses, saved>>

\* A call by another user, or a reader that is gone or too slow for the pipe,
\* closes the preview and nothing else.
PreviewCloses(s) ==
    /\ sessions[s] # None
    /\ SetSession(s, [sessions[s] EXCEPT !.preview = FALSE])
    /\ UNCHANGED <<counter, starts, poses, saved>>

Next ==
    \/ \E k \in Starts, u \in Uids : StartClears(k, u)
    \/ \E k \in Starts : StartInserts(k)
    \/ \E p \in Poses, u \in Uids, s \in Ids, c \in Cameras :
         PoseBegins(p, u, s, c)
    \/ \E p \in Poses :
         /\ poses[p].pc = "scan"
         /\ \E r \in ScanIn(poses[p].cfg.mode) \cup {None} : PoseScanned(p, r)
    \/ \E p \in Poses : PoseCounts(p)
    \/ \E p \in Poses :
         /\ poses[p].pc = "scan2"
         /\ \E r \in ScanIn(Other(FirstTemplate(poses[p]).tag)) \cup {None} :
              PoseScannedOther(p, r)
    \/ \E p \in Poses : PosePushes(p)
    \/ \E u \in Uids, s \in Ids : Finish(u, s) \/ Cancel(u, s)
    \/ \E s \in Ids : PreviewCloses(s)

Spec == Init /\ [][Next]_vars

-----------------------------------------------------------------------------
(* Properties.                                                             *)

TypeOK ==
    /\ sessions \in [Ids -> Session \cup {None}]
    /\ counter \in 0..MaxSessions
    /\ \A s \in Ids : sessions[s] # None => s <= counter
    /\ starts \in [Starts -> Uids \cup {None}]
    /\ poses \in [Poses -> Call]
    /\ saved \in [Uids -> SUBSET Template]

\* The templates saved for a user were all captured by calls of that user,
\* however the calls of several users interleave (with_session is the "one
\* place" that decides whose session it is).
OwnFacesOnly ==
    \A u \in Uids : \A t \in saved[u] : t.by = u

\* "Mixing embeddings from two models produces a template set that matches
\* nobody" (enroll.rs): no identity is ever saved with scans that named two,
\* though the worker may restart with another model between any two scans of
\* any two calls, or name none.
OneModelPerIdentity ==
    \A u \in Uids : \A t1, t2 \in saved[u] :
        t1.model = t2.model \/ None \in {t1.model, t2.model}

\* A session that ended (finished, replaced) never comes back under its id,
\* so that a pose still at the camera cannot write into somebody's next one.
EndedStaysEnded ==
    [][\A s \in Ids : (s <= counter /\ sessions[s] = None) => sessions'[s] = None]_vars

\* "Abandon a session. ... discards every embedding collected so far; nothing
\* is written to disk" (enroll.rs, cancel_enrollment).
CancelDiscards ==
    \A s \in Ids :
        (sessions[s] # None /\ sessions[s].cancelled) => sessions[s].templates = {}

\* "One in-flight session per user" (enroll.rs, start_enrollment).
OneSessionPerUser ==
    \A s, t \in Ids :
        (sessions[s] # None /\ sessions[t] # None /\ sessions[s].uid = sessions[t].uid)
            => s = t
=============================================================================
