-------------------------- MODULE EnrollmentProofs --------------------------
(***************************************************************************)
(* The safety of Enrollment for any number of users, calls and sessions.   *)
(*                                                                         *)
(* Nothing but the check of with_session ties a pose to its session: what  *)
(* a pose read before the scan is not trusted after it. So the invariant   *)
(* is about the sessions alone, and a pose only has to carry a uid.        *)
(***************************************************************************)
EXTENDS Enrollment, TLAPS

\* A call under way has its arguments, and after its scan what was scanned.
CallSet(c) ==
    /\ c.pc # "idle" => c.uid \in Uids /\ c.sid \in Ids /\ c.cfg \in Cameras
    /\ c.pc \in {"other", "scan2", "push"} => c.first \in Scans

CallsSet == \A p \in Poses : CallSet(poses[p])

\* What a session holds was collected by its owner under the session's model.
Collected ==
    \A s \in Ids : sessions[s] # None =>
        \A t \in sessions[s].templates :
            t.by = sessions[s].uid /\ t.model \in {None, sessions[s].model}

Inv == TypeOK /\ CallsSet /\ Collected /\ OwnFacesOnly /\ OneModelPerIdentity

-----------------------------------------------------------------------------
(* Lemmas about the helpers.                                               *)

\* push_tagged only keeps what was there or what it was given.
LEMMA PushedWithin ==
    ASSUME NEW old, NEW new, NEW kept \in Pushed(old, new)
    PROVE  kept \subseteq old \cup new
BY DEF Pushed, kSubset

\* Whoever passes with_session owns a session that is in the map.
LEMMA OwnedSession ==
    ASSUME TypeOK, NEW s, NEW u, Owned(s, u)
    PROVE  s \in Ids /\ sessions[s] \in Session /\ sessions[s].uid = u
BY DEF Owned, TypeOK

\* The templates of a pose are templates, and carry the uid of the call.
LEMMA TemplateTypes ==
    ASSUME TypeOK, CallsSet, NEW p \in Poses, poses[p].pc = "push"
    PROVE  /\ FirstTemplate(poses[p]) \in Template
           /\ FirstTemplate(poses[p]).by = poses[p].uid
           /\ FirstTemplate(poses[p]).model = poses[p].first.model
           /\ SecondKept(poses[p]) =>
                /\ SecondTemplate(poses[p]) \in Template
                /\ SecondTemplate(poses[p]).by = poses[p].uid
                /\ SecondTemplate(poses[p]).model \in {None, poses[p].first.model}
<1> DEFINE c == poses[p]
<1>1. /\ c.uid \in Uids
      /\ c.cfg \in [mode : {"rgb", "ir", "both", "hybrid", "auto"}, ir : BOOLEAN]
      /\ c.first \in Scans
      /\ c.second \in Scans \cup {None}
  BY EnrollAssumption DEF TypeOK, CallsSet, CallSet, Call
<1> HIDE DEF c
<1>2. FirstTemplate(c) \in Template
  BY <1>1 DEF FirstTemplate, Template, Scans, Spectra, EnrollTag
<1>3. SecondKept(c) => SecondTemplate(c) \in Template
  BY <1>1 DEF SecondKept, SecondTemplate, Template, Scans, Spectra, EnrollTag, Other
<1>4. QED
  BY <1>2, <1>3 DEF c, FirstTemplate, SecondTemplate, SecondKept

\* A step that only moves one call keeps the invariant.
LEMMA CallMoves ==
    ASSUME Inv, NEW p \in Poses, NEW c \in Call, CallSet(c),
           poses' = [poses EXCEPT ![p] = c],
           UNCHANGED <<sessions, counter, starts, saved>>
    PROVE  Inv'
<1>1. TypeOK'
  BY DEF Inv, TypeOK, Ids
<1>2. CallsSet'
  BY DEF Inv, TypeOK, CallsSet, CallSet, Ids
<1>3. QED
  BY <1>1, <1>2 DEF Inv, Collected, OwnFacesOnly, OneModelPerIdentity

\* A call at rest is a call.
LEMMA RestingCall == Resting \in Call /\ CallSet(Resting)
BY EnrollAssumption DEF Resting, Call, CallSet

-----------------------------------------------------------------------------
(* The invariant.                                                          *)

\* The daemon starts without sessions, calls or identities.
LEMMA InitInv == Init => Inv
BY EnrollAssumption, RestingCall
   DEF Init, Inv, TypeOK, CallsSet, Collected, OwnFacesOnly, OneModelPerIdentity, Ids

\* Every step keeps it. The push of a pose is the step that matters.
LEMMA NextInv == Inv /\ [Next]_vars => Inv'
<1> SUFFICES ASSUME Inv, [Next]_vars
             PROVE  Inv'
  OBVIOUS
<1> USE EnrollAssumption
<1>1. ASSUME NEW k \in Starts, NEW u \in Uids, StartClears(k, u)
      PROVE  Inv'
  <2>1. UNCHANGED <<counter, poses, saved>> /\ starts' = [starts EXCEPT ![k] = u]
    BY <1>1 DEF StartClears
  <2>2. /\ sessions' \in [Ids -> Session \cup {None}]
        /\ \A s \in Ids : sessions'[s] # None => sessions'[s] = sessions[s]
    <3>1. sessions' = [s \in Ids |-> IF Owned(s, u) THEN None ELSE sessions[s]]
      BY <1>1 DEF StartClears
    <3>2. sessions \in [Ids -> Session \cup {None}]
      BY DEF Inv, TypeOK
    <3>3. QED
      BY <3>1, <3>2, Zenon
  <2>3. TypeOK'
    BY <2>1, <2>2 DEF Inv, TypeOK, Ids
  <2>4. QED
    BY <2>1, <2>2, <2>3 DEF Inv, CallsSet, CallSet, Collected, OwnFacesOnly,
                            OneModelPerIdentity, Ids
<1>2. ASSUME NEW k \in Starts, StartInserts(k)
      PROVE  Inv'
  <2> DEFINE new == [uid |-> starts[k], preview |-> TRUE, templates |-> {},
                     model |-> None, cancelled |-> FALSE]
  <2>1. new \in Session /\ new.templates = {}
    BY <1>2 DEF Inv, TypeOK, StartInserts, Session
  <2>2. counter + 1 \in Ids /\ counter' = counter + 1
    BY <1>2 DEF Inv, TypeOK, StartInserts, Ids
  <2>3. sessions' = [sessions EXCEPT ![counter + 1] = new]
    BY <1>2 DEF StartInserts, SetSession
  <2>4. UNCHANGED <<poses, saved>> /\ starts' = [starts EXCEPT ![k] = None]
    BY <1>2 DEF StartInserts
  <2> HIDE DEF new
  <2>5. TypeOK'
    BY <2>1, <2>2, <2>3, <2>4 DEF Inv, TypeOK, Ids
  <2>6. QED
    BY <2>1, <2>2, <2>3, <2>4, <2>5
       DEF Inv, TypeOK, CallsSet, CallSet, Collected, OwnFacesOnly, OneModelPerIdentity
<1>3. ASSUME NEW p \in Poses, NEW u \in Uids, NEW s \in Ids, NEW c \in Cameras,
             PoseBegins(p, u, s, c)
      PROVE  Inv'
  <2> DEFINE new == [pc |-> "scan", uid |-> u, sid |-> s, cfg |-> c,
                     first |-> None, second |-> None]
  <2>1. new \in Call /\ CallSet(new)
    <3>1. s \in 0..MaxSessions
      BY DEF Ids
    <3>2. QED
      BY <3>1 DEF Call, CallSet
  <2>2. QED
    BY <1>3, <2>1, CallMoves DEF PoseBegins
<1>4. ASSUME NEW p \in Poses, poses[p].pc = "scan",
             NEW r \in ScanIn(poses[p].cfg.mode) \cup {None}, PoseScanned(p, r)
      PROVE  Inv'
  <2>1. r # None => r \in Scans
    BY <1>4 DEF ScanIn
  <2>2. UNCHANGED <<sessions, counter, starts, saved>>
    BY <1>4 DEF PoseScanned
  <2>3. \/ poses' = [poses EXCEPT ![p] = Resting]
        \/ /\ r \in Scans
           /\ \E to \in {"other", "push"} :
                poses' = [poses EXCEPT ![p].first = r, ![p].pc = to]
    BY <1>4, <2>1 DEF PoseScanned, Done
  <2>4. CASE poses' = [poses EXCEPT ![p] = Resting]
    BY <2>2, <2>4, RestingCall, CallMoves
  <2>5. ASSUME r \in Scans, NEW to \in {"other", "push"},
               poses' = [poses EXCEPT ![p].first = r, ![p].pc = to]
        PROVE  Inv'
    <3> DEFINE new == [poses[p] EXCEPT !.first = r, !.pc = to]
    <3>1. poses[p] \in Call /\ CallSet(poses[p])
      BY DEF Inv, TypeOK, CallsSet
    <3>2. new \in Call /\ CallSet(new)
      BY <1>4, <2>5, <3>1 DEF Call, CallSet
    <3>3. poses' = [poses EXCEPT ![p] = new]
      BY <2>5 DEF Inv, TypeOK
    <3>4. QED
      BY <2>2, <3>2, <3>3, CallMoves
  <2>6. QED
    BY <2>3, <2>4, <2>5
<1>5. ASSUME NEW p \in Poses, PoseCounts(p)
      PROVE  Inv'
  <2>1. PICK to \in {"push", "scan2"} : poses' = [poses EXCEPT ![p].pc = to]
    BY <1>5 DEF PoseCounts
  <2> DEFINE new == [poses[p] EXCEPT !.pc = to]
  <2>2. poses[p] \in Call /\ CallSet(poses[p]) /\ poses[p].pc = "other"
    BY <1>5 DEF Inv, TypeOK, CallsSet, PoseCounts
  <2>3. new \in Call /\ CallSet(new)
    BY <2>2 DEF Call, CallSet
  <2>4. QED
    BY <1>5, <2>1, <2>3, CallMoves DEF PoseCounts
<1>6. ASSUME NEW p \in Poses,
             NEW r \in ScanIn(Other(FirstTemplate(poses[p]).tag)) \cup {None},
             PoseScannedOther(p, r)
      PROVE  Inv'
  <2>1. r \in Scans \cup {None}
    BY <1>6 DEF ScanIn
  <2> DEFINE new == [poses[p] EXCEPT !.pc = "push", !.second = r]
  <2>2. poses[p] \in Call /\ CallSet(poses[p]) /\ poses[p].pc = "scan2"
    BY <1>6 DEF Inv, TypeOK, CallsSet, PoseScannedOther
  <2>3. new \in Call /\ CallSet(new)
    BY <2>1, <2>2 DEF Call, CallSet
  <2>4. poses' = [poses EXCEPT ![p] = new]
    BY <1>6 DEF PoseScannedOther, Inv, TypeOK
  <2>5. QED
    BY <1>6, <2>3, <2>4, CallMoves DEF PoseScannedOther
<1>7. ASSUME NEW p \in Poses, PosePushes(p)
      PROVE  Inv'
  <2> DEFINE c == poses[p]
             s == sessions[c.sid]
  <2>1. c.pc = "push" /\ c.first \in Scans
    BY <1>7 DEF PosePushes, Inv, CallsSet, CallSet
  <2>2. UNCHANGED <<counter, starts, saved>> /\ poses' = [poses EXCEPT ![p] = Resting]
    BY <1>7 DEF PosePushes, Done
  <2>3. CASE UNCHANGED sessions
    BY <2>2, <2>3, RestingCall, CallMoves
  <2>4. CASE ~ UNCHANGED sessions
    <3>1. Owned(c.sid, c.uid) /\ s.model \in {None, c.first.model}
      BY <1>7, <2>4 DEF PosePushes
    <3>2. c.sid \in Ids /\ s \in Session /\ s.uid = c.uid /\ s # None
      BY <3>1, OwnedSession DEF Inv, Owned
    <3>3. PICK kept : /\ kept \subseteq s.templates \cup
                            {FirstTemplate(c)} \cup
                            (IF SecondKept(c) THEN {SecondTemplate(c)} ELSE {})
                      /\ sessions' = [sessions EXCEPT ![c.sid] =
                            [s EXCEPT !.model = c.first.model, !.templates = kept]]
      <4>1. PICK one \in Pushed(s.templates, {FirstTemplate(c)}) :
              \E two \in IF SecondKept(c) THEN Pushed(one, {SecondTemplate(c)})
                         ELSE {one} :
                SetSession(c.sid, [s EXCEPT !.model = c.first.model, !.templates = two])
        BY <1>7, <2>4 DEF PosePushes
      <4>2. PICK two \in IF SecondKept(c) THEN Pushed(one, {SecondTemplate(c)})
                         ELSE {one} :
              SetSession(c.sid, [s EXCEPT !.model = c.first.model, !.templates = two])
        BY <4>1
      <4>3. one \subseteq s.templates \cup {FirstTemplate(c)}
        BY <4>1, PushedWithin
      <4>4. two \subseteq one \cup (IF SecondKept(c) THEN {SecondTemplate(c)} ELSE {})
        BY <4>2, PushedWithin
      <4>5. QED
        BY <4>2, <4>3, <4>4 DEF SetSession
    <3>4. \A t \in kept :
             t \in Template /\ t.by = s.uid /\ t.model \in {None, c.first.model}
      <4>1. \A t \in s.templates :
              t \in Template /\ t.by = s.uid /\ t.model \in {None, c.first.model}
        <5>1. \A t \in s.templates :
                t \in Template /\ t.by = s.uid /\ t.model \in {None, s.model}
          BY <3>2 DEF Inv, Collected, Session
        <5>2. QED
          BY <3>1, <5>1
      <4>2. QED
        BY <2>1, <3>2, <3>3, <4>1, TemplateTypes DEF Inv
    <3> DEFINE new == [s EXCEPT !.model = c.first.model, !.templates = kept]
    <3>5. new \in Session /\ new.uid = s.uid /\ new.templates = kept
          /\ new.model = c.first.model
      BY <2>1, <3>2, <3>4 DEF Session, Scans
    <3>6. sessions' = [sessions EXCEPT ![c.sid] = new]
      BY <3>3
    <3> HIDE DEF new
    <3>7. TypeOK'
      BY <2>2, <3>2, <3>5, <3>6, RestingCall DEF Inv, TypeOK, Ids
    <3>8. CallsSet' /\ OwnFacesOnly' /\ OneModelPerIdentity'
      BY <2>2, RestingCall
         DEF Inv, TypeOK, CallsSet, CallSet, OwnFacesOnly, OneModelPerIdentity, Ids
    <3>9. Collected'
      BY <3>2, <3>4, <3>5, <3>6 DEF Inv, TypeOK, Collected
    <3>10. QED
      BY <3>7, <3>8, <3>9 DEF Inv
  <2>5. QED
    BY <2>3, <2>4
<1>8. ASSUME NEW u \in Uids, NEW s \in Ids, Finish(u, s)
      PROVE  Inv'
  <2>1. UNCHANGED <<counter, starts, poses>>
        /\ sessions' = [sessions EXCEPT ![s] = None]
    BY <1>8 DEF Finish, SetSession
  <2>2. \/ UNCHANGED saved
        \/ /\ sessions[s] \in Session /\ sessions[s].uid = u /\ sessions[s] # None
           /\ saved' = [saved EXCEPT ![u] = sessions[s].templates]
    BY <1>8 DEF Finish, Inv, TypeOK
  <2>3. TypeOK' /\ CallsSet' /\ Collected'
    BY <2>1, <2>2 DEF Inv, TypeOK, CallsSet, CallSet, Collected, Session, Ids
  <2>4. OwnFacesOnly' /\ OneModelPerIdentity'
    BY <2>1, <2>2 DEF Inv, TypeOK, Collected, OwnFacesOnly, OneModelPerIdentity
  <2>5. QED
    BY <2>3, <2>4 DEF Inv
<1>9. ASSUME NEW u \in Uids, NEW s \in Ids, Cancel(u, s)
      PROVE  Inv'
  <2>1. sessions[s] \in Session /\ sessions[s] # None
    BY <1>9, OwnedSession DEF Cancel, Inv, Owned
  <2> DEFINE new == [sessions[s] EXCEPT !.cancelled = TRUE, !.preview = FALSE,
                                        !.templates = {}]
  <2>2. new \in Session /\ new.templates = {}
    BY <2>1 DEF Session
  <2>3. /\ sessions' = [sessions EXCEPT ![s] = new]
        /\ UNCHANGED <<counter, starts, poses, saved>>
    BY <1>9 DEF Cancel, SetSession
  <2> HIDE DEF new
  <2>4. TypeOK'
    BY <2>1, <2>2, <2>3 DEF Inv, TypeOK, Ids
  <2>5. QED
    BY <2>2, <2>3, <2>4 DEF Inv, TypeOK, CallsSet, CallSet, Collected, OwnFacesOnly,
                            OneModelPerIdentity, Ids
<1>10. ASSUME NEW s \in Ids, PreviewCloses(s)
       PROVE  Inv'
  <2> DEFINE new == [sessions[s] EXCEPT !.preview = FALSE]
  <2>1. sessions[s] \in Session /\ sessions[s] # None
    BY <1>10 DEF PreviewCloses, Inv, TypeOK
  <2>2. new \in Session
    BY <2>1 DEF Session
  <2>3. /\ new.uid = sessions[s].uid /\ new.model = sessions[s].model
        /\ new.templates = sessions[s].templates
    BY <2>1 DEF Session
  <2>4. /\ sessions' = [sessions EXCEPT ![s] = new]
        /\ UNCHANGED <<counter, starts, poses, saved>>
    BY <1>10 DEF PreviewCloses, SetSession
  <2> HIDE DEF new
  <2>5. TypeOK'
    BY <2>1, <2>2, <2>4 DEF Inv, TypeOK, Ids
  <2>6. QED
    BY <2>1, <2>3, <2>4, <2>5 DEF Inv, TypeOK, CallsSet, CallSet, Collected,
                                  OwnFacesOnly, OneModelPerIdentity, Ids
<1>11. CASE UNCHANGED vars
  BY <1>11 DEF vars, Inv, TypeOK, CallsSet, CallSet, Collected, OwnFacesOnly,
               OneModelPerIdentity
<1>12. QED
  BY <1>1, <1>2, <1>3, <1>4, <1>5, <1>6, <1>7, <1>8, <1>9, <1>10, <1>11 DEF Next

\* Every reachable state satisfies the invariant.
THEOREM Invariance == Spec => []Inv
BY InitInv, NextInv, PTL DEF Spec

\* The types are right in every reachable state.
THEOREM TypeCorrect == Spec => []TypeOK
<1>1. Inv => TypeOK
  BY DEF Inv
<1>2. QED
  BY <1>1, Invariance, PTL

\* No identity is ever saved with a face another user's call captured.
THEOREM OwnFaces == Spec => []OwnFacesOnly
<1>1. Inv => OwnFacesOnly
  BY DEF Inv
<1>2. QED
  BY <1>1, Invariance, PTL

\* No identity is ever saved with templates of two models that were named.
THEOREM OneModel == Spec => []OneModelPerIdentity
<1>1. Inv => OneModelPerIdentity
  BY DEF Inv
<1>2. QED
  BY <1>1, Invariance, PTL

-----------------------------------------------------------------------------
\* A session that ended does not come back: ids are handed out once, and
\* every other step writes only into a session that is in the map.
THEOREM EndedEnded == Spec => EndedStaysEnded
<1> DEFINE Keeps == \A s \in Ids :
               (s <= counter /\ sessions[s] = None) => sessions'[s] = None
<1>1. Inv /\ [Next]_vars => [Keeps]_vars
  <2> SUFFICES ASSUME Inv, Next, NEW s \in Ids, s <= counter, sessions[s] = None
               PROVE  sessions'[s] = None
    BY DEF vars
  <2>1. ASSUME NEW k \in Starts, StartInserts(k)
        PROVE  sessions'[s] = None
    <3>1. s # counter + 1
      BY DEF Inv, TypeOK, Ids
    <3>2. QED
      BY <2>1, <3>1 DEF Inv, TypeOK, StartInserts, SetSession
  <2>2. ASSUME NEW p \in Poses, PosePushes(p)
        PROVE  sessions'[s] = None
    BY <2>2 DEF Inv, TypeOK, PosePushes, SetSession, Owned
  <2>3. ASSUME NEW u \in Uids, NEW t \in Ids, Finish(u, t) \/ Cancel(u, t)
        PROVE  sessions'[s] = None
    BY <2>3 DEF Inv, TypeOK, Finish, Cancel, SetSession, Owned
  <2>4. ASSUME NEW t \in Ids, PreviewCloses(t)
        PROVE  sessions'[s] = None
    BY <2>4 DEF Inv, TypeOK, PreviewCloses, SetSession
  <2>5. QED
    BY <2>1, <2>2, <2>3, <2>4
       DEF Next, Inv, TypeOK, StartClears, PoseBegins, PoseScanned, PoseCounts,
           PoseScannedOther
<1>2. QED
  BY <1>1, Invariance, PTL DEF Spec, EndedStaysEnded
=============================================================================
