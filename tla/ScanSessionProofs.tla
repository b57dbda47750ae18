------------------------- MODULE ScanSessionProofs --------------------------
(***************************************************************************)
(* The evidence of a scan, for every camera, configuration and engine: the *)
(* windows and counters that the code keeps from frame to frame say the    *)
(* same as the whole history of measurements.                              *)
(***************************************************************************)
EXTENDS ScanSession, FiniteSetTheorems, TLAPS

-----------------------------------------------------------------------------
(* The inductive invariant.                                                *)

Positive == Nat \ {0}

\* A configuration after __post_init__.
Sound(c) ==
    /\ c \in Configs
    /\ c.maxEmbeddings \in Positive /\ c.minEmbeddings \in Positive
    /\ c.embedEvery \in Positive
    /\ c.moireFrames \in Positive /\ c.moireRequired \in 1..c.moireFrames

Counters ==
    /\ Sound(cfg)
    /\ pc \in {"run", "enough", "time", "camera", "worker"}
    /\ clock \in Nat /\ frames \in Nat /\ usable \in Nat /\ embeddings \in Nat
    /\ usable <= frames /\ frames <= MaxFrames
    /\ embeddings <= cfg.maxEmbeddings

Embedded == embeddings <= usable \div cfg.embedEvery

\* The hits among the last k observations.
HitsOf(ms, k) == {i \in (Len(ms) - k + 1)..Len(ms) : ms[i]}

\* The window holds the last observations, and hits counts its hits.
Windowed(q, h, ms, n) ==
    /\ q \in Seq(BOOLEAN) /\ ms \in Seq(BOOLEAN)
    /\ Len(q) = Least(Len(ms), n)
    /\ \A i \in 1..Len(q) : q[i] = ms[Len(ms) - Len(q) + i]
    /\ h = Cardinality(HitsOf(ms, Len(q)))

MoireKept ==
    /\ Windowed(moireQ, hits, moires, cfg.moireFrames)
    /\ cfg.mode = "ir" => moires = <<>>

\* The closed frames since the eyes were last open, before frame k.
DipBefore(h, k) ==
    {j \in 1..(k-1) : h[j] < ClosedThr /\ \A i \in j..(k-1) : h[i] <= OpenThr}

\* run counts the dip the eyes are in, and closed says that they are in one.
EyesKept(e) ==
    /\ e.history \in Seq(Int)
    /\ e.blinks \in Nat /\ e.run \in Nat
    /\ e.run = Cardinality(DipBefore(e.history, Len(e.history) + 1))
    /\ e.closed <=> DipBefore(e.history, Len(e.history) + 1) # {}
    /\ e.blinks = BlinksOf(e.history)

PlanarTyped == planar \in [ref : Int \cup {None}, best : -1..2]

Pose == [t : Nat, yaw : Int, pitch : Int, blinks : Int]

\* What has been asked for was done, by the i-th pose the challenge was shown.
Earned(kind, ps, i) ==
    /\ ps[i].t - ps[1].t <= Window
    /\ CASE kind = "turn_left"   -> ps[i].yaw < ps[1].yaw
         [] kind = "turn_right"  -> ps[i].yaw > ps[1].yaw
         [] kind = "look_up"     -> ps[i].pitch < ps[1].pitch
         [] kind = "blink_twice" -> ps[i].blinks > ps[1].blinks + 1

\* The challenge starts from the first pose it was shown, and passes by one of
\* the later ones.
ChallengeKept ==
    /\ chal \in [kind : Challenges \cup {None}, t0 : Int \cup {None}, yaw : Int, pitch : Int,
                blinks : Int, passed : BOOLEAN]
    /\ cfg.challenge => chal.kind \in Challenges
    /\ poses \in Seq(Pose)
    /\ IF poses = <<>> THEN chal.t0 = None
       ELSE /\ chal.t0 = poses[1].t /\ chal.yaw = poses[1].yaw
            /\ chal.pitch = poses[1].pitch /\ chal.blinks = poses[1].blinks
    /\ chal.passed => \E i \in 2..Len(poses) : Earned(chal.kind, poses, i)

\* A veto ends the scan, so that what it was based on stands.
DenyKept ==
    /\ deny \subseteq Cues
    /\ pc = "run" => deny = {}
    /\ ("moire" \in deny) <=> hits >= cfg.moireRequired
    /\ "planar_photo" \in deny => planar.best = 0

ConfirmKept ==
    /\ confirm \subseteq Confirmations
    /\ ("blink" \in confirm) <=> eyes.blinks > 0
    /\ "parallax" \in confirm => planar.best = 2
    /\ "challenge" \in confirm => chal.passed

\* The preview remembers the last status it has sent.
ShownKept ==
    /\ told \in Seq({"acquiring", "good"})
    /\ shown = IF told = <<>> THEN "acquiring" ELSE told[Len(told)]

\* Nothing is said against the user's attention but by the last measurements.
Attentive ==
    /\ pc = "run" => attention
    /\ AttentionMeasured

-----------------------------------------------------------------------------
(* Sequences and counts.                                                   *)

LEMMA AppendFacts ==
    ASSUME NEW S, NEW s \in Seq(S), NEW x \in S
    PROVE  /\ Append(s, x) \in Seq(S) /\ Len(s) \in Nat
           /\ Len(Append(s, x)) = Len(s) + 1
           /\ \A i \in 1..Len(s) : Append(s, x)[i] = s[i]
           /\ Append(s, x)[Len(s) + 1] = x
OBVIOUS

LEMMA TailFacts ==
    ASSUME NEW S, NEW s \in Seq(S), s # <<>>
    PROVE  /\ Tail(s) \in Seq(S) /\ Head(s) = s[1]
           /\ Len(Tail(s)) = Len(s) - 1
           /\ \A i \in 1..(Len(s) - 1) : Tail(s)[i] = s[i + 1]
OBVIOUS

\* A set of places of a sequence is finite.
LEMMA PlacesFinite ==
    ASSUME NEW m \in Int, NEW n \in Int, NEW T, T \subseteq m..n
    PROVE  IsFiniteSet(T) /\ Cardinality(T) \in Nat
BY FS_Interval, FS_Subset, FS_CardinalityType

\* One more place counts one more, when it is one.
LEMMA CountAdds ==
    ASSUME NEW T, IsFiniteSet(T), NEW x, x \notin T, NEW b \in BOOLEAN
    PROVE  Cardinality(T \cup (IF b THEN {x} ELSE {})) = Cardinality(T) + (IF b THEN 1 ELSE 0)
<1>1. Cardinality(T) \in Nat
  BY FS_CardinalityType
<1>2. CASE b
  BY <1>2, FS_AddElement
<1>3. CASE ~b
  <2>1. T \cup (IF b THEN {x} ELSE {}) = T
    BY <1>3
  <2>2. QED
    BY <1>1, <1>3, <2>1
<1>4. QED
  BY <1>2, <1>3

LEMMA CountDrops ==
    ASSUME NEW T, IsFiniteSet(T), NEW x, NEW b \in BOOLEAN, b <=> x \in T
    PROVE  /\ Cardinality(T \ {x}) = Cardinality(T) - (IF b THEN 1 ELSE 0)
           /\ IsFiniteSet(T \ {x})
<1>1. Cardinality(T) \in Nat
  BY FS_CardinalityType
<1>2. CASE b
  BY <1>2, FS_RemoveElement
<1>3. CASE ~b
  <2>1. T \ {x} = T
    BY <1>3
  <2>2. Cardinality(T \ {x}) = Cardinality(T) /\ IsFiniteSet(T \ {x})
    BY <2>1
  <2>3. Cardinality(T) - 0 = Cardinality(T)
    BY <1>1
  <2>4. QED
    BY <1>3, <2>2, <2>3
<1>4. QED
  BY <1>2, <1>3

-----------------------------------------------------------------------------
(* The moire window.                                                       *)

\* A window that is not full yet.
LEMMA WindowFills ==
    ASSUME NEW n \in Positive, NEW q, NEW h, NEW ms, Windowed(q, h, ms, n),
           NEW hit \in BOOLEAN, Len(q) + 1 <= n
    PROVE  Windowed(Append(q, hit), h + (IF hit THEN 1 ELSE 0), Append(ms, hit), n)
<1> DEFINE N == Len(ms)
           qq == Append(q, hit)
           mm == Append(ms, hit)
<1>1. q \in Seq(BOOLEAN) /\ ms \in Seq(BOOLEAN) /\ Len(q) \in Nat /\ N \in Nat /\ Len(q) = N
  BY DEF Windowed, Least, Positive
<1>2. /\ qq \in Seq(BOOLEAN) /\ Len(qq) = N + 1
      /\ mm \in Seq(BOOLEAN) /\ Len(mm) = N + 1
      /\ \A i \in 1..N : qq[i] = q[i] /\ mm[i] = ms[i]
      /\ qq[N + 1] = hit /\ mm[N + 1] = hit
  BY <1>1, AppendFacts
<1> HIDE DEF qq, mm
<1>3. Len(qq) = Least(Len(mm), n)
  BY <1>1, <1>2 DEF Least, Positive
<1>4. \A i \in 1..Len(qq) : qq[i] = mm[Len(mm) - Len(qq) + i]
  <2>1. \A i \in 1..N : q[i] = ms[i]
    BY <1>1 DEF Windowed
  <2> SUFFICES ASSUME NEW i \in 1..(N + 1)
               PROVE  qq[i] = mm[i]
    BY <1>1, <1>2
  <2>2. QED
    BY <1>1, <1>2, <2>1
<1>5. HitsOf(mm, Len(qq)) = HitsOf(ms, Len(q)) \cup (IF hit THEN {N + 1} ELSE {})
  <2>1. HitsOf(mm, Len(qq)) = {i \in 1..(N + 1) : mm[i]}
    BY <1>1, <1>2 DEF HitsOf
  <2>2. HitsOf(ms, Len(q)) = {i \in 1..N : ms[i]}
    BY <1>1, <1>2 DEF HitsOf
  <2>3. QED
    BY <1>1, <1>2, <2>1, <2>2
<1>6. IsFiniteSet(HitsOf(ms, Len(q))) /\ N + 1 \notin HitsOf(ms, Len(q))
  BY <1>1, PlacesFinite DEF HitsOf
<1>7. Cardinality(HitsOf(mm, Len(qq))) = h + (IF hit THEN 1 ELSE 0)
  BY <1>5, <1>6, CountAdds DEF Windowed
<1>8. QED
  BY <1>2, <1>3, <1>4, <1>7 DEF Windowed, qq, mm

\* A full window: what falls out of it is taken off.
LEMMA WindowSlides ==
    ASSUME NEW n \in Positive, NEW q, NEW h, NEW ms, Windowed(q, h, ms, n),
           NEW hit \in BOOLEAN, Len(q) + 1 > n
    PROVE  Windowed(Tail(Append(q, hit)),
                    h + (IF hit THEN 1 ELSE 0) - (IF Head(Append(q, hit)) THEN 1 ELSE 0),
                    Append(ms, hit), n)
<1> DEFINE N == Len(ms)
           aa == Append(q, hit)
           qq == Tail(aa)
           mm == Append(ms, hit)
           low == N - n + 1
           kept == HitsOf(ms, n) \ {low}
<1>1. /\ q \in Seq(BOOLEAN) /\ ms \in Seq(BOOLEAN) /\ N \in Nat /\ n \in Nat /\ n >= 1
      /\ Len(q) = n /\ N >= n
  BY DEF Windowed, Least, Positive
<1>2. /\ aa \in Seq(BOOLEAN) /\ Len(aa) = n + 1 /\ mm \in Seq(BOOLEAN) /\ Len(mm) = N + 1
      /\ \A i \in 1..n : aa[i] = q[i]
      /\ \A i \in 1..N : mm[i] = ms[i]
      /\ aa[n + 1] = hit /\ mm[N + 1] = hit
  BY <1>1, AppendFacts
<1> HIDE DEF aa, mm
<1>3. /\ qq \in Seq(BOOLEAN) /\ Len(qq) = n /\ Head(aa) = aa[1]
      /\ \A i \in 1..n : qq[i] = aa[i + 1]
  <2>1. aa # <<>>
    BY <1>1, <1>2
  <2>2. QED
    BY <1>1, <1>2, <2>1, TailFacts
<1> HIDE DEF qq
<1>4. Len(qq) = Least(Len(mm), n)
  BY <1>1, <1>2, <1>3 DEF Least
<1>5. \A i \in 1..n : q[i] = ms[N - n + i]
  BY <1>1 DEF Windowed
<1>6. \A i \in 1..Len(qq) : qq[i] = mm[Len(mm) - Len(qq) + i]
  <2> SUFFICES ASSUME NEW i \in 1..n
               PROVE  qq[i] = mm[N + 1 - n + i]
    BY <1>2, <1>3
  <2>1. CASE i = n
    BY <1>1, <1>2, <1>3, <2>1
  <2>2. CASE i # n
    <3>1. i + 1 \in 1..n /\ N - n + (i + 1) \in 1..N /\ N - n + (i + 1) = N + 1 - n + i
      BY <1>1, <2>2
    <3>2. qq[i] = q[i + 1] /\ q[i + 1] = ms[N - n + (i + 1)]
      BY <1>2, <1>3, <1>5, <3>1
    <3>3. QED
      BY <1>2, <3>1, <3>2
  <2>3. QED
    BY <2>1, <2>2
<1>7. Head(aa) \in BOOLEAN /\ (Head(aa) <=> low \in HitsOf(ms, n))
  <2>1. Head(aa) = q[1] /\ q[1] = ms[N - n + 1] /\ q[1] \in BOOLEAN
    BY <1>1, <1>2, <1>3, <1>5
  <2>2. low \in (Len(ms) - n + 1)..Len(ms)
    BY <1>1
  <2>3. QED
    BY <2>1, <2>2 DEF HitsOf
<1>8. HitsOf(mm, n) = kept \cup (IF hit THEN {N + 1} ELSE {})
  <2>1. HitsOf(mm, n) = {i \in (low + 1)..(N + 1) : mm[i]}
    BY <1>1, <1>2 DEF HitsOf
  <2>2. kept = {i \in (low + 1)..N : ms[i]}
    BY <1>1 DEF HitsOf
  <2>3. \A i \in (low + 1)..N : mm[i] = ms[i]
    BY <1>1, <1>2
  <2>4. (low + 1)..(N + 1) = ((low + 1)..N) \cup {N + 1}
    BY <1>1
  <2> HIDE DEF low, kept
  <2>5. QED
    BY <1>1, <1>2, <2>1, <2>2, <2>3, <2>4
<1>9. IsFiniteSet(HitsOf(ms, n)) /\ N + 1 \notin kept
  BY <1>1, PlacesFinite DEF HitsOf
<1>10. /\ Cardinality(kept) = h - (IF Head(aa) THEN 1 ELSE 0)
       /\ IsFiniteSet(kept)
  BY <1>1, <1>7, <1>9, CountDrops DEF Windowed
<1>11. Cardinality(HitsOf(mm, n)) = Cardinality(kept) + (IF hit THEN 1 ELSE 0)
  <2> HIDE DEF kept
  <2> QED  BY <1>8, <1>9, <1>10, CountAdds
<1>12. h \in Nat
  BY <1>1, <1>9, FS_CardinalityType DEF Windowed
<1>13. Cardinality(HitsOf(mm, n))
          = h + (IF hit THEN 1 ELSE 0) - (IF Head(aa) THEN 1 ELSE 0)
  <2> DEFINE up   == IF hit THEN 1 ELSE 0
             down == IF Head(aa) THEN 1 ELSE 0
  <2>1. up \in Int /\ down \in Int
    <3>1. 0 \in Int /\ 1 \in Int
      OBVIOUS
    <3>2. QED
      BY <3>1, Zenon
  <2>2. Cardinality(kept) = h - down /\ Cardinality(HitsOf(mm, n)) = Cardinality(kept) + up
    BY <1>10, <1>11
  <2> HIDE DEF up, down, kept
  <2>3. Cardinality(HitsOf(mm, n)) = h + up - down
    BY <1>12, <2>1, <2>2
  <2>4. QED
    BY <2>3 DEF up, down
<1>14. QED
  BY <1>2, <1>3, <1>4, <1>6, <1>13 DEF Windowed, qq, aa, mm

-----------------------------------------------------------------------------
(* The blink detector.                                                     *)

BlinkAt(h, k) == h[k] > OpenThr /\ Cardinality(DipBefore(h, k)) \in MinClosed..MaxClosed

LEMMA BlinksAre ==
    ASSUME NEW h
    PROVE  BlinksOf(h) = Cardinality({k \in 1..Len(h) : BlinkAt(h, k)})
BY DEF BlinksOf, BlinkAt, DipBefore

\* What a measurement says of the frames before it is not changed by later ones.
LEMMA DipStays ==
    ASSUME NEW h \in Seq(Int), NEW ear \in Int, NEW k \in 1..(Len(h) + 1)
    PROVE  DipBefore(Append(h, ear), k) = DipBefore(h, k)
<1>1. \A j \in 1..Len(h) : Append(h, ear)[j] = h[j]
  OBVIOUS
<1>2. \A j \in 1..(k-1) : j \in 1..Len(h) /\ \A i \in j..(k-1) : i \in 1..Len(h)
  OBVIOUS
<1>3. \A j \in 1..(k-1) :
         /\ Append(h, ear)[j] = h[j]
         /\ \A i \in j..(k-1) : Append(h, ear)[i] = h[i]
  BY <1>1, <1>2
<1>4. QED
  BY <1>3 DEF DipBefore

\* The dip the eyes are in after another measurement.
LEMMA DipGoesOn ==
    ASSUME NEW h \in Seq(Int), NEW ear \in Int
    PROVE  DipBefore(Append(h, ear), Len(h) + 2) =
              IF ear > OpenThr THEN {}
              ELSE DipBefore(h, Len(h) + 1) \cup (IF ear < ClosedThr THEN {Len(h) + 1} ELSE {})
<1> DEFINE g == Append(h, ear)
           n == Len(h)
<1>1. /\ n \in Nat /\ g[n + 1] = ear /\ \A j \in 1..n : g[j] = h[j]
  BY AppendFacts
<1> HIDE DEF g, n
<1>2. DipBefore(g, n + 2) =
         {j \in 1..(n + 1) : g[j] < ClosedThr /\ \A i \in j..(n + 1) : g[i] <= OpenThr}
  BY <1>1 DEF DipBefore
<1>3. CASE ear > OpenThr
  <2>1. \A j \in 1..(n + 1) : n + 1 \in j..(n + 1) /\ ~(g[n + 1] <= OpenThr)
    BY <1>1, <1>3 DEF OpenThr
  <2>2. QED
    BY <1>2, <1>3, <2>1 DEF g, n
<1>4. CASE ~(ear > OpenThr)
  <2>1. DipBefore(h, n + 1) =
           {j \in 1..n : h[j] < ClosedThr /\ \A i \in j..n : h[i] <= OpenThr}
    BY <1>1 DEF DipBefore
  <2>2. ASSUME NEW j \in 1..n
        PROVE  (\A i \in j..(n + 1) : g[i] <= OpenThr) <=> (\A i \in j..n : h[i] <= OpenThr)
    <3>1. j..(n + 1) = (j..n) \cup {n + 1} /\ \A i \in j..n : i \in 1..n
      BY <1>1
    <3>2. g[n + 1] <= OpenThr
      BY <1>1, <1>4 DEF OpenThr
    <3>3. QED
      BY <1>1, <3>1, <3>2
  <2>3. (n + 1)..(n + 1) = {n + 1} /\ g[n + 1] <= OpenThr
    BY <1>1, <1>4 DEF OpenThr
  <2>4. 1..(n + 1) = (1..n) \cup {n + 1}
    BY <1>1
  <2>5. \A j \in 1..(n + 1) :
           j \in DipBefore(g, n + 2) <=>
              j \in DipBefore(h, n + 1) \/ (j = n + 1 /\ ear < ClosedThr)
    <3> SUFFICES ASSUME NEW j \in 1..(n + 1)
                 PROVE  j \in DipBefore(g, n + 2) <=>
                           j \in DipBefore(h, n + 1) \/ (j = n + 1 /\ ear < ClosedThr)
      OBVIOUS
    <3>1. CASE j = n + 1
      <4>1. n + 1 \notin 1..n
        BY <1>1
      <4>2. QED
        BY <1>1, <1>2, <2>1, <2>3, <3>1, <4>1
    <3>2. CASE j # n + 1
      <4>1. j \in 1..n
        BY <2>4, <3>2
      <4>2. QED
        BY <1>1, <1>2, <2>1, <2>2, <3>2, <4>1
    <3>3. QED
      BY <3>1, <3>2
  <2>6. DipBefore(g, n + 2) \subseteq 1..(n + 1) /\ DipBefore(h, n + 1) \subseteq 1..(n + 1)
    BY <1>1, <1>2, <2>1, <2>4
  <2>7. n + 1 \in 1..(n + 1)
    BY <1>1
  <2>8. DipBefore(g, n + 2) = DipBefore(h, n + 1) \cup (IF ear < ClosedThr THEN {n + 1} ELSE {})
    BY <2>5, <2>6, <2>7, Zenon
  <2>9. QED
    BY <1>4, <2>8 DEF g, n
<1>5. QED
  BY <1>3, <1>4

LEMMA DipFinite ==
    ASSUME NEW h \in Seq(Int), NEW k \in Int
    PROVE  IsFiniteSet(DipBefore(h, k)) /\ Cardinality(DipBefore(h, k)) \in Nat
           /\ (Cardinality(DipBefore(h, k)) = 0 <=> DipBefore(h, k) = {})
<1>1. DipBefore(h, k) \subseteq 1..(k - 1)
  BY DEF DipBefore
<1>2. QED
  BY <1>1, PlacesFinite, FS_EmptySet

\* Another measurement adds the blink it ends, if it ends one.
LEMMA BlinksAdd ==
    ASSUME NEW h \in Seq(Int), NEW ear \in Int
    PROVE  BlinksOf(Append(h, ear)) = BlinksOf(h) +
              (IF /\ ear > OpenThr
                  /\ Cardinality(DipBefore(h, Len(h) + 1)) \in MinClosed..MaxClosed
               THEN 1 ELSE 0)
           /\ BlinksOf(h) \in Nat
<1> DEFINE g == Append(h, ear)
           n == Len(h)
           old == {k \in 1..n : BlinkAt(h, k)}
           new == {k \in 1..(n + 1) : BlinkAt(g, k)}
           b == ear > OpenThr /\ Cardinality(DipBefore(h, n + 1)) \in MinClosed..MaxClosed
<1>1. n \in Nat /\ Len(g) = n + 1 /\ g[n + 1] = ear /\ \A j \in 1..n : g[j] = h[j]
  BY AppendFacts
<1>2. BlinksOf(h) = Cardinality(old) /\ BlinksOf(g) = Cardinality(new)
  BY <1>1, BlinksAre
<1>3. \A k \in 1..n : BlinkAt(g, k) <=> BlinkAt(h, k)
  <2> SUFFICES ASSUME NEW k \in 1..n
               PROVE  BlinkAt(g, k) <=> BlinkAt(h, k)
    OBVIOUS
  <2>1. DipBefore(g, k) = DipBefore(h, k)
    BY <1>1, DipStays
  <2>2. g[k] = h[k]
    BY <1>1
  <2>3. QED
    BY <2>1, <2>2 DEF BlinkAt
<1>4. BlinkAt(g, n + 1) <=> b
  <2>1. DipBefore(g, n + 1) = DipBefore(h, n + 1)
    BY <1>1, DipStays
  <2>2. QED
    BY <1>1, <2>1 DEF BlinkAt
<1>5. IsFiniteSet(old) /\ Cardinality(old) \in Nat /\ n + 1 \notin old
  <2>1. old \subseteq 1..n /\ n + 1 \notin 1..n
    BY <1>1
  <2>2. 1 \in Int /\ n \in Int
    BY <1>1
  <2> HIDE DEF old, n
  <2>3. IsFiniteSet(old) /\ Cardinality(old) \in Nat
    BY <2>1, <2>2, PlacesFinite
  <2>4. QED
    BY <2>1, <2>3
<1>6. new = old \cup (IF b THEN {n + 1} ELSE {})
  <2>1. 1..(n + 1) = (1..n) \cup {n + 1}
    BY <1>1
  <2> HIDE DEF g, b, n
  <2>2. QED
    BY <1>3, <1>4, <2>1, Zenon
<1>7. b \in BOOLEAN
  BY DEF b
<1>8. Cardinality(new) = Cardinality(old) + (IF b THEN 1 ELSE 0)
  <2> HIDE DEF old, new, b, n
  <2> QED  BY <1>5, <1>6, <1>7, CountAdds
<1>9. QED
  BY <1>2, <1>5, <1>8

\* The detector's step keeps what its counters say of the history.
LEMMA BlinkKeeps ==
    ASSUME NEW e, EyesKept(e), NEW ear \in Int
    PROVE  EyesKept(Blink(e, ear)) /\ Blink(e, ear).blinks >= e.blinks
<1> DEFINE h == e.history
           n == Len(h)
           dip == DipBefore(h, n + 1)
           shuts == ear < ClosedThr
           opens == ear > OpenThr /\ e.closed
           b == Blink(e, ear)
           c == Cardinality(dip)
<1>1. /\ h \in Seq(Int) /\ n \in Nat /\ e.blinks \in Nat /\ e.run = c
      /\ (e.closed <=> dip # {}) /\ e.blinks = BlinksOf(h)
  BY DEF EyesKept
<1>2. /\ b.history = Append(h, ear)
      /\ b.run = IF shuts THEN e.run + 1 ELSE IF opens THEN 0 ELSE e.run
      /\ b.blinks = IF opens /\ e.run \in MinClosed..MaxClosed THEN e.blinks + 1 ELSE e.blinks
      /\ b.closed <=> (shuts \/ e.closed) /\ ~opens
  <2>1. b = [history |-> Append(e.history, ear),
             run     |-> IF shuts THEN e.run + 1 ELSE IF opens THEN 0 ELSE e.run,
             closed  |-> (shuts \/ e.closed) /\ ~opens,
             blinks  |-> IF opens /\ e.run \in MinClosed..MaxClosed
                         THEN e.blinks + 1 ELSE e.blinks]
    BY Zenon DEF Blink
  <2> HIDE DEF b, opens, shuts
  <2>2. /\ b.history = Append(h, ear)
        /\ b.run = IF shuts THEN e.run + 1 ELSE IF opens THEN 0 ELSE e.run
        /\ b.blinks = IF opens /\ e.run \in MinClosed..MaxClosed THEN e.blinks + 1 ELSE e.blinks
    BY <2>1
  <2>3. b.closed = ((shuts \/ e.closed) /\ ~opens)
    BY <2>1, Zenon
  <2>4. QED
    BY <2>2, <2>3, Zenon
<1>3. IsFiniteSet(dip) /\ c \in Nat /\ (c = 0 <=> dip = {})
  <2>1. h \in Seq(Int) /\ n + 1 \in Int
    BY <1>1
  <2> HIDE DEF h, n
  <2>2. QED
    BY <2>1, DipFinite
<1> DEFINE new == DipBefore(Append(h, ear), n + 2)
<1>4. new = IF ear > OpenThr THEN {} ELSE dip \cup (IF shuts THEN {n + 1} ELSE {})
  BY <1>1, DipGoesOn
<1>5. n + 1 \notin dip
  BY <1>1 DEF DipBefore
<1>6. Append(h, ear) \in Seq(Int) /\ Len(Append(h, ear)) + 1 = n + 2
  BY <1>1
<1>7. BlinksOf(Append(h, ear)) = BlinksOf(h) +
         (IF ear > OpenThr /\ c \in MinClosed..MaxClosed THEN 1 ELSE 0)
  BY <1>1, BlinksAdd
<1>8. opens <=> ear > OpenThr /\ c # 0
  BY <1>1, <1>3
<1> HIDE DEF opens, b, c, dip, new, h, n
<1>9. b.blinks = BlinksOf(b.history) /\ b.blinks \in Nat /\ b.blinks >= e.blinks
  <2>1. c \in MinClosed..MaxClosed => c # 0
    BY <1>3, ScanAssumption
  <2>2. QED
    BY <1>1, <1>2, <1>7, <1>8, <2>1
<1>10. b.run = Cardinality(new) /\ b.run \in Nat
  <2>1. CASE ear > OpenThr
    <3>1. Cardinality(new) = 0 /\ ~shuts
      BY <1>4, <2>1, FS_EmptySet DEF ClosedThr, OpenThr
    <3>2. QED
      BY <1>1, <1>2, <1>3, <1>8, <2>1, <3>1
  <2>2. CASE ~(ear > OpenThr) /\ shuts
    <3>1. Cardinality(new) = c + 1
      BY <1>3, <1>4, <1>5, <2>2, FS_AddElement DEF c
    <3>2. QED
      BY <1>1, <1>2, <1>3, <2>2, <3>1
  <2>3. CASE ~(ear > OpenThr) /\ ~shuts
    <3>1. new = dip
      BY <1>4, <2>3
    <3>2. QED
      BY <1>1, <1>2, <1>3, <1>8, <2>3, <3>1 DEF c
  <2>4. QED
    BY <2>1, <2>2, <2>3
<1>11. b.closed <=> new # {}
  <2>1. shuts => ~(ear > OpenThr)
    BY DEF ClosedThr, OpenThr
  <2>2. QED
    BY <1>1, <1>2, <1>3, <1>4, <1>8, <2>1
<1>12. QED
  BY <1>2, <1>6, <1>9, <1>10, <1>11 DEF EyesKept, b, new

-----------------------------------------------------------------------------
(* What a step may do.                                                     *)

evidence == <<cfg, gear, moireQ, hits, moires, eyes, planar, chal, poses, deny, confirm>>

\* The challenge is shown another frame.
Posed(f) ==
    /\ cfg.challenge
    /\ chal' = IF chal.t0 = None
               THEN StartChallenge(chal, f, eyes'.blinks, clock')
               ELSE UpdateChallenge(chal, f, eyes'.blinks, clock')
    /\ poses' = Append(poses, [t |-> clock', yaw |-> f.yaw, pitch |-> f.pitch,
                               blinks |-> eyes'.blinks])

\* Evidence is gathered of a usable frame, to its end or to where it broke.
Gathers(f) ==
    /\ pc = "run" /\ Usable(f) /\ Collect(f)
    /\ UNCHANGED <<cfg, gear>>
    /\ eyes' = Blink(eyes, f.ear) \/ UNCHANGED eyes
    /\ planar' = Planar(planar, f) \/ UNCHANGED planar
    /\ Posed(f) \/ UNCHANGED <<chal, poses>>
    /\ pc' = "run" => deny' = {}

LEMMA StepKinds ==
    ASSUME [Next]_vars
    PROVE  \/ UNCHANGED evidence /\ (pc' = "run" => pc = "run")
           \/ \E f \in Frames : Gathers(f)
<1>1. CASE \E f \in Frames : Skip(f)
  BY <1>1 DEF Skip, Arrives, evidence
<1>2. ASSUME NEW f \in Frames, Use(f)
      PROVE  Gathers(f)
  <2>1. pc = "run" /\ Usable(f) /\ Collect(f) /\ UNCHANGED <<cfg, gear>>
    BY <1>2 DEF Use, Arrives
  <2>2. /\ eyes' = Blink(eyes, f.ear) \/ UNCHANGED eyes
        /\ planar' = Planar(planar, f) \/ UNCHANGED planar
    BY <1>2 DEF Use, Landmarks
  <2>3. Posed(f) \/ UNCHANGED <<chal, poses>>
    BY <1>2 DEF Use, Challenge, Posed
  <2>4. pc' = "run" => deny' = {}
    BY <1>2 DEF Use, Enough
  <2>5. QED
    BY <2>1, <2>2, <2>3, <2>4 DEF Gathers
<1>3. ASSUME NEW f \in Frames, Breaks(f)
      PROVE  Gathers(f) \/ (UNCHANGED evidence /\ (pc' = "run" => pc = "run"))
  <2>1. pc = "run" /\ Usable(f) /\ UNCHANGED <<cfg, gear>> /\ pc' = "worker"
    BY <1>3 DEF Breaks, Arrives
  <2>2. CASE UNCHANGED <<moireQ, hits, eyes, planar, chal, deny, confirm, moires, poses>>
    BY <2>1, <2>2 DEF evidence
  <2>3. CASE /\ Dense(f) /\ eyes' = Blink(eyes, f.ear)
             /\ UNCHANGED <<planar, chal, poses>>
             /\ Collect(f)
    BY <2>1, <2>3 DEF Gathers
  <2>4. CASE Landmarks(f) /\ Challenge(f) /\ Collect(f)
    <3>1. /\ eyes' = Blink(eyes, f.ear) \/ UNCHANGED eyes
          /\ planar' = Planar(planar, f) \/ UNCHANGED planar
      BY <2>4 DEF Landmarks
    <3>2. Posed(f) \/ UNCHANGED <<chal, poses>>
      BY <2>4 DEF Challenge, Posed
    <3>3. QED
      BY <2>1, <2>4, <3>1, <3>2 DEF Gathers
  <2>5. QED
    BY <1>3, <2>2, <2>3, <2>4 DEF Breaks
<1>4. CASE Raises \/ Timeout \/ CameraFails \/ Judge
  BY <1>4 DEF Raises, Timeout, CameraFails, Ends, Judge, evidence
<1>5. CASE UNCHANGED vars
  BY <1>5 DEF vars, evidence
<1>6. QED
  BY <1>1, <1>2, <1>3, <1>4, <1>5 DEF Next

-----------------------------------------------------------------------------
(* Counters.                                                               *)

LEMMA PostInitSound ==
    ASSUME NEW raw \in Configs
    PROVE  Sound(PostInit(raw))
<1> DEFINE Or(x, d) == IF x = 0 THEN d ELSE x
           n == Or(raw.moireFrames, 5)
           k == Or(raw.moireRequired, 3)
           least == IF k > n THEN n ELSE k
           c == [raw EXCEPT !.maxEmbeddings = Or(@, 1), !.minEmbeddings = Or(@, 1),
                            !.embedEvery = Or(@, 1), !.moireFrames = n, !.moireRequired = least]
<1>1. c = PostInit(raw)
  BY DEF PostInit
<1>2. n \in Positive /\ k \in Positive
  BY DEF Configs, Positive
<1>3. least \in 1..n /\ least \in Nat
  BY <1>2 DEF Positive
<1>4. /\ Or(raw.maxEmbeddings, 1) \in Positive /\ Or(raw.minEmbeddings, 1) \in Positive
      /\ Or(raw.embedEvery, 1) \in Positive
  BY DEF Configs, Positive
<1> HIDE DEF n, k, least, Or
<1>5. /\ c \in Configs /\ c.maxEmbeddings = Or(raw.maxEmbeddings, 1)
      /\ c.minEmbeddings = Or(raw.minEmbeddings, 1) /\ c.embedEvery = Or(raw.embedEvery, 1)
      /\ c.moireFrames = n /\ c.moireRequired = least
  BY <1>2, <1>3, <1>4 DEF Configs, Positive
<1>6. QED
  BY <1>1, <1>2, <1>3, <1>4, <1>5 DEF Sound

\* One more usable frame makes one more embedding due exactly at every multiple.
LEMMA DueAgain ==
    ASSUME NEW n \in Nat, NEW e \in Positive
    PROVE  /\ (n + 1) \div e >= n \div e /\ n \div e \in Nat
           /\ (n + 1) % e = 0 => (n + 1) \div e = n \div e + 1
<1> DEFINE q == n \div e
           r == n % e
           p == (n + 1) \div e
           t == (n + 1) % e
<1>1. /\ q \in Int /\ r \in 0..(e - 1) /\ n = e * q + r
      /\ p \in Int /\ t \in 0..(e - 1) /\ n + 1 = e * p + t
  BY DEF Positive
<1>2. e * p + t = e * q + r + 1
  BY <1>1
<1> HIDE DEF q, r, p, t
<1>3. e \in Int /\ e >= 1
  BY DEF Positive
<1>4. q >= 0
  <2>1. CASE q <= -1
    <3>1. e * q <= -e
      BY <1>1, <1>3, <2>1
    <3>2. QED
      BY <1>1, <1>3, <3>1
  <2>2. QED
    BY <1>1, <2>1
<1>5. p >= q
  <2>1. CASE p <= q - 1
    <3>1. e * p <= e * (q - 1) /\ e * (q - 1) = e * q - e
      BY <1>1, <1>3, <2>1
    <3>2. QED
      BY <1>1, <1>2, <1>3, <3>1
  <2>2. QED
    BY <1>1, <2>1
<1>6. t = 0 => p = q + 1
  <2>1. CASE t = 0 /\ p >= q + 2
    <3>1. e * p >= e * (q + 2) /\ e * (q + 2) = e * q + e + e
      BY <1>1, <1>3, <2>1
    <3>2. QED
      BY <1>1, <1>2, <1>3, <2>1, <3>1
  <2>2. CASE t = 0 /\ p = q
    <3>1. e * p = e * q
      BY <2>2
    <3>2. e * q \in Int
      BY <1>1, <1>3
    <3>3. QED
      BY <1>1, <1>2, <2>2, <3>1, <3>2
  <2>3. QED
    BY <1>1, <1>5, <2>1, <2>2
<1>7. QED
  BY <1>1, <1>4, <1>5, <1>6 DEF q, p, t

LEMMA CountersPreserved ==
    ASSUME Counters, Embedded, [Next]_vars
    PROVE  Counters' /\ Embedded'
<1> USE DEF Counters
<1>1. /\ usable \div cfg.embedEvery \in Nat
      /\ (usable + 1) \div cfg.embedEvery >= usable \div cfg.embedEvery
      /\ (usable + 1) % cfg.embedEvery = 0 =>
            (usable + 1) \div cfg.embedEvery = usable \div cfg.embedEvery + 1
      /\ (usable + 1) \div cfg.embedEvery \in Nat
  BY DueAgain DEF Sound
<1>2. cfg.maxEmbeddings \in Nat
  BY DEF Sound, Positive
<1>3. MaxFrames \in Nat
  BY ScanAssumption
<1>4. ASSUME NEW f \in Frames, Arrives(f)
      PROVE  /\ frames' = frames + 1 /\ frames' <= MaxFrames /\ frames' \in Nat
             /\ clock' \in Nat /\ cfg' = cfg
  BY <1>3, <1>4 DEF Arrives
<1>5. ASSUME NEW f \in Frames, Skip(f)
      PROVE  Counters' /\ Embedded'
  <2>1. UNCHANGED <<pc, usable, embeddings>> /\ Arrives(f)
    BY <1>5 DEF Skip
  <2>2. QED
    BY <1>3, <1>4, <2>1 DEF Embedded
<1>6. ASSUME NEW f \in Frames, Use(f)
      PROVE  Counters' /\ Embedded'
  <2>1. /\ Arrives(f) /\ usable' = usable + 1 /\ pc' \in {"enough", "run"}
        /\ embeddings' = IF /\ usable' % cfg.embedEvery = 0
                            /\ embeddings < cfg.maxEmbeddings
                            /\ f.crop
                         THEN embeddings + 1 ELSE embeddings
    BY <1>6 DEF Use, Collect, Embed
  <2>2. \/ embeddings' = embeddings
        \/ /\ embeddings' = embeddings + 1 /\ embeddings < cfg.maxEmbeddings
           /\ (usable + 1) % cfg.embedEvery = 0
    BY <2>1
  <2>3. /\ embeddings' \in Nat /\ embeddings' <= cfg.maxEmbeddings
        /\ embeddings' <= (usable + 1) \div cfg.embedEvery
    BY <1>1, <1>2, <2>2 DEF Embedded
  <2>4. QED
    BY <1>3, <1>4, <2>1, <2>3 DEF Embedded
<1>7. ASSUME NEW f \in Frames, Breaks(f)
      PROVE  Counters' /\ Embedded'
  <2>1. Arrives(f) /\ pc' = "worker" /\ UNCHANGED embeddings /\ usable' = usable + 1
    BY <1>7 DEF Breaks, Collect
  <2>2. embeddings <= (usable + 1) \div cfg.embedEvery
    BY <1>1 DEF Embedded
  <2>3. QED
    BY <1>3, <1>4, <2>1, <2>2 DEF Embedded
<1>8. CASE Raises
  BY <1>3, <1>8 DEF Raises, Embedded
<1>9. CASE Timeout \/ CameraFails
  BY <1>9 DEF Timeout, CameraFails, Ends, Embedded
<1>10. CASE Judge
  BY <1>10 DEF Judge, Embedded
<1>11. CASE UNCHANGED vars
  BY <1>11 DEF vars, Embedded
<1>12. QED
  BY <1>5, <1>6, <1>7, <1>8, <1>9, <1>10, <1>11 DEF Next

-----------------------------------------------------------------------------
(* The evidence.                                                           *)

\* hits is never negative, nor more than the window holds.
LEMMA HitsBounds ==
    ASSUME NEW q, NEW h, NEW ms, NEW n \in Positive, Windowed(q, h, ms, n)
    PROVE  h \in 0..Len(q) /\ (ms = <<>> => h = 0)
<1>1. /\ q \in Seq(BOOLEAN) /\ ms \in Seq(BOOLEAN)
      /\ h = Cardinality(HitsOf(ms, Len(q)))
      /\ Len(q) = Least(Len(ms), n)
  BY DEF Windowed
<1> DEFINE a == Len(ms) - Len(q) + 1
           b == Len(ms)
<1>2. a \in Int /\ b \in Int /\ Len(q) \in Nat /\ b \in Nat
  BY <1>1
<1>3. HitsOf(ms, Len(q)) \subseteq a..b
  BY DEF HitsOf
<1>4. Cardinality(a..b) = Len(q) /\ IsFiniteSet(a..b)
  <2>1. Cardinality(a..b) = (IF a > b THEN 0 ELSE b - a + 1) /\ IsFiniteSet(a..b)
    <3> HIDE DEF a, b
    <3> QED  BY <1>2, FS_Interval
  <2>2. QED
    BY <1>1, <1>2, <2>1
<1>5. h \in Nat /\ h <= Cardinality(a..b)
  <2> HIDE DEF a, b
  <2> QED  BY <1>1, <1>2, <1>3, <1>4, FS_Subset, FS_CardinalityType
<1>6. h \in 0..Len(q)
  BY <1>2, <1>4, <1>5
<1>7. ms = <<>> => Len(q) = 0
  BY <1>1 DEF Least, Positive
<1>8. QED
  BY <1>2, <1>6, <1>7

LEMMA MoirePreserved ==
    ASSUME Counters, MoireKept, NEW f \in Frames, Gathers(f)
    PROVE  MoireKept'
<1> DEFINE n == cfg.moireFrames
           hit == MoireHit(f)
           q == Append(moireQ, hit)
           full == Len(q) > n
<1>1. cfg' = cfg /\ Collect(f)
  BY DEF Gathers
<1>2. CASE cfg.mode = "ir"
  <2>1. UNCHANGED <<moireQ, hits, moires>>
    BY <1>1, <1>2 DEF Collect
  <2>2. QED
    BY <1>1, <2>1 DEF MoireKept
<1>3. CASE cfg.mode # "ir"
  <2>1. /\ moires' = Append(moires, hit)
        /\ moireQ' = IF full THEN Tail(q) ELSE q
        /\ hits' = hits + (IF hit THEN 1 ELSE 0) - (IF full /\ Head(q) THEN 1 ELSE 0)
    BY <1>1, <1>3, Zenon DEF Collect, Push
  <2>2. hit \in BOOLEAN
    BY DEF MoireHit
  <2>3. n \in Positive /\ Windowed(moireQ, hits, moires, n) /\ moireQ \in Seq(BOOLEAN)
    BY DEF Counters, Sound, MoireKept, Windowed
  <2> HIDE DEF hit
  <2>4. Len(q) = Len(moireQ) + 1
    BY <2>2, <2>3, AppendFacts
  <2>5. CASE full
    <3>1. Windowed(Tail(q), hits + (IF hit THEN 1 ELSE 0) - (IF Head(q) THEN 1 ELSE 0),
                   Append(moires, hit), n)
      BY <2>2, <2>3, <2>4, <2>5, WindowSlides
    <3>2. Windowed(moireQ', hits', moires', n)
      BY <2>1, <2>5, <3>1, Zenon
    <3>3. QED
      BY <1>1, <1>3, <3>2 DEF MoireKept
  <2>6. CASE ~full
    <3>1. Windowed(q, hits + (IF hit THEN 1 ELSE 0), Append(moires, hit), n)
      <4>1. Len(moireQ) + 1 <= n
        BY <2>3, <2>4, <2>6 DEF Positive
      <4>2. QED
        BY <2>2, <2>3, <4>1, WindowFills
    <3>2. (IF hit THEN 1 ELSE 0) - 0 = (IF hit THEN 1 ELSE 0)
      OBVIOUS
    <3>3. hits \in Nat
      BY <2>3, HitsBounds
    <3>4. moireQ' = q /\ hits' = hits + (IF hit THEN 1 ELSE 0)
      <4> DEFINE up == IF hit THEN 1 ELSE 0
      <4>1. moireQ' = q /\ hits' = hits + up - 0
        BY <2>1, <2>6, Zenon
      <4>2. up \in Int
        OBVIOUS
      <4> HIDE DEF up
      <4>3. hits' = hits + up
        BY <3>3, <4>1, <4>2
      <4>4. QED
        BY <4>1, <4>3 DEF up
    <3>5. Windowed(moireQ', hits', moires', n)
      BY <2>1, <3>1, <3>4, Zenon
    <3>6. QED
      BY <1>1, <1>3, <3>5 DEF MoireKept
  <2>7. QED
    BY <2>5, <2>6
<1>4. QED
  BY <1>2, <1>3

LEMMA EyesPreserved ==
    ASSUME EyesKept(eyes), NEW f \in Frames, Gathers(f)
    PROVE  EyesKept(eyes') /\ eyes'.blinks >= eyes.blinks
<1>1. f.ear \in Int
  BY ScanAssumption DEF IsFrame
<1>2. EyesKept(Blink(eyes, f.ear)) /\ Blink(eyes, f.ear).blinks >= eyes.blinks
  BY <1>1, BlinkKeeps
<1>3. eyes.blinks >= eyes.blinks
  BY DEF EyesKept
<1>4. QED
  BY <1>2, <1>3 DEF Gathers

\* The largest residual only grows.
LEMMA PlanarPreserved ==
    ASSUME PlanarTyped, NEW f \in Frames, Gathers(f)
    PROVE  PlanarTyped' /\ planar'.best >= planar.best
<1>1. f.yaw \in Int /\ (f.resid = None \/ f.resid \in 0..2)
  BY ScanAssumption DEF IsFrame
<1>2. CASE UNCHANGED planar
  BY <1>2 DEF PlanarTyped
<1>3. CASE planar' = Planar(planar, f)
  <2>1. \/ planar' = planar
        \/ planar' = [planar EXCEPT !.ref = f.yaw]
        \/ /\ f.resid # None
           /\ planar' = [planar EXCEPT !.best = IF f.resid > @ THEN f.resid ELSE @]
    BY <1>3 DEF Planar
  <2>2. QED
    BY <1>1, <2>1 DEF PlanarTyped
<1>4. QED
  BY <1>2, <1>3 DEF Gathers

\* What was earned by an earlier pose stays earned.
LEMMA EarnedStays ==
    ASSUME NEW kind, NEW ps \in Seq(Pose), NEW p \in Pose, NEW i \in 2..Len(ps),
           Earned(kind, ps, i)
    PROVE  Earned(kind, Append(ps, p), i) /\ i \in 2..Len(Append(ps, p))
<1>1. Append(ps, p)[i] = ps[i] /\ Append(ps, p)[1] = ps[1] /\ i \in 2..Len(Append(ps, p))
  OBVIOUS
<1>2. QED
  BY <1>1 DEF Earned

LEMMA ChallengePreserved ==
    ASSUME Counters, Counters', EyesKept(eyes'), ChallengeKept, NEW f \in Frames, Gathers(f)
    PROVE  ChallengeKept' /\ (chal.passed => chal'.passed)
<1> DEFINE Chal == [kind : Challenges \cup {None}, t0 : Int \cup {None}, yaw : Int, pitch : Int,
                    blinks : Int, passed : BOOLEAN]
           p == [t |-> clock', yaw |-> f.yaw, pitch |-> f.pitch, blinks |-> eyes'.blinks]
<1>1. CASE UNCHANGED <<chal, poses>>
  BY <1>1 DEF ChallengeKept, Gathers
<1>2. CASE Posed(f)
  <2>1. f.yaw \in Int /\ f.pitch \in Int /\ clock' \in Nat /\ eyes'.blinks \in Nat
        /\ None \notin Int
    BY ScanAssumption DEF IsFrame, Counters, EyesKept
  <2>2. p \in Pose /\ p.t = clock' /\ p.yaw = f.yaw /\ p.pitch = f.pitch /\ p.blinks = eyes'.blinks
    BY <2>1 DEF Pose
  <2>3. cfg' = cfg /\ cfg.challenge
    BY <1>2 DEF Gathers, Posed
  <2>4. chal \in Chal /\ poses \in Seq(Pose) /\ chal.kind \in Challenges
    BY <2>3 DEF ChallengeKept
  <2>5. poses' = Append(poses, p)
    BY <1>2 DEF Posed
  <2> HIDE DEF p
  <2>6. poses' \in Seq(Pose) /\ Len(poses') = Len(poses) + 1 /\ Len(poses) \in Nat
        /\ poses'[Len(poses) + 1] = p /\ \A i \in 1..Len(poses) : poses'[i] = poses[i]
    BY <2>2, <2>4, <2>5, AppendFacts
  <2>7. poses' # <<>>
    BY <2>6
  <2>8. CASE chal.t0 = None
    <3>1. chal' = [chal EXCEPT !.t0 = clock', !.yaw = f.yaw, !.pitch = f.pitch, !.blinks = eyes'.blinks]
      BY <1>2, <2>8 DEF Posed, StartChallenge
    <3>2. poses = <<>>
      <4>1. poses # <<>> => poses[1] \in Pose
        BY <2>4
      <4>2. QED
        BY <2>1, <2>8, <4>1 DEF ChallengeKept, Pose
    <3>3. ~chal.passed
      BY <3>2 DEF ChallengeKept
    <3>4. /\ chal' \in Chal /\ chal'.kind = chal.kind /\ ~chal'.passed
          /\ chal'.t0 = clock' /\ chal'.yaw = f.yaw /\ chal'.pitch = f.pitch
          /\ chal'.blinks = eyes'.blinks
      <4>1. chal' \in Chal
        <5> DEFINE since == clock'
                   shut == eyes'.blinks
        <5>1. /\ since \in Int \cup {None} /\ shut \in Int /\ f.yaw \in Int /\ f.pitch \in Int
              /\ chal' = [chal EXCEPT !.t0 = since, !.yaw = f.yaw, !.pitch = f.pitch, !.blinks = shut]
          BY <2>1, <3>1
        <5> HIDE DEF since, shut
        <5>2. QED
          BY <2>4, <5>1
      <4>2. /\ chal'.kind = chal.kind /\ chal'.t0 = clock' /\ chal'.yaw = f.yaw
            /\ chal'.pitch = f.pitch /\ chal'.blinks = eyes'.blinks
        BY <2>4, <3>1
      <4>3. chal'.passed <=> chal.passed
        BY <2>4, <3>1, Zenon
      <4>4. QED
        BY <3>3, <4>1, <4>2, <4>3
    <3>5. poses'[1] = p
      BY <2>6, <3>2
    <3>6. QED
      BY <2>2, <2>3, <2>4, <2>6, <2>7, <3>3, <3>4, <3>5 DEF ChallengeKept
  <2>9. CASE chal.t0 # None
    <3> DEFINE met == clock' - chal.t0 <= Window /\ Met(chal, f.yaw, f.pitch, eyes'.blinks)
               now == chal.passed \/ met
    <3>1. chal' = [chal EXCEPT !.passed = now]
      BY <1>2, <2>9 DEF Posed, UpdateChallenge
    <3>2. now \in BOOLEAN
      OBVIOUS
    <3>3. /\ chal' \in Chal /\ chal'.kind = chal.kind /\ chal'.t0 = chal.t0
          /\ chal'.yaw = chal.yaw /\ chal'.pitch = chal.pitch /\ chal'.blinks = chal.blinks
          /\ chal'.passed = now
      <4> HIDE DEF now
      <4> QED  BY <2>4, <3>1, <3>2
    <3>4. poses # <<>>
      BY <2>9 DEF ChallengeKept
    <3>5. /\ poses'[1] = poses[1] /\ Len(poses) >= 1
          /\ chal.t0 = poses[1].t /\ chal.yaw = poses[1].yaw
          /\ chal.pitch = poses[1].pitch /\ chal.blinks = poses[1].blinks
          /\ poses[1] \in Pose
      <4>1. Len(poses) >= 1
        BY <2>4, <3>4
      <4>2. QED
        BY <2>4, <2>6, <3>4, <4>1 DEF ChallengeKept
    <3>6. ASSUME chal.passed
          PROVE  \E i \in 2..Len(poses') : Earned(chal.kind, poses', i)
      BY <2>2, <2>4, <2>5, <3>6, EarnedStays DEF ChallengeKept
    <3>7. ASSUME met
          PROVE  \E i \in 2..Len(poses') : Earned(chal.kind, poses', i)
      <4> DEFINE i == Len(poses) + 1
      <4>1. i \in 2..Len(poses') /\ poses'[i] = p
        BY <2>6, <3>5
      <4>2. p.t - poses'[1].t <= Window
        BY <2>2, <3>5, <3>7
      <4>3. Met(chal, p.yaw, p.pitch, p.blinks)
        BY <2>2, <3>7
      <4>4. /\ chal.yaw \in Int /\ chal.pitch \in Int /\ chal.blinks \in Int
            /\ p.yaw \in Int /\ p.pitch \in Int /\ p.blinks \in Nat
        BY <2>1, <2>2, <2>4
      <4>5. CASE chal.kind = "turn_left"
        <5>1. p.yaw < poses'[1].yaw
          BY <3>5, <4>3, <4>4, <4>5 DEF Met, YawDelta
        <5>2. QED
          BY <4>1, <4>2, <4>5, <5>1 DEF Earned
      <4>6. CASE chal.kind = "turn_right"
        <5>1. p.yaw > poses'[1].yaw
          BY <3>5, <4>3, <4>4, <4>6 DEF Met, YawDelta
        <5>2. QED
          BY <4>1, <4>2, <4>6, <5>1 DEF Earned
      <4>7. CASE chal.kind = "look_up"
        <5>1. p.pitch < poses'[1].pitch
          BY <3>5, <4>3, <4>4, <4>7 DEF Met, PitchDelta
        <5>2. QED
          BY <4>1, <4>2, <4>7, <5>1 DEF Earned
      <4>8. CASE chal.kind = "blink_twice"
        <5>1. p.blinks > poses'[1].blinks + 1
          BY <3>5, <4>3, <4>4, <4>8 DEF Met
        <5>2. QED
          BY <4>1, <4>2, <4>8, <5>1 DEF Earned
      <4>9. QED
        BY <2>4, <4>5, <4>6, <4>7, <4>8 DEF Challenges
    <3>8. chal'.passed => \E i \in 2..Len(poses') : Earned(chal'.kind, poses', i)
      <4>1. chal'.passed => chal.passed \/ met
        BY <3>3
      <4> HIDE DEF met, now
      <4>2. QED
        BY <3>3, <3>6, <3>7, <4>1
    <3>9. chal.passed => chal'.passed
      BY <3>3
    <3>10. QED
      <4> HIDE DEF met, now
      <4>1. ChallengeKept'
        BY <2>3, <2>4, <2>6, <2>7, <3>3, <3>5, <3>8 DEF ChallengeKept
      <4>2. QED
        BY <3>9, <4>1
  <2>10. QED
    BY <2>8, <2>9
<1>3. QED
  BY <1>1, <1>2 DEF Gathers

LEMMA DenyPreserved ==
    ASSUME Counters, MoireKept', PlanarTyped, PlanarTyped', DenyKept,
           NEW f \in Frames, Gathers(f)
    PROVE  DenyKept'
<1>1. deny' = DenyCues(f) /\ cfg' = cfg /\ (pc' = "run" => deny' = {})
  BY DEF Gathers, Collect, DenyKept
<1>2. f.screen \subseteq {"glare", "device_frame"}
  BY ScanAssumption DEF IsFrame
<1>3. /\ hits' \in 0..Len(moireQ') /\ (cfg.mode = "ir" => hits' = 0)
      /\ cfg.moireRequired \in Nat /\ cfg.moireRequired >= 1
  <2>1. /\ cfg.moireFrames \in Positive /\ cfg.moireRequired \in 1..cfg.moireFrames
        /\ Windowed(moireQ', hits', moires', cfg.moireFrames)
        /\ cfg.mode = "ir" => moires' = <<>>
    BY <1>1 DEF Counters, Sound, MoireKept
  <2>2. hits' \in 0..Len(moireQ') /\ (moires' = <<>> => hits' = 0)
    BY <2>1, HitsBounds
  <2>3. QED
    BY <2>1, <2>2 DEF Positive
<1>4. ("moire" \in deny') <=> (cfg.mode # "ir" /\ hits' >= cfg.moireRequired)
  BY <1>1, <1>2 DEF DenyCues
<1>5. ("moire" \in deny') <=> hits' >= cfg.moireRequired
  BY <1>3, <1>4
<1>6. "planar_photo" \in deny' => planar'.best = 0
  BY <1>1, <1>2 DEF DenyCues, Denies
<1>7. deny' \subseteq Cues
  BY <1>1, <1>2 DEF DenyCues, Cues
<1>8. QED
  BY <1>1, <1>5, <1>6, <1>7 DEF DenyKept

LEMMA ConfirmPreserved ==
    ASSUME EyesKept(eyes), EyesKept(eyes'), eyes'.blinks >= eyes.blinks,
           PlanarTyped, PlanarTyped', planar'.best >= planar.best,
           chal.passed => chal'.passed, ConfirmKept, NEW f \in Frames, Gathers(f)
    PROVE  ConfirmKept'
<1>1. confirm' = confirm \cup ConfirmCues(f)
  BY DEF Gathers, Collect
<1>2. ("blink" \in ConfirmCues(f)) <=> eyes'.blinks > 0
  BY DEF ConfirmCues
<1>3. "parallax" \in ConfirmCues(f) => planar'.best = 2
  BY DEF ConfirmCues, Confirms
<1>4. "challenge" \in ConfirmCues(f) => chal'.passed
  BY DEF ConfirmCues
<1>5. ConfirmCues(f) \subseteq Confirmations
  BY DEF ConfirmCues, Confirmations
<1>6. eyes.blinks \in Nat /\ eyes'.blinks \in Nat
  BY DEF EyesKept
<1>7. planar.best = 2 => planar'.best = 2
  BY DEF PlanarTyped
<1>8. QED
  BY <1>1, <1>2, <1>3, <1>4, <1>5, <1>6, <1>7 DEF ConfirmKept

-----------------------------------------------------------------------------
(* The preview and attention.                                              *)

LEMMA LastStatus ==
    ASSUME NEW S, NEW x \in S, NEW s \in Seq(S)
    PROVE  Last(<<x>> \o s) = IF s = <<>> THEN x ELSE s[Len(s)]
<1>1. <<x>> \in Seq(S) /\ Len(<<x>>) = 1 /\ <<x>>[1] = x
  OBVIOUS
<1>2. <<x>> \o s \in Seq(S) /\ Len(<<x>> \o s) = 1 + Len(s)
  BY <1>1
<1>3. Last(<<x>> \o s) = (<<x>> \o s)[1 + Len(s)]
  BY <1>2 DEF Last
<1>4. CASE s = <<>>
  BY <1>3, <1>4
<1>5. CASE s # <<>>
  <2>1. Len(s) \in Nat /\ Len(s) >= 1
    BY <1>5
  <2>2. (<<x>> \o s)[1 + Len(s)] = s[Len(s)]
    BY <2>1
  <2>3. QED
    BY <1>3, <1>5, <2>2
<1>6. QED
  BY <1>4, <1>5

\* A status goes out when it is not the one that was sent last.
LEMMA PreviewSends ==
    ASSUME ShownKept, NEW f \in Frames, Preview(f)
    PROVE  ShownKept' /\ (cfg.preview => shown' = StatusFor(f))
<1> DEFINE Statuses == {"acquiring", "good"}
<1>1. StatusFor(f) \in Statuses /\ told \in Seq(Statuses)
  BY DEF StatusFor, ShownKept
<1>2. CASE cfg.preview /\ StatusFor(f) # shown
  <2>1. told' = Append(told, StatusFor(f)) /\ shown' = StatusFor(f)
    BY <1>2 DEF Preview
  <2>2. told' \in Seq(Statuses) /\ Len(told') = Len(told) + 1 /\ Len(told) \in Nat
        /\ told'[Len(told) + 1] = StatusFor(f)
    BY <1>1, <2>1, AppendFacts
  <2>3. told' # <<>>
    BY <2>2
  <2>4. QED
    BY <2>1, <2>2, <2>3 DEF ShownKept
<1>3. CASE ~(cfg.preview /\ StatusFor(f) # shown)
  BY <1>3 DEF Preview, ShownKept
<1>4. QED
  BY <1>2, <1>3

LEMMA ShownPreserved ==
    ASSUME ShownKept, [Next]_vars
    PROVE  ShownKept'
<1>1. ASSUME NEW f \in Frames, Skip(f) \/ Use(f) \/ Breaks(f)
      PROVE  ShownKept'
  BY <1>1, PreviewSends DEF Skip, Use, Breaks, Arrives
<1>2. CASE Raises \/ Timeout \/ CameraFails \/ Judge \/ UNCHANGED vars
  BY <1>2 DEF Raises, Timeout, CameraFails, Ends, Judge, vars, ShownKept
<1>3. QED
  BY <1>1, <1>2 DEF Next

\* Five measurements of open eyes have an open mean, and so have fewer.
LEMMA ShutIsMeasured ==
    ASSUME NEW h \in Seq(Int), ~EyesOpen(h)
    PROVE  \E i \in 1..Len(h) : i > Len(h) - Tail5 /\ h[i] <= OpenThr
<1> DEFINE n == Len(h)
<1>1. n \in Nat /\ n >= 1 /\ ~(TailSum(h) > 25 * Measured(h))
  <2>1. h # <<>> /\ ~(TailSum(h) > 25 * Measured(h))
    BY DEF EyesOpen, OpenThr
  <2>2. QED
    BY <2>1
<1> SUFFICES ASSUME \A i \in 1..n : i > n - 5 => h[i] > 25
             PROVE  FALSE
  BY DEF Tail5, OpenThr
<1>2. \A i \in 1..n : h[i] \in Int
  OBVIOUS
<1> HIDE DEF n
<1>3. ASSUME NEW k \in 0..4
      PROVE  Ago(h, k) \in Int /\ (k < n => Ago(h, k) >= 26) /\ (k >= n => Ago(h, k) = 0)
  <2>1. Ago(h, k) = IF k < n THEN h[n - k] ELSE 0
    BY DEF Ago, n
  <2>2. CASE k < n
    <3>1. n - k \in 1..n /\ n - k > n - 5
      BY <1>1, <2>2
    <3>2. h[n - k] > 25 /\ h[n - k] \in Int
      BY <1>2, <3>1
    <3>3. QED
      BY <1>1, <2>1, <2>2, <3>2
  <2>3. CASE ~(k < n)
    BY <1>1, <2>1, <2>3
  <2>4. QED
    BY <2>2, <2>3
<1>4. /\ Ago(h, 0) \in Int /\ (0 < n => Ago(h, 0) >= 26) /\ (0 >= n => Ago(h, 0) = 0)
      /\ Ago(h, 1) \in Int /\ (1 < n => Ago(h, 1) >= 26) /\ (1 >= n => Ago(h, 1) = 0)
      /\ Ago(h, 2) \in Int /\ (2 < n => Ago(h, 2) >= 26) /\ (2 >= n => Ago(h, 2) = 0)
      /\ Ago(h, 3) \in Int /\ (3 < n => Ago(h, 3) >= 26) /\ (3 >= n => Ago(h, 3) = 0)
      /\ Ago(h, 4) \in Int /\ (4 < n => Ago(h, 4) >= 26) /\ (4 >= n => Ago(h, 4) = 0)
  BY <1>3
<1>5. Measured(h) = IF n < 5 THEN n ELSE 5
  BY DEF Measured, Least, Tail5, n
<1>6. TailSum(h) > 25 * Measured(h)
  <2>1. CASE n >= 5
    BY <1>1, <1>4, <1>5, <2>1 DEF TailSum
  <2>2. CASE n = 4
    BY <1>1, <1>4, <1>5, <2>2 DEF TailSum
  <2>3. CASE n = 3
    BY <1>1, <1>4, <1>5, <2>3 DEF TailSum
  <2>4. CASE n = 2
    BY <1>1, <1>4, <1>5, <2>4 DEF TailSum
  <2>5. CASE n = 1
    BY <1>1, <1>4, <1>5, <2>5 DEF TailSum
  <2>6. QED
    BY <1>1, <2>1, <2>2, <2>3, <2>4, <2>5
<1>7. QED
  BY <1>1, <1>6

\* Attention is judged when the scan is over, and the eyes are looked at before.
LEMMA AttentivePreserved ==
    ASSUME EyesKept(eyes), Attentive, [Next]_vars
    PROVE  Attentive'
<1>1. CASE Judge
  <2>1. pc # "run" /\ pc' = pc /\ eyes' = eyes
        /\ attention' = (gear.mesh => EyesOpen(eyes.history))
    BY <1>1 DEF Judge
  <2>2. eyes.history \in Seq(Int)
    BY DEF EyesKept
  <2>3. ~attention' => ~EyesOpen(eyes.history)
    BY <2>1, Zenon
  <2>4. AttentionMeasured'
    BY <2>1, <2>2, <2>3, ShutIsMeasured DEF AttentionMeasured
  <2>5. QED
    BY <2>1, <2>4 DEF Attentive
<1>2. CASE attention' = attention /\ (pc' = "run" => pc = "run") /\ (pc = "run" \/ eyes' = eyes)
  BY <1>2 DEF Attentive, AttentionMeasured
<1>3. ASSUME NEW f \in Frames, Skip(f) \/ Use(f) \/ Breaks(f)
      PROVE  attention' = attention /\ pc = "run"
  BY <1>3 DEF Skip, Use, Breaks, Arrives
<1>4. CASE Raises \/ Timeout \/ CameraFails
  BY <1>4 DEF Raises, Timeout, CameraFails, Ends, Attentive, AttentionMeasured
<1>5. CASE UNCHANGED vars
  BY <1>5 DEF vars, Attentive, AttentionMeasured
<1>6. QED
  BY <1>1, <1>2, <1>3, <1>4, <1>5 DEF Next

\* The flags of a scan are Booleans.
Flags == eyes.closed \in BOOLEAN /\ attention \in BOOLEAN

LEMMA FlagsPreserved ==
    ASSUME Flags, [Next]_vars
    PROVE  Flags'
<1>1. \A x : Blink(eyes, x).closed \in BOOLEAN
  BY Zenon DEF Blink
<1>2. eyes'.closed \in BOOLEAN
  <2>1. eyes' = eyes \/ \E f \in Frames : eyes' = Blink(eyes, f.ear)
    BY StepKinds DEF evidence, Gathers
  <2>2. QED
    BY <1>1, <2>1, Zenon DEF Flags
<1>3. attention' \in BOOLEAN
  <2>1. attention' = attention \/ attention' = (gear.mesh => EyesOpen(eyes.history))
    BY DEF Next, Skip, Use, Breaks, Arrives, Raises, Timeout, CameraFails, Ends, Judge, vars
  <2>2. QED
    BY <2>1, Zenon DEF Flags
<1>4. QED
  BY <1>2, <1>3 DEF Flags

-----------------------------------------------------------------------------
(* The invariant of a scan.                                                *)

Inv ==
    /\ Counters /\ Embedded
    /\ MoireKept /\ EyesKept(eyes) /\ PlanarTyped /\ ChallengeKept
    /\ DenyKept /\ ConfirmKept
    /\ ShownKept /\ Attentive /\ Flags

LEMMA InitInv ==
    ASSUME Init
    PROVE  Inv
<1>1. Sound(cfg)
  BY ScanAssumption, PostInitSound DEF Init
<1>2. Len(<<>>) = 0 /\ \A S : <<>> \in Seq(S)
  OBVIOUS
<1>3. Counters /\ Embedded
  <2>1. cfg.embedEvery \in Positive /\ cfg.maxEmbeddings \in Positive /\ MaxFrames \in Nat
    BY <1>1, ScanAssumption DEF Sound
  <2>2. 0 \div cfg.embedEvery \in Nat
    BY <2>1, DueAgain
  <2>3. QED
    BY <1>1, <2>1, <2>2 DEF Init, Counters, Embedded, Positive
<1>4. MoireKept
  <2>1. HitsOf(<<>>, 0) = {}
    BY <1>2 DEF HitsOf
  <2>2. Least(0, cfg.moireFrames) = 0
    BY <1>1 DEF Least, Sound, Positive
  <2>3. moireQ = <<>> /\ moires = <<>> /\ hits = 0
    BY DEF Init
  <2>4. Len(moireQ) = 0 /\ Len(moires) = 0 /\ moireQ \in Seq(BOOLEAN) /\ moires \in Seq(BOOLEAN)
    BY <1>2, <2>3
  <2>5. hits = Cardinality(HitsOf(moires, Len(moireQ)))
    BY <2>1, <2>3, <2>4, FS_EmptySet, Zenon
  <2>6. QED
    BY <2>2, <2>3, <2>4, <2>5 DEF MoireKept, Windowed
<1>5. EyesKept(eyes)
  <2>1. eyes.history = <<>> /\ eyes.blinks = 0 /\ eyes.run = 0 /\ ~eyes.closed
    BY DEF Init
  <2>2. DipBefore(<<>>, 1) = {} /\ BlinksOf(<<>>) = Cardinality({})
    BY <1>2 DEF DipBefore, BlinksOf
  <2>3. Len(eyes.history) + 1 = 1 /\ eyes.history \in Seq(Int)
    BY <1>2, <2>1
  <2>4. /\ DipBefore(eyes.history, Len(eyes.history) + 1) = {}
        /\ BlinksOf(eyes.history) = 0 /\ Cardinality({}) = 0
    BY <2>1, <2>2, <2>3, FS_EmptySet, Zenon
  <2>5. eyes.closed <=> DipBefore(eyes.history, Len(eyes.history) + 1) # {}
    BY <2>1, <2>4, Zenon
  <2>6. eyes.run = Cardinality(DipBefore(eyes.history, Len(eyes.history) + 1))
    BY <2>1, <2>4, Zenon
  <2>7. eyes.blinks = BlinksOf(eyes.history) /\ eyes.blinks \in Nat /\ eyes.run \in Nat
    BY <2>1, <2>4
  <2>8. QED
    BY <2>3, <2>5, <2>6, <2>7, Zenon DEF EyesKept
<1>6. PlanarTyped
  BY DEF Init, PlanarTyped
<1>7. ChallengeKept
  <2>1. PICK k \in IF cfg.challenge THEN Challenges ELSE {None} :
           chal = [kind |-> k, t0 |-> None, yaw |-> 0, pitch |-> 0, blinks |-> 0,
                   passed |-> FALSE]
    BY DEF Init
  <2>2. poses = <<>> /\ ~chal.passed /\ chal.t0 = None /\ (cfg.challenge => chal.kind \in Challenges)
    BY <2>1 DEF Init
  <2>3. k \in Challenges \cup {None}
    BY <2>1
  <2>4. chal \in [kind : Challenges \cup {None}, t0 : Int \cup {None}, yaw : Int, pitch : Int,
                  blinks : Int, passed : BOOLEAN]
    BY <2>1, <2>3
  <2>5. QED
    BY <1>2, <2>2, <2>4 DEF ChallengeKept
<1>8. DenyKept /\ ConfirmKept
  <2>1. hits = 0 /\ cfg.moireRequired \in 1..cfg.moireFrames /\ eyes.blinks = 0
    BY <1>1 DEF Init, Sound
  <2>2. QED
    BY <2>1 DEF Init, DenyKept, ConfirmKept
<1>9. ShownKept /\ Attentive
  BY <1>2 DEF Init, ShownKept, Attentive, AttentionMeasured
<1>10. Flags
  BY DEF Init, Flags
<1>11. QED
  BY <1>3, <1>4, <1>5, <1>6, <1>7, <1>8, <1>9, <1>10 DEF Inv

LEMMA NextInv ==
    ASSUME Inv, [Next]_vars
    PROVE  Inv'
<1> USE DEF Inv
<1>1. Counters' /\ Embedded'
  BY CountersPreserved
<1>2. ShownKept' /\ Attentive' /\ Flags'
  BY ShownPreserved, AttentivePreserved, FlagsPreserved
<1>3. CASE UNCHANGED evidence /\ (pc' = "run" => pc = "run")
  <2>1. MoireKept'
    BY <1>3 DEF evidence, MoireKept
  <2>2. EyesKept(eyes)' /\ PlanarTyped'
    BY <1>3 DEF evidence, PlanarTyped
  <2>3. ChallengeKept'
    BY <1>3 DEF evidence, ChallengeKept
  <2>4. DenyKept' /\ ConfirmKept'
    BY <1>3 DEF evidence, DenyKept, ConfirmKept
  <2>5. QED
    BY <1>1, <1>2, <2>1, <2>2, <2>3, <2>4
<1>4. ASSUME NEW f \in Frames, Gathers(f)
      PROVE  Inv'
  <2>1. MoireKept'
    BY <1>4, MoirePreserved
  <2>2. EyesKept(eyes') /\ eyes'.blinks >= eyes.blinks
    BY <1>4, EyesPreserved
  <2>3. PlanarTyped' /\ planar'.best >= planar.best
    BY <1>4, PlanarPreserved
  <2>4. ChallengeKept' /\ (chal.passed => chal'.passed)
    BY <1>1, <1>4, <2>2, ChallengePreserved
  <2>5. DenyKept'
    BY <1>4, <2>1, <2>3, DenyPreserved
  <2>6. ConfirmKept'
    BY <1>4, <2>2, <2>3, <2>4, ConfirmPreserved
  <2>7. QED
    BY <1>1, <1>2, <2>1, <2>2, <2>3, <2>4, <2>5, <2>6
<1>5. QED
  BY <1>3, <1>4, StepKinds

LEMMA ScanInvariant == Spec => []Inv
<1>1. Init => Inv
  BY InitInv
<1>2. Inv /\ [Next]_vars => Inv'
  BY NextInv
<1>3. QED
  BY <1>1, <1>2, PTL DEF Spec

-----------------------------------------------------------------------------
(* What a scan promises.                                                   *)

\* No counter of a scan overtakes what it counts, and every variable keeps its
\* type, whatever the frames and the request.
THEOREM TypeCorrect == Spec => []TypeOK
<1>1. Inv => TypeOK
  <2> SUFFICES ASSUME Inv
               PROVE  TypeOK
    OBVIOUS
  <2>1. /\ pc \in {"run", "enough", "time", "camera", "worker"}
        /\ embeddings <= usable \div cfg.embedEvery /\ usable <= frames /\ frames <= MaxFrames
        /\ embeddings <= cfg.maxEmbeddings
        /\ cfg.moireRequired \in 1..cfg.moireFrames
    BY DEF Inv, Counters, Embedded, Sound
  <2>2. moireQ \in Seq(BOOLEAN) /\ hits \in 0..Len(moireQ)
    <3>1. Windowed(moireQ, hits, moires, cfg.moireFrames) /\ cfg.moireFrames \in Positive
      BY DEF Inv, MoireKept, Counters, Sound
    <3>2. QED
      BY <3>1, HitsBounds DEF Windowed
  <2>3. eyes.blinks \in Nat /\ eyes.run \in Nat /\ planar.best \in -1..2
    BY DEF Inv, EyesKept, PlanarTyped
  <2>4. chal.kind \in Challenges \cup {None} /\ chal.passed \in BOOLEAN
    BY DEF Inv, ChallengeKept
  <2>5. deny \subseteq Cues /\ confirm \subseteq Confirmations
    BY DEF Inv, DenyKept, ConfirmKept
  <2>6. shown \in {"acquiring", "good"}
    <3>1. told # <<>> => told[Len(told)] \in {"acquiring", "good"}
      BY DEF Inv, ShownKept
    <3>2. QED
      BY <3>1 DEF Inv, ShownKept
  <2>7. eyes.closed \in BOOLEAN /\ attention \in BOOLEAN
    BY Zenon DEF Inv, Flags
  <2>8. QED
    BY <2>1, <2>2, <2>3, <2>4, <2>5, <2>6, <2>7, Zenon DEF TypeOK
<1>2. QED
  BY <1>1, ScanInvariant, PTL

\* The moire veto stands exactly when enough of the last frames were hits,
\* for every size of the window and however many frames have left it.
THEOREM MoireVeto == Spec => []MoireExact
<1>1. Inv => MoireExact
  <2> SUFFICES ASSUME Inv
               PROVE  MoireExact
    OBVIOUS
  <2>1. hits = Cardinality(HitsOf(moires, Least(Len(moires), cfg.moireFrames)))
        /\ (("moire" \in deny) <=> hits >= cfg.moireRequired)
    BY DEF Inv, MoireKept, Windowed, DenyKept
  <2>2. QED
    BY <2>1, Zenon DEF MoireExact, HitsOf
<1>2. QED
  BY <1>1, ScanInvariant, PTL

\* The detector counts the blinks of its history, whatever was measured, and
\* a blink confirms a scan exactly when there was one.
THEOREM BlinksCounted == Spec => []BlinksExact
<1>1. Inv => BlinksExact
  BY DEF Inv, EyesKept, ConfirmKept, BlinksExact
<1>2. QED
  BY <1>1, ScanInvariant, PTL

\* A challenge passes by what the user did after it was posed and in time.
THEOREM ChallengeAnswered == Spec => []ChallengeEarned
<1>1. Inv => ChallengeEarned
  BY DEF Inv, ConfirmKept, ChallengeKept, Earned, ChallengeEarned
<1>2. QED
  BY <1>1, ScanInvariant, PTL

\* A scan says that the user looked away only after measuring a shut eye.
THEOREM AttentionVetoMeasured == Spec => []AttentionMeasured
<1>1. Inv => AttentionMeasured
  BY DEF Inv, Attentive
<1>2. QED
  BY <1>1, ScanInvariant, PTL

\* No scan both confirms that a face has depth and denies it.
THEOREM DepthDecided == Spec => []PlanarityDecides
<1>1. Inv => PlanarityDecides
  BY DEF Inv, DenyKept, ConfirmKept, PlanarityDecides
<1>2. QED
  BY <1>1, ScanInvariant, PTL

\* The last status that the app was sent is that of the last frame.
THEOREM LastStatusTold == Spec => PreviewTold
<1> DEFINE Said == cfg.preview /\ frames' > frames /\ pc' # "worker" =>
              Last(<<"acquiring">> \o told') = IF usable' > usable THEN "good" ELSE "acquiring"
<1>1. ASSUME Inv, [Next]_vars
      PROVE  Said
  <2>1. ShownKept' /\ Last(<<"acquiring">> \o told') = shown'
    <3>1. ShownKept'
      BY <1>1, ShownPreserved DEF Inv
    <3>2. told' \in Seq({"acquiring", "good"})
          /\ shown' = IF told' = <<>> THEN "acquiring" ELSE told'[Len(told')]
      BY <3>1 DEF ShownKept
    <3>3. "acquiring" \in {"acquiring", "good"}
      OBVIOUS
    <3>4. QED
      BY <3>1, <3>2, <3>3, LastStatus
  <2>2. usable \in Nat /\ frames \in Nat /\ ShownKept
    BY <1>1 DEF Inv, Counters
  <2>3. ASSUME NEW f \in Frames, Skip(f)
        PROVE  Said
    <3>1. Preview(f) /\ ~Usable(f) /\ usable' = usable
      BY <2>3 DEF Skip, Arrives
    <3>2. cfg.preview => shown' = "acquiring"
      BY <2>2, <3>1, PreviewSends DEF StatusFor
    <3>3. QED
      BY <2>1, <2>2, <3>1, <3>2
  <2>4. ASSUME NEW f \in Frames, Use(f)
        PROVE  Said
    <3>1. Preview(f) /\ Usable(f) /\ usable' = usable + 1
      BY <2>4 DEF Use, Arrives, Collect
    <3>2. cfg.preview => shown' = "good"
      BY <2>2, <3>1, PreviewSends DEF StatusFor
    <3>3. QED
      BY <2>1, <2>2, <3>1, <3>2
  <2>5. ASSUME NEW f \in Frames, Breaks(f)
        PROVE  Said
    BY <2>5 DEF Breaks
  <2>6. CASE Raises
    BY <2>6 DEF Raises
  <2>7. CASE Timeout \/ CameraFails \/ Judge \/ UNCHANGED vars
    BY <2>2, <2>7 DEF Timeout, CameraFails, Ends, Judge, vars
  <2>8. QED
    BY <1>1, <2>3, <2>4, <2>5, <2>6, <2>7 DEF Next
<1>2. Inv /\ [Next]_vars => [Said]_vars
  BY <1>1
<1>3. QED
  BY <1>2, ScanInvariant, PTL DEF Spec, PreviewTold
=============================================================================
