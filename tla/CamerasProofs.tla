--------------------------- MODULE CamerasProofs ----------------------------
(***************************************************************************)
(* What Cameras computes, for every machine: a plan is sound whatever the  *)
(* cameras and the wishes are.  Pick takes a minimum of a set of maxima,   *)
(* and CHOOSE has a value only where there is one, so that this comes      *)
(* first.                                                                  *)
(***************************************************************************)
EXTENDS Cameras, FiniteSetTheorems, WellFoundedInduction, TLAPS

\* The cameras of a machine: finitely many, with finitely many formats.
CameraSet(cams) ==
    /\ DOMAIN cams \subseteq Nat /\ IsFiniteSet(DOMAIN cams)
    /\ \A i \in DOMAIN cams :
          /\ IsFiniteSet(cams[i].formats)
          /\ \A f \in cams[i].formats : f.area \in Nat

CameraModes == {"auto", "rgb", "ir", "hybrid"}

\* A plan that uses IR has an infrared sensor, "auto" has both cameras, each
\* camera is of its kind, and a colour camera that can be used is used.
SoundPlan(plan, cams) ==
    /\ (plan.mode # "rgb") <=> plan.ir_camera # None
    /\ plan.ir_camera # None => Kind(cams[plan.ir_camera]) = "ir"
    /\ plan.camera # None => Kind(cams[plan.camera]) = "rgb"
    /\ plan.mode = "auto" => plan.camera # None
    /\ Pick(cams, "rgb") # None => plan.camera # None

-----------------------------------------------------------------------------
(* Least and greatest elements.                                            *)

LEMMA LeastExists ==
    ASSUME NEW S \in SUBSET Nat, S # {}
    PROVE  \E x \in S : \A y \in S : x <= y
<1>1. PICK x \in S : \A y \in S : ~(<<y, x>> \in OpToRel(<, Nat))
  BY WFMin, NatLessThanWellFounded, Zenon
<1>2. \A y \in S : ~(y < x)
  BY <1>1, Zenon DEF OpToRel
<1>3. QED
  BY <1>2

LEMMA GreatestExists ==
    ASSUME NEW S \in SUBSET Nat, S # {}, IsFiniteSet(S)
    PROVE  \E x \in S : \A y \in S : x >= y
<1> DEFINE Bad(R) == /\ R # {} /\ IsFiniteSet(R)
                     /\ ~ \E x \in R : \A y \in R : x >= y
           Sizes == {n \in Nat : \E R \in SUBSET Nat : Bad(R) /\ Cardinality(R) = n}
<1>1. SUFFICES ASSUME Bad(S) PROVE FALSE
  OBVIOUS
<1>2. Cardinality(S) \in Sizes
  BY <1>1, FS_CardinalityType
<1>3. PICK n \in Sizes : \A k \in Sizes : n <= k
  <2> HIDE DEF Bad
  <2>1. Sizes # {} /\ Sizes \in SUBSET Nat
    BY <1>2
  <2> HIDE DEF Sizes
  <2>2. QED
    BY <2>1, LeastExists
<1>4. PICK R \in SUBSET Nat : Bad(R) /\ Cardinality(R) = n
  BY <1>3
<1>5. PICK x \in R : TRUE
  BY <1>4
<1>6. /\ IsFiniteSet(R \ {x}) /\ Cardinality(R \ {x}) = n - 1
      /\ n \in Nat /\ n - 1 \in Nat
  <2>1. IsFiniteSet(R) /\ x \in R /\ Cardinality(R) = n
    BY <1>4, <1>5
  <2>2. IsFiniteSet(R \ {x}) /\ Cardinality(R \ {x}) = n - 1
    BY <2>1, FS_RemoveElement
  <2>3. n \in Nat /\ Cardinality(R \ {x}) \in Nat
    BY <2>1, <2>2, FS_CardinalityType
  <2>4. QED
    BY <2>2, <2>3
<1>7. ~Bad(R \ {x})
  <2> HIDE DEF Bad
  <2>1. n - 1 \notin Sizes
    BY <1>3, <1>6
  <2>2. QED
    BY <2>1, <1>6
<1>8. CASE R \ {x} = {}
  BY <1>4, <1>5, <1>8
<1>9. CASE R \ {x} # {}
  <2>1. PICK m \in R \ {x} : \A y \in R \ {x} : m >= y
    BY <1>6, <1>7, <1>9
  <2>2. CASE x >= m
    BY <2>1, <2>2, <1>4, <1>5
  <2>3. CASE ~(x >= m)
    BY <2>1, <2>3, <1>4, <1>5
  <2>4. QED
    BY <2>2, <2>3
<1>10. QED
  BY <1>8, <1>9

LEMMA MinIn ==
    ASSUME NEW S \in SUBSET Nat, S # {}
    PROVE  Min(S) \in S
BY LeastExists DEF Min

LEMMA MaxIn ==
    ASSUME NEW S \in SUBSET Nat, S # {}, IsFiniteSet(S)
    PROVE  Max(S) \in S
BY GreatestExists DEF Max

\* The values of a function on a finite set are finitely many.
LEMMA ValuesFinite ==
    ASSUME NEW S, IsFiniteSet(S), NEW f, f = [x \in S |-> f[x]]
    PROVE  IsFiniteSet({f[x] : x \in S})
<1> DEFINE T == {f[x] : x \in S}
<1>1. f \in Surjection(S, T)
  BY DEF Surjection
<1>2. QED
  BY <1>1, FS_Surjection

-----------------------------------------------------------------------------
(* Picking and pinning.                                                    *)

LEMMA ResolutionType ==
    ASSUME NEW cams, CameraSet(cams), NEW i \in DOMAIN cams
    PROVE  MaxResolution(cams[i]) \in Nat
<1> DEFINE areas == {f.area : f \in cams[i].formats}
<1>1. areas \cup {0} \in SUBSET Nat
  BY DEF CameraSet
<1>2. IsFiniteSet(areas \cup {0})
  <2> DEFINE g == [f \in cams[i].formats |-> f.area]
  <2>1. IsFiniteSet({g[f] : f \in cams[i].formats})
    BY ValuesFinite DEF CameraSet
  <2>2. areas = {g[f] : f \in cams[i].formats}
    OBVIOUS
  <2>3. QED
    BY <2>1, <2>2, FS_AddElement
<1>3. QED
  BY <1>1, <1>2, MaxIn DEF MaxResolution

\* Pick finds none, or a camera of the kind.
LEMMA Picked ==
    ASSUME NEW cams, CameraSet(cams), NEW kind, Pick(cams, kind) # None
    PROVE  /\ Pick(cams, kind) \in DOMAIN cams
           /\ Kind(cams[Pick(cams, kind)]) = kind
<1> DEFINE fit == {i \in DOMAIN cams : /\ Kind(cams[i]) = kind /\ cams[i].real
                                       /\ cams[i].readable /\ ~cams[i].busy}
           size == [i \in fit |-> MaxResolution(cams[i])]
           area == Max({MaxResolution(cams[i]) : i \in fit})
           best == {i \in fit : MaxResolution(cams[i]) = area}
<1>1. fit # {}
  BY DEF Pick
<1>2. IsFiniteSet(fit)
  BY FS_Subset DEF CameraSet
<1>3. {MaxResolution(cams[i]) : i \in fit} \in SUBSET Nat
  BY ResolutionType
<1>4. IsFiniteSet({MaxResolution(cams[i]) : i \in fit})
  <2>1. IsFiniteSet({size[i] : i \in fit})
    <3> HIDE DEF fit
    <3>1. QED
      BY <1>2, ValuesFinite
  <2>2. {MaxResolution(cams[i]) : i \in fit} = {size[i] : i \in fit}
    OBVIOUS
  <2>3. QED
    BY <2>1, <2>2
<1>5. best # {}
  <2>1. area \in {MaxResolution(cams[i]) : i \in fit}
    <3> HIDE DEF fit
    <3>1. QED
      BY <1>1, <1>3, <1>4, MaxIn
  <2>2. QED
    BY <2>1
<1>6. best \in SUBSET Nat
  BY DEF CameraSet
<1>7. Min(best) \in best
  <2> HIDE DEF best
  <2>1. QED
    BY <1>5, <1>6, MinIn
<1>8. Pick(cams, kind) = Min(best)
  BY <1>1 DEF Pick
<1>9. QED
  BY <1>7, <1>8

\* A pin that is not of the kind, or not there, is not used.
LEMMA Pinned ==
    ASSUME NEW cams, CameraSet(cams), None \notin Nat, NEW pin, NEW kind
    PROVE  LET k == PinnedOr(pin, kind, cams) IN
           /\ k # None => k \in DOMAIN cams /\ Kind(cams[k]) = kind
           /\ k = None => Pick(cams, kind) = None
<1>1. CASE pin \in DOMAIN cams /\ Kind(cams[pin]) = kind
  BY <1>1 DEF PinnedOr, CameraSet
<1>2. CASE ~(pin \in DOMAIN cams /\ Kind(cams[pin]) = kind)
  BY <1>2, Picked DEF PinnedOr
<1>3. QED
  BY <1>1, <1>2

\* discover finds a set of cameras on every machine with finitely many nodes.
LEMMA DiscoverFinds ==
    ASSUME NEW m, DOMAIN m \subseteq Nat, IsFiniteSet(DOMAIN m),
           \A i \in DOMAIN m : m[i] # None =>
               IsFiniteSet(m[i].formats) /\ m[i].formats \subseteq [mono : BOOLEAN, area : Nat]
    PROVE  CameraSet(Discover(m))
<1> DEFINE Gap(n) == \A i \in (n - MaxMissing + 1)..n : i \in DOMAIN m => m[i] = None
           seen == {i \in DOMAIN m :
                     i < MaxNodes /\ m[i] # None /\ \A n \in MaxMissing-1..i : ~Gap(n)}
           probed == [i \in seen |-> Probe(m[i])]
           found == DedupeSameSensor(probed)
<1>1. Discover(m) = found
  BY DEF Discover
<1>2. DOMAIN found = seen /\ seen \subseteq DOMAIN m /\ \A i \in seen : m[i] # None
  <2> HIDE DEF Gap
  <2>1. QED
    BY DEF DedupeSameSensor
<1> HIDE DEF seen
<1>3. \A i \in seen : found[i].formats = Probe(m[i]).formats
  BY DEF DedupeSameSensor, Probe
<1>4. \A i \in seen : /\ IsFiniteSet(Probe(m[i]).formats)
                      /\ \A f \in Probe(m[i]).formats : f.area \in Nat
  <2> SUFFICES ASSUME NEW i \in seen
               PROVE  /\ IsFiniteSet(Probe(m[i]).formats)
                      /\ \A f \in Probe(m[i]).formats : f.area \in Nat
    OBVIOUS
  <2>1. IsFiniteSet(m[i].formats) /\ \A f \in m[i].formats : f.area \in Nat
    BY <1>2
  <2>2. Probe(m[i]).formats \in {m[i].formats, {}}
    BY DEF Probe
  <2>3. QED
    BY <2>1, <2>2, FS_EmptySet
<1>5. IsFiniteSet(seen)
  BY <1>2, FS_Subset
<1> HIDE DEF found
<1>6. QED
  BY <1>1, <1>2, <1>3, <1>4, <1>5 DEF CameraSet

-----------------------------------------------------------------------------
\* Whatever cameras there are and whatever is wished for or pinned, resolve_plan
\* makes a plan that is sound.
THEOREM PlansAreSound ==
    ASSUME NEW cams, CameraSet(cams), None \notin Nat,
           NEW prefs, prefs.camera_mode \in CameraModes
    PROVE  SoundPlan(ResolvePlan(prefs, cams), cams)
<1> DEFINE rgb == PinnedOr(prefs.rgb_dev, "rgb", cams)
           ir  == PinnedOr(prefs.ir_dev, "ir", cams)
           plan == ResolvePlan(prefs, cams)
<1>1. /\ rgb # None => Kind(cams[rgb]) = "rgb"
      /\ rgb = None => Pick(cams, "rgb") = None
      /\ ir # None => Kind(cams[ir]) = "ir"
  BY Pinned
<1>2. /\ plan.camera = rgb
      /\ plan.ir_camera = IF plan.mode = "rgb" THEN None ELSE ir
      /\ plan.mode # "rgb" => ir # None
      /\ plan.mode = "auto" => rgb # None
  <2> HIDE DEF rgb, ir
  <2>1. CASE ir = None
    BY <2>1 DEF ResolvePlan, rgb, ir
  <2>2. CASE ir # None
    BY <2>2 DEF ResolvePlan, rgb, ir, CameraModes
  <2>3. QED
    BY <2>1, <2>2
<1> HIDE DEF rgb, ir, plan
<1>3. QED
  BY <1>1, <1>2 DEF SoundPlan, plan

\* auto_tune suggests a mode that exists.
LEMMA SuggestsMode ==
    ASSUME NEW m
    PROVE  HardwareSuggestion(m).camera_mode \in CameraModes
<1> DEFINE cams == Discover(m)
           luma == SampleLight(m, Pick(cams, "ir"))
           live == luma # None /\ luma >= IrUsableLuma
<1>1. CASE Pick(cams, "rgb") # None /\ Pick(cams, "ir") # None /\ live
  BY <1>1 DEF HardwareSuggestion, CameraModes
<1>2. CASE Pick(cams, "rgb") # None /\ (Pick(cams, "ir") = None \/ ~live)
  BY <1>2 DEF HardwareSuggestion, CameraModes
<1>3. CASE Pick(cams, "rgb") = None /\ Pick(cams, "ir") # None
  BY <1>3 DEF HardwareSuggestion, CameraModes
<1>4. CASE Pick(cams, "rgb") = None /\ Pick(cams, "ir") = None
  BY <1>4 DEF HardwareSuggestion, CameraModes
<1>5. QED
  BY <1>1, <1>2, <1>3, <1>4
=============================================================================
