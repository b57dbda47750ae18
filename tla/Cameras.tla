------------------------------ MODULE Cameras -------------------------------
(***************************************************************************)
(* vision/faceid_vision/cameras.py, which the settings app re-exports: what *)
(* the /dev/video nodes of a machine are, which of them to use, and the    *)
(* plan a user's wish resolves to.  Also hardware_suggestion of the app's  *)
(* auto_tune.py, which rests on it.                                        *)
(*                                                                         *)
(* The nodes of a machine are a function from 0..n to None (no such node)  *)
(* or a record:                                                            *)
(*   open     "ok", "busy" or "denied"    capture  it is a capture device  *)
(*   card     its name                    hint     the name hints at IR    *)
(*   real     it is no loopback or dummy  luma     what a look at it shows *)
(*   formats  a set of [mono, area]: area is the largest frame it streams, *)
(*            zero when it streams none                                    *)
(* The cameras found are a function from some of those numbers.            *)
(***************************************************************************)
EXTENDS Integers, FiniteSets, FiniteSetsExt

CONSTANT None

\* discover gives up after so many missing nodes in a row, or so many at all.
MaxMissing == 4
MaxNodes   == 64
\* auto_tune.IR_USABLE_LUMA
IrUsableLuma == 25

\* probe: an unopened node has no name and no formats.
Probe(raw) ==
    LET opened == raw.open = "ok"
        usable == opened /\ raw.capture
    IN  [card     |-> IF opened THEN raw.card ELSE "",
         hint     |-> opened /\ raw.hint,
         real     |-> ~opened \/ raw.real,
         formats  |-> IF usable THEN raw.formats ELSE {},
         readable |-> usable,
         busy     |-> raw.open = "busy",
         alt      |-> FALSE]

HasMono(c)  == \E f \in c.formats : f.mono
HasColor(c) == \E f \in c.formats : ~f.mono
Streams(c)  == \E f \in c.formats : f.area > 0

\* CameraInfo.kind
Kind(c) ==
    CASE c.alt -> "none"
      [] ~c.alt /\ HasMono(c) /\ (c.hint \/ ~HasColor(c)) -> "ir"
      [] ~c.alt /\ HasColor(c) /\ ~(HasMono(c) /\ c.hint) -> "rgb"
      [] ~c.alt /\ c.formats = {} -> IF c.hint THEN "ir" ELSE "none"

\* CameraInfo.max_resolution, as an area.
MaxResolution(c) == Max({f.area : f \in c.formats} \cup {0})

\* _dedupe_same_sensor: a mono node that streams nothing, on a card that also
\* has a colour node, is a handle of that camera.
DedupeSameSensor(cams) ==
    [k \in DOMAIN cams |->
        [cams[k] EXCEPT !.alt =
            /\ cams[k].card # "" /\ HasMono(cams[k]) /\ ~HasColor(cams[k])
            /\ ~Streams(cams[k])
            /\ \E j \in DOMAIN cams : cams[j].card = cams[k].card /\ HasColor(cams[j])]]

\* discover: every node up to the first gap of MaxMissing.
Discover(nodes) ==
    LET Gap(n) == \A i \in (n - MaxMissing + 1)..n : i \in DOMAIN nodes => nodes[i] = None
        seen == {i \in DOMAIN nodes :
                   i < MaxNodes /\ nodes[i] # None /\ \A n \in MaxMissing-1..i : ~Gap(n)}
    IN  DedupeSameSensor([i \in seen |-> Probe(nodes[i])])

\* pick: of the cameras of a kind that can be used, the first of the largest.
Pick(cams, kind) ==
    LET fit == {i \in DOMAIN cams : /\ Kind(cams[i]) = kind /\ cams[i].real
                                    /\ cams[i].readable /\ ~cams[i].busy}
        area == Max({MaxResolution(cams[i]) : i \in fit})
    IN  IF fit = {} THEN None ELSE Min({i \in fit : MaxResolution(cams[i]) = area})

\* A pinned node wins over the pick while it is there and of the kind.
PinnedOr(pin, kind, cams) ==
    IF pin \in DOMAIN cams /\ Kind(cams[pin]) = kind THEN pin ELSE Pick(cams, kind)

BadResolvePlan(prefs, cams) ==
    LET rgb == PinnedOr(prefs.rgb_dev, "rgb", cams)
        ir  == PinnedOr(prefs.ir_dev, "ir", cams)
        want == prefs.camera_mode
    IN  CASE want = "rgb"    -> [mode |-> "rgb", camera |-> rgb, ir_camera |-> None]
          [] want = "ir"     -> [mode |-> IF ir = None THEN "rgb" ELSE "ir",
                                 camera |-> rgb, ir_camera |-> ir]
          [] want = "hybrid" -> [mode |-> "hybrid", camera |-> rgb, ir_camera |-> ir]
          [] OTHER           -> [mode |-> IF rgb = None THEN "ir" ELSE "auto",
                                 camera |-> rgb, ir_camera |-> ir]

\* resolve_plan: what the user wants, as far as the cameras allow it.
ResolvePlan(prefs, cams) ==
    LET rgb == PinnedOr(prefs.rgb_dev, "rgb", cams)
        ir  == PinnedOr(prefs.ir_dev, "ir", cams)
        want == prefs.camera_mode
        mode == CASE want = "rgb" \/ ir = None -> "rgb"
                  [] want \in {"ir", "hybrid"} /\ ir # None -> want
                  [] want = "auto" /\ ir # None -> IF rgb = None THEN "ir" ELSE "auto"
    IN  [mode |-> mode, camera |-> rgb,
         ir_camera |-> IF mode = "rgb" THEN None ELSE ir]

\* auto_config, on a machine without a configuration: a configured node stays
\* as long as it exists.
AutoConfig(camera, irCamera, cams) ==
    LET Chosen(path, kind) ==
            IF path \in DOMAIN cams THEN path ELSE Pick(cams, kind)
    IN  [camera |-> Chosen(camera, "rgb"), ir_camera |-> Chosen(irCamera, "ir")]

\* config_lines: a device that was not found writes no line.
ConfigLines(plan) == [k \in {x \in {"camera", "ir_camera"} : plan[x] # None} |-> plan[k]]

\* sample_light: the mean luma, if the node can be opened and delivers.
SampleLight(nodes, path) ==
    IF path = None THEN None
    ELSE IF nodes[path] = None THEN None
    ELSE IF nodes[path].open = "ok" THEN nodes[path].luma ELSE None

\* hardware_suggestion: the IR modes only for a sensor that delivers light.
HardwareSuggestion(nodes) ==
    LET cams == Discover(nodes)
        rgb  == Pick(cams, "rgb")
        ir   == Pick(cams, "ir")
        luma == SampleLight(nodes, ir)
        live == luma # None /\ luma >= IrUsableLuma
        Suggest(want, mode, tau) ==
            [camera_mode |-> want, mode |-> mode, strictness |-> "light", tau |-> tau]
    IN  CASE rgb # None /\ ir # None /\ live -> Suggest("auto", "auto", "ir")
          [] rgb # None /\ (ir = None \/ ~live) -> Suggest("rgb", "rgb", "rgb")
          [] rgb = None /\ ir # None -> Suggest("ir", "ir", "ir")
          [] rgb = None /\ ir = None -> Suggest("auto", "rgb", "rgb")
=============================================================================
