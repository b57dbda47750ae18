--------------------------- MODULE MCVisionWorker ---------------------------
(* Small instances of VisionWorker for TLC.                                *)
EXTENDS VisionWorker

CONSTANTS c1, c2, rgb0, ir0, cuda

MCPreference == <<cuda>>

Req(op, m, ir) == [op |-> op, mode |-> m, device |-> None, ir |-> ir]

\* Scans with and without an IR sensor, one that names no mode, and a line of
\* each kind that needs no camera.
MCRequests == {
    Req("capabilities", None, None), Req("bad", None, None),
    Req("long", None, None),
    Req("scan", "rgb", ir0), Req("scan", "ir", ir0),
    Req("scan", "auto", ir0), Req("scan", "auto", None) }

Machine(detector, landmarks, driver) ==
    [files |-> [m \in Models |-> CASE m = "detector" -> detector
                                   [] m = "landmarks" -> landmarks
                                   [] OTHER -> "good"],
     pinned |-> Models, drivers |-> (cuda :> driver), mesh |-> "tasks",
     cores |-> 64, affinity |-> None, quotas |-> <<None, None>>,
     env |-> [max |-> None, intra |-> None]]

\* A machine that is in order, a container with less than a CPU whose driver
\* broke, one with a swapped detector.
MCMachines == {
    Machine("good", "good", "works"), [Machine("good", "missing", "raises") EXCEPT
        !.affinity = 2, !.quotas = <<None, [quota |-> 1, period |-> 2]>>],
    Machine("swapped", "good", "works") }

\* The landmark model was replaced by another file of its name.
MCSwapped == {Machine("good", "good", "works"), Machine("good", "swapped", "works")}
=============================================================================
