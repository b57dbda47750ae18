--------------------------- MODULE MCScanSession ----------------------------
(* A small instance of ScanSession for TLC.                                *)
EXTENDS ScanSession

Plain == [face |-> TRUE, flaws |-> {}, screen |-> {}, moire |-> 3, spoof |-> 4,
          crop |-> TRUE, ir |-> [lum |-> 30, contrast |-> 15], dense |-> TRUE, ear |-> 30, yaw |-> 0,
          pitch |-> 0, resid |-> 1]

\* Nobody, a blurred face in front of a moire screen, a face that meets no
\* test, a hit that cannot be embedded, eyes shut and half shut with the head
\* up, a solid head turned far, a flat one turned too little for a challenge,
\* one turned as far that fits no homography, and what the IR sensor judges.
MCFrames == {
    [Plain EXCEPT !.face = FALSE],
    [Plain EXCEPT !.flaws = {"blurry"}, !.moire = 20],
    Plain,
    [Plain EXCEPT !.moire = 20, !.dense = FALSE, !.crop = FALSE],
    [Plain EXCEPT !.ear = 10],
    [Plain EXCEPT !.ear = 22, !.pitch = -14],
    [Plain EXCEPT !.yaw = -16, !.resid = 2],
    [Plain EXCEPT !.yaw = 12, !.resid = 0],
    [Plain EXCEPT !.yaw = 12, !.resid = None, !.ir = [lum |-> 90, contrast |-> 30]],
    [Plain EXCEPT !.dense = FALSE, !.ir = [lum |-> 10, contrast |-> 30], !.spoof = None],
    [Plain EXCEPT !.dense = FALSE, !.screen = {"glare"}, !.spoof = 90] }

\* Everything there, no optional model, no second camera.
MCGears == {
    [mesh |-> TRUE, irCamera |-> TRUE, antispoof |-> TRUE],
    [mesh |-> FALSE, irCamera |-> TRUE, antispoof |-> FALSE],
    [mesh |-> TRUE, irCamera |-> FALSE, antispoof |-> TRUE] }

Raw(mode, strict, challenge, preview, min, every, n, k) ==
    [mode |-> mode, strict |-> strict, challenge |-> challenge, preview |-> preview,
     minEmbeddings |-> min, maxEmbeddings |-> 3, embedEvery |-> every,
     moireFrames |-> n, moireRequired |-> k]

\* An unlock in heavy mode with a challenge, an enrollment with its preview, a
\* scan that asks for more moire hits than its window holds, an IR scan.
MCConfigs == {
    Raw("rgb", "heavy", TRUE, FALSE, 3, 1, 3, 2),
    Raw("rgb", "light", FALSE, TRUE, 3, 2, 3, 2),
    Raw("both", "light", FALSE, FALSE, 3, 1, 2, 4),
    Raw("ir", "heavy", FALSE, FALSE, 0, 0, 0, 0) }
=============================================================================
