--------------------------- MODULE MCSettingsApp ----------------------------
(* Small instances of SettingsApp for TLC.                                 *)
EXTENDS SettingsApp, TLC

Node(card, hint, formats, luma) ==
    [open |-> "ok", capture |-> TRUE, card |-> card, hint |-> hint, real |-> TRUE,
     luma |-> luma, formats |-> formats]

Colour(area) == [mono |-> FALSE, area |-> area]
Grey(area)   == [mono |-> TRUE, area |-> area]

\* A webcam with a grey handle that streams nothing, another and larger one,
\* which is in use, and behind a gap one that is never looked at.
Webcams == 0 :> Node("webcam", FALSE, {Colour(6)}, 60)
           @@ 1 :> Node("webcam", FALSE, {Grey(0)}, None)
           @@ 2 :> [Node("other", FALSE, {Colour(9)}, 60) EXCEPT !.open = "busy"]
           @@ 7 :> Node("far", FALSE, {Colour(9)}, 60)

\* A laptop with two sensors under one name, and one whose emitter is off.
Laptop(luma) == 0 :> Node("laptop", FALSE, {Colour(6), Colour(4)}, 60)
                @@ 2 :> Node("laptop", FALSE, {Grey(4)}, luma)

OnlyIr == 1 :> Node("IR camera", TRUE, {Grey(4), Colour(2)}, 80)

MCHome     == Laptop(10)
MCMachines == {Webcams, MCHome, OnlyIr}

Tuned == [enabled |-> TRUE, strictness |-> "heavy", timeline |-> FALSE,
          tau |-> "measured", mode |-> "auto", camera |-> 0, ir_camera |-> 2]

\* A file of an older version: a mode nobody knows any more, and the other node.
OldFile == [camera_mode |-> "night", rgb_dev |-> 2]

MCInstalled == {[cfg |-> Tuned, file |-> OldFile]}
=============================================================================
