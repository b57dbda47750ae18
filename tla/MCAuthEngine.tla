---------------------------- MODULE MCAuthEngine ----------------------------
(* Small instances of AuthEngine for TLC.                                  *)
EXTENDS AuthEngine, TLC

CONSTANTS u1, u2, a1, a2, a3, alice, bob

Frames(x, y) == (1 :> x) @@ (2 :> y)

Scan(model, deny, confirm, frames) ==
    [model |-> model, deny |-> deny, attention |-> TRUE,
     confirm |-> confirm, frames |-> frames]

\* One frame of each of two faces, which make a vote of two only while both
\* are enrolled and which no liveness cue confirms; one matching frame; a
\* match that a cue denies; a match under another model.
MCEvidence == {
    Scan("m1", FALSE, FALSE, Frames({alice}, {bob})),
    Scan("m1", FALSE, TRUE, Frames({}, {alice})),
    Scan("m1", TRUE, TRUE, Frames({alice}, {alice})),
    Scan("m2", FALSE, TRUE, Frames({alice}, {alice})) }

Config(enabled, strict, max) ==
    [enabled |-> enabled, services |-> {"gdm"}, excluded |-> {},
     strictness |-> strict, requireAttention |-> TRUE, voteK |-> 2,
     maxFailures |-> max]

\* Two limits, so that the limit can drop below the failures on record, and
\* a disabled configuration.
MCConfigs == {Config(TRUE, "light", 2), Config(TRUE, "heavy", 3), Config(FALSE, "off", 0)}

OneConfig == {Config(TRUE, "light", 2)}

\* Both faces, one of them, nothing.
MCStores == {{<<alice, "m1">>, <<bob, "m1">>}, {<<alice, "m1">>}, {}}

\* For liveness what the scan shows and what is enrolled does not matter.
OneStore == {{<<alice, "m1">>}, {}}

OneScan == {Scan("m1", FALSE, TRUE, Frames({alice}, {alice})),
            Scan("m1", FALSE, TRUE, Frames({}, {alice}))}

Symmetry == Permutations({a1, a2, a3})
=============================================================================
