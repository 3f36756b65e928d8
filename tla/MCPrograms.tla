----------------------------- MODULE MCPrograms -----------------------------
(* Two photos, two calibration images and other files for TLC; images of   *)
(* 6 by 4 pixels.                                                          *)
EXTENDS Programs

Opt(letter, arg) == [letter |-> letter, id |-> 0, arg |-> arg]
OptId(letter, id) == [letter |-> letter, id |-> id, arg |-> ""]

(* Two photos, of the same name in two directories of the camera. *)
MCPhotos == <<"img", "img">>
MCCalibImages == <<"mod1", "mod2">>

MCInvocations ==
    {<< >>, <<Opt("i", ""), Opt("l", "")>>, <<Opt("i", "")>>, <<OptId("d", 1)>>,
     <<Opt("t", "dir")>>, <<Opt("i", ""), Opt("t", "nodir")>>, <<Opt("c", "dir"), Opt("l", "")>>,
     <<Opt("p", "dir")>>, <<Opt("f", "firmware")>>, <<Opt("f", "missing")>>, <<Opt("?", ""), OptId("d", 0)>>}

(* One photo; two; entries of another length; one that is too short;      *)
(* entries of no length.                                                  *)
MCListings ==
    {[linelen |-> 124, words |-> 2, size |-> 152],
     [linelen |-> 124, words |-> 0, size |-> 260],
     [linelen |-> 128, words |-> 0, size |-> 145],
     [linelen |-> 100, words |-> 1, size |-> 120],
     [linelen |-> 0, words |-> 1, size |-> 160]}

MCMissing == {<<"missing", "">>}
MCUnmatched == {{"img", "mod1"}}

MCBytes ==
    [img |-> [n \in 1..36 |-> (7 * n) % 256],
     mod1 |-> [n \in 1..36 |-> <<162, 16, 153>>[((n - 1) % 3) + 1]],
     mod2 |-> [n \in 1..36 |-> 255]]
=============================================================================
