----------------------------- MODULE MCSessions -----------------------------
(***************************************************************************)
(* Instances of Sessions for TLC.                                          *)
(***************************************************************************)
EXTENDS Sessions

CONSTANTS first, second, kaggle, input, dataset, working, elsewhere

OneVideo == {first}
TwoVideos == {first, second}

OneEnvironment == {kaggle}

OnePath == {input}
TwoPaths == {input, dataset}

OneRoot == {working}
TwoRoots == {working, elsewhere}
=============================================================================
