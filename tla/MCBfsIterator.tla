---------------------------- MODULE MCBfsIterator ----------------------------
(* Instances of BfsIterator for TLC.                                       *)
EXTENDS BfsIterator, TLC

CONSTANTS a, b, c, d

(* Forward: from an input a, reconvergent at d; the reference pin b seeds  *)
(* a load d of an input with a delay.                                      *)
Four == {a, b, c, d}
Diamond == {<<a, b>>, <<a, c>>, <<b, d>>, <<c, d>>}
RefPin == {<<b, d>>}
Inputs == {a}

(* Backward: from two endpoints to their driver.                           *)
Three == {a, b, c}
Net == {<<a, b>>, <<a, c>>}
Endpoints == {b, c}

(* Levelizations; an incremental one need not be tight.                    *)
Tight == a :> 0 @@ b :> 1 @@ c :> 1 @@ d :> 2
Loose == a :> 0 @@ b :> 2 @@ c :> 1 @@ d :> 3
DiamondLevels == {Tight, Loose}
Flat == a :> 0 @@ b :> 1 @@ c :> 1
Late == a :> 0 @@ b :> 1 @@ c :> 2
NetLevels == {Flat, Late}
=============================================================================
