--------------------------- MODULE MCDispatchQueue ---------------------------
(* Instances of DispatchQueue for TLC.                                     *)
EXTENDS DispatchQueue

(* Batches of up to three closures.                                        *)
CONSTANTS t1, t2, t3
Closures == {t1, t2, t3}
Pair == {t1, t2}
=============================================================================
