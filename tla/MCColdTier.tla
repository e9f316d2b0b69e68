----------------------------- MODULE MCColdTier -----------------------------
EXTENDS ColdTier, TLC

\* Three events; the second and the third are of the same month.
MCEvents == 1 .. 3
MCMonth == 1 :> 1 @@ 2 :> 2 @@ 3 :> 2
=============================================================================
