--------------------------- MODULE MCFeatureFlags ---------------------------
(* TLC instance of FeatureFlags: two flags, entities in three buckets.     *)
EXTENDS FeatureFlags, TLC

CONSTANTS e1, e2, e3

BucketOf == [k \in Key |-> e1 :> 0 @@ e2 :> 60 @@ e3 :> 99]
=============================================================================
