----------------------------- MODULE MCFeatures -----------------------------
(* Instances of Features for TLC: the events of one host over all of the   *)
(* windows, in any order, or of two hosts within three windows, in order.  *)
EXTENDS Features

OneHost == \A m \in Id : event[m].host = 1
Short == \A m \in Id : event[m].ts <= 3 /\ ~Regressed(m)

CaptureInit == FeaturesInit /\ (OneHost \/ Short)
CaptureSpec == CaptureInit /\ [][FeaturesNext]_vars /\ FeaturesFairness
=============================================================================
