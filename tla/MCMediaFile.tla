---------------------------- MODULE MCMediaFile -----------------------------
(* MediaFile on small instances; the configurations give all constants.      *)
EXTENDS MediaFile
=============================================================================
