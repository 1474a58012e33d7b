---------------------------- MODULE MCImagePipeline ----------------------------
(***************************************************************************)
(* Instances of ImagePipeline for TLC.                                     *)
(***************************************************************************)
EXTENDS ImagePipeline, TLC

\* The legs are alike.
MCSymmetry == Permutations(Legs)
==============================================================================
