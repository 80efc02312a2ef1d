-------------------------- MODULE MCMediaPipeline --------------------------
(* A small instance of MediaPipeline for TLC.                              *)
EXTENDS MediaPipeline
=============================================================================
