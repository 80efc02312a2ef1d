---------------------------- MODULE MCMediaUpload ----------------------------
(* A small instance of MediaUpload for TLC.                                *)
EXTENDS MediaUpload
=============================================================================
