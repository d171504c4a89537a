---------------------------- MODULE MCS3Multipart ----------------------------
(* Two parts of one upload. *)
EXTENDS S3Multipart
==============================================================================
