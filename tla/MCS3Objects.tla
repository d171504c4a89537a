----------------------------- MODULE MCS3Objects -----------------------------
(* One bucket, few keys. *)
EXTENDS S3Objects
==============================================================================
