-------------------------- MODULE MCAttachmentStore --------------------------
(* A small instance of the attachments of one record for TLC.                 *)
EXTENDS AttachmentProperties

CONSTANTS a1, l1
=============================================================================
