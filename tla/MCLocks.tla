------------------------------- MODULE MCLocks -------------------------------
EXTENDS Locks

\* One path per way of locking, for the run that includes attachment_send.
MCWithAttachmentSend == AttachmentSendPaths \cup RoutePaths
=============================================================================
