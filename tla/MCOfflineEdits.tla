----------------------------- MODULE MCOfflineEdits -----------------------------
EXTENDS OfflineEdits
=============================================================================
