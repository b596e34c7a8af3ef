--------------------------- MODULE MCMultiDownload ---------------------------
EXTENDS MultiDownload
=============================================================================
