--------------------------- MODULE MCDownloadAction ---------------------------
EXTENDS DownloadAction
=============================================================================
