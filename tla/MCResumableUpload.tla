-------------------------- MODULE MCResumableUpload --------------------------
EXTENDS ResumableUpload
=============================================================================
