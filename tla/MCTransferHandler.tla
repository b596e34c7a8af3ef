--------------------------- MODULE MCTransferHandler ---------------------------
EXTENDS TransferHandler
=============================================================================
