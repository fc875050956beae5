--------------------------- MODULE MCUcieLinkDir ---------------------------
EXTENDS UcieLinkDir
=============================================================================
