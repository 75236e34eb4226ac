--------------------------- MODULE MCImportCursor ---------------------------
\* Instances of ImportCursor for TLC.
EXTENDS ImportCursor
=============================================================================
