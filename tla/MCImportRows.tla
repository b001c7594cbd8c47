--------------------------- MODULE MCImportRows ---------------------------
EXTENDS ImportRows

\* West of Greenwich, and east of it.
MCZones == {-5, 9}

===========================================================================
