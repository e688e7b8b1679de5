--------------------------- MODULE MCMaintenance ---------------------------
\* Maintenance for TLC.
EXTENDS Maintenance

OneKind == <<"episode">>
TwoKinds == <<"episode", "foresight">>
=============================================================================
