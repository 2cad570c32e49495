------------------------------ MODULE MCSafeIO ------------------------------
EXTENDS SafeIO
=============================================================================
