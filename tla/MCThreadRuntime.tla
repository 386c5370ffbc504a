--------------------------- MODULE MCThreadRuntime ---------------------------
EXTENDS ThreadRuntimeProofs
=============================================================================
