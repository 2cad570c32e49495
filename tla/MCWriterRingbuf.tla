--------------------------- MODULE MCWriterRingbuf ---------------------------
EXTENDS WriterRingbuf
==============================================================================
