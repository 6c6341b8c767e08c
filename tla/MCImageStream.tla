--------------------------- MODULE MCImageStream ----------------------------
EXTENDS ImageStream
=============================================================================
