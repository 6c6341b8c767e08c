-------------------------- MODULE MCDecodePipeline --------------------------
EXTENDS DecodePipeline
=============================================================================
