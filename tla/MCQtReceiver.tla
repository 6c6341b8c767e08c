---------------------------- MODULE MCQtReceiver ----------------------------
EXTENDS QtReceiver
=============================================================================
