---------------------------- MODULE MCStreamStage ---------------------------
\* StreamStage on a small instance: a value of SinkReady that a .cfg cannot
\* write.
EXTENDS StreamStage

AnyReady == BOOLEAN
=============================================================================
