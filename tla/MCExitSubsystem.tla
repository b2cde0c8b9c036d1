-------------------------- MODULE MCExitSubsystem ---------------------------
EXTENDS ExitSubsystem
=============================================================================
