------------------------------- MODULE MCCapture -------------------------------
EXTENDS CaptureLedger

AppendOrReplace == {"append", "replace"}
AppendOnly == {"append"}
RewriteOnly == {"rewrite"}
=============================================================================
