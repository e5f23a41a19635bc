----------------------------- MODULE MCStartup ------------------------------
EXTENDS Startup, TLC

Anything == Objects \cup Tasks \cup {"idleTask"}
=============================================================================
