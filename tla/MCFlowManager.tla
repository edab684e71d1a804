-------------------------- MODULE MCFlowManager --------------------------
EXTENDS FlowManager
=============================================================================
