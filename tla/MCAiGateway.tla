---------------------------- MODULE MCAiGateway ----------------------------
EXTENDS AiGateway
=============================================================================
