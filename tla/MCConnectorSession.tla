------------------------- MODULE MCConnectorSession -------------------------
EXTENDS ConnectorSession
=============================================================================
