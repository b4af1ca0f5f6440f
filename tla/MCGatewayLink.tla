---------------------------- MODULE MCGatewayLink ----------------------------
\* A zone server that connects up to three times, two clients for each start of
\* the gateway.
EXTENDS GatewayLink
=============================================================================
