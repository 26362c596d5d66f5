-------------------------- MODULE MCInboundWebhook ---------------------------
EXTENDS InboundWebhook

OneRun == [k \in Keys |-> CHOOSE r \in Runs : TRUE]
=============================================================================
