-------------------------- MODULE MCWebhookDelivery --------------------------
\* Two messages in one post, and the post of a number nobody knows.
EXTENDS WebhookDelivery

CONSTANTS m1, m2, stranger

MCBatches == {<<m1, m2>>, <<stranger>>}
MCPair == {<<m1, m2>>}
MCSingle == {<<m1>>}
=============================================================================
