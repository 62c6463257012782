--------------------------- MODULE MCConversation ---------------------------
\* Conversation with the program's own flow charts.
EXTENDS Conversation, Workflows

MCFlows     == DOMAIN Handlers
MCChart     == ChartOf(MCFlows)
MCGathering == GatheringOf(MCFlows)
MCTriggers  == DOMAIN StartTriggers
=============================================================================
