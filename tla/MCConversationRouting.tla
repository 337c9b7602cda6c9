------------------------ MODULE MCConversationRouting ------------------------
EXTENDS ConversationRouting, TLC
MCSymmetry == Permutations(Routers) \cup Permutations(Messages) \cup Permutations(Sweepers)
===============================================================================
