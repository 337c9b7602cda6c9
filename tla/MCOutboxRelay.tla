----------------------------- MODULE MCOutboxRelay -----------------------------
EXTENDS OutboxRelay
MCRoutes == [e \in Events |-> IF e = 1 THEN {} ELSE Consumers]
===============================================================================
