---------------------------- MODULE MCEventPipeline ----------------------------
EXTENDS EventPipeline
MCRoutes == [e \in Events |-> Consumers]
\* With two workers, a slot in each: the runs of a job can be in different processes.
MCHost == CHOOSE h \in [Slots -> Workers] : {h[s] : s \in Slots} = Workers
===============================================================================
