---------------------------- MODULE MCChatFinalize ----------------------------
EXTENDS ChatFinalize

\* All jobs of one user, so that the queue and the kept history fill up.
OneUser == [j \in Jobs |-> "ann"]

=============================================================================
