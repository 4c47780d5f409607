---------------------------- MODULE MCControlPlane ----------------------------
EXTENDS ControlPlane

\* c1 uses both secrets, which hold the same value: a client key that equals the
\* key of an upstream connection is refused.
OneKeyTwice == {[config |-> "c1", secrets |-> [n \in Names |-> "key"]]}

=============================================================================
