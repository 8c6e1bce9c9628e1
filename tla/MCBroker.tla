------------------------------ MODULE MCBroker ------------------------------
(* Instances of Broker for TLC. *)
EXTENDS BrokerInv, TLC

\* CLIENT_QUEUE_SLOTS: a dense update and one more message.
AllSlots == BatchCount(Items) + 1

Symmetry == Permutations(Readings)
=============================================================================
