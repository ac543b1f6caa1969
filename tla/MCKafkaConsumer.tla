-------------------------- MODULE MCKafkaConsumer --------------------------
(* KafkaConsumer for TLC: the consumers are interchangeable, and so are the
   partitions. *)
EXTENDS KafkaConsumer, TLC

Symmetry == Permutations(Consumers) \cup Permutations(Partitions)

=============================================================================
