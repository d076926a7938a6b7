--------------------------- MODULE MCKafkaProducer ---------------------------
(***************************************************************************)
(* Two orders, two overload copies of each, and a producer that holds two    *)
(* messages or responses at a time: fewer than there are senders.            *)
(***************************************************************************)
EXTENDS KafkaProducer
=============================================================================
