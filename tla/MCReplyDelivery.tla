--------------------------- MODULE MCReplyDelivery ---------------------------
(* Small instances of ReplyDelivery for TLC. *)
EXTENDS ReplyDelivery

AllShapes == [gif : BOOLEAN, first : 1..2, second : 0..2, evidence : BOOLEAN]
=============================================================================
