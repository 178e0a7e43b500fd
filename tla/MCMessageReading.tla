-------------------------- MODULE MCMessageReading --------------------------
(* Two pairs of messages of the same second, ids against the order of time. *)
EXTENDS MessageReading

MCSentAt == <<2, 1, 2, 1>>
MCAsked  == {-1, 0}
=============================================================================
