---------------------------- MODULE MCSyncEvents ----------------------------
(* Two users with an account each, and a tab in which they may take turns. *)
EXTENDS SyncEvents

MCMine == [ann |-> {"mine"}, bob |-> {"theirs"}]
MCUser == <<"ann", "bob">>
=============================================================================
