------------------------ MODULE MCOriginMaintenance ------------------------
(* An instance of OriginMaintenance with two origins. *)
EXTENDS OriginMaintenance
MCScope == <<0, 0, 1, 1, 2>>
\* Two records of the control database, of an origin, and of two origins.
MCUses == {{1, 2}, {3, 4}, {3, 5}}
=============================================================================
