---------------------------- MODULE MCScopeTimer ----------------------------
(* Two labels and three slots: a label can have two slots beside another. *)
EXTENDS ScopeTimer

CONSTANTS lookup, insert

MCLabel == {lookup, insert}
=============================================================================
