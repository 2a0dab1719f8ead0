------------------------------ MODULE MCPicker ------------------------------
(* Three picks: two under way together and one more, before or after them. *)
EXTENDS Picker
=============================================================================
