------------------------------- MODULE MCAx --------------------------------
(* An exchange with clients that ask for a model and an explanation. *)
EXTENDS Ax

MCFlags == {{"model", "why"}}
=============================================================================
