------------------------------- MODULE MCLog --------------------------------
(* Two processes, two sectors and a log of two blocks: a transaction can     *)
(* rewrite a block it has logged, fill the log and overflow it, or leave a   *)
(* sector out.                                                               *)
EXTENDS Log
=============================================================================
