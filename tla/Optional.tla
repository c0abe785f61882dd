------------------------------ MODULE Optional ------------------------------
(* What the code's undefined is in the models.                                *)
CONSTANTS None    \* absent
=============================================================================
