-------------------------------- MODULE Maps --------------------------------
(* Python's dicts and directories of names, as functions with a changing    *)
(* domain.                                                                 *)

Without(f, S) == [x \in DOMAIN f \ S |-> f[x]]
With(f, x, y) == [z \in DOMAIN f \cup {x} |-> IF z = x THEN y ELSE f[z]]

=============================================================================
