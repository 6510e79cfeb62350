------------------------- MODULE MCDecoratorLayers -------------------------
(***************************************************************************)
(* Small instances of DecoratorLayers.                                     *)
(***************************************************************************)
EXTENDS DecoratorLayers

FourNames == {"init", "reading", "mutating", "other"}
TwoPolicies == {"always", "read_only_opt_out"}
OnePolicy == {"always"}
============================================================================
