------------------------------ MODULE MCCatalogue ------------------------------
(* Constants for TLC: `core` is a reserved prefix, x is a plugin. *)
EXTENDS Catalogue, TLC

CONSTANTS core, x, c1, xs, x1, admin, other

\* xs is a seeded permission with the prefix of a plugin, as xpulse:publish is
MCTwoSpaces == (c1 :> core) @@ (xs :> x) @@ (x1 :> x)
MCListed == (admin :> Seeded)
=============================================================================
