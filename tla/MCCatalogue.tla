------------------------------ MODULE MCCatalogue ------------------------------
(* Instances of Catalogue: a device that gains and loses a function.         *)
EXTENDS Catalogue, TLC

CONSTANTS f, g, p1, p2
MCClasses == {{f}, {f, g}}
MCOffers == {[class |-> {f}, package |-> p1], [class |-> {f, g}, package |-> p2],
             [class |-> {f}, package |-> Keep]}
Symmetric == Permutations(Uploads)
================================================================================
