----------------------------- MODULE MCPackages -----------------------------
(***************************************************************************)
(* Three packages.  aa 1.1.0 is published while the project works.  Until  *)
(* it is there, bb pulls in aa 1.0.0, which takes the patches of cc 0.1    *)
(* and not 0.2; then aa needs bb and bb needs aa: a cycle.  What several   *)
(* publishers of aa 1.1.0 do to each other is checked without commands.    *)
(***************************************************************************)
EXTENDS Packages

No == [n \in {} |-> Nil]

On(n, kind, v) == [m \in {n} |-> [kind |-> kind, base |-> v]]

MCReleases ==
    At("aa", V(1, 0, 0)) :> On("cc", "caret", V(0, 1, 0))
    @@ At("aa", V(1, 1, 0)) :> On("bb", "any", V(0, 0, 0))
    @@ At("bb", V(1, 0, 0)) :> On("aa", "caret", V(1, 0, 0))
    @@ At("cc", V(0, 1, 0)) :> No
    @@ At("cc", V(0, 2, 0)) :> No

MCPublished == DOMAIN MCReleases \ {At("aa", V(1, 1, 0))}

MCManifests ==
    {On("aa", "any", V(0, 0, 0)) @@ On("cc", "any", V(0, 0, 0)),
     On("bb", "exact", V(1, 0, 0)) @@ On("cc", "tilde", V(0, 1, 0))}

(* Several publishers of one release, or commands beside one publisher.    *)
NotBoth == contested = {} \/ commands = 0

PublisherSymmetry == Permutations(Publishers)
=============================================================================
