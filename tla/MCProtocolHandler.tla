------------------------- MODULE MCProtocolHandler -------------------------
(* Small instances of ProtocolHandler for TLC: two peers. *)
EXTENDS ProtocolHandler, TLC

CONSTANTS pa, pb

\* Both have the same chain and keep all of it.
SameChain == (pa :> <<"g", "x1", "x2", "x3">>) @@ (pb :> <<"g", "x1", "x2", "x3">>)
Full == (pa :> 0) @@ (pb :> 0)

\* The same, one block shorter.
ShortChain == (pa :> <<"g", "x1", "x2">>) @@ (pb :> <<"g", "x1", "x2">>)

\* They agree up to the third block, which is bad, and go on from it each on a
\* branch of its own; pb is pruned and keeps the first stripe.
Forked == (pa :> <<"g", "x1", "x2", "z3", "x4", "x5">>)
          @@ (pb :> <<"g", "x1", "x2", "z3", "y4", "y5">>)
OnePruned == (pa :> 0) @@ (pb :> 1)

\* pb's second block is bad.
BadBranch == (pa :> <<"g", "x1", "x2">>) @@ (pb :> <<"g", "x1", "z2">>)
=============================================================================
