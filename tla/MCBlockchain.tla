---------------------------- MODULE MCBlockchain ----------------------------
(***************************************************************************)
(* Instances of Blockchain for TLC.                                        *)
(***************************************************************************)
EXTENDS Blockchain, TLC

CONSTANTS g, m1, m2, m3, b3, c2, a1, a2, a3, e3, t, u, v, w

\* Two branches from genesis, m1 m2 and a1 a2, each with two rival tips, m3 and
\* b3, a3 and e3, and c2 beside m2.
Parent == m1 :> g @@ m2 :> m1 @@ m3 :> m2 @@ b3 :> m2 @@ c2 :> m1
          @@ a1 :> g @@ a2 :> a1 @@ a3 :> a2 @@ e3 :> a2

RECURSIVE LineageOf(_)
LineageOf(b) == IF b = g THEN <<g>> ELSE Append(LineageOf(Parent[b]), b)

Lineage == [b \in Block |-> LineageOf(b)]

\* Every block has difficulty one.
Difficulty == [b \in Block |-> Len(LineageOf(b))]

\* The blocks above m1 are worth three of the others.
HeavyBranch == [b \in Block |-> IF b # g /\ LineageOf(b)[2] = m1 THEN 3 * Len(LineageOf(b))
                                ELSE Len(LineageOf(b))]

\* t is in both branches.  u and v spend one key image, so e3 has bad inputs
\* above a1; c2 spends it twice and is only found out by the database.
AllBodies == g :> {} @@ m1 :> {t} @@ m2 :> {u} @@ m3 :> {w} @@ b3 :> {} @@ c2 :> {u, v}
        @@ a1 :> {v} @@ a2 :> {t} @@ a3 :> {} @@ e3 :> {u}

Body == [b \in Block |-> AllBodies[b]]

KeyImages == t :> {1} @@ u :> {2} @@ v :> {2} @@ w :> {3}

\* w spends an output of m1 and is worth nothing on the other branch.
Ring == t :> {} @@ u :> {} @@ v :> {} @@ w :> {m1}

AnyRules == [x \in Tx |-> {1, 2}]
=============================================================================
