------------------------- MODULE MCSessionFamilies -------------------------
EXTENDS SessionFamilies, TLC

CONSTANTS t1, t2, t3, r1, r2, r3

MCTokens3 == {t1, t2, t3}
MCOneRoot == {t1}
MCTwoRoots == {t1, t2}

MCTwo == {r1, r2}
MCThree == {r1, r2, r3}

\* Two browsers or tabs that do anything but revoke-all.
MCBusy == [r \in MCTwo |-> {"rotate", "get", "logout"}]
\* Two requests that end sign-ins race one rotation.
MCSignOuts ==
  [r \in MCThree |-> CASE r = r1 -> {"logout", "revokeAll"} [] r = r2 -> {"logout"}
                       [] r = r3 -> {"rotate"}]
\* Sign out everywhere against a rotation or another of its kind.
MCEverywhere ==
  [r \in MCTwo |-> IF r = r1 THEN {"revokeAll"} ELSE {"revokeAll", "rotate"}]
\* One browser that rotates, another that rotates or signs out.
MCAlarm == [r \in MCTwo |-> IF r = r1 THEN {"rotate"} ELSE {"rotate", "logout"}]

\* The tokens a rotation mints are interchangeable, and so are two requests that
\* serve the same kinds; with two roots, the roots are.
MCTokenSymmetry == Permutations({t2, t3})
MCSymmetry == Permutations({t2, t3}) \cup Permutations(MCTwo)
MCRootSymmetry == Permutations(MCTwoRoots)
=============================================================================
