-------------------------- MODULE MCClientLogIngest --------------------------
EXTENDS ClientLogIngest, TLC

CONSTANTS office, phone

MCNetworks == {office, phone}
\* Nothing, or anyone's address.
MCPads == {<<>>, <<office>>, <<phone>>}
MCUnits == {1, 2}
MCSymmetry == Permutations(MCNetworks)
=============================================================================
