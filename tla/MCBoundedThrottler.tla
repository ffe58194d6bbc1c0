------------------------- MODULE MCBoundedThrottler -------------------------
EXTENDS BoundedThrottler, TLC

CONSTANTS ip1, ip2, both, ip, email

MCKeys == {ip1, ip2, both}
MCNames == {ip, email}
\* Each guard puts its bucket's name into its keys; one more key is shared by two
\* names, the shape the storage contract allows.
MCUses == [k \in MCKeys |-> IF k = both THEN MCNames ELSE {ip}]
MCLimit == [n \in MCNames |-> IF n = ip THEN 2 ELSE 1]
MCTtl == [n \in MCNames |-> IF n = ip THEN 2 ELSE 3]

MCSymmetry == Permutations({ip1, ip2})
=============================================================================
