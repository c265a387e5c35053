\* Two calls that throw.
SPECIFICATION Spec
CONSTANTS MaxLost = 2
INVARIANT LedsFollowBoxes
