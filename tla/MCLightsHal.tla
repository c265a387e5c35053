------------------------------ MODULE MCLightsHal ------------------------------
(***************************************************************************)
(* Instances of LightsHal for TLC.  The framework's threads are            *)
(* interchangeable.                                                        *)
(***************************************************************************)
EXTENDS LightsHal, TLC

Symmetry == Permutations(Threads)

Light3(color, flash, on, off) ==
    [color |-> color, flash |-> flash, on |-> on, off |-> off]

\* Alpha 1; magenta flashing, the color of the demo app; white; unlit with an
\* alpha.
Magenta == Light3(16777216 + 255 * 65536 + 255, TRUE, 100, 200)
White == Light3(16777216 + 16777215, FALSE, 0, 0)
Unlit == Light3(16777216, TRUE, 100, 200)

AllStates == {Magenta, White, Unlit}
===============================================================================
