------------------------------ MODULE MCLightDemo ------------------------------
(***************************************************************************)
(* The light demo for TLC: the states the framework can ask for.           *)
(***************************************************************************)
EXTENDS LightDemo

Asked ==
    {NotificationLight, Off}
    \cup {ScreenLight(b) : b \in {0} \cup FirstBrightness \cup {ToBrightness(p) : p \in Positions}}
===============================================================================
