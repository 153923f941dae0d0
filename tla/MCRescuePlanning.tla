-------------------------- MODULE MCRescuePlanning --------------------------
(* RescuePlanning for TLC.                                                 *)
EXTENDS RescuePlanning, TLC

CONSTANTS weth, wsteth

TwoAssets == <<weth, wsteth>>

\* The second asset has the higher threshold and the lower bonus.
AssetLT == (weth :> 3) @@ (wsteth :> 4)
AssetBonus == (weth :> 4) @@ (wsteth :> 3)
=============================================================================
