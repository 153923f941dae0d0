---------------------- MODULE MCLiquidationShieldVault ----------------------
(* LiquidationShieldVault for TLC.                                         *)
EXTENDS LiquidationShieldVault

\* A mandate with a band, a stricter one that expires first, and a wider one
\* under the first one's nonce that the borrower never signed.
Presented ==
    {[nonce |-> 1, base |-> 12, max |-> 13, cost |-> 5, deadline |-> 1,
      signed |-> TRUE, allowed |-> TRUE],
     [nonce |-> 2, base |-> 15, max |-> 15, cost |-> 0, deadline |-> 0,
      signed |-> TRUE, allowed |-> TRUE],
     [nonce |-> 1, base |-> 0, max |-> 1, cost |-> 9, deadline |-> 1,
      signed |-> FALSE, allowed |-> TRUE]}
=============================================================================
