---------------------------- MODULE MCChatTurns ----------------------------
(* ChatTurns for TLC.  Figures are in hundredths and every scale is smaller *)
(* than the code's: a percentage is 1/10, a token 50 raw units, a WAD 1000, *)
(* and the tolerance 1/20.  A tool returns 15.37 and a raw amount of 600,   *)
(* or an infinite figure.                                                   *)
EXTENDS ChatTurns

MCResults == {{1537, 60000}, {Infinite}}
\* 15.4, rounded, with 12 tokens and 0.6 as a ratio: backed once both are returned.
MCReplies == {{1540, 1200, 60}}
=============================================================================
