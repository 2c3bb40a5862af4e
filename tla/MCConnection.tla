--------------------------- MODULE MCConnection ---------------------------
(* Two threads that may dial one peer, and the peer that may dial us, for   *)
(* TLC.                                                                     *)
EXTENDS Connection

CONSTANTS d1, d2

SupportedList == <<"aes", "blowfish">>
ProposalSet ==
  [offer : {<<"blowfish", "aes">>}, order : {-1, 1}]
    \cup [offer : {<<"none of ours">>}, order : {1}]
=============================================================================
