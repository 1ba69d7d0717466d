-------------------------------- MODULE MCPages -------------------------------
(***************************************************************************)
(* WinnerPages with five wallets whose keys need both of their bytes.      *)
(***************************************************************************)
EXTENDS WinnerPages

SomeWinners ==
  { [wallet |-> 1,  tickets |-> 1], [wallet |-> 6,  tickets |-> 2],
    [wallet |-> 9,  tickets |-> 3], [wallet |-> 11, tickets |-> 1],
    [wallet |-> 15, tickets |-> 3] }
===============================================================================
