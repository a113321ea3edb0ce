------------------------------ MODULE MCRecords ------------------------------
(* One address that may have two accounts, one after the other, and visitors; *)
(* four days, of which two are kept, a buffer that is full at two rows.     *)
EXTENDS Records, TLC

IdsAreAlike == Permutations(Ids)
==============================================================================
