------------------------ MODULE MCSaleFormalization ------------------------
(* SaleFormalization alone, for TLC: a sale of several quotas, and the runs *)
(* that need its fairness.                                                  *)
EXTENDS SaleFormalization
=============================================================================
