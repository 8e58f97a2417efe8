--------------------------- MODULE MCBillingCycle ---------------------------
(* BillingCycle on a short calendar for TLC.                               *)
EXTENDS BillingCycle

ShortMonths == <<3, 4, 3, 5>>
ShortFirst  == 4 .. 7
SmallSettlementDays == {1, 3}
SmallLengths        == 1 .. 5
=============================================================================
