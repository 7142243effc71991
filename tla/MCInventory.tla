------------------------------ MODULE MCInventory ------------------------------
(***************************************************************************)
(* An instance of Inventory for TLC: two days of one year and one of the   *)
(* next, in two months; the second algorithm needs one field more.         *)
(***************************************************************************)
EXTENDS Inventory

CONSTANTS firdewsa, icon, Temperature, Rain

MCYearOf == <<2009, 2009, 2010>>
MCMonthOf == <<200912, 200912, 201001>>
MCFieldsOf == [a \in {firdewsa, icon} |-> IF a = icon THEN {Temperature, Rain} ELSE {Temperature}]

Request(a, first, last, missing) ==
  [algorithm |-> a, first |-> first, last |-> last, missing |-> missing]
MCRequests ==
  {Request(icon, 1, 3, FALSE), Request(icon, 1, 3, TRUE),
   Request(firdewsa, 1, 3, FALSE), Request(icon, 2, 2, TRUE)}

Holding(rain) == [f \in {Temperature, Rain} |-> IF f = Rain THEN rain ELSE 1..3]
MCArchives == {Holding(1..3), Holding({1, 3})}
=============================================================================
