-------------------------------- MODULE Amounts --------------------------------
(***************************************************************************)
(* What a service makes of the money and the currency codes it is sent:     *)
(* the fields of its API, the Money of its domain and the columns of its    *)
(* tables.  An amount is a number of thousandths, one decimal more than is  *)
(* ever kept.                                                              *)
(***************************************************************************)
EXTENDS Integers

CONSTANTS
  Largest,   \* what a NUMERIC(14, 2) holds
  CodeOf     \* CodeOf[typed]: the code in capitals, "" if it is not three letters

Cent == 10

Size(amount) == IF amount < 0 THEN -amount ELSE amount

(* The column, which refuses what is too large.                            *)
Fits(amount) == Size(amount) <= Largest

(* The field of a request: no more digits than the column has, on either    *)
(* side of the point.                                                      *)
MoneyField(amount) == amount % Cent = 0 /\ Fits(amount)

(* Money: to the nearest cent, a half away from zero.                      *)
Money(amount) ==
  LET cents == (Size(amount) + Cent \div 2) \div Cent
  IN  IF amount < 0 THEN -cents * Cent ELSE cents * Cent

ValidCode(typed) == CodeOf[typed] # ""
=============================================================================
