--------------------------- MODULE MCSpendingFigures ---------------------------
(* Instances of SpendingFigures for TLC. *)
EXTENDS SpendingFigures

Fact(id, user, month, kind, category, amount) ==
  [id |-> id, user |-> user, month |-> month, kind |-> kind, category |-> category,
   amount |-> amount, currency |-> "COP", account |-> "a", description |-> category]

(* One user with seven months, two currencies and two accounts, and the    *)
(* expenses of three others in one category.                               *)
MCCandidates ==
  {Fact(1, "u", 1, "expense", 1, 10), Fact(2, "u", 4, "expense", 1, 9),
   Fact(3, "u", 5, "expense", 1, 11), Fact(4, "u", 6, "expense", 2, 7),
   Fact(5, "u", 7, "expense", 1, 15), Fact(6, "u", 7, "income", 2, 20),
   [Fact(7, "u", 5, "expense", 2, 3) EXCEPT !.currency = "USD"],
   [Fact(8, "u", 7, "expense", 0, 5) EXCEPT !.account = "b"],
   Fact(9, "v", 7, "expense", 1, 4), Fact(10, "v", 7, "expense", 1, 6),
   Fact(11, "w", 7, "expense", 1, 2)}
=============================================================================
