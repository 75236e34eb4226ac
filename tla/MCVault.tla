------------------------------- MODULE MCVault ------------------------------
\* Instances of Vault for TLC.
EXTENDS Vault, TLC

CONSTANTS c1, c2, n1, n2, custom

\* Clover: items under no category, under one and under two.
MCCategoryName == [c \in Categories |-> n2]
MCFilings == {<<>>, <<c1>>, <<c2, c1>>}

\* A changed order, a deleted one, a deleted item.
MCEvents ==
  {[kind |-> "order", object |-> 1, type |-> "UPDATE"],
   [kind |-> "order", object |-> 1, type |-> "DELETE"],
   [kind |-> "item", object |-> 1, type |-> "DELETE"]}

\* Orders with odd amounts, weighed units, exchanged and refunded lines, discounts by
\* amount, by percentage and by both, and payments in every state.
Discount(amount, percentage) == [amount |-> amount, percentage |-> percentage]
Line(price, unitQty, exchanged_, refunded, discounts) ==
  [price |-> price, unitQty |-> unitQty, exchanged |-> exchanged_,
   refunded |-> refunded, discounts |-> discounts]
Payment(amount, tax, result) == [amount |-> amount, tax |-> tax, result |-> result]
Absent == -999

MCLines ==
  {<<>>,
   <<Line(5, Absent, FALSE, FALSE, <<Discount(Absent, 50), Discount(Absent, 50)>>)>>,
   <<Line(7, 1500, FALSE, FALSE, <<Discount(-2, Absent)>>),
     Line(4, Absent, FALSE, TRUE, <<>>)>>,
   <<Line(4, Absent, TRUE, FALSE, <<>>),
     Line(8, Absent, FALSE, FALSE, <<Discount(-6, 10)>>)>>}

MCPayments ==
  {<<>>, <<Payment(4, 1, "SUCCESS")>>,
   <<Payment(3, 0, "VOIDED"), Payment(4, 1, "AUTH_COMPLETED")>>,
   <<Payment(2, 0, "PENDING")>>}

MCReceipts ==
  [state: {"PAID", "OPEN", "PARTIALLY_PAID", "PARTIALLY_REFUNDED"},
   total: {Absent, 6}, lines: MCLines, payments: MCPayments]

\* November, December and January; amounts that no two sets of orders share.
MCMonthLengths == <<1, 2, 2>>
MCPrices == <<1, 2>>

\* Two display names of one slug, and a longer one; products that contain a word and
\* a part of it.
MCSigns == << <<"oak">>, <<"oak">>, <<"oak", "pots">> >>
MCWares == << <<"oak", "pots">>, <<"pottery">> >>
MCAsked == { <<>>, <<"oak">>, <<"pot">> }
MCParts == { <<"pot", "pots">>, <<"pot", "pottery">> }
MCLifetimes == [directory |-> 1, featured |-> 2]
MCFirstCatalog ==
  [m \in Makers |-> IF m = "a" THEN [name |-> 1, active |-> TRUE, items |-> {2}]
                    ELSE [name |-> 3, active |-> TRUE, items |-> {1}]]

Symmetry ==
  Permutations(Drains) \cup Permutations(ItemData) \cup Permutations(Emails)
=============================================================================
