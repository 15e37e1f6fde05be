----------------------------- MODULE MCOrderBook -----------------------------
(* A conversation and a New order page; three products, two of one category,    *)
(* one in two wordings; a phone that is typed in two ways; Sunday night, the    *)
(* Monday after midnight, a Monday a week on, and a Sunday four weeks after the *)
(* first.                                                                     *)
EXTENDS OrderBook, TLC

Texts == {"", "Sin hielo", "sin hielo"}
NormalizedTexts == [t \in Texts |-> IF t = "Sin hielo" THEN "sin hielo" ELSE t]
Phones == {"300-1", "3001"}
CanonicalPhones == [t \in Phones |-> "3001"]
Products == {1, 2, 3}
Prices == 1 :> 2 @@ 2 :> 3 @@ 3 :> 1
Categories == 1 :> "platos" @@ 2 :> "bebidas" @@ 3 :> "platos"

Item(p, t, n) == [product |-> p, text |-> t, quantity |-> n]
Parsed(items, fee) == [items |-> items, phone |-> NoPhone, packaging_fee |-> fee]

Snapshots == {
    \* one product, its number still open
    Parsed(<<Item(1, "", 0)>>, 1),
    \* another one; the first is left out, if it was there
    Parsed(<<Item(2, "Sin hielo", 1)>>, 0),
    \* both, the second twice and in another wording, and a third
    Parsed(<<Item(1, "", 1), Item(2, "sin hielo", 1), Item(2, "Sin hielo", 1),
             Item(3, "", 1)>>, 0),
    \* something the catalog does not have
    Parsed(<<Item(Unknown, "", 1)>>, 0)}

FormRequests == {[items |-> <<1, "">> :> 2, phone |-> NoPhone, packaging_fee |-> 1]}

SessionPhones == [c \in Conversation |-> "3001"]
StatusMoves == {<<"draft", "cancelled">>, <<"draft", "delivered">>}
Hours == {172, 173, 353, 833}
==============================================================================
