---------------------------- MODULE MCSurfaces ----------------------------
(***************************************************************************)
(* The instance of Surfaces for TLC: the constants that a .cfg cannot      *)
(* write.                                                                  *)
(***************************************************************************)
EXTENDS Surfaces, TLC

OneEach == [w \in Wallet |-> 1]

DigitValues == "0" :> 0 @@ "9" :> 9

Sizes == <<1, 2>>

\* A text with a space after it, and one so long that the cut ends at a space.
Cleaned == "" :> "" @@ "jo" :> "jo" @@ "jo " :> "jo" @@ "jo x" :> "jo "
CleanedFilter == "" :> "" @@ "f" :> "f" @@ "f " :> "f"

Subscriptions == [d1 |-> 2, d2 |-> 1]

Directions == [up |-> "above", dn |-> "below"]
Targets == [up |-> 2, dn |-> 1]

\* The supply is asked for between two reads that are kept longer.
KeptFor == [k \in {"tickers", "candles", "supply", "rate"} |-> IF k = "supply" THEN 1 ELSE 2]

\* The reads of the markets and of the exchange that run side by side.
ReadMixes == {{<<"tickers", "candles">>, <<"candles", "tickers">>},
              {<<"tickers", "supply", "candles">>}, {<<"rate">>}}

Lists == {{"btc"}, {}}
PriceOfOne == [btc |-> 1]
=============================================================================
