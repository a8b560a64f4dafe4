------------------------------- MODULE MCRates -------------------------------
(* Rates on small instances. *)
EXTENDS RatesSafety

CONSTANTS c1, c2, s1

MCStockCurrency == [s \in Stocks |-> c1]

\* One series with a price on every day, one with a day off, one without any.
MCTrading == [x \in Series |-> CASE x = <<c1, c2>> -> Days
                                 [] x = s1 -> {0, MaxDay}
                                 [] OTHER -> {}]
==============================================================================
