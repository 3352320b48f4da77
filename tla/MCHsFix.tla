------------------------------- MODULE MCHsFix -------------------------------
(* Instances of HsFix: the shipped symbol.yaml and app.yaml, the tables read *)
(* the other way round, with and without passthrough. Under these orders are *)
(* handled; under them and under every symbolSet over three codes with at    *)
(* most two entries, and a malformed exchangeSet, codes are looked up.       *)
EXTENDS HsFix, FiniteSets

Entry(code) == [type |-> "string", code |-> code]
Flag == [type |-> "other", code |-> "1"]

MCAccountMap ==
  [a \in {"1000"} |-> [CPBH |-> "00080003", ZCDYBH |-> "1",
                       SHAGDDM |-> "B881182401", ZZAGDDM |-> "0800049247"]]

MCCodes == {"10000", "1", "2", "3", "4", "n", "o",
            "XSHG", "XSHE", "XSSC", "XSEC", "XNYS"}

Shipped(k) == CASE k = "XSHG" -> "1" [] k = "XSHE" -> "2"
                [] k = "XSSC" -> "3" [] k = "XSEC" -> "4"
ShippedExchanges ==
  [k \in {"XSHG", "XSHE", "XSSC", "XSEC", "passthrough"} |->
     IF k = "passthrough" THEN Flag ELSE Entry(Shipped(k))]
ShippedSymbols ==
  [k \in {"10000", "passthrough"} |->
     IF k = "passthrough" THEN Flag ELSE [type |-> "int", code |-> k]]

Channel(k) == CASE k = "1" -> "XSHG" [] k = "2" -> "XSHE"
                [] k = "n" -> "XSSC" [] k = "o" -> "XSEC"
ChannelExchanges == [k \in {"1", "2", "n", "o"} |-> Entry(Channel(k))]
NoPassthrough == [k \in {"10000"} |-> Entry(k)]

MCSymbols   == {ShippedSymbols, NoPassthrough}
MCExchanges == {ShippedExchanges, ChannelExchanges}

SmallCodes == {"1", "10000", "XSHG"}
Scalars    == {Entry(c) : c \in SmallCodes} \cup {[type |-> "other", code |-> "1"]}

SmallSections ==
  {f \in UNION {[K -> Scalars] : K \in {K \in SUBSET (SmallCodes \cup {"passthrough"}) :
                                   Cardinality(K \ {"passthrough"}) <= 2}} :
     "passthrough" \in DOMAIN f => f["passthrough"] = Flag}

\* Two keys share a value; a value is a number, which ends the start.
SharedExchanges == [k \in {"XSHG", "XSHE"} |-> Entry("1")]
BadExchanges    == [k \in {"XSHG", "XSHE"} |->
                      IF k = "XSHG" THEN Entry("1") ELSE [type |-> "int", code |-> "2"]]

MCAllSymbols   == MCSymbols \cup SmallSections
MCAllExchanges == MCExchanges \cup {SharedExchanges, BadExchanges}
MCShippedSymbols    == {ShippedSymbols}
MCShippedExchanges  == {ShippedExchanges}

Order(missing, t, q, sym, x, side, a) ==
  [missing |-> missing, ordType |-> t, qty |-> q, symbol |-> sym,
   exchange |-> x, side |-> side, account |-> a]

Usual(t, q, x) == Order({}, t, q, "10000", x, "BUY", "1000")

\* Every market, order type and lot; one thing wrong or missing at a time.
MCOrders ==
  {Usual(t, q, x) : t \in {"LIMIT", "MARKET"}, q \in {99, 100},
                    x \in {"XSHG", "XSHE", "XSSC", "XSEC", "XNYS"}}
  \cup {[Usual(t, 100, "XSHG") EXCEPT !.missing = {tag}] :
          tag \in Tags, t \in {"LIMIT", "MARKET"}}
  \cup {Usual("STOP", 100, x) : x \in {"XSHG", "XNYS"}}
  \cup {[Usual("LIMIT", 100, x) EXCEPT !.account = "1001"] : x \in {"XSHG", "XNYS"}}
  \cup {[Usual("LIMIT", 100, "XSHG") EXCEPT !.side = d] : d \in {"SELL", "SELL_SHORT"}}
  \cup {[Usual("LIMIT", 100, "XSHG") EXCEPT !.symbol = "XNYS"]}

MCTargetCompID == [s \in FixSessions |-> "QeelynPB"]

-----------------------------------------------------------------------------
\* The tables are those of a configuration under which orders are handled.
ForOrders ==
  \E c \in Counterparties, sym \in MCSymbols, exch \in MCExchanges :
    /\ symbols = [p \in {c} |-> CodeSetOf(sym, {"string", "int"})]
    /\ exchanges = [p \in {c} |-> CodeSetOf(exch, {"string"})]

\* A lookup of the codes' own: it changes only the answer.
AskSymbology ==
  /\ orderID = 0
  /\ \E code \in Codes, c \in Counterparties : LookupOf(code, c)
  /\ UNCHANGED hsVars

MCNext ==
  \/ answer = NoLookup /\ (phase = "applied" => ForOrders) /\ Next
  \/ AskSymbology

MCSpec == Init /\ [][MCNext]_vars
=============================================================================
