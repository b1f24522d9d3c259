------------------------------- MODULE MCConsole -------------------------------
(* A small instance of Console: two sites and one or two rows of every other *)
(* collection, and room for the rows the clicks can add.                    *)
EXTENDS Console

MCRows ==
  [crs |-> {920}, rules |-> {900001, 900003}, sites |-> {1, 2}, rates |-> {1, 2},
   bots |-> {1}, exceptions |-> {0, 2}, ips |-> {1, 2}, feeds |-> {1, 2},
   nodes |-> {1, 2}]

\* The rows of the seed; the pages' own mock rows are the same but for feeds.
MCSeeded ==
  [crs |-> {920}, rules |-> {900001}, sites |-> {1, 2}, rates |-> {1}, bots |-> {1},
   exceptions |-> {0}, ips |-> {1}, feeds |-> {1}, nodes |-> {1}]

First(coll, field) ==
  CASE coll = "rates" /\ field = "threshold" -> "some"
    [] coll = "feeds" -> "SYNCED"
    [] coll = "rules" /\ field # "active" -> "body"
    [] coll = "sites" -> "low"
    [] OTHER -> CHOOSE v \in Schema[coll][field] : TRUE

MCSeed ==
  [c \in Cells |-> IF c[2] \in MCSeeded[c[1]] THEN First(c[1], c[3]) ELSE Gone]

MCMocks == [c \in Cells |-> IF c[1] = "feeds" THEN Gone ELSE MCSeed[c]]

\* The mock entries, and one of a transaction that no rule matched.
MCLogEntries ==
  {MockLogs[i] : i \in DOMAIN MockLogs} \cup {[rules |-> <<>>, action |-> "ALLOW", host |-> "shop"]}

MCLogSeed == <<MockLogs[1], MockLogs[5]>>

\* One step more on the pages with few rows to click on.
MCMaxSteps ==
  [p \in Pages |-> IF p \in {"fleet", "exceptions", "bots"} THEN 3 ELSE 2]
===============================================================================
