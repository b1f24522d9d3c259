-------------------------------- MODULE AuditLog --------------------------------
(***************************************************************************)
(* The audit log of the control plane, and the two filters over it: the    *)
(* query of listLogs and the one the Log Explorer applies to the rows it   *)
(* was given.                                                              *)
(*                                                                         *)
(* An entry is what the filters look at: the ids of the rules that matched,*)
(* the action taken and the host.  The log is kept newest first; edges     *)
(* append batches of any size and the store cuts it to Cap entries (100000 *)
(* in the code).  `all' is the log as it would be without the cut.         *)
(***************************************************************************)
EXTENDS Naturals, Sequences

CONSTANTS Entries,   \* what edges may report
          Seeded,    \* the entries of the seed
          Cap        \* how many entries the store keeps

VARIABLES log, all

\* The first n elements of s, or all of them.
Newest(n, s) == IF Len(s) > n THEN SubSeq(s, 1, n) ELSE s

\* mutant: the cut keeps the old end.
IngestKeepingOld(batch) ==
  LET s == batch \o log IN
  /\ log' = IF Len(s) > Cap THEN SubSeq(s, Len(s) - Cap + 1, Len(s)) ELSE s
  /\ all' = batch \o all

\* The batch goes in front of the log as it is.
Ingest(batch) ==
  /\ log' = Newest(Cap, batch \o log)
  /\ all' = batch \o all

Init == log = Seeded /\ all = Seeded

Next == \E batch \in Seq(Entries) : Ingest(batch)

Spec == Init /\ [][Next]_<<log, all>>

-------------------------------------------------------------------------------
(* Filters: a rule prefix, an action and a host, of which any may be unset *)

NoFilter == [rule |-> 0, action |-> "any", host |-> "any"]

\* The decimal form of id starts with that of q.
StartsWith(id, q) == \E k \in 0..6 : id \div 10^k = q

\* The elements of s that are in K, in order: a loop that appends.
Select(s, K) ==
  LET kept[i \in 0..Len(s)] ==
        IF i = 0 THEN <<>>
        ELSE IF s[i] \in K THEN Append(kept[i - 1], s[i]) ELSE kept[i - 1]
  IN kept[Len(s)]

\* What each parameter, or chip of the page, asks of an entry.
ByRule(rule) ==
  {l \in Entries : rule = NoFilter.rule \/ \E i \in DOMAIN l.rules : StartsWith(l.rules[i], rule)}
ByAction(action) == {l \in Entries : action = NoFilter.action \/ l.action = action}
ByHost(host) == {l \in Entries : host = NoFilter.host \/ l.host = host}

\* listLogs: a pass for every parameter, over what the last one has left.
ListLogs(logs, q) ==
  Select(Select(Select(logs, ByRule(q.rule)), ByAction(q.action)), ByHost(q.host))

\* mutant: a row is shown for its first rule only.
FilteredByFirstRule(rows, f) ==
  Select(rows, {l \in Entries : /\ f.rule # NoFilter.rule =>
                                     \E i \in DOMAIN l.rules \cap {1} : StartsWith(l.rules[i], f.rule)
                                /\ l \in ByAction(f.action) \cap ByHost(f.host)})

\* The page's filter: one pass, every chip at once.
Filtered(rows, f) ==
  Select(rows, {l \in Entries :
    /\ f.rule # NoFilter.rule => \E i \in DOMAIN l.rules : StartsWith(l.rules[i], f.rule)
    /\ f.action # NoFilter.action => l.action = f.action
    /\ f.host # NoFilter.host => l.host = f.host})

-------------------------------------------------------------------------------
\* The log and its history are sequences of entries, and the log fits.
TypeOK ==
  /\ log \in Seq(Entries) /\ all \in Seq(Entries)
  /\ Len(log) <= Cap

\* Whatever the batches, even one longer than the cap, the log holds the newest
\* Cap entries ever reported, in order: the cut never drops one that is newer
\* than one it keeps (store.go:527-531).
KeepsNewest == log = Newest(Cap, all)
===============================================================================
