---------------------------- MODULE PolicyStore -----------------------------
(***************************************************************************)
(* Three policy collections of store.Store and their mirror in PostgreSQL: *)
(* custom rules, the IP list and the rule exceptions (store.go and         *)
(* persist.go).                                                            *)
(*                                                                         *)
(* Every operation holds Store.mu from its first read to its last SQL      *)
(* statement, so it is one action; a crash inside it is a Restart before   *)
(* or after it.  A collection is a set of entries.  An entry has the key   *)
(* of the Go map it sits under and the identifier shown to clients, which  *)
(* persist.go may set apart.  A statement the schema rejects is only       *)
(* logged: it leaves the table as it was.                                  *)
(***************************************************************************)
EXTENDS Integers, Sequences, FiniteSets

CONSTANTS
  RuleIds,      \* SecLang rule numbers
  Texts,        \* what a rule says: its SecLang source, name and active flag
  Cidrs,        \* networks of IP list entries
  Paths,        \* path patterns of exceptions
  SeedRules,    \* SeedDemo: numbers of the seeded rules ...
  SeedText,     \* ... and what they say
  SeedIps,      \* SeedDemo: sequence of the seeded networks, [cidr, list]
  SeedPaths,    \* SeedDemo: sequence of the paths of the seeded exceptions
  MaxUuid,      \* bound: number of row identifiers drawn
  MaxEntries,   \* bound: number of entries of the IP list
  MaxExceptions, \* bound: number of exceptions
  MaxBoots      \* bound: number of restarts

Lists == {"allow", "block"}
Nets  == [cidr: Cidrs, list: Lists]

ASSUME RulesAssumption == RuleIds \subseteq Nat /\ SeedRules \subseteq RuleIds /\ SeedText \in Texts
ASSUME IpsAssumption ==
  /\ SeedIps \in Seq(Nets)
  /\ \A i, j \in 1..Len(SeedIps) : SeedIps[i] = SeedIps[j] => i = j
ASSUME PathsAssumption == SeedPaths \in Seq(Paths)
ASSUME BoundsAssumption ==
  /\ MaxUuid \in Nat /\ MaxBoots \in Nat
  /\ MaxEntries \in Nat /\ MaxExceptions \in Nat

VARIABLES
  rules,       \* Store.Rules
  ruleRows,    \* table custom_rules
  ips,         \* Store.IpList
  ipRows,      \* table ip_list
  exceptions,  \* Store.Exceptions; table rule_exceptions never gets a row
  lastUuid,    \* gen_random_uuid(): identifiers are drawn from a counter
  deleted,     \* ghost: this process has deleted an IP entry
  boots        \* number of restarts so far

ruleVars == <<rules, ruleRows>>
ipVars   == <<ips, ipRows, deleted>>
vars == <<ruleVars, ipVars, exceptions, lastUuid, boots>>

-----------------------------------------------------------------------------
(* Data *)

\* Keys and identifiers: "rule-%d", "ip-%d" and "exc-%06d" are named, those of
\* seeded exceptions are written differently, those of rows are UUIDs.
Kinds == {"name", "seed", "uuid"}
Key == [kind: Kinds, n: Nat]
Named(n)  == [kind |-> "name", n |-> n]
Seeded(n) == [kind |-> "seed", n |-> n]
Uuid(n)   == [kind |-> "uuid", n |-> n]

\* sited: the rule names a site.  Site identifiers are no UUIDs ("site-001"), so
\* the cast in the INSERT of such a rule fails.
Rule    == [key: Key, rid: RuleIds, text: Texts, sited: BOOLEAN]
RuleRow == [uuid: Nat, rid: RuleIds, text: Texts]
IpEntry == [key: Key, id: Key, cidr: Cidrs, list: Lists]
IpRow   == [uuid: Nat, cidr: Cidrs, list: Lists]
Exception == [key: Key, path: Paths]

\* map[x.key] = x
Put(map, x) == {y \in map : y.key # x.key} \cup {x}

-----------------------------------------------------------------------------
(* A new process: SeedDemo, then LoadFromPostgres adds what the tables hold *)

\* The seeded rules name a site: seedIfEmpty cannot write them.
BootRules(rows) ==
       {[key |-> Named(r), rid |-> r, text |-> SeedText, sited |-> TRUE] : r \in SeedRules}
  \cup {[key |-> Uuid(row.uuid), rid |-> row.rid, text |-> row.text, sited |-> FALSE] : row \in rows}

\* seedIfEmpty: an empty table receives the seeded networks.
BootIpRows(rows, first) ==
  IF rows # {} THEN rows
  ELSE {[uuid |-> first + i, cidr |-> SeedIps[i].cidr, list |-> SeedIps[i].list] : i \in DOMAIN SeedIps}

\* A seeded entry that was just written shows the identifier of its row, and
\* loadIps adds the row once more under that identifier.
BootIps(rows, first) ==
       {[key |-> Named(i), id |-> IF rows # {} THEN Named(i) ELSE Uuid(first + i),
         cidr |-> SeedIps[i].cidr, list |-> SeedIps[i].list] : i \in DOMAIN SeedIps}
  \cup {[key |-> Uuid(row.uuid), id |-> Uuid(row.uuid), cidr |-> row.cidr, list |-> row.list] :
         row \in BootIpRows(rows, first)}

\* loadExceptions fails: it selects a column the table does not have.
BootExceptions == {[key |-> Seeded(i), path |-> SeedPaths[i]] : i \in DOMAIN SeedPaths}

Init ==
  /\ ruleRows = {}
  /\ rules = BootRules({})
  /\ ipRows = BootIpRows({}, 0)
  /\ ips = BootIps({}, 0)
  /\ exceptions = BootExceptions
  /\ lastUuid = Len(SeedIps)
  /\ deleted = FALSE
  /\ boots = 0

Restart ==
  /\ boots < MaxBoots
  /\ boots' = boots + 1
  /\ rules' = BootRules(ruleRows)
  /\ ipRows' = BootIpRows(ipRows, lastUuid)
  /\ ips' = BootIps(ipRows, lastUuid)
  /\ exceptions' = BootExceptions
  /\ lastUuid' = IF ipRows = {} THEN lastUuid + Len(SeedIps) ELSE lastUuid
  /\ deleted' = FALSE
  /\ UNCHANGED ruleRows

\* The identifier counter after a statement that left rows behind.
Drawn(rows) == IF \E row \in rows : row.uuid = lastUuid + 1 THEN lastUuid + 1 ELSE lastUuid

-----------------------------------------------------------------------------
(* Custom rules: the row is found by rule number, the entry by its key *)

\* Mutant: an upsert that leaves the text of an existing row alone.
SavedRuleKept(r) ==
  IF r.sited \/ \E row \in ruleRows : row.rid = r.rid THEN ruleRows
  ELSE ruleRows \cup {[uuid |-> lastUuid + 1, rid |-> r.rid, text |-> r.text]}

\* saveRuleRow: INSERT ... ON CONFLICT (rule_id) DO UPDATE.
SavedRule(r) ==
  IF r.sited THEN ruleRows
  ELSE IF \E row \in ruleRows : row.rid = r.rid
    THEN {IF row.rid = r.rid THEN [row EXCEPT !.text = r.text] ELSE row : row \in ruleRows}
    ELSE ruleRows \cup {[uuid |-> lastUuid + 1, rid |-> r.rid, text |-> r.text]}

CreateRule(rid, text, sited) ==
  LET r == [key |-> Named(rid), rid |-> rid, text |-> text, sited |-> sited] IN
  /\ lastUuid < MaxUuid
  /\ rules' = Put(rules, r)
  /\ ruleRows' = SavedRule(r)
  /\ lastUuid' = Drawn(ruleRows')
  /\ UNCHANGED <<ipVars, exceptions, boots>>

UpdateRule(old, text) ==
  LET r == [old EXCEPT !.text = text] IN
  /\ lastUuid < MaxUuid
  /\ rules' = Put(rules, r)
  /\ ruleRows' = SavedRule(r)
  /\ lastUuid' = Drawn(ruleRows')
  /\ UNCHANGED <<ipVars, exceptions, boots>>

DeleteRule(r) ==
  /\ rules' = rules \ {r}
  /\ ruleRows' = {row \in ruleRows : row.rid # r.rid}
  /\ UNCHANGED <<ipVars, exceptions, lastUuid, boots>>

-----------------------------------------------------------------------------
(* IP list: the row is found by network, or by the key if that is its UUID *)

StoredNever(net) == FALSE  \* mutant: saveIpRow inserts without looking

\* saveIpRow: SELECT EXISTS ... WHERE cidr AND list.
Stored(net) == \E row \in ipRows : row.cidr = net.cidr /\ row.list = net.list

\* Mutant: the identifier is read back by network alone.
RowIdsOfCidr(net, rows) == {row.uuid : row \in {x \in rows : x.cidr = net.cidr}}

\* saveIpRow: SELECT id ... WHERE cidr AND list, after the INSERT.
RowIds(net, rows) ==
  {row.uuid : row \in {x \in rows : x.cidr = net.cidr /\ x.list = net.list}}

IpKeyOfRows == Named(Cardinality(ipRows) + 1)  \* mutant: the rows are counted

IpKeyUnset == [kind |-> "", n |-> 0]  \* mutant: the identifier stays empty

\* AddIp numbers the entry by the size of the map.
IpKey == Named(Cardinality(ips) + 1)

AddIp(net) ==
  LET rows == IF Stored(net) THEN ipRows
              ELSE ipRows \cup {[uuid |-> lastUuid + 1, cidr |-> net.cidr, list |-> net.list]}
  IN
  /\ lastUuid < MaxUuid
  /\ Cardinality(ips) < MaxEntries
  /\ ipRows' = rows
  /\ \E id \in IF Stored(net) THEN {IpKey} ELSE {Uuid(u) : u \in RowIds(net, rows)} :
       ips' = Put(ips, [key |-> IpKey, id |-> id, cidr |-> net.cidr, list |-> net.list])
  /\ lastUuid' = Drawn(rows)
  /\ UNCHANGED <<ruleVars, deleted, exceptions, boots>>

DeleteIp(e) ==
  /\ ips' = ips \ {e}
  /\ ipRows' = {row \in ipRows : Uuid(row.uuid) # e.key}
  /\ deleted' = TRUE
  /\ UNCHANGED <<ruleVars, exceptions, lastUuid, boots>>

-----------------------------------------------------------------------------
(* Exceptions: saveExceptionRow names a column the table does not have, so no  *)
(* row is ever written or deleted                                              *)

CreateException(path) ==
  /\ Cardinality(exceptions) < MaxExceptions
  /\ exceptions' = Put(exceptions, [key |-> Named(Cardinality(exceptions) + 1), path |-> path])
  /\ UNCHANGED <<ruleVars, ipVars, lastUuid, boots>>

DeleteException(x) ==
  /\ exceptions' = exceptions \ {x}
  /\ UNCHANGED <<ruleVars, ipVars, lastUuid, boots>>

-----------------------------------------------------------------------------
Next ==
  \/ \E rid \in RuleIds, text \in Texts, sited \in BOOLEAN : CreateRule(rid, text, sited)
  \/ \E r \in rules : DeleteRule(r) \/ \E text \in Texts : UpdateRule(r, text)
  \/ \E net \in Nets : AddIp(net)
  \/ \E e \in ips : DeleteIp(e)
  \/ \E path \in Paths : CreateException(path)
  \/ \E x \in exceptions : DeleteException(x)
  \/ Restart

Spec == Init /\ [][Next]_vars

-----------------------------------------------------------------------------
(* Properties *)

\* Every variable has its type: in particular no entry sits under an identifier the
\* code never makes, "" among them, whether it was numbered by AddIp, seeded or
\* loaded (store.go:320, persist.go:200-211).
TypeOK ==
  /\ rules \subseteq Rule /\ \A x, y \in rules : x.key = y.key => x = y
  /\ ruleRows \subseteq RuleRow
  /\ ips \subseteq IpEntry /\ \A x, y \in ips : x.key = y.key => x = y
  /\ ipRows \subseteq IpRow
  /\ exceptions \subseteq Exception
  /\ lastUuid \in Nat
  /\ deleted \in BOOLEAN
  /\ boots \in Nat

\* A row of custom_rules stands for a rule in force, so that a restart brings no
\* deleted rule back and no superseded text: after a restart a rule can be in
\* memory twice, under its number and under its row's UUID, and either copy may
\* be edited, replaced or deleted (store.go:201-231).  Only a rule created with a
\* site may leave an older row behind, which it cannot overwrite.
RuleRowsLive ==
  \A row \in ruleRows : \E r \in rules :
    r.rid = row.rid /\ (r.text = row.text \/ r.sited)

\* One row per network and list, though the table has no such constraint: the
\* existence test of saveIpRow is never raced (persist.go:200-211).
UniqueIpRows ==
  \A a, b \in ipRows : a.cidr = b.cidr /\ a.list = b.list => a = b

\* An identifier shown to clients may lead to nothing, but never to the entry of
\* another network: deleting by it removes what was meant or is refused, in
\* memory and in the table (store.go:329-336, persist.go:213-217).
IdsDoNotStray ==
  \A e \in ips :
    /\ \A f \in ips : f.key = e.id => f.cidr = e.cidr /\ f.list = e.list
    /\ \A row \in ipRows : Uuid(row.uuid) = e.id => row.cidr = e.cidr /\ row.list = e.list

\* Until an entry is deleted in this process, an addition never replaces one:
\* the number drawn from the size of the map is free, also after a restart that
\* mixed seeded and loaded entries (store.go:320).
AddsKeepEntries ==
  [][~deleted /\ ~deleted' /\ boots' = boots => ips \subseteq ips']_vars

\* persist.go:4-5, "state is reloaded on boot so policy survives container
\* restarts": an exception in force before a restart is in force after it.
ExceptionsSurvive ==
  [][boots' # boots =>
       {x.path : x \in exceptions} \subseteq {x.path : x \in exceptions'}]_vars
=============================================================================
