------------------------- MODULE PolicyStoreProofs -------------------------
(***************************************************************************)
(* Proofs about PolicyStore, for every value of its constants: its types,  *)
(* and its four invariants across any number of restarts.                  *)
(***************************************************************************)
EXTENDS PolicyStore, FiniteSetTheorems, TLAPS

-----------------------------------------------------------------------------
(* Keys, maps and finite images *)

\* Keys of different kinds, or with different numbers, differ.
LEMMA KeyFacts ==
  ASSUME NEW m, NEW n
  PROVE  /\ Named(m) = Named(n) <=> m = n
         /\ Uuid(m) = Uuid(n) <=> m = n
         /\ Seeded(m) = Seeded(n) <=> m = n
         /\ Named(m) # Uuid(n)
         /\ Named(m).kind = "name" /\ Named(m).n = m
         /\ Uuid(m).kind = "uuid" /\ Uuid(m).n = m
         /\ m \in Nat => Named(m) \in Key /\ Uuid(m) \in Key /\ Seeded(m) \in Key
  BY DEF Named, Uuid, Seeded, Key, Kinds

\* An assignment to a map keeps one entry under a key.
LEMMA PutUnique ==
  ASSUME NEW map, NEW x, \A a, b \in map : a.key = b.key => a = b
  PROVE  /\ \A a, b \in Put(map, x) : a.key = b.key => a = b
         /\ x \in Put(map, x)
         /\ Put(map, x) \subseteq map \cup {x}
         /\ \A a \in map : a.key # x.key => a \in Put(map, x)
         /\ IsFiniteSet(map) => IsFiniteSet(Put(map, x))
<1>1. IsFiniteSet(map) => IsFiniteSet(Put(map, x))
  <2>1. SUFFICES ASSUME IsFiniteSet(map) PROVE IsFiniteSet(Put(map, x))
    OBVIOUS
  <2>2. IsFiniteSet(map \cup {x})
    BY <2>1, FS_AddElement
  <2> QED
    BY <2>2, FS_Subset DEF Put
<1> QED
  BY <1>1 DEF Put

\* A function on a finite set has a finite range.
LEMMA FiniteRange ==
  ASSUME NEW f, IsFiniteSet(DOMAIN f), f = [x \in DOMAIN f |-> f[x]]
  PROVE  IsFiniteSet(Range(f))
<1>1. f \in Surjection(DOMAIN f, Range(f))
  BY DEF Surjection, Range
<1> QED
  BY <1>1, FS_Surjection

\* The seeded networks and exceptions are finite sequences.
LEMMA SeedFacts ==
  /\ Len(SeedIps) \in Nat
  /\ DOMAIN SeedIps = 1..Len(SeedIps)
  /\ IsFiniteSet(DOMAIN SeedIps)
  /\ \A i \in DOMAIN SeedIps : i \in Nat \ {0} /\ SeedIps[i] \in Nets
  /\ IsFiniteSet(DOMAIN SeedPaths)
  /\ \A i \in DOMAIN SeedPaths : i \in Nat /\ SeedPaths[i] \in Paths
<1>1. /\ Len(SeedIps) \in Nat /\ DOMAIN SeedIps = 1..Len(SeedIps)
      /\ Len(SeedPaths) \in Nat /\ DOMAIN SeedPaths = 1..Len(SeedPaths)
  BY IpsAssumption, PathsAssumption
<1>2. IsFiniteSet(DOMAIN SeedIps) /\ IsFiniteSet(DOMAIN SeedPaths)
  BY <1>1, FS_Interval
<1> QED
  BY <1>1, <1>2, IpsAssumption, PathsAssumption

-----------------------------------------------------------------------------
(* The inductive invariant *)

\* The collections whose size numbers an entry are finite.
FiniteInv ==
  IsFiniteSet(ips) /\ IsFiniteSet(ipRows) /\ IsFiniteSet(exceptions)

\* A row identifier is drawn once: it is that of one row of each table, and none
\* is ahead of the counter, in a table or in memory.
UuidInv ==
  /\ \A a, b \in ruleRows : a.uuid = b.uuid => a = b
  /\ \A a, b \in ipRows : a.uuid = b.uuid => a = b
  /\ \A row \in ruleRows : row.uuid <= lastUuid
  /\ \A row \in ipRows : row.uuid <= lastUuid
  /\ \A e \in ips : /\ e.key.kind = "uuid" => e.key.n <= lastUuid
                    /\ e.id.kind = "uuid" => e.id.n <= lastUuid

\* The number in the name of a rule is the rule's.
NamedInv == \A r \in rules : r.key.kind = "name" => r.key.n = r.rid

\* An IP entry shows its own key or the identifier of a row.
ShownInv == \A e \in ips : e.id = e.key \/ e.id.kind = "uuid"

\* All that bear a row identifier speak of one network: entries by their key or
\* by what they show, and the row.
Bears(e, u) == e.key = Uuid(u) \/ e.id = Uuid(u)

OneNetInv ==
  \A u \in Nat :
    /\ \A e, f \in ips : Bears(e, u) /\ Bears(f, u) => e.cidr = f.cidr /\ e.list = f.list
    /\ \A e \in ips, row \in ipRows :
         Bears(e, u) /\ row.uuid = u => e.cidr = row.cidr /\ e.list = row.list

TypeInv == TypeOK /\ FiniteInv /\ UuidInv

\* What the two boot expressions of the IP list are made of.
LEMMA BootIpFacts ==
  ASSUME NEW rows, NEW first,
         NEW e \in BootIps(rows, first)
  PROVE  \/ \E i \in DOMAIN SeedIps :
              /\ e.key = Named(i)
              /\ e.id = IF rows # {} THEN Named(i) ELSE Uuid(first + i)
              /\ e = [key |-> e.key, id |-> e.id, cidr |-> SeedIps[i].cidr, list |-> SeedIps[i].list]
         \/ \E row \in BootIpRows(rows, first) :
              e = [key |-> Uuid(row.uuid), id |-> Uuid(row.uuid), cidr |-> row.cidr, list |-> row.list]
  BY DEF BootIps

LEMMA BootRowFacts ==
  ASSUME NEW first, NEW row \in BootIpRows({}, first)
  PROVE  \E i \in DOMAIN SeedIps :
           row = [uuid |-> first + i, cidr |-> SeedIps[i].cidr, list |-> SeedIps[i].list]
  BY DEF BootIpRows

\* The rules of a process that starts are well-typed, whatever the table holds.
LEMMA BootRuleTypes ==
  ASSUME NEW rr \in SUBSET RuleRow, \A a, b \in rr : a.uuid = b.uuid => a = b
  PROVE  /\ BootRules(rr) \subseteq Rule
         /\ \A x, y \in BootRules(rr) : x.key = y.key => x = y
<1>1. BootRules(rr) \subseteq Rule
  <2>1. ASSUME NEW r \in SeedRules
        PROVE  [key |-> Named(r), rid |-> r, text |-> SeedText, sited |-> TRUE] \in Rule
    BY <2>1, RulesAssumption, KeyFacts DEF Rule
  <2>2. ASSUME NEW row \in rr
        PROVE  [key |-> Uuid(row.uuid), rid |-> row.rid, text |-> row.text, sited |-> FALSE] \in Rule
    BY <2>2, KeyFacts DEF Rule, RuleRow
  <2> QED
    BY <2>1, <2>2 DEF BootRules
<1>2. \A x, y \in BootRules(rr) : x.key = y.key => x = y
  <2> SUFFICES ASSUME NEW x \in BootRules(rr), NEW y \in BootRules(rr), x.key = y.key
               PROVE  x = y
    OBVIOUS
  <2> DEFINE Seed(z, r) == z = [key |-> Named(r), rid |-> r, text |-> SeedText, sited |-> TRUE]
             Load(z, row) == z = [key |-> Uuid(row.uuid), rid |-> row.rid,
                                  text |-> row.text, sited |-> FALSE]
  <2>1. \A z \in BootRules(rr) :
          (\E r \in SeedRules : Seed(z, r)) \/ (\E row \in rr : Load(z, row))
    BY DEF BootRules
  <2>2. ASSUME NEW r \in SeedRules, NEW q \in SeedRules, Seed(x, r), Seed(y, q) PROVE x = y
    BY <2>2, KeyFacts
  <2>3. ASSUME NEW r \in rr, NEW q \in rr, Load(x, r), Load(y, q) PROVE x = y
    <3>1. Uuid(r.uuid) = Uuid(q.uuid)
      BY <2>3
    <3>2. r = q
      BY <3>1, KeyFacts
    <3> QED
      BY <2>3, <3>2
  <2>4. ASSUME NEW r \in SeedRules, NEW q \in rr PROVE ~(Seed(x, r) /\ Load(y, q))
    BY KeyFacts
  <2>5. ASSUME NEW r \in SeedRules, NEW q \in rr PROVE ~(Seed(y, r) /\ Load(x, q))
    BY KeyFacts
  <2> HIDE DEF Seed, Load
  <2> QED
    BY <2>1, <2>2, <2>3, <2>4, <2>5
<1> QED
  BY <1>1, <1>2

\* So are its exceptions.
LEMMA BootExceptionTypes ==
  BootExceptions \subseteq Exception /\ IsFiniteSet(BootExceptions)
<1>1. BootExceptions \subseteq Exception
  <2>1. ASSUME NEW i \in DOMAIN SeedPaths
        PROVE  [key |-> Seeded(i), path |-> SeedPaths[i]] \in Exception
    BY <2>1, SeedFacts, KeyFacts DEF Exception
  <2> QED
    BY <2>1 DEF BootExceptions
<1>2. IsFiniteSet(BootExceptions)
  <2> DEFINE f == [i \in DOMAIN SeedPaths |-> [key |-> Seeded(i), path |-> SeedPaths[i]]]
  <2>1. DOMAIN f = DOMAIN SeedPaths /\ f = [i \in DOMAIN f |-> f[i]]
    OBVIOUS
  <2>2. BootExceptions = Range(f)
    BY DEF BootExceptions, Range
  <2> HIDE DEF f
  <2> QED
    BY <2>1, <2>2, SeedFacts, FiniteRange
<1> QED
  BY <1>1, <1>2

\* So are its IP list and the table, seeded or not.
LEMMA BootIpTypes ==
  ASSUME NEW rows \in SUBSET IpRow, \A a, b \in rows : a.uuid = b.uuid => a = b,
         IsFiniteSet(rows), NEW first \in Nat,
         \A row \in rows : row.uuid <= first,
         NEW last \in Nat, last = IF rows = {} THEN first + Len(SeedIps) ELSE first
  PROVE  /\ BootIpRows(rows, first) \subseteq IpRow
         /\ IsFiniteSet(BootIpRows(rows, first))
         /\ \A a, b \in BootIpRows(rows, first) : a.uuid = b.uuid => a = b
         /\ \A row \in BootIpRows(rows, first) : row.uuid <= last
         /\ BootIps(rows, first) \subseteq IpEntry
         /\ IsFiniteSet(BootIps(rows, first))
         /\ \A x, y \in BootIps(rows, first) : x.key = y.key => x = y
         /\ \A e \in BootIps(rows, first) :
              /\ e.key.kind = "uuid" => e.key.n <= last
              /\ e.id.kind = "uuid" => e.id.n <= last
<1>1. BootIpRows(rows, first) \subseteq IpRow
  BY SeedFacts DEF BootIpRows, IpRow, Nets
<1>2. IsFiniteSet(BootIpRows(rows, first))
  <2>1. CASE rows # {}
    BY <2>1 DEF BootIpRows
  <2>2. CASE rows = {}
    <3> DEFINE f == [i \in DOMAIN SeedIps |->
          [uuid |-> first + i, cidr |-> SeedIps[i].cidr, list |-> SeedIps[i].list]]
    <3>1. DOMAIN f = DOMAIN SeedIps /\ f = [i \in DOMAIN f |-> f[i]]
      OBVIOUS
    <3>2. BootIpRows(rows, first) = Range(f)
      BY <2>2 DEF BootIpRows, Range
    <3> HIDE DEF f
    <3> QED
      BY <3>1, <3>2, SeedFacts, FiniteRange
  <2> QED
    BY <2>1, <2>2
<1>3. \A a, b \in BootIpRows(rows, first) : a.uuid = b.uuid => a = b
  <2>1. CASE rows # {}
    BY <2>1 DEF BootIpRows
  <2>2. CASE rows = {}
    BY <2>2, BootRowFacts, SeedFacts
  <2> QED
    BY <2>1, <2>2
<1>4. \A row \in BootIpRows(rows, first) : row.uuid <= last
  <2>1. CASE rows # {}
    BY <2>1 DEF BootIpRows
  <2>2. CASE rows = {}
    BY <2>2, BootRowFacts, SeedFacts
  <2> QED
    BY <2>1, <2>2
<1>5. BootIps(rows, first) \subseteq IpEntry
  <2> SUFFICES ASSUME NEW e \in BootIps(rows, first) PROVE e \in IpEntry
    OBVIOUS
  <2>1. CASE \E i \in DOMAIN SeedIps :
              /\ e.key = Named(i)
              /\ e.id = IF rows # {} THEN Named(i) ELSE Uuid(first + i)
              /\ e = [key |-> e.key, id |-> e.id, cidr |-> SeedIps[i].cidr, list |-> SeedIps[i].list]
    <3>1. PICK i \in DOMAIN SeedIps :
              /\ e.key = Named(i)
              /\ e.id = IF rows # {} THEN Named(i) ELSE Uuid(first + i)
              /\ e = [key |-> e.key, id |-> e.id, cidr |-> SeedIps[i].cidr, list |-> SeedIps[i].list]
      BY <2>1
    <3>2. i \in Nat /\ first + i \in Nat /\ SeedIps[i] \in Nets
      BY SeedFacts
    <3>3. e.key \in Key /\ e.id \in Key
      BY <3>1, <3>2, KeyFacts
    <3> QED
      BY <3>1, <3>2, <3>3 DEF IpEntry, Nets
  <2>2. CASE \E row \in BootIpRows(rows, first) :
              e = [key |-> Uuid(row.uuid), id |-> Uuid(row.uuid), cidr |-> row.cidr, list |-> row.list]
    BY <2>2, <1>1, KeyFacts DEF IpEntry, IpRow
  <2> QED
    BY <2>1, <2>2, BootIpFacts
<1>6. IsFiniteSet(BootIps(rows, first))
  <2> DEFINE f == [i \in DOMAIN SeedIps |->
               [key |-> Named(i), id |-> IF rows # {} THEN Named(i) ELSE Uuid(first + i),
                cidr |-> SeedIps[i].cidr, list |-> SeedIps[i].list]]
             g == [row \in BootIpRows(rows, first) |->
               [key |-> Uuid(row.uuid), id |-> Uuid(row.uuid), cidr |-> row.cidr, list |-> row.list]]
  <2>1. /\ DOMAIN f = DOMAIN SeedIps /\ f = [i \in DOMAIN f |-> f[i]]
        /\ DOMAIN g = BootIpRows(rows, first) /\ g = [row \in DOMAIN g |-> g[row]]
    OBVIOUS
  <2>2. BootIps(rows, first) = Range(f) \cup Range(g)
    BY DEF BootIps, Range
  <2> HIDE DEF f, g
  <2>3. IsFiniteSet(Range(f)) /\ IsFiniteSet(Range(g))
    BY <1>2, <2>1, SeedFacts, FiniteRange
  <2>4. IsFiniteSet(Range(f) \cup Range(g))
    BY <2>3, FS_Union
  <2> QED
    BY <2>2, <2>4
<1>7. \A x, y \in BootIps(rows, first) : x.key = y.key => x = y
  <2> SUFFICES ASSUME NEW x \in BootIps(rows, first), NEW y \in BootIps(rows, first),
                      x.key = y.key
               PROVE  x = y
    OBVIOUS
  <2> QED
    BY <1>3, KeyFacts DEF BootIps
<1>8. \A e \in BootIps(rows, first) :
         /\ e.key.kind = "uuid" => e.key.n <= last
         /\ e.id.kind = "uuid" => e.id.n <= last
  <2> SUFFICES ASSUME NEW e \in BootIps(rows, first)
               PROVE  /\ e.key.kind = "uuid" => e.key.n <= last
                      /\ e.id.kind = "uuid" => e.id.n <= last
    OBVIOUS
  <2> QED
    BY <1>4, BootIpFacts, KeyFacts, SeedFacts
<1> QED
  BY <1>1, <1>2, <1>3, <1>4, <1>5, <1>6, <1>7, <1>8

-----------------------------------------------------------------------------
(* Types *)

\* The counter follows the rows that are left behind.
LEMMA DrawnFacts ==
  ASSUME lastUuid \in Nat, NEW rows,
         \A row \in rows : row.uuid \in Nat /\ row.uuid <= lastUuid + 1
  PROVE  /\ Drawn(rows) \in Nat
         /\ lastUuid <= Drawn(rows)
         /\ \A row \in rows : row.uuid <= Drawn(rows)
  BY DEF Drawn

\* What saveRuleRow leaves: the rows of other rules as they were, and, unless the
\* statement was rejected, those of the rule with its text.
LEMMA SavedRuleFacts ==
  ASSUME ruleRows \subseteq RuleRow, NEW r \in Rule, lastUuid \in Nat,
         \A row \in ruleRows : row.uuid <= lastUuid,
         \A a, b \in ruleRows : a.uuid = b.uuid => a = b
  PROVE  /\ SavedRule(r) \subseteq RuleRow
         /\ \A a, b \in SavedRule(r) : a.uuid = b.uuid => a = b
         /\ \A row \in SavedRule(r) : row.uuid \in Nat /\ row.uuid <= lastUuid + 1
         /\ r.sited => SavedRule(r) = ruleRows
         /\ \A row \in SavedRule(r) : row.rid # r.rid => row \in ruleRows
         /\ ~r.sited => \A row \in SavedRule(r) : row.rid = r.rid => row.text = r.text
<1>1. CASE r.sited
  BY <1>1 DEF SavedRule, RuleRow
<1>2. CASE ~r.sited /\ \E row \in ruleRows : row.rid = r.rid
  <2> DEFINE U(row) == IF row.rid = r.rid THEN [row EXCEPT !.text = r.text] ELSE row
  <2>1. \A row \in ruleRows :
          /\ U(row) \in RuleRow /\ U(row).uuid = row.uuid /\ U(row).rid = row.rid
          /\ row.rid = r.rid => U(row).text = r.text
          /\ row.rid # r.rid => U(row) = row
    BY DEF RuleRow, Rule
  <2>2. SavedRule(r) = {U(row) : row \in ruleRows}
    BY <1>2 DEF SavedRule
  <2>3. \A x \in SavedRule(r) : \E row \in ruleRows : x = U(row)
    BY <2>2
  <2>4. \A row \in ruleRows : row.uuid \in Nat
    BY DEF RuleRow
  <2> HIDE DEF U
  <2> QED
    BY <1>2, <2>1, <2>3, <2>4
<1>3. CASE ~r.sited /\ ~\E row \in ruleRows : row.rid = r.rid
  <2> DEFINE new == [uuid |-> lastUuid + 1, rid |-> r.rid, text |-> r.text]
  <2>1. SavedRule(r) = ruleRows \cup {new}
    BY <1>3 DEF SavedRule
  <2>2. new \in RuleRow /\ new.uuid = lastUuid + 1 /\ new.rid = r.rid /\ new.text = r.text
    BY DEF RuleRow, Rule
  <2>3. \A row \in ruleRows : row.uuid \in Nat
    BY DEF RuleRow
  <2> HIDE DEF new
  <2> QED
    BY <1>3, <2>1, <2>2, <2>3
<1> QED
  BY <1>1, <1>2, <1>3

\* An edit of the rules that puts r under its key and saves it.
LEMMA PutRuleTypes ==
  ASSUME TypeInv, NEW r \in Rule,
         rules' = Put(rules, r), ruleRows' = SavedRule(r), lastUuid' = Drawn(ruleRows'),
         UNCHANGED <<ipVars, exceptions, boots>>
  PROVE  TypeInv'
<1>1. /\ rules' \subseteq Rule
      /\ \A x, y \in rules' : x.key = y.key => x = y
  BY PutUnique DEF TypeInv, TypeOK
<1>2. /\ ruleRows' \subseteq RuleRow
      /\ \A a, b \in ruleRows' : a.uuid = b.uuid => a = b
      /\ \A row \in ruleRows' : row.uuid \in Nat /\ row.uuid <= lastUuid + 1
  BY SavedRuleFacts DEF TypeInv, TypeOK, UuidInv
<1>3. /\ lastUuid' \in Nat
      /\ lastUuid <= lastUuid'
      /\ \A row \in ruleRows' : row.uuid <= lastUuid'
  BY <1>2, DrawnFacts DEF TypeInv, TypeOK
<1>4. UuidInv'
  BY <1>2, <1>3 DEF TypeInv, TypeOK, UuidInv, ipVars, IpRow, IpEntry, Key
<1>5. FiniteInv'
  BY DEF TypeInv, FiniteInv, ipVars
<1> QED
  BY <1>1, <1>2, <1>3, <1>4, <1>5 DEF TypeInv, TypeOK, ipVars

\* What AddIp does to the table: nothing, or one row more with a fresh identifier
\* that the new entry then shows.
LEMMA AddIpFacts ==
  ASSUME TypeInv, NEW net \in Nets, AddIp(net)
  PROVE  \E e \in IpEntry :
           /\ e.key = IpKey /\ e.key.kind = "name"
           /\ e.cidr = net.cidr /\ e.list = net.list
           /\ ips' = Put(ips, e)
           /\ \/ Stored(net) /\ e.id = e.key /\ ipRows' = ipRows
              \/ /\ ~Stored(net) /\ e.id = Uuid(lastUuid + 1)
                 /\ \E row \in IpRow :
                      /\ row.uuid = lastUuid + 1 /\ row.cidr = net.cidr /\ row.list = net.list
                      /\ ipRows' = ipRows \cup {row}
<1> USE DEF TypeInv
<1>1. IpKey \in Key /\ IpKey.kind = "name"
  <2>1. Cardinality(ips) + 1 \in Nat
    BY FS_CardinalityType DEF FiniteInv
  <2> QED
    BY <2>1, KeyFacts DEF IpKey
<1> DEFINE E(id) == [key |-> IpKey, id |-> id, cidr |-> net.cidr, list |-> net.list]
<1>2. \A id \in Key : E(id) \in IpEntry
  BY <1>1 DEF IpEntry, Nets
<1>3. CASE Stored(net)
  <2>1. ips' = Put(ips, E(IpKey)) /\ ipRows' = ipRows
    BY <1>3 DEF AddIp
  <2> QED
    BY <1>1, <1>2, <1>3, <2>1
<1>4. CASE ~Stored(net)
  <2> DEFINE row == [uuid |-> lastUuid + 1, cidr |-> net.cidr, list |-> net.list]
             rows == ipRows \cup {row}
  <2>1. RowIds(net, rows) = {lastUuid + 1}
    <3>1. {x \in rows : x.cidr = net.cidr /\ x.list = net.list} = {row}
      BY <1>4 DEF Stored
    <3>2. RowIds(net, rows) = {x.uuid : x \in {row}}
      BY <3>1 DEF RowIds
    <3> QED
      BY <3>2
  <2>2. ipRows' = rows /\ \E id \in {Uuid(u) : u \in RowIds(net, rows)} : ips' = Put(ips, E(id))
    BY <1>4 DEF AddIp
  <2>3. ips' = Put(ips, E(Uuid(lastUuid + 1)))
    <3>1. {Uuid(u) : u \in RowIds(net, rows)} = {Uuid(lastUuid + 1)}
      BY <2>1
    <3> QED
      BY <2>2, <3>1
  <2>4. lastUuid + 1 \in Nat /\ Uuid(lastUuid + 1) \in Key
    BY KeyFacts DEF TypeOK
  <2>5. row \in IpRow
    BY <2>4 DEF IpRow, Nets
  <2> QED
    BY <1>1, <1>2, <1>4, <2>2, <2>3, <2>4, <2>5
<1> QED
  BY <1>3, <1>4

LEMMA InitTypes == Init => TypeInv
<1> SUFFICES ASSUME Init PROVE TypeInv
  OBVIOUS
<1>1. Len(SeedIps) \in Nat /\ IsFiniteSet({})
  BY SeedFacts, FS_EmptySet
<1>2. /\ BootRules({}) \subseteq Rule
      /\ \A x, y \in BootRules({}) : x.key = y.key => x = y
      /\ BootIpRows({}, 0) \subseteq IpRow
      /\ IsFiniteSet(BootIpRows({}, 0))
      /\ \A a, b \in BootIpRows({}, 0) : a.uuid = b.uuid => a = b
      /\ \A row \in BootIpRows({}, 0) : row.uuid <= Len(SeedIps)
      /\ BootIps({}, 0) \subseteq IpEntry
      /\ IsFiniteSet(BootIps({}, 0))
      /\ \A x, y \in BootIps({}, 0) : x.key = y.key => x = y
      /\ \A e \in BootIps({}, 0) :
           /\ e.key.kind = "uuid" => e.key.n <= Len(SeedIps)
           /\ e.id.kind = "uuid" => e.id.n <= Len(SeedIps)
      /\ BootExceptions \subseteq Exception
      /\ IsFiniteSet(BootExceptions)
  <2>1. {} \in SUBSET RuleRow /\ {} \in SUBSET IpRow /\ 0 \in Nat /\ Len(SeedIps) = 0 + Len(SeedIps)
    BY <1>1
  <2> QED
    BY <1>1, <2>1, BootRuleTypes, BootIpTypes, BootExceptionTypes
<1> QED
  BY <1>1, <1>2 DEF Init, TypeInv, TypeOK, FiniteInv, UuidInv

LEMMA NextTypes == TypeInv /\ [Next]_vars => TypeInv'
<1> SUFFICES ASSUME TypeInv, [Next]_vars PROVE TypeInv'
  OBVIOUS
<1> USE DEF TypeInv
<1>1. ASSUME NEW rid \in RuleIds, NEW text \in Texts, NEW sited \in BOOLEAN,
             CreateRule(rid, text, sited)
      PROVE  TypeInv'
  <2> DEFINE r == [key |-> Named(rid), rid |-> rid, text |-> text, sited |-> sited]
  <2>1. r \in Rule
    BY RulesAssumption, KeyFacts DEF Rule
  <2>2. /\ rules' = Put(rules, r) /\ ruleRows' = SavedRule(r) /\ lastUuid' = Drawn(ruleRows')
        /\ UNCHANGED <<ipVars, exceptions, boots>>
    BY <1>1 DEF CreateRule
  <2> HIDE DEF r
  <2> QED
    BY <2>1, <2>2, PutRuleTypes
<1>2. ASSUME NEW old \in rules, NEW text \in Texts, UpdateRule(old, text) PROVE TypeInv'
  <2> DEFINE r == [old EXCEPT !.text = text]
  <2>1. r \in Rule
    BY DEF TypeOK, Rule
  <2>2. /\ rules' = Put(rules, r) /\ ruleRows' = SavedRule(r) /\ lastUuid' = Drawn(ruleRows')
        /\ UNCHANGED <<ipVars, exceptions, boots>>
    BY <1>2 DEF UpdateRule
  <2> HIDE DEF r
  <2> QED
    BY <2>1, <2>2, PutRuleTypes
<1>3. ASSUME NEW r \in rules, DeleteRule(r) PROVE TypeInv'
  BY <1>3 DEF DeleteRule, TypeOK, FiniteInv, UuidInv, ipVars
<1>4. ASSUME NEW net \in Nets, AddIp(net) PROVE TypeInv'
  <2>1. PICK e \in IpEntry :
          /\ e.key.kind = "name"
          /\ ips' = Put(ips, e)
          /\ \/ e.id = e.key /\ ipRows' = ipRows
             \/ /\ e.id = Uuid(lastUuid + 1)
                /\ \E row \in IpRow : row.uuid = lastUuid + 1 /\ ipRows' = ipRows \cup {row}
    BY <1>4, AddIpFacts
  <2>2. /\ UNCHANGED <<ruleVars, deleted, exceptions, boots>>
        /\ lastUuid' = Drawn(ipRows')
    BY <1>4 DEF AddIp
  <2>3. /\ ips' \subseteq ips \cup {e} /\ ips' \subseteq IpEntry /\ IsFiniteSet(ips')
        /\ \A x, y \in ips' : x.key = y.key => x = y
    BY <2>1, PutUnique DEF TypeOK, FiniteInv
  <2>4. ipRows' \subseteq IpRow /\ IsFiniteSet(ipRows')
    BY <2>1, FS_AddElement DEF TypeOK, FiniteInv
  <2>5. /\ \A a, b \in ipRows' : a.uuid = b.uuid => a = b
        /\ \A row \in ipRows' : row.uuid \in Nat /\ row.uuid <= lastUuid + 1
    BY <2>1 DEF TypeOK, UuidInv, IpRow
  <2>6. /\ lastUuid' \in Nat /\ lastUuid <= lastUuid'
        /\ \A row \in ipRows' : row.uuid <= lastUuid'
    BY <2>2, <2>5, DrawnFacts DEF TypeOK
  <2>7. e.id.kind = "uuid" => e.id.n <= lastUuid'
    <3>1. CASE e.id = e.key
      BY <2>1, <3>1
    <3>2. CASE e.id = Uuid(lastUuid + 1) /\ \E row \in ipRows' : row.uuid = lastUuid + 1
      BY <3>2, <2>6, KeyFacts
    <3> QED
      BY <2>1, <3>1, <3>2
  <2>8. \A x \in ips' : /\ x.key.kind = "uuid" => x.key.n <= lastUuid'
                        /\ x.id.kind = "uuid" => x.id.n <= lastUuid'
    BY <2>1, <2>3, <2>6, <2>7 DEF TypeOK, UuidInv, IpEntry, Key
  <2>9. \A row \in ruleRows' : row.uuid <= lastUuid'
    BY <2>2, <2>6 DEF TypeOK, UuidInv, RuleRow, ruleVars
  <2> QED
    BY <2>2, <2>3, <2>4, <2>5, <2>6, <2>8, <2>9 DEF TypeOK, FiniteInv, UuidInv, ruleVars
<1>5. ASSUME NEW e \in ips, DeleteIp(e) PROVE TypeInv'
  <2>1. ips' \subseteq ips /\ ipRows' \subseteq ipRows
    BY <1>5 DEF DeleteIp
  <2>2. IsFiniteSet(ips') /\ IsFiniteSet(ipRows')
    BY <2>1, FS_Subset DEF FiniteInv
  <2> QED
    BY <1>5, <2>1, <2>2 DEF DeleteIp, TypeOK, FiniteInv, UuidInv, ruleVars
<1>6. ASSUME NEW path \in Paths, CreateException(path) PROVE TypeInv'
  <2> DEFINE x == [key |-> Named(Cardinality(exceptions) + 1), path |-> path]
  <2>1. Cardinality(exceptions) + 1 \in Nat
    BY FS_CardinalityType DEF FiniteInv
  <2>2. x \in Exception
    BY <2>1, KeyFacts DEF Exception
  <2>3. exceptions' \subseteq exceptions \cup {x} /\ IsFiniteSet(exceptions')
    <3>1. exceptions' = Put(exceptions, x)
      BY <1>6 DEF CreateException
    <3>2. exceptions' \subseteq exceptions \cup {x}
      BY <3>1 DEF Put
    <3>3. IsFiniteSet(exceptions \cup {x})
      BY FS_AddElement DEF FiniteInv
    <3> QED
      BY <3>2, <3>3, FS_Subset
  <2> QED
    BY <1>6, <2>2, <2>3 DEF CreateException, TypeOK, FiniteInv, UuidInv, ruleVars, ipVars
<1>7. ASSUME NEW x \in exceptions, DeleteException(x) PROVE TypeInv'
  <2>1. exceptions' \subseteq exceptions
    BY <1>7 DEF DeleteException
  <2>2. IsFiniteSet(exceptions')
    BY <2>1, FS_Subset DEF FiniteInv
  <2> QED
    BY <1>7, <2>1, <2>2 DEF DeleteException, TypeOK, FiniteInv, UuidInv, ruleVars, ipVars
<1>8. CASE Restart
  <2>1. PICK last \in Nat : last = lastUuid'
    BY <1>8, SeedFacts DEF Restart, TypeOK
  <2>2. /\ BootRules(ruleRows) \subseteq Rule
        /\ \A x, y \in BootRules(ruleRows) : x.key = y.key => x = y
        /\ BootIpRows(ipRows, lastUuid) \subseteq IpRow
        /\ IsFiniteSet(BootIpRows(ipRows, lastUuid))
        /\ \A a, b \in BootIpRows(ipRows, lastUuid) : a.uuid = b.uuid => a = b
        /\ \A row \in BootIpRows(ipRows, lastUuid) : row.uuid <= last
        /\ BootIps(ipRows, lastUuid) \subseteq IpEntry
        /\ IsFiniteSet(BootIps(ipRows, lastUuid))
        /\ \A x, y \in BootIps(ipRows, lastUuid) : x.key = y.key => x = y
        /\ \A e \in BootIps(ipRows, lastUuid) :
             /\ e.key.kind = "uuid" => e.key.n <= last
             /\ e.id.kind = "uuid" => e.id.n <= last
        /\ BootExceptions \subseteq Exception
        /\ IsFiniteSet(BootExceptions)
    <3>1. /\ ruleRows \in SUBSET RuleRow /\ ipRows \in SUBSET IpRow /\ lastUuid \in Nat
          /\ IsFiniteSet(ipRows)
          /\ \A a, b \in ruleRows : a.uuid = b.uuid => a = b
          /\ \A a, b \in ipRows : a.uuid = b.uuid => a = b
          /\ \A row \in ipRows : row.uuid <= lastUuid
      BY DEF TypeOK, FiniteInv, UuidInv
    <3>2. last = IF ipRows = {} THEN lastUuid + Len(SeedIps) ELSE lastUuid
      BY <1>8, <2>1 DEF Restart
    <3> QED
      BY <3>1, <3>2, BootRuleTypes, BootIpTypes, BootExceptionTypes
  <2>3. \A row \in ruleRows : row.uuid <= last
    BY <1>8, <2>1, SeedFacts DEF Restart, TypeOK, UuidInv, RuleRow
  <2>4. /\ rules' = BootRules(ruleRows) /\ ipRows' = BootIpRows(ipRows, lastUuid)
        /\ ips' = BootIps(ipRows, lastUuid) /\ exceptions' = BootExceptions
        /\ ruleRows' = ruleRows /\ deleted' = FALSE /\ boots' = boots + 1
    BY <1>8 DEF Restart
  <2>5. boots' \in Nat /\ deleted' \in BOOLEAN
    <3>1. boots' \in Nat
      BY <2>4 DEF TypeOK
    <3>2. deleted' \in BOOLEAN
      BY <2>4, Zenon
    <3> QED
      BY <3>1, <3>2
  <2>6. TypeOK'
    BY <2>1, <2>2, <2>4, <2>5 DEF TypeOK
  <2>7. FiniteInv'
    BY <2>2, <2>4 DEF FiniteInv
  <2>8. UuidInv'
    BY <2>1, <2>2, <2>3, <2>4 DEF UuidInv
  <2> QED
    BY <2>6, <2>7, <2>8
<1>9. CASE UNCHANGED vars
  BY <1>9 DEF vars, ruleVars, ipVars, TypeOK, FiniteInv, UuidInv
<1> QED
  BY <1>1, <1>2, <1>3, <1>4, <1>5, <1>6, <1>7, <1>8, <1>9 DEF Next

\* Every variable has its type and every map one entry under a key, however long
\* the process runs and however often it restarts.
THEOREM StoreTypeCorrect == Spec => []TypeOK
<1>1. Spec => []TypeInv
  BY InitTypes, NextTypes, PTL DEF Spec
<1>2. TypeInv => TypeOK
  BY DEF TypeInv
<1> QED
  BY <1>1, <1>2, PTL

-----------------------------------------------------------------------------
(* Rows of rules *)

\* An edit that puts r under its key, in the place of a rule of the same number
\* if of any, and saves it: every row still finds a rule.
LEMMA PutRuleRows ==
  ASSUME TypeInv, NamedInv, RuleRowsLive, NEW r \in Rule,
         r.key.kind = "name" => r.key.n = r.rid,
         \A x \in rules : x.key = r.key => x.rid = r.rid,
         rules' = Put(rules, r), ruleRows' = SavedRule(r)
  PROVE  NamedInv' /\ RuleRowsLive'
<1> USE DEF TypeInv
<1>1. /\ r \in rules' /\ rules' \subseteq rules \cup {r}
      /\ \A x \in rules : x.key # r.key => x \in rules'
  BY PutUnique DEF TypeOK
<1>2. NamedInv'
  BY <1>1 DEF NamedInv
<1>3. /\ r.sited => ruleRows' = ruleRows
      /\ \A row \in ruleRows' : row.rid # r.rid => row \in ruleRows
      /\ ~r.sited => \A row \in ruleRows' : row.rid = r.rid => row.text = r.text
  BY SavedRuleFacts DEF TypeOK, UuidInv
<1>4. ASSUME NEW row \in ruleRows'
      PROVE  \E x \in rules' : x.rid = row.rid /\ (x.text = row.text \/ x.sited)
  <2>1. CASE row.rid = r.rid /\ ~r.sited
    BY <1>1, <1>3, <2>1
  <2>2. CASE row.rid = r.rid /\ r.sited
    BY <1>1, <2>2
  <2>3. CASE row.rid # r.rid
    <3>1. PICK x \in rules : x.rid = row.rid /\ (x.text = row.text \/ x.sited)
      BY <1>3, <2>3 DEF RuleRowsLive
    <3>2. x \in rules'
      BY <1>1, <2>3, <3>1
    <3> QED
      BY <3>1, <3>2
  <2> QED
    BY <2>1, <2>2, <2>3
<1> QED
  BY <1>2, <1>4 DEF RuleRowsLive

LEMMA InitRuleRows == Init => NamedInv /\ RuleRowsLive
<1> SUFFICES ASSUME Init PROVE NamedInv /\ RuleRowsLive
  OBVIOUS
<1>1. rules = BootRules({}) /\ ruleRows = {}
  BY DEF Init
<1> QED
  BY <1>1, KeyFacts DEF NamedInv, RuleRowsLive, BootRules

LEMMA NextRuleRows ==
  TypeInv /\ NamedInv /\ RuleRowsLive /\ [Next]_vars => NamedInv' /\ RuleRowsLive'
<1> SUFFICES ASSUME TypeInv, NamedInv, RuleRowsLive, [Next]_vars
             PROVE  NamedInv' /\ RuleRowsLive'
  OBVIOUS
<1>1. ASSUME NEW rid \in RuleIds, NEW text \in Texts, NEW sited \in BOOLEAN,
             CreateRule(rid, text, sited)
      PROVE  NamedInv' /\ RuleRowsLive'
  <2> DEFINE r == [key |-> Named(rid), rid |-> rid, text |-> text, sited |-> sited]
  <2>1. r \in Rule
    BY RulesAssumption, KeyFacts DEF Rule
  <2>2. rules' = Put(rules, r) /\ ruleRows' = SavedRule(r)
    BY <1>1 DEF CreateRule
  <2>3. r.key.kind = "name" /\ r.key.n = r.rid
    BY KeyFacts
  <2>4. \A x \in rules : x.key = r.key => x.rid = r.rid
    BY <2>3 DEF NamedInv
  <2> HIDE DEF r
  <2> QED
    BY <2>1, <2>2, <2>3, <2>4, PutRuleRows
<1>2. ASSUME NEW old \in rules, NEW text \in Texts, UpdateRule(old, text)
      PROVE  NamedInv' /\ RuleRowsLive'
  <2> DEFINE r == [old EXCEPT !.text = text]
  <2>1. r \in Rule /\ r.key = old.key /\ r.rid = old.rid /\ r.sited = old.sited
    BY DEF TypeInv, TypeOK, Rule
  <2>2. rules' = Put(rules, r) /\ ruleRows' = SavedRule(r)
    BY <1>2 DEF UpdateRule
  <2>3. \A x \in rules : x.key = r.key => x = old
    BY <2>1 DEF TypeInv, TypeOK
  <2>4. r.key.kind = "name" => r.key.n = r.rid
    BY <2>1 DEF NamedInv
  <2> HIDE DEF r
  <2> QED
    BY <2>1, <2>2, <2>3, <2>4, PutRuleRows
<1>3. ASSUME NEW r \in rules, DeleteRule(r) PROVE NamedInv' /\ RuleRowsLive'
  BY <1>3 DEF DeleteRule, NamedInv, RuleRowsLive
<1>4. CASE Restart
  <2>1. rules' = BootRules(ruleRows) /\ ruleRows' = ruleRows
    BY <1>4 DEF Restart
  <2>2. NamedInv'
    BY <2>1, KeyFacts DEF NamedInv, BootRules
  <2>3. ASSUME NEW row \in ruleRows
        PROVE  \E x \in BootRules(ruleRows) : x.rid = row.rid /\ x.text = row.text
    <3> DEFINE x == [key |-> Uuid(row.uuid), rid |-> row.rid, text |-> row.text, sited |-> FALSE]
    <3>1. x \in BootRules(ruleRows)
      BY DEF BootRules
    <3>2. x.rid = row.rid /\ x.text = row.text
      OBVIOUS
    <3> QED
      BY <3>1, <3>2
  <2> QED
    BY <2>1, <2>2, <2>3 DEF RuleRowsLive
<1>5. CASE UNCHANGED <<rules, ruleRows>>
  BY <1>5 DEF NamedInv, RuleRowsLive
<1>6. ASSUME NEW net \in Nets, AddIp(net) PROVE UNCHANGED <<rules, ruleRows>>
  BY <1>6 DEF AddIp, ruleVars
<1>7. ASSUME NEW e \in ips, DeleteIp(e) PROVE UNCHANGED <<rules, ruleRows>>
  BY <1>7 DEF DeleteIp, ruleVars
<1>8. ASSUME NEW path \in Paths, CreateException(path) PROVE UNCHANGED <<rules, ruleRows>>
  BY <1>8 DEF CreateException, ruleVars
<1>9. ASSUME NEW x \in exceptions, DeleteException(x) PROVE UNCHANGED <<rules, ruleRows>>
  BY <1>9 DEF DeleteException, ruleVars
<1>10. CASE UNCHANGED vars
  BY <1>5, <1>10 DEF vars, ruleVars
<1> QED
  BY <1>1, <1>2, <1>3, <1>4, <1>5, <1>6, <1>7, <1>8, <1>9, <1>10 DEF Next

\* No row of custom_rules outlives its rule or keeps a text no rule has, unless a
\* rule with a site covers it, for every number of rules, texts and restarts.
THEOREM RuleRowsAreLive == Spec => []RuleRowsLive
<1>1. Spec => [](TypeInv /\ NamedInv /\ RuleRowsLive)
  BY InitTypes, NextTypes, InitRuleRows, NextRuleRows, PTL DEF Spec
<1> QED
  BY <1>1, PTL

-----------------------------------------------------------------------------
(* The IP list *)

IpInv == UniqueIpRows /\ ShownInv /\ OneNetInv

LEMMA BootIpInv ==
  ASSUME NEW rows \in SUBSET IpRow, \A a, b \in rows : a.uuid = b.uuid => a = b,
         \A a, b \in rows : a.cidr = b.cidr /\ a.list = b.list => a = b,
         NEW first \in Nat
  PROVE  /\ \A a, b \in BootIpRows(rows, first) : a.cidr = b.cidr /\ a.list = b.list => a = b
         /\ \A e \in BootIps(rows, first) : e.id = e.key \/ e.id.kind = "uuid"
         /\ \A u \in Nat, e \in BootIps(rows, first) : Bears(e, u) =>
              \E row \in BootIpRows(rows, first) : row.uuid = u /\ e.cidr = row.cidr /\ e.list = row.list
<1>1. \A a, b \in BootIpRows(rows, first) : a.cidr = b.cidr /\ a.list = b.list => a = b
  <2>1. CASE rows # {}
    BY <2>1 DEF BootIpRows
  <2>2. CASE rows = {}
    <3> SUFFICES ASSUME NEW a \in BootIpRows(rows, first), NEW b \in BootIpRows(rows, first), a.cidr = b.cidr, a.list = b.list
                 PROVE  a = b
      OBVIOUS
    <3>1. PICK i \in DOMAIN SeedIps :
            a = [uuid |-> first + i, cidr |-> SeedIps[i].cidr, list |-> SeedIps[i].list]
      BY <2>2, BootRowFacts
    <3>2. PICK j \in DOMAIN SeedIps :
            b = [uuid |-> first + j, cidr |-> SeedIps[j].cidr, list |-> SeedIps[j].list]
      BY <2>2, BootRowFacts
    <3>3. SeedIps[i] = SeedIps[j]
      BY <3>1, <3>2, SeedFacts DEF Nets
    <3>4. i = j
      BY <3>3, SeedFacts, IpsAssumption
    <3> QED
      BY <3>1, <3>2, <3>4
  <2> QED
    BY <2>1, <2>2
<1>2. ASSUME NEW e \in BootIps(rows, first)
      PROVE  /\ e.id = e.key \/ e.id.kind = "uuid"
             /\ \A u \in Nat : Bears(e, u) =>
                  \E row \in BootIpRows(rows, first) : row.uuid = u /\ e.cidr = row.cidr /\ e.list = row.list
  <2>1. CASE \E i \in DOMAIN SeedIps :
              /\ e.key = Named(i)
              /\ e.id = IF rows # {} THEN Named(i) ELSE Uuid(first + i)
              /\ e = [key |-> e.key, id |-> e.id, cidr |-> SeedIps[i].cidr, list |-> SeedIps[i].list]
    <3>1. PICK i \in DOMAIN SeedIps :
              /\ e.key = Named(i)
              /\ e.id = IF rows # {} THEN Named(i) ELSE Uuid(first + i)
              /\ e = [key |-> e.key, id |-> e.id, cidr |-> SeedIps[i].cidr, list |-> SeedIps[i].list]
      BY <2>1
    <3>2. CASE rows # {}
      BY <3>1, <3>2, KeyFacts DEF Bears
    <3>3. CASE rows = {}
      <4> DEFINE row == [uuid |-> first + i, cidr |-> SeedIps[i].cidr, list |-> SeedIps[i].list]
      <4>1. row \in BootIpRows(rows, first)
        BY <3>3 DEF BootIpRows
      <4>2. e.cidr = row.cidr /\ e.list = row.list /\ e.id = Uuid(row.uuid) /\ e.key = Named(i)
        BY <3>1, <3>3
      <4>3. \A u \in Nat : Bears(e, u) => row.uuid = u
        BY <4>2, KeyFacts DEF Bears
      <4>4. e.id.kind = "uuid"
        BY <4>2, KeyFacts
      <4> HIDE DEF row
      <4> QED
        BY <4>1, <4>2, <4>3, <4>4
    <3> QED
      BY <3>2, <3>3
  <2>2. CASE \E row \in BootIpRows(rows, first) :
              e = [key |-> Uuid(row.uuid), id |-> Uuid(row.uuid), cidr |-> row.cidr, list |-> row.list]
    <3>1. PICK row \in BootIpRows(rows, first) :
              e = [key |-> Uuid(row.uuid), id |-> Uuid(row.uuid), cidr |-> row.cidr, list |-> row.list]
      BY <2>2
    <3>2. \A u \in Nat : Bears(e, u) => row.uuid = u
      BY <3>1, KeyFacts DEF Bears
    <3> QED
      BY <3>1, <3>2
  <2> QED
    BY <2>1, <2>2, BootIpFacts
<1> QED
  BY <1>1, <1>2

LEMMA InitIpInv == Init => IpInv
<1> SUFFICES ASSUME Init PROVE IpInv
  OBVIOUS
<1>1. TypeInv
  BY InitTypes
<1>2. /\ UniqueIpRows /\ ShownInv
      /\ \A u \in Nat, e \in ips : Bears(e, u) =>
           \E row \in ipRows : row.uuid = u /\ e.cidr = row.cidr /\ e.list = row.list
  <2>1. {} \in SUBSET IpRow /\ 0 \in Nat
    OBVIOUS
  <2>2. ipRows = BootIpRows({}, 0) /\ ips = BootIps({}, 0)
    BY DEF Init
  <2> QED
    BY <2>1, <2>2, BootIpInv DEF UniqueIpRows, ShownInv
<1>3. OneNetInv
  <2>1. \A a, b \in ipRows : a.uuid = b.uuid => a = b
    BY <1>1 DEF TypeInv, UuidInv
  <2> QED
    BY <1>2, <2>1 DEF OneNetInv
<1> QED
  BY <1>2, <1>3 DEF IpInv

LEMMA NextIpInv == TypeInv /\ IpInv /\ [Next]_vars => IpInv'
<1> SUFFICES ASSUME TypeInv, IpInv, [Next]_vars PROVE IpInv'
  OBVIOUS
<1> USE DEF IpInv
<1>1. ASSUME NEW net \in Nets, AddIp(net) PROVE IpInv'
  <2>1. PICK e \in IpEntry :
          /\ e.key.kind = "name" /\ e.cidr = net.cidr /\ e.list = net.list
          /\ ips' = Put(ips, e)
          /\ \/ Stored(net) /\ e.id = e.key /\ ipRows' = ipRows
             \/ /\ ~Stored(net) /\ e.id = Uuid(lastUuid + 1)
                /\ \E row \in IpRow :
                     /\ row.uuid = lastUuid + 1 /\ row.cidr = net.cidr /\ row.list = net.list
                     /\ ipRows' = ipRows \cup {row}
    BY <1>1, AddIpFacts
  <2>2. ips' \subseteq ips \cup {e}
    BY <2>1, PutUnique DEF TypeInv, TypeOK
  <2>3. UniqueIpRows'
    BY <2>1 DEF UniqueIpRows, Stored
  <2>4. ShownInv'
    BY <2>1, <2>2, KeyFacts DEF ShownInv
  <2>5. CASE e.id = e.key /\ ipRows' = ipRows
    <3>1. \A u \in Nat : ~Bears(e, u)
      BY <2>1, <2>5, KeyFacts DEF Bears
    <3>2. OneNetInv'
      BY <2>2, <2>5, <3>1 DEF OneNetInv
    <3> QED
      BY <2>3, <2>4, <3>2
  <2>6. CASE /\ e.id = Uuid(lastUuid + 1)
             /\ \E row \in IpRow :
                  /\ row.uuid = lastUuid + 1 /\ row.cidr = net.cidr /\ row.list = net.list
                  /\ ipRows' = ipRows \cup {row}
    <3>1. \A u \in Nat : Bears(e, u) => u = lastUuid + 1
      BY <2>1, <2>6, KeyFacts DEF Bears
    <3>2. ~\E f \in ips : Bears(f, lastUuid + 1)
      BY KeyFacts DEF Bears, TypeInv, TypeOK, UuidInv
    <3>3. \A row \in ipRows : row.uuid # lastUuid + 1
      BY DEF TypeInv, TypeOK, UuidInv, IpRow
    <3>4. lastUuid + 1 \in Nat
      BY DEF TypeInv, TypeOK
    <3>5. PICK new \in IpRow :
            /\ new.uuid = lastUuid + 1 /\ new.cidr = e.cidr /\ new.list = e.list
            /\ ipRows' = ipRows \cup {new}
      BY <2>1, <2>6
    <3>6. ASSUME NEW u \in Nat, NEW x \in ips', NEW y \in ips', Bears(x, u), Bears(y, u)
          PROVE  x.cidr = y.cidr /\ x.list = y.list
      BY <2>2, <3>1, <3>2, <3>6 DEF OneNetInv
    <3>7. ASSUME NEW u \in Nat, NEW x \in ips', NEW row \in ipRows', Bears(x, u), row.uuid = u
          PROVE  x.cidr = row.cidr /\ x.list = row.list
      <4>1. CASE row = new
        BY <2>2, <3>2, <3>5, <3>7, <4>1
      <4>2. CASE row \in ipRows
        BY <2>2, <3>1, <3>3, <3>7, <4>2 DEF OneNetInv
      <4> QED
        BY <3>5, <4>1, <4>2
    <3>8. OneNetInv'
      BY <3>6, <3>7 DEF OneNetInv, Bears
    <3> QED
      BY <2>3, <2>4, <3>8
  <2> QED
    BY <2>1, <2>5, <2>6
<1>2. ASSUME NEW e \in ips, DeleteIp(e) PROVE IpInv'
  <2>1. ips' \subseteq ips /\ ipRows' \subseteq ipRows
    BY <1>2 DEF DeleteIp
  <2> QED
    BY <2>1 DEF UniqueIpRows, ShownInv, OneNetInv
<1>3. CASE Restart
  <2>1. /\ ipRows' = BootIpRows(ipRows, lastUuid)
        /\ ips' = BootIps(ipRows, lastUuid)
    BY <1>3 DEF Restart
  <2>2. /\ UniqueIpRows' /\ ShownInv'
        /\ \A u \in Nat, e \in ips' : Bears(e, u) =>
             \E row \in ipRows' : row.uuid = u /\ e.cidr = row.cidr /\ e.list = row.list
    <3>1. /\ ipRows \in SUBSET IpRow /\ lastUuid \in Nat
          /\ \A a, b \in ipRows : a.uuid = b.uuid => a = b
      BY DEF TypeInv, TypeOK, UuidInv
    <3>2. \A a, b \in ipRows : a.cidr = b.cidr /\ a.list = b.list => a = b
      BY DEF UniqueIpRows
    <3>3. /\ \A a, b \in BootIpRows(ipRows, lastUuid) : a.cidr = b.cidr /\ a.list = b.list => a = b
          /\ \A e \in BootIps(ipRows, lastUuid) : e.id = e.key \/ e.id.kind = "uuid"
          /\ \A u \in Nat, e \in BootIps(ipRows, lastUuid) : Bears(e, u) =>
               \E row \in BootIpRows(ipRows, lastUuid) : row.uuid = u /\ e.cidr = row.cidr /\ e.list = row.list
      BY <3>1, <3>2, BootIpInv
    <3> QED
      BY <2>1, <3>3 DEF UniqueIpRows, ShownInv
  <2>3. /\ ipRows' \in SUBSET IpRow
        /\ \A a, b \in ipRows' : a.uuid = b.uuid => a = b
    BY NextTypes DEF TypeInv, TypeOK, UuidInv
  <2>4. OneNetInv'
    BY <2>2, <2>3 DEF OneNetInv, Bears
  <2> QED
    BY <2>2, <2>4
<1>4. CASE UNCHANGED <<ips, ipRows>>
  BY <1>4 DEF UniqueIpRows, ShownInv, OneNetInv
<1>5. ASSUME NEW rid \in RuleIds, NEW text \in Texts, NEW sited \in BOOLEAN,
             CreateRule(rid, text, sited)
      PROVE  UNCHANGED <<ips, ipRows>>
  BY <1>5 DEF CreateRule, ipVars
<1>6. ASSUME NEW r \in rules, NEW text \in Texts, UpdateRule(r, text)
      PROVE  UNCHANGED <<ips, ipRows>>
  BY <1>6 DEF UpdateRule, ipVars
<1>7. ASSUME NEW r \in rules, DeleteRule(r) PROVE UNCHANGED <<ips, ipRows>>
  BY <1>7 DEF DeleteRule, ipVars
<1>8. ASSUME NEW path \in Paths, CreateException(path) PROVE UNCHANGED <<ips, ipRows>>
  BY <1>8 DEF CreateException, ipVars
<1>9. ASSUME NEW x \in exceptions, DeleteException(x) PROVE UNCHANGED <<ips, ipRows>>
  BY <1>9 DEF DeleteException, ipVars
<1>10. CASE UNCHANGED vars
  BY <1>4, <1>10 DEF vars, ipVars
<1> QED
  BY <1>1, <1>2, <1>3, <1>4, <1>5, <1>6, <1>7, <1>8, <1>9, <1>10 DEF Next

\* ip_list holds one row per network and list, though its schema does not say so.
THEOREM IpRowsAreUnique == Spec => []UniqueIpRows
<1>1. Spec => [](TypeInv /\ IpInv)
  BY InitTypes, NextTypes, InitIpInv, NextIpInv, PTL DEF Spec
<1> QED
  BY <1>1, PTL DEF IpInv

\* An identifier shown for an IP entry leads to an entry or a row of the same
\* network or to none, whatever was added, deleted, seeded and loaded before.
THEOREM IdentifiersDoNotStray == Spec => []IdsDoNotStray
<1>1. Spec => [](TypeInv /\ IpInv)
  BY InitTypes, NextTypes, InitIpInv, NextIpInv, PTL DEF Spec
<1>2. TypeInv /\ IpInv => IdsDoNotStray
  <2> SUFFICES ASSUME TypeInv, IpInv, NEW e \in ips
               PROVE  /\ \A f \in ips : f.key = e.id => f.cidr = e.cidr /\ f.list = e.list
                      /\ \A row \in ipRows :
                           Uuid(row.uuid) = e.id => row.cidr = e.cidr /\ row.list = e.list
    BY DEF IdsDoNotStray
  <2>1. ASSUME NEW f \in ips, f.key = e.id PROVE f.cidr = e.cidr /\ f.list = e.list
    <3>1. CASE e.id = e.key
      BY <2>1, <3>1 DEF TypeInv, TypeOK
    <3>2. CASE e.id.kind = "uuid"
      <4>1. e.id.n \in Nat /\ e.id = Uuid(e.id.n)
        BY <3>2 DEF TypeInv, TypeOK, IpEntry, Key, Uuid
      <4>2. Bears(e, e.id.n) /\ Bears(f, e.id.n)
        BY <2>1, <4>1 DEF Bears
      <4> QED
        BY <4>1, <4>2 DEF IpInv, OneNetInv
    <3> QED
      BY <3>1, <3>2 DEF IpInv, ShownInv
  <2>2. ASSUME NEW row \in ipRows, Uuid(row.uuid) = e.id
        PROVE  row.cidr = e.cidr /\ row.list = e.list
    <3>1. row.uuid \in Nat /\ Bears(e, row.uuid)
      BY <2>2 DEF TypeInv, TypeOK, IpRow, Bears
    <3> QED
      BY <3>1 DEF IpInv, OneNetInv
  <2> QED
    BY <2>1, <2>2
<1> QED
  BY <1>1, <1>2, PTL

-----------------------------------------------------------------------------
(* Numbers of additions *)

\* Until something is deleted, no entry bears a number above the size of the map.
NumberedInv ==
  ~deleted => \A e \in ips : e.key.kind = "name" => e.key.n <= Cardinality(ips)

\* An addition then takes a free key and lets the map grow by one.
LEMMA AddGrows ==
  ASSUME TypeInv, NumberedInv, ~deleted, NEW net \in Nets, AddIp(net)
  PROVE  /\ ips \subseteq ips'
         /\ \A e \in ips' : e.key.kind = "name" => e.key.n <= Cardinality(ips')
<1>1. PICK e \in IpEntry : e.key = IpKey /\ ips' = Put(ips, e)
  BY AddIpFacts
<1>2. Cardinality(ips) \in Nat
  BY FS_CardinalityType DEF TypeInv, FiniteInv
<1>3. e.key.kind = "name" /\ e.key.n = Cardinality(ips) + 1
  BY <1>1, KeyFacts DEF IpKey
<1>4. \A x \in ips : x.key.kind = "name" => x.key.n <= Cardinality(ips)
  BY DEF NumberedInv
<1>5. \A x \in ips : x.key # e.key
  <2> SUFFICES ASSUME NEW x \in ips, x.key = e.key PROVE FALSE
    OBVIOUS
  <2>1. Cardinality(ips) + 1 <= Cardinality(ips)
    BY <1>3, <1>4
  <2> QED
    BY <1>2, <2>1
<1>6. ips' = ips \cup {e} /\ e \notin ips
  BY <1>1, <1>5 DEF Put
<1>7. Cardinality(ips') = Cardinality(ips) + 1
  BY <1>6, FS_AddElement DEF TypeInv, FiniteInv
<1>8. \A x \in ips : x.key.kind = "name" => x.key.n \in Nat
  BY DEF TypeInv, TypeOK, IpEntry, Key
<1> QED
  BY <1>2, <1>3, <1>4, <1>6, <1>7, <1>8

\* A process starts with at least the seeded entries, numbered from one.
LEMMA BootNumbers ==
  ASSUME NEW rows, NEW first, IsFiniteSet(BootIps(rows, first))
  PROVE  \A e \in BootIps(rows, first) :
           e.key.kind = "name" => e.key.n <= Cardinality(BootIps(rows, first))
<1> DEFINE f == [i \in 1..Len(SeedIps) |->
             [key |-> Named(i), id |-> IF rows # {} THEN Named(i) ELSE Uuid(first + i),
              cidr |-> SeedIps[i].cidr, list |-> SeedIps[i].list]]
           F == {f[i] : i \in 1..Len(SeedIps)}
<1>1. F \subseteq BootIps(rows, first)
  BY SeedFacts DEF BootIps
<1>2. f \in Surjection(1..Len(SeedIps), F)
  BY DEF Surjection
<1>3. f \in Injection(1..Len(SeedIps), F)
  <2>1. \A i, j \in 1..Len(SeedIps) : f[i] = f[j] => Named(i) = Named(j)
    OBVIOUS
  <2>2. f \in [1..Len(SeedIps) -> F]
    OBVIOUS
  <2> HIDE DEF f, F
  <2>3. \A i, j \in 1..Len(SeedIps) : f[i] = f[j] => i = j
    BY <2>1, KeyFacts
  <2> QED
    BY <2>2, <2>3 DEF Injection, IsInjective
<1>4. \A e \in BootIps(rows, first) : e.key.kind = "name" => \E i \in 1..Len(SeedIps) : e.key.n = i
  BY BootIpFacts, SeedFacts, KeyFacts
<1> HIDE DEF f, F
<1>5. /\ IsFiniteSet(1..Len(SeedIps)) /\ Cardinality(1..Len(SeedIps)) = Len(SeedIps)
      /\ Len(SeedIps) \in Nat
  BY SeedFacts, FS_Interval
<1>6. Cardinality(F) = Len(SeedIps)
  BY <1>2, <1>3, <1>5, FS_Surjection
<1>7. /\ Cardinality(F) <= Cardinality(BootIps(rows, first))
      /\ Cardinality(BootIps(rows, first)) \in Nat
  BY <1>1, FS_Subset, FS_CardinalityType
<1> QED
  BY <1>4, <1>5, <1>6, <1>7

LEMMA InitNumbered == Init => NumberedInv
<1> SUFFICES ASSUME Init PROVE NumberedInv
  OBVIOUS
<1>1. IsFiniteSet(ips) /\ ips = BootIps({}, 0)
  BY InitTypes DEF TypeInv, FiniteInv, Init
<1> QED
  BY <1>1, BootNumbers DEF NumberedInv

LEMMA NextNumbered == TypeInv /\ NumberedInv /\ [Next]_vars => NumberedInv'
<1> SUFFICES ASSUME TypeInv, NumberedInv, [Next]_vars PROVE NumberedInv'
  OBVIOUS
<1>1. ASSUME NEW net \in Nets, AddIp(net) PROVE NumberedInv'
  <2>1. deleted' = deleted
    BY <1>1 DEF AddIp
  <2> QED
    BY <1>1, <2>1, AddGrows DEF NumberedInv
<1>2. ASSUME NEW e \in ips, DeleteIp(e) PROVE NumberedInv'
  BY <1>2 DEF DeleteIp, NumberedInv
<1>3. CASE Restart
  <2>1. IsFiniteSet(ips') /\ ips' = BootIps(ipRows, lastUuid)
    BY <1>3, NextTypes DEF Restart, TypeInv, FiniteInv
  <2>2. \A e \in BootIps(ipRows, lastUuid) :
          e.key.kind = "name" => e.key.n <= Cardinality(BootIps(ipRows, lastUuid))
    BY <2>1, BootNumbers
  <2> QED
    BY <2>1, <2>2 DEF NumberedInv
<1>4. CASE UNCHANGED <<ips, deleted>>
  BY <1>4 DEF NumberedInv
<1>5. ASSUME NEW rid \in RuleIds, NEW text \in Texts, NEW sited \in BOOLEAN,
             CreateRule(rid, text, sited)
      PROVE  UNCHANGED <<ips, deleted>>
  BY <1>5 DEF CreateRule, ipVars
<1>6. ASSUME NEW r \in rules, NEW text \in Texts, UpdateRule(r, text)
      PROVE  UNCHANGED <<ips, deleted>>
  BY <1>6 DEF UpdateRule, ipVars
<1>7. ASSUME NEW r \in rules, DeleteRule(r) PROVE UNCHANGED <<ips, deleted>>
  BY <1>7 DEF DeleteRule, ipVars
<1>8. ASSUME NEW path \in Paths, CreateException(path) PROVE UNCHANGED <<ips, deleted>>
  BY <1>8 DEF CreateException, ipVars
<1>9. ASSUME NEW x \in exceptions, DeleteException(x) PROVE UNCHANGED <<ips, deleted>>
  BY <1>9 DEF DeleteException, ipVars
<1>10. CASE UNCHANGED vars
  BY <1>4, <1>10 DEF vars, ipVars
<1> QED
  BY <1>1, <1>2, <1>3, <1>4, <1>5, <1>6, <1>7, <1>8, <1>9, <1>10 DEF Next

\* A step that neither deletes an entry nor restarts keeps every entry.
LEMMA StepKeepsEntries ==
  TypeInv /\ NumberedInv /\ [Next]_vars
    => [~deleted /\ ~deleted' /\ boots' = boots => ips \subseteq ips']_vars
<1> SUFFICES ASSUME TypeInv, NumberedInv, Next, ~deleted, ~deleted', boots' = boots
             PROVE  ips \subseteq ips'
  OBVIOUS
<1>1. ASSUME NEW net \in Nets, AddIp(net) PROVE ips \subseteq ips'
  BY <1>1, AddGrows
<1>2. ASSUME NEW e \in ips, DeleteIp(e) PROVE FALSE
  BY <1>2 DEF DeleteIp
<1>3. CASE Restart
  <2>1. boots \in Nat /\ boots' = boots + 1
    BY <1>3 DEF Restart, TypeInv, TypeOK
  <2> QED
    BY <2>1
<1>4. ASSUME NEW rid \in RuleIds, NEW text \in Texts, NEW sited \in BOOLEAN,
             CreateRule(rid, text, sited)
      PROVE  ips' = ips
  BY <1>4 DEF CreateRule, ipVars
<1>5. ASSUME NEW r \in rules, NEW text \in Texts, UpdateRule(r, text) PROVE ips' = ips
  BY <1>5 DEF UpdateRule, ipVars
<1>6. ASSUME NEW r \in rules, DeleteRule(r) PROVE ips' = ips
  BY <1>6 DEF DeleteRule, ipVars
<1>7. ASSUME NEW path \in Paths, CreateException(path) PROVE ips' = ips
  BY <1>7 DEF CreateException, ipVars
<1>8. ASSUME NEW x \in exceptions, DeleteException(x) PROVE ips' = ips
  BY <1>8 DEF DeleteException, ipVars
<1> QED
  BY <1>1, <1>2, <1>3, <1>4, <1>5, <1>6, <1>7, <1>8 DEF Next

\* Until an entry is deleted, no addition replaces one, for every number of seeded
\* networks and every mix of seeded and loaded entries.
THEOREM AdditionsKeepEntries == Spec => AddsKeepEntries
<1>1. Spec => [](TypeInv /\ NumberedInv)
  BY InitTypes, NextTypes, InitNumbered, NextNumbered, PTL DEF Spec
<1> QED
  BY <1>1, StepKeepsEntries, PTL DEF Spec, AddsKeepEntries
=============================================================================
