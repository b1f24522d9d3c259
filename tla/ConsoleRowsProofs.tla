--------------------------- MODULE ConsoleRowsProofs ---------------------------
(***************************************************************************)
(* The control plane's rows stay whole, for any rows, texts, seeds, places *)
(* for requests and bounds.                                                *)
(*                                                                         *)
(* What reaches a row was written into a request when it was sent, and     *)
(* came from a form, the editor, a panel or the page's copy of the row,    *)
(* which came from an older answer.  So the invariant follows the marks    *)
(* (Gone, Blank, Zero) through all of these places.                     *)
(***************************************************************************)
EXTENDS ConsoleProofs

Sane(v) == v \notin {Gone, Blank, Zero}

\* What a request can do to a row, by its operation.
CallSane(r) ==
  /\ r.kind = "read" => r.op = "load" /\ \A c \in r.cells : r.vals[c] \notin {Blank, Zero}
  /\ r.kind = "edit" => \A c \in r.cells : Sane(r.vals[c])
  /\ r.op = "pick" /\ r.stage = "answered" => Sane(r.site.tuning)
  /\ r.op \in {"toast", "refreshFeed"} /\ r.cells # {} =>
       /\ r.coll \in Colls /\ \E row \in Rows[r.coll] : r.cells \subseteq RowCells(r.coll, row)
       /\ \A c \in r.cells : Sane(r.vals[c])
  /\ r.op \in {"updateRule", "createRule"} =>
       /\ r.coll = "rules" /\ \E row \in Rows["rules"] : r.cells = RowCells("rules", row)
       /\ \A c \in r.cells : r.vals[c] \notin {Gone, Zero}
  /\ r.op = "delete" =>
       /\ r.coll \in Colls /\ \E row \in Rows[r.coll] : r.cells = RowCells(r.coll, row)
       /\ \A c \in r.cells : r.vals[c] = Gone
  /\ r.op \in {"add", "addForm"} => \A c \in r.cells : r.vals[c] \notin {Gone, Blank}

UiSane(u) ==
  /\ Sane(u.site.tuning)
  /\ u.editing # NoRule =>
       /\ {u.editing.name, u.editing.seclang} \cap {Gone, Zero} = {}
       /\ Sane(u.editing.active)

ShownSane == \A c \in Cells : shown[c] \notin {Blank, Zero}

RowInv ==
  /\ WellFormed(server)
  /\ ShownSane
  /\ UiSane(ui)
  /\ \A s \in Slots : CallSane(flight[s])

-------------------------------------------------------------------------------
(* Rows *)

LEMMA SaneValues ==
  /\ \A v \in OnOff \cup {"SYNCED", "ONLINE", "PENDING", "allow", "block", "some", "on"} : Sane(v)
  /\ \A v \in Texts \cup Levels : Sane(v)
  /\ \A v \in Schema["rates"]["action"] \cup Schema["bots"]["action"] : Sane(v)
<1>1. \A v \in OnOff \cup {"SYNCED", "ONLINE", "PENDING", "allow", "block", "some", "on"} : Sane(v)
  BY DEF Sane, OnOff, Gone, Blank, Zero
<1>2. \A v \in Texts \cup Levels : Sane(v)
  BY SeedAssumption DEF Sane
<1>3. \A v \in Schema["rates"]["action"] \cup Schema["bots"]["action"] : Sane(v)
  BY SchemaIs DEF Sane, Gone, Blank, Zero
<1> QED
  BY <1>1, <1>2, <1>3

\* Everything the schema allows is sane.
LEMMA SchemaSane ==
  ASSUME NEW coll \in Colls, NEW f \in DOMAIN Schema[coll], NEW v \in Schema[coll][f]
  PROVE  Sane(v)
<1>1. \A w \in OnOff \cup Texts \cup Levels : Sane(w)
  BY SaneValues
<1>2. \A w \in {"ONLINE", "OFFLINE", "allow", "block", "PENDING", "SYNCED", "some",
               "BLOCK", "TARPIT", "CAPTCHA", "ALLOW", "LOG", "CHALLENGE"} : Sane(w)
  BY DEF Sane, Gone, Blank, Zero
<1>3. Schema[coll][f] \subseteq OnOff \cup Texts \cup Levels \cup
        {"ONLINE", "OFFLINE", "allow", "block", "PENDING", "SYNCED", "some",
         "BLOCK", "TARPIT", "CAPTCHA", "ALLOW", "LOG", "CHALLENGE"}
  BY CollsAre, SchemaIs, FieldsAre
<1> QED
  BY <1>1, <1>2, <1>3

\* Rows do not share cells.
LEMMA RowsApart ==
  ASSUME NEW coll \in Colls, NEW row \in Rows[coll], NEW coll2 \in Colls, NEW row2 \in Rows[coll2],
         NEW c \in RowCells(coll, row), c \in RowCells(coll2, row2)
  PROVE  coll = coll2 /\ row = row2
  BY CellOf

\* A row is changed as a whole, or in fields that leave it whole.
LEMMA RowChange ==
  ASSUME NEW f, WellFormed(f), NEW coll \in Colls, NEW row \in Rows[coll], NEW new,
         \A c \in Cells \ RowCells(coll, row) : new[c] = f[c],
         \A c \in RowCells(coll, row) : new[c] \notin {Blank, Zero},
         \/ Has(new, coll, row)
         \/ \A c \in RowCells(coll, row) : new[c] = Gone
  PROVE  WellFormed(new)
<1>1. ASSUME NEW coll2 \in Colls, NEW row2 \in Rows[coll2]
      PROVE  \/ Has(new, coll2, row2)
             \/ \A c \in RowCells(coll2, row2) : new[c] = Gone
  <2>1. CASE coll2 = coll /\ row2 = row
    BY <2>1
  <2>2. CASE ~(coll2 = coll /\ row2 = row)
    <3>1. \A c \in RowCells(coll2, row2) : c \in Cells /\ c \notin RowCells(coll, row)
      BY <2>2, CellOf, RowsApart
    <3>2. \A c \in RowCells(coll2, row2) : new[c] = f[c]
      BY <3>1
    <3> QED
      BY <3>2 DEF WellFormed, Has
  <2> QED
    BY <2>1, <2>2
<1>2. \A c \in Cells : new[c] \notin {Blank, Zero}
  BY DEF WellFormed
<1> QED
  BY <1>1, <1>2 DEF WellFormed

\* The row of a request about one row.
LEMMA RowOfIs ==
  ASSUME NEW r, NEW coll \in Colls, NEW row, r.cells # {}, r.cells \subseteq RowCells(coll, row)
  PROVE  RowOf(r) = row
<1>1. (CHOOSE c \in r.cells : TRUE) \in r.cells
  OBVIOUS
<1> QED
  BY <1>1, CellOf DEF RowOf

LEMMA RowNotEmpty ==
  ASSUME NEW coll \in Colls, NEW row PROVE RowCells(coll, row) # {}
<1>1. DOMAIN Schema[coll] # {}
  BY CollsAre, FieldsAre
<1>2. PICK f \in DOMAIN Schema[coll] : TRUE
  BY <1>1
<1>3. <<coll, row, f>> \in RowCells(coll, row)
  BY CellOf
<1> QED
  BY <1>3

-------------------------------------------------------------------------------
(* Requests *)

LEMMA FreeSane == CallSane(Free)
  BY DEF CallSane, Free, Request

LEMMA LoadSane == ASSUME NEW coll \in Colls PROVE CallSane(Load("load", coll))
<1>1. /\ Load("load", coll).op = "load" /\ Load("load", coll).kind = "read"
      /\ Load("load", coll).vals = [c \in CollCells(coll) |-> Gone]
      /\ Load("load", coll).cells = CollCells(coll)
  BY DEF Load, Request
<1> QED
  BY <1>1 DEF CallSane, Gone, Blank, Zero

LEMMA BlindSane ==
  ASSUME NEW op \in {"pick", "logs", "sandbox", "toast"}, NEW coll
  PROVE  CallSane(Request("blind", op, coll, {}, Nothing))
  BY DEF CallSane, Request

\* A request about some fields of one row.
OfRow(r, kind, op, coll, row, fields) ==
  /\ r.kind = kind /\ r.op = op /\ r.coll = coll
  /\ r.cells \subseteq RowCells(coll, row)
  /\ DOMAIN fields = DOMAIN Schema[coll] => r.cells = RowCells(coll, row)
  /\ \A c \in r.cells : \E f \in DOMAIN fields : r.vals[c] = fields[f]

LEMMA RowRequestIs ==
  ASSUME NEW kind, NEW op, NEW coll \in Colls, NEW row, NEW fields,
         DOMAIN fields \subseteq DOMAIN Schema[coll]
  PROVE  OfRow(RowRequest(kind, op, coll, row, fields), kind, op, coll, row, fields)
<1> DEFINE cells == {<<coll, row, f>> : f \in DOMAIN fields}
           vals == [c \in cells |-> fields[c[3]]]
<1>1. PICK r : r = RowRequest(kind, op, coll, row, fields)
  OBVIOUS
<1>2. r = Request(kind, op, coll, cells, vals)
  BY <1>1 DEF RowRequest
<1>3. cells \subseteq RowCells(coll, row)
  BY DEF RowCells
<1>4. DOMAIN fields = DOMAIN Schema[coll] => cells = RowCells(coll, row)
  BY DEF RowCells
<1>5. \A c \in cells : \E f \in DOMAIN fields : vals[c] = fields[f]
  OBVIOUS
<1> HIDE DEF cells, vals
<1>6. r.kind = kind /\ r.op = op /\ r.coll = coll /\ r.cells = cells /\ r.vals = vals
  BY <1>2 DEF Request
<1> QED
  BY <1>1, <1>3, <1>4, <1>5, <1>6 DEF OfRow

LEMMA PatchSane ==
  ASSUME NEW kind \in {"edit", "mutate", "blind"}, NEW op \in {"toast", "refreshFeed"},
         NEW coll \in Colls, NEW row \in Rows[coll], NEW fields,
         DOMAIN fields \subseteq DOMAIN Schema[coll], \A f \in DOMAIN fields : Sane(fields[f])
  PROVE  CallSane(RowRequest(kind, op, coll, row, fields))
<1>1. PICK r : r = RowRequest(kind, op, coll, row, fields)
  OBVIOUS
<1>2. OfRow(r, kind, op, coll, row, fields)
  BY <1>1, RowRequestIs
<1>3. \A c \in r.cells : Sane(r.vals[c])
  BY <1>2 DEF OfRow
<1>4. CallSane(r)
  BY <1>2, <1>3 DEF CallSane, OfRow
<1> QED
  BY <1>1, <1>4

LEMMA RuleSane ==
  ASSUME NEW op \in {"updateRule", "createRule"}, NEW row \in Rows["rules"],
         NEW fields, DOMAIN fields = {"name", "seclang", "active"},
         \A f \in DOMAIN fields : fields[f] \notin {Gone, Zero}
  PROVE  CallSane(RowRequest("mutate", op, "rules", row, fields))
<1>1. PICK coll, kind : coll = "rules" /\ kind = "mutate"
  OBVIOUS
<1>2. PICK r : r = RowRequest(kind, op, coll, row, fields)
  OBVIOUS
<1>3. coll \in Colls /\ DOMAIN fields = DOMAIN Schema[coll]
  BY <1>1, CollsAre, FieldsAre
<1>4. OfRow(r, kind, op, coll, row, fields)
  BY <1>2, <1>3, RowRequestIs
<1>5. \A c \in r.cells : r.vals[c] \notin {Gone, Zero}
  BY <1>4 DEF OfRow
<1>6. r.cells = RowCells(coll, row) /\ r.kind = kind /\ r.op = op /\ r.coll = coll
  BY <1>3, <1>4 DEF OfRow
<1>7. CallSane(r)
  BY <1>1, <1>5, <1>6 DEF CallSane
<1> QED
  BY <1>1, <1>2, <1>7

LEMMA AddSane ==
  ASSUME NEW kind \in {"mutate", "blind"}, NEW op \in {"add", "addForm"}, NEW coll \in Colls,
         NEW fields, \A f \in DOMAIN Schema[coll] : fields[f] \notin {Gone, Blank}
  PROVE  CallSane(AddRequest(kind, op, coll, fields))
<1> DEFINE vals == [c \in CollCells(coll) |-> fields[c[3]]]
<1>1. PICK r : r = AddRequest(kind, op, coll, fields)
  OBVIOUS
<1>2. \A c \in CollCells(coll) : vals[c] \notin {Gone, Blank}
  BY CellOf
<1>3. r = Request(kind, op, coll, CollCells(coll), vals)
  BY <1>1 DEF AddRequest
<1> HIDE DEF vals
<1>4. /\ r.kind = kind /\ r.op = op /\ r.cells = CollCells(coll) /\ r.vals = vals
  BY <1>3 DEF Request
<1>5. CallSane(r)
  BY <1>2, <1>4 DEF CallSane
<1> QED
  BY <1>1, <1>5

LEMMA DeleteSane ==
  ASSUME NEW coll \in Colls, NEW row \in Rows[coll]
  PROVE  CallSane(Request("mutate", "delete", coll, RowCells(coll, row),
                          [c \in RowCells(coll, row) |-> Gone]))
<1> DEFINE vals == [c \in RowCells(coll, row) |-> Gone]
<1>1. \A c \in RowCells(coll, row) : vals[c] = Gone
  OBVIOUS
<1> HIDE DEF vals
<1>2. PICK r : r = Request("mutate", "delete", coll, RowCells(coll, row), vals)
  OBVIOUS
<1>3. /\ r.kind = "mutate" /\ r.op = "delete" /\ r.coll = coll
      /\ r.cells = RowCells(coll, row) /\ r.vals = vals
  BY <1>2 DEF Request
<1>4. CallSane(r)
  BY <1>1, <1>3 DEF CallSane
<1> QED
  BY <1>2, <1>4 DEF vals

-------------------------------------------------------------------------------
(* Click handlers *)

\* A handler, as in ConsoleProofs, that is sane too.
SaneHandler ==
  \/ \E u : UiSane(u) /\ Local(u)
  \/ \E r : CallSane(r) /\ Outgoing(r) /\ Post(r)

\* The two cases, as rules.
LEMMA SaneLocal == ASSUME NEW u, UiSane(u), Local(u) PROVE SaneHandler
  BY DEF SaneHandler

LEMMA SanePost == ASSUME NEW r, CallSane(r), Outgoing(r), Post(r) PROVE SaneHandler
  BY DEF SaneHandler

\* A handler that leaves the panel and the editor alone.
LEMMA SameForms ==
  ASSUME NEW u, NEW w, UiSane(u), w.site = u.site, w.editing = u.editing PROVE UiSane(w)
  BY DEF UiSane

LEMMA FormChanges ==
  ASSUME NEW u, UiOK(u), UiSane(u)
  PROVE  /\ \A v : UiSane([u EXCEPT !.modal = v]) /\ UiSane([u EXCEPT !.rows = v])
         /\ \A v : UiSane([u EXCEPT !.selected = v]) /\ UiSane([u EXCEPT !.filters = v])
         /\ \A v : UiSane(Toasted(u, v))
         /\ \A v : Sane(v.tuning) => UiSane([u EXCEPT !.site = v])
         /\ UiSane([u EXCEPT !.editing = NoRule])
         /\ \A v : {v.name, v.seclang} \cap {Gone, Zero} = {} /\ Sane(v.active)
                     => UiSane([u EXCEPT !.editing = v])
<1>1. \A v : UiSane([u EXCEPT !.modal = v]) /\ UiSane([u EXCEPT !.rows = v])
  BY DEF UiOK, UiSane
<1>2. \A v : UiSane([u EXCEPT !.selected = v]) /\ UiSane([u EXCEPT !.filters = v])
  BY DEF UiOK, UiSane
<1>3. \A v : UiSane(Toasted(u, v))
  BY DEF UiOK, UiSane, Toasted
<1>4. \A v : Sane(v.tuning) => UiSane([u EXCEPT !.site = v])
  BY DEF UiOK, UiSane
<1>5. UiSane([u EXCEPT !.editing = NoRule])
  BY DEF UiOK, UiSane
<1>6. ASSUME NEW v, {v.name, v.seclang} \cap {Gone, Zero} = {}, Sane(v.active)
      PROVE  UiSane([u EXCEPT !.editing = v])
  BY <1>6 DEF UiOK, UiSane
<1> QED
  BY <1>1, <1>2, <1>3, <1>4, <1>5, <1>6

\* What the page shows of a row is sane.
LEMMA ShownRowSane ==
  ASSUME ShownSane, NEW coll \in Colls, NEW row \in Rows[coll], Has(shown, coll, row)
  PROVE  \A f \in DOMAIN Schema[coll] : Sane(shown[<<coll, row, f>>])
<1>1. ASSUME NEW f \in DOMAIN Schema[coll] PROVE Sane(shown[<<coll, row, f>>])
  <2>1. <<coll, row, f>> \in RowCells(coll, row) /\ <<coll, row, f>> \in Cells
    BY CellOf
  <2> QED
    BY <2>1 DEF Has, ShownSane, Sane
<1> QED
  BY <1>1

LEMMA RulesPageSane == ASSUME StateOK, RowInv, RulesPage PROVE SaneHandler
<1>u. UiOK(ui) /\ EditingOK(ui.editing) /\ ui.site \in SiteCopies /\ UiSane(ui) /\ ShownSane
  BY DEF StateOK, UiOK, RowInv
<1>1. ASSUME NEW row \in Rows["crs"], ToggleCategory(row) PROVE SaneHandler
  <2>1. PICK v \in OnOff : Post(RowRequest("edit", "toast", "crs", row, [enabled |-> v]))
    BY <1>1 DEF ToggleCategory
  <2>2. [enabled |-> v] \in [{"enabled"} -> Values] /\ Sane(v)
    BY KnownValues, SaneValues
  <2>3. Outgoing(RowRequest("edit", "toast", "crs", row, [enabled |-> v]))
    BY <2>2, CollsAre, FieldsAre, RowRequestOK DEF EditOps
  <2>4. CallSane(RowRequest("edit", "toast", "crs", row, [enabled |-> v]))
    BY <2>2, CollsAre, FieldsAre, PatchSane
  <2> QED
    BY <2>1, <2>3, <2>4, SanePost
<1>2. ASSUME NEW row \in Rows["sites"], SelectSite(row) PROVE SaneHandler
  <2>1. Sane(SiteOf(shown, row).tuning)
    BY <1>2, <1>u, ShownRowSane, CollsAre, FieldsAre DEF SelectSite, SiteOf
  <2> QED
    BY <1>2, <1>u, <2>1, FormChanges, SaneLocal DEF SelectSite
<1>3. ASSUME NEW v \in Levels, MoveSlider(v) PROVE SaneHandler
  <2>1. PICK site : site = [ui.site EXCEPT !.tuning = v]
    OBVIOUS
  <2>2. Sane(site.tuning)
    BY <2>1, <1>u, SaneValues DEF SiteCopies
  <2>3. [ui EXCEPT !.site.tuning = v] = [ui EXCEPT !.site = site]
    BY <1>u, <2>1 DEF UiOK
  <2> QED
    BY <1>3, <1>u, <2>2, <2>3, FormChanges, SaneLocal DEF MoveSlider
<1>4. CASE SavePolicy
  <2>1. ui.site.row \in Rows["sites"] /\ ui.site.tuning \in Values /\ Sane(ui.site.tuning)
    BY <1>u DEF SiteCopies, UiSane
  <2>2. [tuning |-> ui.site.tuning] \in [{"tuning"} -> Values]
    BY <2>1
  <2>3. Outgoing(RowRequest("blind", "toast", "sites", ui.site.row, [tuning |-> ui.site.tuning]))
    BY <2>1, <2>2, CollsAre, FieldsAre, RowRequestOK DEF EditOps
  <2>4. CallSane(RowRequest("blind", "toast", "sites", ui.site.row, [tuning |-> ui.site.tuning]))
    BY <2>1, CollsAre, FieldsAre, PatchSane
  <2> QED
    BY <1>4, <2>3, <2>4, SanePost DEF SavePolicy
<1>5. ASSUME NEW row \in Rows["rules"], ToggleRule(row) PROVE SaneHandler
  <2>1. PICK v \in OnOff : Post(RowRequest("edit", "toast", "rules", row, [active |-> v]))
    BY <1>5 DEF ToggleRule
  <2>2. [active |-> v] \in [{"active"} -> Values] /\ Sane(v)
    BY KnownValues, SaneValues
  <2>3. Outgoing(RowRequest("edit", "toast", "rules", row, [active |-> v]))
    BY <2>2, CollsAre, FieldsAre, RowRequestOK DEF EditOps
  <2>4. CallSane(RowRequest("edit", "toast", "rules", row, [active |-> v]))
    BY <2>2, CollsAre, FieldsAre, PatchSane
  <2> QED
    BY <2>1, <2>3, <2>4, SanePost
<1>6. ASSUME NEW e, Local([ui EXCEPT !.editing = e]),
             \/ e = NoRule
             \/ {e.name, e.seclang} \cap {Gone, Zero} = {} /\ Sane(e.active)
      PROVE  SaneHandler
  BY <1>6, <1>u, FormChanges, SaneLocal
<1>7. ASSUME NEW row \in Rows["rules"], EditRule(row) PROVE SaneHandler
  <2> DEFINE e == [id |-> row, rule |-> row, name |-> shown[<<"rules", row, "name">>],
                   seclang |-> shown[<<"rules", row, "seclang">>],
                   active |-> shown[<<"rules", row, "active">>]]
  <2>1. Sane(e.name) /\ Sane(e.seclang) /\ Sane(e.active)
    BY <1>7, <1>u, ShownRowSane, CollsAre, FieldsAre DEF EditRule
  <2>2. Local([ui EXCEPT !.editing = e])
    BY <1>7 DEF EditRule, OpenEditor
  <2> HIDE DEF e
  <2> QED
    BY <2>1, <2>2, <1>6 DEF Sane
<1>8. CASE NewRule
  <2> DEFINE e == [id |-> 0, rule |-> 900003, name |-> EmptyRule, seclang |-> EmptyRule,
                   active |-> "on"]
  <2>1. EmptyRule \in Texts
    BY ConsoleAssumption DEF EmptyRule
  <2>2. Sane(e.name) /\ Sane(e.seclang) /\ Sane(e.active)
    BY <2>1, SaneValues
  <2>3. Local([ui EXCEPT !.editing = e])
    BY <1>8 DEF NewRule, OpenEditor
  <2> HIDE DEF e
  <2> QED
    BY <2>2, <2>3, <1>6 DEF Sane
<1>9. CASE CloseEditor
  BY <1>9, <1>6 DEF CloseEditor
<1>10. ASSUME NEW field, NEW v, TypeRule(field, v),
              \/ field \in {"name", "seclang"} /\ v \in Texts \cup {Blank}
              \/ field = "rule"
       PROVE  SaneHandler
  <2>1. PICK e : e = [ui.editing EXCEPT ![field] = v]
    OBVIOUS
  <2>2. v \in Texts \cup {Blank} => v \notin {Gone, Zero}
    BY SaneValues DEF Sane, Gone, Blank, Zero
  <2>3. {e.name, e.seclang} \cap {Gone, Zero} = {} /\ Sane(e.active)
    BY <1>10, <1>u, <2>1, <2>2 DEF TypeRule, NoEditor, EditingOK, UiSane
  <2>4. [ui EXCEPT !.editing[field] = v] = [ui EXCEPT !.editing = e]
    BY <1>u, <2>1 DEF UiOK
  <2> QED
    BY <1>10, <2>3, <2>4, <1>6 DEF TypeRule
<1>11. CASE RunSandbox
  BY <1>11, BlindOK, BlindSane, SanePost DEF RunSandbox
<1>12. ASSUME NEW t \in Values, SaveRule(t), t \notin {Gone, Zero} PROVE SaneHandler
  <2> DEFINE e == ui.editing
             fields == [name |-> e.name, seclang |-> t, active |-> e.active]
  <2>1. /\ e.rule \in Rows["rules"] /\ {e.name, e.active} \subseteq Values
        /\ e.name \notin {Gone, Zero} /\ e.active \notin {Gone, Zero}
    BY <1>12, <1>u DEF SaveRule, NoEditor, EditingOK, UiSane, Sane
  <2>2. fields \in [{"name", "seclang", "active"} -> Values]
    BY <2>1
  <2>3. DOMAIN fields = {"name", "seclang", "active"}
        /\ \A f \in DOMAIN fields : fields[f] \notin {Gone, Zero}
    BY <2>1, <1>12
  <2>4. \/ Post(RowRequest("mutate", "createRule", "rules", e.rule, fields))
        \/ e.id \in Rows["rules"] /\ Post(RowRequest("mutate", "updateRule", "rules", e.id, fields))
    BY <1>12 DEF SaveRule, RowsIn
  <2> HIDE DEF e, fields
  <2>5. ASSUME NEW op \in {"createRule", "updateRule"}, NEW row \in Rows["rules"]
        PROVE  /\ Outgoing(RowRequest("mutate", op, "rules", row, fields))
               /\ CallSane(RowRequest("mutate", op, "rules", row, fields))
    <3>1. Outgoing(RowRequest("mutate", op, "rules", row, fields))
      BY <2>2, CollsAre, FieldsAre, RowRequestOK DEF EditOps
    <3>2. CallSane(RowRequest("mutate", op, "rules", row, fields))
      BY <2>3, RuleSane
    <3> QED
      BY <3>1, <3>2
  <2> QED
    BY <2>1, <2>4, <2>5, SanePost
<1>13. CASE SaveCode
  <2>1. ui.editing.seclang \in Values /\ ui.editing.seclang \notin {Gone, Zero}
    BY <1>13, <1>u DEF SaveCode, NoEditor, EditingOK, UiSane
  <2> QED
    BY <1>13, <2>1, <1>12 DEF SaveCode
<1>14. CASE SaveVisual
  BY <1>14, <1>12, KnownValues, SaneValues DEF SaveVisual, Sane
<1>15. ASSUME NEW row \in Rows["rules"], DeleteRule(row) PROVE SaneHandler
  BY <1>15, DeleteRequestOK, DeleteSane, CollsAre, SanePost DEF DeleteRule, DeleteRow
<1> QED
  BY <1>1, <1>2, <1>3, <1>4, <1>5, <1>7, <1>8, <1>9, <1>10, <1>11, <1>13, <1>14, <1>15
     DEF RulesPage

\* What the forms of one field send; the number of an exception's rule may be 0.
SaneRow(coll, fields) ==
  /\ fields \in [DOMAIN Schema[coll] -> Values]
  /\ \A f \in DOMAIN Schema[coll] : fields[f] \notin {Gone, Blank}

LEMMA FormRowsSane ==
  /\ \A rule \in {Zero, "some"} : SaneRow("exceptions", [rule |-> rule])
  /\ SaneRow("nodes", [status |-> "ONLINE"])
  /\ SaneRow("feeds", [status |-> "PENDING"])
  /\ SaneRow("ips", [list |-> "allow"]) /\ SaneRow("ips", [list |-> "block"])
<1>1. \A v \in {Zero, "some", "ONLINE", "PENDING", "allow", "block"} : v # Gone /\ v # Blank
  BY DEF Gone, Blank, Zero
<1>2. ASSUME NEW rule \in {Zero, "some"} PROVE SaneRow("exceptions", [rule |-> rule])
  BY <1>1, FieldsAre, KnownValues DEF SaneRow
<1>3. SaneRow("nodes", [status |-> "ONLINE"])
  BY <1>1, FieldsAre, KnownValues DEF SaneRow
<1>4. SaneRow("feeds", [status |-> "PENDING"])
  BY <1>1, FieldsAre, KnownValues DEF SaneRow
<1>5. SaneRow("ips", [list |-> "allow"]) /\ SaneRow("ips", [list |-> "block"])
  BY <1>1, FieldsAre, KnownValues DEF SaneRow
<1> QED
  BY <1>2, <1>3, <1>4, <1>5

LEMMA OtherPagesSane == ASSUME StateOK, RowInv, OtherPages PROVE SaneHandler
<1>u. UiOK(ui) /\ UiSane(ui)
  BY DEF StateOK, UiOK, RowInv
<1>1. ASSUME NEW row \in Rows["rates"], NEW field \in {"action", "enabled"}, NEW v \in Values,
             Sane(v), SetRate(row, field, v)
      PROVE  SaneHandler
  <2> DEFINE fields == [f \in {field} |-> v]
  <2>1. fields \in [{field} -> Values] /\ {field} \subseteq DOMAIN Schema["rates"]
    BY FieldsAre
  <2>2. DOMAIN fields = {field} /\ \A f \in DOMAIN fields : Sane(fields[f])
    BY <1>1
  <2>3. Post(RowRequest("edit", "toast", "rates", row, fields))
    BY <1>1 DEF SetRate
  <2> HIDE DEF fields
  <2>4. Outgoing(RowRequest("edit", "toast", "rates", row, fields))
    BY <2>1, CollsAre, RowRequestOK DEF EditOps
  <2>5. CallSane(RowRequest("edit", "toast", "rates", row, fields))
    BY <2>1, <2>2, CollsAre, PatchSane
  <2> QED
    BY <2>3, <2>4, <2>5, SanePost
<1>2. ASSUME NEW row \in Rows["rates"], NEW v \in Schema["rates"]["action"], SetRateAction(row, v)
      PROVE  SaneHandler
  <2>1. v \in Values /\ Sane(v)
    BY ValuesAre, CollsAre, FieldsAre, SaneValues
  <2> QED
    BY <1>1, <1>2, <2>1 DEF SetRateAction
<1>3. ASSUME NEW row \in Rows["rates"], NEW v \in OnOff, ToggleRate(row, v) PROVE SaneHandler
  BY <1>1, <1>3, KnownValues, SaneValues DEF ToggleRate
<1>4. ASSUME NEW op \in {"add", "addForm"}, NEW threshold \in {Zero, "some"},
             NEW action \in Schema["rates"]["action"],
             Post(AddRequest("mutate", op, "rates",
                    [threshold |-> threshold, enabled |-> "on", action |-> action]))
      PROVE  SaneHandler
  <2> DEFINE fields == [threshold |-> threshold, enabled |-> "on", action |-> action]
  <2>1. fields \in [DOMAIN Schema["rates"] -> Values]
    BY RateFields
  <2>2. /\ fields["threshold"] \notin {Gone, Blank} /\ fields["enabled"] \notin {Gone, Blank}
        /\ fields["action"] \notin {Gone, Blank}
    BY SaneValues DEF Sane, Gone, Blank, Zero
  <2> HIDE DEF fields
  <2>3. \A f \in DOMAIN Schema["rates"] : fields[f] \notin {Gone, Blank}
    BY <2>2, FieldsAre
  <2>4. Outgoing(AddRequest("mutate", op, "rates", fields))
    BY <2>1, CollsAre, AddRequestOK
  <2>5. CallSane(AddRequest("mutate", op, "rates", fields))
    BY <2>3, CollsAre, AddSane
  <2> QED
    BY <1>4, <2>4, <2>5, SanePost DEF fields
<1>5. ASSUME NEW threshold \in {Zero, "some"}, QuickAdd(threshold) PROVE SaneHandler
  <2>1. "BLOCK" \in Schema["rates"]["action"]
    BY SchemaIs
  <2> QED
    BY <1>4, <1>5, <2>1 DEF QuickAdd
<1>6. ASSUME NEW action \in Schema["rates"]["action"], AddRate(action) PROVE SaneHandler
  BY <1>4, <1>6 DEF AddRate
<1>7. ASSUME NEW row \in Rows["bots"], NEW v \in Schema["bots"]["action"], SetBotAction(row, v)
      PROVE  SaneHandler
  <2>1. v \in Values /\ Sane(v)
    BY ValuesAre, CollsAre, FieldsAre, SaneValues
  <2>2. [action |-> v] \in [{"action"} -> Values]
    BY <2>1
  <2>3. Outgoing(RowRequest("edit", "toast", "bots", row, [action |-> v]))
    BY <2>2, CollsAre, FieldsAre, RowRequestOK DEF EditOps
  <2>4. CallSane(RowRequest("edit", "toast", "bots", row, [action |-> v]))
    BY <2>1, CollsAre, FieldsAre, PatchSane
  <2> QED
    BY <1>7, <2>3, <2>4, SanePost DEF SetBotAction
<1>8. CASE OpenForm \/ CloseForm
  <2>1. PICK v \in BOOLEAN : Local([ui EXCEPT !.modal = v])
    BY <1>8 DEF OpenForm, CloseForm
  <2> QED
    BY <2>1, <1>u, FormChanges, SaneLocal
<1>9. ASSUME NEW kind \in {"mutate", "blind"}, NEW op \in {"add", "addForm"},
             NEW coll \in {"exceptions", "ips", "nodes", "feeds"}, NEW fields,
             SaneRow(coll, fields), Post(AddRequest(kind, op, coll, fields))
      PROVE  SaneHandler
  <2>1. Outgoing(AddRequest(kind, op, coll, fields))
    BY <1>9, CollsAre, AddRequestOK DEF SaneRow
  <2>2. CallSane(AddRequest(kind, op, coll, fields))
    BY <1>9, CollsAre, AddSane DEF SaneRow
  <2> QED
    BY <1>9, <2>1, <2>2, SanePost
<1>12. ASSUME NEW rule \in {Zero, "some"}, CreateException(rule) PROVE SaneHandler
  BY <1>9, FormRowsSane, <1>12 DEF CreateException
<1>26. CASE ExceptionOfLog
  <2>1. PICK rule \in {Zero, "some"} : OfLogEntry("exceptions", [rule |-> rule])
    BY <1>26 DEF ExceptionOfLog
  <2> QED
    BY <1>9, FormRowsSane, <2>1 DEF OfLogEntry
<1>13. CASE RegisterNode
  BY <1>9, FormRowsSane, <1>13 DEF RegisterNode
<1>14. CASE RefreshNodes
  BY <1>14, LoadOK, LoadSane, CollsAre, SanePost DEF RefreshNodes
<1>15. ASSUME NEW row \in Rows["exceptions"], Revoke(row) PROVE SaneHandler
  BY <1>15, DeleteRequestOK, DeleteSane, CollsAre, SanePost DEF Revoke, DeleteRow
<1>16. ASSUME NEW row \in Rows["ips"], DeleteIp(row) PROVE SaneHandler
  BY <1>16, DeleteRequestOK, DeleteSane, CollsAre, SanePost DEF DeleteIp, DeleteRow
<1>17. ASSUME NEW list \in {"allow", "block"}, AddIp(list) PROVE SaneHandler
  <2>1. SaneRow("ips", [list |-> list])
    BY FormRowsSane
  <2> QED
    BY <1>9, <1>17, <2>1 DEF AddIp
<1>18. CASE BlockClient
  BY <1>9, FormRowsSane, <1>18 DEF BlockClient, OfLogEntry
<1>19. CASE ImportFeed
  BY <1>9, FormRowsSane, <1>19 DEF ImportFeed
<1>20. ASSUME NEW row \in Rows["feeds"], RefreshFeed(row) PROVE SaneHandler
  <2>1. [status |-> "SYNCED"] \in [{"status"} -> Values] /\ Sane("SYNCED")
    BY KnownValues, SaneValues
  <2>2. Outgoing(RowRequest("mutate", "refreshFeed", "feeds", row, [status |-> "SYNCED"]))
    BY <2>1, CollsAre, FieldsAre, RowRequestOK DEF EditOps
  <2>3. CallSane(RowRequest("mutate", "refreshFeed", "feeds", row, [status |-> "SYNCED"]))
    BY <2>1, CollsAre, FieldsAre, PatchSane
  <2> QED
    BY <1>20, <2>2, <2>3, SanePost DEF RefreshFeed
<1>21. CASE ExportPolicy
  BY <1>21, BlindOK, BlindSane, SanePost DEF ExportPolicy
<1>22. ASSUME NEW entry, Local([ui EXCEPT !.selected = entry]) PROVE SaneHandler
  BY <1>22, <1>u, FormChanges, SaneLocal
<1>23. ASSUME NEW entry, SelectLog(entry) PROVE SaneHandler
  BY <1>22, <1>23 DEF SelectLog
<1>24. CASE CloseDrawer
  BY <1>22, <1>24 DEF CloseDrawer
<1>25. ASSUME NEW field, NEW v, SetFilter(field, v) PROVE SaneHandler
  <2>1. [ui EXCEPT !.filters[field] = v] = [ui EXCEPT !.filters = [ui.filters EXCEPT ![field] = v]]
    BY <1>u DEF UiOK
  <2> QED
    BY <1>25, <1>u, <2>1, FormChanges, SaneLocal DEF SetFilter
<1> QED
  BY <1>2, <1>3, <1>5, <1>6, <1>7, <1>8, <1>12, <1>13, <1>14, <1>15, <1>16, <1>17, <1>18, <1>19,
     <1>20, <1>21, <1>23, <1>24, <1>25, <1>26
     DEF OtherPages

\* Requests in one slot.
LEMMA SlotSane ==
  ASSUME StateOK, RowInv, NEW s \in Slots, NEW r, CallSane(r), flight' = [flight EXCEPT ![s] = r]
  PROVE  \A t \in Slots : CallSane(flight'[t])
<1>1. flight'[s] = r /\ \A t \in Slots \ {s} : flight'[t] = flight[t]
  BY DEF StateOK, FlightOK
<1> QED
  BY <1>1 DEF RowInv

LEMMA HandlerKeepsRows == ASSUME StateOK, RowInv, SaneHandler PROVE RowInv'
<1>1. ASSUME NEW u, UiSane(u), Local(u) PROVE RowInv'
  BY <1>1 DEF Local, RowInv, ShownSane
<1>2. ASSUME NEW r, CallSane(r), Outgoing(r), Post(r) PROVE RowInv'
  <2>1. FirstFree \in Slots /\ flight' = [flight EXCEPT ![FirstFree] = r]
        /\ UNCHANGED <<server, ui>>
    BY <1>2, FirstFreeIs DEF Post
  <2>2. \A t \in Slots : CallSane(flight'[t])
    BY <1>2, <2>1, SlotSane
  <2>3. ShownSane'
    BY <1>2 DEF Post, RowInv, ShownSane, CallSane, Sane
  <2> QED
    BY <2>1, <2>2, <2>3 DEF RowInv
<1> QED
  BY <1>1, <1>2 DEF SaneHandler

-------------------------------------------------------------------------------
(* The control plane and the proxy *)

\* The control plane and the proxy change no more of a request than its stage
\* and what comes back with it.
LEMMA SameSane ==
  ASSUME NEW r, CallSane(r), NEW q, q.kind = r.kind, q.op = r.op, q.coll = r.coll,
         q.cells = r.cells, q.vals = r.vals,
         q.op = "pick" /\ q.stage = "answered" => Sane(q.site.tuning)
  PROVE  CallSane(q)
  BY DEF CallSane

LEMMA CarryRows ==
  ASSUME StateOK, RowInv, NEW s \in Slots, NEW new, WellFormed(new), Carry(s, new),
         flight[s].op # "pick"
  PROVE  RowInv'
<1> DEFINE r == flight[s]
           stage == IF NullBody(r) THEN "failed" ELSE "answered"
           vals == IF r.kind = "read" THEN [c \in r.cells |-> server[c]] ELSE r.vals
<1>1. CallOK(r) /\ CallSane(r) /\ r.cells \subseteq Cells
  BY DEF StateOK, FlightOK, RowInv, CallOK, Planned
<1>2. PICK q : q = Advanced(r, stage, vals, r.site, r.rows, TRUE)
  OBVIOUS
<1>3. flight' = [flight EXCEPT ![s] = q]
  <2>1. [r EXCEPT !.done = TRUE, !.stage = stage, !.vals = vals] = q
    BY <1>1, <1>2, CarriedBy DEF CallOK
  <2>2. flight' = [flight EXCEPT ![s] = [r EXCEPT !.done = TRUE, !.stage = stage, !.vals = vals]]
    BY DEF Carry
  <2> QED
    BY <2>1, <2>2
<1>4. \A c \in Cells : server[c] \notin {Blank, Zero}
  BY DEF RowInv, WellFormed
<1>5. r.kind = "read" => \A c \in r.cells : vals[c] \notin {Blank, Zero}
  BY <1>1, <1>4
<1>6. r.kind # "read" => vals = r.vals
  OBVIOUS
<1> HIDE DEF stage, vals
<1>7. /\ q.kind = r.kind /\ q.op = r.op /\ q.coll = r.coll /\ q.cells = r.cells /\ q.vals = vals
  BY <1>2 DEF Advanced
<1>8. CASE r.kind = "read"
  <2>1. r.op = "load"
    BY <1>1, <1>8 DEF CallSane
  <2>2. CallSane(q)
    BY <1>5, <1>7, <1>8, <2>1 DEF CallSane
  <2> QED
    BY <1>3, <2>2, SlotSane DEF Carry, RowInv, ShownSane
<1>9. CASE r.kind # "read"
  <2>1. CallSane(q)
    BY <1>1, <1>6, <1>7, <1>9, SameSane
  <2> QED
    BY <1>3, <2>1, SlotSane DEF Carry, RowInv, ShownSane
<1> QED
  BY <1>8, <1>9

LEMMA FailureRows ==
  ASSUME StateOK, RowInv, NEW s \in Slots, NEW d,
         \/ flight' = [flight EXCEPT ![s].stage = "failed"]
         \/ flight' = [flight EXCEPT ![s].stage = "failed", ![s].done = d],
         UNCHANGED <<server, shown, ui>>
  PROVE  RowInv'
<1> DEFINE r == flight[s]
<1>1. Shaped(r) /\ CallSane(r)
  BY DEF StateOK, FlightOK, CallOK, RowInv
<1>2. PICK e : flight' = [flight EXCEPT ![s] = Advanced(r, "failed", r.vals, r.site, r.rows, e)]
  <2>1. [r EXCEPT !.stage = "failed"] = Advanced(r, "failed", r.vals, r.site, r.rows, r.done)
    BY <1>1, StageBy
  <2>2. [r EXCEPT !.stage = "failed", !.done = d]
          = Advanced(r, "failed", r.vals, r.site, r.rows, d)
    BY <1>1, FailedBy
  <2>3. \/ flight' = [flight EXCEPT ![s] = [r EXCEPT !.stage = "failed"]]
        \/ flight' = [flight EXCEPT ![s] = [r EXCEPT !.stage = "failed", !.done = d]]
    BY DEF StateOK, FlightOK
  <2> QED
    BY <2>1, <2>2, <2>3
<1>3. PICK q : q = Advanced(r, "failed", r.vals, r.site, r.rows, e)
  OBVIOUS
<1>4. /\ q.kind = r.kind /\ q.op = r.op /\ q.coll = r.coll /\ q.cells = r.cells
      /\ q.vals = r.vals /\ q.stage = "failed"
  BY <1>3 DEF Advanced
<1>5. CallSane(q)
  BY <1>1, <1>4, SameSane
<1> QED
  BY <1>2, <1>3, <1>5, SlotSane DEF RowInv, ShownSane

LEMMA RefuseRows ==
  ASSUME StateOK, RowInv, NEW s \in Slots, Refuse(s) PROVE RowInv'
  BY FailureRows DEF Refuse

\* A row that is there stays whole when fields of it are written.
LEMMA WriteWhole ==
  ASSUME StateOK, RowInv, NEW coll \in Colls, NEW row \in Rows[coll], NEW new,
         \A c \in Cells \ RowCells(coll, row) : new[c] = server[c],
         Has(server, coll, row),
         \A c \in RowCells(coll, row) : new[c] = server[c] \/ Sane(new[c])
  PROVE  WellFormed(new)
<1>1. \A c \in RowCells(coll, row) : c \in Cells
  BY CellOf
<1>2. \A c \in RowCells(coll, row) : Sane(new[c])
  BY <1>1 DEF RowInv, WellFormed, Has, Sane
<1>3. WellFormed(server)
  BY DEF RowInv
<1>4. Has(new, coll, row) /\ \A c \in RowCells(coll, row) : new[c] \notin {Blank, Zero}
  BY <1>2 DEF Has, Sane
<1> QED
  BY <1>3, <1>4, RowChange

LEMMA QueryRows ==
  ASSUME StateOK, RowInv, NEW s \in Slots, HandleQuery(s) PROVE RowInv'
<1>1. flight[s].op # "pick"
  BY DEF HandleQuery, Sent
<1>2. PICK new : new = server
  OBVIOUS
<1>3. WellFormed(new) /\ Carry(s, new)
  BY <1>2 DEF RowInv, HandleQuery
<1> QED
  BY <1>1, <1>3, CarryRows

LEMMA PatchRows ==
  ASSUME StateOK, RowInv, NEW s \in Slots, HandlePatch(s) PROVE RowInv'
<1> DEFINE r == flight[s]
<1>1. Sent(s, {"toast", "refreshFeed"}) /\ r.cells # {}
  BY DEF HandlePatch
<1>2. /\ r.cells \in SUBSET Cells /\ r.vals \in [r.cells -> Values]
      /\ r.op \in {"toast", "refreshFeed"} /\ CallSane(r)
  BY <1>1, SentIs DEF RowInv
<1>3. r.coll \in Colls /\ \A c \in r.cells : Sane(r.vals[c])
  BY <1>1, <1>2 DEF CallSane
<1>4. PICK row \in Rows[r.coll] : r.cells \subseteq RowCells(r.coll, row)
  BY <1>1, <1>2 DEF CallSane
<1>5. RowOf(r) = row
  BY <1>1, <1>3, <1>4, RowOfIs
<1>6. PICK new : new = Written(r.vals)
  OBVIOUS
<1>7. \A c \in Cells : new[c] = IF c \in r.cells THEN r.vals[c] ELSE server[c]
  BY <1>2, <1>6 DEF Written
<1>8. RowCells(r.coll, row) \subseteq Cells
  BY <1>3, CellOf
<1>9. /\ \A c \in Cells \ RowCells(r.coll, row) : new[c] = server[c]
      /\ \A c \in RowCells(r.coll, row) : new[c] = server[c] \/ Sane(new[c])
  BY <1>3, <1>4, <1>7, <1>8
<1>10. CASE Has(server, r.coll, row) /\ Carry(s, new)
  <2>1. WellFormed(new)
    BY <1>3, <1>9, <1>10, WriteWhole
  <2>2. r.op # "pick"
    BY <1>2
  <2> QED
    BY <1>10, <2>1, <2>2, CarryRows
<1>11. CASE Refuse(s)
  BY <1>11, RefuseRows
<1> QED
  BY <1>5, <1>6, <1>10, <1>11 DEF HandlePatch

\* What the request of the editor says of its row.
LEMMA RuleCallIs ==
  ASSUME NEW r, CallSane(r), r.op \in {"updateRule", "createRule"}
  PROVE  /\ r.coll = "rules" /\ r.coll \in Colls
         /\ \A c \in r.cells : r.vals[c] \notin {Gone, Zero}
         /\ \E row \in Rows["rules"] : r.cells = RowCells("rules", row) /\ RowOf(r) = row
<1>1. r.coll = "rules" /\ \A c \in r.cells : r.vals[c] \notin {Gone, Zero}
  BY DEF CallSane
<1>2. PICK row \in Rows["rules"] : r.cells = RowCells("rules", row)
  BY DEF CallSane
<1>3. PICK coll \in Colls : coll = "rules"
  BY CollsAre
<1>4. r.cells = RowCells(coll, row) /\ r.cells # {}
  BY <1>2, <1>3, RowNotEmpty
<1>5. RowOf(r) = row
  BY <1>4, RowOfIs
<1> QED
  BY <1>1, <1>2, <1>3, <1>5

LEMMA UpdateRuleRows ==
  ASSUME StateOK, RowInv, NEW s \in Slots, HandleUpdateRule(s) PROVE RowInv'
<1> DEFINE r == flight[s]
           new == [c \in Cells |-> IF c \in r.cells /\ r.vals[c] # Blank
                                   THEN r.vals[c] ELSE server[c]]
<1>1. Sent(s, {"updateRule"}) /\ CallSane(r)
  BY DEF HandleUpdateRule, RowInv
<1>2. r.op = "updateRule"
  BY <1>1, SentIs
<1>3. PICK coll \in Colls : coll = "rules" /\ r.coll = coll
  BY <1>1, <1>2, RuleCallIs
<1>4. PICK row \in Rows[coll] : r.cells = RowCells(coll, row) /\ RowOf(r) = row
  BY <1>1, <1>2, <1>3, RuleCallIs
<1>5. \A c \in r.cells : r.vals[c] \notin {Gone, Zero}
  BY <1>1, <1>2, RuleCallIs
<1>6. RowCells(coll, row) \subseteq Cells
  BY CellOf
<1>7. /\ \A c \in Cells \ RowCells(coll, row) : new[c] = server[c]
      /\ \A c \in RowCells(coll, row) : new[c] = server[c] \/ Sane(new[c])
  BY <1>4, <1>5, <1>6 DEF Sane
<1>8. \/ Has(server, coll, row) /\ Carry(s, new)
      \/ Refuse(s)
  BY <1>3, <1>4 DEF HandleUpdateRule
<1> HIDE DEF new
<1>9. CASE Has(server, coll, row) /\ Carry(s, new)
  <2>1. WellFormed(new)
    BY <1>7, <1>9, WriteWhole
  <2> QED
    BY <1>2, <1>9, <2>1, CarryRows
<1>10. CASE Refuse(s)
  BY <1>10, RefuseRows
<1> QED
  BY <1>8, <1>9, <1>10

\* A new row, every field of which is sane.
LEMMA NewWhole ==
  ASSUME StateOK, RowInv, NEW coll \in Colls, NEW row \in Rows[coll], NEW new,
         \A c \in Cells \ RowCells(coll, row) : new[c] = server[c],
         \A c \in RowCells(coll, row) : Sane(new[c])
  PROVE  WellFormed(new)
<1>1. Has(new, coll, row) /\ \A c \in RowCells(coll, row) : new[c] \notin {Blank, Zero}
  BY DEF Has, Sane
<1>2. WellFormed(server)
  BY DEF RowInv
<1> QED
  BY <1>1, <1>2, RowChange

LEMMA CreateRuleRows ==
  ASSUME StateOK, RowInv, NEW s \in Slots, HandleCreateRule(s) PROVE RowInv'
<1> DEFINE r == flight[s]
<1>1. Sent(s, {"createRule"}) /\ CallSane(r)
  BY DEF HandleCreateRule, RowInv
<1>2. r.op = "createRule" /\ r.vals \in [r.cells -> Values] /\ r.cells \in SUBSET Cells
  BY <1>1, SentIs
<1>3. PICK coll \in Colls : coll = "rules" /\ r.coll = coll
  BY <1>1, <1>2, RuleCallIs
<1>4. PICK row \in Rows[coll] : r.cells = RowCells(coll, row) /\ RowOf(r) = row
  BY <1>1, <1>2, <1>3, RuleCallIs
<1>5. \A c \in r.cells : r.vals[c] \notin {Gone, Zero}
  BY <1>1, <1>2, RuleCallIs
<1>6. PICK cell, on : cell = <<coll, RowOf(r), "active">> /\ on = "on"
  OBVIOUS
<1> DEFINE new == [Written(r.vals) EXCEPT ![cell] = on]
<1>7. /\ Written(r.vals) = [c \in Cells |-> IF c \in r.cells THEN r.vals[c] ELSE server[c]]
  BY <1>2 DEF Written
<1>8. cell \in r.cells
  <2>1. "active" \in DOMAIN Schema[coll]
    BY <1>3, FieldsAre
  <2> QED
    BY <1>4, <1>6, <2>1, CellOf
<1>9. Sane(on)
  BY <1>6, SaneValues DEF OnOff
<1>10. ASSUME \A c \in r.cells : r.vals[c] # Blank
       PROVE  /\ \A c \in Cells \ RowCells(coll, row) : new[c] = server[c]
              /\ \A c \in RowCells(coll, row) : Sane(new[c])
  <2>1. \A c \in Cells : new[c] = IF c = cell THEN on ELSE IF c \in r.cells THEN r.vals[c] ELSE server[c]
    BY <1>7
  <2>2. \A c \in r.cells : Sane(r.vals[c])
    BY <1>5, <1>10 DEF Sane
  <2> QED
    BY <1>2, <1>4, <1>8, <1>9, <2>1, <2>2
<1>11. \/ (\A c \in r.cells : r.vals[c] # Blank) /\ Carry(s, new)
       \/ Refuse(s)
  BY <1>3, <1>6 DEF HandleCreateRule
<1> HIDE DEF new
<1>12. CASE (\A c \in r.cells : r.vals[c] # Blank) /\ Carry(s, new)
  <2>1. WellFormed(new)
    BY <1>10, <1>12, NewWhole
  <2> QED
    BY <1>2, <1>12, <2>1, CarryRows
<1>13. CASE Refuse(s)
  BY <1>13, RefuseRows
<1> QED
  BY <1>11, <1>12, <1>13

\* A row is deleted as a whole.
LEMMA GoneWhole ==
  ASSUME StateOK, RowInv, NEW coll \in Colls, NEW row \in Rows[coll], NEW new,
         \A c \in Cells \ RowCells(coll, row) : new[c] = server[c],
         \A c \in RowCells(coll, row) : new[c] = Gone
  PROVE  WellFormed(new)
<1>1. \A c \in RowCells(coll, row) : new[c] \notin {Blank, Zero}
  BY DEF Gone, Blank, Zero
<1>2. WellFormed(server)
  BY DEF RowInv
<1> QED
  BY <1>1, <1>2, RowChange

LEMMA DeleteRows ==
  ASSUME StateOK, RowInv, NEW s \in Slots, HandleDelete(s) PROVE RowInv'
<1> DEFINE r == flight[s]
<1>1. Sent(s, {"delete"})
  BY DEF HandleDelete
<1>2. /\ r.cells \in SUBSET Cells /\ r.vals \in [r.cells -> Values]
      /\ r.op = "delete" /\ CallSane(r)
  BY <1>1, SentIs DEF RowInv
<1>3. r.coll \in Colls /\ \A c \in r.cells : r.vals[c] = Gone
  BY <1>2 DEF CallSane
<1>4. PICK row \in Rows[r.coll] : r.cells = RowCells(r.coll, row)
  BY <1>2 DEF CallSane
<1>5. PICK new : new = Written(r.vals)
  OBVIOUS
<1>6. /\ \A c \in Cells \ RowCells(r.coll, row) : new[c] = server[c]
      /\ \A c \in RowCells(r.coll, row) : new[c] = Gone
  BY <1>2, <1>3, <1>4, <1>5 DEF Written
<1>7. WellFormed(new)
  BY <1>3, <1>6, GoneWhole
<1>8. CASE Carry(s, new)
  BY <1>2, <1>7, <1>8, CarryRows
<1>9. CASE Refuse(s)
  BY <1>9, RefuseRows
<1> QED
  BY <1>5, <1>8, <1>9 DEF HandleDelete

LEMMA AddRows ==
  ASSUME StateOK, RowInv, NEW s \in Slots, HandleAdd(s) PROVE RowInv'
<1> DEFINE r == flight[s]
<1>1. Sent(s, {"add", "addForm"})
  BY DEF HandleAdd
<1>2. /\ r.cells \in SUBSET Cells /\ r.vals \in [r.cells -> Values]
      /\ r.op \in {"add", "addForm"} /\ CallSane(r)
      /\ r.coll \in Colls /\ r.cells = CollCells(r.coll)
  BY <1>1, SentIs DEF RowInv, CallOK, Planned
<1>3. \A c \in r.cells : r.vals[c] \notin {Gone, Blank}
  BY <1>2 DEF CallSane
<1>4. CASE Refuse(s)
  BY <1>4, RefuseRows
<1>5. ASSUME NEW row \in NewRows(r.coll), \A c \in r.cells : r.vals[c] # Zero,
             Carry(s, Written([c \in RowCells(r.coll, row) |-> r.vals[c]]))
      PROVE  RowInv'
  <2> DEFINE vals == [c \in RowCells(r.coll, row) |-> r.vals[c]]
  <2>1. row \in Rows[r.coll]
    BY DEF NewRows
  <2>2. RowCells(r.coll, row) \subseteq r.cells
    BY <1>2, <2>1, CellOf
  <2>3. \A c \in RowCells(r.coll, row) : Sane(r.vals[c])
    BY <1>3, <1>5, <2>2 DEF Sane
  <2>4. PICK new : new = Written(vals)
    OBVIOUS
  <2>5. /\ \A c \in Cells \ RowCells(r.coll, row) : new[c] = server[c]
        /\ \A c \in RowCells(r.coll, row) : Sane(new[c])
    BY <1>2, <2>2, <2>3, <2>4 DEF Written
  <2>6. WellFormed(new)
    BY <1>2, <2>1, <2>5, NewWhole
  <2>7. Carry(s, new)
    BY <1>5, <2>4
  <2> QED
    BY <1>2, <2>6, <2>7, CarryRows
<1> QED
  BY <1>4, <1>5 DEF HandleAdd

\* The answers to a page that opens.
LEMMA AnswerRows ==
  ASSUME StateOK, RowInv, NEW s \in Slots, NEW q,
         q.kind = flight[s].kind, q.op = flight[s].op, q.coll = flight[s].coll,
         q.cells = flight[s].cells, q.vals = flight[s].vals,
         q.op = "pick" => Sane(q.site.tuning),
         flight' = [flight EXCEPT ![s] = q], UNCHANGED <<server, shown, ui>>
  PROVE  RowInv'
<1>1. CallSane(flight[s])
  BY DEF RowInv
<1>2. CallSane(q)
  BY <1>1, SameSane
<1> QED
  BY <1>2, SlotSane DEF RowInv, ShownSane

LEMMA PickRows ==
  ASSUME StateOK, RowInv, NEW s \in Slots, HandlePick(s) PROVE RowInv'
<1> DEFINE r == flight[s]
<1>1. Shaped(r)
  BY DEF StateOK, FlightOK, CallOK
<1>2. PICK row \in RowsIn(server, "sites") :
        /\ flight' = [flight EXCEPT ![s].stage = "answered", ![s].done = TRUE,
                                    ![s].site = SiteOf(server, row)]
        /\ UNCHANGED <<server, shown, ui>>
  BY DEF HandlePick
<1>3. PICK coll \in Colls : coll = "sites" /\ DOMAIN Schema[coll] = {"tuning"}
  BY CollsAre, FieldsAre
<1>4. <<coll, row, "tuning">> \in RowCells(coll, row) /\ <<coll, row, "tuning">> \in Cells
  BY <1>3, CellOf DEF RowsIn
<1>5. PICK yes, site : yes = TRUE /\ site = SiteOf(server, row)
  OBVIOUS
<1>6. Sane(site.tuning)
  <2>1. site.tuning = server[<<coll, row, "tuning">>]
    BY <1>3, <1>5 DEF SiteOf
  <2> QED
    BY <1>3, <1>4, <2>1 DEF RowsIn, Has, Sane, RowInv, WellFormed
<1>7. flight' = [flight EXCEPT ![s] = [[[r EXCEPT !.stage = "answered"] EXCEPT !.done = yes] EXCEPT !.site = site]]
  BY <1>2, <1>5 DEF StateOK, FlightOK
<1>8. PICK q : q = Advanced(r, "answered", r.vals, site, r.rows, yes)
  OBVIOUS
<1>9. q = [[[r EXCEPT !.stage = "answered"] EXCEPT !.done = yes] EXCEPT !.site = site]
  BY <1>1, <1>8, SiteBy
<1>10. /\ q.kind = r.kind /\ q.op = r.op /\ q.coll = r.coll /\ q.cells = r.cells
       /\ q.vals = r.vals /\ q.site = site
  BY <1>8 DEF Advanced
<1> QED
  BY <1>2, <1>6, <1>7, <1>9, <1>10, AnswerRows

LEMMA LogsRows ==
  ASSUME StateOK, RowInv, NEW s \in Slots, HandleLogs(s) PROVE RowInv'
<1> DEFINE r == flight[s]
<1>1. Shaped(r) /\ r.op = "logs"
  BY DEF HandleLogs, Sent, StateOK, FlightOK, CallOK
<1>2. PICK yes, rows : yes = TRUE /\ rows = log
  OBVIOUS
<1>3. /\ flight' = [flight EXCEPT ![s].stage = "answered", ![s].done = TRUE, ![s].rows = log]
      /\ UNCHANGED <<server, shown, ui>>
  BY DEF HandleLogs
<1>4. flight' = [flight EXCEPT ![s] = [[[r EXCEPT !.stage = "answered"] EXCEPT !.done = yes] EXCEPT !.rows = rows]]
  BY <1>2, <1>3 DEF StateOK, FlightOK
<1>5. PICK q : q = Advanced(r, "answered", r.vals, r.site, rows, yes)
  OBVIOUS
<1>6. q = [[[r EXCEPT !.stage = "answered"] EXCEPT !.done = yes] EXCEPT !.rows = rows]
  BY <1>1, <1>5, RowsBy
<1>7. /\ q.kind = r.kind /\ q.op = r.op /\ q.coll = r.coll /\ q.cells = r.cells /\ q.vals = r.vals
  BY <1>5 DEF Advanced
<1> QED
  BY <1>1, <1>3, <1>4, <1>6, <1>7, AnswerRows

LEMMA ControlPlaneRows == ASSUME StateOK, RowInv, ControlPlane PROVE RowInv'
<1>1. ASSUME NEW s \in Slots, Lose(s) PROVE RowInv'
  BY <1>1, FailureRows DEF Lose
<1> QED
  BY <1>1, QueryRows, PickRows, LogsRows, PatchRows, UpdateRuleRows, CreateRuleRows, DeleteRows,
     AddRows DEF ControlPlane

-------------------------------------------------------------------------------
(* Answers *)

LEMMA ToldSane ==
  ASSUME NEW u, UiOK(u), UiSane(u), NEW r, CallSane(r), r.stage = "answered"
  PROVE  UiSane(Told(u, r))
<1>1. PICK t : t = Toasted(u, "ok")
  OBVIOUS
<1>2. UiOK(t) /\ UiSane(t)
  BY <1>1, UiChanges, FormChanges
<1>3. UiSane([t EXCEPT !.modal = FALSE]) /\ UiSane([t EXCEPT !.editing = NoRule])
  BY <1>2, FormChanges
<1>4. UiSane([u EXCEPT !.rows = r.rows])
  BY FormChanges
<1>5. r.op = "pick" => UiSane([u EXCEPT !.site = r.site])
  BY FormChanges DEF CallSane
<1>6. CASE r.op \in {"toast", "add"}
  BY <1>1, <1>2, <1>6 DEF Told
<1>7. CASE r.op = "addForm"
  BY <1>1, <1>3, <1>7 DEF Told
<1>8. CASE r.op \in {"createRule", "updateRule"}
  BY <1>1, <1>3, <1>8 DEF Told
<1>9. CASE r.op = "pick"
  BY <1>5, <1>9 DEF Told
<1>10. CASE r.op = "logs"
  BY <1>4, <1>10 DEF Told
<1>11. CASE r.op \notin {"toast", "add", "addForm", "createRule", "updateRule", "pick", "logs"}
  BY <1>11 DEF Told
<1> QED
  BY <1>6, <1>7, <1>8, <1>9, <1>10, <1>11

\* An answer is taken, and its slot is free or asks again.
LEMMA TakenRows ==
  ASSUME StateOK, RowInv, NEW s \in Slots, NEW q, CallSane(q), flight' = [flight EXCEPT ![s] = q],
         UNCHANGED <<server, shown>>, UiSane(ui')
  PROVE  RowInv'
  BY SlotSane DEF RowInv, ShownSane

LEMMA AnswersRows == ASSUME StateOK, RowInv, Answers PROVE RowInv'
<1>1. PICK s \in Slots :
        DeliverRead(s) \/ DeliverMutate(s) \/ DeliverOther(s) \/ DeliverFailure(s) \/ Ignore(s)
  BY DEF Answers
<1> DEFINE r == flight[s]
<1>2. CallOK(r) /\ CallSane(r) /\ UiOK(ui) /\ UiSane(ui)
  BY DEF StateOK, FlightOK, RowInv
<1>3. PICK free : free = Free
  OBVIOUS
<1>4. CallSane(free)
  BY <1>3, FreeSane
<1>5. CASE DeliverRead(s)
  <2>1. /\ flight' = [flight EXCEPT ![s] = free] /\ UNCHANGED <<server, ui>>
        /\ shown' = [c \in Cells |-> IF c \in r.cells THEN r.vals[c] ELSE shown[c]]
        /\ r.kind = "read"
    BY <1>3, <1>5 DEF DeliverRead
  <2>2. \A t \in Slots : CallSane(flight'[t])
    BY <1>4, <2>1, SlotSane
  <2>3. \A c \in r.cells : r.vals[c] \notin {Blank, Zero}
    BY <1>2, <2>1 DEF CallSane
  <2>4. ShownSane'
    BY <2>1, <2>3 DEF RowInv, ShownSane
  <2> QED
    BY <2>1, <2>2, <2>4 DEF RowInv
<1>6. CASE DeliverMutate(s)
  <2>1. PICK again : again = Load("load", r.coll)
    OBVIOUS
  <2>2. /\ flight' = [flight EXCEPT ![s] = again] /\ UNCHANGED <<server, shown>>
        /\ ui' = Told(ui, r) /\ r.kind = "mutate" /\ r.stage = "answered"
    BY <1>6, <2>1 DEF DeliverMutate, Awaited
  <2>3. CallSane(again)
    BY <1>2, <2>1, <2>2, LoadSane DEF CallOK, Planned
  <2>4. UiSane(ui')
    BY <1>2, <2>2, ToldSane
  <2> QED
    BY <2>2, <2>3, <2>4, TakenRows
<1>7. CASE DeliverOther(s)
  <2>1. /\ flight' = [flight EXCEPT ![s] = free] /\ UNCHANGED <<server, shown>>
        /\ ui' = Told(ui, r) /\ r.stage = "answered"
    BY <1>3, <1>7 DEF DeliverOther, Awaited
  <2>2. UiSane(ui')
    BY <1>2, <2>1, ToldSane
  <2> QED
    BY <1>4, <2>1, <2>2, TakenRows
<1>8. CASE DeliverFailure(s) \/ Ignore(s)
  <2>1. /\ flight' = [flight EXCEPT ![s] = free] /\ UNCHANGED <<server, shown>>
        /\ ui' = ui \/ ui' = Warned(ui, r)
    BY <1>3, <1>8 DEF DeliverFailure, Ignore
  <2>2. UiSane(Warned(ui, r))
    BY <1>2, FormChanges DEF Warned
  <2> QED
    BY <1>2, <1>4, <2>1, <2>2, TakenRows
<1> QED
  BY <1>1, <1>5, <1>6, <1>7, <1>8

-------------------------------------------------------------------------------
(* Pages opening *)

LEMMA OrphanSane ==
  ASSUME NEW r, CallOK(r), CallSane(r) PROVE CallSane(Orphan(r))
<1>1. CASE r.kind \in {"edit", "mutate", "blind"} /\ r.stage = "sent" /\ r.cells # {}
  <2>1. PICK no : no = FALSE
    OBVIOUS
  <2>2. PICK q : q = [r EXCEPT !.mine = no]
    OBVIOUS
  <2>3. q = [kind |-> r.kind, cells |-> r.cells, vals |-> r.vals, stage |-> r.stage, mine |-> no,
             op |-> r.op, coll |-> r.coll, site |-> r.site, rows |-> r.rows, done |-> r.done]
    BY <2>2, MineBy DEF CallOK
  <2>4. /\ q.kind = r.kind /\ q.op = r.op /\ q.coll = r.coll /\ q.cells = r.cells
        /\ q.vals = r.vals /\ q.stage = "sent"
    BY <1>1, <2>3
  <2>5. CallSane(q)
    BY <2>4, SameSane
  <2> QED
    BY <1>1, <2>1, <2>2, <2>5 DEF Orphan
<1>2. CASE ~(r.kind \in {"edit", "mutate", "blind"} /\ r.stage = "sent" /\ r.cells # {})
  BY <1>2, FreeSane DEF Orphan
<1> QED
  BY <1>1, <1>2

LEMMA MountedSane ==
  ASSUME NEW p \in Pages, NEW left, \A s \in ClickSlots : CallSane(left[s]), NEW s \in Slots
  PROVE  CallSane(Mounted(p, left)[s])
<1>1. PICK m : m = Mounted(p, left)[s]
  OBVIOUS
<1>2. \/ s \in DOMAIN Loads[p] /\ m = Load("load", Loads[p][s])
      \/ m = Pick \/ m = LogQuery
      \/ s \in ClickSlots /\ m = left[s]
      \/ m = Free
  BY <1>1 DEF Mounted
<1>3. CASE s \in DOMAIN Loads[p] /\ m = Load("load", Loads[p][s])
  <2>1. Loads[p][s] \in Colls
    BY <1>3, LoadsAre
  <2> QED
    BY <1>1, <1>3, <2>1, LoadSane
<1>4. CASE m = Pick \/ m = LogQuery
  BY <1>1, <1>4, BlindSane DEF Pick, LogQuery
<1>5. CASE s \in ClickSlots /\ m = left[s]
  BY <1>1, <1>5
<1>6. CASE m = Free
  BY <1>1, <1>6, FreeSane
<1> QED
  BY <1>2, <1>3, <1>4, <1>5, <1>6

LEMMA FreshUiSane == UiSane(FreshUi)
<1>1. PICK coll \in Colls : coll = "sites" /\ DOMAIN Schema[coll] = {"tuning"}
  BY CollsAre, FieldsAre
<1>2. Rows["sites"] \subseteq Nat /\ Rows["sites"] # {}
  BY ConsoleAssumption, CollsAre
<1>3. (CHOOSE row \in Rows["sites"] : \A r \in Rows["sites"] : row <= r) \in Rows["sites"]
  BY <1>2, LeastExists
<1>4. PICK first \in Rows["sites"] :
        first = CHOOSE row \in Rows["sites"] : \A r \in Rows["sites"] : row <= r
  BY <1>3
<1>5. <<coll, first, "tuning">> \in RowCells(coll, first) /\ <<coll, first, "tuning">> \in Cells
  BY <1>1, CellOf
<1>6. Mocks[<<coll, first, "tuning">>] # Gone
  BY <1>1, <1>5, SeedAssumption DEF Has
<1>7. Mocks[<<coll, first, "tuning">>] \notin {Blank, Zero}
  BY <1>5, SeedAssumption DEF WellFormed
<1>8. FreshUi.site = SiteOf(Mocks, first) /\ FreshUi.editing = NoRule
  BY <1>4 DEF FreshUi
<1>9. FreshUi.site.tuning = Mocks[<<coll, first, "tuning">>]
  BY <1>1, <1>8 DEF SiteOf
<1> QED
  BY <1>6, <1>7, <1>8, <1>9 DEF UiSane, Sane

\* A page that opens shows the mock rows.
LEMMA OpenRows ==
  ASSUME NEW p \in Pages, NEW left, \A s \in ClickSlots : CallSane(left[s]),
         shown = Mocks, ui = FreshUi, flight = Mounted(p, left), WellFormed(server)
  PROVE  RowInv
<1>1. ShownSane
  BY SeedAssumption DEF ShownSane, WellFormed
<1> QED
  BY <1>1, FreshUiSane, MountedSane DEF RowInv

LEMMA VisitRows ==
  ASSUME StateOK, RowInv, NEW p \in Pages, Visit(p) PROVE RowInv'
<1>1. PICK left : left = [s \in ClickSlots |-> Orphan(flight[s])]
  OBVIOUS
<1>2. \A s \in ClickSlots : CallSane(left[s])
  BY <1>1, OrphanSane DEF StateOK, FlightOK, RowInv, Slots
<1>3. /\ shown' = Mocks /\ ui' = FreshUi /\ flight' = Mounted(p, left) /\ server' = server
  BY <1>1 DEF Visit
<1>4. ShownSane'
  BY <1>3, SeedAssumption DEF ShownSane, WellFormed
<1>5. \A s \in Slots : CallSane(flight'[s])
  BY <1>2, <1>3, MountedSane
<1> QED
  BY <1>3, <1>4, <1>5, FreshUiSane DEF RowInv

LEMMA InitRows == Init => RowInv
<1> SUFFICES ASSUME Init PROVE RowInv
  OBVIOUS
<1>1. PICK left : left = [s \in ClickSlots |-> Free]
  OBVIOUS
<1>2. \A s \in ClickSlots : CallSane(left[s])
  BY <1>1, FreeSane
<1>3. /\ server = Seed /\ page \in Pages /\ shown = Mocks /\ flight = Mounted(page, left)
      /\ ui = FreshUi
  BY <1>1 DEF Init
<1>4. WellFormed(server)
  BY <1>3, SeedAssumption
<1> QED
  BY <1>2, <1>3, <1>4, OpenRows

-------------------------------------------------------------------------------
(* The other steps *)

LEMMA ElsewhereRows == ASSUME StateOK, RowInv, Elsewhere PROVE RowInv'
<1>a. PICK coll \in PageColls(page) : \E row \in RowsIn(server, coll) :
        \/ \E c \in RowCells(coll, row) : \E v \in Schema[coll][c[3]] \ {server[c]} :
             server' = [server EXCEPT ![c] = v]
        \/ server' = Written([c \in RowCells(coll, row) |-> Gone])
  BY DEF Elsewhere
<1>1. PICK row \in RowsIn(server, coll) :
        \/ \E c \in RowCells(coll, row) : \E v \in Schema[coll][c[3]] \ {server[c]} :
             server' = [server EXCEPT ![c] = v]
        \/ server' = Written([c \in RowCells(coll, row) |-> Gone])
  BY <1>a
<1>2. page \in Pages /\ server \in [Cells -> Values]
  BY DEF StateOK
<1>3. coll \in Colls
  BY <1>2, LoadsAre DEF PageColls
<1>4. row \in Rows[coll] /\ Has(server, coll, row)
  BY DEF RowsIn
<1>5. RowCells(coll, row) \subseteq Cells
  BY <1>3, <1>4, CellOf
<1>6. PICK new : new = server'
  OBVIOUS
<1>7. ASSUME NEW c \in RowCells(coll, row), NEW v \in Schema[coll][c[3]],
             new = [server EXCEPT ![c] = v]
      PROVE  WellFormed(new)
  <2>1. c[3] \in DOMAIN Schema[coll]
    BY <1>3, CellOf
  <2>2. Sane(v)
    BY <1>3, <2>1, SchemaSane
  <2>3. /\ \A d \in Cells \ RowCells(coll, row) : new[d] = server[d]
        /\ \A d \in RowCells(coll, row) : new[d] = server[d] \/ Sane(new[d])
    BY <1>2, <1>5, <1>7, <2>2
  <2> QED
    BY <1>3, <1>4, <2>3, WriteWhole
<1>8. ASSUME new = Written([c \in RowCells(coll, row) |-> Gone]) PROVE WellFormed(new)
  <2>1. /\ \A c \in Cells \ RowCells(coll, row) : new[c] = server[c]
        /\ \A c \in RowCells(coll, row) : new[c] = Gone
    BY <1>5, <1>8 DEF Written
  <2> QED
    BY <1>3, <1>4, <2>1, GoneWhole
<1>9. WellFormed(new)
  BY <1>1, <1>6, <1>7, <1>8
<1> QED
  BY <1>6, <1>9 DEF Elsewhere, RowInv, ShownSane

LEMMA TimeoutRows == ASSUME StateOK, RowInv, ToastTimeout PROVE RowInv'
<1>1. /\ ui' = [ui EXCEPT !.toast = "none", !.timers = @ - 1]
      /\ UNCHANGED <<server, shown, flight>>
  BY DEF ToastTimeout
<1>2. ui'.site = ui.site /\ ui'.editing = ui.editing
  BY <1>1 DEF StateOK, UiOK
<1>3. UiSane(ui')
  BY <1>2, SameForms DEF RowInv
<1> QED
  BY <1>1, <1>3 DEF RowInv, ShownSane

LEMMA NextRows == Inv /\ RowInv /\ [Next]_vars => RowInv'
<1> SUFFICES ASSUME Inv, RowInv, [Next]_vars PROVE RowInv'
  OBVIOUS
<1>s. StateOK
  BY DEF Inv
<1>1. CASE RulesPage \/ OtherPages
  BY <1>s, <1>1, RulesPageSane, OtherPagesSane, HandlerKeepsRows
<1>2. ASSUME NEW p \in Pages, Visit(p) PROVE RowInv'
  BY <1>s, <1>2, VisitRows
<1>3. ASSUME NEW batch \in Batches, Ingest(batch) PROVE RowInv'
  BY <1>3 DEF Ingest, RowInv, ShownSane
<1>4. CASE ControlPlane
  BY <1>s, <1>4, ControlPlaneRows
<1>5. CASE Answers
  BY <1>s, <1>5, AnswersRows
<1>6. CASE ToastTimeout
  BY <1>s, <1>6, TimeoutRows
<1>7. CASE Elsewhere
  BY <1>s, <1>7, ElsewhereRows
<1>8. CASE UNCHANGED vars
  BY <1>8 DEF vars, RowInv, ShownSane
<1> QED
  BY <1>1, <1>2, <1>3, <1>4, <1>5, <1>6, <1>7, <1>8 DEF Next

\* No sequence of clicks, calls, losses and visits, by whomever, leaves the
\* control plane with half a row, an empty rule or a limit of no requests
\* (router.go's 404 before a patch, its defaults for empty fields, and its 400
\* for a threshold of nothing).
THEOREM RowsStayWhole == Spec => []RowsWellFormed
<1>1. Init => Inv /\ RowInv
  BY InitInv, InitRows
<1>2. Inv /\ RowInv /\ [Next]_vars => (Inv /\ RowInv)'
  BY NextInv, NextRows
<1>3. RowInv => RowsWellFormed
  BY DEF RowInv, RowsWellFormed
<1> QED
  BY <1>1, <1>2, <1>3, PTL DEF Spec
===============================================================================
