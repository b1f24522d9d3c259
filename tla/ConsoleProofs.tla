----------------------------- MODULE ConsoleProofs -----------------------------
(***************************************************************************)
(* Proofs about Console, for any rows, texts, tunings, seeds, mock rows,   *)
(* log entries, places for requests and bounds: the tab implements         *)
(* PageSync, and so shows what the control plane holds once it is at rest; *)
(* the audit log keeps the newest entries; a message has a timer.          *)
(*                                                                         *)
(* Every click handler either changes the page's own state or posts one    *)
(* request (Handler below); the proofs look at the handlers once, and from *)
(* then on at these two cases.                                             *)
(***************************************************************************)
EXTENDS Console, LeastNumber, SequenceTheorems, TLAPS

SyncP == INSTANCE PageSyncProofs

AuditP == INSTANCE AuditLogProofs
            WITH Entries <- LogEntries, Seeded <- LogSeed, Cap <- LogCap

-------------------------------------------------------------------------------
(* Cells *)

LEMMA CollsAre ==
  Colls = {"nodes", "crs", "rules", "sites", "exceptions", "ips", "feeds", "rates", "bots"}
  BY DEF Colls, Schema, PolicySchema, ListSchema, LimitSchema

LEMMA SchemaIs ==
  /\ Schema["nodes"] = [status |-> {"ONLINE", "OFFLINE"}]
  /\ Schema["crs"] = [enabled |-> OnOff]
  /\ Schema["rules"] = [name |-> Texts, seclang |-> Texts, active |-> OnOff]
  /\ Schema["sites"] = [tuning |-> Levels]
  /\ Schema["exceptions"] = [rule |-> {"some"}]
  /\ Schema["ips"] = [list |-> {"allow", "block"}]
  /\ Schema["feeds"] = [status |-> {"PENDING", "SYNCED"}]
  /\ Schema["rates"] = [threshold |-> {"some"}, enabled |-> OnOff,
                        action |-> {"BLOCK", "TARPIT", "CAPTCHA"}]
  /\ Schema["bots"] = [action |-> {"ALLOW", "LOG", "CHALLENGE", "BLOCK"}]
  BY DEF Schema, PolicySchema, ListSchema, LimitSchema

LEMMA FieldsAre ==
  /\ DOMAIN Schema["nodes"] = {"status"} /\ DOMAIN Schema["crs"] = {"enabled"}
  /\ DOMAIN Schema["rules"] = {"name", "seclang", "active"}
  /\ DOMAIN Schema["sites"] = {"tuning"} /\ DOMAIN Schema["exceptions"] = {"rule"}
  /\ DOMAIN Schema["ips"] = {"list"} /\ DOMAIN Schema["feeds"] = {"status"}
  /\ DOMAIN Schema["rates"] = {"threshold", "enabled", "action"}
  /\ DOMAIN Schema["bots"] = {"action"}
  BY SchemaIs

\* What a field can hold is a value; so are the marks.
LEMMA ValuesAre ==
  /\ \A coll \in Colls : \A f \in DOMAIN Schema[coll] : Schema[coll][f] \subseteq Values
  /\ {Gone, Blank, Zero} \subseteq Values
<1>1. ASSUME NEW coll \in Colls, NEW f \in DOMAIN Schema[coll]
      PROVE  Schema[coll][f] \subseteq Values
  <2>1. Schema[coll][f] \subseteq FieldValues(coll)
    BY DEF FieldValues
  <2>2. FieldValues(coll) \subseteq AllFieldValues
    BY DEF AllFieldValues
  <2> QED
    BY <2>1, <2>2 DEF Values
<1> QED
  BY <1>1 DEF Values

LEMMA KnownValues ==
  OnOff \cup Texts \cup Levels \cup {"ONLINE", "allow", "block", "PENDING", "SYNCED", "some",
    "BLOCK", "TARPIT", "CAPTCHA", "ALLOW", "LOG", "CHALLENGE"} \cup {Gone, Blank, Zero} \subseteq Values
<1>1. OnOff \subseteq Values
  BY ValuesAre, CollsAre, SchemaIs, FieldsAre
<1>2. Texts \subseteq Values /\ Levels \subseteq Values
  BY ValuesAre, CollsAre, SchemaIs, FieldsAre
<1>3. {"ONLINE", "allow", "block", "PENDING", "SYNCED", "some"} \subseteq Values
  BY ValuesAre, CollsAre, SchemaIs, FieldsAre
<1>4. {"BLOCK", "TARPIT", "CAPTCHA", "ALLOW", "LOG", "CHALLENGE"} \subseteq Values
  BY ValuesAre, CollsAre, SchemaIs, FieldsAre
<1> QED
  BY <1>1, <1>2, <1>3, <1>4, ValuesAre

\* The cells of a collection and of a row, and their parts.
LEMMA CellOf ==
  ASSUME NEW coll \in Colls
  PROVE  /\ CollCells(coll) \subseteq Cells
         /\ \A row \in Rows[coll] : RowCells(coll, row) \subseteq CollCells(coll)
         /\ \A c \in CollCells(coll) : c[3] \in DOMAIN Schema[coll]
         /\ \A row, f : f \in DOMAIN Schema[coll] => <<coll, row, f>> \in RowCells(coll, row)
         /\ \A row : \A c \in RowCells(coll, row) :
              c[1] = coll /\ c[2] = row /\ c[3] \in DOMAIN Schema[coll] /\ c = <<coll, row, c[3]>>
  BY DEF CollCells, RowCells, Cells

\* The pages and what they load.
LEMMA LoadsAre ==
  ASSUME NEW p \in Pages
  PROVE  /\ DOMAIN Loads[p] \subseteq LoadSlots
         /\ \A i \in DOMAIN Loads[p] : Loads[p][i] \in Colls
         /\ PageCells[p] \in SUBSET Cells
<1>1. /\ DOMAIN Loads[p] \subseteq LoadSlots
      /\ \A i \in DOMAIN Loads[p] : Loads[p][i] \in Colls
  BY CollsAre DEF Pages, Loads, LoadSlots
<1>2. PageCells[p] \in SUBSET Cells
  BY <1>1, CellOf DEF PageCells, PageColls
<1> QED
  BY <1>1, <1>2

-------------------------------------------------------------------------------
(* Requests *)

Stages == {"sent", "answered", "failed"}
SiteCopies == [row: Rows["sites"], tuning: Values]
EditOps == {"updateRule", "createRule", "delete", "add", "addForm"}

\* A request has these fields.
Shaped(r) ==
  r = [kind |-> r.kind, cells |-> r.cells, vals |-> r.vals, stage |-> r.stage, mine |-> r.mine,
       op |-> r.op, coll |-> r.coll, site |-> r.site, rows |-> r.rows, done |-> r.done]

\* What the operation of a request says about the rest of it.
Planned(kind, op, coll, cells) ==
  /\ kind \in {"free", "read", "edit", "mutate", "blind"}
  /\ cells \subseteq Cells
  /\ kind = "free" => cells = {}
  /\ op \in {"pick", "logs"} => kind = "blind"
  /\ op \in EditOps => kind \in {"mutate", "blind"}
  /\ kind = "mutate" => coll \in Colls /\ cells \subseteq CollCells(coll)
  /\ op \in {"add", "addForm"} => coll \in Colls /\ cells = CollCells(coll)
  /\ op = "createRule" =>
       \E row \in Rows["rules"] :
         cells = {<<"rules", row, f>> : f \in {"name", "seclang", "active"}}

\* What has come back with a request.
Brought(r) ==
  /\ r.rows \in Seq(LogEntries)
  /\ r.op = "pick" /\ r.stage = "answered" => r.site \in SiteCopies

CallOK(r) ==
  /\ Shaped(r)
  /\ Planned(r.kind, r.op, r.coll, r.cells)
  /\ r.vals \in [r.cells -> Values]
  /\ r.stage \in Stages
  /\ r.mine \in BOOLEAN
  /\ Brought(r)

\* A request on its way out.
Outgoing(r) == CallOK(r) /\ r.kind # "free" /\ r.stage = "sent" /\ r.mine

LEMMA CallIsRequest ==
  ASSUME NEW r, CallOK(r) PROVE Sync!IsRequest(r)
  BY DEF CallOK, Planned, Stages, Sync!IsRequest, Sync!Kinds

LEMMA RequestOK ==
  ASSUME NEW kind, NEW op, NEW coll, NEW cells, NEW vals \in [cells -> Values],
         Planned(kind, op, coll, cells)
  PROVE  /\ CallOK(Request(kind, op, coll, cells, vals))
         /\ kind # "free" => Outgoing(Request(kind, op, coll, cells, vals))
  BY DEF CallOK, Shaped, Brought, Stages, Request, Outgoing

LEMMA NothingIs == Nothing \in [{} -> Values]
  BY DEF Nothing

LEMMA FreeOK == CallOK(Free) /\ Free.kind = "free" /\ Free.cells = {} /\ Free.mine
<1>1. Planned("free", "none", "none", {})
  BY DEF Planned, EditOps
<1>2. CallOK(Free)
  BY <1>1, NothingIs, RequestOK DEF Free
<1> QED
  BY <1>2 DEF Free, Request

\* A request without cells that changes nothing the page shows.
LEMMA BlindOK ==
  ASSUME NEW op \in {"pick", "logs", "sandbox", "toast"}, NEW coll
  PROVE  Outgoing(Request("blind", op, coll, {}, Nothing))
<1>1. Planned("blind", op, coll, {})
  BY DEF Planned, EditOps
<1> QED
  BY <1>1, NothingIs, RequestOK

LEMMA LoadOK ==
  ASSUME NEW coll \in Colls
  PROVE  /\ Outgoing(Load("load", coll))
         /\ Load("load", coll).kind = "read" /\ Load("load", coll).cells = CollCells(coll)
<1>1. Planned("read", "load", coll, CollCells(coll))
  BY CellOf DEF Planned, EditOps
<1>2. [c \in CollCells(coll) |-> Gone] \in [CollCells(coll) -> Values]
  BY ValuesAre
<1>3. Outgoing(Load("load", coll))
  BY <1>1, <1>2, RequestOK DEF Load
<1> QED
  BY <1>3 DEF Load, Request

LEMMA RowRequestOK ==
  ASSUME NEW kind \in {"edit", "mutate", "blind"}, NEW op, NEW coll \in Colls,
         NEW row \in Rows[coll], NEW F \in SUBSET DOMAIN Schema[coll], NEW fields \in [F -> Values],
         op \notin {"pick", "logs", "add", "addForm"},
         op \in EditOps => kind \in {"mutate", "blind"},
         op = "createRule" => coll = "rules" /\ F = {"name", "seclang", "active"}
  PROVE  Outgoing(RowRequest(kind, op, coll, row, fields))
<1> DEFINE cells == {<<coll, row, f>> : f \in F}
           vals == [c \in cells |-> fields[c[3]]]
<1>1. cells \subseteq CollCells(coll) /\ cells \subseteq Cells
  BY CellOf
<1>2. Planned(kind, op, coll, cells)
  BY <1>1 DEF Planned
<1>3. vals \in [cells -> Values]
  OBVIOUS
<1>4. RowRequest(kind, op, coll, row, fields) = Request(kind, op, coll, cells, vals)
  BY DEF RowRequest
<1> HIDE DEF cells, vals
<1>5. Outgoing(Request(kind, op, coll, cells, vals))
  BY <1>2, <1>3, RequestOK
<1> QED
  BY <1>4, <1>5

LEMMA AddRequestOK ==
  ASSUME NEW kind \in {"mutate", "blind"}, NEW op \in {"add", "addForm"}, NEW coll \in Colls,
         NEW fields \in [DOMAIN Schema[coll] -> Values]
  PROVE  Outgoing(AddRequest(kind, op, coll, fields))
<1>1. Planned(kind, op, coll, CollCells(coll))
  BY CellOf DEF Planned
<1>2. [c \in CollCells(coll) |-> fields[c[3]]] \in [CollCells(coll) -> Values]
  BY CellOf
<1> QED
  BY <1>1, <1>2, RequestOK DEF AddRequest

LEMMA DeleteRequestOK ==
  ASSUME NEW coll \in Colls, NEW row \in Rows[coll]
  PROVE  Outgoing(Request("mutate", "delete", coll, RowCells(coll, row),
                          [c \in RowCells(coll, row) |-> Gone]))
<1>1. Planned("mutate", "delete", coll, RowCells(coll, row))
  BY CellOf DEF Planned, EditOps
<1>2. [c \in RowCells(coll, row) |-> Gone] \in [RowCells(coll, row) -> Values]
  BY ValuesAre
<1> QED
  BY <1>1, <1>2, RequestOK

-------------------------------------------------------------------------------
(* The page's own state *)

EditingOK(e) ==
  \/ e = NoRule
  \/ /\ e = [id |-> e.id, rule |-> e.rule, name |-> e.name, seclang |-> e.seclang,
             active |-> e.active]
     /\ e.rule \in Rows["rules"]
     /\ {e.name, e.seclang, e.active} \subseteq Values

UiOK(u) ==
  /\ u = [site |-> u.site, editing |-> u.editing, modal |-> u.modal, toast |-> u.toast,
          timers |-> u.timers, rows |-> u.rows, filters |-> u.filters, selected |-> u.selected]
  /\ u.site \in SiteCopies
  /\ EditingOK(u.editing)
  /\ u.rows \in Seq(LogEntries)
  /\ u.selected \in LogEntries \cup {NoEntry}
  /\ u.filters \in Filters
  /\ u.toast \in {"none", "ok", "failed"}
  /\ u.timers \in Nat
  /\ u.toast # "none" => u.timers > 0

FlightOK ==
  /\ flight = [s \in Slots |-> flight[s]]
  /\ \A s \in Slots : CallOK(flight[s])

StateOK ==
  /\ server \in [Cells -> Values] /\ shown \in [Cells -> Values]
  /\ page \in Pages
  /\ FlightOK
  /\ stale \subseteq Cells
  /\ orderly \in BOOLEAN
  /\ UiOK(ui)

\* What a click handler does: it changes the page's own state, or posts one
\* request.
Handler ==
  \/ \E u : UiOK(u) /\ Local(u)
  \/ \E r : Outgoing(r) /\ Post(r)

LEMMA LocalIs == ASSUME NEW u, UiOK(u), Local(u) PROVE Handler
  BY DEF Handler

LEMMA PostIs == ASSUME NEW r, Outgoing(r), Post(r) PROVE Handler
  BY DEF Handler

LEMMA RowIn ==
  ASSUME NEW coll \in Colls, NEW row \in Rows[coll], NEW f \in DOMAIN Schema[coll],
         NEW g \in [Cells -> Values]
  PROVE  <<coll, row, f>> \in Cells /\ g[<<coll, row, f>>] \in Values
<1>1. <<coll, row, f>> \in Cells
  BY CellOf
<1> QED
  BY <1>1

LEMMA SiteOfOK ==
  ASSUME NEW g \in [Cells -> Values], NEW row \in Rows["sites"]
  PROVE  SiteOf(g, row) \in SiteCopies
  BY RowIn, CollsAre, FieldsAre DEF SiteOf, SiteCopies

LEMMA UiRecordOK ==
  ASSUME NEW site \in SiteCopies, NEW rows \in Seq(LogEntries), NEW filters \in Filters
  PROVE  UiOK([site |-> site, editing |-> NoRule, modal |-> FALSE, toast |-> "none",
               timers |-> 0, rows |-> rows, filters |-> filters, selected |-> NoEntry])
  BY DEF UiOK, EditingOK

LEMMA NoFilterIs == Audit!NoFilter \in Filters
  BY DEF Audit!NoFilter, Filters, FilterValues

LEMMA FreshUiOK == UiOK(FreshUi)
<1>1. Rows["sites"] \subseteq Nat /\ Rows["sites"] # {}
  BY ConsoleAssumption, CollsAre
<1>2. (CHOOSE row \in Rows["sites"] : \A r \in Rows["sites"] : row <= r) \in Rows["sites"]
  BY <1>1, LeastExists
<1>3. PICK first \in Rows["sites"] :
        first = CHOOSE row \in Rows["sites"] : \A r \in Rows["sites"] : row <= r
  BY <1>2
<1>5. Mocks \in [Cells -> Values]
  BY ConsoleAssumption
<1>6. SiteOf(Mocks, first) \in SiteCopies
  BY <1>5, SiteOfOK
<1>7. FreshUi = [site |-> SiteOf(Mocks, first), editing |-> NoRule, modal |-> FALSE,
                 toast |-> "none", timers |-> 0, rows |-> MockLogs, filters |-> Audit!NoFilter,
                 selected |-> NoEntry]
  BY <1>3 DEF FreshUi
<1>4. MockLogs \in Seq(LogEntries)
  BY ConsoleAssumption
<1> QED
  BY <1>4, <1>6, <1>7, NoFilterIs, UiRecordOK

\* Each change a handler or callback makes to the page's state.
LEMMA UiChanges ==
  ASSUME NEW u, UiOK(u)
  PROVE  /\ \A v \in SiteCopies : UiOK([u EXCEPT !.site = v])
         /\ \A v : EditingOK(v) => UiOK([u EXCEPT !.editing = v])
         /\ \A v : UiOK([u EXCEPT !.modal = v])
         /\ \A v \in Seq(LogEntries) : UiOK([u EXCEPT !.rows = v])
         /\ \A v \in LogEntries \cup {NoEntry} : UiOK([u EXCEPT !.selected = v])
         /\ \A v \in Filters : UiOK([u EXCEPT !.filters = v])
         /\ \A v \in {"ok", "failed"} : UiOK(Toasted(u, v))
<1>1. \A v \in SiteCopies : UiOK([u EXCEPT !.site = v])
  BY DEF UiOK
<1>2. \A v : EditingOK(v) => UiOK([u EXCEPT !.editing = v])
  BY DEF UiOK
<1>3. \A v : UiOK([u EXCEPT !.modal = v])
  BY DEF UiOK
<1>4. \A v \in Seq(LogEntries) : UiOK([u EXCEPT !.rows = v])
  BY DEF UiOK
<1>5. \A v \in LogEntries \cup {NoEntry} : UiOK([u EXCEPT !.selected = v])
  BY DEF UiOK
<1>6. \A v \in Filters : UiOK([u EXCEPT !.filters = v])
  BY DEF UiOK
<1>7. ASSUME NEW v \in {"ok", "failed"} PROVE UiOK(Toasted(u, v))
  <2>1. PICK n : n = u.timers + 1
    OBVIOUS
  <2>2. n \in Nat /\ n > 0
    BY <2>1 DEF UiOK
  <2>3. Toasted(u, v) = [u EXCEPT !.toast = v, !.timers = n]
    BY <2>1 DEF UiOK, Toasted
  <2>4. Toasted(u, v) =
          [site |-> u.site, editing |-> u.editing, modal |-> u.modal, toast |-> v,
           timers |-> n, rows |-> u.rows, filters |-> u.filters, selected |-> u.selected]
    BY <2>3 DEF UiOK
  <2> QED
    BY <2>2, <2>4 DEF UiOK
<1> QED
  BY <1>1, <1>2, <1>3, <1>4, <1>5, <1>6, <1>7

-------------------------------------------------------------------------------
(* The click handlers *)

\* Every cell of a row the page shows is shown with a value.
LEMMA ShownRow ==
  ASSUME StateOK, NEW coll \in Colls, NEW row \in Rows[coll]
  PROVE  \A f \in DOMAIN Schema[coll] : shown[<<coll, row, f>>] \in Values
  BY RowIn DEF StateOK

LEMMA RulesPageHandlers == ASSUME StateOK, RulesPage PROVE Handler
<1>u. UiOK(ui) /\ EditingOK(ui.editing) /\ ui.site \in SiteCopies
  BY DEF StateOK, UiOK
<1>1. ASSUME NEW row \in Rows["crs"], ToggleCategory(row) PROVE Handler
  <2>1. PICK v \in OnOff : Post(RowRequest("edit", "toast", "crs", row, [enabled |-> v]))
    BY <1>1 DEF ToggleCategory
  <2>2. [enabled |-> v] \in [{"enabled"} -> Values]
    BY KnownValues
  <2>3. Outgoing(RowRequest("edit", "toast", "crs", row, [enabled |-> v]))
    BY <2>2, CollsAre, FieldsAre, RowRequestOK DEF EditOps
  <2> QED
    BY <2>1, <2>3, PostIs
<1>2. ASSUME NEW row \in Rows["sites"], SelectSite(row) PROVE Handler
  <2>1. SiteOf(shown, row) \in SiteCopies
    BY SiteOfOK DEF StateOK
  <2> QED
    BY <1>2, <1>u, <2>1, UiChanges, LocalIs DEF SelectSite
<1>3. ASSUME NEW v \in Levels, MoveSlider(v) PROVE Handler
  <2>1. [ui.site EXCEPT !.tuning = v] \in SiteCopies
    BY <1>u, KnownValues DEF SiteCopies
  <2>2. [ui EXCEPT !.site.tuning = v] = [ui EXCEPT !.site = [ui.site EXCEPT !.tuning = v]]
    BY <1>u DEF UiOK
  <2> QED
    BY <1>3, <1>u, <2>1, <2>2, UiChanges, LocalIs DEF MoveSlider
<1>4. CASE SavePolicy
  <2>1. ui.site.row \in Rows["sites"] /\ ui.site.tuning \in Values
    BY <1>u DEF SiteCopies
  <2>2. [tuning |-> ui.site.tuning] \in [{"tuning"} -> Values]
    BY <2>1
  <2>3. Outgoing(RowRequest("blind", "toast", "sites", ui.site.row, [tuning |-> ui.site.tuning]))
    BY <2>1, <2>2, CollsAre, FieldsAre, RowRequestOK DEF EditOps
  <2> QED
    BY <1>4, <2>3, PostIs DEF SavePolicy
<1>5. ASSUME NEW row \in Rows["rules"], ToggleRule(row) PROVE Handler
  <2>1. PICK v \in OnOff : Post(RowRequest("edit", "toast", "rules", row, [active |-> v]))
    BY <1>5 DEF ToggleRule
  <2>2. [active |-> v] \in [{"active"} -> Values]
    BY KnownValues
  <2>3. Outgoing(RowRequest("edit", "toast", "rules", row, [active |-> v]))
    BY <2>2, CollsAre, FieldsAre, RowRequestOK DEF EditOps
  <2> QED
    BY <2>1, <2>3, PostIs
<1>6. ASSUME NEW e, EditingOK(e), Local([ui EXCEPT !.editing = e]) PROVE Handler
  BY <1>6, <1>u, UiChanges, LocalIs
<1>7. ASSUME NEW row \in Rows["rules"], EditRule(row) PROVE Handler
  <2> DEFINE e == [id |-> row, rule |-> row, name |-> shown[<<"rules", row, "name">>],
                   seclang |-> shown[<<"rules", row, "seclang">>],
                   active |-> shown[<<"rules", row, "active">>]]
  <2>1. EditingOK(e)
    BY ShownRow, CollsAre, FieldsAre DEF EditingOK
  <2>2. Local([ui EXCEPT !.editing = e])
    BY <1>7 DEF EditRule, OpenEditor
  <2> QED
    BY <2>1, <2>2, <1>6
<1>8. CASE NewRule
  <2> DEFINE e == [id |-> 0, rule |-> 900003, name |-> EmptyRule, seclang |-> EmptyRule,
                   active |-> "on"]
  <2>1. EmptyRule \in Texts
    BY ConsoleAssumption DEF EmptyRule
  <2>2. EditingOK(e)
    BY <2>1, KnownValues, ConsoleAssumption DEF EditingOK, OnOff
  <2>3. Local([ui EXCEPT !.editing = e])
    BY <1>8 DEF NewRule, OpenEditor
  <2> QED
    BY <2>2, <2>3, <1>6
<1>9. CASE CloseEditor
  <2>1. EditingOK(NoRule)
    BY DEF EditingOK
  <2> QED
    BY <1>9, <2>1, <1>6 DEF CloseEditor
<1>10. ASSUME NEW field, NEW v, TypeRule(field, v),
              \/ field \in {"name", "seclang"} /\ v \in Values
              \/ field = "rule" /\ v \in Rows["rules"]
       PROVE  Handler
  <2>1. EditingOK([ui.editing EXCEPT ![field] = v])
    BY <1>10, <1>u DEF TypeRule, NoEditor, EditingOK
  <2>2. [ui EXCEPT !.editing[field] = v] = [ui EXCEPT !.editing = [ui.editing EXCEPT ![field] = v]]
    BY <1>u DEF UiOK
  <2> QED
    BY <1>10, <2>1, <2>2, <1>6 DEF TypeRule
<1>11. CASE RunSandbox
  BY <1>11, BlindOK, PostIs DEF RunSandbox
<1>12. ASSUME NEW t \in Values, SaveRule(t) PROVE Handler
  <2> DEFINE e == ui.editing
             fields == [name |-> e.name, seclang |-> t, active |-> e.active]
  <2>1. e.rule \in Rows["rules"] /\ {e.name, e.active} \subseteq Values
    BY <1>12, <1>u DEF SaveRule, NoEditor, EditingOK
  <2>2. fields \in [{"name", "seclang", "active"} -> Values]
    BY <2>1
  <2>3. Outgoing(RowRequest("mutate", "createRule", "rules", e.rule, fields))
    BY <2>1, <2>2, CollsAre, FieldsAre, RowRequestOK DEF EditOps
  <2>4. e.id \in Rows["rules"] => Outgoing(RowRequest("mutate", "updateRule", "rules", e.id, fields))
    BY <2>2, CollsAre, FieldsAre, RowRequestOK DEF EditOps
  <2>5. \/ Post(RowRequest("mutate", "createRule", "rules", e.rule, fields))
        \/ e.id \in Rows["rules"] /\ Post(RowRequest("mutate", "updateRule", "rules", e.id, fields))
    BY <1>12 DEF SaveRule, RowsIn
  <2> HIDE DEF e, fields
  <2> QED
    BY <2>3, <2>4, <2>5, PostIs
<1>13. CASE SaveCode
  <2>1. ui.editing.seclang \in Values
    BY <1>13, <1>u DEF SaveCode, NoEditor, EditingOK
  <2> QED
    BY <1>13, <2>1, <1>12 DEF SaveCode
<1>14. CASE SaveVisual
  BY <1>14, <1>12, KnownValues DEF SaveVisual
<1>15. ASSUME NEW row \in Rows["rules"], DeleteRule(row) PROVE Handler
  BY <1>15, DeleteRequestOK, CollsAre, PostIs DEF DeleteRule, DeleteRow
<1>16. Texts \cup {Blank} \subseteq Values
  BY KnownValues
<1> QED
  BY <1>1, <1>2, <1>3, <1>4, <1>5, <1>7, <1>8, <1>9, <1>10, <1>11, <1>13, <1>14, <1>15, <1>16
     DEF RulesPage

\* Rows the forms of the other pages send.
LEMMA RateFields ==
  ASSUME NEW threshold \in {Zero, "some"}, NEW action \in Schema["rates"]["action"]
  PROVE  [threshold |-> threshold, enabled |-> "on", action |-> action]
           \in [DOMAIN Schema["rates"] -> Values]
<1>1. action \in Values
  BY ValuesAre, CollsAre, FieldsAre
<1>2. "on" \in Values /\ threshold \in Values
  BY KnownValues DEF OnOff
<1> QED
  BY <1>1, <1>2, FieldsAre

LEMMA OtherPagesHandlers == ASSUME StateOK, OtherPages PROVE Handler
<1>u. UiOK(ui) /\ ui.filters \in Filters
  BY DEF StateOK, UiOK
<1>1. ASSUME NEW row \in Rows["rates"], NEW field \in {"action", "enabled"}, NEW v \in Values,
             SetRate(row, field, v)
      PROVE  Handler
  <2>1. [f \in {field} |-> v] \in [{field} -> Values] /\ {field} \subseteq DOMAIN Schema["rates"]
    BY FieldsAre
  <2>2. Outgoing(RowRequest("edit", "toast", "rates", row, [f \in {field} |-> v]))
    BY <2>1, CollsAre, RowRequestOK DEF EditOps
  <2> QED
    BY <1>1, <2>2, PostIs DEF SetRate
<1>2. ASSUME NEW row \in Rows["rates"], NEW v \in Schema["rates"]["action"], SetRateAction(row, v)
      PROVE  Handler
  <2>1. v \in Values
    BY ValuesAre, CollsAre, FieldsAre
  <2> QED
    BY <1>1, <1>2, <2>1 DEF SetRateAction
<1>3. ASSUME NEW row \in Rows["rates"], NEW v \in OnOff, ToggleRate(row, v) PROVE Handler
  BY <1>1, <1>3, KnownValues DEF ToggleRate
<1>4. ASSUME NEW threshold \in {Zero, "some"}, QuickAdd(threshold) PROVE Handler
  <2>1. "BLOCK" \in Schema["rates"]["action"]
    BY SchemaIs
  <2>2. Outgoing(AddRequest("mutate", "add", "rates",
                   [threshold |-> threshold, enabled |-> "on", action |-> "BLOCK"]))
    BY <2>1, RateFields, CollsAre, AddRequestOK
  <2> QED
    BY <1>4, <2>2, PostIs DEF QuickAdd
<1>5. ASSUME NEW action \in Schema["rates"]["action"], AddRate(action) PROVE Handler
  <2>1. Outgoing(AddRequest("mutate", "addForm", "rates",
                   [threshold |-> "some", enabled |-> "on", action |-> action]))
    BY RateFields, CollsAre, AddRequestOK
  <2> QED
    BY <1>5, <2>1, PostIs DEF AddRate
<1>6. ASSUME NEW row \in Rows["bots"], NEW v \in Schema["bots"]["action"], SetBotAction(row, v)
      PROVE  Handler
  <2>1. v \in Values
    BY ValuesAre, CollsAre, FieldsAre
  <2>2. [action |-> v] \in [{"action"} -> Values]
    BY <2>1
  <2>3. Outgoing(RowRequest("edit", "toast", "bots", row, [action |-> v]))
    BY <2>2, CollsAre, FieldsAre, RowRequestOK DEF EditOps
  <2> QED
    BY <1>6, <2>3, PostIs DEF SetBotAction
<1>7. CASE OpenForm \/ CloseForm
  <2>1. PICK v \in BOOLEAN : Local([ui EXCEPT !.modal = v])
    BY <1>7 DEF OpenForm, CloseForm
  <2> QED
    BY <2>1, <1>u, UiChanges, LocalIs
<1>8. ASSUME NEW kind \in {"mutate", "blind"}, NEW op \in {"add", "addForm"},
             NEW coll \in {"exceptions", "ips", "nodes", "feeds"},
             NEW fields \in [DOMAIN Schema[coll] -> Values],
             Post(AddRequest(kind, op, coll, fields))
      PROVE  Handler
  BY <1>8, CollsAre, AddRequestOK, PostIs
<1>9. /\ \A rule \in {Zero, "some"} : [rule |-> rule] \in [DOMAIN Schema["exceptions"] -> Values]
      /\ [status |-> "ONLINE"] \in [DOMAIN Schema["nodes"] -> Values]
      /\ [status |-> "PENDING"] \in [DOMAIN Schema["feeds"] -> Values]
      /\ \A list \in {"allow", "block"} : [list |-> list] \in [DOMAIN Schema["ips"] -> Values]
  BY FieldsAre, KnownValues
<1>10. ASSUME NEW rule \in {Zero, "some"}, CreateException(rule) PROVE Handler
  BY <1>8, <1>9, <1>10 DEF CreateException
<1>24. CASE ExceptionOfLog
  <2>1. PICK rule \in {Zero, "some"} : OfLogEntry("exceptions", [rule |-> rule])
    BY <1>24 DEF ExceptionOfLog
  <2> QED
    BY <1>8, <1>9, <2>1 DEF OfLogEntry
<1>11. CASE RegisterNode
  BY <1>8, <1>9, <1>11 DEF RegisterNode
<1>12. CASE RefreshNodes
  BY <1>12, LoadOK, CollsAre, PostIs DEF RefreshNodes
<1>13. ASSUME NEW row \in Rows["exceptions"], Revoke(row) PROVE Handler
  BY <1>13, DeleteRequestOK, CollsAre, PostIs DEF Revoke, DeleteRow
<1>14. ASSUME NEW row \in Rows["ips"], DeleteIp(row) PROVE Handler
  BY <1>14, DeleteRequestOK, CollsAre, PostIs DEF DeleteIp, DeleteRow
<1>15. ASSUME NEW list \in {"allow", "block"}, AddIp(list) PROVE Handler
  BY <1>8, <1>9, <1>15 DEF AddIp
<1>16. CASE BlockClient
  BY <1>8, <1>9, <1>16 DEF BlockClient, OfLogEntry
<1>17. CASE ImportFeed
  BY <1>8, <1>9, <1>17 DEF ImportFeed
<1>18. ASSUME NEW row \in Rows["feeds"], RefreshFeed(row) PROVE Handler
  <2>1. [status |-> "SYNCED"] \in [{"status"} -> Values]
    BY KnownValues
  <2>2. Outgoing(RowRequest("mutate", "refreshFeed", "feeds", row, [status |-> "SYNCED"]))
    BY <2>1, CollsAre, FieldsAre, RowRequestOK DEF EditOps
  <2> QED
    BY <1>18, <2>2, PostIs DEF RefreshFeed
<1>19. CASE ExportPolicy
  BY <1>19, BlindOK, PostIs DEF ExportPolicy
<1>20. ASSUME NEW entry \in LogEntries \cup {NoEntry}, Local([ui EXCEPT !.selected = entry])
       PROVE  Handler
  BY <1>20, <1>u, UiChanges, LocalIs
<1>21. ASSUME NEW entry \in LogEntries, SelectLog(entry) PROVE Handler
  BY <1>20, <1>21 DEF SelectLog
<1>22. CASE CloseDrawer
  BY <1>20, <1>22 DEF CloseDrawer
<1>23. ASSUME NEW field \in DOMAIN FilterValues, NEW v \in FilterValues[field], SetFilter(field, v)
       PROVE  Handler
  <2>1. [ui.filters EXCEPT ![field] = v] \in Filters
    BY <1>u DEF Filters, FilterValues
  <2>2. [ui EXCEPT !.filters[field] = v] = [ui EXCEPT !.filters = [ui.filters EXCEPT ![field] = v]]
    BY <1>u DEF UiOK
  <2> QED
    BY <1>23, <1>u, <2>1, <2>2, UiChanges, LocalIs DEF SetFilter
<1> QED
  BY <1>2, <1>3, <1>4, <1>5, <1>6, <1>7, <1>10, <1>11, <1>12, <1>13, <1>14, <1>15, <1>16, <1>17,
     <1>18, <1>19, <1>21, <1>22, <1>23, <1>24
     DEF OtherPages

-------------------------------------------------------------------------------
(* Handlers implement the requests of PageSync *)

\* Requests are sent in a slot for clicks that is free.
LEMMA FirstFreeIs ==
  ASSUME FreeSlots # {}
  PROVE  FirstFree \in ClickSlots /\ FirstFree \in Slots /\ ~Busy(FirstFree)
<1>1. ClickSlots \subseteq Nat
  BY ConsoleAssumption
<1>2. FreeSlots \subseteq Nat
  BY <1>1 DEF FreeSlots
<1>3. (CHOOSE s \in FreeSlots : \A t \in FreeSlots : s <= t) \in FreeSlots
  BY <1>2, LeastChosen
<1>4. FirstFree \in FreeSlots
  BY <1>3 DEF FirstFree
<1> QED
  BY <1>4 DEF FreeSlots, Slots

\* The page's notion of conflict is PageSync's: a free slot is about no cell.
LEMMA SameClear ==
  ASSUME StateOK, NEW r, Planned(r.kind, r.op, r.coll, r.cells), r.kind # "free", NEW s \in Slots
  PROVE  Clear(r, s) <=> Sync!Clear(r, s)
<1>1. \A t \in Slots : flight[t].kind = "free" => flight[t].cells = {}
  BY DEF StateOK, FlightOK, CallOK, Planned
<1>2. \A t \in Slots : Conflict(r, flight[t]) <=> Sync!Conflict(r, flight[t])
  BY <1>1 DEF Conflict, Sync!Conflict, Sync!Writes, Planned
<1> QED
  BY <1>2 DEF Clear, Sync!Clear

\* Replacing the request in one slot.
LEMMA SlotUpdate ==
  ASSUME FlightOK, NEW s \in Slots, NEW r, CallOK(r), flight' = [flight EXCEPT ![s] = r]
  PROVE  /\ FlightOK'
         /\ flight'[s] = r
         /\ flight' = [flight EXCEPT ![s] = flight'[s]]
<1>1. flight'[s] = r /\ \A t \in Slots \ {s} : flight'[t] = flight[t]
  BY DEF FlightOK
<1>2. flight' = [t \in Slots |-> flight'[t]]
  BY DEF FlightOK
<1>3. \A t \in Slots : CallOK(flight'[t])
  BY <1>1 DEF FlightOK
<1> QED
  BY <1>1, <1>2, <1>3 DEF FlightOK

LEMMA PostImplements ==
  ASSUME StateOK, NEW r, Outgoing(r), Post(r)
  PROVE  StateOK' /\ \E s \in Slots : Sync!Send(s)
<1> DEFINE s == FirstFree
<1>1. s \in Slots /\ flight[s].kind = "free"
  BY FirstFreeIs DEF Post, Busy
<1>2. flight' = [flight EXCEPT ![s] = r] /\ UNCHANGED <<server, page, stale, ui>>
  BY DEF Post
<1> HIDE DEF s
<1>3. FlightOK' /\ flight'[s] = r /\ flight' = [flight EXCEPT ![s] = flight'[s]]
  BY <1>1, <1>2, SlotUpdate DEF StateOK, Outgoing
<1>4. Sync!IsRequest(r)
  BY CallIsRequest DEF Outgoing
<1>5. DOMAIN r.vals = r.cells /\ r.cells \subseteq Cells /\ r.vals \in [r.cells -> Values]
  BY DEF Outgoing, CallOK, Planned
<1>6. shown' = IF r.kind = "edit" THEN Sync!Update(shown, r.vals) ELSE shown
  BY <1>5 DEF Post, Sync!Update
<1>7. shown' \in [Cells -> Values]
  BY <1>5 DEF Post, StateOK
<1>8. orderly' = (orderly /\ Sync!Clear(r, s))
  <2>1. orderly' = (orderly /\ Clear(r, s))
    BY DEF Post, s
  <2>2. Clear(r, s) <=> Sync!Clear(r, s)
    BY <1>1, SameClear DEF Outgoing, CallOK
  <2>3. Clear(r, s) \in BOOLEAN /\ Sync!Clear(r, s) \in BOOLEAN
    BY DEF Clear, Sync!Clear
  <2> QED
    BY <2>1, <2>2, <2>3
<1>9. orderly' \in BOOLEAN
  BY <1>8
<1>10. Sync!Send(s)
  BY <1>1, <1>2, <1>3, <1>4, <1>6, <1>8 DEF Sync!Send, Sync!Busy, Outgoing
<1> QED
  BY <1>1, <1>2, <1>3, <1>7, <1>9, <1>10 DEF StateOK

LEMMA HandlerImplements ==
  ASSUME StateOK, Handler PROVE StateOK' /\ [Sync!Next]_(Sync!vars)
<1>1. ASSUME NEW u, UiOK(u), Local(u) PROVE StateOK' /\ UNCHANGED Sync!vars
  BY <1>1 DEF Local, StateOK, FlightOK, Sync!vars
<1>2. ASSUME NEW r, Outgoing(r), Post(r) PROVE StateOK' /\ Sync!Next
  BY <1>2, PostImplements DEF Sync!Next
<1> QED
  BY <1>1, <1>2 DEF Handler

-------------------------------------------------------------------------------
(* The control plane and the proxy implement the handling of requests *)

\* Request r with another stage, other values and another answer.
Advanced(r, stage, vals, site, rows, done) ==
  [kind |-> r.kind, cells |-> r.cells, vals |-> vals, stage |-> stage, mine |-> r.mine,
   op |-> r.op, coll |-> r.coll, site |-> site, rows |-> rows, done |-> done]

\* What the control plane and the proxy write into a request.
LEMMA StageBy ==
  ASSUME NEW r, Shaped(r), NEW st
  PROVE  [r EXCEPT !.stage = st] = Advanced(r, st, r.vals, r.site, r.rows, r.done)
  BY DEF Advanced, Shaped

LEMMA DoneBy ==
  ASSUME NEW r, Shaped(r), NEW st, NEW d
  PROVE  [[r EXCEPT !.stage = st] EXCEPT !.done = d] = Advanced(r, st, r.vals, r.site, r.rows, d)
<1>1. [Advanced(r, st, r.vals, r.site, r.rows, r.done) EXCEPT !.done = d]
        = Advanced(r, st, r.vals, r.site, r.rows, d)
  BY DEF Advanced
<1> QED
  BY <1>1, StageBy

LEMMA ValsBy ==
  ASSUME NEW r, Shaped(r), NEW st, NEW d, NEW v
  PROVE  [[[r EXCEPT !.done = d] EXCEPT !.stage = st] EXCEPT !.vals = v]
           = Advanced(r, st, v, r.site, r.rows, d)
<1>1. [r EXCEPT !.done = d] = Advanced(r, r.stage, r.vals, r.site, r.rows, d)
  BY DEF Advanced, Shaped
<1>2. [Advanced(r, r.stage, r.vals, r.site, r.rows, d) EXCEPT !.stage = st]
        = Advanced(r, st, r.vals, r.site, r.rows, d)
  BY DEF Advanced
<1>3. [Advanced(r, st, r.vals, r.site, r.rows, d) EXCEPT !.vals = v]
        = Advanced(r, st, v, r.site, r.rows, d)
  BY DEF Advanced
<1> QED
  BY <1>1, <1>2, <1>3

LEMMA SiteBy ==
  ASSUME NEW r, Shaped(r), NEW d, NEW si
  PROVE  [[[r EXCEPT !.stage = "answered"] EXCEPT !.done = d] EXCEPT !.site = si]
           = Advanced(r, "answered", r.vals, si, r.rows, d)
<1>1. [Advanced(r, "answered", r.vals, r.site, r.rows, d) EXCEPT !.site = si]
        = Advanced(r, "answered", r.vals, si, r.rows, d)
  BY DEF Advanced
<1>2. [[r EXCEPT !.stage = "answered"] EXCEPT !.done = d] = Advanced(r, "answered", r.vals, r.site, r.rows, d)
  BY DoneBy
<1> QED
  BY <1>1, <1>2

LEMMA RowsBy ==
  ASSUME NEW r, Shaped(r), NEW d, NEW ro
  PROVE  [[[r EXCEPT !.stage = "answered"] EXCEPT !.done = d] EXCEPT !.rows = ro]
           = Advanced(r, "answered", r.vals, r.site, ro, d)
<1>1. [Advanced(r, "answered", r.vals, r.site, r.rows, d) EXCEPT !.rows = ro]
        = Advanced(r, "answered", r.vals, r.site, ro, d)
  BY DEF Advanced
<1>2. [[r EXCEPT !.stage = "answered"] EXCEPT !.done = d] = Advanced(r, "answered", r.vals, r.site, r.rows, d)
  BY DoneBy
<1> QED
  BY <1>1, <1>2

LEMMA CarriedBy ==
  ASSUME NEW r, Shaped(r), NEW st, NEW v
  PROVE  [r EXCEPT !.done = TRUE, !.stage = st, !.vals = v]
           = Advanced(r, st, v, r.site, r.rows, TRUE)
<1>1. PICK yes : yes = TRUE
  OBVIOUS
<1>2. [r EXCEPT !.done = yes, !.stage = st, !.vals = v]
        = [[[r EXCEPT !.done = yes] EXCEPT !.stage = st] EXCEPT !.vals = v]
  OBVIOUS
<1>3. [[[r EXCEPT !.done = yes] EXCEPT !.stage = st] EXCEPT !.vals = v]
        = Advanced(r, st, v, r.site, r.rows, yes)
  BY ValsBy
<1> QED
  BY <1>1, <1>2, <1>3

LEMMA FailedBy ==
  ASSUME NEW r, Shaped(r), NEW d
  PROVE  [r EXCEPT !.stage = "failed", !.done = d]
           = Advanced(r, "failed", r.vals, r.site, r.rows, d)
<1>1. [r EXCEPT !.stage = "failed", !.done = d] = [[r EXCEPT !.stage = "failed"] EXCEPT !.done = d]
  OBVIOUS
<1>2. [[r EXCEPT !.stage = "failed"] EXCEPT !.done = d]
        = Advanced(r, "failed", r.vals, r.site, r.rows, d)
  BY DoneBy
<1> QED
  BY <1>1, <1>2

LEMMA AdvancedOK ==
  ASSUME NEW r, CallOK(r), NEW stage \in Stages, NEW vals \in [r.cells -> Values],
         NEW site, NEW rows \in Seq(LogEntries), NEW done,
         r.op = "pick" /\ stage = "answered" => site \in SiteCopies
  PROVE  CallOK(Advanced(r, stage, vals, site, rows, done))
  BY DEF Advanced, CallOK, Shaped, Brought

LEMMA AdvanceImplements ==
  ASSUME StateOK, NEW s \in Slots, NEW q, CallOK(q),
         q.kind = flight[s].kind, q.cells = flight[s].cells, q.mine = flight[s].mine,
         flight' = [flight EXCEPT ![s] = q]
  PROVE  FlightOK' /\ Sync!Advances(s) /\ flight'[s] = q
  BY SlotUpdate DEF StateOK, Sync!Advances

\* Whatever the server does with a request, it changes only the cells the
\* request is about, and a read changes none.
LEMMA CarryImplements ==
  ASSUME StateOK, NEW s \in Slots, NEW new \in [Cells -> Values], Carry(s, new),
         flight[s].stage = "sent", flight[s].kind # "free", flight[s].op # "pick",
         \A c \in Cells \ flight[s].cells : new[c] = server[c],
         flight[s].kind = "read" => new = server,
         flight[s].kind = "edit" => new = Sync!Update(server, flight[s].vals)
  PROVE  StateOK' /\ Sync!Next
<1> DEFINE r == flight[s]
           stage == IF NullBody(r) THEN "failed" ELSE "answered"
           vals == IF r.kind = "read" THEN [c \in r.cells |-> server[c]] ELSE r.vals
<1>1. CallOK(r)
  BY DEF StateOK, FlightOK
<1>2. stage \in Stages
  BY DEF Stages
<1>3. vals \in [r.cells -> Values]
  BY <1>1 DEF CallOK, Planned, StateOK
<1>4. r.rows \in Seq(LogEntries)
  BY <1>1 DEF CallOK, Brought
<1>5. flight' = [flight EXCEPT ![s] = Advanced(r, stage, vals, r.site, r.rows, TRUE)]
  <2>1. [r EXCEPT !.done = TRUE, !.stage = stage, !.vals = vals]
          = Advanced(r, stage, vals, r.site, r.rows, TRUE)
    BY <1>1, CarriedBy DEF CallOK
  <2>2. flight' = [flight EXCEPT ![s] = [r EXCEPT !.done = TRUE, !.stage = stage, !.vals = vals]]
    BY DEF Carry
  <2> QED
    BY <2>1, <2>2
<1>6. FlightOK' /\ Sync!Advances(s) /\ flight'[s].stage = stage /\ flight'[s].vals = vals
  <2>1. PICK q : q = Advanced(r, stage, vals, r.site, r.rows, TRUE)
    OBVIOUS
  <2>2. CallOK(q)
    BY <1>1, <1>2, <1>3, <1>4, <2>1, AdvancedOK
  <2>3. /\ q.kind = r.kind /\ q.cells = r.cells /\ q.mine = r.mine
        /\ q.stage = stage /\ q.vals = vals
    BY <2>1 DEF Advanced
  <2>4. flight' = [flight EXCEPT ![s] = q]
    BY <1>5, <2>1
  <2> QED
    BY <2>2, <2>3, <2>4, AdvanceImplements
<1>7. server' = new /\ orderly' = (orderly /\ ~NullBody(r))
      /\ UNCHANGED <<page, shown, stale, ui>>
  BY DEF Carry
<1>8. orderly' \in BOOLEAN
  BY <1>7 DEF StateOK, NullBody
<1>9. StateOK'
  BY <1>6, <1>7, <1>8 DEF StateOK
<1>10. CASE NullBody(r)
  <2>1. r.kind \in {"mutate", "blind"}
    BY <1>1, <1>10 DEF NullBody, CallOK, Planned, EditOps
  <2>2. Sync!Fail(s)
    BY <1>6, <1>7, <1>10, <2>1 DEF Sync!Fail, Sync!Busy, Sync!Writes
  <2> QED
    BY <1>9, <2>2 DEF Sync!Next
<1>11. CASE ~NullBody(r)
  <2>1. orderly' = orderly
    BY <1>7, <1>11 DEF StateOK
  <2>2. Sync!Process(s)
    BY <1>6, <1>7, <1>11, <2>1 DEF Sync!Process, Sync!Busy, Sync!Part
  <2> QED
    BY <1>9, <2>2 DEF Sync!Next
<1> QED
  BY <1>10, <1>11

\* A refusal and a loss only make a request fail.
LEMMA FailureImplements ==
  ASSUME StateOK, NEW s \in Slots, flight[s].kind # "free", NEW d,
         \/ flight' = [flight EXCEPT ![s].stage = "failed"]
         \/ flight' = [flight EXCEPT ![s].stage = "failed", ![s].done = d],
         orderly' = FALSE, UNCHANGED <<server, page, shown, stale, ui>>
  PROVE  StateOK' /\ Sync!Next
<1> DEFINE r == flight[s]
<1>1. CallOK(r)
  BY DEF StateOK, FlightOK
<1>2. PICK e : flight' = [flight EXCEPT ![s] = Advanced(r, "failed", r.vals, r.site, r.rows, e)]
  <2>0. Shaped(r)
    BY <1>1 DEF CallOK
  <2>1. [r EXCEPT !.stage = "failed"] = Advanced(r, "failed", r.vals, r.site, r.rows, r.done)
    BY <2>0, StageBy
  <2>2. [r EXCEPT !.stage = "failed", !.done = d]
          = Advanced(r, "failed", r.vals, r.site, r.rows, d)
    BY <1>1, FailedBy DEF CallOK
  <2>3. \/ flight' = [flight EXCEPT ![s] = [r EXCEPT !.stage = "failed"]]
        \/ flight' = [flight EXCEPT ![s] = [r EXCEPT !.stage = "failed", !.done = d]]
    BY DEF StateOK, FlightOK
  <2> QED
    BY <2>1, <2>2, <2>3
<1>3. FlightOK' /\ Sync!Advances(s) /\ flight'[s].stage = "failed" /\ flight'[s].vals = r.vals
  <2>1. PICK q : q = Advanced(r, "failed", r.vals, r.site, r.rows, e)
    OBVIOUS
  <2>2. CallOK(q)
    BY <1>1, <2>1, AdvancedOK DEF CallOK, Brought, Stages
  <2>3. /\ q.kind = r.kind /\ q.cells = r.cells /\ q.mine = r.mine
        /\ q.stage = "failed" /\ q.vals = r.vals
    BY <2>1 DEF Advanced
  <2>4. flight' = [flight EXCEPT ![s] = q]
    BY <1>2, <2>1
  <2> QED
    BY <2>2, <2>3, <2>4, AdvanceImplements
<1>4. StateOK'
  BY <1>3 DEF StateOK
<1>5. Sync!Fail(s)
  BY <1>3 DEF Sync!Fail, Sync!Busy, StateOK
<1> QED
  BY <1>4, <1>5 DEF Sync!Next

LEMMA RefuseImplements ==
  ASSUME StateOK, NEW s \in Slots, Refuse(s), flight[s].kind # "free"
  PROVE  StateOK' /\ Sync!Next
  BY FailureImplements DEF Refuse

LEMMA LoseImplements ==
  ASSUME StateOK, NEW s \in Slots, Lose(s)
  PROVE  StateOK' /\ Sync!Next
  BY FailureImplements DEF Lose, Busy

\* Setting the cells of a request leaves the others alone.
LEMMA WrittenOK ==
  ASSUME StateOK, NEW D \in SUBSET Cells, NEW vals \in [D -> Values]
  PROVE  /\ Written(vals) \in [Cells -> Values]
         /\ Written(vals) = Sync!Update(server, vals)
         /\ \A c \in Cells \ D : Written(vals)[c] = server[c]
  BY DEF Written, Sync!Update, StateOK

LEMMA SentIs ==
  ASSUME StateOK, NEW s \in Slots, NEW ops, Sent(s, ops)
  PROVE  /\ flight[s].stage = "sent" /\ flight[s].kind # "free" /\ flight[s].op \in ops
         /\ flight[s].cells \in SUBSET Cells /\ flight[s].vals \in [flight[s].cells -> Values]
         /\ CallOK(flight[s])
         /\ flight[s].op \in EditOps => flight[s].kind \in {"mutate", "blind"}
  BY DEF Sent, Busy, StateOK, FlightOK, CallOK, Planned

\* A write of the request's own values, or of values that do as well.
LEMMA CarryWrite ==
  ASSUME StateOK, NEW s \in Slots, NEW ops, Sent(s, ops), "pick" \notin ops,
         flight[s].kind \in {"edit", "mutate", "blind"},
         Carry(s, Written(flight[s].vals))
  PROVE  StateOK' /\ Sync!Next
<1>1. /\ flight[s].stage = "sent" /\ flight[s].kind # "free" /\ flight[s].op # "pick"
      /\ flight[s].cells \in SUBSET Cells /\ flight[s].vals \in [flight[s].cells -> Values]
  BY SentIs
<1>2. PICK new : new = Written(flight[s].vals)
  OBVIOUS
<1>3. /\ new \in [Cells -> Values] /\ new = Sync!Update(server, flight[s].vals)
      /\ \A c \in Cells \ flight[s].cells : new[c] = server[c]
  BY <1>1, <1>2, WrittenOK
<1>4. Carry(s, new)
  BY <1>2
<1> QED
  BY <1>1, <1>3, <1>4, CarryImplements

LEMMA CarryOther ==
  ASSUME StateOK, NEW s \in Slots, NEW ops, Sent(s, ops), ops \subseteq EditOps,
         NEW new \in [Cells -> Values], \A c \in Cells \ flight[s].cells : new[c] = server[c],
         Carry(s, new)
  PROVE  StateOK' /\ Sync!Next
<1>1. /\ flight[s].stage = "sent" /\ flight[s].kind \in {"mutate", "blind"}
      /\ flight[s].op # "pick"
  BY SentIs DEF EditOps
<1> QED
  BY <1>1, CarryImplements

LEMMA QueryImplements ==
  ASSUME StateOK, NEW s \in Slots, HandleQuery(s) PROVE StateOK' /\ Sync!Next
<1>1. Sent(s, {"load", "sandbox", "toast"})
  BY DEF HandleQuery
<1>2. /\ flight[s].stage = "sent" /\ flight[s].kind # "free" /\ flight[s].op # "pick"
      /\ flight[s].cells \in SUBSET Cells /\ flight[s].vals \in [flight[s].cells -> Values]
  BY <1>1, SentIs
<1>3. server \in [Cells -> Values]
  BY DEF StateOK
<1>4. flight[s].kind = "edit" => server = Sync!Update(server, flight[s].vals)
  BY <1>2, <1>3 DEF HandleQuery, Sync!Update
<1>5. Carry(s, server)
  BY DEF HandleQuery
<1>6. PICK new : new = server
  OBVIOUS
<1> QED
  BY <1>2, <1>3, <1>4, <1>5, <1>6, CarryImplements

LEMMA PatchImplements ==
  ASSUME StateOK, NEW s \in Slots, HandlePatch(s) PROVE StateOK' /\ Sync!Next
<1>1. Sent(s, {"toast", "refreshFeed"})
  BY DEF HandlePatch
<1>2. flight[s].kind \in {"edit", "mutate", "blind"}
  BY <1>1, SentIs DEF HandlePatch, CallOK, Planned
<1>3. CASE Carry(s, Written(flight[s].vals))
  BY <1>1, <1>2, <1>3, CarryWrite
<1>4. CASE Refuse(s)
  BY <1>2, <1>4, RefuseImplements
<1> QED
  BY <1>3, <1>4 DEF HandlePatch

LEMMA UpdateRuleImplements ==
  ASSUME StateOK, NEW s \in Slots, HandleUpdateRule(s) PROVE StateOK' /\ Sync!Next
<1>1. Sent(s, {"updateRule"})
  BY DEF HandleUpdateRule
<1>2. /\ flight[s].kind # "free" /\ flight[s].cells \in SUBSET Cells
      /\ flight[s].vals \in [flight[s].cells -> Values]
  BY <1>1, SentIs
<1> DEFINE new == [c \in Cells |-> IF c \in flight[s].cells /\ flight[s].vals[c] # Blank
                                   THEN flight[s].vals[c] ELSE server[c]]
<1>3. new \in [Cells -> Values] /\ \A c \in Cells \ flight[s].cells : new[c] = server[c]
  BY <1>2 DEF StateOK
<1>4. Carry(s, new) \/ Refuse(s)
  BY DEF HandleUpdateRule
<1> HIDE DEF new
<1>5. CASE Carry(s, new)
  BY <1>1, <1>3, <1>5, CarryOther DEF EditOps
<1>6. CASE Refuse(s)
  BY <1>2, <1>6, RefuseImplements
<1> QED
  BY <1>4, <1>5, <1>6

LEMMA CreateRuleImplements ==
  ASSUME StateOK, NEW s \in Slots, HandleCreateRule(s) PROVE StateOK' /\ Sync!Next
<1>1. Sent(s, {"createRule"})
  BY DEF HandleCreateRule
<1>2. /\ flight[s].kind # "free" /\ flight[s].cells \in SUBSET Cells
      /\ flight[s].vals \in [flight[s].cells -> Values] /\ flight[s].op = "createRule"
      /\ Planned(flight[s].kind, flight[s].op, flight[s].coll, flight[s].cells)
  BY <1>1, SentIs DEF CallOK
<1>3. PICK row \in Rows["rules"] :
        flight[s].cells = {<<"rules", row, f>> : f \in {"name", "seclang", "active"}}
  BY <1>2 DEF Planned
<1>4. RowOf(flight[s]) = row
  <2>1. <<"rules", row, "name">> \in flight[s].cells
    BY <1>3
  <2>2. (CHOOSE c \in flight[s].cells : TRUE) \in flight[s].cells
    BY <2>1
  <2>3. \A c \in flight[s].cells : c[2] = row
    BY <1>3
  <2> QED
    BY <2>2, <2>3 DEF RowOf
<1>5. PICK cell : cell = <<"rules", RowOf(flight[s]), "active">>
  OBVIOUS
<1>6. cell \in flight[s].cells
  BY <1>3, <1>4, <1>5
<1> DEFINE new == [Written(flight[s].vals) EXCEPT ![cell] = "on"]
<1>7. "on" \in Values
  BY KnownValues DEF OnOff
<1>8. /\ Written(flight[s].vals) \in [Cells -> Values]
      /\ \A c \in Cells \ flight[s].cells : Written(flight[s].vals)[c] = server[c]
  BY <1>2, WrittenOK
<1>9. new \in [Cells -> Values] /\ \A c \in Cells \ flight[s].cells : new[c] = server[c]
  BY <1>6, <1>7, <1>8
<1>10. Carry(s, new) \/ Refuse(s)
  BY <1>5 DEF HandleCreateRule
<1> HIDE DEF new
<1>11. CASE Carry(s, new)
  BY <1>1, <1>9, <1>11, CarryOther DEF EditOps
<1>12. CASE Refuse(s)
  BY <1>2, <1>12, RefuseImplements
<1> QED
  BY <1>10, <1>11, <1>12

LEMMA DeleteImplements ==
  ASSUME StateOK, NEW s \in Slots, HandleDelete(s) PROVE StateOK' /\ Sync!Next
<1>1. Sent(s, {"delete"})
  BY DEF HandleDelete
<1>2. flight[s].kind \in {"mutate", "blind"}
  BY <1>1, SentIs DEF EditOps
<1>3. CASE Carry(s, Written(flight[s].vals))
  BY <1>1, <1>2, <1>3, CarryWrite
<1>4. CASE Refuse(s)
  BY <1>2, <1>4, RefuseImplements
<1> QED
  BY <1>3, <1>4 DEF HandleDelete

LEMMA AddImplements ==
  ASSUME StateOK, NEW s \in Slots, HandleAdd(s) PROVE StateOK' /\ Sync!Next
<1>1. Sent(s, {"add", "addForm"})
  BY DEF HandleAdd
<1>2. /\ flight[s].kind # "free" /\ flight[s].cells \in SUBSET Cells
      /\ flight[s].vals \in [flight[s].cells -> Values] /\ flight[s].op \in {"add", "addForm"}
      /\ Planned(flight[s].kind, flight[s].op, flight[s].coll, flight[s].cells)
  BY <1>1, SentIs DEF CallOK
<1>3. flight[s].coll \in Colls /\ flight[s].cells = CollCells(flight[s].coll)
  BY <1>2 DEF Planned
<1>4. CASE Refuse(s)
  BY <1>2, <1>4, RefuseImplements
<1>5. ASSUME NEW row \in NewRows(flight[s].coll),
             Carry(s, Written([c \in RowCells(flight[s].coll, row) |-> flight[s].vals[c]]))
      PROVE  StateOK' /\ Sync!Next
  <2> DEFINE vals == [c \in RowCells(flight[s].coll, row) |-> flight[s].vals[c]]
             new == Written(vals)
  <2>1. row \in Rows[flight[s].coll]
    BY DEF NewRows
  <2>2. RowCells(flight[s].coll, row) \subseteq flight[s].cells
    BY <1>3, <2>1, CellOf
  <2>3. vals \in [RowCells(flight[s].coll, row) -> Values]
    BY <1>2, <2>2
  <2>4. RowCells(flight[s].coll, row) \in SUBSET Cells
    BY <1>2, <2>2
  <2> HIDE DEF vals
  <2>5. new \in [Cells -> Values] /\ \A c \in Cells \ RowCells(flight[s].coll, row) : new[c] = server[c]
    BY <2>3, <2>4, WrittenOK
  <2>6. \A c \in Cells \ flight[s].cells : new[c] = server[c]
    BY <2>2, <2>5
  <2>7. Carry(s, new)
    BY <1>5 DEF vals
  <2> HIDE DEF new
  <2> QED
    BY <1>1, <2>5, <2>6, <2>7, CarryOther DEF EditOps
<1> QED
  BY <1>4, <1>5 DEF HandleAdd

\* The answers to a page that opens: the first site, and the log.
LEMMA PickImplements ==
  ASSUME StateOK, NEW s \in Slots, HandlePick(s) PROVE StateOK' /\ Sync!Next
<1> DEFINE r == flight[s]
<1>1. Sent(s, {"pick"})
  BY DEF HandlePick
<1>2. r.stage = "sent" /\ r.op = "pick" /\ CallOK(r) /\ r.kind # "free"
  BY <1>1, SentIs
<1>3. r.kind = "blind"
  BY <1>2 DEF CallOK, Planned
<1>4. PICK row \in RowsIn(server, "sites") :
        /\ flight' = [flight EXCEPT ![s].stage = "answered", ![s].done = TRUE,
                                    ![s].site = SiteOf(server, row)]
        /\ UNCHANGED <<server, page, shown, stale, orderly, ui>>
  BY DEF HandlePick
<1>5. SiteOf(server, row) \in SiteCopies
  BY SiteOfOK DEF RowsIn, StateOK
<1>6. PICK yes : yes = TRUE
  OBVIOUS
<1>7. PICK site \in SiteCopies : site = SiteOf(server, row)
  BY <1>5
<1>8. flight' = [flight EXCEPT ![s] = [[[r EXCEPT !.stage = "answered"] EXCEPT !.done = yes] EXCEPT !.site = site]]
  BY <1>4, <1>6, <1>7 DEF StateOK, FlightOK
<1>9. PICK q : q = Advanced(r, "answered", r.vals, site, r.rows, yes)
  OBVIOUS
<1>10. flight' = [flight EXCEPT ![s] = q]
  <2>1. Shaped(r)
    BY <1>2 DEF CallOK
  <2>2. q = [[[r EXCEPT !.stage = "answered"] EXCEPT !.done = yes] EXCEPT !.site = site]
    BY <1>9, <2>1, SiteBy
  <2> QED
    BY <1>8, <2>2
<1>11. CallOK(q)
  BY <1>2, <1>9, AdvancedOK DEF CallOK, Brought, Stages
<1>12. /\ q.kind = r.kind /\ q.cells = r.cells /\ q.mine = r.mine
       /\ q.stage = "answered" /\ q.vals = r.vals
  BY <1>9 DEF Advanced
<1>13. FlightOK' /\ Sync!Advances(s) /\ flight'[s] = q
  BY <1>10, <1>11, <1>12, AdvanceImplements
<1>14. StateOK'
  BY <1>4, <1>13 DEF StateOK
<1>15. Sync!Process(s)
  BY <1>2, <1>3, <1>4, <1>12, <1>13 DEF Sync!Process, Sync!Busy, StateOK
<1> QED
  BY <1>14, <1>15 DEF Sync!Next

LEMMA LogsImplements ==
  ASSUME StateOK, log \in Seq(LogEntries), NEW s \in Slots, HandleLogs(s)
  PROVE  StateOK' /\ Sync!Next
<1> DEFINE r == flight[s]
<1>1. Sent(s, {"logs"})
  BY DEF HandleLogs
<1>2. r.stage = "sent" /\ r.op = "logs" /\ CallOK(r) /\ r.kind # "free"
  BY <1>1, SentIs
<1>3. r.kind = "blind"
  BY <1>2 DEF CallOK, Planned
<1>4. /\ flight' = [flight EXCEPT ![s].stage = "answered", ![s].done = TRUE, ![s].rows = log]
      /\ UNCHANGED <<server, page, shown, stale, orderly, ui>>
  BY DEF HandleLogs
<1>5. PICK yes : yes = TRUE
  OBVIOUS
<1>6. PICK rows \in Seq(LogEntries) : rows = log
  OBVIOUS
<1>7. flight' = [flight EXCEPT ![s] = [[[r EXCEPT !.stage = "answered"] EXCEPT !.done = yes] EXCEPT !.rows = rows]]
  BY <1>4, <1>5, <1>6 DEF StateOK, FlightOK
<1>8. PICK q : q = Advanced(r, "answered", r.vals, r.site, rows, yes)
  OBVIOUS
<1>9. flight' = [flight EXCEPT ![s] = q]
  <2>1. Shaped(r)
    BY <1>2 DEF CallOK
  <2>2. q = [[[r EXCEPT !.stage = "answered"] EXCEPT !.done = yes] EXCEPT !.rows = rows]
    BY <1>8, <2>1, RowsBy
  <2> QED
    BY <1>7, <2>2
<1>10. CallOK(q)
  BY <1>2, <1>8, AdvancedOK DEF CallOK, Stages
<1>11. /\ q.kind = r.kind /\ q.cells = r.cells /\ q.mine = r.mine
       /\ q.stage = "answered" /\ q.vals = r.vals
  BY <1>8 DEF Advanced
<1>12. FlightOK' /\ Sync!Advances(s) /\ flight'[s] = q
  BY <1>9, <1>10, <1>11, AdvanceImplements
<1>13. StateOK'
  BY <1>4, <1>12 DEF StateOK
<1>14. Sync!Process(s)
  BY <1>2, <1>3, <1>4, <1>11, <1>12 DEF Sync!Process, Sync!Busy, StateOK
<1> QED
  BY <1>13, <1>14 DEF Sync!Next

LEMMA ControlPlaneImplements ==
  ASSUME StateOK, log \in Seq(LogEntries), ControlPlane PROVE StateOK' /\ Sync!Next
  BY QueryImplements, PickImplements, LogsImplements, PatchImplements, UpdateRuleImplements,
     CreateRuleImplements, DeleteImplements, AddImplements, LoseImplements DEF ControlPlane

-------------------------------------------------------------------------------
(* Answers implement the closing of requests *)

LEMMA ToldOK ==
  ASSUME NEW u, UiOK(u), NEW r, CallOK(r), r.stage = "answered" PROVE UiOK(Told(u, r))
<1>1. PICK t : t = Toasted(u, "ok")
  OBVIOUS
<1>2. UiOK(t)
  BY <1>1, UiChanges
<1>3. EditingOK(NoRule)
  BY DEF EditingOK
<1>4. UiOK([t EXCEPT !.modal = FALSE]) /\ UiOK([t EXCEPT !.editing = NoRule])
  BY <1>2, <1>3, UiChanges
<1>5. r.rows \in Seq(LogEntries) /\ (r.op = "pick" => r.site \in SiteCopies)
  BY DEF CallOK, Brought
<1>6. UiOK([u EXCEPT !.rows = r.rows])
  BY <1>5, UiChanges
<1>7. r.op = "pick" => UiOK([u EXCEPT !.site = r.site])
  BY <1>5, UiChanges
<1>8. CASE r.op \in {"toast", "add"}
  BY <1>1, <1>2, <1>8 DEF Told
<1>9. CASE r.op = "addForm"
  BY <1>1, <1>4, <1>9 DEF Told
<1>10. CASE r.op \in {"createRule", "updateRule"}
  BY <1>1, <1>4, <1>10 DEF Told
<1>11. CASE r.op = "pick"
  BY <1>7, <1>11 DEF Told
<1>12. CASE r.op = "logs"
  BY <1>6, <1>12 DEF Told
<1>13. CASE r.op \notin {"toast", "add", "addForm", "createRule", "updateRule", "pick", "logs"}
  BY <1>13 DEF Told
<1> QED
  BY <1>8, <1>9, <1>10, <1>11, <1>12, <1>13

LEMMA WarnedOK ==
  ASSUME NEW u, UiOK(u), NEW r PROVE UiOK(Warned(u, r))
  BY UiChanges DEF Warned

\* Freeing the slot of an answered request.
LEMMA FreedSlot ==
  ASSUME StateOK, NEW s \in Slots, flight' = [flight EXCEPT ![s] = Free]
  PROVE  /\ FlightOK' /\ flight' = [flight EXCEPT ![s] = flight'[s]]
         /\ flight'[s].kind = "free" /\ Sync!IsRequest(flight'[s])
<1>1. PICK free : free = Free
  OBVIOUS
<1>2. CallOK(free) /\ free.kind = "free"
  BY <1>1, FreeOK
<1>3. flight' = [flight EXCEPT ![s] = free]
  BY <1>1
<1>4. FlightOK' /\ flight'[s] = free /\ flight' = [flight EXCEPT ![s] = flight'[s]]
  BY <1>2, <1>3, SlotUpdate DEF StateOK
<1> QED
  BY <1>2, <1>4, CallIsRequest

LEMMA ReadImplements ==
  ASSUME StateOK, NEW s \in Slots, DeliverRead(s) PROVE StateOK' /\ Sync!Next
<1> DEFINE r == flight[s]
<1>1. Busy(s) /\ r.mine /\ r.stage = "answered" /\ r.kind = "read" /\ CallOK(r)
  BY DEF DeliverRead, Awaited, StateOK, FlightOK
<1>2. r.cells \subseteq Cells /\ r.vals \in [r.cells -> Values]
  BY <1>1 DEF CallOK, Planned
<1>3. /\ shown' = [c \in Cells |-> IF c \in r.cells THEN r.vals[c] ELSE shown[c]]
      /\ flight' = [flight EXCEPT ![s] = Free]
      /\ UNCHANGED <<server, page, stale, orderly, ui>>
  BY DEF DeliverRead
<1>4. shown' = Sync!Update(shown, r.vals)
  BY <1>2, <1>3 DEF Sync!Update
<1>5. shown' \in [Cells -> Values]
  BY <1>2, <1>3 DEF StateOK
<1>6. /\ FlightOK' /\ flight' = [flight EXCEPT ![s] = flight'[s]]
      /\ flight'[s].kind = "free" /\ Sync!IsRequest(flight'[s])
  BY <1>3, FreedSlot
<1>7. StateOK'
  BY <1>3, <1>5, <1>6 DEF StateOK
<1>8. Sync!Close(s)
  BY <1>1, <1>3, <1>4, <1>6 DEF Sync!Close, Sync!Busy, Busy, Sync!Answered
<1> QED
  BY <1>7, <1>8 DEF Sync!Next

LEMMA MutateImplements ==
  ASSUME StateOK, NEW s \in Slots, DeliverMutate(s) PROVE StateOK' /\ Sync!Next
<1> DEFINE r == flight[s]
<1>1. Busy(s) /\ r.mine /\ r.stage = "answered" /\ r.kind = "mutate" /\ CallOK(r)
  BY DEF DeliverMutate, Awaited, StateOK, FlightOK
<1>2. r.coll \in Colls /\ r.cells \subseteq CollCells(r.coll)
  BY <1>1 DEF CallOK, Planned
<1>3. PICK again : again = Load("load", r.coll)
  OBVIOUS
<1>4. Outgoing(again) /\ again.kind = "read" /\ again.cells = CollCells(r.coll)
  BY <1>2, <1>3, LoadOK
<1>5. /\ ui' = Told(ui, r) /\ flight' = [flight EXCEPT ![s] = again]
      /\ orderly' = (orderly /\ Clear(again, s))
      /\ UNCHANGED <<server, page, shown, stale>>
  BY <1>3 DEF DeliverMutate
<1>6. FlightOK' /\ flight'[s] = again /\ flight' = [flight EXCEPT ![s] = flight'[s]]
  BY <1>4, <1>5, SlotUpdate DEF StateOK, Outgoing
<1>7. Sync!IsRequest(again)
  BY <1>4, CallIsRequest DEF Outgoing
<1>8. orderly' = (orderly /\ Sync!Clear(again, s))
  <2>1. Clear(again, s) <=> Sync!Clear(again, s)
    BY <1>4, SameClear DEF Outgoing, CallOK
  <2>2. Clear(again, s) \in BOOLEAN /\ Sync!Clear(again, s) \in BOOLEAN
    BY DEF Clear, Sync!Clear
  <2> QED
    BY <1>5, <2>1, <2>2
<1>9. UiOK(ui')
  BY <1>1, <1>5, ToldOK DEF StateOK
<1>10. orderly' \in BOOLEAN
  BY <1>8
<1>11. StateOK'
  BY <1>5, <1>6, <1>9, <1>10 DEF StateOK
<1>12. Sync!Reread(s)
  BY <1>1, <1>2, <1>4, <1>5, <1>6, <1>7, <1>8 DEF Sync!Reread, Sync!Answered, Outgoing
<1> QED
  BY <1>11, <1>12 DEF Sync!Next

LEMMA OtherImplements ==
  ASSUME StateOK, NEW s \in Slots, DeliverOther(s) PROVE StateOK' /\ Sync!Next
<1> DEFINE r == flight[s]
<1>1. /\ Busy(s) /\ r.mine /\ r.stage = "answered" /\ r.kind \in {"edit", "blind"}
      /\ CallOK(r)
  BY DEF DeliverOther, Awaited, StateOK, FlightOK
<1>2. r.cells \subseteq Cells
  BY <1>1 DEF CallOK, Planned
<1>3. /\ ui' = Told(ui, r) /\ flight' = [flight EXCEPT ![s] = Free]
      /\ stale' = IF r.kind = "blind" THEN stale \cup r.cells ELSE stale
      /\ UNCHANGED <<server, page, shown, orderly>>
  BY DEF DeliverOther
<1>4. /\ FlightOK' /\ flight' = [flight EXCEPT ![s] = flight'[s]]
      /\ flight'[s].kind = "free" /\ Sync!IsRequest(flight'[s])
  BY <1>3, FreedSlot
<1>5. UiOK(ui')
  BY <1>1, <1>3, ToldOK DEF StateOK
<1>6. StateOK'
  BY <1>2, <1>3, <1>4, <1>5 DEF StateOK
<1>7. Sync!Close(s)
  BY <1>1, <1>3, <1>4 DEF Sync!Close, Sync!Busy, Busy, Sync!Answered
<1> QED
  BY <1>6, <1>7 DEF Sync!Next

LEMMA FailedImplements ==
  ASSUME StateOK, NEW s \in Slots, DeliverFailure(s) \/ Ignore(s) PROVE StateOK' /\ Sync!Next
<1> DEFINE r == flight[s]
<1>1. Busy(s) /\ r.stage # "sent" /\ ~Sync!Answered(s)
  BY DEF DeliverFailure, Ignore, Awaited, Sync!Answered
<1>2. /\ ui' = ui \/ ui' = Warned(ui, r)
      /\ flight' = [flight EXCEPT ![s] = Free]
      /\ UNCHANGED <<server, page, shown, stale, orderly>>
  BY DEF DeliverFailure, Ignore
<1>3. /\ FlightOK' /\ flight' = [flight EXCEPT ![s] = flight'[s]]
      /\ flight'[s].kind = "free" /\ Sync!IsRequest(flight'[s])
  BY <1>2, FreedSlot
<1>4. UiOK(ui')
  BY <1>2, WarnedOK DEF StateOK
<1>5. StateOK'
  BY <1>2, <1>3, <1>4 DEF StateOK
<1>6. Sync!Close(s)
  BY <1>1, <1>2, <1>3 DEF Sync!Close, Sync!Busy, Busy
<1> QED
  BY <1>5, <1>6 DEF Sync!Next

LEMMA AnswersImplement == ASSUME StateOK, Answers PROVE StateOK' /\ Sync!Next
  BY ReadImplements, MutateImplements, OtherImplements, FailedImplements DEF Answers

-------------------------------------------------------------------------------
(* Pages opening *)

\* A write left behind by the last page.
LeftBehind(r) == CallOK(r) /\ ~r.mine /\ Sync!Writes(r) /\ r.cells # {}

LEMMA MineBy ==
  ASSUME NEW r, Shaped(r), NEW m
  PROVE  [r EXCEPT !.mine = m] =
           [kind |-> r.kind, cells |-> r.cells, vals |-> r.vals, stage |-> r.stage, mine |-> m,
            op |-> r.op, coll |-> r.coll, site |-> r.site, rows |-> r.rows, done |-> r.done]
  BY DEF Shaped

LEMMA OrphanOK ==
  ASSUME NEW r, CallOK(r) PROVE Orphan(r) = Free \/ LeftBehind(Orphan(r))
<1>1. CASE r.kind \in {"edit", "mutate", "blind"} /\ r.stage = "sent" /\ r.cells # {}
  <2>1. PICK no \in BOOLEAN : no = FALSE
    OBVIOUS
  <2>2. PICK q : q = [r EXCEPT !.mine = no]
    OBVIOUS
  <2>3. q = [kind |-> r.kind, cells |-> r.cells, vals |-> r.vals, stage |-> r.stage, mine |-> no,
             op |-> r.op, coll |-> r.coll, site |-> r.site, rows |-> r.rows, done |-> r.done]
    BY <2>2, MineBy DEF CallOK
  <2>4. CallOK(q)
    BY <2>3 DEF CallOK, Shaped, Brought
  <2>5. ~q.mine /\ Sync!Writes(q) /\ q.cells # {}
    BY <1>1, <2>1, <2>3 DEF Sync!Writes
  <2>6. Orphan(r) = q
    BY <1>1, <2>1, <2>2 DEF Orphan
  <2> QED
    BY <2>4, <2>5, <2>6 DEF LeftBehind
<1>2. CASE ~(r.kind \in {"edit", "mutate", "blind"} /\ r.stage = "sent" /\ r.cells # {})
  BY <1>2 DEF Orphan
<1> QED
  BY <1>1, <1>2

LEMMA SlotsApart ==
  /\ \A s \in ClickSlots : s \notin LoadSlots /\ s # PickSlot
  /\ \A p \in Pages : DOMAIN Loads[p] \subseteq Slots /\ PickSlot \notin DOMAIN Loads[p]
<1>1. ClickSlots \cap 1..4 = {}
  BY ConsoleAssumption
<1>2. \A s \in ClickSlots : s \notin LoadSlots /\ s # PickSlot
  BY <1>1 DEF LoadSlots, PickSlot
<1> QED
  BY <1>2, LoadsAre DEF LoadSlots, PickSlot, Slots

\* What each slot holds when a page opens.
LEMMA MountedSlots ==
  ASSUME NEW p \in Pages, NEW left, \A s \in ClickSlots : left[s] = Free \/ LeftBehind(left[s])
  PROVE  \A s \in Slots :
           /\ CallOK(Mounted(p, left)[s])
           /\ Mounted(p, left)[s].mine =>
                /\ Mounted(p, left)[s].stage = "sent"
                /\ Mounted(p, left)[s].kind \in {"free", "read", "blind"}
           /\ s \in DOMAIN Loads[p] => Mounted(p, left)[s] = Load("load", Loads[p][s])
           /\ s \in ClickSlots => Mounted(p, left)[s] = left[s]
           /\ s \notin ClickSlots /\ Sync!Writes(Mounted(p, left)[s]) =>
                Mounted(p, left)[s].cells = {}
<1> SUFFICES ASSUME NEW s \in Slots, NEW m, m = Mounted(p, left)[s]
             PROVE  /\ CallOK(m)
                    /\ m.mine => m.stage = "sent" /\ m.kind \in {"free", "read", "blind"}
                    /\ s \in DOMAIN Loads[p] => m = Load("load", Loads[p][s])
                    /\ s \in ClickSlots => m = left[s]
                    /\ s \notin ClickSlots /\ Sync!Writes(m) => m.cells = {}
  OBVIOUS
<1>0. /\ s \in ClickSlots => s \notin DOMAIN Loads[p] /\ s # PickSlot
      /\ s = PickSlot => s \notin DOMAIN Loads[p]
  BY SlotsApart, LoadsAre
<1>1. CASE s \in DOMAIN Loads[p]
  <2>1. m = Load("load", Loads[p][s]) /\ Loads[p][s] \in Colls
    BY <1>1, LoadsAre DEF Mounted
  <2>2. Outgoing(m) /\ m.kind = "read"
    BY <2>1, LoadOK
  <2> QED
    BY <1>0, <1>1, <2>1, <2>2 DEF Outgoing, Sync!Writes
<1>2. CASE s = PickSlot /\ p \in {"rules", "logs"}
  <2>1. m = Pick \/ m = LogQuery
    BY <1>0, <1>2 DEF Mounted
  <2>2. PICK op, coll : op \in {"pick", "logs"} /\ m = Request("blind", op, coll, {}, Nothing)
    BY <2>1 DEF Pick, LogQuery
  <2>3. Outgoing(m)
    BY <2>2, BlindOK
  <2>4. m.kind = "blind" /\ m.cells = {}
    BY <2>2 DEF Request
  <2> QED
    BY <1>0, <1>2, <2>3, <2>4 DEF Outgoing
<1>3. CASE s \in ClickSlots
  <2>1. m = left[s]
    BY <1>0, <1>3 DEF Mounted
  <2>2. CASE m = Free
    BY <1>0, <1>3, <2>1, <2>2, FreeOK DEF Free, Request
  <2>3. CASE LeftBehind(m)
    BY <1>0, <1>3, <2>1, <2>3 DEF LeftBehind
  <2> QED
    BY <1>3, <2>1, <2>2, <2>3
<1>4. CASE s \notin DOMAIN Loads[p] /\ ~(s = PickSlot /\ p \in {"rules", "logs"}) /\ s \notin ClickSlots
  <2>1. m = Free
    BY <1>4 DEF Mounted
  <2>2. CallOK(m) /\ m.kind = "free" /\ m.cells = {} /\ m.stage = "sent"
    BY <2>1, FreeOK DEF Free, Request
  <2> QED
    BY <1>4, <2>2
<1> QED
  BY <1>1, <1>2, <1>3, <1>4

LEMMA MountedOpens ==
  ASSUME NEW p \in Pages, NEW left, \A s \in ClickSlots : left[s] = Free \/ LeftBehind(left[s]),
         NEW fl, fl = Mounted(p, left)
  PROVE  /\ fl = [s \in Slots |-> fl[s]] /\ \A s \in Slots : CallOK(fl[s])
         /\ Sync!Opens(p, fl)
         /\ (\A s \in ClickSlots : fl[s] = Free) <=> Sync!NoWrites(fl)
<1>1. /\ fl = [s \in Slots |-> fl[s]]
      /\ \A s \in Slots : fl[s] = Mounted(p, left)[s]
  BY DEF Mounted
<1>2. \A s \in Slots :
        /\ CallOK(fl[s])
        /\ fl[s].mine => fl[s].stage = "sent" /\ fl[s].kind \in {"free", "read", "blind"}
        /\ s \in DOMAIN Loads[p] => fl[s] = Load("load", Loads[p][s])
        /\ s \in ClickSlots => fl[s] = left[s]
        /\ s \notin ClickSlots /\ Sync!Writes(fl[s]) => fl[s].cells = {}
  <2> SUFFICES ASSUME NEW s \in Slots
               PROVE  /\ CallOK(fl[s])
                      /\ fl[s].mine => fl[s].stage = "sent" /\ fl[s].kind \in {"free", "read", "blind"}
                      /\ s \in DOMAIN Loads[p] => fl[s] = Load("load", Loads[p][s])
                      /\ s \in ClickSlots => fl[s] = left[s]
                      /\ s \notin ClickSlots /\ Sync!Writes(fl[s]) => fl[s].cells = {}
    OBVIOUS
  <2>1. fl[s] = Mounted(p, left)[s]
    BY <1>1
  <2> QED
    BY <2>1, MountedSlots
<1>3. Sync!IsFlight(fl)
  BY <1>1, <1>2, CallIsRequest DEF Sync!IsFlight
<1>4. ASSUME NEW c \in PageCells[p]
      PROVE  \E s \in Slots : fl[s].kind = "read" /\ fl[s].mine /\ c \in fl[s].cells
  <2>1. PICK i \in DOMAIN Loads[p] : c \in CollCells(Loads[p][i])
    BY <1>4 DEF PageCells, PageColls
  <2>2. i \in Slots /\ Loads[p][i] \in Colls
    BY SlotsApart, LoadsAre
  <2>3. fl[i] = Load("load", Loads[p][i])
    BY <1>2, <2>1, <2>2
  <2>4. fl[i].kind = "read" /\ fl[i].mine /\ fl[i].cells = CollCells(Loads[p][i])
    BY <2>2, <2>3, LoadOK DEF Outgoing
  <2> QED
    BY <2>1, <2>2, <2>4
<1>5. Sync!Opens(p, fl)
  BY <1>2, <1>3, <1>4 DEF Sync!Opens
<1>6. \A s \in ClickSlots : s \in Slots
  BY DEF Slots
<1>7. (\A s \in ClickSlots : fl[s] = Free) => Sync!NoWrites(fl)
  BY <1>2, FreeOK DEF Sync!NoWrites
<1>8. Sync!NoWrites(fl) => \A s \in ClickSlots : fl[s] = Free
  BY <1>2, <1>6 DEF Sync!NoWrites, LeftBehind
<1> QED
  BY <1>1, <1>2, <1>5, <1>7, <1>8

LEMMA VisitImplements ==
  ASSUME StateOK, NEW p \in Pages, Visit(p) PROVE StateOK' /\ Sync!Next
<1>1. PICK left : left = [s \in ClickSlots |-> Orphan(flight[s])]
  OBVIOUS
<1>2. \A s \in ClickSlots : left[s] = Free \/ LeftBehind(left[s])
  BY <1>1, OrphanOK DEF StateOK, FlightOK, Slots
<1>3. /\ page' = p /\ shown' = Mocks /\ flight' = Mounted(p, left) /\ stale' = {}
      /\ orderly' = (\A s \in ClickSlots : flight'[s] = Free)
      /\ ui' = FreshUi /\ server' = server
  BY <1>1 DEF Visit
<1>4. PICK fl : fl = flight'
  OBVIOUS
<1>5. /\ fl = [s \in Slots |-> fl[s]] /\ \A s \in Slots : CallOK(fl[s])
      /\ Sync!Opens(p, fl)
      /\ (\A s \in ClickSlots : fl[s] = Free) <=> Sync!NoWrites(fl)
  BY <1>2, <1>3, <1>4, MountedOpens
<1>6. FlightOK' /\ Sync!Opens(page', flight')
  BY <1>3, <1>4, <1>5 DEF FlightOK
<1>7. orderly' = Sync!NoWrites(flight')
  BY <1>3, <1>4, <1>5 DEF Sync!NoWrites
<1>8. Mocks \in [Cells -> Values]
  BY ConsoleAssumption
<1>9. StateOK'
  BY <1>3, <1>6, <1>8, FreshUiOK DEF StateOK
<1>10. Sync!Visit
  BY <1>3, <1>6, <1>7 DEF Sync!Visit
<1> QED
  BY <1>9, <1>10 DEF Sync!Next

LEMMA InitImplements == Init => StateOK /\ Sync!Init
<1> SUFFICES ASSUME Init PROVE StateOK /\ Sync!Init
  OBVIOUS
<1>1. PICK left : left = [s \in ClickSlots |-> Free]
  OBVIOUS
<1>2. /\ server = Seed /\ page \in Pages /\ shown = Mocks /\ flight = Mounted(page, left)
      /\ stale = {} /\ orderly = TRUE /\ ui = FreshUi
  BY <1>1 DEF Init
<1>3. \A s \in ClickSlots : left[s] = Free
  BY <1>1
<1>4. PICK fl : fl = flight
  OBVIOUS
<1>5. /\ fl = [s \in Slots |-> fl[s]] /\ \A s \in Slots : CallOK(fl[s])
      /\ Sync!Opens(page, fl)
      /\ (\A s \in ClickSlots : fl[s] = Free) <=> Sync!NoWrites(fl)
  BY <1>2, <1>3, <1>4, MountedOpens
<1>6. \A s \in ClickSlots : fl[s] = Free
  BY <1>2, <1>3, <1>4, MountedSlots DEF Slots
<1>7. Seed \in [Cells -> Values] /\ Mocks \in [Cells -> Values]
  BY ConsoleAssumption
<1>8. StateOK
  BY <1>2, <1>4, <1>5, <1>7, FreshUiOK DEF StateOK, FlightOK
<1>9. Sync!Init
  BY <1>2, <1>4, <1>5, <1>6, <1>7 DEF Sync!Init
<1> QED
  BY <1>8, <1>9

-------------------------------------------------------------------------------
(* The other steps *)

LEMMA ElsewhereImplements ==
  ASSUME StateOK, Elsewhere PROVE StateOK' /\ Sync!Next
<1>a. PICK coll \in PageColls(page) : \E row \in RowsIn(server, coll) :
        \/ \E c \in RowCells(coll, row) : \E v \in Schema[coll][c[3]] \ {server[c]} :
             server' = [server EXCEPT ![c] = v]
        \/ server' = Written([c \in RowCells(coll, row) |-> Gone])
  BY DEF Elsewhere
<1>1. PICK row \in RowsIn(server, coll) :
        \/ \E c \in RowCells(coll, row) : \E v \in Schema[coll][c[3]] \ {server[c]} :
             server' = [server EXCEPT ![c] = v]
        \/ server' = Written([c \in RowCells(coll, row) |-> Gone])
  BY <1>a
<1>2. page \in Pages /\ server \in [Cells -> Values]
  BY DEF StateOK
<1>3. coll \in Colls
  BY <1>2, LoadsAre DEF PageColls
<1>4. row \in Rows[coll]
  BY DEF RowsIn
<1>5. server' \in [Cells -> Values]
  <2>1. ASSUME NEW c \in RowCells(coll, row), NEW v \in Schema[coll][c[3]],
               server' = [server EXCEPT ![c] = v]
        PROVE  server' \in [Cells -> Values]
    <3>1. c[3] \in DOMAIN Schema[coll]
      BY <1>3, CellOf
    <3>2. v \in Values
      BY <1>3, <3>1, ValuesAre
    <3> QED
      BY <1>2, <2>1, <3>2
  <2>2. CASE server' = Written([c \in RowCells(coll, row) |-> Gone])
    <3>1. PICK vals : vals = [c \in RowCells(coll, row) |-> Gone]
      OBVIOUS
    <3>2. vals \in [RowCells(coll, row) -> Values]
      BY <3>1, ValuesAre
    <3>3. RowCells(coll, row) \in SUBSET Cells
      BY <1>3, <1>4, CellOf
    <3> QED
      BY <2>2, <3>1, <3>2, <3>3, WrittenOK
  <2> QED
    BY <1>1, <2>1, <2>2
<1>6. orderly' = FALSE /\ UNCHANGED <<page, shown, flight, stale, ui>>
  BY DEF Elsewhere
<1>7. StateOK'
  BY <1>5, <1>6 DEF StateOK, FlightOK
<1>8. Sync!Elsewhere
  BY <1>5, <1>6 DEF Sync!Elsewhere
<1> QED
  BY <1>7, <1>8 DEF Sync!Next

\* A timer that fires takes the message with it, and itself.
LEMMA TimeoutImplements ==
  ASSUME StateOK, ToastTimeout PROVE StateOK' /\ UNCHANGED Sync!vars
<1>1. UiOK(ui')
  <2>1. PICK n : n = ui.timers - 1
    OBVIOUS
  <2>2. n \in Nat
    BY <2>1 DEF ToastTimeout, StateOK, UiOK
  <2>3. ui' = [ui EXCEPT !.toast = "none", !.timers = n]
    BY <2>1 DEF ToastTimeout
  <2>4. ui' = [site |-> ui.site, editing |-> ui.editing, modal |-> ui.modal, toast |-> "none",
               timers |-> n, rows |-> ui.rows, filters |-> ui.filters, selected |-> ui.selected]
    BY <2>3 DEF StateOK, UiOK
  <2> QED
    BY <2>2, <2>4 DEF StateOK, UiOK
<1> QED
  BY <1>1 DEF ToastTimeout, StateOK, FlightOK, Sync!vars

\* The tab leaves the log alone, but for edges that report to it.
LogOK == Audit!TypeOK /\ Audit!KeepsNewest

LEMMA LogFits == AuditP!Fits
  BY ConsoleAssumption DEF AuditP!Fits

LEMMA InitLog == Init => LogOK
<1>1. Init => AuditP!Init
  BY DEF Init, Audit!Init, AuditP!Init
<1> QED
  BY <1>1, LogFits, AuditP!InitInv
     DEF LogOK, Audit!TypeOK, AuditP!TypeOK, Audit!KeepsNewest, AuditP!KeepsNewest, Audit!Newest,
         AuditP!Newest

LEMMA IngestLog ==
  ASSUME LogOK, NEW batch \in Batches, Ingest(batch) PROVE LogOK'
<1>1. batch \in Seq(LogEntries)
  <2>1. PICK n \in Nat : batch \in [1..n -> LogEntries]
    BY DEF Batches
  <2> QED
    BY <2>1, SeqDef
<1>2. AuditP!Ingest(batch)
  BY DEF Ingest, Audit!Ingest, AuditP!Ingest, Audit!Newest, AuditP!Newest
<1>3. AuditP!TypeOK /\ AuditP!KeepsNewest
  BY DEF LogOK, Audit!TypeOK, AuditP!TypeOK, Audit!KeepsNewest, AuditP!KeepsNewest, Audit!Newest,
         AuditP!Newest
<1>4. (AuditP!TypeOK /\ AuditP!KeepsNewest)'
  BY <1>1, <1>2, <1>3, LogFits, AuditP!IngestInv
<1> QED
  BY <1>4
     DEF LogOK, Audit!TypeOK, AuditP!TypeOK, Audit!KeepsNewest, AuditP!KeepsNewest, Audit!Newest,
         AuditP!Newest

LEMMA LogOtherwise ==
  ASSUME StateOK, Next, \A batch \in Batches : ~Ingest(batch) PROVE UNCHANGED <<log, all>>
<1>1. Handler => UNCHANGED <<log, all>>
  BY DEF Handler, Local, Post
<1>2. CASE RulesPage \/ OtherPages
  BY <1>1, <1>2, RulesPageHandlers, OtherPagesHandlers
<1>3. ASSUME NEW s \in Slots, NEW new, Carry(s, new) \/ Refuse(s) PROVE UNCHANGED <<log, all>>
  BY <1>3 DEF Carry, Refuse
<1>4. CASE ControlPlane
  BY <1>3, <1>4
     DEF ControlPlane, HandleQuery, HandlePick, HandleLogs, HandlePatch, HandleUpdateRule,
         HandleCreateRule, HandleDelete, HandleAdd, Lose
<1>5. CASE Answers
  BY <1>5 DEF Answers, DeliverRead, DeliverMutate, DeliverOther, DeliverFailure, Ignore
<1>6. CASE \E p \in Pages : Visit(p)
  BY <1>6 DEF Visit
<1>7. CASE ToastTimeout \/ Elsewhere
  BY <1>7 DEF ToastTimeout, Elsewhere
<1> QED
  BY <1>2, <1>4, <1>5, <1>6, <1>7 DEF Next

-------------------------------------------------------------------------------
(* The tab *)

Inv == StateOK /\ LogOK

LEMMA InitInv == Init => Inv /\ Sync!Init
  BY InitImplements, InitLog DEF Inv

LEMMA IngestImplements ==
  ASSUME StateOK, NEW batch, Ingest(batch) PROVE StateOK' /\ UNCHANGED Sync!vars
  BY DEF Ingest, StateOK, FlightOK, Sync!vars

LEMMA StutterImplements ==
  ASSUME StateOK, UNCHANGED vars PROVE StateOK' /\ UNCHANGED Sync!vars
  BY DEF vars, StateOK, FlightOK, Sync!vars

LEMMA StepImplements ==
  ASSUME Inv, [Next]_vars PROVE StateOK' /\ [Sync!Next]_(Sync!vars)
<1>s. StateOK /\ log \in Seq(LogEntries)
  BY DEF Inv, LogOK, Audit!TypeOK
<1>1. CASE RulesPage \/ OtherPages
  BY <1>s, <1>1, RulesPageHandlers, OtherPagesHandlers, HandlerImplements
<1>2. ASSUME NEW p \in Pages, Visit(p) PROVE StateOK' /\ Sync!Next
  BY <1>s, <1>2, VisitImplements
<1>3. ASSUME NEW batch \in Batches, Ingest(batch) PROVE StateOK' /\ UNCHANGED Sync!vars
  BY <1>s, <1>3, IngestImplements
<1>4. CASE ControlPlane
  BY <1>s, <1>4, ControlPlaneImplements
<1>5. CASE Answers
  BY <1>s, <1>5, AnswersImplement
<1>6. CASE ToastTimeout
  BY <1>s, <1>6, TimeoutImplements
<1>7. CASE Elsewhere
  BY <1>s, <1>7, ElsewhereImplements
<1>8. CASE UNCHANGED vars
  BY <1>s, <1>8, StutterImplements
<1> QED
  BY <1>1, <1>2, <1>3, <1>4, <1>5, <1>6, <1>7, <1>8 DEF Next

LEMMA NextInv == Inv /\ [Next]_vars => Inv' /\ [Sync!Next]_(Sync!vars)
<1> SUFFICES ASSUME Inv, [Next]_vars PROVE Inv' /\ [Sync!Next]_(Sync!vars)
  OBVIOUS
<1>1. StateOK' /\ [Sync!Next]_(Sync!vars)
  BY StepImplements
<1>2. ASSUME log' = log, all' = all PROVE LogOK'
  BY <1>2 DEF Inv, LogOK, Audit!TypeOK, Audit!KeepsNewest, Audit!Newest
<1>3. ASSUME NEW batch \in Batches, Ingest(batch) PROVE LogOK'
  BY <1>3, IngestLog DEF Inv
<1>4. CASE UNCHANGED vars
  <2>1. log' = log /\ all' = all
    BY <1>4 DEF vars
  <2> QED
    BY <1>1, <1>2, <2>1 DEF Inv
<1>5. CASE Next
  <2>1. CASE \E batch \in Batches : Ingest(batch)
    BY <1>1, <1>3, <2>1 DEF Inv
  <2>2. CASE \A batch \in Batches : ~Ingest(batch)
    <3>1. log' = log /\ all' = all
      BY <1>5, <2>2, LogOtherwise DEF Inv
    <3> QED
      BY <1>1, <1>2, <3>1 DEF Inv
  <2> QED
    BY <2>1, <2>2
<1> QED
  BY <1>4, <1>5

LEMMA InvTypeOK == Inv => TypeOK
<1> SUFFICES ASSUME Inv PROVE TypeOK
  OBVIOUS
<1>1. Sync!IsFlight(flight)
  BY CallIsRequest DEF Inv, StateOK, FlightOK, Sync!IsFlight
<1>2. \A field \in DOMAIN FilterValues : ui.filters[field] \in FilterValues[field]
  BY DEF Inv, StateOK, UiOK, Filters, FilterValues
<1>3. /\ ui.site.row \in Rows["sites"] /\ ui.site.tuning \in Values
      /\ ui.rows \in Seq(LogEntries) /\ ui.selected \in LogEntries \cup {NoEntry}
      /\ ui.toast \in {"none", "ok", "failed"} /\ ui.timers \in Nat
  BY DEF Inv, StateOK, UiOK, SiteCopies
<1> QED
  BY <1>1, <1>2, <1>3 DEF Inv, StateOK, LogOK, TypeOK

\* For any rows, bounds and mock rows, the state of the tab keeps its kinds.
THEOREM ConsoleTypeCorrect == Spec => []TypeOK
<1> QED
  BY InitInv, NextInv, InvTypeOK, PTL DEF Spec

\* Whatever is clicked, sent, lost, answered and visited, in whatever order, a
\* message on the screen has a timer left (ui.tsx:13).
THEOREM MessagesEnd == Spec => []ToastGoesAway
<1>1. Inv => ToastGoesAway
  BY DEF Inv, StateOK, UiOK, ToastGoesAway
<1> QED
  BY <1>1, InitInv, NextInv, PTL DEF Spec

\* The tab's log is that of AuditLog: every cut keeps the newest entries.
THEOREM ConsoleLogIsNewest == Spec => []LogKeepsNewest
<1>1. Inv => LogKeepsNewest
  BY DEF Inv, LogOK, LogKeepsNewest
<1> QED
  BY <1>1, InitInv, NextInv, PTL DEF Spec

\* Audit and AuditP are two instances of the same module.
LEMMA SameFilters ==
  ASSUME NEW rows, NEW f
  PROVE  /\ Audit!Filtered(rows, f) = AuditP!Filtered(rows, f)
         /\ Audit!ListLogs(rows, f) = AuditP!ListLogs(rows, f)
<1>1. ASSUME NEW s, NEW K PROVE Audit!Select(s, K) = AuditP!Select(s, K)
  BY DEF Audit!Select, AuditP!Select
<1>2. /\ Audit!ByRule(f.rule) = AuditP!ByRule(f.rule)
      /\ Audit!ByAction(f.action) = AuditP!ByAction(f.action)
      /\ Audit!ByHost(f.host) = AuditP!ByHost(f.host)
  BY DEF Audit!ByRule, AuditP!ByRule, Audit!ByAction, AuditP!ByAction, Audit!ByHost,
         AuditP!ByHost, Audit!NoFilter, AuditP!NoFilter, Audit!StartsWith, AuditP!StartsWith
<1>3. Audit!Filtered(rows, f) = AuditP!Filtered(rows, f)
  BY <1>1 DEF Audit!Filtered, AuditP!Filtered, Audit!NoFilter, AuditP!NoFilter,
              Audit!StartsWith, AuditP!StartsWith
<1>4. Audit!ListLogs(rows, f) = AuditP!ListLogs(rows, f)
  BY <1>1, <1>2 DEF Audit!ListLogs, AuditP!ListLogs
<1> QED
  BY <1>3, <1>4

\* Whatever rows the page was given and whatever it is asked to filter, it shows
\* those the control plane would have answered with (logs/page.tsx:29-39).
THEOREM PageFiltersLikeServer == Spec => []FiltersAgree
<1>1. TypeOK => FiltersAgree
  <2> SUFFICES ASSUME TypeOK, NEW f \in Filters
               PROVE  Audit!Filtered(ui.rows, f) = Audit!ListLogs(ui.rows, f)
    BY DEF FiltersAgree
  <2>1. ui.rows \in Seq(LogEntries)
    BY DEF TypeOK
  <2>2. AuditP!Filtered(ui.rows, f) = AuditP!ListLogs(ui.rows, f)
    BY <2>1, AuditP!FiltersAreOne
  <2> QED
    BY <2>2, SameFilters
<1> QED
  BY <1>1, ConsoleTypeCorrect, PTL

\* Every handler, route and callback of the console is a step PageSync allows,
\* or none at all.
THEOREM ConsoleImplementsPageSync == Spec => SyncSpec
<1> QED
  BY InitInv, NextInv, PTL DEF Spec, SyncSpec, Sync!Spec

LEMMA PageKinded == SyncP!Kinded
<1>1. PageCells \in [Pages -> SUBSET Cells]
  BY LoadsAre DEF PageCells
<1>2. Mocks \in [Cells -> Values]
  BY ConsoleAssumption
<1> QED
  BY <1>1, <1>2 DEF SyncP!Kinded

\* Sync and SyncP are two instances of the same module.
LEMMA SameNext == [Sync!Next]_(Sync!vars) => [SyncP!Next]_(SyncP!vars)
<1>1. ASSUME NEW s \in Slots PROVE Sync!Send(s) => SyncP!Send(s)
  BY DEF Sync!Send, SyncP!Send, Sync!Busy, SyncP!Busy, Sync!IsRequest, SyncP!IsRequest, Sync!Kinds,
         SyncP!Kinds, Sync!Update, SyncP!Update, Sync!Clear, SyncP!Clear, Sync!Conflict,
         SyncP!Conflict, Sync!Writes, SyncP!Writes
<1>2. ASSUME NEW s \in Slots PROVE Sync!Process(s) => SyncP!Process(s)
  BY DEF Sync!Process, SyncP!Process, Sync!Busy, SyncP!Busy, Sync!Update, SyncP!Update,
         Sync!Advances, SyncP!Advances, Sync!Part, SyncP!Part
<1>3. ASSUME NEW s \in Slots PROVE Sync!Fail(s) => SyncP!Fail(s)
  BY DEF Sync!Fail, SyncP!Fail, Sync!Busy, SyncP!Busy, Sync!Writes, SyncP!Writes, Sync!Advances,
         SyncP!Advances
<1>4. ASSUME NEW s \in Slots PROVE Sync!Reread(s) => SyncP!Reread(s)
  BY DEF Sync!Reread, SyncP!Reread, Sync!Answered, SyncP!Answered, Sync!IsRequest, SyncP!IsRequest,
         Sync!Kinds, SyncP!Kinds, Sync!Clear, SyncP!Clear, Sync!Conflict, SyncP!Conflict,
         Sync!Writes, SyncP!Writes
<1>5. ASSUME NEW s \in Slots PROVE Sync!Close(s) => SyncP!Close(s)
  BY DEF Sync!Close, SyncP!Close, Sync!Answered, SyncP!Answered, Sync!IsRequest, SyncP!IsRequest,
         Sync!Kinds, SyncP!Kinds, Sync!Busy, SyncP!Busy, Sync!Update, SyncP!Update
<1>6. Sync!Visit => SyncP!Visit
  BY DEF Sync!Visit, SyncP!Visit, Sync!Opens, SyncP!Opens, Sync!IsFlight, SyncP!IsFlight,
         Sync!IsRequest, SyncP!IsRequest, Sync!Kinds, SyncP!Kinds, Sync!NoWrites, SyncP!NoWrites,
         Sync!Writes, SyncP!Writes
<1>7. Sync!Elsewhere => SyncP!Elsewhere
  BY DEF Sync!Elsewhere, SyncP!Elsewhere
<1>8. Sync!vars = SyncP!vars /\ Sync!vars' = SyncP!vars'
  BY DEF Sync!vars, SyncP!vars
<1> QED
  BY <1>1, <1>2, <1>3, <1>4, <1>5, <1>6, <1>7, <1>8 DEF Sync!Next, SyncP!Next

LEMMA SameInit == Sync!Init => SyncP!Init
  BY DEF Sync!Init, SyncP!Init, Sync!Opens, SyncP!Opens, Sync!IsFlight, SyncP!IsFlight,
         Sync!IsRequest, SyncP!IsRequest, Sync!Kinds, SyncP!Kinds, Sync!NoWrites, SyncP!NoWrites,
         Sync!Writes, SyncP!Writes

\* A page of the console at rest, on which no two requests about one cell met,
\* nothing failed and nobody else intervened, shows what the control plane
\* holds, save for what it wrote and never asks for again.
THEOREM ConsoleSettles == Spec => []Settled
<1>1. Init => Inv /\ SyncP!TypeOK /\ SyncP!OrderlyInv
  BY InitInv, SameInit, PageKinded, SyncP!InitTypeOK, SyncP!InitOrderly
<1>2. Inv /\ SyncP!TypeOK /\ SyncP!OrderlyInv /\ [Next]_vars
        => (Inv /\ SyncP!TypeOK /\ SyncP!OrderlyInv)'
  BY NextInv, SameNext, PageKinded, SyncP!NextTypeOK, SyncP!NextOrderly
<1>3. SyncP!OrderlyInv => Settled
  BY SyncP!RestSettled DEF Settled, Sync!Settled, SyncP!Settled, Sync!Busy, SyncP!Busy
<1> QED
  BY <1>1, <1>2, <1>3, PTL DEF Spec
===============================================================================
