-------------------------------- MODULE Console --------------------------------
(***************************************************************************)
(* The console in one browser tab: its pages, their handlers, the requests *)
(* they send through the same-origin proxy, and what the control plane's   *)
(* REST handlers do with them.                                             *)
(*                                                                         *)
(* A cell <<coll, row, field>> is one field of one row of a collection;    *)
(* `server' is what the control plane holds in it and `shown' what the     *)
(* open page does.  Rows carry the number in their id ("rl-002" is row 2   *)
(* of rates); a row that does not exist holds Gone in every cell.  Every   *)
(* click handler is one action, because JavaScript runs it to the end; its *)
(* `.then' and `.catch' callbacks run in the later action that delivers    *)
(* the answer.  Answers arrive in any order.                               *)
(***************************************************************************)
EXTENDS Naturals, Sequences, FiniteSets

CONSTANTS Rows,           \* the rows each collection can hold
          Texts, Levels,  \* rule names and bodies; tunings of a site
          Seed, Mocks,    \* what the server, and a page just opened, hold
          LogEntries, LogSeed, LogCap,    \* see AuditLog
          RuleQueries,    \* rule ids or prefixes typed into the log's filter
          ClickSlots,     \* requests of click handlers in flight at a time
          MaxSteps, MaxEvents, MaxTyped   \* bounds of a run

Gone == "gone"
Blank == "blank"
Zero == "zero"     \* a number left out, or 0
OnOff == {"on", "off"}
Pages == {"dashboard", "fleet", "rules", "rates", "bots", "exceptions", "settings", "logs"}

\* The collections, their fields and what a field can hold.
PolicySchema ==
  [nodes |-> [status |-> {"ONLINE", "OFFLINE"}],
   crs   |-> [enabled |-> OnOff],
   rules |-> [name |-> Texts, seclang |-> Texts, active |-> OnOff],
   sites |-> [tuning |-> Levels]]

ListSchema ==
  [exceptions |-> [rule |-> {"some"}],
   ips        |-> [list |-> {"allow", "block"}],
   feeds      |-> [status |-> {"PENDING", "SYNCED"}]]

LimitSchema ==
  [rates |-> [threshold |-> {"some"}, enabled |-> OnOff,
              action |-> {"BLOCK", "TARPIT", "CAPTCHA"}],
   bots  |-> [action |-> {"ALLOW", "LOG", "CHALLENGE", "BLOCK"}]]

Schema ==
  [coll \in DOMAIN PolicySchema \cup DOMAIN ListSchema \cup DOMAIN LimitSchema |->
     IF coll \in DOMAIN PolicySchema THEN PolicySchema[coll]
     ELSE IF coll \in DOMAIN ListSchema THEN ListSchema[coll] ELSE LimitSchema[coll]]

Colls == DOMAIN Schema
RowCells(coll, row) == {coll} \X {row} \X DOMAIN Schema[coll]
CollCells(coll) == {coll} \X Rows[coll] \X DOMAIN Schema[coll]
Cells == UNION {CollCells(coll) : coll \in Colls}
FieldValues(coll) == UNION {Schema[coll][f] : f \in DOMAIN Schema[coll]}
AllFieldValues == UNION {FieldValues(coll) : coll \in Colls}
Values == AllFieldValues \cup {Gone, Blank, Zero}

\* What each page asks for when it is mounted; the page shows these
\* collections.  The rules page also asks for the sites to pick the first.
Loads ==
  [dashboard |-> <<"nodes">>, fleet |-> <<"nodes">>,
   rules |-> <<"crs", "rules", "sites">>, rates |-> <<"rates">>, bots |-> <<"bots">>,
   exceptions |-> <<"exceptions">>, settings |-> <<"ips", "feeds">>, logs |-> <<>>]

LoadSlots == 1..3
PickSlot == 4
Slots == LoadSlots \cup {PickSlot} \cup ClickSlots

PageColls(p) == {Loads[p][i] : i \in DOMAIN Loads[p]}
PageCells == [p \in Pages |-> UNION {CollCells(coll) : coll \in PageColls(p)}]

\* What the Log Explorer shows before its first answer, by what the filters
\* look at.
MockLogs ==
  <<[rules |-> <<942100>>, action |-> "DENY", host |-> "api"],
    [rules |-> <<941100>>, action |-> "DENY", host |-> "shop"],
    [rules |-> <<930100>>, action |-> "DENY", host |-> "api"],
    [rules |-> <<942430>>, action |-> "LOG", host |-> "api"],
    [rules |-> <<942100, 900001>>, action |-> "DENY", host |-> "shop"]>>

ASSUME ConsoleAssumption ==
  /\ Rows \in [Colls -> SUBSET Nat]
  /\ 900003 \in Rows["rules"] /\ Rows["sites"] # {} /\ Texts # {}
  /\ Seed \in [Cells -> Values] /\ Mocks \in [Cells -> Values]
  /\ ClickSlots \subseteq Nat /\ ClickSlots \cap 1..4 = {}
  /\ LogSeed \in Seq(LogEntries) /\ Len(LogSeed) <= LogCap /\ LogCap \in Nat
  /\ MockLogs \in Seq(LogEntries)
  /\ {MaxEvents, MaxTyped} \subseteq Nat /\ MaxSteps \in [Pages -> Nat]

Has(f, coll, row) == \A c \in RowCells(coll, row) : f[c] # Gone

\* Rows of f are whole or gone; no field is empty, and no number that is required is 0.
WellFormed(f) ==
  /\ \A coll \in Colls : \A row \in Rows[coll] :
       Has(f, coll, row) \/ \A c \in RowCells(coll, row) : f[c] = Gone
  /\ \A c \in Cells : f[c] \notin {Blank, Zero}

\* So are the seed and the mock rows, and the console is shipped with a mock of
\* every site: no route adds or removes one.
ASSUME SeedAssumption ==
  /\ WellFormed(Seed) /\ WellFormed(Mocks)
  /\ {Gone, Blank, Zero} \cap (Texts \cup Levels) = {}
  /\ \A row \in Rows["sites"] : Has(Mocks, "sites", row)

VARIABLES server,    \* the control plane's store
          log, all,  \* its audit log, as AuditLog has it
          page,      \* the page that is open
          shown,     \* the collections in the page's state
          flight,    \* requests in flight
          stale,     \* cells written without reading them again
          orderly,   \* no overlap, failure or other administrator so far
          ui,        \* the rest of the page's state
          spent      \* how much of each bound a behaviour has used

vars == <<server, log, all, page, shown, flight, stale, orderly, ui, spent>>

Audit == INSTANCE AuditLog WITH Entries <- LogEntries, Seeded <- LogSeed, Cap <- LogCap

Sync == INSTANCE PageSync

-------------------------------------------------------------------------------
(* Requests *)

Conflict(r, q) ==
  /\ r.cells \cap q.cells # {}
  /\ {r.kind, q.kind} \cap {"edit", "mutate", "blind"} # {}

Clear(r, s) == \A t \in Slots \ {s} : ~Conflict(r, flight[t])

\* coll is the collection a request is about, site the answer getSites gives
\* the tuning panel, rows the one getLogs gives, done whether the server has
\* carried the request out and the network has not lost the answer.
NoSite == [row |-> 0]

Request(kind, op, coll, cells, vals) ==
  [kind |-> kind, cells |-> cells, vals |-> vals, stage |-> "sent", mine |-> TRUE,
   op |-> op, coll |-> coll, site |-> NoSite, rows |-> <<>>, done |-> FALSE]

Nothing == [c \in {} |-> c]
Free == Request("free", "none", "none", {}, Nothing)
Load(op, coll) ==
  Request("read", op, coll, CollCells(coll), [c \in CollCells(coll) |-> Gone])
Pick == Request("blind", "pick", "sites", {}, Nothing)
LogQuery == Request("blind", "logs", "none", {}, Nothing)

\* A request about some fields of one row.
RowRequest(kind, op, coll, row, fields) ==
  Request(kind, op, coll, {<<coll, row, f>> : f \in DOMAIN fields},
          [c \in {<<coll, row, f>> : f \in DOMAIN fields} |-> fields[c[3]]])

\* A request to add a row: the server chooses its id, so that it is about
\* every row of the collection.
AddRequest(kind, op, coll, fields) ==
  Request(kind, op, coll, CollCells(coll), [c \in CollCells(coll) |-> fields[c[3]]])

\* The requests a page sends when it is mounted, beside the writes the last
\* page left on their way to the server; the answers of its reads are ignored.
Mounted(p, left) ==
  [s \in Slots |->
     IF s \in DOMAIN Loads[p] THEN Load("load", Loads[p][s])
     ELSE IF s = PickSlot /\ p = "rules" THEN Pick
     ELSE IF s = PickSlot /\ p = "logs" THEN LogQuery
     ELSE IF s \in ClickSlots THEN left[s] ELSE Free]

\* mutant: the answers to a page that is gone are still taken.
OrphanKept(r) == r

Orphan(r) ==
  IF r.kind \in {"edit", "mutate", "blind"} /\ r.stage = "sent" /\ r.cells # {}
  THEN [r EXCEPT !.mine = FALSE] ELSE Free

Busy(s) == flight[s].kind # "free"

-------------------------------------------------------------------------------
(* The page's own state *)

RowsIn(f, coll) == {row \in Rows[coll] : Has(f, coll, row)}
SiteOf(f, row) == [row |-> row, tuning |-> f[<<"sites", row, "tuning">>]]

NoRule == [id |-> 0]
NoEntry == [rules |-> <<>>, action |-> "none", host |-> "none"]
EmptyRule == CHOOSE t \in Texts : TRUE

\* mutant: no site is selected before the first answer.
FreshUiNoSite ==
  [site |-> NoSite, editing |-> NoRule, modal |-> FALSE, toast |-> "none", timers |-> 0,
   rows |-> MockLogs, filters |-> Audit!NoFilter, selected |-> NoEntry]

\* site is the tuning panel's copy, editing the rule in the editor (id 0 is a
\* rule not saved yet), modal the form that is open, rows what the Log Explorer
\* filters (the mock rows until the log is there)
\* and selected the transaction in its drawer.
FreshUi ==
  [site |-> SiteOf(Mocks, CHOOSE row \in Rows["sites"] : \A r \in Rows["sites"] : row <= r),
   editing |-> NoRule, modal |-> FALSE, toast |-> "none", timers |-> 0,
   rows |-> MockLogs, filters |-> Audit!NoFilter, selected |-> NoEntry]

NoEditor == ui.editing = NoRule

\* useToast: show the message, and hide whatever is shown three seconds later.
Toasted(u, how) == [u EXCEPT !.toast = how, !.timers = @ + 1]

-------------------------------------------------------------------------------
(* Sending *)

FreeSlots == {s \in ClickSlots : ~Busy(s)}
FirstFree == CHOOSE s \in FreeSlots : \A t \in FreeSlots : s <= t

\* A behaviour has at most MaxSteps clicks and events that are no handler's
\* doing (a bound for each page), of which MaxEvents events, and MaxTyped
\* changes typed into a form.
Click ==
  /\ spent.clicks + spent.events < MaxSteps[page]
  /\ spent' = [spent EXCEPT !.clicks = @ + 1]

Event ==
  /\ spent.clicks + spent.events < MaxSteps[page] /\ spent.events < MaxEvents
  /\ spent' = [spent EXCEPT !.events = @ + 1]

Type == spent.typed < MaxTyped /\ spent' = [spent EXCEPT !.typed = @ + 1]

\* A handler that only changes the page's state.
Local(u) ==
  /\ ui' = u
  /\ UNCHANGED <<log, all, server, page, shown, flight, stale, orderly>>

\* A click that sends a request; an edit is shown before it is sent.
Post(r) ==
  /\ Click /\ FreeSlots # {}
  /\ flight' = [flight EXCEPT ![FirstFree] = r]
  /\ orderly' = (orderly /\ Clear(r, FirstFree))
  /\ shown' = IF r.kind = "edit"
              THEN [c \in Cells |-> IF c \in r.cells THEN r.vals[c] ELSE shown[c]]
              ELSE shown
  /\ UNCHANGED <<log, all, server, page, stale, ui>>

-------------------------------------------------------------------------------
(* Click handlers: the rules page *)

ToggleCategory(row) ==
  /\ page = "rules" /\ Has(shown, "crs", row)
  /\ \E v \in OnOff \ {shown[<<"crs", row, "enabled">>]} :
       Post(RowRequest("edit", "toast", "crs", row, [enabled |-> v]))

\* The panel's copy comes from the list of sites loaded with the page.
SelectSite(row) ==
  /\ page = "rules" /\ Has(shown, "sites", row)
  /\ Click /\ Local([ui EXCEPT !.site = SiteOf(shown, row)])

\* The slider and the two number fields, of which any may change.
MoveSlider(v) ==
  /\ page = "rules" /\ v # ui.site.tuning
  /\ Click /\ Local([ui EXCEPT !.site.tuning = v])

\* The list of sites is not loaded again after a save.
SavePolicy ==
  /\ page = "rules"
  /\ Post(RowRequest("blind", "toast", "sites", ui.site.row,
                     [tuning |-> ui.site.tuning]))

ToggleRule(row) ==
  /\ page = "rules" /\ Has(shown, "rules", row)
  /\ \E v \in OnOff \ {shown[<<"rules", row, "active">>]} :
       Post(RowRequest("edit", "toast", "rules", row, [active |-> v]))

OpenEditor(rule) ==
  /\ page = "rules"
  /\ Click /\ Local([ui EXCEPT !.editing = rule])

NewRule ==
  OpenEditor([id |-> 0, rule |-> 900003, name |-> EmptyRule, seclang |-> EmptyRule,
              active |-> "on"])

EditRule(row) ==
  /\ Has(shown, "rules", row)
  /\ OpenEditor([id |-> row, rule |-> row, name |-> shown[<<"rules", row, "name">>],
                 seclang |-> shown[<<"rules", row, "seclang">>],
                 active |-> shown[<<"rules", row, "active">>]])

TypeRule(field, v) ==
  /\ ~NoEditor /\ v # ui.editing[field]
  /\ Type /\ Local([ui EXCEPT !.editing[field] = v])

CloseEditor == ~NoEditor /\ Click /\ Local([ui EXCEPT !.editing = NoRule])

\* The result is shown in the editor and changes nothing else.
RunSandbox ==
  /\ ~NoEditor
  /\ Post(Request("blind", "sandbox", "none", {}, Nothing))

\* Update the rule when the page shows it, else create it under the typed
\* number.  The visual builder writes a body of its own.
SaveRule(seclang) ==
  /\ ~NoEditor
  /\ LET e == ui.editing IN
     IF e.id \in RowsIn(shown, "rules")
     THEN Post(RowRequest("mutate", "updateRule", "rules", e.id,
                 [name |-> e.name, seclang |-> seclang, active |-> e.active]))
     ELSE Post(RowRequest("mutate", "createRule", "rules", e.rule,
                 [name |-> e.name, seclang |-> seclang, active |-> e.active]))

SaveCode == ~NoEditor /\ SaveRule(ui.editing.seclang)
SaveVisual == \E t \in Texts : SaveRule(t)

\* Bins of the rules, exceptions and settings pages.
DeleteRow(p, coll, row) ==
  /\ page = p /\ Has(shown, coll, row)
  /\ Post(Request("mutate", "delete", coll, RowCells(coll, row),
                  [c \in RowCells(coll, row) |-> Gone]))

DeleteRule(row) == DeleteRow("rules", "rules", row)
Revoke(row) == DeleteRow("exceptions", "exceptions", row)
DeleteIp(row) == DeleteRow("settings", "ips", row)

-------------------------------------------------------------------------------
(* Click handlers: the other pages *)

SetRate(row, field, v) ==
  /\ page = "rates" /\ Has(shown, "rates", row) /\ v # shown[<<"rates", row, field>>]
  /\ Post(RowRequest("edit", "toast", "rates", row, [f \in {field} |-> v]))

SetRateAction(row, v) == SetRate(row, "action", v)
ToggleRate(row, v) == SetRate(row, "enabled", v)

\* The quick form sends whatever threshold is typed, and no action.
QuickAdd(threshold) ==
  /\ page = "rates"
  /\ Post(AddRequest("mutate", "add", "rates",
                     [threshold |-> threshold, enabled |-> "on", action |-> "BLOCK"]))

OpenForm ==
  /\ page \in {"rates", "exceptions", "fleet"} /\ ~ui.modal
  /\ Click /\ Local([ui EXCEPT !.modal = TRUE])

CloseForm == ui.modal /\ Click /\ Local([ui EXCEPT !.modal = FALSE])

\* A form whose required field is empty is not sent.
AddRate(action) ==
  /\ page = "rates" /\ ui.modal
  /\ Post(AddRequest("mutate", "addForm", "rates",
                     [threshold |-> "some", enabled |-> "on", action |-> action]))

\* The form asks for a path, not for a rule.
CreateException(rule) ==
  /\ page = "exceptions" /\ ui.modal
  /\ Post(AddRequest("mutate", "addForm", "exceptions", [rule |-> rule]))

RegisterNode ==
  /\ page = "fleet" /\ ui.modal
  /\ Post(AddRequest("mutate", "addForm", "nodes", [status |-> "ONLINE"]))

RefreshNodes == page = "fleet" /\ Post(Load("load", "nodes"))

SetBotAction(row, v) ==
  /\ page = "bots" /\ Has(shown, "bots", row) /\ v # shown[<<"bots", row, "action">>]
  /\ Post(RowRequest("edit", "toast", "bots", row, [action |-> v]))

AddIp(list) ==
  /\ page = "settings"
  /\ Post(AddRequest("mutate", "add", "ips", [list |-> list]))

ImportFeed ==
  /\ page = "settings"
  /\ Post(AddRequest("mutate", "add", "feeds", [status |-> "PENDING"]))

RefreshFeed(row) ==
  /\ page = "settings" /\ Has(shown, "feeds", row)
  /\ Post(RowRequest("mutate", "refreshFeed", "feeds", row, [status |-> "SYNCED"]))

ExportPolicy == page = "settings" /\ Post(Request("blind", "toast", "none", {}, Nothing))

\* Set one filter of the Log Explorer, or take its chip away.
FilterValues ==
  [rule |-> RuleQueries \cup {Audit!NoFilter.rule}, action |-> {"DENY", "LOG", "ALLOW", "any"},
   host |-> {"api", "shop", "any"}]

SetFilter(field, v) ==
  /\ page = "logs" /\ ui.selected = NoEntry /\ v # ui.filters[field]
  /\ Type /\ Local([ui EXCEPT !.filters[field] = v])

\* Open a row in the drawer, which covers the table, or close it.  The drawer
\* keeps its own copy of the entry.
SelectLog(entry) ==
  /\ page = "logs" /\ ui.selected = NoEntry
  /\ \E i \in DOMAIN Audit!Filtered(ui.rows, ui.filters) :
       entry = Audit!Filtered(ui.rows, ui.filters)[i]
  /\ Click /\ Local([ui EXCEPT !.selected = entry])

CloseDrawer == ui.selected # NoEntry /\ Click /\ Local([ui EXCEPT !.selected = NoEntry])

\* From the drawer: an exception for the rule, or a block for the client.
OfLogEntry(coll, fields) ==
  /\ ui.selected # NoEntry
  /\ Post(AddRequest("blind", "add", coll, fields))

\* The rule is the first that matched, if one did.
ExceptionOfLog ==
  OfLogEntry("exceptions", [rule |-> IF ui.selected.rules = <<>> THEN Zero ELSE "some"])

BlockClient == OfLogEntry("ips", [list |-> "block"])

\* Follow a link of the sidebar: the page is mounted afresh, and the answers
\* to the last page's requests find no component.
Visit(p) ==
  /\ Event
  /\ page' = p
  /\ shown' = Mocks
  /\ flight' = Mounted(p, [s \in ClickSlots |-> Orphan(flight[s])])
  /\ stale' = {}
  /\ orderly' = (\A s \in ClickSlots : flight'[s] = Free)
  /\ ui' = FreshUi
  /\ UNCHANGED <<log, all, server>>

-------------------------------------------------------------------------------
(* The control plane and the proxy in front of it *)

\* The route handler builds its response from the body it has read, and a
\* response with a body, even an empty one, cannot have status 204: the
\* constructor throws, and the `catch' answers 502 in its place.
NullBody(r) == r.op = "delete"

\* The server carries request s out and its answer passes the proxy.
Carry(s, new) ==
  LET r == flight[s] IN
  /\ server' = new
  /\ flight' = [flight EXCEPT ![s] =
       [r EXCEPT !.done = TRUE,
                 !.stage = IF NullBody(r) THEN "failed" ELSE "answered",
                 !.vals = IF r.kind = "read" THEN [c \in r.cells |-> server[c]] ELSE @]]
  /\ orderly' = (orderly /\ ~NullBody(r))
  /\ UNCHANGED <<log, all, page, shown, stale, ui, spent>>

\* The server answers 400 or 404.
Refuse(s) ==
  /\ flight' = [flight EXCEPT ![s].stage = "failed"]
  /\ orderly' = FALSE
  /\ UNCHANGED <<log, all, server, page, shown, stale, ui, spent>>

Sent(s, ops) == Busy(s) /\ flight[s].stage = "sent" /\ flight[s].op \in ops

Written(vals) ==
  [c \in Cells |-> IF c \in DOMAIN vals THEN vals[c] ELSE server[c]]

RowOf(r) == (CHOOSE c \in r.cells : TRUE)[2]

\* GET handlers, the sandbox and the export change nothing.
HandleQuery(s) ==
  /\ Sent(s, {"load", "sandbox", "toast"}) /\ (flight[s].kind = "read" \/ flight[s].cells = {})
  /\ Carry(s, server)

\* getSites for the tuning panel: its first entry is any one, because the
\* store lists a map.
HandlePick(s) ==
  /\ Sent(s, {"pick"})
  /\ \E row \in RowsIn(server, "sites") :
       /\ flight' = [flight EXCEPT ![s].stage = "answered", ![s].done = TRUE,
                                   ![s].site = SiteOf(server, row)]
       /\ UNCHANGED <<log, all, server, page, shown, stale, orderly, ui, spent>>

\* getLogs, without parameters; listLogs applies them to a copy of the log.
HandleLogs(s) ==
  /\ Sent(s, {"logs"})
  /\ flight' = [flight EXCEPT ![s].stage = "answered", ![s].done = TRUE, ![s].rows = log]
  /\ UNCHANGED <<log, all, server, page, shown, stale, orderly, ui, spent>>

\* Edges report transactions, time and again.  Bound: only while the page that
\* shows them is open, in batches of one or two.
Ingest(batch) ==
  /\ page = "logs"
  /\ spent.clicks + spent.events < MaxSteps[page]
  /\ spent' = [spent EXCEPT !.events = @ + 1]
  /\ Audit!Ingest(batch)
  /\ UNCHANGED <<server, page, shown, flight, stale, orderly, ui>>

Batches == [1..1 -> LogEntries] \cup [1..2 -> LogEntries]

\* mutant: a row that is gone is not looked up before it is patched.
HandlePatchUnchecked(s) ==
  LET r == flight[s] IN
  /\ Sent(s, {"toast", "refreshFeed"}) /\ r.kind # "read" /\ r.cells # {}
  /\ Carry(s, Written(r.vals))

\* toggleCrs, updateRule with is_active alone, updateRateLimit, updateBot,
\* updateSite and refreshFeed: 404 when the row is gone.
HandlePatch(s) ==
  LET r == flight[s] IN
  /\ Sent(s, {"toast", "refreshFeed"}) /\ r.kind # "read" /\ r.cells # {}
  /\ IF Has(server, r.coll, RowOf(r)) THEN Carry(s, Written(r.vals)) ELSE Refuse(s)

\* updateRule from the editor: an empty name or body is left as it is.
HandleUpdateRule(s) ==
  LET r == flight[s] IN
  /\ Sent(s, {"updateRule"})
  /\ IF Has(server, r.coll, RowOf(r))
     THEN Carry(s, [c \in Cells |-> IF c \in r.cells /\ r.vals[c] # Blank
                                    THEN r.vals[c] ELSE server[c]])
     ELSE Refuse(s)

\* createRule: the key is the number, so that a rule of that number is
\* replaced; a new rule is active whatever the editor says.
HandleCreateRule(s) ==
  LET r == flight[s] IN
  /\ Sent(s, {"createRule"})
  /\ IF \E c \in r.cells : r.vals[c] = Blank
     THEN Refuse(s)
     ELSE Carry(s, [Written(r.vals) EXCEPT ![<<"rules", RowOf(r), "active">>] = "on"])

HandleDelete(s) ==
  LET r == flight[s] IN
  /\ Sent(s, {"delete"})
  /\ IF Has(server, r.coll, RowOf(r)) THEN Carry(s, Written(r.vals)) ELSE Refuse(s)

\* Ids count the rows (a deletion makes a number come back and the next row
\* replace one); a node's id is the time, never used before.
NewRows(coll) ==
  LET held == RowsIn(server, coll) IN
  IF coll = "nodes"
  THEN {row \in Rows[coll] \ held : \A r \in Rows[coll] \ held : row <= r}
  ELSE {Cardinality(held) + 1} \cap Rows[coll]

\* addIp, importFeed and registerNode; addRateLimit asks for a limit and
\* createException for a rule.
HandleAdd(s) ==
  LET r == flight[s] IN
  /\ Sent(s, {"add", "addForm"})
  /\ IF \E c \in r.cells : r.vals[c] = Zero
     THEN Refuse(s)
     ELSE \E row \in NewRows(r.coll) :
            Carry(s, Written([c \in RowCells(r.coll, row) |-> r.vals[c]]))

\* The proxy cannot reach the control plane, or loses its answer: 502.
Lose(s) ==
  /\ Event
  /\ Busy(s) /\ flight[s].stage # "failed"
  /\ flight' = [flight EXCEPT ![s].stage = "failed", ![s].done = FALSE]
  /\ orderly' = FALSE
  /\ UNCHANGED <<log, all, server, page, shown, stale, ui>>

\* Another administrator edits a field or deletes a row.
Elsewhere ==
  /\ Event
  /\ \E coll \in PageColls(page) : \E row \in RowsIn(server, coll) :
       \/ \E c \in RowCells(coll, row) : \E v \in Schema[coll][c[3]] \ {server[c]} :
            server' = [server EXCEPT ![c] = v]
       \/ /\ coll \in {"rules", "rates", "exceptions", "ips", "feeds"}
          /\ server' = Written([c \in RowCells(coll, row) |-> Gone])
  /\ orderly' = FALSE
  /\ UNCHANGED <<log, all, page, shown, flight, stale, ui>>

-------------------------------------------------------------------------------
(* Answers *)

\* What `.then' does to the page's state beside showing or asking for rows.
Told(u, r) ==
  CASE r.op \in {"toast", "add"} -> Toasted(u, "ok")
    [] r.op = "addForm" -> [Toasted(u, "ok") EXCEPT !.modal = FALSE]
    [] r.op \in {"createRule", "updateRule"} -> [Toasted(u, "ok") EXCEPT !.editing = NoRule]
    [] r.op = "pick" -> [u EXCEPT !.site = r.site]
    [] r.op = "logs" -> [u EXCEPT !.rows = r.rows]
    [] OTHER -> u

\* mutant: a message about a failure stays.
WarnedForever(u, r) ==
  IF r.op \in {"load", "pick", "logs"} THEN u ELSE [u EXCEPT !.toast = "failed"]

\* What `.catch' does: failed reads are ignored, failed calls raise a toast.
Warned(u, r) == IF r.op \in {"load", "pick", "logs"} THEN u ELSE Toasted(u, "failed")

Awaited(s, stage) == Busy(s) /\ flight[s].mine /\ flight[s].stage = stage

DeliverRead(s) ==
  LET r == flight[s] IN
  /\ Awaited(s, "answered") /\ r.kind = "read"
  /\ shown' = [c \in Cells |-> IF c \in r.cells THEN r.vals[c] ELSE shown[c]]
  /\ flight' = [flight EXCEPT ![s] = Free]
  /\ UNCHANGED <<log, all, server, page, stale, orderly, ui, spent>>

\* mutant: the collection is not loaded again after a change.
DeliverMutateUnread(s) ==
  /\ Awaited(s, "answered") /\ flight[s].kind = "mutate"
  /\ ui' = Told(ui, flight[s])
  /\ flight' = [flight EXCEPT ![s] = Free]
  /\ UNCHANGED <<log, all, server, page, shown, stale, orderly, spent>>

\* A mutation that succeeded: the page asks for the collection again.
DeliverMutate(s) ==
  LET again == Load("load", flight[s].coll) IN
  /\ Awaited(s, "answered") /\ flight[s].kind = "mutate"
  /\ ui' = Told(ui, flight[s])
  /\ flight' = [flight EXCEPT ![s] = again]
  /\ orderly' = (orderly /\ Clear(again, s))
  /\ UNCHANGED <<log, all, server, page, shown, stale, spent>>

\* Any other call that succeeded.
DeliverOther(s) ==
  LET r == flight[s] IN
  /\ Awaited(s, "answered") /\ r.kind \in {"edit", "blind"}
  /\ ui' = Told(ui, r)
  /\ stale' = IF r.kind = "blind" THEN stale \cup r.cells ELSE stale
  /\ flight' = [flight EXCEPT ![s] = Free]
  /\ UNCHANGED <<log, all, server, page, shown, orderly, spent>>

DeliverFailure(s) ==
  /\ Awaited(s, "failed")
  /\ ui' = Warned(ui, flight[s])
  /\ flight' = [flight EXCEPT ![s] = Free]
  /\ UNCHANGED <<log, all, server, page, shown, stale, orderly, spent>>

\* The answer to a page that is gone.
Ignore(s) ==
  /\ Busy(s) /\ ~flight[s].mine /\ flight[s].stage # "sent"
  /\ flight' = [flight EXCEPT ![s] = Free]
  /\ UNCHANGED <<log, all, server, page, shown, stale, orderly, ui, spent>>

\* A timer of useToast fires: it clears the message, whichever it is.
ToastTimeout ==
  /\ ui.timers > 0
  /\ ui' = [ui EXCEPT !.toast = "none", !.timers = @ - 1]
  /\ UNCHANGED <<log, all, server, page, shown, flight, stale, orderly, spent>>

-------------------------------------------------------------------------------
Init ==
  /\ server = Seed
  /\ Audit!Init
  /\ page \in Pages
  /\ shown = Mocks
  /\ flight = Mounted(page, [s \in ClickSlots |-> Free])
  /\ stale = {}
  /\ orderly = TRUE
  /\ ui = FreshUi
  /\ spent = [clicks |-> 0, typed |-> 0, events |-> 0]

RulesPage ==
  \/ \E row \in Rows["crs"] : ToggleCategory(row)
  \/ \E row \in Rows["sites"] : SelectSite(row)
  \/ \E v \in Levels : MoveSlider(v)
  \/ SavePolicy
  \/ \E row \in Rows["rules"] : ToggleRule(row) \/ EditRule(row) \/ DeleteRule(row)
  \/ NewRule \/ CloseEditor \/ RunSandbox \/ SaveCode \/ SaveVisual
  \/ \E f \in {"name", "seclang"}, v \in Texts \cup {Blank} : TypeRule(f, v)
  \/ \E row \in Rows["rules"] : TypeRule("rule", row)

OtherPages ==
  \/ \E row \in Rows["rates"] :
       \/ \E v \in Schema["rates"]["action"] : SetRateAction(row, v)
       \/ \E v \in OnOff : ToggleRate(row, v)
  \/ \E threshold \in {Zero, "some"} : QuickAdd(threshold)
  \/ \E action \in Schema["rates"]["action"] : AddRate(action)
  \/ \E row \in Rows["bots"], v \in Schema["bots"]["action"] : SetBotAction(row, v)
  \/ OpenForm \/ CloseForm \/ RegisterNode \/ RefreshNodes
  \/ \E rule \in {Zero, "some"} : CreateException(rule)
  \/ \E row \in Rows["exceptions"] : Revoke(row)
  \/ \E row \in Rows["ips"] : DeleteIp(row)
  \/ \E list \in {"allow", "block"} : AddIp(list)
  \/ ImportFeed \/ ExportPolicy
  \/ \E entry \in LogEntries : SelectLog(entry)
  \/ CloseDrawer \/ ExceptionOfLog \/ BlockClient
  \/ \E row \in Rows["feeds"] : RefreshFeed(row)
  \/ \E field \in DOMAIN FilterValues : \E v \in FilterValues[field] : SetFilter(field, v)

ControlPlane ==
  \E s \in Slots :
    \/ HandleQuery(s) \/ HandlePick(s) \/ HandleLogs(s) \/ HandlePatch(s) \/ HandleUpdateRule(s)
    \/ HandleCreateRule(s) \/ HandleDelete(s) \/ HandleAdd(s) \/ Lose(s)

Answers ==
  \E s \in Slots :
    \/ DeliverRead(s) \/ DeliverMutate(s) \/ DeliverOther(s)
    \/ DeliverFailure(s) \/ Ignore(s)

Next ==
  \/ RulesPage \/ OtherPages
  \/ \E p \in Pages : Visit(p)
  \/ \E batch \in Batches : Ingest(batch)
  \/ ControlPlane \/ Answers \/ ToastTimeout \/ Elsewhere

Spec == Init /\ [][Next]_vars

-------------------------------------------------------------------------------
(* Properties *)

\* Every variable holds a value of its kind.
TypeOK ==
  /\ server \in [Cells -> Values]
  /\ page \in Pages
  /\ shown \in [Cells -> Values]
  /\ Sync!IsFlight(flight)
  /\ stale \subseteq Cells
  /\ orderly \in BOOLEAN
  /\ ui.site.row \in Rows["sites"] /\ ui.site.tuning \in Values
  /\ Audit!TypeOK
  /\ ui.rows \in Seq(LogEntries) /\ ui.selected \in LogEntries \cup {NoEntry}
  /\ \A field \in DOMAIN FilterValues : ui.filters[field] \in FilterValues[field]
  /\ ui.toast \in {"none", "ok", "failed"} /\ ui.timers \in Nat

\* A page that waits for nothing, whose requests about one cell never
\* overlapped nor failed, and beside which nobody worked, shows what the
\* control plane holds, save for what the page wrote without loading it again
\* (rules/page.tsx:74, the list of sites).
Settled == Sync!Settled

\* No sequence of clicks and calls leaves the control plane with half a row
\* (a late PATCH of a deleted row), with a rule whose name or body is empty
\* (the editor lets both be cleared), with a limit of no requests or with an
\* exception for no rule (the quick form, the exceptions form and the drawer
\* send them).
RowsWellFormed == WellFormed(server)

\* A message on the screen always has a timer left that will take it away,
\* although each timer clears whatever message it finds (ui.tsx:13).
ToastGoesAway == ui.toast # "none" => ui.timers > 0

\* Whatever the edges report, the log holds the newest entries in order.
LogKeepsNewest == Audit!KeepsNewest

Filters ==
  [rule: FilterValues.rule, action: FilterValues.action, host: FilterValues.host]

\* Two filters are written twice, in the page and in the control plane
\* (logs/page.tsx:29-39, router.go:268-289): whatever is filtered for, the page
\* shows of its rows exactly those the control plane would have answered with,
\* in the same order.
FiltersAgree ==
  page = "logs" =>
    \A f \in Filters : Audit!Filtered(ui.rows, f) = Audit!ListLogs(ui.rows, f)

\* The tab behaves as PageSync allows: no handler shows, sends, loads or
\* forgets rows in another way.
SyncSpec == Sync!Spec

\* What route.ts:3-4 says of the proxy, "forwards any method + body reliably":
\* a call the control plane has carried out and the network has not lost is
\* not answered as failed.
ForwardsReliably ==
  \A s \in Slots : ~(flight[s].stage = "failed" /\ flight[s].done)
===============================================================================
