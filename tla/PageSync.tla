------------------------------- MODULE PageSync -------------------------------
(***************************************************************************)
(* What a page of the console promises about the rows it shows.            *)
(*                                                                         *)
(* The server holds a value in every cell (one field of one row of one     *)
(* collection); a page shows a copy of the cells it loads.  The page talks *)
(* to the server only through requests in flight, which overtake each      *)
(* other freely: each is sent, handled by the server in one step, and its  *)
(* answer delivered.  Four kinds of request exist on every page:           *)
(*   read    the answer, a snapshot of some cells, replaces what is shown; *)
(*   edit    the new value is shown first and sent afterwards;             *)
(*   mutate  the server changes, and the page reads the cells again when   *)
(*           the answer arrives;                                           *)
(*   blind   the server changes cells the page does not read again.        *)
(*                                                                         *)
(* Nothing orders two requests, so a page shows the truth only as long as  *)
(* no two requests about the same cell overlapped, none failed and nobody  *)
(* else changed the policy: this is what `orderly' records, and Settled is *)
(* the promise.                                                            *)
(***************************************************************************)
EXTENDS Naturals

CONSTANTS Cells,      \* every field of every row the server can hold
          Values,     \* what a cell can hold, its row's absence included
          Slots,      \* places for requests in flight
          Pages,      \* the pages of the console
          PageCells,  \* the cells a page shows
          Mocks       \* what a page shows before its first answer

VARIABLES server,   \* what the server holds in each cell
          page,     \* the page that is open
          shown,    \* what the open page shows in each cell
          flight,   \* the requests in flight
          stale,    \* cells changed by a blind request since the page opened
          orderly   \* no overlap, failure or foreign change since it opened

vars == <<server, page, shown, flight, stale, orderly>>

Kinds == {"free", "read", "edit", "mutate", "blind"}

\* A request is a record with at least these fields; what else it carries is
\* the page's own business.
IsRequest(r) ==
  /\ r.kind \in Kinds
  /\ r.cells \subseteq Cells
  /\ r.vals \in [r.cells -> Values]
  /\ r.stage \in {"sent", "answered", "failed"}
  /\ r.mine \in BOOLEAN

IsFlight(fl) ==
  /\ fl = [s \in Slots |-> fl[s]]
  /\ \A s \in Slots : IsRequest(fl[s])

\* The values f gives to the cells of C, and f with the values of vals.
Part(f, C) == [c \in C |-> f[c]]

Update(f, vals) ==
  [c \in Cells |-> IF c \in DOMAIN vals THEN vals[c] ELSE f[c]]

Writes(r) == r.kind \in {"edit", "mutate", "blind"}

\* Two requests about one cell, at least one of which writes it.
Conflict(r, q) ==
  /\ r.kind # "free" /\ q.kind # "free"
  /\ r.cells \cap q.cells # {}
  /\ Writes(r) \/ Writes(q)

\* Whether request r, in slot s, is in conflict with no other in flight.
Clear(r, s) == \A t \in Slots \ {s} : ~Conflict(r, flight[t])

Busy(s) == flight[s].kind # "free"

\* Slot s, and no other, holds a request of the same kind about the same cells.
Advances(s) ==
  /\ flight' = [flight EXCEPT ![s] = flight'[s]]
  /\ flight'[s].kind = flight[s].kind
  /\ flight'[s].cells = flight[s].cells
  /\ flight'[s].mine = flight[s].mine

Answered(s) == flight[s].stage = "answered" /\ flight[s].mine

-------------------------------------------------------------------------------
TypeOK ==
  /\ server \in [Cells -> Values]
  /\ page \in Pages
  /\ shown \in [Cells -> Values]
  /\ IsFlight(flight)
  /\ stale \subseteq Cells
  /\ orderly \in BOOLEAN

NoWrites(fl) == \A s \in Slots : Writes(fl[s]) => fl[s].cells = {}

\* The requests in flight when page p opens: its own, which together ask for
\* every cell it shows, beside what the last page has left behind.
Opens(p, fl) ==
  /\ IsFlight(fl)
  /\ \A s \in Slots : fl[s].mine => fl[s].stage = "sent" /\ fl[s].kind \notin {"edit", "mutate"}
  /\ \A c \in PageCells[p] :
       \E s \in Slots : fl[s].kind = "read" /\ fl[s].mine /\ c \in fl[s].cells

Init ==
  /\ server \in [Cells -> Values]
  /\ page \in Pages
  /\ shown = Mocks
  /\ Opens(page, flight)
  /\ NoWrites(flight)
  /\ stale = {}
  /\ orderly = TRUE

\* Open another page.  The answers to the last one are ignored from now on,
\* but the writes it sent may still reach the server.
Visit ==
  /\ page' \in Pages
  /\ shown' = Mocks
  /\ Opens(page', flight')
  /\ stale' = {}
  /\ orderly' = NoWrites(flight')
  /\ UNCHANGED server

\* The page sends a request; an edit is shown at once.
Send(s) ==
  LET r == flight'[s] IN
  /\ ~Busy(s) /\ r.kind # "free"
  /\ IsRequest(r) /\ r.stage = "sent" /\ r.mine
  /\ flight' = [flight EXCEPT ![s] = flight'[s]]
  /\ shown' = IF r.kind = "edit" THEN Update(shown, r.vals) ELSE shown
  /\ orderly' = (orderly /\ Clear(r, s))
  /\ UNCHANGED <<server, page, stale>>

\* The server handles one request in one step: a read takes a snapshot, an
\* edit sets the cells it names, another write changes only its own cells.
Process(s) ==
  LET r == flight[s] IN
  /\ Busy(s) /\ r.stage = "sent" /\ flight'[s].stage = "answered"
  /\ server' \in [Cells -> Values]
  /\ \A c \in Cells \ r.cells : server'[c] = server[c]
  /\ r.kind = "read" => server' = server
  /\ r.kind = "edit" => server' = Update(server, r.vals)
  /\ Advances(s)
  /\ flight'[s].vals = IF r.kind = "read" THEN Part(server, r.cells) ELSE r.vals
  /\ UNCHANGED <<page, shown, stale, orderly>>

\* A request is refused by the server, or lost before or after its effect.
Fail(s) ==
  /\ Busy(s) /\ flight'[s].stage = "failed"
  /\ server' \in [Cells -> Values]
  /\ \A c \in Cells : server'[c] # server[c] => c \in flight[s].cells /\ Writes(flight[s])
  /\ orderly' = FALSE
  /\ Advances(s) /\ flight'[s].vals = flight[s].vals
  /\ UNCHANGED <<page, shown, stale>>

\* The answer to a write after which the page reads the cells again.
Reread(s) ==
  LET r == flight'[s] IN
  /\ Answered(s) /\ flight[s].kind = "mutate" /\ r.kind = "read"
  /\ IsRequest(r) /\ r.stage = "sent" /\ r.mine
  /\ flight' = [flight EXCEPT ![s] = flight'[s]]
  /\ flight[s].cells \subseteq r.cells
  /\ orderly' = (orderly /\ Clear(r, s))
  /\ UNCHANGED <<server, page, shown, stale>>

\* Any other answer: that of a read replaces what is shown, that of a blind
\* write leaves its cells stale, and a failure only raises a toast.
Close(s) ==
  LET r == flight[s] IN
  /\ Busy(s) /\ r.stage # "sent"
  /\ ~(Answered(s) /\ r.kind = "mutate")
  /\ flight'[s].kind = "free" /\ IsRequest(flight'[s])
  /\ flight' = [flight EXCEPT ![s] = flight'[s]]
  /\ shown' = IF Answered(s) /\ r.kind = "read" THEN Update(shown, r.vals) ELSE shown
  /\ stale' = IF Answered(s) /\ r.kind = "blind" THEN stale \cup r.cells ELSE stale
  /\ UNCHANGED <<server, page, orderly>>

\* Somebody else changes the policy.
Elsewhere ==
  /\ orderly' = FALSE
  /\ server' \in [Cells -> Values]
  /\ UNCHANGED <<page, shown, flight, stale>>

Next ==
  \/ Visit
  \/ \E s \in Slots : Send(s) \/ Process(s) \/ Fail(s) \/ Reread(s) \/ Close(s)
  \/ Elsewhere

Spec == Init /\ [][Next]_vars

-------------------------------------------------------------------------------
\* A page that is waiting for nothing, and on which no two requests about
\* one cell overlapped, nothing failed and nobody else intervened, shows
\* what the server holds, except in cells it changed without reading again.
Settled ==
  orderly /\ (\A s \in Slots : ~Busy(s)) =>
    \A c \in PageCells[page] \ stale : shown[c] = server[c]
===============================================================================
