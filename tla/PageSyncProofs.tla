---------------------------- MODULE PageSyncProofs ----------------------------
(***************************************************************************)
(* Proofs about PageSync: its types, and that a page on which all was      *)
(* orderly and which waits for nothing shows what the server holds.        *)
(*                                                                         *)
(* Settled speaks of a page at rest.  What is true on the way there is in  *)
(* OrderlyInv: a cell that is not shown as the server holds it is on its   *)
(* way, in a request nothing in flight interferes with.                    *)
(***************************************************************************)
EXTENDS PageSync, TLAPS

\* The constants are of their kinds: what a page shows are cells, and before
\* its first answer it shows values.
Kinded == PageCells \in [Pages -> SUBSET Cells] /\ Mocks \in [Cells -> Values]

-------------------------------------------------------------------------------
(* Requests *)

\* Replacing the request in one slot leaves the flight well formed.
LEMMA FlightUpdate ==
  ASSUME NEW s \in Slots, IsFlight(flight),
         flight' = [flight EXCEPT ![s] = flight'[s]], IsRequest(flight'[s])
  PROVE  IsFlight(flight') /\ \A t \in Slots \ {s} : flight'[t] = flight[t]
<1>1. \A t \in Slots : flight'[t] = IF t = s THEN flight'[s] ELSE flight[t]
  BY DEF IsFlight
<1>2. flight' = [t \in Slots |-> flight'[t]]
  BY DEF IsFlight
<1>3. \A t \in Slots : IsRequest(flight'[t])
  BY <1>1 DEF IsFlight
<1> QED
  BY <1>1, <1>2, <1>3 DEF IsFlight

\* A request that advances is still one, if its values are.
LEMMA AdvanceKeepsFlight ==
  ASSUME NEW s \in Slots, IsFlight(flight), Advances(s),
         flight'[s].stage \in {"sent", "answered", "failed"},
         flight'[s].vals \in [flight[s].cells -> Values]
  PROVE  IsFlight(flight') /\ \A t \in Slots \ {s} : flight'[t] = flight[t]
<1>1. IsRequest(flight[s])
  BY DEF IsFlight
<1>2. IsRequest(flight'[s])
  BY <1>1 DEF Advances, IsRequest
<1> QED
  BY <1>2, FlightUpdate DEF Advances

\* Writing a request's values to its cells gives a value to every cell.
LEMMA UpdateType ==
  ASSUME NEW f \in [Cells -> Values], NEW r, IsRequest(r)
  PROVE  /\ Update(f, r.vals) \in [Cells -> Values]
         /\ \A c \in Cells : Update(f, r.vals)[c] = IF c \in r.cells THEN r.vals[c] ELSE f[c]
  BY DEF Update, IsRequest

-------------------------------------------------------------------------------
(* Types *)

LEMMA InitTypeOK == Kinded /\ Init => TypeOK
  BY DEF Kinded, Init, Opens, TypeOK

LEMMA NextTypeOK == Kinded /\ TypeOK /\ [Next]_vars => TypeOK'
<1> SUFFICES ASSUME Kinded, TypeOK, [Next]_vars PROVE TypeOK'
  OBVIOUS
<1>r. \A s \in Slots : IsRequest(flight[s])
  BY DEF TypeOK, IsFlight
<1>1. CASE Visit
  <2>1. orderly' \in BOOLEAN
    BY <1>1 DEF Visit, NoWrites
  <2> QED
    BY <1>1, <2>1 DEF Visit, Opens, TypeOK, Kinded
<1>2. ASSUME NEW s \in Slots, Send(s) PROVE TypeOK'
  <2>1. IsFlight(flight')
    BY <1>2, FlightUpdate DEF Send, TypeOK
  <2>2. IsRequest(flight'[s])
    BY <1>2 DEF Send
  <2>3. Update(shown, flight'[s].vals) \in [Cells -> Values]
    BY <2>2, UpdateType DEF TypeOK
  <2>4. shown' \in [Cells -> Values]
    BY <1>2, <2>3 DEF Send, TypeOK
  <2>5. orderly' \in BOOLEAN
    BY <1>2 DEF Send, TypeOK, Clear
  <2> QED
    BY <1>2, <2>1, <2>4, <2>5 DEF Send, TypeOK
<1>3. ASSUME NEW s \in Slots, Process(s) PROVE TypeOK'
  <2>1. flight'[s].vals \in [flight[s].cells -> Values]
    BY <1>3, <1>r DEF Process, Part, TypeOK, IsRequest
  <2>2. IsFlight(flight')
    BY <1>3, <2>1, AdvanceKeepsFlight DEF Process, TypeOK
  <2> QED
    BY <1>3, <2>2 DEF Process, TypeOK
<1>4. ASSUME NEW s \in Slots, Fail(s) PROVE TypeOK'
  <2>1. flight'[s].vals \in [flight[s].cells -> Values]
    BY <1>4, <1>r DEF Fail, TypeOK, IsRequest
  <2>2. IsFlight(flight')
    BY <1>4, <2>1, AdvanceKeepsFlight DEF Fail, TypeOK
  <2> QED
    BY <1>4, <2>2 DEF Fail, TypeOK
<1>5. ASSUME NEW s \in Slots, Reread(s) PROVE TypeOK'
  <2>1. IsFlight(flight')
    BY <1>5, FlightUpdate DEF Reread, TypeOK
  <2>2. orderly' \in BOOLEAN
    BY <1>5 DEF Reread, TypeOK, Clear
  <2> QED
    BY <1>5, <2>1, <2>2 DEF Reread, TypeOK
<1>6. ASSUME NEW s \in Slots, Close(s) PROVE TypeOK'
  <2>1. IsFlight(flight')
    BY <1>6, FlightUpdate DEF Close, TypeOK
  <2>2. Update(shown, flight[s].vals) \in [Cells -> Values]
    BY <1>r, UpdateType DEF TypeOK
  <2>4. shown' \in [Cells -> Values]
    BY <1>6, <2>2 DEF Close, TypeOK
  <2>3. stale' \subseteq Cells
    BY <1>6, <1>r DEF Close, TypeOK, IsRequest
  <2> QED
    BY <1>6, <2>1, <2>4, <2>3 DEF Close, TypeOK
<1>7. CASE Elsewhere
  BY <1>7 DEF Elsewhere, TypeOK
<1>8. CASE UNCHANGED vars
  BY <1>8 DEF vars, TypeOK
<1> QED
  BY <1>1, <1>2, <1>3, <1>4, <1>5, <1>6, <1>7, <1>8 DEF Next

\* Whatever the pages, cells, values and slots, every variable keeps its kind.
THEOREM PageTypeCorrect == ASSUME Kinded PROVE Spec => []TypeOK
<1>1. Init => TypeOK
  BY InitTypeOK
<1>2. TypeOK /\ [Next]_vars => TypeOK'
  BY NextTypeOK
<1> QED
  BY <1>1, <1>2, PTL DEF Spec

-------------------------------------------------------------------------------
(* Orderly pages *)

Apart == \A s \in Slots : \A t \in Slots \ {s} : ~Conflict(flight[s], flight[t])

\* No request of this page has failed, and every write is this page's.
Whole ==
  \A s \in Slots :
    /\ Busy(s) /\ flight[s].mine => flight[s].stage # "failed"
    /\ Writes(flight[s]) /\ flight[s].cells # {} => flight[s].mine

\* An answer on its way to this page holds what the server holds.
AnswersTrue ==
  \A s \in Slots :
    Answered(s) /\ flight[s].kind = "read" =>
      \A c \in flight[s].cells : flight[s].vals[c] = server[c]

\* An edit is shown, and once it is answered the server holds it.
EditsShown ==
  \A s \in Slots :
    flight[s].kind = "edit" /\ flight[s].mine =>
      \A c \in flight[s].cells :
        /\ shown[c] = flight[s].vals[c]
        /\ flight[s].stage = "answered" => server[c] = flight[s].vals[c]

\* Whether the request in slot s will bring cell c up to date.
Covers(s, c) ==
  /\ c \in flight[s].cells /\ flight[s].mine
  /\ \/ flight[s].kind \in {"read", "mutate", "blind"}
     \/ flight[s].kind = "edit" /\ flight[s].stage = "sent"

Covered ==
  \A c \in PageCells[page] \ stale :
    shown[c] = server[c] \/ \E s \in Slots : Covers(s, c)

OrderlyInv == orderly => Apart /\ Whole /\ AnswersTrue /\ EditsShown /\ Covered

\* Conflicts have no direction.
LEMMA ConflictSymmetric ==
  ASSUME NEW r, NEW q, Conflict(r, q) PROVE Conflict(q, r)
  BY DEF Conflict

\* Two requests, of which one writes a cell of the other, are the same if no
\* two are in conflict.
LEMMA ApartSame ==
  ASSUME Apart, NEW s \in Slots, NEW t \in Slots, NEW c,
         c \in flight[s].cells, c \in flight[t].cells,
         flight[s].kind # "free", flight[t].kind # "free", Writes(flight[s])
  PROVE  s = t
  BY DEF Apart, Conflict

\* Where pages open, nothing that can be in conflict is in flight.
LEMMA OpenedInv ==
  ASSUME NEW p \in Pages, Opens(p, flight), NoWrites(flight), page = p, stale = {}
  PROVE  Apart /\ Whole /\ AnswersTrue /\ EditsShown /\ Covered
<1>1. Apart
  BY DEF Apart, Conflict, NoWrites
<1>2. Whole
  BY DEF Whole, NoWrites, Opens
<1>3. AnswersTrue /\ EditsShown
  BY DEF AnswersTrue, EditsShown, Answered, Opens
<1>4. Covered
  BY DEF Covered, Covers, Opens
<1> QED
  BY <1>1, <1>2, <1>3, <1>4

LEMMA InitOrderly == Kinded /\ Init => OrderlyInv
  BY OpenedInv DEF Init, OrderlyInv

LEMMA VisitOrderly == Kinded /\ TypeOK /\ Visit => OrderlyInv'
<1> SUFFICES ASSUME Kinded, TypeOK, Visit, orderly'
             PROVE  (Apart /\ Whole /\ AnswersTrue /\ EditsShown /\ Covered)'
  BY DEF OrderlyInv
<1>1. Opens(page', flight') /\ NoWrites(flight') /\ stale' = {} /\ page' \in Pages
  BY DEF Visit
<1>2. Apart'
  BY <1>1 DEF Apart, Conflict, NoWrites
<1>3. Whole'
  BY <1>1 DEF Whole, NoWrites, Opens, Busy
<1>4. AnswersTrue' /\ EditsShown'
  BY <1>1 DEF AnswersTrue, EditsShown, Answered, Opens
<1>5. Covered'
  BY <1>1 DEF Covered, Covers, Opens
<1> QED
  BY <1>2, <1>3, <1>4, <1>5

\* Sending: the request is in conflict with none, an edit is shown.
LEMMA SendOrderly ==
  ASSUME Kinded, TypeOK, OrderlyInv, NEW s \in Slots, Send(s) PROVE OrderlyInv'
<1> SUFFICES ASSUME orderly' PROVE (Apart /\ Whole /\ AnswersTrue /\ EditsShown /\ Covered)'
  BY DEF OrderlyInv
<1>1. orderly /\ Clear(flight'[s], s) /\ Apart /\ Whole /\ AnswersTrue /\ EditsShown /\ Covered
  BY DEF Send, OrderlyInv
<1>2. \A t \in Slots \ {s} : flight'[t] = flight[t]
  BY FlightUpdate DEF Send, TypeOK
<1>3. IsRequest(flight'[s]) /\ flight'[s].stage = "sent" /\ flight'[s].mine
  BY DEF Send
<1>4. Apart'
  BY <1>1, <1>2, ConflictSymmetric DEF Apart, Clear
<1>5. Whole'
  BY <1>1, <1>2, <1>3 DEF Whole, Writes, Busy
<1>6. AnswersTrue'
  BY <1>1, <1>2, <1>3 DEF AnswersTrue, Answered, Send
<1>7. \A c \in Cells : shown'[c] =
        IF flight'[s].kind = "edit" /\ c \in flight'[s].cells THEN flight'[s].vals[c] ELSE shown[c]
  BY <1>3, UpdateType DEF Send, TypeOK
<1>8. \A t \in Slots : flight'[t].cells \subseteq Cells
  BY <1>2, <1>3 DEF TypeOK, IsFlight, IsRequest
<1>9. EditsShown'
  <2> SUFFICES ASSUME NEW t \in Slots, flight'[t].kind = "edit", flight'[t].mine,
                      NEW c \in flight'[t].cells
               PROVE  /\ shown'[c] = flight'[t].vals[c]
                      /\ flight'[t].stage = "answered" => server'[c] = flight'[t].vals[c]
    BY DEF EditsShown
  <2>1. CASE t = s
    BY <2>1, <1>3, <1>7, <1>8
  <2>2. CASE t # s
    <3>1. flight'[s].kind = "edit" => c \notin flight'[s].cells
      BY <2>2, <1>1, <1>2 DEF Clear, Conflict, Writes
    <3>2. shown'[c] = shown[c] /\ server'[c] = server[c]
      BY <3>1, <1>7, <1>8 DEF Send
    <3> QED
      BY <2>2, <3>2, <1>1, <1>2 DEF EditsShown
  <2> QED
    BY <2>1, <2>2
<1>10. Covered'
  <2> SUFFICES ASSUME NEW c \in PageCells[page] \ stale,
                      shown'[c] # server[c]
               PROVE  \E t \in Slots : Covers(t, c)'
    BY DEF Covered, Send
  <2>1. CASE \E t \in Slots : Covers(t, c)
    <3>1. PICK t \in Slots : Covers(t, c)
      BY <2>1
    <3>2. t # s
      BY <3>1 DEF Send, Covers, Busy
    <3> QED
      BY <3>1, <3>2, <1>2 DEF Covers
  <2>2. CASE shown[c] = server[c]
    <3>1. c \in Cells
      BY DEF Kinded, TypeOK
    <3>2. flight'[s].kind = "edit" /\ c \in flight'[s].cells
      BY <3>1, <2>2, <1>7
    <3> QED
      BY <3>2, <1>3 DEF Covers
  <2> QED
    BY <2>1, <2>2, <1>1 DEF Covered
<1> QED
  BY <1>4, <1>5, <1>6, <1>9, <1>10

\* The server changes only cells the request is about, which no other request
\* in flight reads or edits; a read answers what the server holds.
LEMMA ProcessOrderly ==
  ASSUME Kinded, TypeOK, OrderlyInv, NEW s \in Slots, Process(s) PROVE OrderlyInv'
<1> SUFFICES ASSUME orderly' PROVE (Apart /\ Whole /\ AnswersTrue /\ EditsShown /\ Covered)'
  BY DEF OrderlyInv
<1>1. orderly /\ Apart /\ Whole /\ AnswersTrue /\ EditsShown /\ Covered
  BY DEF Process, OrderlyInv
<1>r. IsRequest(flight[s])
  BY DEF TypeOK, IsFlight
<1>2. \A t \in Slots \ {s} : flight'[t] = flight[t]
  BY DEF Process, Advances, TypeOK, IsFlight
<1>3. /\ flight'[s].kind = flight[s].kind /\ flight'[s].cells = flight[s].cells
      /\ flight'[s].mine = flight[s].mine /\ flight'[s].stage = "answered"
      /\ flight[s].stage = "sent" /\ flight[s].kind # "free"
  BY DEF Process, Advances, Busy
<1>4. Apart'
  BY <1>1, <1>2, <1>3 DEF Apart, Conflict, Writes
<1>5. Whole'
  BY <1>1, <1>2, <1>3 DEF Whole, Writes, Busy
<1>6. \A t \in Slots : flight[t].cells \subseteq Cells
  BY DEF TypeOK, IsFlight, IsRequest
<1>7. \A t \in Slots \ {s} : \A c \in flight[t].cells :
        flight[t].kind \in {"read", "edit"} => server'[c] = server[c]
  <2> SUFFICES ASSUME NEW t \in Slots \ {s}, NEW c \in flight[t].cells,
                      flight[t].kind \in {"read", "edit"}, server'[c] # server[c]
               PROVE  FALSE
    OBVIOUS
  <2>1. c \in flight[s].cells /\ flight[s].kind # "read"
    BY <1>6 DEF Process
  <2>2. Writes(flight[s])
    BY <2>1, <1>3, <1>r DEF Writes, IsRequest, Kinds
  <2> QED
    BY <2>1, <2>2, <1>1, <1>3, ApartSame
<1>8. AnswersTrue'
  <2> SUFFICES ASSUME NEW t \in Slots, Answered(t)', flight'[t].kind = "read",
                      NEW c \in flight'[t].cells
               PROVE  flight'[t].vals[c] = server'[c]
    BY DEF AnswersTrue
  <2>1. CASE t = s
    BY <2>1, <1>3 DEF Process, Part
  <2>2. CASE t # s
    BY <2>2, <1>1, <1>2, <1>7 DEF AnswersTrue, Answered
  <2> QED
    BY <2>1, <2>2
<1>9. flight[s].kind = "edit" =>
        \A c \in flight[s].cells : server'[c] = flight[s].vals[c] /\ flight'[s].vals = flight[s].vals
  BY <1>r, <1>6, UpdateType DEF Process, TypeOK
<1>10. EditsShown'
  <2> SUFFICES ASSUME NEW t \in Slots, flight'[t].kind = "edit", flight'[t].mine,
                      NEW c \in flight'[t].cells
               PROVE  /\ shown[c] = flight'[t].vals[c]
                      /\ flight'[t].stage = "answered" => server'[c] = flight'[t].vals[c]
    BY DEF EditsShown, Process
  <2>1. CASE t = s
    BY <2>1, <1>1, <1>3, <1>9 DEF EditsShown
  <2>2. CASE t # s
    BY <2>2, <1>1, <1>2, <1>7 DEF EditsShown
  <2> QED
    BY <2>1, <2>2
<1>11. Covered'
  <2> SUFFICES ASSUME NEW c \in PageCells[page] \ stale, shown[c] # server'[c]
               PROVE  \E t \in Slots : Covers(t, c)'
    BY DEF Covered, Process
  <2>1. c \in Cells
    BY DEF Kinded, TypeOK
  <2>2. ASSUME NEW t \in Slots, Covers(t, c) PROVE Covers(t, c)'
    <3>1. CASE t = s
      <4>1. flight[s].kind # "edit"
        BY <2>2, <3>1, <1>1, <1>9 DEF Covers, EditsShown
      <4> QED
        BY <2>2, <3>1, <4>1, <1>3 DEF Covers
    <3>2. CASE t # s
      BY <2>2, <3>2, <1>2 DEF Covers
    <3> QED
      BY <3>1, <3>2
  <2>3. CASE shown[c] = server[c]
    <3>1. c \in flight[s].cells /\ flight[s].kind # "read"
      BY <2>1, <2>3 DEF Process
    <3>2. Writes(flight[s])
      BY <3>1, <1>3, <1>r DEF Writes, IsRequest, Kinds
    <3>3. flight[s].mine
      BY <3>1, <3>2, <1>1 DEF Whole
    <3>4. flight[s].kind # "edit"
      BY <3>1, <3>3, <1>1, <1>9 DEF EditsShown
    <3> QED
      BY <3>1, <3>2, <3>3, <3>4, <1>3 DEF Covers, Writes
  <2> QED
    BY <2>2, <2>3, <1>1 DEF Covered
<1> QED
  BY <1>4, <1>5, <1>8, <1>10, <1>11

\* Reading again: the read stands where the write stood.
LEMMA RereadOrderly ==
  ASSUME TypeOK, OrderlyInv, NEW s \in Slots, Reread(s) PROVE OrderlyInv'
<1> SUFFICES ASSUME orderly' PROVE (Apart /\ Whole /\ AnswersTrue /\ EditsShown /\ Covered)'
  BY DEF OrderlyInv
<1>1. orderly /\ Clear(flight'[s], s) /\ Apart /\ Whole /\ AnswersTrue /\ EditsShown /\ Covered
  BY DEF Reread, OrderlyInv
<1>2. \A t \in Slots \ {s} : flight'[t] = flight[t]
  BY FlightUpdate DEF Reread, TypeOK
<1>3. /\ flight'[s].stage = "sent" /\ flight'[s].mine /\ flight'[s].kind = "read"
      /\ flight[s].cells \subseteq flight'[s].cells
  BY DEF Reread
<1>4. Apart'
  BY <1>1, <1>2, ConflictSymmetric DEF Apart, Clear
<1>5. Whole'
  BY <1>1, <1>2, <1>3 DEF Whole, Writes, Busy
<1>6. AnswersTrue'
  BY <1>1, <1>2, <1>3 DEF AnswersTrue, Answered, Reread
<1>7. EditsShown'
  BY <1>1, <1>2, <1>3 DEF EditsShown, Reread
<1>8. Covered'
  <2>1. \A t \in Slots : \A c : Covers(t, c) => Covers(t, c)'
    BY <1>2, <1>3 DEF Covers
  <2> QED
    BY <2>1, <1>1 DEF Covered, Reread
<1> QED
  BY <1>4, <1>5, <1>6, <1>7, <1>8

\* Closing: what the request was to bring up to date is, or is stale.
LEMMA CloseOrderly ==
  ASSUME Kinded, TypeOK, OrderlyInv, NEW s \in Slots, Close(s) PROVE OrderlyInv'
<1> SUFFICES ASSUME orderly' PROVE (Apart /\ Whole /\ AnswersTrue /\ EditsShown /\ Covered)'
  BY DEF OrderlyInv
<1>1. orderly /\ Apart /\ Whole /\ AnswersTrue /\ EditsShown /\ Covered
  BY DEF Close, OrderlyInv
<1>r. IsRequest(flight[s])
  BY DEF TypeOK, IsFlight
<1>2. \A t \in Slots \ {s} : flight'[t] = flight[t]
  BY FlightUpdate DEF Close, TypeOK
<1>3. flight'[s].kind = "free" /\ flight[s].kind # "free" /\ flight[s].stage # "sent"
  BY DEF Close, Busy
<1>4. Apart'
  BY <1>1, <1>2, <1>3 DEF Apart, Conflict
<1>5. Whole'
  BY <1>1, <1>2, <1>3 DEF Whole, Writes, Busy
<1>6. AnswersTrue'
  BY <1>1, <1>2, <1>3 DEF AnswersTrue, Answered, Close
<1>7. ASSUME NEW c \in Cells
      PROVE  shown'[c] = IF Answered(s) /\ flight[s].kind = "read" /\ c \in flight[s].cells
                         THEN server[c] ELSE shown[c]
  <2>1. Update(shown, flight[s].vals)[c] = IF c \in flight[s].cells THEN flight[s].vals[c] ELSE shown[c]
    BY <1>r, UpdateType DEF TypeOK
  <2> QED
    BY <2>1, <1>1 DEF Close, AnswersTrue
<1>8. EditsShown'
  <2> SUFFICES ASSUME NEW t \in Slots, flight'[t].kind = "edit", flight'[t].mine,
                      NEW c \in flight'[t].cells
               PROVE  /\ shown'[c] = flight'[t].vals[c]
                      /\ flight'[t].stage = "answered" => server[c] = flight'[t].vals[c]
    BY DEF EditsShown, Close
  <2>1. t # s /\ flight'[t] = flight[t]
    BY <1>2, <1>3
  <2>2. c \in Cells
    BY <2>1 DEF TypeOK, IsFlight, IsRequest
  <2>3. c \notin flight[s].cells
    BY <2>1, <1>1, <1>3, ApartSame DEF Writes
  <2> QED
    BY <2>1, <2>2, <2>3, <1>1, <1>7 DEF EditsShown
<1>9. Covered'
  <2> SUFFICES ASSUME NEW c \in PageCells[page] \ stale', shown'[c] # server[c]
               PROVE  \E t \in Slots : Covers(t, c)'
    BY DEF Covered, Close
  <2>1. c \in Cells /\ c \in PageCells[page] \ stale
    BY DEF Kinded, TypeOK, Close
  <2>2. shown[c] # server[c] /\ shown'[c] = shown[c]
    BY <2>1, <1>7
  <2>3. PICK t \in Slots : Covers(t, c)
    BY <2>1, <2>2, <1>1 DEF Covered
  <2>4. t # s
    <3> SUFFICES ASSUME Covers(s, c) PROVE FALSE
      BY <2>3
    <3>1. Answered(s)
      BY <1>1, <1>3, <1>r DEF Covers, Whole, Answered, Busy, IsRequest
    <3>2. flight[s].kind # "read"
      BY <3>1, <2>1, <1>7 DEF Covers
    <3>3. flight[s].kind # "blind"
      BY <3>1 DEF Close, Covers
    <3> QED
      BY <3>1, <3>2, <3>3, <1>3 DEF Close, Covers
  <2> QED
    BY <2>3, <2>4, <1>2 DEF Covers
<1> QED
  BY <1>4, <1>5, <1>6, <1>8, <1>9

LEMMA NextOrderly == Kinded /\ TypeOK /\ OrderlyInv /\ [Next]_vars => OrderlyInv'
<1> SUFFICES ASSUME Kinded, TypeOK, OrderlyInv, [Next]_vars PROVE OrderlyInv'
  OBVIOUS
<1>1. CASE Visit
  BY <1>1, VisitOrderly
<1>2. ASSUME NEW s \in Slots, Send(s) PROVE OrderlyInv'
  BY <1>2, SendOrderly
<1>3. ASSUME NEW s \in Slots, Process(s) PROVE OrderlyInv'
  BY <1>3, ProcessOrderly
<1>4. ASSUME NEW s \in Slots, Fail(s) PROVE OrderlyInv'
  BY <1>4 DEF Fail, OrderlyInv
<1>5. ASSUME NEW s \in Slots, Reread(s) PROVE OrderlyInv'
  BY <1>5, RereadOrderly
<1>6. ASSUME NEW s \in Slots, Close(s) PROVE OrderlyInv'
  BY <1>6, CloseOrderly
<1>7. CASE Elsewhere
  BY <1>7 DEF Elsewhere, OrderlyInv
<1>8. CASE UNCHANGED vars
  BY <1>8 DEF vars, OrderlyInv, Apart, Whole, AnswersTrue, EditsShown, Covered,
              Covers, Answered, Busy
<1> QED
  BY <1>1, <1>2, <1>3, <1>4, <1>5, <1>6, <1>7, <1>8 DEF Next

\* At rest nothing is on its way, so that every cell is up to date or stale.
LEMMA RestSettled == OrderlyInv => Settled
  BY DEF OrderlyInv, Settled, Covered, Covers, Busy

\* Requests overtake each other as they like: a page on which no two about one
\* cell met, nothing failed and nobody else intervened ends at what the server
\* holds.
THEOREM PageSettles == ASSUME Kinded PROVE Spec => []Settled
<1>1. Init => TypeOK /\ OrderlyInv
  BY InitTypeOK, InitOrderly
<1>2. TypeOK /\ OrderlyInv /\ [Next]_vars => (TypeOK /\ OrderlyInv)'
  BY NextTypeOK, NextOrderly
<1>3. OrderlyInv => Settled
  BY RestSettled
<1> QED
  BY <1>1, <1>2, <1>3, PTL DEF Spec
===============================================================================
