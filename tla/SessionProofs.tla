----------------------------- MODULE SessionProofs -----------------------------
(***************************************************************************)
(* Proofs about Session, for any number of tabs, calls in flight and       *)
(* addresses: its types, that a token cleared stays cleared, and that a    *)
(* rename neither signs the user out nor in.                               *)
(***************************************************************************)
EXTENDS Session, LeastNumber, TLAPS

-------------------------------------------------------------------------------
(* Places for calls *)

\* A call is sent in a place that was free.
LEMMA SentSomewhere ==
  ASSUME NEW c, Send(c)
  PROVE  \E k \in Idle : calls' = [calls EXCEPT ![k] = c]
<1> DEFINE k == CHOOSE s \in Idle : \A r \in Idle : s <= r
<1>1. Idle # {} /\ Idle \subseteq Nat
  BY SessionAssumption DEF Send, Idle
<1>2. \E s \in Idle : \A r \in Idle : s <= r
  BY <1>1, LeastExists
<1>3. k \in Idle
  BY <1>2
<1>4. calls' = [calls EXCEPT ![k] = c]
  BY DEF Send
<1> QED
  BY <1>3, <1>4

-------------------------------------------------------------------------------
(* Types *)

LEMMA CallTypes ==
  ASSUME TypeOK
  PROVE  /\ NoCall \in CallType
         /\ GetToken \in Tokens \cup {NoToken}
         /\ \A t \in Tabs : \A op \in {"get", "login", "rename"} :
              \A tok \in Tokens \cup {NoToken} : \A e \in Emails : Call(t, op, tok, e) \in CallType
  BY SessionAssumption DEF NoCall, GetToken, Call, CallType, Ops, TypeOK

LEMMA SendType ==
  ASSUME TypeOK, NEW c \in CallType, Send(c)
  PROVE  calls' \in [Calls -> CallType] /\ smooth' \in BOOLEAN
<1>1. calls' \in [Calls -> CallType]
  BY SentSomewhere DEF TypeOK
<1>2. smooth' \in BOOLEAN
  BY DEF Send, TypeOK
<1> QED
  BY <1>1, <1>2

LEMMA AbandonedType ==
  ASSUME TypeOK, NEW t \in Tabs
  PROVE  Abandoned(t) \in [Calls -> CallType]
<1>1. \A s \in Calls : [calls[s] EXCEPT !.tab = Nobody] \in CallType
  BY DEF TypeOK, CallType
<1> QED
  BY <1>1, CallTypes DEF Abandoned, TypeOK

\* A tab begins or ends a write of the token.
LEMMA WriteTypes ==
  ASSUME TypeOK, NEW t \in Tabs, NEW op \in {"login", "rename", "clear"},
         NEW tok \in Tokens \cup {NoToken}
  PROVE  /\ [writing EXCEPT ![t] = Write(op, tok)] \in [Tabs -> WriteType]
         /\ [writing EXCEPT ![t] = NoWrite] \in [Tabs -> WriteType]
<1>1. Write(op, tok) \in WriteType /\ NoWrite \in WriteType
  BY DEF Write, NoWrite, WriteType
<1> QED
  BY <1>1 DEF TypeOK

LEMMA ClearType ==
  ASSUME TypeOK, NEW t \in Tabs, Clear(t)
  PROVE  /\ cookie' \in Tokens \cup {NoToken} /\ mirror' \in Tokens \cup {NoToken}
         /\ writing' \in [Tabs -> WriteType]
         /\ place' \in [Tabs -> Places]
         /\ out' \in BOOLEAN
<1>1. writing' \in [Tabs -> WriteType]
  BY WriteTypes DEF Clear, ClearToken
<1>2. out' \in BOOLEAN
  BY DEF Clear, Quiet, Settled, TypeOK
<1> QED
  BY <1>1, <1>2 DEF Clear, ClearToken, Leave, Places, TypeOK

LEMMA InitTypeOK == Init => TypeOK
<1> SUFFICES ASSUME Init PROVE TypeOK
  OBVIOUS
<1>1. cookie \in Tokens \cup {NoToken}
  BY SessionAssumption DEF Init, Tokens
<1>2. calls \in [Calls -> CallType]
  BY SessionAssumption DEF Init, NoCall, Call, CallType, Ops
<1>3. writing \in [Tabs -> WriteType]
  BY DEF Init, NoWrite, Write, WriteType
<1>4. signed \in BOOLEAN /\ out \in BOOLEAN /\ smooth \in BOOLEAN
  BY DEF Init
<1> QED
  BY <1>1, <1>2, <1>3, <1>4, SessionAssumption DEF Init, TypeOK, Places

LEMMA HandleType == ASSUME TypeOK, NEW s \in Calls, Handle(s) PROVE TypeOK'
<1> DEFINE c == calls[s]
<1>1. c \in CallType
  BY DEF TypeOK
<1>2. ASSUME NEW state \in {"ok", "refused"}, NEW tok \in Tokens \cup {NoToken},
             Answered(s, state, tok)
      PROVE  calls' \in [Calls -> CallType]
  <2>1. [c EXCEPT !.state = state, !.token = tok] \in CallType
    BY <1>1 DEF CallType
  <2>2. calls' = [calls EXCEPT ![s] = [c EXCEPT !.state = state, !.token = tok]]
    BY <1>2 DEF Answered, TypeOK
  <2> QED
    BY <2>1, <2>2 DEF TypeOK
<1>3. calls' \in [Calls -> CallType] /\ account' \in Emails
  <2>1. [email |-> account, day |-> today] \in Tokens /\ [email |-> Renamed(c), day |-> today] \in Tokens
    BY <1>1 DEF Tokens, Renamed, TypeOK, CallType
  <2>2. c.email \in Emails
    BY <1>1 DEF CallType
  <2> QED
    BY <1>2, <2>1, <2>2 DEF Handle, TypeOK
<1> QED
  BY <1>3 DEF Handle, KeepToken, ghosts, TypeOK

LEMMA NextTypeOK == TypeOK /\ [Next]_vars => TypeOK'
<1> SUFFICES ASSUME TypeOK, [Next]_vars PROVE TypeOK'
  OBVIOUS
<1>c. ASSUME NEW t, Click(t) PROVE spent' \in [clicks: Nat, faults: Nat]
  BY <1>c DEF Click, TypeOK
<1>f. Fault => spent' \in [clicks: Nat, faults: Nat] /\ smooth' = FALSE
  BY DEF Fault, TypeOK
<1>g. \A t \in Tabs : Call(t, "get", GetToken, DefaultEmail) \in CallType
  BY CallTypes, SessionAssumption
<1>1. ASSUME NEW t \in Tabs, NEW to \in {"to_login", "to_console"}, Open(t, to) PROVE TypeOK'
  BY <1>1, <1>c DEF Open, Leave, Places, KeepToken, ghosts, TypeOK
<1>2. ASSUME NEW t \in Tabs, Get(t) PROVE TypeOK'
  BY <1>2, <1>c, <1>g, SendType DEF Get, KeepToken, TypeOK
<1>3. ASSUME NEW t \in Tabs, NEW e \in Emails, Login(t, e) PROVE TypeOK'
  <2>1. Call(t, "login", NoToken, e) \in CallType
    BY CallTypes
  <2> QED
    BY <1>3, <1>c, <2>1, SendType DEF Login, KeepToken, TypeOK
<1>4. ASSUME NEW t \in Tabs, Logout(t) PROVE TypeOK'
  <2>1. smooth' \in BOOLEAN /\ signed' \in BOOLEAN
    BY <1>4 DEF Logout, Quiet, Settled, TypeOK
  <2> QED
    BY <1>4, <1>c, <2>1, ClearType DEF Logout, TypeOK
<1>5. ASSUME NEW t \in Tabs, NEW e \in Emails, Rename(t, e) PROVE TypeOK'
  <2>1. Call(t, "rename", GetToken, e) \in CallType
    BY CallTypes
  <2>2. out' \in BOOLEAN
    BY <1>5 DEF Rename, Settled, TypeOK
  <2> QED
    BY <1>5, <1>c, <2>1, <2>2, SendType DEF Rename, KeepToken, TypeOK
<1>6. ASSUME NEW t \in Tabs, Arrive(t) PROVE TypeOK'
  <2>1. place' \in [Tabs -> Places]
    BY <1>6 DEF Arrive, Guard, Places, TypeOK
  <2>2. smooth' \in BOOLEAN
    BY <1>6 DEF Arrive, TypeOK
  <2> QED
    BY <1>6, <2>1, <2>2, AbandonedType DEF Arrive, KeepToken, TypeOK
<1>7. ASSUME NEW t \in Tabs, Mount(t) PROVE TypeOK'
  BY <1>7, <1>g, SendType DEF Mount, Places, KeepToken, TypeOK
<1>8. ASSUME NEW t \in Tabs, WriteMirror(t) PROVE TypeOK'
  <2>1. mirror' \in Tokens \cup {NoToken}
    BY <1>8 DEF WriteMirror, WriteType, TypeOK
  <2>2. writing' \in [Tabs -> WriteType]
    BY <1>8, WriteTypes DEF WriteMirror
  <2>3. place' \in [Tabs -> Places]
    BY <1>8 DEF WriteMirror, Places, TypeOK
  <2> QED
    BY <1>8, <2>1, <2>2, <2>3 DEF WriteMirror, ghosts, TypeOK
<1>9. ASSUME NEW t \in Tabs, WriteFails(t) PROVE TypeOK'
  <2>1. writing' \in [Tabs -> WriteType]
    BY <1>9, WriteTypes DEF WriteFails
  <2> QED
    BY <1>9, <1>f, <2>1 DEF WriteFails, TypeOK
<1>10. ASSUME NEW s \in Calls, Handle(s) PROVE TypeOK'
  BY <1>10, HandleType
<1>11. ASSUME NEW s \in Calls, Lose(s) PROVE TypeOK'
  <2>1. calls' \in [Calls -> CallType]
    BY <1>11 DEF Lose, TypeOK, CallType
  <2> QED
    BY <1>11, <1>f, <2>1 DEF Lose, KeepToken, TypeOK
<1>12. ASSUME NEW s \in Calls, Deliver(s) PROVE TypeOK'
  <2>1. Done(s) => calls' \in [Calls -> CallType]
    BY CallTypes DEF Done, TypeOK
  <2>2. calls[s].token \in Tokens \cup {NoToken}
    BY DEF TypeOK, CallType
  <2>3. CASE DeliverUnauthorized(s)
    BY <2>3, <2>1, ClearType DEF DeliverUnauthorized, Arrived, TypeOK
  <2>4. ASSUME NEW op \in {"login", "rename"}, calls[s].tab \in Tabs,
               SetToken(calls[s].tab, op, calls[s].token)
        PROVE  /\ cookie' \in Tokens \cup {NoToken} /\ UNCHANGED mirror
               /\ writing' \in [Tabs -> WriteType]
    BY <2>2, <2>4, WriteTypes DEF SetToken
  <2>5. CASE DeliverLogin(s)
    BY <2>5, <2>1, <2>4 DEF DeliverLogin, Arrived, TypeOK
  <2>6. CASE DeliverRename(s)
    BY <2>6, <2>1, <2>4 DEF DeliverRename, Arrived, ghosts, TypeOK
  <2>7. CASE DeliverOther(s)
    BY <2>7, <2>1 DEF DeliverOther, KeepToken, ghosts, TypeOK
  <2> QED
    BY <1>12, <2>3, <2>5, <2>6, <2>7 DEF Deliver
<1>13. CASE Day
  <2>1. today \in Nat /\ today' = today + 1
    BY <1>13 DEF Day, TypeOK
  <2>2. today' \in Nat
    BY <2>1
  <2> QED
    BY <1>13, <2>2 DEF Day, KeepToken, TypeOK
<1>14. CASE CookieExpires
  BY <1>14 DEF CookieExpires, ghosts, TypeOK
<1>15. CASE Restart
  BY <1>15, <1>f, SessionAssumption DEF Restart, KeepToken, TypeOK
<1>16. CASE UNCHANGED vars
  BY <1>16 DEF vars, ghosts, TypeOK
<1> QED
  BY <1>1, <1>2, <1>3, <1>4, <1>5, <1>6, <1>7, <1>8, <1>9, <1>10, <1>11, <1>12, <1>13, <1>14,
     <1>15, <1>16
     DEF Next, User, System, Failure

\* Whatever the tabs, calls and addresses, every variable keeps its kind.
THEOREM SessionTypeCorrect == Spec => []TypeOK
<1>1. Init => TypeOK
  BY InitTypeOK
<1>2. TypeOK /\ [Next]_vars => TypeOK'
  BY NextTypeOK
<1> QED
  BY <1>1, <1>2, PTL DEF Spec

-------------------------------------------------------------------------------
(* A token cleared *)

\* After a logout that nothing overlapped the cookie is gone; the mirror is gone
\* or still to be removed; no other write is under way, no login, and no rename
\* that could be accepted.
OutInv ==
  out =>
    /\ cookie = NoToken
    /\ mirror = NoToken \/ ~Settled
    /\ \A t \in Tabs : Free(t) \/ writing[t] = Write("clear", NoToken)
    /\ \A s \in Calls :
         /\ calls[s].op # "login"
         /\ calls[s].op = "rename" => calls[s].token = NoToken /\ calls[s].state # "ok"

LEMMA OutSignedOut == OutInv => StaysSignedOut
  BY DEF OutInv, StaysSignedOut, GetToken

\* The first half of clearToken, whatever else is going on.
LEMMA ClearOut ==
  ASSUME TypeOK, OutInv, NEW t \in Tabs, Clear(t),
         \A s \in Calls : calls'[s].op # "none" => calls'[s] = calls[s]
  PROVE  OutInv'
<1>1. Write("clear", NoToken) # NoWrite
  BY DEF Write, NoWrite
<1>2. /\ writing'[t] = Write("clear", NoToken)
      /\ \A r \in Tabs \ {t} : writing'[r] = writing[r]
  BY DEF Clear, ClearToken, TypeOK
<1>3. ~Settled'
  BY <1>1, <1>2 DEF Settled
<1>4. ASSUME out'
      PROVE  /\ \A r \in Tabs : Free(r)' \/ writing'[r] = Write("clear", NoToken)
             /\ \A s \in Calls :
                  /\ calls'[s].op # "login"
                  /\ calls'[s].op = "rename" => calls'[s].token = NoToken /\ calls'[s].state # "ok"
  <2>1. CASE out
    BY <1>2, <2>1 DEF OutInv, Free
  <2>2. CASE Quiet /\ Settled
    BY <1>2, <2>2 DEF Quiet, TokenOps, Settled, Free
  <2> QED
    BY <1>4, <2>1, <2>2 DEF Clear
<1> QED
  BY <1>3, <1>4 DEF OutInv, Clear, ClearToken

\* A call that is sent to speak with no token, or to read.
LEMMA SendOut ==
  ASSUME TypeOK, OutInv, NEW c, Send(c), out' => out, KeepToken,
         out' => c.op = "get" \/ (c.op = "rename" /\ c.token = NoToken /\ c.state = "sent")
  PROVE  OutInv'
<1>1. PICK k \in Idle : calls' = [calls EXCEPT ![k] = c]
  BY SentSomewhere
<1>2. \A s \in Calls : calls'[s] = c \/ calls'[s] = calls[s]
  BY <1>1 DEF TypeOK
<1>3. UNCHANGED <<cookie, mirror, writing>>
  BY DEF KeepToken
<1> QED
  BY <1>2, <1>3 DEF OutInv, Settled, Free

\* A step that leaves the token alone and brings no answer to a login or a rename.
LEMMA RestOut ==
  ASSUME TypeOK, OutInv, KeepToken, out' => out,
         \A s \in Calls :
           \/ calls'[s].op \notin TokenOps
           \/ /\ calls'[s].op = calls[s].op /\ calls'[s].token = calls[s].token
              /\ calls'[s].state \in {calls[s].state, "lost"}
  PROVE  OutInv'
<1>1. UNCHANGED <<cookie, mirror, writing>>
  BY DEF KeepToken
<1> QED
  BY <1>1 DEF OutInv, Settled, Free, TokenOps

LEMMA NextOut == TypeOK /\ OutInv /\ [Next]_vars => OutInv'
<1> SUFFICES ASSUME TypeOK, OutInv, [Next]_vars PROVE OutInv'
  OBVIOUS
<1>1. ASSUME NEW t \in Tabs, NEW to, Open(t, to) PROVE OutInv'
  BY <1>1, RestOut DEF Open, ghosts, TokenOps
<1>2. ASSUME NEW t \in Tabs, Get(t) \/ Mount(t) PROVE OutInv'
  <2>1. Call(t, "get", GetToken, DefaultEmail).op = "get"
    BY DEF Call
  <2> QED
    BY <1>2, <2>1, SendOut DEF Get, Mount
<1>3. ASSUME NEW t \in Tabs, NEW e, Login(t, e) PROVE OutInv'
  BY <1>3 DEF Login, OutInv
<1>4. ASSUME NEW t \in Tabs, Logout(t) PROVE OutInv'
  BY <1>4, ClearOut DEF Logout
<1>5. ASSUME NEW t \in Tabs, NEW e, Rename(t, e) PROVE OutInv'
  <2>1. out' => out /\ GetToken = NoToken
    BY <1>5, OutSignedOut DEF Rename, StaysSignedOut
  <2>2. /\ Call(t, "rename", GetToken, e).op = "rename"
        /\ Call(t, "rename", GetToken, e).token = GetToken
        /\ Call(t, "rename", GetToken, e).state = "sent"
    BY DEF Call
  <2> QED
    BY <1>5, <2>1, <2>2, SendOut DEF Rename
<1>6. ASSUME NEW t \in Tabs, Arrive(t) PROVE OutInv'
  <2>1. \A s \in Calls :
          \/ calls'[s] \in {calls[s], NoCall}
          \/ calls'[s] = [calls[s] EXCEPT !.tab = Nobody]
    BY <1>6 DEF Arrive, Abandoned
  <2>2. \A s \in Calls :
          LET b == [calls[s] EXCEPT !.tab = Nobody]
          IN  b.op = calls[s].op /\ b.token = calls[s].token /\ b.state = calls[s].state
    BY DEF TypeOK, CallType
  <2>3. NoCall.op \notin TokenOps
    BY DEF NoCall, Call, TokenOps
  <2> QED
    BY <1>6, <2>1, <2>2, <2>3, RestOut DEF Arrive
<1>7. ASSUME NEW t \in Tabs, WriteMirror(t) PROVE OutInv'
  <2>1. /\ writing'[t] = NoWrite /\ mirror' = writing[t].token
        /\ \A r \in Tabs \ {t} : writing'[r] = writing[r]
    BY <1>7 DEF WriteMirror, TypeOK
  <2>2. out => mirror' = NoToken
    BY <1>7, <2>1 DEF WriteMirror, OutInv, Write
  <2> QED
    BY <1>7, <2>1, <2>2 DEF WriteMirror, ghosts, OutInv, Free
<1>8. ASSUME NEW t \in Tabs, WriteFails(t) PROVE OutInv'
  <2>1. ~out
    BY <1>8 DEF WriteFails, TokenOps, OutInv, Free, NoWrite, Write
  <2> QED
    BY <1>8, <2>1 DEF WriteFails, OutInv
<1>9. ASSUME NEW s \in Calls, Handle(s) PROVE OutInv'
  <2> DEFINE c == calls[s]
  <2>1. /\ UNCHANGED <<cookie, mirror, writing, out>>
        /\ \A r \in Calls \ {s} : calls'[r] = calls[r]
    BY <1>9 DEF Handle, Answered, KeepToken, ghosts, TypeOK
  <2>2. calls'[s].op = c.op
    BY <1>9 DEF Handle, Answered, TypeOK, CallType
  <2>3. ASSUME out, c.op = "rename" PROVE calls'[s].token = NoToken /\ calls'[s].state # "ok"
    <3>1. ~Accepted(c)
      BY <2>3 DEF OutInv, Accepted, Valid
    <3>2. Answered(s, "refused", NoToken)
      BY <1>9, <2>3, <3>1 DEF Handle
    <3> QED
      BY <3>2 DEF Answered, TypeOK, CallType
  <2> QED
    BY <2>1, <2>2, <2>3 DEF OutInv, Settled, Free
<1>10. ASSUME NEW s \in Calls, Lose(s) PROVE OutInv'
  <2>1. \A r \in Calls :
          /\ calls'[r].op = calls[r].op /\ calls'[r].token = calls[r].token
          /\ calls'[r].state \in {calls[r].state, "lost"}
    BY <1>10 DEF Lose, TypeOK, CallType
  <2> QED
    BY <1>10, <2>1, RestOut DEF Lose
<1>11. ASSUME NEW s \in Calls, Deliver(s) PROVE OutInv'
  <2>1. Done(s) => \A r \in Calls : calls'[r] \in {calls[r], NoCall}
    BY DEF Done, TypeOK
  <2>2. NoCall.op = "none"
    BY DEF NoCall, Call
  <2>3. CASE DeliverUnauthorized(s)
    BY <2>1, <2>2, <2>3, ClearOut DEF DeliverUnauthorized, Arrived
  <2>4. CASE DeliverLogin(s) \/ DeliverRename(s)
    <3>1. ~out
      BY <2>4 DEF DeliverLogin, DeliverRename, Arrived, OutInv
    <3> QED
      BY <2>4, <3>1 DEF DeliverLogin, DeliverRename, ghosts, OutInv
  <2>5. CASE DeliverOther(s)
    BY <2>1, <2>2, <2>5, RestOut DEF DeliverOther, ghosts, TokenOps
  <2> QED
    BY <1>11, <2>3, <2>4, <2>5 DEF Deliver
<1>12. CASE CookieExpires
  BY <1>12 DEF CookieExpires, ghosts, OutInv
<1>13. CASE Day \/ Restart
  BY <1>13, RestOut DEF Day, Restart
<1>14. CASE UNCHANGED vars
  BY <1>14 DEF vars, ghosts, OutInv, Settled, Free
<1> QED
  BY <1>1, <1>2, <1>3, <1>4, <1>5, <1>6, <1>7, <1>8, <1>9, <1>10, <1>11, <1>12, <1>13, <1>14
     DEF Next, User, System, Failure

\* A logout, or a read that was refused, that met no login and no rename leaves no
\* token in either place until the user logs in again: for any number of tabs and
\* calls in flight, whatever is lost, restarted or refused meanwhile.
THEOREM ClearedStaysCleared == Spec => []StaysSignedOut
<1>1. Init => TypeOK /\ OutInv
  BY InitTypeOK DEF Init, OutInv
<1>2. TypeOK /\ OutInv /\ [Next]_vars => (TypeOK /\ OutInv)'
  BY NextTypeOK, NextOut
<1>3. OutInv => StaysSignedOut
  BY OutSignedOut
<1> QED
  BY <1>1, <1>2, <1>3, PTL DEF Spec

-------------------------------------------------------------------------------
(* Renaming *)

\* A place that is free holds NoCall, and nothing else has its operation.
FreeInv == \A s \in Calls : calls[s].op = "none" => calls[s] = NoCall

\* On a smooth way no day has passed, and the copies of the token agree unless a
\* tab is between its two writes.
TodayInv == today = 0 /\ (Settled => mirror = cookie)

\* Every call in flight is awaited, and one that can bring a token is alone.
AloneInv ==
  /\ \A s \in Calls : calls[s].op # "none" => calls[s].tab \in Tabs /\ calls[s].state # "lost"
  /\ \A s \in Calls : \A r \in Calls \ {s} :
       calls[s].op \in TokenOps => calls[r].op = "none"

\* A mirror still to be written will hold what the cookie holds, which is nothing
\* if the user signed out; and no call in flight can bring another token.
WriteInv ==
  /\ \A t \in Tabs :
       ~Free(t) => writing[t].token = cookie /\ (signed \/ writing[t].token = NoToken)
  /\ Settled \/ Quiet

\* Whether a rename has been carried out whose answer is still on its way.
Renaming == \E s \in Calls : calls[s].op = "rename" /\ calls[s].state = "ok"

\* Otherwise the token kept is good exactly when the user is signed in.
KeptInv == ~Renaming => (signed <=> Valid(cookie))

\* The reads of a user who is signed in are not refused.
GetInv ==
  \A s \in Calls :
    signed /\ calls[s].op = "get" =>
      /\ calls[s].state # "refused"
      /\ calls[s].state = "sent" => Valid(calls[s].token)

\* A rename speaks with the token kept, and brings one that is good.
RenameInv ==
  \A s \in Calls :
    calls[s].op = "rename" =>
      /\ calls[s].state = "sent" => calls[s].token = cookie
      /\ calls[s].state = "ok" => signed /\ Valid(calls[s].token)

\* A login that is accepted brings a token that is good.
LoginInv ==
  \A s \in Calls : calls[s].op = "login" /\ calls[s].state = "ok" => Valid(calls[s].token)

CallsInv == GetInv /\ RenameInv /\ LoginInv

SmoothInv ==
  /\ FreeInv
  /\ smooth => TodayInv /\ AloneInv /\ WriteInv /\ KeptInv /\ CallsInv

LEMMA SmoothKept == SmoothInv => SessionKept
<1> SUFFICES ASSUME SmoothInv, smooth, Quiet, Settled
             PROVE  (signed <=> Valid(cookie)) /\ (signed <=> Valid(GetToken))
  BY DEF SessionKept
<1>1. ~Renaming
  BY DEF Quiet, Renaming, TokenOps
<1>2. signed <=> Valid(cookie)
  BY <1>1 DEF SmoothInv, KeptInv
<1>3. GetToken = cookie
  BY DEF SmoothInv, TodayInv, GetToken
<1> QED
  BY <1>2, <1>3

LEMMA InitSmooth == Init => SmoothInv
<1> SUFFICES ASSUME Init PROVE SmoothInv
  OBVIOUS
<1>1. \A s \in Calls : calls[s] = NoCall /\ calls[s].op = "none"
  BY DEF Init, NoCall, Call
<1>2. signed <=> Valid(cookie)
  <2>1. signed <=> cookie # NoToken
    BY DEF Init
  <2>2. cookie # NoToken => cookie.email = account /\ cookie.day = today
    BY DEF Init
  <2> QED
    BY <2>1, <2>2 DEF Valid
<1>3. WriteInv
  BY DEF Init, WriteInv, Settled, Free
<1>4. TodayInv /\ AloneInv /\ CallsInv
  BY <1>1 DEF Init, TodayInv, AloneInv, TokenOps, CallsInv, GetInv, RenameInv, LoginInv
<1> QED
  BY <1>1, <1>2, <1>3, <1>4 DEF SmoothInv, FreeInv, KeptInv

\* Sending a call changes one free place.
LEMMA SendSmooth ==
  ASSUME TypeOK, SmoothInv, NEW t \in Tabs, NEW op \in {"get", "login", "rename"},
         NEW tok, NEW e, Send(Call(t, op, tok, e)),
         op \in {"get", "rename"} => tok = GetToken,
         KeepToken, UNCHANGED <<account, today, signed>>
  PROVE  SmoothInv'
<1> DEFINE c == Call(t, op, tok, e)
<1>1. PICK k \in Idle : calls' = [calls EXCEPT ![k] = c]
  BY SentSomewhere
<1>2. k \in Calls /\ calls[k] = NoCall /\ calls[k].op = "none"
  BY DEF Idle, NoCall, Call
<1>3. calls'[k] = c /\ \A s \in Calls \ {k} : calls'[s] = calls[s]
  BY <1>1, <1>2 DEF TypeOK
<1>4. c.op = op /\ c.state = "sent" /\ c.token = tok /\ c.tab = t
  BY DEF Call
<1>5. FreeInv'
  BY <1>2, <1>3, <1>4 DEF FreeInv, SmoothInv, NoCall, Call
<1>6. UNCHANGED <<account, today, cookie, mirror, writing, signed>>
  BY DEF KeepToken
<1>7. ASSUME smooth'
      PROVE  (TodayInv /\ AloneInv /\ WriteInv /\ KeptInv /\ CallsInv)'
  <2>1. /\ smooth
        /\ \A s \in Calls : calls[s].op = "none" \/ {op, calls[s].op} \cap TokenOps = {}
        /\ op \in TokenOps => Settled
    BY <1>7, <1>4 DEF Send
  <2>2. TodayInv /\ AloneInv /\ WriteInv /\ KeptInv /\ GetInv /\ RenameInv /\ LoginInv
    BY <2>1 DEF SmoothInv, CallsInv
  <2>3. TodayInv'
    BY <2>2, <1>6 DEF TodayInv, Settled
  <2>4. AloneInv'
    BY <1>2, <1>3, <1>4, <2>1, <2>2 DEF AloneInv, TokenOps
  <2>5. WriteInv'
    <3>1. (\A r \in Tabs :
             ~Free(r) => writing[r].token = cookie /\ (signed \/ writing[r].token = NoToken))'
      BY <2>2, <1>6 DEF WriteInv, Free
    <3>2. CASE op \in TokenOps
      BY <3>1, <3>2, <2>1, <1>6 DEF WriteInv, Settled
    <3>3. CASE op \notin TokenOps
      BY <3>1, <3>3, <2>2, <1>3, <1>4, <1>6 DEF WriteInv, Settled, Quiet
    <3> QED
      BY <3>2, <3>3
  <2>6. ~Renaming
    <3>1. ASSUME NEW s \in Calls, calls[s].op = "rename", calls[s].state = "ok" PROVE FALSE
      BY <2>1, <3>1 DEF TokenOps
    <3> QED
      BY <3>1 DEF Renaming
  <2>7. (signed <=> Valid(cookie)) /\ (signed <=> Valid(cookie))'
    BY <2>2, <2>6, <1>6 DEF KeptInv, Valid
  <2>8. KeptInv'
    BY <2>7 DEF KeptInv
  <2>9. GetInv'
    <3>1. signed => GetToken = cookie
      BY <2>7 DEF GetToken, Valid
    <3> QED
      BY <1>3, <1>4, <1>6, <2>2, <2>7, <3>1 DEF GetInv, Valid
  <2>10. RenameInv'
    <3>1. op = "rename" => GetToken = cookie
      BY <2>1, <2>2 DEF TodayInv, GetToken, TokenOps
    <3> QED
      BY <1>3, <1>4, <1>6, <2>2, <3>1 DEF RenameInv, Valid
  <2>11. LoginInv'
    BY <1>3, <1>4, <1>6, <2>2 DEF LoginInv, Valid
  <2> QED
    BY <2>3, <2>4, <2>5, <2>8, <2>9, <2>10, <2>11 DEF CallsInv
<1> QED
  BY <1>5, <1>7 DEF SmoothInv

\* Calls that vanish while the rest stays the same disturb nothing.
LEMMA FewerCallsSmooth ==
  ASSUME FreeInv', smooth' => smooth, SmoothInv, smooth' => (Renaming => Renaming'),
         smooth' => \A s \in Calls : calls'[s] = calls[s] \/ calls'[s] = NoCall,
         KeepToken, UNCHANGED <<account, today, signed>>
  PROVE  SmoothInv'
<1> SUFFICES ASSUME smooth'
             PROVE  (TodayInv /\ AloneInv /\ WriteInv /\ KeptInv /\ CallsInv)'
  BY DEF SmoothInv
<1>1. /\ TodayInv /\ AloneInv /\ WriteInv /\ KeptInv /\ (Renaming => Renaming')
      /\ GetInv /\ RenameInv /\ LoginInv
  BY DEF SmoothInv, CallsInv
<1>2. \A s \in Calls : calls'[s] = calls[s] \/ calls'[s].op = "none"
  BY DEF NoCall, Call
<1>3. UNCHANGED <<account, today, cookie, mirror, writing, signed>>
  BY DEF KeepToken
<1>4. TodayInv' /\ AloneInv'
  BY <1>1, <1>2, <1>3 DEF TodayInv, AloneInv, Settled, TokenOps
<1>5. WriteInv'
  BY <1>1, <1>2, <1>3 DEF WriteInv, Settled, Free, Quiet, TokenOps
<1>6. KeptInv'
  BY <1>1, <1>3 DEF KeptInv, Valid
<1>7. GetInv' /\ RenameInv' /\ LoginInv'
  BY <1>1, <1>2, <1>3 DEF GetInv, RenameInv, LoginInv, Valid
<1> QED
  BY <1>4, <1>5, <1>6, <1>7 DEF CallsInv

\* A page is destroyed while it awaits no token, and its calls vanish.
LEMMA ArriveSmooth ==
  ASSUME TypeOK, SmoothInv, NEW t \in Tabs, Arrive(t) PROVE SmoothInv'
<1>1. \A s \in Calls :
        \/ calls'[s] \in {calls[s], NoCall}
        \/ /\ calls[s].op = "rename" /\ calls[s].tab = t
           /\ calls'[s] = [calls[s] EXCEPT !.tab = Nobody]
  BY DEF Arrive, Abandoned
<1>2. NoCall.op = "none" /\ \A s \in Calls : [calls[s] EXCEPT !.tab = Nobody].op = calls[s].op
  BY DEF NoCall, Call, TypeOK, CallType
<1>3. FreeInv'
  BY <1>1, <1>2 DEF SmoothInv, FreeInv
<1>4. KeepToken /\ UNCHANGED <<account, today, signed>> /\ (smooth' => smooth)
  BY DEF Arrive
<1>5. ASSUME smooth'
      PROVE  /\ Renaming => Renaming'
             /\ \A s \in Calls : calls'[s] = calls[s] \/ calls'[s] = NoCall
  <2>1. smooth /\ \A s \in Calls : calls[s].tab = t => calls[s].op \notin TokenOps
    BY <1>5 DEF Arrive
  <2>2. \A s \in Calls : calls'[s] = calls[s] \/ calls'[s] = NoCall
    BY <1>1, <2>1 DEF TokenOps
  <2>3. \A s \in Calls : calls[s].op = "rename" => calls'[s] = calls[s]
    BY <2>1 DEF Arrive, Abandoned, TokenOps
  <2> QED
    BY <2>2, <2>3 DEF Renaming
<1> QED
  BY <1>3, <1>4, <1>5, FewerCallsSmooth

\* The first half of clearToken, when the user is or has just been signed out, and
\* no call can bring another token.
LEMMA ClearSmooth ==
  ASSUME TypeOK, SmoothInv, NEW t \in Tabs, Clear(t), FreeInv', smooth' => smooth,
         smooth' => \A s \in Calls : calls'[s] = calls[s] \/ calls'[s] = NoCall,
         smooth' => Quiet /\ (Settled \/ ~signed) /\ ~signed',
         UNCHANGED <<account, today>>
  PROVE  SmoothInv'
<1> SUFFICES ASSUME smooth'
             PROVE  (TodayInv /\ AloneInv /\ WriteInv /\ KeptInv /\ CallsInv)'
  BY DEF SmoothInv
<1>1. TodayInv /\ AloneInv /\ WriteInv
  BY DEF SmoothInv
<1>2. \A s \in Calls : calls'[s] = calls[s] \/ calls'[s].op = "none"
  BY DEF NoCall, Call
<1>3. Quiet'
  BY <1>2 DEF Quiet, TokenOps
<1>4. /\ cookie' = NoToken /\ writing'[t] = Write("clear", NoToken)
      /\ \A r \in Tabs \ {t} : writing'[r] = writing[r]
  BY DEF Clear, ClearToken, TypeOK
<1>5. ~Settled'
  BY <1>4 DEF Settled, Write, NoWrite
<1>6. TodayInv' /\ AloneInv'
  BY <1>1, <1>2, <1>5 DEF TodayInv, AloneInv, TokenOps
<1>7. WriteInv'
  <2>1. ASSUME NEW r \in Tabs, ~Free(r)' PROVE writing'[r].token = NoToken
    <3>1. CASE r = t
      BY <1>4, <3>1 DEF Write
    <3>2. CASE r # t
      BY <1>1, <1>4, <2>1, <3>2 DEF WriteInv, Free, Settled
    <3> QED
      BY <3>1, <3>2
  <2> QED
    BY <1>3, <1>4, <2>1 DEF WriteInv
<1>8. KeptInv'
  BY <1>4 DEF KeptInv, Valid
<1>9. GetInv' /\ RenameInv' /\ LoginInv'
  BY <1>3 DEF GetInv, RenameInv, LoginInv, Quiet, TokenOps
<1> QED
  BY <1>6, <1>7, <1>8, <1>9 DEF CallsInv

\* The second half of setToken or clearToken: the mirror holds what the cookie does.
LEMMA WriteMirrorSmooth ==
  ASSUME TypeOK, SmoothInv, NEW t \in Tabs, WriteMirror(t) PROVE SmoothInv'
<1>1. /\ UNCHANGED <<account, today, cookie, calls, signed, smooth>>
      /\ writing'[t] = NoWrite /\ mirror' = writing[t].token /\ ~Free(t)
      /\ \A r \in Tabs \ {t} : writing'[r] = writing[r]
  BY DEF WriteMirror, ghosts, TypeOK
<1>2. FreeInv'
  BY <1>1 DEF SmoothInv, FreeInv
<1>3. ASSUME smooth
      PROVE  (TodayInv /\ AloneInv /\ WriteInv /\ KeptInv /\ CallsInv)'
  <2>1. /\ TodayInv /\ AloneInv /\ WriteInv /\ KeptInv
        /\ GetInv /\ RenameInv /\ LoginInv
    BY <1>3 DEF SmoothInv, CallsInv
  <2>2. mirror' = cookie' /\ Quiet'
    BY <1>1, <2>1 DEF WriteInv, Settled, Free, Quiet
  <2>3. TodayInv' /\ AloneInv'
    BY <1>1, <2>1, <2>2 DEF TodayInv, AloneInv
  <2>4. WriteInv'
    BY <1>1, <2>1, <2>2 DEF WriteInv, Free
  <2>5. KeptInv'
    BY <1>1, <2>1 DEF KeptInv, Renaming, Valid
  <2>6. GetInv' /\ RenameInv' /\ LoginInv'
    BY <1>1, <2>1 DEF GetInv, RenameInv, LoginInv, Valid
  <2> QED
    BY <2>3, <2>4, <2>5, <2>6 DEF CallsInv
<1> QED
  BY <1>1, <1>2, <1>3 DEF SmoothInv

\* The control plane handles a call: only a rename changes the account, and
\* on a smooth way no other call's token suffers from that.
LEMMA HandleSmooth ==
  ASSUME TypeOK, SmoothInv, NEW s \in Calls, Handle(s) PROVE SmoothInv'
<1> DEFINE c == calls[s]
<1>1. c \in CallType /\ c # NoCall /\ c.state = "sent" /\ c.op # "none"
  BY DEF Handle, TypeOK, SmoothInv, FreeInv
<1>2. UNCHANGED <<today, cookie, mirror, writing, signed, smooth>>
  BY DEF Handle, KeepToken, ghosts
<1>3. \E state \in {"ok", "refused"} : \E tok :
        calls' = [calls EXCEPT ![s] = [c EXCEPT !.state = state, !.token = tok]]
  BY DEF Handle, Answered, TypeOK
<1>4. /\ calls'[s].op = c.op /\ calls'[s].tab = c.tab /\ calls'[s].state \in {"ok", "refused"}
      /\ \A r \in Calls \ {s} : calls'[r] = calls[r]
  BY <1>1, <1>3 DEF TypeOK, CallType
<1>5. FreeInv'
  BY <1>1, <1>4 DEF FreeInv, SmoothInv
<1>6. ASSUME smooth'
      PROVE  (TodayInv /\ AloneInv /\ WriteInv /\ KeptInv /\ CallsInv)'
  <2>1. /\ TodayInv /\ AloneInv /\ WriteInv /\ KeptInv
        /\ GetInv /\ RenameInv /\ LoginInv
    BY <1>6, <1>2 DEF SmoothInv, CallsInv
  <2>2. TodayInv'
    BY <2>1, <1>2 DEF TodayInv, Settled
  <2>3. AloneInv'
    BY <2>1, <1>1, <1>4 DEF AloneInv
  <2>4. WriteInv'
    <3>1. Quiet => Quiet'
      BY <1>4 DEF Quiet
    <3> QED
      BY <3>1, <2>1, <1>2 DEF WriteInv, Settled, Free
  <2>5. CASE ~Accepted(c)
    <3>1. Answered(s, "refused", NoToken) /\ UNCHANGED account
      BY <2>5 DEF Handle
    <3>2. calls'[s].state = "refused"
      BY <3>1, <1>1 DEF Answered, TypeOK, CallType
    <3>3. c.op # "none" => (c.op # "login" => ~Valid(c.token))
      BY <2>5 DEF Accepted
    <3>4. ~(signed /\ c.op = "get")
      BY <2>1, <1>1, <3>3 DEF GetInv
    <3>5. Renaming' <=> Renaming
      BY <3>2, <1>1, <1>4 DEF Renaming
    <3>6. KeptInv'
      BY <2>1, <3>1, <3>5, <1>2 DEF KeptInv, Valid
    <3>7. GetInv'
      BY <2>1, <3>1, <3>4, <1>2, <1>4 DEF GetInv, Valid
    <3>8. RenameInv' /\ LoginInv'
      BY <2>1, <3>1, <3>2, <1>2, <1>4 DEF RenameInv, LoginInv, Valid
    <3> QED
      BY <2>2, <2>3, <2>4, <3>6, <3>7, <3>8 DEF CallsInv
  <2>6. CASE c.op = "get" /\ Accepted(c)
    <3>1. UNCHANGED account /\ calls'[s].state = "ok"
      BY <2>6, <1>1 DEF Handle, Answered, TypeOK, CallType
    <3>2. Renaming' <=> Renaming
      BY <2>6, <1>4 DEF Renaming
    <3>3. KeptInv'
      BY <2>1, <3>1, <3>2, <1>2 DEF KeptInv, Valid
    <3>4. GetInv'
      BY <2>1, <3>1, <1>2, <1>4 DEF GetInv, Valid
    <3>5. RenameInv' /\ LoginInv'
      BY <2>1, <2>6, <3>1, <1>2, <1>4 DEF RenameInv, LoginInv, Valid
    <3> QED
      BY <2>2, <2>3, <2>4, <3>3, <3>4, <3>5 DEF CallsInv
  <2>7. CASE c.op = "login" /\ Accepted(c)
    <3>1. UNCHANGED account /\ calls'[s].state = "ok"
          /\ calls'[s].token = [email |-> account, day |-> today]
      BY <2>7, <1>1 DEF Handle, Answered, TypeOK, CallType
    <3>2. \A r \in Calls \ {s} : calls[r].op = "none"
      BY <2>1, <2>7 DEF AloneInv, TokenOps
    <3>3. ~Renaming
      BY <2>7, <3>2 DEF Renaming
    <3>4. KeptInv'
      BY <2>1, <3>1, <3>3, <1>2 DEF KeptInv, Valid
    <3>5. GetInv' /\ RenameInv'
      BY <2>7, <3>2, <1>4 DEF GetInv, RenameInv
    <3>6. [email |-> account, day |-> today] # NoToken
      BY SessionAssumption DEF TypeOK
    <3>7. LoginInv'
      BY <2>7, <3>1, <3>2, <3>6, <1>2, <1>4 DEF LoginInv, Valid
    <3> QED
      BY <2>2, <2>3, <2>4, <3>4, <3>5, <3>7 DEF CallsInv
  <2>8. CASE c.op = "rename" /\ Accepted(c)
    <3>1. \A r \in Calls \ {s} : calls'[r].op = "none"
      BY <2>1, <2>8, <1>4 DEF AloneInv, TokenOps
    <3>2. ~Renaming /\ c.token = cookie
      BY <2>1, <2>8, <3>1, <1>1, <1>4 DEF Renaming, RenameInv
    <3>3. signed
      BY <2>1, <2>8, <3>2 DEF KeptInv, Accepted
    <3>4. /\ account' = c.email /\ calls'[s].state = "ok"
          /\ calls'[s].token = [email |-> c.email, day |-> today]
      BY <2>8, <1>1 DEF Handle, Answered, Renamed, TypeOK, CallType
    <3>5. [email |-> c.email, day |-> today] # NoToken
      BY <1>1, SessionAssumption DEF TypeOK, CallType
    <3>6. RenameInv'
      BY <2>8, <3>1, <3>3, <3>4, <3>5, <1>2, <1>4 DEF RenameInv, Valid
    <3>7. KeptInv'
      BY <2>8, <3>4, <1>4 DEF Renaming, KeptInv
    <3>8. GetInv' /\ LoginInv'
      BY <2>8, <3>1, <1>4 DEF GetInv, LoginInv
    <3> QED
      BY <2>2, <2>3, <2>4, <3>6, <3>7, <3>8 DEF CallsInv
  <2> QED
    BY <2>5, <2>6, <2>7, <2>8, <1>1 DEF CallType, Ops
<1> QED
  BY <1>5, <1>6 DEF SmoothInv

\* An answer that is taken for the call it answers leaves its place free.
LEMMA DoneCalls ==
  ASSUME TypeOK, FreeInv, NEW s \in Calls, Done(s)
  PROVE  /\ FreeInv'
         /\ calls'[s] = NoCall /\ calls'[s].op = "none"
         /\ \A r \in Calls \ {s} : calls'[r] = calls[r]
<1>1. calls'[s] = NoCall /\ \A r \in Calls \ {s} : calls'[r] = calls[r]
  BY DEF Done, TypeOK
<1>2. NoCall.op = "none"
  BY DEF NoCall, Call
<1> QED
  BY <1>1, <1>2 DEF FreeInv

\* The first half of setToken: a good token arrives, and the user is signed in.
LEMMA TokenSmooth ==
  ASSUME TypeOK, SmoothInv, NEW s \in Calls, NEW t \in Tabs, NEW op \in TokenOps,
         SetToken(t, op, calls[s].token), Done(s), calls[s].op \in TokenOps,
         smooth => Valid(calls[s].token) /\ signed',
         UNCHANGED <<account, today, smooth>>
  PROVE  SmoothInv'
<1>1. /\ FreeInv' /\ calls'[s].op = "none"
      /\ \A r \in Calls \ {s} : calls'[r] = calls[r]
  BY DoneCalls DEF SmoothInv
<1> SUFFICES ASSUME smooth'
             PROVE  (TodayInv /\ AloneInv /\ WriteInv /\ KeptInv /\ CallsInv)'
  BY <1>1 DEF SmoothInv
<1>2. TodayInv /\ AloneInv /\ Settled
  BY DEF SmoothInv, WriteInv, Quiet
<1>3. \A r \in Calls : calls'[r].op = "none"
  BY <1>1, <1>2 DEF AloneInv
<1>4. /\ cookie' = calls[s].token /\ writing'[t] = Write(op, calls[s].token)
      /\ \A r \in Tabs \ {t} : writing'[r] = writing[r]
  BY DEF SetToken, TypeOK
<1>5. Write(op, calls[s].token) # NoWrite /\ Write(op, calls[s].token).token = calls[s].token
  BY DEF Write, NoWrite, TokenOps
<1>6. TodayInv' /\ AloneInv'
  BY <1>2, <1>3, <1>4, <1>5 DEF TodayInv, AloneInv, Settled, TokenOps
<1>7. WriteInv'
  <2>1. Quiet'
    BY <1>3 DEF Quiet, TokenOps
  <2> QED
    BY <1>2, <1>4, <1>5, <2>1 DEF WriteInv, Settled, Free
<1>8. KeptInv'
  BY <1>4 DEF KeptInv, Valid
<1>9. GetInv' /\ RenameInv' /\ LoginInv'
  BY <1>3 DEF GetInv, RenameInv, LoginInv
<1> QED
  BY <1>6, <1>7, <1>8, <1>9 DEF CallsInv

LEMMA DeliverSmooth ==
  ASSUME TypeOK, SmoothInv, NEW s \in Calls, Deliver(s) PROVE SmoothInv'
<1> DEFINE c == calls[s]
<1>1. CASE DeliverUnauthorized(s)
  <2>1. /\ c.op = "get" /\ c.state = "refused" /\ c.tab \in Tabs /\ Clear(c.tab) /\ Done(s)
        /\ UNCHANGED <<account, today, signed, smooth>>
    BY <1>1 DEF DeliverUnauthorized, Arrived
  <2>2. /\ FreeInv' /\ calls'[s] = NoCall /\ \A r \in Calls \ {s} : calls'[r] = calls[r]
    BY <2>1, DoneCalls DEF SmoothInv
  <2>3. smooth => ~signed
    BY <2>1 DEF SmoothInv, CallsInv, GetInv
  <2>4. smooth => Quiet
    BY <2>1 DEF SmoothInv, AloneInv, Quiet, TokenOps
  <2> QED
    BY <2>1, <2>2, <2>3, <2>4, ClearSmooth
<1>2. CASE DeliverLogin(s)
  <2>1. smooth => Valid(c.token)
    BY <1>2 DEF DeliverLogin, Arrived, SmoothInv, CallsInv, LoginInv
  <2> QED
    BY <1>2, <2>1, TokenSmooth DEF DeliverLogin, Arrived, TokenOps
<1>3. CASE DeliverRename(s)
  <2>1. smooth => Valid(c.token) /\ signed
    BY <1>3 DEF DeliverRename, Arrived, SmoothInv, CallsInv, RenameInv
  <2> QED
    BY <1>3, <2>1, TokenSmooth DEF DeliverRename, Arrived, TokenOps, ghosts
<1>4. CASE DeliverOther(s)
  <2>1. /\ Done(s) /\ KeepToken /\ UNCHANGED <<account, today, signed, smooth>>
        /\ c # NoCall /\ c.op # "none"
    BY <1>4 DEF DeliverOther, ghosts, SmoothInv, FreeInv
  <2>2. /\ FreeInv' /\ calls'[s] = NoCall /\ \A r \in Calls \ {s} : calls'[r] = calls[r]
    BY <2>1, DoneCalls DEF SmoothInv
  <2>3. smooth => c.tab \in Tabs /\ c.state # "lost"
    BY <2>1 DEF SmoothInv, AloneInv
  <2>4. smooth => \/ c.op = "get" /\ c.state = "ok"
                  \/ c.op \in TokenOps /\ c.state = "refused"
    BY <1>4, <2>3, SessionAssumption DEF DeliverOther
  <2>5. smooth => ~Renaming
    <3> SUFFICES ASSUME smooth, NEW r \in Calls, calls[r].op = "rename", calls[r].state = "ok"
                 PROVE  FALSE
      BY DEF Renaming
    <3> QED
      BY <2>1, <2>4 DEF SmoothInv, AloneInv, TokenOps
  <2> QED
    BY <2>1, <2>2, <2>5, FewerCallsSmooth
<1> QED
  BY <1>1, <1>2, <1>3, <1>4 DEF Deliver

LEMMA NextSmooth == TypeOK /\ SmoothInv /\ [Next]_vars => SmoothInv'
<1> SUFFICES ASSUME TypeOK, SmoothInv, [Next]_vars PROVE SmoothInv'
  OBVIOUS
<1>1. ASSUME NEW t \in Tabs, Get(t) PROVE SmoothInv'
  BY <1>1, SendSmooth DEF Get
<1>2. ASSUME NEW t \in Tabs, NEW e, Login(t, e) PROVE SmoothInv'
  BY <1>2, SendSmooth DEF Login
<1>3. ASSUME NEW t \in Tabs, Logout(t) PROVE SmoothInv'
  <2>1. Clear(t) /\ ~signed' /\ (smooth' => smooth /\ Quiet /\ Settled)
        /\ UNCHANGED <<account, today, calls>>
    BY <1>3 DEF Logout
  <2>2. FreeInv'
    BY <2>1 DEF SmoothInv, FreeInv
  <2> QED
    BY <2>1, <2>2, ClearSmooth
<1>4. ASSUME NEW t \in Tabs, NEW e \in Emails, Rename(t, e) PROVE SmoothInv'
  BY <1>4, SendSmooth DEF Rename
<1>5. ASSUME NEW t \in Tabs, Arrive(t) PROVE SmoothInv'
  BY <1>5, ArriveSmooth
<1>6. ASSUME NEW t \in Tabs, Mount(t) PROVE SmoothInv'
  BY <1>6, SendSmooth DEF Mount
<1>7. ASSUME NEW t \in Tabs, WriteMirror(t) PROVE SmoothInv'
  BY <1>7, WriteMirrorSmooth
<1>8. ASSUME NEW s \in Calls, Handle(s) PROVE SmoothInv'
  BY <1>8, HandleSmooth
<1>9. ASSUME NEW s \in Calls, Deliver(s) PROVE SmoothInv'
  BY <1>9, DeliverSmooth
<1>10. ASSUME NEW s \in Calls, Lose(s) PROVE SmoothInv'
  <2>1. calls'[s].op = calls[s].op /\ \A r \in Calls \ {s} : calls'[r] = calls[r]
    BY <1>10 DEF Lose, TypeOK, CallType
  <2>2. calls[s].op # "none"
    BY <1>10 DEF Lose, SmoothInv, FreeInv
  <2> QED
    BY <1>10, <2>1, <2>2 DEF Lose, Fault, SmoothInv, FreeInv
<1>11. CASE CookieExpires
  <2>1. ~smooth
    <3> SUFFICES ASSUME smooth PROVE FALSE
      OBVIOUS
    <3>1. cookie \in Tokens /\ cookie.day < 0
      BY <1>11 DEF CookieExpires, TypeOK, SmoothInv, TodayInv
    <3>2. cookie.day \in Nat
      BY <3>1 DEF Tokens
    <3> QED
      BY <3>1, <3>2
  <2> QED
    BY <1>11, <2>1 DEF CookieExpires, ghosts, SmoothInv, FreeInv
<1>12. ASSUME UNCHANGED calls, ~smooth' PROVE SmoothInv'
  BY <1>12 DEF SmoothInv, FreeInv
<1>13. CASE Day \/ Restart \/ \E t \in Tabs : WriteFails(t)
  BY <1>12, <1>13 DEF Day, Restart, WriteFails, Fault
<1>14. ASSUME UNCHANGED <<account, today, cookie, mirror, writing, calls, ghosts>> PROVE SmoothInv'
  BY <1>14 DEF ghosts, SmoothInv, FreeInv, TodayInv, Settled, AloneInv, WriteInv, Free, Quiet, KeptInv,
               Renaming, CallsInv, GetInv, RenameInv, LoginInv, Valid
<1>15. ASSUME NEW t, NEW to, Open(t, to) PROVE SmoothInv'
  BY <1>14, <1>15 DEF Open, KeepToken, ghosts
<1> QED
  BY <1>1, <1>2, <1>3, <1>4, <1>5, <1>6, <1>7, <1>8, <1>9, <1>10, <1>11, <1>13, <1>14, <1>15
     DEF Next, User, System, Failure, vars

\* A rename kills every token of the account but the one its answer carries;
\* if nothing overlapped it and nothing was lost, the user stays signed in, and
\* a user who signed out stays out, for any number of tabs, calls and renames.
THEOREM RenameKeepsSession == Spec => []SessionKept
<1>1. Init => TypeOK /\ SmoothInv
  BY InitTypeOK, InitSmooth
<1>2. TypeOK /\ SmoothInv /\ [Next]_vars => (TypeOK /\ SmoothInv)'
  BY NextTypeOK, NextSmooth
<1>3. SmoothInv => SessionKept
  BY SmoothKept
<1> QED
  BY <1>1, <1>2, <1>3, PTL DEF Spec
===============================================================================
