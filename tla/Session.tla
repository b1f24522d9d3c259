-------------------------------- MODULE Session --------------------------------
(***************************************************************************)
(* Signing in to the console from several tabs of one browser.             *)
(*                                                                         *)
(* The tabs share one token, kept in a cookie and mirrored in localStorage;*)
(* the page guard of the Next server looks at the cookie alone, the        *)
(* control plane at the token alone.  A token names the administrator's    *)
(* e-mail address, so that renaming the account kills every token but the  *)
(* one the answer carries.  A tab runs one callback at a time, but the     *)
(* tabs run side by side: between the two writes of a token the others may *)
(* read it and write it.  A page goes on taking answers until the document *)
(* that replaces it is there; then its calls may still reach the control   *)
(* plane, but their answers are lost.                                      *)
(***************************************************************************)
EXTENDS Naturals, FiniteSets

CONSTANTS Tabs, Calls,            \* tabs, and places for calls in flight
          Emails, DefaultEmail,   \* addresses of the administrator
          Nobody, NoToken,
          MaxClicks, MaxDays, MaxFaults   \* bounds of a run

ASSUME SessionAssumption ==
  /\ DefaultEmail \in Emails
  /\ Nobody \notin Tabs
  /\ Calls \subseteq Nat
  /\ {MaxClicks, MaxDays, MaxFaults} \subseteq Nat
  /\ NoToken \notin [email: Emails, day: Nat]

VARIABLES account,   \* the address the control plane knows the account by
          today,     \* days since the first token
          cookie,    \* the cookie corazium_token
          mirror,    \* localStorage's copy
          writing,   \* what each tab has written to the cookie and not yet to the mirror
          place,     \* where each tab is
          calls,     \* calls in flight
          signed,    \* ghost: the user's last success was a login, not a logout
          out,       \* ghost: a token was cleared when none could come, and no login since
          smooth,    \* ghost: nothing overlapped a login, a rename or a write, or failed
          spent      \* how much of each bound is used

ghosts == <<signed, out, smooth>>
vars == <<account, today, cookie, mirror, writing, place, calls, ghosts, spent>>

Tokens == [email: Emails, day: Nat]

\* A tab asks for a document, while the page it leaves still takes answers, runs a
\* page's first effects, or shows a page.
Places == {"to_login", "to_console", "mounting", "login", "console"}

Ops == {"none", "get", "login", "rename"}
Call(t, op, tok, e) ==
  [tab |-> t, op |-> op, token |-> tok, email |-> e, state |-> "sent"]
NoCall == Call(Nobody, "none", NoToken, DefaultEmail)

CallType ==
  [tab: Tabs \cup {Nobody}, op: Ops, token: Tokens \cup {NoToken}, email: Emails,
   state: {"sent", "ok", "refused", "lost"}]

-------------------------------------------------------------------------------
(* api.ts: the token *)

Write(op, tok) == [op |-> op, token |-> tok]
NoWrite == Write("none", NoToken)
WriteType == [op: {"none", "login", "rename", "clear"}, token: Tokens \cup {NoToken}]

\* No tab is between the two writes of a token.
Settled == \A t \in Tabs : writing[t] = NoWrite

\* setToken and clearToken write the cookie first, then the mirror.
SetToken(t, op, tok) ==
  /\ cookie' = tok
  /\ writing' = [writing EXCEPT ![t] = Write(op, tok)]
  /\ UNCHANGED mirror

\* mutant: the cookie is left.
ClearTokenMirrorOnly(t) ==
  /\ writing' = [writing EXCEPT ![t] = Write("clear", NoToken)]
  /\ UNCHANGED <<cookie, mirror>>

\* mutant: the mirror is left.
ClearTokenCookieOnly(t) ==
  /\ cookie' = NoToken
  /\ UNCHANGED <<writing, mirror>>

ClearToken(t) ==
  /\ cookie' = NoToken
  /\ writing' = [writing EXCEPT ![t] = Write("clear", NoToken)]
  /\ UNCHANGED mirror

GetToken == IF cookie # NoToken THEN cookie ELSE mirror

KeepToken == UNCHANGED <<cookie, mirror, writing>>

\* authRequired: the signature, the day and the account it names.
Valid(tok) == tok # NoToken /\ tok.email = account /\ tok.day = today

-------------------------------------------------------------------------------
(* Calls *)

Idle == {s \in Calls : calls[s] = NoCall}

TokenOps == {"login", "rename"}

\* No call that can bring a token is in flight.
Quiet == \A s \in Calls : calls[s].op \notin TokenOps

\* The first free place.
Send(c) ==
  /\ Idle # {}
  /\ calls' = [calls EXCEPT ![CHOOSE s \in Idle : \A r \in Idle : s <= r] = c]
  /\ smooth' = (/\ smooth
                /\ \A s \in Calls : calls[s].op = "none" \/ {c.op, calls[s].op} \cap TokenOps = {}
                /\ c.op \in TokenOps => Settled)

\* What is left of the calls when tab t's page is destroyed.
Abandoned(t) ==
  [s \in Calls |->
     IF calls[s].tab # t THEN calls[s]
     ELSE IF calls[s].op = "rename" /\ calls[s].state = "sent"
     THEN [calls[s] EXCEPT !.tab = Nobody] ELSE NoCall]

\* A tab between two writes is in the middle of a callback.
Free(t) == writing[t] = NoWrite

Click(t) ==
  /\ Free(t)
  /\ spent.clicks < MaxClicks
  /\ spent' = [spent EXCEPT !.clicks = @ + 1]

\* A restart, a lost call or a write that throws.
Fault ==
  /\ spent.faults < MaxFaults
  /\ spent' = [spent EXCEPT !.faults = @ + 1]
  /\ smooth' = FALSE

\* The navigation asked for last is the one that counts.
Leave(t, to) == place' = [place EXCEPT ![t] = to]

-------------------------------------------------------------------------------
(* What the user does; on a page that is being left, nothing *)

\* Type an address, reload, or open the root page, which redirects.
Open(t, to) ==
  /\ Click(t)
  /\ Leave(t, to)
  /\ KeepToken /\ UNCHANGED <<account, today, calls, ghosts>>

\* Any read a console page makes.
Get(t) ==
  /\ Click(t) /\ place[t] = "console"
  /\ Send(Call(t, "get", GetToken, DefaultEmail))
  /\ KeepToken /\ UNCHANGED <<account, today, place, signed, out>>

\* Submit the login form with the password and some address, perhaps an old one.
Login(t, e) ==
  /\ Click(t) /\ place[t] = "login"
  /\ \A s \in Calls : calls[s].tab # t
  /\ Send(Call(t, "login", NoToken, e))
  /\ out' = FALSE
  /\ KeepToken /\ UNCHANGED <<account, today, place, signed>>

\* The first half of clearToken, before a navigation to the login page.
Clear(t) ==
  /\ ClearToken(t)
  /\ Leave(t, "to_login")
  /\ out' = (out \/ (Quiet /\ Settled))

Logout(t) ==
  /\ Click(t) /\ place[t] = "console"
  /\ Clear(t)
  /\ signed' = FALSE
  /\ smooth' = (smooth /\ Quiet /\ Settled)
  /\ UNCHANGED <<account, today, calls>>

\* Save the profile with another address, or the same.
Rename(t, e) ==
  /\ Click(t) /\ place[t] = "console"
  /\ Send(Call(t, "rename", GetToken, e))
  /\ out' = (out /\ Settled)
  /\ KeepToken /\ UNCHANGED <<account, today, place, signed>>

-------------------------------------------------------------------------------
(* The Next server and the page *)

\* The page guard, which sees the cookie alone.
Guard(to) ==
  IF cookie = NoToken THEN "login"
  ELSE IF to \in {"to_login", "to_console"} THEN "mounting" ELSE to

\* The new document is there, the page before it is gone.
Arrive(t) ==
  /\ Free(t) /\ place[t] \in {"to_login", "to_console"}
  /\ place' = [place EXCEPT ![t] = Guard(place[t])]
  /\ calls' = Abandoned(t)
  /\ smooth' = (smooth /\ \A s \in Calls : calls[s].tab = t => calls[s].op \notin TokenOps)
  /\ KeepToken /\ UNCHANGED <<account, today, signed, out, spent>>

\* The shell asks who is signed in.
Mount(t) ==
  /\ place[t] = "mounting"
  /\ place' = [place EXCEPT ![t] = "console"]
  /\ Send(Call(t, "get", GetToken, DefaultEmail))
  /\ KeepToken /\ UNCHANGED <<account, today, signed, out, spent>>

\* The second half of setToken or clearToken, and what the callback does then: a
\* login pushes the dashboard, unless a navigation is under way already.
WriteMirror(t) ==
  /\ ~Free(t)
  /\ mirror' = writing[t].token
  /\ writing' = [writing EXCEPT ![t] = NoWrite]
  /\ place' = IF writing[t].op = "login" /\ place[t] = "login"
                THEN [place EXCEPT ![t] = "to_console"] ELSE place
  /\ UNCHANGED <<account, today, cookie, calls, ghosts, spent>>

\* setItem throws, for one because the profile picture fills the storage: the
\* page reports a failure and the cookie stays.
WriteFails(t) ==
  /\ writing[t].op \in TokenOps
  /\ Fault
  /\ writing' = [writing EXCEPT ![t] = NoWrite]
  /\ UNCHANGED <<account, today, cookie, mirror, place, calls, signed, out>>

-------------------------------------------------------------------------------
(* The control plane *)

\* mutant: the token is issued for the address the call came with.
RenamedKeepingToken(c) == c.token.email

\* updateProfile signs a token for the new address.
Renamed(c) == c.email

Answered(s, state, tok) ==
  calls' = [calls EXCEPT ![s].state = state, ![s].token = tok]

\* Login looks the address up; the other calls pass authRequired first.
Accepted(c) == IF c.op = "login" THEN c.email = account ELSE Valid(c.token)

Handle(s) ==
  LET c == calls[s] IN
  /\ c # NoCall /\ c.state = "sent"
  /\ \/ /\ c.op = "login" /\ Accepted(c)
        /\ Answered(s, "ok", [email |-> account, day |-> today])
        /\ UNCHANGED account
     \/ /\ c.op = "get" /\ Accepted(c)
        /\ Answered(s, "ok", NoToken)
        /\ UNCHANGED account
     \/ /\ c.op = "rename" /\ Accepted(c)
        /\ Answered(s, "ok", [email |-> Renamed(c), day |-> today])
        /\ account' = c.email
     \/ /\ ~Accepted(c)
        /\ Answered(s, "refused", NoToken)
        /\ UNCHANGED account
  /\ KeepToken /\ UNCHANGED <<today, place, ghosts, spent>>

\* A day passes: every token is out of date, and so is soon the cookie.
Day ==
  /\ today < MaxDays
  /\ today' = today + 1
  /\ smooth' = FALSE
  /\ KeepToken /\ UNCHANGED <<account, place, calls, signed, out, spent>>

CookieExpires ==
  /\ cookie # NoToken /\ cookie.day < today
  /\ cookie' = NoToken
  /\ UNCHANGED <<account, today, mirror, writing, place, calls, ghosts, spent>>

\* mutant: no administrator is provisioned.
RestartUnprovisioned ==
  /\ Fault
  /\ account' = Nobody
  /\ KeepToken /\ UNCHANGED <<today, place, calls, signed, out>>

\* Users are not loaded at start: the default administrator is created anew.
Restart ==
  /\ Fault
  /\ account' = DefaultEmail
  /\ KeepToken /\ UNCHANGED <<today, place, calls, signed, out>>

\* A call or its answer is lost on the way: the proxy answers 502.
Lose(s) ==
  /\ Fault
  /\ calls[s] # NoCall /\ calls[s].state # "lost"
  /\ calls' = [calls EXCEPT ![s].state = "lost"]
  /\ KeepToken /\ UNCHANGED <<account, today, place, signed, out>>

-------------------------------------------------------------------------------
(* Answers *)

Done(s) == calls' = [calls EXCEPT ![s] = NoCall]

Arrived(s, op, state) ==
  /\ calls[s].tab \in Tabs /\ Free(calls[s].tab)
  /\ calls[s].op = op /\ calls[s].state = state

\* handle401: forget the token and ask for the login page.
DeliverUnauthorized(s) ==
  /\ Arrived(s, "get", "refused")
  /\ Clear(calls[s].tab)
  /\ Done(s)
  /\ UNCHANGED <<account, today, signed, smooth, spent>>

\* The login page keeps the token.
DeliverLogin(s) ==
  /\ Arrived(s, "login", "ok")
  /\ SetToken(calls[s].tab, "login", calls[s].token)
  /\ Done(s)
  /\ signed' = TRUE
  /\ UNCHANGED <<account, today, place, out, smooth, spent>>

\* The profile page keeps the token that names the new address.
DeliverRename(s) ==
  /\ Arrived(s, "rename", "ok")
  /\ SetToken(calls[s].tab, "rename", calls[s].token)
  /\ Done(s)
  /\ UNCHANGED <<account, today, place, ghosts, spent>>

\* Rows, a failure, a refused login and a refused write (send never looks at 401)
\* change no more than what a page shows; a page that is gone takes no answer.
DeliverOther(s) ==
  /\ calls[s] # NoCall /\ calls[s].state # "sent"
  /\ \/ calls[s].state = "lost"
     \/ calls[s].tab = Nobody
     \/ calls[s].op = "get" /\ calls[s].state = "ok"
     \/ calls[s].op \in TokenOps /\ calls[s].state = "refused"
  /\ Done(s)
  /\ KeepToken /\ UNCHANGED <<account, today, place, ghosts, spent>>

-------------------------------------------------------------------------------
Init ==
  /\ account = DefaultEmail
  /\ today = 0
  /\ cookie \in {NoToken, [email |-> DefaultEmail, day |-> 0]}
  /\ mirror = cookie
  /\ writing = [t \in Tabs |-> NoWrite]
  /\ place = [t \in Tabs |-> "to_console"]
  /\ calls = [s \in Calls |-> NoCall]
  /\ signed = (cookie # NoToken)
  /\ out = FALSE
  /\ smooth = TRUE
  /\ spent = [clicks |-> 0, faults |-> 0]

User ==
  \E t \in Tabs :
    \/ \E to \in {"to_login", "to_console"} : Open(t, to)
    \/ Get(t) \/ Logout(t)
    \/ \E e \in Emails : Login(t, e) \/ Rename(t, e)

Deliver(s) ==
  \/ DeliverUnauthorized(s) \/ DeliverLogin(s)
  \/ DeliverRename(s) \/ DeliverOther(s)

System ==
  \/ \E t \in Tabs : Arrive(t) \/ Mount(t) \/ WriteMirror(t)
  \/ \E s \in Calls : Handle(s) \/ Deliver(s)

Failure ==
  \/ \E t \in Tabs : WriteFails(t)
  \/ \E s \in Calls : Lose(s)

Next ==
  \/ User \/ System \/ Failure
  \/ Day \/ CookieExpires \/ Restart

Spec == Init /\ [][Next]_vars

\* The browser follows navigations and runs callbacks to their end, the servers
\* answer; the user, the clock and the network owe nothing.
Fairness ==
  /\ \A t \in Tabs : WF_vars(Arrive(t)) /\ WF_vars(Mount(t)) /\ WF_vars(WriteMirror(t))
  /\ \A s \in Calls : WF_vars(Handle(s)) /\ WF_vars(Deliver(s))

FairSpec == Spec /\ Fairness

-------------------------------------------------------------------------------
(* Properties *)

\* Every variable holds a value of its kind.
TypeOK ==
  /\ account \in Emails
  /\ today \in Nat
  /\ cookie \in Tokens \cup {NoToken}
  /\ mirror \in Tokens \cup {NoToken}
  /\ writing \in [Tabs -> WriteType]
  /\ place \in [Tabs -> Places]
  /\ calls \in [Calls -> CallType]
  /\ signed \in BOOLEAN
  /\ out \in BOOLEAN
  /\ smooth \in BOOLEAN
  /\ spent \in [clicks: Nat, faults: Nat]

\* A logout, or a read that was refused, leaves nothing to speak with in any tab: if
\* no answer could bring another token and no rename read the old one between the
\* two writes of clearToken, getToken finds none until someone logs in, whatever
\* answers, days, losses or restarts come in between (api.ts:27-44, 51-56, 138).
StaysSignedOut == out /\ Settled => GetToken = NoToken

\* Renaming the account does not sign the user out, nor back in: if nothing failed
\* and nothing overlapped a login, a rename or a write (a late 401 would clear the
\* new token, a late answer would undo a logout), the guard's token and getToken's
\* are good exactly when the user last signed in, though every other token is dead
\* (router.go:651, profile/page.tsx:134).
SessionKept ==
  smooth /\ Quiet /\ Settled => (signed <=> Valid(cookie)) /\ (signed <=> Valid(GetToken))

\* The guard sees only that there is a cookie and the page only that a read was
\* refused, so that a dead cookie could send a tab round for ever between the
\* login page and the console; once the user clicks no more, every tab comes
\* to rest on one of the two (api.ts:51-56, proxy.ts:10-20).
RedirectsEnd ==
  \A t \in Tabs : <>[](place[t] = "login") \/ <>[](place[t] = "console")
===============================================================================
