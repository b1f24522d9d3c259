----------------------------- MODULE EdgePolicy -----------------------------
(***************************************************************************)
(* What the distribution of configurations promises, as the edges see it.  *)
(*                                                                         *)
(* The control plane holds a policy made of parts and a version.  An edge  *)
(* agent runs a configuration, a copy of some parts under a version.  No   *)
(* messages, pings or handlers appear here: at any moment any agent may be *)
(* given any configuration that                                            *)
(*   - takes no part back to an older edit than the one the agent runs,    *)
(*   - has no part and no version the control plane has not reached, and   *)
(*   - holds the present policy if it bears the present version.           *)
(*                                                                         *)
(* A part holds the number of the edit that wrote it.                      *)
(***************************************************************************)
EXTENDS Integers

CONSTANTS Nodes,     \* edge agents
          Sites,     \* the parts an agent gets one of
          FirstSeq   \* version of a fresh process

Parts == {"rules", "crs"} \cup Sites

VARIABLES version,    \* version of the policy
          policy,     \* policy[p]: the edit that wrote part p
          unsettled,  \* sites in the middle of an assignment of their tuning
          epoch,      \* number of restarts of the control plane
          config      \* config[n]: the configuration agent n runs

vars == <<version, policy, unsettled, epoch, config>>

Init ==
  /\ version = FirstSeq
  /\ policy = [p \in Parts |-> 0]
  /\ unsettled = {}
  /\ epoch = 0
  /\ config = [n \in Nodes |-> config[n]]
  /\ \A n \in Nodes : config[n].ver = 0

\* Part p gets newer content.
Rewritten(p) ==
  /\ policy' = [policy EXCEPT ![p] = policy'[p]]
  /\ policy'[p] > policy[p]

\* A change of a part makes the next version; so does one of what no
\* configuration carries.
Change(p) ==
  /\ Rewritten(p)
  /\ version' = version + 1
  /\ unsettled' = unsettled \ {p}
  /\ UNCHANGED <<epoch, config>>

Bump ==
  /\ version' = version + 1
  /\ UNCHANGED <<policy, unsettled, epoch, config>>

\* The first half of a change of a site, visible before the version is bumped.
BeginChange(site) ==
  /\ unsettled = {}
  /\ Rewritten(site)
  /\ unsettled' = {site}
  /\ UNCHANGED <<version, epoch, config>>

\* c takes nothing of b back, and has nothing the policy does not have yet.
Follows(b, c) ==
  /\ b.rules <= c.rules
  /\ b.crs <= c.crs
  /\ b.site = c.site => b.tuning <= c.tuning

Reached(c) ==
  /\ c.epoch = epoch
  /\ c.ver <= version
  /\ c.rules <= policy["rules"]
  /\ c.crs <= policy["crs"]
  /\ c.tuning <= policy[c.site]

\* c is what the policy is now; an unsettled site has no value to compare with.
Matches(c) ==
  /\ c.rules = policy["rules"]
  /\ c.crs = policy["crs"]
  /\ c.site \notin unsettled => c.tuning = policy[c.site]

Deploy(n) ==
  LET c == config'[n] IN
  /\ config' = [config EXCEPT ![n] = c]
  /\ Reached(c)
  /\ config[n].epoch = epoch => Follows(config[n], c)
  /\ c.ver = version => Matches(c)
  /\ UNCHANGED <<version, policy, unsettled, epoch>>

\* A new process: the version and all parts but the rules start again, and
\* agents keep running what they have.
Restart ==
  /\ epoch' = epoch + 1
  /\ version' = FirstSeq
  /\ policy' = [p \in Parts |-> IF p = "rules" THEN policy'[p] ELSE 0]
  /\ unsettled' = {}
  /\ UNCHANGED config

Next ==
  \/ \E p \in Parts : Change(p)
  \/ Bump
  \/ \E site \in Sites : BeginChange(site)
  \/ \E n \in Nodes : Deploy(n)
  \/ Restart

Spec == Init /\ [][Next]_vars
=============================================================================
