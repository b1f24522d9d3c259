----------------------------- MODULE ConfigSync -----------------------------
(***************************************************************************)
(* Configuration distribution of the Corazium control plane: the policy    *)
(* version kept by store.Store, the REST handlers that change the policy,  *)
(* the gRPC NodeControl service that pushes it (grpcsrv/server.go), and    *)
(* the edge agents at the other end of the streams (cmd/nodetest).         *)
(*                                                                         *)
(* One action is one critical section of Store.mu, one channel operation,  *)
(* one stream send or receive, or one unlocked read of a shared field;     *)
(* several goroutines interleave between them.                             *)
(*                                                                         *)
(* The policy is abstracted to three kinds of parts, the ones a            *)
(* ConfigUpdate carries: the SecLang rules and exceptions ("rules"), the   *)
(* CRS toggles ("crs") and the tuning of each site.  What a part holds is  *)
(* the number of the edit that wrote it, 0 for the boot seed, so two parts *)
(* are equal exactly when they were written by the same edit.              *)
(***************************************************************************)
EXTENDS Integers, Sequences, FiniteSets

CONSTANTS
  Nodes,        \* edge agents
  Streams,      \* slots for running StreamConfigs handlers
  Handlers,     \* slots for running REST handlers
  Sites,        \* keys of Store.Sites
  NoStream,     \* an agent without an open StreamConfigs call
  NotifyCap,    \* capacity of Server.notify (64 in the code)
  FirstSeq,     \* Store.VersionSeq of a fresh process (104 in the code)
  Seeded,       \* what the seed of the store says of each node
  MayReject,    \* whether an agent may refuse a configuration
  LinkCap,      \* bound: messages in flight in one direction of a stream
  Workload,     \* bound: which kinds of changes the administrators make
  MaxSeq,       \* bound: highest version of the first process
  MaxRestarts,  \* bound: restarts of the control plane
  MaxDrops      \* bound: connection losses

Parts == {"rules", "crs"} \cup Sites

ASSUME SitesAssumption == Sites # {} /\ Sites \cap {"rules", "crs"} = {}
ASSUME StreamsAssumption == NoStream \notin Streams
ASSUME CapAssumption == NotifyCap \in Nat \ {0} /\ LinkCap \in Nat \ {0}
ASSUME SeqAssumption == FirstSeq \in Nat \ {0} /\ MaxSeq \in Nat
ASSUME BoundAssumption == /\ MaxRestarts \in Nat
                          /\ MaxDrops \in Nat
                          /\ MayReject \in BOOLEAN

VARIABLES
  versionSeq,  \* Store.VersionSeq; ConfigVersion is its rendering "v%03d"
  policy,      \* policy[p]: the edit that wrote part p
  edits,       \* ghost: number of edits so far, numbers the next one
  registry,    \* Store.Nodes: sync status and displayed version
  handler,     \* REST handlers between their critical section and their end
  notify,      \* Server.notify, one channel shared by all stream handlers
  stream,      \* StreamConfigs handlers: program counter and locals
  wire,        \* wire[s]: ConfigUpdates sent on stream s, not yet received
  acks,        \* acks[s]: ConfigAcks sent on stream s, not yet received
  agent,       \* agent[n]: the configuration node n runs
  link,        \* link[n]: the stream n has open, and whether it was served
  hb,          \* progress of the heartbeat exchange of n
  epoch,       \* ghost: number of restarts so far
  drops        \* number of connection losses so far

storeVars == <<versionSeq, policy, edits, registry>>
grpcVars  == <<notify, stream, wire, acks>>
edgeVars  == <<agent, link, hb>>
vars == <<storeVars, handler, grpcVars, edgeVars, epoch, drops>>

-----------------------------------------------------------------------------
(* Data *)

\* The version string of a heartbeat from an agent without configuration ("").
NoVersion == 0

\* v1.ConfigUpdate.  asOf and epoch are ghosts: the version the store had when
\* the first part was read, and the process that sent it.
ConfigUpdate ==
  [ver: Nat, asOf: Nat, epoch: Nat, rules: Nat, crs: Nat,
   site: Sites, tuning: Nat]

NoConfig == [ver |-> NoVersion, asOf |-> 0, epoch |-> 0, rules |-> 0, crs |-> 0,
             site |-> CHOOSE s \in Sites : TRUE, tuning |-> 0]

\* Where a REST handler, a StreamConfigs handler, the link and the heartbeat of
\* an agent stand; what the fleet view shows of a node.
HandlerState == [pc: {"idle", "write", "version", "post"}, part: Parts, ver: Nat]
StreamState  == [pc: {"free", "bundle", "toggles", "policy", "select"},
                 cur: Nat, asOf: Nat, rules: Nat, crs: Nat]
LinkState    == [stream: Streams \cup {NoStream}, served: BOOLEAN]
BeatState    == [pc: {"idle", "sent", "enroll", "desired"}, ver: Nat]
NodeState    == [sync: {"ABSENT", "IN_SYNC", "PENDING_UPDATE"}, ver: Nat]

ConfigAck == [node: Nodes, ver: Nat, applied: BOOLEAN]

IdleHandler == [pc |-> "idle", part |-> "rules", ver |-> 0]
FreeStream  == [pc |-> "free", cur |-> 0, asOf |-> 0, rules |-> 0, crs |-> 0]
NoLink      == [stream |-> NoStream, served |-> FALSE]
IdleBeat    == [pc |-> "idle", ver |-> 0]
EnrollBeat  == [pc |-> "enroll", ver |-> 0]
DesiredBeat == [pc |-> "desired", ver |-> 0]
Absent      == [sync |-> "ABSENT", ver |-> 0]

\* SeedDemo stores four nodes, two of them PENDING_UPDATE at an older version; an
\* agent may bear the identifier of one.  Without it Store.Nodes starts empty.
ASSUME SeedAssumption == Seeded \in [Nodes -> NodeState]

\* The sites whose UpdateSite is inside its critical section, between two field
\* writes.  It is the only critical section modelled in two steps.
Writing == {handler[h].part : h \in {g \in Handlers : handler[g].pc = "write"}}
Locked == \E h \in Handlers : handler[h].pc = "write"

\* The streams some agent still has open: their contexts are not done.
Live == {link[n].stream : n \in Nodes}

Init ==
  /\ versionSeq = FirstSeq
  /\ policy = [p \in Parts |-> 0]
  /\ edits = 0
  /\ registry = Seeded
  /\ handler = [h \in Handlers |-> IdleHandler]
  /\ notify = <<>>
  /\ stream = [s \in Streams |-> FreeStream]
  /\ wire = [s \in Streams |-> <<>>]
  /\ acks = [s \in Streams |-> <<>>]
  /\ agent = [n \in Nodes |-> NoConfig]
  /\ link = [n \in Nodes |-> NoLink]
  /\ hb = [n \in Nodes |-> IdleBeat]
  /\ epoch = 0
  /\ drops = 0

-----------------------------------------------------------------------------
(* REST handlers: a critical section of the store, then policyChanged *)

\* Bound: a process may reach version MaxSeq, a restarted one a version less.
MoreVersions == versionSeq + epoch < MaxSeq

\* The store operations that rewrite a part and call nextVersion.
Edit(h, part, next) ==
  /\ handler[h].pc = "idle"
  /\ ~Locked
  /\ MoreVersions
  /\ edits' = edits + 1
  /\ policy' = [policy EXCEPT ![part] = edits + 1]
  /\ versionSeq' = versionSeq + 1
  /\ handler' = [handler EXCEPT ![h].pc = next]
  /\ UNCHANGED <<registry, grpcVars, edgeVars, epoch, drops>>

CreateRule(h) == Edit(h, "rules", "version")
UpdateRule(h) == Edit(h, "rules", "version")
DeleteRule(h) == Edit(h, "rules", "version")
CreateException(h) == Edit(h, "rules", "version")
ToggleCrs(h) == Edit(h, "crs", "version")

\* The one mutation whose handler returns without policyChanged.
DeleteException(h) == Edit(h, "rules", "idle")

\* IP lists and rate limits bump the version; no ConfigUpdate carries them.
Bump(h) ==
  /\ handler[h].pc = "idle"
  /\ ~Locked
  /\ MoreVersions
  /\ versionSeq' = versionSeq + 1
  /\ handler' = [handler EXCEPT ![h].pc = "version"]
  /\ UNCHANGED <<policy, edits, registry, grpcVars, edgeVars, epoch, drops>>

AddIp(h) == Bump(h)
DeleteIp(h) == Bump(h)
AddRateLimit(h) == Bump(h)
DeleteRateLimit(h) == Bump(h)

\* UpdateRateLimit and UpdateBot change state outside the push, leave the
\* version alone and still call policyChanged.
NotifyOnly(h) ==
  /\ handler[h].pc = "idle"
  /\ ~Locked
  /\ handler' = [handler EXCEPT ![h].pc = "version"]
  /\ UNCHANGED <<storeVars, grpcVars, edgeVars, epoch, drops>>

UpdateRateLimit(h) == NotifyOnly(h)
UpdateBot(h) == NotifyOnly(h)

\* UpdateSite assigns three fields under the lock.  DefaultPolicy reads them
\* without it, so the value in between, a mix of two tunings, is observable.
BeginUpdateSite(h, site) ==
  /\ handler[h].pc = "idle"
  /\ ~Locked
  /\ MoreVersions
  /\ edits' = edits + 1
  /\ policy' = [policy EXCEPT ![site] = edits + 1]
  /\ handler' = [handler EXCEPT ![h] = [pc |-> "write", part |-> site, ver |-> 0]]
  /\ UNCHANGED <<versionSeq, registry, grpcVars, edgeVars, epoch, drops>>

FinishUpdateSite(h) ==
  /\ handler[h].pc = "write"
  /\ edits' = edits + 1
  /\ policy' = [policy EXCEPT ![handler[h].part] = edits + 1]
  /\ versionSeq' = versionSeq + 1
  /\ handler' = [handler EXCEPT ![h] = [IdleHandler EXCEPT !.pc = "version"]]
  /\ UNCHANGED <<registry, grpcVars, edgeVars, epoch, drops>>

\* NotifyConfigUpdate evaluates Store.ConfigVersion without the lock ...
ReadVersion(h) ==
  /\ handler[h].pc = "version"
  /\ handler' = [handler EXCEPT ![h].pc = "post", ![h].ver = versionSeq]
  /\ UNCHANGED <<storeVars, grpcVars, edgeVars, epoch, drops>>

\* ... and then tries to send it: a full channel drops the ping.
Posted(ver) == IF Len(notify) < NotifyCap THEN Append(notify, ver) ELSE notify

PostPing(h) ==
  /\ handler[h].pc = "post"
  /\ notify' = Posted(handler[h].ver)
  /\ handler' = [handler EXCEPT ![h] = IdleHandler]
  /\ UNCHANGED <<storeVars, stream, wire, acks, edgeVars, epoch, drops>>

RestStep(h) ==
  \/ /\ "rules" \in Workload
     /\ CreateRule(h) \/ UpdateRule(h) \/ DeleteRule(h) \/ CreateException(h)
  \/ "exceptions" \in Workload /\ DeleteException(h)
  \/ "crs" \in Workload /\ ToggleCrs(h)
  \/ "sites" \in Workload /\ \E site \in Sites : BeginUpdateSite(h, site)
  \/ /\ "lists" \in Workload
     /\ AddIp(h) \/ DeleteIp(h) \/ AddRateLimit(h) \/ DeleteRateLimit(h)
  \/ "actions" \in Workload /\ (UpdateRateLimit(h) \/ UpdateBot(h))

NotifyStep(h) == FinishUpdateSite(h) \/ ReadVersion(h) \/ PostPing(h)

-----------------------------------------------------------------------------
(* grpcsrv: one StreamConfigs handler per open stream *)

\* An agent without a stream calls StreamConfigs; the handler remembers the
\* current version and starts sendUpdate.
OpenStream(n, s) ==
  /\ link[n].stream = NoStream
  /\ stream[s].pc = "free"
  /\ link' = [link EXCEPT ![n] = [stream |-> s, served |-> FALSE]]
  /\ stream' = [stream EXCEPT ![s] = [FreeStream EXCEPT !.pc = "bundle", !.cur = versionSeq]]
  /\ UNCHANGED <<storeVars, handler, notify, wire, acks, agent, hb, epoch, drops>>

\* Mutant: a bundle rendered at boot stands in for any but the current version.
ReadBundleCached(s) ==
  /\ stream[s].pc = "bundle"
  /\ ~Locked
  /\ stream' = [stream EXCEPT ![s] =
       [pc |-> "toggles", cur |-> stream[s].cur, asOf |-> versionSeq,
        rules |-> IF stream[s].cur = versionSeq THEN policy["rules"] ELSE 0, crs |-> 0]]
  /\ UNCHANGED <<storeVars, handler, notify, wire, acks, edgeVars, epoch, drops>>

\* sendUpdate, first read: SecLangBundle under the read lock.
ReadBundle(s) ==
  /\ stream[s].pc = "bundle"
  /\ ~Locked
  /\ stream' = [stream EXCEPT ![s] =
       [pc |-> "toggles", cur |-> stream[s].cur, asOf |-> versionSeq,
        rules |-> policy["rules"], crs |-> 0]]
  /\ UNCHANGED <<storeVars, handler, notify, wire, acks, edgeVars, epoch, drops>>

\* Second read: ListCrsCategories, a critical section of its own.
ReadToggles(s) ==
  /\ stream[s].pc = "toggles"
  /\ ~Locked
  /\ stream' = [stream EXCEPT ![s].pc = "policy", ![s].crs = policy["crs"]]
  /\ UNCHANGED <<storeVars, handler, notify, wire, acks, edgeVars, epoch, drops>>

\* Mutant: the version is read when the message is built, after the parts.
UpdateLabelledLate(s, site) ==
  [ver |-> versionSeq, asOf |-> stream[s].asOf, epoch |-> epoch,
   rules |-> stream[s].rules, crs |-> stream[s].crs,
   site |-> site, tuning |-> policy[site]]

\* What sendUpdate sends: the parts read so far under the version it was
\* given, and the tuning of whichever site the map iteration yields first.
Update(s, site) ==
  [ver |-> stream[s].cur, asOf |-> stream[s].asOf, epoch |-> epoch,
   rules |-> stream[s].rules, crs |-> stream[s].crs,
   site |-> site, tuning |-> policy[site]]

\* Third read, DefaultPolicy without the lock, and stream.Send.
SendUpdate(s) ==
  /\ stream[s].pc = "policy"
  /\ s \in Live
  /\ Len(wire[s]) < LinkCap
  /\ \E site \in Sites : wire' = [wire EXCEPT ![s] = Append(@, Update(s, site))]
  /\ stream' = [stream EXCEPT ![s] = [FreeStream EXCEPT !.pc = "select", !.cur = stream[s].cur]]
  /\ UNCHANGED <<storeVars, handler, notify, acks, edgeVars, epoch, drops>>

\* The select loop takes a ping.  Only this handler sees it; a version other
\* than the remembered one starts sendUpdate.  A handler whose connection is
\* gone may still take one: select chooses among the ready cases at random.
Wake(s) ==
  /\ stream[s].pc = "select"
  /\ notify # <<>>
  /\ notify' = Tail(notify)
  /\ stream' = IF Head(notify) # stream[s].cur
                 THEN [stream EXCEPT ![s].pc = "bundle", ![s].cur = Head(notify)]
                 ELSE stream
  /\ UNCHANGED <<storeVars, handler, wire, acks, edgeVars, epoch, drops>>

\* stream.Send fails on a lost connection, or the select takes one of its other
\* two cases, errCh or the context's Done: the handler returns, its ack goroutine
\* ends and what it has not received is gone.
Return(s) ==
  /\ stream[s].pc \in {"policy", "select"}
  /\ s \notin Live
  /\ stream' = [stream EXCEPT ![s] = FreeStream]
  /\ acks' = [acks EXCEPT ![s] = <<>>]
  /\ UNCHANGED <<storeVars, handler, notify, wire, edgeVars, epoch, drops>>

\* Mutant: any ack of a known node counts, whichever version it names.
MarkSyncedAnyVersion(n, ver) ==
  IF registry[n].sync # "ABSENT"
    THEN [registry EXCEPT ![n] = [sync |-> "IN_SYNC", ver |-> ver]]
    ELSE registry

\* Store.MarkSynced: an ack of the current version puts a known node IN_SYNC.
MarkSynced(n, ver) ==
  IF registry[n].sync # "ABSENT" /\ ver = versionSeq
    THEN [registry EXCEPT ![n] = [sync |-> "IN_SYNC", ver |-> ver]]
    ELSE registry

\* The ack goroutine of a StreamConfigs call: ack.Applied is only logged.
ReceiveAck(s) ==
  /\ acks[s] # <<>>
  /\ ~Locked
  /\ registry' = MarkSynced(Head(acks[s]).node, Head(acks[s]).ver)
  /\ acks' = [acks EXCEPT ![s] = Tail(@)]
  /\ UNCHANGED <<versionSeq, policy, edits, handler, notify, stream, wire,
                 edgeVars, epoch, drops>>

-----------------------------------------------------------------------------
(* grpcsrv and store: enrolment and heartbeats *)

\* Mutant: the status of a new node is left at its zero value.
UpsertNodeUnset(n) ==
  IF registry[n].sync = "ABSENT"
    THEN [registry EXCEPT ![n] = [sync |-> "", ver |-> versionSeq]]
    ELSE registry

\* Store.UpsertNode: a new node is IN_SYNC at the current version, a known one
\* keeps its status.
UpsertNode(n) ==
  IF registry[n].sync = "ABSENT"
    THEN [registry EXCEPT ![n] = [sync |-> "IN_SYNC", ver |-> versionSeq]]
    ELSE registry

\* The response carries the version and the SecLang bundle, read one after the
\* other; the client of this repository prints their sizes, so no agent's
\* configuration depends on them here.
Register(n) ==
  /\ ~Locked
  /\ registry' = UpsertNode(n)
  /\ UNCHANGED <<versionSeq, policy, edits, handler, grpcVars, edgeVars, epoch, drops>>

StaleNever(ver) == FALSE  \* mutant: heartbeats never ask for a re-sync

\* Mutant: the comparison with the current version is off by one.
StaleUpToCurrent(ver) == ver # NoVersion /\ ver <= versionSeq

\* Store.Heartbeat asks a node to re-sync when it reports another version.
Stale(ver) == ver # NoVersion /\ ver # versionSeq

HeartbeatKnown(n) ==
  LET stale == Stale(hb[n].ver) IN
  /\ hb[n].pc = "sent"
  /\ ~Locked
  /\ registry[n].sync # "ABSENT"
  /\ registry' = [registry EXCEPT
       ![n].sync = IF stale THEN "PENDING_UPDATE" ELSE "IN_SYNC"]
  /\ hb' = [hb EXCEPT ![n] = IF stale THEN DesiredBeat ELSE IdleBeat]
  /\ UNCHANGED <<versionSeq, policy, edits, handler, grpcVars, agent, link, epoch, drops>>

\* An unknown node is enrolled in a second critical section, then told to
\* re-sync whatever it reported.
HeartbeatUnknown(n) ==
  /\ hb[n].pc = "sent"
  /\ ~Locked
  /\ registry[n].sync = "ABSENT"
  /\ hb' = [hb EXCEPT ![n] = EnrollBeat]
  /\ UNCHANGED <<storeVars, handler, grpcVars, agent, link, epoch, drops>>

Enroll(n) ==
  /\ hb[n].pc = "enroll"
  /\ ~Locked
  /\ registry' = UpsertNode(n)
  /\ hb' = [hb EXCEPT ![n] = DesiredBeat]
  /\ UNCHANGED <<versionSeq, policy, edits, handler, grpcVars, agent, link, epoch, drops>>

-----------------------------------------------------------------------------
(* Edge agents *)

\* The agent takes the next update from its stream and acks it.
Answer(n, applied) ==
  LET s == link[n].stream IN
  /\ s # NoStream
  /\ wire[s] # <<>>
  /\ Len(acks[s]) < LinkCap
  /\ wire' = [wire EXCEPT ![s] = Tail(@)]
  /\ acks' = [acks EXCEPT ![s] =
                Append(@, [node |-> n, ver |-> Head(wire[s]).ver, applied |-> applied])]
  /\ link' = [link EXCEPT ![n] = [stream |-> s, served |-> TRUE]]
  /\ UNCHANGED <<storeVars, handler, notify, stream, hb, epoch, drops>>

ReceiveUpdate(n) ==
  /\ Answer(n, TRUE)
  /\ agent' = [agent EXCEPT ![n] = Head(wire[link[n].stream])]

\* An agent that cannot load the update keeps what it runs.
RejectUpdate(n) ==
  /\ MayReject
  /\ Answer(n, FALSE)
  /\ UNCHANGED agent

\* Agents report what they run, "" before their first configuration, and repeat
\* it as the stream of the protocol lets them; they keep it while they run.
SendHeartbeat(n) ==
  /\ hb[n].pc = "idle"
  /\ hb' = [hb EXCEPT ![n] = [pc |-> "sent", ver |-> agent[n].ver]]
  /\ UNCHANGED <<storeVars, handler, grpcVars, agent, link, epoch, drops>>

\* Messages in flight towards an agent that has left its stream are lost.
Dropped(n) == [s \in Streams |-> IF s = link[n].stream THEN <<>> ELSE wire[s]]

\* A non-empty desired version: the agent leaves a stream that has served it
\* and will open another, whose handler sends the current configuration.
ReSync(n) ==
  /\ hb[n].pc = "desired"
  /\ hb' = [hb EXCEPT ![n] = IdleBeat]
  /\ IF link[n].served
       THEN link' = [link EXCEPT ![n] = NoLink] /\ wire' = Dropped(n)
       ELSE UNCHANGED <<link, wire>>
  /\ UNCHANGED <<storeVars, handler, notify, stream, acks, agent, epoch, drops>>

\* The connection of an agent breaks: its stream ends, a heartbeat or an answer
\* in flight is lost, an enrolment that has begun runs to its end.
ConnectionLost(n) ==
  /\ drops < MaxDrops
  /\ drops' = drops + 1
  /\ link' = [link EXCEPT ![n] = NoLink]
  /\ wire' = Dropped(n)
  /\ hb' = IF hb[n].pc = "enroll" THEN hb ELSE [hb EXCEPT ![n] = IdleBeat]
  /\ UNCHANGED <<storeVars, handler, notify, stream, acks, agent, epoch>>

-----------------------------------------------------------------------------
(* A new process: New, SeedDemo and LoadFromPostgres.  The version starts      *)
(* again, CRS toggles and site tunings are the seed's (their rows are never    *)
(* written), rules are what the database kept, the seed's, or a mix.           *)
(* Agents keep running what they have.                                         *)

Restart ==
  /\ epoch < MaxRestarts
  /\ epoch' = epoch + 1
  /\ versionSeq' = FirstSeq
  /\ edits' = edits + 1
  /\ \E r \in {0, policy["rules"], edits + 1} :
       policy' = [p \in Parts |-> IF p = "rules" THEN r ELSE 0]
  /\ registry' = Seeded
  /\ handler' = [h \in Handlers |-> IdleHandler]
  /\ notify' = <<>>
  /\ stream' = [s \in Streams |-> FreeStream]
  /\ wire' = [s \in Streams |-> <<>>]
  /\ acks' = [s \in Streams |-> <<>>]
  /\ link' = [n \in Nodes |-> NoLink]
  /\ hb' = [n \in Nodes |-> IdleBeat]
  /\ UNCHANGED <<agent, drops>>

-----------------------------------------------------------------------------
HandlerStep(s) ==
  \/ ReadBundle(s) \/ ReadToggles(s) \/ SendUpdate(s)
  \/ Wake(s) \/ Return(s)

HeartbeatStep(n) == HeartbeatKnown(n) \/ HeartbeatUnknown(n) \/ Enroll(n)

Next ==
  \/ \E h \in Handlers : RestStep(h) \/ NotifyStep(h)
  \/ \E s \in Streams : HandlerStep(s) \/ ReceiveAck(s)
  \/ \E n \in Nodes : \/ Register(n) \/ HeartbeatStep(n)
                      \/ \E s \in Streams : OpenStream(n, s)
                      \/ ReceiveUpdate(n) \/ RejectUpdate(n)
                      \/ SendHeartbeat(n) \/ ReSync(n) \/ ConnectionLost(n)
  \/ Restart

Spec == Init /\ [][Next]_vars

\* Every goroutine the process has started keeps running, agents keep their
\* stream open, read it, beat and follow a request to re-sync.  Nothing is
\* assumed of the administrators, of losses or of restarts.
Fairness ==
  /\ \A h \in Handlers : WF_vars(NotifyStep(h))
  /\ \A s \in Streams : WF_vars(HandlerStep(s)) /\ WF_vars(ReceiveAck(s))
  /\ \A n \in Nodes : /\ WF_vars(HeartbeatStep(n))
                      /\ WF_vars(\E s \in Streams : OpenStream(n, s))
                      /\ WF_vars(ReceiveUpdate(n))
                      /\ WF_vars(SendHeartbeat(n))
                      /\ WF_vars(ReSync(n))

FairSpec == Spec /\ Fairness

-----------------------------------------------------------------------------
(* Properties *)

\* Every variable has its type; in particular a node in the store always has one
\* of the two statuses the fleet view knows (types.go:15-16), whichever of
\* UpsertNode, MarkSynced and Heartbeat wrote it last.
TypeOK ==
  /\ versionSeq \in Nat
  /\ policy \in [Parts -> Nat]
  /\ edits \in Nat
  /\ registry \in [Nodes -> NodeState]
  /\ handler \in [Handlers -> HandlerState]
  /\ notify \in Seq(Nat) /\ Len(notify) <= NotifyCap
  /\ stream \in [Streams -> StreamState]
  /\ wire \in [Streams -> Seq(ConfigUpdate)]
  /\ acks \in [Streams -> Seq(ConfigAck)]
  /\ agent \in [Nodes -> ConfigUpdate]
  /\ link \in [Nodes -> LinkState]
  /\ hb \in [Nodes -> BeatState]
  /\ epoch \in Nat
  /\ drops \in Nat

\* Configuration c holds what the store holds now.  A site whose tuning is
\* being assigned has no settled value yet.
Current(c) ==
  /\ c.rules = policy["rules"]
  /\ c.crs = policy["crs"]
  /\ c.site \notin Writing => c.tuning = policy[c.site]

\* An update that bears the store's version was sent by this process and bears
\* the store's content, although sendUpdate reads the version first and the
\* parts later, one by one, while handlers edit them (server.go:56-97).
Fresh(c) == c.epoch = epoch /\ c.ver = versionSeq => Current(c)

PushFresh ==
  /\ \A n \in Nodes : Fresh(agent[n])
  /\ \A s \in Streams : \A i \in 1..Len(wire[s]) : Fresh(wire[s][i])

\* No update replaces what an agent runs by an older edit of the same part,
\* not even one whose version goes backwards (server.go:79-82).
NoRollback ==
  [][\A n \in Nodes : agent'[n].epoch = agent[n].epoch =>
       /\ agent'[n].rules >= agent[n].rules
       /\ agent'[n].crs >= agent[n].crs
       /\ agent'[n].site = agent[n].site => agent'[n].tuning >= agent[n].tuning]_vars

\* The heartbeat of n on its way reports no configuration: Heartbeat then answers
\* that the node is in sync, whatever the store shows of it (store.go:123-127).
ReportsNothing(n) == hb[n].pc = "sent" /\ hb[n].ver = NoVersion

\* Until the control plane restarts, and if agents apply what they ack, a node
\* shown PENDING_UPDATE, by the seed or by a heartbeat, turns IN_SYNC only when it
\* runs the store's content: neither a late ack nor a late heartbeat that names a
\* version is believed (store.go:75-81, 124-128).
RecoveryHonest ==
  [][\A n \in Nodes :
       /\ ~MayReject
       /\ epoch = 0 /\ UNCHANGED epoch
       /\ ~ReportsNothing(n)
       /\ registry[n].sync = "PENDING_UPDATE"
       /\ registry'[n].sync = "IN_SYNC"
       => Current(agent[n])]_vars

\* Once administrators stop, every agent ends up running the store's content
\* under the store's version and shown IN_SYNC, whatever pings were lost to a
\* full channel, to another stream or to a dead one.
Converged ==
  \A n \in Nodes : /\ agent[n].epoch = epoch
                   /\ agent[n].ver = versionSeq
                   /\ Current(agent[n])
                   /\ registry[n].sync = "IN_SYNC"

Convergence == <>[]Converged

\* What is on its way to an agent or back, pings and heartbeats included, bears
\* the store's version too.
CaughtUp ==
  /\ Converged
  /\ \A h \in Handlers : handler[h].pc = "post" => handler[h].ver = versionSeq
  /\ \A i \in 1..Len(notify) : notify[i] = versionSeq
  /\ \A s \in Streams :
       /\ stream[s].pc # "free" => stream[s].cur = versionSeq
       /\ \A i \in 1..Len(wire[s]) : wire[s][i].ver = versionSeq
  /\ \A n \in Nodes : hb[n].pc = "sent" => hb[n].ver = versionSeq

\* Agents that have caught up fall behind again only by a change of the policy or
\* a restart: no late ack or heartbeat, repeated ping, re-sync, lost connection or
\* bundle read anew undoes it (store.go:75-81, 116-129, server.go:52-114).
StaysCaughtUp ==
  [][CaughtUp /\ UNCHANGED <<versionSeq, policy, epoch>> => CaughtUp']_vars

\* The edges see what EdgePolicy promises, whatever pings, messages, handlers and
\* streams lie between them and the store (server.go:26-114, store.go:75-129): no
\* configuration an agent runs changes in place, undoes an edit it has, is ahead of
\* the store or passes for a present one that it is not.
Edge == INSTANCE EdgePolicy WITH version <- versionSeq, unsettled <- Writing, config <- agent

EdgeSpec == Edge!Spec

-----------------------------------------------------------------------------
(* What the documentation says and the code does not do *)

\* No ping is pending or about to be sent and every stream handler waits.
Quiescent ==
  /\ notify = <<>>
  /\ \A h \in Handlers : handler[h].pc = "idle"
  /\ \A s \in Streams : stream[s].pc \in {"free", "select"}

\* server.go:26, "wakes all streaming nodes after a policy mutation": when
\* nothing is left to be delivered every stream has sent the current version.
WakesAll ==
  Quiescent => \A s \in Streams : stream[s].pc = "select" => stream[s].cur = versionSeq

\* router.go:117, "bumps edge nodes after any policy mutation": with one stream
\* and one handler at a time no ping can be lost or late, so the stream of an
\* idle control plane has sent the current version.
BumpsAfterAnyMutation ==
  Cardinality(Streams) = 1 /\ Cardinality(Handlers) = 1 => WakesAll

\* README.md:78, "Nodes ack applied versions; the fleet view shows IN_SYNC /
\* PENDING_UPDATE per node": a refused version does not turn a node IN_SYNC.
RefusedStaysPending ==
  [][\A n \in Nodes :
       /\ epoch = 0 /\ UNCHANGED epoch
       /\ ~ReportsNothing(n)
       /\ registry[n].sync = "PENDING_UPDATE"
       /\ registry'[n].sync = "IN_SYNC"
       => Current(agent[n])]_vars

\* store.go:83, "DefaultPolicy returns the first site's tuning": two agents at
\* the current version run the tuning of the same site.
SameTuning ==
  \A m, n \in Nodes :
    (/\ agent[m].epoch = epoch /\ agent[m].ver = versionSeq
     /\ agent[n].epoch = epoch /\ agent[n].ver = versionSeq)
    => agent[m].site = agent[n].site
=============================================================================
