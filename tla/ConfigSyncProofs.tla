-------------------------- MODULE ConfigSyncProofs --------------------------
(***************************************************************************)
(* Proofs about ConfigSync, for every value of its constants: types, the   *)
(* freshness of pushed configurations across restarts, the honesty of a    *)
(* recovered sync status, the order of updates, and that agents which have *)
(* caught up stay so.                                                      *)
(***************************************************************************)
EXTENDS ConfigSync, SequenceTheorems, TLAPS

-----------------------------------------------------------------------------
(* Sequences as channels *)

\* The elements a receive leaves in the channel were there before it, one
\* position further on.
LEMMA TailElements ==
  ASSUME NEW S, NEW q \in Seq(S), q # <<>>
  PROVE  /\ Tail(q) \in Seq(S)
         /\ Head(q) \in S
         /\ Head(q) = q[1]
         /\ Len(q) \in Nat \ {0}
         /\ Len(Tail(q)) = Len(q) - 1
         /\ \A i \in 1..Len(Tail(q)) : i + 1 \in 1..Len(q) /\ Tail(q)[i] = q[i + 1]
  OBVIOUS

\* A send appends one element and leaves the others where they are.
LEMMA AppendElements ==
  ASSUME NEW S, NEW q \in Seq(S), NEW e \in S
  PROVE  /\ Append(q, e) \in Seq(S)
         /\ Len(q) \in Nat
         /\ Len(Append(q, e)) = Len(q) + 1
         /\ \A i \in 1..Len(Append(q, e)) :
              Append(q, e)[i] = IF i = Len(q) + 1 THEN e ELSE q[i]
  OBVIOUS

-----------------------------------------------------------------------------
(* Types *)

LEMMA InitTypeOK == Init => TypeOK
<1> SUFFICES ASSUME Init PROVE TypeOK
  OBVIOUS
<1>1. (CHOOSE s \in Sites : TRUE) \in Sites
  BY SitesAssumption
<1>2. NoConfig \in ConfigUpdate
  BY <1>1 DEF NoConfig, ConfigUpdate, NoVersion
<1> QED
  BY <1>2, SeqAssumption, CapAssumption, SeedAssumption
     DEF Init, TypeOK, IdleHandler, FreeStream, NoLink, IdleBeat, Parts,
         NodeState, HandlerState, StreamState, LinkState, BeatState

LEMMA NextTypeOK == TypeOK /\ [Next]_vars => TypeOK'
<1> SUFFICES ASSUME TypeOK, [Next]_vars PROVE TypeOK'
  OBVIOUS
<1> USE DEF TypeOK, storeVars, grpcVars, edgeVars
<1>1. ASSUME NEW h \in Handlers, NEW part \in Parts, NEW next \in {"version", "idle"},
             Edit(h, part, next)
      PROVE  TypeOK'
  <2>1. handler' \in [Handlers -> HandlerState]
    BY <1>1 DEF Edit, HandlerState
  <2> QED
    BY <1>1, <2>1 DEF Edit
<1>2. ASSUME NEW h \in Handlers, Bump(h) PROVE TypeOK'
  <2>1. handler' \in [Handlers -> HandlerState]
    BY <1>2 DEF Bump, HandlerState
  <2> QED
    BY <1>2, <2>1 DEF Bump
<1>3. ASSUME NEW h \in Handlers, NotifyOnly(h) PROVE TypeOK'
  <2>1. handler' \in [Handlers -> HandlerState]
    BY <1>3 DEF NotifyOnly, HandlerState
  <2> QED
    BY <1>3, <2>1 DEF NotifyOnly
<1>4. ASSUME NEW h \in Handlers, NEW site \in Sites, BeginUpdateSite(h, site) PROVE TypeOK'
  <2>1. handler' \in [Handlers -> HandlerState] /\ policy' \in [Parts -> Nat]
    BY <1>4 DEF BeginUpdateSite, HandlerState, Parts
  <2> QED
    BY <1>4, <2>1 DEF BeginUpdateSite
<1>5. ASSUME NEW h \in Handlers, FinishUpdateSite(h) PROVE TypeOK'
  <2>1. handler' \in [Handlers -> HandlerState] /\ policy' \in [Parts -> Nat]
    BY <1>5 DEF FinishUpdateSite, IdleHandler, HandlerState, Parts
  <2> QED
    BY <1>5, <2>1 DEF FinishUpdateSite
<1>6. ASSUME NEW h \in Handlers, ReadVersion(h) PROVE TypeOK'
  <2>1. handler' \in [Handlers -> HandlerState]
    BY <1>6 DEF ReadVersion, HandlerState
  <2> QED
    BY <1>6, <2>1 DEF ReadVersion
<1>7. ASSUME NEW h \in Handlers, PostPing(h) PROVE TypeOK'
  <2>1. notify' \in Seq(Nat) /\ Len(notify') <= NotifyCap
    BY <1>7, CapAssumption, AppendElements DEF PostPing, Posted, HandlerState
  <2>2. handler' \in [Handlers -> HandlerState]
    BY <1>7 DEF PostPing, IdleHandler, HandlerState, Parts
  <2> QED
    BY <1>7, <2>1, <2>2 DEF PostPing
<1>8. ASSUME NEW n \in Nodes, NEW s \in Streams, OpenStream(n, s) PROVE TypeOK'
  <2>1. stream' \in [Streams -> StreamState] /\ link' \in [Nodes -> LinkState]
    BY <1>8 DEF OpenStream, FreeStream, StreamState, LinkState
  <2> QED
    BY <1>8, <2>1 DEF OpenStream
<1>9. ASSUME NEW s \in Streams, ReadBundle(s) PROVE TypeOK'
  <2>1. policy["rules"] \in Nat
    BY DEF Parts
  <2>2. stream' \in [Streams -> StreamState]
    BY <1>9, <2>1 DEF ReadBundle, StreamState
  <2> QED
    BY <1>9, <2>2 DEF ReadBundle
<1>10. ASSUME NEW s \in Streams, ReadToggles(s) PROVE TypeOK'
  <2>1. stream' \in [Streams -> StreamState]
    BY <1>10 DEF ReadToggles, StreamState, Parts
  <2> QED
    BY <1>10, <2>1 DEF ReadToggles
<1>11. ASSUME NEW s \in Streams, SendUpdate(s) PROVE TypeOK'
  <2>1. PICK site \in Sites : wire' = [wire EXCEPT ![s] = Append(@, Update(s, site))]
    BY <1>11 DEF SendUpdate
  <2>2. Update(s, site) \in ConfigUpdate
    BY DEF Update, ConfigUpdate, StreamState, Parts
  <2>3. wire' \in [Streams -> Seq(ConfigUpdate)]
    BY <2>1, <2>2, AppendElements
  <2>4. stream' \in [Streams -> StreamState]
    BY <1>11 DEF SendUpdate, FreeStream, StreamState
  <2> QED
    BY <1>11, <2>3, <2>4 DEF SendUpdate
<1>12. ASSUME NEW s \in Streams, Wake(s) PROVE TypeOK'
  <2>1. notify' \in Seq(Nat) /\ Len(notify') <= NotifyCap /\ Head(notify) \in Nat
    BY <1>12, CapAssumption, TailElements DEF Wake
  <2>2. stream' \in [Streams -> StreamState]
    BY <1>12, <2>1 DEF Wake, StreamState
  <2> QED
    BY <1>12, <2>1, <2>2 DEF Wake
<1>13. ASSUME NEW s \in Streams, Return(s) PROVE TypeOK'
  <2>1. stream' \in [Streams -> StreamState]
    BY <1>13 DEF Return, FreeStream, StreamState
  <2> QED
    BY <1>13, <2>1 DEF Return
<1>14. ASSUME NEW s \in Streams, ReceiveAck(s) PROVE TypeOK'
  <2>1. Tail(acks[s]) \in Seq(ConfigAck) /\ Head(acks[s]) \in ConfigAck
    BY <1>14, TailElements DEF ReceiveAck
  <2>2. registry' \in [Nodes -> NodeState]
    BY <1>14, <2>1 DEF ReceiveAck, MarkSynced, ConfigAck, NodeState
  <2> QED
    BY <1>14, <2>1, <2>2 DEF ReceiveAck
<1>15. ASSUME NEW n \in Nodes, Register(n) PROVE TypeOK'
  <2>1. registry' \in [Nodes -> NodeState]
    BY <1>15 DEF Register, UpsertNode, NodeState
  <2> QED
    BY <1>15, <2>1 DEF Register
<1>16. ASSUME NEW n \in Nodes, HeartbeatKnown(n) PROVE TypeOK'
  <2>1. registry' \in [Nodes -> NodeState]
    BY <1>16 DEF HeartbeatKnown, NodeState
  <2>2. hb' \in [Nodes -> BeatState]
    BY <1>16 DEF HeartbeatKnown, IdleBeat, EnrollBeat, DesiredBeat, BeatState
  <2> QED
    BY <1>16, <2>1, <2>2 DEF HeartbeatKnown
<1>17. ASSUME NEW n \in Nodes, HeartbeatUnknown(n) PROVE TypeOK'
  <2>1. registry' \in [Nodes -> NodeState]
    BY <1>17 DEF HeartbeatUnknown, NodeState
  <2>2. hb' \in [Nodes -> BeatState]
    BY <1>17 DEF HeartbeatUnknown, IdleBeat, EnrollBeat, DesiredBeat, BeatState
  <2> QED
    BY <1>17, <2>1, <2>2 DEF HeartbeatUnknown
<1>18. ASSUME NEW n \in Nodes, Enroll(n) PROVE TypeOK'
  <2>1. registry' \in [Nodes -> NodeState]
    BY <1>18 DEF Enroll, UpsertNode, NodeState
  <2>2. hb' \in [Nodes -> BeatState]
    BY <1>18 DEF Enroll, IdleBeat, EnrollBeat, DesiredBeat, BeatState
  <2> QED
    BY <1>18, <2>1, <2>2 DEF Enroll
<1>19. ASSUME NEW n \in Nodes, NEW b \in BOOLEAN, Answer(n, b),
              agent' = agent \/ agent' = [agent EXCEPT ![n] = Head(wire[link[n].stream])]
       PROVE  TypeOK'
  <2> DEFINE s == link[n].stream
             ack == [node |-> n, ver |-> Head(wire[s]).ver, applied |-> b]
  <2>1. s \in Streams /\ wire[s] # <<>>
    BY <1>19 DEF Answer, LinkState
  <2>2. Tail(wire[s]) \in Seq(ConfigUpdate) /\ Head(wire[s]) \in ConfigUpdate
    BY <2>1, TailElements
  <2>3. ack \in ConfigAck
    BY <2>2 DEF ConfigAck, ConfigUpdate
  <2>4. Append(acks[s], ack) \in Seq(ConfigAck)
    BY <2>1, <2>3, AppendElements
  <2>5. acks' \in [Streams -> Seq(ConfigAck)]
    BY <1>19, <2>4 DEF Answer
  <2>6. wire' \in [Streams -> Seq(ConfigUpdate)]
    BY <1>19, <2>2 DEF Answer
  <2>7. link' \in [Nodes -> LinkState]
    BY <1>19, <2>1 DEF Answer, LinkState
  <2>8. agent' \in [Nodes -> ConfigUpdate]
    BY <1>19, <2>2
  <2> QED
    BY <1>19, <2>5, <2>6, <2>7, <2>8 DEF Answer
<1>20. ASSUME NEW n \in Nodes, SendHeartbeat(n) PROVE TypeOK'
  <2>1. hb' \in [Nodes -> BeatState]
    BY <1>20 DEF SendHeartbeat, ConfigUpdate, BeatState
  <2> QED
    BY <1>20, <2>1 DEF SendHeartbeat
<1>21. ASSUME NEW n \in Nodes, ReSync(n) PROVE TypeOK'
  <2>1. Dropped(n) \in [Streams -> Seq(ConfigUpdate)]
    BY DEF Dropped
  <2>2. [hb EXCEPT ![n] = IdleBeat] \in [Nodes -> BeatState]
    BY DEF IdleBeat, BeatState
  <2>3. [link EXCEPT ![n] = NoLink] \in [Nodes -> LinkState]
    BY DEF NoLink, LinkState
  <2> QED
    BY <1>21, <2>1, <2>2, <2>3 DEF ReSync
<1>22. ASSUME NEW n \in Nodes, ConnectionLost(n) PROVE TypeOK'
  <2>1. Dropped(n) \in [Streams -> Seq(ConfigUpdate)]
    BY DEF Dropped
  <2>2. [hb EXCEPT ![n] = IdleBeat] \in [Nodes -> BeatState]
    BY DEF IdleBeat, BeatState
  <2>3. [link EXCEPT ![n] = NoLink] \in [Nodes -> LinkState]
    BY DEF NoLink, LinkState
  <2> QED
    BY <1>22, <2>1, <2>2, <2>3 DEF ConnectionLost
<1>23. ASSUME Restart PROVE TypeOK'
  <2>1. policy' \in [Parts -> Nat]
    BY <1>23 DEF Restart, Parts
  <2> QED
    BY <1>23, <2>1, SeqAssumption, CapAssumption, SeedAssumption
       DEF Restart, IdleHandler, FreeStream, NoLink, IdleBeat, Parts,
           NodeState, HandlerState, StreamState, LinkState, BeatState
<1>24. CASE UNCHANGED vars
  BY <1>24 DEF vars
<1> HIDE DEF TypeOK
<1>25. ASSUME NEW h \in Handlers, RestStep(h) PROVE TypeOK'
  BY <1>1, <1>2, <1>3, <1>4, <1>25
     DEF RestStep, CreateRule, UpdateRule, DeleteRule, CreateException, DeleteException,
         ToggleCrs, AddIp, DeleteIp, AddRateLimit, DeleteRateLimit, UpdateRateLimit,
         UpdateBot, Parts
<1>26. ASSUME NEW n \in Nodes, ReceiveUpdate(n) \/ RejectUpdate(n) PROVE TypeOK'
  BY <1>19, <1>26 DEF ReceiveUpdate, RejectUpdate
<1> QED
  BY <1>5, <1>6, <1>7, <1>8, <1>9, <1>10, <1>11, <1>12, <1>13, <1>14, <1>15, <1>16, <1>17, <1>18, <1>20, <1>21, <1>22, <1>23, <1>24, <1>25, <1>26
     DEF Next, NotifyStep, HandlerStep, HeartbeatStep

\* Every variable keeps its type in every behaviour, whatever the bounds: in
\* particular the default case of NotifyConfigUpdate keeps the ping channel
\* within its capacity (server.go:28-32).
THEOREM TypeCorrect == Spec => []TypeOK
BY InitTypeOK, NextTypeOK, PTL DEF Spec
-----------------------------------------------------------------------------
(* Freshness of pushed configurations *)

\* A version label is never ahead of the reads it stands for, and a
\* configuration read entirely under the store's present version holds the
\* store's present content.
Stamped(c) ==
  c.epoch = epoch => /\ c.ver <= c.asOf
                     /\ c.asOf <= versionSeq
                     /\ c.asOf = versionSeq => Current(c)

\* sendUpdate of stream s has read the bundle, and has not sent it yet.
Reading(s) == stream[s].pc \in {"toggles", "policy"}

\* No version read earlier is ahead of the store's.
PingInv ==
  /\ \A h \in Handlers : handler[h].pc = "post" => handler[h].ver <= versionSeq
  /\ \A i \in 1..Len(notify) : notify[i] <= versionSeq
  /\ \A s \in Streams : stream[s].cur <= versionSeq

\* What sendUpdate has read so far is as Stamped asks of the finished message.
ReadInv ==
  \A s \in Streams : Reading(s) =>
    /\ stream[s].cur <= stream[s].asOf
    /\ stream[s].asOf <= versionSeq
    /\ stream[s].asOf = versionSeq => stream[s].rules = policy["rules"]
    /\ stream[s].asOf = versionSeq /\ stream[s].pc = "policy"
         => stream[s].crs = policy["crs"]

WireInv ==
  \A s \in Streams : \A i \in 1..Len(wire[s]) :
    wire[s][i].epoch = epoch /\ Stamped(wire[s][i])

AgentInv == \A n \in Nodes : agent[n].epoch <= epoch /\ Stamped(agent[n])

PushInv == PingInv /\ ReadInv /\ WireInv /\ AgentInv

LEMMA InitPushInv == Init => PushInv
BY SeqAssumption, SitesAssumption
   DEF Init, PushInv, PingInv, ReadInv, WireInv, AgentInv, Reading, Stamped, Current,
       Writing, NoConfig, NoVersion, FreeStream, IdleHandler, Parts

\* Everything on a wire is a ConfigUpdate.
LEMMA WireElements ==
  ASSUME TypeOK
  PROVE  \A s \in Streams : \A i \in 1..Len(wire[s]) : wire[s][i] \in ConfigUpdate
BY DEF TypeOK

\* An edit that bumps the version leaves every older reading behind.
LEMMA BumpKeepsPushInv ==
  ASSUME TypeOK, PushInv, versionSeq' = versionSeq + 1,
         \A h \in Handlers : handler'[h].pc # "post" \/ handler'[h] = handler[h],
         UNCHANGED <<notify, stream, wire, agent, epoch>>
  PROVE  PushInv'
<1>1. PingInv'
  <2>1. \A v \in Nat : v <= versionSeq => v <= versionSeq'
    BY DEF TypeOK
  <2>2. \A h \in Handlers : handler'[h].pc = "post" => handler'[h].ver <= versionSeq'
    BY <2>1 DEF PushInv, PingInv, TypeOK, HandlerState
  <2>3. \A i \in 1..Len(notify') : notify'[i] <= versionSeq'
    BY <2>1 DEF PushInv, PingInv, TypeOK
  <2>4. \A s \in Streams : stream'[s].cur <= versionSeq'
    BY <2>1 DEF PushInv, PingInv, TypeOK, StreamState
  <2> QED
    BY <2>2, <2>3, <2>4 DEF PingInv
<1>2. ReadInv'
  BY DEF PushInv, ReadInv, Reading, TypeOK, StreamState
<1>3. WireInv'
  <2> SUFFICES ASSUME NEW s \in Streams, NEW i \in 1..Len(wire'[s])
               PROVE  wire'[s][i].epoch = epoch' /\ Stamped(wire[s][i])'
    BY DEF WireInv
  <2> DEFINE c == wire[s][i]
  <2>1. c \in ConfigUpdate /\ c.epoch = epoch /\ Stamped(c) /\ c = wire'[s][i]
    BY WireElements DEF PushInv, WireInv
  <2>2. c.asOf <= versionSeq /\ c.ver <= c.asOf /\ versionSeq \in Nat
    BY <2>1 DEF Stamped, TypeOK
  <2>3. c.asOf < versionSeq'
    BY <2>1, <2>2 DEF ConfigUpdate
  <2> QED
    BY <2>1, <2>2, <2>3 DEF Stamped, ConfigUpdate
<1>4. AgentInv'
  BY DEF PushInv, AgentInv, Stamped, TypeOK, ConfigUpdate
<1> QED
  BY <1>1, <1>2, <1>3, <1>4 DEF PushInv

\* While the store's content and version stand still, messages may leave a wire
\* and agents may take what is on one.
LEMMA DeliveryKeepsStamps ==
  ASSUME TypeOK, PushInv, UNCHANGED <<versionSeq, policy, epoch>>,
         Writing \subseteq Writing',
         \A s \in Streams : \A i \in 1..Len(wire'[s]) :
           \E j \in 1..Len(wire[s]) : wire'[s][i] = wire[s][j],
         \A n \in Nodes : \/ agent'[n] = agent[n]
                          \/ \E s \in Streams : \E j \in 1..Len(wire[s]) :
                               agent'[n] = wire[s][j]
  PROVE  WireInv' /\ AgentInv'
<1> DEFINE Sound(c) == /\ c.ver <= c.asOf
                       /\ c.asOf <= versionSeq
                       /\ c.asOf = versionSeq => /\ c.rules = policy["rules"]
                                                 /\ c.crs = policy["crs"]
                                                 /\ c.site \in Writing \/ c.tuning = policy[c.site]
<1>1. \A s \in Streams : \A j \in 1..Len(wire[s]) :
        wire[s][j].epoch = epoch /\ wire[s][j].site \in Sites /\ Sound(wire[s][j])
  BY WireElements DEF PushInv, WireInv, Stamped, Current, ConfigUpdate
<1>2. \A n \in Nodes : /\ agent[n].epoch <= epoch
                       /\ agent[n].site \in Sites
                       /\ agent[n].epoch = epoch => Sound(agent[n])
  BY DEF PushInv, AgentInv, Stamped, Current, ConfigUpdate, TypeOK
<1>3. WireInv'
  <2> SUFFICES ASSUME NEW s \in Streams, NEW i \in 1..Len(wire'[s])
               PROVE  wire'[s][i].epoch = epoch' /\ Stamped(wire[s][i])'
    BY DEF WireInv
  <2>1. PICK j \in 1..Len(wire[s]) : wire'[s][i] = wire[s][j]
    OBVIOUS
  <2> HIDE DEF Sound
  <2>2. wire'[s][i].epoch = epoch /\ wire'[s][i].site \in Sites /\ Sound(wire'[s][i])
    BY <1>1, <2>1
  <2> QED
    BY <2>2 DEF Sound, Stamped, Current
<1>4. AgentInv'
  <2> SUFFICES ASSUME NEW n \in Nodes
               PROVE  agent'[n].epoch <= epoch' /\ Stamped(agent[n])'
    BY DEF AgentInv
  <2> HIDE DEF Sound
  <2>1. /\ agent'[n].epoch <= epoch
        /\ agent'[n].site \in Sites
        /\ agent'[n].epoch = epoch => Sound(agent'[n])
    <3>1. CASE agent'[n] = agent[n]
      BY <1>2, <3>1
    <3>2. ASSUME NEW s \in Streams, NEW j \in 1..Len(wire[s]), agent'[n] = wire[s][j]
          PROVE  /\ agent'[n].epoch = epoch
                 /\ agent'[n].site \in Sites
                 /\ Sound(agent'[n])
      BY <1>1, <3>2
    <3>3. epoch <= epoch
      BY DEF TypeOK
    <3> QED
      BY <3>1, <3>2, <3>3
  <2> QED
    BY <2>1 DEF Sound, Stamped, Current
<1> QED
  BY <1>3, <1>4

LEMMA NextPushInv == TypeOK /\ PushInv /\ [Next]_vars => PushInv'
<1> SUFFICES ASSUME TypeOK, PushInv, [Next]_vars PROVE PushInv'
  OBVIOUS
<1> USE DEF storeVars, grpcVars, edgeVars
<1>1. ASSUME NEW h \in Handlers, NEW part \in Parts, NEW next \in {"version", "idle"},
             Edit(h, part, next)
      PROVE  PushInv'
  BY <1>1, BumpKeepsPushInv DEF Edit, TypeOK, HandlerState
<1>2. ASSUME NEW h \in Handlers, Bump(h) PROVE PushInv'
  BY <1>2, BumpKeepsPushInv DEF Bump, TypeOK, HandlerState
<1>3. ASSUME NEW h \in Handlers, FinishUpdateSite(h) PROVE PushInv'
  BY <1>3, BumpKeepsPushInv DEF FinishUpdateSite, IdleHandler, TypeOK, HandlerState
<1>4. ASSUME NEW h \in Handlers, NEW site \in Sites, BeginUpdateSite(h, site) PROVE PushInv'
  <2>1. Writing' = Writing \cup {site}
    BY <1>4 DEF BeginUpdateSite, Writing, TypeOK, HandlerState
  <2>2. /\ policy'["rules"] = policy["rules"] /\ policy'["crs"] = policy["crs"]
        /\ \A p \in Sites \ {site} : policy'[p] = policy[p]
    BY <1>4, SitesAssumption DEF BeginUpdateSite, TypeOK, Parts
  <2>3. PingInv'
    BY <1>4 DEF BeginUpdateSite, PushInv, PingInv, TypeOK, HandlerState
  <2>4. ReadInv'
    BY <1>4, <2>2 DEF BeginUpdateSite, PushInv, ReadInv, Reading
  <2>5. WireInv'
    BY <1>4, <2>1, <2>2, WireElements
       DEF BeginUpdateSite, PushInv, WireInv, Stamped, Current, ConfigUpdate
  <2>6. AgentInv'
    BY <1>4, <2>1, <2>2
       DEF BeginUpdateSite, PushInv, AgentInv, Stamped, Current, ConfigUpdate, TypeOK
  <2> QED
    BY <2>3, <2>4, <2>5, <2>6 DEF PushInv
<1>5. ASSUME NEW h \in Handlers, NotifyOnly(h) \/ ReadVersion(h) \/ PostPing(h) PROVE PushInv'
  <2>1. Writing' = Writing
    <3>1. \A g \in Handlers : handler'[g].pc = "write" \/ handler[g].pc = "write"
                                 => handler'[g] = handler[g]
      <4>1. CASE NotifyOnly(h)
        BY <4>1 DEF NotifyOnly, TypeOK, HandlerState
      <4>2. CASE ReadVersion(h)
        BY <4>2 DEF ReadVersion, TypeOK, HandlerState
      <4>3. CASE PostPing(h)
        BY <4>3 DEF PostPing, IdleHandler, TypeOK, HandlerState
      <4> QED
        BY <1>5, <4>1, <4>2, <4>3
    <3> QED
      BY <3>1 DEF Writing
  <2>2. PingInv'
    <3>1. CASE NotifyOnly(h)
      BY <3>1 DEF NotifyOnly, PushInv, PingInv, TypeOK, HandlerState
    <3>2. CASE ReadVersion(h)
      BY <3>2 DEF ReadVersion, PushInv, PingInv, TypeOK, HandlerState
    <3>3. CASE PostPing(h)
      <4>1. handler[h].ver \in Nat /\ handler[h].ver <= versionSeq
        BY <3>3 DEF PostPing, PushInv, PingInv, TypeOK, HandlerState
      <4>2. \A i \in 1..Len(notify') : notify'[i] <= versionSeq
        BY <3>3, <4>1, AppendElements DEF PostPing, Posted, PushInv, PingInv, TypeOK
      <4> QED
        BY <3>3, <4>2 DEF PostPing, PushInv, PingInv, IdleHandler, TypeOK, HandlerState
    <3> QED
      BY <1>5, <3>1, <3>2, <3>3
  <2>3. UNCHANGED <<versionSeq, policy, stream, wire, agent, epoch>>
    BY <1>5 DEF NotifyOnly, ReadVersion, PostPing
  <2>4. WireInv' /\ AgentInv'
    BY <2>1, <2>3, DeliveryKeepsStamps
  <2> QED
    BY <2>2, <2>3, <2>4 DEF PushInv, ReadInv, Reading
<1>6. ASSUME NEW n \in Nodes, NEW s \in Streams, OpenStream(n, s) PROVE PushInv'
  <2>1. UNCHANGED <<versionSeq, policy, handler, notify, wire, agent, epoch>>
    BY <1>6 DEF OpenStream
  <2>2. PingInv'
    BY <1>6, <2>1 DEF OpenStream, PushInv, PingInv, FreeStream, TypeOK, StreamState
  <2>3. ReadInv'
    BY <1>6, <2>1 DEF OpenStream, PushInv, ReadInv, Reading, FreeStream, TypeOK, StreamState
  <2>4. WireInv' /\ AgentInv'
    BY <2>1, DeliveryKeepsStamps DEF Writing
  <2> QED
    BY <2>2, <2>3, <2>4 DEF PushInv
<1>7. ASSUME NEW s \in Streams, ReadBundle(s) PROVE PushInv'
  <2>1. UNCHANGED <<versionSeq, policy, handler, notify, wire, agent, epoch>>
    BY <1>7 DEF ReadBundle
  <2>2. PingInv'
    BY <1>7, <2>1 DEF ReadBundle, PushInv, PingInv, TypeOK, StreamState
  <2>3. ReadInv'
    BY <1>7, <2>1 DEF ReadBundle, PushInv, PingInv, ReadInv, Reading, TypeOK, StreamState
  <2>4. WireInv' /\ AgentInv'
    BY <2>1, DeliveryKeepsStamps DEF Writing
  <2> QED
    BY <2>2, <2>3, <2>4 DEF PushInv
<1>8. ASSUME NEW s \in Streams, ReadToggles(s) PROVE PushInv'
  <2>1. UNCHANGED <<versionSeq, policy, handler, notify, wire, agent, epoch>>
    BY <1>8 DEF ReadToggles
  <2>2. PingInv'
    BY <1>8, <2>1 DEF ReadToggles, PushInv, PingInv, TypeOK, StreamState
  <2>3. ReadInv'
    BY <1>8, <2>1 DEF ReadToggles, PushInv, ReadInv, Reading, TypeOK, StreamState
  <2>4. WireInv' /\ AgentInv'
    BY <2>1, DeliveryKeepsStamps DEF Writing
  <2> QED
    BY <2>2, <2>3, <2>4 DEF PushInv
<1>9. ASSUME NEW s \in Streams, SendUpdate(s) PROVE PushInv'
  <2>1. UNCHANGED <<versionSeq, policy, handler, notify, agent, epoch>>
    BY <1>9 DEF SendUpdate
  <2>2. PICK site \in Sites : wire' = [wire EXCEPT ![s] = Append(@, Update(s, site))]
    BY <1>9 DEF SendUpdate
  <2>3. /\ Update(s, site) \in ConfigUpdate
        /\ Update(s, site).epoch = epoch
        /\ Update(s, site).ver <= Update(s, site).asOf
        /\ Update(s, site).asOf <= versionSeq
        /\ Update(s, site).asOf = versionSeq =>
             /\ Update(s, site).rules = policy["rules"]
             /\ Update(s, site).crs = policy["crs"]
             /\ Update(s, site).tuning = policy[Update(s, site).site]
    BY <1>9 DEF SendUpdate, Update, ConfigUpdate, PushInv, ReadInv, Reading,
                TypeOK, StreamState, Parts
  <2>4. PingInv'
    BY <1>9, <2>1 DEF SendUpdate, PushInv, PingInv, FreeStream, TypeOK, StreamState
  <2>5. ReadInv'
    BY <1>9, <2>1 DEF SendUpdate, PushInv, ReadInv, Reading, FreeStream, TypeOK, StreamState
  <2>6. WireInv'
    <3> SUFFICES ASSUME NEW t \in Streams, NEW i \in 1..Len(wire'[t])
                 PROVE  wire'[t][i].epoch = epoch' /\ Stamped(wire[t][i])'
      BY DEF WireInv
    <3>1. CASE i \in 1..Len(wire[t]) /\ wire'[t][i] = wire[t][i]
      BY <2>1, <3>1 DEF PushInv, WireInv, Stamped, Current, Writing
    <3>2. CASE wire'[t][i] = Update(s, site)
      BY <2>1, <2>3, <3>2 DEF Stamped, Current, Writing
    <3>3. CASE t = s
      <4>1. wire[s] \in Seq(ConfigUpdate) /\ wire'[s] = Append(wire[s], Update(s, site))
        BY <2>2 DEF TypeOK
      <4> QED
        BY <2>3, <3>1, <3>2, <3>3, <4>1, AppendElements
    <3> QED
      BY <2>2, <3>1, <3>3 DEF TypeOK
  <2>7. AgentInv'
    BY <2>1 DEF PushInv, AgentInv, Stamped, Current, Writing
  <2> QED
    BY <2>4, <2>5, <2>6, <2>7 DEF PushInv
<1>10. ASSUME NEW s \in Streams, Wake(s) PROVE PushInv'
  <2>1. UNCHANGED <<versionSeq, policy, handler, wire, agent, epoch>>
    BY <1>10 DEF Wake
  <2>2. PingInv'
    <3>1. Head(notify) \in Nat /\ Head(notify) <= versionSeq
      <4>1. Head(notify) \in Nat /\ Head(notify) = notify[1] /\ 1 \in 1..Len(notify)
        BY <1>10, TailElements DEF Wake, TypeOK
      <4> QED
        BY <4>1 DEF PushInv, PingInv
    <3>2. \A i \in 1..Len(notify') : notify'[i] <= versionSeq
      <4>1. /\ notify' = Tail(notify)
            /\ \A i \in 1..Len(Tail(notify)) :
                 i + 1 \in 1..Len(notify) /\ Tail(notify)[i] = notify[i + 1]
        BY <1>10, TailElements DEF Wake, TypeOK
      <4> QED
        BY <4>1 DEF PushInv, PingInv
    <3>3. \A t \in Streams : stream[t].cur <= versionSeq
      BY DEF PushInv, PingInv
    <3>4. \A t \in Streams : stream'[t].cur = stream[t].cur \/ stream'[t].cur = Head(notify)
      BY <1>10 DEF Wake, TypeOK, StreamState
    <3>5. \A h \in Handlers : handler[h].pc = "post" => handler[h].ver <= versionSeq
      BY DEF PushInv, PingInv
    <3> QED
      BY <2>1, <3>1, <3>2, <3>3, <3>4, <3>5 DEF PingInv
  <2>3. ReadInv'
    <3>1. \A t \in Streams : stream'[t].pc = "bundle" \/ stream'[t] = stream[t]
      BY <1>10 DEF Wake, TypeOK, StreamState
    <3>2. \A t \in Streams : Reading(t)' => Reading(t) /\ stream'[t] = stream[t]
      BY <3>1 DEF Reading
    <3> QED
      BY <2>1, <3>2 DEF PushInv, ReadInv, Reading
  <2>4. WireInv' /\ AgentInv'
    BY <2>1, DeliveryKeepsStamps DEF Writing
  <2> QED
    BY <2>2, <2>3, <2>4 DEF PushInv
<1>11. ASSUME NEW s \in Streams, Return(s) PROVE PushInv'
  <2>1. UNCHANGED <<versionSeq, policy, handler, notify, wire, agent, epoch>>
    BY <1>11 DEF Return
  <2>2. PingInv'
    BY <1>11, <2>1 DEF Return, PushInv, PingInv, FreeStream, TypeOK, StreamState
  <2>3. ReadInv'
    BY <1>11, <2>1 DEF Return, PushInv, ReadInv, Reading, FreeStream, TypeOK, StreamState
  <2>4. WireInv' /\ AgentInv'
    BY <2>1, DeliveryKeepsStamps DEF Writing
  <2> QED
    BY <2>2, <2>3, <2>4 DEF PushInv
<1>12. ASSUME UNCHANGED <<versionSeq, policy, handler, notify, stream, wire, agent, epoch>>
       PROVE  PushInv'
  BY <1>12 DEF PushInv, PingInv, ReadInv, Reading, WireInv, AgentInv, Stamped, Current, Writing
<1>13. ASSUME UNCHANGED <<versionSeq, policy, handler, notify, stream, agent, epoch>>,
              NEW n \in Nodes, wire' = Dropped(n)
       PROVE  PushInv'
  <2>1. \A s \in Streams : wire'[s] = wire[s] \/ wire'[s] = <<>>
    BY <1>13 DEF Dropped
  <2>2. WireInv' /\ AgentInv'
    BY <1>13, <2>1, DeliveryKeepsStamps DEF Writing
  <2> QED
    BY <1>13, <2>2 DEF PushInv, PingInv, ReadInv, Reading
<1>14. ASSUME NEW n \in Nodes, ReSync(n) \/ ConnectionLost(n) PROVE PushInv'
  BY <1>12, <1>13, <1>14 DEF ReSync, ConnectionLost
<1>15. ASSUME NEW n \in Nodes, ReceiveUpdate(n) \/ RejectUpdate(n) PROVE PushInv'
  <2> DEFINE s == link[n].stream
  <2>1. s \in Streams /\ wire[s] # <<>> /\ wire' = [wire EXCEPT ![s] = Tail(@)]
    BY <1>15 DEF ReceiveUpdate, RejectUpdate, Answer, LinkState, TypeOK
  <2>2. UNCHANGED <<versionSeq, policy, handler, notify, stream, epoch>>
    BY <1>15 DEF ReceiveUpdate, RejectUpdate, Answer
  <2>3. agent' = agent \/ agent' = [agent EXCEPT ![n] = Head(wire[s])]
    BY <1>15 DEF ReceiveUpdate, RejectUpdate
  <2>4. wire[s] \in Seq(ConfigUpdate)
    BY <2>1 DEF TypeOK
  <2>5. 1 \in 1..Len(wire[s]) /\ Head(wire[s]) = wire[s][1]
    BY <2>1, <2>4, TailElements
  <2>6. \A t \in Streams : \A i \in 1..Len(wire'[t]) :
          \E j \in 1..Len(wire[t]) : wire'[t][i] = wire[t][j]
    <3>1. \A i \in 1..Len(Tail(wire[s])) :
            i + 1 \in 1..Len(wire[s]) /\ Tail(wire[s])[i] = wire[s][i + 1]
      BY <2>1, <2>4, TailElements
    <3> QED
      BY <2>1, <3>1 DEF TypeOK
  <2>7. \A m \in Nodes : \/ agent'[m] = agent[m]
                         \/ \E t \in Streams : \E j \in 1..Len(wire[t]) :
                              agent'[m] = wire[t][j]
    BY <2>1, <2>3, <2>5 DEF TypeOK
  <2>8. WireInv' /\ AgentInv'
    BY <2>2, <2>6, <2>7, DeliveryKeepsStamps DEF Writing
  <2> QED
    BY <2>2, <2>8 DEF PushInv, PingInv, ReadInv, Reading
<1>16. ASSUME Restart PROVE PushInv'
  <2>1. PingInv'
    BY <1>16, SeqAssumption DEF Restart, PingInv, IdleHandler, FreeStream
  <2>2. ReadInv'
    BY <1>16 DEF Restart, ReadInv, Reading, FreeStream
  <2>3. WireInv'
    BY <1>16 DEF Restart, WireInv
  <2>4. AgentInv'
    BY <1>16 DEF Restart, PushInv, AgentInv, Stamped, ConfigUpdate, TypeOK
  <2> QED
    BY <2>1, <2>2, <2>3, <2>4 DEF PushInv
<1>17. ASSUME NEW h \in Handlers, RestStep(h) PROVE PushInv'
  BY <1>1, <1>2, <1>4, <1>5, <1>17
     DEF RestStep, CreateRule, UpdateRule, DeleteRule, CreateException, DeleteException,
         ToggleCrs, AddIp, DeleteIp, AddRateLimit, DeleteRateLimit, UpdateRateLimit,
         UpdateBot, Parts
<1>18. ASSUME NEW s \in Streams, ReceiveAck(s) PROVE PushInv'
  BY <1>12, <1>18 DEF ReceiveAck
<1>19. ASSUME NEW n \in Nodes, Register(n) \/ HeartbeatStep(n) \/ SendHeartbeat(n)
       PROVE  PushInv'
  BY <1>12, <1>19
     DEF Register, HeartbeatStep, HeartbeatKnown, HeartbeatUnknown, Enroll, SendHeartbeat
<1>20. CASE UNCHANGED vars
  BY <1>12, <1>20 DEF vars
<1> QED
  BY <1>3, <1>5, <1>6, <1>7, <1>8, <1>9, <1>10, <1>11, <1>14, <1>15, <1>16, <1>17,
     <1>18, <1>19, <1>20 DEF Next, NotifyStep, HandlerStep

\* An update that bears the store's version bears the store's content, in every
\* behaviour: restarts, lost connections, dropped, late and stolen pings, and
\* UpdateSite caught between two field writes (server.go:56-97).
THEOREM PushedIsFresh == Spec => []PushFresh
<1>1. TypeOK /\ PushInv => PushFresh
  <2> SUFFICES ASSUME TypeOK, PushInv PROVE PushFresh
    OBVIOUS
  <2>1. \A n \in Nodes : Fresh(agent[n])
    BY DEF PushInv, AgentInv, Stamped, Fresh, TypeOK, ConfigUpdate
  <2>2. \A s \in Streams : \A i \in 1..Len(wire[s]) : Fresh(wire[s][i])
    <3> SUFFICES ASSUME NEW s \in Streams, NEW i \in 1..Len(wire[s]) PROVE Fresh(wire[s][i])
      OBVIOUS
    <3>1. wire[s][i] \in ConfigUpdate /\ Stamped(wire[s][i])
      BY WireElements DEF PushInv, WireInv
    <3> QED
      BY <3>1 DEF Stamped, Fresh, TypeOK, ConfigUpdate
  <2> QED
    BY <2>1, <2>2 DEF PushFresh
<1> QED
  BY <1>1, InitTypeOK, NextTypeOK, InitPushInv, NextPushInv, PTL DEF Spec

-----------------------------------------------------------------------------
(* Stream slots and the order of delivery *)

\* A message in flight has a receiver, and a stream someone has open runs.
SlotInv ==
  \A s \in Streams : /\ wire[s] # <<>> => s \in Live
                     /\ s \in Live => stream[s].pc # "free"

\* Configurations travel in the order in which they were read: an agent never
\* receives one that was read before the one it runs.
WireOrder ==
  \A s \in Streams : \A i \in 1..Len(wire[s]) :
    /\ \A j \in i..Len(wire[s]) : wire[s][i].asOf <= wire[s][j].asOf
    /\ Reading(s) => wire[s][i].asOf <= stream[s].asOf

AgentOrder ==
  \A n \in Nodes : \A s \in Streams :
    link[n].stream = s /\ agent[n].epoch = epoch =>
      /\ \A i \in 1..Len(wire[s]) : agent[n].asOf <= wire[s][i].asOf
      /\ Reading(s) => agent[n].asOf <= stream[s].asOf

LinkInv == SlotInv /\ WireOrder /\ AgentOrder

LEMMA InitLinkInv == Init => LinkInv
BY StreamsAssumption
   DEF Init, LinkInv, SlotInv, WireOrder, AgentOrder, Live, NoLink

\* An agent that leaves its stream takes what was in flight with it.
LEMMA LeavingKeepsLinkInv ==
  ASSUME TypeOK, LinkInv, NEW n \in Nodes,
         link' = [link EXCEPT ![n] = NoLink], wire' = Dropped(n),
         UNCHANGED <<stream, agent, epoch>>
  PROVE  LinkInv'
<1>1. \A s \in Streams : wire'[s] = wire[s] \/ wire'[s] = <<>>
  BY DEF Dropped
<1>2. link[n].stream \notin Streams \/ wire'[link[n].stream] = <<>>
  BY DEF Dropped
<1>3. \A s \in Streams : s \in Live' => s \in Live
  BY StreamsAssumption DEF Live, NoLink, TypeOK
<1>4. \A s \in Streams : s \in Live /\ s \notin Live' => s = link[n].stream
  BY DEF Live, NoLink, TypeOK
<1>5. SlotInv'
  BY <1>1, <1>2, <1>3, <1>4 DEF LinkInv, SlotInv, TypeOK
<1>6. WireOrder'
  BY <1>1 DEF LinkInv, WireOrder, Reading
<1>7. AgentOrder'
  <2>1. \A m \in Nodes : \A s \in Streams : link'[m].stream = s => link[m].stream = s
    BY StreamsAssumption DEF NoLink, TypeOK
  <2> QED
    BY <1>1, <2>1 DEF LinkInv, AgentOrder, Reading
<1> QED
  BY <1>5, <1>6, <1>7 DEF LinkInv

LEMMA NextLinkInv == TypeOK /\ PushInv /\ LinkInv /\ [Next]_vars => LinkInv'
<1> SUFFICES ASSUME TypeOK, PushInv, LinkInv, [Next]_vars PROVE LinkInv'
  OBVIOUS
<1> USE DEF storeVars, grpcVars, edgeVars
<1>1. ASSUME UNCHANGED <<stream, wire, agent, epoch>>, Live' = Live,
             \A n \in Nodes : link'[n].stream = link[n].stream
      PROVE  LinkInv'
  BY <1>1 DEF LinkInv, SlotInv, WireOrder, AgentOrder, Reading
<1>2. ASSUME NEW n \in Nodes, NEW s \in Streams, OpenStream(n, s) PROVE LinkInv'
  <2>1. UNCHANGED <<wire, agent, epoch>>
    BY <1>2 DEF OpenStream
  <2>2. wire[s] = <<>> /\ s \notin Live
    BY <1>2 DEF OpenStream, LinkInv, SlotInv
  <2>3. /\ \A t \in Streams \ {s} : stream'[t] = stream[t]
        /\ stream'[s].pc = "bundle"
    BY <1>2 DEF OpenStream, FreeStream, TypeOK, StreamState
  <2>4. /\ \A m \in Nodes \ {n} : link'[m] = link[m]
        /\ link'[n].stream = s
        /\ link[n].stream = NoStream
    BY <1>2 DEF OpenStream, TypeOK, LinkState
  <2>5. \A t \in Streams : t \in Live' <=> t \in Live \/ t = s
    BY <2>4, StreamsAssumption DEF Live
  <2>6. SlotInv'
    BY <2>1, <2>3, <2>5 DEF LinkInv, SlotInv
  <2>7. WireOrder'
    BY <2>1, <2>2, <2>3 DEF LinkInv, WireOrder, Reading
  <2>8. AgentOrder'
    BY <2>1, <2>2, <2>3, <2>4 DEF LinkInv, AgentOrder, Reading
  <2> QED
    BY <2>6, <2>7, <2>8 DEF LinkInv
<1>3. ASSUME NEW s \in Streams, ReadBundle(s) PROVE LinkInv'
  <2>1. UNCHANGED <<versionSeq, wire, agent, link, epoch>>
    BY <1>3 DEF ReadBundle
  <2>2. /\ \A t \in Streams \ {s} : stream'[t] = stream[t]
        /\ stream'[s].pc = "toggles"
        /\ stream'[s].asOf = versionSeq
        /\ stream[s].pc = "bundle"
    BY <1>3 DEF ReadBundle, TypeOK, StreamState
  <2>3. \A i \in 1..Len(wire[s]) : wire[s][i].asOf <= versionSeq
    BY DEF PushInv, WireInv, Stamped
  <2>4. \A n \in Nodes : agent[n].epoch = epoch => agent[n].asOf <= versionSeq
    BY DEF PushInv, AgentInv, Stamped
  <2>5. SlotInv'
    BY <2>1, <2>2 DEF LinkInv, SlotInv, Live
  <2>6. WireOrder'
    BY <2>1, <2>2, <2>3 DEF LinkInv, WireOrder, Reading
  <2>7. AgentOrder'
    BY <2>1, <2>2, <2>4 DEF LinkInv, AgentOrder, Reading
  <2> QED
    BY <2>5, <2>6, <2>7 DEF LinkInv
<1>4. ASSUME NEW s \in Streams, ReadToggles(s) PROVE LinkInv'
  <2>1. UNCHANGED <<wire, agent, link, epoch>>
    BY <1>4 DEF ReadToggles
  <2>2. /\ \A t \in Streams \ {s} : stream'[t] = stream[t]
        /\ stream'[s].pc = "policy"
        /\ stream'[s].asOf = stream[s].asOf
        /\ stream[s].pc = "toggles"
    BY <1>4 DEF ReadToggles, TypeOK, StreamState
  <2>3. SlotInv'
    BY <2>1, <2>2 DEF LinkInv, SlotInv, Live
  <2>4. WireOrder' /\ AgentOrder'
    BY <2>1, <2>2 DEF LinkInv, WireOrder, AgentOrder, Reading
  <2> QED
    BY <2>3, <2>4 DEF LinkInv
<1>5. ASSUME NEW s \in Streams, SendUpdate(s) PROVE LinkInv'
  <2>1. UNCHANGED <<agent, link, epoch>>
    BY <1>5 DEF SendUpdate
  <2>2. PICK site \in Sites : wire' = [wire EXCEPT ![s] = Append(@, Update(s, site))]
    BY <1>5 DEF SendUpdate
  <2> DEFINE u == Update(s, site)
  <2>3. /\ \A t \in Streams \ {s} : stream'[t] = stream[t] /\ wire'[t] = wire[t]
        /\ stream'[s].pc = "select"
        /\ stream[s].pc = "policy"
        /\ s \in Live
    BY <1>5, <2>2 DEF SendUpdate, FreeStream, TypeOK, StreamState
  <2>4. u \in ConfigUpdate /\ u.asOf = stream[s].asOf
    BY DEF Update, ConfigUpdate, TypeOK, StreamState, Parts
  <2>5. /\ wire[s] \in Seq(ConfigUpdate)
        /\ wire'[s] = Append(wire[s], u)
    BY <2>2 DEF TypeOK
  <2>6. /\ Len(wire[s]) \in Nat
        /\ Len(wire'[s]) = Len(wire[s]) + 1
        /\ \A i \in 1..Len(wire'[s]) :
             wire'[s][i] = IF i = Len(wire[s]) + 1 THEN u ELSE wire[s][i]
    BY <2>4, <2>5, AppendElements
  <2>7. \A i \in 1..Len(wire[s]) : wire[s][i].asOf <= u.asOf
    BY <2>3, <2>4 DEF LinkInv, WireOrder, Reading
  <2>8. u.asOf <= u.asOf
    BY <2>4 DEF ConfigUpdate
  <2>9. SlotInv'
    BY <2>1, <2>3 DEF LinkInv, SlotInv, Live
  <2>10. WireOrder'
    <3> SUFFICES ASSUME NEW t \in Streams, NEW i \in 1..Len(wire'[t])
                 PROVE  /\ \A j \in i..Len(wire'[t]) : wire'[t][i].asOf <= wire'[t][j].asOf
                        /\ Reading(t)' => wire'[t][i].asOf <= stream'[t].asOf
      BY DEF WireOrder
    <3> HIDE DEF u
    <3>1. CASE t = s
      <4>1. ASSUME NEW j \in i..Len(wire'[s]) PROVE wire'[s][i].asOf <= wire'[s][j].asOf
        <5>1. CASE j = Len(wire[s]) + 1
          BY <2>6, <2>7, <2>8, <3>1, <4>1, <5>1
        <5>2. CASE j # Len(wire[s]) + 1
          <6>1. i \in 1..Len(wire[s]) /\ j \in i..Len(wire[s])
            BY <2>6, <3>1, <4>1, <5>2
          <6>2. wire'[s][i] = wire[s][i] /\ wire'[s][j] = wire[s][j]
            BY <2>6, <6>1
          <6> QED
            BY <6>1, <6>2 DEF LinkInv, WireOrder
        <5> QED
          BY <5>1, <5>2
      <4> QED
        BY <2>3, <3>1, <4>1 DEF Reading
    <3>2. CASE t # s
      BY <2>3, <3>2 DEF LinkInv, WireOrder, Reading
    <3> QED
      BY <3>1, <3>2
  <2>11. AgentOrder'
    <3> SUFFICES ASSUME NEW n \in Nodes, NEW t \in Streams,
                        link[n].stream = t, agent[n].epoch = epoch
                 PROVE  /\ \A i \in 1..Len(wire'[t]) : agent[n].asOf <= wire'[t][i].asOf
                        /\ Reading(t)' => agent[n].asOf <= stream'[t].asOf
      BY <2>1 DEF AgentOrder
    <3> HIDE DEF u
    <3>1. CASE t = s
      <4>1. agent[n].asOf <= u.asOf
        BY <2>3, <2>4, <3>1 DEF LinkInv, AgentOrder, Reading
      <4>2. \A i \in 1..Len(wire[s]) : agent[n].asOf <= wire[s][i].asOf
        BY <3>1 DEF LinkInv, AgentOrder
      <4> QED
        BY <2>3, <2>6, <3>1, <4>1, <4>2 DEF Reading
    <3>2. CASE t # s
      BY <2>3, <3>2 DEF LinkInv, AgentOrder, Reading
    <3> QED
      BY <3>1, <3>2
  <2> QED
    BY <2>9, <2>10, <2>11 DEF LinkInv
<1>6. ASSUME NEW s \in Streams, Wake(s) PROVE LinkInv'
  <2>1. UNCHANGED <<wire, agent, link, epoch>>
    BY <1>6 DEF Wake
  <2>2. /\ \A t \in Streams \ {s} : stream'[t] = stream[t]
        /\ stream'[s].pc \in {"select", "bundle"}
        /\ stream[s].pc = "select"
    BY <1>6 DEF Wake, TypeOK, StreamState
  <2>3. SlotInv'
    BY <2>1, <2>2 DEF LinkInv, SlotInv, Live
  <2>4. WireOrder' /\ AgentOrder'
    BY <2>1, <2>2 DEF LinkInv, WireOrder, AgentOrder, Reading
  <2> QED
    BY <2>3, <2>4 DEF LinkInv
<1>7. ASSUME NEW s \in Streams, Return(s) PROVE LinkInv'
  <2>1. UNCHANGED <<wire, agent, link, epoch>>
    BY <1>7 DEF Return
  <2>2. /\ \A t \in Streams \ {s} : stream'[t] = stream[t]
        /\ stream'[s].pc = "free"
        /\ s \notin Live
    BY <1>7 DEF Return, FreeStream, TypeOK, StreamState
  <2>3. SlotInv'
    BY <2>1, <2>2 DEF LinkInv, SlotInv, Live
  <2>4. WireOrder' /\ AgentOrder'
    BY <2>1, <2>2 DEF LinkInv, WireOrder, AgentOrder, Reading
  <2> QED
    BY <2>3, <2>4 DEF LinkInv
<1>8. ASSUME NEW n \in Nodes, ReSync(n) \/ ConnectionLost(n) PROVE LinkInv'
  BY <1>1, <1>8, LeavingKeepsLinkInv DEF ReSync, ConnectionLost, Live
<1>9. ASSUME NEW n \in Nodes, ReceiveUpdate(n) \/ RejectUpdate(n) PROVE LinkInv'
  <2> DEFINE s == link[n].stream
  <2>1. s \in Streams /\ wire[s] # <<>> /\ wire' = [wire EXCEPT ![s] = Tail(@)]
    BY <1>9 DEF ReceiveUpdate, RejectUpdate, Answer, LinkState, TypeOK
  <2>2. UNCHANGED <<stream, epoch>>
    BY <1>9 DEF ReceiveUpdate, RejectUpdate, Answer
  <2>3. agent' = agent \/ agent' = [agent EXCEPT ![n] = Head(wire[s])]
    BY <1>9 DEF ReceiveUpdate, RejectUpdate
  <2>4. \A m \in Nodes : link'[m].stream = link[m].stream
    <3>1. link' = [link EXCEPT ![n] = [stream |-> s, served |-> TRUE]]
      BY <1>9 DEF ReceiveUpdate, RejectUpdate, Answer
    <3> QED
      BY <3>1 DEF TypeOK, LinkState
  <2>5. Live' = Live
    BY <2>4 DEF Live
  <2>6. wire[s] \in Seq(ConfigUpdate) /\ s \in Live
    BY <2>1 DEF TypeOK, Live
  <2>7. /\ Head(wire[s]) = wire[s][1]
        /\ 1 \in 1..Len(wire[s])
        /\ Len(Tail(wire[s])) = Len(wire[s]) - 1
        /\ Len(wire[s]) \in Nat
        /\ \A i \in 1..Len(Tail(wire[s])) :
             i + 1 \in 1..Len(wire[s]) /\ Tail(wire[s])[i] = wire[s][i + 1]
    BY <2>1, <2>6, TailElements
  <2>8. \A t \in Streams \ {s} : wire'[t] = wire[t]
    BY <2>1 DEF TypeOK
  <2>9. wire'[s] = Tail(wire[s])
    BY <2>1 DEF TypeOK
  <2> HIDE DEF s
  <2>10. SlotInv'
    BY <2>2, <2>5, <2>6, <2>8 DEF LinkInv, SlotInv
  <2>11. WireOrder'
    <3> SUFFICES ASSUME NEW t \in Streams, NEW i \in 1..Len(wire'[t])
                 PROVE  /\ \A j \in i..Len(wire'[t]) : wire'[t][i].asOf <= wire'[t][j].asOf
                        /\ Reading(t)' => wire'[t][i].asOf <= stream'[t].asOf
      BY DEF WireOrder
    <3>1. CASE t = s
      <4>1. wire'[t][i] = wire[s][i + 1] /\ i + 1 \in 1..Len(wire[s])
        BY <2>7, <2>9, <3>1
      <4>2. ASSUME NEW j \in i..Len(wire'[s])
            PROVE  wire'[s][j] = wire[s][j + 1] /\ j + 1 \in (i + 1)..Len(wire[s])
        BY <2>7, <2>9, <3>1, <4>2
      <4> QED
        BY <2>2, <3>1, <4>1, <4>2 DEF LinkInv, WireOrder, Reading
    <3>2. CASE t # s
      BY <2>2, <2>8, <3>2 DEF LinkInv, WireOrder, Reading
    <3> QED
      BY <3>1, <3>2
  <2>12. AgentOrder'
    <3> SUFFICES ASSUME NEW m \in Nodes, NEW t \in Streams,
                        link[m].stream = t, agent'[m].epoch = epoch
                 PROVE  /\ \A i \in 1..Len(wire'[t]) : agent'[m].asOf <= wire'[t][i].asOf
                        /\ Reading(t)' => agent'[m].asOf <= stream'[t].asOf
      BY <2>2, <2>4 DEF AgentOrder
    <3>1. CASE agent'[m] = agent[m]
      <4>1. \A i \in 1..Len(wire[t]) : agent[m].asOf <= wire[t][i].asOf
        BY <3>1 DEF LinkInv, AgentOrder
      <4>2. \A i \in 1..Len(wire'[t]) : agent[m].asOf <= wire'[t][i].asOf
        <5>1. CASE t = s
          BY <2>7, <2>9, <4>1, <5>1
        <5>2. CASE t # s
          BY <2>8, <4>1, <5>2
        <5> QED
          BY <5>1, <5>2
      <4> QED
        BY <2>2, <3>1, <4>2 DEF LinkInv, AgentOrder, Reading
    <3>2. CASE m = n /\ agent'[n] = Head(wire[s])
      <4>1. t = s /\ agent'[m] = wire[s][1]
        BY <2>7, <3>2 DEF s
      <4>2. \A i \in 1..Len(wire[s]) : wire[s][1].asOf <= wire[s][i].asOf
        BY <2>1, <2>7 DEF LinkInv, WireOrder
      <4>3. \A i \in 1..Len(wire'[s]) : wire[s][1].asOf <= wire'[s][i].asOf
        BY <2>7, <2>9, <4>2
      <4>4. Reading(s) => wire[s][1].asOf <= stream[s].asOf
        BY <2>1, <2>7 DEF LinkInv, WireOrder
      <4> QED
        BY <2>2, <4>1, <4>3, <4>4 DEF Reading
    <3> QED
      BY <2>3, <3>1, <3>2 DEF TypeOK
  <2> QED
    BY <2>10, <2>11, <2>12 DEF LinkInv
<1>10. ASSUME Restart PROVE LinkInv'
  BY <1>10, StreamsAssumption
     DEF Restart, LinkInv, SlotInv, WireOrder, AgentOrder, Live, NoLink
<1>11. ASSUME UNCHANGED <<stream, wire, agent, link, epoch>> PROVE LinkInv'
  BY <1>1, <1>11 DEF Live
<1>12. ASSUME NEW h \in Handlers, RestStep(h) \/ NotifyStep(h) PROVE LinkInv'
  BY <1>11, <1>12
     DEF RestStep, NotifyStep, CreateRule, UpdateRule, DeleteRule, CreateException,
         DeleteException, ToggleCrs, AddIp, DeleteIp, AddRateLimit, DeleteRateLimit,
         UpdateRateLimit, UpdateBot, Edit, Bump, NotifyOnly, BeginUpdateSite,
         FinishUpdateSite, ReadVersion, PostPing
<1>13. ASSUME NEW s \in Streams, ReceiveAck(s) PROVE LinkInv'
  BY <1>11, <1>13 DEF ReceiveAck
<1>14. ASSUME NEW n \in Nodes, Register(n) \/ HeartbeatStep(n) \/ SendHeartbeat(n)
       PROVE  LinkInv'
  BY <1>11, <1>14
     DEF Register, HeartbeatStep, HeartbeatKnown, HeartbeatUnknown, Enroll, SendHeartbeat
<1>15. CASE UNCHANGED vars
  BY <1>11, <1>15 DEF vars
<1> QED
  BY <1>2, <1>3, <1>4, <1>5, <1>6, <1>7, <1>8, <1>9, <1>10, <1>12, <1>13, <1>14, <1>15
     DEF Next, HandlerStep

-----------------------------------------------------------------------------
(* Honesty of a recovered status *)

\* Until the first restart an agent runs at least what its heartbeat in flight
\* names.
BeatInv ==
  epoch = 0 => \A n \in Nodes : hb[n].pc = "sent" => hb[n].ver <= agent[n].asOf

\* The same of its acks in flight, if it applies what it acks.
AckInv ==
  epoch = 0 /\ ~MayReject =>
    \A s \in Streams : \A i \in 1..Len(acks[s]) : acks[s][i].ver <= agent[acks[s][i].node].asOf

LEMMA InitReports == Init => BeatInv /\ AckInv
BY DEF Init, BeatInv, AckInv, IdleBeat

\* What an agent takes from a wire was read no earlier than what it runs.
LEMMA ReceivedIsLater ==
  ASSUME TypeOK, PushInv, LinkInv, NEW n \in Nodes,
         link[n].stream \in Streams, wire[link[n].stream] # <<>>, epoch = 0
  PROVE  LET c == Head(wire[link[n].stream]) IN
         /\ c \in ConfigUpdate
         /\ c.ver <= c.asOf
         /\ agent[n].asOf <= c.asOf
<1> DEFINE s == link[n].stream
           c == Head(wire[s])
<1>1. c = wire[s][1] /\ 1 \in 1..Len(wire[s]) /\ c \in ConfigUpdate
  BY TailElements DEF TypeOK
<1>2. agent[n].epoch = epoch
  BY DEF PushInv, AgentInv, TypeOK, ConfigUpdate
<1>3. agent[n].asOf <= c.asOf
  BY <1>1, <1>2 DEF LinkInv, AgentOrder
<1>4. c.ver <= c.asOf
  BY <1>1 DEF PushInv, WireInv, Stamped
<1> QED
  BY <1>1, <1>3, <1>4

LEMMA NextBeatInv ==
  TypeOK /\ PushInv /\ LinkInv /\ BeatInv /\ [Next]_vars => BeatInv'
<1> SUFFICES ASSUME TypeOK, PushInv, LinkInv, BeatInv, [Next]_vars PROVE BeatInv'
  OBVIOUS
<1> USE DEF storeVars, grpcVars, edgeVars
<1>1. ASSUME UNCHANGED <<agent, epoch>>,
             \A n \in Nodes : hb'[n] = hb[n] \/ hb'[n].pc # "sent"
      PROVE  BeatInv'
  BY <1>1 DEF BeatInv
<1>2. ASSUME NEW n \in Nodes, HeartbeatStep(n) PROVE BeatInv'
  <2>1. \A m \in Nodes : hb'[m] = hb[m] \/ hb'[m].pc # "sent"
    BY <1>2 DEF HeartbeatStep, HeartbeatKnown, HeartbeatUnknown, Enroll, IdleBeat,
                DesiredBeat, EnrollBeat, TypeOK, BeatState
  <2> QED
    BY <1>1, <1>2, <2>1 DEF HeartbeatStep, HeartbeatKnown, HeartbeatUnknown, Enroll
<1>3. ASSUME NEW n \in Nodes, SendHeartbeat(n) PROVE BeatInv'
  <2>1. /\ \A m \in Nodes \ {n} : hb'[m] = hb[m]
        /\ hb'[n].ver = agent[n].ver
        /\ UNCHANGED <<registry, agent, epoch>>
    BY <1>3 DEF SendHeartbeat, TypeOK, BeatState
  <2>2. epoch = 0 => agent[n].ver <= agent[n].asOf
    BY DEF PushInv, AgentInv, Stamped, TypeOK, ConfigUpdate
  <2> QED
    BY <2>1, <2>2 DEF BeatInv
<1>4. ASSUME NEW n \in Nodes, ReSync(n) \/ ConnectionLost(n) PROVE BeatInv'
  <2>1. \A m \in Nodes : hb'[m] = hb[m] \/ hb'[m].pc # "sent"
    BY <1>4 DEF ReSync, ConnectionLost, IdleBeat, TypeOK, BeatState
  <2> QED
    BY <1>1, <1>4, <2>1 DEF ReSync, ConnectionLost
<1>5. ASSUME NEW n \in Nodes, ReceiveUpdate(n) PROVE BeatInv'
  <2> SUFFICES ASSUME epoch = 0 PROVE BeatInv'
    BY <1>5 DEF ReceiveUpdate, Answer, BeatInv
  <2> DEFINE c == Head(wire[link[n].stream])
  <2>1. link[n].stream \in Streams /\ wire[link[n].stream] # <<>>
    BY <1>5 DEF ReceiveUpdate, Answer, LinkState, TypeOK
  <2>2. c \in ConfigUpdate /\ agent[n].asOf <= c.asOf
    BY <2>1, ReceivedIsLater
  <2>3. /\ agent' = [agent EXCEPT ![n] = c]
        /\ UNCHANGED <<hb, registry, epoch>>
    BY <1>5 DEF ReceiveUpdate, Answer
  <2>4. hb[n].pc = "sent" => hb[n].ver <= c.asOf
    <3>1. hb[n].ver \in Nat /\ agent[n].asOf \in Nat /\ c.asOf \in Nat
      BY <2>2 DEF TypeOK, BeatState, ConfigUpdate
    <3>2. hb[n].pc = "sent" => hb[n].ver <= agent[n].asOf
      BY DEF BeatInv
    <3> HIDE DEF c
    <3> QED
      BY <2>2, <3>1, <3>2
  <2> HIDE DEF c
  <2>5. \A m \in Nodes : agent'[m] = IF m = n THEN c ELSE agent[m]
    BY <2>3 DEF TypeOK
  <2> QED
    BY <2>2, <2>3, <2>4, <2>5 DEF BeatInv
<1>6. ASSUME NEW n \in Nodes, RejectUpdate(n) PROVE BeatInv'
  BY <1>1, <1>6 DEF RejectUpdate, Answer
<1>7. ASSUME Restart PROVE BeatInv'
  BY <1>7 DEF Restart, BeatInv, TypeOK
<1>8. ASSUME UNCHANGED <<agent, epoch, hb>> PROVE BeatInv'
  BY <1>1, <1>8
<1>9. ASSUME NEW h \in Handlers, RestStep(h) \/ NotifyStep(h) PROVE BeatInv'
  BY <1>8, <1>9
     DEF RestStep, NotifyStep, CreateRule, UpdateRule, DeleteRule, CreateException,
         DeleteException, ToggleCrs, AddIp, DeleteIp, AddRateLimit, DeleteRateLimit,
         UpdateRateLimit, UpdateBot, Edit, Bump, NotifyOnly, BeginUpdateSite,
         FinishUpdateSite, ReadVersion, PostPing
<1>10. ASSUME NEW s \in Streams, HandlerStep(s) PROVE BeatInv'
  BY <1>8, <1>10 DEF HandlerStep, ReadBundle, ReadToggles, SendUpdate, Wake, Return
<1>11. ASSUME NEW n \in Nodes, NEW s \in Streams, OpenStream(n, s) PROVE BeatInv'
  BY <1>8, <1>11 DEF OpenStream
<1>12. CASE UNCHANGED vars
  BY <1>8, <1>12 DEF vars
<1>13. ASSUME NEW s \in Streams, ReceiveAck(s) PROVE BeatInv'
  BY <1>8, <1>13 DEF ReceiveAck
<1>14. ASSUME NEW n \in Nodes, Register(n) PROVE BeatInv'
  BY <1>8, <1>14 DEF Register
<1> QED
  BY <1>2, <1>3, <1>4, <1>5, <1>6, <1>7, <1>9, <1>10, <1>11, <1>12, <1>13, <1>14 DEF Next

LEMMA NextAckInv ==
  TypeOK /\ PushInv /\ LinkInv /\ AckInv /\ [Next]_vars => AckInv'
<1> SUFFICES ASSUME TypeOK, PushInv, LinkInv, AckInv, [Next]_vars,
                    epoch' = 0, ~MayReject
             PROVE  AckInv'
  BY DEF AckInv
<1> USE DEF storeVars, grpcVars, edgeVars
<1>1. ASSUME UNCHANGED <<agent, epoch>>,
             \A s \in Streams : \A i \in 1..Len(acks'[s]) :
               \E j \in 1..Len(acks[s]) : acks'[s][i] = acks[s][j]
      PROVE  AckInv'
  BY <1>1 DEF AckInv
<1>2. ASSUME NEW s \in Streams, ReceiveAck(s) PROVE AckInv'
  <2>1. /\ acks' = [acks EXCEPT ![s] = Tail(@)]
        /\ \A i \in 1..Len(Tail(acks[s])) :
             i + 1 \in 1..Len(acks[s]) /\ Tail(acks[s])[i] = acks[s][i + 1]
    BY <1>2, TailElements DEF ReceiveAck, TypeOK
  <2>2. \A t \in Streams : \A i \in 1..Len(acks'[t]) :
          \E j \in 1..Len(acks[t]) : acks'[t][i] = acks[t][j]
    BY <2>1 DEF TypeOK
  <2> QED
    BY <1>1, <1>2, <2>2 DEF ReceiveAck
<1>3. ASSUME NEW s \in Streams, Return(s) PROVE AckInv'
  <2>1. \A t \in Streams : acks'[t] = acks[t] \/ acks'[t] = <<>>
    BY <1>3 DEF Return, TypeOK
  <2> QED
    BY <1>1, <1>3, <2>1 DEF Return
<1>4. ASSUME NEW n \in Nodes, ReceiveUpdate(n) PROVE AckInv'
  <2> DEFINE s == link[n].stream
             c == Head(wire[s])
             ack == [node |-> n, ver |-> c.ver, applied |-> TRUE]
  <2>1. s \in Streams /\ wire[s] # <<>> /\ epoch = 0
    BY <1>4 DEF ReceiveUpdate, Answer, LinkState, TypeOK
  <2>2. c \in ConfigUpdate /\ c.ver <= c.asOf /\ agent[n].asOf <= c.asOf
    BY <2>1, ReceivedIsLater
  <2>3. \A m \in Nodes : agent'[m] = IF m = n THEN c ELSE agent[m]
    BY <1>4 DEF ReceiveUpdate, TypeOK
  <2>4. acks' = [acks EXCEPT ![s] = Append(@, ack)]
    BY <1>4 DEF ReceiveUpdate, Answer
  <2>5. ack \in ConfigAck
    BY <2>2 DEF ConfigAck, ConfigUpdate
  <2>6. ack.ver <= agent'[ack.node].asOf
    BY <2>2, <2>3
  <2> HIDE DEF c, ack
  <2>7. \A t \in Streams : acks[t] \in Seq(ConfigAck)
    BY DEF TypeOK
  <2>8. \A t \in Streams : \A i \in 1..Len(acks[t]) :
          acks[t][i] \in ConfigAck /\ acks[t][i].ver <= agent'[acks[t][i].node].asOf
    <3> SUFFICES ASSUME NEW t \in Streams, NEW i \in 1..Len(acks[t])
                 PROVE  acks[t][i] \in ConfigAck /\ acks[t][i].ver <= agent'[acks[t][i].node].asOf
      OBVIOUS
    <3>1. acks[t][i] \in ConfigAck
      BY <2>7
    <3>2. acks[t][i].ver <= agent[acks[t][i].node].asOf
      BY <2>1 DEF AckInv
    <3>3. \A m \in Nodes : agent[m].asOf \in Nat
      BY DEF TypeOK, ConfigUpdate
    <3> QED
      BY <2>2, <2>3, <3>1, <3>2, <3>3 DEF ConfigAck, ConfigUpdate
  <2>9. \A i \in 1..Len(acks'[s]) :
          \/ acks'[s][i] = ack
          \/ i \in 1..Len(acks[s]) /\ acks'[s][i] = acks[s][i]
    <3>1. acks'[s] = Append(acks[s], ack)
      BY <2>1, <2>4 DEF TypeOK
    <3>2. acks[s] \in Seq(ConfigAck)
      BY <2>1, <2>7
    <3> HIDE DEF s
    <3>3. /\ Len(acks[s]) \in Nat
          /\ Len(acks'[s]) = Len(acks[s]) + 1
          /\ \A i \in 1..Len(acks'[s]) :
               acks'[s][i] = IF i = Len(acks[s]) + 1 THEN ack ELSE acks[s][i]
      BY <2>5, <3>1, <3>2, AppendElements
    <3>4. ASSUME NEW i \in 1..Len(acks'[s]), i # Len(acks[s]) + 1
          PROVE  i \in 1..Len(acks[s]) /\ acks'[s][i] = acks[s][i]
      BY <3>3, <3>4
    <3>5. ASSUME NEW i \in 1..Len(acks'[s]), i = Len(acks[s]) + 1
          PROVE  acks'[s][i] = ack
      BY <3>3, <3>5
    <3>6. SUFFICES ASSUME NEW i \in 1..Len(acks'[s])
                   PROVE  \/ acks'[s][i] = ack
                          \/ i \in 1..Len(acks[s]) /\ acks'[s][i] = acks[s][i]
      OBVIOUS
    <3>7. CASE i = Len(acks[s]) + 1
      BY <3>5, <3>7
    <3>8. CASE i # Len(acks[s]) + 1
      BY <3>4, <3>8
    <3> QED
      BY <3>7, <3>8
  <2>10. \A t \in Streams \ {s} : acks'[t] = acks[t]
    BY <2>4 DEF TypeOK
  <2> HIDE DEF s
  <2> QED
    BY <2>6, <2>8, <2>9, <2>10 DEF AckInv
<1>5. ASSUME NEW n \in Nodes, RejectUpdate(n) PROVE AckInv'
  BY <1>5 DEF RejectUpdate
<1>6. ASSUME Restart PROVE AckInv'
  BY <1>6 DEF Restart, AckInv
<1>7. ASSUME UNCHANGED <<agent, epoch, acks>> PROVE AckInv'
  BY <1>1, <1>7
<1>8. ASSUME NEW h \in Handlers, RestStep(h) \/ NotifyStep(h) PROVE AckInv'
  BY <1>7, <1>8
     DEF RestStep, NotifyStep, CreateRule, UpdateRule, DeleteRule, CreateException,
         DeleteException, ToggleCrs, AddIp, DeleteIp, AddRateLimit, DeleteRateLimit,
         UpdateRateLimit, UpdateBot, Edit, Bump, NotifyOnly, BeginUpdateSite,
         FinishUpdateSite, ReadVersion, PostPing
<1>9. ASSUME NEW s \in Streams, ReadBundle(s) \/ ReadToggles(s) \/ SendUpdate(s) \/ Wake(s)
      PROVE  AckInv'
  BY <1>7, <1>9 DEF ReadBundle, ReadToggles, SendUpdate, Wake
<1>10. ASSUME NEW n \in Nodes,
              \/ Register(n) \/ HeartbeatStep(n) \/ SendHeartbeat(n)
              \/ ReSync(n) \/ ConnectionLost(n)
              \/ \E s \in Streams : OpenStream(n, s)
       PROVE  AckInv'
  BY <1>7, <1>10
     DEF Register, HeartbeatStep, HeartbeatKnown, HeartbeatUnknown, Enroll, SendHeartbeat,
         ReSync, ConnectionLost, OpenStream
<1>11. CASE UNCHANGED vars
  BY <1>7, <1>11 DEF vars
<1> QED
  BY <1>2, <1>3, <1>4, <1>5, <1>6, <1>8, <1>9, <1>10, <1>11 DEF Next, HandlerStep

SyncInv == TypeOK /\ PushInv /\ LinkInv /\ BeatInv /\ AckInv

LEMMA SyncInvariant == Spec => []SyncInv
<1>1. Init => SyncInv
  BY InitTypeOK, InitPushInv, InitLinkInv, InitReports DEF SyncInv
<1>2. SyncInv /\ [Next]_vars => SyncInv'
  BY NextTypeOK, NextPushInv, NextLinkInv, NextBeatInv, NextAckInv DEF SyncInv
<1> QED
  BY <1>1, <1>2, PTL DEF Spec

\* A node shown PENDING_UPDATE turns IN_SYNC only when it runs what the store
\* holds: by MarkSynced or Heartbeat (store.go:75-81, 116-129), which both
\* compare the reported version with the store's.  That is enough although the
\* agent may have moved on since it reported, and even to an update with a lower
\* version, because updates reach it in the order in which they were read.
THEOREM RecoveryIsHonest == Spec => RecoveryHonest
<1>1. ASSUME SyncInv, [Next]_vars, NEW n \in Nodes, ~MayReject,
             epoch = 0, UNCHANGED epoch, ~ReportsNothing(n),
             registry[n].sync = "PENDING_UPDATE", registry'[n].sync = "IN_SYNC"
      PROVE  Current(agent[n])
  <2> USE DEF storeVars, grpcVars, edgeVars
  <2>1. agent[n].epoch = epoch /\ Stamped(agent[n]) /\ agent[n] \in ConfigUpdate
    BY <1>1 DEF SyncInv, PushInv, AgentInv, TypeOK, ConfigUpdate
  <2>2. SUFFICES versionSeq <= agent[n].asOf
    BY <1>1, <2>1 DEF Stamped, SyncInv, TypeOK, ConfigUpdate
  <2>3. ASSUME NEW s \in Streams, ReceiveAck(s) PROVE versionSeq <= agent[n].asOf
    <3>1. /\ Head(acks[s]) = acks[s][1]
          /\ 1 \in 1..Len(acks[s])
          /\ Head(acks[s]) \in ConfigAck
      BY <1>1, <2>3, TailElements DEF ReceiveAck, SyncInv, TypeOK
    <3>2. Head(acks[s]).node = n /\ Head(acks[s]).ver = versionSeq
      BY <1>1, <2>3, <3>1 DEF ReceiveAck, MarkSynced, SyncInv, TypeOK, NodeState, ConfigAck
    <3>3. acks[s][1].ver <= agent[acks[s][1].node].asOf
      BY <1>1, <3>1 DEF SyncInv, AckInv
    <3> QED
      BY <3>1, <3>2, <3>3
  <2>4. ASSUME NEW m \in Nodes, HeartbeatKnown(m) PROVE versionSeq <= agent[n].asOf
    <3>1. m = n /\ hb[n].pc = "sent" /\ ~Stale(hb[n].ver)
      BY <1>1, <2>4 DEF HeartbeatKnown, SyncInv, TypeOK, NodeState
    <3> QED
      BY <1>1, <3>1 DEF ReportsNothing, Stale, SyncInv, BeatInv
  <2>5. ASSUME NEW m \in Nodes, Register(m) \/ Enroll(m) PROVE FALSE
    BY <1>1, <2>5 DEF Register, Enroll, UpsertNode, SyncInv, TypeOK, NodeState
  <2>6. ASSUME Restart PROVE FALSE
    BY <1>1, <2>6 DEF Restart, SyncInv, TypeOK
  <2>7. ASSUME UNCHANGED registry PROVE FALSE
    BY <1>1, <2>7
  <2>8. ASSUME NEW h \in Handlers, RestStep(h) \/ NotifyStep(h) PROVE FALSE
    BY <2>7, <2>8
       DEF RestStep, NotifyStep, CreateRule, UpdateRule, DeleteRule, CreateException,
           DeleteException, ToggleCrs, AddIp, DeleteIp, AddRateLimit, DeleteRateLimit,
           UpdateRateLimit, UpdateBot, Edit, Bump, NotifyOnly, BeginUpdateSite,
           FinishUpdateSite, ReadVersion, PostPing
  <2>9. ASSUME NEW s \in Streams, HandlerStep(s) PROVE FALSE
    BY <2>7, <2>9 DEF HandlerStep, ReadBundle, ReadToggles, SendUpdate, Wake, Return
  <2>10. ASSUME NEW m \in Nodes,
                \/ HeartbeatUnknown(m) \/ ReceiveUpdate(m) \/ RejectUpdate(m)
                \/ SendHeartbeat(m) \/ ReSync(m) \/ ConnectionLost(m)
                \/ \E s \in Streams : OpenStream(m, s)
         PROVE  FALSE
    BY <2>7, <2>10 DEF HeartbeatUnknown, ReceiveUpdate, RejectUpdate, Answer,
                      SendHeartbeat, ReSync, ConnectionLost, OpenStream
  <2>11. CASE UNCHANGED vars
    BY <2>7, <2>11 DEF vars
  <2> QED
    BY <1>1, <2>3, <2>4, <2>5, <2>6, <2>8, <2>9, <2>10, <2>11 DEF Next, HeartbeatStep
<1>2. SyncInv /\ [Next]_vars =>
        [\A n \in Nodes :
           /\ ~MayReject
           /\ epoch = 0 /\ UNCHANGED epoch
           /\ ~ReportsNothing(n)
           /\ registry[n].sync = "PENDING_UPDATE"
           /\ registry'[n].sync = "IN_SYNC"
           => Current(agent[n])]_vars
  BY <1>1
<1> QED
  BY <1>2, SyncInvariant, PTL DEF Spec, RecoveryHonest

-----------------------------------------------------------------------------
(* Nothing an agent runs is rolled back *)

\* No part of d was written by an earlier edit than the same part of c.
Follows(c, d) ==
  /\ c.rules <= d.rules
  /\ c.crs <= d.crs
  /\ c.site = d.site => c.tuning <= d.tuning

\* No part of c was written by a later edit than what the store holds, or than
\* what sendUpdate of stream s has read so far.
Past(c) ==
  /\ c.rules <= policy["rules"]
  /\ c.crs <= policy["crs"]
  /\ c.tuning <= policy[c.site]

Before(c, s) ==
  /\ Reading(s) => c.rules <= stream[s].rules
  /\ stream[s].pc = "policy" => c.crs <= stream[s].crs

\* Every part of the policy was written by an edit that has happened, and what
\* was read from it is no newer.
StoreEdits ==
  /\ \A p \in Parts : policy[p] <= edits
  /\ \A s \in Streams :
       /\ Reading(s) => stream[s].rules <= policy["rules"]
       /\ stream[s].pc = "policy" => stream[s].crs <= policy["crs"]

\* Messages on a wire, and the one sendUpdate is putting together behind them,
\* are in the order of the edits they carry.
WireEdits ==
  \A s \in Streams : \A i \in 1..Len(wire[s]) :
    /\ Past(wire[s][i])
    /\ Before(wire[s][i], s)
    /\ \A j \in i..Len(wire[s]) : Follows(wire[s][i], wire[s][j])

\* What an agent got from this process is older than what is on its way to it.
AgentEdits ==
  \A n \in Nodes : agent[n].epoch = epoch =>
    /\ Past(agent[n])
    /\ \A s \in Streams : link[n].stream = s =>
         /\ Before(agent[n], s)
         /\ \A i \in 1..Len(wire[s]) : Follows(agent[n], wire[s][i])

EditInv == StoreEdits /\ WireEdits /\ AgentEdits

LEMMA InitEditInv == Init => EditInv
BY StreamsAssumption, SitesAssumption
   DEF Init, EditInv, StoreEdits, WireEdits, AgentEdits, Past, Before, Reading, Parts,
       NoConfig, NoLink, FreeStream

\* Everything a wire or an agent holds has a place in the order.
LEMMA EditTypes ==
  ASSUME TypeOK
  PROVE  /\ policy["rules"] \in Nat /\ policy["crs"] \in Nat /\ edits \in Nat
         /\ \A p \in Parts : policy[p] \in Nat
         /\ \A s \in Streams : \A i \in 1..Len(wire[s]) : wire[s][i] \in ConfigUpdate
         /\ \A n \in Nodes : agent[n] \in ConfigUpdate
         /\ \A s \in Streams : stream[s] \in StreamState
BY WireElements DEF TypeOK, Parts

\* An edit of the store leaves everything read before it behind.
LEMMA LaterEditsKeepEditInv ==
  ASSUME TypeOK, EditInv, NEW p \in Parts, edits' = edits + 1,
         policy' = [policy EXCEPT ![p] = edits + 1],
         UNCHANGED <<stream, wire, agent, link, epoch>>
  PROVE  EditInv'
<1>1. \A q \in Parts : policy[q] <= policy'[q] /\ policy'[q] <= edits'
  BY DEF EditInv, StoreEdits, TypeOK
<1>2. policy'["rules"] \in Nat /\ policy'["crs"] \in Nat /\ \A q \in Parts : policy'[q] \in Nat
  BY DEF TypeOK, Parts
<1>3. /\ policy["rules"] <= policy'["rules"]
      /\ policy["crs"] <= policy'["crs"]
      /\ \A site \in Sites : policy[site] <= policy'[site]
  BY <1>1 DEF Parts
<1>4. ASSUME NEW c \in ConfigUpdate, Past(c) PROVE Past(c)'
  BY <1>2, <1>3, <1>4, EditTypes DEF Past, ConfigUpdate, Parts
<1>5. StoreEdits'
  BY <1>1, <1>2, <1>3, EditTypes DEF EditInv, StoreEdits, Reading, StreamState
<1>6. WireEdits'
  <2> SUFFICES ASSUME NEW s \in Streams, NEW i \in 1..Len(wire[s])
               PROVE  /\ Past(wire[s][i])'
                      /\ Before(wire[s][i], s)'
                      /\ \A j \in i..Len(wire[s]) : Follows(wire[s][i], wire[s][j])'
    BY DEF WireEdits
  <2>1. wire[s][i] \in ConfigUpdate /\ Past(wire[s][i])
    BY EditTypes DEF EditInv, WireEdits
  <2>2. Past(wire[s][i])'
    BY <2>1, <1>2, <1>3, EditTypes DEF Past, ConfigUpdate, Parts
  <2> QED
    BY <2>2 DEF EditInv, WireEdits, Before, Reading, Follows
<1>7. AgentEdits'
  <2> SUFFICES ASSUME NEW n \in Nodes, agent[n].epoch = epoch
               PROVE  /\ Past(agent[n])'
                      /\ \A s \in Streams : link[n].stream = s =>
                           /\ Before(agent[n], s)'
                           /\ \A i \in 1..Len(wire[s]) : Follows(agent[n], wire[s][i])'
    BY DEF AgentEdits
  <2>1. agent[n] \in ConfigUpdate /\ Past(agent[n])
    BY EditTypes DEF EditInv, AgentEdits
  <2>2. Past(agent[n])'
    BY <2>1, <1>2, <1>3, EditTypes DEF Past, ConfigUpdate, Parts
  <2> QED
    BY <2>2 DEF EditInv, AgentEdits, Before, Reading, Follows
<1> QED
  BY <1>5, <1>6, <1>7 DEF EditInv

\* So does a step of one stream handler, if it sends nothing and what it has
\* read is what the store holds.
LEMMA ReadingKeepsEditInv ==
  ASSUME TypeOK, EditInv, NEW s \in Streams,
         UNCHANGED <<policy, edits, wire, agent, link, epoch>>,
         \A t \in Streams \ {s} : stream'[t] = stream[t],
         Reading(s)' => \/ stream'[s].rules = policy["rules"]
                        \/ Reading(s) /\ stream'[s].rules = stream[s].rules,
         stream'[s].pc = "policy" => stream'[s].crs = policy["crs"]
  PROVE  EditInv'
<1>1. StoreEdits'
  BY EditTypes DEF EditInv, StoreEdits, Reading
<1>2. ASSUME NEW c, Past(c), NEW t \in Streams, Before(c, t) PROVE Before(c, t)'
  BY <1>2 DEF Past, Before, Reading
<1>3. WireEdits'
  <2> SUFFICES ASSUME NEW t \in Streams, NEW i \in 1..Len(wire[t])
               PROVE  /\ Past(wire[t][i])'
                      /\ Before(wire[t][i], t)'
                      /\ \A j \in i..Len(wire[t]) : Follows(wire[t][i], wire[t][j])'
    BY DEF WireEdits
  <2>1. /\ Past(wire[t][i])
        /\ Before(wire[t][i], t)
        /\ \A j \in i..Len(wire[t]) : Follows(wire[t][i], wire[t][j])
    BY DEF EditInv, WireEdits
  <2> QED
    BY <2>1 DEF Past, Before, Reading, Follows
<1>4. AgentEdits'
  <2> SUFFICES ASSUME NEW n \in Nodes, agent[n].epoch = epoch
               PROVE  /\ Past(agent[n])'
                      /\ \A t \in Streams : link[n].stream = t =>
                           /\ Before(agent[n], t)'
                           /\ \A i \in 1..Len(wire[t]) : Follows(agent[n], wire[t][i])'
    BY DEF AgentEdits
  <2>1. /\ Past(agent[n])
        /\ \A t \in Streams : link[n].stream = t =>
             /\ Before(agent[n], t)
             /\ \A i \in 1..Len(wire[t]) : Follows(agent[n], wire[t][i])
    BY DEF EditInv, AgentEdits
  <2> QED
    BY <2>1 DEF Past, Before, Reading, Follows
<1> QED
  BY <1>1, <1>3, <1>4 DEF EditInv

\* sendUpdate puts the tuning it has just read with what it read before, behind
\* everything it sent earlier.
LEMMA SendingKeepsEditInv ==
  ASSUME TypeOK, EditInv, NEW s \in Streams, SendUpdate(s)
  PROVE  EditInv'
<1> USE DEF storeVars, grpcVars, edgeVars
<1>1. UNCHANGED <<policy, edits, agent, link, epoch>>
  BY DEF SendUpdate
<1>2. PICK site \in Sites : wire' = [wire EXCEPT ![s] = Append(@, Update(s, site))]
  BY DEF SendUpdate
<1>3. PICK u : u = Update(s, site)
  OBVIOUS
<1>4. /\ u \in ConfigUpdate
      /\ u.rules = stream[s].rules
      /\ u.crs = stream[s].crs
      /\ u.site = site
      /\ u.tuning = policy[site]
  BY <1>3 DEF Update, ConfigUpdate, TypeOK, StreamState, Parts
<1>5. /\ \A t \in Streams \ {s} : stream'[t] = stream[t] /\ wire'[t] = wire[t]
      /\ stream'[s].pc = "select"
      /\ stream[s].pc = "policy"
  BY <1>2 DEF SendUpdate, FreeStream, TypeOK, StreamState
<1>6. /\ Len(wire[s]) \in Nat
      /\ Len(wire'[s]) = Len(wire[s]) + 1
      /\ \A i \in 1..Len(wire'[s]) :
           wire'[s][i] = IF i = Len(wire[s]) + 1 THEN u ELSE wire[s][i]
  <2>1. wire[s] \in Seq(ConfigUpdate) /\ wire'[s] = Append(wire[s], u)
    BY <1>2, <1>3 DEF TypeOK
  <2> QED
    BY <1>4, <2>1, AppendElements
<1>7. Past(u)
  <2>1. stream[s].rules <= policy["rules"] /\ stream[s].crs <= policy["crs"]
    BY <1>5 DEF EditInv, StoreEdits, Reading
  <2>2. policy[site] \in Nat
    BY DEF TypeOK, Parts
  <2> QED
    BY <1>4, <2>1, <2>2 DEF Past
<1>8. Follows(u, u)
  BY <1>4 DEF Follows, ConfigUpdate
<1>9. ASSUME NEW c, Past(c), Before(c, s) PROVE Follows(c, u)
  BY <1>4, <1>5, <1>9 DEF Past, Before, Follows, Reading
<1>10. \A t \in Streams : Reading(t)' => t # s
  BY <1>5 DEF Reading
<1>11. StoreEdits'
  BY <1>1, <1>5, <1>10 DEF EditInv, StoreEdits, Reading
<1>12. WireEdits'
  <2> SUFFICES ASSUME NEW t \in Streams, NEW i \in 1..Len(wire'[t])
               PROVE  /\ Past(wire'[t][i])
                      /\ Before(wire[t][i], t)'
                      /\ \A j \in i..Len(wire'[t]) : Follows(wire'[t][i], wire'[t][j])
    BY <1>1 DEF WireEdits, Past, Follows
  <2>1. CASE t # s
    BY <1>1, <1>5, <2>1 DEF EditInv, WireEdits, Before, Reading
  <2>2. CASE t = s /\ i = Len(wire[s]) + 1
    <3>1. wire'[t][i] = u /\ \A j \in i..Len(wire'[t]) : wire'[t][j] = u
      BY <1>6, <2>2
    <3> QED
      BY <1>5, <1>7, <1>8, <2>2, <3>1 DEF Before, Reading
  <2>3. CASE t = s /\ i # Len(wire[s]) + 1
    <3>1. i \in 1..Len(wire[s]) /\ wire'[t][i] = wire[s][i]
      BY <1>6, <2>3
    <3>2. /\ Past(wire[s][i])
          /\ Before(wire[s][i], s)
          /\ \A j \in i..Len(wire[s]) : Follows(wire[s][i], wire[s][j])
      BY <3>1 DEF EditInv, WireEdits
    <3>3. Follows(wire[s][i], u)
      BY <1>9, <3>2
    <3>4. ASSUME NEW j \in i..Len(wire'[t]) PROVE Follows(wire'[t][i], wire'[t][j])
      <4>1. CASE j = Len(wire[s]) + 1
        BY <1>6, <2>3, <3>1, <3>3, <3>4, <4>1
      <4>2. CASE j # Len(wire[s]) + 1
        <5>1. j \in i..Len(wire[s]) /\ wire'[t][j] = wire[s][j]
          BY <1>6, <2>3, <3>1, <3>4, <4>2
        <5> QED
          BY <3>1, <3>2, <5>1
      <4> QED
        BY <4>1, <4>2
    <3> QED
      BY <1>5, <2>3, <3>1, <3>2, <3>4 DEF Before, Reading
  <2> QED
    BY <2>1, <2>2, <2>3
<1>13. AgentEdits'
  <2> SUFFICES ASSUME NEW n \in Nodes, agent[n].epoch = epoch
               PROVE  /\ Past(agent[n])
                      /\ \A t \in Streams : link[n].stream = t =>
                           /\ Before(agent[n], t)'
                           /\ \A i \in 1..Len(wire'[t]) : Follows(agent[n], wire'[t][i])
    BY <1>1 DEF AgentEdits, Past, Follows
  <2>1. /\ Past(agent[n])
        /\ \A t \in Streams : link[n].stream = t =>
             /\ Before(agent[n], t)
             /\ \A i \in 1..Len(wire[t]) : Follows(agent[n], wire[t][i])
    BY DEF EditInv, AgentEdits
  <2>2. ASSUME NEW t \in Streams, link[n].stream = t
        PROVE  /\ Before(agent[n], t)'
               /\ \A i \in 1..Len(wire'[t]) : Follows(agent[n], wire'[t][i])
    <3>1. CASE t # s
      BY <1>1, <1>5, <2>1, <2>2, <3>1 DEF Before, Reading
    <3>2. CASE t = s
      <4>1. Follows(agent[n], u)
        BY <1>9, <2>1, <2>2, <3>2
      <4>2. \A i \in 1..Len(wire'[t]) : Follows(agent[n], wire'[t][i])
        BY <1>6, <2>1, <2>2, <3>2, <4>1
      <4> QED
        BY <1>1, <1>5, <3>2, <4>2 DEF Before, Reading
    <3> QED
      BY <3>1, <3>2
  <2> QED
    BY <2>1, <2>2
<1> QED
  BY <1>11, <1>12, <1>13 DEF EditInv

\* An agent that leaves its stream takes what was in flight with it.
LEMMA LeavingKeepsEditInv ==
  ASSUME TypeOK, EditInv, NEW n \in Nodes,
         link' = [link EXCEPT ![n] = NoLink], wire' = Dropped(n),
         UNCHANGED <<policy, edits, stream, agent, epoch>>
  PROVE  EditInv'
<1>1. \A s \in Streams : wire'[s] = wire[s] \/ wire'[s] = <<>>
  BY DEF Dropped
<1>2. \A m \in Nodes : \A s \in Streams : link'[m].stream = s => link[m].stream = s
  BY StreamsAssumption DEF NoLink, TypeOK
<1>3. StoreEdits'
  BY DEF EditInv, StoreEdits, Reading
<1>4. WireEdits'
  BY <1>1 DEF EditInv, WireEdits, Past, Before, Reading, Follows
<1>5. AgentEdits'
  BY <1>1, <1>2 DEF EditInv, AgentEdits, Past, Before, Reading, Follows
<1> QED
  BY <1>3, <1>4, <1>5 DEF EditInv

\* The next message an agent takes was sent by this process, is no newer than
\* the store and than what is being read for it, and leaves later ones behind.
LEMMA ReceivedIsNoRollback ==
  ASSUME TypeOK, PushInv, EditInv, NEW n \in Nodes,
         link[n].stream \in Streams, wire[link[n].stream] # <<>>
  PROVE  LET s == link[n].stream
             c == Head(wire[s])
         IN  /\ c = wire[s][1] /\ 1 \in 1..Len(wire[s])
             /\ c.epoch = epoch
             /\ Past(c)
             /\ Before(c, s)
             /\ \A i \in 1..Len(wire[s]) : Follows(c, wire[s][i])
             /\ agent[n].epoch = epoch => Follows(agent[n], c)
<1> DEFINE s == link[n].stream
           c == Head(wire[s])
<1>1. c = wire[s][1] /\ 1 \in 1..Len(wire[s])
  BY TailElements DEF TypeOK
<1>2. c.epoch = epoch
  BY <1>1 DEF PushInv, WireInv
<1>3. /\ Past(c)
      /\ Before(c, s)
      /\ \A i \in 1..Len(wire[s]) : Follows(c, wire[s][i])
  BY <1>1 DEF EditInv, WireEdits
<1>4. agent[n].epoch = epoch => Follows(agent[n], c)
  BY <1>1 DEF EditInv, AgentEdits
<1> QED
  BY <1>1, <1>2, <1>3, <1>4

\* An agent that takes a message and answers it keeps the order.
LEMMA ReceivingKeepsEditInv ==
  ASSUME TypeOK, PushInv, EditInv, NEW n \in Nodes, ReceiveUpdate(n) \/ RejectUpdate(n)
  PROVE  EditInv'
<1> USE DEF storeVars, grpcVars, edgeVars
<1>1. PICK s : s = link[n].stream
  OBVIOUS
<1>2. s \in Streams /\ wire[s] # <<>> /\ wire' = [wire EXCEPT ![s] = Tail(@)]
  BY <1>1 DEF ReceiveUpdate, RejectUpdate, Answer, LinkState, TypeOK
<1>3. UNCHANGED <<policy, edits, stream, epoch>>
  BY DEF ReceiveUpdate, RejectUpdate, Answer
<1>4. PICK c : c = Head(wire[s])
  OBVIOUS
<1>5. agent' = agent \/ agent' = [agent EXCEPT ![n] = c]
  BY <1>1, <1>4 DEF ReceiveUpdate, RejectUpdate
<1>6. \A m \in Nodes : link'[m].stream = link[m].stream
  <2>1. link' = [link EXCEPT ![n] = [stream |-> s, served |-> TRUE]]
    BY <1>1 DEF ReceiveUpdate, RejectUpdate, Answer
  <2> QED
    BY <1>1, <2>1 DEF TypeOK, LinkState
<1>7. /\ wire'[s] = Tail(wire[s])
      /\ \A t \in Streams \ {s} : wire'[t] = wire[t]
      /\ Len(wire[s]) \in Nat
      /\ Len(wire'[s]) = Len(wire[s]) - 1
      /\ \A i \in 1..Len(wire'[s]) : i + 1 \in 1..Len(wire[s]) /\ wire'[s][i] = wire[s][i + 1]
  BY <1>2, TailElements DEF TypeOK
<1>8. /\ Past(c)
      /\ Before(c, s)
      /\ \A i \in 1..Len(wire[s]) : Follows(c, wire[s][i])
  BY <1>1, <1>2, <1>4, ReceivedIsNoRollback
<1>9. StoreEdits'
  BY <1>3 DEF EditInv, StoreEdits, Reading
<1>10. WireEdits'
  <2> SUFFICES ASSUME NEW t \in Streams, NEW i \in 1..Len(wire'[t])
               PROVE  /\ Past(wire'[t][i])
                      /\ Before(wire'[t][i], t)
                      /\ \A j \in i..Len(wire'[t]) : Follows(wire'[t][i], wire'[t][j])
    BY <1>3 DEF WireEdits, Past, Before, Reading, Follows
  <2>1. CASE t # s
    BY <1>7, <2>1 DEF EditInv, WireEdits
  <2>2. CASE t = s
    <3>1. wire'[t][i] = wire[s][i + 1] /\ i + 1 \in 1..Len(wire[s])
      BY <1>7, <2>2
    <3>2. ASSUME NEW j \in i..Len(wire'[s])
          PROVE  wire'[s][j] = wire[s][j + 1] /\ j + 1 \in (i + 1)..Len(wire[s])
      BY <1>7, <2>2, <3>2
    <3> QED
      BY <2>2, <3>1, <3>2 DEF EditInv, WireEdits
  <2> QED
    BY <2>1, <2>2
<1>11. AgentEdits'
  <2> SUFFICES ASSUME NEW m \in Nodes, agent'[m].epoch = epoch
               PROVE  /\ Past(agent'[m])
                      /\ \A t \in Streams : link[m].stream = t =>
                           /\ Before(agent'[m], t)
                           /\ \A i \in 1..Len(wire'[t]) : Follows(agent'[m], wire'[t][i])
    BY <1>3, <1>6 DEF AgentEdits, Past, Before, Reading, Follows
  <2>1. CASE agent'[m] = agent[m]
    <3>1. /\ Past(agent[m])
          /\ \A t \in Streams : link[m].stream = t =>
               /\ Before(agent[m], t)
               /\ \A i \in 1..Len(wire[t]) : Follows(agent[m], wire[t][i])
      BY <2>1 DEF EditInv, AgentEdits
    <3>2. ASSUME NEW t \in Streams, link[m].stream = t, NEW i \in 1..Len(wire'[t])
          PROVE  Follows(agent[m], wire'[t][i])
      BY <1>7, <3>1, <3>2
    <3> QED
      BY <2>1, <3>1, <3>2
  <2>2. CASE m = n /\ agent'[m] = c
    BY <1>1, <1>7, <1>8, <2>2
  <2> QED
    BY <1>5, <2>1, <2>2 DEF TypeOK
<1> QED
  BY <1>9, <1>10, <1>11 DEF EditInv

\* Nothing else touches what an agent runs, not even a restart.
LEMMA OnlyReceivingChangesAgents ==
  [Next]_vars => UNCHANGED agent \/ \E n \in Nodes : ReceiveUpdate(n)
BY DEF Next, vars, storeVars, grpcVars, edgeVars, RestStep, NotifyStep, CreateRule,
       UpdateRule, DeleteRule, CreateException, DeleteException, ToggleCrs, AddIp, DeleteIp,
       AddRateLimit, DeleteRateLimit, UpdateRateLimit, UpdateBot, Edit, Bump, NotifyOnly,
       BeginUpdateSite, FinishUpdateSite, ReadVersion, PostPing, HandlerStep, ReadBundle,
       ReadToggles, SendUpdate, Wake, Return, ReceiveAck, Register, HeartbeatStep,
       HeartbeatKnown, HeartbeatUnknown, Enroll, SendHeartbeat, OpenStream, RejectUpdate,
       ReSync, ConnectionLost, Restart

LEMMA NextEditInv == TypeOK /\ PushInv /\ LinkInv /\ EditInv /\ [Next]_vars => EditInv'
<1> SUFFICES ASSUME TypeOK, PushInv, LinkInv, EditInv, [Next]_vars PROVE EditInv'
  OBVIOUS
<1> USE DEF storeVars, grpcVars, edgeVars
<1>1. ASSUME UNCHANGED <<policy, edits, stream, wire, agent, epoch>>,
             \A n \in Nodes : link'[n].stream = link[n].stream
      PROVE  EditInv'
  BY <1>1 DEF EditInv, StoreEdits, WireEdits, AgentEdits, Past, Before, Reading, Follows
<1>2. ASSUME NEW h \in Handlers, RestStep(h) PROVE EditInv'
  <2>1. ASSUME NEW part \in Parts, NEW next \in {"version", "idle"}, Edit(h, part, next)
        PROVE  EditInv'
    BY <2>1, LaterEditsKeepEditInv DEF Edit
  <2>2. ASSUME NEW site \in Sites, BeginUpdateSite(h, site) PROVE EditInv'
    BY <2>2, LaterEditsKeepEditInv DEF BeginUpdateSite, Parts
  <2>3. CASE Bump(h) \/ NotifyOnly(h)
    BY <1>1, <2>3 DEF Bump, NotifyOnly
  <2> QED
    BY <1>2, <2>1, <2>2, <2>3
       DEF RestStep, CreateRule, UpdateRule, DeleteRule, CreateException, DeleteException,
           ToggleCrs, AddIp, DeleteIp, AddRateLimit, DeleteRateLimit, UpdateRateLimit,
           UpdateBot, Parts
<1>3. ASSUME NEW h \in Handlers, NotifyStep(h) PROVE EditInv'
  <2>1. CASE FinishUpdateSite(h)
    <3>1. handler[h].part \in Parts
      BY DEF TypeOK, HandlerState
    <3> QED
      BY <2>1, <3>1, LaterEditsKeepEditInv DEF FinishUpdateSite
  <2>2. CASE ReadVersion(h) \/ PostPing(h)
    BY <1>1, <2>2 DEF ReadVersion, PostPing
  <2> QED
    BY <1>3, <2>1, <2>2 DEF NotifyStep
<1>4. ASSUME NEW n \in Nodes, NEW s \in Streams, OpenStream(n, s) PROVE EditInv'
  <2>1. UNCHANGED <<policy, edits, wire, agent, epoch>> /\ wire[s] = <<>>
    BY <1>4 DEF OpenStream, LinkInv, SlotInv
  <2>2. /\ \A t \in Streams \ {s} : stream'[t] = stream[t]
        /\ stream'[s].pc = "bundle"
    BY <1>4 DEF OpenStream, FreeStream, TypeOK, StreamState
  <2>3. /\ \A m \in Nodes \ {n} : link'[m] = link[m]
        /\ link'[n].stream = s
    BY <1>4 DEF OpenStream, TypeOK, LinkState
  <2>4. StoreEdits'
    BY <2>1, <2>2 DEF EditInv, StoreEdits, Reading
  <2>5. WireEdits'
    BY <2>1, <2>2 DEF EditInv, WireEdits, Past, Before, Reading, Follows
  <2>6. AgentEdits'
    <3> SUFFICES ASSUME NEW m \in Nodes, agent[m].epoch = epoch
                 PROVE  /\ Past(agent[m])
                        /\ \A t \in Streams : link'[m].stream = t =>
                             /\ Before(agent[m], t)'
                             /\ \A i \in 1..Len(wire[t]) : Follows(agent[m], wire[t][i])
      BY <2>1 DEF AgentEdits, Past, Follows
    <3>1. CASE m = n
      BY <2>1, <2>2, <2>3, <3>1 DEF EditInv, AgentEdits, Before, Reading
    <3>2. CASE m # n
      BY <2>1, <2>2, <2>3, <3>2 DEF EditInv, AgentEdits, Before, Reading
    <3> QED
      BY <3>1, <3>2
  <2> QED
    BY <2>4, <2>5, <2>6 DEF EditInv
<1>5. ASSUME NEW s \in Streams, ReadBundle(s) PROVE EditInv'
  BY <1>5, ReadingKeepsEditInv DEF ReadBundle, TypeOK, StreamState
<1>6. ASSUME NEW s \in Streams, ReadToggles(s) PROVE EditInv'
  BY <1>6, ReadingKeepsEditInv DEF ReadToggles, Reading, TypeOK, StreamState
<1>7. ASSUME NEW s \in Streams, Wake(s) \/ Return(s) PROVE EditInv'
  <2>1. /\ UNCHANGED <<policy, edits, wire, agent, link, epoch>>
        /\ \A t \in Streams \ {s} : stream'[t] = stream[t]
        /\ stream'[s].pc \in {"select", "bundle", "free"}
    BY <1>7 DEF Wake, Return, FreeStream, TypeOK, StreamState
  <2> QED
    BY <2>1, ReadingKeepsEditInv DEF Reading
<1>8. ASSUME NEW n \in Nodes, ReSync(n) \/ ConnectionLost(n) PROVE EditInv'
  BY <1>1, <1>8, LeavingKeepsEditInv DEF ReSync, ConnectionLost
<1>9. ASSUME Restart PROVE EditInv'
  <2>1. /\ edits' = edits + 1 /\ edits \in Nat
        /\ \A p \in Parts : policy'[p] \in {0, policy["rules"], edits + 1}
    BY <1>9 DEF Restart, TypeOK
  <2>2. policy["rules"] <= edits /\ policy["rules"] \in Nat
    BY EditTypes DEF EditInv, StoreEdits, Parts
  <2>3. StoreEdits'
    BY <1>9, <2>1, <2>2 DEF Restart, StoreEdits, Reading, FreeStream
  <2>4. WireEdits'
    BY <1>9 DEF Restart, WireEdits
  <2>5. AgentEdits'
    BY <1>9 DEF Restart, AgentEdits, PushInv, AgentInv, TypeOK, ConfigUpdate
  <2> QED
    BY <2>3, <2>4, <2>5 DEF EditInv
<1>10. ASSUME NEW s \in Streams, ReceiveAck(s) PROVE EditInv'
  BY <1>1, <1>10 DEF ReceiveAck
<1>11. ASSUME NEW n \in Nodes, Register(n) \/ HeartbeatStep(n) \/ SendHeartbeat(n)
       PROVE  EditInv'
  BY <1>1, <1>11
     DEF Register, HeartbeatStep, HeartbeatKnown, HeartbeatUnknown, Enroll, SendHeartbeat
<1>12. CASE UNCHANGED vars
  BY <1>1, <1>12 DEF vars
<1> QED
  BY <1>2, <1>3, <1>4, <1>5, <1>6, <1>7, <1>8, <1>9, <1>10, <1>11, <1>12,
     SendingKeepsEditInv, ReceivingKeepsEditInv DEF Next, HandlerStep

\* No update replaces what an agent runs by an older edit of any part
\* (server.go:79-82): pings arrive late, out of order and with versions that go
\* backwards, and a new stream overtakes the last one, but every update is read
\* after the one before it on its way to the agent was.
THEOREM UpdatesNeverRollBack == Spec => NoRollback
<1> DEFINE Inv == TypeOK /\ PushInv /\ LinkInv /\ EditInv
<1>1. Init => Inv
  BY InitTypeOK, InitPushInv, InitLinkInv, InitEditInv
<1>2. Inv /\ [Next]_vars => Inv'
  BY NextTypeOK, NextPushInv, NextLinkInv, NextEditInv
<1>3. ASSUME Inv, [Next]_vars, NEW n \in Nodes, agent'[n].epoch = agent[n].epoch
      PROVE  Follows(agent[n], agent'[n])
  <2>1. Follows(agent[n], agent[n])
    BY <1>3, EditTypes DEF Follows, ConfigUpdate
  <2>2. CASE agent'[n] = agent[n]
    BY <2>1, <2>2
  <2>3. CASE ReceiveUpdate(n)
    <3>1. /\ link[n].stream \in Streams
          /\ wire[link[n].stream] # <<>>
          /\ agent'[n] = Head(wire[link[n].stream])
      BY <1>3, <2>3 DEF ReceiveUpdate, Answer, LinkState, TypeOK
    <3> QED
      BY <1>3, <3>1, ReceivedIsNoRollback
  <2>4. \A m \in Nodes : ReceiveUpdate(m) => m = n \/ agent'[n] = agent[n]
    BY <1>3 DEF ReceiveUpdate, TypeOK
  <2> QED
    BY <1>3, <2>2, <2>3, <2>4, OnlyReceivingChangesAgents
<1>4. Inv /\ [Next]_vars =>
        [\A n \in Nodes : agent'[n].epoch = agent[n].epoch =>
           /\ agent'[n].rules >= agent[n].rules
           /\ agent'[n].crs >= agent[n].crs
           /\ agent'[n].site = agent[n].site => agent'[n].tuning >= agent[n].tuning]_vars
  BY <1>3 DEF Follows
<1> QED
  BY <1>1, <1>2, <1>4, PTL DEF Spec, NoRollback

-----------------------------------------------------------------------------
(* Agents that have caught up stay so *)

\* A step that leaves version, content and process alone ends no assignment of a
\* tuning, so it takes nothing out of date.
LEMMA CurrentStaysCurrent ==
  ASSUME UNCHANGED <<policy, handler>>, NEW c, Current(c)
  PROVE  Current(c)'
BY DEF Current, Writing

\* Every step that writes a part or bumps the version shows it.
LEMMA ChangesShow ==
  ASSUME TypeOK, EditInv, UNCHANGED <<versionSeq, policy, epoch>>
  PROVE  /\ \A h \in Handlers : RestStep(h) => NotifyOnly(h)
         /\ \A h \in Handlers : ~FinishUpdateSite(h)
         /\ ~Restart
<1>1. edits \in Nat /\ \A p \in Parts : policy[p] <= edits /\ policy[p] \in Nat
  BY EditTypes DEF EditInv, StoreEdits
<1>2. ASSUME NEW h \in Handlers, NEW site \in Sites, BeginUpdateSite(h, site) PROVE FALSE
  <2>1. site \in Parts
    BY DEF Parts
  <2>2. policy'[site] = edits + 1
    BY <1>2, <2>1 DEF BeginUpdateSite, TypeOK
  <2> QED
    BY <1>1, <2>1, <2>2
<1>3. ASSUME NEW h \in Handlers, NEW part, NEW next, Edit(h, part, next) PROVE FALSE
  BY <1>3 DEF Edit, TypeOK
<1>4. ASSUME NEW h \in Handlers, Bump(h) PROVE FALSE
  BY <1>4 DEF Bump, TypeOK
<1>5. \A h \in Handlers : RestStep(h) => NotifyOnly(h)
  BY <1>2, <1>3, <1>4
     DEF RestStep, CreateRule, UpdateRule, DeleteRule, CreateException, DeleteException,
         ToggleCrs, AddIp, DeleteIp, AddRateLimit, DeleteRateLimit, UpdateRateLimit, UpdateBot
<1>6. \A h \in Handlers : ~FinishUpdateSite(h)
  BY DEF FinishUpdateSite, TypeOK
<1>7. ~Restart
  BY DEF Restart, TypeOK
<1> QED
  BY <1>5, <1>6, <1>7

\* What REST handlers still do is to post pings with the version there is.
LEMMA PingsKeepCaughtUp ==
  ASSUME TypeOK, CaughtUp, UNCHANGED <<versionSeq, policy, epoch>>,
         NEW h \in Handlers, NotifyOnly(h) \/ ReadVersion(h) \/ PostPing(h)
  PROVE  CaughtUp'
<1> USE DEF storeVars, grpcVars, edgeVars
<1>1. UNCHANGED <<registry, stream, wire, agent, hb>>
  BY DEF NotifyOnly, ReadVersion, PostPing
<1>2. /\ handler[h].pc \in {"idle", "version", "post"}
      /\ \A g \in Handlers \ {h} : handler'[g] = handler[g]
      /\ handler'[h].pc \in {"idle", "version", "post"}
      /\ handler'[h].pc = "post" => handler'[h].ver = versionSeq
  BY DEF NotifyOnly, ReadVersion, PostPing, IdleHandler, TypeOK, HandlerState
<1>3. Writing' = Writing
  BY <1>2 DEF Writing
<1>4. Converged'
  BY <1>1, <1>3 DEF CaughtUp, Converged, Current
<1>5. \A i \in 1..Len(notify') : notify'[i] = versionSeq
  <2>1. CASE notify' = notify
    BY <2>1 DEF CaughtUp
  <2>2. CASE notify' = Append(notify, handler[h].ver) /\ handler[h].pc = "post"
    <3>1. notify \in Seq(Nat) /\ handler[h].ver \in Nat /\ handler[h].ver = versionSeq
      BY <2>2 DEF TypeOK, HandlerState, CaughtUp
    <3> QED
      BY <2>2, <3>1, AppendElements DEF CaughtUp
  <2> QED
    BY <2>1, <2>2 DEF NotifyOnly, ReadVersion, PostPing, Posted
<1>6. \A g \in Handlers : handler'[g].pc = "post" => handler'[g].ver = versionSeq
  BY <1>2 DEF CaughtUp
<1> QED
  BY <1>1, <1>4, <1>5, <1>6 DEF CaughtUp

\* A stream handler sends what bears the version there is, and a ping that bears
\* it starts nothing.
LEMMA StreamsKeepCaughtUp ==
  ASSUME TypeOK, CaughtUp, UNCHANGED <<versionSeq, policy, epoch>>, NEW s \in Streams,
         HandlerStep(s) \/ \E n \in Nodes : OpenStream(n, s)
  PROVE  CaughtUp'
<1> USE DEF storeVars, grpcVars, edgeVars
<1>1. UNCHANGED <<registry, handler, agent, hb>>
  BY DEF HandlerStep, ReadBundle, ReadToggles, SendUpdate, Wake, Return, OpenStream
<1>2. Converged'
  BY <1>1, CurrentStaysCurrent DEF CaughtUp, Converged
<1>3. /\ \A t \in Streams \ {s} : stream'[t] = stream[t]
      /\ stream'[s].pc # "free" => stream'[s].cur = versionSeq
  <2>1. CASE Wake(s)
    <3>1. Head(notify) = notify[1] /\ 1 \in 1..Len(notify)
      BY <2>1, TailElements DEF Wake, TypeOK
    <3>2. Head(notify) = versionSeq
      BY <3>1 DEF CaughtUp
    <3> QED
      BY <2>1, <3>2 DEF Wake, CaughtUp, TypeOK, StreamState
  <2>2. CASE \E n \in Nodes : OpenStream(n, s)
    BY <2>2 DEF OpenStream, FreeStream, TypeOK, StreamState
  <2>3. CASE ReadBundle(s) \/ ReadToggles(s) \/ SendUpdate(s) \/ Return(s)
    <3>1. \/ stream'[s].pc = "free"
          \/ stream[s].pc # "free" /\ stream'[s].cur = stream[s].cur
      <4>1. CASE ReadBundle(s) \/ ReadToggles(s)
        BY <4>1 DEF ReadBundle, ReadToggles, TypeOK, StreamState
      <4>2. CASE SendUpdate(s)
        BY <4>2 DEF SendUpdate, FreeStream, TypeOK, StreamState
      <4>3. CASE Return(s)
        BY <4>3 DEF Return, FreeStream, TypeOK
      <4> QED
        BY <2>3, <4>1, <4>2, <4>3
    <3>2. \A t \in Streams \ {s} : stream'[t] = stream[t]
      BY <2>3 DEF ReadBundle, ReadToggles, SendUpdate, Return, TypeOK
    <3> QED
      BY <3>1, <3>2 DEF CaughtUp
  <2> QED
    BY <2>1, <2>2, <2>3 DEF HandlerStep
<1>4. \A t \in Streams : \A i \in 1..Len(wire'[t]) : wire'[t][i].ver = versionSeq
  <2>1. CASE SendUpdate(s)
    <3>1. PICK site \in Sites : wire' = [wire EXCEPT ![s] = Append(@, Update(s, site))]
      BY <2>1 DEF SendUpdate
    <3>2. PICK u : u = Update(s, site)
      OBVIOUS
    <3>3. u \in ConfigUpdate /\ u.ver = versionSeq
      BY <2>1, <3>2 DEF SendUpdate, Update, ConfigUpdate, CaughtUp, TypeOK, StreamState, Parts
    <3>4. wire[s] \in Seq(ConfigUpdate) /\ wire'[s] = Append(wire[s], u)
      BY <3>1, <3>2 DEF TypeOK
    <3>5. \A t \in Streams \ {s} : wire'[t] = wire[t]
      BY <3>1 DEF TypeOK
    <3> QED
      BY <3>3, <3>4, <3>5, AppendElements DEF CaughtUp
  <2>2. CASE UNCHANGED wire
    BY <2>2 DEF CaughtUp
  <2> QED
    BY <2>1, <2>2 DEF HandlerStep, ReadBundle, ReadToggles, Wake, Return, OpenStream
<1>5. \A i \in 1..Len(notify') : notify'[i] = versionSeq
  <2>1. CASE Wake(s)
    BY <2>1, TailElements DEF Wake, TypeOK, CaughtUp
  <2>2. CASE UNCHANGED notify
    BY <2>2 DEF CaughtUp
  <2> QED
    BY <2>1, <2>2 DEF HandlerStep, ReadBundle, ReadToggles, SendUpdate, Return, OpenStream
<1> QED
  BY <1>1, <1>2, <1>3, <1>4, <1>5 DEF CaughtUp

\* The status of a known node changes by an ack of, or a heartbeat with, the
\* version there is.
LEMMA ReportsKeepCaughtUp ==
  ASSUME TypeOK, CaughtUp, UNCHANGED <<versionSeq, policy, epoch>>,
         \/ \E s \in Streams : ReceiveAck(s)
         \/ \E n \in Nodes : Register(n) \/ HeartbeatStep(n) \/ SendHeartbeat(n)
  PROVE  CaughtUp'
<1> USE DEF storeVars, grpcVars, edgeVars
<1>1. UNCHANGED <<handler, notify, stream, wire, agent>>
  BY DEF ReceiveAck, Register, HeartbeatStep, HeartbeatKnown, HeartbeatUnknown, Enroll,
         SendHeartbeat
<1>2. \A m \in Nodes : registry'[m].sync = "IN_SYNC"
  <2>1. \A m \in Nodes : registry[m].sync = "IN_SYNC"
    BY DEF CaughtUp, Converged
  <2>2. ASSUME NEW n \in Nodes, HeartbeatKnown(n) PROVE ~Stale(hb[n].ver)
    BY <2>2 DEF HeartbeatKnown, Stale, CaughtUp
  <2>3. ASSUME NEW n \in Nodes, HeartbeatKnown(n)
        PROVE  \A m \in Nodes : registry'[m].sync = "IN_SYNC"
    BY <2>1, <2>2, <2>3 DEF HeartbeatKnown, TypeOK, NodeState
  <2>4. \A n \in Nodes : UpsertNode(n) = registry
    BY <2>1 DEF UpsertNode
  <2>5. ASSUME NEW s \in Streams, ReceiveAck(s)
        PROVE  \A m \in Nodes : registry'[m].sync = "IN_SYNC"
    BY <2>1, <2>5 DEF ReceiveAck, MarkSynced, TypeOK, NodeState
  <2> QED
    BY <2>1, <2>3, <2>4, <2>5
       DEF Register, HeartbeatStep, HeartbeatUnknown, Enroll, SendHeartbeat
<1>3. \A m \in Nodes : hb'[m].pc = "sent" => hb'[m].ver = versionSeq
  <2>1. ASSUME NEW n \in Nodes, SendHeartbeat(n) PROVE hb'[n].ver = versionSeq
    BY <2>1 DEF SendHeartbeat, CaughtUp, Converged, TypeOK
  <2>2. ASSUME NEW n \in Nodes, HeartbeatStep(n) PROVE hb'[n].pc # "sent"
    BY <2>2 DEF HeartbeatStep, HeartbeatKnown, HeartbeatUnknown, Enroll, IdleBeat, EnrollBeat,
                DesiredBeat, TypeOK
  <2>3. ASSUME NEW n \in Nodes, SendHeartbeat(n) \/ HeartbeatStep(n)
        PROVE  \A m \in Nodes \ {n} : hb'[m] = hb[m]
    BY <2>3 DEF SendHeartbeat, HeartbeatStep, HeartbeatKnown, HeartbeatUnknown, Enroll, TypeOK
  <2>4. ASSUME UNCHANGED hb PROVE \A m \in Nodes : hb'[m].pc = "sent" => hb'[m].ver = versionSeq
    BY <2>4 DEF CaughtUp
  <2> QED
    BY <2>1, <2>2, <2>3, <2>4 DEF CaughtUp, ReceiveAck, Register
<1>4. Converged'
  BY <1>1, <1>2, CurrentStaysCurrent DEF CaughtUp, Converged
<1> QED
  BY <1>1, <1>3, <1>4 DEF CaughtUp

\* An agent receives what was read under the version there is, and loses nothing
\* it runs with a connection.
LEMMA AgentsKeepCaughtUp ==
  ASSUME TypeOK, PushInv, CaughtUp, UNCHANGED <<versionSeq, policy, epoch>>, NEW n \in Nodes,
         ReceiveUpdate(n) \/ RejectUpdate(n) \/ ReSync(n) \/ ConnectionLost(n)
  PROVE  CaughtUp'
<1> USE DEF storeVars, grpcVars, edgeVars
<1>1. UNCHANGED <<registry, handler, notify, stream>>
  BY DEF ReceiveUpdate, RejectUpdate, Answer, ReSync, ConnectionLost
<1>2. \A t \in Streams : \A i \in 1..Len(wire'[t]) :
        \E j \in 1..Len(wire[t]) : wire'[t][i] = wire[t][j]
  <2>1. CASE ReceiveUpdate(n) \/ RejectUpdate(n)
    <3>1. PICK s \in Streams : wire[s] # <<>> /\ wire' = [wire EXCEPT ![s] = Tail(@)]
      BY <2>1 DEF ReceiveUpdate, RejectUpdate, Answer, LinkState, TypeOK
    <3>2. wire[s] \in Seq(ConfigUpdate) /\ wire'[s] = Tail(wire[s])
      BY <3>1 DEF TypeOK
    <3>3. \A t \in Streams \ {s} : wire'[t] = wire[t]
      BY <3>1 DEF TypeOK
    <3> QED
      BY <3>1, <3>2, <3>3, TailElements
  <2>2. CASE ReSync(n) \/ ConnectionLost(n)
    <3>1. \A t \in Streams : wire'[t] = wire[t] \/ wire'[t] = <<>>
      BY <2>2 DEF ReSync, ConnectionLost, Dropped
    <3> QED
      BY <3>1
  <2> QED
    BY <2>1, <2>2
<1>3. \A m \in Nodes : \/ agent'[m] = agent[m]
                       \/ \E s \in Streams : \E j \in 1..Len(wire[s]) : agent'[m] = wire[s][j]
  <2>1. CASE ReceiveUpdate(n)
    <3>1. PICK s : s = link[n].stream
      OBVIOUS
    <3>2. /\ s \in Streams
          /\ wire[s] # <<>>
          /\ agent' = [agent EXCEPT ![n] = Head(wire[s])]
      BY <2>1, <3>1 DEF ReceiveUpdate, Answer, LinkState, TypeOK
    <3>3. Head(wire[s]) = wire[s][1] /\ 1 \in 1..Len(wire[s])
      BY <3>2, TailElements DEF TypeOK
    <3> QED
      BY <3>2, <3>3 DEF TypeOK
  <2>2. CASE UNCHANGED agent
    BY <2>2
  <2> QED
    BY <2>1, <2>2 DEF RejectUpdate, ReSync, ConnectionLost
<1>4. \A s \in Streams : \A j \in 1..Len(wire[s]) :
        /\ wire[s][j].epoch = epoch
        /\ wire[s][j].ver = versionSeq
        /\ Current(wire[s][j])
  <2> SUFFICES ASSUME NEW s \in Streams, NEW j \in 1..Len(wire[s])
               PROVE  /\ wire[s][j].epoch = epoch
                      /\ wire[s][j].ver = versionSeq
                      /\ Current(wire[s][j])
    OBVIOUS
  <2>1. PICK c : c = wire[s][j]
    OBVIOUS
  <2>2. c \in ConfigUpdate /\ c.epoch = epoch /\ Stamped(c)
    BY <2>1, WireElements DEF PushInv, WireInv
  <2>3. c.ver = versionSeq
    BY <2>1 DEF CaughtUp
  <2>4. c.asOf = versionSeq
    <3>1. c.asOf \in Nat /\ versionSeq \in Nat
      BY <2>2 DEF ConfigUpdate, TypeOK
    <3> QED
      BY <2>2, <2>3, <3>1 DEF Stamped
  <2> QED
    BY <2>1, <2>2, <2>3, <2>4 DEF Stamped
<1>5. \A m \in Nodes : agent'[m].epoch = epoch /\ agent'[m].ver = versionSeq /\ Current(agent'[m])
  BY <1>3, <1>4 DEF CaughtUp, Converged
<1>6. Converged'
  BY <1>1, <1>5 DEF CaughtUp, Converged, Current, Writing
<1>7. \A m \in Nodes : hb'[m].pc = "sent" => hb'[m] = hb[m]
  BY DEF ReceiveUpdate, RejectUpdate, Answer, ReSync, ConnectionLost, IdleBeat, TypeOK
<1>8. \A t \in Streams : \A i \in 1..Len(wire'[t]) : wire'[t][i].ver = versionSeq
  BY <1>2, <1>4
<1> QED
  BY <1>1, <1>6, <1>7, <1>8 DEF CaughtUp

\* Once every agent runs the store's content under the store's version, with
\* nothing older on its way, only a change or a restart undoes it: the safety
\* half of convergence (store.go:75-81, 116-129, server.go:52-114).
THEOREM CaughtUpStays == Spec => StaysCaughtUp
<1> DEFINE Inv == TypeOK /\ PushInv /\ LinkInv /\ EditInv
<1>1. Init => Inv
  BY InitTypeOK, InitPushInv, InitLinkInv, InitEditInv
<1>2. Inv /\ [Next]_vars => Inv'
  BY NextTypeOK, NextPushInv, NextLinkInv, NextEditInv
<1>3. ASSUME Inv, [Next]_vars, CaughtUp, UNCHANGED <<versionSeq, policy, epoch>>
      PROVE  CaughtUp'
  <2>1. CASE UNCHANGED vars
    BY <1>3, <2>1 DEF vars, storeVars, grpcVars, edgeVars, CaughtUp, Converged, Current, Writing
  <2>2. ASSUME NEW h \in Handlers, RestStep(h) \/ NotifyStep(h) PROVE CaughtUp'
    BY <1>3, <2>2, ChangesShow, PingsKeepCaughtUp DEF NotifyStep
  <2> QED
    BY <1>3, <2>1, <2>2, ChangesShow, StreamsKeepCaughtUp, ReportsKeepCaughtUp,
       AgentsKeepCaughtUp DEF Next
<1>4. Inv /\ [Next]_vars =>
        [CaughtUp /\ UNCHANGED <<versionSeq, policy, epoch>> => CaughtUp']_vars
  BY <1>3
<1> QED
  BY <1>1, <1>2, <1>4, PTL DEF Spec, StaysCaughtUp

-----------------------------------------------------------------------------
(* ConfigSync implements EdgePolicy *)

\* Store.mu is held by at most one UpdateSite.
LockInv ==
  \A g, h \in Handlers : handler[g].pc = "write" /\ handler[h].pc = "write" => g = h

LEMMA InitLockInv == Init => LockInv
BY DEF Init, LockInv, IdleHandler

LEMMA NextLockInv == TypeOK /\ LockInv /\ [Next]_vars => LockInv'
<1> SUFFICES ASSUME TypeOK, LockInv, [Next]_vars PROVE LockInv'
  OBVIOUS
<1> USE DEF storeVars, grpcVars, edgeVars
<1>1. ASSUME NEW h \in Handlers, handler' = [handler EXCEPT ![h] = handler'[h]],
             handler'[h].pc = "write" => ~Locked
      PROVE  LockInv'
  BY <1>1 DEF LockInv, Locked, TypeOK
<1>2. ASSUME UNCHANGED handler PROVE LockInv'
  BY <1>2 DEF LockInv
<1>3. ASSUME NEW h \in Handlers, RestStep(h) PROVE LockInv'
  <2>1. handler' = [handler EXCEPT ![h] = handler'[h]] /\ ~Locked
    BY <1>3 DEF RestStep, CreateRule, UpdateRule, DeleteRule, CreateException, DeleteException,
                ToggleCrs, AddIp, DeleteIp, AddRateLimit, DeleteRateLimit, UpdateRateLimit,
                UpdateBot, Edit, Bump, NotifyOnly, BeginUpdateSite, TypeOK
  <2> QED
    BY <1>1, <2>1
<1>4. ASSUME NEW h \in Handlers, NotifyStep(h) PROVE LockInv'
  <2>1. /\ handler' = [handler EXCEPT ![h] = handler'[h]]
        /\ handler'[h].pc # "write"
    BY <1>4 DEF NotifyStep, FinishUpdateSite, ReadVersion, PostPing, IdleHandler, TypeOK,
                HandlerState
  <2> QED
    BY <1>1, <2>1
<1>5. ASSUME Restart PROVE LockInv'
  BY <1>5 DEF Restart, LockInv, IdleHandler
<1>6. CASE UNCHANGED vars
  BY <1>2, <1>6 DEF vars
<1> QED
  BY <1>2, <1>3, <1>4, <1>5, <1>6
     DEF Next, HandlerStep, ReadBundle, ReadToggles, SendUpdate, Wake, Return, ReceiveAck,
         Register, HeartbeatStep, HeartbeatKnown, HeartbeatUnknown, Enroll, SendHeartbeat,
         OpenStream, ReceiveUpdate, RejectUpdate, Answer, ReSync, ConnectionLost

\* The assignment of a tuning unsettles its site from its first step to its last.
LEMMA WritingChanges ==
  ASSUME TypeOK, LockInv, NEW h \in Handlers
  PROVE  /\ ~Locked => Writing = {}
         /\ RestStep(h) => Writing = {}
         /\ \A site \in Sites : BeginUpdateSite(h, site) => Writing' = {site}
         /\ FinishUpdateSite(h) => Writing' = Writing \ {handler[h].part}
         /\ \/ NotifyOnly(h) \/ Bump(h) \/ ReadVersion(h) \/ PostPing(h)
            \/ \E p \in Parts : Edit(h, p, "version") \/ Edit(h, p, "idle")
            => Writing' = Writing
<1>1. ~Locked => Writing = {}
  BY DEF Locked, Writing
<1>2. RestStep(h) => ~Locked
  BY DEF RestStep, CreateRule, UpdateRule, DeleteRule, CreateException, DeleteException,
         ToggleCrs, AddIp, DeleteIp, AddRateLimit, DeleteRateLimit, UpdateRateLimit,
         UpdateBot, Edit, Bump, NotifyOnly, BeginUpdateSite
<1>3. ASSUME NEW site \in Sites, BeginUpdateSite(h, site) PROVE Writing' = {site}
  BY <1>3 DEF BeginUpdateSite, Locked, Writing, TypeOK
<1>4. ASSUME FinishUpdateSite(h) PROVE Writing' = Writing \ {handler[h].part}
  <2>1. /\ handler[h].pc = "write"
        /\ \A g \in Handlers \ {h} : handler'[g] = handler[g] /\ handler[g].pc # "write"
        /\ handler'[h].pc = "version"
    BY <1>4 DEF FinishUpdateSite, LockInv, IdleHandler, TypeOK
  <2>2. Writing = {handler[h].part} /\ Writing' = {}
    BY <2>1 DEF Writing
  <2> QED
    BY <2>2
<1>5. ASSUME handler[h].pc # "write", handler'[h].pc # "write",
             \A g \in Handlers \ {h} : handler'[g] = handler[g]
      PROVE  Writing' = Writing
  BY <1>5 DEF Writing
<1>6. ASSUME \/ NotifyOnly(h) \/ Bump(h) \/ ReadVersion(h) \/ PostPing(h)
             \/ \E p \in Parts : Edit(h, p, "version") \/ Edit(h, p, "idle")
      PROVE  Writing' = Writing
  BY <1>5, <1>6 DEF NotifyOnly, Bump, ReadVersion, PostPing, Edit, IdleHandler, TypeOK,
                    HandlerState
<1> QED
  BY <1>1, <1>2, <1>3, <1>4, <1>6

\* An edit gives its part a number that no part has had.
LEMMA EditsRewrite ==
  ASSUME TypeOK, EditInv, NEW p \in Parts, policy' = [policy EXCEPT ![p] = edits + 1]
  PROVE  Edge!Rewritten(p)
<1>1. policy[p] <= edits /\ policy[p] \in Nat /\ edits \in Nat /\ policy'[p] = edits + 1
  BY EditTypes DEF EditInv, StoreEdits, TypeOK
<1>2. policy'[p] > policy[p]
  BY <1>1
<1> QED
  BY <1>1, <1>2 DEF Edge!Rewritten

\* Every change of the policy is one of EdgePolicy's.
LEMMA ChangesImplement ==
  ASSUME TypeOK, EditInv, LockInv, NEW h \in Handlers, RestStep(h) \/ FinishUpdateSite(h)
  PROVE  Edge!Next \/ UNCHANGED Edge!vars
<1> USE DEF storeVars, grpcVars, edgeVars
<1>1. ASSUME NEW p \in Parts, p \notin Sites, Edit(h, p, "version") \/ Edit(h, p, "idle"),
             RestStep(h)
      PROVE  Edge!Change(p)
  <2>1. Writing' = Writing \ {p}
    BY <1>1, WritingChanges
  <2>2. Edge!Rewritten(p)
    BY <1>1, EditsRewrite DEF Edit
  <2> QED
    BY <1>1, <2>1, <2>2 DEF Edge!Change, Edit
<1>2. ASSUME Bump(h) PROVE Edge!Bump
  BY <1>2, WritingChanges DEF Bump, Edge!Bump
<1>3. ASSUME NotifyOnly(h) PROVE UNCHANGED Edge!vars
  BY <1>3, WritingChanges DEF NotifyOnly, Edge!vars
<1>4. ASSUME NEW site \in Sites, BeginUpdateSite(h, site) PROVE Edge!BeginChange(site)
  <2>1. Writing = {} /\ Writing' = {site}
    BY <1>4, WritingChanges DEF BeginUpdateSite
  <2>2. Edge!Rewritten(site)
    BY <1>4, EditsRewrite DEF BeginUpdateSite, Parts
  <2> QED
    BY <1>4, <2>1, <2>2 DEF BeginUpdateSite, Edge!BeginChange
<1>5. ASSUME FinishUpdateSite(h) PROVE Edge!Change(handler[h].part)
  <2>1. handler[h].part \in Parts
    BY DEF TypeOK, HandlerState
  <2>2. Edge!Rewritten(handler[h].part)
    BY <1>5, <2>1, EditsRewrite DEF FinishUpdateSite
  <2> QED
    BY <1>5, <2>2, WritingChanges DEF FinishUpdateSite, Edge!Change
<1>6. handler[h].part \in Edge!Parts
  BY DEF TypeOK, HandlerState, Parts, Edge!Parts
<1>7. CASE FinishUpdateSite(h)
  BY <1>5, <1>6, <1>7 DEF Edge!Next
<1>8. CASE RestStep(h)
  <2>1. /\ "rules" \in Parts \ Sites /\ "rules" \in Edge!Parts
        /\ "crs" \in Parts \ Sites /\ "crs" \in Edge!Parts
    BY SitesAssumption DEF Parts, Edge!Parts
  <2>2. \/ \E p \in {"rules", "crs"} : Edit(h, p, "version") \/ Edit(h, p, "idle")
        \/ Bump(h)
        \/ NotifyOnly(h)
        \/ \E site \in Sites : BeginUpdateSite(h, site)
    BY <1>8
       DEF RestStep, CreateRule, UpdateRule, DeleteRule, CreateException, DeleteException,
           ToggleCrs, AddIp, DeleteIp, AddRateLimit, DeleteRateLimit, UpdateRateLimit, UpdateBot
  <2> QED
    BY <1>1, <1>2, <1>3, <1>4, <1>8, <2>1, <2>2 DEF Edge!Next
<1> QED
  BY <1>7, <1>8

\* Whatever an agent takes from its stream, EdgePolicy lets it have.
LEMMA DeliveriesImplement ==
  ASSUME TypeOK, PushInv, EditInv, NEW n \in Nodes, ReceiveUpdate(n)
  PROVE  Edge!Deploy(n)
<1> USE DEF storeVars, grpcVars, edgeVars
<1>1. PICK c : c = Head(wire[link[n].stream])
  OBVIOUS
<1>2. link[n].stream \in Streams /\ wire[link[n].stream] # <<>>
  BY DEF ReceiveUpdate, Answer, LinkState, TypeOK
<1>3. /\ c = wire[link[n].stream][1] /\ 1 \in 1..Len(wire[link[n].stream])
      /\ Past(c)
      /\ agent[n].epoch = epoch => Follows(agent[n], c)
  BY <1>1, <1>2, ReceivedIsNoRollback
<1>4. c \in ConfigUpdate /\ c.epoch = epoch /\ Stamped(c)
  BY <1>2, <1>3, WireElements DEF PushInv, WireInv
<1>5. /\ UNCHANGED <<versionSeq, policy, handler, epoch>>
      /\ agent' = [agent EXCEPT ![n] = c]
  BY <1>1 DEF ReceiveUpdate, Answer
<1>6. UNCHANGED Writing
  BY <1>5 DEF Writing
<1>7. agent'[n] = c
  BY <1>5 DEF TypeOK
<1>8. c.ver <= versionSeq /\ c.ver = versionSeq => Current(c)
  BY <1>4 DEF Stamped, ConfigUpdate, TypeOK
<1>9. c.ver <= versionSeq
  BY <1>4 DEF Stamped, ConfigUpdate, TypeOK
<1>10. Edge!Reached(c)
  BY <1>3, <1>4, <1>9 DEF Past, Edge!Reached
<1>11. agent[n].epoch = epoch => Edge!Follows(agent[n], c)
  BY <1>3 DEF Follows, Edge!Follows
<1>12. c.ver = versionSeq => Edge!Matches(c)
  BY <1>8, <1>9 DEF Current, Edge!Matches
<1> QED
  BY <1>5, <1>6, <1>7, <1>10, <1>11, <1>12 DEF Edge!Deploy

\* ConfigSync implements EdgePolicy: the four channels, three reads, lost pings,
\* repeated enrolments and reopened streams of the code (server.go:26-114,
\* store.go:75-129) are invisible in what agents run, except as a delay.
THEOREM SyncImplementsEdgePolicy == Spec => EdgeSpec
<1> USE DEF storeVars, grpcVars, edgeVars
<1> DEFINE Inv == TypeOK /\ PushInv /\ LinkInv /\ EditInv /\ LockInv
<1>1. Init => Inv
  BY InitTypeOK, InitPushInv, InitLinkInv, InitEditInv, InitLockInv
<1>2. Inv /\ [Next]_vars => Inv'
  BY NextTypeOK, NextPushInv, NextLinkInv, NextEditInv, NextLockInv
<1>3. Init => Edge!Init
  BY DEF Init, Edge!Init, Parts, Edge!Parts, Writing, IdleHandler, NoConfig, NoVersion
<1>4. Inv /\ [Next]_vars => [Edge!Next]_Edge!vars
  <2> SUFFICES ASSUME Inv, [Next]_vars PROVE Edge!Next \/ UNCHANGED Edge!vars
    BY DEF Edge!vars
  <2>1. ASSUME UNCHANGED <<versionSeq, policy, epoch, agent, handler>>
        PROVE  UNCHANGED Edge!vars
    BY <2>1 DEF Edge!vars, Writing
  <2>2. ASSUME NEW h \in Handlers, ReadVersion(h) \/ PostPing(h) PROVE UNCHANGED Edge!vars
    BY <2>2, WritingChanges DEF ReadVersion, PostPing, Edge!vars
  <2>3. ASSUME NEW n \in Nodes, ReceiveUpdate(n) PROVE Edge!Next
    BY <2>3, DeliveriesImplement DEF Edge!Next
  <2>4. ASSUME Restart PROVE Edge!Restart
    <3>1. UNCHANGED agent /\ epoch' = epoch + 1 /\ versionSeq' = FirstSeq
      BY <2>4 DEF Restart
    <3>2. Writing' = {}
      BY <2>4 DEF Restart, Writing, IdleHandler
    <3>3. policy' = [p \in Edge!Parts |-> IF p = "rules" THEN policy'[p] ELSE 0]
      BY <2>4 DEF Restart, Parts, Edge!Parts
    <3> QED
      BY <3>1, <3>2, <3>3 DEF Edge!Restart
  <2>5. ASSUME NEW s \in Streams, HandlerStep(s) \/ ReceiveAck(s) PROVE UNCHANGED Edge!vars
    BY <2>1, <2>5
       DEF HandlerStep, ReadBundle, ReadToggles, SendUpdate, Wake, Return, ReceiveAck
  <2>6. ASSUME NEW n \in Nodes,
               \/ Register(n) \/ HeartbeatStep(n) \/ RejectUpdate(n) \/ SendHeartbeat(n)
               \/ ReSync(n) \/ ConnectionLost(n) \/ \E s \in Streams : OpenStream(n, s)
        PROVE  UNCHANGED Edge!vars
    BY <2>1, <2>6
       DEF Register, HeartbeatStep, HeartbeatKnown, HeartbeatUnknown, Enroll, RejectUpdate,
           Answer, SendHeartbeat, ReSync, ConnectionLost, OpenStream
  <2>7. CASE UNCHANGED vars
    BY <2>1, <2>7 DEF vars
  <2>8. ASSUME NEW h \in Handlers, RestStep(h) \/ NotifyStep(h)
        PROVE  Edge!Next \/ UNCHANGED Edge!vars
    BY <2>2, <2>8, ChangesImplement DEF NotifyStep
  <2>9. Restart => Edge!Next
    BY <2>4 DEF Edge!Next
  <2> QED
    BY <2>3, <2>5, <2>6, <2>7, <2>8, <2>9 DEF Next
<1> QED
  BY <1>1, <1>2, <1>3, <1>4, PTL DEF Spec, EdgeSpec, Edge!Spec
=============================================================================
