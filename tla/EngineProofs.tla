---------------------------- MODULE EngineProofs ----------------------------
(***************************************************************************)
(* Theorems about module Engine, for any connections, hosts and bounds.    *)
(*                                                                         *)
(* The inductive invariant adds to the type and to OneStory what each      *)
(* phase of a connection or a transaction implies about the rest: ids are  *)
(* handed out in order, so a free transaction has no events; whatever is   *)
(* recorded as a tunnel is for a host the engine treats as passthrough.    *)
(* The last section says what can be lost, and when.                       *)
(***************************************************************************)
EXTENDS Engine, SequenceTheorems, TLAPS

LoopInv == loop # "off" => current \in Engines

ConnInv ==
    \A c \in Conns :
        /\ conn[c].pc # "idle" => conn[c].eng \in Engines
        /\ conn[c].pc \in {"upgrading", "handshaking", "mitm", "dialing", "refused"}
              => conn[c].host \in Hosts
        /\ conn[c].pc \in {"dialing", "refused"}
              => IsPassthrough(conn[c].eng, conn[c].host)

\* What the phase of transaction i implies.
PhaseInv(i) ==
    /\ i >= nextId => tx[i].phase = "free"
    /\ tx[i].phase # "free" => tx[i].eng \in Engines
    /\ tx[i].phase \in {"forwarding", "streaming", "lost"} => tx[i].kind # "tunnel"
    /\ tx[i].phase = "tunnelling" => tx[i].kind = "tunnel"

\* Tunnels are for hosts their engine treats as passthrough.
TunnelInv(i) ==
    tx[i].phase # "free" /\ tx[i].kind = "tunnel"
        => IsPassthrough(tx[i].eng, tx[i].host)

\* The store has answered exactly for the transactions past their insert.
RowInv(i) ==
    IF tx[i].phase \in {"persisted", "done"}
    THEN row[i] \in {StateOf(i), "refused"}
    ELSE row[i] = "none"

TxInv ==
    \A i \in Ids : PhaseInv(i) /\ TunnelInv(i) /\ RowInv(i) /\ Story(i)

EngineInv ==
    /\ TypeOK
    /\ LoopInv
    /\ ConnInv
    /\ TxInv

-----------------------------------------------------------------------------
(* Type correctness *)

\* Logs of the bus stay sequences of event types when one is appended.
LEMMA PublishType ==
    ASSUME NEW i \in Ids, NEW type \in {"started", "updated"} \cup FinalStates,
           events \in [Ids -> Seq({"started", "updated"} \cup FinalStates)],
           Publish(i, type)
    PROVE  events' \in [Ids -> Seq({"started", "updated"} \cup FinalStates)]
BY DEF Publish

\* A transaction ends as completed or as failed.
LEMMA StateOfType == \A i : StateOf(i) \in FinalStates
BY DEF StateOf, FinalStates

\* A fresh transaction has the type of one, and the counter stays in range.
LEMMA AllocateType ==
    ASSUME TypeOK, NEW c \in Conns, NEW h \in Hosts, NEW k \in {"http", "tunnel"},
           NEW err \in BOOLEAN, NEW body \in ReqStates, Allocate(c, h, k, err, body)
    PROVE  nextId' \in 1..(MaxTx + 1) /\ tx' \in [Ids -> Tx]
<1>1. nextId \in Ids /\ nextId' = nextId + 1
  BY DEF Allocate
<1>2. nextId' \in 1..(MaxTx + 1)
  BY <1>1, BoundsAssumption DEF Ids, TypeOK
<1>3. conn[c].eng \in 0..MaxStarts
  BY DEF TypeOK, Conn
<1>4. [phase |-> "named", conn |-> c, eng |-> conn[c].eng, host |-> h,
       kind |-> k, error |-> err, req |-> body, resp |-> "none"] \in Tx
  BY <1>3, BoundsAssumption DEF Tx, TxPhases, RespStates
<1>5. tx' \in [Ids -> Tx]
  BY <1>4 DEF Allocate, TypeOK
<1> QED
  BY <1>2, <1>5

\* A connection keeps its type when its phase changes, alone or with its host or
\* engine.
LEMMA ConnType ==
    ASSUME conn \in [Conns -> Conn], NEW c \in Conns, NEW p \in ConnPhases
    PROVE  /\ [conn EXCEPT ![c].pc = p] \in [Conns -> Conn]
           /\ \A h \in Hosts \cup {NoHost} :
                 [conn EXCEPT ![c].pc = p, ![c].host = h] \in [Conns -> Conn]
           /\ \A e \in 0..MaxStarts :
                 [conn EXCEPT ![c].pc = p, ![c].eng = e] \in [Conns -> Conn]
<1>1. ASSUME NEW t \in Conn
      PROVE  /\ [t EXCEPT !.pc = p] \in Conn
             /\ \A h \in Hosts \cup {NoHost} : [t EXCEPT !.pc = p, !.host = h] \in Conn
             /\ \A e \in 0..MaxStarts : [t EXCEPT !.pc = p, !.eng = e] \in Conn
  BY DEF Conn
<1>2. conn[c] \in Conn
  OBVIOUS
<1>3. [conn EXCEPT ![c].pc = p] \in [Conns -> Conn]
  BY <1>1, <1>2
<1>4. ASSUME NEW h \in Hosts \cup {NoHost}
      PROVE  [conn EXCEPT ![c].pc = p, ![c].host = h] \in [Conns -> Conn]
  BY <1>1, <1>2
<1>5. ASSUME NEW e \in 0..MaxStarts
      PROVE  [conn EXCEPT ![c].pc = p, ![c].eng = e] \in [Conns -> Conn]
  BY <1>1, <1>2
<1> QED
  BY <1>3, <1>4, <1>5

\* Every step of a connection preserves the type invariant.
LEMMA ConnStepType ==
    ASSUME TypeOK, LoopInv, ConnInv, NEW c \in Conns, ConnStep(c)
    PROVE  TypeOK'
<1>0. /\ conn \in [Conns -> Conn]
      /\ \A p \in ConnPhases : [conn EXCEPT ![c].pc = p] \in [Conns -> Conn]
  BY ConnType DEF TypeOK
<1> USE DEF ConnPhases
<1>1. CASE Accept(c)
  <2>1. conn' \in [Conns -> Conn]
    BY <1>0, <1>1, ConnType DEF Accept, TypeOK
  <2> QED
    BY <1>1, <2>1 DEF Accept, TypeOK
<1>2. CASE HangUp(c) \/ BridgeEnds(c)
  BY <1>0, <1>2 DEF HangUp, BridgeEnds, TypeOK
<1>3. CASE \E h \in Hosts : ConnectTunnel(c, h) \/ ConnectMitm(c, h)
  <2>1. PICK h \in Hosts : ConnectTunnel(c, h) \/ ConnectMitm(c, h)
    BY <1>3
  <2>2. conn' \in [Conns -> Conn]
    <3>1. PICK p \in ConnPhases : conn' = [conn EXCEPT ![c].pc = p, ![c].host = h]
      BY <2>1 DEF ConnectTunnel, ConnectMitm
    <3> HIDE DEF ConnPhases
    <3>2. [conn EXCEPT ![c].pc = p, ![c].host = h] \in [Conns -> Conn]
      BY <1>0, ConnType
    <3> QED
      BY <3>1, <3>2
  <2> QED
    BY <2>1, <2>2 DEF ConnectTunnel, ConnectMitm, TypeOK
<1>4. CASE DialFails(c)
  <2>1. conn' \in [Conns -> Conn]
    BY <1>0, <1>4, ConnType DEF DialFails
  <2> QED
    BY <1>4, <2>1 DEF DialFails, TypeOK
<1>5. CASE DialSucceeds(c)
  <2>1. conn[c].host \in Hosts
    BY <1>5 DEF DialSucceeds, ConnInv
  <2>2. nextId' \in 1..(MaxTx + 1) /\ tx' \in [Ids -> Tx]
    BY <1>5, <2>1, AllocateType DEF DialSucceeds, ReqStates
  <2>3. conn' \in [Conns -> Conn]
    BY <1>0, <1>5 DEF DialSucceeds
  <2> QED
    BY <1>5, <2>2, <2>3 DEF DialSucceeds, TypeOK
<1>6. CASE UpgradeFails(c) \/ UpgradeSucceeds(c) \/ HandshakeSucceeds(c)
  <2>1. conn' \in [Conns -> Conn]
    BY <1>0, <1>6 DEF UpgradeFails, UpgradeSucceeds, HandshakeSucceeds
  <2> QED
    BY <1>6, <2>1 DEF UpgradeFails, UpgradeSucceeds, HandshakeSucceeds, TypeOK
<1>7. CASE HandshakeFails(c)
  <2>1. conn' \in [Conns -> Conn]
    BY <1>0, <1>7 DEF HandshakeFails
  <2>2. conn[c].host \in Hosts
    BY <1>7 DEF HandshakeFails, ConnInv
  <2>3. pinned' \in [Engines -> SUBSET Hosts]
    BY <1>7, <2>2 DEF HandshakeFails, TypeOK
  <2> QED
    BY <1>7, <2>1, <2>3 DEF HandshakeFails, TypeOK
<1>8. CASE RecordHandshakeFailure(c)
  <2>1. conn[c].host \in Hosts
    BY <1>8 DEF RecordHandshakeFailure, ConnInv
  <2>2. nextId' \in 1..(MaxTx + 1) /\ tx' \in [Ids -> Tx]
    BY <1>8, <2>1, AllocateType DEF RecordHandshakeFailure, ReqStates
  <2>3. conn' \in [Conns -> Conn]
    BY <1>0, <1>8 DEF RecordHandshakeFailure
  <2> QED
    BY <1>8, <2>2, <2>3 DEF RecordHandshakeFailure, TypeOK
<1>9. CASE \E h \in Hosts : Request(c, h)
  <2>1. PICK h \in Hosts : Request(c, h)
    BY <1>9
  <2>2. nextId' \in 1..(MaxTx + 1) /\ tx' \in [Ids -> Tx]
    BY <2>1, AllocateType DEF Request, ReqStates
  <2> QED
    BY <2>1, <2>2 DEF Request, TypeOK
<1> QED
  BY <1>1, <1>2, <1>3, <1>4, <1>5, <1>6, <1>7, <1>8, <1>9 DEF ConnStep

\* Every step of a transaction preserves the type invariant.
LEMMA TxStepType ==
    ASSUME TypeOK, NEW i \in Ids, TxStep(i)
    PROVE  TypeOK'
<1> USE DEF TxPhases, ReqStates, RespStates
<1>0. tx \in [Ids -> Tx]
  BY DEF TypeOK
<1>1. CASE AnnounceTunnel(i)
  <2>1. tx' \in [Ids -> Tx]
    BY <1>1, <1>0 DEF AnnounceTunnel, Tx
  <2> QED
    BY <1>1, <2>1, PublishType DEF AnnounceTunnel, TypeOK
<1>2. CASE TunnelCloses(i)
  <2>0. ASSUME NEW t \in Tx
        PROVE  [t EXCEPT !.phase = "persisting"] \in Tx
    BY DEF Tx
  <2>1. tx' \in [Ids -> Tx]
    BY <1>2, <1>0, <2>0 DEF TunnelCloses
  <2> QED
    BY <1>2, <2>1 DEF TunnelCloses, TypeOK
<1>3. CASE TunnelFails(i)
  <2>0. ASSUME NEW t \in Tx
        PROVE  [t EXCEPT !.phase = "persisting", !.error = TRUE] \in Tx
    BY DEF Tx
  <2>1. tx' \in [Ids -> Tx]
    BY <1>3, <1>0, <2>0 DEF TunnelFails
  <2> QED
    BY <1>3, <2>1 DEF TunnelFails, TypeOK
<1>4. CASE TunnelStopped(i)
  <2>1. tx' \in [Ids -> Tx]
    BY <1>4, <1>0 DEF TunnelStopped, Tx
  <2> QED
    BY <1>4, <2>1 DEF TunnelStopped, TypeOK
<1>5. CASE OnRequest(i)
  <2>1. tx' \in [Ids -> Tx]
    BY <1>5, <1>0 DEF OnRequest, Tx
  <2> QED
    BY <1>5, <2>1, PublishType DEF OnRequest, TypeOK
<1>6. CASE UpstreamResponds(i)
  <2>0. ASSUME NEW t \in Tx
        PROVE  [t EXCEPT !.phase = "streaming", !.resp = "open"] \in Tx
    BY DEF Tx
  <2>1. tx' \in [Ids -> Tx]
    BY <1>6, <1>0, <2>0 DEF UpstreamResponds
  <2> QED
    BY <1>6, <2>1, PublishType DEF UpstreamResponds, TypeOK
<1>7. CASE UpstreamFails(i)
  <2>0. ASSUME NEW t \in Tx
        PROVE  [t EXCEPT !.phase = "streaming", !.resp = "open",
                         !.error = TRUE, !.req = "ended"] \in Tx
    BY DEF Tx
  <2>1. tx' \in [Ids -> Tx]
    BY <1>7, <1>0, <2>0 DEF UpstreamFails
  <2> QED
    BY <1>7, <2>1, PublishType DEF UpstreamFails, TypeOK
<1>8. CASE UpstreamSwitches(i)
  <2>0. ASSUME NEW t \in Tx
        PROVE  [t EXCEPT !.phase = "streaming", !.kind = "ws-upgrade",
                         !.req = "ended", !.resp = "whole"] \in Tx
    BY DEF Tx
  <2>1. tx' \in [Ids -> Tx]
    BY <1>8, <1>0, <2>0 DEF UpstreamSwitches
  <2>2. conn' \in [Conns -> Conn]
    <3>1. tx[i].conn \in Conns \/ UNCHANGED conn
      BY <1>8 DEF UpstreamSwitches, TypeOK
    <3> QED
      BY <1>8, <3>1, ConnType DEF UpstreamSwitches, TypeOK, ConnPhases
  <2> QED
    BY <1>8, <2>1, <2>2, PublishType DEF UpstreamSwitches, TypeOK
<1>9. CASE DropExchange(i)
  <2>1. tx' \in [Ids -> Tx]
    BY <1>9, <1>0 DEF DropExchange, Tx
  <2> QED
    BY <1>9, <2>1 DEF DropExchange, TypeOK
<1>10. CASE ReqBodyEnds(i)
  <2>1. tx' \in [Ids -> Tx]
    BY <1>10, <1>0 DEF ReqBodyEnds, Tx
  <2> QED
    BY <1>10, <2>1 DEF ReqBodyEnds, TypeOK
<1>11. CASE \E how \in {"whole", "broken", "dropped"} : RespBodyEnds(i, how)
  <2>1. tx' \in [Ids -> Tx]
    BY <1>11, <1>0 DEF RespBodyEnds, Tx
  <2> QED
    BY <1>11, <2>1 DEF RespBodyEnds, TypeOK
<1>12. CASE Finalize(i)
  <2>1. tx' \in [Ids -> Tx]
    BY <1>12, <1>0 DEF Finalize, Tx
  <2> QED
    BY <1>12, <2>1 DEF Finalize, TypeOK
<1>13. CASE \E ok \in BOOLEAN : StoreReplies(i, ok)
  <2>1. PICK ok \in BOOLEAN : StoreReplies(i, ok)
    BY <1>13
  <2>2. tx' \in [Ids -> Tx]
    BY <2>1, <1>0 DEF StoreReplies, Tx
  <2>3. row' \in [Ids -> FinalStates \cup {"none", "refused"}]
    BY <2>1, StateOfType DEF StoreReplies, TypeOK
  <2> QED
    BY <2>1, <2>2, <2>3 DEF StoreReplies, TypeOK
<1>14. CASE Complete(i)
  <2>1. tx' \in [Ids -> Tx]
    BY <1>14, <1>0 DEF Complete, Tx
  <2>2. StateOf(i) \in {"started", "updated"} \cup FinalStates
    BY StateOfType
  <2> QED
    BY <1>14, <2>1, <2>2, PublishType DEF Complete, TypeOK
<1> QED
  BY <1>1, <1>2, <1>3, <1>4, <1>5, <1>6, <1>7, <1>8, <1>9, <1>10,
     <1>11, <1>12, <1>13, <1>14 DEF TxStep

-----------------------------------------------------------------------------
(* What a step of a transaction does to it, and leaves alone *)

\* A step of transaction i touches no other transaction, and nothing of the
\* engine; of the connections, UpstreamSwitches takes its own over.
LEMMA TxFrame ==
    ASSUME TypeOK, NEW i \in Ids, TxStep(i)
    PROVE  /\ UNCHANGED <<current, loop, pinned, nextId>>
           /\ \A j \in Ids : j # i => /\ tx'[j] = tx[j]
                                     /\ events'[j] = events[j]
                                     /\ row'[j] = row[j]
           /\ \A c \in Conns : /\ conn'[c].eng = conn[c].eng
                               /\ conn'[c].host = conn[c].host
                               /\ conn'[c].pc \in {conn[c].pc, "bridged"}
<1> USE DEF TxStep, AnnounceTunnel, TunnelCloses, TunnelFails,
            TunnelStopped, OnRequest, UpstreamResponds, UpstreamFails,
            UpstreamSwitches, DropExchange, ReqBodyEnds, RespBodyEnds, Finalize,
            StoreReplies, Complete
<1>1. /\ tx \in [Ids -> Tx]
      /\ events \in [Ids -> Seq({"started", "updated"} \cup FinalStates)]
      /\ row \in [Ids -> FinalStates \cup {"none", "refused"}]
  BY DEF TypeOK
<1>2. UNCHANGED <<current, loop, pinned, nextId>>
  OBVIOUS
<1>3. \A j \in Ids : j # i => /\ tx'[j] = tx[j]
                              /\ events'[j] = events[j]
                              /\ row'[j] = row[j]
  BY <1>1 DEF Publish
<1>4. \A c \in Conns : /\ conn'[c].eng = conn[c].eng
                       /\ conn'[c].host = conn[c].host
                       /\ conn'[c].pc \in {conn[c].pc, "bridged"}
  <2>1. conn \in [Conns -> Conn]
    BY DEF TypeOK
  <2>2. CASE UpstreamSwitches(i)
    BY ONLY <2>1, <2>2 DEF UpstreamSwitches, Conn
  <2>3. CASE ~UpstreamSwitches(i)
    <3>1. conn' = conn
      BY <2>3
    <3> QED
      BY <3>1
  <2> QED
    BY <2>2, <2>3
<1> QED
  BY <1>2, <1>3, <1>4

\* Appending to a log of at most two events, spelled out.
LEMMA AppendToNone ==
    ASSUME NEW x
    PROVE  Append(<<>>, x) = <<x>>
<1> DEFINE s == Append(<<>>, x)
           t == <<x>>
           S == {x}
<1>1. s \in Seq(S) /\ Len(s) = 1 /\ s[1] = x
  OBVIOUS
<1>2. t \in Seq(S) /\ Len(t) = 1 /\ t[1] = x
  OBVIOUS
<1> HIDE DEF s, t, S
<1>3. \A i \in 1..1 : i = 1
  OBVIOUS
<1>4. s = t
  BY <1>1, <1>2, <1>3, SeqEqual
<1> QED
  BY <1>4 DEF s, t

\* The same for a log of one event ...
LEMMA AppendToOne ==
    ASSUME NEW a, NEW x
    PROVE  Append(<<a>>, x) = <<a, x>>
<1> DEFINE s == Append(<<a>>, x)
           t == <<a, x>>
           S == {a, x}
<1>1. s \in Seq(S) /\ Len(s) = 2 /\ s[1] = a /\ s[2] = x
  OBVIOUS
<1>2. t \in Seq(S) /\ Len(t) = 2 /\ t[1] = a /\ t[2] = x
  OBVIOUS
<1> HIDE DEF s, t, S
<1>3. \A i \in 1..2 : i = 1 \/ i = 2
  OBVIOUS
<1>4. s = t
  BY <1>1, <1>2, <1>3, SeqEqual
<1> QED
  BY <1>4 DEF s, t

\* ... and of two.
LEMMA AppendToTwo ==
    ASSUME NEW a, NEW b, NEW x
    PROVE  Append(<<a, b>>, x) = <<a, b, x>>
<1> DEFINE s == Append(<<a, b>>, x)
           t == <<a, b, x>>
           S == {a, b, x}
<1>1. s \in Seq(S) /\ Len(s) = 3 /\ s[1] = a /\ s[2] = b /\ s[3] = x
  OBVIOUS
<1>2. t \in Seq(S) /\ Len(t) = 3 /\ t[1] = a /\ t[2] = b /\ t[3] = x
  OBVIOUS
<1> HIDE DEF s, t, S
<1>3. \A i \in 1..3 : i = 1 \/ i = 2 \/ i = 3
  OBVIOUS
<1>4. s = t
  BY <1>1, <1>2, <1>3, SeqEqual
<1> QED
  BY <1>4 DEF s, t

\* A step of transaction i keeps its engine, host and sort, and preserves what
\* its phase implies, the store's answer and its story on the bus.
LEMMA TxLocal ==
    ASSUME TypeOK, NEW i \in Ids, PhaseInv(i), RowInv(i), Story(i), TxStep(i)
    PROVE  /\ tx'[i].eng = tx[i].eng
           /\ tx'[i].host = tx[i].host
           /\ tx'[i].kind = "tunnel" <=> tx[i].kind = "tunnel"
           /\ tx[i].phase # "free" /\ tx'[i].phase # "free"
           /\ PhaseInv(i)' /\ RowInv(i)' /\ Story(i)'
<1>1. /\ tx \in [Ids -> Tx]
      /\ events \in [Ids -> Seq({"started", "updated"} \cup FinalStates)]
      /\ row \in [Ids -> FinalStates \cup {"none", "refused"}]
      /\ nextId \in Nat
  BY DEF TypeOK
<1>2. tx[i] \in Tx
  BY <1>1
<1>3. CASE AnnounceTunnel(i)
  <2>1. /\ tx'[i].phase = (IF tx[i].error THEN "persisting" ELSE "tunnelling")
        /\ tx'[i].kind = tx[i].kind /\ tx'[i].error = tx[i].error
        /\ tx'[i].eng = tx[i].eng /\ tx'[i].host = tx[i].host
    BY <1>1, <1>2, <1>3 DEF AnnounceTunnel, Tx
  <2>2. /\ events'[i] = Append(events[i], "started")
        /\ row'[i] = row[i]
        /\ nextId' = nextId
    BY <1>1, <1>3 DEF AnnounceTunnel, Publish
  <2>3. events[i] = <<>>
    BY <1>3 DEF AnnounceTunnel, Story
  <2>4. events'[i] = <<"started">>
    BY <2>2, <2>3, AppendToNone
  <2>5. tx'[i].phase = "persisting" \/ tx'[i].phase = "tunnelling"
    BY <2>1
  <2>6. Story(i)'
    BY <1>3, <2>1, <2>4, <2>5 DEF AnnounceTunnel, Story
  <2>7. PhaseInv(i)' /\ RowInv(i)'
    BY <1>3, <2>1, <2>2, <2>5 DEF AnnounceTunnel, PhaseInv, RowInv
  <2> QED
    BY <1>3, <2>1, <2>5, <2>6, <2>7 DEF AnnounceTunnel
<1>4. CASE TunnelCloses(i)
  <2>1. /\ tx'[i].phase = "persisting"
        /\ tx'[i].kind = tx[i].kind /\ tx'[i].error = tx[i].error
        /\ tx'[i].eng = tx[i].eng /\ tx'[i].host = tx[i].host
    BY <1>1, <1>2, <1>4 DEF TunnelCloses, Tx
  <2>2. /\ events'[i] = events[i]
        /\ row'[i] = row[i]
        /\ nextId' = nextId
    BY <1>1, <1>4 DEF TunnelCloses
  <2> QED
    BY <1>4, <2>1, <2>2 DEF TunnelCloses, PhaseInv, RowInv, Story, StateOf
<1>5. CASE TunnelFails(i)
  <2>1. /\ tx'[i].phase = "persisting"
        /\ tx'[i].kind = tx[i].kind /\ tx'[i].error = TRUE
        /\ tx'[i].eng = tx[i].eng /\ tx'[i].host = tx[i].host
    BY <1>1, <1>2, <1>5 DEF TunnelFails, Tx
  <2>2. /\ events'[i] = events[i]
        /\ row'[i] = row[i]
        /\ nextId' = nextId
    BY <1>1, <1>5 DEF TunnelFails
  <2> QED
    BY <1>5, <2>1, <2>2 DEF TunnelFails, PhaseInv, RowInv, Story, StateOf
<1>6. CASE TunnelStopped(i)
  <2>1. /\ tx'[i].phase = "persisting"
        /\ tx'[i].kind = tx[i].kind /\ tx'[i].error = tx[i].error
        /\ tx'[i].eng = tx[i].eng /\ tx'[i].host = tx[i].host
    BY <1>1, <1>2, <1>6 DEF TunnelStopped, Tx
  <2>2. /\ events'[i] = events[i]
        /\ row'[i] = row[i]
        /\ nextId' = nextId
    BY <1>1, <1>6 DEF TunnelStopped
  <2> QED
    BY <1>6, <2>1, <2>2 DEF TunnelStopped, PhaseInv, RowInv, Story, StateOf
<1>7. CASE OnRequest(i)
  <2>1. /\ tx'[i].phase = "forwarding"
        /\ tx'[i].kind = tx[i].kind /\ tx'[i].error = tx[i].error
        /\ tx'[i].eng = tx[i].eng /\ tx'[i].host = tx[i].host
    BY <1>1, <1>2, <1>7 DEF OnRequest, Tx
  <2>2. /\ events'[i] = Append(events[i], "started")
        /\ row'[i] = row[i]
        /\ nextId' = nextId
    BY <1>1, <1>7 DEF OnRequest, Publish
  <2>3. events[i] = <<>>
    BY <1>7 DEF OnRequest, Story
  <2>4. events'[i] = <<"started">>
    BY <2>2, <2>3, AppendToNone
  <2> QED
    BY <1>7, <2>1, <2>2, <2>4 DEF OnRequest, PhaseInv, RowInv, Story, StateOf
<1>8. CASE UpstreamResponds(i)
  <2>1. /\ tx'[i].phase = "streaming"
        /\ tx'[i].kind = tx[i].kind /\ tx'[i].error = tx[i].error
        /\ tx'[i].eng = tx[i].eng /\ tx'[i].host = tx[i].host
    BY <1>1, <1>2, <1>8 DEF UpstreamResponds, Tx
  <2>2. /\ events'[i] = Append(events[i], "updated")
        /\ row'[i] = row[i]
        /\ nextId' = nextId
    BY <1>1, <1>8 DEF UpstreamResponds, Publish
  <2>3. events[i] = <<"started">>
    BY <1>8 DEF UpstreamResponds, Story
  <2>4. events'[i] = <<"started", "updated">>
    BY <2>2, <2>3, AppendToOne
  <2> QED
    BY <1>8, <2>1, <2>2, <2>4 DEF UpstreamResponds, PhaseInv, RowInv, Story, StateOf
<1>9. CASE UpstreamFails(i)
  <2>1. /\ tx'[i].phase = "streaming"
        /\ tx'[i].kind = tx[i].kind /\ tx'[i].error = TRUE
        /\ tx'[i].eng = tx[i].eng /\ tx'[i].host = tx[i].host
    BY <1>1, <1>2, <1>9 DEF UpstreamFails, Tx
  <2>2. /\ events'[i] = Append(events[i], "updated")
        /\ row'[i] = row[i]
        /\ nextId' = nextId
    BY <1>1, <1>9 DEF UpstreamFails, Publish
  <2>3. events[i] = <<"started">>
    BY <1>9 DEF UpstreamFails, Story
  <2>4. events'[i] = <<"started", "updated">>
    BY <2>2, <2>3, AppendToOne
  <2> QED
    BY <1>9, <2>1, <2>2, <2>4 DEF UpstreamFails, PhaseInv, RowInv, Story, StateOf
<1>10. CASE UpstreamSwitches(i)
  <2>1. /\ tx'[i].phase = "streaming"
        /\ tx'[i].kind = "ws-upgrade" /\ tx'[i].error = tx[i].error
        /\ tx'[i].eng = tx[i].eng /\ tx'[i].host = tx[i].host
    BY <1>1, <1>2, <1>10 DEF UpstreamSwitches, Tx
  <2>2. /\ events'[i] = Append(events[i], "updated")
        /\ row'[i] = row[i]
        /\ nextId' = nextId
    BY <1>1, <1>10 DEF UpstreamSwitches, Publish
  <2>3. events[i] = <<"started">>
    BY <1>10 DEF UpstreamSwitches, Story
  <2>4. events'[i] = <<"started", "updated">>
    BY <2>2, <2>3, AppendToOne
  <2> QED
    BY <1>10, <2>1, <2>2, <2>4 DEF UpstreamSwitches, PhaseInv, RowInv, Story, StateOf
<1>11. CASE DropExchange(i)
  <2>1. /\ tx'[i].phase = "lost"
        /\ tx'[i].kind = tx[i].kind /\ tx'[i].error = tx[i].error
        /\ tx'[i].eng = tx[i].eng /\ tx'[i].host = tx[i].host
    BY <1>1, <1>2, <1>11 DEF DropExchange, Tx
  <2>2. /\ events'[i] = events[i]
        /\ row'[i] = row[i]
        /\ nextId' = nextId
    BY <1>1, <1>11 DEF DropExchange
  <2> QED
    BY <1>11, <2>1, <2>2 DEF DropExchange, PhaseInv, RowInv, Story, StateOf
<1>12. CASE ReqBodyEnds(i)
  <2>1. /\ tx'[i].phase = tx[i].phase
        /\ tx'[i].kind = tx[i].kind /\ tx'[i].error = tx[i].error
        /\ tx'[i].eng = tx[i].eng /\ tx'[i].host = tx[i].host
    BY <1>1, <1>2, <1>12 DEF ReqBodyEnds, Tx
  <2>2. /\ events'[i] = events[i]
        /\ row'[i] = row[i]
        /\ nextId' = nextId
    BY <1>1, <1>12 DEF ReqBodyEnds
  <2> QED
    BY <1>12, <2>1, <2>2 DEF ReqBodyEnds, PhaseInv, RowInv, Story, StateOf
<1>13. CASE \E how \in {"whole", "broken", "dropped"} : RespBodyEnds(i, how)
  <2>1. /\ tx'[i].phase = tx[i].phase
        /\ tx'[i].kind = tx[i].kind /\ tx'[i].error = tx[i].error
        /\ tx'[i].eng = tx[i].eng /\ tx'[i].host = tx[i].host
    BY <1>1, <1>2, <1>13 DEF RespBodyEnds, Tx
  <2>2. /\ events'[i] = events[i]
        /\ row'[i] = row[i]
        /\ nextId' = nextId
    BY <1>1, <1>13 DEF RespBodyEnds
  <2> QED
    BY <1>13, <2>1, <2>2 DEF RespBodyEnds, PhaseInv, RowInv, Story, StateOf
<1>14. CASE Finalize(i)
  <2>1. /\ tx'[i].phase = "persisting"
        /\ tx'[i].kind = tx[i].kind /\ tx'[i].error = tx[i].error
        /\ tx'[i].eng = tx[i].eng /\ tx'[i].host = tx[i].host
    BY <1>1, <1>2, <1>14 DEF Finalize, Tx
  <2>2. /\ events'[i] = events[i]
        /\ row'[i] = row[i]
        /\ nextId' = nextId
    BY <1>1, <1>14 DEF Finalize
  <2> QED
    BY <1>14, <2>1, <2>2 DEF Finalize, PhaseInv, RowInv, Story, StateOf
<1>15. CASE \E ok \in BOOLEAN : StoreReplies(i, ok)
  <2>1. /\ tx'[i].phase = "persisted"
        /\ tx'[i].kind = tx[i].kind /\ tx'[i].error = tx[i].error
        /\ tx'[i].eng = tx[i].eng /\ tx'[i].host = tx[i].host
    BY <1>1, <1>2, <1>15 DEF StoreReplies, Tx
  <2>2. /\ events'[i] = events[i]
        /\ row'[i] \in {StateOf(i), "refused"}
        /\ nextId' = nextId
    BY <1>1, <1>15 DEF StoreReplies
  <2> QED
    BY <1>15, <2>1, <2>2 DEF StoreReplies, PhaseInv, RowInv, Story, StateOf
<1>16. CASE Complete(i)
  <2>1. /\ tx'[i].phase = "done"
        /\ tx'[i].kind = tx[i].kind /\ tx'[i].error = tx[i].error
        /\ tx'[i].eng = tx[i].eng /\ tx'[i].host = tx[i].host
    BY <1>1, <1>2, <1>16 DEF Complete, Tx
  <2>2. /\ events'[i] = Append(events[i], StateOf(i))
        /\ row'[i] = row[i]
        /\ nextId' = nextId
    BY <1>1, <1>16 DEF Complete, Publish
  <2>3. StateOf(i)' = StateOf(i)
    BY <2>1 DEF StateOf
  <2>4. CASE tx[i].kind = "tunnel"
    <3>1. events[i] = <<"started">>
      BY <1>16, <2>4 DEF Complete, Story
    <3>2. events'[i] = <<"started", StateOf(i)>>
      BY <2>2, <3>1, AppendToOne
    <3> QED
      BY <1>16, <2>1, <2>2, <2>3, <2>4, <3>2 DEF Complete, PhaseInv, RowInv, Story, StateOf
  <2>5. CASE tx[i].kind # "tunnel"
    <3>1. events[i] = <<"started", "updated">>
      BY <1>16, <2>5 DEF Complete, Story
    <3>2. events'[i] = <<"started", "updated", StateOf(i)>>
      BY <2>2, <3>1, AppendToTwo
    <3> QED
      BY <1>16, <2>1, <2>2, <2>3, <2>5, <3>2 DEF Complete, PhaseInv, RowInv, Story, StateOf
  <2> QED
    BY <2>4, <2>5
<1> QED
  BY <1>3, <1>4, <1>5, <1>6, <1>7, <1>8, <1>9, <1>10, <1>11,
     <1>12, <1>13, <1>14, <1>15, <1>16 DEF TxStep

\* A step of a transaction preserves the inductive invariant.
LEMMA TxStepInv ==
    ASSUME EngineInv, NEW i \in Ids, TxStep(i)
    PROVE  EngineInv'
<1> USE DEF EngineInv
<1>1. TypeOK'
  BY TxStepType
<1>2. /\ UNCHANGED <<current, loop, pinned, nextId>>
      /\ \A j \in Ids : j # i => /\ tx'[j] = tx[j]
                                /\ events'[j] = events[j]
                                /\ row'[j] = row[j]
      /\ \A c \in Conns : /\ conn'[c].eng = conn[c].eng
                          /\ conn'[c].host = conn[c].host
                          /\ conn'[c].pc \in {conn[c].pc, "bridged"}
  BY TxFrame
<1>3. PhaseInv(i) /\ TunnelInv(i) /\ RowInv(i) /\ Story(i)
  BY DEF TxInv
<1>4. LoopInv'
  BY <1>2 DEF LoopInv
<1>5. ConnInv'
  <2>1. ASSUME NEW c \in Conns, conn'[c].pc \notin {"idle", "bridged"}
        PROVE  conn[c].pc = conn'[c].pc
    BY <1>2, <2>1
  <2>2. ASSUME NEW c \in Conns, conn'[c].pc = "bridged"
        PROVE  conn[c].pc # "idle"
    <3>1. CASE UpstreamSwitches(i)
      <4>1. conn[c].pc = "bridged" \/ c = tx[i].conn
        BY <2>2, <3>1 DEF UpstreamSwitches, TypeOK
      <4> QED
        BY <3>1, <4>1 DEF UpstreamSwitches
    <3>2. CASE ~UpstreamSwitches(i)
      <4>1. conn' = conn
        BY <3>2
           DEF TxStep, AnnounceTunnel, TunnelCloses, TunnelFails,
               TunnelStopped, OnRequest, UpstreamResponds, UpstreamFails,
               DropExchange, ReqBodyEnds, RespBodyEnds, Finalize,
               StoreReplies, Complete
      <4> QED
        BY <2>2, <4>1
    <3> QED
      BY <3>1, <3>2
  <2> QED
    BY <1>2, <2>1, <2>2 DEF ConnInv, IsPassthrough
<1>6. ASSUME NEW j \in Ids
      PROVE  PhaseInv(j)' /\ TunnelInv(j)' /\ RowInv(j)' /\ Story(j)'
  <2>1. CASE j = i
    <3>1. /\ tx'[i].eng = tx[i].eng /\ tx'[i].host = tx[i].host
          /\ tx'[i].kind = "tunnel" <=> tx[i].kind = "tunnel"
          /\ tx[i].phase # "free" /\ tx'[i].phase # "free"
          /\ PhaseInv(i)' /\ RowInv(i)' /\ Story(i)'
      BY <1>3, TxLocal
    <3>2. TunnelInv(i)'
      BY <1>2, <1>3, <3>1 DEF TunnelInv, IsPassthrough
    <3> QED
      BY <2>1, <3>1, <3>2
  <2>2. CASE j # i
    <3>1. PhaseInv(j) /\ TunnelInv(j) /\ RowInv(j) /\ Story(j)
      BY DEF TxInv
    <3> QED
      BY <1>2, <2>2, <3>1
         DEF PhaseInv, TunnelInv, RowInv, Story, StateOf, IsPassthrough
  <2> QED
    BY <2>1, <2>2
<1> QED
  BY <1>1, <1>4, <1>5, <1>6 DEF TxInv

-----------------------------------------------------------------------------
(* What a step of a connection does *)

\* Pinning more hosts leaves every transaction's invariant alone.
LEMMA TxKept ==
    ASSUME EngineInv, UNCHANGED <<nextId, tx, events, row>>,
           \A e, h : IsPassthrough(e, h) => IsPassthrough(e, h)'
    PROVE  TxInv'
BY DEF EngineInv, TxInv, PhaseInv, TunnelInv, RowInv, Story, StateOf

\* Allocating a transaction preserves the invariants of all transactions.
LEMMA TxAllocated ==
    ASSUME EngineInv, NEW c \in Conns, NEW h \in Hosts, NEW k \in {"http", "tunnel"},
           NEW err \in BOOLEAN, NEW body \in ReqStates, Allocate(c, h, k, err, body),
           conn[c].eng \in Engines, k = "tunnel" => IsPassthrough(conn[c].eng, h),
           UNCHANGED <<pinned, events, row>>
    PROVE  TxInv'
<1>1. nextId \in Ids /\ nextId' = nextId + 1
  BY DEF Allocate
<1>2. /\ tx'[nextId].phase = "named" /\ tx'[nextId].eng = conn[c].eng
      /\ tx'[nextId].host = h /\ tx'[nextId].kind = k
  BY <1>1 DEF Allocate, EngineInv, TypeOK
<1>3. \A j \in Ids : j # nextId => tx'[j] = tx[j]
  BY DEF Allocate, EngineInv, TypeOK
<1>4. ASSUME NEW j \in Ids
      PROVE  PhaseInv(j)' /\ TunnelInv(j)' /\ RowInv(j)' /\ Story(j)'
  <2>1. PhaseInv(j) /\ TunnelInv(j) /\ RowInv(j) /\ Story(j)
    BY DEF EngineInv, TxInv
  <2>2. CASE j = nextId
    <3>1. tx[j].phase = "free"
      BY <1>1, <2>1, <2>2 DEF PhaseInv, Ids
    <3>2. events'[j] = <<>> /\ row'[j] = "none"
      BY <2>1, <3>1 DEF Story, RowInv
    <3>3. PhaseInv(j)' /\ RowInv(j)' /\ Story(j)'
      BY <1>1, <1>2, <2>2, <3>2 DEF PhaseInv, RowInv, Story, Ids
    <3>4. TunnelInv(j)'
      BY <1>2, <2>2 DEF TunnelInv, IsPassthrough
    <3> QED
      BY <3>3, <3>4
  <2>3. CASE j # nextId
    BY <1>1, <1>3, <2>1, <2>3
       DEF PhaseInv, TunnelInv, RowInv, Story, StateOf, IsPassthrough, Ids
  <2> QED
    BY <2>2, <2>3
<1> QED
  BY <1>4 DEF TxInv

\* A step of a connection preserves the invariants of connections.
LEMMA ConnStepConn ==
    ASSUME EngineInv, NEW c \in Conns, ConnStep(c)
    PROVE  ConnInv'
<1>0. conn \in [Conns -> Conn] /\ ConnInv
  BY DEF EngineInv, TypeOK
<1>1. CASE Accept(c)
  <2>1. current \in Engines
    BY <1>1 DEF Accept, EngineInv, LoopInv
  <2> QED
    BY <1>0, <1>1, <2>1 DEF Accept, ConnInv, Conn, IsPassthrough
<1>2. CASE HangUp(c) \/ BridgeEnds(c)
  BY <1>0, <1>2 DEF HangUp, BridgeEnds, ConnInv, Conn, IsPassthrough
<1>3. CASE \E h \in Hosts : ConnectTunnel(c, h)
  BY <1>0, <1>3 DEF ConnectTunnel, Unoccupied, ConnInv, Conn, IsPassthrough
<1>4. CASE \E h \in Hosts : ConnectMitm(c, h)
  BY <1>0, <1>4 DEF ConnectMitm, Unoccupied, ConnInv, Conn, IsPassthrough
<1>5. CASE DialFails(c)
  BY <1>0, <1>5 DEF DialFails, ConnInv, Conn, IsPassthrough
<1>6. CASE DialSucceeds(c)
  BY <1>0, <1>6 DEF DialSucceeds, ConnInv, Conn, IsPassthrough
<1>7. CASE UpgradeFails(c) \/ UpgradeSucceeds(c) \/ HandshakeSucceeds(c)
  BY <1>0, <1>7
     DEF UpgradeFails, UpgradeSucceeds, HandshakeSucceeds, ConnInv, Conn, IsPassthrough
<1>8. CASE HandshakeFails(c)
  <2>1. \A e, h : IsPassthrough(e, h) => IsPassthrough(e, h)'
    BY <1>8 DEF HandshakeFails, IsPassthrough, EngineInv, TypeOK
  <2>2. conn[c].eng \in Engines /\ conn[c].host \in Hosts
    BY <1>0, <1>8 DEF HandshakeFails, ConnInv
  <2>3. IsPassthrough(conn[c].eng, conn[c].host)'
    <3>1. conn'[c].eng = conn[c].eng /\ conn'[c].host = conn[c].host
      BY <1>0, <1>8 DEF HandshakeFails, Conn
    <3>2. conn[c].host \in pinned'[conn[c].eng]
      BY <1>8, <2>2 DEF HandshakeFails, EngineInv, TypeOK
    <3> QED
      BY <3>1, <3>2 DEF IsPassthrough
  <2>4. /\ conn'[c].eng = conn[c].eng /\ conn'[c].host = conn[c].host
        /\ conn'[c].pc = "refused"
        /\ \A d \in Conns : d # c => conn'[d] = conn[d]
    BY <1>0, <1>8 DEF HandshakeFails, Conn
  <2>5. ASSUME NEW d \in Conns, d # c, conn[d].pc \in {"dialing", "refused"}
        PROVE  IsPassthrough(conn[d].eng, conn[d].host)'
    <3>1. IsPassthrough(conn[d].eng, conn[d].host)
      BY <1>0, <2>5 DEF ConnInv
    <3>2. conn'[d] = conn[d]
      BY <2>4, <2>5
    <3> QED
      BY <1>8, <3>1, <3>2 DEF HandshakeFails, IsPassthrough, EngineInv, TypeOK
  <2> QED
    BY <1>0, <2>2, <2>3, <2>4, <2>5 DEF ConnInv
<1>9. CASE RecordHandshakeFailure(c)
  BY <1>0, <1>9 DEF RecordHandshakeFailure, ConnInv, Conn, IsPassthrough
<1>10. CASE \E h \in Hosts : Request(c, h)
  BY <1>0, <1>10 DEF Request, ConnInv, IsPassthrough
<1> QED
  BY <1>1, <1>2, <1>3, <1>4, <1>5, <1>6, <1>7, <1>8, <1>9, <1>10 DEF ConnStep

\* A step of a connection preserves the invariants of transactions.
LEMMA ConnStepTx ==
    ASSUME EngineInv, NEW c \in Conns, ConnStep(c)
    PROVE  TxInv'
<1>1. CASE \/ Accept(c) \/ HangUp(c) \/ BridgeEnds(c) \/ DialFails(c) \/ UpgradeFails(c)
           \/ UpgradeSucceeds(c) \/ HandshakeSucceeds(c)
           \/ \E h \in Hosts : ConnectTunnel(c, h) \/ ConnectMitm(c, h)
  <2>1. UNCHANGED <<pinned, nextId, tx, events, row>>
    BY <1>1 DEF Accept, HangUp, BridgeEnds, DialFails, UpgradeFails, UpgradeSucceeds,
                HandshakeSucceeds, ConnectTunnel, ConnectMitm
  <2>2. \A e, h : IsPassthrough(e, h) => IsPassthrough(e, h)'
    BY <2>1 DEF IsPassthrough
  <2> QED
    BY <2>1, <2>2, TxKept
<1>2. CASE HandshakeFails(c)
  <2>1. \A e, h : IsPassthrough(e, h) => IsPassthrough(e, h)'
    BY <1>2 DEF HandshakeFails, IsPassthrough, EngineInv, TypeOK
  <2> QED
    BY <1>2, <2>1, TxKept DEF HandshakeFails
<1>3. CASE DialSucceeds(c)
  <2>1. /\ conn[c].eng \in Engines /\ conn[c].host \in Hosts
        /\ IsPassthrough(conn[c].eng, conn[c].host)
    BY <1>3 DEF DialSucceeds, EngineInv, ConnInv
  <2> QED
    BY <1>3, <2>1, TxAllocated DEF DialSucceeds, ReqStates
<1>4. CASE RecordHandshakeFailure(c)
  <2>1. /\ conn[c].eng \in Engines /\ conn[c].host \in Hosts
        /\ IsPassthrough(conn[c].eng, conn[c].host)
    BY <1>4 DEF RecordHandshakeFailure, EngineInv, ConnInv
  <2> QED
    BY <1>4, <2>1, TxAllocated DEF RecordHandshakeFailure, ReqStates
<1>5. CASE \E h \in Hosts : Request(c, h)
  <2>1. PICK h \in Hosts : Request(c, h)
    BY <1>5
  <2>2. conn[c].eng \in Engines
    BY <2>1 DEF Request, EngineInv, ConnInv
  <2> QED
    BY <2>1, <2>2, TxAllocated DEF Request, ReqStates
<1> QED
  BY <1>1, <1>2, <1>3, <1>4, <1>5 DEF ConnStep

\* A step of a connection preserves the inductive invariant.
LEMMA ConnStepInv ==
    ASSUME EngineInv, NEW c \in Conns, ConnStep(c)
    PROVE  EngineInv'
<1>1. UNCHANGED <<current, loop>>
  BY DEF ConnStep, Accept, HangUp, BridgeEnds, ConnectTunnel, ConnectMitm, DialFails,
         DialSucceeds, UpgradeFails, UpgradeSucceeds, HandshakeSucceeds,
         HandshakeFails, RecordHandshakeFailure, Request
<1> QED
  BY <1>1, ConnStepType, ConnStepConn, ConnStepTx DEF EngineInv, LoopInv

-----------------------------------------------------------------------------
(* The inductive invariant *)

\* The inductive invariant holds before the proxy is first started ...
LEMMA InitInv == Init => EngineInv
<1> SUFFICES ASSUME Init PROVE EngineInv
  OBVIOUS
<1>1. TypeOK
  <2>1. FreeTx \in Tx
    BY BoundsAssumption DEF FreeTx, Tx, TxPhases, ReqStates, RespStates
  <2>2. <<>> \in Seq({"started", "updated"} \cup FinalStates)
    OBVIOUS
  <2> QED
    BY <2>1, <2>2, BoundsAssumption DEF Init, TypeOK, Conn, ConnPhases
<1>2. LoopInv /\ ConnInv
  BY DEF Init, LoopInv, ConnInv
<1>3. TxInv
  BY DEF Init, FreeTx, TxInv, PhaseInv, TunnelInv, RowInv, Story
<1> QED
  BY <1>1, <1>2, <1>3 DEF EngineInv

\* ... and every step of the system preserves it ...
LEMMA NextInv == EngineInv /\ [Next]_vars => EngineInv'
<1> SUFFICES ASSUME EngineInv, [Next]_vars PROVE EngineInv'
  OBVIOUS
<1>1. CASE Start \/ Stop \/ LoopBreaks
  <2>1. TypeOK' /\ LoopInv'
    BY <1>1, BoundsAssumption
       DEF Start, Stop, LoopBreaks, EngineInv, TypeOK, LoopInv, Engines
  <2>2. UNCHANGED <<pinned, conn, nextId, tx, events, row>>
    BY <1>1 DEF Start, Stop, LoopBreaks
  <2>3. \A e, h : IsPassthrough(e, h) => IsPassthrough(e, h)'
    BY <2>2 DEF IsPassthrough
  <2>4. TxInv'
    BY <2>2, <2>3, TxKept
  <2>5. ConnInv'
    BY <2>2 DEF EngineInv, ConnInv, IsPassthrough
  <2> QED
    BY <2>1, <2>4, <2>5 DEF EngineInv
<1>2. CASE \E c \in Conns : ConnStep(c)
  BY <1>2, ConnStepInv
<1>3. CASE \E i \in Ids : TxStep(i)
  BY <1>3, TxStepInv
<1>4. CASE UNCHANGED vars
  BY <1>4 DEF vars, EngineInv, TypeOK, LoopInv, ConnInv, IsPassthrough, TxInv,
              PhaseInv, TunnelInv, RowInv, Story, StateOf
<1> QED
  BY <1>1, <1>2, <1>3, <1>4 DEF Next

\* ... so it holds throughout.
THEOREM InvTheorem == Spec => []EngineInv
<1>1. Init => EngineInv
  BY InitInv
<1>2. EngineInv /\ [Next]_vars => EngineInv'
  BY NextInv
<1> QED
  BY <1>1, <1>2, PTL DEF Spec

-----------------------------------------------------------------------------
(* The properties *)

\* Every variable of the engine keeps its type.
THEOREM TypeTheorem == Spec => []TypeOK
<1>1. EngineInv => TypeOK
  BY DEF EngineInv
<1> QED
  BY <1>1, InvTheorem, PTL

\* The bus tells one story, with one honest end, about every transaction.
THEOREM OneStoryTheorem == Spec => []OneStory
<1>1. EngineInv => OneStory
  BY DEF EngineInv, TxInv, OneStory
<1> QED
  BY <1>1, InvTheorem, PTL

\* A transaction is announced as over only when the store has answered for it.
THEOREM StoredWhenAnnouncedTheorem == Spec => []StoredWhenAnnounced
<1>1. EngineInv => StoredWhenAnnounced
  <2> SUFFICES ASSUME EngineInv, NEW i \in Ids
               PROVE  /\ Final(i) => tx[i].phase = "done" /\ row[i] \in {StateOf(i), "refused"}
                      /\ row[i] # "none" => tx[i].phase \in {"persisted", "done"}
    BY DEF StoredWhenAnnounced
  <2>1. Story(i) /\ RowInv(i)
    BY DEF EngineInv, TxInv
  <2>2. row[i] # "none" => tx[i].phase \in {"persisted", "done"}
    BY <2>1 DEF RowInv
  <2>3. ASSUME tx[i].phase # "done"
        PROVE  ~Final(i)
    <3>1. events[i] \in {<<>>, <<"started">>, <<"started", "updated">>}
      BY <2>1, <2>3 DEF Story
    <3> QED
      BY <3>1 DEF Final, Said
  <2>4. tx[i].phase = "done" => row[i] \in {StateOf(i), "refused"}
    BY <2>1 DEF RowInv
  <2> QED
    BY <2>2, <2>3, <2>4
<1> QED
  BY <1>1, InvTheorem, PTL

\* A host shown as tunnelled opaquely is intercepted no more by its engine.
THEOREM PromiseKeptTheorem == Spec => PromiseKept
<1>1. ASSUME EngineInv, Next
      PROVE  \A c \in Conns :
                conn[c].pc = "open" /\ conn'[c].pc = "upgrading"
                    => ~ShownOpaque(conn[c].eng, conn'[c].host)
  <2> SUFFICES ASSUME NEW c \in Conns, conn[c].pc = "open", conn'[c].pc = "upgrading",
                      ShownOpaque(conn[c].eng, conn'[c].host)
               PROVE  FALSE
    OBVIOUS
  <2>1. PICK i \in Ids : /\ tx[i].kind = "tunnel"
                         /\ tx[i].eng = conn[c].eng
                         /\ tx[i].host = conn'[c].host
                         /\ events[i] # <<>>
    BY DEF ShownOpaque
  <2>2. IsPassthrough(conn[c].eng, conn'[c].host)
    <3>1. TunnelInv(i) /\ Story(i)
      BY <1>1 DEF EngineInv, TxInv
    <3>2. tx[i].phase # "free"
      BY <2>1, <3>1 DEF Story
    <3> QED
      BY <2>1, <3>1, <3>2 DEF TunnelInv
  <2>3. conn \in [Conns -> Conn]
    BY <1>1 DEF EngineInv, TypeOK
  <2>4. PICK h \in Hosts : ConnectMitm(c, h)
    <3>1. CASE \E d \in Conns : ConnStep(d)
      <4>1. PICK d \in Conns : ConnStep(d)
        BY <3>1
      <4>2. d = c
        BY <2>3, <4>1
           DEF ConnStep, Accept, HangUp, BridgeEnds, ConnectTunnel, ConnectMitm, DialFails,
               DialSucceeds, UpgradeFails, UpgradeSucceeds, HandshakeSucceeds,
               HandshakeFails, RecordHandshakeFailure, Request
      <4>3. ASSUME NEW h \in Hosts, ConnectTunnel(c, h)
            PROVE  FALSE
        BY <2>3, <4>3 DEF ConnectTunnel, Conn
      <4>4. ASSUME \/ Accept(c) \/ HangUp(c) \/ BridgeEnds(c) \/ DialFails(c) \/ DialSucceeds(c)
                   \/ UpgradeFails(c) \/ UpgradeSucceeds(c) \/ HandshakeSucceeds(c)
                   \/ HandshakeFails(c) \/ RecordHandshakeFailure(c)
            PROVE  FALSE
        BY <2>3, <4>4
           DEF Accept, HangUp, BridgeEnds, DialFails, DialSucceeds, UpgradeFails,
               UpgradeSucceeds, HandshakeSucceeds, HandshakeFails,
               RecordHandshakeFailure, Conn
      <4>5. ASSUME NEW h \in Hosts, Request(c, h)
            PROVE  FALSE
        BY <4>5 DEF Request
      <4> QED
        BY <4>1, <4>2, <4>3, <4>4, <4>5 DEF ConnStep
    <3>2. CASE \E i_1 \in Ids : TxStep(i_1)
      BY <1>1, <3>2, TxFrame DEF EngineInv
    <3>3. CASE Start \/ Stop \/ LoopBreaks
      BY <3>3 DEF Start, Stop, LoopBreaks
    <3> QED
      BY <1>1, <3>1, <3>2, <3>3 DEF Next
  <2>5. conn'[c].host = h /\ ~IsPassthrough(conn[c].eng, h)
    BY <2>3, <2>4 DEF ConnectMitm, Conn
  <2> QED
    BY <2>2, <2>5
<1>2. EngineInv /\ [Next]_vars
        => [\A c \in Conns :
                conn[c].pc = "open" /\ conn'[c].pc = "upgrading"
                    => ~ShownOpaque(conn[c].eng, conn'[c].host)]_vars
  BY <1>1
<1> QED
  BY <1>2, InvTheorem, PTL DEF Spec, PromiseKept

-----------------------------------------------------------------------------
(* Recording *)

StageOfPhase(p) ==
    CASE p = "free"       -> "free"
      [] p = "persisting" -> "sent"
      [] p = "persisted"  -> "answered"
      [] p = "done"       -> "announced"
      [] OTHER            -> "active"

AnswerOf(i) == IF row[i] \in FinalStates THEN "stored" ELSE row[i]

\* The bus has named an end for exactly the transactions that are done.
LEMMA DoneIsFinal ==
    ASSUME EngineInv, NEW i \in Ids
    PROVE  Final(i) <=> tx[i].phase = "done"
<1>1. Story(i)
  BY DEF EngineInv, TxInv
<1>2. CASE tx[i].phase # "done"
  <2>1. events[i] \in {<<>>, <<"started">>, <<"started", "updated">>}
    BY <1>1, <1>2 DEF Story
  <2> QED
    BY <1>2, <2>1 DEF Final, Said
<1>3. CASE tx[i].phase = "done"
  <2>1. PICK e \in {"completed", "failed"} :
           events[i] = <<"started", e>> \/ events[i] = <<"started", "updated", e>>
    BY <1>1, <1>3 DEF Story
  <2>2. Said(i, e)
    BY <2>1 DEF Said
  <2> QED
    BY <1>3, <2>1, <2>2 DEF Final
<1> QED
  BY <1>2, <1>3

\* What observers see of a transaction is told by its phase.
LEMMA StageIsPhases ==
    ASSUME EngineInv, NEW i \in Ids
    PROVE  /\ StageOf(i) = StageOfPhase(tx[i].phase)
           /\ tx[i].phase \notin {"persisted", "done"} => AnswerOf(i) = "none"
           /\ tx[i].phase \in {"persisted", "done"} => AnswerOf(i) \in {"stored", "refused"}
<1>1. RowInv(i) /\ (Final(i) <=> tx[i].phase = "done")
  BY DoneIsFinal DEF EngineInv, TxInv
<1>2. StateOf(i) \in FinalStates /\ "none" \notin FinalStates /\ "refused" \notin FinalStates
  BY StateOfType DEF FinalStates
<1>3. row[i] = "none" <=> tx[i].phase \notin {"persisted", "done"}
  BY <1>1, <1>2 DEF RowInv
<1>4. StageOf(i) = StageOfPhase(tx[i].phase)
  BY <1>1, <1>3 DEF StageOf, StageOfPhase, Unanswered
<1> QED
  BY <1>1, <1>2, <1>3, <1>4 DEF RowInv, AnswerOf

StagesInv ==
    \A i \in Ids :
        /\ StageOf(i) = StageOfPhase(tx[i].phase)
        /\ tx[i].phase \in {"persisted", "done"} => AnswerOf(i) \in {"stored", "refused"}

\* So it is in the next state too.
LEMMA StagesNext == EngineInv' => StagesInv'
<1>1. EngineInv => StagesInv
  BY StageIsPhases DEF StagesInv
<1> QED
  BY <1>1, PTL

\* What a step of a transaction does to its phase, as far as Recording can tell,
\* and to what the store said of it.
LEMMA PhaseMoves ==
    ASSUME EngineInv, NEW i \in Ids, TxStep(i)
    PROVE  LET s == StageOfPhase(tx[i].phase)
               t == StageOfPhase(tx'[i].phase)
           IN  \/ t = s /\ row'[i] = row[i]
               \/ s = "active" /\ t = "sent" /\ row'[i] = row[i]
               \/ s = "sent" /\ t = "answered"
               \/ s = "answered" /\ t = "announced" /\ row'[i] = row[i]
<1>0. tx \in [Ids -> Tx] /\ row \in [Ids -> FinalStates \cup {"none", "refused"}]
  BY DEF EngineInv, TypeOK
<1> DEFINE p == tx[i].phase
           q == tx'[i].phase
<1>1. CASE AnnounceTunnel(i)
  <2>1. p = "named" /\ q \in {"persisting", "tunnelling"} /\ row'[i] = row[i]
    BY <1>0, <1>1 DEF AnnounceTunnel, Tx
  <2> QED
    BY <2>1 DEF StageOfPhase
<1>2. CASE TunnelCloses(i) \/ TunnelFails(i) \/ TunnelStopped(i)
  <2>1. p = "tunnelling" /\ q = "persisting" /\ row'[i] = row[i]
    BY <1>0, <1>2 DEF TunnelCloses, TunnelFails, TunnelStopped, Tx
  <2> QED
    BY <2>1 DEF StageOfPhase
<1>3. CASE OnRequest(i) \/ DropExchange(i)
  <2>1. p \in {"named", "forwarding"} /\ q \in {"forwarding", "lost"} /\ row'[i] = row[i]
    BY <1>0, <1>3 DEF OnRequest, DropExchange, Tx
  <2> QED
    BY <2>1 DEF StageOfPhase
<1>4. CASE UpstreamResponds(i) \/ UpstreamFails(i)
  <2>1. p = "forwarding" /\ q = "streaming" /\ row'[i] = row[i]
    BY <1>0, <1>4 DEF UpstreamResponds, UpstreamFails, Tx
  <2> QED
    BY <2>1 DEF StageOfPhase
<1>5. CASE UpstreamSwitches(i)
  <2>1. p = "forwarding" /\ q = "streaming" /\ row'[i] = row[i]
    BY ONLY <1>0, <1>5 DEF UpstreamSwitches, Tx
  <2> QED
    BY <2>1 DEF StageOfPhase
<1>6. CASE ReqBodyEnds(i) \/ \E how \in {"whole", "broken", "dropped"} : RespBodyEnds(i, how)
  <2>1. q = p /\ row'[i] = row[i]
    BY <1>0, <1>6 DEF ReqBodyEnds, RespBodyEnds, Tx
  <2> QED
    BY <2>1
<1>7. CASE Finalize(i)
  <2>1. p = "streaming" /\ q = "persisting" /\ row'[i] = row[i]
    BY <1>0, <1>7 DEF Finalize, Tx
  <2> QED
    BY <2>1 DEF StageOfPhase
<1>8. CASE \E ok \in BOOLEAN : StoreReplies(i, ok)
  <2>1. p = "persisting" /\ q = "persisted"
    BY <1>0, <1>8 DEF StoreReplies, Tx
  <2> QED
    BY <2>1 DEF StageOfPhase
<1>9. CASE Complete(i)
  <2>1. p = "persisted" /\ q = "done" /\ row'[i] = row[i]
    BY <1>0, <1>9 DEF Complete, Tx
  <2> QED
    BY <2>1 DEF StageOfPhase
<1> QED
  BY <1>1, <1>2, <1>3, <1>4, <1>5, <1>6, <1>7, <1>8, <1>9 DEF TxStep

\* A step of a transaction is its next step in Recording, or none.
LEMMA TxStepKeepsPromise ==
    ASSUME EngineInv, EngineInv', NEW i \in Ids, TxStep(i)
    PROVE  \/ Promise!Next
           \/ UNCHANGED <<[j \in Ids |-> StageOf(j)], [j \in Ids |-> AnswerOf(j)]>>
<1> DEFINE stage   == [j \in Ids |-> StageOf(j)]
           verdict == [j \in Ids |-> AnswerOf(j)]
<1>1. /\ StageOf(i) = StageOfPhase(tx[i].phase)
      /\ StageOf(i)' = StageOfPhase(tx'[i].phase)
      /\ tx'[i].phase \in {"persisted", "done"} => AnswerOf(i)' \in {"stored", "refused"}
  BY StageIsPhases, StagesNext DEF StagesInv
<1>2. \A j \in Ids : j # i => StageOf(j)' = StageOf(j) /\ AnswerOf(j)' = AnswerOf(j)
  <2> SUFFICES ASSUME NEW j \in Ids, j # i
               PROVE  StageOf(j)' = StageOf(j) /\ AnswerOf(j)' = AnswerOf(j)
    OBVIOUS
  <2>1. tx'[j] = tx[j] /\ events'[j] = events[j] /\ row'[j] = row[j]
    BY TxFrame DEF EngineInv
  <2> QED
    BY <2>1 DEF StageOf, Unanswered, Final, Said, AnswerOf
<1>3. \A j \in Ids : stage[j] = StageOf(j) /\ verdict[j] = AnswerOf(j)
  OBVIOUS
<1>4. \A j \in Ids : stage'[j] = StageOf(j)' /\ verdict'[j] = AnswerOf(j)'
  OBVIOUS
<1>5. row'[i] = row[i] => AnswerOf(i)' = AnswerOf(i)
  BY DEF AnswerOf
<1>6. CASE StageOf(i)' = StageOf(i) /\ AnswerOf(i)' = AnswerOf(i)
  BY <1>2, <1>6
<1>7. ASSUME NEW t, StageOf(i)' = t, AnswerOf(i)' = AnswerOf(i)
      PROVE  stage' = [stage EXCEPT ![i] = t] /\ verdict' = verdict
  BY <1>2, <1>7
<1>8. CASE StageOf(i) = "active" /\ StageOf(i)' = "sent" /\ row'[i] = row[i]
  <2>1. stage[i] = "active" /\ stage' = [stage EXCEPT ![i] = "sent"] /\ verdict' = verdict
    BY <1>3, <1>5, <1>7, <1>8
  <2> QED
    BY <2>1 DEF Promise!Next, Promise!Send, AnswerOf
<1>9. CASE StageOf(i) = "answered" /\ StageOf(i)' = "announced" /\ row'[i] = row[i]
  <2>1. stage[i] = "answered" /\ stage' = [stage EXCEPT ![i] = "announced"] /\ verdict' = verdict
    BY <1>3, <1>5, <1>7, <1>9
  <2> QED
    BY <2>1 DEF Promise!Next, Promise!Announce, AnswerOf
<1>10. CASE StageOf(i) = "sent" /\ StageOf(i)' = "answered"
  <2>0. PICK v : v = AnswerOf(i)'
    OBVIOUS
  <2>1. tx'[i].phase = "persisted"
    BY <1>1, <1>10 DEF StageOfPhase
  <2>2. v \in Promise!Verdicts \ {"none"}
    BY <1>1, <2>0, <2>1 DEF Promise!Verdicts
  <2>3. /\ \A j \in {i} : stage[j] = "sent"
        /\ stage' = [j \in Ids |-> IF j \in {i} THEN "answered" ELSE stage[j]]
        /\ verdict' = [j \in Ids |-> IF j \in {i} THEN v ELSE verdict[j]]
    BY <1>2, <1>10, <2>0
  <2>4. Promise!Answer({i}, v)
    BY <2>3 DEF Promise!Answer, AnswerOf
  <2> QED
    BY <2>2, <2>4 DEF Promise!Next
<1>11. \/ StageOf(i)' = StageOf(i) /\ row'[i] = row[i]
       \/ StageOf(i) = "active" /\ StageOf(i)' = "sent" /\ row'[i] = row[i]
       \/ StageOf(i) = "sent" /\ StageOf(i)' = "answered"
       \/ StageOf(i) = "answered" /\ StageOf(i)' = "announced" /\ row'[i] = row[i]
  BY <1>1, PhaseMoves
<1> QED
  BY <1>5, <1>6, <1>8, <1>9, <1>10, <1>11

\* A fresh transaction is begun under an id above all that were begun.
LEMMA AllocateBegins ==
    ASSUME EngineInv, EngineInv', NEW c, NEW h, NEW k, NEW err, NEW body,
           Allocate(c, h, k, err, body), UNCHANGED <<events, row>>
    PROVE  Promise!Next
<1> DEFINE stage   == [j \in Ids |-> StageOf(j)]
           verdict == [j \in Ids |-> AnswerOf(j)]
<1>1. PICK n \in Ids : /\ n = nextId
                        /\ tx'[n].phase = "named"
                        /\ \A j \in Ids : j # n => tx'[j] = tx[j]
  BY DEF Allocate, EngineInv, TypeOK
<1>2. \A j \in Ids : j >= n => StageOf(j) = "free"
  <2> SUFFICES ASSUME NEW j \in Ids, j >= n PROVE StageOf(j) = "free"
    OBVIOUS
  <2>1. tx[j].phase = "free"
    BY <1>1 DEF EngineInv, TxInv, PhaseInv
  <2> QED
    BY <2>1, StageIsPhases DEF StageOfPhase
<1>3. StageOf(n)' = "active"
  BY <1>1, StagesNext DEF StagesInv, StageOfPhase
<1>4. \A j \in Ids : j # n => StageOf(j)' = StageOf(j)
  BY <1>1 DEF StageOf, Unanswered, Final, Said
<1>5. stage' = [stage EXCEPT ![n] = "active"]
  BY <1>3, <1>4
<1>6. verdict' = verdict
  BY DEF AnswerOf
<1>7. \A j \in Ids : j >= n => stage[j] = "free"
  BY <1>2
<1> QED
  BY <1>5, <1>6, <1>7 DEF Promise!Next, Promise!Begin, AnswerOf

\* A step of the engine is one of Recording, or none of its.
LEMMA EngineKeepsPromise ==
    ASSUME EngineInv, EngineInv', [Next]_vars
    PROVE  \/ Promise!Next
           \/ UNCHANGED <<[j \in Ids |-> StageOf(j)], [j \in Ids |-> AnswerOf(j)]>>
<1>1. CASE UNCHANGED <<tx, events, row>>
  BY <1>1 DEF StageOf, Unanswered, Final, Said, AnswerOf
<1>2. CASE \E i \in Ids : TxStep(i)
  BY <1>2, TxStepKeepsPromise
<1>3. ASSUME NEW c \in Conns, ConnStep(c)
      PROVE  Promise!Next \/ UNCHANGED <<tx, events, row>>
  <2>1. CASE DialSucceeds(c)
    BY <2>1, AllocateBegins DEF DialSucceeds
  <2>2. CASE RecordHandshakeFailure(c)
    BY <2>2, AllocateBegins DEF RecordHandshakeFailure
  <2>3. CASE \E h \in Hosts : Request(c, h)
    BY <2>3, AllocateBegins DEF Request
  <2>4. CASE ~(DialSucceeds(c) \/ RecordHandshakeFailure(c) \/ \E h \in Hosts : Request(c, h))
    BY <1>3, <2>4
       DEF ConnStep, Accept, HangUp, BridgeEnds, ConnectTunnel, ConnectMitm, DialFails, UpgradeFails,
           UpgradeSucceeds, HandshakeSucceeds, HandshakeFails
  <2> QED
    BY <2>1, <2>2, <2>3, <2>4
<1>4. CASE Start \/ Stop \/ LoopBreaks \/ UNCHANGED vars
  BY <1>1, <1>4 DEF Start, Stop, LoopBreaks, vars
<1> QED
  BY <1>1, <1>2, <1>3, <1>4 DEF Next

\* The engine keeps the promise of Recording: every transaction is answered for
\* once and announced as over once, after that.
THEOREM EnginePromiseTheorem == Spec => PromiseSpec
<1>1. Init => Promise!Init
  <2> SUFFICES ASSUME Init PROVE Promise!Init
    OBVIOUS
  <2>1. \A i \in Ids : StageOf(i) = "free" /\ AnswerOf(i) = "none"
    BY DEF Init, FreeTx, StageOf, Unanswered, Final, Said, AnswerOf, FinalStates
  <2> QED
    BY <2>1 DEF Promise!Init, AnswerOf
<1>2. EngineInv /\ EngineInv' /\ [Next]_vars
        => [Promise!Next]_Promise!vars
  BY EngineKeepsPromise DEF Promise!vars, AnswerOf
<1> QED
  BY <1>1, <1>2, InvTheorem, PTL DEF Spec, PromiseSpec, Promise!Spec

-----------------------------------------------------------------------------
(* What is lost *)

\* What has been answered, or tunnelled, goes on to the store and to its
\* announcement, and what was stored and announced of it stays; an exchange is
\* lost only while its upstream is awaited.
GoesOn(i) ==
    /\ tx[i].phase = "streaming"  => tx'[i].phase \in {"streaming", "persisting"}
    /\ tx[i].phase = "tunnelling" => tx'[i].phase \in {"tunnelling", "persisting"}
    /\ tx[i].phase = "persisting" => tx'[i].phase \in {"persisting", "persisted"}
    /\ tx[i].phase = "persisted"  => tx'[i].phase \in {"persisted", "done"}
    /\ tx[i].phase \in {"done", "lost"} => tx'[i] = tx[i] /\ events'[i] = events[i]
    /\ tx'[i].phase = "lost" => tx[i].phase \in {"forwarding", "lost"}
    /\ row[i] # "none" => row'[i] = row[i] /\ tx'[i].error = tx[i].error

\* No step does anything else to a transaction.
NothingElseLost == [][\A i \in Ids : GoesOn(i)]_vars

LEMMA TxGoesOn ==
    ASSUME EngineInv, NEW i \in Ids, TxStep(i)
    PROVE  GoesOn(i)
<1>0. /\ tx \in [Ids -> Tx] /\ row \in [Ids -> FinalStates \cup {"none", "refused"}]
      /\ row[i] # "none" => tx[i].phase \in {"persisted", "done"}
  BY DEF EngineInv, TypeOK, TxInv, RowInv
<1> DEFINE p == tx[i].phase
           q == tx'[i].phase
<1>1. CASE AnnounceTunnel(i)
  <2>1. p = "named" /\ q \in {"persisting", "tunnelling"}
    BY <1>0, <1>1 DEF AnnounceTunnel, Tx
  <2> QED
    BY <1>0, <2>1 DEF GoesOn
<1>2. CASE TunnelCloses(i) \/ TunnelFails(i) \/ TunnelStopped(i)
  <2>1. p = "tunnelling" /\ q = "persisting"
    BY <1>0, <1>2 DEF TunnelCloses, TunnelFails, TunnelStopped, Tx
  <2> QED
    BY <1>0, <2>1 DEF GoesOn
<1>3. CASE OnRequest(i) \/ DropExchange(i)
  <2>1. \/ p = "named" /\ q = "forwarding"
        \/ p = "forwarding" /\ q = "lost"
    BY <1>0, <1>3 DEF OnRequest, DropExchange, Tx
  <2> QED
    BY <1>0, <2>1 DEF GoesOn
<1>4. CASE UpstreamResponds(i) \/ UpstreamFails(i)
  <2>1. p = "forwarding" /\ q = "streaming"
    BY <1>0, <1>4 DEF UpstreamResponds, UpstreamFails, Tx
  <2> QED
    BY <1>0, <2>1 DEF GoesOn
<1>5. CASE UpstreamSwitches(i)
  <2>1. p = "forwarding" /\ q = "streaming"
    BY ONLY <1>0, <1>5 DEF UpstreamSwitches, Tx
  <2> QED
    BY <1>0, <2>1 DEF GoesOn
<1>6. CASE ReqBodyEnds(i) \/ \E how \in {"whole", "broken", "dropped"} : RespBodyEnds(i, how)
  <2>1. q = p /\ p \in {"forwarding", "streaming"}
    BY <1>0, <1>6 DEF ReqBodyEnds, RespBodyEnds, Tx
  <2> QED
    BY <1>0, <2>1 DEF GoesOn
<1>7. CASE Finalize(i)
  <2>1. p = "streaming" /\ q = "persisting"
    BY <1>0, <1>7 DEF Finalize, Tx
  <2> QED
    BY <1>0, <2>1 DEF GoesOn
<1>8. CASE \E ok \in BOOLEAN : StoreReplies(i, ok)
  <2>1. p = "persisting" /\ q = "persisted"
    BY <1>0, <1>8 DEF StoreReplies, Tx
  <2> QED
    BY <1>0, <2>1 DEF GoesOn
<1>9. CASE Complete(i)
  <2>1. p = "persisted" /\ q = "done" /\ row'[i] = row[i] /\ tx'[i].error = tx[i].error
    BY <1>0, <1>9 DEF Complete, Tx
  <2> QED
    BY <2>1 DEF GoesOn
<1> QED
  BY <1>1, <1>2, <1>3, <1>4, <1>5, <1>6, <1>7, <1>8, <1>9 DEF TxStep

\* A step that does not touch i.
LEMMA StaysAsIs ==
    ASSUME NEW i \in Ids, tx'[i] = tx[i], events'[i] = events[i], row'[i] = row[i]
    PROVE  GoesOn(i)
BY DEF GoesOn

\* What holds where EveryExchangeRecorded does not: hang-ups, resets and stops lose
\* an exchange only before it is answered (Engine::handle, finish_transaction).
THEOREM NothingElseLostTheorem == Spec => NothingElseLost
<1>1. ASSUME EngineInv, Next, NEW i \in Ids PROVE GoesOn(i)
  <2>1. CASE \E j \in Ids : TxStep(j)
    <3>1. PICK j \in Ids : TxStep(j)
      BY <2>1
    <3>2. CASE j = i
      BY <1>1, <3>1, <3>2, TxGoesOn
    <3>3. CASE j # i
      <4>1. tx'[i] = tx[i] /\ events'[i] = events[i] /\ row'[i] = row[i]
        BY <1>1, <3>1, <3>3, TxFrame DEF EngineInv
      <4> QED
        BY <4>1, StaysAsIs
    <3> QED
      BY <3>2, <3>3
  <2>2. CASE UNCHANGED <<tx, events, row>>
    BY <2>2, StaysAsIs
  <2>3. ASSUME NEW c, NEW h, NEW k, NEW err, NEW body, Allocate(c, h, k, err, body),
               UNCHANGED <<events, row>>
        PROVE  GoesOn(i)
    <3>1. CASE i = nextId
      <4>1. tx[i].phase = "free" /\ row[i] = "none" /\ tx'[i].phase = "named"
        BY <1>1, <2>3, <3>1 DEF Allocate, EngineInv, TypeOK, TxInv, PhaseInv, RowInv
      <4> QED
        BY <4>1 DEF GoesOn
    <3>2. CASE i # nextId
      <4>1. tx'[i] = tx[i]
        BY <1>1, <2>3, <3>2 DEF Allocate, EngineInv, TypeOK
      <4> QED
        BY <2>3, <4>1, StaysAsIs
    <3> QED
      BY <3>1, <3>2
  <2>4. ASSUME NEW c \in Conns, ConnStep(c)
        PROVE  GoesOn(i)
    <3>1. CASE DialSucceeds(c)
      BY <2>3, <3>1 DEF DialSucceeds
    <3>2. CASE RecordHandshakeFailure(c)
      BY <2>3, <3>2 DEF RecordHandshakeFailure
    <3>3. CASE \E h \in Hosts : Request(c, h)
      BY <2>3, <3>3 DEF Request
    <3>4. CASE ~(DialSucceeds(c) \/ RecordHandshakeFailure(c) \/ \E h \in Hosts : Request(c, h))
      BY <2>2, <2>4, <3>4
         DEF ConnStep, Accept, HangUp, BridgeEnds, ConnectTunnel, ConnectMitm, DialFails, UpgradeFails,
             UpgradeSucceeds, HandshakeSucceeds, HandshakeFails
    <3> QED
      BY <3>1, <3>2, <3>3, <3>4
  <2>5. CASE Start \/ Stop \/ LoopBreaks
    BY <2>2, <2>5 DEF Start, Stop, LoopBreaks
  <2> QED
    BY <1>1, <2>1, <2>4, <2>5 DEF Next
<1>2. EngineInv /\ [Next]_vars => [\A i \in Ids : GoesOn(i)]_vars
  BY <1>1
<1> QED
  BY <1>2, InvTheorem, PTL DEF Spec, NothingElseLost
=============================================================================
