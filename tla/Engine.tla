------------------------------- MODULE Engine -------------------------------
(***************************************************************************)
(* The capture pipeline of httpmate (crates/httpmate-core/src/proxy.rs,    *)
(* with the Recorder of intercept.rs and the engine's part of              *)
(* Controller::start and stop): the accept loop, the connection tasks it   *)
(* owns, the detached tasks that outlive them, and the transactions they   *)
(* record.                                                                 *)
(*                                                                         *)
(* A client connection (conn) is plain HTTP, or a CONNECT that becomes an  *)
(* opaque tunnel, or a CONNECT whose TLS is terminated here (MITM).  It    *)
(* gives rise to any number of transactions (tx), numbered by a counter    *)
(* that all engines of one process share.  Each transaction publishes      *)
(* events on the bus and is handed to the store once, when it is over.     *)
(*                                                                         *)
(* The store is seen from here as one answer per insert (module Store has  *)
(* the rest); the bus as the events of each transaction in the order sent. *)
(* A refused request (400: no authority, no absolute URI) leaves no trace  *)
(* and is not an action.  Requests, bodies and TLS are abstracted to how   *)
(* they end.                                                               *)
(***************************************************************************)
EXTENDS Integers, Sequences

CONSTANTS
    Conns,              \* client connections accepted over all starts
    Hosts,              \* hosts clients ask for
    PassthroughHosts,   \* hosts matched by settings.passthrough_hosts
    MaxStarts,          \* bound: how often the proxy is started
    MaxTx               \* bound: transactions recorded

ASSUME BoundsAssumption ==
    /\ MaxStarts \in Nat
    /\ MaxTx \in Nat
ASSUME HostsAssumption == PassthroughHosts \subseteq Hosts

VARIABLES
    current,    \* number of the engine started last (0: none yet)
    loop,       \* the accept loop of the engine started last
    pinned,     \* pinned[e]: dynamic_passthrough of engine e
    conn,       \* conn[c]: what the task serving connection c is doing
    nextId,     \* the shared transaction counter
    tx,         \* tx[i]: transaction i, as its TransactionCtx and task hold it
    events,     \* events[i]: what the bus carried about transaction i, in order
    row         \* row[i]: the store's answer about i: the state it holds, or "refused"

vars == <<current, loop, pinned, conn, nextId, tx, events, row>>

Engines == 1..MaxStarts
Ids     == 1..MaxTx
NoHost  == "no host"
NoConn  == "no conn"

ConnPhases == {"idle", "open", "dialing", "upgrading", "handshaking",
               "refused", "mitm", "handed over", "bridged", "closed"}
TxPhases   == {"free", "named", "forwarding", "streaming", "tunnelling",
               "persisting", "persisted", "done", "lost"}
ReqStates  == {"none", "open", "ended"}
RespStates == {"none", "open", "whole", "broken", "dropped"}
FinalStates == {"completed", "failed"}

Conn == [pc : ConnPhases, eng : 0..MaxStarts, host : Hosts \cup {NoHost}]
Tx   == [phase : TxPhases, conn : Conns \cup {NoConn}, eng : 0..MaxStarts,
         host : Hosts \cup {NoHost},
         kind : {"http", "tunnel", "ws-upgrade"}, error : BOOLEAN,
         req : ReqStates, resp : RespStates]

FreeTx == [phase |-> "free", conn |-> NoConn, eng |-> 0,
           host |-> NoHost, kind |-> "http", error |-> FALSE,
           req |-> "none", resp |-> "none"]

Init ==
    /\ current = 0
    /\ loop = "off"
    /\ pinned = [e \in Engines |-> {}]
    /\ conn = [c \in Conns |-> [pc |-> "idle", eng |-> 0, host |-> NoHost]]
    /\ nextId = 1
    /\ tx = [i \in Ids |-> FreeTx]
    /\ events = [i \in Ids |-> <<>>]
    /\ row = [i \in Ids |-> "none"]

-----------------------------------------------------------------------------
(* The engine and its accept loop *)

\* Engine e has been told to stop: its shutdown watch reads TRUE.
Stopping(e) == e < current \/ loop # "accepting"

\* The accept loop of engine e is over and has aborted the tasks it owned.
Aborted(e) == e < current \/ loop = "off"

\* Controller::start: a fresh Engine, with no dynamic passthrough, once the
\* previous one has stopped.
Start ==
    /\ loop = "off"
    /\ current < MaxStarts
    /\ current' = current + 1
    /\ loop' = "accepting"
    /\ UNCHANGED <<pinned, conn, nextId, tx, events, row>>

\* Controller::stop flips the watch ...
Stop ==
    /\ loop = "accepting"
    /\ loop' = "stopping"
    /\ UNCHANGED <<current, pinned, conn, nextId, tx, events, row>>

\* ... and waits for the loop to see it, break and abort its connections.
LoopBreaks ==
    /\ loop = "stopping"
    /\ loop' = "off"
    /\ UNCHANGED <<current, pinned, conn, nextId, tx, events, row>>

\* The loop's select! may still pick accept() while the watch is flipped.
Accept(c) ==
    /\ loop \in {"accepting", "stopping"}
    /\ conn[c].pc = "idle"
    /\ conn' = [conn EXCEPT ![c].pc = "open", ![c].eng = current]
    /\ UNCHANGED <<current, loop, pinned, nextId, tx, events, row>>

-----------------------------------------------------------------------------
(* Events and transactions *)

Publish(i, type) == events' = [events EXCEPT ![i] = Append(@, type)]

\* Engine::next_id and TransactionCtx::new for a transaction of connection c.
Allocate(c, h, k, err, body) ==
    /\ nextId \in Ids
    /\ nextId' = nextId + 1
    /\ tx' = [tx EXCEPT ![nextId] =
                [phase |-> "named", conn |-> c, eng |-> conn[c].eng, host |-> h,
                 kind |-> k, error |-> err, req |-> body, resp |-> "none"]]

\* The connection task gives up: the client went away, or it was cancelled.
\* A CONNECT still dialing is dropped with it, before it has an id.
HangUp(c) ==
    /\ conn[c].pc \in {"open", "dialing", "mitm"}
    /\ conn' = [conn EXCEPT ![c].pc = "closed"]
    /\ UNCHANGED <<current, loop, pinned, nextId, tx, events, row>>

\* Faulty variant: the MITM task does not look at the watch.
CancelledByAbort(c) ==
    conn[c].pc \in {"open", "dialing"} /\ Aborted(conn[c].eng)

\* Tasks of the accept loop are aborted when it ends; a MITM task selects on
\* the watch itself.
Cancelled(c) ==
    \/ conn[c].pc \in {"open", "dialing"} /\ Aborted(conn[c].eng)
    \/ conn[c].pc = "mitm" /\ Stopping(conn[c].eng)

-----------------------------------------------------------------------------
(* CONNECT, which is taken as an HTTP/1.1 request: over HTTP/2 each CONNECT    *)
(* stream behaves as a connection of its own.                                *)

\* Transaction i still needs its connection.
Busy(i) ==
    \/ tx[i].phase \in {"named", "forwarding"}
    \/ tx[i].phase = "streaming" /\ "open" \in {tx[i].req, tx[i].resp}

\* An HTTP/1.1 connection takes a CONNECT when it has nothing else in hand.
Unoccupied(c) ==
    /\ conn[c].pc = "open"
    /\ \A i \in Ids : tx[i].conn = c => ~Busy(i)

IsPassthrough(e, h) == h \in PassthroughHosts \/ h \in pinned[e]

ConnectTunnel(c, h) ==
    /\ Unoccupied(c)
    /\ IsPassthrough(conn[c].eng, h)
    /\ conn' = [conn EXCEPT ![c].pc = "dialing", ![c].host = h]
    /\ UNCHANGED <<current, loop, pinned, nextId, tx, events, row>>

\* A detached task takes over: it awaits the upgrade, then serves TLS.
ConnectMitm(c, h) ==
    /\ Unoccupied(c)
    /\ ~IsPassthrough(conn[c].eng, h)
    /\ conn' = [conn EXCEPT ![c].pc = "upgrading", ![c].host = h]
    /\ UNCHANGED <<current, loop, pinned, nextId, tx, events, row>>

\* The upstream is unreachable: 502, nothing recorded, connection kept.
DialFails(c) ==
    /\ conn[c].pc = "dialing"
    /\ conn' = [conn EXCEPT ![c].pc = "open", ![c].host = NoHost]
    /\ UNCHANGED <<current, loop, pinned, nextId, tx, events, row>>

DialSucceeds(c) ==
    /\ conn[c].pc = "dialing"
    /\ Allocate(c, conn[c].host, "tunnel", FALSE, "none")
    /\ conn' = [conn EXCEPT ![c].pc = "handed over"]
    /\ UNCHANGED <<current, loop, pinned, events, row>>

\* TransactionStarted for a tunnel, or for a handshake failure (whose error is
\* set from the start): the first goes on to copy, the other is over.
AnnounceTunnel(i) ==
    /\ tx[i].phase = "named"
    /\ tx[i].kind = "tunnel"
    /\ Publish(i, "started")
    /\ tx' = [tx EXCEPT ![i].phase = IF tx[i].error THEN "persisting"
                                                    ELSE "tunnelling"]
    /\ UNCHANGED <<current, loop, pinned, conn, nextId, row>>

\* Both directions reached end of stream.
TunnelCloses(i) ==
    /\ tx[i].phase = "tunnelling"
    /\ tx' = [tx EXCEPT ![i].phase = "persisting"]
    /\ UNCHANGED <<current, loop, pinned, conn, nextId, events, row>>

\* The upgrade or the copy fails: the error is kept.
TunnelFails(i) ==
    /\ tx[i].phase = "tunnelling"
    /\ tx' = [tx EXCEPT ![i].phase = "persisting", ![i].error = TRUE]
    /\ UNCHANGED <<current, loop, pinned, conn, nextId, events, row>>

\* The watch wins the select!, with Ok((0, 0)): no error, whatever was carried.
TunnelStopped(i) ==
    /\ tx[i].phase = "tunnelling"
    /\ Stopping(tx[i].eng)
    /\ tx' = [tx EXCEPT ![i].phase = "persisting"]
    /\ UNCHANGED <<current, loop, pinned, conn, nextId, events, row>>

-----------------------------------------------------------------------------
(* TLS interception.  Neither the upgrade nor the handshake watches for a   *)
(* stop, so both can finish on behalf of an engine that is gone.            *)

\* hyper's upgrade fails, or no TLS configuration can be built.
UpgradeFails(c) ==
    /\ conn[c].pc = "upgrading"
    /\ conn' = [conn EXCEPT ![c].pc = "closed"]
    /\ UNCHANGED <<current, loop, pinned, nextId, tx, events, row>>

UpgradeSucceeds(c) ==
    /\ conn[c].pc = "upgrading"
    /\ conn' = [conn EXCEPT ![c].pc = "handshaking"]
    /\ UNCHANGED <<current, loop, pinned, nextId, tx, events, row>>

HandshakeSucceeds(c) ==
    /\ conn[c].pc = "handshaking"
    /\ conn' = [conn EXCEPT ![c].pc = "mitm"]
    /\ UNCHANGED <<current, loop, pinned, nextId, tx, events, row>>

\* Faulty variants: the host is pinned in its displayed form, with the port; or
\* it is not pinned at all.
HandshakeFailsPinsDisplayHost(c) ==
    /\ conn[c].pc = "handshaking"
    /\ pinned' = [pinned EXCEPT ![conn[c].eng] = @ \cup {<<conn[c].host, "port">>}]
    /\ conn' = [conn EXCEPT ![c].pc = "refused"]
    /\ UNCHANGED <<current, loop, nextId, tx, events, row>>

HandshakeFailsForgets(c) ==
    /\ conn[c].pc = "handshaking"
    /\ conn' = [conn EXCEPT ![c].pc = "refused"]
    /\ UNCHANGED <<current, loop, pinned, nextId, tx, events, row>>

\* Any failure of accept() counts: a refused certificate, a hang-up, a
\* certificate that could not be minted.
HandshakeFails(c) ==
    /\ conn[c].pc = "handshaking"
    /\ pinned' = [pinned EXCEPT ![conn[c].eng] = @ \cup {conn[c].host}]
    /\ conn' = [conn EXCEPT ![c].pc = "refused"]
    /\ UNCHANGED <<current, loop, nextId, tx, events, row>>

RecordHandshakeFailure(c) ==
    /\ conn[c].pc = "refused"
    /\ Allocate(c, conn[c].host, "tunnel", TRUE, "none")
    /\ conn' = [conn EXCEPT ![c].pc = "closed"]
    /\ UNCHANGED <<current, loop, pinned, events, row>>

-----------------------------------------------------------------------------
(* Engine::handle *)

\* A request on a plain connection names its host; one inside a terminated
\* CONNECT is for the CONNECT's host.
Request(c, h) ==
    /\ \/ conn[c].pc = "open"
       \/ conn[c].pc = "mitm" /\ h = conn[c].host
    /\ Allocate(c, h, "http", FALSE, "open")
    /\ UNCHANGED <<current, loop, pinned, conn, events, row>>

\* Recorder::on_request; the request then waits for the upstream.
OnRequest(i) ==
    /\ tx[i].phase = "named"
    /\ tx[i].kind = "http"
    /\ Publish(i, "started")
    /\ tx' = [tx EXCEPT ![i].phase = "forwarding"]
    /\ UNCHANGED <<current, loop, pinned, conn, nextId, row>>

\* Engine::forward returns, Recorder::on_response publishes, and the finalize
\* task is spawned: no await lies between, so none of this is cancelled.
UpstreamResponds(i) ==
    /\ tx[i].phase = "forwarding"
    /\ tx' = [tx EXCEPT ![i].phase = "streaming", ![i].resp = "open"]
    /\ Publish(i, "updated")
    /\ UNCHANGED <<current, loop, pinned, conn, nextId, row>>

\* Faulty variant: the 502 is returned past the response interceptors.
UpstreamFailsUnobserved(i) ==
    /\ tx[i].phase = "forwarding"
    /\ tx' = [tx EXCEPT ![i].phase = "streaming", ![i].resp = "open",
                        ![i].error = TRUE, ![i].req = "ended"]
    /\ UNCHANGED <<current, loop, pinned, conn, nextId, events, row>>

\* The error is recorded, the request body is dropped with the request, and
\* the client gets a 502.
UpstreamFails(i) ==
    /\ tx[i].phase = "forwarding"
    /\ tx' = [tx EXCEPT ![i].phase = "streaming", ![i].resp = "open",
                        ![i].error = TRUE,
                        ![i].req = "ended"]
    /\ Publish(i, "updated")
    /\ UNCHANGED <<current, loop, pinned, conn, nextId, row>>

\* 101, an HTTP/1.1 answer, so the exchange has its connection to itself: both
\* bodies are empty, and the stream goes to a bridge task that records nothing.
\* It is detached and does not look at the watch.
UpstreamSwitches(i) ==
    /\ tx[i].phase = "forwarding"
    /\ \A j \in Ids \ {i} : tx[j].conn = tx[i].conn => ~Busy(j)
    /\ conn[tx[i].conn].pc \in {"open", "mitm"}
    /\ tx' = [tx EXCEPT ![i].phase = "streaming", ![i].kind = "ws-upgrade",
                        ![i].req = "ended", ![i].resp = "whole"]
    /\ conn' = [conn EXCEPT ![tx[i].conn].pc = "bridged"]
    /\ Publish(i, "updated")
    /\ UNCHANGED <<current, loop, pinned, nextId, row>>

\* An upgrade of the bridge fails, or its peers close: nothing else ends it.
BridgeEnds(c) ==
    /\ conn[c].pc = "bridged"
    /\ conn' = [conn EXCEPT ![c].pc = "closed"]
    /\ UNCHANGED <<current, loop, pinned, nextId, tx, events, row>>

\* The handle future is dropped while the upstream works: the connection is
\* gone, or (HTTP/2) the client reset the stream.  No finalize task exists yet.
DropExchange(i) ==
    /\ tx[i].phase = "forwarding"
    /\ tx' = [tx EXCEPT ![i].phase = "lost"]
    /\ UNCHANGED <<current, loop, pinned, conn, nextId, events, row>>

\* A teed body ends, fails in the middle, or is dropped by whoever reads it:
\* the capture is delivered in each case.
ReqBodyEnds(i) ==
    /\ tx[i].phase \in {"forwarding", "streaming"}
    /\ tx[i].req = "open"
    /\ tx' = [tx EXCEPT ![i].req = "ended"]
    /\ UNCHANGED <<current, loop, pinned, conn, nextId, events, row>>

RespBodyEnds(i, how) ==
    /\ tx[i].phase = "streaming"
    /\ tx[i].resp = "open"
    /\ tx' = [tx EXCEPT ![i].resp = how]
    /\ UNCHANGED <<current, loop, pinned, conn, nextId, events, row>>

\* The connection of transaction i is closed.
Orphaned(i) == tx[i].conn # NoConn /\ conn[tx[i].conn].pc = "closed"

\* What a closed connection still held of a transaction is dropped.
DropBodies(i) ==
    /\ Orphaned(i)
    /\ \/ ReqBodyEnds(i)
       \/ RespBodyEnds(i, "dropped")

\* Faulty variant: the finalize task waits for a response that was read whole.
FinalizeWhole(i) ==
    /\ tx[i].phase = "streaming"
    /\ tx[i].req # "open"
    /\ tx[i].resp = "whole"
    /\ tx' = [tx EXCEPT ![i].phase = "persisting"]
    /\ UNCHANGED <<current, loop, pinned, conn, nextId, events, row>>

\* The finalize task has both captures.
Finalize(i) ==
    /\ tx[i].phase = "streaming"
    /\ tx[i].req # "open"
    /\ tx[i].resp # "open"
    /\ tx' = [tx EXCEPT ![i].phase = "persisting"]
    /\ UNCHANGED <<current, loop, pinned, conn, nextId, events, row>>

-----------------------------------------------------------------------------
(* Engine::finish_transaction *)

StateOf(i) == IF tx[i].error THEN "failed" ELSE "completed"

\* store.insert returns; a failure is only logged.
StoreReplies(i, ok) ==
    /\ tx[i].phase = "persisting"
    /\ row' = [row EXCEPT ![i] = IF ok THEN StateOf(i) ELSE "refused"]
    /\ tx' = [tx EXCEPT ![i].phase = "persisted"]
    /\ UNCHANGED <<current, loop, pinned, conn, nextId, events>>

\* Faulty variant: the end is announced without waiting for the store.
CompleteEarly(i) ==
    /\ tx[i].phase \in {"persisting", "persisted"}
    /\ Publish(i, StateOf(i))
    /\ tx' = [tx EXCEPT ![i].phase = "done"]
    /\ UNCHANGED <<current, loop, pinned, conn, nextId, row>>

Complete(i) ==
    /\ tx[i].phase = "persisted"
    /\ Publish(i, StateOf(i))
    /\ tx' = [tx EXCEPT ![i].phase = "done"]
    /\ UNCHANGED <<current, loop, pinned, conn, nextId, row>>

-----------------------------------------------------------------------------

ConnStep(c) ==
    \/ Accept(c)
    \/ HangUp(c)
    \/ BridgeEnds(c)
    \/ \E h \in Hosts : ConnectTunnel(c, h)
    \/ \E h \in Hosts : ConnectMitm(c, h)
    \/ DialFails(c)
    \/ DialSucceeds(c)
    \/ UpgradeFails(c)
    \/ UpgradeSucceeds(c)
    \/ HandshakeSucceeds(c)
    \/ HandshakeFails(c)
    \/ RecordHandshakeFailure(c)
    \/ \E h \in Hosts : Request(c, h)

TxStep(i) ==
    \/ AnnounceTunnel(i)
    \/ TunnelCloses(i)
    \/ TunnelFails(i)
    \/ TunnelStopped(i)
    \/ OnRequest(i)
    \/ UpstreamResponds(i)
    \/ UpstreamFails(i)
    \/ UpstreamSwitches(i)
    \/ DropExchange(i)
    \/ ReqBodyEnds(i)
    \/ \E how \in {"whole", "broken", "dropped"} : RespBodyEnds(i, how)
    \/ Finalize(i)
    \/ \E ok \in BOOLEAN : StoreReplies(i, ok)
    \/ Complete(i)

Next ==
    \/ Start
    \/ Stop
    \/ LoopBreaks
    \/ \E c \in Conns : ConnStep(c)
    \/ \E i \in Ids : TxStep(i)

Spec == Init /\ [][Next]_vars

\* The runtime polls every task that can run, cancels what was aborted and
\* drops what a closed connection held; the store answers every insert.
\* Clients and upstreams owe nothing: they may stay silent for ever.
Fairness ==
    /\ WF_vars(LoopBreaks)
    /\ \A c \in Conns :
        /\ WF_vars(Cancelled(c) /\ HangUp(c))
        /\ WF_vars(RecordHandshakeFailure(c))
    /\ \A i \in Ids :
        /\ WF_vars(AnnounceTunnel(i))
        /\ WF_vars(TunnelStopped(i))
        /\ WF_vars(OnRequest(i))
        /\ WF_vars(Orphaned(i) /\ DropExchange(i))
        /\ WF_vars(DropBodies(i))
        /\ WF_vars(Finalize(i))
        /\ WF_vars(\E ok \in BOOLEAN : StoreReplies(i, ok))
        /\ WF_vars(Complete(i))

FairSpec == Spec /\ Fairness
-----------------------------------------------------------------------------
(* Properties *)

\* Every variable keeps its type.
TypeOK ==
    /\ current \in 0..MaxStarts
    /\ loop \in {"off", "accepting", "stopping"}
    /\ pinned \in [Engines -> SUBSET Hosts]
    /\ conn \in [Conns -> Conn]
    /\ nextId \in 1..(MaxTx + 1)
    /\ tx \in [Ids -> Tx]
    /\ events \in [Ids -> Seq({"started", "updated"} \cup FinalStates)]
    /\ row \in [Ids -> FinalStates \cup {"none", "refused"}]

Said(i, type) == \E k \in DOMAIN events[i] : events[i][k] = type
Final(i) == Said(i, "completed") \/ Said(i, "failed")

\* What observers of the bus are told about a transaction is one story with one
\* end: started first, then (HTTP only) updated, then one final state, which is
\* "failed" exactly when the transaction carries an error, whatever order the
\* upgrade, the upstream, a hang-up and a stop happened in.
Story(i) ==
    LET end    == IF tx[i].error THEN "failed" ELSE "completed"
        tunnel == tx[i].kind = "tunnel"
    IN  events[i] =
          CASE tx[i].phase \in {"free", "named"} -> <<>>
            [] tx[i].phase \in {"forwarding", "lost"} -> <<"started">>
            [] tx[i].phase = "done" -> IF tunnel THEN <<"started", end>>
                                                 ELSE <<"started", "updated", end>>
            [] OTHER -> IF tunnel THEN <<"started">>
                                  ELSE <<"started", "updated">>

OneStory == \A i \in Ids : Story(i)

\* finish_transaction awaits the store before it announces the end: a consumer
\* that fetches the detail of a transaction it saw complete finds the row, in
\* the state announced, unless the insert itself failed; and no row exists that
\* is not announced or about to be.
StoredWhenAnnounced ==
    \A i \in Ids :
        /\ Final(i) => tx[i].phase = "done" /\ row[i] \in {StateOf(i), "refused"}
        /\ row[i] # "none" => tx[i].phase \in {"persisted", "done"}

\* What consumers of the bus and the store see of transactions is what Recording
\* promises: each is answered for once and announced as over once, after that,
\* whatever connections, engines and stops do meanwhile (finish_transaction).
Unanswered(i) == ~Final(i) /\ row[i] = "none"

StageOf(i) ==
    CASE Final(i)                                -> "announced"
      [] ~Final(i) /\ row[i] # "none"            -> "answered"
      [] Unanswered(i) /\ tx[i].phase = "free"       -> "free"
      [] Unanswered(i) /\ tx[i].phase = "persisting" -> "sent"
      [] OTHER                                   -> "active"

Promise == INSTANCE Recording WITH
    stage   <- [i \in Ids |-> StageOf(i)],
    verdict <- [i \in Ids |-> IF row[i] \in FinalStates THEN "stored" ELSE row[i]]
PromiseSpec == Promise!Spec

\* Once the bus has shown host h tunnelled opaquely (configured, or because a
\* client refused the minted certificate: "it will be tunneled opaquely from now
\* on"), this engine intercepts no further CONNECT to h.
ShownOpaque(e, h) ==
    \E i \in Ids : /\ tx[i].kind = "tunnel"
                   /\ tx[i].eng = e
                   /\ tx[i].host = h
                   /\ events[i] # <<>>

PromiseKept ==
    [][\A c \in Conns :
        conn[c].pc = "open" /\ conn'[c].pc = "upgrading"
            => ~ShownOpaque(conn[c].eng, conn'[c].host)]_vars

\* The tunnel that connection c became has not been copied to its end.
Tunnelling(c) ==
    \E i \in Ids : /\ tx[i].conn = c
                   /\ tx[i].kind = "tunnel"
                   /\ tx[i].phase \in {"named", "tunnelling"}

\* Stopping the proxy drains it: every connection the stopped engine accepted is
\* closed and every tunnel cut, except what nothing cancels: a TLS upgrade or
\* handshake that a silent client leaves hanging, and a websocket, whose bridge
\* (copy_bidirectional in a detached task) never looks at the watch and lives as
\* long as its peers keep it open.  The last disjunct is the bound on ids.
StopDrains ==
    \A c \in Conns :
        conn[c].pc # "idle" /\ Stopping(conn[c].eng)
            ~> \/ conn[c].pc = "closed"
               \/ conn[c].pc = "handed over" /\ ~Tunnelling(c)
               \/ conn[c].pc \in {"upgrading", "handshaking", "bridged"}
               \/ conn[c].pc = "refused" /\ nextId > MaxTx

\* A transaction whose engine stops after it was answered (or its tunnel was
\* announced) is still finalized, stored and announced.
AnsweredIsRecorded ==
    \A i \in Ids :
        tx[i].phase \in {"streaming", "tunnelling"} /\ Stopping(tx[i].eng)
            ~> tx[i].phase = "done"

\* "Capture every request/response flowing through the proxy": an exchange that
\* was announced is recorded at the latest when its connection is gone.
EveryExchangeRecorded ==
    \A i \in Ids :
        tx[i].phase = "forwarding" /\ Orphaned(i) ~> tx[i].phase = "done"
=============================================================================
