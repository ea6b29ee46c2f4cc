------------------------------ MODULE Session -------------------------------
(***************************************************************************)
(* One run after another of the program as its commands see it: Controller *)
(* (crates/httpmate-core/src/controller.rs) starting and stopping the      *)
(* proxy behind the async mutex `running`, over the certificate authority  *)
(* and the settings (config.rs), which are a file and a copy in memory.    *)
(*                                                                         *)
(* Of the settings only the port is kept.  The engine is what the          *)
(* Controller sees of it: an accept loop with a listener, which ends some  *)
(* time after the watch flips, and handshakes that mint.  What stop does   *)
(* about the system proxy is in SystemProxy.                               *)
(***************************************************************************)
EXTENDS CertAuthority

CONSTANTS
    Callers,    \* commands of the interface that may be in flight at a time
    Savers,     \* those of them that save settings
    MaxPort     \* bound: ports

ASSUME SessionAssumption ==
    /\ Callers \subseteq Tasks
    /\ Savers \subseteq Callers
    /\ \A c, d \in Savers : c = d     \* the view saves once a start returned
    /\ MaxPort \in Nat \ {0}

VARIABLES
    settings,   \* the settings in memory
    file,       \* settings.json: the settings it holds, 0 or TornFile
    acked,      \* the settings last loaded, or saved with success
    spoilt,     \* has the last save failed?
    running,    \* port of the engine in `running`, 0 if there is none
    listening,  \* ports with a listener of this process
    stopping,   \* those whose accept loop was told to stop
    served,     \* has this process had a listener?
    ctl         \* ctl[c]: what command c is doing

savedVars == <<settings, file, acked, spoilt>>
proxyVars == <<running, listening, stopping, served>>
vars == <<caVars, savedVars, proxyVars, ctl>>

Ports    == 1..MaxPort
TornFile == MaxPort + 1
Default  == 1
Minters  == Tasks \ Callers

CtlPCs == {"idle", "starting", "ensuring", "binding", "stopping", "awaiting",
           "reporting", "writing", "storing"}

\* Faulty variant: stop keeps the guard while it asks for the status.
GuardedLong == {"ensuring", "binding", "awaiting", "reporting"}

\* The guard of `running` lives across these.
Guarded == {"ensuring", "binding", "awaiting"}

Unguarded == \A c \in Callers : ctl[c].pc \notin Guarded

NoCommand == [pc |-> "idle", arg |-> 0]

\* Faulty variant: a file that cannot be parsed is not replaced.
LoadedAnyway(f) == f

\* ProxySettings::load: a file that cannot be parsed counts as none.
Loaded(f) == IF f \in Ports THEN f ELSE Default

AllQuiet  == [c \in Callers |-> NoCommand]

Init ==
    /\ CAInit
    /\ file = 0
    /\ settings = Loaded(file)
    /\ acked = Loaded(file)
    /\ spoilt = FALSE
    /\ running = 0
    /\ listening = {}
    /\ stopping = {}
    /\ served = FALSE
    /\ ctl = AllQuiet

-----------------------------------------------------------------------------
(* start *)

Ready(c)       == ctl[c].pc = "idle" /\ task[c].pc = "idle"
Goes(c, pc, a) == ctl' = [ctl EXCEPT ![c] = [pc |-> pc, arg |-> a]]
Returns(c)     == Goes(c, "idle", 0)

\* p = 0: no port of its own.
Start(c, p) ==
    /\ Ready(c)
    /\ Goes(c, "starting", p)
    /\ UNCHANGED <<caVars, savedVars, proxyVars>>

\* Faulty variant: the CA is left to the first handshake.
StartLocksLazily(c) ==
    /\ ctl[c].pc = "starting"
    /\ Unguarded
    /\ IF running # 0 THEN Returns(c)
       ELSE Goes(c, "binding", IF ctl[c].arg = 0 THEN settings ELSE ctl[c].arg)
    /\ UNCHANGED <<caVars, savedVars, proxyVars>>

\* A proxy that runs is left alone.  The port given counts for this run only.
StartLocks(c) ==
    /\ ctl[c].pc = "starting"
    /\ Unguarded
    /\ IF running # 0
       THEN Returns(c) /\ UNCHANGED caVars
       ELSE /\ Goes(c, "ensuring", IF ctl[c].arg = 0 THEN settings ELSE ctl[c].arg)
            /\ Call(c, "ensure", {})
    /\ UNCHANGED <<savedVars, proxyVars>>

\* Faulty variant: a start that gets no CA is not answered.
StartEnsuredOnly(c) ==
    /\ ctl[c].pc = "ensuring"
    /\ Finish(c)
    /\ task[c].gen # 0
    /\ Goes(c, "binding", ctl[c].arg)
    /\ UNCHANGED <<savedVars, proxyVars>>

StartEnsured(c) ==
    /\ ctl[c].pc = "ensuring"
    /\ Finish(c)
    /\ IF task[c].gen # 0 THEN Goes(c, "binding", ctl[c].arg) ELSE Returns(c)
    /\ UNCHANGED <<savedVars, proxyVars>>

\* A port with a listener cannot be bound.
Bind(c) ==
    /\ ctl[c].pc = "binding"
    /\ IF ctl[c].arg \in listening
       THEN UNCHANGED <<running, listening, served>>
       ELSE /\ listening' = listening \cup {ctl[c].arg}
            /\ running' = ctl[c].arg
            /\ served' = TRUE
    /\ Returns(c)
    /\ UNCHANGED <<caVars, savedVars, stopping>>

\* No upstream client with these settings, or the port is another program's.
StartFails(c) ==
    /\ Faults
    /\ ctl[c].pc = "binding"
    /\ Returns(c)
    /\ UNCHANGED <<caVars, savedVars, proxyVars>>

-----------------------------------------------------------------------------
(* stop *)

Stop(c) ==
    /\ Ready(c)
    /\ Goes(c, "stopping", 0)
    /\ UNCHANGED <<caVars, savedVars, proxyVars>>

\* Faulty variant: nobody waits for the accept loop.
StopLocksHastily(c) ==
    /\ ctl[c].pc = "stopping"
    /\ Unguarded
    /\ stopping' = IF running = 0 THEN stopping ELSE stopping \cup {running}
    /\ Goes(c, "reporting", 0)
    /\ running' = 0
    /\ UNCHANGED <<caVars, savedVars, listening, served>>

StopLocks(c) ==
    /\ ctl[c].pc = "stopping"
    /\ Unguarded
    /\ IF running = 0
       THEN Goes(c, "reporting", 0) /\ UNCHANGED stopping
       ELSE Goes(c, "awaiting", running) /\ stopping' = stopping \cup {running}
    /\ running' = 0
    /\ UNCHANGED <<caVars, savedVars, listening, served>>

\* The accept loop breaks and drops its listener.
AcceptLoopEnds ==
    /\ \E p \in stopping :
          /\ listening' = listening \ {p}
          /\ stopping' = stopping \ {p}
    /\ UNCHANGED <<caVars, savedVars, running, served, ctl>>

StopAwaited(c) ==
    /\ ctl[c].pc = "awaiting"
    /\ ctl[c].arg \notin stopping
    /\ Goes(c, "reporting", 0)
    /\ UNCHANGED <<caVars, savedVars, proxyVars>>

\* status takes the mutex again.
Report(c) ==
    /\ ctl[c].pc = "reporting"
    /\ Unguarded
    /\ Returns(c)
    /\ UNCHANGED <<caVars, savedVars, proxyVars>>

-----------------------------------------------------------------------------
(* set_settings *)

\* Faulty variant: memory comes first.
SaveInMemoryFirst(c, v) ==
    /\ c \in Savers
    /\ Ready(c)
    /\ Goes(c, "writing", v)
    /\ settings' = v
    /\ UNCHANGED <<caVars, proxyVars, file, acked, spoilt>>

Save(c, v) ==
    /\ c \in Savers
    /\ Ready(c)
    /\ Goes(c, "writing", v)
    /\ UNCHANGED <<caVars, savedVars, proxyVars>>

WriteFile(c) ==
    /\ ctl[c].pc = "writing"
    /\ file' = ctl[c].arg
    /\ Goes(c, "storing", ctl[c].arg)
    /\ UNCHANGED <<caVars, proxyVars, settings, acked, spoilt>>

\* The file was truncated before it is written.
WriteFileFails(c) ==
    /\ Faults
    /\ ctl[c].pc = "writing"
    /\ file' \in {file, TornFile}
    /\ spoilt' = TRUE
    /\ Returns(c)
    /\ UNCHANGED <<caVars, proxyVars, settings, acked>>

StoreSettings(c) ==
    /\ ctl[c].pc = "storing"
    /\ settings' = ctl[c].arg
    /\ acked' = ctl[c].arg
    /\ spoilt' = FALSE
    /\ Returns(c)
    /\ UNCHANGED <<caVars, proxyVars, file>>

-----------------------------------------------------------------------------
(* The authority's other callers *)

\* export_ca and install_ca_trust, which take no lock of the Controller.
AskAuthority(c, op) ==
    /\ Ready(c)
    /\ Call(c, op, {})
    /\ UNCHANGED <<savedVars, proxyVars, ctl>>

\* MintResolver, in a handshake of a connection that was accepted.  The task of an
\* upgrade is detached: it may begin its handshake after the proxy was stopped.
Handshake(m, h) ==
    /\ served
    /\ Call(m, "mint", {h})
    /\ UNCHANGED <<savedVars, proxyVars, ctl>>

Answer(t) ==
    /\ t \in Callers => ctl[t].pc = "idle"
    /\ Finish(t)
    /\ UNCHANGED <<savedVars, proxyVars, ctl>>

AuthorityStep(t) ==
    /\ CAStep(t)
    /\ UNCHANGED <<savedVars, proxyVars, ctl>>

\* The program ends, at any time, and is launched again: Controller::new.
Relaunch ==
    /\ Restart
    /\ \/ file' = file
       \/ \E c \in Callers : ctl[c].pc = "writing" /\ file' \in {TornFile, ctl[c].arg}
    /\ settings' = Loaded(file')
    /\ acked' = Loaded(file')
    /\ spoilt' = FALSE
    /\ running' = 0
    /\ listening' = {}
    /\ stopping' = {}
    /\ served' = FALSE
    /\ ctl' = AllQuiet

UserStep ==
    /\ Outside
    /\ UNCHANGED <<savedVars, proxyVars, ctl>>

-----------------------------------------------------------------------------

Command(c) ==
    \/ \E p \in {0} \cup Ports : Start(c, p)
    \/ Stop(c)
    \/ \E v \in Ports : Save(c, v)
    \/ \E op \in {"export", "trust"} : AskAuthority(c, op)

CommandStep(c) ==
    \/ StartLocks(c)
    \/ StartEnsured(c)
    \/ Bind(c)
    \/ StartFails(c)
    \/ StopLocks(c)
    \/ StopAwaited(c)
    \/ Report(c)
    \/ WriteFile(c)
    \/ WriteFileFails(c)
    \/ StoreSettings(c)
    \/ AuthorityStep(c)
    \/ Answer(c)

HandshakeStep(m) == AuthorityStep(m) \/ Answer(m)

Next ==
    \/ \E c \in Callers : Command(c) \/ CommandStep(c)
    \/ \E m \in Minters, h \in Hosts : Handshake(m, h)
    \/ \E m \in Minters : HandshakeStep(m)
    \/ AcceptLoopEnds
    \/ UserStep
    \/ Relaunch

Spec == Init /\ [][Next]_vars

-----------------------------------------------------------------------------
(* Safety *)

TypeOK ==
    /\ CATypeOK
    /\ settings \in Ports
    /\ file \in 0..TornFile
    /\ acked \in Ports
    /\ spoilt \in BOOLEAN
    /\ running \in 0..MaxPort
    /\ listening \in SUBSET Ports
    /\ stopping \in SUBSET Ports
    /\ served \in BOOLEAN
    /\ ctl \in [Callers -> [pc : CtlPCs, arg : 0..MaxPort]]

\* There is one listener at most, `running` says which, and a start never finds
\* the port taken by the proxy that was stopped before it (stop awaits the
\* accept loop while it holds `running`).
OneListener ==
    /\ running # 0 => listening = {running}
    /\ \A c \in Callers : ctl[c].pc = "binding" => listening = {}

\* A handshake finds the CA loaded: no client waits for the secret store, and
\* none is refused, and its host pinned for passthrough, because of a file (the
\* ensure_ca in start).
HandshakeNeverLoads ==
    \A m \in Minters :
        /\ task[m].pc \notin Holding
        /\ task[m].pc = "ensuring" => inner # 0

\* Between saves, the settings in memory are those last acknowledged, and the
\* next launch will load the same unless the last save failed: through failed
\* and interrupted writes and relaunches (set_settings, load, save).
SavedIsKept ==
    (\A c \in Savers : ctl[c].pc \notin {"writing", "storing"}) =>
        /\ settings = acked
        /\ ~spoilt => Loaded(file) = settings

\* What is not held up by a lock or by the accept loop.
TaskGoes(t) ==
    \/ task[t].pc \in Holding \cup {"looking", "exporting", "trusting"}
    \/ task[t].pc \in {"ensuring", "minting"} /\ Free
    \/ task[t].pc = "done" /\ (t \in Callers => ctl[t].pc \in {"idle", "ensuring"})

CommandGoes(c) ==
    \/ ctl[c].pc \in {"starting", "stopping", "reporting"} /\ Unguarded
    \/ ctl[c].pc \in {"binding", "writing", "storing"}
    \/ ctl[c].pc = "awaiting" /\ ctl[c].arg \notin stopping

\* A call of the authority takes its next step, or the holder of its lock does.
CallMoves(t) == \E u \in Tasks : (u = t \/ task[u].pc \in Holding) /\ TaskGoes(u)

\* A command does, or its call, or the accept loop that it waits for.
CommandMoves(c) ==
    \/ CommandGoes(c)
    \/ ctl[c].pc \in {"idle", "ensuring"} /\ CallMoves(c)
    \/ ctl[c].pc = "awaiting" /\ ctl[c].arg \in stopping

\* Whoever waits, waits for somebody else who is on the move: no stop waits for
\* itself (it drops its guard before it asks for the status), no start behind
\* a stop that waits for it, and no handshake behind a holder of the authority
\* that needs the Controller (the authority takes no lock but its own).
NoDeadlock ==
    /\ \A c \in Callers : ~Ready(c) =>
          \/ CommandMoves(c)
          \/ \E d \in Callers \ {c} : ctl[d].pc \in Guarded /\ CommandMoves(d)
    /\ \A m \in Minters : task[m].pc # "idle" => CallMoves(m)

\* And what is on the move has a step to take, on every path of the code: no
\* failure of a file, a secret or a port leaves a command, or a handshake,
\* unanswered (the ? returns of start, set_settings and the authority).
EveryPathGoesOn ==
    /\ stopping # {} => ENABLED AcceptLoopEnds
    /\ \A c \in Callers : CommandGoes(c) \/ TaskGoes(c) => ENABLED CommandStep(c)
    /\ \A m \in Minters : TaskGoes(m) => ENABLED HandshakeStep(m)
=============================================================================
