---------------------------- MODULE SessionProofs ---------------------------
(***************************************************************************)
(* The Controller over the certificate authority: what it does to the      *)
(* authority is what CertAuthority allows, so what is proved there holds   *)
(* here; and its own promises hold for any number of commands, handshakes, *)
(* hosts and ports.                                                        *)
(*                                                                         *)
(* The invariant follows the guard of `running`: whoever holds it knows    *)
(* what listens, and when nobody does, `running` says it.                  *)
(***************************************************************************)
EXTENDS Session, CertAuthorityProofs

\* Every step of the Controller is a step of the authority, or none of its.
LEMMA StepIsAuthoritys == [Next]_vars => [CANext]_caVars
<1> SUFFICES ASSUME [Next]_vars PROVE [CANext]_caVars
  OBVIOUS
<1> USE SessionAssumption
<1>0. ASSUME NEW t \in Tasks, CAStep(t) \/ Finish(t) PROVE CANext
  BY <1>0 DEF CANext
<1>1. ASSUME NEW t \in Tasks, NEW op \in Ops \ {"mint"}, Call(t, op, {}) PROVE CANext
  BY <1>1 DEF CANext
<1>2. ASSUME NEW c \in Callers, Command(c) PROVE [CANext]_caVars
  <2>1. ASSUME NEW op \in {"export", "trust"}, AskAuthority(c, op) PROVE CANext
    <3>1. c \in Tasks /\ op \in Ops \ {"mint"} /\ Call(c, op, {})
      BY <2>1 DEF AskAuthority, Ops
    <3> QED
      BY <3>1, <1>1
  <2> QED
    BY <1>2, <2>1 DEF Command, Start, Stop, Save
<1>3. ASSUME NEW c \in Callers, CommandStep(c) PROVE [CANext]_caVars
  <2>1. CASE StartLocks(c)
    <3>1. "ensure" \in Ops \ {"mint"} /\ c \in Tasks
      BY DEF Ops
    <3> QED
      BY <2>1, <3>1, <1>1 DEF StartLocks
  <2>2. CASE StartEnsured(c) \/ AuthorityStep(c) \/ Answer(c)
    BY <2>2, <1>0 DEF StartEnsured, AuthorityStep, Answer
  <2>3. CASE \/ Bind(c) \/ StartFails(c) \/ StopLocks(c) \/ StopAwaited(c) \/ Report(c)
             \/ WriteFile(c) \/ WriteFileFails(c) \/ StoreSettings(c)
    BY <2>3 DEF Bind, StartFails, StopLocks, StopAwaited, Report, WriteFile, WriteFileFails,
       StoreSettings
  <2> QED
    BY <1>3, <2>1, <2>2, <2>3 DEF CommandStep
<1>4. ASSUME NEW m \in Minters, NEW h \in Hosts, Handshake(m, h) PROVE CANext
  BY <1>4 DEF Handshake, CANext, Minters
<1>5. ASSUME NEW m \in Minters, HandshakeStep(m) PROVE CANext
  BY <1>5, <1>0 DEF HandshakeStep, AuthorityStep, Answer, Minters
<1>6. CASE AcceptLoopEnds
  BY <1>6 DEF AcceptLoopEnds
<1>7. CASE UserStep \/ Relaunch
  BY <1>7 DEF UserStep, Relaunch, CANext
<1>8. CASE UNCHANGED vars
  BY <1>8 DEF vars
<1> QED
  BY <1>2, <1>3, <1>4, <1>5, <1>6, <1>7, <1>8 DEF Next

\* The program uses the certificate authority as CertAuthority says it is used.
THEOREM ImplementsTheorem == Spec => CASpec
<1>1. Init => CAInit
  BY DEF Init
<1> QED
  BY <1>1, StepIsAuthoritys, PTL DEF Spec, CASpec

\* So its promises hold: see CertAuthorityProofs.
THEOREM SessionAuthorityTheorem == Spec => [](KeyBehindCert /\ LeavesChain /\ GivenIsSigner)
BY ImplementsTheorem, AuthorityTheorem, CAInvImplies, PTL

-----------------------------------------------------------------------------
(* Types *)

\* What a command was asked for, once it is asked.
ArgOK(c) ==
    /\ ctl[c].pc = "starting" => ctl[c].arg \in {0} \cup Ports
    /\ ctl[c].pc \in {"ensuring", "binding"} => ctl[c].arg \in Ports
    /\ ctl[c].pc \in {"writing", "storing"} => c \in Savers /\ ctl[c].arg \in Ports

SessionType ==
    /\ settings \in Ports
    /\ file \in 0..TornFile
    /\ acked \in Ports
    /\ spoilt \in BOOLEAN
    /\ running \in {0} \cup Ports
    /\ listening \subseteq Ports
    /\ stopping \subseteq Ports
    /\ served \in BOOLEAN
    /\ ctl \in [Callers -> [pc : CtlPCs, arg : 0..MaxPort]]
    /\ \A c \in Callers : ArgOK(c)

LEMMA PortsOK ==
    /\ Ports \subseteq 0..MaxPort /\ 0 \in 0..MaxPort
    /\ 0..MaxPort = {0} \cup Ports
    /\ Default \in Ports
    /\ Ports \subseteq 0..TornFile /\ TornFile \in 0..TornFile /\ 0 \in 0..TornFile
BY SessionAssumption DEF Ports, Default, TornFile

\* Default comes to the rescue whatever the file holds.
LEMMA LoadedOK == \A f : Loaded(f) \in Ports
BY PortsOK DEF Loaded

LEMMA SessionTypeInit == Init => SessionType
<1> SUFFICES ASSUME Init PROVE SessionType
  OBVIOUS
<1>1. ctl \in [Callers -> [pc : CtlPCs, arg : 0..MaxPort]]
  BY PortsOK DEF Init, AllQuiet, NoCommand, CtlPCs
<1>2. ASSUME NEW c \in Callers PROVE ArgOK(c)
  BY <1>2 DEF Init, ArgOK, AllQuiet, NoCommand
<1> QED
  BY <1>1, <1>2, PortsOK, LoadedOK DEF Init, SessionType

LEMMA SessionTypeNext == SessionType /\ [Next]_vars => SessionType'
<1> SUFFICES ASSUME SessionType, [Next]_vars PROVE SessionType'
  OBVIOUS
<1> USE SessionAssumption, PortsOK, LoadedOK DEF SessionType, ArgOK, CtlPCs
<1>2. ASSUME UNCHANGED <<savedVars, proxyVars, ctl>> PROVE SessionType'
  BY <1>2 DEF savedVars, proxyVars
<1>3. ASSUME NEW c \in Callers, Command(c) PROVE SessionType'
  <2>1. ASSUME NEW p \in {0} \cup Ports, Start(c, p) PROVE SessionType'
    BY <2>1 DEF Start, Goes, savedVars, proxyVars
  <2>2. CASE Stop(c)
    BY <2>2 DEF Stop, Goes, savedVars, proxyVars
  <2>3. ASSUME NEW v \in Ports, Save(c, v) PROVE SessionType'
    BY <2>3 DEF Save, Goes, savedVars, proxyVars
  <2>4. ASSUME NEW op \in {"export", "trust"}, AskAuthority(c, op) PROVE SessionType'
    BY <2>4, <1>2 DEF AskAuthority
  <2> QED
    BY <1>3, <2>1, <2>2, <2>3, <2>4 DEF Command
<1>4. ASSUME NEW c \in Callers, CommandStep(c) PROVE SessionType'
  <2>1. CASE StartLocks(c)
    BY <2>1 DEF StartLocks, Returns, Goes, savedVars, proxyVars
  <2>2. CASE StartEnsured(c)
    BY <2>2 DEF StartEnsured, Returns, Goes, savedVars, proxyVars
  <2>3. CASE Bind(c)
    <3>1. ctl[c].arg \in Ports
      BY <2>3 DEF Bind
    <3> QED
      BY <2>3, <3>1 DEF Bind, Returns, Goes, savedVars
  <2>10. CASE StartFails(c)
    BY <2>10 DEF StartFails, Returns, Goes, savedVars, proxyVars
  <2>4. CASE StopLocks(c)
    <3>1. running' = 0 /\ stopping' \subseteq Ports /\ listening' = listening /\ served' = served
      BY <2>4 DEF StopLocks
    <3>2. \E q \in {"reporting", "awaiting"}, a \in 0..MaxPort : Goes(c, q, a)
      BY <2>4 DEF StopLocks
    <3> QED
      BY <2>4, <3>1, <3>2 DEF StopLocks, Goes, savedVars
  <2>5. CASE StopAwaited(c)
    BY <2>5 DEF StopAwaited, Goes, savedVars, proxyVars
  <2>11. CASE Report(c)
    BY <2>11 DEF Report, Returns, Goes, savedVars, proxyVars
  <2>6. CASE WriteFile(c)
    BY <2>6 DEF WriteFile, Goes, proxyVars
  <2>7. CASE WriteFileFails(c)
    BY <2>7 DEF WriteFileFails, Returns, Goes, proxyVars
  <2>8. CASE StoreSettings(c)
    BY <2>8 DEF StoreSettings, Returns, Goes, proxyVars
  <2>9. CASE AuthorityStep(c) \/ Answer(c)
    BY <2>9, <1>2 DEF AuthorityStep, Answer
  <2> QED
    BY <1>4, <2>1, <2>2, <2>3, <2>4, <2>5, <2>6, <2>7, <2>8, <2>9, <2>10, <2>11 DEF CommandStep
<1>5. CASE Relaunch
  BY <1>5 DEF Relaunch, AllQuiet, NoCommand
<1>6. CASE UserStep
  BY <1>6, <1>2 DEF UserStep
<1>7. ASSUME NEW m \in Minters, NEW h \in Hosts, Handshake(m, h) PROVE SessionType'
  BY <1>7, <1>2 DEF Handshake
<1>8. ASSUME NEW m \in Minters, HandshakeStep(m) PROVE SessionType'
  BY <1>8, <1>2 DEF HandshakeStep, AuthorityStep, Answer
<1>9. CASE UNCHANGED vars
  BY <1>9, <1>2 DEF vars
<1>10. CASE AcceptLoopEnds
  BY <1>10 DEF AcceptLoopEnds, savedVars
<1> QED
  BY <1>3, <1>4, <1>5, <1>6, <1>7, <1>8, <1>9, <1>10 DEF Next

\* Every variable keeps its type, for any number of commands and ports.
THEOREM SessionTypeTheorem == Spec => []TypeOK
<1>1. SessionType /\ CATypeOK => TypeOK
  BY PortsOK DEF SessionType, TypeOK
<1>2. CAInv => CATypeOK
  BY DEF CAInv
<1> QED
  BY <1>1, <1>2, SessionTypeInit, SessionTypeNext, ImplementsTheorem, AuthorityTheorem, PTL DEF Spec

-----------------------------------------------------------------------------
(* The settings *)

\* The file is what the saver stores next; else it is what memory holds, unless
\* the last write failed.
SavedInv ==
    /\ settings = acked
    /\ \A c \in Callers : ctl[c].pc = "storing" => file = ctl[c].arg
    /\ (\A c \in Callers : ctl[c].pc # "storing") /\ ~spoilt => Loaded(file) = settings

LEMMA SavedInvInit == Init => SavedInv
BY DEF Init, SavedInv, AllQuiet, NoCommand

LEMMA SavedInvNext == SessionType /\ SavedInv /\ [Next]_vars => SavedInv'
<1> SUFFICES ASSUME SessionType, SavedInv, [Next]_vars PROVE SavedInv'
  OBVIOUS
<1> USE SessionAssumption DEF SavedInv
<1>0. ctl \in [Callers -> [pc : CtlPCs, arg : 0..MaxPort]]
  BY DEF SessionType
\* A command that is no saver's writing moves on.
<1>1. ASSUME NEW c \in Callers, NEW q, NEW a, ctl[c].pc # "storing", q # "storing",
             Goes(c, q, a), UNCHANGED savedVars
      PROVE SavedInv'
  BY <1>0, <1>1 DEF Goes, savedVars
<1>2. ASSUME UNCHANGED <<savedVars, ctl>> PROVE SavedInv'
  BY <1>2 DEF savedVars
<1>3. ASSUME NEW c \in Callers, Command(c) PROVE SavedInv'
  BY <1>1, <1>2, <1>3 DEF Command, Start, Stop, Save, AskAuthority, Ready
<1>4. ASSUME NEW c \in Callers, CommandStep(c) PROVE SavedInv'
  <2>1. CASE StartLocks(c) \/ StartEnsured(c)
    BY <2>1, <1>1 DEF StartLocks, StartEnsured, Returns
  <2>2. CASE Bind(c) \/ StartFails(c)
    BY <2>2, <1>1 DEF Bind, StartFails, Returns
  <2>3. CASE StopLocks(c) \/ StopAwaited(c) \/ Report(c)
    BY <2>3, <1>1 DEF StopLocks, StopAwaited, Report, Returns
  <2>4. ASSUME NEW d \in Callers, d # c, ctl[c].pc \in {"writing", "storing"}
        PROVE ctl[d].pc # "storing"
    BY <2>4 DEF SessionType, ArgOK
  <2>5. CASE WriteFile(c)
    BY <2>4, <2>5, <1>0 DEF WriteFile, Goes
  <2>6. CASE WriteFileFails(c)
    BY <2>4, <2>6, <1>0 DEF WriteFileFails, Returns, Goes
  <2>7. CASE StoreSettings(c)
    BY <2>4, <2>7, <1>0 DEF StoreSettings, Returns, Goes, Loaded, SessionType, ArgOK
  <2>8. CASE AuthorityStep(c) \/ Answer(c)
    BY <2>8, <1>2 DEF AuthorityStep, Answer
  <2> QED
    BY <1>4, <2>1, <2>2, <2>3, <2>5, <2>6, <2>7, <2>8 DEF CommandStep
<1>5. CASE Relaunch
  BY <1>5 DEF Relaunch, AllQuiet, NoCommand
<1>6. CASE UserStep \/ AcceptLoopEnds
  BY <1>6, <1>2 DEF UserStep, AcceptLoopEnds
<1>7. ASSUME NEW m \in Minters, NEW h \in Hosts, Handshake(m, h) PROVE SavedInv'
  BY <1>7, <1>2 DEF Handshake
<1>8. ASSUME NEW m \in Minters, HandshakeStep(m) PROVE SavedInv'
  BY <1>8, <1>2 DEF HandshakeStep, AuthorityStep, Answer
<1>9. CASE UNCHANGED vars
  BY <1>9, <1>2 DEF vars
<1> QED
  BY <1>3, <1>4, <1>5, <1>6, <1>7, <1>8, <1>9 DEF Next

\* However saves, failures and relaunches follow one another, what was
\* acknowledged is in memory and is what the next launch loads.
THEOREM SavedIsKeptTheorem == Spec => []SavedIsKept
<1>1. SessionType /\ SavedInv => SavedIsKept
  BY DEF SavedInv, SavedIsKept, SessionType, ArgOK
<1> QED
  BY <1>1, SessionTypeInit, SessionTypeNext, SavedInvInit, SavedInvNext, PTL DEF Spec

-----------------------------------------------------------------------------
(* The listener *)

\* What the holder of the guard of `running` knows, and what `running` says when
\* nobody holds it.
ProxyInv ==
    /\ \A c, d \in Callers : ctl[c].pc \in Guarded /\ ctl[d].pc \in Guarded => c = d
    /\ \A c \in Callers : ctl[c].pc \in {"ensuring", "binding"} =>
          running = 0 /\ listening = {} /\ stopping = {}
    /\ \A c \in Callers : ctl[c].pc = "awaiting" =>
          running = 0 /\ listening = stopping /\ stopping \subseteq {ctl[c].arg}
    /\ Unguarded => stopping = {} /\ listening = {running} \ {0}

LEMMA ProxyInvInit == Init => ProxyInv
BY DEF Init, ProxyInv, AllQuiet, NoCommand, Guarded, Unguarded

LEMMA ProxyInvNext == SessionType /\ ProxyInv /\ [Next]_vars => ProxyInv'
<1> SUFFICES ASSUME SessionType, ProxyInv, [Next]_vars PROVE ProxyInv'
  OBVIOUS
<1> USE SessionAssumption DEF ProxyInv, Guarded, Unguarded
<1>0. ctl \in [Callers -> [pc : CtlPCs, arg : 0..MaxPort]] /\ 0 \notin Ports
  BY DEF SessionType, Ports
\* A command outside the guard moves on outside of it.
<1>1. ASSUME NEW c \in Callers, NEW q, NEW a, ctl[c].pc \notin Guarded, q \notin Guarded,
             Goes(c, q, a), UNCHANGED proxyVars
      PROVE ProxyInv'
  BY <1>0, <1>1 DEF Goes, proxyVars
<1>2. ASSUME UNCHANGED <<proxyVars, ctl>> PROVE ProxyInv'
  BY <1>2 DEF proxyVars
<1>3. ASSUME NEW c \in Callers, Command(c) PROVE ProxyInv'
  BY <1>1, <1>2, <1>3 DEF Command, Start, Stop, Save, AskAuthority, Ready
<1>4. ASSUME NEW c \in Callers, CommandStep(c) PROVE ProxyInv'
  <2>1. CASE StartLocks(c)
    BY <2>1, <1>0 DEF StartLocks, Returns, Goes, proxyVars
  <2>2. CASE StartEnsured(c) \/ StartFails(c)
    BY <2>2, <1>0 DEF StartEnsured, StartFails, Returns, Goes, proxyVars
  <2>3. CASE Bind(c)
    <3>1. ctl[c].arg \in Ports /\ ctl[c].arg # 0
      BY <2>3, <1>0 DEF Bind, SessionType, ArgOK
    <3>2. listening' = {ctl[c].arg} /\ running' = ctl[c].arg /\ stopping' = {}
      BY <2>3 DEF Bind
    <3> QED
      BY <2>3, <3>1, <3>2, <1>0 DEF Bind, Returns, Goes
  <2>4. CASE StopLocks(c)
    <3>1. CASE running = 0
      BY <2>4, <3>1, <1>0 DEF StopLocks, Goes
    <3>2. CASE running # 0
      <4>1. listening' = {running} /\ stopping' = {running} /\ running' = 0
        BY <2>4, <3>2 DEF StopLocks
      <4>2. ctl' = [ctl EXCEPT ![c] = [pc |-> "awaiting", arg |-> running]]
        BY <2>4, <3>2 DEF StopLocks, Goes
      <4> QED
        BY <2>4, <4>1, <4>2, <1>0 DEF StopLocks
    <3> QED
      BY <3>1, <3>2
  <2>5. CASE StopAwaited(c)
    <3>1. stopping = {} /\ listening = {} /\ running = 0
      BY <2>5 DEF StopAwaited
    <3> QED
      BY <2>5, <3>1, <1>0 DEF StopAwaited, Goes, proxyVars
  <2>6. CASE Report(c)
    BY <2>6, <1>1 DEF Report, Returns
  <2>7. CASE WriteFile(c) \/ WriteFileFails(c) \/ StoreSettings(c)
    BY <2>7, <1>1 DEF WriteFile, WriteFileFails, StoreSettings, Returns
  <2>8. CASE AuthorityStep(c) \/ Answer(c)
    BY <2>8, <1>2 DEF AuthorityStep, Answer
  <2> QED
    BY <1>4, <2>1, <2>2, <2>3, <2>4, <2>5, <2>6, <2>7, <2>8 DEF CommandStep
<1>5. CASE Relaunch
  BY <1>5 DEF Relaunch, AllQuiet, NoCommand
<1>6. CASE AcceptLoopEnds
  BY <1>6 DEF AcceptLoopEnds
<1>7. ASSUME NEW m \in Minters, NEW h \in Hosts, Handshake(m, h) PROVE ProxyInv'
  BY <1>7, <1>2 DEF Handshake
<1>8. ASSUME NEW m \in Minters, HandshakeStep(m) PROVE ProxyInv'
  BY <1>8, <1>2 DEF HandshakeStep, AuthorityStep, Answer
<1>9. CASE UserStep \/ UNCHANGED vars
  BY <1>9, <1>2 DEF UserStep, vars
<1> QED
  BY <1>3, <1>4, <1>5, <1>6, <1>7, <1>8, <1>9 DEF Next

\* Whatever starts and stops overlap, on any ports: never two listeners, and no
\* start that finds its port taken by the proxy before it.
THEOREM OneListenerTheorem == Spec => []OneListener
<1>1. SessionType /\ ProxyInv => OneListener
  <2> SUFFICES ASSUME SessionType, ProxyInv PROVE OneListener
    OBVIOUS
  <2>1. ASSUME running # 0 PROVE listening = {running}
    BY <2>1 DEF ProxyInv, Guarded, Unguarded
  <2> QED
    BY <2>1 DEF OneListener, ProxyInv
<1> QED
  BY <1>1, SessionTypeInit, SessionTypeNext, ProxyInvInit, ProxyInvNext, PTL DEF Spec

-----------------------------------------------------------------------------
(* Handshakes and the CA *)

\* The CA is loaded before anything listens, and stays when nothing does any more.
LoadedInv ==
    /\ \A c \in Callers : ctl[c].pc = "binding" => inner # 0
    /\ served => inner # 0
    /\ \A m \in Minters : task[m].pc # "idle" => inner # 0

LEMMA InnerStays ==
    ASSUME CAInv, inner # 0, NEW t \in Tasks, CAStep(t)
    PROVE  inner' # 0
<1> USE AuthorityAssumption DEF Gens
<1>1. CASE Ensure(t)
  BY <1>1 DEF Ensure, Ensured
<1>2. CASE WriteCert(t)
  BY <1>2 DEF WriteCert, CAInv, MakerInv
<1> QED
  BY <1>1, <1>2 DEF CAStep, SetKey, Export, Trust, Lookup, Mint, Breaks

\* A task at work is not idle, and works on nobody else's.
LEMMA StepIsOwn ==
    ASSUME CAInv, NEW t \in Tasks, CAStep(t)
    PROVE  /\ task[t].pc # "idle"
           /\ \A u \in Tasks \ {t} : task'[u] = task[u]
<1> USE DEF Moves, Ends, Fails, Ensured
<1>0. task \in [Tasks -> Task]
  BY DEF CAInv, CATypeOK
<1>1. CASE Ensure(t) \/ SetKey(t) \/ WriteCert(t)
  BY <1>0, <1>1 DEF Ensure, SetKey, WriteCert, Load
<1>2. CASE Export(t) \/ Trust(t) \/ Lookup(t) \/ Mint(t) \/ Breaks(t)
  BY <1>0, <1>2 DEF Export, Trust, Lookup, Mint, Breaks
<1> QED
  BY <1>1, <1>2 DEF CAStep

LEMMA LoadedInvInit == Init => LoadedInv
BY DEF Init, LoadedInv, AllQuiet, NoCommand, CAInit, AllIdle, Idle, Minters

LEMMA LoadedInvNext == SessionType /\ CAInv /\ LoadedInv /\ [Next]_vars => LoadedInv'
<1> SUFFICES ASSUME SessionType, CAInv, LoadedInv, [Next]_vars PROVE LoadedInv'
  OBVIOUS
<1> USE SessionAssumption DEF LoadedInv, Minters
<1>0. /\ ctl \in [Callers -> [pc : CtlPCs, arg : 0..MaxPort]]
      /\ task \in [Tasks -> Task]
  BY DEF SessionType, CAInv, CATypeOK
\* A command that binds nothing moves on.
<1>1. ASSUME NEW c \in Callers, NEW q, NEW a, q # "binding", Goes(c, q, a),
             UNCHANGED <<inner, task, served>>
      PROVE LoadedInv'
  BY <1>0, <1>1 DEF Goes
<1>2. ASSUME NEW t \in Tasks, AuthorityStep(t) PROVE LoadedInv'
  BY <1>2, InnerStays, StepIsOwn DEF AuthorityStep, proxyVars
<1>3. ASSUME NEW t \in Tasks, Answer(t) PROVE LoadedInv'
  BY <1>0, <1>3 DEF Answer, Finish, Idle, proxyVars
<1>4. ASSUME NEW c \in Callers, Command(c) PROVE LoadedInv'
  <2>1. ASSUME NEW op \in {"export", "trust"}, AskAuthority(c, op) PROVE LoadedInv'
    BY <1>0, <2>1 DEF AskAuthority, Call, proxyVars
  <2> QED
    BY <1>4, <1>1, <2>1 DEF Command, Start, Stop, Save, caVars, proxyVars
<1>5. ASSUME NEW c \in Callers, CommandStep(c) PROVE LoadedInv'
  <2>1. CASE StartLocks(c)
    <3>1. CASE running # 0
      BY <2>1, <3>1, <1>1 DEF StartLocks, Returns, caVars, proxyVars
    <3>2. CASE running = 0
      BY <2>1, <3>2, <1>0 DEF StartLocks, Goes, Call, proxyVars
    <3> QED
      BY <3>1, <3>2, <2>1 DEF StartLocks
  <2>2. CASE StartEnsured(c)
    <3>1. task[c].gen # 0 => inner # 0
      BY <2>2 DEF StartEnsured, Finish, CAInv, UserInv
    <3> QED
      BY <2>2, <3>1, <1>0 DEF StartEnsured, Finish, Idle, Returns, Goes, proxyVars
  <2>3. CASE Bind(c)
    BY <2>3, <1>0 DEF Bind, Returns, Goes, caVars
  <2>4. CASE StartFails(c) \/ StopLocks(c) \/ StopAwaited(c) \/ Report(c)
    BY <2>4, <1>1 DEF StartFails, StopLocks, StopAwaited, Report, Returns, caVars, proxyVars
  <2>5. CASE WriteFile(c) \/ WriteFileFails(c) \/ StoreSettings(c)
    BY <2>5, <1>1 DEF WriteFile, WriteFileFails, StoreSettings, Returns, caVars, proxyVars
  <2> QED
    BY <1>5, <1>2, <1>3, <2>1, <2>2, <2>3, <2>4, <2>5 DEF CommandStep
<1>6. CASE Relaunch
  BY <1>6 DEF Relaunch, Restart, AllIdle, Idle, AllQuiet, NoCommand
<1>7. CASE AcceptLoopEnds
  BY <1>7 DEF AcceptLoopEnds, caVars
<1>8. ASSUME NEW m \in Minters, NEW h \in Hosts, Handshake(m, h) PROVE LoadedInv'
  BY <1>0, <1>8 DEF Handshake, Call, proxyVars
<1>9. ASSUME NEW m \in Minters, HandshakeStep(m) PROVE LoadedInv'
  BY <1>2, <1>3, <1>9 DEF HandshakeStep
<1>10. CASE UserStep
  BY <1>10 DEF UserStep, Outside, DeleteCert, LoseKey, proxyVars
<1>11. CASE UNCHANGED vars
  BY <1>11 DEF vars, caVars, proxyVars
<1> QED
  BY <1>4, <1>5, <1>6, <1>7, <1>8, <1>9, <1>10, <1>11 DEF Next

\* Whatever fails and whatever the user does to the files, a handshake finds the
\* CA in memory.
THEOREM HandshakeNeverLoadsTheorem == Spec => []HandshakeNeverLoads
<1>1. CAInv /\ LoadedInv => HandshakeNeverLoads
  BY DEF CAInv, MakerInv, LoadedInv, HandshakeNeverLoads, Minters, Holding
<1> QED
  BY <1>1, SessionTypeInit, SessionTypeNext, LoadedInvInit, LoadedInvNext, ImplementsTheorem,
     AuthorityTheorem, PTL DEF Spec
-----------------------------------------------------------------------------
(* Who waits for whom *)

\* A command of the Controller that calls the authority waits for its answer,
\* and no other command of the Controller has a call open.
OpenInv ==
    /\ \A c \in Callers : task[c].pc # "idle" => ctl[c].pc \in {"idle", "ensuring"}
    /\ \A c \in Callers : ctl[c].pc = "ensuring" => task[c].pc # "idle"

\* A call goes on until it is done.
LEMMA StepIsNoEnd ==
    ASSUME CAInv, NEW t \in Tasks, CAStep(t)
    PROVE  task'[t].pc # "idle"
<1>0. task \in [Tasks -> Task] /\ task[t] \in Task /\ task[t].op \in Ops
  BY DEF CAInv, CATypeOK, Task
<1>1. ASSUME NEW pc, NEW g, pc # "idle", Moves(t, pc, g) PROVE task'[t].pc # "idle"
  BY <1>0, <1>1 DEF Moves, Task
<1>2. ASSUME NEW g, Ensured(t, g) PROVE task'[t].pc # "idle"
  <2>1. AfterEnsure[task[t].op] # "idle"
    BY <1>0 DEF AfterEnsure, Ops
  <2> QED
    BY <1>1, <1>2, <2>1 DEF Ensured
<1>3. CASE Ensure(t) \/ SetKey(t) \/ WriteCert(t)
  BY <1>1, <1>2, <1>3 DEF Ensure, SetKey, WriteCert, Load, Fails, Ends
<1>4. CASE Export(t) \/ Trust(t) \/ Lookup(t) \/ Mint(t) \/ Breaks(t)
  BY <1>1, <1>4 DEF Export, Trust, Lookup, Mint, Breaks, Fails, Ends
<1> QED
  BY <1>3, <1>4 DEF CAStep

LEMMA OpenInvInit == Init => OpenInv
<1> SUFFICES ASSUME Init PROVE OpenInv
  OBVIOUS
<1> QED
  BY SessionAssumption DEF Init, OpenInv, AllQuiet, NoCommand, CAInit, AllIdle, Idle

LEMMA OpenInvNext == SessionType /\ CAInv /\ OpenInv /\ [Next]_vars => OpenInv'
<1> SUFFICES ASSUME SessionType, CAInv, OpenInv, [Next]_vars PROVE OpenInv'
  OBVIOUS
<1> USE SessionAssumption DEF OpenInv
<1>0. /\ ctl \in [Callers -> [pc : CtlPCs, arg : 0..MaxPort]]
      /\ task \in [Tasks -> Task]
  BY DEF SessionType, CAInv, CATypeOK
\* A command without a call moves on without one.
<1>1. ASSUME NEW c \in Callers, NEW q, NEW a, task[c].pc = "idle", q # "ensuring",
             Goes(c, q, a), UNCHANGED task
      PROVE OpenInv'
  BY <1>0, <1>1 DEF Goes
<1>2. ASSUME NEW t \in Tasks, AuthorityStep(t) PROVE OpenInv'
  BY <1>2, StepIsNoEnd, StepIsOwn DEF AuthorityStep
<1>3. ASSUME NEW t \in Tasks, Answer(t) PROVE OpenInv'
  BY <1>0, <1>3 DEF Answer, Finish, Idle
<1>4. ASSUME NEW c \in Callers, Command(c) PROVE OpenInv'
  <2>1. ASSUME NEW op \in {"export", "trust"}, AskAuthority(c, op) PROVE OpenInv'
    BY <1>0, <2>1 DEF AskAuthority, Call, Ready
  <2> QED
    BY <1>4, <1>1, <2>1 DEF Command, Start, Stop, Save, Ready, caVars
<1>5. ASSUME NEW c \in Callers, CommandStep(c) PROVE OpenInv'
  <2>1. CASE StartLocks(c)
    <3>0. task[c].pc = "idle"
      BY <2>1 DEF StartLocks
    <3>1. CASE running # 0
      BY <2>1, <3>0, <3>1, <1>1 DEF StartLocks, Returns, caVars
    <3>2. CASE running = 0
      BY <2>1, <3>2, <1>0 DEF StartLocks, Goes, Call
    <3> QED
      BY <3>1, <3>2, <2>1 DEF StartLocks
  <2>2. CASE StartEnsured(c)
    BY <2>2, <1>0 DEF StartEnsured, Finish, Idle, Returns, Goes
  <2>3. CASE Bind(c) \/ StartFails(c)
    BY <2>3, <1>1 DEF Bind, StartFails, Returns, caVars
  <2>4. CASE StopLocks(c) \/ StopAwaited(c) \/ Report(c)
    BY <2>4, <1>1 DEF StopLocks, StopAwaited, Report, Returns, caVars
  <2>5. CASE WriteFile(c) \/ WriteFileFails(c) \/ StoreSettings(c)
    BY <2>5, <1>1 DEF WriteFile, WriteFileFails, StoreSettings, Returns, caVars
  <2> QED
    BY <1>5, <1>2, <1>3, <2>1, <2>2, <2>3, <2>4, <2>5 DEF CommandStep
<1>6. CASE Relaunch
  BY <1>6 DEF Relaunch, Restart, AllIdle, Idle, AllQuiet, NoCommand
<1>7. CASE AcceptLoopEnds \/ UserStep
  BY <1>7 DEF AcceptLoopEnds, UserStep, Outside, DeleteCert, LoseKey, caVars
<1>8. ASSUME NEW m \in Minters, NEW h \in Hosts, Handshake(m, h) PROVE OpenInv'
  BY <1>0, <1>8 DEF Handshake, Call, Minters
<1>9. ASSUME NEW m \in Minters, HandshakeStep(m) PROVE OpenInv'
  BY <1>2, <1>3, <1>9 DEF HandshakeStep, Minters
<1>10. CASE UNCHANGED vars
  BY <1>10 DEF vars, caVars
<1> QED
  BY <1>4, <1>5, <1>6, <1>7, <1>8, <1>9, <1>10 DEF Next

\* An open call is never held up by more than one other.
LEMMA CallMovesOn ==
    ASSUME CAInv, OpenInv, NEW t \in Tasks, task[t].pc # "idle"
    PROVE  CallMoves(t)
<1>1. task[t].pc \in TaskPCs
  BY DEF CAInv, CATypeOK, Task
<1>2. CASE Free
  BY <1>1, <1>2 DEF CallMoves, TaskGoes, TaskPCs, OpenInv
<1>3. CASE ~Free
  BY <1>3 DEF CallMoves, TaskGoes, Free
<1> QED
  BY <1>2, <1>3

\* No deadlock over the mutex of the Controller, the one of the authority and
\* the end of the accept loop, for any number of commands and handshakes.
THEOREM NoDeadlockTheorem == Spec => []NoDeadlock
<1>1. SessionType /\ CAInv /\ OpenInv => NoDeadlock
  <2> SUFFICES ASSUME SessionType, CAInv, OpenInv PROVE NoDeadlock
    OBVIOUS
  <2> USE SessionAssumption
  <2>1. ASSUME NEW m \in Minters, task[m].pc # "idle" PROVE CallMoves(m)
    BY <2>1, CallMovesOn DEF Minters
  <2>2. ASSUME NEW c \in Callers, ctl[c].pc \in Guarded PROVE CommandMoves(c)
    <3>1. CASE ctl[c].pc = "ensuring"
      BY <3>1, CallMovesOn DEF CommandMoves, OpenInv
    <3>2. CASE ctl[c].pc \in {"binding", "awaiting"}
      BY <3>2 DEF CommandMoves, CommandGoes
    <3> QED
      BY <2>2, <3>1, <3>2 DEF Guarded
  <2>3. ASSUME NEW c \in Callers, ~Ready(c)
        PROVE  \/ CommandMoves(c)
               \/ \E d \in Callers \ {c} : ctl[d].pc \in Guarded /\ CommandMoves(d)
    <3>0. ctl[c].pc \in CtlPCs
      BY DEF SessionType
    <3>1. CASE ctl[c].pc = "idle"
      BY <2>3, <3>1, CallMovesOn DEF Ready, CommandMoves
    <3>2. CASE ctl[c].pc \in Guarded
      BY <2>2, <3>2
    <3>3. CASE ctl[c].pc \in {"writing", "storing"}
      BY <3>3 DEF CommandMoves, CommandGoes
    <3>4. CASE ctl[c].pc \in {"starting", "stopping", "reporting"}
      <4>1. CASE Unguarded
        BY <3>4, <4>1 DEF CommandMoves, CommandGoes
      <4>2. CASE ~Unguarded
        <5>1. PICK d \in Callers : ctl[d].pc \in Guarded
          BY <4>2 DEF Unguarded
        <5>2. d # c
          BY <3>4, <5>1 DEF Guarded
        <5> QED
          BY <2>2, <5>1, <5>2
      <4> QED
        BY <4>1, <4>2
    <3> QED
      BY <3>0, <3>1, <3>2, <3>3, <3>4 DEF CtlPCs, Guarded
  <2> QED
    BY <2>1, <2>3 DEF NoDeadlock
<1> QED
  BY <1>1, SessionTypeInit, SessionTypeNext, OpenInvInit, OpenInvNext, ImplementsTheorem,
     AuthorityTheorem, PTL DEF Spec
=============================================================================
