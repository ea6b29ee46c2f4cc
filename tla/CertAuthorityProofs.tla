------------------------ MODULE CertAuthorityProofs ------------------------
(***************************************************************************)
(* The certificate authority keeps its promises for any number of tasks    *)
(* and hosts, with failures, crashes and a user who deletes the            *)
(* certificate or loses the key at any moment.                             *)
(*                                                                         *)
(* The invariant follows a CA from its key to its last use: while one is   *)
(* made, by one task, nothing is loaded and there is no certificate; a     *)
(* whole certificate has its key; and what is loaded, cached, handed out   *)
(* or given to the user is one generation.                                 *)
(***************************************************************************)
EXTENDS CertAuthority, TLAPS

\* The key that belongs to generation g, as far as the user has not lost it.
KeyOf(g) == IF lost THEN 0 ELSE g

OneMaker == \A t, u \in Tasks :
    task[t].pc \in Holding /\ task[u].pc \in Holding => t = u

MakerInv(t) ==
    /\ task[t].pc \in Holding => inner = 0 /\ certFile = 0
    /\ task[t].pc = "certifying" => task[t].gen \in Gens /\ keyFile = KeyOf(task[t].gen)

UserInv(t) ==
    /\ task[t].pc \in {"exporting", "trusting", "minting"} => inner # 0
    /\ task[t].pc = "done" => task[t].gen \in {0, inner}

DiskInv ==
    /\ certFile \in Gens => keyFile = KeyOf(certFile)
    /\ inner # 0 /\ certFile # 0 => inner = certFile

HandedOut ==
    /\ \A h \in Hosts : cache[h] \in {0, inner}
    /\ given \subseteq {inner}
    /\ inner = 0 => given = {}

CAInv ==
    /\ CATypeOK
    /\ OneMaker
    /\ \A t \in Tasks : MakerInv(t) /\ UserInv(t)
    /\ DiskInv
    /\ HandedOut

LEMMA GensTorn == 0 \in 0..Torn /\ Gens \subseteq 0..Torn
BY AuthorityAssumption DEF Gens, Torn

LEMMA IdleIsTask == Idle \in Task
BY AuthorityAssumption DEF Idle, Task, TaskPCs, Ops, Torn

\* The invariant holds when the program is first installed.
LEMMA CAInitInv == CAInit => CAInv
<1> SUFFICES ASSUME CAInit PROVE CAInv
  OBVIOUS
<1> USE AuthorityAssumption DEF CAInit
<1>1. CATypeOK
  <2>1. AllIdle \in [Tasks -> Task]
    BY IdleIsTask DEF AllIdle
  <2> QED
    BY <2>1, GensTorn DEF CATypeOK, NoLeaf
<1>2. OneMaker /\ (\A t \in Tasks : MakerInv(t) /\ UserInv(t))
  BY DEF OneMaker, MakerInv, UserInv, AllIdle, Idle, Holding
<1>3. DiskInv /\ HandedOut
  BY DEF DiskInv, HandedOut, NoLeaf, Gens
<1> QED
  BY <1>1, <1>2, <1>3 DEF CAInv

\* A task that moves on stays a task.
LEMMA MovesType ==
    ASSUME task \in [Tasks -> Task], NEW t \in Tasks, NEW pc \in TaskPCs, NEW g \in 0..Torn,
           Moves(t, pc, g)
    PROVE  task' \in [Tasks -> Task]
BY DEF Moves, Task

\* A call begins with nothing in hand.
LEMMA CallInv ==
    ASSUME CAInv, NEW t \in Tasks, NEW op \in Ops, NEW names \in SUBSET Hosts,
           Call(t, op, names)
    PROVE  CAInv'
<1> USE AuthorityAssumption DEF Call, CAInv, caDisk
<1>1. CATypeOK'
  <2>1. [pc |-> IF op = "mint" THEN "looking" ELSE "ensuring",
         op |-> op, names |-> names, gen |-> 0] \in Task
    BY DEF Task, TaskPCs, Torn
  <2> QED
    BY <2>1 DEF CATypeOK
<1>2. OneMaker' /\ (\A u \in Tasks : MakerInv(u)' /\ UserInv(u)')
  BY DEF CATypeOK, Task, OneMaker, MakerInv, UserInv, Holding, KeyOf
<1>3. DiskInv' /\ HandedOut'
  BY DEF DiskInv, HandedOut, KeyOf
<1> QED
  BY <1>1, <1>2, <1>3

LEMMA FinishInv == ASSUME CAInv, NEW t \in Tasks, Finish(t) PROVE CAInv'
<1> USE AuthorityAssumption DEF Finish, CAInv, caDisk
<1>1. CATypeOK'
  BY DEF CATypeOK, Idle, Task, TaskPCs, Ops, Gens, Torn
<1>2. OneMaker' /\ (\A u \in Tasks : MakerInv(u)' /\ UserInv(u)')
  BY DEF CATypeOK, Idle, Task, OneMaker, MakerInv, UserInv, Holding, KeyOf
<1>3. DiskInv' /\ HandedOut'
  BY DEF DiskInv, HandedOut, KeyOf
<1> QED
  BY <1>1, <1>2, <1>3

\* A write that was cut short leaves no whole certificate without its key.
LEMMA CutShortInv ==
    ASSUME CAInv, NEW t \in Tasks, CutShort(t), UNCHANGED lost
    PROVE  /\ certFile' \in 0..Torn /\ keyFile' \in 0..Torn
           /\ certFile' \in Gens => certFile' = certFile /\ keyFile' = keyFile
           /\ certFile' # certFile \/ keyFile' # keyFile =>
                task[t].pc \in Holding /\ inner = 0
<1> USE AuthorityAssumption DEF CAInv, CATypeOK, Gens, Torn, Holding
<1>1. CASE UNCHANGED <<certFile, keyFile>>
  BY <1>1
<1>2. CASE /\ task[t].pc = "keying"
           /\ keyFile' \in (Gens \ {keyFile}) \cup {Torn}
           /\ UNCHANGED certFile
  BY <1>2 DEF MakerInv
<1>3. CASE /\ task[t].pc = "certifying"
           /\ certFile' = Torn
           /\ UNCHANGED keyFile
  BY <1>3 DEF MakerInv
<1> QED
  BY <1>1, <1>2, <1>3 DEF CutShort

\* Every step of a task keeps the invariant.
LEMMA CAStepInv == ASSUME CAInv, NEW t \in Tasks, CAStep(t) PROVE CAInv'
<1> USE AuthorityAssumption DEF CAInv, caDisk, Ends, Fails
<1>t. task \in [Tasks -> Task] /\ task[t] \in Task
  BY DEF CATypeOK
<1>m. MakerInv(t) /\ UserInv(t)
  OBVIOUS
<1>1. CASE Ensure(t)
  <2>0. /\ task[t].pc = "ensuring" /\ Free
        /\ UNCHANGED <<certFile, keyFile, lost, cache, given>>
    BY <1>1 DEF Ensure
  <2>1. CASE inner # 0 /\ Ensured(t, inner) /\ UNCHANGED inner
    <3>1. CATypeOK'
      BY MovesType, <2>0, <2>1, <1>t DEF CATypeOK, TaskPCs, Holding, Gens, Torn, Ensured, AfterEnsure, Task, Ops
    <3>2. OneMaker' /\ (\A u \in Tasks : MakerInv(u)' /\ UserInv(u)')
      BY <2>0, <2>1, <1>t DEF Moves, OneMaker, MakerInv, UserInv, Holding, KeyOf, Free, Task, Ops, Ensured,
         AfterEnsure
    <3>3. DiskInv' /\ HandedOut'
      BY <2>0, <2>1 DEF DiskInv, HandedOut, KeyOf
    <3> QED
      BY <3>1, <3>2, <3>3
  <2>2. CASE inner = 0 /\ certFile # 0 /\ Load(t)
    <3>1. CASE /\ certFile \in Gens /\ keyFile \in Gens
               /\ inner' = keyFile /\ Ensured(t, keyFile)
      <4>1. keyFile = certFile /\ inner' # 0
        BY <3>1 DEF DiskInv, KeyOf, Gens
      <4>2. CATypeOK'
        BY MovesType, <2>0, <3>1, <1>t DEF CATypeOK, TaskPCs, Holding, Gens, Torn, Ensured, AfterEnsure, Task, Ops
      <4>3. \A u \in Tasks : task[u].pc \notin Holding /\ task'[u].pc \notin Holding
        BY <2>0, <3>1, <1>t DEF Moves, Free, Holding, Task, Ops, Ensured, AfterEnsure
      <4>4. \A u \in Tasks : UserInv(u)'
        BY <2>0, <2>2, <3>1, <4>1, <1>t DEF Moves, UserInv, Task, Ops, Ensured, AfterEnsure
      <4>5. DiskInv' /\ HandedOut'
        BY <2>0, <2>2, <3>1, <4>1 DEF DiskInv, HandedOut, KeyOf
      <4> QED
        BY <4>2, <4>3, <4>4, <4>5 DEF Moves, OneMaker, MakerInv, Holding
    <3>2. CASE Fails(t) /\ UNCHANGED inner
      <4>1. CATypeOK'
        BY MovesType, <2>0, <3>2, <1>t DEF CATypeOK, TaskPCs, Holding, Gens, Torn
      <4>2. OneMaker' /\ (\A u \in Tasks : MakerInv(u)' /\ UserInv(u)')
        BY <2>0, <3>2, <1>t DEF Moves, OneMaker, MakerInv, UserInv, Holding, KeyOf, Task
      <4>3. DiskInv' /\ HandedOut'
        BY <2>0, <3>2 DEF DiskInv, HandedOut, KeyOf
      <4> QED
        BY <4>1, <4>2, <4>3
    <3> QED
      BY <2>2, <3>1, <3>2 DEF Load
  <2>3. CASE inner = 0 /\ certFile = 0 /\ Moves(t, "keying", 0) /\ UNCHANGED inner
    <3>1. CATypeOK'
      BY MovesType, <2>0, <2>3, <1>t DEF CATypeOK, TaskPCs, Holding, Gens, Torn
    <3>2. OneMaker' /\ (\A u \in Tasks : MakerInv(u)' /\ UserInv(u)')
      BY <2>0, <2>3, <1>t DEF Moves, OneMaker, MakerInv, UserInv, Holding, KeyOf, Free, Task
    <3>3. DiskInv' /\ HandedOut'
      BY <2>0, <2>3 DEF DiskInv, HandedOut, KeyOf
    <3> QED
      BY <3>1, <3>2, <3>3
  <2> QED
    BY <1>1, <2>1, <2>2, <2>3 DEF Ensure
<1>2. CASE SetKey(t)
  <2>0. PICK g \in Gens \ {keyFile} : keyFile' = g /\ Moves(t, "certifying", g)
    BY <1>2 DEF SetKey
  <2>1. /\ task[t].pc = "keying" /\ lost' = FALSE
        /\ UNCHANGED <<certFile, inner, cache, given>>
    BY <1>2 DEF SetKey
  <2>2. CATypeOK'
    <3>1. task' \in [Tasks -> Task]
      BY MovesType, <2>0, <1>t DEF TaskPCs, Holding, Gens, Torn
    <3> QED
      BY <2>0, <2>1, <3>1, GensTorn DEF CATypeOK
  <2>3. inner = 0 /\ certFile = 0
    BY <2>1, <1>m DEF Moves, MakerInv, Holding
  <2>4. OneMaker'
    BY <2>0, <2>1, <1>t DEF Moves, OneMaker, Holding, Task
  <2>5. ASSUME NEW u \in Tasks PROVE MakerInv(u)' /\ UserInv(u)'
    BY <2>0, <2>1, <2>3, <1>t DEF Moves, OneMaker, MakerInv, UserInv, Holding, KeyOf, Task
  <2>6. DiskInv' /\ HandedOut'
    BY <2>0, <2>1, <2>3 DEF DiskInv, HandedOut, Gens
  <2> QED
    BY <2>2, <2>4, <2>5, <2>6
<1>3. CASE WriteCert(t)
  <2>0. /\ task[t].pc = "certifying" /\ certFile' = task[t].gen /\ inner' = task[t].gen
        /\ Ensured(t, task[t].gen)
        /\ UNCHANGED <<keyFile, lost, cache, given>>
    BY <1>3 DEF WriteCert
  <2>1. inner = 0 /\ certFile = 0 /\ task[t].gen \in Gens /\ keyFile = KeyOf(task[t].gen)
    BY <2>0, <1>m DEF Moves, MakerInv, Holding
  <2>2. CATypeOK'
    BY MovesType, <2>0, <2>1, <1>t DEF CATypeOK, TaskPCs, Holding, Gens, Torn, Ensured, AfterEnsure, Task, Ops
  <2>3. \A u \in Tasks : task'[u].pc \notin Holding
    BY <2>0, <1>t DEF Moves, OneMaker, Holding, Task, Ops, Ensured, AfterEnsure
  <2>4. ASSUME NEW u \in Tasks PROVE UserInv(u)'
    BY <2>0, <2>1, <1>t DEF Moves, UserInv, Task, Ops, Ensured, AfterEnsure, Gens
  <2>5. DiskInv' /\ HandedOut'
    BY <2>0, <2>1 DEF DiskInv, HandedOut, KeyOf, Gens
  <2> QED
    BY <2>2, <2>3, <2>4, <2>5 DEF Moves, OneMaker, MakerInv, Holding
<1>4. CASE Export(t)
  <2>0. certFile \in {0, inner}
    BY <1>4, <1>m DEF Moves, Export, UserInv, DiskInv
  <2>1. CATypeOK'
    BY MovesType, <1>4, <1>t DEF Export, CATypeOK, TaskPCs, Holding, Gens, Torn
  <2>2. OneMaker' /\ (\A u \in Tasks : MakerInv(u)' /\ UserInv(u)')
    BY <1>4, <2>0, <1>t DEF Moves, Export, OneMaker, MakerInv, UserInv, Holding, KeyOf, Task
  <2>3. DiskInv' /\ HandedOut'
    BY <1>4, <2>0, <1>m DEF Moves, Export, DiskInv, HandedOut, KeyOf, UserInv
  <2> QED
    BY <2>1, <2>2, <2>3
<1>5. CASE Trust(t)
  <2>0. certFile \in {0, inner} /\ inner # 0
    BY <1>5, <1>m DEF Moves, Trust, UserInv, DiskInv
  <2>1. CATypeOK'
    <3>1. task' \in [Tasks -> Task]
      BY MovesType, <1>5, <1>t DEF Trust, CATypeOK, TaskPCs, Torn
    <3> QED
      BY <1>5, <3>1 DEF Trust, CATypeOK, Gens, Torn
  <2>2. OneMaker' /\ (\A u \in Tasks : MakerInv(u)' /\ UserInv(u)')
    BY <1>5, <2>0, <1>t DEF Moves, Trust, OneMaker, MakerInv, UserInv, Holding, KeyOf, Task
  <2>3. DiskInv' /\ HandedOut'
    BY <1>5, <2>0 DEF Trust, DiskInv, HandedOut, KeyOf, Gens
  <2> QED
    BY <2>1, <2>2, <2>3
<1>6. CASE Lookup(t)
  <2>0. PICK g \in {0, inner}, pc \in {"done", "ensuring"} :
            Moves(t, pc, g) /\ UNCHANGED <<certFile, keyFile, lost, inner, cache, given>>
    BY <1>6 DEF Lookup, HandedOut, Cached
  <2>1. CATypeOK'
    BY MovesType, <2>0, <1>t DEF CATypeOK, TaskPCs, Holding, Gens, Torn
  <2>2. OneMaker' /\ (\A u \in Tasks : MakerInv(u)' /\ UserInv(u)')
    BY <2>0, <1>t DEF Moves, OneMaker, MakerInv, UserInv, Holding, KeyOf, Task
  <2>3. DiskInv' /\ HandedOut'
    BY <2>0 DEF DiskInv, HandedOut, KeyOf
  <2> QED
    BY <2>1, <2>2, <2>3
<1>7. CASE Mint(t)
  <2>1. CATypeOK'
    BY MovesType, <1>7, <1>t DEF Mint, CATypeOK, TaskPCs, Holding, Gens, Torn
  <2>2. OneMaker' /\ (\A u \in Tasks : MakerInv(u)' /\ UserInv(u)')
    BY <1>7, <1>t DEF Moves, Mint, OneMaker, MakerInv, UserInv, Holding, KeyOf, Task
  <2>3. DiskInv' /\ HandedOut'
    BY <1>7 DEF Mint, DiskInv, HandedOut, KeyOf
  <2> QED
    BY <2>1, <2>2, <2>3
<1>8. CASE Breaks(t)
  <2>0. /\ CutShort(t) /\ Fails(t) /\ UNCHANGED <<lost, inner, cache, given>>
        /\ task[t].pc \in TaskPCs \ {"idle", "looking", "done"}
    BY <1>8 DEF Breaks
  <2>1. /\ certFile' \in 0..Torn /\ keyFile' \in 0..Torn
        /\ certFile' \in Gens => certFile' = certFile /\ keyFile' = keyFile
        /\ certFile' # certFile \/ keyFile' # keyFile => task[t].pc \in Holding /\ inner = 0
    BY <2>0, CutShortInv
  <2>2. CATypeOK'
    BY MovesType, <2>0, <2>1, <1>t DEF CATypeOK, TaskPCs, Holding, Gens, Torn
  <2>3. OneMaker' /\ (\A u \in Tasks : UserInv(u)')
    BY <2>0, <1>t DEF Moves, OneMaker, UserInv, Holding, Task
  <2>4. ASSUME NEW u \in Tasks PROVE MakerInv(u)'
    BY <2>0, <2>1, <1>t DEF Moves, OneMaker, MakerInv, Holding, KeyOf, Task
  <2>5. DiskInv' /\ HandedOut'
    BY <2>0, <2>1 DEF DiskInv, HandedOut, KeyOf
  <2> QED
    BY <2>2, <2>3, <2>4, <2>5
<1> QED
  BY <1>1, <1>2, <1>3, <1>4, <1>5, <1>6, <1>7, <1>8 DEF CAStep

\* A restart leaves what is on disk, or a write that was cut short.
LEMMA RestartInv == CAInv /\ Restart => CAInv'
<1> SUFFICES ASSUME CAInv, Restart PROVE CAInv'
  OBVIOUS
<1> USE AuthorityAssumption DEF CAInv
<1>1. /\ inner' = 0 /\ cache' = NoLeaf /\ given' = {} /\ task' = AllIdle
      /\ UNCHANGED lost
  BY DEF Restart
<1>2. /\ certFile' \in 0..Torn /\ keyFile' \in 0..Torn
      /\ certFile' \in Gens => keyFile' = KeyOf(certFile')
  <2>1. CASE UNCHANGED <<certFile, keyFile>>
    BY <2>1 DEF CATypeOK, DiskInv, KeyOf
  <2>2. ASSUME NEW t \in Tasks, CutShort(t)
        PROVE  /\ certFile' \in 0..Torn /\ keyFile' \in 0..Torn
               /\ certFile' \in Gens => keyFile' = KeyOf(certFile')
    BY <1>1, <2>2, CutShortInv DEF DiskInv, KeyOf
  <2>3. ASSUME NEW t \in Tasks, task[t].pc = "certifying", certFile' = task[t].gen,
               UNCHANGED keyFile
        PROVE  /\ certFile' \in 0..Torn /\ keyFile' \in 0..Torn
               /\ certFile' \in Gens => keyFile' = KeyOf(certFile')
    BY <2>3 DEF CATypeOK, MakerInv, KeyOf, Gens, Torn
  <2> QED
    BY <2>1, <2>2, <2>3 DEF Restart
<1>3. CATypeOK'
  BY <1>1, <1>2, IdleIsTask DEF CATypeOK, AllIdle, NoLeaf, Gens, Torn
<1>4. OneMaker' /\ (\A t \in Tasks : MakerInv(t)' /\ UserInv(t)')
  BY <1>1 DEF OneMaker, MakerInv, UserInv, AllIdle, Idle, Holding
<1>5. DiskInv' /\ HandedOut'
  BY <1>1, <1>2 DEF DiskInv, HandedOut, NoLeaf, KeyOf
<1> QED
  BY <1>3, <1>4, <1>5

\* So does what the user does to the files.
LEMMA OutsideInv == CAInv /\ Outside => CAInv'
<1> SUFFICES ASSUME CAInv, Outside PROVE CAInv'
  OBVIOUS
<1> USE AuthorityAssumption DEF CAInv
<1>1. UNCHANGED <<inner, cache, given, task>>
  BY DEF Outside, DeleteCert, LoseKey
<1>2. CASE DeleteCert
  BY <1>1, <1>2 DEF DeleteCert, CATypeOK, OneMaker, MakerInv, UserInv, DiskInv, HandedOut, KeyOf,
     Gens, Torn
<1>3. CASE LoseKey
  BY <1>1, <1>3 DEF LoseKey, CATypeOK, OneMaker, MakerInv, UserInv, DiskInv, HandedOut, KeyOf,
     Gens, Torn
<1> QED
  BY <1>2, <1>3 DEF Outside

LEMMA CANextInv == CAInv /\ [CANext]_caVars => CAInv'
<1> SUFFICES ASSUME CAInv, [CANext]_caVars PROVE CAInv'
  OBVIOUS
<1>1. ASSUME NEW t \in Tasks, NEW op \in Ops \ {"mint"}, Call(t, op, {}) PROVE CAInv'
  BY <1>1, CallInv
<1>2. ASSUME NEW t \in Tasks, NEW h \in Hosts, Call(t, "mint", {h}) PROVE CAInv'
  <2>1. "mint" \in Ops /\ {h} \in SUBSET Hosts
    BY DEF Ops
  <2> QED
    BY <1>2, <2>1, CallInv
<1>3. ASSUME NEW t \in Tasks, CAStep(t) \/ Finish(t) PROVE CAInv'
  BY <1>3, CAStepInv, FinishInv
<1>4. CASE Outside
  BY <1>4, OutsideInv
<1>5. CASE Restart
  BY <1>5, RestartInv
<1>6. CASE UNCHANGED caVars
  BY <1>6 DEF caVars, caDisk, CAInv, CATypeOK, OneMaker, MakerInv, UserInv, DiskInv, HandedOut, KeyOf
<1> QED
  BY <1>1, <1>2, <1>3, <1>4, <1>5, <1>6 DEF CANext

\* Every reachable state satisfies the invariant.
THEOREM AuthorityTheorem == CASpec => []CAInv
<1>1. CAInit => CAInv
  BY CAInitInv
<1>2. CAInv /\ [CANext]_caVars => CAInv'
  BY CANextInv
<1> QED
  BY <1>1, <1>2, PTL DEF CASpec

\* What the invariant is for.
LEMMA CAInvImplies == CAInv => KeyBehindCert /\ LeavesChain /\ GivenIsSigner
BY DEF CAInv, UserInv, DiskInv, HandedOut, KeyOf, KeyBehindCert, LeavesChain, GivenIsSigner

\* A whole certificate always has its key in the secret store, unless the user
\* lost it (generate_ca writes the key first, under the mutex of ensure_ca).
THEOREM KeyBehindCertTheorem == CASpec => []KeyBehindCert
BY AuthorityTheorem, CAInvImplies, PTL

\* All leaves, cached or handed out, are signed by the one CA of the process,
\* which is the one on disk (ensure_ca, mint).
THEOREM LeavesChainTheorem == CASpec => []LeavesChain
BY AuthorityTheorem, CAInvImplies, PTL

\* What was exported or installed as trusted is the signer of the leaves
\* (export_ca, install_ca_trust).
THEOREM GivenIsSignerTheorem == CASpec => []GivenIsSigner
BY AuthorityTheorem, CAInvImplies, PTL
=============================================================================
