--------------------------- MODULE CertAuthority ----------------------------
(***************************************************************************)
(* The certificate authority (crates/httpmate-core/src/ca.rs): a root      *)
(* generated on first use, its key in a secret store and its certificate   *)
(* in a file, loaded once per process into `inner`; and the leaf           *)
(* certificates minted under it for TLS interception, kept in a cache.     *)
(*                                                                         *)
(* A key pair with its certificate is a generation.  A file or a secret    *)
(* holds a generation, nothing (0) or a torn write.  Any number of tasks   *)
(* call at once: commands of the interface, and handshakes that mint.  The *)
(* mutex of `inner` is held by the task whose pc is in Holding, across the *)
(* two writes that make a CA; what else is done under it, loading a CA and *)
(* signing a leaf, is one step.  The mutex of the cache waits for no other *)
(* one.  The secret store is the file or the keychain behind SecretStore.  *)
(***************************************************************************)
EXTENDS Integers, FiniteSets

CONSTANTS
    Tasks,      \* callers of the authority
    Hosts,      \* names that leaves are minted for
    NumGens,    \* bound: generations alive at a time
    CacheCap,   \* LEAF_CACHE_CAP (1024)
    Faults      \* may files, the secret store, commands and minting fail?

ASSUME AuthorityAssumption ==
    /\ NumGens \in Nat \ {0, 1}
    /\ CacheCap \in Nat \ {0}
    /\ Faults \in BOOLEAN

VARIABLES
    certFile,   \* httpmate-ca.pem: the generation it holds, 0 or Torn
    keyFile,    \* the secret ca-key.pem, likewise
    lost,       \* has the user lost the key since it was last written?
    inner,      \* the generation loaded by this process, or 0
    cache,      \* cache[h]: generation that signed the cached leaf of h, or 0
    given,      \* certificates this process exported or installed as trusted
    task        \* task[t]: what task t is doing

caDisk == <<certFile, keyFile, lost>>
caVars == <<caDisk, inner, cache, given, task>>

Gens == 1..NumGens
Torn == NumGens + 1
Ops  == {"ensure", "export", "trust", "mint"}

Holding == {"keying", "certifying"}
TaskPCs == {"idle", "looking", "ensuring", "exporting", "trusting", "minting", "done"}
             \cup Holding

\* names: the host to mint for, if any.  gen: the generation a task works with;
\* once done, that of its result, 0 if it failed.
Task == [pc : TaskPCs, op : Ops, names : SUBSET Hosts, gen : 0..Torn]

\* Faulty variant: no mutex.
FreeAlways == TRUE

Free == \A t \in Tasks : task[t].pc \notin Holding

Idle    == [pc |-> "idle", op |-> "ensure", names |-> {}, gen |-> 0]
AllIdle == [t \in Tasks |-> Idle]
NoLeaf  == [h \in Hosts |-> 0]

CAInit ==
    /\ certFile = 0
    /\ keyFile = 0
    /\ lost = FALSE
    /\ inner = 0
    /\ cache = NoLeaf
    /\ given = {}
    /\ task = AllIdle

-----------------------------------------------------------------------------
(* Calls *)

Call(t, op, names) ==
    /\ task[t].pc = "idle"
    /\ task' = [task EXCEPT ![t] = [pc |-> IF op = "mint" THEN "looking" ELSE "ensuring",
                                    op |-> op, names |-> names, gen |-> 0]]
    /\ UNCHANGED <<caDisk, inner, cache, given>>

Moves(t, pc, g) == task' = [task EXCEPT ![t].pc = pc, ![t].gen = g]
Ends(t, g)      == Moves(t, "done", g)
Fails(t)        == Ends(t, 0)

\* What each caller of ensure_ca does once it has succeeded.
AfterEnsure == [ensure |-> "done", export |-> "exporting", trust |-> "trusting",
                mint |-> "minting"]
Ensured(t, g) == Moves(t, AfterEnsure[task[t].op], g)

Finish(t) ==
    /\ task[t].pc = "done"
    /\ task' = [task EXCEPT ![t] = Idle]
    /\ UNCHANGED <<caDisk, inner, cache, given>>

-----------------------------------------------------------------------------
(* ensure_ca, generate_ca, load_ca *)

\* load_ca.  Leaves are signed with the key; nothing compares it with the
\* certificate.
Load(t) ==
    IF certFile \in Gens /\ keyFile \in Gens
    THEN inner' = keyFile /\ Ensured(t, keyFile)
    ELSE Fails(t) /\ UNCHANGED inner

\* Faulty variant: whoever waited for the mutex goes on to load or generate.
EnsureAgain(t) ==
    /\ task[t].pc = "ensuring"
    /\ Free
    /\ IF certFile # 0 THEN Load(t)
       ELSE Moves(t, "keying", 0) /\ UNCHANGED inner
    /\ UNCHANGED <<caDisk, cache, given>>

\* A CA that is loaded stays; otherwise an existing file is loaded, whatever it
\* holds.  Left out: exists() also says no when the directory cannot be searched.
Ensure(t) ==
    /\ task[t].pc = "ensuring"
    /\ Free
    /\ IF inner # 0 THEN Ensured(t, inner) /\ UNCHANGED inner
       ELSE IF certFile # 0 THEN Load(t)
       ELSE Moves(t, "keying", 0) /\ UNCHANGED inner
    /\ UNCHANGED <<caDisk, cache, given>>

\* The key comes first ...
SetKey(t) ==
    /\ task[t].pc = "keying"
    /\ \E g \in Gens \ {keyFile} :
          /\ keyFile' = g
          /\ Moves(t, "certifying", g)
    /\ lost' = FALSE
    /\ UNCHANGED <<certFile, inner, cache, given>>

\* Faulty variant: the CA counts as loaded although its file is incomplete.
WriteCertLoosely(t) ==
    /\ task[t].pc = "certifying"
    /\ certFile' = task[t].gen \/ (Faults /\ certFile' = Torn)
    /\ inner' = task[t].gen
    /\ Ensured(t, task[t].gen)
    /\ UNCHANGED <<keyFile, lost, cache, given>>

\* ... and the certificate is the sign that both are there.
WriteCert(t) ==
    /\ task[t].pc = "certifying"
    /\ certFile' = task[t].gen
    /\ inner' = task[t].gen
    /\ Ensured(t, task[t].gen)
    /\ UNCHANGED <<keyFile, lost, cache, given>>

\* What a write of the task that is cut short leaves behind.
CutShort(t) ==
    \/ UNCHANGED <<certFile, keyFile>>
    \/ /\ task[t].pc = "keying"
       /\ keyFile' \in (Gens \ {keyFile}) \cup {Torn}
       /\ UNCHANGED certFile
    \/ /\ task[t].pc = "certifying"
       /\ certFile' = Torn
       /\ UNCHANGED keyFile

-----------------------------------------------------------------------------
(* What is done with the CA *)

\* cert_pem returns what is in the file.
Export(t) ==
    /\ task[t].pc = "exporting"
    /\ Ends(t, certFile)
    /\ given' = given \cup ({certFile} \ {0})
    /\ UNCHANGED <<caDisk, inner, cache>>

\* The command that install_ca_trust runs reads the file.
Trust(t) ==
    /\ task[t].pc = "trusting"
    /\ IF certFile \in Gens
       THEN Ends(t, certFile) /\ given' = given \cup {certFile}
       ELSE Fails(t) /\ UNCHANGED given
    /\ UNCHANGED <<caDisk, inner, cache>>

Cached == {h \in Hosts : cache[h] # 0}

\* mint: a cached leaf is served as it is ...
Lookup(t) ==
    /\ task[t].pc = "looking"
    /\ \/ \E h \in task[t].names \cap Cached : Ends(t, cache[h])
       \/ task[t].names \cap Cached = {} /\ Moves(t, "ensuring", 0)
    /\ UNCHANGED <<caDisk, inner, cache, given>>

\* ... else one is signed with the CA that ensure_ca left, and put into the
\* cache, which is emptied first when it is full.
Mint(t) ==
    /\ task[t].pc = "minting"
    /\ Free
    /\ cache' = [h \in Hosts |-> IF h \in task[t].names THEN inner
                                 ELSE IF Cardinality(Cached) >= CacheCap THEN 0
                                 ELSE cache[h]]
    /\ Ends(t, inner)
    /\ UNCHANGED <<caDisk, inner, given>>

\* Any file, secret, command or signature may fail; the CA in memory stays as it
\* was.
Breaks(t) ==
    /\ Faults
    /\ task[t].pc \in TaskPCs \ {"idle", "looking", "done"}
    /\ CutShort(t)
    /\ Fails(t)
    /\ UNCHANGED <<lost, inner, cache, given>>

-----------------------------------------------------------------------------
(* The process and the user *)

\* CertAuthority::new: the process ends, at any time, and is launched again.
Restart ==
    /\ \/ UNCHANGED <<certFile, keyFile>>
       \/ \E t \in Tasks : CutShort(t)
       \/ \E t \in Tasks : task[t].pc = "certifying" /\ certFile' = task[t].gen
                           /\ UNCHANGED keyFile
    /\ inner' = 0
    /\ cache' = NoLeaf
    /\ given' = {}
    /\ task' = AllIdle
    /\ UNCHANGED lost

\* As load_ca's error message asks.
DeleteCert ==
    /\ certFile # 0
    /\ certFile' = 0
    /\ UNCHANGED <<keyFile, lost, inner, cache, given, task>>

LoseKey ==
    /\ keyFile # 0
    /\ keyFile' = 0
    /\ lost' = TRUE
    /\ UNCHANGED <<certFile, inner, cache, given, task>>

-----------------------------------------------------------------------------

CAStep(t) ==
    \/ Ensure(t)
    \/ SetKey(t)
    \/ WriteCert(t)
    \/ Export(t)
    \/ Trust(t)
    \/ Lookup(t)
    \/ Mint(t)
    \/ Breaks(t)

Outside == DeleteCert \/ LoseKey

CANext ==
    \/ \E t \in Tasks, op \in Ops \ {"mint"} : Call(t, op, {})
    \/ \E t \in Tasks, h \in Hosts : Call(t, "mint", {h})
    \/ \E t \in Tasks : CAStep(t) \/ Finish(t)
    \/ Outside
    \/ Restart

CASpec == CAInit /\ [][CANext]_caVars

-----------------------------------------------------------------------------
(* Safety *)

CATypeOK ==
    /\ certFile \in 0..Torn
    /\ keyFile \in 0..Torn
    /\ lost \in BOOLEAN
    /\ inner \in {0} \cup Gens
    /\ cache \in [Hosts -> 0..Torn]
    /\ given \in SUBSET (0..Torn)
    /\ task \in [Tasks -> Task]

\* A certificate that is whole has its key in the secret store, unless the user
\* lost it: a crash or a failure between the two writes, or two first uses at
\* once, never leave a certificate that nothing can sign for (generate_ca,
\* ensure_ca).
KeyBehindCert == certFile \in Gens /\ ~lost => keyFile = certFile

\* Every leaf, cached or just handed out, is signed by the one CA this process
\* has loaded, and that CA is the one on disk as long as it is there: what a
\* client trusts is what its leaf chains to (ensure_ca, mint, load_ca).
LeavesChain ==
    /\ inner # 0 /\ certFile # 0 => inner = certFile
    /\ \A h \in Hosts : cache[h] \in {0, inner}
    /\ \A t \in Tasks : task[t].pc = "done" /\ task[t].op = "mint" => task[t].gen \in {0, inner}

\* Whatever certificate the user was given or had installed as trusted is whole
\* and the signer of this process's leaves, also when it was first generated by
\* a command that met a failure (export_ca, install_ca_trust).
GivenIsSigner == given \subseteq {inner}
=============================================================================
