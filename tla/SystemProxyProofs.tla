------------------------- MODULE SystemProxyProofs --------------------------
(***************************************************************************)
(* Proofs about SystemProxy: with one command at a time, a user who does   *)
(* not quit meanwhile, and services that appear only while the switch is   *)
(* off and nothing is left to repair, settings of ours can always be       *)
(* repaired, the snapshot stays the user's and the switch is true, for any *)
(* number of slots and ports, and whatever fails or is killed; and the     *)
(* user's own settings come back unless a disable finds no snapshot.  The  *)
(* last two sections take the first condition down to what the promises    *)
(* need: which commands may overlap, with any number of callers.           *)
(***************************************************************************)
EXTENDS SystemProxy, TLAPS

OneAtATime == ~HastyQuit /\ ~Roaming /\ \A c, d \in Callers : c = d

Clean(sheet) == \A s \in Slots : sheet[s] \notin Ports

SameServices(a, b) == \A s \in Slots : a[s] = Absent <=> b[s] = Absent

Disabling == {"reading", "restoring", "unsnapping", "unguarding", "disabled"}
Enabling  == {"listing", "saving", "writing", "guarding", "setting", "enabled"}

\* Whoever holds a sheet holds one of the services there are.
Holding == {"saving", "writing", "guarding", "setting", "restoring"}

PresentInv ==
    /\ SameServices(own, setting)
    /\ snap \in Sheet => SameServices(snap, setting)
    /\ \A w \in Workers : job[w].pc \in Holding =>
          SameServices(job[w].sheet, setting)

\* Who is at work, and alone.
AloneInv ==
    /\ \A v, w \in Workers : job[v].pc # "idle" /\ job[w].pc # "idle" => v = w
    /\ \A w \in Workers : job[w].pc # "idle" =>
          IF w = Shell
          THEN /\ job[w].pc \in Disabling
               /\ \/ proc = "booting" /\ job[w].why = "launch"
                  \/ proc = "exiting" /\ job[w].why = "exit"
          ELSE /\ proc = "up"
               /\ job[w].why \in {"command", "stop"}
               /\ job[w].pc \in Enabling => job[w].why = "command"
    /\ proc # "up" => ~flag
    /\ proc \in {"booting", "exiting"} => job[Shell].pc # "idle"

\* How far a worker is in enable ...
EnableInv(w) ==
    /\ job[w].pc \in Enabling => job[w].port = port /\ port \in Ports
    /\ job[w].pc = "listing" => job[w].at = 1
    /\ job[w].pc \in {"saving", "writing", "guarding"} => ~guard
    /\ job[w].pc \in {"saving", "writing"} => Clean(job[w].sheet)
    /\ job[w].pc \in {"setting", "enabled"} => guard
    /\ job[w].pc = "setting" => \A s \in Slots : s < job[w].at => setting[s] \in {port, Absent}
    /\ job[w].pc = "enabled" => \A s \in Slots : setting[s] \in {port, Absent}

\* ... and in disable.
DisableInv(w) ==
    /\ job[w].pc \in {"swapping", "reading"} => job[w].at = 1
    /\ job[w].pc = "restoring" => Clean(job[w].sheet)
    /\ job[w].pc = "restoring" => \A s \in Slots : s < job[w].at => setting[s] \notin Ports
    /\ job[w].pc \in {"unsnapping", "unguarding", "disabled"} => Clean(setting)
    /\ job[w].pc = "swapping" /\ ~failed => flag \/ Clean(setting)
    /\ job[w].pc \in Disabling /\ job[w].why = "stop" => ~flag

SheetInv ==
    /\ guard \/ Clean(setting)
    /\ snap \in Sheet => Clean(snap)
    /\ SwitchIsTrue

JobInv == \A w \in Workers : EnableInv(w) /\ DisableInv(w)

\* OneAtATime is about constants only.
ProxyInv == OneAtATime /\ TypeOK /\ PresentInv /\ AloneInv /\ JobInv /\ SheetInv

-----------------------------------------------------------------------------
(* Types *)

LEMMA Nones == None \notin Sheet /\ Torn \notin Sheet /\ 1 \in Slots
<1>1. 1 \in Slots
  BY ConstantsAssumption DEF Slots
<1>2. DOMAIN None = {0} /\ DOMAIN Torn = {0} /\ 0 \notin Slots
  BY DEF None, Torn, Slots
<1> QED
  BY <1>1, <1>2 DEF Sheet

LEMMA NoPort == 0 \in 0..MaxPort
BY ConstantsAssumption

LEMMA IdleIsJob == Idle \in Job
<1>1. Blank \in Sheet
  BY DEF Blank, Sheet, Targets
<1> QED
  BY <1>1, ConstantsAssumption, Nones DEF Idle, Job, PCs

LEMMA JobParts ==
    ASSUME NEW j \in Job, NEW pc \in PCs, NEW at \in Slots
    PROVE  /\ [j EXCEPT !.pc = pc] \in Job
           /\ [j EXCEPT !.at = at] \in Job
           /\ [j EXCEPT !.pc = pc, !.at = at] \in Job
BY DEF Job

LEMMA JobSheet ==
    ASSUME NEW j \in Job, NEW pc \in PCs, NEW sheet \in Sheet
    PROVE  [j EXCEPT !.pc = pc, !.sheet = sheet] \in Job
BY DEF Job

\* What the values of a slot are to each other.
LEMMA Values ==
    /\ {Absent, Off, Spent, Own} \subseteq Targets /\ Ports \subseteq Targets
    /\ Absent \notin Ports /\ Off \notin Ports /\ Spent \notin Ports /\ Own \notin Ports
    /\ Absent \notin {Off, Spent, Own} /\ Off \notin {Spent, Own} /\ Spent # Own
BY DEF Targets, Absent, Off, Spent, Own, Ports

\* The services, none of them at a port of ours.
LEMMA ListingIs == Listing \in Sheet /\ Clean(Listing) /\ SameServices(Listing, setting)
BY Values DEF Listing, Sheet, Clean, SameServices

\* What a slot is after it is restored.
LEMMA RestoredIs ==
    ASSUME NEW now \in Targets, NEW saved \in Targets
    PROVE  /\ Restored(now, saved) \in Targets
           /\ saved = Absent => Restored(now, saved) = now
           /\ saved # Absent =>
                 /\ Restored(now, saved) # Absent
                 /\ InEffect(Restored(now, saved)) = InEffect(saved)
                 /\ saved \notin Ports => Restored(now, saved) \notin Ports
BY Values DEF Restored, InEffect

\* What the slot saved next is saved as.
Saved(w) == IF job[w].sheet[job[w].at] = Absent THEN Absent ELSE setting[job[w].at]

LEMMA TypeInit == Init => TypeOK
<1> SUFFICES ASSUME Init PROVE TypeOK
  OBVIOUS
<1>1. setting \in Sheet /\ own \in Sheet
  BY Values DEF Init, Sheet
<1>2. job \in [Workers -> Job]
  BY IdleIsJob DEF Init
<1> QED
  BY <1>1, <1>2, NoPort DEF Init, TypeOK

\* Moving on, and going through the slots.
LEMMA MovesType ==
    ASSUME TypeOK, NEW w \in Workers, NEW pc \in PCs, Moves(w, pc) \/ Advances(w, pc)
    PROVE  job' \in [Workers -> Job]
<1>0. job \in [Workers -> Job] /\ job[w] \in Job
  BY DEF TypeOK
<1>1. CASE Moves(w, pc)
  <2>1. job' = [job EXCEPT ![w] = [job[w] EXCEPT !.pc = pc, !.at = 1]]
    BY <1>0, <1>1 DEF Moves, Job
  <2> QED
    BY <1>0, <2>1, JobParts, Nones
<1>2. CASE Advances(w, pc) /\ job[w].at < NumSlots
  <2>1. job[w].at + 1 \in Slots
    BY <1>0, <1>2, ConstantsAssumption DEF Job, Slots
  <2>2. job' = [job EXCEPT ![w] = [job[w] EXCEPT !.at = job[w].at + 1]]
    BY <1>0, <1>2 DEF Advances
  <2> QED
    BY <1>0, <2>1, <2>2, JobParts
<1> QED
  BY <1>1, <1>2 DEF Advances, Moves

LEMMA ReturnsType ==
    ASSUME TypeOK, NEW w \in Workers, NEW ok \in BOOLEAN, Returns(w, ok)
    PROVE  /\ proc' \in {"down", "exited", "booting", "up", "exiting"}
           /\ port' \in 0..MaxPort
           /\ flag' \in BOOLEAN
           /\ job' \in [Workers -> Job]
<1> USE IdleIsJob, NoPort DEF TypeOK
<1>1. CASE job[w].why = "exit"
  BY <1>1 DEF Returns, Ends
<1>2. CASE job[w].why = "launch"
  BY <1>2 DEF Returns
<1>3. CASE job[w].why = "stop"
  BY <1>3 DEF Returns
<1>4. CASE job[w].why \notin {"exit", "launch", "stop"}
  BY <1>4 DEF Returns
<1> QED
  BY <1>1, <1>2, <1>3, <1>4

LEMMA BeginsType ==
    ASSUME TypeOK, NEW w \in Workers, NEW pc \in PCs, NEW p \in 0..MaxPort,
           NEW why \in {"command", "stop", "launch", "exit"}, Begins(w, pc, p, why)
    PROVE  job' \in [Workers -> Job]
<1>1. [Idle EXCEPT !.pc = pc, !.port = p, !.why = why] \in Job
  BY IdleIsJob DEF Job
<1> QED
  BY <1>1 DEF Begins, TypeOK

LEMMA TypeNext == TypeOK /\ [Next]_vars => TypeOK'
<1> SUFFICES ASSUME TypeOK, [Next]_vars PROVE TypeOK'
  OBVIOUS
<1>0. job \in [Workers -> Job] /\ Shell \in Workers /\ Callers \subseteq Workers
  BY DEF TypeOK, Workers
<1>1. CASE Launch
  <2>1. [Idle EXCEPT !.pc = "reading", !.why = "launch"] \in Job
    BY IdleIsJob DEF Job, PCs
  <2> QED
    BY <1>0, <1>1, <2>1 DEF Launch, TypeOK, files
<1>2. CASE Crash
  <2>1. snap' \in Sheet \cup {None, Torn} /\ guard' \in BOOLEAN
    BY <1>2 DEF Crash, TypeOK, files
  <2> QED
    BY <1>2, <2>1, IdleIsJob, NoPort DEF Crash, Ends, TypeOK
<1>3. CASE Exit
  <2>1. [Idle EXCEPT !.pc = "reading", !.why = "exit"] \in Job
    BY IdleIsJob DEF Job, PCs
  <2> QED
    BY <1>0, <1>3, <2>1, IdleIsJob, NoPort DEF Exit, Ends, TypeOK, files
<1>4. ASSUME NEW w \in Callers, Command(w) PROVE TypeOK'
  <2>1. CASE \E p \in Ports : Start(w, p)
    BY <2>1 DEF Start, TypeOK, Ports, files
  <2>2. CASE Enable(w)
    BY <1>0, <2>2, BeginsType, NoPort DEF Enable, TypeOK, PCs, files
  <2>3. CASE Disable(w)
    BY <1>0, <2>3, BeginsType, NoPort DEF Disable, TypeOK, PCs, files
  <2>4. CASE Stop(w)
    BY <1>0, <2>4, BeginsType, NoPort DEF Stop, TypeOK, PCs, files
  <2> QED
    BY <1>4, <2>1, <2>2, <2>3, <2>4 DEF Command
<1>5. ASSUME NEW w \in Workers, JobStep(w) PROVE TypeOK'
  <2>0. job[w] \in Job /\ job[w].at \in Slots
    BY <1>0 DEF Job
  <2>1. CASE Swap(w)
    <3>1. job' \in [Workers -> Job]
      <4>1. CASE flag
        <5>1. job' = [job EXCEPT ![w] = [job[w] EXCEPT !.pc = "reading"]]
          BY <2>1, <4>1 DEF Swap
        <5> QED
          BY <1>0, <2>0, <5>1, JobParts DEF PCs
      <4>2. CASE ~flag
        BY <1>0, <2>1, <4>2, IdleIsJob DEF Swap
      <4> QED
        BY <4>1, <4>2
    <3> QED
      BY <2>1, <3>1 DEF Swap, TypeOK, files
  <2>2. CASE List(w)
    <3>1. Listing \in Sheet
      BY ListingIs
    <3>2. job' = [job EXCEPT ![w] = [job[w] EXCEPT !.pc = IF guard THEN "setting" ELSE "saving",
                                                  !.sheet = Listing]]
      BY <1>0, <2>2 DEF List
    <3>3. job' \in [Workers -> Job]
      BY <1>0, <2>0, <3>1, <3>2, JobSheet DEF PCs
    <3> QED
      BY <2>2, <3>3 DEF List, TypeOK, files
  <2>3. CASE Save(w)
    <3> DEFINE saved == [job[w] EXCEPT !.sheet[job[w].at] = Saved(w)]
    <3>1. saved \in Job /\ saved.at = job[w].at
      <4>1. Saved(w) \in Targets
        BY <2>0, Values DEF TypeOK, Sheet, Saved
      <4>2. [job[w].sheet EXCEPT ![job[w].at] = Saved(w)] \in Sheet
        BY <2>0, <4>1 DEF Sheet, Job
      <4> QED
        BY <2>0, <4>2 DEF Job
    <3>2. job' \in [Workers -> Job]
      <4>1. CASE job[w].at < NumSlots
        <5>1. job[w].at + 1 \in Slots
          BY <2>0, <4>1, ConstantsAssumption DEF Slots
        <5>2. job' = [job EXCEPT ![w] = [saved EXCEPT !.at = saved.at + 1]]
          BY <2>3, <3>1, <4>1 DEF Save, Saved
        <5>3. [saved EXCEPT !.at = saved.at + 1] \in Job
          <6> HIDE DEF saved
          <6> QED
            BY <3>1, <5>1, JobParts DEF PCs
        <5> QED
          BY <1>0, <5>2, <5>3
      <4>2. CASE ~(job[w].at < NumSlots)
        <5>1. job' = [job EXCEPT ![w] = [saved EXCEPT !.pc = "writing", !.at = 1]]
          BY <2>3, <3>1, <4>2 DEF Save, Saved
        <5>2. [saved EXCEPT !.pc = "writing", !.at = 1] \in Job
          <6> HIDE DEF saved
          <6> QED
            BY <3>1, JobParts, Nones DEF PCs
        <5> QED
          BY <1>0, <5>1, <5>2
      <4> QED
        BY <4>1, <4>2
    <3> QED
      BY <2>3, <3>2 DEF Save, TypeOK, files
  <2>4. CASE WriteSnapshot(w)
    <3>1. job' \in [Workers -> Job]
      BY <2>4, MovesType DEF WriteSnapshot, PCs
    <3> QED
      BY <2>0, <2>4, <3>1 DEF WriteSnapshot, TypeOK, Job
  <2>5. CASE WriteGuard(w)
    <3>1. job' \in [Workers -> Job]
      BY <2>5, MovesType DEF WriteGuard, PCs
    <3> QED
      BY <2>5, <3>1 DEF WriteGuard, TypeOK
  <2>6. CASE SetSlot(w)
    <3>1. job' \in [Workers -> Job]
      BY <2>6, MovesType DEF SetSlot, PCs
    <3>2. job[w].port \in Targets /\ setting[job[w].at] \in Targets
      BY <2>0 DEF Job, Targets, Ports, Off, TypeOK, Sheet
    <3>3. setting' \in Sheet
      BY <2>0, <2>6, <3>2 DEF SetSlot, TypeOK, Sheet
    <3> QED
      BY <2>6, <3>1, <3>3 DEF SetSlot, TypeOK, files
  <2>7. CASE FlagOn(w)
    BY <1>0, <2>7, IdleIsJob DEF FlagOn, TypeOK, files
  <2>8. CASE ReadSnapshot(w)
    <3>1. job' = [job EXCEPT ![w] = [job[w] EXCEPT !.pc = "restoring",
                                !.sheet = IF snap \in {None, Torn} THEN Listing ELSE snap]]
      BY <1>0, <2>8 DEF ReadSnapshot
    <3>2. job' \in [Workers -> Job]
      BY <1>0, <2>0, <3>1, JobSheet, ListingIs DEF PCs, TypeOK
    <3> QED
      BY <2>8, <3>2 DEF ReadSnapshot, TypeOK, files
  <2>9. CASE RestoreSlot(w)
    <3>1. job' \in [Workers -> Job]
      BY <2>9, MovesType DEF RestoreSlot, PCs
    <3>2. setting' \in Sheet
      <4> DEFINE v == Restored(setting[job[w].at], job[w].sheet[job[w].at])
      <4>1. v \in Targets
        BY <2>0, RestoredIs DEF TypeOK, Sheet, Job
      <4> HIDE DEF v
      <4>2. setting' = [setting EXCEPT ![job[w].at] = v]
        BY <2>9 DEF RestoreSlot, v
      <4> QED
        BY <2>0, <4>1, <4>2 DEF TypeOK, Sheet
    <3> QED
      BY <2>9, <3>1, <3>2 DEF RestoreSlot, TypeOK, files
  <2>10. CASE RemoveSnapshot(w)
    <3>1. job' \in [Workers -> Job]
      BY <2>10, MovesType DEF RemoveSnapshot, PCs
    <3> QED
      BY <2>10, <3>1 DEF RemoveSnapshot, TypeOK
  <2>11. CASE RemoveGuard(w)
    <3>1. job' \in [Workers -> Job]
      BY <2>11, MovesType DEF RemoveGuard, PCs
    <3> QED
      BY <2>11, <3>1 DEF RemoveGuard, TypeOK
  <2>12. CASE Disabled(w)
    BY <2>12, ReturnsType DEF Disabled, TypeOK, files
  <2>13. CASE Fail(w)
    BY <2>13, ReturnsType DEF Fail, TypeOK
  <2> QED
    BY <1>5, <2>1, <2>2, <2>3, <2>4, <2>5, <2>6, <2>7, <2>8, <2>9, <2>10, <2>11, <2>12, <2>13
       DEF JobStep
<1>6. ASSUME NEW s \in Slots, Appears(s) PROVE TypeOK'
  BY <1>6, Values DEF Appears, TypeOK, Sheet, files
<1>7. CASE UNCHANGED vars
  BY <1>7 DEF vars, files, TypeOK
<1> QED
  BY <1>1, <1>2, <1>3, <1>4, <1>5, <1>6, <1>7 DEF Next

\* Type correctness, with any number of commands at a time.
THEOREM TypeTheorem == Spec => []TypeOK
BY TypeInit, TypeNext, PTL DEF Spec

-----------------------------------------------------------------------------
(* The services *)

LEMMA MovesTo ==
    ASSUME TypeOK, NEW w \in Workers, NEW pc, Moves(w, pc)
    PROVE  job' = [job EXCEPT ![w] = [job[w] EXCEPT !.pc = pc, !.at = 1]]
BY DEF TypeOK, Moves, Job

LEMMA AdvancesTo ==
    ASSUME TypeOK, NEW w \in Workers, NEW pc, Advances(w, pc)
    PROVE  job' = [job EXCEPT ![w] = IF job[w].at < NumSlots
                                     THEN [job[w] EXCEPT !.at = job[w].at + 1]
                                     ELSE [job[w] EXCEPT !.pc = pc, !.at = 1]]
BY MovesTo DEF TypeOK, Advances

\* However a job ends, those that go on are the others'.
LEMMA ReturnsLeaves ==
    ASSUME TypeOK, NEW w \in Workers, NEW ok \in BOOLEAN, Returns(w, ok)
    PROVE  /\ job'[w].pc = "idle"
           /\ \A v \in Workers \ {w} : job'[v] = job[v] \/ job'[v].pc = "idle"
<1>1. CASE job[w].why = "exit"
  BY <1>1 DEF Returns, Ends, Idle
<1>2. CASE job[w].why # "exit"
  <2>1. job' = [job EXCEPT ![w] = Idle]
    BY <1>2 DEF Returns
  <2> QED
    BY <2>1 DEF TypeOK, Idle
<1> QED
  BY <1>1, <1>2

LEMMA PresentInit == Init => PresentInv
<1> SUFFICES ASSUME Init PROVE PresentInv
  OBVIOUS
<1>1. \A w \in Workers : job[w].pc = "idle"
  BY DEF Init, Idle
<1> QED
  BY <1>1, Nones DEF Init, PresentInv, SameServices, Holding

\* No service comes or goes, and whatever is written down is of those there are.
LEMMA PresentStays ==
    ASSUME PresentInv, UNCHANGED own, SameServices(setting', setting),
           snap' \in Sheet => SameServices(snap', setting),
           \A w \in Workers : job'[w].pc \in Holding =>
               \/ job'[w].sheet = job[w].sheet /\ job[w].pc \in Holding
               \/ SameServices(job'[w].sheet, setting)
    PROVE  PresentInv'
<1>1. SameServices(own, setting)' /\ (snap \in Sheet => SameServices(snap, setting))'
  BY DEF PresentInv, SameServices
<1>2. ASSUME NEW w \in Workers, job'[w].pc \in Holding PROVE SameServices(job[w].sheet, setting)'
  <2>1. SameServices(job'[w].sheet, setting)
    BY <1>2 DEF PresentInv
  <2> QED
    BY <2>1 DEF SameServices
<1> QED
  BY <1>1, <1>2 DEF PresentInv

\* A step of one worker that writes nothing down.
LEMMA PresentJob ==
    ASSUME TypeOK, PresentInv, NEW w \in Workers, NEW j, job' = [job EXCEPT ![w] = j],
           \/ j.pc \notin Holding
           \/ j.sheet = job[w].sheet /\ job[w].pc \in Holding
           \/ SameServices(j.sheet, setting),
           UNCHANGED own, SameServices(setting', setting), snap' \in {snap, None, Torn}
    PROVE  PresentInv'
<1>1. job'[w] = j /\ \A v \in Workers \ {w} : job'[v] = job[v]
  BY DEF TypeOK
<1>2. snap' \in Sheet => SameServices(snap', setting)
  BY Nones DEF PresentInv
<1>3. \A v \in Workers : job'[v].pc \in Holding =>
               \/ job'[v].sheet = job[v].sheet /\ job[v].pc \in Holding
               \/ SameServices(job'[v].sheet, setting)
  BY <1>1
<1> QED
  BY <1>2, <1>3, PresentStays

LEMMA PresentStep ==
    ASSUME TypeOK, PresentInv, NEW w \in Workers, JobStep(w)
    PROVE  PresentInv'
<1>0. job \in [Workers -> Job] /\ job[w] \in Job /\ job[w].at \in Slots /\ setting \in Sheet
  BY DEF TypeOK, Job
<1>a. SameServices(setting, setting)
  BY DEF SameServices
<1>1. CASE Swap(w)
  <2> DEFINE j == IF flag THEN [job[w] EXCEPT !.pc = "reading"] ELSE Idle
  <2>1. job' = [job EXCEPT ![w] = j] /\ UNCHANGED <<setting, snap, own>>
    BY <1>1 DEF Swap, files
  <2>2. j.pc \notin Holding
    BY <1>0 DEF Job, Idle, Holding
  <2> HIDE DEF j
  <2> QED
    BY <1>a, <2>1, <2>2, PresentJob
<1>2. CASE List(w)
  <2> DEFINE j == [job[w] EXCEPT !.pc = IF guard THEN "setting" ELSE "saving", !.sheet = Listing]
  <2>1. job' = [job EXCEPT ![w] = j] /\ UNCHANGED <<setting, snap, own>>
    BY <1>0, <1>2 DEF List, files
  <2>2. SameServices(j.sheet, setting)
    BY <1>0, ListingIs DEF Job
  <2> HIDE DEF j
  <2> QED
    BY <1>a, <2>1, <2>2, PresentJob
<1>3. CASE Save(w)
  <2> DEFINE saved == [job[w] EXCEPT !.sheet[job[w].at] = Saved(w)]
             j == IF saved.at < NumSlots THEN [saved EXCEPT !.at = saved.at + 1]
                  ELSE [saved EXCEPT !.pc = "writing", !.at = 1]
  <2>1. job' = [job EXCEPT ![w] = j] /\ UNCHANGED <<setting, snap, own>> /\ job[w].pc = "saving"
    BY <1>0, <1>3 DEF Save, Saved, files
  <2>2. j.sheet = [job[w].sheet EXCEPT ![job[w].at] = Saved(w)]
    BY <1>0 DEF Job
  <2> HIDE DEF j
  <2>3. SameServices(job[w].sheet, setting) /\ job[w].sheet \in Sheet
    BY <1>0, <2>1 DEF PresentInv, Holding, Job
  <2>4. SameServices(j.sheet, setting)
    BY <1>0, <2>2, <2>3 DEF SameServices, Saved, Sheet
  <2> QED
    BY <1>a, <2>1, <2>4, PresentJob
<1>4. CASE WriteSnapshot(w)
  <2> DEFINE j == [job[w] EXCEPT !.pc = "guarding", !.at = 1]
  <2>1. job' = [job EXCEPT ![w] = j] /\ snap' = job[w].sheet /\ UNCHANGED <<setting, own>>
          /\ job[w].pc \in Holding
    BY <1>4, MovesTo DEF WriteSnapshot, Holding
  <2>2. j.sheet = job[w].sheet
    BY <1>0 DEF Job
  <2> HIDE DEF j
  <2>3. SameServices(snap', setting)
    BY <2>1 DEF PresentInv
  <2>4. job'[w] = j /\ \A v \in Workers \ {w} : job'[v] = job[v]
    BY <1>0, <2>1
  <2> QED
    BY <1>a, <2>1, <2>2, <2>3, <2>4, PresentStays
<1>5. CASE WriteGuard(w)
  <2> DEFINE j == [job[w] EXCEPT !.pc = "setting", !.at = 1]
  <2>1. job' = [job EXCEPT ![w] = j] /\ UNCHANGED <<setting, snap, own>> /\ job[w].pc \in Holding
    BY <1>5, MovesTo DEF WriteGuard, Holding
  <2>2. j.sheet = job[w].sheet
    BY <1>0 DEF Job
  <2> HIDE DEF j
  <2> QED
    BY <1>a, <2>1, <2>2, PresentJob
<1>6. CASE SetSlot(w)
  <2> DEFINE j == IF job[w].at < NumSlots THEN [job[w] EXCEPT !.at = job[w].at + 1]
                  ELSE [job[w] EXCEPT !.pc = "enabled", !.at = 1]
  <2>1. job' = [job EXCEPT ![w] = j] /\ UNCHANGED <<snap, own>> /\ job[w].pc \in Holding
    BY <1>6, AdvancesTo DEF SetSlot, files, Holding
  <2>2. j.sheet = job[w].sheet
    BY <1>0 DEF Job
  <2> HIDE DEF j
  <2>3. SameServices(job[w].sheet, setting) /\ job[w].port # Absent
    BY <1>0, <2>1 DEF PresentInv, Job, Absent
  <2>4. SameServices(setting', setting)
    BY <1>0, <1>6, <2>3 DEF SetSlot, SameServices, Sheet
  <2> QED
    BY <2>1, <2>2, <2>4, PresentJob
<1>7. CASE ReadSnapshot(w)
  <2> DEFINE sheet == IF snap \in {None, Torn} THEN Listing ELSE snap
             j     == [job[w] EXCEPT !.pc = "restoring", !.sheet = sheet]
  <2>1. job' = [job EXCEPT ![w] = j] /\ UNCHANGED <<setting, snap, own>>
    BY <1>0, <1>7 DEF ReadSnapshot, files
  <2>2. j.sheet = sheet
    BY <1>0 DEF Job
  <2>3. SameServices(sheet, setting)
    BY ListingIs DEF PresentInv, TypeOK
  <2> HIDE DEF j, sheet
  <2> QED
    BY <1>a, <2>1, <2>2, <2>3, PresentJob
<1>8. CASE RestoreSlot(w)
  <2> DEFINE j == IF job[w].at < NumSlots THEN [job[w] EXCEPT !.at = job[w].at + 1]
                  ELSE [job[w] EXCEPT !.pc = "unsnapping", !.at = 1]
             v == Restored(setting[job[w].at], job[w].sheet[job[w].at])
  <2>1. job' = [job EXCEPT ![w] = j] /\ UNCHANGED <<snap, own>> /\ job[w].pc \in Holding
    BY <1>8, AdvancesTo DEF RestoreSlot, files, Holding
  <2>2. j.sheet = job[w].sheet
    BY <1>0 DEF Job
  <2>3. SameServices(job[w].sheet, setting)
    BY <2>1 DEF PresentInv
  <2>4. v = Absent <=> setting[job[w].at] = Absent
    BY <1>0, <2>3, RestoredIs DEF SameServices, Sheet, Job
  <2>5. setting' = [setting EXCEPT ![job[w].at] = v]
    BY <1>8 DEF RestoreSlot
  <2> HIDE DEF j, v
  <2>6. SameServices(setting', setting)
    BY <1>0, <2>4, <2>5 DEF SameServices, Sheet
  <2> QED
    BY <2>1, <2>2, <2>6, PresentJob
<1>9. ASSUME NEW pc \in {"unguarding", "disabled"}, Moves(w, pc), UNCHANGED <<setting, own>>,
             snap' \in {snap, None, Torn}
      PROVE  PresentInv'
  <2> DEFINE j == [job[w] EXCEPT !.pc = pc, !.at = 1]
  <2>1. job' = [job EXCEPT ![w] = j]
    BY <1>9, MovesTo
  <2>2. j.pc \notin Holding
    BY <1>0 DEF Job, Holding
  <2> HIDE DEF j
  <2> QED
    BY <1>9, <1>a, <2>1, <2>2, PresentJob
<1>10. CASE FlagOn(w)
  <2>1. Idle.pc \notin Holding
    BY DEF Idle, Holding
  <2> QED
    BY <1>10, <1>a, <2>1, PresentJob DEF FlagOn, files
<1>11. CASE Disabled(w) \/ Fail(w)
  <2>1. /\ job'[w].pc = "idle"
        /\ \A v \in Workers \ {w} : job'[v] = job[v] \/ job'[v].pc = "idle"
        /\ UNCHANGED <<setting, own>> /\ snap' \in {snap, Torn}
    BY <1>11, ReturnsLeaves DEF Disabled, Fail, files
  <2>2. snap' \in Sheet => SameServices(snap', setting)
    BY <2>1, Nones DEF PresentInv
  <2>3. \A v \in Workers : job'[v].pc \in Holding =>
               job'[v].sheet = job[v].sheet /\ job[v].pc \in Holding
    BY <2>1 DEF Holding
  <2> QED
    BY <1>a, <2>1, <2>2, <2>3, PresentStays
<1>12. CASE RemoveSnapshot(w) \/ RemoveGuard(w)
  BY <1>9, <1>12 DEF RemoveSnapshot, RemoveGuard
<1> QED
  BY <1>1, <1>2, <1>3, <1>4, <1>5, <1>6, <1>7, <1>8, <1>10, <1>11, <1>12 DEF JobStep

LEMMA PresentNext == ~Roaming /\ TypeOK /\ PresentInv /\ [Next]_vars => PresentInv'
<1> SUFFICES ASSUME ~Roaming, TypeOK, PresentInv, [Next]_vars PROVE PresentInv'
  OBVIOUS
<1>0. job \in [Workers -> Job] /\ Shell \in Workers /\ setting \in Sheet /\ own \in Sheet
  BY Values DEF TypeOK, Workers, Sheet
<1>a. SameServices(setting, setting) /\ Idle.pc \notin Holding
  BY DEF SameServices, Idle, Holding
\* A worker begins something.
<1>1. ASSUME NEW w \in Workers, NEW j, job' = [job EXCEPT ![w] = j], j.pc \notin Holding,
             UNCHANGED <<setting, snap, own>>
      PROVE  PresentInv'
  BY <1>1, <1>a, PresentJob
\* Nobody works, and no snapshot has been written.
<1>2. ASSUME job' = [w \in Workers |-> Idle], UNCHANGED <<setting, own>>, snap' \in {snap, Torn}
      PROVE  PresentInv'
  <2>1. \A v \in Workers : job'[v].pc \notin Holding
    BY <1>2, <1>a
  <2>2. snap' \in Sheet => SameServices(snap', setting)
    BY <1>2, Nones DEF PresentInv
  <2> QED
    BY <1>2, <1>a, <2>1, <2>2, PresentStays
\* Nothing of it changes.
<1>3. ASSUME UNCHANGED <<job, setting, snap, own>> PROVE PresentInv'
  BY <1>3 DEF PresentInv, SameServices
<1>4. ASSUME NEW s \in Slots, Appears(s) PROVE PresentInv'
  <2>1. snap' = None /\ \A w \in Workers : job'[w].pc = "idle"
    BY <1>4 DEF Appears, AllIdle, files
  <2>2. PICK t \in {Off, Own} : setting' = [setting EXCEPT ![s] = t] /\ own' = [own EXCEPT ![s] = t]
    BY <1>4 DEF Appears
  <2>3. SameServices(own', setting')
    BY <1>0, <2>2 DEF PresentInv, SameServices, Sheet
  <2> QED
    BY <2>1, <2>3, Nones DEF PresentInv, Holding
<1>5. CASE Launch
  <2> DEFINE j == [Idle EXCEPT !.pc = "reading", !.why = "launch"]
  <2>1. j.pc \notin Holding
    BY DEF Idle, Holding
  <2>2. job' = [job EXCEPT ![Shell] = j] \/ job' = job
    BY <1>5 DEF Launch
  <2> HIDE DEF j
  <2> QED
    BY <1>0, <1>1, <1>3, <1>5, <2>1, <2>2 DEF Launch, files
<1>6. CASE Crash
  BY <1>2, <1>6 DEF Crash, Ends, files
<1>7. CASE Exit
  <2> DEFINE j == [Idle EXCEPT !.pc = "reading", !.why = "exit"]
  <2>1. j.pc \notin Holding
    BY DEF Idle, Holding
  <2>2. job' = [job EXCEPT ![Shell] = j] \/ job' = [w \in Workers |-> Idle]
    BY <1>7 DEF Exit, Ends
  <2> HIDE DEF j
  <2> QED
    BY <1>0, <1>1, <1>2, <1>7, <2>1, <2>2 DEF Exit, files
<1>8. ASSUME NEW w \in Callers, Command(w) PROVE PresentInv'
  <2>1. ASSUME NEW pc \in {"listing", "reading", "swapping"}, NEW p, NEW why, Begins(w, pc, p, why),
               UNCHANGED <<setting, snap, own>>
        PROVE  PresentInv'
    <3> DEFINE j == [Idle EXCEPT !.pc = pc, !.port = p, !.why = why]
    <3>1. j.pc \notin Holding /\ job' = [job EXCEPT ![w] = j] /\ w \in Workers
      BY <2>1 DEF Idle, Holding, Begins, Workers
    <3> HIDE DEF j
    <3> QED
      BY <1>1, <2>1, <3>1
  <2> QED
    BY <1>3, <1>8, <2>1 DEF Command, Start, Enable, Disable, Stop, files
<1>9. ASSUME NEW w \in Workers, JobStep(w) PROVE PresentInv'
  BY <1>9, PresentStep
<1>10. CASE UNCHANGED vars
  BY <1>3, <1>10 DEF vars, files
<1> QED
  BY <1>4, <1>5, <1>6, <1>7, <1>8, <1>9, <1>10 DEF Next

-----------------------------------------------------------------------------
(* The invariant *)

LEMMA InitInv == OneAtATime /\ Init => ProxyInv
<1> SUFFICES ASSUME OneAtATime, Init PROVE ProxyInv
  OBVIOUS
<1>1. Clean(setting)
  BY Values DEF Init, Clean
<1>2. \A w \in Workers : job[w] = Idle /\ job[w].pc = "idle"
  BY DEF Init, Idle
<1>3. AloneInv
  BY <1>2 DEF AloneInv, Init
<1>4. JobInv
  BY <1>2 DEF JobInv, EnableInv, DisableInv, Enabling, Disabling
<1>5. SheetInv
  BY <1>1, Nones DEF SheetInv, SwitchIsTrue, Init
<1> QED
  BY <1>3, <1>4, <1>5, TypeInit, PresentInit DEF ProxyInv

\* Whoever works is alone, and what it makes of its job is all that changes.
LEMMA Alone ==
    ASSUME ProxyInv, NEW w \in Workers, job[w].pc # "idle",
           NEW j, job' = [job EXCEPT ![w] = j]
    PROVE  /\ job'[w] = j
           /\ \A v \in Workers \ {w} : job'[v] = job[v] /\ job'[v].pc = "idle"
BY DEF ProxyInv, TypeOK, AloneInv

\* So the invariants of the other workers are void.
LEMMA OnlyOne ==
    ASSUME NEW w \in Workers, \A v \in Workers \ {w} : job'[v].pc = "idle",
           EnableInv(w)', DisableInv(w)'
    PROVE  JobInv'
BY DEF JobInv, EnableInv, DisableInv, Enabling, Disabling

\* A worker that goes on in enable or disable stays the one it is.
LEMMA GoesOn ==
    ASSUME ProxyInv, NEW w \in Workers, job[w].pc # "idle",
           NEW j, job' = [job EXCEPT ![w] = j], j.why = job[w].why,
           \/ job[w].pc \in Enabling /\ j.pc \in Enabling
           \/ job[w].pc \in Disabling /\ j.pc \in Disabling,
           UNCHANGED <<proc, flag>>
    PROVE  AloneInv'
<1>1. job'[w] = j /\ \A v \in Workers \ {w} : job'[v].pc = "idle"
  BY Alone
<1>2. j.pc # "idle" /\ (j.pc \in Enabling => job[w].pc \in Enabling)
  BY DEF Enabling, Disabling
<1>3. w = Shell => j.pc \in Disabling
  BY DEF ProxyInv, AloneInv, Enabling, Disabling
<1> QED
  BY <1>1, <1>2, <1>3 DEF ProxyInv, AloneInv

LEMMA LastSlot ==
    ASSUME NEW at \in Slots, NEW s \in Slots
    PROVE  /\ s < at + 1 <=> s < at \/ s = at
           /\ ~(at < NumSlots) => s < at \/ s = at
           /\ ~(s < 1)
BY ConstantsAssumption DEF Slots

-----------------------------------------------------------------------------
(* enable *)

\* While someone works, whether the switch is true is left open.
LEMMA Works ==
    ASSUME NEW w \in Workers, job'[w].pc # "idle", (guard \/ Clean(setting))',
           (snap \in Sheet => Clean(snap))'
    PROVE  SheetInv'
BY DEF SheetInv, SwitchIsTrue, AllIdle

LEMMA ListInv == ASSUME ProxyInv, NEW w \in Workers, List(w) PROVE AloneInv' /\ JobInv' /\ SheetInv'
<1> DEFINE j == [job[w] EXCEPT !.pc = IF guard THEN "setting" ELSE "saving",
                               !.sheet = Listing]
<1>0. TypeOK /\ job[w] \in Job /\ job[w].pc = "listing"
  BY DEF ProxyInv, TypeOK, List
<1>1. job' = [job EXCEPT ![w] = j]
  BY <1>0 DEF List, TypeOK, Job
<1>2. j.pc = (IF guard THEN "setting" ELSE "saving") /\ j.port = job[w].port
        /\ j.at = job[w].at /\ j.sheet = Listing /\ j.why = job[w].why
  BY <1>0 DEF Job
<1> HIDE DEF j
<1>3. job'[w] = j /\ \A v \in Workers \ {w} : job'[v].pc = "idle"
  BY <1>0, <1>1, Alone
<1>4. AloneInv'
  BY <1>0, <1>1, <1>2, GoesOn DEF List, Enabling
<1>5. UNCHANGED <<port, setting, guard, snap, failed, flag>>
  BY DEF List, files
<1>6. Listing \in Sheet /\ Clean(Listing)
  BY ListingIs
<1>7. EnableInv(w)'
  BY <1>0, <1>2, <1>3, <1>5, <1>6, LastSlot DEF EnableInv, ProxyInv, JobInv, Enabling
<1>8. DisableInv(w)'
  BY <1>2, <1>3 DEF DisableInv, Disabling
<1>9. JobInv'
  BY <1>3, <1>7, <1>8, OnlyOne
<1>10. SheetInv'
  BY <1>2, <1>3, <1>5, Works DEF ProxyInv, SheetInv, Clean
<1> QED
  BY <1>4, <1>9, <1>10

LEMMA SaveInv == ASSUME ProxyInv, NEW w \in Workers, Save(w) PROVE AloneInv' /\ JobInv' /\ SheetInv'
<1> DEFINE saved == [job[w] EXCEPT !.sheet[job[w].at] = Saved(w)]
           j == IF saved.at < NumSlots THEN [saved EXCEPT !.at = saved.at + 1]
                ELSE [saved EXCEPT !.pc = "writing", !.at = 1]
<1>0. TypeOK /\ job[w] \in Job /\ job[w].pc = "saving" /\ job[w].at \in Slots
  BY DEF ProxyInv, TypeOK, Save, Job
<1>1. job' = [job EXCEPT ![w] = j]
  BY <1>0 DEF Save, Saved, TypeOK, Job
<1>2. j.pc \in {"saving", "writing"} /\ j.port = job[w].port /\ j.why = job[w].why
        /\ j.sheet = [job[w].sheet EXCEPT ![job[w].at] = Saved(w)]
  BY <1>0 DEF Job
<1> HIDE DEF j
<1>3. job'[w] = j /\ \A v \in Workers \ {w} : job'[v].pc = "idle"
  BY <1>0, <1>1, Alone
<1>4. UNCHANGED <<proc, port, setting, guard, snap, failed, flag>>
  BY DEF Save, files
<1>5. AloneInv'
  BY <1>0, <1>1, <1>2, <1>4, GoesOn DEF Enabling
<1>6. /\ ~guard /\ Clean(setting) /\ port \in Ports /\ job[w].port = port
      /\ job[w].sheet \in Sheet /\ Clean(job[w].sheet)
  BY <1>0 DEF ProxyInv, JobInv, EnableInv, SheetInv, Enabling, Job
<1>7. j.sheet \in Sheet /\ Clean(j.sheet)
  <2>1. Saved(w) \in Targets /\ Saved(w) \notin Ports
    BY <1>0, <1>6, Values DEF Saved, Sheet, Clean, TypeOK
  <2> QED
    BY <1>0, <1>2, <1>6, <2>1 DEF Sheet, Clean
<1>8. EnableInv(w)'
  BY <1>2, <1>3, <1>4, <1>6, <1>7 DEF EnableInv, Clean
<1>9. DisableInv(w)'
  BY <1>2, <1>3 DEF DisableInv, Disabling
<1>10. JobInv'
  BY <1>3, <1>8, <1>9, OnlyOne
<1>11. SheetInv'
  BY <1>2, <1>3, <1>4, Works DEF ProxyInv, SheetInv, Clean
<1> QED
  BY <1>5, <1>10, <1>11

LEMMA WriteInv ==
    ASSUME ProxyInv, NEW w \in Workers, WriteSnapshot(w) \/ WriteGuard(w)
    PROVE  AloneInv' /\ JobInv' /\ SheetInv'
<1> DEFINE pc == IF job[w].pc = "writing" THEN "guarding" ELSE "setting"
           j  == [job[w] EXCEPT !.pc = pc, !.at = 1]
<1>0. TypeOK /\ job[w] \in Job /\ job[w].pc \in {"writing", "guarding"}
  BY DEF ProxyInv, TypeOK, WriteSnapshot, WriteGuard
<1>1. job' = [job EXCEPT ![w] = j]
  BY <1>0, MovesTo DEF WriteSnapshot, WriteGuard
<1>2. j.pc = pc /\ j.at = 1 /\ j.port = job[w].port /\ j.why = job[w].why
  BY <1>0 DEF Job
<1> HIDE DEF j
<1>3. job'[w] = j /\ \A v \in Workers \ {w} : job'[v].pc = "idle"
  BY <1>0, <1>1, Alone
<1>4. UNCHANGED <<proc, port, setting, failed, flag>>
  BY DEF WriteSnapshot, WriteGuard
<1>5. AloneInv'
  BY <1>0, <1>1, <1>2, <1>4, GoesOn DEF Enabling
<1>6. ~guard /\ Clean(setting) /\ port \in Ports /\ job[w].port = port
  BY <1>0 DEF ProxyInv, JobInv, EnableInv, SheetInv, Enabling
<1>7. job[w].pc = "writing" => guard' = guard /\ snap' = job[w].sheet /\ Clean(job[w].sheet)
  BY <1>0 DEF ProxyInv, JobInv, EnableInv, WriteSnapshot, WriteGuard
<1>8. job[w].pc = "guarding" => guard' = TRUE /\ snap' = snap
  BY <1>0 DEF WriteSnapshot, WriteGuard
<1>9. EnableInv(w)'
  BY <1>0, <1>2, <1>3, <1>4, <1>6, <1>7, <1>8, LastSlot DEF EnableInv
<1>10. DisableInv(w)'
  BY <1>2, <1>3 DEF DisableInv, Disabling
<1>11. JobInv'
  BY <1>3, <1>9, <1>10, OnlyOne
<1>12. (guard \/ Clean(setting))' /\ (snap \in Sheet => Clean(snap))'
  BY <1>0, <1>4, <1>6, <1>7, <1>8 DEF ProxyInv, SheetInv, Clean
<1>13. SheetInv'
  BY <1>2, <1>3, <1>12, Works
<1> QED
  BY <1>5, <1>11, <1>13

LEMMA SetSlotInv ==
    ASSUME ProxyInv, NEW w \in Workers, SetSlot(w)
    PROVE  AloneInv' /\ JobInv' /\ SheetInv'
<1> DEFINE j == IF job[w].at < NumSlots THEN [job[w] EXCEPT !.at = job[w].at + 1]
                ELSE [job[w] EXCEPT !.pc = "enabled", !.at = 1]
<1>0. TypeOK /\ job[w] \in Job /\ job[w].pc = "setting" /\ job[w].at \in Slots
  BY DEF ProxyInv, TypeOK, SetSlot, Job
<1>1. job' = [job EXCEPT ![w] = j]
  BY <1>0, AdvancesTo DEF SetSlot
<1>2. j.port = job[w].port /\ j.why = job[w].why
        /\ \/ job[w].at < NumSlots /\ j.pc = "setting" /\ j.at = job[w].at + 1
           \/ ~(job[w].at < NumSlots) /\ j.pc = "enabled"
  BY <1>0 DEF Job
<1> HIDE DEF j
<1>3. job'[w] = j /\ \A v \in Workers \ {w} : job'[v].pc = "idle"
  BY <1>0, <1>1, Alone
<1>4. UNCHANGED <<proc, port, guard, snap, failed, flag>>
  BY DEF SetSlot, files
<1>5. AloneInv'
  BY <1>0, <1>1, <1>2, <1>4, GoesOn DEF Enabling
<1>6. guard /\ port \in Ports /\ job[w].port = port
        /\ \A s \in Slots : s < job[w].at => setting[s] \in {port, Absent}
  BY <1>0 DEF ProxyInv, JobInv, EnableInv, Enabling
<1>a. job[w].sheet[job[w].at] = Absent => setting[job[w].at] = Absent
  BY <1>0 DEF ProxyInv, PresentInv, SameServices, Holding
<1>7. \A s \in Slots : s < job[w].at \/ s = job[w].at => setting'[s] \in {port, Absent}
  BY <1>0, <1>6, <1>a DEF SetSlot, TypeOK, Sheet
<1>8. EnableInv(w)'
  <2>1. CASE j.pc = "setting"
    BY <1>0, <1>2, <1>3, <1>4, <1>6, <1>7, <2>1, LastSlot DEF EnableInv
  <2>2. CASE j.pc = "enabled"
    BY <1>0, <1>2, <1>3, <1>4, <1>6, <1>7, <2>2, LastSlot DEF EnableInv
  <2> QED
    BY <1>2, <2>1, <2>2
<1>9. DisableInv(w)'
  BY <1>2, <1>3 DEF DisableInv, Disabling
<1>10. JobInv'
  BY <1>3, <1>8, <1>9, OnlyOne
<1>11. (guard \/ Clean(setting))' /\ (snap \in Sheet => Clean(snap))'
  BY <1>4, <1>6 DEF ProxyInv, SheetInv, Clean
<1>12. SheetInv'
  BY <1>2, <1>3, <1>11, Works
<1> QED
  BY <1>5, <1>10, <1>12

\* When a worker is done, nobody works.
LEMMA Ended ==
    ASSUME ProxyInv, NEW w \in Workers, job[w].pc # "idle", job' = [job EXCEPT ![w] = Idle]
    PROVE  AllIdle' /\ JobInv'
<1>1. job'[w] = Idle /\ \A v \in Workers \ {w} : job'[v].pc = "idle"
  BY Alone
<1>2. \A v \in Workers : job'[v].pc = "idle"
  BY <1>1 DEF Idle
<1> QED
  BY <1>2 DEF AllIdle, JobInv, EnableInv, DisableInv, Enabling, Disabling

LEMMA FlagOnInv ==
    ASSUME ProxyInv, NEW w \in Workers, FlagOn(w)
    PROVE  AloneInv' /\ JobInv' /\ SheetInv'
<1>1. w # Shell /\ proc = "up" /\ job[w].pc = "enabled"
  BY DEF ProxyInv, AloneInv, FlagOn, Disabling
<1>2. AllIdle' /\ JobInv'
  BY <1>1, Ended DEF FlagOn
<1>3. AloneInv'
  BY <1>1, <1>2 DEF FlagOn, AloneInv, AllIdle
<1>4. guard /\ port # 0 /\ \A s \in Slots : setting[s] \in {port, Absent}
  BY <1>1 DEF ProxyInv, JobInv, EnableInv, Enabling, Ports
<1>5. SheetInv'
  BY <1>1, <1>4 DEF FlagOn, ProxyInv, SheetInv, SwitchIsTrue, Clean, files
<1> QED
  BY <1>2, <1>3, <1>5

-----------------------------------------------------------------------------
(* disable *)

LEMMA SwapInv == ASSUME ProxyInv, NEW w \in Workers, Swap(w) PROVE AloneInv' /\ JobInv' /\ SheetInv'
<1>0. TypeOK /\ job[w] \in Job /\ job[w].pc = "swapping"
  BY DEF ProxyInv, TypeOK, Swap
<1>1. w # Shell /\ proc = "up" /\ job[w].why \in {"command", "stop"}
  BY <1>0 DEF ProxyInv, AloneInv, Disabling
<1>2. job[w].at = 1 /\ (~failed => flag \/ Clean(setting))
  BY <1>0 DEF ProxyInv, JobInv, DisableInv
<1>3. UNCHANGED <<proc, port, setting, guard, snap, failed>> /\ ~flag'
  BY DEF Swap, files
<1>4. (guard \/ Clean(setting))' /\ (snap \in Sheet => Clean(snap))'
  BY <1>3 DEF ProxyInv, SheetInv, Clean
<1>5. CASE flag
  <2> DEFINE j == [job[w] EXCEPT !.pc = "reading"]
  <2>1. job' = [job EXCEPT ![w] = j]
    BY <1>0, <1>5 DEF Swap
  <2>2. j.pc = "reading" /\ j.why = job[w].why /\ j.at = job[w].at
    BY <1>0 DEF Job
  <2> HIDE DEF j
  <2>3. job'[w] = j /\ \A v \in Workers \ {w} : job'[v].pc = "idle"
    BY <1>0, <2>1, Alone
  <2>4. AloneInv'
    BY <1>1, <1>3, <2>2, <2>3 DEF AloneInv, Enabling
  <2>5. EnableInv(w)' /\ DisableInv(w)'
    BY <1>2, <1>3, <2>2, <2>3 DEF EnableInv, DisableInv, Enabling
  <2>6. JobInv'
    BY <2>3, <2>5, OnlyOne
  <2>7. SheetInv'
    BY <1>4, <2>2, <2>3, Works
  <2> QED
    BY <2>4, <2>6, <2>7
<1>6. CASE ~flag
  <2>1. AllIdle' /\ JobInv'
    BY <1>0, <1>6, Ended DEF Swap
  <2>2. AloneInv'
    BY <1>1, <1>3, <2>1 DEF AloneInv, AllIdle
  <2>3. SheetInv'
    BY <1>2, <1>3, <1>4, <1>6 DEF SheetInv, SwitchIsTrue, Ours, Clean
  <2> QED
    BY <2>1, <2>2, <2>3
<1> QED
  BY <1>5, <1>6

LEMMA ReadSnapshotInv ==
    ASSUME ProxyInv, NEW w \in Workers, ReadSnapshot(w)
    PROVE  AloneInv' /\ JobInv' /\ SheetInv'
<1> DEFINE sheet == IF snap \in {None, Torn} THEN Listing ELSE snap
           j     == [job[w] EXCEPT !.pc = "restoring", !.sheet = sheet]
<1>0. TypeOK /\ job[w] \in Job /\ job[w].pc = "reading"
  BY DEF ProxyInv, TypeOK, ReadSnapshot
<1>1. job' = [job EXCEPT ![w] = j]
  BY <1>0 DEF ReadSnapshot, TypeOK, Job
<1>2. j.pc = "restoring" /\ j.why = job[w].why /\ j.at = job[w].at /\ j.sheet = sheet
  BY <1>0 DEF Job
<1> HIDE DEF j
<1>3. job'[w] = j /\ \A v \in Workers \ {w} : job'[v].pc = "idle"
  BY <1>0, <1>1, Alone
<1>4. UNCHANGED <<proc, port, setting, guard, snap, failed, flag>>
  BY DEF ReadSnapshot, files
<1>5. AloneInv'
  BY <1>0, <1>1, <1>2, <1>4, GoesOn DEF Disabling
<1>6. Clean(sheet)
  BY <1>0, ListingIs DEF ProxyInv, SheetInv, TypeOK
<1>7. job[w].at = 1 /\ (job[w].why = "stop" => ~flag)
  BY <1>0 DEF ProxyInv, JobInv, DisableInv, Disabling
<1>8. EnableInv(w)'
  BY <1>2, <1>3 DEF EnableInv, Enabling
<1>9. DisableInv(w)'
  <2> HIDE DEF sheet
  <2> QED
    BY <1>2, <1>3, <1>4, <1>6, <1>7, LastSlot, Nones DEF DisableInv, Clean
<1>10. JobInv'
  BY <1>3, <1>8, <1>9, OnlyOne
<1>11. SheetInv'
  BY <1>2, <1>3, <1>4, Works DEF ProxyInv, SheetInv, Clean
<1> QED
  BY <1>5, <1>10, <1>11

LEMMA RestoreSlotInv ==
    ASSUME ProxyInv, NEW w \in Workers, RestoreSlot(w)
    PROVE  AloneInv' /\ JobInv' /\ SheetInv'
<1> DEFINE j == IF job[w].at < NumSlots THEN [job[w] EXCEPT !.at = job[w].at + 1]
                ELSE [job[w] EXCEPT !.pc = "unsnapping", !.at = 1]
           v == Restored(setting[job[w].at], job[w].sheet[job[w].at])
<1>0. TypeOK /\ job[w] \in Job /\ job[w].pc = "restoring" /\ job[w].at \in Slots
  BY DEF ProxyInv, TypeOK, RestoreSlot, Job
<1>1. job' = [job EXCEPT ![w] = j]
  BY <1>0, AdvancesTo DEF RestoreSlot
<1>2. j.sheet = job[w].sheet /\ j.why = job[w].why
        /\ \/ job[w].at < NumSlots /\ j.pc = "restoring" /\ j.at = job[w].at + 1
           \/ ~(job[w].at < NumSlots) /\ j.pc = "unsnapping"
  BY <1>0 DEF Job
<1> HIDE DEF j
<1>3. job'[w] = j /\ \A u \in Workers \ {w} : job'[u].pc = "idle"
  BY <1>0, <1>1, Alone
<1>4. UNCHANGED <<proc, port, guard, snap, failed, flag>>
  BY DEF RestoreSlot, files
<1>5. AloneInv'
  BY <1>0, <1>1, <1>2, <1>4, GoesOn DEF Disabling
<1>6. /\ job[w].sheet \in Sheet /\ Clean(job[w].sheet)
      /\ \A s \in Slots : s < job[w].at => setting[s] \notin Ports
      /\ job[w].why = "stop" => ~flag
  BY <1>0 DEF ProxyInv, JobInv, DisableInv, Disabling, Job
<1>7. v \notin Ports
  <2>1. job[w].sheet[job[w].at] = Absent => setting[job[w].at] = Absent
    BY <1>0 DEF ProxyInv, PresentInv, SameServices, Holding
  <2>2. job[w].sheet[job[w].at] \in Targets \ Ports /\ setting[job[w].at] \in Targets
    BY <1>0, <1>6 DEF TypeOK, Sheet, Clean
  <2> QED
    BY <2>1, <2>2, RestoredIs, Values
<1>8. /\ \A s \in Slots : s < job[w].at \/ s = job[w].at => setting'[s] \notin Ports
      /\ Clean(setting) => Clean(setting')
  <2> HIDE DEF v
  <2>1. setting' = [setting EXCEPT ![job[w].at] = v]
    BY DEF RestoreSlot, v
  <2> QED
    BY <1>0, <1>6, <1>7, <2>1 DEF TypeOK, Sheet, Clean
<1>9. EnableInv(w)'
  BY <1>2, <1>3 DEF EnableInv, Enabling
<1>10. DisableInv(w)'
  <2>1. CASE j.pc = "restoring"
    BY <1>0, <1>2, <1>3, <1>4, <1>6, <1>8, <2>1, LastSlot DEF DisableInv, Clean
  <2>2. CASE j.pc = "unsnapping"
    BY <1>0, <1>2, <1>3, <1>4, <1>6, <1>8, <2>2, LastSlot DEF DisableInv, Clean
  <2> QED
    BY <1>2, <2>1, <2>2
<1>11. JobInv'
  BY <1>3, <1>9, <1>10, OnlyOne
<1>12. (guard \/ Clean(setting))' /\ (snap \in Sheet => Clean(snap))'
  BY <1>4, <1>8 DEF ProxyInv, SheetInv, Clean
<1>13. SheetInv'
  BY <1>2, <1>3, <1>12, Works
<1> QED
  BY <1>5, <1>11, <1>13

LEMMA RemoveInv ==
    ASSUME ProxyInv, NEW w \in Workers, RemoveSnapshot(w) \/ RemoveGuard(w)
    PROVE  AloneInv' /\ JobInv' /\ SheetInv'
<1> DEFINE pc == IF job[w].pc = "unsnapping" THEN "unguarding" ELSE "disabled"
           j  == [job[w] EXCEPT !.pc = pc, !.at = 1]
<1>0. TypeOK /\ job[w] \in Job /\ job[w].pc \in {"unsnapping", "unguarding"}
  BY DEF ProxyInv, TypeOK, RemoveSnapshot, RemoveGuard
<1>1. job' = [job EXCEPT ![w] = j]
  BY <1>0, MovesTo DEF RemoveSnapshot, RemoveGuard
<1>2. j.pc = pc /\ j.why = job[w].why
  BY <1>0 DEF Job
<1> HIDE DEF j
<1>3. job'[w] = j /\ \A v \in Workers \ {w} : job'[v].pc = "idle"
  BY <1>0, <1>1, Alone
<1>4. UNCHANGED <<proc, port, setting, failed, flag>> /\ snap' \in {None, snap}
  BY DEF RemoveSnapshot, RemoveGuard
<1>5. AloneInv'
  BY <1>0, <1>1, <1>2, <1>4, GoesOn DEF Disabling
<1>6. Clean(setting) /\ (job[w].why = "stop" => ~flag)
  BY <1>0 DEF ProxyInv, JobInv, DisableInv, Disabling
<1>7. EnableInv(w)'
  BY <1>2, <1>3 DEF EnableInv, Enabling
<1>8. DisableInv(w)'
  BY <1>2, <1>3, <1>4, <1>6 DEF DisableInv, Clean
<1>9. JobInv'
  BY <1>3, <1>7, <1>8, OnlyOne
<1>10. (guard \/ Clean(setting))' /\ (snap \in Sheet => Clean(snap))'
  BY <1>4, <1>6, Nones DEF ProxyInv, SheetInv, Clean
<1>11. SheetInv'
  BY <1>2, <1>3, <1>10, Works
<1> QED
  BY <1>5, <1>9, <1>11

\* However enable or disable ends.
LEMMA ReturnsInv ==
    ASSUME ProxyInv, NEW w \in Workers, NEW ok \in BOOLEAN, job[w].pc # "idle",
           Returns(w, ok), setting' = setting,
           ok => job[w].pc = "disabled" /\ failed' = failed,
           ~ok => failed' = TRUE,
           (guard \/ Clean(setting))', (snap \in Sheet => Clean(snap))'
    PROVE  AloneInv' /\ JobInv' /\ SheetInv'
<1>0. ok => Clean(setting) /\ Ours = {}
  BY DEF ProxyInv, JobInv, DisableInv, Clean, Ours
<1>1. AllIdle' /\ JobInv'
  <2>1. CASE job[w].why = "exit"
    <3>1. job' = [v \in Workers |-> Idle]
      BY <2>1 DEF Returns, Ends
    <3>2. \A v \in Workers : job'[v].pc = "idle"
      BY <3>1 DEF Idle
    <3> QED
      BY <3>2 DEF AllIdle, JobInv, EnableInv, DisableInv, Enabling, Disabling
  <2>2. CASE job[w].why # "exit"
    <3>1. job' = [job EXCEPT ![w] = Idle]
      BY <2>2 DEF Returns
    <3> QED
      BY <3>1, Ended
  <2> QED
    BY <2>1, <2>2
<1>2. /\ proc' \in {"exited", "up"}
      /\ proc' = "exited" => ~flag'
      /\ ok => ~flag'
  <2>1. CASE job[w].why = "exit"
    BY <2>1 DEF Returns, Ends
  <2>2. CASE job[w].why = "launch"
    BY <2>2 DEF Returns, ProxyInv, AloneInv
  <2>3. CASE job[w].why = "stop"
    <3>1. w # Shell /\ proc = "up"
      BY <2>3 DEF ProxyInv, AloneInv
    <3>2. ok => ~flag
      BY <2>3 DEF ProxyInv, JobInv, DisableInv, Disabling
    <3> QED
      BY <2>3, <3>1, <3>2 DEF Returns
  <2>4. CASE job[w].why = "command"
    <3>1. w # Shell /\ proc = "up"
      BY <2>4 DEF ProxyInv, AloneInv
    <3> QED
      BY <2>4, <3>1 DEF Returns
  <2> QED
    BY <2>1, <2>2, <2>3, <2>4 DEF ProxyInv, TypeOK, Job
<1>3. AloneInv'
  BY <1>1, <1>2 DEF AloneInv, AllIdle
<1>4. SwitchIsTrue'
  BY <1>0, <1>2 DEF SwitchIsTrue, Ours
<1> QED
  BY <1>1, <1>3, <1>4 DEF SheetInv

LEMMA EndsInv ==
    ASSUME ProxyInv, NEW w \in Workers, Disabled(w) \/ Fail(w)
    PROVE  AloneInv' /\ JobInv' /\ SheetInv'
<1>1. CASE Disabled(w)
  <2>1. (guard \/ Clean(setting))' /\ (snap \in Sheet => Clean(snap))'
    BY <1>1 DEF Disabled, ProxyInv, SheetInv, Clean, files
  <2> QED
    BY <1>1, <2>1, ReturnsInv DEF Disabled
<1>2. CASE Fail(w)
  <2>1. (guard \/ Clean(setting))' /\ (snap \in Sheet => Clean(snap))'
    BY <1>2, Nones DEF Fail, ProxyInv, SheetInv, Clean
  <2> QED
    BY <1>2, <2>1, ReturnsInv DEF Fail
<1> QED
  BY <1>1, <1>2

-----------------------------------------------------------------------------
(* The process and its commands *)

\* Nobody works.
LEMMA QuietJobs == ASSUME AllIdle' PROVE JobInv'
BY DEF AllIdle, JobInv, EnableInv, DisableInv, Enabling, Disabling

LEMMA LaunchInv == ProxyInv /\ Launch => AloneInv' /\ JobInv' /\ SheetInv'
<1> SUFFICES ASSUME ProxyInv, Launch PROVE AloneInv' /\ JobInv' /\ SheetInv'
  OBVIOUS
<1>0. /\ job \in [Workers -> Job] /\ Shell \in Workers
      /\ AllIdle /\ ~flag /\ UNCHANGED <<port, flag, setting, guard, snap>>
  BY DEF ProxyInv, TypeOK, AloneInv, AllIdle, Launch, files, Workers
<1>1. (guard \/ Clean(setting))' /\ (snap \in Sheet => Clean(snap))'
  BY <1>0 DEF ProxyInv, SheetInv, Clean
<1>2. CASE guard
  <2> DEFINE j == [Idle EXCEPT !.pc = "reading", !.why = "launch"]
  <2>1. job' = [job EXCEPT ![Shell] = j] /\ proc' = "booting"
    BY <1>2 DEF Launch
  <2>2. j.pc = "reading" /\ j.why = "launch" /\ j.at = 1
    BY DEF Idle
  <2> HIDE DEF j
  <2>3. job'[Shell] = j /\ \A v \in Workers \ {Shell} : job'[v].pc = "idle"
    BY <1>0, <2>1 DEF AllIdle
  <2>4. AloneInv'
    BY <1>0, <2>1, <2>2, <2>3 DEF AloneInv, Disabling
  <2>5. EnableInv(Shell)' /\ DisableInv(Shell)'
    BY <2>2, <2>3 DEF EnableInv, DisableInv, Enabling
  <2> QED
    BY <1>0, <1>1, <2>2, <2>3, <2>4, <2>5, OnlyOne, Works
<1>3. CASE ~guard
  <2>1. proc' = "up" /\ AllIdle' /\ Clean(setting)
    BY <1>0, <1>3 DEF Launch, AllIdle, ProxyInv, SheetInv
  <2>2. AloneInv'
    BY <1>0, <2>1 DEF AloneInv, AllIdle
  <2>3. SheetInv'
    BY <1>0, <1>1, <2>1 DEF SheetInv, SwitchIsTrue, Ours, Clean
  <2> QED
    BY <2>1, <2>2, <2>3, QuietJobs
<1> QED
  BY <1>2, <1>3

\* However the process ends.
LEMMA EndsQuietly ==
    ASSUME NEW how \in {"down", "exited"}, Ends(how),
           (guard \/ Clean(setting))', (snap \in Sheet => Clean(snap))'
    PROVE  AloneInv' /\ JobInv' /\ SheetInv'
<1>1. \A v \in Workers : job'[v].pc = "idle"
  BY DEF Ends, Idle
<1>2. AloneInv' /\ AllIdle'
  BY <1>1 DEF Ends, AloneInv, AllIdle
<1>3. SwitchIsTrue'
  BY DEF Ends, SwitchIsTrue
<1> QED
  BY <1>2, <1>3, QuietJobs DEF SheetInv

LEMMA CrashInv == ProxyInv /\ Crash => AloneInv' /\ JobInv' /\ SheetInv'
<1> SUFFICES ASSUME ProxyInv, Crash PROVE AloneInv' /\ JobInv' /\ SheetInv'
  OBVIOUS
<1>1. (guard \/ Clean(setting))' /\ (snap \in Sheet => Clean(snap))'
  BY Nones DEF Crash, ProxyInv, SheetInv, Clean, files
<1> QED
  BY <1>1, EndsQuietly DEF Crash

LEMMA ExitInv == ProxyInv /\ Exit => AloneInv' /\ JobInv' /\ SheetInv'
<1> SUFFICES ASSUME ProxyInv, Exit PROVE AloneInv' /\ JobInv' /\ SheetInv'
  OBVIOUS
<1>0. /\ job \in [Workers -> Job] /\ Shell \in Workers
      /\ AllIdle /\ UNCHANGED <<setting, guard, snap>>
  BY DEF ProxyInv, OneAtATime, TypeOK, Exit, files, Workers
<1>1. (guard \/ Clean(setting))' /\ (snap \in Sheet => Clean(snap))'
  BY <1>0 DEF ProxyInv, SheetInv, Clean
<1>2. CASE flag
  <2> DEFINE j == [Idle EXCEPT !.pc = "reading", !.why = "exit"]
  <2>1. job' = [job EXCEPT ![Shell] = j] /\ proc' = "exiting" /\ ~flag'
    BY <1>2 DEF Exit
  <2>2. j.pc = "reading" /\ j.why = "exit" /\ j.at = 1
    BY DEF Idle
  <2> HIDE DEF j
  <2>3. job'[Shell] = j /\ \A v \in Workers \ {Shell} : job'[v].pc = "idle"
    BY <1>0, <2>1 DEF AllIdle
  <2>4. AloneInv'
    BY <2>1, <2>2, <2>3 DEF AloneInv, Disabling
  <2>5. EnableInv(Shell)' /\ DisableInv(Shell)'
    BY <2>2, <2>3 DEF EnableInv, DisableInv, Enabling
  <2> QED
    BY <1>0, <1>1, <2>2, <2>3, <2>4, <2>5, OnlyOne, Works
<1>3. CASE ~flag
  BY <1>1, <1>3, EndsQuietly DEF Exit
<1> QED
  BY <1>2, <1>3

LEMMA CommandInv ==
    ASSUME ProxyInv, NEW w \in Callers, Command(w)
    PROVE  AloneInv' /\ JobInv' /\ SheetInv'
<1>0. /\ w \in Workers /\ w # Shell /\ proc = "up" /\ AllIdle
      /\ job \in [Workers -> Job]
      /\ UNCHANGED <<proc, flag, setting, guard, snap, failed>>
  <2>1. Ready(w) /\ UNCHANGED <<proc, flag, setting, guard, snap, failed>>
    BY DEF Command, Start, Enable, Disable, Stop, files
  <2>2. \A v \in Callers : v = w
    BY DEF ProxyInv, OneAtATime
  <2>3. job[Shell].pc = "idle"
    BY <2>1 DEF ProxyInv, AloneInv, Ready, Workers
  <2> QED
    BY <2>1, <2>2, <2>3, ConstantsAssumption DEF ProxyInv, TypeOK, Ready, AllIdle, Workers
<1>1. (guard \/ Clean(setting))' /\ (snap \in Sheet => Clean(snap))'
  BY <1>0 DEF ProxyInv, SheetInv, Clean
<1>2. ~failed => IF flag THEN port # 0 /\ \A s \in Slots : setting[s] \in {port, Absent}
                        ELSE Clean(setting)
  BY <1>0 DEF ProxyInv, SheetInv, SwitchIsTrue, Ours, Clean
<1>3. ASSUME NEW p \in Ports, Start(w, p) PROVE AloneInv' /\ JobInv' /\ SheetInv'
  <2>1. AllIdle' /\ port = 0
    BY <1>0, <1>3 DEF Start, AllIdle
  <2>2. AloneInv'
    BY <1>0, <2>1 DEF AloneInv, AllIdle
  <2>3. SheetInv'
    BY <1>0, <1>1, <1>2, <2>1 DEF SheetInv, SwitchIsTrue, Ours, Clean
  <2> QED
    BY <2>1, <2>2, <2>3, QuietJobs
<1>4. ASSUME NEW pc \in {"listing", "reading", "swapping"}, NEW p, NEW why \in {"command", "stop"},
             Begins(w, pc, p, why),
             pc = "listing" => why = "command" /\ p = port' /\ port' \in Ports,
             pc = "reading" => why = "command"
      PROVE  AloneInv' /\ JobInv' /\ SheetInv'
  <2> DEFINE j == [Idle EXCEPT !.pc = pc, !.port = p, !.why = why]
  <2>1. job' = [job EXCEPT ![w] = j]
    BY <1>4 DEF Begins
  <2>2. j.pc = pc /\ j.port = p /\ j.why = why /\ j.at = 1
    BY DEF Idle
  <2> HIDE DEF j
  <2>3. job'[w] = j /\ \A v \in Workers \ {w} : job'[v].pc = "idle"
    BY <1>0, <2>1 DEF AllIdle
  <2>4. AloneInv'
    BY <1>0, <1>4, <2>2, <2>3 DEF AloneInv, Enabling
  <2>5. EnableInv(w)'
    BY <1>4, <2>2, <2>3 DEF EnableInv, Enabling
  <2>6. DisableInv(w)'
    BY <1>0, <1>2, <1>4, <2>2, <2>3 DEF DisableInv, Disabling, Clean
  <2> QED
    BY <1>0, <1>1, <2>2, <2>3, <2>4, <2>5, <2>6, OnlyOne, Works
<1>5. CASE Enable(w)
  <2>1. port' \in Ports /\ port' = port
    BY <1>5 DEF Enable, ProxyInv, TypeOK, Ports
  <2> QED
    BY <1>4, <1>5, <2>1 DEF Enable
<1>6. CASE Disable(w)
  BY <1>4, <1>6 DEF Disable
<1>7. CASE Stop(w)
  BY <1>4, <1>7 DEF Stop
<1> QED
  BY <1>3, <1>5, <1>6, <1>7 DEF Command

LEMMA AppearsInv ==
    ASSUME ProxyInv, NEW s \in Slots, Appears(s)
    PROVE  AloneInv' /\ JobInv' /\ SheetInv'
<1>0. AllIdle /\ AllIdle' /\ ~flag /\ UNCHANGED <<proc, port, flag, guard, snap, job, failed>>
  BY DEF ProxyInv, OneAtATime, Appears, AllIdle, files
<1>1. Clean(setting')
  BY Values DEF ProxyInv, OneAtATime, SheetInv, Appears, Clean, TypeOK, Sheet
<1>2. AloneInv'
  BY <1>0 DEF ProxyInv, AloneInv
<1>3. SheetInv'
  BY <1>0, <1>1 DEF ProxyInv, SheetInv, SwitchIsTrue, Ours, Clean
<1> QED
  BY <1>0, <1>2, <1>3, QuietJobs

LEMMA NextInv == ProxyInv /\ [Next]_vars => ProxyInv'
<1> SUFFICES ASSUME ProxyInv, [Next]_vars PROVE AloneInv' /\ JobInv' /\ SheetInv'
  BY TypeNext, PresentNext DEF ProxyInv, OneAtATime
<1>1. ASSUME NEW w \in Workers, JobStep(w) PROVE AloneInv' /\ JobInv' /\ SheetInv'
  BY <1>1, SwapInv, ListInv, SaveInv, WriteInv, SetSlotInv, FlagOnInv, ReadSnapshotInv,
     RestoreSlotInv, RemoveInv, EndsInv DEF JobStep
<1>2. CASE UNCHANGED vars
  BY <1>2 DEF vars, files, ProxyInv, AloneInv, JobInv, EnableInv, DisableInv, SheetInv, Clean,
     SwitchIsTrue, AllIdle, Ours
<1> QED
  BY <1>1, <1>2, AppearsInv, LaunchInv, CrashInv, ExitInv, CommandInv DEF Next

\* The invariant of the switch, with one command at a time.
THEOREM ProxyTheorem == OneAtATime /\ Spec => []ProxyInv
BY InitInv, NextInv, PTL DEF Spec

\* Settings of ours can be repaired wherever the process dies or a command fails.
THEOREM RepairableTheorem == OneAtATime /\ Spec => []Repairable
<1>1. ProxyInv => Repairable
  BY DEF ProxyInv, SheetInv, Repairable, Ours, Clean
<1> QED
  BY <1>1, ProxyTheorem, PTL

\* The snapshot never holds a port of this program.
THEOREM SnapshotIsUsersTheorem == OneAtATime /\ Spec => []SnapshotIsUsers
<1>1. ProxyInv => SnapshotIsUsers
  BY DEF ProxyInv, SheetInv, SnapshotIsUsers, Clean
<1> QED
  BY <1>1, ProxyTheorem, PTL

\* The flag agrees with every slot between commands, if none failed.
THEOREM SwitchIsTrueTheorem == OneAtATime /\ Spec => []SwitchIsTrue
<1>1. ProxyInv => SwitchIsTrue
  BY DEF ProxyInv, SheetInv
<1> QED
  BY <1>1, ProxyTheorem, PTL

-----------------------------------------------------------------------------
(* What is left when the program has exited *)

\* What a program that has exited left, unless a command failed.
LeftInv == proc = "exited" /\ ~failed => Clean(setting)

LEMMA LeftInit == Init => LeftInv
BY Values DEF Init, LeftInv, Clean

LEMMA LeftNext == ProxyInv /\ LeftInv /\ [Next]_vars => LeftInv'
<1> SUFFICES ASSUME ProxyInv, LeftInv, [Next]_vars, proc' = "exited", ~failed' PROVE Clean(setting')
  BY DEF LeftInv, Clean
<1>1. CASE Exit
  BY <1>1 DEF Exit, ProxyInv, OneAtATime, SheetInv, SwitchIsTrue, Clean, Ours
<1>2. ASSUME NEW w \in Workers, JobStep(w) PROVE Clean(setting')
  <2>0. job[w].pc # "idle" /\ proc \in {"booting", "up", "exiting"}
    BY <1>2 DEF JobStep, ProxyInv, AloneInv, Swap, List, Save, WriteSnapshot, WriteGuard, SetSlot,
       FlagOn, ReadSnapshot, RestoreSlot, RemoveSnapshot, RemoveGuard, Disabled, Fail
  <2>1. CASE Disabled(w)
    BY <2>1 DEF Disabled, ProxyInv, JobInv, DisableInv, Clean
  <2> QED
    BY <1>2, <2>0, <2>1 DEF JobStep, Swap, List, Save, WriteSnapshot, WriteGuard, SetSlot,
       FlagOn, ReadSnapshot, RestoreSlot, RemoveSnapshot, RemoveGuard, Fail
<1>3. ASSUME NEW w \in Callers, Command(w) PROVE Clean(setting')
  BY <1>3 DEF Command, Ready, Start, Enable, Disable, Stop
<1>4. CASE Launch \/ Crash
  BY <1>4 DEF Launch, Crash, Ends
<1>5. ASSUME NEW s \in Slots, Appears(s) PROVE Clean(setting')
  BY <1>5, Values DEF Appears, LeftInv, Clean, ProxyInv, TypeOK, Sheet
<1>6. CASE UNCHANGED vars
  BY <1>6 DEF vars, LeftInv, Clean
<1> QED
  BY <1>1, <1>2, <1>3, <1>4, <1>5, <1>6 DEF Next

\* If commands do not fail, none is remembered to have failed.
LEMMA NoneFails == ~Faults /\ Spec => []~failed
<1> DEFINE I == ~Faults /\ ~failed
<1>1. ~Faults /\ Init => I
  BY DEF Init
<1>2. I /\ [Next]_vars => I'
  <2>1. ~Faults /\ ~failed /\ [Next]_vars => ~failed'
    BY DEF Next, Appears, Launch, Crash, Exit, Command, Start, Enable, Disable, Stop, JobStep, Swap, List, Save,
       WriteSnapshot, WriteGuard, SetSlot, FlagOn, ReadSnapshot, RestoreSlot, RemoveSnapshot,
       RemoveGuard, Disabled, Fail, vars
  <2> QED
    BY <2>1
<1>3. I => ~failed
  OBVIOUS
<1> HIDE DEF I
<1> QED
  BY <1>1, <1>2, <1>3, PTL DEF Spec

\* The promise of main, for a user who waits for the command in flight before
\* quitting and a system whose commands succeed: whatever was killed before, the
\* program that has exited leaves no slot pointing to it.
THEOREM NothingLeftTheorem == OneAtATime /\ ~Faults /\ Spec => []NothingLeftOnExit
<1>1. ~failed /\ LeftInv => NothingLeftOnExit
  BY DEF LeftInv, NothingLeftOnExit, Clean, Ours
<1>2. OneAtATime /\ Spec => []LeftInv
  BY LeftInit, LeftNext, ProxyTheorem, PTL DEF Spec
<1> QED
  BY <1>1, <1>2, NoneFails, PTL

-----------------------------------------------------------------------------
(* The way back to the user's own settings *)

\* A disable that finds no snapshot to go by, and will switch everything off.
Blind == \E w \in Workers : job[w].pc = "reading" /\ snap \in {None, Torn}

\* What a worker holds of the user's settings, and has given back.
StageInv(w) ==
    /\ job[w].pc = "saving" =>
          \A s \in Slots : s < job[w].at => InEffect(job[w].sheet[s]) = InEffect(own[s])
    /\ job[w].pc = "writing" => Alike(job[w].sheet, own)
    /\ job[w].pc = "restoring" =>
          /\ Alike(job[w].sheet, own)
          /\ \A s \in Slots : s < job[w].at => InEffect(setting[s]) = InEffect(own[s])
    /\ job[w].pc \in {"unsnapping", "unguarding", "disabled"} => Alike(setting, own)

\* The user's settings are in force, or under the guard; a snapshot is of them.
BackInv ==
    /\ \A w \in Workers : StageInv(w)
    /\ guard \/ Alike(setting, own)
    /\ snap \in Sheet => Alike(snap, own)

LEMMA BackInit == Init => BackInv
BY Nones DEF Init, BackInv, StageInv, Idle, Alike

LEMMA StageOnly ==
    ASSUME NEW w \in Workers, \A v \in Workers \ {w} : job'[v].pc = "idle", StageInv(w)'
    PROVE  \A v \in Workers : StageInv(v)'
BY DEF StageInv

LEMMA StageQuiet == ASSUME AllIdle' PROVE \A v \in Workers : StageInv(v)'
BY DEF AllIdle, StageInv

\* What a step leaves alone stays as it was.
LEMMA BackKeeps ==
    ASSUME BackInv, UNCHANGED <<setting, own>>, guard => guard', snap' \in {snap, None, Torn}
    PROVE  (guard \/ Alike(setting, own))' /\ (snap \in Sheet => Alike(snap, own))'
BY Nones DEF BackInv, Alike

LEMMA EnableBack ==
    ASSUME ProxyInv, BackInv, NEW w \in Workers, List(w) \/ Save(w)
    PROVE  BackInv'
<1>0. /\ TypeOK /\ job[w] \in Job /\ job[w].at \in Slots /\ job[w].sheet \in Sheet
      /\ job[w].pc \in {"listing", "saving"}
      /\ UNCHANGED <<flag, setting, guard, snap, own>>
  BY DEF ProxyInv, TypeOK, Job, List, Save, files
<1>1. (guard \/ Alike(setting, own))' /\ (snap \in Sheet => Alike(snap, own))'
  BY <1>0, BackKeeps
<1>3. CASE List(w)
  <2> DEFINE j == [job[w] EXCEPT !.pc = IF guard THEN "setting" ELSE "saving",
                                 !.sheet = Listing]
  <2>1. job' = [job EXCEPT ![w] = j]
    BY <1>0, <1>3 DEF List, TypeOK, Job
  <2>2. j.pc \in {"setting", "saving"} /\ j.at = job[w].at
    BY <1>0 DEF Job
  <2> HIDE DEF j
  <2>3. job'[w] = j /\ \A v \in Workers \ {w} : job'[v].pc = "idle"
    BY <1>0, <2>1, Alone
  <2>4. j.at = 1
    BY <1>3, <2>2 DEF List, ProxyInv, JobInv, EnableInv
  <2>5. StageInv(w)'
    BY <2>2, <2>3, <2>4, LastSlot, Nones DEF StageInv
  <2> QED
    BY <1>1, <2>3, <2>5, StageOnly DEF BackInv
<1>4. CASE Save(w)
  <2> DEFINE saved == [job[w] EXCEPT !.sheet[job[w].at] = Saved(w)]
             j == IF saved.at < NumSlots THEN [saved EXCEPT !.at = saved.at + 1]
                  ELSE [saved EXCEPT !.pc = "writing", !.at = 1]
  <2>1. job' = [job EXCEPT ![w] = j] /\ job[w].pc = "saving"
    BY <1>0, <1>4 DEF Save, Saved, TypeOK, Job
  <2>2. /\ j.sheet = [job[w].sheet EXCEPT ![job[w].at] = Saved(w)]
        /\ \/ job[w].at < NumSlots /\ j.pc = "saving" /\ j.at = job[w].at + 1
           \/ ~(job[w].at < NumSlots) /\ j.pc = "writing"
    BY <1>0, <2>1 DEF Job
  <2> HIDE DEF j
  <2>3. job'[w] = j /\ \A v \in Workers \ {w} : job'[v].pc = "idle"
    BY <1>0, <2>1, Alone
  <2>4. /\ Alike(setting, own)
        /\ SameServices(job[w].sheet, setting)
        /\ \A s \in Slots : s < job[w].at => InEffect(job[w].sheet[s]) = InEffect(own[s])
    BY <2>1 DEF BackInv, StageInv, ProxyInv, JobInv, EnableInv, PresentInv, Holding
  <2>5. Saved(w) = setting[job[w].at]
    BY <1>0, <2>4 DEF Saved, SameServices
  <2>6. \A s \in Slots : s < job[w].at \/ s = job[w].at => InEffect(j.sheet[s]) = InEffect(own[s])
    BY <1>0, <2>2, <2>4, <2>5 DEF Sheet, Alike
  <2>7. StageInv(w)'
    <3>1. CASE j.pc = "saving"
      <4>1. \A s \in Slots : s < j.at => InEffect(j.sheet[s]) = InEffect(own[s])
        BY <1>0, <2>2, <2>6, <3>1, LastSlot
      <4> QED
        BY <1>0, <2>3, <3>1, <4>1 DEF StageInv, InEffect
    <3>2. CASE j.pc = "writing"
      <4>1. Alike(j.sheet, own)
        BY <1>0, <2>2, <2>6, <3>2, LastSlot DEF Alike
      <4> QED
        BY <1>0, <2>3, <3>2, <4>1 DEF StageInv, Alike
    <3> QED
      BY <2>2, <3>1, <3>2
  <2> QED
    BY <1>1, <2>3, <2>7, StageOnly DEF BackInv
<1> QED
  BY <1>3, <1>4

LEMMA WriteBack ==
    ASSUME ProxyInv, BackInv, NEW w \in Workers, WriteSnapshot(w) \/ WriteGuard(w)
    PROVE  BackInv'
<1> DEFINE pc == IF job[w].pc = "writing" THEN "guarding" ELSE "setting"
           j  == [job[w] EXCEPT !.pc = pc, !.at = 1]
<1>0. /\ TypeOK /\ job[w] \in Job /\ job[w].pc \in {"writing", "guarding"}
      /\ UNCHANGED <<flag, setting, own>>
  BY DEF ProxyInv, TypeOK, WriteSnapshot, WriteGuard
<1>1. job' = [job EXCEPT ![w] = j]
  BY <1>0, MovesTo DEF WriteSnapshot, WriteGuard
<1>2. j.pc \in {"guarding", "setting"}
  BY <1>0 DEF Job
<1> HIDE DEF j
<1>3. job'[w] = j /\ \A v \in Workers \ {w} : job'[v].pc = "idle"
  BY <1>0, <1>1, Alone
<1>4. Alike(setting, own) /\ (snap \in Sheet => Alike(snap, own))
        /\ (job[w].pc = "writing" => Alike(job[w].sheet, own))
  BY <1>0 DEF BackInv, StageInv, ProxyInv, JobInv, EnableInv
<1>5. Alike(setting, own)' /\ (snap' \in Sheet => Alike(snap', own))
  BY <1>0, <1>4 DEF WriteSnapshot, WriteGuard, Alike
<1>6. StageInv(w)'
  BY <1>2, <1>3 DEF StageInv
<1> QED
  BY <1>0, <1>3, <1>5, <1>6, StageOnly DEF BackInv, Alike

LEMMA SetBack ==
    ASSUME ProxyInv, BackInv, NEW w \in Workers, SetSlot(w) \/ FlagOn(w)
    PROVE  BackInv'
<1>0. /\ TypeOK /\ job[w].pc \in {"setting", "enabled"} /\ guard
      /\ UNCHANGED <<snap, guard, own>>
  BY DEF ProxyInv, TypeOK, JobInv, EnableInv, SetSlot, FlagOn, files
<1>1. (guard \/ Alike(setting, own))' /\ (snap \in Sheet => Alike(snap, own))'
  BY <1>0 DEF BackInv, Alike
<1>2. CASE SetSlot(w)
  <2> DEFINE j == IF job[w].at < NumSlots THEN [job[w] EXCEPT !.at = job[w].at + 1]
                  ELSE [job[w] EXCEPT !.pc = "enabled", !.at = 1]
  <2>1. job' = [job EXCEPT ![w] = j]
    BY <1>0, <1>2, AdvancesTo DEF SetSlot
  <2>2. j.pc \in {"setting", "enabled"}
    BY <1>0, <1>2 DEF SetSlot, TypeOK, Job
  <2> HIDE DEF j
  <2>3. job'[w] = j /\ \A v \in Workers \ {w} : job'[v].pc = "idle"
    BY <1>0, <2>1, Alone
  <2>4. StageInv(w)'
    BY <2>2, <2>3 DEF StageInv
  <2> QED
    BY <1>1, <2>3, <2>4, StageOnly DEF BackInv
<1>3. CASE FlagOn(w)
  <2>1. AllIdle'
    BY <1>0, <1>3, Ended DEF FlagOn
  <2> QED
    BY <1>1, <2>1, StageQuiet DEF BackInv
<1> QED
  BY <1>2, <1>3

LEMMA SwapBack == ASSUME ProxyInv, BackInv, NEW w \in Workers, Swap(w) PROVE BackInv'
<1> DEFINE j == IF flag THEN [job[w] EXCEPT !.pc = "reading"] ELSE Idle
<1>0. /\ TypeOK /\ job[w] \in Job /\ job[w].pc = "swapping" /\ job' = [job EXCEPT ![w] = j]
      /\ UNCHANGED <<setting, snap, guard, own>>
  BY DEF ProxyInv, TypeOK, Swap, files
<1>1. j.pc \in {"idle", "reading"}
  BY <1>0 DEF Job, Idle
<1> HIDE DEF j
<1>2. job'[w] = j /\ \A v \in Workers \ {w} : job'[v].pc = "idle"
  BY <1>0, Alone
<1>3. StageInv(w)'
  BY <1>1, <1>2 DEF StageInv
<1> QED
  BY <1>0, <1>2, <1>3, BackKeeps, StageOnly DEF BackInv

\* What is read is the user's, unless there is nothing to read.
LEMMA ReadBack ==
    ASSUME ProxyInv, BackInv, ~Blind, NEW w \in Workers, ReadSnapshot(w)
    PROVE  BackInv'
<1> DEFINE j == [job[w] EXCEPT !.pc = "restoring", !.sheet = snap]
<1>0. /\ TypeOK /\ job[w] \in Job /\ job[w].pc = "reading"
      /\ UNCHANGED <<flag, setting, snap, guard, own>>
  BY DEF ProxyInv, TypeOK, ReadSnapshot, files
<1>1. snap \in Sheet /\ Alike(snap, own)
  BY <1>0 DEF TypeOK, Blind, BackInv
<1>2. job' = [job EXCEPT ![w] = j]
  BY <1>0, <1>1, Nones DEF ReadSnapshot, TypeOK, Job
<1>3. j.pc = "restoring" /\ j.at = job[w].at /\ j.sheet = snap
  BY <1>0 DEF Job
<1> HIDE DEF j
<1>4. job'[w] = j /\ \A v \in Workers \ {w} : job'[v].pc = "idle"
  BY <1>0, <1>2, Alone
<1>5. job[w].at = 1
  BY <1>0 DEF ProxyInv, JobInv, DisableInv
<1>6. StageInv(w)'
  BY <1>0, <1>1, <1>3, <1>4, <1>5, LastSlot, Nones DEF StageInv, Alike
<1> QED
  BY <1>0, <1>4, <1>6, BackKeeps, StageOnly DEF BackInv

LEMMA RestoreBack ==
    ASSUME ProxyInv, BackInv, NEW w \in Workers, RestoreSlot(w)
    PROVE  BackInv'
<1> DEFINE j == IF job[w].at < NumSlots THEN [job[w] EXCEPT !.at = job[w].at + 1]
                ELSE [job[w] EXCEPT !.pc = "unsnapping", !.at = 1]
           v == Restored(setting[job[w].at], job[w].sheet[job[w].at])
<1>0. /\ TypeOK /\ job[w] \in Job /\ job[w].pc = "restoring" /\ job[w].at \in Slots
      /\ job[w].sheet \in Sheet /\ setting \in Sheet
      /\ UNCHANGED <<flag, snap, guard, own>>
  BY DEF ProxyInv, TypeOK, RestoreSlot, Job, files
<1>1. job' = [job EXCEPT ![w] = j]
  BY <1>0, AdvancesTo DEF RestoreSlot
<1>2. /\ j.sheet = job[w].sheet
      /\ \/ job[w].at < NumSlots /\ j.pc = "restoring" /\ j.at = job[w].at + 1
         \/ ~(job[w].at < NumSlots) /\ j.pc = "unsnapping"
  BY <1>0 DEF Job
<1> HIDE DEF j
<1>3. job'[w] = j /\ \A u \in Workers \ {w} : job'[u].pc = "idle"
  BY <1>0, <1>1, Alone
<1>4. /\ Alike(job[w].sheet, own) /\ SameServices(job[w].sheet, setting)
      /\ \A s \in Slots : s < job[w].at => InEffect(setting[s]) = InEffect(own[s])
  BY <1>0 DEF BackInv, StageInv, ProxyInv, PresentInv, Holding
\* A slot comes to have in effect what its line of the snapshot says.
<1>5. InEffect(v) = InEffect(own[job[w].at])
  <2>1. job[w].sheet[job[w].at] \in Targets /\ setting[job[w].at] \in Targets
    BY <1>0 DEF Sheet
  <2>2. InEffect(v) = InEffect(job[w].sheet[job[w].at])
    <3>1. CASE job[w].sheet[job[w].at] = Absent
      BY <1>0, <1>4, <2>1, <3>1, RestoredIs DEF SameServices
    <3>2. CASE job[w].sheet[job[w].at] # Absent
      BY <2>1, <3>2, RestoredIs
    <3> QED
      BY <3>1, <3>2
  <2> QED
    BY <1>0, <1>4, <2>2 DEF Alike
<1>6. setting' = [setting EXCEPT ![job[w].at] = v]
  BY DEF RestoreSlot
<1> HIDE DEF v
<1>7. /\ \A s \in Slots : s < job[w].at \/ s = job[w].at => InEffect(setting'[s]) = InEffect(own[s])
      /\ Alike(setting, own) => Alike(setting', own)
  BY <1>0, <1>4, <1>5, <1>6 DEF Sheet, Alike
<1>8. StageInv(w)'
  <2>1. CASE j.pc = "restoring"
    <3>1. \A s \in Slots : s < j.at => InEffect(setting'[s]) = InEffect(own[s])
      BY <1>0, <1>2, <1>7, <2>1, LastSlot
    <3> QED
      BY <1>0, <1>2, <1>3, <1>4, <2>1, <3>1 DEF StageInv, Alike, InEffect
  <2>2. CASE j.pc = "unsnapping"
    <3>1. Alike(setting', own)
      BY <1>0, <1>2, <1>7, <2>2, LastSlot DEF Alike
    <3> QED
      BY <1>0, <1>3, <2>2, <3>1 DEF StageInv, Alike
  <2> QED
    BY <1>2, <2>1, <2>2
<1>9. (guard \/ Alike(setting, own))' /\ (snap \in Sheet => Alike(snap, own))'
  BY <1>0, <1>7 DEF BackInv, Alike
<1> QED
  BY <1>3, <1>8, <1>9, StageOnly DEF BackInv

LEMMA RemoveBack ==
    ASSUME ProxyInv, BackInv, NEW w \in Workers, RemoveSnapshot(w) \/ RemoveGuard(w)
    PROVE  BackInv'
<1> DEFINE pc == IF job[w].pc = "unsnapping" THEN "unguarding" ELSE "disabled"
           j  == [job[w] EXCEPT !.pc = pc, !.at = 1]
<1>0. /\ TypeOK /\ job[w] \in Job /\ job[w].pc \in {"unsnapping", "unguarding"}
      /\ UNCHANGED <<proc, flag, setting, own>> /\ snap' \in {None, snap}
  BY DEF ProxyInv, TypeOK, RemoveSnapshot, RemoveGuard
<1>1. job' = [job EXCEPT ![w] = j]
  BY <1>0, MovesTo DEF RemoveSnapshot, RemoveGuard
<1>2. j.pc = pc
  BY <1>0 DEF Job
<1> HIDE DEF j
<1>3. job'[w] = j /\ \A v \in Workers \ {w} : job'[v].pc = "idle"
  BY <1>0, <1>1, Alone
<1>4. Alike(setting, own) /\ (snap \in Sheet => Alike(snap, own))
  BY <1>0 DEF BackInv, StageInv
<1>5. Alike(setting, own)' /\ (snap \in Sheet => Alike(snap, own))'
  BY <1>0, <1>4, Nones DEF Alike
<1>6. StageInv(w)'
  BY <1>0, <1>2, <1>3, <1>5 DEF StageInv
<1> QED
  BY <1>3, <1>5, <1>6, StageOnly DEF BackInv

\* However enable or disable ends.
LEMMA ReturnsQuietly ==
    ASSUME ProxyInv, NEW w \in Workers, NEW ok \in BOOLEAN, job[w].pc # "idle", Returns(w, ok)
    PROVE  /\ AllIdle' /\ (flag' => flag)
           /\ ok /\ job[w].pc = "disabled" => ~flag'
<1>1. CASE job[w].why = "exit"
  BY <1>1 DEF Returns, Ends, AllIdle, Idle
<1>2. CASE job[w].why # "exit"
  <2>1. job' = [job EXCEPT ![w] = Idle]
    BY <1>2 DEF Returns
  <2>2. AllIdle'
    BY <2>1, Ended
  <2>3. CASE job[w].why = "launch"
    BY <2>2, <2>3 DEF Returns, ProxyInv, AloneInv
  <2>4. CASE job[w].why = "stop"
    BY <2>2, <2>4 DEF Returns, ProxyInv, JobInv, DisableInv, Disabling
  <2>5. CASE job[w].why \notin {"launch", "stop"}
    BY <1>2, <2>2, <2>5 DEF Returns
  <2> QED
    BY <2>3, <2>4, <2>5
<1> QED
  BY <1>1, <1>2

LEMMA EndsBack ==
    ASSUME ProxyInv, BackInv, NEW w \in Workers, Disabled(w) \/ Fail(w)
    PROVE  BackInv'
<1>1. AllIdle' /\ UNCHANGED <<setting, own>> /\ (guard => guard') /\ snap' \in {snap, None, Torn}
  <2>1. CASE Disabled(w)
    BY <2>1, ReturnsQuietly DEF Disabled, files
  <2>2. CASE Fail(w)
    <3>1. AllIdle'
      BY <2>2, ReturnsQuietly DEF Fail
    <3> QED
      BY <2>2, <3>1 DEF Fail
  <2> QED
    BY <2>1, <2>2
<1> QED
  BY <1>1, BackKeeps, StageQuiet DEF BackInv

\* A worker that begins.
LEMMA BeginsBack ==
    ASSUME ProxyInv, BackInv, AllIdle, NEW w \in Workers, NEW j, job' = [job EXCEPT ![w] = j],
           j.pc \in {"listing", "reading", "swapping"}, UNCHANGED <<setting, own, snap, guard>>
    PROVE  BackInv'
<1>1. job'[w] = j /\ \A v \in Workers \ {w} : job'[v].pc = "idle"
  BY DEF ProxyInv, TypeOK, AllIdle
<1>2. StageInv(w)'
  BY <1>1 DEF StageInv
<1> QED
  BY <1>1, <1>2, BackKeeps, StageOnly DEF BackInv

LEMMA ProcessBack == ProxyInv /\ BackInv /\ (Launch \/ Crash \/ Exit) => BackInv'
<1> SUFFICES ASSUME ProxyInv, BackInv, Launch \/ Crash \/ Exit PROVE BackInv'
  OBVIOUS
<1>0. Shell \in Workers /\ UNCHANGED <<setting, own>>
  BY DEF Workers, Launch, Crash, Exit
<1>1. ASSUME AllIdle', guard => guard', snap' \in {snap, None, Torn} PROVE BackInv'
  BY <1>0, <1>1, BackKeeps, StageQuiet DEF BackInv
<1>2. ASSUME NEW why, AllIdle, UNCHANGED files,
             job' = [job EXCEPT ![Shell] = [Idle EXCEPT !.pc = "reading", !.why = why]]
      PROVE  BackInv'
  <2> DEFINE j == [Idle EXCEPT !.pc = "reading", !.why = why]
  <2>1. job' = [job EXCEPT ![Shell] = j] /\ j.pc = "reading"
    BY <1>2 DEF Idle
  <2> HIDE DEF j
  <2> QED
    BY <1>0, <1>2, <2>1, BeginsBack DEF files
<1>3. CASE Launch
  <2>1. AllIdle /\ UNCHANGED files
    BY <1>3 DEF Launch, ProxyInv, AloneInv, AllIdle
  <2>2. CASE guard
    BY <1>2, <1>3, <2>1, <2>2 DEF Launch
  <2>3. CASE ~guard
    BY <1>1, <1>3, <2>1, <2>3 DEF Launch, AllIdle, files
  <2> QED
    BY <2>2, <2>3
<1>4. CASE Crash
  <2>1. AllIdle' /\ (guard => guard') /\ snap' \in {snap, None, Torn}
    BY <1>4 DEF Crash, Ends, AllIdle, Idle, files
  <2> QED
    BY <1>1, <2>1
<1>5. CASE Exit
  <2>1. AllIdle /\ UNCHANGED files
    BY <1>5 DEF Exit, ProxyInv, OneAtATime
  <2>2. CASE flag
    BY <1>2, <1>5, <2>1, <2>2 DEF Exit
  <2>3. CASE ~flag
    BY <1>1, <1>5, <2>1, <2>3 DEF Exit, Ends, AllIdle, Idle, files
  <2> QED
    BY <2>2, <2>3
<1> QED
  BY <1>3, <1>4, <1>5

LEMMA AllAlone ==
    ASSUME ProxyInv, NEW w \in Callers, Ready(w)
    PROVE  AllIdle
<1>1. job[Shell].pc = "idle"
  BY DEF ProxyInv, AloneInv, Ready, Workers
<1> QED
  BY <1>1 DEF ProxyInv, OneAtATime, Ready, AllIdle, Workers

LEMMA CommandBack ==
    ASSUME ProxyInv, BackInv, NEW w \in Callers, Command(w)
    PROVE  BackInv'
<1>0. w \in Workers /\ AllIdle /\ UNCHANGED <<setting, guard, snap, own>>
  BY AllAlone DEF Command, Start, Enable, Disable, Stop, Workers, files
<1>1. ASSUME NEW pc \in {"listing", "reading", "swapping"}, NEW p, NEW why, Begins(w, pc, p, why)
      PROVE  BackInv'
  <2> DEFINE j == [Idle EXCEPT !.pc = pc, !.port = p, !.why = why]
  <2>1. job' = [job EXCEPT ![w] = j] /\ j.pc = pc
    BY <1>1 DEF Begins, Idle
  <2> HIDE DEF j
  <2> QED
    BY <1>0, <1>1, <2>1, BeginsBack
<1>2. CASE \E p \in Ports : Start(w, p)
  BY <1>0, <1>2, BackKeeps, StageQuiet DEF Start, AllIdle, BackInv
<1>3. CASE Enable(w) \/ Disable(w) \/ Stop(w)
  BY <1>1, <1>3 DEF Enable, Disable, Stop
<1> QED
  BY <1>2, <1>3 DEF Command

\* A service that appears is as the user has it.
LEMMA AppearsBack == ASSUME ProxyInv, BackInv, NEW s \in Slots, Appears(s) PROVE BackInv'
<1>1. AllIdle' /\ snap' = None /\ UNCHANGED guard /\ Alike(setting, own)
  BY DEF ProxyInv, OneAtATime, Appears, AllIdle, BackInv, files
<1>2. Alike(setting', own')
  <2>1. PICK t \in {Off, Own} : setting' = [setting EXCEPT ![s] = t] /\ own' = [own EXCEPT ![s] = t]
    BY DEF Appears
  <2>2. setting \in [Slots -> Targets] /\ own \in [Slots -> {Absent, Off, Own}]
    BY DEF ProxyInv, TypeOK, Sheet
  <2> QED
    BY <1>1, <2>1, <2>2 DEF Alike
<1> QED
  BY <1>1, <1>2, Nones, StageQuiet DEF BackInv, Alike

LEMMA BackNext == ProxyInv /\ BackInv /\ ~Blind /\ [Next]_vars => BackInv'
<1> SUFFICES ASSUME ProxyInv, BackInv, ~Blind, [Next]_vars PROVE BackInv'
  OBVIOUS
<1>1. ASSUME NEW w \in Workers, JobStep(w) PROVE BackInv'
  BY <1>1, EnableBack, WriteBack, SetBack, SwapBack, ReadBack, RestoreBack, RemoveBack, EndsBack
     DEF JobStep
<1>2. CASE UNCHANGED vars
  BY <1>2 DEF vars, files, BackInv, StageInv, Alike, InEffect
<1> QED
  BY <1>1, <1>2, AppearsBack, ProcessBack, CommandBack DEF Next

\* System-proxy changes are reversible whatever is killed and whatever fails, as
\* long as no disable runs without a whole snapshot: that disable takes its
\* absence for an order to switch everything off is what stands against the promise.
THEOREM ReversibleTheorem == OneAtATime /\ Spec /\ []~Blind => []Reversible
<1>1. BackInv => Reversible
  BY DEF BackInv, Reversible
<1> QED
  BY <1>1, BackInit, BackNext, ProxyTheorem, PTL DEF Spec

\* A command to switch off while the switch is off, as an interface that shows an
\* old state gives it.
AskedOff == \E w \in Workers : job[w].pc = "reading" /\ job[w].why = "command" /\ ~flag

\* Where a snapshot is to be found when nothing fails and nothing is killed.
OrderInv ==
    /\ guard => snap \in Sheet \/ \E w \in Workers : job[w].pc = "unguarding"
    /\ flag => guard \/ \E w \in Workers : job[w].pc = "disabled" /\ job[w].why = "command"
    /\ \A w \in Workers :
          /\ job[w].pc = "guarding" => snap \in Sheet
          /\ job[w].pc = "reading" => guard \/ (job[w].why = "command" /\ ~flag)

\* A step of one worker that leaves switch and files alone, and is neither about to
\* read nor about to write the guard.
LEMMA OrderStays ==
    ASSUME ProxyInv, OrderInv, NEW w \in Workers, job[w].pc \notin {"idle", "unguarding", "disabled"},
           NEW j, job' = [job EXCEPT ![w] = j], j.pc \notin {"guarding", "reading"},
           UNCHANGED <<flag, guard, snap>>
    PROVE  OrderInv'
<1>1. job'[w] = j /\ \A v \in Workers \ {w} : job[v].pc = "idle" /\ job'[v].pc = "idle"
  BY Alone DEF ProxyInv, AloneInv
<1>2. (guard => snap \in Sheet) /\ (flag => guard)
  BY <1>1 DEF OrderInv
<1> QED
  BY <1>1, <1>2 DEF OrderInv

\* Nobody works, and nobody worked on the files.
LEMMA OrderQuiet ==
    ASSUME AllIdle', guard' => snap' \in Sheet, flag' => guard'
    PROVE  OrderInv'
BY DEF OrderInv, AllIdle

\* A worker that begins while nobody works.
LEMMA OrderBegins ==
    ASSUME ProxyInv, OrderInv, AllIdle, NEW w \in Workers, NEW j, job' = [job EXCEPT ![w] = j],
           j.pc \in {"listing", "reading", "swapping"},
           j.pc = "reading" => guard \/ (j.why = "command" /\ ~flag'),
           flag' => flag, UNCHANGED <<guard, snap>>
    PROVE  OrderInv'
<1>1. job'[w] = j /\ \A v \in Workers \ {w} : job'[v].pc = "idle"
  BY DEF ProxyInv, TypeOK, AllIdle
<1>2. (guard => snap \in Sheet) /\ (flag => guard)
  BY DEF OrderInv, AllIdle
<1> QED
  BY <1>1, <1>2 DEF OrderInv

LEMMA OrderStep ==
    ASSUME ~Faults, ProxyInv, OrderInv, NEW w \in Workers, JobStep(w)
    PROVE  OrderInv'
<1>0. TypeOK /\ job[w] \in Job /\ job[w].sheet \in Sheet /\ job \in [Workers -> Job]
  BY DEF ProxyInv, TypeOK, Job
<1>a. job[w].pc # "idle" /\ \A v \in Workers \ {w} : job[v].pc = "idle"
  <2>1. job[w].pc # "idle"
    BY DEF JobStep, Swap, List, Save, WriteSnapshot, WriteGuard, SetSlot, FlagOn, ReadSnapshot,
       RestoreSlot, RemoveSnapshot, RemoveGuard, Disabled, Fail
  <2> QED
    BY <2>1 DEF ProxyInv, AloneInv
<1>b. /\ job[w].pc # "unguarding" => (guard => snap \in Sheet)
      /\ job[w].pc # "disabled" => (flag => guard)
  BY <1>a DEF OrderInv
<1>1. CASE Swap(w)
  <2> DEFINE j == IF flag THEN [job[w] EXCEPT !.pc = "reading"] ELSE Idle
  <2>0. job[w].pc = "swapping" /\ ~flag' /\ UNCHANGED <<guard, snap>> /\ job' = [job EXCEPT ![w] = j]
    BY <1>1 DEF Swap, files
  <2>1. j.pc = "idle" \/ (j.pc = "reading" /\ flag)
    BY <1>0 DEF Job, Idle
  <2> HIDE DEF j
  <2>2. job'[w] = j /\ \A v \in Workers \ {w} : job'[v].pc = "idle"
    BY <1>0, <1>a, <2>0, Alone
  <2> QED
    BY <1>b, <2>0, <2>1, <2>2 DEF OrderInv
<1>2. CASE List(w)
  <2> DEFINE j == [job[w] EXCEPT !.pc = IF guard THEN "setting" ELSE "saving", !.sheet = Listing]
  <2>1. job' = [job EXCEPT ![w] = j] /\ UNCHANGED <<flag, guard, snap>> /\ job[w].pc = "listing"
    BY <1>0, <1>2 DEF List, files
  <2>2. j.pc \notin {"guarding", "reading"}
    BY <1>0 DEF Job
  <2> HIDE DEF j
  <2> QED
    BY <2>1, <2>2, OrderStays
<1>3. CASE Save(w)
  <2> DEFINE saved == [job[w] EXCEPT !.sheet[job[w].at] = Saved(w)]
             j == IF saved.at < NumSlots THEN [saved EXCEPT !.at = saved.at + 1]
                  ELSE [saved EXCEPT !.pc = "writing", !.at = 1]
  <2>1. job' = [job EXCEPT ![w] = j] /\ UNCHANGED <<flag, guard, snap>> /\ job[w].pc = "saving"
    BY <1>0, <1>3 DEF Save, Saved, files
  <2>2. j.pc \notin {"guarding", "reading"}
    BY <1>0, <2>1 DEF Job
  <2> HIDE DEF j
  <2> QED
    BY <2>1, <2>2, OrderStays
<1>4. CASE WriteSnapshot(w)
  <2> DEFINE j == [job[w] EXCEPT !.pc = "guarding", !.at = 1]
  <2>1. job' = [job EXCEPT ![w] = j] /\ UNCHANGED <<flag, guard>> /\ snap' \in Sheet
          /\ job[w].pc = "writing"
    BY <1>0, <1>4, MovesTo DEF WriteSnapshot
  <2>2. j.pc = "guarding"
    BY <1>0 DEF Job
  <2> HIDE DEF j
  <2>3. job'[w] = j /\ \A v \in Workers \ {w} : job'[v].pc = "idle"
    BY <1>a, <2>1, Alone
  <2> QED
    BY <1>b, <2>1, <2>2, <2>3 DEF OrderInv
<1>5. CASE WriteGuard(w)
  <2> DEFINE j == [job[w] EXCEPT !.pc = "setting", !.at = 1]
  <2>1. job' = [job EXCEPT ![w] = j] /\ UNCHANGED <<flag, snap>> /\ guard' /\ snap \in Sheet
    BY <1>0, <1>5, MovesTo DEF WriteGuard, OrderInv
  <2>2. j.pc = "setting"
    BY <1>0 DEF Job
  <2> HIDE DEF j
  <2>3. job'[w] = j /\ \A v \in Workers \ {w} : job'[v].pc = "idle"
    BY <1>a, <2>1, Alone
  <2> QED
    BY <2>1, <2>2, <2>3 DEF OrderInv
<1>6. CASE SetSlot(w)
  <2> DEFINE j == IF job[w].at < NumSlots THEN [job[w] EXCEPT !.at = job[w].at + 1]
                  ELSE [job[w] EXCEPT !.pc = "enabled", !.at = 1]
  <2>1. job' = [job EXCEPT ![w] = j] /\ UNCHANGED <<flag, guard, snap>> /\ job[w].pc = "setting"
    BY <1>0, <1>6, AdvancesTo DEF SetSlot, files
  <2>2. j.pc \notin {"guarding", "reading"}
    BY <1>0, <2>1 DEF Job
  <2> HIDE DEF j
  <2> QED
    BY <2>1, <2>2, OrderStays
<1>7. CASE FlagOn(w)
  <2>1. AllIdle' /\ guard /\ UNCHANGED <<guard, snap>> /\ job[w].pc = "enabled"
    BY <1>a, <1>7, Ended DEF FlagOn, ProxyInv, JobInv, EnableInv, files
  <2> QED
    BY <1>b, <2>1, OrderQuiet
<1>8. CASE ReadSnapshot(w)
  <2> DEFINE j == [job[w] EXCEPT !.pc = "restoring",
                                 !.sheet = IF snap \in {None, Torn} THEN Listing ELSE snap]
  <2>1. job' = [job EXCEPT ![w] = j] /\ UNCHANGED <<flag, guard, snap>> /\ job[w].pc = "reading"
    BY <1>0, <1>8 DEF ReadSnapshot, files
  <2>2. j.pc \notin {"guarding", "reading"}
    BY <1>0 DEF Job
  <2> HIDE DEF j
  <2> QED
    BY <2>1, <2>2, OrderStays
<1>9. CASE RestoreSlot(w)
  <2> DEFINE j == IF job[w].at < NumSlots THEN [job[w] EXCEPT !.at = job[w].at + 1]
                  ELSE [job[w] EXCEPT !.pc = "unsnapping", !.at = 1]
  <2>1. job' = [job EXCEPT ![w] = j] /\ UNCHANGED <<flag, guard, snap>> /\ job[w].pc = "restoring"
    BY <1>0, <1>9, AdvancesTo DEF RestoreSlot, files
  <2>2. j.pc \notin {"guarding", "reading"}
    BY <1>0, <2>1 DEF Job
  <2> HIDE DEF j
  <2> QED
    BY <2>1, <2>2, OrderStays
<1>10. CASE RemoveSnapshot(w)
  <2> DEFINE j == [job[w] EXCEPT !.pc = "unguarding", !.at = 1]
  <2>1. job' = [job EXCEPT ![w] = j] /\ UNCHANGED <<flag, guard>> /\ job[w].pc = "unsnapping"
    BY <1>0, <1>10, MovesTo DEF RemoveSnapshot
  <2>2. j.pc = "unguarding"
    BY <1>0 DEF Job
  <2> HIDE DEF j
  <2>3. job'[w] = j /\ \A v \in Workers \ {w} : job'[v].pc = "idle"
    BY <1>a, <2>1, Alone
  <2> QED
    BY <1>b, <2>1, <2>2, <2>3 DEF OrderInv
<1>11. CASE RemoveGuard(w)
  <2> DEFINE j == [job[w] EXCEPT !.pc = "disabled", !.at = 1]
  <2>1. job' = [job EXCEPT ![w] = j] /\ ~guard' /\ UNCHANGED flag /\ job[w].pc = "unguarding"
    BY <1>0, <1>11, MovesTo DEF RemoveGuard
  <2>2. j.pc = "disabled" /\ j.why = job[w].why
    BY <1>0 DEF Job
  <2> HIDE DEF j
  <2>3. job'[w] = j /\ \A v \in Workers \ {w} : job'[v].pc = "idle"
    BY <1>a, <2>1, Alone
  <2>4. flag => job[w].why = "command"
    BY <1>a, <2>1 DEF ProxyInv, AloneInv, JobInv, DisableInv, Disabling
  <2> QED
    BY <2>1, <2>2, <2>3, <2>4 DEF OrderInv
<1>12. CASE Disabled(w)
  <2>1. AllIdle' /\ ~flag' /\ UNCHANGED <<guard, snap>> /\ job[w].pc = "disabled"
    BY <1>12, ReturnsQuietly DEF Disabled, files
  <2> QED
    BY <1>b, <2>1, OrderQuiet
<1>13. CASE Fail(w)
  BY <1>13 DEF Fail
<1> QED
  BY <1>1, <1>2, <1>3, <1>4, <1>5, <1>6, <1>7, <1>8, <1>9, <1>10, <1>11, <1>12, <1>13 DEF JobStep

LEMMA OrderNext == ~Crashes /\ ~Faults /\ ProxyInv /\ OrderInv /\ [Next]_vars => OrderInv'
<1> SUFFICES ASSUME ~Crashes, ~Faults, ProxyInv, OrderInv, [Next]_vars PROVE OrderInv'
  OBVIOUS
<1>0. Shell \in Workers
  BY DEF Workers
<1>1. ASSUME AllIdle PROVE (guard => snap \in Sheet) /\ (flag => guard)
  BY <1>1 DEF OrderInv, AllIdle
<1>2. CASE Launch
  <2>1. AllIdle /\ ~flag /\ UNCHANGED <<flag, guard, snap>>
    BY <1>2 DEF Launch, ProxyInv, AloneInv, AllIdle, files
  <2>2. CASE guard
    <3> DEFINE j == [Idle EXCEPT !.pc = "reading", !.why = "launch"]
    <3>1. job' = [job EXCEPT ![Shell] = j] /\ j.pc = "reading"
      BY <1>2, <2>2 DEF Launch, Idle
    <3> HIDE DEF j
    <3> QED
      BY <1>0, <2>1, <2>2, <3>1, OrderBegins
  <2>3. CASE ~guard
    BY <1>2, <2>1, <2>3, OrderQuiet DEF Launch, AllIdle
  <2> QED
    BY <2>2, <2>3
<1>3. CASE Exit
  <2>1. AllIdle /\ ~flag' /\ UNCHANGED <<guard, snap>>
    BY <1>3 DEF Exit, Ends, ProxyInv, OneAtATime, files
  <2>2. CASE flag
    <3> DEFINE j == [Idle EXCEPT !.pc = "reading", !.why = "exit"]
    <3>1. job' = [job EXCEPT ![Shell] = j] /\ j.pc = "reading"
      BY <1>3, <2>2 DEF Exit, Idle
    <3> HIDE DEF j
    <3> QED
      BY <1>0, <1>1, <2>1, <2>2, <3>1, OrderBegins
  <2>3. CASE ~flag
    BY <1>1, <1>3, <2>1, <2>3, OrderQuiet DEF Exit, Ends, AllIdle, Idle
  <2> QED
    BY <2>2, <2>3
<1>4. ASSUME NEW w \in Callers, Command(w) PROVE OrderInv'
  <2>0. w \in Workers /\ AllIdle /\ UNCHANGED <<flag, guard, snap>>
    BY <1>4, AllAlone DEF Command, Start, Enable, Disable, Stop, Workers, files
  <2>1. ASSUME NEW pc \in {"listing", "reading", "swapping"}, NEW p, NEW why,
               Begins(w, pc, p, why), pc = "reading" => why = "command"
        PROVE  OrderInv'
    <3> DEFINE j == [Idle EXCEPT !.pc = pc, !.port = p, !.why = why]
    <3>1. job' = [job EXCEPT ![w] = j] /\ j.pc = pc /\ j.why = why
      BY <2>1 DEF Begins, Idle
    <3> HIDE DEF j
    <3> QED
      BY <1>1, <2>0, <2>1, <3>1, OrderBegins
  <2>2. CASE \E p \in Ports : Start(w, p)
    BY <1>1, <2>0, <2>2, OrderQuiet DEF Start, AllIdle
  <2>3. CASE Enable(w) \/ Disable(w) \/ Stop(w)
    BY <2>1, <2>3 DEF Enable, Disable, Stop
  <2> QED
    BY <1>4, <2>2, <2>3 DEF Command
<1>5. ASSUME NEW s \in Slots, Appears(s) PROVE OrderInv'
  <2>1. AllIdle /\ UNCHANGED <<flag, guard, snap, job>>
    BY <1>5 DEF ProxyInv, OneAtATime, Appears, files
  <2> QED
    BY <1>1, <2>1, OrderQuiet DEF AllIdle
<1>6. CASE UNCHANGED vars
  BY <1>6 DEF vars, files, OrderInv
<1> QED
  BY <1>2, <1>3, <1>4, <1>5, <1>6, OrderStep DEF Next, Crash

\* Then a disable that nobody asked for in vain finds a snapshot.
LEMMA OrderSees == ProxyInv /\ OrderInv /\ ~AskedOff => ~Blind
<1> SUFFICES ASSUME ProxyInv, OrderInv, ~AskedOff, NEW w \in Workers, job[w].pc = "reading"
             PROVE  snap \notin {None, Torn}
  BY DEF Blind
<1>1. guard /\ \A v \in Workers : job[v].pc # "unguarding"
  BY DEF ProxyInv, AloneInv, OrderInv, AskedOff
<1> QED
  BY <1>1, Nones DEF OrderInv

\* So the promise holds for a program that is never killed on a system whose
\* commands succeed, for any sequence of commands, slots and ports, as long as
\* nobody switches off what is off.
THEOREM OrderlyTheorem ==
    OneAtATime /\ ~Crashes /\ ~Faults /\ Spec /\ []~AskedOff => []Reversible
<1> DEFINE I == ~Crashes /\ ~Faults /\ OrderInv
<1>1. ~Crashes /\ ~Faults /\ Init => I
  <2>1. Init => OrderInv
    BY DEF Init, OrderInv, Idle
  <2> QED
    BY <2>1
<1>2. ProxyInv /\ I /\ [Next]_vars => I'
  <2>1. ProxyInv /\ I /\ [Next]_vars => OrderInv'
    BY OrderNext
  <2> QED
    BY <2>1
<1>3. ProxyInv /\ I /\ ~AskedOff => ~Blind
  BY OrderSees
<1> HIDE DEF I
<1>4. OneAtATime /\ ~Crashes /\ ~Faults /\ Spec /\ []~AskedOff => []~Blind
  BY <1>1, <1>2, <1>3, ProxyTheorem, PTL DEF Spec
<1> QED
  BY <1>4, ReversibleTheorem, PTL

-----------------------------------------------------------------------------
(* Commands that overlap *)

\* An enable overlaps no other enable and no disable; disables, by commands,
\* stops, the launch or an exit, overlap as they like.
EnablesApart ==
    \A v, w \in Workers :
        v # w /\ job[v].pc \in Enabling => job[w].pc \notin Enabling \cup Disabling

\* Nothing at all is in flight beside an enable.
EnablesAlone ==
    \A v, w \in Workers : v # w /\ job[v].pc \in Enabling => job[w].pc = "idle"

\* What a worker can rely on, whoever else is disabling.
HeldInv(w) ==
    /\ job[w].pc \in {"saving", "writing", "guarding"} => ~guard
    /\ job[w].pc \in {"saving", "writing"} => Clean(job[w].sheet)
    /\ job[w].pc = "setting" => guard
    /\ job[w].pc \in {"swapping", "reading"} => job[w].at = 1
    /\ job[w].pc = "restoring" =>
          /\ Clean(job[w].sheet)
          /\ \A s \in Slots : s < job[w].at => setting[s] \notin Ports
    /\ job[w].pc \in {"unsnapping", "unguarding", "disabled"} => Clean(setting)

CleanInv ==
    /\ guard \/ Clean(setting)
    /\ snap \in Sheet => Clean(snap)

\* Whatever overlaps.
Basis == TypeOK /\ PresentInv

SharedInv == ~Roaming /\ Basis /\ (\A w \in Workers : HeldInv(w)) /\ CleanInv

LEMMA SharedInit == ~Roaming /\ Init => SharedInv
<1> SUFFICES ASSUME ~Roaming, Init PROVE SharedInv
  OBVIOUS
<1>1. Clean(setting) /\ snap = None /\ Basis
  BY TypeInit, PresentInit, Values DEF Init, Clean, Basis
<1>2. \A w \in Workers : job[w].pc = "idle"
  BY DEF Init, Idle
<1> QED
  BY <1>1, <1>2, Nones DEF SharedInv, Basis, HeldInv, CleanInv

\* A worker that is idle relies on nothing.
LEMMA IdleHolds == ASSUME NEW w \in Workers, job'[w].pc = "idle" PROVE HeldInv(w)'
BY DEF HeldInv

\* What a step of worker w leaves of the others' parts: if it is enabling they
\* rely on nothing it changes; if it is disabling, no slot becomes ours.
LEMMA OthersHold ==
    ASSUME SharedInv, EnablesApart, NEW w \in Workers,
           \A v \in Workers \ {w} : job'[v] = job[v] \/ job'[v].pc = "idle",
           \/ job[w].pc \in Enabling
           \/ /\ job[w].pc \in Disabling
              /\ \A s \in Slots : setting'[s] = setting[s] \/ setting'[s] \notin Ports
           \/ UNCHANGED <<setting, guard>>
    PROVE  \A v \in Workers \ {w} : HeldInv(v)'
<1> SUFFICES ASSUME NEW v \in Workers \ {w} PROVE HeldInv(v)'
  OBVIOUS
<1>1. CASE job'[v].pc = "idle"
  BY <1>1, IdleHolds
<1>2. CASE job'[v] = job[v]
  <2>0. HeldInv(v) /\ job'[v].pc = job[v].pc /\ job'[v].at = job[v].at /\ job'[v].sheet = job[v].sheet
    BY <1>2 DEF SharedInv, Basis
  <2>1. CASE job[w].pc \in Enabling
    <3>1. job[v].pc \notin Enabling \cup Disabling
      BY <2>1 DEF EnablesApart
    <3> QED
      BY <2>0, <3>1 DEF HeldInv, Enabling, Disabling
  <2>2. CASE job[w].pc \in Disabling /\ \A s \in Slots : setting'[s] = setting[s] \/ setting'[s] \notin Ports
    <3>1. job[v].pc \notin Enabling
      BY <2>2 DEF EnablesApart
    <3>2. Clean(setting) => Clean(setting')
      BY <2>2 DEF Clean
    <3> QED
      BY <2>0, <2>2, <3>1, <3>2 DEF HeldInv, Enabling, Clean
  <2>3. CASE UNCHANGED <<setting, guard>>
    BY <2>0, <2>3 DEF HeldInv, Clean
  <2> QED
    BY <2>1, <2>2, <2>3
<1> QED
  BY <1>1, <1>2

\* A worker that goes on.
LEMMA SharedGoesOn ==
    ASSUME SharedInv, EnablesApart, Basis', NEW w \in Workers, NEW j, job' = [job EXCEPT ![w] = j],
           HeldInv(w)', CleanInv',
           \/ job[w].pc \in Enabling
           \/ /\ job[w].pc \in Disabling
              /\ \A s \in Slots : setting'[s] = setting[s] \/ setting'[s] \notin Ports
           \/ UNCHANGED <<setting, guard>>
    PROVE  SharedInv'
<1>1. \A v \in Workers \ {w} : job'[v] = job[v]
  BY DEF SharedInv, Basis, TypeOK
<1>2. \A v \in Workers \ {w} : HeldInv(v)'
  BY <1>1, OthersHold
<1> QED
  BY <1>2 DEF SharedInv, Basis

LEMMA SharedEnables ==
    ASSUME SharedInv, EnablesApart, Basis', NEW w \in Workers,
           List(w) \/ Save(w) \/ WriteSnapshot(w) \/ WriteGuard(w)
    PROVE  SharedInv'
<1>0. TypeOK /\ job[w] \in Job /\ job[w].pc \in Enabling /\ UNCHANGED setting /\ HeldInv(w) /\ CleanInv
  BY DEF SharedInv, Basis, TypeOK, List, Save, WriteSnapshot, WriteGuard, Enabling
<1>1. CASE List(w)
  <2> DEFINE j == [job[w] EXCEPT !.pc = IF guard THEN "setting" ELSE "saving",
                                 !.sheet = Listing]
  <2>1. job' = [job EXCEPT ![w] = j] /\ UNCHANGED <<guard, snap>>
    BY <1>0, <1>1 DEF List, TypeOK, Job, files
  <2>2. j.pc = (IF guard THEN "setting" ELSE "saving") /\ j.sheet = Listing
    BY <1>0 DEF Job
  <2> HIDE DEF j
  <2>3. job'[w] = j
    BY <1>0, <2>1 DEF TypeOK
  <2>4. Clean(Listing)
    BY ListingIs
  <2>5. HeldInv(w)'
    BY <2>1, <2>2, <2>3, <2>4 DEF HeldInv
  <2>6. CleanInv'
    BY <1>0, <2>1 DEF CleanInv, Clean
  <2> QED
    BY <1>0, <2>1, <2>5, <2>6, SharedGoesOn
<1>2. CASE Save(w)
  <2> DEFINE saved == [job[w] EXCEPT !.sheet[job[w].at] = Saved(w)]
             j == IF saved.at < NumSlots THEN [saved EXCEPT !.at = saved.at + 1]
                  ELSE [saved EXCEPT !.pc = "writing", !.at = 1]
  <2>0. job[w].pc = "saving" /\ job[w].at \in Slots
    BY <1>0, <1>2 DEF Save, Job
  <2>1. job' = [job EXCEPT ![w] = j] /\ UNCHANGED <<guard, snap>>
    BY <1>0, <1>2, <2>0 DEF Save, Saved, TypeOK, Job, files
  <2>2. j.pc \in {"saving", "writing"}
          /\ j.sheet = [job[w].sheet EXCEPT ![job[w].at] = Saved(w)]
    BY <1>0, <2>0 DEF Job
  <2> HIDE DEF j
  <2>3. job'[w] = j
    BY <1>0, <2>1 DEF TypeOK
  <2>4. ~guard /\ Clean(setting) /\ job[w].sheet \in Sheet /\ Clean(job[w].sheet)
    BY <1>0, <2>0 DEF HeldInv, CleanInv, Job
  <2>5. j.sheet \in Sheet /\ Clean(j.sheet)
    <3>1. Saved(w) \in Targets /\ Saved(w) \notin Ports
      BY <1>0, <2>0, <2>4, Values DEF Saved, Sheet, Clean, TypeOK
    <3> QED
      BY <2>0, <2>2, <2>4, <3>1 DEF Sheet, Clean
  <2>6. HeldInv(w)'
    BY <2>1, <2>2, <2>3, <2>4, <2>5 DEF HeldInv
  <2>7. CleanInv'
    BY <1>0, <2>1 DEF CleanInv, Clean
  <2> QED
    BY <1>0, <2>1, <2>6, <2>7, SharedGoesOn
<1>3. CASE WriteSnapshot(w) \/ WriteGuard(w)
  <2> DEFINE pc == IF job[w].pc = "writing" THEN "guarding" ELSE "setting"
             j  == [job[w] EXCEPT !.pc = pc, !.at = 1]
  <2>0. job[w].pc \in {"writing", "guarding"}
    BY <1>3 DEF WriteSnapshot, WriteGuard
  <2>1. job' = [job EXCEPT ![w] = j]
    BY <1>0, <1>3, MovesTo DEF WriteSnapshot, WriteGuard
  <2>2. j.pc = pc
    BY <1>0 DEF Job
  <2> HIDE DEF j
  <2>3. job'[w] = j
    BY <1>0, <2>1 DEF TypeOK
  <2>4. ~guard /\ Clean(setting) /\ (job[w].pc = "writing" => Clean(job[w].sheet))
    BY <1>0, <2>0 DEF HeldInv, CleanInv
  <2>5. /\ job[w].pc = "writing" => guard' = guard /\ snap' = job[w].sheet
        /\ job[w].pc = "guarding" => guard' = TRUE /\ snap' = snap
    BY <1>3 DEF WriteSnapshot, WriteGuard
  <2>6. HeldInv(w)'
    BY <2>0, <2>2, <2>3, <2>4, <2>5 DEF HeldInv
  <2>7. CleanInv'
    BY <1>0, <2>0, <2>4, <2>5 DEF CleanInv, Clean
  <2> QED
    BY <1>0, <2>1, <2>6, <2>7, SharedGoesOn
<1> QED
  BY <1>1, <1>2, <1>3

LEMMA SharedSets == ASSUME SharedInv, EnablesApart, Basis', NEW w \in Workers, SetSlot(w) PROVE SharedInv'
<1> DEFINE j == IF job[w].at < NumSlots THEN [job[w] EXCEPT !.at = job[w].at + 1]
                ELSE [job[w] EXCEPT !.pc = "enabled", !.at = 1]
<1>0. TypeOK /\ job[w] \in Job /\ job[w].pc = "setting" /\ guard /\ UNCHANGED <<guard, snap>> /\ CleanInv
  BY DEF SharedInv, Basis, TypeOK, SetSlot, HeldInv, files
<1>1. job' = [job EXCEPT ![w] = j]
  BY <1>0, AdvancesTo DEF SetSlot
<1>2. j.pc \in {"setting", "enabled"}
  BY <1>0 DEF Job
<1> HIDE DEF j
<1>3. job'[w] = j
  BY <1>0, <1>1 DEF TypeOK
<1>4. HeldInv(w)'
  BY <1>0, <1>2, <1>3 DEF HeldInv
<1>5. CleanInv'
  BY <1>0 DEF CleanInv
<1> QED
  BY <1>0, <1>1, <1>4, <1>5, SharedGoesOn DEF Enabling

LEMMA SharedReads == ASSUME SharedInv, EnablesApart, Basis', NEW w \in Workers, ReadSnapshot(w) PROVE SharedInv'
<1> DEFINE sheet == IF snap \in {None, Torn} THEN Listing ELSE snap
           j     == [job[w] EXCEPT !.pc = "restoring", !.sheet = sheet]
<1>0. /\ TypeOK /\ job[w] \in Job /\ job[w].pc = "reading" /\ job[w].at = 1
      /\ UNCHANGED <<setting, guard, snap>> /\ CleanInv
  BY DEF SharedInv, Basis, TypeOK, ReadSnapshot, HeldInv, files
<1>1. job' = [job EXCEPT ![w] = j]
  BY <1>0 DEF ReadSnapshot, TypeOK, Job
<1>2. j.pc = "restoring" /\ j.at = 1 /\ j.sheet = sheet
  BY <1>0 DEF Job
<1> HIDE DEF j
<1>3. job'[w] = j
  BY <1>0, <1>1 DEF TypeOK
<1>4. Clean(sheet)
  BY <1>0, ListingIs DEF CleanInv, TypeOK
<1> HIDE DEF sheet
<1>5. HeldInv(w)'
  BY <1>2, <1>3, <1>4, LastSlot, Nones DEF HeldInv
<1>6. CleanInv'
  BY <1>0 DEF CleanInv, Clean
<1> QED
  BY <1>0, <1>1, <1>5, <1>6, SharedGoesOn

LEMMA SharedRestores == ASSUME SharedInv, EnablesApart, Basis', NEW w \in Workers, RestoreSlot(w) PROVE SharedInv'
<1> DEFINE j == IF job[w].at < NumSlots THEN [job[w] EXCEPT !.at = job[w].at + 1]
                ELSE [job[w] EXCEPT !.pc = "unsnapping", !.at = 1]
           v == Restored(setting[job[w].at], job[w].sheet[job[w].at])
<1>0. /\ TypeOK /\ job[w] \in Job /\ job[w].pc = "restoring" /\ job[w].at \in Slots
      /\ UNCHANGED <<guard, snap>> /\ HeldInv(w) /\ CleanInv
  BY DEF SharedInv, Basis, TypeOK, RestoreSlot, Job, files
<1>1. job' = [job EXCEPT ![w] = j]
  BY <1>0, AdvancesTo DEF RestoreSlot
<1>2. /\ j.sheet = job[w].sheet
      /\ \/ job[w].at < NumSlots /\ j.pc = "restoring" /\ j.at = job[w].at + 1
         \/ ~(job[w].at < NumSlots) /\ j.pc = "unsnapping"
  BY <1>0 DEF Job
<1> HIDE DEF j
<1>3. job'[w] = j
  BY <1>0, <1>1 DEF TypeOK
<1>4. /\ job[w].sheet \in Sheet /\ Clean(job[w].sheet)
      /\ \A s \in Slots : s < job[w].at => setting[s] \notin Ports
  BY <1>0 DEF HeldInv, Job
<1>5. v \notin Ports
  <2>1. job[w].sheet[job[w].at] = Absent => setting[job[w].at] = Absent
    BY <1>0 DEF SharedInv, Basis, PresentInv, SameServices, Holding
  <2>2. job[w].sheet[job[w].at] \in Targets \ Ports /\ setting[job[w].at] \in Targets
    BY <1>0, <1>4 DEF TypeOK, Sheet, Clean
  <2> QED
    BY <2>1, <2>2, RestoredIs, Values
<1>6. setting' = [setting EXCEPT ![job[w].at] = v]
  BY DEF RestoreSlot
<1> HIDE DEF v
<1>7. /\ \A s \in Slots : s < job[w].at \/ s = job[w].at => setting'[s] \notin Ports
      /\ \A s \in Slots : setting'[s] = setting[s] \/ setting'[s] \notin Ports
  BY <1>0, <1>4, <1>5, <1>6 DEF TypeOK, Sheet
<1>8. HeldInv(w)'
  <2>1. CASE j.pc = "restoring"
    BY <1>2, <1>0, <1>3, <1>4, <1>7, <2>1, LastSlot DEF HeldInv
  <2>2. CASE j.pc = "unsnapping"
    BY <1>2, <1>0, <1>3, <1>7, <2>2, LastSlot DEF HeldInv, Clean
  <2> QED
    BY <1>2, <2>1, <2>2
<1>9. CleanInv'
  BY <1>0, <1>7 DEF CleanInv, Clean
<1> QED
  BY <1>0, <1>1, <1>7, <1>8, <1>9, SharedGoesOn DEF Disabling

LEMMA SharedRemoves ==
    ASSUME SharedInv, EnablesApart, Basis', NEW w \in Workers, RemoveSnapshot(w) \/ RemoveGuard(w)
    PROVE  SharedInv'
<1> DEFINE pc == IF job[w].pc = "unsnapping" THEN "unguarding" ELSE "disabled"
           j  == [job[w] EXCEPT !.pc = pc, !.at = 1]
<1>0. /\ TypeOK /\ job[w] \in Job /\ job[w].pc \in {"unsnapping", "unguarding"}
      /\ UNCHANGED setting /\ snap' \in {None, snap} /\ HeldInv(w) /\ CleanInv
  BY DEF SharedInv, Basis, TypeOK, RemoveSnapshot, RemoveGuard
<1>1. job' = [job EXCEPT ![w] = j]
  BY <1>0, MovesTo DEF RemoveSnapshot, RemoveGuard
<1>2. j.pc = pc
  BY <1>0 DEF Job
<1> HIDE DEF j
<1>3. job'[w] = j /\ Clean(setting)
  BY <1>0, <1>1 DEF TypeOK, HeldInv
<1>4. HeldInv(w)'
  BY <1>0, <1>2, <1>3 DEF HeldInv, Clean
<1>5. CleanInv'
  BY <1>0, <1>3, Nones DEF CleanInv, Clean
<1> QED
  BY <1>0, <1>1, <1>4, <1>5, SharedGoesOn DEF Disabling

LEMMA SharedEnds ==
    ASSUME SharedInv, EnablesApart, Basis', NEW w \in Workers, Swap(w) \/ FlagOn(w) \/ Disabled(w) \/ Fail(w)
    PROVE  SharedInv'
<1>0. TypeOK /\ job[w] \in Job /\ HeldInv(w) /\ CleanInv
  BY DEF SharedInv, Basis, TypeOK
<1>1. CASE Swap(w)
  <2> DEFINE j == IF flag THEN [job[w] EXCEPT !.pc = "reading"] ELSE Idle
  <2>1. job' = [job EXCEPT ![w] = j] /\ UNCHANGED <<setting, guard, snap>> /\ job[w].at = 1
    BY <1>0, <1>1 DEF Swap, HeldInv, files
  <2>2. j.pc \in {"idle", "reading"} /\ j.at = 1
    BY <1>0, <2>1 DEF Job, Idle
  <2> HIDE DEF j
  <2>3. HeldInv(w)'
    BY <1>0, <2>1, <2>2 DEF HeldInv, TypeOK
  <2>4. CleanInv'
    BY <1>0, <2>1 DEF CleanInv, Clean
  <2> QED
    BY <2>1, <2>3, <2>4, SharedGoesOn
<1>2. CASE FlagOn(w)
  <2>1. job' = [job EXCEPT ![w] = Idle] /\ UNCHANGED <<setting, guard, snap>>
    BY <1>2 DEF FlagOn, files
  <2>2. HeldInv(w)'
    BY <1>0, <2>1, IdleHolds DEF TypeOK, Idle
  <2>3. CleanInv'
    BY <1>0, <2>1 DEF CleanInv, Clean
  <2> QED
    BY <2>1, <2>2, <2>3, SharedGoesOn
<1>3. CASE Disabled(w) \/ Fail(w)
  <2>1. /\ job'[w].pc = "idle"
        /\ \A v \in Workers \ {w} : job'[v] = job[v] \/ job'[v].pc = "idle"
    BY <1>0, <1>3, ReturnsLeaves DEF Disabled, Fail
  <2>2. /\ UNCHANGED setting
        /\ job[w].pc \in Enabling \/ guard' = guard
        /\ guard => guard'
        /\ snap' = snap \/ snap' = Torn
    <3>1. CASE Disabled(w)
      BY <3>1 DEF Disabled, files
    <3>2. CASE Fail(w)
      <4>1. UNCHANGED setting /\ (snap' = snap \/ snap' = Torn)
        BY <3>2 DEF Fail
      <4>2. guard' = guard \/ (job[w].pc = "guarding" /\ guard' = TRUE)
        BY <3>2 DEF Fail
      <4> QED
        BY <4>1, <4>2 DEF Enabling
    <3> QED
      BY <1>3, <3>1, <3>2
  <2>3. \A v \in Workers \ {w} : HeldInv(v)'
    BY <2>1, <2>2, OthersHold
  <2>4. CleanInv'
    BY <1>0, <2>2, Nones DEF CleanInv, Clean
  <2> QED
    BY <2>1, <2>3, <2>4, IdleHolds DEF SharedInv, Basis
<1> QED
  BY <1>1, <1>2, <1>3

LEMMA SharedProcess == SharedInv /\ EnablesApart /\ Basis' /\ (Launch \/ Crash \/ Exit) => SharedInv'
<1> SUFFICES ASSUME SharedInv, EnablesApart, Basis', Launch \/ Crash \/ Exit PROVE SharedInv'
  OBVIOUS
<1>0. TypeOK /\ Shell \in Workers /\ CleanInv /\ UNCHANGED setting
  BY DEF SharedInv, Basis, Workers, Launch, Crash, Exit
\* Nobody works any more.
<1>1. ASSUME \A v \in Workers : job'[v].pc = "idle", guard => guard', snap' \in {snap, Torn}
      PROVE  SharedInv'
  <2>1. CleanInv'
    BY <1>0, <1>1, Nones DEF CleanInv, Clean
  <2> QED
    BY <1>1, <2>1, IdleHolds DEF SharedInv, Basis
\* The shell goes on to restore, beside whoever works.
<1>2. ASSUME NEW why, job' = [job EXCEPT ![Shell] = [Idle EXCEPT !.pc = "reading", !.why = why]],
             UNCHANGED files
      PROVE  SharedInv'
  <2> DEFINE j == [Idle EXCEPT !.pc = "reading", !.why = why]
  <2>1. j.pc = "reading" /\ j.at = 1
    BY DEF Idle
  <2>2. job' = [job EXCEPT ![Shell] = j]
    BY <1>2
  <2> HIDE DEF j
  <2>3. HeldInv(Shell)'
    BY <1>0, <2>1, <2>2 DEF HeldInv, TypeOK
  <2>4. CleanInv'
    BY <1>0, <1>2 DEF CleanInv, Clean, files
  <2> QED
    BY <1>0, <1>2, <2>2, <2>3, <2>4, SharedGoesOn DEF files
<1>3. CASE Launch
  <2>1. CASE guard
    BY <1>2, <1>3, <2>1 DEF Launch
  <2>2. CASE ~guard
    BY <1>0, <1>3, <2>2 DEF Launch, SharedInv, HeldInv, CleanInv, Clean, files
  <2> QED
    BY <2>1, <2>2
<1>4. CASE Crash
  <2>1. /\ \A v \in Workers : job'[v].pc = "idle"
        /\ guard => guard'
        /\ snap' \in {snap, Torn}
    BY <1>4 DEF Crash, Ends, Idle, files
  <2> QED
    BY <1>1, <2>1
<1>5. CASE Exit
  <2>1. CASE flag
    BY <1>2, <1>5, <2>1 DEF Exit
  <2>2. CASE ~flag
    <3>1. (\A v \in Workers : job'[v].pc = "idle") /\ UNCHANGED files
      BY <1>5, <2>2 DEF Exit, Ends, Idle
    <3> QED
      BY <1>1, <3>1 DEF files
  <2> QED
    BY <2>1, <2>2
<1> QED
  BY <1>3, <1>4, <1>5

LEMMA SharedCommands ==
    ASSUME SharedInv, EnablesApart, Basis', NEW w \in Callers, Command(w)
    PROVE  SharedInv'
<1>0. TypeOK /\ w \in Workers /\ CleanInv /\ UNCHANGED <<setting, guard, snap>>
  BY DEF SharedInv, Basis, Workers, Command, Start, Enable, Disable, Stop, files
<1>1. CleanInv'
  BY <1>0 DEF CleanInv, Clean
<1>2. ASSUME NEW pc \in {"listing", "reading", "swapping"}, NEW p, NEW why, Begins(w, pc, p, why)
      PROVE  SharedInv'
  <2> DEFINE j == [Idle EXCEPT !.pc = pc, !.port = p, !.why = why]
  <2>1. j.pc = pc /\ j.at = 1
    BY DEF Idle
  <2>2. job' = [job EXCEPT ![w] = j]
    BY <1>2 DEF Begins
  <2> HIDE DEF j
  <2>3. HeldInv(w)'
    BY <1>0, <2>1, <2>2 DEF HeldInv, TypeOK
  <2> QED
    BY <1>0, <1>1, <2>2, <2>3, SharedGoesOn
<1>3. CASE Enable(w) \/ Disable(w) \/ Stop(w)
  BY <1>2, <1>3 DEF Enable, Disable, Stop
<1>4. CASE \E p \in Ports : Start(w, p)
  BY <1>0, <1>1, <1>4 DEF Start, SharedInv, HeldInv, Clean
<1> QED
  BY <1>3, <1>4 DEF Command

LEMMA SharedAppears ==
    ASSUME SharedInv, Basis', NEW s \in Slots, Appears(s)
    PROVE  SharedInv'
<1>1. Clean(setting') /\ UNCHANGED snap /\ \A w \in Workers : job'[w].pc = "idle"
  BY Values DEF SharedInv, Basis, CleanInv, Appears, AllIdle, Clean, TypeOK, Sheet, files
<1>2. CleanInv'
  BY <1>1 DEF SharedInv, CleanInv, Clean
<1> QED
  BY <1>1, <1>2, IdleHolds DEF SharedInv

LEMMA SharedNext == SharedInv /\ EnablesApart /\ [Next]_vars => SharedInv'
<1> SUFFICES ASSUME SharedInv, EnablesApart, [Next]_vars PROVE SharedInv'
  OBVIOUS
<1>0. Basis'
  BY TypeNext, PresentNext DEF SharedInv, Basis
<1>1. ASSUME NEW w \in Workers, JobStep(w) PROVE SharedInv'
  BY <1>0, <1>1, SharedEnables, SharedSets, SharedReads, SharedRestores, SharedRemoves, SharedEnds
     DEF JobStep
<1>2. CASE UNCHANGED vars
  BY <1>0, <1>2 DEF vars, files, SharedInv, HeldInv, CleanInv, Clean
<1> QED
  BY <1>0, <1>1, <1>2, SharedAppears, SharedProcess, SharedCommands DEF Next

\* The two promises about what is on disk hold for any number of callers, and a
\* user who quits at any moment, as long as an enable overlaps no other enable
\* and no disable: disables that overlap leave both alone.
THEOREM OverlapTheorem == ~Roaming /\ Spec /\ []EnablesApart => [](Repairable /\ SnapshotIsUsers)
<1>1. SharedInv => Repairable /\ SnapshotIsUsers
  BY DEF SharedInv, Basis, CleanInv, Repairable, SnapshotIsUsers, Ours, Clean
<1> QED
  BY <1>1, SharedInit, SharedNext, PTL DEF Spec
-----------------------------------------------------------------------------
(* The flag, with commands that overlap *)

\* Whose part a worker plays, and how far an enable is.
RoleInv(w) ==
    /\ job[w].pc # "idle" => IF w = Shell THEN job[w].pc \in Disabling /\ ~flag
                                          ELSE job[w].why \in {"command", "stop"}
    /\ job[w].pc \in Disabling /\ job[w].why = "stop" => ~flag
    /\ job[w].pc \in Enabling => proc = "up" /\ job[w].port = port /\ port \in Ports
    /\ job[w].pc = "listing" => job[w].at = 1
    /\ job[w].pc = "setting" => \A s \in Slots : s < job[w].at => setting[s] \in {port, Absent}
    /\ job[w].pc = "enabled" => \A s \in Slots : setting[s] \in {port, Absent}

\* Neither enabling nor disabling.
Passive == \A w \in Workers : job[w].pc \notin Enabling \cup Disabling

\* What the flag says when nobody is about to change it, unless a command failed.
ToldInv ==
    proc = "up" /\ ~failed =>
        /\ flag /\ AllIdle => port # 0 /\ \A s \in Slots : setting[s] \in {port, Absent}
        /\ ~flag /\ Passive => Clean(setting)

FlagInv == SharedInv /\ (\A w \in Workers : RoleInv(w)) /\ (proc # "up" => ~flag) /\ ToldInv

LEMMA FlagInit == ~Roaming /\ Init => FlagInv
<1> SUFFICES ASSUME ~Roaming, Init PROVE FlagInv
  OBVIOUS
<1>1. \A w \in Workers : job[w].pc = "idle"
  BY DEF Init, Idle
<1>2. \A w \in Workers : RoleInv(w)
  BY <1>1 DEF RoleInv, Enabling, Disabling
<1>3. ~flag /\ proc # "up"
  BY DEF Init
<1> QED
  BY <1>2, <1>3, SharedInit DEF FlagInv, ToldInv

\* An idle worker plays no part.
LEMMA IdleRole == ASSUME NEW w \in Workers, job'[w].pc = "idle" PROVE RoleInv(w)'
BY DEF RoleInv, Enabling, Disabling

\* The parts of those who are not enabling, when the flag is not turned on.
LEMMA OthersRole ==
    ASSUME FlagInv, NEW w \in Workers, flag' => flag,
           \A v \in Workers \ {w} : job[v].pc \notin Enabling,
           \A v \in Workers \ {w} : job'[v] = job[v] \/ job'[v].pc = "idle"
    PROVE  \A v \in Workers \ {w} : RoleInv(v)'
<1> SUFFICES ASSUME NEW v \in Workers \ {w} PROVE RoleInv(v)'
  OBVIOUS
<1>1. CASE job'[v].pc = "idle"
  BY <1>1, IdleRole
<1>2. CASE job'[v] = job[v]
  <2>1. RoleInv(v) /\ job[v].pc \notin Enabling
    BY DEF FlagInv
  <2> QED
    BY <1>2, <2>1 DEF RoleInv, Enabling
<1> QED
  BY <1>1, <1>2

\* Beside a worker that does something nobody is enabling.
LEMMA Beside ==
    ASSUME EnablesAlone, NEW w \in Workers, job[w].pc # "idle"
    PROVE  /\ \A v \in Workers \ {w} : job[v].pc \notin Enabling
           /\ job[w].pc \in Enabling => \A v \in Workers \ {w} : job[v].pc = "idle"
BY DEF EnablesAlone

\* A step of enable short of its end.
LEMMA FlagEnables ==
    ASSUME FlagInv, EnablesAlone, NEW w \in Workers, NEW j, job' = [job EXCEPT ![w] = j],
           job[w].pc \in Enabling, j.pc \in Enabling, j.port = job[w].port, j.why = job[w].why,
           j.pc # "listing", UNCHANGED <<proc, port, flag>>,
           j.pc = "setting" => \A s \in Slots : s < j.at => setting'[s] \in {port, Absent},
           j.pc = "enabled" => \A s \in Slots : setting'[s] \in {port, Absent}
    PROVE  (\A v \in Workers : RoleInv(v)') /\ (proc' # "up" => ~flag') /\ ToldInv'
<1>0. job[w].pc # "idle" /\ j.pc # "idle" /\ j.pc \notin Disabling /\ job[w].pc \notin Disabling
  BY DEF Enabling, Disabling
<1>1. job'[w] = j /\ \A v \in Workers \ {w} : job'[v] = job[v]
  BY DEF FlagInv, SharedInv, Basis, TypeOK
<1>2. \A v \in Workers \ {w} : RoleInv(v)'
  BY <1>0, <1>1, Beside, OthersRole
<1>3. RoleInv(w)
  BY DEF FlagInv
<1>4. RoleInv(w)'
  BY <1>0, <1>1, <1>3 DEF RoleInv
<1>5. ~AllIdle' /\ ~Passive'
  BY <1>0, <1>1 DEF AllIdle, Passive
<1> QED
  BY <1>2, <1>4, <1>5 DEF ToldInv, FlagInv

LEMMA EnableSteps ==
    ASSUME FlagInv, EnablesAlone, NEW w \in Workers,
           List(w) \/ Save(w) \/ WriteSnapshot(w) \/ WriteGuard(w) \/ SetSlot(w)
    PROVE  (\A v \in Workers : RoleInv(v)') /\ (proc' # "up" => ~flag') /\ ToldInv'
<1>0. /\ TypeOK /\ job[w] \in Job /\ job[w].at \in Slots /\ job[w].pc \in Enabling
      /\ UNCHANGED <<proc, port, flag>>
      /\ RoleInv(w) /\ job[w].port = port
  BY DEF FlagInv, SharedInv, Basis, TypeOK, Job, RoleInv, List, Save, WriteSnapshot, WriteGuard, SetSlot,
     Enabling
<1>1. CASE List(w)
  <2> DEFINE j == [job[w] EXCEPT !.pc = IF guard THEN "setting" ELSE "saving",
                                 !.sheet = Listing]
  <2>1. job' = [job EXCEPT ![w] = j] /\ job[w].at = 1
    BY <1>0, <1>1 DEF List, TypeOK, Job, RoleInv
  <2>2. j.pc \in {"setting", "saving"} /\ j.port = job[w].port /\ j.why = job[w].why /\ j.at = 1
    BY <1>0, <2>1 DEF Job
  <2> HIDE DEF j
  <2>3. j.pc \in Enabling /\ \A s \in Slots : ~(s < j.at)
    BY <2>2, LastSlot DEF Enabling
  <2> QED
    BY <1>0, <2>1, <2>2, <2>3, FlagEnables
<1>2. CASE Save(w)
  <2> DEFINE saved == [job[w] EXCEPT !.sheet[job[w].at] = Saved(w)]
             j == IF saved.at < NumSlots THEN [saved EXCEPT !.at = saved.at + 1]
                  ELSE [saved EXCEPT !.pc = "writing", !.at = 1]
  <2>1. job' = [job EXCEPT ![w] = j] /\ job[w].pc = "saving"
    BY <1>0, <1>2 DEF Save, Saved, TypeOK, Job
  <2>2. j.pc \in {"saving", "writing"} /\ j.port = job[w].port /\ j.why = job[w].why
    BY <1>0, <2>1 DEF Job
  <2> HIDE DEF j
  <2>3. j.pc \in Enabling
    BY <2>2 DEF Enabling
  <2> QED
    BY <1>0, <2>1, <2>2, <2>3, FlagEnables
<1>3. CASE WriteSnapshot(w) \/ WriteGuard(w)
  <2> DEFINE pc == IF job[w].pc = "writing" THEN "guarding" ELSE "setting"
             j  == [job[w] EXCEPT !.pc = pc, !.at = 1]
  <2>1. job' = [job EXCEPT ![w] = j]
    BY <1>0, <1>3, MovesTo DEF WriteSnapshot, WriteGuard
  <2>2. j.pc = pc /\ j.port = job[w].port /\ j.why = job[w].why /\ j.at = 1
    BY <1>0 DEF Job
  <2> HIDE DEF j
  <2>3. j.pc \in {"guarding", "setting"} /\ j.pc \in Enabling /\ \A s \in Slots : ~(s < j.at)
    BY <2>2, LastSlot DEF Enabling
  <2> QED
    BY <1>0, <2>1, <2>2, <2>3, FlagEnables
<1>4. CASE SetSlot(w)
  <2> DEFINE j == IF job[w].at < NumSlots THEN [job[w] EXCEPT !.at = job[w].at + 1]
                  ELSE [job[w] EXCEPT !.pc = "enabled", !.at = 1]
  <2>0. job[w].pc = "setting" /\ \A s \in Slots : s < job[w].at => setting[s] \in {port, Absent}
    BY <1>0, <1>4 DEF SetSlot, RoleInv
  <2>1. job' = [job EXCEPT ![w] = j]
    BY <1>0, <1>4, AdvancesTo DEF SetSlot
  <2>2. /\ j.port = job[w].port /\ j.why = job[w].why
        /\ \/ job[w].at < NumSlots /\ j.pc = "setting" /\ j.at = job[w].at + 1
           \/ ~(job[w].at < NumSlots) /\ j.pc = "enabled"
    BY <1>0, <2>0 DEF Job
  <2> HIDE DEF j
  <2>a. job[w].sheet[job[w].at] = Absent => setting[job[w].at] = Absent
    BY <1>0, <2>0 DEF FlagInv, SharedInv, Basis, PresentInv, SameServices, Holding
  <2>3. \A s \in Slots : s < job[w].at \/ s = job[w].at => setting'[s] \in {port, Absent}
    BY <1>0, <1>4, <2>0, <2>a DEF SetSlot, TypeOK, Sheet
  <2>4. j.pc \in Enabling /\ j.pc # "listing"
    BY <2>2 DEF Enabling
  <2>5. j.pc = "setting" => \A s \in Slots : s < j.at => setting'[s] \in {port, Absent}
    BY <1>0, <2>2, <2>3, LastSlot
  <2>6. j.pc = "enabled" => \A s \in Slots : setting'[s] \in {port, Absent}
    BY <1>0, <2>2, <2>3, LastSlot
  <2> QED
    BY <1>0, <2>1, <2>2, <2>4, <2>5, <2>6, FlagEnables
<1> QED
  BY <1>1, <1>2, <1>3, <1>4

LEMMA FlagGoesOn ==
    ASSUME FlagInv, EnablesAlone, NEW w \in Workers, FlagOn(w)
    PROVE  (\A v \in Workers : RoleInv(v)') /\ (proc' # "up" => ~flag') /\ ToldInv'
<1>0. job[w].pc = "enabled" /\ job[w].pc \in Enabling /\ job[w].pc # "idle"
  BY DEF FlagOn, Enabling
<1>1. /\ proc = "up" /\ port \in Ports /\ \A s \in Slots : setting[s] \in {port, Absent}
      /\ UNCHANGED <<proc, port, setting, failed>> /\ flag' = TRUE
  BY <1>0 DEF FlagInv, RoleInv, FlagOn
<1>2. \A v \in Workers : job'[v].pc = "idle"
  <2>1. job'[w].pc = "idle" /\ \A v \in Workers \ {w} : job'[v] = job[v]
    BY DEF FlagOn, FlagInv, SharedInv, Basis, TypeOK, Idle
  <2> QED
    BY <1>0, <2>1, Beside
<1>3. port # 0
  BY <1>1 DEF Ports
<1> QED
  BY <1>1, <1>2, <1>3, IdleRole DEF ToldInv

\* A step of disable short of its end.
LEMMA FlagDisables ==
    ASSUME FlagInv, EnablesAlone, NEW w \in Workers,
           ReadSnapshot(w) \/ RestoreSlot(w) \/ RemoveSnapshot(w) \/ RemoveGuard(w)
    PROVE  (\A v \in Workers : RoleInv(v)') /\ (proc' # "up" => ~flag') /\ ToldInv'
<1>0. /\ TypeOK /\ job[w] \in Job /\ job[w].pc \in Disabling /\ job[w].pc # "idle"
      /\ UNCHANGED <<proc, port, flag>> /\ RoleInv(w)
  BY DEF FlagInv, SharedInv, Basis, TypeOK, ReadSnapshot, RestoreSlot, RemoveSnapshot, RemoveGuard,
     Disabling
<1>1. /\ job'[w].pc \in Disabling /\ job'[w].why = job[w].why
      /\ \A v \in Workers \ {w} : job'[v] = job[v]
  <2>1. CASE ReadSnapshot(w)
    <3>1. job' = [job EXCEPT ![w] = [job[w] EXCEPT !.pc = "restoring",
                    !.sheet = IF snap \in {None, Torn} THEN Listing ELSE snap]]
      BY <1>0, <2>1 DEF ReadSnapshot, TypeOK, Job
    <3> QED
      BY <1>0, <3>1 DEF TypeOK, Job, Disabling
  <2>2. CASE RestoreSlot(w)
    <3>1. job' = [job EXCEPT ![w] = IF job[w].at < NumSlots
                                    THEN [job[w] EXCEPT !.at = job[w].at + 1]
                                    ELSE [job[w] EXCEPT !.pc = "unsnapping", !.at = 1]]
      BY <1>0, <2>2, AdvancesTo DEF RestoreSlot
    <3> QED
      BY <1>0, <3>1 DEF TypeOK, Job, Disabling
  <2>3. ASSUME NEW pc \in Disabling, Moves(w, pc)
        PROVE  /\ job'[w].pc \in Disabling /\ job'[w].why = job[w].why
               /\ \A v \in Workers \ {w} : job'[v] = job[v]
    <3>1. job' = [job EXCEPT ![w] = [job[w] EXCEPT !.pc = pc, !.at = 1]]
      BY <1>0, <2>3, MovesTo
    <3> QED
      BY <1>0, <3>1 DEF TypeOK, Job
  <2> QED
    BY <2>1, <2>2, <2>3 DEF RemoveSnapshot, RemoveGuard, Disabling
<1>2. \A v \in Workers \ {w} : RoleInv(v)'
  BY <1>0, <1>1, Beside, OthersRole
<1>3. job'[w].pc \notin Enabling /\ job'[w].pc # "idle"
  BY <1>1 DEF Enabling, Disabling
<1>4. RoleInv(w)'
  BY <1>0, <1>1, <1>3 DEF RoleInv, Enabling
<1>5. ~AllIdle' /\ ~Passive'
  BY <1>1, <1>3 DEF AllIdle, Passive
<1> QED
  BY <1>0, <1>2, <1>4, <1>5 DEF ToldInv, FlagInv

LEMMA FlagSwaps ==
    ASSUME FlagInv, EnablesAlone, NEW w \in Workers, Swap(w)
    PROVE  (\A v \in Workers : RoleInv(v)') /\ (proc' # "up" => ~flag') /\ ToldInv'
<1> DEFINE j == IF flag THEN [job[w] EXCEPT !.pc = "reading"] ELSE Idle
<1>0. /\ TypeOK /\ job[w] \in Job /\ job[w].pc = "swapping" /\ RoleInv(w) /\ ToldInv
      /\ UNCHANGED <<proc, setting, failed>> /\ ~flag' /\ job' = [job EXCEPT ![w] = j]
  BY DEF FlagInv, SharedInv, Basis, TypeOK, Swap
<1>1. /\ flag => j.pc = "reading" /\ j.why = job[w].why
      /\ ~flag => j.pc = "idle"
  BY <1>0 DEF Job, Idle
<1> HIDE DEF j
<1>2. job'[w] = j /\ \A v \in Workers \ {w} : job'[v] = job[v]
  BY <1>0 DEF TypeOK
<1>3. \A v \in Workers \ {w} : RoleInv(v)'
  BY <1>0, <1>2, Beside, OthersRole
<1>4. RoleInv(w)'
  <2>1. w # Shell /\ job[w].why \in {"command", "stop"}
    BY <1>0 DEF RoleInv, Disabling
  <2> QED
    BY <1>0, <1>1, <1>2, <2>1, IdleRole DEF RoleInv, Enabling
<1>5. ToldInv'
  <2>1. ASSUME Passive' PROVE ~flag /\ Passive
    <3>1. ~flag
      BY <1>1, <1>2, <2>1 DEF Passive, Disabling
    <3> QED
      BY <1>0, <1>2, <2>1, <3>1 DEF Passive, Enabling, Disabling
  <2> QED
    BY <1>0, <2>1 DEF ToldInv, Clean
<1> QED
  BY <1>0, <1>3, <1>4, <1>5

\* However enable or disable ends.
LEMMA FlagEnds ==
    ASSUME FlagInv, EnablesAlone, NEW w \in Workers, Disabled(w) \/ Fail(w)
    PROVE  (\A v \in Workers : RoleInv(v)') /\ (proc' # "up" => ~flag') /\ ToldInv'
<1>0. /\ TypeOK /\ job[w] \in Job /\ job[w].pc # "idle" /\ job[w].pc \in Enabling \cup Disabling
      /\ RoleInv(w) /\ HeldInv(w)
  BY DEF FlagInv, SharedInv, Basis, TypeOK, Disabled, Fail, Enabling, Disabling
<1>1. PICK ok \in BOOLEAN : /\ Returns(w, ok) /\ UNCHANGED setting
                            /\ ok => job[w].pc = "disabled"
                            /\ ~ok => failed'
  BY DEF Disabled, Fail
<1>2. /\ job'[w].pc = "idle"
      /\ \A v \in Workers \ {w} : job'[v] = job[v] \/ job'[v].pc = "idle"
  BY <1>0, <1>1, ReturnsLeaves
<1>3. /\ flag' => flag
      /\ ok => ~flag'
      /\ proc' # "up" => ~flag'
  <2>1. CASE job[w].why = "exit"
    BY <1>1, <2>1 DEF Returns, Ends
  <2>2. CASE job[w].why = "launch"
    <3>1. ~flag
      BY <1>0, <2>2 DEF RoleInv
    <3> QED
      BY <1>1, <2>2, <3>1 DEF Returns
  <2>3. CASE job[w].why = "stop"
    <3>1. ok => ~flag
      BY <1>0, <1>1, <2>3 DEF RoleInv, Disabling
    <3> QED
      BY <1>1, <2>3, <3>1 DEF Returns, FlagInv
  <2>4. CASE job[w].why = "command"
    BY <1>1, <2>4 DEF Returns, FlagInv
  <2> QED
    BY <1>0, <2>1, <2>2, <2>3, <2>4 DEF Job
<1>4. \A v \in Workers \ {w} : RoleInv(v)'
  BY <1>0, <1>2, <1>3, Beside, OthersRole
<1>5. ToldInv'
  <2>1. ok => Clean(setting)'
    BY <1>0, <1>1 DEF HeldInv, Clean
  <2> QED
    BY <1>1, <1>3, <2>1 DEF ToldInv
<1> QED
  BY <1>2, <1>3, <1>4, <1>5, IdleRole

LEMMA FlagProcess ==
    ASSUME FlagInv, EnablesAlone', Launch \/ Crash \/ Exit
    PROVE  (\A v \in Workers : RoleInv(v)') /\ (proc' # "up" => ~flag') /\ ToldInv'
<1>0. TypeOK /\ Shell \in Workers /\ UNCHANGED setting
  BY DEF FlagInv, SharedInv, Basis, Workers, Launch, Crash, Exit
\* The shell goes on to restore.
<1>1. ASSUME NEW why, job' = [job EXCEPT ![Shell] = [Idle EXCEPT !.pc = "reading", !.why = why]],
             proc' # "up", ~flag'
      PROVE  (\A v \in Workers : RoleInv(v)') /\ (proc' # "up" => ~flag') /\ ToldInv'
  <2> DEFINE j == [Idle EXCEPT !.pc = "reading", !.why = why]
  <2>1. j.pc = "reading"
    BY DEF Idle
  <2>2. job'[Shell] = j /\ \A v \in Workers \ {Shell} : job'[v] = job[v]
    BY <1>0, <1>1 DEF TypeOK
  <2> HIDE DEF j
  <2>3. \A v \in Workers \ {Shell} : job[v].pc \notin Enabling
    <3>1. \A v \in Workers \ {Shell} : job'[v].pc \notin Enabling
      BY <1>0, <2>1, <2>2 DEF EnablesAlone
    <3> QED
      BY <2>2, <3>1
  <2>4. \A v \in Workers \ {Shell} : RoleInv(v)'
    BY <1>0, <1>1, <2>2, <2>3, OthersRole
  <2>5. RoleInv(Shell)'
    BY <1>1, <2>1, <2>2 DEF RoleInv, Enabling, Disabling
  <2> QED
    BY <1>0, <1>1, <2>4, <2>5 DEF ToldInv
\* Nobody works any more.
<1>2. ASSUME \A v \in Workers : job'[v].pc = "idle", proc' # "up", ~flag'
      PROVE  (\A v \in Workers : RoleInv(v)') /\ (proc' # "up" => ~flag') /\ ToldInv'
  BY <1>2, IdleRole DEF ToldInv
<1>3. CASE Launch
  <2>1. proc # "up" /\ ~flag /\ ~flag' /\ UNCHANGED <<port, guard>>
    BY <1>3 DEF Launch, FlagInv, files
  <2>2. CASE guard
    BY <1>1, <1>3, <2>1, <2>2 DEF Launch
  <2>3. CASE ~guard
    <3>1. job' = job /\ Clean(setting)
      BY <1>3, <2>3 DEF Launch, FlagInv, SharedInv, Basis, CleanInv
    <3>2. \A v \in Workers : RoleInv(v)'
      <4> SUFFICES ASSUME NEW v \in Workers PROVE RoleInv(v)'
        OBVIOUS
      <4>1. RoleInv(v) /\ job[v].pc \notin Enabling
        BY <2>1 DEF FlagInv, RoleInv
      <4> QED
        BY <2>1, <3>1, <4>1 DEF RoleInv, Enabling
    <3> QED
      BY <1>0, <2>1, <3>1, <3>2 DEF ToldInv, Clean
  <2> QED
    BY <2>2, <2>3
<1>4. CASE Crash
  <2>1. (\A v \in Workers : job'[v].pc = "idle") /\ proc' # "up" /\ ~flag'
    BY <1>4 DEF Crash, Ends, Idle
  <2> QED
    BY <1>2, <2>1
<1>5. CASE Exit
  <2>1. CASE flag
    BY <1>1, <1>5, <2>1 DEF Exit
  <2>2. CASE ~flag
    <3>1. (\A v \in Workers : job'[v].pc = "idle") /\ proc' # "up" /\ ~flag'
      BY <1>5, <2>2 DEF Exit, Ends, Idle
    <3> QED
      BY <1>2, <3>1
  <2> QED
    BY <2>1, <2>2
<1> QED
  BY <1>3, <1>4, <1>5

LEMMA FlagAppears ==
    ASSUME FlagInv, SharedInv', NEW s \in Slots, Appears(s)
    PROVE  (\A v \in Workers : RoleInv(v)') /\ (proc' # "up" => ~flag') /\ ToldInv'
<1>1. /\ \A w \in Workers : job'[w].pc = "idle"
      /\ ~guard' /\ ~flag' /\ UNCHANGED <<proc, port, flag, failed>>
  BY DEF FlagInv, SharedInv, Appears, AllIdle, files
<1>2. Clean(setting')
  BY <1>1 DEF SharedInv, CleanInv, Clean
<1> QED
  BY <1>1, <1>2, IdleRole DEF FlagInv, ToldInv, Clean

LEMMA FlagCommands ==
    ASSUME FlagInv, EnablesAlone, EnablesAlone', NEW w \in Callers, Command(w)
    PROVE  (\A v \in Workers : RoleInv(v)') /\ (proc' # "up" => ~flag') /\ ToldInv'
<1>0. /\ TypeOK /\ w \in Workers /\ w # Shell /\ proc = "up" /\ job[w].pc = "idle" /\ ToldInv
      /\ UNCHANGED <<proc, flag, setting, failed>>
  BY ConstantsAssumption
  DEF FlagInv, SharedInv, Basis, Workers, Command, Start, Enable, Disable, Stop, Ready, files
\* A command that goes on.
<1>1. ASSUME NEW pc \in {"listing", "reading", "swapping"}, NEW p, NEW why \in {"command", "stop"},
             Begins(w, pc, p, why),
             pc = "listing" => p = port' /\ port' \in Ports,
             pc = "reading" => why = "command"
      PROVE  (\A v \in Workers : RoleInv(v)') /\ (proc' # "up" => ~flag') /\ ToldInv'
  <2> DEFINE j == [Idle EXCEPT !.pc = pc, !.port = p, !.why = why]
  <2>1. j.pc = pc /\ j.port = p /\ j.why = why /\ j.at = 1
    BY DEF Idle
  <2>2. job'[w] = j /\ \A v \in Workers \ {w} : job'[v] = job[v]
    BY <1>0, <1>1 DEF Begins, TypeOK
  <2> HIDE DEF j
  <2>3. \A v \in Workers \ {w} : job[v].pc \notin Enabling
    <3>1. \A v \in Workers \ {w} : job'[v].pc \notin Enabling
      BY <1>0, <1>1, <2>1, <2>2 DEF EnablesAlone
    <3> QED
      BY <2>2, <3>1
  <2>4. \A v \in Workers \ {w} : RoleInv(v)'
    BY <1>0, <2>2, <2>3, OthersRole
  <2>5. RoleInv(w)'
    BY <1>0, <1>1, <2>1, <2>2 DEF RoleInv, Enabling, Disabling
  <2>6. ~AllIdle' /\ (Passive' => Passive)
    BY <1>0, <1>1, <2>1, <2>2 DEF AllIdle, Passive, Enabling, Disabling
  <2> QED
    BY <1>0, <2>4, <2>5, <2>6 DEF ToldInv, Clean
<1>2. CASE \E p \in Ports : Start(w, p)
  <2>1. port = 0 /\ job' = job /\ port \notin Ports
    BY <1>2 DEF Start, Ports
  <2>2. \A v \in Workers : RoleInv(v)'
    <3> SUFFICES ASSUME NEW v \in Workers PROVE RoleInv(v)'
      OBVIOUS
    <3>1. RoleInv(v) /\ job[v].pc \notin Enabling
      BY <2>1 DEF FlagInv, RoleInv
    <3> QED
      BY <1>0, <2>1, <3>1 DEF RoleInv, Enabling
  <2> QED
    BY <1>0, <2>1, <2>2 DEF ToldInv, AllIdle, Passive, Clean
<1>3. CASE Enable(w)
  <2>1. port' \in Ports /\ port' = port
    BY <1>0, <1>3 DEF Enable, TypeOK, Ports
  <2> QED
    BY <1>1, <1>3, <2>1 DEF Enable
<1>4. CASE Disable(w)
  BY <1>1, <1>4 DEF Disable
<1>5. CASE Stop(w)
  BY <1>1, <1>5 DEF Stop
<1> QED
  BY <1>2, <1>3, <1>4, <1>5 DEF Command

LEMMA AloneIsApart == EnablesAlone => EnablesApart
BY DEF EnablesAlone, EnablesApart, Enabling, Disabling

LEMMA FlagNext == FlagInv /\ EnablesAlone /\ EnablesAlone' /\ [Next]_vars => FlagInv'
<1> SUFFICES ASSUME FlagInv, EnablesAlone, EnablesAlone', [Next]_vars PROVE FlagInv'
  OBVIOUS
<1>1. SharedInv'
  BY SharedNext, AloneIsApart DEF FlagInv
<1>2. (\A v \in Workers : RoleInv(v)') /\ (proc' # "up" => ~flag') /\ ToldInv'
  <2>1. ASSUME NEW w \in Workers, JobStep(w)
        PROVE  (\A v \in Workers : RoleInv(v)') /\ (proc' # "up" => ~flag') /\ ToldInv'
    BY <2>1, EnableSteps, FlagGoesOn, FlagDisables, FlagSwaps, FlagEnds DEF JobStep
  <2>2. CASE UNCHANGED vars
    BY <2>2 DEF vars, files, FlagInv, RoleInv, ToldInv, AllIdle, Passive, Clean
  <2> QED
    BY <1>1, <2>1, <2>2, FlagAppears, FlagProcess, FlagCommands DEF Next
<1> QED
  BY <1>1, <1>2 DEF FlagInv

LEMMA FlagHolds == ~Roaming /\ Spec /\ []EnablesAlone => []FlagInv
BY FlagInit, FlagNext, PTL DEF Spec

\* The flag tells the truth however disables, stops and exits overlap, as long as
\* nothing is in flight beside an enable.
THEOREM FlagTheorem == ~Roaming /\ Spec /\ []EnablesAlone => []SwitchIsTrue
<1>1. FlagInv => SwitchIsTrue
  <2> SUFFICES ASSUME FlagInv, proc = "up", AllIdle, ~failed
               PROVE  IF flag THEN port # 0 /\ \A s \in Slots : setting[s] \in {port, Absent} ELSE Ours = {}
    BY DEF SwitchIsTrue
  <2>1. Passive
    BY DEF AllIdle, Passive, Enabling, Disabling
  <2> QED
    BY <2>1 DEF FlagInv, ToldInv, Clean, Ours
<1> QED
  BY <1>1, FlagHolds, PTL

\* The callers of one command at a time are a special case.
THEOREM AloneTheorem == OneAtATime /\ Spec => []EnablesAlone
<1>1. ProxyInv => EnablesAlone
  BY DEF ProxyInv, AloneInv, EnablesAlone, Enabling
<1> QED
  BY <1>1, ProxyTheorem, PTL
LEMMA LeftStays == ~HastyQuit /\ FlagInv /\ LeftInv /\ [Next]_vars => LeftInv'
<1> SUFFICES ASSUME ~HastyQuit, FlagInv, LeftInv, [Next]_vars, proc' = "exited", ~failed'
             PROVE  Clean(setting')
  BY DEF LeftInv, Clean
<1>1. CASE Exit
  <2>1. proc = "up" /\ AllIdle /\ ~flag /\ ~failed /\ setting' = setting
    BY <1>1 DEF Exit
  <2>2. Passive
    BY <2>1 DEF AllIdle, Passive, Enabling, Disabling
  <2> QED
    BY <2>1, <2>2 DEF FlagInv, ToldInv
<1>2. ASSUME NEW w \in Workers, JobStep(w) PROVE Clean(setting')
  <2>0. TypeOK /\ HeldInv(w) /\ RoleInv(w)
    BY DEF FlagInv, SharedInv, Basis
  <2>1. CASE Disabled(w)
    BY <2>0, <2>1 DEF Disabled, HeldInv, Clean
  <2>2. CASE Fail(w)
    BY <2>2 DEF Fail
  <2>3. CASE SetSlot(w)
    BY <2>0, <2>3 DEF SetSlot, RoleInv, Enabling
  <2>4. CASE RestoreSlot(w)
    <3>1. proc = "exited" /\ ~failed /\ job[w].pc = "restoring" /\ job[w] \in Job /\ job[w].at \in Slots
      BY <2>0, <2>4 DEF RestoreSlot, TypeOK, Job
    <3>2. Clean(setting)
      BY <3>1 DEF LeftInv
    <3> DEFINE v == Restored(setting[job[w].at], job[w].sheet[job[w].at])
    <3>3. v \notin Ports
      <4>1. job[w].sheet[job[w].at] = Absent => setting[job[w].at] = Absent
        BY <3>1 DEF FlagInv, SharedInv, Basis, PresentInv, SameServices, Holding
      <4>2. job[w].sheet[job[w].at] \in Targets \ Ports /\ setting[job[w].at] \in Targets
        BY <2>0, <3>1 DEF HeldInv, TypeOK, Sheet, Clean, Job
      <4> QED
        BY <4>1, <4>2, RestoredIs, Values
    <3>4. setting' = [setting EXCEPT ![job[w].at] = v]
      BY <2>4 DEF RestoreSlot
    <3> HIDE DEF v
    <3> QED
      BY <2>0, <3>2, <3>3, <3>4 DEF Clean, TypeOK, Sheet
  <2> QED
    BY <1>2, <2>1, <2>2, <2>3, <2>4 DEF JobStep, Swap, List, Save, WriteSnapshot, WriteGuard,
       FlagOn, ReadSnapshot, RemoveSnapshot, RemoveGuard, LeftInv, Clean
<1>3. ASSUME NEW w \in Callers, Command(w) PROVE Clean(setting')
  BY <1>3 DEF Command, Ready, Start, Enable, Disable, Stop
<1>4. CASE Launch \/ Crash
  BY <1>4 DEF Launch, Crash, Ends
<1>5. ASSUME NEW s \in Slots, Appears(s) PROVE Clean(setting')
  BY <1>5, Values DEF Appears, LeftInv, Clean, FlagInv, SharedInv, Basis, TypeOK, Sheet
<1>6. CASE UNCHANGED vars
  BY <1>6 DEF vars, LeftInv, Clean
<1> QED
  BY <1>1, <1>2, <1>3, <1>4, <1>5, <1>6 DEF Next

\* And so does the promise of main, for a user who waits before quitting and
\* commands that succeed.
THEOREM LeaveTheorem ==
    ~HastyQuit /\ ~Roaming /\ ~Faults /\ Spec /\ []EnablesAlone => []NothingLeftOnExit
<1>1. ~failed /\ LeftInv => NothingLeftOnExit
  BY DEF LeftInv, NothingLeftOnExit, Clean, Ours
<1> DEFINE I == ~HastyQuit /\ LeftInv
<1>2. ~HastyQuit /\ Init => I
  BY LeftInit
<1>3. FlagInv /\ I /\ [Next]_vars => I'
  <2>1. FlagInv /\ I /\ [Next]_vars => LeftInv'
    BY LeftStays
  <2> QED
    BY <2>1
<1>4. I => LeftInv
  OBVIOUS
<1> HIDE DEF I
<1> QED
  BY <1>1, <1>2, <1>3, <1>4, FlagHolds, NoneFails, PTL DEF Spec
=============================================================================
