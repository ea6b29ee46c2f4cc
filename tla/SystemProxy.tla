---------------------------- MODULE SystemProxy -----------------------------
(***************************************************************************)
(* The system-proxy switch: Controller's start, stop, set_system_proxy and *)
(* prepare_exit (crates/httpmate-core/src/controller.rs), enable and       *)
(* disable of macos/networksetup.rs which they run on blocking threads,    *)
(* and restore_if_dangling at launch.  Calls of the interface run          *)
(* concurrently: only the field `running` is behind a lock.                *)
(*                                                                         *)
(* A slot is one setting of the operating system, the web or the secure    *)
(* proxy of one network service; enable and disable go through them one    *)
(* command at a time, and any command may fail.  A slot is Absent as long  *)
(* as its service is not listed, else Off, Spent, on at the user's Own     *)
(* proxy, or on at a port of this program.  Off and Spent are both off:    *)
(* they tell apart whose server the slot keeps for when it is switched on  *)
(* again, the user's (or none) or 127.0.0.1 and a port of ours.  Services  *)
(* may appear and never go, and the user changes no setting by hand.       *)
(* Start, which holds the lock to its end, is one step; so is the part of  *)
(* stop that holds it.                                                     *)
(***************************************************************************)
EXTENDS Integers, FiniteSets

CONSTANTS
    Callers,    \* commands of the interface that may be in flight at a time
    Shell,      \* the thread that launches and exits the program
    NumSlots,   \* settings of the operating system
    MaxPort,    \* bound: ports the proxy may be started on
    HastyQuit,  \* may the user quit while a command is in flight?
    Crashes,    \* may the process be killed?
    Faults,     \* may commands and file operations fail?
    Roaming     \* may services appear while the switch is on, being moved, or
                \* before what it left behind is repaired?

ASSUME ConstantsAssumption ==
    /\ Shell \notin Callers
    /\ NumSlots \in Nat \ {0}
    /\ MaxPort \in Nat \ {0}
    /\ HastyQuit \in BOOLEAN
    /\ Crashes \in BOOLEAN
    /\ Faults \in BOOLEAN
    /\ Roaming \in BOOLEAN

VARIABLES
    proc,       \* the process: down, exited, booting, up or exiting
    port,       \* port of the running proxy, 0 when stopped
    flag,       \* system_proxy_enabled
    setting,    \* setting[s]: what the operating system's slot s points to
    snap,       \* the snapshot file: None, Torn or the settings it holds
    guard,      \* does the guard file exist?
    job,        \* job[w]: what worker w is doing
    failed,     \* has a command failed since the last launch without a guard?
    own         \* what the slots pointed to before the program first touched them

files == <<snap, guard>>
vars  == <<proc, port, flag, setting, files, job, failed, own>>

Workers == Callers \cup {Shell}
Slots   == 1..NumSlots
Ports   == 1..MaxPort
Off     == 0
Own     == -1
Spent   == -2
Absent  == -3
Targets == {Absent, Off, Spent, Own} \cup Ports
Sheet   == [Slots -> Targets]
None    == [s \in {0} |-> 0]
Torn    == [s \in {0} |-> 1]
Blank   == [s \in Slots |-> Absent]

PCs == {"idle", "listing", "saving", "writing", "guarding", "setting", "enabled",
        "swapping", "reading", "restoring", "unsnapping", "unguarding", "disabled"}

\* at: the next slot.  sheet: the snapshot in memory.  why: whose disable it is.
Job  == [pc : PCs, port : 0..MaxPort, at : Slots, sheet : Sheet,
         why : {"command", "stop", "launch", "exit"}]
Idle == [pc |-> "idle", port |-> 0, at |-> 1, sheet |-> Blank, why |-> "command"]

\* What a slot does to traffic, and whether that is the same in two settings.
InEffect(t) == IF t = Spent THEN Off ELSE t
Alike(a, b) == \A s \in Slots : InEffect(a[s]) = InEffect(b[s])

AllIdle == \A w \in Workers : job[w].pc = "idle"
Alive == proc \in {"booting", "up", "exiting"}

\* Without a service there is nothing to enable.
Init ==
    /\ proc = "exited"
    /\ port = 0
    /\ flag = FALSE
    /\ setting \in [Slots -> {Absent, Off, Own}]
    /\ \E s \in Slots : setting[s] # Absent
    /\ own = setting
    /\ snap = None
    /\ guard = FALSE
    /\ job = [w \in Workers |-> Idle]
    /\ failed = FALSE

-----------------------------------------------------------------------------
(* The operating system *)

\* list_services finds a service that was not there before, as the user set it.
Appears(s) ==
    /\ setting[s] = Absent
    /\ Roaming \/ (AllIdle /\ ~flag /\ ~guard /\ snap = None)
    /\ \E t \in {Off, Own} :
          /\ setting' = [setting EXCEPT ![s] = t]
          /\ own' = [own EXCEPT ![s] = t]
    /\ UNCHANGED <<proc, port, flag, files, job, failed>>

\* What list_services finds, each slot still to be asked for what it holds.
Listing == [s \in Slots |-> IF setting[s] = Absent THEN Absent ELSE Off]

-----------------------------------------------------------------------------
(* The process *)

\* restore_if_dangling: only the guard file counts.
Launch ==
    /\ proc \in {"down", "exited"}
    /\ IF guard
       THEN /\ proc' = "booting"
            /\ job' = [job EXCEPT ![Shell] = [Idle EXCEPT !.pc = "reading", !.why = "launch"]]
            /\ UNCHANGED failed
       ELSE /\ proc' = "up"
            /\ failed' = FALSE
            /\ UNCHANGED job
    /\ UNCHANGED <<port, flag, setting, files, own>>

\* Everything in memory is gone.
Ends(how) ==
    /\ proc' = how
    /\ port' = 0
    /\ flag' = FALSE
    /\ job' = [w \in Workers |-> Idle]

\* The snapshot being written may be left incomplete, the guard empty.
Crash ==
    /\ Crashes
    /\ Alive
    /\ Ends("down")
    /\ \/ UNCHANGED files
       \/ /\ \E w \in Workers : job[w].pc = "writing"
          /\ snap' = Torn
          /\ UNCHANGED guard
       \/ /\ \E w \in Workers : job[w].pc = "guarding"
          /\ guard' = TRUE
          /\ UNCHANGED snap
    /\ UNCHANGED <<setting, failed, own>>

\* prepare_exit does not wait for commands in flight.
Exit ==
    /\ proc = "up"
    /\ HastyQuit \/ AllIdle
    /\ IF flag
       THEN /\ proc' = "exiting"
            /\ flag' = FALSE
            /\ job' = [job EXCEPT ![Shell] = [Idle EXCEPT !.pc = "reading", !.why = "exit"]]
            /\ UNCHANGED port
       ELSE Ends("exited")
    /\ UNCHANGED <<setting, files, failed, own>>

-----------------------------------------------------------------------------
(* Commands of the interface *)

Ready(w) == proc = "up" /\ job[w].pc = "idle"

Begins(w, pc, p, why) ==
    job' = [job EXCEPT ![w] = [Idle EXCEPT !.pc = pc, !.port = p, !.why = why]]

\* start, unless the proxy runs already.
Start(w, p) ==
    /\ Ready(w)
    /\ port = 0
    /\ port' = p
    /\ UNCHANGED <<proc, flag, setting, files, job, failed, own>>

\* set_system_proxy(true) reads the port of the running proxy.  It may be called
\* with the flag on by an interface that shows an old state.
Enable(w) ==
    /\ Ready(w)
    /\ port # 0
    /\ Begins(w, "listing", port, "command")
    /\ UNCHANGED <<proc, port, flag, setting, files, failed, own>>

\* set_system_proxy(false) does not look at the flag, and an interface that shows
\* an old state may ask for it with the flag off.
Disable(w) ==
    /\ Ready(w)
    /\ Begins(w, "reading", 0, "command")
    /\ UNCHANGED <<proc, port, flag, setting, files, failed, own>>

\* stop ends the engine first ...
Stop(w) ==
    /\ Ready(w)
    /\ port' = 0
    /\ Begins(w, "swapping", 0, "stop")
    /\ UNCHANGED <<proc, flag, setting, files, failed, own>>

\* Faulty variant: the flag is not taken down.
SwapKeeping(w) ==
    /\ job[w].pc = "swapping"
    /\ job' = [job EXCEPT ![w] = Idle]
    /\ UNCHANGED <<proc, port, flag, setting, files, failed, own>>

\* ... and then turns the system proxy off, if it is thought to be on.
Swap(w) ==
    /\ job[w].pc = "swapping"
    /\ flag' = FALSE
    /\ job' = [job EXCEPT ![w] = IF flag THEN [@ EXCEPT !.pc = "reading"] ELSE Idle]
    /\ UNCHANGED <<proc, port, setting, files, failed, own>>

-----------------------------------------------------------------------------
(* networksetup::enable *)

Moves(w, pc) == job' = [job EXCEPT ![w].pc = pc, ![w].at = 1]

\* Faulty variant: one slot too many.
AdvancesLate(w, pc) ==
    IF job[w].at <= NumSlots
    THEN job' = [job EXCEPT ![w].at = @ + 1]
    ELSE Moves(w, pc)

\* Through the slots: the next one, or on to pc.
Advances(w, pc) ==
    IF job[w].at < NumSlots
    THEN job' = [job EXCEPT ![w].at = @ + 1]
    ELSE Moves(w, pc)

\* Faulty variant: a snapshot is taken every time.
ListAlwaysSaving(w) ==
    /\ job[w].pc = "listing"
    /\ job' = [job EXCEPT ![w].pc = "saving", ![w].sheet = Listing]
    /\ UNCHANGED <<proc, port, flag, setting, files, failed, own>>

\* The services, now.  With a guard there is a snapshot already.
List(w) ==
    /\ job[w].pc = "listing"
    /\ job' = [job EXCEPT ![w].pc = IF guard THEN "setting" ELSE "saving",
                          ![w].sheet = Listing]
    /\ UNCHANGED <<proc, port, flag, setting, files, failed, own>>

Save(w) ==
    /\ job[w].pc = "saving"
    /\ LET saved == [job[w] EXCEPT !.sheet[job[w].at] =
                        IF @ = Absent THEN Absent ELSE setting[job[w].at]]
       IN  job' = [job EXCEPT ![w] =
                     IF saved.at < NumSlots THEN [saved EXCEPT !.at = @ + 1]
                     ELSE [saved EXCEPT !.pc = "writing", !.at = 1]]
    /\ UNCHANGED <<proc, port, flag, setting, files, failed, own>>

WriteSnapshot(w) ==
    /\ job[w].pc = "writing"
    /\ snap' = job[w].sheet
    /\ Moves(w, "guarding")
    /\ UNCHANGED <<proc, port, flag, setting, guard, failed, own>>

\* Faulty variant: the guard is forgotten.
WriteGuardNot(w) ==
    /\ job[w].pc = "guarding"
    /\ Moves(w, "setting")
    /\ UNCHANGED <<proc, port, flag, setting, files, failed, own>>

WriteGuard(w) ==
    /\ job[w].pc = "guarding"
    /\ guard' = TRUE
    /\ Moves(w, "setting")
    /\ UNCHANGED <<proc, port, flag, setting, snap, failed, own>>

SetSlot(w) ==
    /\ job[w].pc = "setting"
    /\ setting' = [setting EXCEPT ![job[w].at] =
                     IF job[w].sheet[job[w].at] = Absent THEN @ ELSE job[w].port]
    /\ Advances(w, "enabled")
    /\ UNCHANGED <<proc, port, flag, files, failed, own>>

FlagOn(w) ==
    /\ job[w].pc = "enabled"
    /\ flag' = TRUE
    /\ job' = [job EXCEPT ![w] = Idle]
    /\ UNCHANGED <<proc, port, setting, files, failed, own>>

-----------------------------------------------------------------------------
(* networksetup::disable *)

\* The services of the snapshot.  One that is missing or cannot be parsed counts
\* as none: then every service there is now gets switched off.
ReadSnapshot(w) ==
    /\ job[w].pc = "reading"
    /\ job' = [job EXCEPT ![w].pc = "restoring",
                          ![w].sheet = IF snap \in {None, Torn} THEN Listing ELSE snap]
    /\ UNCHANGED <<proc, port, flag, setting, files, failed, own>>

\* A slot that was off is only switched off: it keeps the server it has now.
Restored(now, saved) ==
    CASE saved = Absent         -> now
      [] saved \in {Off, Spent} -> IF now \in Ports \cup {Spent} THEN Spent ELSE Off
      [] OTHER                  -> saved

RestoreSlot(w) ==
    /\ job[w].pc = "restoring"
    /\ setting' = [setting EXCEPT ![job[w].at] = Restored(@, job[w].sheet[job[w].at])]
    /\ Advances(w, "unsnapping")
    /\ UNCHANGED <<proc, port, flag, files, failed, own>>

\* Files that cannot be removed are ignored.
RemoveSnapshot(w) ==
    /\ job[w].pc = "unsnapping"
    /\ snap' = None \/ (Faults /\ snap' = snap)
    /\ Moves(w, "unguarding")
    /\ UNCHANGED <<proc, port, flag, setting, guard, failed, own>>

RemoveGuard(w) ==
    /\ job[w].pc = "unguarding"
    /\ guard' = FALSE \/ (Faults /\ guard' = guard)
    /\ Moves(w, "disabled")
    /\ UNCHANGED <<proc, port, flag, setting, snap, failed, own>>

\* What the caller of disable does next, whether it succeeded or not; only the
\* command tells the two apart.
Returns(w, ok) ==
    CASE job[w].why = "exit"   -> Ends("exited")
      [] job[w].why = "launch" -> /\ proc' = "up"
                                  /\ job' = [job EXCEPT ![w] = Idle]
                                  /\ UNCHANGED <<port, flag>>
      [] job[w].why = "stop"   -> /\ job' = [job EXCEPT ![w] = Idle]
                                  /\ UNCHANGED <<proc, port, flag>>
      [] OTHER                 -> /\ job' = [job EXCEPT ![w] = Idle]
                                  /\ flag' = (flag /\ ~ok)
                                  /\ UNCHANGED <<proc, port>>

Disabled(w) ==
    /\ job[w].pc = "disabled"
    /\ Returns(w, TRUE)
    /\ UNCHANGED <<setting, files, failed, own>>

\* A command that fails ends enable or disable where it is.  A write that fails
\* may leave its file behind.
Fail(w) ==
    /\ Faults
    /\ job[w].pc \in {"listing", "saving", "writing", "guarding", "setting", "restoring"}
    /\ Returns(w, FALSE)
    /\ failed' = TRUE
    /\ snap' = snap \/ (job[w].pc = "writing" /\ snap' = Torn)
    /\ guard' = guard \/ (job[w].pc = "guarding" /\ guard' = TRUE)
    /\ UNCHANGED <<setting, own>>

-----------------------------------------------------------------------------

Command(w) ==
    \/ \E p \in Ports : Start(w, p)
    \/ Enable(w)
    \/ Disable(w)
    \/ Stop(w)

JobStep(w) ==
    \/ Swap(w)
    \/ List(w)
    \/ Save(w)
    \/ WriteSnapshot(w)
    \/ WriteGuard(w)
    \/ SetSlot(w)
    \/ FlagOn(w)
    \/ ReadSnapshot(w)
    \/ RestoreSlot(w)
    \/ RemoveSnapshot(w)
    \/ RemoveGuard(w)
    \/ Disabled(w)
    \/ Fail(w)

Next ==
    \/ \E s \in Slots : Appears(s)
    \/ Launch
    \/ Crash
    \/ Exit
    \/ \E w \in Callers : Command(w)
    \/ \E w \in Workers : JobStep(w)

Spec == Init /\ [][Next]_vars

-----------------------------------------------------------------------------
(* Safety *)

TypeOK ==
    /\ proc \in {"down", "exited", "booting", "up", "exiting"}
    /\ port \in 0..MaxPort
    /\ flag \in BOOLEAN
    /\ setting \in Sheet
    /\ snap \in Sheet \cup {None, Torn}
    /\ guard \in BOOLEAN
    /\ job \in [Workers -> Job]
    /\ failed \in BOOLEAN
    /\ own \in [Slots -> {Absent, Off, Own}]

Ours    == {s \in Slots : setting[s] \in Ports}

\* As long as a slot points to this program, the guard file is there for the
\* next launch to find, wherever the process dies or a command fails
\* (networksetup.rs: enable sets nothing before the guard is written, disable
\* removes it last).
Repairable == Ours # {} => guard

\* The snapshot never holds a port of this program: re-enabling does not
\* overwrite the user's settings with ours (enable's guard_exists check).
SnapshotIsUsers ==
    snap \in Sheet => \A s \in Slots : snap[s] \notin Ports

\* Between commands, if none failed, the flag tells the truth: on, every service
\* points to the running proxy; off, none to any port of this program, so
\* neither a stop nor a new port leaves traffic going nowhere.
SwitchIsTrue ==
    proc = "up" /\ AllIdle /\ ~failed =>
        IF flag THEN port # 0 /\ \A s \in Slots : setting[s] \in {port, Absent}
                ELSE Ours = {}

\* System-proxy changes are always reversible: with the switch off and nothing
\* left to repair, every service has in effect the proxy it had before the program
\* first touched it.  (A slot that was off may come back with our server in place
\* of the one it kept: restore_one never puts that back.)
Reversible ==
    proc = "up" /\ AllIdle /\ ~flag /\ ~guard => Alike(setting, own)

\* Never leave the user's network pointed at a dead proxy (main, on exit).
NothingLeftOnExit == proc = "exited" => Ours = {}
=============================================================================
