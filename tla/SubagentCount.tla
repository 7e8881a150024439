---------------------------- MODULE SubagentCount ----------------------------
(* The subagent counter of one session: on-subagent-start.sh and           *)
(* on-subagent-stop.sh, each a process of its own, read, write and report  *)
(* a count in a file under a lock made with mkdir.  The EXIT trap removes  *)
(* the lock directory however the process ends, but for a SIGKILL; a       *)
(* process that has waited long enough removes it too, as stale.  Hooks    *)
(* may be slow anywhere, and Claude Code may end one at its timeout.       *)
EXTENDS Integers, FiniteSets

CONSTANTS
    Subagents,
    Patience,       \* seconds of failed attempts before a lock is broken (200 * 0.01)
    HookTimeout,    \* seconds Claude Code lets a hook run
    MaxKills        \* bound on SIGKILLs

ASSUME CounterAssumption ==
    /\ IsFiniteSet(Subagents)
    /\ Patience \in Nat \ {0} /\ HookTimeout \in Nat /\ Patience <= HookTimeout
    /\ MaxKills \in Nat

Hooks == Subagents \X {"start", "stop"}

NoFile == -1

VARIABLES
    pc,             \* where each hook process is
    lock,           \* whether the lock directory exists
    file,           \* the count in the file, NoFile if there is none
    count,          \* the shell variable of each process
    age,            \* seconds each process has run, up to its timeout
    waited,         \* seconds of failed attempts at the lock of each process
    shown,          \* the last count reported to the pane
    kills,
    orphans,        \* hooks that ended before their mkdir did
    \* history: how often starts and stops were written, as one counter
    \* without a file; whether the last one was reported; whether a lock
    \* was removed with another hook in the section; and whether the lock
    \* that is there was made by an orphan
    tally, told, robbed, strayed

history == <<tally, told, robbed, strayed>>
counterVars == <<pc, lock, file, count, age, waited, shown, kills, orphans, history>>

Steps == {"unborn", "try", "broken", "read", "write", "report", "clean", "exit",
          "giveup", "done", "gone", "killed"}

Over(h) == pc[h] \in {"done", "gone", "killed"}
Alive(h) == pc[h] # "unborn" /\ ~Over(h)
InSection(h) == pc[h] \in {"read", "write", "report", "clean", "exit"}

CounterInit ==
    /\ pc = [h \in Hooks |-> "unborn"]
    /\ lock = FALSE
    /\ file = NoFile
    /\ count = [h \in Hooks |-> 0]
    /\ age = [h \in Hooks |-> 0] /\ waited = [h \in Hooks |-> 0]
    /\ shown = 0
    /\ kills = 0
    /\ orphans = {}
    /\ tally = 0 /\ told = TRUE /\ robbed = FALSE /\ strayed = FALSE

Goto(h, step) == pc' = [pc EXCEPT ![h] = step]

(* A process that ends leaves nothing of its own.                          *)
End(h, step) ==
    /\ Goto(h, step)
    /\ count' = [count EXCEPT ![h] = 0]
    /\ age' = [age EXCEPT ![h] = 0]
    /\ waited' = [waited EXCEPT ![h] = 0]

(* What a hook makes of a count.                                           *)
Counting(h, old) == IF h[2] = "start" THEN old + 1 ELSE IF old > 0 THEN old - 1 ELSE 0

(* rmdir of the lock directory, whoever made it.                           *)
RemoveLock(h) ==
    /\ lock' = FALSE
    /\ strayed' = FALSE
    /\ robbed' = (robbed \/ \E g \in Hooks \ {h} : InSection(g))

-----------------------------------------------------------------------------
(* Claude Code starts the hook of a subagent's start when it likes, that   *)
(* of its stop once the start's has run.                                   *)
Launch(h) ==
    /\ pc[h] = "unborn"
    /\ h[2] = "stop" => Over(<<h[1], "start">>)
    /\ Goto(h, "try")
    /\ UNCHANGED <<lock, file, count, age, waited, shown, kills, orphans, history>>

(* Mutant: mkdir -p, which succeeds on a directory that is there.          *)
AcquireAnyway(h) ==
    /\ pc[h] = "try"
    /\ lock' = TRUE
    /\ Goto(h, "read")
    /\ UNCHANGED <<file, count, age, waited, shown, kills, orphans, history>>

(* mkdir succeeds.  A failed attempt changes nothing but the time.         *)
Acquire(h) ==
    /\ pc[h] = "try" /\ ~lock
    /\ lock' = TRUE
    /\ Goto(h, "read")
    /\ UNCHANGED <<file, count, age, waited, shown, kills, orphans, history>>

(* Mutant: more attempts than fit in the hook's timeout.                   *)
BreakLockTooLate(h) ==
    /\ pc[h] = "try" /\ lock /\ waited[h] > HookTimeout
    /\ RemoveLock(h)
    /\ Goto(h, "broken")
    /\ UNCHANGED <<file, count, age, waited, shown, kills, orphans, tally, told>>

(* Too many attempts: rmdir, whoever made the directory ...                *)
BreakLock(h) ==
    /\ pc[h] = "try" /\ lock /\ waited[h] >= Patience
    /\ RemoveLock(h)
    /\ Goto(h, "broken")
    /\ UNCHANGED <<file, count, age, waited, shown, kills, orphans, tally, told>>

(* ... then mkdir once more, or exit.                                      *)
RetryOnce(h) ==
    /\ pc[h] = "broken"
    /\ lock' = TRUE
    /\ Goto(h, IF lock THEN "giveup" ELSE "read")
    /\ UNCHANGED <<file, count, age, waited, shown, kills, orphans, history>>

Read(h) ==
    /\ pc[h] = "read"
    /\ count' = [count EXCEPT ![h] = Counting(h, IF file = NoFile THEN 0 ELSE file)]
    /\ Goto(h, "write")
    /\ UNCHANGED <<lock, file, age, waited, shown, kills, orphans, history>>

WriteCount(h) ==
    /\ pc[h] = "write"
    /\ file' = count[h]
    /\ Goto(h, "report")
    /\ tally' = Counting(h, tally) /\ told' = FALSE
    /\ UNCHANGED <<lock, count, age, waited, shown, kills, orphans, robbed, strayed>>

Report(h) ==
    /\ pc[h] = "report"
    /\ shown' = count[h]
    /\ Goto(h, IF h[2] = "stop" THEN "clean" ELSE "exit")
    /\ told' = TRUE
    /\ UNCHANGED <<lock, file, count, age, waited, kills, orphans, tally, robbed, strayed>>

(* A stop that counted to 0 removes the file.                              *)
CleanUp(h) ==
    /\ pc[h] = "clean"
    /\ file' = IF count[h] = 0 THEN NoFile ELSE file
    /\ Goto(h, "exit")
    /\ UNCHANGED <<lock, count, age, waited, shown, kills, orphans, history>>

(* The EXIT trap of a hook that is through, that could not make the lock   *)
(* or that is terminated: it removes the directory that is there.          *)
ExitTrap(h) ==
    /\ pc[h] \in {"exit", "giveup"}
    /\ RemoveLock(h)
    /\ End(h, IF pc[h] = "exit" THEN "done" ELSE "gone")
    /\ UNCHANGED <<file, shown, kills, orphans, tally, told>>

(* A shell that ends by a signal does not wait for its mkdir, which may    *)
(* still be to come ...                                                    *)
LeaveMkdir(h) == orphans' \in {orphans} \cup (IF pc[h] = "try" THEN {orphans \cup {h}} ELSE {})

(* ... and then makes a lock that nobody holds.                            *)
OrphanMkdir(h) ==
    /\ h \in orphans
    /\ orphans' = orphans \ {h}
    /\ lock' = TRUE
    /\ strayed' = (strayed \/ ~lock)
    /\ UNCHANGED <<pc, file, count, age, waited, shown, kills, tally, told, robbed>>

(* Mutant: without the trap a terminated hook leaves its lock behind.      *)
TerminateUntrapped(h) ==
    /\ Alive(h) /\ pc[h] \notin {"exit", "giveup"}
    /\ age[h] = HookTimeout
    /\ End(h, "gone")
    /\ LeaveMkdir(h)
    /\ UNCHANGED <<lock, file, shown, kills, history>>

(* Claude Code sends SIGTERM to a hook past its timeout; the trap follows. *)
Terminate(h) ==
    /\ Alive(h) /\ pc[h] \notin {"exit", "giveup"}
    /\ age[h] = HookTimeout
    /\ Goto(h, "giveup")
    /\ LeaveMkdir(h)
    /\ UNCHANGED <<lock, file, count, age, waited, shown, kills, history>>

Kill(h) ==
    /\ Alive(h) /\ kills < MaxKills
    /\ kills' = kills + 1
    /\ End(h, "killed")
    /\ LeaveMkdir(h)
    /\ UNCHANGED <<lock, file, shown, history>>

(* A second passes, wherever the hooks are, of failed attempts for those   *)
(* that meet a lock.                                                       *)
PassSecond ==
    /\ \E h \in Hooks : Alive(h)
    /\ age' = [h \in Hooks |-> IF Alive(h) /\ age[h] < HookTimeout THEN age[h] + 1 ELSE age[h]]
    /\ waited' = [h \in Hooks |-> IF pc[h] = "try" /\ lock /\ waited[h] < Patience
                                     THEN waited[h] + 1 ELSE waited[h]]
    /\ UNCHANGED <<pc, lock, file, count, shown, kills, orphans, history>>

Step(h) ==
    \/ Acquire(h) \/ BreakLock(h) \/ RetryOnce(h)
    \/ Read(h) \/ WriteCount(h) \/ Report(h) \/ CleanUp(h) \/ ExitTrap(h)

Signal(h) == Terminate(h) \/ Kill(h) \/ OrphanMkdir(h)

CounterNext == PassSecond \/ \E h \in Hooks : Launch(h) \/ Step(h) \/ Signal(h)

(* Processes run and time passes; nothing has to be launched, terminated   *)
(* or killed, so that a hook that ends does so by itself.                  *)
CounterSpec == CounterInit /\ [][CounterNext]_counterVars
CounterFairSpec == CounterSpec /\ WF_counterVars(PassSecond) /\ \A h \in Hooks : WF_counterVars(Step(h))

-----------------------------------------------------------------------------
CounterTypeOK ==
    /\ pc \in [Hooks -> Steps]
    /\ lock \in BOOLEAN
    /\ file \in {NoFile} \cup (0 .. Cardinality(Subagents))
    /\ count \in [Hooks -> 0 .. Cardinality(Subagents)]
    /\ age \in [Hooks -> 0 .. HookTimeout] /\ waited \in [Hooks -> 0 .. Patience]
    /\ shown \in 0 .. Cardinality(Subagents)
    /\ orphans \subseteq Hooks

InFile == IF file = NoFile THEN 0 ELSE file

Counted(kind) == Cardinality({h \in Hooks : h[2] = kind /\ pc[h] = "done"})

AllCounted == \A h \in Hooks : pc[h] \in {"unborn", "done"}

(* The count stays within the number of subagents whatever happens to the  *)
(* lock.  As long as no lock was removed under a hook in the section, the  *)
(* file is at every moment the one counter of all starts and stops, and    *)
(* the pane shows it but while its last writer is to report or was stopped *)
(* before; and when every hook launched has counted, it is the number of   *)
(* subagents started and not stopped, and the file is gone at none.        *)
CountIsExact ==
    /\ CounterTypeOK
    /\ ~robbed => /\ InFile = tally
                  /\ told => shown = tally
                  /\ AllCounted =>
                       LET running == Counted("start") - Counted("stop")
                       IN /\ file = (IF running = 0 THEN NoFile ELSE running)
                          /\ shown = running

(* Unless a hook was killed, or its mkdir outlived it, no lock is left     *)
(* when all hooks have ended, those that ran into their timeout included.  *)
LockIsNotOrphaned == kills = 0 /\ lock /\ ~strayed => \E h \in Hooks : Alive(h)

(* Every hook that is launched ends by itself, even behind the lock that a *)
(* killed one left: as each is launched once, in the end none is under way.*)
EveryHookEnds == <>[](\A h \in Hooks : ~Alive(h))
=============================================================================
