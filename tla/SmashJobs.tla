----------------------------- MODULE SmashJobs -----------------------------
(***************************************************************************)
(* The job control of the smash shell, hw1/wet/skeleton_smash: the jobs    *)
(* list and the commands that use it (Commands.cpp), the handlers of       *)
(* ctrl-Z and ctrl-C (signals.cpp), and the child processes.               *)
(*                                                                         *)
(* A handler that finds no foreground job only prints, so a command is one *)
(* step up to the point where it has set current_foreground_job; from      *)
(* there on, a step is a call during which a handler can run.  A           *)
(* JobEntry is an address: jobsList holds pointers, and printJobsList      *)
(* sorts them as pointers.                                                 *)
(***************************************************************************)
EXTENDS Integers, Sequences, FiniteSets, SequencesExt, FiniteSetsExt

CONSTANTS
    Pids,      \* the processes the shell can create; a pid is not reused
    Addrs,     \* the addresses of JobEntry objects
    NoJob,     \* nullptr
    Kinds,     \* the kinds of commands that start processes
    Signals,   \* the signal numbers given to the kill command
    Races      \* bound on the keys that come at a bad moment, and on the
               \* processes that something but the shell signals

ASSUME PidsAssumption == IsFiniteSet(Pids)
ASSUME AddrsAssumption ==
    Addrs \subseteq Nat /\ IsFiniteSet(Addrs) /\ NoJob \notin Addrs
ASSUME ChoicesAssumption ==
    /\ Kinds \subseteq {"external", "redirection", "pipe"}
    /\ Signals \subseteq 1..64
    /\ Races \in Nat

VARIABLES
    proc,                    \* the state of every process
    role,                    \* which end of a pipe a process is, or that it
                             \* was signalled by something but the shell
    jobsList,                \* the list of JobEntry pointers
    entry,                   \* the JobEntry at each address in use
    maxJobID,
    current_foreground_job,
    pc,                      \* where the shell is
    raced                    \* the keys that came at another moment than when
                             \* the shell sleeps in waitpid, its process running

vars == <<proc, role, jobsList, entry, maxJobID, current_foreground_job, pc,
          raced>>

Statuses == {"Foreground", "Background", "Stopped", "Finished"}

JobEntry(id, p, s) == [jobId |-> id, jobProcessId |-> p, jobStatus |-> s]

(* The constructors leave maxJobID uninitialised; every command that uses  *)
(* it computes it first.                                                   *)
Init ==
    /\ proc = [p \in Pids |-> "unborn"]
    /\ role = [p \in Pids |-> "plain"]
    /\ jobsList = <<>>
    /\ entry = <<>>
    /\ maxJobID = 0
    /\ current_foreground_job = NoJob
    /\ pc = "prompt"
    /\ raced = 0

-----------------------------------------------------------------------------
(* Processes, as the kernel keeps them.                                    *)

Alive == {"running", "stopped"}

(* kill(p, sig): what it does to the process.  A process that is dying or  *)
(* dead is not changed, and kill fails when the process has been waited    *)
(* for.  SIGSTOP, SIGTSTP, SIGTTIN and SIGTTOU stop; another signal does   *)
(* nothing or makes the process end, which is Exit.                        *)
Deliver(state, sig) ==
    IF state \notin Alive THEN state
    ELSE CASE sig = 9 -> "dying"
           [] sig = 18 -> "running"
           [] sig \in 19..22 -> "stopped"
           [] OTHER -> state

(* A process ends by itself or from a signal, and waits to be reaped.      *)
Exit(p) ==
    /\ pc # "exited"
    /\ proc[p] \in {"running", "dying"}
    /\ proc' = [proc EXCEPT ![p] = "zombie"]
    /\ UNCHANGED <<raced, role, jobsList, entry, maxJobID,
                   current_foreground_job, pc>>

Strays == {p \in Pids : role[p] = "stray"}

(* A signal that does not come from the shell.  A child is in a group of   *)
(* its own that is never the terminal's: it is stopped when it reads from  *)
(* the terminal.  It may stop itself, and any process may stop, continue   *)
(* or kill it, also a kill, fg, bg or quit kill in a pipe or redirection,  *)
(* which run in a copy of the shell.                                       *)
SignalFromElsewhere(p) ==
    /\ pc # "exited"
    /\ proc[p] \in Alive
    /\ raced + Cardinality(Strays \cup {p}) <= Races
    /\ \E sig \in {9, 18, 19} : proc' = [proc EXCEPT ![p] = Deliver(@, sig)]
    /\ role' = [role EXCEPT ![p] = "stray"]
    /\ UNCHANGED <<raced, jobsList, entry, maxJobID, current_foreground_job,
                   pc>>

-----------------------------------------------------------------------------
(* JobsList.                                                               *)

Id(a) == entry[a].jobId
Pid(a) == entry[a].jobProcessId
Status(a) == entry[a].jobStatus

setJobStatus(e, a, s) == [e EXCEPT ![a].jobStatus = s]

(* An entry that neither the list nor the shell points to is never read    *)
(* again (the code does not delete it).                                    *)
Reachable(e, S) == [a \in DOMAIN e \cap S |-> e[a]]

(* What is left of a list when the elements outside S are erased.          *)
Sublist(list, S) ==
    LET F[n \in 0..Len(list)] ==
            IF n = 0 THEN <<>>
            ELSE IF list[n] \in S THEN Append(F[n - 1], list[n]) ELSE F[n - 1]
    IN  F[Len(list)]

(* getJobById: the first entry with this id, or nullptr.                   *)
getJobById(list, id) ==
    LET i == SelectInSeq(list, LAMBDA a : Id(a) = id)
    IN  IF i = 0 THEN NoJob ELSE list[i]

(* Mutated forms, here and below, are definitions that no action uses: a   *)
(* bug that would break one of the properties.                             *)
KeptWhenReaped(a) == Status(a) # "Finished"

(* removeFinishedJobs: waitpid collects every child that has ended, and    *)
(* the first entry of each is removed; then the entries marked as finished *)
(* are, and maxJobID is the largest id that is left.                       *)
Kept(a) ==
    /\ Status(a) # "Finished"
    /\ proc[Pid(a)] = "zombie" =>
          \E i, j \in DOMAIN jobsList :
              i < j /\ jobsList[j] = a /\ Pid(jobsList[i]) = Pid(a)

Reaped == [p \in Pids |-> IF proc[p] = "zombie" THEN "gone" ELSE proc[p]]
KeptJobs == {a \in ToSet(jobsList) : Kept(a)}
Unfinished == Sublist(jobsList, KeptJobs)
MaxNotComputed == maxJobID
MaxUnfinished == Max({Id(a) : a \in KeptJobs} \cup {0})

(* A command that changes nothing else, because of an error or because it  *)
(* has nothing to do with jobs.                                            *)
OnlyRemoveFinished ==
    /\ proc' = Reaped
    /\ jobsList' = Unfinished
    /\ entry' = Reachable(entry, KeptJobs)
    /\ maxJobID' = MaxUnfinished
    /\ UNCHANGED <<raced, role, current_foreground_job, pc>>

(* addJob(pid, status): the next id, a new entry at the end of the list.   *)
(* new returns any address that is not in use.                             *)
AddJob(list, e, max, p, s, a) ==
    /\ a \in Addrs \ DOMAIN e
    /\ jobsList' = Append(list, a)
    /\ entry' = [b \in DOMAIN e \cup {a} |->
                    IF b = a THEN JobEntry(max + 1, p, s) ELSE e[b]]
    /\ maxJobID' = max + 1

(* addJob(job): unless a job with its id is in the list.                   *)
AddEntry(list, a) ==
    IF getJobById(list, Id(a)) = NoJob THEN Append(list, a) ELSE list

-----------------------------------------------------------------------------
(* Commands without children of their own.                                 *)

(* printJobsList: sort() compares the pointers, which are distinct, and    *)
(* not the entries.                                                        *)
SortedJobs ==
    LET left == ToSet(Unfinished)
    IN  CHOOSE s \in [1..Len(Unfinished) -> left] :
            /\ ToSet(s) = left
            /\ \A i, j \in DOMAIN s : i < j => s[i] < s[j]

JobsCommand ==
    /\ pc = "prompt"
    /\ proc' = Reaped
    /\ jobsList' = SortedJobs
    /\ entry' = Reachable(entry, KeptJobs)
    /\ maxJobID' = MaxUnfinished
    /\ UNCHANGED <<raced, role, current_foreground_job, pc>>

(* The job an argument of fg, bg or kill names, 0 when none is given.      *)
Arguments == 0..(Cardinality(Addrs) + 1)

(* fg: without an argument, the job with the largest id.                   *)
FgJob(i) == getJobById(Unfinished, IF i = 0 THEN MaxUnfinished ELSE i)

ForegroundCommand(i) ==
    /\ pc = "prompt"
    /\ LET job == FgJob(i) IN
       \/ job = NoJob /\ OnlyRemoveFinished
       \/ /\ job # NoJob
          /\ proc' = Reaped
          /\ jobsList' = Unfinished
          /\ entry' = setJobStatus(Reachable(entry, KeptJobs), job,
                                 "Foreground")
          /\ maxJobID' = MaxUnfinished
          /\ current_foreground_job' = job
          /\ pc' = "fg_cont"
          /\ UNCHANGED <<raced, role>>

(* The process the shell has in the foreground.                            *)
Target == Pid(current_foreground_job)

(* fg: kill(job_pid, SIGCONT) ...                                          *)
ForegroundContinue ==
    /\ pc = "fg_cont"
    /\ proc' = [proc EXCEPT ![Target] = Deliver(@, 18)]
    /\ pc' = "fg_remove"
    /\ UNCHANGED <<raced, role, jobsList, entry, maxJobID,
                   current_foreground_job>>

(* ... and removeJobById.  The entry is read after it was erased from the  *)
(* list; the memory of the list node still holds the pointer.              *)
ForegroundRemove ==
    /\ pc = "fg_remove"
    /\ LET id == Id(current_foreground_job)
           job == getJobById(jobsList, id)
       IN  /\ jobsList' = RemoveFirst(jobsList, job)
           /\ maxJobID' = IF job # NoJob /\ id = maxJobID THEN maxJobID - 1
                                                          ELSE maxJobID
    /\ pc' = "wait"
    /\ UNCHANGED <<raced, proc, role, entry, current_foreground_job>>

(* bg: without an argument, the stopped job with the largest id.           *)
BgJob(i) ==
    LET stopped == {Id(a) : a \in {b \in KeptJobs :
                                      Status(b) = "Stopped"}}
    IN  getJobById(Unfinished, IF i = 0 THEN Max(stopped \cup {0}) ELSE i)

BackgroundCommand(i) ==
    /\ pc = "prompt"
    /\ LET job == BgJob(i) IN
       \/ /\ job # NoJob => Status(job) = "Background"
          /\ OnlyRemoveFinished
       \/ /\ job # NoJob /\ Status(job) # "Background"
          /\ proc' = [Reaped EXCEPT ![Pid(job)] = Deliver(@, 18)]
          /\ jobsList' = Unfinished
          /\ entry' = setJobStatus(Reachable(entry, KeptJobs), job,
                                 "Background")
          /\ maxJobID' = MaxUnfinished
          /\ UNCHANGED <<raced, role, current_foreground_job, pc>>

StatusAfterKill(sig, s) == IF sig = 9 THEN "Finished" ELSE s

(* kill: the status follows signals 9 and 19 only.                         *)
StatusAfter(sig, s) ==
    CASE sig = 9 -> "Finished" [] sig = 19 -> "Stopped" [] OTHER -> s

KillCommand(i) ==
    /\ pc = "prompt"
    /\ LET job == getJobById(Unfinished, i) IN
       \/ /\ job # NoJob => Reaped[Pid(job)] = "gone"
          /\ OnlyRemoveFinished
       \/ /\ job # NoJob /\ Reaped[Pid(job)] # "gone"
          /\ \E sig \in Signals :
                /\ proc' = [Reaped EXCEPT ![Pid(job)] = Deliver(@, sig)]
                /\ entry' = setJobStatus(Reachable(entry, KeptJobs), job,
                                       StatusAfter(sig, Status(job)))
          /\ jobsList' = Unfinished
          /\ maxJobID' = MaxUnfinished
          /\ UNCHANGED <<raced, role, current_foreground_job, pc>>

(* setcore, a quit with another argument, and a command whose first fork   *)
(* fails.                                                                  *)
OtherCommand == pc = "prompt" /\ OnlyRemoveFinished

(* SIGKILL to every job in the list.                                       *)
killAllJobs ==
    LET listed == {Pid(a) : a \in KeptJobs}
    IN  [p \in Pids |-> IF p \in listed THEN Deliver(Reaped[p], 9)
                                        ELSE Reaped[p]]

(* quit, and quit kill.                                                    *)
QuitCommand(killAll) ==
    /\ pc = "prompt"
    /\ proc' = IF killAll THEN killAllJobs ELSE Reaped
    /\ jobsList' = Unfinished
    /\ entry' = Reachable(entry, KeptJobs)
    /\ maxJobID' = MaxUnfinished
    /\ pc' = "exited"
    /\ UNCHANGED <<raced, role, current_foreground_job>>

-----------------------------------------------------------------------------
(* Commands that start processes.                                          *)

Unborn == {p \in Pids : proc[p] = "unborn"}

(* The process of a command with &.                                        *)
StartBackground ==
    /\ pc = "prompt"
    /\ \E p \in Unborn, a \in Addrs :
          /\ proc' = [Reaped EXCEPT ![p] = "running"]
          /\ AddJob(Unfinished, Reachable(entry, KeptJobs),
                    MaxUnfinished, p, "Background", a)
    /\ UNCHANGED <<raced, role, current_foreground_job, pc>>

(* Without &: the entry has the id -1 and is not in the list.              *)
StartForeground ==
    /\ pc = "prompt"
    /\ LET e == Reachable(entry, KeptJobs)
           a == Min(Addrs \ DOMAIN e)
       IN  /\ Addrs \ DOMAIN e # {}
           /\ \E p \in Unborn :
                 /\ proc' = [Reaped EXCEPT ![p] = "running"]
                 /\ entry' = [b \in DOMAIN e \cup {a} |->
                       IF b = a THEN JobEntry(-1, p, "Foreground") ELSE e[b]]
           /\ current_foreground_job' = a
    /\ jobsList' = Unfinished
    /\ maxJobID' = MaxUnfinished
    /\ pc' = "wait"
    /\ UNCHANGED <<raced, role>>

(* Both kinds of command fork one process; what it executes and where its  *)
(* output goes is the child's business.                                    *)
ExternalCommand == "external" \in Kinds /\ (StartBackground \/ StartForeground)
RedirectionCommand ==
    "redirection" \in Kinds /\ (StartBackground \/ StartForeground)

(* A pipe: the second process becomes a job in the list and the one the    *)
(* shell waits for.                                                        *)
StartPipe ==
    /\ pc = "prompt"
    /\ \E p, q \in Unborn, a \in Addrs :
          /\ p # q
          /\ proc' = [Reaped EXCEPT ![p] = "running", ![q] = "running"]
          /\ role' = [role EXCEPT ![p] = "first", ![q] = "second"]
          /\ AddJob(Unfinished, Reachable(entry, KeptJobs),
                    MaxUnfinished, q, "Foreground", a)
          /\ current_foreground_job' = a
    /\ pc' = "wait"
    /\ UNCHANGED raced

(* The second fork of a pipe fails when the first process has started.     *)
StartHalfPipe ==
    /\ pc = "prompt"
    /\ \E p \in Unborn :
          /\ proc' = [Reaped EXCEPT ![p] = "running"]
          /\ role' = [role EXCEPT ![p] = "first"]
    /\ jobsList' = Unfinished
    /\ entry' = Reachable(entry, KeptJobs)
    /\ maxJobID' = MaxUnfinished
    /\ UNCHANGED <<raced, current_foreground_job, pc>>

PipeCommand == "pipe" \in Kinds /\ (StartPipe \/ StartHalfPipe)

(* waitpid(pid, NULL, WUNTRACED) returns when the process has ended or     *)
(* stopped, or has been waited for already.                                *)
Wait ==
    /\ pc = "wait"
    /\ proc[Target] \in {"stopped", "zombie", "gone"}
    /\ proc' = [proc EXCEPT ![Target] = IF @ = "zombie" THEN "gone" ELSE @]
    /\ pc' = "reset"
    /\ UNCHANGED <<raced, role, jobsList, entry, maxJobID,
                   current_foreground_job>>

ResetForgotten ==
    /\ pc = "reset"
    /\ pc' = "prompt"
    /\ UNCHANGED <<raced, proc, role, jobsList, entry, maxJobID,
                   current_foreground_job>>

(* setCurrentForegroundJob(nullptr).                                       *)
Reset ==
    /\ pc = "reset"
    /\ current_foreground_job' = NoJob
    /\ entry' = Reachable(entry, ToSet(jobsList))
    /\ pc' = "prompt"
    /\ UNCHANGED <<raced, proc, role, jobsList, maxJobID>>

-----------------------------------------------------------------------------
(* The handlers.  Without a foreground job they only print.                *)

KeyPressed ==
    /\ current_foreground_job # NoJob
    /\ IF pc = "wait" /\ proc[Target] = "running" THEN UNCHANGED raced
       ELSE raced + Cardinality(Strays) < Races /\ raced' = raced + 1

StoppedEntries == setJobStatus(entry, current_foreground_job, "Stopped")

ctrlZForgets ==
    /\ KeyPressed
    /\ proc' = [proc EXCEPT ![Target] = Deliver(@, 19)]
    /\ \/ /\ Id(current_foreground_job) = -1
          /\ \E a \in Addrs : AddJob(jobsList, StoppedEntries, maxJobID, Target,
                                    "Stopped", a)
       \/ /\ Id(current_foreground_job) # -1
          /\ entry' = StoppedEntries
          /\ UNCHANGED <<jobsList, maxJobID>>
    /\ UNCHANGED <<role, current_foreground_job, pc>>

(* ctrl-Z: the process is stopped and its job put into the list: a new     *)
(* entry for an external command, or the job fg had taken out, unless its  *)
(* id is in the list.                                                      *)
ctrlZHandler ==
    /\ KeyPressed
    /\ proc' = [proc EXCEPT ![Target] = Deliver(@, 19)]
    /\ \/ /\ Id(current_foreground_job) = -1
          /\ \E a \in Addrs : AddJob(jobsList, StoppedEntries, maxJobID, Target,
                                    "Stopped", a)
       \/ /\ Id(current_foreground_job) # -1
          /\ entry' = StoppedEntries
          /\ jobsList' = AddEntry(jobsList, current_foreground_job)
          /\ UNCHANGED maxJobID
    /\ UNCHANGED <<role, current_foreground_job, pc>>

(* ctrl-C: the process is killed and its job marked as finished.           *)
ctrlCHandler ==
    /\ KeyPressed
    /\ proc' = [proc EXCEPT ![Target] = Deliver(@, 9)]
    /\ entry' = setJobStatus(entry, current_foreground_job, "Finished")
    /\ UNCHANGED <<role, jobsList, maxJobID, current_foreground_job, pc>>

-----------------------------------------------------------------------------
Next ==
    \/ \E p \in Pids : Exit(p) \/ SignalFromElsewhere(p)
    \/ JobsCommand \/ OtherCommand
    \/ \E i \in Arguments :
          ForegroundCommand(i) \/ BackgroundCommand(i) \/ KillCommand(i)
    \/ \E killAll \in BOOLEAN : QuitCommand(killAll)
    \/ ForegroundContinue \/ ForegroundRemove
    \/ ExternalCommand \/ RedirectionCommand \/ PipeCommand
    \/ Wait \/ Reset
    \/ ctrlZHandler \/ ctrlCHandler

Spec == Init /\ [][Next]_vars

-----------------------------------------------------------------------------
(* Type invariant: the list and the shell point to entries that exist, and *)
(* there are no others.                                                    *)
TypeOK ==
    /\ proc \in [Pids -> {"unborn", "running", "stopped", "dying", "zombie",
                          "gone"}]
    /\ role \in [Pids -> {"plain", "first", "second", "stray"}]
    /\ current_foreground_job \in Addrs \cup {NoJob}
    /\ DOMAIN entry = ToSet(jobsList) \cup ({current_foreground_job} \ {NoJob})
    /\ jobsList \in Seq(Addrs)
    /\ entry \in [DOMAIN entry -> [jobId : Nat \cup {-1}, jobProcessId : Pids,
                                   jobStatus : Statuses]]
    /\ maxJobID \in Nat
    /\ pc \in {"prompt", "fg_cont", "fg_remove", "wait", "reset", "exited"}
    /\ current_foreground_job = NoJob <=> pc \in {"prompt", "exited"}
    /\ raced \in 0..Races

(* No two jobs in the list have the same id and no id is the -1 of an      *)
(* unlisted job, although fg lowers maxJobID while a job is out of the     *)
(* list, ctrl-Z puts it back under its old id, and keys come at any time:  *)
(* getJobById finds the job the user means.  A process that only the shell *)
(* has signalled is in the list once as long as no key comes in between,   *)
(* so the signals and the status of a job are its own.                     *)
UniqueIds ==
    /\ \A a \in ToSet(jobsList) : Id(a) > 0
    /\ \A i, j \in 1..Len(jobsList) :
          \/ Id(jobsList[i]) = Id(jobsList[j])
          \/ /\ raced = 0 /\ role[Pid(jobsList[i])] # "stray"
             /\ Pid(jobsList[i]) = Pid(jobsList[j])
          => i = j

Listed(p) == \E a \in ToSet(jobsList) : Pid(a) = p

(* At the prompt every process that has not ended is in the jobs list, but *)
(* for the first processes of pipes and those that something else than the *)
(* shell has signalled: nothing the user stopped with ctrl-Z is out of the *)
(* reach of fg, bg, kill and quit kill.                                    *)
AllChildrenListed ==
    pc = "prompt" => \A p \in Pids :
        proc[p] \in Alive /\ role[p] \notin {"first", "stray"} => Listed(p)

(* AllChildrenListed, as long as no key comes in between: a foreground     *)
(* process that stops by itself is lost (waitpid returns and its status is *)
(* not looked at), and nothing else is.                                    *)
ListedUnlessRaced == raced = 0 => AllChildrenListed

(* At the prompt a stopped process in the list is shown as stopped, so bg  *)
(* does not take it for one that runs, as long as no key comes in between, *)
(* only the shell signals the process, and the user does not send one of   *)
(* the signals 20 to 22, which stop a process like 19 and are not recorded *)
(* by kill.                                                                *)
StoppedIsMarked ==
    pc = "prompt" /\ raced = 0 /\ Signals \cap 20..22 = {} =>
        \A a \in ToSet(jobsList) :
            proc[Pid(a)] = "stopped" /\ role[Pid(a)] # "stray"
                => Status(a) = "Stopped"

(* Every job in the list has a process that was not waited for yet, so no  *)
(* signal is sent to a pid that the system may have given to another       *)
(* process, as long as no key comes in between and only the shell signals  *)
(* the process.  The job of a pipe is excepted: nothing removes it.        *)
ListedUnfinished ==
    pc = "prompt" /\ raced = 0 => \A a \in ToSet(jobsList) :
        proc[Pid(a)] = "gone" => role[Pid(a)] \in {"second", "stray"}
=============================================================================
