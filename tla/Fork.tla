---------------------------------- MODULE Fork ----------------------------------
(***************************************************************************)
(* interprocess/fork.h: children started with fork, which run one function *)
(* and exit with its result, and fork_child_t::join in their parent.  Of   *)
(* the operating system (fork, exit, waitpid, signals) the model keeps     *)
(* what these calls return.                                                *)
(***************************************************************************)
EXTENDS Integers

CONSTANTS
  Kids,       \* the children the parent starts
  Nothrow,    \* those whose function is_nothrow_invocable
  MaxFaults   \* bound: signals, refused forks and failures in the children

ASSUME ForkAssumption == Nothrow \subseteq Kids /\ MaxFaults \in Nat

VARIABLES
  proc,    \* [Kids -> {"none", "running", "zombie", "gone"}]
  status,  \* what waitpid will tell of a child that has ended
  pid,     \* [Kids -> BOOLEAN]: fork_child_t::pid_ of the parent is set
  joined,  \* [Kids -> {"unasked", "true", "false"}]: what join has returned
  returned,  \* history: [Kids -> {"nothing", "true", "false"}], what the function did
  faults   \* how many faults there have been

forkVars == <<proc, status, pid, joined, returned, faults>>

ForkInit ==
  /\ proc = [c \in Kids |-> "none"] /\ status = [c \in Kids |-> 0]
  /\ pid = [c \in Kids |-> FALSE] /\ joined = [c \in Kids |-> "unasked"]
  /\ returned = [c \in Kids |-> "nothing"] /\ faults = 0

EXIT_SUCCESS == 0
EXIT_FAILURE == 1

\* The word of waitpid: the exit code above the signal that ended the child.
Exited(code) == code * 256
Signaled(signal) == signal
WEXITSTATUS(s) == (s \div 256) % 256
SIGABRT == 6
SIGKILL == 9

joinable(c) == pid[c]

Fault == faults < MaxFaults /\ faults' = faults + 1

\* fork in the parent: a new child, or std::nullopt.
Fork(c) ==
  /\ proc[c] = "none"
  /\ proc' = [proc EXCEPT ![c] = "running"]
  /\ pid' = [pid EXCEPT ![c] = TRUE]
  /\ UNCHANGED <<status, joined, returned, faults>>

ForkRefused(c) ==
  /\ proc[c] = "none" /\ Fault
  /\ UNCHANGED <<proc, status, pid, joined, returned>>

Ends(c, s) ==
  /\ proc[c] = "running"
  /\ proc' = [proc EXCEPT ![c] = "zombie"]
  /\ status' = [status EXCEPT ![c] = s]
  /\ UNCHANGED <<pid, joined>>

\* The child's function returns: std::exit(result ? EXIT_SUCCESS : EXIT_FAILURE).
Exit(c, result) ==
  /\ Ends(c, Exited(IF result THEN EXIT_SUCCESS ELSE EXIT_FAILURE))
  /\ returned' = [returned EXCEPT ![c] = IF result THEN "true" ELSE "false"]
  /\ UNCHANGED faults

\* The child's function throws: fork catches it, unless the function is noexcept.
Throw(c) ==
  /\ Fault /\ UNCHANGED returned
  /\ Ends(c, IF c \in Nothrow THEN Signaled(SIGABRT) ELSE Exited(EXIT_FAILURE))

Kill(c) == Fault /\ Ends(c, Signaled(SIGKILL)) /\ UNCHANGED returned

\* A faulty join, which takes every child that has ended for a success.
JoinIgnoresStatus(c) ==
  /\ joinable(c) /\ proc[c] = "zombie"
  /\ proc' = [proc EXCEPT ![c] = "gone"]
  /\ pid' = [pid EXCEPT ![c] = FALSE]
  /\ joined' = [joined EXCEPT ![c] = "true"]
  /\ UNCHANGED <<status, returned, faults>>

\* A faulty join, which does not wait for a child that is still running.
JoinPolls(c) ==
  /\ joinable(c)
  /\ proc' = [proc EXCEPT ![c] = IF @ = "zombie" THEN "gone" ELSE @]
  /\ pid' = [pid EXCEPT ![c] = FALSE]
  /\ joined' = [joined EXCEPT ![c] = IF EXIT_SUCCESS = WEXITSTATUS(status[c])
                                       THEN "true" ELSE "false"]
  /\ UNCHANGED <<status, returned, faults>>

\* join: waitpid returns when the child has ended.
Join(c) ==
  /\ joinable(c) /\ proc[c] = "zombie"
  /\ proc' = [proc EXCEPT ![c] = "gone"]
  /\ pid' = [pid EXCEPT ![c] = FALSE]
  /\ joined' = [joined EXCEPT ![c] = IF EXIT_SUCCESS = WEXITSTATUS(status[c])
                                       THEN "true" ELSE "false"]
  /\ UNCHANGED <<status, returned, faults>>

\* join: waitpid returns -1, because a signal came first; pid_ is given up.
JoinInterrupted(c) ==
  /\ joinable(c) /\ Fault
  /\ pid' = [pid EXCEPT ![c] = FALSE]
  /\ joined' = [joined EXCEPT ![c] = "false"]
  /\ UNCHANGED <<proc, status, returned>>

===============================================================================
