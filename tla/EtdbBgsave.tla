----------------------------- MODULE EtdbBgsave -----------------------------
(***************************************************************************)
(* bgsave: the server forks a child that writes the tries to a file, and   *)
(* remembers it in etdb_bgsave_pid until SIGCHLD comes.                    *)
(*                                                                         *)
(* A process is the server, a child, or a child of a child: fork copies    *)
(* all of the process, its event loop and its handlers included, so every  *)
(* process has the same actions.  The kernel's part (zombies, orphans,     *)
(* delivery of SIGCHLD) is external.  Job control signals are left out.    *)
(***************************************************************************)
EXTENDS Naturals, FiniteSets

CONSTANTS
    Proc,      \* process ids
    Main,      \* the process that was started
    Nobody,    \* no process
    MaxSlot,   \* ETDB_DATABASE_MAX_SLOT
    Filled     \* slots whose tries hold pointers to heads

ASSUME BgsaveAssumption ==
    /\ Main \in Proc /\ Nobody \notin Proc
    /\ MaxSlot \in Nat /\ Filled \subseteq 0..MaxSlot

VARIABLES
    state,      \* "none", "server" (in its event loop), "forking" (inside
                \* fork), "opening" and "saving" (in etdb_database_sys_bgsave)
                \* or "zombie"
    bgsave_pid, \* etdb_bgsave_pid: Nobody for 0 and for -1
    parent,     \* who is sent SIGCHLD
    child,      \* what fork is about to return
    pos,        \* the slot being written
    sigchld,    \* SIGCHLD is pending
    early       \* a SIGCHLD was handled inside fork (history)

vars == <<state, bgsave_pid, parent, child, pos, sigchld, early>>

Alive(p) == state[p] \notin {"none", "zombie"}
Children(p) == {c \in Proc : state[c] # "none" /\ parent[c] = p}

Init ==
    /\ state = [p \in Proc |-> IF p = Main THEN "server" ELSE "none"]
    /\ bgsave_pid = [p \in Proc |-> Nobody]
    /\ parent = [p \in Proc |-> Nobody]
    /\ child = [p \in Proc |-> Nobody]
    /\ pos = [p \in Proc |-> 0]
    /\ sigchld = [p \in Proc |-> FALSE]
    /\ early = [p \in Proc |-> FALSE]

(***************************************************************************)
(* etdb_sys_bgsave_handler                                                 *)
(***************************************************************************)
\* Variant of MayFork: the pid is not looked at
MayForkAlways(p) == state[p] = "server"

\* With a child the command fails and changes nothing
MayFork(p) == state[p] = "server" /\ bgsave_pid[p] = Nobody

\* The child begins, with 0 in its copy of the pid; its parent is still
\* inside fork
Fork(p, c) ==
    /\ MayFork(p) /\ state[c] = "none"
    /\ state' = [state EXCEPT ![p] = "forking", ![c] = "opening"]
    /\ child' = [child EXCEPT ![p] = c]
    /\ parent' = [parent EXCEPT ![c] = p]
    /\ bgsave_pid' = [bgsave_pid EXCEPT ![c] = Nobody]
    /\ pos' = [pos EXCEPT ![c] = 0]
    /\ sigchld' = [sigchld EXCEPT ![c] = FALSE]
    /\ early' = [early EXCEPT ![p] = FALSE, ![c] = FALSE]

ForkReturns(p) ==
    /\ state[p] = "forking"
    /\ bgsave_pid' = [bgsave_pid EXCEPT ![p] = child[p]]
    /\ state' = [state EXCEPT ![p] = "server"]
    /\ child' = [child EXCEPT ![p] = Nobody]
    /\ UNCHANGED <<parent, pos, sigchld, early>>

(***************************************************************************)
(* etdb_database_sys_bgsave, in the child                                  *)
(***************************************************************************)
Open(p) ==
    /\ state[p] = "opening"
    /\ state' = [state EXCEPT ![p] = "saving"]
    /\ UNCHANGED <<bgsave_pid, parent, child, pos, sigchld, early>>

\* The function returns, and so does the handler: into the event loop
OpenFails(p) ==
    /\ state[p] = "opening"
    /\ state' = [state EXCEPT ![p] = "server"]
    /\ UNCHANGED <<bgsave_pid, parent, child, pos, sigchld, early>>

MoreSlots(p) == state[p] = "saving" /\ pos[p] < MaxSlot

WriteSlot(p) ==
    /\ MoreSlots(p)
    /\ pos' = [pos EXCEPT ![p] = @ + 1]
    /\ UNCHANGED <<state, bgsave_pid, parent, child, sigchld, early>>

\* The kernel's end of a process: its zombies go, its other children have no
\* parent to signal, and its own parent is sent SIGCHLD
Exit(p) ==
    /\ state' = [q \in Proc |-> IF q = p THEN IF parent[p] = Nobody THEN "none" ELSE "zombie"
                                ELSE IF parent[q] = p /\ state[q] = "zombie" THEN "none"
                                ELSE state[q]]
    /\ sigchld' = [q \in Proc |-> q # p /\ (sigchld[q] \/ q = parent[p])]
    /\ parent' = [q \in Proc |-> IF parent[q] = p THEN Nobody ELSE parent[q]]
    /\ UNCHANGED <<bgsave_pid, child, pos, early>>

\* fclose and exit(0)
Saved(p) == state[p] = "saving" /\ ~ MoreSlots(p) /\ Exit(p)

\* A pointer that was never given a value is followed: the child goes on
\* (WriteSlot) or the kernel ends it
WildRead(p) == MoreSlots(p) /\ pos[p] \in Filled /\ Exit(p)

\* SIGTERM ends the event loop
Stop(p) == state[p] = "server" /\ Exit(p)

(***************************************************************************)
(* SIGCHLD: etdb_signal_handler, etdb_process_get_status                   *)
(***************************************************************************)
\* Variant of Waited: waitpid is not called
WaitedNone(p) == {Nobody}

\* What waitpid(-1, WNOHANG) may return
Waited(p) ==
    LET zombies == {c \in Children(p) : state[c] = "zombie"}
    IN  IF zombies = {} THEN {Nobody} ELSE zombies

\* Variant of PidAfter: the pid stays
PidAfterKept(p) == bgsave_pid[p]

\* Whatever waitpid returned
PidAfter(p) == Nobody

SigChld(p) ==
    /\ Alive(p) /\ sigchld[p]
    /\ \E c \in Waited(p) :
          state' = [q \in Proc |-> IF q = c THEN "none" ELSE state[q]]
    /\ bgsave_pid' = [bgsave_pid EXCEPT ![p] = PidAfter(p)]
    /\ sigchld' = [sigchld EXCEPT ![p] = FALSE]
    /\ early' = [early EXCEPT ![p] = state[p] = "forking"]
    /\ UNCHANGED <<parent, child, pos>>

\* Steps that nothing but the scheduler delays
Runs(p) == ForkReturns(p) \/ Open(p) \/ OpenFails(p) \/ WriteSlot(p) \/ Saved(p) \/ SigChld(p)

Next == \E p \in Proc :
    \/ \E c \in Proc : Fork(p, c)
    \/ Runs(p)
    \/ WildRead(p)
    \/ Stop(p)

Spec == Init /\ [][Next]_vars

\* Every process is scheduled, and pending signals are delivered
FairSpec == Spec /\ \A p \in Proc : WF_vars(Runs(p))

----------------------------------------------------------------------------
\* Every variable has its type.
TypeOK ==
    /\ state \in [Proc -> {"none", "server", "forking", "opening", "saving", "zombie"}]
    /\ bgsave_pid \in [Proc -> Proc \cup {Nobody}]
    /\ parent \in [Proc -> Proc \cup {Nobody}]
    /\ child \in [Proc -> Proc \cup {Nobody}]
    /\ pos \in [Proc -> 0..MaxSlot]
    /\ sigchld \in [Proc -> BOOLEAN]
    /\ early \in [Proc -> BOOLEAN]

\* A process has at most one child: while a save runs, or its end has not
\* been noticed, another bgsave of the same process is refused.
OneChild == \A p \in Proc : Alive(p) => Cardinality(Children(p)) <= 1

\* A process that lives has no zombie it will not be told of: the one
\* waitpid of the handler is enough.
ZombiesReaped ==
    \A p \in Proc, c \in Proc :
        Alive(p) /\ state[c] = "zombie" /\ parent[c] = p => sigchld[p]

\* bgsave is refused for the duration of a save only: the pid is reset after
\* it, unless SIGCHLD came before fork returned, the child went on as a server
\* or the process stopped.
RefusalEnds ==
    \A p \in Proc :
        bgsave_pid[p] # Nobody ~>
            \/ bgsave_pid[p] = Nobody \/ early[p] \/ ~ Alive(p)
            \/ \E c \in Children(p) : state[c] \in {"server", "forking"}

\* The child of bgsave does save operations and nothing else: one process
\* answers requests.
ChildOnlySaves == \A p \in Proc \ {Main} : state[p] \notin {"server", "forking"}
=============================================================================
