--------------------------- MODULE EtdbBgsaveProofs ---------------------------
(***************************************************************************)
(* No process of bgsave has two children and no zombie is forgotten, for   *)
(* any number of processes and slots and any order of forks, exits and     *)
(* signals.                                                                *)
(***************************************************************************)
EXTENDS EtdbBgsave, FiniteSetTheorems, TLAPS

\* The one child a process can have: what fork is about to return, or what
\* was remembered; a process that saves has none
Remembered ==
    \A p, c \in Proc : state[c] # "none" /\ parent[c] = p =>
        /\ state[p] \in {"server", "forking"}
        /\ state[p] = "forking" => c = child[p]
        /\ state[p] = "server" => c = bgsave_pid[p]

\* SIGCHLD is pending exactly while the child is a zombie
Signalled ==
    \A p, c \in Proc : state[c] # "none" /\ parent[c] = p =>
        (sigchld[p] <=> state[c] = "zombie")
Caused == \A p \in Proc : sigchld[p] => \E c \in Proc : state[c] = "zombie" /\ parent[c] = p

\* A zombie has someone else to wait for it
Awaited ==
    \A c \in Proc : state[c] # "none" =>
        parent[c] # c /\ (state[c] = "zombie" => parent[c] \in Proc)

Inv == TypeOK /\ Remembered /\ Signalled /\ Caused /\ Awaited

-----------------------------------------------------------------------------
LEMMA InitInv == Init => Inv
  BY BgsaveAssumption DEF Init, Inv, TypeOK, Remembered, Signalled, Caused, Awaited

LEMMA ForkInv ==
  ASSUME NEW p \in Proc, NEW c \in Proc, Inv, Fork(p, c) PROVE Inv'
<1>1. /\ p # c /\ state[p] = "server" /\ bgsave_pid[p] = Nobody
      /\ state[c] = "none"
  BY DEF Fork, MayFork
<1>2. \A d \in Proc : state[d] # "none" => parent[d] # p
  BY <1>1, BgsaveAssumption DEF Inv, Remembered
<1>3. \A d \in Proc : state[d] # "none" => parent[d] # c
  BY <1>1 DEF Inv, Remembered
<1>4. ~ sigchld[p]
  BY <1>2 DEF Inv, Caused
<1>5. TypeOK'
  <2>1. /\ state' \in [Proc -> {"none", "server", "forking", "opening", "saving", "zombie"}]
        /\ pos' \in [Proc -> 0..MaxSlot]
    BY BgsaveAssumption DEF Inv, TypeOK, Fork
  <2>2. /\ bgsave_pid' \in [Proc -> Proc \cup {Nobody}]
        /\ parent' \in [Proc -> Proc \cup {Nobody}]
        /\ child' \in [Proc -> Proc \cup {Nobody}]
    BY DEF Inv, TypeOK, Fork
  <2>3. sigchld' \in [Proc -> BOOLEAN] /\ early' \in [Proc -> BOOLEAN]
    BY DEF Inv, TypeOK, Fork
  <2> QED BY <2>1, <2>2, <2>3 DEF TypeOK
<1>6. Remembered'
  BY <1>1, <1>2, <1>3 DEF Inv, TypeOK, Remembered, Fork
<1>7. Signalled'
  BY <1>1, <1>2, <1>3, <1>4 DEF Inv, TypeOK, Signalled, Fork
<1>8. Caused'
  BY <1>1 DEF Inv, TypeOK, Caused, Fork
<1>9. Awaited'
  BY <1>1 DEF Inv, TypeOK, Awaited, Fork
<1> QED BY <1>5, <1>6, <1>7, <1>8, <1>9 DEF Inv

LEMMA ForkReturnsInv ==
  ASSUME NEW p \in Proc, Inv, ForkReturns(p) PROVE Inv'
  BY DEF Inv, TypeOK, Remembered, Signalled, Caused, Awaited, ForkReturns

LEMMA OpenInv ==
  ASSUME NEW p \in Proc, Inv, Open(p) \/ OpenFails(p) PROVE Inv'
  BY DEF Inv, TypeOK, Remembered, Signalled, Caused, Awaited, Open, OpenFails

LEMMA WriteSlotInv ==
  ASSUME NEW p \in Proc, Inv, WriteSlot(p) PROVE Inv'
  BY BgsaveAssumption
     DEF Inv, TypeOK, Remembered, Signalled, Caused, Awaited, WriteSlot, MoreSlots

\* A process ends; it is alive and inside neither fork nor fopen
LEMMA ExitInv ==
  ASSUME NEW p \in Proc, Inv, state[p] \in {"server", "saving"}, Exit(p) PROVE Inv'
<1>1. TypeOK'
  BY BgsaveAssumption DEF Inv, TypeOK, Exit
<1>2. Remembered'
  BY BgsaveAssumption DEF Inv, TypeOK, Remembered, Exit
<1>3. Signalled'
  <2>1. SUFFICES ASSUME NEW q \in Proc, NEW c \in Proc, state'[c] # "none", parent'[c] = q
                 PROVE  sigchld'[q] <=> state'[c] = "zombie"
    BY DEF Signalled
  <2>2. q # p /\ parent[c] = q /\ state[c] # "none"
    BY <2>1, BgsaveAssumption DEF Inv, TypeOK, Awaited, Exit
  <2>3. sigchld'[q] <=> sigchld[q] \/ q = parent[p]
    BY <2>2 DEF Exit
  <2>4. CASE c = p
    BY <2>2, <2>3, <2>4, BgsaveAssumption DEF Exit, Inv, TypeOK
  <2>5. CASE c # p
    <3>1. q # parent[p]
      BY <2>2, <2>5 DEF Inv, Remembered
    <3>2. state'[c] = state[c]
      BY <2>2, <2>5 DEF Exit
    <3> QED BY <2>2, <2>3, <3>1, <3>2 DEF Inv, Signalled
  <2> QED BY <2>4, <2>5
<1>4. Caused'
  BY BgsaveAssumption DEF Inv, TypeOK, Remembered, Caused, Exit
<1>5. Awaited'
  BY BgsaveAssumption DEF Inv, TypeOK, Remembered, Awaited, Exit
<1> QED BY <1>1, <1>2, <1>3, <1>4, <1>5 DEF Inv

LEMMA SigChldInv ==
  ASSUME NEW p \in Proc, Inv, SigChld(p) PROVE Inv'
<1>1. PICK c \in Waited(p) : state' = [q \in Proc |-> IF q = c THEN "none" ELSE state[q]]
  BY DEF SigChld
<1>2. PICK d \in Proc : state[d] = "zombie" /\ parent[d] = p
  BY DEF SigChld, Inv, Caused
<1>3. c \in Proc /\ state[c] = "zombie" /\ parent[c] = p
  BY <1>2 DEF Waited, Children
<1>4. \A e \in Proc : state[e] # "none" /\ parent[e] = p => e = c
  BY <1>3 DEF Inv, Remembered
<1>5. \A e \in Proc : state[e] # "none" => parent[e] # c
  BY <1>3 DEF Inv, Remembered
<1>6. TypeOK'
  BY <1>1, BgsaveAssumption DEF Inv, TypeOK, SigChld, PidAfter
<1>7. Remembered'
  BY <1>1, <1>3, <1>4, <1>5 DEF Inv, TypeOK, Remembered, SigChld, PidAfter
<1>8. Signalled'
  BY <1>1, <1>3, <1>4 DEF Inv, TypeOK, Signalled, SigChld
<1>9. Caused'
  BY <1>1, <1>3, BgsaveAssumption DEF Inv, TypeOK, Caused, SigChld
<1>10. Awaited'
  BY <1>1 DEF Inv, TypeOK, Awaited, SigChld
<1> QED BY <1>6, <1>7, <1>8, <1>9, <1>10 DEF Inv

LEMMA StepInv == Inv /\ [Next]_vars => Inv'
<1>1. ASSUME Inv, UNCHANGED vars PROVE Inv'
  BY <1>1 DEF vars, Inv, TypeOK, Remembered, Signalled, Caused, Awaited
<1>2. ASSUME Inv, NEW p \in Proc, NEW c \in Proc, Fork(p, c) PROVE Inv'
  BY <1>2, ForkInv
<1>3. ASSUME Inv, NEW p \in Proc, Runs(p) PROVE Inv'
  BY <1>3, ForkReturnsInv, OpenInv, WriteSlotInv, ExitInv, SigChldInv DEF Runs, Saved
<1>4. ASSUME Inv, NEW p \in Proc, WildRead(p) \/ Stop(p) PROVE Inv'
  BY <1>4, ExitInv DEF WildRead, Stop, MoreSlots
<1> QED BY <1>1, <1>2, <1>3, <1>4 DEF Next

-----------------------------------------------------------------------------
\* The processes, what they remember of each other and the pending signals
\* agree, wherever a signal is handled, inside of fork included.
THEOREM Invariance == Spec => []Inv
  BY InitInv, StepInv, PTL DEF Spec

\* Every variable keeps its type.
THEOREM TypeCorrect == Spec => []TypeOK
<1>1. Inv => TypeOK
  BY DEF Inv
<1> QED BY <1>1, Invariance, PTL

\* A bgsave is refused as long as the process has a child.
THEOREM OneChildHolds == Spec => []OneChild
<1>1. ASSUME Inv, NEW p \in Proc PROVE Cardinality(Children(p)) <= 1
  <2>1. PICK c : Children(p) \subseteq {c}
    BY <1>1 DEF Inv, Remembered, Children
  <2>2. IsFiniteSet({c}) /\ Cardinality({c}) = 1
    BY FS_Singleton
  <2>3. Cardinality(Children(p)) <= Cardinality({c})
    BY <2>1, <2>2, FS_Subset
  <2> QED BY <2>2, <2>3
<1>2. Inv => OneChild
  BY <1>1 DEF OneChild
<1> QED BY <1>2, Invariance, PTL

\* A process with a zombie has SIGCHLD pending.
THEOREM ZombiesReapedHolds == Spec => []ZombiesReaped
<1>1. Inv => ZombiesReaped
  BY DEF Inv, Signalled, ZombiesReaped
<1> QED BY <1>1, Invariance, PTL
=============================================================================
