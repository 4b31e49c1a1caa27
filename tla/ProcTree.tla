------------------------------ MODULE ProcTree ------------------------------
(***************************************************************************)
(* What tasking promises, without stacks, PCBs or interrupts: every        *)
(* terminal has one running program, its leaf, and the chain of programs   *)
(* that executed it, which ends in a base shell.  A clock tick hands the   *)
(* processor to the next terminal and starts a base shell where there is   *)
(* none; execute puts a fresh program under the running one; halt returns  *)
(* control "to program that executed current program" (syscall.S:56), and  *)
(* a base shell that halts is replaced by a fresh one.                     *)
(***************************************************************************)
EXTENDS Integers

CONSTANTS NUM_PROCESSES,   \* terminals
          MAX_PID          \* process identifiers are 1..MAX_PID

Terms == 0 .. NUM_PROCESSES - 1
Pids  == 1 .. MAX_PID

Dead == -1     \* the caller of an identifier no program has
Root == 0      \* the caller of a base shell

VARIABLES leaf,     \* leaf[t]: the program running in terminal t, 0 before its shell starts
          caller,   \* caller[p]: the program that executed p
          active    \* the terminal whose program has the processor

vars == <<leaf, caller, active>>

Init == /\ leaf = [t \in Terms |-> 0]
        /\ caller = [p \in Pids |-> Dead]
        /\ active = 0

(* A base shell with identifier p starts in terminal t. *)
StartShell(t, p) == /\ leaf' = [leaf EXCEPT ![t] = p]
                    /\ caller' = [caller EXCEPT ![p] = Root]

Tick == /\ active' = (active + 1) % NUM_PROCESSES
        /\ \/ /\ leaf[active'] # 0
              /\ UNCHANGED <<leaf, caller>>
           \/ /\ leaf[active'] = 0
              /\ \E p \in Pids : caller[p] = Dead /\ StartShell(active', p)

Execute == /\ leaf[active] # 0
           /\ \E p \in Pids : /\ caller[p] = Dead
                              /\ leaf' = [leaf EXCEPT ![active] = p]
                              /\ caller' = [caller EXCEPT ![p] = leaf[active]]
           /\ UNCHANGED active

HaltChild == /\ leaf[active] # 0
             /\ caller[leaf[active]] # Root
             /\ leaf' = [leaf EXCEPT ![active] = caller[leaf[active]]]
             /\ caller' = [caller EXCEPT ![leaf[active]] = Dead]
             /\ UNCHANGED active

(* The shell that replaces a halted one may get the identifier just freed. *)
HaltShell == /\ leaf[active] # 0
             /\ caller[leaf[active]] = Root
             /\ \E p \in Pids :
                   /\ caller[p] = Dead \/ p = leaf[active]
                   /\ leaf' = [leaf EXCEPT ![active] = p]
                   /\ caller' = [caller EXCEPT ![leaf[active]] = Dead, ![p] = Root]
             /\ UNCHANGED active

Next == Tick \/ Execute \/ HaltChild \/ HaltShell

Spec == Init /\ [][Next]_vars
-----------------------------------------------------------------------------
TypeOK == /\ leaf \in [Terms -> 0 .. MAX_PID]
          /\ caller \in [Pids -> Dead .. MAX_PID]
          /\ active \in Terms

(* No program is lost and none is shared: every live program is the leaf of *)
(* one terminal or the caller of one live program, never both, so halt      *)
(* always has exactly one program to return to and no PCB leaks.            *)
Live(p)  == caller[p] # Dead
Leaf(p)  == \E t \in Terms : leaf[t] = p
Waits(p) == \E q \in Pids : caller[q] = p

NoOrphans ==
  /\ \A t \in Terms : leaf[t] # 0 => Live(leaf[t])
  /\ \A p \in Pids : Live(p) <=> Leaf(p) \/ Waits(p)
  /\ \A p \in Pids : ~ (Leaf(p) /\ Waits(p))
  /\ \A s, t \in Terms : leaf[s] = leaf[t] /\ leaf[s] # 0 => s = t
  /\ \A p, q \in Pids : caller[p] = caller[q] /\ caller[p] \in Pids => p = q
=============================================================================
