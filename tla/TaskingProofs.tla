---------------------------- MODULE TaskingProofs ----------------------------
(***************************************************************************)
(* Theorems about Tasking, for any number of terminals, PCBs and stack      *)
(* entries: first what holds for every set of points at which a tick may    *)
(* arrive, then what holds when ticks spare the unsafe windows.             *)
(***************************************************************************)
EXTENDS Tasking, TLAPS

(* The cell at depth 0 is never written: a stack pointer of 0 holds no frame, *)
(* so a popped frame always leaves a stack pointer that is still in range.    *)
EmptyBottom == \A s \in Pids0 : kstack[s][0] = Junk

TypeInv == TypeOK /\ EmptyBottom

(* What the assumption says of the sets pids, frames and contexts are taken from. *)
LEMMA ConstantFacts ==
  /\ 0 \in Pids0 /\ 0 \in Terms /\ Pids \subseteq Pids0
  /\ Pids0 \subseteq Dead .. MAX_PID /\ Dead \in Dead .. MAX_PID
  /\ Null \in Addr /\ Idle \in Cpu /\ Junk \in Frame
  /\ NoContext \in [at : Addr, frame : Frame]
BY TaskingConstants DEF Pids0, Terms, Pids, Dead, Null, Addr, Idle, Cpu, Points,
   KernelPoints, Junk, Frame, NoContext

(* The round robin stays among the terminals. *)
LEMMA NextTermInTerms ==
  ASSUME current_active_process \in Terms
  PROVE  NextTerm \in Terms
BY TaskingConstants DEF NextTerm, Terms

(* The address after a push is on the stack. *)
LEMMA AboveInAddr ==
  ASSUME NEW a \in Addr, NEW n \in Int, a.d + n \in 0 .. StackDepth
  PROVE  Above(a, n) \in Addr
BY DEF Above, Addr

(* Moving to another point of the kernel. *)
LEMMA GotoType ==
  ASSUME cpu \in Cpu, NEW pc \in Points, Goto(pc)
  PROVE  cpu' \in Cpu
BY DEF Goto, Cpu

(* Writing a frame and dropping what lay above keeps a stack well typed. *)
LEMMA PushOnType ==
  ASSUME TypeInv, NEW s \in Pids0, NEW d \in 1 .. StackDepth, NEW f \in Frame
  PROVE  /\ PushOn(s, d, f) \in [0 .. StackDepth -> Frame]
         /\ PushOn(s, d, f)[0] = Junk
         /\ [kstack EXCEPT ![s] = PushOn(s, d, f)] \in [Pids0 -> [0 .. StackDepth -> Frame]]
         /\ \A t \in Pids0 : [kstack EXCEPT ![s] = PushOn(s, d, f)][t][0] = Junk
<1> DEFINE row == kstack[s]
<1>1. row \in [0 .. StackDepth -> Frame] /\ row[0] = Junk
  BY DEF TypeInv, TypeOK, EmptyBottom
<1>2. Junk \in Frame /\ StackDepth \in Nat /\ d \in Int /\ 0 < d /\ 0 \in 0 .. StackDepth
  BY ConstantFacts, TaskingConstants
<1>3. PushOn(s, d, f) = [i \in 0 .. StackDepth |-> IF i < d THEN row[i]
                                                  ELSE IF i = d THEN f ELSE Junk]
  BY DEF PushOn
<1> HIDE DEF row
<1>4. PushOn(s, d, f) \in [0 .. StackDepth -> Frame]
  BY <1>1, <1>2, <1>3
<1>5. PushOn(s, d, f)[0] = Junk
  BY <1>1, <1>2, <1>3
<1>6. kstack \in [Pids0 -> [0 .. StackDepth -> Frame]] /\ \A t \in Pids0 : kstack[t][0] = Junk
  BY DEF TypeInv, TypeOK, EmptyBottom
<1> QED BY <1>4, <1>5, <1>6

(* A push keeps the stacks well typed and the bottom cells empty. *)
LEMMA PushType ==
  ASSUME TypeInv, NEW kind \in {"syscall", "fault", "tick"}, Push(kind)
  PROVE  /\ kstack' \in [Pids0 -> [0 .. StackDepth -> Frame]]
         /\ EmptyBottom'
         /\ Above(esp, 1) \in Addr
<1>1. /\ esp \in Addr /\ esp.s \in Pids0 /\ esp.d \in 0 .. StackDepth
      /\ esp.d + 1 \in 0 .. StackDepth
  BY TaskingConstants DEF TypeInv, TypeOK, Addr, Push
<1>2. Above(esp, 1) \in Addr
  BY <1>1, AboveInAddr
<1> DEFINE f == [kind |-> kind, cpu |-> cpu]
<1>3. f \in Frame
  BY DEF TypeInv, TypeOK, Frame
<1>4. Junk \in Frame
  BY ConstantFacts
<1>5. kstack' = [kstack EXCEPT ![esp.s] = PushOn(esp.s, esp.d + 1, f)]
  BY DEF Push
<1>6. esp.d + 1 \in 1 .. StackDepth
  BY <1>1
<1> HIDE DEF f
<1> QED BY <1>1, <1>2, <1>3, <1>5, <1>6, PushOnType DEF EmptyBottom

(* So does a pop, and the frame popped is a context the processor can have. *)
LEMMA PopType ==
  ASSUME TypeInv, NEW a \in Addr, FrameAt(a).kind # "junk", PopTo(a, FrameAt(a).cpu)
  PROVE  /\ kstack' \in [Pids0 -> [0 .. StackDepth -> Frame]]
         /\ EmptyBottom'
         /\ cpu' \in Cpu
         /\ esp' \in Addr
<1>1. a.s \in Pids0 /\ a.d \in 0 .. StackDepth /\ StackDepth \in Nat
  BY TaskingConstants DEF Addr
<1>2. FrameAt(a) \in Frame
  BY <1>1 DEF FrameAt, TypeInv, TypeOK
<1>3. a.d # 0
  BY <1>1 DEF FrameAt, TypeInv, EmptyBottom, Junk
<1>4. a.d \in 1 .. StackDepth /\ a.d + (-1) \in 0 .. StackDepth
  BY <1>1, <1>3
<1>5. Above(a, -1) \in Addr
  BY <1>4, AboveInAddr
<1>6. [s |-> current_process, d |-> 0] \in Addr
  BY <1>1 DEF Addr, TypeInv, TypeOK
<1>7. Junk \in Frame
  BY ConstantFacts
<1>8. cpu' \in Cpu
  BY <1>2 DEF PopTo, Frame
<1>9. esp' \in Addr
  BY <1>5, <1>6 DEF PopTo
<1>10. kstack' = [kstack EXCEPT ![a.s] = PushOn(a.s, a.d, Junk)]
  BY DEF PopTo
<1> QED BY <1>1, <1>4, <1>7, <1>8, <1>9, <1>10, PushOnType DEF EmptyBottom

(* A processor that has run away is still in a state of the model. *)
LEMMA CrashType ==
  ASSUME TypeInv, Crash
  PROVE  /\ kstack' \in [Pids0 -> [0 .. StackDepth -> Frame]]
         /\ EmptyBottom' /\ cpu' \in Cpu /\ esp' \in Addr
BY DEF Crash, TypeInv, TypeOK, EmptyBottom, Cpu, Points

(* The return of a system call, to a frame or into nowhere. *)
LEMMA SyscallReturnType ==
  ASSUME TypeInv, NEW a \in Addr, SyscallReturn(a)
  PROVE  /\ kstack' \in [Pids0 -> [0 .. StackDepth -> Frame]]
         /\ EmptyBottom' /\ cpu' \in Cpu /\ esp' \in Addr
<1>1. CASE FrameAt(a).kind = "syscall" /\ PopTo(a, FrameAt(a).cpu)
  BY <1>1, PopType
<1>2. CASE FrameAt(a).kind # "syscall" /\ Crash
  BY <1>2, CrashType
<1> QED BY <1>1, <1>2 DEF SyscallReturn

(* The invariant holds at boot. *)
LEMMA TypeInvInit == Init => TypeInv
BY ConstantFacts, TaskingConstants
   DEF Init, TypeInv, TypeOK, EmptyBottom

(* The pids that the running code holds. *)
LEMMA PidTypes ==
  ASSUME TypeInv
  PROVE  /\ cpu.arg \in Pids0 /\ cpu.edi \in Pids0 /\ cpu.user \in Pids0
         /\ cpu.pc \in Points
         /\ [s |-> current_process, d |-> 0] \in Addr
BY TaskingConstants DEF TypeInv, TypeOK, Cpu, Addr

(* The part of a tick that both outcomes share. *)
LEMMA SaveContextType ==
  ASSUME TypeInv, SaveContext
  PROVE  /\ kstack' \in [Pids0 -> [0 .. StackDepth -> Frame]]
         /\ EmptyBottom'
         /\ esp' \in Addr
         /\ processes' \in [Terms -> Pids0]
         /\ current_active_process' \in Terms
         /\ saved' \in [Terms -> [at : Addr, frame : Frame]]
         /\ SavedEsp \in [Pids0 -> Addr]
         /\ get_next_task_pid \in Pids0
<1>1. /\ kstack' \in [Pids0 -> [0 .. StackDepth -> Frame]]
      /\ EmptyBottom'
      /\ Above(esp, 1) \in Addr
  BY PushType DEF SaveContext
<1>2. esp' \in Addr
  BY <1>1 DEF SaveContext
<1>3. NextTerm \in Terms
  BY NextTermInTerms DEF TypeInv, TypeOK
<1>4. save_queue \in [Terms -> Pids0]
  BY DEF save_queue, TypeInv, TypeOK
<1>5. processes' \in [Terms -> Pids0] /\ current_active_process' \in Terms
  BY <1>3, <1>4 DEF SaveContext
<1>6. get_next_task_pid \in Pids0
  BY <1>3, <1>4 DEF get_next_task_pid
<1>7. SavedEsp \in [Pids0 -> Addr]
  BY <1>1 DEF SavedEsp, TypeInv, TypeOK
<1> DEFINE ctx == [at |-> Above(esp, 1), frame |-> [kind |-> "tick", cpu |-> cpu]]
           mid == IF cpu.pc = "resume" THEN saved
                  ELSE [saved EXCEPT ![current_active_process] = ctx]
<1>8. ctx \in [at : Addr, frame : Frame]
  BY <1>1 DEF Frame, TypeInv, TypeOK
<1>9. mid \in [Terms -> [at : Addr, frame : Frame]]
  <2> HIDE DEF ctx
  <2> QED BY <1>8 DEF TypeInv, TypeOK
<1>10. saved' = IF get_next_task_pid = 0 THEN [mid EXCEPT ![NextTerm] = NoContext] ELSE mid
  BY DEF SaveContext
<1>11. saved' \in [Terms -> [at : Addr, frame : Frame]]
  <2> HIDE DEF mid
  <2> QED BY <1>9, <1>10, ConstantFacts
<1> QED BY <1>1, <1>2, <1>5, <1>6, <1>7, <1>11

(* Every action keeps the types; the stacks are the only hard part. *)
LEMMA TypeInvStep == TypeInv /\ [Next]_vars => TypeInv'
<1> SUFFICES ASSUME TypeInv, [Next]_vars PROVE TypeInv'
  OBVIOUS
<1> USE DEF TypeInv
<1>c. cpu.arg \in Pids0 /\ cpu.edi \in Pids0 /\ cpu.user \in Pids0 /\ cpu.pc \in Points
      /\ [s |-> current_process, d |-> 0] \in Addr
  BY PidTypes
<1>n. Null \in Addr /\ Pids \subseteq Pids0 /\ Pids0 \subseteq Dead .. MAX_PID
      /\ Dead \in Dead .. MAX_PID /\ NoContext \in [at : Addr, frame : Frame]
      /\ 0 \in Pids0 /\ Root \in Dead .. MAX_PID
  BY ConstantFacts DEF Root
<1>1. ASSUME NEW from \in Points, NEW to \in Points, FindFreePcb(from, to) PROVE TypeInv'
  BY <1>1, <1>n DEF FindFreePcb, TypeOK, EmptyBottom, Cpu, pcbs, queue
<1>2. ASSUME NEW from \in Points, NEW to \in Points, ClaimPcb(from, to) PROVE TypeInv'
  BY <1>2, <1>c, <1>n, GotoType DEF ClaimPcb, InitPcb, TypeOK, EmptyBottom, queue
<1>3. CASE EnterPcb
  <2>1. cpu' \in Cpu
    BY <1>3, GotoType DEF EnterPcb, TypeOK, Points, KernelPoints
  <2> QED BY <2>1, <1>3, <1>c, <1>n DEF EnterPcb, switch_context, TypeOK, EmptyBottom, pcbs
<1>4. CASE KEnterPcb
  <2>1. cpu' \in Cpu
    BY <1>4, GotoType DEF KEnterPcb, TypeOK, Points, KernelPoints
  <2> QED BY <2>1, <1>4, <1>c, <1>n DEF KEnterPcb, switch_context, TypeOK, EmptyBottom, pcbs
<1>5. CASE KFindFreePcb
  <2>1. CASE FindFreePcb("kfind", "kclaim")
    BY <2>1, <1>1 DEF Points, KernelPoints
  <2>2. CASE SyscallReturn(esp) /\ UNCHANGED <<pcbs, queue, saved, caller>>
    BY <2>2, SyscallReturnType DEF TypeOK, pcbs, queue
  <2> QED BY <1>5, <2>1, <2>2 DEF KFindFreePcb
<1>6. CASE ExecuteRefused
  BY <1>6, SyscallReturnType DEF ExecuteRefused, TypeOK, pcbs, queue
<1>7. CASE ReadDone
  BY <1>7, SyscallReturnType DEF ReadDone, TypeOK, pcbs, queue
<1>8. CASE Unwind
  <2>1. pcb_esp[cpu.arg] \in Addr
    BY <1>c DEF TypeOK
  <2> QED BY <2>1, <1>8, SyscallReturnType DEF Unwind, TypeOK, pcbs, queue
<1>9. CASE LoadDone
  <2>1. cpu' \in Cpu
    BY <1>9, <1>c, <1>n DEF LoadDone, Cpu, Points
  <2> QED BY <2>1, <1>9, <1>c DEF LoadDone, TypeOK, EmptyBottom, queue
<1>10. CASE SysExecute
  <2>1. cpu' \in Cpu
    BY <1>10, <1>c DEF SysExecute, TypeOK, Cpu, Points, KernelPoints
  <2> QED BY <2>1, <1>10, PushType DEF SysExecute, TypeOK, pcbs, queue
<1>11. ASSUME NEW kind \in {"syscall", "fault"}, NEW pc \in {"spin", "halt", "hang"},
              Push(kind), esp' = Above(esp, 1), Goto(pc), UNCHANGED <<pcbs, queue, saved, caller>>
       PROVE TypeInv'
  <2>1. cpu' \in Cpu
    BY <1>11, GotoType DEF TypeOK, Points, KernelPoints
  <2> QED BY <2>1, <1>11, PushType DEF TypeOK, pcbs, queue
<1>12. CASE SysRead \/ SysHalt \/ Fault
  BY <1>11, <1>12 DEF SysRead, SysHalt, Fault
<1>13. CASE free_current_pcb
  <2>1. cpu' \in Cpu
    BY <1>13, GotoType DEF free_current_pcb, TypeOK, Points, KernelPoints
  <2> QED BY <2>1, <1>13 DEF free_current_pcb, TypeOK, EmptyBottom, queue
<1>14. CASE HaltShell \/ HaltChild
  <2>1. cpu' \in Cpu
    BY <1>14 DEF HaltShell, HaltChild, TypeOK, Cpu, Points, KernelPoints
  <2> QED BY <2>1, <1>14 DEF HaltShell, HaltChild, TypeOK, EmptyBottom, pcbs, queue
<1>15. CASE SwitchToParent
  <2>1. cpu' \in Cpu
    BY <1>15, GotoType DEF SwitchToParent, TypeOK, Points, KernelPoints
  <2> QED BY <2>1, <1>15, <1>c, <1>n DEF SwitchToParent, switch_context, TypeOK, EmptyBottom, pcbs
<1>16. CASE SwitchTask
  <2>1. cpu' \in Cpu
    BY <1>16, <1>n DEF SwitchTask, Idle, Cpu, Points, KernelPoints
  <2> QED BY <2>1, <1>16, SaveContextType DEF SwitchTask, switch_context, TypeOK
<1>17. CASE LaunchShell
  <2>1. PICK p \in Pids : /\ present' = [present EXCEPT ![p] = TRUE]
                          /\ parent' = [parent EXCEPT ![p] = current_process]
                          /\ pcb_esp' = [SavedEsp EXCEPT ![p] = Null]
                          /\ current_process' = p
                          /\ caller' = [caller EXCEPT ![p] = Root]
                          /\ cpu' = [Idle EXCEPT !.pc = "kload", !.edi = current_process, !.arg = p]
    BY <1>17 DEF LaunchShell, switch_context
  <2>2. cpu' \in Cpu
    BY <2>1, <1>n DEF Idle, Cpu, Points, KernelPoints, TypeOK
  <2>3. SaveContext
    BY <1>17 DEF LaunchShell
  <2> QED BY <2>1, <2>2, <2>3, <1>n, SaveContextType DEF TypeOK
<1>18. CASE LaunchFails
  <2>1. cpu' \in Cpu
    BY <1>18 DEF LaunchFails, TypeOK, Cpu, Points
  <2> QED BY <2>1, <1>18, SaveContextType DEF LaunchFails, TypeOK
<1>19. CASE Resume
  <2> DEFINE a == pcb_esp[current_process]
  <2>1. a \in Addr
    BY DEF TypeOK
  <2>2. /\ kstack' \in [Pids0 -> [0 .. StackDepth -> Frame]]
        /\ EmptyBottom' /\ cpu' \in Cpu /\ esp' \in Addr
    <3>1. CASE FrameAt(a).kind = "tick" /\ PopTo(a, FrameAt(a).cpu)
      BY <2>1, <3>1, PopType
    <3>2. CASE Crash
      BY <3>2, CrashType
    <3> QED BY <1>19, <3>1, <3>2 DEF Resume
  <2> QED BY <2>2, <1>19, <1>n DEF Resume, TypeOK, pcbs, queue
<1>20. CASE UNCHANGED vars
  BY <1>20 DEF vars, pcbs, queue, TypeOK, EmptyBottom
<1>21. CASE Work
  BY <1>1, <1>2, <1>3, <1>4, <1>5, <1>6, <1>8, <1>9, <1>13, <1>14, <1>15, <1>21
     DEF Work, Points, KernelPoints
<1>22. CASE Tick \/ UserStep
  BY <1>7, <1>10, <1>12, <1>16, <1>17, <1>18, <1>22 DEF Tick, UserStep
<1> QED BY <1>19, <1>20, <1>21, <1>22 DEF Next

(* The tasking state keeps its types under every interleaving of ticks,     *)
(* system calls and faults; no pop leaves a stack pointer outside a stack.  *)
THEOREM TypeCorrect == Spec => []TypeOK
<1>1. Spec => []TypeInv
  BY TypeInvInit, TypeInvStep, PTL DEF Spec
<1> QED BY <1>1, PTL DEF TypeInv
-----------------------------------------------------------------------------
(* NeverBackToBoot.  A pid is good when it is a process and, unless halt    *)
(* treats it as a base shell, its PCB names a process as its parent.  Every *)
(* pid the kernel may switch to is good: the current one, the run queue,    *)
(* the parents of PCBs, and the pid held by any context on any stack that   *)
(* is about to call switch_context.                                         *)
Good(par, p) == p \in Pids /\ (p >= ShellLimit => par[p] # 0)

CtxGood(par, c) ==
  /\ c.pc \in {"claim", "kclaim"} => c.arg \in Pids
  /\ c.pc \in {"enter", "kenter", "parent"} => Good(par, c.arg)

FramesGood(par, ks) ==
  \A s \in Pids0, d \in 0 .. StackDepth : CtxGood(par, ks[s][d].cpu)

AtBoot == /\ cpu.pc = "boot"
          /\ \A p \in Pids : ~ present[p]
          /\ \A t \in Terms : processes[t] = 0

BootInv ==
  /\ current_process = 0 => AtBoot
  /\ current_process # 0 => Good(parent, current_process)
  /\ \A t \in Terms : processes[t] # 0 => Good(parent, processes[t])
  /\ \A p \in Pids : parent[p] # 0 => Good(parent, parent[p])
  /\ CtxGood(parent, cpu)
  /\ FramesGood(parent, kstack)

IInv == TypeInv /\ BootInv

(* At boot nothing can bring pid 0 back. *)
LEMMA BootInvInit == Init => BootInv
BY DEF Init, BootInv, AtBoot, CtxGood, FramesGood, Good, Idle, Junk, Pids0, Pids

(* Frames stay good when every process that was good still is. *)
LEMMA FramesGoodMono ==
  ASSUME NEW par, NEW par2, NEW ks, FramesGood(par, ks),
         \A p \in Pids : Good(par, p) => Good(par2, p)
  PROVE  FramesGood(par2, ks)
BY DEF FramesGood, CtxGood, Good

(* A stack stays good when a good frame is written on it, *)
LEMMA PushOnGood ==
  ASSUME IInv, NEW s \in Pids0, NEW d \in 1 .. StackDepth, NEW f \in Frame, CtxGood(parent, f.cpu)
  PROVE  FramesGood(parent, [kstack EXCEPT ![s] = PushOn(s, d, f)])
<1>1. CtxGood(parent, Junk.cpu)
  BY DEF CtxGood, Junk, Idle
<1>2. \A i \in 0 .. StackDepth : CtxGood(parent, PushOn(s, d, f)[i].cpu)
  BY <1>1 DEF PushOn, IInv, BootInv, FramesGood
<1> QED BY <1>2 DEF FramesGood, IInv, BootInv, TypeInv, TypeOK

(* so it does when the running context is pushed, *)
LEMMA PushGood ==
  ASSUME IInv, NEW kind \in {"syscall", "fault", "tick"}, Push(kind)
  PROVE  FramesGood(parent, kstack')
<1> DEFINE f == [kind |-> kind, cpu |-> cpu]
<1>1. esp.s \in Pids0 /\ esp.d + 1 \in 1 .. StackDepth
  BY TaskingConstants DEF IInv, TypeInv, TypeOK, Addr, Push
<1>2. f \in Frame /\ CtxGood(parent, f.cpu)
  BY DEF IInv, BootInv, TypeInv, TypeOK, Frame
<1>3. kstack' = [kstack EXCEPT ![esp.s] = PushOn(esp.s, esp.d + 1, f)]
  BY DEF Push
<1> HIDE DEF f
<1> QED BY <1>1, <1>2, <1>3, PushOnGood

(* when a frame is popped, which is then the running context, *)
LEMMA PopGood ==
  ASSUME IInv, NEW a \in Addr, FrameAt(a).kind # "junk", PopTo(a, FrameAt(a).cpu)
  PROVE  FramesGood(parent, kstack') /\ CtxGood(parent, cpu')
<1>1. a.s \in Pids0 /\ a.d \in 0 .. StackDepth /\ StackDepth \in Nat
  BY TaskingConstants DEF Addr
<1>2. a.d \in 1 .. StackDepth
  BY <1>1 DEF FrameAt, IInv, TypeInv, EmptyBottom, Junk
<1>3. Junk \in Frame /\ CtxGood(parent, Junk.cpu)
  BY ConstantFacts DEF CtxGood, Junk, Idle
<1>4. CtxGood(parent, cpu')
  BY <1>1 DEF PopTo, FrameAt, IInv, BootInv, FramesGood
<1> QED BY <1>1, <1>2, <1>3, <1>4, PushOnGood DEF PopTo

(* when the processor runs away, *)
LEMMA CrashGood ==
  ASSUME IInv, Crash
  PROVE  FramesGood(parent, kstack') /\ CtxGood(parent, cpu')
BY DEF Crash, IInv, BootInv, CtxGood, TypeInv, TypeOK, Cpu

(* and when a system call returns. *)
LEMMA SyscallReturnGood ==
  ASSUME IInv, NEW a \in Addr, SyscallReturn(a)
  PROVE  FramesGood(parent, kstack') /\ CtxGood(parent, cpu')
<1>1. CASE FrameAt(a).kind = "syscall" /\ PopTo(a, FrameAt(a).cpu)
  BY <1>1, PopGood
<1>2. CASE FrameAt(a).kind # "syscall" /\ Crash
  BY <1>2, CrashGood
<1> QED BY <1>1, <1>2 DEF SyscallReturn

(* Steps that leave the PCBs and the run queue alone. *)
LEMMA QuietStep ==
  ASSUME IInv, cpu.pc # "boot", UNCHANGED <<present, parent, processes, current_process>>,
         FramesGood(parent, kstack'), CtxGood(parent, cpu')
  PROVE  BootInv' /\ (current_process # 0 => current_process' # 0)
BY DEF IInv, BootInv, AtBoot

(* No action lets pid 0 come back. *)
LEMMA BootInvStep ==
  ASSUME IInv, [Next]_vars
  PROVE  BootInv' /\ (current_process # 0 => current_process' # 0)
<1> DEFINE Goal == BootInv' /\ (current_process # 0 => current_process' # 0)
<1> SUFFICES Goal
  OBVIOUS
<1>a. TypeInv /\ TypeOK /\ BootInv /\ CtxGood(parent, cpu) /\ FramesGood(parent, kstack)
      /\ cpu \in Cpu /\ esp \in Addr
  BY DEF IInv, BootInv, TypeInv, TypeOK
<1>1. ASSUME NEW from \in {"find", "kfind"}, NEW to \in {"claim", "kclaim"}, FindFreePcb(from, to)
      PROVE  Goal
  <2>1. CtxGood(parent, cpu')
    BY <1>1, <1>a DEF FindFreePcb, CtxGood, Cpu
  <2> QED BY <2>1, <1>1, <1>a, QuietStep DEF FindFreePcb, pcbs, queue
<1>2. ASSUME NEW from \in {"claim", "kclaim"}, NEW to \in {"enter", "kenter"}, ClaimPcb(from, to)
      PROVE  Goal
  <2>1. cpu.arg \in Pids /\ current_process # 0
    BY <1>2, <1>a DEF ClaimPcb, CtxGood, BootInv, AtBoot
  <2>2. /\ parent' = [parent EXCEPT ![cpu.arg] = current_process]
        /\ cpu' = [cpu EXCEPT !.pc = to]
        /\ UNCHANGED <<processes, current_process, kstack>>
    BY <1>2 DEF ClaimPcb, InitPcb, Goto, queue
  <2>3. \A p \in Pids : Good(parent, p) => Good(parent', p)
    BY <2>1, <2>2, <1>a DEF Good, TypeOK, Pids, Pids0
  <2>4. Good(parent', cpu.arg)
    BY <2>1, <2>2, <1>a DEF Good, TypeOK, Pids, Pids0
  <2>5. CtxGood(parent', cpu')
    BY <2>2, <2>4, <1>a DEF CtxGood, Cpu
  <2>6. FramesGood(parent', kstack')
    BY <2>2, <2>3, <1>a, FramesGoodMono
  <2>7. \A p \in Pids : parent'[p] # 0 => Good(parent', parent'[p])
    <3>1. Good(parent', current_process)
      BY <2>1, <2>3, <1>a DEF BootInv, Good
    <3> QED BY <3>1, <2>2, <2>3, <1>a DEF BootInv, Good, TypeOK, Pids, Pids0
  <2>8. \A t \in Terms : processes'[t] # 0 => Good(parent', processes'[t])
    BY <2>2, <2>3, <1>a DEF BootInv, Good
  <2> QED BY <2>1, <2>2, <2>3, <2>5, <2>6, <2>7, <2>8, <1>a DEF BootInv, Good
<1>3. ASSUME cpu.pc \in {"enter", "kenter", "parent"}, current_process' = cpu.arg,
             cpu'.pc \in {"load", "kload", "unwind"}, UNCHANGED <<pcbs, processes, kstack>>
      PROVE  Goal
  <2>1. Good(parent, current_process') /\ current_process' # 0
    BY <1>3, <1>a DEF CtxGood, Good, Pids
  <2>2. CtxGood(parent, cpu')
    BY <1>3 DEF CtxGood
  <2> QED BY <2>1, <2>2, <1>3, <1>a DEF BootInv, pcbs
<1>4. CASE EnterPcb \/ KEnterPcb \/ SwitchToParent
  BY <1>3, <1>4, <1>a DEF EnterPcb, KEnterPcb, SwitchToParent, switch_context, Goto, Cpu
<1>5. CASE KFindFreePcb
  <2>1. CASE FindFreePcb("kfind", "kclaim")
    BY <2>1, <1>1
  <2>2. CASE cpu.pc = "kfind" /\ SyscallReturn(esp) /\ UNCHANGED <<pcbs, queue, saved, caller>>
    BY <2>2, <1>a, SyscallReturnGood, QuietStep DEF pcbs, queue
  <2> QED BY <1>5, <2>1, <2>2 DEF KFindFreePcb
<1>6. CASE ExecuteRefused
  BY <1>6, <1>a, SyscallReturnGood, QuietStep DEF ExecuteRefused, pcbs, queue
<1>7. CASE ReadDone
  BY <1>7, <1>a, SyscallReturnGood, QuietStep DEF ReadDone, pcbs, queue
<1>8. CASE Unwind
  <2>1. pcb_esp[cpu.arg] \in Addr
    BY <1>a DEF TypeOK, Cpu
  <2> QED BY <2>1, <1>8, SyscallReturnGood, QuietStep DEF Unwind, pcbs, queue
<1>9. CASE LoadDone
  <2>1. CtxGood(parent, cpu')
    BY <1>9 DEF LoadDone, CtxGood
  <2> QED BY <2>1, <1>9, <1>a, QuietStep DEF LoadDone, queue
<1>10. CASE SysExecute
  <2>1. CtxGood(parent, cpu')
    BY <1>10, <1>a DEF SysExecute, CtxGood, Cpu
  <2> QED BY <2>1, <1>10, PushGood, QuietStep DEF SysExecute, pcbs, queue
<1>11. CASE SysRead \/ SysHalt \/ Fault
  <2>1. CtxGood(parent, cpu')
    BY <1>11, <1>a DEF SysRead, SysHalt, Fault, Goto, CtxGood, Cpu
  <2> QED BY <2>1, <1>11, PushGood, QuietStep DEF SysRead, SysHalt, Fault, pcbs, queue
<1>12. CASE free_current_pcb
  <2>1. CtxGood(parent, cpu') /\ current_process # 0
    BY <1>12, <1>a DEF free_current_pcb, Goto, CtxGood, Cpu, BootInv, AtBoot
  <2> QED BY <2>1, <1>12, <1>a DEF free_current_pcb, queue, BootInv
<1>13. CASE HaltShell
  <2>1. CtxGood(parent, cpu')
    BY <1>13, <1>a DEF HaltShell, CtxGood, Cpu
  <2> QED BY <2>1, <1>13, <1>a, QuietStep DEF HaltShell, pcbs, queue
<1>14. CASE HaltChild
  <2>1. current_process # 0 /\ Good(parent, current_process) /\ current_process \in Pids
    BY <1>14, <1>a DEF HaltChild, BootInv, AtBoot, Good
  <2>2. Good(parent, parent[current_process])
    BY <2>1, <1>14, <1>a DEF HaltChild, BootInv, Good
  <2>3. CtxGood(parent, cpu')
    BY <2>2, <1>14, <1>a DEF HaltChild, CtxGood, Cpu
  <2> QED BY <2>3, <1>14, <1>a, QuietStep DEF HaltChild, pcbs, queue
<1>t. ASSUME SaveContext
      PROVE  /\ FramesGood(parent, kstack')
             /\ current_process # 0 =>
                  \A t \in Terms : processes'[t] # 0 => Good(parent, processes'[t])
             /\ current_process = 0 => /\ \A t \in Terms : processes'[t] = 0
                                       /\ get_next_task_pid = 0
  <2>1. FramesGood(parent, kstack')
    BY <1>t, PushGood DEF SaveContext
  <2>2. NextTerm \in Terms /\ current_active_process \in Terms
    BY <1>a, NextTermInTerms DEF TypeOK
  <2> QED BY <2>1, <2>2, <1>t, <1>a
          DEF SaveContext, save_queue, get_next_task_pid, BootInv, AtBoot, TypeOK
<1>15. CASE SwitchTask
  <2>1. SaveContext /\ get_next_task_pid # 0 /\ current_process' = get_next_task_pid
        /\ UNCHANGED <<present, parent>> /\ cpu' = [Idle EXCEPT !.pc = "resume"]
    BY <1>15 DEF SwitchTask, switch_context
  <2>2. CtxGood(parent, cpu')
    BY <2>1 DEF CtxGood, Idle
  <2>3. Good(parent, get_next_task_pid)
    BY <2>1, <1>t, <1>a, NextTermInTerms DEF get_next_task_pid, SaveContext, TypeOK
  <2> QED BY <2>1, <2>2, <2>3, <1>t, <1>a DEF BootInv
<1>16. CASE LaunchShell
  <2>1. PICK p \in Pids : /\ find_free_pcb(p)
                          /\ parent' = [parent EXCEPT ![p] = current_process]
                          /\ current_process' = p
                          /\ cpu' = [Idle EXCEPT !.pc = "kload", !.edi = current_process, !.arg = p]
    BY <1>16 DEF LaunchShell, switch_context
  <2>2. SaveContext
    BY <1>16 DEF LaunchShell
  <2>3. current_process = 0 => p < ShellLimit
    BY <2>1, <1>a, TaskingConstants DEF BootInv, AtBoot, find_free_pcb, FreePids, Pids, ShellLimit
  <2>4. \A q \in Pids : Good(parent, q) => Good(parent', q)
    BY <2>1, <2>3, <1>a, TaskingConstants DEF Good, TypeOK, Pids, Pids0, ShellLimit
  <2>5. Good(parent', p)
    BY <2>1, <2>3, <1>a, TaskingConstants DEF Good, TypeOK, Pids, Pids0, ShellLimit
  <2>6. CtxGood(parent', cpu')
    BY <2>1 DEF CtxGood, Idle
  <2>7. FramesGood(parent', kstack')
    BY <2>2, <2>4, <1>t, FramesGoodMono
  <2>8. \A q \in Pids : parent'[q] # 0 => Good(parent', parent'[q])
    <3>1. current_process # 0 => Good(parent', current_process)
      BY <2>4, <1>a DEF BootInv, Good
    <3> QED BY <3>1, <2>1, <2>4, <1>a DEF BootInv, Good, TypeOK, Pids, Pids0
  <2>9. \A t \in Terms : processes'[t] # 0 => Good(parent', processes'[t])
    BY <2>2, <2>4, <1>t DEF Good
  <2>10. current_process' # 0
    BY <2>1 DEF Pids
  <2> QED BY <2>1, <2>5, <2>6, <2>7, <2>8, <2>9, <2>10 DEF BootInv
<1>17. CASE LaunchFails
  <2>1. SaveContext /\ UNCHANGED <<present, parent, current_process>>
        /\ cpu' = [cpu EXCEPT !.pc = "crashed"] /\ NoFreePcb
    BY <1>17 DEF LaunchFails
  <2>2. CtxGood(parent, cpu')
    BY <2>1, <1>a DEF CtxGood, Cpu
  <2>3. current_process # 0
    BY <2>1, <1>a, TaskingConstants DEF BootInv, AtBoot, NoFreePcb, FreePids, Pids
  <2> QED BY <2>1, <2>2, <2>3, <1>t, <1>a DEF BootInv
<1>18. CASE Resume
  <2> DEFINE a == pcb_esp[current_process]
  <2>1. a \in Addr
    BY <1>a DEF TypeOK
  <2>2. FramesGood(parent, kstack') /\ CtxGood(parent, cpu')
    <3>1. CASE FrameAt(a).kind = "tick" /\ PopTo(a, FrameAt(a).cpu)
      BY <2>1, <3>1, PopGood
    <3>2. CASE Crash
      BY <3>2, CrashGood
    <3> QED BY <1>18, <3>1, <3>2 DEF Resume
  <2> QED BY <2>2, <1>18, QuietStep DEF Resume, pcbs, queue
<1>19. CASE UNCHANGED vars
  BY <1>19, <1>a DEF vars, pcbs, queue, BootInv, AtBoot
<1>20. CASE Work
  BY <1>1, <1>2, <1>4, <1>5, <1>6, <1>8, <1>9, <1>12, <1>13, <1>14, <1>20 DEF Work
<1>21. CASE Tick \/ UserStep
  BY <1>7, <1>10, <1>11, <1>15, <1>16, <1>17, <1>21 DEF Tick, UserStep
<1> QED BY <1>18, <1>19, <1>20, <1>21 DEF Next

(* Whatever instant the PIT chooses, and although pids, parent fields and    *)
(* saved stacks are reused and may be overwritten, no halt and no task       *)
(* switch goes back to the boot code's pid 0.                                *)
THEOREM NeverBack == Spec => NeverBackToBoot
<1>1. IInv /\ [Next]_vars => IInv'
  BY TypeInvStep, BootInvStep DEF IInv
<1>2. Init => IInv
  BY TypeInvInit, BootInvInit DEF IInv
<1>3. IInv /\ [Next]_vars => [current_process # 0 => current_process' # 0]_vars
  BY BootInvStep
<1> QED BY <1>1, <1>2, <1>3, PTL DEF Spec, NeverBackToBoot
-----------------------------------------------------------------------------
(***************************************************************************)
(* What tasking keeps when the PIT spares the windows of execute and halt   *)
(* (ticks at SafePoints only) and no shell executes before every terminal   *)
(* has one: contexts and frames stay intact, halt returns to the caller,    *)
(* PCBs are accounted for, and Tasking implements ProcTree.  For any number *)
(* of terminals, PCBs and stack entries.                                    *)
(***************************************************************************)

(* The hypothesis of the theorems below.  Each window it leaves out breaks  *)
(* one of them: TaskingResumeRace, TaskingUnwindRace, TaskingClaimRace and  *)
(* TaskingEarlyExec show how.                                               *)
SafeTicks == TickPoints \subseteq SafePoints /\ EarlyExec = FALSE

UserCpu(p)   == [pc |-> "user", user |-> p, edi |-> 0, arg |-> 0]
CallFrame(p) == [kind |-> "syscall", cpu |-> UserCpu(p)]
At(s, n)     == [s |-> s, d |-> n]

SavedPoints == {"boot", "user", "spin", "hang"} \cup SafePoints
CallPoints  == {"spin", "find", "claim", "enter", "load"}
HaltPoints  == {"freed", "parent", "kfind", "kclaim"}
ExecPoints  == {"find", "claim", "enter", "load", "parent", "unwind"}

(* The stack a context runs on, and its depth.  execute goes on running on  *)
(* the stack of the caller after it has switched to the new process.        *)
StackOf(c, p) == IF c.pc = "load" THEN c.edi ELSE p
DepthOf(c)    == IF c.pc \in {"boot", "user"} THEN 0 ELSE 1

(* What holds of a context c of process p, running or preempted. *)
CtxOK(cal, par, ks, c, p) ==
  /\ c.pc = "boot" => p = 0 /\ c = Idle
  /\ c.pc # "boot" => p \in Pids
  /\ c.pc = "user" => c = UserCpu(p)
  /\ c.pc \in {"find", "claim", "enter"} => c.edi = p
  /\ c.pc = "enter" => /\ c.arg \in Pids /\ c.arg >= ShellLimit
                       /\ cal[c.arg] = Dead /\ par[c.arg] = p
  /\ c.pc = "load" => c.arg = p /\ c.edi = cal[p] /\ c.edi \in Pids
  /\ c.pc = "kenter" => c.arg = p /\ c.edi = p /\ cal[p] = Root
  /\ c.pc \in CallPoints => ks[StackOf(c, p)][1] = CallFrame(StackOf(c, p))

(* The running context, and what it holds between two safe points. *)
CpuInv ==
  /\ cpu.pc # "crashed"
  /\ cpu.pc # "resume" => CtxOK(caller, parent, kstack, cpu, current_process)
  /\ cpu.pc \notin {"resume", "kload", "unwind"} =>
       esp = At(StackOf(cpu, current_process), DepthOf(cpu))
  /\ cpu.pc = "claim" => cpu.arg \in Pids /\ ~ present[cpu.arg]
  /\ cpu.pc = "parent" => caller[current_process] \in Pids /\ cpu.arg = caller[current_process]
  /\ cpu.pc = "unwind" => /\ cpu.arg = current_process
                          /\ pcb_esp[current_process] = At(current_process, 1)
                          /\ kstack[current_process][1] = CallFrame(current_process)
  /\ cpu.pc \in {"kfind", "kclaim", "kload"} => caller[current_process] = Root
  /\ cpu.pc \in {"kfind", "kclaim"} => cpu.edi = current_process
  /\ cpu.pc \in {"kclaim", "kload"} => cpu.arg = current_process
  /\ cpu.pc = "kload" => cpu.edi = current_process \/ pcb_esp[cpu.edi] = esp
  /\ cpu.pc = "resume" => saved[current_active_process] # NoContext /\ current_process # 0

(* A preempted context is where the PCB points, on its own stack. *)
SavedOK(t) == LET c == saved[t].frame.cpu
                  p == Leaf(t) IN
  /\ t = current_active_process => cpu.pc = "resume"
  /\ saved[t].frame.kind = "tick" /\ c.pc \in SavedPoints
  /\ saved[t].at = At(StackOf(c, p), DepthOf(c) + 1)
  /\ pcb_esp[p] = saved[t].at
  /\ FrameAt(saved[t].at) = saved[t].frame
  /\ CtxOK(caller, parent, kstack, c, p)

SavedInv ==
  \A t \in Terms : /\ saved[t] # NoContext => SavedOK(t)
                   /\ saved[t] = NoContext => t = current_active_process \/ Leaf(t) = 0

(* The chains of callers: they end in the base shells, do not meet, and no  *)
(* program that waits for another is the leaf of a terminal.                *)
RootsAreShells == \A p \in Pids : caller[p] = Root => p < ShellLimit
Callers == \A p \in Pids : caller[p] \in Pids =>
  /\ p >= ShellLimit
  /\ caller[caller[p]] # Dead
  /\ parent[p] = caller[p]
  /\ \A t \in Terms : Leaf(t) # caller[p]
OneCallee == \A p, q \in Pids : caller[p] = caller[q] /\ caller[p] \in Pids => p = q
LeavesLive == \A t \in Terms : Leaf(t) # 0 => caller[Leaf(t)] # Dead
LeavesDiffer == \A t, u \in Terms : Leaf(t) # 0 /\ Leaf(t) = Leaf(u) => t = u

ChainInv == RootsAreShells /\ Callers /\ OneCallee /\ LeavesLive /\ LeavesDiffer

(* Which PCBs are present, and that two contexts never set up the same one. *)
Claims(c, p) == c.pc = "enter" /\ c.arg = p
Claimed(p)   == Claims(cpu, p) \/ \E t \in Terms : Claims(saved[t].frame.cpu, p)
Halting(p)   == p = current_process /\ cpu.pc \in HaltPoints

PresentInv == \A p \in Pids : present[p] <=> (caller[p] # Dead /\ ~ Halting(p)) \/ Claimed(p)

ClaimInv ==
  /\ \A p \in Pids, t \in Terms : ~ (Claims(cpu, p) /\ Claims(saved[t].frame.cpu, p))
  /\ \A p \in Pids, t, u \in Terms :
        Claims(saved[t].frame.cpu, p) /\ Claims(saved[u].frame.cpu, p) => t = u

(* A program that waits in execute. *)
WaitInv == \A q \in Pids : caller[q] \in Pids /\ ~ Loading(q) =>
  /\ pcb_esp[caller[q]] = At(caller[q], 1)
  /\ kstack[caller[q]][1] = CallFrame(caller[q])

(* The terminals get their shells one after the other, each tick the next,  *)
(* with the pids 1, 2, ... in that order; then every terminal has one and   *)
(* the base shells keep these pids.                                         *)
Launching ==
  /\ current_process \in 0 .. NUM_PROCESSES - 1
  /\ current_active_process = current_process
  /\ \A t \in Terms : processes[t] = IF 0 < t /\ t < current_process THEN t ELSE 0
  /\ \A p \in Pids : caller[p] = IF p <= current_process THEN Root ELSE Dead
  /\ cpu.pc \notin ExecPoints
  /\ \A t \in Terms : saved[t].frame.cpu.pc \notin ExecPoints
  /\ current_process = 0 => \A t \in Terms : saved[t] = NoContext

Up ==
  /\ current_process # 0
  /\ \A t \in Terms : t = current_active_process \/ processes[t] # 0
  /\ \A p \in 1 .. NUM_PROCESSES : caller[p] = Root

LaunchInv == Launching \/ Up

SafeInv == /\ TypeInv /\ CpuInv /\ SavedInv /\ ChainInv
           /\ PresentInv /\ ClaimInv /\ WaitInv /\ LaunchInv
-----------------------------------------------------------------------------
(* The invariant holds when the boot code enables interrupts. *)
LEMMA SafeInit == Init => SafeInv
<1> SUFFICES ASSUME Init PROVE SafeInv
  OBVIOUS
<1>1. TypeInv
  BY TypeInvInit
<1>2. /\ \A t \in Terms : Leaf(t) = 0 /\ saved[t] = NoContext
      /\ \A p \in Pids : caller[p] = Dead /\ ~ present[p]
      /\ cpu = Idle /\ esp = Null /\ current_process = 0 /\ current_active_process = 0
      /\ Idle.pc = "boot"
      /\ \A t \in Terms : processes[t] = 0
  BY ConstantFacts DEF Init, Leaf, Idle, Pids, Pids0
<1>3. CpuInv
  BY <1>2 DEF CpuInv, CtxOK, CallPoints, At, StackOf, DepthOf, Idle, Null
<1>4. SavedInv
  BY <1>2 DEF SavedInv
<1>5. ChainInv
  BY <1>2 DEF ChainInv, RootsAreShells, Callers, OneCallee, LeavesLive, LeavesDiffer, Dead, Root, Pids
<1>6. \A p \in Pids : ~ Claims(cpu, p) /\ \A t \in Terms : ~ Claims(saved[t].frame.cpu, p)
  BY <1>2 DEF Claims, Idle, NoContext, Junk
<1>7. PresentInv /\ ClaimInv
  BY <1>2, <1>6 DEF PresentInv, ClaimInv, Claimed
<1>8. WaitInv
  BY <1>2 DEF WaitInv, Dead, Pids
<1>9. LaunchInv
  BY <1>2, TaskingConstants DEF LaunchInv, Launching, ExecPoints, NoContext, Junk, Idle, Terms, Pids
<1> QED BY <1>1, <1>3, <1>4, <1>5, <1>7, <1>8, <1>9 DEF SafeInv
-----------------------------------------------------------------------------
(* Types the steps below keep using. *)
LEMMA LeafType ==
  ASSUME TypeInv
  PROVE  /\ \A t \in Terms : Leaf(t) \in Pids0
         /\ Leaf(current_active_process) = current_process
         /\ current_active_process \in Terms /\ current_process \in Pids0
         /\ \A p \in Pids : caller[p] \in Int
         /\ \A p \in Pids0 : p # 0 <=> p \in Pids
<1>1. current_active_process \in Terms /\ current_process \in Pids0
      /\ processes \in [Terms -> Pids0]
  BY DEF TypeInv, TypeOK
<1>2. \A p \in Pids : caller[p] \in Int
  BY TaskingConstants DEF TypeInv, TypeOK, Dead
<1>3. \A p \in Pids0 : p # 0 <=> p \in Pids
  BY TaskingConstants DEF Pids, Pids0
<1>4. /\ \A t \in Terms : Leaf(t) \in Pids0
      /\ Leaf(current_active_process) = current_process
  BY <1>1 DEF Leaf
<1> QED BY <1>1, <1>2, <1>3, <1>4

(* The contexts of two terminals are on different stacks. *)
LEMMA ContextsApart ==
  ASSUME TypeInv, ChainInv, NEW t \in Terms, NEW u \in Terms, t # u, Leaf(t) # 0,
         NEW c, NEW d,
         CtxOK(caller, parent, kstack, c, Leaf(t)), CtxOK(caller, parent, kstack, d, Leaf(u))
  PROVE  StackOf(c, Leaf(t)) # StackOf(d, Leaf(u))
<1>1. Leaf(t) \in Pids /\ (d.pc = "boot" => Leaf(u) = 0) /\ (d.pc # "boot" => Leaf(u) \in Pids)
  BY LeafType DEF CtxOK
<1>2. Leaf(t) # Leaf(u)
  BY DEF ChainInv, LeavesDiffer
<1>3. c.pc = "load" => StackOf(c, Leaf(t)) = caller[Leaf(t)] /\ caller[Leaf(t)] \in Pids
  BY DEF CtxOK, StackOf
<1>4. d.pc = "load" => StackOf(d, Leaf(u)) = caller[Leaf(u)] /\ caller[Leaf(u)] \in Pids
  BY DEF CtxOK, StackOf
<1>5. c.pc # "load" => StackOf(c, Leaf(t)) = Leaf(t)
  BY DEF StackOf
<1>6. d.pc # "load" => StackOf(d, Leaf(u)) = Leaf(u)
  BY DEF StackOf
<1>7. CASE c.pc = "load" /\ d.pc = "load"
  BY <1>1, <1>2, <1>3, <1>4, <1>7 DEF ChainInv, OneCallee
<1>8. CASE c.pc = "load" /\ d.pc # "load"
  BY <1>1, <1>3, <1>6, <1>8 DEF ChainInv, Callers
<1>9. CASE c.pc # "load" /\ d.pc = "load"
  BY <1>1, <1>4, <1>5, <1>9 DEF ChainInv, Callers
<1>10. CASE c.pc # "load" /\ d.pc # "load"
  BY <1>2, <1>5, <1>6, <1>10
<1> QED BY <1>7, <1>8, <1>9, <1>10

(* A program that waits in execute has its stack to itself, but for the     *)
(* context of the program it is loading.                                    *)
LEMMA WaiterApart ==
  ASSUME TypeInv, ChainInv, NEW t \in Terms, Leaf(t) # 0,
         NEW c, CtxOK(caller, parent, kstack, c, Leaf(t)),
         NEW q \in Pids, caller[q] \in Pids, ~ (c.pc = "load" /\ c.arg = q)
  PROVE  StackOf(c, Leaf(t)) # caller[q] /\ Leaf(t) # caller[q]
<1>1. Leaf(t) \in Pids
  BY LeafType
<1>2. Leaf(t) # caller[q]
  BY DEF ChainInv, Callers
<1>3. CASE c.pc = "load"
  <2>1. StackOf(c, Leaf(t)) = caller[Leaf(t)] /\ caller[Leaf(t)] \in Pids /\ Leaf(t) # q
    BY <1>3 DEF CtxOK, StackOf
  <2> QED BY <1>1, <1>2, <2>1 DEF ChainInv, OneCallee
<1>4. CASE c.pc # "load"
  BY <1>2, <1>4 DEF StackOf
<1> QED BY <1>3, <1>4

(* A context that is not touched stays well formed. *)
LEMMA CtxKept ==
  ASSUME NEW cal, NEW par, NEW ks, NEW cal2, NEW par2, NEW ks2, NEW c, NEW p,
         CtxOK(cal, par, ks, c, p),
         p \in Pids => cal2[p] = cal[p],
         c.pc = "enter" => cal2[c.arg] = cal[c.arg] /\ par2[c.arg] = par[c.arg],
         ks2[StackOf(c, p)] = ks[StackOf(c, p)]
  PROVE  CtxOK(cal2, par2, ks2, c, p)
BY DEF CtxOK, CallPoints

(* Nor does a preempted terminal lose anything by a step that leaves its    *)
(* PCB, its stack and its entries in the process tree alone.                *)
LEMMA SavedKept ==
  ASSUME TypeInv, NEW t \in Terms, saved[t] # NoContext, SavedOK(t), saved'[t] = saved[t],
         Leaf(t)' = Leaf(t), t = current_active_process' => cpu'.pc = "resume",
         pcb_esp'[Leaf(t)] = pcb_esp[Leaf(t)],
         kstack'[StackOf(saved[t].frame.cpu, Leaf(t))] = kstack[StackOf(saved[t].frame.cpu, Leaf(t))],
         Leaf(t) \in Pids => caller'[Leaf(t)] = caller[Leaf(t)],
         Claims(saved[t].frame.cpu, saved[t].frame.cpu.arg) =>
           /\ caller'[saved[t].frame.cpu.arg] = caller[saved[t].frame.cpu.arg]
           /\ parent'[saved[t].frame.cpu.arg] = parent[saved[t].frame.cpu.arg]
  PROVE  SavedOK(t)'
<1> DEFINE c == saved[t].frame.cpu
           p == Leaf(t)
<1>1. CtxOK(caller, parent, kstack, c, p)
  BY DEF SavedOK
<1>2. CtxOK(caller', parent', kstack', c, p)
  <2>1. c.pc = "enter" => caller'[c.arg] = caller[c.arg] /\ parent'[c.arg] = parent[c.arg]
    BY DEF Claims
  <2> HIDE DEF c, p
  <2> SUFFICES ASSUME kstack'[StackOf(c, p)] = kstack[StackOf(c, p)],
                      p \in Pids => caller'[p] = caller[p]
               PROVE  CtxOK(caller', parent', kstack', c, p)
    BY DEF c, p
  <2> QED BY <1>1, <2>1, CtxKept
<1>3. saved[t].at.s = StackOf(c, p)
  BY DEF SavedOK, At
<1>4. FrameAt(saved[t].at)' = saved'[t].frame
  BY <1>3 DEF FrameAt, SavedOK
<1> QED BY <1>2, <1>4 DEF SavedOK

(* The terminals that a step of the active one leaves alone: its own        *)
(* context is not saved, and the others are on other stacks.                *)
LEMMA OthersApart ==
  ASSUME SafeInv, cpu.pc \notin {"resume"}, NEW t \in Terms, saved[t] # NoContext
  PROVE  /\ t # current_active_process
         /\ Leaf(t) # current_process
         /\ StackOf(saved[t].frame.cpu, Leaf(t)) # StackOf(cpu, current_process)
         /\ StackOf(saved[t].frame.cpu, Leaf(t)) # current_process
         /\ StackOf(saved[t].frame.cpu, Leaf(t)) \in Pids0
         /\ SavedOK(t)
<1>1. SavedOK(t) /\ CtxOK(caller, parent, kstack, cpu, current_process)
  BY DEF SafeInv, SavedInv, CpuInv
<1>2. t # current_active_process
  BY <1>1 DEF SavedOK
<1>3. current_process # 0
  <2>1. current_process = 0 => Launching
    BY DEF SafeInv, LaunchInv, Up
  <2> QED BY <2>1 DEF Launching
<1>4. /\ Leaf(current_active_process) = current_process /\ current_active_process \in Terms
      /\ CtxOK(caller, parent, kstack, saved[t].frame.cpu, Leaf(t))
      /\ TypeInv /\ ChainInv
  BY <1>1, LeafType DEF SavedOK, SafeInv
<1>5. StackOf(cpu, current_process) # StackOf(saved[t].frame.cpu, Leaf(t))
  BY <1>1, <1>2, <1>3, <1>4, ContextsApart
<1>6. Leaf(t) # current_process
  BY <1>2, <1>3, <1>4 DEF ChainInv, LeavesDiffer
<1>7. StackOf(saved[t].frame.cpu, Leaf(t)) # current_process
  <2>1. CASE saved[t].frame.cpu.pc = "load"
    <3>1. /\ StackOf(saved[t].frame.cpu, Leaf(t)) = caller[Leaf(t)]
          /\ caller[Leaf(t)] \in Pids /\ Leaf(t) \in Pids
      BY <1>4, <2>1 DEF CtxOK, StackOf
    <3> QED BY <3>1, <1>4 DEF ChainInv, Callers
  <2>2. CASE saved[t].frame.cpu.pc # "load"
    BY <1>6, <2>2 DEF StackOf
  <2> QED BY <2>1, <2>2
<1>8. StackOf(saved[t].frame.cpu, Leaf(t)) \in Pids0
  BY <1>4, LeafType DEF CtxOK, StackOf, Pids, Pids0
<1> QED BY <1>1, <1>2, <1>5, <1>6, <1>7, <1>8

(* A step of the active terminal that stays on the stack of its process and *)
(* changes neither PCBs nor the run queue nor the process tree.             *)
LEMMA LocalStep ==
  ASSUME SafeInv, UNCHANGED <<present, parent, pcb_esp, processes, current_process,
                              current_active_process, saved, caller>>,
         cpu.pc \notin {"resume", "load", "enter"}, cpu'.pc \notin {"resume", "load", "enter"},
         cpu.pc \in HaltPoints <=> cpu'.pc \in HaltPoints,
         \A s \in Pids0 : s # current_process => kstack'[s] = kstack[s],
         Launching => cpu'.pc \notin ExecPoints
  PROVE  SavedInv' /\ ChainInv' /\ PresentInv' /\ ClaimInv' /\ WaitInv' /\ LaunchInv'
<1>1. \A t \in Terms : Leaf(t)' = Leaf(t)
  BY DEF Leaf
<1>2. SavedInv'
  <2> SUFFICES ASSUME NEW t \in Terms
               PROVE  /\ saved'[t] # NoContext => SavedOK(t)'
                      /\ saved'[t] = NoContext => t = current_active_process' \/ Leaf(t)' = 0
    BY DEF SavedInv
  <2>1. ASSUME saved[t] # NoContext PROVE SavedOK(t)'
    <3>1. /\ t # current_active_process /\ SavedOK(t)
          /\ kstack'[StackOf(saved[t].frame.cpu, Leaf(t))] = kstack[StackOf(saved[t].frame.cpu, Leaf(t))]
      BY <2>1, OthersApart
    <3> QED BY <1>1, <2>1, <3>1, SavedKept DEF SafeInv
  <2> QED BY <1>1, <2>1 DEF SafeInv, SavedInv
<1>3. ChainInv'
  BY <1>1 DEF SafeInv, ChainInv, RootsAreShells, Callers, OneCallee, LeavesLive, LeavesDiffer
<1>4. PresentInv'
  BY DEF SafeInv, PresentInv, Halting, Claimed, Claims
<1>5. ClaimInv'
  BY DEF SafeInv, ClaimInv, Claims
<1>6. WaitInv'
  <2> SUFFICES ASSUME NEW q \in Pids, caller[q] \in Pids, ~ Loading(q)'
               PROVE  /\ pcb_esp[caller[q]] = At(caller[q], 1)
                      /\ kstack'[caller[q]][1] = CallFrame(caller[q])
    BY DEF WaitInv
  <2>1. ~ Loading(q)
    BY DEF Loading
  <2>2. current_process # caller[q]
    BY LeafType DEF SafeInv, ChainInv, Callers
  <2>3. kstack'[caller[q]] = kstack[caller[q]]
    BY <2>2 DEF Pids, Pids0
  <2> QED BY <2>1, <2>3 DEF SafeInv, WaitInv
<1>7. LaunchInv'
  BY DEF SafeInv, LaunchInv, Launching, Up
<1> QED BY <1>2, <1>3, <1>4, <1>5, <1>6, <1>7

(* Stores to a stack change that stack only. *)
LEMMA PushEffect ==
  ASSUME TypeInv, NEW kind, Push(kind), NEW s \in Pids0, NEW n \in 0 .. StackDepth, esp = At(s, n)
  PROVE  /\ \A r \in Pids0 : r # s => kstack'[r] = kstack[r]
         /\ n + 1 \in 1 .. StackDepth
         /\ kstack'[s][n + 1] = [kind |-> kind, cpu |-> cpu]
         /\ \A i \in 0 .. n : kstack'[s][i] = kstack[s][i]
         /\ Above(esp, 1) = At(s, n + 1)
<1>1. esp.s = s /\ esp.d = n /\ n + 1 \in 1 .. StackDepth
  BY TaskingConstants DEF At, Push
<1> DEFINE f == [kind |-> kind, cpu |-> cpu]
<1>2. kstack' = [kstack EXCEPT ![s] = PushOn(s, n + 1, f)]
  BY <1>1 DEF Push
<1>3. kstack'[s] = PushOn(s, n + 1, f)
  BY <1>2 DEF TypeInv, TypeOK
<1> HIDE DEF f
<1>4. kstack'[s][n + 1] = f /\ \A i \in 0 .. n : kstack'[s][i] = kstack[s][i]
  BY <1>1, <1>3, TaskingConstants DEF PushOn
<1>5. \A r \in Pids0 : r # s => kstack'[r] = kstack[r]
  BY <1>2 DEF TypeInv, TypeOK
<1>6. Above(esp, 1) = At(s, n + 1)
  BY DEF Above, At
<1> QED BY <1>1, <1>4, <1>5, <1>6 DEF f

(* The return of a system call whose frame is intact. *)
LEMMA ReturnEffect ==
  ASSUME TypeInv, NEW p \in Pids0, kstack[p][1] = CallFrame(p), SyscallReturn(At(p, 1))
  PROVE  /\ cpu' = UserCpu(p) /\ esp' = At(current_process, 0)
         /\ \A r \in Pids0 : r # p => kstack'[r] = kstack[r]
<1>1. FrameAt(At(p, 1)) = CallFrame(p)
  BY DEF FrameAt, At
<1>2. PopTo(At(p, 1), UserCpu(p))
  BY <1>1 DEF SyscallReturn, CallFrame
<1>3. UserCpu(p).pc = "user" /\ At(p, 1).s = p
  BY DEF UserCpu, At
<1> QED BY <1>2, <1>3 DEF PopTo, At, TypeInv, TypeOK
-----------------------------------------------------------------------------
(* A program enters the kernel: its stack is empty and gets the frame of    *)
(* the call.                                                                *)
LEMMA UserEntry ==
  ASSUME SafeInv, cpu.pc = "user", NEW kind, Push(kind)
  PROVE  /\ cpu = UserCpu(current_process) /\ current_process \in Pids
         /\ kstack'[current_process][1] = [kind |-> kind, cpu |-> UserCpu(current_process)]
         /\ Above(esp, 1) = At(current_process, 1)
         /\ \A s \in Pids0 : s # current_process => kstack'[s] = kstack[s]
<1>1. /\ cpu = UserCpu(current_process) /\ current_process \in Pids
      /\ esp = At(current_process, 0)
  BY DEF SafeInv, CpuInv, CtxOK, StackOf, DepthOf
<1>2. current_process \in Pids0 /\ 0 \in 0 .. StackDepth /\ 0 + 1 = 1
  BY <1>1, TaskingConstants DEF Pids, Pids0
<1>3. TypeInv
  BY DEF SafeInv
<1> QED BY <1>1, <1>2, <1>3, PushEffect

(* The system calls and the exceptions of user programs. *)
LEMMA SysExecuteSafe ==
  ASSUME SafeTicks, SafeInv, SysExecute
  PROVE  CpuInv' /\ SavedInv' /\ ChainInv' /\ PresentInv' /\ ClaimInv' /\ WaitInv' /\ LaunchInv'
<1> DEFINE p == current_process
<1>1. /\ cpu = UserCpu(p) /\ p \in Pids /\ Above(esp, 1) = At(p, 1)
      /\ kstack'[p][1] = CallFrame(p)
      /\ \A s \in Pids0 : s # p => kstack'[s] = kstack[s]
  BY UserEntry DEF SysExecute, CallFrame
<1>2. /\ cpu'.pc = "find" /\ cpu'.edi = p /\ esp' = At(p, 1) /\ cpu.pc = "user"
      /\ UNCHANGED <<present, parent, pcb_esp, processes, current_process,
                     current_active_process, saved, caller>>
  BY <1>1 DEF SysExecute, UserCpu, pcbs, queue
<1>3. ~ Launching
  <2> SUFFICES ASSUME Launching PROVE FALSE
    OBVIOUS
  <2>1. p \in 1 .. NUM_PROCESSES - 1 /\ 0 \in Terms /\ processes[0] = 0 /\ current_active_process = p
    BY <1>1, TaskingConstants DEF Launching, Pids, Terms
  <2> QED BY <2>1 DEF SysExecute, AllLaunched, SafeTicks
<1>4. CpuInv'
  BY <1>1, <1>2 DEF CpuInv, CtxOK, CallPoints, StackOf, DepthOf
<1>5. SavedInv' /\ ChainInv' /\ PresentInv' /\ ClaimInv' /\ WaitInv' /\ LaunchInv'
  BY <1>1, <1>2, <1>3, LocalStep DEF HaltPoints
<1> QED BY <1>4, <1>5

(* A read, a halt or a fault. *)
LEMMA EntrySafe ==
  ASSUME SafeInv, SysRead \/ SysHalt \/ Fault
  PROVE  CpuInv' /\ SavedInv' /\ ChainInv' /\ PresentInv' /\ ClaimInv' /\ WaitInv' /\ LaunchInv'
<1> DEFINE p == current_process
<1>1. PICK kind \in {"syscall", "fault"}, pc \in {"spin", "halt", "hang"} :
         /\ cpu.pc = "user" /\ Push(kind) /\ esp' = Above(esp, 1) /\ cpu' = [cpu EXCEPT !.pc = pc]
         /\ pc = "spin" => kind = "syscall"
         /\ UNCHANGED <<present, parent, pcb_esp, processes, current_process,
                        current_active_process, saved, caller>>
  BY DEF SysRead, SysHalt, Fault, Goto, pcbs, queue
<1>2. /\ cpu = UserCpu(p) /\ p \in Pids /\ Above(esp, 1) = At(p, 1)
      /\ kstack'[p][1] = [kind |-> kind, cpu |-> UserCpu(p)]
      /\ \A s \in Pids0 : s # p => kstack'[s] = kstack[s]
  BY <1>1, UserEntry
<1>3. cpu'.pc = pc
  BY <1>1, <1>2 DEF UserCpu
<1>4. pc = "spin" => kstack'[p][1] = CallFrame(p)
  BY <1>1, <1>2 DEF CallFrame
<1>5. CpuInv'
  BY <1>1, <1>2, <1>3, <1>4 DEF CpuInv, CtxOK, CallPoints, StackOf, DepthOf
<1>6. SavedInv' /\ ChainInv' /\ PresentInv' /\ ClaimInv' /\ WaitInv' /\ LaunchInv'
  BY <1>1, <1>2, <1>3, LocalStep DEF HaltPoints, ExecPoints
<1> QED BY <1>5, <1>6

(* A system call returns to the program that made it: a read, an execute    *)
(* that was refused, and the parent's execute when halt has unwound to it.  *)
LEMMA ReturnSafe ==
  ASSUME SafeInv, ReadDone \/ ExecuteRefused \/ Unwind
  PROVE  CpuInv' /\ SavedInv' /\ ChainInv' /\ PresentInv' /\ ClaimInv' /\ WaitInv' /\ LaunchInv'
<1> DEFINE p == current_process
<1>1. /\ cpu.pc \in {"spin", "find", "unwind"}
      /\ SyscallReturn(IF cpu.pc = "unwind" THEN pcb_esp[cpu.arg] ELSE esp)
      /\ UNCHANGED <<present, parent, pcb_esp, processes, current_process,
                     current_active_process, saved, caller>>
  BY DEF ReadDone, ExecuteRefused, Unwind, pcbs, queue
<1>2. /\ p \in Pids /\ kstack[p][1] = CallFrame(p)
      /\ (IF cpu.pc = "unwind" THEN pcb_esp[cpu.arg] ELSE esp) = At(p, 1)
  BY <1>1 DEF SafeInv, CpuInv, CtxOK, CallPoints, StackOf, DepthOf
<1>3. p \in Pids0 /\ TypeInv /\ SyscallReturn(At(p, 1))
  BY <1>1, <1>2 DEF SafeInv, Pids, Pids0
<1>4. /\ cpu' = UserCpu(p) /\ esp' = At(p, 0)
      /\ \A r \in Pids0 : r # p => kstack'[r] = kstack[r]
  BY <1>2, <1>3, ReturnEffect
<1>5. cpu'.pc = "user"
  BY <1>4 DEF UserCpu
<1>6. CpuInv'
  BY <1>1, <1>2, <1>4, <1>5 DEF CpuInv, CtxOK, CallPoints, StackOf, DepthOf
<1>7. SavedInv' /\ ChainInv' /\ PresentInv' /\ ClaimInv' /\ WaitInv' /\ LaunchInv'
  BY <1>1, <1>4, <1>5, LocalStep DEF HaltPoints, ExecPoints
<1> QED BY <1>6, <1>7

(* execute finds a free PCB, above those of the base shells. *)
LEMMA FindSafe ==
  ASSUME SafeInv, FindFreePcb("find", "claim")
  PROVE  CpuInv' /\ SavedInv' /\ ChainInv' /\ PresentInv' /\ ClaimInv' /\ WaitInv' /\ LaunchInv'
<1> DEFINE p == current_process
<1>1. PICK q \in Pids : ~ present[q] /\ cpu' = [cpu EXCEPT !.pc = "claim", !.arg = q]
  BY DEF FindFreePcb, find_free_pcb, FreePids
<1>2. /\ cpu.pc = "find" /\ cpu \in Cpu
      /\ UNCHANGED <<present, parent, pcb_esp, processes, current_process,
                     current_active_process, saved, caller, esp, kstack>>
  BY DEF FindFreePcb, pcbs, queue, SafeInv, TypeInv, TypeOK
<1>3. cpu'.pc = "claim" /\ cpu'.arg = q /\ cpu'.edi = cpu.edi
  BY <1>1, <1>2 DEF Cpu
<1>4. p \in Pids /\ cpu.edi = p /\ kstack[p][1] = CallFrame(p) /\ esp = At(p, 1)
  BY <1>2 DEF SafeInv, CpuInv, CtxOK, CallPoints, StackOf, DepthOf
<1>5. CpuInv'
  BY <1>1, <1>2, <1>3, <1>4 DEF CpuInv, CtxOK, CallPoints, StackOf, DepthOf
<1>6. ~ Launching
  BY <1>2 DEF Launching, ExecPoints
<1>7. SavedInv' /\ ChainInv' /\ PresentInv' /\ ClaimInv' /\ WaitInv' /\ LaunchInv'
  BY <1>2, <1>3, <1>6, LocalStep DEF HaltPoints
<1> QED BY <1>5, <1>7
-----------------------------------------------------------------------------
(* The caller of the current process tells a base shell from the others. *)
LEMMA CurrentCaller ==
  ASSUME SafeInv, current_process \in Pids
  PROVE  /\ current_process < ShellLimit => caller[current_process] = Root
         /\ current_process >= ShellLimit => /\ caller[current_process] \in Pids
                                             /\ parent[current_process] = caller[current_process]
<1> DEFINE p == current_process
<1>1. caller[p] # Dead
  <2>1. p # 0
    BY DEF Pids
  <2> QED BY <2>1, LeafType DEF SafeInv, ChainInv, LeavesLive
<1>2. caller[p] = Root \/ caller[p] \in Pids
  BY <1>1, TaskingConstants DEF SafeInv, TypeInv, TypeOK, Dead, Root, Pids
<1>3. p \in Int /\ ShellLimit \in Int
  BY TaskingConstants DEF Pids, ShellLimit
<1>4. caller[p] = Root => p < ShellLimit
  BY DEF SafeInv, ChainInv, RootsAreShells
<1>5. caller[p] \in Pids => p >= ShellLimit /\ parent[p] = caller[p]
  BY DEF SafeInv, ChainInv, Callers
<1> QED BY <1>2, <1>3, <1>4, <1>5

(* No context claims a PCB whose process is alive. *)
LEMMA ClaimedDead ==
  ASSUME SafeInv, NEW p \in Pids, Claimed(p)
  PROVE  caller[p] = Dead
<1>1. CASE Claims(cpu, p)
  BY <1>1 DEF Claims, SafeInv, CpuInv, CtxOK
<1>2. ASSUME NEW t \in Terms, Claims(saved[t].frame.cpu, p) PROVE caller[p] = Dead
  <2>1. saved[t] # NoContext
    BY <1>2 DEF Claims, NoContext, Junk, Idle
  <2>2. CtxOK(caller, parent, kstack, saved[t].frame.cpu, Leaf(t))
    BY <2>1 DEF SafeInv, SavedInv, SavedOK
  <2> QED BY <1>2, <2>2 DEF Claims, CtxOK
<1> QED BY <1>1, <1>2 DEF Claimed

(* When a base shell has been freed, its PCB is the first free one. *)
LEMMA FreedShell ==
  ASSUME SafeInv, cpu.pc = "kfind"
  PROVE  /\ current_process \in Pids
         /\ \A q \in Pids : find_free_pcb(q) => q = current_process
         /\ ~ NoFreePcb
<1> DEFINE p == current_process
<1>1. p \in Pids /\ caller[p] = Root
  BY DEF SafeInv, CpuInv, CtxOK
<1>2. p < ShellLimit
  BY <1>1 DEF SafeInv, ChainInv, RootsAreShells
<1>3. \A q \in Pids : q < p => caller[q] = Root
  <2>1. CASE Launching
    BY <1>1, <2>1 DEF Launching, Pids
  <2>2. CASE Up
    BY <1>1, <1>2, <2>2, TaskingConstants DEF Up, Pids, ShellLimit
  <2> QED BY <2>1, <2>2 DEF SafeInv, LaunchInv
<1>4. \A q \in Pids : q < p => present[q]
  BY <1>1, <1>3 DEF SafeInv, PresentInv, Halting, Root, Dead, Pids
<1>5. ~ Claimed(p)
  BY <1>1, ClaimedDead DEF Root, Dead
<1>6. ~ present[p]
  BY <1>1, <1>5 DEF SafeInv, PresentInv, Halting, HaltPoints
<1>7. p \in FreePids
  BY <1>1, <1>6 DEF FreePids
<1>8. ASSUME NEW q \in Pids, find_free_pcb(q) PROVE q = p
  BY <1>1, <1>4, <1>7, <1>8 DEF find_free_pcb, FreePids, Pids
<1> QED BY <1>1, <1>7, <1>8 DEF NoFreePcb

(* kexecute after a shell's halt takes the PCB just freed. *)
LEMMA KFindSafe ==
  ASSUME SafeInv, KFindFreePcb
  PROVE  CpuInv' /\ SavedInv' /\ ChainInv' /\ PresentInv' /\ ClaimInv' /\ WaitInv' /\ LaunchInv'
<1> DEFINE p == current_process
<1>1. cpu.pc = "kfind" /\ cpu \in Cpu
  BY DEF KFindFreePcb, SafeInv, TypeInv, TypeOK
<1>2. FindFreePcb("kfind", "kclaim")
  BY <1>1, FreedShell DEF KFindFreePcb
<1>3. /\ cpu' = [cpu EXCEPT !.pc = "kclaim", !.arg = p] /\ p \in Pids
      /\ UNCHANGED <<present, parent, pcb_esp, processes, current_process,
                     current_active_process, saved, caller, esp, kstack>>
  BY <1>1, <1>2, FreedShell DEF FindFreePcb, pcbs, queue
<1>4. cpu'.pc = "kclaim" /\ cpu'.arg = p /\ cpu'.edi = cpu.edi
  BY <1>1, <1>3 DEF Cpu
<1>5. caller[p] = Root /\ cpu.edi = p /\ esp = At(p, 1)
  BY <1>1 DEF SafeInv, CpuInv, StackOf, DepthOf
<1>6. CpuInv'
  BY <1>3, <1>4, <1>5 DEF CpuInv, CtxOK, CallPoints, StackOf, DepthOf
<1>7. SavedInv' /\ ChainInv' /\ PresentInv' /\ ClaimInv' /\ WaitInv' /\ LaunchInv'
  BY <1>1, <1>3, <1>4, LocalStep DEF HaltPoints, ExecPoints
<1> QED BY <1>6, <1>7

(* halt decides between a base shell and a program with a caller. *)
LEMMA HaltSafe ==
  ASSUME SafeInv, HaltShell \/ HaltChild
  PROVE  CpuInv' /\ SavedInv' /\ ChainInv' /\ PresentInv' /\ ClaimInv' /\ WaitInv' /\ LaunchInv'
<1> DEFINE p == current_process
<1>1. /\ cpu.pc = "freed" /\ cpu \in Cpu
      /\ UNCHANGED <<present, parent, pcb_esp, processes, current_process,
                     current_active_process, saved, caller, esp, kstack>>
  BY DEF HaltShell, HaltChild, SafeInv, TypeInv, TypeOK, pcbs, queue
<1>2. p \in Pids /\ esp = At(p, 1)
  BY <1>1 DEF SafeInv, CpuInv, CtxOK, StackOf, DepthOf
<1>3. CASE HaltShell
  <2>1. cpu'.pc = "kfind" /\ cpu'.edi = p /\ caller[p] = Root
    BY <1>1, <1>2, <1>3, CurrentCaller DEF HaltShell, Cpu
  <2>2. CpuInv'
    BY <1>1, <1>2, <2>1 DEF CpuInv, CtxOK, CallPoints, StackOf, DepthOf
  <2> QED BY <1>1, <2>1, <2>2, LocalStep DEF HaltPoints, ExecPoints
<1>4. CASE HaltChild
  <2>1. cpu'.pc = "parent" /\ cpu'.arg = caller[p] /\ caller[p] \in Pids
    BY <1>1, <1>2, <1>4, CurrentCaller DEF HaltChild, Cpu
  <2>2. CpuInv'
    BY <1>1, <1>2, <2>1 DEF CpuInv, CtxOK, CallPoints, StackOf, DepthOf
  <2>3. ~ Launching
    BY <1>4, TaskingConstants DEF HaltChild, Launching, ShellLimit
  <2> QED BY <1>1, <2>1, <2>2, <2>3, LocalStep DEF HaltPoints
<1> QED BY <1>3, <1>4
-----------------------------------------------------------------------------
(* The preempted terminals, when the active one changes PCBs or the process *)
(* tree: what it changes belongs to none of them.                           *)
LEMMA OthersSaved ==
  ASSUME SafeInv, cpu.pc # "resume", cpu'.pc # "resume",
         UNCHANGED <<processes, current_active_process, saved, kstack>>,
         \A t \in Terms : saved[t] # NoContext =>
            /\ pcb_esp'[Leaf(t)] = pcb_esp[Leaf(t)]
            /\ Leaf(t) \in Pids => caller'[Leaf(t)] = caller[Leaf(t)],
         \A t \in Terms, p \in Pids : Claims(saved[t].frame.cpu, p) =>
            caller'[p] = caller[p] /\ parent'[p] = parent[p]
  PROVE  SavedInv'
<1> SUFFICES ASSUME NEW t \in Terms
             PROVE  /\ saved'[t] # NoContext => SavedOK(t)'
                    /\ saved'[t] = NoContext => t = current_active_process' \/ Leaf(t)' = 0
  BY DEF SavedInv
<1>1. t # current_active_process => Leaf(t)' = Leaf(t)
  BY DEF Leaf
<1>2. ASSUME saved[t] # NoContext PROVE SavedOK(t)'
  <2>1. t # current_active_process /\ SavedOK(t) /\ TypeInv
    BY <1>2, OthersApart DEF SafeInv
  <2>2. Claims(saved[t].frame.cpu, saved[t].frame.cpu.arg) =>
          /\ caller'[saved[t].frame.cpu.arg] = caller[saved[t].frame.cpu.arg]
          /\ parent'[saved[t].frame.cpu.arg] = parent[saved[t].frame.cpu.arg]
    BY <2>1 DEF Claims, SavedOK, CtxOK
  <2> QED BY <1>1, <1>2, <2>1, <2>2, SavedKept
<1> QED BY <1>1, <1>2 DEF SafeInv, SavedInv

(* A preempted terminal's process is not the current one. *)
LEMMA OtherLeaves ==
  ASSUME SafeInv, NEW t \in Terms, t # current_active_process, current_process # 0
  PROVE  Leaf(t) # current_process /\ Leaf(t) = processes[t] /\ Leaf(t) \in Pids0
BY LeafType DEF SafeInv, ChainInv, LeavesDiffer, Leaf

(* halt frees the PCB of the process that called it. *)
LEMMA FreeSafe ==
  ASSUME SafeInv, free_current_pcb
  PROVE  CpuInv' /\ SavedInv' /\ ChainInv' /\ PresentInv' /\ ClaimInv' /\ WaitInv' /\ LaunchInv'
<1> DEFINE p == current_process
<1>1. /\ cpu.pc = "halt" /\ cpu \in Cpu
      /\ present' = [present EXCEPT ![p] = FALSE]
      /\ UNCHANGED <<parent, pcb_esp, processes, current_process,
                     current_active_process, saved, caller, esp, kstack>>
  BY DEF free_current_pcb, SafeInv, TypeInv, TypeOK, queue
<1>2. cpu'.pc = "freed"
  BY <1>1 DEF free_current_pcb, Goto, Cpu
<1>3. p \in Pids /\ esp = At(p, 1) /\ present \in [Pids0 -> BOOLEAN] /\ p \in Pids0
  BY <1>1, LeafType DEF SafeInv, CpuInv, CtxOK, StackOf, DepthOf, TypeInv, TypeOK
<1>4. CpuInv'
  BY <1>1, <1>2, <1>3 DEF CpuInv, CtxOK, CallPoints, StackOf, DepthOf
<1>5. SavedInv'
  BY <1>1, <1>2, OthersSaved
<1>6. \A t \in Terms : Leaf(t)' = Leaf(t)
  BY <1>1 DEF Leaf
<1>7. ChainInv'
  BY <1>1, <1>6 DEF SafeInv, ChainInv, RootsAreShells, Callers, OneCallee, LeavesLive, LeavesDiffer
<1>8. \A q \in Pids : Claimed(q)' <=> Claimed(q)
  BY <1>1, <1>2 DEF Claimed, Claims
<1>9. PresentInv'
  <2> SUFFICES ASSUME NEW q \in Pids
               PROVE  present'[q] <=> (caller'[q] # Dead /\ ~ Halting(q)') \/ Claimed(q)'
    BY DEF PresentInv
  <2>1. CASE q = p
    <3>1. caller[p] # Dead
      BY <1>3, LeafType DEF SafeInv, ChainInv, LeavesLive, Pids
    <3>2. ~ Claimed(p)
      BY <1>3, <3>1, ClaimedDead
    <3> QED BY <1>1, <1>2, <1>3, <1>8, <2>1, <3>2 DEF Halting, HaltPoints
  <2>2. CASE q # p
    <3>1. present'[q] <=> present[q]
      BY <1>1, <1>3, <2>2 DEF Pids, Pids0
    <3> QED BY <1>1, <1>8, <2>2, <3>1 DEF SafeInv, PresentInv, Halting
  <2> QED BY <2>1, <2>2
<1>10. ClaimInv'
  BY <1>1, <1>2 DEF SafeInv, ClaimInv, Claims
<1>11. \A q \in Pids : Loading(q)' <=> Loading(q)
  BY <1>1, <1>2 DEF Loading
<1>12. WaitInv'
  BY <1>1, <1>11 DEF SafeInv, WaitInv
<1>13. LaunchInv'
  BY <1>1, <1>2 DEF SafeInv, LaunchInv, Launching, Up, ExecPoints
<1> QED BY <1>4, <1>5, <1>7, <1>9, <1>10, <1>12, <1>13

(* execute stores the new PCB in the free one it found. *)
LEMMA ClaimSafe ==
  ASSUME SafeInv, ClaimPcb("claim", "enter")
  PROVE  CpuInv' /\ SavedInv' /\ ChainInv' /\ PresentInv' /\ ClaimInv' /\ WaitInv' /\ LaunchInv'
<1> DEFINE p == current_process
           q == cpu.arg
<1>1. /\ cpu.pc = "claim" /\ cpu \in Cpu
      /\ cpu' = [cpu EXCEPT !.pc = "enter"]
      /\ present' = [present EXCEPT ![q] = TRUE]
      /\ parent' = [parent EXCEPT ![q] = p]
      /\ pcb_esp' = [pcb_esp EXCEPT ![q] = Null]
      /\ UNCHANGED <<processes, current_process, current_active_process, saved, caller, esp, kstack>>
  BY DEF ClaimPcb, InitPcb, Goto, SafeInv, TypeInv, TypeOK, queue
<1>2. cpu'.pc = "enter" /\ cpu'.arg = q /\ cpu'.edi = cpu.edi
  BY <1>1 DEF Cpu
<1>3. /\ p \in Pids /\ esp = At(p, 1) /\ cpu.edi = p /\ kstack[p][1] = CallFrame(p)
      /\ q \in Pids /\ ~ present[q]
  BY <1>1 DEF SafeInv, CpuInv, CtxOK, CallPoints, StackOf, DepthOf
<1>4. /\ present \in [Pids0 -> BOOLEAN] /\ parent \in [Pids0 -> Pids0] /\ pcb_esp \in [Pids0 -> Addr]
      /\ p \in Pids0 /\ q \in Pids0 /\ Pids \subseteq Pids0
  BY <1>3 DEF SafeInv, TypeInv, TypeOK, Pids, Pids0
<1>5. caller[q] = Dead /\ ~ Claimed(q)
  BY <1>1, <1>3 DEF SafeInv, PresentInv, Halting, HaltPoints
<1>6. Up
  BY <1>1 DEF SafeInv, LaunchInv, Launching, ExecPoints
<1>7. q >= ShellLimit
  BY <1>3, <1>5, <1>6, TaskingConstants DEF Up, ShellLimit, Pids, Root, Dead
<1>8. parent'[q] = p /\ \A r \in Pids0 : r # q => parent'[r] = parent[r] /\ pcb_esp'[r] = pcb_esp[r]
  BY <1>1, <1>4
<1>9. CpuInv'
  BY <1>1, <1>2, <1>3, <1>5, <1>7, <1>8 DEF CpuInv, CtxOK, CallPoints, StackOf, DepthOf
<1>10. \A t \in Terms : Leaf(t)' = Leaf(t) /\ Leaf(t) # q /\ Leaf(t) \in Pids0
  BY <1>1, <1>3, <1>5, LeafType DEF Leaf, SafeInv, ChainInv, LeavesLive, Pids
<1>11. SavedInv'
  <2>1. \A t \in Terms, r \in Pids : Claims(saved[t].frame.cpu, r) => r # q
    BY <1>5 DEF Claimed
  <2> QED BY <1>1, <1>2, <1>4, <1>8, <1>10, <2>1, OthersSaved
<1>12. ChainInv'
  <2>1. \A r \in Pids : caller[r] \in Pids => r # q /\ parent'[r] = parent[r]
    BY <1>4, <1>5, <1>8 DEF Dead, Pids
  <2> QED BY <1>1, <1>10, <2>1
          DEF SafeInv, ChainInv, RootsAreShells, Callers, OneCallee, LeavesLive, LeavesDiffer
<1>13. \A r \in Pids : Claimed(r)' <=> Claimed(r) \/ r = q
  BY <1>1, <1>2 DEF Claimed, Claims
<1>14. PresentInv'
  <2> SUFFICES ASSUME NEW r \in Pids
               PROVE  present'[r] <=> (caller'[r] # Dead /\ ~ Halting(r)') \/ Claimed(r)'
    BY DEF PresentInv
  <2>1. present'[r] <=> present[r] \/ r = q
    BY <1>1, <1>4
  <2>2. ~ Halting(r) /\ ~ Halting(r)'
    BY <1>1, <1>2 DEF Halting, HaltPoints
  <2> QED BY <1>1, <1>13, <2>1, <2>2 DEF SafeInv, PresentInv
<1>15. ClaimInv'
  BY <1>1, <1>2, <1>5 DEF SafeInv, ClaimInv, Claims, Claimed
<1>16. \A r \in Pids : Loading(r)' <=> Loading(r)
  BY <1>1, <1>2 DEF Loading
<1>17. WaitInv'
  <2>1. \A r \in Pids : caller[r] \in Pids => caller[r] # q /\ pcb_esp'[caller[r]] = pcb_esp[caller[r]]
    BY <1>4, <1>5, <1>8 DEF SafeInv, ChainInv, Callers
  <2> QED BY <1>1, <1>16, <2>1 DEF SafeInv, WaitInv
<1>18. LaunchInv'
  BY <1>1, <1>6 DEF LaunchInv, Up
<1> QED BY <1>9, <1>11, <1>12, <1>14, <1>15, <1>17, <1>18

(* kexecute stores the PCB of the new shell over the one just freed. *)
LEMMA KClaimSafe ==
  ASSUME SafeInv, ClaimPcb("kclaim", "kenter")
  PROVE  CpuInv' /\ SavedInv' /\ ChainInv' /\ PresentInv' /\ ClaimInv' /\ WaitInv' /\ LaunchInv'
<1> DEFINE p == current_process
<1>1. /\ cpu.pc = "kclaim" /\ cpu \in Cpu
      /\ cpu' = [cpu EXCEPT !.pc = "kenter"]
      /\ present' = [present EXCEPT ![cpu.arg] = TRUE]
      /\ parent' = [parent EXCEPT ![cpu.arg] = p]
      /\ pcb_esp' = [pcb_esp EXCEPT ![cpu.arg] = Null]
      /\ UNCHANGED <<processes, current_process, current_active_process, saved, caller, esp, kstack>>
  BY DEF ClaimPcb, InitPcb, Goto, SafeInv, TypeInv, TypeOK, queue
<1>2. cpu'.pc = "kenter" /\ cpu'.arg = cpu.arg /\ cpu'.edi = cpu.edi
  BY <1>1 DEF Cpu
<1>3. /\ p \in Pids /\ esp = At(p, 1) /\ cpu.edi = p /\ cpu.arg = p /\ caller[p] = Root
  BY <1>1 DEF SafeInv, CpuInv, CtxOK, StackOf, DepthOf
<1>4. /\ present \in [Pids0 -> BOOLEAN] /\ parent \in [Pids0 -> Pids0] /\ pcb_esp \in [Pids0 -> Addr]
      /\ p \in Pids0 /\ Pids \subseteq Pids0 /\ p # 0
  BY <1>3 DEF SafeInv, TypeInv, TypeOK, Pids, Pids0
<1>5. ~ Claimed(p)
  BY <1>3, ClaimedDead DEF Root, Dead
<1>6. \A r \in Pids0 : r # p => parent'[r] = parent[r] /\ pcb_esp'[r] = pcb_esp[r]
  BY <1>1, <1>3, <1>4
<1>7. CpuInv'
  BY <1>1, <1>2, <1>3 DEF CpuInv, CtxOK, CallPoints, StackOf, DepthOf
<1>8. \A t \in Terms : Leaf(t)' = Leaf(t)
  BY <1>1 DEF Leaf
<1>9. SavedInv'
  <2>1. \A t \in Terms, r \in Pids : Claims(saved[t].frame.cpu, r) => r # p
    BY <1>5 DEF Claimed
  <2>2. \A t \in Terms : saved[t] # NoContext => Leaf(t) # p /\ Leaf(t) \in Pids0
    BY <1>1, <1>4, OthersApart, OtherLeaves
  <2> QED BY <1>1, <1>2, <1>4, <1>6, <2>1, <2>2, OthersSaved
<1>10. ChainInv'
  <2>1. \A r \in Pids : caller[r] \in Pids => parent'[r] = parent[r]
    BY <1>3, <1>4, <1>6 DEF Root, Pids
  <2> QED BY <1>1, <1>8, <2>1
          DEF SafeInv, ChainInv, RootsAreShells, Callers, OneCallee, LeavesLive, LeavesDiffer
<1>11. \A r \in Pids : Claimed(r)' <=> Claimed(r)
  BY <1>1, <1>2 DEF Claimed, Claims
<1>12. PresentInv'
  <2> SUFFICES ASSUME NEW r \in Pids
               PROVE  present'[r] <=> (caller'[r] # Dead /\ ~ Halting(r)') \/ Claimed(r)'
    BY DEF PresentInv
  <2>1. ~ Halting(r)'
    BY <1>1, <1>2 DEF Halting, HaltPoints
  <2>2. CASE r = p
    BY <1>1, <1>3, <1>4, <2>1, <2>2 DEF Root, Dead
  <2>3. CASE r # p
    <3>1. (present'[r] <=> present[r]) /\ ~ Halting(r)
      BY <1>1, <1>3, <1>4, <2>3 DEF Halting
    <3> QED BY <1>1, <1>11, <2>1, <3>1 DEF SafeInv, PresentInv
  <2> QED BY <2>2, <2>3
<1>13. ClaimInv'
  BY <1>1, <1>2 DEF SafeInv, ClaimInv, Claims
<1>14. \A r \in Pids : Loading(r)' <=> Loading(r)
  BY <1>1, <1>2 DEF Loading
<1>15. WaitInv'
  <2>1. \A r \in Pids : caller[r] \in Pids => caller[r] # p /\ pcb_esp'[caller[r]] = pcb_esp[caller[r]]
    BY <1>4, <1>6, LeafType DEF SafeInv, ChainInv, Callers
  <2> QED BY <1>1, <1>14, <2>1 DEF SafeInv, WaitInv
<1>16. LaunchInv'
  BY <1>1, <1>2 DEF SafeInv, LaunchInv, Launching, Up, ExecPoints
<1> QED BY <1>7, <1>9, <1>10, <1>12, <1>13, <1>15, <1>16

(* execute switches to the new process, still on its caller's stack. *)
LEMMA EnterSafe ==
  ASSUME SafeInv, EnterPcb
  PROVE  CpuInv' /\ SavedInv' /\ ChainInv' /\ PresentInv' /\ ClaimInv' /\ WaitInv' /\ LaunchInv'
<1> DEFINE p == current_process
           q == cpu.arg
<1>1. /\ cpu.pc = "enter" /\ cpu \in Cpu
      /\ cpu' = [cpu EXCEPT !.pc = "load"] /\ current_process' = q
      /\ caller' = [caller EXCEPT ![q] = cpu.edi]
      /\ UNCHANGED <<present, parent, pcb_esp, processes, current_active_process, saved, esp, kstack>>
  BY DEF EnterPcb, switch_context, Goto, SafeInv, TypeInv, TypeOK, pcbs
<1>2. cpu'.pc = "load" /\ cpu'.arg = q /\ cpu'.edi = cpu.edi
  BY <1>1 DEF Cpu
<1>3. /\ p \in Pids /\ esp = At(p, 1) /\ cpu.edi = p /\ kstack[p][1] = CallFrame(p)
      /\ q \in Pids /\ q >= ShellLimit /\ caller[q] = Dead /\ parent[q] = p
  BY <1>1 DEF SafeInv, CpuInv, CtxOK, CallPoints, StackOf, DepthOf
<1>4. caller'[q] = p /\ \A r \in Pids : r # q => caller'[r] = caller[r]
  BY <1>1, <1>3 DEF SafeInv, TypeInv, TypeOK
<1>5. CpuInv'
  <2>1. StackOf(cpu', q) = p /\ DepthOf(cpu') = 1
    BY <1>2, <1>3 DEF StackOf, DepthOf
  <2> QED BY <1>1, <1>2, <1>3, <1>4, <2>1 DEF CpuInv, CtxOK, CallPoints
<1>6. \A t \in Terms : Leaf(t) # q
  BY <1>3, LeafType DEF SafeInv, ChainInv, LeavesLive, Pids
<1>7. \A t \in Terms : t = current_active_process => Leaf(t)' = q
  BY <1>1, LeafType DEF SafeInv, Leaf
<1>8. \A t \in Terms : t # current_active_process => Leaf(t)' = Leaf(t) /\ Leaf(t) # p
  BY <1>1, <1>3, OtherLeaves DEF Leaf, Pids
<1>9. /\ \A t \in Terms : ~ Claims(saved[t].frame.cpu, q)
      /\ \A r \in Pids : Claims(cpu, r) <=> r = q
  BY <1>1, <1>3 DEF SafeInv, ClaimInv, Claims
<1>10. SavedInv'
  BY <1>1, <1>2, <1>4, <1>6, <1>9, OthersSaved
<1>11. ChainInv'
  <2>1. caller[p] # Dead /\ \A r \in Pids : caller[r] # p /\ caller[r] # q
    BY <1>3, LeafType DEF SafeInv, ChainInv, LeavesLive, Callers, Pids
  <2>2. RootsAreShells'
    BY <1>3, <1>4 DEF SafeInv, ChainInv, RootsAreShells, Root, Pids
  <2>3. Callers'
    <3> SUFFICES ASSUME NEW r \in Pids, caller'[r] \in Pids
                 PROVE  /\ r >= ShellLimit /\ caller'[caller'[r]] # Dead /\ parent'[r] = caller'[r]
                        /\ \A t \in Terms : Leaf(t)' # caller'[r]
      BY DEF Callers
    <3>1. CASE r = q
      BY <1>1, <1>3, <1>4, <1>7, <1>8, <2>1, <3>1
    <3>2. CASE r # q
      <4>1. /\ caller'[r] = caller[r] /\ r >= ShellLimit /\ caller[caller[r]] # Dead /\ parent[r] = caller[r]
            /\ \A t \in Terms : Leaf(t) # caller[r]
        BY <1>4, <3>2 DEF SafeInv, ChainInv, Callers
      <4> QED BY <1>1, <1>4, <1>7, <1>8, <2>1, <4>1
    <3> QED BY <3>1, <3>2
  <2>4. OneCallee'
    BY <1>3, <1>4, <2>1 DEF SafeInv, ChainInv, OneCallee
  <2>5. LeavesLive'
    <3> SUFFICES ASSUME NEW t \in Terms, Leaf(t)' # 0 PROVE caller'[Leaf(t)'] # Dead
      BY DEF LeavesLive
    <3>1. p # Dead
      BY <1>3 DEF Dead, Pids
    <3>2. CASE t = current_active_process
      BY <1>4, <1>7, <3>1, <3>2
    <3>3. CASE t # current_active_process
      <4>1. Leaf(t)' = Leaf(t) /\ Leaf(t) \in Pids /\ Leaf(t) # q
        BY <1>6, <1>8, <3>3, LeafType DEF SafeInv
      <4> QED BY <1>4, <4>1 DEF SafeInv, ChainInv, LeavesLive, Pids
    <3> QED BY <3>2, <3>3
  <2>6. LeavesDiffer'
    <3> SUFFICES ASSUME NEW t \in Terms, NEW u \in Terms, t # u, Leaf(t)' # 0
                 PROVE  Leaf(t)' # Leaf(u)'
      BY DEF LeavesDiffer
    <3>1. CASE t = current_active_process \/ u = current_active_process
      BY <1>6, <1>7, <1>8, <3>1
    <3>2. CASE t # current_active_process /\ u # current_active_process
      BY <1>8, <3>2 DEF SafeInv, ChainInv, LeavesDiffer
    <3> QED BY <3>1, <3>2
  <2> QED BY <2>2, <2>3, <2>4, <2>5, <2>6 DEF ChainInv
<1>12. \A r \in Pids : Claimed(r)' <=> Claimed(r) /\ r # q
  BY <1>1, <1>2, <1>9 DEF Claimed, Claims
<1>13. PresentInv'
  <2> SUFFICES ASSUME NEW r \in Pids
               PROVE  present'[r] <=> (caller'[r] # Dead /\ ~ Halting(r)') \/ Claimed(r)'
    BY DEF PresentInv
  <2>1. ~ Halting(r) /\ ~ Halting(r)'
    BY <1>1, <1>2 DEF Halting, HaltPoints
  <2>2. CASE r = q
    <3>1. Claimed(q) /\ p # Dead
      BY <1>3, <1>9 DEF Claimed, Dead, Pids
    <3> QED BY <1>1, <1>4, <2>1, <2>2, <3>1 DEF SafeInv, PresentInv
  <2>3. CASE r # q
    BY <1>1, <1>4, <1>12, <2>1, <2>3 DEF SafeInv, PresentInv
  <2> QED BY <2>2, <2>3
<1>14. ClaimInv'
  BY <1>1, <1>2 DEF SafeInv, ClaimInv, Claims
<1>15. WaitInv'
  <2> SUFFICES ASSUME NEW r \in Pids, caller'[r] \in Pids, ~ Loading(r)'
               PROVE  /\ pcb_esp'[caller'[r]] = At(caller'[r], 1)
                      /\ kstack'[caller'[r]][1] = CallFrame(caller'[r])
    BY DEF WaitInv
  <2>1. r # q /\ ~ Loading(r)
    BY <1>1, <1>2 DEF Loading
  <2> QED BY <1>1, <1>4, <2>1 DEF SafeInv, WaitInv
<1>16. LaunchInv'
  <2>1. Up
    BY <1>1 DEF SafeInv, LaunchInv, Launching, ExecPoints
  <2>2. \A r \in 1 .. NUM_PROCESSES : r \in Pids /\ r # q
    BY <1>3, TaskingConstants DEF Pids, ShellLimit
  <2> QED BY <1>1, <1>3, <1>4, <2>1, <2>2 DEF LaunchInv, Up, Pids
<1> QED BY <1>5, <1>10, <1>11, <1>13, <1>14, <1>15, <1>16

(* kexecute switches to the new shell, which has the pid of the old one. *)
LEMMA KEnterSafe ==
  ASSUME SafeInv, KEnterPcb
  PROVE  CpuInv' /\ SavedInv' /\ ChainInv' /\ PresentInv' /\ ClaimInv' /\ WaitInv' /\ LaunchInv'
<1> DEFINE p == current_process
<1>1. /\ cpu.pc = "kenter" /\ cpu \in Cpu /\ cpu' = [cpu EXCEPT !.pc = "kload"]
      /\ current_process' = cpu.arg
      /\ caller' = [caller EXCEPT ![cpu.edi] = Dead, ![cpu.arg] = Root]
      /\ UNCHANGED <<present, parent, pcb_esp, processes, current_active_process, saved, esp, kstack>>
  BY DEF KEnterPcb, switch_context, Goto, SafeInv, TypeInv, TypeOK, pcbs
<1>2. cpu'.pc = "kload" /\ cpu'.arg = cpu.arg /\ cpu'.edi = cpu.edi
  BY <1>1 DEF Cpu
<1>3. p \in Pids /\ cpu.arg = p /\ cpu.edi = p /\ caller[p] = Root
  BY <1>1 DEF SafeInv, CpuInv, CtxOK
<1>4. caller' = caller /\ current_process' = current_process
  BY <1>1, <1>3 DEF SafeInv, TypeInv, TypeOK
<1>5. CpuInv'
  BY <1>1, <1>2, <1>3, <1>4 DEF CpuInv, CtxOK, CallPoints
<1>6. SavedInv' /\ ChainInv' /\ PresentInv' /\ ClaimInv' /\ WaitInv' /\ LaunchInv'
  BY <1>1, <1>2, <1>4, LocalStep DEF HaltPoints, ExecPoints
<1> QED BY <1>5, <1>6

(* The image is loaded: the new program runs, its caller waits. *)
LEMMA LoadSafe ==
  ASSUME SafeInv, LoadDone
  PROVE  CpuInv' /\ SavedInv' /\ ChainInv' /\ PresentInv' /\ ClaimInv' /\ WaitInv' /\ LaunchInv'
<1> DEFINE p == current_process
           s == cpu.edi
<1>1. /\ cpu.pc \in {"load", "kload"} /\ cpu \in Cpu
      /\ pcb_esp' = [pcb_esp EXCEPT ![s] = esp]
      /\ cpu' = UserCpu(cpu.arg) /\ esp' = At(p, 0)
      /\ UNCHANGED <<present, parent, processes, current_process, current_active_process,
                     kstack, saved, caller>>
  BY DEF LoadDone, SafeInv, TypeInv, TypeOK, queue, UserCpu, At
<1>2. p \in Pids /\ cpu.arg = p /\ cpu'.pc = "user"
  BY <1>1 DEF SafeInv, CpuInv, CtxOK, UserCpu
<1>3. s \in Pids0 /\ pcb_esp \in [Pids0 -> Addr] /\ Pids \subseteq Pids0 /\ p # 0
  BY <1>1, <1>2 DEF SafeInv, TypeInv, TypeOK, Cpu, Pids, Pids0
<1>4. pcb_esp'[s] = esp /\ \A r \in Pids0 : r # s => pcb_esp'[r] = pcb_esp[r]
  BY <1>1, <1>3
<1>5. CpuInv'
  BY <1>1, <1>2 DEF CpuInv, CtxOK, CallPoints, StackOf, DepthOf
<1>6. \A t \in Terms : Leaf(t)' = Leaf(t) /\ Leaf(t) \in Pids0
  BY <1>1, LeafType DEF Leaf, SafeInv
<1>7. cpu.pc = "load" => /\ s = caller[p] /\ s \in Pids /\ esp = At(s, 1) /\ kstack[s][1] = CallFrame(s)
  BY DEF SafeInv, CpuInv, CtxOK, CallPoints, StackOf, DepthOf
<1>8. cpu.pc = "kload" => (s = p \/ pcb_esp[s] = esp) /\ caller[p] = Root
  BY DEF SafeInv, CpuInv
<1>9. SavedInv'
  <2>1. \A t \in Terms : saved[t] # NoContext => Leaf(t) # p
    BY <1>1, OthersApart
  <2>2. \A t \in Terms : cpu.pc = "load" => Leaf(t) # s
    BY <1>2, <1>7 DEF SafeInv, ChainInv, Callers
  <2>3. \A t \in Terms : saved[t] # NoContext => pcb_esp'[Leaf(t)] = pcb_esp[Leaf(t)]
    BY <1>1, <1>4, <1>6, <1>8, <2>1, <2>2
  <2> QED BY <1>1, <1>2, <2>3, OthersSaved
<1>10. ChainInv'
  BY <1>1, <1>6 DEF SafeInv, ChainInv, RootsAreShells, Callers, OneCallee, LeavesLive, LeavesDiffer
<1>11. PresentInv'
  BY <1>1, <1>2 DEF SafeInv, PresentInv, Halting, HaltPoints, Claimed, Claims
<1>12. ClaimInv'
  BY <1>1, <1>2 DEF SafeInv, ClaimInv, Claims
<1>13. WaitInv'
  <2> SUFFICES ASSUME NEW q \in Pids, caller[q] \in Pids, ~ Loading(q)'
               PROVE  /\ pcb_esp'[caller[q]] = At(caller[q], 1)
                      /\ kstack[caller[q]][1] = CallFrame(caller[q])
    BY <1>1 DEF WaitInv
  <2>1. CASE cpu.pc = "load" /\ q = p
    BY <1>4, <1>7, <2>1
  <2>2. CASE cpu.pc = "load" /\ q # p
    <3>1. caller[q] # s
      BY <1>2, <1>7, <2>2 DEF SafeInv, ChainInv, OneCallee
    <3>2. ~ Loading(q)
      BY <1>1, <1>2, <2>2 DEF Loading
    <3> QED BY <1>3, <1>4, <3>1, <3>2 DEF SafeInv, WaitInv
  <2>3. CASE cpu.pc = "kload"
    <3>1. ~ Loading(q)
      BY <1>1, <1>2, <2>3 DEF Loading
    <3>2. caller[q] # p
      BY LeafType DEF SafeInv, ChainInv, Callers
    <3>3. pcb_esp'[caller[q]] = pcb_esp[caller[q]]
      BY <1>3, <1>4, <1>8, <2>3, <3>2
    <3> QED BY <3>1, <3>3 DEF SafeInv, WaitInv
  <2> QED BY <1>1, <2>1, <2>2, <2>3
<1>14. LaunchInv'
  BY <1>1, <1>2 DEF SafeInv, LaunchInv, Launching, Up, ExecPoints
<1> QED BY <1>5, <1>9, <1>10, <1>11, <1>12, <1>13, <1>14

(* halt switches to the process that executed the halted one. *)
LEMMA SwitchToParentSafe ==
  ASSUME SafeInv, SwitchToParent
  PROVE  CpuInv' /\ SavedInv' /\ ChainInv' /\ PresentInv' /\ ClaimInv' /\ WaitInv' /\ LaunchInv'
<1> DEFINE p == current_process
           m == cpu.arg
<1>1. /\ cpu.pc = "parent" /\ cpu \in Cpu /\ cpu' = [cpu EXCEPT !.pc = "unwind"]
      /\ current_process' = m
      /\ caller' = [caller EXCEPT ![p] = Dead]
      /\ UNCHANGED <<present, parent, pcb_esp, processes, current_active_process, saved, esp, kstack>>
  BY DEF SwitchToParent, switch_context, Goto, SafeInv, TypeInv, TypeOK, pcbs
<1>2. cpu'.pc = "unwind" /\ cpu'.arg = m
  BY <1>1 DEF Cpu
<1>3. p \in Pids /\ m \in Pids /\ m = caller[p]
  BY <1>1 DEF SafeInv, CpuInv, CtxOK
<1>4. caller'[p] = Dead /\ \A r \in Pids : r # p => caller'[r] = caller[r]
  BY <1>1, <1>3 DEF SafeInv, TypeInv, TypeOK
<1>5. ~ Loading(p)
  <2> SUFFICES ASSUME NEW t \in Terms, saved[t].frame.cpu.pc = "load", saved[t].frame.cpu.arg = p
               PROVE  FALSE
    BY <1>1 DEF Loading
  <2>1. saved[t] # NoContext
    BY DEF NoContext, Junk, Idle
  <2>2. SavedOK(t) /\ Leaf(t) # p
    BY <1>1, <2>1, OthersApart
  <2> QED BY <2>2 DEF SavedOK, CtxOK
<1>6. pcb_esp[m] = At(m, 1) /\ kstack[m][1] = CallFrame(m)
  BY <1>3, <1>5 DEF SafeInv, WaitInv
<1>7. CpuInv'
  BY <1>1, <1>2, <1>3, <1>6 DEF CpuInv, CtxOK, CallPoints
<1>8. p >= ShellLimit /\ caller[m] # Dead /\ m # p /\ \A t \in Terms : Leaf(t) # m
  BY <1>3, LeafType DEF SafeInv, ChainInv, Callers
<1>9. \A t \in Terms : t = current_active_process => Leaf(t)' = m
  BY <1>1 DEF Leaf
<1>10. \A t \in Terms : t # current_active_process => Leaf(t)' = Leaf(t) /\ Leaf(t) # p
  BY <1>1, <1>3, OtherLeaves DEF Leaf, Pids
<1>11. SavedInv'
  <2>1. \A t \in Terms, r \in Pids : Claims(saved[t].frame.cpu, r) => r # p
    BY <1>3, <1>8, ClaimedDead DEF Claimed, Dead, Pids
  <2>2. \A t \in Terms : saved[t] # NoContext => Leaf(t) # p
    BY <1>1, OthersApart
  <2> QED BY <1>1, <1>2, <1>4, <2>1, <2>2, OthersSaved
<1>12. ChainInv'
  <2>1. \A r \in Pids : caller[r] # p /\ (r # p => caller[r] # m)
    BY <1>3, LeafType DEF SafeInv, ChainInv, Callers, OneCallee
  <2>2. RootsAreShells'
    BY <1>4 DEF SafeInv, ChainInv, RootsAreShells, Root, Dead
  <2>3. Callers'
    <3> SUFFICES ASSUME NEW r \in Pids, caller'[r] \in Pids
                 PROVE  /\ r >= ShellLimit /\ caller'[caller'[r]] # Dead /\ parent'[r] = caller'[r]
                        /\ \A t \in Terms : Leaf(t)' # caller'[r]
      BY DEF Callers
    <3>1. r # p
      BY <1>4 DEF Dead, Pids
    <3>2. /\ caller'[r] = caller[r] /\ r >= ShellLimit /\ caller[caller[r]] # Dead /\ parent[r] = caller[r]
          /\ \A t \in Terms : Leaf(t) # caller[r]
      BY <1>4, <3>1 DEF SafeInv, ChainInv, Callers
    <3>3. \A t \in Terms : Leaf(t)' # caller[r]
      BY <1>9, <1>10, <2>1, <3>1, <3>2
    <3> QED BY <1>1, <1>4, <2>1, <3>1, <3>2, <3>3
  <2>4. OneCallee'
    BY <1>3, <1>4 DEF SafeInv, ChainInv, OneCallee, Dead, Pids
  <2>5. LeavesLive'
    <3> SUFFICES ASSUME NEW t \in Terms, Leaf(t)' # 0 PROVE caller'[Leaf(t)'] # Dead
      BY DEF LeavesLive
    <3>1. CASE t = current_active_process
      BY <1>3, <1>4, <1>8, <1>9, <3>1
    <3>2. CASE t # current_active_process
      <4>1. Leaf(t)' = Leaf(t) /\ Leaf(t) \in Pids /\ Leaf(t) # p
        BY <1>10, <3>2, LeafType DEF SafeInv
      <4> QED BY <1>4, <4>1 DEF SafeInv, ChainInv, LeavesLive, Pids
    <3> QED BY <3>1, <3>2
  <2>6. LeavesDiffer'
    <3> SUFFICES ASSUME NEW t \in Terms, NEW u \in Terms, t # u, Leaf(t)' # 0
                 PROVE  Leaf(t)' # Leaf(u)'
      BY DEF LeavesDiffer
    <3>1. CASE t = current_active_process \/ u = current_active_process
      BY <1>8, <1>9, <1>10, <3>1
    <3>2. CASE t # current_active_process /\ u # current_active_process
      BY <1>10, <3>2 DEF SafeInv, ChainInv, LeavesDiffer
    <3> QED BY <3>1, <3>2
  <2> QED BY <2>2, <2>3, <2>4, <2>5, <2>6 DEF ChainInv
<1>13. \A r \in Pids : Claimed(r)' <=> Claimed(r)
  BY <1>1, <1>2 DEF Claimed, Claims
<1>14. PresentInv'
  <2> SUFFICES ASSUME NEW r \in Pids
               PROVE  present'[r] <=> (caller'[r] # Dead /\ ~ Halting(r)') \/ Claimed(r)'
    BY DEF PresentInv
  <2>1. ~ Halting(r)' /\ (Halting(r) <=> r = p)
    BY <1>1, <1>2 DEF Halting, HaltPoints
  <2> QED BY <1>1, <1>4, <1>13, <2>1 DEF SafeInv, PresentInv
<1>15. ClaimInv'
  BY <1>1, <1>2 DEF SafeInv, ClaimInv, Claims
<1>16. WaitInv'
  <2> SUFFICES ASSUME NEW r \in Pids, caller'[r] \in Pids, ~ Loading(r)'
               PROVE  /\ pcb_esp'[caller'[r]] = At(caller'[r], 1)
                      /\ kstack'[caller'[r]][1] = CallFrame(caller'[r])
    BY DEF WaitInv
  <2>1. r # p /\ ~ Loading(r)
    BY <1>1, <1>2, <1>4 DEF Loading, Dead, Pids
  <2> QED BY <1>1, <1>4, <2>1 DEF SafeInv, WaitInv
<1>17. LaunchInv'
  <2>1. Up
    BY <1>1 DEF SafeInv, LaunchInv, Launching, ExecPoints
  <2>2. \A r \in 1 .. NUM_PROCESSES : r \in Pids /\ r # p
    BY <1>8, <1>3, TaskingConstants DEF Pids, ShellLimit
  <2> QED BY <1>1, <1>3, <1>4, <2>1, <2>2 DEF LaunchInv, Up, Pids
<1> QED BY <1>7, <1>11, <1>12, <1>14, <1>15, <1>16, <1>17
-----------------------------------------------------------------------------
(* A tick: the interrupted context is stored on its own stack. *)
Saved(c, s, n) == [at |-> At(s, n), frame |-> [kind |-> "tick", cpu |-> c]]

(* What SaveContext does to the stacks and to the record of the terminal it preempts. *)
LEMMA SaveEffect ==
  ASSUME SafeTicks, SafeInv, TickMayHit, SaveContext,
         NEW S, S = StackOf(cpu, current_process), NEW D, D = DepthOf(cpu)
  PROVE  /\ cpu.pc \in SavedPoints /\ S \in Pids0 /\ D \in {0, 1}
         /\ Above(esp, 1) = At(S, D + 1) /\ esp' = At(S, D + 1)
         /\ kstack'[S][D + 1] = [kind |-> "tick", cpu |-> cpu]
         /\ D = 1 => kstack'[S][1] = kstack[S][1]
         /\ \A r \in Pids0 : r # S => kstack'[r] = kstack[r]
         /\ processes' = save_queue /\ current_active_process' = NextTerm /\ NextTerm \in Terms
         /\ saved[current_active_process] = NoContext
         /\ \A t \in Terms :
              saved'[t] = IF get_next_task_pid = 0 /\ t = NextTerm THEN NoContext
                          ELSE IF t = current_active_process THEN Saved(cpu, S, D + 1)
                          ELSE saved[t]
<1>1. cpu.pc \in SavedPoints /\ cpu.pc \notin {"resume", "kload", "unwind"}
  BY DEF SafeTicks, TickMayHit, SavedPoints, SafePoints
<1>2. esp = At(S, D) /\ CtxOK(caller, parent, kstack, cpu, current_process) /\ TypeInv
  BY <1>1 DEF SafeInv, CpuInv
<1>3. S \in Pids0
  BY <1>2, LeafType DEF CtxOK, StackOf, Pids, Pids0
<1>4. D \in {0, 1} /\ D \in 0 .. StackDepth
  BY TaskingConstants DEF DepthOf
<1>5. Push("tick") /\ esp' = Above(esp, 1)
  BY DEF SaveContext
<1>6. /\ Above(esp, 1) = At(S, D + 1)
      /\ kstack'[S][D + 1] = [kind |-> "tick", cpu |-> cpu]
      /\ \A i \in 0 .. D : kstack'[S][i] = kstack[S][i]
      /\ \A r \in Pids0 : r # S => kstack'[r] = kstack[r]
  BY <1>2, <1>3, <1>4, <1>5, PushEffect
<1>7. D = 1 => kstack'[S][1] = kstack[S][1]
  BY <1>4, <1>6
<1>8. NextTerm \in Terms /\ current_active_process \in Terms
  BY <1>2, LeafType, NextTermInTerms
<1>9. saved[current_active_process] = NoContext
  BY <1>1, <1>8 DEF SafeInv, SavedInv, SavedOK
<1> DEFINE new == Saved(cpu, S, D + 1)
<1>10. saved' = IF get_next_task_pid = 0
                THEN [[saved EXCEPT ![current_active_process] = new] EXCEPT ![NextTerm] = NoContext]
                ELSE [saved EXCEPT ![current_active_process] = new]
  BY <1>1, <1>6 DEF SaveContext, Saved
<1>11. saved \in [Terms -> [at : Addr, frame : Frame]]
  BY <1>2 DEF TypeInv, TypeOK
<1> HIDE DEF new
<1>12. \A t \in Terms : saved'[t] = IF get_next_task_pid = 0 /\ t = NextTerm THEN NoContext
                          ELSE IF t = current_active_process THEN new ELSE saved[t]
  BY <1>8, <1>10, <1>11
<1>13. processes' = save_queue /\ current_active_process' = NextTerm
  BY DEF SaveContext
<1> QED BY <1>1, <1>3, <1>4, <1>5, <1>6, <1>7, <1>8, <1>9, <1>12, <1>13 DEF new

(* The stored context is well formed, and is where the PCB points. *)
LEMMA SavedByTick ==
  ASSUME SafeTicks, SafeInv, TickMayHit, SaveContext, NEW t \in Terms, t = current_active_process,
         ~ (get_next_task_pid = 0 /\ t = NextTerm),
         t = current_active_process' => cpu'.pc = "resume",
         Leaf(t)' = current_process, pcb_esp'[current_process] = Above(esp, 1),
         current_process \in Pids => caller'[current_process] = caller[current_process],
         Claims(cpu, cpu.arg) => caller'[cpu.arg] = caller[cpu.arg] /\ parent'[cpu.arg] = parent[cpu.arg]
  PROVE  SavedOK(t)' /\ saved'[t] # NoContext
<1> DEFINE S == StackOf(cpu, current_process)
           D == DepthOf(cpu)
<1>1. /\ cpu.pc \in SavedPoints /\ S \in Pids0 /\ D \in {0, 1}
      /\ Above(esp, 1) = At(S, D + 1)
      /\ kstack'[S][D + 1] = [kind |-> "tick", cpu |-> cpu]
      /\ D = 1 => kstack'[S][1] = kstack[S][1]
      /\ saved'[t] = Saved(cpu, S, D + 1)
  BY SaveEffect
<1>2. CtxOK(caller, parent, kstack, cpu, current_process)
  BY <1>1 DEF SafeInv, CpuInv, SavedPoints, SafePoints
<1>3. cpu.pc \in CallPoints => D = 1
  BY DEF CallPoints, DepthOf
<1>4. CtxOK(caller', parent', kstack', cpu, current_process)
  BY <1>1, <1>2, <1>3 DEF CtxOK, Claims
<1>5. /\ saved'[t].frame = [kind |-> "tick", cpu |-> cpu] /\ saved'[t].frame.cpu = cpu
      /\ saved'[t].frame.kind = "tick" /\ saved'[t].at = At(S, D + 1)
      /\ saved'[t] # NoContext
  BY <1>1 DEF Saved, NoContext, Junk
<1>6. FrameAt(saved[t].at)' = saved'[t].frame
  BY <1>1, <1>5 DEF FrameAt, At
<1> QED BY <1>1, <1>4, <1>5, <1>6 DEF SavedOK

(* The tick switches to the next terminal's task. *)
LEMMA SwitchTaskSafe ==
  ASSUME SafeTicks, SafeInv, SwitchTask
  PROVE  CpuInv' /\ SavedInv' /\ ChainInv' /\ PresentInv' /\ ClaimInv' /\ WaitInv' /\ LaunchInv'
<1> DEFINE p == current_process
           a == current_active_process
           S == StackOf(cpu, p)
           D == DepthOf(cpu)
<1>1. /\ TickMayHit /\ SaveContext /\ get_next_task_pid # 0
      /\ pcb_esp' = [pcb_esp EXCEPT ![p] = Above(esp, 1)]
      /\ current_process' = get_next_task_pid /\ cpu'.pc = "resume"
      /\ UNCHANGED <<present, parent, caller>>
  BY DEF SwitchTask, switch_context, SavedEsp, Idle
<1>2. /\ cpu.pc \in SavedPoints /\ cpu.pc # "resume"
      /\ \A r \in Pids0 : r # S => kstack'[r] = kstack[r]
      /\ processes' = save_queue /\ current_active_process' = NextTerm /\ NextTerm \in Terms
      /\ saved[a] = NoContext
      /\ \A t \in Terms : saved'[t] = IF t = a THEN Saved(cpu, S, D + 1) ELSE saved[t]
  BY <1>1, SaveEffect DEF SavedPoints, SafePoints
<1>3. /\ a \in Terms /\ p \in Pids0 /\ processes \in [Terms -> Pids0] /\ pcb_esp \in [Pids0 -> Addr]
      /\ TypeInv
  BY DEF SafeInv, TypeInv, TypeOK
<1>4. \A t \in Terms : save_queue[t] = Leaf(t) /\ Leaf(t) \in Pids0
  BY <1>3, LeafType DEF save_queue, Leaf
<1>5. \A t \in Terms : Leaf(t)' = Leaf(t)
  BY <1>1, <1>2, <1>4 DEF Leaf, get_next_task_pid
<1>6. Up
  <2> SUFFICES ASSUME Launching PROVE FALSE
    BY DEF SafeInv, LaunchInv
  <2>1. p \in 0 .. NUM_PROCESSES - 1 /\ a = p
    BY DEF Launching
  <2>2. NextTerm = IF p = NUM_PROCESSES - 1 THEN 0 ELSE p + 1
    BY <2>1, TaskingConstants DEF NextTerm
  <2>3. Leaf(NextTerm) = 0
    BY <1>2, <2>1, <2>2, TaskingConstants DEF Leaf, Launching
  <2> QED BY <1>1, <1>2, <1>4, <2>3 DEF get_next_task_pid
<1>7. p # 0 /\ p \in Pids
  BY <1>6, LeafType DEF Up, SafeInv
<1>8. pcb_esp'[p] = Above(esp, 1) /\ \A r \in Pids0 : r # p => pcb_esp'[r] = pcb_esp[r]
  BY <1>1, <1>3
<1>9. \A t \in Terms : t = a => SavedOK(t)' /\ saved'[t] # NoContext
  <2> SUFFICES ASSUME NEW t \in Terms, t = a PROVE SavedOK(t)' /\ saved'[t] # NoContext
    OBVIOUS
  <2>1. Leaf(t)' = p
    BY <1>3, <1>5, LeafType
  <2> QED BY <1>1, <1>8, <2>1, SavedByTick
<1>10. SavedInv'
  <2> SUFFICES ASSUME NEW t \in Terms
               PROVE  /\ saved'[t] # NoContext => SavedOK(t)'
                      /\ saved'[t] = NoContext => t = current_active_process' \/ Leaf(t)' = 0
    BY DEF SavedInv
  <2>1. ASSUME t # a, saved[t] # NoContext PROVE SavedOK(t)'
    <3>1. /\ SavedOK(t) /\ Leaf(t) # p
          /\ kstack'[StackOf(saved[t].frame.cpu, Leaf(t))] = kstack[StackOf(saved[t].frame.cpu, Leaf(t))]
      BY <1>2, <2>1, OthersApart
    <3>2. pcb_esp'[Leaf(t)] = pcb_esp[Leaf(t)] /\ saved'[t] = saved[t] /\ Leaf(t)' = Leaf(t)
      BY <1>2, <1>4, <1>5, <1>8, <2>1, <3>1
    <3> QED BY <1>1, <1>3, <2>1, <3>1, <3>2, SavedKept
  <2>2. ASSUME t # a, saved[t] = NoContext PROVE Leaf(t)' = 0
    BY <1>5, <2>2 DEF SafeInv, SavedInv
  <2> QED BY <1>2, <1>9, <2>1, <2>2
<1>11. CpuInv'
  <2>1. saved'[NextTerm] # NoContext
    <3>1. CASE NextTerm = a
      BY <1>2, <1>9, <3>1
    <3>2. CASE NextTerm # a
      BY <1>1, <1>2, <1>4, <3>2 DEF SafeInv, SavedInv, get_next_task_pid
    <3> QED BY <3>1, <3>2
  <2> QED BY <1>1, <1>2, <2>1 DEF CpuInv
<1>12. ChainInv'
  BY <1>1, <1>5 DEF SafeInv, ChainInv, RootsAreShells, Callers, OneCallee, LeavesLive, LeavesDiffer
<1>13. /\ saved[a].frame.cpu = Idle /\ Idle.pc = "boot" /\ \A q \in Pids : ~ Claims(saved[a].frame.cpu, q)
       /\ \A t \in Terms : saved'[t].frame.cpu = IF t = a THEN cpu ELSE saved[t].frame.cpu
  BY <1>2 DEF NoContext, Junk, Idle, Claims, Saved
<1>14. \A q \in Pids : ~ Claims(cpu, q)'
  BY <1>1 DEF Claims
<1>15. \A q \in Pids : Claimed(q)' <=> Claimed(q)
  <2> SUFFICES ASSUME NEW q \in Pids PROVE Claimed(q)' <=> Claimed(q)
    OBVIOUS
  <2>1. Claimed(q)' <=> \E t \in Terms : Claims(saved'[t].frame.cpu, q)
    BY <1>14 DEF Claimed
  <2> QED BY <1>3, <1>13, <2>1 DEF Claimed
<1>16. PresentInv'
  <2>1. \A q \in Pids : ~ Halting(q) /\ ~ Halting(q)'
    BY <1>1, <1>2 DEF Halting, HaltPoints, SavedPoints, SafePoints
  <2> QED BY <1>1, <1>15, <2>1 DEF SafeInv, PresentInv
<1>17. ClaimInv'
  BY <1>3, <1>13, <1>14 DEF SafeInv, ClaimInv
<1>18. WaitInv'
  <2> SUFFICES ASSUME NEW q \in Pids, caller[q] \in Pids, ~ Loading(q)'
               PROVE  /\ pcb_esp'[caller[q]] = At(caller[q], 1)
                      /\ kstack'[caller[q]][1] = CallFrame(caller[q])
    BY <1>1 DEF WaitInv
  <2>1. ~ Loading(q)
    BY <1>1, <1>3, <1>13 DEF Loading
  <2>2. ~ (cpu.pc = "load" /\ cpu.arg = q)
    BY <2>1 DEF Loading
  <2>3. CtxOK(caller, parent, kstack, cpu, p) /\ Leaf(a) = p /\ ChainInv
    BY <1>2, LeafType DEF SafeInv, CpuInv
  <2>4. S # caller[q] /\ p # caller[q]
    BY <1>3, <1>7, <2>2, <2>3, WaiterApart
  <2>5. kstack'[caller[q]] = kstack[caller[q]] /\ pcb_esp'[caller[q]] = pcb_esp[caller[q]]
    BY <1>2, <1>8, <2>4 DEF Pids, Pids0
  <2> QED BY <2>1, <2>5 DEF SafeInv, WaitInv
<1>19. LaunchInv'
  <2>1. \A t \in Terms : t = NextTerm \/ save_queue[t] # 0
    BY <1>4, <1>6, <1>7 DEF Up, Leaf
  <2> QED BY <1>1, <1>2, <1>6, <2>1 DEF LaunchInv, Up
<1> QED BY <1>10, <1>11, <1>12, <1>16, <1>17, <1>18, <1>19

(* A tick that finds the next terminal without a program comes while the    *)
(* terminals are being launched, and there is a PCB for the new shell.      *)
LEMMA LaunchNext ==
  ASSUME SafeTicks, SafeInv, TickMayHit, get_next_task_pid = 0
  PROVE  /\ Launching /\ ~ NoFreePcb
         /\ current_process + 1 \in Pids /\ current_process + 1 <= NUM_PROCESSES
         /\ \A q \in Pids : find_free_pcb(q) => q = current_process + 1
         /\ NextTerm = IF current_process = NUM_PROCESSES - 1 THEN 0 ELSE current_process + 1
         /\ \A q \in Pids : present[q] <=> q <= current_process
         /\ \A q \in Pids : ~ Claims(cpu, q) /\ \A t \in Terms : ~ Claims(saved[t].frame.cpu, q)
<1> DEFINE p == current_process
           a == current_active_process
<1>1. a \in Terms /\ p \in Pids0 /\ processes \in [Terms -> Pids0] /\ NextTerm \in Terms
  BY LeafType, NextTermInTerms DEF SafeInv, TypeInv, TypeOK
<1>2. Launching
  <2> SUFFICES ASSUME Up PROVE FALSE
    BY DEF SafeInv, LaunchInv
  <2> QED BY <1>1 DEF Up, get_next_task_pid, save_queue
<1>3. p \in 0 .. NUM_PROCESSES - 1 /\ a = p
  BY <1>2 DEF Launching
<1>4. NextTerm = IF p = NUM_PROCESSES - 1 THEN 0 ELSE p + 1
  BY <1>3, TaskingConstants DEF NextTerm
<1>5. p + 1 \in Pids /\ p + 1 <= NUM_PROCESSES
  BY <1>3, TaskingConstants DEF Pids
<1>6. \A q \in Pids : ~ Claims(cpu, q) /\ \A t \in Terms : ~ Claims(saved[t].frame.cpu, q)
  BY <1>2 DEF Launching, Claims, ExecPoints
<1>7. \A q \in Pids : ~ Halting(q)
  BY DEF Halting, HaltPoints, TickMayHit, SafeTicks, SafePoints
<1>8. \A q \in Pids : present[q] <=> q <= p
  BY <1>2, <1>6, <1>7 DEF SafeInv, PresentInv, Claimed, Launching, Root, Dead
<1>9. p + 1 \in FreePids
  BY <1>3, <1>5, <1>8 DEF FreePids
<1>10. ASSUME NEW q \in Pids, find_free_pcb(q) PROVE q = p + 1
  BY <1>3, <1>8, <1>9, <1>10 DEF find_free_pcb, FreePids, Pids
<1> QED BY <1>2, <1>4, <1>5, <1>6, <1>8, <1>9, <1>10 DEF NoFreePcb

(* The tick launches the next terminal's shell. *)
LEMMA LaunchShellSafe ==
  ASSUME SafeTicks, SafeInv, LaunchShell
  PROVE  CpuInv' /\ SavedInv' /\ ChainInv' /\ PresentInv' /\ ClaimInv' /\ WaitInv' /\ LaunchInv'
<1> DEFINE p == current_process
           a == current_active_process
           q == p + 1
           S == StackOf(cpu, p)
           D == DepthOf(cpu)
<1>1. /\ TickMayHit /\ SaveContext /\ get_next_task_pid = 0
      /\ Launching /\ q \in Pids /\ q <= NUM_PROCESSES
      /\ NextTerm = IF p = NUM_PROCESSES - 1 THEN 0 ELSE q
      /\ \A r \in Pids : present[r] <=> r <= p
      /\ \A r \in Pids : ~ Claims(cpu, r) /\ \A t \in Terms : ~ Claims(saved[t].frame.cpu, r)
  BY LaunchNext DEF LaunchShell
<1>2. /\ present' = [present EXCEPT ![q] = TRUE]
      /\ parent' = [parent EXCEPT ![q] = p]
      /\ pcb_esp' = [[pcb_esp EXCEPT ![p] = Above(esp, 1)] EXCEPT ![q] = Null]
      /\ current_process' = q
      /\ caller' = [caller EXCEPT ![q] = Root]
      /\ cpu' = [Idle EXCEPT !.pc = "kload", !.edi = p, !.arg = q]
  BY LaunchNext DEF LaunchShell, switch_context, SavedEsp
<1>3. cpu'.pc = "kload" /\ cpu'.edi = p /\ cpu'.arg = q
  BY <1>2 DEF Idle
<1>4. /\ cpu.pc \in SavedPoints /\ cpu.pc # "resume"
      /\ \A r \in Pids0 : r # S => kstack'[r] = kstack[r]
      /\ processes' = save_queue /\ current_active_process' = NextTerm /\ NextTerm \in Terms
      /\ esp' = Above(esp, 1)
      /\ \A t \in Terms : saved'[t] = IF t = NextTerm THEN NoContext
                          ELSE IF t = a THEN Saved(cpu, S, D + 1) ELSE saved[t]
  BY <1>1, SaveEffect DEF SavedPoints, SafePoints
<1>5. /\ a \in Terms /\ p \in Pids0 /\ processes \in [Terms -> Pids0] /\ pcb_esp \in [Pids0 -> Addr]
      /\ present \in [Pids0 -> BOOLEAN] /\ parent \in [Pids0 -> Pids0]
      /\ caller \in [Pids -> Dead .. MAX_PID] /\ TypeInv
  BY DEF SafeInv, TypeInv, TypeOK
<1>6. /\ p \in 0 .. NUM_PROCESSES - 1 /\ a = p /\ p # q /\ q # 0 /\ Pids \subseteq Pids0
      /\ \A r \in Pids : caller[r] = IF r <= p THEN Root ELSE Dead
  BY <1>1 DEF Launching, Pids, Pids0
<1>7. /\ caller'[q] = Root /\ \A r \in Pids : r # q => caller'[r] = caller[r]
      /\ \A r \in Pids : caller'[r] = IF r <= q THEN Root ELSE Dead
  BY <1>1, <1>2, <1>5, <1>6 DEF Pids
<1>8. pcb_esp'[p] = Above(esp, 1) /\ \A r \in Pids0 : r # p /\ r # q => pcb_esp'[r] = pcb_esp[r]
  BY <1>1, <1>2, <1>5, <1>6
<1>9. CpuInv'
  BY <1>1, <1>2, <1>3, <1>4, <1>7, <1>8 DEF CpuInv, CtxOK, CallPoints
<1>10. \A t \in Terms : t = NextTerm => Leaf(t)' = q
  BY <1>2, <1>4 DEF Leaf
<1>11. \A t \in Terms : t # NextTerm => Leaf(t)' = Leaf(t)
  BY <1>4, <1>5 DEF Leaf, save_queue
<1>12. \A t \in Terms : Leaf(t) # q /\ Leaf(t) \in Pids0
  BY <1>1, <1>5, <1>6, LeafType DEF SafeInv, ChainInv, LeavesLive, Pids, Dead
<1>13. SavedInv'
  <2> SUFFICES ASSUME NEW t \in Terms
               PROVE  /\ saved'[t] # NoContext => SavedOK(t)'
                      /\ saved'[t] = NoContext => t = current_active_process' \/ Leaf(t)' = 0
    BY DEF SavedInv
  <2>1. CASE t = NextTerm
    BY <1>4, <2>1
  <2>2. CASE t # NextTerm /\ t = a
    <3>1. Leaf(t)' = p
      BY <1>5, <1>11, <2>2, LeafType
    <3>2. p \in Pids => caller'[p] = caller[p]
      BY <1>6, <1>7
    <3>3. ~ Claims(cpu, cpu.arg)
      BY <1>1 DEF Claims, Launching, ExecPoints
    <3> QED BY <1>1, <1>4, <1>8, <2>2, <3>1, <3>2, <3>3, SavedByTick
  <2>3. CASE t # NextTerm /\ t # a /\ saved[t] # NoContext
    <3>1. /\ SavedOK(t) /\ Leaf(t) # p
          /\ kstack'[StackOf(saved[t].frame.cpu, Leaf(t))] = kstack[StackOf(saved[t].frame.cpu, Leaf(t))]
      BY <1>4, <2>3, OthersApart
    <3>2. pcb_esp'[Leaf(t)] = pcb_esp[Leaf(t)] /\ saved'[t] = saved[t] /\ Leaf(t)' = Leaf(t)
      BY <1>4, <1>8, <1>11, <1>12, <2>3, <3>1
    <3>3. Leaf(t) \in Pids => caller'[Leaf(t)] = caller[Leaf(t)]
      BY <1>7, <1>12
    <3>4. ~ Claims(saved[t].frame.cpu, saved[t].frame.cpu.arg)
      BY <1>1 DEF Claims, Launching, ExecPoints
    <3>5. t # current_active_process'
      BY <1>4, <2>3
    <3> QED BY <1>5, <2>3, <3>1, <3>2, <3>3, <3>4, <3>5, SavedKept
  <2>4. CASE t # NextTerm /\ t # a /\ saved[t] = NoContext
    BY <1>4, <1>11, <2>4 DEF SafeInv, SavedInv
  <2> QED BY <1>4, <2>1, <2>2, <2>3, <2>4
<1>14. ChainInv'
  <2>1. \A r \in Pids : caller'[r] \notin Pids /\ (caller'[r] = Root => r < ShellLimit)
    BY <1>1, <1>7, TaskingConstants DEF Root, Dead, Pids, ShellLimit
  <2>2. RootsAreShells' /\ Callers' /\ OneCallee'
    BY <2>1 DEF RootsAreShells, Callers, OneCallee
  <2>3. LeavesLive'
    <3> SUFFICES ASSUME NEW t \in Terms, Leaf(t)' # 0 PROVE caller'[Leaf(t)'] # Dead
      BY DEF LeavesLive
    <3>1. CASE t = NextTerm
      BY <1>7, <1>10, <3>1 DEF Root, Dead
    <3>2. CASE t # NextTerm
      <4>1. Leaf(t)' = Leaf(t) /\ Leaf(t) \in Pids /\ Leaf(t) # q
        BY <1>5, <1>11, <1>12, <3>2, LeafType
      <4> QED BY <1>7, <4>1 DEF SafeInv, ChainInv, LeavesLive, Pids
    <3> QED BY <3>1, <3>2
  <2>4. LeavesDiffer'
    <3> SUFFICES ASSUME NEW t \in Terms, NEW u \in Terms, t # u, Leaf(t)' # 0
                 PROVE  Leaf(t)' # Leaf(u)'
      BY DEF LeavesDiffer
    <3>1. CASE t = NextTerm \/ u = NextTerm
      BY <1>10, <1>11, <1>12, <3>1
    <3>2. CASE t # NextTerm /\ u # NextTerm
      BY <1>11, <3>2 DEF SafeInv, ChainInv, LeavesDiffer
    <3> QED BY <3>1, <3>2
  <2> QED BY <2>2, <2>3, <2>4 DEF ChainInv
<1>15. \A r \in Pids : ~ Claims(cpu', r) /\ \A t \in Terms : ~ Claims(saved'[t].frame.cpu, r)
  BY <1>1, <1>3, <1>4 DEF Claims, Saved, NoContext, Junk, Idle
<1>16. ClaimInv'
  BY <1>15 DEF ClaimInv
<1>17. PresentInv'
  <2> SUFFICES ASSUME NEW r \in Pids
               PROVE  present'[r] <=> (caller'[r] # Dead /\ ~ Halting(r)') \/ Claimed(r)'
    BY DEF PresentInv
  <2>1. ~ Halting(r)' /\ ~ Claimed(r)'
    BY <1>3, <1>15 DEF Halting, HaltPoints, Claimed
  <2>2. present'[r] <=> present[r] \/ r = q
    BY <1>1, <1>2, <1>5, <1>6
  <2> QED BY <1>1, <1>6, <1>7, <2>1, <2>2 DEF Root, Dead, Pids
<1>18. WaitInv'
  BY <1>7 DEF WaitInv, Root, Dead, Pids
<1>19. LaunchInv'
  <2>1. \A t \in Terms : processes'[t] = IF 0 < t /\ t < q THEN t ELSE 0
    BY <1>1, <1>4, <1>5, <1>6 DEF save_queue, Launching, Terms
  <2>2. CASE p = NUM_PROCESSES - 1
    BY <1>1, <1>2, <1>4, <1>6, <1>7, <2>1, <2>2, TaskingConstants DEF LaunchInv, Up, Terms, Pids
  <2>3. CASE p # NUM_PROCESSES - 1
    <3>1. cpu'.pc \notin ExecPoints /\ \A t \in Terms : saved'[t].frame.cpu.pc \notin ExecPoints
      BY <1>1, <1>3, <1>4 DEF Launching, ExecPoints, Saved, NoContext, Junk, Idle
    <3> QED BY <1>1, <1>2, <1>4, <1>6, <1>7, <2>1, <2>3, <3>1, TaskingConstants DEF LaunchInv, Launching
  <2> QED BY <2>2, <2>3
<1> QED BY <1>9, <1>13, <1>14, <1>16, <1>17, <1>18, <1>19

(* The next task gets its context back. *)
LEMMA ResumeSafe ==
  ASSUME SafeInv, Resume
  PROVE  CpuInv' /\ SavedInv' /\ ChainInv' /\ PresentInv' /\ ClaimInv' /\ WaitInv' /\ LaunchInv'
<1> DEFINE p == current_process
           a == current_active_process
           c == saved[a].frame.cpu
           S == StackOf(c, p)
           D == DepthOf(c)
<1>1. /\ cpu.pc = "resume"
      /\ saved' = [saved EXCEPT ![a] = NoContext]
      /\ UNCHANGED <<present, parent, pcb_esp, processes, current_process, current_active_process, caller>>
  BY DEF Resume, pcbs, queue
<1>2. /\ a \in Terms /\ Leaf(a) = p /\ p # 0 /\ p \in Pids /\ saved[a] # NoContext /\ SavedOK(a)
      /\ TypeInv /\ ChainInv
  BY <1>1, LeafType DEF SafeInv, CpuInv, SavedInv
<1>3. /\ pcb_esp[p] = At(S, D + 1) /\ FrameAt(At(S, D + 1)) = saved[a].frame
      /\ saved[a].frame.kind = "tick" /\ c.pc \in SavedPoints /\ CtxOK(caller, parent, kstack, c, p)
  BY <1>2 DEF SavedOK
<1>4. PopTo(At(S, D + 1), c)
  BY <1>1, <1>3 DEF Resume
<1>5. S \in Pids0 /\ D \in {0, 1}
  BY <1>2, <1>3 DEF CtxOK, StackOf, DepthOf, Pids, Pids0
<1>6. /\ cpu' = c
      /\ esp' = IF c.pc = "user" THEN At(p, 0) ELSE Above(At(S, D + 1), -1)
      /\ kstack' = [kstack EXCEPT ![S] = PushOn(S, D + 1, Junk)]
  BY <1>4 DEF PopTo, At
<1>7. \A r \in Pids0 : r # S => kstack'[r] = kstack[r]
  BY <1>2, <1>6 DEF TypeInv, TypeOK
<1>8. D = 1 => kstack'[S][1] = kstack[S][1]
  <2>1. kstack'[S] = PushOn(S, D + 1, Junk)
    BY <1>2, <1>5, <1>6 DEF TypeInv, TypeOK
  <2>2. 1 \in 0 .. StackDepth /\ 1 < 1 + 1
    BY TaskingConstants
  <2> QED BY <2>1, <2>2 DEF PushOn
<1>9. c.pc # "boot" /\ (c.pc = "user" => S = p /\ D = 0)
  BY <1>2, <1>3 DEF CtxOK, StackOf, DepthOf
<1>10. Above(At(S, D + 1), -1) = At(S, D)
  BY <1>5 DEF Above, At
<1>11. esp' = At(S, D)
  BY <1>6, <1>9, <1>10
<1>12. CtxOK(caller, parent, kstack', c, p)
  <2>1. c.pc \in CallPoints => D = 1
    BY DEF CallPoints, DepthOf
  <2> HIDE DEF c
  <2> QED BY <1>3, <1>8, <2>1 DEF CtxOK
<1>13. CpuInv'
  <2>1. c.pc \notin {"crashed", "resume", "kload", "unwind", "claim", "parent", "kfind", "kclaim"}
    BY <1>3 DEF SavedPoints, SafePoints
  <2> HIDE DEF c
  <2> QED BY <1>1, <1>6, <1>11, <1>12, <2>1 DEF CpuInv
<1>14. \A t \in Terms : Leaf(t)' = Leaf(t)
  BY <1>1 DEF Leaf
<1>15. \A t \in Terms : saved'[t] = IF t = a THEN NoContext ELSE saved[t]
  BY <1>1, <1>2 DEF TypeInv, TypeOK
<1>16. SavedInv'
  <2> SUFFICES ASSUME NEW t \in Terms
               PROVE  /\ saved'[t] # NoContext => SavedOK(t)'
                      /\ saved'[t] = NoContext => t = current_active_process' \/ Leaf(t)' = 0
    BY DEF SavedInv
  <2>1. CASE t = a
    BY <1>1, <1>15, <2>1
  <2>2. CASE t # a /\ saved[t] # NoContext
    <3> DEFINE d == saved[t].frame.cpu
    <3>1. SavedOK(t) /\ CtxOK(caller, parent, kstack, d, Leaf(t))
      BY <2>2 DEF SafeInv, SavedInv, SavedOK
    <3>2. StackOf(d, Leaf(t)) # S
      <4> HIDE DEF c, d
      <4> QED BY <1>2, <1>3, <2>2, <3>1, ContextsApart
    <3>3. StackOf(d, Leaf(t)) \in Pids0
      BY <1>2, <3>1, LeafType DEF CtxOK, StackOf, Pids, Pids0
    <3>4. kstack'[StackOf(d, Leaf(t))] = kstack[StackOf(d, Leaf(t))]
      BY <1>7, <3>2, <3>3
    <3> QED BY <1>1, <1>2, <1>14, <1>15, <2>2, <3>1, <3>4, SavedKept
  <2>3. CASE t # a /\ saved[t] = NoContext
    BY <1>14, <1>15, <2>3 DEF SafeInv, SavedInv
  <2> QED BY <1>15, <2>1, <2>2, <2>3
<1>17. ChainInv'
  BY <1>1, <1>14 DEF SafeInv, ChainInv, RootsAreShells, Callers, OneCallee, LeavesLive, LeavesDiffer
<1>18. /\ \A t \in Terms : saved'[t].frame.cpu = IF t = a THEN Idle ELSE saved[t].frame.cpu
       /\ Idle.pc = "boot" /\ cpu' = saved[a].frame.cpu
  BY <1>6, <1>15 DEF NoContext, Junk, Idle
<1>19. \A q \in Pids : /\ ~ Claims(Idle, q) /\ ~ Claims(cpu, q)
                       /\ Claims(cpu', q) <=> Claims(saved[a].frame.cpu, q)
  BY <1>1, <1>18 DEF Claims
<1>20. \A q \in Pids : Claimed(q)' <=> Claimed(q)
  <2> SUFFICES ASSUME NEW q \in Pids PROVE Claimed(q)' <=> Claimed(q)
    OBVIOUS
  <2>1. Claimed(q)' <=> Claims(cpu', q) \/ \E t \in Terms : Claims(saved'[t].frame.cpu, q)
    BY DEF Claimed
  <2> QED BY <1>2, <1>18, <1>19, <2>1 DEF Claimed
<1>21. PresentInv'
  <2>1. \A q \in Pids : ~ Halting(q) /\ ~ Halting(q)'
    BY <1>1, <1>3, <1>6 DEF Halting, HaltPoints, SavedPoints, SafePoints
  <2> QED BY <1>1, <1>20, <2>1 DEF SafeInv, PresentInv
<1>22. ClaimInv'
  BY <1>2, <1>18, <1>19 DEF SafeInv, ClaimInv
<1>23. WaitInv'
  <2> SUFFICES ASSUME NEW q \in Pids, caller[q] \in Pids, ~ Loading(q)'
               PROVE  /\ pcb_esp[caller[q]] = At(caller[q], 1)
                      /\ kstack'[caller[q]][1] = CallFrame(caller[q])
    BY <1>1 DEF WaitInv
  <2>1. ~ Loading(q) /\ ~ (c.pc = "load" /\ c.arg = q)
    BY <1>1, <1>2, <1>18 DEF Loading
  <2>2. S # caller[q]
    <3> HIDE DEF c
    <3> QED BY <1>2, <1>3, <2>1, WaiterApart
  <2>3. kstack'[caller[q]] = kstack[caller[q]]
    BY <1>7, <2>2 DEF Pids, Pids0
  <2> QED BY <2>1, <2>3 DEF SafeInv, WaitInv
<1>24. LaunchInv'
  BY <1>1, <1>2, <1>18 DEF SafeInv, LaunchInv, Launching, Up, ExecPoints
<1> QED BY <1>13, <1>16, <1>17, <1>21, <1>22, <1>23, <1>24
-----------------------------------------------------------------------------
(* Every step keeps the invariant. *)
LEMMA SafeStep ==
  ASSUME SafeTicks, SafeInv, [Next]_vars
  PROVE  SafeInv'
<1> DEFINE Goal == CpuInv' /\ SavedInv' /\ ChainInv' /\ PresentInv' /\ ClaimInv' /\ WaitInv' /\ LaunchInv'
<1>1. TypeInv'
  BY TypeInvStep DEF SafeInv
<1> SUFFICES Goal
  BY <1>1 DEF SafeInv
<1>2. CASE Tick
  <2>1. ASSUME LaunchFails PROVE FALSE
    BY <2>1, LaunchNext DEF LaunchFails
  <2> QED BY <1>2, <2>1, SwitchTaskSafe, LaunchShellSafe DEF Tick
<1>3. CASE Resume
  BY <1>3, ResumeSafe
<1>4. CASE Work
  BY <1>4, FindSafe, ClaimSafe, EnterSafe, KFindSafe, KClaimSafe, KEnterSafe, ReturnSafe, LoadSafe,
     FreeSafe, HaltSafe, SwitchToParentSafe DEF Work
<1>5. CASE UserStep
  BY <1>5, SysExecuteSafe, EntrySafe, ReturnSafe DEF UserStep
<1>6. CASE UNCHANGED vars
  <2>1. UNCHANGED <<present, parent, pcb_esp, processes, current_process, current_active_process,
                    cpu, esp, kstack, saved, caller>>
    BY <1>6 DEF vars, pcbs, queue
  <2>2. \A t \in Terms : Leaf(t)' = Leaf(t)
    BY <2>1 DEF Leaf
  <2>3. CpuInv'
    BY <2>1 DEF SafeInv, CpuInv
  <2>4. SavedInv'
    BY <2>1, <2>2 DEF SafeInv, SavedInv, SavedOK, FrameAt
  <2>5. ChainInv'
    BY <2>1, <2>2 DEF SafeInv, ChainInv, RootsAreShells, Callers, OneCallee, LeavesLive, LeavesDiffer
  <2>6. PresentInv' /\ ClaimInv'
    BY <2>1 DEF SafeInv, PresentInv, ClaimInv, Halting, Claimed
  <2>7. WaitInv'
    BY <2>1 DEF SafeInv, WaitInv, Loading
  <2>8. LaunchInv'
    BY <2>1 DEF SafeInv, LaunchInv, Launching, Up
  <2> QED BY <2>3, <2>4, <2>5, <2>6, <2>7, <2>8
<1> QED BY <1>2, <1>3, <1>4, <1>5, <1>6 DEF Next

(* The invariant of tasking when the PIT spares the unsafe windows. *)
LEMMA SafeInvariant == ASSUME SafeTicks PROVE Spec => []SafeInv
<1>1. SafeInv /\ [Next]_vars => SafeInv'
  BY SafeStep
<1> QED BY <1>1, SafeInit, PTL DEF Spec
-----------------------------------------------------------------------------
(* "restore old stack w/ iret context of next task": a preempted terminal   *)
(* finds its context intact where its PCB points, whatever the others do.   *)
THEOREM ContextsIntact == ASSUME SafeTicks PROVE Spec => []ContextIntegrity
<1>1. SafeInv => ContextIntegrity
  BY DEF SafeInv, SavedInv, SavedOK, ContextIntegrity
<1> QED BY <1>1, SafeInvariant, PTL

(* A program waiting in execute keeps the frame of its call, to which halt  *)
(* returns.                                                                 *)
THEOREM CallersIntact == ASSUME SafeTicks PROVE Spec => []CallerFrameIntact
<1>1. SafeInv => CallerFrameIntact
  <2> SUFFICES ASSUME SafeInv, NEW p \in Pids, WaitsInExecute(p)
               PROVE  FrameAt(pcb_esp[p]) = CallFrame(p)
    BY DEF CallerFrameIntact, CallFrame, UserCpu
  <2>1. pcb_esp[p] = At(p, 1) /\ kstack[p][1] = CallFrame(p)
    BY DEF WaitsInExecute, SafeInv, WaitInv, CpuInv
  <2> QED BY <2>1 DEF FrameAt, At
<1> QED BY <1>1, SafeInvariant, PTL

(* User code runs in its own process, which owns a PCB. *)
THEOREM UserInOwnProcess == ASSUME SafeTicks PROVE Spec => []UserContextMatches
<1>1. SafeInv => UserContextMatches
  <2> SUFFICES ASSUME SafeInv, cpu.pc = "user"
               PROVE  cpu.user = current_process /\ present[current_process]
    BY DEF UserContextMatches
  <2>1. current_process \in Pids /\ cpu.user = current_process
    BY DEF SafeInv, CpuInv, CtxOK, UserCpu
  <2>2. caller[current_process] # Dead
    BY <2>1, LeafType DEF SafeInv, ChainInv, LeavesLive, Pids
  <2> QED BY <2>1, <2>2 DEF SafeInv, PresentInv, Halting, HaltPoints
<1> QED BY <1>1, SafeInvariant, PTL

(* Every stack switch lands on the frame it expects. *)
THEOREM NeverCrashes == ASSUME SafeTicks PROVE Spec => []NotCrashed
<1>1. SafeInv => NotCrashed
  BY DEF SafeInv, CpuInv, NotCrashed
<1> QED BY <1>1, SafeInvariant, PTL

(* No PCB leaks and none is handed out twice. *)
THEOREM PcbsAccounted == ASSUME SafeTicks PROVE Spec => []PcbAccounting
<1>1. SafeInv => PcbAccounting
  <2> SUFFICES ASSUME SafeInv, NEW p \in Pids, present[p] # (caller[p] # Dead)
               PROVE  \E x \in Contexts : p \in InSetup(x.c) \cup InHalt(x.c, x.p)
    BY DEF PcbAccounting
  <2>1. present[p] \in BOOLEAN
    BY DEF SafeInv, TypeInv, TypeOK, Pids, Pids0
  <2>2. Halting(p) \/ Claimed(p)
    BY <2>1 DEF SafeInv, PresentInv
  <2>3. CASE Halting(p)
    <3> DEFINE x == [c |-> cpu, p |-> current_process]
    <3>1. x \in Contexts /\ x.c = cpu /\ x.p = current_process
      BY DEF Contexts
    <3>2. p \in InHalt(cpu, current_process)
      BY <2>3 DEF Halting, HaltPoints, InHalt
    <3> HIDE DEF x
    <3> QED BY <3>1, <3>2
  <2>4. CASE Claims(cpu, p)
    <3> DEFINE x == [c |-> cpu, p |-> current_process]
    <3>1. x \in Contexts /\ x.c = cpu
      BY DEF Contexts
    <3>2. p \in InSetup(cpu)
      BY <2>4 DEF Claims, InSetup
    <3> HIDE DEF x
    <3> QED BY <3>1, <3>2
  <2>5. ASSUME NEW t \in Terms, Claims(saved[t].frame.cpu, p)
        PROVE  \E x \in Contexts : p \in InSetup(x.c) \cup InHalt(x.c, x.p)
    <3> DEFINE x == [c |-> saved[t].frame.cpu, p |-> Leaf(t)]
    <3>1. x \in Contexts /\ x.c = saved[t].frame.cpu
      BY DEF Contexts
    <3>2. p \in InSetup(saved[t].frame.cpu)
      BY <2>5 DEF Claims, InSetup
    <3> HIDE DEF x
    <3> QED BY <3>1, <3>2
  <2> QED BY <2>2, <2>3, <2>4, <2>5 DEF Claimed
<1> QED BY <1>1, SafeInvariant, PTL

(* Between two safe points no tick comes, so the program point tells the    *)
(* step.                                                                    *)
LEMMA StepAt ==
  ASSUME SafeTicks, Next
  PROVE  /\ cpu.pc = "freed" => HaltShell \/ HaltChild
         /\ cpu.pc = "parent" => SwitchToParent
         /\ cpu.pc = "claim" => ClaimPcb("claim", "enter")
         /\ cpu.pc = "kclaim" => ClaimPcb("kclaim", "kenter")
<1>1. cpu.pc \in {"freed", "parent", "claim", "kclaim"} => Work
  BY DEF Next, Tick, UserStep, SwitchTask, LaunchShell, LaunchFails, TickMayHit, SafeTicks, SafePoints,
         Resume, SysExecute, SysRead, ReadDone, SysHalt, Fault
<1> QED BY <1>1 DEF Work, FindFreePcb, ClaimPcb, EnterPcb, KFindFreePcb, KEnterPcb, ExecuteRefused,
         LoadDone, free_current_pcb, HaltShell, HaltChild, SwitchToParent, Unwind

(* halt "returns control to program that executed current program", and     *)
(* only a base shell is replaced by a new shell.                            *)
THEOREM HaltsToCaller == ASSUME SafeTicks PROVE Spec => HaltReturnsToCaller
<1>1. SafeInv /\ [Next]_vars =>
        [/\ (cpu.pc = "freed" /\ cpu'.pc = "kfind") => caller[current_process] = Root
         /\ (cpu.pc = "parent" /\ cpu'.pc = "unwind") => current_process' = caller[current_process]]_vars
  <2> SUFFICES ASSUME SafeInv, Next
               PROVE  /\ (cpu.pc = "freed" /\ cpu'.pc = "kfind") => caller[current_process] = Root
                      /\ (cpu.pc = "parent" /\ cpu'.pc = "unwind") => current_process' = caller[current_process]
    OBVIOUS
  <2>1. ASSUME cpu.pc = "freed", cpu'.pc = "kfind" PROVE caller[current_process] = Root
    <3>1. HaltShell
      BY <2>1, StepAt DEF HaltChild, SafeInv, TypeInv, TypeOK, Cpu
    <3>2. current_process \in Pids
      BY <2>1 DEF SafeInv, CpuInv, CtxOK
    <3> QED BY <3>1, <3>2, CurrentCaller DEF HaltShell
  <2>2. ASSUME cpu.pc = "parent" PROVE current_process' = caller[current_process]
    BY <2>2, StepAt DEF SwitchToParent, switch_context, SafeInv, CpuInv
  <2> QED BY <2>1, <2>2
<1> QED BY <1>1, SafeInvariant, PTL DEF Spec, HaltReturnsToCaller

(* setup_new_process stores the new PCB in one that is still free. *)
THEOREM ClaimsAreFree == ASSUME SafeTicks PROVE Spec => ClaimedPcbIsFree
<1>1. SafeInv => (cpu.pc \in {"claim", "kclaim"} => ~ present[cpu.arg])
  <2> SUFFICES ASSUME SafeInv, cpu.pc \in {"claim", "kclaim"} PROVE ~ present[cpu.arg]
    OBVIOUS
  <2>1. CASE cpu.pc = "claim"
    BY <2>1 DEF SafeInv, CpuInv
  <2>2. CASE cpu.pc = "kclaim"
    <3>1. current_process \in Pids /\ cpu.arg = current_process /\ caller[current_process] = Root
      BY <2>2 DEF SafeInv, CpuInv, CtxOK
    <3>2. ~ Claimed(current_process)
      BY <3>1, ClaimedDead DEF Root, Dead
    <3> QED BY <2>2, <3>1, <3>2 DEF SafeInv, PresentInv, Halting, HaltPoints
  <2> QED BY <2>1, <2>2
<1>2. SafeInv => [cpu.pc \in {"claim", "kclaim"} /\ cpu'.pc \in {"enter", "kenter"} => ~ present[cpu.arg]]_vars
  BY <1>1
<1> QED BY <1>2, SafeInvariant, PTL DEF ClaimedPcbIsFree
-----------------------------------------------------------------------------
(* Every step of Tasking is a step of ProcTree or leaves its state alone.   *)
LEMMA TreeStep ==
  ASSUME SafeTicks, SafeInv, [Next]_vars
  PROVE  [Tree!Next]_(Tree!vars)
<1> DEFINE p == current_process
           a == current_active_process
           lf == [t \in Terms |-> Leaf(t)]
<1>1. /\ a \in Terms /\ p \in Pids0 /\ lf[a] = p /\ TypeInv
      /\ caller \in [Pids -> Dead .. MAX_PID] /\ processes \in [Terms -> Pids0]
  BY LeafType DEF SafeInv, TypeInv, TypeOK
<1>2. ASSUME UNCHANGED <<processes, current_process, current_active_process, caller>>
      PROVE  UNCHANGED Tree!vars
  BY <1>2 DEF Tree!vars, Leaf
<1>3. CASE EnterPcb
  <2> DEFINE q == cpu.arg
  <2>1. /\ current_process' = q /\ caller' = [caller EXCEPT ![q] = cpu.edi]
        /\ UNCHANGED <<processes, current_active_process>>
    BY <1>3 DEF EnterPcb, switch_context
  <2>2. p # 0 /\ q \in Pids /\ cpu.edi = p /\ caller[q] = Dead
    BY <1>3 DEF EnterPcb, SafeInv, CpuInv, CtxOK, Pids
  <2>3. lf' = [lf EXCEPT ![a] = q]
    BY <1>1, <2>1 DEF Leaf
  <2>4. Tree!Execute
    BY <1>1, <2>1, <2>2, <2>3 DEF Tree!Execute, Tree!Pids, Tree!Dead, Pids, Dead
  <2> QED BY <2>4 DEF Tree!Next
<1>4. CASE SwitchToParent
  <2>1. /\ current_process' = caller[p] /\ caller' = [caller EXCEPT ![p] = Dead]
        /\ UNCHANGED <<processes, current_active_process>>
    BY <1>4 DEF SwitchToParent, switch_context, SafeInv, CpuInv
  <2>2. p # 0 /\ caller[p] # Root
    BY <1>4 DEF SwitchToParent, SafeInv, CpuInv, CtxOK, Pids, Root
  <2>3. lf' = [lf EXCEPT ![a] = caller[p]]
    BY <1>1, <2>1 DEF Leaf
  <2>4. Tree!HaltChild
    BY <1>1, <2>1, <2>2, <2>3 DEF Tree!HaltChild, Tree!Root, Tree!Dead, Root, Dead
  <2> QED BY <2>4 DEF Tree!Next
<1>5. CASE KEnterPcb
  <2>1. p \in Pids /\ cpu.arg = p /\ cpu.edi = p /\ caller[p] = Root
    BY <1>5 DEF KEnterPcb, SafeInv, CpuInv, CtxOK
  <2>2. caller' = caller /\ current_process' = p /\ UNCHANGED <<processes, current_active_process>>
    BY <1>1, <1>5, <2>1 DEF KEnterPcb, switch_context
  <2> QED BY <1>2, <2>2
<1>6. CASE SwitchTask
  <2>1. /\ current_process' = get_next_task_pid /\ get_next_task_pid # 0 /\ processes' = save_queue
        /\ current_active_process' = NextTerm /\ caller' = caller /\ NextTerm \in Terms
    BY <1>1, <1>6, NextTermInTerms DEF SwitchTask, SaveContext, switch_context
  <2>2. lf' = lf /\ lf[NextTerm] # 0
    BY <1>1, <2>1 DEF Leaf, save_queue, get_next_task_pid
  <2>3. Tree!Tick
    BY <2>1, <2>2 DEF Tree!Tick, NextTerm
  <2> QED BY <2>3 DEF Tree!Next
<1>7. CASE LaunchShell
  <2> DEFINE q == p + 1
  <2>1. /\ get_next_task_pid = 0 /\ processes' = save_queue
        /\ current_active_process' = NextTerm /\ NextTerm \in Terms /\ TickMayHit
    BY <1>1, <1>7, NextTermInTerms DEF LaunchShell, SaveContext
  <2>2. /\ current_process' = q /\ caller' = [caller EXCEPT ![q] = Root]
        /\ q \in Pids /\ Launching
    BY <1>7, LaunchNext DEF LaunchShell, switch_context
  <2>3. caller[q] = Dead
    BY <2>2 DEF Launching
  <2>4. lf' = [lf EXCEPT ![NextTerm] = q] /\ lf[NextTerm] = 0
    BY <1>1, <2>1, <2>2 DEF Leaf, save_queue, get_next_task_pid
  <2>5. Tree!StartShell(NextTerm, q)
    BY <2>2, <2>4 DEF Tree!StartShell, Tree!Root, Root
  <2>6. Tree!Tick
    BY <2>1, <2>2, <2>3, <2>4, <2>5 DEF Tree!Tick, NextTerm, Tree!Pids, Tree!Dead, Pids, Dead
  <2> QED BY <2>6 DEF Tree!Next
<1>8. CASE LaunchFails
  BY <1>8, LaunchNext DEF LaunchFails
<1>9. CASE Resume \/ UserStep \/ UNCHANGED vars
  BY <1>2, <1>9 DEF Resume, UserStep, SysExecute, SysRead, ReadDone, SysHalt, Fault, vars, queue
<1>10. CASE Work /\ ~ EnterPcb /\ ~ SwitchToParent /\ ~ KEnterPcb
  BY <1>2, <1>10 DEF Work, FindFreePcb, ClaimPcb, KFindFreePcb, ExecuteRefused,
         LoadDone, free_current_pcb, HaltShell, HaltChild, Unwind, queue
<1> QED BY <1>3, <1>4, <1>5, <1>6, <1>7, <1>8, <1>9, <1>10 DEF Next, Tick, Work

(* Tasking implements the promise of ProcTree. *)
THEOREM ImplementsTree == ASSUME SafeTicks PROVE Spec => TreeSpec
<1>1. Init => Tree!Init
  BY DEF Init, Tree!Init, Leaf, Tree!Terms, Terms, Tree!Pids, Pids, Tree!Dead, Dead
<1>2. SafeInv /\ [Next]_vars => [Tree!Next]_(Tree!vars)
  BY TreeStep
<1> QED BY <1>1, <1>2, SafeInvariant, PTL DEF Spec, TreeSpec, Tree!Spec
-----------------------------------------------------------------------------
(* ProcTree's accounting of the programs, of any leaves l and callers c.    *)
LiveIn(c, p)  == c[p] # Dead
LeafIn(l, p)  == \E t \in Terms : l[t] = p
WaitsIn(c, p) == \E q \in Pids : c[q] = p

TreeTypes(l, c) == l \in [Terms -> 0 .. MAX_PID] /\ c \in [Pids -> Dead .. MAX_PID]

Accounted(l, c) ==
  /\ \A t \in Terms : l[t] # 0 => LiveIn(c, l[t])
  /\ \A p \in Pids : LiveIn(c, p) <=> LeafIn(l, p) \/ WaitsIn(c, p)
  /\ \A p \in Pids : ~ (LeafIn(l, p) /\ WaitsIn(c, p))
  /\ \A s, t \in Terms : l[s] = l[t] /\ l[s] # 0 => s = t
  /\ \A p, q \in Pids : c[p] = c[q] /\ c[p] \in Pids => p = q

TreeInv(l, c) == TreeTypes(l, c) /\ Accounted(l, c)

(* The two callers that are not programs are told from every pid. *)
LEMMA Outsiders == Dead \notin Pids /\ Root \notin Pids /\ 0 \notin Pids /\ Dead # Root
BY DEF Dead, Root, Pids

(* A shell started on a terminal without one: a tick does it at boot. *)
LEMMA ShellStarts ==
  ASSUME NEW l, NEW c, NEW l2, NEW c2, TreeInv(l, c),
         NEW t \in Terms, NEW p \in Pids, l[t] = 0, c[p] = Dead,
         l2 = [l EXCEPT ![t] = p], c2 = [c EXCEPT ![p] = Root]
  PROVE  TreeInv(l2, c2)
<1>t. TreeTypes(l, c) /\ Accounted(l, c)
  BY DEF TreeInv
<1>1. TreeTypes(l2, c2)
  BY TaskingConstants DEF TreeInv, TreeTypes, Terms, Pids, Dead, Root
<1>2. ~ LeafIn(l, p) /\ ~ WaitsIn(c, p)
  BY DEF TreeInv, Accounted, LiveIn
<1>3. \A s \in Terms : l2[s] = IF s = t THEN p ELSE l[s]
  BY DEF TreeInv, TreeTypes
<1>4. \A q \in Pids : c2[q] = IF q = p THEN Root ELSE c[q]
  BY DEF TreeInv, TreeTypes
<1>5. \A q \in Pids : LiveIn(c2, q) <=> LiveIn(c, q) \/ q = p
  BY <1>4, Outsiders DEF LiveIn
<1>6. \A q \in Pids : LeafIn(l2, q) <=> LeafIn(l, q) \/ q = p
  BY <1>3, Outsiders DEF LeafIn
<1>7. \A q \in Pids : WaitsIn(c2, q) <=> WaitsIn(c, q)
  BY <1>4, Outsiders DEF WaitsIn
<1>8. \A s \in Terms : l2[s] # 0 => c2[l2[s]] # Dead
  <2> TAKE s \in Terms
  <2>1. CASE s = t
    BY <2>1, <1>3, <1>4, Outsiders DEF LiveIn
  <2>2. CASE s # t /\ l[s] # 0
    <3>1. l[s] \in Pids /\ LiveIn(c, l[s])
      BY <2>2 DEF TreeInv, TreeTypes, Accounted, Pids
    <3> QED BY <3>1, <2>2, <1>3, <1>4, <1>5 DEF LiveIn
  <2> QED BY <2>1, <2>2, <1>3
<1>9. \A q \in Pids : LiveIn(c2, q) <=> LeafIn(l2, q) \/ WaitsIn(c2, q)
  BY <1>5, <1>6, <1>7 DEF TreeInv, Accounted
<1>10. \A q \in Pids : ~ (LeafIn(l2, q) /\ WaitsIn(c2, q))
  BY <1>2, <1>6, <1>7 DEF TreeInv, Accounted
<1>11. \A r, s \in Terms : l2[r] = l2[s] /\ l2[r] # 0 => r = s
  BY <1>2, <1>3 DEF TreeInv, Accounted, LeafIn
<1>12. \A q, r \in Pids : c2[q] = c2[r] /\ c2[q] \in Pids => q = r
  BY <1>4, Outsiders DEF TreeInv, Accounted
<1>13. Accounted(l2, c2)
  BY <1>8, <1>9, <1>10, <1>11, <1>12 DEF Accounted, LiveIn
<1> QED BY <1>1, <1>13 DEF TreeInv

(* execute puts a fresh program under the running one. *)
LEMMA ProgramExecutes ==
  ASSUME NEW l, NEW c, NEW l2, NEW c2, TreeInv(l, c),
         NEW a \in Terms, NEW p \in Pids, l[a] # 0, c[p] = Dead,
         l2 = [l EXCEPT ![a] = p], c2 = [c EXCEPT ![p] = l[a]]
  PROVE  TreeInv(l2, c2)
<1>t. TreeTypes(l, c) /\ Accounted(l, c)
  BY DEF TreeInv
<1> DEFINE x == l[a]
<1>1. c[p] = Dead /\ l2 = [l EXCEPT ![a] = p] /\ c2 = [c EXCEPT ![p] = x]
  OBVIOUS
<1>2. x \in Pids /\ LiveIn(c, x) /\ ~ WaitsIn(c, x) /\ p # x
  BY <1>t, <1>1 DEF TreeTypes, Accounted, LiveIn, LeafIn, Pids
<1>3. TreeTypes(l2, c2)
  BY <1>t, <1>1, <1>2, TaskingConstants DEF TreeTypes, Pids, Dead
<1>4. ~ LeafIn(l, p) /\ ~ WaitsIn(c, p)
  BY <1>t, <1>1 DEF Accounted, LiveIn
<1> HIDE DEF x
<1>5. \A t \in Terms : l2[t] = IF t = a THEN p ELSE l[t]
  BY <1>t, <1>1 DEF TreeTypes
<1>6. \A q \in Pids : c2[q] = IF q = p THEN x ELSE c[q]
  BY <1>t, <1>1 DEF TreeTypes
<1>7. l[a] = x /\ x # Dead
  BY <1>2, TaskingConstants DEF x, Pids, Dead
<1>8. \A q \in Pids : LiveIn(c2, q) <=> LiveIn(c, q) \/ q = p
  BY <1>6, <1>7 DEF LiveIn
<1>9. \A q \in Pids : LeafIn(l2, q) <=> (LeafIn(l, q) /\ q # x) \/ q = p
  BY <1>t, <1>2, <1>4, <1>5, <1>7 DEF LeafIn, Accounted, Pids
<1>10. \A q \in Pids : WaitsIn(c2, q) <=> WaitsIn(c, q) \/ q = x
  BY <1>1, <1>2, <1>4, <1>6 DEF WaitsIn, Dead, Pids
<1>11. Accounted(l2, c2)
  BY <1>t, <1>1, <1>2, <1>4, <1>5, <1>6, <1>7, <1>8, <1>9, <1>10 DEF Accounted, LeafIn, WaitsIn, LiveIn
<1> QED BY <1>3, <1>11 DEF TreeInv

(* halt returns to the caller. *)
LEMMA ProgramHalts ==
  ASSUME NEW l, NEW c, NEW l2, NEW c2, TreeInv(l, c),
         NEW a \in Terms, l[a] # 0, c[l[a]] # Root,
         l2 = [l EXCEPT ![a] = c[l[a]]], c2 = [c EXCEPT ![l[a]] = Dead]
  PROVE  TreeInv(l2, c2)
<1>t. TreeTypes(l, c) /\ Accounted(l, c)
  BY DEF TreeInv
<1> DEFINE x == l[a]
           y == c[x]
<1>1. /\ l2 = [l EXCEPT ![a] = y]
      /\ c2 = [c EXCEPT ![x] = Dead]
      /\ y # Root /\ x # 0
  OBVIOUS
<1>2. x \in Pids /\ LiveIn(c, x) /\ LeafIn(l, x) /\ ~ WaitsIn(c, x)
  BY <1>t, <1>1 DEF TreeTypes, Accounted, LeafIn, Pids
<1>3. y \in Pids /\ WaitsIn(c, y) /\ LiveIn(c, y) /\ ~ LeafIn(l, y) /\ x # y
  BY <1>t, <1>1, <1>2 DEF TreeTypes, Accounted, LiveIn, WaitsIn, LeafIn, Pids, Dead, Root
<1>4. TreeTypes(l2, c2)
  BY <1>t, <1>1, <1>2, <1>3, TaskingConstants DEF TreeTypes, Pids, Dead
<1>5. l[a] = x /\ c[x] = y
  OBVIOUS
<1> HIDE DEF x, y
<1>6. \A t \in Terms : l2[t] = IF t = a THEN y ELSE l[t]
  BY <1>t, <1>1 DEF TreeTypes
<1>7. \A q \in Pids : c2[q] = IF q = x THEN Dead ELSE c[q]
  BY <1>t, <1>1 DEF TreeTypes
<1>8. \A q \in Pids : LiveIn(c2, q) <=> LiveIn(c, q) /\ q # x
  BY <1>7 DEF LiveIn
<1>9. \A q \in Pids : LeafIn(l2, q) <=> (LeafIn(l, q) /\ q # x) \/ q = y
  BY <1>t, <1>2, <1>3, <1>5, <1>6 DEF LeafIn, Accounted, Pids
<1>10. \A q \in Pids : WaitsIn(c2, q) <=> WaitsIn(c, q) /\ q # y
  BY <1>t, <1>2, <1>3, <1>5, <1>7 DEF WaitsIn, Accounted, Dead, Pids
<1>11. \A s \in Terms : l2[s] # 0 => l2[s] \in Pids /\ l2[s] # x /\ LiveIn(c, l2[s])
  BY <1>t, <1>2, <1>3, <1>5, <1>6 DEF Accounted, TreeTypes, Pids
<1>12. \A s \in Terms : l2[s] # 0 => c2[l2[s]] # Dead
  BY <1>7, <1>11 DEF LiveIn
<1>13. \A q \in Pids : (LiveIn(c2, q) <=> LeafIn(l2, q) \/ WaitsIn(c2, q)) /\ ~ (LeafIn(l2, q) /\ WaitsIn(c2, q))
  BY <1>t, <1>2, <1>3, <1>8, <1>9, <1>10 DEF Accounted
<1>14. \A r, s \in Terms : l2[r] = l2[s] /\ l2[r] # 0 => r = s
  BY <1>t, <1>3, <1>6 DEF Accounted, LeafIn
<1>15. \A q, r \in Pids : c2[q] = c2[r] /\ c2[q] \in Pids => q = r
  BY <1>t, <1>7, Outsiders DEF Accounted
<1>16. Accounted(l2, c2)
  BY <1>12, <1>13, <1>14, <1>15 DEF Accounted, LiveIn
<1> QED BY <1>4, <1>16 DEF TreeInv

(* A base shell that halts is replaced, perhaps in the PCB just freed. *)
LEMMA ShellHalts ==
  ASSUME NEW l, NEW c, NEW l2, NEW c2, TreeInv(l, c),
         NEW a \in Terms, NEW p \in Pids, l[a] # 0, c[l[a]] = Root, c[p] = Dead \/ p = l[a],
         l2 = [l EXCEPT ![a] = p], c2 = [c EXCEPT ![l[a]] = Dead, ![p] = Root]
  PROVE  TreeInv(l2, c2)
<1>t. TreeTypes(l, c) /\ Accounted(l, c)
  BY DEF TreeInv
<1> DEFINE x == l[a]
<1>1. /\ c[p] = Dead \/ p = x
      /\ l2 = [l EXCEPT ![a] = p]
      /\ c2 = [c EXCEPT ![x] = Dead, ![p] = Root]
  OBVIOUS
<1>2. x \in Pids /\ c[x] = Root /\ LeafIn(l, x) /\ ~ WaitsIn(c, x)
  BY <1>t DEF TreeTypes, Accounted, LeafIn, Pids
<1>3. TreeTypes(l2, c2)
  <2>1. Dead \in Dead .. MAX_PID /\ Root \in Dead .. MAX_PID /\ p \in 0 .. MAX_PID
    BY TaskingConstants DEF Pids, Dead, Root
  <2>2. [c EXCEPT ![x] = Dead] \in [Pids -> Dead .. MAX_PID]
    BY <2>1, <1>t DEF TreeTypes
  <2>3. c2 = [[c EXCEPT ![x] = Dead] EXCEPT ![p] = Root]
    BY <1>1
  <2>4. c2 \in [Pids -> Dead .. MAX_PID]
    BY <2>1, <2>2, <2>3
  <2> QED BY <2>1, <2>4, <1>t, <1>1, <1>2 DEF TreeTypes
<1>4. ~ WaitsIn(c, p) /\ (p # x => ~ LeafIn(l, p))
  BY <1>t, <1>1, <1>2 DEF Accounted, LiveIn
<1>5. l[a] = x
  OBVIOUS
<1> HIDE DEF x
<1>6. \A t \in Terms : l2[t] = IF t = a THEN p ELSE l[t]
  BY <1>t, <1>1 DEF TreeTypes
<1>7. \A q \in Pids : c2[q] = IF q = p THEN Root ELSE IF q = x THEN Dead ELSE c[q]
  BY <1>t, <1>1, <1>2 DEF TreeTypes
<1>8. \A q \in Pids : LiveIn(c2, q) <=> (LiveIn(c, q) /\ q # x) \/ q = p
  BY <1>7, Outsiders, Zenon DEF LiveIn
<1>9. \A q \in Pids : LeafIn(l2, q) <=> (LeafIn(l, q) /\ q # x) \/ q = p
  BY <1>t, <1>2, <1>4, <1>5, <1>6 DEF LeafIn, Accounted, Pids
<1>10. \A q \in Pids : WaitsIn(c2, q) <=> WaitsIn(c, q)
  BY <1>1, <1>2, <1>7, Outsiders DEF WaitsIn
<1>11. \A s \in Terms : l2[s] # 0 => c2[l2[s]] # Dead
  <2> TAKE s \in Terms
  <2>1. CASE s = a
    BY <2>1, <1>6, <1>7, Outsiders DEF LiveIn
  <2>2. CASE s # a /\ l[s] # 0
    <3>1. l[s] \in Pids /\ LiveIn(c, l[s]) /\ l[s] # x
      BY <2>2, <1>t, <1>2, <1>5, Outsiders DEF TreeTypes, Accounted, Pids
    <3>2. l2[s] = l[s] /\ LiveIn(c2, l[s])
      BY <3>1, <2>2, <1>6, <1>8, Zenon
    <3> QED BY <3>2, Zenon DEF LiveIn
  <2> QED BY <2>1, <2>2, <1>6
<1>12. \A q \in Pids : (LiveIn(c2, q) <=> LeafIn(l2, q) \/ WaitsIn(c2, q)) /\ ~ (LeafIn(l2, q) /\ WaitsIn(c2, q))
  BY <1>t, <1>2, <1>4, <1>8, <1>9, <1>10 DEF Accounted
<1>13. \A r, s \in Terms : l2[r] = l2[s] /\ l2[r] # 0 => r = s
  BY <1>t, <1>2, <1>4, <1>5, <1>6, Outsiders DEF Accounted, LeafIn
<1>14. \A q, r \in Pids : c2[q] = c2[r] /\ c2[q] \in Pids => q = r
  BY <1>t, <1>7, Outsiders DEF Accounted
<1>15. Accounted(l2, c2)
  BY <1>11, <1>12, <1>13, <1>14 DEF Accounted, LiveIn
<1> QED BY <1>3, <1>15 DEF TreeInv

(* What ProcTree says of its leaves and callers is TreeInv of Tasking's. *)
LEMMA TreeInvIs ==
  /\ Tree!NoOrphans <=> Accounted([t \in Terms |-> Leaf(t)], caller)
  /\ Tree!Terms = Terms /\ Tree!Pids = Pids /\ Tree!Dead = Dead /\ Tree!Root = Root
BY DEF Tree!NoOrphans, Tree!Live, Tree!Leaf, Tree!Waits, Tree!Terms, Tree!Pids, Tree!Dead, Tree!Root,
       Accounted, LiveIn, LeafIn, WaitsIn, Terms, Pids, Dead, Root

(* Every step of ProcTree, taken by Tasking's state, keeps it. *)
LEMMA TreeInvStep ==
  ASSUME TreeInv([t \in Terms |-> Leaf(t)], caller), current_active_process \in Terms,
         [Tree!Next]_(Tree!vars)
  PROVE  TreeInv([t \in Terms |-> Leaf(t)], caller)' /\ current_active_process' \in Terms
<1> DEFINE l == [t \in Terms |-> Leaf(t)]
           a == current_active_process
<1>1. PICK l1, l2, c1, c2, a1, a2 : /\ l1 = l /\ l2 = l' /\ c1 = caller /\ c2 = caller'
                                    /\ a1 = a /\ a2 = a'
  OBVIOUS
<1>2. (a1 + 1) % NUM_PROCESSES \in Terms
  BY <1>1, TaskingConstants DEF TaskingConstants, Terms
<1>3. TreeInv(l1, c1) /\ a1 \in Terms
  BY <1>1
<1> SUFFICES TreeInv(l2, c2) /\ a2 \in Terms
  BY <1>1
<1>4. CASE Tree!Tick
  <2>1. /\ a2 = (a1 + 1) % NUM_PROCESSES
        /\ \/ l2 = l1 /\ c2 = c1
           \/ /\ l1[a2] = 0
              /\ \E p \in Pids : c1[p] = Dead /\ l2 = [l1 EXCEPT ![a2] = p] /\ c2 = [c1 EXCEPT ![p] = Root]
    BY <1>1, <1>4, TreeInvIs DEF Tree!Tick, Tree!StartShell
  <2> QED BY <1>2, <1>3, <2>1, ShellStarts
<1>5. CASE Tree!Execute
  <2>1. /\ l1[a1] # 0 /\ a2 = a1
        /\ \E p \in Pids : c1[p] = Dead /\ l2 = [l1 EXCEPT ![a1] = p] /\ c2 = [c1 EXCEPT ![p] = l1[a1]]
    BY <1>1, <1>5, TreeInvIs DEF Tree!Execute
  <2> QED BY <1>3, <2>1, ProgramExecutes
<1>6. CASE Tree!HaltChild
  <2>1. /\ l1[a1] # 0 /\ a2 = a1 /\ c1[l1[a1]] # Root
        /\ l2 = [l1 EXCEPT ![a1] = c1[l1[a1]]] /\ c2 = [c1 EXCEPT ![l1[a1]] = Dead]
    BY <1>1, <1>6, TreeInvIs DEF Tree!HaltChild
  <2> QED BY <1>3, <2>1, ProgramHalts
<1>7. CASE Tree!HaltShell
  <2>1. /\ l1[a1] # 0 /\ a2 = a1 /\ c1[l1[a1]] = Root
        /\ \E p \in Pids : /\ c1[p] = Dead \/ p = l1[a1]
                           /\ l2 = [l1 EXCEPT ![a1] = p]
                           /\ c2 = [c1 EXCEPT ![l1[a1]] = Dead, ![p] = Root]
    BY <1>1, <1>7, TreeInvIs DEF Tree!HaltShell
  <2> QED BY <1>3, <2>1, ShellHalts
<1>8. CASE UNCHANGED Tree!vars
  <2>1. l2 = l1 /\ c2 = c1 /\ a2 = a1
    BY <1>1, <1>8 DEF Tree!vars
  <2> QED BY <1>3, <2>1
<1> QED BY <1>4, <1>5, <1>6, <1>7, <1>8 DEF Tree!Next

(* However terminals, executes and halts interleave, what ProcTree promises *)
(* leaves no program lost, shared between terminals or without a way back   *)
(* to its caller.                                                           *)
THEOREM TreeNoOrphans == Tree!Spec => []Tree!NoOrphans
<1> DEFINE I == TreeInv([t \in Terms |-> Leaf(t)], caller) /\ current_active_process \in Terms
<1>1. Tree!Init => I
  <2> SUFFICES ASSUME Tree!Init PROVE I
    OBVIOUS
  <2>1. PICK l, c : l = [t \in Terms |-> Leaf(t)] /\ c = caller
    OBVIOUS
  <2>2. l = [t \in Terms |-> 0] /\ c = [p \in Pids |-> Dead] /\ current_active_process = 0
    BY <2>1, TreeInvIs DEF Tree!Init
  <2>3. TreeTypes(l, c) /\ current_active_process \in Terms
    BY <2>2, TaskingConstants DEF TaskingConstants, TreeTypes, Terms, Pids, Dead
  <2>4. Accounted(l, c)
    BY <2>2 DEF Accounted, LiveIn, LeafIn, WaitsIn, Pids, Dead
  <2> QED BY <2>1, <2>3, <2>4 DEF TreeInv
<1>2. I /\ [Tree!Next]_(Tree!vars) => I'
  BY TreeInvStep
<1>3. I => Tree!NoOrphans
  BY TreeInvIs DEF TreeInv
<1> HIDE DEF I
<1> QED BY <1>1, <1>2, <1>3, PTL DEF Tree!Spec

(* No program of the kernel itself is lost, shared or left without a caller *)
(* to return to: the tables the handlers keep always account for all of     *)
(* them.                                                                    *)
THEOREM NoProgramLost == ASSUME SafeTicks PROVE Spec => []Tree!NoOrphans
BY ImplementsTree, TreeNoOrphans, PTL DEF TreeSpec
=============================================================================
