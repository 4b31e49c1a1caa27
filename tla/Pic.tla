--------------------------------- MODULE Pic ---------------------------------
(***************************************************************************)
(* The interrupt controllers (i8259.c) as boot programs them (kernel.c) and *)
(* the handlers use them: which interrupts are taken, what is set up when   *)
(* they are, and whether a device that asks is served.                     *)
(*                                                                         *)
(* A byte is the set of its one bits.  The two 8259s are external: they are *)
(* modelled as the emulator the kernel is built for has them, answering     *)
(* requests also while they wait for initialisation words.                 *)
(***************************************************************************)
EXTENDS Integers, Sequences

CONSTANT QuietUntil     \* the boot step before which no device asks for service

Irqs == {0, 1, 8}       \* PIT, keyboard, RTC
Cascade == 2            \* the master's line for the slave
ChipOf(irq) == IF irq < 8 THEN "master" ELSE "slave"
LineOf(irq) == IF irq < 8 THEN irq ELSE irq - 8

VARIABLES chip,      \* each controller: [expect, imr, isr, irr, aeoi, smm]
          boot,      \* entry(): steps done
          ready,     \* what boot has initialised
          busy,      \* the interrupt whose handler runs with interrupts off, -1 for none
          owed,      \* handlers that have enabled interrupts and not sent their EOI
          acked,     \* history: the master's lines the last EOI ended
          overtook   \* history: devices served since others began to wait

vars == <<chip, boot, ready, busy, owed, acked, overtook>>

(* expect is the initialisation word the controller waits for, 0 for none. *)
Reset == [expect |-> 2, imr |-> {}, isr |-> {}, irr |-> {}, aeoi |-> FALSE, smm |-> FALSE]
Bios  == [Reset EXCEPT !.expect = 0, !.imr = 0 .. 7]
-----------------------------------------------------------------------------
(* The controllers. *)

DataWrite(c, w) ==
  CASE c.expect = 2 -> [c EXCEPT !.expect = 3]
    [] c.expect = 3 -> [c EXCEPT !.expect = 4]
    [] c.expect = 4 -> [c EXCEPT !.expect = 0, !.aeoi = 1 \in w]
    [] OTHER        -> [c EXCEPT !.imr = w]

LowBits(w) == (IF 0 \in w THEN 1 ELSE 0) + (IF 1 \in w THEN 2 ELSE 0) + (IF 2 \in w THEN 4 ELSE 0)

(* ICW1, OCW3 (whose bits 6 and 5 set the special mask mode) or OCW2. *)
CommandWrite(c, w) ==
  CASE 4 \in w -> Reset
    [] 4 \notin w /\ 3 \in w -> [c EXCEPT !.smm = IF 6 \in w THEN 5 \in w ELSE @]
    [] OTHER   -> IF {5, 6} \subseteq w THEN [c EXCEPT !.isr = @ \ {LowBits(w)}] ELSE c

(* The lines a controller may report: requested, not masked, and of higher  *)
(* priority than all in service.                                            *)
Reports(c, requests, n) ==
  /\ n \in requests \ c.imr
  /\ \A k \in requests \ c.imr : n <= k
  /\ \A k \in (IF c.smm THEN c.isr \ c.imr ELSE c.isr) : n < k

MasterRequests == chip["master"].irr \cup
  (IF \E n \in 0 .. 7 : Reports(chip["slave"], chip["slave"].irr, n) THEN {Cascade} ELSE {})

Acknowledge(c, n) == [c EXCEPT !.irr = @ \ {n}, !.isr = IF c.aeoi THEN @ ELSE @ \cup {n}]
-----------------------------------------------------------------------------
(* i8259.c *)

ICW1 == {0, 4}  ICW2_MASTER == {5}  ICW2_SLAVE == {3, 5}
ICW3_MASTER == {2}  ICW3_SLAVE == {1}  ICW4 == {0}
EOI == {5, 6}

i8259_init ==
  << <<"master", "command", ICW1>>,       <<"slave", "command", ICW1>>,
     <<"master", "data", ICW2_MASTER>>,   <<"slave", "data", ICW2_SLAVE>>,
     <<"master", "data", ICW3_MASTER>>,   <<"master", "data", ICW3_SLAVE>>,
     <<"master", "data", ICW4>>,          <<"master", "data", ICW4>> >>

outb(p, kind, w) ==
  [chip EXCEPT ![p] = IF kind = "data" THEN DataWrite(@, w) ELSE CommandWrite(@, w)]

(* enable_irq and disable_irq or a bit into the mask and clear it. *)
enable_irq(irq)  == outb(ChipOf(irq), "data", chip[ChipOf(irq)].imr \cup {LineOf(irq)})
disable_irq(irq) == outb(ChipOf(irq), "data", chip[ChipOf(irq)].imr \ {LineOf(irq)})

Bits(n) == {i \in 0 .. 3 : (n \div 2 ^ i) % 2 = 1}

(* Mutant: only the master is told. *)
send_eoi_master(irq) == [chip EXCEPT !["master"] = CommandWrite(@, EOI \cup Bits(irq))]

(* EOI | irq to the master and, for the slave's, EOI | (irq - 8) to it. *)
send_eoi(irq) ==
  LET done == [chip EXCEPT !["master"] = CommandWrite(@, EOI \cup Bits(irq))]
  IN IF irq < 8 THEN done
     ELSE [done EXCEPT !["slave"] = CommandWrite(@, EOI \cup Bits(irq - 8))]
-----------------------------------------------------------------------------
Init == /\ chip = [p \in {"master", "slave"} |-> Bios]
        /\ boot = 0 /\ ready = {}
        /\ busy = -1 /\ owed = {} /\ acked = {} /\ overtook = {}

(* entry(): the eight words, rtc_init, the unmasking of the PIT, then       *)
(* paging, file system and PCBs.  clear() and printf() have enabled         *)
(* interrupts long before.                                                  *)
PicWords == Len(i8259_init)
Booted   == PicWords + 5

BootPic ==
  /\ boot < PicWords + 2 /\ busy = -1
  /\ boot' = boot + 1
  /\ chip' = IF boot < PicWords
             THEN LET o == i8259_init[boot + 1] IN outb(o[1], o[2], o[3])
             ELSE IF boot = PicWords THEN enable_irq(8) ELSE disable_irq(0)
  /\ UNCHANGED <<ready, busy, owed, acked, overtook>>

BootMemory ==
  /\ PicWords + 2 <= boot /\ boot < Booted /\ busy = -1
  /\ boot' = boot + 1
  /\ ready' = ready \cup {<<"paging", "zbigfs", "pcbs">>[boot - PicWords - 1]}
  /\ UNCHANGED <<chip, busy, owed, acked, overtook>>

Waiting(irq) == LineOf(irq) \in chip[ChipOf(irq)].irr

(* A device asks for service.  Handlers take microseconds and the fastest   *)
(* device asks every millisecond, so none is served twice while another     *)
(* waits.                                                                   *)
Raise(irq) ==
  /\ boot >= QuietUntil /\ irq \notin overtook
  /\ chip' = [chip EXCEPT ![ChipOf(irq)].irr = @ \cup {LineOf(irq)}]
  /\ UNCHANGED <<boot, ready, busy, owed, acked, overtook>>

(* The processor takes the interrupt the controllers report. *)
Take(irq) ==
  /\ busy = -1
  /\ IF irq < 8
     THEN /\ Reports(chip["master"], MasterRequests, irq)
          /\ chip' = [chip EXCEPT !["master"] = Acknowledge(@, irq)]
     ELSE /\ Reports(chip["master"], MasterRequests, Cascade)
          /\ Reports(chip["slave"], chip["slave"].irr, LineOf(irq))
          /\ chip' = [chip EXCEPT !["master"] = Acknowledge(@, Cascade),
                                  !["slave"]  = Acknowledge(@, LineOf(irq))]
  /\ busy' = irq
  /\ overtook' = IF \E i \in Irqs \ {irq} : Waiting(i) THEN overtook \cup {irq} ELSE {}
  /\ UNCHANGED <<boot, ready, owed, acked>>

(* next_task sends its EOI first; key_handler and rtc_handler enable        *)
(* interrupts before theirs.                                                *)
PitHandler ==
  /\ busy = 0
  /\ chip' = send_eoi(0) /\ acked' = {0}
  /\ busy' = -1
  /\ UNCHANGED <<boot, ready, owed, overtook>>

HandlerBody ==
  /\ busy \in {1, 8}
  /\ owed' = owed \cup {busy}
  /\ busy' = -1
  /\ UNCHANGED <<chip, boot, ready, acked, overtook>>

HandlerEoi(irq) ==
  /\ busy = -1 /\ irq \in owed
  /\ chip' = send_eoi(irq)
  /\ acked' = LET w == EOI \cup Bits(irq) IN IF 3 \in w THEN {} ELSE {LowBits(w)}
  /\ owed' = owed \ {irq}
  /\ UNCHANGED <<boot, ready, busy, overtook>>

Next == \/ BootPic \/ BootMemory \/ PitHandler \/ HandlerBody
        \/ \E irq \in Irqs : Raise(irq) \/ Take(irq) \/ HandlerEoi(irq)

Spec == Init /\ [][Next]_vars

(* Handlers and boot run on, and an interrupt the controllers report again  *)
(* and again is taken.                                                      *)
FairSpec == /\ Spec
            /\ WF_vars(BootPic) /\ WF_vars(BootMemory)
            /\ WF_vars(PitHandler) /\ WF_vars(HandlerBody)
            /\ \A irq \in Irqs : SF_vars(Take(irq)) /\ SF_vars(HandlerEoi(irq))
-----------------------------------------------------------------------------
(* A device that asks for service is served, every time: the masks boot     *)
(* leaves, the controllers' modes and the EOIs of all handlers, nested as   *)
(* they come, never leave a line masked or in service for good.             *)
Served == \A irq \in Irqs : Waiting(irq) ~> busy = irq

(* "Initialize devices, memory, filesystem" comes before "Enable            *)
(* interrupts" (kernel.c:275-278): no tick starts a shell before paging,    *)
(* the file system and the PCBs are there.                                  *)
TickFindsKernelReady == busy = 0 => ready = {"paging", "zbigfs", "pcbs"}

(* "Send the 4 control words to the master and slave PICs to initialize     *)
(* them" (i8259.c:23): afterwards neither waits for another.                *)
BothInitialized == boot >= PicWords => \A p \in DOMAIN chip : chip[p].expect = 0

(* "If interrupt came from slave, send EOI to both" (i8259.c:91): the       *)
(* master's line for the slave is then out of service.                      *)
SlaveEoiReachesMaster ==
  [][8 \in owed /\ 8 \notin owed' => acked' = {Cascade}]_vars
=============================================================================
