------------------------------ MODULE RtcProofs ------------------------------
(***************************************************************************)
(* What holds of the RTC driver for any number of terminals, any set of     *)
(* programs that use the clock and any frequencies and sizes they pass.     *)
(***************************************************************************)
EXTENDS Rtc, TLAPS

(* The shared flag and the history of the programs that spin on it: while   *)
(* the flag is clear, every program that waits has seen an interrupt.       *)
FlagInv == rtc_f = 0 => \A t \in Terms : phase[t] = "spin" => t \in interrupted

(* The chip holds the rate of the frequency last asked for. *)
Accepted(f, r) == r \in 6 .. 15 /\ f = 2 ^ (16 - r)
RateInv == asked # 0 => Accepted(asked, rate)

(* A program in change_rtc_freq has the processor to itself, so the index   *)
(* port stays on register A and the high bits it read are those it puts     *)
(* back.                                                                    *)
InCall(t) == /\ ~ interrupts /\ t = current_active_process
             /\ index = "A"
             /\ Accepted(call[t].freq, call[t].rate) /\ call[t].size = 4
             /\ phase[t] = "write" => call[t].previous = DIVIDER
PortInv == /\ divider = DIVIDER
           /\ \A t \in Terms : phase[t] \in {"read", "write"} => InCall(t)

(* The requests rtc_write is to accept, and those it has answered with 0.   *)
Valid(f, n) == n = 4 /\ \E k \in 1 .. 10 : f = 2 ^ k
ReplyInv == reply.ok <=> Valid(reply.freq, reply.size)

Inv == TypeOK /\ FlagInv /\ RateInv /\ PortInv /\ ReplyInv
-----------------------------------------------------------------------------
(* The powers of two that occur in the driver, as numbers. *)
LEMMA Powers ==
  /\ 2 ^ 0 = 1 /\ 2 ^ 1 = 2 /\ 2 ^ 2 = 4 /\ 2 ^ 3 = 8 /\ 2 ^ 4 = 16
  /\ 2 ^ 5 = 32 /\ 2 ^ 6 = 64 /\ 2 ^ 7 = 128 /\ 2 ^ 8 = 256 /\ 2 ^ 9 = 512 /\ 2 ^ 10 = 1024
  /\ 2 ^ 11 = 2048 /\ 2 ^ 12 = 4096 /\ 2 ^ 13 = 8192 /\ 2 ^ 14 = 16384
  BY SMT

(* The chip's rule and rtc_write's switch agree on the ten rates. *)
LEMMA FrequencyOfRate ==
  ASSUME NEW r \in 6 .. 15
  PROVE  Frequency(r) = 2 ^ (16 - r) /\ Frequency(r) \in Nat \ {0}
<1>1. \/ r = 6 \/ r = 7 \/ r = 8 \/ r = 9 \/ r = 10
      \/ r = 11 \/ r = 12 \/ r = 13 \/ r = 14 \/ r = 15
  OBVIOUS
<1>2. /\ 32768 \div 32 = 1024 /\ 32768 \div 64 = 512 /\ 32768 \div 128 = 256
      /\ 32768 \div 256 = 128 /\ 32768 \div 512 = 64 /\ 32768 \div 1024 = 32
      /\ 32768 \div 2048 = 16 /\ 32768 \div 4096 = 8 /\ 32768 \div 8192 = 4
      /\ 32768 \div 16384 = 2
  OBVIOUS
<1>3. CASE r = 6
  <2>1. 16 - 6 = 10 /\ 6 - 1 = 5
    OBVIOUS
  <2>2. QED
    BY <1>3, <2>1, <1>2, Powers DEF Frequency
<1>4. CASE r = 7
  <2>1. 16 - 7 = 9 /\ 7 - 1 = 6
    OBVIOUS
  <2>2. QED
    BY <1>4, <2>1, <1>2, Powers DEF Frequency
<1>5. CASE r = 8
  <2>1. 16 - 8 = 8 /\ 8 - 1 = 7
    OBVIOUS
  <2>2. QED
    BY <1>5, <2>1, <1>2, Powers DEF Frequency
<1>6. CASE r = 9
  <2>1. 16 - 9 = 7 /\ 9 - 1 = 8
    OBVIOUS
  <2>2. QED
    BY <1>6, <2>1, <1>2, Powers DEF Frequency
<1>7. CASE r = 10
  <2>1. 16 - 10 = 6 /\ 10 - 1 = 9
    OBVIOUS
  <2>2. QED
    BY <1>7, <2>1, <1>2, Powers DEF Frequency
<1>8. CASE r = 11
  <2>1. 16 - 11 = 5 /\ 11 - 1 = 10
    OBVIOUS
  <2>2. QED
    BY <1>8, <2>1, <1>2, Powers DEF Frequency
<1>9. CASE r = 12
  <2>1. 16 - 12 = 4 /\ 12 - 1 = 11
    OBVIOUS
  <2>2. QED
    BY <1>9, <2>1, <1>2, Powers DEF Frequency
<1>10. CASE r = 13
  <2>1. 16 - 13 = 3 /\ 13 - 1 = 12
    OBVIOUS
  <2>2. QED
    BY <1>10, <2>1, <1>2, Powers DEF Frequency
<1>11. CASE r = 14
  <2>1. 16 - 14 = 2 /\ 14 - 1 = 13
    OBVIOUS
  <2>2. QED
    BY <1>11, <2>1, <1>2, Powers DEF Frequency
<1>12. CASE r = 15
  <2>1. 16 - 15 = 1 /\ 15 - 1 = 14
    OBVIOUS
  <2>2. QED
    BY <1>12, <2>1, <1>2, Powers DEF Frequency
<1>13. QED
  BY <1>1, <1>3, <1>4, <1>5, <1>6, <1>7, <1>8, <1>9, <1>10, <1>11, <1>12

(* Each case of the switch gives the rate that has its frequency on the     *)
(* chip.                                                                    *)
LEMMA RateTableRight ==
  ASSUME NEW c \in RateTable
  PROVE  Accepted(c[1], c[2])
<1>1. \/ c = <<2, 15>> \/ c = <<4, 14>> \/ c = <<8, 13>> \/ c = <<16, 12>> \/ c = <<32, 11>>
      \/ c = <<64, 10>> \/ c = <<128, 9>> \/ c = <<256, 8>> \/ c = <<512, 7>> \/ c = <<1024, 6>>
  BY Zenon DEF RateTable
<1>2. /\ 16 - 15 = 1 /\ 16 - 14 = 2 /\ 16 - 13 = 3 /\ 16 - 12 = 4 /\ 16 - 11 = 5
      /\ 16 - 10 = 6 /\ 16 - 9 = 7 /\ 16 - 8 = 8 /\ 16 - 7 = 9 /\ 16 - 6 = 10
  OBVIOUS
<1>3. /\ 2 = 2 ^ (16 - 15) /\ 4 = 2 ^ (16 - 14) /\ 8 = 2 ^ (16 - 13) /\ 16 = 2 ^ (16 - 12)
      /\ 32 = 2 ^ (16 - 11) /\ 64 = 2 ^ (16 - 10) /\ 128 = 2 ^ (16 - 9) /\ 256 = 2 ^ (16 - 8)
      /\ 512 = 2 ^ (16 - 7) /\ 1024 = 2 ^ (16 - 6)
  BY <1>2, Powers
<1>4. \/ (c[1] = 2 /\ c[2] = 15) \/ (c[1] = 4 /\ c[2] = 14) \/ (c[1] = 8 /\ c[2] = 13) \/ (c[1] = 16 /\ c[2] = 12)
      \/ (c[1] = 32 /\ c[2] = 11) \/ (c[1] = 64 /\ c[2] = 10) \/ (c[1] = 128 /\ c[2] = 9) \/ (c[1] = 256 /\ c[2] = 8)
      \/ (c[1] = 512 /\ c[2] = 7) \/ (c[1] = 1024 /\ c[2] = 6)
  BY <1>1
<1>5. c[2] \in 6 .. 15
  BY <1>4
<1>6. c[1] = 2 ^ (16 - c[2])
  BY <1>3, <1>4, Zenon
<1>7. QED
  BY <1>5, <1>6 DEF Accepted

(* Every power of two from 2 to 1024 has its case. *)
LEMMA RateTableFull ==
  ASSUME NEW k \in 1 .. 10
  PROVE  \E c \in RateTable : c[1] = 2 ^ k
<1>1. \/ k = 1 \/ k = 2 \/ k = 3 \/ k = 4 \/ k = 5 \/ k = 6 \/ k = 7 \/ k = 8 \/ k = 9 \/ k = 10
  OBVIOUS
<1>2. \/ 2 ^ k = 2 ^ 1 \/ 2 ^ k = 2 ^ 2 \/ 2 ^ k = 2 ^ 3 \/ 2 ^ k = 2 ^ 4 \/ 2 ^ k = 2 ^ 5
      \/ 2 ^ k = 2 ^ 6 \/ 2 ^ k = 2 ^ 7 \/ 2 ^ k = 2 ^ 8 \/ 2 ^ k = 2 ^ 9 \/ 2 ^ k = 2 ^ 10
  BY <1>1, Zenon
<1>3. PICK f : f = 2 ^ k
  OBVIOUS
<1>4. \/ f = 2 \/ f = 4 \/ f = 8 \/ f = 16 \/ f = 32
      \/ f = 64 \/ f = 128 \/ f = 256 \/ f = 512 \/ f = 1024
  BY <1>2, <1>3, Powers
<1>5. \E c \in RateTable : c[1] = f
  BY <1>4 DEF RateTable
<1>6. QED
  BY <1>3, <1>5

(* An accepted frequency is a power of two from 2 to 1024. *)
LEMMA AcceptedValid ==
  ASSUME NEW f, NEW r, Accepted(f, r)
  PROVE  Valid(f, 4)
<1>1. 16 - r \in 1 .. 10 /\ f = 2 ^ (16 - r)
  BY DEF Accepted
<1>2. QED
  BY <1>1, Zenon DEF Valid

(* No frequency is zero, so "asked = 0" means that none was asked for. *)
LEMMA AcceptedNat ==
  ASSUME NEW f, NEW r, Accepted(f, r)
  PROVE  f \in Nat \ {0} /\ r \in 0 .. 15 /\ Frequency(r) = f
<1>1. r \in 6 .. 15 /\ f = 2 ^ (16 - r)
  BY DEF Accepted
<1>2. Frequency(r) = 2 ^ (16 - r) /\ Frequency(r) \in Nat \ {0}
  BY <1>1, FrequencyOfRate, Zenon
<1>3. Frequency(r) = f /\ f \in Nat \ {0}
  BY <1>1, <1>2, Zenon
<1>4. r \in 0 .. 15
  BY <1>1
<1>5. QED
  BY <1>3, <1>4
-----------------------------------------------------------------------------
(* The invariant holds when the driver starts. *)
LEMMA InvInit == Init => Inv
<1> SUFFICES ASSUME Init PROVE Inv
  OBVIOUS
<1>1. 0 \in Terms
  BY RtcConstants DEF Terms
<1>2. TypeOK
  <2>1. /\ irq_flag \in BOOLEAN /\ pending \in BOOLEAN /\ interrupts \in BOOLEAN
        /\ phase \in [Terms -> Phases]
    BY Zenon DEF Init, Phases
  <2>2. reply \in [freq : Nat, size : Nat, ok : BOOLEAN]
    BY DEF Init, NoReply
  <2>3. call \in [Terms -> [freq : Nat, size : Nat, rate : 0 .. 15, previous : 0 .. 15]]
    BY DEF Init, NoCall
  <2>4. QED
    BY <1>1, <2>1, <2>2, <2>3 DEF Init, TypeOK, DIVIDER
<1>3. FlagInv /\ RateInv /\ PortInv
  BY DEF Init, FlagInv, RateInv, PortInv
<1>4. ReplyInv
  BY DEF Init, NoReply, ReplyInv, Valid
<1>5. QED
  BY <1>2, <1>3, <1>4 DEF Inv

(* A step that answers no request leaves the history of answers right. *)
LEMMA NoAnswer ==
  ASSUME reply' = NoReply
  PROVE  ReplyInv' /\ reply' \in [freq : Nat, size : Nat, ok : BOOLEAN] /\ ~ reply'.ok
  BY DEF NoReply, ReplyInv, Valid

(* A refused request changes nothing, and was to be refused. *)
LEMMA RefuseStep ==
  ASSUME Inv, NEW f \in Nat, NEW n \in Nat, ~ Valid(f, n), Refuse(f, n)
  PROVE  Inv' /\ (rate' # rate => reply'.ok)
<1>1. /\ reply' = [freq |-> f, size |-> n, ok |-> FALSE]
      /\ UNCHANGED <<flags, chip, interrupts, phase, call, current_active_process, asked, interrupted>>
  BY DEF Refuse
<1>2. reply' \in [freq : Nat, size : Nat, ok : BOOLEAN]
  BY <1>1
<1>3. ReplyInv'
  <2>1. ~ reply'.ok /\ reply'.freq = f /\ reply'.size = n
    BY <1>1
  <2>2. QED
    BY <2>1 DEF ReplyInv, Valid
<1>4. TypeOK'
  BY <1>1, <1>2 DEF Inv, TypeOK, flags, chip
<1>5. FlagInv' /\ RateInv'
  BY <1>1 DEF Inv, FlagInv, RateInv, flags, chip
<1>6. PortInv'
  BY <1>1 DEF Inv, PortInv, InCall, flags, chip
<1>7. QED
  BY <1>1, <1>3, <1>4, <1>5, <1>6 DEF Inv, chip

(* A program that begins change_rtc_freq with a rate of the switch has the  *)
(* port.                                                                    *)
LEMMA BeginStep ==
  ASSUME Inv, NEW t \in Terms, t = current_active_process, phase[t] = "run",
         NEW f, NEW r, Accepted(f, r), change_rtc_freq(t, f, 4, r)
  PROVE  Inv' /\ (rate' # rate => reply'.ok)
<1>0. f \in Nat /\ r \in 6 .. 15
  BY AcceptedNat DEF Accepted
<1>1. Begin(t, f, 4, r) /\ interrupts' = FALSE
  BY <1>0 DEF change_rtc_freq, MAX_RATE, MIN_RATE
<1>2. /\ index' = "A"
      /\ phase' = [phase EXCEPT ![t] = "read"]
      /\ call' = [call EXCEPT ![t] = [freq |-> f, size |-> 4, rate |-> r, previous |-> 0]]
      /\ reply' = NoReply
      /\ UNCHANGED <<flags, rate, divider, current_active_process, asked, interrupted>>
  BY <1>1 DEF Begin
<1>3. ReplyInv' /\ reply' \in [freq : Nat, size : Nat, ok : BOOLEAN]
  BY <1>2, NoAnswer
<1>4. TypeOK'
  <2>1. phase' \in [Terms -> Phases]
    BY <1>2 DEF Inv, TypeOK, Phases
  <2>2. [freq |-> f, size |-> 4, rate |-> r, previous |-> 0]
          \in [freq : Nat, size : Nat, rate : 0 .. 15, previous : 0 .. 15]
    BY <1>0
  <2>3. call' \in [Terms -> [freq : Nat, size : Nat, rate : 0 .. 15, previous : 0 .. 15]]
    BY <1>2, <2>2 DEF Inv, TypeOK
  <2>4. interrupts' \in BOOLEAN
    BY <1>1
  <2>5. QED
    BY <1>2, <1>3, <2>1, <2>3, <2>4 DEF Inv, TypeOK, flags
<1>5. FlagInv' /\ RateInv'
  BY <1>2 DEF Inv, TypeOK, FlagInv, RateInv, flags
<1>6. PortInv'
  <2>1. divider' = DIVIDER
    BY <1>2 DEF Inv, PortInv
  <2>2. ASSUME NEW u \in Terms, phase'[u] \in {"read", "write"} PROVE InCall(u)'
    <3>1. u = t
      BY <1>2, <2>2 DEF Inv, TypeOK, PortInv, InCall
    <3>2. phase'[t] = "read" /\ call'[t].freq = f /\ call'[t].rate = r /\ call'[t].size = 4
      BY <1>2 DEF Inv, TypeOK
    <3>3. QED
      BY <1>1, <1>2, <3>1, <3>2 DEF InCall
  <2>3. QED
    BY <2>1, <2>2 DEF PortInv
<1>7. QED
  BY <1>2, <1>3, <1>4, <1>5, <1>6 DEF Inv

(* It reads the high bits of register A ... *)
LEMMA ReadStep ==
  ASSUME Inv, NEW t \in Terms, change_rtc_freq_read(t)
  PROVE  Inv' /\ (rate' # rate => reply'.ok)
<1>1. /\ t = current_active_process /\ phase[t] = "read" /\ index' = "A"
      /\ call' = [call EXCEPT ![t].previous = HighBits]
      /\ irq_flag' = (irq_flag /\ index # "C")
      /\ phase' = [phase EXCEPT ![t] = "write"]
      /\ reply' = NoReply
      /\ UNCHANGED <<rtc_f, pending, rate, divider, interrupts, current_active_process, asked, interrupted>>
  BY DEF change_rtc_freq_read
<1>2. InCall(t) /\ divider = DIVIDER
  BY <1>1 DEF Inv, PortInv
<1>3. HighBits = DIVIDER
  BY <1>2 DEF InCall, HighBits
<1>4. ReplyInv' /\ reply' \in [freq : Nat, size : Nat, ok : BOOLEAN]
  BY <1>1, NoAnswer
<1>5. /\ call'[t].freq = call[t].freq /\ call'[t].rate = call[t].rate
      /\ call'[t].size = call[t].size /\ call'[t].previous = DIVIDER
  BY <1>1, <1>3 DEF Inv, TypeOK
<1>6. TypeOK'
  <2>1. phase' \in [Terms -> Phases]
    BY <1>1 DEF Inv, TypeOK, Phases
  <2>2. call' \in [Terms -> [freq : Nat, size : Nat, rate : 0 .. 15, previous : 0 .. 15]]
    BY <1>1, <1>3 DEF Inv, TypeOK, DIVIDER
  <2>3. irq_flag' \in BOOLEAN
    BY <1>1, Zenon
  <2>4. QED
    BY <1>1, <1>4, <2>1, <2>2, <2>3 DEF Inv, TypeOK
<1>7. FlagInv' /\ RateInv'
  BY <1>1 DEF Inv, TypeOK, FlagInv, RateInv
<1>8. PortInv'
  <2>1. divider' = DIVIDER
    BY <1>1, <1>2
  <2>2. ASSUME NEW u \in Terms, phase'[u] \in {"read", "write"} PROVE InCall(u)'
    <3>1. u = t
      BY <1>1, <2>2 DEF Inv, TypeOK, PortInv, InCall
    <3>2. QED
      BY <1>1, <1>2, <1>5, <3>1 DEF InCall
  <2>3. QED
    BY <2>1, <2>2 DEF PortInv
<1>9. QED
  BY <1>1, <1>4, <1>6, <1>7, <1>8 DEF Inv

(* ... and writes them back to it with the rate of the frequency asked for. *)
LEMMA WriteStep ==
  ASSUME Inv, NEW t \in Terms, change_rtc_freq_write(t)
  PROVE  Inv' /\ (rate' # rate => reply'.ok)
<1>1. /\ t = current_active_process /\ phase[t] = "write"
      /\ rate'    = IF index = "A" THEN call[t].rate     ELSE rate
      /\ divider' = IF index = "A" THEN call[t].previous ELSE divider
      /\ interrupts' = TRUE
      /\ phase' = [phase EXCEPT ![t] = "run"]
      /\ asked' = call[t].freq
      /\ reply' = [freq |-> call[t].freq, size |-> call[t].size, ok |-> TRUE]
      /\ call' = [call EXCEPT ![t] = NoCall]
      /\ UNCHANGED <<flags, index, current_active_process, interrupted>>
  BY DEF change_rtc_freq_write
<1>2. InCall(t)
  BY <1>1 DEF Inv, PortInv
<1>3. PICK q, r : q = call[t].freq /\ r = call[t].rate
  OBVIOUS
<1>4. rate' = r /\ divider' = DIVIDER /\ asked' = q /\ Accepted(q, r) /\ call[t].size = 4
  BY <1>1, <1>2, <1>3 DEF InCall
<1>5. q \in Nat \ {0} /\ r \in 0 .. 15
  BY <1>4, AcceptedNat, Zenon
<1>6. reply' = [freq |-> q, size |-> 4, ok |-> TRUE]
  BY <1>1, <1>3, <1>4
<1>7. Valid(q, 4)
  BY <1>4, AcceptedValid, Zenon
<1>8. reply' \in [freq : Nat, size : Nat, ok : BOOLEAN]
  BY <1>5, <1>6
<1>9. ReplyInv' /\ reply'.ok
  <2>1. reply'.ok /\ reply'.freq = q /\ reply'.size = 4
    BY <1>6
  <2>2. QED
    BY <2>1, <1>7 DEF ReplyInv, Valid
<1>10. RateInv'
  BY <1>4 DEF RateInv, Accepted
<1>11. TypeOK'
  <2>1. phase' \in [Terms -> Phases]
    BY <1>1 DEF Inv, TypeOK, Phases
  <2>2. call' \in [Terms -> [freq : Nat, size : Nat, rate : 0 .. 15, previous : 0 .. 15]]
    BY <1>1 DEF Inv, TypeOK, NoCall
  <2>3. QED
    BY <1>1, <1>4, <1>5, <1>8, <2>1, <2>2 DEF Inv, TypeOK, flags, DIVIDER
<1>12. FlagInv'
  BY <1>1 DEF Inv, TypeOK, FlagInv, flags
<1>13. PortInv'
  <2>1. ASSUME NEW u \in Terms, phase'[u] \in {"read", "write"} PROVE FALSE
    BY <1>1, <2>1 DEF Inv, TypeOK, PortInv, InCall
  <2>2. QED
    BY <1>4, <2>1 DEF PortInv
<1>14. QED
  BY <1>9, <1>10, <1>11, <1>12, <1>13 DEF Inv

(* Every step keeps the invariant, and the rate changes only with an answer *)
(* of 0.                                                                    *)
LEMMA InvStep == Inv /\ [Next]_vars => Inv' /\ (rate' # rate => reply'.ok)
<1> SUFFICES ASSUME Inv, [Next]_vars
             PROVE  Inv' /\ (rate' # rate => reply'.ok)
  OBVIOUS
<1>1. ASSUME NEW t \in Terms, rtc_open(t)
      PROVE  Inv' /\ (rate' # rate => reply'.ok)
  <2>1. Accepted(2, MIN_RATE)
    BY Powers DEF Accepted, MIN_RATE
  <2>2. QED
    BY <1>1, <2>1, BeginStep DEF rtc_open, Running
<1>2. ASSUME NEW t \in Terms, NEW f \in Frequencies, NEW n \in Sizes, rtc_write(t, f, n)
      PROVE  Inv' /\ (rate' # rate => reply'.ok)
  <2>0. f \in Nat /\ n \in Nat
    BY RtcConstants
  <2>1. CASE n = 4 /\ \E c \in RateTable : c[1] = f /\ change_rtc_freq(t, f, n, c[2])
    <3>1. PICK c \in RateTable : c[1] = f /\ change_rtc_freq(t, f, n, c[2])
      BY <2>1
    <3>2. Accepted(f, c[2])
      BY <3>1, RateTableRight
    <3>3. PICK r : r = c[2]
      OBVIOUS
    <3>4. Accepted(f, r) /\ change_rtc_freq(t, f, 4, r)
      BY <2>1, <3>1, <3>2, <3>3
    <3>5. t = current_active_process /\ phase[t] = "run"
      BY <1>2 DEF rtc_write, Running
    <3>6. QED
      BY <3>4, <3>5, BeginStep, Zenon
  <2>2. CASE (n # 4 \/ \A c \in RateTable : c[1] # f) /\ Refuse(f, n)
    <3>1. ~ Valid(f, n)
      BY <2>2, RateTableFull DEF Valid
    <3>2. QED
      BY <2>0, <2>2, <3>1, RefuseStep
  <2>3. QED
    BY <1>2, <2>1, <2>2 DEF rtc_write
<1>3. ASSUME NEW t \in Terms, rtc_read(t)
      PROVE  Inv' /\ (rate' # rate => reply'.ok)
  <2>1. ReplyInv' /\ reply' \in [freq : Nat, size : Nat, ok : BOOLEAN]
    BY <1>3, NoAnswer DEF rtc_read
  <2>2. TypeOK' /\ FlagInv' /\ RateInv'
    BY <1>3, <2>1 DEF rtc_read, chip, Inv, TypeOK, FlagInv, RateInv, Phases
  <2>3. PortInv'
    BY <1>3 DEF rtc_read, chip, Inv, TypeOK, PortInv, InCall
  <2>4. QED
    BY <1>3, <2>1, <2>2, <2>3 DEF Inv, rtc_read, chip
<1>4. ASSUME NEW t \in Terms, rtc_read_done(t)
      PROVE  Inv' /\ (rate' # rate => reply'.ok)
  <2>1. ReplyInv' /\ reply' \in [freq : Nat, size : Nat, ok : BOOLEAN]
    BY <1>4, NoAnswer DEF rtc_read_done
  <2>2. TypeOK' /\ FlagInv' /\ RateInv'
    BY <1>4, <2>1 DEF rtc_read_done, flags, chip, Inv, TypeOK, FlagInv, RateInv, Phases
  <2>3. PortInv'
    BY <1>4 DEF rtc_read_done, flags, chip, Inv, TypeOK, PortInv, InCall
  <2>4. QED
    BY <1>4, <2>1, <2>2, <2>3 DEF Inv, rtc_read_done, chip
<1>5. CASE PeriodicInterrupt
  <2>1. ReplyInv' /\ reply' \in [freq : Nat, size : Nat, ok : BOOLEAN]
    BY <1>5, NoAnswer DEF PeriodicInterrupt
  <2>2. TypeOK' /\ FlagInv' /\ RateInv' /\ PortInv'
    BY <1>5, <2>1 DEF PeriodicInterrupt, chip, Inv, TypeOK, FlagInv, RateInv, PortInv, InCall
  <2>3. QED
    BY <1>5, <2>1, <2>2 DEF Inv, PeriodicInterrupt, chip
<1>6. CASE rtc_handler
  <2>1. ReplyInv' /\ reply' \in [freq : Nat, size : Nat, ok : BOOLEAN]
    BY <1>6, NoAnswer DEF rtc_handler
  <2>2. TypeOK' /\ FlagInv' /\ RateInv' /\ PortInv'
    BY <1>6, <2>1 DEF rtc_handler, Inv, TypeOK, FlagInv, RateInv, PortInv, InCall
  <2>3. QED
    BY <1>6, <2>1, <2>2 DEF Inv, rtc_handler
<1>7. CASE Tick
  <2>0. (current_active_process + 1) % NUM_PROCESSES \in Terms
    BY RtcConstants DEF Inv, TypeOK, Terms
  <2>1. ReplyInv' /\ reply' \in [freq : Nat, size : Nat, ok : BOOLEAN]
    BY <1>7, NoAnswer DEF Tick
  <2>2. TypeOK' /\ FlagInv' /\ RateInv' /\ PortInv'
    BY <1>7, <2>0, <2>1 DEF Tick, flags, chip, Inv, TypeOK, FlagInv, RateInv, PortInv, InCall
  <2>3. QED
    BY <1>7, <2>1, <2>2 DEF Inv, Tick, chip
<1>8. CASE UNCHANGED vars
  BY <1>8 DEF vars, flags, chip, Inv, TypeOK, FlagInv, RateInv, PortInv, InCall, ReplyInv, Valid
<1>9. QED
  BY <1>1, <1>2, <1>3, <1>4, <1>5, <1>6, <1>7, <1>8, ReadStep, WriteStep DEF Next

(* The invariant of the driver. *)
LEMMA SpecInv == Spec => []Inv
  BY InvInit, InvStep, PTL DEF Spec
-----------------------------------------------------------------------------
(* The driver's variables keep their types: register A never holds a rate   *)
(* outside its four bits, whatever rtc_write is called with.                *)
THEOREM RtcTypeCorrect == Spec => []TypeOK
  BY SpecInv, PTL DEF Inv

(* The chip runs at the frequency of the last request answered with 0, for  *)
(* any programs and any requests: rtc.h's ten rates are those of the chip's *)
(* rule, and cli keeps the handler and the other programs off the index     *)
(* port.                                                                    *)
THEOREM RateAsAsked == Spec => []FrequencyAsAsked
<1>1. Inv => FrequencyAsAsked
  BY AcceptedNat DEF Inv, RateInv, PortInv, FrequencyAsAsked
<1>2. QED
  BY <1>1, SpecInv, PTL

(* rtc_read never returns before an interrupt, however many programs share  *)
(* the flag.                                                                *)
THEOREM ReadWaits == Spec => NoEarlyReturn
<1>1. Inv /\ [Next]_vars =>
        [\A t \in Terms : phase[t] = "spin" /\ phase'[t] = "run" => t \in interrupted]_vars
  <2> SUFFICES ASSUME Inv, Next, NEW t \in Terms, phase[t] = "spin", phase'[t] = "run"
               PROVE  t \in interrupted
    OBVIOUS
  <2>1. CASE \E u \in Terms : rtc_read_done(u)
    <3>1. rtc_f = 0
      BY <2>1 DEF rtc_read_done
    <3>2. QED
      BY <3>1 DEF Inv, FlagInv
  <2>2. CASE \E u \in Terms : rtc_read(u) \/ change_rtc_freq_read(u) \/ change_rtc_freq_write(u)
    BY <2>2 DEF rtc_read, change_rtc_freq_read, change_rtc_freq_write, Inv, TypeOK
  <2>3. CASE \E u \in Terms : rtc_open(u) \/ \E f \in Frequencies, n \in Sizes : rtc_write(u, f, n)
    <3>1. \E u \in Terms : phase' = phase \/ phase' = [phase EXCEPT ![u] = "read"]
      BY <2>3 DEF rtc_open, rtc_write, change_rtc_freq, Begin, Refuse
    <3>2. QED
      BY <3>1 DEF Inv, TypeOK
  <2>4. CASE PeriodicInterrupt \/ rtc_handler \/ Tick
    BY <2>4 DEF PeriodicInterrupt, rtc_handler, Tick
  <2>5. QED
    BY <2>1, <2>2, <2>3, <2>4 DEF Next
<1>2. QED
  BY <1>1, SpecInv, PTL DEF Spec, NoEarlyReturn

(* Exactly the powers of two from 2^1 to 2^10, in 4 bytes, are answered     *)
(* with 0, and the rate changes with no other request and in no other step. *)
THEOREM RatesArePowers == Spec => OnlyPowersOfTwo
<1>1. Inv /\ [Next]_vars =>
        [/\ reply'.ok <=> (reply'.size = 4 /\ \E k \in 1 .. 10 : reply'.freq = 2 ^ k)
         /\ rate' # rate => reply'.ok]_vars
  BY InvStep DEF Inv, ReplyInv, Valid
<1>2. QED
  BY <1>1, SpecInv, PTL DEF Spec, OnlyPowersOfTwo
=============================================================================
