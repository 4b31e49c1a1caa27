--------------------------------- MODULE Rtc ---------------------------------
(***************************************************************************)
(* The real-time clock driver (rtc.c, rtc_handler in idt_funcs.c).  The    *)
(* programs of all terminals share one chip and one flag, rtc_f: rtc_read  *)
(* sets it and spins until the interrupt handler clears it, while the PIT  *)
(* passes the processor around.  The chip's registers are reached through  *)
(* one index port, which change_rtc_freq and the handler both set.         *)
(***************************************************************************)
EXTENDS Integers

CONSTANTS NUM_PROCESSES,   \* terminals
          Users,           \* the terminals whose programs use the RTC
          Frequencies,     \* what programs ask for with rtc_write
          Sizes            \* the byte counts they pass

Terms == 0 .. NUM_PROCESSES - 1

ASSUME RtcConstants == /\ NUM_PROCESSES \in Nat \ {0}
                       /\ Users \subseteq Terms
                       /\ Frequencies \subseteq Nat
                       /\ Sizes \subseteq Nat

MAX_RATE == 2
MIN_RATE == 15
DIVIDER  == 2    \* register A, high four bits: the 32768 Hz time base

VARIABLES rtc_f,                    \* 1 from rtc_read until the next interrupt
          rate,                     \* register A, low four bits
          divider,                  \* register A, high four bits
          index,                    \* the register the index port selects
          irq_flag,                 \* register C: an interrupt not yet acknowledged
          pending,                  \* IRQ 8 raised and not yet taken
          interrupts,               \* the processor's interrupt flag
          phase,                    \* each program: "run", "spin" in rtc_read, or where
                                    \* it is in change_rtc_freq
          call,                     \* its call of change_rtc_freq: what it asked for, the
                                    \* rate it sets, the high bits it has read
          current_active_process,
          asked,                    \* history: the frequency last set by a program, 0 for none
          reply,                    \* history: the request answered in the last step
          interrupted               \* history: programs interrupted since their read began

flags == <<rtc_f, irq_flag, pending>>
chip  == <<rate, divider, index>>
vars  == <<flags, chip, interrupts, phase, call, current_active_process, asked, reply, interrupted>>

NoCall  == [freq |-> 0, size |-> 0, rate |-> 0, previous |-> 0]
NoReply == [freq |-> 0, size |-> 0, ok |-> FALSE]

Init == /\ rtc_f = 0
        /\ rate = 6 /\ divider = DIVIDER    \* the BIOS default, 1024 Hz
        /\ index = "B"                      \* rtc_init's last selection
        /\ irq_flag = FALSE /\ pending = FALSE
        /\ interrupts = TRUE
        /\ phase = [t \in Terms |-> "run"]
        /\ call = [t \in Terms |-> NoCall]
        /\ current_active_process = 0
        /\ asked = 0
        /\ reply = NoReply
        /\ interrupted = {}

Frequency(r) == 32768 \div (2 ^ (r - 1))    \* the chip's own rule

Running(t) == t = current_active_process /\ t \in Users /\ phase[t] = "run"
-----------------------------------------------------------------------------
Refuse(freq, size) ==
  /\ reply' = [freq |-> freq, size |-> size, ok |-> FALSE]
  /\ UNCHANGED <<flags, chip, interrupts, phase, call, current_active_process, asked, interrupted>>

Begin(t, freq, size, r) ==
  /\ index' = "A"
  /\ phase' = [phase EXCEPT ![t] = "read"]
  /\ call' = [call EXCEPT ![t] = [freq |-> freq, size |-> size, rate |-> r, previous |-> 0]]
  /\ reply' = NoReply
  /\ UNCHANGED <<flags, rate, divider, current_active_process, asked, interrupted>>

(* Mutant: one is added to the rate. *)
change_rtc_freq_shifted(t, freq, size, r) == Begin(t, freq, size, r + 1) /\ interrupts' = FALSE

(* Mutant: the interrupts stay enabled. *)
change_rtc_freq_no_cli(t, freq, size, r) ==
  \/ r > MAX_RATE /\ r <= MIN_RATE /\ Begin(t, freq, size, r) /\ UNCHANGED interrupts
  \/ (r <= MAX_RATE \/ r > MIN_RATE) /\ Refuse(freq, size)

(* change_rtc_freq: the range check, cli and the selection of register A.   *)
change_rtc_freq(t, freq, size, r) ==
  \/ r > MAX_RATE /\ r <= MIN_RATE /\ Begin(t, freq, size, r) /\ interrupts' = FALSE
  \/ (r <= MAX_RATE \/ r > MIN_RATE) /\ Refuse(freq, size)

(* The high bits of the selected register; reading C acknowledges.          *)
HighBits == CASE index = "A" -> divider
              [] index = "B" -> 4
              [] index = "C" -> IF irq_flag THEN 12 ELSE 0

(* It reads the selected register and selects register A again.             *)
change_rtc_freq_read(t) ==
  /\ t = current_active_process /\ phase[t] = "read"
  /\ call' = [call EXCEPT ![t].previous = HighBits]
  /\ irq_flag' = (irq_flag /\ index # "C")
  /\ index' = "A"
  /\ phase' = [phase EXCEPT ![t] = "write"]
  /\ reply' = NoReply
  /\ UNCHANGED <<rtc_f, pending, rate, divider, interrupts, current_active_process, asked, interrupted>>

(* It writes the selected register, of which only A is written here, does   *)
(* sti and returns 0.                                                       *)
change_rtc_freq_write(t) ==
  /\ t = current_active_process /\ phase[t] = "write"
  /\ rate'    = IF index = "A" THEN call[t].rate     ELSE rate
  /\ divider' = IF index = "A" THEN call[t].previous ELSE divider
  /\ interrupts' = TRUE
  /\ phase' = [phase EXCEPT ![t] = "run"]
  /\ asked' = call[t].freq
  /\ reply' = [freq |-> call[t].freq, size |-> call[t].size, ok |-> TRUE]
  /\ call' = [call EXCEPT ![t] = NoCall]
  /\ UNCHANGED <<flags, index, current_active_process, interrupted>>

(* The cases of rtc_write's switch, with the constants of rtc.h.            *)
RateTableWide == {<<2, 15>>, <<4, 14>>, <<8, 13>>, <<16, 12>>, <<32, 11>>, <<64, 10>>, <<128, 9>>,
                  <<256, 8>>, <<512, 7>>, <<1024, 6>>, <<2048, 5>>}          \* mutant

RateTable == {<<2, 15>>, <<4, 14>>, <<8, 13>>, <<16, 12>>, <<32, 11>>, <<64, 10>>, <<128, 9>>,
              <<256, 8>>, <<512, 7>>, <<1024, 6>>}

(* open asks for the slowest rate: 2 Hz, as a write of 4 bytes would.       *)
rtc_open(t) == Running(t) /\ change_rtc_freq(t, 2, 4, MIN_RATE)

rtc_write(t, freq, numbytes) ==
  /\ Running(t)
  /\ \/ /\ numbytes = 4
        /\ \E c \in RateTable : c[1] = freq /\ change_rtc_freq(t, freq, numbytes, c[2])
     \/ /\ numbytes # 4 \/ \A c \in RateTable : c[1] # freq
        /\ Refuse(freq, numbytes)

(* Mutant: the wait starts without setting the flag. *)
rtc_read_no_flag(t) ==
  /\ Running(t)
  /\ phase' = [phase EXCEPT ![t] = "spin"]
  /\ interrupted' = interrupted \ {t}
  /\ reply' = NoReply
  /\ UNCHANGED <<flags, chip, interrupts, call, current_active_process, asked>>

rtc_read(t) ==
  /\ Running(t)
  /\ rtc_f' = 1
  /\ phase' = [phase EXCEPT ![t] = "spin"]
  /\ interrupted' = interrupted \ {t}
  /\ reply' = NoReply
  /\ UNCHANGED <<irq_flag, pending, chip, interrupts, call, current_active_process, asked>>

rtc_read_done(t) ==
  /\ t = current_active_process /\ phase[t] = "spin" /\ rtc_f = 0
  /\ phase' = [phase EXCEPT ![t] = "run"]
  /\ reply' = NoReply
  /\ UNCHANGED <<flags, chip, interrupts, call, current_active_process, asked, interrupted>>

(* The chip interrupts again only after register C has been read. *)
PeriodicInterrupt ==
  /\ ~ irq_flag
  /\ irq_flag' = TRUE /\ pending' = TRUE
  /\ reply' = NoReply
  /\ UNCHANGED <<rtc_f, chip, interrupts, phase, call, current_active_process, asked, interrupted>>

(* Mutant: register C is not read. *)
rtc_handler_no_ack ==
  /\ interrupts /\ pending /\ pending' = FALSE
  /\ index' = "C"
  /\ rtc_f' = 0
  /\ interrupted' = Terms
  /\ reply' = NoReply
  /\ UNCHANGED <<irq_flag, rate, divider, interrupts, phase, call, current_active_process, asked>>

(* The handler selects and reads register C; it runs with interrupts off.   *)
rtc_handler ==
  /\ interrupts /\ pending /\ pending' = FALSE
  /\ index' = "C" /\ irq_flag' = FALSE
  /\ rtc_f' = 0
  /\ interrupted' = Terms
  /\ reply' = NoReply
  /\ UNCHANGED <<rate, divider, interrupts, phase, call, current_active_process, asked>>

Tick == /\ interrupts
        /\ current_active_process' = (current_active_process + 1) % NUM_PROCESSES
        /\ reply' = NoReply
        /\ UNCHANGED <<flags, chip, interrupts, phase, call, asked, interrupted>>

Next == \/ \E t \in Terms : \/ rtc_open(t) \/ rtc_read(t) \/ rtc_read_done(t)
                            \/ \E freq \in Frequencies, n \in Sizes : rtc_write(t, freq, n)
                            \/ change_rtc_freq_read(t) \/ change_rtc_freq_write(t)
        \/ PeriodicInterrupt \/ rtc_handler \/ Tick

Spec == Init /\ [][Next]_vars

(* The chip keeps interrupting, the PIT keeps ticking, a program in         *)
(* change_rtc_freq goes on, and one that spins looks at the flag whenever   *)
(* it has the processor.                                                    *)
FairSpec == /\ Spec
            /\ WF_vars(PeriodicInterrupt) /\ SF_vars(rtc_handler) /\ SF_vars(Tick)
            /\ \A t \in Terms : /\ SF_vars(rtc_read_done(t))
                                /\ WF_vars(change_rtc_freq_read(t) \/ change_rtc_freq_write(t))
-----------------------------------------------------------------------------
Phases == {"run", "spin", "read", "write"}

TypeOK == /\ rtc_f \in {0, 1}
          /\ rate \in 0 .. 15 /\ divider \in 0 .. 15 /\ index \in {"A", "B", "C"}
          /\ irq_flag \in BOOLEAN /\ pending \in BOOLEAN /\ interrupts \in BOOLEAN
          /\ phase \in [Terms -> Phases]
          /\ call \in [Terms -> [freq : Nat, size : Nat, rate : 0 .. 15, previous : 0 .. 15]]
          /\ current_active_process \in Terms
          /\ asked \in Nat
          /\ reply \in [freq : Nat, size : Nat, ok : BOOLEAN]
          /\ interrupted \in SUBSET Terms

(* rtc_read "Waits for the next RTC interrupt" (rtc.c:58), safety: it never *)
(* returns before one, whoever else sets and clears the shared flag.        *)
NoEarlyReturn ==
  [][\A t \in Terms : phase[t] = "spin" /\ phase'[t] = "run" => t \in interrupted]_vars

(* The same sentence, liveness: every read comes back.  It does for one     *)
(* program at a time; of several, one may take every interrupt.             *)
ReadReturns == \A t \in Users : phase[t] = "spin" ~> phase[t] = "run"

(* When every program that uses the clock waits for it, one of them gets    *)
(* on: the handler acknowledges each interrupt, so another one comes, and   *)
(* clears the flag the last rtc_read set.                                   *)
NotAllStuck == (\A t \in Users : phase[t] = "spin") ~> (\E t \in Users : phase[t] = "run")

(* The chip runs at exactly the frequency of the last request that was     *)
(* answered with 0, whichever program made it and whatever was refused      *)
(* since: the switch's constants fit the chip's rule ("32768 >> (rate-1)",  *)
(* rtc.c:33), and no interrupt or other program gets between the selection  *)
(* of register A and its use, which would lose the rate or spoil the time   *)
(* base that register holds too.                                            *)
FrequencyAsAsked == asked # 0 => Frequency(rate) = asked /\ divider = DIVIDER

(* "If it is not a power of two between 2^1 and 2^10, it is invalid"        *)
(* (rtc.c:83): a request is answered with 0 if and only if it is one of     *)
(* these in 4 bytes, and the rate changes in no other step than one that    *)
(* answers a request with 0.                                                *)
OnlyPowersOfTwo ==
  [][/\ reply'.ok <=> (reply'.size = 4 /\ \E k \in 1 .. 10 : reply'.freq = 2 ^ k)
     /\ rate' # rate => reply'.ok]_vars
=============================================================================
