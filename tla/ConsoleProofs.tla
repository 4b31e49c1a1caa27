---------------------------- MODULE ConsoleProofs ----------------------------
(***************************************************************************)
(* The console of any number of terminals and lines of any length: the      *)
(* program whose user stays on its terminal reads the line typed there and  *)
(* saves it in that terminal's history.                                     *)
(***************************************************************************)
EXTENDS Console, TLAPS, SequenceTheorems

(* TypeOK, with the domains of the two functions into sequences. *)
TypeInv == /\ TypeOK
           /\ got \in [Terms -> Seq(Terms)]
           /\ typed \in [Terms -> Seq(Terms \cup {NUL})]

(* What the buffers hold: a terminal's own characters, and no character in  *)
(* the last cell, so that every copy ends inside the buffer.                *)
BufferInv ==
  \A t \in Terms : /\ \A i \in Cells : buffer[t][i] \in {t, NUL, NL}
                   /\ buffer[t][LineSize + 1] # t
                   /\ cur_size[t] = LineSize => \A i \in 1 .. LineSize : buffer[t][i] # NL

(* A program that waits has read nothing yet, and one that is not saving    *)
(* has written no history.                                                  *)
ReaderInv ==
  \A t \in Terms : /\ wait_for_nl[t] => program[t] = "waits"
                   /\ program[t] \in {"runs", "waits"} => got[t] = <<>>
                   /\ program[t] # "saves" => saved[t] = {}

(* The copy under way: g has been taken of the line w, b holds the rest.    *)
Copying(g, w, b) == /\ Len(g) <= Len(w)
                    /\ \A i \in 1 .. Len(g) : g[i] = w[i]
                    /\ \A i \in Len(g) + 1 .. Len(w) : b[i] = w[i]
                    /\ b[Len(w) + 1] = NL

(* A line the user stays with is either being copied whole or has been, and *)
(* then goes into the terminal's own history.                               *)
StayInv ==
  \A t \in Terms : stayed[t] =>
    /\ current_terminal = t
    /\ Pending(t) \/ program[t] \in {"executes", "saves"}
    /\ \A i \in 1 .. Len(typed[t]) : typed[t][i] = t
    /\ Pending(t) => Copying(got[t], typed[t], buffer[t])
    /\ program[t] = "executes" => got[t] = typed[t]
    /\ program[t] = "saves" => saved[t] = {t}

Inv == TypeInv /\ BufferInv /\ ReaderInv /\ StayInv
-----------------------------------------------------------------------------
(* The constants, and the characters as numbers. *)
LEMMA ConstantFacts ==
  /\ NUM_PROCESSES \in Nat \ {0} /\ LineSize \in Nat \ {0}
  /\ 0 \in Terms /\ Terms \subseteq Int
  /\ NUL \notin Terms /\ NL \notin Terms /\ NUL # NL
  /\ LineSize + 1 \in Cells /\ 1 \in Cells /\ LineSize + 1 # 1 /\ LineSize # 0
  BY ConsoleConstants DEF Terms, NUL, NL, Cells

(* The scheduler's choice is a terminal. *)
LEMMA NextTermInTerms ==
  ASSUME NEW t \in Terms PROVE (t + 1) % NUM_PROCESSES \in Terms
  BY ConsoleConstants DEF Terms

(* A function on 1 .. n is a sequence of length n. *)
LEMMA FunctionIsSeq ==
  ASSUME NEW S, NEW n \in Nat, NEW f \in [1 .. n -> S]
  PROVE  f \in Seq(S) /\ Len(f) = n
<1>1. f \in Seq(S)
  BY SeqDef
<1>2. DOMAIN f = 1 .. n /\ DOMAIN f = 1 .. Len(f) /\ Len(f) \in Nat
  BY <1>1, LenProperties
<1>3. QED
  BY <1>1, <1>2, SMT

(* The invariant holds when the terminals are initialised. *)
LEMMA InvInit == Init => Inv
<1> SUFFICES ASSUME Init PROVE Inv
  OBVIOUS
<1>1. TypeInv
  <2>1. <<>> \in Seq(Terms) /\ <<>> \in Seq(Terms \cup {NUL}) /\ Len(<<>>) = 0
    BY EmptySeq
  <2>2. got \in [Terms -> Seq(Terms)] /\ typed \in [Terms -> Seq(Terms \cup {NUL})]
    BY <2>1, Zenon DEF Init
  <2>3. \A t \in Terms : got[t] = <<>> /\ typed[t] = <<>>
    BY Zenon DEF Init
  <2>4. \A t \in Terms : /\ got[t] \in Seq(Terms) /\ Len(got[t]) <= LineSize
                         /\ typed[t] \in Seq(Terms \cup {NUL}) /\ Len(typed[t]) <= LineSize
    <3>1. \A t \in Terms : Len(got[t]) = 0 /\ Len(typed[t]) = 0
      BY <2>1, <2>3, Zenon
    <3>2. QED
      BY <2>2, <3>1, ConstantFacts
  <2>5. wait_for_nl \in [Terms -> BOOLEAN] /\ stayed \in [Terms -> BOOLEAN] /\ saved \in [Terms -> SUBSET Terms]
    BY Zenon DEF Init
  <2>6. buffer \in [Terms -> [Cells -> Terms \cup {NUL, NL}]]
    BY Zenon DEF Init
  <2>7. QED
    BY <2>2, <2>4, <2>5, <2>6, ConstantFacts DEF Init, TypeInv, TypeOK
<1>2. BufferInv
  BY ConstantFacts DEF Init, BufferInv
<1>3. ReaderInv
  BY DEF Init, ReaderInv
<1>4. StayInv
  BY DEF Init, StayInv
<1>5. QED
  BY <1>1, <1>2, <1>3, <1>4 DEF Inv
-----------------------------------------------------------------------------
(* Characters typed into an empty line. *)
LEMMA InvType == Inv /\ Type => Inv'
<1> SUFFICES ASSUME Inv, Type PROVE Inv'
  OBVIOUS
<1> DEFINE t == current_terminal
<1>0. /\ TypeInv /\ BufferInv /\ ReaderInv /\ StayInv
      /\ t \in Terms /\ buffer[t] \in [Cells -> Terms \cup {NUL, NL}]
  BY DEF Inv, TypeInv, TypeOK
<1>1. /\ UNCHANGED <<current_terminal, current_active_process, wait_for_nl, program, got, saved, typed, stayed>>
      /\ ~ Pending(t) /\ cur_size' = [cur_size EXCEPT ![t] = LineSize]
      /\ buffer' = [buffer EXCEPT ![t] = [i \in Cells |-> IF i <= LineSize THEN t ELSE buffer[t][i]]]
  BY DEF Type
<1>2. buffer'[t] = [i \in Cells |-> IF i <= LineSize THEN t ELSE buffer[t][i]]
  BY <1>0, <1>1 DEF TypeInv, TypeOK
<1>3. \A u \in Terms : u # t => buffer'[u] = buffer[u] /\ cur_size'[u] = cur_size[u]
  BY <1>0, <1>1 DEF TypeInv, TypeOK
<1>4. TypeInv'
  <2>1. buffer'[t] \in [Cells -> Terms \cup {NUL, NL}]
    BY <1>0, <1>2
  <2>2. buffer' \in [Terms -> [Cells -> Terms \cup {NUL, NL}]]
    BY <1>0, <1>1, <1>2, <2>1, Zenon DEF TypeInv, TypeOK
  <2>3. QED
    BY <1>0, <1>1, <2>2 DEF TypeInv, TypeOK
<1>5. BufferInv'
  <2> SUFFICES ASSUME NEW u \in Terms
               PROVE  /\ \A i \in Cells : buffer'[u][i] \in {u, NUL, NL}
                      /\ buffer'[u][LineSize + 1] # u
                      /\ cur_size'[u] = LineSize => \A i \in 1 .. LineSize : buffer'[u][i] # NL
    BY DEF BufferInv
  <2>1. CASE u = t
    BY <2>1, <1>0, <1>2, ConstantFacts DEF BufferInv, Cells
  <2>2. CASE u # t
    BY <2>2, <1>0, <1>3 DEF BufferInv
  <2>3. QED
    BY <2>1, <2>2
<1>6. ReaderInv'
  BY <1>0, <1>1 DEF ReaderInv
<1>7. StayInv'
  BY <1>0, <1>1 DEF StayInv, Pending
<1>8. QED
  BY <1>4, <1>5, <1>6, <1>7 DEF Inv

(* Enter finishes the line: a program that waits is released with it. *)
LEMMA InvEnter == Inv /\ Enter => Inv'
<1> SUFFICES ASSUME Inv, Enter PROVE Inv'
  OBVIOUS
<1> DEFINE t == current_terminal
           n == cur_size[t]
           w == [i \in 1 .. n |-> buffer[t][i]]
<1>0. /\ TypeInv /\ BufferInv /\ ReaderInv /\ StayInv
      /\ t \in Terms /\ buffer[t] \in [Cells -> Terms \cup {NUL, NL}]
      /\ n \in {0, LineSize} /\ n \in Nat /\ n + 1 \in Cells
  <2>1. /\ TypeInv /\ BufferInv /\ ReaderInv /\ StayInv
        /\ t \in Terms /\ buffer[t] \in [Cells -> Terms \cup {NUL, NL}]
        /\ n \in {0, LineSize}
    BY DEF Inv, TypeInv, TypeOK
  <2>2. \A m \in {0, LineSize} : m \in Nat /\ m + 1 \in Cells
    BY ConstantFacts DEF Cells
  <2>3. QED
    BY <2>1, <2>2, Zenon
<1>1. /\ UNCHANGED <<current_terminal, current_active_process, program, got, saved>>
      /\ ~ Pending(t) /\ cur_size' = [cur_size EXCEPT ![t] = 0]
      /\ buffer' = [buffer EXCEPT ![t] = [buffer[t] EXCEPT ![n + 1] = NL]]
      /\ wait_for_nl' = [wait_for_nl EXCEPT ![t] = FALSE]
      /\ typed' = IF wait_for_nl[t] THEN [typed EXCEPT ![t] = w] ELSE typed
      /\ stayed' = IF wait_for_nl[t] THEN [stayed EXCEPT ![t] = \A i \in 1 .. n : buffer[t][i] # NUL] ELSE stayed
  BY DEF Enter
<1>2. /\ buffer'[t] = [buffer[t] EXCEPT ![n + 1] = NL]
      /\ \A i \in Cells : buffer'[t][i] = IF i = n + 1 THEN NL ELSE buffer[t][i]
      /\ cur_size'[t] = 0 /\ ~ wait_for_nl'[t]
  BY <1>0, <1>1 DEF TypeInv, TypeOK
<1>3. \A u \in Terms : u # t => /\ buffer'[u] = buffer[u] /\ cur_size'[u] = cur_size[u]
                                /\ wait_for_nl'[u] = wait_for_nl[u]
                                /\ stayed'[u] = stayed[u] /\ typed'[u] = typed[u]
  BY <1>0, <1>1 DEF TypeInv, TypeOK
<1>4. w \in [1 .. n -> {t, NUL}]
  <2>1. \A i \in 1 .. n : i \in Cells /\ buffer[t][i] \in {t, NUL}
    BY <1>0, ConstantFacts DEF BufferInv, Cells
  <2>2. QED
    BY <2>1
<1>5. w \in Seq({t, NUL}) /\ w \in Seq(Terms \cup {NUL}) /\ Len(w) = n
  <2> HIDE DEF w, n
  <2>1. w \in [1 .. n -> Terms \cup {NUL}]
    BY <1>4, <1>0
  <2>2. QED
    BY <2>1, <1>4, <1>0, FunctionIsSeq
<1>6. TypeInv'
  <2>1. buffer' \in [Terms -> [Cells -> Terms \cup {NUL, NL}]]
    BY <1>0, <1>1, <1>2 DEF TypeInv, TypeOK
  <2>2. typed' \in [Terms -> Seq(Terms \cup {NUL})] /\ \A u \in Terms : Len(typed'[u]) <= LineSize
    <3> HIDE DEF w, n
    <3>1. CASE wait_for_nl[t]
      <4>1. typed' = [typed EXCEPT ![t] = w]
        BY <3>1, <1>1
      <4>2. Len(w) <= LineSize
        BY <1>5, <1>0, ConstantFacts
      <4>3. QED
        BY <4>1, <4>2, <1>0, <1>5 DEF TypeInv, TypeOK
    <3>2. CASE ~ wait_for_nl[t]
      BY <3>2, <1>0, <1>1 DEF TypeInv, TypeOK
    <3>3. QED
      BY <3>1, <3>2
  <2>3. stayed' \in [Terms -> BOOLEAN] /\ wait_for_nl' \in [Terms -> BOOLEAN]
    BY <1>0, <1>1, Zenon DEF TypeInv, TypeOK
  <2>4. cur_size' \in [Terms -> {0, LineSize}]
    BY <1>0, <1>1 DEF TypeInv, TypeOK
  <2>5. QED
    BY <1>0, <1>1, <2>1, <2>2, <2>3, <2>4 DEF TypeInv, TypeOK
<1>7. BufferInv'
  <2> SUFFICES ASSUME NEW u \in Terms
               PROVE  /\ \A i \in Cells : buffer'[u][i] \in {u, NUL, NL}
                      /\ buffer'[u][LineSize + 1] # u
                      /\ cur_size'[u] = LineSize => \A i \in 1 .. LineSize : buffer'[u][i] # NL
    BY DEF BufferInv
  <2>1. CASE u = t
    BY <2>1, <1>0, <1>2, ConstantFacts DEF BufferInv
  <2>2. CASE u # t
    BY <2>2, <1>0, <1>3 DEF BufferInv
  <2>3. QED
    BY <2>1, <2>2
<1>8. ReaderInv'
  BY <1>0, <1>1, <1>2, <1>3 DEF ReaderInv
<1>9. StayInv'
  <2> SUFFICES ASSUME NEW u \in Terms, stayed'[u]
               PROVE  /\ current_terminal' = u
                      /\ Pending(u)' \/ program'[u] \in {"executes", "saves"}
                      /\ \A i \in 1 .. Len(typed'[u]) : typed'[u][i] = u
                      /\ Pending(u)' => Copying(got'[u], typed'[u], buffer'[u])
                      /\ program'[u] = "executes" => got'[u] = typed'[u]
                      /\ program'[u] = "saves" => saved'[u] = {u}
    BY DEF StayInv, Copying
  <2>1. u = t
    BY <1>0, <1>3 DEF StayInv
  <2>2. CASE ~ wait_for_nl[t]
    BY <2>1, <2>2, <1>0, <1>1 DEF StayInv, Pending, TypeInv, TypeOK
  <2>3. CASE wait_for_nl[t]
    <3>1. /\ program[t] = "waits" /\ got'[t] = <<>> /\ Len(got'[t]) = 0
          /\ Pending(t)'
      BY <2>3, <1>0, <1>1, <1>2 DEF ReaderInv, Pending
    <3>2. typed'[t] = w /\ \A i \in 1 .. n : buffer[t][i] # NUL
      BY <2>1, <2>3, <1>0, <1>1 DEF TypeInv, TypeOK
    <3>3. Len(typed'[t]) = n
      BY <3>2, <1>5
    <3>4. \A i \in 1 .. n : typed'[t][i] = t /\ typed'[t][i] = buffer[t][i]
      BY <3>2, <1>4
    <3>5. \A i \in 1 .. n : i \in Cells /\ i # n + 1
      BY <1>0, ConstantFacts DEF Cells
    <3>6. Copying(got'[t], typed'[t], buffer'[t])
      BY <1>0, <1>2, <3>1, <3>3, <3>4, <3>5 DEF Copying
    <3>7. QED
      BY <2>1, <1>1, <3>1, <3>3, <3>4, <3>6
  <2>4. QED
    BY <2>2, <2>3
<1>10. QED
  BY <1>6, <1>7, <1>8, <1>9 DEF Inv

(* Alt-Fn: the line the user leaves is no longer one he stays with. *)
LEMMA InvAltFn == Inv /\ AltFn => Inv'
<1> SUFFICES ASSUME Inv, AltFn PROVE Inv'
  OBVIOUS
<1>0. TypeInv /\ BufferInv /\ ReaderInv /\ StayInv /\ current_terminal \in Terms
  BY DEF Inv, TypeInv, TypeOK
<1>1. /\ current_terminal' \in Terms
      /\ UNCHANGED <<current_active_process, buffer, cur_size, wait_for_nl, program, got, saved, typed>>
      /\ stayed' = [stayed EXCEPT ![current_terminal] = FALSE]
  BY DEF AltFn
<1>2. stayed' \in [Terms -> BOOLEAN] /\ \A u \in Terms : ~ stayed'[u]
  BY <1>0, <1>1 DEF TypeInv, TypeOK, StayInv
<1>3. TypeInv'
  BY <1>0, <1>1, <1>2 DEF TypeInv, TypeOK
<1>4. BufferInv' /\ ReaderInv'
  BY <1>0, <1>1 DEF BufferInv, ReaderInv
<1>5. StayInv'
  BY <1>2 DEF StayInv
<1>6. QED
  BY <1>3, <1>4, <1>5 DEF Inv

(* A program enters term_read. *)
LEMMA InvStart == Inv /\ term_read_start => Inv'
<1> SUFFICES ASSUME Inv, term_read_start PROVE Inv'
  OBVIOUS
<1> DEFINE t == current_active_process
<1>0. TypeInv /\ BufferInv /\ ReaderInv /\ StayInv /\ t \in Terms
  BY DEF Inv, TypeInv, TypeOK
<1>1. /\ program[t] = "runs"
      /\ wait_for_nl' = [wait_for_nl EXCEPT ![t] = TRUE]
      /\ program' = [program EXCEPT ![t] = "waits"]
      /\ UNCHANGED <<current_terminal, current_active_process, buffer, cur_size, got, saved, typed, stayed>>
  BY DEF term_read_start
<1>2. /\ program'[t] = "waits" /\ wait_for_nl'[t]
      /\ \A u \in Terms : u # t => program'[u] = program[u] /\ wait_for_nl'[u] = wait_for_nl[u]
  BY <1>0, <1>1 DEF TypeInv, TypeOK
<1>3. TypeInv'
  BY <1>0, <1>1 DEF TypeInv, TypeOK
<1>4. BufferInv'
  BY <1>0, <1>1 DEF BufferInv
<1>5. ReaderInv'
  BY <1>0, <1>1, <1>2 DEF ReaderInv
<1>6. StayInv'
  <2>1. ~ stayed[t]
    BY <1>0, <1>1 DEF StayInv, Pending
  <2>2. QED
    BY <2>1, <1>0, <1>1, <1>2 DEF StayInv, Pending
<1>7. QED
  BY <1>3, <1>4, <1>5, <1>6 DEF Inv

(* A released program begins to copy. *)
LEMMA InvRelease == Inv /\ term_read_release => Inv'
<1> SUFFICES ASSUME Inv, term_read_release PROVE Inv'
  OBVIOUS
<1> DEFINE t == current_active_process
<1>0. TypeInv /\ BufferInv /\ ReaderInv /\ StayInv /\ t \in Terms
  BY DEF Inv, TypeInv, TypeOK
<1>1. /\ program[t] = "waits" /\ ~ wait_for_nl[t]
      /\ program' = [program EXCEPT ![t] = "copies"]
      /\ UNCHANGED <<current_terminal, current_active_process, buffer, cur_size, wait_for_nl, got, saved, typed, stayed>>
  BY DEF term_read_release, Released
<1>2. program'[t] = "copies" /\ \A u \in Terms : u # t => program'[u] = program[u]
  BY <1>0, <1>1 DEF TypeInv, TypeOK
<1>3. TypeInv'
  BY <1>0, <1>1 DEF TypeInv, TypeOK
<1>4. BufferInv'
  BY <1>0, <1>1 DEF BufferInv
<1>5. ReaderInv'
  BY <1>0, <1>1, <1>2 DEF ReaderInv
<1>6. StayInv'
  BY <1>0, <1>1, <1>2 DEF StayInv, Pending
<1>7. QED
  BY <1>3, <1>4, <1>5, <1>6 DEF Inv

(* An empty sequence is a line, and so is the rest of one. *)
LEMMA Lines ==
  /\ <<>> \in Seq(Terms) /\ <<>> \in Seq(Terms \cup {NUL}) /\ Len(<<>>) = 0
  /\ \A g \in Seq(Terms) : g # <<>> => Tail(g) \in Seq(Terms) /\ Len(Tail(g)) <= Len(g)
<1>1. <<>> \in Seq(Terms) /\ <<>> \in Seq(Terms \cup {NUL}) /\ Len(<<>>) = 0
  BY EmptySeq
<1>2. ASSUME NEW g \in Seq(Terms), g # <<>> PROVE Tail(g) \in Seq(Terms) /\ Len(Tail(g)) <= Len(g)
  <2>1. Tail(g) \in Seq(Terms) /\ Len(Tail(g)) = Len(g) - 1 /\ Len(g) \in Nat
    BY <1>2, HeadTailProperties, LenProperties
  <2>2. QED
    BY <2>1
<1>3. QED
  BY <1>1, <1>2

(* What save_hist writes for a program whose user stays goes into its own   *)
(* terminal's history; what another writes there ends the stay.             *)
LEMMA WriteFacts ==
  ASSUME Inv, NEW t \in Terms, Writes(t),
         program[t] \in {"executes", "saves"}
  PROVE  /\ saved' \in [Terms -> SUBSET Terms] /\ stayed' \in [Terms -> BOOLEAN]
         /\ \A u \in Terms : u # t => saved'[u] = saved[u]
         /\ \A u \in Terms : stayed'[u] => stayed[u]
         /\ stayed'[t] => saved'[t] = {t}
<1>1. /\ saved \in [Terms -> SUBSET Terms] /\ stayed \in [Terms -> BOOLEAN] /\ current_terminal \in Terms
      /\ stayed[t] => current_terminal = t
      /\ program[t] # "saves" => saved[t] = {}
      /\ stayed[t] /\ program[t] = "saves" => saved[t] = {t}
  BY DEF Inv, TypeInv, TypeOK, StayInv, ReaderInv
<1>2. /\ saved' = [saved EXCEPT ![t] = saved[t] \cup {current_terminal}]
      /\ stayed' = IF t = current_terminal THEN stayed ELSE [stayed EXCEPT ![current_terminal] = FALSE]
  BY DEF Writes, HistoryOwner
<1>3. saved' \in [Terms -> SUBSET Terms] /\ saved'[t] = saved[t] \cup {current_terminal}
      /\ \A u \in Terms : u # t => saved'[u] = saved[u]
  BY <1>1, <1>2
<1>4. stayed' \in [Terms -> BOOLEAN] /\ \A u \in Terms : stayed'[u] => stayed[u]
  BY <1>1, <1>2
<1>5. QED
  BY <1>1, <1>3, <1>4

(* The shell executes the line: an empty one is not saved. *)
LEMMA InvExecute == Inv /\ Execute => Inv'
<1> SUFFICES ASSUME Inv, Execute PROVE Inv'
  OBVIOUS
<1> DEFINE t == current_active_process
<1>0. /\ TypeInv /\ BufferInv /\ ReaderInv /\ StayInv /\ t \in Terms
      /\ program \in [Terms -> {"runs", "waits", "copies", "executes", "saves"}]
  BY DEF Inv, TypeInv, TypeOK
<1>1. /\ program[t] = "executes" /\ typed' = [typed EXCEPT ![t] = <<>>]
      /\ UNCHANGED <<current_terminal, current_active_process, buffer, cur_size, wait_for_nl, got>>
  BY DEF Execute
<1>2. PICK p \in {"runs", "saves"} :
        /\ program' = [program EXCEPT ![t] = p]
        /\ saved' \in [Terms -> SUBSET Terms] /\ stayed' \in [Terms -> BOOLEAN]
        /\ \A u \in Terms : u # t => saved'[u] = saved[u]
        /\ \A u \in Terms : stayed'[u] => stayed[u]
        /\ p = "runs" => got[t] = <<>> /\ ~ stayed'[t] /\ saved'[t] = {}
        /\ p = "saves" => (stayed'[t] => saved'[t] = {t})
  <2>1. CASE /\ got[t] = <<>> /\ program' = [program EXCEPT ![t] = "runs"]
             /\ stayed' = [stayed EXCEPT ![t] = FALSE] /\ UNCHANGED saved
    <3>1. saved' \in [Terms -> SUBSET Terms] /\ saved[t] = {}
      BY <1>0, <1>1, <2>1 DEF TypeInv, TypeOK, ReaderInv
    <3>2. stayed' \in [Terms -> BOOLEAN] /\ ~ stayed'[t] /\ \A u \in Terms : stayed'[u] => stayed[u]
      BY <1>0, <2>1 DEF TypeInv, TypeOK
    <3>3. QED
      BY <2>1, <3>1, <3>2
  <2>2. CASE program' = [program EXCEPT ![t] = "saves"] /\ Writes(t)
    <3>1. /\ saved' \in [Terms -> SUBSET Terms] /\ stayed' \in [Terms -> BOOLEAN]
          /\ \A u \in Terms : u # t => saved'[u] = saved[u]
          /\ \A u \in Terms : stayed'[u] => stayed[u]
          /\ stayed'[t] => saved'[t] = {t}
      BY <1>0, <1>1, <2>2, WriteFacts
    <3>2. QED
      BY <2>2, <3>1
  <2>3. QED
    BY <2>1, <2>2 DEF Execute
<1>3. /\ program'[t] = p /\ typed'[t] = <<>>
      /\ \A u \in Terms : u # t => program'[u] = program[u] /\ typed'[u] = typed[u]
  BY <1>0, <1>1, <1>2 DEF TypeInv
<1>4. TypeInv'
  <2>1. typed' \in [Terms -> Seq(Terms \cup {NUL})]
    BY Lines, <1>0, <1>1 DEF TypeInv
  <2>2. \A u \in Terms : Len(typed'[u]) <= LineSize
    <3>1. Len(typed'[t]) = 0
      BY Lines, <1>3, Zenon
    <3>2. Len(typed'[t]) <= LineSize
      BY <3>1, ConstantFacts
    <3>3. \A u \in Terms : u # t => Len(typed'[u]) <= LineSize
      BY <1>0, <1>3, Zenon DEF TypeInv, TypeOK
    <3>4. QED
      BY <3>2, <3>3, Zenon
  <2>3. program' \in [Terms -> {"runs", "waits", "copies", "executes", "saves"}]
    BY <1>0, <1>2
  <2>4. QED
    BY <2>1, <2>2, <2>3, <1>0, <1>1, <1>2 DEF TypeInv, TypeOK
<1>5. BufferInv'
  BY <1>0, <1>1 DEF BufferInv
<1>6. ReaderInv'
  BY <1>0, <1>1, <1>2, <1>3 DEF ReaderInv
<1>7. StayInv'
  <2> SUFFICES ASSUME NEW u \in Terms, stayed'[u]
               PROVE  /\ current_terminal' = u
                      /\ Pending(u)' \/ program'[u] \in {"executes", "saves"}
                      /\ \A i \in 1 .. Len(typed'[u]) : typed'[u][i] = u
                      /\ Pending(u)' => Copying(got'[u], typed'[u], buffer'[u])
                      /\ program'[u] = "executes" => got'[u] = typed'[u]
                      /\ program'[u] = "saves" => saved'[u] = {u}
    BY DEF StayInv, Copying
  <2>0. stayed[u]
    BY <1>2
  <2>1. CASE u = t
    <3>1. p = "saves"
      BY <1>2, <2>1
    <3>2. ~ Pending(u)'
      BY <1>3, <2>1, <3>1 DEF Pending
    <3>3. \A i \in 1 .. Len(typed'[u]) : typed'[u][i] = u
      <4>1. Len(typed'[u]) = 0
        BY Lines, <1>3, <2>1, Zenon
      <4>2. QED
        BY <4>1
    <3>4. QED
      BY <1>0, <1>1, <1>2, <1>3, <2>0, <2>1, <3>1, <3>2, <3>3 DEF StayInv
  <2>2. CASE u # t
    BY <1>0, <1>1, <1>2, <1>3, <2>0, <2>2 DEF StayInv, Pending
  <2>3. QED
    BY <2>1, <2>2
<1>8. QED
  BY <1>4, <1>5, <1>6, <1>7 DEF Inv

(* A round of save_hist, and its end. *)
LEMMA InvSave == Inv /\ save_hist => Inv'
<1> SUFFICES ASSUME Inv, save_hist PROVE Inv'
  OBVIOUS
<1> DEFINE t == current_active_process
<1>0. /\ TypeInv /\ BufferInv /\ ReaderInv /\ StayInv /\ t \in Terms
      /\ program \in [Terms -> {"runs", "waits", "copies", "executes", "saves"}]
      /\ got \in [Terms -> Seq(Terms)]
  BY DEF Inv, TypeInv, TypeOK
<1>1. /\ program[t] = "saves"
      /\ UNCHANGED <<current_terminal, current_active_process, buffer, cur_size, wait_for_nl, typed>>
  BY DEF save_hist
<1>2. /\ saved' \in [Terms -> SUBSET Terms] /\ stayed' \in [Terms -> BOOLEAN]
      /\ got' \in [Terms -> Seq(Terms)] /\ \A u \in Terms : Len(got'[u]) <= LineSize
      /\ program' \in [Terms -> {"runs", "waits", "copies", "executes", "saves"}]
      /\ \A u \in Terms : u # t => saved'[u] = saved[u] /\ got'[u] = got[u] /\ program'[u] = program[u]
      /\ \A u \in Terms : stayed'[u] => stayed[u]
      /\ \/ program'[t] = "saves" /\ (stayed'[t] => saved'[t] = {t})
         \/ program'[t] = "runs" /\ got'[t] = <<>> /\ ~ stayed'[t] /\ saved'[t] = {}
  <2>1. CASE got[t] # <<>> /\ Writes(t) /\ got' = [got EXCEPT ![t] = Tail(got[t])] /\ UNCHANGED program
    <3>1. /\ saved' \in [Terms -> SUBSET Terms] /\ stayed' \in [Terms -> BOOLEAN]
          /\ \A u \in Terms : u # t => saved'[u] = saved[u]
          /\ \A u \in Terms : stayed'[u] => stayed[u]
          /\ stayed'[t] => saved'[t] = {t}
      BY <1>0, <1>1, <2>1, WriteFacts
    <3>2. Tail(got[t]) \in Seq(Terms) /\ Len(Tail(got[t])) <= Len(got[t])
      BY <1>0, <2>1, Lines
    <3>3. got' \in [Terms -> Seq(Terms)] /\ got'[t] = Tail(got[t]) /\ \A u \in Terms : u # t => got'[u] = got[u]
      BY <1>0, <2>1, <3>2
    <3>4. \A u \in Terms : Len(got[u]) <= LineSize /\ Len(got[u]) \in Nat
      BY <1>0, LenProperties DEF TypeInv, TypeOK
    <3>5. Len(got'[t]) <= LineSize
      <4>1. Len(got'[t]) <= Len(got[t]) /\ Len(got'[t]) \in Nat
        BY <1>0, <3>2, <3>3, LenProperties
      <4>2. QED
        BY <1>0, <3>4, <4>1, ConstantFacts
    <3>6. \A u \in Terms : Len(got'[u]) <= LineSize
      BY <3>3, <3>4, <3>5, Zenon
    <3>7. QED
      BY <1>0, <1>1, <2>1, <3>1, <3>3, <3>6
  <2>2. CASE /\ got[t] = <<>> /\ program' = [program EXCEPT ![t] = "runs"]
             /\ saved' = [saved EXCEPT ![t] = {}] /\ stayed' = [stayed EXCEPT ![t] = FALSE] /\ UNCHANGED got
    <3>1. saved' \in [Terms -> SUBSET Terms] /\ saved'[t] = {} /\ \A u \in Terms : u # t => saved'[u] = saved[u]
      BY <1>0, <2>2 DEF TypeInv, TypeOK
    <3>2. stayed' \in [Terms -> BOOLEAN] /\ ~ stayed'[t] /\ \A u \in Terms : stayed'[u] => stayed[u]
      BY <1>0, <2>2 DEF TypeInv, TypeOK
    <3>3. \A u \in Terms : Len(got'[u]) <= LineSize
      BY <1>0, <2>2 DEF TypeInv, TypeOK
    <3>4. QED
      BY <1>0, <2>2, <3>1, <3>2, <3>3
  <2>3. QED
    BY <2>1, <2>2 DEF save_hist
<1>3. TypeInv'
  BY <1>0, <1>1, <1>2 DEF TypeInv, TypeOK
<1>4. BufferInv'
  BY <1>0, <1>1 DEF BufferInv
<1>5. ReaderInv'
  BY <1>0, <1>1, <1>2 DEF ReaderInv
<1>6. StayInv'
  <2> SUFFICES ASSUME NEW u \in Terms, stayed'[u]
               PROVE  /\ current_terminal' = u
                      /\ Pending(u)' \/ program'[u] \in {"executes", "saves"}
                      /\ \A i \in 1 .. Len(typed'[u]) : typed'[u][i] = u
                      /\ Pending(u)' => Copying(got'[u], typed'[u], buffer'[u])
                      /\ program'[u] = "executes" => got'[u] = typed'[u]
                      /\ program'[u] = "saves" => saved'[u] = {u}
    BY DEF StayInv, Copying
  <2>0. stayed[u]
    BY <1>2
  <2>1. CASE u = t
    BY <1>0, <1>1, <1>2, <2>0, <2>1 DEF StayInv, Pending
  <2>2. CASE u # t
    BY <1>0, <1>1, <1>2, <2>0, <2>2 DEF StayInv, Pending
  <2>3. QED
    BY <2>1, <2>2
<1>7. QED
  BY <1>3, <1>4, <1>5, <1>6 DEF Inv

(* A round of the copying loop: it stays inside the buffer, and of a line   *)
(* the user stays with it takes the next character.                         *)
LEMMA InvCopy == Inv /\ term_read_copy => Inv'
<1> SUFFICES ASSUME Inv, term_read_copy PROVE Inv'
  OBVIOUS
<1> DEFINE t == current_active_process
           s == current_terminal
           i == Len(got[t]) + 1
           c == buffer[s][i]
<1>0. /\ TypeInv /\ BufferInv /\ ReaderInv /\ StayInv /\ t \in Terms /\ s \in Terms
      /\ got[t] \in Seq(Terms) /\ Len(got[t]) \in Nat /\ Len(got[t]) <= LineSize
      /\ buffer[s] \in [Cells -> Terms \cup {NUL, NL}]
  BY DEF Inv, TypeInv, TypeOK
<1>1. i \in Cells /\ i \in Nat \ {0}
  BY <1>0, ConstantFacts DEF Cells
<1>2. /\ program[t] = "copies"
      /\ buffer' = [buffer EXCEPT ![s] = [buffer[s] EXCEPT ![i] = NUL]]
      /\ c \in {NL, NUL} => program' = [program EXCEPT ![t] = "executes"] /\ got' = got
      /\ c \notin {NL, NUL} => program' = program /\ got' = [got EXCEPT ![t] = Append(got[t], c)]
      /\ stayed' = IF t = s THEN stayed ELSE [stayed EXCEPT ![s] = FALSE]
      /\ UNCHANGED <<current_terminal, current_active_process, cur_size, wait_for_nl, saved, typed>>
  BY DEF term_read_copy, ReadSource
<1>3. /\ \A j \in Cells : buffer'[s][j] = IF j = i THEN NUL ELSE buffer[s][j]
      /\ \A u \in Terms : u # s => buffer'[u] = buffer[u]
  BY <1>0, <1>1, <1>2 DEF TypeInv, TypeOK
<1>4. c \notin {NL, NUL} => c = s /\ i <= LineSize
  <2>1. c \in {s, NUL, NL} /\ (i = LineSize + 1 => c # s)
    BY <1>0, <1>1 DEF BufferInv
  <2>2. QED
    BY <2>1, <1>0, <1>1, ConstantFacts DEF Cells
<1>5. c \notin {NL, NUL} =>
        /\ got'[t] = Append(got[t], c) /\ got'[t] \in Seq(Terms)
        /\ Len(got'[t]) = i /\ got'[t][i] = s
        /\ \A j \in 1 .. Len(got[t]) : got'[t][j] = got[t][j]
  <2> SUFFICES ASSUME c \notin {NL, NUL}
               PROVE  /\ got'[t] = Append(got[t], s) /\ got'[t] \in Seq(Terms)
                      /\ Len(got'[t]) = i /\ got'[t][i] = s
                      /\ \A j \in 1 .. Len(got[t]) : got'[t][j] = got[t][j]
    BY <1>4
  <2>1. got'[t] = Append(got[t], s)
    BY <1>0, <1>2, <1>4 DEF TypeInv
  <2>2. QED
    BY <2>1, <1>0
<1>6. \A u \in Terms : u # t => got'[u] = got[u] /\ program'[u] = program[u]
  BY <1>0, <1>2 DEF TypeInv, TypeOK
<1>7. TypeInv'
  <2>1. buffer' \in [Terms -> [Cells -> Terms \cup {NUL, NL}]]
    BY <1>0, <1>1, <1>2 DEF TypeInv, TypeOK
  <2>2. got' \in [Terms -> Seq(Terms)]
    <3>1. CASE c \in {NL, NUL}
      BY <3>1, <1>0, <1>2 DEF TypeInv
    <3>2. CASE c \notin {NL, NUL}
      <4>1. /\ got' = [got EXCEPT ![t] = got'[t]] /\ got'[t] \in Seq(Terms)
        BY <3>2, <1>2, <1>5
      <4>2. QED
        BY <4>1, <1>0, Zenon DEF TypeInv
    <3>3. QED
      BY <3>1, <3>2
  <2>3. \A u \in Terms : Len(got'[u]) <= LineSize
    <3>1. Len(got'[t]) <= LineSize
      BY <1>0, <1>2, <1>4, <1>5
    <3>2. QED
      BY <3>1, <1>0, <1>6, Zenon DEF TypeInv, TypeOK
  <2>4. program' \in [Terms -> {"runs", "waits", "copies", "executes", "saves"}]
    BY <1>0, <1>2 DEF TypeInv, TypeOK
  <2>5. stayed' \in [Terms -> BOOLEAN]
    BY <1>0, <1>2 DEF TypeInv, TypeOK
  <2>6. QED
    BY <1>0, <1>2, <2>1, <2>2, <2>3, <2>4, <2>5 DEF TypeInv, TypeOK
<1>8. BufferInv'
  <2> SUFFICES ASSUME NEW u \in Terms
               PROVE  /\ \A j \in Cells : buffer'[u][j] \in {u, NUL, NL}
                      /\ buffer'[u][LineSize + 1] # u
                      /\ cur_size'[u] = LineSize => \A j \in 1 .. LineSize : buffer'[u][j] # NL
    BY DEF BufferInv
  <2>1. CASE u = s
    BY <2>1, <1>0, <1>2, <1>3, ConstantFacts DEF BufferInv, Cells
  <2>2. CASE u # s
    BY <2>2, <1>0, <1>2, <1>3 DEF BufferInv
  <2>3. QED
    BY <2>1, <2>2
<1>9. ReaderInv'
  <2> SUFFICES ASSUME NEW u \in Terms
               PROVE  /\ wait_for_nl'[u] => program'[u] = "waits"
                      /\ program'[u] \in {"runs", "waits"} => got'[u] = <<>>
                      /\ program'[u] # "saves" => saved'[u] = {}
    BY DEF ReaderInv
  <2>1. CASE u = t
    BY <2>1, <1>0, <1>2 DEF ReaderInv, TypeInv, TypeOK
  <2>2. CASE u # t
    BY <2>2, <1>0, <1>2, <1>6 DEF ReaderInv
  <2>3. QED
    BY <2>1, <2>2
<1>10. StayInv'
  <2> SUFFICES ASSUME NEW u \in Terms, stayed'[u]
               PROVE  /\ current_terminal' = u
                      /\ Pending(u)' \/ program'[u] \in {"executes", "saves"}
                      /\ \A j \in 1 .. Len(typed'[u]) : typed'[u][j] = u
                      /\ Pending(u)' => Copying(got'[u], typed'[u], buffer'[u])
                      /\ program'[u] = "executes" => got'[u] = typed'[u]
                      /\ program'[u] = "saves" => saved'[u] = {u}
    BY DEF StayInv, Copying
  <2>1. stayed[u] /\ u = s /\ u = t
    BY <1>0, <1>2 DEF StayInv, TypeInv, TypeOK
  <2>2. /\ Pending(t) /\ Copying(got[t], typed[t], buffer[t])
        /\ \A j \in 1 .. Len(typed[t]) : typed[t][j] = t
    BY <2>1, <1>0, <1>2 DEF StayInv, Pending
  <2>3. typed[t] \in Seq(Terms \cup {NUL}) /\ Len(typed[t]) \in Nat /\ Len(typed[t]) <= LineSize
    BY <1>0 DEF TypeInv, TypeOK
  <2>4. CASE Len(got[t]) < Len(typed[t])
    <3>1. c = t /\ c \notin {NL, NUL}
      <4>1. i \in Len(got[t]) + 1 .. Len(typed[t]) /\ i \in 1 .. Len(typed[t])
        BY <2>3, <2>4, <1>0
      <4>2. c = typed[t][i] /\ typed[t][i] = t
        BY <4>1, <2>1, <2>2 DEF Copying
      <4>3. QED
        BY <4>2, <1>0, ConstantFacts
    <3>2. program'[t] = "copies" /\ Len(got'[t]) = i /\ got'[t][i] = t
      BY <3>1, <2>1, <1>2, <1>5
    <3>3. \A j \in 1 .. i : got'[t][j] = typed[t][j]
      <4>1. typed[t][i] = t
        BY <2>2, <2>3, <2>4, <1>0
      <4>2. \A j \in 1 .. Len(got[t]) : got'[t][j] = got[t][j]
        BY <3>1, <1>5
      <4>3. \A j \in 1 .. Len(got[t]) : got[t][j] = typed[t][j]
        BY <2>2 DEF Copying
      <4>4. \A j \in 1 .. i : j = i \/ j \in 1 .. Len(got[t])
        BY <1>0
      <4> HIDE DEF i
      <4>5. QED
        BY <3>2, <4>1, <4>2, <4>3, <4>4
    <3>4. \A j \in i + 1 .. Len(typed[t]) + 1 : j \in Cells /\ j # i
      BY <1>0, <1>1, <2>3, ConstantFacts DEF Cells
    <3>5. \A j \in i + 1 .. Len(typed[t]) : buffer'[t][j] = typed[t][j]
      BY <3>4, <2>1, <2>2, <2>3, <1>0, <1>3 DEF Copying
    <3>6. buffer'[t][Len(typed[t]) + 1] = NL
      BY <3>4, <2>1, <2>2, <2>3, <2>4, <1>0, <1>3 DEF Copying
    <3>7. Copying(got'[t], typed[t], buffer'[t])
      BY <3>2, <3>3, <3>5, <3>6, <2>3, <2>4, <1>0 DEF Copying
    <3>8. QED
      BY <3>2, <3>7, <2>1, <2>2, <1>2 DEF Pending
  <2>5. CASE Len(got[t]) >= Len(typed[t])
    <3>1. Len(got[t]) = Len(typed[t]) /\ c = NL
      BY <2>1, <2>2, <2>3, <2>5, <1>0 DEF Copying
    <3>2. program'[t] = "executes" /\ got'[t] = got[t]
      BY <3>1, <1>0, <1>2 DEF TypeInv, TypeOK
    <3>3. got[t] \in Seq(Terms \cup {NUL})
      <4>1. Terms \subseteq Terms \cup {NUL}
        OBVIOUS
      <4>2. QED
        BY <4>1, <1>0, SeqMonotonic
    <3>4. got[t] = typed[t]
      BY <3>1, <3>3, <2>2, <2>3, SeqEqual DEF Copying
    <3>5. ~ Pending(u)'
      BY <3>2, <2>1 DEF Pending
    <3>6. QED
      BY <3>2, <3>4, <3>5, <2>1, <2>2, <1>2
  <2>6. QED
    BY <2>3, <2>4, <2>5, <1>0
<1>11. QED
  BY <1>7, <1>8, <1>9, <1>10 DEF Inv

(* The scheduler gives another terminal's program the processor. *)
LEMMA InvTick == Inv /\ Tick => Inv'
<1> SUFFICES ASSUME Inv, Tick PROVE Inv'
  OBVIOUS
<1>1. /\ UNCHANGED <<current_terminal, buffer, cur_size, wait_for_nl, program, got, saved, typed, stayed>>
      /\ current_active_process' \in Terms
  BY NextTermInTerms DEF Tick, Inv, TypeInv, TypeOK
<1>2. TypeInv'
  BY <1>1 DEF Inv, TypeInv, TypeOK
<1>3. BufferInv' /\ ReaderInv' /\ StayInv'
  BY <1>1 DEF Inv, BufferInv, ReaderInv, StayInv, Pending
<1>4. QED
  BY <1>2, <1>3 DEF Inv

(* Every step preserves the invariant. *)
LEMMA InvNext == Inv /\ [Next]_vars => Inv'
<1>1. Inv /\ UNCHANGED vars => Inv'
  BY DEF vars, Inv, TypeInv, TypeOK, BufferInv, ReaderInv, StayInv, Pending
<1>2. QED
  BY <1>1, InvType, InvEnter, InvAltFn, InvStart, InvRelease, InvCopy, InvExecute, InvSave, InvTick
     DEF Next, Program

(* The invariant holds in every reachable state. *)
LEMMA InvAlways == Spec => []Inv
  BY InvInit, InvNext, PTL DEF Spec
-----------------------------------------------------------------------------
(* Type correctness: term_read stays inside the line buffer and returns no  *)
(* more characters than a line has, whichever terminal's buffer its rounds  *)
(* read.                                                                    *)
THEOREM ConsoleTypeCorrect == Spec => []TypeOK
<1>1. Inv => TypeOK
  BY DEF Inv, TypeInv
<1>2. QED
  BY <1>1, InvAlways, PTL

(* A program whose user stays on its terminal until the line is read gets   *)
(* the line typed there, whatever the scheduler and the programs of the     *)
(* other terminals do meanwhile.                                            *)
THEOREM StayedReadsOwnLine == Spec => []StayedOwnLine
<1>1. Inv => StayedOwnLine
  BY DEF Inv, StayInv, StayedOwnLine
<1>2. QED
  BY <1>1, InvAlways, PTL

(* Although save_hist goes by the screen, a program whose user stays writes *)
(* the line into its own terminal's history and into no other.              *)
THEOREM SavesOwnHistory == Spec => []OwnHistory
<1>1. Inv => OwnHistory
  BY DEF Inv, StayInv, OwnHistory
<1>2. QED
  BY <1>1, InvAlways, PTL
-----------------------------------------------------------------------------
(***************************************************************************)
(* The keys that reach these terminals (module Keyboard).                   *)
(***************************************************************************)
VARIABLES flag, alt_flag, caps_lock_flag, held, carried, did

Keys == INSTANCE Keyboard

(* The flags are the fingers: but in terminals their key was carried into   *)
(* or out of, each says in the terminal shown whether its key is down, and  *)
(* in no other terminal is one left set.                                    *)
FlagInv == /\ alt_flag \in BOOLEAN /\ (alt_flag <=> "alt" \in held)
           /\ \A m \in Keys!Local : \A t \in Terms \ carried[m] :
                flag[m][t] <=> m \in held /\ t = current_terminal

KeysInv == /\ current_terminal \in Terms
           /\ flag \in [Keys!Local -> [Terms -> BOOLEAN]]
           /\ carried \in [Keys!Local -> SUBSET Terms]
           /\ caps_lock_flag \in BOOLEAN
           /\ FlagInv

(* No key is down and no flag set at the start. *)
LEMMA KeysInit == Keys!Init => KeysInv
<1> SUFFICES ASSUME Keys!Init PROVE KeysInv
  OBVIOUS
<1>1. current_terminal \in Terms
  BY ConsoleConstants DEF Keys!Init, Terms
<1>2. flag = [m \in Keys!Local |-> [t \in Terms |-> FALSE]] /\ ~ alt_flag /\ held = {}
      /\ alt_flag = FALSE /\ caps_lock_flag = FALSE
  BY DEF Keys!Init, Keys!Terms, Terms
<1>3. FlagInv
  BY <1>2, Zenon DEF FlagInv
<1>4. flag \in [Keys!Local -> [Terms -> BOOLEAN]]
  BY <1>2, Zenon
<1>5. carried \in [Keys!Local -> SUBSET Terms]
  BY Zenon DEF Keys!Init
<1> QED BY <1>1, <1>2, <1>3, <1>4, <1>5 DEF KeysInv

(* Press and Release of a local modifier: its flag in the terminal shown    *)
(* becomes down, and no other flag changes.                                 *)
LEMMA OneFlag ==
  ASSUME KeysInv, NEW m \in Keys!Local, NEW down \in BOOLEAN,
         flag' = [flag EXCEPT ![m][current_terminal] = down],
         Keys!Settled(m), alt_flag' = alt_flag, caps_lock_flag' = caps_lock_flag,
         current_terminal' = current_terminal,
         "alt" \in held' <=> "alt" \in held,
         m \in held' <=> down,
         \A n \in Keys!Local : n # m => (n \in held' <=> n \in held)
  PROVE  KeysInv'
<1>1. /\ flag \in [Keys!Local -> [Terms -> BOOLEAN]] /\ current_terminal \in Terms
      /\ carried \in [Keys!Local -> SUBSET Terms]
  BY DEF KeysInv
<1>2. flag' = [flag EXCEPT ![m] = [flag[m] EXCEPT ![current_terminal] = down]]
  OBVIOUS
<1>3. carried' = [carried EXCEPT ![m] = carried[m] \ {current_terminal}]
  BY DEF Keys!Settled
<1>4. \A n \in Keys!Local : \A t \in Terms \ carried[n] : flag[n][t] <=> n \in held /\ t = current_terminal
  BY DEF KeysInv, FlagInv
<1> HIDE DEF Keys!Local
<1>5. [flag[m] EXCEPT ![current_terminal] = down] \in [Terms -> BOOLEAN]
  BY <1>1, Zenon
<1>6. flag' \in [Keys!Local -> [Terms -> BOOLEAN]]
  BY <1>1, <1>2, <1>5, Zenon
<1>7. carried' \in [Keys!Local -> SUBSET Terms]
  BY <1>1, <1>3
<1>8. ASSUME NEW n \in Keys!Local, NEW t \in Terms \ carried'[n]
      PROVE  flag'[n][t] <=> n \in held' /\ t = current_terminal
  <2>1. flag'[n][t] = IF n = m /\ t = current_terminal THEN down ELSE flag[n][t]
    BY <1>1, <1>2
  <2>2. CASE n = m /\ t = current_terminal
    BY <2>1, <2>2
  <2>3. CASE n # m
    <3>1. t \in Terms \ carried[n]
      BY <1>1, <1>3, <1>8, <2>3
    <3> QED BY <1>4, <2>1, <2>3, <3>1
  <2>4. CASE n = m /\ t # current_terminal
    <3>1. t \in Terms \ carried[n]
      BY <1>1, <1>3, <1>8, <2>4
    <3> QED BY <1>4, <2>1, <2>4, <3>1
  <2> QED BY <2>2, <2>3, <2>4
<1>9. FlagInv'
  BY <1>8, Zenon DEF KeysInv, FlagInv
<1> QED BY <1>1, <1>6, <1>7, <1>9 DEF KeysInv

(* Every key keeps the flags in step with the fingers. *)
LEMMA KeysStep ==
  ASSUME KeysInv, [Keys!Next]_(Keys!vars)
  PROVE  KeysInv'
<1>t. Keys!Terms = Terms
  BY DEF Keys!Terms, Terms
<1>1. ASSUME NEW m \in Keys!Modifiers, Keys!Press(m) PROVE KeysInv'
  <2>1. held' = held \cup {m} /\ caps_lock_flag' = caps_lock_flag /\ current_terminal' = current_terminal
    BY <1>1 DEF Keys!Press
  <2>2. CASE m = "alt" /\ alt_flag' = TRUE /\ UNCHANGED <<flag, carried>>
    <3>1. \A n \in Keys!Local : n \in held' <=> n \in held
      BY <2>1, <2>2 DEF Keys!Local
    <3>2. FlagInv'
      BY <2>1, <2>2, <3>1, Zenon DEF KeysInv, FlagInv
    <3> QED BY <2>1, <2>2, <3>2 DEF KeysInv
  <2>3. CASE /\ m \in Keys!Local /\ flag' = [flag EXCEPT ![m][current_terminal] = TRUE]
             /\ Keys!Settled(m) /\ UNCHANGED alt_flag
    <3>1. "alt" \in held' <=> "alt" \in held
      BY <2>1, <2>3 DEF Keys!Local
    <3>2. m \in held' <=> TRUE
      BY <2>1
    <3>3. \A n \in Keys!Local : n # m => (n \in held' <=> n \in held)
      BY <2>1
    <3>4. KeysInv'
      BY <2>1, <2>3, <3>1, <3>2, <3>3, OneFlag
    <3> QED BY <3>4
  <2> QED BY <1>1, <2>2, <2>3 DEF Keys!Press
<1>2. ASSUME NEW m \in Keys!Modifiers, Keys!Release(m) PROVE KeysInv'
  <2>1. held' = held \ {m} /\ caps_lock_flag' = caps_lock_flag /\ current_terminal' = current_terminal
    BY <1>2 DEF Keys!Release
  <2>2. CASE m = "alt" /\ alt_flag' = FALSE /\ UNCHANGED <<flag, carried>>
    <3>1. \A n \in Keys!Local : n \in held' <=> n \in held
      BY <2>1, <2>2 DEF Keys!Local
    <3>2. FlagInv'
      BY <2>1, <2>2, <3>1, Zenon DEF KeysInv, FlagInv
    <3> QED BY <2>1, <2>2, <3>2 DEF KeysInv
  <2>3. CASE /\ m \in Keys!Local /\ flag' = [flag EXCEPT ![m][current_terminal] = FALSE]
             /\ Keys!Settled(m) /\ UNCHANGED alt_flag
    <3>1. "alt" \in held' <=> "alt" \in held
      BY <2>1, <2>3 DEF Keys!Local
    <3>2. m \in held' <=> FALSE
      BY <2>1
    <3>3. \A n \in Keys!Local : n # m => (n \in held' <=> n \in held)
      BY <2>1
    <3>4. KeysInv'
      BY <2>1, <2>3, <3>1, <3>2, <3>3, OneFlag
    <3> QED BY <3>4
  <2> QED BY <1>2, <2>2, <2>3 DEF Keys!Release
<1>3. CASE Keys!CapsLock
  <2>1. caps_lock_flag' = ~ caps_lock_flag /\ UNCHANGED <<flag, alt_flag, current_terminal, held, carried>>
    BY <1>3 DEF Keys!CapsLock
  <2> QED BY <2>1, Zenon DEF KeysInv, FlagInv
<1>4. ASSUME UNCHANGED <<flag, alt_flag, caps_lock_flag, current_terminal, held, carried>> PROVE KeysInv'
  BY <1>4, Zenon DEF KeysInv, FlagInv
<1>5. ASSUME NEW n \in Terms, Keys!FKey(n) PROVE KeysInv'
  <2>1. UNCHANGED <<flag, alt_flag, caps_lock_flag, held>>
    BY <1>5 DEF Keys!FKey
  <2>2. CASE ~ alt_flag
    BY <1>4, <1>5, <2>1, <2>2 DEF Keys!FKey
  <2>3. CASE alt_flag
    <3>1. /\ current_terminal' = n
          /\ carried' = [m \in Keys!Local |-> IF m \in held /\ n # current_terminal
                                              THEN carried[m] \cup {current_terminal, n}
                                              ELSE carried[m]]
      BY <1>5, <2>3 DEF Keys!FKey
    <3>2. current_terminal \in Terms /\ carried \in [Keys!Local -> SUBSET Terms]
      BY DEF KeysInv
    <3> HIDE DEF Keys!Local
    <3>3. carried' \in [Keys!Local -> SUBSET Terms]
      BY <1>5, <3>1, <3>2
    <3>4. ASSUME NEW m \in Keys!Local, NEW t \in Terms \ carried'[m]
          PROVE  flag'[m][t] <=> m \in held' /\ t = current_terminal'
      <4>1. t \in Terms \ carried[m] /\ (m \in held /\ n # current_terminal => t # current_terminal /\ t # n)
        BY <3>1, <3>4
      <4>2. flag[m][t] <=> m \in held /\ t = current_terminal
        BY <4>1 DEF KeysInv, FlagInv
      <4> QED BY <2>1, <3>1, <4>1, <4>2
    <3>5. FlagInv'
      BY <2>1, <3>4, Zenon DEF KeysInv, FlagInv
    <3> QED BY <1>5, <2>1, <3>1, <3>3, <3>5 DEF KeysInv
  <2> QED BY <2>2, <2>3
<1>6. CASE Keys!Sign \/ (\E isL \in BOOLEAN : Keys!Letter(isL)) \/ UNCHANGED Keys!vars
  BY <1>4, <1>6 DEF Keys!Sign, Keys!Letter, Keys!vars
<1> QED BY <1>t, <1>1, <1>2, <1>3, <1>5, <1>6 DEF Keys!Next

(* What a key does, given that the flags are the fingers. *)
LEMMA KeyDoes ==
  ASSUME KeysInv, Keys!Next
  PROVE  did' # Keys!Nothing =>
           /\ did'.what = "char" /\ Keys!Own("shift_l") /\ Keys!Own("shift_r")
                => did'.upper = (Keys!ShiftHeld # caps_lock_flag)
           /\ did'.what = "sign" /\ Keys!Own("shift_l") /\ Keys!Own("shift_r") => did'.upper = Keys!ShiftHeld
           /\ did'.what = "clear" /\ Keys!Own("ctrl") => "ctrl" \in held
           /\ did'.what \in {"switch", "nul"} => (did'.what = "switch") = ("alt" \in held)
<1> SUFFICES ASSUME did' # Keys!Nothing
             PROVE  /\ did'.what = "char" /\ Keys!Own("shift_l") /\ Keys!Own("shift_r")
                         => did'.upper = (Keys!ShiftHeld # caps_lock_flag)
                    /\ did'.what = "sign" /\ Keys!Own("shift_l") /\ Keys!Own("shift_r") => did'.upper = Keys!ShiftHeld
                    /\ did'.what = "clear" /\ Keys!Own("ctrl") => "ctrl" \in held
                    /\ did'.what \in {"switch", "nul"} => (did'.what = "switch") = ("alt" \in held)
  OBVIOUS
<1>0. ASSUME NEW m \in Keys!Local, Keys!Own(m) PROVE flag[m][current_terminal] <=> m \in held
  BY <1>0 DEF KeysInv, FlagInv, Keys!Own
<1>1. ASSUME Keys!Own("shift_l"), Keys!Own("shift_r") PROVE Keys!shift = Keys!ShiftHeld
  <2>1. "shift_l" \in Keys!Local /\ "shift_r" \in Keys!Local
    BY DEF Keys!Local
  <2>2. flag["shift_l"][current_terminal] <=> "shift_l" \in held
    BY <1>0, <1>1, <2>1
  <2>3. flag["shift_r"][current_terminal] <=> "shift_r" \in held
    BY <1>0, <1>1, <2>1
  <2>4. Keys!ShiftHeld <=> "shift_l" \in held \/ "shift_r" \in held
    BY DEF Keys!ShiftHeld
  <2>5. Keys!shift <=> Keys!ShiftHeld
    BY <2>2, <2>3, <2>4 DEF Keys!shift
  <2>6. Keys!shift \in BOOLEAN /\ Keys!ShiftHeld \in BOOLEAN
    BY Zenon DEF Keys!shift, Keys!ShiftHeld
  <2> QED BY <2>5, <2>6, Zenon
<1>2. CASE \E isL \in BOOLEAN : Keys!Letter(isL)
  <2>1. \/ did' = [what |-> "clear", upper |-> FALSE] /\ flag["ctrl"][current_terminal]
        \/ did' = [what |-> "char", upper |-> Keys!shift # caps_lock_flag]
    BY <1>2, Zenon DEF Keys!Letter
  <2>2. CASE did' = [what |-> "clear", upper |-> FALSE] /\ flag["ctrl"][current_terminal]
    <3>1. did'.what = "clear" /\ "ctrl" \in Keys!Local
      BY <2>2 DEF Keys!Local
    <3> QED BY <1>0, <2>2, <3>1
  <2>3. CASE did' = [what |-> "char", upper |-> Keys!shift # caps_lock_flag]
    <3>1. did'.what = "char" /\ did'.upper = (Keys!shift # caps_lock_flag)
      BY <2>3
    <3> QED BY <1>1, <3>1
  <2> QED BY <2>1, <2>2, <2>3
<1>3. CASE Keys!Sign
  <2>1. did'.what = "sign" /\ did'.upper = Keys!shift
    BY <1>3 DEF Keys!Sign
  <2> QED BY <1>1, <2>1
<1>4. ASSUME NEW n \in Keys!Terms, Keys!FKey(n)
      PROVE  did'.what \in {"switch", "nul"} /\ (did'.what = "switch") = ("alt" \in held)
  <2>1. \/ alt_flag /\ did'.what = "switch"
        \/ ~ alt_flag /\ did'.what = "nul"
    BY <1>4 DEF Keys!FKey
  <2> QED BY <2>1 DEF KeysInv, FlagInv
<1>5. ASSUME NEW m \in Keys!Modifiers, Keys!Press(m) \/ Keys!Release(m) PROVE FALSE
  BY <1>5 DEF Keys!Press, Keys!Release
<1>6. CASE Keys!CapsLock
  BY <1>6 DEF Keys!CapsLock
<1> QED BY <1>2, <1>3, <1>4, <1>5, <1>6 DEF Keys!Next

(* A key does what the modifiers under the user's fingers say, in any       *)
(* number of terminals and for any keys pressed and held across Alt-Fn, in  *)
(* every terminal its modifiers were not carried into or out of.            *)
THEOREM FollowFingers == Keys!Spec => Keys!KeysFollowFingers
<1>1. KeysInv /\ [Keys!Next]_(Keys!vars) => KeysInv'
  BY KeysStep
<1>2. KeysInv /\ [Keys!Next]_(Keys!vars) =>
        [did' # Keys!Nothing =>
           /\ did'.what = "char" /\ Keys!Own("shift_l") /\ Keys!Own("shift_r")
                => did'.upper = (Keys!ShiftHeld # caps_lock_flag)
           /\ did'.what = "sign" /\ Keys!Own("shift_l") /\ Keys!Own("shift_r") => did'.upper = Keys!ShiftHeld
           /\ did'.what = "clear" /\ Keys!Own("ctrl") => "ctrl" \in held
           /\ did'.what \in {"switch", "nul"} => (did'.what = "switch") = ("alt" \in held)]_(Keys!vars)
  BY KeyDoes
<1> QED BY <1>1, <1>2, KeysInit, PTL DEF Keys!Spec, Keys!KeysFollowFingers
=============================================================================
