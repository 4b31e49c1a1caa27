-------------------------- MODULE LineEditorProofs ---------------------------
(***************************************************************************)
(* The line editor for buffers, histories and alphabets of any size and any *)
(* keys the user presses: the buffer holds the line the user put together,  *)
(* term_read returns it, and the arrow keys walk through the history in     *)
(* order.                                                                   *)
(***************************************************************************)
EXTENDS LineEditor, SequenceTheorems, WellFoundedInduction, TLAPS

(* A text that fits the buffer and that a reader takes as a whole. *)
Line(w) == Len(w) <= BUF_SIZE /\ \A i \in 1 .. Len(w) : w[i] \notin {NL, Nul}

(* Types; every slot of the history holds a line. *)
BufferInv == buffer \in [Cells -> Content] /\ cur_pos \in Nat /\ cur_size \in Int /\ col \in Nat
HistoryInv == /\ history \in [Slots -> Seq(Content)]
              /\ hist_index \in Slots /\ hist_bottom \in Slots
              /\ \A s \in Slots : Line(history[s])
WantInv == /\ want \in Seq(Content) /\ at \in 0 .. Len(want)
           /\ clean \in BOOLEAN /\ cleanRead \in BOOLEAN
           /\ reader \in {"running", "waiting", "ready"}

(* The buffer b with its size and position holds the line w with the cursor *)
(* at a, and a cell is left for the newline.                                *)
HoldsLine(b, size, pos, w, a) ==
  /\ size = Len(w) /\ pos = a /\ Len(w) < BUF_SIZE
  /\ \A i \in 1 .. Len(w) : b[i - 1] = w[i] /\ w[i] \notin {NL, Nul}

(* What term_read finds in the buffer b. *)
EndsOf(b) == {i \in Cells : b[i] \in {NL, Nul}}
LenOf(b) == IF EndsOf(b) = {} THEN BUF_SIZE ELSE CHOOSE i \in EndsOf(b) : \A j \in EndsOf(b) : i <= j
LineOf(b) == [i \in 1 .. LenOf(b) |-> b[i - 1]]

(* A line put together as described is in the buffer; while a finished line *)
(* waits there, none has been begun.                                        *)
CleanInv == clean => /\ HoldsLine(buffer, cur_size, cur_pos, want, at)
                     /\ reader = "ready" => want = <<>>

(* A finished line not spoiled is what term_read will copy. *)
ReadInv == reader = "ready" /\ cleanRead => clean /\ LineOf(buffer) = entered

EditInv == BufferInv /\ HistoryInv /\ WantInv /\ CleanInv /\ ReadInv
-----------------------------------------------------------------------------
(* Numbers and the history's ring. *)

(* The numbers ordered by <, as a set of pairs. *)
Below == {ss \in Nat \X Nat : ss[1] < ss[2]}

(* A set of natural numbers has a least element. *)
LEMMA LeastElement ==
  ASSUME NEW S \in SUBSET Nat, S # {}
  PROVE  \E m \in S : \A k \in S : m <= k
<1>1. IsWellFoundedOn(Below, Nat)
  BY NatLessThanWellFounded DEF OpToRel, Below
<1>2. PICK m \in S : \A k \in S : ~ (<<k, m>> \in Below)
  BY <1>1, WFMin
<1>3. \A k \in S : ~ (k < m)
  BY <1>2 DEF Below
<1>4. QED
  BY <1>2, <1>3

(* The constants. *)
LEMMA ConstantFacts ==
  /\ BUF_SIZE \in Nat /\ BUF_SIZE > 1 /\ HIST_SIZE \in Nat \ {0} /\ HIST_SIZE % 2 = 0
  /\ 0 \in Cells /\ 0 \in Slots /\ Cells \subseteq Nat /\ Slots \subseteq Nat
  /\ NL \in Content /\ Nul \in Content /\ Space \in Content /\ Chars \subseteq Content
  /\ NL # Nul /\ Space \notin {NL, Nul} /\ Chars \cap {NL, Nul} = {}
  BY EditorConstants DEF Cells, Slots, Content, NL, Nul, Space

(* A remainder is a slot. *)
LEMMA SlotAtInSlots ==
  ASSUME NEW x \in Int PROVE SlotAt(x) \in Slots
  BY ConstantFacts DEF SlotAt, Slots

(* The arrow keys always end on a slot. *)
LEMMA FoundSlotInSlots ==
  ASSUME hist_index \in Slots, NEW dir \in {-1, 1} PROVE FoundSlot(dir) \in Slots
<1>0. hist_index \in Int /\ HIST_SIZE \in Int /\ dir \in Int
  BY ConstantFacts DEF Slots
<1>1. ASSUME NEW k \in Int PROVE SlotAt(hist_index + dir * k) \in Slots
  <2>1. hist_index + dir * k \in Int
    BY <1>0
  <2>2. QED
    BY <2>1, SlotAtInSlots
<1>2. CASE Steps(dir) = {}
  <2>1. FoundSlot(dir) = SlotAt(hist_index + dir * (HIST_SIZE + 1)) /\ HIST_SIZE + 1 \in Int
    BY <1>0, <1>2 DEF FoundSlot
  <2>2. QED
    BY <1>1, <2>1
<1>3. CASE Steps(dir) # {}
  <2>1. Steps(dir) \in SUBSET Nat
    BY <1>0 DEF Steps
  <2>2. \E k \in Steps(dir) : \A j \in Steps(dir) : k <= j
    BY <1>3, <2>1, LeastElement
  <2> DEFINE m == CHOOSE k \in Steps(dir) : \A j \in Steps(dir) : k <= j
  <2>3. m \in Steps(dir)
    BY <2>2
  <2>4. FoundSlot(dir) = SlotAt(hist_index + dir * m)
    BY <1>3 DEF FoundSlot
  <2> HIDE DEF m
  <2>5. QED
    BY <1>1, <2>1, <2>3, <2>4
<1>4. QED
  BY <1>2, <1>3
-----------------------------------------------------------------------------
(* Sequences. *)

(* A character inserted after the first a of w. *)
Inserted(w, a, c) == SubSeq(w, 1, a) \o <<c>> \o SubSeq(w, a + 1, Len(w))

(* Its characters, one by one. *)
LEMMA InsertFacts ==
  ASSUME NEW S, NEW w \in Seq(S), NEW a \in 0 .. Len(w), NEW c \in S
  PROVE  /\ Inserted(w, a, c) \in Seq(S) /\ Len(Inserted(w, a, c)) = Len(w) + 1
         /\ \A i \in 1 .. Len(w) + 1 :
               Inserted(w, a, c)[i] = IF i <= a THEN w[i] ELSE IF i = a + 1 THEN c ELSE w[i - 1]
<1> DEFINE n == Len(w)
           x == SubSeq(w, 1, a)
           y == <<c>>
           z == SubSeq(w, a + 1, n)
<1>0. n \in Nat /\ a \in Nat /\ a <= n
  OBVIOUS
<1>1. x \in Seq(S) /\ Len(x) = a /\ \A i \in 1 .. a : x[i] = w[i]
  OBVIOUS
<1>2. y \in Seq(S) /\ Len(y) = 1 /\ y[1] = c
  OBVIOUS
<1>3. z \in Seq(S) /\ Len(z) = n - a /\ \A i \in 1 .. n - a : z[i] = w[a + i]
  OBVIOUS
<1> HIDE DEF n, x, y, z
<1>4. x \o y \in Seq(S) /\ Len(x \o y) = a + 1 /\ (x \o y)[a + 1] = c /\ \A i \in 1 .. a : (x \o y)[i] = w[i]
  <2>1. /\ x \o y \in Seq(S) /\ Len(x \o y) = Len(x) + Len(y)
        /\ \A i \in 1 .. Len(x) + Len(y) : (x \o y)[i] = IF i <= Len(x) THEN x[i] ELSE y[i - Len(x)]
    BY <1>1, <1>2, ConcatProperties
  <2>2. Len(x) + Len(y) = a + 1 /\ (a + 1) - a = 1 /\ ~ (a + 1 <= a)
    BY <1>0, <1>1, <1>2
  <2>3. \A i \in 1 .. a + 1 : (x \o y)[i] = IF i <= a THEN x[i] ELSE y[i - a]
    BY <1>1, <2>1, <2>2
  <2>4. a + 1 \in 1 .. a + 1 /\ \A i \in 1 .. a : i \in 1 .. a + 1 /\ i <= a
    BY <1>0
  <2>5. (x \o y)[a + 1] = c /\ \A i \in 1 .. a : (x \o y)[i] = w[i]
    BY <1>1, <1>2, <2>2, <2>3, <2>4
  <2>6. QED
    BY <2>1, <2>2, <2>5
<1> DEFINE u == x \o y
           v == u \o z
<1>5. u \in Seq(S) /\ Len(u) = a + 1 /\ u[a + 1] = c /\ \A i \in 1 .. a : u[i] = w[i]
  BY <1>4
<1> HIDE DEF u
<1>6. /\ v \in Seq(S) /\ Len(v) = n + 1
      /\ \A i \in 1 .. n + 1 : v[i] = IF i <= a + 1 THEN u[i] ELSE z[i - (a + 1)]
  <2>1. /\ v \in Seq(S) /\ Len(v) = Len(u) + Len(z)
        /\ \A i \in 1 .. Len(u) + Len(z) : v[i] = IF i <= Len(u) THEN u[i] ELSE z[i - Len(u)]
    BY <1>3, <1>5, ConcatProperties
  <2>2. Len(u) + Len(z) = n + 1 /\ Len(u) = a + 1
    BY <1>0, <1>3, <1>5
  <2>3. QED
    BY <2>1, <2>2
<1>7. ASSUME NEW i \in 1 .. n + 1 PROVE v[i] = IF i <= a + 1 THEN u[i] ELSE z[i - (a + 1)]
  BY <1>6
<1>8. ASSUME NEW i \in 1 .. n + 1, i > a + 1 PROVE z[i - (a + 1)] = w[i - 1]
  <2>1. i - (a + 1) \in 1 .. n - a /\ a + (i - (a + 1)) = i - 1
    BY <1>0, <1>8
  <2>2. QED
    BY <1>3, <2>1
<1> HIDE DEF v
<1>9. \A i \in 1 .. n + 1 : v[i] = IF i <= a THEN w[i] ELSE IF i = a + 1 THEN c ELSE w[i - 1]
  BY <1>0, <1>5, <1>7, <1>8
<1>10. QED
  BY <1>6, <1>9 DEF n, x, y, z, u, v, Inserted

(* The prefix of w of length n. *)
LEMMA PrefixFacts ==
  ASSUME NEW S, NEW w \in Seq(S), NEW n \in 0 .. Len(w)
  PROVE  LET v == SubSeq(w, 1, n) IN
         v \in Seq(S) /\ Len(v) = n /\ \A i \in 1 .. n : v[i] = w[i]
  OBVIOUS

(* What term_read finds in the buffer: a line, and all of it up to the      *)
(* first newline or NUL.                                                    *)
LEMMA ReadLineFacts ==
  ASSUME NEW b \in [Cells -> Content]
  PROVE  /\ LenOf(b) \in 0 .. BUF_SIZE
         /\ LineOf(b) \in Seq(Content) /\ Len(LineOf(b)) = LenOf(b) /\ Line(LineOf(b))
         /\ \A i \in 1 .. LenOf(b) : LineOf(b)[i] = b[i - 1]
<1>1. /\ LenOf(b) \in 0 .. BUF_SIZE
      /\ \A i \in Cells : i < LenOf(b) => b[i] \notin {NL, Nul}
  <2>1. CASE EndsOf(b) = {}
    BY <2>1, ConstantFacts DEF LenOf, EndsOf
  <2>2. CASE EndsOf(b) # {}
    <3>1. EndsOf(b) \in SUBSET Nat
      BY ConstantFacts DEF EndsOf
    <3>2. \E i \in EndsOf(b) : \A j \in EndsOf(b) : i <= j
      BY <2>2, <3>1, LeastElement
    <3>3. LenOf(b) \in EndsOf(b) /\ \A j \in EndsOf(b) : LenOf(b) <= j
      BY <2>2, <3>2 DEF LenOf
    <3>4. LenOf(b) \in Cells /\ LenOf(b) \in Nat
      BY <3>1, <3>3 DEF EndsOf
    <3>5. LenOf(b) \in 0 .. BUF_SIZE
      BY <3>4, ConstantFacts DEF Cells
    <3>6. ASSUME NEW i \in Cells, i < LenOf(b) PROVE b[i] \notin {NL, Nul}
      <4>1. i \notin EndsOf(b)
        BY <3>3, <3>4, <3>6, ConstantFacts
      <4>2. QED
        BY <4>1 DEF EndsOf
    <3>7. QED
      BY <3>5, <3>6
  <2>3. QED
    BY <2>1, <2>2
<1>2. \A i \in 1 .. LenOf(b) : i - 1 \in Cells /\ i - 1 < LenOf(b)
  BY <1>1, ConstantFacts DEF Cells
<1> DEFINE r == LineOf(b)
<1>3. r \in [1 .. LenOf(b) -> Content] /\ \A i \in 1 .. LenOf(b) : r[i] = b[i - 1]
  BY <1>2 DEF LineOf
<1>4. LenOf(b) \in Nat
  BY <1>1, ConstantFacts
<1> HIDE DEF r
<1>5. r \in Seq(Content)
  BY <1>3, <1>4, SeqDef
<1>6. DOMAIN r = 1 .. LenOf(b) /\ DOMAIN r = 1 .. Len(r) /\ Len(r) \in Nat
  BY <1>3, <1>5, LenProperties
<1>7. Len(r) = LenOf(b)
  BY <1>4, <1>6, SMT
<1>8. Line(r)
  BY <1>1, <1>2, <1>3, <1>7, ConstantFacts DEF Line
<1>9. QED
  BY <1>1, <1>3, <1>5, <1>7, <1>8 DEF r

(* A line in the buffer with a newline behind it is what term_read finds. *)
LEMMA ReadLineExact ==
  ASSUME NEW b \in [Cells -> Content], NEW w \in Seq(Content), Len(w) < BUF_SIZE,
         b[Len(w)] = NL,
         \A i \in 1 .. Len(w) : b[i - 1] = w[i] /\ w[i] \notin {NL, Nul}
  PROVE  LineOf(b) = w
<1>0. Len(w) \in Nat /\ Len(w) \in Cells
  BY ConstantFacts, LenProperties DEF Cells
<1>1. \A j \in EndsOf(b) : Len(w) <= j
  <2> SUFFICES ASSUME NEW j \in Cells, j < Len(w) PROVE j \notin EndsOf(b)
    BY <1>0, ConstantFacts DEF EndsOf, Cells
  <2>1. j + 1 \in 1 .. Len(w) /\ (j + 1) - 1 = j
    BY <1>0 DEF Cells
  <2>2. b[j] \notin {NL, Nul}
    BY <2>1
  <2>3. QED
    BY <2>2 DEF EndsOf
<1>2. Len(w) \in EndsOf(b)
  BY <1>0 DEF EndsOf
<1>3. LenOf(b) = Len(w)
  <2>1. LenOf(b) = CHOOSE i \in EndsOf(b) : \A j \in EndsOf(b) : i <= j
    BY <1>2 DEF LenOf
  <2>2. LenOf(b) \in EndsOf(b) /\ \A j \in EndsOf(b) : LenOf(b) <= j
    BY <1>1, <1>2, <2>1
  <2>3. LenOf(b) \in Int
    BY <2>2, ConstantFacts DEF EndsOf, Cells
  <2>4. LenOf(b) <= Len(w) /\ Len(w) <= LenOf(b)
    BY <1>1, <1>2, <2>2
  <2>5. QED
    BY <1>0, <2>3, <2>4
<1>4. LineOf(b) \in Seq(Content) /\ Len(LineOf(b)) = Len(w) /\ \A i \in 1 .. Len(w) : LineOf(b)[i] = w[i]
  BY <1>3, ReadLineFacts
<1>5. QED
  BY <1>4, SeqEqual
-----------------------------------------------------------------------------
(* Every action keeps the editor's invariant. *)

(* A line fits the buffer, and nothing of it is changed with the history.   *)
LEMMA HistoryUnchanged ==
  ASSUME HistoryInv, UNCHANGED hist
  PROVE  HistoryInv'
  BY DEF HistoryInv, hist, Line

(* An edit while a finished line waits spoils it. *)
LEMMA EditsSpoil ==
  ASSUME NEW c, c \in BOOLEAN, Edits(c), WantInv, UNCHANGED reader
  PROVE  /\ ReadInv' /\ clean' \in BOOLEAN /\ cleanRead' \in BOOLEAN
         /\ clean' => c /\ reader # "ready"
<1>1. clean' = (c /\ reader # "ready") /\ cleanRead' = (cleanRead /\ reader # "ready")
  BY DEF Edits
<1>2. ReadInv'
  BY <1>1 DEF ReadInv, WantInv
<1>3. QED
  BY <1>1, <1>2, Zenon DEF WantInv

(* term_putc with a printable character or a function key's NUL. *)
LEMMA PutStep ==
  ASSUME EditInv, NEW c \in Chars \cup {Nul}, Put(c)
  PROVE  EditInv'
<1> DEFINE n == Len(want)
<1>0. /\ c \in Content /\ n \in Nat /\ at \in 0 .. n
      /\ BufferInv /\ HistoryInv /\ WantInv /\ CleanInv /\ ReadInv
  BY ConstantFacts DEF EditInv, WantInv
<1>1. buffer' \in [Cells -> Content]
  <2>1. ASSUME NEW i \in Cells, cur_pos < i PROVE i - 1 \in Cells
    BY <1>0, <2>1, ConstantFacts DEF BufferInv, Cells
  <2>2. QED
    BY <1>0, <2>1 DEF Put, InsertedCells, BufferInv
<1>2. BufferInv'
  BY <1>0, <1>1 DEF BufferInv, Put
<1>3. HistoryInv'
  BY <1>0, HistoryUnchanged DEF Put
<1>4. UNCHANGED reader /\ Edits(clean /\ c # Nul) /\ (clean /\ c # Nul) \in BOOLEAN
  BY DEF Put
<1>5. /\ ReadInv' /\ clean' \in BOOLEAN /\ cleanRead' \in BOOLEAN
      /\ clean' => clean /\ c # Nul /\ reader # "ready"
  BY <1>0, <1>4, EditsSpoil
<1>6. /\ want' \in Seq(Content) /\ Len(want') = n + 1
      /\ \A i \in 1 .. n + 1 :
            want'[i] = IF i <= at THEN want[i] ELSE IF i = at + 1 THEN c ELSE want[i - 1]
  <2>1. want \in Seq(Content) /\ at \in 0 .. Len(want)
    BY <1>0 DEF WantInv
  <2>2. want' = Inserted(want, at, c)
    BY DEF Put, Inserted
  <2>3. c \in Content
    BY <1>0
  <2>4. /\ Inserted(want, at, c) \in Seq(Content) /\ Len(Inserted(want, at, c)) = Len(want) + 1
        /\ \A i \in 1 .. Len(want) + 1 :
              Inserted(want, at, c)[i] = IF i <= at THEN want[i] ELSE IF i = at + 1 THEN c ELSE want[i - 1]
    BY <2>1, <2>3, InsertFacts
  <2>5. QED
    BY <2>2, <2>4, Zenon
<1>7. WantInv'
  <2>0. at' = at + 1
    BY DEF Put
  <2>1. at' \in 0 .. Len(want')
    BY <1>0, <1>6, <2>0
  <2>2. QED
    BY <1>0, <1>4, <1>5, <1>6, <2>1 DEF WantInv
<1>8. ASSUME clean'
      PROVE  HoldsLine(buffer, cur_size, cur_pos, want, at)' /\ reader' # "ready"
  <2>1. clean /\ c # Nul /\ reader # "ready" /\ reader' = reader
    BY <1>4, <1>5, <1>8
  <2>2. /\ cur_size = n /\ cur_pos = at /\ n < BUF_SIZE
        /\ \A i \in 1 .. n : buffer[i - 1] = want[i] /\ want[i] \notin {NL, Nul}
    BY <1>0, <2>1 DEF CleanInv, HoldsLine
  <2>3. cur_size' = n + 1 /\ cur_pos' = at' /\ n + 1 < BUF_SIZE
    BY <1>0, <2>2, ConstantFacts DEF Put, Room
  <2>4. c \notin {NL, Nul}
    BY <2>1, ConstantFacts
  <2>5. ASSUME NEW i \in 1 .. n + 1
        PROVE  buffer'[i - 1] = want'[i] /\ want'[i] \notin {NL, Nul}
    <3>1. i - 1 \in Cells /\ i \in Nat
      BY <1>0, <2>3, ConstantFacts DEF Cells
    <3>2. buffer'[i - 1] = IF i - 1 = at THEN c
                           ELSE IF at < i - 1 /\ i - 1 <= n THEN buffer[(i - 1) - 1] ELSE buffer[i - 1]
      BY <2>2, <3>1 DEF Put, InsertedCells
    <3>3. CASE i <= at
      <4>1. i \in 1 .. n /\ i - 1 # at /\ ~ (at < i - 1)
        BY <1>0, <3>1, <3>3
      <4>2. buffer'[i - 1] = buffer[i - 1] /\ want'[i] = want[i]
        BY <1>6, <3>2, <3>3, <4>1
      <4>3. QED
        BY <2>2, <4>1, <4>2
    <3>4. CASE i = at + 1
      <4>1. i - 1 = at /\ ~ (i <= at)
        BY <1>0, <3>4
      <4>2. buffer'[i - 1] = c /\ want'[i] = c
        BY <1>6, <3>2, <3>4, <4>1
      <4>3. QED
        BY <2>4, <4>2
    <3>5. CASE i > at + 1
      <4>1. i - 1 \in 1 .. n /\ i - 1 # at /\ at < i - 1 /\ i - 1 <= n /\ ~ (i <= at) /\ i # at + 1
        BY <1>0, <3>1, <3>5
      <4>2. buffer'[i - 1] = buffer[(i - 1) - 1] /\ want'[i] = want[i - 1]
        BY <1>6, <3>2, <4>1
      <4>3. QED
        BY <2>2, <4>1, <4>2
    <3>6. QED
      BY <1>0, <3>1, <3>3, <3>4, <3>5
  <2>6. QED
    BY <1>6, <2>1, <2>3, <2>5 DEF HoldsLine
<1>9. CleanInv'
  BY <1>8 DEF CleanInv
<1>10. QED
  BY <1>2, <1>3, <1>5, <1>7, <1>9 DEF EditInv

(* Enter: the finished line has its newline, and the next one is empty. *)
LEMMA EnterStep ==
  ASSUME EditInv, Enter
  PROVE  EditInv'
<1>0. BufferInv /\ HistoryInv /\ WantInv /\ CleanInv /\ ReadInv
  BY DEF EditInv
<1>1. buffer' \in [Cells -> Content]
  BY <1>0, ConstantFacts DEF Enter, BufferInv
<1>2. BufferInv'
  BY <1>0, <1>1, ConstantFacts DEF BufferInv, Enter, Far
<1>3. HistoryInv'
  BY <1>0, HistoryUnchanged DEF Enter
<1>4. want' = <<>> /\ at' = 0 /\ clean' = TRUE /\ cur_pos' = 0 /\ cur_size' = 0
  BY DEF Enter
<1>5. reader' \in {"running", "waiting", "ready"}
  BY <1>0 DEF Enter, WantInv
<1>6. cleanRead' \in BOOLEAN
  BY Zenon DEF Enter
<1>7. WantInv'
  <2>1. <<>> \in Seq(Content) /\ Len(<<>>) = 0 /\ 0 \in 0 .. 0
    OBVIOUS
  <2>2. QED
    BY <1>4, <1>5, <1>6, <2>1 DEF WantInv
<1>8. CleanInv'
  BY <1>4, ConstantFacts DEF CleanInv, HoldsLine
<1>9. ASSUME clean PROVE LineOf(buffer') = want
  <2>1. /\ cur_size = Len(want) /\ Len(want) < BUF_SIZE /\ want \in Seq(Content)
        /\ \A i \in 1 .. Len(want) : buffer[i - 1] = want[i] /\ want[i] \notin {NL, Nul}
    BY <1>0, <1>9 DEF CleanInv, HoldsLine, WantInv
  <2>2. Len(want) \in Cells /\ \A i \in 1 .. Len(want) : i - 1 \in Cells /\ i - 1 # Len(want)
    BY <2>1, LenProperties, ConstantFacts DEF Cells
  <2>3. buffer' = [buffer EXCEPT ![Len(want)] = NL]
    BY <2>1, <2>2 DEF Enter
  <2>4. /\ buffer'[Len(want)] = NL
        /\ \A i \in 1 .. Len(want) : buffer'[i - 1] = want[i] /\ want[i] \notin {NL, Nul}
    BY <1>0, <2>1, <2>2, <2>3 DEF BufferInv
  <2>5. QED
    BY <1>1, <2>1, <2>4, ReadLineExact
<1>10. ASSUME reader' = "ready", cleanRead' PROVE LineOf(buffer') = entered'
  <2>1. CASE reader = "waiting"
    <3>1. clean /\ entered' = want
      BY <1>10, <2>1 DEF Enter
    <3>2. QED
      BY <3>1, <1>9
  <2>2. CASE reader = "ready"
    BY <1>10, <2>2 DEF Enter
  <2>3. QED
    BY <1>10, <2>1, <2>2 DEF Enter
<1>11. ReadInv'
  BY <1>4, <1>10 DEF ReadInv
<1>12. QED
  BY <1>2, <1>3, <1>7, <1>8, <1>11 DEF EditInv

(* One character of w replaced. *)
LEMMA ReplaceFacts ==
  ASSUME NEW S, NEW w \in Seq(S), NEW k \in 1 .. Len(w), NEW c \in S, NEW v, v = [w EXCEPT ![k] = c]
  PROVE  /\ v \in Seq(S) /\ Len(v) = Len(w) /\ v[k] = c
         /\ \A i \in 1 .. Len(w) : i # k => v[i] = w[i]
  BY ExceptSeq

(* What Backspace does to the described line. *)
LEMMA WantBackspacedFacts ==
  ASSUME WantInv, WantBackspaced
  PROVE  /\ want' \in Seq(Content) /\ at' \in 0 .. Len(want')
         /\ at = Len(want) /\ at > 0 =>
               /\ Len(want') = at - 1 /\ at' = at - 1
               /\ \A i \in 1 .. at - 1 : want'[i] = want[i]
         /\ 0 < at /\ at < Len(want) =>
               /\ Len(want') = Len(want) /\ at' = at - 1 /\ want'[at] = Space
               /\ \A i \in 1 .. Len(want) : i # at => want'[i] = want[i]
         /\ at = 0 /\ want # <<>> =>
               /\ Len(want') = Len(want) /\ at' = at /\ want'[1] = Space
               /\ \A i \in 1 .. Len(want) : i # 1 => want'[i] = want[i]
<1>0. want \in Seq(Content) /\ at \in 0 .. Len(want) /\ Len(want) \in Nat /\ Space \in Content
  BY ConstantFacts, LenProperties DEF WantInv
<1>1. want # <<>> <=> Len(want) > 0
  BY <1>0, EmptySeq
<1>2. CASE at = Len(want) /\ at > 0 /\ want' = SubSeq(want, 1, at - 1) /\ at' = at - 1
  <2>1. at - 1 \in 0 .. Len(want) /\ at - 1 \in 0 .. at - 1
    BY <1>0, <1>2
  <2>2. want' \in Seq(Content) /\ Len(want') = at - 1 /\ \A i \in 1 .. at - 1 : want'[i] = want[i]
    BY <1>0, <1>2, <2>1, PrefixFacts
  <2>3. ~ (0 < at /\ at < Len(want)) /\ at # 0
    BY <1>0, <1>2
  <2>4. QED
    BY <1>2, <2>1, <2>2, <2>3
<1>3. CASE 0 < at /\ at < Len(want) /\ want' = [want EXCEPT ![at] = Space] /\ at' = at - 1
  <2>1. at \in 1 .. Len(want) /\ at - 1 \in 0 .. Len(want) /\ at # Len(want) /\ at # 0
    BY <1>0, <1>3
  <2>2. /\ want' \in Seq(Content) /\ Len(want') = Len(want) /\ want'[at] = Space
        /\ \A i \in 1 .. Len(want) : i # at => want'[i] = want[i]
    BY <1>0, <1>3, <2>1, ReplaceFacts
  <2>3. QED
    BY <1>3, <2>1, <2>2
<1>4. CASE at = 0 /\ want # <<>> /\ want' = [want EXCEPT ![1] = Space] /\ UNCHANGED at
  <2>1. 1 \in 1 .. Len(want) /\ 0 \in 0 .. Len(want) /\ ~ (0 < at)
    BY <1>0, <1>1, <1>4
  <2>2. /\ want' \in Seq(Content) /\ Len(want') = Len(want) /\ want'[1] = Space
        /\ \A i \in 1 .. Len(want) : i # 1 => want'[i] = want[i]
    BY <1>0, <1>4, <2>1, ReplaceFacts
  <2>3. QED
    BY <1>4, <2>1, <2>2
<1>5. CASE want = <<>> /\ UNCHANGED <<want, at>>
  BY <1>0, <1>1, <1>5
<1>6. QED
  BY <1>2, <1>3, <1>4, <1>5 DEF WantBackspaced

(* Backspace that is no slip does to the buffer what it does to the line. *)
LEMMA BackspaceStep ==
  ASSUME EditInv, Backspace
  PROVE  EditInv'
<1> DEFINE pos == IF cur_pos > 0 THEN cur_pos - 1 ELSE cur_pos
           bs == IF AtEnd THEN Nul ELSE Space
<1>0. /\ BufferInv /\ HistoryInv /\ WantInv /\ CleanInv /\ ReadInv /\ WantBackspaced
      /\ UNCHANGED reader /\ UNCHANGED hist /\ Edits(clean /\ ~ IsSlip) /\ (clean /\ ~ IsSlip) \in BOOLEAN
  BY DEF EditInv, Backspace
<1>1. /\ cur_size' = IF AtEnd THEN cur_size - 1 ELSE cur_size
      /\ cur_pos' = pos
      /\ buffer' = IF pos \in Cells THEN [buffer EXCEPT ![pos] = bs] ELSE buffer
      /\ col' = IF cur_pos > 0 /\ col > 0 THEN col - 1 ELSE col
  BY DEF Backspace, Backspaced
<1>2. pos \in Nat /\ bs \in Content /\ cur_pos \in Nat /\ cur_size \in Int /\ col \in Nat
  BY <1>0, ConstantFacts DEF BufferInv
<1>3. BufferInv'
  <2>1. buffer' \in [Cells -> Content]
    BY <1>0, <1>1, <1>2 DEF BufferInv
  <2>2. cur_pos' \in Nat /\ cur_size' \in Int /\ col' \in Nat
    BY <1>1, <1>2
  <2>3. QED
    BY <2>1, <2>2 DEF BufferInv
<1>4. HistoryInv'
  BY <1>0, HistoryUnchanged
<1>5. /\ ReadInv' /\ clean' \in BOOLEAN /\ cleanRead' \in BOOLEAN
      /\ clean' => clean /\ ~ IsSlip /\ reader # "ready"
  BY <1>0, EditsSpoil
<1>6. WantInv'
  BY <1>0, <1>5, WantBackspacedFacts DEF WantInv
<1>7. ASSUME clean'
      PROVE  HoldsLine(buffer, cur_size, cur_pos, want, at)' /\ reader' # "ready"
  <2>1. clean /\ ~ IsSlip /\ reader' # "ready"
    BY <1>0, <1>5, <1>7
  <2>2. /\ cur_size = Len(want) /\ cur_pos = at /\ Len(want) < BUF_SIZE
        /\ \A i \in 1 .. Len(want) : buffer[i - 1] = want[i] /\ want[i] \notin {NL, Nul}
        /\ Len(want) # 0 /\ at # Len(want) - 1
        /\ want \in Seq(Content) /\ at \in 0 .. Len(want) /\ Len(want) \in Nat
    BY <1>0, <2>1, LenProperties DEF CleanInv, HoldsLine, IsSlip, WantInv
  <2>3. want # <<>> /\ Space \notin {NL, Nul}
    BY <2>2, ConstantFacts
  <2>4. ASSUME NEW i \in 1 .. Len(want) PROVE i - 1 \in Cells
    BY <2>2, ConstantFacts DEF Cells
  <2>5. pos \in Cells /\ buffer' = [buffer EXCEPT ![pos] = bs]
    <3>1. pos \in Cells
      BY <2>2, ConstantFacts DEF Cells
    <3>2. QED
      BY <1>1, <3>1
  <2>6. /\ buffer'[pos] = bs
        /\ \A j \in Cells : j # pos => buffer'[j] = buffer[j]
    BY <1>0, <2>5 DEF BufferInv
  <2>7. CASE at = Len(want)
    <3>1. at > 0 /\ AtEnd /\ pos = at - 1
      BY <2>2, <2>7 DEF AtEnd
    <3>2. Len(want') = at - 1 /\ at' = at - 1 /\ \A i \in 1 .. at - 1 : want'[i] = want[i]
      BY <1>0, <2>7, <3>1, WantBackspacedFacts
    <3>3. cur_size' = Len(want') /\ cur_pos' = at' /\ Len(want') < BUF_SIZE
      BY <1>1, <2>2, <2>7, <3>1, <3>2, ConstantFacts
    <3>4. ASSUME NEW i \in 1 .. Len(want') PROVE buffer'[i - 1] = want'[i] /\ want'[i] \notin {NL, Nul}
      <4>1. i \in 1 .. Len(want) /\ i \in 1 .. at - 1 /\ i - 1 # pos
        BY <2>2, <2>7, <3>1, <3>2
      <4>2. buffer'[i - 1] = buffer[i - 1] /\ want'[i] = want[i]
        BY <2>4, <2>6, <3>2, <4>1
      <4>3. QED
        BY <2>2, <4>1, <4>2
    <3>5. QED
      BY <2>1, <3>3, <3>4 DEF HoldsLine
  <2>8. CASE at < Len(want) /\ 0 < at
    <3>1. ~ AtEnd /\ pos = at - 1
      BY <2>2, <2>8 DEF AtEnd
    <3>2. /\ Len(want') = Len(want) /\ at' = at - 1 /\ want'[at] = Space
          /\ \A i \in 1 .. Len(want) : i # at => want'[i] = want[i]
      BY <1>0, <2>8, WantBackspacedFacts
    <3>3. cur_size' = Len(want') /\ cur_pos' = at' /\ Len(want') < BUF_SIZE
      BY <1>1, <2>2, <3>1, <3>2
    <3>4. ASSUME NEW i \in 1 .. Len(want') PROVE buffer'[i - 1] = want'[i] /\ want'[i] \notin {NL, Nul}
      <4>0. i \in 1 .. Len(want) /\ i - 1 \in Cells
        BY <2>4, <3>2
      <4>1. CASE i = at
        BY <2>3, <2>6, <3>1, <3>2, <4>1
      <4>2. CASE i # at
        <5>1. i - 1 # pos
          BY <2>2, <3>1, <4>0, <4>2
        <5>2. buffer'[i - 1] = buffer[i - 1] /\ want'[i] = want[i]
          BY <2>6, <3>2, <4>0, <4>2, <5>1
        <5>3. QED
          BY <2>2, <4>0, <5>2
      <4>3. QED
        BY <4>1, <4>2
    <3>5. QED
      BY <2>1, <3>3, <3>4 DEF HoldsLine
  <2>9. CASE at = 0
    <3>1. ~ AtEnd /\ pos = 0
      BY <2>2, <2>9 DEF AtEnd
    <3>2. /\ Len(want') = Len(want) /\ at' = at /\ want'[1] = Space
          /\ \A i \in 1 .. Len(want) : i # 1 => want'[i] = want[i]
      BY <1>0, <2>3, <2>9, WantBackspacedFacts
    <3>3. cur_size' = Len(want') /\ cur_pos' = at' /\ Len(want') < BUF_SIZE
      BY <1>1, <2>2, <2>9, <3>1, <3>2
    <3>4. ASSUME NEW i \in 1 .. Len(want') PROVE buffer'[i - 1] = want'[i] /\ want'[i] \notin {NL, Nul}
      <4>0. i \in 1 .. Len(want) /\ i - 1 \in Cells
        BY <2>4, <3>2
      <4>1. CASE i = 1
        BY <2>3, <2>6, <3>1, <3>2, <4>1
      <4>2. CASE i # 1
        <5>1. i - 1 # pos
          BY <2>2, <3>1, <4>0, <4>2
        <5>2. buffer'[i - 1] = buffer[i - 1] /\ want'[i] = want[i]
          BY <2>6, <3>2, <4>0, <4>2, <5>1
        <5>3. QED
          BY <2>2, <4>0, <5>2
      <4>3. QED
        BY <4>1, <4>2
    <3>5. QED
      BY <2>1, <3>3, <3>4 DEF HoldsLine
  <2>10. QED
    BY <2>2, <2>7, <2>8, <2>9
<1>8. CleanInv'
  BY <1>7 DEF CleanInv
<1>9. QED
  BY <1>3, <1>4, <1>5, <1>6, <1>8 DEF EditInv

(* The cursor keys move both cursors or neither. *)
LEMMA MoveStep ==
  ASSUME EditInv, term_move_left \/ term_move_right
  PROVE  EditInv'
<1>0. /\ BufferInv /\ HistoryInv /\ WantInv /\ CleanInv /\ ReadInv
      /\ UNCHANGED <<buffer, cur_size, reader, want, entered, clean, cleanRead>> /\ UNCHANGED hist
  BY DEF EditInv, term_move_left, term_move_right
<1>1. cur_pos \in Nat /\ col \in Nat /\ cur_size \in Int /\ want \in Seq(Content) /\ Len(want) \in Nat /\ at \in 0 .. Len(want)
  BY <1>0, LenProperties DEF BufferInv, WantInv
<1>2. cur_pos' \in Nat /\ col' \in Nat /\ at' \in 0 .. Len(want)
  BY <1>1 DEF term_move_left, term_move_right
<1>3. cur_size = Len(want) /\ cur_pos = at => cur_pos' = at'
  BY <1>1 DEF term_move_left, term_move_right
<1>4. BufferInv'
  BY <1>0, <1>2 DEF BufferInv
<1>5. HistoryInv'
  BY <1>0, HistoryUnchanged
<1>6. WantInv'
  BY <1>0, <1>2 DEF WantInv
<1>7. CleanInv'
  BY <1>0, <1>3 DEF CleanInv, HoldsLine
<1>8. ReadInv'
  BY <1>0 DEF ReadInv
<1>9. QED
  BY <1>4, <1>5, <1>6, <1>7, <1>8 DEF EditInv

(* Ctrl-L begins an empty line. *)
LEMMA CtrlLStep ==
  ASSUME EditInv, CtrlL
  PROVE  EditInv'
<1>0. /\ BufferInv /\ HistoryInv /\ WantInv /\ CleanInv /\ ReadInv
      /\ UNCHANGED reader /\ UNCHANGED hist /\ Edits(TRUE)
      /\ want' = <<>> /\ at' = 0 /\ cur_pos' = 0 /\ cur_size' = 0 /\ col' = 0
      /\ buffer' = [i \in Cells |-> Nul]
  BY DEF EditInv, CtrlL
<1>1. BufferInv'
  BY <1>0, ConstantFacts DEF BufferInv
<1>2. HistoryInv'
  BY <1>0, HistoryUnchanged
<1>3. ReadInv' /\ clean' \in BOOLEAN /\ cleanRead' \in BOOLEAN
  BY <1>0, EditsSpoil
<1>4. WantInv'
  <2>1. <<>> \in Seq(Content) /\ Len(<<>>) = 0 /\ 0 \in 0 .. 0
    OBVIOUS
  <2>2. QED
    BY <1>0, <1>3, <2>1 DEF WantInv
<1>5. CleanInv'
  BY <1>0, ConstantFacts DEF CleanInv, HoldsLine
<1>6. QED
  BY <1>1, <1>2, <1>3, <1>4, <1>5 DEF EditInv

(* The program calls term_read. *)
LEMMA ReadStartStep ==
  ASSUME EditInv, term_read_start
  PROVE  EditInv'
<1>0. /\ BufferInv /\ HistoryInv /\ WantInv /\ CleanInv /\ ReadInv
      /\ reader' = "waiting" /\ col' = 0 /\ UNCHANGED hist
      /\ UNCHANGED <<buffer, cur_pos, cur_size, want, at, entered, clean, cleanRead>>
  BY DEF EditInv, term_read_start, ghosts
<1>1. BufferInv' /\ WantInv' /\ ReadInv'
  BY <1>0 DEF BufferInv, WantInv, ReadInv
<1>2. HistoryInv'
  BY <1>0, HistoryUnchanged
<1>3. CleanInv'
  BY <1>0 DEF CleanInv, HoldsLine
<1>4. QED
  BY <1>1, <1>2, <1>3 DEF EditInv

(* term_read returns and the shell executes the line: the history has it,   *)
(* and a line that waited in the buffer is gone from it.                    *)
LEMMA ReadFinishStep ==
  ASSUME EditInv, term_read_finish
  PROVE  EditInv'
<1>0. /\ BufferInv /\ HistoryInv /\ WantInv /\ CleanInv /\ ReadInv
      /\ reader = "ready" /\ reader' = "running" /\ cleanRead' = TRUE
      /\ buffer' = [i \in Cells |-> IF i <= LineLen THEN Nul ELSE buffer[i]]
      /\ UNCHANGED <<cur_pos, cur_size, col, want, at, clean>>
  BY DEF EditInv, term_read_finish
<1>1. BufferInv'
  BY <1>0, ConstantFacts DEF BufferInv
<1>2. ReadLine \in Seq(Content) /\ Line(ReadLine)
  <2>1. ReadLine = LineOf(buffer)
    BY DEF ReadLine, LineOf, LineLen, LenOf, Ends, EndsOf
  <2>2. buffer \in [Cells -> Content]
    BY <1>0 DEF BufferInv
  <2>3. QED
    BY <2>1, <2>2, ReadLineFacts
<1>3. ASSUME save_hist(ReadLine) PROVE HistoryInv'
  <2> DEFINE slot == (hist_bottom + 1) % HIST_SIZE
             next == (slot + 1) % HIST_SIZE
  <2>1. history' = [history EXCEPT ![slot] = ReadLine] /\ hist_bottom' = next /\ hist_index' = next
    BY <1>3 DEF save_hist
  <2>2. slot \in Slots
    <3>1. hist_bottom + 1 \in Int
      BY <1>0 DEF HistoryInv, Slots
    <3>2. QED
      BY <3>1, SlotAtInSlots DEF SlotAt
  <2>3. next \in Slots
    <3>1. slot + 1 \in Int
      BY <2>2 DEF Slots
    <3> HIDE DEF slot
    <3>2. QED
      BY <3>1, SlotAtInSlots DEF SlotAt
  <2> HIDE DEF slot, next
  <2>4. history' \in [Slots -> Seq(Content)]
    BY <1>0, <1>2, <2>1, <2>2 DEF HistoryInv
  <2>5. ASSUME NEW s \in Slots PROVE Line(history'[s])
    <3>1. history'[s] = IF s = slot THEN ReadLine ELSE history[s]
      BY <1>0, <2>1, <2>2 DEF HistoryInv
    <3>2. Line(history[s]) /\ Line(ReadLine)
      BY <1>0, <1>2 DEF HistoryInv
    <3>3. CASE s = slot
      BY <3>1, <3>2, <3>3
    <3>4. CASE s # slot
      BY <3>1, <3>2, <3>4
    <3>5. QED
      BY <3>3, <3>4
  <2>6. \A s \in Slots : Line(history[s])'
    BY <2>5 DEF Line
  <2>7. QED
    BY <2>1, <2>3, <2>4, <2>6 DEF HistoryInv
<1>4. ASSUME UNCHANGED hist PROVE HistoryInv'
  BY <1>0, <1>4, HistoryUnchanged
<1>5. HistoryInv'
  BY <1>3, <1>4 DEF term_read_finish
<1>6. WantInv'
  BY <1>0 DEF WantInv
<1>7. CleanInv'
  BY <1>0 DEF CleanInv, HoldsLine
<1>8. ReadInv'
  BY <1>0 DEF ReadInv
<1>9. QED
  BY <1>1, <1>5, <1>6, <1>7, <1>8 DEF EditInv

(* A recalled line is in the buffer from its first cell on. *)
LEMMA RestoreFacts ==
  ASSUME EditInv, NEW slot \in Slots, NEW pos \in Nat, NEW size \in Int, Restore(slot, pos, size)
  PROVE  /\ BufferInv' /\ want' = history[slot] /\ want' \in Seq(Content) /\ at' = Len(want')
         /\ at' \in 0 .. Len(want')
         /\ pos = 0 /\ size = 0 /\ Len(history[slot]) < BUF_SIZE =>
               HoldsLine(buffer, cur_size, cur_pos, want, at)'
<1> DEFINE text == history[slot]
<1>0. /\ BufferInv /\ text \in Seq(Content) /\ Len(text) \in Nat /\ Line(text)
      /\ buffer' = [i \in Cells |-> IF i < Len(text) THEN text[i + 1] ELSE buffer[i]]
      /\ cur_pos' = pos + Len(text) /\ cur_size' = size + Len(text) /\ col' = Len(text)
      /\ want' = text /\ at' = Len(text)
  BY LenProperties DEF EditInv, HistoryInv, Restore
<1> HIDE DEF text
<1>1. ASSUME NEW i \in Cells, i < Len(text) PROVE text[i + 1] \in Content
  <2>1. i + 1 \in 1 .. Len(text)
    BY <1>0, <1>1, ConstantFacts DEF Cells
  <2>2. QED
    BY <1>0, <2>1, ElementOfSeq
<1>2. BufferInv'
  <2>1. buffer' \in [Cells -> Content]
    BY <1>0, <1>1 DEF BufferInv
  <2>2. cur_pos' \in Nat /\ cur_size' \in Int /\ col' \in Nat
    BY <1>0
  <2>3. QED
    BY <2>1, <2>2 DEF BufferInv
<1>3. ASSUME pos = 0, size = 0, Len(text) < BUF_SIZE
      PROVE  HoldsLine(buffer, cur_size, cur_pos, want, at)'
  <2>1. cur_size' = Len(text) /\ cur_pos' = Len(text)
    BY <1>0, <1>3
  <2>2. ASSUME NEW i \in 1 .. Len(text) PROVE buffer'[i - 1] = text[i] /\ text[i] \notin {NL, Nul}
    <3>1. i - 1 \in Cells /\ i - 1 < Len(text) /\ (i - 1) + 1 = i
      BY <1>0, <1>3, ConstantFacts DEF Cells
    <3>2. buffer'[i - 1] = text[i]
      BY <1>0, <3>1
    <3>3. QED
      BY <1>0, <3>2 DEF Line
  <2>3. QED
    BY <1>0, <1>3, <2>1, <2>2 DEF HoldsLine
<1>4. Len(text) \in 0 .. Len(text)
  BY <1>0
<1>5. QED
  BY <1>0, <1>2, <1>3, <1>4 DEF text

(* The arrow keys up and down recall a line or do nothing. *)
LEMMA ArrowStep ==
  ASSUME EditInv, up_hist \/ down_hist
  PROVE  EditInv'
<1>0. /\ BufferInv /\ HistoryInv /\ WantInv /\ CleanInv /\ ReadInv
      /\ UNCHANGED <<history, hist_bottom, reader, entered>>
  BY DEF EditInv, up_hist, down_hist
<1>1. hist_index \in Slots /\ 1 \in {-1, 1} /\ -1 \in {-1, 1}
  BY <1>0 DEF HistoryInv
<1>2. FoundSlot(-1) \in Slots /\ FoundSlot(1) \in Slots
  BY <1>1, FoundSlotInSlots
<1>3. hist_index' \in Slots
  BY <1>2 DEF up_hist, down_hist
<1>4. HistoryInv'
  BY <1>0, <1>3 DEF HistoryInv, Line
<1>5. ASSUME NEW slot \in Slots, NEW pos \in Nat, NEW size \in Int, NEW c \in BOOLEAN,
             Restore(slot, pos, size), Edits(c),
             c => pos = 0 /\ size = 0 /\ Len(history[slot]) < BUF_SIZE
      PROVE  EditInv'
  <2>1. /\ BufferInv' /\ want' \in Seq(Content) /\ at' \in 0 .. Len(want')
        /\ c => HoldsLine(buffer, cur_size, cur_pos, want, at)'
    BY <1>5, RestoreFacts
  <2>2. ReadInv' /\ clean' \in BOOLEAN /\ cleanRead' \in BOOLEAN /\ (clean' => c /\ reader # "ready")
    BY <1>0, <1>5, EditsSpoil
  <2>3. WantInv'
    BY <1>0, <2>1, <2>2 DEF WantInv
  <2>4. CleanInv'
    BY <1>0, <2>1, <2>2 DEF CleanInv
  <2>5. QED
    BY <1>4, <2>1, <2>2, <2>3, <2>4 DEF EditInv
<1>6. CASE UNCHANGED <<edit, want, at, clean, cleanRead>>
  <2>1. UNCHANGED <<buffer, cur_pos, cur_size, col, want, at, clean, cleanRead>>
    BY <1>6 DEF edit
  <2>2. BufferInv' /\ WantInv' /\ ReadInv'
    BY <1>0, <2>1 DEF BufferInv, WantInv, ReadInv
  <2>3. CleanInv'
    BY <1>0, <2>1 DEF CleanInv, HoldsLine
  <2>4. QED
    BY <1>4, <2>2, <2>3 DEF EditInv
<1>7. CASE Restore(FoundSlot(-1), 0, 0) /\ Edits(Len(history[FoundSlot(-1)]) < BUF_SIZE)
  <2>1. 0 \in Nat /\ 0 \in Int /\ (Len(history[FoundSlot(-1)]) < BUF_SIZE) \in BOOLEAN
    OBVIOUS
  <2>2. QED
    BY <1>2, <1>5, <1>7, <2>1
<1>8. CASE Restore(FoundSlot(1), cur_pos, cur_size)
           /\ Edits(clean /\ want = <<>> /\ Len(history[FoundSlot(1)]) < BUF_SIZE)
  <2> DEFINE c == clean /\ want = <<>> /\ Len(history[FoundSlot(1)]) < BUF_SIZE
  <2>1. cur_pos \in Nat /\ cur_size \in Int /\ c \in BOOLEAN
    BY <1>0 DEF BufferInv
  <2>2. c => cur_pos = 0 /\ cur_size = 0 /\ Len(history[FoundSlot(1)]) < BUF_SIZE
    BY <1>0 DEF CleanInv, HoldsLine, WantInv
  <2>3. Edits(c)
    BY <1>8
  <2> HIDE DEF c
  <2>4. QED
    BY <1>2, <1>5, <1>8, <2>1, <2>2, <2>3
<1>9. QED
  BY <1>6, <1>7, <1>8 DEF up_hist, down_hist

(* The invariant holds at first. *)
LEMMA EditInvInit == Init => EditInv
<1> SUFFICES ASSUME Init PROVE EditInv
  OBVIOUS
<1>1. <<>> \in Seq(Content) /\ Len(<<>>) = 0 /\ 0 \in 0 .. 0
  OBVIOUS
<1>2. BufferInv
  BY ConstantFacts DEF Init, BufferInv
<1>3. HistoryInv
  <2>1. history \in [Slots -> Seq(Content)] /\ \A s \in Slots : history[s] = <<>>
    BY <1>1 DEF Init
  <2>2. hist_index \in Slots /\ hist_bottom \in Slots
    BY ConstantFacts DEF Init
  <2>3. Line(<<>>)
    BY ConstantFacts DEF Line
  <2>4. QED
    BY <2>1, <2>2, <2>3 DEF HistoryInv
<1>4. WantInv
  BY <1>1 DEF Init, WantInv
<1>5. CleanInv
  BY ConstantFacts DEF Init, CleanInv, HoldsLine
<1>6. ReadInv
  BY DEF Init, ReadInv
<1>7. QED
  BY <1>2, <1>3, <1>4, <1>5, <1>6 DEF EditInv

(* Every step keeps it. *)
LEMMA EditInvStep == EditInv /\ [Next]_vars => EditInv'
<1> SUFFICES ASSUME EditInv, [Next]_vars PROVE EditInv'
  OBVIOUS
<1>1. CASE Type
  BY <1>1, PutStep DEF Type
<1>2. CASE FnKey
  BY <1>2, PutStep DEF FnKey
<1>3. CASE Enter
  BY <1>3, EnterStep
<1>4. CASE Backspace
  BY <1>4, BackspaceStep
<1>5. CASE CtrlL
  BY <1>5, CtrlLStep
<1>6. CASE term_move_left \/ term_move_right
  BY <1>6, MoveStep
<1>7. CASE up_hist \/ down_hist
  BY <1>7, ArrowStep
<1>8. CASE term_read_start
  BY <1>8, ReadStartStep
<1>9. CASE term_read_finish
  BY <1>9, ReadFinishStep
<1>10. CASE UNCHANGED vars
  <2>1. /\ BufferInv /\ HistoryInv /\ WantInv /\ CleanInv /\ ReadInv /\ UNCHANGED hist
        /\ UNCHANGED <<buffer, cur_pos, cur_size, col, reader, want, at, entered, clean, cleanRead>>
    BY <1>10 DEF EditInv, vars, edit, ghosts
  <2>2. BufferInv' /\ WantInv' /\ ReadInv'
    BY <2>1 DEF BufferInv, WantInv, ReadInv
  <2>3. CleanInv'
    BY <2>1 DEF CleanInv, HoldsLine
  <2>4. QED
    BY <2>1, <2>2, <2>3, HistoryUnchanged DEF EditInv
<1>11. QED
  BY <1>1, <1>2, <1>3, <1>4, <1>5, <1>6, <1>7, <1>8, <1>9, <1>10 DEF Next
-----------------------------------------------------------------------------
(* Every index stays inside its array whatever keys are pressed: the buffer *)
(* and the history are functions on their cells, a line put together as     *)
(* described stays short enough for its newline (terminal.c, term_putc).    *)
THEOREM EditorTypeCorrect == Spec => []TypeOK
<1>1. EditInv => TypeOK
  <2> SUFFICES ASSUME EditInv PROVE TypeOK
    OBVIOUS
  <2>1. BufferInv /\ HistoryInv /\ WantInv /\ CleanInv
    BY DEF EditInv
  <2>2. clean => cur_pos \in Cells /\ cur_size \in Cells
    BY <2>1, LenProperties, ConstantFacts DEF CleanInv, HoldsLine, WantInv, Cells
  <2>3. QED
    BY <2>1, <2>2 DEF BufferInv, HistoryInv, WantInv, TypeOK
<1>2. QED
  BY <1>1, EditInvInit, EditInvStep, PTL DEF Spec

(* For buffers of any size and any mix of keys, a line that no key spoiled  *)
(* is in the buffer as the user put it together, the cursor where the user  *)
(* sees it (terminal.c, term_putc, up_hist and down_hist).                  *)
THEOREM BufferHoldsLine == Spec => []CleanLineMatches
<1>1. EditInv => CleanLineMatches
  BY DEF EditInv, CleanInv, HoldsLine, CleanLineMatches, LineMatches
<1>2. QED
  BY <1>1, EditInvInit, EditInvStep, PTL DEF Spec

(* term_read returns the line as it was when Enter was pressed, unless a    *)
(* key spoiled that line, whatever happened to the lines before it          *)
(* (terminal.c, term_read).                                                 *)
THEOREM ReadsEnteredLine == Spec => []CleanReadReturnsLine
<1>1. EditInv => CleanReadReturnsLine
  <2>1. ReadLine = LineOf(buffer)
    BY DEF ReadLine, LineOf, LineLen, LenOf, Ends, EndsOf
  <2>2. QED
    BY <2>1 DEF EditInv, ReadInv, CleanReadReturnsLine, ReadReturnsLine
<1>2. QED
  BY <1>1, EditInvInit, EditInvStep, PTL DEF Spec
-----------------------------------------------------------------------------
(* The ring of the history.  Dist(b, s) is how far slot s lies below slot   *)
(* b + 1, around the ring, in 1 .. HIST_SIZE.                               *)
Dist(b, s) == IF s <= b THEN b + 1 - s ELSE b + 1 - s + HIST_SIZE

(* Executed line number k, counted back from the newest, lies 2 * k below   *)
(* hist_bottom + 1, and all other slots are empty.                          *)
RingHolds(h, b, l) ==
  \A s \in Slots :
    /\ \A k \in 1 .. Len(l) :
          Dist(b, s) = 2 * k => h[s] = l[Len(l) + 1 - k] /\ h[s] # <<>>
    /\ (\A k \in 1 .. Len(l) : Dist(b, s) # 2 * k) => h[s] = <<>>

(* hist_index is on the line the user has gone up to, or on hist_bottom. *)
IndexAt(i, b, l, k) == /\ k # 0 => Dist(b, i) = 2 * k
                       /\ k = 0 /\ l # <<>> => Dist(b, i) = 1

RingInv == /\ hist_bottom % 2 = 0
           /\ log \in Seq(Seq(Content)) /\ Len(log) <= HIST_SIZE \div 2
           /\ back \in 0 .. Len(log)
           /\ RingHolds(history, hist_bottom, log)
           /\ IndexAt(hist_index, hist_bottom, log, back)

(* One turn around the ring at most. *)
LEMMA SlotAtValue ==
  ASSUME NEW x \in Int, - HIST_SIZE <= x, x < 2 * HIST_SIZE
  PROVE  SlotAt(x) = IF x < 0 THEN x + HIST_SIZE
                     ELSE IF x < HIST_SIZE THEN x ELSE x - HIST_SIZE
<1> DEFINE H == HIST_SIZE
           r == x % H
           q == x \div H
<1>0. H \in Nat \ {0}
  BY ConstantFacts
<1>1. x = H * q + r /\ q \in Int /\ r \in 0 .. H - 1
  BY <1>0
<1>2. SlotAt(x) = r
  BY DEF SlotAt
<1>3. -H <= x /\ x < 2 * H
  OBVIOUS
<1> HIDE DEF H, r, q
<1>4. q > -2
  <2>1. ASSUME q <= -2 PROVE FALSE
    <3>1. H * q <= H * (-2)
      BY <1>0, <1>1, <2>1
    <3>2. QED
      BY <1>0, <1>1, <1>3, <3>1
  <2>2. QED
    BY <1>1, <2>1
<1>5. q < 2
  <2>1. ASSUME q >= 2 PROVE FALSE
    <3>1. H * q >= H * 2
      BY <1>0, <1>1, <2>1
    <3>2. QED
      BY <1>0, <1>1, <1>3, <3>1
  <2>2. QED
    BY <1>1, <2>1
<1>6. CASE q = -1
  BY <1>0, <1>1, <1>2, <1>6 DEF H
<1>7. CASE q = 0
  BY <1>0, <1>1, <1>2, <1>7 DEF H
<1>8. CASE q = 1
  BY <1>0, <1>1, <1>2, <1>8 DEF H
<1>9. QED
  BY <1>1, <1>4, <1>5, <1>6, <1>7, <1>8

(* j slots down the ring. *)
LEMMA DistUp ==
  ASSUME NEW b \in Slots, NEW i \in Slots, NEW j \in 0 .. HIST_SIZE
  PROVE  /\ SlotAt(i - j) \in Slots
         /\ Dist(b, SlotAt(i - j)) = IF Dist(b, i) + j <= HIST_SIZE THEN Dist(b, i) + j
                                     ELSE Dist(b, i) + j - HIST_SIZE
<1>1. i - j \in Int /\ - HIST_SIZE <= i - j /\ i - j < HIST_SIZE /\ HIST_SIZE \in Nat \ {0}
  BY ConstantFacts DEF Slots
<1>2. SlotAt(i - j) = IF i - j < 0 THEN i - j + HIST_SIZE ELSE i - j
  BY <1>1, SlotAtValue
<1>3. QED
  BY <1>1, <1>2 DEF Slots, Dist

(* j slots up the ring. *)
LEMMA DistDown ==
  ASSUME NEW b \in Slots, NEW i \in Slots, NEW j \in 0 .. HIST_SIZE
  PROVE  /\ SlotAt(i + j) \in Slots
         /\ Dist(b, SlotAt(i + j)) = IF Dist(b, i) - j >= 1 THEN Dist(b, i) - j
                                     ELSE Dist(b, i) - j + HIST_SIZE
<1> DEFINE x == i + j
<1>1. x \in Int /\ 0 <= x /\ x < 2 * HIST_SIZE /\ HIST_SIZE \in Nat \ {0}
  BY ConstantFacts DEF Slots
<1>2. SlotAt(x) = IF x < HIST_SIZE THEN x ELSE x - HIST_SIZE
  <2> HIDE DEF x
  <2>1. - HIST_SIZE <= x /\ ~ (x < 0)
    BY <1>1
  <2>2. QED
    BY <1>1, <2>1, SlotAtValue
<1>3. QED
  BY <1>1, <1>2 DEF Slots, Dist

(* A distance is one of 1 .. HIST_SIZE. *)
LEMMA DistRange ==
  ASSUME NEW b \in Slots, NEW i \in Slots
  PROVE  Dist(b, i) \in 1 .. HIST_SIZE
  BY ConstantFacts DEF Slots, Dist

(* The arrow keys stop at the first slot that is not empty. *)
LEMMA FoundFirst ==
  ASSUME NEW dir \in {-1, 1}, NEW j \in 1 .. HIST_SIZE,
         history[SlotAt(hist_index + dir * j)] # <<>>,
         \A i \in 1 .. HIST_SIZE : i < j => history[SlotAt(hist_index + dir * i)] = <<>>
  PROVE  FoundSlot(dir) = SlotAt(hist_index + dir * j)
<1>1. j \in Steps(dir)
  BY ConstantFacts DEF Steps
<1>2. \A i \in Steps(dir) : j <= i /\ i \in Nat
  BY ConstantFacts DEF Steps
<1> DEFINE m == CHOOSE k \in Steps(dir) : \A i \in Steps(dir) : k <= i
<1>3. m \in Steps(dir) /\ \A i \in Steps(dir) : m <= i
  BY <1>1, <1>2
<1>4. FoundSlot(dir) = SlotAt(hist_index + dir * m)
  BY <1>1 DEF FoundSlot
<1> HIDE DEF m
<1>5. m = j
  <2>1. m <= j /\ j <= m /\ m \in Nat /\ j \in Nat
    BY <1>1, <1>2, <1>3
  <2>2. QED
    BY <2>1
<1>6. QED
  BY <1>4, <1>5

(* A slot at twice the number of a line holds it. *)
LEMMA Occupied ==
  ASSUME RingInv, NEW s \in Slots, NEW k \in 1 .. Len(log), Dist(hist_bottom, s) = 2 * k
  PROVE  history[s] # <<>>
  BY DEF RingInv, RingHolds

(* A slot at an odd distance, or beyond the oldest line, is empty. *)
LEMMA Vacant ==
  ASSUME RingInv, HistoryInv, NEW s \in Slots,
         Dist(hist_bottom, s) % 2 = 1 \/ Dist(hist_bottom, s) > 2 * Len(log)
  PROVE  history[s] = <<>>
<1>1. ASSUME NEW k \in 1 .. Len(log) PROVE Dist(hist_bottom, s) # 2 * k
  <2>1. Len(log) \in Nat
    BY LenProperties DEF RingInv
  <2>2. Dist(hist_bottom, s) \in 1 .. HIST_SIZE
    BY DistRange DEF HistoryInv
  <2>3. QED
    BY <2>1, <2>2, ConstantFacts
<1>2. QED
  BY <1>1 DEF RingInv, RingHolds

(* The distance of the slot i steps up or down from hist_index. *)
LEMMA ArrowDist ==
  ASSUME HistoryInv, NEW i \in 1 .. HIST_SIZE
  PROVE  LET e == Dist(hist_bottom, hist_index) IN
         /\ SlotAt(hist_index + (-1) * i) \in Slots
         /\ SlotAt(hist_index + 1 * i) \in Slots
         /\ Dist(hist_bottom, SlotAt(hist_index + (-1) * i)) =
               IF e + i <= HIST_SIZE THEN e + i ELSE e + i - HIST_SIZE
         /\ Dist(hist_bottom, SlotAt(hist_index + 1 * i)) =
               IF e - i >= 1 THEN e - i ELSE e - i + HIST_SIZE
<1>1. hist_index \in Slots /\ hist_bottom \in Slots /\ i \in 0 .. HIST_SIZE
  BY ConstantFacts DEF HistoryInv
<1>2. hist_index + (-1) * i = hist_index - i /\ hist_index + 1 * i = hist_index + i
  BY <1>1, ConstantFacts DEF Slots
<1>3. QED
  BY <1>1, <1>2, DistUp, DistDown

(* Which line an arrow key finds: the one at distance 2 * k, if the slots   *)
(* before it are empty.                                                     *)
LEMMA FoundDist ==
  ASSUME HistoryInv, RingInv, NEW dir \in {-1, 1}, NEW j \in 1 .. HIST_SIZE, NEW k \in 1 .. Len(log),
         Dist(hist_bottom, SlotAt(hist_index + dir * j)) = 2 * k,
         \A i \in 1 .. HIST_SIZE : i < j =>
            \/ Dist(hist_bottom, SlotAt(hist_index + dir * i)) % 2 = 1
            \/ Dist(hist_bottom, SlotAt(hist_index + dir * i)) > 2 * Len(log)
  PROVE  Dist(hist_bottom, FoundSlot(dir)) = 2 * k
<1>1. ASSUME NEW i \in 1 .. HIST_SIZE PROVE SlotAt(hist_index + dir * i) \in Slots
  BY ArrowDist
<1>2. history[SlotAt(hist_index + dir * j)] # <<>>
  BY <1>1, Occupied
<1>3. \A i \in 1 .. HIST_SIZE : i < j => history[SlotAt(hist_index + dir * i)] = <<>>
  BY <1>1, Vacant
<1>4. FoundSlot(dir) = SlotAt(hist_index + dir * j)
  BY <1>2, <1>3, FoundFirst
<1>5. QED
  BY <1>4

(* Up: the next older line, and from the oldest around to the newest. *)
LEMMA UpFinds ==
  ASSUME HistoryInv, RingInv, log # <<>>
  PROVE  LET k == (back % Len(log)) + 1
         IN k \in 1 .. Len(log) /\ Dist(hist_bottom, FoundSlot(-1)) = 2 * k
<1> DEFINE M == Len(log)
           H == HIST_SIZE
           e == Dist(hist_bottom, hist_index)
           d(i) == Dist(hist_bottom, SlotAt(hist_index + (-1) * i))
<1>1. M \in Nat \ {0} /\ H \in Nat \ {0} /\ 2 * M <= H /\ back \in 0 .. M
  BY EmptySeq, ConstantFacts DEF RingInv
<1>2. (back # 0 => e = 2 * back) /\ (back = 0 => e = 1)
  BY DEF RingInv, IndexAt
<1>3. \A i \in 1 .. H : d(i) = IF e + i <= H THEN e + i ELSE e + i - H
  BY ArrowDist
<1>4. ASSUME NEW j \in 1 .. H, NEW k \in 1 .. M, d(j) = 2 * k,
             \A i \in 1 .. H : i < j => d(i) % 2 = 1 \/ d(i) > 2 * M
      PROVE  Dist(hist_bottom, FoundSlot(-1)) = 2 * k
  <2>1. -1 \in {-1, 1}
    OBVIOUS
  <2>2. QED
    BY <1>4, <2>1, FoundDist
<1> HIDE DEF M, H, e, d
<1>5. CASE back = 0
  <2>1. 1 \in 1 .. H /\ 1 \in 1 .. M /\ d(1) = 2 * 1 /\ \A i \in 1 .. H : ~ (i < 1)
    BY <1>1, <1>2, <1>3, <1>5
  <2>2. (back % M) + 1 = 1
    BY <1>1, <1>5
  <2>3. Dist(hist_bottom, FoundSlot(-1)) = 2 * 1
    BY <1>4, <2>1
  <2>4. QED
    BY <2>1, <2>2, <2>3 DEF M
<1>6. CASE 0 < back /\ back < M
  <2>1. 2 \in 1 .. H /\ back + 1 \in 1 .. M /\ d(2) = 2 * (back + 1)
    BY <1>1, <1>2, <1>3, <1>6
  <2>2. \A i \in 1 .. H : i < 2 => d(i) % 2 = 1
    BY <1>1, <1>2, <1>3, <1>6
  <2>3. back % M = back
    BY <1>1, <1>6
  <2>4. Dist(hist_bottom, FoundSlot(-1)) = 2 * (back + 1)
    BY <1>4, <2>1, <2>2
  <2>5. QED
    BY <2>1, <2>3, <2>4 DEF M
<1>7. CASE back = M
  <2> DEFINE j == H + 2 - 2 * M
  <2>1. j \in 1 .. H /\ 1 \in 1 .. M /\ d(j) = 2 * 1
    BY <1>1, <1>2, <1>3, <1>7
  <2>2. \A i \in 1 .. H : i < j => d(i) % 2 = 1 \/ d(i) > 2 * M
    BY <1>1, <1>2, <1>3, <1>7
  <2>3. (back % M) + 1 = 1
    BY <1>1, <1>7
  <2> HIDE DEF j
  <2>4. Dist(hist_bottom, FoundSlot(-1)) = 2 * 1
    BY <1>4, <2>1, <2>2
  <2>5. QED
    BY <2>1, <2>3, <2>4 DEF M
<1>8. QED
  BY <1>1, <1>5, <1>6, <1>7

(* Down: the next newer line, and from the newest around to the oldest. *)
LEMMA DownFinds ==
  ASSUME HistoryInv, RingInv, log # <<>>
  PROVE  LET k == IF back <= 1 THEN Len(log) ELSE back - 1
         IN k \in 1 .. Len(log) /\ Dist(hist_bottom, FoundSlot(1)) = 2 * k
<1> DEFINE M == Len(log)
           H == HIST_SIZE
           e == Dist(hist_bottom, hist_index)
           d(i) == Dist(hist_bottom, SlotAt(hist_index + 1 * i))
<1>1. M \in Nat \ {0} /\ H \in Nat \ {0} /\ 2 * M <= H /\ back \in 0 .. M
  BY EmptySeq, ConstantFacts DEF RingInv
<1>2. (back # 0 => e = 2 * back) /\ (back = 0 => e = 1)
  BY DEF RingInv, IndexAt
<1>3. \A i \in 1 .. H : d(i) = IF e - i >= 1 THEN e - i ELSE e - i + H
  BY ArrowDist
<1>4. ASSUME NEW j \in 1 .. H, NEW k \in 1 .. M, d(j) = 2 * k,
             \A i \in 1 .. H : i < j => d(i) % 2 = 1 \/ d(i) > 2 * M
      PROVE  Dist(hist_bottom, FoundSlot(1)) = 2 * k
  <2>1. 1 \in {-1, 1}
    OBVIOUS
  <2>2. QED
    BY <1>4, <2>1, FoundDist
<1> HIDE DEF M, H, e, d
<1>5. CASE back <= 1
  <2> DEFINE j == H + e - 2 * M
  <2>0. e \in {1, 2}
    BY <1>1, <1>2, <1>5
  <2>1. j \in 1 .. H /\ M \in 1 .. M /\ d(j) = 2 * M
    BY <1>1, <1>3, <2>0
  <2>2. \A i \in 1 .. H : i < j => d(i) % 2 = 1 \/ d(i) > 2 * M
    BY <1>1, <1>3, <2>0
  <2> HIDE DEF j
  <2>3. Dist(hist_bottom, FoundSlot(1)) = 2 * M
    BY <1>4, <2>1, <2>2
  <2>4. QED
    BY <1>5, <2>1, <2>3 DEF M
<1>6. CASE ~ (back <= 1)
  <2>1. 2 \in 1 .. H /\ back - 1 \in 1 .. M /\ d(2) = 2 * (back - 1)
    BY <1>1, <1>2, <1>3, <1>6
  <2>2. \A i \in 1 .. H : i < 2 => d(i) % 2 = 1
    BY <1>1, <1>2, <1>3, <1>6
  <2>3. Dist(hist_bottom, FoundSlot(1)) = 2 * (back - 1)
    BY <1>4, <2>1, <2>2
  <2>4. QED
    BY <1>6, <2>1, <2>3 DEF M
<1>7. QED
  BY <1>5, <1>6

(* The history and the lines executed stay as they are. *)
LEMMA RingUnchanged ==
  ASSUME RingInv, UNCHANGED <<history, hist_bottom, hist_index, log, back>>
  PROVE  RingInv'
  BY DEF RingInv, RingHolds, IndexAt, Dist

(* The arrow keys keep the index on the line they recall. *)
LEMMA RingArrow ==
  ASSUME HistoryInv, RingInv, up_hist \/ down_hist
  PROVE  RingInv'
<1>0. /\ UNCHANGED <<history, hist_bottom, log>>
      /\ log \in Seq(Seq(Content)) /\ Len(log) \in Nat /\ back \in 0 .. Len(log)
  BY LenProperties DEF RingInv, up_hist, down_hist
<1>1. hist_bottom' % 2 = 0 /\ log' \in Seq(Seq(Content)) /\ Len(log') <= HIST_SIZE \div 2
  BY <1>0 DEF RingInv
<1>2. RingHolds(history, hist_bottom, log)'
  BY <1>0 DEF RingInv, RingHolds, Dist
<1>3. back' \in 0 .. Len(log') /\ IndexAt(hist_index, hist_bottom, log, back)'
  <2>1. CASE log = <<>>
    <3>1. Len(log) = 0 /\ back = 0
      BY <1>0, <2>1
    <3>2. back' = 0
      BY <2>1, <3>1 DEF up_hist, down_hist
    <3>3. QED
      BY <1>0, <2>1, <3>1, <3>2 DEF IndexAt
  <2>2. ASSUME log # <<>>, up_hist
        PROVE  back' \in 1 .. Len(log) /\ Dist(hist_bottom, hist_index') = 2 * back'
    <3>1. hist_index' = FoundSlot(-1) /\ back' = (back % Len(log)) + 1
      BY <2>2 DEF up_hist
    <3>2. QED
      BY <2>2, <3>1, UpFinds
  <2>3. ASSUME log # <<>>, down_hist
        PROVE  back' \in 1 .. Len(log) /\ Dist(hist_bottom, hist_index') = 2 * back'
    <3>1. hist_index' = FoundSlot(1) /\ back' = IF back <= 1 THEN Len(log) ELSE back - 1
      BY <2>3 DEF down_hist
    <3>2. QED
      BY <2>3, <3>1, DownFinds
  <2>4. CASE log # <<>>
    <3>1. back' \in 1 .. Len(log) /\ Dist(hist_bottom, hist_index') = 2 * back'
      BY <2>2, <2>3, <2>4
    <3>2. back' \in 0 .. Len(log) /\ back' # 0
      BY <1>0, <3>1
    <3>3. QED
      BY <1>0, <3>1, <3>2 DEF IndexAt, Dist
  <2>5. QED
    BY <2>1, <2>4
<1>4. QED
  BY <1>1, <1>2, <1>3 DEF RingInv

(* The slot save_hist writes and the one it leaves behind: every distance   *)
(* grows by two, around the ring.                                           *)
LEMMA SaveSlots ==
  ASSUME NEW b \in Slots, b % 2 = 0
  PROVE  LET slot == (b + 1) % HIST_SIZE
             next == (slot + 1) % HIST_SIZE IN
         /\ slot = b + 1 /\ slot \in Slots /\ next \in Slots /\ next % 2 = 0
         /\ Dist(next, slot) = 2 /\ Dist(next, next) = 1
         /\ \A s \in Slots : s # slot =>
               \/ Dist(b, s) < HIST_SIZE - 1 /\ Dist(next, s) = Dist(b, s) + 2
               \/ Dist(b, s) = HIST_SIZE - 1 /\ Dist(next, s) = 1
<1> DEFINE H == HIST_SIZE
           slot == (b + 1) % H
           next == (slot + 1) % H
<1>1. H \in Nat \ {0} /\ H % 2 = 0 /\ b \in 0 .. H - 1 /\ b % 2 = 0
  BY ConstantFacts DEF Slots
<1>2. b + 1 < H
  BY <1>1
<1>3. slot = b + 1
  BY <1>1, <1>2
<1>4. next = IF b + 2 < H THEN b + 2 ELSE 0
  BY <1>1, <1>2, <1>3
<1> HIDE DEF slot, next
<1>5. slot \in Slots /\ next \in Slots /\ next % 2 = 0
  BY <1>1, <1>2, <1>3, <1>4 DEF Slots, H
<1>6. Dist(next, slot) = 2 /\ Dist(next, next) = 1
  BY <1>1, <1>2, <1>3, <1>4 DEF Dist, H
<1>7. ASSUME NEW s \in Slots, s # slot
      PROVE  \/ Dist(b, s) < H - 1 /\ Dist(next, s) = Dist(b, s) + 2
             \/ Dist(b, s) = H - 1 /\ Dist(next, s) = 1
  <2>1. s \in 0 .. H - 1 /\ s # b + 1
    BY <1>3, <1>7 DEF Slots, H
  <2>2. Dist(b, s) = IF s <= b THEN b + 1 - s ELSE b + 1 - s + H
    BY DEF Dist, H
  <2>3. Dist(next, s) = IF s <= next THEN next + 1 - s ELSE next + 1 - s + H
    BY DEF Dist, H
  <2>4. QED
    BY <1>1, <1>2, <1>4, <2>1, <2>2, <2>3
<1>8. QED
  BY <1>3, <1>5, <1>6, <1>7 DEF slot, next, H

(* The lines executed, with the new one, the oldest dropped beyond half the *)
(* ring.                                                                    *)
LEMMA LogFacts ==
  ASSUME NEW S, NEW l \in Seq(S), NEW text \in S, NEW h \in Nat, Len(l) <= h, h > 0,
         NEW m, m = (LET a == Append(l, text) IN IF Len(a) > h THEN Tail(a) ELSE a)
  PROVE  /\ m \in Seq(S) /\ Len(m) = IF Len(l) < h THEN Len(l) + 1 ELSE h
         /\ m # <<>> /\ m[Len(m)] = text
         /\ \A k \in 2 .. Len(m) : m[Len(m) + 1 - k] = l[Len(l) + 2 - k] /\ k - 1 \in 1 .. Len(l)
<1> DEFINE a == Append(l, text)
           n == Len(l)
<1>0. n \in Nat /\ n <= h
  BY LenProperties
<1>1. /\ a \in Seq(S) /\ a # <<>> /\ Len(a) = n + 1 /\ a[n + 1] = text
      /\ \A i \in 1 .. n : a[i] = l[i]
  BY AppendProperties
<1>2. m = IF Len(a) > h THEN Tail(a) ELSE a
  OBVIOUS
<1> HIDE DEF a, n
<1>3. CASE n < h
  <2>1. m = a /\ Len(m) = n + 1
    BY <1>0, <1>1, <1>2, <1>3
  <2>2. ASSUME NEW k \in 2 .. Len(m)
        PROVE  m[Len(m) + 1 - k] = l[n + 2 - k] /\ k - 1 \in 1 .. n
    <3>1. Len(m) + 1 - k = n + 2 - k /\ n + 2 - k \in 1 .. n /\ k - 1 \in 1 .. n
      BY <1>0, <2>1
    <3>2. QED
      BY <1>1, <2>1, <3>1
  <2>3. QED
    BY <1>1, <1>3, <2>1, <2>2 DEF n
<1>4. CASE n = h
  <2>1. Len(a) > h /\ m = Tail(a)
    BY <1>0, <1>1, <1>2, <1>4
  <2>2. m \in Seq(S) /\ Len(m) = Len(a) - 1 /\ \A i \in 1 .. Len(m) : m[i] = a[i + 1]
    <3>1. /\ Tail(a) \in Seq(S) /\ Len(Tail(a)) = Len(a) - 1
          /\ \A i \in 1 .. Len(Tail(a)) : Tail(a)[i] = a[i + 1]
      BY <1>1, HeadTailProperties
    <3>2. QED
      BY <2>1, <3>1, Zenon
  <2>3. Len(m) = n /\ n > 0 /\ n \in 1 .. Len(m)
    BY <1>0, <1>1, <1>4, <2>2
  <2>4. m[n] = text /\ m # <<>>
    BY <1>1, <2>2, <2>3
  <2>5. ASSUME NEW k \in 2 .. Len(m)
        PROVE  m[Len(m) + 1 - k] = l[n + 2 - k] /\ k - 1 \in 1 .. n
    <3>1. n + 1 - k \in 1 .. Len(m) /\ (n + 1 - k) + 1 = n + 2 - k /\ n + 2 - k \in 1 .. n /\ k - 1 \in 1 .. n
      BY <1>0, <2>3
    <3>2. m[n + 1 - k] = a[(n + 1 - k) + 1]
      BY <2>2, <3>1
    <3>3. a[n + 2 - k] = l[n + 2 - k]
      BY <1>1, <3>1
    <3>4. Len(m) + 1 - k = n + 1 - k
      BY <2>3
    <3>5. QED
      BY <3>1, <3>2, <3>3, <3>4
  <2>6. QED
    <3>1. ~ (n < h) /\ Len(m) = h /\ m[Len(m)] = text
      BY <1>0, <1>4, <2>3, <2>4
    <3>2. QED
      BY <2>2, <2>4, <2>5, <3>1, Zenon DEF n
<1>5. n < h \/ n = h
  BY <1>0
<1>6. QED
  BY <1>3, <1>4, <1>5, Zenon

(* save_hist puts the new line at distance two and leaves the others at     *)
(* twice their number, now one higher; the oldest is overwritten when the   *)
(* ring is full.                                                            *)
LEMMA RingSave ==
  ASSUME HistoryInv, RingInv, NEW text \in Seq(Content), text # <<>>, save_hist(text),
         log' = (LET a == Append(log, text) IN IF Len(a) > HIST_SIZE \div 2 THEN Tail(a) ELSE a),
         back' = 0
  PROVE  RingInv'
<1> DEFINE H == HIST_SIZE
           b == hist_bottom
           slot == (hist_bottom + 1) % HIST_SIZE
           next == (slot + 1) % HIST_SIZE
           M == Len(log)
           N == Len(log')
           h == HIST_SIZE \div 2
<1>0. H \in Nat \ {0} /\ H % 2 = 0 /\ h \in Nat /\ H = 2 * h /\ h > 0
  BY ConstantFacts
<1>1. /\ history \in [Slots -> Seq(Content)] /\ b \in Slots /\ b % 2 = 0
      /\ log \in Seq(Seq(Content)) /\ M <= h /\ RingHolds(history, b, log)
  BY DEF HistoryInv, RingInv
<1>2. M \in Nat
  BY <1>1, LenProperties
<1>3. history' = [history EXCEPT ![slot] = text] /\ hist_bottom' = next /\ hist_index' = next
  BY DEF save_hist
<1>4. /\ slot \in Slots /\ next \in Slots /\ next % 2 = 0
      /\ Dist(next, slot) = 2 /\ Dist(next, next) = 1
      /\ \A s \in Slots : s # slot =>
            \/ Dist(b, s) < H - 1 /\ Dist(next, s) = Dist(b, s) + 2
            \/ Dist(b, s) = H - 1 /\ Dist(next, s) = 1
  BY <1>1, SaveSlots
<1>5. /\ log' \in Seq(Seq(Content)) /\ N = IF M < h THEN M + 1 ELSE h
      /\ log' # <<>> /\ log'[N] = text
      /\ \A k \in 2 .. N : log'[N + 1 - k] = log[M + 2 - k] /\ k - 1 \in 1 .. M
  <2>1. log' = (LET a == Append(log, text) IN IF Len(a) > h THEN Tail(a) ELSE a)
    OBVIOUS
  <2> HIDE DEF h
  <2>2. QED
    BY <1>0, <1>1, <2>1, LogFacts
<1>6. N \in Nat /\ N >= 1 /\ N <= h
  BY <1>0, <1>2, <1>5
<1>7. \A s \in Slots : /\ s = slot => history'[s] = text
                       /\ s # slot => history'[s] = history[s]
  BY <1>1, <1>3, <1>4
<1>8. \A s \in Slots : Dist(b, s) \in 1 .. H
  BY <1>1, DistRange
<1> HIDE DEF H, b, slot, next, M, N, h
<1>9. ASSUME NEW s \in Slots, NEW k \in 1 .. N, Dist(next, s) = 2 * k
      PROVE  history'[s] = log'[N + 1 - k] /\ history'[s] # <<>>
  <2>1. CASE s = slot
    <3>1. k = 1 /\ N + 1 - k = N
      BY <1>4, <1>6, <1>9, <2>1
    <3>2. QED
      BY <1>5, <1>7, <2>1, <3>1
  <2>2. CASE s # slot
    <3>1. Dist(b, s) < H - 1 /\ Dist(next, s) = Dist(b, s) + 2
      BY <1>4, <1>6, <1>9, <2>2
    <3>2. Dist(b, s) = 2 * (k - 1) /\ k \in 2 .. N
      <4>1. Dist(b, s) \in 1 .. H /\ Dist(b, s) + 2 = 2 * k /\ k \in 1 .. N
        BY <1>8, <1>9, <3>1
      <4> DEFINE d == Dist(b, s)
      <4>2. d \in 1 .. H /\ d + 2 = 2 * k /\ k \in 1 .. N
        BY <4>1
      <4> HIDE DEF d
      <4>3. d \in Int /\ k \in Int /\ d >= 1 /\ k <= N /\ d + 2 = 2 * k
        BY <1>0, <1>6, <4>2
      <4>4. d = 2 * (k - 1) /\ k >= 2
        BY <4>3
      <4>5. QED
        BY <1>6, <4>3, <4>4 DEF d
    <3>3. k - 1 \in 1 .. M /\ log'[N + 1 - k] = log[M + 2 - k] /\ M + 1 - (k - 1) = M + 2 - k
      <4>1. k - 1 \in 1 .. M /\ log'[N + 1 - k] = log[M + 2 - k]
        BY <1>5, <3>2, Zenon
      <4>2. M + 1 - (k - 1) = M + 2 - k
        BY <1>2, <1>6
      <4>3. QED
        BY <4>1, <4>2
    <3>4. history[s] = log[M + 1 - (k - 1)] /\ history[s] # <<>>
      BY <1>1, <3>2, <3>3 DEF RingHolds, M
    <3>5. QED
      BY <1>7, <2>2, <3>3, <3>4
  <2>3. QED
    BY <2>1, <2>2
<1>10. ASSUME NEW s \in Slots, \A k \in 1 .. N : Dist(next, s) # 2 * k
       PROVE  history'[s] = <<>>
  <2>1. s # slot
    <3>1. 1 \in 1 .. N /\ 2 = 2 * 1
      BY <1>6
    <3>2. QED
      BY <1>4, <1>10, <3>1
  <2>2. ASSUME NEW k \in 1 .. M, Dist(b, s) = 2 * k PROVE FALSE
    <3>1. Dist(b, s) < H - 1 /\ Dist(next, s) = Dist(b, s) + 2
      BY <1>0, <1>2, <1>4, <2>1, <2>2
    <3>2. Dist(next, s) = 2 * (k + 1) /\ k + 1 \in 1 .. N
      BY <1>0, <1>2, <1>5, <1>6, <2>2, <3>1
    <3>3. QED
      BY <1>10, <3>2
  <2>3. history[s] = <<>>
    BY <1>1, <2>2 DEF RingHolds, M
  <2>4. QED
    BY <1>7, <2>1, <2>3
<1>11. RingHolds(history', next, log')
  BY <1>9, <1>10 DEF RingHolds, N
<1>12. RingHolds(history, hist_bottom, log)'
  BY <1>3, <1>11 DEF RingHolds, Dist
<1>13. IndexAt(hist_index, hist_bottom, log, back)'
  BY <1>3, <1>4 DEF IndexAt, Dist
<1>14. hist_bottom' % 2 = 0 /\ N <= h /\ back' \in 0 .. N
  BY <1>3, <1>4, <1>6
<1>15. QED
  BY <1>5, <1>12, <1>13, <1>14 DEF RingInv, N, h

(* The ring is right at first. *)
LEMMA RingInvInit == Init => RingInv
<1> SUFFICES ASSUME Init PROVE RingInv
  OBVIOUS
<1>1. <<>> \in Seq(Seq(Content)) /\ Len(<<>>) = 0 /\ 0 \in 0 .. 0 /\ 0 <= HIST_SIZE \div 2 /\ 0 % 2 = 0
  BY ConstantFacts
<1>2. \A s \in Slots : history[s] = <<>>
  BY DEF Init
<1>3. RingHolds(history, hist_bottom, log)
  <2>1. log = <<>> /\ \A k : k \notin 1 .. 0
    BY DEF Init
  <2>2. QED
    BY <1>1, <1>2, <2>1 DEF RingHolds
<1>4. IndexAt(hist_index, hist_bottom, log, back)
  BY DEF Init, IndexAt
<1>5. QED
  BY <1>1, <1>3, <1>4 DEF Init, RingInv

(* Every step keeps it. *)
LEMMA RingInvStep == EditInv /\ RingInv /\ [Next]_vars => RingInv'
<1> SUFFICES ASSUME EditInv, RingInv, [Next]_vars PROVE RingInv'
  OBVIOUS
<1>0. HistoryInv /\ BufferInv
  BY DEF EditInv
<1>1. CASE UNCHANGED hist /\ UNCHANGED recall
  BY <1>1, RingUnchanged DEF hist, recall
<1>2. CASE up_hist \/ down_hist
  BY <1>0, <1>2, RingArrow
<1>3. CASE term_read_finish
  <2>1. CASE /\ ReadLine # <<>> /\ save_hist(ReadLine)
             /\ log' = (LET a == Append(log, ReadLine) IN IF Len(a) > HIST_SIZE \div 2 THEN Tail(a) ELSE a)
             /\ back' = 0
    <3>1. ReadLine \in Seq(Content)
      <4>1. ReadLine = LineOf(buffer) /\ buffer \in [Cells -> Content]
        BY <1>0 DEF BufferInv, ReadLine, LineOf, LineLen, LenOf, Ends, EndsOf
      <4>2. QED
        BY <4>1, ReadLineFacts
    <3>2. QED
      BY <1>0, <2>1, <3>1, RingSave
  <2>2. QED
    BY <1>1, <1>3, <2>1 DEF term_read_finish
<1>4. CASE Type \/ FnKey \/ Enter \/ Backspace \/ CtrlL
  BY <1>1, <1>4 DEF Type, FnKey, Put, Enter, Backspace, CtrlL
<1>5. CASE term_move_left \/ term_move_right \/ term_read_start
  BY <1>1, <1>5 DEF term_move_left, term_move_right, term_read_start
<1>6. CASE UNCHANGED vars
  BY <1>1, <1>6 DEF vars
<1>7. QED
  BY <1>2, <1>3, <1>4, <1>5, <1>6 DEF Next
-----------------------------------------------------------------------------
(* For histories of any even size, the arrow keys show the executed lines   *)
(* in order, newest first and around again, although save_hist advances two *)
(* slots a line and the ring overwrites the oldest (terminal.c, save_hist,  *)
(* up_hist, down_hist).                                                     *)
THEOREM HistoryInOrder == Spec => []HistoryOrder
<1>1. EditInv /\ RingInv => HistoryOrder
  <2> SUFFICES ASSUME EditInv, RingInv, back # 0
               PROVE  history[hist_index] = log[Len(log) + 1 - back]
    BY DEF HistoryOrder
  <2>1. hist_index \in Slots /\ Len(log) \in Nat
    BY LenProperties DEF EditInv, HistoryInv, RingInv
  <2>2. back \in 1 .. Len(log) /\ Dist(hist_bottom, hist_index) = 2 * back
    BY <2>1 DEF RingInv, IndexAt
  <2>3. QED
    BY <2>1, <2>2 DEF RingInv, RingHolds
<1>2. QED
  BY <1>1, EditInvInit, EditInvStep, RingInvInit, RingInvStep, PTL DEF Spec
=============================================================================
