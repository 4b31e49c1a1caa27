----------------------------- MODULE ArgsProofs -----------------------------
(***************************************************************************)
(* Whatever the terminals execute at the same time, every program gets the  *)
(* arguments of its own command line: for any number of terminals and PCBs, *)
(* any lines shorter than the buffer and any sizes asked for.               *)
(***************************************************************************)
EXTENDS Args, TLAPS, SequenceTheorems, WellFoundedInduction

Chars == Letters \cup {Space, NL}
IsLine(l) == l \in Seq(Chars) /\ Len(l) <= MaxLine

(* The arguments of a line. *)
ArgsOf(l) == parse_input(l).args
-----------------------------------------------------------------------------
(* The numbers ordered by <, as a set of pairs. *)
Below == {ss \in Nat \X Nat : ss[1] < ss[2]}

(* The least element that Min chooses exists. *)
LEMMA MinIs ==
  ASSUME NEW S \in SUBSET Nat, S # {}
  PROVE  Min(S) \in S /\ \A k \in S : Min(S) <= k
<1>1. IsWellFoundedOn(Below, Nat)
  BY NatLessThanWellFounded DEF OpToRel, Below
<1>2. PICK m \in S : \A k \in S : ~ (<<k, m>> \in Below)
  BY <1>1, WFMin
<1>3. \A k \in S : ~ (k < m)
  BY <1>2 DEF Below
<1>4. \A k \in S : m <= k
  BY <1>3
<1>5. \E x \in S : \A y \in S : x =< y
  BY <1>2, <1>4
<1> QED BY <1>5, Zenon DEF Min

(* SkipSpaces passes spaces only and stops at something else. *)
LEMMA SkipIs ==
  ASSUME NEW l, IsLine(l), NEW i \in 0 .. Len(l)
  PROVE  /\ SkipSpaces(l, i) \in i .. Len(l)
         /\ \A j \in i .. SkipSpaces(l, i) - 1 : l[j + 1] = Space
         /\ SkipSpaces(l, i) < Len(l) => l[SkipSpaces(l, i) + 1] # Space
<1> DEFINE S == {j \in i .. Len(l) : CharAt(l, j) # Space}
<1>1. Len(l) \in Nat
  BY DEF IsLine
<1>2. Len(l) \in S
  BY <1>1 DEF CharAt, Nul, Space
<1>3. S \in SUBSET Nat /\ S # {}
  BY <1>1, <1>2
<1>4. PICK m : m = SkipSpaces(l, i) /\ m = Min(S)
  BY DEF SkipSpaces
<1>5. m \in S /\ \A k \in S : m <= k
  BY <1>3, <1>4, MinIs
<1>6. m \in i .. Len(l) /\ CharAt(l, m) # Space
  BY <1>5
<1>7. ASSUME NEW j \in i .. m - 1 PROVE l[j + 1] = Space
  <2>1. j \in i .. Len(l) /\ j < m /\ j < Len(l)
    BY <1>1, <1>6
  <2>2. j \notin S
    BY <1>1, <1>5, <1>6, <2>1
  <2>3. CharAt(l, j) = Space
    BY <2>1, <2>2
  <2> QED BY <2>1, <2>3 DEF CharAt
<1>8. m < Len(l) => l[m + 1] # Space
  BY <1>6 DEF CharAt
<1> QED BY <1>4, <1>6, <1>7, <1>8

(* StopAt passes none of the ends and stops at one, or at the end. *)
LEMMA StopIs ==
  ASSUME NEW l, IsLine(l), NEW i \in 0 .. Len(l), NEW ends, Nul \in ends
  PROVE  /\ StopAt(l, i, ends) \in i .. Len(l)
         /\ \A j \in i .. StopAt(l, i, ends) - 1 : l[j + 1] \notin ends
         /\ StopAt(l, i, ends) < Len(l) => l[StopAt(l, i, ends) + 1] \in ends
<1> DEFINE S == {j \in i .. Len(l) : j >= BUF_SIZE \/ CharAt(l, j) \in ends}
<1>1. Len(l) \in Nat /\ Len(l) < BUF_SIZE
  BY ArgsConstants DEF ArgsConstants, IsLine
<1>2. Len(l) \in S
  BY <1>1 DEF CharAt
<1>3. S \in SUBSET Nat /\ S # {}
  BY <1>1, <1>2
<1>4. PICK m : m = StopAt(l, i, ends) /\ m = Min(S)
  BY DEF StopAt
<1>5. m \in S /\ \A k \in S : m <= k
  BY <1>3, <1>4, MinIs
<1>6. m \in i .. Len(l) /\ (m >= BUF_SIZE \/ CharAt(l, m) \in ends)
  BY <1>5
<1>7. ASSUME NEW j \in i .. m - 1 PROVE l[j + 1] \notin ends
  <2>1. j \in i .. Len(l) /\ j < m /\ j < Len(l)
    BY <1>1, <1>6
  <2>2. j \notin S
    BY <1>1, <1>5, <1>6, <2>1
  <2>3. CharAt(l, j) \notin ends
    BY <2>1, <2>2
  <2> QED BY <2>1, <2>3 DEF CharAt
<1>8. m < Len(l) => l[m + 1] \in ends
  <2>1. ~ (m >= BUF_SIZE)
    BY <1>1, <1>6, ArgsConstants DEF ArgsConstants
  <2> QED BY <1>6, <2>1 DEF CharAt
<1> QED BY <1>4, <1>6, <1>7, <1>8
-----------------------------------------------------------------------------
(* A piece of a line, character by character. *)
LEMMA PieceIs ==
  ASSUME NEW l \in Seq(Chars), NEW i \in 0 .. Len(l), NEW j \in i .. Len(l)
  PROVE  /\ SubSeq(l, i + 1, j) \in Seq(Chars)
         /\ Len(SubSeq(l, i + 1, j)) = j - i
         /\ \A k \in 1 .. j - i : SubSeq(l, i + 1, j)[k] = l[i + k]
<1>1. Len(l) \in Nat
  OBVIOUS
<1>2. \A k \in i + 1 .. j : l[k] \in Chars
  BY <1>1
<1> QED BY <1>1, <1>2

(* Two pieces that meet are one. *)
LEMMA PiecesMeet ==
  ASSUME NEW l \in Seq(Chars), NEW i \in 0 .. Len(l), NEW j \in i .. Len(l)
  PROVE  SubSeq(l, 1, i) \o SubSeq(l, i + 1, j) = SubSeq(l, 1, j)
<1>1. Len(l) \in Nat
  OBVIOUS
<1> DEFINE a == SubSeq(l, 1, i)
           b == SubSeq(l, i + 1, j)
           c == SubSeq(l, 1, j)
<1>2. /\ a \in Seq(Chars) /\ Len(a) = i /\ \A k \in 1 .. i : a[k] = l[k]
  <2>1. 0 \in 0 .. Len(l) /\ i \in 0 .. Len(l) /\ 0 + 1 = 1 /\ i - 0 = i
    BY <1>1
  <2>2. \A k \in 1 .. i : 0 + k = k
    BY <1>1
  <2> QED BY <2>1, <2>2, PieceIs
<1>3. /\ c \in Seq(Chars) /\ Len(c) = j /\ \A k \in 1 .. j : c[k] = l[k]
  <2>1. 0 \in 0 .. Len(l) /\ j \in 0 .. Len(l) /\ 0 + 1 = 1 /\ j - 0 = j
    BY <1>1
  <2>2. \A k \in 1 .. j : 0 + k = k
    BY <1>1
  <2> QED BY <2>1, <2>2, PieceIs
<1>4. b \in Seq(Chars) /\ Len(b) = j - i /\ \A k \in 1 .. j - i : b[k] = l[i + k]
  BY PieceIs
<1> HIDE DEF a, b, c
<1>n. i \in Nat /\ j \in Nat /\ i <= j /\ i + (j - i) = j
  BY <1>1
<1>c. /\ a \o b \in Seq(Chars) /\ Len(a \o b) = Len(a) + Len(b)
      /\ \A k \in 1 .. Len(a) + Len(b) : (a \o b)[k] = IF k <= Len(a) THEN a[k] ELSE b[k - Len(a)]
  BY <1>2, <1>4, ConcatProperties
<1>5. /\ a \o b \in Seq(Chars) /\ Len(a \o b) = j
      /\ \A k \in 1 .. j : (a \o b)[k] = IF k <= i THEN a[k] ELSE b[k - i]
  BY <1>n, <1>c, <1>2, <1>4
<1>6. ASSUME NEW k \in 1 .. j PROVE (a \o b)[k] = c[k]
  <2>1. CASE k <= i
    <3>1. k \in 1 .. i
      BY <1>n, <2>1
    <3> QED BY <1>2, <1>3, <1>5, <2>1, <3>1
  <2>2. CASE k > i
    <3>1. (a \o b)[k] = b[k - i]
      BY <1>n, <1>5, <2>2
    <3>2. k - i \in 1 .. j - i /\ i + (k - i) = k
      BY <1>1, <2>2
    <3>3. b[k - i] = l[i + (k - i)]
      BY <1>4, <3>2
    <3>4. b[k - i] = l[k]
      BY <3>2, <3>3
    <3> QED BY <1>3, <3>1, <3>4, Zenon
  <2>3. k <= i \/ k > i
    BY <1>n
  <2> QED BY <2>1, <2>2, <2>3, Zenon
<1>7. a \o b = c
  BY <1>3, <1>5, <1>6, SeqEqual
<1> QED BY <1>7 DEF a, b, c

(* A piece that is all spaces. *)
LEMMA PieceOfSpaces ==
  ASSUME NEW l \in Seq(Chars), NEW i \in 0 .. Len(l), NEW j \in i .. Len(l),
         \A k \in i .. j - 1 : l[k + 1] = Space
  PROVE  SubSeq(l, i + 1, j) = Spaces(j - i)
<1>1. Len(l) \in Nat /\ j - i \in Nat
  OBVIOUS
<1> DEFINE b == SubSeq(l, i + 1, j)
           c == Spaces(j - i)
<1>2. b \in Seq(Chars) /\ Len(b) = j - i /\ \A k \in 1 .. j - i : b[k] = l[i + k]
  BY PieceIs
<1>3. Space \in Chars
  BY DEF Chars
<1>4. c \in Seq(Chars) /\ Len(c) = j - i /\ \A k \in 1 .. j - i : c[k] = Space
  BY <1>1, <1>3 DEF Spaces
<1> HIDE DEF b, c
<1>5. ASSUME NEW k \in 1 .. j - i PROVE b[k] = c[k]
  <2>1. i + k - 1 \in i .. j - 1 /\ (i + k - 1) + 1 = i + k
    BY <1>1
  <2>2. l[i + k] = Space
    BY <2>1
  <2> QED BY <1>2, <1>4, <2>2
<1>6. b = c
  BY <1>2, <1>4, <1>5, SeqEqual
<1> QED BY <1>6 DEF b, c

(* A piece is one of the line's parts. *)
LEMMA PartOf ==
  ASSUME NEW l, NEW i \in 1 .. Len(l) + 1, NEW j \in 0 .. Len(l)
  PROVE  SubSeq(l, i, j) \in Parts(l)
BY DEF Parts

(* parse_input splits a line as a command line means it. *)
LEMMA ParseSplits ==
  ASSUME NEW l, IsLine(l)
  PROVE  /\ Splits(l, parse_input(l).exec, parse_input(l).args)
         /\ parse_input(l).exec \in Parts(l) /\ parse_input(l).args \in Parts(l)
         /\ ArgsOf(l) \in Seq(Chars) /\ Len(ArgsOf(l)) < BUF_SIZE
<1> DEFINE word == SkipSpaces(l, 0)
           gap  == StopAt(l, word, {Nul, NL, Space})
           rest == SkipSpaces(l, gap)
           stop == StopAt(l, rest, {Nul, NL})
           e    == SubSeq(l, word + 1, gap)
           r    == SubSeq(l, rest + 1, stop)
<1>l. l \in Seq(Chars) /\ Len(l) \in Nat /\ Len(l) < BUF_SIZE
  BY ArgsConstants DEF ArgsConstants, IsLine
<1>c. \A k \in 1 .. Len(l) : l[k] # Nul
  <2>1. Nul \notin Chars
    BY ArgsConstants DEF ArgsConstants, Chars, Nul, Space, NL
  <2>2. \A k \in 1 .. Len(l) : l[k] \in Chars
    BY <1>l
  <2> QED BY <2>1, <2>2
<1>1. parse_input(l).exec = e /\ parse_input(l).args = r
  BY DEF parse_input
<1>2. /\ word \in 0 .. Len(l)
      /\ \A j \in 0 .. word - 1 : l[j + 1] = Space
      /\ word < Len(l) => l[word + 1] # Space
  <2>1. 0 \in 0 .. Len(l)
    BY <1>l
  <2> QED BY <2>1, SkipIs
<1> HIDE DEF word
<1>3. /\ gap \in word .. Len(l)
      /\ \A j \in word .. gap - 1 : l[j + 1] \notin {Nul, NL, Space}
      /\ gap < Len(l) => l[gap + 1] \in {Nul, NL, Space}
  BY <1>2, StopIs
<1>4. gap \in 0 .. Len(l)
  BY <1>l, <1>2, <1>3
<1> HIDE DEF gap
<1>5. /\ rest \in gap .. Len(l)
      /\ \A j \in gap .. rest - 1 : l[j + 1] = Space
      /\ rest < Len(l) => l[rest + 1] # Space
  BY <1>4, SkipIs
<1>6. rest \in 0 .. Len(l)
  BY <1>l, <1>4, <1>5
<1> HIDE DEF rest
<1>7. /\ stop \in rest .. Len(l)
      /\ \A j \in rest .. stop - 1 : l[j + 1] \notin {Nul, NL}
      /\ stop < Len(l) => l[stop + 1] \in {Nul, NL}
  BY <1>6, StopIs
<1>8. stop \in 0 .. Len(l)
  BY <1>l, <1>6, <1>7
<1> HIDE DEF stop
<1>n. word \in Nat /\ gap \in Nat /\ rest \in Nat /\ stop \in Nat
  BY <1>l, <1>2, <1>4, <1>6, <1>8
<1>9. /\ e \in Seq(Chars) /\ Len(e) = gap - word /\ \A k \in 1 .. gap - word : e[k] = l[word + k]
      /\ r \in Seq(Chars) /\ Len(r) = stop - rest /\ \A k \in 1 .. stop - rest : r[k] = l[rest + k]
  <2>1. e \in Seq(Chars) /\ Len(e) = gap - word /\ \A k \in 1 .. gap - word : e[k] = l[word + k]
    BY <1>l, <1>2, <1>3, PieceIs, Zenon
  <2>2. r \in Seq(Chars) /\ Len(r) = stop - rest /\ \A k \in 1 .. stop - rest : r[k] = l[rest + k]
    BY <1>l, <1>6, <1>7, PieceIs, Zenon
  <2> QED BY <2>1, <2>2, Zenon
<1> DEFINE text == Spaces(word) \o e \o Spaces(rest - gap) \o r
<1>10. text = SubSeq(l, 1, stop)
  <2>1. Spaces(word) = SubSeq(l, 1, word)
    <3>1. 0 \in 0 .. Len(l) /\ word \in 0 .. Len(l) /\ 0 + 1 = 1 /\ word - 0 = word
      BY <1>l, <1>2, <1>n
    <3> QED BY <1>l, <1>2, <3>1, PieceOfSpaces
  <2>2. SubSeq(l, 1, word) \o e = SubSeq(l, 1, gap)
    BY <1>l, <1>2, <1>3, PiecesMeet
  <2>3. Spaces(rest - gap) = SubSeq(l, gap + 1, rest)
    BY <1>l, <1>4, <1>5, PieceOfSpaces
  <2>4. SubSeq(l, 1, gap) \o SubSeq(l, gap + 1, rest) = SubSeq(l, 1, rest)
    BY <1>l, <1>4, <1>5, PiecesMeet
  <2>5. SubSeq(l, 1, rest) \o r = SubSeq(l, 1, stop)
    BY <1>l, <1>6, <1>7, PiecesMeet
  <2> QED BY <2>1, <2>2, <2>3, <2>4, <2>5, Zenon
<1>11. Len(text) = stop
  <2>1. 0 \in 0 .. Len(l) /\ stop \in 0 .. Len(l) /\ 0 + 1 = 1 /\ stop - 0 = stop
    BY <1>l, <1>8, <1>n
  <2>2. Len(SubSeq(l, 1, stop)) = stop
    BY <1>l, <2>1, PieceIs
  <2> QED BY <1>10, <2>2
<1>12. \A k \in 1 .. Len(e) : e[k] \notin {Nul, NL, Space}
  <2> TAKE k \in 1 .. Len(e)
  <2>1. word + k - 1 \in word .. gap - 1 /\ (word + k - 1) + 1 = word + k /\ k \in 1 .. gap - word
    BY <1>9, <1>n
  <2>2. l[(word + k - 1) + 1] \notin {Nul, NL, Space}
    BY <1>3, <2>1
  <2> QED BY <1>9, <2>1, <2>2
<1>13. \A k \in 1 .. Len(r) : r[k] \notin {Nul, NL}
  <2> TAKE k \in 1 .. Len(r)
  <2>1. rest + k - 1 \in rest .. stop - 1 /\ (rest + k - 1) + 1 = rest + k /\ k \in 1 .. stop - rest
    BY <1>9, <1>n
  <2>2. l[(rest + k - 1) + 1] \notin {Nul, NL}
    BY <1>7, <2>1
  <2> QED BY <1>9, <2>1, <2>2
<1>14. ~ Has(e, Space) /\ ~ Has(e \o r, NL)
  <2> HIDE DEF e, r
  <2>1. /\ e \o r \in Seq(Chars) /\ Len(e \o r) = Len(e) + Len(r)
        /\ \A k \in 1 .. Len(e) + Len(r) : (e \o r)[k] = IF k <= Len(e) THEN e[k] ELSE r[k - Len(e)]
    BY <1>9, ConcatProperties
  <2>2. Len(e) \in Nat /\ Len(r) \in Nat
    BY <1>9
  <2>3. ASSUME NEW k \in 1 .. Len(e) + Len(r) PROVE (e \o r)[k] # NL
    <3>1. CASE k <= Len(e)
      BY <1>12, <2>1, <2>2, <3>1
    <3>2. CASE ~ (k <= Len(e))
      <4>1. k - Len(e) \in 1 .. Len(r)
        BY <2>2, <3>2
      <4> QED BY <1>13, <2>1, <3>2, <4>1
    <3> QED BY <3>1, <3>2
  <2>4. DOMAIN e = 1 .. Len(e) /\ DOMAIN (e \o r) = 1 .. Len(e) + Len(r)
    BY <1>9, <2>1
  <2> QED BY <1>12, <2>3, <2>4 DEF Has
<1>15. r # << >> => r[1] # Space /\ e # << >> /\ rest - gap > 0
  <2> SUFFICES ASSUME r # << >> PROVE r[1] # Space /\ e # << >> /\ rest - gap > 0
    OBVIOUS
  <2>1. rest < stop
    <3>1. Len(r) # 0
      BY <1>9, EmptySeq
    <3> QED BY <1>7, <1>9, <1>n, <3>1
  <2>2. rest < Len(l) /\ 1 \in 1 .. stop - rest /\ rest \in rest .. stop - 1
    BY <1>7, <1>n, <1>l, <2>1
  <2>3. r[1] = l[rest + 1] /\ l[rest + 1] \notin {Nul, NL, Space}
    BY <1>5, <1>7, <1>9, <2>2
  <2>4. gap # rest
    BY <1>3, <2>2, <2>3
  <2>5. word # gap
    <3> SUFFICES ASSUME word = gap PROVE FALSE
      OBVIOUS
    <3>1. gap \in gap .. rest - 1 /\ gap < Len(l)
      BY <1>5, <1>n, <1>l, <2>2, <2>4
    <3>2. l[gap + 1] = Space
      BY <1>5, <3>1
    <3> QED BY <1>2, <3>1, <3>2
  <2>6. e # << >>
    <3>1. Len(e) # 0
      BY <1>3, <1>9, <1>n, <2>5
    <3> HIDE DEF e
    <3> QED BY <3>1
  <2> QED BY <1>5, <1>n, <2>3, <2>4, <2>6
<1>16. stop < Len(l) => l[stop + 1] = NL
  BY <1>7, <1>c, <1>8, <1>l
<1>17. Splits(l, e, r)
  <2>1. rest - gap \in 0 .. Len(l)
    BY <1>5, <1>n, <1>l
  <2> HIDE DEF e, r
  <2>2. /\ Len(text) <= Len(l) /\ text = SubSeq(l, 1, Len(text))
        /\ Len(text) < Len(l) => l[Len(text) + 1] = NL
    BY <1>8, <1>n, <1>l, <1>10, <1>11, <1>16
  <2> QED BY <1>2, <1>14, <1>15, <2>1, <2>2, Zenon DEF Splits
<1>18. e \in Parts(l) /\ r \in Parts(l)
  <2>1. word + 1 \in 1 .. Len(l) + 1 /\ rest + 1 \in 1 .. Len(l) + 1
    BY <1>2, <1>6, <1>l
  <2> QED BY <1>4, <1>8, <2>1, PartOf
<1>19. r \in Seq(Chars) /\ Len(r) < BUF_SIZE
  BY <1>9, <1>l, <1>n, <1>8, ArgsConstants DEF ArgsConstants
<1> HIDE DEF e, r
<1> QED BY <1>1, <1>17, <1>18, <1>19 DEF ArgsOf
-----------------------------------------------------------------------------
(* The processes of the terminals' chains, each in one place. *)
ChainInv ==
  /\ tasks \in [Terms -> Seq(Pids)]
  /\ \A t \in Terms : Len(tasks[t]) >= 1
  /\ \A t, u \in Terms : \A i \in 1 .. Len(tasks[t]), j \in 1 .. Len(tasks[u]) :
       tasks[t][i] = tasks[u][j] => t = u /\ i = j

TypeInv ==
  /\ cmdstring \in [Pids -> Seq(Chars)] /\ args \in [Terms -> Seq(Chars)]
  /\ asked \in [Pids -> Seq(Chars)] /\ \A p \in Pids : IsLine(asked[p])
  /\ command \in [Terms -> Seq(Chars)] /\ \A t \in Terms : IsLine(command[t])
  /\ at \in [Terms -> {"user", "loading", "entered"}]

(* Where the arguments of a command line are: on the stack of the execute   *)
(* that parsed them, then in the PCB of the process it entered.             *)
InFlight == \A t \in Terms :
  /\ at[t] = "loading" => args[t] = ArgsOf(command[t])
  /\ at[t] = "entered" => args[t] = ArgsOf(asked[Current(t)])

Stored == \A t \in Terms : \A i \in 1 .. Len(tasks[t]) :
  i < Len(tasks[t]) \/ at[t] # "entered" => cmdstring[tasks[t][i]] = ArgsOf(asked[tasks[t][i]])

Inv == ChainInv /\ TypeInv /\ InFlight /\ Stored

(* No line, no arguments. *)
LEMMA NoArgs == IsLine(<< >>) /\ ArgsOf(<< >>) = << >>
<1>1. IsLine(<< >>) /\ Len(<< >>) = 0
  BY ArgsConstants DEF ArgsConstants, IsLine
<1>2. ArgsOf(<< >>) \in Parts(<< >>) /\ ArgsOf(<< >>) \in Seq(Chars)
  BY <1>1, ParseSplits DEF ArgsOf
<1>3. PICK i \in 1 .. 1, j \in 0 .. 0 : ArgsOf(<< >>) = SubSeq(<< >>, i, j)
  BY <1>1, <1>2 DEF Parts
<1>4. Len(ArgsOf(<< >>)) = 0
  BY <1>3
<1> QED BY <1>1, <1>2, <1>4, EmptySeq

(* The lines of the model are lines. *)
LEMMA LinesAre == ASSUME NEW l \in Lines PROVE IsLine(l)
<1>1. PICK n \in 0 .. MaxLine : l \in [1 .. n -> Chars]
  BY DEF Lines, Chars
<1>2. n \in Nat
  BY ArgsConstants DEF ArgsConstants
<1>3. l \in Seq(Chars) /\ Len(l) = n
  BY <1>1, <1>2
<1> QED BY <1>1, <1>2, <1>3, ArgsConstants DEF ArgsConstants, IsLine

(* Every terminal starts with its shell, without arguments. *)
LEMMA InvInit == Init => Inv
<1> SUFFICES ASSUME Init PROVE Inv
  OBVIOUS
<1>1. \A t \in Terms : t + 1 \in Pids /\ t \in Nat
  BY ArgsConstants DEF ArgsConstants, Terms, Pids
<1>2. tasks = [t \in Terms |-> <<t + 1>>]
  BY DEF Init
<1>3. tasks \in [Terms -> Seq(Pids)] /\ \A t \in Terms : Len(tasks[t]) = 1 /\ tasks[t][1] = t + 1
  BY <1>1, <1>2
<1>4. ChainInv
  <2>0. 1 .. 1 = {1}
    OBVIOUS
  <2>1. \A t \in Terms : 1 .. Len(tasks[t]) = {1}
    BY <1>3, <2>0, Zenon
  <2>2. \A t, u \in Terms : t + 1 = u + 1 => t = u
    BY <1>1
  <2> QED BY <1>3, <2>1, <2>2 DEF ChainInv
<1>5. /\ cmdstring = [p \in Pids |-> << >>] /\ asked = [p \in Pids |-> << >>]
      /\ args = [t \in Terms |-> << >>] /\ command = [t \in Terms |-> << >>]
      /\ at = [t \in Terms |-> "user"]
  BY DEF Init
<1>6. TypeInv
  <2>1. << >> \in Seq(Chars)
    OBVIOUS
  <2> QED BY <1>5, <2>1, NoArgs, Zenon DEF TypeInv
<1>7. InFlight
  BY <1>5 DEF InFlight
<1>8. Stored
  <2>1. \A t \in Terms : \A i \in 1 .. Len(tasks[t]) : tasks[t][i] \in Pids
    BY <1>3
  <2> QED BY <1>5, <2>1, NoArgs DEF Stored
<1> QED BY <1>4, <1>6, <1>7, <1>8 DEF Inv
-----------------------------------------------------------------------------
(* The running process of a terminal is the last of its chain. *)
LEMMA CurrentIs ==
  ASSUME ChainInv, NEW t \in Terms
  PROVE  /\ tasks[t] \in Seq(Pids) /\ Len(tasks[t]) \in Nat \ {0}
         /\ Len(tasks[t]) \in 1 .. Len(tasks[t])
         /\ Current(t) = tasks[t][Len(tasks[t])] /\ Current(t) \in Pids
         /\ \A i \in 1 .. Len(tasks[t]) : tasks[t][i] \in Pids
BY DEF ChainInv, Current

(* A process is in one place of one chain. *)
LEMMA Apart ==
  ASSUME ChainInv, NEW t \in Terms, NEW u \in Terms,
         NEW i \in 1 .. Len(tasks[t]), NEW j \in 1 .. Len(tasks[u]), tasks[t][i] = tasks[u][j]
  PROVE  t = u /\ i = j
BY DEF ChainInv

(* A free PCB is in no chain, and the lowest is one of them. *)
LEMMA FreeIs ==
  ASSUME ChainInv
  PROVE  /\ \A p \in Free : p \in Pids /\ \A t \in Terms : \A i \in 1 .. Len(tasks[t]) : tasks[t][i] # p
         /\ Free \subseteq Nat
         /\ Free # {} => Min(Free) \in Free
         /\ \A p \in Pids : Min(Free \cup {p}) \in Free \cup {p}
<1>1. Free \subseteq Pids /\ Pids \subseteq Nat
  BY ArgsConstants DEF ArgsConstants, Free, Pids
<1>2. ASSUME NEW p \in Free, NEW t \in Terms, NEW i \in 1 .. Len(tasks[t]) PROVE tasks[t][i] # p
  <2>1. p \notin UNION {{tasks[u][j] : j \in 1 .. Len(tasks[u])} : u \in Terms}
    BY DEF Free
  <2> QED BY <2>1
<1>3. Free # {} => Min(Free) \in Free
  BY <1>1, MinIs
<1>4. ASSUME NEW p \in Pids PROVE Min(Free \cup {p}) \in Free \cup {p}
  <2>1. Free \cup {p} \in SUBSET Nat /\ Free \cup {p} # {}
    BY <1>1
  <2> QED BY <2>1, MinIs
<1> QED BY <1>1, <1>2, <1>3, <1>4

(* execute has parsed a line. *)
LEMMA ExecuteStep ==
  ASSUME Inv, NEW t \in Terms, NEW line \in Lines, Execute(t, line)
  PROVE  Inv'
<1>1. /\ at[t] = "user" /\ args' = [args EXCEPT ![t] = ArgsOf(line)]
      /\ command' = [command EXCEPT ![t] = line] /\ at' = [at EXCEPT ![t] = "loading"]
      /\ UNCHANGED <<tasks, cmdstring, asked>>
  BY DEF Execute, ArgsOf
<1>2. IsLine(line) /\ line \in Seq(Chars) /\ ArgsOf(line) \in Seq(Chars)
  BY LinesAre, ParseSplits DEF IsLine
<1>3. ChainInv'
  BY <1>1 DEF Inv, ChainInv
<1>4. TypeInv'
  <2>1. command' \in [Terms -> Seq(Chars)] /\ args' \in [Terms -> Seq(Chars)]
        /\ at' \in [Terms -> {"user", "loading", "entered"}]
    BY <1>1, <1>2 DEF Inv, TypeInv
  <2>2. \A u \in Terms : command'[u] = IF u = t THEN line ELSE command[u]
    BY <1>1 DEF Inv, TypeInv
  <2>3. \A u \in Terms : IsLine(command'[u])
    BY <1>2, <2>2 DEF Inv, TypeInv
  <2> QED BY <1>1, <2>1, <2>3 DEF Inv, TypeInv
<1>5. /\ \A u \in Terms \ {t} : args'[u] = args[u] /\ command'[u] = command[u] /\ at'[u] = at[u]
      /\ args'[t] = ArgsOf(line) /\ command'[t] = line /\ at'[t] = "loading"
  BY <1>1 DEF Inv, TypeInv
<1>6. InFlight'
  <2> SUFFICES ASSUME NEW u \in Terms
               PROVE  /\ at'[u] = "loading" => args'[u] = ArgsOf(command'[u])
                      /\ at'[u] = "entered" => args'[u] = ArgsOf(asked[Current(u)])
    BY <1>1 DEF InFlight, Current
  <2> QED BY <1>5 DEF Inv, InFlight
<1>7. Stored'
  BY <1>1, <1>5 DEF Inv, Stored
<1> QED BY <1>3, <1>4, <1>6, <1>7 DEF Inv

(* The new process is entered: its PCB was free, so no other's arguments or *)
(* line are touched.                                                        *)
LEMMA SetupStep ==
  ASSUME Inv, NEW t \in Terms, SetupNewProcess(t)
  PROVE  Inv'
<1>1. PICK p : p = Min(Free)
  OBVIOUS
<1>2. /\ at[t] = "loading" /\ Free # {}
      /\ tasks' = [tasks EXCEPT ![t] = Append(tasks[t], p)]
      /\ cmdstring' = [cmdstring EXCEPT ![p] = << >>]
      /\ asked' = [asked EXCEPT ![p] = command[t]]
      /\ command' = [command EXCEPT ![t] = << >>]
      /\ at' = [at EXCEPT ![t] = "entered"] /\ args' = args
  BY <1>1 DEF SetupNewProcess
<1>c. ChainInv /\ TypeInv /\ InFlight /\ Stored
  BY DEF Inv
<1>3. p \in Pids /\ \A u \in Terms : \A i \in 1 .. Len(tasks[u]) : tasks[u][i] # p
  BY <1>1, <1>2, <1>c, FreeIs
<1>4. /\ tasks[t] \in Seq(Pids) /\ Len(tasks[t]) \in Nat \ {0}
      /\ tasks'[t] = Append(tasks[t], p) /\ tasks'[t] \in Seq(Pids)
      /\ \A u \in Terms \ {t} : tasks'[u] = tasks[u]
      /\ tasks' \in [Terms -> Seq(Pids)]
  <2>1. tasks \in [Terms -> Seq(Pids)] /\ tasks[t] \in Seq(Pids) /\ Len(tasks[t]) \in Nat \ {0}
    BY <1>c, CurrentIs DEF ChainInv
  <2>2. Append(tasks[t], p) \in Seq(Pids)
    BY <1>3, <2>1, AppendProperties
  <2> QED BY <1>2, <2>1, <2>2, Zenon
<1>5. PICK n \in Nat \ {0} : n = Len(tasks[t])
  BY <1>4
<1>6. Len(tasks'[t]) = n + 1 /\ tasks'[t][n + 1] = p /\ \A i \in 1 .. n : tasks'[t][i] = tasks[t][i]
  BY <1>3, <1>4, <1>5, AppendProperties
<1>7. ChainInv'
  <2>1. \A u \in Terms : Len(tasks'[u]) >= 1
    BY <1>4, <1>5, <1>6, <1>c DEF ChainInv
  <2>2. ASSUME NEW u \in Terms, NEW i \in 1 .. Len(tasks'[u])
        PROVE  \/ u = t /\ i = n + 1 /\ tasks'[u][i] = p
               \/ i \in 1 .. Len(tasks[u]) /\ tasks'[u][i] = tasks[u][i]
    <3>1. CASE u = t
      <4>1. i \in 1 .. n + 1
        BY <1>6, <3>1
      <4>2. i = n + 1 \/ i \in 1 .. n
        BY <4>1
      <4> QED BY <1>5, <1>6, <3>1, <4>2, Zenon
    <3>2. CASE u # t
      BY <1>4, <3>2
    <3> QED BY <3>1, <3>2
  <2>3. ASSUME NEW u \in Terms, NEW v \in Terms, NEW i \in 1 .. Len(tasks'[u]), NEW j \in 1 .. Len(tasks'[v]),
               tasks'[u][i] = tasks'[v][j]
        PROVE  u = v /\ i = j
    <3>1. CASE u = t /\ i = n + 1 /\ tasks'[u][i] = p
      <4>1. \/ v = t /\ j = n + 1 /\ tasks'[v][j] = p
            \/ j \in 1 .. Len(tasks[v]) /\ tasks'[v][j] = tasks[v][j]
        BY <2>2
      <4>2. j \in 1 .. Len(tasks[v]) => tasks[v][j] # p
        BY <1>3
      <4> QED BY <2>3, <3>1, <4>1, <4>2, Zenon
    <3>2. CASE i \in 1 .. Len(tasks[u]) /\ tasks'[u][i] = tasks[u][i]
      <4>1. tasks[u][i] # p
        BY <1>3, <3>2
      <4>2. j \in 1 .. Len(tasks[v]) /\ tasks'[v][j] = tasks[v][j]
        BY <2>2, <2>3, <3>2, <4>1
      <4>3. tasks[u][i] = tasks[v][j]
        BY <2>3, <3>2, <4>2
      <4> QED BY <1>c, <3>2, <4>2, <4>3, Apart
    <3> QED BY <2>2, <3>1, <3>2
  <2> QED BY <1>4, <2>1, <2>3 DEF ChainInv
<1>8. /\ \A u \in Terms \ {t} : at'[u] = at[u] /\ command'[u] = command[u]
      /\ at'[t] = "entered" /\ command'[t] = << >>
      /\ \A q \in Pids \ {p} : cmdstring'[q] = cmdstring[q] /\ asked'[q] = asked[q]
      /\ asked'[p] = command[t] /\ IsLine(command[t]) /\ command[t] \in Seq(Chars)
  BY <1>2, <1>3, <1>c DEF TypeInv, IsLine
<1>9. TypeInv'
  <2>1. cmdstring' \in [Pids -> Seq(Chars)] /\ asked' \in [Pids -> Seq(Chars)]
        /\ at' \in [Terms -> {"user", "loading", "entered"}]
    BY <1>2, <1>3, <1>8, <1>c DEF TypeInv
  <2>2. command' \in [Terms -> Seq(Chars)] /\ args' \in [Terms -> Seq(Chars)]
    BY <1>2, <1>c DEF TypeInv
  <2>3. \A q \in Pids : IsLine(asked'[q])
    BY <1>8, <1>c DEF TypeInv
  <2>4. \A u \in Terms : IsLine(command'[u])
    BY <1>8, <1>c, NoArgs DEF TypeInv
  <2> QED BY <2>1, <2>2, <2>3, <2>4 DEF TypeInv
<1>10. InFlight'
  <2>1. tasks'[t][Len(tasks'[t])] = p
    BY <1>6
  <2>2. \A u \in Terms \ {t} : tasks'[u][Len(tasks'[u])] = Current(u) /\ Current(u) \in Pids \ {p}
    BY <1>3, <1>4, <1>c, CurrentIs
  <2>3. args[t] = ArgsOf(command[t])
    BY <1>2, <1>c DEF InFlight
  <2>4. ASSUME NEW u \in Terms
        PROVE  /\ at'[u] = "loading" => args'[u] = ArgsOf(command'[u])
               /\ at'[u] = "entered" => args'[u] = ArgsOf(asked'[tasks'[u][Len(tasks'[u])]])
    <3>1. CASE u = t
      BY <1>2, <1>8, <2>1, <2>3, <3>1
    <3>2. CASE u # t
      BY <1>2, <1>8, <1>c, <2>2, <3>2 DEF InFlight
    <3> QED BY <3>1, <3>2
  <2> QED BY <2>4 DEF InFlight, Current
<1>11. Stored'
  <2> SUFFICES ASSUME NEW u \in Terms, NEW i \in 1 .. Len(tasks'[u]), i < Len(tasks'[u]) \/ at'[u] # "entered"
               PROVE  cmdstring'[tasks'[u][i]] = ArgsOf(asked'[tasks'[u][i]])
    BY DEF Stored
  <2>1. i \in 1 .. Len(tasks[u]) /\ tasks'[u][i] = tasks[u][i]
    <3>1. CASE u = t
      <4>1. i \in 1 .. n + 1 /\ i < n + 1
        BY <1>6, <1>8, <3>1
      <4>2. i \in 1 .. n
        BY <4>1
      <4> QED BY <1>5, <1>6, <3>1, <4>2, Zenon
    <3>2. CASE u # t
      BY <1>4, <3>2
    <3> QED BY <3>1, <3>2
  <2>2. tasks[u][i] \in Pids \ {p}
    BY <1>3, <1>c, <2>1, CurrentIs
  <2>3. i < Len(tasks[u]) \/ at[u] # "entered"
    BY <1>2, <1>4, <1>8
  <2>4. cmdstring[tasks[u][i]] = ArgsOf(asked[tasks[u][i]])
    BY <1>c, <2>1, <2>3 DEF Stored
  <2> QED BY <1>8, <2>1, <2>2, <2>4
<1> QED BY <1>7, <1>9, <1>10, <1>11 DEF Inv

(* No PCB is free: execute returns and forgets the arguments. *)
LEMMA FailStep ==
  ASSUME Inv, NEW t \in Terms, SetupFails(t)
  PROVE  Inv'
<1>1. /\ args' = [args EXCEPT ![t] = << >>] /\ command' = [command EXCEPT ![t] = << >>]
      /\ at[t] = "loading" /\ at' = [at EXCEPT ![t] = "user"] /\ UNCHANGED <<tasks, cmdstring, asked>>
  BY DEF SetupFails
<1>c. ChainInv /\ TypeInv /\ InFlight /\ Stored
  BY DEF Inv
<1>2. ChainInv'
  BY <1>1, <1>c DEF ChainInv
<1>3. /\ \A u \in Terms \ {t} : args'[u] = args[u] /\ command'[u] = command[u] /\ at'[u] = at[u]
      /\ args'[t] = << >> /\ command'[t] = << >> /\ at'[t] = "user"
  BY <1>1, <1>c DEF TypeInv
<1>4. TypeInv'
  <2>1. command' \in [Terms -> Seq(Chars)] /\ args' \in [Terms -> Seq(Chars)]
        /\ at' \in [Terms -> {"user", "loading", "entered"}]
    BY <1>1, <1>c DEF TypeInv
  <2>2. \A u \in Terms : IsLine(command'[u])
    BY <1>3, <1>c, NoArgs DEF TypeInv
  <2> QED BY <1>1, <1>c, <2>1, <2>2 DEF TypeInv
<1>5. InFlight'
  <2> SUFFICES ASSUME NEW u \in Terms
               PROVE  /\ at'[u] = "loading" => args'[u] = ArgsOf(command'[u])
                      /\ at'[u] = "entered" => args'[u] = ArgsOf(asked[Current(u)])
    BY <1>1 DEF InFlight, Current
  <2> QED BY <1>3, <1>c DEF InFlight
<1>6. Stored'
  BY <1>1, <1>3, <1>c DEF Stored
<1> QED BY <1>2, <1>4, <1>5, <1>6 DEF Inv

(* The arguments go to the PCB of the process that was entered, the last of *)
(* its chain and in no other.                                               *)
LEMMA StoreStep ==
  ASSUME Inv, NEW t \in Terms, StoreArgs(t)
  PROVE  Inv'
<1>c. ChainInv /\ TypeInv /\ InFlight /\ Stored
  BY DEF Inv
<1>1. PICK p \in Pids : p = Current(t)
  BY <1>c, CurrentIs
<1>2. /\ at[t] = "entered" /\ cmdstring' = [cmdstring EXCEPT ![p] = args[t]]
      /\ args' = [args EXCEPT ![t] = << >>] /\ at' = [at EXCEPT ![t] = "user"]
      /\ UNCHANGED <<tasks, command, asked>>
  BY <1>1 DEF StoreArgs
<1>3. /\ \A u \in Terms \ {t} : args'[u] = args[u] /\ at'[u] = at[u]
      /\ at'[t] = "user"
      /\ \A q \in Pids \ {p} : cmdstring'[q] = cmdstring[q]
      /\ cmdstring'[p] = args[t] /\ args[t] = ArgsOf(asked[p])
  BY <1>1, <1>2, <1>c DEF TypeInv, InFlight
<1>4. TypeInv'
  <2>1. cmdstring' \in [Pids -> Seq(Chars)] /\ args' \in [Terms -> Seq(Chars)]
        /\ at' \in [Terms -> {"user", "loading", "entered"}]
    BY <1>2, <1>c DEF TypeInv
  <2> QED BY <1>2, <1>c, <2>1 DEF TypeInv
<1>5. ChainInv'
  BY <1>2, <1>c DEF ChainInv
<1>6. InFlight'
  <2> SUFFICES ASSUME NEW u \in Terms
               PROVE  /\ at'[u] = "loading" => args'[u] = ArgsOf(command[u])
                      /\ at'[u] = "entered" => args'[u] = ArgsOf(asked[Current(u)])
    BY <1>2 DEF InFlight, Current
  <2> QED BY <1>3, <1>c DEF InFlight
<1>7. Stored'
  <2> SUFFICES ASSUME NEW u \in Terms, NEW i \in 1 .. Len(tasks[u]), i < Len(tasks[u]) \/ at'[u] # "entered"
               PROVE  cmdstring'[tasks[u][i]] = ArgsOf(asked[tasks[u][i]])
    BY <1>2 DEF Stored
  <2>1. tasks[u][i] \in Pids
    BY <1>c, CurrentIs
  <2>2. CASE tasks[u][i] = p
    BY <1>3, <2>2
  <2>3. CASE tasks[u][i] # p
    <3>1. i < Len(tasks[u]) \/ at[u] # "entered"
      <4>1. CASE u = t
        <5>1. i # Len(tasks[t])
          BY <1>1, <1>c, <2>3, <4>1, CurrentIs
        <5>2. Len(tasks[t]) \in Nat
          BY <1>c, CurrentIs
        <5> QED BY <4>1, <5>1, <5>2
      <4>2. CASE u # t
        BY <1>3, <4>2
      <4> QED BY <4>1, <4>2
    <3>2. cmdstring[tasks[u][i]] = ArgsOf(asked[tasks[u][i]])
      BY <1>c, <3>1 DEF Stored
    <3> QED BY <1>3, <2>1, <2>3, <3>2
  <2> QED BY <2>2, <2>3
<1> QED BY <1>4, <1>5, <1>6, <1>7 DEF Inv

(* halt leaves the chain to the caller, whose arguments are where they were. *)
LEMMA HaltStep ==
  ASSUME Inv, NEW t \in Terms, Halt(t)
  PROVE  Inv'
<1>c. ChainInv /\ TypeInv /\ InFlight /\ Stored
  BY DEF Inv
<1>1. PICK p \in Pids : p = Current(t)
  BY <1>c, CurrentIs
<1>2. PICK n \in Nat \ {0} : n = Len(tasks[t])
  BY <1>c, CurrentIs
<1>3. /\ at[t] = "user" /\ n > 1
      /\ tasks' = [tasks EXCEPT ![t] = SubSeq(tasks[t], 1, n - 1)]
      /\ asked' = [asked EXCEPT ![p] = << >>]
      /\ UNCHANGED <<cmdstring, args, at, command>>
  BY <1>1, <1>2 DEF Halt
<1>4. /\ SubSeq(tasks[t], 1, n - 1) \in Seq(Pids) /\ Len(SubSeq(tasks[t], 1, n - 1)) = n - 1
      /\ \A i \in 1 .. n - 1 : SubSeq(tasks[t], 1, n - 1)[i] = tasks[t][i]
  <2>1. tasks[t] \in Seq(Pids)
    BY <1>c, CurrentIs
  <2>2. 1 \in 1 .. Len(tasks[t]) + 1 /\ n - 1 \in 0 .. Len(tasks[t])
    BY <1>2, <1>3
  <2> QED BY <1>2, <1>3, <2>1, <2>2
<1>5. /\ tasks' \in [Terms -> Seq(Pids)]
      /\ \A u \in Terms \ {t} : tasks'[u] = tasks[u]
      /\ Len(tasks'[t]) = n - 1 /\ \A i \in 1 .. n - 1 : tasks'[t][i] = tasks[t][i]
  <2>1. tasks \in [Terms -> Seq(Pids)]
    BY <1>c DEF ChainInv
  <2>2. tasks'[t] = SubSeq(tasks[t], 1, n - 1)
    BY <1>3, <2>1, Zenon
  <2>3. tasks' \in [Terms -> Seq(Pids)] /\ \A u \in Terms \ {t} : tasks'[u] = tasks[u]
    BY <1>3, <1>4, <2>1, Zenon
  <2> QED BY <1>4, <2>2, <2>3
<1>6. ASSUME NEW u \in Terms, NEW i \in 1 .. Len(tasks'[u])
      PROVE  i \in 1 .. Len(tasks[u]) /\ tasks'[u][i] = tasks[u][i] /\ tasks[u][i] \in Pids \ {p}
  <2>1. i \in 1 .. Len(tasks[u]) /\ tasks'[u][i] = tasks[u][i] /\ (u = t => i # n)
    <3>1. CASE u = t
      <4>1. i \in 1 .. n - 1
        BY <1>5, <3>1
      <4>2. i \in 1 .. n /\ i # n
        BY <4>1
      <4> QED BY <1>2, <1>5, <3>1, <4>1, <4>2, Zenon
    <3>2. CASE u # t
      BY <1>5, <3>2
    <3> QED BY <3>1, <3>2
  <2>2. tasks[u][i] # p
    BY <1>1, <1>2, <1>c, <2>1, CurrentIs, Apart
  <2> QED BY <1>c, <2>1, <2>2, CurrentIs
<1>7. ChainInv'
  <2>1. \A u \in Terms : Len(tasks'[u]) >= 1
    BY <1>3, <1>5, <1>c DEF ChainInv
  <2>2. ASSUME NEW u \in Terms, NEW v \in Terms, NEW i \in 1 .. Len(tasks'[u]), NEW j \in 1 .. Len(tasks'[v]),
               tasks'[u][i] = tasks'[v][j]
        PROVE  u = v /\ i = j
    BY <1>6, <1>c, <2>2, Apart
  <2> QED BY <1>5, <2>1, <2>2 DEF ChainInv
<1>8. asked'[p] = << >> /\ \A q \in Pids \ {p} : asked'[q] = asked[q]
  BY <1>3, <1>c DEF TypeInv
<1>9. TypeInv'
  <2>1. asked' \in [Pids -> Seq(Chars)]
    BY <1>3, <1>c DEF TypeInv
  <2>2. \A q \in Pids : IsLine(asked'[q])
    BY <1>8, <1>c, NoArgs DEF TypeInv
  <2> QED BY <1>3, <1>c, <2>1, <2>2 DEF TypeInv
<1>10. InFlight'
  <2>1. ASSUME NEW u \in Terms
        PROVE  /\ at[u] = "loading" => args[u] = ArgsOf(command[u])
               /\ at[u] = "entered" => args[u] = ArgsOf(asked'[tasks'[u][Len(tasks'[u])]])
    <3>1. CASE u = t
      BY <1>3, <3>1
    <3>2. CASE u # t
      <4>1. tasks'[u] = tasks[u] /\ Len(tasks[u]) \in 1 .. Len(tasks[u]) /\ Current(u) = tasks[u][Len(tasks[u])]
        BY <1>5, <1>c, <3>2, CurrentIs
      <4>2. tasks'[u][Len(tasks'[u])] = Current(u) /\ Current(u) \in Pids \ {p}
        BY <1>6, <4>1
      <4> QED BY <1>8, <1>c, <4>2 DEF InFlight
    <3> QED BY <3>1, <3>2
  <2> QED BY <1>3, <2>1 DEF InFlight, Current
<1>11. Stored'
  <2> SUFFICES ASSUME NEW u \in Terms, NEW i \in 1 .. Len(tasks'[u]), i < Len(tasks'[u]) \/ at[u] # "entered"
               PROVE  cmdstring[tasks'[u][i]] = ArgsOf(asked'[tasks'[u][i]])
    BY <1>3 DEF Stored
  <2>1. i < Len(tasks[u]) \/ at[u] # "entered"
    BY <1>3, <1>5
  <2> QED BY <1>6, <1>8, <1>c, <2>1 DEF Stored
<1> QED BY <1>7, <1>9, <1>10, <1>11 DEF Inv

(* A shell that ends is started again in its own PCB or in a free one. *)
LEMMA HaltShellStep ==
  ASSUME Inv, NEW t \in Terms, HaltShell(t)
  PROVE  Inv'
<1>c. ChainInv /\ TypeInv /\ InFlight /\ Stored
  BY DEF Inv
<1>1. PICK p \in Pids : p = Current(t)
  BY <1>c, CurrentIs
<1>2. PICK d : d = Min(Free \cup {p})
  OBVIOUS
<1>3. /\ at[t] = "user" /\ Len(tasks[t]) = 1
      /\ tasks' = [tasks EXCEPT ![t] = <<d>>]
      /\ cmdstring' = [cmdstring EXCEPT ![d] = << >>]
      /\ asked' = [asked EXCEPT ![p] = << >>, ![d] = << >>]
      /\ UNCHANGED <<args, at, command>>
  BY <1>1, <1>2 DEF HaltShell
<1>4. d \in Free \cup {p}
  BY <1>2, <1>c, FreeIs
<1>5. d \in Pids /\ \A u \in Terms \ {t} : \A i \in 1 .. Len(tasks[u]) : tasks[u][i] \in Pids \ {p, d}
  <2>1. \A q \in Free : q \in Pids /\ \A u \in Terms : \A i \in 1 .. Len(tasks[u]) : tasks[u][i] # q
    BY <1>c, FreeIs
  <2>2. d \in Pids
    BY <1>4, <2>1
  <2>3. ASSUME NEW u \in Terms \ {t}, NEW i \in 1 .. Len(tasks[u]) PROVE tasks[u][i] \in Pids \ {p, d}
    <3>1. tasks[u][i] \in Pids
      BY <1>c, CurrentIs
    <3>2. tasks[u][i] # p
      BY <1>1, <1>c, CurrentIs, Apart
    <3> QED BY <1>4, <2>1, <3>1, <3>2
  <2> QED BY <2>2, <2>3
<1>6. /\ tasks' \in [Terms -> Seq(Pids)]
      /\ \A u \in Terms \ {t} : tasks'[u] = tasks[u]
      /\ Len(tasks'[t]) = 1 /\ tasks'[t][1] = d /\ 1 .. Len(tasks'[t]) = {1}
  <2>1. tasks \in [Terms -> Seq(Pids)]
    BY <1>c DEF ChainInv
  <2>2. <<d>> \in Seq(Pids) /\ Len(<<d>>) = 1 /\ <<d>>[1] = d /\ 1 .. 1 = {1}
    BY <1>5
  <2>3. tasks'[t] = <<d>> /\ tasks' \in [Terms -> Seq(Pids)] /\ \A u \in Terms \ {t} : tasks'[u] = tasks[u]
    BY <1>3, <2>1, <2>2, Zenon
  <2> QED BY <2>2, <2>3, Zenon
<1>7. ChainInv'
  <2>1. \A u \in Terms : Len(tasks'[u]) >= 1
    <3> TAKE u \in Terms
    <3>1. CASE u = t
      <4>1. Len(tasks'[u]) = 1
        BY <1>6, <3>1, Zenon
      <4> QED BY <4>1
    <3>2. CASE u # t
      BY <1>6, <1>c, <3>2 DEF ChainInv
    <3> QED BY <3>1, <3>2
  <2>2. ASSUME NEW u \in Terms, NEW v \in Terms, NEW i \in 1 .. Len(tasks'[u]), NEW j \in 1 .. Len(tasks'[v]),
               tasks'[u][i] = tasks'[v][j]
        PROVE  u = v /\ i = j
    <3>1. CASE u = t /\ v = t
      BY <1>6, <3>1
    <3>2. CASE u = t /\ v # t
      <4>1. tasks'[v] = tasks[v] /\ j \in 1 .. Len(tasks[v]) /\ tasks'[u][i] = d
        BY <1>6, <3>2
      <4>2. tasks[v][j] \in Pids \ {p, d}
        BY <1>5, <3>2, <4>1
      <4> QED BY <2>2, <4>1, <4>2
    <3>3. CASE u # t /\ v = t
      <4>1. tasks'[u] = tasks[u] /\ i \in 1 .. Len(tasks[u]) /\ tasks'[v][j] = d
        BY <1>6, <3>3
      <4>2. tasks[u][i] \in Pids \ {p, d}
        BY <1>5, <3>3, <4>1
      <4> QED BY <2>2, <4>1, <4>2
    <3>4. CASE u # t /\ v # t
      <4>1. i \in 1 .. Len(tasks[u]) /\ j \in 1 .. Len(tasks[v]) /\ tasks[u][i] = tasks[v][j]
        BY <1>6, <2>2, <3>4
      <4> QED BY <1>c, <4>1, Apart
    <3> QED BY <3>1, <3>2, <3>3, <3>4
  <2> QED BY <1>6, <2>1, <2>2 DEF ChainInv
<1>8. /\ asked'[p] = << >> /\ asked'[d] = << >> /\ cmdstring'[d] = << >>
      /\ \A q \in Pids \ {p, d} : asked'[q] = asked[q] /\ cmdstring'[q] = cmdstring[q]
  BY <1>3, <1>5, <1>c DEF TypeInv
<1>9. TypeInv'
  <2>0. << >> \in Seq(Chars)
    OBVIOUS
  <2>1. [asked EXCEPT ![p] = << >>] \in [Pids -> Seq(Chars)]
    BY <1>c, <2>0, Zenon DEF TypeInv
  <2>2. asked' = [[asked EXCEPT ![p] = << >>] EXCEPT ![d] = << >>]
    BY <1>3
  <2>3. asked' \in [Pids -> Seq(Chars)] /\ cmdstring' \in [Pids -> Seq(Chars)]
    <3> DEFINE f == [asked EXCEPT ![p] = << >>]
    <3>1. f \in [Pids -> Seq(Chars)] /\ asked' = [f EXCEPT ![d] = << >>]
      BY <2>1, <2>2
    <3> HIDE DEF f
    <3>2. asked' \in [Pids -> Seq(Chars)]
      BY <1>5, <2>0, <3>1, Zenon
    <3>3. cmdstring' \in [Pids -> Seq(Chars)]
      BY <1>3, <1>5, <1>c, <2>0, Zenon DEF TypeInv
    <3> QED BY <3>2, <3>3
  <2>4. \A q \in Pids : IsLine(asked'[q])
    BY <1>8, <1>c, NoArgs DEF TypeInv
  <2> QED BY <1>3, <1>c, <2>3, <2>4 DEF TypeInv
<1>10. InFlight'
  <2>1. ASSUME NEW u \in Terms
        PROVE  /\ at[u] = "loading" => args[u] = ArgsOf(command[u])
               /\ at[u] = "entered" => args[u] = ArgsOf(asked'[tasks'[u][Len(tasks'[u])]])
    <3>1. CASE u = t
      BY <1>3, <3>1
    <3>2. CASE u # t
      <4>1. tasks'[u] = tasks[u] /\ Len(tasks[u]) \in 1 .. Len(tasks[u]) /\ Current(u) = tasks[u][Len(tasks[u])]
        BY <1>6, <1>c, <3>2, CurrentIs
      <4>2. tasks'[u][Len(tasks'[u])] = Current(u) /\ Current(u) \in Pids \ {p, d}
        BY <1>5, <3>2, <4>1
      <4> QED BY <1>8, <1>c, <4>2 DEF InFlight
    <3> QED BY <3>1, <3>2
  <2> QED BY <1>3, <2>1 DEF InFlight, Current
<1>11. Stored'
  <2> SUFFICES ASSUME NEW u \in Terms, NEW i \in 1 .. Len(tasks'[u]), i < Len(tasks'[u]) \/ at[u] # "entered"
               PROVE  cmdstring'[tasks'[u][i]] = ArgsOf(asked'[tasks'[u][i]])
    BY <1>3 DEF Stored
  <2>1. CASE u = t
    BY <1>6, <1>8, <2>1, NoArgs
  <2>2. CASE u # t
    BY <1>5, <1>6, <1>8, <1>c, <2>2 DEF Stored
  <2> QED BY <2>1, <2>2
<1> QED BY <1>7, <1>9, <1>10, <1>11 DEF Inv

(* Every step keeps the arguments with their command line. *)
LEMMA InvStep == ASSUME Inv, [Next]_vars PROVE Inv'
<1>1. ASSUME UNCHANGED <<tasks, cmdstring, args, at, command, asked>> PROVE Inv'
  BY <1>1 DEF Inv, ChainInv, TypeInv, InFlight, Stored, Current
<1>2. ASSUME NEW t \in Terms, NEW n \in Requests, syscall_getargs(t, n) PROVE Inv'
  BY <1>1, <1>2 DEF syscall_getargs
<1>3. CASE UNCHANGED vars
  BY <1>1, <1>3 DEF vars
<1> QED BY <1>2, <1>3, ExecuteStep, SetupStep, FailStep, StoreStep, HaltStep, HaltShellStep DEF Next
-----------------------------------------------------------------------------
(* What getargs copies, given that the PCB holds the arguments of the line. *)
LEMMA GetargsGives ==
  ASSUME Inv, NEW t \in Terms, NEW n \in Requests, syscall_getargs(t, n)
  PROVE  ArgsOfOwnCommand'
<1>c. ChainInv /\ TypeInv /\ InFlight /\ Stored
  BY DEF Inv
<1>1. PICK p \in Pids : p = Current(t)
  BY <1>c, CurrentIs
<1> DEFINE a == cmdstring[p]
           m == IF n < BUF_SIZE THEN n ELSE BUF_SIZE
<1>2. /\ at[t] = "user" /\ asked' = asked
      /\ got'.by = p /\ got'.nbytes = n
      /\ got'.buf = SubSeq(a, 1, IF m < Len(a) THEN m ELSE Len(a))
  BY <1>1 DEF syscall_getargs, strncpy
<1>3. a = ArgsOf(asked[p])
  <2>1. p = tasks[t][Len(tasks[t])] /\ Len(tasks[t]) \in 1 .. Len(tasks[t])
    BY <1>1, <1>c, CurrentIs
  <2> QED BY <1>2, <1>c, <2>1 DEF Stored
<1>4. IsLine(asked[p])
  BY <1>c DEF TypeInv
<1>5. /\ Splits(asked[p], parse_input(asked[p]).exec, a)
      /\ parse_input(asked[p]).exec \in Parts(asked[p]) /\ a \in Parts(asked[p])
      /\ a \in Seq(Chars) /\ Len(a) < BUF_SIZE
  BY <1>3, <1>4, ParseSplits DEF ArgsOf
<1>6. (IF m < Len(a) THEN m ELSE Len(a)) = IF n < Len(a) THEN n ELSE Len(a)
  <2>1. n \in Nat /\ BUF_SIZE \in Nat /\ Len(a) \in Nat
    BY <1>5, ArgsConstants DEF ArgsConstants
  <2> QED BY <1>5, <2>1
<1>7. got'.buf = SubSeq(a, 1, IF got'.nbytes < Len(a) THEN got'.nbytes ELSE Len(a))
  BY <1>2, <1>6
<1> HIDE DEF a
<1> QED BY <1>2, <1>5, <1>7 DEF ArgsOfOwnCommand

(* getargs gives a program the arguments of the line it was executed with,  *)
(* for any number of terminals and PCBs, any lines that fit the buffer and  *)
(* any sizes.                                                               *)
THEOREM OwnArguments == Spec => []ArgsOfOwnCommand
<1>1. Init => ArgsOfOwnCommand
  BY DEF Init, NoCall, ArgsOfOwnCommand
<1>2. Inv /\ ArgsOfOwnCommand /\ [Next]_vars => ArgsOfOwnCommand'
  <2> SUFFICES ASSUME Inv, ArgsOfOwnCommand, [Next]_vars PROVE ArgsOfOwnCommand'
    OBVIOUS
  <2>1. ASSUME got' = NoCall PROVE ArgsOfOwnCommand'
    BY <2>1 DEF NoCall, ArgsOfOwnCommand
  <2>2. CASE UNCHANGED vars
    BY <2>2 DEF vars, ArgsOfOwnCommand
  <2>3. ASSUME NEW t \in Terms, NEW n \in Requests, syscall_getargs(t, n) PROVE ArgsOfOwnCommand'
    BY <2>3, GetargsGives
  <2>4. ASSUME NEW t \in Terms,
               \/ \E line \in Lines : Execute(t, line)
               \/ SetupNewProcess(t) \/ SetupFails(t) \/ StoreArgs(t) \/ Halt(t) \/ HaltShell(t)
        PROVE  got' = NoCall
    BY <2>4 DEF Execute, SetupNewProcess, SetupFails, StoreArgs, Halt, HaltShell
  <2> QED BY <2>1, <2>2, <2>3, <2>4 DEF Next
<1>3. Inv /\ [Next]_vars => Inv'
  BY InvStep
<1> QED BY <1>1, <1>2, <1>3, InvInit, PTL DEF Spec
=============================================================================
