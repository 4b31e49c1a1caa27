----------------------------- MODULE FilesProofs -----------------------------
(***************************************************************************)
(* The files of a process for any disk image, any block size and any sizes  *)
(* a program reads: what read_data copies is the part of the file asked for *)
(* and no other, and the descriptor table is as the program left it.  On    *)
(* top of it, the programs: what cat and ls print, what the error tests     *)
(* find, and that grep stays in its buffer.                                 *)
(***************************************************************************)
EXTENDS Programs, SequenceTheorems, WellFoundedInduction, TLAPS

(* The byte at place k of a file, from 0, and the bytes from a up to b.     *)
ByteAt(node, k)     == <<Inodes[node].datablock_num[k \div ZBIGFS_BLOCK_SIZE + 1], k % ZBIGFS_BLOCK_SIZE>>
Segment(node, a, b) == [i \in 1 .. b - a |-> ByteAt(node, a + i - 1)]
-----------------------------------------------------------------------------
(* Numbers. *)

(* The numbers ordered by <, as a set of pairs. *)
Below == {ss \in Nat \X Nat : ss[1] < ss[2]}

(* A set of natural numbers has a least element: induction, in a form that  *)
(* has no operator to instantiate.                                          *)
LEMMA LeastElement ==
  ASSUME NEW S \in SUBSET Nat, S # {}
  PROVE  \E m \in S : \A k \in S : m <= k
<1>1. IsWellFoundedOn(Below, Nat)
  BY NatLessThanWellFounded DEF OpToRel, Below
<1>2. PICK m \in S : \A k \in S : ~ (<<k, m>> \in Below)
  BY <1>1, WFMin
<1>3. \A k \in S : ~ (k < m)
  BY <1>2 DEF Below
<1>4. QED
  BY <1>2, <1>3

(* Division with remainder. *)
LEMMA DivMod ==
  ASSUME NEW B \in Nat \ {0}, NEW x \in Nat
  PROVE  x = B * (x \div B) + (x % B) /\ x \div B \in Nat /\ x % B \in 0 .. B - 1
  OBVIOUS

(* Quotient and remainder are unique. *)
LEMMA DivModUnique ==
  ASSUME NEW B \in Nat \ {0}, NEW q \in Nat, NEW r \in 0 .. B - 1,
         NEW p \in Nat, NEW s \in 0 .. B - 1, B * q + r = B * p + s
  PROVE  q = p /\ r = s
  OBVIOUS

(* A step that stays inside the block moves only the offset in it. *)
LEMMA WithinBlock ==
  ASSUME NEW B \in Nat \ {0}, NEW x \in Nat, NEW k \in Nat, (x % B) + k < B
  PROVE  (x + k) \div B = x \div B /\ (x + k) % B = (x % B) + k
<1> DEFINE q == x \div B
           r == x % B
           p == (x + k) \div B
           s == (x + k) % B
<1>1. x = B * q + r /\ q \in Nat /\ r \in 0 .. B - 1
  BY DivMod
<1>2. x + k = B * p + s /\ p \in Nat /\ s \in 0 .. B - 1
  <2>1. x + k \in Nat
    OBVIOUS
  <2> HIDE DEF p, s
  <2>2. QED
    BY <2>1, DivMod DEF p, s
<1>3. r + k \in 0 .. B - 1
  BY <1>1
<1> HIDE DEF q, r, p, s
<1>4. B * q \in Nat /\ B * p \in Nat
  BY <1>1, <1>2
<1>5. B * q + (r + k) = B * p + s
  BY <1>1, <1>2, <1>4
<1>6. q = p /\ r + k = s
  BY <1>1, <1>2, <1>3, <1>5, DivModUnique
<1>7. QED
  BY <1>6 DEF q, r, p, s

(* Before the last block the rest of a block ends within the file; in it    *)
(* the two offsets are as far apart as the places.                          *)
LEMMA RestOfBlock ==
  ASSUME NEW B \in Nat \ {0}, NEW x \in Nat, NEW y \in Nat, x <= y
  PROVE  /\ x \div B < y \div B => x + (B - (x % B)) <= y
         /\ ~ (x \div B < y \div B) => (y % B) - (x % B) = y - x
<1> DEFINE q == x \div B
           r == x % B
           p == y \div B
           s == y % B
<1>1. x = B * q + r /\ q \in Nat /\ r \in 0 .. B - 1
  BY DivMod
<1>2. y = B * p + s /\ p \in Nat /\ s \in 0 .. B - 1
  BY DivMod
<1> HIDE DEF q, r, p, s
<1>3. B * q \in Nat /\ B * p \in Nat
  BY <1>1, <1>2
<1>4. q < p => B * q + B <= B * p
  BY <1>1, <1>2
<1>5. p < q => B * p + B <= B * q
  BY <1>1, <1>2
<1>6. q < p => x + (B - r) <= y
  BY <1>1, <1>2, <1>3, <1>4
<1>7. ~ (q < p) => q = p
  BY <1>1, <1>2, <1>3, <1>5
<1>8. q = p => s - r = y - x
  BY <1>1, <1>2, <1>3
<1>9. QED
  BY <1>6, <1>7, <1>8 DEF q, r, p, s
-----------------------------------------------------------------------------
(* Segments of a file. *)

(* A segment is a sequence as long as the places it spans. *)
LEMMA SegmentIsSeq ==
  ASSUME NEW node, NEW a \in Nat, NEW b \in Nat, a <= b
  PROVE  /\ Segment(node, a, b) \in Seq({ByteAt(node, k) : k \in Nat})
         /\ Len(Segment(node, a, b)) = b - a
         /\ \A i \in 1 .. b - a : Segment(node, a, b)[i] = ByteAt(node, a + i - 1)
<1> DEFINE S == {ByteAt(node, k) : k \in Nat}
           g == Segment(node, a, b)
<1>1. b - a \in Nat /\ \A i \in 1 .. b - a : a + i - 1 \in Nat
  OBVIOUS
<1>2. \A i \in 1 .. b - a : ByteAt(node, a + i - 1) \in S
  BY <1>1
<1>3. g \in [1 .. b - a -> S]
  BY <1>2, Zenon DEF Segment
<1>4. \A i \in 1 .. b - a : g[i] = ByteAt(node, a + i - 1)
  BY Zenon DEF Segment
<1> HIDE DEF S, g
<1>5. g \in Seq(S)
  BY <1>1, <1>3, SeqDef
<1>6. DOMAIN g = 1 .. b - a /\ DOMAIN g = 1 .. Len(g) /\ Len(g) \in Nat
  BY <1>3, <1>5, LenProperties
<1>7. Len(g) = b - a
  BY <1>1, <1>6, SMT
<1>8. QED
  BY <1>4, <1>5, <1>7 DEF S, g

(* Two adjacent segments make one. *)
LEMMA SegmentJoin ==
  ASSUME NEW node, NEW a \in Nat, NEW b \in Nat, NEW c \in Nat, a <= b, b <= c
  PROVE  Segment(node, a, b) \o Segment(node, b, c) = Segment(node, a, c)
<1> DEFINE S == {ByteAt(node, k) : k \in Nat}
           s == Segment(node, a, b)
           t == Segment(node, b, c)
           u == Segment(node, a, c)
<1>1. /\ s \in Seq(S) /\ Len(s) = b - a
      /\ \A i \in 1 .. b - a : s[i] = ByteAt(node, a + i - 1)
  BY SegmentIsSeq
<1>2. /\ t \in Seq(S) /\ Len(t) = c - b
      /\ \A i \in 1 .. c - b : t[i] = ByteAt(node, b + i - 1)
  BY SegmentIsSeq
<1>3. /\ u \in Seq(S) /\ Len(u) = c - a
      /\ \A i \in 1 .. c - a : u[i] = ByteAt(node, a + i - 1)
  <2>1. a <= c
    OBVIOUS
  <2>2. QED
    BY <2>1, SegmentIsSeq
<1> HIDE DEF S, s, t, u
<1>4. /\ s \o t \in Seq(S) /\ Len(s \o t) = c - a
      /\ \A i \in 1 .. c - a : (s \o t)[i] = IF i <= b - a THEN s[i] ELSE t[i - (b - a)]
  <2>1. /\ s \o t \in Seq(S) /\ Len(s \o t) = Len(s) + Len(t)
        /\ \A i \in 1 .. Len(s) + Len(t) : (s \o t)[i] = IF i <= Len(s) THEN s[i] ELSE t[i - Len(s)]
    BY <1>1, <1>2, ConcatProperties
  <2>2. (b - a) + (c - b) = c - a
    OBVIOUS
  <2>3. QED
    BY <2>1, <2>2, <1>1, <1>2
<1>5. ASSUME NEW i \in 1 .. c - a PROVE (s \o t)[i] = u[i]
  <2>1. CASE i <= b - a
    <3>1. i \in 1 .. b - a
      BY <2>1
    <3>2. (s \o t)[i] = s[i]
      BY <2>1, <1>4
    <3>3. s[i] = ByteAt(node, a + i - 1) /\ u[i] = ByteAt(node, a + i - 1)
      BY <3>1, <1>1, <1>3, Zenon
    <3>4. QED
      BY <3>2, <3>3, Zenon
  <2>2. CASE i > b - a
    <3> DEFINE j == i - (b - a)
    <3>1. j \in 1 .. c - b /\ b + j - 1 = a + i - 1
      BY <2>2
    <3>2. (s \o t)[i] = t[j]
      BY <2>2, <1>1, <1>2, <1>4
    <3>3. t[j] = ByteAt(node, b + j - 1)
      BY <3>1, <1>2
    <3>4. QED
      BY <3>1, <3>2, <3>3, <1>3
  <2>3. i <= b - a \/ i > b - a
    OBVIOUS
  <2>4. QED
    BY <2>1, <2>2, <2>3, Zenon
<1>6. s \o t = u
  BY <1>3, <1>4, <1>5, SeqEqual
<1>7. QED
  BY <1>6 DEF s, t, u

(* BytesOf, within a block, is the segment that begins at its offset. *)
LEMMA BytesOfSegment ==
  ASSUME NEW node, NEW offset \in Nat, NEW n \in Nat,
         n <= ZBIGFS_BLOCK_SIZE - (offset % ZBIGFS_BLOCK_SIZE)
  PROVE  BytesOf(node, offset, n) = Segment(node, offset, offset + n)
<1> DEFINE B == ZBIGFS_BLOCK_SIZE
<1>0. B \in Nat \ {0} /\ offset % B \in 0 .. B - 1 /\ (offset + n) - offset = n
  BY FilesConstants, DivMod
<1>1. ASSUME NEW i \in 1 .. n
      PROVE  ByteAt(node, offset + i - 1) =
               <<Inodes[node].datablock_num[offset \div B + 1], (offset % B) + i - 1>>
  <2>1. i - 1 \in Nat /\ (offset % B) + (i - 1) < B /\ offset + (i - 1) = offset + i - 1
        /\ (offset % B) + (i - 1) = (offset % B) + i - 1
    BY <1>0
  <2>2. (offset + (i - 1)) \div B = offset \div B /\ (offset + (i - 1)) % B = (offset % B) + (i - 1)
    BY <1>0, <2>1, WithinBlock
  <2>3. QED
    BY <2>1, <2>2 DEF ByteAt
<1>2. QED
  BY <1>0, <1>1 DEF BytesOf, Segment

(* The equation of read_data's loop, for a function h from offsets. *)
CopyStep(h, node, end, offset) ==
  LET rest == ZBIGFS_BLOCK_SIZE - (offset % ZBIGFS_BLOCK_SIZE)
  IN IF offset \div ZBIGFS_BLOCK_SIZE < end \div ZBIGFS_BLOCK_SIZE
     THEN BytesOf(node, offset, rest) \o h[offset + rest]
     ELSE BytesOf(node, offset, (end % ZBIGFS_BLOCK_SIZE) - (offset % ZBIGFS_BLOCK_SIZE))
CopyEquation(h, node, end) == h = [offset \in 0 .. end |-> CopyStep(h, node, end, offset)]

(* One step of the loop, when what it goes on with is the rest of the       *)
(* segment.                                                                 *)
LEMMA CopyStepSegment ==
  ASSUME NEW node, NEW end \in Nat, NEW offset \in 0 .. end, NEW h,
         \A o \in offset + 1 .. end : h[o] = Segment(node, o, end)
  PROVE  CopyStep(h, node, end, offset) = Segment(node, offset, end)
<1> DEFINE B == ZBIGFS_BLOCK_SIZE
           rest == B - (offset % B)
           last_ == (end % B) - (offset % B)
<1>b. B \in Nat \ {0}
  BY FilesConstants
<1>e. offset \in Nat /\ offset <= end
  OBVIOUS
<1>d. ASSUME NEW x \in Nat PROVE x % B \in 0 .. B - 1
  BY <1>b, DivMod
<1>0. /\ B \in Nat \ {0} /\ offset \in Nat /\ offset <= end
      /\ offset % B \in 0 .. B - 1 /\ end % B \in 0 .. B - 1
  BY <1>b, <1>e, <1>d
<1>1. /\ offset \div B < end \div B => offset + rest <= end
      /\ ~ (offset \div B < end \div B) => last_ = end - offset
  BY <1>0, RestOfBlock
<1>2. CASE offset \div B < end \div B
  <2>1. rest \in Nat \ {0} /\ offset + rest \in offset + 1 .. end
    BY <1>0, <1>1, <1>2
  <2>2. BytesOf(node, offset, rest) = Segment(node, offset, offset + rest)
    BY <1>0, <2>1, BytesOfSegment
  <2>3. h[offset + rest] = Segment(node, offset + rest, end)
    BY <2>1
  <2>4. CopyStep(h, node, end, offset) = BytesOf(node, offset, rest) \o h[offset + rest]
    BY <1>2 DEF CopyStep
  <2>5. offset + rest \in Nat /\ offset <= offset + rest /\ offset + rest <= end
    BY <1>0, <2>1
  <2> HIDE DEF rest
  <2>6. QED
    <3>1. Segment(node, offset, offset + rest) \o Segment(node, offset + rest, end) = Segment(node, offset, end)
      <4>1. \A b \in Nat : offset <= b /\ b <= end
              => Segment(node, offset, b) \o Segment(node, b, end) = Segment(node, offset, end)
        BY <1>e, SegmentJoin
      <4>2. QED
        BY <2>5, <4>1
    <3>2. QED
      BY <2>2, <2>3, <2>4, <3>1, Zenon
<1>3. CASE ~ (offset \div B < end \div B)
  <2>1. last_ = end - offset /\ last_ \in Nat /\ last_ <= B - (offset % B) /\ offset + last_ = end
    BY <1>0, <1>1, <1>3
  <2>2. BytesOf(node, offset, last_) = Segment(node, offset, end)
    <3> HIDE DEF last_
    <3>1. QED
      BY <1>0, <2>1, BytesOfSegment
  <2>3. CopyStep(h, node, end, offset) = BytesOf(node, offset, last_)
    BY <1>3 DEF CopyStep
  <2>4. QED
    BY <2>2, <2>3
<1>4. QED
  BY <1>2, <1>3

(* The segments up to end solve the equation. *)
LEMMA SegmentsCopy ==
  ASSUME NEW node, NEW end \in Nat
  PROVE  CopyEquation([offset \in 0 .. end |-> Segment(node, offset, end)], node, end)
<1> DEFINE g == [offset \in 0 .. end |-> Segment(node, offset, end)]
<1>1. ASSUME NEW offset \in 0 .. end
      PROVE  CopyStep(g, node, end, offset) = Segment(node, offset, end)
  <2>1. \A o \in offset + 1 .. end : o \in 0 .. end
    OBVIOUS
  <2>2. \A o \in 0 .. end : g[o] = Segment(node, o, end)
    OBVIOUS
  <2> HIDE DEF g
  <2>3. QED
    BY <2>1, <2>2, CopyStepSegment
<1>2. g = [offset \in 0 .. end |-> CopyStep(g, node, end, offset)]
  BY <1>1, Zenon
<1>3. QED
  BY <1>2 DEF CopyEquation

(* ... and nothing else does: of the places where a solution differs the    *)
(* last cannot exist.                                                       *)
LEMMA CopyUnique ==
  ASSUME NEW node, NEW end \in Nat, NEW h, CopyEquation(h, node, end)
  PROVE  \A offset \in 0 .. end : h[offset] = Segment(node, offset, end)
<1> DEFINE T == {n \in 0 .. end : h[end - n] # Segment(node, end - n, end)}
<1>1. ASSUME T # {} PROVE FALSE
  <2>1. T \in SUBSET Nat
    OBVIOUS
  <2>2. PICK m \in T : \A k \in T : m <= k
    <3> HIDE DEF T
    <3>1. QED
      BY <1>1, <2>1, LeastElement
  <2>3. m \in 0 .. end /\ end - m \in 0 .. end /\ h[end - m] # Segment(node, end - m, end)
    BY <2>2
  <2>4. ASSUME NEW o \in end - m + 1 .. end PROVE h[o] = Segment(node, o, end)
    <3>1. end - o \in 0 .. end /\ end - o < m /\ end - (end - o) = o
      BY <2>3
    <3>2. end - o \notin T
      BY <2>2, <3>1
    <3>3. QED
      BY <3>1, <3>2
  <2>5. h[end - m] = CopyStep(h, node, end, end - m)
    BY <2>3, Zenon DEF CopyEquation
  <2>6. CopyStep(h, node, end, end - m) = Segment(node, end - m, end)
    BY <2>3, <2>4, CopyStepSegment
  <2>7. QED
    BY <2>3, <2>5, <2>6
<1>2. SUFFICES ASSUME NEW offset \in 0 .. end PROVE h[offset] = Segment(node, offset, end)
  OBVIOUS
<1>3. end - offset \in 0 .. end /\ end - (end - offset) = offset
  OBVIOUS
<1>4. QED
  BY <1>1, <1>3

(* read_data's loop copies the segment from the first place up to the end,  *)
(* wherever in a block the two are and however many blocks lie between.     *)
LEMMA CopyBlocksSegment ==
  ASSUME NEW node, NEW end \in Nat, NEW first \in 0 .. end
  PROVE  CopyBlocks(node, first, end) = Segment(node, first, end)
<1> DEFINE copy == CHOOSE h : CopyEquation(h, node, end)
<1>1. CopyBlocks(node, first, end) = copy[first]
  BY DEF CopyBlocks, CopyEquation, CopyStep
<1>2. CopyEquation(copy, node, end)
  BY SegmentsCopy
<1> HIDE DEF copy
<1>3. QED
  BY <1>1, <1>2, CopyUnique
-----------------------------------------------------------------------------
(* The disk image and the table's constants. *)
LEMMA ImageFacts ==
  /\ MAX_FILES \in Nat /\ MAX_FILES > 2 /\ 0 \in Fds /\ 1 \in Fds
  /\ Len(Directory) \in Nat /\ DOMAIN Directory = 1 .. Len(Directory)
  /\ \A i \in DOMAIN Directory :
        /\ Directory[i].ftype \in {"regular", "directory", "special"}
        /\ Directory[i].ftype = "regular" => Directory[i].inode_num \in DOMAIN Inodes
  /\ \A n \in DOMAIN Inodes : Inodes[n].length \in Nat
<1>1. Len(Directory) \in Nat /\ DOMAIN Directory = 1 .. Len(Directory)
  BY FilesConstants, LenProperties DEF IsSeq
<1>2. QED
  BY <1>1, FilesConstants DEF Fds

(* The file's first n bytes are a segment. *)
LEMMA PrefixIsSegment ==
  ASSUME NEW node \in DOMAIN Inodes, NEW n \in 0 .. Inodes[node].length
  PROVE  SubSeq(FileBytes(node), 1, n) = Segment(node, 0, n)
<1> DEFINE l == Inodes[node].length
           S == {ByteAt(node, k) : k \in Nat}
           s == FileBytes(node)
           t == Segment(node, 0, n)
<1>0. 0 \in Nat /\ l \in Nat /\ n \in Nat /\ 0 <= l /\ 0 <= n /\ n <= l /\ n - 0 = n /\ l - 0 = l
  BY ImageFacts
<1>1. s = Segment(node, 0, l)
  <2>1. \A i \in 1 .. l : 0 + i - 1 = i - 1
    BY <1>0
  <2>2. QED
    BY <1>0, <2>1 DEF FileBytes, Segment, ByteAt
<1>2. ASSUME NEW z \in Nat, z = 0, NEW m \in Nat
      PROVE  LET u == Segment(node, z, m) IN
             u \in Seq(S) /\ Len(u) = m /\ \A i \in 1 .. m : u[i] = ByteAt(node, z + i - 1)
  <2>1. z <= m /\ m - z = m
    BY <1>2
  <2> HIDE DEF S
  <2>2. LET u == Segment(node, z, m) IN
        u \in Seq(S) /\ Len(u) = m - z /\ \A i \in 1 .. m - z : u[i] = ByteAt(node, z + i - 1)
    <3>1. /\ Segment(node, z, m) \in Seq({ByteAt(node, k) : k \in Nat})
          /\ Len(Segment(node, z, m)) = m - z
          /\ \A i \in 1 .. m - z : Segment(node, z, m)[i] = ByteAt(node, z + i - 1)
      BY <2>1, SegmentIsSeq
    <3>2. QED
      BY <3>1, Zenon DEF S
  <2>3. QED
    BY <2>1, <2>2
<1>3. /\ s \in Seq(S) /\ Len(s) = l /\ \A i \in 1 .. l : s[i] = ByteAt(node, 0 + i - 1)
      /\ t \in Seq(S) /\ Len(t) = n /\ \A i \in 1 .. n : t[i] = ByteAt(node, 0 + i - 1)
  <2> HIDE DEF S, s
  <2>1. QED
    BY <1>0, <1>1, <1>2
<1> HIDE DEF S, s, t
<1>4. /\ SubSeq(s, 1, n) \in Seq(S) /\ Len(SubSeq(s, 1, n)) = n
      /\ \A i \in 1 .. n : SubSeq(s, 1, n)[i] = s[i]
  BY <1>0, <1>3
<1>5. \A i \in 1 .. n : i \in 1 .. l
  BY <1>0
<1>6. \A i \in 1 .. n : SubSeq(s, 1, n)[i] = t[i]
  BY <1>3, <1>4, <1>5, Zenon
<1>7. SubSeq(s, 1, n) = t
  BY <1>3, <1>4, <1>6, SeqEqual
<1>8. QED
  BY <1>7 DEF s, t

(* read_data returns what lies between the position and the place it        *)
(* reaches, and joined to what was read before it makes the prefix.         *)
LEMMA ReadDataExtends ==
  ASSUME NEW node \in DOMAIN Inodes, NEW pos \in 0 .. Inodes[node].length, NEW count \in Nat
  PROVE  LET got == read_data(node, pos, count) IN
         /\ Len(got) \in Nat /\ pos + Len(got) \in 0 .. Inodes[node].length
         /\ SubSeq(FileBytes(node), 1, pos) \o got = SubSeq(FileBytes(node), 1, pos + Len(got))
<1> DEFINE l == Inodes[node].length
           end == IF pos + count > l THEN l ELSE pos + count
           got == read_data(node, pos, count)
<1>1. /\ l \in Nat /\ pos \in Nat /\ end \in Nat /\ pos <= end /\ end <= l
      /\ end \in 0 .. l /\ pos \in 0 .. end /\ 0 <= pos
  BY ImageFacts
<1>2. got = CopyBlocks(node, pos, end)
  BY <1>1 DEF read_data
<1> HIDE DEF end, got
<1>3. got = Segment(node, pos, end)
  BY <1>1, <1>2, CopyBlocksSegment
<1>4. Len(got) = end - pos
  BY <1>1, <1>3, SegmentIsSeq
<1>5. Len(got) \in Nat /\ pos + Len(got) = end
  BY <1>1, <1>4
<1>6. Segment(node, 0, pos) \o Segment(node, pos, end) = Segment(node, 0, end)
  BY <1>1, SegmentJoin
<1>7. SubSeq(FileBytes(node), 1, pos) \o got = SubSeq(FileBytes(node), 1, end)
  BY <1>1, <1>3, <1>6, PrefixIsSegment
<1>8. QED
  BY <1>1, <1>5, <1>7 DEF got

(* What reads of count bytes hand over of entry i, and of the directory.    *)
Piece(i, count)  == strncpy(fname_field(Directory[i]), count)
Pieces           == {Piece(i, c) : i \in DOMAIN Directory, c \in Nat}
ListingOf(count) == [i \in DOMAIN Directory |-> Piece(i, count)]

(* A read hands over as much of a name as fits, and one of FNAME_MAX_LEN    *)
(* bytes the name.                                                          *)
LEMMA PieceShows ==
  ASSUME NEW i \in DOMAIN Directory, NEW count \in Nat
  PROVE  /\ Len(Piece(i, count)) \in Nat
         /\ Shows(Piece(i, count), Directory[i].fname, count)
         /\ Shows(Piece(i, count), Directory[i].fname, Len(Piece(i, count)))
         /\ count = FNAME_MAX_LEN => Piece(i, count) = Directory[i].fname
<1> DEFINE d == Directory[i]
           w == d.fname
           S == {w[k] : k \in DOMAIN w} \cup {d.ftype}
           q == fname_field(d)
           p == Piece(i, count)
           m == IF count < Len(q) THEN count ELSE Len(q)
<1>1. w \in Seq(S) /\ d.ftype \in S
  <2>1. IsSeq(w)
    BY FilesConstants
  <2> HIDE DEF w, d
  <2>2. w \in Seq({w[k] : k \in DOMAIN w})
    BY <2>1 DEF IsSeq
  <2>3. QED
    BY <2>2, SeqMonotonic
<1>2. Len(w) \in 1 .. FNAME_MAX_LEN /\ FNAME_MAX_LEN \in Nat
  BY FilesConstants
<1>3. q = w \/ (q = Append(w, d.ftype) /\ ~ (Len(w) < FNAME_MAX_LEN))
  BY DEF fname_field
<1>4. p = SubSeq(q, 1, m)
  BY DEF Piece, strncpy
<1> HIDE DEF d, w, S, q, p
<1>5. /\ q \in Seq(S) /\ Len(q) \in Nat /\ Len(w) <= Len(q)
      /\ Len(w) < FNAME_MAX_LEN => Len(q) = Len(w)
      /\ \A k \in 1 .. Len(w) : q[k] = w[k]
  <2>1. CASE q = w
    BY <1>1, <1>2, <2>1
  <2>2. CASE q = Append(w, d.ftype) /\ ~ (Len(w) < FNAME_MAX_LEN)
    BY <1>1, <1>2, <2>2
  <2>3. QED
    BY <1>3, <2>1, <2>2
<1>6. m \in Nat /\ m <= count /\ m <= Len(q) /\ (m = count \/ m = Len(q))
  BY <1>5
<1> HIDE DEF m
<1>7. p \in Seq(S) /\ Len(p) = m /\ \A k \in 1 .. m : p[k] = q[k]
  BY <1>4, <1>5, <1>6
<1>8. Shows(p, w, count)
  <2>1. ASSUME NEW k \in 1 .. Len(w), k <= count PROVE k <= Len(p) /\ p[k] = w[k]
    <3>1. k \in 1 .. m
      BY <1>2, <1>5, <1>6, <2>1
    <3>2. QED
      BY <1>5, <1>7, <3>1
  <2>2. Len(p) <= count /\ (Len(w) < FNAME_MAX_LEN => Len(p) <= Len(w))
    BY <1>2, <1>5, <1>6, <1>7
  <2>3. QED
    BY <2>1, <2>2 DEF Shows
<1>9. Shows(p, w, Len(p))
  <2>1. ASSUME NEW k \in 1 .. Len(w), k <= Len(p) PROVE k <= Len(p) /\ p[k] = w[k]
    BY <1>2, <1>5, <1>6, <1>7, <2>1
  <2>2. Len(p) <= Len(p) /\ (Len(w) < FNAME_MAX_LEN => Len(p) <= Len(w))
    BY <1>2, <1>5, <1>6, <1>7
  <2>3. QED
    BY <2>1, <2>2 DEF Shows
<1>10. ASSUME count = FNAME_MAX_LEN PROVE p = w
  <2>1. m = Len(w)
    <3>1. CASE Len(w) < FNAME_MAX_LEN
      BY <1>2, <1>5, <1>6, <1>10, <3>1 DEF m
    <3>2. CASE Len(w) = FNAME_MAX_LEN
      BY <1>2, <1>5, <1>6, <1>10, <3>2 DEF m
    <3>3. QED
      BY <1>2, <3>1, <3>2
  <2>2. Len(p) = Len(w) /\ \A k \in 1 .. Len(p) : p[k] = w[k]
    BY <1>2, <1>5, <1>7, <2>1
  <2>3. QED
    BY <1>1, <1>7, <2>2, SeqEqual
<1>11. Len(p) \in Nat
  BY <1>6, <1>7
<1>12. QED
  BY <1>8, <1>9, <1>10, <1>11 DEF p, w, d

(* The directory's first n + 1 names are its first n and the next. *)
LEMMA ListingExtends ==
  ASSUME NEW n \in Nat, n < Len(Directory), NEW count \in Nat
  PROVE  Append(SubSeq(ListingOf(count), 1, n), Piece(n + 1, count)) = SubSeq(ListingOf(count), 1, n + 1)
<1> DEFINE S == Pieces
           s == ListingOf(count)
           l == Len(Directory)
<1>1. l \in Nat /\ n + 1 \in 1 .. l /\ DOMAIN Directory = 1 .. l
  BY ImageFacts
<1>2. s \in [1 .. l -> S] /\ s[n + 1] = Piece(n + 1, count)
  BY <1>1 DEF ListingOf, Pieces
<1> HIDE DEF S, s
<1>3. s \in Seq(S)
  BY <1>1, <1>2, SeqDef
<1>4. DOMAIN s = 1 .. l /\ DOMAIN s = 1 .. Len(s) /\ Len(s) \in Nat
  BY <1>2, <1>3, LenProperties
<1>5. Len(s) = l
  BY <1>1, <1>4, SMT
<1>6. Append(SubSeq(s, 1, n), s[n + 1]) = SubSeq(s, 1, n + 1)
  <2>1. s[n + 1] \in S
    BY <1>1, <1>3, <1>5, ElementOfSeq
  <2>2. /\ SubSeq(s, 1, n) \in Seq(S) /\ Len(SubSeq(s, 1, n)) = n
        /\ \A i \in 1 .. n : SubSeq(s, 1, n)[i] = s[i]
    BY <1>1, <1>3, <1>5
  <2>3. /\ SubSeq(s, 1, n + 1) \in Seq(S) /\ Len(SubSeq(s, 1, n + 1)) = n + 1
        /\ \A i \in 1 .. n + 1 : SubSeq(s, 1, n + 1)[i] = s[i]
    BY <1>1, <1>3, <1>5
  <2> DEFINE u == Append(SubSeq(s, 1, n), s[n + 1])
  <2>4. u \in Seq(S) /\ Len(u) = n + 1 /\ u[n + 1] = s[n + 1] /\ \A i \in 1 .. n : u[i] = s[i]
    BY <2>1, <2>2
  <2> HIDE DEF u
  <2>5. \A i \in 1 .. n + 1 : u[i] = SubSeq(s, 1, n + 1)[i]
    <3>1. \A i \in 1 .. n + 1 : i \in 1 .. n \/ i = n + 1
      OBVIOUS
    <3>2. QED
      BY <3>1, <2>3, <2>4, Zenon
  <2>6. u = SubSeq(s, 1, n + 1)
    BY <2>3, <2>4, <2>5, SeqEqual
  <2>7. QED
    BY <2>6 DEF u
<1>7. QED
  BY <1>2, <1>6 DEF s

(* strncmp over FNAME_MAX_LEN - 1 characters compares the names cut there,  *)
(* so it tells any name from one that is shorter.                           *)
LEMMA StrncmpCut ==
  ASSUME NEW s, NEW t, IsSeq(s), IsSeq(t)
  PROVE  strncmp(s, t, FNAME_MAX_LEN - 1) <=> Cut(s) = Cut(t)
<1> DEFINE n == FNAME_MAX_LEN - 1
           S == {s[i] : i \in DOMAIN s} \cup {t[i] : i \in DOMAIN t}
           a == IF Len(s) < FNAME_MAX_LEN THEN Len(s) ELSE n
           b == IF Len(t) < FNAME_MAX_LEN THEN Len(t) ELSE n
           u == Cut(s)
           v == Cut(t)
<1>1. s \in Seq(S) /\ t \in Seq(S)
  BY SeqMonotonic DEF IsSeq
<1>2. u = SubSeq(s, 1, a) /\ v = SubSeq(t, 1, b)
  BY DEF Cut
<1> HIDE DEF S, u, v
<1>3. Len(s) \in Nat /\ Len(t) \in Nat /\ n \in Nat /\ FNAME_MAX_LEN = n + 1
  BY <1>1, FilesConstants, LenProperties
<1>4. /\ a \in 0 .. n /\ a <= Len(s) /\ (a = Len(s) \/ a = n)
      /\ b \in 0 .. n /\ b <= Len(t) /\ (b = Len(t) \/ b = n)
  BY <1>3
<1> HIDE DEF n, a, b
<1>5. /\ u \in Seq(S) /\ Len(u) = a /\ \A i \in 1 .. a : u[i] = s[i]
      /\ v \in Seq(S) /\ Len(v) = b /\ \A i \in 1 .. b : v[i] = t[i]
  BY <1>1, <1>2, <1>3, <1>4
<1>6. ASSUME strncmp(s, t, n) PROVE u = v
  <2>1. \A i \in 1 .. n : (i <= Len(s) \/ i <= Len(t)) => (i <= Len(s) /\ i <= Len(t) /\ s[i] = t[i])
    BY <1>6 DEF strncmp
  <2>2. ~ (a < b) /\ ~ (b < a)
    <3>1. ASSUME a < b PROVE FALSE
      <4>1. a + 1 \in 1 .. n /\ a + 1 <= Len(t) /\ ~ (a + 1 <= Len(s))
        BY <1>3, <1>4, <3>1
      <4>2. QED
        BY <2>1, <4>1
    <3>2. ASSUME b < a PROVE FALSE
      <4>1. b + 1 \in 1 .. n /\ b + 1 <= Len(s) /\ ~ (b + 1 <= Len(t))
        BY <1>3, <1>4, <3>2
      <4>2. QED
        BY <2>1, <4>1
    <3>3. QED
      BY <3>1, <3>2
  <2>3. a = b
    BY <1>4, <2>2
  <2>4. ASSUME NEW i \in 1 .. a PROVE s[i] = t[i]
    <3>1. i \in 1 .. n /\ i <= Len(s)
      BY <1>3, <1>4
    <3>2. QED
      BY <2>1, <3>1
  <2>5. Len(u) = Len(v) /\ \A i \in 1 .. Len(u) : u[i] = v[i]
    BY <1>5, <2>3, <2>4
  <2>6. QED
    BY <1>5, <2>5, SeqEqual
<1>7. ASSUME u = v PROVE strncmp(s, t, n)
  <2>1. a = b /\ \A i \in 1 .. a : s[i] = t[i]
    BY <1>5, <1>7
  <2>2. ASSUME NEW i \in 1 .. n, i <= Len(s) \/ i <= Len(t)
        PROVE  i <= Len(s) /\ i <= Len(t) /\ s[i] = t[i]
    <3>1. i \in 1 .. a
      BY <1>3, <1>4, <2>1, <2>2
    <3>2. QED
      BY <1>3, <1>4, <2>1, <3>1
  <2>3. QED
    BY <2>2 DEF strncmp
<1>8. QED
  BY <1>6, <1>7 DEF n, u, v

(* A name that the comparison sees the end of is equal only to itself. *)
LEMMA StrncmpShort ==
  ASSUME NEW s, NEW t, IsSeq(s), IsSeq(t),
         Len(s) < FNAME_MAX_LEN - 1 \/ Len(t) < FNAME_MAX_LEN - 1,
         strncmp(s, t, FNAME_MAX_LEN - 1)
  PROVE  s = t
<1> DEFINE n == FNAME_MAX_LEN - 1
           S == {s[i] : i \in DOMAIN s} \cup {t[i] : i \in DOMAIN t}
<1>1. s \in Seq(S) /\ t \in Seq(S)
  BY SeqMonotonic DEF IsSeq
<1> HIDE DEF S
<1>2. Len(s) \in Nat /\ Len(t) \in Nat /\ n \in Nat /\ (Len(s) < n \/ Len(t) < n)
  BY <1>1, FilesConstants, LenProperties
<1>3. \A i \in 1 .. n : (i <= Len(s) \/ i <= Len(t)) => (i <= Len(s) /\ i <= Len(t) /\ s[i] = t[i])
  BY DEF strncmp
<1> HIDE DEF n
<1>4. Len(s) = Len(t)
  <2>1. ASSUME Len(s) < Len(t) PROVE FALSE
    <3>1. Len(s) + 1 \in 1 .. n /\ Len(s) + 1 <= Len(t) /\ ~ (Len(s) + 1 <= Len(s))
      BY <1>2, <2>1
    <3>2. QED
      BY <1>3, <3>1
  <2>2. ASSUME Len(t) < Len(s) PROVE FALSE
    <3>1. Len(t) + 1 \in 1 .. n /\ Len(t) + 1 <= Len(s) /\ ~ (Len(t) + 1 <= Len(t))
      BY <1>2, <2>2
    <3>2. QED
      BY <1>3, <3>1
  <2>3. QED
    BY <1>2, <2>1, <2>2
<1>5. \A i \in 1 .. Len(s) : s[i] = t[i]
  BY <1>2, <1>3, <1>4
<1>6. QED
  BY <1>1, <1>4, <1>5, SeqEqual
-----------------------------------------------------------------------------
(* The inductive invariant.                                                 *)

Entries == [used : BOOLEAN, optable : Ops, inode : DOMAIN Inodes \cup {0}, pos : Nat]

(* The table: every descriptor that is in use is stdin, stdout or one the   *)
(* program has open, so that what a closed one holds is never used.         *)
TableInv == /\ TypeOK
            /\ DOMAIN seen = Fds
            /\ owned \subseteq 2 .. MAX_FILES - 1
            /\ \A fd \in Fds : f[fd].used <=> fd \in {0, 1} \cup owned
            /\ f[0].optable = "stdin" /\ f[1].optable = "stdout"

(* An open descriptor e stands inside its file or directory, and what its   *)
(* reads have returned, s, is all that lies before its position.            *)
EntryOK(e, s) ==
  /\ e.optable \in {"regular", "directory", "special"}
  /\ e.optable = "regular" =>
        /\ e.inode \in DOMAIN Inodes /\ e.pos \in 0 .. Inodes[e.inode].length
        /\ s = SubSeq(FileBytes(e.inode), 1, e.pos)
  /\ e.optable = "directory" =>
        /\ e.pos \in 0 .. Len(Directory) /\ s \in Seq(Pieces) /\ Len(s) = e.pos
        /\ \A i \in 1 .. e.pos : Shows(s[i], Directory[i].fname, Len(s[i]))

OwnedInv == \A fd \in owned : EntryOK(f[fd], seen[fd])

(* An open of an existing file has failed only for want of a descriptor.    *)
FullInv == (last.call = "open" /\ last.ret = -1 /\ \E i \in DOMAIN Directory : Directory[i].fname = last.arg)
             => owned = 2 .. MAX_FILES - 1

(* What the last read of a directory has shown. *)
ShownInv ==
  \A fd \in owned : f[fd].optable = "directory" =>
     (last.call = "read" /\ last.arg[1] = fd /\ last.data # <<>> =>
        /\ last.ret = last.arg[2]
        /\ last.data[1] = seen[fd][f[fd].pos]
        /\ Shows(last.data[1], Directory[f[fd].pos].fname, last.arg[2]))

Inv == TableInv /\ OwnedInv /\ FullInv /\ ShownInv

(* The first n of a sequence, none of them. *)
LEMMA EmptyPrefix == \A s : SubSeq(s, 1, 0) = <<>>
  OBVIOUS

(* What a new process finds in its table. *)
LEMMA NewTableFacts ==
  /\ NewTable \in [Fds -> Entries] /\ \A fd \in Fds : NewTable[fd].optable # "regular"
  /\ \A fd \in Fds : NewTable[fd].used <=> fd \in {0, 1}
  /\ NewTable[0].optable = "stdin" /\ NewTable[1].optable = "stdout"
<1>1. \A fd \in Fds : NewTable[fd] \in Entries /\ NewTable[fd].optable # "regular"
  BY DEF NewTable, NoFile, Entries, Ops
<1>2. \A fd \in Fds : NewTable[fd].used <=> fd \in {0, 1}
  BY DEF NewTable, NoFile
<1>3. ASSUME NEW fd \in Fds
      PROVE  (fd = 0 => NewTable[fd].optable = "stdin") /\ (fd = 1 => NewTable[fd].optable = "stdout")
  BY DEF NewTable, NoFile
<1>4. NewTable = [fd \in Fds |-> NewTable[fd]]
  BY DEF NewTable
<1>5. NewTable \in [Fds -> Entries]
  BY <1>1, <1>4, Zenon
<1>6. 0 \in Fds /\ 1 \in Fds
  BY ImageFacts
<1>7. NewTable[0].optable = "stdin" /\ NewTable[1].optable = "stdout"
  <2>1. NewTable[0].optable = "stdin"
    BY <1>3, <1>6
  <2>2. NewTable[1].optable = "stdout"
    BY <1>3, <1>6
  <2>3. QED
    BY <2>1, <2>2
<1>8. QED
  BY <1>1, <1>2, <1>5, <1>7, Zenon

(* A fresh table satisfies the invariant. *)
LEMMA NewTableInv ==
  ASSUME f' = NewTable, seen' = [fd \in Fds |-> <<>>], owned' = {}, last'.call # "open"
  PROVE  Inv'
<1>1. DOMAIN seen' = Fds
  OBVIOUS
<1>2. TableInv'
  BY <1>1, NewTableFacts DEF TableInv, TypeOK, Entries
<1>3. OwnedInv' /\ FullInv' /\ ShownInv'
  BY DEF OwnedInv, FullInv, ShownInv
<1>4. QED
  BY <1>2, <1>3 DEF Inv

(* The same of the first state. *)
LEMMA InvInit == Init => Inv
<1> SUFFICES ASSUME Init PROVE Inv
  OBVIOUS
<1>1. f = NewTable /\ owned = {} /\ DOMAIN seen = Fds /\ last.call = "none"
  BY DEF Init
<1>2. TableInv
  BY <1>1, NewTableFacts DEF TableInv, TypeOK, Entries
<1>3. OwnedInv /\ FullInv /\ ShownInv
  BY <1>1 DEF OwnedInv, FullInv, ShownInv
<1>4. QED
  BY <1>2, <1>3 DEF Inv

(* A call that leaves the table alone, gives nothing and is no failed open. *)
LEMMA InvUnchanged ==
  ASSUME Inv, UNCHANGED <<f, seen, owned>>,
         (last'.call # "open" /\ last'.data = <<>>) \/ UNCHANGED last
  PROVE  Inv'
<1>1. TableInv' /\ OwnedInv'
  BY DEF Inv, TableInv, TypeOK, OwnedInv
<1>2. FullInv' /\ ShownInv'
  BY DEF Inv, FullInv, ShownInv
<1>3. QED
  BY <1>1, <1>2 DEF Inv

(* The entry a name leads to. *)
LEMMA DentryFacts ==
  ASSUME NEW name, Matches(name) # {}
  PROVE  \E i \in DOMAIN Directory : read_dentry_by_name(name) = Directory[i]
<1>1. Matches(name) \in SUBSET Nat
  BY ImageFacts DEF Matches
<1>2. \E i \in Matches(name) : \A j \in Matches(name) : i <= j
  BY <1>1, LeastElement
<1>3. QED
  BY <1>2 DEF read_dentry_by_name, Matches

(* It is the first that matches the name. *)
LEMMA DentryMatches ==
  ASSUME NEW name, Matches(name) # {}
  PROVE  \E i \in Matches(name) : /\ \A j \in Matches(name) : i <= j
                                 /\ read_dentry_by_name(name) = Directory[i]
<1> DEFINE First(i) == \A j \in Matches(name) : i <= j
<1>1. Matches(name) \in SUBSET Nat
  BY ImageFacts DEF Matches
<1>2. \E i \in Matches(name) : First(i)
  BY <1>1, LeastElement
<1>3. read_dentry_by_name(name) = Directory[CHOOSE i \in Matches(name) : First(i)]
  BY DEF read_dentry_by_name
<1> HIDE DEF First
<1>4. /\ (CHOOSE i \in Matches(name) : First(i)) \in Matches(name)
      /\ First(CHOOSE i \in Matches(name) : First(i))
  BY <1>2
<1>5. \E i \in Matches(name) : First(i) /\ read_dentry_by_name(name) = Directory[i]
  BY <1>3, <1>4, Zenon
<1>6. QED
  BY <1>5 DEF First

(* open takes a free descriptor, never 0 or 1, and starts it afresh. *)
LEMMA InvOpen ==
  ASSUME Inv, NEW name, syscall_open(name)
  PROVE  Inv'
<1>0. TableInv /\ OwnedInv /\ f \in [Fds -> Entries] /\ owned \subseteq Fds
  BY DEF Inv, TableInv, TypeOK, Entries
<1>1. PICK fd \in Fds : /\ ~ f[fd].used /\ Matches(name) # {}
                        /\ f' = [f EXCEPT ![fd] = kopen(Take(f[fd]), name)]
                        /\ seen' = [seen EXCEPT ![fd] = <<>>]
                        /\ owned' = owned \cup {fd}
                        /\ last' = [call |-> "open", arg |-> name, ret |-> fd, data |-> <<>>]
  BY DEF syscall_open, get_new_fd, Returns, Gives
<1>2. PICK i \in DOMAIN Directory : read_dentry_by_name(name) = Directory[i]
  BY <1>1, DentryFacts
<1> DEFINE d == Directory[i]
           e == kopen(Take(f[fd]), name)
<1>3. /\ d.ftype \in {"regular", "directory", "special"}
      /\ d.ftype = "regular" => d.inode_num \in DOMAIN Inodes
  BY ImageFacts
<1>4. /\ e \in Entries /\ e.used /\ e.pos = 0 /\ e.optable = d.ftype
      /\ e.optable = "regular" => e.inode \in DOMAIN Inodes
  <2>1. f[fd] \in Entries
    BY <1>0
  <2>2. e = [f[fd] EXCEPT !.used = TRUE, !.pos = 0, !.optable = d.ftype,
                          !.inode = IF d.ftype = "regular" THEN d.inode_num ELSE f[fd].inode]
    BY <1>2, <2>1 DEF kopen, Take, Entries
  <2> DEFINE n == IF d.ftype = "regular" THEN d.inode_num ELSE f[fd].inode
  <2>3. n \in DOMAIN Inodes \cup {0} /\ (d.ftype = "regular" => n \in DOMAIN Inodes)
    BY <1>3, <2>1 DEF Entries
  <2>4. d.ftype \in Ops
    BY <1>3 DEF Ops
  <2> HIDE DEF d, e, n
  <2>5. /\ e = [used |-> TRUE, optable |-> d.ftype, inode |-> n, pos |-> 0]
    BY <2>1, <2>2 DEF Entries, n
  <2>6. QED
    BY <2>3, <2>4, <2>5 DEF Entries
<1>5. fd \notin owned /\ fd # 0 /\ fd # 1 /\ fd \in 2 .. MAX_FILES - 1
  BY <1>0, <1>1, ImageFacts DEF TableInv, Fds
<1> HIDE DEF d, e
<1>6. f'[fd] = e /\ \A j \in Fds : j # fd => f'[j] = f[j]
  BY <1>0, <1>1 DEF e
<1>7. seen'[fd] = <<>> /\ DOMAIN seen' = Fds /\ \A j \in Fds : j # fd => seen'[j] = seen[j]
  BY <1>0, <1>1 DEF TableInv
<1>8. TableInv'
  <2>1. f' \in [Fds -> Entries]
    BY <1>0, <1>1, <1>4 DEF e
  <2>2. \A j \in Fds : f'[j].optable = "regular" => f'[j].inode \in DOMAIN Inodes
    BY <1>0, <1>4, <1>6 DEF TableInv, TypeOK
  <2>3. \A j \in Fds : f'[j].used <=> j \in {0, 1} \cup owned'
    <3>1. f'[fd].used /\ fd \in owned'
      BY <1>1, <1>4, <1>6
    <3>2. \A j \in Fds : j # fd => (f'[j].used <=> j \in {0, 1} \cup owned')
      BY <1>0, <1>1, <1>6 DEF TableInv
    <3>3. QED
      BY <3>1, <3>2
  <2>4. f'[0].optable = "stdin" /\ f'[1].optable = "stdout"
    BY <1>0, <1>5, <1>6, ImageFacts DEF TableInv
  <2>5. owned' \subseteq 2 .. MAX_FILES - 1 /\ owned' \subseteq Fds
    BY <1>0, <1>1, <1>5 DEF TableInv
  <2>6. QED
    BY <1>7, <2>1, <2>2, <2>3, <2>4, <2>5 DEF TableInv, TypeOK, Entries
<1>9. OwnedInv'
  <2>1. EntryOK(f'[fd], seen'[fd])
    BY <1>3, <1>4, <1>6, <1>7, ImageFacts, EmptyPrefix DEF EntryOK
  <2>2. \A j \in owned : EntryOK(f'[j], seen'[j])
    BY <1>0, <1>5, <1>6, <1>7 DEF OwnedInv
  <2>3. QED
    BY <1>1, <2>1, <2>2, Zenon DEF OwnedInv
<1>10. FullInv'
  <2>1. last'.ret # -1
    BY <1>1, <1>5, ImageFacts
  <2>2. QED
    BY <2>1 DEF FullInv
<1>11. ShownInv'
  BY <1>1 DEF ShownInv
<1>12. QED
  BY <1>8, <1>9, <1>10, <1>11 DEF Inv

(* A failed open leaves the table as it was: the descriptor it took is free *)
(* again.                                                                   *)
LEMMA OpenFailsKeeps ==
  ASSUME Inv, NEW name, OpenFails(name)
  PROVE  /\ UNCHANGED <<f, seen, owned>>
         /\ last'.call = "open" /\ last'.arg = name /\ last'.ret = -1
<1>1. CASE UNCHANGED f
  BY <1>1 DEF OpenFails, Returns, Gives
<1>2. CASE \E fd \in Fds : get_new_fd(fd) /\ f' = [f EXCEPT ![fd] = free_fd(fd, Take(f[fd]))]
  <2>1. PICK fd \in Fds : ~ f[fd].used /\ f' = [f EXCEPT ![fd] = free_fd(fd, Take(f[fd]))]
    BY <1>2 DEF get_new_fd
  <2>2. f \in [Fds -> Entries] /\ f[fd] \in Entries
    BY DEF Inv, TableInv, TypeOK, Entries
  <2>3. fd \in Int /\ ~ (fd < 2)
    BY <2>1, ImageFacts DEF Inv, TableInv, Fds
  <2>4. free_fd(fd, Take(f[fd])) = [[f[fd] EXCEPT !.used = TRUE] EXCEPT !.used = FALSE]
    BY <2>3 DEF free_fd, Take
  <2>5. free_fd(fd, Take(f[fd])) = f[fd]
    BY <2>1, <2>2, <2>4 DEF Entries
  <2>6. f' = f
    BY <2>1, <2>2, <2>5
  <2>7. QED
    BY <2>6 DEF OpenFails, Returns, Gives
<1>3. QED
  BY <1>1, <1>2 DEF OpenFails

(* A failed open: of a file that exists only when the table is full. *)
LEMMA InvOpenFails ==
  ASSUME Inv, NEW name, OpenFails(name)
  PROVE  Inv'
<1>0. UNCHANGED <<f, seen, owned>> /\ last'.call = "open" /\ last'.arg = name
  BY OpenFailsKeeps
<1>1. TableInv' /\ OwnedInv' /\ ShownInv'
  BY <1>0 DEF Inv, TableInv, TypeOK, OwnedInv, ShownInv
<1>2. FullInv'
  <2>1. last'.arg = name
    BY <1>0
  <2>2. SUFFICES ASSUME NEW i \in DOMAIN Directory, Directory[i].fname = name
                 PROVE  owned' = 2 .. MAX_FILES - 1
    BY <2>1 DEF FullInv
  <2>3. i \in Matches(name)
    BY <2>2 DEF Matches, strncmp
  <2>4. \A fd \in Fds : f[fd].used
    BY <2>3 DEF OpenFails
  <2>5. Fds \subseteq {0, 1} \cup owned /\ owned \subseteq 2 .. MAX_FILES - 1
    BY <2>4 DEF Inv, TableInv
  <2>6. owned = 2 .. MAX_FILES - 1
    <3>1. \A x \in 2 .. MAX_FILES - 1 : x \in Fds /\ x # 0 /\ x # 1
      BY ImageFacts DEF Fds
    <3>2. QED
      BY <2>5, <3>1, Zenon
  <2>7. QED
    BY <1>0, <2>6
<1>3. QED
  BY <1>1, <1>2 DEF Inv

(* close gives back one descriptor that the program has open. *)
LEMMA InvClose ==
  ASSUME Inv, NEW fd, syscall_close(fd)
  PROVE  Inv'
<1>0. TableInv /\ OwnedInv /\ f \in [Fds -> Entries] /\ owned \subseteq Fds
  BY DEF Inv, TableInv, TypeOK, Entries
<1>1. last'.call = "close" /\ last'.data = <<>>
  BY DEF syscall_close, Returns, Gives
<1>2. CASE UNCHANGED <<f, seen, owned>>
  BY <1>1, <1>2, InvUnchanged
<1>3. CASE /\ get_file(fd) /\ fd >= 2
           /\ f' = [f EXCEPT ![fd] = free_fd(fd, f[fd])]
           /\ owned' = owned \ {fd} /\ seen' = [seen EXCEPT ![fd] = <<>>]
  <2>1. fd \in Fds /\ fd # 0 /\ fd # 1
    BY <1>3 DEF get_file, Fds
  <2>2. /\ f'[fd] = [f[fd] EXCEPT !.used = FALSE] /\ f'[fd] \in Entries /\ ~ f'[fd].used
        /\ f'[fd].optable = f[fd].optable /\ f'[fd].inode = f[fd].inode
        /\ \A j \in Fds : j # fd => f'[j] = f[j] /\ seen'[j] = seen[j]
    <3>1. free_fd(fd, f[fd]) = [f[fd] EXCEPT !.used = FALSE] /\ f[fd] \in Entries
      BY <1>0, <1>3, <2>1 DEF free_fd, Fds
    <3>2. f'[fd] = [f[fd] EXCEPT !.used = FALSE]
      BY <1>0, <1>3, <2>1, <3>1
    <3>3. \A j \in Fds : j # fd => f'[j] = f[j] /\ seen'[j] = seen[j]
      BY <1>0, <1>3 DEF TableInv
    <3>4. QED
      BY <3>1, <3>2, <3>3 DEF Entries
  <2>3. f' \in [Fds -> Entries]
    BY <1>0, <1>3, <2>1, <2>2
  <2>4. \A j \in Fds : f'[j].optable = "regular" => f'[j].inode \in DOMAIN Inodes
    BY <1>0, <2>2 DEF TableInv, TypeOK
  <2>5. \A j \in Fds : f'[j].used <=> j \in {0, 1} \cup owned'
    <3>1. ~ f'[fd].used /\ fd \notin {0, 1} \cup owned'
      BY <1>3, <2>1, <2>2
    <3>2. \A j \in Fds : j # fd => (f'[j].used <=> j \in {0, 1} \cup owned')
      BY <1>0, <1>3, <2>2 DEF TableInv
    <3>3. QED
      BY <3>1, <3>2
  <2>6. f'[0].optable = "stdin" /\ f'[1].optable = "stdout"
    BY <1>0, <2>1, <2>2, ImageFacts DEF TableInv
  <2>7. TableInv'
    BY <1>0, <1>3, <2>3, <2>4, <2>5, <2>6 DEF TableInv, TypeOK, Entries
  <2>8. OwnedInv'
    BY <1>0, <1>3, <2>2 DEF OwnedInv
  <2>9. QED
    BY <1>1, <2>7, <2>8 DEF Inv, FullInv, ShownInv
<1>4. QED
  BY <1>2, <1>3 DEF syscall_close

(* What a read that moves descriptor fd from one entry to another has to    *)
(* keep.                                                                    *)
LEMMA InvMove ==
  ASSUME Inv, NEW fd \in owned, NEW pos \in Nat, NEW s,
         f' = [f EXCEPT ![fd].pos = pos], seen' = [seen EXCEPT ![fd] = s],
         EntryOK([f[fd] EXCEPT !.pos = pos], s),
         UNCHANGED owned, last'.call = "read", ShownInv'
  PROVE  Inv'
<1>0. TableInv /\ OwnedInv /\ f \in [Fds -> Entries] /\ owned \subseteq Fds /\ fd \in Fds
  BY DEF Inv, TableInv, TypeOK, Entries
<1>1. /\ f'[fd] = [f[fd] EXCEPT !.pos = pos] /\ f'[fd] \in Entries
      /\ f'[fd].optable = f[fd].optable /\ f'[fd].inode = f[fd].inode /\ f'[fd].used = f[fd].used
      /\ \A j \in Fds : j # fd => f'[j] = f[j]
  BY <1>0 DEF Entries
<1>2. seen'[fd] = s /\ DOMAIN seen' = Fds /\ \A j \in Fds : j # fd => seen'[j] = seen[j]
  BY <1>0 DEF TableInv
<1>3. TableInv'
  <2>1. f' \in [Fds -> Entries]
    BY <1>0, <1>1
  <2>2. \A j \in Fds : /\ f'[j].optable = f[j].optable /\ f'[j].inode = f[j].inode
                       /\ f'[j].used = f[j].used
    BY <1>1
  <2>3. QED
    BY <1>0, <1>2, <2>1, <2>2, ImageFacts DEF TableInv, TypeOK, Entries
<1>4. OwnedInv'
  <2>1. EntryOK(f'[fd], seen'[fd])
    BY <1>1, <1>2, Zenon
  <2>2. \A j \in owned : j # fd => EntryOK(f'[j], seen'[j])
    BY <1>0, <1>1, <1>2, Zenon DEF OwnedInv
  <2>3. QED
    BY <2>1, <2>2, Zenon DEF OwnedInv
<1>5. QED
  BY <1>3, <1>4 DEF Inv, FullInv

(* A descriptor that get_file finds, other than stdin's and stdout's, is    *)
(* the program's.                                                           *)
LEMMA FileIsOwned ==
  ASSUME Inv, NEW fd, get_file(fd), f[fd].optable \notin {"stdin", "stdout"}
  PROVE  fd \in owned /\ fd \in Fds /\ f[fd] \in Entries /\ EntryOK(f[fd], seen[fd])
  BY DEF Inv, TableInv, TypeOK, OwnedInv, get_file, Entries

(* A read of a regular file. *)
LEMMA InvRegularRead ==
  ASSUME Inv, NEW fd, NEW count \in Nat, regular_read(fd, count)
  PROVE  Inv'
<1> DEFINE e == f[fd]
           got == read_data(e.inode, e.pos, count)
           s == SubSeq(FileBytes(e.inode), 1, e.pos)
<1>1. /\ get_file(fd) /\ e.optable = "regular"
      /\ f' = [f EXCEPT ![fd].pos = f[fd].pos + Len(got)]
      /\ seen' = [seen EXCEPT ![fd] = seen[fd] \o got]
      /\ UNCHANGED owned /\ last'.call = "read" /\ last'.arg[1] = fd
  BY DEF regular_read, Gives
<1>2. fd \in owned /\ fd \in Fds /\ e \in Entries /\ EntryOK(e, seen[fd])
  BY <1>1, FileIsOwned
<1>3. /\ e.inode \in DOMAIN Inodes /\ e.pos \in 0 .. Inodes[e.inode].length /\ e.pos \in Nat
      /\ seen[fd] = s
  BY <1>1, <1>2 DEF EntryOK, Entries
<1>4. /\ Len(got) \in Nat /\ e.pos + Len(got) \in 0 .. Inodes[e.inode].length
      /\ s \o got = SubSeq(FileBytes(e.inode), 1, e.pos + Len(got))
  BY <1>3, ReadDataExtends
<1> HIDE DEF got, s
<1> DEFINE n == e.pos + Len(got)
           x == [e EXCEPT !.pos = n]
<1>5. n \in Nat
  BY <1>3, <1>4
<1>6. x.optable = "regular" /\ x.inode = e.inode /\ x.pos = n
  BY <1>1, <1>2 DEF Entries
<1>7. EntryOK(x, seen[fd] \o got)
  <2> HIDE DEF x, n
  <2>1. x.pos \in 0 .. Inodes[x.inode].length /\ x.inode \in DOMAIN Inodes
    BY <1>3, <1>4, <1>6 DEF n
  <2>2. seen[fd] \o got = SubSeq(FileBytes(x.inode), 1, x.pos)
    BY <1>3, <1>4, <1>6, Zenon DEF n
  <2>3. QED
    BY <1>6, <2>1, <2>2 DEF EntryOK
<1>8. ShownInv'
  <2>1. f'[fd] = x
    BY <1>1, <1>2 DEF Inv, TableInv, TypeOK
  <2>2. f'[fd].optable # "directory"
    BY <1>6, <2>1
  <2>3. QED
    BY <1>1, <2>2 DEF ShownInv
<1>9. QED
  BY <1>1, <1>2, <1>5, <1>7, <1>8, InvMove

(* A read of the directory. *)
LEMMA InvDirectoryRead ==
  ASSUME Inv, NEW fd, NEW count \in Nat, directory_read(fd, count)
  PROVE  Inv'
<1> DEFINE e == f[fd]
           s == seen[fd]
           n == e.pos + 1
           p == Piece(n, count)
<1>1. get_file(fd) /\ e.optable = "directory" /\ UNCHANGED owned /\ last'.call = "read"
  BY DEF directory_read, Gives, Returns
<1>2. fd \in owned /\ fd \in Fds /\ e \in Entries /\ EntryOK(e, s)
  BY <1>1, FileIsOwned
<1>3. /\ e.pos \in 0 .. Len(Directory) /\ e.pos \in Nat /\ s \in Seq(Pieces) /\ Len(s) = e.pos
      /\ \A i \in 1 .. e.pos : Shows(s[i], Directory[i].fname, Len(s[i]))
  BY <1>1, <1>2 DEF EntryOK, Entries
<1>4. CASE UNCHANGED <<f, seen>> /\ last'.data = <<>>
  BY <1>1, <1>4, InvUnchanged
<1>5. CASE /\ e.pos < Len(Directory)
           /\ f' = [f EXCEPT ![fd].pos = f[fd].pos + 1]
           /\ seen' = [seen EXCEPT ![fd] = Append(seen[fd], p)]
           /\ last' = [call |-> "read", arg |-> <<fd, count>>, ret |-> count, data |-> <<p>>]
  <2> DEFINE x == [e EXCEPT !.pos = n]
             w == Append(s, p)
  <2>1. n \in Nat /\ n \in 0 .. Len(Directory) /\ n \in DOMAIN Directory
    BY <1>3, <1>5, ImageFacts
  <2>2. x.optable = "directory" /\ x.pos = n
    BY <1>1, <1>2 DEF Entries
  <2>3. p \in Pieces
    BY <2>1 DEF Pieces
  <2>4. Shows(p, Directory[n].fname, count) /\ Shows(p, Directory[n].fname, Len(p))
    BY <2>1, PieceShows
  <2> HIDE DEF p, x
  <2>5. /\ w \in Seq(Pieces) /\ Len(w) = n /\ w[n] = p
        /\ \A i \in 1 .. e.pos : w[i] = s[i]
    BY <1>3, <2>3
  <2> HIDE DEF w, s
  <2>6. \A i \in 1 .. n : Shows(w[i], Directory[i].fname, Len(w[i]))
    <3>1. \A i \in 1 .. n : i \in 1 .. e.pos \/ i = n
      BY <1>3
    <3>2. QED
      BY <1>3, <2>4, <2>5, <3>1
  <2>7. EntryOK(x, w)
    <3> HIDE DEF n
    <3>1. QED
      BY <2>1, <2>2, <2>5, <2>6 DEF EntryOK
  <2>8. f'[fd] = x /\ seen'[fd] = w
    BY <1>2, <1>5 DEF Inv, TableInv, TypeOK, x, w, s
  <2>9. ShownInv'
    <3>1. last'.arg[1] = fd /\ last'.arg[2] = count /\ last'.ret = count /\ last'.data[1] = p
      BY <1>5
    <3>2. seen'[fd][f'[fd].pos] = p /\ Shows(p, Directory[f'[fd].pos].fname, count)
      BY <2>2, <2>4, <2>5, <2>8
    <3>3. QED
      BY <3>1, <3>2 DEF ShownInv
  <2>10. f' = [f EXCEPT ![fd].pos = n] /\ seen' = [seen EXCEPT ![fd] = w]
    BY <1>5 DEF w, s
  <2>11. QED
    BY <1>1, <1>2, <2>1, <2>7, <2>9, <2>10, InvMove DEF x
<1>6. QED
  BY <1>4, <1>5 DEF directory_read, Piece, Returns, Gives

(* Every call of a program keeps the invariant. *)
LEMMA InvCall == Inv /\ AnyCall => Inv'
<1> SUFFICES ASSUME Inv, AnyCall PROVE Inv'
  OBVIOUS
<1>1. CASE \E name \in Names : open(name)
  BY <1>1, InvOpen, InvOpenFails DEF open
<1>2. CASE \E fd \in AnyFd : syscall_close(fd)
  BY <1>2, InvClose
<1>3. CASE \E fd \in AnyFd : WriteRefused(fd)
  BY <1>3, InvUnchanged DEF WriteRefused, Returns, Gives
<1>4. CASE \E fd \in AnyFd, count \in Counts : read(fd, count)
  <2>1. PICK fd \in AnyFd, count \in Counts : read(fd, count)
    BY <1>4
  <2>2. count \in Nat
    BY FilesConstants
  <2>3. CASE regular_read(fd, count)
    BY <2>2, <2>3, InvRegularRead
  <2>4. CASE directory_read(fd, count)
    BY <2>2, <2>4, InvDirectoryRead
  <2>5. CASE special_read(fd) \/ ReadRefused(fd)
    BY <2>5, InvUnchanged DEF special_read, ReadRefused, Returns, Gives
  <2>6. QED
    BY <2>1, <2>3, <2>4, <2>5 DEF read
<1>5. QED
  BY <1>1, <1>2, <1>3, <1>4 DEF AnyCall

(* Every step keeps it. *)
LEMMA InvNext == Inv /\ [Next]_vars => Inv'
<1>1. Inv /\ Halt => Inv'
  BY NewTableInv DEF Halt, Returns, Gives
<1>2. Inv /\ UNCHANGED vars => Inv'
  BY InvUnchanged DEF vars
<1>3. QED
  BY <1>1, <1>2, InvCall DEF Next

(* The invariant holds in every reachable state. *)
LEMMA InvAlways == Spec => []Inv
  BY InvInit, InvNext, PTL DEF Spec
-----------------------------------------------------------------------------
(* Type correctness: a descriptor of a regular file always names an inode   *)
(* of the disk, whatever is opened, closed and opened again in its place.   *)
THEOREM FilesTypeCorrect == Spec => []TypeOK
<1>1. Inv => TypeOK
  BY DEF Inv, TableInv
<1>2. QED
  BY <1>1, InvAlways, PTL

(* No mix of opens that fail, closes and halts leaks a descriptor, and an   *)
(* open of an existing file fails only when the program has them all.       *)
THEOREM NoFdLeaks == Spec => []FdAccounting
<1>1. Inv => FdAccounting
  <2> SUFFICES ASSUME Inv PROVE FdAccounting
    OBVIOUS
  <2>1. {fd \in Fds : f[fd].used} = {0, 1} \cup owned
    BY ImageFacts DEF Inv, TableInv, TypeOK
  <2>2. QED
    BY <2>1 DEF Inv, FullInv, FdAccounting
<1>2. QED
  BY <1>1, InvAlways, PTL

(* The invariant gives the order of reads. *)
LEMMA InvReads == Inv => ReadsInOrder
<1> SUFFICES ASSUME Inv, NEW fd \in owned
             PROVE  /\ f[fd].optable = "regular" => seen[fd] = SubSeq(FileBytes(f[fd].inode), 1, f[fd].pos)
                    /\ f[fd].optable = "directory" =>
                         /\ Len(seen[fd]) = f[fd].pos /\ f[fd].pos <= Len(Directory)
                         /\ \A i \in 1 .. f[fd].pos : Shows(seen[fd][i], Directory[i].fname, Len(seen[fd][i]))
                         /\ last.call = "read" /\ last.arg[1] = fd /\ last.data # <<>> =>
                              /\ last.ret = last.arg[2]
                              /\ last.data[1] = seen[fd][f[fd].pos]
                              /\ Shows(last.data[1], Directory[f[fd].pos].fname, last.arg[2])
  BY DEF ReadsInOrder
<1>1. EntryOK(f[fd], seen[fd]) /\ ShownInv
  BY DEF Inv, OwnedInv
<1>2. f[fd].optable = "directory" => f[fd].pos <= Len(Directory)
  BY <1>1, ImageFacts DEF EntryOK
<1>3. QED
  BY <1>1, <1>2, Zenon DEF EntryOK, ShownInv

(* However a program cuts its reads, it gets the file from its start        *)
(* without a gap or a repeat, and of the directory each entry in turn, as   *)
(* much of its name as the count allows: for every file length, block size, *)
(* placement of the blocks, length of names and sizes read, 0 included.     *)
THEOREM ReadsAreInOrder == Spec => []ReadsInOrder
<1>1. Inv => ReadsInOrder
  BY InvReads
<1>2. QED
  BY <1>1, InvAlways, PTL

(* open leads to the file it names: for names of any length, in the         *)
(* directory or opened, the descriptor returned is that of the first entry  *)
(* with the same characters as far as names are compared.                   *)
THEOREM OpensByName == Spec => []OpenFindsName
<1>1. ASSUME Inv, NEW name \in Names, syscall_open(name) PROVE OpenFindsName'
  <2>0. f \in [Fds -> Entries] /\ IsSeq(name)
    BY <1>1, FilesConstants DEF Inv, TableInv, TypeOK, Entries
  <2>1. PICK fd \in Fds : /\ Matches(name) # {}
                          /\ f' = [f EXCEPT ![fd] = kopen(Take(f[fd]), name)]
                          /\ owned' = owned \cup {fd}
                          /\ last' = [call |-> "open", arg |-> name, ret |-> fd, data |-> <<>>]
    BY <1>1 DEF syscall_open, Returns, Gives
  <2>2. PICK i \in Matches(name) : /\ \A j \in Matches(name) : i <= j
                                   /\ read_dentry_by_name(name) = Directory[i]
    BY <2>1, DentryMatches
  <2> DEFINE d == Directory[i]
             e == kopen(Take(f[fd]), name)
  <2>3. i \in DOMAIN Directory /\ i \in Nat /\ DOMAIN Directory = 1 .. Len(Directory) /\ Len(Directory) \in Nat
    BY ImageFacts DEF Matches
  <2>4. \A j \in DOMAIN Directory : j \in Matches(name) <=> Cut(Directory[j].fname) = Cut(name)
    <3> SUFFICES ASSUME NEW j \in DOMAIN Directory
                 PROVE  j \in Matches(name) <=> Cut(name) = Cut(Directory[j].fname)
      OBVIOUS
    <3>1. IsSeq(Directory[j].fname)
      BY FilesConstants
    <3>2. QED
      BY <2>0, <3>1, StrncmpCut DEF Matches
  <2>5. \A j \in 1 .. i - 1 : Cut(Directory[j].fname) # Cut(name)
    <3> SUFFICES ASSUME NEW j \in 1 .. i - 1, Cut(Directory[j].fname) = Cut(name) PROVE FALSE
      OBVIOUS
    <3>1. j \in DOMAIN Directory /\ ~ (i <= j)
      BY <2>3
    <3>2. QED
      BY <2>2, <2>4, <3>1
  <2>6. f'[fd] = e /\ f[fd] \in Entries
    BY <2>0, <2>1
  <2>7. Leads(e, d)
    BY <2>2, <2>6 DEF kopen, Take, Entries, Leads
  <2>8. last'.arg = name /\ last'.ret = fd /\ fd \in owned'
    BY <2>1
  <2> HIDE DEF e
  <2>9. /\ Cut(Directory[i].fname) = Cut(last'.arg)
        /\ \A j \in 1 .. i - 1 : Cut(Directory[j].fname) # Cut(last'.arg)
        /\ last'.ret \in owned' /\ Leads(f'[last'.ret], Directory[i])
    BY <2>3, <2>4, <2>5, <2>6, <2>7, <2>8
  <2>10. QED
    BY <2>3, <2>9, Zenon DEF OpenFindsName
<1>2. Init => OpenFindsName
  BY DEF Init, OpenFindsName
<1>3. Inv /\ OpenFindsName /\ [Next]_vars => OpenFindsName'
  <2> SUFFICES ASSUME Inv, OpenFindsName, [Next]_vars PROVE OpenFindsName'
    OBVIOUS
  <2>1. ASSUME NEW name \in Names, syscall_open(name) PROVE OpenFindsName'
    BY <1>1, <2>1
  <2>2. ASSUME NEW name \in Names, OpenFails(name) PROVE OpenFindsName'
    BY <2>2 DEF OpenFails, Returns, Gives, OpenFindsName
  <2>3. ASSUME last'.call # "open" PROVE OpenFindsName'
    BY <2>3 DEF OpenFindsName
  <2>4. ASSUME NEW fd, syscall_close(fd) \/ WriteRefused(fd) PROVE last'.call # "open"
    BY <2>4 DEF syscall_close, WriteRefused, Returns, Gives
  <2>5. ASSUME NEW fd, NEW count, read(fd, count) PROVE last'.call # "open"
    <3>1. regular_read(fd, count) => last'.call = "read"
      BY DEF regular_read, Gives
    <3>2. directory_read(fd, count) => last'.call = "read"
      BY DEF directory_read, Returns, Gives
    <3>3. special_read(fd) \/ ReadRefused(fd) => last'.call = "read"
      BY DEF special_read, ReadRefused, Returns, Gives
    <3>4. QED
      BY <2>5, <3>1, <3>2, <3>3 DEF read
  <2>6. Halt => last'.call # "open"
    BY DEF Halt, Returns, Gives
  <2>7. UNCHANGED vars => OpenFindsName'
    BY DEF vars, OpenFindsName
  <2>8. QED
    BY <2>1, <2>2, <2>3, <2>4, <2>5, <2>6, <2>7 DEF Next, AnyCall, open
<1>4. QED
  BY <1>2, <1>3, InvAlways, PTL DEF Spec
-----------------------------------------------------------------------------
(* The programs. *)

(* A read returns at most what it is asked for, and nothing only at the end *)
(* of the file.                                                             *)
LEMMA ReadDataCount ==
  ASSUME NEW node \in DOMAIN Inodes, NEW pos \in 0 .. Inodes[node].length, NEW count \in Nat
  PROVE  LET got == read_data(node, pos, count) IN
         /\ Len(got) \in 0 .. count
         /\ Len(got) = 0 /\ count > 0 => pos = Inodes[node].length
<1> DEFINE l == Inodes[node].length
           end == IF pos + count > l THEN l ELSE pos + count
           got == read_data(node, pos, count)
<1>1. /\ l \in Nat /\ pos \in Nat /\ end \in Nat /\ pos <= end /\ end <= l
      /\ end \in 0 .. l /\ pos \in 0 .. end /\ end - pos <= count
      /\ end = pos /\ count > 0 => pos = l
  BY ImageFacts
<1>2. got = CopyBlocks(node, pos, end)
  BY <1>1 DEF read_data
<1> HIDE DEF end, got
<1>3. got = Segment(node, pos, end)
  BY <1>1, <1>2, CopyBlocksSegment
<1>4. Len(got) = end - pos
  BY <1>1, <1>3, SegmentIsSeq
<1>5. Len(got) \in 0 .. count /\ (Len(got) = 0 /\ count > 0 => pos = l)
  BY <1>1, <1>4
<1>6. QED
  BY <1>5 DEF got

(* Every open and every read keeps the invariant of the table. *)
LEMMA InvAnyOpen ==
  ASSUME Inv, NEW name, open(name)
  PROVE  Inv'
BY InvOpen, InvOpenFails DEF open

(* The same of a read of any size. *)
LEMMA InvAnyRead ==
  ASSUME Inv, NEW fd, NEW count \in Nat, read(fd, count)
  PROVE  Inv'
<1>1. CASE regular_read(fd, count)
  BY <1>1, InvRegularRead
<1>2. CASE directory_read(fd, count)
  BY <1>2, InvDirectoryRead
<1>3. CASE special_read(fd) \/ ReadRefused(fd)
  BY <1>3, InvUnchanged DEF special_read, ReadRefused, Returns, Gives
<1>4. QED
  BY <1>1, <1>2, <1>3 DEF read

(* What a read returns. *)
LEMMA ReadReturns ==
  ASSUME Inv, NEW fd, NEW count \in Nat, read(fd, count)
  PROVE  last'.ret \in -1 .. count
<1>1. CASE regular_read(fd, count)
  <2> DEFINE e == f[fd]
             got == read_data(e.inode, e.pos, count)
  <2>1. get_file(fd) /\ e.optable = "regular" /\ last'.ret = Len(got)
    BY <1>1 DEF regular_read, Gives
  <2>2. e.inode \in DOMAIN Inodes /\ e.pos \in 0 .. Inodes[e.inode].length
    BY <2>1, FileIsOwned DEF EntryOK
  <2>3. Len(got) \in 0 .. count
    BY <2>2, ReadDataCount
  <2>4. QED
    BY <2>1, <2>3
<1>2. CASE directory_read(fd, count)
  BY <1>2 DEF directory_read, Returns, Gives
<1>3. CASE special_read(fd) \/ ReadRefused(fd)
  BY <1>3 DEF special_read, ReadRefused, Returns, Gives
<1>4. QED
  BY <1>1, <1>2, <1>3 DEF read

(* grep's locals: the rest of a chunk and what is read behind it fit the    *)
(* buffer, and the next line starts within them.                            *)
GrepFields == {"dir", "fname", "fd", "cnt", "last", "start", "data", "junk"}
GrepOK(at, l) == /\ GrepFields \subseteq DOMAIN l
                 /\ at = "read" => l.last \in 0 .. BUFSIZE
                 /\ at = "line" => l.last \in 0 .. BUFSIZE /\ l.start \in 0 .. l.last
GrepInv == prog = "grep" /\ pc # "exit" => GrepOK(pc, local)

(* The end of the line grep looks at is within the chunk. *)
LEMMA LineEnds ==
  ASSUME local.last \in Nat, local.start \in 0 .. local.last
  PROVE  line_end \in local.start .. local.last
<1> DEFINE ends == {k \in local.start .. local.last : k = local.last \/ local.data[k] = NL}
<1>1. local.last \in ends
  OBVIOUS
<1>2. ends \in SUBSET Nat
  OBVIOUS
<1> HIDE DEF ends
<1>3. \E k \in ends : \A m \in ends : k <= m
  BY <1>1, <1>2, LeastElement
<1>4. (CHOOSE k \in ends : \A m \in ends : k <= m) \in ends
  BY <1>3
<1>5. line_end \in ends
  BY <1>4 DEF line_end, ends
<1>6. QED
  BY <1>5 DEF ends

(* A program other than grep does nothing to it. *)
LEMMA NotGrep ==
  ASSUME prog' # "grep" \/ pc' = "exit"
  PROVE  GrepInv'
BY DEF GrepInv

(* grep's steps keep the table and its locals. *)
LEMMA GrepSteps ==
  ASSUME Inv, GrepInv, Grep
  PROVE  Inv' /\ GrepInv' /\ prog = "grep" /\ prog' = "grep" /\ pc' # "main"
<1>0. BUFSIZE \in Nat /\ FNAME_MAX_LEN \in Nat
  BY FilesConstants, ProgramsConstants DEF FilesConstants, ProgramsConstants
<1>1. CASE grep_main
  <2>1. /\ prog = "grep" /\ prog' = "grep" /\ pc = "main" /\ open(DOT)
        /\ local' = [local EXCEPT !.dir = last'.ret]
        /\ pc' \in {"exit", "entry"}
    BY <1>1 DEF grep_main, At, Exit, Goto
  <2>2. GrepOK("entry", local')
    BY <2>1 DEF GrepInv, GrepOK
  <2>3. QED
    BY <2>1, <2>2, InvAnyOpen DEF GrepInv
<1>2. CASE grep_entry
  <2>1. /\ prog = "grep" /\ prog' = "grep" /\ pc = "entry" /\ read(local.dir, FNAME_MAX_LEN)
        /\ local' = local \/ local' = [local EXCEPT !.fname = last'.data[1]]
        /\ pc' \in {"exit", "entry", "open"}
    BY <1>2 DEF grep_entry, At, Exit, Goto
  <2>2. \A at \in {"entry", "open"} : GrepOK(at, local')
    BY <2>1 DEF GrepInv, GrepOK
  <2>3. QED
    BY <1>0, <2>1, <2>2, InvAnyRead DEF GrepInv
<1>3. CASE do_one_file
  <2>1. /\ prog = "grep" /\ prog' = "grep" /\ pc = "open" /\ open(local.fname)
        /\ local' = [local EXCEPT !.fd = last'.ret, !.last = 0]
        /\ pc' \in {"exit", "read"}
    BY <1>3 DEF do_one_file, At, Exit, Goto
  <2>2. GrepOK("read", local')
    BY <1>0, <2>1 DEF GrepInv, GrepOK, GrepFields
  <2>3. QED
    BY <2>1, <2>2, InvAnyOpen DEF GrepInv
<1>4. CASE grep_read
  <2> DEFINE n == local.last
             r == last'.ret
  <2>1. /\ prog = "grep" /\ prog' = "grep" /\ pc = "read" /\ read(local.fd, BUFSIZE - n)
        /\ \E d : local' = [local EXCEPT !.cnt = r, !.last = n + r, !.start = 0, !.data = d]
        /\ \/ r = -1 /\ pc' = "exit"
           \/ r # -1 /\ pc' = "line"
    BY <1>4 DEF grep_read, At, Exit, Goto
  <2>2. GrepFields \subseteq DOMAIN local /\ n \in 0 .. BUFSIZE
    BY <2>1 DEF GrepInv, GrepOK
  <2>3. BUFSIZE - n \in Nat
    BY <1>0, <2>2
  <2>4. r \in -1 .. BUFSIZE - n /\ Inv'
    BY <2>1, <2>3, ReadReturns, InvAnyRead
  <2>5. r # -1 => GrepOK("line", local')
    <3> SUFFICES ASSUME r # -1 PROVE GrepOK("line", local')
      OBVIOUS
    <3>1. GrepFields \subseteq DOMAIN local' /\ local'.last = n + r /\ local'.start = 0
      BY <2>1, <2>2 DEF GrepFields
    <3>2. n + r \in 0 .. BUFSIZE /\ 0 \in 0 .. n + r
      BY <1>0, <2>2, <2>4
    <3>3. QED
      BY <3>1, <3>2 DEF GrepOK
  <2>6. QED
    BY <2>1, <2>4, <2>5 DEF GrepInv
<1>5. CASE grep_carry
  <2>1. /\ prog = "grep" /\ prog' = "grep" /\ pc = "line" /\ pc' = "read" /\ UNCHANGED vars
        /\ \E d : local' = [local EXCEPT !.data = d, !.last = local.last - local.start]
    BY <1>5 DEF grep_carry, At, Goto
  <2>2. GrepFields \subseteq DOMAIN local /\ local.last \in 0 .. BUFSIZE /\ local.start \in 0 .. local.last
    BY <2>1 DEF GrepInv, GrepOK
  <2>3. GrepFields \subseteq DOMAIN local' /\ local'.last = local.last - local.start
    BY <2>1, <2>2 DEF GrepFields
  <2>4. GrepOK("read", local')
    BY <1>0, <2>2, <2>3 DEF GrepOK
  <2>5. QED
    BY <2>1, <2>4, InvUnchanged DEF GrepInv, vars
<1>6. CASE grep_line
  <2> DEFINE more == line_end + 1 < local.last
  <2>1. /\ prog = "grep" /\ prog' = "grep" /\ pc = "line" /\ UNCHANGED vars
        /\ \E d : local' = [local EXCEPT !.data = d, !.start = line_end + 1,
                                         !.last = IF more THEN local.last ELSE 0]
        /\ pc' = IF more THEN "line" ELSE IF local.cnt = 0 THEN "close" ELSE "read"
    BY <1>6 DEF grep_line, At, Goto
  <2>2. GrepFields \subseteq DOMAIN local /\ local.last \in 0 .. BUFSIZE /\ local.start \in 0 .. local.last
    BY <2>1 DEF GrepInv, GrepOK
  <2>3. line_end \in local.start .. local.last
    BY <1>0, <2>2, LineEnds
  <2> HIDE DEF more
  <2>4. /\ GrepFields \subseteq DOMAIN local' /\ local'.start = line_end + 1
        /\ local'.last = IF more THEN local.last ELSE 0
    BY <2>1, <2>2 DEF GrepFields
  <2>5. more => line_end + 1 \in 0 .. local.last
    BY <1>0, <2>2, <2>3 DEF more
  <2>6. GrepOK(pc', local')
    BY <1>0, <2>1, <2>2, <2>4, <2>5 DEF GrepOK
  <2>7. QED
    BY <2>1, <2>6, InvUnchanged DEF GrepInv, vars
<1>7. CASE grep_close
  <2>1. /\ prog = "grep" /\ prog' = "grep" /\ pc = "close" /\ syscall_close(local.fd)
        /\ local' = local /\ pc' \in {"exit", "entry"}
    BY <1>7 DEF grep_close, At, Exit, Goto
  <2>2. GrepOK("entry", local')
    BY <2>1 DEF GrepInv, GrepOK
  <2>3. QED
    BY <2>1, <2>2, InvClose DEF GrepInv
<1>8. QED
  BY <1>1, <1>2, <1>3, <1>4, <1>5, <1>6, <1>7 DEF Grep

(* fish's steps keep the table. *)
LEMMA FishSteps ==
  ASSUME Inv, Fish
  PROVE  Inv' /\ prog = "fish" /\ prog' = "fish" /\ pc' # "main"
<1>1. CASE fish_main
  <2>1. prog = "fish" /\ prog' = "fish" /\ pc' # "main" /\ open(RTC)
    BY <1>1 DEF fish_main, At, Goto
  <2>2. QED
    BY <2>1, InvAnyOpen
<1>2. ASSUME NEW k, NEW from, NEW to, fish_open(k, from, to), to # "main"
      PROVE  Inv' /\ prog = "fish" /\ prog' = "fish" /\ pc' # "main"
  <2>1. prog = "fish" /\ prog' = "fish" /\ pc' # "main" /\ open(arg[k])
    BY <1>2 DEF fish_open, At, Goto, Exit
  <2>2. QED
    BY <2>1, InvAnyOpen
<1>3. ASSUME NEW k, NEW from, NEW to, fish_read(k, from, to), to # "main"
      PROVE  Inv' /\ prog = "fish" /\ prog' = "fish" /\ pc' # "main"
  <2>1. prog = "fish" /\ prog' = "fish" /\ pc' # "main" /\ read(local.fd[k], 1)
    BY <1>3 DEF fish_read, At, Goto
  <2>2. QED
    BY <2>1, InvAnyRead
<1>4. ASSUME NEW k, NEW from, NEW to, fish_wait(k, from, to), to # "main"
      PROVE  Inv' /\ prog = "fish" /\ prog' = "fish" /\ pc' # "main"
  <2>1. prog = "fish" /\ prog' = "fish" /\ pc' # "main" /\ UNCHANGED vars
    BY <1>4 DEF fish_wait, At, Goto
  <2>2. QED
    BY <2>1, InvUnchanged DEF vars
<1>5. CASE fish_cell
  <2>1. prog = "fish" /\ prog' = "fish" /\ pc' # "main" /\ UNCHANGED vars
    BY <1>5 DEF fish_cell, At, Goto
  <2>2. QED
    BY <2>1, InvUnchanged DEF vars
<1>6. ASSUME NEW k, NEW from, fish_row(k, from)
      PROVE  Inv' /\ prog = "fish" /\ prog' = "fish" /\ pc' # "main"
  <2>1. /\ prog = "fish" /\ prog' = "fish" /\ pc' # "main"
        /\ syscall_close(local.fd[k]) \/ UNCHANGED vars
    BY <1>6 DEF fish_row, At, Goto
  <2>2. QED
    BY <2>1, InvClose, InvUnchanged DEF vars
<1>7. CASE fish_show
  <2>1. prog = "fish" /\ prog' = "fish" /\ pc' # "main" /\ syscall_close(local.rtc)
    BY <1>7 DEF fish_show, At, Exit
  <2>2. QED
    BY <2>1, InvClose
<1>8. QED
  BY <1>1, <1>2, <1>3, <1>4, <1>5, <1>6, <1>7 DEF Fish

(* A name that the shell hands over leads to the directory only if it is    *)
(* DOT, which is short enough to be compared to its end.                    *)
ShellNames == Names \cup Range(Listing) \cup {DOT}
LEMMA DotIsDirectory ==
  ASSUME NEW name \in ShellNames, Matches(name) # {}
  PROVE  read_dentry_by_name(name).ftype = "directory" <=> name = DOT
<1>1. PICK i \in Matches(name) : read_dentry_by_name(name) = Directory[i]
  BY DentryMatches
<1>2. i \in DOMAIN Directory /\ strncmp(name, Directory[i].fname, FNAME_MAX_LEN - 1)
  BY DEF Matches
<1>3. IsSeq(name)
  <2>1. CASE name \in Names
    BY <2>1, FilesConstants
  <2>2. CASE \E j \in DOMAIN Directory : name = Directory[j].fname
    BY <2>2, FilesConstants
  <2>3. CASE name \in Range(Listing)
    BY <2>2, <2>3 DEF Range, Listing
  <2>4. CASE name = DOT
    BY <2>2, <2>4, FlatDirectory
  <2>5. QED
    BY <2>1, <2>3, <2>4 DEF ShellNames
<1>4. IsSeq(Directory[i].fname) /\ (Directory[i].ftype = "directory" <=> Directory[i].fname = DOT)
  BY <1>2, FilesConstants, FlatDirectory
<1>5. Len(DOT) < FNAME_MAX_LEN - 1
  BY FilesConstants, ProgramsConstants DEF DOT
<1>6. name = DOT \/ Directory[i].fname = DOT => name = Directory[i].fname
  BY <1>2, <1>3, <1>4, <1>5, StrncmpShort
<1>7. QED
  BY <1>1, <1>4, <1>6

(* What has been printed, o, by reads of count bytes of the entry e that    *)
(* was opened as name, and the whole of it.                                 *)
Printing(e, name, count, o) ==
  /\ Matches(name) # {} /\ e.optable = read_dentry_by_name(name).ftype
  /\ e.optable = "regular" => e.inode = Inode(name) /\ o = SubSeq(FileBytes(e.inode), 1, e.pos)
  /\ e.optable = "directory" => o = SubSeq(ListingOf(count), 1, e.pos)
  /\ e.optable = "special" => o = <<>>
Printed(name, count, o) ==
  LET type == read_dentry_by_name(name).ftype
  IN /\ Matches(name) # {} /\ type \in {"regular", "directory", "special"}
     /\ type = "regular" => o = FileBytes(Inode(name))
     /\ type = "directory" => o = ListingOf(count)
     /\ type = "special" => o = <<>>

(* A whole file and the whole directory. *)
LEMMA WholeFile ==
  ASSUME NEW node \in DOMAIN Inodes
  PROVE  SubSeq(FileBytes(node), 1, Inodes[node].length) = FileBytes(node)
<1> DEFINE l == Inodes[node].length
<1>1. l \in Nat /\ l \in 0 .. l
  BY ImageFacts
<1>2. SubSeq(FileBytes(node), 1, l) = Segment(node, 0, l)
  BY <1>1, PrefixIsSegment
<1>3. \A i \in 1 .. l : 0 + i - 1 = i - 1
  BY <1>1
<1>4. FileBytes(node) = Segment(node, 0, l)
  BY <1>1, <1>3 DEF FileBytes, Segment, ByteAt
<1>5. QED
  BY <1>2, <1>4

(* The same of the directory. *)
LEMMA WholeListing ==
  ASSUME NEW count \in Nat
  PROVE  /\ SubSeq(ListingOf(count), 1, Len(Directory)) = ListingOf(count)
         /\ ListingOf(count) \in Seq(Pieces) /\ Len(ListingOf(count)) = Len(Directory)
<1> DEFINE l == Len(Directory)
           s == ListingOf(count)
<1>1. l \in Nat /\ DOMAIN Directory = 1 .. l
  BY ImageFacts
<1>2. s \in [1 .. l -> Pieces]
  BY <1>1 DEF ListingOf, Pieces
<1> HIDE DEF s
<1>3. s \in Seq(Pieces) /\ Len(s) = l
  BY <1>1, <1>2
<1>4. SubSeq(s, 1, l) = s
  BY <1>1, <1>3
<1>5. QED
  BY <1>3, <1>4 DEF s

(* What cat and ls make of it: every entry, as much of its name as fits, in *)
(* full when FNAME_MAX_LEN bytes are read.                                  *)
LEMMA ListingComplete ==
  /\ \A count \in Nat : Lists(ListingOf(count), count)
  /\ ListingOf(FNAME_MAX_LEN) = Listing
<1>1. ASSUME NEW count \in Nat PROVE Lists(ListingOf(count), count)
  <2>1. \A i \in DOMAIN Directory : ListingOf(count)[i] = Piece(i, count)
    BY DEF ListingOf
  <2>2. \A i \in DOMAIN Directory : Shows(Piece(i, count), Directory[i].fname, count)
    BY PieceShows
  <2>3. QED
    BY <2>1, <2>2, WholeListing DEF Lists
<1>2. FNAME_MAX_LEN \in Nat
  BY FilesConstants
<1>3. \A i \in DOMAIN Directory : Piece(i, FNAME_MAX_LEN) = Directory[i].fname
  BY <1>2, PieceShows
<1>4. ListingOf(FNAME_MAX_LEN) = Listing
  BY <1>3, Zenon DEF ListingOf, Listing
<1>5. QED
  BY <1>1, <1>4

(* What open gives. *)
LEMMA OpenGives ==
  ASSUME Inv, NEW name, open(name), last'.ret # -1, NEW count
  PROVE  last'.ret \in owned' /\ Printing(f'[last'.ret], name, count, <<>>)
<1>0. f \in [Fds -> Entries]
  BY DEF Inv, TableInv, TypeOK, Entries
<1>1. syscall_open(name)
  BY DEF open, OpenFails, Returns, Gives
<1>2. PICK fd \in Fds : /\ Matches(name) # {}
                        /\ f' = [f EXCEPT ![fd] = kopen(Take(f[fd]), name)]
                        /\ owned' = owned \cup {fd}
                        /\ last' = [call |-> "open", arg |-> name, ret |-> fd, data |-> <<>>]
  BY <1>1 DEF syscall_open, Returns, Gives
<1> DEFINE d == read_dentry_by_name(name)
           e == kopen(Take(f[fd]), name)
<1>3. f'[fd] = e /\ f[fd] \in Entries
  BY <1>0, <1>2
<1>4. e.pos = 0 /\ e.optable = d.ftype /\ (d.ftype = "regular" => e.inode = d.inode_num)
  BY <1>3 DEF kopen, Take, Entries
<1> HIDE DEF e
<1>5. SubSeq(FileBytes(e.inode), 1, e.pos) = <<>> /\ SubSeq(ListingOf(count), 1, e.pos) = <<>>
  BY <1>4, EmptyPrefix
<1>6. Printing(e, name, count, <<>>)
  BY <1>2, <1>4, <1>5 DEF Printing, Inode
<1>7. last'.ret = fd
  BY <1>2
<1>8. QED
  BY <1>2, <1>3, <1>6, <1>7

(* What a read of an open file gives: more of it, or the end. *)
LEMMA ReadGives ==
  ASSUME Inv, NEW fd \in owned, NEW count \in Nat \ {0}, read(fd, count),
         NEW name, NEW o, Printing(f[fd], name, count, o)
  PROVE  /\ last'.ret # -1 /\ fd \in owned'
         /\ last'.ret = 0 => Printed(name, count, o)
         /\ last'.ret # 0 => Printing(f'[fd], name, count, o \o last'.data)
<1> DEFINE e == f[fd]
<1>0. /\ fd \in Fds /\ e \in Entries /\ e.used /\ EntryOK(e, seen[fd]) /\ f \in [Fds -> Entries]
      /\ owned \subseteq Fds
  BY DEF Inv, TableInv, TypeOK, OwnedInv, Entries
<1>1. /\ e.optable \in {"regular", "directory", "special"} /\ get_file(fd)
      /\ e.optable = "regular" => e.inode \in DOMAIN Inodes /\ e.pos \in 0 .. Inodes[e.inode].length
      /\ e.optable = "directory" => e.pos \in 0 .. Len(Directory)
  BY <1>0 DEF EntryOK, get_file
<1>2. CASE regular_read(fd, count)
  <2> DEFINE got == read_data(e.inode, e.pos, count)
             n == e.pos + Len(got)
  <2>1. /\ e.optable = "regular" /\ owned' = owned /\ f' = [f EXCEPT ![fd].pos = f[fd].pos + Len(got)]
        /\ last'.ret = Len(got) /\ last'.data = got
    BY <1>2 DEF regular_read, Gives
  <2>2. /\ e.inode \in DOMAIN Inodes /\ e.pos \in 0 .. Inodes[e.inode].length
        /\ e.inode = Inode(name) /\ o = SubSeq(FileBytes(e.inode), 1, e.pos)
    BY <1>1, <2>1 DEF Printing
  <2>3. /\ Len(got) \in 0 .. count /\ (Len(got) = 0 => e.pos = Inodes[e.inode].length)
        /\ o \o got = SubSeq(FileBytes(e.inode), 1, n)
    <3>1. count \in Nat /\ count > 0
      OBVIOUS
    <3>2. Len(got) \in 0 .. count /\ (Len(got) = 0 => e.pos = Inodes[e.inode].length)
      BY <2>2, <3>1, ReadDataCount
    <3>3. o \o got = SubSeq(FileBytes(e.inode), 1, n)
      BY <2>2, <3>1, ReadDataExtends
    <3>4. QED
      BY <3>2, <3>3
  <2> HIDE DEF got
  <2>4. f'[fd] = [e EXCEPT !.pos = n]
    BY <1>0, <2>1
  <2>5. f'[fd].optable = "regular" /\ f'[fd].inode = e.inode /\ f'[fd].pos = n
    BY <1>0, <2>1, <2>4 DEF Entries
  <2>6. Printing(f'[fd], name, count, o \o got)
    BY <2>1, <2>2, <2>3, <2>5 DEF Printing
  <2>7. Len(got) = 0 => Printed(name, count, o)
    BY <2>1, <2>2, <2>3, WholeFile DEF Printing, Printed
  <2>8. QED
    BY <2>1, <2>3, <2>6, <2>7
<1>3. CASE directory_read(fd, count)
  <2>0. e.optable = "directory" /\ owned' = owned /\ o = SubSeq(ListingOf(count), 1, e.pos)
    BY <1>3 DEF directory_read, Printing
  <2>1. CASE /\ e.pos >= Len(Directory)
             /\ last'.ret = 0
    <3>1. e.pos = Len(Directory)
      BY <1>1, <2>0, <2>1, ImageFacts
    <3>2. Printed(name, count, o)
      BY <2>0, <3>1, WholeListing DEF Printing, Printed
    <3>3. QED
      BY <2>0, <2>1, <3>2
  <2>2. CASE /\ e.pos < Len(Directory)
             /\ f' = [f EXCEPT ![fd].pos = f[fd].pos + 1]
             /\ last'.ret = count /\ last'.data = <<Piece(e.pos + 1, count)>>
    <3> DEFINE n == e.pos + 1
               x == Piece(e.pos + 1, count)
    <3>1. e.pos \in Nat /\ e.pos + 1 \in DOMAIN Directory /\ count \in Nat
      BY <1>1, <2>0, <2>2, ImageFacts
    <3>2. Append(o, x) = SubSeq(ListingOf(count), 1, n)
      BY <2>0, <2>2, <3>1, ListingExtends
    <3>3. /\ x \in Pieces /\ ListingOf(count) \in Seq(Pieces)
          /\ Len(ListingOf(count)) = Len(Directory)
      BY <3>1, WholeListing DEF Pieces
    <3> HIDE DEF x
    <3>4. o \in Seq(Pieces)
      BY <2>0, <2>2, <3>1, <3>3, ImageFacts
    <3>5. o \o <<x>> = Append(o, x)
      BY <3>3, <3>4
    <3>6. f'[fd] = [e EXCEPT !.pos = n]
      BY <1>0, <2>2
    <3>7. f'[fd].optable = "directory" /\ f'[fd].pos = n
      BY <1>0, <2>0, <3>6 DEF Entries
    <3>8. o \o last'.data = SubSeq(ListingOf(count), 1, n)
      BY <2>2, <3>2, <3>5 DEF x
    <3>9. Printing(f'[fd], name, count, o \o last'.data)
      BY <2>0, <3>7, <3>8 DEF Printing
    <3>10. last'.ret # 0 /\ last'.ret # -1
      BY <2>2
    <3>11. QED
      BY <2>0, <3>9, <3>10
  <2>3. QED
    BY <1>3, <2>1, <2>2 DEF directory_read, Piece, Returns, Gives
<1>4. CASE special_read(fd)
  <2>1. e.optable = "special" /\ owned' = owned /\ last'.ret = 0
    BY <1>4 DEF special_read, Returns, Gives
  <2>2. QED
    BY <2>1 DEF Printing, Printed
<1>5. ~ ReadRefused(fd)
  BY <1>1 DEF ReadRefused
<1>6. QED
  BY <1>2, <1>3, <1>4, <1>5 DEF read

(* Where cat and ls are, and what they have printed. *)
Opened == IF prog = "cat" THEN arg ELSE DOT
Size   == IF prog = "cat" THEN BUFSIZE ELSE FNAME_MAX_LEN
OutInv ==
  /\ prog \in {"cat", "ls"} =>
       /\ pc \in {"main", "loop", "exit"}
       /\ prog = "cat" /\ pc # "exit" => arg \in Names \cup Range(Listing)
       /\ pc = "main" => out = <<>>
       /\ pc = "loop" => local.fd \in owned /\ Printing(f[local.fd], Opened, Size, out)
  /\ OutputComplete

(* All that was to be printed has been. *)
LEMMA AllPrinted ==
  ASSUME NEW name \in ShellNames, NEW count, NEW o, Printed(name, count, o)
  PROVE  /\ IsRegular(name) => o = FileBytes(Inode(name))
         /\ ~ IsRegular(name) /\ name = DOT => o = ListingOf(count)
         /\ ~ IsRegular(name) /\ name # DOT => o = <<>>
         /\ IsRegular(name) => name # DOT
<1>1. Matches(name) # {} /\ (read_dentry_by_name(name).ftype = "directory" <=> name = DOT)
  BY DotIsDirectory DEF Printed
<1>2. QED
  BY <1>1 DEF Printed, IsRegular

(* The first step of cat or ls: open. *)
LEMMA MainSteps ==
  ASSUME Inv, OutInv, cat_main \/ ls_main
  PROVE  Inv' /\ OutInv' /\ prog \in {"cat", "ls"} /\ prog' = prog /\ pc' # "main"
<1>1. PICK name : /\ prog \in {"cat", "ls"} /\ pc = "main" /\ prog' = prog /\ arg' = arg /\ out' = out
                  /\ name = Opened /\ open(name) /\ local' = [fd |-> last'.ret]
                  /\ \/ last'.ret = -1 /\ pc' = "exit" /\ code' = 2
                     \/ last'.ret # -1 /\ pc' = "loop"
  BY DEF cat_main, ls_main, At, Exit, Goto, Opened
<1>2. Inv'
  BY <1>1, InvAnyOpen
<1>3. Opened' = name /\ out = <<>>
  BY <1>1 DEF Opened, OutInv
<1>4. last'.ret # -1 => last'.ret \in owned' /\ Printing(f'[last'.ret], name, Size', <<>>)
  BY <1>1, OpenGives
<1>5. pc' = "loop" => local'.fd \in owned' /\ Printing(f'[local'.fd], Opened', Size', out')
  BY <1>1, <1>3, <1>4
<1>6. OutputComplete'
  BY <1>1 DEF OutputComplete, Done
<1>7. OutInv'
  BY <1>1, <1>3, <1>5, <1>6 DEF OutInv
<1>8. QED
  BY <1>1, <1>2, <1>7

(* The loop of cat or ls: read and write. *)
LEMMA LoopSteps ==
  ASSUME Inv, OutInv, cat_loop \/ ls_loop
  PROVE  Inv' /\ OutInv' /\ prog \in {"cat", "ls"} /\ prog' = prog /\ pc' # "main"
<1>0. BUFSIZE \in Nat \ {0} /\ FNAME_MAX_LEN \in Nat \ {0}
  BY FilesConstants, ProgramsConstants DEF FilesConstants, ProgramsConstants
<1>1. PICK fd, count, name :
        /\ count \in Nat \ {0} /\ prog \in {"cat", "ls"} /\ pc = "loop" /\ prog' = prog /\ arg' = arg /\ local' = local
        /\ fd = local.fd /\ name = Opened /\ count = Size /\ read(fd, count)
        /\ \/ last'.ret = 0 /\ pc' = "exit" /\ code' = 0 /\ out' = out
           \/ last'.ret = -1 /\ pc' = "exit" /\ code' = 3 /\ out' = out
           \/ last'.ret # 0 /\ last'.ret # -1 /\ pc' = "loop" /\ out' = out \o last'.data
  <2>1. CASE cat_loop
    BY <1>0, <2>1 DEF cat_loop, At, Exit, Goto, Writes, Size
  <2>2. CASE ls_loop
    BY <1>0, <2>2 DEF ls_loop, At, Exit, Goto, Writes, Size
  <2>3. QED
    BY <2>1, <2>2
<1>2. Inv'
  BY <1>1, InvAnyRead
<1>3. fd \in owned /\ Printing(f[fd], name, count, out)
  BY <1>1 DEF OutInv
<1>4. /\ last'.ret # -1 /\ fd \in owned'
      /\ last'.ret = 0 => Printed(name, count, out)
      /\ last'.ret # 0 => Printing(f'[fd], name, count, out \o last'.data)
  BY <1>1, <1>3, ReadGives
<1>5. Opened' = name /\ Size' = count
  BY <1>1 DEF Opened, Size
<1>6. name \in ShellNames
  BY <1>1 DEF OutInv, Opened, ShellNames
<1>7. CASE last'.ret = 0
  <2>1. /\ IsRegular(name) => out = FileBytes(Inode(name))
        /\ ~ IsRegular(name) /\ name = DOT => out = ListingOf(count)
        /\ ~ IsRegular(name) /\ name # DOT => out = <<>>
        /\ IsRegular(name) => name # DOT
    BY <1>4, <1>6, <1>7, AllPrinted
  <2>2. /\ prog' = prog /\ arg' = arg /\ out' = out /\ pc' = "exit" /\ code' = 0
    BY <1>1, <1>7
  <2>3. prog = "cat" => arg = name /\ count = BUFSIZE
    BY <1>1 DEF Opened, Size
  <2>4. prog = "ls" => DOT = name /\ count = FNAME_MAX_LEN
    BY <1>1 DEF Opened, Size
  <2>5. prog = "cat" => CASE IsRegular(arg) -> out = FileBytes(Inode(arg))
                          [] arg = DOT -> Lists(out, BUFSIZE)
                          [] OTHER -> out = <<>>
    <3>0. Lists(ListingOf(BUFSIZE), BUFSIZE)
      BY <1>0, ListingComplete
    <3>1. CASE IsRegular(name)
      BY <2>1, <2>3, <3>1
    <3>2. CASE ~ IsRegular(name) /\ name = DOT
      BY <2>1, <2>3, <3>0, <3>2
    <3>3. CASE ~ IsRegular(name) /\ name # DOT
      BY <2>1, <2>3, <3>3
    <3>4. QED
      BY <3>1, <3>2, <3>3
  <2>6. prog = "ls" => out = Listing
    BY <2>1, <2>4, ListingComplete
  <2>7. OutputComplete'
    BY <2>2, <2>5, <2>6 DEF OutputComplete, Done, IsRegular
  <2>8. OutInv'
    BY <1>1, <2>2, <2>7 DEF OutInv
  <2>9. QED
    BY <1>1, <1>2, <2>2, <2>8
<1>8. CASE last'.ret # 0
  <2>1. pc' = "loop" /\ out' = out \o last'.data
    BY <1>1, <1>4, <1>8
  <2>2. local'.fd \in owned' /\ Printing(f'[local'.fd], Opened', Size', out')
    BY <1>1, <1>4, <1>5, <1>8, <2>1
  <2>3. OutputComplete'
    BY <2>1 DEF OutputComplete, Done
  <2>4. OutInv'
    BY <1>1, <2>1, <2>2, <2>3 DEF OutInv
  <2>5. QED
    BY <1>1, <1>2, <2>1, <2>4
<1>9. QED
  BY <1>7, <1>8

(* The steps of cat and ls, and of the error tests, keep the table. *)
LEMMA CatSteps ==
  ASSUME Inv, cat_main \/ ls_main \/ cat_loop \/ ls_loop
  PROVE  Inv' /\ prog \in {"cat", "ls"} /\ prog' = prog /\ pc' # "main"
<1>0. BUFSIZE \in Nat /\ FNAME_MAX_LEN \in Nat
  BY FilesConstants, ProgramsConstants DEF FilesConstants, ProgramsConstants
<1>1. CASE cat_main \/ ls_main
  <2>1. prog \in {"cat", "ls"} /\ prog' = prog /\ pc' # "main" /\ (open(arg) \/ open(DOT))
    BY <1>1 DEF cat_main, ls_main, At, Exit, Goto
  <2>2. QED
    BY <2>1, InvAnyOpen
<1>2. CASE cat_loop \/ ls_loop
  <2>1. /\ prog \in {"cat", "ls"} /\ prog' = prog /\ pc' # "main"
        /\ read(local.fd, BUFSIZE) \/ read(local.fd, FNAME_MAX_LEN)
    BY <1>2 DEF cat_loop, ls_loop, At, Exit, Goto
  <2>2. QED
    BY <1>0, <2>1, InvAnyRead
<1>3. QED
  BY <1>1, <1>2

(* The same of the error tests. *)
LEMMA SyserrSteps ==
  ASSUME Inv, Syserr
  PROVE  Inv' /\ prog = "syserr" /\ prog' = "syserr" /\ pc' # "main"
<1>1. CASE syserr_main \/ syserr_tally \/ syserr_return
  <2>1. prog = "syserr" /\ prog' = "syserr" /\ pc' # "main" /\ UNCHANGED vars
    BY <1>1 DEF syserr_main, syserr_tally, syserr_return, InTest, Then, At, Exit, Goto
  <2>2. QED
    BY <2>1, InvUnchanged DEF vars
<1>2. CASE syserr_call
  <2>1. PICK c : prog = "syserr" /\ prog' = "syserr" /\ pc' # "main" /\ Do(c)
    BY <1>2 DEF syserr_call, InTest, Then, Goto
  <2>2. CASE read(c.a, 31)
    BY <2>1, <2>2, InvAnyRead
  <2>3. CASE WriteRefused(c.a) \/ syscall_vidmap(c.a) \/ invalid_syscall(c.a)
    <3>1. UNCHANGED <<f, seen, owned>> /\ last'.call # "open" /\ last'.data = <<>>
      BY <2>3 DEF WriteRefused, syscall_vidmap, invalid_syscall, Returns, Gives
    <3>2. QED
      BY <2>1, <3>1, InvUnchanged
  <2>4. CASE syscall_close(c.a)
    BY <2>1, <2>4, InvClose
  <2>5. CASE open(c.a)
    BY <2>1, <2>5, InvAnyOpen
  <2>6. QED
    BY <2>1, <2>2, <2>3, <2>4, <2>5 DEF Do
<1>3. QED
  BY <1>1, <1>2 DEF Syserr

(* A program that is not "other" starts with nothing open. *)
StartInv == prog = "shell" \/ (pc = "main" /\ prog # "other") => owned = {}

(* The shell and what ends a program. *)
LEMMA ShellSteps ==
  ASSUME Inv, StartInv, execute \/ NotFound \/ halt \/ Fault \/ UNCHANGED allvars
  PROVE  Inv' /\ StartInv'
<1>1. CASE execute
  <2>1. prog = "shell" /\ UNCHANGED vars
    BY <1>1 DEF execute, Starts
  <2>2. QED
    BY <2>1, InvUnchanged DEF vars, StartInv
<1>2. CASE NotFound \/ UNCHANGED allvars
  <2>1. UNCHANGED <<prog, pc, vars>>
    BY <1>2 DEF NotFound, allvars, pvars
  <2>2. QED
    BY <2>1, InvUnchanged DEF vars, StartInv
<1>3. CASE halt \/ Fault
  <2>1. Halt
    BY <1>3 DEF halt, Fault, Leaves
  <2>2. owned' = {} /\ Inv'
    BY <2>1, NewTableInv DEF Halt, Returns, Gives
  <2>3. QED
    BY <2>2 DEF StartInv
<1>4. QED
  BY <1>1, <1>2, <1>3

(* Other programs' calls, and their end. *)
LEMMA OtherSteps ==
  ASSUME Inv, Other
  PROVE  Inv' /\ (prog' = "other" \/ (prog' = "shell" /\ owned' = {}))
<1>1. CASE prog' = "other" /\ AnyCall
  BY <1>1, InvCall
<1>2. CASE prog' = "shell" /\ Halt
  BY <1>2, NewTableInv DEF Halt, Returns, Gives
<1>3. QED
  BY <1>1, <1>2 DEF Other, At, Leaves

(* Every step keeps the table, starts programs with nothing open, and keeps *)
(* grep in its buffer.                                                      *)
BaseInv == Inv /\ StartInv /\ GrepInv
LEMMA BaseStep ==
  ASSUME BaseInv, [ProgNext]_allvars
  PROVE  BaseInv'
<1>0. Inv /\ StartInv /\ GrepInv
  BY DEF BaseInv
<1>1. CASE execute \/ NotFound \/ halt \/ Fault \/ UNCHANGED allvars
  <2>1. Inv' /\ StartInv'
    BY <1>0, <1>1, ShellSteps
  <2>2. GrepInv'
    <3>1. CASE execute
      <4>1. prog' = "grep" => pc' = "main" /\ \E junk : local' = GrepLocals(junk)
        BY <3>1 DEF execute, Starts
      <4>2. \A junk : GrepFields \subseteq DOMAIN GrepLocals(junk)
        BY DEF GrepFields, GrepLocals
      <4>3. QED
        BY <4>1, <4>2 DEF GrepInv, GrepOK
    <3>2. CASE NotFound \/ UNCHANGED allvars
      BY <1>0, <3>2 DEF NotFound, allvars, pvars, GrepInv
    <3>3. CASE halt \/ Fault
      BY <3>3, NotGrep DEF halt, Fault, Leaves
    <3>4. QED
      BY <1>1, <3>1, <3>2, <3>3
  <2>3. QED
    BY <2>1, <2>2 DEF BaseInv
<1>2. CASE cat_main \/ ls_main \/ cat_loop \/ ls_loop
  <2>1. Inv' /\ prog \in {"cat", "ls"} /\ prog' = prog /\ pc' # "main"
    BY <1>0, <1>2, CatSteps
  <2>2. QED
    BY <2>1, NotGrep DEF BaseInv, StartInv
<1>3. CASE Grep
  <2>1. Inv' /\ GrepInv' /\ prog' = "grep" /\ pc' # "main"
    BY <1>0, <1>3, GrepSteps
  <2>2. QED
    BY <2>1 DEF BaseInv, StartInv
<1>4. CASE Syserr
  <2>1. Inv' /\ prog' = "syserr" /\ pc' # "main"
    BY <1>0, <1>4, SyserrSteps
  <2>2. QED
    BY <2>1, NotGrep DEF BaseInv, StartInv
<1>5. CASE Fish
  <2>1. Inv' /\ prog' = "fish" /\ pc' # "main"
    BY <1>0, <1>5, FishSteps
  <2>2. QED
    BY <2>1, NotGrep DEF BaseInv, StartInv
<1>6. CASE Other
  <2>1. Inv' /\ (prog' = "other" \/ (prog' = "shell" /\ owned' = {}))
    BY <1>0, <1>6, OtherSteps
  <2>2. QED
    BY <2>1, NotGrep DEF BaseInv, StartInv
<1>7. QED
  BY <1>1, <1>2, <1>3, <1>4, <1>5, <1>6 DEF ProgNext

(* It holds of the first state. *)
LEMMA BaseInit == ProgInit => BaseInv
<1> SUFFICES ASSUME ProgInit PROVE BaseInv
  OBVIOUS
<1>1. Inv
  BY InvInit DEF ProgInit
<1>2. owned = {} /\ prog = "shell"
  BY DEF ProgInit, Init
<1>3. QED
  BY <1>1, <1>2 DEF BaseInv, StartInv, GrepInv

(* So it always holds. *)
LEMMA BaseAlways == ProgSpec => []BaseInv
  BY BaseInit, BaseStep, PTL DEF ProgSpec

(* Whatever the shell runs, the files of the process it runs in keep the    *)
(* types, the accounting and the order of reads that Files promises of any  *)
(* calls: the programs' own arguments and sizes included.                   *)
THEOREM ProgramsKeepFiles == ProgSpec => [](TypeOK /\ FdAccounting /\ ReadsInOrder)
<1>1. ASSUME Inv PROVE TypeOK /\ FdAccounting /\ ReadsInOrder
  <2>1. TypeOK
    BY <1>1 DEF Inv, TableInv
  <2>2. {fd \in Fds : f[fd].used} = {0, 1} \cup owned
    BY <1>1, ImageFacts DEF Inv, TableInv, TypeOK
  <2>3. FdAccounting
    BY <1>1, <2>2 DEF Inv, FullInv, FdAccounting
  <2>4. ReadsInOrder
    BY <1>1, InvReads
  <2>5. QED
    BY <2>1, <2>3, <2>4
<1>2. BaseInv => TypeOK /\ FdAccounting /\ ReadsInOrder
  BY <1>1 DEF BaseInv
<1>3. QED
  BY <1>2, BaseAlways, PTL

(* What do_one_file may do to its buffer. *)
GrepInBuffer == prog = "grep" /\ pc \in {"read", "line"} =>
                  /\ local.last \in 0 .. BUFSIZE
                  /\ pc = "line" => local.start \in 0 .. local.last

(* grep reads no more than its buffer has room for behind the rest of the   *)
(* last chunk, and the next line starts within what it has: for any files,  *)
(* lines longer than the buffer and text with NULs included.                *)
THEOREM GrepStaysInBuffer == ProgSpec => []GrepInBuffer
<1>1. BaseInv => GrepInBuffer
  BY DEF BaseInv, GrepInv, GrepOK, GrepInBuffer
<1>2. QED
  BY <1>1, BaseAlways, PTL

(* However files and directory are cut into blocks and reads, cat prints    *)
(* the whole of a file, once and in order, and the directory's entries for  *)
(* ".", and ls every entry in full, for any image, with names as long as    *)
(* their field too.                                                         *)
THEOREM OutputIsComplete == ProgSpec => []OutputComplete
<1>1. ProgInit => OutInv
  BY DEF ProgInit, OutInv, OutputComplete, Done
<1>2. ASSUME BaseInv, OutInv, [ProgNext]_allvars PROVE OutInv'
  <2>0. Inv
    BY <1>2 DEF BaseInv
  <2>1. ASSUME prog' \notin {"cat", "ls"} PROVE OutInv'
    BY <2>1 DEF OutInv, OutputComplete, Done
  <2>2. CASE execute
    <3>1. prog' \in {"cat", "ls"} => /\ pc' = "main" /\ out' = <<>>
                                     /\ prog' = "cat" => arg' \in Names \cup Range(Listing)
      BY <2>2 DEF execute, Starts
    <3>2. QED
      BY <2>1, <3>1 DEF OutInv, OutputComplete, Done
  <2>3. CASE NotFound
    BY <2>1, <2>3 DEF NotFound
  <2>4. CASE halt
    BY <2>1, <2>4 DEF halt, Leaves
  <2>5. CASE Fault
    BY <2>1, <2>5 DEF Fault, Leaves
  <2>6. CASE UNCHANGED allvars
    <3>1. OutputComplete'
      BY <1>2, <2>6 DEF OutInv, OutputComplete, Done, allvars, pvars, IsRegular, Lists
    <3>2. QED
      BY <1>2, <2>6, <3>1 DEF OutInv, allvars, pvars, vars, Opened, Size
  <2>7. CASE cat_main \/ ls_main
    BY <1>2, <2>0, <2>7, MainSteps
  <2>8. CASE cat_loop \/ ls_loop
    BY <1>2, <2>0, <2>8, LoopSteps
  <2>9. CASE Grep
    BY <1>2, <2>1, <2>9, GrepSteps DEF BaseInv
  <2>10. CASE Syserr
    BY <2>0, <2>1, <2>10, SyserrSteps
  <2>11. CASE Fish
    BY <2>0, <2>1, <2>11, FishSteps
  <2>12. CASE Other
    BY <2>0, <2>1, <2>12, OtherSteps
  <2>13. QED
    BY <1>2, <2>2, <2>3, <2>4, <2>5, <2>6, <2>7, <2>8, <2>9, <2>10, <2>11, <2>12 DEF ProgNext
<1>3. OutInv => OutputComplete
  BY DEF OutInv
<1>4. QED
  BY <1>1, <1>2, <1>3, BaseAlways, PTL DEF ProgSpec
-----------------------------------------------------------------------------
(* The error tests. *)

(* A call that fails when the program has nothing open. *)
Refusable(c) == /\ c.want = "fails" /\ c.call # "tally"
                /\ c.call = "open" => Matches(c.a) = {}
                /\ c.call = "vidmap" => ~ usr_ptr_ok(c.a, 4)

(* open finds none of err_open's names. *)
LEMMA WrongNotFound ==
  ASSUME NEW i \in DOMAIN SlightlyWrong
  PROVE  Matches(SlightlyWrong[i]) = {}
<1> SUFFICES ASSUME NEW j \in Matches(SlightlyWrong[i]) PROVE FALSE
  OBVIOUS
<1>1. j \in DOMAIN Directory /\ strncmp(SlightlyWrong[i], Directory[j].fname, FNAME_MAX_LEN - 1)
  BY DEF Matches
<1>2. IsSeq(Directory[j].fname)
  BY <1>1, FilesConstants
<1>3. /\ IsSeq(SlightlyWrong[i]) /\ Len(SlightlyWrong[i]) < FNAME_MAX_LEN - 1
      /\ Directory[j].fname # SlightlyWrong[i]
  BY <1>1, SyserrConstants
<1>4. QED
  BY <1>1, <1>2, <1>3, StrncmpShort

(* "." is found. *)
LEMMA DotFound == Matches(DOT) # {}
<1>1. PICK i \in DOMAIN Directory : Directory[i].fname = DOT
  BY FlatDirectory
<1>2. strncmp(DOT, Directory[i].fname, FNAME_MAX_LEN - 1)
  BY <1>1 DEF strncmp, DOT
<1>3. QED
  BY <1>2 DEF Matches

(* The calls of the tests. *)
CallNames == {"open", "close", "read", "write", "tally"}
Wants     == {"fails", "count", "any"}
Calls     == [call : CallNames, a : Int \cup {DOT}, want : Wants]

(* The descriptors from n on. *)
LEMMA FdsFromIs ==
  ASSUME NEW n \in 0 .. 2
  PROVE  /\ FdsFrom(n) \in Seq(Int) /\ Len(FdsFrom(n)) = MAX_FILES - n
         /\ \A i \in 1 .. MAX_FILES - n : FdsFrom(n)[i] = n + i - 1
<1>1. MAX_FILES - n \in Nat /\ n \in Int
  BY ImageFacts
<1>2. QED
  BY <1>1 DEF FdsFrom

(* One call for each of them. *)
LEMMA EachFd ==
  ASSUME NEW n \in 0 .. 2, NEW name \in CallNames, NEW want \in Wants
  PROVE  LET s == Each(FdsFrom(n), name, want)
         IN /\ s \in Seq(Calls) /\ Len(s) = MAX_FILES - n
            /\ \A i \in 1 .. MAX_FILES - n : s[i] = Call(name, n + i - 1, want)
<1> DEFINE s == Each(FdsFrom(n), name, want)
<1>1. MAX_FILES - n \in Nat /\ n \in Int
  BY ImageFacts
<1>2. s = [i \in 1 .. MAX_FILES - n |-> Call(name, FdsFrom(n)[i], want)]
  <2>1. s = [i \in 1 .. Len(FdsFrom(n)) |-> Call(name, FdsFrom(n)[i], want)]
    BY Zenon DEF Each
  <2>2. Len(FdsFrom(n)) = MAX_FILES - n
    BY FdsFromIs
  <2>3. QED
    BY <2>1, <2>2, Zenon
<1>3. \A i \in 1 .. MAX_FILES - n : FdsFrom(n)[i] = n + i - 1 /\ n + i - 1 \in Int
  <2>1. \A i \in 1 .. MAX_FILES - n : FdsFrom(n)[i] = n + i - 1
    BY FdsFromIs, Zenon
  <2>2. \A i \in 1 .. MAX_FILES - n : n + i - 1 \in Int
    BY <1>1
  <2>3. QED
    BY <2>1, <2>2, Zenon
<1>4. \A i \in 1 .. MAX_FILES - n : s[i] = Call(name, n + i - 1, want)
  BY <1>2, <1>3
<1>5. \A i \in 1 .. MAX_FILES - n : Call(name, n + i - 1, want) \in Calls
  BY <1>3 DEF Call, Calls
<1>6. DOMAIN s = 1 .. MAX_FILES - n
  BY <1>2
<1> HIDE DEF s
<1>7. s \in [1 .. MAX_FILES - n -> Calls]
  <2>1. s = [i \in 1 .. MAX_FILES - n |-> s[i]]
    BY <1>2
  <2>2. \A i \in 1 .. MAX_FILES - n : s[i] \in Calls
    BY <1>4, <1>5
  <2>3. QED
    BY <2>1, <2>2, Zenon
<1>8. s \in Seq(Calls) /\ Len(s) = MAX_FILES - n
  BY <1>1, <1>7, SeqDef, LenProperties
<1>9. QED
  BY <1>4, <1>8 DEF s

(* Two lists of calls, one after the other. *)
LEMMA Joined ==
  ASSUME NEW T, NEW s \in Seq(T), NEW t \in Seq(T)
  PROVE  /\ s \o t \in Seq(T) /\ Len(s \o t) = Len(s) + Len(t)
         /\ \A i \in 1 .. Len(s) : (s \o t)[i] = s[i]
         /\ \A i \in 1 .. Len(t) : (s \o t)[Len(s) + i] = t[i]
         /\ \A i \in 1 .. Len(s) + Len(t) : i > Len(s) => (s \o t)[i] = t[i - Len(s)]
BY ConcatProperties, LenProperties

(* The calls of err_unopened. *)
LEMMA UnopenedCalls ==
  /\ Len(err_unopened) \in Nat \ {0}
  /\ \A i \in 1 .. Len(err_unopened) : Refusable(err_unopened[i])
<1> DEFINE s == Each(FdsFrom(0), "close", "fails")
           t == Each(FdsFrom(2), "read", "fails")
           u == Each(FdsFrom(2), "write", "fails")
           ok(q) == \A i \in 1 .. Len(q) : Refusable(q[i])
<1>0. 0 \in 0 .. 2 /\ 2 \in 0 .. 2
  OBVIOUS
<1>1. /\ s \in Seq(Calls) /\ Len(s) = MAX_FILES - 0
      /\ \A i \in 1 .. MAX_FILES - 0 : s[i] = Call("close", 0 + i - 1, "fails")
  BY <1>0, EachFd DEF CallNames, Wants
<1>2. /\ t \in Seq(Calls) /\ Len(t) = MAX_FILES - 2
      /\ \A i \in 1 .. MAX_FILES - 2 : t[i] = Call("read", 2 + i - 1, "fails")
  BY <1>0, EachFd DEF CallNames, Wants
<1>3. /\ u \in Seq(Calls) /\ Len(u) = MAX_FILES - 2
      /\ \A i \in 1 .. MAX_FILES - 2 : u[i] = Call("write", 2 + i - 1, "fails")
  BY <1>0, EachFd DEF CallNames, Wants
<1> HIDE DEF s, t, u
<1>11. ok(s) /\ ok(t) /\ ok(u)
  <2>1. \A a : /\ Refusable(Call("close", a, "fails")) /\ Refusable(Call("read", a, "fails"))
               /\ Refusable(Call("write", a, "fails"))
    BY DEF Call, Refusable
  <2>2. ok(s)
    BY <1>1, <2>1
  <2>3. ok(t)
    BY <1>2, <2>1
  <2>4. ok(u)
    BY <1>3, <2>1
  <2>5. QED
    BY <2>2, <2>3, <2>4
<1>4. ASSUME NEW p \in Seq(Calls), NEW q \in Seq(Calls), ok(p), ok(q)
      PROVE  p \o q \in Seq(Calls) /\ ok(p \o q) /\ Len(p \o q) = Len(p) + Len(q)
  <2>1. Len(p) \in Nat /\ Len(q) \in Nat
    BY LenProperties
  <2>2. /\ p \o q \in Seq(Calls) /\ Len(p \o q) = Len(p) + Len(q)
        /\ \A i \in 1 .. Len(p) : (p \o q)[i] = p[i]
        /\ \A i \in 1 .. Len(p) + Len(q) : i > Len(p) => (p \o q)[i] = q[i - Len(p)]
    BY Joined
  <2>3. ASSUME NEW i \in 1 .. Len(p) + Len(q) PROVE Refusable((p \o q)[i])
    <3>1. CASE i <= Len(p)
      BY <1>4, <2>1, <2>2, <3>1
    <3>2. CASE i > Len(p)
      <4>1. i - Len(p) \in 1 .. Len(q)
        BY <2>1, <3>2
      <4>2. QED
        BY <1>4, <2>2, <3>2, <4>1
    <3>3. QED
      BY <2>1, <3>1, <3>2
  <2>4. QED
    BY <2>2, <2>3
<1> HIDE DEF ok
<1>5. s \o t \in Seq(Calls) /\ ok(s \o t) /\ Len(s \o t) = Len(s) + Len(t)
  BY <1>1, <1>2, <1>4, <1>11, Zenon
<1>6. ok((s \o t) \o u) /\ Len((s \o t) \o u) = Len(s \o t) + Len(u)
  BY <1>3, <1>4, <1>5, <1>11, Zenon
<1>7. err_unopened = (s \o t) \o u
  BY DEF err_unopened, s, t, u
<1>8. Len((s \o t) \o u) \in Nat \ {0}
  <2>1. Len((s \o t) \o u) = ((MAX_FILES - 0) + (MAX_FILES - 2)) + (MAX_FILES - 2)
    BY <1>1, <1>2, <1>3, <1>5, <1>6, Zenon
  <2>2. ((MAX_FILES - 0) + (MAX_FILES - 2)) + (MAX_FILES - 2) \in Nat \ {0}
    BY ImageFacts
  <2>3. QED
    BY <2>1, <2>2, Zenon
<1>9. QED
  BY <1>6, <1>7, <1>8 DEF ok

(* The calls of err_open_lots: MAX_FILES - 1 opens, a close of each         *)
(* descriptor, and the count.                                               *)
LEMMA OpenLotsCalls ==
  /\ Len(err_open_lots) = 2 * MAX_FILES - 2
  /\ \A i \in 1 .. MAX_FILES - 1 : err_open_lots[i] = Call("open", DOT, "count")
  /\ \A i \in MAX_FILES .. 2 * MAX_FILES - 3 : err_open_lots[i] = Call("close", i - MAX_FILES + 2, "any")
  /\ err_open_lots[2 * MAX_FILES - 2] = Call("tally", 0, "any")
<1> DEFINE s == [i \in 1 .. MAX_FILES - 1 |-> Call("open", DOT, "count")]
           t == Each(FdsFrom(2), "close", "any")
           u == <<Call("tally", 0, "any")>>
<1>0. MAX_FILES \in Nat /\ MAX_FILES > 2 /\ MAX_FILES - 1 \in Nat
  BY ImageFacts
<1>1. s \in Seq(Calls) /\ Len(s) = MAX_FILES - 1
  <2>1. Call("open", DOT, "count") \in Calls
    BY DEF Call, Calls, CallNames, Wants
  <2>2. s \in [1 .. MAX_FILES - 1 -> Calls]
    BY <2>1, Zenon
  <2> HIDE DEF s
  <2>3. QED
    BY <1>0, <2>2, SeqDef, LenProperties
<1>2. \A i \in 1 .. MAX_FILES - 1 : s[i] = Call("open", DOT, "count")
  OBVIOUS
<1>3. /\ t \in Seq(Calls) /\ Len(t) = MAX_FILES - 2
      /\ \A i \in 1 .. MAX_FILES - 2 : t[i] = Call("close", 2 + i - 1, "any")
  <2>1. 2 \in 0 .. 2
    OBVIOUS
  <2>2. QED
    BY <2>1, EachFd DEF CallNames, Wants
<1>4. t \in Seq(Calls) /\ Len(t) = MAX_FILES - 2
  BY <1>3
<1> HIDE DEF t
<1>5. \A i \in 1 .. MAX_FILES - 2 : t[i] = Call("close", i + 1, "any")
  <2>1. \A i \in 1 .. MAX_FILES - 2 : 2 + i - 1 = i + 1
    BY <1>0
  <2>2. QED
    BY <1>3, <2>1
<1>6. u \in Seq(Calls) /\ Len(u) = 1 /\ u[1] = Call("tally", 0, "any")
  <2>1. Call("tally", 0, "any") \in Calls
    BY DEF Call, Calls, CallNames, Wants
  <2>2. QED
    BY <2>1
<1>7. err_open_lots = (s \o t) \o u
  BY DEF err_open_lots, t
<1> HIDE DEF s, u
<1> DEFINE v == s \o t
<1>8. /\ v \in Seq(Calls) /\ Len(v) = 2 * MAX_FILES - 3
      /\ \A i \in 1 .. MAX_FILES - 1 : v[i] = s[i]
      /\ \A i \in 1 .. MAX_FILES - 2 : v[MAX_FILES - 1 + i] = t[i]
  <2>1. /\ v \in Seq(Calls) /\ Len(v) = Len(s) + Len(t)
        /\ \A i \in 1 .. Len(s) : v[i] = s[i]
        /\ \A i \in 1 .. Len(t) : v[Len(s) + i] = t[i]
    BY <1>1, <1>4, Joined
  <2>2. QED
    BY <1>0, <1>1, <1>4, <2>1
<1> HIDE DEF v
<1>9. /\ Len(v \o u) = Len(v) + Len(u)
      /\ \A i \in 1 .. Len(v) : (v \o u)[i] = v[i]
      /\ \A i \in 1 .. Len(u) : (v \o u)[Len(v) + i] = u[i]
  BY <1>6, <1>8, Joined
<1>10. Len(v \o u) = 2 * MAX_FILES - 2
  BY <1>0, <1>6, <1>8, <1>9
<1>11. \A i \in 1 .. MAX_FILES - 1 : (v \o u)[i] = Call("open", DOT, "count")
  BY <1>0, <1>2, <1>8, <1>9
<1>12. ASSUME NEW i \in MAX_FILES .. 2 * MAX_FILES - 3
       PROVE  (v \o u)[i] = Call("close", i - MAX_FILES + 2, "any")
  <2>1. (v \o u)[i] = v[i]
    BY <1>0, <1>8, <1>9
  <2> DEFINE k == i - MAX_FILES + 1
  <2>2. k \in 1 .. MAX_FILES - 2 /\ MAX_FILES - 1 + k = i /\ k + 1 = i - MAX_FILES + 2
    BY <1>0
  <2> HIDE DEF k
  <2>3. v[i] = t[k] /\ t[k] = Call("close", k + 1, "any")
    BY <1>5, <1>8, <2>2
  <2>4. QED
    BY <2>1, <2>2, <2>3
<1>13. (v \o u)[2 * MAX_FILES - 2] = Call("tally", 0, "any")
  <2>1. 1 \in 1 .. Len(u) /\ Len(v) + 1 = 2 * MAX_FILES - 2
    BY <1>0, <1>6, <1>8
  <2>2. QED
    BY <1>6, <1>9, <2>1
<1>14. err_open_lots = v \o u
  BY <1>7 DEF v
<1>15. QED
  BY <1>10, <1>11, <1>12, <1>13, <1>14

(* Every test has a call, and those of all tests but the third fail when    *)
(* nothing is open.                                                         *)
LEMMA TestCalls ==
         /\ Len(Tests) = 8 /\ Tests[3] = err_open_lots
         /\ \A t \in 1 .. 8 : Len(Tests[t]) \in Nat \ {0}
         /\ \A t \in 1 .. 8 : t # 3 => \A i \in 1 .. Len(Tests[t]) : Refusable(Tests[t][i])
<1> DEFINE ok(q) == Len(q) \in Nat \ {0} /\ \A i \in 1 .. Len(q) : Refusable(q[i])
<1>1. ok(err_neg_fd) /\ ok(err_big_fd)
  <2>1. \A a : /\ Refusable(Call("close", a, "fails")) /\ Refusable(Call("read", a, "fails"))
               /\ Refusable(Call("write", a, "fails"))
    BY DEF Call, Refusable
  <2>2. ok(err_neg_fd)
    BY <2>1 DEF err_neg_fd
  <2>3. ok(err_big_fd)
    BY <2>1 DEF err_big_fd
  <2>4. QED
    BY <2>2, <2>3
<1>2. ok(err_stdin_out)
  <2>1. \A a : Refusable(Call("read", a, "fails")) /\ Refusable(Call("write", a, "fails"))
    BY DEF Call, Refusable
  <2>2. QED
    BY <2>1 DEF err_stdin_out
<1>3. ok(err_syscall_num)
  <2>1. \A a : Refusable(Call("number", a, "fails"))
    BY DEF Call, Refusable
  <2>2. QED
    BY <2>1 DEF err_syscall_num
<1>4. ok(err_vidmap)
  <2>1. ~ usr_ptr_ok(0, 4) /\ ~ usr_ptr_ok(4194304, 4)
    BY DEF usr_ptr_ok, OFFSET_128M
  <2>2. \A a : ~ usr_ptr_ok(a, 4) => Refusable(Call("vidmap", a, "fails"))
    BY DEF Call, Refusable
  <2>3. Refusable(Call("vidmap", 0, "fails")) /\ Refusable(Call("vidmap", 4194304, "fails"))
    BY <2>1, <2>2
  <2>4. QED
    BY <2>3 DEF err_vidmap
<1>5. ok(err_unopened)
  BY UnopenedCalls
<1>6. ok(err_open)
  <2>1. Len(SlightlyWrong) \in Nat \ {0} /\ DOMAIN SlightlyWrong = 1 .. Len(SlightlyWrong)
    BY SyserrConstants, LenProperties, EmptySeq DEF IsSeq
  <2>2. \A a : Matches(a) = {} => Refusable(Call("open", a, "fails"))
    BY DEF Call, Refusable
  <2>3. \A i \in 1 .. Len(SlightlyWrong) : Matches(SlightlyWrong[i]) = {}
    BY <2>1, WrongNotFound
  <2>4. err_open = [i \in 1 .. Len(SlightlyWrong) |-> Call("open", SlightlyWrong[i], "fails")]
    BY DEF err_open, Each
  <2>5. Len(err_open) = Len(SlightlyWrong)
    BY <2>1, <2>4
  <2>6. QED
    BY <2>1, <2>2, <2>3, <2>4, <2>5
<1>7. Len(err_open_lots) \in Nat \ {0}
  BY OpenLotsCalls, ImageFacts
<1> HIDE DEF ok
<1>8. /\ Len(Tests) = 8 /\ Tests[1] = err_neg_fd /\ Tests[2] = err_big_fd
      /\ Tests[3] = err_open_lots /\ Tests[4] = err_open /\ Tests[5] = err_unopened
      /\ Tests[6] = err_vidmap /\ Tests[7] = err_stdin_out /\ Tests[8] = err_syscall_num
  BY DEF Tests
<1>9. ASSUME NEW t \in 1 .. 8, t # 3 PROVE ok(Tests[t])
  <2>1. t = 1 \/ t = 2 \/ t = 4 \/ t = 5 \/ t = 6 \/ t = 7 \/ t = 8
    BY <1>9
  <2>2. QED
    BY <1>1, <1>2, <1>3, <1>4, <1>5, <1>6, <1>8, <2>1, Zenon
<1>10. \A t \in 1 .. 8 : Len(Tests[t]) \in Nat \ {0}
  BY <1>7, <1>8, <1>9 DEF ok
<1>11. \A t \in 1 .. 8 : t # 3 => \A i \in 1 .. Len(Tests[t]) : Refusable(Tests[t][i])
  BY <1>9 DEF ok
<1>12. QED
  BY <1>8, <1>10, <1>11

(* Such a call fails, and nothing is open after it either. *)
LEMMA CallRefused ==
  ASSUME Inv, owned = {}, NEW c, Refusable(c), Do(c)
  PROVE  last'.ret = -1 /\ owned' = {}
<1>0. \A fd \in Fds : f[fd].used => fd \in {0, 1}
  BY DEF Inv, TableInv
<1>1. f[0].optable = "stdin" /\ f[1].optable = "stdout"
  BY DEF Inv, TableInv
<1>2. ASSUME c.call = "read", read(c.a, 31) PROVE last'.ret = -1 /\ owned' = {}
  <2>1. get_file(c.a) => f[c.a].optable \in {"stdin", "stdout"}
    BY <1>0, <1>1 DEF get_file
  <2>2. ~ regular_read(c.a, 31)
    BY <2>1 DEF regular_read
  <2>3. ~ directory_read(c.a, 31)
    BY <2>1 DEF directory_read
  <2>4. ~ special_read(c.a)
    BY <2>1 DEF special_read
  <2>5. ReadRefused(c.a)
    BY <1>2, <2>2, <2>3, <2>4 DEF read
  <2>6. QED
    BY <2>5 DEF ReadRefused, Returns, Gives
<1>3. ASSUME WriteRefused(c.a) PROVE last'.ret = -1 /\ owned' = {}
  BY <1>3 DEF WriteRefused, Returns, Gives
<1>4. ASSUME syscall_close(c.a) PROVE last'.ret = -1 /\ owned' = {}
  <2>1. ~ (get_file(c.a) /\ c.a >= 2)
    BY <1>0 DEF get_file
  <2>2. QED
    BY <1>4, <2>1 DEF syscall_close, Returns, Gives
<1>5. ASSUME c.call = "open", open(c.a) PROVE last'.ret = -1 /\ owned' = {}
  <2>1. OpenFails(c.a)
    BY <1>5 DEF Refusable, open, syscall_open
  <2>2. QED
    BY <2>1, OpenFailsKeeps
<1>6. ASSUME c.call = "vidmap", syscall_vidmap(c.a) PROVE last'.ret = -1 /\ owned' = {}
  BY <1>6 DEF Refusable, syscall_vidmap, Returns, Gives
<1>7. ASSUME invalid_syscall(c.a) PROVE last'.ret = -1 /\ owned' = {}
  BY <1>7 DEF invalid_syscall, Returns, Gives
<1>8. QED
  BY <1>2, <1>3, <1>4, <1>5, <1>6, <1>7 DEF Do

(* What is open before step s of err_open_lots. *)
Held(s) == IF s <= MAX_FILES THEN {x \in 2 .. MAX_FILES - 1 : x <= s}
           ELSE {x \in 2 .. MAX_FILES - 1 : x >= s - MAX_FILES + 2}

(* Its opens take the descriptors in order, and the last one fails. *)
LEMMA OpensInOrder ==
  ASSUME Inv, NEW s \in 1 .. MAX_FILES - 1, owned = Held(s), open(DOT)
  PROVE  owned' = Held(s + 1) /\ (last'.ret = -1 <=> s = MAX_FILES - 1)
<1>0. MAX_FILES \in Nat /\ MAX_FILES > 2
  BY ImageFacts
<1>1. Held(s) = {x \in 2 .. MAX_FILES - 1 : x <= s} /\ Held(s + 1) = {x \in 2 .. MAX_FILES - 1 : x <= s + 1}
  BY <1>0 DEF Held
<1>2. \A x \in Fds : f[x].used <=> x <= s
  <2>1. \A x \in Fds : f[x].used <=> x \in {0, 1} \cup owned
    BY DEF Inv, TableInv
  <2>2. \A x \in Fds : x \in {0, 1} \cup owned <=> x <= s
    BY <1>0, <1>1 DEF Fds
  <2>3. QED
    BY <2>1, <2>2
<1>3. CASE s = MAX_FILES - 1
  <2>1. \A x \in Fds : f[x].used
    BY <1>0, <1>2, <1>3 DEF Fds
  <2>2. OpenFails(DOT)
    BY <2>1 DEF open, syscall_open, get_new_fd
  <2>3. owned' = owned /\ last'.ret = -1
    BY <2>2, OpenFailsKeeps
  <2>4. Held(s) = Held(s + 1)
    BY <1>0, <1>1, <1>3
  <2>5. QED
    BY <1>3, <2>3, <2>4
<1>4. CASE s # MAX_FILES - 1
  <2>1. s + 1 \in Fds /\ ~ f[s + 1].used
    BY <1>0, <1>2, <1>4 DEF Fds
  <2>2. syscall_open(DOT)
    BY <2>1, DotFound DEF open, OpenFails
  <2>3. PICK fd \in Fds : get_new_fd(fd) /\ owned' = owned \cup {fd} /\ last'.ret = fd
    BY <2>2 DEF syscall_open, Returns, Gives
  <2>4. ~ f[fd].used /\ fd <= s + 1
    BY <2>1, <2>3 DEF get_new_fd
  <2>5. fd = s + 1
    BY <1>0, <1>2, <2>3, <2>4 DEF Fds
  <2>6. Held(s + 1) = Held(s) \cup {s + 1}
    BY <1>0, <1>1, <1>4
  <2>7. last'.ret # -1
    BY <1>0, <2>3, <2>5
  <2>8. QED
    BY <1>4, <2>3, <2>5, <2>6, <2>7
<1>5. QED
  BY <1>3, <1>4

(* Its closes give them back, in the same order. *)
LEMMA ClosesInOrder ==
  ASSUME Inv, NEW s \in MAX_FILES .. 2 * MAX_FILES - 3, owned = Held(s),
         syscall_close(s - MAX_FILES + 2)
  PROVE  owned' = Held(s + 1)
<1>0. MAX_FILES \in Nat /\ MAX_FILES > 2
  BY ImageFacts
<1> DEFINE fd == s - MAX_FILES + 2
<1>1. fd \in Fds /\ fd \in 2 .. MAX_FILES - 1
  BY <1>0 DEF Fds
<1>2. Held(s) = {x \in 2 .. MAX_FILES - 1 : x >= fd} /\ Held(s + 1) = {x \in 2 .. MAX_FILES - 1 : x >= fd + 1}
  BY <1>0 DEF Held
<1> HIDE DEF fd
<1>3. f[fd].used
  BY <1>1, <1>2 DEF Inv, TableInv
<1>4. owned' = owned \ {fd}
  <2>1. syscall_close(fd)
    BY DEF fd
  <2>2. QED
    BY <1>1, <1>3, <2>1 DEF syscall_close, get_file
<1>5. Held(s + 1) = Held(s) \ {fd}
  BY <1>0, <1>1, <1>2
<1>6. QED
  BY <1>4, <1>5

(* Between two calls of the tests, l its variables and own what it has      *)
(* open: nothing has gone wrong so far, nothing is open but in the third    *)
(* test, and the failed open is counted once it has been made.              *)
SysOK(l, own) ==
  /\ l.test \in 1 .. 9 /\ l.last \in 1 .. 8 /\ l.fail = 0
  /\ l.test <= l.last => l.step \in 1 .. Len(Tests[l.test])
  /\ l.test # 3 => own = {}
  /\ l.test < 3 => l.cnt = 0
  /\ l.test = 3 => /\ l.step \in Nat \ {0} /\ own = Held(l.step)
                   /\ l.cnt = IF l.step < MAX_FILES THEN 0 ELSE 1

SysInv == prog = "syserr" => /\ pc \in {"main", "test", "exit"}
                             /\ pc = "test" => SysOK(local, owned)
                             /\ pc = "exit" => code = 0

(* Nothing is open before the third test's first step. *)
LEMMA HeldFirst == Held(1) = {}
  BY ImageFacts DEF Held

(* Nor after its last. *)
LEMMA HeldLast == Held(2 * MAX_FILES - 2) = {}
<1>1. MAX_FILES \in Nat /\ MAX_FILES > 2
  BY ImageFacts
<1>2. 2 * MAX_FILES - 2 > MAX_FILES /\ (2 * MAX_FILES - 2) - MAX_FILES + 2 = MAX_FILES
  BY <1>1
<1>3. Held(2 * MAX_FILES - 2) = {x \in 2 .. MAX_FILES - 1 : x >= MAX_FILES}
  BY <1>1, <1>2 DEF Held
<1>4. QED
  BY <1>1, <1>3

(* The next step of the same test, or the first of the next one. *)
LEMMA SysThen ==
  ASSUME SysOK(local, owned), local.test <= local.last,
         NEW cnt, Then(0, cnt),
         local.test < 3 => cnt = 0,
         local.test # 3 => owned' = {},
         local.test = 3 => IF local.step < Len(Tests[3])
                           THEN /\ owned' = Held(local.step + 1)
                                /\ cnt = IF local.step + 1 < MAX_FILES THEN 0 ELSE 1
                           ELSE owned' = {}
  PROVE  SysOK(local', owned')
<1>1. PICK t, s : t = local.test /\ s = local.step
  OBVIOUS
<1>2. t \in 1 .. 8 /\ s \in 1 .. Len(Tests[t]) /\ local.last \in 1 .. 8
  BY <1>1 DEF SysOK
<1>3. PICK n : n = Len(Tests[t])
  OBVIOUS
<1>4. n \in Nat \ {0} /\ s \in 1 .. n /\ s \in Nat \ {0} /\ s + 1 \in Nat \ {0}
  <2>1. Len(Tests[t]) \in Nat \ {0}
    BY <1>2, TestCalls
  <2>2. n \in Nat \ {0} /\ s \in 1 .. n
    BY <1>2, <1>3, <2>1
  <2>3. QED
    BY <2>2
<1>5. CASE s < n
  <2>1. local' = [test |-> t, last |-> local.last, step |-> s + 1, fail |-> 0, cnt |-> cnt]
    BY <1>1, <1>3, <1>5 DEF Then
  <2>2. s + 1 \in 1 .. n
    BY <1>4, <1>5
  <2>3. t = 3 => owned' = Held(s + 1) /\ cnt = IF s + 1 < MAX_FILES THEN 0 ELSE 1
    BY <1>1, <1>3, <1>5
  <2>4. /\ local'.test = t /\ local'.last = local.last /\ local'.step = s + 1
        /\ local'.fail = 0 /\ local'.cnt = cnt
    BY <2>1
  <2>5. t # 3 => owned' = {}
    BY <1>1
  <2>6. t < 3 => cnt = 0
    BY <1>1
  <2>7. QED
    BY <1>2, <1>3, <1>4, <2>2, <2>3, <2>4, <2>5, <2>6 DEF SysOK
<1>6. CASE ~ (s < n)
  <2>1. local' = [test |-> t + 1, last |-> local.last, step |-> 1, fail |-> 0, cnt |-> cnt]
    BY <1>1, <1>3, <1>6 DEF Then
  <2>2. /\ local'.test = t + 1 /\ local'.last = local.last /\ local'.step = 1
        /\ local'.fail = 0 /\ local'.cnt = cnt
    BY <2>1
  <2>3. owned' = {}
    BY <1>1, <1>3, <1>6
  <2>4. t < 3 => cnt = 0
    BY <1>1
  <2>5. t + 1 \in 1 .. 9 /\ (t + 1 = 3 => t < 3) /\ (t + 1 < 3 => t < 3)
    BY <1>2
  <2>6. t + 1 <= local.last => 1 \in 1 .. Len(Tests[t + 1])
    <3>1. SUFFICES ASSUME t + 1 <= local.last PROVE 1 \in 1 .. Len(Tests[t + 1])
      OBVIOUS
    <3>2. t + 1 \in 1 .. 8
      BY <1>2, <3>1
    <3>3. Len(Tests[t + 1]) \in Nat \ {0}
      BY <3>2, TestCalls
    <3>4. QED
      BY <3>3
  <2>7. 1 < MAX_FILES
    BY ImageFacts
  <2>8. QED
    BY <1>2, <2>2, <2>3, <2>4, <2>5, <2>6, <2>7, HeldFirst DEF SysOK
<1>7. QED
  BY <1>5, <1>6

(* A step of the error tests. *)
LEMMA SysSteps ==
  ASSUME BaseInv, SysInv, Syserr
  PROVE  SysInv'
<1>0. Inv /\ prog = "syserr"
  BY SyserrSteps DEF BaseInv
<1>1. CASE syserr_main
  <2>1. pc = "main" /\ pc' = "test" /\ owned' = owned
    BY <1>1 DEF syserr_main, At, Goto, vars
  <2>2. owned' = {}
    BY <1>0, <2>1 DEF BaseInv, StartInv
  <2>3. PICK select \in 0 .. 9 :
          local' = [test |-> IF select = 0 THEN 1 ELSE select,
                    last |-> IF select \in 1 .. Len(Tests) THEN select ELSE Len(Tests),
                    step |-> 1, fail |-> 0, cnt |-> 0]
    BY <1>1 DEF syserr_main
  <2>4. Len(Tests) = 8
    BY TestCalls
  <2>5. PICK t, l : /\ t = IF select = 0 THEN 1 ELSE select
                    /\ l = IF select \in 1 .. 8 THEN select ELSE 8
    OBVIOUS
  <2>6. t \in 1 .. 9 /\ l \in 1 .. 8 /\ (t <= l => t \in 1 .. 8)
    BY <2>5
  <2>7. /\ local'.test = t /\ local'.last = l /\ local'.step = 1 /\ local'.fail = 0 /\ local'.cnt = 0
    BY <2>3, <2>4, <2>5
  <2>8. t <= l => 1 \in 1 .. Len(Tests[t])
    <3>1. SUFFICES ASSUME t <= l PROVE 1 \in 1 .. Len(Tests[t])
      OBVIOUS
    <3>2. Len(Tests[t]) \in Nat \ {0}
      BY <2>6, <3>1, TestCalls
    <3>3. QED
      BY <3>2
  <2>9. 1 < MAX_FILES
    BY ImageFacts
  <2>10. SysOK(local', owned')
    BY <2>2, <2>6, <2>7, <2>8, <2>9, HeldFirst DEF SysOK
  <2>11. QED
    BY <2>1, <2>10 DEF SysInv
<1>2. CASE syserr_return
  <2>1. pc = "test" /\ pc' = "exit" /\ code' = local.fail
    BY <1>2 DEF syserr_return, At, Exit
  <2>2. local.fail = 0
    BY <1>0, <2>1 DEF SysInv, SysOK
  <2>3. QED
    BY <2>1, <2>2 DEF SysInv
<1>3. ASSUME InTest, pc' = "test", SysOK(local', owned') PROVE SysInv'
  BY <1>3 DEF SysInv
<1>4. ASSUME InTest
      PROVE  /\ SysOK(local, owned) /\ local.test \in 1 .. 8 /\ local.test <= local.last
             /\ local.step \in 1 .. Len(Tests[local.test])
  <2>1. SysOK(local, owned) /\ local.test <= local.last
    BY <1>4 DEF InTest, SysInv
  <2>2. QED
    BY <2>1 DEF SysOK
<1>5. PICK M : M = MAX_FILES /\ M \in Nat /\ M > 2
  BY ImageFacts
<1>6. /\ Len(Tests[3]) = 2 * M - 2
      /\ \A i \in 1 .. M - 1 : Tests[3][i] = Call("open", DOT, "count")
      /\ \A i \in M .. 2 * M - 3 : Tests[3][i] = Call("close", i - M + 2, "any")
      /\ Tests[3][2 * M - 2] = Call("tally", 0, "any")
  BY <1>5, OpenLotsCalls, TestCalls
<1>7. CASE syserr_tally
  <2>1. InTest /\ owned' = owned /\ pc' = "test"
    BY <1>7 DEF syserr_tally, Then, Goto, vars
  <2>2. /\ SysOK(local, owned) /\ local.test \in 1 .. 8 /\ local.test <= local.last
        /\ local.step \in 1 .. Len(Tests[local.test])
    BY <1>4, <2>1
  <2>3. Tests[local.test][local.step].call = "tally"
    BY <1>7 DEF syserr_tally
  <2>4. local.test = 3
    BY <2>2, <2>3, TestCalls DEF Refusable
  <2>5. local.step = 2 * M - 2
    <3>1. local.step \in 1 .. 2 * M - 2 /\ Tests[3][local.step].call = "tally"
      BY <1>6, <2>2, <2>3, <2>4
    <3>2. \A a, w : Call("open", a, w).call # "tally" /\ Call("close", a, w).call # "tally"
      BY DEF Call
    <3>3. ~ (local.step \in 1 .. M - 1)
      BY <1>6, <3>1, <3>2
    <3>4. ~ (local.step \in M .. 2 * M - 3)
      BY <1>6, <3>1, <3>2
    <3>5. QED
      BY <1>5, <3>1, <3>3, <3>4
  <2>6. owned' = {}
    BY <1>5, <2>1, <2>2, <2>4, <2>5, HeldLast DEF SysOK
  <2>7. local.cnt = 1 /\ local.fail = 0
    <3>1. ~ (local.step < MAX_FILES)
      BY <1>5, <2>5
    <3>2. QED
      BY <2>2, <2>4, <3>1 DEF SysOK
  <2>8. Then(0, local.cnt)
    BY <1>7, <2>7 DEF syserr_tally
  <2>9. ~ (local.step < Len(Tests[3]))
    BY <1>5, <1>6, <2>5
  <2>10. SysOK(local', owned')
    BY <2>2, <2>4, <2>6, <2>8, <2>9, SysThen
  <2>11. QED
    BY <1>3, <2>1, <2>10
<1>8. CASE syserr_call
  <2>1. InTest /\ pc' = "test"
    BY <1>8 DEF syserr_call, Then, Goto
  <2>2. /\ SysOK(local, owned) /\ local.test \in 1 .. 8 /\ local.test <= local.last
        /\ local.step \in 1 .. Len(Tests[local.test]) /\ local.fail = 0
    BY <1>4, <2>1 DEF SysOK
  <2>3. PICK c : c = Tests[local.test][local.step]
    OBVIOUS
  <2>4. /\ c.call # "tally" /\ Do(c)
        /\ Then(IF c.want = "fails" /\ last'.ret # -1 THEN 2 ELSE local.fail,
                IF c.want = "count" /\ last'.ret = -1 THEN local.cnt + 1 ELSE local.cnt)
    BY <1>8, <2>3 DEF syserr_call
  <2>5. CASE local.test # 3
    <3>1. Refusable(c)
      BY <2>2, <2>3, <2>5, TestCalls
    <3>2. owned = {}
      BY <2>2, <2>5 DEF SysOK
    <3>3. last'.ret = -1 /\ owned' = {}
      BY <1>0, <2>4, <3>1, <3>2, CallRefused
    <3>4. Then(0, local.cnt)
      BY <2>2, <2>4, <3>1, <3>3 DEF Refusable
    <3>5. local.test < 3 => local.cnt = 0
      BY <2>2 DEF SysOK
    <3>6. SysOK(local', owned')
      BY <2>2, <2>5, <3>3, <3>4, <3>5, SysThen
    <3>7. QED
      BY <1>3, <2>1, <3>6
  <2>6. CASE local.test = 3
    <3>1. PICK s : s = local.step
      OBVIOUS
    <3>2. /\ s \in 1 .. 2 * M - 2 /\ c = Tests[3][s] /\ owned = Held(s)
          /\ local.cnt = IF s < M THEN 0 ELSE 1
      BY <1>5, <1>6, <2>2, <2>3, <2>6, <3>1 DEF SysOK
    <3>3. s # 2 * M - 2
      BY <1>6, <2>4, <3>2 DEF Call
    <3>4. s < Len(Tests[3]) /\ s + 1 \in Nat
      BY <1>5, <1>6, <3>2, <3>3
    <3>5. ASSUME owned' = Held(s + 1), NEW cnt, cnt = IF s + 1 < M THEN 0 ELSE 1, Then(0, cnt)
          PROVE  SysInv'
      <4>1. ~ (local.test < 3) /\ ~ (local.test # 3)
        BY <2>6
      <4>2. /\ owned' = Held(local.step + 1) /\ local.step < Len(Tests[3])
            /\ cnt = IF local.step + 1 < MAX_FILES THEN 0 ELSE 1
        BY <1>5, <3>1, <3>4, <3>5
      <4>3. SysOK(local', owned')
        BY <2>2, <3>5, <4>1, <4>2, SysThen
      <4>4. QED
        BY <1>3, <2>1, <4>3
    <3>6. CASE s <= M - 1
      <4>1. c = Call("open", DOT, "count") /\ s \in 1 .. MAX_FILES - 1
        BY <1>5, <1>6, <3>2, <3>6
      <4>2. c.call = "open" /\ c.a = DOT /\ c.want = "count"
        BY <4>1 DEF Call
      <4>3. open(DOT)
        BY <2>4, <4>2 DEF Do
      <4>4. owned' = Held(s + 1) /\ (last'.ret = -1 <=> s = MAX_FILES - 1)
        BY <1>0, <3>2, <4>1, <4>3, OpensInOrder
      <4>5. local.cnt = 0
        BY <1>5, <3>2, <3>6
      <4>6. PICK cnt : cnt = IF last'.ret = -1 THEN local.cnt + 1 ELSE local.cnt
        OBVIOUS
      <4>7. Then(0, cnt)
        BY <2>2, <2>4, <4>2, <4>6
      <4>8. cnt = IF s + 1 < M THEN 0 ELSE 1
        BY <1>5, <3>2, <3>6, <4>4, <4>5, <4>6
      <4>9. QED
        BY <3>5, <4>4, <4>7, <4>8
    <3>7. CASE s > M - 1
      <4>1. s \in M .. 2 * M - 3
        BY <1>5, <3>2, <3>3, <3>7
      <4>2. c = Call("close", s - M + 2, "any")
        BY <1>6, <3>2, <4>1
      <4>3. c.call = "close" /\ c.a = s - M + 2 /\ c.want = "any"
        BY <4>2 DEF Call
      <4>4. syscall_close(s - MAX_FILES + 2)
        BY <1>5, <2>4, <4>3 DEF Do
      <4>5. owned' = Held(s + 1)
        BY <1>0, <1>5, <3>2, <4>1, <4>4, ClosesInOrder
      <4>6. local.cnt = 1 /\ ~ (s + 1 < M)
        BY <1>5, <3>2, <4>1
      <4>7. Then(0, local.cnt)
        BY <2>2, <2>4, <4>3
      <4>8. QED
        BY <3>5, <4>5, <4>6, <4>7
    <3>8. QED
      BY <1>5, <3>2, <3>6, <3>7
  <2>7. QED
    BY <2>5, <2>6
<1>9. QED
  BY <1>1, <1>2, <1>7, <1>8 DEF Syserr

(* "Overall Tests: PASS": whichever of the error tests are chosen and       *)
(* whatever programs ran before, ended or were cut off by an exception,     *)
(* every call the tests expect to fail does, and exactly one of the         *)
(* MAX_FILES - 1 opens: for any number of descriptors and any image that    *)
(* has "." and none of the names err_open tries.                            *)
THEOREM SyserrAlwaysPasses == ProgSpec => []SyserrPasses
<1>1. ProgInit => SysInv
  BY DEF ProgInit, SysInv
<1>2. ASSUME BaseInv, SysInv, [ProgNext]_allvars PROVE SysInv'
  <2>0. Inv
    BY <1>2 DEF BaseInv
  <2>1. ASSUME prog' # "syserr" PROVE SysInv'
    BY <2>1 DEF SysInv
  <2>2. CASE execute
    <3>1. pc' = "main"
      BY <2>2 DEF execute, Starts
    <3>2. QED
      BY <3>1 DEF SysInv
  <2>3. CASE NotFound \/ halt
    BY <2>1, <2>3 DEF NotFound, halt, Leaves
  <2>4. CASE Fault
    BY <2>1, <2>4 DEF Fault, Leaves
  <2>5. CASE UNCHANGED allvars
    BY <1>2, <2>5 DEF SysInv, allvars, pvars, vars
  <2>6. CASE cat_main \/ ls_main \/ cat_loop \/ ls_loop
    BY <2>0, <2>1, <2>6, CatSteps
  <2>7. CASE Grep
    BY <1>2, <2>1, <2>7, GrepSteps DEF BaseInv
  <2>8. CASE Syserr
    BY <1>2, <2>8, SysSteps
  <2>9. CASE Fish
    BY <2>0, <2>1, <2>9, FishSteps
  <2>10. CASE Other
    BY <2>0, <2>1, <2>10, OtherSteps
  <2>11. QED
    BY <1>2, <2>2, <2>3, <2>4, <2>5, <2>6, <2>7, <2>8, <2>9, <2>10 DEF ProgNext
<1>3. SysInv => SyserrPasses
  BY DEF SysInv, SyserrPasses
<1>4. QED
  BY <1>1, <1>2, <1>3, BaseAlways, PTL DEF ProgSpec
=============================================================================
