-------------------------------- MODULE Blink --------------------------------
(***************************************************************************)
(* The driver fish links (src/fish/blink.S with mp1_malloc and mp1_free of  *)
(* fish.c): blinkers in the slots of blink_array, threaded on a list from   *)
(* mp1_list_head.  A slot is free when its location is 0.  The program      *)
(* calls mp1_ioctl with one of four commands and mp1_rtc_tasklet after each *)
(* tick it has read.                                                        *)
(***************************************************************************)
EXTENDS Integers, Sequences

CONSTANTS Slots,       \* fish.c: 80*25 structures
          Places,      \* blink.S: 80*25
          SignBit,     \* the sign bit of countdown, a word: 2^15
          Structs      \* what the program adds

ASSUME BlinkConstants ==
  /\ Slots \in Nat \ {0} /\ Places \in Nat \ {0} /\ SignBit \in Nat \ {0}
  /\ \A u \in Structs : /\ u.location \in Nat /\ u.on_char \in Nat /\ u.off_char \in Nat
                        /\ {u.on_length, u.off_length} \subseteq 0 .. 2 * SignBit - 1

Slot == 1 .. Slots
NULL == 0
Locations == 0 .. Places - 1
Named == {u.location : u \in Structs} \cap Locations     \* what the commands name

VARIABLES blink_array, mp1_list_head,
          screen,          \* the character at each location
          age, glitch,     \* history, of slots: ticks in this phase; synced in this phase
          twins            \* history: were two blinkers ever at one location?

vars == <<blink_array, mp1_list_head, screen, age, glitch, twins>>

Zero == [location |-> 0, on_char |-> 0, off_char |-> 0, on_length |-> 0, off_length |-> 0,
         countdown |-> 0, status |-> 0, next |-> NULL]

Init == /\ blink_array = [s \in Slot |-> Zero]
        /\ mp1_list_head = NULL
        /\ screen = [l \in Locations |-> 0]
        /\ age = [s \in Slot |-> 0] /\ glitch = [s \in Slot |-> FALSE]
        /\ twins = FALSE

(* The slots on the list, in its order. *)
List == LET at[n \in Slot] == IF n = 1 THEN mp1_list_head
                              ELSE IF at[n - 1] = NULL THEN NULL ELSE blink_array[at[n - 1]].next
        IN [n \in {m \in Slot : at[m] # NULL} |-> at[n]]

Least(S)    == CHOOSE i \in S : \A j \in S : i <= j
Greatest(S) == CHOOSE i \in S : \A j \in S : j <= i

mp1_find_helper(location) ==
  LET list  == List
      found == {i \in DOMAIN list : blink_array[list[i]].location = location}
  IN IF found = {} THEN NULL ELSE list[Least(found)]

mp1_malloc == LET free == {s \in Slot : blink_array[s].location = 0}
              IN IF free = {} THEN NULL ELSE Least(free)

(* The command returns -1. *)
Fails == UNCHANGED vars
-----------------------------------------------------------------------------
(* The structure as it goes into the list. *)
Linked(u) == [location |-> u.location, on_char |-> u.on_char, off_char |-> u.off_char,
              on_length |-> u.on_length, off_length |-> u.off_length,
              countdown |-> u.on_length, status |-> 1, next |-> mp1_list_head]

mp1_ioctl_add(u) ==
  \/ /\ u.location >= Places \/ mp1_malloc = NULL
     /\ Fails
  \/ /\ u.location < Places
     /\ \E s \in Slot :
          /\ s = mp1_malloc
          /\ blink_array' = [blink_array EXCEPT ![s] = Linked(u)]
          /\ mp1_list_head' = s
          /\ screen' = [screen EXCEPT ![u.location] = u.on_char]
          /\ age' = [age EXCEPT ![s] = 0] /\ glitch' = [glitch EXCEPT ![s] = FALSE]
     /\ twins' = (twins \/ mp1_find_helper(u.location) # NULL)

(* Mutant: NEXT is read after mp1_free. *)
UnlinkedFreed(s) ==
  LET list == List
  IN /\ mp1_list_head' = IF mp1_list_head = s THEN NULL ELSE mp1_list_head
     /\ blink_array' = [r \in Slot |->
          IF r = s THEN Zero
          ELSE IF mp1_list_head # s /\ blink_array[r].next = s /\ \E i \in DOMAIN list : list[i] = r
               THEN [blink_array[r] EXCEPT !.next = NULL]
          ELSE blink_array[r]]

(* The slot is unlinked from the one before it, or from the head, and       *)
(* mp1_free zeroes it.                                                      *)
Unlinked(s) ==
  LET next == blink_array[s].next
      list == List
  IN /\ mp1_list_head' = IF mp1_list_head = s THEN next ELSE mp1_list_head
     /\ blink_array' = [r \in Slot |->
          IF r = s THEN Zero
          ELSE IF mp1_list_head # s /\ blink_array[r].next = s /\ \E i \in DOMAIN list : list[i] = r
               THEN [blink_array[r] EXCEPT !.next = next]
          ELSE blink_array[r]]

mp1_ioctl_remove(location) ==
  \/ mp1_find_helper(location) = NULL /\ Fails
  \/ \E s \in Slot :
       /\ s = mp1_find_helper(location)
       /\ Unlinked(s)
       /\ age' = [age EXCEPT ![s] = 0] /\ glitch' = [glitch EXCEPT ![s] = FALSE]
       /\ UNCHANGED <<screen, twins>>

(* The character sync shows: cmovl after testb is never taken, the sign and *)
(* overflow flags being clear, so it is OFF_CHAR whatever the status.       *)
SyncChar(b) == b.off_char

mp1_ioctl_sync(from, to) ==
  LET esi == mp1_find_helper(from)
      edi == mp1_find_helper(to)
  IN \/ (esi = NULL \/ edi = NULL) /\ Fails
     \/ /\ esi # NULL /\ edi # NULL
        /\ LET a == blink_array[esi]
           IN /\ blink_array' = [blink_array EXCEPT
                   ![edi].on_length = a.on_length, ![edi].off_length = a.off_length,
                   ![edi].countdown = a.countdown, ![edi].status = a.status]
              /\ screen' = [screen EXCEPT ![blink_array[edi].location] = SyncChar(blink_array[edi])]
        /\ age' = [age EXCEPT ![edi] = age[esi]] /\ glitch' = [glitch EXCEPT ![edi] = TRUE]
        /\ UNCHANGED <<mp1_list_head, twins>>

(* find copies the structure out, or fails. *)
mp1_ioctl_find(location) ==
  LET s == mp1_find_helper(location) IN IF s = NULL THEN {} ELSE {blink_array[s]}
-----------------------------------------------------------------------------
(* decw, and jg: countdown is compared as a signed number. *)
DecrementedWide(n) == n - 1          \* mutant: no word is that small
Decremented(n) == (n - 1) % (2 * SignBit)
Expired(n)     == n = 0 \/ n >= SignBit

(* Mutant: the length loaded is that of the phase that has ended. *)
ToggledLate(b) == IF b.status = 1 THEN [b EXCEPT !.status = 0, !.countdown = b.on_length]
                  ELSE [b EXCEPT !.status = 1, !.countdown = b.off_length]

Toggled(b) == IF b.status = 1 THEN [b EXCEPT !.status = 0, !.countdown = b.off_length]
              ELSE [b EXCEPT !.status = 1, !.countdown = b.on_length]

(* Mutant: the status is turned over before the character is chosen. *)
ToggleCharLate(b) == IF b.status = 1 THEN b.on_char ELSE b.off_char
ToggleChar(b)     == IF b.status = 1 THEN b.off_char ELSE b.on_char

mp1_rtc_tasklet ==
  LET list == List
      due  == {i \in DOMAIN list : Expired(Decremented(blink_array[list[i]].countdown))}
      Listed  == {list[i] : i \in DOMAIN list}
      Due     == {list[i] : i \in due}
      Here(l) == {i \in due : blink_array[list[i]].location = l}
  IN /\ blink_array' = [s \in Slot |->
          CASE s \in Due -> Toggled(blink_array[s])
            [] s \in Listed \ Due -> [blink_array[s] EXCEPT !.countdown = Decremented(@)]
            [] OTHER -> blink_array[s]]
     /\ screen' = [l \in Locations |-> IF Here(l) = {} THEN screen[l]
                                       ELSE ToggleChar(blink_array[list[Greatest(Here(l))]])]
     /\ age' = [s \in Slot |-> IF s \in Due \/ s \notin Listed THEN 0 ELSE age[s] + 1]
     /\ glitch' = [s \in Slot |-> glitch[s] /\ s \notin Due]
     /\ UNCHANGED <<mp1_list_head, twins>>

Next == \/ \E u \in Structs : mp1_ioctl_add(u)
        \/ \E l \in Named : mp1_ioctl_remove(l)
        \/ \E l, m \in Named : mp1_ioctl_sync(l, m)
        \/ mp1_rtc_tasklet

Spec == Init /\ [][Next]_vars
-----------------------------------------------------------------------------
Struct == [location : Nat, on_char : Nat, off_char : Nat,
           on_length : 0 .. 2 * SignBit - 1, off_length : 0 .. 2 * SignBit - 1,
           countdown : 0 .. 2 * SignBit - 1, status : {0, 1}, next : 0 .. Slots]
TypeOK == /\ blink_array \in [Slot -> Struct]
          /\ mp1_list_head \in 0 .. Slots

(* The slots and the list are a collection of blinkers, newest first: no    *)
(* sequence of adds, removals, syncs and ticks loses one, leaves one behind *)
(* in a slot, closes the list on itself or lets a removal take another's     *)
(* place.                                                                   *)
Collection == INSTANCE Blinkers WITH
  MaxBlinkers <- Slots,
  blinkers <- LET list == List
              IN [i \in DOMAIN list |->
                    LET b == blink_array[list[i]]
                    IN [location |-> b.location, on_length |-> b.on_length, off_length |-> b.off_length,
                        countdown |-> b.countdown, status |-> b.status]]
Implements == Collection!Spec

(* What find reports of a location is what its place shows: on_char when   *)
(* the status is on, off_char when it is not, except that a blinker synced  *)
(* with a lit one shows its off_char until its next turn; places that had    *)
(* two blinkers are excluded.                                               *)
Face(b) == IF b.status = 1 THEN b.on_char ELSE b.off_char
ShownRight == ~ twins => \A l \in Named : \A b \in mp1_ioctl_find(l) :
   screen[l] = Face(b) \/ (glitch[mp1_find_helper(l)] /\ screen[l] = b.off_char)

(* sync_display (blink.S:284) shows the character of the status, lit or     *)
(* not, which the test before it is there to choose.                        *)
ShownAlways == ~ twins => \A l \in Named : \A b \in mp1_ioctl_find(l) : screen[l] = Face(b)

(* A phase is over after exactly its length in ticks (one tick when that is *)
(* 0), also for a blinker that was synced in the middle of it.              *)
PhaseLasts ==
  [][\A i \in DOMAIN List :
       LET s == List[i]
           b == blink_array[s]
           length == IF b.status = 1 THEN b.on_length ELSE b.off_length
           turned == blink_array'[s].location = b.location /\ blink_array'[s].status # b.status
       IN turned /\ ~ glitch'[s] => age[s] + 1 = IF length = 0 THEN 1 ELSE length]_vars
=============================================================================
