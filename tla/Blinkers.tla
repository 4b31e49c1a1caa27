------------------------------ MODULE Blinkers -------------------------------
(***************************************************************************)
(* What the blinking-character driver of fish (src/fish/blink.S) promises:  *)
(* a collection of blinkers, newest first, whatever holds it in memory.  A  *)
(* blinker is on for on_length ticks and off for off_length; a command      *)
(* names a location and means its newest blinker.                           *)
(***************************************************************************)
EXTENDS Integers, Sequences

CONSTANTS MaxBlinkers,   \* blink_array holds 80*25
          Places,        \* 80*25 places on the screen
          Structs        \* what programs add: [location, on_char, off_char, on_length, off_length]

VARIABLE blinkers

Init == blinkers = <<>>

New(u) == [location |-> u.location, on_length |-> u.on_length, off_length |-> u.off_length,
           countdown |-> u.on_length, status |-> 1]

At(location) == {i \in DOMAIN blinkers : blinkers[i].location = location}
Newest(location) == CHOOSE i \in At(location) : \A j \in At(location) : i <= j

Add(u) == /\ u.location < Places /\ Len(blinkers) < MaxBlinkers
          /\ blinkers' = <<New(u)>> \o blinkers

Remove(location) == /\ At(location) # {}
                    /\ blinkers' = [i \in 1 .. Len(blinkers) - 1 |->
                                      blinkers[IF i < Newest(location) THEN i ELSE i + 1]]

(* to goes on in step with from. *)
Sync(from, to) ==
  /\ At(from) # {} /\ At(to) # {}
  /\ blinkers' = [blinkers EXCEPT ![Newest(to)] = [blinkers[Newest(from)] EXCEPT !.location = to]]

(* A phase of length 0 lasts one tick, as one of length 1 does. *)
Ticked(b) ==
  IF b.countdown > 1    THEN [b EXCEPT !.countdown = @ - 1]
  ELSE IF b.status = 1  THEN [b EXCEPT !.status = 0, !.countdown = b.off_length]
  ELSE                       [b EXCEPT !.status = 1, !.countdown = b.on_length]
Tick == blinkers' = [i \in DOMAIN blinkers |-> Ticked(blinkers[i])]

Named == {u.location : u \in Structs}

Next == \/ Tick
        \/ \E u \in Structs : Add(u)
        \/ \E l \in Named : Remove(l)
        \/ \E l, m \in Named : Sync(l, m)

Spec == Init /\ [][Next]_blinkers
=============================================================================
