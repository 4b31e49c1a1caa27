------------------------------ MODULE Keyboard ------------------------------
(***************************************************************************)
(* key_handler (idt_funcs.c): how scan codes, modifier flags and the        *)
(* terminal on the screen decide what a key does.  Shift and Ctrl have a    *)
(* flag per terminal, set and cleared in whichever terminal is shown; Alt   *)
(* and Caps Lock have one for all.  held is what the user's fingers do.     *)
(***************************************************************************)
EXTENDS Integers

CONSTANT NUM_PROCESSES   \* terminals

ASSUME KeyboardConstants == NUM_PROCESSES \in Nat \ {0}

Terms     == 0 .. NUM_PROCESSES - 1
Local     == {"shift_l", "shift_r", "ctrl"}     \* one flag per terminal
Modifiers == Local \cup {"alt"}

VARIABLES flag,              \* flag[m][t] for m in Local
          alt_flag, caps_lock_flag,
          current_terminal,
          held,              \* the modifiers that are down
          carried,           \* history: carried[m] are the terminals left or entered with m
                             \* down in which m was neither pressed nor released since
          did                \* what the last key did

vars == <<flag, alt_flag, caps_lock_flag, current_terminal, held, carried, did>>

Nothing == [what |-> "nothing", upper |-> FALSE]

Init == /\ flag = [m \in Local |-> [t \in Terms |-> FALSE]]
        /\ alt_flag = FALSE /\ caps_lock_flag = FALSE
        /\ current_terminal = 0
        /\ held = {} /\ carried = [m \in Local |-> {}] /\ did = Nothing
-----------------------------------------------------------------------------
Settled(m) == carried' = [carried EXCEPT ![m] = @ \ {current_terminal}]

Press(m) ==
  /\ m \notin held
  /\ held' = held \cup {m} /\ did' = Nothing
  /\ \/ m = "alt" /\ alt_flag' = TRUE /\ UNCHANGED <<flag, carried>>
     \/ /\ m \in Local
        /\ flag' = [flag EXCEPT ![m][current_terminal] = TRUE]
        /\ Settled(m) /\ UNCHANGED alt_flag
  /\ UNCHANGED <<caps_lock_flag, current_terminal>>

(* Mutant: releasing Shift or Ctrl leaves the flag set. *)
ReleaseForgets(m) ==
  /\ m \in held
  /\ held' = held \ {m} /\ did' = Nothing
  /\ \/ m = "alt" /\ alt_flag' = FALSE /\ UNCHANGED carried
     \/ m \in Local /\ Settled(m) /\ UNCHANGED alt_flag
  /\ UNCHANGED <<flag, caps_lock_flag, current_terminal>>

Release(m) ==
  /\ m \in held
  /\ held' = held \ {m} /\ did' = Nothing
  /\ \/ m = "alt" /\ alt_flag' = FALSE /\ UNCHANGED <<flag, carried>>
     \/ /\ m \in Local
        /\ flag' = [flag EXCEPT ![m][current_terminal] = FALSE]
        /\ Settled(m) /\ UNCHANGED alt_flag
  /\ UNCHANGED <<caps_lock_flag, current_terminal>>

CapsLock == /\ caps_lock_flag' = ~ caps_lock_flag /\ did' = Nothing
            /\ UNCHANGED <<flag, alt_flag, current_terminal, held, carried>>

shift == flag["shift_l"][current_terminal] \/ flag["shift_r"][current_terminal]

(* A letter: Ctrl-L clears the screen before the case is looked at.         *)
Letter(isL) ==
  /\ did' = IF isL /\ flag["ctrl"][current_terminal]
            THEN [what |-> "clear", upper |-> FALSE]
            ELSE [what |-> "char", upper |-> shift # caps_lock_flag]
  /\ UNCHANGED <<flag, alt_flag, caps_lock_flag, current_terminal, held, carried>>

(* A digit or sign: shift2ASCII with Shift, whatever Caps Lock says. *)
Sign == /\ did' = [what |-> "sign", upper |-> shift]
        /\ UNCHANGED <<flag, alt_flag, caps_lock_flag, current_terminal, held, carried>>

(* F1 to F3: with Alt they switch the terminal (nothing when it is shown    *)
(* already); without, the tables give NUL, which term_putc inserts.         *)
FKey(n) ==
  /\ \/ /\ alt_flag
        /\ current_terminal' = n
        /\ carried' = [m \in Local |-> IF m \in held /\ n # current_terminal
                                      THEN carried[m] \cup {current_terminal, n}
                                      ELSE carried[m]]
        /\ did' = [what |-> "switch", upper |-> FALSE]
     \/ /\ ~ alt_flag
        /\ did' = [what |-> "nul", upper |-> FALSE]
        /\ UNCHANGED <<current_terminal, carried>>
  /\ UNCHANGED <<flag, alt_flag, caps_lock_flag, held>>

Next == \/ \E m \in Modifiers : Press(m) \/ Release(m)
        \/ CapsLock \/ Sign
        \/ \E isL \in BOOLEAN : Letter(isL)
        \/ \E n \in Terms : FKey(n)

Spec == Init /\ [][Next]_vars
-----------------------------------------------------------------------------
(* A key does what the modifiers under the user's fingers say: the case of  *)
(* a letter, the form of a sign, Ctrl-L.  The flags being per terminal, it  *)
(* does in a terminal that the modifier was carried into or out of (held    *)
(* across Alt-Fn) only after the modifier has been pressed or released      *)
(* there; and flags left over in other terminals, where it was carried, do  *)
(* no harm in this one.  Alt-Fn follows the fingers always.                 *)
ShiftHeld == held \cap {"shift_l", "shift_r"} # {}
Own(m)    == current_terminal \notin carried[m]
KeysFollowFingers ==
  [][did' # Nothing =>
       /\ did'.what = "char" /\ Own("shift_l") /\ Own("shift_r")
            => did'.upper = (ShiftHeld # caps_lock_flag)
       /\ did'.what = "sign" /\ Own("shift_l") /\ Own("shift_r") => did'.upper = ShiftHeld
       /\ did'.what = "clear" /\ Own("ctrl") => "ctrl" \in held
       /\ did'.what \in {"switch", "nul"} => (did'.what = "switch") = ("alt" \in held)]_vars

(* The same without the condition: a sign has its shifted form exactly when *)
(* Shift is down.  It fails in a terminal left with Shift down, whose flag  *)
(* the release in another terminal does not clear (idt_funcs.c:439).        *)
SignsFollowFingers == [][did'.what = "sign" => did'.upper = ShiftHeld]_vars
=============================================================================
