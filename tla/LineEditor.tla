----------------------------- MODULE LineEditor -----------------------------
(***************************************************************************)
(* The line editor of one terminal (terminal.c): the keyboard handler edits *)
(* buffer, term_read hands a finished line to the program, save_hist,       *)
(* up_hist and down_hist keep the history.  Beside it runs the editor the   *)
(* comments describe: want is the line the user has put together, at the   *)
(* cursor in it.                                                           *)
(***************************************************************************)
EXTENDS Integers, Sequences

CONSTANTS BUF_SIZE,     \* terminal.h: 128
          HIST_SIZE,    \* terminal.c: 50
          Chars,        \* printable characters
          Keys,         \* which keys the user presses, of AllKeys
          Executes,     \* does the program execute what it reads, as the shell does?
          TypeAhead,    \* may the user type before the program has read the line?
          DownBound,    \* bound: Down is pressed on lines up to this size
          SlipBound     \* bound: Backspace takes the size down to - SlipBound

AllKeys == {"char", "fn", "enter", "bs", "slip", "left", "right", "up", "down", "ctrl-l"}

Nul == "nul"
NL == "nl"
Space == "space"

ASSUME EditorConstants ==
  /\ BUF_SIZE \in Nat /\ BUF_SIZE > 1
  /\ HIST_SIZE \in Nat /\ HIST_SIZE > 0 /\ HIST_SIZE % 2 = 0
  /\ Chars \cap {Nul, NL, Space} = {}
  /\ Keys \subseteq AllKeys
  /\ DownBound \in Nat /\ SlipBound \in Nat
  /\ TypeAhead \in BOOLEAN /\ Executes \in BOOLEAN

Cells   == 0 .. BUF_SIZE - 1
Slots   == 0 .. HIST_SIZE - 1
Content == Chars \cup {Nul, NL, Space}

VARIABLES
  buffer, cur_pos, cur_size,
  col,                   \* screen cursor, counted from the mark (write_x, write_y)
  history,               \* history[i]: the text of slot i, <<>> when its first byte is 0
  hist_index, hist_bottom,
  reader,                \* the program: running, in term_read's loop, or let out of it
  want, at,              \* the described editor's line and cursor
  entered,               \* its line when Enter was last pressed
  clean, cleanRead,      \* were that line, and the finished one, put together as described?
  log, back              \* lines executed, and how far up the user has gone in them

edit   == <<buffer, cur_pos, cur_size, col>>
hist   == <<history, hist_index, hist_bottom>>
ghosts == <<want, at, entered, clean, cleanRead>>
recall == <<log, back>>
vars   == <<edit, hist, reader, ghosts, recall>>

Init ==
  /\ buffer = [i \in Cells |-> Nul]
  /\ cur_pos = 0 /\ cur_size = 0 /\ col = 0
  /\ history = [i \in Slots |-> <<>>]
  /\ hist_index = 0 /\ hist_bottom = 0
  /\ reader = "running"
  /\ want = <<>> /\ at = 0 /\ entered = <<>>
  /\ clean = TRUE /\ cleanRead = TRUE
  /\ log = <<>> /\ back = 0

(* Past the mark left by Enter, (0, 0), the cursor is always beyond it. *)
Far == 2 * BUF_SIZE

Pressed(key) == key \in Keys /\ (TypeAhead \/ reader # "ready")

(* A key that edits: from here the line is as described if c says so.  A key *)
(* pressed while the finished line still waits in the buffer spoils both.   *)
Edits(c) == /\ clean' = (c /\ reader # "ready")
            /\ cleanRead' = (cleanRead /\ reader # "ready")
-----------------------------------------------------------------------------
(* term_putc with a printable character; a function key without Alt arrives *)
(* here too, as a NUL.                                                      *)
RoomAlways == cur_pos < BUF_SIZE      \* mutant: one character too many

Room == cur_pos < BUF_SIZE - 1 /\ cur_size < BUF_SIZE - 1

(* Mutant: the rest of the line is not moved up. *)
OverwrittenCells(c) == [buffer EXCEPT ![cur_pos] = c]

InsertedCells(c) ==
  [i \in Cells |-> IF i = cur_pos THEN c
                   ELSE IF cur_pos < i /\ i <= cur_size THEN buffer[i - 1] ELSE buffer[i]]

Put(c) ==
  /\ Room
  /\ buffer' = InsertedCells(c)
  /\ cur_pos' = cur_pos + 1 /\ cur_size' = cur_size + 1 /\ col' = col + 1
  /\ want' = SubSeq(want, 1, at) \o <<c>> \o SubSeq(want, at + 1, Len(want))
  /\ at' = at + 1
  /\ Edits(clean /\ c # Nul)
  /\ UNCHANGED <<hist, reader, entered, recall>>

Type == Pressed("char") /\ \E c \in Chars : Put(c)
FnKey == Pressed("fn") /\ Put(Nul)

(* Mutant: the newline goes where the cursor is. *)
EnterAtCursor ==
  /\ Pressed("enter")
  /\ buffer' = [buffer EXCEPT ![cur_pos] = NL]
  /\ cur_pos' = 0 /\ cur_size' = 0 /\ col' = Far
  /\ reader' = IF reader = "waiting" THEN "ready" ELSE reader
  /\ entered' = IF reader = "waiting" THEN want ELSE entered
  /\ cleanRead' = (clean /\ reader # "ready")
  /\ want' = <<>> /\ at' = 0 /\ clean' = TRUE
  /\ UNCHANGED <<hist, recall>>

(* term_putc with Enter.  A second Enter before the copy overwrites the    *)
(* finished line: that line is lost.                                        *)
Enter ==
  /\ Pressed("enter")
  /\ buffer' = IF cur_size \in Cells THEN [buffer EXCEPT ![cur_size] = NL] ELSE buffer
  /\ cur_pos' = 0 /\ cur_size' = 0 /\ col' = Far
  /\ reader' = IF reader = "waiting" THEN "ready" ELSE reader
  /\ entered' = IF reader = "waiting" THEN want ELSE entered
  /\ cleanRead' = (clean /\ reader # "ready")
  /\ want' = <<>> /\ at' = 0 /\ clean' = TRUE
  /\ UNCHANGED <<hist, recall>>

(* term_putc with Backspace.  The comments' editor takes the last character *)
(* away at the end of the line and blanks one elsewhere.                    *)
AtEnd == cur_pos >= cur_size - 1

Backspaced ==
  LET bs_char == IF AtEnd THEN Nul ELSE Space
      pos     == IF cur_pos > 0 THEN cur_pos - 1 ELSE cur_pos
  IN /\ cur_size' = IF AtEnd THEN cur_size - 1 ELSE cur_size
     /\ cur_pos' = pos
     /\ buffer' = IF pos \in Cells THEN [buffer EXCEPT ![pos] = bs_char] ELSE buffer
     /\ col' = IF cur_pos > 0 /\ col > 0 THEN col - 1 ELSE col

WantBackspaced ==
  \/ /\ at = Len(want) /\ at > 0
     /\ want' = SubSeq(want, 1, at - 1) /\ at' = at - 1
  \/ /\ 0 < at /\ at < Len(want)
     /\ want' = [want EXCEPT ![at] = Space] /\ at' = at - 1
  \/ /\ at = 0 /\ want # <<>>
     /\ want' = [want EXCEPT ![1] = Space] /\ UNCHANGED at
  \/ want = <<>> /\ UNCHANGED <<want, at>>

(* A slip is a Backspace on an empty line or one place before its end. *)
IsSlip == Len(want) = 0 \/ at = Len(want) - 1

Backspace ==
  /\ cur_size > - SlipBound
  /\ IF IsSlip THEN Pressed("slip") ELSE Pressed("bs")
  /\ Backspaced
  /\ WantBackspaced
  /\ Edits(clean /\ ~ IsSlip)
  /\ UNCHANGED <<hist, reader, entered, recall>>

term_move_left ==
  /\ Pressed("left")
  /\ cur_pos > 0 /\ col > 0
  /\ cur_pos' = cur_pos - 1 /\ col' = col - 1
  /\ at' = IF at > 0 THEN at - 1 ELSE at
  /\ UNCHANGED <<buffer, cur_size, hist, reader, want, entered, clean, cleanRead, recall>>

term_move_right ==
  /\ Pressed("right")
  /\ cur_pos < cur_size
  /\ cur_pos' = cur_pos + 1 /\ col' = col + 1
  /\ at' = IF at < Len(want) THEN at + 1 ELSE at
  /\ UNCHANGED <<buffer, cur_size, hist, reader, want, entered, clean, cleanRead, recall>>

(* Ctrl-L: term_clear and term_init. *)
CtrlL ==
  /\ Pressed("ctrl-l")
  /\ buffer' = [i \in Cells |-> Nul]
  /\ cur_pos' = 0 /\ cur_size' = 0 /\ col' = 0
  /\ want' = <<>> /\ at' = 0
  /\ Edits(TRUE)
  /\ UNCHANGED <<hist, reader, entered, recall>>
-----------------------------------------------------------------------------
(* The program: the shell reads a line, executes it (which saves it in the *)
(* history) and writes its prompt, which moves the mark to the cursor.     *)

term_read_start ==
  /\ reader = "running"
  /\ reader' = "waiting" /\ col' = 0
  /\ UNCHANGED <<buffer, cur_pos, cur_size, hist, ghosts, recall>>

(* The first cell holding a newline or a NUL ends the line. *)
Ends == {i \in Cells : buffer[i] \in {NL, Nul}}
LineLen == IF Ends = {} THEN BUF_SIZE ELSE CHOOSE i \in Ends : \A j \in Ends : i <= j

ReadLine == [i \in 1 .. LineLen |-> buffer[i - 1]]

(* Mutant: the index stays on the slot just written. *)
save_hist_stay(text) ==
  LET slot == (hist_bottom + 1) % HIST_SIZE
  IN /\ history' = [history EXCEPT ![slot] = text]
     /\ hist_bottom' = slot
     /\ hist_index' = slot

save_hist(text) ==
  LET slot == (hist_bottom + 1) % HIST_SIZE
      next == (slot + 1) % HIST_SIZE
  IN /\ history' = [history EXCEPT ![slot] = text]
     /\ hist_bottom' = next
     /\ hist_index' = next

(* The end of term_read and the execute that follows it.  The shell asks    *)
(* for 1023 bytes and the buffer has BUF_SIZE, 128, so that numbytes never  *)
(* cuts a line.  Keys may arrive within the copying and between it and      *)
(* save_hist: Console takes both apart, cell by cell, and here they are one *)
(* step, as in a run in which none does.                                    *)
term_read_finish ==
  /\ reader = "ready"
  /\ reader' = "running"
  /\ buffer' = [i \in Cells |-> IF i <= LineLen THEN Nul ELSE buffer[i]]
  /\ \/ /\ Executes /\ ReadLine # <<>>
        /\ save_hist(ReadLine)
        /\ log' = LET l == Append(log, ReadLine)
                  IN IF Len(l) > HIST_SIZE \div 2 THEN Tail(l) ELSE l
        /\ back' = 0
     \/ (~ Executes \/ ReadLine = <<>>) /\ UNCHANGED <<hist, recall>>
  /\ entered' = <<>> /\ cleanRead' = TRUE
  /\ UNCHANGED <<cur_pos, cur_size, col, want, at, clean>>
-----------------------------------------------------------------------------
(* The arrow keys.  The loops step over empty slots, at most HIST_SIZE more *)
(* after the first.                                                         *)

SlotAt(i) == i % HIST_SIZE
Steps(dir) == {k \in 1 .. HIST_SIZE + 1 : history[SlotAt(hist_index + dir * k)] # <<>>}
FoundSlot(dir) ==
  IF Steps(dir) = {} THEN SlotAt(hist_index + dir * (HIST_SIZE + 1))
  ELSE SlotAt(hist_index + dir * (CHOOSE k \in Steps(dir) : \A j \in Steps(dir) : k <= j))

(* The slot's text is copied over the start of the buffer; pos and size are *)
(* where counting starts.                                                   *)
Restore(slot, pos, size) ==
  LET text == history[slot]
  IN /\ buffer' = [i \in Cells |-> IF i < Len(text) THEN text[i + 1] ELSE buffer[i]]
     /\ cur_pos' = pos + Len(text)
     /\ cur_size' = size + Len(text)
     /\ col' = Len(text)
     /\ want' = text /\ at' = Len(text)

up_hist ==
  /\ Pressed("up")
  /\ hist_index' = FoundSlot(-1)
  /\ \/ history[FoundSlot(-1)] # <<>> /\ Restore(FoundSlot(-1), 0, 0)
                                  /\ Edits(Len(history[FoundSlot(-1)]) < BUF_SIZE)
     \/ history[FoundSlot(-1)] = <<>> /\ UNCHANGED <<edit, want, at, clean, cleanRead>>
  /\ back' = IF log = <<>> THEN 0 ELSE (back % Len(log)) + 1
  /\ UNCHANGED <<history, hist_bottom, reader, entered, log>>

down_hist ==
  /\ Pressed("down")
  /\ cur_size <= DownBound
  /\ hist_index' = FoundSlot(1)
  /\ \/ history[FoundSlot(1)] # <<>> /\ Restore(FoundSlot(1), cur_pos, cur_size)
                                 /\ Edits(clean /\ want = <<>> /\ Len(history[FoundSlot(1)]) < BUF_SIZE)
     \/ history[FoundSlot(1)] = <<>> /\ UNCHANGED <<edit, want, at, clean, cleanRead>>
  /\ back' = IF back <= 1 THEN Len(log) ELSE back - 1
  /\ UNCHANGED <<history, hist_bottom, reader, entered, log>>
-----------------------------------------------------------------------------
Next == \/ Type \/ FnKey \/ Enter \/ Backspace \/ CtrlL
        \/ term_move_left \/ term_move_right \/ up_hist \/ down_hist
        \/ term_read_start \/ term_read_finish

Spec == Init /\ [][Next]_vars
-----------------------------------------------------------------------------
TypeOK ==
  /\ buffer \in [Cells -> Content]
  /\ cur_pos \in Nat /\ cur_size \in Int /\ col \in Nat
  /\ clean => cur_pos \in Cells /\ cur_size \in Cells
  /\ history \in [Slots -> Seq(Content)]
  /\ hist_index \in Slots /\ hist_bottom \in Slots
  /\ reader \in {"running", "waiting", "ready"}

(* The buffer holds the line the user has put together, with the cursor in  *)
(* it where the user sees it, after any mix of typing, inserting, moving,   *)
(* deleting and recalling (terminal.c:242, 281: "restores last buffer" and  *)
(* "next buffer from history").                                             *)
LineMatches ==
  /\ cur_size = Len(want) /\ cur_pos = at
  /\ \A i \in 1 .. Len(want) : buffer[i - 1] = want[i]

(* LineMatches holds of every line not spoiled by a slip, a function key's  *)
(* NUL, Down on a line already begun, the recall of a line that fills the   *)
(* buffer, or a key between Enter and term_read's copy; and no spoiling     *)
(* outlives the next Enter, Up or Ctrl-L.                                   *)
CleanLineMatches == clean => LineMatches

(* term_read is about to return "the last full terminal buffer terminated   *)
(* in a new line" (terminal.c:316): the line as it was when Enter was       *)
(* pressed.                                                                 *)
ReadReturnsLine == reader = "ready" => ReadLine = entered

(* ReadReturnsLine, for every line that was not spoiled, whatever happened  *)
(* to the lines before it.                                                  *)
CleanReadReturnsLine == cleanRead => ReadReturnsLine

(* Up and Down walk through the executed lines in order, newest first and   *)
(* around again, although every line takes two slots of the ring.           *)
HistoryOrder == back # 0 => history[hist_index] = log[Len(log) + 1 - back]
=============================================================================
