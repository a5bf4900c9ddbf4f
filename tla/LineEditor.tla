------------------------------ MODULE LineEditor ------------------------------
(***************************************************************************)
(* The line editor of the interactive session (operator/menu.py:           *)
(* LineReader): the keys the operator strikes, the bytes a terminal makes  *)
(* of them, the key tokens read back from those bytes, and the line poll() *)
(* edits with them.  A Windows console hands over whole keys.              *)
(*                                                                         *)
(* A byte or a character is a string: "a" stands for every character of    *)
(* one byte, "e2" for one of two, whose bytes are "C3" and "A9".  Bracketed *)
(* paste is left out: no sequence of bytes makes read_key return the key   *)
(* that starts one, see KeysAreNotText.                                    *)
(***************************************************************************)
EXTENDS Naturals, Sequences, SequencesExt

CONSTANTS
    Consoles,      \* of "posix", "nt"
    Strokes,       \* what the operator may strike
    MaxStrokes     \* bound: strokes of the session

Chars == {"a", "e2", " "}
Escaped == {"up", "down", "left", "right", "home", "end", "delete"}
Control == {"enter", "backspace", "esc", "ctrl_a", "ctrl_b", "ctrl_e", "ctrl_f",
            "ctrl_k", "ctrl_u", "ctrl_w"}

(* What the constants must satisfy, assumed by Channels                   *)
EditorAssumption ==
    /\ Consoles \subseteq {"posix", "nt"}
    /\ Strokes \subseteq Chars \cup Escaped \cup Control
    /\ MaxStrokes \in Nat

VARIABLES
    console,
    strokes,       \* struck so far
    wire,          \* bytes (nt: keys) that arrived and are not read yet
    partial,       \* the bytes of the key being read
    buf, pos,      \* _buf, _pos
    history, histIdx, draft,
    returned,      \* the lines poll returned
    meant          \* the operator's view: the lines, the one that is being
                   \* typed, and whether the two are known to be apart

line == <<buf, pos, history, histIdx, draft>>
vars == <<console, strokes, wire, partial, line, returned, meant>>

NoLine == [left |-> <<>>, right |-> <<>>, sure |-> TRUE]

Init ==
    /\ console \in Consoles
    /\ strokes = 0 /\ wire = <<>> /\ partial = <<>>
    /\ buf = <<>> /\ pos = 0
    /\ history = <<>> /\ histIdx = 0 /\ draft = <<>>
    /\ returned = <<>>
    /\ meant = [now |-> NoLine, lines |-> <<>>, apart |-> TRUE]

-----------------------------------------------------------------------------
(* The operator and the terminal.                                          *)

(* The final byte of the sequence a named key sends after ESC [.           *)
Final(key) ==
    CASE key = "up" -> "A" [] key = "down" -> "B" [] key = "right" -> "C"
      [] key = "left" -> "D" [] key = "home" -> "H" [] key = "end" -> "F"
      [] OTHER -> "~"

Bytes(stroke) ==
    CASE stroke = "e2" -> <<"C3", "A9">>
      [] stroke = "delete" -> <<"esc", "[", "3", "~">>
      [] stroke \in Escaped \ {"delete"} -> <<"esc", "[", Final(stroke)>>
      [] OTHER -> <<stroke>>

WithoutBlanks(s) ==
    LET last == {i \in DOMAIN s : s[i] # " "}
    IN IF last = {} THEN <<>> ELSE SubSeq(s, 1, CHOOSE i \in last : \A j \in last : j <= i)

(* Up to the word before the end: the blanks and the word after the last    *)
(* blank go.                                                               *)
BeforeLastWord(s) ==
    LET head == WithoutBlanks(s)
        blanks == {i \in DOMAIN head : head[i] = " "}
    IN IF blanks = {} THEN <<>>
       ELSE SubSeq(head, 1, (CHOOSE i \in blanks : \A j \in blanks : j <= i) - 1)

(* What a stroke does to a line, seen by the one who strikes: the text left *)
(* and right of the cursor.                                                *)
Typed(m, stroke) ==
    LET l == m.left
        r == m.right
    IN CASE stroke \in Chars -> [m EXCEPT !.left = Append(l, stroke)]
         [] stroke = "backspace" /\ l # <<>> -> [m EXCEPT !.left = Front(l)]
         [] stroke = "delete" /\ r # <<>> -> [m EXCEPT !.right = Tail(r)]
         [] stroke \in {"left", "ctrl_b"} /\ l # <<>> ->
              [m EXCEPT !.left = Front(l), !.right = <<Last(l)>> \o r]
         [] stroke \in {"right", "ctrl_f"} /\ r # <<>> ->
              [m EXCEPT !.left = Append(l, Head(r)), !.right = Tail(r)]
         [] stroke \in {"home", "ctrl_a"} -> [m EXCEPT !.left = <<>>, !.right = l \o r]
         [] stroke \in {"end", "ctrl_e"} -> [m EXCEPT !.left = l \o r, !.right = <<>>]
         [] stroke = "ctrl_u" -> [m EXCEPT !.left = <<>>, !.right = <<>>]
         [] stroke = "ctrl_k" -> [m EXCEPT !.right = <<>>]
         [] stroke = "ctrl_w" -> [m EXCEPT !.left = BeforeLastWord(l)]
         [] OTHER -> m

(* Recalled lines, and what a posix terminal makes of a named key, are      *)
(* what the editor makes of them: of such a line nothing is claimed, and   *)
(* after an Esc, which may swallow an Enter struck ahead, of none.         *)
Unclear(stroke) ==
    stroke \in {"up", "down"} \/ (console = "posix" /\ stroke \in Escaped)

Strike(stroke) ==
    /\ strokes < MaxStrokes
    /\ strokes' = strokes + 1
    /\ wire' = wire \o (IF console = "nt" THEN <<stroke>> ELSE Bytes(stroke))
    /\ LET apart == meant.apart /\ ~(console = "posix" /\ stroke = "esc")
           now == [Typed(meant.now, stroke) EXCEPT !.sure = @ /\ apart /\ ~Unclear(stroke)]
       IN meant' = IF stroke = "enter"
                   THEN [now |-> [NoLine EXCEPT !.sure = apart],
                         lines |-> Append(meant.lines, meant.now), apart |-> apart]
                   ELSE [meant EXCEPT !.now = now, !.apart = apart]
    /\ UNCHANGED <<console, partial, line, returned>>

-----------------------------------------------------------------------------
(* read_key.                                                               *)

(* The bytes 0x40-0x7E that end an escape sequence; "[" is one of them.    *)
Finals == {"[", "A", "B", "C", "D", "F", "H", "~", "a"}

DecodeEscape(rest) ==
    LET keys == {key \in Escaped : Bytes(key) = <<"esc">> \o rest}
    IN IF keys = {} THEN "esc" ELSE CHOOSE key \in keys : TRUE

(* Whether the bytes read are a key already (of a character of two bytes    *)
(* the second is waited for).                                              *)
Complete(bytes) ==
    \/ console = "nt"
    \/ bytes[1] = "esc" /\ Len(bytes) > 1 /\ Last(bytes) \in Finals
    \/ bytes[1] # "esc" /\ bytes # <<"C3">>

KeyOf(bytes) ==
    CASE console = "posix" /\ bytes[1] = "esc" -> DecodeEscape(Tail(bytes))
      [] bytes = <<"C3", "A9">> -> "e2"
      [] OTHER -> bytes[1]

-----------------------------------------------------------------------------
(* poll: what a key does to the line.                                      *)

SetLine(text, at) == buf' = text /\ pos' = at

Left == SubSeq(buf, 1, pos)
Right == SubSeq(buf, pos + 1, Len(buf))

(* Esc and Tab.                                                            *)
Ignored(key) ==
    /\ key = "esc"
    /\ UNCHANGED <<line, returned>>

(* A line that is not blank and not the last one again is remembered.       *)
Enter(key) ==
    /\ key = "enter"
    /\ returned' = Append(returned, buf)
    /\ history' = IF WithoutBlanks(buf) # <<>> /\ (history = <<>> \/ Last(history) # buf)
                  THEN Append(history, buf) ELSE history
    /\ histIdx' = 0 /\ draft' = <<>>
    /\ SetLine(<<>>, 0)

(* _history_nav(1), with the oldest line first; the draft is kept.          *)
Up(key) ==
    /\ key = "up"
    /\ IF history = <<>> THEN UNCHANGED line
       ELSE /\ draft' = IF histIdx = 0 THEN buf ELSE draft
            /\ IF histIdx < Len(history)
               THEN /\ histIdx' = histIdx + 1
                    /\ SetLine(history[histIdx + 1], Len(history[histIdx + 1]))
               ELSE UNCHANGED <<histIdx, buf, pos>>
            /\ UNCHANGED history
    /\ UNCHANGED returned

(* _history_nav(-1): below the first entry the draft comes back, also when  *)
(* the line is live and no draft was kept.                                 *)
Down(key) ==
    /\ key = "down"
    /\ IF history = <<>> THEN UNCHANGED line
       ELSE /\ IF histIdx > 1
               THEN /\ histIdx' = histIdx - 1
                    /\ SetLine(history[histIdx - 1], Len(history[histIdx - 1]))
               ELSE histIdx' = 0 /\ SetLine(draft, Len(draft))
            /\ UNCHANGED <<history, draft>>
    /\ UNCHANGED returned

Kept == UNCHANGED <<history, histIdx, draft, returned>>

Move(key) ==
    /\ \/ key \in {"left", "ctrl_b"} /\ pos' = (IF pos > 0 THEN pos - 1 ELSE 0)
       \/ key \in {"right", "ctrl_f"} /\ pos' = (IF pos < Len(buf) THEN pos + 1 ELSE pos)
       \/ key \in {"home", "ctrl_a"} /\ pos' = 0
       \/ key \in {"end", "ctrl_e"} /\ pos' = Len(buf)
    /\ UNCHANGED buf /\ Kept

(* faulty: what is left of the cursor goes, the cursor stays.               *)
BackspaceStays(key) ==
    /\ key = "backspace" /\ pos > 0
    /\ SetLine(Front(Left) \o Right, IF pos < Len(buf) THEN pos ELSE pos - 1)
    /\ Kept

Backspace(key) ==
    /\ key = "backspace" /\ pos > 0
    /\ SetLine(Front(Left) \o Right, pos - 1)
    /\ Kept

NothingToDelete(key) ==
    /\ (key = "backspace" /\ pos = 0) \/ (key = "delete" /\ Right = <<>>)
    /\ UNCHANGED <<line, returned>>

Delete(key) ==
    /\ key = "delete" /\ Right # <<>>
    /\ SetLine(Left \o Tail(Right), pos)
    /\ Kept

(* Ctrl-U, Ctrl-K, Ctrl-W.                                                 *)
Kill(key) ==
    /\ \/ key = "ctrl_u" /\ SetLine(<<>>, 0)
       \/ key = "ctrl_k" /\ SetLine(Left, pos)
       \/ key = "ctrl_w" /\ SetLine(BeforeLastWord(Left) \o Right, Len(BeforeLastWord(Left)))
    /\ Kept

(* Everything else is text, also what was left of an escape sequence.       *)
Insert(key) ==
    /\ key \notin Escaped \cup Control
    /\ SetLine(Append(Left, key) \o Right, pos + 1)
    /\ Kept

Edit(key) ==
    \/ Ignored(key) \/ Enter(key) \/ Up(key) \/ Down(key) \/ Move(key) \/ Backspace(key)
    \/ NothingToDelete(key) \/ Delete(key) \/ Kill(key) \/ Insert(key)

-----------------------------------------------------------------------------
ReadByte ==
    /\ wire # <<>>
    /\ ~Complete(Append(partial, Head(wire)))
    /\ partial' = Append(partial, Head(wire)) /\ wire' = Tail(wire)
    /\ UNCHANGED <<console, strokes, line, returned, meant>>

ReadKey ==
    /\ wire # <<>>
    /\ Complete(Append(partial, Head(wire)))
    /\ Edit(KeyOf(Append(partial, Head(wire))))
    /\ partial' = <<>> /\ wire' = Tail(wire)
    /\ UNCHANGED <<console, strokes, meant>>

(* Nothing follows the ESC for 50 ms: it is a key, and what followed it     *)
(* without ending a sequence is dropped.                                   *)
EscapeTimesOut ==
    /\ partial # <<>> /\ partial[1] = "esc" /\ wire = <<>>
    /\ Ignored("esc")
    /\ partial' = <<>>
    /\ UNCHANGED <<console, strokes, wire, meant>>

(* Ctrl-C.  On posix it is a signal (the terminal keeps ISIG): the terminal *)
(* drops what was not read, and the line stays; on nt it is a key, and the  *)
(* line goes (_abort_line).                                                *)
Interrupt ==
    /\ strokes < MaxStrokes /\ strokes' = strokes + 1
    /\ \/ /\ console = "posix"
          /\ wire' = <<>> /\ partial' = <<>>
          /\ meant' = [meant EXCEPT !.now.sure = FALSE,
                                    !.lines = SubSeq(@, 1, Len(returned))]
          /\ UNCHANGED line
       \/ /\ console = "nt" /\ wire = <<>>
          /\ SetLine(<<>>, 0) /\ histIdx' = 0 /\ draft' = <<>>
          /\ meant' = [meant EXCEPT !.now = [NoLine EXCEPT !.sure = meant.apart]]
          /\ UNCHANGED <<wire, partial, history>>
    /\ UNCHANGED <<console, returned>>

Next ==
    \/ \E stroke \in Strokes : Strike(stroke)
    \/ ReadByte \/ ReadKey \/ EscapeTimesOut \/ Interrupt

Spec == Init /\ [][Next]_vars

-----------------------------------------------------------------------------
TypeOK ==
    /\ pos \in 0..Len(buf)
    /\ histIdx \in 0..Len(history)
    /\ partial # <<>> => console = "posix" /\ ~Complete(partial)
    /\ Len(meant.lines) >= Len(returned)

(* The line is what was typed: when everything struck has been read, the    *)
(* buffer and the cursor are those of the operator's own account of the     *)
(* strokes, and poll returns the lines as they were typed, in their order,  *)
(* however a character's bytes are read and whatever was struck ahead       *)
(* (poll, _insert, _decode_utf8).                                          *)
LineIsTyped ==
    /\ (wire = <<>> /\ partial = <<>> /\ meant.now.sure) =>
          /\ Left = meant.now.left /\ Right = meant.now.right
          /\ Len(returned) = Len(meant.lines)
    /\ \A i \in DOMAIN returned :
          meant.lines[i].sure => returned[i] = meant.lines[i].left \o meant.lines[i].right

(* A key is not text: what a named key sends never lands in the line ("Read *)
(* a full CSI/SS3 sequence", _read_csi, menu.py:222-224).  It is not so:    *)
(* "[" is itself in 0x40-0x7E, so every sequence ends after its first byte  *)
(* and the rest of it is typed into the line.                              *)
KeysAreNotText == \A i \in DOMAIN buf : buf[i] \in Chars
=============================================================================
