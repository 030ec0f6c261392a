---------------------------- MODULE ConsoleProofs ----------------------------
(***************************************************************************)
(* Proofs about Console, for every screen, every length of command[] and   *)
(* every set of keys.                                                      *)
(***************************************************************************)
EXTENDS Console, SequenceLemmas

(* The values of what the shell and keyboard_handler() share.              *)
Places == 0 .. CommandSize - 1
ShellPc == {"prompt", "poll", "exec", "wait", "stuck", "ready", "index", "empty"}

InputType ==
    /\ command \in [Places -> Keys \cup {NUL}]
    /\ command_index \in Places
    /\ command_ready \in {0, 1}
    /\ pc \in ShellPc
    /\ k \in Places
    /\ line \in Seq(Keys)
    /\ disturbed \in {"none", "release", "press"}

(* The keys of the line are the first command_index characters.            *)
LineStored ==
    /\ Len(line) = command_index
    /\ \A m \in 1 .. command_index : command[m - 1] = line[m]

(* QuietLineRuns is not inductive: it needs that the line has been in      *)
(* command[] and was ended there since Enter handed it over, that the      *)
(* shell clears command[] only when no line waits, and that AL is right    *)
(* when command_exec() starts to compare.                                  *)
QuietLine ==
    /\ LineStored
    /\ command_ready = 1 => command[command_index] = NUL
    /\ pc \in {"index", "empty"} => command_ready = 0
    /\ pc = "empty" => command_index = 0
    /\ pc \in {"exec", "wait", "stuck", "ready"} => command_ready = 1
    /\ pc = "exec" => ~clobbered
    /\ pc \in {"wait", "stuck", "ready"} => executed = line

LineInv == InputType /\ (disturbed = "none" => QuietLine)

(* NUL is no key.                                                          *)
LEMMA NulIsNoKey == NUL \notin Keys
BY CharsAssumption DEF NUL, Keys

(* A line that is stored and ended is the string in command[].             *)
LEMMA StoredLineIsRead ==
    ASSUME InputType, LineStored, command[command_index] = NUL
    PROVE  CommandString = line
<1> DEFINE ends == {c \in DOMAIN command : command[c] = NUL}
           len  == IF ends = {} THEN CommandSize ELSE Min(ends)
<1>1. /\ CommandSize \in Nat /\ command_index \in Nat
      /\ DOMAIN command = Places
      /\ line \in Seq(Keys)
  BY CommandAssumption DEF InputType, Places
<1>2. command_index \in ends /\ ends \subseteq Nat
  BY <1>1 DEF InputType, Places
<1>3. Min(ends) \in ends /\ Min(ends) <= command_index /\ Min(ends) \in Nat
  <2> HIDE DEF ends
  <2> QED BY <1>2, MinIsLeast
<1>4. \A c \in 0 .. command_index - 1 : command[c] # NUL
  <2>1. SUFFICES ASSUME NEW c \in 0 .. command_index - 1 PROVE command[c] # NUL
    OBVIOUS
  <2>2. c + 1 \in 1 .. command_index /\ (c + 1) - 1 = c
    BY <1>1
  <2>3. command[c] = line[c + 1] /\ line[c + 1] \in Keys
    BY <1>1, <2>2 DEF LineStored
  <2>4. QED
    BY <2>3, NulIsNoKey
<1>5. Min(ends) = command_index
  <2>1. command[Min(ends)] = NUL
    BY <1>3
  <2> HIDE DEF ends
  <2>2. ~ (Min(ends) < command_index)
    BY <1>1, <1>3, <1>4, <2>1
  <2>3. QED
    BY <1>1, <1>3, <2>2
<1>6. len = command_index
  BY <1>2, <1>5
<1>7. CommandString = [c \in 1 .. command_index |-> command[c - 1]]
  BY <1>6 DEF CommandString
<1>8. line = [c \in 1 .. command_index |-> line[c]]
  BY <1>1 DEF LineStored
<1>9. QED
  BY <1>7, <1>8 DEF LineStored

(* A step that changes nothing that the invariant speaks of.               *)
LEMMA QuietStep ==
    ASSUME LineInv, UNCHANGED <<input, shell, clobbered, history>>
    PROVE  LineInv'
BY DEF LineInv, InputType, QuietLine, LineStored, input, shell, history

(* A key that adds a character, while the shell waits or not.              *)
LEMMA TypedStep ==
    ASSUME LineInv, NEW c \in Keys, Typed(c), UNCHANGED shell
    PROVE  LineInv'
<1>1. /\ command' = [command EXCEPT ![command_index] = c]
      /\ command_index' = command_index + 1
      /\ command_ready' = command_ready
      /\ pc' = pc /\ k' = k /\ executed' = executed
      /\ disturbed' = IF Waiting THEN disturbed ELSE "press"
      /\ line' = IF disturbed' = "press" THEN <<>> ELSE Append(line, c)
      /\ command_index < CommandSize - 1
  BY DEF Typed, shell
<1>2. command_index \in Nat /\ CommandSize \in Nat
  BY CommandAssumption DEF LineInv, InputType, Places
<1>3. InputType'
  <2>1. command_index' \in Places
    BY <1>1, <1>2 DEF Places
  <2>2. command' \in [Places -> Keys \cup {NUL}]
    BY <1>1 DEF LineInv, InputType
  <2>3. line' \in Seq(Keys)
    BY <1>1 DEF LineInv, InputType
  <2>4. QED
    BY <1>1, <2>1, <2>2, <2>3 DEF LineInv, InputType
<1>4. ASSUME disturbed' = "none" PROVE QuietLine'
  <2>1. Waiting /\ disturbed = "none" /\ line' = Append(line, c)
    BY <1>1, <1>4
  <2>2. QuietLine /\ command_ready = 0 /\ pc \in {"prompt", "poll"}
    BY <2>1 DEF LineInv, Waiting
  <2>3. LineStored'
    <3>1. line \in Seq(Keys) /\ Len(line) = command_index
      BY <2>2 DEF LineInv, InputType, QuietLine, LineStored
    <3>2. Len(line') = command_index'
      BY <1>1, <2>1, <3>1
    <3>3. ASSUME NEW m \in 1 .. command_index' PROVE command'[m - 1] = line'[m]
      <4>1. CASE m = command_index + 1
        <5>1. m - 1 = command_index /\ line'[m] = c
          BY <1>2, <2>1, <3>1, <4>1
        <5>2. QED
          BY <1>1, <5>1 DEF LineInv, InputType
      <4>2. CASE m # command_index + 1
        <5>1. m \in 1 .. command_index
          BY <1>1, <1>2, <3>3, <4>2
        <5>2. m - 1 # command_index /\ m - 1 \in Places
          BY <1>1, <1>2, <5>1 DEF Places
        <5>3. line'[m] = line[m]
          BY <2>1, <3>1, <5>1
        <5>4. command'[m - 1] = command[m - 1]
          BY <1>1, <5>2 DEF LineInv, InputType
        <5>5. QED
          BY <2>2, <5>1, <5>3, <5>4 DEF QuietLine, LineStored
      <4>3. QED
        BY <4>1, <4>2
    <3>4. QED
      BY <3>2, <3>3 DEF LineStored
  <2>4. QED
    BY <1>1, <2>2, <2>3 DEF QuietLine
<1>5. QED
  BY <1>3, <1>4 DEF LineInv

(* A key that ends the string at command_index, and Enter hands it over.   *)
LEMMA EndedStep ==
    ASSUME LineInv, Pressed, UNCHANGED <<shell, command_index>>,
           command' = [command EXCEPT ![command_index] = NUL],
           command_ready' \in {command_ready, 1}
    PROVE  LineInv'
<1>1. /\ pc' = pc /\ k' = k /\ executed' = executed /\ command_index' = command_index
      /\ disturbed' = IF Waiting THEN disturbed ELSE "press"
      /\ line' = IF Waiting THEN line ELSE <<>>
  BY DEF Pressed, shell
<1>2. command \in [Places -> Keys \cup {NUL}] /\ command_index \in Places
  BY DEF LineInv, InputType
<1>3. InputType'
  <2>1. line' \in Seq(Keys)
    BY <1>1 DEF LineInv, InputType
  <2>2. command' \in [Places -> Keys \cup {NUL}]
    BY <1>2
  <2>3. QED
    BY <1>1, <2>1, <2>2 DEF LineInv, InputType
<1>4. ASSUME disturbed' = "none" PROVE QuietLine'
  <2>1. Waiting /\ disturbed = "none" /\ line' = line
    BY <1>1, <1>4
  <2>2. QuietLine /\ pc \in {"prompt", "poll"}
    BY <2>1 DEF LineInv, Waiting
  <2>3. command'[command_index'] = NUL
    BY <1>1, <1>2
  <2>4. ASSUME NEW m \in 1 .. command_index PROVE command'[m - 1] = line[m]
    <3>1. m - 1 # command_index /\ m - 1 \in Places
      BY <1>2, <2>4, CommandAssumption DEF Places
    <3>2. command'[m - 1] = command[m - 1]
      BY <1>2, <3>1
    <3>3. QED
      BY <2>2, <2>4, <3>2 DEF QuietLine, LineStored
  <2>5. QED
    BY <1>1, <2>1, <2>2, <2>3, <2>4 DEF QuietLine, LineStored
<1>5. QED
  BY <1>3, <1>4 DEF LineInv

(* An arrow key leaves the input alone; a key let go counts once the line  *)
(* has been handed over.                                                   *)
LEMMA ArrowStep ==
    ASSUME LineInv, Pressed, UNCHANGED <<shell, input>>
    PROVE  LineInv'
<1>1. /\ disturbed' = IF Waiting THEN disturbed ELSE "press"
      /\ line' = IF Waiting THEN line ELSE <<>>
      /\ UNCHANGED <<pc, k, executed, command, command_index, command_ready>>
  BY DEF Pressed, shell, input
<1>2. InputType'
  BY <1>1 DEF LineInv, InputType
<1>3. ASSUME disturbed' = "none" PROVE QuietLine'
  BY <1>1, <1>3 DEF LineInv, QuietLine, LineStored, Waiting
<1>4. QED
  BY <1>2, <1>3 DEF LineInv

LEMMA ReleasedStep ==
    ASSUME LineInv, Released, UNCHANGED <<shell, input>>
    PROVE  LineInv'
<1>1. /\ disturbed' = IF command_ready = 1 /\ disturbed = "none" THEN "release" ELSE disturbed
      /\ UNCHANGED <<line, pc, k, executed, command, command_index, command_ready>>
  BY DEF Released, shell, input
<1>2. InputType'
  BY <1>1 DEF LineInv, InputType
<1>3. ASSUME disturbed' = "none" PROVE QuietLine'
  BY <1>1, <1>3 DEF LineInv, QuietLine, LineStored
<1>4. QED
  BY <1>2, <1>3 DEF LineInv

(* keyboard_isr, with whatever key read() returns.                         *)
LEMMA KeyStep ==
    ASSUME LineInv, keyboard_isr
    PROVE  LineInv'
<1>1. UNCHANGED shell /\ keyboard_handler
  BY DEF keyboard_isr
<1>2. ASSUME NEW c \in Chars, KeyChar(c) PROVE LineInv'
  BY <1>1, <1>2, TypedStep DEF KeyChar, Keys
<1>3. CASE KeySpace
  BY <1>1, <1>3, TypedStep DEF KeySpace, Keys
<1>4. CASE KeyEnter
  BY <1>1, <1>4, EndedStep DEF KeyEnter
<1>5. CASE KeyBackspace
  BY <1>1, <1>5, EndedStep DEF KeyBackspace
<1>6. ASSUME NEW d, KeyArrow(d) PROVE LineInv'
  BY <1>1, <1>6, ArrowStep DEF KeyArrow
<1>7. CASE KeyNone
  BY <1>1, <1>7, ReleasedStep DEF KeyNone
<1>8. QED
  BY <1>1, <1>2, <1>3, <1>4, <1>5, <1>6, <1>7 DEF keyboard_handler

(* The steps of the shell.                                                 *)
LEMMA ShellStep ==
    ASSUME LineInv, Shell
    PROVE  LineInv'
<1> USE DEF ShellGoes, input, history
<1>1. CASE shell_poll \/ shell_poll_missed \/ shell_prompt
  <2>1. /\ UNCHANGED <<k, executed, command, command_index, command_ready, line, disturbed>>
        /\ clobbered' = FALSE
        /\ \/ pc' = "exec" /\ command_ready = 1
           \/ pc' = "poll"
    BY <1>1 DEF shell_poll, shell_poll_missed, shell_prompt
  <2>2. InputType'
    BY <2>1 DEF LineInv, InputType, ShellPc
  <2>3. ASSUME disturbed' = "none" PROVE QuietLine'
    BY <2>1, <2>3 DEF LineInv, QuietLine, LineStored
  <2>4. QED
    BY <2>2, <2>3 DEF LineInv
<1>2. CASE shell_exec
  <2>1. /\ UNCHANGED <<k, command, command_index, command_ready, line, disturbed>>
        /\ pc = "exec" /\ pc' \in {"wait", "ready"}
        /\ executed' = CommandString \/ clobbered
    BY <1>2 DEF shell_exec
  <2>2. InputType'
    BY <2>1 DEF LineInv, InputType, ShellPc
  <2>3. ASSUME disturbed' = "none" PROVE QuietLine'
    <3>1. InputType /\ QuietLine
      BY <2>1, <2>3 DEF LineInv
    <3>2. command_ready = 1 /\ ~clobbered /\ LineStored /\ command[command_index] = NUL
      BY <2>1, <3>1 DEF QuietLine
    <3>3. executed' = line
      BY <2>1, <3>1, <3>2, StoredLineIsRead
    <3>4. QED
      BY <2>1, <3>1, <3>2, <3>3 DEF QuietLine, LineStored
  <2>4. QED
    BY <2>2, <2>3 DEF LineInv
<1>3. CASE shell_ready
  <2>1. /\ UNCHANGED <<k, command, command_index, line, disturbed>>
        /\ pc' = "index" /\ command_ready' = 0
    BY <1>3 DEF shell_ready
  <2>2. InputType'
    BY <2>1 DEF LineInv, InputType, ShellPc
  <2>3. ASSUME disturbed' = "none" PROVE QuietLine'
    BY <2>1, <2>3 DEF LineInv, QuietLine, LineStored
  <2>4. QED
    BY <2>2, <2>3 DEF LineInv
<1>4. CASE shell_index
  <2>1. /\ UNCHANGED <<command, command_ready, executed>>
        /\ pc' = "empty" /\ command_index' = 0 /\ k' = 0 /\ line' = <<>>
        /\ disturbed' = IF command_ready = 0 THEN "none" ELSE "press"
    BY <1>4 DEF shell_index
  <2>2. InputType'
    <3>1. 0 \in Places
      BY CommandAssumption DEF Places
    <3>2. QED
      BY <2>1, <3>1 DEF LineInv, InputType, ShellPc
  <2>3. ASSUME disturbed' = "none" PROVE QuietLine'
    <3>1. command_ready' = 0
      BY <2>1, <2>3
    <3>2. LineStored'
      BY <2>1 DEF LineStored
    <3>3. QED
      BY <2>1, <3>1, <3>2 DEF QuietLine
  <2>4. QED
    BY <2>2, <2>3 DEF LineInv
<1>5. CASE shell_empty
  <2>1. /\ UNCHANGED <<command_index, command_ready, executed, line, disturbed>>
        /\ pc = "empty" /\ pc' \in {"prompt", "empty"}
        /\ k' = (k + 1) % CommandSize
        /\ command' = [command EXCEPT ![k] = NUL] \/ command' = command
    BY <1>5 DEF shell_empty
  <2>2. InputType'
    <3>1. k' \in Places
      BY <2>1, CommandAssumption DEF LineInv, InputType, Places
    <3>2. command' \in [Places -> Keys \cup {NUL}]
      BY <2>1 DEF LineInv, InputType
    <3>3. QED
      BY <2>1, <3>1, <3>2 DEF LineInv, InputType, ShellPc
  <2>3. ASSUME disturbed' = "none" PROVE QuietLine'
    <3>1. QuietLine /\ command_index = 0 /\ command_ready = 0
      BY <2>1, <2>3 DEF LineInv, QuietLine
    <3>2. LineStored'
      BY <2>1, <3>1 DEF QuietLine, LineStored
    <3>3. QED
      BY <2>1, <3>1, <3>2 DEF QuietLine
  <2>4. QED
    BY <2>2, <2>3 DEF LineInv
<1>6. CASE shell_wait
  <2>1. /\ UNCHANGED <<k, executed, command, command_index, command_ready, line, disturbed>>
        /\ pc \in {"wait", "stuck"} /\ pc' \in {"stuck", "ready"}
    BY <1>6 DEF shell_wait
  <2>2. InputType'
    BY <2>1 DEF LineInv, InputType, ShellPc
  <2>3. ASSUME disturbed' = "none" PROVE QuietLine'
    BY <2>1, <2>3 DEF LineInv, QuietLine, LineStored
  <2>4. QED
    BY <2>2, <2>3 DEF LineInv
<1>7. QED
  BY <1>1, <1>2, <1>3, <1>4, <1>5, <1>6 DEF Shell

(* keyboard_handler() and shell(): a line typed while the shell waited, no *)
(* interrupt following its Enter, is what command_exec() sees, for every   *)
(* length of command[], every number of lines and whatever was typed ahead *)
(* or left behind by an interrupted clearing.                              *)
THEOREM QuietLinesRun == Spec => []QuietLineRuns
<1>1. Init => LineInv
  <2> SUFFICES ASSUME Init PROVE LineInv
    OBVIOUS
  <2>1. InputType
    BY CommandAssumption DEF Init, InputType, Places, ShellPc
  <2>2. QuietLine
    BY DEF Init, QuietLine, LineStored
  <2>3. QED
    BY <2>1, <2>2 DEF LineInv
<1>2. LineInv /\ [Next]_vars => LineInv'
  <2> SUFFICES ASSUME LineInv, [Next]_vars PROVE LineInv'
    OBVIOUS
  <2>1. CASE sys_print \/ KeyFault \/ ProgramFault
    BY <2>1, QuietStep DEF sys_print, KeyFault, ProgramFault
  <2>2. CASE keyboard_isr
    BY <2>2, KeyStep
  <2>3. CASE Shell
    BY <2>3, ShellStep
  <2>4. CASE UNCHANGED vars
    BY <2>4, QuietStep DEF vars
  <2>5. QED
    BY <2>1, <2>2, <2>3, <2>4 DEF Next
<1>3. LineInv => QuietLineRuns
  BY DEF LineInv, QuietLine, QuietLineRuns
<1>4. QED
  BY <1>1, <1>2, <1>3, PTL DEF Spec
-----------------------------------------------------------------------------
(* Printing: cursors, and the ones on the screen of which nothing was      *)
(* written off it.                                                         *)
Cursors == [i : Int, j : Int, off : BOOLEAN]
SafeCursors == {c \in Cursors : c.i \in OnScreen /\ ~ c.off}

(* Between two digits the cursor may be just behind the screen.            *)
DigitCursors == {c \in Cursors : c.i \in 0 .. Size /\ ~ c.off}

LEMMA SizeIs == Cols \in Nat /\ Cols > 0 /\ Size \in Nat /\ Cols <= Size
<1>1. Cols \in Nat /\ Rows \in Nat /\ Cols > 0 /\ Rows > 0
  BY ScreenAssumption
<1>2. \A x \in Nat, y \in Nat : x > 0 /\ y > 0 => x <= x * y
  <2> SUFFICES ASSUME NEW x \in Nat, NEW y \in Nat, x > 0, y > 0 PROVE x <= x * y
    OBVIOUS
  <2>1. x * y = x * (y - 1) + x /\ x * (y - 1) \in Nat
    OBVIOUS
  <2>2. QED
    BY <2>1
<1>3. QED
  BY <1>1, <1>2 DEF Size

LEMMA RemIs ==
    ASSUME NEW a \in Int
    PROVE  Rem(a, Cols) \in Int /\ (a >= 0 => Rem(a, Cols) \in 0 .. Cols - 1 /\ Rem(a, Cols) <= a)
<1>1. Cols \in Nat /\ Cols > 0
  BY SizeIs
<1>2. CASE a >= 0
  <2>1. a % Cols \in 0 .. Cols - 1 /\ a % Cols <= a
    <3>1. a \in Nat /\ a % Cols \in 0 .. Cols - 1
      BY <1>1, <1>2
    <3>2. a = Cols * (a \div Cols) + (a % Cols) /\ a \div Cols \in Int
      BY <1>1
    <3>3. a \div Cols >= 0
      BY <1>1, <1>2
    <3>4. Cols * (a \div Cols) >= 0
      BY <1>1, <3>2, <3>3
    <3>5. QED
      BY <1>1, <3>1, <3>2, <3>4
  <2>2. QED
    BY <1>2, <2>1 DEF Rem
<1>3. CASE ~ (a >= 0)
  <2>1. (-a) % Cols \in Int
    BY <1>1
  <2>2. QED
    BY <1>3, <2>1 DEF Rem
<1>4. QED
  BY <1>2, <1>3

(* One character, newline or digit.                                        *)
LEMMA PrintsSafely ==
    ASSUME NEW c \in Cursors
    PROVE  /\ PrintNewline(c) \in Cursors /\ PrintChar(c) \in Cursors /\ PrintDigit(c) \in Cursors
           /\ c \in SafeCursors => PrintNewline(c) \in SafeCursors /\ PrintChar(c) \in SafeCursors
           /\ c \in DigitCursors => PrintDigit(c) \in DigitCursors
<1>1. Cols \in Nat /\ Cols > 0 /\ Size \in Nat /\ Cols <= Size
  BY SizeIs
<1>2. c.i \in Int /\ c.j \in Int /\ c.off \in BOOLEAN /\ Rem(c.i, Cols) \in Int
  BY RemIs DEF Cursors
<1>3. /\ PrintNewline(c).i = add_line_if_needed(c.i + Cols - Rem(c.i, Cols))
      /\ PrintNewline(c).off <=> c.off
      /\ PrintDigit(c).i = add_line_if_needed(c.i) + 1
      /\ PrintDigit(c).off <=> c.off \/ add_line_if_needed(c.i) \notin OnScreen
  BY DEF PrintNewline, PrintDigit, Cursors
<1>4. /\ PrintChar(c).i = add_line_if_needed(add_line_if_needed(c.i) + 1)
      /\ PrintChar(c).off <=> c.off \/ add_line_if_needed(c.i) \notin OnScreen
  BY DEF PrintChar
<1>5. \A x \in Int : add_line_if_needed(x) \in Int
  BY <1>1 DEF add_line_if_needed
<1>6. PrintNewline(c) \in Cursors /\ PrintChar(c) \in Cursors /\ PrintDigit(c) \in Cursors
  <2>1. c.i + Cols - Rem(c.i, Cols) \in Int /\ add_line_if_needed(c.i) + 1 \in Int
    BY <1>1, <1>2, <1>5
  <2>2. PrintNewline(c) \in Cursors
    <3> DEFINE x == add_line_if_needed(c.i + Cols - Rem(c.i, Cols))
    <3>1. x \in Int
      BY <1>5, <2>1
    <3>2. PrintNewline(c) = [c EXCEPT !.i = x, !.j = 0]
      BY DEF PrintNewline
    <3> HIDE DEF x
    <3>3. \A y \in Int : [c EXCEPT !.i = x, !.j = y] \in Cursors
      BY <1>2, <3>1, Zenon DEF Cursors
    <3>4. 0 \in Int
      OBVIOUS
    <3>5. QED
      BY <3>2, <3>3, <3>4, Zenon
  <2>3. PrintDigit(c) \in Cursors
    BY <1>2, <1>5, <2>1 DEF Cursors, PrintDigit
  <2>4. PrintChar(c) \in Cursors
    <3>1. add_line_if_needed(add_line_if_needed(c.i) + 1) \in Int /\ c.j + 1 \in Int
      BY <1>2, <1>5, <2>1
    <3>2. (c.off \/ add_line_if_needed(c.i) \notin OnScreen) \in BOOLEAN
      BY <1>2
    <3>3. QED
      BY <3>1, <3>2 DEF Cursors, PrintChar
  <2>5. QED
    BY <2>2, <2>3, <2>4
<1>7. ASSUME c \in SafeCursors PROVE PrintNewline(c) \in SafeCursors /\ PrintChar(c) \in SafeCursors
  <2>1. c.i \in Nat /\ c.i < Size /\ ~ c.off
    BY <1>1, <1>7 DEF SafeCursors, OnScreen
  <2>2. Rem(c.i, Cols) \in 0 .. Cols - 1 /\ Rem(c.i, Cols) <= c.i
    BY <1>2, <2>1, RemIs
  <2>3. add_line_if_needed(c.i + Cols - Rem(c.i, Cols)) \in OnScreen
    BY <1>1, <2>1, <2>2 DEF add_line_if_needed, OnScreen
  <2>4. add_line_if_needed(c.i) = c.i /\ c.i \in OnScreen
    BY <1>1, <2>1 DEF add_line_if_needed, OnScreen
  <2>5. add_line_if_needed(c.i + 1) \in OnScreen
    BY <1>1, <2>1 DEF add_line_if_needed, OnScreen
  <2>6. QED
    BY <1>3, <1>4, <1>6, <2>1, <2>3, <2>4, <2>5 DEF SafeCursors
<1>8. ASSUME c \in DigitCursors PROVE PrintDigit(c) \in DigitCursors
  <2>1. c.i \in 0 .. Size /\ ~ c.off
    BY <1>8 DEF DigitCursors
  <2>2. add_line_if_needed(c.i) \in OnScreen /\ add_line_if_needed(c.i) + 1 \in 0 .. Size
    BY <1>1, <2>1 DEF add_line_if_needed, OnScreen
  <2>3. QED
    BY <1>3, <1>6, <2>1, <2>2 DEF DigitCursors
<1>9. QED
  BY <1>6, <1>7, <1>8

(* The characters of a text, one after another.                            *)
PrintOne(c, ch) == IF ch = "\n" THEN PrintNewline(c) ELSE PrintChar(c)

LEMMA TextStaysOnScreen ==
    ASSUME NEW c \in Cursors, NEW text \in Seq({"x", "\n"})
    PROVE  /\ print_string(c, text) \in Cursors
           /\ c \in SafeCursors => print_string(c, text) \in SafeCursors
<1> DEFINE n == Len(text)
           F(g) == [m \in 0 .. Len(text) |->
                      IF m = 0 THEN c
                      ELSE IF text[m] = "\n" THEN PrintNewline(g[m - 1]) ELSE PrintChar(g[m - 1])]
           step == [m \in 1 .. Len(text) |-> [x \in Cursors |-> PrintOne(x, text[m])]]
           r == CHOOSE f : f = F(f)
<1>1. n \in Nat /\ \A x \in Cursors : \A ch : PrintOne(x, ch) \in Cursors
  BY PrintsSafely DEF PrintOne
<1>2. step \in [1 .. n -> [Cursors -> Cursors]]
  BY <1>1
<1>3. PICK g \in [0 .. n -> Cursors] : Iterated(g, n, c, step)
  <2> HIDE DEF n, step
  <2>1. QED
    BY <1>1, <1>2, Iterates
<1>4. \A m \in 1 .. n : g[m] = PrintOne(g[m - 1], text[m])
  <2> TAKE m \in 1 .. n
  <2>1. g[m] = step[m][g[m - 1]] /\ m - 1 \in 0 .. n /\ g[m - 1] \in Cursors
    BY <1>1, <1>3 DEF Iterated
  <2>2. QED
    BY <2>1
<1>5. g = F(g)
  BY <1>1, <1>3, <1>4 DEF Iterated, PrintOne
<1>6. r = F(r)
  <2> HIDE DEF F
  <2>1. QED
    BY <1>5, Zenon
<1>7. print_string(c, text) = r[n]
  BY DEF print_string
<1> HIDE DEF r
<1>8. r[0] = c /\ \A m \in 1 .. n : r[m] = PrintOne(r[m - 1], text[m])
  BY <1>1, <1>6 DEF PrintOne
<1>9. ASSUME NEW T, T = Cursors \/ T = SafeCursors, c \in T PROVE r[n] \in T
  <2>1. \A x \in T : \A ch : PrintOne(x, ch) \in T
    BY <1>9, PrintsSafely DEF PrintOne, SafeCursors
  <2>2. \A m \in 0 .. n : r[m] \in T
    <3> HIDE DEF n
    <3>1. QED
      BY <1>1, <1>8, <1>9, <2>1, StaysIn
  <2>3. QED
    BY <1>1, <2>2
<1>10. QED
  BY <1>7, <1>9

LEMMA NumberStaysOnScreen ==
    ASSUME NEW c \in Cursors, NEW n \in Nat
    PROVE  /\ print_number(c, n) \in Cursors
           /\ c \in SafeCursors => print_number(c, n) \in SafeCursors
<1> DEFINE F(g) == [m \in 0 .. n |-> IF m = 0 THEN c ELSE PrintDigit(g[m - 1])]
           step == [m \in 1 .. n |-> [x \in Cursors |-> PrintDigit(x)]]
           r == CHOOSE f : f = F(f)
<1>1. \A x \in Cursors : PrintDigit(x) \in Cursors
  BY PrintsSafely
<1>2. step \in [1 .. n -> [Cursors -> Cursors]]
  BY <1>1
<1>3. PICK g \in [0 .. n -> Cursors] : Iterated(g, n, c, step)
  <2> HIDE DEF step
  <2>1. QED
    BY <1>1, <1>2, Iterates
<1>4. \A m \in 1 .. n : g[m] = PrintDigit(g[m - 1])
  <2> TAKE m \in 1 .. n
  <2>1. g[m] = step[m][g[m - 1]] /\ m - 1 \in 0 .. n /\ g[m - 1] \in Cursors
    BY <1>1, <1>3 DEF Iterated
  <2>2. QED
    BY <2>1
<1>5. g = F(g)
  BY <1>1, <1>3, <1>4 DEF Iterated
<1>6. r = F(r)
  <2> HIDE DEF F
  <2>1. QED
    BY <1>5, Zenon
<1>7. print_number(c, n) = [r[n] EXCEPT !.i = add_line_if_needed(@)]
  BY DEF print_number
<1> HIDE DEF r
<1>8. r[0] = c /\ \A m \in 1 .. n : r[m] = PrintDigit(r[m - 1])
  BY <1>1, <1>6
<1>9. ASSUME NEW T, T = Cursors \/ T = DigitCursors, c \in T PROVE r[n] \in T
  <2>1. \A x \in T : PrintDigit(x) \in T
    BY <1>9, PrintsSafely DEF DigitCursors
  <2>2. \A m \in 0 .. n : r[m] \in T
    BY <1>8, <1>9, <2>1, StaysIn
  <2>3. QED
    BY <2>2
<1>10. Cols \in Nat /\ Cols > 0 /\ Size \in Nat /\ Cols <= Size
  BY SizeIs
<1>11. r[n] \in Cursors
  BY <1>9
<1>12. print_number(c, n) \in Cursors
  <2>1. add_line_if_needed(r[n].i) \in Int
    BY <1>10, <1>11 DEF add_line_if_needed, Cursors
  <2>2. QED
    BY <1>7, <1>11, <2>1 DEF Cursors
<1>13. ASSUME c \in SafeCursors PROVE print_number(c, n) \in SafeCursors
  <2>1. c \in DigitCursors
    BY <1>10, <1>13 DEF SafeCursors, DigitCursors, OnScreen
  <2>2. r[n] \in DigitCursors
    BY <1>9, <2>1
  <2>3. r[n].i \in 0 .. Size /\ ~ r[n].off
    BY <2>2 DEF DigitCursors
  <2>4. add_line_if_needed(r[n].i) \in OnScreen
    BY <1>10, <2>3 DEF add_line_if_needed, OnScreen
  <2>5. print_number(c, n).i = add_line_if_needed(r[n].i) /\ print_number(c, n).off = r[n].off
    BY <1>7, <1>11 DEF Cursors
  <2>6. QED
    BY <1>12, <2>3, <2>4, <2>5 DEF SafeCursors
<1>14. QED
  BY <1>12, <1>13

(* The cursor is a pair of integers, on the screen or not.                 *)
CursorInv == i \in Int /\ j \in Int

LEMMA ShownCursor ==
    ASSUME NEW c \in Cursors, ShowCursor(c)
    PROVE  CursorInv' /\ (c \in SafeCursors => i' \in OnScreen /\ ~ off')
BY DEF CursorInv, ShowCursor, Cursors, SafeCursors

LEMMA CursorIs ==
    ASSUME CursorInv
    PROVE  Cursor \in Cursors /\ (i \in OnScreen => Cursor \in SafeCursors)
BY DEF CursorInv, Cursor, Cursors, SafeCursors

LEMMA TextIs ==
    ASSUME NEW n \in Nat
    PROVE  Text(n) \in Seq({"x", "\n"}) /\ Text(n) \o <<"\n">> \in Seq({"x", "\n"}) /\ Text(n) \o <<>> \in Seq({"x", "\n"})
<1>1. Text(n) \in Seq({"x", "\n"})
  BY DEF Text
<1>2. QED
  BY <1>1

(* The printing calls.                                                     *)
LEMMA PrintStep ==
    ASSUME CursorInv, sys_print \/ shell_prompt
    PROVE  CursorInv' /\ (i \in OnScreen => i' \in OnScreen /\ ~ off')
<1>1. Cursor \in Cursors /\ (i \in OnScreen => Cursor \in SafeCursors)
  BY CursorIs
<1>2. ASSUME NEW n \in Outputs, NEW end \in {<<>>, <<"\n">>}, sys_prints(n, end)
      PROVE  CursorInv' /\ (i \in OnScreen => i' \in OnScreen /\ ~ off')
  <2>1. Text(n) \o end \in Seq({"x", "\n"})
    BY <1>2, TextIs, OutputAssumption
  <2>2. ShowCursor(print_string(Cursor, Text(n) \o end))
    BY <1>2 DEF sys_prints
  <2>3. QED
    BY <1>1, <2>1, <2>2, TextStaysOnScreen, ShownCursor
<1>3. ASSUME NEW n \in Outputs, sys_printn(n)
      PROVE  CursorInv' /\ (i \in OnScreen => i' \in OnScreen /\ ~ off')
  BY <1>1, <1>3, NumberStaysOnScreen, ShownCursor, OutputAssumption DEF sys_printn
<1>4. CASE sys_printc
  BY <1>4 DEF sys_printc, ShowCursor, Cursor, CursorInv
<1>5. CASE shell_prompt
  <2>1. CASE ShowCursor(print_string(Cursor, Text(Prompt)))
    <3>1. Text(Prompt) \in Seq({"x", "\n"})
      BY TextIs, CommandAssumption
    <3>2. QED
      BY <1>1, <2>1, <3>1, TextStaysOnScreen, ShownCursor
  <2>2. CASE ShowCursor(Cursor)
    BY <1>1, <2>2, ShownCursor
  <2>3. QED
    BY <1>5, <2>1, <2>2 DEF shell_prompt
<1>6. QED
  BY <1>2, <1>3, <1>4, <1>5 DEF sys_print

LEMMA CursorKept ==
    ASSUME CursorInv, [Next]_vars
    PROVE  CursorInv'
<1>1. CASE sys_print \/ shell_prompt
  BY <1>1, PrintStep
<1>2. CASE keyboard_isr
  <2>1. ASSUME NEW x, NEW column, NEW written, KeyCursor(x, column, written) PROVE CursorInv'
    <3>1. MaxOff \in Nat /\ MaxColumn \in Nat /\ Size \in Nat
      BY OutputAssumption, SizeIs
    <3>2. x \in Int /\ column \in Int
      BY <2>1, <3>1 DEF KeyCursor, CursorInv
    <3>3. QED
      BY <2>1, <3>2 DEF KeyCursor, CursorInv
  <2>2. QED
    BY <1>2, <2>1 DEF keyboard_isr, keyboard_handler, KeyChar, KeySpace, KeyEnter, KeyBackspace,
                      KeyArrow, KeyNone
<1>3. CASE KeyFault \/ ProgramFault \/ UNCHANGED vars
  BY <1>3 DEF KeyFault, ProgramFault, vars, screen, CursorInv
<1>4. CASE shell_empty
  <2>1. i' = i /\ (j' = j \/ j' = (j \div Byte) * Byte)
    BY <1>4 DEF shell_empty
  <2>2. j \div Byte \in Int /\ Byte \in Int
    BY CommandAssumption DEF CursorInv
  <2>3. QED
    BY <2>1, <2>2 DEF CursorInv
<1>5. CASE \/ shell_poll \/ shell_poll_missed \/ shell_exec \/ shell_wait
           \/ shell_ready \/ shell_index
  BY <1>5 DEF shell_poll, shell_poll_missed, shell_exec, shell_wait, shell_ready,
              shell_index, screen, CursorInv
<1>6. QED
  BY <1>1, <1>2, <1>3, <1>4, <1>5 DEF Next, Shell

(* vga.c: a printing call that starts on the screen stays on it, for every *)
(* size of the screen and every length of the text.                        *)
THEOREM PrintingStaysOnScreen == Spec => PrintStaysOnScreen
<1>1. Init => CursorInv
  BY ScreenAssumption DEF Init, CursorInv
<1>2. CursorInv /\ [Next]_vars => CursorInv'
  BY CursorKept
<1>3. CursorInv /\ [Next]_vars =>
         [sys_print \/ shell_prompt => (i \in OnScreen => i' \in OnScreen /\ ~ off')]_vars
  BY PrintStep
<1>4. QED
  BY <1>1, <1>2, <1>3, PTL DEF Spec, PrintStaysOnScreen
=============================================================================
