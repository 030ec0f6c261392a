------------------------------- MODULE Console -------------------------------
(***************************************************************************)
(* The console: the cursor of the VGA text screen (kernel/vga.c), the      *)
(* keyboard interrupt (keyboard_isr.asm and keyboard_handler of            *)
(* kernel/kernel.c, on the keys that kernel/keyboard.c tells apart) and    *)
(* the shell (user/shell.c), which shares command[] with the handler and   *)
(* runs with IF = 1.  The printing system calls and the handler run with   *)
(* IF = 0 and are atomic.                                                  *)
(*                                                                         *)
(* keyboard_isr executes mov al, 0x20 behind popa, so that the code it     *)
(* interrupts goes on with another AL.  clobbered says that an interrupt   *)
(* came since the last step of the shell; what that step makes of a wrong  *)
(* AL is read off the instructions of the unoptimised build.               *)
(*                                                                         *)
(* One shell is followed, up to its prompt or to a user_wait() that does   *)
(* not end.  When that is, and how a key may make a child a second shell,  *)
(* is in Shell; what two shells make of command[] is not modelled.  What   *)
(* the cells show, the hardware cursor and last_key are left out, too.     *)
(***************************************************************************)
EXTENDS Integers, SequencesExt

CONSTANTS Cols, Rows,    \* 80 and 25
          Start,         \* 400, where the cursor is at first
          Chars,         \* the keys that stand for a character
          CommandSize,   \* the length of command[]
          Hello,         \* the command for which command_exec() runs a program
          Byte,          \* 256, the values of a byte
          Prompt,        \* the length of the prompt
          Outputs,       \* the lengths of the texts that are printed
          MaxOff,        \* bound: how far keys move i and j beyond an edge
          MaxColumn      \* bound: how far j counts before an Enter

ASSUME ScreenAssumption ==
    Cols \in Nat \ {0} /\ Rows \in Nat \ {0} /\ Start \in 0 .. Cols * Rows - 1
ASSUME CommandAssumption ==
    CommandSize \in Nat \ {0} /\ Prompt \in Nat \ {0} /\ Byte \in Nat \ {0}
\* read() returns 0 for no key, and the function keys, cut to a char, are 4..15.
ASSUME CharsAssumption == "NUL" \notin Chars
ASSUME HelloAssumption == Hello \in Seq(Chars \cup {"space"}) /\ Hello # <<>>
ASSUME OutputAssumption ==
    Outputs \subseteq Nat \ {0} /\ MaxOff \in Nat /\ MaxColumn \in Nat

VARIABLES i, j,        \* the cursor, and the characters since the line began
          off,         \* history: the last call or key wrote off the screen
          command, command_index, command_ready,
          pc, k,       \* where the shell is, and its place in empty_string()
          executed,    \* history: the string that command_exec() has just seen
          clobbered,   \* AL may be wrong in the next step of the shell
          halted,      \* fault_handler() has stopped the machine
          line,        \* history: the keys since command_index was reset, as
                       \* long as all of them came while the shell waited
          disturbed    \* history: what met the line while the shell worked:
                       \* "none", keys let go ("release") or a "press"

screen == <<i, j, off>>
input == <<command, command_index, command_ready>>
shell == <<pc, k, executed>>
history == <<line, disturbed>>
vars == <<screen, input, shell, clobbered, halted, history>>

Size == Cols * Rows
OnScreen == 0 .. Size - 1
NUL == "NUL"
Keys == Chars \cup {"space"}

\* What a comparison with a wrong AL may find, which is Hello or not.
Garbled == <<"garbled">>

Init ==
    /\ i = Start /\ j = 0 /\ off = FALSE
    /\ command = [c \in 0 .. CommandSize - 1 |-> NUL]
    /\ command_index = 0 /\ command_ready = 0
    /\ pc = "prompt" /\ k = 0 /\ executed = <<>>
    /\ clobbered = FALSE /\ halted = FALSE
    /\ line = <<>> /\ disturbed = "none"
-----------------------------------------------------------------------------
(* vga.c, on a cursor [i, j, off].                                         *)

\* Mutant: the position behind the last one is not taken for off the screen.
add_line_if_needed_late(x) == IF x > Size THEN x - Cols ELSE x

\* add_line_if_needed(): one line up when the cursor is behind the screen.
add_line_if_needed(x) == IF x >= Size THEN x - Cols ELSE x

\* The remainder of C, whose sign is the dividend's.
Rem(a, b) == IF a >= 0 THEN a % b ELSE -((-a) % b)

\* print_string(): a newline, and any other character.
PrintNewline(c) ==
    [c EXCEPT !.i = add_line_if_needed(@ + Cols - Rem(@, Cols)), !.j = 0]

PrintChar(c) ==
    LET at == add_line_if_needed(c.i)
    IN  [i |-> add_line_if_needed(at + 1), j |-> c.j + 1,
         off |-> c.off \/ at \notin OnScreen]

print_string(c, text) ==
    LET d[n \in 0 .. Len(text)] ==
            IF n = 0 THEN c
            ELSE IF text[n] = "\n" THEN PrintNewline(d[n - 1]) ELSE PrintChar(d[n - 1])
    IN  d[Len(text)]

\* print_number() and print_hex(): n digits; j is not touched.
PrintDigit(c) ==
    LET at == add_line_if_needed(c.i)
    IN  [c EXCEPT !.i = at + 1, !.off = @ \/ at \notin OnScreen]

print_number(c, n) ==
    LET d[m \in 0 .. n] == IF m = 0 THEN c ELSE PrintDigit(d[m - 1])
    IN  [d[n] EXCEPT !.i = add_line_if_needed(@)]

Cursor == [i |-> i, j |-> j, off |-> FALSE]

ShowCursor(c) == i' = c.i /\ j' = c.j /\ off' = c.off
-----------------------------------------------------------------------------
(* The printing system calls, from any process.                            *)

Text(n) == [m \in 1 .. n |-> "x"]

sys_prints(n, end) ==
    /\ end = <<>> => j + n <= MaxColumn
    /\ ShowCursor(print_string(Cursor, Text(n) \o end))

\* sys_printn(), sys_printhex().
sys_printn(n) == ShowCursor(print_number(Cursor, n))

\* sys_printc(): the character goes to the cursor, which stays.
sys_printc == ShowCursor([Cursor EXCEPT !.off = i \notin OnScreen])

sys_print ==
    /\ \/ \E n \in Outputs, end \in {<<>>, <<"\n">>} : sys_prints(n, end)
       \/ \E n \in Outputs : sys_printn(n)
       \/ sys_printc
    /\ UNCHANGED <<input, shell, clobbered, halted, history>>
-----------------------------------------------------------------------------
(* keyboard_isr and keyboard_handler()                                     *)

\* add_line() is called without its argument when the cursor is behind the
\* screen: it scrolls and lowers whatever word it finds a pointer to, which
\* is i or another one; or it faults.
Scrolled(x) == IF x >= Size THEN {x, x - Cols} ELSE {x}

\* Keys find the cursor behind the screen, or bring it there (KEY_DOWN).
KeyFault ==
    /\ i + Cols >= Size
    /\ halted' = TRUE
    /\ UNCHANGED <<screen, input, shell, clobbered, history>>

\* The handler leaves the cursor at x and has written the cells in written.
KeyCursor(x, column, written) ==
    /\ x \in -MaxOff .. Size + MaxOff
    /\ column \in (-MaxOff .. MaxColumn) \cup {j}
    /\ i' = x /\ j' = column /\ off' = ~(written \subseteq OnScreen)

Waiting == pc \in {"prompt", "poll"} /\ command_ready = 0

\* What a key that adds no character, and a key let go, mean for the line.
Pressed ==
    /\ disturbed' = IF Waiting THEN disturbed ELSE "press"
    /\ line' = IF Waiting THEN line ELSE <<>>

Released ==
    /\ disturbed' =
          IF command_ready = 1 /\ disturbed = "none" THEN "release" ELSE disturbed
    /\ UNCHANGED line

\* A character joins the line.  The code does not look at the end of
\* command[]; the bound is the typist's.
Typed(c) ==
    /\ command_index < CommandSize - 1
    /\ command' = [command EXCEPT ![command_index] = c]
    /\ command_index' = command_index + 1
    /\ disturbed' = IF Waiting THEN disturbed ELSE "press"
    /\ line' = IF disturbed' = "press" THEN <<>> ELSE Append(line, c)
    /\ UNCHANGED command_ready

\* A letter, a digit or a function key.
KeyChar(c) == \E x \in Scrolled(i) : KeyCursor(x + 1, j + 1, {x}) /\ Typed(c)

\* The space bar moves the cursor and writes no cell.
KeySpace == \E x \in Scrolled(i) : KeyCursor(x + 1, j + 1, {}) /\ Typed("space")

\* Mutant: the line is handed over without its terminator.
KeyEnter_unterminated ==
    /\ \E x \in Scrolled(i) : KeyCursor(x + Cols - j, 0, {})
    /\ command_ready' = 1
    /\ Pressed
    /\ UNCHANGED <<command, command_index>>

KeyEnter ==
    /\ \E x \in Scrolled(i) : KeyCursor(x + Cols - j, 0, {})
    /\ command' = [command EXCEPT ![command_index] = NUL]
    /\ command_ready' = 1
    /\ Pressed
    /\ UNCHANGED command_index

\* Backspace clears the cell, but takes nothing off the line.
KeyBackspace ==
    /\ \E x \in Scrolled(i) : KeyCursor(x - 1, j - 1, {x - 1})
    /\ command' = [command EXCEPT ![command_index] = NUL]
    /\ Pressed
    /\ UNCHANGED <<command_index, command_ready>>

\* The arrows; down and right scroll again behind the screen.
KeyArrow(d) ==
    /\ \E x \in Scrolled(i) : \E y \in Scrolled(x + d) \cup {x + d} :
          /\ d < 0 => y = x + d
          /\ KeyCursor(y, j, {})
    /\ Pressed
    /\ UNCHANGED input

\* A key let go, or one that read() does not know.
KeyNone ==
    /\ \E x \in Scrolled(i) : KeyCursor(x, j, {})
    /\ Released
    /\ UNCHANGED input

keyboard_handler ==
    \/ \E c \in Chars : KeyChar(c)
    \/ KeySpace
    \/ KeyEnter
    \/ KeyBackspace
    \/ \E d \in {-Cols, Cols, -1, 1} : KeyArrow(d)
    \/ KeyNone

keyboard_isr ==
    /\ keyboard_handler
    /\ clobbered' = TRUE
    /\ UNCHANGED <<shell, halted>>
-----------------------------------------------------------------------------
(* shell(), one step per access to what it shares with the handler.        *)

\* The string in command[].
CommandString ==
    LET ends == {c \in DOMAIN command : command[c] = NUL}
        len  == IF ends = {} THEN CommandSize ELSE Min(ends)
    IN  [c \in 1 .. len |-> command[c - 1]]

ShellGoes(from, to) ==
    /\ pc = from /\ pc' = to
    /\ clobbered' = FALSE
    /\ UNCHANGED halted

shell_poll ==
    /\ command_ready = 1
    /\ ShellGoes("poll", "exec")
    /\ UNCHANGED <<k, executed, screen, input, history>>

\* The flag is read as 0x20: the shell yields and polls again.
shell_poll_missed ==
    /\ clobbered
    /\ ShellGoes("poll", "poll")
    /\ UNCHANGED <<k, executed, screen, input, history>>

\* strcmp() in command_exec().  It may be interrupted: the handler changes
\* command[] only from command_index on, so that the string is the one found
\* when its end is read.
shell_exec ==
    /\ executed' \in {CommandString} \cup (IF clobbered THEN {Garbled} ELSE {})
    /\ \/ executed' # Hello /\ ShellGoes("exec", "ready")
       \/ executed' \in {Hello, Garbled} /\ ShellGoes("exec", "wait")
    /\ UNCHANGED <<k, screen, input, history>>

\* user_fork() and user_wait(), which ends when the child has exited, or early
\* with a wrong AL.  When no child was created, with a wrong AL or without memory,
\* or the child, with a wrong AL, waits itself, it never ends unless another
\* key comes at one of its calls.
shell_wait ==
    /\ \/ ShellGoes("wait", "ready")
       \/ ShellGoes("wait", "stuck")
       \/ clobbered /\ ShellGoes("stuck", "ready")
    /\ UNCHANGED <<k, executed, screen, input, history>>

\* The program faults on the page it shares with the others.
ProgramFault ==
    /\ pc \in {"wait", "stuck"}
    /\ halted' = TRUE
    /\ UNCHANGED <<screen, input, shell, clobbered, history>>

\* Mutant: the flag is left as it is.
shell_ready_kept ==
    /\ ShellGoes("ready", "index")
    /\ executed' = <<>>
    /\ UNCHANGED <<k, screen, input, history>>

shell_ready ==
    /\ ShellGoes("ready", "index")
    /\ command_ready' = 0 /\ executed' = <<>>
    /\ UNCHANGED <<command, command_index, k, screen, history>>

\* A new line begins; an Enter that has slipped in belongs to no line.
shell_index ==
    /\ ShellGoes("index", "empty")
    /\ command_index' = 0 /\ k' = 0
    /\ line' = <<>>
    /\ disturbed' = IF command_ready = 0 THEN "none" ELSE "press"
    /\ UNCHANGED <<command, command_ready, executed, screen>>

\* One round of empty_string(); a wrong AL turns the address of command[k]
\* into the one of the low byte of j.
shell_empty ==
    /\ ShellGoes("empty", IF k = CommandSize - 1 THEN "prompt" ELSE "empty")
    /\ k' = (k + 1) % CommandSize
    /\ \/ command' = [command EXCEPT ![k] = NUL] /\ UNCHANGED j
       \/ clobbered /\ j' = (j \div Byte) * Byte /\ UNCHANGED command
    /\ UNCHANGED <<i, off, command_index, command_ready, executed, history>>

\* write_string(), or with a wrong AL a system call that does not exist.
shell_prompt ==
    /\ ShellGoes("prompt", "poll")
    /\ \/ ShowCursor(print_string(Cursor, Text(Prompt)))
       \/ clobbered /\ ShowCursor(Cursor)
    /\ UNCHANGED <<k, executed, input, history>>

Shell == \/ shell_poll \/ shell_poll_missed \/ shell_exec \/ shell_wait
         \/ shell_ready \/ shell_index \/ shell_empty \/ shell_prompt

Next == ~halted /\ (sys_print \/ keyboard_isr \/ KeyFault \/ ProgramFault \/ Shell)

(***************************************************************************)
(* Fairness: the shell is scheduled again and again (ReadyRuns of Process),*)
(* the children that run their program end (ChildrenFinish of Shell), and  *)
(* not every poll is hit by an interrupt between its two instructions.     *)
(***************************************************************************)
ShellWorks == /\ ~halted
              /\ \/ shell_poll \/ shell_exec \/ (shell_wait /\ pc = "wait")
                 \/ shell_ready \/ shell_index \/ shell_empty \/ shell_prompt

Spec == Init /\ [][Next]_vars /\ WF_vars(ShellWorks)
-----------------------------------------------------------------------------
(* Properties.                                                             *)

(***************************************************************************)
(* A printing call (print_string, print_number, print_hex of vga.c) that   *)
(* starts on the screen writes only on the screen and leaves the cursor    *)
(* there, wherever its text wraps and however often it scrolls.            *)
(***************************************************************************)
PrintStaysOnScreen ==
    [][sys_print \/ shell_prompt =>
         (i \in OnScreen => i' \in OnScreen /\ ~off')]_vars

(***************************************************************************)
(* A line that was typed while the shell waited, its Enter followed by no  *)
(* interrupt, is what command_exec() sees, whatever earlier lines, keys    *)
(* typed ahead and interrupted clearings have left in command[].           *)
(***************************************************************************)
QuietLineRuns == pc \in {"wait", "ready"} /\ disturbed = "none" => executed = line

(***************************************************************************)
(* The shell takes every line that Enter hands over (command_ready), and   *)
(* lets the next one in, unless a fault has stopped the machine or         *)
(* user_wait() does not end; and it does so after a key has ended it.      *)
(***************************************************************************)
EnterIsAnswered ==
    command_ready = 1 ~> command_ready = 0 \/ halted \/ pc = "stuck"

(***************************************************************************)
(* The input support README.md promises: a line typed while the shell      *)
(* waited is what command_exec() sees when no key is pressed before that;  *)
(* keys may be let go, as the Enter key always is.                         *)
(***************************************************************************)
TypedLineRuns == pc \in {"wait", "ready"} /\ disturbed # "press" => executed = line
=============================================================================
