------------------------------- MODULE Console -------------------------------
(***************************************************************************)
(* The text console: klog.c over terminal.c, video.c and                   *)
(* drivers/textmode.c.  A thread prints with interrupts on; at any store   *)
(* the timer interrupt may find that the watchdog has had enough, and then *)
(* the same code prints the panic from the handler and the machine stops   *)
(* (wd.c, error.c).  One definition, PrintcStep, is the code of printc:    *)
(* the thread takes one step at a time, the handler runs it to its end.    *)
(***************************************************************************)
EXTENDS Integers, Sequences, SequencesExt

CONSTANTS
    Width, Height,   \* 80 and 25
    TabStop,         \* 8
    klog_mask,       \* LOG_DEBUG, or LOG_INFO in a release
    Messages,        \* what threads print: [mode, title, text]
    Warning, Reason, \* the watchdog's message, and the one it gives to panic
    PanicTitle, HaltTitle, HaltText,
    MaxCalls         \* bound: calls of klog and printf

LOG_PANIC == 0
LOG_INFO == 4
LOG_OK == 5
LOG_FAIL == 6

\* The items of a call that are no characters: the changes of the attribute.
SetTitle == "video_setattributetext"
SetReset == "video_resetattributetext"

\* A text: characters only.
IsText(t) == t \in Seq(STRING) /\ \A k \in 1 .. Len(t) : t[k] \notin {SetTitle, SetReset}

ASSUME ConsoleAssumption ==
    /\ Width \in Nat \ {0} /\ Height \in Nat \ {0, 1} /\ TabStop \in 1 .. Width
    /\ klog_mask \in Nat /\ MaxCalls \in Nat
    /\ \A m \in Messages : m.mode \in Nat /\ IsText(m.title) /\ IsText(m.text)

VARIABLES
    con,         \* the console: see Fresh
    todo,        \* what the thread's call has still to do, an item at a time
    before,      \* history: the console when the current printc began
    calls,       \* history: calls made
    mode         \* who runs: "thread", "panic", or "halted"

conVars == <<con, todo, before, calls, mode>>

Blank == " "
Cells == 0 .. (Height + 1) * Width - 1   \* the screen and the row behind it
OnScreen == 0 .. Height * Width - 1

\* The attribute bytes: the default one, and klog's for titles.
Default == "default"
Title == "title"

\* video memory, cursor variables, attribute byte, hardware cursor, and the
\* locals of a printc: where it is, its character, its loop index and the
\* blank that textmode_scroll computed.
Fresh(x, y) ==
    [video |-> [k \in Cells |-> <<Blank, Default>>],
     term_x |-> x, term_y |-> y, attr |-> Default, cursor |-> <<x, y>>,
     pc |-> "done", c |-> Blank, i |-> 0, blank |-> <<Blank, Default>>]

\* terminal_init: the cursor is where the loader left it.
ConInit ==
    /\ \E x \in 0 .. Width - 1, y \in 0 .. Height - 1 : con = Fresh(x, y)
    /\ todo = <<>> /\ before = con /\ calls = 0 /\ mode = "thread"

-----------------------------------------------------------------------------
(* printc, one store at a time, on a console r.                            *)

Controls == {"BS", "TAB", "CR", "NL"}

\* printc's first branch: the character, or what a control does to term_x.
Branch(r) ==
    CASE r.c = "BS" /\ r.term_x > 0 -> [r EXCEPT !.term_x = @ - 1, !.pc = "wrap"]
      [] r.c = "BS" /\ r.term_x = 0 -> [r EXCEPT !.pc = "wrap"]
      [] r.c = "TAB" -> [r EXCEPT !.term_x = ((@ + TabStop) \div TabStop) * TabStop,
                                  !.pc = "wrap"]
      [] r.c = "CR" -> [r EXCEPT !.term_x = 0, !.pc = "wrap"]
      [] r.c = "NL" -> [r EXCEPT !.term_x = 0, !.pc = "newline"]
      [] OTHER -> [r EXCEPT !.video[r.term_y * Width + r.term_x] = <<r.c, r.attr>>,
                            !.pc = "advance"]

\* Fault: a cursor already past the width is not noticed.
WrapExact(r) ==
    IF r.term_x = Width THEN [r EXCEPT !.term_x = 0, !.pc = "wrapped"]
                        ELSE [r EXCEPT !.pc = "scroll"]

Wrap(r) ==
    IF r.term_x >= Width THEN [r EXCEPT !.term_x = 0, !.pc = "wrapped"]
                         ELSE [r EXCEPT !.pc = "scroll"]

Scroll(r) ==
    IF r.term_y >= Height
    THEN [r EXCEPT !.pc = "move", !.i = 0, !.blank = <<Blank, r.attr>>]
    ELSE [r EXCEPT !.pc = "cursor"]

\* Fault: the loop of the moves ends a row early.
MoveCellEarly(r) ==
    IF r.i < (Height - 2) * Width
    THEN [r EXCEPT !.video[r.i] = r.video[r.i + Width], !.i = @ + 1]
    ELSE IF r.i < (Height - 1) * Width THEN [r EXCEPT !.i = @ + 1]
    ELSE IF r.i < Height * Width
    THEN [r EXCEPT !.video[r.i] = r.blank, !.i = @ + 1]
    ELSE [r EXCEPT !.term_y = Height - 1, !.pc = "cursor"]

\* textmode_scroll(0, 24): the rows move up, the last one becomes blank; then
\* scroll puts term_y on it.
MoveCell(r) ==
    IF r.i < (Height - 1) * Width
    THEN [r EXCEPT !.video[r.i] = r.video[r.i + Width], !.i = @ + 1]
    ELSE IF r.i < Height * Width
    THEN [r EXCEPT !.video[r.i] = r.blank, !.i = @ + 1]
    ELSE [r EXCEPT !.term_y = Height - 1, !.pc = "cursor"]

\* The four port writes of textmode_setcursor are one step: what interrupts
\* them makes all four itself and does not come back.
SetCursor(r) == [r EXCEPT !.cursor = <<r.term_x, r.term_y>>, !.pc = "done"]

PrintcStep(r) ==
    CASE r.pc = "branch"  -> Branch(r)
      [] r.pc = "newline" -> [r EXCEPT !.term_y = @ + 1, !.pc = "wrap"]
      [] r.pc = "advance" -> [r EXCEPT !.term_x = @ + 1, !.pc = "wrap"]
      [] r.pc = "wrap"    -> Wrap(r)
      [] r.pc = "wrapped" -> [r EXCEPT !.term_y = @ + 1, !.pc = "scroll"]
      [] r.pc = "scroll"  -> Scroll(r)
      [] r.pc = "move"    -> MoveCell(r)
      [] r.pc = "cursor"  -> SetCursor(r)
      [] r.pc = "done"    -> r

Begin(r, c) == [r EXCEPT !.c = c, !.pc = "branch", !.i = 0]

\* The loops of MoveCell in one go.
ScrollAll(r) ==
    [r EXCEPT !.video = [k \in Cells |->
                            IF k < (Height - 1) * Width THEN r.video[k + Width]
                            ELSE IF k < Height * Width THEN r.blank
                            ELSE r.video[k]],
              !.term_y = Height - 1]

\* A whole printc, as the handler performs it.
printc(r, c) ==
    LET stored == Branch(Begin(r, c))
        moved  == IF stored.pc = "wrap" THEN stored ELSE PrintcStep(stored)
        wrap   == Wrap(moved)
        line   == IF wrap.pc = "scroll" THEN wrap ELSE PrintcStep(wrap)
        scroll == Scroll(line)
    IN  SetCursor(IF scroll.pc = "move" THEN ScrollAll(scroll) ELSE scroll)

-----------------------------------------------------------------------------
(* The items of a call: characters, and the changes of the attribute.      *)

SetAttr(r, item) == [r EXCEPT !.attr = IF item = SetTitle THEN Title ELSE Default]

\* klog: nothing below the mask; else the title in its colour and the text.
klog(level, title, text) ==
    IF level > klog_mask THEN <<>>
    ELSE <<SetTitle>>
         \o (CASE level = LOG_OK -> <<"o">> [] level = LOG_FAIL -> <<"f">>
               [] OTHER -> title)
         \o <<SetReset>> \o text

panic(reason) == klog(LOG_PANIC, PanicTitle, reason) \o klog(LOG_INFO, HaltTitle, HaltText)

Perform(r, item) ==
    IF item \in {SetTitle, SetReset} THEN SetAttr(r, item) ELSE printc(r, item)

-----------------------------------------------------------------------------
(* The thread.                                                             *)

Klog(m) ==
    /\ mode = "thread" /\ todo = <<>> /\ con.pc = "done" /\ calls < MaxCalls
    /\ todo' = klog(m.mode, m.title, m.text)
    /\ calls' = calls + 1
    /\ UNCHANGED <<con, before, mode>>

Printf(m) ==
    /\ mode = "thread" /\ todo = <<>> /\ con.pc = "done" /\ calls < MaxCalls
    /\ todo' = m.text
    /\ calls' = calls + 1
    /\ UNCHANGED <<con, before, mode>>

\* The items are taken one by one; a character starts a printc.
StartItem ==
    /\ mode = "thread" /\ todo # <<>> /\ con.pc = "done"
    /\ con' = IF Head(todo) \in {SetTitle, SetReset}
              THEN SetAttr(con, Head(todo))
              ELSE Begin(con, Head(todo))
    /\ todo' = Tail(todo)
    /\ before' = con'
    /\ UNCHANGED <<calls, mode>>

Step ==
    /\ mode = "thread" /\ con.pc # "done"
    /\ con' = PrintcStep(con)
    /\ UNCHANGED <<todo, before, calls, mode>>

\* The timer interrupt: wd_evaluate prints its warning and panics.  The
\* thread, wherever it is, never runs again.
WatchdogPanic ==
    /\ mode = "thread"
    /\ mode' = "panic"
    /\ todo' = Warning \o panic(Reason)
    /\ UNCHANGED <<con, before, calls>>

HandlerItem ==
    /\ mode = "panic" /\ todo # <<>>
    /\ con' = Perform(con, Head(todo))
    /\ todo' = Tail(todo)
    /\ UNCHANGED <<before, calls, mode>>

\* halt: interrupts off and hlt.
Halt ==
    /\ mode = "panic" /\ todo = <<>>
    /\ mode' = "halted"
    /\ UNCHANGED <<con, todo, before, calls>>

ConNext ==
    \/ \E m \in Messages : Klog(m) \/ Printf(m)
    \/ StartItem \/ Step
    \/ WatchdogPanic \/ HandlerItem \/ Halt

ConSpec == ConInit /\ [][ConNext]_conVars

-----------------------------------------------------------------------------
(* Properties.                                                             *)

\* A screen as its rows.
Row(r, y) == [x \in 1 .. Width |-> r.video[y * Width + x - 1][1]]

EmptyRow == [x \in 1 .. Width |-> Blank]

\* What a terminal without races does with a character: rows is the screen,
\* x and y the cursor.
Rendered(r) ==
    LET rows  == [y \in 1 .. Height |-> Row(r, y - 1)]
        put   == IF r.c \in Controls THEN rows
                 ELSE [rows EXCEPT ![r.term_y + 1][r.term_x + 1] = r.c]
        x     == CASE r.c = "BS" -> IF r.term_x = 0 THEN 0 ELSE r.term_x - 1
                   [] r.c = "TAB" -> r.term_x + TabStop - (r.term_x % TabStop)
                   [] r.c \in {"CR", "NL"} -> 0
                   [] OTHER -> r.term_x + 1
        down  == r.c = "NL" \/ x >= Width
        last  == r.term_y = Height - 1
    IN  [rows |-> IF down /\ last THEN Append(Tail(put), EmptyRow) ELSE put,
         x    |-> IF x >= Width THEN 0 ELSE x,
         y    |-> IF down /\ ~last THEN r.term_y + 1 ELSE r.term_y]

(***************************************************************************)
(* printc, with its stores and its cell by cell scroll, does what a        *)
(* terminal should: the character lands at the cursor, lines wrap at the   *)
(* width, the screen moves up exactly when the cursor leaves the last row, *)
(* and the hardware cursor follows.  Between calls the attribute is the    *)
(* default.                                                                *)
(***************************************************************************)
PrintcRenders ==
    /\ (mode = "thread" /\ con.pc = "done" /\ before.pc = "branch") =>
         LET want == Rendered(before)
         IN  /\ [y \in 1 .. Height |-> Row(con, y - 1)] = want.rows
             /\ con.term_x = want.x /\ con.term_y = want.y
             /\ con.cursor = <<want.x, want.y>>
    /\ (mode = "thread" /\ con.pc = "done" /\ todo = <<>>) => con.attr = Default

\* The rows above the cursor, counted from it, with the attributes of their
\* characters; a blank looks the same in both.
LineAbove(r, n) ==
    [x \in 1 .. Width |-> LET cell == r.video[(r.term_y - n) * Width + x - 1]
                          IN  IF cell[1] = Blank THEN <<Blank, Default>> ELSE cell]

\* A title and a text of one row, without its newline, as LineAbove shows them.
LogLine(title, text) ==
    LET s == [k \in 1 .. Len(title) |-> <<title[k], Title>>]
             \o [k \in 1 .. Len(text) - 1 |-> <<text[k], Default>>]
    IN  [x \in 1 .. Width |-> IF x <= Len(s) /\ s[x][1] # Blank THEN s[x]
                              ELSE <<Blank, Default>>]

(***************************************************************************)
(* Wherever in a klog, a printc or a scroll the watchdog strikes, the      *)
(* panic can be read: its line and the halt's stand complete and in their  *)
(* colours above the cursor, and the warning printed before them stands on *)
(* the screen in consecutive cells, all but its first character.           *)
(***************************************************************************)
PanicReadable ==
    mode = "halted" =>
      /\ con.term_x = 0 /\ con.cursor = <<0, con.term_y>>
      /\ con.term_y \in 2 .. Height - 1
      /\ LineAbove(con, 1) = LogLine(HaltTitle, HaltText)
      /\ LineAbove(con, 2) = LogLine(PanicTitle, Reason)
      /\ \E j \in OnScreen : \A k \in 2 .. Len(Warning) - 1 :
            j + k - 2 \in OnScreen /\ con.video[j + k - 2][1] = Warning[k]

=============================================================================
