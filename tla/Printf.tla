------------------------------- MODULE Printf -------------------------------
(***************************************************************************)
(* do_printf of printf.c: one step is one round of its loop over the       *)
(* format.  Characters are strings of length one, a format is a sequence   *)
(* of them that "NUL" ends, and behind the NUL lie other bytes of memory.  *)
(* The argument a conversion takes is any value of its type.               *)
(***************************************************************************)
EXTENDS Integers, Sequences, SequencesExt

CONSTANTS
    Formats,     \* the formats: sequences of characters other than NUL
    Word,        \* 2^32: int and long
    Numbers,     \* the numbers passed, as words
    Words,   \* the strings passed to %s, as sequences
    Behind,      \* the bytes behind the format's NUL
    MaxWidth     \* bound: wider fields are not followed

NULc == "NUL"
Space == " "
DigitChars == <<"0", "1", "2", "3", "4", "5", "6", "7", "8", "9",
                "a", "b", "c", "d", "e", "f">>
UpperChars == <<"0", "1", "2", "3", "4", "5", "6", "7", "8", "9",
                "A", "B", "C", "D", "E", "F">>
Decimals == {DigitChars[i] : i \in 1 .. 10}
DigitOf(c) == (CHOOSE i \in 1 .. 10 : DigitChars[i] = c) - 1

ASSUME PrintfAssumption ==
    /\ Word \in Nat /\ Word % 2 = 0 /\ Numbers \subseteq 0 .. Word - 1
    /\ \A f \in Formats \cup Words : f \in Seq(STRING) /\ NULc \notin Range(f)
    /\ Behind \in Seq(STRING) /\ MaxWidth \in Nat

VARIABLES
    fmt,         \* the format and what lies behind it
    at,          \* the index of *fmt
    state,       \* 0 .. 3, as in the code; 4 is left in the same round
    flags,       \* of "LJ", "CA", "SG", "WS", "LZ"
    given_wd,    \* the field width
    out,         \* the characters given to fn: the screen, or vsprintf's buf
    count,       \* what do_printf returns
    field,       \* history: the last conversion, its argument and its output
    buf          \* vsprintf's buffer when it returns; <<>> before

pfVars == <<fmt, at, state, flags, given_wd, out, count, field, buf>>

NoField == [conv |-> "none", arg |-> 0, flags |-> {}, wd |-> 0, text |-> <<>>]

Scanning ==
    /\ at = 1 /\ state = 0 /\ flags = {} /\ given_wd = 0
    /\ out = <<>> /\ count = 0 /\ field = NoField /\ buf = <<>>

PfInit ==
    /\ fmt \in {f \o <<NULc>> \o Behind : f \in Formats}
    /\ Scanning

-----------------------------------------------------------------------------
(* The positions a round looks at.  In state 0 a '%' has been skipped; a   *)
(* '0' that is no digit of a width is skipped too.                         *)

Reading == at \in 1 .. Len(fmt) /\ fmt[at] # NULc

InDirective == state # 0 \/ fmt[at] = "%"

FlagAt == IF state = 0 THEN at + 1 ELSE at

\* States 0 and 1 look for flags first.
AtFlag(c) == state <= 1 /\ fmt[FlagAt] = c

Zero == AtFlag("0")

WidthAt == IF Zero THEN FlagAt + 1 ELSE FlagAt

PastFlags == Reading /\ InDirective /\ ~AtFlag("%") /\ ~AtFlag("-")

AtWidth == PastFlags /\ state <= 2 /\ fmt[WidthAt] \in Decimals

AtModifier == PastFlags /\ ~AtWidth /\ fmt[WidthAt] \in {"F", "N", "l", "h"}

AtConversion == PastFlags /\ ~AtWidth /\ ~AtModifier

\* flags with PR_LZ, when this round has passed a '0'.
ZeroFlags == flags \cup (IF Zero THEN {"LZ"} ELSE {})

\* The characters s go to fn one by one; each is counted.
Emit(s) == out' = out \o s /\ count' = count + Len(s)

Reset == state' = 0 /\ flags' = {} /\ given_wd' = 0

-----------------------------------------------------------------------------
(* The rounds.                                                             *)

Literal ==
    /\ Reading /\ ~InDirective
    /\ Emit(<<fmt[at]>>)
    /\ at' = at + 1
    /\ UNCHANGED <<fmt, state, flags, given_wd, field>>

PercentSign ==
    /\ Reading /\ InDirective /\ AtFlag("%")
    /\ Emit(<<"%">>)
    /\ at' = FlagAt + 1
    /\ Reset
    /\ UNCHANGED <<fmt, field>>

\* The second '-' is illegal and ends the directive.
LeftJustify ==
    /\ Reading /\ InDirective /\ AtFlag("-")
    /\ IF "LJ" \in flags
       THEN Reset
       ELSE /\ state' = 1 /\ flags' = flags \cup {"LJ"}
            /\ UNCHANGED given_wd
    /\ at' = FlagAt + 1
    /\ UNCHANGED <<fmt, out, count, field>>

Width ==
    /\ AtWidth
    /\ given_wd' = 10 * given_wd + DigitOf(fmt[WidthAt])
    /\ given_wd' <= MaxWidth
    /\ state' = 2 /\ flags' = ZeroFlags
    /\ at' = WidthAt + 1
    /\ UNCHANGED <<fmt, out, count, field>>

\* Fault: the modifier's round steps over the next character.
ModifierSkips ==
    /\ AtModifier
    /\ state' = 3 /\ flags' = ZeroFlags
    /\ at' = WidthAt + 2
    /\ UNCHANGED <<fmt, given_wd, out, count, field>>

\* PR_FP, PR_32 and PR_16 change nothing: int and long are one type.
Modifier ==
    /\ AtModifier
    /\ state' = 3 /\ flags' = ZeroFlags
    /\ at' = WidthAt + 1
    /\ UNCHANGED <<fmt, given_wd, out, count, field>>

\* num after k rounds of the loop that divides it.
Quotients(num, radix) ==
    LET left[k \in 0 .. Word] == IF k = 0 THEN num ELSE left[k - 1] \div radix
    IN  left

\* The loop runs until nothing is left, at least once, and buf takes the
\* remainders from its end backwards.
Digits(num, radix, chars) ==
    LET left == Quotients(num, radix)
        k    == CHOOSE n \in 1 .. Word : left[n] = 0 /\ (n = 1 \/ left[n - 1] # 0)
    IN  [j \in 1 .. k |-> chars[(left[k - j] % radix) + 1]]

Repeat(c, n) == [j \in 1 .. n |-> c]

\* EMIT and EMIT2: the sign, padding on the left, the body, and what is left
\* of given_wd on the right.  actual_wd is the body's width and the sign's.
Field(fl, wd, body, actual_wd) ==
    LET sign == IF "WS" \in fl THEN <<"-">> ELSE <<>>
        pad  == IF wd > actual_wd THEN wd - actual_wd ELSE 0
        left == IF "LJ" \in fl THEN <<>>
                ELSE Repeat(IF "LZ" \in fl THEN "0" ELSE Space, pad)
        lead == IF "LZ" \in fl THEN sign \o left ELSE left \o sign
    IN  lead \o body \o (IF "LJ" \in fl THEN Repeat(Space, pad) ELSE <<>>)

\* A conversion emits its field; the inner switch falls into default.
Converted(conv, arg, fl, body, actual_wd) ==
    /\ LET f == Field(fl, given_wd, body, actual_wd)
       IN  /\ Emit(f)
           /\ field' = [conv |-> conv, arg |-> arg, flags |-> fl,
                        wd |-> given_wd, text |-> f]
    /\ at' = WidthAt + 1
    /\ Reset
    /\ UNCHANGED fmt

Radix(conv) == CASE conv \in {"X", "x", "p", "n"} -> 16
                 [] conv \in {"d", "i", "u"} -> 10
                 [] conv = "o" -> 8

\* Fault: a negative number keeps its sign bit in the digits.
NumberKept(num) ==
    /\ AtConversion
    /\ LET conv == fmt[WidthAt]
           neg  == conv \in {"d", "i"} /\ num >= Word \div 2
           fl   == ZeroFlags \cup (IF neg THEN {"SG", "WS"} ELSE {})
           body == Digits(num, Radix(conv), DigitChars)
       IN  /\ conv \in {"X", "x", "p", "n", "d", "i", "u", "o"}
           /\ Converted(conv, num, fl, body, Len(body) + (IF neg THEN 1 ELSE 0))

\* num is negated as a word, and its digits are those of an unsigned number:
\* the smallest number is its own negation.
Number(num) ==
    /\ AtConversion
    /\ LET conv  == fmt[WidthAt]
           neg   == conv \in {"d", "i"} /\ num >= Word \div 2
           fl    == ZeroFlags
                    \cup (IF conv = "X" THEN {"CA"} ELSE {})
                    \cup (IF conv \in {"d", "i"} THEN {"SG"} ELSE {})
                    \cup (IF neg THEN {"WS"} ELSE {})
           body  == Digits(IF neg THEN (Word - num) % Word ELSE num,
                           Radix(conv),
                           IF "CA" \in fl THEN UpperChars ELSE DigitChars)
       IN  /\ conv \in {"X", "x", "p", "n", "d", "i", "u", "o"}
           /\ Converted(conv, num, fl, body, Len(body) + (IF neg THEN 1 ELSE 0))

\* The character 0 ends the body at once, but has the width of a character.
Char(c) ==
    /\ AtConversion /\ fmt[WidthAt] = "c"
    /\ Converted("c", c, ZeroFlags \ {"LZ"}, IF c = NULc THEN <<>> ELSE <<c>>, 1)

String(s) ==
    /\ AtConversion /\ fmt[WidthAt] = "s"
    /\ Converted("s", s, ZeroFlags \ {"LZ"}, s, Len(s))

\* Anything else, the format's NUL included, is dropped.
Unknown ==
    /\ AtConversion
    /\ fmt[WidthAt] \notin {"X", "x", "p", "n", "d", "i", "u", "o", "c", "s"}
    /\ at' = WidthAt + 1
    /\ Reset
    /\ UNCHANGED <<fmt, out, count, field>>

Scan ==
    \/ Literal \/ PercentSign \/ LeftJustify \/ Width \/ Modifier \/ Unknown
    \/ \E num \in Numbers : Number(num)
    \/ \E c \in {"A", NULc} : Char(c)
    \/ \E s \in Words : String(s)

\* The end of vsprintf: the helper has stored out at buf, and the byte behind
\* the count becomes NUL.
Finish ==
    /\ ~Reading /\ buf = <<>>
    /\ buf' = [k \in 1 .. Len(out) + 2 |-> IF k = count + 1 THEN NULc
                                           ELSE IF k <= Len(out) THEN out[k]
                                           ELSE "?"]
    /\ UNCHANGED <<fmt, at, state, flags, given_wd, out, count, field>>

PfNext ==
    \/ Scan /\ UNCHANGED buf
    \/ Finish

PfSpec == PfInit /\ [][PfNext]_pfVars

-----------------------------------------------------------------------------
(* Properties.                                                             *)

\* The digit a character stands for, and the value of a sequence of digits.
DigitValue(c) ==
    (CHOOSE i \in 1 .. 16 : DigitChars[i] = c \/ UpperChars[i] = c) - 1

ValueOf(s, radix) ==
    LET value[k \in 0 .. Len(s)] ==
            IF k = 0 THEN 0 ELSE radix * value[k - 1] + DigitValue(s[k])
    IN  value[Len(s)]

(***************************************************************************)
(* A field can be read back.  It is as wide as asked for, and wider only   *)
(* when its body is; without the padding it is the string, or a numeral    *)
(* without leading zeros whose value, with its sign, is the argument, the  *)
(* smallest negative number included; zeros stand between sign and digits. *)
(* The count do_printf returns is the characters it gave to fn, so that    *)
(* vsprintf's buf[rv] = '\0' ends the buffer right behind the text.        *)
(***************************************************************************)
FieldsReadBack ==
    /\ buf # <<>> => buf = out \o <<NULc, "?">>
    /\ field.conv # "none" =>
      LET pads   == {k \in 0 .. Len(field.text) :
                        \A j \in 1 .. k : field.text[j] = Space}
          tails  == {k \in 0 .. Len(field.text) :
                        \A j \in Len(field.text) - k + 1 .. Len(field.text) :
                            field.text[j] = Space}
          first  == CHOOSE k \in pads : \A j \in pads : j <= k
          last   == CHOOSE k \in tails : \A j \in tails : j <= k
          bare   == SubSeq(field.text, first + 1, Len(field.text) - last)
          neg    == bare # <<>> /\ bare[1] = "-"
          digits == IF neg THEN Tail(bare) ELSE bare
          value  == ValueOf(digits, Radix(field.conv))
          wide   == Len(field.text) > field.wd
      IN  /\ Len(field.text) >= field.wd \/ field.arg = NULc
          /\ field.conv = "s" => bare = field.arg /\ (wide => first + last = 0)
          /\ field.conv = "c" => bare = IF field.arg = NULc THEN <<>> ELSE <<field.arg>>
          /\ field.conv \notin {"s", "c"} =>
               /\ (IF neg THEN Word - value ELSE value) = field.arg
               /\ neg => field.conv \in {"d", "i"} /\ field.arg >= Word \div 2
               /\ ~neg => field.conv \notin {"d", "i"} \/ field.arg < Word \div 2
               /\ wide => digits[1] # "0" \/ field.arg = 0
               /\ first # 0 => last = 0

\* A format that ends inside a directive: behind a '%', or its '0'.
Unfinished(f) ==
    /\ f # <<>>
    /\ \/ f[Len(f)] = "%"
       \/ Len(f) > 1 /\ f[Len(f)] = "0" /\ f[Len(f) - 1] \in {"%", "-"}

(***************************************************************************)
(* The scan stops at the format's own NUL, however its directives are cut  *)
(* short; only a format that ends in '%', or in a '0' flag, is read past.  *)
(***************************************************************************)
ScanEndsAtNul ==
    LET end == CHOOSE k \in DOMAIN fmt :
                  fmt[k] = NULc /\ \A j \in 1 .. k - 1 : fmt[j] # NULc
    IN  at > end => Unfinished(SubSeq(fmt, 1, end - 1))

=============================================================================
