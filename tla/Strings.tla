------------------------------- MODULE Strings -------------------------------
(***************************************************************************)
(* lib/string.c on a small memory of bytes.  Two uses of it are modelled:  *)
(* one copying or filling call with any arguments, and the way vfs.c       *)
(* splits a path: copy the text as strdup does, then strtok_r until NULL.  *)
(***************************************************************************)
EXTENDS Integers, Sequences

CONSTANTS
    MemSize,     \* bytes of memory
    Dword,       \* bytes memcpy and memset move at a time: 4
    Text,        \* the texts to split, sequences of characters other than NUL
    Accept,      \* the characters of strtok_r's delim
    NULL         \* the null pointer

NUL == 0
Addr == 0 .. MemSize - 1

ASSUME StringsAssumption ==
    /\ MemSize \in Nat \ {0} /\ Dword \in Nat \ {0}
    /\ NUL \notin Accept /\ NULL \notin Addr
    /\ \A t \in Text : /\ t \in Seq(Nat) /\ 2 * (Len(t) + 1) <= MemSize
                        /\ \A k \in 1 .. Len(t) : t[k] # NUL

VARIABLES
    mem,         \* the bytes
    call,        \* the last copying or filling call and its arguments
    text,        \* the text being split, which starts at address 0
    copy,        \* where strdup put its copy; NULL before, or without memory
    saveptr,     \* *saveptr of strtok_r
    tokens,      \* history: the tokens strtok_r returned, as sequences
    split        \* "copy", or "strdup", "first", "next", "done"

strVars == <<mem, call, text, copy, saveptr, tokens, split>>

-----------------------------------------------------------------------------
(* The functions of string.c, on a memory m.                               *)

Least(S) == CHOOSE k \in S : \A j \in S : k <= j

strlen(m, p) == Least({k \in 0 .. MemSize - p - 1 : m[p + k] = NUL})

\* The address of the first c from p on.
lfind(m, p, c) == Least({q \in p .. MemSize - 1 : m[q] = c})

strspn(m, p, accept) ==
    Least({k \in 0 .. strlen(m, p) : m[p + k] \notin accept})

strpbrk(m, p, accept) ==
    LET hits == {q \in p .. p + strlen(m, p) - 1 : m[q] \in accept}
    IN  IF hits = {} THEN NULL ELSE Least(hits)

\* 0 for equal strings, else the difference of the first unequal characters.
strcmp(m, p, q) ==
    LET k == Least({j \in 0 .. MemSize - 1 :
                       /\ j <= strlen(m, p) /\ j <= strlen(m, q)
                       /\ m[p + j] # m[q + j] \/ m[p + j] = NUL})
    IN  m[p + k] - m[q + k]

\* One load of size bytes and the store of what it read.
Move(m, d, s, size) ==
    [a \in Addr |-> IF a \in d .. d + size - 1 THEN m[s + a - d] ELSE m[a]]

\* A loop of such moves; a step is <<offset, size>>.
CopyLoop(m, d, s, steps) ==
    LET done[k \in 0 .. Len(steps)] ==
            IF k = 0 THEN m
            ELSE Move(done[k - 1], d + steps[k][1], s + steps[k][1], steps[k][2])
    IN  done[Len(steps)]

\* The dwords of n bytes in ascending order, then the bytes left over.
DwordSteps(n) ==
    [i \in 1 .. n \div Dword |-> <<Dword * (i - 1), Dword>>]
    \o [i \in 1 .. n % Dword |-> <<Dword * (n \div Dword) + i - 1, 1>>]

memcpy(m, d, s, n) == CopyLoop(m, d, s, DwordSteps(n))

\* One store of size times the byte val.
Store(m, d, val, size) ==
    [a \in Addr |-> IF a \in d .. d + size - 1 THEN val ELSE m[a]]

memset(m, d, val, n) ==
    LET steps == DwordSteps(n)
        done[k \in 0 .. Len(steps)] ==
            IF k = 0 THEN m
            ELSE Store(done[k - 1], d + steps[k][1], val, steps[k][2])
    IN  done[Len(steps)]

\* Fault: the direction is chosen the wrong way round.
memmoveSwapped(m, d, s, n) ==
    CopyLoop(m, d, s, [i \in 1 .. n |-> IF s < d THEN <<i - 1, 1>>
                                                 ELSE <<n - i, 1>>])

\* Bytes from the last to the first when the source lies below.
memmove(m, d, s, n) ==
    CopyLoop(m, d, s, [i \in 1 .. n |-> IF s < d THEN <<n - i, 1>>
                                                 ELSE <<i - 1, 1>>])

strcpy(m, d, s) == memcpy(m, d, s, strlen(m, s) + 1)

-----------------------------------------------------------------------------
(* One copying or filling call.                                            *)

NoCall == [op |-> "none", d |-> 0, s |-> 0, n |-> 0]

\* All bytes differ, and none is NUL.
CopyInit ==
    /\ mem = [a \in Addr |-> a + 1]
    /\ call = NoCall
    /\ text = <<>> /\ copy = NULL /\ saveptr = NULL /\ tokens = <<>>
    /\ split = "copy"

Called(op, d, s, n) ==
    /\ split = "copy" /\ call = NoCall
    /\ d + n <= MemSize
    /\ call' = [op |-> op, d |-> d, s |-> s, n |-> n]
    /\ UNCHANGED <<text, copy, saveptr, tokens, split>>

Memcpy(d, s, n) ==
    s + n <= MemSize /\ Called("memcpy", d, s, n) /\ mem' = memcpy(mem, d, s, n)

Memmove(d, s, n) ==
    s + n <= MemSize /\ Called("memmove", d, s, n) /\ mem' = memmove(mem, d, s, n)

Memset(d, val, n) ==
    Called("memset", d, val, n) /\ mem' = memset(mem, d, val, n)

-----------------------------------------------------------------------------
(* Splitting a text.                                                       *)

SplitInit ==
    /\ text \in Text
    /\ mem = [a \in Addr |-> IF a < Len(text) THEN text[a + 1] ELSE NUL]
    /\ call = NoCall
    /\ copy = NULL /\ saveptr = NULL /\ tokens = <<>> /\ split = "strdup"

\* strdup: malloc, modelled by its result, answers a place apart from the
\* text, or NULL, and then nothing is copied.
Strdup(d) ==
    /\ split = "strdup"
    /\ copy' = d
    /\ IF d = NULL
       THEN split' = "done" /\ UNCHANGED mem
       ELSE /\ d > Len(text) /\ d + Len(text) < MemSize
            /\ mem' = strcpy(mem, d, 0)
            /\ split' = "first"
    /\ UNCHANGED <<call, text, saveptr, tokens>>

\* Fault: the delimiter is not overwritten.
StrtokUncut(str) ==
    LET token == str + strspn(mem, str, Accept)
        cut   == strpbrk(mem, token, Accept)
    IN  IF mem[token] = NUL
        THEN /\ saveptr' = token /\ split' = "done"
             /\ UNCHANGED <<mem, tokens>>
        ELSE /\ UNCHANGED mem
             /\ saveptr' = IF cut = NULL THEN lfind(mem, token, NUL) ELSE cut + 1
             /\ tokens' = Append(tokens, [k \in 1 .. strlen(mem, token) |->
                                             mem[token + k - 1]])
             /\ split' = "next"

\* strtok_r from str on: skip delimiters, return what follows up to the next
\* one, which becomes a NUL; at the end of the string the answer is NULL.
strtok_r(str) ==
    LET token == str + strspn(mem, str, Accept)
        cut   == strpbrk(mem, token, Accept)
    IN  IF mem[token] = NUL
        THEN /\ saveptr' = token /\ split' = "done"
             /\ UNCHANGED <<mem, tokens>>
        ELSE /\ IF cut = NULL
                THEN /\ UNCHANGED mem
                     /\ saveptr' = lfind(mem, token, NUL)
                ELSE /\ mem' = [mem EXCEPT ![cut] = NUL]
                     /\ saveptr' = cut + 1
             /\ tokens' = Append(tokens, [k \in 1 .. strlen(mem', token) |->
                                             mem'[token + k - 1]])
             /\ split' = "next"

StrtokFirst ==
    split = "first" /\ strtok_r(copy) /\ UNCHANGED <<call, text, copy>>

StrtokNext ==
    split = "next" /\ strtok_r(saveptr) /\ UNCHANGED <<call, text, copy>>

StrInit == CopyInit \/ SplitInit

StrNext ==
    \/ \E d, s \in Addr, n \in 0 .. MemSize : Memcpy(d, s, n) \/ Memmove(d, s, n)
    \/ \E d \in Addr, n \in 0 .. MemSize : Memset(d, NUL, n)
    \/ \E d \in Addr \cup {NULL} : Strdup(d)
    \/ StrtokFirst
    \/ StrtokNext

StrSpec == StrInit /\ [][StrNext]_strVars

-----------------------------------------------------------------------------
(* Properties.                                                             *)

\* The bytes a call may change.
Target(c) == c.d .. c.d + c.n - 1

(***************************************************************************)
(* A copy leaves at its destination the bytes the source had before the    *)
(* call, and nothing else changes: for memmove whatever the overlap, for   *)
(* memcpy, which goes upwards by dwords, also when the destination starts  *)
(* below an overlapping source.  memset fills exactly its n bytes.         *)
(***************************************************************************)
CopiesWhole ==
    [][call' # call =>
         /\ \/ call'.op = "memmove"
            \/ call'.op = "memcpy" /\ (call'.d <= call'.s \/ call'.s + call'.n <= call'.d)
            => mem' = [a \in Addr |-> IF a \in Target(call') THEN mem[call'.s + a - call'.d]
                                                              ELSE mem[a]]
         /\ call'.op = "memset" =>
               mem' = [a \in Addr |-> IF a \in Target(call') THEN call'.s ELSE mem[a]]]_strVars

\* The ends of the words of a text: the places where a run of other
\* characters than delimiters begins and where it stops.
WordEnds(t) ==
    {w \in (1 .. Len(t)) \X (1 .. Len(t)) :
        /\ w[1] <= w[2]
        /\ \A k \in w[1] .. w[2] : t[k] \notin Accept
        /\ w[1] = 1 \/ t[w[1] - 1] \in Accept
        /\ w[2] = Len(t) \/ t[w[2] + 1] \in Accept}

\* words are the places in the text of the tokens so far: the first words
\* of it in order, without a gap, and in the end all of them.
FirstWords(words) ==
    /\ \A k \in DOMAIN words : tokens[k] = SubSeq(text, words[k][1], words[k][2])
    /\ \A j, k \in DOMAIN words : j < k => words[j][2] < words[k][1]
    /\ \A w \in WordEnds(text) :
          \/ \E k \in DOMAIN words : words[k] = w
          \/ split # "done" /\ \A k \in DOMAIN words : words[k][2] < w[1]

(***************************************************************************)
(* strtok_r returns the maximal delimiter-free runs of the text, each once *)
(* and in order, and when it answers NULL it has returned all of them:     *)
(* none is empty, also for leading, trailing and repeated delimiters.  The *)
(* text strdup copied from keeps its bytes, and strcmp finds the copy      *)
(* equal.                                                                  *)
(***************************************************************************)
TokensAreWords ==
    /\ \A k \in 1 .. Len(text) : mem[k - 1] = text[k]
    /\ split = "first" => strcmp(mem, 0, copy) = 0
    /\ copy # NULL =>
         \E words \in [1 .. Len(tokens) -> WordEnds(text)] : FirstWords(words)

=============================================================================
