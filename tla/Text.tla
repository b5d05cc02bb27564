-------------------------------- MODULE Text ---------------------------------
(***************************************************************************)
(* The string functions of the kernel (string.c) and of the user library   *)
(* (ulib.c), the kernel's and the user's printer of numbers and formats    *)
(* (console.c, printf.c) and the matcher of grep.c, as functions, each     *)
(* compared with what it is for.  A call is chosen, then made.  Memory is  *)
(* a function from addresses to characters; 0 is NUL.                      *)
(***************************************************************************)
EXTENDS Integers, SequencesExt, FiniteSetsExt

CONSTANTS Addr,      \* addresses 0 .. n
          Strings,   \* strings, without their NUL
          W,         \* width of an int
          Ints,      \* numbers to print
          Formats,   \* formats: sequences of letters and %
          Args,      \* the words that follow a format on the stack
          Patterns, Lines    \* of grep: sequences of characters

NUL == 0
Size == Max(Addr) + 1

VARIABLES call, result
vars == <<call, result>>

RECURSIVE Forward(_, _, _, _), Backward(_, _, _, _), CopyUntilNul(_, _, _, _), Zeros(_, _, _)
RECURSIVE match(_, _), matchhere(_, _), matchstar(_, _, _)
RECURSIVE strncmp(_, _, _), strcmp(_, _), atoi(_, _), Digits(_, _), Cprintf(_, _)

-----------------------------------------------------------------------------
(* Copying.                                                                 *)

Forward(m, d, s, n) == IF n <= 0 THEN m ELSE Forward([m EXCEPT ![d] = m[s]], d + 1, s + 1, n - 1)

\* From the last byte down.
Backward(m, d, s, n) == IF n <= 0 THEN m ELSE Backward([m EXCEPT ![d + n - 1] = m[s + n - 1]], d, s, n - 1)

memmove(m, d, s, n) == IF s < d /\ s + n > d THEN Backward(m, d, s, n) ELSE Forward(m, d, s, n)

\* The loop that ends with n or after a NUL: memory, where it is, what is left of n.
CopyUntilNul(m, s, t, n) ==
  IF n <= 0 THEN <<m, s, n>>
  ELSE IF m[t] = NUL THEN <<[m EXCEPT ![s] = NUL], s + 1, n - 1>>
  ELSE CopyUntilNul([m EXCEPT ![s] = m[t]], s + 1, t + 1, n - 1)

Zeros(m, s, n) == IF n <= 0 THEN m ELSE Zeros([m EXCEPT ![s] = NUL], s + 1, n - 1)

strncpy(m, s, t, n) == LET c == CopyUntilNul(m, s, t, n) IN Zeros(c[1], c[2], c[3])

\* n - 1 characters at most, then a NUL where the loop stopped.
safestrcpy(m, s, t, n) ==
  IF n <= 0 THEN m ELSE LET c == CopyUntilNul(m, s, t, n - 1) IN [c[1] EXCEPT ![c[2]] = NUL]

-----------------------------------------------------------------------------
(* Comparing.  A string is a sequence with the NUL implied at its end.      *)

C(p) == IF p = << >> THEN NUL ELSE Head(p)

strncmp(p, q, n) == IF n > 0 /\ C(p) # NUL /\ C(p) = C(q) THEN strncmp(Tail(p), Tail(q), n - 1)
                    ELSE IF n = 0 THEN 0 ELSE C(p) - C(q)

strcmp(p, q) == IF C(p) # NUL /\ C(p) = C(q) THEN strcmp(Tail(p), Tail(q)) ELSE C(p) - C(q)

-----------------------------------------------------------------------------
(* Numbers.  An int has W bits; -xx of the least one is itself, read as an  *)
(* unsigned number.  Both printers fill a buffer with the last digit first, *)
(* each with digits of its own.                                             *)

uint(x) == x % 2^W
int(x) == IF x >= 2^(W - 1) THEN x - 2^W ELSE x

\* The do-while loop: the numbers of the digits, the last one first.
Digits(x, base) == <<x % base>> \o (IF x \div base = 0 THEN << >> ELSE Digits(x \div base, base))

Lower == <<"0", "1", "2", "3", "4", "5", "6", "7", "8", "9", "a", "b", "c", "d", "e", "f">>
Upper == <<"0", "1", "2", "3", "4", "5", "6", "7", "8", "9", "A", "B", "C", "D", "E", "F">>

\* console.c: sign becomes whether there is a - to print.
cons_printint(xx, base, sign) ==
  LET minus == sign /\ xx < 0
      ds == Digits(IF minus THEN uint(-xx) ELSE uint(xx), base)
      buf == [i \in DOMAIN ds |-> Lower[ds[i] + 1]]
  IN Reverse(IF minus THEN Append(buf, "-") ELSE buf)

\* printf.c
printint(xx, base, sgn) ==
  LET neg == IF sgn /\ xx < 0 THEN 1 ELSE 0
      ds == Digits(IF neg = 1 THEN uint(-xx) ELSE uint(xx), base)
  IN [i \in 1 .. neg |-> "-"] \o Reverse([i \in DOMAIN ds |-> Upper[ds[i] + 1]])

Digit(c) == CHOOSE d \in 0 .. 15 : c \in {Lower[d + 1], Upper[d + 1]}

atoi(s, n) == IF s = << >> THEN n ELSE atoi(Tail(s), n * 10 + Digit(Head(s)))

-----------------------------------------------------------------------------
(* Formats.  The words on the stack are numbers, characters, or pointers to *)
(* strings; %s of a null pointer prints (null).                             *)

Word(k) == Args[((k - 1) % Len(Args)) + 1]
StringAt(w) == IF w = 0 THEN <<"(null)">> ELSE <<"s", "t">>
CharOf(w) == "<char>"

\* cprintf, from the k-th word on: a switch on the letter after %.
Cprintf(f, k) ==
  IF f = << >> \/ f = <<"%">> THEN << >>
  ELSE IF f[1] # "%" THEN <<f[1]>> \o Cprintf(Tail(f), k)
  ELSE LET c == f[2]
           more == SubSeq(f, 3, Len(f))
       IN CASE c = "d" -> cons_printint(int(Word(k)), 10, TRUE) \o Cprintf(more, k + 1)
            [] c \in {"x", "p"} -> cons_printint(int(Word(k)), 16, FALSE) \o Cprintf(more, k + 1)
            [] c = "s" -> StringAt(Word(k)) \o Cprintf(more, k + 1)
            [] c = "%" -> <<"%">> \o Cprintf(more, k)
            [] OTHER -> <<"%", c>> \o Cprintf(more, k)

cprintf(f) == Cprintf(f, 1)

\* printf: one character at a time, with the state between them.
Puts(s, out) == [s EXCEPT !.state = "text", !.out = @ \o out]
Prints(s, out) == [Puts(s, out) EXCEPT !.ap = @ + 1]

PrintfChar(s, c) ==
  LET w == Word(s.ap) IN
  IF s.state = "text" THEN IF c = "%" THEN [s EXCEPT !.state = "%"] ELSE Puts(s, <<c>>)
  ELSE IF c = "d" THEN Prints(s, printint(int(w), 10, TRUE))
  ELSE IF c = "x" \/ c = "p" THEN Prints(s, printint(int(w), 16, FALSE))
  ELSE IF c = "s" THEN Prints(s, StringAt(w))
  ELSE IF c = "c" THEN Prints(s, <<CharOf(w)>>)
  ELSE IF c = "%" THEN Puts(s, <<c>>)
  ELSE Puts(s, <<"%", c>>)

printf(f) == FoldLeft(PrintfChar, [state |-> "text", ap |-> 1, out |-> << >>], f).out

-----------------------------------------------------------------------------
(* grep: a pattern and a line, both ending with an implied NUL.             *)

From(p, k) == SubSeq(p, k, Len(p))
Is(p, k, c) == Len(p) >= k /\ p[k] = c

OneOrMore(c, re, text) == text # << >> /\ c \in {".", text[1]} /\ matchstar(c, re, Tail(text))

matchstar(c, re, text) ==
  \/ matchhere(re, text)
  \/ text # << >> /\ c \in {".", text[1]} /\ matchstar(c, re, Tail(text))

matchhere(re, text) ==
  \/ re = << >>
  \/ Is(re, 2, "*") /\ matchstar(re[1], From(re, 3), text)
  \/ re = <<"$">> /\ text = << >>
  \/ /\ re # << >> /\ ~Is(re, 2, "*") /\ re # <<"$">>
     /\ text # << >> /\ re[1] \in {".", text[1]} /\ matchhere(Tail(re), Tail(text))

match(re, text) == IF Is(re, 1, "^") THEN matchhere(Tail(re), text)
                   ELSE \E k \in 1 .. Len(text) + 1 : matchhere(re, From(text, k))

-----------------------------------------------------------------------------
Fits(a, n) == n <= 0 \/ a + n <= Size

\* Memory whose bytes are all different, and memory with t at `at'.
Distinct == [a \in Addr |-> a + 1]
Holding(t, at) == [a \in Addr |-> IF a < at THEN 9 ELSE IF a - at < Len(t) THEN t[a - at + 1] ELSE NUL]

Init ==
  /\ \/ \E d, a \in Addr, n \in -1 .. Size :
           Fits(d, n) /\ Fits(a, n) /\ call = [f |-> "move", d |-> d, s |-> a, n |-> n]
     \/ \E t \in Strings, n \in -1 .. Size \div 2 : call = [f |-> "copy", t |-> t, n |-> n]
     \/ \E p, q \in Strings, n \in 0 .. 3 : call = [f |-> "compare", p |-> p, q |-> q, n |-> n]
     \/ \E x \in Ints, base \in {10, 16} : call = [f |-> "number", x |-> x, base |-> base]
     \/ \E t \in Formats : call = [f |-> "format", t |-> t]
     \/ \E re \in Patterns, t \in Lines : call = [f |-> "grep", re |-> re, t |-> t]
  /\ result = << >>

Make == /\ result = << >> /\ UNCHANGED call
        /\ result' = CASE call.f = "move" -> <<memmove(Distinct, call.d, call.s, call.n)>>
                       [] call.f = "copy" -> LET at == Size \div 2
                                                 m == Holding(call.t, at)
                                             IN <<strncpy(m, 0, at, call.n), safestrcpy(m, 0, at, call.n)>>
                       [] call.f = "compare" -> <<strncmp(call.p, call.q, call.n), strcmp(call.p, call.q)>>
                       [] call.f = "number" -> 
                                    <<cons_printint(call.x, call.base, TRUE), cons_printint(call.x, call.base, FALSE),
                                      printint(call.x, call.base, TRUE), printint(call.x, call.base, FALSE)>>
                       [] call.f = "format" -> <<cprintf(call.t), printf(call.t)>>
                       [] call.f = "grep" -> <<match(call.re, call.t)>>

Next == Make
Spec == Init /\ [][Next]_vars

-----------------------------------------------------------------------------
Made(f) == call.f = f /\ result # << >>

\* memmove copies the bytes as they were before the call, also when the two
\* places overlap either way, and touches nothing else.
MovesBytes == Made("move") =>
  \A a \in Addr : result[1][a] = IF a \in call.d .. call.d + call.n - 1
                                 THEN Distinct[call.s + a - call.d] ELSE Distinct[a]

\* strncpy fills exactly n bytes with the string and zeros; safestrcpy always
\* leaves a string, the longest prefix that fits in n bytes with its NUL, and
\* neither writes past n.
CopiesStrings == Made("copy") =>
  LET ch(k) == IF k < Len(call.t) THEN call.t[k + 1] ELSE NUL
      old == Holding(call.t, Size \div 2)
      short == Min({Len(call.t), call.n - 1})
  IN /\ \A a \in Addr : result[1][a] = IF a < call.n THEN ch(a) ELSE old[a]
     /\ call.n > 0 => /\ \A a \in 0 .. short - 1 : result[2][a] = ch(a)
                      /\ result[2][short] = NUL
     /\ \A a \in Addr : a >= call.n => result[2][a] = old[a]

\* strncmp and strcmp are 0 for equal strings (up to n) only, and otherwise have
\* the sign of the first difference.
Compares == Made("compare") =>
  LET ch(s, k) == IF k <= Len(s) THEN s[k] ELSE NUL
      differ(n) == {k \in 1 .. n : ch(call.p, k) # ch(call.q, k)}
      order(n) == IF differ(n) = {} THEN 0 ELSE ch(call.p, Min(differ(n))) - ch(call.q, Min(differ(n)))
  IN result = <<order(call.n), order(Max({Len(call.p), Len(call.q)}))>>

\* What the two printints print is the number, the least one of W bits
\* included, and atoi reads a number that is not negative back from its decimal
\* digits (console.c:32-52, printf.c:19-36, ulib.c:84-93).
PrintsNumber == Made("number") =>
  LET value(ds) == LET v[k \in 0 .. Len(ds)] == IF k = 0 THEN 0 ELSE v[k - 1] * call.base + Digit(ds[k])
                   IN v[Len(ds)]
  IN /\ \A i \in {1, 3} : (IF result[i][1] = "-" THEN -value(Tail(result[i])) ELSE value(result[i])) = call.x
     /\ \A i \in {2, 4} : value(result[i]) = uint(call.x)
     /\ call.base = 10 /\ call.x >= 0 => atoi(result[3], 0) = call.x

\* Whether the % at place k begins a sequence, with those right before it in
\* pairs.
Begins(t, k) == \E m \in {j \in 1 .. k : j % 2 = 1} :
                  (\A i \in k - m + 1 .. k : t[i] = "%") /\ (m = k \/ t[k - m] # "%")

Has(t, c) == \E k \in 1 .. Len(t) - 1 : Begins(t, k) /\ t[k + 1] = c

AnyCase(out) == [i \in DOMAIN out |-> IF \E d \in DOMAIN Upper : Upper[d] = out[i]
                                      THEN Lower[CHOOSE d \in DOMAIN Upper : Upper[d] = out[i]] ELSE out[i]]

\* cprintf's switch and printf's state machine print the same for the same
\* arguments, which neither gets out of step with, but for two things: %c,
\* which only printf knows, and the letters of hexadecimal digits, lower case in
\* the kernel (console.c:29) and upper case in printf.c:14.
PrintersAgree == Made("format") =>
  \/ Has(call.t, "c")
  \/ /\ AnyCase(result[1]) = AnyCase(result[2])
     /\ ~Has(call.t, "x") /\ ~Has(call.t, "p") => result[1] = result[2]

\* grep's reference: a pattern is a sequence of items, a character and whether
\* a * follows it; the items match a text if it can be cut into one piece each.
RECURSIVE Items(_), Cut(_, _)
Items(re) == IF re = << >> THEN << >>
             ELSE IF Is(re, 2, "*") THEN <<<<re[1], TRUE>>>> \o Items(From(re, 3))
             ELSE <<<<re[1], FALSE>>>> \o Items(Tail(re))
Cut(items, text) ==
  IF items = << >> THEN text = << >>
  ELSE \E k \in 0 .. Len(text) :
         /\ items[1][2] \/ k = 1
         /\ items[1][1] = "." \/ \A i \in 1 .. k : text[i] = items[1][1]
         /\ Cut(Tail(items), From(text, k + 1))

\* match finds the pattern in the line exactly if some part of the line is cut
\* by its items: the first part if it starts with ^, the last if it ends in $.
GrepFinds == Made("grep") =>
  LET first == Is(call.re, 1, "^")
      items == Items(IF first THEN Tail(call.re) ELSE call.re)
      last == items # << >> /\ items[Len(items)] = <<"$", FALSE>>
      body == IF last THEN SubSeq(items, 1, Len(items) - 1) ELSE items
  IN result[1] <=> \E i \in 0 .. Len(call.t) : \E j \in i .. Len(call.t) :
       (first => i = 0) /\ (last => j = Len(call.t)) /\ Cut(body, SubSeq(call.t, i + 1, j))
=============================================================================
