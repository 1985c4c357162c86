-------------------------------- MODULE Itoa --------------------------------
(***************************************************************************)
(* itoa (stats.c) writes the digits of a number into a static buffer and   *)
(* returns a pointer into it.  xTaskDisplay and xTaskTop both call it, and *)
(* then read the digits one at a time (OSRAMStringDraw, strcat).  The two  *)
(* tasks have one priority: the tick may switch between any two steps.     *)
(***************************************************************************)
EXTENDS Integers, Sequences

CONSTANTS
  Callers,
  Numbers   \* [caller -> the numbers it may have to write]

INT_MAX == 2147483647  \* of the type of val
Size == 32
NUL == -1   \* any value that is no digit

ASSUME ItoaAssumption == \A c \in Callers : Numbers[c] \subseteq 0 .. INT_MAX

VARIABLES
  buf,   \* the static buffer: a digit or NUL in each place
  call   \* [caller -> pc, the locals of itoa, the digits read so far, and whether
         \* nobody else has written since the call]

itoaVars == <<buf, call>>

ItoaInit ==
  /\ buf = [n \in 0 .. Size - 1 |-> NUL]
  /\ call = [c \in Callers |-> [pc |-> "idle", number |-> 0, val |-> 0, i |-> 0, read |-> <<>>,
                           alone |-> TRUE]]

(* Each definition whose name ends in Faulty is a variant of the one that  *)
(* follows it, with a plausible mistake; the specification uses none.      *)

itoa(c) ==
  /\ call[c].pc = "idle"
  /\ \E number \in Numbers[c] :
       call' = [call EXCEPT ![c] = [pc |-> "write", number |-> number, val |-> number,
                                    i |-> Size - 2, read |-> <<>>, alone |-> TRUE]]
  /\ UNCHANGED buf

\* One turn of the loop, from the last digit to the first.
WriteDigit(c) ==
  /\ call[c].pc = "write" /\ call[c].val # 0 /\ call[c].i # 0
  /\ buf' = [buf EXCEPT ![call[c].i] = call[c].val % 10]
  /\ call' = [d \in Callers |->
       IF d = c THEN [call[c] EXCEPT !.i = @ - 1, !.val = @ \div 10]
                ELSE [call[d] EXCEPT !.alone = FALSE]]

ReturnPointerFaulty(c) ==
  /\ call[c].pc = "write" /\ (call[c].val = 0 \/ call[c].i = 0)
  /\ call' = [call EXCEPT ![c].pc = "read"]
  /\ UNCHANGED buf

ReturnPointer(c) ==
  /\ call[c].pc = "write" /\ (call[c].val = 0 \/ call[c].i = 0)
  /\ call' = [call EXCEPT ![c].pc = "read", ![c].i = @ + 1]
  /\ UNCHANGED buf

\* The caller goes through the string as far as its NUL.
ReadDigit(c) ==
  /\ call[c].pc = "read"
  /\ IF call[c].i < Size /\ buf[call[c].i] # NUL
       THEN call' = [call EXCEPT ![c].read = Append(@, buf[call[c].i]), ![c].i = @ + 1]
       ELSE call' = [call EXCEPT ![c].pc = "shown"]
  /\ UNCHANGED buf

NextNumber(c) ==
  /\ call[c].pc = "shown"
  /\ call' = [call EXCEPT ![c].pc = "idle"]
  /\ UNCHANGED buf

ItoaNext == \E c \in Callers :
  itoa(c) \/ WriteDigit(c) \/ ReturnPointer(c) \/ ReadDigit(c) \/ NextNumber(c)

ItoaSpec == ItoaInit /\ [][ItoaNext]_itoaVars

-----------------------------------------------------------------------------
\* The decimal digits of a number, the first one first.
Digits(number) ==
  LET digits[n \in Nat] == IF n = 0 THEN <<>> ELSE Append(digits[n \div 10], n % 10)
  IN digits[number]

\* Whether this is the digit of that place of a number that a caller may write;
\* places count from the right, from 0.
SomeDigit(place, digit) ==
  \E c \in Callers : \E n \in Numbers[c] :
    place < Len(Digits(n)) /\ Digits(n)[Len(Digits(n)) - place] = digit

\* What a caller reads, however the callers disturb each other.  The string has as
\* many digits as the caller's number, none for 0: no NUL comes too early, and the
\* last place of the buffer keeps its NUL (stats.c:91-93).  But the digits may be those
\* of another's number, each in the place it has there: with a 3 written by another
\* meanwhile, 29 may be read as 23.  Only a caller that nobody has disturbed from its
\* call until it is through the string is sure to read its own number, whatever was
\* left in the buffer.
NumberIsShown ==
  \A c \in Callers :
    LET Length == Len(Digits(call[c].number)) IN
    /\ call[c].pc = "read" => buf[Size - 1] = NUL /\ call[c].i < Size
    /\ call[c].pc = "shown" =>
         /\ Len(call[c].read) = Length
         /\ \A j \in 1 .. Length : SomeDigit(Length - j, call[c].read[j])
         /\ call[c].alone => call[c].read = Digits(call[c].number)
=============================================================================
