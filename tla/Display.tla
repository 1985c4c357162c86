------------------------------- MODULE Display -------------------------------
(***************************************************************************)
(* xTaskDisplay (mytasks.c): it takes a mean, shifts it into the graph and *)
(* has the driver of the OLED display draw the graph and two strings.      *)
(*                                                                         *)
(* A byte of the graph is the set of its bits that are 1; bit 7 is the     *)
(* lowest of the eight lines of a row.  Of the driver (osram96x16.c) the   *)
(* model keeps where it draws each byte (Heights), and the I2C transfers   *)
(* it starts and ends.                                                     *)
(***************************************************************************)
EXTENDS Integers, Sequences, SequencesExt

CONSTANT Columns  \* of the display, 96

VARIABLES
  xDisplayQueue,
  display,  \* xTaskDisplay: its pc and its local variables
  bus,      \* the I2C transfer: "idle", or "open" after a start without a stop
  plotted   \* history: the last Columns - 1 means plotted, the newest first

displayVars == <<xDisplayQueue, display, bus, plotted>>

Image == 0 .. 2 * Columns - 1

DisplayInit ==
  /\ display = [pc |-> "receive", temp |-> 0, graph |-> [i \in Image |-> {}]]
  /\ bus = "idle"
  /\ plotted = <<>>

(* Each definition whose name ends in Faulty is a variant of the one that  *)
(* follows it, with a plausible mistake; the specification uses none.      *)

\* 0b10000000 >> n
Bit(n) == IF n < 8 THEN {7 - n} ELSE {}

\* What plot puts into the upper and into the lower row for a value.
UpperRow(value) == IF value < 16 THEN {} ELSE Bit((value - 16) \div 2)
LowerRow(value) == IF value < 16 THEN Bit(value \div 2) \cup {7} ELSE {7}

\* The loop goes down, so that image[i - 1] is the byte before the shift; but
\* image[1] has its new value already.
plotFaulty(image, value) ==
  [i \in Image |-> IF i = 0 THEN image[0]
                   ELSE IF i <= Columns THEN UpperRow(value) ELSE LowerRow(value)]
plot(image, value) ==
  LET start == [image EXCEPT ![1] = UpperRow(value)]
  IN [i \in Image |-> IF i <= 1 THEN start[i]
                      ELSE IF i = Columns + 1 THEN LowerRow(value)
                      ELSE start[i - 1]]

\* The digits of itoa, the first one first: none for 0.
itoa(value) ==
  LET digits[n \in Nat] == IF n = 0 THEN <<>> ELSE Append(digits[n \div 10], n % 10)
  IN digits[value]

ReceiveMean ==
  /\ display.pc = "receive" /\ xDisplayQueue # <<>>
  /\ LET mean == Head(xDisplayQueue) IN
       /\ display' = [pc |-> "image", temp |-> mean, graph |-> plot(display.graph, mean)]
       /\ plotted' = SubSeq(<<mean>> \o plotted, 1,
                            IF Len(plotted) < Columns - 1 THEN Len(plotted) + 1
                            ELSE Columns - 1)
  /\ xDisplayQueue' = Tail(xDisplayQueue)
  /\ UNCHANGED bus

\* Each row is a transfer of its own.
OSRAMImageDraw ==
  /\ display.pc = "image"
  /\ bus' = "idle"
  /\ display' = [display EXCEPT !.pc = "number"]
  /\ UNCHANGED <<xDisplayQueue, plotted>>

\* OSRAMStringDraw starts a transfer, and ends it with the last character.
StringDraw(string) == bus' = IF string = <<>> THEN "open" ELSE "idle"

DrawNumber ==
  /\ display.pc = "number"
  /\ StringDraw(itoa(display.temp))
  /\ display' = [display EXCEPT !.pc = "label"]
  /\ UNCHANGED <<xDisplayQueue, plotted>>

DrawLabel ==
  /\ display.pc = "label"
  /\ StringDraw(<<"t">>)
  /\ display' = [display EXCEPT !.pc = "receive"]
  /\ UNCHANGED <<xDisplayQueue, plotted>>

xTaskDisplay == ReceiveMean \/ OSRAMImageDraw \/ DrawNumber \/ DrawLabel

-----------------------------------------------------------------------------
DisplayTypeOK ==
  /\ display.pc \in {"receive", "image", "number", "label"}
  /\ display.temp \in 0 .. 255
  /\ display.graph \in [Image -> SUBSET (0 .. 7)]
  /\ bus \in {"idle", "open"}

\* What is drawn, column by column: OSRAMImageDraw takes the first half of the image
\* for the upper row and the second half for the lower one.  The height of a dot is
\* counted from the bottom, where bit 7 of the lower row is the axis.
Heights(x) ==
  {2 * (15 - b) : b \in display.graph[x]} \cup
  {2 * (7 - b) : b \in display.graph[Columns + x] \ {7}}

\* Where a value is drawn that is the n-th mean, counted from the newest: in column n
\* if it is low, one further right if it is high.  The newest is in column 1 all the
\* same, where the shift leaves it too.  A high one that leaves the upper row to the
\* right comes back at the left, 16 lower.  What is at height 0 is on the axis.
DotsOf(n, value) ==
  LET height == 2 * (value \div 2)
      columns == (IF n + 1 < Columns THEN {n + 1} ELSE {}) \cup (IF n = 1 THEN {1} ELSE {})
  IN  IF value \in 2 .. 15 THEN {<<n, height>>}
      ELSE IF value \in 16 .. 31
        THEN (columns \X {height}) \cup
             (IF n = Columns - 1 /\ value > 17 THEN {<<0, height - 16>>} ELSE {})
      ELSE {}

\* The graph draws the last Columns - 1 means, with the dots of DotsOf for each of
\* them, and draws nothing else: no mean is lost before it leaves the graph at the
\* right, none appears anywhere but there, and none stays on.  It is not the plain
\* record one would expect: the rows are a column apart, so that a low mean and the
\* high one that came after it share a column; the newest high mean has two dots; and
\* the one that leaves the upper row has a wrong one, in the first column of the lower
\* row.
GraphIsHistory ==
  \A x \in 0 .. Columns - 1, height \in 0 .. 30 :
    height \in Heights(x) <=>
      \E n \in 1 .. Len(plotted) : <<x, height>> \in DotsOf(n, plotted[n])
=============================================================================
