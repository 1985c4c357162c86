-------------------------- MODULE Application_proof --------------------------
(***************************************************************************)
(* The program's tasks: the mean that the filter task sends is that of the *)
(* last temperatures, whatever N_MAX, the queues and the values are; it is *)
(* so in the whole application too; and the graph on the display draws the *)
(* last means, where plot puts them.                                       *)
(*                                                                         *)
(* The invariant says which entries of the window are temperatures that    *)
(* came since N_FIL was changed: the first ones, as many as have come.     *)
(***************************************************************************)
EXTENDS Application, KernelLists_proof

Messages == Seq(Byte)

FilterType ==
  [pc : {"receive", "filter", "send", "delay"}, temp_in_second : [Window -> Byte],
   N_FIL : 1 .. N_MAX, N_UART : Byte, last_temp : Byte, mean : Byte]

QueueType(q) == q \in Messages /\ Len(q) <= QUEUE_SIZE

\* In the state "filter" the newest temperature is in readings and not yet in the window.
Pushed == IF filter.pc = "filter" THEN 1 ELSE 0

\* The first entries of the window are the last readings, as many as came since
\* N_FIL changed.
WindowTells ==
  \A i \in Window :
    i < settled /\ i < filter.N_FIL /\ i + 1 + Pushed <= N_MAX =>
      /\ i + 1 + Pushed <= Len(readings)
      /\ filter.temp_in_second[i] = readings[i + 1 + Pushed]

FilterInv ==
  /\ QueueType(xTempQueue) /\ QueueType(xUARTQueue) /\ QueueType(xDisplayQueue)
  /\ filter \in FilterType
  /\ readings \in Messages /\ Len(readings) <= N_MAX
  /\ settled \in 0 .. N_MAX
  /\ WindowTells
  /\ filter.pc = "filter" => Len(readings) >= 1 /\ filter.last_temp = readings[1]
  /\ filter.pc = "send" => filter.mean = Mean(filter.temp_in_second, filter.N_FIL)

LEMMA QueueAppend ==
  ASSUME NEW q, QueueType(q), Len(q) < QUEUE_SIZE, NEW e \in Byte
  PROVE  QueueType(Append(q, e))
BY FilterAssumption, AppendProperties, LenProperties DEF QueueType, Messages

LEMMA QueueTail ==
  ASSUME NEW q, QueueType(q), q # <<>>
  PROVE  QueueType(Tail(q)) /\ Head(q) \in Byte
BY FilterAssumption, HeadTailProperties, LenProperties DEF QueueType, Messages

\* The newest message before the others, of which the last is lost beyond n.
LEMMA Newest ==
  ASSUME NEW s \in Messages, NEW n \in Nat \ {0}, Len(s) <= n, NEW e \in Byte
  PROVE  LET r == SubSeq(<<e>> \o s, 1, IF Len(s) < n THEN Len(s) + 1 ELSE n)
         IN  /\ r \in Messages /\ Len(r) = (IF Len(s) < n THEN Len(s) + 1 ELSE n)
             /\ r[1] = e /\ \A i \in 2 .. Len(r) : i - 1 \in 1 .. Len(s) /\ r[i] = s[i - 1]
<1> DEFINE c == <<e>> \o s
           m == IF Len(s) < n THEN Len(s) + 1 ELSE n
<1>1. Len(s) \in Nat /\ <<e>> \in Messages /\ Len(<<e>>) = 1 /\ <<e>>[1] = e
  BY LenProperties DEF Messages
<1>2. /\ c \in Messages /\ Len(c) = 1 + Len(s)
      /\ c[1] = e /\ \A i \in 2 .. Len(c) : c[i] = s[i - 1]
  BY <1>1, ConcatProperties DEF Messages
<1>3. m \in 1 .. Len(c) /\ 1 \in 1 .. Len(c) + 1
  BY <1>1, <1>2
<1>4. /\ SubSeq(c, 1, m) \in Messages /\ Len(SubSeq(c, 1, m)) = m
      /\ \A i \in 1 .. m : SubSeq(c, 1, m)[i] = c[i]
  <2> HIDE DEF c, m
  <2>1. m \in Nat /\ Len(c) \in Nat /\ \A i \in 1 .. m : i \in 1 .. Len(c)
    BY <1>2, <1>3, <1>1
  <2>2. c \in Seq(Byte) /\ \A i \in 1 .. m : c[i] \in Byte
    BY <1>2, <2>1, ElementOfSeq DEF Messages
  <2> QED BY <2>1, <2>2, SubSeqProperties DEF Messages
<1>5. m \in Nat /\ m <= Len(s) + 1
  BY <1>1
<1> DEFINE r == SubSeq(c, 1, m)
<1>6. r[1] = e
  <2>1. 1 \in 1 .. m
    BY <1>3, <1>5
  <2> QED BY <1>2, <1>4, <2>1
<1>7. ASSUME NEW i \in 2 .. Len(r) PROVE i - 1 \in 1 .. Len(s) /\ r[i] = s[i - 1]
  <2>1. i \in 1 .. m /\ i \in 2 .. Len(c) /\ i - 1 \in 1 .. Len(s)
    <3>1. i \in 2 .. m
      BY <1>4
    <3> HIDE DEF m, c
    <3> QED BY <1>1, <1>2, <1>5, <3>1
  <2> QED BY <1>2, <1>4, <2>1
<1> HIDE DEF r
<1> QED BY <1>4, <1>6, <1>7 DEF r

LEMMA MeanIsByte ==
  ASSUME NEW window \in [Window -> Byte], NEW n \in 1 .. N_MAX
  PROVE  Mean(window, n) \in Byte
<1> DEFINE S == 0 .. n - 1
           total == SumOver(window, S)
<1>1. N_MAX \in Nat
  BY FilterAssumption
<1>2. IsFiniteSet(S) /\ Cardinality(S) = n
  BY FS_Interval
<1>3. \A x \in S : window[x] \in 0 .. 255
  BY <1>1 DEF Window, Byte
<1> HIDE DEF S
<1>4. total \in 0 .. 255 * n
  <2>1. SumOver(window, S) \in 0 .. 255 * Cardinality(S)
    <3>1. 255 \in Nat
      OBVIOUS
    <3> QED BY ONLY <1>2, <1>3, <3>1, SumBound
  <2> QED BY <1>2, <2>1
<1> HIDE DEF total
<1>5. total \div n \in 0 .. 255
  <2>1. n \in Nat \ {0} /\ total \in Nat /\ 255 * n = n * 255
    BY <1>4, <1>1
  <2>2. total \div n \in Nat /\ n * (total \div n) <= total
    BY <2>1
  <2>3. ASSUME NEW q \in Nat, q > 255 PROVE n * q > n * 255
    <3>1. q - 255 \in Nat \ {0}
      BY <2>3
    <3>2. n * (q - 255) \in Nat \ {0}
      BY <2>1, <3>1
    <3>3. n * q = n * (q - 255) + n * 255
      BY <2>1
    <3> QED BY <2>1, <3>2, <3>3
  <2>4. n * (total \div n) \in Nat /\ n * 255 \in Nat
    BY <2>1, <2>2
  <2> QED BY <1>4, <2>1, <2>2, <2>3, <2>4
<1> QED BY <1>5 DEF Mean, SumOver, S, total, Byte

LEMMA FilterInitInv == FilterInit => FilterInv
<1> SUFFICES ASSUME FilterInit PROVE FilterInv
  OBVIOUS
<1>1. QueueType(<<>>) /\ <<>> \in Messages /\ Len(<<>>) = 0
  BY FilterAssumption DEF QueueType, Messages
<1>2. filter \in FilterType /\ filter.pc = "receive"
  BY FilterAssumption DEF FilterInit, FilterType, Byte
<1>3. settled = 0 /\ N_MAX \in Nat
  BY FilterAssumption DEF FilterInit
<1>4. WindowTells
  BY <1>3 DEF WindowTells, Window
<1> QED BY <1>1, <1>2, <1>3, <1>4 DEF FilterInit, FilterInv

LEMMA ReceiveTemperatureInv == FilterInv /\ ReceiveTemperature => FilterInv'
<1> SUFFICES ASSUME FilterInv, ReceiveTemperature PROVE FilterInv'
  OBVIOUS
<1>1. QueueType(xTempQueue') /\ Head(xTempQueue) \in Byte
  BY QueueTail DEF FilterInv, ReceiveTemperature
<1>2. /\ filter \in FilterType /\ filter.pc = "receive" /\ filter' \in FilterType
      /\ filter'.pc = "filter" /\ filter'.last_temp = Head(xTempQueue)
      /\ filter'.temp_in_second = filter.temp_in_second /\ filter'.N_FIL = filter.N_FIL
  BY <1>1 DEF FilterInv, ReceiveTemperature, FilterType
<1>3. /\ readings' \in Messages /\ Len(readings') = (IF Len(readings) < N_MAX THEN Len(readings) + 1 ELSE N_MAX)
      /\ readings'[1] = Head(xTempQueue)
      /\ \A i \in 2 .. Len(readings') : i - 1 \in 1 .. Len(readings) /\ readings'[i] = readings[i - 1]
  <2>1. N_MAX \in Nat \ {0}
    BY FilterAssumption
  <2> QED BY <1>1, <2>1, Newest DEF FilterInv, ReceiveTemperature
<1>4. N_MAX \in 1 .. 255 /\ Len(readings) \in Nat /\ settled \in 0 .. N_MAX /\ settled' = settled
  BY FilterAssumption, LenProperties DEF FilterInv, Messages, ReceiveTemperature
<1>5. WindowTells'
  <2> SUFFICES ASSUME NEW i \in Window, i < settled, i < filter.N_FIL, i + 1 + 1 <= N_MAX
               PROVE  /\ i + 1 + 1 <= Len(readings')
                      /\ filter.temp_in_second[i] = readings'[i + 1 + 1]
    BY <1>2, <1>4 DEF WindowTells, Pushed
  <2>1. i + 1 <= Len(readings) /\ filter.temp_in_second[i] = readings[i + 1]
    BY <1>2, <1>4 DEF FilterInv, WindowTells, Pushed, Window
  <2>2. i \in Nat /\ i + 2 \in 2 .. Len(readings')
    BY <1>3, <1>4, <2>1 DEF Window
  <2> QED BY <1>3, <2>1, <2>2
<1>6. Len(readings') >= 1 /\ Len(readings') <= N_MAX
  <2>1. Len(readings) <= N_MAX
    BY DEF FilterInv
  <2>2. PICK before, now : before = Len(readings) /\ now = Len(readings')
    OBVIOUS
  <2>3. now = IF before < N_MAX THEN before + 1 ELSE N_MAX
    BY <1>3, <2>2
  <2>4. before \in Nat /\ N_MAX \in 1 .. 255 /\ before <= N_MAX
    BY <1>4, <2>1, <2>2
  <2>5. now >= 1 /\ now <= N_MAX
    BY ONLY <2>3, <2>4
  <2> QED BY <2>2, <2>5
<1> QED BY <1>1, <1>2, <1>3, <1>4, <1>5, <1>6 DEF FilterInv, ReceiveTemperature

LEMMA FilterTemperatureInv == FilterInv /\ FilterTemperature => FilterInv'
<1> SUFFICES ASSUME FilterInv, FilterTemperature PROVE FilterInv'
  OBVIOUS
<1> DEFINE u == IF xUARTQueue = <<>> THEN filter.N_UART ELSE Head(xUARTQueue)
           n == IF Accepts(u) THEN u ELSE filter.N_FIL
           window == Push(filter.temp_in_second, n, filter.last_temp)
<1>0. N_MAX \in 1 .. 255
  BY FilterAssumption
<1>1. filter \in FilterType /\ filter.pc = "filter"
  BY DEF FilterInv, FilterTemperature
<1>2. u \in Byte /\ QueueType(xUARTQueue')
  BY <1>1, QueueTail DEF FilterInv, FilterTemperature, FilterType
<1>3. n \in 1 .. N_MAX
  <2>1. filter.N_FIL \in 1 .. N_MAX
    BY <1>1 DEF FilterType
  <2>2. u \in 0 .. 255
    BY <1>2 DEF Byte
  <2> HIDE DEF u
  <2>3. CASE Accepts(u)
    BY <1>0, <2>2, <2>3 DEF Accepts
  <2> QED BY <2>1, <2>3
<1>4. /\ window \in [Window -> Byte]
      /\ \A i \in Window : window[i] = IF i = 0 THEN filter.last_temp
                                       ELSE IF i < n THEN filter.temp_in_second[i - 1]
                                       ELSE filter.temp_in_second[i]
  <2> HIDE DEF n
  <2>1. \A i \in Window : i # 0 => i - 1 \in Window
    BY <1>0 DEF Window
  <2> QED BY <1>1, <2>1 DEF Push, FilterType
<1>5. /\ filter' = [filter EXCEPT !.pc = "send", !.N_UART = u, !.N_FIL = n,
                                  !.temp_in_second = window, !.mean = Mean(window, n)]
      /\ settled' = IF n # filter.N_FIL THEN 1
                    ELSE IF settled < N_MAX THEN settled + 1 ELSE N_MAX
      /\ UNCHANGED <<xTempQueue, xDisplayQueue, readings>>
  BY DEF FilterTemperature
<1> HIDE DEF u, n, window
<1>6. Mean(window, n) \in Byte
  BY <1>3, <1>4, MeanIsByte
<1>7. /\ filter' \in FilterType /\ filter'.pc = "send" /\ filter'.N_FIL = n
      /\ filter'.temp_in_second = window /\ filter'.mean = Mean(window, n)
  BY <1>1, <1>2, <1>3, <1>4, <1>5, <1>6 DEF FilterType
<1>8. settled \in 0 .. N_MAX /\ settled' \in 0 .. N_MAX
  <2>1. settled \in 0 .. N_MAX
    BY DEF FilterInv
  <2>2. settled' \in {1, N_MAX} \/ (settled' = settled + 1 /\ settled < N_MAX)
    BY <1>5
  <2> QED BY <1>0, <2>1, <2>2
<1>9. Len(readings) \in Nat /\ Len(readings) >= 1 /\ filter.last_temp = readings[1]
  BY <1>1, LenProperties DEF FilterInv, Messages
<1>10. WindowTells'
  <2> SUFFICES ASSUME NEW i \in Window, i < settled', i < n
               PROVE  i + 1 <= Len(readings) /\ window[i] = readings[i + 1]
    BY <1>5, <1>7, <1>8 DEF WindowTells, Pushed, Window
  <2>1. CASE i = 0
    BY <1>4, <1>9, <2>1
  <2>2. CASE i # 0
    <3>1. i - 1 \in Window /\ i \in 1 .. N_MAX - 1 /\ i - 1 < n
      BY <1>0, <1>3, <2>2 DEF Window
    <3>2. n = filter.N_FIL /\ i - 1 < settled
      BY <1>0, <1>5, <1>8, <3>1
    <3>3. /\ (i - 1) + 1 + 1 <= Len(readings)
          /\ filter.temp_in_second[i - 1] = readings[(i - 1) + 1 + 1]
      BY <1>0, <1>1, <3>1, <3>2 DEF FilterInv, WindowTells, Pushed
    <3>4. (i - 1) + 1 + 1 = i + 1 /\ window[i] = filter.temp_in_second[i - 1]
      BY <1>4, <2>2, <3>1
    <3> QED BY <3>3, <3>4
  <2> QED BY <2>1, <2>2
<1> QED BY <1>2, <1>5, <1>7, <1>8, <1>10 DEF FilterInv

LEMMA SendMeanInv == FilterInv /\ SendMean => FilterInv'
<1> SUFFICES ASSUME FilterInv, SendMean PROVE FilterInv'
  OBVIOUS
<1>1. filter \in FilterType /\ filter.mean \in Byte /\ filter.pc = "send"
  BY DEF FilterInv, FilterType, SendMean
<1>2. QueueType(xDisplayQueue')
  BY <1>1, QueueAppend DEF FilterInv, SendMean
<1>3. /\ filter' \in FilterType /\ filter'.pc = "delay"
      /\ filter'.temp_in_second = filter.temp_in_second /\ filter'.N_FIL = filter.N_FIL
  BY <1>1 DEF SendMean, FilterType
<1>4. WindowTells'
  BY <1>1, <1>3 DEF FilterInv, SendMean, WindowTells, Pushed
<1> QED BY <1>2, <1>3, <1>4 DEF FilterInv, SendMean

LEMMA FilterDelayOverInv == FilterInv /\ FilterDelayOver => FilterInv'
<1> SUFFICES ASSUME FilterInv, FilterDelayOver PROVE FilterInv'
  OBVIOUS
<1>1. filter \in FilterType /\ filter.pc = "delay"
  BY DEF FilterInv, FilterDelayOver
<1>3. /\ filter' \in FilterType /\ filter'.pc = "receive"
      /\ filter'.temp_in_second = filter.temp_in_second /\ filter'.N_FIL = filter.N_FIL
  BY <1>1 DEF FilterDelayOver, FilterType
<1>4. WindowTells'
  BY <1>1, <1>3 DEF FilterInv, FilterDelayOver, WindowTells, Pushed
<1> QED BY <1>3, <1>4 DEF FilterInv, FilterDelayOver

\* The other ends of the queues.
LEMMA OthersInv ==
  FilterInv /\ (TemperatureArrives \/ ValueArrives \/ MeanTaken) => FilterInv'
<1> SUFFICES ASSUME FilterInv, TemperatureArrives \/ ValueArrives \/ MeanTaken PROVE FilterInv'
  OBVIOUS
<1>1. UNCHANGED <<filter, readings, settled>>
  BY DEF TemperatureArrives, ValueArrives, MeanTaken
<1>2. WindowTells'
  BY <1>1 DEF FilterInv, WindowTells, Pushed
<1>3. QueueType(xTempQueue') /\ QueueType(xUARTQueue') /\ QueueType(xDisplayQueue')
  <2>1. CASE TemperatureArrives
    BY <2>1, FilterAssumption, QueueAppend DEF TemperatureArrives, FilterInv
  <2>2. CASE ValueArrives
    BY <2>2, FilterAssumption, QueueAppend DEF ValueArrives, FilterInv
  <2>3. CASE MeanTaken
    BY <2>3, QueueTail DEF MeanTaken, FilterInv
  <2> QED BY <2>1, <2>2, <2>3
<1> QED BY <1>1, <1>2, <1>3 DEF FilterInv

LEMMA FilterNextInv == FilterInv /\ [FilterNext]_filterVars => FilterInv'
<1> SUFFICES ASSUME FilterInv, [FilterNext]_filterVars PROVE FilterInv'
  OBVIOUS
<1>1. CASE UNCHANGED filterVars
  BY <1>1 DEF filterVars, FilterInv, WindowTells, Pushed
<1> QED BY <1>1, ReceiveTemperatureInv, FilterTemperatureInv, SendMeanInv,
           FilterDelayOverInv, OthersInv DEF FilterNext, xTaskFilter

\* The window of the filter holds the last temperatures that came.
THEOREM FilterInvariant == FilterSpec => []FilterInv
BY FilterInitInv, FilterNextInv, PTL DEF FilterSpec

LEMMA WindowMean == FilterInv => MeanWhenSettled
<1> SUFFICES ASSUME FilterInv, filter.pc = "send", settled >= filter.N_FIL
             PROVE  Mean(filter.temp_in_second, filter.N_FIL) = MeanOfLast(filter.N_FIL)
  BY DEF MeanWhenSettled, FilterInv
<1> DEFINE n == filter.N_FIL
           window == filter.temp_in_second
<1>1. n \in 1 .. N_MAX /\ window \in [Window -> Byte] /\ N_MAX \in Nat /\ settled \in 0 .. N_MAX
  BY FilterAssumption DEF FilterInv, FilterType
<1>2. ASSUME NEW i \in 0 .. n - 1 PROVE window[i] \in Int /\ window[i] = readings[i + 1]
  <2>1. i \in Window /\ i < settled /\ i < n /\ i + 1 + 0 <= N_MAX
    BY <1>1 DEF Window
  <2>2. window[i] = readings[i + 1 + 0]
    BY <2>1 DEF FilterInv, WindowTells, Pushed
  <2> QED BY <1>1, <2>1, <2>2 DEF Byte
<1>3. n \in Nat
  BY <1>1
<1> HIDE DEF n, window
<1>4. SumOver(window, 0 .. n - 1) = SumOver(readings, 1 .. n)
  BY <1>2, <1>3, SumShift
<1> QED BY <1>4 DEF Mean, MeanOfLast, SumOver, n, window

\* The mean that is sent is that of the last N_FIL temperatures, as soon as so many came
\* since the window changed: for any window and any temperatures.
THEOREM MeanIsOfTheLast == FilterSpec => []MeanWhenSettled
BY FilterInvariant, WindowMean, PTL

-----------------------------------------------------------------------------
(* The other tasks and the interrupt.                                      *)

\* The status that the handler reads is masked: it never says transmitted.
LEMMA NothingFromUart == vUART_ISR => UNCHANGED filterVars
<1> SUFFICES ASSUME vUART_ISR PROVE UNCHANGED filterVars
  OBVIOUS
<1>1. "UART_INT_TX" \notin uart.ris \cap UART_O_IM
  BY DEF UART_O_IM
<1> QED BY <1>1 DEF vUART_ISR, filterVars

LEMMA FilterSteps == [Next]_vars => [FilterNext]_filterVars
<1> SUFFICES ASSUME [Next]_vars PROVE FilterNext \/ UNCHANGED filterVars
  OBVIOUS
<1>1. CASE SendTemperature
  <2>1. TemperatureArrives
    BY <1>1 DEF SendTemperature, TemperatureArrives
  <2> QED BY <2>1 DEF FilterNext
<1>2. CASE Filtering
  BY <1>2 DEF Filtering, FilterNext
<1>3. CASE Displaying
  <2>1. UNCHANGED <<xTempQueue, xUARTQueue, filter, readings, settled>> /\ D!xTaskDisplay
    BY <1>3 DEF Displaying
  <2>2. CASE D!ReceiveMean
    <3>1. MeanTaken
      BY <2>1, <2>2 DEF D!ReceiveMean, MeanTaken
    <3> QED BY <3>1 DEF FilterNext
  <2>3. CASE D!OSRAMImageDraw \/ D!DrawNumber \/ D!DrawLabel
    <3>1. UNCHANGED xDisplayQueue
      BY <2>3 DEF D!OSRAMImageDraw, D!DrawNumber, D!DrawLabel
    <3> QED BY <2>1, <3>1 DEF filterVars
  <2> QED BY <2>1, <2>2, <2>3 DEF D!xTaskDisplay
<1>4. CASE SensorDelayOver \/ PrintTable \/ TopDelayOver \/ CharacterArrives
  BY <1>4 DEF SensorDelayOver, PrintTable, TopDelayOver, CharacterArrives
<1>5. CASE vUART_ISR
  BY <1>5, NothingFromUart
<1>6. CASE UNCHANGED vars
  BY <1>6 DEF vars, filterVars
<1> QED BY <1>1, <1>2, <1>3, <1>4, <1>5, <1>6 DEF Next

\* Among the other tasks, the queues and the interrupt of the UART the filter task does
\* what it does alone.
THEOREM ApplicationImplementsFilter == Spec => ImplementsFilter
<1>1. Init => FilterInit
  BY DEF Init
<1> QED BY <1>1, FilterSteps, PTL DEF Spec, ImplementsFilter, FilterSpec

-----------------------------------------------------------------------------
(* The graph.                                                              *)

Rows == SUBSET (0 .. 7)

\* The bytes of the n-th mean, counted from the newest; none are drawn before it came.
UpperOf(n) == IF n \in 1 .. Len(plotted) THEN D!UpperRow(plotted[n]) ELSE {}
LowerOf(n) == IF n \in 1 .. Len(plotted) THEN D!LowerRow(plotted[n]) ELSE {}

\* Where plot has put the means so far: each byte of the image is one of a mean, or empty.
\* The byte at Columns is of the upper row's mean and is drawn in the lower row.
GraphInv ==
  /\ display.graph \in [D!Image -> Rows]
  /\ display = [pc |-> display.pc, temp |-> display.temp, graph |-> display.graph]
  /\ plotted \in Messages /\ Len(plotted) <= Columns - 1
  /\ display.graph[0] = {} /\ display.graph[1] = UpperOf(1)
  /\ \A n \in 1 .. Columns - 1 : /\ display.graph[n + 1] = UpperOf(n)
                                 /\ display.graph[Columns + n] = LowerOf(n)

LEMMA RowsOf ==
  ASSUME NEW value \in Byte
  PROVE  D!UpperRow(value) \in Rows /\ D!LowerRow(value) \in Rows
<1>1. value \div 2 \in Nat /\ (value >= 16 => (value - 16) \div 2 \in Nat)
  BY DEF Byte
<1>2. ASSUME NEW n \in Nat PROVE D!Bit(n) \in Rows
  BY DEF D!Bit, Rows
<1> QED BY <1>1, <1>2 DEF D!UpperRow, D!LowerRow, Rows, Byte

\* The dots of a byte, in the upper row and in the lower one.
Above(row) == {2 * (15 - b) : b \in row}
Below(row) == {2 * (7 - b) : b \in row \ {7}}

\* The dots of a value: where it is low, where it is high, and where its byte of the upper
\* row is drawn in the lower one.
LEMMA DotsOfBytes ==
  ASSUME NEW value \in Byte
  PROVE  /\ Above(D!UpperRow(value)) = IF value \in 16 .. 31 THEN {2 * (value \div 2)} ELSE {}
         /\ Below(D!LowerRow(value)) = IF value \in 2 .. 15 THEN {2 * (value \div 2)} ELSE {}
         /\ Below(D!UpperRow(value)) =
              IF value \in 18 .. 31 THEN {2 * (value \div 2) - 16} ELSE {}
<1>1. PICK h : h = value \div 2
  OBVIOUS
<1>2. /\ h \in Nat /\ value \in Nat /\ (value < 16 <=> h < 8) /\ (value < 32 <=> h < 16)
      /\ (value > 1 <=> h > 0) /\ (value > 17 <=> h > 8)
  BY <1>1 DEF Byte
<1>3. CASE value < 16
  <2>1. D!UpperRow(value) = {} /\ D!LowerRow(value) = {7 - h, 7}
    BY <1>1, <1>2, <1>3 DEF D!UpperRow, D!LowerRow, D!Bit
  <2>2. D!LowerRow(value) \ {7} = IF h > 0 THEN {7 - h} ELSE {}
    BY <1>2, <2>1
  <2>3. Below(D!LowerRow(value)) = IF h > 0 THEN {2 * h} ELSE {}
    BY <1>2, <2>2 DEF Below
  <2>4. Above({}) = {} /\ Below({}) = {}
    BY DEF Above, Below
  <2> QED BY <1>1, <1>2, <1>3, <2>1, <2>3, <2>4
<1>4. CASE value >= 16
  <2>1. D!LowerRow(value) = {7}
    BY <1>2, <1>4 DEF D!LowerRow
  <2>2. Below(D!LowerRow(value)) = {}
    BY <2>1 DEF Below
  <2>3. D!UpperRow(value) = IF h < 16 THEN {15 - h} ELSE {}
    <3>1. (value - 16) \div 2 = h - 8
      BY <1>1, <1>2, <1>4
    <3> QED BY <1>2, <1>4, <3>1 DEF D!UpperRow, D!Bit
  <2>4. Above(D!UpperRow(value)) = IF h < 16 THEN {2 * h} ELSE {}
    BY <1>2, <1>4, <2>3 DEF Above
  <2>5. D!UpperRow(value) \ {7} = IF h < 16 /\ h > 8 THEN {15 - h} ELSE {}
    BY <1>2, <1>4, <2>3
  <2>6. Below(D!UpperRow(value)) = IF h < 16 /\ h > 8 THEN {2 * h - 16} ELSE {}
    BY <1>2, <1>4, <2>5 DEF Below
  <2> QED BY <1>1, <1>2, <1>4, <2>2, <2>4, <2>6
<1> QED BY <1>2, <1>3, <1>4

LEMMA GraphInitInv == Init => GraphInv
<1> SUFFICES ASSUME Init PROVE GraphInv
  OBVIOUS
<1>1. display = [pc |-> "receive", temp |-> 0, graph |-> [i \in D!Image |-> {}]] /\ plotted = <<>>
  BY DEF Init, D!DisplayInit
<1>2. <<>> \in Messages /\ Len(<<>>) = 0 /\ Columns \in Nat
  BY ApplicationAssumption DEF Messages
<1>3. display.graph \in [D!Image -> Rows]
  BY <1>1 DEF Rows
<1>4. \A n : UpperOf(n) = {} /\ LowerOf(n) = {}
  BY <1>1, <1>2 DEF UpperOf, LowerOf
<1>5. \A i \in D!Image : display.graph[i] = {}
  BY <1>1
<1>6. 0 \in D!Image /\ 1 \in D!Image
      /\ \A n \in 1 .. Columns - 1 : n + 1 \in D!Image /\ Columns + n \in D!Image
  BY ApplicationAssumption DEF D!Image
<1>7. Len(plotted) <= Columns - 1
  BY <1>1, <1>2, ApplicationAssumption
<1> QED BY <1>1, <1>2, <1>3, <1>4, <1>5, <1>6, <1>7 DEF GraphInv

LEMMA ReceiveMeanInv == FilterInv /\ GraphInv /\ D!ReceiveMean => GraphInv'
<1> SUFFICES ASSUME FilterInv, GraphInv, D!ReceiveMean PROVE GraphInv'
  OBVIOUS
<1> DEFINE mean == Head(xDisplayQueue)
           graph == display.graph
           upper == D!UpperRow(mean)
           lower == D!LowerRow(mean)
           start == [graph EXCEPT ![1] = upper]
           next == D!plot(graph, mean)
<1>0. Columns \in Nat /\ Columns > 2
  BY ApplicationAssumption
<1>1. mean \in Byte
  BY QueueTail DEF FilterInv, D!ReceiveMean
<1>2. upper \in Rows /\ lower \in Rows /\ graph \in [D!Image -> Rows]
  BY <1>1, RowsOf DEF GraphInv
<1>3. \A i \in D!Image : start[i] = IF i = 1 THEN upper ELSE graph[i]
  BY <1>2
<1>4. /\ next \in [D!Image -> Rows]
      /\ \A i \in D!Image : next[i] = IF i <= 1 THEN start[i] ELSE IF i = Columns + 1 THEN lower
                                      ELSE start[i - 1]
  <2>1. next = [i \in D!Image |-> IF i <= 1 THEN start[i] ELSE IF i = Columns + 1 THEN lower
                                  ELSE start[i - 1]]
    BY DEF D!plot
  <2>2. \A i \in D!Image : ~(i <= 1) => i - 1 \in D!Image
    BY <1>0 DEF D!Image
  <2>3. start \in [D!Image -> Rows]
    BY <1>2
  <2> HIDE DEF start, next, upper, lower
  <2> QED BY <1>2, <2>1, <2>2, <2>3
<1>5. /\ plotted \in Messages /\ Len(plotted) <= Columns - 1 /\ Len(plotted) \in Nat
      /\ graph[0] = {}
      /\ \A n \in 1 .. Columns - 1 : /\ graph[n + 1] = UpperOf(n)
                                     /\ graph[Columns + n] = LowerOf(n)
  BY LenProperties DEF GraphInv, Messages
<1>6. /\ plotted' \in Messages
      /\ Len(plotted') = (IF Len(plotted) < Columns - 1 THEN Len(plotted) + 1 ELSE Columns - 1)
      /\ plotted'[1] = mean
      /\ \A i \in 2 .. Len(plotted') : i - 1 \in 1 .. Len(plotted) /\ plotted'[i] = plotted[i - 1]
  <2>1. PICK m \in Nat \ {0} : m = Columns - 1
    BY <1>0
  <2>2. plotted' = SubSeq(<<mean>> \o plotted, 1, IF Len(plotted) < m THEN Len(plotted) + 1 ELSE m)
    BY <2>1 DEF D!ReceiveMean
  <2>3. Len(plotted) <= m
    BY <1>5, <2>1
  <2>4. PICK e \in Byte : e = mean
    BY <1>1
  <2>5. PICK r : r = SubSeq(<<e>> \o plotted, 1, IF Len(plotted) < m THEN Len(plotted) + 1 ELSE m)
    OBVIOUS
  <2>6. plotted' = r
    BY <2>2, <2>4, <2>5
  <2>7. plotted \in Messages
    BY <1>5
  <2>8. /\ r \in Messages /\ Len(r) = (IF Len(plotted) < m THEN Len(plotted) + 1 ELSE m)
        /\ r[1] = e /\ \A i \in 2 .. Len(r) : i - 1 \in 1 .. Len(plotted) /\ r[i] = plotted[i - 1]
    BY ONLY <2>3, <2>5, <2>7, Newest
  <2> HIDE DEF mean
  <2> QED BY <2>1, <2>4, <2>6, <2>8
<1>7. display' = [pc |-> "image", temp |-> mean, graph |-> next]
  BY DEF D!ReceiveMean
<1> HIDE DEF mean, graph, upper, lower, start, next
<1>8. UpperOf(1)' = upper /\ LowerOf(1)' = lower
  <2>1. 1 \in 1 .. Len(plotted')
    BY <1>0, <1>5, <1>6
  <2> QED BY <1>6, <2>1 DEF UpperOf, LowerOf, upper, lower
<1>9. ASSUME NEW n \in 2 .. Columns - 1
      PROVE  UpperOf(n)' = UpperOf(n - 1) /\ LowerOf(n)' = LowerOf(n - 1)
  <2>1. n \in 1 .. Len(plotted') <=> n - 1 \in 1 .. Len(plotted)
    BY <1>0, <1>5, <1>6
  <2>2. ASSUME n \in 1 .. Len(plotted') PROVE plotted'[n] = plotted[n - 1]
    <3>1. n \in 2 .. Len(plotted')
      BY <1>5, <1>6, <2>2
    <3> QED BY <1>6, <3>1
  <2>3. /\ UpperOf(n)' = IF n \in 1 .. Len(plotted') THEN D!UpperRow(plotted'[n]) ELSE {}
        /\ LowerOf(n)' = IF n \in 1 .. Len(plotted') THEN D!LowerRow(plotted'[n]) ELSE {}
    BY DEF UpperOf, LowerOf
  <2>4. /\ UpperOf(n - 1) = IF n - 1 \in 1 .. Len(plotted) THEN D!UpperRow(plotted[n - 1]) ELSE {}
        /\ LowerOf(n - 1) = IF n - 1 \in 1 .. Len(plotted) THEN D!LowerRow(plotted[n - 1]) ELSE {}
    BY DEF UpperOf, LowerOf
  <2> QED BY <2>1, <2>2, <2>3, <2>4
<1>10. ASSUME NEW n \in 1 .. Columns - 1
       PROVE  next[n + 1] = UpperOf(n)' /\ next[Columns + n] = LowerOf(n)'
  <2>1. n + 1 \in D!Image /\ n \in D!Image /\ Columns + n \in D!Image /\ Columns + n - 1 \in D!Image
    BY <1>0 DEF D!Image
  <2>2. next[n + 1] = start[n]
    BY <1>0, <1>4, <2>1
  <2>3. CASE n = 1
    <3>1. next[n + 1] = upper /\ next[Columns + n] = lower
      BY <1>0, <1>3, <1>4, <2>1, <2>2, <2>3
    <3> QED BY <1>8, <2>3, <3>1
  <2>4. CASE n # 1
    <3>1. next[n + 1] = graph[n]
      BY <1>3, <2>1, <2>2, <2>4
    <3>2. next[Columns + n] = graph[Columns + n - 1]
      <4>1. next[Columns + n] = start[Columns + n - 1]
        BY <1>0, <1>4, <2>1, <2>4
      <4> QED BY <1>0, <1>3, <2>1, <4>1
    <3>3. PICK k \in 1 .. Columns - 1 : k = n - 1
      BY <1>0, <2>4
    <3>4. graph[k + 1] = UpperOf(k) /\ graph[Columns + k] = LowerOf(k)
      BY <1>5
    <3>5. k + 1 = n /\ Columns + k = Columns + n - 1 /\ n \in 2 .. Columns - 1
      BY <1>0, <2>4, <3>3
    <3>6. UpperOf(n)' = UpperOf(k) /\ LowerOf(n)' = LowerOf(k)
      BY <1>9, <3>3, <3>5
    <3> QED BY <3>1, <3>2, <3>4, <3>5, <3>6
  <2> QED BY <2>3, <2>4
<1>11. next[0] = {} /\ next[1] = UpperOf(1)'
  <2>1. 0 \in D!Image /\ 1 \in D!Image
    BY <1>0 DEF D!Image
  <2> QED BY <1>3, <1>4, <1>5, <1>8, <2>1
<1>12. Len(plotted') <= Columns - 1
  BY <1>0, <1>5, <1>6
<1>13. /\ display'.graph = next
       /\ display' = [pc |-> display'.pc, temp |-> display'.temp, graph |-> display'.graph]
  BY <1>7
<1> QED BY <1>4, <1>6, <1>10, <1>11, <1>12, <1>13 DEF GraphInv

LEMMA GraphNextInv == FilterInv /\ GraphInv /\ [Next]_vars => GraphInv'
<1> SUFFICES ASSUME FilterInv, GraphInv, [Next]_vars PROVE GraphInv'
  OBVIOUS
<1>1. CASE UNCHANGED displayAndBus
  BY <1>1 DEF displayAndBus, GraphInv, UpperOf, LowerOf
<1>2. CASE Displaying
  <2>1. CASE D!ReceiveMean
    BY <2>1, ReceiveMeanInv
  <2>2. CASE D!OSRAMImageDraw \/ D!DrawNumber \/ D!DrawLabel
    <3>1. UNCHANGED plotted /\ \/ display' = [display EXCEPT !.pc = "number"]
                               \/ display' = [display EXCEPT !.pc = "label"]
                               \/ display' = [display EXCEPT !.pc = "receive"]
      BY <2>2 DEF D!OSRAMImageDraw, D!DrawNumber, D!DrawLabel
    <3>2. display'.graph = display.graph
          /\ display' = [pc |-> display'.pc, temp |-> display'.temp, graph |-> display'.graph]
      BY <3>1 DEF GraphInv
    <3> QED BY <3>1, <3>2 DEF GraphInv, UpperOf, LowerOf
  <2> QED BY <1>2, <2>1, <2>2 DEF Displaying, D!xTaskDisplay
<1>3. CASE UNCHANGED vars
  BY <1>3 DEF vars, displayAndBus, GraphInv, UpperOf, LowerOf
<1> QED BY <1>1, <1>2, <1>3 DEF Next, SendTemperature, SensorDelayOver, Filtering, PrintTable,
          TopDelayOver, CharacterArrives, vUART_ISR

\* The dots of the n-th mean, column by column.
LEMMA DotsAt ==
  ASSUME NEW x \in Nat, NEW h \in Nat, NEW n \in Nat \ {0}, n < Columns, NEW v \in Byte
  PROVE  <<x, h>> \in D!DotsOf(n, v) <=>
           \/ v \in 2 .. 15 /\ x = n /\ h = 2 * (v \div 2)
           \/ v \in 16 .. 31 /\ h = 2 * (v \div 2) /\ x = n + 1 /\ n + 1 < Columns
           \/ v \in 16 .. 31 /\ h = 2 * (v \div 2) /\ x = 1 /\ n = 1
           \/ v \in 18 .. 31 /\ h = 2 * (v \div 2) - 16 /\ x = 0 /\ n = Columns - 1
<1>0. Columns \in Nat /\ v \in Nat
  BY ApplicationAssumption DEF Byte
<1>1. PICK g : g = 2 * (v \div 2)
  OBVIOUS
<1>2. CASE v \in 2 .. 15
  <2>1. D!DotsOf(n, v) = {<<n, g>>}
    BY <1>1, <1>2 DEF D!DotsOf
  <2> QED BY <1>0, <1>1, <1>2, <2>1
<1>3. CASE v \in 16 .. 31
  <2>1. PICK C : C = (IF n + 1 < Columns THEN {n + 1} ELSE {}) \cup (IF n = 1 THEN {1} ELSE {})
    OBVIOUS
  <2>2. D!DotsOf(n, v) = (C \X {g}) \cup
                         (IF n = Columns - 1 /\ v > 17 THEN {<<0, g - 16>>} ELSE {})
    <3>1. v \notin 2 .. 15
      BY <1>3
    <3> QED BY <1>1, <1>3, <2>1, <3>1 DEF D!DotsOf
  <2>3. x \in C <=> (x = n + 1 /\ n + 1 < Columns) \/ (x = 1 /\ n = 1)
    BY <2>1
  <2>4. <<x, h>> \in C \X {g} <=> x \in C /\ h = g
    OBVIOUS
  <2>5. v > 17 <=> v \in 18 .. 31
    BY <1>0, <1>3
  <2> QED BY <1>1, <1>3, <2>2, <2>3, <2>4, <2>5
<1>4. CASE v \notin 2 .. 31
  <2>1. D!DotsOf(n, v) = {}
    BY <1>0, <1>4 DEF D!DotsOf
  <2> QED BY <1>0, <1>4, <2>1
<1> QED BY <1>0, <1>2, <1>3, <1>4

\* Whether the n-th mean came, is one of these values, and has this height.
Came(n, S, h) ==
  n \in 1 .. Len(plotted) /\ plotted[n] \in S /\ h = 2 * (plotted[n] \div 2)

LEMMA DotsOfOne ==
  ASSUME GraphInv, NEW n \in 1 .. Columns - 1, NEW h \in Nat
  PROVE  /\ h \in Above(UpperOf(n)) <=> Came(n, 16 .. 31, h)
         /\ h \in Below(LowerOf(n)) <=> Came(n, 2 .. 15, h)
         /\ h \in Below(UpperOf(n)) <=> Came(n, 18 .. 31, h + 16)
<1>1. CASE n \in 1 .. Len(plotted)
  <2>1. PICK v \in Byte : v = plotted[n]
    BY <1>1, ElementOfSeq DEF GraphInv, Messages
  <2>2. UpperOf(n) = D!UpperRow(v) /\ LowerOf(n) = D!LowerRow(v)
    BY <1>1, <2>1 DEF UpperOf, LowerOf
  <2>3. v \in Nat /\ 2 * (v \div 2) \in Nat
    BY DEF Byte
  <2>4. h = 2 * (v \div 2) - 16 <=> h + 16 = 2 * (v \div 2)
    BY <2>3
  <2> QED BY <1>1, <2>1, <2>2, <2>4, DotsOfBytes DEF Came
<1>2. CASE n \notin 1 .. Len(plotted)
  BY <1>2 DEF UpperOf, LowerOf, Above, Below, Came
<1> QED BY <1>1, <1>2

LEMMA GraphTells == GraphInv => GraphIsHistory
<1> SUFFICES ASSUME GraphInv, NEW x \in 0 .. Columns - 1, NEW h \in 0 .. 30
             PROVE  h \in D!Heights(x) <=>
                      \E n \in 1 .. Len(plotted) : <<x, h>> \in D!DotsOf(n, plotted[n])
  BY DEF GraphIsHistory, D!GraphIsHistory
<1>1. /\ Columns \in Nat /\ Columns > 2 /\ x \in Nat /\ h \in Nat
      /\ Len(plotted) \in Nat /\ Len(plotted) <= Columns - 1
  <2>1. plotted \in Seq(Byte) /\ Len(plotted) <= Columns - 1
    BY DEF GraphInv, Messages
  <2>2. Len(plotted) \in Nat
    BY <2>1, LenProperties
  <2>3. Columns \in Nat /\ Columns > 2
    BY ApplicationAssumption
  <2> QED BY <2>1, <2>2, <2>3
<1>2. h \in D!Heights(x) <=> h \in Above(display.graph[x]) \/ h \in Below(display.graph[Columns + x])
  BY DEF D!Heights, Above, Below
<1>3. (\E n \in 1 .. Len(plotted) : <<x, h>> \in D!DotsOf(n, plotted[n])) <=>
        \E n \in 1 .. Columns - 1 :
          \/ Came(n, 2 .. 15, h) /\ x = n
          \/ Came(n, 16 .. 31, h) /\ x = n + 1 /\ n + 1 < Columns
          \/ Came(n, 16 .. 31, h) /\ x = 1 /\ n = 1
          \/ Came(n, 18 .. 31, h + 16) /\ x = 0 /\ n = Columns - 1
  <2>1. ASSUME NEW n \in 1 .. Len(plotted)
        PROVE  <<x, h>> \in D!DotsOf(n, plotted[n]) <=>
                 \/ Came(n, 2 .. 15, h) /\ x = n
                 \/ Came(n, 16 .. 31, h) /\ x = n + 1 /\ n + 1 < Columns
                 \/ Came(n, 16 .. 31, h) /\ x = 1 /\ n = 1
                 \/ Came(n, 18 .. 31, h + 16) /\ x = 0 /\ n = Columns - 1
    <3>1. PICK v \in Byte : v = plotted[n]
      BY <2>1, ElementOfSeq DEF GraphInv, Messages
    <3>2. n \in Nat \ {0} /\ n < Columns
      BY <1>1
    <3>3. h = 2 * (v \div 2) - 16 <=> h + 16 = 2 * (v \div 2)
      BY <1>1 DEF Byte
    <3>4. \A S, g : Came(n, S, g) <=> v \in S /\ g = 2 * (v \div 2)
      BY <2>1, <3>1 DEF Came
    <3>5. <<x, h>> \in D!DotsOf(n, v) <=>
            \/ v \in 2 .. 15 /\ x = n /\ h = 2 * (v \div 2)
            \/ v \in 16 .. 31 /\ h = 2 * (v \div 2) /\ x = n + 1 /\ n + 1 < Columns
            \/ v \in 16 .. 31 /\ h = 2 * (v \div 2) /\ x = 1 /\ n = 1
            \/ v \in 18 .. 31 /\ h = 2 * (v \div 2) - 16 /\ x = 0 /\ n = Columns - 1
      BY <1>1, <3>2, DotsAt
    <3> QED BY <3>1, <3>3, <3>4, <3>5
  <2>2. 1 .. Len(plotted) \subseteq 1 .. Columns - 1
    BY <1>1
  <2>3. \A n, S, g : Came(n, S, g) => n \in 1 .. Len(plotted)
    BY DEF Came
  <2> QED BY <2>1, <2>2, <2>3
<1>4. CASE x = 0
  <2>1. PICK m \in 1 .. Columns - 1 : m = Columns - 1
    BY <1>1
  <2>2. m + 1 = Columns /\ Columns + x = Columns
    BY <1>1, <1>4, <2>1
  <2>3. display.graph[x] = {} /\ display.graph[Columns + x] = UpperOf(m)
    BY <1>4, <2>2 DEF GraphInv
  <2>4. h \in D!Heights(x) <=> Came(m, 18 .. 31, h + 16)
    BY <1>1, <1>2, <2>3, DotsOfOne DEF Above
  <2> QED BY <1>1, <1>3, <1>4, <2>1, <2>4
<1>5. CASE x = 1
  <2>1. 1 \in 1 .. Columns - 1
    BY <1>1
  <2>2. display.graph[x] = UpperOf(1) /\ display.graph[Columns + x] = LowerOf(1)
    BY <1>5, <2>1 DEF GraphInv
  <2>3. h \in D!Heights(x) <=> Came(1, 16 .. 31, h) \/ Came(1, 2 .. 15, h)
    BY <1>1, <1>2, <2>1, <2>2, DotsOfOne
  <2> QED BY <1>1, <1>3, <1>5, <2>1, <2>3
<1>6. CASE x > 1
  <2>1. PICK k \in 1 .. Columns - 1 : k = x - 1
    BY <1>1, <1>6
  <2>2. x \in 1 .. Columns - 1 /\ k + 1 = x
    BY <1>1, <1>6, <2>1
  <2>3. display.graph[x] = UpperOf(k) /\ display.graph[Columns + x] = LowerOf(x)
    BY <2>2 DEF GraphInv
  <2>4. h \in D!Heights(x) <=> Came(k, 16 .. 31, h) \/ Came(x, 2 .. 15, h)
    BY <1>1, <1>2, <2>2, <2>3, DotsOfOne
  <2> QED BY <1>1, <1>3, <1>6, <2>1, <2>2, <2>4
<1> QED BY <1>1, <1>4, <1>5, <1>6

\* For any number of columns and any means, each dot of the graph is one that the means
\* received last should leave (DotsOf), and all of these are there.
THEOREM GraphShowsTheMeans == Spec => []GraphIsHistory
<1>1. Spec => []FilterInv
  BY ApplicationImplementsFilter, FilterInvariant, PTL DEF ImplementsFilter
<1>2. FilterInv /\ GraphInv /\ [Next]_vars => GraphInv'
  BY GraphNextInv
<1> QED BY <1>1, <1>2, GraphInitInv, GraphTells, PTL DEF Spec
=============================================================================
