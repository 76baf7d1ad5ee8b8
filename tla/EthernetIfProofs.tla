-------------------------- MODULE EthernetIfProofs ---------------------------
(***************************************************************************)
(* Proofs about the Ethernet interface, for any numbers of descriptors.    *)
(***************************************************************************)
EXTENDS EthernetIf, FiniteSetTheorems, FunctionTheorems, SequenceTheorems, TLAPS

-----------------------------------------------------------------------------
(* Descriptors and mails go round.                                           *)

\* What the remainder does to an index that has wrapped once at most.
LEMMA Wrap ==
  ASSUME NEW n \in Nat \ {0}, NEW x \in Nat, x < 2 * n
  PROVE  x % n = IF x < n THEN x ELSE x - n
<1>1. CASE x < n
  BY <1>1
<1>2. CASE n <= x
  BY <1>2
<1> QED
  BY <1>1, <1>2

\* The slot that is a places behind slot out.
Behind(out, a, size) == (out + a) % size

LEMMA BehindIs ==
  ASSUME NEW size \in Nat \ {0}, NEW out \in 0..size - 1, NEW a \in 0..size
  PROVE  Behind(out, a, size) = IF out + a < size THEN out + a ELSE out + a - size
<1> DEFINE x == out + a
<1>1. x \in Nat /\ x < 2 * size
  OBVIOUS
<1> HIDE DEF x
<1>2. x % size = IF x < size THEN x ELSE x - size
  BY <1>1, Wrap
<1> QED
  BY <1>2 DEF x, Behind

LEMMA BehindSlot ==
  ASSUME NEW size \in Nat \ {0}, NEW out \in 0..size - 1, NEW a \in 0..size
  PROVE  Behind(out, a, size) \in 0..size - 1
  BY BehindIs

LEMMA BehindZero ==
  ASSUME NEW size \in Nat \ {0}, NEW out \in 0..size - 1
  PROVE  Behind(out, 0, size) = out
<1>1. 0 \in 0..size
  OBVIOUS
<1> QED
  BY <1>1, BehindIs

\* Places that are less than a round apart are different slots.
LEMMA BehindDiffer ==
  ASSUME NEW size \in Nat \ {0}, NEW out \in 0..size - 1,
         NEW a \in 0..size - 1, NEW b \in 0..size - 1, a # b
  PROVE  Behind(out, a, size) # Behind(out, b, size)
<1>1. a \in 0..size /\ b \in 0..size
  OBVIOUS
<1>2. /\ Behind(out, a, size) = IF out + a < size THEN out + a ELSE out + a - size
      /\ Behind(out, b, size) = IF out + b < size THEN out + b ELSE out + b - size
  BY <1>1, BehindIs
<1> QED
  BY <1>2

LEMMA BehindSum ==
  ASSUME NEW size \in Nat \ {0}, NEW out \in 0..size - 1,
         NEW a \in 0..size, NEW b \in 0..size, a + b <= size
  PROVE  Behind(Behind(out, a, size), b, size) = Behind(out, a + b, size)
<1> DEFINE in == Behind(out, a, size)
           c == a + b
<1>1. in = (IF out + a < size THEN out + a ELSE out + a - size) /\ in \in 0..size - 1
  BY BehindIs, BehindSlot
<1>2. c \in 0..size
  OBVIOUS
<1>3. Behind(out, c, size) = IF out + c < size THEN out + c ELSE out + c - size
  BY <1>2, BehindIs
<1> HIDE DEF in
<1>4. Behind(in, b, size) = IF in + b < size THEN in + b ELSE in + b - size
  BY <1>1, BehindIs
<1>5. Behind(in, b, size) = Behind(out, c, size)
  BY <1>1, <1>3, <1>4
<1> QED
  BY <1>5 DEF in

\* Every slot is some places behind every other.
LEMMA BehindOnto ==
  ASSUME NEW size \in Nat \ {0}, NEW out \in 0..size - 1, NEW d \in 0..size - 1
  PROVE  \E a \in 0..size - 1 : d = Behind(out, a, size)
<1>1. CASE out <= d
  <2> DEFINE a == d - out
  <2>1. a \in 0..size - 1 /\ a \in 0..size /\ out + a = d
    BY <1>1
  <2> HIDE DEF a
  <2>2. Behind(out, a, size) = IF out + a < size THEN out + a ELSE out + a - size
    BY <2>1, BehindIs
  <2>3. d = Behind(out, a, size)
    BY <2>1, <2>2
  <2> QED
    BY <2>1, <2>3
<1>2. CASE d < out
  <2> DEFINE a == d + size - out
  <2>1. a \in 0..size - 1 /\ a \in 0..size /\ out + a = d + size
    BY <1>2
  <2> HIDE DEF a
  <2>2. Behind(out, a, size) = IF out + a < size THEN out + a ELSE out + a - size
    BY <2>1, BehindIs
  <2>3. d = Behind(out, a, size)
    BY <2>1, <2>2
  <2> QED
    BY <2>1, <2>3
<1> QED
  BY <1>1, <1>2

\* A whole round leads back.
LEMMA BehindRound ==
  ASSUME NEW size \in Nat \ {0}, NEW out \in 0..size - 1
  PROVE  Behind(out, size, size) = out
<1>1. size \in 0..size
  OBVIOUS
<1> QED
  BY <1>1, BehindIs

-----------------------------------------------------------------------------
(* Lines of numbered frames: x was the last to leave, n are in the buffers   *)
(* from first on, and y is the next to come.                                 *)

After(v, size) == (v + 1) % (size + 2)
Number(size) == 0..size + 1
Line(x, buf, first, size, n, y, i) ==
  IF i = 0 THEN x ELSE IF i = n + 1 THEN y ELSE buf[Behind(first, i - 1, size)]
IsLine(x, buf, first, size, n, y) ==
  \A i \in 0..n : Line(x, buf, first, size, n, y, i + 1)
                    = After(Line(x, buf, first, size, n, y, i), size)

LEMMA NumberTypes ==
  ASSUME NEW size \in Nat \ {0}, NEW v \in Number(size)
  PROVE  /\ After(v, size) \in Number(size)
         /\ (v - 1) % (size + 2) \in Number(size)
         /\ After((v - 1) % (size + 2), size) = v
<1> DEFINE m == size + 2
<1>1. m \in Nat \ {0} /\ Number(size) = 0..m - 1 /\ m > 1
  BY DEF Number
<1> HIDE DEF m
<1>2. \A x \in 0..m : x % m \in 0..m - 1 /\ x % m = IF x = m THEN 0 ELSE x
  <2> SUFFICES ASSUME NEW x \in 0..m
               PROVE  x % m \in 0..m - 1 /\ x % m = IF x = m THEN 0 ELSE x
    OBVIOUS
  <2> DEFINE y == x % m
  <2>1. y = IF x < m THEN x ELSE x - m
    <3>1. x \in Nat /\ x < 2 * m
      BY <1>1
    <3> QED
      BY <1>1, <3>1, Wrap
  <2> HIDE DEF y
  <2>2. y \in 0..m - 1 /\ y = IF x = m THEN 0 ELSE x
    BY <1>1, <2>1
  <2> QED
    BY <2>2 DEF y
<1>3. (0 - 1) % m = m - 1
  BY <1>1
<1>4. After(v, size) \in Number(size)
  <2>1. v + 1 \in 0..m
    BY <1>1
  <2> QED
    BY <1>1, <1>2, <2>1 DEF After, m
<1>5. /\ (v - 1) % m \in Number(size)
      /\ ((v - 1) % m) + 1 = IF v = 0 THEN m ELSE v
  <2>1. CASE v = 0
    BY <1>1, <1>3, <2>1
  <2>2. CASE v # 0
    <3>1. v - 1 \in 0..m /\ v - 1 # m
      BY <1>1, <2>2
    <3>2. (v - 1) % m = v - 1
      BY <1>2, <3>1
    <3> QED
      BY <1>1, <2>2, <3>2
  <2> QED
    BY <2>1, <2>2
<1>6. After((v - 1) % m, size) = v
  <2> DEFINE w == ((v - 1) % m) + 1
  <2>1. w = (IF v = 0 THEN m ELSE v) /\ w \in 0..m
    BY <1>1, <1>5
  <2>2. After((v - 1) % m, size) = w % m
    BY DEF After, m
  <2> HIDE DEF w
  <2>3. w % m = IF w = m THEN 0 ELSE w
    BY <1>2, <2>1
  <2> QED
    BY <1>1, <2>1, <2>2, <2>3
<1> QED
  BY <1>4, <1>5, <1>6 DEF m

\* Nothing is waiting.
LEMMA LineEmpty ==
  ASSUME NEW x, NEW buf, NEW first, NEW size, NEW y, y = After(x, size)
  PROVE  IsLine(x, buf, first, size, 0, y)
<1>1. \A i \in 0..0 : i = 0 /\ i + 1 = 1 /\ 0 + 1 = 1 /\ i + 1 # 0
  OBVIOUS
<1> QED
  BY <1>1 DEF IsLine, Line

\* The next frame goes into the buffer behind the last one.
LEMMA LineJoin ==
  ASSUME NEW size \in Nat \ {0}, NEW S, NEW x, NEW y, NEW buf \in [0..size - 1 -> S],
         NEW first \in 0..size - 1, NEW n \in 0..size - 1, IsLine(x, buf, first, size, n, y),
         NEW new, new = [buf EXCEPT ![Behind(first, n, size)] = y]
  PROVE  IsLine(x, new, first, size, n + 1, After(y, size))
<1> DEFINE old(i) == Line(x, buf, first, size, n, y, i)
           line(i) == Line(x, new, first, size, n + 1, After(y, size), i)
<1>1. \A i \in 0..n : line(i) = old(i)
  <2> SUFFICES ASSUME NEW i \in 0..n, i # 0
               PROVE  new[Behind(first, i - 1, size)] = buf[Behind(first, i - 1, size)]
    <3>1. \A i \in 0..n : i # n + 1 /\ i # (n + 1) + 1
      OBVIOUS
    <3> QED
      BY <3>1 DEF Line
  <2>1. i - 1 \in 0..size - 1 /\ i - 1 # n /\ n \in 0..size - 1 /\ i - 1 \in 0..size
    OBVIOUS
  <2>2. Behind(first, i - 1, size) # Behind(first, n, size)
    BY <2>1, BehindDiffer
  <2>3. Behind(first, i - 1, size) \in 0..size - 1
    BY <2>1, BehindSlot
  <2> QED
    BY <2>2, <2>3
<1>2. line(n + 1) = y /\ old(n + 1) = y
  <2>1. n + 1 # 0 /\ n + 1 # (n + 1) + 1 /\ (n + 1) - 1 = n /\ n \in 0..size
    OBVIOUS
  <2>2. Behind(first, n, size) \in 0..size - 1
    BY <2>1, BehindSlot
  <2>3. new[Behind(first, n, size)] = y
    BY <2>2
  <2> QED
    BY <2>1, <2>3 DEF Line
<1>3. line((n + 1) + 1) = After(y, size)
  <2>1. (n + 1) + 1 # 0
    OBVIOUS
  <2> QED
    BY <2>1 DEF Line
<1>4. \A i \in 0..n : old(i + 1) = After(old(i), size)
  BY DEF IsLine
<1> HIDE DEF old, line
<1>5. \A i \in 0..n + 1 : line(i + 1) = After(line(i), size)
  <2> SUFFICES ASSUME NEW i \in 0..n + 1 PROVE line(i + 1) = After(line(i), size)
    OBVIOUS
  <2>1. CASE i = n + 1
    BY <1>2, <1>3, <2>1
  <2>2. CASE i = n
    <3>1. i \in 0..n
      BY <2>2
    <3> QED
      BY <1>1, <1>2, <1>4, <2>2, <3>1
  <2>3. CASE i < n
    <3>1. i \in 0..n /\ i + 1 \in 0..n
      BY <2>3
    <3> QED
      BY <1>1, <1>4, <3>1
  <2> QED
    BY <2>1, <2>2, <2>3
<1> QED
  BY <1>5 DEF line, IsLine

\* The first frame leaves its buffer.
LEMMA LineLeave ==
  ASSUME NEW size \in Nat \ {0}, NEW x, NEW y, NEW buf, NEW first \in 0..size - 1,
         NEW n \in 1..size, IsLine(x, buf, first, size, n, y)
  PROVE  IsLine(buf[first], buf, Behind(first, 1, size), size, n - 1, y)
<1> DEFINE old(i) == Line(x, buf, first, size, n, y, i)
           line(i) == Line(buf[first], buf, Behind(first, 1, size), size, n - 1, y, i)
<1>1. ASSUME NEW i \in 0..n PROVE line(i) = old(i + 1)
  <2>1. i + 1 # 0 /\ (i + 1 = n + 1 <=> i = n) /\ (n - 1) + 1 = n /\ (i + 1) - 1 = i /\ n # 0
    OBVIOUS
  <2>2. CASE i = 0
    <3>1. Behind(first, 0, size) = first
      BY BehindZero
    <3> QED
      BY <2>1, <2>2, <3>1 DEF Line
  <2>3. CASE i = n
    BY <2>1, <2>3 DEF Line
  <2>4. CASE i # 0 /\ i # n
    <3>1. 1 \in 0..size /\ i - 1 \in 0..size /\ 1 + (i - 1) = i /\ 1 + (i - 1) <= size
      BY <2>4
    <3>2. Behind(Behind(first, 1, size), i - 1, size) = Behind(first, i, size)
      BY <3>1, BehindSum
    <3> QED
      BY <2>1, <2>4, <3>2 DEF Line
  <2> QED
    BY <2>2, <2>3, <2>4
<1>2. \A i \in 0..n : old(i + 1) = After(old(i), size)
  BY DEF IsLine
<1> HIDE DEF old, line
<1>3. \A i \in 0..n - 1 : i \in 0..n /\ i + 1 \in 0..n
  OBVIOUS
<1>4. \A i \in 0..n - 1 : line(i + 1) = After(line(i), size)
  BY <1>1, <1>2, <1>3
<1> QED
  BY <1>4 DEF line, IsLine

\* The line as a sequence: x, the frames of the buffers in mid, and y.
Follow(s, size) == \A i \in 1..Len(s) - 1 : s[i + 1] = After(s[i], size)
Row(x, mid, y) == <<x>> \o mid \o <<y>>
Reads(mid, buf, first, size, n) ==
  /\ mid \in Seq(Number(size)) /\ Len(mid) = n
  /\ \A i \in 1..n : mid[i] = buf[Behind(first, i - 1, size)]

LEMMA LineSequence ==
  ASSUME NEW size \in Nat \ {0}, NEW x \in Number(size), NEW y \in Number(size),
         NEW buf, NEW first, NEW n \in Nat,
         NEW mid, Reads(mid, buf, first, size, n), IsLine(x, buf, first, size, n, y)
  PROVE  Follow(Row(x, mid, y), size)
<1> DEFINE S == Number(size)
           s == Row(x, mid, y)
<1>0. /\ x \in S /\ y \in S /\ mid \in Seq(S) /\ Len(mid) = n
      /\ \A i \in 1..n : mid[i] = buf[Behind(first, i - 1, size)]
      /\ s = <<x>> \o mid \o <<y>>
  BY DEF Reads, Row
<1> HIDE DEF S, s
<1> DEFINE line(i) == Line(x, buf, first, size, n, y, i)
           front == <<x>> \o mid
<1>1. /\ front \in Seq(S) /\ Len(front) = n + 1 /\ front[1] = x
      /\ \A i \in 1..n : front[i + 1] = mid[i]
  BY <1>0
<1>2. s = front \o <<y>>
  BY <1>0
<1> HIDE DEF front
<1>3. /\ Len(s) = n + 2 /\ s[n + 2] = y /\ \A i \in 1..n + 1 : s[i] = front[i]
  <2>1. /\ Len(front \o <<y>>) = Len(front) + 1 /\ (front \o <<y>>)[Len(front) + 1] = y
        /\ \A i \in 1..Len(front) : (front \o <<y>>)[i] = front[i]
    BY <1>1
  <2>2. Len(front) + 1 = n + 2
    BY <1>1
  <2> QED
    BY <1>1, <1>2, <2>1, <2>2
<1>4. ASSUME NEW i \in 0..n + 1 PROVE s[i + 1] = line(i)
  <2>1. CASE i = 0
    <3>1. s[1] = x
      BY <1>1, <1>3
    <3> QED
      BY <2>1, <3>1 DEF Line
  <2>2. CASE i = n + 1
    <3>1. i + 1 = n + 2 /\ i # 0
      BY <2>2
    <3> QED
      BY <1>3, <2>2, <3>1 DEF Line
  <2>3. CASE i # 0 /\ i # n + 1
    <3>1. i \in 1..n /\ i + 1 \in 1..n + 1
      BY <2>3
    <3>2. s[i + 1] = mid[i]
      BY <1>1, <1>3, <3>1
    <3> QED
      BY <1>0, <2>3, <3>1, <3>2 DEF Line
  <2> QED
    BY <2>1, <2>2, <2>3
<1>5. \A i \in 0..n : line(i + 1) = After(line(i), size)
  BY DEF IsLine
<1> HIDE DEF line
<1>6. ASSUME NEW i \in 1..n + 1 PROVE s[i + 1] = After(s[i], size)
  <2> DEFINE j == i - 1
  <2>1. j \in 0..n /\ j \in 0..n + 1 /\ j + 1 \in 0..n + 1 /\ i = j + 1
    OBVIOUS
  <2> HIDE DEF j
  <2>2. s[j + 1] = line(j) /\ s[(j + 1) + 1] = line(j + 1) /\ line(j + 1) = After(line(j), size)
    BY <1>4, <1>5, <2>1
  <2> QED
    BY <2>1, <2>2
<1>7. Len(s) - 1 = n + 1
  BY <1>3
<1> QED
  BY <1>6, <1>7 DEF Follow, s

-----------------------------------------------------------------------------
(* Transmission.                                                             *)

\* n descriptors, from tx_read_index on, are at the DMA: the first one has been
\* sent while its interrupt is pending.  The one behind them is filled while
\* low_level_output is at it; the others are free.
FlagOf(a, n, done, task) ==
  IF a < n THEN IF a = 0 /\ done THEN "sent" ELSE "owned"
  ELSE IF a = n /\ task = "start" THEN "filled" ELSE "free"

TxFirst == IF txDone THEN TxNext(tx_read_index) ELSE tx_read_index
TxReady(n) == n - (IF txDone THEN 1 ELSE 0) + (IF txTask = "start" THEN 1 ELSE 0)

TxTypeInv ==
  /\ txFlags \in [TxDesc -> {"free", "filled", "owned", "sent"}]
  /\ TxBuf \in [TxDesc -> TxNumber]
  /\ txDone \in BOOLEAN /\ tx_running \in BOOLEAN
  /\ tx_read_index \in TxDesc /\ tx_write_index \in TxDesc /\ txTask \in {"idle", "start"}
  /\ txFrame \in TxNumber /\ txLine \in TxNumber

TxAt(n) ==
  /\ tx_write_index = Behind(tx_read_index, n, NUM_BUFF_TXDESCS)
  /\ \A a \in 0..NUM_BUFF_TXDESCS - 1 :
       txFlags[Behind(tx_read_index, a, NUM_BUFF_TXDESCS)] = FlagOf(a, n, txDone, txTask)
  /\ tx_running <=> n > 0
  /\ txDMA = IF n > 0 /\ ~txDone THEN tx_read_index ELSE NULL
  /\ txDone => n > 0
  /\ txTask = "start" => n < NUM_BUFF_TXDESCS
  /\ IsLine(txLine, TxBuf, TxFirst, NUM_BUFF_TXDESCS, TxReady(n), txFrame)

TxInv == TxTypeInv /\ \E n \in 0..NUM_BUFF_TXDESCS : TxAt(n)

\* The first descriptor of those that are ready to go out.
LEMMA TxPlaces ==
  ASSUME TxTypeInv, NEW n \in 0..NUM_BUFF_TXDESCS, TxAt(n)
  PROVE  /\ NUM_BUFF_TXDESCS \in Nat \ {0} /\ TxDesc = 0..NUM_BUFF_TXDESCS - 1
         /\ TxNumber = Number(NUM_BUFF_TXDESCS)
         /\ TxFirst \in TxDesc
         /\ TxFirst = Behind(tx_read_index, IF txDone THEN 1 ELSE 0, NUM_BUFF_TXDESCS)
         /\ TxReady(n) \in 0..NUM_BUFF_TXDESCS
<1>0. NUM_BUFF_TXDESCS \in Nat \ {0} /\ TxDesc = 0..NUM_BUFF_TXDESCS - 1
  BY DescAssumption DEF TxDesc
<1>1. TxNumber = Number(NUM_BUFF_TXDESCS)
  BY DEF TxNumber, Number
<1>2. TxFirst = Behind(tx_read_index, IF txDone THEN 1 ELSE 0, NUM_BUFF_TXDESCS)
  <2>1. Behind(tx_read_index, 0, NUM_BUFF_TXDESCS) = tx_read_index
    BY <1>0, BehindZero DEF TxTypeInv
  <2>2. TxNext(tx_read_index) = Behind(tx_read_index, 1, NUM_BUFF_TXDESCS)
    BY DEF TxNext, Behind
  <2> QED
    BY <2>1, <2>2 DEF TxFirst, TxTypeInv
<1>3. TxFirst \in TxDesc
  <2>1. 0 \in 0..NUM_BUFF_TXDESCS /\ 1 \in 0..NUM_BUFF_TXDESCS
    BY <1>0
  <2>2. \A a \in 0..NUM_BUFF_TXDESCS : Behind(tx_read_index, a, NUM_BUFF_TXDESCS) \in TxDesc
    BY <1>0, BehindSlot DEF TxTypeInv
  <2> QED
    BY <1>2, <2>1, <2>2
<1>4. TxReady(n) \in 0..NUM_BUFF_TXDESCS
  <2>1. (txDone => n > 0) /\ (txTask = "start" => n < NUM_BUFF_TXDESCS)
    BY DEF TxAt
  <2> QED
    BY <1>0, <2>1 DEF TxReady
<1> QED
  BY <1>0, <1>1, <1>2, <1>3, <1>4

\* low_level_output takes a descriptor only if it is free: then there is one.
LEMMA FillTxKeeps ==
  ASSUME TxInv, FillTx
  PROVE  TxInv'
<1>1. PICK n \in 0..NUM_BUFF_TXDESCS : TxAt(n)
  BY DEF TxInv
<1> DEFINE size == NUM_BUFF_TXDESCS
           r == TxReady(n)
<1>2. /\ size \in Nat \ {0} /\ TxDesc = 0..size - 1 /\ TxNumber = Number(size)
      /\ TxFirst \in TxDesc /\ r \in 0..size
      /\ TxFirst = Behind(tx_read_index, IF txDone THEN 1 ELSE 0, size)
  BY <1>1, TxPlaces DEF TxInv
<1>3. /\ txTask = "idle" /\ txTask' = "start" /\ txFlags[tx_write_index] = "free"
      /\ txFlags' = [txFlags EXCEPT ![tx_write_index] = "filled"]
      /\ TxBuf' = [TxBuf EXCEPT ![tx_write_index] = txFrame]
      /\ txFrame' = TxAfter(txFrame)
      /\ UNCHANGED <<txDMA, txDone, tx_running, tx_read_index, tx_write_index, txLine>>
  BY DEF FillTx
<1>4. /\ tx_read_index \in 0..size - 1 /\ tx_write_index \in 0..size - 1
      /\ tx_write_index = Behind(tx_read_index, n, size)
      /\ txFlags \in [0..size - 1 -> {"free", "filled", "owned", "sent"}]
      /\ TxBuf \in [0..size - 1 -> Number(size)] /\ txFrame \in Number(size)
      /\ txDone \in BOOLEAN /\ (txDone => n > 0)
      /\ \A a \in 0..size - 1 :
           txFlags[Behind(tx_read_index, a, size)] = FlagOf(a, n, txDone, txTask)
  BY <1>1, <1>2 DEF TxInv, TxTypeInv, TxAt
<1>5. n < size
  <2> SUFFICES ASSUME n = size PROVE FALSE
    BY <1>2
  <2>1. tx_write_index = Behind(tx_read_index, 0, size)
    BY <1>2, <1>4, BehindRound, BehindZero
  <2>2. 0 \in 0..size - 1 /\ 0 < n
    BY <1>2
  <2>3. txFlags[tx_write_index] = FlagOf(0, n, txDone, txTask)
    BY <1>4, <2>1, <2>2
  <2> QED
    BY <1>3, <2>2, <2>3 DEF FlagOf
<1>6. \A a \in 0..size - 1 :
        txFlags'[Behind(tx_read_index, a, size)] = FlagOf(a, n, txDone, "start")
  <2> SUFFICES ASSUME NEW a \in 0..size - 1
               PROVE  txFlags'[Behind(tx_read_index, a, size)] = FlagOf(a, n, txDone, "start")
    OBVIOUS
  <2>1. n \in 0..size - 1 /\ ~(n < n) /\ a \in 0..size
    BY <1>2, <1>5
  <2>2. CASE a = n
    BY <1>3, <1>4, <2>1, <2>2 DEF FlagOf
  <2>3. CASE a # n
    <3>1. Behind(tx_read_index, a, size) # tx_write_index
      BY <1>2, <1>4, <2>1, <2>3, BehindDiffer
    <3>2. Behind(tx_read_index, a, size) \in 0..size - 1
      BY <1>2, <1>4, <2>1, BehindSlot
    <3>3. txFlags'[Behind(tx_read_index, a, size)] = txFlags[Behind(tx_read_index, a, size)]
      BY <1>3, <1>4, <3>1, <3>2
    <3> QED
      BY <1>3, <1>4, <2>3, <3>3 DEF FlagOf
  <2> QED
    BY <2>2, <2>3
<1>7. /\ r = n - (IF txDone THEN 1 ELSE 0) /\ r \in 0..size - 1
      /\ TxReady(n)' = r + 1 /\ TxFirst' = TxFirst
  BY <1>2, <1>3, <1>4, <1>5 DEF TxReady, TxFirst, TxNext
<1>8. Behind(TxFirst, r, size) = tx_write_index
  <2> DEFINE lo == IF txDone THEN 1 ELSE 0
  <2>1. lo \in 0..size /\ r \in 0..size /\ lo + r = n /\ lo + r <= size
    BY <1>2, <1>4, <1>5, <1>7
  <2>2. TxFirst = Behind(tx_read_index, lo, size)
    BY <1>2
  <2> HIDE DEF lo, r
  <2> QED
    BY <1>2, <1>4, <2>1, <2>2, BehindSum
<1>9. IsLine(txLine, TxBuf', TxFirst, size, r + 1, txFrame')
  <2>1. IsLine(txLine, TxBuf, TxFirst, size, r, txFrame)
    BY <1>1 DEF TxAt
  <2>2. TxBuf' = [TxBuf EXCEPT ![Behind(TxFirst, r, size)] = txFrame]
    BY <1>3, <1>8
  <2>3. txFrame' = After(txFrame, size)
    BY <1>3 DEF TxAfter, After
  <2> HIDE DEF r, size
  <2> QED
    BY <1>2, <1>4, <1>7, <2>1, <2>2, <2>3, LineJoin
<1>10. TxTypeInv'
  <2>1. txFrame' \in Number(size)
    <3>1. txFrame' = After(txFrame, size)
      BY <1>3 DEF TxAfter, After
    <3> HIDE DEF size
    <3> QED
      BY <1>2, <1>4, <3>1, NumberTypes
  <2> QED
    BY <1>2, <1>3, <1>4, <2>1 DEF TxInv, TxTypeInv
<1>11. TxAt(n)'
  BY <1>1, <1>3, <1>5, <1>6, <1>7, <1>9 DEF TxAt
<1> QED
  BY <1>10, <1>11 DEF TxInv

\* The descriptor goes to the DMA; if that stands still it starts with it.
LEMMA StartTxKeeps ==
  ASSUME TxInv, StartTx
  PROVE  TxInv'
<1>1. PICK n \in 0..NUM_BUFF_TXDESCS : TxAt(n)
  BY DEF TxInv
<1> DEFINE size == NUM_BUFF_TXDESCS
<1>2. /\ size \in Nat \ {0} /\ TxDesc = 0..size - 1
  BY <1>1, TxPlaces DEF TxInv
<1>3. /\ txTask = "start" /\ txTask' = "idle"
      /\ txFlags' = [txFlags EXCEPT ![tx_write_index] = "owned"]
      /\ txDMA' = IF tx_running THEN txDMA ELSE tx_write_index
      /\ tx_running' = TRUE
      /\ tx_write_index' = TxNext(tx_write_index)
      /\ UNCHANGED <<TxBuf, txDone, tx_read_index, txFrame, txLine>>
  BY DEF StartTx
<1>4. /\ tx_read_index \in 0..size - 1 /\ tx_write_index \in 0..size - 1
      /\ tx_write_index = Behind(tx_read_index, n, size)
      /\ txFlags \in [0..size - 1 -> {"free", "filled", "owned", "sent"}]
      /\ n < size /\ (tx_running <=> n > 0)
  BY <1>1, <1>2, <1>3 DEF TxInv, TxTypeInv, TxAt
<1>5. /\ \A a \in 0..size - 1 :
           txFlags[Behind(tx_read_index, a, size)] = FlagOf(a, n, txDone, txTask)
      /\ txDMA = IF n > 0 /\ ~txDone THEN tx_read_index ELSE NULL
      /\ txDone => n > 0
  BY <1>1 DEF TxAt
<1>6. /\ tx_write_index' = Behind(tx_read_index, n + 1, size)
      /\ tx_write_index' \in 0..size - 1
  <2>1. n \in 0..size /\ 1 \in 0..size /\ n + 1 <= size /\ n + 1 \in 0..size
    BY <1>2, <1>4
  <2>2. TxNext(tx_write_index) = Behind(tx_write_index, 1, size)
    BY DEF TxNext, Behind
  <2> HIDE DEF size
  <2>3. Behind(Behind(tx_read_index, n, size), 1, size) = Behind(tx_read_index, n + 1, size)
    BY <1>2, <1>4, <2>1, BehindSum
  <2>4. Behind(tx_read_index, n + 1, size) \in 0..size - 1
    BY <1>2, <1>4, <2>1, BehindSlot
  <2> QED
    BY <1>3, <1>4, <2>2, <2>3, <2>4
<1>7. \A a \in 0..size - 1 :
        txFlags'[Behind(tx_read_index, a, size)] = FlagOf(a, n + 1, txDone, "idle")
  <2> SUFFICES ASSUME NEW a \in 0..size - 1
               PROVE  txFlags'[Behind(tx_read_index, a, size)] = FlagOf(a, n + 1, txDone, "idle")
    OBVIOUS
  <2>1. n \in 0..size - 1 /\ a \in 0..size
    BY <1>2, <1>4
  <2>2. CASE a = n
    <3>1. txFlags'[tx_write_index] = "owned" /\ a < n + 1 /\ ~(a = 0 /\ txDone)
      BY <1>3, <1>4, <1>5, <2>2
    <3> QED
      BY <1>4, <2>2, <3>1 DEF FlagOf
  <2>3. CASE a # n
    <3>1. Behind(tx_read_index, a, size) # tx_write_index
      BY <1>2, <1>4, <2>1, <2>3, BehindDiffer
    <3>2. Behind(tx_read_index, a, size) \in 0..size - 1
      BY <1>2, <1>4, <2>1, BehindSlot
    <3>3. txFlags'[Behind(tx_read_index, a, size)] = txFlags[Behind(tx_read_index, a, size)]
      BY <1>3, <1>4, <3>1, <3>2
    <3>4. a < n + 1 <=> a < n
      BY <2>1, <2>3
    <3> QED
      BY <1>5, <2>3, <3>3, <3>4 DEF FlagOf
  <2> QED
    BY <2>2, <2>3
<1>8. /\ TxReady(n + 1)' = TxReady(n) /\ TxFirst' = TxFirst
  BY <1>2, <1>3, <1>4 DEF TxReady, TxFirst, TxNext
<1>9. txDMA' = IF n + 1 > 0 /\ ~txDone' THEN tx_read_index' ELSE NULL
  <2>1. CASE n = 0
    <3>1. tx_write_index = tx_read_index /\ ~txDone /\ ~tx_running
      BY <1>2, <1>4, <1>5, <2>1, BehindZero
    <3> QED
      BY <1>3, <2>1, <3>1
  <2>2. CASE n # 0
    <3>1. tx_running /\ n > 0 /\ n + 1 > 0
      BY <1>4, <2>2
    <3> QED
      BY <1>3, <1>5, <3>1
  <2> QED
    BY <2>1, <2>2
<1>10. TxTypeInv'
  BY <1>2, <1>3, <1>4, <1>6 DEF TxInv, TxTypeInv
<1>11. TxAt(n + 1)'
  <2>1. IsLine(txLine, TxBuf, TxFirst, size, TxReady(n), txFrame)
    BY <1>1 DEF TxAt
  <2>2. n + 1 > 0
    OBVIOUS
  <2> QED
    BY <1>3, <1>6, <1>7, <1>8, <1>9, <2>1, <2>2 DEF TxAt
<1>12. n + 1 \in 0..NUM_BUFF_TXDESCS
  BY <1>2, <1>4
<1> QED
  BY <1>10, <1>11, <1>12 DEF TxInv

\* The first of the descriptors is sent.
LEMMA FrameSentKeeps ==
  ASSUME TxInv, FrameSent
  PROVE  TxInv'
<1>1. PICK n \in 0..NUM_BUFF_TXDESCS : TxAt(n)
  BY DEF TxInv
<1> DEFINE size == NUM_BUFF_TXDESCS
<1>2. /\ size \in Nat \ {0} /\ TxDesc = 0..size - 1 /\ TxNumber = Number(size)
      /\ TxFirst = Behind(tx_read_index, IF txDone THEN 1 ELSE 0, size)
      /\ TxReady(n) \in 0..size
  BY <1>1, TxPlaces DEF TxInv
<1>3. /\ txDMA # NULL /\ txFlags' = [txFlags EXCEPT ![txDMA] = "sent"]
      /\ txLine' = TxBuf[txDMA] /\ txDMA' = NULL /\ txDone' = TRUE
      /\ UNCHANGED <<TxBuf, tx_running, tx_read_index, tx_write_index, txTask, txFrame>>
  BY DEF FrameSent
<1>4. /\ tx_read_index \in 0..size - 1
      /\ txFlags \in [0..size - 1 -> {"free", "filled", "owned", "sent"}]
      /\ TxBuf \in [0..size - 1 -> Number(size)]
      /\ txDMA = tx_read_index /\ n > 0 /\ ~txDone
  BY <1>1, <1>2, <1>3 DEF TxInv, TxTypeInv, TxAt
<1>5. /\ \A a \in 0..size - 1 :
           txFlags[Behind(tx_read_index, a, size)] = FlagOf(a, n, txDone, txTask)
      /\ IsLine(txLine, TxBuf, TxFirst, size, TxReady(n), txFrame)
  BY <1>1 DEF TxAt
<1>6. \A a \in 0..size - 1 :
        txFlags'[Behind(tx_read_index, a, size)] = FlagOf(a, n, TRUE, txTask)
  <2> SUFFICES ASSUME NEW a \in 0..size - 1
               PROVE  txFlags'[Behind(tx_read_index, a, size)] = FlagOf(a, n, TRUE, txTask)
    OBVIOUS
  <2>1. 0 \in 0..size - 1 /\ a \in 0..size /\ Behind(tx_read_index, 0, size) = tx_read_index
    BY <1>2, <1>4, BehindZero
  <2>2. CASE a = 0
    BY <1>3, <1>4, <2>1, <2>2 DEF FlagOf
  <2>3. CASE a # 0
    <3>1. Behind(tx_read_index, a, size) # tx_read_index
      BY <1>2, <1>4, <2>1, <2>3, BehindDiffer
    <3>2. Behind(tx_read_index, a, size) \in 0..size - 1
      BY <1>2, <1>4, <2>1, BehindSlot
    <3>3. txFlags'[Behind(tx_read_index, a, size)] = txFlags[Behind(tx_read_index, a, size)]
      BY <1>3, <1>4, <3>1, <3>2
    <3> QED
      BY <1>5, <2>3, <3>3 DEF FlagOf
  <2> QED
    BY <2>2, <2>3
<1>7. /\ TxFirst = tx_read_index /\ TxFirst' = Behind(tx_read_index, 1, size)
      /\ TxReady(n) \in 1..size /\ TxReady(n)' = TxReady(n) - 1
  <2>1. TxNext(tx_read_index) = Behind(tx_read_index, 1, size)
    BY DEF TxNext, Behind
  <2>2. TxFirst = tx_read_index /\ TxFirst' = TxNext(tx_read_index)
    BY <1>3, <1>4 DEF TxFirst, TxNext
  <2>3. TxReady(n) > 0 /\ TxReady(n)' = TxReady(n) - 1
    BY <1>2, <1>3, <1>4 DEF TxReady
  <2> QED
    BY <1>2, <2>1, <2>2, <2>3
<1>8. IsLine(txLine', TxBuf, TxFirst', size, TxReady(n)', txFrame)
  <2> HIDE DEF size
  <2> QED
    BY <1>2, <1>3, <1>4, <1>5, <1>7, LineLeave
<1>9. TxTypeInv'
  BY <1>2, <1>3, <1>4 DEF TxInv, TxTypeInv
<1>10. TxAt(n)'
  BY <1>1, <1>3, <1>4, <1>6, <1>8 DEF TxAt
<1> QED
  BY <1>9, <1>10 DEF TxInv

\* The transmit interrupt frees the descriptor that was sent and goes on with the
\* next one, if that is at the DMA.
LEMMA TxInterruptKeeps ==
  ASSUME TxInv, cpsw_tx_inthandler
  PROVE  TxInv'
<1>1. PICK n \in 0..NUM_BUFF_TXDESCS : TxAt(n)
  BY DEF TxInv
<1> DEFINE size == NUM_BUFF_TXDESCS
           next == Behind(tx_read_index, 1, size)
<1>2. /\ size \in Nat \ {0} /\ TxDesc = 0..size - 1 /\ TxNumber = Number(size)
      /\ TxReady(n) \in 0..size
  BY <1>1, TxPlaces DEF TxInv
<1>3. /\ txDone /\ txDone' = FALSE
      /\ txFlags' = [txFlags EXCEPT ![tx_read_index] = "free"]
      /\ tx_read_index' = next
      /\ \/ txFlags'[next] = "owned" /\ txDMA' = next /\ tx_running' = tx_running
         \/ txFlags'[next] # "owned" /\ tx_running' = FALSE /\ txDMA' = txDMA
      /\ UNCHANGED <<TxBuf, tx_write_index, txTask, txFrame, txLine>>
  BY DEF cpsw_tx_inthandler, TxNext, Behind
<1>4. /\ tx_read_index \in 0..size - 1
      /\ txFlags \in [0..size - 1 -> {"free", "filled", "owned", "sent"}]
      /\ txDMA = NULL /\ n > 0 /\ tx_running = TRUE /\ n \in 1..size
      /\ tx_write_index = Behind(tx_read_index, n, size)
      /\ txTask = "start" => n < size
  BY <1>1, <1>2, <1>3 DEF TxInv, TxTypeInv, TxAt
<1>5. /\ \A a \in 0..size - 1 :
           txFlags[Behind(tx_read_index, a, size)] = FlagOf(a, n, txDone, txTask)
      /\ IsLine(txLine, TxBuf, TxFirst, size, TxReady(n), txFrame)
  BY <1>1 DEF TxAt
<1>6. 0 \in 0..size /\ 1 \in 0..size /\ next \in 0..size - 1
  <2>1. 0 \in 0..size /\ 1 \in 0..size
    BY <1>2
  <2> QED
    BY <1>2, <1>4, <2>1, BehindSlot
<1> HIDE DEF next
<1>7. \A a \in 0..size - 1 :
        txFlags'[Behind(next, a, size)] = FlagOf(a, n - 1, FALSE, txTask)
  <2> SUFFICES ASSUME NEW a \in 0..size - 1
               PROVE  txFlags'[Behind(next, a, size)] = FlagOf(a, n - 1, FALSE, txTask)
    OBVIOUS
  <2>1. a \in 0..size /\ 1 + a <= size /\ a + 1 = 1 + a /\ 1 + a \in 0..size
    BY <1>2
  <2>2. Behind(next, a, size) = Behind(tx_read_index, 1 + a, size)
    BY <1>2, <1>4, <1>6, <2>1, BehindSum DEF next
  <2>3. CASE a = size - 1
    <3>1. 1 + a = size
      BY <1>2, <2>3
    <3>2. Behind(tx_read_index, size, size) = tx_read_index
      BY <1>2, <1>4, BehindRound
    <3>3. txFlags'[Behind(next, a, size)] = "free"
      BY <1>3, <1>4, <2>2, <3>1, <3>2
    <3>4. ~(a < n - 1) /\ ~(a = n - 1 /\ txTask = "start")
      BY <1>2, <1>4, <2>3
    <3> QED
      BY <3>3, <3>4 DEF FlagOf
  <2>4. CASE a # size - 1
    <3>1. 1 + a \in 0..size - 1 /\ 1 + a # 0 /\ 0 \in 0..size - 1
      BY <1>2, <2>4
    <3>2. Behind(tx_read_index, 1 + a, size) # Behind(tx_read_index, 0, size)
      BY <1>2, <1>4, <3>1, BehindDiffer
    <3>3. Behind(tx_read_index, 0, size) = tx_read_index
      BY <1>2, <1>4, BehindZero
    <3>4. Behind(tx_read_index, 1 + a, size) \in 0..size - 1
      BY <1>2, <1>4, <2>1, BehindSlot
    <3>5. txFlags'[Behind(next, a, size)] = FlagOf(1 + a, n, txDone, txTask)
      BY <1>3, <1>4, <1>5, <2>2, <3>1, <3>2, <3>3, <3>4
    <3>6. (1 + a < n <=> a < n - 1) /\ (1 + a = n <=> a = n - 1)
      BY <1>4
    <3> QED
      BY <3>1, <3>5, <3>6 DEF FlagOf
  <2> QED
    BY <2>3, <2>4
<1>8. txFlags'[next] = FlagOf(0, n - 1, FALSE, txTask)
  <2>1. 0 \in 0..size - 1 /\ Behind(next, 0, size) = next
    BY <1>2, <1>6, BehindZero
  <2> QED
    BY <1>7, <2>1
<1>9. txFlags'[next] = "owned" <=> n - 1 > 0
  <2>1. 0 < n - 1 <=> n - 1 > 0
    OBVIOUS
  <2> QED
    BY <1>8, <2>1 DEF FlagOf
<1>10. tx_write_index' = Behind(next, n - 1, size)
  <2>1. n - 1 \in 0..size /\ 1 + (n - 1) = n /\ 1 + (n - 1) <= size
    BY <1>2, <1>4
  <2> HIDE DEF size
  <2> QED
    BY <1>2, <1>3, <1>4, <1>6, <2>1, BehindSum DEF next
<1>11. TxFirst' = TxFirst /\ TxReady(n - 1)' = TxReady(n)
  <2>1. TxFirst = next /\ TxFirst' = next
    BY <1>3 DEF TxFirst, TxNext, next, Behind
  <2>2. TxReady(n - 1)' = TxReady(n)
    BY <1>2, <1>3, <1>4 DEF TxReady
  <2> QED
    BY <2>1, <2>2
<1>12. TxTypeInv'
  <2>1. tx_running' \in BOOLEAN
    BY <1>3, <1>4
  <2> QED
    BY <1>2, <1>3, <1>4, <1>6, <2>1 DEF TxInv, TxTypeInv
<1>13. TxAt(n - 1)'
  <2>1. /\ tx_running' <=> n - 1 > 0
        /\ txDMA' = IF n - 1 > 0 THEN next ELSE NULL
    BY <1>3, <1>4, <1>9
  <2>2. txTask = "start" => n - 1 < size
    BY <1>2, <1>4
  <2>3. IsLine(txLine', TxBuf', TxFirst', size, TxReady(n - 1)', txFrame')
    BY <1>3, <1>5, <1>11
  <2>4. /\ ~txDone' /\ txDone' = FALSE /\ tx_read_index' = next
        /\ txTask' = txTask
    BY <1>3
  <2> QED
    BY <1>7, <1>10, <2>1, <2>2, <2>3, <2>4 DEF TxAt
<1>14. n - 1 \in 0..NUM_BUFF_TXDESCS
  BY <1>2, <1>4
<1> QED
  BY <1>12, <1>13, <1>14 DEF TxInv
\* The descriptors that are filled or owned are as many as TxReady says.
LEMMA ReadyCount ==
  ASSUME TxTypeInv, NEW n \in 0..NUM_BUFF_TXDESCS, TxAt(n)
  PROVE  Cardinality({d \in TxDesc : txFlags[d] \in {"filled", "owned"}}) = TxReady(n)
<1> DEFINE size == NUM_BUFF_TXDESCS
           lo == IF txDone THEN 1 ELSE 0
           r == TxReady(n)
           at(i) == Behind(TxFirst, i - 1, size)
           R == {d \in TxDesc : txFlags[d] \in {"filled", "owned"}}
           f == [i \in 1..r |-> at(i)]
<1>1. /\ size \in Nat \ {0} /\ TxDesc = 0..size - 1 /\ TxFirst \in 0..size - 1
      /\ TxFirst = Behind(tx_read_index, lo, size) /\ r \in 0..size
      /\ tx_read_index \in 0..size - 1
  BY TxPlaces DEF TxTypeInv
<1>2. /\ \A a \in 0..size - 1 :
           txFlags[Behind(tx_read_index, a, size)] = FlagOf(a, n, txDone, txTask)
      /\ txDone => n > 0
      /\ txTask = "start" => n < size
  BY DEF TxAt
<1>3. lo \in {0, 1} /\ r = n - lo + (IF txTask = "start" THEN 1 ELSE 0)
  BY DEF TxReady
<1>4. \A a \in 0..size - 1 :
        FlagOf(a, n, txDone, txTask) \in {"filled", "owned"} <=> lo <= a /\ a < lo + r
  <2> SUFFICES ASSUME NEW a \in 0..size - 1
               PROVE  FlagOf(a, n, txDone, txTask) \in {"filled", "owned"} <=> lo <= a /\ a < lo + r
    OBVIOUS
  <2>1. CASE a < n
    <3>1. (a = 0 /\ txDone) <=> ~(lo <= a)
      BY <2>1
    <3>2. a < lo + r
      BY <1>3, <2>1
    <3> HIDE DEF lo, r
    <3> QED
      BY <2>1, <3>1, <3>2 DEF FlagOf
  <2>2. CASE ~(a < n)
    <3>1. a = n /\ txTask = "start" <=> a < lo + r
      BY <1>3, <2>2
    <3>2. lo <= a
      BY <1>2, <2>2
    <3> HIDE DEF lo, r
    <3> QED
      BY <2>2, <3>1, <3>2 DEF FlagOf
  <2> QED
    BY <2>1, <2>2
<1>5. ASSUME NEW i \in 1..r
      PROVE  at(i) = Behind(tx_read_index, lo + (i - 1), size) /\ lo + (i - 1) \in 0..size - 1
  <2>1. lo \in 0..size /\ i - 1 \in 0..size /\ lo + (i - 1) \in 0..size - 1
    BY <1>1, <1>2, <1>3
  <2>2. lo + (i - 1) <= size
    BY <1>1, <2>1
  <2> HIDE DEF lo, size
  <2> QED
    BY <1>1, <2>1, <2>2, BehindSum
<1>6. \A i \in 1..r : at(i) \in R
  <2> SUFFICES ASSUME NEW i \in 1..r PROVE at(i) \in R
    OBVIOUS
  <2> DEFINE a == lo + (i - 1)
  <2>1. a \in 0..size - 1 /\ at(i) = Behind(tx_read_index, a, size) /\ lo <= a /\ a < lo + r
    BY <1>1, <1>3, <1>5
  <2> HIDE DEF a, lo, r
  <2>2. txFlags[at(i)] \in {"filled", "owned"}
    BY <1>2, <1>4, <2>1
  <2>3. at(i) \in TxDesc
    <3>1. a \in 0..size
      BY <1>1, <2>1
    <3> QED
      BY <1>1, <2>1, <3>1, BehindSlot
  <2> QED
    BY <2>2, <2>3
<1>7. \A d \in R : \E i \in 1..r : d = at(i)
  <2> SUFFICES ASSUME NEW d \in R PROVE \E i \in 1..r : d = at(i)
    OBVIOUS
  <2>1. PICK a \in 0..size - 1 : d = Behind(tx_read_index, a, size)
    BY <1>1, BehindOnto
  <2>2. lo <= a /\ a < lo + r
    BY <1>2, <1>4, <2>1
  <2> DEFINE i == a - lo + 1
  <2>3. i \in 1..r /\ lo + (i - 1) = a
    BY <1>1, <1>3, <2>1, <2>2
  <2> HIDE DEF i, lo, r
  <2>4. d = at(i)
    BY <1>5, <2>1, <2>3
  <2> QED
    BY <2>3, <2>4
<1>8. \A i, j \in 1..r : at(i) = at(j) => i = j
  <2> SUFFICES ASSUME NEW i \in 1..r, NEW j \in 1..r, i # j PROVE at(i) # at(j)
    OBVIOUS
  <2>1. i - 1 \in 0..size - 1 /\ j - 1 \in 0..size - 1 /\ i - 1 # j - 1
    BY <1>1
  <2> HIDE DEF size, r
  <2> QED
    BY <1>1, <2>1, BehindDiffer
<1> HIDE DEF at, R
<1>9. f \in Bijection(1..r, R)
  BY <1>6, <1>7, <1>8, Fun_IsBij
<1>10. IsFiniteSet(1..r) /\ Cardinality(1..r) = r
  <2>1. r \in 0..size
    BY <1>1
  <2> HIDE DEF r
  <2>2. IsFiniteSet(1..r) /\ Cardinality(1..r) = IF 1 > r THEN 0 ELSE r - 1 + 1
    <3>1. 1 \in Int /\ r \in Int
      BY <1>1, <2>1
    <3> HIDE DEF size
    <3> QED
      BY <3>1, FS_Interval
  <2> QED
    BY <1>1, <2>1, <2>2
<1>11. Cardinality(R) = r
  <2>1. ExistsBijection(1..r, R)
    BY <1>9 DEF ExistsBijection
  <2> HIDE DEF r
  <2> QED
    BY <1>10, <2>1, FS_Bijection
<1> QED
  BY <1>11 DEF R

LEMMA TxInOrder ==
  ASSUME TxInv
  PROVE  TxFramesInOrder
<1>1. PICK n \in 0..NUM_BUFF_TXDESCS : TxAt(n)
  BY DEF TxInv
<1> DEFINE size == NUM_BUFF_TXDESCS
           r == TxReady(n)
           mid == [i \in 1..r |-> TxBuf[(TxFirst + i - 1) % size]]
           s == <<txLine>> \o mid \o <<txFrame>>
<1>2. /\ size \in Nat \ {0} /\ TxFirst \in 0..size - 1 /\ r \in 0..size
      /\ TxBuf \in [0..size - 1 -> Number(size)]
      /\ txLine \in Number(size) /\ txFrame \in Number(size)
      /\ IsLine(txLine, TxBuf, TxFirst, size, r, txFrame)
  BY <1>1, TxPlaces DEF TxInv, TxTypeInv, TxAt
<1>3. TxFramesInOrder <=> \A i \in 1..Len(s) - 1 : s[i + 1] = TxAfter(s[i])
  BY <1>1, ReadyCount DEF TxFramesInOrder, TxFirst, TxInv
<1> HIDE DEF r, size
<1>4. \A i \in 1..r : TxBuf[(TxFirst + i - 1) % size] = TxBuf[Behind(TxFirst, i - 1, size)]
  <2>1. \A i \in 1..r : TxFirst + i - 1 = TxFirst + (i - 1)
    BY <1>2
  <2> QED
    BY <2>1 DEF Behind
<1>5. \A i \in 1..r : TxBuf[Behind(TxFirst, i - 1, size)] \in Number(size)
  <2> SUFFICES ASSUME NEW i \in 1..r PROVE TxBuf[Behind(TxFirst, i - 1, size)] \in Number(size)
    OBVIOUS
  <2>1. i - 1 \in 0..size
    BY <1>2
  <2> QED
    BY <1>2, <2>1, BehindSlot
<1>6. Reads(mid, TxBuf, TxFirst, size, r)
  <2> DEFINE b(i) == TxBuf[(TxFirst + i - 1) % size]
  <2>1. \A i \in 1..r : b(i) \in Number(size)
    BY <1>4, <1>5
  <2> HIDE DEF b
  <2>2. [i \in 1..r |-> b(i)] \in Seq(Number(size)) /\ Len([i \in 1..r |-> b(i)]) = r
    <3>1. [i \in 1..r |-> b(i)] \in [1..r -> Number(size)]
      BY <2>1
    <3> QED
      BY <1>2, <3>1
  <2>3. \A i \in 1..r : [j \in 1..r |-> b(j)][i] = b(i)
    OBVIOUS
  <2> QED
    BY <1>4, <2>2, <2>3 DEF b, Reads
<1> HIDE DEF mid
<1>7. Follow(Row(txLine, mid, txFrame), size)
  <2>1. r \in Nat
    BY <1>2
  <2> QED
    BY <1>2, <1>6, <2>1, LineSequence
<1>8. s = Row(txLine, mid, txFrame)
  BY DEF Row
<1>9. \A v : TxAfter(v) = After(v, size)
  BY DEF TxAfter, After, size
<1> HIDE DEF s
<1> QED
  BY <1>3, <1>7, <1>8, <1>9 DEF Follow
\* What the run checks of the transmit side: a descriptor that is owned is being
\* sent or its interrupt pending, and the interrupt finds the descriptor it expects.
LEMMA TxMoves ==
  ASSUME TxInv
  PROVE  /\ (\E d \in TxDesc : txFlags[d] = "owned") => txDMA # NULL \/ txDone
         /\ txDone => txFlags[tx_read_index] = "sent"
         /\ txDMA \in TxDesc \cup {NULL}
<1>1. PICK n \in 0..NUM_BUFF_TXDESCS : TxAt(n)
  BY DEF TxInv
<1> DEFINE size == NUM_BUFF_TXDESCS
<1>2. /\ size \in Nat \ {0} /\ TxDesc = 0..size - 1
      /\ tx_read_index \in 0..size - 1 /\ tx_read_index # NULL
  BY <1>1, TxPlaces, DescAssumption DEF TxInv, TxTypeInv
<1>3. /\ \A a \in 0..size - 1 :
           txFlags[Behind(tx_read_index, a, size)] = FlagOf(a, n, txDone, txTask)
      /\ txDMA = IF n > 0 /\ ~txDone THEN tx_read_index ELSE NULL
      /\ txDone => n > 0
  BY <1>1 DEF TxAt
<1> HIDE DEF size
<1>4. ASSUME NEW d \in TxDesc, txFlags[d] = "owned" PROVE txDMA # NULL \/ txDone
  <2>1. PICK a \in 0..size - 1 : d = Behind(tx_read_index, a, size)
    BY <1>2, BehindOnto
  <2>2. a < n
    BY <1>3, <1>4, <2>1 DEF FlagOf
  <2>3. n > 0
    BY <1>2, <2>1, <2>2 DEF size
  <2> QED
    BY <1>2, <1>3, <2>3
<1>5. ASSUME txDone PROVE txFlags[tx_read_index] = "sent"
  <2>1. 0 \in 0..size - 1 /\ Behind(tx_read_index, 0, size) = tx_read_index
    BY <1>2, BehindZero
  <2>2. FlagOf(0, n, txDone, txTask) = "sent"
    BY <1>3, <1>5 DEF FlagOf
  <2> QED
    BY <1>3, <2>1, <2>2
<1> QED
  BY <1>2, <1>3, <1>4, <1>5

LEMMA TxInitially ==
  ASSUME NicInit
  PROVE  TxInv
<1> DEFINE size == NUM_BUFF_TXDESCS
<1>1. size \in Nat \ {0} /\ TxDesc = 0..size - 1 /\ 0 \in TxDesc /\ TxNumber = 0..size + 1
      /\ 0 \in TxNumber /\ 1 \in TxNumber
  BY DescAssumption DEF TxDesc, TxNumber
<1>2. /\ txFlags = [d \in TxDesc |-> "free"] /\ TxBuf = [d \in TxDesc |-> 0]
      /\ txDMA = NULL /\ txDone = FALSE
      /\ tx_running = FALSE /\ tx_read_index = 0 /\ tx_write_index = 0
      /\ txTask = "idle" /\ txFrame = 1 /\ txLine = 0
  BY DEF NicInit
<1>3. TxTypeInv
  BY <1>1, <1>2 DEF TxTypeInv
<1>4. \A a \in 0..size - 1 : txFlags[Behind(tx_read_index, a, size)] = FlagOf(a, 0, txDone, txTask)
  <2> SUFFICES ASSUME NEW a \in 0..size - 1
               PROVE  txFlags[Behind(tx_read_index, a, size)] = FlagOf(a, 0, txDone, txTask)
    OBVIOUS
  <2>1. a \in 0..size /\ tx_read_index \in 0..size - 1 /\ ~(a < 0)
    BY <1>1, <1>2
  <2>2. Behind(tx_read_index, a, size) \in 0..size - 1
    BY <1>1, <2>1, BehindSlot
  <2> QED
    BY <1>1, <1>2, <2>1, <2>2 DEF FlagOf
<1>5. tx_write_index = Behind(tx_read_index, 0, size)
  BY <1>1, <1>2, BehindZero
<1>6. IsLine(txLine, TxBuf, TxFirst, size, TxReady(0), txFrame)
  <2>1. TxReady(0) = 0
    <3>1. ~txDone /\ txTask # "start"
      BY <1>2
    <3>2. TxReady(0) = 0 - 0 + 0
      BY <3>1 DEF TxReady
    <3> QED
      BY <3>2
  <2>2. txFrame = After(txLine, size)
    <3>1. 1 \in Nat /\ size + 2 \in Nat \ {0} /\ 1 < size + 2
      BY <1>1
    <3> HIDE DEF size
    <3>2. 1 % (size + 2) = 1
      BY <1>1, <3>1
    <3> QED
      BY <1>2, <3>2 DEF After
  <2> QED
    BY <2>1, <2>2, LineEmpty
<1>7. TxAt(0) /\ 0 \in 0..size
  BY <1>1, <1>2, <1>4, <1>5, <1>6 DEF TxAt
<1> QED
  BY <1>3, <1>7 DEF TxInv

\* The receive side does not touch it.
LEMMA TxUntouched ==
  ASSUME TxInv, UNCHANGED txVars
  PROVE  TxInv'
<1>1. PICK n \in 0..NUM_BUFF_TXDESCS : TxAt(n)
  BY DEF TxInv
<1>2. UNCHANGED <<txFlags, TxBuf, txDMA, txDone, tx_running, tx_read_index, tx_write_index,
                  txTask, txFrame, txLine>>
  BY DEF txVars
<1>3. TxFirst' = TxFirst /\ TxReady(n)' = TxReady(n)
  BY <1>2 DEF TxFirst, TxReady
<1>4. TxTypeInv'
  BY <1>2 DEF TxInv, TxTypeInv
<1>5. TxAt(n)'
  BY <1>1, <1>2, <1>3 DEF TxAt
<1> QED
  BY <1>4, <1>5 DEF TxInv
-----------------------------------------------------------------------------
(* Reception.                                                                *)

\* c frames are complete, from descriptor next on; the DMA goes on behind them.
CompletedOf(owner, next) == {d \in RxDesc : d >= next /\ \A e \in next..d : ~owner[e]}
Ready(owner, next, dma, c) ==
  /\ next + c <= NUM_BUFF_RXDESCS
  /\ \A d \in RxDesc : owner[d] <=> d < next \/ d >= next + c
  /\ dma = IF next + c < NUM_BUFF_RXDESCS THEN next + c ELSE NULL

RxTypeInv ==
  /\ rxOwner \in [RxDesc -> BOOLEAN] /\ RxBuf \in [RxDesc -> RxNumber]
  /\ next_rx_index \in RxDesc
  /\ wCount \in 0..NUM_BUFF_RXDESCS /\ wInIndex \in RxDesc /\ wOutIndex \in RxDesc
  /\ pBuffer \in [RxDesc -> RxDesc \cup {NULL}]
  /\ NetIfEvent \in BOOLEAN
  /\ rxTask \in {"wait", "waiting", "input", "claim", "take", "copy"}
  /\ bd \in RxDesc \cup {NULL}
  /\ rxFrame \in RxNumber /\ rxTaken \in RxNumber /\ lapped \in BOOLEAN /\ starved \in BOOLEAN

\* The mailbox and the task that reads it.
MailInv ==
  /\ wInIndex = Behind(wOutIndex, wCount, NUM_BUFF_RXDESCS)
  /\ \A i \in 0..wCount - 1 : pBuffer[Behind(wOutIndex, i, NUM_BUFF_RXDESCS)] \in RxDesc
  /\ FreeCntSema = NUM_BUFF_RXDESCS - wCount
  /\ UsedCntSema = IF rxTask = "take" THEN wCount - 1 ELSE wCount
  /\ rxTask \in {"claim", "take"} => wCount > 0
  /\ bd = NULL <=> rxTask # "copy"
  /\ rxTask \in {"wait", "waiting"} => wCount = 0 \/ starved \/ (NetIfEvent /\ rxTask = "wait")

\* While no frame was overwritten, those that wait are in the descriptors from f on:
\* first the one the task reads, then those the mailbox names, then the completed
\* ones.  m of them are in the task's hands or the mailbox.
Reading == IF bd = NULL THEN 0 ELSE 1
Order(f, c) ==
  /\ Reading + wCount + c <= NUM_BUFF_RXDESCS
  /\ next_rx_index = Behind(f, Reading + wCount, NUM_BUFF_RXDESCS)
  /\ bd # NULL => bd = f
  /\ \A i \in 0..wCount - 1 :
       pBuffer[Behind(wOutIndex, i, NUM_BUFF_RXDESCS)] = Behind(f, Reading + i, NUM_BUFF_RXDESCS)
  /\ IsLine(rxTaken, RxBuf, f, NUM_BUFF_RXDESCS, Reading + wCount + c, rxFrame)

RxAt(c) ==
  /\ Ready(rxOwner, next_rx_index, rxDMA, c)
  /\ lapped \/ \E f \in RxDesc : Order(f, c)

RxInv == RxTypeInv /\ MailInv /\ \E c \in 0..NUM_BUFF_RXDESCS : RxAt(c)

NicInv == RxInv /\ TxInv
LEMMA RxSizes ==
  /\ NUM_BUFF_RXDESCS \in Nat \ {0} /\ RxDesc = 0..NUM_BUFF_RXDESCS - 1
  /\ RxNumber = Number(NUM_BUFF_RXDESCS) /\ NULL \notin RxDesc
  BY DescAssumption DEF RxDesc, RxNumber, Number

\* The completed descriptors, and how many there are.
LEMMA ReadyIs ==
  ASSUME NEW owner, NEW next \in RxDesc, NEW dma, NEW c \in 0..NUM_BUFF_RXDESCS,
         Ready(owner, next, dma, c)
  PROVE  /\ CompletedOf(owner, next) = next..next + c - 1
         /\ Cardinality(CompletedOf(owner, next)) = c
<1>1. NUM_BUFF_RXDESCS \in Nat \ {0} /\ RxDesc = 0..NUM_BUFF_RXDESCS - 1
  BY RxSizes
<1>2. next + c <= NUM_BUFF_RXDESCS /\ \A d \in RxDesc : owner[d] <=> d < next \/ d >= next + c
  BY DEF Ready
<1>3. ASSUME NEW d \in CompletedOf(owner, next) PROVE d \in next..next + c - 1
  <2>1. d \in RxDesc /\ d >= next /\ ~owner[d]
    <3>1. d \in RxDesc /\ d >= next /\ \A e \in next..d : ~owner[e]
      BY DEF CompletedOf
    <3>2. d \in next..d
      BY <1>1, <3>1
    <3> QED
      BY <3>1, <3>2
  <2> QED
    BY <1>1, <1>2, <2>1
<1>4. ASSUME NEW d \in next..next + c - 1 PROVE d \in CompletedOf(owner, next)
  <2>1. d \in RxDesc /\ d >= next
    BY <1>1, <1>2
  <2>2. \A e \in next..d : e \in RxDesc /\ ~(e < next \/ e >= next + c)
    BY <1>1, <1>2
  <2> QED
    BY <1>2, <2>1, <2>2 DEF CompletedOf
<1>5. CompletedOf(owner, next) = next..next + c - 1
  BY <1>3, <1>4
<1>6. Cardinality(next..next + c - 1) = c
  <2> DEFINE last == next + c - 1
  <2>1. next \in Int /\ last \in Int
    BY <1>1
  <2> HIDE DEF last
  <2>2. Cardinality(next..last) = IF next > last THEN 0 ELSE last - next + 1
    BY <2>1, FS_Interval
  <2> QED
    BY <1>1, <2>2 DEF last
<1> QED
  BY <1>5, <1>6

LEMMA MailIs ==
  ASSUME RxTypeInv
  PROVE  \A i \in 1..wCount : Mails[i] = pBuffer[Behind(wOutIndex, i - 1, NUM_BUFF_RXDESCS)]
<1> SUFFICES ASSUME NEW i \in 1..wCount
             PROVE  Mails[i] = pBuffer[Behind(wOutIndex, i - 1, NUM_BUFF_RXDESCS)]
  OBVIOUS
<1>1. wOutIndex + i - 1 = wOutIndex + (i - 1)
  BY RxSizes DEF RxTypeInv
<1>2. Mails[i] = pBuffer[(wOutIndex + i - 1) % NUM_BUFF_RXDESCS]
  BY DEF Mails
<1> QED
  BY <1>1, <1>2 DEF Behind

\* The next descriptor of the DMA is t places behind f; when it is f itself, a frame
\* waits there to be read.
LEMMA DmaBehind ==
  ASSUME RxTypeInv, MailInv, NEW c \in 0..NUM_BUFF_RXDESCS, NEW f \in RxDesc, Order(f, c),
         Ready(rxOwner, next_rx_index, rxDMA, c), rxDMA # NULL
  PROVE  /\ rxDMA = Behind(f, Reading + wCount + c, NUM_BUFF_RXDESCS)
         /\ rxDMA \notin Unread => Reading + wCount + c < NUM_BUFF_RXDESCS
<1> DEFINE size == NUM_BUFF_RXDESCS
           k == Reading + wCount
<1>1. /\ size \in Nat \ {0} /\ f \in 0..size - 1 /\ c \in 0..size /\ NULL \notin RxDesc
      /\ next_rx_index \in 0..size - 1 /\ k \in Nat /\ wCount \in Nat /\ wOutIndex \in 0..size - 1
  BY RxSizes DEF RxTypeInv, Reading
<1>2. k + c <= size /\ next_rx_index = Behind(f, k, size)
  BY DEF Order
<1>3. next_rx_index + c < size /\ rxDMA = next_rx_index + c
  BY DEF Ready
<1> HIDE DEF k, size
<1>4. Behind(next_rx_index, c, size) = rxDMA
  BY <1>1, <1>3, BehindIs
<1>5. rxDMA = Behind(f, k + c, size)
  <2>1. k \in 0..size
    BY <1>1, <1>2
  <2> QED
    BY <1>1, <1>2, <1>4, <2>1, BehindSum
<1>6. ASSUME rxDMA \notin Unread PROVE k + c < size
  <2> SUFFICES ASSUME k + c = size PROVE FALSE
    BY <1>1, <1>2
  <2>1. rxDMA = f
    BY <1>1, <1>5, BehindRound
  <2>2. bd = NULL
    <3> SUFFICES ASSUME bd # NULL PROVE FALSE
      OBVIOUS
    <3>1. bd = f
      BY DEF Order
    <3> QED
      BY <1>6, <2>1, <3>1 DEF Unread
  <2>3. Reading = 0 /\ k = wCount
    BY <1>1, <2>2 DEF Reading, k
  <2>4. wCount # 0
    BY <1>1, <1>3, <2>3
  <2>5. 1 \in 1..wCount /\ 0 \in 0..wCount - 1 /\ 1 - 1 = 0 /\ 0 + 0 = 0
    BY <1>1, <2>4
  <2>6. pBuffer[Behind(wOutIndex, 0, size)] = Behind(f, 0, size)
    BY <2>3, <2>5 DEF Order, size
  <2>7. Mails[1] = f
    BY <1>1, <2>5, <2>6, MailIs, BehindZero DEF size
  <2> QED
    BY <1>6, <2>1, <2>5, <2>7 DEF Unread
<1> QED
  BY <1>5, <1>6 DEF k, size
\* The DMA appends a frame, in order unless it overwrites one that waits.
LEMMA FrameArrivesKeeps ==
  ASSUME RxInv, FrameArrives
  PROVE  RxInv'
<1>1. PICK c \in 0..NUM_BUFF_RXDESCS : RxAt(c)
  BY DEF RxInv
<1> DEFINE size == NUM_BUFF_RXDESCS
<1>2. /\ size \in Nat \ {0} /\ RxDesc = 0..size - 1 /\ RxNumber = Number(size) /\ NULL \notin RxDesc
  BY RxSizes
<1>3. /\ rxDMA # NULL
      /\ rxOwner' = [rxOwner EXCEPT ![rxDMA] = FALSE]
      /\ RxBuf' = [RxBuf EXCEPT ![rxDMA] = rxFrame]
      /\ rxDMA' = IF rxDMA + 1 \in RxDesc THEN rxDMA + 1 ELSE NULL
      /\ rxFrame' = RxAfter(rxFrame)
      /\ lapped' = (lapped \/ rxDMA \in Unread)
      /\ UNCHANGED <<next_rx_index, wCount, wInIndex, wOutIndex, pBuffer, UsedCntSema, FreeCntSema,
                     NetIfEvent, rxTask, bd, rxTaken, starved>>
  BY DEF FrameArrives, mboxVars
<1>4. RxTypeInv /\ MailInv /\ Ready(rxOwner, next_rx_index, rxDMA, c)
  BY <1>1 DEF RxInv, RxAt
<1>5. /\ next_rx_index + c < size /\ rxDMA = next_rx_index + c /\ rxDMA \in RxDesc
      /\ next_rx_index \in RxDesc /\ c + 1 \in 0..size
  <2>1. next_rx_index \in 0..size - 1
    BY <1>2, <1>4 DEF RxTypeInv
  <2>2. next_rx_index + c < size /\ rxDMA = next_rx_index + c
    BY <1>3, <1>4 DEF Ready
  <2> QED
    BY <1>2, <2>1, <2>2
<1>6. Ready(rxOwner', next_rx_index', rxDMA', c + 1)
  <2>1. next_rx_index + (c + 1) <= size
    BY <1>2, <1>5
  <2>2. \A d \in RxDesc : rxOwner'[d] <=> d < next_rx_index \/ d >= next_rx_index + (c + 1)
    <3> SUFFICES ASSUME NEW d \in RxDesc
                 PROVE  rxOwner'[d] <=> d < next_rx_index \/ d >= next_rx_index + (c + 1)
      OBVIOUS
    <3>1. rxOwner[d] <=> d < next_rx_index \/ d >= next_rx_index + c
      BY <1>4 DEF Ready
    <3>2. CASE d = rxDMA
      <4>1. ~rxOwner'[d]
        BY <1>3, <1>4, <3>2 DEF RxTypeInv
      <4> QED
        BY <1>2, <1>5, <3>2, <4>1
    <3>3. CASE d # rxDMA
      <4>1. rxOwner'[d] = rxOwner[d]
        BY <1>3, <1>4, <3>3 DEF RxTypeInv
      <4>2. d >= next_rx_index + c <=> d >= next_rx_index + (c + 1)
        BY <1>2, <1>5, <3>3
      <4> QED
        BY <3>1, <4>1, <4>2
    <3> QED
      BY <3>2, <3>3
  <2>3. rxDMA' = IF next_rx_index + (c + 1) < size THEN next_rx_index + (c + 1) ELSE NULL
    BY <1>2, <1>3, <1>5
  <2> QED
    BY <1>3, <2>1, <2>2, <2>3 DEF Ready
<1>7. rxFrame' = After(rxFrame, size) /\ rxFrame' \in RxNumber
  <2>1. rxFrame' = After(rxFrame, size) /\ rxFrame \in Number(size)
    BY <1>2, <1>3, <1>4 DEF RxAfter, After, RxTypeInv
  <2> HIDE DEF size
  <2> QED
    BY <1>2, <2>1, NumberTypes
<1>8. RxTypeInv'
  <2>1. rxOwner' \in [RxDesc -> BOOLEAN] /\ RxBuf' \in [RxDesc -> RxNumber]
    BY <1>3, <1>4, <1>5 DEF RxTypeInv
  <2>2. lapped' \in BOOLEAN
    BY <1>3
  <2> QED
    BY <1>3, <1>4, <1>7, <2>1, <2>2 DEF RxTypeInv
<1>9. MailInv'
  BY <1>3, <1>4 DEF MailInv
<1>10. ASSUME ~lapped', NEW f \in RxDesc, Order(f, c) PROVE Order(f, c + 1)'
  <2> DEFINE t == Reading + wCount + c
  <2>1. t \in 0..size - 1 /\ rxDMA = Behind(f, t, size)
    <3>1. rxDMA \notin Unread
      BY <1>3, <1>10
    <3>2. Reading + wCount \in Nat
      BY <1>2, <1>4 DEF RxTypeInv, Reading
    <3> QED
      BY <1>2, <1>3, <1>4, <1>10, <3>1, <3>2, DmaBehind
  <2>2. IsLine(rxTaken, RxBuf, f, size, t, rxFrame)
    BY <1>10 DEF Order
  <2>3. RxBuf \in [0..size - 1 -> RxNumber] /\ f \in 0..size - 1
    BY <1>2, <1>4 DEF RxTypeInv
  <2>4. IsLine(rxTaken, RxBuf', f, size, t + 1, After(rxFrame, size))
    <3> HIDE DEF t, size
    <3> QED
      BY <1>2, <1>3, <2>1, <2>2, <2>3, LineJoin
  <2>5. Reading' = Reading /\ Reading + wCount + (c + 1) = t + 1 /\ t + 1 <= size
    BY <1>2, <1>3, <1>4, <2>1 DEF Reading, RxTypeInv
  <2>6. /\ next_rx_index = Behind(f, Reading + wCount, size)
        /\ bd # NULL => bd = f
        /\ \A i \in 0..wCount - 1 :
             pBuffer[Behind(wOutIndex, i, size)] = Behind(f, Reading + i, size)
    BY <1>10 DEF Order
  <2> HIDE DEF t
  <2> QED
    BY <1>3, <1>7, <2>4, <2>5, <2>6 DEF Order
<1>11. RxAt(c + 1)'
  <2>1. ~lapped' => ~lapped
    BY <1>3
  <2> QED
    BY <1>1, <1>6, <1>10, <2>1 DEF RxAt
<1> QED
  BY <1>5, <1>8, <1>9, <1>11 DEF RxInv

\* Steps that touch neither the descriptors nor the mails.
LEMMA RxAtUntouched ==
  ASSUME NEW c, RxAt(c),
         UNCHANGED <<rxOwner, RxBuf, rxDMA, next_rx_index, wCount, wOutIndex, pBuffer, bd,
                     rxFrame, rxTaken, lapped>>
  PROVE  RxAt(c)'
<1>1. Reading' = Reading
  BY DEF Reading
<1>2. ASSUME NEW f \in RxDesc, Order(f, c) PROVE Order(f, c)'
  BY <1>1, <1>2 DEF Order
<1>3. Ready(rxOwner, next_rx_index, rxDMA, c)'
  BY DEF RxAt, Ready
<1> QED
  BY <1>2, <1>3 DEF RxAt
LEMMA EventWaitKeeps ==
  ASSUME RxInv, EventWait \/ EventTimeout
  PROVE  RxInv'
<1>1. /\ UNCHANGED <<rxOwner, RxBuf, rxDMA, next_rx_index, wCount, wInIndex, wOutIndex, pBuffer,
                     UsedCntSema, FreeCntSema, bd, rxFrame, rxTaken, lapped, starved>>
      /\ \/ rxTask = "wait" /\ NetIfEvent /\ rxTask' = "input" /\ NetIfEvent' = FALSE
         \/ rxTask = "wait" /\ ~NetIfEvent /\ rxTask' = "waiting" /\ NetIfEvent' = FALSE
         \/ rxTask = "waiting" /\ rxTask' = "wait" /\ NetIfEvent' = NetIfEvent
  BY DEF EventWait, EventTimeout, RxStep, descVars, mboxVars
<1>2. PICK c \in 0..NUM_BUFF_RXDESCS : RxAt(c)
  BY DEF RxInv
<1>3. RxAt(c)'
  BY <1>1, <1>2, RxAtUntouched
<1>4. RxTypeInv'
  BY <1>1 DEF RxInv, RxTypeInv
<1>5. MailInv'
  BY <1>1 DEF RxInv, MailInv
<1> QED
  BY <1>3, <1>4, <1>5 DEF RxInv

LEMMA MboxClaimKeeps ==
  ASSUME RxInv, MboxClaim
  PROVE  RxInv'
<1>1. /\ UNCHANGED <<rxOwner, RxBuf, rxDMA, next_rx_index, wCount, wInIndex, wOutIndex, pBuffer,
                     FreeCntSema, NetIfEvent, bd, rxFrame, rxTaken, lapped, starved>>
      /\ rxTask = "claim" /\ rxTask' = (IF UsedCntSema # 0 THEN "take" ELSE "wait")
      /\ UsedCntSema' = IF UsedCntSema # 0 THEN UsedCntSema - 1 ELSE 0
  BY DEF MboxClaim, RxStep, descVars
<1>2. PICK c \in 0..NUM_BUFF_RXDESCS : RxAt(c)
  BY DEF RxInv
<1>3. RxAt(c)'
  BY <1>1, <1>2, RxAtUntouched
<1>4. wCount > 0 /\ UsedCntSema = wCount /\ wCount \in Nat
  BY <1>1, RxSizes DEF RxInv, MailInv, RxTypeInv
<1>5. rxTask' = "take" /\ UsedCntSema' = wCount - 1
  BY <1>1, <1>4
<1>6. RxTypeInv'
  BY <1>1, <1>5 DEF RxInv, RxTypeInv
<1>7. MailInv'
  BY <1>1, <1>4, <1>5 DEF RxInv, MailInv
<1> QED
  BY <1>3, <1>6, <1>7 DEF RxInv

\* The task that finds the mailbox empty waits; when nothing waits anywhere the frames
\* follow each other again from here on.
LEMMA MboxLookKeeps ==
  ASSUME RxInv, MboxLook
  PROVE  RxInv'
<1>1. /\ UNCHANGED <<rxOwner, RxBuf, rxDMA, next_rx_index, wCount, wInIndex, wOutIndex, pBuffer,
                     UsedCntSema, FreeCntSema, NetIfEvent, bd, rxFrame>>
      /\ rxTask = "input"
      /\ \/ wCount # 0 /\ rxTask' = "claim" /\ UNCHANGED <<rxTaken, lapped, starved>>
         \/ /\ wCount = 0 /\ rxTask' = "wait"
            /\ starved' = FALSE
            /\ \/ Unread = {} /\ lapped' = FALSE /\ rxTaken' = RxBefore(rxFrame)
               \/ UNCHANGED <<rxTaken, lapped>>
  BY DEF MboxLook, RxStep, descVars, mboxVars
<1> DEFINE size == NUM_BUFF_RXDESCS
<1>2. /\ size \in Nat \ {0} /\ RxDesc = 0..size - 1 /\ RxNumber = Number(size) /\ NULL \notin RxDesc
  BY RxSizes
<1>3. PICK c \in 0..NUM_BUFF_RXDESCS : RxAt(c)
  BY DEF RxInv
<1>4. /\ RxBefore(rxFrame) \in RxNumber /\ rxFrame = After(RxBefore(rxFrame), size)
  <2>1. rxFrame \in Number(size) /\ RxBefore(rxFrame) = (rxFrame - 1) % (size + 2)
    BY <1>2 DEF RxInv, RxTypeInv, RxBefore
  <2> HIDE DEF size
  <2> QED
    BY <1>2, <2>1, NumberTypes
<1>5. RxTypeInv'
  BY <1>1, <1>4 DEF RxInv, RxTypeInv
<1>6. MailInv'
  <2>1. wCount \in Nat
    BY <1>2 DEF RxInv, RxTypeInv
  <2> QED
    BY <1>1, <2>1 DEF RxInv, MailInv
<1>7. RxAt(c)'
  <2>1. CASE UNCHANGED <<rxTaken, lapped>>
    BY <1>1, <1>3, <2>1, RxAtUntouched
  <2>2. CASE /\ wCount = 0 /\ Unread = {} /\ lapped' = FALSE /\ rxTaken' = RxBefore(rxFrame)
    <3>1. bd = NULL /\ Completed = {}
      BY <2>2 DEF Unread
    <3>2. next_rx_index \in RxDesc /\ Ready(rxOwner, next_rx_index, rxDMA, c)
      BY <1>3 DEF RxInv, RxTypeInv, RxAt
    <3>3. c = 0
      <4>1. Completed = CompletedOf(rxOwner, next_rx_index)
        BY DEF Completed, CompletedOf
      <4>2. next_rx_index..next_rx_index + c - 1 = {}
        BY <3>1, <3>2, <4>1, ReadyIs
      <4>3. c # 0 => next_rx_index \in next_rx_index..next_rx_index + c - 1
        BY <1>2, <3>2
      <4> QED
        BY <4>2, <4>3
    <3>4. Reading' = 0 /\ wCount' = 0 /\ Reading' + wCount' + c = 0 /\ Reading' + wCount' = 0
      BY <1>1, <2>2, <3>1, <3>3 DEF Reading
    <3>5. Behind(next_rx_index, 0, size) = next_rx_index
      <4> HIDE DEF size
      <4> QED
        BY <1>2, <3>2, BehindZero
    <3>6. IsLine(rxTaken', RxBuf', next_rx_index', size, 0, rxFrame')
      BY <1>1, <1>4, <2>2, LineEmpty
    <3>7. 0..wCount' - 1 = {}
      BY <3>4
    <3>8. Order(next_rx_index, c)'
      BY <1>1, <1>2, <3>1, <3>4, <3>5, <3>6, <3>7 DEF Order
    <3>9. Ready(rxOwner, next_rx_index, rxDMA, c)'
      BY <1>1, <3>2 DEF Ready
    <3> QED
      BY <1>1, <3>2, <3>8, <3>9 DEF RxAt
  <2> QED
    BY <1>1, <2>1, <2>2
<1> QED
  BY <1>5, <1>6, <1>7 DEF RxInv
\* The oldest mail names the descriptor the task reads next.
LEMMA MboxTakeKeeps ==
  ASSUME RxInv, MboxTake
  PROVE  RxInv'
<1>1. /\ UNCHANGED <<rxOwner, RxBuf, rxDMA, next_rx_index, wInIndex, pBuffer,
                     UsedCntSema, NetIfEvent, rxFrame, rxTaken, lapped, starved>>
      /\ rxTask = "take" /\ rxTask' = "copy"
      /\ wCount' = wCount - 1
      /\ bd' = pBuffer[wOutIndex]
      /\ wOutIndex' = (wOutIndex + 1) % NUM_BUFF_RXDESCS
      /\ FreeCntSema' = FreeCntSema + 1
  BY DEF MboxTake, RxStep, descVars
<1> DEFINE size == NUM_BUFF_RXDESCS
<1>2. /\ size \in Nat \ {0} /\ RxDesc = 0..size - 1 /\ NULL \notin RxDesc
  BY RxSizes
<1>3. PICK c \in 0..NUM_BUFF_RXDESCS : RxAt(c)
  BY DEF RxInv
<1>4. RxTypeInv /\ MailInv
  BY DEF RxInv
<1>5. wCount \in 1..size /\ wOutIndex \in 0..size - 1 /\ UsedCntSema = wCount - 1 /\ bd = NULL
  BY <1>1, <1>2, <1>4 DEF RxTypeInv, MailInv
<1>6. wOutIndex' = Behind(wOutIndex, 1, size) /\ wOutIndex' \in 0..size - 1
  <2>1. wOutIndex' = Behind(wOutIndex, 1, size) /\ 1 \in 0..size
    BY <1>1, <1>2 DEF Behind
  <2> HIDE DEF size
  <2> QED
    BY <1>2, <1>5, <2>1, BehindSlot
\* The mails behind the first one.
<1>7. ASSUME NEW i \in 0..wCount - 2
      PROVE  Behind(wOutIndex', i, size) = Behind(wOutIndex, i + 1, size) /\ i + 1 \in 0..wCount - 1
  <2>1. i \in 0..size /\ 1 \in 0..size /\ 1 + i <= size /\ 1 + i = i + 1 /\ i + 1 \in 0..wCount - 1
    BY <1>2, <1>5
  <2> HIDE DEF size
  <2>2. Behind(Behind(wOutIndex, 1, size), i, size) = Behind(wOutIndex, 1 + i, size)
    BY <1>2, <1>5, <2>1, BehindSum
  <2> QED
    BY <1>6, <2>1, <2>2
<1>8. wInIndex = Behind(wOutIndex', wCount - 1, size)
  <2> DEFINE i == wCount - 1
  <2>1. i \in 0..size /\ 1 \in 0..size /\ 1 + i <= size /\ 1 + i = wCount
    BY <1>2, <1>5
  <2>2. wInIndex = Behind(wOutIndex, wCount, size)
    BY <1>4 DEF MailInv
  <2> HIDE DEF size, i
  <2>3. Behind(Behind(wOutIndex, 1, size), i, size) = Behind(wOutIndex, 1 + i, size)
    BY <1>2, <1>5, <2>1, BehindSum
  <2>4. wInIndex = Behind(wOutIndex', i, size)
    BY <1>6, <2>1, <2>2, <2>3
  <2> QED
    BY <2>4 DEF i
<1>9. Behind(wOutIndex, 0, size) = wOutIndex /\ 0 \in 0..wCount - 1
  <2>1. 0 \in 0..wCount - 1
    BY <1>5
  <2> HIDE DEF size
  <2> QED
    BY <1>2, <1>5, <2>1, BehindZero
<1>10. bd' \in RxDesc
  BY <1>1, <1>4, <1>9 DEF MailInv
<1>11. RxTypeInv'
  <2>1. wCount' \in 0..size
    BY <1>1, <1>2, <1>5
  <2> QED
    BY <1>1, <1>2, <1>4, <1>6, <1>10, <2>1 DEF RxTypeInv
<1>12. MailInv'
  <2>1. \A i \in 0..wCount' - 1 : i \in 0..wCount - 2
    BY <1>1, <1>5
  <2>2. \A i \in 0..wCount' - 1 : pBuffer'[Behind(wOutIndex', i, size)] \in RxDesc
    BY <1>1, <1>4, <1>7, <2>1 DEF MailInv
  <2>3. FreeCntSema' = size - wCount'
    BY <1>1, <1>2, <1>4, <1>5 DEF MailInv
  <2>4. bd' # NULL
    BY <1>2, <1>10
  <2>5. UsedCntSema' = wCount'
    BY <1>1, <1>5
  <2> QED
    BY <1>1, <1>8, <2>2, <2>3, <2>4, <2>5 DEF MailInv
<1>13. ASSUME NEW f \in RxDesc, Order(f, c) PROVE Order(f, c)'
  <2>1. Reading = 0 /\ Reading' = 1
    BY <1>2, <1>5, <1>10 DEF Reading
  <2>2. Reading' + wCount' = Reading + wCount /\ Reading' + wCount' + c = Reading + wCount + c
    BY <1>1, <1>5, <2>1
  <2>3. bd' = f
    <3>1. pBuffer[Behind(wOutIndex, 0, size)] = Behind(f, 0, size)
      <4>1. 0 + 0 = 0
        OBVIOUS
      <4> QED
        BY <1>9, <1>13, <2>1, <4>1 DEF Order
    <3>2. Behind(f, 0, size) = f
      <4> HIDE DEF size
      <4> QED
        BY <1>2, BehindZero
    <3> QED
      BY <1>1, <1>9, <3>1, <3>2
  <2>4. ASSUME NEW i \in 0..wCount' - 1
        PROVE  pBuffer'[Behind(wOutIndex', i, size)] = Behind(f, Reading' + i, size)
    <3>1. i \in 0..wCount - 2
      BY <1>1, <1>5
    <3>2. 0 + (i + 1) = 1 + i
      BY <3>1
    <3>3. pBuffer[Behind(wOutIndex, i + 1, size)] = Behind(f, Reading + (i + 1), size)
      BY <1>7, <1>13, <3>1 DEF Order
    <3> QED
      BY <1>1, <1>7, <2>1, <3>1, <3>2, <3>3
  <2>5. /\ Reading + wCount + c <= size
        /\ next_rx_index = Behind(f, Reading + wCount, size)
        /\ IsLine(rxTaken, RxBuf, f, size, Reading + wCount + c, rxFrame)
    BY <1>13 DEF Order
  <2> QED
    BY <1>1, <2>2, <2>3, <2>4, <2>5 DEF Order
<1>14. RxAt(c)'
  <2>1. Ready(rxOwner, next_rx_index, rxDMA, c)'
    BY <1>1, <1>3 DEF RxAt, Ready
  <2> QED
    BY <1>1, <1>3, <1>13, <2>1 DEF RxAt
<1> QED
  BY <1>11, <1>12, <1>14 DEF RxInv

\* The frame that was read is the last one taken.
LEMMA CopyFrameKeeps ==
  ASSUME RxInv, CopyFrame
  PROVE  RxInv'
<1>1. /\ UNCHANGED <<rxOwner, RxBuf, rxDMA, next_rx_index, wCount, wInIndex, wOutIndex, pBuffer,
                     UsedCntSema, FreeCntSema, NetIfEvent, rxFrame, lapped>>
      /\ rxTask = "copy"
      /\ \/ rxTask' = "input" /\ starved' = starved
         \/ rxTask' = "wait" /\ starved' = TRUE
      /\ rxTaken' = RxBuf[bd]
      /\ bd' = NULL
  BY DEF CopyFrame, RxStep, descVars, mboxVars
<1> DEFINE size == NUM_BUFF_RXDESCS
<1>2. /\ size \in Nat \ {0} /\ RxDesc = 0..size - 1 /\ NULL \notin RxDesc
  BY RxSizes
<1>3. PICK c \in 0..NUM_BUFF_RXDESCS : RxAt(c)
  BY DEF RxInv
<1>4. RxTypeInv /\ MailInv
  BY DEF RxInv
<1>5. bd \in RxDesc /\ bd # NULL /\ wCount \in Nat
  BY <1>1, <1>2, <1>4 DEF RxTypeInv, MailInv
<1>6. RxTypeInv'
  BY <1>1, <1>4, <1>5 DEF RxTypeInv
<1>7. MailInv'
  BY <1>1, <1>4 DEF MailInv
<1>8. ASSUME NEW f \in RxDesc, Order(f, c) PROVE Order(Behind(f, 1, size), c)'
  <2> DEFINE g == Behind(f, 1, size)
             k == wCount + c
  <2>1. Reading = 1 /\ Reading' = 0 /\ k \in Nat /\ Reading + wCount + c = k + 1
    BY <1>1, <1>2, <1>5 DEF Reading
  <2>2. /\ k + 1 <= size
        /\ next_rx_index = Behind(f, 1 + wCount, size)
        /\ bd = f
        /\ \A i \in 0..wCount - 1 :
             pBuffer[Behind(wOutIndex, i, size)] = Behind(f, 1 + i, size)
        /\ IsLine(rxTaken, RxBuf, f, size, k + 1, rxFrame)
    BY <1>5, <1>8, <2>1 DEF Order
  <2>3. ASSUME NEW a \in 0..wCount PROVE Behind(f, 1 + a, size) = Behind(g, a, size)
    <3>1. a \in 0..size /\ 1 \in 0..size /\ 1 + a <= size
      BY <1>2, <1>5, <2>2
    <3> HIDE DEF size
    <3> QED
      BY <1>2, <3>1, BehindSum
  <2>4. wCount \in 0..wCount /\ \A i \in 0..wCount - 1 : i \in 0..wCount
    BY <1>5
  <2>5. IsLine(RxBuf[f], RxBuf, g, size, k, rxFrame)
    <3> DEFINE n == k + 1
    <3>1. n \in 1..size /\ n - 1 = k
      BY <1>2, <2>1, <2>2
    <3> HIDE DEF n, size, k
    <3>2. IsLine(rxTaken, RxBuf, f, size, n, rxFrame)
      BY <2>2 DEF n
    <3>3. IsLine(RxBuf[f], RxBuf, Behind(f, 1, size), size, n - 1, rxFrame)
      BY <1>2, <3>1, <3>2, LineLeave
    <3> QED
      BY <3>1, <3>3
  <2>6. \A i \in 0..wCount - 1 : pBuffer[Behind(wOutIndex, i, size)] = Behind(g, i, size)
    BY <2>2, <2>3, <2>4
  <2>7. next_rx_index = Behind(g, wCount, size)
    BY <2>2, <2>3, <2>4
  <2>8. Reading' + wCount' = wCount /\ Reading' + wCount' + c = k /\ \A i \in 0..wCount - 1 : Reading' + i = i
    BY <1>1, <1>5, <2>1
  <2>9. k <= size
    BY <1>2, <2>1, <2>2
  <2> HIDE DEF g, k
  <2>10. Order(g, c)'
    BY <1>1, <2>2, <2>5, <2>6, <2>7, <2>8, <2>9 DEF Order
  <2> QED
    BY <2>10 DEF g
<1>9. ASSUME NEW f \in RxDesc PROVE Behind(f, 1, size) \in RxDesc
  <2>1. 1 \in 0..size
    BY <1>2
  <2> HIDE DEF size
  <2> QED
    BY <1>2, <2>1, BehindSlot
<1>10. RxAt(c)'
  <2>1. Ready(rxOwner, next_rx_index, rxDMA, c)'
    BY <1>1, <1>3 DEF RxAt, Ready
  <2> QED
    BY <1>1, <1>3, <1>8, <1>9, <2>1 DEF RxAt
<1> QED
  BY <1>6, <1>7, <1>10 DEF RxInv
\* The mails that are posted: the mailbox holds what it held, then the descriptors
\* from next_rx_index on.
WithMails(old, in, posted, next, size) ==
  [s \in 0..size - 1 |->
     LET ks == {k \in 0..posted - 1 : Behind(in, k, size) = s}
     IN  IF ks = {} THEN old[s] ELSE next + CHOOSE k \in ks : TRUE]

Fills(new, old, out, m, posted, next, size) ==
  /\ \A i \in 0..m - 1 : new[Behind(out, i, size)] = old[Behind(out, i, size)]
  /\ \A k \in 0..posted - 1 : new[Behind(out, m + k, size)] = next + k

LEMMA Posted ==
  ASSUME NEW size \in Nat \ {0}, NEW out \in 0..size - 1, NEW m \in 0..size,
         NEW posted \in 0..size, m + posted <= size, NEW old, NEW next \in Nat
  PROVE  Fills(WithMails(old, Behind(out, m, size), posted, next, size),
               old, out, m, posted, next, size)
<1> DEFINE in == Behind(out, m, size)
           new == WithMails(old, in, posted, next, size)
           ks(s) == {k \in 0..posted - 1 : Behind(in, k, size) = s}
<1>1. \A s \in 0..size - 1 : new[s] = IF ks(s) = {} THEN old[s] ELSE next + CHOOSE k \in ks(s) : TRUE
  BY DEF WithMails
<1>2. ASSUME NEW k \in 0..posted - 1
      PROVE  Behind(in, k, size) = Behind(out, m + k, size) /\ m + k \in 0..size - 1 /\ k \in 0..size
  <2>1. k \in 0..size /\ m + k <= size /\ m + k \in 0..size - 1
    OBVIOUS
  <2> QED
    BY <2>1, BehindSum
<1>3. ASSUME NEW a \in 0..size - 1 PROVE Behind(out, a, size) \in 0..size - 1
  <2>1. a \in 0..size
    OBVIOUS
  <2> QED
    BY <2>1, BehindSlot
<1>4. ASSUME NEW i \in 0..m - 1 PROVE new[Behind(out, i, size)] = old[Behind(out, i, size)]
  <2>1. i \in 0..size - 1
    OBVIOUS
  <2>2. ASSUME NEW k \in 0..posted - 1 PROVE Behind(in, k, size) # Behind(out, i, size)
    <3>1. m + k \in 0..size - 1 /\ m + k # i
      BY <1>2
    <3> DEFINE b == m + k
    <3>2. Behind(in, k, size) = Behind(out, b, size)
      BY <1>2
    <3>3. b \in 0..size - 1 /\ b # i
      BY <3>1
    <3> HIDE DEF b
    <3> QED
      BY <2>1, <3>2, <3>3, BehindDiffer
  <2>3. ks(Behind(out, i, size)) = {}
    BY <2>2
  <2> QED
    BY <1>1, <1>3, <2>1, <2>3
<1>5. ASSUME NEW k \in 0..posted - 1 PROVE new[Behind(out, m + k, size)] = next + k
  <2> DEFINE s == Behind(out, m + k, size)
  <2>1. s \in 0..size - 1
    BY <1>2, <1>3
  <2>2. ASSUME NEW j \in 0..posted - 1, j # k PROVE Behind(in, j, size) # s
    <3> DEFINE a == m + j
               b == m + k
    <3>1. a \in 0..size - 1 /\ b \in 0..size - 1 /\ a # b
      BY <1>2, <2>2
    <3>2. Behind(in, j, size) = Behind(out, a, size) /\ s = Behind(out, b, size)
      BY <1>2
    <3> HIDE DEF a, b, s
    <3> QED
      BY <3>1, <3>2, BehindDiffer
  <2>3. Behind(in, k, size) = s
    BY <1>2
  <2> HIDE DEF s
  <2>4. ks(s) = {k}
    BY <2>2, <2>3
  <2>5. (CHOOSE j \in {k} : TRUE) = k
    OBVIOUS
  <2> HIDE DEF ks
  <2>6. new[s] = next + k
    BY <1>1, <2>1, <2>4, <2>5
  <2> QED
    BY <2>6 DEF s
<1> QED
  BY <1>4, <1>5 DEF Fills
\* The handler empties the descriptors into the mailbox.  What finds no place there
\* is lost, which happens only after a frame was overwritten.
LEMMA RxInterruptKeeps ==
  ASSUME RxInv, cpsw_rx_inthandler
  PROVE  RxInv'
<1>1. PICK c \in 0..NUM_BUFF_RXDESCS : RxAt(c)
  BY DEF RxInv
<1> DEFINE size == NUM_BUFF_RXDESCS
           m == wCount
           posted == MailsPosted(c)
           next == next_rx_index
<1>2. /\ size \in Nat \ {0} /\ RxDesc = 0..size - 1 /\ NULL \notin RxDesc
  BY RxSizes
<1>3. RxTypeInv /\ MailInv /\ Ready(rxOwner, next, rxDMA, c)
  BY <1>1 DEF RxInv, RxAt
<1>4. next \in 0..size - 1 /\ m \in 0..size /\ wOutIndex \in 0..size - 1 /\ wInIndex \in 0..size - 1
  BY <1>2, <1>3 DEF RxTypeInv
<1>5. next + c <= size /\ Completed = next..next + c - 1 /\ Cardinality(Completed) = c
  <2>1. Completed = CompletedOf(rxOwner, next)
    BY DEF Completed, CompletedOf
  <2> QED
    BY <1>2, <1>3, <1>4, <2>1, ReadyIs DEF Ready
<1>6. /\ posted \in 0..size /\ posted <= c /\ m + posted <= size
      /\ m + c <= size => posted = c
  BY <1>2, <1>4, <1>5 DEF MailsPosted
<1>7. /\ rxOwner' = [d \in RxDesc |-> rxOwner[d] \/ d \in Completed]
      /\ next' = (IF size - 1 \in Completed THEN 0 ELSE next + c)
      /\ rxDMA' = (IF size - 1 \in Completed THEN 0 ELSE rxDMA)
      /\ SetRxEvent
      /\ UNCHANGED <<RxBuf, bd, rxFrame, rxTaken, lapped, starved, wOutIndex>>
      /\ wCount' = m + posted
      /\ wInIndex' = Behind(wInIndex, posted, size)
      /\ pBuffer' = WithMails(pBuffer, wInIndex, posted, next, size)
      /\ UsedCntSema' = UsedCntSema + posted
      /\ FreeCntSema' = FreeCntSema - posted
  <2>1. MboxPostFromInt(c)
    BY <1>5 DEF cpsw_rx_inthandler
  <2>2. /\ wCount' = m + posted
        /\ wInIndex' = Behind(wInIndex, posted, size)
        /\ pBuffer' = WithMails(pBuffer, wInIndex, posted, next, size)
        /\ UsedCntSema' = UsedCntSema + posted
        /\ FreeCntSema' = FreeCntSema - posted
        /\ UNCHANGED wOutIndex
    BY <1>2, <2>1 DEF MboxPostFromInt, Behind, WithMails
  <2> HIDE DEF posted, size, next
  <2> QED
    BY <1>5, <2>2 DEF cpsw_rx_inthandler, size, next
<1>8. size - 1 \in Completed <=> c > 0 /\ next + c = size
  BY <1>2, <1>4, <1>5
<1>9. next' = Behind(next, c, size) /\ next' \in RxDesc
  <2>1. Behind(next, c, size) = IF next + c < size THEN next + c ELSE next + c - size
    <3> HIDE DEF size
    <3> QED
      BY <1>2, <1>4, BehindIs DEF size
  <2> QED
    BY <1>2, <1>4, <1>5, <1>7, <1>8, <2>1
<1>10. Ready(rxOwner', next', rxDMA', 0)
  <2>1. \A d \in RxDesc : rxOwner'[d]
    <3> SUFFICES ASSUME NEW d \in RxDesc PROVE rxOwner'[d]
      OBVIOUS
    <3>1. rxOwner[d] <=> d < next \/ d >= next + c
      BY <1>3 DEF Ready
    <3>2. d \in Completed <=> ~(d < next \/ d >= next + c)
      BY <1>2, <1>4, <1>5
    <3> QED
      BY <1>7, <3>1, <3>2
  <2>2. rxDMA' = next'
    <3>1. rxDMA = IF next + c < size THEN next + c ELSE NULL
      BY <1>3 DEF Ready
    <3>2. CASE size - 1 \in Completed
      BY <1>7, <3>2
    <3>3. CASE size - 1 \notin Completed
      <4>1. next + c < size
        BY <1>2, <1>4, <1>5, <1>8, <3>3
      <4> QED
        BY <1>7, <3>1, <3>3, <4>1
    <3> QED
      BY <3>2, <3>3
  <2> DEFINE n == next'
  <2>3. n \in 0..size - 1
    BY <1>2, <1>9
  <2>4. rxDMA' = n
    BY <2>2
  <2> HIDE DEF n, next
  <2>5. n + 0 = n /\ n < size /\ n <= size /\ \A d \in RxDesc : d < n \/ d >= n
    BY <1>2, <2>3
  <2>6. Ready(rxOwner', n, rxDMA', 0)
    BY <2>1, <2>4, <2>5 DEF Ready
  <2> QED
    BY <2>6 DEF n
<1>11. wInIndex = Behind(wOutIndex, m, size) /\ wInIndex' = Behind(wOutIndex, m + posted, size)
       /\ wInIndex' \in 0..size - 1
  <2>1. wInIndex = Behind(wOutIndex, m, size)
    BY <1>3 DEF MailInv
  <2>2. m + posted \in 0..size
    BY <1>4, <1>6
  <2> DEFINE p == m + posted
  <2> HIDE DEF size, posted, p
  <2>3. Behind(Behind(wOutIndex, m, size), posted, size) = Behind(wOutIndex, m + posted, size)
    BY <1>2, <1>4, <1>6, BehindSum
  <2>4. Behind(wOutIndex, p, size) \in 0..size - 1
    BY <1>2, <1>4, <2>2, BehindSlot DEF p
  <2> QED
    BY <1>7, <2>1, <2>3, <2>4 DEF p
<1>12. /\ \A i \in 0..m - 1 : pBuffer'[Behind(wOutIndex, i, size)] = pBuffer[Behind(wOutIndex, i, size)]
       /\ \A k \in 0..posted - 1 : pBuffer'[Behind(wOutIndex, m + k, size)] = next + k
  <2>1. next \in Nat
    BY <1>4
  <2> DEFINE old == pBuffer
             new == pBuffer'
  <2>2. new = WithMails(old, wInIndex, posted, next, size)
    BY <1>7
  <2> HIDE DEF old, new, size, posted, m, next
  <2>3. new = WithMails(old, Behind(wOutIndex, m, size), posted, next, size)
    BY <1>11, <2>2
  <2>4. m + posted <= size /\ posted \in 0..size /\ m \in 0..size /\ wOutIndex \in 0..size - 1
    BY <1>4, <1>6
  <2>5. Fills(WithMails(old, Behind(wOutIndex, m, size), posted, next, size),
              old, wOutIndex, m, posted, next, size)
    BY <1>2, <2>1, <2>4, Posted
  <2> QED
    BY <2>3, <2>5 DEF Fills, old, new
<1>13. \A k \in 0..posted - 1 : next + k \in RxDesc /\ next + k < size
  BY <1>2, <1>4, <1>5, <1>6
\* The mails are those from before and the new ones.
<1>14. \A i \in 0..wCount' - 1 : i \in 0..m - 1 \/ \E k \in 0..posted - 1 : i = m + k
  <2> SUFFICES ASSUME NEW i \in 0..wCount' - 1, i \notin 0..m - 1
               PROVE  \E k \in 0..posted - 1 : i = m + k
    OBVIOUS
  <2>1. i - m \in 0..posted - 1 /\ i = m + (i - m)
    BY <1>4, <1>6, <1>7
  <2> QED
    BY <2>1
<1>15. RxTypeInv'
  <2>1. pBuffer' \in [RxDesc -> RxDesc \cup {NULL}]
    <3> DEFINE ks(s) == {k \in 0..posted - 1 : Behind(wInIndex, k, size) = s}
               q(s) == IF ks(s) = {} THEN pBuffer[s] ELSE next + CHOOSE k \in ks(s) : TRUE
    <3>1. pBuffer' = [s \in RxDesc |-> q(s)]
      BY <1>2, <1>7 DEF WithMails
    <3>2. ASSUME NEW s \in RxDesc PROVE q(s) \in RxDesc \cup {NULL}
      <4>1. CASE ks(s) = {}
        BY <1>3, <4>1 DEF RxTypeInv
      <4>2. CASE ks(s) # {}
        <5>1. (CHOOSE k \in ks(s) : TRUE) \in ks(s)
          BY <4>2
        <5>2. ks(s) \subseteq 0..posted - 1
          OBVIOUS
        <5> HIDE DEF ks, posted
        <5> QED
          BY <1>13, <4>2, <5>1, <5>2
      <4> QED
        BY <4>1, <4>2
    <3> HIDE DEF q
    <3> QED
      BY <3>1, <3>2
  <2>2. rxOwner' \in [RxDesc -> BOOLEAN]
    <3>1. \A d \in RxDesc : (rxOwner[d] \/ d \in Completed) \in BOOLEAN
      OBVIOUS
    <3> QED
      BY <1>7, <3>1
  <2>3. wCount' \in 0..size
    BY <1>4, <1>6, <1>7
  <2>4. rxTask' \in {"wait", "waiting", "input", "claim", "take", "copy"} /\ NetIfEvent' \in BOOLEAN
    BY <1>3, <1>7 DEF SetRxEvent, RxTypeInv
  <2> HIDE DEF next
  <2> QED
    BY <1>2, <1>3, <1>7, <1>9, <1>11, <2>1, <2>2, <2>3, <2>4 DEF RxTypeInv, next
<1>16. MailInv'
  <2>1. wInIndex' = Behind(wOutIndex', wCount', size)
    BY <1>7, <1>11
  <2>2. \A i \in 0..wCount' - 1 : pBuffer'[Behind(wOutIndex', i, size)] \in RxDesc
    <3>1. \A i \in 0..m - 1 : pBuffer[Behind(wOutIndex, i, size)] \in RxDesc
      BY <1>3 DEF MailInv
    <3>2. wOutIndex' = wOutIndex
      BY <1>7
    <3> HIDE DEF posted, m, next, size
    <3>3. ASSUME NEW i \in 0..wCount' - 1
          PROVE  pBuffer'[Behind(wOutIndex, i, size)] \in RxDesc
      <4>1. CASE i \in 0..m - 1
        BY <1>12, <3>1, <4>1
      <4>2. ASSUME NEW k \in 0..posted - 1, i = m + k
            PROVE  pBuffer'[Behind(wOutIndex, i, size)] \in RxDesc
        BY <1>12, <1>13, <4>2
      <4> QED
        BY <1>14, <4>1, <4>2
    <3> QED
      BY <3>2, <3>3
  <2>3. FreeCntSema' = size - wCount'
    <3>1. FreeCntSema = size - m
      BY <1>3 DEF MailInv
    <3> QED
      BY <1>2, <1>4, <1>6, <1>7, <3>1
  <2>4. rxTask' = "take" <=> rxTask = "take"
    BY <1>7 DEF SetRxEvent
  <2>5. UsedCntSema' = IF rxTask' = "take" THEN wCount' - 1 ELSE wCount'
    <3>1. UsedCntSema = IF rxTask = "take" THEN m - 1 ELSE m
      BY <1>3 DEF MailInv
    <3> QED
      BY <1>4, <1>6, <1>7, <2>4, <3>1
  <2>6. rxTask' \in {"claim", "take"} => wCount' > 0
    <3>1. rxTask' \in {"claim", "take"} => m > 0
      BY <1>3, <1>7 DEF SetRxEvent, MailInv
    <3> QED
      BY <1>4, <1>6, <1>7, <3>1
  <2>7. bd' = NULL <=> rxTask' # "copy"
    BY <1>3, <1>7 DEF SetRxEvent, MailInv
  <2>8. rxTask' \in {"wait", "waiting"} => NetIfEvent' /\ rxTask' = "wait"
    BY <1>7 DEF SetRxEvent
  <2> QED
    BY <2>1, <2>2, <2>3, <2>5, <2>6, <2>7, <2>8 DEF MailInv
<1>17. ASSUME NEW f \in RxDesc, Order(f, c) PROVE Order(f, 0)'
  <2>1. /\ Reading + m + c <= size /\ next = Behind(f, Reading + m, size)
        /\ bd # NULL => bd = f
        /\ \A i \in 0..m - 1 : pBuffer[Behind(wOutIndex, i, size)] = Behind(f, Reading + i, size)
        /\ IsLine(rxTaken, RxBuf, f, size, Reading + m + c, rxFrame)
    BY <1>17 DEF Order
  <2>2. Reading \in 0..1 /\ Reading' = Reading
    <3>1. bd' = bd
      BY <1>7
    <3> QED
      BY <3>1 DEF Reading
  <2>3. posted = c /\ wCount' = m + c
    <3>1. m + c <= size
      BY <1>2, <1>4, <2>1, <2>2
    <3>2. posted = c
      BY <1>6, <3>1
    <3> QED
      BY <1>7, <3>2
  <2>4. Reading + (m + c) + 0 = Reading + m + c /\ Reading + (m + c) = Reading + m + c
    BY <1>4, <2>2
  <2> DEFINE b == Reading + m
  <2>5. b \in 0..size /\ b + c <= size
    BY <1>2, <1>4, <2>1, <2>2
  <2>6. ASSUME NEW a \in 0..c PROVE Behind(next, a, size) = Behind(f, b + a, size)
    <3>1. a \in 0..size /\ b + a <= size
      BY <1>2, <2>5
    <3> HIDE DEF b, size, next
    <3> QED
      BY <1>2, <2>1, <2>5, <3>1, BehindSum DEF b
  <2>7. next' = Behind(f, Reading + wCount', size)
    <3>1. c \in 0..c
      BY <1>2
    <3> QED
      BY <1>9, <2>3, <2>4, <2>6, <3>1
  <2>8. ASSUME NEW i \in 0..wCount' - 1
        PROVE  pBuffer'[Behind(wOutIndex, i, size)] = Behind(f, Reading + i, size)
    <3>1. CASE i \in 0..m - 1
      BY <1>12, <2>1, <3>1
    <3>2. ASSUME NEW k \in 0..posted - 1, i = m + k
          PROVE  pBuffer'[Behind(wOutIndex, i, size)] = Behind(f, Reading + i, size)
      <4>1. pBuffer'[Behind(wOutIndex, i, size)] = next + k
        BY <1>12, <3>2
      <4>2. next + k < size /\ k \in 0..c /\ k \in 0..size
        BY <1>2, <1>13, <2>3
      <4>3. Behind(next, k, size) = next + k
        <5> HIDE DEF size, next
        <5> QED
          BY <1>2, <1>4, <4>2, BehindIs
      <4>4. b + k = Reading + i
        BY <1>4, <2>2, <3>2
      <4> QED
        BY <2>6, <4>1, <4>2, <4>3, <4>4
    <3> HIDE DEF posted
    <3> QED
      BY <1>14, <3>1, <3>2
  <2> HIDE DEF next
  <2> QED
    BY <1>7, <2>1, <2>2, <2>3, <2>4, <2>7, <2>8 DEF Order, next
<1>18. RxAt(0)'
  <2>1. lapped' = lapped
    BY <1>7
  <2> QED
    BY <1>1, <1>10, <1>17, <2>1 DEF RxAt
<1>19. 0 \in 0..size
  BY <1>2
<1> QED
  BY <1>15, <1>16, <1>18, <1>19 DEF RxInv
-----------------------------------------------------------------------------
(* What the run checks follows from the invariant.                           *)

\* Sequences one behind the other.
LEMMA TwoParts ==
  ASSUME NEW S, NEW a \in Seq(S), NEW b \in Seq(S)
  PROVE  /\ a \o b \in Seq(S) /\ Len(a \o b) = Len(a) + Len(b)
         /\ \A i \in 1..Len(a) : (a \o b)[i] = a[i]
         /\ \A i \in 1..Len(b) : (a \o b)[Len(a) + i] = b[i]
  OBVIOUS

Parts(s, a, b, c) ==
  /\ Len(s) = Len(a) + Len(b) + Len(c)
  /\ \A i \in 1..Len(a) : s[i] = a[i]
  /\ \A i \in 1..Len(b) : s[Len(a) + i] = b[i]
  /\ \A i \in 1..Len(c) : s[Len(a) + Len(b) + i] = c[i]

LEMMA ThreeParts ==
  ASSUME NEW S, NEW a \in Seq(S), NEW b \in Seq(S), NEW c \in Seq(S)
  PROVE  Parts(a \o b \o c, a, b, c)
<1> DEFINE front == a \o b
           s == front \o c
<1>1. /\ front \in Seq(S) /\ Len(front) = Len(a) + Len(b) /\ Len(a) \in Nat /\ Len(b) \in Nat
      /\ \A i \in 1..Len(a) : front[i] = a[i]
      /\ \A i \in 1..Len(b) : front[Len(a) + i] = b[i]
  BY TwoParts
<1> HIDE DEF front
<1>2. /\ Len(s) = Len(front) + Len(c)
      /\ \A i \in 1..Len(front) : s[i] = front[i]
      /\ \A i \in 1..Len(c) : s[Len(front) + i] = c[i]
  <2>1. front \in Seq(S)
    BY <1>1
  <2> QED
    BY <2>1, TwoParts
<1>3. /\ \A i \in 1..Len(a) : i \in 1..Len(front)
      /\ \A i \in 1..Len(b) : Len(a) + i \in 1..Len(front)
  BY <1>1
<1> HIDE DEF s
<1>4. Parts(s, a, b, c)
  BY <1>1, <1>2, <1>3 DEF Parts
<1> QED
  BY <1>4 DEF s, front

\* A function on 1..n is a sequence of n elements.
LEMMA IsSequence ==
  ASSUME NEW S, NEW n \in Nat, NEW s \in [1..n -> S]
  PROVE  s \in Seq(S) /\ Len(s) = n
  OBVIOUS

LEMMA RxInOrder ==
  ASSUME RxInv
  PROVE  RxFramesInOrder
<1> SUFFICES ASSUME ~lapped PROVE RxFramesInOrder
  BY DEF RxFramesInOrder
<1>1. PICK c \in 0..NUM_BUFF_RXDESCS : RxAt(c)
  BY DEF RxInv
<1>2. PICK f \in RxDesc : Order(f, c)
  BY <1>1 DEF RxAt
<1> DEFINE size == NUM_BUFF_RXDESCS
           m == wCount
           next == next_rx_index
           r == Reading
           t == r + m + c
           hand == IF bd = NULL THEN <<>> ELSE <<bd>>
           done == [i \in 1..c |-> next + i - 1]
           waits == hand \o Mails \o done
           mid == [i \in 1..Len(waits) |-> RxBuf[waits[i]]]
           frames == <<rxTaken>> \o mid \o <<rxFrame>>
<1>3. /\ size \in Nat \ {0} /\ RxDesc = 0..size - 1 /\ RxNumber = Number(size) /\ NULL \notin RxDesc
  BY RxSizes
<1>4. RxTypeInv /\ MailInv /\ Ready(rxOwner, next, rxDMA, c)
  BY <1>1 DEF RxInv, RxAt
<1>5. /\ next \in 0..size - 1 /\ m \in 0..size /\ c \in 0..size /\ wOutIndex \in 0..size - 1
      /\ r \in 0..1 /\ t \in Nat /\ f \in 0..size - 1 /\ next + c <= size
  BY <1>3, <1>4 DEF RxTypeInv, Reading, Ready
<1>6. /\ t <= size /\ next = Behind(f, r + m, size)
      /\ bd # NULL => bd = f
      /\ \A i \in 0..m - 1 : pBuffer[Behind(wOutIndex, i, size)] = Behind(f, r + i, size)
      /\ IsLine(rxTaken, RxBuf, f, size, t, rxFrame)
  BY <1>2 DEF Order
<1>7. RxFramesInOrder <=> \A i \in 1..Len(frames) - 1 : frames[i + 1] = RxAfter(frames[i])
  <2>1. Completed = CompletedOf(rxOwner, next)
    BY DEF Completed, CompletedOf
  <2>2. Cardinality(Completed) = c
    BY <1>3, <1>4, <1>5, <2>1, ReadyIs
  <2> QED
    BY <2>2 DEF RxFramesInOrder
<1>8. ASSUME NEW a \in 0..size - 1 PROVE Behind(f, a, size) \in RxDesc
  <2>1. a \in 0..size
    BY <1>3
  <2> HIDE DEF size
  <2> QED
    BY <1>3, <1>5, <2>1, BehindSlot
\* The three parts of the line of descriptors.
<1>9. /\ hand \in Seq(RxDesc) /\ Len(hand) = r
      /\ \A i \in 1..r : hand[i] = Behind(f, i - 1, size)
  <2>1. CASE bd = NULL
    BY <2>1 DEF Reading
  <2>2. CASE bd # NULL
    <3>1. hand = <<f>> /\ r = 1
      BY <1>6, <2>2 DEF Reading
    <3>2. Behind(f, 0, size) = f
      <4> HIDE DEF size
      <4> QED
        BY <1>3, <1>5, BehindZero
    <3>3. \A i \in 1..1 : i = 1 /\ i - 1 = 0
      OBVIOUS
    <3> HIDE DEF hand, r
    <3> QED
      BY <3>1, <3>2, <3>3
  <2> QED
    BY <2>1, <2>2
<1>10. /\ Mails \in Seq(RxDesc) /\ Len(Mails) = m
       /\ \A i \in 1..m : Mails[i] = Behind(f, r + i - 1, size)
  <2>1. ASSUME NEW i \in 1..m
        PROVE  Mails[i] = Behind(f, r + i - 1, size) /\ Mails[i] \in RxDesc
    <3>1. i - 1 \in 0..m - 1 /\ r + (i - 1) = r + i - 1 /\ r + i - 1 \in 0..size - 1
      BY <1>3, <1>5, <1>6
    <3>2. Mails[i] = pBuffer[Behind(wOutIndex, i - 1, size)]
      BY <1>4, MailIs
    <3> QED
      BY <1>6, <1>8, <3>1, <3>2
  <2>2. Mails = [i \in 1..m |-> Mails[i]]
    BY DEF Mails
  <2>3. Mails \in [1..m -> RxDesc] /\ m \in Nat
    BY <1>3, <1>5, <2>1, <2>2
  <2> HIDE DEF m
  <2>4. Mails \in Seq(RxDesc) /\ Len(Mails) = m
    BY <2>3, IsSequence
  <2> QED
    BY <2>1, <2>4
<1>11. /\ done \in Seq(RxDesc) /\ Len(done) = c
       /\ \A i \in 1..c : done[i] = Behind(f, r + m + i - 1, size)
  <2>1. ASSUME NEW i \in 1..c
        PROVE  next + i - 1 = Behind(f, r + m + i - 1, size) /\ next + i - 1 \in RxDesc
    <3> DEFINE k == r + m
               j == i - 1
    <3>1. /\ k \in 0..size /\ j \in 0..size /\ k + j <= size
          /\ next + j < size /\ next + j = next + i - 1 /\ k + j = r + m + i - 1
          /\ next + i - 1 \in RxDesc
      BY <1>3, <1>5, <1>6
    <3>2. next = Behind(f, k, size)
      BY <1>6
    <3> HIDE DEF k, j, size, next
    <3>3. Behind(next, j, size) = next + j
      BY <1>3, <1>5, <3>1, BehindIs
    <3>4. Behind(Behind(f, k, size), j, size) = Behind(f, k + j, size)
      BY <1>3, <1>5, <3>1, BehindSum
    <3> QED
      BY <3>1, <3>2, <3>3, <3>4
  <2>2. done \in [1..c -> RxDesc] /\ c \in Nat
    BY <1>3, <2>1
  <2>3. \A i \in 1..c : done[i] = next + i - 1
    OBVIOUS
  <2> HIDE DEF done
  <2>4. done \in Seq(RxDesc) /\ Len(done) = c
    BY <2>2, IsSequence
  <2> QED
    BY <2>1, <2>3, <2>4
<1> HIDE DEF hand, done, waits
<1>12. /\ Len(waits) = t
       /\ \A i \in 1..t : waits[i] = Behind(f, i - 1, size)
  <2>1. waits = hand \o Mails \o done
    BY DEF waits
  <2>2. /\ Len(waits) = Len(hand) + Len(Mails) + Len(done)
        /\ \A i \in 1..Len(hand) : waits[i] = hand[i]
        /\ \A i \in 1..Len(Mails) : waits[Len(hand) + i] = Mails[i]
        /\ \A i \in 1..Len(done) : waits[Len(hand) + Len(Mails) + i] = done[i]
    <3>1. Parts(hand \o Mails \o done, hand, Mails, done)
      BY <1>9, <1>10, <1>11, ThreeParts
    <3> QED
      BY <2>1, <3>1 DEF Parts
  <2>3. Len(waits) = t
    BY <1>9, <1>10, <1>11, <2>2
  <2>4. ASSUME NEW i \in 1..t PROVE waits[i] = Behind(f, i - 1, size)
    <3> HIDE DEF r, m, size
    <3>1. CASE i \in 1..r
      BY <1>9, <2>2, <3>1
    <3>2. ASSUME NEW j \in 1..m, i = r + j PROVE waits[i] = Behind(f, i - 1, size)
      BY <1>9, <1>10, <2>2, <3>2
    <3>3. ASSUME NEW j \in 1..c, i = r + m + j PROVE waits[i] = Behind(f, i - 1, size)
      BY <1>9, <1>10, <1>11, <2>2, <3>3
    <3>4. CASE i \notin 1..r /\ i <= r + m
      <4>1. i - r \in 1..m /\ i = r + (i - r)
        BY <1>5, <3>4
      <4> QED
        BY <3>2, <4>1
    <3>5. CASE i > r + m
      <4>1. i - (r + m) \in 1..c /\ i = r + m + (i - (r + m))
        BY <1>5, <3>5
      <4> QED
        BY <3>3, <4>1
    <3>6. i <= r + m \/ i > r + m
      BY <1>5
    <3> QED
      BY <3>1, <3>4, <3>5, <3>6
  <2> QED
    BY <2>3, <2>4
<1>13. Reads(mid, RxBuf, f, size, t)
  <2>1. \A i \in 1..t : mid[i] = RxBuf[Behind(f, i - 1, size)]
    BY <1>12
  <2>2. \A i \in 1..t : RxBuf[Behind(f, i - 1, size)] \in Number(size)
    <3> SUFFICES ASSUME NEW i \in 1..t PROVE RxBuf[Behind(f, i - 1, size)] \in Number(size)
      OBVIOUS
    <3>1. i - 1 \in 0..size - 1
      BY <1>3, <1>5, <1>6
    <3>2. Behind(f, i - 1, size) \in RxDesc
      BY <1>8, <3>1
    <3> QED
      BY <1>3, <1>4, <3>2 DEF RxTypeInv
  <2>3. mid \in [1..t -> Number(size)]
    <3>1. mid = [i \in 1..t |-> RxBuf[waits[i]]]
      BY <1>12
    <3> HIDE DEF mid, t
    <3> QED
      BY <1>12, <2>2, <3>1
  <2> HIDE DEF mid, t, size
  <2>4. mid \in Seq(Number(size)) /\ Len(mid) = t
    BY <1>5, <2>3, IsSequence
  <2> QED
    BY <2>1, <2>4 DEF Reads
<1>14. Follow(Row(rxTaken, mid, rxFrame), size)
  <2>1. rxTaken \in Number(size) /\ rxFrame \in Number(size)
    BY <1>3, <1>4 DEF RxTypeInv
  <2> HIDE DEF mid, t, size
  <2> QED
    BY <1>3, <1>5, <1>6, <1>13, <2>1, LineSequence
<1>15. frames = Row(rxTaken, mid, rxFrame)
  BY DEF Row
<1>16. \A v : RxAfter(v) = After(v, size)
  BY DEF RxAfter, After, size
<1> HIDE DEF frames
<1> QED
  BY <1>7, <1>14, <1>15, <1>16 DEF Follow
-----------------------------------------------------------------------------
(* The interface.                                                            *)

LEMMA RxInitially ==
  ASSUME NicInit
  PROVE  RxInv
<1> DEFINE size == NUM_BUFF_RXDESCS
<1>1. /\ size \in Nat \ {0} /\ RxDesc = 0..size - 1 /\ RxNumber = Number(size) /\ NULL \notin RxDesc
      /\ 0 \in RxDesc
  BY RxSizes
<1>2. /\ rxOwner = [d \in RxDesc |-> TRUE] /\ RxBuf = [d \in RxDesc |-> 0]
      /\ rxDMA = 0 /\ next_rx_index = 0
      /\ wCount = 0 /\ wInIndex = 0 /\ wOutIndex = 0
      /\ pBuffer = [s \in RxDesc |-> NULL]
      /\ UsedCntSema = 0 /\ FreeCntSema = size
      /\ NetIfEvent = FALSE /\ rxTask = "wait" /\ bd = NULL
      /\ rxFrame = 1 /\ rxTaken = 0 /\ lapped = FALSE /\ starved = FALSE
  BY DEF NicInit
<1>3. 0 \in RxNumber /\ 1 \in RxNumber
  BY <1>1 DEF Number
<1>4. RxTypeInv
  <2>1. 0 \in 0..size
    BY <1>1
  <2> QED
    BY <1>1, <1>2, <1>3, <2>1 DEF RxTypeInv
<1>5. Behind(0, 0, size) = 0 /\ 0..0 - 1 = {} /\ size - 0 = size
  <2>1. 0..0 - 1 = {} /\ size - 0 = size
    BY <1>1
  <2> HIDE DEF size
  <2> QED
    BY <1>1, <2>1, BehindZero
<1>6. MailInv
  BY <1>2, <1>5 DEF MailInv
<1>7. Ready(rxOwner, next_rx_index, rxDMA, 0)
  <2>1. 0 + 0 = 0 /\ 0 < size /\ 0 <= size /\ \A d \in RxDesc : d >= 0
    BY <1>1
  <2> QED
    BY <1>2, <2>1 DEF Ready
<1>8. Order(0, 0)
  <2>1. Reading = 0
    BY <1>2 DEF Reading
  <2>2. rxFrame = After(rxTaken, size)
    <3>1. 1 \in Nat /\ size + 2 \in Nat \ {0} /\ 1 < size + 2
      BY <1>1
    <3> HIDE DEF size
    <3>2. 1 % (size + 2) = 1
      BY <3>1
    <3> QED
      BY <1>2, <3>2 DEF After
  <2>3. IsLine(rxTaken, RxBuf, 0, size, 0, rxFrame)
    BY <2>2, LineEmpty
  <2>4. 0 + 0 = 0 /\ 0 <= size
    BY <1>1
  <2> QED
    BY <1>2, <1>5, <2>1, <2>3, <2>4 DEF Order
<1>9. RxAt(0) /\ 0 \in 0..size
  BY <1>1, <1>7, <1>8 DEF RxAt
<1> QED
  BY <1>4, <1>6, <1>9 DEF RxInv

\* The transmit side does not touch reception.
LEMMA RxUntouched ==
  ASSUME RxInv, UNCHANGED rxVars
  PROVE  RxInv'
<1>1. PICK c \in 0..NUM_BUFF_RXDESCS : RxAt(c)
  BY DEF RxInv
<1>2. UNCHANGED <<rxOwner, RxBuf, rxDMA, next_rx_index, wCount, wInIndex, wOutIndex, pBuffer,
                  UsedCntSema, FreeCntSema, NetIfEvent, rxTask, bd, rxFrame, rxTaken,
                  lapped, starved>>
  BY DEF rxVars, descVars, mboxVars
<1>3. RxAt(c)'
  BY <1>1, <1>2, RxAtUntouched
<1>4. RxTypeInv'
  BY <1>2 DEF RxInv, RxTypeInv
<1>5. MailInv'
  BY <1>2 DEF RxInv, MailInv
<1> QED
  BY <1>3, <1>4, <1>5 DEF RxInv

LEMMA NicStep ==
  ASSUME NicInv, [NicNext]_nicVars
  PROVE  NicInv'
<1>1. RxInv /\ TxInv
  BY DEF NicInv
<1>2. ASSUME FrameArrives PROVE NicInv'
  <2>1. UNCHANGED txVars
    BY <1>2 DEF FrameArrives
  <2> QED
    BY <1>1, <1>2, <2>1, FrameArrivesKeeps, TxUntouched DEF NicInv
<1>3. ASSUME cpsw_rx_inthandler PROVE NicInv'
  <2>1. UNCHANGED txVars
    BY <1>3 DEF cpsw_rx_inthandler
  <2> QED
    BY <1>1, <1>3, <2>1, RxInterruptKeeps, TxUntouched DEF NicInv
<1>4. ASSUME ethernetif_input PROVE NicInv'
  <2>1. RxInv'
    BY <1>1, <1>4, EventWaitKeeps, MboxLookKeeps, MboxClaimKeeps, MboxTakeKeeps, CopyFrameKeeps
       DEF ethernetif_input
  <2>2. UNCHANGED txVars
    BY <1>4 DEF ethernetif_input, EventWait, EventTimeout, MboxLook, MboxClaim, MboxTake,
                CopyFrame, RxStep
  <2> QED
    BY <1>1, <2>1, <2>2, TxUntouched DEF NicInv
<1>5. ASSUME FillTx PROVE NicInv'
  BY <1>1, <1>5, FillTxKeeps, RxUntouched DEF NicInv, FillTx
<1>6. ASSUME StartTx PROVE NicInv'
  BY <1>1, <1>6, StartTxKeeps, RxUntouched DEF NicInv, StartTx
<1>7. ASSUME FrameSent PROVE NicInv'
  BY <1>1, <1>7, FrameSentKeeps, RxUntouched DEF NicInv, FrameSent
<1>8. ASSUME cpsw_tx_inthandler PROVE NicInv'
  BY <1>1, <1>8, TxInterruptKeeps, RxUntouched DEF NicInv, cpsw_tx_inthandler
<1>9. ASSUME UNCHANGED nicVars PROVE NicInv'
  <2>1. UNCHANGED rxVars /\ UNCHANGED txVars
    BY <1>9 DEF nicVars
  <2> QED
    BY <1>1, <2>1, RxUntouched, TxUntouched DEF NicInv
<1> QED
  BY <1>2, <1>3, <1>4, <1>5, <1>6, <1>7, <1>8, <1>9 DEF NicNext

\* What the descriptors, the mailbox and the task agree on holds at all times: the
\* frames under way are those from one descriptor on, without a gap, and the
\* semaphores of the mailbox and the interrupts of both directions tell the truth.
THEOREM NicInvariant == NicSpec => []NicInv
<1>1. NicInit => NicInv
  BY RxInitially, TxInitially DEF NicInv
<1>2. NicInv /\ [NicNext]_nicVars => NicInv'
  BY NicStep
<1> QED
  BY <1>1, <1>2, PTL DEF NicSpec

LEMMA NicInvMeans ==
  ASSUME NicInv
  PROVE  NicTypeOK /\ FramesInOrder /\ NothingStranded
<1>1. RxInv /\ TxInv
  BY DEF NicInv
<1>2. PICK c \in 0..NUM_BUFF_RXDESCS : RxAt(c)
  BY <1>1 DEF RxInv
<1> DEFINE size == NUM_BUFF_RXDESCS
<1>3. /\ size \in Nat \ {0} /\ RxDesc = 0..size - 1
  BY RxSizes
<1>4. rxDMA \in RxDesc \cup {NULL}
  <2>1. next_rx_index \in 0..size - 1 /\ rxDMA = IF next_rx_index + c < size THEN next_rx_index + c ELSE NULL
    BY <1>1, <1>2, <1>3 DEF RxInv, RxTypeInv, RxAt, Ready
  <2> QED
    BY <1>3, <2>1
<1>5. UsedCntSema \in 0..size /\ FreeCntSema \in 0..size
  <2>1. /\ wCount \in 0..size /\ FreeCntSema = size - wCount
        /\ UsedCntSema = IF rxTask = "take" THEN wCount - 1 ELSE wCount
        /\ rxTask = "take" => wCount > 0
    BY <1>1 DEF RxInv, RxTypeInv, MailInv
  <2> QED
    BY <1>3, <2>1
<1>6. txDMA \in TxDesc \cup {NULL}
  BY <1>1, TxMoves
<1>7. NicTypeOK
  BY <1>1, <1>4, <1>5, <1>6 DEF NicTypeOK, RxInv, RxTypeInv, TxInv, TxTypeInv
<1>8. FramesInOrder
  BY <1>1, RxInOrder, TxInOrder DEF FramesInOrder
<1>9. NothingStranded
  BY <1>1, TxMoves DEF NothingStranded, RxInv, MailInv
<1> QED
  BY <1>7, <1>8, <1>9

\* Every variable keeps its type; in particular the indices stay within the
\* descriptors and the semaphores within the size of the mailbox.
THEOREM NicTypeCorrect == NicSpec => []NicTypeOK
  BY NicInvariant, NicInvMeans, PTL

\* Frames reach the stack in the order in which they arrived, unless the DMA overran
\* the task, and the line in the order in which the stack sent them.
THEOREM FramesStayInOrder == NicSpec => []FramesInOrder
  BY NicInvariant, NicInvMeans, PTL

\* The receive task does not sleep on a mail unless it ran out of pbufs, the
\* mailbox's semaphores agree with it, and the transmitter does not stand still with
\* a frame to send; its interrupt always finds a descriptor that was sent.
THEOREM NothingStaysBehind == NicSpec => []NothingStranded
  BY NicInvariant, NicInvMeans, PTL
=============================================================================
