------------------------- MODULE PreviewPipeProofs -------------------------
(***************************************************************************)
(* The reader of the preview pipe puts together what the daemon wrote, for *)
(* frames of any size, a pipe of any capacity and any way of cutting the   *)
(* bytes up.  The argument is where each frame begins in the bytes on the  *)
(* way (Laid): the reader's next piece always begins at the type, the      *)
(* length or the payload of the frame it has yet to show (AtStage).        *)
(* OnboardingProofs shows that the wizard keeps what is proved here.       *)
(***************************************************************************)
EXTENDS PreviewPipe, SequenceTheorems, WellFoundedInduction, TLAPS

\* What travels: frames, their bytes, and what the reader shows of them.
Frame == [kind : {"J", "G"}, size : Nat, n : Nat]
Byte  == [what : {"type", "length", "payload"}, of : Frame]
Shown == [kind : {"J", "G"}, payload : Seq(Byte)]

Reader == [open : BOOLEAN, stage : {"type", "length", "payload"}, want : Nat,
           buf : Seq(Byte), kind : {"J", "G"}, emitted : Seq(Shown)]

\* The byte of f with k bytes of f before it.
ByteAt(f, k) ==
    [what |-> IF k = 0 THEN "type" ELSE IF k <= 2 THEN "length" ELSE "payload", of |-> f]

\* data holds the frames of sent from number e + 1 on, and start[j] is where
\* frame j begins; perhaps before data does, perhaps after it ends.
Laid(data, sent, e, start) ==
    LET n == Len(sent) IN
    /\ e <= n /\ start \in [e+1..n+1 -> Int]
    /\ Len(data) < start[n+1]
    /\ \A j \in e+1..n :
          /\ start[j+1] = start[j] + 3 + sent[j].size
          /\ start[j+1] <= start[n+1]
          /\ \A k \in 1..Len(data) :
                start[j] <= k /\ k < start[j+1] => data[k] = ByteAt(sent[j], k - start[j])

\* No frame was cut off.
Full(data, sent, start) == Len(data) + 1 = start[Len(sent)+1]

\* What the reader waits for begins where the data does.
AtStage(r, sent, e, start) ==
    \/ r.stage = "type" /\ r.want = 1 /\ start[e+1] = 1
    \/ /\ r.stage = "length" /\ r.want = 2 /\ start[e+1] = 0
       /\ e < Len(sent) /\ r.kind = sent[e+1].kind
    \/ /\ r.stage = "payload" /\ r.want = sent[e+1].size /\ start[e+1] = -2
       /\ e < Len(sent) /\ r.kind = sent[e+1].kind /\ r.want > 0

\* The frames it has shown are the first ones written.
ShowsSent(r, sent) ==
    /\ Len(r.emitted) <= Len(sent)
    /\ \A i \in 1..Len(r.emitted) :
          r.emitted[i] = [kind |-> sent[i].kind, payload |-> Payload(sent[i])]

\* whole: the daemon still writes.
Follows(r, data, sent, whole) ==
    \E start : /\ Laid(r.buf \o data, sent, Len(r.emitted), start)
               /\ AtStage(r, sent, Len(r.emitted), start)
               /\ whole => Full(r.buf \o data, sent, start)

InStep(r, data, sent, whole) ==
    /\ r \in Reader
    /\ ShowsSent(r, sent)
    /\ r.open => Follows(r, data, sent, whole)

\* The invariant of the pipe and its reader.
PipeOK(p, r) ==
    /\ p \in [open : BOOLEAN, data : Seq(Byte), sent : Seq(Frame)]
    /\ Len(p.data) <= Capacity
    /\ r # None => InStep(r, p.data, p.sent, p.open)

PipeInv == PipeOK(pipe, reader) /\ frames \in Nat

-----------------------------------------------------------------------------
(* Counting up.                                                            *)

LEMMA Upwards ==
    ASSUME NEW S \in SUBSET Nat, 0 \in S, \A n \in S : n + 1 \in S
    PROVE  S = Nat
<1> DEFINE Out == Nat \ S
<1>1. SUFFICES ASSUME Out # {} PROVE FALSE
  OBVIOUS
<1>2. PICK x \in Out : \A y \in Out : ~(<<y, x>> \in OpToRel(<, Nat))
  <2> HIDE DEF Out
  <2>1. Out \subseteq Nat
    BY DEF Out
  <2>2. QED
    BY <1>1, <2>1, WFMin, NatLessThanWellFounded, Zenon
<1>3. \A y \in Out : ~(y < x)
  BY <1>2, Zenon DEF OpToRel
<1>4. x \in Nat /\ x # 0
  OBVIOUS
<1>5. x - 1 \in Nat /\ x - 1 < x
  BY <1>4
<1>6. x - 1 \in S
  BY <1>3, <1>5
<1>7. QED
  BY <1>6, <1>4

\* The turns of the reader's loop.
Turn(p) == IF p.open /\ Len(p.buf) >= p.want THEN Piece(p) ELSE p
Turns(r, m, f) == f = [n \in 0..m |-> IF n = 0 THEN r ELSE Turn(f[n - 1])]

LEMMA TurnsExist ==
    ASSUME NEW r, NEW m \in Nat
    PROVE  \E f : Turns(r, m, f)
<1> DEFINE S == {i \in Nat : \E f : Turns(r, i, f)}
<1>1. 0 \in S
  <2> DEFINE f == [n \in 0..0 |-> r]
  <2>1. f = [n \in 0..0 |-> IF n = 0 THEN r ELSE Turn(f[n - 1])]
    OBVIOUS
  <2>2. Turns(r, 0, f)
    BY <2>1, Zenon DEF Turns
  <2>3. QED
    BY <2>2
<1>2. ASSUME NEW i \in S PROVE i + 1 \in S
  <2>1. PICK f : Turns(r, i, f)
    OBVIOUS
  <2> DEFINE g == [n \in 0..i+1 |-> IF n = i + 1 THEN Turn(f[i]) ELSE f[n]]
             h == [n \in 0..i+1 |-> IF n = 0 THEN r ELSE Turn(g[n - 1])]
  <2>2. ASSUME NEW n \in 0..i+1 PROVE g[n] = h[n]
    <3>1. CASE n = 0
      <4>1. g[n] = f[0]
        BY <3>1
      <4>2. f[0] = r
        BY <2>1 DEF Turns
      <4>3. QED
        BY <4>1, <4>2, <3>1
    <3>2. CASE n \in 1..i
      <4>1. g[n] = f[n] /\ g[n-1] = f[n-1]
        BY <3>2
      <4>2. n \in 0..i /\ n # 0
        BY <3>2
      <4>3. f[n] = Turn(f[n-1])
        BY <2>1, <4>2 DEF Turns
      <4>4. QED
        BY <4>1, <4>2, <4>3
    <3>3. CASE n = i + 1
      <4>1. n # 0 /\ n - 1 = i /\ i \in 0..i+1 /\ i # i + 1
        BY <3>3
      <4>2. QED
        BY <4>1, <3>3
    <3>4. QED
      BY <3>1, <3>2, <3>3
  <2>3. g = h
    <3>1. DOMAIN g = DOMAIN h
      OBVIOUS
    <3>2. QED
      BY <2>2, <3>1
  <2>4. Turns(r, i + 1, g)
    BY <2>3, Zenon DEF Turns
  <2>5. QED
    BY <2>4
<1>3. S = Nat
  <2> HIDE DEF S
  <2>1. S \in SUBSET Nat
    BY DEF S
  <2>2. QED
    BY <1>1, <1>2, <2>1, Upwards
<1>4. QED
  BY <1>3

\* What a turn keeps, the loop keeps.
LEMMA LoopKeeps ==
    ASSUME NEW r, NEW S, Len(r.buf) \in Nat, r \in S, \A p \in S : Turn(p) \in S
    PROVE  Pieces(r) \in S
<1> DEFINE m == Len(r.buf)
           after == CHOOSE f : Turns(r, m, f)
           I == {i \in Nat : i <= m => after[i] \in S}
<1>1. Turns(r, m, after)
  BY TurnsExist, Zenon
<1>2. Pieces(r) = after[m]
  BY Zenon DEF Pieces, Turns, Turn
<1> HIDE DEF after
<1>3. 0 \in I
  <2>1. after[0] = r
    BY <1>1 DEF Turns
  <2>2. QED
    BY <2>1
<1>4. ASSUME NEW i \in I PROVE i + 1 \in I
  <2>1. SUFFICES ASSUME i + 1 <= m PROVE after[i+1] \in S
    OBVIOUS
  <2>2. after[i+1] = Turn(after[i])
    <3>1. i + 1 \in 0..m /\ i + 1 # 0 /\ (i + 1) - 1 = i
      BY <2>1
    <3>2. after[i+1] = IF i + 1 = 0 THEN r ELSE Turn(after[(i + 1) - 1])
      BY <1>1, <3>1 DEF Turns
    <3>3. QED
      BY <3>1, <3>2
  <2>3. after[i] \in S
    BY <2>1
  <2>4. QED
    BY <2>2, <2>3
<1>5. I = Nat
  <2> HIDE DEF I
  <2>1. I \in SUBSET Nat
    BY DEF I
  <2>2. QED
    BY <1>3, <1>4, <2>1, Upwards
<1>6. m \in I
  BY <1>5
<1>7. QED
  BY <1>2, <1>6

-----------------------------------------------------------------------------
(* The bytes on the way.                                                   *)

LEMMA BytesOf ==
    ASSUME NEW f \in Frame
    PROVE  /\ Bytes(f) \in Seq(Byte) /\ Payload(f) \in Seq(Byte)
           /\ Len(Bytes(f)) = 3 + f.size /\ Len(Payload(f)) = f.size
           /\ \A k \in 1..3 + f.size : Bytes(f)[k] = ByteAt(f, k - 1)
           /\ \A k \in 1..f.size : Payload(f)[k] = ByteAt(f, k + 2)
<1> DEFINE head == <<[what |-> "type", of |-> f],
                     [what |-> "length", of |-> f], [what |-> "length", of |-> f]>>
           tail == Payload(f)
<1>1. f.size \in Nat
  BY DEF Frame
<1>2. head \in Seq(Byte) /\ Len(head) = 3
      /\ head[1] = ByteAt(f, 0) /\ head[2] = ByteAt(f, 1) /\ head[3] = ByteAt(f, 2)
  BY DEF Byte, ByteAt
<1>3. [what |-> "payload", of |-> f] \in Byte
  BY DEF Byte
<1>4. tail \in Seq(Byte) /\ Len(tail) = f.size
  BY <1>1, <1>3 DEF Payload
<1>5. \A k \in 1..f.size : tail[k] = ByteAt(f, k + 2)
  BY <1>1 DEF Payload, ByteAt
<1>6. Bytes(f) = head \o tail
  BY DEF Bytes
<1> HIDE DEF head, tail
<1>7. /\ head \o tail \in Seq(Byte) /\ Len(head \o tail) = 3 + f.size
      /\ \A k \in 1..3 + f.size : (head \o tail)[k] = IF k <= 3 THEN head[k] ELSE tail[k - 3]
  <2>1. /\ head \o tail \in Seq(Byte) /\ Len(head \o tail) = Len(head) + Len(tail)
        /\ \A k \in 1..Len(head) + Len(tail) :
              (head \o tail)[k] = IF k <= Len(head) THEN head[k] ELSE tail[k - Len(head)]
    BY <1>2, <1>4, ConcatProperties, Zenon
  <2>2. Len(head) = 3 /\ Len(tail) = f.size
    BY <1>2, <1>4
  <2>3. QED
    BY <2>1, <2>2, Zenon
<1>8. ASSUME NEW k \in 1..3 + f.size PROVE (head \o tail)[k] = ByteAt(f, k - 1)
  <2>1. CASE k <= 3
    <3>1. k = 1 \/ k = 2 \/ k = 3
      BY <2>1, <1>1
    <3>2. (head \o tail)[k] = head[k]
      BY <2>1, <1>7
    <3>3. QED
      BY <3>1, <3>2, <1>2
  <2>2. CASE k > 3
    <3>1. (head \o tail)[k] = tail[k - 3] /\ k - 3 \in 1..f.size /\ (k - 3) + 2 = k - 1
      BY <2>2, <1>7, <1>1
    <3>2. QED
      BY <3>1, <1>5
  <2>3. k <= 3 \/ k > 3
    BY <1>1
  <2>4. QED
    BY <2>1, <2>2, <2>3, Zenon
<1>9. QED
  BY <1>4, <1>5, <1>6, <1>7, <1>8 DEF tail

\* Without the first w bytes everything begins w earlier.
LEMMA Shifted ==
    ASSUME NEW data \in Seq(Byte), NEW sent \in Seq(Frame), NEW e \in Nat, NEW start,
           Laid(data, sent, e, start),
           NEW w \in 0..Len(data), NEW rest \in Seq(Byte),
           Len(rest) = Len(data) - w, \A k \in 1..Len(rest) : rest[k] = data[k + w]
    PROVE  Laid(rest, sent, e, [j \in e+1..Len(sent)+1 |-> start[j] - w])
<1> DEFINE n == Len(sent)
           s == [j \in e+1..n+1 |-> start[j] - w]
<1>1. n \in Nat /\ Len(data) \in Nat /\ w \in Nat /\ w <= Len(data) /\ e <= n
  BY DEF Laid
<1>2. start \in [e+1..n+1 -> Int] /\ Len(data) < start[n+1]
  BY DEF Laid
<1>0. \A j \in e+1..n : /\ start[j+1] = start[j] + 3 + sent[j].size
                         /\ start[j+1] <= start[n+1]
                         /\ j \in 1..Len(sent)
  BY DEF Laid
<1> HIDE DEF n
<1>3. s \in [e+1..n+1 -> Int] /\ \A j \in e+1..n+1 : s[j] = start[j] - w
  BY <1>1, <1>2
<1> HIDE DEF s
<1>4. n + 1 \in e+1..n+1
  BY <1>1
<1>5. Len(rest) < s[n+1]
  <2>1. start[n+1] \in Int /\ s[n+1] = start[n+1] - w
    BY <1>2, <1>3, <1>4
  <2>2. QED
    BY <2>1, <1>1, <1>2
<1>6. ASSUME NEW j \in e+1..n
      PROVE  /\ s[j+1] = s[j] + 3 + sent[j].size /\ s[j+1] <= s[n+1]
             /\ \A k \in 1..Len(rest) : s[j] <= k /\ k < s[j+1] => rest[k] = ByteAt(sent[j], k - s[j])
  <2>1. j \in e+1..n+1 /\ j + 1 \in e+1..n+1
    BY <1>1
  <2>2. start[j+1] = start[j] + 3 + sent[j].size /\ start[j+1] <= start[n+1] /\ j \in 1..Len(sent)
    BY <1>0
  <2>3. start[j] \in Int /\ start[j+1] \in Int /\ start[n+1] \in Int /\ sent[j].size \in Nat
    <3>1. sent[j] \in Frame
      BY <2>2, ElementOfSeq
    <3>2. QED
      BY <3>1, <1>2, <2>1, <1>4 DEF Frame
  <2>4. s[j] = start[j] - w /\ s[j+1] = start[j+1] - w /\ s[n+1] = start[n+1] - w
    BY <1>3, <2>1, <1>4
  <2>5. ASSUME NEW k \in 1..Len(rest), s[j] <= k, k < s[j+1]
        PROVE  rest[k] = ByteAt(sent[j], k - s[j])
    <3>1. k + w \in 1..Len(data)
      BY <1>1
    <3>5. k \in Int /\ start[j] <= k + w /\ k + w < start[j+1]
      <4>1. PICK a \in Int, b \in Int : a = start[j] /\ b = start[j+1]
        BY <2>3, Zenon
      <4>2. a - w <= k /\ k < b - w
        BY <4>1, <2>4, <2>5, Zenon
      <4>3. k \in Int /\ w \in Int
        BY <1>1
      <4>4. a <= k + w /\ k + w < b
        BY ONLY <4>1, <4>2, <4>3
      <4>5. QED
        BY <4>1, <4>3, <4>4, Zenon
    <3>2. data[k + w] = ByteAt(sent[j], (k + w) - start[j])
      <4>1. \A i \in 1..Len(data) :
               start[j] <= i /\ i < start[j+1] => data[i] = ByteAt(sent[j], i - start[j])
        BY <1>6, Zenon DEF Laid, n
      <4>2. QED
        BY <3>1, <3>5, <4>1, Zenon
    <3>3. (k + w) - start[j] = k - s[j]
      BY <2>3, <2>4, <1>1, <3>5
    <3>4. QED
      BY <3>2, <3>3
  <2>6. s[j+1] = s[j] + 3 + sent[j].size /\ s[j+1] <= s[n+1]
    <3>1. PICK a \in Int, b \in Int, c \in Int, z \in Nat :
              a = start[j] /\ b = start[j+1] /\ c = start[n+1] /\ z = sent[j].size
      BY <2>3, Zenon
    <3>2. b = a + 3 + z /\ b <= c
      BY <2>2, <3>1, Zenon
    <3>3. b - w = (a - w) + 3 + z /\ b - w <= c - w
      BY <1>1, <3>2
    <3>4. QED
      BY <2>4, <3>1, <3>3, Zenon
  <2>7. QED
    BY <2>5, <2>6
<1>7. QED
  BY <1>1, <1>3, <1>5, <1>6 DEF Laid, s, n

\* The frame that was shown is no longer of interest.
LEMMA Advanced ==
    ASSUME NEW data \in Seq(Byte), NEW sent \in Seq(Frame), NEW e \in Nat, NEW start,
           Laid(data, sent, e, start), e < Len(sent)
    PROVE  Laid(data, sent, e + 1, [j \in e+2..Len(sent)+1 |-> start[j]])
<1> DEFINE n == Len(sent)
           s == [j \in e+2..n+1 |-> start[j]]
<1>1. n \in Nat /\ e + 1 <= n /\ (e + 1) + 1 = e + 2
  OBVIOUS
<1>2. start \in [e+1..n+1 -> Int] /\ Len(data) < start[n+1]
  BY DEF Laid
<1>3. s \in [e+2..n+1 -> Int] /\ \A j \in e+2..n+1 : s[j] = start[j]
  BY <1>1, <1>2
<1>4. Len(data) < s[n+1]
  BY <1>1, <1>2, <1>3
<1>5. ASSUME NEW j \in e+2..n
      PROVE  /\ s[j+1] = s[j] + 3 + sent[j].size /\ s[j+1] <= s[n+1]
             /\ \A k \in 1..Len(data) : s[j] <= k /\ k < s[j+1] => data[k] = ByteAt(sent[j], k - s[j])
  <2>1. j \in e+1..n /\ j \in e+2..n+1 /\ j + 1 \in e+2..n+1 /\ n + 1 \in e+2..n+1
    BY <1>1
  <2>2. s[j] = start[j] /\ s[j+1] = start[j+1] /\ s[n+1] = start[n+1]
    BY <1>3, <2>1
  <2>3. QED
    BY <2>1, <2>2 DEF Laid
<1>6. QED
  BY <1>1, <1>3, <1>4, <1>5 DEF Laid

\* Another frame is laid behind the last one, whole or cut off.
Behind(start, sent, e, f) ==
    [j \in e+1..Len(sent)+2 |->
        IF j = Len(sent) + 2 THEN start[Len(sent)+1] + 3 + f.size ELSE start[j]]

LEMMA Extended ==
    ASSUME NEW data \in Seq(Byte), NEW sent \in Seq(Frame), NEW e \in Nat, NEW start,
           Laid(data, sent, e, start), Full(data, sent, start),
           NEW f \in Frame, NEW m \in 0..3 + f.size
    PROVE  /\ Laid(data \o SubSeq(Bytes(f), 1, m), Append(sent, f), e, Behind(start, sent, e, f))
           /\ Behind(start, sent, e, f)[e+1] = start[e+1]
           /\ m = 3 + f.size =>
                 Full(data \o SubSeq(Bytes(f), 1, m), Append(sent, f), Behind(start, sent, e, f))
<1> DEFINE longer == Append(sent, f)
           added == SubSeq(Bytes(f), 1, m)
           all == data \o added
           more == Behind(start, sent, e, f)
<1>1. PICK n \in Nat, l \in Nat, z \in Nat : n = Len(sent) /\ l = Len(data) /\ z = f.size
  <2>1. Len(sent) \in Nat /\ Len(data) \in Nat /\ f.size \in Nat
    BY DEF Frame
  <2>2. QED
    BY <2>1, Zenon
<1>2. /\ e <= n /\ m \in Nat /\ m <= 3 + z
      /\ start \in [e+1..n+1 -> Int] /\ start[n+1] = l + 1
  BY <1>1 DEF Laid, Full
<1>3. \A j \in e+1..n :
         /\ start[j+1] = start[j] + 3 + sent[j].size /\ start[j+1] <= start[n+1]
         /\ \A k \in 1..l : start[j] <= k /\ k < start[j+1] => data[k] = ByteAt(sent[j], k - start[j])
  BY <1>1, Zenon DEF Laid
<1>4. /\ longer \in Seq(Frame) /\ Len(longer) = n + 1 /\ longer[n+1] = f
      /\ \A j \in 1..n : longer[j] = sent[j]
  BY <1>1, AppendProperties
<1>5. /\ added \in Seq(Byte) /\ Len(added) = m
      /\ \A k \in 1..m : added[k] = ByteAt(f, k - 1)
  <2>1. \A k \in 1..m : Bytes(f)[k] \in Byte /\ Bytes(f)[k] = ByteAt(f, k - 1)
    <3>1. \A k \in 1..m : k \in 1..3 + f.size
      BY <1>1, <1>2
    <3>2. QED
      BY <3>1, BytesOf, ElementOfSeq, Zenon
  <2>2. /\ added \in Seq(Byte) /\ Len(added) = IF 1 <= m THEN m - 1 + 1 ELSE 0
        /\ \A k \in 1..m-1+1 : added[k] = Bytes(f)[1 + k - 1]
    BY <2>1, <1>2, SubSeqProperties
  <2>3. QED
    BY <2>1, <2>2, <1>2
<1>6. /\ all \in Seq(Byte) /\ Len(all) = l + m
      /\ \A k \in 1..l+m : all[k] = IF k <= l THEN data[k] ELSE added[k - l]
  <2>1. /\ all \in Seq(Byte) /\ Len(all) = Len(data) + Len(added)
        /\ \A k \in 1..Len(data) + Len(added) :
              all[k] = IF k <= Len(data) THEN data[k] ELSE added[k - Len(data)]
    BY <1>5, ConcatProperties, Zenon
  <2>2. QED
    BY <2>1, <1>1, <1>5, Zenon
<1>7. more \in [e+1..n+2 -> Int]
      /\ (\A j \in e+1..n+1 : more[j] = start[j]) /\ more[n+2] = l + 4 + z
  <2>1. more = [j \in e+1..n+2 |-> IF j = n + 2 THEN l + 1 + 3 + z ELSE start[j]]
    BY <1>1, <1>2, Zenon DEF Behind
  <2>2. n + 2 \in e+1..n+2 /\ \A j \in e+1..n+1 : j # n + 2 /\ j \in e+1..n+2
    BY <1>2
  <2>3. \A j \in e+1..n+2 : j # n + 2 => j \in e+1..n+1
    BY <1>2
  <2>4. l + 1 + 3 + z \in Int /\ l + 1 + 3 + z = l + 4 + z
    OBVIOUS
  <2> HIDE DEF more
  <2>5. \A j \in e+1..n+2 : (IF j = n + 2 THEN l + 1 + 3 + z ELSE start[j]) \in Int
    BY <1>2, <2>3, <2>4
  <2>6. QED
    BY <2>1, <2>2, <2>4, <2>5
<1> HIDE DEF longer, added, all, more
<1>8. Len(all) < more[n+2]
  BY <1>2, <1>6, <1>7
<1>9. ASSUME NEW j \in e+1..n+1
      PROVE  /\ more[j+1] = more[j] + 3 + longer[j].size /\ more[j+1] <= more[n+2]
             /\ \A k \in 1..Len(all) :
                   more[j] <= k /\ k < more[j+1] => all[k] = ByteAt(longer[j], k - more[j])
  <2>1. CASE j = n + 1
    <3>1. more[j] = l + 1 /\ more[j+1] = l + 4 + z /\ longer[j] = f
      <4>1. n + 1 \in e+1..n+1 /\ (n + 1) + 1 = n + 2
        BY <1>2
      <4>2. QED
        BY <2>1, <4>1, <1>2, <1>4, <1>7
    <3>2. l + 4 + z = (l + 1) + 3 + z /\ l + 4 + z <= l + 4 + z
      OBVIOUS
    <3>3. ASSUME NEW k \in 1..l+m, l + 1 <= k
          PROVE  all[k] = ByteAt(f, k - (l + 1))
      <4>1. ~(k <= l) /\ k - l \in 1..m /\ (k - l) - 1 = k - (l + 1)
        BY <3>3, <1>2
      <4>2. all[k] = added[k - l]
        BY <4>1, <1>6, Zenon
      <4>3. added[k - l] = ByteAt(f, (k - l) - 1)
        BY <4>1, <1>5, Zenon
      <4>4. QED
        BY <4>1, <4>2, <4>3, Zenon
    <3>4. QED
      BY <3>1, <3>2, <3>3, <1>1, <1>6, <1>7, Zenon
  <2>2. CASE j \in e+1..n
    <3>1. j \in e+1..n+1 /\ j + 1 \in e+1..n+1 /\ j \in 1..n
      BY <2>2
    <3>2. more[j] = start[j] /\ more[j+1] = start[j+1] /\ longer[j] = sent[j]
      BY <3>1, <1>4, <1>7, Zenon
    <3>3. start[j+1] <= l + 4 + z
      <4>1. PICK b \in Int : b = start[j+1]
        BY <3>1, <1>2
      <4>2. b <= l + 1
        BY <4>1, <1>2, <1>3, <2>2, Zenon
      <4>3. b <= l + 4 + z
        BY <4>2
      <4>4. QED
        BY <4>1, <4>3, Zenon
    <3>4. ASSUME NEW k \in 1..l+m, start[j] <= k, k < start[j+1]
          PROVE  all[k] = ByteAt(sent[j], k - start[j])
      <4>1. PICK b \in Int : b = start[j+1]
        BY <3>1, <1>2
      <4>2. b <= l + 1 /\ k < b
        BY <4>1, <1>2, <1>3, <2>2, <3>4, Zenon
      <4>3. k <= l /\ k \in 1..l
        BY <4>2
      <4>4. all[k] = data[k]
        BY <4>3, <1>6, Zenon
      <4>5. data[k] = ByteAt(sent[j], k - start[j])
        BY <4>3, <3>4, <2>2, <1>3, Zenon
      <4>6. QED
        BY <4>4, <4>5, Zenon
    <3>5. QED
      BY <3>2, <3>3, <3>4, <1>3, <1>6, <1>7, <2>2, Zenon
  <2>3. j = n + 1 \/ j \in e+1..n
    BY <1>2
  <2>4. QED
    BY <2>1, <2>2, <2>3, Zenon
<1>10. Laid(all, longer, e, more)
  <2>1. e <= n + 1 /\ (n + 1) + 1 = n + 2
    BY <1>2
  <2>2. QED
    BY <2>1, <1>4, <1>7, <1>8, <1>9, Zenon DEF Laid
<1>11. more[e+1] = start[e+1]
  <2>1. e + 1 \in e+1..n+1
    BY <1>2
  <2>2. QED
    BY <2>1, <1>7, Zenon
<1>12. m = 3 + f.size => Len(all) + 1 = more[Len(longer)+1]
  <2>1. SUFFICES ASSUME m = 3 + z PROVE (l + m) + 1 = more[(n + 1) + 1]
    BY <1>1, <1>4, <1>6, Zenon
  <2>2. (l + m) + 1 = l + 4 + z /\ (n + 1) + 1 = n + 2
    BY <2>1
  <2>3. QED
    BY <2>2, <1>7, Zenon
<1>13. QED
  BY <1>10, <1>11, <1>12, Zenon DEF all, added, longer, more, Full

-----------------------------------------------------------------------------
(* A turn of the loop.                                                     *)

LEMMA Consumed ==
    ASSUME NEW buf \in Seq(Byte), NEW data \in Seq(Byte), NEW w \in 0..Len(buf)
    PROVE  LET rest  == SubSeq(buf, w + 1, Len(buf))
               chunk == SubSeq(buf, 1, w)
           IN  /\ rest \in Seq(Byte) /\ chunk \in Seq(Byte) /\ Len(chunk) = w
               /\ buf \o data \in Seq(Byte) /\ rest \o data \in Seq(Byte)
               /\ w \in 0..Len(buf \o data) /\ Len(rest \o data) = Len(buf \o data) - w
               /\ \A k \in 1..Len(rest \o data) : (rest \o data)[k] = (buf \o data)[k + w]
               /\ \A k \in 1..w : chunk[k] = (buf \o data)[k]
<1> DEFINE rest  == SubSeq(buf, w + 1, Len(buf))
           chunk == SubSeq(buf, 1, w)
           all   == buf \o data
           less  == rest \o data
<1>1. PICK l \in Nat, d \in Nat : l = Len(buf) /\ d = Len(data)
  OBVIOUS
<1>2. w \in Nat /\ w <= l /\ \A k \in 1..l : buf[k] \in Byte
  BY <1>1, ElementOfSeq
<1>3. /\ rest \in Seq(Byte) /\ Len(rest) = l - w
      /\ \A k \in 1..l - w : rest[k] = buf[k + w]
  <2>1. /\ SubSeq(buf, w + 1, l) \in Seq(Byte)
        /\ Len(SubSeq(buf, w + 1, l)) = IF w + 1 <= l THEN l - (w + 1) + 1 ELSE 0
        /\ \A k \in 1..l - (w + 1) + 1 : SubSeq(buf, w + 1, l)[k] = buf[(w + 1) + k - 1]
    <3>1. \A k \in w+1..l : buf[k] \in Byte
      BY <1>2
    <3>2. w + 1 \in Int /\ l \in Int
      BY <1>2
    <3>3. QED
      BY <3>1, <3>2, SubSeqProperties
  <2>2. l - (w + 1) + 1 = l - w /\ (w + 1 <= l \/ l - w = 0)
        /\ \A k \in 1..l - w : (w + 1) + k - 1 = k + w
    BY <1>2
  <2>3. QED
    BY <2>1, <2>2, <1>1, Zenon
<1>4. /\ chunk \in Seq(Byte) /\ Len(chunk) = w
      /\ \A k \in 1..w : chunk[k] = buf[k]
  <2>1. /\ chunk \in Seq(Byte) /\ Len(chunk) = IF 1 <= w THEN w - 1 + 1 ELSE 0
        /\ \A k \in 1..w - 1 + 1 : chunk[k] = buf[1 + k - 1]
    <3>1. \A k \in 1..w : buf[k] \in Byte
      BY <1>2
    <3>2. QED
      BY <3>1, <1>2, SubSeqProperties
  <2>2. QED
    BY <2>1, <1>2
<1> HIDE DEF rest, chunk
<1>5. /\ all \in Seq(Byte) /\ Len(all) = l + d
      /\ \A k \in 1..l+d : all[k] = IF k <= l THEN buf[k] ELSE data[k - l]
  BY <1>1, ConcatProperties, Zenon
<1>6. /\ less \in Seq(Byte) /\ Len(less) = (l - w) + d
      /\ \A k \in 1..(l - w) + d : less[k] = IF k <= l - w THEN rest[k] ELSE data[k - (l - w)]
  <2>1. /\ less \in Seq(Byte) /\ Len(less) = Len(rest) + Len(data)
        /\ \A k \in 1..Len(rest) + Len(data) :
              less[k] = IF k <= Len(rest) THEN rest[k] ELSE data[k - Len(rest)]
    BY <1>3, ConcatProperties, Zenon
  <2>2. QED
    BY <2>1, <1>1, <1>3, Zenon
<1> HIDE DEF all, less
<1>7. ASSUME NEW k \in 1..(l - w) + d PROVE less[k] = all[k + w]
  <2>1. k + w \in 1..l+d
    BY <1>2
  <2>2. CASE k <= l - w
    <3>1. k \in 1..l-w /\ k + w <= l
      BY <2>2, <1>2
    <3>2. QED
      BY <3>1, <2>1, <2>2, <1>3, <1>5, <1>6, Zenon
  <2>3. CASE ~(k <= l - w)
    <3>1. ~(k + w <= l) /\ (k + w) - l = k - (l - w)
      BY <2>3, <1>2
    <3>2. QED
      BY <3>1, <2>1, <2>3, <1>5, <1>6, Zenon
  <2>4. QED
    BY <2>2, <2>3, Zenon
<1>8. ASSUME NEW k \in 1..w PROVE chunk[k] = all[k]
  <2>1. k \in 1..l+d /\ k <= l
    BY <1>2
  <2>2. QED
    BY <2>1, <1>4, <1>5, Zenon
<1>9. w \in 0..Len(all) /\ Len(less) = Len(all) - w
  BY <1>2, <1>5, <1>6
<1>10. QED
  BY <1>3, <1>4, <1>5, <1>6, <1>7, <1>8, <1>9, Zenon DEF rest, chunk, all, less

\* o bytes of the frame that is under way were read before: the next w are its.
\* A chunk of w bytes is next, o bytes into the frame after the e-th: it is a
\* type, a length or a whole payload, and what Heads says of it.
AtHead(data, sent, e, start, o, w) ==
    /\ data \in Seq(Byte) /\ sent \in Seq(Frame) /\ e \in Nat /\ Laid(data, sent, e, start)
    /\ o \in Nat /\ start[e+1] = 1 - o /\ w \in Nat \ {0} /\ w <= Len(data)
    /\ o + w <= 3 \/ (o = 3 /\ w = sent[e+1].size)

Heads(data, sent, e, start, o, w) ==
    /\ e < Len(sent) /\ sent[e+1] \in Frame
    /\ start[e+2] = 4 - o + sent[e+1].size
    /\ \A k \in 1..w : data[k] = ByteAt(sent[e+1], (k + o) - 1)

LEMMA Ahead ==
    ASSUME NEW data, NEW sent, NEW e, NEW start, NEW o, NEW w,
           AtHead(data, sent, e, start, o, w)
    PROVE  Heads(data, sent, e, start, o, w)
<1>   /\ data \in Seq(Byte) /\ sent \in Seq(Frame) /\ e \in Nat /\ Laid(data, sent, e, start)
      /\ o \in Nat /\ start[e+1] = 1 - o /\ w \in Nat \ {0} /\ w <= Len(data)
      /\ o + w <= 3 \/ (o = 3 /\ w = sent[e+1].size)
  BY Zenon DEF AtHead
<1>1. PICK n \in Nat, l \in Nat : n = Len(sent) /\ l = Len(data)
  OBVIOUS
<1>2. e <= n /\ start \in [e+1..n+1 -> Int] /\ l < start[n+1]
  BY <1>1 DEF Laid
<1>3. e < n
  <2>1. SUFFICES ASSUME e = n PROVE FALSE
    BY <1>2
  <2>2. l < 1 - o
    BY <2>1, <1>2
  <2>3. QED
    BY <2>2, <1>1
<1>4. e + 1 \in e+1..n /\ e + 1 \in 1..Len(sent) /\ (e + 1) + 1 = e + 2
  BY <1>1, <1>3
<1>5. sent[e+1] \in Frame
  BY <1>4, ElementOfSeq
<1>6. PICK z \in Nat : z = sent[e+1].size
  BY <1>5 DEF Frame
<1>7. start[e+2] = start[e+1] + 3 + sent[e+1].size
      /\ \A k \in 1..l : start[e+1] <= k /\ k < start[e+2]
             => data[k] = ByteAt(sent[e+1], k - start[e+1])
  BY <1>1, <1>4, Zenon DEF Laid
<1>8. start[e+2] = 4 - o + z
  <2>1. start[e+2] = (1 - o) + 3 + z
    BY <1>6, <1>7, Zenon
  <2>2. (1 - o) + 3 + z = 4 - o + z
    OBVIOUS
  <2>3. QED
    BY <2>1, <2>2, Zenon
<1>9. ASSUME NEW k \in 1..w PROVE data[k] = ByteAt(sent[e+1], (k + o) - 1)
  <2>1. k \in 1..l /\ 1 - o <= k /\ k - (1 - o) = (k + o) - 1
    BY <1>1
  <2>2. k < 4 - o + z
    BY <1>6
  <2>3. start[e+1] <= k /\ k < start[e+2] /\ k - start[e+1] = (k + o) - 1
    BY <2>1, <2>2, <1>8, Zenon
  <2>4. QED
    BY <2>1, <2>3, <1>7, Zenon
<1>10. QED
  BY <1>1, <1>3, <1>5, <1>6, <1>8, <1>9, Zenon DEF Heads

\* What a piece of a frame makes of the reader.
LEMMA Pieced ==
    ASSUME NEW p \in Reader, NEW f \in Frame, NEW o \in Nat,
           \A k \in 1..p.want : SubSeq(p.buf, 1, p.want)[k] = ByteAt(f, (k + o) - 1),
           p.want \in Nat \ {0}
    PROVE  LET chunk == SubSeq(p.buf, 1, p.want)
               rest  == [p EXCEPT !.buf = SubSeq(p.buf, p.want + 1, Len(p.buf))]
           IN  /\ p.stage = "type" /\ o = 0 =>
                      Piece(p) = [rest EXCEPT !.kind = f.kind, !.want = 2, !.stage = "length"]
               /\ p.stage = "length" /\ o = 1 =>
                      Piece(p) \in {[rest EXCEPT !.open = FALSE],
                                    [rest EXCEPT !.want = f.size, !.stage = "payload"]}
                      /\ (f.size = 0 => Piece(p) = [rest EXCEPT !.open = FALSE])
<1> DEFINE chunk == SubSeq(p.buf, 1, p.want)
           rest  == [p EXCEPT !.buf = SubSeq(p.buf, p.want + 1, Len(p.buf))]
<1>1. 1 \in 1..p.want
  OBVIOUS
<1>2. chunk[1] = ByteAt(f, (1 + o) - 1) /\ (1 + o) - 1 = o
  BY <1>1
<1>3. chunk[1].of = f
  BY <1>2 DEF ByteAt
<1>4. o = 0 => chunk[1].what = "type"
  BY <1>2 DEF ByteAt
<1>6. ASSUME p.stage = "type", o = 0
      PROVE  Piece(p) = [rest EXCEPT !.kind = f.kind, !.want = 2, !.stage = "length"]
  <2>1. chunk[1].what = "type"
    BY <1>4, <1>6
  <2> HIDE DEF chunk
  <2>2. QED
    BY <2>1, <1>3, <1>6 DEF Piece, chunk
<1>7. ASSUME p.stage = "length"
      PROVE  /\ Piece(p) \in {[rest EXCEPT !.open = FALSE],
                              [rest EXCEPT !.want = f.size, !.stage = "payload"]}
             /\ (f.size = 0 => Piece(p) = [rest EXCEPT !.open = FALSE])
  BY <1>3, <1>7 DEF Piece
<1>8. QED
  BY <1>6, <1>7, Zenon

LEMMA PiecedLast ==
    ASSUME NEW p \in Reader, p.stage = "payload"
    PROVE  Piece(p) = [p EXCEPT
               !.buf = SubSeq(p.buf, p.want + 1, Len(p.buf)),
               !.emitted = Append(p.emitted, [kind |-> p.kind,
                                              payload |-> SubSeq(p.buf, 1, p.want)]),
               !.want = 1, !.stage = "type"]
BY DEF Piece, Reader

LEMMA PieceKeeps ==
    ASSUME NEW p, NEW data \in Seq(Byte), NEW sent \in Seq(Frame), NEW whole,
           InStep(p, data, sent, whole), p.open, Len(p.buf) >= p.want
    PROVE  InStep(Piece(p), data, sent, whole)
<1> DEFINE q    == Piece(p)
           w    == p.want
           e    == Len(p.emitted)
           f    == sent[e+1]
           all  == p.buf \o data
           rest == SubSeq(p.buf, w + 1, Len(p.buf))
           less == rest \o data
           chunk == SubSeq(p.buf, 1, w)
<1>1. p \in Reader /\ ShowsSent(p, sent) /\ Follows(p, data, sent, whole)
  BY Zenon DEF InStep
<1>2. /\ p.buf \in Seq(Byte) /\ w \in Nat /\ p.emitted \in Seq(Shown) /\ e \in Nat
      /\ Len(p.buf) \in Nat /\ p.kind \in {"J", "G"}
      /\ p.stage \in {"type", "length", "payload"}
  BY <1>1 DEF Reader
<1>3. w \in 0..Len(p.buf)
  BY <1>2
<1>4. PICK start : /\ Laid(all, sent, e, start) /\ AtStage(p, sent, e, start)
                   /\ whole => Full(all, sent, start)
  BY <1>1, Zenon DEF Follows
<1>5. /\ rest \in Seq(Byte) /\ chunk \in Seq(Byte) /\ Len(chunk) = w
      /\ all \in Seq(Byte) /\ less \in Seq(Byte)
      /\ w \in 0..Len(all) /\ Len(less) = Len(all) - w
      /\ \A k \in 1..Len(less) : less[k] = all[k + w]
      /\ \A k \in 1..w : chunk[k] = all[k]
  BY <1>2, <1>3, Consumed, Zenon
<1> DEFINE s == [j \in e+1..Len(sent)+1 |-> start[j] - w]
<1> HIDE DEF q, w, e, f, all, rest, less, chunk
<1>6. Laid(less, sent, e, s)
  <2>1. e \in Nat /\ Laid(all, sent, e, start)
    BY <1>2, <1>4, Zenon DEF e
  <2>2. /\ all \in Seq(Byte) /\ less \in Seq(Byte)
        /\ w \in 0..Len(all) /\ Len(less) = Len(all) - w
        /\ \A k \in 1..Len(less) : less[k] = all[k + w]
    BY <1>5, Zenon
  <2>3. QED
    BY ONLY <2>1, <2>2, sent \in Seq(Frame), Shifted DEF s
<1>7. w # 0 /\ w <= Len(all) /\ e <= Len(sent)
  <2>1. w # 0
    BY <1>4, <1>2 DEF AtStage, w
  <2>2. w <= Len(all)
    BY <1>5, <1>2
  <2>3. QED
    BY <2>1, <2>2, <1>4, Zenon DEF Laid
<1>8. ASSUME e < Len(sent)
      PROVE  /\ s[e+1] = start[e+1] - w /\ s[e+2] = start[e+2] - w
             /\ s[Len(sent)+1] = start[Len(sent)+1] - w
  <2>1. e + 1 \in e+1..Len(sent)+1 /\ e + 2 \in e+1..Len(sent)+1
        /\ Len(sent) + 1 \in e+1..Len(sent)+1
    BY <1>2, <1>8
  <2>2. QED
    BY <2>1, Zenon DEF s
<1>9. ASSUME e < Len(sent) PROVE whole => Full(less, sent, s)
  <2>1. SUFFICES ASSUME whole PROVE Len(less) + 1 = start[Len(sent)+1] - w
    BY <1>8, <1>9, Zenon DEF Full
  <2>2. Len(all) + 1 = start[Len(sent)+1]
    BY <1>4, <2>1, Zenon DEF Full
  <2>3. PICK l \in Nat : l = Len(all)
    BY <1>5
  <2>4. (l + 1) - w = (l - w) + 1
    BY <1>5
  <2>5. Len(less) + 1 = (l - w) + 1 /\ l + 1 = start[Len(sent)+1]
    BY <2>2, <2>3, <1>5, Zenon
  <2>6. QED
    BY <2>4, <2>5, Zenon
<1> HIDE DEF s
<1>10. ASSUME NEW o \in Nat, start[e+1] = 1 - o, o + w <= 3 \/ (o = 3 /\ w = f.size)
       PROVE  /\ e < Len(sent) /\ f \in Frame /\ start[e+2] = 4 - o + f.size
              /\ \A k \in 1..w : chunk[k] = ByteAt(f, (k + o) - 1)
  <2>1. w \in Nat \ {0}
    BY <1>2, <1>7
  <2>2. /\ e < Len(sent) /\ f \in Frame /\ start[e+2] = 4 - o + f.size
        /\ \A k \in 1..w : all[k] = ByteAt(f, (k + o) - 1)
    <3>1. e \in Nat /\ Laid(all, sent, e, start) /\ all \in Seq(Byte) /\ w <= Len(all)
      BY <1>2, <1>4, <1>5, <1>7, Zenon DEF e
    <3>2. o \in Nat /\ start[e+1] = 1 - o /\ (o + w <= 3 \/ (o = 3 /\ w = sent[e+1].size))
      BY <1>10, Zenon DEF f
    <3>3. /\ e < Len(sent) /\ sent[e+1] \in Frame
          /\ start[e+2] = 4 - o + sent[e+1].size
          /\ \A k \in 1..w : all[k] = ByteAt(sent[e+1], (k + o) - 1)
      <4>1. AtHead(all, sent, e, start, o, w)
        BY <3>1, <3>2, <2>1, Zenon DEF AtHead
      <4>2. Heads(all, sent, e, start, o, w)
        BY <4>1, Ahead
      <4>3. QED
        BY <4>2, Zenon DEF Heads
    <3>4. QED
      BY <3>3, Zenon DEF f
  <2>3. QED
    BY <2>2, <1>5, Zenon
<1> DEFINE left == [p EXCEPT !.buf = rest]
<1>11. left \in Reader /\ left.emitted = p.emitted /\ left.buf = rest
       /\ left.want = w /\ left.kind = p.kind /\ left.stage = p.stage
  BY <1>1, <1>5 DEF Reader, w
<1>12. CASE p.stage = "type"
  <2>1. start[e+1] = 1 /\ w = 1
    BY <1>4, <1>12 DEF AtStage, w
  <2>2. /\ e < Len(sent) /\ f \in Frame
        /\ \A k \in 1..w : chunk[k] = ByteAt(f, (k + 0) - 1)
    <3>1. start[e+1] = 1 - 0 /\ 0 + w <= 3 /\ 0 \in Nat
      BY <2>1
    <3>2. QED
      BY <3>1, <1>10, Zenon
  <2>3. q = [left EXCEPT !.kind = f.kind, !.want = 2, !.stage = "length"]
    <3>1. w \in Nat \ {0}
      BY <1>2, <1>7
    <3>2. QED
      BY <3>1, <2>2, <1>1, <1>12, Pieced, Zenon DEF q, w, chunk, rest
  <2> HIDE DEF left
  <2>4. f.kind \in {"J", "G"}
    BY <2>2 DEF Frame
  <2>5. q \in Reader /\ q.emitted = p.emitted /\ q.buf = rest
        /\ q.kind = f.kind /\ q.want = 2 /\ q.stage = "length"
    BY <2>3, <2>4, <1>11 DEF Reader
  <2>6. s[e+1] = 0
    BY <2>1, <2>2, <1>8
  <2>7. AtStage(q, sent, e, s)
    BY <2>2, <2>5, <2>6, Zenon DEF AtStage, f
  <2>8. Follows(q, data, sent, whole)
    BY <2>2, <2>5, <2>7, <1>6, <1>9, Zenon DEF Follows, less, e
  <2>9. ShowsSent(q, sent)
    BY <2>5, <1>1, Zenon DEF ShowsSent
  <2>10. QED
    BY <2>5, <2>8, <2>9, Zenon DEF InStep, q
<1>13. CASE p.stage = "length"
  <2>1. start[e+1] = 0 /\ w = 2 /\ p.kind = sent[e+1].kind
    BY <1>4, <1>13 DEF AtStage, w
  <2>2. /\ e < Len(sent) /\ f \in Frame
        /\ \A k \in 1..w : chunk[k] = ByteAt(f, (k + 1) - 1)
    <3>1. start[e+1] = 1 - 1 /\ 1 + w <= 3 /\ 1 \in Nat
      BY <2>1
    <3>2. QED
      BY <3>1, <1>10, Zenon
  <2>3. /\ q \in {[left EXCEPT !.open = FALSE], [left EXCEPT !.want = f.size, !.stage = "payload"]}
        /\ (f.size = 0 => q = [left EXCEPT !.open = FALSE])
    <3>1. w \in Nat \ {0} /\ 1 \in Nat
      BY <1>2, <1>7
    <3>2. QED
      BY <3>1, <2>2, <1>1, <1>13, Pieced, Zenon DEF q, w, chunk, rest
  <2> HIDE DEF left
  <2>4. f.size \in Nat
    BY <2>2 DEF Frame
  <2>5. CASE q = [left EXCEPT !.open = FALSE]
    <3>1. q \in Reader /\ q.emitted = p.emitted
      BY <2>5, <1>11 DEF Reader
    <3>2. ~q.open
      BY <2>5, <1>11, Zenon DEF Reader
    <3>3. ShowsSent(q, sent)
      BY <3>1, <1>1, Zenon DEF ShowsSent
    <3>4. QED
      BY <3>1, <3>2, <3>3, Zenon DEF InStep, q
  <2>6. CASE q = [left EXCEPT !.want = f.size, !.stage = "payload"] /\ f.size # 0
    <3>1. q \in Reader /\ q.emitted = p.emitted /\ q.buf = rest
          /\ q.kind = p.kind /\ q.want = f.size /\ q.stage = "payload"
      BY <2>4, <2>6, <1>11 DEF Reader
    <3>2. s[e+1] = -2 /\ q.want > 0
      BY <2>1, <2>2, <2>4, <2>6, <3>1, <1>8
    <3>3. AtStage(q, sent, e, s)
      BY <2>1, <2>2, <3>1, <3>2, Zenon DEF AtStage, f
    <3>4. Follows(q, data, sent, whole)
      BY <2>2, <3>1, <3>3, <1>6, <1>9, Zenon DEF Follows, less, e
    <3>5. ShowsSent(q, sent)
      BY <3>1, <1>1, Zenon DEF ShowsSent
    <3>6. QED
      BY <3>1, <3>4, <3>5, Zenon DEF InStep, q
  <2>7. QED
    BY <2>3, <2>5, <2>6, Zenon
<1>14. CASE p.stage = "payload"
  <2>1. start[e+1] = -2 /\ w = sent[e+1].size /\ p.kind = sent[e+1].kind
    BY <1>4, <1>14 DEF AtStage, w
  <2>2. /\ e < Len(sent) /\ f \in Frame /\ start[e+2] = 4 - 3 + f.size
        /\ \A k \in 1..w : chunk[k] = ByteAt(f, (k + 3) - 1)
    <3>1. start[e+1] = 1 - 3 /\ 3 \in Nat
      BY <2>1
    <3>2. w = f.size
      BY <2>1 DEF f
    <3>3. QED
      BY <3>1, <3>2, <1>10, Zenon
  <2> DEFINE one == [kind |-> p.kind, payload |-> chunk]
             emitted == Append(p.emitted, one)
  <2>3. q = [p EXCEPT !.buf = rest, !.emitted = emitted, !.want = 1, !.stage = "type"]
    BY <1>1, <1>14, PiecedLast, Zenon DEF q, w, chunk, rest
  <2>4. one = [kind |-> f.kind, payload |-> Payload(f)]
    <3>1. f.size \in Nat /\ w = f.size /\ p.kind = f.kind
      BY <2>1, <2>2 DEF Frame, f
    <3>2. /\ Payload(f) \in Seq(Byte) /\ Len(Payload(f)) = f.size
          /\ \A k \in 1..f.size : Payload(f)[k] = ByteAt(f, k + 2)
      BY <2>2, BytesOf, Zenon
    <3>3. ASSUME NEW k \in 1..w PROVE chunk[k] = Payload(f)[k]
      <4>1. (k + 3) - 1 = k + 2
        OBVIOUS
      <4>2. QED
        BY <4>1, <2>2, <3>1, <3>2, Zenon
    <3>4. chunk = Payload(f)
      <4>1. /\ chunk \in Seq(Byte) /\ Payload(f) \in Seq(Byte) /\ Len(chunk) = Len(Payload(f))
            /\ \A k \in 1..Len(chunk) : chunk[k] = Payload(f)[k]
        BY <3>1, <3>2, <3>3, <1>5, Zenon
      <4>2. QED
        BY ONLY <4>1, SeqEqual
    <3>5. QED
      BY <3>1, <3>4, Zenon
  <2>5. one \in Shown
    BY <1>2, <1>5 DEF Shown
  <2>6. /\ emitted \in Seq(Shown) /\ Len(emitted) = e + 1 /\ emitted[e+1] = one
        /\ \A i \in 1..e : emitted[i] = p.emitted[i]
    <3>1. p.emitted \in Seq(Shown)
      BY <1>2
    <3> HIDE DEF one
    <3>2. QED
      BY ONLY <3>1, <2>5, AppendProperties DEF e, emitted
  <2> HIDE DEF left, one, emitted
  <2>7. q \in Reader /\ q.emitted = emitted /\ q.buf = rest /\ q.want = 1 /\ q.stage = "type"
    BY <2>3, <2>6, <1>1, <1>5 DEF Reader
  <2>8. ShowsSent(q, sent)
    <3>1. e + 1 <= Len(sent) /\ \A i \in 1..e+1 : i \in 1..e \/ i = e + 1
      BY <2>2, <1>2
    <3>2. \A i \in 1..e : p.emitted[i] = [kind |-> sent[i].kind, payload |-> Payload(sent[i])]
      BY <1>1, Zenon DEF ShowsSent, e
    <3>3. \A i \in 1..e+1 : emitted[i] = [kind |-> sent[i].kind, payload |-> Payload(sent[i])]
      BY <3>1, <3>2, <2>4, <2>6, Zenon DEF f
    <3>4. QED
      BY <3>1, <3>3, <2>6, <2>7, Zenon DEF ShowsSent
  <2> DEFINE t == [j \in e+2..Len(sent)+1 |-> s[j]]
  <2>9. Laid(less, sent, e + 1, t)
    BY <2>2, <1>2, <1>5, <1>6, Advanced, Zenon
  <2>10. t[(e+1)+1] = 1 /\ t[Len(sent)+1] = s[Len(sent)+1]
    <3>1. e + 2 \in e+2..Len(sent)+1 /\ Len(sent)+1 \in e+2..Len(sent)+1 /\ (e + 1) + 1 = e + 2
      BY <2>2, <1>2
    <3>2. t[e+2] = s[e+2] /\ t[Len(sent)+1] = s[Len(sent)+1]
      BY <3>1, Zenon
    <3>3. s[e+2] = (4 - 3 + f.size) - w /\ w = f.size
      BY <2>1, <2>2, <1>8, Zenon DEF f
    <3>4. (4 - 3 + w) - w = 1
      BY <1>2
    <3>5. QED
      BY <3>1, <3>2, <3>3, <3>4, Zenon
  <2> HIDE DEF t
  <2>11. AtStage(q, sent, e + 1, t)
    BY <2>7, <2>10, Zenon DEF AtStage
  <2>12. Follows(q, data, sent, whole)
    BY <2>2, <2>6, <2>7, <2>9, <2>10, <2>11, <1>9, Zenon DEF Follows, Full, less
  <2>13. QED
    BY <2>7, <2>8, <2>12, Zenon DEF InStep, q
<1>15. QED
  BY <1>2, <1>12, <1>13, <1>14, Zenon

LEMMA PiecesKeep ==
    ASSUME NEW r, NEW data \in Seq(Byte), NEW sent \in Seq(Frame), NEW whole,
           InStep(r, data, sent, whole)
    PROVE  InStep(Pieces(r), data, sent, whole)
<1> DEFINE S == {p \in Reader : InStep(p, data, sent, whole)}
<1>1. r \in S /\ Len(r.buf) \in Nat
  <2>1. r \in Reader
    BY Zenon DEF InStep
  <2>2. Len(r.buf) \in Nat
    BY <2>1 DEF Reader
  <2>3. QED
    BY <2>1, <2>2, Zenon
<1>2. ASSUME NEW p \in S PROVE Turn(p) \in S
  <2>1. CASE p.open /\ Len(p.buf) >= p.want
    <3>1. InStep(Piece(p), data, sent, whole)
      BY <2>1, PieceKeeps, Zenon
    <3>2. Turn(p) = Piece(p)
      BY <2>1, Zenon DEF Turn
    <3>3. QED
      BY <3>1, <3>2, Zenon DEF InStep
  <2>2. CASE ~(p.open /\ Len(p.buf) >= p.want)
    BY <2>2, Zenon DEF Turn
  <2>3. QED
    BY <2>1, <2>2, Zenon
<1>3. Pieces(r) \in S
  <2> HIDE DEF S
  <2>1. QED
    BY <1>1, <1>2, LoopKeeps, Zenon
<1>4. QED
  BY <1>3, Zenon

-----------------------------------------------------------------------------
(* The steps of the pipe.                                                  *)

\* What is cut off the pipe and put behind the buffer stays where it was.
LEMMA Recut ==
    ASSUME NEW buf \in Seq(Byte), NEW data \in Seq(Byte), NEW k \in 0..Len(data)
    PROVE  LET first == SubSeq(data, 1, k)
               rest  == SubSeq(data, k + 1, Len(data))
           IN  /\ first \in Seq(Byte) /\ rest \in Seq(Byte) /\ buf \o first \in Seq(Byte)
               /\ Len(rest) = Len(data) - k
               /\ (buf \o first) \o rest = buf \o data
<1> DEFINE first == SubSeq(data, 1, k)
           rest  == SubSeq(data, k + 1, Len(data))
<1>1. /\ rest \in Seq(Byte) /\ first \in Seq(Byte)
      /\ k \in 0..Len(<<>> \o data) /\ Len(rest \o <<>>) = Len(data \o <<>>) - k
  <2>1. <<>> \in Seq(Byte)
    OBVIOUS
  <2>2. <<>> \o data = data
    BY ConcatEmptySeq
  <2>3. /\ rest \in Seq(Byte) /\ first \in Seq(Byte)
        /\ Len(rest \o <<>>) = Len(data \o <<>>) - k
    BY <2>1, Consumed, Zenon
  <2>4. QED
    BY <2>2, <2>3, Zenon
<1>2. Len(rest) = Len(data) - k
  <2>1. rest \o <<>> = rest /\ data \o <<>> = data
    BY <1>1, ConcatEmptySeq
  <2>2. QED
    BY <1>1, <2>1, Zenon
<1>3. first \o rest = data
  <2>1. Len(data) \in Nat /\ 1 \in 1..Len(data)+1 /\ k \in 0..Len(data) /\ Len(data) \in k..Len(data)
    OBVIOUS
  <2>2. SubSeq(data, 1, k) \o SubSeq(data, k + 1, Len(data)) = SubSeq(data, 1, Len(data))
    <3>1. k \in 1-1..Len(data)
      BY <2>1
    <3>2. QED
      BY <2>1, <3>1, ConcatAdjacentSubSeq
  <2>3. SubSeq(data, 1, Len(data)) = data
    BY SubSeqFull
  <2>4. QED
    BY <2>2, <2>3
<1> HIDE DEF first, rest
<1>4. (buf \o first) \o rest = buf \o (first \o rest) /\ buf \o first \in Seq(Byte)
  <2>1. first \in Seq(Byte) /\ rest \in Seq(Byte)
    BY <1>1
  <2>2. (buf \o first) \o rest = buf \o (first \o rest)
    BY ONLY <2>1, buf \in Seq(Byte), ConcatAssociative
  <2>3. buf \o first \in Seq(Byte)
    BY ONLY <2>1, buf \in Seq(Byte), ConcatProperties
  <2>4. QED
    BY <2>2, <2>3
<1>5. QED
  BY <1>1, <1>2, <1>3, <1>4, Zenon DEF first, rest

LEMMA Together ==
    ASSUME NEW a \in Seq(Byte), NEW b \in Seq(Byte), NEW c \in Seq(Byte)
    PROVE  (a \o b) \o c = a \o (b \o c)
BY ConcatAssociative

LEMMA PipeStarts == InitPipe => PipeInv
<1> SUFFICES ASSUME InitPipe PROVE PipeInv
  OBVIOUS
<1>1. pipe = [open |-> FALSE, data |-> <<>>, sent |-> <<>>]
  BY DEF InitPipe, NewPipe
<1>2. Len(<<>>) <= Capacity
  BY PipeAssumption
<1>3. PipeOK(pipe, None)
  BY <1>1, <1>2 DEF PipeOK
<1>4. QED
  BY <1>3, Zenon DEF PipeInv, InitPipe

LEMMA PipeFresh == PipeOK(NewPipe, NewReader)
<1>1. NewPipe = [open |-> TRUE, data |-> <<>>, sent |-> <<>>]
  BY DEF NewPipe
<1>2. NewReader \in Reader /\ NewReader.emitted = <<>> /\ NewReader.buf = <<>>
      /\ NewReader.stage = "type" /\ NewReader.want = 1
  BY DEF NewReader, Reader
<1>3. /\ NewPipe \in [open : BOOLEAN, data : Seq(Byte), sent : Seq(Frame)]
      /\ Len(NewPipe.data) <= Capacity /\ NewPipe.data = <<>> /\ NewPipe.sent = <<>>
  BY <1>1, PipeAssumption
<1>4. ShowsSent(NewReader, <<>>)
  BY <1>2 DEF ShowsSent
<1> DEFINE start == [j \in 0+1..0+1 |-> 1]
<1>5. /\ Laid(<<>> \o <<>>, <<>>, 0, start) /\ AtStage(NewReader, <<>>, 0, start)
      /\ Full(<<>> \o <<>>, <<>>, start)
  <2>1. <<>> \o <<>> = <<>> /\ Len(<<>>) = 0 /\ start[0+1] = 1
    OBVIOUS
  <2>2. start \in [0+1..0+1 -> Int] /\ 0+1..0 = {}
    OBVIOUS
  <2> HIDE DEF start
  <2>3. Laid(<<>>, <<>>, 0, start)
    BY <2>1, <2>2 DEF Laid
  <2>4. AtStage(NewReader, <<>>, 0, start)
    BY <2>1, <1>2 DEF AtStage
  <2>5. QED
    BY <2>1, <2>3, <2>4 DEF Full
<1>6. Follows(NewReader, <<>>, <<>>, NewPipe.open)
  <2>1. Len(NewReader.emitted) = 0
    BY <1>2
  <2> HIDE DEF start
  <2>2. QED
    BY <2>1, <1>2, <1>5, Zenon DEF Follows
<1>7. QED
  BY <1>2, <1>3, <1>4, <1>6, Zenon DEF PipeOK, InStep

LEMMA PipeDropped ==
    ASSUME NEW p, NEW r, PipeOK(p, r)
    PROVE  PipeOK([p EXCEPT !.data = <<>>, !.sent = <<>>], None)
<1>1. Len(<<>>) <= Capacity
  BY PipeAssumption
<1> DEFINE q == [p EXCEPT !.data = <<>>, !.sent = <<>>]
<1>2. p \in [open : BOOLEAN, data : Seq(Byte), sent : Seq(Frame)]
  BY Zenon DEF PipeOK
<1>3. <<>> \in Seq(Byte) /\ <<>> \in Seq(Frame)
  OBVIOUS
<1>4. q \in [open : BOOLEAN, data : Seq(Byte), sent : Seq(Frame)] /\ q.data = <<>>
  BY <1>2, <1>3
<1> HIDE DEF q
<1>5. PipeOK(q, None)
  BY <1>1, <1>4, Zenon DEF PipeOK
<1>6. QED
  BY <1>5, Zenon DEF q

LEMMA PipeEnded ==
    ASSUME NEW p, NEW r, PipeOK(p, r)
    PROVE  PipeOK(ClosedEnd(p), r)
<1> DEFINE q == ClosedEnd(p)
<1>1. /\ q \in [open : BOOLEAN, data : Seq(Byte), sent : Seq(Frame)]
      /\ Len(q.data) <= Capacity /\ q.data = p.data /\ q.sent = p.sent
  BY DEF PipeOK, ClosedEnd
<1>2. ~q.open
  BY Zenon DEF PipeOK, ClosedEnd
<1> HIDE DEF q
<1>3. ASSUME r # None PROVE InStep(r, q.data, q.sent, q.open)
  <2>1. InStep(r, p.data, p.sent, p.open)
    BY <1>3, Zenon DEF PipeOK
  <2>2. QED
    BY <2>1, <1>1, <1>2, Zenon DEF InStep, Follows
<1>4. QED
  BY <1>1, <1>3, Zenon DEF PipeOK, q

LEMMA PipeRead == PipeInv /\ Read => PipeInv'
<1> SUFFICES ASSUME PipeInv, Read PROVE PipeInv'
  OBVIOUS
<1> DEFINE data == pipe.data
<1>1. /\ pipe \in [open : BOOLEAN, data : Seq(Byte), sent : Seq(Frame)]
      /\ data \in Seq(Byte) /\ pipe.sent \in Seq(Frame)
      /\ Len(data) <= Capacity /\ frames \in Nat
  BY DEF PipeInv, PipeOK
<1>2. InStep(reader, data, pipe.sent, pipe.open) /\ reader.open /\ frames' = frames
  BY Zenon DEF PipeInv, PipeOK, Read
<1>3. reader \in Reader /\ reader.buf \in Seq(Byte)
  BY <1>2 DEF InStep, Reader
<1> HIDE DEF data
<1>4. ASSUME NEW k \in 1..Len(data),
             reader' = Pieces([reader EXCEPT !.buf = @ \o SubSeq(data, 1, k)]),
             pipe' = [pipe EXCEPT !.data = SubSeq(@, k + 1, Len(@))]
      PROVE  PipeOK(pipe', reader')
  <2> DEFINE fed  == [reader EXCEPT !.buf = reader.buf \o SubSeq(data, 1, k)]
             left == SubSeq(data, k + 1, Len(data))
  <2>1. k \in 0..Len(data)
    BY <1>1
  <2>2. /\ left \in Seq(Byte) /\ reader.buf \o SubSeq(data, 1, k) \in Seq(Byte)
        /\ Len(left) = Len(data) - k
        /\ (reader.buf \o SubSeq(data, 1, k)) \o left = reader.buf \o data
    BY <2>1, <1>1, <1>3, Recut, Zenon
  <2> HIDE DEF left
  <2>3. /\ pipe' \in [open : BOOLEAN, data : Seq(Byte), sent : Seq(Frame)]
        /\ pipe'.data = left /\ pipe'.sent = pipe.sent
    BY <2>2, <1>1, <1>4 DEF left, data
  <2>4. pipe'.open = pipe.open
    BY <1>1, <1>4, Zenon
  <2>5. Len(left) <= Capacity
    BY <2>2, <1>1, PipeAssumption
  <2>6. /\ fed \in Reader /\ fed.buf = reader.buf \o SubSeq(data, 1, k)
        /\ fed.emitted = reader.emitted /\ fed.stage = reader.stage
        /\ fed.want = reader.want /\ fed.kind = reader.kind
    BY <2>2, <1>3 DEF Reader
  <2> HIDE DEF fed
  <2>7. InStep(fed, left, pipe.sent, pipe.open)
    <3>1. ShowsSent(fed, pipe.sent)
      BY <2>6, <1>2, Zenon DEF InStep, ShowsSent
    <3>2. PICK start : /\ Laid(reader.buf \o data, pipe.sent, Len(reader.emitted), start)
                       /\ AtStage(reader, pipe.sent, Len(reader.emitted), start)
                       /\ pipe.open => Full(reader.buf \o data, pipe.sent, start)
      BY <1>2, Zenon DEF InStep, Follows
    <3>3. AtStage(fed, pipe.sent, Len(fed.emitted), start)
      BY <3>2, <2>6, Zenon DEF AtStage
    <3>4. Follows(fed, left, pipe.sent, pipe.open)
      BY <3>2, <3>3, <2>2, <2>6, Zenon DEF Follows
    <3>5. QED
      BY <3>1, <3>4, <2>6, Zenon DEF InStep
  <2>8. InStep(Pieces(fed), left, pipe.sent, pipe.open)
    BY <2>7, <2>2, <1>1, PiecesKeep, Zenon
  <2>9. reader' = Pieces(fed)
    BY <1>4, Zenon DEF fed
  <2>10. QED
    BY <2>3, <2>4, <2>5, <2>8, <2>9, Zenon DEF PipeOK
<1>5. ASSUME reader' = [reader EXCEPT !.open = FALSE], pipe' = pipe
      PROVE  PipeOK(pipe', reader')
  <2>1. reader' \in Reader /\ reader'.emitted = reader.emitted
    BY <1>3, <1>5 DEF Reader
  <2>2. ~reader'.open
    BY <1>3, <1>5, Zenon DEF Reader
  <2>3. ShowsSent(reader', pipe.sent)
    BY <2>1, <1>2, Zenon DEF InStep, ShowsSent
  <2>4. InStep(reader', data, pipe.sent, pipe.open)
    BY <2>1, <2>2, <2>3, Zenon DEF InStep
  <2>5. QED
    BY <2>4, <1>1, <1>5, Zenon DEF PipeOK, data
<1>6. PipeOK(pipe', reader')
  BY <1>4, <1>5, Zenon DEF Read, data
<1>7. QED
  BY <1>1, <1>2, <1>6, Zenon DEF PipeInv

LEMMA PipeWrites ==
    ASSUME PipeInv, reader # None, NEW f \in Frames, Write(f)
    PROVE  PipeInv'
<1> DEFINE data == pipe.data
           room == Capacity - Len(data)
           fits == Len(Bytes(f)) <= room
           m    == IF fits THEN Len(Bytes(f)) ELSE IF room = 2 THEN 1 ELSE room
           added == SubSeq(Bytes(f), 1, m)
           sent == Append(pipe.sent, f)
<1>1. /\ pipe \in [open : BOOLEAN, data : Seq(Byte), sent : Seq(Frame)]
      /\ data \in Seq(Byte) /\ pipe.sent \in Seq(Frame)
      /\ Len(data) <= Capacity /\ frames \in Nat /\ Capacity \in Nat
  BY PipeAssumption DEF PipeInv, PipeOK
<1>2. InStep(reader, data, pipe.sent, pipe.open)
  BY Zenon DEF PipeInv, PipeOK
<1>3. /\ pipe.open /\ frames' = frames + 1 /\ reader' = reader
      /\ pipe' = [open |-> fits, sent |-> sent, data |-> data \o added]
  BY Zenon DEF Write
<1>4. f \in Frame
  <2>1. PICK c \in Contents : f = [kind |-> c.kind, size |-> c.size, n |-> frames + 1]
    BY DEF Frames
  <2>2. c \in [kind : {"J", "G"}, size : Nat]
    BY PipeAssumption
  <2>3. QED
    BY <2>1, <2>2, <1>1 DEF Frame
<1>5. PICK z \in Nat, l \in Nat : z = f.size /\ l = Len(data) /\ Len(Bytes(f)) = 3 + z
  BY <1>1, <1>4, BytesOf DEF Frame
<1>6. /\ m \in 0..3 + f.size /\ l + m <= Capacity
      /\ fits => m = 3 + f.size
  <2>1. room \in Nat /\ room = Capacity - l
    BY <1>1, <1>5
  <2>2. CASE fits
    BY <2>1, <2>2, <1>1, <1>5
  <2>3. CASE ~fits
    <3>1. room < 3 + z
      BY <2>1, <2>3, <1>5
    <3>2. (IF room = 2 THEN 1 ELSE room) \in 0..3+z /\ l + (IF room = 2 THEN 1 ELSE room) <= Capacity
      BY <2>1, <3>1, <1>1
    <3>3. m = IF room = 2 THEN 1 ELSE room
      BY <2>3, Zenon
    <3> HIDE DEF m, room, fits
    <3>4. QED
      BY <3>2, <3>3, <2>3, <1>5, Zenon
  <2>4. QED
    BY <2>2, <2>3, Zenon
<1>7. /\ sent \in Seq(Frame) /\ Len(sent) = Len(pipe.sent) + 1
      /\ \A i \in 1..Len(pipe.sent) : sent[i] = pipe.sent[i]
  BY <1>1, <1>4, AppendProperties
<1> HIDE DEF room, fits, m
<1>8. \A k \in 1..m : Bytes(f)[k] \in Byte
  <2>1. \A k \in 1..m : k \in 1..3 + f.size
    BY <1>5, <1>6
  <2>2. QED
    BY <2>1, <1>4, BytesOf, ElementOfSeq, Zenon
<1>9. added \in Seq(Byte) /\ Len(added) = m
  <2>1. m \in Nat
    BY <1>5, <1>6
  <2>2. added \in Seq(Byte) /\ Len(added) = IF 1 <= m THEN m - 1 + 1 ELSE 0
    BY <2>1, <1>8, SubSeqProperties
  <2>3. QED
    BY <2>1, <2>2
<1> HIDE DEF added, sent
<1>10. data \o added \in Seq(Byte) /\ Len(data \o added) = l + m
  BY <1>1, <1>5, <1>9, ConcatProperties
<1> HIDE DEF data
<1>11. reader \in Reader /\ reader.buf \in Seq(Byte) /\ Len(reader.emitted) \in Nat
       /\ reader.emitted \in Seq(Shown)
  BY <1>2 DEF InStep, Reader
<1>12. ShowsSent(reader, sent)
  <2>1. ShowsSent(reader, pipe.sent)
    BY <1>2, Zenon DEF InStep
  <2>2. Len(reader.emitted) <= Len(pipe.sent)
    BY <2>1 DEF ShowsSent
  <2>3. /\ Len(reader.emitted) <= Len(sent)
        /\ \A i \in 1..Len(reader.emitted) : i \in 1..Len(pipe.sent)
    BY <2>2, <1>1, <1>7, <1>11
  <2>4. QED
    BY <2>1, <2>3, <1>7, Zenon DEF ShowsSent
<1>13. ASSUME reader.open PROVE Follows(reader, data \o added, sent, fits)
  <2> DEFINE e == Len(reader.emitted)
             all == reader.buf \o data
  <2>1. PICK start : /\ Laid(all, pipe.sent, e, start) /\ AtStage(reader, pipe.sent, e, start)
                     /\ Full(all, pipe.sent, start)
    BY <1>2, <1>3, <1>13, Zenon DEF InStep, Follows
  <2>2. all \in Seq(Byte)
    BY <1>1, <1>11, ConcatProperties
  <2> HIDE DEF all, e
  <2> DEFINE more == Behind(start, pipe.sent, e, f)
  <2>3. /\ Laid(all \o added, sent, e, more) /\ more[e+1] = start[e+1]
        /\ m = 3 + f.size => Full(all \o added, sent, more)
    <3>1. e \in Nat /\ pipe.sent \in Seq(Frame)
      BY <1>1, <1>11 DEF e
    <3>2. QED
      <4>1. Laid(all, pipe.sent, e, start) /\ Full(all, pipe.sent, start)
        BY <2>1
      <4>2. m \in 0..3 + f.size
        BY <1>6
      <4>3. QED
        BY ONLY <3>1, <4>1, <4>2, <2>2, <1>4, Extended DEF added, sent
  <2> HIDE DEF more
  <2>4. all \o added = reader.buf \o (data \o added)
    <3>1. reader.buf \in Seq(Byte) /\ data \in Seq(Byte) /\ added \in Seq(Byte)
      BY <1>1, <1>9, <1>11, Zenon DEF data
    <3>2. QED
      BY <3>1, Together, Zenon DEF all
  <2>5. e \in Nat /\ (e < Len(pipe.sent) => e < Len(sent) /\ sent[e+1] = pipe.sent[e+1])
    <3>1. e < Len(pipe.sent) => e + 1 \in 1..Len(pipe.sent) /\ e < Len(sent)
      BY <1>1, <1>7, <1>11 DEF e
    <3>2. QED
      BY <3>1, <1>7, <1>11, Zenon DEF e
  <2>6. AtStage(reader, sent, e, more)
    BY <2>1, <2>3, <2>5, Zenon DEF AtStage
  <2>7. QED
    BY <2>3, <2>4, <2>6, <1>6, Zenon DEF Follows, e
<1>14. InStep(reader, data \o added, sent, fits)
  BY <1>11, <1>12, <1>13, Zenon DEF InStep
<1>15. /\ pipe' \in [open : BOOLEAN, data : Seq(Byte), sent : Seq(Frame)]
       /\ pipe'.data = data \o added /\ pipe'.sent = sent
  <2>1. fits \in BOOLEAN
    BY DEF fits
  <2>2. QED
    BY <2>1, <1>3, <1>7, <1>10
<1>16. pipe'.open = fits
  BY <1>3, Zenon
<1>17. Len(pipe'.data) <= Capacity
  BY <1>6, <1>10, <1>15
<1>18. PipeOK(pipe', reader')
  BY <1>3, <1>14, <1>15, <1>16, <1>17, Zenon DEF PipeOK
<1>19. frames' \in Nat
  BY <1>1, <1>3
<1>20. QED
  BY <1>18, <1>19, Zenon DEF PipeInv

LEMMA PipeWhole == PipeInv => FramesWhole
BY Zenon DEF PipeInv, PipeOK, InStep, ShowsSent, FramesWhole
=============================================================================
