----------------------------- MODULE PipeProofs -----------------------------
(***************************************************************************)
(* A pipe of any size, with any number of readers and writers.             *)
(*                                                                         *)
(* Under RingInv the bytes between tail and head are those with the        *)
(* numbers received + 1 to sent, in order.  So the channel the ring stands *)
(* for is Bytes(received, PIPE_SIZE), and a chunk moves one end of it.     *)
(***************************************************************************)
EXTENDS Pipe, FiniteSetTheorems, SequenceTheorems, TLAPS

LEMMA SizeIsNat == PAGE_SIZE \in Nat /\ PAGE_SIZE > 1
BY PipeConstants

(* n & (PAGE_SIZE-1) of an offset at most one round away from the ring. *)
LEMMA MaskIs ==
  ASSUME NEW n \in Int
  PROVE  /\ n \in 0 .. PAGE_SIZE - 1 => Mask(n) = n
         /\ n \in PAGE_SIZE .. 2 * PAGE_SIZE - 1 => Mask(n) = n - PAGE_SIZE
         /\ n \in -PAGE_SIZE .. -1 => Mask(n) = n + PAGE_SIZE
         /\ Mask(n) \in 0 .. PAGE_SIZE - 1
<1>1. PAGE_SIZE \in Nat /\ PAGE_SIZE > 1
  BY SizeIsNat
<1>2. Mask(n) \in 0 .. PAGE_SIZE - 1
  BY <1>1 DEF Mask
<1>3. n \in 0 .. PAGE_SIZE - 1 => Mask(n) = n
  BY <1>1 DEF Mask
<1>4. n \in PAGE_SIZE .. 2 * PAGE_SIZE - 1 => Mask(n) = n - PAGE_SIZE
  BY <1>1 DEF Mask
<1>5. n \in -PAGE_SIZE .. -1 => Mask(n) = n + PAGE_SIZE
  BY <1>1 DEF Mask
<1> QED BY <1>2, <1>3, <1>4, <1>5

(* n bytes, the first of them with the number r + 1. *)
Bytes(r, n) == [i \in 1 .. n |-> r + i]

IsBytes(s, r, n) ==
  s \in Seq(Nat) /\ Len(s) = n /\ \A i \in 1 .. n : s[i] = r + i

LEMMA BytesIs ==
  ASSUME NEW r \in Nat, NEW n \in Nat
  PROVE  IsBytes(Bytes(r, n), r, n)
BY DEF Bytes, IsBytes

LEMMA BytesUnique ==
  ASSUME NEW r \in Nat, NEW n \in Nat, NEW s, IsBytes(s, r, n)
  PROVE  s = Bytes(r, n)
<1>1. IsBytes(Bytes(r, n), r, n)
  BY BytesIs
<1> DEFINE t == Bytes(r, n)
<1> HIDE DEF t
<1>2. s \in Seq(Nat) /\ t \in Seq(Nat) /\ Len(s) = Len(t) /\ \A i \in 1 .. Len(s) : s[i] = t[i]
  BY <1>1 DEF IsBytes, t
<1>3. s = t
  BY <1>2, SeqEqual
<1> QED BY <1>3 DEF t

LEMMA BytesAdded ==
  ASSUME NEW r \in Nat, NEW n \in Nat, NEW m \in Nat
  PROVE  Bytes(r, n) \o Bytes(r + n, m) = Bytes(r, n + m)
<1> DEFINE A == Bytes(r, n)
           B == Bytes(r + n, m)
<1>1. r + n \in Nat /\ n + m \in Nat
  OBVIOUS
<1>2. IsBytes(A, r, n) /\ IsBytes(B, r + n, m)
  BY <1>1, BytesIs
<1> HIDE DEF A, B
<1>3. /\ A \in Seq(Nat) /\ Len(A) = n /\ \A i \in 1 .. n : A[i] = r + i
      /\ B \in Seq(Nat) /\ Len(B) = m /\ \A i \in 1 .. m : B[i] = r + n + i
  BY <1>2 DEF IsBytes
<1>4. /\ A \o B \in Seq(Nat) /\ Len(A \o B) = n + m
      /\ \A i \in 1 .. (n + m) : (A \o B)[i] = IF i =< n THEN A[i] ELSE B[i - n]
  <2>1. A \in Seq(Nat) /\ B \in Seq(Nat) /\ Len(A) = n /\ Len(B) = m
    BY <1>3
  <2>2. /\ A \o B \in Seq(Nat)
        /\ Len(A \o B) = Len(A) + Len(B)
        /\ \A i \in 1 .. Len(A) + Len(B) :
             (A \o B)[i] = IF i <= Len(A) THEN A[i] ELSE B[i - Len(A)]
    BY <2>1, ConcatProperties
  <2> QED BY <2>1, <2>2
<1>5. \A i \in 1 .. (n + m) : (A \o B)[i] = r + i
  <2> TAKE i \in 1 .. (n + m)
  <2>1. CASE i =< n
    BY <1>3, <1>4, <2>1
  <2>2. CASE i > n
    <3>1. i - n \in 1 .. m /\ (r + n) + (i - n) = r + i
      BY <2>2
    <3>2. B[i - n] = (r + n) + (i - n)
      BY <1>3, <3>1
    <3> QED BY <1>4, <2>2, <3>1, <3>2
  <2>3. i =< n \/ i > n
    OBVIOUS
  <2> QED BY <2>1, <2>2, <2>3
<1>6. IsBytes(A \o B, r, n + m)
  BY <1>4, <1>5 DEF IsBytes
<1>7. A \o B = Bytes(r, n + m)
  BY <1>1, <1>6, BytesUnique
<1> QED BY <1>7 DEF A, B

LEMMA BytesTaken ==
  ASSUME NEW r \in Nat, NEW n \in Nat, NEW k \in 0 .. n
  PROVE  SubSeq(Bytes(r, n), k + 1, n) = Bytes(r + k, n - k)
<1> DEFINE A == Bytes(r, n)
<1>1. IsBytes(A, r, n)
  BY BytesIs
<1> HIDE DEF A
<1>2. A \in Seq(Nat) /\ Len(A) = n /\ \A i \in 1 .. n : A[i] = r + i
  BY <1>1 DEF IsBytes
<1>3. /\ SubSeq(A, k + 1, n) \in Seq(Nat) /\ Len(SubSeq(A, k + 1, n)) = n - k
      /\ \A i \in 1 .. (n - k) : SubSeq(A, k + 1, n)[i] = A[k + i]
  BY <1>2
<1>4. \A i \in 1 .. (n - k) : SubSeq(A, k + 1, n)[i] = (r + k) + i
  BY <1>2, <1>3
<1>5. IsBytes(SubSeq(A, k + 1, n), r + k, n - k)
  BY <1>3, <1>4 DEF IsBytes
<1>6. r + k \in Nat /\ n - k \in Nat
  OBVIOUS
<1>7. SubSeq(A, k + 1, n) = Bytes(r + k, n - k)
  BY <1>5, <1>6, BytesUnique
<1> QED BY <1>7 DEF A
-----------------------------------------------------------------------------
Ring == 0 .. PAGE_SIZE - 1

(* The ring holds what was sent and not received, in order. *)
RingInv ==
  /\ head \in Ring /\ tail \in Ring
  /\ page \in [Ring -> Nat]
  /\ count \in [Tasks -> Nat]
  /\ sent \in Nat /\ received \in Nat
  /\ sent = received + PIPE_SIZE
  /\ \A i \in 1 .. PIPE_SIZE : page[Mask(tail + i - 1)] = received + i

LEMMA PipeSizeIs ==
  ASSUME NEW h \in Ring, NEW t \in Ring
  PROVE  /\ Mask(h - t) = IF t =< h THEN h - t ELSE h - t + PAGE_SIZE
         /\ Mask(h - t) \in Ring
<1>1. h - t \in Int /\ PAGE_SIZE \in Nat /\ PAGE_SIZE > 1
  BY SizeIsNat DEF Ring
<1>2. t =< h => h - t \in 0 .. PAGE_SIZE - 1
  BY <1>1 DEF Ring
<1>3. ~(t =< h) => h - t \in -PAGE_SIZE .. -1
  BY <1>1 DEF Ring
<1> QED BY <1>1, <1>2, <1>3, MaskIs DEF Ring

LEMMA Min3Is ==
  ASSUME NEW a \in Nat, NEW b \in Nat, NEW c \in Nat, a > 0, b > 0, c > 0
  PROVE  /\ Min3(a, b, c) \in Nat /\ Min3(a, b, c) > 0
         /\ Min3(a, b, c) =< a /\ Min3(a, b, c) =< b /\ Min3(a, b, c) =< c
BY DEF Min3

LEMMA ContentsIs == RingInv => Contents = Bytes(received, PIPE_SIZE)
BY DEF RingInv, Contents, Bytes

(* A step forward in the ring, up to the end of the page. *)
LEMMA Forward ==
  ASSUME NEW x \in Ring, NEW k \in Nat, x + k =< PAGE_SIZE
  PROVE  /\ Mask(x + k) \in Ring
         /\ x + k < PAGE_SIZE => Mask(x + k) = x + k
         /\ x + k = PAGE_SIZE => Mask(x + k) = 0
<1>1. x + k \in Int /\ PAGE_SIZE \in Nat /\ PAGE_SIZE > 1
  BY SizeIsNat DEF Ring
<1>2. x + k < PAGE_SIZE => x + k \in 0 .. PAGE_SIZE - 1
  BY <1>1 DEF Ring
<1>3. x + k = PAGE_SIZE => x + k \in PAGE_SIZE .. 2 * PAGE_SIZE - 1 /\ (x + k) - PAGE_SIZE = 0
  BY <1>1 DEF Ring
<1> QED BY <1>1, <1>2, <1>3, MaskIs DEF Ring

(* read_pipe() takes the k oldest bytes. *)
LEMMA ReadIsReceive ==
  ASSUME RingInv, NEW t \in Tasks, ReadChunk(t)
  PROVE  RingInv' /\ C!Next /\ PIPE_SIZE > 0
<1> DEFINE k == Min3(PAGE_SIZE - tail, count[t], PIPE_SIZE)
           n == PIPE_SIZE
           r == received
<1>0. /\ head \in Ring /\ tail \in Ring /\ page \in [Ring -> Nat] /\ count \in [Tasks -> Nat]
      /\ sent \in Nat /\ r \in Nat /\ sent = r + n
      /\ PAGE_SIZE \in Nat /\ PAGE_SIZE > 1
      /\ \A i \in 1 .. n : page[Mask(tail + i - 1)] = r + i
  BY SizeIsNat DEF RingInv
<1>1. n \in Ring /\ n = IF tail =< head THEN head - tail ELSE head - tail + PAGE_SIZE
  BY <1>0, PipeSizeIs DEF PIPE_SIZE
<1>2. /\ tail' = Mask(tail + k) /\ count' = [count EXCEPT ![t] = @ - k] /\ received' = r + k
      /\ head' = head /\ page' = page /\ sent' = sent
      /\ count[t] > 0 /\ n > 0
  BY DEF ReadChunk
<1>3. k \in Nat /\ k > 0 /\ k =< PAGE_SIZE - tail /\ k =< count[t] /\ k =< n
  <2>1. PAGE_SIZE - tail \in Nat /\ PAGE_SIZE - tail > 0 /\ count[t] \in Nat /\ n \in Nat
    BY <1>0, <1>1 DEF Ring
  <2> QED BY <1>2, <2>1, Min3Is
<1> HIDE DEF k, n
<1>4. /\ tail' \in Ring
      /\ tail + k < PAGE_SIZE => tail' = tail + k
      /\ tail + k = PAGE_SIZE => tail' = 0
  <2>1. tail + k =< PAGE_SIZE
    BY <1>0, <1>3 DEF Ring
  <2> QED BY <1>0, <1>2, <1>3, <2>1, Forward
<1>5. PIPE_SIZE' = n - k
  <2>1. PIPE_SIZE' = IF tail' =< head THEN head - tail' ELSE head - tail' + PAGE_SIZE
    BY <1>0, <1>2, <1>4, PipeSizeIs DEF PIPE_SIZE
  <2>2. /\ tail \in Int /\ head \in Int /\ k \in Int /\ n \in Int /\ PAGE_SIZE \in Int
        /\ 0 =< head /\ head < PAGE_SIZE /\ 0 =< tail /\ tail < PAGE_SIZE
        /\ 0 < k /\ k =< n /\ k =< PAGE_SIZE - tail
    BY <1>0, <1>1, <1>3 DEF Ring
  <2>3. CASE tail =< head
    <3>1. n = head - tail /\ tail + k =< head /\ tail + k < PAGE_SIZE
      BY <1>1, <2>2, <2>3
    <3> QED BY <1>4, <2>1, <2>2, <3>1
  <2>4. CASE head < tail /\ tail + k < PAGE_SIZE
    BY <1>1, <1>4, <2>1, <2>2, <2>4
  <2>5. CASE head < tail /\ tail + k = PAGE_SIZE
    BY <1>1, <1>4, <2>1, <2>2, <2>5
  <2> QED BY <2>2, <2>3, <2>4, <2>5
<1>6. count' \in [Tasks -> Nat]
  BY <1>0, <1>2, <1>3
<1>7. ASSUME NEW i \in 1 .. (n - k)
      PROVE  page'[Mask(tail' + i - 1)] = r + k + i
  <2>1. /\ k + i \in 1 .. n /\ tail + (k + i) - 1 \in Int /\ tail' + i - 1 \in Int
    BY <1>0, <1>1, <1>3, <1>4 DEF Ring
  <2>2. Mask(tail' + i - 1) = Mask(tail + (k + i) - 1)
    <3>1. CASE tail + k < PAGE_SIZE
      <4>1. tail' + i - 1 = tail + (k + i) - 1
        BY <1>0, <1>3, <1>4, <3>1 DEF Ring
      <4> QED BY <4>1
    <3>2. CASE tail + k = PAGE_SIZE
      <4>1. /\ tail' + i - 1 \in 0 .. PAGE_SIZE - 1 /\ tail' + i - 1 = i - 1
            /\ tail + (k + i) - 1 \in PAGE_SIZE .. 2 * PAGE_SIZE - 1
            /\ tail + (k + i) - 1 = PAGE_SIZE + (i - 1)
        BY <1>0, <1>1, <1>3, <1>4, <3>2 DEF Ring
      <4>2. Mask(tail' + i - 1) = tail' + i - 1
        BY <2>1, <4>1, MaskIs
      <4>3. Mask(tail + (k + i) - 1) = (tail + (k + i) - 1) - PAGE_SIZE
        BY <2>1, <4>1, MaskIs
      <4> QED BY <1>0, <4>1, <4>2, <4>3
    <3> QED BY <1>0, <1>3, <3>1, <3>2 DEF Ring
  <2>3. page[Mask(tail + (k + i) - 1)] = r + (k + i)
    BY <1>0, <2>1
  <2> QED BY <1>0, <1>2, <1>3, <2>2, <2>3
<1>8. RingInv'
  BY SMTT(30), <1>0, <1>1, <1>2, <1>3, <1>4, <1>5, <1>6, <1>7 DEF RingInv, Ring
<1>9. Contents = Bytes(r, n) /\ Contents' = Bytes(r + k, n - k)
  <2>1. Contents' = Bytes(received', PIPE_SIZE')
    BY <1>8 DEF RingInv, Contents, Bytes
  <2> QED BY <1>2, <1>5, <2>1, ContentsIs DEF n
<1>10. IsBytes(Contents, r, n) /\ Contents' = SubSeq(Contents, k + 1, n)
  <2>1. r \in Nat /\ n \in Nat /\ k \in 0 .. n
    BY <1>0, <1>1, <1>3 DEF Ring
  <2> QED BY <1>9, <2>1, BytesIs, BytesTaken
<1>11. C!Receive(k)
  <2>1. Len(Contents) = n /\ \A i \in 1 .. n : Contents[i] = r + i
    BY <1>10 DEF IsBytes
  <2> HIDE DEF r
  <2> QED BY <1>1, <1>2, <1>3, <1>10, <2>1 DEF C!Receive, r, Ring
<1>12. k \in 1 .. (PAGE_SIZE - 1)
  BY <1>0, <1>1, <1>3 DEF Ring
<1> QED BY <1>2, <1>8, <1>11, <1>12 DEF C!Next, n

(* write_pipe() adds the next k bytes behind the newest one, and writes    *)
(* over none that is still to be read.                                     *)
LEMMA WriteIsSend ==
  ASSUME RingInv, NEW t \in Tasks, WriteChunk(t)
  PROVE  RingInv' /\ C!Next
<1> DEFINE k == Min3(PAGE_SIZE - head, count[t], Room)
           n == PIPE_SIZE
           r == received
<1>0. /\ head \in Ring /\ tail \in Ring /\ page \in [Ring -> Nat] /\ count \in [Tasks -> Nat]
      /\ sent \in Nat /\ r \in Nat /\ sent = r + n
      /\ PAGE_SIZE \in Nat /\ PAGE_SIZE > 1
      /\ \A i \in 1 .. n : page[Mask(tail + i - 1)] = r + i
  BY SizeIsNat DEF RingInv
<1>1. n \in Ring /\ n = IF tail =< head THEN head - tail ELSE head - tail + PAGE_SIZE
  BY <1>0, PipeSizeIs DEF PIPE_SIZE
<1>2. /\ head' = Mask(head + k) /\ count' = [count EXCEPT ![t] = @ - k] /\ received' = r
      /\ tail' = tail /\ sent' = sent + k
      /\ page' = [i \in Ring |->
                    IF i \in head .. head + k - 1 THEN sent + (i - head) + 1 ELSE page[i]]
      /\ count[t] > 0 /\ Room > 0
  BY DEF WriteChunk, Ring
<1>3. k \in Nat /\ k > 0 /\ k =< PAGE_SIZE - head /\ k =< count[t] /\ k =< (PAGE_SIZE - 1) - n
  <2>1. /\ PAGE_SIZE - head \in Nat /\ PAGE_SIZE - head > 0 /\ count[t] \in Nat
        /\ Room \in Nat /\ Room = (PAGE_SIZE - 1) - n
    BY <1>0, <1>1 DEF Ring, Room
  <2>2. k \in Nat /\ k > 0 /\ k =< PAGE_SIZE - head /\ k =< count[t] /\ k =< Room
    BY <1>2, <2>1, Min3Is
  <2> QED BY <2>1, <2>2
<1> HIDE DEF k, n
<1>4. /\ tail \in Int /\ head \in Int /\ k \in Int /\ n \in Int /\ PAGE_SIZE \in Int
      /\ 0 =< head /\ head < PAGE_SIZE /\ 0 =< tail /\ tail < PAGE_SIZE
      /\ 0 < k /\ head + k =< PAGE_SIZE /\ n + k =< PAGE_SIZE - 1 /\ 0 =< n
  BY <1>0, <1>1, <1>3 DEF Ring
<1>5. /\ head' \in Ring
      /\ head + k < PAGE_SIZE => head' = head + k
      /\ head + k = PAGE_SIZE => head' = 0
  BY <1>0, <1>2, <1>3, <1>4, Forward
<1>6. PIPE_SIZE' = n + k
  <2>1. PIPE_SIZE' = IF tail =< head' THEN head' - tail ELSE head' - tail + PAGE_SIZE
    BY <1>0, <1>2, <1>5, PipeSizeIs DEF PIPE_SIZE
  <2>2. CASE tail =< head /\ head + k < PAGE_SIZE
    BY <1>1, <1>4, <1>5, <2>1, <2>2
  <2>3. CASE tail =< head /\ head + k = PAGE_SIZE
    <3>1. n = head - tail /\ head' = 0 /\ tail > 0
      BY <1>1, <1>4, <1>5, <2>3
    <3> QED BY <1>4, <2>1, <2>3, <3>1
  <2>4. CASE head < tail
    <3>1. n = head - tail + PAGE_SIZE /\ head + k < tail /\ head + k < PAGE_SIZE
      BY <1>1, <1>4, <2>4
    <3> QED BY <1>4, <1>5, <2>1, <3>1
  <2> QED BY <1>4, <2>2, <2>3, <2>4
<1>7. count' \in [Tasks -> Nat]
  BY <1>0, <1>2, <1>3
<1>8. page' \in [Ring -> Nat]
  <2>1. \A i \in Ring : i \in head .. head + k - 1 => sent + (i - head) + 1 \in Nat
    BY <1>0, <1>4 DEF Ring
  <2> QED BY <1>0, <1>2, <2>1
(* Where the i-th byte of the ring is. *)
<1> DEFINE place(i) == IF tail + i - 1 < PAGE_SIZE THEN tail + i - 1
                       ELSE tail + i - 1 - PAGE_SIZE
<1>9. ASSUME NEW i \in 1 .. (n + k)
      PROVE  Mask(tail + i - 1) = place(i) /\ place(i) \in Ring
  <2>1. tail + i - 1 \in Int /\ i \in Int
    BY <1>4
  <2>2. CASE tail + i - 1 < PAGE_SIZE
    <3>1. tail + i - 1 \in 0 .. PAGE_SIZE - 1
      BY <1>4, <2>1, <2>2
    <3> QED BY <2>1, <2>2, <3>1, MaskIs DEF Ring
  <2>3. CASE ~(tail + i - 1 < PAGE_SIZE)
    <3>1. tail + i - 1 \in PAGE_SIZE .. 2 * PAGE_SIZE - 1
      BY <1>4, <2>1, <2>3
    <3>2. (tail + i - 1) - PAGE_SIZE \in 0 .. PAGE_SIZE - 1
      BY <1>4, <3>1
    <3>3. Mask(tail + i - 1) = (tail + i - 1) - PAGE_SIZE
      BY <2>1, <3>1, MaskIs
    <3>4. place(i) = (tail + i - 1) - PAGE_SIZE
      BY <1>4, <2>1, <2>3
    <3> HIDE DEF place
    <3> QED BY <3>2, <3>3, <3>4 DEF Ring
  <2> QED BY <2>2, <2>3
<1>10. ASSUME NEW i \in 1 .. (n + k)
       PROVE  page'[Mask(tail' + i - 1)] = r + i
  <2>1. Mask(tail' + i - 1) = place(i) /\ place(i) \in Ring
    BY <1>2, <1>9
  <2>2. CASE i =< n
    <3>1. place(i) \notin head .. head + k - 1
      <4>1. CASE tail =< head
        BY <1>1, <1>4, <2>2, <4>1
      <4>2. CASE head < tail
        <5>1. n = head - tail + PAGE_SIZE /\ head + k < tail
          BY <1>1, <1>4, <4>2
        <5> QED BY <1>4, <2>2, <5>1
      <4> QED BY <1>4, <4>1, <4>2
    <3>2. page'[place(i)] = page[place(i)]
      BY <1>2, <2>1, <3>1
    <3>3. page[place(i)] = r + i
      <4>1. i \in 1 .. n
        BY <1>4, <2>2
      <4>2. page[Mask(tail + i - 1)] = r + i
        BY <1>0, <4>1
      <4> QED BY <4>2, <1>9
    <3> QED BY <2>1, <3>2, <3>3
  <2>3. CASE i > n
    <3>1. place(i) = head + (i - n - 1)
      <4>1. CASE tail =< head
        <5>1. n = head - tail
          BY <1>1, <4>1
        <5>2. tail + i - 1 = head + (i - n - 1) /\ tail + i - 1 < PAGE_SIZE
          BY <1>4, <2>3, <5>1
        <5> QED BY <5>2
      <4>2. CASE head < tail
        <5>1. n = head - tail + PAGE_SIZE
          BY <1>1, <1>4, <4>2
        <5>2. ~(tail + i - 1 < PAGE_SIZE) /\ tail + i - 1 - PAGE_SIZE = head + (i - n - 1)
          BY <1>4, <2>3, <5>1
        <5> QED BY <5>2
      <4> QED BY <1>4, <4>1, <4>2
    <3>2. place(i) \in head .. head + k - 1 /\ sent + (place(i) - head) + 1 = r + i
      BY <1>0, <1>4, <2>3, <3>1
    <3>3. page'[place(i)] = sent + (place(i) - head) + 1
      BY <1>2, <2>1, <3>2
    <3> QED BY <2>1, <3>2, <3>3
  <2> QED BY <1>4, <2>2, <2>3
<1>11. RingInv'
  <2>1. sent' \in Nat /\ sent' = r + (n + k)
    BY <1>0, <1>2, <1>3, <1>4
  <2> QED BY <1>0, <1>2, <1>5, <1>6, <1>7, <1>8, <1>10, <2>1 DEF RingInv
<1>12. /\ Contents = Bytes(r, n)
       /\ Contents' = Bytes(r, n + k)
  <2>1. Contents' = Bytes(received', PIPE_SIZE')
    BY <1>11 DEF RingInv, Contents, Bytes
  <2> QED BY <1>2, <1>6, <2>1, ContentsIs DEF n
<1>13. C!Send(k)
  <2>1. r \in Nat /\ n \in Nat /\ k \in Nat /\ sent = r + n
    BY <1>0, <1>3, <1>4
  <2>2. Len(Contents) = n
    BY <1>12, <2>1, BytesIs DEF IsBytes
  <2>3. Contents' = Contents \o Bytes(sent, k)
    BY <1>12, <2>1, BytesAdded
  <2>4. n + k =< PAGE_SIZE - 1
    BY <1>4
  <2> QED BY <1>2, <2>2, <2>3, <2>4 DEF C!Send, Bytes
<1>14. k \in 1 .. (PAGE_SIZE - 1)
  BY <1>4
<1> QED BY <1>11, <1>13, <1>14 DEF C!Next
-----------------------------------------------------------------------------
(* The ends that calls are at are open. *)
CallsOpen ==
  /\ open \subseteq Ends
  /\ pc \in [Tasks -> {"idle", "loop", "asleep"}]
  /\ \A t \in Tasks : pc[t] # "idle" => Side(t) \in open

PipeInv == RingInv /\ CallsOpen /\ SleepIsJustified /\ EofIsTrue

LEMMA BothOpen ==
  ASSUME open \subseteq Ends
  PROVE  Cardinality(open) = 2 <=> open = Ends
<1>1. IsFiniteSet(Ends) /\ Cardinality(Ends) = 2
  <2>1. IsFiniteSet({"read"}) /\ Cardinality({"read"}) = 1
    BY FS_Singleton
  <2>2. Ends = {"read"} \cup {"write"} /\ "write" \notin {"read"}
    BY DEF Ends
  <2>3. /\ IsFiniteSet({"read"} \cup {"write"})
        /\ Cardinality({"read"} \cup {"write"}) = Cardinality({"read"}) + 1
    BY <2>1, <2>2, FS_AddElement
  <2> QED BY <2>1, <2>2, <2>3
<1>2. Cardinality(open) = Cardinality(Ends) => open = Ends
  BY <1>1, FS_Subset
<1> QED BY <1>1, <1>2

(* A step that leaves the ring alone stutters in the channel. *)
LEMMA RingUnchanged ==
  ASSUME RingInv, UNCHANGED <<head, tail, page, sent, received>>, count' \in [Tasks -> Nat]
  PROVE  RingInv' /\ UNCHANGED <<Contents, sent, received>> /\ PIPE_SIZE' = PIPE_SIZE
BY DEF RingInv, Contents, PIPE_SIZE

LEMMA StepPipeInv ==
  ASSUME PipeInv, [Next]_vars
  PROVE  PipeInv' /\ [C!Next]_(C!cvars)
<1>0. /\ RingInv /\ CallsOpen /\ SleepIsJustified /\ EofIsTrue
      /\ Readers \cap Writers = {} /\ NULL \notin Tasks /\ count \in [Tasks -> Nat]
      /\ Tasks = Readers \cup Writers
  BY PipeConstants DEF PipeInv, Tasks, RingInv
<1>1. ASSUME RingInv' /\ UNCHANGED <<Contents, sent, received>> /\ PIPE_SIZE' = PIPE_SIZE,
             CallsOpen', SleepIsJustified', EofIsTrue'
      PROVE  PipeInv' /\ [C!Next]_(C!cvars)
  BY <1>1 DEF PipeInv, C!cvars
<1>2. ASSUME NEW t \in Tasks, NEW n \in 1 .. MaxCount, Call(t, n)
      PROVE  PipeInv' /\ [C!Next]_(C!cvars)
  <2>1. count' \in [Tasks -> Nat] /\ UNCHANGED <<head, tail, page, sent, received, open, eof>>
    BY <1>0, <1>2, PipeConstants DEF Call
  <2>2. CallsOpen'
    BY <1>0, <1>2 DEF Call, CallsOpen
  <2>3. SleepIsJustified'
    BY <1>0, <1>2 DEF Call, SleepIsJustified
  <2>4. EofIsTrue'
    BY <1>0, <2>1 DEF EofIsTrue
  <2> QED BY <1>0, <1>1, <2>1, <2>2, <2>3, <2>4, RingUnchanged
<1>3. ASSUME NEW t \in Tasks, Done(t)
      PROVE  PipeInv' /\ [C!Next]_(C!cvars)
  <2>1. /\ count' \in [Tasks -> Nat] /\ UNCHANGED <<head, tail, page, sent, received, open, eof>>
        /\ pc' = [wake_up EXCEPT ![t] = "idle"]
    BY <1>0, <1>3 DEF Done
  <2>2. \A u \in Tasks : pc'[u] # "asleep"
    BY <1>0, <2>1 DEF wake_up, CallsOpen
  <2>3. CallsOpen'
    BY <1>0, <2>1 DEF wake_up, CallsOpen, Side
  <2>4. SleepIsJustified'
    BY <2>2 DEF SleepIsJustified
  <2>5. EofIsTrue'
    BY <1>0, <2>1 DEF EofIsTrue
  <2> QED BY <1>0, <1>1, <2>1, <2>3, <2>4, <2>5, RingUnchanged
<1>4. ASSUME NEW t \in Tasks, Blocked(t)
      PROVE  PipeInv' /\ [C!Next]_(C!cvars)
  <2>1. /\ UNCHANGED <<head, tail, page, sent, received, open>>
        /\ pc[t] = "loop" /\ Side(t) \in open /\ Stuck(t)
    BY <1>0, <1>4 DEF Blocked, CallsOpen
  <2>2. count' \in [Tasks -> Nat]
    BY <1>0, <1>4 DEF Blocked
  <2>3. RingInv' /\ UNCHANGED <<Contents, sent, received>> /\ PIPE_SIZE' = PIPE_SIZE
    BY <1>0, <2>1, <2>2, RingUnchanged
  <2>4. CASE Cardinality(open) # 2 /\ pc' = [wake_up EXCEPT ![t] = "idle"] /\ eof' = eof \cup {t}
    <3>1. \A u \in Tasks : pc'[u] # "asleep"
      BY <1>0, <2>4 DEF wake_up, CallsOpen
    <3>2. CallsOpen'
      BY <1>0, <2>1, <2>4 DEF wake_up, CallsOpen, Side
    <3>3. SleepIsJustified'
      BY <3>1 DEF SleepIsJustified
    <3>4. EofIsTrue'
      <4>1. CASE t \in Readers
        <5>1. "read" \in open /\ open # Ends /\ open \subseteq Ends
          BY <1>0, <2>1, <2>4, <4>1, BothOpen DEF Side, CallsOpen
        <5>2. "write" \notin open
          BY <5>1 DEF Ends
        <5>3. received = sent
          BY <1>0, <2>1, <4>1 DEF Stuck, RingInv
        <5> QED BY <2>1, <5>2, <5>3 DEF EofIsTrue
      <4>2. CASE t \notin Readers
        BY <1>0, <2>1, <2>4, <4>2 DEF EofIsTrue
      <4> QED BY <4>1, <4>2
    <3> QED BY <1>1, <2>3, <3>2, <3>3, <3>4
  <2>5. CASE Cardinality(open) = 2 /\ pc' = [wake_up EXCEPT ![t] = "asleep"] /\ eof' = eof
    <3>1. \A u \in Tasks : pc'[u] = "asleep" => u = t
      BY <1>0, <2>5 DEF wake_up, CallsOpen
    <3>2. CallsOpen'
      BY <1>0, <2>1, <2>5 DEF wake_up, CallsOpen, Side
    <3>3. open = Ends
      BY <1>0, <2>5, BothOpen DEF CallsOpen
    <3>4. SleepIsJustified'
      BY <2>1, <2>3, <3>1, <3>3 DEF SleepIsJustified, Stuck, Room
    <3>5. EofIsTrue'
      BY <1>0, <2>1, <2>5 DEF EofIsTrue
    <3> QED BY <1>1, <2>3, <3>2, <3>4, <3>5
  <2> QED BY <1>4, <2>4, <2>5 DEF Blocked
<1>5. ASSUME NEW t \in Tasks, ReadChunk(t)
      PROVE  PipeInv' /\ [C!Next]_(C!cvars)
  <2>1. RingInv' /\ C!Next /\ PIPE_SIZE > 0
    BY <1>0, <1>5, ReadIsReceive
  <2>2. CallsOpen'
    BY <1>0, <1>5 DEF ReadChunk, CallsOpen, Side
  <2>3. SleepIsJustified'
    BY <1>0, <1>5 DEF ReadChunk, SleepIsJustified
  <2>4. EofIsTrue'
    <3>1. received # sent
      <4>1. sent = received + PIPE_SIZE /\ received \in Nat /\ PIPE_SIZE \in Nat
        <5>1. PIPE_SIZE \in Ring
          BY <1>0, PipeSizeIs DEF RingInv, PIPE_SIZE
        <5> QED BY <1>0, <5>1, SizeIsNat DEF RingInv, Ring
      <4> QED BY <2>1, <4>1
    <3> QED BY <1>0, <1>5, <3>1 DEF EofIsTrue, ReadChunk
  <2> QED BY <2>1, <2>2, <2>3, <2>4 DEF PipeInv
<1>6. ASSUME NEW t \in Tasks, WriteChunk(t)
      PROVE  PipeInv' /\ [C!Next]_(C!cvars)
  <2>1. RingInv' /\ C!Next
    BY <1>0, <1>6, WriteIsSend
  <2>2. CallsOpen'
    BY <1>0, <1>6 DEF WriteChunk, CallsOpen, Side
  <2>3. SleepIsJustified'
    BY <1>0, <1>6 DEF WriteChunk, SleepIsJustified
  <2>4. EofIsTrue'
    <3>1. "write" \in open
      BY <1>0, <1>6 DEF WriteChunk, CallsOpen, Side
    <3> QED BY <1>0, <1>6, <3>1 DEF EofIsTrue, WriteChunk
  <2> QED BY <2>1, <2>2, <2>3, <2>4 DEF PipeInv
<1>7. ASSUME NEW end \in Ends, Close(end)
      PROVE  PipeInv' /\ [C!Next]_(C!cvars)
  <2>1. /\ count' \in [Tasks -> Nat] /\ UNCHANGED <<head, tail, page, sent, received, eof>>
        /\ pc' = wake_up /\ open' = open \ {end}
        /\ \A t \in Tasks : Side(t) = end => pc[t] = "idle"
    BY <1>0, <1>7 DEF Close
  <2>2. \A u \in Tasks : pc'[u] # "asleep"
    BY <1>0, <2>1 DEF wake_up, CallsOpen
  <2>3. CallsOpen'
    BY <1>0, <2>1 DEF wake_up, CallsOpen, Side
  <2>4. SleepIsJustified'
    BY <2>2 DEF SleepIsJustified
  <2>5. EofIsTrue'
    BY <1>0, <2>1 DEF EofIsTrue
  <2> QED BY <1>0, <1>1, <2>1, <2>3, <2>4, <2>5, RingUnchanged
<1>8. CASE UNCHANGED vars
  <2>1. UNCHANGED <<head, tail, page, open, pc, count, cpu, sent, received, eof>>
    BY <1>8 DEF vars
  <2>2. RingInv' /\ UNCHANGED <<Contents, sent, received>> /\ PIPE_SIZE' = PIPE_SIZE
    BY <1>0, <2>1, RingUnchanged
  <2>3. CallsOpen' /\ EofIsTrue'
    BY <1>0, <2>1 DEF CallsOpen, Side, EofIsTrue
  <2>4. SleepIsJustified'
    BY <1>0, <2>1, <2>2 DEF SleepIsJustified, Room
  <2> QED BY <1>1, <2>2, <2>3, <2>4
<1> QED BY <1>2, <1>3, <1>4, <1>5, <1>6, <1>7, <1>8 DEF Next, TaskStep

LEMMA InitPipeInv == Init => PipeInv /\ C!Init
<1> SUFFICES ASSUME Init PROVE PipeInv /\ C!Init
  OBVIOUS
<1>1. PAGE_SIZE \in Nat /\ PAGE_SIZE > 1 /\ 0 \in Ring
  BY SizeIsNat DEF Ring
<1>2. PIPE_SIZE = 0
  BY <1>1, PipeSizeIs DEF Init, PIPE_SIZE
<1>3. RingInv
  BY <1>1, <1>2 DEF Init, RingInv, Ring
<1>4. Contents = <<>>
  <2>1. Contents = Bytes(0, 0)
    BY <1>2, <1>3, ContentsIs DEF Init
  <2>2. Bytes(0, 0) \in Seq(Nat) /\ Len(Bytes(0, 0)) = 0
    BY BytesIs DEF IsBytes
  <2> QED BY <2>1, <2>2
<1>5. CallsOpen /\ SleepIsJustified /\ EofIsTrue
  BY DEF Init, CallsOpen, SleepIsJustified, EofIsTrue
<1> QED BY <1>3, <1>4, <1>5 DEF PipeInv, C!Init, Init

(* A pipe of any size is a first-in first-out channel: every byte is       *)
(* delivered once and in order, whatever the chunks, the wrap-around and   *)
(* the interleaving of any number of readers and writers (pipe.c:14-69).   *)
THEOREM PipeImplementsChannel == Spec => IsChannel
<1>1. PipeInv /\ [Next]_vars => PipeInv' /\ [C!Next]_(C!cvars)
  BY StepPipeInv
<1> QED BY <1>1, InitPipeInv, PTL DEF Spec, IsChannel, C!Spec

(* No reader and writer ever sleep on each other: whoever sleeps has an    *)
(* empty or a full ring in front of it and the other end open, although a  *)
(* call moves several chunks and wakes the others only at its end.         *)
THEOREM NobodySleepsForNothing == Spec => []SleepIsJustified
<1>1. PipeInv /\ [Next]_vars => PipeInv'
  BY StepPipeInv
<1>2. PipeInv => SleepIsJustified
  BY DEF PipeInv
<1> QED BY <1>1, <1>2, InitPipeInv, PTL DEF Spec

(* A reader is told of the end of the file only when the writers are gone  *)
(* and every byte was delivered (pipe.c:20-24).                            *)
THEOREM EofOnlyAtEnd == Spec => []EofIsTrue
<1>1. PipeInv /\ [Next]_vars => PipeInv'
  BY StepPipeInv
<1>2. PipeInv => EofIsTrue
  BY DEF PipeInv
<1> QED BY <1>1, <1>2, InitPipeInv, PTL DEF Spec
=============================================================================
