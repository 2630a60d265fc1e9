---------------------------- MODULE DrivesProofs ----------------------------
(***************************************************************************)
(* The block drivers, for every table of requests, set of blocks, disk     *)
(* geometry and number of errors.                                          *)
(*                                                                         *)
(* First the queue by itself: its shape (one request per block, ordered by *)
(* different sectors) makes IN_ORDER total on the list, and that is why    *)
(* add_request() cannot open a third sweep.  Then each driver's steps are  *)
(* steps of the queue, and with the queue's invariant each driver works on *)
(* the sectors of the request at the head.                                 *)
(***************************************************************************)
EXTENDS MCDrives, FiniteSetTheorems, WellFoundedInduction, SequenceTheorems, TLAPS

(* A set of numbers has a least one. *)
LEMMA LeastNumber ==
  ASSUME NEW T \in SUBSET Nat, T # {}
  PROVE  \E x \in T : \A y \in T : x =< y
<1> DEFINE F == {0..x : x \in T}
           R == StrictSubsetOrdering(Nat)
<1>1. F \subseteq FiniteSubsetsOf(Nat)
  <2>1. \A x \in Nat : IsFiniteSet(0..x) /\ 0..x \subseteq Nat
    BY FS_Interval
  <2> QED BY <2>1 DEF FiniteSubsetsOf
<1>2. F # {}
  OBVIOUS
<1>3. IsWellFoundedOn(R, FiniteSubsetsOf(Nat))
  BY FS_StrictSubsetOrderingWellFounded
<1> HIDE DEF R
<1>4. PICK U \in F : \A V \in F : ~(<<V, U>> \in R)
  BY <1>1, <1>2, <1>3, WFMin
<1>5. PICK x \in T : U = 0..x
  BY <1>4
<1>6. ASSUME NEW y \in T, y < x PROVE FALSE
  <2>1. 0..y \in F /\ 0..y \subseteq 0..x /\ 0..y # 0..x
    BY <1>6
  <2>2. <<0..y, 0..x>> \in R
    BY <2>1 DEF R, StrictSubsetOrdering
  <2> QED BY <2>1, <2>2, <1>4, <1>5
<1> QED BY <1>6

LEMMA MinIsLeast ==
  ASSUME NEW T \in SUBSET Nat, T # {}
  PROVE  Min(T) \in T /\ \A y \in T : Min(T) =< y
BY LeastNumber DEF Min

LEMMA MaxIsGreatest ==
  ASSUME NEW n \in Nat, NEW T \in SUBSET (0 .. n), T # {}
  PROVE  Max(T) \in T /\ \A y \in T : Max(T) >= y
<1> DEFINE D == {n - x : x \in T}
<1>1. D \in SUBSET Nat /\ D # {}
  <2>1. \A x \in T : n - x \in Nat /\ n - x \in D
    OBVIOUS
  <2> QED BY <2>1
<1>2. PICK d \in D : \A y \in D : d =< y
  BY <1>1, LeastNumber
<1>3. PICK x \in T : d = n - x
  BY <1>2
<1>4. \A y \in T : x >= y
  <2> TAKE y \in T
  <2>1. n - y \in D
    OBVIOUS
  <2> QED BY <2>1, <1>2, <1>3
<1> QED BY <1>3, <1>4 DEF Max
-----------------------------------------------------------------------------
Requests == [cmd : {READ, WRITE}, dev : {1}, sector : {2 * b : b \in Blocks},
             bh : Blocks, slot : 0 .. NR_REQUEST - 1]

LEMMA RequestIs ==
  ASSUME NEW r \in Requests
  PROVE  r.bh \in Blocks /\ r.bh \in Nat /\ r.sector \in Nat /\ r.cmd \in {READ, WRITE} /\ r.dev = 1
<1>1. r.bh \in Blocks /\ r.cmd \in {READ, WRITE} /\ r.dev = 1
  BY DEF Requests
<1>2. r.sector \in Nat
  BY QueueConstants DEF Requests
<1> QED BY <1>1, <1>2, QueueConstants

(* M is L with e put in after its k-th element. *)
Inserted(M, L, k, e) ==
  /\ Len(M) = Len(L) + 1
  /\ \A i \in 1 .. (Len(L) + 1) :
       M[i] = IF i =< k THEN L[i] ELSE IF i = k + 1 THEN e ELSE L[i - 1]

LEMMA InsertAtIs ==
  ASSUME NEW S, NEW L \in Seq(S), NEW e \in S, NEW k \in 0 .. Len(L)
  PROVE  InsertAt(L, k + 1, e) \in Seq(S) /\ Inserted(InsertAt(L, k + 1, e), L, k, e)
<1> DEFINE A == SubSeq(L, 1, k)
           C == SubSeq(L, k + 1, Len(L))
           M == (A \o <<e>>) \o C
<1>1. /\ A \in Seq(S) /\ Len(A) = k /\ \A i \in 1 .. k : A[i] = L[i]
      /\ C \in Seq(S) /\ Len(C) = Len(L) - k
      /\ \A i \in 1 .. (Len(L) - k) : C[i] = L[k + i]
  OBVIOUS
<1>2. InsertAt(L, k + 1, e) = M
  <2>1. (k + 1) - 1 = k
    OBVIOUS
  <2> QED BY <2>1 DEF InsertAt
<1> HIDE DEF A, C
<1>3. /\ A \o <<e>> \in Seq(S) /\ Len(A \o <<e>>) = k + 1
      /\ \A i \in 1 .. (k + 1) : (A \o <<e>>)[i] = IF i =< k THEN L[i] ELSE e
  BY <1>1
<1> DEFINE B == A \o <<e>>
<1> HIDE DEF B
<1>4. /\ M \in Seq(S) /\ Len(M) = Len(L) + 1
      /\ \A i \in 1 .. (Len(L) + 1) :
           M[i] = IF i =< k + 1 THEN B[i] ELSE C[i - (k + 1)]
  BY <1>1, <1>3 DEF B
<1>5. \A i \in 1 .. (Len(L) + 1) :
        M[i] = IF i =< k THEN L[i] ELSE IF i = k + 1 THEN e ELSE L[i - 1]
  <2> HIDE DEF M
  <2> TAKE i \in 1 .. (Len(L) + 1)
  <2>1. CASE i =< k + 1
    BY SMTT(30), <2>1, <1>3, <1>4 DEF B
  <2>2. CASE i > k + 1
    <3>1. i - (k + 1) \in 1 .. (Len(L) - k)
      BY <2>2
    <3>2. C[i - (k + 1)] = L[k + (i - (k + 1))]
      BY <3>1, <1>1
    <3> QED BY <2>2, <3>1, <3>2, <1>4
  <2> QED BY <2>1, <2>2
<1> HIDE DEF M
<1> QED BY <1>2, <1>4, <1>5 DEF Inserted
-----------------------------------------------------------------------------
(* Requests for different sectors are in one order or in the other. *)
LEMMA InOrderTotal ==
  ASSUME NEW r \in Requests, NEW s \in Requests, r.sector # s.sector
  PROVE  IN_ORDER(r, s) \/ IN_ORDER(s, r)
<1>1. r.cmd \in Int /\ s.cmd \in Int /\ r.dev = s.dev /\ r.sector \in Int /\ s.sector \in Int
  BY QueueConstants DEF Requests, READ, WRITE
<1> QED BY <1>1 DEF IN_ORDER

Descent(L, i) == ~IN_ORDER(L[i], L[i + 1])

OneDescent(L) ==
  \A i, j \in 1 .. (Len(L) - 1) : Descent(L, i) /\ Descent(L, j) => i = j

(* Where the loop of add_request() stops. *)
Stops(L, r) ==
  {j \in 1 .. (Len(L) - 1) : (IN_ORDER(L[j], r) \/ Descent(L, j)) /\ IN_ORDER(r, L[j + 1])}

LEMMA AddRequestIs ==
  ASSUME NEW L \in Seq(Requests), NEW r \in Requests
  PROVE  \E k \in 0 .. Len(L) :
           /\ add_request(L, r) \in Seq(Requests) /\ Inserted(add_request(L, r), L, k, r)
           /\ IF Stops(L, r) = {} THEN k = Len(L) ELSE k \in Stops(L, r)
<1> DEFINE T == Stops(L, r)
           k == IF T = {} THEN Len(L) ELSE Min(T)
<1>1. add_request(L, r) = InsertAt(L, k + 1, r)
  BY DEF add_request, Stops, Descent
<1>2. T \in SUBSET Nat /\ T \subseteq 0 .. Len(L)
  BY DEF Stops
<1> HIDE DEF T
<1>3. T # {} => Min(T) \in T
  BY <1>2, MinIsLeast
<1>4. k \in 0 .. Len(L) /\ IF T = {} THEN k = Len(L) ELSE k \in T
  <2>1. CASE T = {}
    BY <2>1
  <2>2. CASE T # {}
    BY <2>2, <1>2, <1>3
  <2> QED BY <2>1, <2>2
<1> HIDE DEF k
<1>5. /\ InsertAt(L, k + 1, r) \in Seq(Requests)
      /\ Inserted(InsertAt(L, k + 1, r), L, k, r)
  BY <1>4, InsertAtIs
<1> QED BY <1>1, <1>4, <1>5 DEF T

(* If the loop reaches the end, the list either ends before req or has no  *)
(* descent yet: a descent after which req still fits is a place to stop.   *)
LEMMA NoStopNoDescent ==
  ASSUME NEW L \in Seq(Requests), NEW r \in Requests, L # <<>>,
         \A i \in 1 .. Len(L) : L[i].sector # r.sector,
         Stops(L, r) = {}, ~IN_ORDER(L[Len(L)], r),
         NEW d \in 1 .. (Len(L) - 1), Descent(L, d)
  PROVE  FALSE
<1> DEFINE n == Len(L)
           T == {k \in (d + 1) .. n : IN_ORDER(r, L[k])}
<1>0. n \in Nat /\ n >= 1 /\ \A i \in 1 .. n : L[i] \in Requests
  OBVIOUS
<1>1. \A i \in 1 .. n : IN_ORDER(L[i], r) \/ IN_ORDER(r, L[i])
  BY <1>0, InOrderTotal
<1>2. n \in T
  BY <1>0, <1>1
<1>3. PICK k \in T : \A y \in T : k =< y
  <2>1. T \in SUBSET Nat /\ T # {}
    BY <1>2
  <2> QED BY <2>1, LeastNumber
<1>4. k # d + 1
  BY <1>3 DEF Stops
<1>5. k - 1 \in 1 .. (n - 1) /\ k - 1 \in (d + 1) .. n /\ (k - 1) + 1 = k
  BY <1>3, <1>4, <1>0
<1>6. ~IN_ORDER(r, L[k - 1])
  BY <1>3, <1>5
<1>7. IN_ORDER(L[k - 1], r)
  BY <1>1, <1>5, <1>6, <1>0
<1>8. k - 1 \in Stops(L, r)
  BY <1>3, <1>5, <1>7 DEF Stops
<1> QED BY <1>8

(* The elevator: a request for another sector goes into one of the two     *)
(* sweeps of the list and opens no third.                                  *)
LEMMA AddKeepsOneDescent ==
  ASSUME NEW L \in Seq(Requests), NEW r \in Requests,
         \A i \in 1 .. Len(L) : L[i].sector # r.sector,
         OneDescent(L)
  PROVE  OneDescent(add_request(L, r))
<1> DEFINE n == Len(L)
           M == add_request(L, r)
<1>1. PICK k \in 0 .. n :
        /\ Inserted(M, L, k, r)
        /\ IF Stops(L, r) = {} THEN k = n ELSE k \in Stops(L, r)
  BY AddRequestIs
<1>2. /\ Len(M) = n + 1
      /\ \A i \in 1 .. (n + 1) :
           M[i] = IF i =< k THEN L[i] ELSE IF i = k + 1 THEN r ELSE L[i - 1]
  BY <1>1 DEF Inserted
<1> SUFFICES OneDescent(M)
  OBVIOUS
<1> HIDE DEF M
<1>3. n \in Nat /\ k \in Nat /\ k =< n
  OBVIOUS
(* The descents of the new list are old ones, but for the two at req. *)
<1>4. ASSUME NEW i \in 1 .. n, Descent(M, i)
      PROVE  \/ i < k /\ Descent(L, i)
             \/ i = k /\ ~IN_ORDER(L[k], r)
             \/ i = k + 1 /\ ~IN_ORDER(r, L[k + 1])
             \/ i > k + 1 /\ i - 1 \in 1 .. (n - 1) /\ Descent(L, i - 1)
  <2>1. i \in 1 .. (n + 1) /\ i + 1 \in 1 .. (n + 1)
    BY <1>3
  <2>2. CASE i < k
    BY <2>1, <2>2, <1>2, <1>3, <1>4 DEF Descent
  <2>3. CASE i = k
    BY <2>1, <2>3, <1>2, <1>3, <1>4 DEF Descent
  <2>4. CASE i = k + 1
    BY <2>1, <2>4, <1>2, <1>3, <1>4 DEF Descent
  <2>5. CASE i > k + 1
    <3>1. (i + 1) - 1 = i /\ (i - 1) + 1 = i /\ M[i] = L[i - 1] /\ M[i + 1] = L[i]
      BY <2>1, <2>5, <1>2, <1>3
    <3> QED BY <2>5, <3>1, <1>3, <1>4 DEF Descent
  <2> QED BY <2>2, <2>3, <2>4, <2>5, <1>3
<1>5. SUFFICES ASSUME NEW i \in 1 .. n, NEW j \in 1 .. n, Descent(M, i), Descent(M, j)
               PROVE  i = j
  BY <1>2, <1>3 DEF OneDescent
<1>6. CASE Stops(L, r) = {}
  <2>1. k = n
    BY <1>1, <1>6
  <2>2. CASE n = 0
    BY <2>2
  <2>3. CASE n > 0 /\ IN_ORDER(L[n], r)
    BY <1>3, <1>4, <1>5, <2>1, <2>3 DEF OneDescent
  <2>4. CASE n > 0 /\ ~IN_ORDER(L[n], r)
    <3>1. \A d \in 1 .. (n - 1) : ~Descent(L, d)
      BY <1>6, <2>4, NoStopNoDescent
    <3> QED BY <1>3, <1>4, <1>5, <2>1, <3>1
  <2> QED BY <1>3, <2>2, <2>3, <2>4
<1>7. CASE Stops(L, r) # {}
  <2>1. /\ k \in 1 .. (n - 1) /\ IN_ORDER(r, L[k + 1])
        /\ IN_ORDER(L[k], r) \/ Descent(L, k)
    BY <1>1, <1>7 DEF Stops
  <2>2. CASE IN_ORDER(L[k], r)
    <3>1. \A x \in 1 .. n : Descent(M, x) =>
            (x < k /\ Descent(L, x)) \/ (x > k + 1 /\ x - 1 \in 1 .. (n - 1) /\ Descent(L, x - 1))
      BY <1>3, <1>4, <2>1, <2>2
    <3> QED BY <1>3, <1>5, <2>1, <3>1 DEF OneDescent
  <2>3. CASE Descent(L, k)
    <3>1. \A x \in 1 .. n : Descent(M, x) => x = k
      <4> TAKE x \in 1 .. n
      <4> HAVE Descent(M, x)
      <4>1. ~(x < k)
        BY <1>3, <1>4, <2>1, <2>3 DEF OneDescent
      <4>2. ~(x > k + 1)
        BY <1>3, <1>4, <2>1, <2>3 DEF OneDescent
      <4>3. x # k + 1
        BY <1>3, <1>4, <2>1
      <4> QED BY <4>1, <4>2, <4>3, <1>3
    <3> QED BY <1>5, <3>1
  <2> QED BY <2>1, <2>2, <2>3
<1> QED BY <1>6, <1>7
-----------------------------------------------------------------------------
(* One request per block, for its sectors, while its task waits for it. *)
Queued ==
  \A i \in 1 .. Len(list) : list[i].sector = 2 * list[i].bh /\ pc[list[i].bh] = "queued"

OncePerBlock ==
  \A i, j \in 1 .. Len(list) : list[i].bh = list[j].bh => i = j

(* Whoever found no entry, asleep or still on the way to sleep_on(), has a *)
(* request before it that will end; on the way, one more than may still be *)
(* served.  Unless requests have been dropped.                             *)
SomeoneWakes ==
  "dropped" \notin ended =>
    /\ (\E b \in Blocks : pc[b] \in {"full", "asleep"}) => list # <<>>
    /\ ~CpuFree /\ "served" \notin ended => Len(list) > 1

QueueInv == TypeOK /\ Queued /\ OncePerBlock /\ SomeoneWakes /\ OneDescent(list)

LEMMA ListType == TypeOK => list \in Seq(Requests)
BY DEF TypeOK, Requests

LEMMA LimitIs ==
  ASSUME NEW cmd \in {READ, WRITE}
  PROVE  Limit(cmd) \in 2 .. NR_REQUEST
BY NrRequestPositive, QueueConstants DEF Limit, READ, WRITE

(* The scan for an entry finds one of the table, and there is a free one   *)
(* unless two requests are in the list.                                    *)
LEMMA FindRequestIs ==
  ASSUME NEW cmd \in {READ, WRITE}
  PROVE  /\ FreeSlots(Used, cmd) # {} => find_request(Used, cmd) \in 0 .. NR_REQUEST - 1
         /\ list \in Seq(Requests) /\ FreeSlots(Used, cmd) = {} => Len(list) > 1
<1> DEFINE T == FreeSlots(Used, cmd)
<1>1. Limit(cmd) \in 2 .. NR_REQUEST /\ NR_REQUEST \in Nat
  BY LimitIs, NrRequestPositive
<1>2. NR_REQUEST - 1 \in Nat /\ T \in SUBSET (0 .. NR_REQUEST - 1)
  BY <1>1 DEF FreeSlots
<1>3. ASSUME T # {} PROVE Max(T) \in T
  BY <1>2, <1>3, MaxIsGreatest
<1>4. ASSUME list \in Seq(Requests), T = {} PROVE Len(list) > 1
  <2>1. 0 \in 0 .. Limit(cmd) - 1 /\ 1 \in 0 .. Limit(cmd) - 1
    BY <1>1
  <2>2. 0 \in Used /\ 1 \in Used
    BY <1>4, <2>1 DEF FreeSlots
  <2>3. PICK i \in 1 .. Len(list), j \in 1 .. Len(list) : list[i].slot = 0 /\ list[j].slot = 1
    BY <1>4, <2>2 DEF Used
  <2> QED BY <2>3
<1> QED BY <1>2, <1>3, <1>4 DEF find_request

(* make_request() and a repeat of its scan, for a block that has no        *)
(* request: it stays behind the head.                                      *)
LEMMA ScanKeeps ==
  ASSUME QueueInv, NEW b \in Blocks, NEW cmd \in {READ, WRITE},
         pc[b] \in {"idle", "woken"}, Scan(b, cmd)
  PROVE  /\ QueueInv'
         /\ list # <<>> => list' # <<>> /\ Head(list') = Head(list)
<1>0. /\ TypeOK /\ Queued /\ OncePerBlock /\ SomeoneWakes /\ OneDescent(list)
      /\ list \in Seq(Requests)
  BY ListType DEF QueueInv
<1>1. CASE /\ FreeSlots(Used, cmd) # {} /\ list' = add_request(list, Request(b, cmd))
           /\ pc' = [pc EXCEPT ![b] = "queued"] /\ rw' = [rw EXCEPT ![b] = READ]
           /\ UNCHANGED ended
  <2> DEFINE r == Request(b, cmd)
             n == Len(list)
  <2>1. r \in Requests /\ r.bh = b /\ r.sector = 2 * b
    BY <1>1, FindRequestIs DEF Request, Requests
  <2> HIDE DEF r
  <2>2. \A i \in 1 .. n : list[i] \in Requests /\ list[i].bh \in Blocks /\ list[i].bh # b
    <3> TAKE i \in 1 .. n
    <3>1. list[i] \in Requests
      BY <1>0
    <3>2. pc[list[i].bh] = "queued"
      BY <1>0 DEF Queued
    <3> QED BY <3>1, <3>2, RequestIs
  <2>3. \A i \in 1 .. n : list[i].sector # r.sector
    <3> TAKE i \in 1 .. n
    <3>1. list[i].bh \in Int /\ b \in Int /\ list[i].bh # b
      <4>1. list[i] \in Requests /\ list[i].bh # b
        BY <2>2
      <4> QED BY <4>1, RequestIs, QueueConstants
    <3> QED BY <3>1, <2>1, <1>0 DEF Queued
  <2>4. OneDescent(list')
    BY <1>0, <1>1, <2>1, <2>3, AddKeepsOneDescent DEF r
  <2>5. PICK k \in 0 .. n :
          /\ list' \in Seq(Requests) /\ Inserted(list', list, k, r)
          /\ IF Stops(list, r) = {} THEN k = n ELSE k \in Stops(list, r)
    BY <1>0, <1>1, <2>1, AddRequestIs DEF r
  <2>6. /\ list' \in Seq(Requests) /\ Len(list') = n + 1
        /\ \A i \in 1 .. (n + 1) :
             list'[i] = IF i =< k THEN list[i] ELSE IF i = k + 1 THEN r ELSE list[i - 1]
    BY <2>5 DEF Inserted
  <2>7. TypeOK'
    BY <1>0, <1>1, <2>6 DEF TypeOK, Requests, Scan
  <2>8. Queued'
    <3> SUFFICES ASSUME NEW i \in 1 .. (n + 1)
                 PROVE  list'[i].sector = 2 * list'[i].bh /\ pc'[list'[i].bh] = "queued"
      BY <2>6 DEF Queued
    <3>1. list'[i] = r \/ \E x \in 1 .. n : list'[i] = list[x]
      BY <1>0, <2>6
    <3> QED BY <3>1, <1>0, <1>1, <2>1, <2>2 DEF Queued, TypeOK
  <2>9. OncePerBlock'
    <3> SUFFICES ASSUME NEW i \in 1 .. (n + 1), NEW j \in 1 .. (n + 1),
                        list'[i].bh = list'[j].bh
                 PROVE  i = j
      BY <2>6 DEF OncePerBlock
    <3> DEFINE old(x) == IF x =< k THEN x ELSE x - 1
    <3>1. ASSUME NEW x \in 1 .. (n + 1), x # k + 1
          PROVE  old(x) \in 1 .. n /\ list'[x] = list[old(x)] /\ list'[x].bh # b
      BY <2>2, <2>6, <3>1
    <3>2. list'[k + 1].bh = b
      BY <2>1, <2>6
    <3>3. CASE i = k + 1 \/ j = k + 1
      BY <3>1, <3>2, <3>3
    <3>4. CASE i # k + 1 /\ j # k + 1
      <4>1. old(i) = old(j)
        BY <1>0, <3>1, <3>4 DEF OncePerBlock
      <4> QED BY <3>4, <4>1
    <3> QED BY <3>3, <3>4
  <2>10. list' # <<>> /\ Len(list') = n + 1 /\ n \in Nat
    BY <2>6
  <2>12. SomeoneWakes'
    BY <1>0, <1>1, <2>10 DEF SomeoneWakes, CpuFree, TypeOK
  <2>11. list # <<>> => Head(list') = Head(list)
    <3> HAVE list # <<>>
    <3>1. n >= 1 /\ k >= 1
      BY <1>0, <2>5 DEF Stops
    <3>2. list'[1] = list[1]
      BY <2>6, <3>1
    <3> QED BY <1>0, <2>6, <2>10, <3>2
  <2> QED BY <2>4, <2>7, <2>8, <2>9, <2>10, <2>11, <2>12 DEF QueueInv
<1>2. CASE /\ FreeSlots(Used, cmd) = {} /\ pc' = [pc EXCEPT ![b] = "full"] /\ list' = list
          /\ rw' = [rw EXCEPT ![b] = cmd] /\ ended' = {}
  <2>1. Len(list) > 1 /\ list # <<>>
    BY <1>0, <1>2, FindRequestIs
  <2>2. TypeOK'
    BY <1>0, <1>2 DEF TypeOK, Scan
  <2>3. Queued'
    BY <1>0, <1>2 DEF Queued, TypeOK
  <2> QED BY <1>0, <1>2, <2>1, <2>2, <2>3 DEF QueueInv, OncePerBlock, SomeoneWakes
<1> QED BY <1>1, <1>2 DEF Scan

(* The request that ends leaves the list, and its waiters no longer sleep. *)
LEMMA EndKeeps ==
  ASSUME QueueInv, end_request
  PROVE  QueueInv'
<1>0. /\ TypeOK /\ Queued /\ OncePerBlock /\ SomeoneWakes /\ OneDescent(list)
      /\ list \in Seq(Requests)
  BY ListType DEF QueueInv
<1> DEFINE n == Len(list)
<1>1. /\ list' \in Seq(Requests) /\ Len(list') = n - 1 /\ n \in Nat /\ n >= 1
      /\ \A i \in 1 .. (n - 1) : list'[i] = list[i + 1]
      /\ Head(list) = list[1]
  BY <1>0 DEF end_request, EndHead
<1>2. \A i \in 1 .. (n - 1) : i + 1 \in 1 .. n /\ list'[i] = list[i + 1]
  BY <1>1
<1>3. TypeOK'
  BY <1>0, <1>1 DEF TypeOK, Requests, end_request, EndHead, WakeWaiters, Kind
<1>4. Queued'
  <2> SUFFICES ASSUME NEW i \in 1 .. (n - 1)
               PROVE  list'[i].sector = 2 * list'[i].bh /\ pc'[list'[i].bh] = "queued"
    BY <1>1 DEF Queued
  <2>1. list[i + 1].bh # list[1].bh /\ list[i + 1].bh \in Blocks
    <3>1. i + 1 \in 1 .. n /\ i + 1 # 1 /\ 1 \in 1 .. n
      BY <1>1
    <3>2. list[i + 1] \in Requests /\ list[i + 1].bh # list[1].bh
      BY <1>0, <3>1 DEF OncePerBlock
    <3> QED BY <3>2, RequestIs
  <2> QED BY <1>0, <1>1, <1>2, <2>1 DEF Queued, end_request, EndHead, WakeWaiters
<1>5. OncePerBlock'
  BY <1>0, <1>1, <1>2 DEF OncePerBlock
<1>6. OneDescent(list')
  <2> SUFFICES ASSUME NEW i \in 1 .. (n - 2), NEW j \in 1 .. (n - 2),
                      Descent(list', i), Descent(list', j)
               PROVE  i = j
    BY <1>1 DEF OneDescent
  <2>1. \A x \in 1 .. (n - 2) : Descent(list', x) => x + 1 \in 1 .. (n - 1) /\ Descent(list, x + 1)
    BY SMTT(30), <1>1 DEF Descent
  <2>2. i + 1 = j + 1
    BY <1>0, <2>1 DEF OneDescent
  <2> QED BY <2>2, <1>1
<1>7. SomeoneWakes'
  <2>1. \A b \in Blocks : pc'[b] # "asleep" /\ (pc'[b] = "full" => pc[b] = "full")
    BY <1>0 DEF end_request, EndHead, WakeWaiters, TypeOK
  <2>2. CASE CpuFree
    BY <2>1, <2>2 DEF CpuFree, SomeoneWakes
  <2>3. CASE ~CpuFree
    <3>1. /\ ended' = ended \cup {Kind(Head(list))}
          /\ Kind(Head(list)) = "dropped" \/ (Kind(Head(list)) = "served" /\ "served" \notin ended)
      BY <2>3 DEF end_request, EndHead, Kind
    <3>2. "dropped" \notin ended' => n > 1 /\ "served" \in ended'
      BY <1>0, <2>3, <3>1 DEF SomeoneWakes
    <3> QED BY <1>1, <3>2 DEF SomeoneWakes
  <2> QED BY <2>2, <2>3
<1> QED BY <1>3, <1>4, <1>5, <1>6, <1>7 DEF QueueInv

LEMMA StepQueueInv == QueueInv /\ [Next]_vars => QueueInv'
<1> SUFFICES ASSUME QueueInv, [Next]_vars PROVE QueueInv'
  OBVIOUS
<1>0. TypeOK
  BY DEF QueueInv
<1>1. ASSUME NEW b \in Blocks, NEW cmd \in {READ, WRITE}, make_request(b, cmd)
      PROVE  QueueInv'
  BY <1>1, ScanKeeps DEF make_request
<1>2. ASSUME NEW b \in Blocks, SleepForRequest(b)
      PROVE  QueueInv'
  <2>1. pc' = [pc EXCEPT ![b] = "asleep"] /\ pc[b] = "full" /\ list' = list /\ rw' = rw
    BY <1>2 DEF SleepForRequest
  <2>2. TypeOK' /\ SomeoneWakes' /\ ended' = ended
    BY <1>0, <1>2, <2>1 DEF SleepForRequest, TypeOK, QueueInv, SomeoneWakes, CpuFree
  <2>3. Queued'
    BY <1>0, <2>1 DEF QueueInv, Queued, TypeOK
  <2> QED BY <2>1, <2>2, <2>3 DEF QueueInv, OncePerBlock
<1>3. ASSUME NEW b \in Blocks, Repeat(b)
      PROVE  QueueInv'
  BY <1>0, <1>3, ScanKeeps DEF Repeat, TypeOK
<1>4. CASE end_request
  BY <1>4, EndKeeps
<1>5. CASE UNCHANGED vars
  BY <1>5 DEF vars, QueueInv, TypeOK, Queued, OncePerBlock, SomeoneWakes, CpuFree
<1> QED BY <1>1, <1>2, <1>3, <1>4, <1>5 DEF Next

LEMMA InitQueueInv == Init => QueueInv
<1> SUFFICES ASSUME Init PROVE QueueInv
  OBVIOUS
<1>1. Len(list) = 0 /\ list \in Seq(Requests)
  BY DEF Init
<1> QED BY <1>1 DEF Init, QueueInv, TypeOK, Requests, Queued, OncePerBlock, SomeoneWakes, CpuFree, OneDescent

LEMMA QueueInvIs == QueueInv => OneSweep /\ NoStrandedRequester
BY DEF QueueInv, OneDescent, Descent, OneSweep, SomeoneWakes, NoStrandedRequester
-----------------------------------------------------------------------------
(* Numbers.  Division by the sectors per track and by the heads. *)
LEMMA DivMod ==
  ASSUME NEW a \in Nat, NEW d \in Nat \ {0}
  PROVE  a \div d \in Nat /\ a % d \in 0 .. (d - 1) /\ a = (a \div d) * d + (a % d)
OBVIOUS

LEMMA DivIs ==
  ASSUME NEW c \in Nat, NEW d \in Nat \ {0}, NEW r \in 0 .. (d - 1)
  PROVE  (c * d + r) \div d = c
OBVIOUS

LEMMA DivMonotonic ==
  ASSUME NEW a \in Nat, NEW b \in Nat, a =< b, NEW d \in Nat \ {0}
  PROVE  a \div d =< b \div d
OBVIOUS

(* The address do_hd_request() computes is that of its block. *)
LEMMA LbaOfChs ==
  ASSUME NEW block \in Nat
  PROVE  Lba(Chs(block)) = block
<1> DEFINE q == block \div Sect
           c == q \div Heads
<1>1. Sect \in Nat \ {0} /\ Heads \in Nat \ {0}
  BY Geometry
<1>2. q \in Nat /\ block % Sect \in Nat /\ block = q * Sect + (block % Sect)
  BY <1>1, DivMod
<1> HIDE DEF q
<1>3. c \in Nat /\ q % Heads \in Nat /\ q = c * Heads + (q % Heads)
  <2>1. q \in Nat
    BY <1>2
  <2>2. /\ q \div Heads \in Nat /\ q % Heads \in 0 .. (Heads - 1)
        /\ q = (q \div Heads) * Heads + (q % Heads)
    BY <1>1, <2>1, DivMod
  <2> QED BY <1>1, <2>2
<1>4. Lba(Chs(block)) = (c * Heads + (q % Heads)) * Sect + ((block % Sect) + 1) - 1
  BY DEF Lba, Chs, q
<1> HIDE DEF c
<1>5. Lba(Chs(block)) = q * Sect + ((block % Sect) + 1) - 1
  BY <1>3, <1>4
<1>6. q * Sect \in Nat
  BY <1>1, <1>2
<1> QED BY <1>2, <1>5, <1>6

(* Both sectors of a block are on one track: only the last sector of a     *)
(* cylinder, which is odd, has its successor on another.                   *)
LEMMA SameTrack ==
  ASSUME NEW b \in Nat
  PROVE  Track(2 * b + 1) = Track(2 * b)
<1> DEFINE s == 2 * b
           q == s \div FdSect
           r == s % FdSect
           c == q \div FdHead
           h == q % FdHead
<1>1. FdSect \in Nat \ {0} /\ FdHead \in Nat \ {0} /\ s \in Nat
  BY FdGeometry
<1>2. q \in Nat /\ r \in 0 .. (FdSect - 1) /\ s = q * FdSect + r
  BY <1>1, DivMod
<1>3. c \in Nat /\ h \in 0 .. (FdHead - 1) /\ q = c * FdHead + h
  BY <1>1, <1>2, DivMod
<1>4. Track(s) = c
  BY DEF Track
<1> HIDE DEF q, r, c, h
<1>5. CASE r + 1 < FdSect
  <2>1. r + 1 \in 0 .. (FdSect - 1) /\ s + 1 = q * FdSect + (r + 1)
    <3>1. q * FdSect \in Nat
      BY <1>1, <1>2
    <3> QED BY <1>1, <1>2, <1>5, <3>1
  <2>2. (s + 1) \div FdSect = q
    BY <1>1, <1>2, <2>1, DivIs
  <2> QED BY <1>4, <2>2 DEF Track, c
<1>6. CASE r + 1 = FdSect
  <2>1. s + 1 = (q + 1) * FdSect + 0
    BY <1>1, <1>2, <1>6
  <2>2. (s + 1) \div FdSect = q + 1
    BY <1>1, <1>2, <2>1, DivIs
  <2>3. CASE h + 1 < FdHead
    <3>1. h + 1 \in 0 .. (FdHead - 1) /\ q + 1 = c * FdHead + (h + 1)
      <4>1. c * FdHead \in Nat
        BY <1>1, <1>3
      <4> QED BY <1>1, <1>3, <2>3, <4>1
    <3>2. (q + 1) \div FdHead = c
      BY <1>1, <1>3, <3>1, DivIs
    <3> QED BY <1>4, <2>2, <3>2 DEF Track
  <2>4. CASE h + 1 = FdHead
    <3> DEFINE m == (FdSect * FdHead) \div 2
    <3>1. FdSect * FdHead = 2 * m /\ m \in Nat
      <4>1. FdSect * FdHead \in Nat
        BY <1>1
      <4> QED BY <4>1, FdTracks
    <3>2. q + 1 = (c + 1) * FdHead
      BY <1>1, <1>3, <2>4
    <3>3. s + 1 = ((c + 1) * FdHead) * FdSect
      BY <1>1, <2>1, <3>2, <1>2
    <3>4. ((c + 1) * FdHead) * FdSect = (c + 1) * (FdSect * FdHead)
      BY <1>1, <1>3
    <3> HIDE DEF m
    <3>5. s + 1 = 2 * ((c + 1) * m)
      BY <1>3, <3>1, <3>3, <3>4
    <3>6. (c + 1) * m \in Nat
      BY <1>3, <3>1
    <3> DEFINE p == (c + 1) * m
    <3> HIDE DEF p
    <3>7. p \in Nat /\ 2 * b + 1 = 2 * p
      BY <3>5, <3>6 DEF p
    <3> QED BY <3>7
  <2> QED BY <1>1, <1>3, <2>3, <2>4
<1> QED BY <1>1, <1>2, <1>5, <1>6
-----------------------------------------------------------------------------
(* What the hard disk's driver keeps between its steps: the drive works    *)
(* only for a request, do_hd is what the command will call, and done       *)
(* belongs to the request at the head.  Once a request has been served in  *)
(* make_request()'s window, the next one is at its beginning and too young *)
(* to be given up without a reset before.                                  *)
Late == ~CpuFree /\ "served" \in ended

Commands == [cmd : {"none", "specify", "restore", "read", "write"}, at : Nat, left : Int]

HdInv ==
  /\ done \in {0, 1} /\ errors \in Nat
  /\ list = <<>> => done = 0
  /\ Late => done = 0 /\ (strategy => reset \/ errors =< MAX_ERRORS \div 2)
  /\ drive \in Commands
  /\ drive.cmd # "none" => list # <<>> /\ ~strategy
  /\ drive.cmd \in {"specify", "restore"} => do_hd = "recal"
  /\ RightSectors

(* An interrupt that is let in has a request to end; and what ends in      *)
(* do_hd_request() after that, past the end of the device, is dropped.     *)
LEMMA NotLate == ~Late /\ EndHead => end_request
BY DEF Late, end_request

LEMMA HeadIs ==
  ASSUME QueueInv, list # <<>>
  PROVE  /\ Head(list) = list[1] /\ Head(list) \in Requests
         /\ Head(list).sector \in Nat /\ Head(list).cmd \in {READ, WRITE}
         /\ Head(list).bh \in Nat /\ Head(list).sector = 2 * Head(list).bh
<1>1. list \in Seq(Requests) /\ Queued
  BY ListType DEF QueueInv
<1>2. 1 \in 1 .. Len(list) /\ Head(list) = list[1] /\ Head(list) \in Requests
  BY <1>1
<1> QED BY <1>1, <1>2, RequestIs DEF Queued

(* A transfer starts where the request stands. *)
LEMMA StartTransfer ==
  ASSUME QueueInv, HdInv, Ready, ~reset, ~recalibrate, UNCHANGED <<queue, done, reset, recalibrate>>,
         NEW way \in {"read", "write"},
         way = IF CURRENT.cmd = READ THEN "read" ELSE "write",
         UNCHANGED errors, hd_out(way, Chs(Block), 2 - done, way)
  PROVE  HdInv'
<1>1. /\ list # <<>> /\ CURRENT.sector \in Nat /\ done \in {0, 1} /\ start_sect \in Nat
      /\ nr_sects \in Nat /\ list' = list /\ done' = done /\ reset' = reset
      /\ recalibrate' = recalibrate
  BY HeadIs, Geometry, QueueConstants DEF Ready, CURRENT, HdInv, queue, vars
<1>2. Block \in Nat /\ Block = start_sect + (CURRENT.sector + done)
  BY <1>1 DEF Block, Sector
<1>3. /\ drive' = [cmd |-> way, at |-> Block, left |-> 2 - done]
      /\ do_hd' = way /\ strategy' = FALSE
  BY <1>2, LbaOfChs DEF hd_out
<1>4. ~(CURRENT.sector + done + 2 > nr_sects)
  BY <1>1 DEF Ready, TooFar, Sector
<1>5. RightSectors'
  <2>1. CURRENT' = CURRENT
    BY <1>1 DEF CURRENT
  <2>2. drive'.at = start_sect + CURRENT.sector + done /\ drive'.left = 2 - done
    BY <1>1, <1>2, <1>3
  <2>3. drive'.at + drive'.left =< start_sect + nr_sects
    BY <1>1, <1>4, <2>2
  <2> QED BY <1>1, <1>3, <2>1, <2>2, <2>3 DEF RightSectors
<1> QED BY <1>1, <1>2, <1>3, <1>5 DEF HdInv, Commands, Late, CpuFree, queue, vars

(* bad_rw_intr(): the request stays at the head, where it stands, or is    *)
(* given up.                                                               *)
LEMMA BadRwIntr ==
  ASSUME HdInv, bad_rw_intr, Late => strategy /\ ~reset
  PROVE  /\ done' \in {0, 1} /\ errors' \in Nat /\ (list' = <<>> => done' = 0)
         /\ Late' => done' = 0 /\ (reset' \/ errors' =< MAX_ERRORS \div 2)
         /\ end_request \/ UNCHANGED vars
<1>0. /\ errors \in Nat /\ MAX_ERRORS \in Nat /\ MAX_ERRORS > 2
      /\ MAX_ERRORS \div 2 \in Nat /\ MAX_ERRORS \div 2 + 1 < MAX_ERRORS
  BY Geometry DEF HdInv
<1>1. CASE errors + 1 >= MAX_ERRORS /\ EndRequest
  <2>1. ~Late
    BY <1>0, <1>1 DEF HdInv
  <2> QED BY <1>0, <1>1, <2>1, NotLate DEF EndRequest
<1>2. CASE /\ errors' = errors + 1 /\ reset' = (reset \/ errors + 1 > MAX_ERRORS \div 2)
           /\ UNCHANGED <<queue, done>>
  <2>1. Late' = Late /\ UNCHANGED vars
    BY <1>2 DEF Late, CpuFree, queue, vars
  <2>2. reset' \/ errors' =< MAX_ERRORS \div 2
    <3>1. (errors + 1 > MAX_ERRORS \div 2) \/ errors' =< MAX_ERRORS \div 2
      BY <1>0, <1>2
    <3>2. (errors + 1 > MAX_ERRORS \div 2) => reset'
      BY Zenon, <1>2
    <3> QED BY <3>1, <3>2
  <2> QED BY <1>0, <1>2, <2>1, <2>2 DEF queue, vars, HdInv
<1> QED BY <1>1, <1>2 DEF bad_rw_intr

LEMMA StepHdInv == QueueInv /\ HdInv /\ HdNext => HdInv'
<1> SUFFICES ASSUME QueueInv, HdInv, HdNext PROVE HdInv'
  OBVIOUS
<1> DEFINE Begins == /\ done' \in {0, 1} /\ errors' \in Nat /\ (list' = <<>> => done' = 0)
                     /\ Late' => done' = 0 /\ (strategy' => reset' \/ errors' =< MAX_ERRORS \div 2)
<1>1. ASSUME drive' = NoCommand, Begins
      PROVE  HdInv'
  BY <1>1 DEF NoCommand, HdInv, Commands, RightSectors
<1>2. strategy => drive.cmd = "none"
  BY DEF HdInv
<1>3. ASSUME drive.cmd = "none", drive' = drive, Begins
      PROVE  HdInv'
  BY <1>3 DEF HdInv, RightSectors
<1>16. 0 =< MAX_ERRORS \div 2
  BY Geometry
<1>17. ASSUME UNCHANGED vars PROVE Late' = Late /\ list' = list
  BY <1>17 DEF Late, CpuFree, vars
<1>4. CASE NoRequest
  BY <1>2, <1>3, <1>4, <1>17 DEF NoRequest, queue, HdInv
<1>5. CASE OutOfRange
  BY <1>2, <1>3, <1>5, <1>16 DEF OutOfRange, EndRequest
<1>6. CASE reset_hd \/ Recalibrate
  <2>1. /\ list' = list /\ done' = done /\ errors' = errors /\ list # <<>> /\ done \in {0, 1}
        /\ Late' = Late /\ strategy' = FALSE /\ do_hd' = "recal"
        /\ drive'.cmd \in {"specify", "restore"}
        /\ \E cmd \in {"specify", "restore"} : drive' = [cmd |-> cmd, at |-> 0, left |-> 0]
    BY <1>6, <1>17, LbaOfChs DEF reset_hd, Recalibrate, Ready, hd_out, queue, HdInv
  <2> QED BY <2>1 DEF HdInv, Commands, RightSectors
<1>7. CASE StartRead
  BY <1>7, StartTransfer DEF StartRead, Ready
<1>8. CASE StartWrite
  BY <1>8, StartTransfer DEF StartWrite, Ready, READ, WRITE
<1>9. CASE WriteTimeout
  BY <1>2, <1>3, <1>9, BadRwIntr DEF WriteTimeout, Ready
<1>18. ASSUME NEW h, Interrupt(h) PROVE ~Late
  BY <1>18 DEF Interrupt, Late
<1>10. ASSUME NEW way \in {"read", "write"}, Interrupt(way), Moved, UNCHANGED <<reset, recalibrate>>,
              errors' = 0 \/ (done = 0 /\ errors' = errors)
       PROVE  HdInv'
  <2>1. CASE done = 0 /\ done' = 1 /\ drive' = [cmd |-> drive.cmd, at |-> drive.at + 1, left |-> drive.left - 1]
             /\ UNCHANGED <<queue, do_hd, strategy>>
    <3>1. /\ drive.at \in Nat /\ drive.left \in Int /\ drive'.cmd = drive.cmd
          /\ drive'.at = drive.at + 1 /\ drive'.left = drive.left - 1
          /\ drive' \in Commands
      BY <2>1 DEF HdInv, Commands
    <3>2. /\ list' = list /\ list # <<>> /\ ~strategy /\ do_hd' = do_hd /\ strategy' = strategy
          /\ CURRENT' = CURRENT /\ reset' = reset /\ recalibrate' = recalibrate
      BY <1>10, <2>1 DEF Interrupt, HdInv, queue, vars, CURRENT
    <3>3. start_sect \in Nat /\ nr_sects \in Nat /\ CURRENT.sector \in Nat
      BY <3>2, HeadIs, Geometry, QueueConstants DEF CURRENT
    <3>4. RightSectors'
      BY <2>1, <3>1, <3>2, <3>3 DEF HdInv, RightSectors
    <3>5. ~Late'
      BY <1>10, <1>17, <1>18, <2>1 DEF queue
    <3> QED BY <1>10, <2>1, <3>1, <3>2, <3>4, <3>5 DEF HdInv
  <2>2. CASE EndRequest /\ drive' = NoCommand
    BY <1>1, <1>16, <2>2 DEF EndRequest
  <2> QED BY <1>10, <2>1, <2>2 DEF Moved
<1>11. CASE read_intr \/ write_intr
  BY <1>10, <1>11 DEF read_intr, write_intr, Moved, EndRequest
<1>12. CASE rw_error \/ recal_error
  BY <1>1, <1>12, <1>18, BadRwIntr DEF rw_error, recal_error, Failed
<1>13. CASE recal_intr
  BY <1>1, <1>13, <1>17, <1>18 DEF recal_intr, queue, HdInv
<1>14. ASSUME NEW b \in Blocks, Task(b)
       PROVE  HdInv'
  <2>1. PICK cmd \in {READ, WRITE} : pc[b] \in {"idle", "woken"} /\ Scan(b, cmd)
    BY <1>14 DEF Task, make_request, Repeat, QueueInv, TypeOK
  <2>2. list # <<>> => list' # <<>> /\ Head(list') = Head(list)
    BY <2>1, ScanKeeps
  <2>3. /\ UNCHANGED <<do_hd, drive, errors, done, reset, recalibrate>>
        /\ strategy' = (list = <<>> /\ list' # <<>>)
    BY <1>14 DEF Task
  <2>6. ~Late'
    <3>1. CpuFree
      BY <1>14 DEF Task, make_request, Repeat
    <3> QED BY <2>1, <3>1 DEF Scan, Late, CpuFree, QueueInv, TypeOK
  <2>4. CASE list = <<>>
    BY <1>3, <2>3, <2>4, <2>6 DEF HdInv
  <2>5. CASE list # <<>>
    BY <2>2, <2>3, <2>5, <2>6 DEF HdInv, RightSectors, CURRENT
  <2> QED BY <2>4, <2>5
<1>15. ASSUME NEW b \in Blocks, Sleeps(b)
       PROVE  HdInv'
  <2>1. Late' => Late
    BY <1>15 DEF Sleeps, SleepForRequest, Late, CpuFree, QueueInv, TypeOK
  <2> QED BY <1>15, <2>1 DEF Sleeps, SleepForRequest, hd, HdInv, RightSectors, CURRENT
<1> QED BY <1>4, <1>5, <1>6, <1>7, <1>8, <1>9, <1>11, <1>12, <1>13, <1>14, <1>15
        DEF HdNext, do_hd_request, hd_interrupt
-----------------------------------------------------------------------------
(* What the floppy's driver keeps: unless a reset or a recalibration is    *)
(* due or under way, it knows where the heads are or knows that it does    *)
(* not; and the steps from the motor to the transfer belong to one request.*)
FdInv ==
  /\ do_floppy = "recal" => current_track = 0 /\ ~fd_reset
  /\ do_floppy = "reset" => fd_recalibrate
  /\ fd_reset \/ fd_recalibrate \/ do_floppy = "recal" \/ current_track \in {at, 255}
  /\ do_floppy \in {"on", "seek", "rw"} =>
       list # <<>> /\ ~TooFar(Head(list).sector) /\ ~fd_reset /\ ~fd_recalibrate
  /\ do_floppy = "rw" => at = seek_track

(* 255 is no track of the disk. *)
LEMMA TrackKnown ==
  ASSUME QueueInv, list # <<>>, ~TooFar(Head(list).sector)
  PROVE  seek_track # 255
<1> DEFINE s == Head(list).sector
<1>1. s \in Nat /\ nr_sects \in Nat /\ s =< nr_sects /\ FdSect \in Nat \ {0} /\ FdHead \in Nat \ {0}
  BY HeadIs, FdGeometry, QueueConstants DEF TooFar
<1> HIDE DEF s
<1>2. s \div FdSect \in Nat /\ nr_sects \div FdSect \in Nat /\ s \div FdSect =< nr_sects \div FdSect
  BY <1>1, DivMod, DivMonotonic
<1>3. /\ Track(s) \in Nat /\ Track(nr_sects) \in Nat
      /\ Track(s) =< Track(nr_sects)
  BY <1>1, <1>2, DivMod, DivMonotonic DEF Track
<1> QED BY <1>3, FdTracks DEF seek_track, s

LEMMA FdInvRightTrack == QueueInv /\ FdInv => RightTrack
<1> SUFFICES ASSUME QueueInv, FdInv, do_floppy = "rw" PROVE RightTrack
  BY DEF RightTrack
<1>1. list # <<>> /\ at = seek_track /\ ~fd_reset /\ ~fd_recalibrate
  BY DEF FdInv
<1>2. Track(Head(list).sector + 1) = seek_track
  BY <1>1, HeadIs, SameTrack DEF seek_track
<1> QED BY <1>1, <1>2 DEF RightTrack

LEMMA BadFlpIntr ==
  ASSUME bad_flp_intr
  PROVE  fd_reset' \/ fd_recalibrate'
BY DEF bad_flp_intr

LEMMA StepFdInv == QueueInv /\ FdInv /\ FdNext => FdInv'
<1> SUFFICES ASSUME QueueInv, FdInv, FdNext PROVE FdInv'
  OBVIOUS
<1>1. CASE reset_floppy
  BY <1>1 DEF reset_floppy, FdInv
<1>2. CASE recalibrate_floppy
  BY <1>2 DEF recalibrate_floppy, output_bytes, FdInv
<1>3. CASE FdNone \/ FdOutOfRange
  BY <1>3 DEF FdNone, FdOutOfRange, FdReady, FdInv
<1>4. CASE MotorOn
  BY <1>4 DEF MotorOn, FdReady, FdInv, vars
<1>5. CASE transfer
  <2>1. /\ list' = list /\ list # <<>> /\ ~TooFar(Head(list).sector) /\ ~fd_reset
        /\ ~fd_recalibrate /\ current_track \in {at, 255} /\ seek_track # 255
        /\ at' = at /\ current_track' = current_track /\ fd_recalibrate' = fd_recalibrate
        /\ seek_track' = seek_track
    BY <1>5, TrackKnown DEF transfer, FdInterrupt, FdInv, vars, seek_track
  <2> QED BY <1>5, <2>1 DEF transfer, output_bytes, FdInv
<1>6. CASE seek_interrupt
  <2>1. /\ list' = list /\ list # <<>> /\ ~TooFar(Head(list).sector) /\ ~fd_reset
        /\ ~fd_recalibrate /\ at' = seek_track /\ current_track' = seek_track
        /\ fd_recalibrate' = fd_recalibrate /\ seek_track' = seek_track
    BY <1>6 DEF seek_interrupt, FdInterrupt, FdInv, vars, seek_track
  <2> QED BY <1>6, <2>1 DEF seek_interrupt, output_bytes, FdInv
<1>7. CASE seek_error \/ fd_rw_error
  BY <1>7, BadFlpIntr DEF seek_error, fd_rw_error, FdInv
<1>8. CASE rw_interrupt
  BY <1>8 DEF rw_interrupt, FdInterrupt, FdInv
<1>9. CASE recal_interrupt
  BY <1>9 DEF recal_interrupt, FdInterrupt, FdInv
<1>10. CASE reset_interrupt
  BY <1>10 DEF reset_interrupt, FdInterrupt, output_bytes, FdInv
<1>11. ASSUME NEW b \in FdBlocks, FdTask(b)
       PROVE  FdInv'
  <2>1. b \in Blocks
    BY FdGeometry
  <2>2. PICK cmd \in {READ, WRITE} : pc[b] \in {"idle", "woken"} /\ Scan(b, cmd)
    BY <1>11, <2>1 DEF FdTask, make_request, Repeat, QueueInv, TypeOK
  <2>3. list # <<>> => list' # <<>> /\ Head(list') = Head(list)
    BY <2>1, <2>2, ScanKeeps
  <2>4. UNCHANGED <<fd_reset, fd_recalibrate, current_track, at>>
    BY <1>11 DEF FdTask
  <2>5. CASE list = <<>>
    BY <1>11, <2>4, <2>5 DEF FdTask, FdInv
  <2>6. CASE list # <<>>
    BY <1>11, <2>3, <2>4, <2>6 DEF FdTask, FdInv, seek_track
  <2> QED BY <2>5, <2>6
<1>12. ASSUME NEW b \in FdBlocks, FdSleeps(b)
       PROVE  FdInv'
  BY <1>12 DEF FdSleeps, SleepForRequest, fd, FdInv, seek_track
<1> QED BY <1>1, <1>2, <1>3, <1>4, <1>5, <1>6, <1>7, <1>8, <1>9, <1>10, <1>11, <1>12
        DEF FdNext, do_fd_request, floppy_interrupt
-----------------------------------------------------------------------------
(* The device that is not there does nothing. *)
DrivesInv ==
  /\ QueueInv
  /\ major \in {2, 3}
  /\ IF major = 3 THEN HdInv /\ do_floppy = "none" ELSE FdInv /\ drive = NoCommand

(* Every step of a driver is a step of the queue or none of its business:  *)
(* it ends the request at the head, once, or leaves the queue alone.       *)
(* In make_request()'s window, what ends after a request has been served   *)
(* is dropped.                                                             *)
LEMMA StepIsQueueStep == DrivesInv /\ [DrivesNext]_all => [Next]_vars
<1> SUFFICES ASSUME DrivesInv, [DrivesNext]_all PROVE [Next]_vars
  OBVIOUS
<1>0. ASSUME EndHead, TooFar(Head(list).sector) PROVE end_request
  BY <1>0, HeadIs DEF DrivesInv, EndHead, end_request, Kind
<1>1. CASE WithDisk(HdNext)
  <2>0. HdInv
    BY <1>1 DEF WithDisk, DrivesInv
  <2>1. ASSUME NEW h, Interrupt(h) PROVE ~Late
    BY <2>1 DEF Interrupt, Late
  <2>2. ASSUME OutOfRange PROVE end_request
    <3>1. EndHead /\ done \in {0, 1} /\ TooFar(Sector)
      BY <2>0, <2>2 DEF OutOfRange, EndRequest, HdInv
    <3>2. CASE done = 0
      <4>1. Sector = Head(list).sector
        BY <3>1, <3>2, HeadIs DEF Sector, CURRENT, DrivesInv, EndHead
      <4> QED BY <1>0, <3>1, <4>1
    <3>3. CASE done = 1
      BY <2>0, <3>1, <3>3, NotLate DEF HdInv
    <3> QED BY <3>1, <3>2, <3>3
  <2>3. ASSUME WriteTimeout PROVE end_request \/ UNCHANGED vars
    BY <2>0, <2>3, BadRwIntr DEF WriteTimeout, Ready
  <2>4. ASSUME do_hd_request PROVE end_request \/ UNCHANGED vars
    BY <2>2, <2>3, <2>4 DEF do_hd_request, NoRequest, reset_hd, Recalibrate, StartRead,
                            StartWrite, queue
  <2>5. ASSUME Moved, ~Late PROVE end_request \/ UNCHANGED vars
    BY <2>5, NotLate DEF Moved, EndRequest, queue
  <2>6. ASSUME Failed, ~Late PROVE end_request \/ UNCHANGED vars
    BY <2>0, <2>6, BadRwIntr DEF Failed
  <2>7. ASSUME hd_interrupt PROVE end_request \/ UNCHANGED vars
    BY <2>1, <2>5, <2>6, <2>7 DEF hd_interrupt, read_intr, write_intr, rw_error, recal_intr,
                                  recal_error, queue
  <2> QED BY <1>1, <2>4, <2>7 DEF WithDisk, HdNext, Next, Task, Sleeps
<1>2. CASE WithFloppy(FdNext)
  <2>0. ASSUME NEW h, FdInterrupt(h) PROVE ~Late
    BY <2>0 DEF FdInterrupt, Late
  <2>1. ASSUME bad_flp_intr, ~Late PROVE end_request \/ UNCHANGED vars
    BY <2>1, NotLate DEF bad_flp_intr, FdEnd
  <2>2. ASSUME do_fd_request PROVE end_request \/ UNCHANGED vars
    BY <1>0, <2>2 DEF do_fd_request, reset_floppy, recalibrate_floppy, FdNone, FdOutOfRange,
                      MotorOn, FdEnd
  <2>3. ASSUME floppy_interrupt PROVE end_request \/ UNCHANGED vars
    BY <2>0, <2>1, <2>3, NotLate
       DEF floppy_interrupt, transfer, seek_interrupt, seek_error, rw_interrupt,
           fd_rw_error, recal_interrupt, reset_interrupt, FdEnd
  <2> QED BY <1>2, <2>2, <2>3, FdGeometry DEF WithFloppy, FdNext, Next, FdTask, FdSleeps
<1> QED BY <1>1, <1>2 DEF DrivesNext, all

LEMMA InitDrivesInv == DrivesInit => DrivesInv
<1> SUFFICES ASSUME DrivesInit PROVE DrivesInv
  OBVIOUS
<1>1. QueueInv
  BY InitQueueInv DEF DrivesInit
<1>2. HdInv
  BY DEF DrivesInit, Init, HdInit, HdInv, Late, Commands, RightSectors, NoCommand
<1>3. FdInv
  BY DEF DrivesInit, FdInit, FdInv
<1> QED BY <1>1, <1>2, <1>3 DEF DrivesInit, HdInit, FdInit, DrivesInv

LEMMA StepDrivesInv == DrivesInv /\ [DrivesNext]_all => DrivesInv'
<1> SUFFICES ASSUME DrivesInv, [DrivesNext]_all PROVE DrivesInv'
  OBVIOUS
<1>1. QueueInv'
  BY StepIsQueueStep, StepQueueInv DEF DrivesInv
<1>2. CASE WithDisk(HdNext)
  BY <1>1, <1>2, StepHdInv DEF DrivesInv, WithDisk, fd
<1>3. CASE WithFloppy(FdNext)
  BY <1>1, <1>3, StepFdInv DEF DrivesInv, WithFloppy, hd
<1>4. CASE UNCHANGED all
  BY <1>1, <1>4 DEF all, vars, hd, fd, DrivesInv, HdInv, Late, CpuFree,
                      RightSectors, CURRENT, FdInv, seek_track
<1> QED BY <1>2, <1>3, <1>4 DEF DrivesNext

LEMMA DrivesInvIs == DrivesInv => OneSweep /\ NoStrandedRequester /\ RightSectors /\ RightTrack
BY QueueInvIs, FdInvRightTrack DEF DrivesInv, HdInv, RightSectors, RightTrack, NoCommand

(* Either driver implements the safety part of the queue: no request is    *)
(* ended twice, out of turn or without its waiters being told.             *)
THEOREM DriversImplementQueue == DrivesSpec => Spec
<1>1. DrivesInit => Init
  BY DEF DrivesInit
<1> QED BY <1>1, InitDrivesInv, StepDrivesInv, StepIsQueueStep, PTL DEF DrivesSpec, Spec

(* The list never holds more than the sweep under way and the next one,    *)
(* for any number of entries (ll_rw_blk.c:78-84).                          *)
THEOREM AlwaysOneSweep == DrivesSpec => []OneSweep
BY InitDrivesInv, StepDrivesInv, DrivesInvIs, PTL DEF DrivesSpec

(* No task sleeps for an entry of request[] with nobody left to wake it,   *)
(* unless requests past the end of the device were dropped on its way to   *)
(* sleep_on() (ll_rw_blk.c:119-129).                                       *)
THEOREM RequestersWoken == DrivesSpec => []NoStrandedRequester
BY InitDrivesInv, StepDrivesInv, DrivesInvIs, PTL DEF DrivesSpec

(* On any geometry, after any sequence of errors, resets and retries, the  *)
(* hard disk moves the sectors of the request at the head (hd.c:250-341).  *)
THEOREM DiskMovesRightSectors == DrivesSpec => []RightSectors
BY InitDrivesInv, StepDrivesInv, DrivesInvIs, PTL DEF DrivesSpec

(* On any geometry of floppy_type[]'s kind the heads are over the track of *)
(* both sectors when a transfer starts (floppy.c:291-338, 417-455).        *)
THEOREM FloppyOnRightTrack == DrivesSpec => []RightTrack
BY InitDrivesInv, StepDrivesInv, DrivesInvIs, PTL DEF DrivesSpec
=============================================================================
