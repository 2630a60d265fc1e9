---------------------------- MODULE MemoryProofs ----------------------------
(***************************************************************************)
(* For every number of tasks, page frames, tables and pages: mem_map[] is  *)
(* exact, a page that a task may write is its own, and no task finds what  *)
(* another one wrote, but in a page of the executable that is stale.       *)
(*                                                                         *)
(* Sound(mm, tk, hd, E) is what the functions of memory.c keep about the   *)
(* memory mm, the task pages tk and the pages hd held by sleeping tasks,   *)
(* while E is a page that is taken and in no place yet (None: there is     *)
(* none).  It is stated of values, not of the state, because fork() and    *)
(* the page faults call several such functions in one step.  A use is      *)
(* counted by kind: task pages, tables, entries of tables, held pages.     *)
(*                                                                         *)
(* The invariant adds what the modes of a task say (Modes), and what its   *)
(* pages hold (Seen); on top of it, PagesInv adds the pages of the         *)
(* executable: one that is not dirty is as in the file (FileInv).          *)
(***************************************************************************)
EXTENDS Memory, FiniteSetTheorems, WellFoundedInduction, TLAPS

Entry == [page : Frames \cup {None}, rw : BOOLEAN, dirty : BOOLEAN]
Places == [Procs -> Frames \cup {None}]
MemoryType == [map : [Frames -> Nat], dir : [Procs -> [Dirs -> Frames \cup {None}]],
               pte : [Procs -> [Addrs -> Entry]]]

(* Where function u, or row u[p] of a table u, has the value x. *)
Where(u, R, x) == {r \in R : u[r] = x}
Cells(u, R, x) == {s \in Procs \X R : u[s[1]][s[2]] = x}
PagesOf(pte) == [p \in Procs |-> [a \in Addrs |-> pte[p][a].page]]
One(x, y) == IF x = y THEN 1 ELSE 0

(* Its uses as task page or held page, as table, as page. *)
NT(u, x) == Cardinality(Where(u, Procs, x))
ND(dir, x) == Cardinality(Cells(dir, Dirs, x))
NP(pte, x) == Cardinality(Cells(PagesOf(pte), Addrs, x))
UsesOf(mm, tk, hd, x) == NT(tk, x) + ND(mm.dir, x) + NP(mm.pte, x) + NT(hd, x)

Exact(mm, tk, hd, E) == \A x \in Frames : mm.map[x] = UsesOf(mm, tk, hd, x) + One(x, E)

(* A page that may be written, a page table and a held page have one use. *)
Alone(mm, hd) ==
  /\ \A p \in Procs, a \in Addrs :
       mm.pte[p][a].rw => mm.pte[p][a].page \in Frames /\ mm.map[mm.pte[p][a].page] = 1
  /\ \A p \in Procs, d \in Dirs : mm.dir[p][d] \in Frames => mm.map[mm.dir[p][d]] = 1
  /\ \A p \in Procs : hd[p] \in Frames => mm.map[hd[p]] = 1

(* A present page is in a table; tasks share a page at one address. *)
InTables(mm) ==
  \A p \in Procs, a \in Addrs : mm.pte[p][a].page # None => mm.dir[p][DirOf[a]] # None
SameAddress(mm) ==
  \A p, q \in Procs, a, b \in Addrs :
    mm.pte[p][a].page = mm.pte[q][b].page /\ mm.pte[p][a].page # None => a = b

Sound(mm, tk, hd, E) ==
  /\ mm \in MemoryType /\ tk \in Places /\ hd \in Places
  /\ Exact(mm, tk, hd, E) /\ Alone(mm, hd) /\ InTables(mm) /\ SameAddress(mm)

ModeSet == {"none", "user", "user_load", "syscall", "syscall_load", "exec", "close", "zombie"}
Holding == {"user_load", "syscall_load", "exec", "close"}

(* No page and no table. *)
Empty(mm, p) ==
  /\ \A d \in Dirs : mm.dir[p][d] = None
  /\ \A a \in Addrs : mm.pte[p][a].page = None /\ ~mm.pte[p][a].rw

ModeOf(p) ==
  /\ mode[p] = "none" <=> task[p] = None
  /\ mode[p] \in {"none", "zombie"} => Empty(m, p)
  /\ mode[p] \in Holding <=> held[p] # None
  /\ mode[p] \in {"user_load", "syscall_load"} => at[p] \in FileBacked /\ m.pte[p][at[p]].page = None
  /\ mode[p] = "syscall" =>
       /\ at[p] \in Addrs
       /\ at[p] \notin FileBacked /\ m.pte[p][at[p]].page # None => m.pte[p][at[p]].rw
  /\ mode[p] \in {"exec", "close"} => \E a \in Addrs : m.pte[p][a].page # None
Modes == \A p \in Procs : ModeOf(p)

(* What task p finds in page a is what it put there, or zeros. *)
Seen(p, a) ==
  IF m.pte[p][a].page # None THEN mem[m.pte[p][a].page] = view[p][a] ELSE view[p][a] = Zero
SeenOf(p) ==
  /\ \A a \in Addrs \ FileBacked : Seen(p, a)
  /\ mode[p] \in {"exec", "close"} => mem[held[p]] = p
AllSeen == \A p \in Procs : SeenOf(p)

Types ==
  /\ mem \in [Frames -> Int] /\ view \in [Procs -> [Addrs -> Int]]
  /\ mode \in [Procs -> ModeSet] /\ at \in [Procs -> Addrs \cup {None}]

MemInv == Types /\ Sound(m, task, held, None) /\ Modes /\ AllSeen
-----------------------------------------------------------------------------
(* Counting. *)

(* u and w differ at a at most; in row p; in one cell of row p. *)
But(u, w, R, a) == \A r \in R : r # a => w[r] = u[r]
ButRow(u, w, R, p) == \A q \in Procs : q # p => \A r \in R : w[q][r] = u[q][r]
ButCell(u, w, R, p, a) == \A q \in Procs, r \in R : ~(q = p /\ r = a) => w[q][r] = u[q][r]

LEMMA NatHasLeast ==
  ASSUME NEW T \in SUBSET Nat, T # {}
  PROVE  \E x \in T : \A y \in T : x =< y
<1> DEFINE R == OpToRel(<, Nat)
<1>1. PICK x \in T : \A y \in T : ~(<<y, x>> \in R)
  <2>1. IsWellFoundedOn(R, Nat)
    BY NatLessThanWellFounded
  <2> HIDE DEF R
  <2> QED BY <2>1, WFMin
<1>2. \A y \in T : ~(y < x)
  BY <1>1 DEF OpToRel
<1> QED BY <1>2

LEMMA ListHasMost ==
  ASSUME NEW n \in Nat \ {0}, NEW g \in [1 .. n -> Nat]
  PROVE  \E j \in 1 .. n : \A i \in 1 .. n : g[i] =< g[j]
<1> DEFINE Bound(k) == \E j \in 1 .. k : \A i \in 1 .. k : g[i] =< g[j]
           T == {k \in 1 .. n : ~Bound(k)}
<1>1. T = {}
  <2> SUFFICES ASSUME T # {}
               PROVE  FALSE
    OBVIOUS
  <2>0. T \in SUBSET Nat
    OBVIOUS
  <2>1. PICK k \in T : \A y \in T : k =< y
    <3> HIDE DEF T
    <3> QED BY <2>0, NatHasLeast
  <2>2. k \in 1 .. n /\ ~Bound(k) /\ (k # 1 => k - 1 \in 1 .. n) /\ ~(k =< k - 1)
    <3> HIDE DEF Bound
    <3> QED OBVIOUS
  <2>3. k - 1 \in 1 .. n => Bound(k - 1)
    <3> HIDE DEF Bound
    <3> QED BY <2>1, <2>2
  <2> HIDE DEF T
  <2>4. k # 1
    BY <2>2
  <2>5. PICK j \in 1 .. (k - 1) : \A i \in 1 .. (k - 1) : g[i] =< g[j]
    BY <2>2, <2>3, <2>4
  <2>6. \A i \in 1 .. k : g[i] \in Nat
    BY <2>2
  <2>7. CASE g[k] =< g[j]
    <3>1. j \in 1 .. k /\ \A i \in 1 .. k : g[i] =< g[j]
      BY <2>2, <2>5, <2>7
    <3> QED BY <2>2, <3>1
  <2>8. CASE ~(g[k] =< g[j])
    <3>1. \A i \in 1 .. k : g[i] =< g[k]
      BY <2>2, <2>5, <2>6, <2>8
    <3>2. k \in 1 .. k
      BY <2>2
    <3> QED BY <2>2, <3>1, <3>2
  <2> QED BY <2>7, <2>8
<1>2. n \in 1 .. n
  OBVIOUS
<1> QED BY <1>1, <1>2

LEMMA FiniteHasMost ==
  ASSUME NEW S \in SUBSET Nat, IsFiniteSet(S), S # {}
  PROVE  Max(S) \in S /\ \A y \in S : Max(S) >= y
<1>1. PICK n \in Nat : ExistsBijection(1 .. n, S)
  BY FS_CardinalityType
<1>2. PICK g \in [1 .. n -> S] : \A y \in S : \E i \in 1 .. n : g[i] = y
  BY <1>1 DEF ExistsBijection, Bijection, Surjection
<1>0. n # 0
  <2>1. PICK y \in S : TRUE
    OBVIOUS
  <2>2. PICK i \in 1 .. n : g[i] = y
    BY <1>2, <2>1
  <2> QED OBVIOUS
<1>3. n \in Nat \ {0} /\ g \in [1 .. n -> Nat]
  BY <1>0
<1>4. PICK j \in 1 .. n : \A i \in 1 .. n : g[i] =< g[j]
  BY <1>3, ListHasMost
<1>5. g[j] \in S /\ \A y \in S : g[j] >= y
  <2>1. g[j] \in S
    BY <1>2
  <2>2. ASSUME NEW y \in S
        PROVE  g[j] >= y
    <3>1. PICK i \in 1 .. n : g[i] = y
      BY <1>2
    <3> QED BY <1>4, <2>1, <3>1
  <2> QED BY <2>1, <2>2
<1>6. \E x \in S : \A y \in S : x >= y
  BY <1>5
<1> QED BY <1>6 DEF Max

LEMMA WhereSet ==
  ASSUME NEW R, IsFiniteSet(R), NEW u, NEW w, NEW a \in R, NEW x, But(u, w, R, a)
  PROVE  /\ IsFiniteSet(Where(u, R, x)) /\ Cardinality(Where(u, R, x)) \in Nat
         /\ Cardinality(Where(w, R, x)) = Cardinality(Where(u, R, x)) - One(u[a], x) + One(w[a], x)
<1> DEFINE U == Where(u, R, x)
           W == Where(w, R, x)
<1>1. IsFiniteSet(U) /\ IsFiniteSet(W) /\ Cardinality(U) \in Nat /\ Cardinality(W) \in Nat
  BY FS_Subset, FS_CardinalityType DEF Where
<1>2. W \ {a} = U \ {a} /\ (a \in U <=> u[a] = x) /\ (a \in W <=> w[a] = x)
  BY DEF Where, But
<1> HIDE DEF U, W
<1> DEFINE X == U \ {a}
<1>3. Cardinality(X) = IF a \in U THEN Cardinality(U) - 1 ELSE Cardinality(U)
  BY <1>1, FS_RemoveElement
<1>4. Cardinality(X) = IF a \in W THEN Cardinality(W) - 1 ELSE Cardinality(W)
  <2>1. Cardinality(W \ {a}) = IF a \in W THEN Cardinality(W) - 1 ELSE Cardinality(W)
    BY <1>1, FS_RemoveElement
  <2>2. X = W \ {a}
    BY <1>2
  <2> QED BY <2>1, <2>2
<1> HIDE DEF X
<1>5. Cardinality(W) = Cardinality(U) - One(u[a], x) + One(w[a], x)
  BY <1>1, <1>2, <1>3, <1>4 DEF One
<1> QED BY <1>1, <1>5 DEF U, W

LEMMA CellsFinite ==
  ASSUME NEW R, IsFiniteSet(R), NEW u, NEW x
  PROVE  IsFiniteSet(Cells(u, R, x)) /\ Cardinality(Cells(u, R, x)) \in Nat
<1>1. IsFiniteSet(Procs \X R)
  BY Constants, FS_Product
<1> QED BY <1>1, FS_Subset, FS_CardinalityType DEF Cells

(* When the row of one task changes. *)
LEMMA CellsRow ==
  ASSUME NEW R, IsFiniteSet(R), NEW u, NEW w, NEW p \in Procs, NEW x, ButRow(u, w, R, p)
  PROVE  /\ Cardinality(Where(u[p], R, x)) \in Nat /\ Cardinality(Where(w[p], R, x)) \in Nat
         /\ Cardinality(Cells(w, R, x)) =
              Cardinality(Cells(u, R, x)) - Cardinality(Where(u[p], R, x)) + Cardinality(Where(w[p], R, x))
<1>1. ASSUME NEW v
      PROVE  /\ IsFiniteSet(Where(v[p], R, x)) /\ Cardinality(Where(v[p], R, x)) \in Nat
             /\ Cardinality(Cells(v, R, x) \cap ({p} \X R)) = Cardinality(Where(v[p], R, x))
  <2> DEFINE A == Where(v[p], R, x)
             B == Cells(v, R, x) \cap ({p} \X R)
             g == [a \in A |-> <<p, a>>]
  <2>1. IsFiniteSet(A)
    BY FS_Subset DEF Where
  <2>2. g \in [A -> B]
    BY DEF Where, Cells
  <2>3. \A a, b \in A : g[a] = g[b] => a = b
    OBVIOUS
  <2>4. \A s \in B : \E a \in A : g[a] = s
    BY DEF Where, Cells
  <2> HIDE DEF A, B, g
  <2>5. g \in Bijection(A, B)
    BY <2>2, <2>3, <2>4 DEF Bijection, Injection, Surjection, IsInjective
  <2>6. Cardinality(B) = Cardinality(A) /\ Cardinality(A) \in Nat
    BY <2>1, <2>5, FS_Bijection, FS_CardinalityType DEF ExistsBijection
  <2> QED BY <2>1, <2>6 DEF A, B
<1> DEFINE U == Cells(u, R, x)
           W == Cells(w, R, x)
           C == {p} \X R
<1>2. IsFiniteSet(U) /\ IsFiniteSet(W) /\ Cardinality(U) \in Nat /\ Cardinality(W) \in Nat
  BY CellsFinite
<1>3. U \ C = W \ C
  BY DEF Cells, ButRow
<1>4. /\ Cardinality(U \cap C) = Cardinality(Where(u[p], R, x))
      /\ Cardinality(W \cap C) = Cardinality(Where(w[p], R, x))
      /\ Cardinality(Where(u[p], R, x)) \in Nat /\ Cardinality(Where(w[p], R, x)) \in Nat
  BY <1>1
<1> DEFINE X == U \ C
           Y == U \cap C
           Z == W \cap C
<1> HIDE DEF U, W, C
<1>5. /\ Cardinality(X) = Cardinality(U) - Cardinality(Y)
      /\ Cardinality(X) = Cardinality(W) - Cardinality(Z)
  <2>1. Cardinality(U \ C) = Cardinality(U) - Cardinality(U \cap C)
    BY <1>2, FS_Difference
  <2>2. Cardinality(W \ C) = Cardinality(W) - Cardinality(W \cap C)
    BY <1>2, FS_Difference
  <2> QED BY <1>3, <2>1, <2>2
<1>y. Cardinality(Y) = Cardinality(Where(u[p], R, x)) /\ Cardinality(Z) = Cardinality(Where(w[p], R, x))
  BY <1>4
<1> HIDE DEF X, Y, Z
<1>6. Cardinality(W) = Cardinality(U) - Cardinality(Where(u[p], R, x)) + Cardinality(Where(w[p], R, x))
  BY <1>y, <1>2, <1>4, <1>5
<1> QED BY <1>4, <1>6 DEF U, W

(* When one cell changes. *)
LEMMA CellSet ==
  ASSUME NEW R, IsFiniteSet(R), NEW u, NEW w,
         NEW p \in Procs, NEW a \in R, NEW x, ButCell(u, w, R, p, a),
         NEW y, NEW z, u[p][a] = y, w[p][a] = z
  PROVE  Cardinality(Cells(w, R, x)) = (Cardinality(Cells(u, R, x)) - One(y, x)) + One(z, x)
<1>0. ButRow(u, w, R, p)
  BY DEF ButRow, ButCell
<1>1. Cardinality(Cells(w, R, x)) =
        Cardinality(Cells(u, R, x)) - Cardinality(Where(u[p], R, x)) + Cardinality(Where(w[p], R, x))
      /\ Cardinality(Where(u[p], R, x)) \in Nat /\ Cardinality(Where(w[p], R, x)) \in Nat
  BY <1>0, CellsRow
<1> DEFINE v == u[p]
           t == w[p]
<1>2. But(v, t, R, a) /\ v[a] = y /\ t[a] = z
  BY DEF But, ButCell
<1> HIDE DEF v, t
<1>3. Cardinality(Where(t, R, x)) = Cardinality(Where(v, R, x)) - One(y, x) + One(z, x)
  BY <1>2, WhereSet
<1>4. Cardinality(Cells(u, R, x)) \in Nat /\ Cardinality(Cells(w, R, x)) \in Nat
  BY CellsFinite
<1> QED BY <1>1, <1>3, <1>4 DEF One, v, t

LEMMA CountsAreNat ==
  ASSUME NEW u, NEW x
  PROVE  NT(u, x) \in Nat /\ ND(u, x) \in Nat /\ NP(u, x) \in Nat
<1>1. NT(u, x) \in Nat
  <2>1. IsFiniteSet(Where(u, Procs, x))
    BY Constants, FS_Subset DEF Where
  <2> QED BY <2>1, FS_CardinalityType DEF NT
<1>2. ND(u, x) \in Nat /\ NP(u, x) \in Nat
  BY Constants, CellsFinite DEF ND, NP
<1> QED BY <1>1, <1>2

LEMMA NTSet ==
  ASSUME NEW u \in Places, NEW c \in Procs, NEW v, NEW x
  PROVE  NT([u EXCEPT ![c] = v], x) = (NT(u, x) - One(u[c], x)) + One(v, x)
<1> DEFINE w == [u EXCEPT ![c] = v]
<1>1. But(u, w, Procs, c) /\ w[c] = v
  BY DEF But, Places
<1> HIDE DEF w
<1>2. Cardinality(Where(w, Procs, x)) = (Cardinality(Where(u, Procs, x)) - One(u[c], x)) + One(w[c], x)
  BY <1>1, Constants, WhereSet
<1> QED BY <1>1, <1>2 DEF NT, w

(* How the count of x changes when y becomes z. *)
Counts(n, k, y, z, x) == k = (n - One(y, x)) + One(z, x)

LEMMA CellIs ==
  ASSUME NEW R, IsFiniteSet(R), NEW u, NEW w, NEW p \in Procs, NEW d \in R, NEW x, ButCell(u, w, R, p, d)
  PROVE  Counts(Cardinality(Cells(u, R, x)), Cardinality(Cells(w, R, x)), u[p][d], w[p][d], x)
<1> DEFINE y == u[p][d]
           z == w[p][d]
<1>1. y = u[p][d] /\ z = w[p][d]
  OBVIOUS
<1> HIDE DEF y, z
<1>2. Cardinality(Cells(w, R, x)) = (Cardinality(Cells(u, R, x)) - One(y, x)) + One(z, x)
  BY <1>1, CellSet
<1> QED BY <1>1, <1>2 DEF Counts

LEMMA NDSet ==
  ASSUME NEW u, NEW w, NEW p \in Procs, NEW d \in Dirs, NEW x, ButCell(u, w, Dirs, p, d)
  PROVE  ND(w, x) = (ND(u, x) - One(u[p][d], x)) + One(w[p][d], x)
<1>1. IsFiniteSet(Dirs)
  BY Constants
<1>2. Counts(Cardinality(Cells(u, Dirs, x)), Cardinality(Cells(w, Dirs, x)), u[p][d], w[p][d], x)
  BY <1>1, CellIs
<1> QED BY <1>2 DEF ND, Counts

SamePage(u, w, q, b) == w[q][b].page = u[q][b].page
ButPage(u, w, p, a) == \A q \in Procs, b \in Addrs : ~(q = p /\ b = a) => SamePage(u, w, q, b)

LEMMA NPSet ==
  ASSUME NEW u, NEW w, NEW p \in Procs, NEW a \in Addrs, NEW x, ButPage(u, w, p, a)
  PROVE  Counts(NP(u, x), NP(w, x), u[p][a].page, w[p][a].page, x)
<1> DEFINE U == PagesOf(u)
           W == PagesOf(w)
<1>1. ButCell(U, W, Addrs, p, a)
  BY DEF ButPage, SamePage, ButCell, PagesOf
<1>2. U[p][a] = u[p][a].page /\ W[p][a] = w[p][a].page
  BY DEF PagesOf
<1>3. IsFiniteSet(Addrs)
  BY Constants
<1> HIDE DEF U, W
<1>4. Counts(Cardinality(Cells(U, Addrs, x)), Cardinality(Cells(W, Addrs, x)), U[p][a], W[p][a], x)
  BY <1>1, <1>3, CellIs
<1> QED BY <1>2, <1>4 DEF NP, U, W

LEMMA NPSame ==
  ASSUME NEW u, NEW w, \A q \in Procs, b \in Addrs : w[q][b].page = u[q][b].page
  PROVE  \A x : NP(w, x) = NP(u, x)
<1>1. PagesOf(w) = PagesOf(u)
  BY DEF PagesOf
<1> QED BY <1>1 DEF NP

(* A use counts. *)
LEMMA AtLeastOne ==
  ASSUME NEW S, IsFiniteSet(S)
  PROVE  /\ \A s \in S : Cardinality(S) >= 1
         /\ \A s, r \in S : s # r => Cardinality(S) >= 2
<1>1. Cardinality(S) \in Nat
  BY FS_CardinalityType
<1>2. Cardinality(S) = 0 <=> S = {}
  BY FS_EmptySet
<1>3. Cardinality(S) = 1 <=> \E x : S = {x}
  BY FS_Singleton
<1>4. ASSUME NEW s \in S, NEW r \in S, s # r
      PROVE  Cardinality(S) >= 2
  <2>1. ~\E x : S = {x}
    BY <1>4
  <2>2. Cardinality(S) # 0 /\ Cardinality(S) # 1
    BY <1>2, <1>3, <1>4, <2>1
  <2> QED BY <1>1, <2>2
<1> QED BY <1>1, <1>2, <1>4

LEMMA TaskUse ==
  ASSUME NEW u, NEW x
  PROVE  /\ \A p \in Procs : u[p] = x => NT(u, x) >= 1
         /\ \A p, q \in Procs : u[p] = x /\ u[q] = x /\ p # q => NT(u, x) >= 2
<1> DEFINE S == Where(u, Procs, x)
<1>1. IsFiniteSet(S)
  BY Constants, FS_Subset DEF Where
<1>2. \A p \in Procs : u[p] = x => p \in S
  BY DEF Where
<1> HIDE DEF S
<1>3. /\ \A s \in S : Cardinality(S) >= 1
      /\ \A s, r \in S : s # r => Cardinality(S) >= 2
  BY <1>1, AtLeastOne
<1>4. NT(u, x) = Cardinality(S)
  BY DEF NT, S
<1> QED BY <1>2, <1>3, <1>4

LEMMA CellUse ==
  ASSUME NEW u, NEW R, IsFiniteSet(R), NEW x
  PROVE  /\ \A p \in Procs, a \in R : u[p][a] = x => Cardinality(Cells(u, R, x)) >= 1
         /\ \A p, q \in Procs, a, b \in R :
              u[p][a] = x /\ u[q][b] = x /\ ~(p = q /\ a = b) => Cardinality(Cells(u, R, x)) >= 2
<1> DEFINE S == Cells(u, R, x)
<1>1. IsFiniteSet(S)
  BY CellsFinite
<1>2. \A p \in Procs, a \in R : u[p][a] = x => <<p, a>> \in S
  BY DEF Cells
<1> HIDE DEF S
<1>3. /\ \A s \in S : Cardinality(S) >= 1
      /\ \A s, r \in S : s # r => Cardinality(S) >= 2
  BY <1>1, AtLeastOne
<1>4. ASSUME NEW p \in Procs, NEW q \in Procs, NEW a \in R, NEW b \in R,
             u[p][a] = x, u[q][b] = x, ~(p = q /\ a = b)
      PROVE  Cardinality(S) >= 2
  <2>1. <<p, a>> # <<q, b>>
    BY <1>4
  <2>2. <<p, a>> \in S /\ <<q, b>> \in S
    BY <1>2, <1>4
  <2> QED BY <1>3, <2>1, <2>2
<1>5. \A p \in Procs, a \in R : u[p][a] = x => Cardinality(S) >= 1
  BY <1>2, <1>3
<1> QED BY <1>4, <1>5 DEF S

LEMMA DirUse ==
  ASSUME NEW u, NEW x
  PROVE  /\ \A p \in Procs, d \in Dirs : u[p][d] = x => ND(u, x) >= 1
         /\ \A p, q \in Procs, d, e \in Dirs :
              u[p][d] = x /\ u[q][e] = x /\ ~(p = q /\ d = e) => ND(u, x) >= 2
BY Constants, CellUse DEF ND

LEMMA PageUse ==
  ASSUME NEW u, NEW x
  PROVE  /\ \A p \in Procs, a \in Addrs : u[p][a].page = x => NP(u, x) >= 1
         /\ \A p, q \in Procs, a, b \in Addrs :
              u[p][a].page = x /\ u[q][b].page = x /\ ~(p = q /\ a = b) => NP(u, x) >= 2
<1> DEFINE U == PagesOf(u)
<1>1. \A p \in Procs, a \in Addrs : U[p][a] = u[p][a].page
  BY DEF PagesOf
<1> HIDE DEF U
<1>2. /\ \A p \in Procs, a \in Addrs : U[p][a] = x => Cardinality(Cells(U, Addrs, x)) >= 1
      /\ \A p, q \in Procs, a, b \in Addrs :
           U[p][a] = x /\ U[q][b] = x /\ ~(p = q /\ a = b) => Cardinality(Cells(U, Addrs, x)) >= 2
  BY Constants, CellUse
<1>3. NP(u, x) = Cardinality(Cells(U, Addrs, x))
  BY DEF NP, U
<1> QED BY <1>1, <1>2, <1>3
-----------------------------------------------------------------------------
(* What exact counts say about single pages. *)

(* Nobody uses x; nobody has x as a page he may write, a table or a held   *)
(* page.                                                                   *)
NoUse(mm, tk, hd, x) ==
  /\ \A p \in Procs : tk[p] # x /\ hd[p] # x
  /\ \A p \in Procs, d \in Dirs : mm.dir[p][d] # x
  /\ \A p \in Procs, a \in Addrs : mm.pte[p][a].page # x
NoRef(mm, hd, x) ==
  /\ \A p \in Procs : hd[p] # x
  /\ \A p \in Procs, d \in Dirs : mm.dir[p][d] # x
  /\ \A p \in Procs, a \in Addrs : mm.pte[p][a].rw => mm.pte[p][a].page # x

Counted(mm, tk, hd, E, x) ==
  /\ mm.map[x] \in Nat /\ NT(tk, x) \in Nat /\ NT(hd, x) \in Nat
  /\ ND(mm.dir, x) \in Nat /\ NP(mm.pte, x) \in Nat
  /\ mm.map[x] = (NT(tk, x) + ND(mm.dir, x) + NP(mm.pte, x) + NT(hd, x)) + One(x, E)

LEMMA SoundCounts ==
  ASSUME NEW mm, NEW tk, NEW hd, NEW E, Sound(mm, tk, hd, E), NEW x \in Frames
  PROVE  Counted(mm, tk, hd, E, x)
<1>1. mm.map[x] \in Nat
  BY DEF Sound, MemoryType
<1>2. mm.map[x] = UsesOf(mm, tk, hd, x) + One(x, E)
  BY DEF Sound, Exact
<1>3. NT(tk, x) \in Nat /\ NT(hd, x) \in Nat /\ ND(mm.dir, x) \in Nat /\ NP(mm.pte, x) \in Nat
  BY CountsAreNat
<1> QED BY <1>1, <1>2, <1>3 DEF Counted, UsesOf

LEMMA SumIsZero ==
  ASSUME NEW i \in Nat, NEW j \in Nat, NEW k \in Nat, NEW l \in Nat, NEW n \in Nat,
         0 = (i + j + k + l) + n
  PROVE  i = 0 /\ j = 0 /\ k = 0 /\ l = 0 /\ n = 0
OBVIOUS

LEMMA UnusedPage ==
  ASSUME NEW mm, NEW tk, NEW hd, NEW E, Sound(mm, tk, hd, E), NEW x \in Frames, mm.map[x] = 0
  PROVE  NoUse(mm, tk, hd, x) /\ x # E
<1>1. Counted(mm, tk, hd, E, x)
  BY SoundCounts
<1>0. One(x, E) \in Nat
  BY DEF One
<1>2. /\ NT(tk, x) = 0 /\ ND(mm.dir, x) = 0 /\ NP(mm.pte, x) = 0 /\ NT(hd, x) = 0
      /\ One(x, E) = 0
  <2> DEFINE tt == NT(tk, x)
             dd == ND(mm.dir, x)
             pp == NP(mm.pte, x)
             hh == NT(hd, x)
             ee == One(x, E)
  <2>1. /\ tt \in Nat /\ dd \in Nat /\ pp \in Nat /\ hh \in Nat /\ ee \in Nat
        /\ 0 = (tt + dd + pp + hh) + ee
    BY <1>0, <1>1 DEF Counted
  <2> HIDE DEF tt, dd, pp, hh, ee
  <2>2. tt = 0 /\ dd = 0 /\ pp = 0 /\ hh = 0 /\ ee = 0
    BY <2>1, SumIsZero
  <2> QED BY <2>2 DEF tt, dd, pp, hh, ee
<1>3. \A p \in Procs : tk[p] # x /\ hd[p] # x
  BY <1>2, TaskUse
<1>4. \A p \in Procs, d \in Dirs : mm.dir[p][d] # x
  BY <1>2, DirUse
<1>5. \A p \in Procs, a \in Addrs : mm.pte[p][a].page # x
  BY <1>2, PageUse
<1> QED BY <1>2, <1>3, <1>4, <1>5 DEF NoUse, One

LEMMA SlackPage ==
  ASSUME NEW mm, NEW tk, NEW hd, NEW x \in Frames, Sound(mm, tk, hd, x)
  PROVE  /\ mm.map[x] >= 1 /\ NoRef(mm, hd, x)
         /\ mm.map[x] = 1 => NoUse(mm, tk, hd, x)
<1>1. Counted(mm, tk, hd, x, x)
  BY SoundCounts
<1>2. mm.map[x] = (NT(tk, x) + ND(mm.dir, x) + NP(mm.pte, x) + NT(hd, x)) + 1 /\ mm.map[x] >= 1
  BY <1>1 DEF Counted, One
<1>3. mm.map[x] = 1 => NoUse(mm, tk, hd, x)
  <2> SUFFICES ASSUME mm.map[x] = 1
               PROVE  NoUse(mm, tk, hd, x)
    OBVIOUS
  <2>2. NT(tk, x) = 0 /\ ND(mm.dir, x) = 0 /\ NP(mm.pte, x) = 0 /\ NT(hd, x) = 0
    BY <1>1, <1>2 DEF Counted
  <2>3. \A p \in Procs : tk[p] # x /\ hd[p] # x
    BY <2>2, TaskUse
  <2>4. \A p \in Procs, d \in Dirs : mm.dir[p][d] # x
    BY <2>2, DirUse
  <2>5. \A p \in Procs, a \in Addrs : mm.pte[p][a].page # x
    BY <2>2, PageUse
  <2> QED BY <2>3, <2>4, <2>5 DEF NoUse
<1>4. CASE mm.map[x] = 1
  BY <1>2, <1>3, <1>4 DEF NoRef, NoUse
<1>5. CASE mm.map[x] # 1
  BY <1>2, <1>3, <1>5 DEF NoRef, Sound, Alone
<1> QED BY <1>4, <1>5

(* A use that is the only one. *)
LEMMA OneUse ==
  ASSUME NEW mm, NEW tk, NEW hd, NEW E, Sound(mm, tk, hd, E), NEW x \in Frames, mm.map[x] = 1
  PROVE  /\ \A p \in Procs : hd[p] = x =>
              /\ \A q \in Procs : tk[q] # x /\ (q # p => hd[q] # x)
              /\ \A q \in Procs, d \in Dirs : mm.dir[q][d] # x
              /\ \A q \in Procs, a \in Addrs : mm.pte[q][a].page # x
         /\ \A p \in Procs, d \in Dirs : mm.dir[p][d] = x =>
              /\ \A q \in Procs : tk[q] # x /\ hd[q] # x
              /\ \A q \in Procs, e \in Dirs : mm.dir[q][e] = x => q = p /\ e = d
              /\ \A q \in Procs, a \in Addrs : mm.pte[q][a].page # x
         /\ \A p \in Procs, a \in Addrs : mm.pte[p][a].page = x =>
              /\ \A q \in Procs : tk[q] # x /\ hd[q] # x
              /\ \A q \in Procs, d \in Dirs : mm.dir[q][d] # x
              /\ \A q \in Procs, b \in Addrs : mm.pte[q][b].page = x => q = p /\ b = a
<1> DEFINE tt == NT(tk, x)
           dd == ND(mm.dir, x)
           pp == NP(mm.pte, x)
           hh == NT(hd, x)
<1>1. /\ tt \in Nat /\ dd \in Nat /\ pp \in Nat /\ hh \in Nat
      /\ tt + dd + pp + hh =< 1
  <2>1. Counted(mm, tk, hd, E, x)
    BY SoundCounts
  <2> QED BY <2>1 DEF Counted, One
<1>2. \A p \in Procs : tk[p] = x => tt >= 1
  BY TaskUse
<1>3. /\ \A p \in Procs : hd[p] = x => hh >= 1
      /\ \A p, q \in Procs : hd[p] = x /\ hd[q] = x /\ p # q => hh >= 2
  BY TaskUse
<1>4. /\ \A p \in Procs, d \in Dirs : mm.dir[p][d] = x => dd >= 1
      /\ \A p, q \in Procs, d, e \in Dirs :
           mm.dir[p][d] = x /\ mm.dir[q][e] = x /\ ~(p = q /\ d = e) => dd >= 2
  BY DirUse
<1>5. /\ \A p \in Procs, a \in Addrs : mm.pte[p][a].page = x => pp >= 1
      /\ \A p, q \in Procs, a, b \in Addrs :
           mm.pte[p][a].page = x /\ mm.pte[q][b].page = x /\ ~(p = q /\ a = b) => pp >= 2
  BY PageUse
<1> HIDE DEF tt, dd, pp, hh
<1>6. ASSUME NEW p \in Procs, hd[p] = x
      PROVE  /\ \A q \in Procs : tk[q] # x /\ (q # p => hd[q] # x)
             /\ \A q \in Procs, d \in Dirs : mm.dir[q][d] # x
             /\ \A q \in Procs, a \in Addrs : mm.pte[q][a].page # x
  <2>1. tt = 0 /\ dd = 0 /\ pp = 0 /\ hh = 1
    BY <1>1, <1>3, <1>6
  <2> QED BY <1>2, <1>3, <1>4, <1>5, <1>6, <2>1
<1>7. ASSUME NEW p \in Procs, NEW d \in Dirs, mm.dir[p][d] = x
      PROVE  /\ \A q \in Procs : tk[q] # x /\ hd[q] # x
             /\ \A q \in Procs, e \in Dirs : mm.dir[q][e] = x => q = p /\ e = d
             /\ \A q \in Procs, a \in Addrs : mm.pte[q][a].page # x
  <2>1. tt = 0 /\ dd = 1 /\ pp = 0 /\ hh = 0
    BY <1>1, <1>4, <1>7
  <2> QED BY <1>2, <1>3, <1>4, <1>5, <1>7, <2>1
<1>8. ASSUME NEW p \in Procs, NEW a \in Addrs, mm.pte[p][a].page = x
      PROVE  /\ \A q \in Procs : tk[q] # x /\ hd[q] # x
             /\ \A q \in Procs, d \in Dirs : mm.dir[q][d] # x
             /\ \A q \in Procs, b \in Addrs : mm.pte[q][b].page = x => q = p /\ b = a
  <2>1. tt = 0 /\ dd = 0 /\ pp = 1 /\ hh = 0
    BY <1>1, <1>5, <1>8
  <2> QED BY <1>2, <1>3, <1>4, <1>5, <1>8, <2>1
<1> QED BY <1>6, <1>7, <1>8

(* A page in a table is counted. *)
LEMMA PageCounts ==
  ASSUME NEW mm, NEW tk, NEW hd, NEW E, Sound(mm, tk, hd, E),
         NEW p \in Procs, NEW a \in Addrs, NEW x \in Frames, mm.pte[p][a].page = x
  PROVE  mm.map[x] >= 1
<1>1. Counted(mm, tk, hd, E, x)
  BY SoundCounts
<1>2. NP(mm.pte, x) >= 1
  BY PageUse
<1> QED BY <1>1, <1>2 DEF Counted, One
-----------------------------------------------------------------------------
(* What the functions of memory.c keep.  *)

LEMMA TakeIs ==
  ASSUME NEW mm \in MemoryType, NEW x \in Frames
  PROVE  /\ Take(mm, x) \in MemoryType /\ Take(mm, x).dir = mm.dir /\ Take(mm, x).pte = mm.pte
         /\ Take(mm, x).map[x] = 1
         /\ \A y \in Frames : y # x => Take(mm, x).map[y] = mm.map[y]
BY DEF Take, MemoryType

LEMMA FreeIs ==
  ASSUME NEW mm \in MemoryType, NEW x \in Frames, mm.map[x] >= 1
  PROVE  /\ FreePage(mm, x) \in MemoryType
         /\ FreePage(mm, x).dir = mm.dir /\ FreePage(mm, x).pte = mm.pte
         /\ FreePage(mm, x).map[x] = mm.map[x] - 1
         /\ \A y \in Frames : y # x => FreePage(mm, x).map[y] = mm.map[y]
BY DEF FreePage, MemoryType

(* The tables stay and only the count of a page nobody refers to changes. *)
LEMMA AloneBut ==
  ASSUME NEW mm, NEW nn, NEW tk, NEW hd, NEW E, Sound(mm, tk, hd, E),
         nn.dir = mm.dir, nn.pte = mm.pte,
         NEW x, NoRef(mm, hd, x), \A y \in Frames : y # x => nn.map[y] = mm.map[y]
  PROVE  Alone(nn, hd) /\ InTables(nn) /\ SameAddress(nn)
<1>1. Alone(mm, hd)
  BY DEF Sound
<1>2. Alone(nn, hd)
  BY <1>1 DEF Alone, NoRef
<1> QED BY <1>2 DEF Sound, InTables, SameAddress

LEMMA TakeSound ==
  ASSUME NEW mm, NEW tk, NEW hd, Sound(mm, tk, hd, None), NEW x \in Frames, mm.map[x] = 0
  PROVE  Sound(Take(mm, x), tk, hd, x)
<1> DEFINE nn == Take(mm, x)
<1>1. /\ nn \in MemoryType /\ nn.dir = mm.dir /\ nn.pte = mm.pte /\ nn.map[x] = 1
      /\ \A y \in Frames : y # x => nn.map[y] = mm.map[y]
  BY TakeIs DEF Sound
<1> HIDE DEF nn
<1>2. NoRef(mm, hd, x)
  BY UnusedPage DEF NoUse, NoRef
<1>3. Alone(nn, hd) /\ InTables(nn) /\ SameAddress(nn)
  BY <1>1, <1>2, AloneBut
<1>4. Exact(nn, tk, hd, x)
  <2> SUFFICES ASSUME NEW y \in Frames
               PROVE  nn.map[y] = UsesOf(nn, tk, hd, y) + One(y, x)
    BY DEF Exact
  <2>1. Counted(mm, tk, hd, None, y) /\ y # None
    BY SoundCounts, Constants DEF None
  <2> QED BY <1>1, <2>1 DEF Counted, UsesOf, One
<1> QED BY <1>1, <1>3, <1>4 DEF Sound, nn

LEMMA FreeSound ==
  ASSUME NEW mm, NEW tk, NEW hd, NEW x \in Frames, Sound(mm, tk, hd, x)
  PROVE  Sound(FreePage(mm, x), tk, hd, None)
<1> DEFINE nn == FreePage(mm, x)
<1>0. mm.map[x] >= 1 /\ NoRef(mm, hd, x) /\ mm \in MemoryType
  BY SlackPage DEF Sound
<1>1. /\ nn \in MemoryType /\ nn.dir = mm.dir /\ nn.pte = mm.pte /\ nn.map[x] = mm.map[x] - 1
      /\ \A y \in Frames : y # x => nn.map[y] = mm.map[y]
  BY <1>0, FreeIs
<1> HIDE DEF nn
<1>3. Alone(nn, hd) /\ InTables(nn) /\ SameAddress(nn)
  BY <1>0, <1>1, AloneBut
<1>4. Exact(nn, tk, hd, None)
  <2> SUFFICES ASSUME NEW y \in Frames
               PROVE  nn.map[y] = UsesOf(nn, tk, hd, y) + One(y, None)
    BY DEF Exact
  <2>1. Counted(mm, tk, hd, x, y) /\ y # None
    BY SoundCounts, Constants DEF None
  <2> QED BY <1>1, <2>1 DEF Counted, UsesOf, One
<1> QED BY <1>1, <1>3, <1>4 DEF Sound, nn

(* A task structure gets its page; gives it up. *)
LEMMA TaskGets ==
  ASSUME NEW mm, NEW tk, NEW hd, NEW x \in Frames, Sound(mm, tk, hd, x),
         NEW c \in Procs, tk[c] = None
  PROVE  Sound(mm, [tk EXCEPT ![c] = x], hd, None)
<1> DEFINE uu == [tk EXCEPT ![c] = x]
<1>1. uu \in Places /\ tk \in Places
  BY DEF Places, Sound
<1>2. Exact(mm, uu, hd, None)
  <2> SUFFICES ASSUME NEW y \in Frames
               PROVE  mm.map[y] = UsesOf(mm, uu, hd, y) + One(y, None)
    BY DEF Exact
  <2>1. Counted(mm, tk, hd, x, y) /\ y # None
    BY SoundCounts, Constants DEF None
  <2>2. NT(uu, y) = (NT(tk, y) - One(None, y)) + One(x, y)
    BY <1>1, NTSet
  <2> HIDE DEF uu
  <2> QED BY <2>1, <2>2 DEF Counted, UsesOf, One
<1> QED BY <1>1, <1>2 DEF Sound

LEMMA TaskGives ==
  ASSUME NEW mm, NEW tk, NEW hd, NEW x \in Frames, Sound(mm, tk, hd, None),
         NEW c \in Procs, tk[c] = x
  PROVE  Sound(mm, [tk EXCEPT ![c] = None], hd, x)
<1> DEFINE uu == [tk EXCEPT ![c] = None]
<1>1. uu \in Places /\ tk \in Places
  BY DEF Places, Sound
<1>2. Exact(mm, uu, hd, x)
  <2> SUFFICES ASSUME NEW y \in Frames
               PROVE  mm.map[y] = UsesOf(mm, uu, hd, y) + One(y, x)
    BY DEF Exact
  <2>1. Counted(mm, tk, hd, None, y) /\ y # None
    BY SoundCounts, Constants DEF None
  <2>2. NT(uu, y) = (NT(tk, y) - One(x, y)) + One(None, y)
    BY <1>1, NTSet
  <2> HIDE DEF uu
  <2> QED BY <2>1, <2>2 DEF Counted, UsesOf, One
<1> QED BY <1>1, <1>2 DEF Sound

(* A task goes to sleep with a page in hand; puts it away. *)
LEMMA HeldGets ==
  ASSUME NEW mm, NEW tk, NEW hd, NEW x \in Frames, Sound(mm, tk, hd, x), mm.map[x] = 1,
         NEW c \in Procs, hd[c] = None
  PROVE  Sound(mm, tk, [hd EXCEPT ![c] = x], None)
<1> DEFINE uu == [hd EXCEPT ![c] = x]
<1>1. uu \in Places /\ hd \in Places
  BY DEF Places, Sound
<1>2. Exact(mm, tk, uu, None)
  <2> SUFFICES ASSUME NEW y \in Frames
               PROVE  mm.map[y] = UsesOf(mm, tk, uu, y) + One(y, None)
    BY DEF Exact
  <2>1. Counted(mm, tk, hd, x, y) /\ y # None
    BY SoundCounts, Constants DEF None
  <2>2. NT(uu, y) = (NT(hd, y) - One(None, y)) + One(x, y)
    BY <1>1, NTSet
  <2> HIDE DEF uu
  <2> QED BY <2>1, <2>2 DEF Counted, UsesOf, One
<1>3. Alone(mm, uu)
  BY <1>1 DEF Sound, Alone, Places
<1> QED BY <1>1, <1>2, <1>3 DEF Sound

LEMMA HeldGives ==
  ASSUME NEW mm, NEW tk, NEW hd, NEW x \in Frames, Sound(mm, tk, hd, None),
         NEW c \in Procs, hd[c] = x
  PROVE  Sound(mm, tk, [hd EXCEPT ![c] = None], x) /\ mm.map[x] = 1
<1> DEFINE uu == [hd EXCEPT ![c] = None]
<1>1. uu \in Places /\ hd \in Places
  BY DEF Places, Sound
<1>2. Exact(mm, tk, uu, x)
  <2> SUFFICES ASSUME NEW y \in Frames
               PROVE  mm.map[y] = UsesOf(mm, tk, uu, y) + One(y, x)
    BY DEF Exact
  <2>1. Counted(mm, tk, hd, None, y) /\ y # None
    BY SoundCounts, Constants DEF None
  <2>2. NT(uu, y) = (NT(hd, y) - One(x, y)) + One(None, y)
    BY <1>1, NTSet
  <2> HIDE DEF uu
  <2> QED BY <2>1, <2>2 DEF Counted, UsesOf, One
<1>3. Alone(mm, uu) /\ mm.map[x] = 1
  <2>1. Alone(mm, hd) /\ None \notin Frames
    BY Constants DEF Sound, None
  <2> QED BY <1>1, <2>1 DEF Alone, Places
<1> QED BY <1>1, <1>2, <1>3 DEF Sound
(* put_page(): the page in hand is entered, writable. *)
LEMMA PutSound ==
  ASSUME NEW mm, NEW tk, NEW hd, NEW x \in Frames, Sound(mm, tk, hd, x), mm.map[x] = 1,
         NEW nn \in MemoryType, NEW p \in Procs, NEW a \in Addrs,
         mm.pte[p][a].page = None, mm.dir[p][DirOf[a]] # None,
         nn.map = mm.map, nn.dir = mm.dir, ButCell(mm.pte, nn.pte, Addrs, p, a),
         nn.pte[p][a].page = x
  PROVE  Sound(nn, tk, hd, None)
<1>0. mm \in MemoryType /\ x # None /\ NoUse(mm, tk, hd, x)
  BY SlackPage, Constants DEF Sound, None
<1>1. \A q \in Procs, b \in Addrs : ~(q = p /\ b = a) => nn.pte[q][b] = mm.pte[q][b]
  BY DEF ButCell
<1>2. Exact(nn, tk, hd, None)
  <2> SUFFICES ASSUME NEW y \in Frames
               PROVE  nn.map[y] = UsesOf(nn, tk, hd, y) + One(y, None)
    BY DEF Exact
  <2>1. Counted(mm, tk, hd, x, y) /\ y # None
    BY SoundCounts, Constants DEF None
  <2>2. ButPage(mm.pte, nn.pte, p, a)
    BY <1>1 DEF ButPage, SamePage
  <2>3. Counts(NP(mm.pte, y), NP(nn.pte, y), mm.pte[p][a].page, nn.pte[p][a].page, y)
    BY <2>2, NPSet
  <2>4. NP(nn.pte, y) = NP(mm.pte, y) + One(x, y)
    BY <2>1, <2>3 DEF One, Counted, Counts
  <2> QED BY <2>1, <2>4 DEF Counted, UsesOf, One
<1>3. Alone(nn, hd)
  BY <1>1 DEF Sound, Alone
<1>4. InTables(nn)
  BY <1>1 DEF Sound, InTables
<1>5. SameAddress(nn)
  BY <1>0, <1>1 DEF Sound, SameAddress, NoUse
<1> QED BY <1>2, <1>3, <1>4, <1>5 DEF Sound

(* put_page() and try_to_share() take a page for a new table. *)
LEMMA TableSound ==
  ASSUME NEW mm, NEW tk, NEW hd, NEW E, Sound(mm, tk, hd, E),
         NEW nn \in MemoryType, NEW p \in Procs, NEW d \in Dirs, NEW x \in Frames,
         mm.map[x] = 0, mm.dir[p][d] = None,
         nn.map[x] = 1, \A y \in Frames : y # x => nn.map[y] = mm.map[y],
         nn.pte = mm.pte, ButCell(mm.dir, nn.dir, Dirs, p, d), nn.dir[p][d] = x
  PROVE  Sound(nn, tk, hd, E)
<1>0. mm \in MemoryType /\ x # None /\ NoUse(mm, tk, hd, x) /\ x # E
  BY UnusedPage, Constants DEF Sound, None
<1>1. \A q \in Procs, e \in Dirs : ~(q = p /\ e = d) => nn.dir[q][e] = mm.dir[q][e]
  BY DEF ButCell
<1>2. Exact(nn, tk, hd, E)
  <2> SUFFICES ASSUME NEW y \in Frames
               PROVE  nn.map[y] = UsesOf(nn, tk, hd, y) + One(y, E)
    BY DEF Exact
  <2>1. Counted(mm, tk, hd, E, y) /\ y # None
    BY SoundCounts, Constants DEF None
  <2>2. ND(nn.dir, y) = (ND(mm.dir, y) - One(mm.dir[p][d], y)) + One(nn.dir[p][d], y)
    BY NDSet
  <2>3. ND(nn.dir, y) = ND(mm.dir, y) + One(x, y)
    BY <2>1, <2>2 DEF One, Counted
  <2>4. nn.map[y] = mm.map[y] + One(x, y)
    BY <2>1 DEF One, Counted
  <2>5. One(y, E) \in Nat /\ One(x, y) \in Nat
    BY DEF One
  <2> QED BY <2>1, <2>3, <2>4, <2>5 DEF Counted, UsesOf
<1>3. Alone(nn, hd)
  <2>1. Alone(mm, hd)
    BY DEF Sound
  <2> QED BY <1>0, <1>1, <2>1 DEF Alone, NoUse
<1>4. InTables(nn)
  <2> SUFFICES ASSUME NEW q \in Procs, NEW b \in Addrs, nn.pte[q][b].page # None
               PROVE  nn.dir[q][DirOf[b]] # None
    BY DEF InTables
  <2>1. mm.dir[q][DirOf[b]] # None /\ DirOf[b] \in Dirs
    BY Constants DEF Sound, InTables
  <2> QED BY <1>0, <1>1, <2>1
<1>5. SameAddress(nn)
  BY DEF Sound, SameAddress
<1> QED BY <1>2, <1>3, <1>4, <1>5 DEF Sound

(* The processor sets a dirty bit, un_wp_page() makes a page writable that *)
(* nobody else has.                                                        *)
LEMMA FlagsSound ==
  ASSUME NEW mm, NEW tk, NEW hd, NEW E, Sound(mm, tk, hd, E),
         NEW nn \in MemoryType, nn.map = mm.map, nn.dir = mm.dir,
         \A q \in Procs, b \in Addrs : nn.pte[q][b].page = mm.pte[q][b].page,
         \A q \in Procs, b \in Addrs :
           nn.pte[q][b].rw => \/ mm.pte[q][b].rw
                              \/ mm.pte[q][b].page \in Frames /\ mm.map[mm.pte[q][b].page] = 1
  PROVE  Sound(nn, tk, hd, E)
<1>1. \A y : NP(nn.pte, y) = NP(mm.pte, y)
  BY NPSame
<1>2. Exact(nn, tk, hd, E)
  BY <1>1 DEF Sound, Exact, UsesOf
<1>3. Alone(nn, hd)
  BY DEF Sound, Alone
<1>4. InTables(nn) /\ SameAddress(nn)
  BY DEF Sound, InTables, SameAddress
<1> QED BY <1>2, <1>3, <1>4 DEF Sound

(* un_wp_page() takes a copy. *)
LEMMA UnWpSound ==
  ASSUME NEW mm, NEW tk, NEW hd, Sound(mm, tk, hd, None),
         NEW nn \in MemoryType, NEW p \in Procs, NEW a \in Addrs,
         NEW x \in Frames, NEW y \in Frames,
         mm.map[x] = 0, mm.pte[p][a].page = y, mm.map[y] # 1,
         nn.map[x] = 1, nn.map[y] = mm.map[y] - 1,
         \A z \in Frames : z # x /\ z # y => nn.map[z] = mm.map[z],
         nn.dir = mm.dir, ButCell(mm.pte, nn.pte, Addrs, p, a), nn.pte[p][a].page = x
  PROVE  Sound(nn, tk, hd, None)
<1>0. mm \in MemoryType /\ x # None /\ y # None /\ NoUse(mm, tk, hd, x) /\ x # y
  BY UnusedPage, Constants DEF Sound, None, NoUse
<1>1. \A q \in Procs, b \in Addrs : ~(q = p /\ b = a) => nn.pte[q][b] = mm.pte[q][b]
  BY DEF ButCell
<1>2. Exact(nn, tk, hd, None)
  <2> SUFFICES ASSUME NEW z \in Frames
               PROVE  nn.map[z] = UsesOf(nn, tk, hd, z) + One(z, None)
    BY DEF Exact
  <2>1. Counted(mm, tk, hd, None, z) /\ z # None
    BY SoundCounts, Constants DEF None
  <2>2. ButPage(mm.pte, nn.pte, p, a)
    BY <1>1 DEF ButPage, SamePage
  <2>a. Counts(NP(mm.pte, z), NP(nn.pte, z), mm.pte[p][a].page, nn.pte[p][a].page, z)
    BY <2>2, NPSet
  <2>3. NP(nn.pte, z) = (NP(mm.pte, z) - One(y, z)) + One(x, z)
    BY <2>a DEF Counts
  <2>4. nn.map[z] = (mm.map[z] - One(y, z)) + One(x, z)
    BY <1>0, <2>1 DEF One, Counted
  <2>5. One(z, None) = 0 /\ One(y, z) \in Nat /\ One(x, z) \in Nat
    BY <2>1 DEF One
  <2> QED BY <2>1, <2>3, <2>4, <2>5 DEF Counted, UsesOf
<1>3. Alone(nn, hd)
  <2>1. Alone(mm, hd)
    BY DEF Sound
  <2>2. NoRef(mm, hd, y)
    BY <2>1 DEF Alone, NoRef
  <2> QED BY <1>0, <1>1, <2>1, <2>2 DEF Alone, NoRef, NoUse
<1>4. InTables(nn)
  <2>1. mm.dir[p][DirOf[a]] # None
    BY <1>0 DEF Sound, InTables
  <2> QED BY <1>1, <2>1 DEF Sound, InTables
<1>5. SameAddress(nn)
  BY <1>0, <1>1 DEF Sound, SameAddress, NoUse
<1> QED BY <1>2, <1>3, <1>4, <1>5 DEF Sound

(* try_to_share() enters a page of task q for task p, too, read-only. *)
LEMMA ShareSound ==
  ASSUME NEW mm, NEW tk, NEW hd, Sound(mm, tk, hd, None),
         NEW nn \in MemoryType, NEW p \in Procs, NEW q \in Procs, NEW a \in Addrs, p # q,
         NEW x \in Frames, mm.pte[q][a].page = x, mm.pte[p][a].page = None,
         mm.dir[p][DirOf[a]] # None,
         nn.map[x] = mm.map[x] + 1, \A z \in Frames : z # x => nn.map[z] = mm.map[z],
         nn.dir = mm.dir,
         \A r \in Procs, b \in Addrs : ~(r \in {p, q} /\ b = a) => nn.pte[r][b] = mm.pte[r][b],
         nn.pte[p][a].page = x, nn.pte[q][a].page = x, ~nn.pte[p][a].rw, ~nn.pte[q][a].rw
  PROVE  Sound(nn, tk, hd, None)
<1>0. mm \in MemoryType /\ x # None
  BY Constants DEF Sound, None
<1>2. Exact(nn, tk, hd, None)
  <2> SUFFICES ASSUME NEW z \in Frames
               PROVE  nn.map[z] = UsesOf(nn, tk, hd, z) + One(z, None)
    BY DEF Exact
  <2>1. Counted(mm, tk, hd, None, z) /\ z # None
    BY SoundCounts, Constants DEF None
  <2>2. ButPage(mm.pte, nn.pte, p, a)
    BY DEF ButPage, SamePage
  <2>a. Counts(NP(mm.pte, z), NP(nn.pte, z), mm.pte[p][a].page, nn.pte[p][a].page, z)
    BY <2>2, NPSet
  <2>3. NP(nn.pte, z) = (NP(mm.pte, z) - One(None, z)) + One(x, z)
    BY <2>a DEF Counts
  <2>4. nn.map[z] = mm.map[z] + One(x, z)
    BY <2>1 DEF One, Counted
  <2>5. One(z, None) = 0 /\ One(None, z) = 0 /\ One(x, z) \in Nat
    BY <2>1 DEF One
  <2> QED BY <2>1, <2>3, <2>4, <2>5 DEF Counted, UsesOf
<1>3. Alone(nn, hd)
  <2>1. Alone(mm, hd)
    BY DEF Sound
  <2>2. \/ mm.map[x] # 1
        \/ /\ \A r \in Procs : hd[r] # x
           /\ \A r \in Procs, d \in Dirs : mm.dir[r][d] # x
           /\ \A r \in Procs, b \in Addrs : mm.pte[r][b].page = x => r = q /\ b = a
    BY OneUse
  <2>3. /\ \A r \in Procs : hd[r] # x
        /\ \A r \in Procs, d \in Dirs : mm.dir[r][d] # x
        /\ \A r \in Procs, b \in Addrs : mm.pte[r][b].rw /\ mm.pte[r][b].page = x => r = q /\ b = a
    BY <2>1, <2>2 DEF Alone
  <2> QED BY <2>1, <2>3 DEF Alone
<1>4. InTables(nn)
  <2>1. mm.dir[q][DirOf[a]] # None
    BY <1>0 DEF Sound, InTables
  <2> QED BY <2>1 DEF Sound, InTables
<1>5. SameAddress(nn)
  <2>1. \A r \in Procs, b \in Addrs :
          /\ nn.pte[r][b].page = mm.pte[r][b].page \/ (nn.pte[r][b].page = x /\ b = a)
          /\ mm.pte[r][b].page = x => b = a
    BY <1>0 DEF Sound, SameAddress
  <2> QED BY <2>1 DEF Sound, SameAddress
<1> QED BY <1>2, <1>3, <1>4, <1>5 DEF Sound

(* The pages and the tables of one task that are frame x. *)
PagesIn(pte, p, x) == {a \in Addrs : pte[p][a].page = x}
TablesIn(dir, p, x) == {d \in Dirs : dir[p][d] = x}
RowCounts(n, k, i, j) == i \in Nat /\ j \in Nat /\ k = (n - i) + j

LEMMA NPRow ==
  ASSUME NEW u, NEW w, NEW p \in Procs, NEW x,
         \A q \in Procs, b \in Addrs : q # p => SamePage(u, w, q, b)
  PROVE  RowCounts(NP(u, x), NP(w, x), Cardinality(PagesIn(u, p, x)), Cardinality(PagesIn(w, p, x)))
<1> DEFINE U == PagesOf(u)
           W == PagesOf(w)
<1>1. ButRow(U, W, Addrs, p)
  BY DEF ButRow, PagesOf, SamePage
<1>2. Where(U[p], Addrs, x) = PagesIn(u, p, x) /\ Where(W[p], Addrs, x) = PagesIn(w, p, x)
  BY DEF Where, PagesIn, PagesOf
<1>3. IsFiniteSet(Addrs)
  BY Constants
<1> HIDE DEF U, W
<1>4. RowCounts(Cardinality(Cells(U, Addrs, x)), Cardinality(Cells(W, Addrs, x)),
                Cardinality(Where(U[p], Addrs, x)), Cardinality(Where(W[p], Addrs, x)))
  BY <1>1, <1>3, CellsRow DEF RowCounts
<1> QED BY <1>2, <1>4 DEF NP, U, W

LEMMA NDRow ==
  ASSUME NEW u, NEW w, NEW p \in Procs, NEW x, ButRow(u, w, Dirs, p)
  PROVE  RowCounts(ND(u, x), ND(w, x), Cardinality(TablesIn(u, p, x)), Cardinality(TablesIn(w, p, x)))
<1>2. Where(u[p], Dirs, x) = TablesIn(u, p, x) /\ Where(w[p], Dirs, x) = TablesIn(w, p, x)
  BY DEF Where, TablesIn
<1>3. IsFiniteSet(Dirs)
  BY Constants
<1>4. RowCounts(Cardinality(Cells(u, Dirs, x)), Cardinality(Cells(w, Dirs, x)),
                Cardinality(Where(u[p], Dirs, x)), Cardinality(Where(w[p], Dirs, x)))
  BY <1>3, CellsRow DEF RowCounts
<1> QED BY <1>2, <1>4 DEF ND

(* free_page_tables() *)
LEMMA ClearIs ==
  ASSUME NEW mm, NEW tk, NEW hd, NEW E, Sound(mm, tk, hd, E), NEW p \in Procs
  PROVE  LET nn == free_page_tables(mm, p) IN
         /\ Sound(nn, tk, hd, E) /\ Empty(nn, p)
         /\ \A d \in Dirs : mm.dir[p][d] \in Frames => nn.map[mm.dir[p][d]] = 0
         /\ \A q \in Procs : q # p => nn.dir[q] = mm.dir[q] /\ nn.pte[q] = mm.pte[q]
<1> DEFINE nn == free_page_tables(mm, p)
           ii(x) == Cardinality(PagesIn(mm.pte, p, x))
           jj(x) == Cardinality(TablesIn(mm.dir, p, x))
<1>0. mm \in MemoryType
  BY DEF Sound
<1>1. /\ nn.map = [x \in Frames |-> mm.map[x] - ii(x) - jj(x)]
      /\ nn.dir = [mm.dir EXCEPT ![p] = [d \in Dirs |-> None]]
      /\ nn.pte = [mm.pte EXCEPT ![p] = [a \in Addrs |-> NoPage]]
      /\ nn = [map |-> nn.map, dir |-> nn.dir, pte |-> nn.pte]
  BY DEF free_page_tables, PagesIn, TablesIn, Count
<1> HIDE DEF nn
<1>2. nn.dir \in [Procs -> [Dirs -> Frames \cup {None}]] /\ nn.pte \in [Procs -> [Addrs -> Entry]]
  BY <1>0, <1>1 DEF MemoryType, NoPage, Entry
<1>3. /\ \A q \in Procs : q # p => nn.dir[q] = mm.dir[q] /\ nn.pte[q] = mm.pte[q]
      /\ \A d \in Dirs : nn.dir[p][d] = None
      /\ \A a \in Addrs : nn.pte[p][a].page = None /\ ~nn.pte[p][a].rw
  BY <1>0, <1>1 DEF MemoryType, NoPage
<1>4. ASSUME NEW x \in Frames
      PROVE  /\ nn.map[x] \in Nat /\ nn.map[x] = UsesOf(nn, tk, hd, x) + One(x, E)
             /\ ii(x) \in Nat /\ jj(x) \in Nat /\ nn.map[x] = mm.map[x] - ii(x) - jj(x)
  <2>1. Counted(mm, tk, hd, E, x) /\ x # None
    BY SoundCounts, Constants DEF None
  <2>2. RowCounts(NP(mm.pte, x), NP(nn.pte, x), ii(x), Cardinality(PagesIn(nn.pte, p, x)))
    <3>1. \A q \in Procs, b \in Addrs : q # p => SamePage(mm.pte, nn.pte, q, b)
      BY <1>3 DEF SamePage
    <3> QED BY <3>1, NPRow
  <2>3. RowCounts(ND(mm.dir, x), ND(nn.dir, x), jj(x), Cardinality(TablesIn(nn.dir, p, x)))
    <3>1. ButRow(mm.dir, nn.dir, Dirs, p)
      BY <1>3 DEF ButRow
    <3> QED BY <3>1, NDRow
  <2>4. PagesIn(nn.pte, p, x) = {} /\ TablesIn(nn.dir, p, x) = {}
    BY <1>3, <2>1 DEF PagesIn, TablesIn
  <2>5. Cardinality(PagesIn(nn.pte, p, x)) = 0 /\ Cardinality(TablesIn(nn.dir, p, x)) = 0
    BY <2>4, FS_EmptySet
  <2>6. nn.map[x] = mm.map[x] - ii(x) - jj(x)
    BY <1>1
  <2>7. NP(nn.pte, x) \in Nat /\ ND(nn.dir, x) \in Nat /\ One(x, E) \in Nat
    BY CountsAreNat DEF One
  <2> HIDE DEF ii, jj
  <2>8. /\ ii(x) \in Nat /\ jj(x) \in Nat
        /\ NP(nn.pte, x) = NP(mm.pte, x) - ii(x) /\ ND(nn.dir, x) = ND(mm.dir, x) - jj(x)
    BY <2>1, <2>2, <2>3, <2>5 DEF RowCounts, Counted
  <2> QED BY <2>1, <2>6, <2>7, <2>8 DEF Counted, UsesOf
<1>5. nn \in MemoryType
  <2>1. nn.map \in [Frames -> Nat]
    BY <1>1, <1>4
  <2> QED BY <1>1, <1>2, <2>1 DEF MemoryType
<1>6. Exact(nn, tk, hd, E)
  BY <1>4 DEF Exact
<1>7. Alone(nn, hd)
  <2> HIDE DEF ii, jj
  <2>0. Alone(mm, hd)
    BY DEF Sound
  <2>1. ASSUME NEW x \in Frames, mm.map[x] = 1, PagesIn(mm.pte, p, x) = {}, TablesIn(mm.dir, p, x) = {}
        PROVE  nn.map[x] = 1
    <3>1. ii(x) = 0 /\ jj(x) = 0
      BY <2>1, FS_EmptySet DEF ii, jj
    <3> QED BY <1>4, <2>1, <3>1
  <2>2. ASSUME NEW q \in Procs, NEW b \in Addrs, nn.pte[q][b].rw
        PROVE  nn.pte[q][b].page \in Frames /\ nn.map[nn.pte[q][b].page] = 1
    <3> DEFINE x == nn.pte[q][b].page
    <3>1. q # p /\ mm.pte[q][b].page = x /\ x \in Frames /\ mm.map[x] = 1
      BY <1>3, <2>0, <2>2 DEF Alone
    <3> HIDE DEF x
    <3>2. PagesIn(mm.pte, p, x) = {} /\ TablesIn(mm.dir, p, x) = {}
      BY <3>1, OneUse DEF PagesIn, TablesIn
    <3>3. nn.map[x] = 1
      BY <2>1, <3>1, <3>2
    <3> QED BY <3>1, <3>3 DEF x
  <2>3. ASSUME NEW q \in Procs, NEW e \in Dirs, nn.dir[q][e] \in Frames
        PROVE  nn.map[nn.dir[q][e]] = 1
    <3> DEFINE x == nn.dir[q][e]
    <3>0. None \notin Frames
      BY Constants DEF None
    <3>1. q # p /\ mm.dir[q][e] = x /\ x \in Frames /\ mm.map[x] = 1
      BY <1>3, <2>0, <2>3, <3>0 DEF Alone
    <3> HIDE DEF x
    <3>2. PagesIn(mm.pte, p, x) = {} /\ TablesIn(mm.dir, p, x) = {}
      BY <3>1, OneUse DEF PagesIn, TablesIn
    <3>3. nn.map[x] = 1
      BY <2>1, <3>1, <3>2
    <3> QED BY <3>3 DEF x
  <2>4. ASSUME NEW q \in Procs, hd[q] \in Frames
        PROVE  nn.map[hd[q]] = 1
    <3> DEFINE x == hd[q]
    <3>1. x \in Frames /\ mm.map[x] = 1 /\ hd[q] = x
      BY <2>0, <2>4 DEF Alone
    <3> HIDE DEF x
    <3>2. PagesIn(mm.pte, p, x) = {} /\ TablesIn(mm.dir, p, x) = {}
      BY <3>1, OneUse DEF PagesIn, TablesIn
    <3>3. nn.map[x] = 1
      BY <2>1, <3>1, <3>2
    <3> QED BY <3>3 DEF x
  <2> QED BY <2>2, <2>3, <2>4 DEF Alone
<1>8. InTables(nn)
  BY <1>3 DEF Sound, InTables
<1>9. SameAddress(nn)
  BY <1>3 DEF Sound, SameAddress
<1>10. Sound(nn, tk, hd, E)
  BY <1>5, <1>6, <1>7, <1>8, <1>9 DEF Sound
<1>11. Empty(nn, p)
  BY <1>3 DEF Empty
<1>12. ASSUME NEW d \in Dirs, mm.dir[p][d] \in Frames
       PROVE  nn.map[mm.dir[p][d]] = 0
  <2> DEFINE x == mm.dir[p][d]
             S == TablesIn(mm.dir, p, x)
  <2>1. x \in Frames /\ mm.map[x] = 1 /\ d \in S
    BY <1>12 DEF Sound, Alone, TablesIn
  <2>2. IsFiniteSet(S)
    BY Constants, FS_Subset DEF TablesIn
  <2>3. jj(x) = Cardinality(S)
    OBVIOUS
  <2> HIDE DEF x, S, ii, jj
  <2>4. Cardinality(S) >= 1
    BY <2>1, <2>2, AtLeastOne
  <2>5. nn.map[x] = 0
    BY <1>4, <2>1, <2>3, <2>4
  <2> QED BY <2>5 DEF x
<1> QED BY <1>3, <1>10, <1>11, <1>12 DEF nn

LEMMA EntryIs ==
  ASSUME NEW e \in Entry
  PROVE  /\ [e EXCEPT !.rw = FALSE].dirty = e.dirty /\ [e EXCEPT !.rw = TRUE].dirty = e.dirty
         /\ [e EXCEPT !.dirty = TRUE].dirty
         /\ [e EXCEPT !.rw = FALSE] \in Entry
         /\ [e EXCEPT !.rw = FALSE].page = e.page /\ ~[e EXCEPT !.rw = FALSE].rw
         /\ [e EXCEPT !.rw = TRUE] \in Entry
         /\ [e EXCEPT !.rw = TRUE].page = e.page /\ [e EXCEPT !.rw = TRUE].rw
         /\ [e EXCEPT !.dirty = TRUE] \in Entry
         /\ [e EXCEPT !.dirty = TRUE].page = e.page /\ [e EXCEPT !.dirty = TRUE].rw = e.rw
BY DEF Entry

(* The loop of copy_page_tables(). *)
LEMMA CopyIs ==
  ASSUME NEW mm, NEW tk, NEW hd, NEW E, Sound(mm, tk, hd, E),
         NEW p \in Procs, NEW c \in Procs, p # c, Empty(mm, c),
         NEW dirs \in SUBSET Dirs, NEW tables \in [dirs -> FreeFrames(mm)],
         \A d, e \in dirs : d < e => tables[d] > tables[e]
  PROVE  LET nn == copy_dirs(mm, p, c, dirs, tables) IN
         /\ Sound(nn, tk, hd, E)
         /\ nn.dir[p] = mm.dir[p]
         /\ \A q \in Procs : q # p /\ q # c => nn.dir[q] = mm.dir[q] /\ nn.pte[q] = mm.pte[q]
         /\ \A a \in Addrs :
              /\ nn.pte[p][a].page = mm.pte[p][a].page
              /\ nn.pte[c][a].page = IF DirOf[a] \in dirs THEN mm.pte[p][a].page ELSE None
              /\ nn.pte[p][a].dirty = mm.pte[p][a].dirty
              /\ nn.pte[c][a].page # None => nn.pte[c][a].dirty = mm.pte[p][a].dirty
<1> DEFINE nn == copy_dirs(mm, p, c, dirs, tables)
           copied == {a \in Addrs : DirOf[a] \in dirs /\ Present(mm.pte[p][a])}
           PC(x) == {a \in copied : mm.pte[p][a].page = x}
           DC(x) == {d \in dirs : tables[d] = x}
           low(a) == [mm.pte[p][a] EXCEPT !.rw = FALSE]
           rowp == [a \in Addrs |-> IF a \in copied THEN low(a) ELSE mm.pte[p][a]]
           rowc == [a \in Addrs |-> IF a \in copied THEN low(a) ELSE NoPage]
<1>0. mm \in MemoryType /\ None \notin Frames
  BY Constants DEF Sound, None
<1>1. /\ nn.map = [x \in Frames |-> mm.map[x] + Cardinality(PC(x)) + Cardinality(DC(x))]
      /\ nn.dir = [mm.dir EXCEPT ![c] = [d \in Dirs |-> IF d \in dirs THEN tables[d] ELSE None]]
      /\ nn.pte = [mm.pte EXCEPT ![p] = rowp, ![c] = rowc]
      /\ nn = [map |-> nn.map, dir |-> nn.dir, pte |-> nn.pte]
  BY DEF copy_dirs, Count
<1> HIDE DEF nn
<1>2. /\ \A d \in dirs : tables[d] \in Frames /\ mm.map[tables[d]] = 0
      /\ \A d, e \in dirs : tables[d] = tables[e] => d = e
  <2>1. \A d \in dirs : tables[d] \in Frames /\ mm.map[tables[d]] = 0
    BY DEF FreeFrames
  <2>2. \A d \in dirs : d \in Nat /\ tables[d] \in Nat
    BY <2>1, Constants
  <2> QED BY <2>1, <2>2
<1>3. nn.dir \in [Procs -> [Dirs -> Frames \cup {None}]]
  BY <1>0, <1>1, <1>2 DEF MemoryType
<1>a. /\ \A a \in Addrs : /\ mm.pte[p][a] \in Entry /\ low(a) \in Entry
                            /\ low(a).dirty = mm.pte[p][a].dirty
                            /\ low(a).page = mm.pte[p][a].page /\ ~low(a).rw
      /\ NoPage \in Entry /\ NoPage.page = None /\ ~NoPage.rw
  <2>1. \A a \in Addrs : mm.pte[p][a] \in Entry
    BY <1>0 DEF MemoryType
  <2>2. \A a \in Addrs : /\ low(a) \in Entry /\ low(a).page = mm.pte[p][a].page /\ ~low(a).rw
                        /\ low(a).dirty = mm.pte[p][a].dirty
    BY <2>1, EntryIs
  <2> HIDE DEF low
  <2> QED BY <2>1, <2>2 DEF Entry, NoPage
<1> HIDE DEF low
<1>b. rowp \in [Addrs -> Entry] /\ rowc \in [Addrs -> Entry]
  <2> HIDE DEF copied
  <2> QED BY <1>a
<1>c. \A a \in Addrs :
        /\ rowp[a] = IF a \in copied THEN low(a) ELSE mm.pte[p][a]
        /\ rowc[a] = IF a \in copied THEN low(a) ELSE NoPage
  OBVIOUS
<1> HIDE DEF rowp, rowc
<1>4. /\ nn.pte \in [Procs -> [Addrs -> Entry]] /\ nn.pte[p] = rowp /\ nn.pte[c] = rowc
      /\ \A q \in Procs : q # p /\ q # c => nn.pte[q] = mm.pte[q]
  BY ZenonT(30), <1>0, <1>1, <1>b DEF MemoryType
<1>5. /\ nn.dir[p] = mm.dir[p]
      /\ \A d \in Dirs : nn.dir[c][d] = IF d \in dirs THEN tables[d] ELSE None
      /\ \A q \in Procs : q # p /\ q # c => nn.dir[q] = mm.dir[q] /\ nn.pte[q] = mm.pte[q]
  BY <1>0, <1>1, <1>4 DEF MemoryType
<1>6. \A a \in Addrs :
        /\ nn.pte[p][a].page = mm.pte[p][a].page
        /\ nn.pte[c][a].page = IF a \in copied THEN mm.pte[p][a].page ELSE None
        /\ ~nn.pte[c][a].rw
        /\ nn.pte[p][a].rw => mm.pte[p][a].rw /\ a \notin copied
        /\ nn.pte[p][a].dirty = mm.pte[p][a].dirty
        /\ nn.pte[c][a].page # None => nn.pte[c][a].dirty = mm.pte[p][a].dirty
  <2> HIDE DEF copied
  <2> QED BY <1>a, <1>c, <1>4
<1>7. /\ \A a \in copied : a \in Addrs /\ DirOf[a] \in dirs /\ mm.pte[p][a].page \in Frames
      /\ \A a \in Addrs : DirOf[a] \in dirs /\ mm.pte[p][a].page # None => a \in copied
  BY <1>0 DEF MemoryType, Entry, Present
<1> HIDE DEF copied
<1>8. ASSUME NEW x \in Frames
      PROVE  /\ PagesIn(nn.pte, c, x) = PC(x) /\ TablesIn(nn.dir, c, x) = DC(x)
             /\ PagesIn(mm.pte, c, x) = {} /\ TablesIn(mm.dir, c, x) = {}
  <2>1. PagesIn(nn.pte, c, x) = PC(x)
    BY <1>0, <1>6, <1>7 DEF PagesIn
  <2>2. TablesIn(nn.dir, c, x) = DC(x)
    BY <1>0, <1>5 DEF TablesIn
  <2> QED BY <1>0, <2>1, <2>2 DEF Empty, PagesIn, TablesIn
<1>9. ASSUME NEW x \in Frames
      PROVE  /\ Cardinality(PC(x)) \in Nat /\ Cardinality(DC(x)) \in Nat
             /\ nn.map[x] \in Nat /\ nn.map[x] = mm.map[x] + Cardinality(PC(x)) + Cardinality(DC(x))
             /\ nn.map[x] = UsesOf(nn, tk, hd, x) + One(x, E)
  <2>1. Counted(mm, tk, hd, E, x)
    BY SoundCounts
  <2>2. RowCounts(NP(mm.pte, x), NP(nn.pte, x), Cardinality(PagesIn(mm.pte, c, x)),
                  Cardinality(PagesIn(nn.pte, c, x)))
    <3>1. \A q \in Procs, b \in Addrs : q # c => SamePage(mm.pte, nn.pte, q, b)
      BY <1>5, <1>6 DEF SamePage
    <3> QED BY <3>1, NPRow
  <2>3. RowCounts(ND(mm.dir, x), ND(nn.dir, x), Cardinality(TablesIn(mm.dir, c, x)),
                  Cardinality(TablesIn(nn.dir, c, x)))
    <3>1. ButRow(mm.dir, nn.dir, Dirs, c)
      BY <1>5 DEF ButRow
    <3> QED BY <3>1, NDRow
  <2>4. Cardinality(PagesIn(mm.pte, c, x)) = 0 /\ Cardinality(TablesIn(mm.dir, c, x)) = 0
    BY <1>8, FS_EmptySet
  <2>5. nn.map[x] = mm.map[x] + Cardinality(PC(x)) + Cardinality(DC(x))
    BY <1>1
  <2>6. RowCounts(NP(mm.pte, x), NP(nn.pte, x), 0, Cardinality(PC(x)))
    BY <1>8, <2>2, <2>4
  <2>7. RowCounts(ND(mm.dir, x), ND(nn.dir, x), 0, Cardinality(DC(x)))
    BY <1>8, <2>3, <2>4
  <2> DEFINE ii == Cardinality(PC(x))
             jj == Cardinality(DC(x))
  <2>8. /\ ii \in Nat /\ jj \in Nat
        /\ NP(nn.pte, x) = NP(mm.pte, x) + ii /\ ND(nn.dir, x) = ND(mm.dir, x) + jj
    <3>1. RowCounts(NP(mm.pte, x), NP(nn.pte, x), 0, ii) /\ RowCounts(ND(mm.dir, x), ND(nn.dir, x), 0, jj)
      BY <2>6, <2>7
    <3> HIDE DEF ii, jj
    <3> QED BY <2>1, <3>1 DEF RowCounts, Counted
  <2>9. nn.map[x] = mm.map[x] + ii + jj
    BY <2>5
  <2>10. One(x, E) \in Nat
    BY DEF One
  <2> HIDE DEF ii, jj
  <2>11. nn.map[x] \in Nat /\ nn.map[x] = UsesOf(nn, tk, hd, x) + One(x, E)
    BY <2>1, <2>8, <2>9, <2>10 DEF Counted, UsesOf
  <2> QED BY <2>5, <2>8, <2>11 DEF ii, jj
<1>10. nn \in MemoryType
  <2>1. nn.map \in [Frames -> Nat]
    BY <1>1, <1>9
  <2> QED BY <1>1, <1>3, <1>4, <2>1 DEF MemoryType
<1>11. Exact(nn, tk, hd, E)
  BY <1>9 DEF Exact
<1>12. Alone(nn, hd)
  <2>0. Alone(mm, hd)
    BY DEF Sound
  <2>1. ASSUME NEW x \in Frames, mm.map[x] = 1, PC(x) = {}
        PROVE  nn.map[x] = 1
    <3>1. DC(x) = {}
      BY <1>2, <2>1
    <3>2. Cardinality(PC(x)) = 0 /\ Cardinality(DC(x)) = 0
      BY <2>1, <3>1, FS_EmptySet
    <3> HIDE DEF PC, DC
    <3> QED BY <1>9, <2>1, <3>2
  <2>2. ASSUME NEW q \in Procs, NEW b \in Addrs, nn.pte[q][b].rw
        PROVE  nn.pte[q][b].page \in Frames /\ nn.map[nn.pte[q][b].page] = 1
    <3> DEFINE x == nn.pte[q][b].page
    <3>1. /\ mm.pte[q][b].page = x /\ x \in Frames /\ mm.map[x] = 1
          /\ q = p => b \notin copied
      BY <1>5, <1>6, <2>0, <2>2 DEF Alone
    <3> HIDE DEF x
    <3>2. \A r \in Procs, a \in Addrs : mm.pte[r][a].page = x => r = q /\ a = b
      BY <3>1, OneUse
    <3>3. PC(x) = {}
      BY <1>7, <3>1, <3>2
    <3>4. nn.map[x] = 1
      <4> HIDE DEF PC
      <4> QED BY <2>1, <3>1, <3>3
    <3> QED BY <3>1, <3>4 DEF x
  <2>3. ASSUME NEW q \in Procs, NEW e \in Dirs, nn.dir[q][e] \in Frames, q # c
        PROVE  nn.map[nn.dir[q][e]] = 1
    <3> DEFINE x == nn.dir[q][e]
    <3>1. mm.dir[q][e] = x /\ x \in Frames /\ mm.map[x] = 1
      BY <1>5, <2>0, <2>3 DEF Alone
    <3> HIDE DEF x
    <3>2. \A r \in Procs, a \in Addrs : mm.pte[r][a].page # x
      BY <3>1, OneUse
    <3>3. PC(x) = {}
      BY <1>7, <3>2
    <3>4. nn.map[x] = 1
      <4> HIDE DEF PC
      <4> QED BY <2>1, <3>1, <3>3
    <3> QED BY <3>4 DEF x
  <2>4. ASSUME NEW e \in Dirs, nn.dir[c][e] \in Frames
        PROVE  nn.map[nn.dir[c][e]] = 1
    <3> DEFINE x == nn.dir[c][e]
    <3>1. e \in dirs /\ x = tables[e] /\ x \in Frames /\ mm.map[x] = 0
      BY <1>0, <1>2, <1>5, <2>4
    <3> HIDE DEF x
    <3>2. \A r \in Procs, a \in Addrs : mm.pte[r][a].page # x
      BY <3>1, UnusedPage DEF NoUse
    <3>3. PC(x) = {} /\ DC(x) = {e}
      BY <1>2, <1>7, <3>1, <3>2
    <3>4. Cardinality(PC(x)) = 0 /\ Cardinality(DC(x)) = 1
      BY <3>3, FS_EmptySet, FS_Singleton
    <3>5. nn.map[x] = 1
      <4> HIDE DEF PC, DC
      <4> QED BY <1>9, <3>1, <3>4
    <3> QED BY <3>5 DEF x
  <2>5. ASSUME NEW q \in Procs, hd[q] \in Frames
        PROVE  nn.map[hd[q]] = 1
    <3> DEFINE x == hd[q]
    <3>1. x \in Frames /\ mm.map[x] = 1 /\ hd[q] = x
      BY <2>0, <2>5 DEF Alone
    <3> HIDE DEF x
    <3>2. \A r \in Procs, a \in Addrs : mm.pte[r][a].page # x
      BY <3>1, OneUse
    <3>3. PC(x) = {}
      BY <1>7, <3>2
    <3>4. nn.map[x] = 1
      <4> HIDE DEF PC
      <4> QED BY <2>1, <3>1, <3>3
    <3> QED BY <3>4 DEF x
  <2> QED BY <2>2, <2>3, <2>4, <2>5 DEF Alone
<1>13. InTables(nn)
  <2> SUFFICES ASSUME NEW q \in Procs, NEW a \in Addrs, nn.pte[q][a].page # None
               PROVE  nn.dir[q][DirOf[a]] # None
    BY DEF InTables
  <2>0. InTables(mm) /\ DirOf[a] \in Dirs
    BY Constants DEF Sound
  <2>1. CASE q = c
    <3>1. DirOf[a] \in dirs
      BY <1>6, <1>7, <2>1
    <3> QED BY <1>0, <1>2, <1>5, <2>0, <2>1, <3>1
  <2>2. CASE q # c
    <3>1. mm.pte[q][a].page # None /\ nn.dir[q] = mm.dir[q]
      BY <1>5, <1>6, <2>2
    <3> QED BY <2>0, <3>1 DEF InTables
  <2> QED BY <2>1, <2>2
<1>14. SameAddress(nn)
  <2>1. \A q \in Procs, a \in Addrs :
          nn.pte[q][a].page = None \/ \E r \in Procs : nn.pte[q][a].page = mm.pte[r][a].page
    BY <1>5, <1>6
  <2>2. SameAddress(mm)
    BY DEF Sound
  <2> QED BY <2>1, <2>2 DEF SameAddress
<1>15. Sound(nn, tk, hd, E)
  BY <1>10, <1>11, <1>12, <1>13, <1>14 DEF Sound
<1>16. \A a \in Addrs : /\ nn.pte[p][a].page = mm.pte[p][a].page
                        /\ nn.pte[c][a].page = IF DirOf[a] \in dirs THEN mm.pte[p][a].page ELSE None
                        /\ nn.pte[p][a].dirty = mm.pte[p][a].dirty
                        /\ nn.pte[c][a].page # None => nn.pte[c][a].dirty = mm.pte[p][a].dirty
  BY <1>6, <1>7
<1> QED BY <1>5, <1>15, <1>16 DEF nn
-----------------------------------------------------------------------------
(* The functions as the actions call them. *)

LEMMA GetFree ==
  ASSUME NEW mm, FreeFrames(mm) # {}
  PROVE  get_free_page(mm) \in Frames /\ mm.map[get_free_page(mm)] = 0
<1>1. FreeFrames(mm) \in SUBSET Nat /\ IsFiniteSet(FreeFrames(mm))
  BY Constants, FS_Subset DEF FreeFrames
<1>2. Max(FreeFrames(mm)) \in FreeFrames(mm)
  BY <1>1, FiniteHasMost
<1> QED BY <1>2 DEF get_free_page, FreeFrames

LEMMA WithTableIs ==
  ASSUME NEW mm, NEW tk, NEW hd, NEW E, Sound(mm, tk, hd, E),
         NEW p \in Procs, NEW a \in Addrs, CanPut(mm, p, a)
  PROVE  LET nn == WithTable(mm, p, a) IN
         /\ Sound(nn, tk, hd, E) /\ nn.pte = mm.pte /\ nn.dir[p][DirOf[a]] # None
         /\ \A x \in Frames : mm.map[x] # 0 => nn.map[x] = mm.map[x]
         /\ \A q \in Procs : q # p => nn.dir[q] = mm.dir[q]
<1> DEFINE d == DirOf[a]
<1>0. mm \in MemoryType /\ d \in Dirs
  BY Constants DEF Sound
<1>1. CASE mm.dir[p][d] # None
  BY <1>1 DEF WithTable
<1>2. CASE mm.dir[p][d] = None
  <2> DEFINE x == get_free_page(mm)
             tt == Take(mm, x)
             nn == [tt EXCEPT !.dir[p][d] = x]
  <2>1. x \in Frames /\ mm.map[x] = 0 /\ x # None
    BY <1>2, GetFree, Constants DEF CanPut, None
  <2>2. WithTable(mm, p, a) = nn
    BY <1>2 DEF WithTable
  <2> HIDE DEF x
  <2>3. /\ tt \in MemoryType /\ tt.dir = mm.dir /\ tt.pte = mm.pte /\ tt.map[x] = 1
        /\ \A y \in Frames : y # x => tt.map[y] = mm.map[y]
    BY <1>0, <2>1, TakeIs
  <2> HIDE DEF tt, d
  <2>4. nn \in MemoryType /\ nn.map = tt.map /\ nn.pte = tt.pte
    BY <1>0, <2>1, <2>3 DEF MemoryType
  <2>5. /\ nn.dir[p][d] = x /\ ButCell(tt.dir, nn.dir, Dirs, p, d)
        /\ \A q \in Procs : q # p => nn.dir[q] = tt.dir[q]
    BY <1>0, <2>1, <2>3 DEF MemoryType, ButCell
  <2> HIDE DEF nn
  <2>6. /\ nn.map[x] = 1 /\ nn.pte = mm.pte /\ ButCell(mm.dir, nn.dir, Dirs, p, d)
        /\ \A y \in Frames : y # x => nn.map[y] = mm.map[y]
    BY <2>3, <2>4, <2>5
  <2>7. Sound(nn, tk, hd, E)
    BY <1>0, <1>2, <2>1, <2>4, <2>5, <2>6, TableSound
  <2>8. nn.dir[p][d] # None
    BY <2>1, <2>5
  <2>9. \A q \in Procs : q # p => nn.dir[q] = mm.dir[q]
    BY <2>3, <2>5
  <2> QED BY <2>1, <2>2, <2>6, <2>7, <2>8, <2>9 DEF d
<1> QED BY <1>1, <1>2

LEMMA PutIs ==
  ASSUME NEW mm, NEW tk, NEW hd, NEW x \in Frames, Sound(mm, tk, hd, x), mm.map[x] = 1,
         NEW p \in Procs, NEW a \in Addrs, mm.pte[p][a].page = None, CanPut(mm, p, a)
  PROVE  LET nn == put_page(mm, p, a, x) IN
         /\ Sound(nn, tk, hd, None) /\ nn.pte[p][a].page = x /\ nn.pte[p][a].rw
         /\ ~nn.pte[p][a].dirty /\ ButCell(mm.pte, nn.pte, Addrs, p, a)
         /\ \A q \in Procs : q # p => nn.dir[q] = mm.dir[q] /\ nn.pte[q] = mm.pte[q]
<1> DEFINE ww == WithTable(mm, p, a)
           ee == [page |-> x, rw |-> TRUE, dirty |-> FALSE]
           nn == [ww EXCEPT !.pte[p][a] = ee]
<1>1. /\ Sound(ww, tk, hd, x) /\ ww.pte = mm.pte /\ ww.dir[p][DirOf[a]] # None /\ ww.map[x] = 1
      /\ \A q \in Procs : q # p => ww.dir[q] = mm.dir[q]
  BY WithTableIs
<1>2. put_page(mm, p, a, x) = nn
  BY DEF put_page
<1>3. ee \in Entry /\ ee.page = x /\ ee.rw /\ ~ee.dirty
  BY DEF Entry
<1> HIDE DEF ww, ee
<1>4. ww \in MemoryType
  BY <1>1 DEF Sound
<1>5. nn \in MemoryType /\ nn.map = ww.map /\ nn.dir = ww.dir
  BY <1>3, <1>4 DEF MemoryType
<1>6. /\ nn.pte[p][a] = ee /\ ButCell(ww.pte, nn.pte, Addrs, p, a)
      /\ \A q \in Procs : q # p => nn.pte[q] = ww.pte[q]
  BY <1>4 DEF MemoryType, ButCell
<1> HIDE DEF nn
<1>7. ww.pte[p][a].page = None /\ nn.pte[p][a].page = x
  BY <1>1, <1>3, <1>6
<1>8. Sound(nn, tk, hd, None)
  BY <1>1, <1>5, <1>6, <1>7, PutSound
<1> QED BY <1>1, <1>2, <1>3, <1>5, <1>6, <1>8

LEMMA UnWpIs ==
  ASSUME NEW mm, NEW tk, NEW hd, Sound(mm, tk, hd, None),
         NEW p \in Procs, NEW a \in Addrs, mm.pte[p][a].page # None,
         mm.map[mm.pte[p][a].page] # 1 => FreeFrames(mm) # {}
  PROVE  LET nn == un_wp_page(mm, p, a)
             y  == mm.pte[p][a].page
         IN  /\ Sound(nn, tk, hd, None) /\ nn.dir = mm.dir /\ nn.pte[p][a].rw
             /\ nn.pte[p][a].page = IF mm.map[y] = 1 THEN y ELSE get_free_page(mm)
             /\ ButCell(mm.pte, nn.pte, Addrs, p, a)
             /\ nn.pte[p][a].dirty = (mm.map[y] = 1 /\ mm.pte[p][a].dirty)
<1> DEFINE y == mm.pte[p][a].page
           x == get_free_page(mm)
<1>0. mm \in MemoryType /\ y \in Frames
  BY DEF Sound, MemoryType, Entry
<1>1. CASE mm.map[y] = 1
  <2> DEFINE nn == [mm EXCEPT !.pte[p][a].rw = TRUE]
             ee == [mm.pte[p][a] EXCEPT !.rw = TRUE]
  <2>1. un_wp_page(mm, p, a) = nn
    BY <1>1 DEF un_wp_page
  <2>2. /\ ee \in Entry /\ ee.page = y /\ ee.rw
        /\ ee.dirty = mm.pte[p][a].dirty /\ mm.pte[p][a].dirty \in BOOLEAN
    <3>1. mm.pte[p][a] \in Entry
      BY <1>0 DEF MemoryType
    <3> QED BY <3>1, EntryIs DEF Entry
  <2>3. nn = [mm EXCEPT !.pte[p][a] = ee]
    OBVIOUS
  <2> HIDE DEF nn, ee
  <2>4. nn \in MemoryType /\ nn.map = mm.map /\ nn.dir = mm.dir
    BY <1>0, <2>2, <2>3 DEF MemoryType
  <2>5. nn.pte[p][a] = ee /\ ButCell(mm.pte, nn.pte, Addrs, p, a)
    BY <1>0, <2>3 DEF MemoryType, ButCell
  <2>6. \A q \in Procs, b \in Addrs : nn.pte[q][b].page = mm.pte[q][b].page
    BY <2>2, <2>5 DEF ButCell
  <2>7. \A q \in Procs, b \in Addrs :
          nn.pte[q][b].rw => \/ mm.pte[q][b].rw
                             \/ mm.pte[q][b].page \in Frames /\ mm.map[mm.pte[q][b].page] = 1
    BY <1>0, <1>1, <2>5 DEF ButCell
  <2>8. Sound(nn, tk, hd, None)
    BY <2>4, <2>6, <2>7, FlagsSound
  <2> QED BY <1>1, <2>1, <2>2, <2>4, <2>5, <2>8
<1>2. CASE mm.map[y] # 1
  <2> DEFINE tt == Take(mm, x)
             ee == [page |-> x, rw |-> TRUE, dirty |-> FALSE]
             nn == [tt EXCEPT !.map[y] = @ - 1, !.pte[p][a] = ee]
  <2>1. x \in Frames /\ mm.map[x] = 0
    BY <1>2, GetFree
  <2>2. un_wp_page(mm, p, a) = nn
    BY <1>2 DEF un_wp_page
  <2>3. ee \in Entry /\ ee.page = x /\ ee.rw /\ ee.dirty = FALSE
    BY <2>1 DEF Entry
  <2>4. mm.map[y] >= 1 /\ x # y
    BY <1>0, <2>1, PageCounts
  <2> HIDE DEF x
  <2>5. /\ tt \in MemoryType /\ tt.dir = mm.dir /\ tt.pte = mm.pte /\ tt.map[x] = 1
        /\ \A z \in Frames : z # x => tt.map[z] = mm.map[z]
    BY <1>0, <2>1, TakeIs
  <2> HIDE DEF tt, ee
  <2>6. tt.map[y] - 1 \in Nat /\ tt.map[y] = mm.map[y]
    <3>1. mm.map[y] \in Nat
      BY <1>0 DEF MemoryType
    <3> QED BY <1>0, <2>4, <2>5, <3>1
  <2> HIDE DEF y
  <2>7. nn \in MemoryType /\ nn.dir = tt.dir
    BY <1>0, <2>3, <2>5, <2>6 DEF MemoryType
  <2>8. nn.map[y] = tt.map[y] - 1 /\ \A z \in Frames : z # y => nn.map[z] = tt.map[z]
    BY <1>0, <2>5 DEF MemoryType
  <2>9. nn.pte[p][a] = ee /\ ButCell(tt.pte, nn.pte, Addrs, p, a)
    BY <2>5 DEF MemoryType, ButCell
  <2> HIDE DEF nn
  <2>10. /\ nn.map[x] = 1 /\ nn.map[y] = mm.map[y] - 1
         /\ \A z \in Frames : z # x /\ z # y => nn.map[z] = mm.map[z]
         /\ nn.dir = mm.dir /\ ButCell(mm.pte, nn.pte, Addrs, p, a) /\ nn.pte[p][a].page = x
    BY <2>1, <2>3, <2>4, <2>5, <2>6, <2>7, <2>8, <2>9
  <2>11. mm.pte[p][a].page = y
    BY DEF y
  <2>12. Sound(nn, tk, hd, None)
    BY <1>0, <1>2, <2>1, <2>7, <2>10, <2>11, UnWpSound
  <2> QED BY <1>2, <2>2, <2>3, <2>9, <2>10, <2>12 DEF x, y
<1> QED BY <1>1, <1>2

LEMMA ShareIs ==
  ASSUME NEW mm, NEW tk, NEW hd, Sound(mm, tk, hd, None),
         NEW p \in Procs, NEW q \in Procs, NEW a \in Addrs, p # q,
         mm.pte[p][a].page = None, mm.pte[q][a].page # None, CanPut(mm, p, a)
  PROVE  LET nn == try_to_share(mm, p, a, q) IN
         /\ Sound(nn, tk, hd, None)
         /\ \A r \in Procs : r # p => nn.dir[r] = mm.dir[r]
         /\ \A r \in Procs, b \in Addrs : b # a \/ r \notin {p, q} => nn.pte[r][b] = mm.pte[r][b]
         /\ nn.pte[q][a].page = mm.pte[q][a].page /\ ~nn.pte[q][a].rw
         /\ nn.pte[q][a].dirty = mm.pte[q][a].dirty /\ nn.pte[p][a] = nn.pte[q][a]
<1> DEFINE ww == WithTable(mm, p, a)
           ee == [ww.pte[q][a] EXCEPT !.rw = FALSE]
           nn == [ww EXCEPT !.pte[q][a] = ee, !.pte[p][a] = ee, !.map[ee.page] = @ + 1]
           x  == mm.pte[q][a].page
<1>1. /\ Sound(ww, tk, hd, None) /\ ww.pte = mm.pte /\ ww.dir[p][DirOf[a]] # None
      /\ \A r \in Procs : r # p => ww.dir[r] = mm.dir[r]
  BY WithTableIs
<1>2. try_to_share(mm, p, a, q) = nn
  BY DEF try_to_share
<1> HIDE DEF ww
<1>3. ww \in MemoryType /\ ww.pte[q][a] \in Entry /\ ww.pte[q][a].page = x
  BY <1>1 DEF Sound, MemoryType
<1>4. ee \in Entry /\ ee.page = x /\ ~ee.rw /\ ee.dirty = ww.pte[q][a].dirty
  BY <1>3, EntryIs
<1>5. x \in Frames /\ ww.map[x] \in Nat
  BY <1>3 DEF MemoryType, Entry
<1> HIDE DEF ee, x
<1>6. nn = [ww EXCEPT !.pte[q][a] = ee, !.pte[p][a] = ee, !.map[x] = @ + 1]
  BY <1>4
<1> HIDE DEF nn
<1>7. nn \in MemoryType /\ nn.dir = ww.dir
  <2>1. /\ nn.dir = ww.dir /\ nn.map = [ww.map EXCEPT ![x] = @ + 1]
        /\ nn.pte = [ww.pte EXCEPT ![q][a] = ee, ![p][a] = ee]
        /\ nn = [map |-> nn.map, dir |-> nn.dir, pte |-> nn.pte]
    BY <1>3, <1>6 DEF MemoryType
  <2>2. nn.map \in [Frames -> Nat]
    BY <1>3, <1>5, <2>1 DEF MemoryType
  <2> DEFINE qq == [ww.pte EXCEPT ![q][a] = ee]
  <2>a. nn.pte = [qq EXCEPT ![p][a] = ee]
    BY <2>1
  <2>b. qq \in [Procs -> [Addrs -> Entry]]
    BY <1>3, <1>4 DEF MemoryType
  <2>3. nn.pte \in [Procs -> [Addrs -> Entry]]
    <3> HIDE DEF qq
    <3> QED BY <1>4, <2>a, <2>b
  <2> QED BY <1>3, <2>1, <2>2, <2>3 DEF MemoryType
<1>8. nn.map[x] = ww.map[x] + 1 /\ \A z \in Frames : z # x => nn.map[z] = ww.map[z]
  BY <1>3, <1>5, <1>6 DEF MemoryType
<1>9. /\ nn.pte[p][a] = ee /\ nn.pte[q][a] = ee
      /\ \A r \in Procs, b \in Addrs : ~(r \in {p, q} /\ b = a) => nn.pte[r][b] = ww.pte[r][b]
  BY <1>3, <1>6 DEF MemoryType
<1>10. /\ nn.pte[p][a].page = x /\ nn.pte[q][a].page = x /\ ~nn.pte[p][a].rw /\ ~nn.pte[q][a].rw
       /\ ww.pte[p][a].page = None
  BY <1>1, <1>4, <1>9
<1>11. Sound(nn, tk, hd, None)
  BY <1>1, <1>3, <1>5, <1>7, <1>8, <1>9, <1>10, ShareSound
<1>12. nn.pte[q][a].dirty = mm.pte[q][a].dirty /\ nn.pte[p][a] = nn.pte[q][a]
  BY <1>1, <1>4, <1>9
<1> QED BY <1>1, <1>2, <1>7, <1>9, <1>10, <1>11, <1>12 DEF x

LEMMA DirtyIs ==
  ASSUME NEW mm, NEW tk, NEW hd, NEW E, Sound(mm, tk, hd, E), NEW p \in Procs, NEW a \in Addrs
  PROVE  LET nn == [mm EXCEPT !.pte[p][a].dirty = TRUE] IN
         /\ Sound(nn, tk, hd, E) /\ nn.dir = mm.dir
         /\ \A q \in Procs, b \in Addrs : /\ nn.pte[q][b].page = mm.pte[q][b].page
                                          /\ nn.pte[q][b].rw = mm.pte[q][b].rw
<1> DEFINE nn == [mm EXCEPT !.pte[p][a].dirty = TRUE]
           ee == [mm.pte[p][a] EXCEPT !.dirty = TRUE]
<1>0. mm \in MemoryType
  BY DEF Sound
<1>2. ee \in Entry /\ ee.page = mm.pte[p][a].page /\ ee.rw = mm.pte[p][a].rw
  <2>1. mm.pte[p][a] \in Entry
    BY <1>0 DEF MemoryType
  <2> QED BY <2>1, EntryIs
<1>3. nn = [mm EXCEPT !.pte[p][a] = ee]
  OBVIOUS
<1> HIDE DEF nn, ee
<1>4. nn \in MemoryType /\ nn.map = mm.map /\ nn.dir = mm.dir
  BY <1>0, <1>2, <1>3 DEF MemoryType
<1>5. nn.pte[p][a] = ee /\ ButCell(mm.pte, nn.pte, Addrs, p, a)
  BY <1>0, <1>3 DEF MemoryType, ButCell
<1>6. \A q \in Procs, b \in Addrs : /\ nn.pte[q][b].page = mm.pte[q][b].page
                                    /\ nn.pte[q][b].rw = mm.pte[q][b].rw
  BY <1>2, <1>5 DEF ButCell
<1>7. Sound(nn, tk, hd, E)
  BY <1>4, <1>6, FlagsSound
<1> QED BY <1>4, <1>6, <1>7 DEF nn

LEMMA DirtyBit ==
  ASSUME NEW mm \in MemoryType, NEW p \in Procs, NEW a \in Addrs
  PROVE  LET nn == [mm EXCEPT !.pte[p][a].dirty = TRUE] IN
         nn.pte[p][a].dirty /\ ButCell(mm.pte, nn.pte, Addrs, p, a)
<1> DEFINE nn == [mm EXCEPT !.pte[p][a].dirty = TRUE]
           ee == [mm.pte[p][a] EXCEPT !.dirty = TRUE]
<1>1. mm.pte[p][a] \in Entry
  BY DEF MemoryType
<1>2. ee.dirty
  BY <1>1, EntryIs
<1>3. nn = [mm EXCEPT !.pte[p][a] = ee]
  OBVIOUS
<1> HIDE DEF nn, ee
<1>4. nn.pte[p][a] = ee /\ ButCell(mm.pte, nn.pte, Addrs, p, a)
  BY <1>3 DEF MemoryType, ButCell
<1> QED BY <1>2, <1>4 DEF nn
-----------------------------------------------------------------------------
(* The actions. *)

(* What a step of another task leaves to task q: everything but the right  *)
(* to write a page of the file, and what is in such a page.                *)
OtherKept(q) ==
  /\ mode'[q] = mode[q] /\ at'[q] = at[q] /\ task'[q] = task[q]
  /\ held'[q] = held[q] /\ view'[q] = view[q] /\ m'.dir[q] = m.dir[q]
  /\ \A a \in Addrs :
       /\ m'.pte[q][a].page = m.pte[q][a].page
       /\ m'.pte[q][a].rw => m.pte[q][a].rw
       /\ a \notin FileBacked /\ m.pte[q][a].rw => m'.pte[q][a].rw
       /\ a \notin FileBacked /\ m.pte[q][a].page # None =>
            mem'[m.pte[q][a].page] = mem[m.pte[q][a].page]
  /\ held[q] # None => mem'[held[q]] = mem[held[q]]

LEMMA KeptByAll ==
  ASSUME MemInv, Types', Sound(m', task', held', None),
         \A q \in Procs : OtherKept(q) \/ (ModeOf(q)' /\ SeenOf(q)')
  PROVE  MemInv'
<1>1. ASSUME NEW q \in Procs, OtherKept(q)
      PROVE  ModeOf(q)' /\ SeenOf(q)'
  <2>1. OtherKept(q) /\ ModeOf(q) /\ SeenOf(q)
    BY <1>1 DEF MemInv, Modes, AllSeen
  <2>2. FileBacked \subseteq Addrs
    BY Constants
  <2>3. ModeOf(q)'
    <3>1. Empty(m, q) => Empty(m', q)
      BY <2>1 DEF OtherKept, Empty
    <3> QED BY <2>1, <2>2, <3>1 DEF OtherKept, ModeOf, Holding
  <2>4. SeenOf(q)'
    BY SMTT(30), <2>1 DEF OtherKept, SeenOf, Seen, ModeOf, Holding
  <2> QED BY <2>3, <2>4
<1> QED BY <1>1 DEF MemInv, Modes, AllSeen

LEMMA Kept ==
  ASSUME MemInv, Types', Sound(m', task', held', None), NEW p \in Procs,
         \A q \in Procs : q # p => OtherKept(q), ModeOf(p)', SeenOf(p)'
  PROVE  MemInv'
BY KeptByAll

(* Clearing the free pages changes nothing that is used. *)
LEMMA ClearedKeeps ==
  ASSUME Sound(m', task', held', None), mem' = Cleared(m')
  PROVE  /\ \A q \in Procs, a \in Addrs :
              m'.pte[q][a].page # None => mem'[m'.pte[q][a].page] = mem[m'.pte[q][a].page]
         /\ \A q \in Procs : held'[q] # None => mem'[held'[q]] = mem[held'[q]]
<1>1. m' \in MemoryType /\ held' \in Places
  BY DEF Sound
<1>2. \A x \in Frames : m'.map[x] >= 1 => mem'[x] = mem[x]
  BY DEF Cleared
<1>3. ASSUME NEW q \in Procs, NEW a \in Addrs, m'.pte[q][a].page # None
      PROVE  mem'[m'.pte[q][a].page] = mem[m'.pte[q][a].page]
  <2> DEFINE x == m'.pte[q][a].page
  <2>1. x \in Frames
    BY <1>1, <1>3 DEF MemoryType, Entry
  <2>2. m'.map[x] >= 1
    BY <2>1, PageCounts
  <2> QED BY <1>2, <2>1, <2>2
<1>4. ASSUME NEW q \in Procs, held'[q] # None
      PROVE  mem'[held'[q]] = mem[held'[q]]
  <2>1. held'[q] \in Frames
    BY <1>1, <1>4 DEF Places
  <2>2. m'.map[held'[q]] = 1
    BY <2>1 DEF Sound, Alone
  <2> QED BY <1>2, <2>1, <2>2
<1> QED BY <1>3, <1>4

LEMMA ClearedType ==
  ASSUME Types, NEW mm
  PROVE  Cleared(mm) \in [Frames -> Int]
BY DEF Types, Cleared, Zero

LEMMA DoExitKeeps ==
  ASSUME MemInv, NEW p \in Procs, NEW mm, DoExit(mm, p), UNCHANGED task,
         mode[p] # "none", Sound(mm, task, held', None), mm.dir = m.dir, mm.pte = m.pte
  PROVE  MemInv'
<1>0. Types /\ Sound(m, task, held, None)
  BY DEF MemInv
<1>1. /\ m' = free_page_tables(mm, p) /\ mem' = Cleared(m')
      /\ mode' = [mode EXCEPT ![p] = "zombie"] /\ held' = [held EXCEPT ![p] = None]
      /\ at' = [at EXCEPT ![p] = None] /\ view' = [view EXCEPT ![p] = [a \in Addrs |-> Zero]]
  BY DEF DoExit
<1>2. /\ Sound(m', task', held', None) /\ Empty(m', p)
      /\ \A q \in Procs : q # p => m'.dir[q] = m.dir[q] /\ m'.pte[q] = m.pte[q]
  BY <1>1, ClearIs
<1>3. Types'
  <2>1. mem' \in [Frames -> Int]
    BY <1>0, <1>1, ClearedType
  <2> QED BY <1>0, <1>1, <2>1 DEF Types, ModeSet, Zero
<1>4. /\ mode'[p] = "zombie" /\ held'[p] = None /\ \A a \in Addrs : view'[p][a] = Zero
      /\ \A q \in Procs : q # p => /\ mode'[q] = mode[q] /\ held'[q] = held[q]
                                   /\ at'[q] = at[q] /\ view'[q] = view[q]
  BY <1>0, <1>1 DEF Types, Sound, Places
<1>5. ASSUME NEW q \in Procs, q # p
      PROVE  OtherKept(q)
  BY <1>1, <1>2, <1>4, <1>5, ClearedKeeps DEF OtherKept
<1>6. task'[p] # None
  BY DEF MemInv, Modes, ModeOf
<1>7. ModeOf(p)'
  BY <1>2, <1>4, <1>6 DEF ModeOf, Holding
<1>8. SeenOf(p)'
  BY <1>2, <1>4 DEF SeenOf, Seen, Empty
<1> QED BY <1>2, <1>3, <1>5, <1>7, <1>8, Kept

LEMMA ExitKeeps ==
  ASSUME MemInv, NEW p \in Procs, Exit(p)
  PROVE  MemInv'
<1>1. mode[p] = "user" /\ DoExit(m, p) /\ UNCHANGED task
  BY DEF Exit
<1>2. held[p] = None /\ Sound(m, task, held, None)
  BY <1>1 DEF MemInv, Modes, ModeOf, Holding
<1>3. held' = held
  BY <1>1, <1>2 DEF DoExit, Sound, Places
<1> QED BY <1>1, <1>2, <1>3, DoExitKeeps

LEMMA ReleaseKeeps ==
  ASSUME MemInv, NEW p \in Procs, Release(p)
  PROVE  MemInv'
<1> DEFINE x == task[p]
<1>0. Types /\ Sound(m, task, held, None) /\ ModeOf(p) /\ SeenOf(p)
  BY DEF MemInv, Modes, AllSeen
<1>1. /\ mode[p] = "zombie" /\ m' = FreePage(m, x) /\ task' = [task EXCEPT ![p] = None]
      /\ mem' = Cleared(m') /\ mode' = [mode EXCEPT ![p] = "none"]
      /\ UNCHANGED <<at, held, exe, view>>
  BY DEF Release
<1>2. x \in Frames /\ held[p] = None /\ Empty(m, p)
  BY <1>0, <1>1 DEF ModeOf, Holding, Sound, Places
<1>3. Sound(m, task', held, x)
  BY <1>0, <1>1, <1>2, TaskGives
<1> HIDE DEF x
<1>4. Sound(m', task', held', None)
  BY <1>1, <1>2, <1>3, FreeSound
<1>5. m'.dir = m.dir /\ m'.pte = m.pte
  BY <1>1, <1>2, <1>3, SlackPage, FreeIs DEF Sound
<1>6. Types'
  <2>1. mem' \in [Frames -> Int]
    BY <1>0, <1>1, ClearedType
  <2> QED BY <1>0, <1>1, <2>1 DEF Types, ModeSet
<1>7. /\ mode'[p] = "none" /\ task'[p] = None
      /\ \A q \in Procs : q # p => mode'[q] = mode[q] /\ task'[q] = task[q]
  BY <1>0, <1>1 DEF Types, Sound, Places
<1>8. ASSUME NEW q \in Procs, q # p
      PROVE  OtherKept(q)
  BY <1>1, <1>4, <1>5, <1>7, <1>8, ClearedKeeps DEF OtherKept
<1>9. ModeOf(p)'
  BY <1>1, <1>2, <1>5, <1>7 DEF ModeOf, Holding, Empty
<1>10. SeenOf(p)'
  BY <1>0, <1>1, <1>2, <1>5, <1>7 DEF SeenOf, Seen, Empty
<1> QED BY <1>4, <1>6, <1>8, <1>9, <1>10, Kept

(* Taking a page to hold. *)
LEMMA TakeHeld ==
  ASSUME NEW mm, NEW tk, NEW hd, Sound(mm, tk, hd, None), NEW p \in Procs, hd[p] = None,
         FreeFrames(mm) # {}
  PROVE  LET x == get_free_page(mm) IN
         /\ Sound(Take(mm, x), tk, [hd EXCEPT ![p] = x], None)
         /\ Take(mm, x).dir = mm.dir /\ Take(mm, x).pte = mm.pte
         /\ x \in Frames /\ x # None /\ NoUse(mm, tk, hd, x)
<1> DEFINE x == get_free_page(mm)
<1>1. x \in Frames /\ mm.map[x] = 0 /\ x # None
  BY GetFree, Constants DEF None
<1> HIDE DEF x
<1>2. Take(mm, x).dir = mm.dir /\ Take(mm, x).pte = mm.pte /\ Take(mm, x).map[x] = 1
  BY <1>1, TakeIs DEF Sound
<1>3. Sound(Take(mm, x), tk, hd, x)
  BY <1>1, TakeSound
<1>4. Sound(Take(mm, x), tk, [hd EXCEPT ![p] = x], None)
  BY <1>1, <1>2, <1>3, HeldGets
<1>5. NoUse(mm, tk, hd, x)
  BY <1>1, UnusedPage
<1> QED BY <1>1, <1>2, <1>4, <1>5 DEF x

LEMMA StartExecKeeps ==
  ASSUME MemInv, NEW p \in Procs, StartExec(p)
  PROVE  MemInv'
<1> DEFINE x == get_free_page(m)
<1>0. Types /\ Sound(m, task, held, None) /\ ModeOf(p) /\ SeenOf(p)
  BY DEF MemInv, Modes, AllSeen
<1>1. /\ mode[p] = "user" /\ FreeFrames(m) # {} /\ \E a \in Addrs : m.pte[p][a].page # None
      /\ m' = Take(m, x) /\ held' = [held EXCEPT ![p] = x] /\ mem' = [mem EXCEPT ![x] = p]
      /\ mode' = [mode EXCEPT ![p] = "exec"] /\ UNCHANGED <<task, at, exe, view>>
  BY DEF StartExec, Present
<1>2. held[p] = None /\ task[p] # None
  BY <1>0, <1>1 DEF ModeOf, Holding
<1>3. /\ Sound(m', task', held', None) /\ m'.dir = m.dir /\ m'.pte = m.pte
      /\ x \in Frames /\ x # None /\ NoUse(m, task, held, x)
  BY <1>0, <1>1, <1>2, TakeHeld
<1> HIDE DEF x
<1>4. Types'
  BY <1>0, <1>1, <1>3, Constants DEF Types, ModeSet
<1>5. /\ mode'[p] = "exec" /\ held'[p] = x /\ mem'[x] = p
      /\ \A q \in Procs : q # p => mode'[q] = mode[q] /\ held'[q] = held[q]
      /\ \A y : y # x /\ y \in Frames => mem'[y] = mem[y]
  BY <1>0, <1>1, <1>3 DEF Types, Sound, Places
<1>6. /\ \A q \in Procs, a \in Addrs : m.pte[q][a].page # None =>
           m.pte[q][a].page \in Frames /\ m.pte[q][a].page # x
      /\ \A q \in Procs : held[q] # None => held[q] \in Frames /\ held[q] # x
  BY <1>0, <1>3 DEF Sound, MemoryType, Entry, Places, NoUse
<1>7. ASSUME NEW q \in Procs, q # p
      PROVE  OtherKept(q)
  BY <1>1, <1>3, <1>5, <1>6, <1>7 DEF OtherKept
<1>8. ModeOf(p)'
  BY <1>1, <1>2, <1>3, <1>5 DEF ModeOf, Holding
<1>9. SeenOf(p)'
  BY <1>0, <1>1, <1>3, <1>5, <1>6 DEF SeenOf, Seen
<1> QED BY <1>3, <1>4, <1>7, <1>8, <1>9, Kept

LEMMA ExecErrorKeeps ==
  ASSUME MemInv, NEW p \in Procs, ExecError(p)
  PROVE  MemInv'
<1> DEFINE x == held[p]
<1>0. Types /\ Sound(m, task, held, None) /\ ModeOf(p) /\ SeenOf(p)
  BY DEF MemInv, Modes, AllSeen
<1>1. /\ mode[p] = "exec" /\ m' = FreePage(m, x) /\ held' = [held EXCEPT ![p] = None]
      /\ mem' = Cleared(m') /\ mode' = [mode EXCEPT ![p] = "user"]
      /\ UNCHANGED <<task, at, exe, view>>
  BY DEF ExecError
<1>2. x \in Frames /\ task[p] # None
  BY <1>0, <1>1 DEF ModeOf, Holding, Sound, Places
<1>3. Sound(m, task, held', x)
  BY <1>0, <1>1, <1>2, HeldGives
<1> HIDE DEF x
<1>4. Sound(m', task', held', None)
  BY <1>1, <1>2, <1>3, FreeSound
<1>5. m'.dir = m.dir /\ m'.pte = m.pte
  BY <1>1, <1>2, <1>3, SlackPage, FreeIs DEF Sound
<1>6. Types'
  <2>1. mem' \in [Frames -> Int]
    BY <1>0, <1>1, ClearedType
  <2> QED BY <1>0, <1>1, <2>1 DEF Types, ModeSet
<1>7. /\ mode'[p] = "user" /\ held'[p] = None
      /\ \A q \in Procs : q # p => mode'[q] = mode[q] /\ held'[q] = held[q]
  BY <1>0, <1>1 DEF Types, Sound, Places
<1>8. ASSUME NEW q \in Procs, q # p
      PROVE  OtherKept(q)
  BY <1>1, <1>4, <1>5, <1>7, <1>8, ClearedKeeps DEF OtherKept
<1>9. ModeOf(p)'
  BY <1>1, <1>2, <1>5, <1>7 DEF ModeOf, Holding
<1>10. SeenOf(p)'
  BY <1>0, <1>1, <1>4, <1>5, <1>7, ClearedKeeps DEF SeenOf, Seen
<1> QED BY <1>4, <1>6, <1>8, <1>9, <1>10, Kept

LEMMA SetExecutableKeeps ==
  ASSUME MemInv, NEW p \in Procs, SetExecutable(p)
  PROVE  MemInv'
<1>0. Types /\ Sound(m, task, held, None) /\ ModeOf(p) /\ SeenOf(p)
  BY DEF MemInv, Modes, AllSeen
<1>1. /\ mode[p] = "exec" /\ mode' = [mode EXCEPT ![p] = "close"]
      /\ UNCHANGED <<m, mem, task, at, held, view>>
  BY DEF SetExecutable
<1>2. mode'[p] = "close" /\ \A q \in Procs : q # p => mode'[q] = mode[q]
  BY <1>0, <1>1 DEF Types
<1>3. Types' /\ Sound(m', task', held', None)
  BY <1>0, <1>1 DEF Types, ModeSet
<1>4. \A q \in Procs : q # p => OtherKept(q)
  BY <1>1, <1>2 DEF OtherKept
<1>5. ModeOf(p)'
  BY <1>0, <1>1, <1>2 DEF ModeOf, Holding
<1>6. SeenOf(p)'
  BY <1>0, <1>1, <1>2 DEF SeenOf, Seen
<1> QED BY <1>3, <1>4, <1>5, <1>6, Kept

LEMMA EndExecKeeps ==
  ASSUME MemInv, NEW p \in Procs, EndExec(p)
  PROVE  MemInv'
<1> DEFINE x == held[p]
           mm == free_page_tables(m, p)
           seen == [a \in Addrs |-> IF a = ArgPage THEN p ELSE IF a \in FileBacked THEN File ELSE Zero]
<1>0. Types /\ Sound(m, task, held, None) /\ ModeOf(p) /\ SeenOf(p)
  BY DEF MemInv, Modes, AllSeen
<1>1. /\ mode[p] \in {"exec", "close"}
      /\ m' = IF CanPut(mm, p, ArgPage) THEN put_page(mm, p, ArgPage, x) ELSE mm
      /\ mem' = Cleared(m') /\ held' = [held EXCEPT ![p] = None]
      /\ mode' = [mode EXCEPT ![p] = "user"] /\ view' = [view EXCEPT ![p] = seen]
      /\ UNCHANGED <<task, at>>
  BY DEF EndExec
<1>2. x \in Frames /\ task[p] # None /\ ArgPage \in Addrs /\ mem[x] = p /\ x # None
  BY <1>0, <1>1, Constants DEF ModeOf, Holding, Sound, Places, SeenOf
<1>3. /\ Sound(mm, task, held, None) /\ Empty(mm, p)
      /\ \A d \in Dirs : m.dir[p][d] \in Frames => mm.map[m.dir[p][d]] = 0
      /\ \A q \in Procs : q # p => mm.dir[q] = m.dir[q] /\ mm.pte[q] = m.pte[q]
  BY <1>0, ClearIs
<1> HIDE DEF mm
<1>4. CanPut(mm, p, ArgPage)
  <2>1. PICK a \in Addrs : m.pte[p][a].page # None
    BY <1>0, <1>1 DEF ModeOf
  <2>2. DirOf[a] \in Dirs /\ m.dir[p][DirOf[a]] # None
    BY <1>0, <2>1, Constants DEF Sound, InTables
  <2>3. m.dir[p][DirOf[a]] \in Frames
    BY <1>0, <2>2 DEF Sound, MemoryType
  <2>4. m.dir[p][DirOf[a]] \in FreeFrames(mm)
    BY <1>3, <2>2, <2>3 DEF FreeFrames
  <2> QED BY <2>4 DEF CanPut
<1>5. Sound(mm, task, held', x) /\ mm.map[x] = 1
  BY <1>1, <1>2, <1>3, HeldGives
<1> HIDE DEF x
<1>6. mm.pte[p][ArgPage].page = None
  BY <1>2, <1>3 DEF Empty
<1>7. /\ Sound(m', task', held', None) /\ m'.pte[p][ArgPage].page = x
      /\ ButCell(mm.pte, m'.pte, Addrs, p, ArgPage)
      /\ \A q \in Procs : q # p => m'.dir[q] = mm.dir[q] /\ m'.pte[q] = mm.pte[q]
  BY <1>1, <1>2, <1>4, <1>5, <1>6, PutIs
<1>8. seen \in [Addrs -> Int]
  BY Constants DEF File, Zero
<1>9. Types'
  <2>1. mem' \in [Frames -> Int]
    BY <1>0, <1>1, ClearedType
  <2> HIDE DEF seen
  <2> QED BY <1>0, <1>1, <1>8, <2>1 DEF Types, ModeSet
<1>10. /\ mode'[p] = "user" /\ held'[p] = None /\ view'[p] = seen
       /\ \A q \in Procs : q # p => mode'[q] = mode[q] /\ held'[q] = held[q] /\ view'[q] = view[q]
  BY <1>0, <1>1 DEF Types, Sound, Places
<1>11. ASSUME NEW q \in Procs, q # p
      PROVE  OtherKept(q)
  BY SMTT(30), <1>1, <1>3, <1>7, <1>10, <1>11, ClearedKeeps DEF OtherKept
<1>12. ModeOf(p)'
  BY <1>1, <1>2, <1>10 DEF ModeOf, Holding
<1>13. SeenOf(p)'
  <2> SUFFICES ASSUME NEW a \in Addrs \ FileBacked
               PROVE  Seen(p, a)'
    BY <1>10 DEF SeenOf
  <2>1. CASE a = ArgPage
    <3>1. mem'[x] = mem[x]
      BY <1>1, <1>2, <1>7, ClearedKeeps
    <3> QED BY <1>2, <1>7, <1>10, <2>1, <3>1 DEF Seen
  <2>2. CASE a # ArgPage
    <3>1. m'.pte[p][a].page = None
      BY <1>3, <1>7, <2>2 DEF ButCell, Empty
    <3> QED BY <1>10, <2>2, <3>1 DEF Seen
  <2> QED BY <2>1, <2>2
<1> QED BY <1>7, <1>9, <1>11, <1>12, <1>13, Kept

(* A page that nobody else uses, or that others use at this address only. *)
LEMMA UnWpKeeps ==
  ASSUME MemInv, NEW p \in Procs, NEW a \in Addrs, NEW next, NEW about,
         mode[p] = "user", UnWp(p, a, next, about), UNCHANGED task,
         (next = "user" /\ about = None) \/ (next = "syscall" /\ about = a)
  PROVE  MemInv'
<1> DEFINE y == m.pte[p][a].page
           x == get_free_page(m)
<1>0. Types /\ Sound(m, task, held, None) /\ ModeOf(p) /\ SeenOf(p)
  BY DEF MemInv, Modes, AllSeen
<1>a. held[p] = None /\ task[p] # None
  BY <1>0 DEF ModeOf, Holding
<1>1. CASE DoExit(m, p)
  <2>1. held' = held
    BY <1>0, <1>1, <1>a DEF DoExit, Sound, Places
  <2> QED BY <1>0, <1>1, <2>1, DoExitKeeps
<1>2. CASE ~DoExit(m, p)
  <2>1. /\ y # None /\ (m.map[y] # 1 => FreeFrames(m) # {})
        /\ m' = un_wp_page(m, p, a)
        /\ mem' = IF m.map[y] # 1 THEN [mem EXCEPT ![x] = mem[y]] ELSE mem
        /\ mode' = [mode EXCEPT ![p] = next] /\ at' = [at EXCEPT ![p] = about]
        /\ UNCHANGED <<held, exe, view>>
    BY <1>2 DEF UnWp, NeedsCopy, Present
  <2>2. /\ Sound(m', task', held', None) /\ m'.dir = m.dir /\ m'.pte[p][a].rw
        /\ m'.pte[p][a].page = IF m.map[y] = 1 THEN y ELSE x
        /\ ButCell(m.pte, m'.pte, Addrs, p, a)
    BY <1>0, <2>1, UnWpIs
  <2>3. y \in Frames
    BY <1>0, <2>1 DEF Sound, MemoryType, Entry
  <2>4. m.map[y] # 1 => x \in Frames /\ x # None /\ NoUse(m, task, held, x)
    <3> SUFFICES ASSUME m.map[y] # 1
                 PROVE  x \in Frames /\ x # None /\ NoUse(m, task, held, x)
      OBVIOUS
    <3>1. x \in Frames /\ m.map[x] = 0 /\ x # None
      BY <2>1, GetFree, Constants DEF None
    <3> HIDE DEF x
    <3> QED BY <1>0, <3>1, UnusedPage
  <2> HIDE DEF x, y
  <2>5. Types'
    BY <1>0, <2>1, <2>3, <2>4 DEF Types, ModeSet
  <2>6. /\ mode'[p] = next /\ at'[p] = about
        /\ \A q \in Procs : q # p => mode'[q] = mode[q] /\ at'[q] = at[q]
    BY <1>0, <2>1 DEF Types
  <2>7. \A z \in Frames : (m.map[y] = 1 \/ z # x) => mem'[z] = mem[z]
    BY <1>0, <2>1 DEF Types
  <2>8. /\ \A q \in Procs, b \in Addrs : m.pte[q][b].page # None =>
             mem'[m.pte[q][b].page] = mem[m.pte[q][b].page]
        /\ \A q \in Procs : held[q] # None => mem'[held[q]] = mem[held[q]]
    <3>1. \A q \in Procs, b \in Addrs : m.pte[q][b].page # None => m.pte[q][b].page \in Frames
      BY <1>0 DEF Sound, MemoryType, Entry
    <3>2. \A q \in Procs : held[q] # None => held[q] \in Frames
      BY <1>0 DEF Sound, Places
    <3> QED BY <2>4, <2>7, <3>1, <3>2 DEF NoUse
  <2>9. mem'[m'.pte[p][a].page] = mem[y]
    <3>1. CASE m.map[y] = 1
      BY <2>1, <2>2, <3>1
    <3>2. CASE m.map[y] # 1
      BY <1>0, <2>1, <2>2, <2>4, <3>2 DEF Types
    <3> QED BY <3>1, <3>2
  <2>10. ASSUME NEW q \in Procs, q # p
         PROVE  OtherKept(q)
    BY <2>1, <2>2, <2>6, <2>8, <2>10 DEF OtherKept, ButCell
  <2>11. ModeOf(p)'
    BY <1>a, <2>1, <2>2, <2>6 DEF ModeOf, Holding
  <2>12. SeenOf(p)'
    <3> SUFFICES ASSUME NEW b \in Addrs \ FileBacked
                 PROVE  Seen(p, b)'
      BY <2>6 DEF SeenOf
    <3>0. Seen(p, b)
      BY <1>0 DEF SeenOf
    <3>1. CASE b = a
      <4>1. m'.pte[p][a].page # None /\ mem[y] = view[p][a]
        BY <2>1, <2>2, <2>4, <3>0, <3>1 DEF Seen, y
      <4> QED BY <2>1, <2>9, <3>1, <4>1 DEF Seen
    <3>2. CASE b # a
      <4>1. m'.pte[p][b] = m.pte[p][b]
        BY <2>2, <3>2 DEF ButCell
      <4> QED BY <2>1, <2>8, <3>0, <4>1 DEF Seen
    <3> QED BY <3>1, <3>2
  <2> QED BY <2>2, <2>5, <2>10, <2>11, <2>12, Kept
<1> QED BY <1>1, <1>2

LEMMA WpFaultKeeps ==
  ASSUME MemInv, NEW p \in Procs, NEW a \in Addrs, WpFault(p, a)
  PROVE  MemInv'
<1>1. mode[p] = "user" /\ UnWp(p, a, "user", None) /\ UNCHANGED task
  BY DEF WpFault
<1> QED BY <1>1, UnWpKeeps

LEMMA VerifyAreaKeeps ==
  ASSUME MemInv, NEW p \in Procs, NEW a \in Addrs, VerifyArea(p, a)
  PROVE  MemInv'
<1>0. Types /\ Sound(m, task, held, None) /\ ModeOf(p) /\ SeenOf(p)
  BY DEF MemInv, Modes, AllSeen
<1>1. mode[p] = "user" /\ UNCHANGED task
  BY DEF VerifyArea
<1>2. CASE UnWp(p, a, "syscall", a)
  BY <1>1, <1>2, UnWpKeeps
<1>3. CASE ~UnWp(p, a, "syscall", a)
  <2>1. /\ m.pte[p][a].page = None \/ m.pte[p][a].rw
        /\ mode' = [mode EXCEPT ![p] = "syscall"] /\ at' = [at EXCEPT ![p] = a]
        /\ UNCHANGED <<m, mem, held, exe, view>>
    BY <1>3 DEF VerifyArea, Present
  <2>2. /\ mode'[p] = "syscall" /\ at'[p] = a
        /\ \A q \in Procs : q # p => mode'[q] = mode[q] /\ at'[q] = at[q]
    BY <1>0, <2>1 DEF Types
  <2>3. Types' /\ Sound(m', task', held', None)
    BY <1>0, <1>1, <2>1 DEF Types, ModeSet
  <2>4. \A q \in Procs : q # p => OtherKept(q)
    BY <1>1, <2>1, <2>2 DEF OtherKept
  <2>5. ModeOf(p)'
    BY <1>0, <1>1, <2>1, <2>2 DEF ModeOf, Holding
  <2>6. SeenOf(p)'
    BY <1>0, <1>1, <2>1, <2>2 DEF SeenOf, Seen
  <2> QED BY <2>3, <2>4, <2>5, <2>6, Kept
<1> QED BY <1>2, <1>3

(* A store into page a of task p, which is writable or a page of the file: *)
(* nobody else has it as data or holds it.                                 *)
LEMMA StoreKeeps ==
  ASSUME MemInv, NEW p \in Procs, NEW a \in Addrs, m.pte[p][a].page # None,
         m.pte[p][a].rw \/ a \in FileBacked, mode[p] \in {"user", "syscall"},
         mem' = [mem EXCEPT ![m.pte[p][a].page] = p],
         m' = [m EXCEPT !.pte[p][a].dirty = TRUE],
         view' = [view EXCEPT ![p][a] = p], UNCHANGED <<task, held>>,
         mode' = [mode EXCEPT ![p] = "user"], at' = at \/ at' = [at EXCEPT ![p] = None]
  PROVE  MemInv'
<1> DEFINE x == m.pte[p][a].page
<1>0. Types /\ Sound(m, task, held, None) /\ ModeOf(p) /\ SeenOf(p)
  BY DEF MemInv, Modes, AllSeen
<1>1. /\ Sound(m', task', held', None) /\ m'.dir = m.dir
      /\ \A q \in Procs, b \in Addrs : /\ m'.pte[q][b].page = m.pte[q][b].page
                                       /\ m'.pte[q][b].rw = m.pte[q][b].rw
  BY SMTT(30), <1>0, DirtyIs
<1>2. x \in Frames
  BY <1>0 DEF Sound, MemoryType, Entry
<1>3. \A q \in Procs, b \in Addrs \ FileBacked : m.pte[q][b].page = x => q = p /\ b = a
  <2>1. SameAddress(m)
    BY <1>0 DEF Sound
  <2>2. CASE a \in FileBacked
    BY <2>1, <2>2 DEF SameAddress
  <2>3. CASE m.pte[p][a].rw
    <3>1. m.map[x] = 1
      BY <1>0, <2>3 DEF Sound, Alone
    <3> QED BY <1>0, <1>2, <3>1, OneUse
  <2> QED BY <2>2, <2>3
<1>4. \A q \in Procs : held[q] # x
  <2> SUFFICES ASSUME NEW q \in Procs, held[q] = x
               PROVE  FALSE
    OBVIOUS
  <2>1. m.map[x] = 1
    BY <1>0, <1>2 DEF Sound, Alone
  <2> QED BY <1>0, <1>2, <2>1, OneUse
<1>5. mem'[x] = p /\ \A y \in Frames : y # x => mem'[y] = mem[y]
  BY <1>0, <1>2 DEF Types
<1>6. /\ \A q \in Procs, b \in Addrs : m.pte[q][b].page # None => m.pte[q][b].page \in Frames
      /\ \A q \in Procs : held[q] # None => held[q] \in Frames
  BY <1>0 DEF Sound, MemoryType, Entry, Places
<1>7. /\ mode'[p] = "user" /\ view'[p][a] = p /\ \A b \in Addrs : b # a => view'[p][b] = view[p][b]
      /\ \A q \in Procs : q # p => mode'[q] = mode[q] /\ at'[q] = at[q] /\ view'[q] = view[q]
  BY <1>0 DEF Types
<1>8. Types'
  <2>0. p \in Int /\ None \in Addrs \cup {None}
    BY Constants
  <2>1. mem' \in [Frames -> Int] /\ view' \in [Procs -> [Addrs -> Int]]
    BY <1>0, <2>0 DEF Types
  <2>2. mode' \in [Procs -> ModeSet] /\ at' \in [Procs -> Addrs \cup {None}]
    BY <1>0, <2>0 DEF Types, ModeSet
  <2> QED BY <2>1, <2>2 DEF Types
<1> HIDE DEF x
<1>9. ASSUME NEW q \in Procs, q # p
      PROVE  OtherKept(q)
  BY <1>1, <1>3, <1>4, <1>5, <1>6, <1>7, <1>9 DEF OtherKept
<1>10. ModeOf(p)'
  BY <1>0, <1>7 DEF ModeOf, Holding
<1>11. SeenOf(p)'
  <2> SUFFICES ASSUME NEW b \in Addrs \ FileBacked
               PROVE  Seen(p, b)'
    BY <1>7 DEF SeenOf
  <2>0. Seen(p, b)
    BY <1>0 DEF SeenOf
  <2>1. CASE b = a
    BY <1>1, <1>5, <1>7, <2>1 DEF Seen, x
  <2>2. CASE b # a
    BY <1>1, <1>3, <1>5, <1>6, <1>7, <2>0, <2>2 DEF Seen
  <2> QED BY <2>1, <2>2
<1> QED BY <1>1, <1>8, <1>9, <1>10, <1>11, Kept

LEMMA WriteKeeps ==
  ASSUME MemInv, NEW p \in Procs, NEW a \in Addrs, Write(p, a)
  PROVE  MemInv'
<1>1. /\ mode[p] = "user" /\ m.pte[p][a].page # None /\ m.pte[p][a].rw
      /\ mem' = [mem EXCEPT ![m.pte[p][a].page] = p]
      /\ m' = [m EXCEPT !.pte[p][a].dirty = TRUE]
      /\ view' = [view EXCEPT ![p][a] = p] /\ UNCHANGED <<task, mode, at, held>>
  BY DEF Write, Present
<1>2. mode' = [mode EXCEPT ![p] = "user"]
  BY <1>1 DEF MemInv, Types
<1> QED BY <1>1, <1>2, StoreKeeps

LEMMA PutFsByteKeeps ==
  ASSUME MemInv, NEW p \in Procs, PutFsByte(p)
  PROVE  MemInv'
<1> DEFINE a == at[p]
<1>1. /\ mode[p] = "syscall" /\ m.pte[p][a].page # None
      /\ mem' = [mem EXCEPT ![m.pte[p][a].page] = p]
      /\ m' = [m EXCEPT !.pte[p][a].dirty = TRUE]
      /\ view' = [view EXCEPT ![p][a] = p] /\ mode' = [mode EXCEPT ![p] = "user"]
      /\ at' = [at EXCEPT ![p] = None] /\ UNCHANGED <<task, held>>
  BY DEF PutFsByte, Present
<1>2. a \in Addrs /\ (m.pte[p][a].rw \/ a \in FileBacked)
  BY <1>1 DEF MemInv, Modes, ModeOf
<1> HIDE DEF a
<1> QED BY <1>1, <1>2, StoreKeeps

(* The tasks that fault. *)
LEMMA FaultOf ==
  ASSUME MemInv, NEW p \in Procs, NEW a \in Addrs, InKernelOrUser(p, a)
  PROVE  /\ mode[p] = "user" \/ (mode[p] = "syscall" /\ at[p] = a)
         /\ held[p] = None /\ task[p] # None /\ mode[p] # "none"
BY DEF MemInv, Modes, ModeOf, Holding, InKernelOrUser

LEMMA FaultDies ==
  ASSUME MemInv, NEW p \in Procs, held[p] = None, mode[p] # "none", DoExit(m, p), UNCHANGED task
  PROVE  MemInv'
<1>1. Sound(m, task, held, None)
  BY DEF MemInv
<1>2. held' = held
  BY <1>1 DEF DoExit, Sound, Places
<1> QED BY <1>1, <1>2, DoExitKeeps

LEMMA EmptyPageKeeps ==
  ASSUME MemInv, NEW p \in Procs, NEW a \in Addrs, EmptyPage(p, a)
  PROVE  MemInv'
<1> DEFINE x == get_free_page(m)
<1>0. Types /\ Sound(m, task, held, None) /\ ModeOf(p) /\ SeenOf(p)
  BY DEF MemInv, Modes, AllSeen
<1>1. InKernelOrUser(p, a) /\ m.pte[p][a].page = None /\ UNCHANGED task
  BY DEF EmptyPage, Present
<1>2. /\ mode[p] = "user" \/ (mode[p] = "syscall" /\ at[p] = a)
      /\ held[p] = None /\ task[p] # None /\ mode[p] # "none"
  BY <1>1, FaultOf
<1>3. CASE DoExit(m, p)
  BY <1>1, <1>2, <1>3, FaultDies
<1>4. CASE ~DoExit(m, p)
  <2> DEFINE mm == Take(m, x)
  <2>1. /\ FreeFrames(m) # {} /\ CanPut(mm, p, a) /\ m' = put_page(mm, p, a, x)
        /\ mem' = [mem EXCEPT ![x] = Zero] /\ UNCHANGED <<mode, exe, held, at, view>>
    BY <1>4 DEF EmptyPage
  <2>2. x \in Frames /\ m.map[x] = 0 /\ x # None
    BY <2>1, GetFree, Constants DEF None
  <2> HIDE DEF x
  <2>3. Sound(mm, task, held, x) /\ mm.map[x] = 1 /\ mm.dir = m.dir /\ mm.pte = m.pte
    BY <1>0, <2>2, TakeSound, TakeIs DEF Sound
  <2> HIDE DEF mm
  <2>4. /\ Sound(m', task', held', None) /\ m'.pte[p][a].page = x /\ m'.pte[p][a].rw
        /\ ButCell(m.pte, m'.pte, Addrs, p, a)
        /\ \A q \in Procs : q # p => m'.dir[q] = m.dir[q] /\ m'.pte[q] = m.pte[q]
    BY <1>1, <2>1, <2>2, <2>3, PutIs
  <2>5. NoUse(m, task, held, x)
    BY <1>0, <2>2, UnusedPage
  <2>6. Types'
    BY <1>0, <2>1, <2>2 DEF Types, Zero
  <2>7. mem'[x] = Zero /\ \A y \in Frames : y # x => mem'[y] = mem[y]
    BY <1>0, <2>1, <2>2 DEF Types
  <2>8. /\ \A q \in Procs, b \in Addrs : m.pte[q][b].page # None =>
             m.pte[q][b].page \in Frames /\ m.pte[q][b].page # x
        /\ \A q \in Procs : held[q] # None => held[q] \in Frames /\ held[q] # x
    BY <1>0, <2>5 DEF Sound, MemoryType, Entry, Places, NoUse
  <2>9. ASSUME NEW q \in Procs, q # p
        PROVE  OtherKept(q)
    BY <1>1, <2>1, <2>4, <2>7, <2>8, <2>9 DEF OtherKept
  <2>10. ModeOf(p)'
    BY <1>0, <1>1, <1>2, <2>1, <2>4 DEF ModeOf, Holding
  <2>11. SeenOf(p)'
    <3> SUFFICES ASSUME NEW b \in Addrs \ FileBacked
                 PROVE  Seen(p, b)'
      BY <1>2, <2>1 DEF SeenOf
    <3>0. Seen(p, b)
      BY <1>0 DEF SeenOf
    <3>1. CASE b = a
      BY <1>1, <2>1, <2>2, <2>4, <2>7, <3>0, <3>1 DEF Seen
    <3>2. CASE b # a
      BY <2>1, <2>4, <2>7, <2>8, <3>0, <3>2 DEF Seen, ButCell
    <3> QED BY <3>1, <3>2
  <2> QED BY <2>4, <2>6, <2>9, <2>10, <2>11, Kept
<1> QED BY <1>3, <1>4

LEMMA SharePageKeeps ==
  ASSUME MemInv, NEW p \in Procs, NEW a \in Addrs, SharePage(p, a)
  PROVE  MemInv'
<1> DEFINE q == Max(Sharers(p, a))
<1>0. Types /\ Sound(m, task, held, None) /\ ModeOf(p) /\ SeenOf(p)
  BY DEF MemInv, Modes, AllSeen
<1>1. /\ InKernelOrUser(p, a) /\ m.pte[p][a].page = None /\ UNCHANGED task
      /\ a \in FileBacked /\ Sharers(p, a) # {}
  BY DEF SharePage, Present
<1>2. /\ mode[p] = "user" \/ (mode[p] = "syscall" /\ at[p] = a)
      /\ held[p] = None /\ task[p] # None /\ mode[p] # "none"
  BY <1>1, FaultOf
<1>3. CASE DoExit(m, p)
  BY <1>1, <1>2, <1>3, FaultDies
<1>4. CASE ~DoExit(m, p)
  <2>1. /\ CanPut(m, p, a) /\ m' = try_to_share(m, p, a, q)
        /\ UNCHANGED <<mem, mode, exe, held, at, view>>
    BY <1>4 DEF SharePage
  <2>2. q \in Procs /\ q # p /\ m.pte[q][a].page # None
    <3>1. Sharers(p, a) \in SUBSET Nat /\ IsFiniteSet(Sharers(p, a))
      BY Constants, FS_Subset DEF Sharers
    <3>2. q \in Sharers(p, a)
      BY <1>1, <3>1, FiniteHasMost
    <3> HIDE DEF q
    <3> QED BY <3>2 DEF Sharers, Present
  <2> HIDE DEF q
  <2>3. /\ Sound(m', task', held', None)
        /\ \A r \in Procs : r # p => m'.dir[r] = m.dir[r]
        /\ \A r \in Procs, b \in Addrs : b # a \/ r \notin {p, q} => m'.pte[r][b] = m.pte[r][b]
        /\ m'.pte[q][a].page = m.pte[q][a].page /\ ~m'.pte[q][a].rw
    BY <1>0, <1>1, <2>1, <2>2, ShareIs
  <2>4. Types'
    BY <1>0, <2>1 DEF Types
  <2>5. ASSUME NEW r \in Procs, r # p
        PROVE  OtherKept(r)
    <3>1. CASE r = q
      BY <1>1, <2>1, <2>2, <2>3, <3>1 DEF OtherKept
    <3>2. CASE r # q
      BY <1>1, <2>1, <2>3, <2>5, <3>2 DEF OtherKept
    <3> QED BY <3>1, <3>2
  <2>6. ModeOf(p)'
    BY <1>0, <1>1, <1>2, <2>1 DEF ModeOf, Holding
  <2>7. SeenOf(p)'
    BY <1>0, <1>1, <1>2, <2>1, <2>3 DEF SeenOf, Seen
  <2> QED BY <2>3, <2>4, <2>5, <2>6, <2>7, Kept
<1> QED BY <1>3, <1>4

LEMMA StartLoadKeeps ==
  ASSUME MemInv, NEW p \in Procs, NEW a \in Addrs, StartLoad(p, a)
  PROVE  MemInv'
<1> DEFINE x == get_free_page(m)
<1>0. Types /\ Sound(m, task, held, None) /\ ModeOf(p) /\ SeenOf(p)
  BY DEF MemInv, Modes, AllSeen
<1>1. InKernelOrUser(p, a) /\ m.pte[p][a].page = None /\ UNCHANGED task /\ a \in FileBacked
  BY DEF StartLoad, Present
<1>2. /\ mode[p] = "user" \/ (mode[p] = "syscall" /\ at[p] = a)
      /\ held[p] = None /\ task[p] # None /\ mode[p] # "none"
  BY <1>1, FaultOf
<1>3. CASE DoExit(m, p)
  BY <1>1, <1>2, <1>3, FaultDies
<1>4. CASE ~DoExit(m, p)
  <2> DEFINE next == IF mode[p] = "user" THEN "user_load" ELSE "syscall_load"
  <2>1. /\ FreeFrames(m) # {} /\ m' = Take(m, x) /\ held' = [held EXCEPT ![p] = x]
        /\ mode' = [mode EXCEPT ![p] = next]
        /\ at' = [at EXCEPT ![p] = a] /\ UNCHANGED <<mem, exe, view>>
    BY <1>4 DEF StartLoad
  <2>2. /\ Sound(m', task', held', None) /\ m'.dir = m.dir /\ m'.pte = m.pte
        /\ x \in Frames /\ x # None
    BY <1>0, <1>1, <1>2, <2>1, TakeHeld
  <2>3. next \in {"user_load", "syscall_load"}
    OBVIOUS
  <2> HIDE DEF x, next
  <2>4. Types'
    BY <1>0, <1>1, <2>1, <2>3 DEF Types, ModeSet
  <2>5. /\ mode'[p] = next /\ held'[p] = x /\ at'[p] = a
        /\ \A q \in Procs : q # p => mode'[q] = mode[q] /\ held'[q] = held[q] /\ at'[q] = at[q]
    BY <1>0, <2>1 DEF Types, Sound, Places
  <2>6. \A q \in Procs : q # p => OtherKept(q)
    BY <1>1, <2>1, <2>2, <2>5 DEF OtherKept
  <2>7. ModeOf(p)'
    BY <1>0, <1>1, <1>2, <2>2, <2>3, <2>5 DEF ModeOf, Holding
  <2>8. SeenOf(p)'
    BY <1>0, <2>1, <2>2, <2>3, <2>5 DEF SeenOf, Seen
  <2> QED BY <2>2, <2>4, <2>6, <2>7, <2>8, Kept
<1> QED BY <1>3, <1>4

LEMMA EndLoadKeeps ==
  ASSUME MemInv, NEW p \in Procs, EndLoad(p)
  PROVE  MemInv'
<1> DEFINE x == held[p]
           a == at[p]
<1>0. Types /\ Sound(m, task, held, None) /\ ModeOf(p) /\ SeenOf(p)
  BY DEF MemInv, Modes, AllSeen
<1>1. mode[p] \in {"user_load", "syscall_load"} /\ UNCHANGED task
  BY DEF EndLoad
<1>2. /\ x \in Frames /\ x # None /\ a \in FileBacked /\ a \in Addrs /\ m.pte[p][a].page = None
      /\ task[p] # None
  BY <1>0, <1>1, Constants DEF ModeOf, Holding, Sound, Places
<1>3. Sound(m, task, [held EXCEPT ![p] = None], x) /\ m.map[x] = 1
  BY <1>0, <1>2, HeldGives
<1>4. CASE DoExit(FreePage(m, x), p)
  <2>1. held' = [held EXCEPT ![p] = None]
    BY <1>4 DEF DoExit
  <2> HIDE DEF x
  <2>2. Sound(FreePage(m, x), task, held', None)
    BY <1>2, <1>3, <2>1, FreeSound
  <2>3. FreePage(m, x).dir = m.dir /\ FreePage(m, x).pte = m.pte
    BY <1>0, <1>2, <1>3, FreeIs DEF Sound
  <2> QED BY <1>1, <1>4, <2>2, <2>3, DoExitKeeps
<1>5. CASE ~DoExit(FreePage(m, x), p)
  <2> DEFINE next == IF mode[p] = "user_load" THEN "user" ELSE "syscall"
             about == IF mode[p] = "user_load" THEN None ELSE a
  <2>1. /\ CanPut(m, p, a) /\ m' = put_page(m, p, a, x) /\ mem' = [mem EXCEPT ![x] = File]
        /\ held' = [held EXCEPT ![p] = None] /\ mode' = [mode EXCEPT ![p] = next]
        /\ at' = [at EXCEPT ![p] = about] /\ UNCHANGED <<exe, view>>
    BY <1>5 DEF EndLoad
  <2>2. (next = "user" /\ about = None) \/ (next = "syscall" /\ about = a)
    OBVIOUS
  <2>3. \A q \in Procs, b \in Addrs : m.pte[q][b].page # x
    BY <1>0, <1>2, <1>3, OneUse
  <2>4. \A q \in Procs : q # p => held[q] # x
    BY <1>0, <1>2, <1>3, OneUse
  <2> HIDE DEF x, a, next, about
  <2>5. /\ Sound(m', task', held', None) /\ m'.pte[p][a].page = x /\ m'.pte[p][a].rw
        /\ ButCell(m.pte, m'.pte, Addrs, p, a)
        /\ \A q \in Procs : q # p => m'.dir[q] = m.dir[q] /\ m'.pte[q] = m.pte[q]
    BY <1>1, <1>2, <1>3, <2>1, PutIs
  <2>6. Types'
    BY <1>0, <1>2, <2>1, <2>2 DEF Types, ModeSet, File
  <2>7. /\ mode'[p] = next /\ held'[p] = None /\ at'[p] = about
        /\ \A q \in Procs : q # p => mode'[q] = mode[q] /\ held'[q] = held[q] /\ at'[q] = at[q]
        /\ \A y \in Frames : y # x => mem'[y] = mem[y]
    BY <1>0, <2>1 DEF Types, Sound, Places
  <2>8. /\ \A q \in Procs, b \in Addrs : m.pte[q][b].page # None => m.pte[q][b].page \in Frames
        /\ \A q \in Procs : held[q] # None => held[q] \in Frames
    BY <1>0 DEF Sound, MemoryType, Entry, Places
  <2>9. ASSUME NEW q \in Procs, q # p
        PROVE  OtherKept(q)
    BY <1>1, <2>1, <2>3, <2>4, <2>5, <2>7, <2>8, <2>9 DEF OtherKept
  <2>10. ModeOf(p)'
    BY <1>1, <1>2, <2>2, <2>5, <2>7 DEF ModeOf, Holding
  <2>11. SeenOf(p)'
    <3> SUFFICES ASSUME NEW b \in Addrs \ FileBacked
                 PROVE  Seen(p, b)'
      BY <2>2, <2>7 DEF SeenOf
    <3>0. Seen(p, b) /\ b # a
      BY <1>0, <1>2 DEF SeenOf
    <3> QED BY <2>1, <2>3, <2>5, <2>7, <2>8, <3>0 DEF Seen, ButCell
  <2> QED BY <2>5, <2>6, <2>9, <2>10, <2>11, Kept
<1> QED BY <1>4, <1>5

(* copy_process(), with the undoing of copy_mem(). *)
LEMMA ForkKeeps ==
  ASSUME MemInv, NEW p \in Procs, NEW c \in Procs, Fork(p, c)
  PROVE  MemInv'
<1> DEFINE x    == get_free_page(m)
           mm   == Take(m, x)
           from == {d \in Dirs : m.dir[p][d] # None}
<1>0. Types /\ Sound(m, task, held, None) /\ ModeOf(p) /\ SeenOf(p) /\ ModeOf(c) /\ SeenOf(c)
  BY DEF MemInv, Modes, AllSeen
<1>1. /\ mode[p] = "user" /\ mode[c] = "none" /\ FreeFrames(m) # {}
      /\ UNCHANGED <<mem, at, held>>
  BY DEF Fork
<1>2. PICK dirs \in SUBSET from : \E tables \in [dirs -> FreeFrames(mm)] :
        /\ TakesTables(mm, from, dirs, tables)
        /\ \/ /\ dirs = from
              /\ m' = copy_dirs(mm, p, c, dirs, tables)
              /\ task' = [task EXCEPT ![c] = x]
              /\ mode' = [mode EXCEPT ![c] = "user"]
              /\ exe' = [exe EXCEPT ![c] = exe[p]]
              /\ view' = [view EXCEPT ![c] = view[p]]
           \/ /\ dirs # from
              /\ m' = FreePage(free_page_tables(copy_dirs(mm, p, c, dirs, tables), c), x)
              /\ UNCHANGED <<task, mode, exe, view>>
  BY DEF Fork
<1>3. PICK tables \in [dirs -> FreeFrames(mm)] :
        /\ TakesTables(mm, from, dirs, tables)
        /\ \/ /\ dirs = from
              /\ m' = copy_dirs(mm, p, c, dirs, tables)
              /\ task' = [task EXCEPT ![c] = x]
              /\ mode' = [mode EXCEPT ![c] = "user"]
              /\ exe' = [exe EXCEPT ![c] = exe[p]]
              /\ view' = [view EXCEPT ![c] = view[p]]
           \/ /\ dirs # from
              /\ m' = FreePage(free_page_tables(copy_dirs(mm, p, c, dirs, tables), c), x)
              /\ UNCHANGED <<task, mode, exe, view>>
  BY <1>2
<1>4. x \in Frames /\ m.map[x] = 0 /\ x # None
  BY <1>1, GetFree, Constants DEF None
<1>5. \A d \in Dirs : m.dir[p][d] # None => d \in from
  OBVIOUS
<1>6. dirs \in SUBSET Dirs
  OBVIOUS
<1> HIDE DEF x, from
<1>7. Sound(mm, task, held, x) /\ mm.map[x] = 1 /\ mm.dir = m.dir /\ mm.pte = m.pte
  BY <1>0, <1>4, TakeSound, TakeIs DEF Sound
<1> HIDE DEF mm
<1>8. p # c /\ Empty(mm, c) /\ task[c] = None /\ held[c] = None /\ held[p] = None /\ task[p] # None
  BY <1>0, <1>1, <1>7 DEF ModeOf, Holding, Empty
<1>9. \A d, e \in dirs : d < e => tables[d] > tables[e]
  BY <1>3 DEF TakesTables
<1> DEFINE nn == copy_dirs(mm, p, c, dirs, tables)
<1>10. /\ Sound(nn, task, held, x) /\ nn.dir[p] = m.dir[p]
       /\ \A q \in Procs : q # p /\ q # c => nn.dir[q] = m.dir[q] /\ nn.pte[q] = m.pte[q]
       /\ \A a \in Addrs :
            /\ nn.pte[p][a].page = m.pte[p][a].page
            /\ nn.pte[c][a].page = IF DirOf[a] \in dirs THEN m.pte[p][a].page ELSE None
  BY SMTT(30), <1>6, <1>7, <1>8, <1>9, CopyIs
<1>11. CASE dirs = from
  <2>1. /\ m' = nn /\ task' = [task EXCEPT ![c] = x] /\ mode' = [mode EXCEPT ![c] = "user"]
        /\ view' = [view EXCEPT ![c] = view[p]]
    BY <1>3, <1>11
  <2> HIDE DEF nn
  <2>2. Sound(m', task', held', None)
    BY <1>1, <1>4, <1>8, <1>10, <2>1, TaskGets
  <2>3. /\ mode'[c] = "user" /\ task'[c] = x /\ view'[c] = view[p]
        /\ \A q \in Procs : q # c => mode'[q] = mode[q] /\ task'[q] = task[q] /\ view'[q] = view[q]
    BY <1>0, <2>1 DEF Types, Sound, Places
  <2>4. Types'
    BY <1>0, <1>1, <2>1 DEF Types, ModeSet
  <2>5. \A a \in Addrs : /\ m'.pte[p][a].page = m.pte[p][a].page
                         /\ m'.pte[c][a].page = m.pte[p][a].page
    <3> SUFFICES ASSUME NEW a \in Addrs
                 PROVE  m'.pte[c][a].page = m.pte[p][a].page
      BY <1>10, <2>1
    <3>1. DirOf[a] \in Dirs /\ (m.pte[p][a].page # None => m.dir[p][DirOf[a]] # None)
      BY <1>0, Constants DEF Sound, InTables
    <3> QED BY <1>5, <1>10, <1>11, <2>1, <3>1
  <2>6. ASSUME NEW q \in Procs, q # p, q # c
        PROVE  OtherKept(q)
    BY <1>1, <1>10, <2>1, <2>3, <2>6 DEF OtherKept
  <2>7. ModeOf(p)' /\ ModeOf(c)'
    BY <1>1, <1>4, <1>8, <2>3 DEF ModeOf, Holding
  <2>8. SeenOf(p)' /\ SeenOf(c)'
    BY <1>0, <1>1, <1>8, <2>3, <2>5 DEF SeenOf, Seen
  <2> QED BY <2>2, <2>4, <2>6, <2>7, <2>8, KeptByAll
<1>12. CASE dirs # from
  <2> DEFINE ff == free_page_tables(nn, c)
  <2>1. m' = FreePage(ff, x) /\ UNCHANGED <<task, mode, view>>
    BY <1>3, <1>12
  <2> HIDE DEF nn
  <2>2. /\ Sound(ff, task, held, x) /\ Empty(ff, c)
        /\ \A q \in Procs : q # c => ff.dir[q] = nn.dir[q] /\ ff.pte[q] = nn.pte[q]
    BY <1>10, ClearIs
  <2> HIDE DEF ff
  <2>3. Sound(m', task', held', None)
    BY <1>1, <1>4, <2>1, <2>2, FreeSound
  <2>4. m'.dir = ff.dir /\ m'.pte = ff.pte
    BY <1>4, <2>1, <2>2, SlackPage, FreeIs DEF Sound
  <2>5. Types'
    BY <1>0, <1>1, <2>1 DEF Types
  <2>6. ASSUME NEW q \in Procs, q # p, q # c
        PROVE  OtherKept(q)
    BY <1>1, <1>10, <2>1, <2>2, <2>4, <2>6 DEF OtherKept
  <2>7. ModeOf(p)' /\ ModeOf(c)'
    BY <1>1, <1>8, <2>1, <2>2, <2>4 DEF ModeOf, Holding, Empty
  <2>8. SeenOf(p)' /\ SeenOf(c)'
    <3>1. \A a \in Addrs : /\ m'.pte[p][a].page = m.pte[p][a].page
                           /\ m'.pte[c][a].page = None /\ m.pte[c][a].page = None
      BY <1>7, <1>8, <1>10, <2>2, <2>4 DEF Empty
    <3> QED BY <1>0, <1>1, <2>1, <3>1 DEF SeenOf, Seen
  <2> QED BY <2>3, <2>5, <2>6, <2>7, <2>8, KeptByAll
<1> QED BY <1>11, <1>12

LEMMA MemStep == MemInv /\ [Next]_vars => MemInv'
<1> SUFFICES ASSUME MemInv, [Next]_vars
             PROVE  MemInv'
  OBVIOUS
<1>1. CASE UNCHANGED vars
  <2>1. UNCHANGED <<m, mem, task, mode, at, held, view>>
    BY <1>1 DEF vars
  <2>2. Types' /\ Sound(m', task', held', None)
    BY <2>1 DEF MemInv, Types
  <2>3. \A q \in Procs : OtherKept(q)
    BY <2>1 DEF OtherKept
  <2> QED BY <2>2, <2>3, KeptByAll
<1>2. ASSUME NEW p \in Procs, NEW c \in Procs, Fork(p, c)
      PROVE  MemInv'
  BY <1>2, ForkKeeps
<1>3. ASSUME NEW p \in Procs,
             \/ Exit(p) \/ Release(p) \/ EndLoad(p) \/ PutFsByte(p)
             \/ StartExec(p) \/ ExecError(p) \/ SetExecutable(p) \/ EndExec(p)
      PROVE  MemInv'
  BY <1>3, ExitKeeps, ReleaseKeeps, EndLoadKeeps, PutFsByteKeeps, StartExecKeeps, ExecErrorKeeps,
     SetExecutableKeeps, EndExecKeeps
<1>4. ASSUME NEW p \in Procs, NEW a \in Addrs,
             \/ WpFault(p, a) \/ Write(p, a) \/ EmptyPage(p, a)
             \/ SharePage(p, a) \/ StartLoad(p, a) \/ VerifyArea(p, a)
      PROVE  MemInv'
  BY <1>4, WpFaultKeeps, WriteKeeps, EmptyPageKeeps, SharePageKeeps, StartLoadKeeps, VerifyAreaKeeps
<1> QED BY <1>1, <1>2, <1>3, <1>4 DEF Next

LEMMA MemInit == Init => MemInv
<1> SUFFICES ASSUME Init
             PROVE  MemInv
  OBVIOUS
<1> DEFINE t == Max(Frames)
<1>1. t \in Frames /\ t # None /\ None \notin Frames
  <2>1. Frames \in SUBSET Nat /\ IsFiniteSet(Frames) /\ Frames # {}
    BY Constants
  <2>2. t \in Frames
    BY <2>1, FiniteHasMost
  <2> QED BY <2>2, Constants DEF None
<1>2. Init1 \in Procs
  <2>1. Procs \in SUBSET Nat /\ Procs # {}
    BY Constants
  <2>2. \E p \in Procs : \A q \in Procs : p =< q
    BY <2>1, NatHasLeast
  <2> QED BY <2>2 DEF Init1
<1>3. /\ m.map = [x \in Frames |-> IF x = t THEN 1 ELSE 0]
      /\ m.dir = [p \in Procs |-> [d \in Dirs |-> None]]
      /\ m.pte = [p \in Procs |-> [a \in Addrs |-> NoPage]]
      /\ m = [map |-> m.map, dir |-> m.dir, pte |-> m.pte]
  BY DEF Init
<1>4. /\ task = [p \in Procs |-> IF p = Init1 THEN t ELSE None]
      /\ mode = [p \in Procs |-> IF p = Init1 THEN "user" ELSE "none"]
      /\ mem = [x \in Frames |-> Zero] /\ at = [p \in Procs |-> None]
      /\ held = [p \in Procs |-> None] /\ view = [p \in Procs |-> [a \in Addrs |-> Zero]]
  BY DEF Init
<1> HIDE DEF t
<1>5. Types
  BY <1>4 DEF Types, ModeSet, Zero
<1>6. m \in MemoryType /\ task \in Places /\ held \in Places
  <2>1. NoPage \in Entry
    BY DEF NoPage, Entry
  <2> QED BY <1>1, <1>3, <1>4, <2>1 DEF MemoryType, Places
<1>7. /\ \A p \in Procs, d \in Dirs : m.dir[p][d] = None
      /\ \A p \in Procs, a \in Addrs : m.pte[p][a].page = None /\ ~m.pte[p][a].rw
      /\ \A p \in Procs : held[p] = None
  BY <1>3, <1>4 DEF NoPage
<1>8. Exact(m, task, held, None)
  <2> SUFFICES ASSUME NEW x \in Frames
               PROVE  m.map[x] = UsesOf(m, task, held, x) + One(x, None)
    BY DEF Exact
  <2>0. x # None
    BY <1>1
  <2>1. NT(held, x) = 0
    <3>1. Where(held, Procs, x) = {}
      BY <1>7, <2>0 DEF Where
    <3> QED BY <3>1, FS_EmptySet DEF NT
  <2>2. ND(m.dir, x) = 0
    <3>1. Cells(m.dir, Dirs, x) = {}
      BY <1>7, <2>0 DEF Cells
    <3> QED BY <3>1, FS_EmptySet DEF ND
  <2>3. NP(m.pte, x) = 0
    <3>1. Cells(PagesOf(m.pte), Addrs, x) = {}
      BY <1>7, <2>0 DEF Cells, PagesOf
    <3> QED BY <3>1, FS_EmptySet DEF NP
  <2>4. NT(task, x) = IF x = t THEN 1 ELSE 0
    <3>1. CASE x = t
      <4>1. Where(task, Procs, x) = {Init1}
        BY <1>2, <1>4, <2>0, <3>1 DEF Where
      <4> QED BY <3>1, <4>1, FS_Singleton DEF NT
    <3>2. CASE x # t
      <4>1. Where(task, Procs, x) = {}
        BY <1>4, <2>0, <3>2 DEF Where
      <4> QED BY <3>2, <4>1, FS_EmptySet DEF NT
    <3> QED BY <3>1, <3>2
  <2>5. m.map[x] = IF x = t THEN 1 ELSE 0
    BY <1>3
  <2> QED BY <2>0, <2>1, <2>2, <2>3, <2>4, <2>5 DEF UsesOf, One
<1>9. Alone(m, held) /\ InTables(m) /\ SameAddress(m)
  BY <1>1, <1>7 DEF Alone, InTables, SameAddress
<1>10. Sound(m, task, held, None)
  BY <1>6, <1>8, <1>9 DEF Sound
<1>11. Modes
  BY <1>1, <1>4, <1>7 DEF Modes, ModeOf, Empty, Holding
<1>12. AllSeen
  BY <1>4, <1>7 DEF AllSeen, SeenOf, Seen
<1> QED BY <1>5, <1>10, <1>11, <1>12 DEF MemInv
-----------------------------------------------------------------------------
(* The pages of the executable. *)

(* What task p finds in such a page is what it wrote there or has from the *)
(* file; a page that is not dirty is as in the file.                       *)
FileSeen(p, a) ==
  /\ m.pte[p][a].page # None => mem[m.pte[p][a].page] = view[p][a]
  /\ exe[p] /\ (m.pte[p][a].page = None \/ ~m.pte[p][a].dirty) => view[p][a] = File
  /\ ~exe[p] /\ m.pte[p][a].page = None => view[p][a] = Zero
FileOf(p) == \A a \in FileBacked : <<p, a>> \in stale \/ FileSeen(p, a)
FileInv ==
  /\ stale \in SUBSET (Procs \X FileBacked) /\ exe \in [Procs -> BOOLEAN]
  /\ \A p \in Procs : FileOf(p)

(* A task that reads a page in runs the executable. *)
Loads == \A p \in Procs : mode[p] \in {"user_load", "syscall_load"} => exe[p]

(* What leaves a page of task q as it was, or makes it stale. *)
FileKept(q, a) ==
  /\ <<q, a>> \in stale => <<q, a>> \in stale'
  /\ exe'[q] = exe[q] /\ view'[q][a] = view[q][a]
  /\ m'.pte[q][a].page = m.pte[q][a].page /\ m'.pte[q][a].dirty = m.pte[q][a].dirty
  /\ m.pte[q][a].page # None =>
       <<q, a>> \in stale' \/ mem'[m.pte[q][a].page] = mem[m.pte[q][a].page]

LEMMA FileKeptIs ==
  ASSUME NEW q \in Procs, FileOf(q), \A a \in FileBacked : FileKept(q, a)
  PROVE  FileOf(q)'
BY DEF FileOf, FileSeen, FileKept

(* The frames of the pages, before a step. *)
LEMMA PageIsFrame ==
  ASSUME Sound(m, task, held, None)
  PROVE  \A q \in Procs, a \in Addrs : m.pte[q][a].page # None => m.pte[q][a].page \in Frames
BY DEF Sound, MemoryType, Entry

(* exit: the others keep their pages, p has none. *)
LEMMA DoExitFile ==
  ASSUME MemInv, MemInv', FileInv, NEW p \in Procs, NEW mm, DoExit(mm, p),
         NEW tk, NEW hd, NEW E, Sound(mm, tk, hd, E), mm.pte = m.pte
  PROVE  FileInv'
<1>1. /\ m' = free_page_tables(mm, p) /\ mem' = Cleared(m') /\ exe' = [exe EXCEPT ![p] = FALSE]
      /\ view' = [view EXCEPT ![p] = [a \in Addrs |-> Zero]] /\ stale' = Without(p)
  BY DEF DoExit
<1>2. Empty(m', p) /\ \A q \in Procs : q # p => m'.pte[q] = m.pte[q]
  BY <1>1, ClearIs
<1>3. /\ exe' \in [Procs -> BOOLEAN] /\ ~exe'[p] /\ \A a \in Addrs : view'[p][a] = Zero
      /\ \A q \in Procs : q # p => exe'[q] = exe[q] /\ view'[q] = view[q]
  BY <1>1 DEF FileInv, MemInv, Types
<1>4. Sound(m', task', held', None)
  BY DEF MemInv
<1>5. \A q \in Procs, a \in Addrs :
        m'.pte[q][a].page # None => mem'[m'.pte[q][a].page] = mem[m'.pte[q][a].page]
  BY <1>1, <1>4, ClearedKeeps
<1>6. stale' \in SUBSET (Procs \X FileBacked) /\ \A q \in Procs, a \in FileBacked :
        q # p /\ <<q, a>> \in stale => <<q, a>> \in stale'
  BY <1>1 DEF FileInv, Without
<1>7. FileOf(p)'
  BY <1>2, <1>3, Constants DEF FileOf, FileSeen, Empty
<1>8. ASSUME NEW q \in Procs, q # p
      PROVE  FileOf(q)'
  <2>1. \A a \in FileBacked : FileKept(q, a)
    BY <1>2, <1>3, <1>5, <1>6, <1>8, Constants DEF FileKept
  <2> QED BY <2>1, FileKeptIs DEF FileInv
<1> QED BY <1>3, <1>6, <1>7, <1>8 DEF FileInv

(* Steps that change no table, and only pages nobody has in a table. *)
LEMMA SameTablesFile ==
  ASSUME FileInv, m'.pte = m.pte, UNCHANGED <<exe, view>>, stale' = stale,
         \A q \in Procs, a \in Addrs :
           m.pte[q][a].page # None => mem'[m.pte[q][a].page] = mem[m.pte[q][a].page]
  PROVE  FileInv'
<1>1. ASSUME NEW q \in Procs
      PROVE  FileOf(q)'
  <2>1. \A a \in FileBacked : FileKept(q, a)
    BY Constants DEF FileKept
  <2> QED BY <2>1, FileKeptIs DEF FileInv
<1> QED BY <1>1 DEF FileInv

LEMMA ReleaseFile ==
  ASSUME MemInv, MemInv', FileInv, NEW p \in Procs, Release(p)
  PROVE  FileInv'
<1> DEFINE x == task[p]
<1>1. /\ mode[p] = "zombie" /\ m' = FreePage(m, x) /\ mem' = Cleared(m')
      /\ UNCHANGED <<held, exe, view, stale>> /\ task' = [task EXCEPT ![p] = None]
  BY DEF Release
<1>2. x \in Frames /\ Sound(m, task, held, None)
  BY <1>1 DEF MemInv, Modes, ModeOf, Sound, Places
<1>3. Sound(m, task', held, x)
  BY <1>1, <1>2, TaskGives
<1> HIDE DEF x
<1>4. m'.pte = m.pte
  BY <1>1, <1>2, <1>3, SlackPage, FreeIs DEF Sound
<1>5. Sound(m', task', held', None)
  BY DEF MemInv
<1> QED BY <1>1, <1>4, <1>5, ClearedKeeps, SameTablesFile

LEMMA ExecErrorFile ==
  ASSUME MemInv, MemInv', FileInv, NEW p \in Procs, ExecError(p)
  PROVE  FileInv'
<1> DEFINE x == held[p]
<1>1. /\ mode[p] = "exec" /\ m' = FreePage(m, x) /\ mem' = Cleared(m')
      /\ UNCHANGED <<task, exe, view, stale>> /\ held' = [held EXCEPT ![p] = None]
  BY DEF ExecError
<1>2. x \in Frames /\ Sound(m, task, held, None)
  BY <1>1 DEF MemInv, Modes, ModeOf, Holding, Sound, Places
<1>3. Sound(m, task, held', x)
  BY <1>1, <1>2, HeldGives
<1> HIDE DEF x
<1>4. m'.pte = m.pte
  BY <1>1, <1>2, <1>3, SlackPage, FreeIs DEF Sound
<1>5. Sound(m', task', held', None)
  BY DEF MemInv
<1> QED BY <1>1, <1>4, <1>5, ClearedKeeps, SameTablesFile

LEMMA StartExecFile ==
  ASSUME MemInv, MemInv', FileInv, NEW p \in Procs, StartExec(p)
  PROVE  FileInv'
<1> DEFINE x == get_free_page(m)
<1>1. /\ mode[p] = "user" /\ FreeFrames(m) # {} /\ m' = Take(m, x)
      /\ mem' = [mem EXCEPT ![x] = p] /\ UNCHANGED <<exe, view, stale>>
  BY DEF StartExec
<1>2. held[p] = None /\ Sound(m, task, held, None) /\ Types
  BY <1>1 DEF MemInv, Modes, ModeOf, Holding
<1>3. m'.pte = m.pte /\ NoUse(m, task, held, x)
  BY <1>1, <1>2, TakeHeld
<1> HIDE DEF x
<1>4. \A q \in Procs, a \in Addrs :
        m.pte[q][a].page # None => mem'[m.pte[q][a].page] = mem[m.pte[q][a].page]
  BY <1>1, <1>2, <1>3, PageIsFrame DEF NoUse, Types
<1> QED BY <1>1, <1>3, <1>4, SameTablesFile

(* execve(): every page of the task becomes stale unless it ran the file   *)
(* before.                                                                 *)
LEMMA SetExecutableFile ==
  ASSUME MemInv, FileInv, NEW p \in Procs, SetExecutable(p)
  PROVE  FileInv'
<1>1. /\ exe' = [exe EXCEPT ![p] = TRUE] /\ UNCHANGED <<m, mem, view>>
      /\ stale' = IF exe[p] THEN stale ELSE stale \cup ({p} \X FileBacked)
  BY DEF SetExecutable
<1>2. CASE exe[p]
  <2>1. exe' = exe /\ stale' = stale
    BY <1>1, <1>2 DEF FileInv
  <2> QED BY <1>1, <2>1, SameTablesFile
<1>3. CASE ~exe[p]
  <2>1. /\ stale' \in SUBSET (Procs \X FileBacked) /\ stale \subseteq stale'
        /\ \A a \in FileBacked : <<p, a>> \in stale'
    BY <1>1, <1>3 DEF FileInv
  <2>2. exe' \in [Procs -> BOOLEAN] /\ \A q \in Procs : q # p => exe'[q] = exe[q]
    BY <1>1 DEF FileInv
  <2>3. FileOf(p)'
    BY <2>1 DEF FileOf
  <2>4. ASSUME NEW q \in Procs, q # p
        PROVE  FileOf(q)'
    <3>1. \A a \in FileBacked : FileKept(q, a)
      BY <1>1, <2>1, <2>2, <2>4 DEF FileKept
    <3> QED BY <3>1, FileKeptIs DEF FileInv
  <2> QED BY <2>1, <2>2, <2>3, <2>4 DEF FileInv
<1> QED BY <1>2, <1>3

LEMMA EndExecFile ==
  ASSUME MemInv, MemInv', FileInv, NEW p \in Procs, EndExec(p)
  PROVE  FileInv'
<1> DEFINE mm == free_page_tables(m, p)
           x == held[p]
           seen == [a \in Addrs |-> IF a = ArgPage THEN p ELSE IF a \in FileBacked THEN File ELSE Zero]
<1>1. /\ mode[p] \in {"exec", "close"} /\ mem' = Cleared(m')
      /\ m' = IF CanPut(mm, p, ArgPage) THEN put_page(mm, p, ArgPage, x) ELSE mm
      /\ exe' = [exe EXCEPT ![p] = TRUE] /\ view' = [view EXCEPT ![p] = seen]
      /\ stale' = Without(p) /\ UNCHANGED task
  BY DEF EndExec
<1>2. /\ Sound(m, task, held, None) /\ x \in Frames /\ x # None /\ ArgPage \in Addrs \ FileBacked
      /\ FileBacked \subseteq Addrs
  BY <1>1, Constants DEF MemInv, Modes, ModeOf, Holding, Sound, Places
<1>3. /\ Sound(mm, task, held, None) /\ Empty(mm, p)
      /\ \A q \in Procs : q # p => mm.pte[q] = m.pte[q]
  BY <1>2, ClearIs
<1> HIDE DEF mm
<1>4. Sound(mm, task, [held EXCEPT ![p] = None], x) /\ mm.map[x] = 1
  BY <1>2, <1>3, HeldGives
<1>5. mm.pte[p][ArgPage].page = None
  BY <1>2, <1>3 DEF Empty
<1> HIDE DEF x
<1>6. ButCell(mm.pte, m'.pte, Addrs, p, ArgPage) /\ \A q \in Procs : q # p => m'.pte[q] = mm.pte[q]
  <2>1. CASE CanPut(mm, p, ArgPage)
    BY <1>1, <1>2, <1>4, <1>5, <2>1, PutIs
  <2>2. CASE ~CanPut(mm, p, ArgPage)
    BY <1>1, <2>2 DEF ButCell
  <2> QED BY <2>1, <2>2
<1>7. /\ exe' \in [Procs -> BOOLEAN] /\ exe'[p] /\ \A a \in FileBacked : view'[p][a] = File
      /\ \A q \in Procs : q # p => exe'[q] = exe[q] /\ view'[q] = view[q]
  BY <1>1, <1>2 DEF FileInv, MemInv, Types
<1>8. \A q \in Procs, a \in Addrs :
        m'.pte[q][a].page # None => mem'[m'.pte[q][a].page] = mem[m'.pte[q][a].page]
  BY <1>1, ClearedKeeps DEF MemInv
<1>9. stale' \in SUBSET (Procs \X FileBacked) /\ \A q \in Procs, a \in FileBacked :
        q # p /\ <<q, a>> \in stale => <<q, a>> \in stale'
  BY <1>1 DEF FileInv, Without
<1>10. FileOf(p)'
  <2>1. \A a \in FileBacked : m'.pte[p][a].page = None
    BY <1>2, <1>3, <1>6 DEF ButCell, Empty
  <2> QED BY <1>7, <2>1 DEF FileOf, FileSeen
<1>11. ASSUME NEW q \in Procs, q # p
       PROVE  FileOf(q)'
  <2>1. \A a \in FileBacked : FileKept(q, a)
    BY <1>2, <1>3, <1>6, <1>7, <1>8, <1>9, <1>11 DEF FileKept
  <2> QED BY <2>1, FileKeptIs DEF FileInv
<1> QED BY <1>7, <1>9, <1>10, <1>11 DEF FileInv

(* un_wp_page(): the copy of a dirty page becomes stale. *)
LEMMA UnWpFile ==
  ASSUME MemInv, MemInv', FileInv, NEW p \in Procs, NEW a \in Addrs, NEW next, NEW about,
         UnWp(p, a, next, about)
  PROVE  FileInv'
<1> DEFINE y == m.pte[p][a].page
           x == get_free_page(m)
<1>0. Types /\ Sound(m, task, held, None) /\ FileBacked \subseteq Addrs
  BY Constants DEF MemInv
<1>1. CASE DoExit(m, p)
  BY <1>0, <1>1, DoExitFile
<1>2. CASE ~DoExit(m, p)
  <2>1. /\ y # None /\ (m.map[y] # 1 => FreeFrames(m) # {})
        /\ m' = un_wp_page(m, p, a)
        /\ mem' = IF m.map[y] # 1 THEN [mem EXCEPT ![x] = mem[y]] ELSE mem
        /\ stale' = IF m.map[y] # 1 /\ m.pte[p][a].dirty /\ a \in FileBacked
                    THEN stale \cup {<<p, a>>} ELSE stale
        /\ UNCHANGED <<exe, view>>
    BY <1>2 DEF UnWp, NeedsCopy, Present
  <2>2. /\ m'.pte[p][a].page = IF m.map[y] = 1 THEN y ELSE x
        /\ ButCell(m.pte, m'.pte, Addrs, p, a)
        /\ m'.pte[p][a].dirty = (m.map[y] = 1 /\ m.pte[p][a].dirty)
    BY <1>0, <2>1, UnWpIs
  <2>3. m.map[y] # 1 => x \in Frames /\ NoUse(m, task, held, x)
    <3> SUFFICES ASSUME m.map[y] # 1
                 PROVE  x \in Frames /\ NoUse(m, task, held, x)
      OBVIOUS
    <3>1. x \in Frames /\ m.map[x] = 0
      BY <2>1, GetFree
    <3> HIDE DEF x
    <3> QED BY <1>0, <3>1, UnusedPage
  <2> HIDE DEF x
  <2>4. \A q \in Procs, b \in Addrs :
          m.pte[q][b].page # None => mem'[m.pte[q][b].page] = mem[m.pte[q][b].page]
    BY <1>0, <2>1, <2>3, PageIsFrame DEF NoUse, Types
  <2>5. mem'[m'.pte[p][a].page] = mem[y]
    <3>1. CASE m.map[y] = 1
      BY <2>1, <2>2, <3>1
    <3>2. CASE m.map[y] # 1
      BY <1>0, <2>1, <2>2, <2>3, <3>2 DEF Types
    <3> QED BY <3>1, <3>2
  <2>6. stale' \in SUBSET (Procs \X FileBacked) /\ stale \subseteq stale'
    BY <2>1 DEF FileInv
  <2>7. ASSUME NEW q \in Procs, NEW b \in FileBacked, ~(q = p /\ b = a)
        PROVE  FileKept(q, b)
    BY <1>0, <2>1, <2>2, <2>4, <2>6, <2>7 DEF FileKept, ButCell
  <2>8. ASSUME NEW q \in Procs, NEW b \in FileBacked
        PROVE  <<q, b>> \in stale' \/ FileSeen(q, b)'
    <3>0. <<q, b>> \in stale \/ FileSeen(q, b)
      BY DEF FileInv, FileOf
    <3>1. CASE ~(q = p /\ b = a)
      BY <2>7, <3>0, <3>1 DEF FileKept, FileSeen
    <3>2. CASE q = p /\ b = a
      <4>1. CASE <<p, a>> \in stale
        BY <2>6, <3>2, <4>1
      <4>2. CASE <<p, a>> \notin stale
        <5>1. mem[y] = view[p][a] /\ (exe[p] /\ ~m.pte[p][a].dirty => view[p][a] = File)
          BY <2>1, <3>0, <3>2, <4>2 DEF FileSeen
        <5>2. m'.pte[p][a].page # None
          BY <1>0, <2>1, <2>2, <2>3, Constants DEF None
        <5> HIDE DEF y
        <5> QED BY <2>1, <2>2, <2>5, <3>2, <5>1, <5>2 DEF FileSeen
      <4> QED BY <4>1, <4>2
    <3> QED BY <3>1, <3>2
  <2> QED BY <2>1, <2>6, <2>8 DEF FileInv, FileOf
<1> QED BY <1>1, <1>2

(* A store: the page is dirty, the others who have it get it stale. *)
LEMMA StoreFile ==
  ASSUME MemInv, FileInv, NEW p \in Procs, NEW a \in Addrs, m.pte[p][a].page # None,
         mem' = [mem EXCEPT ![m.pte[p][a].page] = p],
         m' = [m EXCEPT !.pte[p][a].dirty = TRUE],
         view' = [view EXCEPT ![p][a] = p], UNCHANGED exe,
         stale' \in SUBSET (Procs \X FileBacked),
         \A q \in Procs, b \in FileBacked : ~(q = p /\ b = a) =>
           /\ <<q, b>> \in stale => <<q, b>> \in stale'
           /\ m.pte[q][b].page = m.pte[p][a].page => <<q, b>> \in stale'
  PROVE  FileInv'
<1> DEFINE x == m.pte[p][a].page
<1>0. Types /\ Sound(m, task, held, None) /\ m \in MemoryType /\ FileBacked \subseteq Addrs
  BY Constants DEF MemInv, Sound
<1>1. \A q \in Procs, b \in Addrs : m'.pte[q][b].page = m.pte[q][b].page
  BY SMTT(30), <1>0, DirtyIs
<1>2. m'.pte[p][a].dirty /\ ButCell(m.pte, m'.pte, Addrs, p, a)
  BY SMTT(30), <1>0, DirtyBit
<1>3. x \in Frames
  BY <1>0, PageIsFrame
<1>4. /\ mem'[x] = p /\ \A y \in Frames : y # x => mem'[y] = mem[y]
      /\ view'[p][a] = p
      /\ \A q \in Procs, b \in Addrs : ~(q = p /\ b = a) => view'[q][b] = view[q][b]
  BY <1>0, <1>3 DEF Types
<1>5. ASSUME NEW q \in Procs, NEW b \in FileBacked
      PROVE  <<q, b>> \in stale' \/ FileSeen(q, b)'
  <2>0. <<q, b>> \in stale \/ FileSeen(q, b)
    BY DEF FileInv, FileOf
  <2>1. CASE q = p /\ b = a
    BY <1>1, <1>2, <1>4, <2>1 DEF FileSeen
  <2>2. CASE ~(q = p /\ b = a)
    <3>1. m.pte[q][b].page # None =>
            <<q, b>> \in stale' \/ mem'[m.pte[q][b].page] = mem[m.pte[q][b].page]
      BY <1>0, <1>4, <2>2, PageIsFrame
    <3>2. FileKept(q, b)
      BY <1>0, <1>2, <1>4, <2>2, <3>1 DEF FileKept, ButCell
    <3> QED BY <2>0, <3>2 DEF FileKept, FileSeen
  <2> QED BY <2>1, <2>2
<1> QED BY <1>5 DEF FileInv, FileOf

LEMMA WriteFile ==
  ASSUME MemInv, FileInv, NEW p \in Procs, NEW a \in Addrs, Write(p, a)
  PROVE  FileInv'
<1>1. /\ m.pte[p][a].page # None /\ m.pte[p][a].rw
      /\ mem' = [mem EXCEPT ![m.pte[p][a].page] = p]
      /\ m' = [m EXCEPT !.pte[p][a].dirty = TRUE]
      /\ view' = [view EXCEPT ![p][a] = p] /\ UNCHANGED exe /\ stale' = stale \ {<<p, a>>}
  BY DEF Write, Present
<1>2. Sound(m, task, held, None) /\ FileBacked \subseteq Addrs
  BY Constants DEF MemInv
<1>3. \A q \in Procs, b \in FileBacked : m.pte[q][b].page = m.pte[p][a].page => q = p /\ b = a
  <2>1. m.pte[p][a].page \in Frames /\ m.map[m.pte[p][a].page] = 1
    BY <1>1, <1>2 DEF Sound, Alone
  <2> QED BY <1>2, <2>1, OneUse
<1>4. stale' \in SUBSET (Procs \X FileBacked)
  BY <1>1 DEF FileInv
<1>5. \A q \in Procs, b \in FileBacked : ~(q = p /\ b = a) =>
        /\ <<q, b>> \in stale => <<q, b>> \in stale'
        /\ m.pte[q][b].page = m.pte[p][a].page => <<q, b>> \in stale'
  BY <1>1, <1>3
<1> QED BY <1>1, <1>4, <1>5, StoreFile

LEMMA PutFsByteFile ==
  ASSUME MemInv, FileInv, NEW p \in Procs, PutFsByte(p)
  PROVE  FileInv'
<1> DEFINE a == at[p]
           others == {<<q, a>> : q \in {r \in Procs \ {p} : /\ a \in FileBacked
                                                          /\ m.pte[r][a].page = m.pte[p][a].page}}
<1>1. /\ mode[p] = "syscall" /\ m.pte[p][a].page # None
      /\ mem' = [mem EXCEPT ![m.pte[p][a].page] = p]
      /\ m' = [m EXCEPT !.pte[p][a].dirty = TRUE]
      /\ view' = [view EXCEPT ![p][a] = p] /\ UNCHANGED exe
      /\ stale' = (stale \ {<<p, a>>}) \cup others
  BY DEF PutFsByte, Present
<1>2. SameAddress(m) /\ FileBacked \subseteq Addrs /\ a \in Addrs
  BY <1>1, Constants DEF MemInv, Sound, Modes, ModeOf
<1> HIDE DEF a
<1>3. stale' \in SUBSET (Procs \X FileBacked)
  BY <1>1 DEF FileInv
<1>4. ASSUME NEW q \in Procs, NEW b \in FileBacked, ~(q = p /\ b = a)
      PROVE  /\ <<q, b>> \in stale => <<q, b>> \in stale'
             /\ m.pte[q][b].page = m.pte[p][a].page => <<q, b>> \in stale'
  <2>1. <<q, b>> \in stale => <<q, b>> \in stale'
    BY <1>1, <1>4
  <2>2. ASSUME m.pte[q][b].page = m.pte[p][a].page
        PROVE  <<q, b>> \in stale'
    <3>1. a = b
      BY <1>1, <1>2, <2>2 DEF SameAddress
    <3>2. q # p
      BY <1>4, <3>1
    <3> QED BY <1>1, <2>2, <3>1, <3>2
  <2> QED BY <2>1, <2>2
<1> HIDE DEF others
<1> QED BY <1>1, <1>2, <1>3, <1>4, StoreFile

(* Page faults. *)
LEMMA EmptyPageFile ==
  ASSUME MemInv, MemInv', FileInv, NEW p \in Procs, NEW a \in Addrs, EmptyPage(p, a)
  PROVE  FileInv'
<1> DEFINE x == get_free_page(m)
<1>0. Types /\ Sound(m, task, held, None) /\ FileBacked \subseteq Addrs
  BY Constants DEF MemInv
<1>1. m.pte[p][a].page = None /\ (~exe[p] \/ a \notin FileBacked)
  BY DEF EmptyPage, Present
<1>2. CASE DoExit(m, p)
  BY <1>0, <1>2, DoExitFile
<1>3. CASE ~DoExit(m, p)
  <2> DEFINE mm == Take(m, x)
  <2>1. /\ FreeFrames(m) # {} /\ CanPut(mm, p, a) /\ m' = put_page(mm, p, a, x)
        /\ mem' = [mem EXCEPT ![x] = Zero] /\ UNCHANGED <<exe, view>> /\ stale' = stale
    BY <1>3 DEF EmptyPage
  <2>2. x \in Frames /\ m.map[x] = 0
    BY <2>1, GetFree
  <2> HIDE DEF x
  <2>3. Sound(mm, task, held, x) /\ mm.map[x] = 1 /\ mm.pte = m.pte
    BY <1>0, <2>2, TakeSound, TakeIs DEF Sound
  <2> HIDE DEF mm
  <2>4. m'.pte[p][a].page = x /\ ButCell(m.pte, m'.pte, Addrs, p, a)
    BY <1>1, <2>1, <2>2, <2>3, PutIs
  <2>5. NoUse(m, task, held, x)
    BY <1>0, <2>2, UnusedPage
  <2>6. mem'[x] = Zero /\ \A y \in Frames : y # x => mem'[y] = mem[y]
    BY <1>0, <2>1, <2>2 DEF Types
  <2>7. ASSUME NEW q \in Procs, NEW b \in FileBacked
        PROVE  <<q, b>> \in stale' \/ FileSeen(q, b)'
    <3>0. <<q, b>> \in stale \/ FileSeen(q, b)
      BY DEF FileInv, FileOf
    <3>1. CASE q = p /\ b = a
      BY <1>1, <2>1, <2>4, <2>6, <3>0, <3>1 DEF FileSeen
    <3>2. CASE ~(q = p /\ b = a)
      <4>1. FileKept(q, b)
        BY <1>0, <2>1, <2>4, <2>5, <2>6, <3>2, PageIsFrame DEF FileKept, ButCell, NoUse
      <4> QED BY <3>0, <4>1 DEF FileKept, FileSeen
    <3> QED BY <3>1, <3>2
  <2> QED BY <2>1, <2>7 DEF FileInv, FileOf
<1> QED BY <1>2, <1>3

(* A page that is not dirty is as in the file for both, or stale for both. *)
LEMMA SharePageFile ==
  ASSUME MemInv, MemInv', FileInv, NEW p \in Procs, NEW a \in Addrs, SharePage(p, a)
  PROVE  FileInv'
<1> DEFINE q == Max(Sharers(p, a))
<1>0. Types /\ Sound(m, task, held, None) /\ FileBacked \subseteq Addrs
  BY Constants DEF MemInv
<1>1. m.pte[p][a].page = None /\ a \in FileBacked /\ exe[p] /\ Sharers(p, a) # {}
  BY DEF SharePage, Present
<1>2. CASE DoExit(m, p)
  BY <1>0, <1>2, DoExitFile
<1>3. CASE ~DoExit(m, p)
  <2>1. /\ CanPut(m, p, a) /\ m' = try_to_share(m, p, a, q) /\ UNCHANGED <<mem, exe, view>>
        /\ stale' = IF <<q, a>> \in stale THEN stale \cup {<<p, a>>} ELSE stale
    BY <1>3 DEF SharePage
  <2>2. q \in Procs /\ q # p /\ m.pte[q][a].page # None /\ exe[q] /\ ~m.pte[q][a].dirty
    <3>1. Sharers(p, a) \in SUBSET Nat /\ IsFiniteSet(Sharers(p, a))
      BY Constants, FS_Subset DEF Sharers
    <3>2. q \in Sharers(p, a)
      BY <1>1, <3>1, FiniteHasMost
    <3> HIDE DEF q
    <3> QED BY <3>2 DEF Sharers, Present
  <2> HIDE DEF q
  <2>3. /\ \A r \in Procs, b \in Addrs : b # a \/ r \notin {p, q} => m'.pte[r][b] = m.pte[r][b]
        /\ m'.pte[q][a].page = m.pte[q][a].page /\ m'.pte[q][a].dirty = m.pte[q][a].dirty
        /\ m'.pte[p][a] = m'.pte[q][a]
    BY <1>0, <1>1, <2>1, <2>2, ShareIs
  <2>4. stale' \in SUBSET (Procs \X FileBacked) /\ stale \subseteq stale'
    BY <1>1, <2>1 DEF FileInv
  <2>5. ASSUME NEW r \in Procs, NEW b \in FileBacked
        PROVE  <<r, b>> \in stale' \/ FileSeen(r, b)'
    <3>0. (<<r, b>> \in stale \/ FileSeen(r, b)) /\ (<<q, a>> \in stale \/ FileSeen(q, a))
          /\ (<<p, a>> \in stale \/ FileSeen(p, a))
      BY <1>1, <2>2 DEF FileInv, FileOf
    <3>1. CASE r = p /\ b = a
      <4>1. CASE <<q, a>> \in stale
        BY <2>1, <3>1, <4>1
      <4>2. CASE <<q, a>> \notin stale
        BY <1>1, <2>1, <2>2, <2>3, <2>4, <3>0, <3>1, <4>2 DEF FileSeen
      <4> QED BY <4>1, <4>2
    <3>2. CASE ~(r = p /\ b = a)
      <4>1. m'.pte[r][b].page = m.pte[r][b].page /\ m'.pte[r][b].dirty = m.pte[r][b].dirty
        BY <1>0, <2>3, <3>2
      <4> QED BY <2>1, <2>4, <3>0, <4>1 DEF FileSeen
    <3> QED BY <3>1, <3>2
  <2> QED BY <2>1, <2>4, <2>5 DEF FileInv, FileOf
<1> QED BY <1>2, <1>3

LEMMA StartLoadFile ==
  ASSUME MemInv, MemInv', FileInv, NEW p \in Procs, NEW a \in Addrs, StartLoad(p, a)
  PROVE  FileInv'
<1> DEFINE x == get_free_page(m)
<1>0. Types /\ Sound(m, task, held, None) /\ held[p] = None
  BY FaultOf DEF MemInv, StartLoad
<1>1. CASE DoExit(m, p)
  BY <1>0, <1>1, DoExitFile
<1>2. CASE ~DoExit(m, p)
  <2>1. /\ FreeFrames(m) # {} /\ m' = Take(m, x) /\ UNCHANGED <<mem, exe, view>> /\ stale' = stale
    BY <1>2 DEF StartLoad
  <2>2. m'.pte = m.pte
    BY <1>0, <2>1, TakeHeld
  <2> QED BY <2>1, <2>2, SameTablesFile
<1> QED BY <1>1, <1>2

LEMMA EndLoadFile ==
  ASSUME MemInv, MemInv', FileInv, Loads, NEW p \in Procs, EndLoad(p)
  PROVE  FileInv'
<1> DEFINE x == held[p]
           a == at[p]
<1>0. Types /\ Sound(m, task, held, None) /\ ModeOf(p) /\ FileBacked \subseteq Addrs
  BY Constants DEF MemInv, Modes
<1>1. mode[p] \in {"user_load", "syscall_load"} /\ exe[p]
  BY DEF EndLoad, Loads
<1>2. x \in Frames /\ a \in FileBacked /\ a \in Addrs /\ m.pte[p][a].page = None
  BY <1>0, <1>1 DEF ModeOf, Holding, Sound, Places
<1>3. Sound(m, task, [held EXCEPT ![p] = None], x) /\ m.map[x] = 1
  BY <1>0, <1>2, HeldGives
<1>4. CASE DoExit(FreePage(m, x), p)
  <2> HIDE DEF x
  <2>1. Sound(FreePage(m, x), task, [held EXCEPT ![p] = None], None)
    BY <1>2, <1>3, FreeSound
  <2>2. FreePage(m, x).pte = m.pte
    BY <1>0, <1>2, <1>3, FreeIs DEF Sound
  <2> QED BY <1>4, <2>1, <2>2, DoExitFile
<1>5. CASE ~DoExit(FreePage(m, x), p)
  <2>1. /\ CanPut(m, p, a) /\ m' = put_page(m, p, a, x) /\ mem' = [mem EXCEPT ![x] = File]
        /\ UNCHANGED <<exe, view>> /\ stale' = stale
    BY <1>5 DEF EndLoad
  <2>2. \A q \in Procs, b \in Addrs : m.pte[q][b].page # x
    BY <1>0, <1>2, <1>3, OneUse
  <2> HIDE DEF x, a
  <2>3. m'.pte[p][a].page = x /\ ~m'.pte[p][a].dirty /\ ButCell(m.pte, m'.pte, Addrs, p, a)
    BY <1>2, <1>3, <2>1, PutIs
  <2>4. mem'[x] = File /\ \A y \in Frames : y # x => mem'[y] = mem[y]
    BY <1>0, <1>2, <2>1 DEF Types
  <2>5. ASSUME NEW q \in Procs, NEW b \in FileBacked
        PROVE  <<q, b>> \in stale' \/ FileSeen(q, b)'
    <3>0. <<q, b>> \in stale \/ FileSeen(q, b)
      BY DEF FileInv, FileOf
    <3>1. CASE q = p /\ b = a
      BY <1>1, <1>2, <2>1, <2>3, <2>4, <3>0, <3>1 DEF FileSeen
    <3>2. CASE ~(q = p /\ b = a)
      <4>1. FileKept(q, b)
        BY <1>0, <2>1, <2>2, <2>3, <2>4, <3>2, PageIsFrame DEF FileKept, ButCell
      <4> QED BY <3>0, <4>1 DEF FileKept, FileSeen
    <3> QED BY <3>1, <3>2
  <2> QED BY <2>1, <2>5 DEF FileInv, FileOf
<1> QED BY <1>4, <1>5

(* copy_process(): the child has its parent's pages, and they are stale    *)
(* where those are.                                                        *)
LEMMA ForkFile ==
  ASSUME MemInv, FileInv, NEW p \in Procs, NEW c \in Procs, Fork(p, c)
  PROVE  FileInv'
<1> DEFINE x    == get_free_page(m)
           mm   == Take(m, x)
           from == {d \in Dirs : m.dir[p][d] # None}
           inherited == {<<c, a>> : a \in {b \in Addrs : <<p, b>> \in stale}}
<1>0. Types /\ Sound(m, task, held, None) /\ FileBacked \subseteq Addrs
  BY Constants DEF MemInv
<1>1. mode[p] = "user" /\ mode[c] = "none" /\ FreeFrames(m) # {} /\ UNCHANGED mem
  BY DEF Fork
<1>2. PICK dirs \in SUBSET from : \E tables \in [dirs -> FreeFrames(mm)] :
        /\ TakesTables(mm, from, dirs, tables)
        /\ \/ /\ dirs = from
              /\ m' = copy_dirs(mm, p, c, dirs, tables)
              /\ exe' = [exe EXCEPT ![c] = exe[p]]
              /\ view' = [view EXCEPT ![c] = view[p]]
              /\ stale' = stale \cup inherited
           \/ /\ dirs # from
              /\ m' = FreePage(free_page_tables(copy_dirs(mm, p, c, dirs, tables), c), x)
              /\ UNCHANGED <<exe, view, stale>>
  BY DEF Fork
<1>3. PICK tables \in [dirs -> FreeFrames(mm)] :
        /\ TakesTables(mm, from, dirs, tables)
        /\ \/ /\ dirs = from
              /\ m' = copy_dirs(mm, p, c, dirs, tables)
              /\ exe' = [exe EXCEPT ![c] = exe[p]]
              /\ view' = [view EXCEPT ![c] = view[p]]
              /\ stale' = stale \cup inherited
           \/ /\ dirs # from
              /\ m' = FreePage(free_page_tables(copy_dirs(mm, p, c, dirs, tables), c), x)
              /\ UNCHANGED <<exe, view, stale>>
  BY <1>2
<1>4. x \in Frames /\ m.map[x] = 0
  BY <1>1, GetFree
<1>5. \A d \in Dirs : m.dir[p][d] # None => d \in from
  OBVIOUS
<1>6. dirs \in SUBSET Dirs
  OBVIOUS
<1> HIDE DEF x, from
<1>7. Sound(mm, task, held, x) /\ mm.map[x] = 1 /\ mm.dir = m.dir /\ mm.pte = m.pte
  BY <1>0, <1>4, TakeSound, TakeIs DEF Sound
<1> HIDE DEF mm
<1>8. p # c /\ Empty(mm, c) /\ Empty(m, c)
  BY <1>1, <1>7 DEF MemInv, Modes, ModeOf, Empty
<1>9. \A d, e \in dirs : d < e => tables[d] > tables[e]
  BY <1>3 DEF TakesTables
<1> DEFINE nn == copy_dirs(mm, p, c, dirs, tables)
<1>10. /\ Sound(nn, task, held, x)
       /\ \A q \in Procs : q # p /\ q # c => nn.pte[q] = m.pte[q]
       /\ \A a \in Addrs :
            /\ nn.pte[p][a].page = m.pte[p][a].page /\ nn.pte[p][a].dirty = m.pte[p][a].dirty
            /\ nn.pte[c][a].page = IF DirOf[a] \in dirs THEN m.pte[p][a].page ELSE None
            /\ nn.pte[c][a].page # None => nn.pte[c][a].dirty = m.pte[p][a].dirty
  BY SMTT(30), <1>6, <1>7, <1>8, <1>9, CopyIs
<1>11. CASE dirs = from
  <2>1. /\ m' = nn /\ exe' = [exe EXCEPT ![c] = exe[p]]
        /\ view' = [view EXCEPT ![c] = view[p]] /\ stale' = stale \cup inherited
    BY <1>3, <1>11
  <2> HIDE DEF nn
  <2>2. /\ exe' \in [Procs -> BOOLEAN] /\ exe'[c] = exe[p] /\ view'[c] = view[p]
        /\ \A q \in Procs : q # c => exe'[q] = exe[q] /\ view'[q] = view[q]
    BY <1>0, <2>1 DEF Types, FileInv
  <2>3. /\ stale' \in SUBSET (Procs \X FileBacked) /\ stale \subseteq stale'
        /\ \A a \in FileBacked : <<p, a>> \in stale => <<c, a>> \in stale'
    <3>1. \A a \in Addrs : <<p, a>> \in stale => a \in FileBacked
      <4> SUFFICES ASSUME NEW a \in Addrs, <<p, a>> \in stale
                   PROVE  a \in FileBacked
        OBVIOUS
      <4>1. <<p, a>> \in Procs \X FileBacked
        BY DEF FileInv
      <4> QED BY <4>1
    <3>2. \A a \in FileBacked : <<p, a>> \in stale => <<c, a>> \in inherited
      BY <1>0
    <3>3. \A s \in inherited : s \in Procs \X FileBacked
      <4> SUFFICES ASSUME NEW s \in inherited
                   PROVE  s \in Procs \X FileBacked
        OBVIOUS
      <4>1. PICK a \in {b \in Addrs : <<p, b>> \in stale} : s = <<c, a>>
        OBVIOUS
      <4>2. a \in FileBacked
        BY <3>1
      <4> QED BY <4>1, <4>2
    <3> HIDE DEF inherited
    <3> QED BY <2>1, <3>2, <3>3 DEF FileInv
  <2>4. \A a \in Addrs : /\ m'.pte[c][a].page = m.pte[p][a].page
                         /\ m'.pte[c][a].page # None => m'.pte[c][a].dirty = m.pte[p][a].dirty
    <3> SUFFICES ASSUME NEW a \in Addrs
                 PROVE  m'.pte[c][a].page = m.pte[p][a].page
      BY <1>10, <2>1
    <3>1. DirOf[a] \in Dirs /\ (m.pte[p][a].page # None => m.dir[p][DirOf[a]] # None)
      BY <1>0, Constants DEF Sound, InTables
    <3> QED BY <1>5, <1>10, <1>11, <2>1, <3>1
  <2>5. FileOf(c)'
    <3> SUFFICES ASSUME NEW a \in FileBacked, <<c, a>> \notin stale'
                 PROVE  FileSeen(c, a)'
      BY DEF FileOf
    <3>1. FileSeen(p, a)
      BY <2>3 DEF FileInv, FileOf
    <3> QED BY <1>0, <1>1, <2>2, <2>4, <3>1 DEF FileSeen
  <2>6. ASSUME NEW q \in Procs, q # c
        PROVE  FileOf(q)'
    <3>1. \A a \in FileBacked : FileKept(q, a)
      BY <1>0, <1>1, <1>10, <2>1, <2>2, <2>3, <2>6 DEF FileKept
    <3> QED BY <3>1, FileKeptIs DEF FileInv
  <2> QED BY <2>2, <2>3, <2>5, <2>6 DEF FileInv
<1>12. CASE dirs # from
  <2> DEFINE ff == free_page_tables(nn, c)
  <2>1. m' = FreePage(ff, x) /\ UNCHANGED <<exe, view, stale>>
    BY <1>3, <1>12
  <2> HIDE DEF nn
  <2>2. /\ Sound(ff, task, held, x) /\ Empty(ff, c)
        /\ \A q \in Procs : q # c => ff.pte[q] = nn.pte[q]
    BY <1>10, ClearIs
  <2> HIDE DEF ff
  <2>3. m'.pte = ff.pte
    BY <1>4, <2>1, <2>2, SlackPage, FreeIs DEF Sound
  <2>4. FileOf(c)'
    <3> SUFFICES ASSUME NEW a \in FileBacked
                 PROVE  <<c, a>> \in stale' \/ FileSeen(c, a)'
      BY DEF FileOf
    <3>1. m'.pte[c][a].page = None /\ m.pte[c][a].page = None
      BY <1>0, <1>8, <2>2, <2>3 DEF Empty
    <3>2. <<c, a>> \in stale \/ FileSeen(c, a)
      BY DEF FileInv, FileOf
    <3> QED BY <2>1, <3>1, <3>2 DEF FileSeen
  <2>5. ASSUME NEW q \in Procs, q # c
        PROVE  FileOf(q)'
    <3>1. \A a \in FileBacked : FileKept(q, a)
      BY <1>0, <1>1, <1>10, <2>1, <2>2, <2>3, <2>5 DEF FileKept
    <3> QED BY <3>1, FileKeptIs DEF FileInv
  <2> QED BY <2>1, <2>4, <2>5 DEF FileInv
<1> QED BY <1>11, <1>12

LEMMA LoadsStep ==
  ASSUME Types, FileInv, Loads, [Next]_vars
  PROVE  Loads'
<1>0. mode \in [Procs -> ModeSet] /\ exe \in [Procs -> BOOLEAN]
  BY DEF Types, FileInv
<1>1. ASSUME NEW p \in Procs, NEW mm, DoExit(mm, p)
      PROVE  Loads'
  BY <1>0, <1>1 DEF DoExit, Loads
<1>2. ASSUME NEW p \in Procs, NEW a \in Addrs, NEW next, NEW about, UnWp(p, a, next, about),
             next \in {"user", "syscall"}
      PROVE  Loads'
  <2>1. CASE DoExit(m, p)
    BY <1>1, <2>1
  <2>2. CASE ~DoExit(m, p)
    BY <1>0, <1>2, <2>2 DEF UnWp, Loads
  <2> QED BY <2>1, <2>2
<1>3. CASE UNCHANGED vars
  BY <1>3 DEF vars, Loads
<1>4. ASSUME NEW p \in Procs, NEW c \in Procs, Fork(p, c)
      PROVE  Loads'
  <2>1. \/ mode' = [mode EXCEPT ![c] = "user"] /\ exe' = [exe EXCEPT ![c] = exe[p]]
        \/ UNCHANGED <<mode, exe>>
    BY <1>4 DEF Fork
  <2> QED BY <1>0, <2>1 DEF Loads
<1>5. ASSUME NEW p \in Procs, Exit(p)
      PROVE  Loads'
  BY <1>1, <1>5 DEF Exit
<1>6. ASSUME NEW p \in Procs, Release(p) \/ StartExec(p) \/ ExecError(p) \/ SetExecutable(p)
                             \/ EndExec(p) \/ PutFsByte(p)
      PROVE  Loads'
  <2>1. \E k \in {"none", "user", "exec", "close"} : mode' = [mode EXCEPT ![p] = k]
    BY <1>6 DEF Release, StartExec, ExecError, SetExecutable, EndExec, PutFsByte
  <2>2. exe' = exe \/ exe' = [exe EXCEPT ![p] = TRUE]
    BY <1>6 DEF Release, StartExec, ExecError, SetExecutable, EndExec, PutFsByte
  <2> QED BY <1>0, <2>1, <2>2 DEF Loads
<1>7. ASSUME NEW p \in Procs, EndLoad(p)
      PROVE  Loads'
  <2>1. CASE DoExit(FreePage(m, held[p]), p)
    BY <1>1, <2>1
  <2>2. CASE ~DoExit(FreePage(m, held[p]), p)
    BY <1>0, <1>7, <2>2 DEF EndLoad, Loads
  <2> QED BY <2>1, <2>2
<1>8. ASSUME NEW p \in Procs, NEW a \in Addrs, WpFault(p, a)
      PROVE  Loads'
  BY <1>2, <1>8 DEF WpFault
<1>9. ASSUME NEW p \in Procs, NEW a \in Addrs, VerifyArea(p, a)
      PROVE  Loads'
  <2>1. CASE UnWp(p, a, "syscall", a)
    BY <1>2, <2>1
  <2>2. CASE ~UnWp(p, a, "syscall", a)
    BY <1>0, <1>9, <2>2 DEF VerifyArea, Loads
  <2> QED BY <2>1, <2>2
<1>10. ASSUME NEW p \in Procs, NEW a \in Addrs, Write(p, a) \/ EmptyPage(p, a) \/ SharePage(p, a)
       PROVE  Loads'
  <2>1. CASE DoExit(m, p)
    BY <1>1, <2>1
  <2>2. CASE ~DoExit(m, p)
    <3>1. UNCHANGED <<mode, exe>>
      BY <1>10, <2>2 DEF Write, EmptyPage, SharePage
    <3> QED BY <3>1 DEF Loads
  <2> QED BY <2>1, <2>2
<1>11. ASSUME NEW p \in Procs, NEW a \in Addrs, StartLoad(p, a)
       PROVE  Loads'
  <2>1. CASE DoExit(m, p)
    BY <1>1, <2>1
  <2>2. CASE ~DoExit(m, p)
    <3>1. exe[p] /\ UNCHANGED exe /\ \E k : mode' = [mode EXCEPT ![p] = k]
      BY <1>11, <2>2 DEF StartLoad
    <3> QED BY <1>0, <3>1 DEF Loads
  <2> QED BY <2>1, <2>2
<1> QED BY <1>3, <1>4, <1>5, <1>6, <1>7, <1>8, <1>9, <1>10, <1>11 DEF Next

(* The second part of the invariant. *)
PagesInv == MemInv /\ FileInv /\ Loads

LEMMA FileStep == PagesInv /\ [Next]_vars => PagesInv'
<1> SUFFICES ASSUME MemInv, FileInv, Loads, [Next]_vars
             PROVE  PagesInv'
  BY DEF PagesInv
<1>1. MemInv'
  BY MemStep
<1>2. Loads'
  BY LoadsStep DEF MemInv
<1>3. FileInv'
  <2>1. CASE UNCHANGED vars
    BY <2>1, SameTablesFile DEF vars
  <2>2. ASSUME NEW p \in Procs, NEW c \in Procs, Fork(p, c)
        PROVE  FileInv'
    BY <2>2, ForkFile
  <2>3. ASSUME NEW p \in Procs, Exit(p)
        PROVE  FileInv'
    <3>1. DoExit(m, p) /\ Sound(m, task, held, None)
      BY <2>3 DEF Exit, MemInv
    <3> QED BY <1>1, <3>1, DoExitFile
  <2>4. ASSUME NEW p \in Procs,
               \/ Release(p) \/ EndLoad(p) \/ PutFsByte(p)
               \/ StartExec(p) \/ ExecError(p) \/ SetExecutable(p) \/ EndExec(p)
        PROVE  FileInv'
    BY <1>1, <2>4, ReleaseFile, EndLoadFile, PutFsByteFile, StartExecFile, ExecErrorFile,
       SetExecutableFile, EndExecFile
  <2>5. ASSUME NEW p \in Procs, NEW a \in Addrs, WpFault(p, a)
        PROVE  FileInv'
    <3>1. UnWp(p, a, "user", None)
      BY <2>5 DEF WpFault
    <3> QED BY <1>1, <3>1, UnWpFile
  <2>6. ASSUME NEW p \in Procs, NEW a \in Addrs, VerifyArea(p, a)
        PROVE  FileInv'
    <3>1. CASE UnWp(p, a, "syscall", a)
      BY <1>1, <3>1, UnWpFile
    <3>2. CASE ~UnWp(p, a, "syscall", a)
      <4>1. UNCHANGED <<m, mem, exe, view>> /\ stale' = stale
        BY <2>6, <3>2 DEF VerifyArea
      <4> QED BY <4>1, SameTablesFile
    <3> QED BY <3>1, <3>2
  <2>7. ASSUME NEW p \in Procs, NEW a \in Addrs,
               Write(p, a) \/ EmptyPage(p, a) \/ SharePage(p, a) \/ StartLoad(p, a)
        PROVE  FileInv'
    BY <1>1, <2>7, WriteFile, EmptyPageFile, SharePageFile, StartLoadFile
  <2> QED BY <2>1, <2>2, <2>3, <2>4, <2>5, <2>6, <2>7 DEF Next
<1> QED BY <1>1, <1>2, <1>3 DEF PagesInv

LEMMA FileInit == Init => PagesInv
<1> SUFFICES ASSUME Init
             PROVE  PagesInv
  OBVIOUS
<1>1. MemInv
  BY MemInit
<1>2. /\ m.pte = [p \in Procs |-> [a \in Addrs |-> NoPage]] /\ exe = [p \in Procs |-> FALSE]
      /\ view = [p \in Procs |-> [a \in Addrs |-> Zero]] /\ stale = {}
      /\ mode = [p \in Procs |-> IF p = Init1 THEN "user" ELSE "none"]
  BY DEF Init
<1>3. FileInv
  BY <1>2, Constants DEF FileInv, FileOf, FileSeen, NoPage
<1>4. Loads
  BY <1>2 DEF Loads
<1> QED BY <1>1, <1>3, <1>4 DEF PagesInv
-----------------------------------------------------------------------------
(* The results. *)

(* A set and its elements with a tag are as many; so are two sets with     *)
(* different tags together.                                                *)
LEMMA Tagged ==
  ASSUME NEW S, IsFiniteSet(S), NEW k
  PROVE  /\ IsFiniteSet({<<k, p>> : p \in S})
         /\ Cardinality({<<k, p>> : p \in S}) = Cardinality(S)
<1> DEFINE T == {<<k, p>> : p \in S}
           g == [p \in S |-> <<k, p>>]
<1>1. g \in [S -> T] /\ (\A a, b \in S : g[a] = g[b] => a = b) /\ (\A t \in T : \E a \in S : g[a] = t)
  OBVIOUS
<1> HIDE DEF T, g
<1>2. g \in Bijection(S, T)
  BY <1>1 DEF Bijection, Injection, Surjection, IsInjective
<1>3. IsFiniteSet(T) /\ Cardinality(T) = Cardinality(S)
  BY <1>2, FS_Bijection DEF ExistsBijection
<1> QED BY <1>3 DEF T

LEMMA TaggedPairs ==
  ASSUME NEW R, NEW S \in SUBSET (Procs \X R), IsFiniteSet(S), NEW k
  PROVE  /\ IsFiniteSet({<<k, s[1], s[2]>> : s \in S})
         /\ Cardinality({<<k, s[1], s[2]>> : s \in S}) = Cardinality(S)
<1> DEFINE T == {<<k, s[1], s[2]>> : s \in S}
           g == [s \in S |-> <<k, s[1], s[2]>>]
<1>1. g \in [S -> T] /\ (\A t \in T : \E a \in S : g[a] = t)
  OBVIOUS
<1>2. \A a, b \in S : g[a] = g[b] => a = b
  <2> SUFFICES ASSUME NEW a \in S, NEW b \in S, g[a] = g[b]
               PROVE  a = b
    OBVIOUS
  <2>1. a[1] = b[1] /\ a[2] = b[2]
    OBVIOUS
  <2>2. a \in Procs \X R /\ b \in Procs \X R
    OBVIOUS
  <2> QED BY <2>1, <2>2
<1> HIDE DEF T, g
<1>3. g \in Bijection(S, T)
  BY <1>1, <1>2 DEF Bijection, Injection, Surjection, IsInjective
<1>4. IsFiniteSet(T) /\ Cardinality(T) = Cardinality(S)
  BY <1>3, FS_Bijection DEF ExistsBijection
<1> QED BY <1>4 DEF T

LEMMA Apart ==
  ASSUME NEW S, IsFiniteSet(S), NEW T, IsFiniteSet(T), S \cap T = {}
  PROVE  IsFiniteSet(S \cup T) /\ Cardinality(S \cup T) = Cardinality(S) + Cardinality(T)
<1>1. IsFiniteSet(S \cup T) /\ Cardinality(S \cup T) = Cardinality(S) + Cardinality(T) - Cardinality({})
  BY FS_Union
<1>2. Cardinality({}) = 0 /\ Cardinality(S) \in Nat /\ Cardinality(T) \in Nat
  BY FS_EmptySet, FS_CardinalityType
<1> QED BY <1>1, <1>2

(* The uses of a page, counted by kind, are its uses. *)
LEMMA UsesCounted ==
  ASSUME NEW x
  PROVE  Cardinality(Uses(x)) = UsesOf(m, task, held, x)
<1> DEFINE A == Where(task, Procs, x)
           B == Cells(m.dir, Dirs, x)
           C == Cells(PagesOf(m.pte), Addrs, x)
           D == Where(held, Procs, x)
           tA == {<<"task", p>> : p \in A}
           tB == {<<"dir", s[1], s[2]>> : s \in B}
           tC == {<<"pte", s[1], s[2]>> : s \in C}
           tD == {<<"held", p>> : p \in D}
<1>1. IsFiniteSet(A) /\ IsFiniteSet(D)
  BY Constants, FS_Subset DEF Where
<1>2. IsFiniteSet(B) /\ IsFiniteSet(C)
  BY Constants, CellsFinite
<1>3. B \in SUBSET (Procs \X Dirs) /\ C \in SUBSET (Procs \X Addrs)
  BY DEF Cells
<1>4. Uses(x) = ((tA \cup tB) \cup tC) \cup tD
  <2>1. C = {s \in Procs \X Addrs : m.pte[s[1]][s[2]].page = x}
    BY DEF Cells, PagesOf
  <2>2. A = {q \in Procs : task[q] = x} /\ D = {q \in Procs : held[q] = x}
    BY DEF Where
  <2>3. B = {s \in Procs \X Dirs : m.dir[s[1]][s[2]] = x}
    BY DEF Cells
  <2> HIDE DEF A, B, C, D
  <2> QED BY <2>1, <2>2, <2>3 DEF Uses
<1> HIDE DEF A, B, C, D
<1>5. /\ IsFiniteSet(tA) /\ Cardinality(tA) = Cardinality(A)
      /\ IsFiniteSet(tD) /\ Cardinality(tD) = Cardinality(D)
  BY <1>1, Tagged
<1>6. IsFiniteSet(tB) /\ Cardinality(tB) = Cardinality(B)
  BY <1>2, <1>3, TaggedPairs
<1>7. IsFiniteSet(tC) /\ Cardinality(tC) = Cardinality(C)
  BY <1>2, <1>3, TaggedPairs
<1>8. tA \cap tB = {} /\ (tA \cup tB) \cap tC = {} /\ ((tA \cup tB) \cup tC) \cap tD = {}
  <2>1. /\ \A t \in tA : t[1] = "task"
        /\ \A t \in tB : t[1] = "dir"
        /\ \A t \in tC : t[1] = "pte"
        /\ \A t \in tD : t[1] = "held"
    OBVIOUS
  <2> HIDE DEF tA, tB, tC, tD
  <2> QED BY <2>1
<1> HIDE DEF tA, tB, tC, tD
<1>9. IsFiniteSet(tA \cup tB) /\ Cardinality(tA \cup tB) = Cardinality(A) + Cardinality(B)
  BY <1>5, <1>6, <1>8, Apart
<1>10. /\ IsFiniteSet((tA \cup tB) \cup tC)
       /\ Cardinality((tA \cup tB) \cup tC) = (Cardinality(A) + Cardinality(B)) + Cardinality(C)
  BY <1>7, <1>8, <1>9, Apart
<1>11. Cardinality(Uses(x)) = ((Cardinality(A) + Cardinality(B)) + Cardinality(C)) + Cardinality(D)
  <2> DEFINE E == (tA \cup tB) \cup tC
  <2>1. IsFiniteSet(E) /\ Cardinality(E) = (Cardinality(A) + Cardinality(B)) + Cardinality(C)
        /\ E \cap tD = {} /\ Uses(x) = E \cup tD
    BY <1>4, <1>8, <1>10
  <2> HIDE DEF E
  <2>2. Cardinality(E \cup tD) = Cardinality(E) + Cardinality(tD)
    BY <1>5, <2>1, Apart
  <2> QED BY <1>5, <2>1, <2>2
<1> QED BY <1>11 DEF UsesOf, NT, ND, NP, A, B, C, D

(* The inductive invariant holds in every reachable state of mm/memory.c   *)
(* and its callers.                                                        *)
THEOREM MemoryInvariant == Spec => []MemInv
BY MemInit, MemStep, PTL DEF Spec

(* mem_map[] counts the uses of every page exactly, for any number of      *)
(* tasks, pages and tables, so that free_page() never panics (memory.c:98) *)
(* and get_free_page() never gives out a page that is in use.              *)
THEOREM MapIsExact == Spec => []MapCountsUses
<1>1. MemInv => MapCountsUses
  <2> SUFFICES ASSUME MemInv, NEW x \in Frames
               PROVE  m.map[x] = Cardinality(Uses(x))
    BY DEF MapCountsUses
  <2>1. m.map[x] = UsesOf(m, task, held, x) + One(x, None)
    BY DEF MemInv, Sound, Exact
  <2>2. One(x, None) = 0
    BY Constants DEF One, None
  <2>3. UsesOf(m, task, held, x) \in Nat
    BY CountsAreNat DEF UsesOf
  <2> QED BY <2>1, <2>2, <2>3, UsesCounted
<1> QED BY <1>1, MemoryInvariant, PTL

(* A page with the write bit in the table of a task has no other use       *)
(* (copy_page_tables() and try_to_share() clear the bit on both sides,     *)
(* un_wp_page() sets it on a page nobody else has).                        *)
THEOREM WritablePagesArePrivate == Spec => []WritableIsPrivate
<1>1. MemInv => WritableIsPrivate
  BY DEF MemInv, Sound, Alone, WritableIsPrivate
<1> QED BY <1>1, MemoryInvariant, PTL

(* No task finds what another one wrote: never in its bss, heap and stack, *)
(* and in its text and initialized data only in a page that is stale, that *)
(* is one that try_to_share() took for clean although it was not, or that  *)
(* the kernel wrote to after it was shared again (memory.c:221-255,        *)
(* 292-335; fork.c:34), whatever the others do between a fault and the     *)
(* write that is tried again.                                              *)
THEOREM NobodySeesAnothersWrites == Spec => []CopyOnWrite
<1>1. PagesInv => CopyOnWrite
  <2> SUFFICES ASSUME PagesInv, NEW p \in Procs, NEW a \in Addrs, <<p, a>> \notin stale
               PROVE  FindsOwn(p, a)
    BY DEF CopyOnWrite
  <2>1. CASE a \in FileBacked
    BY <2>1 DEF PagesInv, FileInv, FileOf, FileSeen, FindsOwn, Present
  <2>2. CASE a \notin FileBacked
    BY <2>2 DEF PagesInv, MemInv, AllSeen, SeenOf, Seen, FindsOwn, Present
  <2> QED BY <2>1, <2>2
<1> QED BY <1>1, FileInit, FileStep, PTL DEF Spec

(* The stale pages are pages of the executable: bss, heap and stack are    *)
(* never shared again after copy_page_tables() (memory.c:374).             *)
THEOREM OnlyFilePagesAreStale == Spec => [](stale \in SUBSET (Procs \X FileBacked))
<1>1. PagesInv => stale \in SUBSET (Procs \X FileBacked)
  BY DEF PagesInv, FileInv
<1> QED BY <1>1, FileInit, FileStep, PTL DEF Spec
=============================================================================
