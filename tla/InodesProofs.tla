---------------------------- MODULE InodesProofs ----------------------------
(***************************************************************************)
(* The inode table for any tasks, entries and inode numbers: an inode is   *)
(* in the table once, its count is its users, its last contents are on the *)
(* disk or marked.  Two things the code does not exclude would break this, *)
(* and the theorems say so as assumptions on the behaviour:                *)
(* WriteAndFreeApart and OneUnmounter.                                     *)
(***************************************************************************)
EXTENDS Inodes, FiniteSetTheorems, NaturalsInduction, TLAPS

(* free_inode() clears an entry, with its i_lock, without looking whether  *)
(* sync_inodes() of another task sleeps in write_inode() of it.            *)
WriteAndFreeApart ==
  \A t, u \in Tasks : pc[t] = "truncate" /\ pc[u] = "write_io" => f[t].e # f[u].e

(* s_imount is still set while sys_umount() sleeps in iput(sb->s_imount):  *)
(* another sys_umount() of the device would iput() it again.               *)
OneUnmounter == \A t, u \in Tasks : Unmounts(t) /\ Unmounts(u) => t = u

-----------------------------------------------------------------------------
(* The inductive invariant. *)
AllKeys == Keys \cup {NoKey}
Places == {"idle", "empty", "empty_wait", "scan", "found", "cross", "read", "bit", "hold",
           "put", "repeat", "truncate", "write", "write_io", "sync", "read_super", "super_io",
           "mount", "synced", "umount", "put_super", "super_freed"}
Frames == [op : {"", "lookup", "create", "mount", "umount", "sync"}, key : AllKeys,
           empty : Entries \cup {NULL}, e : Entries \cup {NULL},
           ret : {"", "repeat", "sync"}, back : {"", "idle", "cross", "put_super"},
           left : SUBSET Entries, block : AllKeys]
EntryType == [key : AllKeys, count : Nat, dirt : BOOLEAN, lock : BOOLEAN, mount : BOOLEAN,
              c : Contents]
Types ==
  /\ inode \in [Entries -> EntryType]
  /\ imap \subseteq Nums
  /\ disk \in [Keys -> Contents] /\ latest \in [Keys -> Contents]
  /\ sb \in [dev : {0, OtherDev}, lock : BOOLEAN, imount : Entries \cup {NULL}]
  /\ pc \in [Tasks -> Places] /\ f \in [Tasks -> Frames]
  /\ cpu \in Tasks \cup {NULL}

(* Where a task never sleeps. *)
Crossing(t) == pc[t] = "put" /\ f[t].back = "cross"
Hot(t) ==
  \/ pc[t] \in {"empty", "empty_wait", "scan", "cross", "bit", "mount", "write", "put_super"}
  \/ Crossing(t)
Running == \A t \in Tasks : Hot(t) => cpu = t

(* What iget() is asked for has a name, so it is not freed meanwhile. *)
Roots == {<<ROOT_DEV, MountNum>>, <<OtherDev, ROOT_INO>>}
Named(t) == Roots \cup {k \in {ROOT_DEV} \X (Private[t] \cap imap) : latest[k].nlinks = 1}
Names == MountNum \in imap /\ \A k \in Roots : latest[k].nlinks = 1

Looking(t) ==
  \/ pc[t] \in {"empty", "empty_wait"} /\ f[t].op # "create"
  \/ pc[t] \in {"scan", "found", "cross"}
  \/ Crossing(t)
Keeping(t) == pc[t] \in {"scan", "bit", "found", "cross"} \/ Crossing(t)
AtEntry(t) ==
  pc[t] \in {"found", "read", "hold", "put", "repeat", "truncate", "write", "write_io", "sync",
             "read_super", "super_io", "mount"}
WithKey(t) ==
  \/ InPut(t) /\ pc[t] # "put"
  \/ Crossing(t)
  \/ pc[t] \in {"read", "hold", "read_super", "super_io", "mount"}
Free(x) == x.count = 0 /\ ~x.lock /\ ~x.dirt
Fresh(x) == x.key = NoKey /\ x.count = 1 /\ ~x.lock /\ ~x.dirt

(* What holds of the entries and the super block where t is. *)
Task(t) ==
  LET e == f[t].e
      x == inode[e] IN
  /\ Looking(t) => f[t].key \in Named(t)
  /\ AtEntry(t) => e \in Entries
  /\ pc[t] = "empty_wait" => f[t].empty \in Entries /\ Free(inode[f[t].empty])
  /\ Keeping(t) => f[t].empty \in Entries /\ Fresh(inode[f[t].empty])
  /\ InPut(t) => f[t].back \in {"idle", "put_super"} \/ Crossing(t)
  /\ WithKey(t) => x.key # NoKey
  /\ Crossing(t) => x.count > 1 /\ ~x.lock /\ sb.imount = e /\ sb.dev = OtherDev
  /\ pc[t] = "cross" => sb.dev = OtherDev
  /\ pc[t] = "read" => x.lock /\ ~x.dirt /\ x.count = 1
  /\ pc[t] = "mount" => sb.dev = OtherDev /\ ~sb.lock
  /\ pc[t] = "write" => ~x.lock /\ x.dirt /\ f[t].ret \in {"repeat", "sync"}
  /\ pc[t] = "write_io" => x.lock /\ x.key = f[t].block /\ f[t].ret \in {"repeat", "sync"}
  /\ pc[t] = "truncate" => x.count = 1 /\ x.c.nlinks = 0
  /\ pc[t] = "super_io" => sb.lock /\ sb.dev = OtherDev /\ sb.imount = NULL
  /\ pc[t] = "super_freed" => sb.lock /\ sb.dev = 0
  /\ Unmounts(t) => sb.imount # NULL /\ ~sb.lock /\ (InPut(t) => e = sb.imount)
EveryTask == \A t \in Tasks : Task(t)

(* One task reads or writes an entry, or holds the super block's lock. *)
InIO(t) == pc[t] \in {"read", "write_io"}
InSuper(t) == pc[t] \in {"super_io", "super_freed"}
OneIO == \A t, u \in Tasks : InIO(t) /\ InIO(u) /\ f[t].e = f[u].e => t = u
OneInSuper == \A t, u \in Tasks : InSuper(t) /\ InSuper(u) => t = u
Super == sb.dev = 0 => sb.imount = NULL

Reading(e) == \E t \in Tasks : pc[t] = "read" /\ f[t].e = e
Plain(x) ==
  /\ x.key = NoKey => ~x.dirt /\ ~x.lock /\ ~x.mount
  /\ x.count = 0 => ~x.dirt /\ ~x.lock
  /\ x.key[1] = ROOT_DEV => x.key[2] \in imap
Entry(e) ==
  /\ Plain(inode[e])
  /\ inode[e].mount <=> Mounted(e)
  /\ inode[e].key # NoKey /\ ~Reading(e) => inode[e].c = latest[inode[e].key]
EveryEntry == \A e \in Entries : Entry(e)

IInv ==
  /\ Types /\ Running /\ Names /\ EveryTask /\ OneIO /\ OneInSuper /\ Super /\ EveryEntry
  /\ OneInodePerNumber /\ CountIsUsers /\ NoLostInode
-----------------------------------------------------------------------------
(* Keys, types and counting. *)
LEMMA KeyFacts ==
  /\ NoKey \notin Keys /\ Roots \subseteq Keys
  /\ \A k \in AllKeys : (k # NoKey <=> k \in Keys) /\ (k[1] = ROOT_DEV => k = <<ROOT_DEV, k[2]>> /\ k[2] \in Nums)
  /\ \A k \in AllKeys : k[1] = OtherDev => k = <<OtherDev, ROOT_INO>>
  /\ \A k \in AllKeys : k[1] = 0 <=> k = NoKey
  /\ \A k \in AllKeys : k[1] \in {0, ROOT_DEV, OtherDev}
  /\ \A n \in Nums : <<ROOT_DEV, n>> \in Keys
<1>1. /\ NoKey \notin Keys /\ Roots \subseteq Keys
      /\ \A n \in Nums : <<ROOT_DEV, n>> \in Keys
  BY Constants DEF Keys, NoKey, Roots, ROOT_DEV, OtherDev, ROOT_INO
<1>2. ASSUME NEW k \in AllKeys
      PROVE  /\ k # NoKey <=> k \in Keys
             /\ k[1] = ROOT_DEV => k = <<ROOT_DEV, k[2]>> /\ k[2] \in Nums
             /\ k[1] = OtherDev => k = <<OtherDev, ROOT_INO>>
             /\ k[1] = 0 <=> k = NoKey
             /\ k[1] \in {0, ROOT_DEV, OtherDev}
  <2>1. CASE k = NoKey
    BY <2>1, <1>1 DEF NoKey, ROOT_DEV, OtherDev
  <2>2. CASE k = <<OtherDev, ROOT_INO>>
    BY <2>2 DEF Keys, NoKey, ROOT_DEV, OtherDev
  <2>3. CASE k \in {ROOT_DEV} \X Nums
    BY <2>3 DEF Keys, NoKey, ROOT_DEV, OtherDev
  <2> QED BY <2>1, <2>2, <2>3 DEF AllKeys, Keys
<1> QED BY <1>1, <1>2

LEMMA NULLFacts == NULL \notin Tasks /\ NULL \notin Entries
BY Constants

(* Only t is elsewhere after the step. *)
Moved(t, w, fr) ==
  /\ pc' \in [Tasks -> Places] /\ f' \in [Tasks -> Frames] /\ cpu' \in {t, NULL}
  /\ \A u \in Tasks : u # t => pc'[u] = pc[u] /\ f'[u] = f[u]
  /\ pc'[t] = w /\ f'[t] = fr

LEMMA GotoMoves ==
  ASSUME Types, NEW t \in Tasks, NEW w \in Places, NEW fr \in Frames, Goto(t, w, fr)
  PROVE  Moved(t, w, fr) /\ cpu' = t
BY DEF Types, Goto, Moved

LEMMA YieldMoves ==
  ASSUME Types, NEW t \in Tasks, NEW w \in Places, NEW fr \in Frames, Yield(t, w, fr)
  PROVE  Moved(t, w, fr) /\ cpu' = NULL
BY DEF Types, Yield, Moved

LEMMA FrameFields ==
  ASSUME NEW fr \in Frames
  PROVE  /\ fr.op \in {"", "lookup", "create", "mount", "umount", "sync"}
         /\ fr.key \in AllKeys /\ fr.empty \in Entries \cup {NULL} /\ fr.e \in Entries \cup {NULL}
         /\ fr.ret \in {"", "repeat", "sync"} /\ fr.back \in {"", "idle", "cross", "put_super"}
         /\ fr.left \in SUBSET Entries /\ fr.block \in AllKeys
BY DEF Frames

LEMMA NoFrameIs == NoFrame \in Frames
BY DEF NoFrame, Frames, AllKeys

(* inode_table with one entry changed. *)
LEMMA OneEntry ==
  ASSUME Types, NEW e \in Entries, NEW x \in EntryType, inode' = [inode EXCEPT ![e] = x]
  PROVE  /\ inode' \in [Entries -> EntryType] /\ inode'[e] = x
         /\ \A g \in Entries : g # e => inode'[g] = inode[g]
BY DEF Types

B(p) == IF p THEN 1 ELSE 0

(* A set that gains or loses at most one element. *)
LEMMA OneMore ==
  ASSUME NEW S \in SUBSET Tasks, NEW R \in SUBSET Tasks, NEW t \in Tasks,
         \A u \in Tasks : u # t => (u \in S <=> u \in R)
  PROVE  /\ Cardinality(S) \in Nat /\ Cardinality(R) \in Nat
         /\ Cardinality(R) + B(t \in S) = Cardinality(S) + B(t \in R)
<1> DEFINE T == S \ {t}
<1>1. IsFiniteSet(Tasks)
  BY Constants
<1>2. IsFiniteSet(T) /\ IsFiniteSet(S) /\ IsFiniteSet(R)
  BY <1>1, FS_Subset
<1>3. Cardinality(T) \in Nat /\ Cardinality(S) \in Nat /\ Cardinality(R) \in Nat
  BY <1>2, FS_CardinalityType
<1>4. Cardinality(T \cup {t}) = Cardinality(T) + 1
  BY <1>2, FS_AddElement
<1>5. S = (IF t \in S THEN T \cup {t} ELSE T)
  OBVIOUS
<1>6. R = (IF t \in R THEN T \cup {t} ELSE T)
  OBVIOUS
<1>7. Cardinality(S) = Cardinality(T) + B(t \in S)
  <2>1. CASE t \in S
    <3>1. S = T \cup {t}
      BY <2>1
    <3> QED BY <3>1, <2>1, <1>4 DEF B
  <2>2. CASE t \notin S
    <3>1. S = T
      BY <2>2
    <3> HIDE DEF T
    <3> QED BY <3>1, <2>2, <1>3 DEF B
  <2> QED BY <2>1, <2>2
<1>8. Cardinality(R) = Cardinality(T) + B(t \in R)
  <2>1. CASE t \in R
    <3>1. R = T \cup {t}
      BY <2>1, <1>6
    <3> QED BY <3>1, <2>1, <1>4 DEF B
  <2>2. CASE t \notin R
    <3>1. R = T
      BY <2>2, <1>6
    <3> HIDE DEF T
    <3> QED BY <3>1, <2>2, <1>3 DEF B
  <2> QED BY <2>1, <2>2
<1>9. B(t \in S) \in Nat /\ B(t \in R) \in Nat
  BY DEF B
<1> HIDE DEF T
<1> QED BY <1>3, <1>7, <1>8, <1>9

LEMMA AtLeastOne ==
  ASSUME NEW S \in SUBSET Tasks, NEW t \in S
  PROVE  Cardinality(S) \in Nat /\ Cardinality(S) >= 1
<1>1. IsFiniteSet(S)
  BY Constants, FS_Subset
<1>2. Cardinality(S) \in Nat /\ Cardinality(S) # 0
  BY <1>1, FS_CardinalityType, FS_EmptySet
<1> QED BY <1>2

LEMMA AtLeastTwo ==
  ASSUME NEW S \in SUBSET Tasks, NEW t \in S, NEW u \in S, t # u
  PROVE  Cardinality(S) \in Nat /\ Cardinality(S) >= 2
<1>1. IsFiniteSet(S) /\ {t, u} \subseteq S /\ IsFiniteSet({t, u})
  BY Constants, FS_Subset
<1>2. Cardinality({t, u}) =< Cardinality(S) /\ Cardinality(S) \in Nat
  BY <1>1, FS_Subset, FS_CardinalityType
<1>3. Cardinality({t, u}) = 2
  <2>1. IsFiniteSet({t}) /\ Cardinality({t}) = 1
    BY FS_Singleton
  <2>2. Cardinality({t} \cup {u}) = 2
    BY <2>1, FS_AddElement
  <2>3. {t} \cup {u} = {t, u}
    OBVIOUS
  <2> QED BY <2>2, <2>3
<1> HIDE DEF Constants
<1> QED BY <1>2, <1>3
-----------------------------------------------------------------------------
(* Users of an entry. *)
Holders(e) == {t \in Tasks : HasInode(t, e)}
Keepers(e) == {t \in Tasks : HasEmpty(t, e)}
Count(e) == Cardinality(Holders(e)) + Cardinality(Keepers(e)) + B(Mounted(e))
UsedBy(t, e) == HasInode(t, e) \/ HasEmpty(t, e)

LEMMA CountIs ==
  CountIsUsers <=> \A e \in Entries : inode[e].count = Count(e)
BY DEF CountIsUsers, Count, Holders, Keepers, B

LEMMA CountParts ==
  ASSUME NEW e
  PROVE  /\ Cardinality(Holders(e)) \in Nat /\ Cardinality(Keepers(e)) \in Nat
         /\ B(Mounted(e)) \in Nat /\ (Mounted(e) => B(Mounted(e)) = 1)
         /\ Count(e) \in Nat
<1>1. IsFiniteSet(Holders(e)) /\ IsFiniteSet(Keepers(e))
  BY Constants, FS_Subset DEF Holders, Keepers
<1>2. Cardinality(Holders(e)) \in Nat /\ Cardinality(Keepers(e)) \in Nat
  BY <1>1, FS_CardinalityType
<1>3. B(Mounted(e)) \in Nat /\ (Mounted(e) => B(Mounted(e)) = 1)
  BY DEF B
<1> QED BY <1>2, <1>3 DEF Count

LEMMA Counted ==
  ASSUME CountIsUsers, NEW e \in Entries, NEW t \in Tasks, UsedBy(t, e)
  PROVE  inode[e].count >= 1
<1>1. inode[e].count = Count(e)
  BY CountIs
<1>2. CASE HasInode(t, e)
  <2>1. Cardinality(Holders(e)) >= 1
    BY <1>2, AtLeastOne DEF Holders
  <2> QED BY <1>1, <2>1, CountParts DEF Count
<1>3. CASE HasEmpty(t, e)
  <2>1. Cardinality(Keepers(e)) >= 1
    BY <1>3, AtLeastOne DEF Keepers
  <2> QED BY <1>1, <2>1, CountParts DEF Count
<1> QED BY <1>2, <1>3 DEF UsedBy

LEMMA MountedCounted ==
  ASSUME CountIsUsers, NEW e \in Entries, Mounted(e)
  PROVE  inode[e].count >= 1
<1> DEFINE h == Cardinality(Holders(e))
           k == Cardinality(Keepers(e))
<1>1. h \in Nat /\ k \in Nat /\ B(Mounted(e)) = 1
  BY CountParts
<1>2. inode[e].count = h + k + 1
  BY <1>1, CountIs DEF Count
<1> HIDE DEF h, k
<1> QED BY <1>1, <1>2

LEMMA NoUser ==
  ASSUME CountIsUsers, NEW e \in Entries, inode[e].count = 0
  PROVE  ~Mounted(e) /\ \A t \in Tasks : ~UsedBy(t, e)
<1>1. inode[e].count = Count(e)
  BY CountIs
<1>2. ~Mounted(e)
  BY <1>1, CountParts DEF Count
<1>3. \A t \in Tasks : ~UsedBy(t, e)
  BY Counted
<1> QED BY <1>2, <1>3

LEMMA SoleUser ==
  ASSUME CountIsUsers, NEW e \in Entries, inode[e].count = 1, NEW t \in Tasks, UsedBy(t, e)
  PROVE  ~Mounted(e) /\ \A u \in Tasks : u # t => ~UsedBy(u, e)
<1>1. inode[e].count = Count(e)
  BY CountIs
<1>2. HasInode(t, e) => Cardinality(Holders(e)) >= 1
  BY AtLeastOne DEF Holders
<1>3. HasEmpty(t, e) => Cardinality(Keepers(e)) >= 1
  BY AtLeastOne DEF Keepers
<1>4. ~Mounted(e)
  BY <1>1, <1>2, <1>3, CountParts DEF Count, UsedBy
<1>5. ASSUME NEW u \in Tasks, u # t, UsedBy(u, e)
      PROVE  FALSE
  <2>1. HasInode(u, e) => Cardinality(Holders(e)) >= 1
    BY AtLeastOne DEF Holders
  <2>2. HasEmpty(u, e) => Cardinality(Keepers(e)) >= 1
    BY AtLeastOne DEF Keepers
  <2>3. HasInode(t, e) /\ HasInode(u, e) => Cardinality(Holders(e)) >= 2
    BY <1>5, AtLeastTwo DEF Holders
  <2>4. HasEmpty(t, e) /\ HasEmpty(u, e) => Cardinality(Keepers(e)) >= 2
    BY <1>5, AtLeastTwo DEF Keepers
  <2> QED BY <1>1, <1>2, <1>3, <1>5, <2>1, <2>2, <2>3, <2>4, CountParts DEF Count, UsedBy
<1> QED BY <1>4, <1>5

(* A step of t that changes the uses of t and the counts alike. *)
LEMMA CountsKept ==
  ASSUME Types, CountIsUsers, NEW t \in Tasks, NEW w, NEW fr, Moved(t, w, fr),
         inode' \in [Entries -> EntryType],
         \A e \in Entries :
           inode'[e].count + B(HasInode(t, e)) + B(HasEmpty(t, e)) + B(Mounted(e))
           = inode[e].count + B(HasInode(t, e)') + B(HasEmpty(t, e)') + B(Mounted(e)')
  PROVE  CountIsUsers'
<1> SUFFICES ASSUME NEW e \in Entries
             PROVE  inode'[e].count = Count(e)'
  BY DEF CountIsUsers, Count, Holders, Keepers, B
<1> DEFINE S == Holders(e)
           R == {u \in Tasks : HasInode(u, e)'}
           P == Keepers(e)
           Q == {u \in Tasks : HasEmpty(u, e)'}
<1>1. inode[e].count = Count(e)
  BY CountIs
<1>2. \A u \in Tasks : u # t => (u \in S <=> u \in R) /\ (u \in P <=> u \in Q)
  BY DEF Moved, Holders, Keepers, HasInode, HasEmpty, InPut
<1>3. S \in SUBSET Tasks /\ R \in SUBSET Tasks /\ P \in SUBSET Tasks /\ Q \in SUBSET Tasks
  BY DEF Holders, Keepers
<1>4. /\ t \in S <=> HasInode(t, e)
      /\ t \in R <=> HasInode(t, e)'
      /\ t \in P <=> HasEmpty(t, e)
      /\ t \in Q <=> HasEmpty(t, e)'
  BY DEF Holders, Keepers
<1>5. Count(e)' = Cardinality(R) + Cardinality(Q) + B(Mounted(e)')
  BY DEF Count, Holders, Keepers
<1>6. Count(e) = Cardinality(S) + Cardinality(P) + B(Mounted(e))
  BY DEF Count
<1> HIDE DEF S, R, P, Q
<1>7. /\ Cardinality(S) \in Nat /\ Cardinality(R) \in Nat
      /\ Cardinality(R) + B(t \in S) = Cardinality(S) + B(t \in R)
  BY <1>2, <1>3, OneMore
<1>8. /\ Cardinality(P) \in Nat /\ Cardinality(Q) \in Nat
      /\ Cardinality(Q) + B(t \in P) = Cardinality(P) + B(t \in Q)
  BY <1>2, <1>3, OneMore
<1>9. /\ B(HasInode(t, e)) = B(t \in S) /\ B(HasInode(t, e)') = B(t \in R)
      /\ B(HasEmpty(t, e)) = B(t \in P) /\ B(HasEmpty(t, e)') = B(t \in Q)
  BY <1>4 DEF B
<1>10. /\ B(t \in S) \in Nat /\ B(t \in R) \in Nat /\ B(t \in P) \in Nat /\ B(t \in Q) \in Nat
       /\ B(Mounted(e)) \in Nat /\ B(Mounted(e)') \in Nat
  BY DEF B
<1>11. inode'[e].count \in Nat /\ inode[e].count \in Nat
  BY DEF Types, EntryType
<1> QED BY <1>1, <1>5, <1>6, <1>7, <1>8, <1>9, <1>10, <1>11

LEMMA MountedKept ==
  ASSUME NEW t \in Tasks, NEW w, NEW fr, Moved(t, w, fr), sb'.imount = sb.imount,
         Unmounts(t)' <=> Unmounts(t)
  PROVE  \A e : Mounted(e)' <=> Mounted(e)
<1>1. \A u \in Tasks : Unmounts(u)' <=> Unmounts(u)
  BY DEF Moved, Unmounts, InPut
<1> QED BY <1>1 DEF Mounted

(* Nobody uses another entry after the step than before. *)
SameUses(t) ==
  /\ \A e \in Entries : (HasInode(t, e)' <=> HasInode(t, e)) /\ (HasEmpty(t, e)' <=> HasEmpty(t, e))
  /\ Unmounts(t)' <=> Unmounts(t)

LEMMA CountsSame ==
  ASSUME Types, CountIsUsers, NEW t \in Tasks, NEW w, NEW fr, Moved(t, w, fr), SameUses(t),
         sb'.imount = sb.imount, inode' \in [Entries -> EntryType],
         \A e \in Entries : inode'[e].count = inode[e].count
  PROVE  CountIsUsers' /\ \A e : Mounted(e)' <=> Mounted(e)
<1>1. \A e : Mounted(e)' <=> Mounted(e)
  BY MountedKept DEF SameUses
<1>2. \A e \in Entries : /\ B(HasInode(t, e)) = B(HasInode(t, e)')
                         /\ B(HasEmpty(t, e)) = B(HasEmpty(t, e)')
                         /\ B(Mounted(e)) = B(Mounted(e)')
  BY <1>1 DEF SameUses, B
<1> QED BY <1>1, <1>2, CountsKept
-----------------------------------------------------------------------------
(* What a step of t leaves true of the other tasks. *)
Turn(t) == cpu \in {t, NULL}

LEMMA OthersCool ==
  ASSUME Running, NEW t \in Tasks, Turn(t), NEW u \in Tasks, u # t
  PROVE  ~Hot(u)
BY NULLFacts DEF Running, Turn

LEMMA RunningKept ==
  ASSUME Running, NEW t \in Tasks, Turn(t), NEW w, NEW fr, Moved(t, w, fr), Hot(t)' => cpu' = t
  PROVE  Running'
<1> SUFFICES ASSUME NEW u \in Tasks, Hot(u)'
             PROVE  cpu' = u
  BY DEF Running
<1>1. CASE u = t
  BY <1>1
<1>2. CASE u # t
  <2>1. Hot(u)' <=> Hot(u)
    BY <1>2 DEF Moved, Hot, Crossing
  <2> QED BY <1>2, <2>1, OthersCool
<1> QED BY <1>1, <1>2

LEMMA OneIOKept ==
  ASSUME OneIO, NEW t \in Tasks, NEW w, NEW fr, Moved(t, w, fr),
         InIO(t)' => \A u \in Tasks : u # t /\ InIO(u) => f[u].e # fr.e
  PROVE  OneIO'
<1>1. \A u \in Tasks : u # t => (InIO(u)' <=> InIO(u)) /\ f'[u] = f[u]
  BY DEF Moved, InIO
<1>2. f'[t] = fr
  BY DEF Moved
<1> QED BY <1>1, <1>2 DEF OneIO

LEMMA OneInSuperKept ==
  ASSUME OneInSuper, NEW t \in Tasks, NEW w, NEW fr, Moved(t, w, fr),
         InSuper(t)' => \A u \in Tasks : u # t => ~InSuper(u)
  PROVE  OneInSuper'
<1>1. \A u \in Tasks : u # t => (InSuper(u)' <=> InSuper(u))
  BY DEF Moved, InSuper
<1> QED BY <1>1 DEF OneInSuper

(* The change of entry e is none to what u relies on. *)
Harmless(u, e) ==
  /\ HasEmpty(u, e) => Fresh(inode'[e])
  /\ HasInode(u, e) /\ inode[e].key # NoKey => inode'[e].key # NoKey
  /\ pc[u] = "read" /\ f[u].e = e =>
       /\ inode'[e].lock = inode[e].lock
       /\ inode'[e].dirt = inode[e].dirt
       /\ inode'[e].count = inode[e].count
  /\ pc[u] = "write_io" /\ f[u].e = e =>
       inode'[e].lock = inode[e].lock /\ inode'[e].key = inode[e].key
  /\ pc[u] = "truncate" /\ f[u].e = e =>
       inode'[e].count = inode[e].count /\ inode'[e].c = inode[e].c

LEMMA OthersKept ==
  ASSUME Running, EveryTask, NEW t \in Tasks, Turn(t), NEW w, NEW fr, Moved(t, w, fr),
         NEW u \in Tasks, u # t,
         \A e \in Entries : inode'[e] = inode[e] \/ Harmless(u, e),
         Named(u) \subseteq Named(u)',
         InSuper(u) \/ Unmounts(u) => sb' = sb
  PROVE  Task(u)'
<1>1. ~Hot(u) /\ Task(u) /\ pc'[u] = pc[u] /\ f'[u] = f[u]
  BY OthersCool DEF EveryTask, Moved
<1> DEFINE e == f[u].e
           x == inode[e]
           y == inode'[e]
<1>2. ~Crossing(u) /\ pc[u] \notin {"empty", "empty_wait", "scan", "cross", "bit", "mount", "write", "put_super"}
  BY <1>1 DEF Hot
<1>3. (Looking(u)' <=> pc[u] = "found") /\ (Looking(u) <=> pc[u] = "found")
  BY <1>1, <1>2 DEF Looking, Crossing
<1>4. Looking(u)' => f'[u].key \in Named(u)'
  BY <1>1, <1>3 DEF Task
<1>5. /\ ~Crossing(u)' /\ (Keeping(u)' <=> Keeping(u)) /\ (InPut(u)' <=> InPut(u))
      /\ (WithKey(u)' <=> WithKey(u)) /\ (Unmounts(u)' <=> Unmounts(u)) /\ (AtEntry(u)' <=> AtEntry(u))
  BY <1>1, <1>2 DEF Crossing, Keeping, InPut, WithKey, Unmounts, AtEntry
<1>6. AtEntry(u)' => f'[u].e \in Entries
  BY <1>1, <1>5 DEF Task
<1>7. Keeping(u)' => f'[u].empty \in Entries /\ Fresh(inode'[f'[u].empty])
  <2> SUFFICES ASSUME Keeping(u)
               PROVE  f[u].empty \in Entries /\ Fresh(inode'[f[u].empty])
    BY <1>1, <1>5
  <2>1. f[u].empty \in Entries /\ Fresh(inode[f[u].empty])
    BY <1>1 DEF Task
  <2>2. HasEmpty(u, f[u].empty)
    BY <1>2 DEF Keeping, HasEmpty
  <2> QED BY <2>1, <2>2 DEF Harmless
<1>8. InPut(u)' => f'[u].back \in {"idle", "put_super"} \/ Crossing(u)'
  BY <1>1, <1>2, <1>5 DEF Task
<1>9. WithKey(u)' => inode'[f'[u].e].key # NoKey
  <2> SUFFICES ASSUME WithKey(u)
               PROVE  y.key # NoKey
    BY <1>1, <1>5
  <2>1. e \in Entries /\ x.key # NoKey
    BY <1>1, <1>2 DEF Task, WithKey, AtEntry, InPut
  <2>2. HasInode(u, e)
    BY <1>2 DEF WithKey, HasInode
  <2> QED BY <2>1, <2>2 DEF Harmless
<1>10. AtEntry(u) => y = x \/ Harmless(u, e)
  BY <1>1 DEF Task
<1>11. pc[u] \in {"read", "write_io", "truncate"} => AtEntry(u)
  BY DEF AtEntry
<1>12. pc[u] = "read" => y.lock /\ ~y.dirt /\ y.count = 1
  BY <1>1, <1>10, <1>11 DEF Task, Harmless
<1>13. pc[u] = "write_io" => y.lock /\ y.key = f[u].block /\ f[u].ret \in {"repeat", "sync"}
  BY <1>1, <1>10, <1>11 DEF Task, Harmless
<1>14. pc[u] = "truncate" => y.count = 1 /\ y.c.nlinks = 0
  BY <1>1, <1>10, <1>11 DEF Task, Harmless
<1>15. /\ pc[u] = "super_io" => sb'.lock /\ sb'.dev = OtherDev /\ sb'.imount = NULL
       /\ pc[u] = "super_freed" => sb'.lock /\ sb'.dev = 0
       /\ Unmounts(u) => sb'.imount # NULL /\ ~sb'.lock /\ (InPut(u) => e = sb'.imount)
  BY <1>1 DEF Task, InSuper
<1> HIDE DEF x, y
<1>16. y = inode'[f'[u].e]
  BY <1>1 DEF y
<1> QED BY <1>1, <1>2, <1>4, <1>5, <1>6, <1>7, <1>8, <1>9, <1>12, <1>13, <1>14, <1>15, <1>16
        DEF Task

LEMMA AtKeyed ==
  ASSUME EveryTask, NEW e \in Entries, inode[e].key # NoKey, NEW u \in Tasks
  PROVE  ~HasEmpty(u, e)
BY DEF EveryTask, Task, HasEmpty, Keeping, Crossing, Fresh

LEMMA AtUnlocked ==
  ASSUME EveryTask, NEW e \in Entries, ~inode[e].lock, NEW u \in Tasks, InIO(u)
  PROVE  f[u].e # e
BY DEF EveryTask, Task, InIO

(* Readers and truncaters have their entry. *)
LEMMA HasIt ==
  ASSUME NEW u \in Tasks, pc[u] \in {"read", "truncate"}
  PROVE  HasInode(u, f[u].e)
BY DEF HasInode, InPut

(* What a step of t leaves true of an entry. *)
LEMMA EntryKept ==
  ASSUME NEW t \in Tasks, NEW w, NEW fr, Moved(t, w, fr), NEW e \in Entries, Entry(e),
         inode'[e].key = inode[e].key, inode'[e].c = inode[e].c,
         Plain(inode[e])', inode'[e].mount <=> Mounted(e)',
         pc[t] = "read" => f[t].e # e,
         inode[e].key # NoKey => latest'[inode[e].key] = latest[inode[e].key]
  PROVE  Entry(e)'
<1>1. Reading(e) => Reading(e)'
  BY DEF Reading, Moved
<1> QED BY <1>1 DEF Entry

LEMMA OneKept ==
  ASSUME OneInodePerNumber, \A e \in Entries : inode'[e].key = inode[e].key
  PROVE  OneInodePerNumber'
BY DEF OneInodePerNumber

LEMMA NoLostKept ==
  ASSUME NoLostInode, UNCHANGED <<disk, latest, imap>>,
         \A e \in Entries : inode[e].key # NoKey /\ inode[e].dirt =>
           inode'[e].key = inode[e].key /\ inode'[e].dirt /\ inode'[e].c = inode[e].c
  PROVE  NoLostInode'
<1> SUFFICES ASSUME NEW k \in Keys, disk[k] # latest[k], ~(k[1] = ROOT_DEV /\ k[2] \notin imap)
             PROVE  \E e \in Entries : inode'[e].key = k /\ inode'[e].dirt /\ inode'[e].c = latest[k]
  BY DEF NoLostInode
<1>1. PICK e \in Entries : inode[e].key = k /\ inode[e].dirt /\ inode[e].c = latest[k]
  BY DEF NoLostInode
<1> QED BY <1>1, KeyFacts

LEMMA Combined ==
  ASSUME IInv, NEW t \in Tasks, Turn(t), NEW w, NEW fr, Moved(t, w, fr),
         Types', Names', Super', EveryEntry', OneInodePerNumber', CountIsUsers', NoLostInode',
         Hot(t)' => cpu' = t,
         Task(t)',
         InIO(t)' => \A u \in Tasks : u # t /\ InIO(u) => f[u].e # fr.e,
         InSuper(t)' => \A u \in Tasks : u # t => ~InSuper(u),
         \A u \in Tasks, e \in Entries : u # t => inode'[e] = inode[e] \/ Harmless(u, e),
         \A u \in Tasks : u # t => Named(u) \subseteq Named(u)',
         \A u \in Tasks : u # t /\ (InSuper(u) \/ Unmounts(u)) => sb' = sb
  PROVE  IInv'
<1>1. Running' /\ OneIO' /\ OneInSuper'
  BY RunningKept, OneIOKept, OneInSuperKept DEF IInv
<1>2. ASSUME NEW u \in Tasks
      PROVE  Task(u)'
  <2>1. CASE u = t
    BY <2>1
  <2>2. CASE u # t
    BY <2>2, OthersKept DEF IInv
  <2> QED BY <2>1, <2>2
<1> QED BY <1>1, <1>2 DEF IInv, EveryTask

LEMMA NamedKept ==
  ASSUME UNCHANGED <<imap, latest>>, NEW u
  PROVE  Named(u) \subseteq Named(u)'
BY DEF Named

(* A step that only moves t. *)
LEMMA Still ==
  ASSUME IInv, NEW t \in Tasks, Turn(t), NEW w, NEW fr, Moved(t, w, fr), UNCHANGED kernel,
         Hot(t)' => cpu' = t, Task(t)', SameUses(t), pc[t] # "read", ~InIO(t)', ~InSuper(t)'
  PROVE  IInv'
<1>1. UNCHANGED <<inode, imap, disk, latest, sb>>
  BY DEF kernel
<1>2. Types'
  BY <1>1 DEF IInv, Types, Moved
<1>3. Names' /\ Super' /\ OneInodePerNumber' /\ NoLostInode'
  BY <1>1 DEF IInv, Names, Super, OneInodePerNumber, NoLostInode
<1>4. CountIsUsers' /\ \A e : Mounted(e)' <=> Mounted(e)
  BY <1>1, CountsSame DEF IInv, Types
<1>5. ASSUME NEW e \in Entries
      PROVE  Entry(e)'
  <2>1. Entry(e) /\ Plain(inode[e]) /\ (inode[e].mount <=> Mounted(e))
    BY DEF IInv, EveryEntry, Entry
  <2>2. Plain(inode[e])'
    BY <2>1, <1>1 DEF Plain
  <2> QED BY <2>1, <2>2, <1>1, <1>4, EntryKept
<1>6. \A u \in Tasks : Named(u) \subseteq Named(u)'
  BY <1>1, NamedKept
<1>7. EveryEntry'
  BY <1>5 DEF EveryEntry
<1> QED BY <1>1, <1>2, <1>3, <1>4, <1>6, <1>7, Combined

LEMMA Stopped ==
  ASSUME IInv, UNCHANGED <<kernel, pc, f, cpu>>
  PROVE  IInv'
<1>1. /\ UNCHANGED <<inode, imap, disk, latest, sb, pc, f, cpu>>
  BY DEF kernel
<1>2. Types' /\ Running' /\ Names' /\ OneIO' /\ OneInSuper' /\ Super'
  BY <1>1 DEF IInv, Types, Running, Hot, Crossing, Names, OneIO, OneInSuper, Super, InIO, InSuper
<1>3. EveryTask'
  BY <1>1 DEF IInv, EveryTask, Task, Looking, Named, AtEntry, Keeping, Crossing, InPut, WithKey,
              Unmounts
<1>4. EveryEntry'
  BY <1>1 DEF IInv, EveryEntry, Entry, Plain, Mounted, Unmounts, InPut, Reading
<1>5. OneInodePerNumber' /\ NoLostInode'
  BY <1>1 DEF IInv, OneInodePerNumber, NoLostInode
<1>6. CountIsUsers'
  BY <1>1 DEF IInv, CountIsUsers, HasInode, HasEmpty, InPut, Mounted, Unmounts
<1> QED BY <1>2, <1>3, <1>4, <1>5, <1>6 DEF IInv

LEMMA AtTurn ==
  ASSUME NEW t \in Tasks, NEW w, At(t, w)
  PROVE  Turn(t) /\ pc[t] = w
BY DEF At, Turn

LEMMA TaskTyped ==
  ASSUME IInv, NEW t \in Tasks
  PROVE  /\ f[t] \in Frames /\ pc[t] \in Places /\ Task(t)
         /\ f[t].op \in {"", "lookup", "create", "mount", "umount", "sync"}
         /\ f[t].key \in AllKeys /\ f[t].empty \in Entries \cup {NULL} /\ f[t].e \in Entries \cup {NULL}
         /\ f[t].ret \in {"", "repeat", "sync"} /\ f[t].back \in {"", "idle", "cross", "put_super"}
         /\ f[t].left \in SUBSET Entries /\ f[t].block \in AllKeys
<1>1. f[t] \in Frames /\ pc[t] \in Places /\ Task(t)
  BY DEF IInv, Types, EveryTask
<1> QED BY <1>1, FrameFields

LEMMA EntryTyped ==
  ASSUME IInv, NEW e \in Entries
  PROVE  /\ inode[e] \in EntryType /\ Entry(e) /\ Plain(inode[e])
         /\ inode[e].key \in AllKeys /\ inode[e].count \in Nat /\ inode[e].c \in Contents
         /\ inode[e].dirt \in BOOLEAN /\ inode[e].lock \in BOOLEAN /\ inode[e].mount \in BOOLEAN
         /\ (inode[e].key # NoKey <=> inode[e].key \in Keys)
<1>1. inode[e] \in EntryType /\ Entry(e) /\ Plain(inode[e])
  BY DEF IInv, Types, EveryEntry, Entry
<1>2. inode[e].key \in AllKeys
  BY <1>1 DEF EntryType
<1> QED BY <1>1, <1>2, KeyFacts DEF EntryType

LEMMA StillGoto ==
  ASSUME IInv, NEW t \in Tasks, Turn(t), NEW w \in Places, NEW fr \in Frames,
         Goto(t, w, fr), UNCHANGED kernel, Task(t)', SameUses(t), pc[t] # "read",
         w \notin {"read", "write_io", "super_io", "super_freed"}
  PROVE  IInv'
<1>1. Moved(t, w, fr) /\ cpu' = t
  BY GotoMoves DEF IInv
<1>2. ~InIO(t)' /\ ~InSuper(t)'
  BY <1>1 DEF InIO, InSuper, Moved
<1> QED BY <1>1, <1>2, Still

LEMMA StillYield ==
  ASSUME IInv, NEW t \in Tasks, Turn(t), NEW w \in Places, NEW fr \in Frames,
         Yield(t, w, fr), UNCHANGED kernel, Task(t)', SameUses(t), pc[t] # "read",
         w \in {"idle", "truncate", "sync", "synced"}
  PROVE  IInv'
<1>1. Moved(t, w, fr)
  BY YieldMoves DEF IInv
<1>2. ~InIO(t)' /\ ~InSuper(t)' /\ ~Hot(t)'
  BY <1>1 DEF InIO, InSuper, Hot, Crossing, Moved
<1> QED BY <1>1, <1>2, Still

(* A task at one of these places relies on nothing. *)
LEMMA TaskIdle ==
  ASSUME NEW t \in Tasks, NEW w \in {"idle", "synced", "umount"}, NEW fr, Moved(t, w, fr)
  PROVE  Task(t)' /\ ~Unmounts(t)' /\ ~Hot(t)' /\ ~InIO(t)' /\ ~InSuper(t)'
         /\ \A e : ~HasInode(t, e)' /\ ~HasEmpty(t, e)'
BY DEF Moved, Task, Looking, AtEntry, Keeping, Crossing, InPut, WithKey, Unmounts, Hot,
       HasInode, HasEmpty, InIO, InSuper

LEMMA SleepStep ==
  ASSUME IInv, NEW t \in Tasks, Sleep(t)
  PROVE  IInv'
<1>1. UNCHANGED <<inode, imap, disk, sb, latest, pc, f>> /\ cpu' = NULL /\ cpu = t
  BY DEF Sleep, kernel
<1>2. ~Hot(t)
  <2>2. CASE AwaitsSuper(t) /\ sb.lock
    BY <2>2, TaskTyped DEF AwaitsSuper, Hot, Crossing, Task, Unmounts
  <2>3. CASE Awaited(t) # NULL /\ inode[Awaited(t)].lock
    BY <2>3, TaskTyped DEF Awaited, Hot, Crossing, Task, Free
  <2> QED BY <2>2, <2>3 DEF Sleep
<1>3. Running'
  <2>1. \A u \in Tasks : u # t => ~Hot(u)
    BY <1>1, OthersCool DEF IInv, Turn
  <2>2. \A u \in Tasks : Hot(u)' <=> Hot(u)
    BY <1>1 DEF Hot, Crossing
  <2> QED BY <1>2, <2>1, <2>2 DEF Running
<1>4. Types' /\ Names' /\ OneIO' /\ OneInSuper' /\ Super'
  BY <1>1 DEF IInv, Types, Names, OneIO, OneInSuper, Super, InIO, InSuper
<1>5. EveryTask'
  BY <1>1 DEF IInv, EveryTask, Task, Looking, Named, AtEntry, Keeping, Crossing, InPut, WithKey,
              Unmounts
<1>6. EveryEntry'
  BY <1>1 DEF IInv, EveryEntry, Entry, Plain, Mounted, Unmounts, InPut, Reading
<1>7. OneInodePerNumber' /\ NoLostInode'
  BY <1>1 DEF IInv, OneInodePerNumber, NoLostInode
<1>8. CountIsUsers'
  BY <1>1 DEF IInv, CountIsUsers, HasInode, HasEmpty, InPut, Mounted, Unmounts
<1> QED BY <1>3, <1>4, <1>5, <1>6, <1>7, <1>8 DEF IInv

LEMMA PanicStep ==
  ASSUME IInv, Panic
  PROVE  IInv'
BY Stopped DEF Panic

LEMMA GetEmptyStep ==
  ASSUME IInv, NEW t \in Tasks, GetEmpty(t)
  PROVE  IInv'
<1>1. Turn(t) /\ pc[t] = "empty"
  BY AtTurn DEF GetEmpty
<1>2. CASE Panic
  BY <1>2, PanicStep
<1>3. CASE /\ \E e \in (IF Clean # {} THEN Clean ELSE Unused) :
                Goto(t, "empty_wait", [f[t] EXCEPT !.empty = e])
           /\ UNCHANGED kernel
  <2>1. PICK e \in Unused : Goto(t, "empty_wait", [f[t] EXCEPT !.empty = e])
    BY <1>3 DEF Clean
  <2> DEFINE fr == [f[t] EXCEPT !.empty = e]
  <2>2. e \in Entries /\ Free(inode[e])
    BY EntryTyped DEF Unused, Free, Plain
  <2>3. fr \in Frames /\ fr.empty = e /\ fr.op = f[t].op /\ fr.key = f[t].key
    BY <2>2, TaskTyped DEF Frames
  <2> HIDE DEF fr
  <2>4. Moved(t, "empty_wait", fr)
    BY <2>1, <2>3, GotoMoves DEF IInv, Places, fr
  <2>5. inode' = inode /\ Named(t) \subseteq Named(t)'
    BY <1>3, NamedKept DEF kernel
  <2>6. pc'[t] = "empty_wait" /\ f'[t] = fr
    BY <2>4 DEF Moved
  <2>7. Looking(t) <=> f[t].op # "create"
    BY <1>1 DEF Looking, Crossing
  <2>8. Task(t)'
    BY <2>2, <2>3, <2>5, <2>6, <2>7, <1>1, TaskTyped
       DEF Task, Looking, AtEntry, Keeping, Crossing, InPut, WithKey, Unmounts
  <2>9. SameUses(t)
    BY <1>1, <2>6 DEF SameUses, HasInode, HasEmpty, Unmounts, InPut
  <2> QED BY <1>1, <1>3, <2>1, <2>3, <2>8, <2>9, StillGoto DEF Places, fr
<1> QED BY <1>2, <1>3 DEF GetEmpty

(* Entries are changed, the maps of numbers and contents are not. *)
LEMMA EntriesKept ==
  ASSUME IInv, NEW t \in Tasks, NEW w, NEW fr, Moved(t, w, fr), UNCHANGED <<imap, latest>>,
         NEW D \in SUBSET Entries, \A g \in Entries : g \notin D => inode'[g] = inode[g],
         \A g \in Entries : g \notin D => (Mounted(g)' <=> Mounted(g)),
         pc[t] = "read" => f[t].e \in D, \A g \in D : Entry(g)'
  PROVE  EveryEntry'
<1> SUFFICES ASSUME NEW g \in Entries
             PROVE  Entry(g)'
  BY DEF EveryEntry
<1>1. CASE g \in D
  BY <1>1
<1>2. CASE g \notin D
  <2>1. Entry(g) /\ Plain(inode[g]) /\ (inode[g].mount <=> Mounted(g))
    BY DEF IInv, EveryEntry, Entry
  <2>2. inode'[g] = inode[g] /\ (Mounted(g)' <=> Mounted(g))
    BY <1>2
  <2>3. Plain(inode[g])'
    BY <2>1, <2>2 DEF Plain
  <2> QED BY <1>2, <2>1, <2>2, <2>3, EntryKept
<1> QED BY <1>1, <1>2

LEMMA HarmlessAway ==
  ASSUME NEW u \in Tasks, NEW e \in Entries, ~UsedBy(u, e), pc[u] = "write_io" => f[u].e # e
  PROVE  Harmless(u, e)
BY HasIt DEF Harmless, UsedBy

(* An entry nobody uses and nobody writes is nothing to the other tasks. *)
LEMMA HarmlessUnlocked ==
  ASSUME IInv, NEW e \in Entries, ~inode[e].lock, NEW u \in Tasks, ~UsedBy(u, e)
  PROVE  Harmless(u, e)
BY AtUnlocked, HarmlessAway DEF IInv, InIO

LEMMA SameNames ==
  ASSUME IInv, UNCHANGED <<imap, latest>>
  PROVE  Names' /\ \A u \in Tasks : Named(u) \subseteq Named(u)'
<1>1. Names'
  BY DEF IInv, Names
<1> QED BY <1>1, NamedKept

(* A step of t that changes the entries of D, and at most the disk. *)
LEMMA EntriesStep ==
  ASSUME IInv, NEW t \in Tasks, Turn(t), NEW w, NEW fr, Moved(t, w, fr),
         UNCHANGED <<imap, latest, sb>>, disk' = disk \/ disk' \in [Keys -> Contents],
         NEW D \in SUBSET Entries, inode' \in [Entries -> EntryType],
         \A g \in Entries : g \notin D => inode'[g] = inode[g],
         \A u \in Tasks, e \in D : u # t => Harmless(u, e),
         Unmounts(t)' <=> Unmounts(t),
         \A g \in Entries : inode'[g].count + B(HasInode(t, g)) + B(HasEmpty(t, g))
                            = inode[g].count + B(HasInode(t, g)') + B(HasEmpty(t, g)'),
         \A e \in D : /\ Plain(inode[e])'
                      /\ inode'[e].mount <=> inode[e].mount
                      /\ inode'[e].key # NoKey /\ ~Reading(e)' => inode'[e].c = latest[inode'[e].key],
         pc[t] = "read" => f[t].e \in D,
         OneInodePerNumber', NoLostInode',
         Hot(t)' => cpu' = t, Task(t)',
         InIO(t)' => \A u \in Tasks : u # t /\ InIO(u) => f[u].e # fr.e,
         ~InSuper(t)'
  PROVE  IInv'
<1>1. \A g : Mounted(g)' <=> Mounted(g)
  BY MountedKept
<1>2. Types' /\ Super' /\ Names' /\ \A u \in Tasks : Named(u) \subseteq Named(u)'
  <2>1. Types' /\ Super'
    BY DEF IInv, Types, Moved, Super
  <2> QED BY <2>1, SameNames
<1>3. CountIsUsers'
  <2>1. ASSUME NEW g \in Entries
        PROVE  inode'[g].count + B(HasInode(t, g)) + B(HasEmpty(t, g)) + B(Mounted(g))
               = inode[g].count + B(HasInode(t, g)') + B(HasEmpty(t, g)') + B(Mounted(g)')
    <3>1. B(Mounted(g)') = B(Mounted(g)) /\ B(Mounted(g)) \in Nat
      BY <1>1 DEF B
    <3>2. /\ B(HasInode(t, g)) \in Nat /\ B(HasEmpty(t, g)) \in Nat
          /\ B(HasInode(t, g)') \in Nat /\ B(HasEmpty(t, g)') \in Nat
      BY DEF B
    <3>3. inode'[g].count \in Nat /\ inode[g].count \in Nat
      BY DEF IInv, Types, EntryType
    <3>4. inode'[g].count + B(HasInode(t, g)) + B(HasEmpty(t, g))
          = inode[g].count + B(HasInode(t, g)') + B(HasEmpty(t, g)')
      OBVIOUS
    <3> QED BY <3>1, <3>2, <3>3, <3>4
  <2> QED BY <2>1, CountsKept DEF IInv
<1>4. ASSUME NEW e \in D
      PROVE  Entry(e)'
  <2>1. inode[e].mount <=> Mounted(e)
    BY EntryTyped DEF Entry
  <2> QED BY <1>1, <2>1 DEF Entry
<1>5. EveryEntry'
  BY <1>1, <1>4, EntriesKept
<1>6. \A u \in Tasks, g \in Entries : u # t => inode'[g] = inode[g] \/ Harmless(u, g)
  OBVIOUS
<1> QED BY <1>2, <1>3, <1>5, <1>6, Combined

(* ... and one that changes the entry e. *)
LEMMA EntryStep ==
  ASSUME IInv, NEW t \in Tasks, Turn(t), NEW w, NEW fr, Moved(t, w, fr),
         UNCHANGED <<imap, latest, sb>>, disk' = disk \/ disk' \in [Keys -> Contents],
         NEW e \in Entries, inode' \in [Entries -> EntryType],
         \A g \in Entries : g # e => inode'[g] = inode[g],
         \A u \in Tasks : u # t => Harmless(u, e),
         Unmounts(t)' <=> Unmounts(t),
         \A g \in Entries : inode'[g].count + B(HasInode(t, g)) + B(HasEmpty(t, g))
                            = inode[g].count + B(HasInode(t, g)') + B(HasEmpty(t, g)'),
         Plain(inode[e])', inode'[e].mount <=> inode[e].mount,
         inode'[e].key # NoKey /\ ~Reading(e)' => inode'[e].c = latest[inode'[e].key],
         pc[t] = "read" => f[t].e = e,
         OneInodePerNumber', NoLostInode',
         Hot(t)' => cpu' = t, Task(t)',
         InIO(t)' => \A u \in Tasks : u # t /\ InIO(u) => f[u].e # fr.e,
         ~InSuper(t)'
  PROVE  IInv'
<1> DEFINE D == {e}
<1>1. D \in SUBSET Entries /\ \A g : g \in D <=> g = e
  OBVIOUS
<1> HIDE DEF D
<1>2. \A g \in D : /\ Plain(inode[g])'
                   /\ inode'[g].mount <=> inode[g].mount
                   /\ inode'[g].key # NoKey /\ ~Reading(g)' => inode'[g].c = latest[inode'[g].key]
  BY <1>1
<1>3. /\ \A g \in Entries : g \notin D => inode'[g] = inode[g]
      /\ \A u \in Tasks, g \in D : u # t => Harmless(u, g)
      /\ pc[t] = "read" => f[t].e \in D
  BY <1>1
<1> QED BY <1>1, <1>2, <1>3, EntriesStep

LEMMA BlankTyped ==
  /\ Blank \in EntryType /\ Blank.key = NoKey /\ Blank.count = 0
  /\ ~Blank.dirt /\ ~Blank.lock /\ ~Blank.mount
<1> DEFINE c == [data |-> FALSE, nlinks |-> 0]
<1>1. c \in Contents
  BY DEF Contents
<1>2. Blank = [key |-> NoKey, count |-> 0, dirt |-> FALSE, lock |-> FALSE, mount |-> FALSE, c |-> c]
  BY DEF Blank
<1> HIDE DEF c
<1> QED BY <1>1, <1>2 DEF EntryType, AllKeys

LEMMA EmptyWaitStep ==
  ASSUME IInv, NEW t \in Tasks, EmptyWait(t)
  PROVE  IInv'
<1>1. Turn(t) /\ pc[t] = "empty_wait"
  BY AtTurn DEF EmptyWait
<1>0. PICK e \in Entries : e = f[t].empty
  BY <1>1, TaskTyped DEF Task
<1> DEFINE x == [Blank EXCEPT !.count = 1]
           w == IF f[t].op = "create" THEN "bit" ELSE "scan"
           fr == f[t]
<1>2. Free(inode[e]) /\ fr \in Frames
  BY <1>0, <1>1, TaskTyped DEF Task
<1>3. /\ inode' = [inode EXCEPT ![e] = x] /\ Goto(t, w, fr)
      /\ UNCHANGED <<imap, disk, sb, latest>>
  BY <1>0, <1>2, EntryTyped DEF EmptyWait, Free
<1>4. x \in EntryType /\ Fresh(x) /\ ~x.mount /\ x.key = NoKey /\ x.count = 1 /\ ~x.lock /\ ~x.dirt
  BY BlankTyped DEF EntryType, Fresh
<1>5. w \in {"bit", "scan"} /\ w \in Places /\ (w = "scan" => f[t].op # "create")
  BY DEF Places
<1> HIDE DEF x, w, fr
<1>6. /\ inode' \in [Entries -> EntryType] /\ inode'[e] = x
      /\ \A g \in Entries : g # e => inode'[g] = inode[g]
  BY <1>2, <1>3, <1>4, OneEntry DEF IInv
<1>7. Moved(t, w, fr) /\ cpu' = t
  BY <1>2, <1>3, <1>5, GotoMoves DEF IInv
<1>8. pc'[t] = w /\ f'[t] = f[t]
  BY <1>7 DEF Moved, fr
<1>9. ~Mounted(e) /\ \A u \in Tasks : ~UsedBy(u, e)
  BY <1>2, NoUser DEF IInv, Free
<1>10. \A u \in Tasks : u # t => Harmless(u, e)
  BY <1>2, <1>9, HarmlessUnlocked DEF Free
<1>11. ~Unmounts(t) /\ ~Unmounts(t)' /\ ~InIO(t)' /\ ~InSuper(t)'
  BY <1>1, <1>5, <1>8 DEF Unmounts, InPut, InIO, InSuper
<1>12. ASSUME NEW g \in Entries
       PROVE  inode'[g].count + B(HasInode(t, g)) + B(HasEmpty(t, g))
              = inode[g].count + B(HasInode(t, g)') + B(HasEmpty(t, g)')
  <2>1. /\ ~HasInode(t, g) /\ ~HasEmpty(t, g) /\ ~HasInode(t, g)' /\ (HasEmpty(t, g)' <=> g = e)
    BY <1>0, <1>1, <1>5, <1>8 DEF HasInode, HasEmpty, InPut
  <2>2. inode[g].count \in Nat
    BY EntryTyped
  <2>3. /\ B(HasInode(t, g)) = 0 /\ B(HasEmpty(t, g)) = 0 /\ B(HasInode(t, g)') = 0
        /\ B(HasEmpty(t, g)') = (IF g = e THEN 1 ELSE 0)
    BY <2>1 DEF B
  <2>4. g = e => inode'[g].count = 1 /\ inode[g].count = 0
    BY <1>2, <1>4, <1>6 DEF Free
  <2> QED BY <1>6, <2>2, <2>3, <2>4
<1>13. Plain(inode[e])'
  BY <1>4, <1>6 DEF Plain, NoKey, ROOT_DEV
<1>14. inode'[e].mount <=> inode[e].mount
  BY <1>2, <1>4, <1>6, <1>9, EntryTyped DEF Entry
<1>15. OneInodePerNumber'
  BY <1>4, <1>6 DEF IInv, OneInodePerNumber
<1>16. NoLostInode'
  <2>1. \A g \in Entries : inode[g].key # NoKey /\ inode[g].dirt => inode'[g] = inode[g]
    BY <1>2, <1>6 DEF Free
  <2> QED BY <1>3, <2>1, NoLostKept DEF IInv
<1>17. Named(t) \subseteq Named(t)'
  BY <1>3, NamedKept
<1>18. Task(t)'
  <2>1. Looking(t)' => f'[t].key \in Named(t)'
    BY <1>1, <1>5, <1>8, <1>17, TaskTyped DEF Task, Looking, Crossing
  <2>2. f'[t].empty \in Entries /\ Fresh(inode[f[t].empty])'
    BY <1>0, <1>4, <1>6, <1>8
  <2> QED BY <1>5, <1>8, <2>1, <2>2
          DEF Task, AtEntry, Keeping, Crossing, InPut, WithKey, Unmounts
<1> QED BY <1>1, <1>2, <1>3, <1>4, <1>6, <1>7, <1>10, <1>11, <1>12, <1>13, <1>14, <1>15, <1>16, <1>18,
          EntryStep

(* A new look into the table, and what a mounted device is entered by. *)
LEMMA CrossStep ==
  ASSUME IInv, NEW t \in Tasks, Cross(t)
  PROVE  IInv'
<1> DEFINE fr == [f[t] EXCEPT !.key = <<sb.dev, ROOT_INO>>]
<1>1. Turn(t) /\ pc[t] = "cross"
  BY AtTurn DEF Cross
<1>2. Goto(t, "scan", fr) /\ UNCHANGED kernel
  BY DEF Cross
<1>3. sb.dev = OtherDev /\ f[t].empty \in Entries /\ Fresh(inode[f[t].empty])
  BY <1>1, TaskTyped DEF Task, Keeping
<1>4. <<OtherDev, ROOT_INO>> \in Roots /\ <<OtherDev, ROOT_INO>> \in AllKeys
  BY DEF Roots, AllKeys, Keys
<1>5. fr \in Frames /\ fr.key = <<OtherDev, ROOT_INO>> /\ fr.empty = f[t].empty /\ fr.e = f[t].e
  BY <1>3, <1>4, TaskTyped DEF Frames
<1> HIDE DEF fr
<1>6. Moved(t, "scan", fr) /\ cpu' = t
  BY <1>2, <1>5, GotoMoves DEF IInv, Places
<1>7. pc'[t] = "scan" /\ f'[t] = fr /\ inode' = inode
  BY <1>2, <1>6 DEF Moved, kernel
<1>8. Task(t)'
  BY <1>3, <1>4, <1>5, <1>7
     DEF Task, Looking, AtEntry, Keeping, Crossing, InPut, WithKey, Unmounts, Named
<1>9. SameUses(t)
  BY <1>1, <1>5, <1>7 DEF SameUses, HasInode, HasEmpty, Unmounts, InPut
<1> QED BY <1>1, <1>2, <1>5, <1>8, <1>9, StillGoto DEF Places

LEMMA ScanStep ==
  ASSUME IInv, NEW t \in Tasks, Scan(t)
  PROVE  IInv'
<1> DEFINE k == f[t].key
<1>1. Turn(t) /\ pc[t] = "scan"
  BY AtTurn DEF Scan
<1>0. PICK e \in Entries : e = f[t].empty
  BY <1>1, TaskTyped DEF Task, Keeping
<1>2. Fresh(inode[e]) /\ k \in Named(t)
  BY <1>0, <1>1, TaskTyped DEF Task, Keeping, Looking
<1>3. k \in Keys /\ k # NoKey /\ k \in AllKeys
  <2>1. \A n \in Private[t] : n \in Nums
    BY Constants
  <2> QED BY <1>2, <2>1, KeyFacts DEF Named, AllKeys
<1>4. CASE \E g \in InTable(k) : Goto(t, "found", [f[t] EXCEPT !.e = g]) /\ UNCHANGED kernel
  <2>1. PICK g \in Entries : Goto(t, "found", [f[t] EXCEPT !.e = g]) /\ UNCHANGED kernel
    BY <1>4 DEF InTable
  <2> DEFINE fr == [f[t] EXCEPT !.e = g]
  <2>2. fr \in Frames /\ fr.key = k /\ fr.empty = e /\ fr.e = g
    BY <1>0, TaskTyped DEF Frames
  <2> HIDE DEF fr
  <2>3. Moved(t, "found", fr) /\ cpu' = t
    BY <2>1, <2>2, GotoMoves DEF IInv, Places, fr
  <2>4. pc'[t] = "found" /\ f'[t] = fr /\ inode' = inode /\ Named(t) \subseteq Named(t)'
    BY <2>1, <2>3, NamedKept DEF Moved, kernel
  <2>5. Task(t)'
    BY <1>2, <2>2, <2>4 DEF Task, Looking, AtEntry, Keeping, Crossing, InPut, WithKey, Unmounts
  <2>6. SameUses(t)
    BY <1>0, <1>1, <2>2, <2>4 DEF SameUses, HasInode, HasEmpty, Unmounts, InPut
  <2> QED BY <1>1, <2>1, <2>2, <2>5, <2>6, StillGoto DEF Places, fr
<1>5. CASE /\ InTable(k) = {} /\ get_super(k[1])
           /\ inode' = [inode EXCEPT ![e].key = k, ![e].lock = TRUE]
           /\ Yield(t, "read", [f[t] EXCEPT !.e = e, !.empty = NULL])
           /\ UNCHANGED <<imap, disk, sb, latest>>
  <2> DEFINE fr == [f[t] EXCEPT !.e = e, !.empty = NULL]
             x == [inode[e] EXCEPT !.key = k, !.lock = TRUE]
  <2>1. fr \in Frames /\ fr.e = e /\ fr.empty = NULL
    BY <1>2, TaskTyped DEF Frames
  <2>2. x \in EntryType /\ x.key = k /\ x.lock /\ ~x.dirt /\ x.count = 1 /\ x.mount = inode[e].mount
    BY <1>2, <1>3, EntryTyped DEF EntryType, Fresh
  <2>3. inode' = [inode EXCEPT ![e] = x]
    BY <1>2, <1>5 DEF IInv, Types
  <2> HIDE DEF fr, x
  <2>4. /\ inode' \in [Entries -> EntryType] /\ inode'[e] = x
        /\ \A g \in Entries : g # e => inode'[g] = inode[g]
    BY <1>2, <2>2, <2>3, OneEntry DEF IInv
  <2>5. Moved(t, "read", fr)
    BY <1>5, <2>1, YieldMoves DEF IInv, Places, fr
  <2>6. pc'[t] = "read" /\ f'[t] = fr
    BY <2>5 DEF Moved
  <2>7. UsedBy(t, e) /\ inode[e].count = 1 /\ ~inode[e].lock /\ inode[e].key = NoKey
    BY <1>0, <1>1, <1>2 DEF UsedBy, HasEmpty, Fresh
  <2>8. \A u \in Tasks : u # t => Harmless(u, e)
    BY <1>2, <2>7, SoleUser, HarmlessUnlocked DEF IInv
  <2>9. ~Unmounts(t) /\ ~Unmounts(t)' /\ ~InSuper(t)' /\ ~Hot(t)'
    BY <1>1, <2>6 DEF Unmounts, InPut, InSuper, Hot, Crossing
  <2>10. ASSUME NEW g \in Entries
         PROVE  inode'[g].count + B(HasInode(t, g)) + B(HasEmpty(t, g))
                = inode[g].count + B(HasInode(t, g)') + B(HasEmpty(t, g)')
    <3>1. /\ ~HasInode(t, g) /\ (HasEmpty(t, g) <=> g = e)
          /\ (HasInode(t, g)' <=> g = e) /\ ~HasEmpty(t, g)'
      BY <1>0, <1>1, <2>1, <2>6, NULLFacts DEF HasInode, HasEmpty, InPut
    <3>2. inode[g].count \in Nat /\ inode'[g].count = inode[g].count
      BY <2>2, <2>4, <2>7, EntryTyped
    <3> QED BY <3>1, <3>2 DEF B
  <2>11. Plain(inode[e])'
    <3>1. k[1] = ROOT_DEV => k[2] \in imap
      BY <1>2 DEF Named, Roots, ROOT_DEV, OtherDev, IInv, Names
    <3>2. inode'[e].key = k /\ inode'[e].count = 1 /\ imap' = imap
      BY <1>5, <2>2, <2>4
    <3> HIDE DEF k
    <3> QED BY <1>3, <3>1, <3>2 DEF Plain
  <2>12. Reading(e)'
    BY <2>1, <2>6 DEF Reading
  <2>13. OneInodePerNumber'
    <3>1. \A g \in Entries : inode[g].key # k
      BY <1>5 DEF InTable
    <3> QED BY <2>2, <2>4, <3>1 DEF IInv, OneInodePerNumber
  <2>14. NoLostInode'
    <3>1. \A g \in Entries : inode[g].key # NoKey /\ inode[g].dirt => inode'[g] = inode[g]
      BY <2>4, <2>7
    <3> QED BY <1>5, <3>1, NoLostKept DEF IInv
  <2>15. Task(t)'
    BY <1>2, <1>3, <2>1, <2>2, <2>4, <2>6
       DEF Task, Looking, AtEntry, Keeping, Crossing, InPut, WithKey, Unmounts
  <2>16. \A u \in Tasks : u # t /\ InIO(u) => f[u].e # fr.e
    BY <1>2, <2>1, <2>7, AtUnlocked DEF IInv
  <2> QED BY <1>1, <1>2, <1>5, <2>2, <2>4, <2>5, <2>8, <2>9, <2>10, <2>11, <2>12, <2>13, <2>14,
            <2>15, <2>16, EntryStep
<1>6. CASE Panic
  BY <1>6, PanicStep
<1> QED BY <1>0, <1>4, <1>5, <1>6 DEF Scan

(* The contents are the last ones where nobody reads them in. *)
LEMMA UnlockedIsLatest ==
  ASSUME IInv, NEW e \in Entries, ~inode[e].lock, inode[e].key # NoKey
  PROVE  inode[e].c = latest[inode[e].key]
<1>1. ~Reading(e)
  BY AtUnlocked DEF IInv, Reading, InIO
<1> QED BY <1>1, EntryTyped DEF Entry

(* What InPut(t) relies on is there wherever iput() goes on. *)
LEMMA StillInPut ==
  ASSUME IInv, NEW t \in Tasks, NEW w \in {"repeat", "write", "write_io", "truncate", "sync"}, NEW fr,
         Moved(t, w, fr), UNCHANGED sb,
         NEW e \in Entries, f[t].e = e, fr.e = e, fr.back = f[t].back,
         pc[t] \in {"put", "repeat", "write", "write_io", "sync"}, ~Crossing(t),
         InPut(t) <=> InPut(t)',
         inode[e].key # NoKey, inode'[e].key # NoKey,
         w = "write" => ~inode'[e].lock /\ inode'[e].dirt /\ fr.ret \in {"repeat", "sync"},
         w = "write_io" => inode'[e].lock /\ inode'[e].key = fr.block /\ fr.ret \in {"repeat", "sync"},
         w = "truncate" => inode'[e].count = 1 /\ inode'[e].c.nlinks = 0
  PROVE  /\ Task(t)' /\ (Unmounts(t)' <=> Unmounts(t)) /\ ~InSuper(t)'
         /\ \A g : (HasInode(t, g)' <=> HasInode(t, g)) /\ (HasEmpty(t, g)' <=> HasEmpty(t, g))
         /\ (InIO(t)' <=> w = "write_io") /\ (Hot(t)' <=> w = "write")
<1>1. pc'[t] = w /\ f'[t] = fr
  BY DEF Moved
<1>2. /\ InPut(t) => f[t].back \in {"idle", "put_super"}
      /\ Unmounts(t) => sb.imount # NULL /\ ~sb.lock /\ (InPut(t) => e = sb.imount)
  BY TaskTyped DEF Task
<1>3. Unmounts(t)' <=> Unmounts(t)
  BY <1>1 DEF Unmounts
<1>4. ~Looking(t)' /\ ~Keeping(t)' /\ ~Crossing(t)'
  BY <1>1 DEF Looking, Keeping, Crossing
<1>5. Task(t)'
  BY <1>1, <1>2, <1>3, <1>4 DEF Task
<1>6. \A g : (HasInode(t, g)' <=> HasInode(t, g)) /\ (HasEmpty(t, g)' <=> HasEmpty(t, g))
  BY <1>1, <1>2 DEF HasInode, HasEmpty, InPut, Crossing
<1>7. ~InSuper(t)' /\ (InIO(t)' <=> w = "write_io") /\ (Hot(t)' <=> w = "write")
  BY <1>1, <1>4 DEF InSuper, InIO, Hot
<1> QED BY <1>3, <1>5, <1>6, <1>7

LEMMA StartWriteStep ==
  ASSUME IInv, NEW t \in Tasks, StartWrite(t)
  PROVE  IInv'
<1>1. Turn(t) /\ pc[t] = "write"
  BY AtTurn DEF StartWrite
<1>2. PICK e \in Entries : e = f[t].e
  BY <1>1, TaskTyped DEF Task, AtEntry
<1>3. ~inode[e].lock /\ inode[e].dirt /\ f[t].ret \in {"repeat", "sync"}
  BY <1>1, <1>2, TaskTyped DEF Task
<1>4. inode[e].key # NoKey /\ inode[e].count # 0
  BY <1>3, EntryTyped DEF Plain
<1>5. CASE Panic
  BY <1>5, PanicStep
<1>6. CASE /\ inode' = [inode EXCEPT ![e].lock = TRUE]
           /\ Yield(t, "write_io", [f[t] EXCEPT !.block = inode[e].key])
           /\ UNCHANGED <<imap, disk, sb, latest>>
  <2> DEFINE fr == [f[t] EXCEPT !.block = inode[e].key]
             x == [inode[e] EXCEPT !.lock = TRUE]
  <2>1. /\ fr \in Frames /\ fr.e = e /\ fr.empty = f[t].empty /\ fr.block = inode[e].key
        /\ fr.ret = f[t].ret /\ fr.back = f[t].back
    BY <1>2, TaskTyped, EntryTyped DEF Frames
  <2>2. /\ x \in EntryType /\ x.key = inode[e].key /\ x.lock /\ x.dirt /\ x.count = inode[e].count
        /\ x.mount = inode[e].mount /\ x.c = inode[e].c
    BY <1>3, EntryTyped DEF EntryType
  <2>3. inode' = [inode EXCEPT ![e] = x]
    BY <1>6 DEF IInv, Types
  <2> HIDE DEF fr, x
  <2>4. /\ inode' \in [Entries -> EntryType] /\ inode'[e] = x
        /\ \A g \in Entries : g # e => inode'[g] = inode[g]
    BY <2>2, <2>3, OneEntry DEF IInv
  <2>5. Moved(t, "write_io", fr)
    BY <1>6, <2>1, YieldMoves DEF IInv, Places, fr
  <2>6. pc'[t] = "write_io" /\ f'[t] = fr
    BY <2>5 DEF Moved
  <2>7. \A u \in Tasks : InIO(u) => f[u].e # e
    BY <1>3, AtUnlocked DEF IInv
  <2>8. ASSUME NEW u \in Tasks
        PROVE  Harmless(u, e)
    <3>1. ~HasEmpty(u, e)
      BY <1>4, AtKeyed DEF IInv
    <3> QED BY <2>2, <2>4, <2>7, <3>1 DEF Harmless, InIO
  <2>9. SameUses(t) /\ ~InSuper(t)' /\ ~Hot(t)' /\ Task(t)'
    <3>1. InPut(t) <=> InPut(t)'
      BY <1>1, <2>1, <2>6 DEF InPut
    <3>2. ~Crossing(t)
      BY <1>1 DEF Crossing
    <3> QED BY SMTT(60), <1>1, <1>2, <1>3, <1>4, <1>6, <2>1, <2>2, <2>4, <2>5, <3>1, <3>2, StillInPut DEF SameUses
  <2>10. ASSUME NEW g \in Entries
         PROVE  inode'[g].count + B(HasInode(t, g)) + B(HasEmpty(t, g))
                = inode[g].count + B(HasInode(t, g)') + B(HasEmpty(t, g)')
    <3>1. inode'[g].count = inode[g].count
      BY <2>2, <2>4
    <3> QED BY <2>9, <3>1 DEF SameUses, B
  <2>11. Plain(inode[e])' /\ (inode'[e].mount <=> inode[e].mount)
    <3>1. Plain(inode[e])
      BY EntryTyped
    <3> QED BY <1>4, <1>6, <2>2, <2>4, <3>1 DEF Plain
  <2>12. inode'[e].c = latest[inode'[e].key]
    BY <1>3, <1>4, <2>2, <2>4, UnlockedIsLatest
  <2>13. OneInodePerNumber'
    BY <2>2, <2>4, OneKept DEF IInv
  <2>14. NoLostInode'
    BY <1>6, <2>2, <2>4, NoLostKept DEF IInv
  <2>15. \A u \in Tasks : u # t /\ InIO(u) => f[u].e # fr.e
    BY <2>1, <2>7
  <2>16. Unmounts(t)' <=> Unmounts(t)
    BY <2>9 DEF SameUses
  <2>17. /\ UNCHANGED <<imap, latest, sb>> /\ disk' = disk
         /\ pc[t] = "read" => f[t].e = e
    BY <1>1, <1>6
  <2> QED BY <1>1, <2>4, <2>5, <2>8, <2>9, <2>10, <2>11, <2>12, <2>13, <2>14, <2>15, <2>16, <2>17,
            EntryStep
<1> QED BY <1>2, <1>3, <1>4, <1>5, <1>6 DEF StartWrite

LEMMA EndWriteStep ==
  ASSUME IInv, NEW t \in Tasks, EndWrite(t)
  PROVE  IInv'
<1>1. Turn(t) /\ pc[t] = "write_io"
  BY AtTurn DEF EndWrite
<1>2. PICK e \in Entries : e = f[t].e
  BY <1>1, TaskTyped DEF Task, AtEntry
<1>3. inode[e].lock /\ inode[e].key = f[t].block /\ f[t].ret \in {"repeat", "sync"}
  BY <1>1, <1>2, TaskTyped DEF Task
<1>4. inode[e].key # NoKey /\ inode[e].count # 0 /\ inode[e].key \in Keys /\ inode[e].c \in Contents
  BY <1>3, EntryTyped DEF Plain
<1> DEFINE k == inode[e].key
           w == f[t].ret
           fr == [f[t] EXCEPT !.ret = "", !.block = NoKey]
           x == [inode[e] EXCEPT !.dirt = FALSE, !.lock = FALSE]
<1>5. /\ disk' = [l \in Keys |-> IF l = k THEN inode[e].c ELSE disk[l]]
      /\ Goto(t, w, fr) /\ UNCHANGED <<imap, sb, latest>>
  BY <1>2, <1>3 DEF EndWrite, Slot
<1>6. /\ fr \in Frames /\ fr.e = e /\ fr.empty = f[t].empty /\ fr.back = f[t].back
      /\ w \in Places /\ w \in {"repeat", "sync"}
  <2>1. NoKey \in AllKeys
    BY DEF AllKeys
  <2>2. fr \in Frames /\ fr.e = e /\ fr.empty = f[t].empty /\ fr.back = f[t].back
    BY <1>2, <2>1, TaskTyped DEF Frames
  <2> QED BY <1>3, <2>2 DEF Places
<1>7. /\ x \in EntryType /\ x.key = k /\ ~x.lock /\ ~x.dirt /\ x.count = inode[e].count
      /\ x.mount = inode[e].mount /\ x.c = inode[e].c
  BY EntryTyped DEF EntryType
<1>8. inode' = [inode EXCEPT ![e] = x]
  BY <1>2 DEF EndWrite, Written, IInv, Types
<1> HIDE DEF fr, x, w
<1>9. /\ inode' \in [Entries -> EntryType] /\ inode'[e] = x
      /\ \A g \in Entries : g # e => inode'[g] = inode[g]
  BY <1>7, <1>8, OneEntry DEF IInv
<1>10. Moved(t, w, fr) /\ cpu' = t
  BY <1>5, <1>6, GotoMoves DEF IInv
<1>11. pc'[t] = w /\ f'[t] = fr
  BY <1>10 DEF Moved
<1>12. \A u \in Tasks : u # t /\ InIO(u) => f[u].e # e
  BY <1>1, <1>2 DEF IInv, OneIO, InIO
<1>13. ASSUME NEW u \in Tasks, u # t
       PROVE  Harmless(u, e)
  <2>1. ~HasEmpty(u, e)
    BY <1>4, AtKeyed DEF IInv
  <2> QED BY <1>7, <1>9, <1>12, <1>13, <2>1 DEF Harmless, InIO
<1>14. SameUses(t) /\ ~InSuper(t)' /\ ~Hot(t)' /\ ~InIO(t)' /\ Task(t)'
  <2>1. InPut(t) <=> InPut(t)'
    BY <1>1, <1>6, <1>11 DEF InPut, w
  <2>2. ~Crossing(t)
    BY <1>1 DEF Crossing
  <2>3. inode'[e].key # NoKey
    BY <1>4, <1>7, <1>9
  <2> QED BY <1>1, <1>2, <1>4, <1>5, <1>6, <1>10, <2>1, <2>2, <2>3, StillInPut DEF SameUses
<1>15. ASSUME NEW g \in Entries
       PROVE  inode'[g].count + B(HasInode(t, g)) + B(HasEmpty(t, g))
              = inode[g].count + B(HasInode(t, g)') + B(HasEmpty(t, g)')
  <2>1. inode'[g].count = inode[g].count
    BY <1>7, <1>9
  <2> QED BY <1>14, <2>1 DEF SameUses, B
<1>16. Plain(inode[e])' /\ (inode'[e].mount <=> inode[e].mount)
  <2>1. Plain(inode[e])
    BY EntryTyped
  <2> QED BY <1>4, <1>5, <1>7, <1>9, <2>1 DEF Plain
<1>17. inode[e].c = latest[k]
  <2>1. ~Reading(e)
    BY <1>1, <1>12 DEF Reading, InIO
  <2> QED BY <1>4, <2>1, EntryTyped DEF Entry
<1>18. OneInodePerNumber'
  BY <1>7, <1>9, OneKept DEF IInv
<1>19. disk' \in [Keys -> Contents]
  BY <1>4, <1>5 DEF IInv, Types
<1>20. NoLostInode'
  <2> SUFFICES ASSUME NEW l \in Keys, disk'[l] # latest[l], ~(l[1] = ROOT_DEV /\ l[2] \notin imap)
               PROVE  \E g \in Entries : inode'[g].key = l /\ inode'[g].dirt /\ inode'[g].c = latest[l]
    BY <1>5 DEF NoLostInode
  <2>1. l # k /\ disk[l] # latest[l]
    BY <1>5, <1>17
  <2>2. PICK g \in Entries : inode[g].key = l /\ inode[g].dirt /\ inode[g].c = latest[l]
    BY <2>1 DEF IInv, NoLostInode
  <2>3. g # e
    BY <2>1, <2>2
  <2> QED BY <1>9, <2>2, <2>3
<1> QED BY <1>1, <1>5, <1>7, <1>9, <1>10, <1>13, <1>14, <1>15, <1>16, <1>17, <1>18, <1>19, <1>20,
          EntryStep DEF SameUses

LEMMA ReadStep ==
  ASSUME IInv, NEW t \in Tasks, Read(t)
  PROVE  IInv'
<1>1. Turn(t) /\ pc[t] = "read"
  BY AtTurn DEF Read
<1>2. PICK e \in Entries : e = f[t].e
  BY <1>1, TaskTyped DEF Task, AtEntry
<1> DEFINE k == inode[e].key
           fr == [NoFrame EXCEPT !.op = f[t].op, !.e = e]
           x == [inode[e] EXCEPT !.c = disk[k], !.lock = FALSE]
<1>3. inode[e].lock /\ ~inode[e].dirt /\ inode[e].count = 1 /\ k # NoKey /\ k \in Keys
  BY <1>1, <1>2, TaskTyped, EntryTyped DEF Task, WithKey
<1>4. Goto(t, "hold", fr) /\ UNCHANGED <<imap, disk, sb, latest>>
  BY <1>2 DEF Read, Hold
<1>5. fr \in Frames /\ fr.e = e
  BY TaskTyped, NoFrameIs DEF Frames
<1>6. disk[k] \in Contents
  BY <1>3 DEF IInv, Types
<1>7. /\ x \in EntryType /\ x.key = k /\ ~x.lock /\ ~x.dirt /\ x.count = 1
      /\ x.mount = inode[e].mount /\ x.c = disk[k]
  BY <1>3, <1>6, EntryTyped DEF EntryType
<1>8. inode' = [inode EXCEPT ![e] = x]
  BY <1>2 DEF Read, IInv, Types
<1> HIDE DEF fr, x
<1>9. /\ inode' \in [Entries -> EntryType] /\ inode'[e] = x
      /\ \A g \in Entries : g # e => inode'[g] = inode[g]
  BY <1>7, <1>8, OneEntry DEF IInv
<1>10. Moved(t, "hold", fr) /\ cpu' = t
  BY <1>4, <1>5, GotoMoves DEF IInv, Places
<1>11. pc'[t] = "hold" /\ f'[t] = fr
  BY <1>10 DEF Moved
<1>12. \A u \in Tasks : u # t /\ InIO(u) => f[u].e # e
  BY <1>1, <1>2 DEF IInv, OneIO, InIO
<1>13. ASSUME NEW u \in Tasks, u # t
       PROVE  Harmless(u, e)
  <2>1. UsedBy(t, e)
    BY <1>1, <1>2 DEF UsedBy, HasInode
  <2>2. ~UsedBy(u, e)
    BY <1>3, <1>13, <2>1, SoleUser DEF IInv
  <2> QED BY <1>12, <1>13, <2>2, HarmlessAway DEF InIO
<1>14. ~Unmounts(t) /\ ~Unmounts(t)' /\ ~InSuper(t)' /\ ~Hot(t)' /\ ~InIO(t)'
  BY <1>1, <1>11 DEF Unmounts, InPut, InSuper, InIO, Hot, Crossing
<1>15. ASSUME NEW g \in Entries
       PROVE  inode'[g].count + B(HasInode(t, g)) + B(HasEmpty(t, g))
              = inode[g].count + B(HasInode(t, g)') + B(HasEmpty(t, g)')
  <2>1. inode'[g].count = inode[g].count
    BY <1>3, <1>7, <1>9
  <2>2. (HasInode(t, g)' <=> HasInode(t, g)) /\ ~HasEmpty(t, g) /\ ~HasEmpty(t, g)'
    BY <1>1, <1>2, <1>5, <1>11 DEF HasInode, HasEmpty, InPut
  <2> QED BY <2>1, <2>2 DEF B
<1>16. Plain(inode[e])' /\ (inode'[e].mount <=> inode[e].mount)
  <2>1. Plain(inode[e])
    BY EntryTyped
  <2> QED BY <1>3, <1>4, <1>7, <1>9, <2>1 DEF Plain
<1>17. disk[k] = latest[k]
  <2>1. ~(k[1] = ROOT_DEV /\ k[2] \notin imap)
    BY EntryTyped DEF Plain
  <2>2. ~\E g \in Entries : inode[g].key = k /\ inode[g].dirt
    BY <1>3 DEF IInv, OneInodePerNumber
  <2> QED BY <1>3, <2>1, <2>2 DEF IInv, NoLostInode
<1>18. OneInodePerNumber'
  BY <1>7, <1>9, OneKept DEF IInv
<1>19. NoLostInode'
  <2>1. \A g \in Entries : inode[g].key # NoKey /\ inode[g].dirt => inode'[g] = inode[g]
    BY <1>3, <1>9
  <2> QED BY <1>4, <2>1, NoLostKept DEF IInv
<1>20. Task(t)'
  BY <1>3, <1>5, <1>7, <1>9, <1>11
     DEF Task, Looking, AtEntry, Keeping, Crossing, InPut, WithKey, Unmounts
<1>21. inode'[e].c = latest[inode'[e].key]
  BY <1>7, <1>9, <1>17
<1> QED BY <1>1, <1>2, <1>4, <1>9, <1>10, <1>13, <1>14, <1>15, <1>16, <1>18, <1>19, <1>20, <1>21,
          EntryStep

(* What is looked up is not being freed: it has a name. *)
LEMMA NamedHasLink ==
  ASSUME IInv, NEW t \in Tasks, NEW k \in Named(t)
  PROVE  k \in Keys /\ k # NoKey /\ latest[k].nlinks = 1 /\ (k[1] = ROOT_DEV => k[2] \in imap)
<1>1. \A n \in Private[t] : n \in Nums
  BY Constants
<1>2. k \in Keys /\ k # NoKey
  BY <1>1, KeyFacts DEF Named
<1>3. latest[k].nlinks = 1 /\ (k[1] = ROOT_DEV => k[2] \in imap)
  BY DEF Named, Roots, ROOT_DEV, OtherDev, IInv, Names
<1> QED BY <1>2, <1>3

LEMMA NotTruncated ==
  ASSUME IInv, NEW e \in Entries, ~inode[e].lock, NEW t \in Tasks, inode[e].key \in Named(t),
         NEW u \in Tasks, pc[u] = "truncate"
  PROVE  f[u].e # e
<1>1. inode[e].c = latest[inode[e].key] /\ latest[inode[e].key].nlinks = 1
  BY NamedHasLink, UnlockedIsLatest
<1>2. inode[f[u].e].c.nlinks = 0
  BY TaskTyped DEF Task
<1> QED BY <1>1, <1>2

(* Who has an inode shares it with neither a reader nor a truncater. *)
LEMMA SharedWith ==
  ASSUME IInv, NEW t \in Tasks, NEW e \in Entries, UsedBy(t, e), NEW u \in Tasks, u # t
  PROVE  ~HasEmpty(u, e) /\ (pc[u] \in {"read", "truncate"} => f[u].e # e)
<1>1. HasEmpty(u, e) \/ (pc[u] \in {"read", "truncate"} /\ f[u].e = e)
      => inode[e].count = 1 /\ UsedBy(u, e)
  <2>1. HasEmpty(u, e) => inode[e].count = 1
    <3>1. HasEmpty(u, e) => Keeping(u) /\ f[u].empty = e
      BY TaskTyped DEF Task, HasEmpty, Keeping
    <3>2. Keeping(u) => Fresh(inode[f[u].empty])
      BY TaskTyped DEF Task
    <3> QED BY <3>1, <3>2 DEF Fresh
  <2>2. pc[u] \in {"read", "truncate"} /\ f[u].e = e => inode[e].count = 1 /\ HasInode(u, e)
    BY TaskTyped, HasIt DEF Task
  <2> QED BY <2>1, <2>2 DEF UsedBy
<1>2. inode[e].count = 1 => ~UsedBy(u, e)
  BY SoleUser DEF IInv
<1> QED BY <1>1, <1>2

LEMMA FoundStep ==
  ASSUME IInv, NEW t \in Tasks, Found(t)
  PROVE  IInv'
<1>1. Turn(t) /\ pc[t] = "found"
  BY AtTurn DEF Found
<1>2. PICK e \in Entries : e = f[t].e
  BY <1>1, TaskTyped DEF Task, AtEntry
<1>3. PICK d \in Entries : d = f[t].empty
  BY <1>1, TaskTyped DEF Task, Keeping
<1> DEFINE k == f[t].key
<1>4. Fresh(inode[d]) /\ k \in Named(t) /\ k \in Keys /\ k # NoKey
  BY ZenonT(60), <1>1, <1>3, TaskTyped, NamedHasLink DEF Task, Keeping, Looking
<1>5. ~inode[e].lock /\ UNCHANGED <<imap, disk, sb, latest>>
  BY <1>2 DEF Found
<1>6. Named(t) \subseteq Named(t)'
  BY <1>5, NamedKept
<1>7. CASE ~StillIt(e, k) /\ Goto(t, "scan", f[t]) /\ UNCHANGED inode
  <2>1. f[t] \in Frames
    BY TaskTyped
  <2>2. Moved(t, "scan", f[t])
    BY <1>7, <2>1, GotoMoves DEF IInv, Places
  <2>3. pc'[t] = "scan" /\ f'[t] = f[t] /\ inode' = inode
    BY <1>7, <2>2 DEF Moved
  <2>4. Task(t)'
    BY <1>3, <1>4, <1>6, <2>3
       DEF Task, Looking, AtEntry, Keeping, Crossing, InPut, WithKey, Unmounts
  <2>5. SameUses(t)
    BY <1>1, <2>3 DEF SameUses, HasInode, HasEmpty, Unmounts, InPut
  <2>6. UNCHANGED kernel
    BY <1>5, <1>7 DEF kernel
  <2> QED BY <1>1, <1>7, <2>1, <2>4, <2>5, <2>6, StillGoto DEF Places
<1> DEFINE x == [inode[e] EXCEPT !.count = @ + 1]
           up == [inode EXCEPT ![e].count = @ + 1]
<1>8. ASSUME StillIt(e, k)
      PROVE  /\ inode[e].key = k /\ e # d
             /\ up = [inode EXCEPT ![e] = x] /\ x \in EntryType
             /\ x.key = k /\ x.count = inode[e].count + 1 /\ x.dirt = inode[e].dirt /\ ~x.lock
             /\ x.mount = inode[e].mount /\ x.c = inode[e].c /\ x.count # 0
  <2>1. inode[e].key = k /\ e # d
    BY <1>4, <1>8 DEF StillIt, Fresh
  <2>2. up = [inode EXCEPT ![e] = x]
    BY DEF IInv, Types
  <2> QED BY <1>5, <2>1, <2>2, EntryTyped DEF EntryType
<1>9. ASSUME StillIt(e, k), inode'[e] = x, NEW u \in Tasks
      PROVE  Harmless(u, e)
  <2>1. ~HasEmpty(u, e) /\ (InIO(u) => f[u].e # e) /\ (pc[u] = "truncate" => f[u].e # e)
    BY <1>4, <1>5, <1>8, <1>9, AtKeyed, AtUnlocked, NotTruncated DEF IInv
  <2> HIDE DEF x
  <2> QED BY <1>4, <1>8, <1>9, <2>1 DEF Harmless, InIO
<1>10. ASSUME StillIt(e, k), inode'[e] = x
       PROVE  /\ Plain(inode[e])' /\ (inode'[e].mount <=> inode[e].mount)
              /\ inode'[e].c = latest[inode'[e].key]
  <2>1. Plain(inode[e])
    BY EntryTyped
  <2> HIDE DEF x
  <2>2. Plain(inode[e])'
    BY <1>4, <1>5, <1>8, <1>10, <2>1 DEF Plain
  <2> QED BY <1>4, <1>5, <1>8, <1>10, <2>2, UnlockedIsLatest
<1>11. CASE /\ StillIt(e, k) /\ inode[e].mount /\ sb.imount = e
            /\ inode' = up
            /\ Goto(t, "put", [f[t] EXCEPT !.back = "cross"])
  <2> DEFINE fr == [f[t] EXCEPT !.back = "cross"]
  <2>1. fr \in Frames /\ fr.back = "cross" /\ fr.e = e /\ fr.empty = d /\ fr.key = k
    BY <1>2, <1>3, TaskTyped DEF Frames
  <2> HIDE DEF fr, x, up
  <2>2. /\ inode' \in [Entries -> EntryType] /\ inode'[e] = x
        /\ \A g \in Entries : g # e => inode'[g] = inode[g]
    BY <1>8, <1>11, OneEntry DEF IInv
  <2>3. Moved(t, "put", fr) /\ cpu' = t
    BY <1>11, <2>1, GotoMoves DEF IInv, Places, fr
  <2>4. pc'[t] = "put" /\ f'[t] = fr
    BY <2>3 DEF Moved
  <2>5. inode[e].count >= 1 /\ inode[e].count \in Nat
    <3>1. Mounted(e)
      BY <1>11, EntryTyped DEF Entry
    <3> QED BY <3>1, MountedCounted, EntryTyped DEF IInv
  <2>6. ~Unmounts(t) /\ ~Unmounts(t)' /\ ~InSuper(t)' /\ ~InIO(t)'
    BY <1>1, <2>1, <2>4 DEF Unmounts, InPut, InSuper, InIO
  <2>7. ASSUME NEW g \in Entries
        PROVE  inode'[g].count + B(HasInode(t, g)) + B(HasEmpty(t, g))
               = inode[g].count + B(HasInode(t, g)') + B(HasEmpty(t, g)')
    <3>1. ~HasInode(t, g) /\ (HasInode(t, g)' <=> g = e) /\ (HasEmpty(t, g)' <=> HasEmpty(t, g))
      BY <1>1, <1>3, <2>1, <2>4 DEF HasInode, HasEmpty, InPut
    <3>2. inode[g].count \in Nat /\ inode'[g].count = (IF g = e THEN inode[g].count + 1 ELSE inode[g].count)
      BY <1>8, <1>11, <2>2, EntryTyped
    <3> QED BY <3>1, <3>2 DEF B
  <2>8. OneInodePerNumber'
    BY <1>8, <1>11, <2>2, OneKept DEF IInv
  <2>9. NoLostInode'
    BY <1>5, <1>8, <1>11, <2>2, NoLostKept DEF IInv
  <2>10. sb.dev = OtherDev
    BY <1>11, NULLFacts DEF IInv, Super, Types
  <2>11. Task(t)'
    <3>1. inode'[e].key # NoKey /\ inode'[e].count > 1 /\ ~inode'[e].lock /\ Fresh(inode'[d])
      BY <1>4, <1>8, <1>11, <2>2, <2>5
    <3>2. sb'.imount = e /\ sb'.dev = OtherDev
      BY <1>5, <1>11, <2>10
    <3> QED BY <1>4, <1>6, <2>1, <2>4, <2>6, <3>1, <3>2
            DEF Task, Looking, AtEntry, Keeping, Crossing, WithKey
  <2> QED BY <1>1, <1>5, <1>9, <1>10, <1>11, <2>2, <2>3, <2>6, <2>7, <2>8, <2>9, <2>11, EntryStep
<1>12. CASE /\ StillIt(e, k)
            /\ inode' = [up EXCEPT ![d].count = @ - 1]
            /\ Hold(t, e)
  <2> DEFINE fr == [NoFrame EXCEPT !.op = f[t].op, !.e = e]
             y == [inode[d] EXCEPT !.count = @ - 1]
             D == {e, d}
  <2>1. fr \in Frames /\ fr.e = e
    BY TaskTyped, NoFrameIs DEF Frames
  <2>2. y \in EntryType /\ y.key = NoKey /\ y.count = 0 /\ ~y.lock /\ ~y.dirt /\ y.mount = inode[d].mount
    BY <1>4, EntryTyped DEF EntryType, Fresh
  <2>3. inode' = [[inode EXCEPT ![e] = x] EXCEPT ![d] = y]
    BY <1>8, <1>12 DEF IInv, Types
  <2>4. Goto(t, "hold", fr)
    BY <1>12 DEF Hold
  <2>5. \A g : g \in D <=> g = e \/ g = d
    OBVIOUS
  <2>6. D \in SUBSET Entries
    OBVIOUS
  <2> HIDE DEF fr, x, y, up, D
  <2>7. /\ inode' \in [Entries -> EntryType] /\ inode'[e] = x /\ inode'[d] = y
        /\ \A g \in Entries : g \notin D => inode'[g] = inode[g]
    BY <1>8, <1>12, <2>2, <2>3, <2>5 DEF IInv, Types
  <2>8. Moved(t, "hold", fr)
    BY <2>1, <2>4, GotoMoves DEF IInv, Places
  <2>9. pc'[t] = "hold" /\ f'[t] = fr
    BY <2>8 DEF Moved
  <2>10. UsedBy(t, d) /\ inode[d].count = 1 /\ ~inode[d].lock /\ inode[d].key = NoKey /\ ~inode[d].dirt
    BY <1>1, <1>3, <1>4 DEF UsedBy, HasEmpty, Fresh
  <2>11. \A u \in Tasks, g \in D : u # t => Harmless(u, g)
    <3>1. \A u \in Tasks : u # t => Harmless(u, d)
      BY <2>10, SoleUser, HarmlessUnlocked DEF IInv
    <3> QED BY <1>9, <1>12, <2>5, <2>7, <3>1
  <2>12. ~Unmounts(t) /\ ~Unmounts(t)' /\ ~InSuper(t)' /\ ~InIO(t)' /\ ~Hot(t)'
    BY <1>1, <2>9 DEF Unmounts, InPut, InSuper, InIO, Hot, Crossing
  <2>13. ASSUME NEW g \in Entries
         PROVE  inode'[g].count + B(HasInode(t, g)) + B(HasEmpty(t, g))
                = inode[g].count + B(HasInode(t, g)') + B(HasEmpty(t, g)')
    <3>1. ~HasInode(t, g) /\ (HasInode(t, g)' <=> g = e) /\ ~HasEmpty(t, g)' /\ (HasEmpty(t, g) <=> g = d)
      BY <1>1, <1>3, <2>1, <2>9 DEF HasInode, HasEmpty, InPut
    <3>2. inode[g].count \in Nat
      BY EntryTyped
    <3>3. /\ g = e => inode'[g].count = inode[g].count + 1
          /\ g = d => inode'[g].count = 0 /\ inode[g].count = 1
          /\ g # e /\ g # d => inode'[g].count = inode[g].count
      BY <1>8, <1>12, <2>2, <2>5, <2>7, <2>10
    <3> QED BY <1>8, <1>12, <3>1, <3>2, <3>3 DEF B
  <2>14. \A g \in D : /\ Plain(inode[g])'
                      /\ inode'[g].mount <=> inode[g].mount
                      /\ inode'[g].key # NoKey /\ ~Reading(g)' => inode'[g].c = latest[inode'[g].key]
    <3>1. Plain(inode[d])'
      <4>1. Plain(inode[d])
        BY EntryTyped
      <4> QED BY <2>2, <2>7, <2>10, <4>1, KeyFacts DEF Plain, NoKey, ROOT_DEV
    <3>2. /\ inode'[d].mount <=> inode[d].mount
          /\ inode'[d].key = NoKey
      BY <2>2, <2>7
    <3>3. /\ Plain(inode[e])' /\ (inode'[e].mount <=> inode[e].mount)
          /\ inode'[e].c = latest[inode'[e].key]
      BY <1>10, <1>12, <2>7
    <3> TAKE g \in D
    <3>4. CASE g = e
      BY <3>3, <3>4
    <3>5. CASE g = d
      BY <3>1, <3>2, <3>5
    <3> QED BY <2>5, <3>4, <3>5
  <2>15. OneInodePerNumber'
    BY <1>8, <1>12, <2>2, <2>5, <2>7, <2>10, OneKept DEF IInv
  <2>16. NoLostInode'
    BY <1>5, <1>8, <1>12, <2>2, <2>5, <2>7, <2>10, NoLostKept DEF IInv
  <2>17. Task(t)'
    <3>1. inode'[e].key # NoKey
      BY <1>4, <1>8, <1>12, <2>7
    <3> QED BY <2>1, <2>9, <3>1
            DEF Task, Looking, AtEntry, Keeping, Crossing, InPut, WithKey, Unmounts
  <2> QED BY <1>1, <1>5, <2>6, <2>7, <2>8, <2>11, <2>12, <2>13, <2>14, <2>15, <2>16, <2>17, EntriesStep
<1> QED BY <1>2, <1>3, <1>7, <1>11, <1>12 DEF Found

(* The end of iput(): t no longer has e, and goes on where it was called. *)
LEMMA BackMoves ==
  ASSUME IInv, NEW t \in Tasks, Turn(t), NEW e \in Entries, f[t].e = e,
         pc[t] \in {"put", "repeat", "truncate"}, Back(t), UNCHANGED sb,
         Crossing(t) => /\ Named(t) \subseteq Named(t)'
                        /\ inode'[f[t].empty] = inode[f[t].empty]
  PROVE  \E w \in Places, fr \in Frames :
           /\ Moved(t, w, fr) /\ (Hot(t)' => cpu' = t) /\ Task(t)'
           /\ Unmounts(t)' <=> Unmounts(t)
           /\ ~InIO(t)' /\ ~InSuper(t)'
           /\ \A g : /\ (HasInode(t, g) <=> g = e) /\ ~HasInode(t, g)'
                     /\ HasEmpty(t, g)' <=> HasEmpty(t, g)
<1>1. InPut(t) /\ (f[t].back \in {"idle", "put_super"} \/ Crossing(t))
  BY TaskTyped DEF InPut, Task
<1>2. \A g : HasInode(t, g) <=> g = e
  BY <1>1 DEF HasInode
<1>3. CASE f[t].back = "idle"
  <2>1. Moved(t, "idle", NoFrame) /\ "idle" \in Places /\ NoFrame \in Frames
    BY <1>3, NoFrameIs, YieldMoves DEF Back, IInv, Places
  <2>2. /\ Task(t)' /\ ~Unmounts(t)' /\ ~Hot(t)' /\ ~InIO(t)' /\ ~InSuper(t)'
        /\ \A g : ~HasInode(t, g)' /\ ~HasEmpty(t, g)'
    BY <2>1, TaskIdle
  <2>3. ~Unmounts(t) /\ \A g : ~HasEmpty(t, g)
    BY <1>1, <1>3 DEF Unmounts, HasEmpty, InPut
  <2> QED BY <1>2, <2>1, <2>2, <2>3
<1>4. CASE f[t].back # "idle"
  <2> DEFINE w == f[t].back
             fr == [f[t] EXCEPT !.e = NULL, !.back = ""]
  <2>1. Goto(t, w, fr) /\ w \in {"cross", "put_super"} /\ w \in Places
    BY <1>1, <1>4 DEF Back, Crossing, Places
  <2>2. fr \in Frames /\ fr.empty = f[t].empty /\ fr.key = f[t].key /\ fr.op = f[t].op
    BY TaskTyped DEF Frames
  <2>3. Crossing(t) <=> w = "cross"
    BY <1>1, <2>1 DEF Crossing
  <2>4. Unmounts(t) <=> w = "put_super"
    BY <1>1 DEF Unmounts, InPut
  <2>5. \A g : HasEmpty(t, g) <=> f[t].empty = g /\ w = "cross"
    BY <1>1 DEF HasEmpty, InPut
  <2>6. /\ w = "cross" => /\ f[t].key \in Named(t) /\ f[t].empty \in Entries
                          /\ Fresh(inode[f[t].empty]) /\ sb.dev = OtherDev
        /\ w = "put_super" => sb.imount # NULL /\ ~sb.lock
    BY <2>3, <2>4, TaskTyped DEF Task, Looking, Keeping
  <2> HIDE DEF w, fr
  <2>7. Moved(t, w, fr) /\ cpu' = t
    BY <2>1, <2>2, GotoMoves DEF IInv
  <2>8. pc'[t] = w /\ f'[t] = fr
    BY <2>7 DEF Moved
  <2>9. ~InIO(t)' /\ ~InSuper(t)' /\ (Unmounts(t)' <=> w = "put_super") /\ ~InPut(t)'
    BY <2>1, <2>8 DEF InIO, InSuper, Unmounts, InPut
  <2>10. \A g : ~HasInode(t, g)' /\ (HasEmpty(t, g)' <=> f[t].empty = g /\ w = "cross")
    BY <2>1, <2>2, <2>8, <2>9 DEF HasInode, HasEmpty
  <2>11. Task(t)'
    <3>1. w = "cross" => fr.key \in Named(t)' /\ fr.empty \in Entries /\ Fresh(inode'[fr.empty])
                         /\ sb'.dev = OtherDev
      BY <2>2, <2>3, <2>6
    <3>2. w = "put_super" => sb'.imount # NULL /\ ~sb'.lock
      BY <2>6
    <3> QED BY <2>1, <2>8, <2>9, <3>1, <3>2
            DEF Task, Looking, AtEntry, Keeping, Crossing, WithKey
  <2> QED BY <1>2, <2>1, <2>2, <2>4, <2>5, <2>7, <2>9, <2>10, <2>11
<1> QED BY <1>3, <1>4

LEMMA DownStep ==
  ASSUME IInv, NEW t \in Tasks, Turn(t), NEW e \in Entries, f[t].e = e,
         pc[t] \in {"put", "repeat"}, ~inode[e].lock, inode[e].count > 1 \/ ~inode[e].dirt,
         inode' = Down(e), Back(t), UNCHANGED <<imap, disk, sb, latest>>
  PROVE  IInv'
<1> DEFINE x == [inode[e] EXCEPT !.count = @ - 1]
<1>1. HasInode(t, e) /\ UsedBy(t, e)
  BY DEF UsedBy, HasInode, InPut
<1>2. inode[e].count \in Nat /\ inode[e].count >= 1
  BY <1>1, Counted, EntryTyped DEF IInv
<1>3. /\ x \in EntryType /\ x.key = inode[e].key /\ x.count = inode[e].count - 1 /\ ~x.lock
      /\ x.dirt = inode[e].dirt /\ x.mount = inode[e].mount /\ x.c = inode[e].c
  BY <1>2, EntryTyped DEF EntryType
<1>4. inode' = [inode EXCEPT ![e] = x]
  BY DEF Down, IInv, Types
<1> HIDE DEF x
<1>5. /\ inode' \in [Entries -> EntryType] /\ inode'[e] = x
      /\ \A g \in Entries : g # e => inode'[g] = inode[g]
  BY <1>3, <1>4, OneEntry DEF IInv
<1>6. Crossing(t) => Named(t) \subseteq Named(t)' /\ inode'[f[t].empty] = inode[f[t].empty]
  <2>1. Crossing(t) => f[t].empty \in Entries /\ inode[f[t].empty].key = NoKey /\ inode[e].key # NoKey
    BY TaskTyped DEF Task, Keeping, WithKey, Fresh
  <2> QED BY <1>5, <2>1, NamedKept
<1>7. PICK w \in Places, fr \in Frames :
           /\ Moved(t, w, fr) /\ (Hot(t)' => cpu' = t) /\ Task(t)'
           /\ Unmounts(t)' <=> Unmounts(t)
           /\ ~InIO(t)' /\ ~InSuper(t)'
           /\ \A g : /\ (HasInode(t, g) <=> g = e) /\ ~HasInode(t, g)'
                     /\ HasEmpty(t, g)' <=> HasEmpty(t, g)
  BY <1>6, BackMoves
<1>8. ASSUME NEW u \in Tasks, u # t
      PROVE  Harmless(u, e)
  <2>1. ~HasEmpty(u, e) /\ (pc[u] \in {"read", "truncate"} => f[u].e # e) /\ (InIO(u) => f[u].e # e)
    BY <1>1, <1>8, SharedWith, AtUnlocked DEF IInv
  <2> QED BY <1>3, <1>5, <2>1 DEF Harmless, InIO
<1>9. ASSUME NEW g \in Entries
      PROVE  inode'[g].count + B(HasInode(t, g)) + B(HasEmpty(t, g))
             = inode[g].count + B(HasInode(t, g)') + B(HasEmpty(t, g)')
  <2>1. B(HasInode(t, g)) = (IF g = e THEN 1 ELSE 0) /\ B(HasInode(t, g)') = 0
    BY <1>7 DEF B
  <2>2. B(HasEmpty(t, g)) = B(HasEmpty(t, g)') /\ B(HasEmpty(t, g)) \in Nat
    BY <1>7 DEF B
  <2>3. inode[g].count \in Nat
    BY EntryTyped
  <2>4. inode'[g].count = (IF g = e THEN inode[g].count - 1 ELSE inode[g].count)
    BY <1>3, <1>5
  <2> QED BY <2>1, <2>2, <2>3, <2>4
<1>10. Plain(inode[e])' /\ (inode'[e].mount <=> inode[e].mount)
  <2>1. Plain(inode[e])
    BY EntryTyped
  <2>2. x.count = 0 => ~x.dirt
    BY <1>2, <1>3
  <2> QED BY <1>3, <1>5, <2>1, <2>2 DEF Plain
<1>11. inode'[e].key # NoKey => inode'[e].c = latest[inode'[e].key]
  BY <1>3, <1>5, UnlockedIsLatest
<1>12. OneInodePerNumber'
  BY <1>3, <1>5, OneKept DEF IInv
<1>13. NoLostInode'
  BY <1>3, <1>5, NoLostKept DEF IInv
<1>14. pc[t] # "read"
  OBVIOUS
<1> QED BY <1>5, <1>7, <1>8, <1>9, <1>10, <1>11, <1>12, <1>13, <1>14, EntryStep

LEMMA PutRepeatStep ==
  ASSUME IInv, NEW t \in Tasks, Turn(t), NEW e \in Entries, f[t].e = e,
         pc[t] \in {"put", "repeat"}, ~inode[e].lock, inode[e].key # NoKey, PutRepeat(t, e)
  PROVE  IInv'
<1>1. HasInode(t, e) /\ InPut(t)
  BY DEF HasInode, InPut
<1>2. inode[e].count \in Nat /\ inode[e].count >= 1
  BY <1>1, Counted, EntryTyped DEF IInv, UsedBy
<1>3. CASE /\ inode[e].count > 1 /\ inode' = Down(e)
           /\ Back(t) /\ UNCHANGED <<imap, disk, sb, latest>>
  BY <1>3, DownStep
<1>4. CASE /\ inode[e].count =< 1 /\ inode[e].c.nlinks > 0 /\ ~MustWrite(e)
           /\ inode' = Down(e) /\ Back(t) /\ UNCHANGED <<imap, disk, sb, latest>>
  BY <1>4, DownStep DEF MustWrite
<1>5. inode[e].count =< 1 => ~Crossing(t) /\ inode[e].count = 1
  <2>1. Crossing(t) => inode[e].count > 1
    BY TaskTyped DEF Task
  <2> QED BY <1>2, <2>1
<1>6. CASE /\ inode[e].count =< 1 /\ inode[e].c.nlinks = 0
           /\ Yield(t, "truncate", f[t]) /\ UNCHANGED kernel
  <2>1. f[t] \in Frames
    BY TaskTyped
  <2>2. Moved(t, "truncate", f[t]) /\ inode' = inode /\ sb' = sb
    BY <1>6, <2>1, YieldMoves DEF IInv, Places, kernel
  <2>3. InPut(t)'
    BY <2>2 DEF Moved, InPut
  <2>4. Task(t)' /\ SameUses(t)
    BY <1>1, <1>5, <1>6, <2>2, <2>3, StillInPut DEF SameUses
  <2>5. pc[t] # "read"
    OBVIOUS
  <2> QED BY <1>6, <2>1, <2>4, <2>5, StillYield DEF Places
<1>7. CASE /\ inode[e].count =< 1 /\ inode[e].dirt
           /\ Goto(t, "write", [f[t] EXCEPT !.ret = "repeat"]) /\ UNCHANGED kernel
  <2> DEFINE fr == [f[t] EXCEPT !.ret = "repeat"]
  <2>1. fr \in Frames /\ fr.ret = "repeat" /\ fr.e = e /\ fr.back = f[t].back
    BY TaskTyped DEF Frames
  <2> HIDE DEF fr
  <2>2. Moved(t, "write", fr) /\ inode' = inode /\ sb' = sb
    BY <1>7, <2>1, GotoMoves DEF IInv, Places, kernel, fr
  <2>3. InPut(t)'
    BY <2>1, <2>2 DEF Moved, InPut
  <2>4. Task(t)' /\ SameUses(t)
    BY <1>1, <1>5, <1>7, <2>1, <2>2, <2>3, StillInPut DEF SameUses
  <2>5. pc[t] # "read"
    OBVIOUS
  <2> QED BY <1>7, <2>1, <2>4, <2>5, StillGoto DEF Places, fr
<1> QED BY <1>3, <1>4, <1>6, <1>7 DEF PutRepeat, MustWrite

LEMMA PutStep ==
  ASSUME IInv, NEW t \in Tasks, Put(t)
  PROVE  IInv'
<1>1. Turn(t) /\ pc[t] = "put"
  BY AtTurn DEF Put
<1>2. PICK e \in Entries : f[t].e = e
  BY <1>1, TaskTyped DEF Task, AtEntry
<1>3. ~inode[e].lock
  BY <1>2 DEF Put
<1>4. CASE Panic
  BY <1>4, PanicStep
<1>5. CASE /\ inode[e].key = NoKey /\ inode' = Down(e) /\ Back(t)
           /\ UNCHANGED <<imap, disk, sb, latest>>
  <2>1. ~inode[e].dirt
    BY <1>5, EntryTyped DEF Plain
  <2> QED BY <1>1, <1>2, <1>3, <1>5, <2>1, DownStep
<1>6. CASE inode[e].key # NoKey /\ PutRepeat(t, e)
  BY <1>1, <1>2, <1>3, <1>6, PutRepeatStep
<1> QED BY <1>2, <1>4, <1>5, <1>6 DEF Put

LEMMA RepeatStep ==
  ASSUME IInv, NEW t \in Tasks, Repeat(t)
  PROVE  IInv'
<1>1. Turn(t) /\ pc[t] = "repeat"
  BY AtTurn DEF Repeat
<1>2. PICK e \in Entries : f[t].e = e
  BY <1>1, TaskTyped DEF Task, AtEntry
<1>3. ~inode[e].lock /\ PutRepeat(t, e)
  BY <1>2 DEF Repeat
<1>4. inode[e].key # NoKey
  BY <1>1, <1>2, TaskTyped DEF Task, WithKey, InPut
<1> QED BY <1>1, <1>2, <1>3, <1>4, PutRepeatStep

LEMMA NatHasLeast ==
  ASSUME NEW T \in SUBSET Nat, T # {}
  PROVE  \E x \in T : \A y \in T : x =< y
<1> DEFINE R == OpToRel(<, Nat)
<1>1. PICK x \in T : \A y \in T : ~(<<y, x>> \in R)
  <2>1. IsWellFoundedOn(R, Nat)
    BY NatLessThanWellFounded
  <2> HIDE DEF R
  <2> QED BY <2>1, WFMin
<1>2. \A y \in T : ~(y < x)
  BY <1>1 DEF OpToRel
<1> QED BY <1>2

LEMMA FreeInodeStep ==
  ASSUME IInv, WriteAndFreeApart, NEW t \in Tasks, free_inode(t)
  PROVE  IInv'
<1>1. Turn(t) /\ pc[t] = "truncate"
  BY AtTurn DEF free_inode
<1>2. PICK e \in Entries : f[t].e = e
  BY <1>1, TaskTyped DEF Task, AtEntry
<1> DEFINE k == inode[e].key
<1>3. inode[e].count = 1 /\ inode[e].c.nlinks = 0 /\ k # NoKey /\ k \in Keys /\ k \in AllKeys
  BY <1>1, <1>2, TaskTyped, EntryTyped DEF Task, WithKey, InPut
<1>4. CASE Panic
  BY <1>4, PanicStep
<1>5. CASE /\ imap' = imap \ {k[2]}
           /\ inode' = [inode EXCEPT ![e] = Blank]
           /\ Back(t)
           /\ UNCHANGED <<disk, sb, latest>>
  <2>1. UsedBy(t, e)
    BY <1>1, <1>2 DEF UsedBy, HasInode, InPut
  <2>2. ~Reading(e)
    BY <1>1, <2>1, SharedWith DEF Reading
  <2>3. latest[k].nlinks = 0
    BY <1>3, <2>2, EntryTyped DEF Entry
  <2>4. k \notin Roots
    BY <2>3 DEF IInv, Names
  <2>5. k[1] = ROOT_DEV /\ k = <<ROOT_DEV, k[2]>> /\ k[2] # MountNum
    BY <1>3, <2>4, KeyFacts DEF Roots
  <2>6. /\ inode' \in [Entries -> EntryType] /\ inode'[e] = Blank
        /\ \A g \in Entries : g # e => inode'[g] = inode[g]
    BY <1>5, BlankTyped, OneEntry DEF IInv
  <2>7. ~Crossing(t)
    BY <1>1 DEF Crossing
  <2>8. PICK w \in Places, fr \in Frames :
           /\ Moved(t, w, fr) /\ (Hot(t)' => cpu' = t) /\ Task(t)'
           /\ Unmounts(t)' <=> Unmounts(t)
           /\ ~InIO(t)' /\ ~InSuper(t)'
           /\ \A g : /\ (HasInode(t, g) <=> g = e) /\ ~HasInode(t, g)'
                     /\ HasEmpty(t, g)' <=> HasEmpty(t, g)
    BY <1>1, <1>2, <1>5, <2>7, BackMoves
  <2>9. ~Mounted(e) /\ \A u \in Tasks : u # t => ~UsedBy(u, e)
    BY <1>3, <2>1, SoleUser DEF IInv
  <2>10. ASSUME NEW u \in Tasks, u # t
         PROVE  Harmless(u, e)
    <3>1. pc[u] = "write_io" => f[u].e # e
      BY <1>1, <1>2 DEF WriteAndFreeApart
    <3> QED BY <2>9, <2>10, <3>1, HarmlessAway
  <2>11. \A g : Mounted(g)' <=> Mounted(g)
    BY <1>5, <2>8, MountedKept
  <2>12. \A g \in Entries : g # e => inode[g].key # k
    BY <1>3 DEF IInv, OneInodePerNumber
  <2>13. Types' /\ Super' /\ Names'
    BY <1>5, <2>5, <2>6, <2>8 DEF IInv, Types, Super, Names, Moved
  <2>14. ASSUME NEW g \in Entries
         PROVE  Entry(g)'
    <3>1. CASE g = e
      <4>1. Plain(inode[e])'
        BY <2>6, BlankTyped DEF Plain, NoKey, ROOT_DEV
      <4>2. inode'[e].key = NoKey /\ ~inode'[e].mount /\ ~Mounted(e)'
        BY <2>6, <2>9, <2>11, BlankTyped
      <4> QED BY <3>1, <4>1, <4>2 DEF Entry
    <3>2. CASE g # e
      <4>1. Entry(g) /\ Plain(inode[g]) /\ inode'[g] = inode[g] /\ (inode[g].mount <=> Mounted(g))
        BY <2>6, <3>2, EntryTyped DEF Entry
      <4>2. inode[g].key[1] = ROOT_DEV => inode[g].key[2] \in imap'
        <5> SUFFICES ASSUME inode[g].key[1] = ROOT_DEV
                     PROVE  inode[g].key[2] # k[2]
          BY <1>5, <4>1 DEF Plain
        <5>1. inode[g].key = <<ROOT_DEV, inode[g].key[2]>>
          BY EntryTyped, KeyFacts
        <5> QED BY <2>5, <2>12, <3>2, <5>1
      <4>3. Plain(inode[g])'
        BY <4>1, <4>2 DEF Plain
      <4>4. /\ pc[t] = "read" => f[t].e # g
            /\ latest' = latest
        BY <1>1, <1>5
      <4> QED BY <2>8, <2>11, <4>1, <4>3, <4>4, EntryKept
    <3> QED BY <3>1, <3>2
  <2>15. OneInodePerNumber'
    BY <2>6, BlankTyped DEF IInv, OneInodePerNumber
  <2>16. ASSUME NEW g \in Entries
         PROVE  inode'[g].count + B(HasInode(t, g)) + B(HasEmpty(t, g)) + B(Mounted(g))
                = inode[g].count + B(HasInode(t, g)') + B(HasEmpty(t, g)') + B(Mounted(g)')
    <3>1. B(HasInode(t, g)) = (IF g = e THEN 1 ELSE 0) /\ B(HasInode(t, g)') = 0
      BY <2>8 DEF B
    <3>2. B(HasEmpty(t, g)) = B(HasEmpty(t, g)') /\ B(HasEmpty(t, g)) \in Nat
      BY <2>8 DEF B
    <3>3. B(Mounted(g)) = B(Mounted(g)') /\ B(Mounted(g)) \in Nat
      BY <2>11 DEF B
    <3>4. inode[g].count \in Nat
      BY EntryTyped
    <3>5. IF g = e THEN inode'[g].count = 0 /\ inode[g].count = 1 ELSE inode'[g].count = inode[g].count
      BY <1>3, <2>6, BlankTyped
    <3> QED BY <3>1, <3>2, <3>3, <3>4, <3>5
  <2>17. CountIsUsers'
    BY <2>6, <2>8, <2>16, CountsKept DEF IInv
  <2>18. NoLostInode'
    <3> SUFFICES ASSUME NEW l \in Keys, disk[l] # latest[l], ~(l[1] = ROOT_DEV /\ l[2] \notin imap')
                 PROVE  \E g \in Entries : inode'[g].key = l /\ inode'[g].dirt /\ inode'[g].c = latest[l]
      BY <1>5 DEF NoLostInode
    <3>1. l # k /\ ~(l[1] = ROOT_DEV /\ l[2] \notin imap)
      BY <1>5, <2>5
    <3>2. PICK g \in Entries : inode[g].key = l /\ inode[g].dirt /\ inode[g].c = latest[l]
      BY <3>1 DEF IInv, NoLostInode
    <3> QED BY <2>6, <3>1, <3>2
  <2>19. ASSUME NEW u \in Tasks
         PROVE  Named(u) \subseteq Named(u)'
    <3> SUFFICES ASSUME NEW l \in Named(u), l \notin Roots
                 PROVE  l \in Named(u)'
      BY DEF Named
    <3>1. l \in {ROOT_DEV} \X (Private[u] \cap imap) /\ latest[l].nlinks = 1
      BY DEF Named
    <3>2. l # k
      BY <2>3, <3>1
    <3>3. l \in {ROOT_DEV} \X (Private[u] \cap imap')
      BY <1>5, <2>5, <3>1, <3>2
    <3> QED BY <1>5, <3>1, <3>3 DEF Named
  <2>20. EveryEntry'
    BY <2>14 DEF EveryEntry
  <2>21. \A u \in Tasks, g \in Entries : u # t => inode'[g] = inode[g] \/ Harmless(u, g)
    BY <2>6, <2>10
  <2> QED BY <1>1, <1>5, <2>8, <2>13, <2>15, <2>17, <2>18, <2>19, <2>20, <2>21, Combined
<1> QED BY <1>2, <1>4, <1>5 DEF free_inode

LEMMA NewInodeStep ==
  ASSUME IInv, NEW t \in Tasks, new_inode(t)
  PROVE  IInv'
<1>1. Turn(t) /\ pc[t] = "bit"
  BY AtTurn DEF new_inode
<1>2. PICK e \in Entries : e = f[t].empty
  BY <1>1, TaskTyped DEF Task, Keeping
<1>3. Fresh(inode[e])
  BY <1>1, <1>2, TaskTyped DEF Task, Keeping
<1> DEFINE zero == Nums \ imap
           n == CHOOSE x \in zero : \A y \in zero : x =< y
           c == [data |-> FALSE, nlinks |-> 1]
           k == <<ROOT_DEV, n>>
<1>4. UsedBy(t, e) /\ HasEmpty(t, e) /\ inode[e].count = 1 /\ ~inode[e].lock /\ inode[e].key = NoKey
  BY <1>1, <1>2, <1>3 DEF UsedBy, HasEmpty, Fresh
<1>5. ~Unmounts(t)
  BY <1>1 DEF Unmounts, InPut
<1>6. CASE iput(t, e, "idle") /\ UNCHANGED kernel
  <2> DEFINE fr == [f[t] EXCEPT !.e = e, !.back = "idle"]
  <2>1. fr \in Frames /\ fr.e = e /\ fr.back = "idle"
    BY TaskTyped DEF Frames
  <2>2. Goto(t, "put", fr)
    BY <1>6 DEF iput
  <2> HIDE DEF fr
  <2>3. Moved(t, "put", fr)
    BY <2>1, <2>2, GotoMoves DEF IInv, Places
  <2>4. pc'[t] = "put" /\ f'[t] = fr /\ UNCHANGED <<inode, imap, disk, latest, sb>>
    BY <1>6, <2>3 DEF Moved, kernel
  <2>5. ~Unmounts(t)' /\ ~InSuper(t)' /\ ~InIO(t)' /\ ~Hot(t)'
    BY <2>1, <2>4 DEF Unmounts, InSuper, InIO, Hot, Crossing
  <2>6. Task(t)'
    BY <2>1, <2>4, <2>5
       DEF Task, Looking, AtEntry, Keeping, Crossing, InPut, WithKey
  <2>7. ASSUME NEW g \in Entries
        PROVE  inode'[g].count + B(HasInode(t, g)) + B(HasEmpty(t, g))
               = inode[g].count + B(HasInode(t, g)') + B(HasEmpty(t, g)')
    <3>1. ~HasInode(t, g) /\ (HasInode(t, g)' <=> g = e) /\ ~HasEmpty(t, g)' /\ (HasEmpty(t, g) <=> g = e)
      BY <1>1, <1>2, <2>1, <2>4 DEF HasInode, HasEmpty, InPut
    <3>2. inode[g].count \in Nat /\ inode'[g].count = inode[g].count
      BY <2>4, EntryTyped
    <3> QED BY <3>1, <3>2 DEF B
  <2>8. OneInodePerNumber' /\ NoLostInode' /\ inode' \in [Entries -> EntryType]
    BY <2>4 DEF IInv, OneInodePerNumber, NoLostInode, Types
  <2> DEFINE D == {}
  <2>9. D \in SUBSET Entries /\ \A g : g \notin D
    OBVIOUS
  <2> HIDE DEF D
  <2>10. \A g \in D : /\ Plain(inode[g])'
                      /\ inode'[g].mount <=> inode[g].mount
                      /\ inode'[g].key # NoKey /\ ~Reading(g)' => inode'[g].c = latest[inode'[g].key]
    BY <2>9
  <2> QED BY <1>1, <1>5, <2>3, <2>4, <2>5, <2>6, <2>7, <2>8, <2>9, <2>10, EntriesStep
<1>7. CASE /\ zero # {}
           /\ imap' = imap \cup {n}
           /\ inode' = [inode EXCEPT ![e].key = k, ![e].dirt = TRUE, ![e].c = c]
           /\ latest' = [latest EXCEPT ![k] = c]
           /\ Hold(t, e)
           /\ UNCHANGED <<disk, sb>>
  <2> DEFINE fr == [NoFrame EXCEPT !.op = f[t].op, !.e = e]
             x == [inode[e] EXCEPT !.key = k, !.dirt = TRUE, !.c = c]
  <2>1. n \in zero
    <3>1. zero \in SUBSET Nat
      BY Constants
    <3> HIDE DEF zero
    <3> QED BY <1>7, <3>1, NatHasLeast
  <2>2. c \in Contents /\ c.nlinks = 1
    BY DEF Contents
  <2> HIDE DEF n, c
  <2>0. imap \subseteq imap' /\ n \in imap'
    BY <1>7
  <2>3. n \in Nums /\ n \notin imap /\ k \in Keys /\ k \in AllKeys /\ k # NoKey /\ k \notin Roots
        /\ k[1] = ROOT_DEV /\ k[2] = n
    BY <2>1, KeyFacts DEF AllKeys, Roots, IInv, Names, ROOT_DEV, OtherDev
  <2>4. fr \in Frames /\ fr.e = e
    BY TaskTyped, NoFrameIs DEF Frames
  <2> HIDE DEF k
  <2>5. /\ x \in EntryType /\ x.key = k /\ x.dirt /\ ~x.lock /\ x.count = 1 /\ x.c = c
        /\ x.mount = inode[e].mount
    BY <1>4, <2>2, <2>3, EntryTyped DEF EntryType
  <2>6. inode' = [inode EXCEPT ![e] = x]
    BY <1>7 DEF IInv, Types
  <2>7. Goto(t, "hold", fr)
    BY <1>7 DEF Hold
  <2> HIDE DEF fr, x
  <2>8. /\ inode' \in [Entries -> EntryType] /\ inode'[e] = x
        /\ \A g \in Entries : g # e => inode'[g] = inode[g]
    BY <2>5, <2>6, OneEntry DEF IInv
  <2>9. Moved(t, "hold", fr)
    BY <2>4, <2>7, GotoMoves DEF IInv, Places
  <2>10. pc'[t] = "hold" /\ f'[t] = fr
    BY <2>9 DEF Moved
  <2>11. /\ latest' \in [Keys -> Contents] /\ latest'[k] = c
         /\ \A l \in Keys : l # k => latest'[l] = latest[l]
    BY <1>7, <2>2, <2>3 DEF IInv, Types
  <2>12. \A g \in Entries : inode[g].key # k
    BY <2>3, EntryTyped DEF Plain
  <2>13. ~Unmounts(t)' /\ ~InSuper(t)' /\ ~InIO(t)' /\ ~Hot(t)'
    BY <2>10 DEF Unmounts, InPut, InSuper, InIO, Hot, Crossing
  <2>14. \A g : Mounted(g)' <=> Mounted(g)
    BY <1>5, <1>7, <2>9, <2>13, MountedKept
  <2>15. ASSUME NEW u \in Tasks, u # t
         PROVE  Harmless(u, e)
    <3>1. ~UsedBy(u, e)
      BY <1>4, <2>15, SoleUser DEF IInv
    <3> QED BY <1>4, <3>1, HarmlessUnlocked
  <2>16. Types' /\ Super'
    BY <1>7, <2>3, <2>8, <2>9, <2>11 DEF IInv, Types, Super, Moved
  <2>17. Names'
    BY <1>7, <2>3, <2>11, KeyFacts DEF IInv, Names
  <2>18. ASSUME NEW g \in Entries
         PROVE  Entry(g)'
    <3>1. CASE g = e
      <4>1. Plain(inode[e])'
        BY <2>3, <2>5, <2>8, <2>0 DEF Plain
      <4>2. (inode[e].mount <=> Mounted(e))
        BY EntryTyped DEF Entry
      <4>3. inode'[e].mount <=> Mounted(e)'
        BY <2>5, <2>8, <2>14, <4>2
      <4>4. inode'[e].c = latest'[inode'[e].key]
        BY <2>5, <2>8, <2>11
      <4> QED BY <3>1, <4>1, <4>3, <4>4 DEF Entry
    <3>2. CASE g # e
      <4>1. Entry(g) /\ Plain(inode[g]) /\ inode'[g] = inode[g] /\ (inode[g].mount <=> Mounted(g))
        BY <2>8, <3>2, EntryTyped DEF Entry
      <4>2. Plain(inode[g])'
        <5>1. inode'[g].key[1] = ROOT_DEV => inode'[g].key[2] \in imap'
          BY <2>0, <4>1 DEF Plain
        <5> QED BY <4>1, <5>1 DEF Plain
      <4>3. inode[g].key # NoKey => latest'[inode[g].key] = latest[inode[g].key]
        BY <2>11, <2>12, EntryTyped
      <4>4. pc[t] = "read" => f[t].e # g
        BY <1>1
      <4> QED BY <2>9, <2>14, <4>1, <4>2, <4>3, <4>4, EntryKept
    <3> QED BY <3>1, <3>2
  <2>19. OneInodePerNumber'
    BY <2>5, <2>8, <2>12 DEF IInv, OneInodePerNumber
  <2>20. ASSUME NEW g \in Entries
         PROVE  inode'[g].count + B(HasInode(t, g)) + B(HasEmpty(t, g)) + B(Mounted(g))
                = inode[g].count + B(HasInode(t, g)') + B(HasEmpty(t, g)') + B(Mounted(g)')
    <3>1. ~HasInode(t, g) /\ (HasInode(t, g)' <=> g = e) /\ ~HasEmpty(t, g)' /\ (HasEmpty(t, g) <=> g = e)
      BY <1>1, <1>2, <2>4, <2>10 DEF HasInode, HasEmpty, InPut
    <3>2. /\ B(HasInode(t, g)) = 0 /\ B(HasInode(t, g)') = B(HasEmpty(t, g))
          /\ B(HasEmpty(t, g)') = 0 /\ B(HasEmpty(t, g)) \in Nat
      BY <3>1 DEF B
    <3>3. B(Mounted(g)) = B(Mounted(g)') /\ B(Mounted(g)) \in Nat
      BY <2>14 DEF B
    <3>4. inode[g].count \in Nat /\ inode'[g].count = inode[g].count
      BY <1>4, <2>5, <2>8, EntryTyped
    <3> QED BY <3>2, <3>3, <3>4
  <2>21. CountIsUsers'
    BY <2>8, <2>9, <2>20, CountsKept DEF IInv
  <2>22. NoLostInode'
    <3> SUFFICES ASSUME NEW l \in Keys, disk[l] # latest'[l], ~(l[1] = ROOT_DEV /\ l[2] \notin imap')
                 PROVE  \E g \in Entries : inode'[g].key = l /\ inode'[g].dirt /\ inode'[g].c = latest'[l]
      BY <1>7 DEF NoLostInode
    <3>1. CASE l = k
      BY <2>5, <2>8, <2>11, <3>1
    <3>2. CASE l # k
      <4>1. latest'[l] = latest[l]
        BY <2>11, <3>2
      <4>2. ~(l[1] = ROOT_DEV /\ l[2] \notin imap)
        <5>1. l[1] = ROOT_DEV => l[2] # n
          <6>1. l \in AllKeys
            BY DEF AllKeys
          <6> QED BY <3>2, <6>1, KeyFacts DEF k
        <5> QED BY <1>7, <5>1
      <4>3. PICK g \in Entries : inode[g].key = l /\ inode[g].dirt /\ inode[g].c = latest[l]
        BY <4>1, <4>2 DEF IInv, NoLostInode
      <4>4. g # e
        BY <1>3, <4>3 DEF Fresh
      <4> QED BY <2>8, <4>1, <4>3, <4>4
    <3> QED BY <3>1, <3>2
  <2>23. ASSUME NEW u \in Tasks
         PROVE  Named(u) \subseteq Named(u)'
    <3> SUFFICES ASSUME NEW l \in Named(u)
                 PROVE  l \in Named(u)'
      OBVIOUS
    <3>1. l \in Keys /\ latest[l].nlinks = 1 /\ (l[1] = ROOT_DEV => l[2] \in imap)
      BY NamedHasLink
    <3>2. l # k
      BY <2>3, <3>1
    <3>3. latest'[l].nlinks = 1
      BY <2>11, <3>1, <3>2
    <3> QED BY <1>7, <3>3 DEF Named
  <2>24. Task(t)'
    BY <2>3, <2>4, <2>5, <2>8, <2>10, <2>13
       DEF Task, Looking, AtEntry, Keeping, Crossing, InPut, WithKey
  <2>25. EveryEntry' /\ \A u \in Tasks, g \in Entries : u # t => inode'[g] = inode[g] \/ Harmless(u, g)
    BY <2>8, <2>15, <2>18 DEF EveryEntry
  <2> QED BY <1>1, <1>7, <2>9, <2>13, <2>16, <2>17, <2>19, <2>21, <2>22, <2>23, <2>24, <2>25, Combined
<1> QED BY <1>2, <1>6, <1>7 DEF new_inode

LEMMA SyncFrame ==
  ASSUME NEW e \in Entries, NEW D \in SUBSET Entries, NEW op \in {"mount", "umount", "sync"}
  PROVE  /\ [NoFrame EXCEPT !.op = op, !.left = D, !.e = e] \in Frames
         /\ [NoFrame EXCEPT !.op = op, !.left = D, !.e = e].e = e
<1> DEFINE fr == NoFrame
<1>1. fr \in Frames
  BY NoFrameIs
<1> HIDE DEF fr
<1>2. [fr EXCEPT !.op = op, !.left = D, !.e = e] \in Frames
  BY <1>1 DEF Frames
<1>3. [fr EXCEPT !.op = op, !.left = D, !.e = e].e = e
  BY <1>1 DEF Frames
<1> QED BY <1>2, <1>3 DEF fr

(* A task in sync_inodes() relies on nothing but its place in the table. *)
LEMMA TaskSync ==
  ASSUME NEW t \in Tasks, NEW fr, Moved(t, "sync", fr), fr.e \in Entries
  PROVE  /\ Task(t)' /\ ~Unmounts(t)' /\ ~Hot(t)' /\ ~InIO(t)' /\ ~InSuper(t)'
         /\ \A e : ~HasInode(t, e)' /\ ~HasEmpty(t, e)'
<1>1. pc'[t] = "sync" /\ f'[t] = fr
  BY DEF Moved
<1>2. ~Unmounts(t)' /\ ~Hot(t)' /\ ~InIO(t)' /\ ~InSuper(t)' /\ ~InPut(t)'
  BY <1>1 DEF InPut, Unmounts, Hot, Crossing, InIO, InSuper
<1>3. Task(t)'
  BY <1>1, <1>2 DEF Task, Looking, AtEntry, Keeping, Crossing, WithKey
<1>4. \A e : ~HasInode(t, e)' /\ ~HasEmpty(t, e)'
  BY <1>1, <1>2 DEF HasInode, HasEmpty
<1> QED BY <1>2, <1>3, <1>4

LEMMA SyncStep ==
  ASSUME IInv, NEW t \in Tasks, Sync(t)
  PROVE  IInv'
<1>1. Turn(t) /\ pc[t] = "sync" /\ UNCHANGED kernel
  BY AtTurn DEF Sync
<1>2. PICK e \in Entries : f[t].e = e
  BY <1>1, TaskTyped DEF Task, AtEntry
<1> DEFINE rest == f[t].left \ {e}
<1>3. /\ ~Unmounts(t) /\ ~InPut(t) /\ ~Crossing(t)
      /\ \A g : ~HasInode(t, g) /\ ~HasEmpty(t, g)
  BY <1>1 DEF Unmounts, InPut, HasInode, HasEmpty, Crossing
<1>4. ~inode[e].lock
  BY <1>2 DEF Sync
<1>5. CASE inode[e].dirt /\ write_inode(t, e, "sync")
  <2> DEFINE fr == [f[t] EXCEPT !.e = e, !.ret = "sync"]
  <2>1. fr \in Frames /\ fr.ret = "sync" /\ fr.e = e /\ fr.back = f[t].back
    BY TaskTyped DEF Frames
  <2>2. Goto(t, "write", fr)
    BY <1>5 DEF write_inode
  <2> HIDE DEF fr
  <2>3. Moved(t, "write", fr) /\ inode' = inode /\ sb' = sb
    BY <1>1, <2>1, <2>2, GotoMoves DEF IInv, Places, kernel
  <2>4. ~InPut(t)'
    BY <2>1, <2>3 DEF Moved, InPut
  <2>5. inode[e].key # NoKey
    BY <1>5, EntryTyped DEF Plain
  <2>6. Task(t)' /\ SameUses(t)
    BY <1>1, <1>2, <1>3, <1>4, <1>5, <2>1, <2>3, <2>4, <2>5, StillInPut DEF SameUses
  <2> QED BY <1>1, <2>1, <2>2, <2>6, StillGoto DEF Places
<1>6. CASE Yield(t, "idle", NoFrame)
  <2>1. Moved(t, "idle", NoFrame)
    BY <1>6, NoFrameIs, YieldMoves DEF IInv, Places
  <2>2. Task(t)' /\ SameUses(t)
    BY <1>3, <2>1, TaskIdle DEF SameUses
  <2> QED BY <1>1, <1>6, <2>2, NoFrameIs, StillYield DEF Places
<1>9. CASE Yield(t, "synced", [NoFrame EXCEPT !.op = f[t].op])
  <2> DEFINE fr == [NoFrame EXCEPT !.op = f[t].op]
  <2>1. fr \in Frames
    BY TaskTyped, NoFrameIs DEF Frames
  <2> HIDE DEF fr
  <2>2. Yield(t, "synced", fr)
    BY <1>9 DEF fr
  <2>3. Moved(t, "synced", fr)
    BY <2>1, <2>2, YieldMoves DEF IInv, Places
  <2>4. Task(t)' /\ SameUses(t)
    BY <1>3, <2>3, TaskIdle DEF SameUses
  <2> QED BY <1>1, <2>1, <2>2, <2>4, StillYield DEF Places
<1>7. CASE /\ rest # {}
           /\ Goto(t, "sync", [f[t] EXCEPT !.e = CHOOSE g \in rest : TRUE, !.left = rest])
  <2>1. PICK g \in rest : g = CHOOSE h \in rest : TRUE
    BY <1>7
  <2> DEFINE fr == [f[t] EXCEPT !.e = g, !.left = rest]
  <2>2. g \in Entries /\ rest \in SUBSET Entries
    BY TaskTyped
  <2>3. Goto(t, "sync", fr)
    BY <1>7, <2>1
  <2> HIDE DEF rest
  <2>4. fr \in Frames /\ fr.e = g
    BY <2>2, TaskTyped DEF Frames
  <2> HIDE DEF fr
  <2>5. Moved(t, "sync", fr)
    BY <2>3, <2>4, GotoMoves DEF IInv, Places
  <2>6. Task(t)' /\ SameUses(t)
    BY <1>3, <2>2, <2>4, <2>5, TaskSync DEF SameUses
  <2> QED BY <1>1, <2>3, <2>4, <2>6, StillGoto DEF Places
<1>8. \/ inode[e].dirt /\ write_inode(t, e, "sync")
      \/ Yield(t, "idle", NoFrame)
      \/ Yield(t, "synced", [NoFrame EXCEPT !.op = f[t].op])
      \/ rest # {} /\ Goto(t, "sync", [f[t] EXCEPT !.e = CHOOSE g \in rest : TRUE, !.left = rest])
  BY <1>2 DEF Sync, EndSync
<1> QED BY <1>5, <1>6, <1>7, <1>8, <1>9

(* t gives e back: into iput(), as its user still. *)
LEMMA IputMoves ==
  ASSUME IInv, NEW t \in Tasks, NEW e \in Entries, iput(t, e, "idle")
  PROVE  LET fr == [f[t] EXCEPT !.e = e, !.back = "idle"] IN
         /\ fr \in Frames /\ fr.e = e /\ Moved(t, "put", fr) /\ cpu' = t
         /\ Task(t)' /\ ~Unmounts(t)' /\ ~Hot(t)' /\ ~InIO(t)' /\ ~InSuper(t)'
         /\ \A g : (HasInode(t, g)' <=> g = e) /\ ~HasEmpty(t, g)'
<1> DEFINE fr == [f[t] EXCEPT !.e = e, !.back = "idle"]
<1>1. fr \in Frames /\ fr.e = e /\ fr.back = "idle"
  BY TaskTyped DEF Frames
<1>2. Goto(t, "put", fr)
  BY DEF iput
<1> HIDE DEF fr
<1>3. Moved(t, "put", fr) /\ cpu' = t
  BY <1>1, <1>2, GotoMoves DEF IInv, Places
<1>4. pc'[t] = "put" /\ f'[t] = fr
  BY <1>3 DEF Moved
<1>5. ~Unmounts(t)' /\ ~InSuper(t)' /\ ~InIO(t)' /\ ~Hot(t)'
  BY <1>1, <1>4 DEF Unmounts, InSuper, InIO, Hot, Crossing
<1>6. Task(t)'
  BY <1>1, <1>4, <1>5 DEF Task, Looking, AtEntry, Keeping, Crossing, InPut, WithKey
<1>7. \A g : (HasInode(t, g)' <=> g = e) /\ ~HasEmpty(t, g)'
  BY <1>1, <1>4 DEF HasInode, HasEmpty, InPut
<1> QED BY <1>1, <1>3, <1>5, <1>6, <1>7 DEF fr

LEMMA Holding ==
  ASSUME IInv, NEW t \in Tasks, pc[t] \in {"hold", "read_super", "super_io", "mount"}
  PROVE  /\ f[t].e \in Entries /\ inode[f[t].e].key # NoKey /\ ~Unmounts(t)
         /\ \A g : (HasInode(t, g) <=> f[t].e = g) /\ ~HasEmpty(t, g)
BY TaskTyped DEF Task, AtEntry, WithKey, HasInode, HasEmpty, Unmounts, InPut

LEMMA IputStep ==
  ASSUME IInv, NEW t \in Tasks, Turn(t), pc[t] \in {"hold", "mount"},
         NEW e \in Entries, f[t].e = e, iput(t, e, "idle"), UNCHANGED kernel
  PROVE  IInv'
<1> DEFINE fr == [f[t] EXCEPT !.e = e, !.back = "idle"]
<1>1. /\ fr \in Frames /\ Moved(t, "put", fr)
      /\ Task(t)' /\ ~Unmounts(t)'
      /\ \A g : (HasInode(t, g)' <=> g = e) /\ ~HasEmpty(t, g)'
  BY IputMoves
<1>2. SameUses(t)
  BY <1>1, Holding DEF SameUses
<1>3. Goto(t, "put", fr)
  BY DEF iput
<1> HIDE DEF fr
<1>4. pc[t] # "read"
  OBVIOUS
<1> QED BY <1>1, <1>2, <1>3, <1>4, StillGoto DEF Places

LEMMA ReleaseStep ==
  ASSUME IInv, NEW t \in Tasks, Release(t)
  PROVE  IInv'
<1>1. Turn(t) /\ pc[t] = "hold"
  BY AtTurn DEF Release, Using
<1>2. PICK e \in Entries : f[t].e = e
  BY <1>1, Holding
<1> QED BY <1>1, <1>2, IputStep DEF Release

LEMMA StartMountStep ==
  ASSUME IInv, NEW t \in Tasks, StartMount(t)
  PROVE  IInv'
<1>1. Turn(t) /\ pc[t] = "hold" /\ UNCHANGED kernel
  BY AtTurn DEF StartMount
<1>2. PICK e \in Entries : f[t].e = e
  BY <1>1, Holding
<1>3. CASE iput(t, e, "idle")
  BY <1>1, <1>2, <1>3, IputStep
<1>4. CASE Goto(t, "read_super", f[t])
  <2>1. f[t] \in Frames
    BY TaskTyped
  <2>2. Moved(t, "read_super", f[t]) /\ inode' = inode
    BY <1>1, <1>4, <2>1, GotoMoves DEF IInv, Places, kernel
  <2>3. pc'[t] = "read_super" /\ f'[t] = f[t]
    BY <2>2 DEF Moved
  <2>4. Task(t)'
    BY <1>1, <2>2, <2>3, Holding
       DEF Task, Looking, AtEntry, Keeping, Crossing, InPut, WithKey, Unmounts
  <2>5. SameUses(t)
    BY <1>1, <2>3 DEF SameUses, HasInode, HasEmpty, Unmounts, InPut
  <2> QED BY <1>1, <1>4, <2>1, <2>4, <2>5, StillGoto DEF Places
<1> QED BY <1>2, <1>3, <1>4 DEF StartMount

(* A system call without an inode: on with iget() or new_inode(). *)
LEMMA ToEmpty ==
  ASSUME IInv, NEW t \in Tasks, Turn(t), pc[t] \in {"idle", "synced"}, UNCHANGED kernel,
         NEW fr \in Frames, fr.op # "create" => fr.key \in Named(t), Goto(t, "empty", fr)
  PROVE  IInv'
<1>1. /\ ~Unmounts(t) /\ \A g : ~HasInode(t, g) /\ ~HasEmpty(t, g)
  BY DEF Unmounts, InPut, HasInode, HasEmpty
<1>2. Moved(t, "empty", fr)
  BY GotoMoves DEF IInv, Places
<1>3. pc'[t] = "empty" /\ f'[t] = fr
  BY <1>2 DEF Moved
<1>4. Named(t) \subseteq Named(t)'
  BY NamedKept DEF kernel
<1>5. Task(t)'
  BY <1>3, <1>4 DEF Task, Looking, AtEntry, Keeping, Crossing, InPut, WithKey, Unmounts
<1>6. SameUses(t)
  BY <1>1, <1>3 DEF SameUses, HasInode, HasEmpty, Unmounts, InPut
<1> QED BY <1>5, <1>6, StillGoto DEF Places

LEMMA DevicePutStep ==
  ASSUME IInv, NEW t \in Tasks, DevicePut(t)
  PROVE  IInv'
<1>1. Turn(t) /\ pc[t] = "synced" /\ UNCHANGED kernel
  BY AtTurn DEF DevicePut
<1>2. CASE f[t].op = "mount"
  <2> DEFINE k == <<ROOT_DEV, MountNum>>
             fr == [f[t] EXCEPT !.key = k]
  <2>1. k \in AllKeys /\ k \in Named(t)
    BY KeyFacts DEF AllKeys, Roots, Named
  <2> HIDE DEF k
  <2>2. fr \in Frames /\ fr.key = k
    BY <2>1, TaskTyped DEF Frames
  <2> HIDE DEF fr
  <2>3. Goto(t, "empty", fr)
    BY <1>2 DEF DevicePut, fr, k
  <2> QED BY <1>1, <2>1, <2>2, <2>3, ToEmpty
<1>3. CASE f[t].op # "mount"
  <2>1. f[t] \in Frames /\ Goto(t, "umount", f[t])
    BY <1>3, TaskTyped DEF DevicePut
  <2>2. Moved(t, "umount", f[t])
    BY <2>1, GotoMoves DEF IInv, Places
  <2>3. ~Unmounts(t) /\ \A g : ~HasInode(t, g) /\ ~HasEmpty(t, g)
    BY <1>1 DEF Unmounts, InPut, HasInode, HasEmpty
  <2>4. Task(t)' /\ SameUses(t)
    BY <2>2, <2>3, TaskIdle DEF SameUses
  <2> QED BY <1>1, <2>1, <2>4, StillGoto DEF Places
<1> QED BY <1>2, <1>3

LEMMA StartStep ==
  ASSUME IInv, NEW t \in Tasks, NEW op \in Ops[t] \ {"unlink"}, NEW k \in Keys \cup {NoKey},
         Start(t, op, k)
  PROVE  IInv'
<1>1. Turn(t) /\ pc[t] = "idle" /\ UNCHANGED kernel
  BY AtTurn DEF Start
<1>2. /\ ~Unmounts(t) /\ \A g : ~HasInode(t, g) /\ ~HasEmpty(t, g)
  BY <1>1 DEF Unmounts, InPut, HasInode, HasEmpty
<1>3. op \in {"lookup", "create", "mount", "umount", "sync"}
  BY Constants
<1>4. CASE op = "lookup"
  <2> DEFINE fr == [NoFrame EXCEPT !.op = op, !.key = k]
  <2>1. k \in AllKeys
    BY DEF AllKeys
  <2>2. fr \in Frames /\ fr.op = op /\ fr.key = k
    BY <1>4, <2>1, NoFrameIs DEF Frames
  <2>3. Goto(t, "empty", fr)
    BY <1>4 DEF Start
  <2> HIDE DEF fr
  <2>4. k \in Named(t)
    <3>1. k[1] = ROOT_DEV /\ k[2] \in imap \cap ({MountNum} \cup Private[t]) /\ latest[k].nlinks = 1
      BY <1>4 DEF Start
    <3>2. k = <<ROOT_DEV, k[2]>>
      BY <2>1, <3>1, KeyFacts
    <3>3. CASE k[2] = MountNum
      BY <3>2, <3>3 DEF Named, Roots
    <3>4. CASE k[2] \in Private[t]
      <4>1. <<ROOT_DEV, k[2]>> \in {ROOT_DEV} \X (Private[t] \cap imap)
        BY <3>1, <3>4
      <4> QED BY <3>1, <3>2, <4>1 DEF Named
    <3> QED BY <3>1, <3>3, <3>4
  <2> QED BY <1>1, <2>2, <2>3, <2>4, ToEmpty
<1>5. CASE op = "create"
  <2> DEFINE fr == [NoFrame EXCEPT !.op = op]
  <2>1. fr \in Frames /\ fr.op = op
    BY <1>5, NoFrameIs DEF Frames
  <2>2. Goto(t, "empty", fr)
    BY <1>5 DEF Start
  <2> HIDE DEF fr
  <2> QED BY <1>1, <1>5, <2>1, <2>2, ToEmpty
<1>6. CASE op \in {"mount", "umount", "sync"}
  <2>1. PICK e \in Entries : e = CHOOSE g \in Entries : TRUE
    BY Constants
  <2> DEFINE fr == [NoFrame EXCEPT !.op = op, !.left = Entries, !.e = e]
  <2>2. fr \in Frames /\ fr.e = e
    BY <1>6, SyncFrame
  <2>3. Yield(t, "sync", fr)
    BY <1>6, <2>1 DEF Start, sync_inodes
  <2> HIDE DEF fr
  <2>4. Moved(t, "sync", fr)
    BY <2>2, <2>3, YieldMoves DEF IInv, Places
  <2>5. Task(t)' /\ SameUses(t)
    BY <1>2, <2>2, <2>4, TaskSync DEF SameUses
  <2> QED BY <1>1, <2>2, <2>3, <2>5, StillYield DEF Places
<1> QED BY <1>3, <1>4, <1>5, <1>6
-----------------------------------------------------------------------------
(* A step of t that changes the super block, mounts and unmounts nothing,  *)
(* while nobody else is at it.                                             *)
SuperType == [dev : {0, OtherDev}, lock : BOOLEAN, imount : Entries \cup {NULL}]

LEMMA SuperStep ==
  ASSUME IInv, NEW t \in Tasks, Turn(t), NEW w, NEW fr, Moved(t, w, fr),
         UNCHANGED <<inode, imap, disk, latest>>, sb' \in SuperType, Super',
         \A g \in Entries : /\ HasInode(t, g)' <=> HasInode(t, g)
                            /\ HasEmpty(t, g)' <=> HasEmpty(t, g)
                            /\ Mounted(g)' <=> Mounted(g),
         \A u \in Tasks : u # t => ~InSuper(u) /\ ~Unmounts(u),
         pc[t] # "read", Hot(t)' => cpu' = t, Task(t)', ~InIO(t)'
  PROVE  IInv'
<1>1. Types'
  BY DEF IInv, Types, Moved, SuperType
<1>2. EveryEntry'
  <2>1. {} \in SUBSET Entries /\ \A g \in {} : Entry(g)'
    OBVIOUS
  <2>2. \A g \in Entries : g \notin {} => inode'[g] = inode[g]
    OBVIOUS
  <2>3. \A g \in Entries : g \notin {} => (Mounted(g)' <=> Mounted(g))
    OBVIOUS
  <2>4. UNCHANGED <<imap, latest>>
    OBVIOUS
  <2> QED BY <2>1, <2>2, <2>3, <2>4, EntriesKept
<1>3. OneInodePerNumber'
  BY OneKept DEF IInv
<1>4. CountIsUsers'
  <2>1. ASSUME NEW g \in Entries
        PROVE  inode'[g].count + B(HasInode(t, g)) + B(HasEmpty(t, g)) + B(Mounted(g))
               = inode[g].count + B(HasInode(t, g)') + B(HasEmpty(t, g)') + B(Mounted(g)')
    <3>1. /\ B(HasInode(t, g)) = B(HasInode(t, g)') /\ B(HasEmpty(t, g)) = B(HasEmpty(t, g)')
          /\ B(Mounted(g)) = B(Mounted(g)')
      BY <2>1 DEF B
    <3> QED BY <3>1
  <2>2. inode' \in [Entries -> EntryType]
    BY DEF IInv, Types
  <2> QED BY <2>1, <2>2, CountsKept DEF IInv
<1>5. NoLostInode'
  BY NoLostKept DEF IInv
<1>6. Names' /\ \A u \in Tasks : Named(u) \subseteq Named(u)'
  BY SameNames
<1> QED BY <1>1, <1>2, <1>3, <1>4, <1>5, <1>6, Combined

LEMMA SuperTyped ==
  ASSUME IInv
  PROVE  /\ sb \in SuperType /\ (sb.dev = 0 => sb.imount = NULL)
         /\ \A g \in Entries : Mounted(g) => sb.imount # NULL
         /\ \A u \in Tasks : InSuper(u) => sb.lock
         /\ \A u \in Tasks : Unmounts(u) => ~sb.lock /\ sb.imount # NULL
<1>1. sb \in SuperType /\ (sb.dev = 0 => sb.imount = NULL)
  BY DEF IInv, Types, Super, SuperType
<1>2. \A g \in Entries : Mounted(g) => sb.imount # NULL
  BY NULLFacts DEF Mounted
<1>3. \A u \in Tasks : InSuper(u) => sb.lock
  BY DEF IInv, EveryTask, Task, InSuper
<1>4. \A u \in Tasks : Unmounts(u) => ~sb.lock /\ sb.imount # NULL
  BY DEF IInv, EveryTask, Task
<1> QED BY <1>1, <1>2, <1>3, <1>4

LEMMA ReadSuperStep ==
  ASSUME IInv, NEW t \in Tasks, ReadSuper(t)
  PROVE  IInv'
<1>1. Turn(t) /\ pc[t] = "read_super" /\ ~sb.lock /\ UNCHANGED <<inode, imap, disk, latest>>
  BY AtTurn DEF ReadSuper
<1>2. PICK e \in Entries : f[t].e = e
  BY <1>1, Holding
<1>3. f[t] \in Frames
  BY TaskTyped
<1>4. /\ inode[e].key # NoKey /\ ~Unmounts(t)
      /\ \A g : (HasInode(t, g) <=> e = g) /\ ~HasEmpty(t, g)
  BY <1>1, <1>2, Holding
<1>5. ASSUME NEW w \in {"mount", "super_io"}, Moved(t, w, f[t]),
             sb'.dev = OtherDev, w = "mount" => ~sb'.lock,
             w = "super_io" => sb'.lock /\ sb'.imount = NULL
      PROVE  /\ Task(t)' /\ ~Unmounts(t)'
             /\ \A g : (HasInode(t, g)' <=> HasInode(t, g)) /\ (HasEmpty(t, g)' <=> HasEmpty(t, g))
             /\ ~InIO(t)' /\ (Hot(t)' => w = "mount") /\ (InSuper(t)' <=> w = "super_io")
  <2>1. pc'[t] = w /\ f'[t] = f[t]
    BY <1>5 DEF Moved
  <2>2. ~Unmounts(t)' /\ ~InPut(t)' /\ ~Crossing(t)' /\ ~InIO(t)' /\ (Hot(t)' => w = "mount")
        /\ (InSuper(t)' <=> w = "super_io")
    BY <2>1 DEF Unmounts, InPut, Crossing, InIO, Hot, InSuper
  <2>3. Task(t)'
    BY <1>1, <1>2, <1>4, <1>5, <2>1, <2>2 DEF Task, Looking, AtEntry, Keeping, WithKey
  <2>4. \A g : (HasInode(t, g)' <=> HasInode(t, g)) /\ (HasEmpty(t, g)' <=> HasEmpty(t, g))
    BY <1>2, <1>4, <2>1, <2>2 DEF HasInode, HasEmpty
  <2> QED BY <2>2, <2>3, <2>4
<1>6. CASE sb.dev = OtherDev /\ Goto(t, "mount", f[t]) /\ UNCHANGED sb
  <2>1. Moved(t, "mount", f[t])
    BY <1>3, <1>6, GotoMoves DEF IInv, Places
  <2>2. Task(t)' /\ SameUses(t)
    BY <1>1, <1>4, <1>5, <1>6, <2>1 DEF SameUses
  <2> QED BY <1>1, <1>3, <1>6, <2>2, StillGoto DEF Places, kernel
<1>7. CASE /\ sb.dev = 0
           /\ sb' = [sb EXCEPT !.dev = OtherDev, !.lock = TRUE, !.imount = NULL]
           /\ Yield(t, "super_io", f[t])
  <2>1. Moved(t, "super_io", f[t])
    BY <1>3, <1>7, YieldMoves DEF IInv, Places
  <2>2. sb' \in SuperType /\ sb'.dev = OtherDev /\ sb'.lock /\ sb'.imount = NULL
    BY <1>7, SuperTyped DEF SuperType
  <2>3. /\ Task(t)' /\ ~InIO(t)' /\ ~Hot(t)'
        /\ \A g : (HasInode(t, g)' <=> HasInode(t, g)) /\ (HasEmpty(t, g)' <=> HasEmpty(t, g))
    BY <1>5, <2>1, <2>2
  <2>4. \A g \in Entries : Mounted(g)' <=> Mounted(g)
    BY <1>7, <2>2, NULLFacts, SuperTyped DEF Mounted
  <2>5. \A u \in Tasks : ~InSuper(u) /\ ~Unmounts(u)
    BY <1>1, <1>7, SuperTyped
  <2>6. Super'
    BY <2>2 DEF Super
  <2> QED BY <1>1, <2>1, <2>2, <2>3, <2>4, <2>5, <2>6, SuperStep
<1> QED BY <1>6, <1>7 DEF ReadSuper

LEMMA SuperReadStep ==
  ASSUME IInv, NEW t \in Tasks, SuperRead(t)
  PROVE  IInv'
<1>1. Turn(t) /\ pc[t] = "super_io" /\ UNCHANGED <<inode, imap, disk, latest>>
  BY AtTurn DEF SuperRead
<1>2. PICK e \in Entries : f[t].e = e
  BY <1>1, Holding
<1>3. /\ inode[e].key # NoKey /\ ~Unmounts(t)
      /\ \A g : (HasInode(t, g) <=> e = g) /\ ~HasEmpty(t, g)
  BY <1>1, <1>2, Holding
<1>4. sb.lock /\ sb.dev = OtherDev /\ sb.imount = NULL
  BY <1>1, TaskTyped DEF Task
<1>5. \A u \in Tasks : u # t => ~InSuper(u) /\ ~Unmounts(u)
  BY <1>1, <1>4, SuperTyped DEF IInv, OneInSuper, InSuper
<1>6. CASE sb' = [sb EXCEPT !.lock = FALSE] /\ Goto(t, "mount", f[t])
  <2>1. f[t] \in Frames
    BY TaskTyped
  <2>2. Moved(t, "mount", f[t]) /\ cpu' = t
    BY <1>6, <2>1, GotoMoves DEF IInv, Places
  <2>3. pc'[t] = "mount" /\ f'[t] = f[t]
    BY <2>2 DEF Moved
  <2>4. sb' \in SuperType /\ sb'.dev = OtherDev /\ ~sb'.lock /\ sb'.imount = NULL
    BY <1>4, <1>6, SuperTyped DEF SuperType
  <2>5. ~Unmounts(t)' /\ ~InPut(t)' /\ ~Crossing(t)' /\ ~InIO(t)'
    BY <2>3 DEF Unmounts, InPut, Crossing, InIO
  <2>6. Task(t)'
    BY <1>1, <1>2, <1>3, <2>3, <2>4, <2>5 DEF Task, Looking, AtEntry, Keeping, WithKey
  <2>7. \A g : (HasInode(t, g)' <=> HasInode(t, g)) /\ (HasEmpty(t, g)' <=> HasEmpty(t, g))
    BY <1>2, <1>3, <2>3, <2>5 DEF HasInode, HasEmpty
  <2>8. \A g \in Entries : Mounted(g)' <=> Mounted(g)
    BY <1>4, <2>4, NULLFacts DEF Mounted
  <2>9. Super'
    BY <2>4 DEF Super
  <2> QED BY <1>1, <1>5, <2>2, <2>4, <2>5, <2>6, <2>7, <2>8, <2>9, SuperStep
<1>7. CASE sb' = [sb EXCEPT !.dev = 0, !.lock = FALSE] /\ iput(t, e, "idle")
  <2> DEFINE fr == [f[t] EXCEPT !.e = e, !.back = "idle"]
  <2>1. /\ Moved(t, "put", fr)
        /\ Task(t)' /\ ~Unmounts(t)' /\ ~Hot(t)' /\ ~InIO(t)' /\ ~InSuper(t)'
        /\ \A g : (HasInode(t, g)' <=> g = e) /\ ~HasEmpty(t, g)'
    BY <1>7, IputMoves
  <2> HIDE DEF fr
  <2>2. sb' \in SuperType /\ sb'.imount = NULL
    BY <1>4, <1>7, SuperTyped DEF SuperType
  <2>3. Super'
    BY <2>2 DEF Super
  <2>4. \A g \in Entries : Mounted(g)' <=> Mounted(g)
    BY <1>4, <2>2, NULLFacts DEF Mounted
  <2> QED BY <1>1, <1>3, <1>5, <2>1, <2>2, <2>3, <2>4, SuperStep
<1> QED BY <1>2, <1>6, <1>7 DEF SuperRead

LEMMA PutSuperStep ==
  ASSUME IInv, OneUnmounter, NEW t \in Tasks, PutSuper(t)
  PROVE  IInv'
<1>1. Turn(t) /\ pc[t] = "put_super" /\ ~sb.lock /\ UNCHANGED <<inode, imap, disk, latest>>
  BY AtTurn DEF PutSuper
<1>2. /\ Unmounts(t) /\ ~InPut(t)
      /\ \A g : ~HasInode(t, g) /\ ~HasEmpty(t, g)
  BY <1>1 DEF Unmounts, InPut, HasInode, HasEmpty
<1>3. f[t] \in Frames
  BY TaskTyped
<1>4. Moved(t, "super_freed", f[t])
  BY <1>3, YieldMoves DEF PutSuper, IInv, Places
<1>5. pc'[t] = "super_freed" /\ f'[t] = f[t]
  BY <1>4 DEF Moved
<1>6. sb' \in SuperType /\ sb'.dev = 0 /\ sb'.lock /\ sb'.imount = NULL
  BY DEF PutSuper, SuperType
<1>7. ~Unmounts(t)' /\ ~InPut(t)' /\ ~Crossing(t)' /\ ~InIO(t)' /\ ~Hot(t)'
  BY <1>5 DEF Unmounts, InPut, Crossing, InIO, Hot
<1>8. Task(t)'
  BY <1>5, <1>6, <1>7 DEF Task, Looking, AtEntry, Keeping, WithKey
<1>9. \A g : ~HasInode(t, g)' /\ ~HasEmpty(t, g)'
  BY <1>5, <1>7 DEF HasInode, HasEmpty
<1>10. \A g \in Entries : Mounted(g)' <=> Mounted(g)
  BY <1>2, <1>6, NULLFacts DEF Mounted
<1>11. \A u \in Tasks : u # t => ~InSuper(u) /\ ~Unmounts(u)
  BY <1>1, <1>2, SuperTyped DEF OneUnmounter
<1>12. Super'
  BY <1>6 DEF Super
<1> QED BY <1>1, <1>2, <1>4, <1>6, <1>7, <1>8, <1>9, <1>10, <1>11, <1>12, SuperStep

LEMMA SuperFreedStep ==
  ASSUME IInv, NEW t \in Tasks, SuperFreed(t)
  PROVE  IInv'
<1>1. Turn(t) /\ pc[t] = "super_freed" /\ UNCHANGED <<inode, imap, disk, latest>>
  BY AtTurn DEF SuperFreed
<1>2. /\ ~Unmounts(t) /\ \A g : ~HasInode(t, g) /\ ~HasEmpty(t, g)
  BY <1>1 DEF Unmounts, InPut, HasInode, HasEmpty
<1>3. sb.lock /\ sb.dev = 0 /\ sb.imount = NULL
  BY <1>1, TaskTyped, SuperTyped DEF Task
<1>4. \A u \in Tasks : u # t => ~InSuper(u) /\ ~Unmounts(u)
  BY <1>1, <1>3, SuperTyped DEF IInv, OneInSuper, InSuper
<1>5. PICK e \in Entries : e = CHOOSE g \in Entries : TRUE
  BY Constants
<1> DEFINE fr == [NoFrame EXCEPT !.op = "sync", !.left = Entries, !.e = e]
<1>6. fr \in Frames /\ fr.e = e
  BY SyncFrame
<1>7. Yield(t, "sync", fr)
  BY <1>5 DEF SuperFreed, sync_inodes
<1> HIDE DEF fr
<1>8. Moved(t, "sync", fr)
  BY <1>6, <1>7, YieldMoves DEF IInv, Places
<1>9. /\ Task(t)' /\ ~Unmounts(t)' /\ ~Hot(t)' /\ ~InIO(t)' /\ ~InSuper(t)'
      /\ \A g : ~HasInode(t, g)' /\ ~HasEmpty(t, g)'
  BY <1>6, <1>8, TaskSync
<1>10. sb' \in SuperType /\ sb'.imount = NULL
  <2>1. sb' = [sb EXCEPT !.lock = FALSE]
    BY DEF SuperFreed
  <2> QED BY <1>3, <2>1, SuperTyped DEF SuperType
<1>11. Super'
  BY <1>10 DEF Super
<1>12. \A g \in Entries : Mounted(g)' <=> Mounted(g)
  BY <1>3, <1>10, NULLFacts DEF Mounted
<1> QED BY <1>1, <1>2, <1>4, <1>8, <1>9, <1>10, <1>11, <1>12, SuperStep
-----------------------------------------------------------------------------
(* Who has an inode shares it with no reader: it is read. *)
LEMMA HeldIsLatest ==
  ASSUME IInv, NEW t \in Tasks, NEW e \in Entries, UsedBy(t, e), pc[t] # "read", inode[e].key # NoKey
  PROVE  inode[e].c = latest[inode[e].key]
<1>1. ~Reading(e)
  BY SharedWith DEF Reading
<1> QED BY <1>1, EntryTyped DEF Entry

LEMMA EndMountStep ==
  ASSUME IInv, NEW t \in Tasks, EndMount(t)
  PROVE  IInv'
<1>1. Turn(t) /\ pc[t] = "mount" /\ UNCHANGED <<imap, disk, latest>>
  BY AtTurn DEF EndMount
<1>2. PICK e \in Entries : f[t].e = e
  BY <1>1, Holding
<1>3. /\ inode[e].key # NoKey /\ ~Unmounts(t) /\ UsedBy(t, e)
      /\ \A g : (HasInode(t, g) <=> e = g) /\ ~HasEmpty(t, g)
  BY <1>1, <1>2, Holding DEF UsedBy
<1>4. sb.dev = OtherDev /\ ~sb.lock
  BY <1>1, TaskTyped DEF Task
<1>5. CASE iput(t, e, "idle") /\ UNCHANGED <<sb, inode>>
  BY <1>1, <1>2, <1>5, IputStep DEF kernel
<1>6. CASE /\ sb.imount = NULL /\ ~inode[e].mount
           /\ sb' = [sb EXCEPT !.imount = e]
           /\ inode' = [inode EXCEPT ![e].mount = TRUE, ![e].dirt = TRUE]
           /\ Yield(t, "idle", NoFrame)
  <2> DEFINE x == [inode[e] EXCEPT !.mount = TRUE, !.dirt = TRUE]
  <2>1. /\ x \in EntryType /\ x.key = inode[e].key /\ x.count = inode[e].count /\ x.c = inode[e].c
        /\ x.lock = inode[e].lock /\ x.mount /\ x.dirt
    BY EntryTyped DEF EntryType
  <2>2. inode' = [inode EXCEPT ![e] = x]
    BY <1>6 DEF IInv, Types
  <2> HIDE DEF x
  <2>3. /\ inode' \in [Entries -> EntryType] /\ inode'[e] = x
        /\ \A g \in Entries : g # e => inode'[g] = inode[g]
    BY <2>1, <2>2, OneEntry DEF IInv
  <2>4. Moved(t, "idle", NoFrame)
    BY <1>6, NoFrameIs, YieldMoves DEF IInv, Places
  <2>5. /\ Task(t)' /\ ~Unmounts(t)' /\ ~Hot(t)' /\ ~InIO(t)' /\ ~InSuper(t)'
        /\ \A g : ~HasInode(t, g)' /\ ~HasEmpty(t, g)'
    BY <2>4, TaskIdle
  <2>6. sb' \in SuperType /\ sb'.dev = OtherDev /\ sb'.imount = e
    BY <1>4, <1>6, SuperTyped DEF SuperType
  <2>7. \A u \in Tasks : ~InSuper(u) /\ ~Unmounts(u)
    BY <1>4, <1>6, SuperTyped
  <2>8. \A u \in Tasks : ~Unmounts(u)'
    BY <2>4, <2>5, <2>7 DEF Moved, Unmounts, InPut
  <2>9. \A g \in Entries : ~Mounted(g) /\ (Mounted(g)' <=> g = e)
    BY <1>6, <2>6, <2>8, NULLFacts DEF Mounted
  <2>10. Types' /\ Super'
    BY <1>1, <2>3, <2>4, <2>6, NULLFacts DEF IInv, Types, Super, Moved, SuperType, OtherDev
  <2>11. Names' /\ \A u \in Tasks : Named(u) \subseteq Named(u)'
    BY <1>1, SameNames
  <2>12. inode[e].count >= 1
    BY <1>3, Counted DEF IInv
  <2>13. Plain(inode[e])'
    BY <1>1, <1>3, <2>1, <2>3, <2>12, EntryTyped DEF Plain
  <2>14. inode'[e].c = latest'[inode'[e].key]
    BY <1>1, <1>3, <2>1, <2>3, HeldIsLatest
  <2>15. Entry(e)'
    BY <2>1, <2>3, <2>9, <2>13, <2>14 DEF Entry
  <2>16. EveryEntry'
    <3>1. {e} \in SUBSET Entries /\ \A g \in {e} : Entry(g)'
      BY <2>15
    <3>2. \A g \in Entries : g \notin {e} => inode'[g] = inode[g]
      BY <2>3
    <3>3. \A g \in Entries : g \notin {e} => (Mounted(g)' <=> Mounted(g))
      BY <2>9
    <3>4. UNCHANGED <<imap, latest>> /\ pc[t] # "read"
      BY <1>1
    <3> QED BY <2>4, <3>1, <3>2, <3>3, <3>4, EntriesKept
  <2>17. ASSUME NEW g \in Entries
         PROVE  inode'[g].count + B(HasInode(t, g)) + B(HasEmpty(t, g)) + B(Mounted(g))
                = inode[g].count + B(HasInode(t, g)') + B(HasEmpty(t, g)') + B(Mounted(g)')
    <3>1. /\ B(HasInode(t, g)) = B(Mounted(g)') /\ B(HasEmpty(t, g)) = 0 /\ B(Mounted(g)) = 0
          /\ B(HasInode(t, g)') = 0 /\ B(HasEmpty(t, g)') = 0 /\ B(Mounted(g)') \in Nat
      BY <1>3, <2>5, <2>9 DEF B
    <3>2. inode'[g].count = inode[g].count /\ inode[g].count \in Nat
      BY <2>1, <2>3, EntryTyped
    <3> QED BY <3>1, <3>2
  <2>18. CountIsUsers'
    BY <2>3, <2>4, <2>17, CountsKept DEF IInv
  <2>19. OneInodePerNumber'
    BY <2>1, <2>3, OneKept DEF IInv
  <2>20. NoLostInode'
    BY <1>1, <2>1, <2>3, NoLostKept DEF IInv
  <2>21. ASSUME NEW u \in Tasks, u # t
         PROVE  Harmless(u, e)
    <3>1. ~HasEmpty(u, e) /\ (pc[u] \in {"read", "truncate"} => f[u].e # e)
      BY <1>3, <2>21, SharedWith
    <3> QED BY <1>3, <2>1, <2>3, <3>1 DEF Harmless
  <2>22. \A u \in Tasks, g \in Entries : u # t => inode'[g] = inode[g] \/ Harmless(u, g)
    BY <2>3, <2>21
  <2> QED BY <1>1, <2>4, <2>5, <2>7, <2>10, <2>11, <2>16, <2>18, <2>19, <2>20, <2>22, Combined
<1> QED BY <1>2, <1>5, <1>6 DEF EndMount

LEMMA UmountStep ==
  ASSUME IInv, OneUnmounter', NEW t \in Tasks, Umount(t)
  PROVE  IInv'
<1>1. Turn(t) /\ pc[t] = "umount" /\ ~sb.lock /\ UNCHANGED <<imap, disk, sb, latest>>
  BY AtTurn DEF Umount
<1>2. /\ ~Unmounts(t) /\ \A g : ~HasInode(t, g) /\ ~HasEmpty(t, g)
  BY <1>1 DEF Unmounts, InPut, HasInode, HasEmpty
<1>3. CASE Yield(t, "idle", NoFrame) /\ UNCHANGED inode
  <2>1. Moved(t, "idle", NoFrame)
    BY <1>3, NoFrameIs, YieldMoves DEF IInv, Places
  <2>2. Task(t)' /\ SameUses(t)
    BY <1>2, <2>1, TaskIdle DEF SameUses
  <2> QED BY <1>1, <1>3, <2>2, NoFrameIs, StillYield DEF Places, kernel
<1>4. CASE sb.imount # NULL /\ inode' = Unmarked(sb.imount) /\ iput(t, sb.imount, "put_super")
  <2>1. PICK i \in Entries : sb.imount = i
    BY <1>4, SuperTyped DEF SuperType
  <2> DEFINE x == [inode[i] EXCEPT !.mount = FALSE]
             fr == [f[t] EXCEPT !.e = i, !.back = "put_super"]
  <2>2. /\ x \in EntryType /\ x.key = inode[i].key /\ x.count = inode[i].count /\ x.c = inode[i].c
        /\ x.lock = inode[i].lock /\ x.dirt = inode[i].dirt /\ ~x.mount
    BY EntryTyped DEF EntryType
  <2>3. inode' = [inode EXCEPT ![i] = x]
    BY <1>4, <2>1 DEF Unmarked, IInv, Types
  <2>4. fr \in Frames /\ fr.e = i /\ fr.back = "put_super"
    BY TaskTyped DEF Frames
  <2>5. Goto(t, "put", fr)
    BY <1>4, <2>1 DEF iput
  <2> HIDE DEF x, fr
  <2>6. /\ inode' \in [Entries -> EntryType] /\ inode'[i] = x
        /\ \A g \in Entries : g # i => inode'[g] = inode[g]
    BY <2>2, <2>3, OneEntry DEF IInv
  <2>7. Moved(t, "put", fr)
    BY <2>4, <2>5, GotoMoves DEF IInv, Places
  <2>8. pc'[t] = "put" /\ f'[t] = fr
    BY <2>7 DEF Moved
  <2>9. Unmounts(t)' /\ InPut(t)' /\ ~Crossing(t)' /\ ~Hot(t)' /\ ~InIO(t)' /\ ~InSuper(t)'
    BY <2>4, <2>8 DEF Unmounts, InPut, Crossing, Hot, InIO, InSuper
  <2>10. Task(t)'
    BY <1>1, <2>1, <2>4, <2>8, <2>9, NULLFacts DEF Task, Looking, AtEntry, Keeping, WithKey
  <2>11. \A u \in Tasks : ~Unmounts(u)
    <3>1. ASSUME NEW u \in Tasks, u # t
          PROVE  Unmounts(u)' <=> Unmounts(u)
      BY <2>7, <3>1 DEF Moved, Unmounts, InPut
    <3> QED BY <1>2, <2>9, <3>1 DEF OneUnmounter
  <2>12. \A g \in Entries : (Mounted(g) <=> g = i) /\ ~Mounted(g)'
    BY <1>1, <2>1, <2>9, <2>11 DEF Mounted
  <2>13. \A g : (HasInode(t, g)' <=> g = i) /\ ~HasEmpty(t, g)'
    BY <2>4, <2>8, <2>9 DEF HasInode, HasEmpty
  <2>14. inode[i].key # NoKey /\ inode[i].count >= 1
    <3>1. Mounted(i) /\ inode[i].mount
      BY <2>12, EntryTyped DEF Entry
    <3> QED BY <3>1, EntryTyped, MountedCounted DEF Plain, IInv
  <2>15. Types' /\ Super'
    BY <1>1, <2>6, <2>7 DEF IInv, Types, Super, Moved
  <2>16. Names' /\ \A u \in Tasks : Named(u) \subseteq Named(u)'
    BY <1>1, SameNames
  <2>17. Plain(inode[i])'
    BY <1>1, <2>2, <2>6, <2>14, EntryTyped DEF Plain
  <2>18. ~Reading(i)' => inode'[i].c = latest'[inode'[i].key]
    <3>1. Reading(i) => Reading(i)'
      BY <1>1, <2>7 DEF Reading, Moved
    <3> QED BY <1>1, <2>2, <2>6, <2>14, <3>1, EntryTyped DEF Entry
  <2>19. Entry(i)'
    BY <2>2, <2>6, <2>12, <2>17, <2>18 DEF Entry
  <2>20. EveryEntry'
    <3>1. {i} \in SUBSET Entries /\ \A g \in {i} : Entry(g)'
      BY <2>19
    <3>2. \A g \in Entries : g \notin {i} => inode'[g] = inode[g]
      BY <2>6
    <3>3. \A g \in Entries : g \notin {i} => (Mounted(g)' <=> Mounted(g))
      BY <2>12
    <3>4. UNCHANGED <<imap, latest>> /\ pc[t] # "read"
      BY <1>1
    <3> QED BY <2>7, <3>1, <3>2, <3>3, <3>4, EntriesKept
  <2>21. ASSUME NEW g \in Entries
         PROVE  inode'[g].count + B(HasInode(t, g)) + B(HasEmpty(t, g)) + B(Mounted(g))
                = inode[g].count + B(HasInode(t, g)') + B(HasEmpty(t, g)') + B(Mounted(g)')
    <3>1. /\ B(HasInode(t, g)) = 0 /\ B(HasEmpty(t, g)) = 0 /\ B(Mounted(g)) = B(HasInode(t, g)')
          /\ B(HasInode(t, g)') \in Nat /\ B(HasEmpty(t, g)') = 0 /\ B(Mounted(g)') = 0
      BY <1>2, <2>12, <2>13 DEF B
    <3>2. inode'[g].count = inode[g].count /\ inode[g].count \in Nat
      BY <2>2, <2>6, EntryTyped
    <3> QED BY <3>1, <3>2
  <2>22. CountIsUsers'
    BY <2>6, <2>7, <2>21, CountsKept DEF IInv
  <2>23. OneInodePerNumber'
    BY <2>2, <2>6, OneKept DEF IInv
  <2>24. NoLostInode'
    BY <1>1, <2>2, <2>6, NoLostKept DEF IInv
  <2>25. ASSUME NEW u \in Tasks, u # t
         PROVE  Harmless(u, i)
    <3>1. ~HasEmpty(u, i)
      BY <2>14, AtKeyed DEF IInv
    <3> QED BY <2>2, <2>6, <3>1 DEF Harmless
  <2>26. \A u \in Tasks, g \in Entries : u # t => inode'[g] = inode[g] \/ Harmless(u, g)
    BY <2>6, <2>25
  <2> QED BY <1>1, <2>7, <2>9, <2>10, <2>15, <2>16, <2>20, <2>22, <2>23, <2>24, <2>26, Combined
<1> QED BY <1>3, <1>4 DEF Umount

(* The holder of an inode changes it; only what is its own loses its name. *)
LEMMA ChangeStep ==
  ASSUME IInv, NEW t \in Tasks, Turn(t), pc[t] = "hold", cpu' = NULL,
         UNCHANGED <<imap, disk, sb, pc, f>>, NEW e \in Entries, f[t].e = e, NEW c \in Contents,
         inode' = [inode EXCEPT ![e].c = c, ![e].dirt = TRUE],
         latest' = [latest EXCEPT ![inode[e].key] = c],
         c.nlinks = inode[e].c.nlinks \/ inode[e].key \in {ROOT_DEV} \X Private[t]
  PROVE  IInv'
<1>1. PICK k \in Keys : inode[e].key = k
  BY Holding, EntryTyped
<1> DEFINE x == [inode[e] EXCEPT !.c = c, !.dirt = TRUE]
<1>2. /\ x \in EntryType /\ x.key = k /\ x.count = inode[e].count /\ x.c = c
      /\ x.lock = inode[e].lock /\ x.mount = inode[e].mount /\ x.dirt
  BY <1>1, EntryTyped DEF EntryType
<1>3. inode' = [inode EXCEPT ![e] = x]
  BY DEF IInv, Types
<1> HIDE DEF x
<1>4. /\ inode' \in [Entries -> EntryType] /\ inode'[e] = x
      /\ \A g \in Entries : g # e => inode'[g] = inode[g]
  BY <1>2, <1>3, OneEntry DEF IInv
<1>5. /\ latest' \in [Keys -> Contents] /\ latest'[k] = c
      /\ \A l \in Keys : l # k => latest'[l] = latest[l]
  BY <1>1 DEF IInv, Types
<1>6. Moved(t, "hold", f[t]) /\ pc'[t] = "hold" /\ f'[t] = f[t]
  BY TaskTyped DEF Moved, IInv, Types
<1>7. k # NoKey /\ UsedBy(t, e)
  BY <1>1, Holding DEF UsedBy
<1>8. inode[e].c = latest[k] /\ inode[e].count >= 1
  BY <1>1, <1>7, HeldIsLatest, Counted DEF IInv
<1>9. SameUses(t) /\ ~InIO(t)' /\ ~InSuper(t)' /\ ~Hot(t)' /\ ~Unmounts(t)'
  BY <1>6 DEF SameUses, HasInode, HasEmpty, Unmounts, InPut, InIO, InSuper, Hot, Crossing
<1>10. Task(t)'
  BY <1>2, <1>4, <1>6, <1>7, <1>9 DEF Task, Looking, AtEntry, Keeping, Crossing, InPut, WithKey
<1>11. Types' /\ Super'
  BY <1>4, <1>5, <1>6 DEF IInv, Types, Super, Moved
<1>12. \A g \in Entries : inode'[g].count = inode[g].count /\ inode'[g].key = inode[g].key
                          /\ (inode'[g].mount <=> inode[g].mount)
  BY <1>1, <1>2, <1>4
<1>13. CountIsUsers' /\ \A g : Mounted(g)' <=> Mounted(g)
  BY <1>4, <1>6, <1>9, <1>12, CountsSame DEF IInv
<1>14. OneInodePerNumber'
  BY <1>12, OneKept DEF IInv
<1>15. k \notin {ROOT_DEV} \X Private[t] => latest'[k].nlinks = latest[k].nlinks
  BY <1>1, <1>5, <1>8
<1>16. Names'
  <2>1. k \in Roots => k \notin {ROOT_DEV} \X Private[t]
    BY Constants DEF Roots, ROOT_DEV, OtherDev
  <2>2. \A l \in Roots : latest'[l].nlinks = latest[l].nlinks
    BY <1>5, <1>15, <2>1, KeyFacts
  <2> QED BY <2>2 DEF IInv, Names
<1>17. ASSUME NEW u \in Tasks, u # t
       PROVE  Named(u) \subseteq Named(u)'
  <2> SUFFICES ASSUME NEW l \in Named(u), l \notin Roots
               PROVE  l \in Named(u)'
    BY DEF Named
  <2>1. l \in Keys /\ latest[l].nlinks = 1 /\ l \in {ROOT_DEV} \X (Private[u] \cap imap)
    BY NamedHasLink DEF Named
  <2>2. l \notin {ROOT_DEV} \X Private[t]
    <3>1. Private[t] \cap Private[u] = {}
      BY <1>17, Constants
    <3> QED BY <2>1, <3>1
  <2>3. latest'[l].nlinks = 1
    BY <1>5, <1>15, <2>1, <2>2
  <2> QED BY <2>1, <2>3 DEF Named
<1>18. ASSUME NEW g \in Entries
       PROVE  Entry(g)'
  <2>1. Plain(inode[g]) /\ (inode[g].mount <=> Mounted(g)) /\ Entry(g)
    BY EntryTyped DEF Entry
  <2>2. inode'[g].mount <=> Mounted(g)'
    BY <1>12, <1>13, <2>1
  <2>3. CASE g = e
    <3>1. Plain(inode[e])'
      BY <1>1, <1>2, <1>4, <1>7, <1>8, EntryTyped DEF Plain
    <3>2. inode'[e].c = latest'[inode'[e].key]
      BY <1>2, <1>4, <1>5
    <3> QED BY <2>2, <2>3, <3>1, <3>2 DEF Entry
  <2>4. CASE g # e
    <3>1. inode'[g] = inode[g]
      BY <1>4, <2>4
    <3>2. Plain(inode[g])'
      <4>1. inode'[g].key[1] = ROOT_DEV => inode'[g].key[2] \in imap'
        BY <2>1, <3>1 DEF Plain
      <4> QED BY <2>1, <3>1, <4>1 DEF Plain
    <3>3. inode[g].key # NoKey => latest'[inode[g].key] = latest[inode[g].key]
      <4>1. inode[g].key # k
        BY <1>1, <1>7, <2>4 DEF IInv, OneInodePerNumber
      <4> QED BY <1>5, <4>1, EntryTyped
    <3> QED BY <1>6, <2>1, <2>2, <3>1, <3>2, <3>3, EntryKept
  <2> QED BY <2>3, <2>4
<1>19. NoLostInode'
  <2> SUFFICES ASSUME NEW l \in Keys, disk[l] # latest'[l], ~(l[1] = ROOT_DEV /\ l[2] \notin imap)
               PROVE  \E g \in Entries : inode'[g].key = l /\ inode'[g].dirt /\ inode'[g].c = latest'[l]
    BY DEF NoLostInode
  <2>1. CASE l = k
    <3>1. inode'[e].key = l /\ inode'[e].dirt /\ inode'[e].c = latest'[l]
      BY <1>2, <1>4, <1>5, <2>1
    <3> QED BY <3>1
  <2>2. CASE l # k
    <3>1. latest'[l] = latest[l]
      BY <1>5, <2>2
    <3>2. PICK g \in Entries : inode[g].key = l /\ inode[g].dirt /\ inode[g].c = latest[l]
      BY <3>1 DEF IInv, NoLostInode
    <3>3. g # e
      BY <1>1, <2>2, <3>2
    <3> QED BY <1>4, <3>1, <3>2, <3>3
  <2> QED BY <2>1, <2>2
<1>20. ASSUME NEW u \in Tasks, u # t
       PROVE  Harmless(u, e)
  <2>1. ~HasEmpty(u, e) /\ (pc[u] \in {"read", "truncate"} => f[u].e # e)
    BY <1>7, <1>20, SharedWith
  <2> QED BY <1>1, <1>2, <1>4, <1>7, <2>1 DEF Harmless
<1>21. EveryEntry' /\ \A u \in Tasks, g \in Entries : u # t => inode'[g] = inode[g] \/ Harmless(u, g)
  BY <1>4, <1>18, <1>20 DEF EveryEntry
<1> QED BY <1>6, <1>9, <1>10, <1>11, <1>13, <1>14, <1>16, <1>17, <1>19, <1>21, Combined

LEMMA ModifyStep ==
  ASSUME IInv, NEW t \in Tasks, Modify(t)
  PROVE  IInv'
<1>1. Turn(t) /\ pc[t] = "hold" /\ UNCHANGED <<imap, disk, sb, pc, f>> /\ cpu' = NULL
  BY AtTurn DEF Modify, Using
<1>2. PICK e \in Entries : f[t].e = e
  BY <1>1, Holding
<1>3. inode[e].key # NoKey /\ UsedBy(t, e)
  BY <1>1, <1>2, Holding DEF UsedBy
<1>4. inode[e].c = latest[inode[e].key]
  BY <1>1, <1>3, HeldIsLatest
<1> DEFINE c == [inode[e].c EXCEPT !.data = ~@]
<1>5. c \in Contents /\ c.nlinks = inode[e].c.nlinks
  BY EntryTyped DEF Contents
<1>6. inode' = [inode EXCEPT ![e].c = c, ![e].dirt = TRUE]
  BY <1>2 DEF Modify, IInv, Types
<1>7. latest' = [latest EXCEPT ![inode[e].key] = c]
  <2>1. PICK k \in Keys : inode[e].key = k
    BY <1>3, EntryTyped
  <2>2. latest' = [latest EXCEPT ![k] = [latest[k] EXCEPT !.data = ~@]]
    BY <1>2, <2>1 DEF Modify
  <2> QED BY <1>4, <2>1, <2>2
<1> HIDE DEF c
<1> QED BY <1>1, <1>2, <1>5, <1>6, <1>7, ChangeStep

LEMMA UnlinkStep ==
  ASSUME IInv, NEW t \in Tasks, Unlink(t)
  PROVE  IInv'
<1>1. Turn(t) /\ pc[t] = "hold" /\ UNCHANGED <<imap, disk, sb, pc, f>> /\ cpu' = NULL
  BY AtTurn DEF Unlink, Using
<1>2. PICK e \in Entries : f[t].e = e
  BY <1>1, Holding
<1>3. inode[e].key # NoKey /\ UsedBy(t, e)
  BY <1>1, <1>2, Holding DEF UsedBy
<1>4. inode[e].c = latest[inode[e].key]
  BY <1>1, <1>3, HeldIsLatest
<1> DEFINE c == [inode[e].c EXCEPT !.nlinks = 0]
<1>5. c \in Contents
  BY EntryTyped DEF Contents
<1>6. inode' = [inode EXCEPT ![e].c = c, ![e].dirt = TRUE]
  BY <1>2 DEF Unlink, IInv, Types
<1>7. latest' = [latest EXCEPT ![inode[e].key] = c]
  BY <1>2, <1>4 DEF Unlink, IInv, Types
<1>8. inode[e].key \in {ROOT_DEV} \X Private[t]
  BY <1>2 DEF Unlink
<1> HIDE DEF c
<1> QED BY <1>1, <1>2, <1>5, <1>6, <1>7, <1>8, ChangeStep
-----------------------------------------------------------------------------
LEMMA InitIInv ==
  ASSUME Init
  PROVE  IInv
<1>1. disk \in [Keys -> Contents] /\ latest = disk /\ \A k \in Keys : latest[k].nlinks = 1
  BY DEF Init, Contents
<1>2. Types
  <2>1. inode \in [Entries -> EntryType]
    BY BlankTyped DEF Init
  <2>2. sb \in [dev : {0, OtherDev}, lock : BOOLEAN, imount : Entries \cup {NULL}]
    BY DEF Init
  <2>3. imap \subseteq Nums /\ cpu \in Tasks \cup {NULL}
    BY Constants DEF Init
  <2>4. pc \in [Tasks -> Places] /\ f \in [Tasks -> Frames]
    BY NoFrameIs DEF Init, Places
  <2> QED BY <1>1, <2>1, <2>2, <2>3, <2>4 DEF Types
<1>3. ASSUME NEW t \in Tasks
      PROVE  /\ ~Hot(t) /\ Task(t) /\ ~InIO(t) /\ ~InSuper(t) /\ ~Unmounts(t) /\ pc[t] # "read"
             /\ \A e : ~HasInode(t, e) /\ ~HasEmpty(t, e)
  <2>1. pc[t] = "idle"
    BY DEF Init
  <2>2. /\ ~Hot(t) /\ ~InIO(t) /\ ~InSuper(t) /\ ~Unmounts(t) /\ pc[t] # "read"
        /\ \A e : ~HasInode(t, e) /\ ~HasEmpty(t, e)
    BY <2>1 DEF Hot, Crossing, InIO, InSuper, Unmounts, InPut, HasInode, HasEmpty
  <2>3. Task(t)
    BY <2>1, <2>2 DEF Task, Looking, AtEntry, Keeping, Crossing, InPut, WithKey
  <2> QED BY <2>2, <2>3
<1>4. Running /\ EveryTask /\ OneIO /\ OneInSuper
  BY <1>3 DEF Running, EveryTask, OneIO, OneInSuper
<1>5. Names
  BY <1>1, KeyFacts DEF Init, Names
<1>6. Super
  BY DEF Init, Super
<1>7. ASSUME NEW e \in Entries
      PROVE  inode[e] = Blank /\ ~Mounted(e)
  <2>1. inode[e] = Blank
    BY DEF Init
  <2>2. ~Mounted(e)
    BY NULLFacts DEF Init, Mounted
  <2> QED BY <2>1, <2>2
<1>8. EveryEntry /\ OneInodePerNumber
  <2>1. NoKey[1] # ROOT_DEV
    BY DEF NoKey, ROOT_DEV
  <2> QED BY <1>7, <2>1, BlankTyped DEF EveryEntry, Entry, Plain, OneInodePerNumber
<1>9. CountIsUsers
  <2>1. ASSUME NEW e \in Entries
        PROVE  inode[e].count = Count(e)
    <3>1. Holders(e) = {} /\ Keepers(e) = {}
      BY <1>3 DEF Holders, Keepers
    <3>2. Cardinality(Holders(e)) = 0 /\ Cardinality(Keepers(e)) = 0
      BY <3>1, FS_EmptySet
    <3> QED BY <1>7, <3>2, BlankTyped DEF Count, B
  <2> QED BY <2>1, CountIs
<1>10. NoLostInode
  BY <1>1 DEF NoLostInode
<1> QED BY <1>2, <1>4, <1>5, <1>6, <1>8, <1>9, <1>10 DEF IInv

LEMMA NextStep ==
  ASSUME IInv, WriteAndFreeApart, OneUnmounter, OneUnmounter', [Next]_vars
  PROVE  IInv'
<1>1. ASSUME NEW t \in Tasks, TaskStep(t)
      PROVE  IInv'
  <2>1. CASE Sleep(t) \/ StartWrite(t) \/ EndWrite(t) \/ GetEmpty(t) \/ EmptyWait(t) \/ Scan(t)
    BY <2>1, SleepStep, StartWriteStep, EndWriteStep, GetEmptyStep, EmptyWaitStep, ScanStep
  <2>2. CASE Read(t) \/ Found(t) \/ Cross(t) \/ Put(t) \/ Repeat(t)
    BY <2>2, ReadStep, FoundStep, CrossStep, PutStep, RepeatStep
  <2>3. CASE free_inode(t) \/ new_inode(t) \/ Sync(t)
    BY <2>3, FreeInodeStep, NewInodeStep, SyncStep
  <2>4. CASE DevicePut(t) \/ StartMount(t) \/ ReadSuper(t) \/ SuperRead(t) \/ EndMount(t)
    BY <2>4, DevicePutStep, StartMountStep, ReadSuperStep, SuperReadStep, EndMountStep
  <2>5. CASE Umount(t) \/ PutSuper(t) \/ SuperFreed(t)
    BY <2>5, UmountStep, PutSuperStep, SuperFreedStep
  <2>6. CASE Modify(t) \/ Unlink(t) \/ Release(t)
    BY <2>6, ModifyStep, UnlinkStep, ReleaseStep
  <2> QED BY <1>1, <2>1, <2>2, <2>3, <2>4, <2>5, <2>6 DEF TaskStep
<1>2. ASSUME NEW t \in Tasks, NEW op \in Ops[t] \ {"unlink"}, NEW k \in Keys \cup {NoKey},
             Start(t, op, k)
      PROVE  IInv'
  BY <1>2, StartStep
<1>3. CASE UNCHANGED vars
  <2>1. UNCHANGED <<kernel, pc, f, cpu>>
    BY <1>3 DEF vars, kernel
  <2> QED BY <2>1, Stopped
<1> QED BY <1>1, <1>2, <1>3 DEF Next

(* A behaviour in which no entry is freed under a writer and one task at a *)
(* time unmounts. *)
Apart == WriteAndFreeApart /\ OneUnmounter

LEMMA Inductive == Spec /\ []Apart => []IInv
<1>1. Init => IInv
  BY InitIInv
<1>2. IInv /\ Apart /\ Apart' /\ [Next]_vars => IInv'
  BY NextStep DEF Apart
<1> QED BY <1>1, <1>2, PTL DEF Spec

(* iget() looks through the table, may sleep and looks again: however its  *)
(* sleeps interleave with those of iput(), new_inode() and sync_inodes(),  *)
(* no inode of a disk is in the table twice (inode.c:244).                 *)
THEOREM InodeOnce == Spec /\ []Apart => []OneInodePerNumber
<1>1. IInv => OneInodePerNumber
  BY DEF IInv
<1> QED BY <1>1, Inductive, PTL

(* i_count is at any time the number of tasks that have the inode, and one *)
(* for the device mounted on it: iget(), iput(), sys_mount() and           *)
(* sys_umount() neither lose a use nor give one back twice.                *)
THEOREM CountsAreUses == Spec /\ []Apart => []CountIsUsers
<1>1. IInv => CountIsUsers
  BY DEF IInv
<1> QED BY <1>1, Inductive, PTL

(* What a task last wrote into an inode is on the disk, or in the table    *)
(* and marked i_dirt; get_empty_inode() and write_inode() lose none.       *)
THEOREM NoInodeLost == Spec /\ []Apart => []NoLostInode
<1>1. IInv => NoLostInode
  BY DEF IInv
<1> QED BY <1>1, Inductive, PTL

(* The table keeps its shape, and a count its bound: two uses of each task *)
(* and the mounted device.                                                 *)
THEOREM InodesTyped == Spec /\ []Apart => []TypeOK
<1>1. IInv => TypeOK
  <2> SUFFICES ASSUME IInv
               PROVE  TypeOK
    OBVIOUS
  <2> DEFINE n == Cardinality(Tasks)
  <2>1. ASSUME NEW e \in Entries
        PROVE  inode[e].count \in 0 .. 2 * n + 1
    <3> DEFINE h == Cardinality(Holders(e))
               k == Cardinality(Keepers(e))
               b == B(Mounted(e))
    <3>1. Holders(e) \subseteq Tasks /\ Keepers(e) \subseteq Tasks
      BY DEF Holders, Keepers
    <3>2. h =< n /\ k =< n /\ n \in Nat
      BY <3>1, Constants, FS_Subset, FS_CardinalityType
    <3>3. h \in Nat /\ k \in Nat /\ inode[e].count = h + k + b
      BY CountParts, CountIs DEF IInv, Count
    <3>4. b \in 0 .. 1
      BY DEF B
    <3> HIDE DEF h, k, b, n
    <3> QED BY <3>2, <3>3, <3>4
  <2> HIDE DEF n
  <2>2. ASSUME NEW e \in Entries
        PROVE  inode[e] \in [key : AllKeys, count : 0 .. 2 * n + 1, dirt : BOOLEAN,
                             lock : BOOLEAN, mount : BOOLEAN, c : Contents]
    BY <2>1, EntryTyped DEF EntryType
  <2>3. inode \in [Entries -> [key : AllKeys, count : 0 .. 2 * n + 1, dirt : BOOLEAN,
                               lock : BOOLEAN, mount : BOOLEAN, c : Contents]]
    BY <2>2 DEF IInv, Types
  <2>4. imap \subseteq Nums /\ cpu \in Tasks \cup {NULL}
    BY DEF IInv, Types
  <2> QED BY <2>3, <2>4 DEF TypeOK, AllKeys, n
<1> QED BY <1>1, Inductive, PTL
-----------------------------------------------------------------------------
(* Which tasks can come into the two situations.                           *)
Unlinks(t) == "unlink" \in Ops[t]
MayFree(t) ==
  Unlinks(t) \/ (Ops[t] \cap {"create", "umount"} # {} /\ \E v \in Tasks : Unlinks(v))
MaySync(t) == Ops[t] \cap {"sync", "mount", "umount"} # {}

(* One task unmounts, and nobody syncs while another may free inodes: by   *)
(* sync, or by mount and umount, which iput() the inode of a device.       *)
OpsApart ==
  /\ \A t, u \in Tasks : "umount" \in Ops[t] /\ "umount" \in Ops[u] => t = u
  /\ \A t, u \in Tasks : MayFree(t) /\ MaySync(u) => t = u

Where(t, w, fr) ==
  /\ w \in {"umount", "put_super", "super_freed"} \/ fr.back = "put_super" \/ fr.op = "umount"
       => "umount" \in Ops[t]
  /\ w = "sync" \/ fr.ret = "sync" => MaySync(t)
  /\ w = "bit" \/ fr.op = "create" => "create" \in Ops[t]
  /\ w = "sync" \/ fr.ret = "sync" => fr.op \in {"mount", "umount", "sync"}
  /\ w = "synced" => fr.op \in {"mount", "umount"}

(* Inodes only others look up are had by who creates them, or unmounts.    *)
Others(t, k) == \E v \in Tasks \ {t} : k \in {ROOT_DEV} \X Private[v]
Origin(t) ==
  /\ Where(t, pc[t], f[t])
  /\ \A e \in Entries :
       HasInode(t, e) /\ Others(t, inode[e].key) => Ops[t] \cap {"create", "umount"} # {}
Unlinked ==
  \A k \in Keys : latest[k].nlinks = 0 =>
    \E v \in Tasks : Unlinks(v) /\ k \in {ROOT_DEV} \X Private[v]
Origins == (\A t \in Tasks : Origin(t)) /\ Unlinked

LEMMA OriginsApart ==
  ASSUME OpsApart, IInv, Origins
  PROVE  WriteAndFreeApart
<1> SUFFICES ASSUME NEW t \in Tasks, NEW u \in Tasks, pc[t] = "truncate", pc[u] = "write_io",
                    f[t].e = f[u].e
             PROVE  FALSE
  BY DEF WriteAndFreeApart
<1>1. PICK e \in Entries : f[t].e = e
  BY TaskTyped DEF Task, AtEntry
<1>2. HasInode(t, e)
  BY <1>1, HasIt
<1>3. inode[e].count = 1 /\ inode[e].c.nlinks = 0 /\ inode[e].key # NoKey
  BY <1>1, TaskTyped DEF Task, WithKey, InPut
<1>4. inode[e].c = latest[inode[e].key]
  BY <1>2, <1>3, HeldIsLatest DEF UsedBy
<1>5. t # u
  OBVIOUS
<1>6. f[u].ret = "sync"
  <2>1. ~HasInode(u, e)
    BY <1>2, <1>3, <1>5, SoleUser DEF IInv, UsedBy
  <2>2. f[u].ret \in {"repeat", "sync"}
    BY TaskTyped DEF Task
  <2> QED BY <1>1, <2>1, <2>2 DEF HasInode, InPut
<1>7. MaySync(u)
  BY <1>6 DEF Origins, Origin, Where
<1>8. PICK v \in Tasks : Unlinks(v) /\ inode[e].key \in {ROOT_DEV} \X Private[v]
  BY <1>3, <1>4, EntryTyped DEF Origins, Unlinked
<1>9. MayFree(t)
  <2>1. CASE v = t
    BY <1>8, <2>1 DEF MayFree
  <2>2. CASE v # t
    <3>1. Others(t, inode[e].key)
      BY <1>8, <2>2 DEF Others
    <3> QED BY <1>2, <1>8, <3>1 DEF Origins, Origin, MayFree
  <2> QED BY <2>1, <2>2
<1> QED BY <1>5, <1>7, <1>9 DEF OpsApart

LEMMA OriginsUnmounter ==
  ASSUME OpsApart, Origins
  PROVE  OneUnmounter
BY DEF OpsApart, Origins, Origin, Where, OneUnmounter, Unmounts

(* A step of t, which has no inode it should not have. *)
StaysAt(t) == \A u \in Tasks : u # t => pc'[u] = pc[u] /\ f'[u] = f[u]
KeysStay(t) ==
  \A e \in Entries : inode'[e].key \in {inode[e].key, NoKey} \/ (HasEmpty(t, e) /\ inode[e].count = 1)
Got(t) ==
  \A e \in Entries : HasInode(t, e)' =>
    \/ HasInode(t, e) /\ inode'[e].key \in {inode[e].key, NoKey}
    \/ inode'[e].key \in Named(t) \cup {NoKey}
    \/ Ops[t] \cap {"create", "umount"} # {}
NoneUnlinked == \A k \in Keys : latest'[k].nlinks = 0 => latest[k].nlinks = 0

LEMMA NamedNotOthers ==
  ASSUME NEW t \in Tasks, NEW k \in Named(t) \cup {NoKey}
  PROVE  ~Others(t, k)
<1> SUFFICES ASSUME NEW v \in Tasks, v # t, k \in {ROOT_DEV} \X Private[v]
             PROVE  FALSE
  BY DEF Others
<1>1. k = <<ROOT_DEV, k[2]>> /\ k[2] \in Private[v] /\ k[2] # MountNum /\ k[2] \notin Private[t]
  <2>1. Private[t] \cap Private[v] = {} /\ MountNum \notin Private[v]
    BY Constants
  <2> QED BY <2>1
<1>2. k # NoKey /\ k \notin Roots
  BY <1>1 DEF NoKey, Roots, ROOT_DEV, OtherDev
<1> QED BY <1>1, <1>2 DEF Named

LEMMA OriginsStep ==
  ASSUME IInv, Origins, NEW t \in Tasks, StaysAt(t), KeysStay(t), Got(t),
         Where(t, pc'[t], f'[t]), Unlinked'
  PROVE  Origins'
<1>1. Origin(t)'
  <2>1. ASSUME NEW e \in Entries, HasInode(t, e)', Others(t, inode'[e].key)
        PROVE  Ops[t] \cap {"create", "umount"} # {}
    <3>1. inode'[e].key \notin Named(t) \cup {NoKey}
      BY <2>1, NamedNotOthers
    <3> QED BY <2>1, <3>1 DEF Got, Origins, Origin
  <2> QED BY <2>1 DEF Origin, Others
<1>2. ASSUME NEW u \in Tasks, u # t
      PROVE  Origin(u)'
  <2>1. pc'[u] = pc[u] /\ f'[u] = f[u] /\ Origin(u)
    BY <1>2 DEF StaysAt, Origins
  <2>2. ASSUME NEW e \in Entries, HasInode(u, e)', Others(u, inode'[e].key)
        PROVE  Ops[u] \cap {"create", "umount"} # {}
    <3>1. HasInode(u, e)
      BY <2>1, <2>2 DEF HasInode, InPut
    <3>2. ~(HasEmpty(t, e) /\ inode[e].count = 1)
      BY <1>2, <3>1, SoleUser DEF IInv, UsedBy
    <3>3. inode'[e].key # NoKey
      BY <2>2, NamedNotOthers
    <3>4. inode'[e].key = inode[e].key
      BY <3>2, <3>3 DEF KeysStay
    <3> QED BY <2>1, <2>2, <3>1, <3>4 DEF Origin
  <2> QED BY <2>1, <2>2 DEF Origin, Others
<1> QED BY <1>1, <1>2 DEF Origins

(* Where Goto and Yield leave t. *)
LEMMA Went ==
  ASSUME IInv, NEW t \in Tasks, NEW w, NEW fr, Goto(t, w, fr) \/ Yield(t, w, fr)
  PROVE  StaysAt(t) /\ pc'[t] = w /\ f'[t] = fr
BY DEF IInv, Types, Goto, Yield, StaysAt

LEMMA UnlinkedKept ==
  ASSUME Origins, NoneUnlinked
  PROVE  Unlinked'
BY DEF Origins, Unlinked, NoneUnlinked

(* A step that changes no key and no last contents, and gives t no inode. *)
LEMMA OriginsGoto ==
  ASSUME IInv, Origins, NEW t \in Tasks, NEW w, NEW fr, Goto(t, w, fr) \/ Yield(t, w, fr),
         Where(t, w, fr), UNCHANGED latest,
         \A e \in Entries : inode'[e].key = inode[e].key,
         \A e \in Entries : HasInode(t, e)' => HasInode(t, e)
  PROVE  Origins'
<1>1. StaysAt(t) /\ pc'[t] = w /\ f'[t] = fr
  BY Went
<1>2. KeysStay(t) /\ Got(t)
  BY DEF KeysStay, Got
<1>3. Unlinked'
  BY UnlinkedKept DEF NoneUnlinked
<1> QED BY <1>1, <1>2, <1>3, OriginsStep

LEMMA OriginsStopped ==
  ASSUME Origins, UNCHANGED <<pc, f, latest>>, \A e \in Entries : inode'[e].key = inode[e].key
  PROVE  Origins'
<1>1. \A t \in Tasks : Origin(t)'
  BY DEF Origins, Origin, HasInode, InPut
<1>2. Unlinked'
  BY DEF Origins, Unlinked
<1> QED BY <1>1, <1>2 DEF Origins

LEMMA OriginTyped ==
  ASSUME IInv, Origins, NEW t \in Tasks
  PROVE  /\ pc[t] \in {"umount", "put_super", "super_freed"} \/ f[t].back = "put_super"
            \/ f[t].op = "umount" => "umount" \in Ops[t]
         /\ pc[t] = "sync" \/ f[t].ret = "sync" => MaySync(t)
         /\ pc[t] = "bit" \/ f[t].op = "create" => "create" \in Ops[t]
         /\ pc[t] = "sync" \/ f[t].ret = "sync" => f[t].op \in {"mount", "umount", "sync"}
BY DEF Origins, Origin, Where

LEMMA WriteOrigins ==
  ASSUME IInv, Origins, NEW t \in Tasks, StartWrite(t) \/ EndWrite(t)
  PROVE  Origins'
<1>1. pc[t] \in {"write", "write_io"}
  BY DEF StartWrite, EndWrite, At
<1>2. PICK e \in Entries : f[t].e = e
  BY <1>1, TaskTyped DEF Task, AtEntry
<1>3. f[t].ret \in {"repeat", "sync"}
  BY <1>1, TaskTyped DEF Task
<1>4. CASE Panic
  BY <1>4, OriginsStopped DEF Panic, kernel
<1> DEFINE back == [f[t] EXCEPT !.ret = "", !.block = NoKey]
           ret == [f[t] EXCEPT !.ret = ""]
           io == [f[t] EXCEPT !.block = inode[e].key]
<1>5. /\ back.e = e /\ back.back = f[t].back /\ back.op = f[t].op /\ back.ret = ""
      /\ ret.e = e /\ ret.back = f[t].back /\ ret.op = f[t].op /\ ret.ret = ""
      /\ io.e = e /\ io.back = f[t].back /\ io.op = f[t].op /\ io.ret = f[t].ret
  BY <1>2, TaskTyped DEF Frames
<1> HIDE DEF back, ret, io
<1>6. CASE Goto(t, f[t].ret, ret) /\ UNCHANGED kernel
  <2>1. StaysAt(t) /\ pc'[t] = f[t].ret /\ f'[t] = ret
    BY <1>6, Went
  <2>2. \A g \in Entries : HasInode(t, g)' => HasInode(t, g)
    BY <1>1, <1>2, <1>3, <1>5, <2>1 DEF HasInode, InPut
  <2>3. Where(t, f[t].ret, ret)
    BY <1>3, <1>5, OriginTyped DEF Where
  <2> QED BY <1>6, <2>2, <2>3, OriginsGoto DEF kernel
<1>7. CASE /\ inode' = [inode EXCEPT ![e].lock = TRUE] /\ Yield(t, "write_io", io)
           /\ pc[t] = "write" /\ UNCHANGED latest
  <2>1. StaysAt(t) /\ pc'[t] = "write_io" /\ f'[t] = io
    BY <1>7, Went
  <2>2. \A g \in Entries : HasInode(t, g)' => HasInode(t, g)
    BY <1>2, <1>5, <1>7, <2>1 DEF HasInode, InPut
  <2>3. Where(t, "write_io", io)
    BY <1>5, OriginTyped DEF Where
  <2>4. \A g \in Entries : inode'[g].key = inode[g].key
    BY <1>7 DEF IInv, Types, EntryType
  <2> QED BY <1>7, <2>2, <2>3, <2>4, OriginsGoto
<1>8. CASE inode' = Written(e) /\ Goto(t, f[t].ret, back) /\ UNCHANGED latest
  <2>1. StaysAt(t) /\ pc'[t] = f[t].ret /\ f'[t] = back
    BY <1>8, Went
  <2>2. \A g \in Entries : HasInode(t, g)' => HasInode(t, g)
    BY <1>1, <1>2, <1>3, <1>5, <2>1 DEF HasInode, InPut
  <2>3. Where(t, f[t].ret, back)
    BY <1>3, <1>5, OriginTyped DEF Where
  <2>4. \A g \in Entries : inode'[g].key = inode[g].key
    BY <1>8 DEF Written, IInv, Types, EntryType
  <2> QED BY <1>8, <2>2, <2>3, <2>4, OriginsGoto
<1>9. CASE StartWrite(t)
  BY <1>2, <1>4, <1>6, <1>7, <1>9 DEF StartWrite, At, ret, io
<1>10. CASE EndWrite(t)
  BY <1>2, <1>8, <1>10 DEF EndWrite, back
<1> QED BY <1>9, <1>10

LEMMA EmptyOrigins ==
  ASSUME IInv, Origins, NEW t \in Tasks, GetEmpty(t) \/ EmptyWait(t)
  PROVE  Origins'
<1>1. CASE GetEmpty(t)
  <2>1. CASE Panic
    BY <2>1, OriginsStopped DEF Panic, kernel
  <2>2. CASE \E e \in Entries : Goto(t, "empty_wait", [f[t] EXCEPT !.empty = e]) /\ UNCHANGED kernel
    <3>1. PICK e \in Entries : Goto(t, "empty_wait", [f[t] EXCEPT !.empty = e]) /\ UNCHANGED kernel
      BY <2>2
    <3> DEFINE fr == [f[t] EXCEPT !.empty = e]
    <3>2. fr.back = f[t].back /\ fr.op = f[t].op /\ fr.ret = f[t].ret
      BY TaskTyped DEF Frames
    <3>3. Goto(t, "empty_wait", fr)
      BY <3>1
    <3> HIDE DEF fr
    <3>4. pc'[t] = "empty_wait"
      BY <3>3, Went
    <3>5. \A g \in Entries : ~HasInode(t, g)'
      BY <3>4 DEF HasInode, InPut
    <3>6. Where(t, "empty_wait", fr)
      BY <3>2, OriginTyped DEF Where
    <3> QED BY <3>1, <3>3, <3>5, <3>6, OriginsGoto DEF kernel
  <2> QED BY <1>1, <2>1, <2>2 DEF GetEmpty, Unused, Clean
<1>2. CASE EmptyWait(t)
  <2>1. PICK e \in Entries : f[t].empty = e
    BY <1>2, TaskTyped DEF EmptyWait, At, Task
  <2>2. Free(inode[e])
    BY <1>2, <2>1, TaskTyped DEF EmptyWait, At, Task
  <2>3. /\ inode' = [inode EXCEPT ![e] = [Blank EXCEPT !.count = 1]]
        /\ Goto(t, IF f[t].op = "create" THEN "bit" ELSE "scan", f[t])
        /\ UNCHANGED latest
    BY <1>2, <2>1, <2>2 DEF EmptyWait, Free
  <2> DEFINE w == IF f[t].op = "create" THEN "bit" ELSE "scan"
  <2>4. StaysAt(t) /\ pc'[t] = w /\ f'[t] = f[t]
    BY <2>3, Went
  <2>5. Where(t, w, f[t])
    BY OriginTyped DEF Where
  <2>6. \A g \in Entries : ~HasInode(t, g)'
    BY <2>4 DEF HasInode, InPut
  <2>7. KeysStay(t)
    <3>1. [Blank EXCEPT !.count = 1].key = NoKey
      BY DEF Blank
    <3> QED BY <2>3, <3>1 DEF KeysStay, IInv, Types
  <2>8. Got(t)
    BY <2>6 DEF Got
  <2>9. Unlinked'
    BY <2>3, UnlinkedKept DEF NoneUnlinked
  <2> HIDE DEF w
  <2> QED BY <2>4, <2>5, <2>7, <2>8, <2>9, OriginsStep
<1> QED BY <1>1, <1>2

LEMMA IgetOrigins ==
  ASSUME IInv, Origins, NEW t \in Tasks, Scan(t) \/ Found(t) \/ Cross(t) \/ Read(t)
  PROVE  Origins'
<1>1. CASE Scan(t)
  <2>1. PICK k \in Keys : f[t].key = k
    BY <1>1, TaskTyped, NamedHasLink DEF Scan, At, Task, Looking
  <2>2. PICK e \in Entries : f[t].empty = e
    BY <1>1, TaskTyped DEF Scan, At, Task, Keeping
  <2>3. k \in Named(t) /\ HasEmpty(t, e) /\ inode[e].count = 1
    BY <1>1, <2>1, <2>2, TaskTyped DEF Scan, At, Task, Looking, Keeping, Fresh, HasEmpty
  <2>4. CASE Panic
    BY <2>4, OriginsStopped DEF Panic, kernel
  <2>5. CASE \E g \in Entries : Goto(t, "found", [f[t] EXCEPT !.e = g]) /\ UNCHANGED kernel
    <3>1. PICK g \in Entries : Goto(t, "found", [f[t] EXCEPT !.e = g]) /\ UNCHANGED kernel
      BY <2>5
    <3> DEFINE fr == [f[t] EXCEPT !.e = g]
    <3>2. fr.back = f[t].back /\ fr.op = f[t].op /\ fr.ret = f[t].ret
      BY TaskTyped DEF Frames
    <3>3. Goto(t, "found", fr)
      BY <3>1
    <3> HIDE DEF fr
    <3>4. pc'[t] = "found"
      BY <3>3, Went
    <3>5. \A h \in Entries : ~HasInode(t, h)'
      BY <3>4 DEF HasInode, InPut
    <3>6. Where(t, "found", fr)
      BY <3>2, OriginTyped DEF Where
    <3> QED BY <3>1, <3>3, <3>5, <3>6, OriginsGoto DEF kernel
  <2>6. CASE /\ inode' = [inode EXCEPT ![e].key = k, ![e].lock = TRUE]
             /\ Yield(t, "read", [f[t] EXCEPT !.e = e, !.empty = NULL])
             /\ UNCHANGED latest
    <3> DEFINE fr == [f[t] EXCEPT !.e = e, !.empty = NULL]
    <3>1. fr.back = f[t].back /\ fr.op = f[t].op /\ fr.ret = f[t].ret /\ fr.e = e
      BY TaskTyped DEF Frames
    <3>2. Yield(t, "read", fr)
      BY <2>6
    <3> HIDE DEF fr
    <3>3. StaysAt(t) /\ pc'[t] = "read" /\ f'[t] = fr
      BY <3>2, Went
    <3>4. inode'[e].key = k /\ \A g \in Entries : g # e => inode'[g].key = inode[g].key
      BY <2>6 DEF IInv, Types, EntryType
    <3>5. KeysStay(t)
      BY <2>3, <3>4 DEF KeysStay
    <3>6. Got(t)
      BY <2>3, <3>1, <3>3, <3>4 DEF Got, HasInode
    <3>7. Where(t, "read", fr)
      BY <3>1, OriginTyped DEF Where
    <3>8. Unlinked'
      BY <2>6, UnlinkedKept DEF NoneUnlinked
    <3> QED BY <3>3, <3>5, <3>6, <3>7, <3>8, OriginsStep
  <2> QED BY <1>1, <2>1, <2>2, <2>4, <2>5, <2>6 DEF Scan, InTable
<1>2. CASE Found(t)
  <2>1. PICK e \in Entries : f[t].e = e
    BY <1>2, TaskTyped DEF Found, At, Task, AtEntry
  <2>2. PICK g \in Entries : f[t].empty = g
    BY <1>2, TaskTyped DEF Found, At, Task, Keeping
  <2>3. f[t].key \in Named(t) /\ UNCHANGED latest
    BY <1>2, TaskTyped DEF Found, At, Task, Looking
  <2>4. CASE Goto(t, "scan", f[t]) /\ UNCHANGED inode
    <3>1. pc'[t] = "scan"
      BY <2>4, Went
    <3>2. \A h \in Entries : ~HasInode(t, h)'
      BY <3>1 DEF HasInode, InPut
    <3>3. Where(t, "scan", f[t])
      BY OriginTyped DEF Where
    <3> QED BY <2>3, <2>4, <3>2, <3>3, OriginsGoto
  <2>5. ASSUME NEW w \in {"put", "hold"}, NEW fr, Goto(t, w, fr), fr.e = e, inode[e].key = f[t].key,
               fr.back \in {"", "cross"}, fr.ret \in {"", f[t].ret}, fr.op = f[t].op,
               \A h \in Entries : inode'[h].key = inode[h].key
        PROVE  Origins'
    <3>0. Goto(t, w, fr)
      BY <2>5
    <3>1. StaysAt(t) /\ pc'[t] = w /\ f'[t] = fr
      BY <3>0, Went
    <3>2. KeysStay(t)
      BY <2>5 DEF KeysStay
    <3>3. Got(t)
      BY <2>3, <2>5, <3>1 DEF Got, HasInode
    <3>4. Where(t, w, fr)
      BY <2>5, OriginTyped DEF Where
    <3>5. Unlinked'
      BY <2>3, UnlinkedKept DEF NoneUnlinked
    <3> QED BY <3>1, <3>2, <3>3, <3>4, <3>5, OriginsStep
  <2>6. CASE /\ inode[e].key = f[t].key /\ inode' = [inode EXCEPT ![e].count = @ + 1]
             /\ Goto(t, "put", [f[t] EXCEPT !.back = "cross"])
    <3> DEFINE fr == [f[t] EXCEPT !.back = "cross"]
    <3>1. fr.e = e /\ fr.back = "cross" /\ fr.op = f[t].op /\ fr.ret = f[t].ret
      BY <2>1, TaskTyped DEF Frames
    <3>2. Goto(t, "put", fr)
      BY <2>6
    <3> HIDE DEF fr
    <3>3. \A h \in Entries : inode'[h].key = inode[h].key
      BY <2>6 DEF IInv, Types, EntryType
    <3> QED BY <2>5, <2>6, <3>1, <3>2, <3>3
  <2>7. CASE /\ inode[e].key = f[t].key
             /\ inode' = [[inode EXCEPT ![e].count = @ + 1] EXCEPT ![g].count = @ - 1]
             /\ Hold(t, e)
    <3> DEFINE fr == [NoFrame EXCEPT !.op = f[t].op, !.e = e]
    <3>1. fr.e = e /\ fr.back = "" /\ fr.op = f[t].op /\ fr.ret = ""
      BY DEF NoFrame
    <3>2. Goto(t, "hold", fr)
      BY <2>7 DEF Hold
    <3> HIDE DEF fr
    <3>3. \A h \in Entries : inode'[h].key = inode[h].key
      BY <2>7 DEF IInv, Types, EntryType
    <3> QED BY <2>5, <2>7, <3>1, <3>2, <3>3
  <2> QED BY <1>2, <2>1, <2>2, <2>4, <2>6, <2>7 DEF Found, StillIt
<1>3. CASE Cross(t)
  <2> DEFINE fr == [f[t] EXCEPT !.key = <<sb.dev, ROOT_INO>>]
  <2>1. fr.back = f[t].back /\ fr.op = f[t].op /\ fr.ret = f[t].ret
    BY TaskTyped DEF Frames
  <2>2. Goto(t, "scan", fr) /\ UNCHANGED kernel
    BY <1>3 DEF Cross
  <2> HIDE DEF fr
  <2>3. pc'[t] = "scan"
    BY <2>2, Went
  <2>4. \A h \in Entries : ~HasInode(t, h)'
    BY <2>3 DEF HasInode, InPut
  <2>5. Where(t, "scan", fr)
    BY <2>1, OriginTyped DEF Where
  <2> QED BY <2>2, <2>4, <2>5, OriginsGoto DEF kernel
<1>4. CASE Read(t)
  <2>1. pc[t] = "read" /\ UNCHANGED latest
    BY <1>4 DEF Read, At
  <2>2. PICK e \in Entries : f[t].e = e
    BY <2>1, TaskTyped DEF Task, AtEntry
  <2> DEFINE fr == [NoFrame EXCEPT !.op = f[t].op, !.e = e]
  <2>3. fr.e = e /\ fr.back = "" /\ fr.op = f[t].op /\ fr.ret = ""
    BY DEF NoFrame
  <2>4. Goto(t, "hold", fr)
    BY <1>4, <2>2 DEF Read, Hold
  <2> HIDE DEF fr
  <2>5. \A h \in Entries : inode'[h].key = inode[h].key
    BY <1>4, <2>2 DEF Read, IInv, Types, EntryType
  <2>6. pc'[t] = "hold" /\ f'[t] = fr
    BY <2>4, Went
  <2>7. \A h \in Entries : HasInode(t, h)' => HasInode(t, h)
    BY <2>1, <2>2, <2>3, <2>6 DEF HasInode, InPut
  <2>8. Where(t, "hold", fr)
    BY <2>3, OriginTyped DEF Where
  <2> QED BY <2>1, <2>4, <2>5, <2>7, <2>8, OriginsGoto
<1> QED BY <1>1, <1>2, <1>3, <1>4

LEMMA IdleWhere ==
  ASSUME NEW t
  PROVE  Where(t, "idle", NoFrame)
<1>1. NoFrame.back = "" /\ NoFrame.ret = "" /\ NoFrame.op = ""
  BY DEF NoFrame
<1> QED BY <1>1 DEF Where

(* The end of an iput() of e, whose key stays or is removed. *)
LEMMA BackOrigins ==
  ASSUME IInv, Origins, NEW t \in Tasks, NEW e \in Entries, f[t].e = e,
         pc[t] \in {"put", "repeat", "truncate"}, Back(t), UNCHANGED latest,
         \A g \in Entries : inode'[g].key \in {inode[g].key, NoKey}
  PROVE  Origins'
<1>1. f[t].back \in {"idle", "put_super", "cross"}
  BY TaskTyped DEF Task, InPut, Crossing
<1> DEFINE fr == [f[t] EXCEPT !.e = NULL, !.back = ""]
<1>2. fr.back = "" /\ fr.op = f[t].op /\ fr.ret = f[t].ret
  BY TaskTyped DEF Frames
<1>3. \/ Yield(t, "idle", NoFrame)
      \/ f[t].back # "idle" /\ Goto(t, f[t].back, fr)
  BY DEF Back
<1> HIDE DEF fr
<1>4. KeysStay(t)
  BY DEF KeysStay
<1>5. Unlinked'
  BY UnlinkedKept DEF NoneUnlinked
<1>6. StaysAt(t) /\ pc'[t] \in {"idle", "put_super", "cross"} /\ Where(t, pc'[t], f'[t])
  <2>1. CASE Yield(t, "idle", NoFrame)
    <3>1. StaysAt(t) /\ pc'[t] = "idle" /\ f'[t] = NoFrame
      BY <2>1, Went
    <3>2. Where(t, "idle", NoFrame)
      BY IdleWhere
    <3> QED BY <3>1, <3>2
  <2>2. CASE f[t].back # "idle" /\ Goto(t, f[t].back, fr)
    <3>1. StaysAt(t) /\ pc'[t] = f[t].back /\ f'[t] = fr
      BY <2>2, Went
    <3> QED BY <1>1, <1>2, <2>2, <3>1, OriginTyped DEF Where
  <2> QED BY <1>3, <2>1, <2>2
<1>7. Got(t)
  BY <1>6 DEF Got, HasInode, InPut
<1> QED BY <1>4, <1>5, <1>6, <1>7, OriginsStep

LEMMA PutOrigins ==
  ASSUME IInv, Origins, NEW t \in Tasks, Put(t) \/ Repeat(t) \/ free_inode(t)
  PROVE  Origins'
<1>1. pc[t] \in {"put", "repeat", "truncate"}
  BY DEF Put, Repeat, free_inode, At
<1>2. PICK e \in Entries : f[t].e = e
  BY <1>1, TaskTyped DEF Task, AtEntry
<1>3. CASE Panic
  BY <1>3, OriginsStopped DEF Panic, kernel
<1>4. CASE inode' = Down(e) /\ Back(t) /\ UNCHANGED latest
  <2>1. \A g \in Entries : inode'[g].key = inode[g].key
    BY <1>4 DEF Down, IInv, Types, EntryType
  <2> QED BY <1>1, <1>2, <1>4, <2>1, BackOrigins
<1>5. CASE inode' = [inode EXCEPT ![e] = Blank] /\ Back(t) /\ UNCHANGED latest
  <2>1. \A g \in Entries : inode'[g].key \in {inode[g].key, NoKey}
    BY <1>5, BlankTyped DEF IInv, Types
  <2> QED BY <1>1, <1>2, <1>5, <2>1, BackOrigins
<1>6. CASE Yield(t, "truncate", f[t]) /\ UNCHANGED kernel
  <2>1. pc'[t] = "truncate" /\ f'[t] = f[t]
    BY <1>6, Went
  <2>2. \A g \in Entries : HasInode(t, g)' => HasInode(t, g)
    BY <1>1, <2>1 DEF HasInode, InPut
  <2>3. Where(t, "truncate", f[t])
    BY OriginTyped DEF Where
  <2> QED BY <1>6, <2>2, <2>3, OriginsGoto DEF kernel
<1>7. CASE Goto(t, "write", [f[t] EXCEPT !.ret = "repeat"]) /\ UNCHANGED kernel
  <2> DEFINE fr == [f[t] EXCEPT !.ret = "repeat"]
  <2>1. fr.e = e /\ fr.back = f[t].back /\ fr.op = f[t].op /\ fr.ret = "repeat"
    BY <1>2, TaskTyped DEF Frames
  <2>2. Goto(t, "write", fr)
    BY <1>7
  <2> HIDE DEF fr
  <2>3. pc'[t] = "write" /\ f'[t] = fr
    BY <2>2, Went
  <2>4. \A g \in Entries : HasInode(t, g)' => HasInode(t, g)
    BY <1>1, <1>2, <2>1, <2>3 DEF HasInode, InPut
  <2>5. Where(t, "write", fr)
    BY <2>1, OriginTyped DEF Where
  <2> QED BY <1>7, <2>2, <2>4, <2>5, OriginsGoto DEF kernel
<1>8. CASE PutRepeat(t, e)
  BY <1>4, <1>6, <1>7, <1>8 DEF PutRepeat
<1>9. CASE Put(t)
  BY <1>2, <1>3, <1>4, <1>8, <1>9 DEF Put
<1>10. CASE Repeat(t)
  BY <1>2, <1>8, <1>10 DEF Repeat
<1>11. CASE free_inode(t)
  BY <1>2, <1>3, <1>5, <1>11 DEF free_inode
<1> QED BY <1>9, <1>10, <1>11

(* t goes into an iput() that ends its operation. *)
LEMMA IputOrigins ==
  ASSUME IInv, Origins, NEW t \in Tasks, NEW e \in Entries, iput(t, e, "idle"),
         HasInode(t, e) \/ inode[e].key = NoKey, UNCHANGED <<inode, latest>>
  PROVE  Origins'
<1> DEFINE fr == [f[t] EXCEPT !.e = e, !.back = "idle"]
<1>1. fr.e = e /\ fr.back = "idle" /\ fr.op = f[t].op /\ fr.ret = f[t].ret
  BY TaskTyped DEF Frames
<1>2. Goto(t, "put", fr)
  BY DEF iput
<1> HIDE DEF fr
<1>3. StaysAt(t) /\ pc'[t] = "put" /\ f'[t] = fr
  BY <1>2, Went
<1>4. KeysStay(t)
  BY DEF KeysStay
<1>5. Got(t)
  BY <1>1, <1>3 DEF Got, HasInode
<1>6. Unlinked'
  BY UnlinkedKept DEF NoneUnlinked
<1>7. Where(t, "put", fr)
  BY <1>1, OriginTyped DEF Where
<1> QED BY <1>3, <1>4, <1>5, <1>6, <1>7, OriginsStep

LEMMA NewOrigins ==
  ASSUME IInv, Origins, NEW t \in Tasks, new_inode(t)
  PROVE  Origins'
<1>1. pc[t] = "bit"
  BY DEF new_inode, At
<1>2. PICK e \in Entries : f[t].empty = e
  BY <1>1, TaskTyped DEF Task, Keeping
<1>3. HasEmpty(t, e) /\ inode[e].count = 1 /\ inode[e].key = NoKey
  BY <1>1, <1>2, TaskTyped DEF Task, Keeping, HasEmpty, Fresh
<1>4. CASE iput(t, e, "idle") /\ UNCHANGED kernel
  BY <1>3, <1>4, IputOrigins DEF kernel
<1>5. ASSUME NEW n, NEW c, c.nlinks = 1,
             inode' = [inode EXCEPT ![e].key = <<ROOT_DEV, n>>, ![e].dirt = TRUE, ![e].c = c],
             latest' = [latest EXCEPT ![<<ROOT_DEV, n>>] = c], Hold(t, e)
      PROVE  Origins'
  <2> DEFINE fr == [NoFrame EXCEPT !.op = f[t].op, !.e = e]
  <2>1. fr.back = "" /\ fr.op = f[t].op /\ fr.ret = ""
    BY DEF NoFrame
  <2>2. Goto(t, "hold", fr)
    BY <1>5 DEF Hold
  <2> HIDE DEF fr
  <2>3. StaysAt(t) /\ pc'[t] = "hold" /\ f'[t] = fr
    BY <2>2, Went
  <2>4. \A g \in Entries : g # e => inode'[g] = inode[g]
    BY <1>5 DEF IInv, Types
  <2>5. KeysStay(t)
    BY <1>3, <2>4 DEF KeysStay
  <2>6. Got(t)
    BY <1>1, OriginTyped DEF Got
  <2>7. Where(t, "hold", fr)
    BY <2>1, OriginTyped DEF Where
  <2>8. NoneUnlinked
    BY <1>5 DEF NoneUnlinked, IInv, Types
  <2> QED BY <2>3, <2>5, <2>6, <2>7, <2>8, UnlinkedKept, OriginsStep
<1> DEFINE c == [data |-> FALSE, nlinks |-> 1]
<1>6. c.nlinks = 1
  OBVIOUS
<1> HIDE DEF c
<1>7. \/ iput(t, e, "idle") /\ UNCHANGED kernel
      \/ \E n : /\ inode' = [inode EXCEPT ![e].key = <<ROOT_DEV, n>>, ![e].dirt = TRUE, ![e].c = c]
                /\ latest' = [latest EXCEPT ![<<ROOT_DEV, n>>] = c] /\ Hold(t, e)
  BY <1>2 DEF new_inode, c
<1> QED BY <1>4, <1>5, <1>6, <1>7


(* A step of t to a place where it has no inode. *)
LEMMA AwayOrigins ==
  ASSUME IInv, Origins, NEW t \in Tasks, NEW w, NEW fr, Goto(t, w, fr) \/ Yield(t, w, fr),
         w \in {"idle", "empty", "sync", "synced", "umount", "super_freed"} \/ (w = "write" /\ fr.ret = "sync"),
         Where(t, w, fr), UNCHANGED <<inode, latest>>
  PROVE  Origins'
<1>1. pc'[t] = w /\ f'[t] = fr
  BY Went
<1>2. \A e \in Entries : ~HasInode(t, e)'
  BY <1>1 DEF HasInode, InPut
<1> QED BY <1>2, OriginsGoto

LEMMA SyncOrigins ==
  ASSUME IInv, Origins, NEW t \in Tasks, Sync(t)
  PROVE  Origins'
<1>1. pc[t] = "sync" /\ UNCHANGED <<inode, latest>>
  BY DEF Sync, At, kernel
<1>2. MaySync(t)
  BY <1>1, OriginTyped
<1>3. PICK e \in Entries : f[t].e = e
  BY <1>1, TaskTyped DEF Task, AtEntry
<1> DEFINE wr == [f[t] EXCEPT !.e = e, !.ret = "sync"]
           rest == f[t].left \ {e}
           nx == [f[t] EXCEPT !.e = CHOOSE g \in rest : TRUE, !.left = rest]
<1>4. /\ wr.back = f[t].back /\ wr.op = f[t].op /\ wr.ret = "sync"
      /\ nx.back = f[t].back /\ nx.op = f[t].op /\ nx.ret = f[t].ret
  BY TaskTyped DEF Frames
<1> DEFINE sd == [NoFrame EXCEPT !.op = f[t].op]
<1>5. \/ Goto(t, "write", wr) \/ Yield(t, "idle", NoFrame) \/ Goto(t, "sync", nx)
      \/ Yield(t, "synced", sd) /\ f[t].op # "sync"
  BY <1>3 DEF Sync, EndSync, write_inode
<1>10. sd.op = f[t].op /\ sd.back = "" /\ sd.ret = ""
  BY DEF NoFrame
<1> HIDE DEF wr, nx, sd
<1>6. /\ Where(t, "write", wr) /\ Where(t, "sync", nx)
      /\ f[t].op # "sync" => Where(t, "synced", sd)
  BY <1>1, <1>2, <1>4, <1>10, OriginTyped DEF Where
<1>7. CASE Goto(t, "write", wr)
  BY <1>1, <1>4, <1>6, <1>7, AwayOrigins
<1>8. CASE Yield(t, "idle", NoFrame)
  BY <1>1, <1>8, IdleWhere, AwayOrigins
<1>9. CASE Goto(t, "sync", nx)
  BY <1>1, <1>6, <1>9, AwayOrigins
<1>11. CASE Yield(t, "synced", sd) /\ f[t].op # "sync"
  BY <1>1, <1>6, <1>11, AwayOrigins
<1> QED BY <1>5, <1>7, <1>8, <1>9, <1>11

LEMMA DeviceOrigins ==
  ASSUME IInv, Origins, NEW t \in Tasks, DevicePut(t)
  PROVE  Origins'
<1>1. pc[t] = "synced" /\ UNCHANGED <<inode, latest>>
  BY DEF DevicePut, At, kernel
<1>2. CASE f[t].op = "mount"
  <2> DEFINE fr == [f[t] EXCEPT !.key = <<ROOT_DEV, MountNum>>]
  <2>1. fr.op = f[t].op /\ fr.back = f[t].back /\ fr.ret = f[t].ret
    BY TaskTyped DEF Frames
  <2>2. Goto(t, "empty", fr)
    BY <1>2 DEF DevicePut
  <2> HIDE DEF fr
  <2>3. Where(t, "empty", fr)
    BY <2>1, OriginTyped DEF Where
  <2> QED BY <1>1, <2>2, <2>3, AwayOrigins
<1>3. CASE f[t].op # "mount"
  <2>1. Goto(t, "umount", f[t])
    BY <1>3 DEF DevicePut
  <2>2. f[t].op = "umount"
    BY <1>1, <1>3 DEF Origins, Origin, Where
  <2>3. Where(t, "umount", f[t])
    BY <2>2, OriginTyped DEF Where
  <2> QED BY <1>1, <2>1, <2>3, AwayOrigins
<1> QED BY <1>2, <1>3

LEMMA MountOrigins ==
  ASSUME IInv, Origins, NEW t \in Tasks,
         StartMount(t) \/ ReadSuper(t) \/ SuperRead(t) \/ EndMount(t)
  PROVE  Origins'
<1>1. pc[t] \in {"hold", "read_super", "super_io", "mount"} /\ UNCHANGED latest
  BY DEF StartMount, ReadSuper, SuperRead, EndMount, At, kernel
<1>2. PICK e \in Entries : f[t].e = e
  BY <1>1, Holding
<1>3. \A g : (HasInode(t, g) <=> e = g) /\ ~HasEmpty(t, g)
  BY <1>1, <1>2, Holding
<1>4. CASE iput(t, e, "idle") /\ UNCHANGED inode
  BY <1>1, <1>3, <1>4, IputOrigins
<1>5. ASSUME NEW w \in {"read_super", "super_io", "mount"},
             Goto(t, w, f[t]) \/ Yield(t, w, f[t]), UNCHANGED inode
      PROVE  Origins'
  <2>1. Goto(t, w, f[t]) \/ Yield(t, w, f[t])
    BY <1>5
  <2>2. pc'[t] = w /\ f'[t] = f[t]
    BY <2>1, Went
  <2>3. \A g \in Entries : HasInode(t, g)' => HasInode(t, g)
    BY <1>3, <1>2, <2>2 DEF HasInode
  <2>4. Where(t, w, f[t])
    BY OriginTyped DEF Where
  <2> QED BY <1>1, <1>5, <2>1, <2>3, <2>4, OriginsGoto
<1>6. CASE inode' = [inode EXCEPT ![e].mount = TRUE, ![e].dirt = TRUE] /\ Yield(t, "idle", NoFrame)
  <2>1. \A g \in Entries : inode'[g].key = inode[g].key
    BY <1>6 DEF IInv, Types, EntryType
  <2>2. pc'[t] = "idle"
    BY <1>6, Went
  <2>3. \A g \in Entries : ~HasInode(t, g)'
    BY <2>2 DEF HasInode, InPut
  <2> QED BY <1>1, <1>6, <2>1, <2>3, IdleWhere, OriginsGoto
<1>7. CASE StartMount(t)
  BY <1>2, <1>4, <1>5, <1>7 DEF StartMount, kernel
<1>8. CASE ReadSuper(t)
  BY <1>5, <1>8 DEF ReadSuper
<1>9. CASE SuperRead(t)
  BY <1>2, <1>4, <1>5, <1>9 DEF SuperRead
<1>10. CASE EndMount(t)
  BY <1>2, <1>4, <1>6, <1>10 DEF EndMount
<1> QED BY <1>7, <1>8, <1>9, <1>10

LEMMA UmountOrigins ==
  ASSUME IInv, Origins, NEW t \in Tasks, Umount(t) \/ PutSuper(t) \/ SuperFreed(t)
  PROVE  Origins'
<1>1. "umount" \in Ops[t] /\ UNCHANGED latest
  BY OriginTyped DEF Umount, PutSuper, SuperFreed, At
<1>2. CASE Yield(t, "idle", NoFrame) /\ UNCHANGED inode
  BY <1>1, <1>2, IdleWhere, AwayOrigins
<1>3. ASSUME NEW i, inode' = Unmarked(i), iput(t, i, "put_super")
      PROVE  Origins'
  <2> DEFINE fr == [f[t] EXCEPT !.e = i, !.back = "put_super"]
  <2>1. fr.back = "put_super" /\ fr.op = f[t].op /\ fr.ret = f[t].ret
    BY TaskTyped DEF Frames
  <2>2. Goto(t, "put", fr)
    BY <1>3 DEF iput
  <2> HIDE DEF fr
  <2>3. StaysAt(t) /\ pc'[t] = "put" /\ f'[t] = fr
    BY <2>2, Went
  <2>4. \A g \in Entries : inode'[g].key = inode[g].key
    BY <1>3 DEF Unmarked, IInv, Types, EntryType
  <2>5. KeysStay(t)
    BY <2>4 DEF KeysStay
  <2>6. Got(t)
    BY <1>1 DEF Got
  <2>7. Where(t, "put", fr)
    BY <1>1, <2>1, OriginTyped DEF Where
  <2>8. Unlinked'
    BY <1>1, UnlinkedKept DEF NoneUnlinked
  <2> QED BY <2>3, <2>5, <2>6, <2>7, <2>8, OriginsStep
<1>4. CASE Umount(t)
  BY <1>2, <1>3, <1>4 DEF Umount
<1>5. CASE PutSuper(t)
  <2>1. Where(t, "super_freed", f[t])
    BY <1>1, OriginTyped DEF Where
  <2> QED BY <1>1, <1>5, <2>1, AwayOrigins DEF PutSuper
<1>6. CASE SuperFreed(t)
  <2> DEFINE fr == [NoFrame EXCEPT !.op = "sync", !.left = Entries,
                                   !.e = CHOOSE e \in Entries : TRUE]
  <2>1. fr.op = "sync" /\ fr.back = "" /\ fr.ret = ""
    BY DEF NoFrame
  <2>2. Yield(t, "sync", fr)
    BY <1>6 DEF SuperFreed, sync_inodes
  <2> HIDE DEF fr
  <2>3. Where(t, "sync", fr)
    BY <1>1, <2>1 DEF Where, MaySync
  <2> QED BY <1>1, <1>6, <2>2, <2>3, AwayOrigins DEF SuperFreed
<1> QED BY <1>4, <1>5, <1>6

LEMMA UseOrigins ==
  ASSUME IInv, Origins, NEW t \in Tasks, Modify(t) \/ Unlink(t) \/ Release(t)
  PROVE  Origins'
<1>1. pc[t] = "hold"
  BY DEF Modify, Unlink, Release, Using, At
<1>2. PICK e \in Entries : f[t].e = e
  BY <1>1, Holding
<1>3. HasInode(t, e)
  BY <1>1, <1>2, Holding
<1>4. PICK k \in Keys : inode[e].key = k
  BY <1>1, <1>2, Holding, EntryTyped
<1>5. ASSUME UNCHANGED <<pc, f>>, Unlinked', \A g \in Entries : inode'[g].key = inode[g].key
      PROVE  Origins'
  <2>1. \A u \in Tasks : Origin(u)'
    BY <1>5 DEF Origins, Origin, HasInode, InPut
  <2> QED BY <1>5, <2>1 DEF Origins
<1>6. CASE Modify(t)
  <2>1. \A g \in Entries : inode'[g].key = inode[g].key
    BY <1>2, <1>6 DEF Modify, IInv, Types, EntryType
  <2>2. latest' = [latest EXCEPT ![k].data = ~@]
    BY <1>2, <1>4, <1>6 DEF Modify
  <2>3. NoneUnlinked
    BY <2>2 DEF NoneUnlinked, IInv, Types, Contents
  <2> QED BY <1>5, <1>6, <2>1, <2>3, UnlinkedKept DEF Modify
<1>7. CASE Unlink(t)
  <2>1. \A g \in Entries : inode'[g].key = inode[g].key
    BY <1>2, <1>7 DEF Unlink, IInv, Types, EntryType
  <2>2. /\ latest' = [latest EXCEPT ![k].nlinks = 0]
        /\ k \in {ROOT_DEV} \X Private[t] /\ Unlinks(t)
    BY <1>2, <1>4, <1>7 DEF Unlink, Unlinks
  <2>3. \A l \in Keys : l # k => latest'[l] = latest[l]
    BY <2>2 DEF IInv, Types
  <2>4. Unlinked'
    BY <2>2, <2>3 DEF Origins, Unlinked
  <2> QED BY <1>5, <1>7, <2>1, <2>4 DEF Unlink
<1>8. CASE Release(t)
  BY <1>2, <1>3, <1>8, IputOrigins DEF Release, kernel
<1> QED BY <1>6, <1>7, <1>8

LEMMA StartOrigins ==
  ASSUME IInv, Origins, NEW t \in Tasks, NEW op \in Ops[t] \ {"unlink"}, NEW k \in Keys \cup {NoKey},
         Start(t, op, k)
  PROVE  Origins'
<1>1. UNCHANGED <<inode, latest>>
  BY DEF Start, kernel
<1> DEFINE fl == [NoFrame EXCEPT !.op = op, !.key = k]
           fc == [NoFrame EXCEPT !.op = op]
           fs == [NoFrame EXCEPT !.op = op, !.left = Entries, !.e = CHOOSE e \in Entries : TRUE]
<1>2. /\ fl.op = op /\ fl.back = "" /\ fl.ret = ""
      /\ fc.op = op /\ fc.back = "" /\ fc.ret = ""
      /\ fs.op = op /\ fs.back = "" /\ fs.ret = ""
  BY DEF NoFrame
<1>3. op \in {"lookup", "create", "mount", "umount", "sync"}
  BY Constants
<1>4. \/ op = "lookup" /\ Goto(t, "empty", fl)
      \/ op = "create" /\ Goto(t, "empty", fc)
      \/ op \in {"mount", "umount", "sync"} /\ Yield(t, "sync", fs)
  BY <1>3 DEF Start, sync_inodes
<1> HIDE DEF fl, fc, fs
<1>5. /\ op = "lookup" => Where(t, "empty", fl)
      /\ op = "create" => Where(t, "empty", fc)
      /\ op \in {"mount", "umount", "sync"} => Where(t, "sync", fs)
  BY <1>2 DEF Where, MaySync
<1> QED BY <1>1, <1>4, <1>5, AwayOrigins

LEMMA OriginsNext ==
  ASSUME IInv, Origins, [Next]_vars
  PROVE  Origins'
<1>1. ASSUME NEW t \in Tasks, TaskStep(t)
      PROVE  Origins'
  <2>1. CASE Sleep(t)
    BY <2>1, OriginsStopped DEF Sleep, kernel
  <2>2. CASE StartWrite(t) \/ EndWrite(t) \/ GetEmpty(t) \/ EmptyWait(t)
    BY <2>2, WriteOrigins, EmptyOrigins
  <2>3. CASE Scan(t) \/ Read(t) \/ Found(t) \/ Cross(t)
    BY <2>3, IgetOrigins
  <2>4. CASE Put(t) \/ Repeat(t) \/ free_inode(t) \/ new_inode(t) \/ Sync(t)
    BY <2>4, PutOrigins, NewOrigins, SyncOrigins
  <2>5. CASE DevicePut(t) \/ StartMount(t) \/ ReadSuper(t) \/ SuperRead(t) \/ EndMount(t)
    BY <2>5, DeviceOrigins, MountOrigins
  <2>6. CASE Umount(t) \/ PutSuper(t) \/ SuperFreed(t)
    BY <2>6, UmountOrigins
  <2>7. CASE Modify(t) \/ Unlink(t) \/ Release(t)
    BY <2>7, UseOrigins
  <2> QED BY <1>1, <2>1, <2>2, <2>3, <2>4, <2>5, <2>6, <2>7 DEF TaskStep
<1>2. ASSUME NEW t \in Tasks, NEW op \in Ops[t] \ {"unlink"}, NEW k \in Keys \cup {NoKey},
             Start(t, op, k)
      PROVE  Origins'
  BY <1>2, StartOrigins
<1>3. CASE UNCHANGED vars
  BY <1>3, OriginsStopped DEF vars
<1> QED BY <1>1, <1>2, <1>3 DEF Next

LEMMA InitOrigins ==
  ASSUME Init
  PROVE  Origins
<1>1. ASSUME NEW t \in Tasks
      PROVE  Origin(t)
  <2>1. pc[t] = "idle" /\ f[t] = NoFrame
    BY <1>1 DEF Init
  <2> QED BY <2>1, IdleWhere DEF Origin, HasInode, InPut
<1>2. Unlinked
  BY DEF Init, Unlinked
<1> QED BY <1>1, <1>2 DEF Origins

(* If at most one task unmounts, and nobody syncs while another task may   *)
(* free inodes, no assumption on the behaviour is left: no interleaving of *)
(* lookups, creations, writes, unlinks, mounts and syncs breaks the table. *)
THEOREM InodesSafe ==
  ASSUME OpsApart
  PROVE  Spec => [](OneInodePerNumber /\ CountIsUsers /\ NoLostInode)
<1>1. Init => IInv /\ Origins
  BY InitIInv, InitOrigins
<1>2. IInv /\ Origins /\ [Next]_vars => (IInv /\ Origins)'
  <2> SUFFICES ASSUME IInv, Origins, [Next]_vars
               PROVE  (IInv /\ Origins)'
    OBVIOUS
  <2>1. Origins'
    BY OriginsNext
  <2>2. WriteAndFreeApart /\ OneUnmounter
    BY OriginsApart, OriginsUnmounter
  <2>3. OneUnmounter'
    BY <2>1 DEF OpsApart, Origins, Origin, Where, OneUnmounter, Unmounts
  <2> QED BY <2>1, <2>2, <2>3, NextStep
<1>3. IInv => OneInodePerNumber /\ CountIsUsers /\ NoLostInode
  BY DEF IInv
<1> QED BY <1>1, <1>2, <1>3, PTL DEF Spec
=============================================================================
