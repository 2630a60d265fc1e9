----------------------------- MODULE BlkRequest -----------------------------
(***************************************************************************)
(* What kernel/blk_drv/blk.h and ll_rw_blk.c compute about requests: the   *)
(* order of the elevator, where add_request() links a request into a       *)
(* device's list, and which entry of request[] make_request() takes.       *)
(*                                                                         *)
(* A request is a record [cmd, dev, sector, bh, slot]; slot is its index   *)
(* in request[].  A device's list is the sequence that starts with its     *)
(* current_request, so request[s] is in use (dev >= 0) exactly when some   *)
(* list holds a request with that slot.                                    *)
(***************************************************************************)
EXTENDS Integers, Sequences, SequencesExt

CONSTANT NR_REQUEST    \* entries of request[]

ASSUME NrRequestPositive == NR_REQUEST \in Nat /\ NR_REQUEST > 1

READ == 0
WRITE == 1

(* blk.h: the macro IN_ORDER(s1,s2). *)
IN_ORDER(s1, s2) ==
  \/ s1.cmd < s2.cmd
  \/ s1.cmd = s2.cmd /\ s1.dev < s2.dev
  \/ s1.cmd = s2.cmd /\ s1.dev = s2.dev /\ s1.sector < s2.sector

(* Plausible bugs of add_request(). *)

(* Keeps the whole list sorted: no sweep, the smallest goes first. *)
add_request_sorted(list, req) ==
  LET stops == {j \in 1..(Len(list) - 1) : IN_ORDER(req, list[j + 1])}
      at == IF stops = {} THEN Len(list) ELSE Min(stops)
  IN  InsertAt(list, at + 1, req)

(* The loop never stops: first come, first served. *)
add_request_last(list, req) == Append(list, req)

(* add_request(): into an empty list it becomes current_request; otherwise *)
(* the for loop stops at the first place where req fits the sweep, or at   *)
(* the end of the list.  The head is being served and is never overtaken.  *)
add_request(list, req) ==
  LET stops == {j \in 1..(Len(list) - 1) :
                  /\ IN_ORDER(list[j], req) \/ ~IN_ORDER(list[j], list[j + 1])
                  /\ IN_ORDER(req, list[j + 1])}
      at == IF stops = {} THEN Len(list) ELSE Min(stops)
  IN  InsertAt(list, at + 1, req)

(* make_request(): a read may take any entry, a write only the low 2/3. *)
Limit(rw) == IF rw = READ THEN NR_REQUEST ELSE (NR_REQUEST * 2) \div 3

(* The free entries the scan `while (--req >= request)' may end at; it     *)
(* takes the highest.                                                      *)
FreeSlots(used, rw) == (0 .. Limit(rw) - 1) \ used
find_request(used, rw) == Max(FreeSlots(used, rw))
=============================================================================
