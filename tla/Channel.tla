------------------------------ MODULE Channel ------------------------------
(***************************************************************************)
(* What a pipe promises: a bounded first-in first-out channel of bytes.    *)
(* The bytes are numbered in the order in which they are written.          *)
(***************************************************************************)
EXTENDS Naturals, Sequences

CONSTANT Capacity      \* how many bytes the channel holds

VARIABLES chan,        \* the bytes written and not yet read
          sent,        \* how many bytes were written
          received     \* how many bytes were read, the first ones of those sent

cvars == <<chan, sent, received>>

Init ==
  /\ chan = <<>>
  /\ sent = 0
  /\ received = 0

Send(n) ==
  /\ Len(chan) + n =< Capacity
  /\ chan' = chan \o [i \in 1..n |-> sent + i]
  /\ sent' = sent + n
  /\ UNCHANGED received

(* The next n bytes, in order. *)
Receive(n) ==
  /\ n =< Len(chan)
  /\ \A i \in 1..n : chan[i] = received + i
  /\ chan' = SubSeq(chan, n + 1, Len(chan))
  /\ received' = received + n
  /\ UNCHANGED sent

Next == \E n \in 1..Capacity : Send(n) \/ Receive(n)

Spec == Init /\ [][Next]_cvars
=============================================================================
