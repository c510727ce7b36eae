------------------------------ MODULE JobQueue ------------------------------
(***************************************************************************)
(* What ocpe:submission_queue is to those who use it, without Redis,       *)
(* connections or retries: jobs are taken in the order they were put in,   *)
(* each of them once at most.  Whoever takes a job holds it, one at a      *)
(* time, and finishes it; nobody hands one on or puts one back.  A job can *)
(* be missed on its way to the taker, and when the holders collapse, the   *)
(* jobs in their hands are gone.                                           *)
(***************************************************************************)
EXTENDS Naturals, Sequences

CONSTANTS
  Items,   \* what a job is about
  Holders  \* who takes jobs

VARIABLES
  put,    \* the jobs put in so far, oldest first; their place is their number
  taken,  \* how many of them are not in the queue any more
  hand,   \* number and item of the job a holder has, or nothing
  done,   \* numbers of the jobs that were finished
  gone    \* and of those that were missed or dropped

Nothing == <<>>

Holding(h) == hand[h] # Nothing

Oldest == taken + 1

Init ==
  /\ put = <<>>
  /\ taken = 0
  /\ hand = [h \in Holders |-> Nothing]
  /\ done = {}
  /\ gone = {}

Put(i) ==
  /\ put' = Append(put, i)
  /\ UNCHANGED <<taken, hand, done, gone>>

Take(h) ==
  /\ taken < Len(put)
  /\ ~Holding(h)
  /\ taken' = Oldest
  /\ hand' = [hand EXCEPT ![h] = <<Oldest, put[Oldest]>>]
  /\ UNCHANGED <<put, done, gone>>

Miss ==
  /\ taken < Len(put)
  /\ taken' = Oldest
  /\ gone' = gone \cup {Oldest}
  /\ UNCHANGED <<put, hand, done>>

Finish(h) ==
  /\ Holding(h)
  /\ done' = done \cup {hand[h][1]}
  /\ hand' = [hand EXCEPT ![h] = Nothing]
  /\ UNCHANGED <<put, taken, gone>>

Collapse ==
  /\ gone' = gone \cup {hand[h][1] : h \in {x \in Holders : Holding(x)}}
  /\ hand' = [h \in Holders |-> Nothing]
  /\ UNCHANGED <<put, taken, done>>

Next ==
  \/ \E i \in Items : Put(i)
  \/ \E h \in Holders : Take(h) \/ Finish(h)
  \/ Miss \/ Collapse

Spec == Init /\ [][Next]_<<put, taken, hand, done, gone>>

=============================================================================
