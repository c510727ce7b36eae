----------------------- MODULE SharedConnectionProofs -----------------------
(***************************************************************************)
(* Proofs about SharedConnection: what the missing lock would give.  If no *)
(* two threads are inside exec_command at the same time, everybody gets    *)
(* the reply to his own command.  That holds of the context of a worker    *)
(* thread, which no other thread uses, and not of the one of the API.      *)
(***************************************************************************)
EXTENDS SharedConnection, SequenceTheorems, TLAPS

(***************************************************************************)
(* What a lock around exec_command would ensure.                           *)
(***************************************************************************)
Serial == \A t, u \in Threads : step[t] # "idle" /\ step[u] # "idle" => t = u

(***************************************************************************)
(* The command of the thread that is inside is the only one anywhere, and  *)
(* nothing is left behind for the next caller.                             *)
(***************************************************************************)
Alone(t) ==
  /\ step[t] \in {"look", "write"} => obuf = <<t>> /\ socket = <<>> /\ reader = <<>>
  /\ step[t] = "read" => obuf = <<>> /\ socket = <<t>> /\ reader = <<>>

Clean ==
  (\A t \in Threads : step[t] = "idle") => obuf = <<>> /\ socket = <<>> /\ reader = <<>>

IInv ==
  /\ step \in [Threads -> {"idle", "look", "write", "read"}]
  /\ name \in [Threads -> Threads \cup {Absent}]
  /\ IdentityKept
  /\ Clean
  /\ \A t \in Threads : Alone(t)

-----------------------------------------------------------------------------
(***************************************************************************)
(* The way of a single command through the buffers.                        *)
(***************************************************************************)
LEMMA OneCommand ==
  ASSUME NEW t \in Threads
  PROVE  /\ Append(<<>>, t) = <<t>>
         /\ <<>> \o <<t>> = <<t>>
         /\ SubSeq(<<t>>, 2, 1) = <<>>
         /\ <<>> \o SubSeq(<<t>>, 1, 1) = <<t>>
<1>1. <<>> \in Seq(Threads) /\ <<t>> \in Seq(Threads) /\ Len(<<t>>) = 1
  BY EmptySeq
<1>2. Append(<<>>, t) = <<t>>
  <2>1. /\ Append(<<>>, t) \in Seq(Threads) /\ Len(Append(<<>>, t)) = 1
        /\ Append(<<>>, t)[1] = t
    BY <1>1, EmptySeq
  <2> QED
    BY <1>1, <2>1, SeqEqual
<1>3. <<>> \o <<t>> = <<t>>
  BY <1>1, ConcatEmptySeq
<1>4. SubSeq(<<t>>, 2, 1) = <<>>
  BY SubSeqEmpty
<1>5. SubSeq(<<t>>, 1, 1) = <<t>>
  BY <1>1, SubSeqFull
<1> QED
  BY <1>2, <1>3, <1>4, <1>5

(***************************************************************************)
(* At first nobody is inside.                                              *)
(***************************************************************************)
LEMMA InitIInv == Init => IInv
  BY DEF Init, IInv, IdentityKept, Clean, Alone

(***************************************************************************)
(* Who enters finds nothing, and takes away what he has brought.           *)
(***************************************************************************)
LEMMA AppendIInv ==
  ASSUME IInv, Serial', NEW t \in Threads, AppendCommand(t)
  PROVE  IInv'
<1> USE DEF IInv, AppendCommand, Goto
<1>1. /\ step' = [step EXCEPT ![t] = "look"] /\ step[t] = "idle"
      /\ obuf' = Append(obuf, t) /\ UNCHANGED <<socket, reader, name>>
  OBVIOUS
<1>2. \A u \in Threads : step[u] = "idle"
  BY <1>1 DEF Serial
<1>3. obuf' = <<t>> /\ socket' = <<>> /\ reader' = <<>>
  <2>1. obuf = <<>> /\ socket = <<>> /\ reader = <<>>
    BY <1>2 DEF Clean
  <2> QED
    BY <1>1, <2>1, OneCommand
<1>4. \A u \in Threads : Alone(u)'
  BY <1>1, <1>2, <1>3 DEF Alone
<1>5. Clean' /\ IdentityKept'
  BY <1>1 DEF Clean, IdentityKept
<1> QED
  BY <1>1, <1>4, <1>5

LEMMA LookIInv ==
  ASSUME IInv, Serial, NEW t \in Threads, Look(t) \/ WriteBuffer(t)
  PROVE  IInv'
<1> USE DEF IInv, Goto
<1>1. \A u \in Threads \ {t} : step[u] = "idle"
  BY DEF Serial, Look, WriteBuffer
<1>2. CASE Look(t)
  <2>1. /\ step' = [step EXCEPT ![t] = "write"] /\ step[t] = "look"
        /\ UNCHANGED <<obuf, socket, reader, name>>
    BY <1>2 DEF Look, Alone
  <2> QED
    BY <1>1, <2>1 DEF Alone, Clean, IdentityKept
<1>3. CASE WriteBuffer(t)
  <2>1. /\ step' = [step EXCEPT ![t] = "read"] /\ step[t] = "write"
        /\ obuf' = <<>> /\ socket' = socket \o obuf /\ UNCHANGED <<reader, name>>
    BY <1>3 DEF WriteBuffer
  <2>2. socket' = <<t>> /\ reader' = <<>>
    <3>1. obuf = <<t>> /\ socket = <<>> /\ reader = <<>>
      BY <2>1 DEF Alone
    <3> QED
      BY <2>1, <3>1, OneCommand
  <2> QED
    BY <1>1, <2>1, <2>2 DEF Alone, Clean, IdentityKept
<1> QED
  BY <1>2, <1>3

LEMMA ReadIInv ==
  ASSUME IInv, Serial, NEW t \in Threads, ReadReplies(t)
  PROVE  IInv'
<1> USE DEF IInv
<1>1. step[t] = "read" /\ obuf = <<>> /\ socket = <<t>> /\ reader = <<>>
  BY DEF ReadReplies, Alone
<1>2. \A u \in Threads \ {t} : step[u] = "idle"
  BY <1>1 DEF Serial
<1>3. PICK n \in 1 .. Len(socket) :
        /\ socket' = SubSeq(socket, n + 1, Len(socket))
        /\ Return(t, reader \o SubSeq(socket, 1, n))
  BY DEF ReadReplies
<1>4. n = 1 /\ Len(socket) = 1
  BY <1>1, <1>3
<1>5. socket' = <<>> /\ reader \o SubSeq(socket, 1, n) = <<t>>
  <2>1. socket' = SubSeq(<<t>>, 2, 1)
    BY <1>1, <1>3, <1>4
  <2>2. reader \o SubSeq(socket, 1, n) = <<>> \o SubSeq(<<t>>, 1, 1)
    BY <1>1, <1>4
  <2> QED
    BY <2>1, <2>2, OneCommand
<1>6. /\ name' = [name EXCEPT ![t] = t] /\ reader' = <<>> /\ obuf' = <<>>
      /\ step' = [step EXCEPT ![t] = "idle"]
  BY <1>1, <1>3, <1>5 DEF Return, Goto, ReadReplies
<1> QED
  BY <1>2, <1>5, <1>6 DEF Alone, Clean, IdentityKept

LEMMA NextIInv == IInv /\ Serial /\ Serial' /\ [Next]_vars => IInv'
<1>1. IInv /\ UNCHANGED vars => IInv'
  BY DEF vars, IInv, IdentityKept, Clean, Alone
<1> QED
  BY <1>1, AppendIInv, LookIInv, ReadIInv DEF Next

-----------------------------------------------------------------------------
(***************************************************************************)
(* GET /auth/me answers with the right user in every behaviour in which    *)
(* the threads take turns in exec_command: a lock is all that is missing.  *)
(***************************************************************************)
THEOREM LockSuffices == Spec /\ []Serial => []IdentityKept
<1>1. IInv => IdentityKept
  BY DEF IInv
<1> QED
  BY <1>1, InitIInv, NextIInv, PTL DEF Spec

(***************************************************************************)
(* Also where only one thread has the context, as in the worker.           *)
(***************************************************************************)
THEOREM OneThreadSuffices ==
  ASSUME \A t, u \in Threads : t = u
  PROVE  Spec => []IdentityKept
<1>1. Serial
  BY DEF Serial
<1> QED
  BY <1>1, LockSuffices, PTL

=============================================================================
