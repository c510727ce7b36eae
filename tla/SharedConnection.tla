-------------------------- MODULE SharedConnection --------------------------
(***************************************************************************)
(* The one hiredis context of the API server under GET /auth/me requests   *)
(* of several users at once: httplib calls the handlers on a pool of       *)
(* threads, and each of them enters redis_.exec_command, which takes no    *)
(* lock.                                                                   *)
(*                                                                         *)
(* redisvCommand is modelled from what it does to the context: it appends  *)
(* the command to the output buffer, looks for a reply that has been read  *)
(* already, else writes the buffer to the socket and reads replies, and    *)
(* returns the first one there is.  Each of these is one step here.  That  *)
(* two threads also race inside a step, on the same strings, is undefined  *)
(* behaviour; what is modelled is what happens when they do not.           *)
(*                                                                         *)
(* Every thread handles one user's requests, and the server answers a GET  *)
(* of his token with his name, so a command and its reply are known by the *)
(* thread here.                                                            *)
(***************************************************************************)
EXTENDS Naturals, Sequences, Verdicts

CONSTANT Threads

VARIABLES
  step,    \* where a thread is in exec_command, or "idle"
  obuf,    \* commands appended and not yet written
  socket,  \* commands written whose replies have not been read
  reader,  \* replies read and not yet returned to a caller
  name     \* the user GET /auth/me last answered a thread's user with

vars == <<step, obuf, socket, reader, name>>

Goto(t, s) == step' = [step EXCEPT ![t] = s]

Return(t, replies) ==
  /\ name' = [name EXCEPT ![t] = Head(replies)]
  /\ reader' = Tail(replies)
  /\ Goto(t, "idle")

-----------------------------------------------------------------------------
AppendCommand(t) ==
  /\ step[t] = "idle"
  /\ obuf' = Append(obuf, t)
  /\ Goto(t, "look")
  /\ UNCHANGED <<socket, reader, name>>

Look(t) ==
  /\ step[t] = "look"
  /\ IF reader # <<>> THEN Return(t, reader)
                      ELSE Goto(t, "write") /\ UNCHANGED <<reader, name>>
  /\ UNCHANGED <<obuf, socket>>

WriteBuffer(t) ==
  /\ step[t] = "write"
  /\ socket' = socket \o obuf
  /\ obuf' = <<>>
  /\ Goto(t, "read")
  /\ UNCHANGED <<reader, name>>

(***************************************************************************)
(* A read blocks until there is something on the socket; Redis has         *)
(* answered some or all of the commands, in their order.                   *)
(***************************************************************************)
ReadReplies(t) ==
  /\ step[t] = "read"
  /\ \E n \in 1 .. Len(socket) :
       /\ socket' = SubSeq(socket, n + 1, Len(socket))
       /\ Return(t, reader \o SubSeq(socket, 1, n))
  /\ UNCHANGED obuf

-----------------------------------------------------------------------------
Init ==
  /\ step = [t \in Threads |-> "idle"]
  /\ obuf = <<>>
  /\ socket = <<>>
  /\ reader = <<>>
  /\ name = [t \in Threads |-> Absent]

Next == \E t \in Threads :
          AppendCommand(t) \/ Look(t) \/ WriteBuffer(t) \/ ReadReplies(t)

Spec == Init /\ [][Next]_vars

-----------------------------------------------------------------------------
(***************************************************************************)
(* GET /auth/me answers with the user whose token came with the request,   *)
(* whoever else is using the API: README.md line 59 calls it "Current user *)
(* info".  (require_auth decides by the same reply for whom every other    *)
(* handler acts.)                                                          *)
(***************************************************************************)
IdentityKept == \A t \in Threads : name[t] \in {t, Absent}

=============================================================================
