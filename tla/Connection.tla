---------------------------- MODULE Connection ----------------------------
(***************************************************************************)
(* What a reliable connection promises the two applications that use it:   *)
(* the interface of urdp_connection.hpp (async_connect, the acceptor,      *)
(* async_send_reliable, the receive upcall, close), with no packet in it.  *)
(* UrdpFlow.tla is shown to implement it.                                  *)
(***************************************************************************)
EXTENDS Naturals, Sequences

CONSTANTS A, P          \* the connecting and the accepting end

VARIABLES phase,        \* of an end: new, open, over, or failed: never opened
          said,         \* the number of messages an end has sent
          heard         \* the messages its application was given

vars == <<phase, said, heard>>

Ends == {A, P}
Peer(e) == IF e = A THEN P ELSE A

Init == /\ phase = [e \in Ends |-> "new"]
        /\ said = [e \in Ends |-> 0]
        /\ heard = [e \in Ends |-> <<>>]

(* An end opens once, the accepting one only after the connecting one.     *)
Opens(e, before, after) ==
  before = "new" /\ after = "open" /\ (e = P => phase[A] \in {"open", "over"})

Moves(e, before, after) ==
  \/ before = after
  \/ Opens(e, before, after)
  \/ before = "new" /\ after = "failed"
  \/ before = "open" /\ after = "over"

(* An open end says one message more.                                      *)
Say(e) ==
  /\ phase[e] = "open" /\ said' = [said EXCEPT ![e] = @ + 1]
  /\ UNCHANGED <<phase, heard>>

(* One handler of an end: it opens, is given the peer's next n messages,   *)
(* each once and in the order said, or ends.                               *)
Handle(e, n) ==
  /\ Moves(e, phase[e], phase'[e])
  /\ phase' = [phase EXCEPT ![e] = phase'[e]]
  /\ n > 0 => "open" \in {phase[e], phase'[e]}
  /\ Len(heard[e]) + n <= said[Peer(e)]
  /\ heard' = [heard EXCEPT ![e] = @ \o [i \in 1 .. n |-> Len(@) + i]]
  /\ UNCHANGED said

Next == \E e \in Ends : Say(e) \/ \E n \in 0 .. said[Peer(e)] : Handle(e, n)

Spec == Init /\ [][Next]_vars

=============================================================================
