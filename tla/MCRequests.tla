----------------------------- MODULE MCRequests -----------------------------
(***************************************************************************)
(* A small instance of Requests: two slots and three connections.  c1 sends*)
(* a login or a deletion, whole; c2 sends a link in two halves, which      *)
(* recv takes one by one, and finds the first too short and the second to  *)
(* be of no kind, or together; c3 connects, into a slot or, when both are  *)
(* taken, into none.                                                       *)
(***************************************************************************)
EXTENDS Requests, TLC

CONSTANTS c1, c2, c3

MCConn == {c1, c2, c3}

MCMaxSends == c1 :> 1 @@ c2 :> 1 @@ c3 :> 0

MCRequest == {<<1, 1, 1, 97, 98>>, <<4, 1, 0, 97>>}

MCBurst == {<<<<9, 1, 1>>, <<97, 98, 0, 5>>>>}

(* "Partial messages are correctly reassembled and processed": every send  *)
(* of this instance is one request, and so is judged as one, even if recv  *)
(* takes it in pieces.  Violated: each piece is judged by itself.          *)
PartialsReassembled == \A c \in Conn : heard[c] <= sent[c]
=============================================================================
