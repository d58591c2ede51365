---------------------------- MODULE MCAtChannel ----------------------------
(***************************************************************************)
(* Instances of AtChannel for TLC.                                         *)
(***************************************************************************)
EXTENDS AtChannel

ThreadSymmetry == Permutations(Threads)

Request(a, p, o) == [api |-> a, prefix |-> p, out |-> o]

(* One call of each shape.                                                  *)
AnswerRequests ==
  {Request("singleline", "+CPIN:", TRUE), Request("multiline", "+CPIN:", TRUE),
   Request("numeric", AnyPrefix, TRUE), Request("command", AnyPrefix, TRUE),
   Request("sms", "+CPIN:", TRUE)}

CommandRequests == {Request("command", AnyPrefix, TRUE)}

HandshakeRequests ==
  {Request("handshake", AnyPrefix, FALSE), Request("command", AnyPrefix, TRUE)}

=============================================================================
