------------------------------ MODULE MCIovBoot ------------------------------
(* IovBoot with one VF, three registers in chunks of two, and a call of     *)
(* another thread of the VF, whose buffer is too small for its reply.       *)
EXTENDS IovBoot

CONSTANTS pf, v1, b1, b2, b3, w, failed, none

MCBootCalls == <<b1, b2, b3>>
MCCalls == {b1, b2, b3, w}
MCCaller == [c \in MCCalls |-> v1]
MCTarget == [c \in MCCalls |-> pf]
MCRoom == [c \in MCCalls |-> IF c = w THEN 0 ELSE 4]
MCWanted == {<<0, 0>>, <<0, 1>>, <<1, 3>>, <<2, 0>>, <<2, 2>>, <<3, 0>>}
MCLatest == <<2, 1>>
MCRequests == Handshakes \cup Queries \cup {<<"ack">>}
MCReplies == ServiceReplies
=============================================================================
