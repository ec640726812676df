---------------------------- MODULE RpcExchange ----------------------------
(***************************************************************************)
(* What a client of the server may rely on: each notification of a request *)
(* comes once, the response comes when none is missing, and nothing        *)
(* follows it. Notifications come in order unless several threads send     *)
(* them. Requests are answered in any order, or not at all.                *)
(***************************************************************************)
EXTENDS Naturals, Sequences

CONSTANTS Requests,  \* requests of one connection
          Parallel,  \* requests with several sending threads
          MaxNotes,  \* bound on the notifications of a request
          Response   \* the final message of a request

VARIABLES asked,     \* requests sent
          got        \* got[r]: the messages received for request r

Init == asked = {} /\ got = [r \in Requests |-> << >>]

Received(r) == {got[r][i] : i \in DOMAIN got[r]}
Answered(r) == Response \in Received(r)

Ask(r) ==
    /\ asked' = asked \union {r}
    /\ UNCHANGED got

\* Those that may come next.
NextNotes(r) ==
    IF r \in Parallel THEN (1..MaxNotes) \ Received(r)
                      ELSE {n \in 1..MaxNotes : n = Len(got[r]) + 1}

Complete(r) == Received(r) = 1..Len(got[r])

Deliver(r) ==
    /\ r \in asked /\ ~Answered(r)
    /\ \E m \in NextNotes(r) \union (IF Complete(r) THEN {Response} ELSE {}) :
          got' = [got EXCEPT ![r] = Append(@, m)]
    /\ UNCHANGED asked

Next == \E r \in Requests : Ask(r) \/ Deliver(r)

Spec == Init /\ [][Next]_<<asked, got>>
=============================================================================
