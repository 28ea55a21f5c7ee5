---------------------------- MODULE HttpExchange ----------------------------
(***************************************************************************)
(* What one connection of the server promises its client, whatever the     *)
(* handlers do: requests are served one at a time, a request gets at most  *)
(* one complete answer, an answer is given only to a request that was      *)
(* taken, and nothing happens on a connection that has been closed.        *)
(***************************************************************************)
EXTENDS Naturals

VARIABLES taken,    \* requests the server has taken from the connection
          replied,  \* complete answers it has put on the connection
          open      \* the connection is still served

vars == <<taken, replied, open>>

Init == taken = 0 /\ replied = 0 /\ open = TRUE

\* Only with every earlier request answered is the next one taken; taking it
\* up may already bring the connection down.
Take == /\ open
        /\ taken = replied
        /\ taken' = taken + 1
        /\ open' \in BOOLEAN
        /\ UNCHANGED replied

\* The outstanding request is answered, and the connection goes on or ends.
Reply == /\ open
         /\ taken = replied + 1
         /\ replied' = replied + 1
         /\ open' \in BOOLEAN
         /\ UNCHANGED taken

\* The server gives the connection up, answered or not.
Close == open /\ open' = FALSE /\ UNCHANGED <<taken, replied>>

Next == Take \/ Reply \/ Close

Spec == Init /\ [][Next]_vars
=============================================================================
