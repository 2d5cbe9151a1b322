------------------------------ MODULE RpcService ------------------------------
(***************************************************************************)
(* What a client may count on from an MCP server behind one pipe: requests *)
(* are answered once each, in the order they were made, until the session  *)
(* breaks; then those that are owed an answer never get one.  A line that  *)
(* answers nobody may come at any time.                                    *)
(***************************************************************************)
EXTENDS Naturals, Sequences

VARIABLES
    asked,  \* how many requests were made; a request's id is its number
    owed,   \* the requests that are to be answered
    told    \* the ids of the lines that came back

vars == <<asked, owed, told>>

Nobody == 0  \* the id of a line that answers no request

Init == asked = 0 /\ owed = {} /\ told = <<>>

Ask ==
    /\ asked' = asked + 1
    /\ owed' = owed \union {asked + 1}
    /\ UNCHANGED told

Answer ==
    \E i \in owed :
        /\ \A j \in owed : i <= j
        /\ owed' = owed \ {i}
        /\ told' = Append(told, i)
        /\ UNCHANGED asked

Aside ==
    /\ told' = Append(told, Nobody)
    /\ UNCHANGED <<asked, owed>>

Break ==
    /\ owed' = {}
    /\ UNCHANGED <<asked, told>>

Next == Ask \/ Answer \/ Aside \/ Break

\* What is owed is answered, or the session breaks.
Spec == Init /\ [][Next]_vars /\ WF_vars(Answer \/ Break)
=============================================================================
