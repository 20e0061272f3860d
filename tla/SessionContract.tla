-------------------------- MODULE SessionContract --------------------------
(***************************************************************************)
(* What the users of the auth module may rely on: a login opens a session  *)
(* for one account; sessions of one account may be ended, several at once; *)
(* an ended session never comes back.  A refresh is invisible here.        *)
(***************************************************************************)
CONSTANTS Users, Sessions, None

VARIABLES
    status, \* of each session: not opened yet, open or ended
    holder  \* the account a session was opened for

Statuses == {"none", "open", "ended"}

Init ==
    /\ status = [s \in Sessions |-> "none"]
    /\ holder = [s \in Sessions |-> None]

Open(s, u) ==
    /\ status[s] = "none"
    /\ status' = [status EXCEPT ![s] = "open"]
    /\ holder' = [holder EXCEPT ![s] = u]

OpenSessionsOf(u) == {s \in Sessions : status[s] = "open" /\ holder[s] = u}

End(u, S) ==
    /\ S \subseteq OpenSessionsOf(u)
    /\ status' = [s \in Sessions |-> IF s \in S THEN "ended" ELSE status[s]]
    /\ UNCHANGED holder

Next ==
    \E u \in Users :
        \/ \E s \in Sessions : Open(s, u)
        \/ \E S \in SUBSET OpenSessionsOf(u) : End(u, S)

Spec == Init /\ [][Next]_<<status, holder>>
=============================================================================
