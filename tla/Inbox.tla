-------------------------------- MODULE Inbox --------------------------------
(***************************************************************************)
(* What the receive folder promises about uploads, without paths, inodes,  *)
(* temporary files, tokens, sessions or events: a file arrives whole and   *)
(* at once, stays, and the answer the sender gets tells the truth about it. *)
(* writeFile's comment (internal/server/server.go) is the code's own        *)
(* statement of it.                                                         *)
(***************************************************************************)
CONSTANT Uploads

VARIABLES
  inbox,   \* the uploads whose whole file is in the folder
  status   \* what became of each upload's request

ivars == <<inbox, status>>

Init == inbox = {} /\ status = [u \in Uploads |-> "none"]

Open(u) ==
  /\ status[u] = "none"
  /\ status' = [status EXCEPT ![u] = "open"]
  /\ UNCHANGED inbox

\* The file is there, from one moment to the next.
Deliver(u) ==
  /\ status[u] = "open" /\ u \notin inbox
  /\ inbox' = inbox \cup {u}
  /\ UNCHANGED status

Confirm(u) ==
  /\ status[u] = "open" /\ u \in inbox
  /\ status' = [status EXCEPT ![u] = "ok"]
  /\ UNCHANGED inbox

Refuse(u) ==
  /\ status[u] = "open" /\ u \notin inbox
  /\ status' = [status EXCEPT ![u] = "refused"]
  /\ UNCHANGED inbox

\* The process dies: requests it was serving get no answer, files stay.
Lose ==
  /\ status' = [u \in Uploads |-> IF status[u] = "open" THEN "lost" ELSE status[u]]
  /\ UNCHANGED inbox

Next == (\E u \in Uploads : Open(u) \/ Deliver(u) \/ Confirm(u) \/ Refuse(u)) \/ Lose

Spec == Init /\ [][Next]_ivars
=============================================================================
