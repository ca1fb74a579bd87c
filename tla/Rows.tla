-------------------------------- MODULE Rows --------------------------------
(***************************************************************************)
(* The TUI's rows of transfers (applyTransfer, internal/tui/model.go): one  *)
(* per key, of either direction, filed from the events in channel order.    *)
(***************************************************************************)
Outcome   == [FileDone |-> "done", Error |-> "error", Cancel |-> "cancelled"]
Kinds     == {"Start"} \cup DOMAIN Outcome
RowStates == {"active"} \cup {Outcome[k] : k \in DOMAIN Outcome}

\* A Start opens a row and does not change the state of one that is there.
RowAfter(shown, ev) ==
  IF ev.kind \in DOMAIN Outcome THEN Outcome[ev.kind]
  ELSE IF ev.key \in DOMAIN shown THEN shown[ev.key]
  ELSE "active"

Filed(shown, ev) ==
  [k \in DOMAIN shown \cup {ev.key} |-> IF k = ev.key THEN RowAfter(shown, ev) ELSE shown[k]]
=============================================================================
