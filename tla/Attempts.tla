------------------------------ MODULE Attempts ------------------------------
(***************************************************************************)
(* The record of an attempt to send, as data: its states, and the          *)
(* questions that the sender, the deferred watch, a mailing and startup    *)
(* ask of them (store/outgoing.rs, main.rs).                               *)
(***************************************************************************)

\* "none" stands for a message without a record.
AttemptState ==
  {"none", "sending", "accepted", "archived", "rejected", "uncertain", "resolved"}

\* Mutation: a doubtful send is tried again like a refused one.
Mutant_may_have_gone(s) == s \in {"sending", "accepted", "archived"}

\* Mutation: a second send of a message may begin while the first is in flight.
Mutant_in_flight_again(s) == s \in {"accepted", "archived", "uncertain"}

\* Sending again could deliver the message twice.
may_have_gone(s) == s \in {"sending", "accepted", "archived", "uncertain"}

\* A person has something to look at (the rows of `unsettled`): unfiled says
\* that the record has an archive_error.
needs_a_person(s, unfiled) == s = "uncertain" \/ (s = "accepted" /\ unfiled)

\* What startup may forget once it is thirty days old.
prunable(s, unfiled) ==
  s \in {"rejected", "archived", "resolved"} \/ (s = "accepted" /\ ~unfiled)

\* Mutation: a send of unknown outcome is reported as sent.
Mutant_scheduled_send_precheck(s) ==
  IF s \in {"accepted", "archived", "uncertain"} THEN "sent"
  ELSE IF s = "sending" THEN "in_flight"
  ELSE "try"

\* What an earlier attempt already settles for a scheduled message.
scheduled_send_precheck(s) ==
  IF s \in {"accepted", "archived"} THEN "sent"
  ELSE IF s = "sending" THEN "in_flight"
  ELSE IF s = "uncertain" THEN "uncertain"
  ELSE "try"

\* Mutation: "already attempted" counts as sent while the attempt is in flight.
Mutant_scheduled_outcome_of(s) ==
  IF s \in {"accepted", "archived", "sending"} THEN "sent" ELSE "uncertain"

\* What the answer "already attempted" in state s means to who asked.
scheduled_outcome_of(s) ==
  IF s \in {"accepted", "archived"} THEN "sent"
  ELSE IF s = "sending" THEN "in_flight"
  ELSE "uncertain"

\* Mutation: nothing is marked.
Mutant_left_sending(s) == s

\* What the dead process left in flight is marked at startup.
mark_interrupted_uncertain(s) == IF s = "sending" THEN "uncertain" ELSE s

=============================================================================
