------------------------------ MODULE ApiStudy ------------------------------
(***************************************************************************)
(* submitReview against StudyLog.  A review counts from its progress       *)
(* upsert on: until then, the row that the pending request has inserted    *)
(* (the latest of its user and card) is not shown.                         *)
(***************************************************************************)
EXTENDS Api

Pending(v) ==
  \E r \in Request :
    /\ pc[r] = "upsert" /\ call[r].user = v.user /\ call[r].card = v.card
    /\ \A w \in reviews : w.user = v.user /\ w.card = v.card => w.at <= v.at

Shown == {v \in reviews : ~Pending(v)}

Log == INSTANCE StudyLog WITH reviews <- Shown

\* A requestor's submissions all come over one slot, one after the other.
SerialStudents ==
  \A u \in User : \A r, q \in Request :
    <<u, "submitReview">> \in Traffic[r] /\ <<u, "submitReview">> \in Traffic[q] => r = q

(* Two statements without a transaction behave as one for a requestor who   *)
(* sends one review of a card at a time, interrupted or not.                *)
AtomicStudy == Log!Spec
=============================================================================
