------------------------------ MODULE StudyLog ------------------------------
(***************************************************************************)
(* What submitting a review promises when each requestor waits for the     *)
(* answer before grading the same card again: one atomic step appends the  *)
(* review and moves the card's progress from the row it has to the next    *)
(* one of SM-2.  A failure may record the review and leave the progress    *)
(* alone, and so does an interval too long to be a date; nothing else can  *)
(* come apart.                                                             *)
(***************************************************************************)
EXTENDS Sm2

CONSTANTS User, Card, None, Day, MaxInterval

VARIABLES progress, reviews, failures

Init ==
  /\ progress = [p \in User \X Card |-> None]
  /\ reviews = {}
  /\ failures = 0

Current(u, c) == IF progress[<<u, c>>] = None THEN NewCard ELSE progress[<<u, c>>]

\* v is the next review of its user and card, graded from the current progress
Graded(v, s) ==
  /\ v \notin reviews
  /\ reviews' = reviews \cup {v}
  /\ \A w \in reviews : w.user = v.user /\ w.card = v.card => w.at < v.at
  /\ s \in Sm2(Current(v.user, v.card), v.quality)
  /\ v.ease = s.ease /\ v.interval = s.interval

Study(v, s) ==
  /\ Graded(v, s)
  /\ s.interval <= MaxInterval
  /\ \E last \in 0..v.at :
       progress' = [progress EXCEPT ![<<v.user, v.card>>] =
         [ease |-> s.ease, count |-> s.count, streak |-> s.streak,
          interval |-> s.interval, last |-> last,
          next |-> last + s.interval * Day]]
  /\ UNCHANGED failures

Unscheduled(v, s) ==
  /\ Graded(v, s)
  /\ UNCHANGED progress
  /\ \/ failures' = failures + 1
     \/ s.interval > MaxInterval /\ UNCHANGED failures

Fail == failures' = failures + 1 /\ UNCHANGED <<progress, reviews>>

Next ==
  \/ \E v \in reviews' :
       \E s \in Sm2(Current(v.user, v.card), v.quality) :
         Study(v, s) \/ Unscheduled(v, s)
  \/ Fail

Spec == Init /\ [][Next]_<<progress, reviews, failures>>
=============================================================================
