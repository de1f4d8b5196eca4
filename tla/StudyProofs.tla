----------------------------- MODULE StudyProofs -----------------------------
(***************************************************************************)
(* submitReview, two statements without a transaction, implements the one  *)
(* step of StudyLog for students who wait for their answers, whatever else *)
(* the API is asked meanwhile and for every number of users, cards and     *)
(* requests.                                                               *)
(***************************************************************************)
EXTENDS ApiStudy, ScheduleProofs

-----------------------------------------------------------------------------
(* What a request may do next.                                             *)

LEMMA UpsertEnds ==
  ASSUME IInv, [Next]_vars, NEW q \in Request, pc[q] = "upsert"
  PROVE  Stays(q) \/ UpsertProgress(q) \/ Interrupted(q)
<1>1. ASSUME NEW r \in Request, NEW s, NEW ids, ReplyRows(r, s, ids), r # q
      PROVE  Stays(q)
  BY <1>1 DEF ReplyRows, Stays, IInv, TypeOK, RequestsTypeOK
<1>2. ASSUME NEW r \in Request, NEW w, NEW d, NEW p, Await(r, w, d, p), r # q
      PROVE  Stays(q)
  BY <1>2, AwaitStays
<1>3. ASSUME NEW r \in Request, Arrive(r)
      PROVE  Stays(q)
  BY <1>3 DEF Arrive, Stays, IInv, TypeOK, RequestsTypeOK
<1>4. ASSUME NEW r \in Request, Access(r) \/ UserService(r)
      PROVE  Stays(q)
  BY <1>1, <1>2, <1>4
  DEF Access, LoadCard, LoadDeck, LoadCollaborator, Reply,
      UserService, FindUser, UpdateUser, DeleteUser
<1>5. ASSUME NEW r \in Request, DeckService(r) \/ CardService(r)
      PROVE  Stays(q)
  BY <1>1, <1>5
  DEF DeckService, ListDecks, GetDeck, CreateDeck, UpdateDeck, DeleteDeck,
      CardService, ListCards, GetCard, CreateCard, UpdateCard, DeleteCard, Reply,
      Loaded, Starting
<1>6. ASSUME NEW r \in Request, ReviewService(r)
      PROVE  Stays(q) \/ UpsertProgress(q)
  <2>1. CASE r = q
    BY <1>6, <2>1 DEF ReviewService, GetCardProgress, Compute, CreateReview, ListDue
  <2>2. CASE r # q
    BY <1>1, <1>2, <1>6, <2>2
    DEF ReviewService, GetCardProgress, Compute, CreateReview, UpsertProgress,
        ListDue, Reply
  <2> QED  BY <2>1, <2>2
<1>7. ASSUME NEW r \in Request, Interrupted(r)
      PROVE  Stays(q) \/ Interrupted(q)
  BY <1>1, <1>7 DEF Interrupted, Reply
<1>8. CASE Collaboration \/ Tick \/ UNCHANGED vars
  BY <1>8 DEF Collaboration, Share, Unshare, Tick, vars, locals, Stays
<1> QED  BY <1>3, <1>4, <1>5, <1>6, <1>7, <1>8 DEF Next

LEMMA FailureChange ==
  ASSUME [Next]_vars, ~\E r \in Request : Interrupted(r)
  PROVE  UNCHANGED failures
<1>1. ASSUME NEW r \in Request, Arrive(r) \/ Access(r) \/ UserService(r)
      PROVE  UNCHANGED failures
  BY <1>1
  DEF Arrive, Access, LoadCard, LoadDeck, LoadCollaborator, UserService,
      FindUser, UpdateUser, DeleteUser
<1>2. ASSUME NEW r \in Request, DeckService(r) \/ CardService(r)
      PROVE  UNCHANGED failures
  BY <1>2
  DEF DeckService, ListDecks, GetDeck, CreateDeck, UpdateDeck, DeleteDeck,
      CardService, ListCards, GetCard, CreateCard, UpdateCard, DeleteCard
<1>3. ASSUME NEW r \in Request, ReviewService(r)
      PROVE  UNCHANGED failures
  BY <1>3
  DEF ReviewService, GetCardProgress, Compute, CreateReview, UpsertProgress,
      ListDue
<1>4. CASE Collaboration \/ Tick \/ UNCHANGED vars
  BY <1>4 DEF Collaboration, Share, Unshare, Tick, vars
<1> QED  BY <1>1, <1>2, <1>3, <1>4 DEF Next

-----------------------------------------------------------------------------
(* StudyInv is inductive.                                                  *)

\* Two submissions of one user are one.
LEMMA OneSubmission ==
  ASSUME SerialStudents, IInv, Admitted, NEW r \in Request, NEW q \in Request,
         pc[r] \in Submitting, pc[q] \in Submitting, call[r].user = call[q].user
  PROVE  r = q
<1>1. /\ call[r].op = "submitReview" /\ call[q].op = "submitReview"
      /\ call[r].user \in User
  BY DEF IInv, LocalsOK, At, CallOK, Submitting
<1>2. /\ <<call[r].user, "submitReview">> \in Traffic[r]
      /\ <<call[r].user, "submitReview">> \in Traffic[q]
  BY <1>1 DEF Admitted, Submitting
<1> QED  BY <1>1, <1>2 DEF SerialStudents

LEMMA NextDated ==
  ASSUME StudyInv, [Next]_vars
  PROVE  Dated'
<1> USE DEF StudyInv, AInv
<1>1. clock \in Nat /\ clock' \in Nat /\ clock <= clock' /\ \A v \in reviews : v.at \in Nat
  BY ClockAdvances DEF IInv, TypeOK, TablesTypeOK, ReviewRow
<1>2. CASE UNCHANGED reviews
  BY <1>1, <1>2 DEF Dated
<1>3. ASSUME NEW r \in Request, Inserts(r)
      PROVE  Dated'
  BY <1>1, <1>3 DEF Dated, Inserts, NewReview
<1> QED  BY <1>2, <1>3, ReviewChange

\* Nobody else writes the progress a submission has read ...
LEMMA ProgressKept ==
  ASSUME SerialStudents, StudyInv, [Next]_vars, NEW q \in Request,
         pc[q] \in Submitting, Stays(q)
  PROVE  progress'[<<call[q].user, call[q].card>>] = progress[<<call[q].user, call[q].card>>]
<1> SUFFICES ASSUME progress'[<<call[q].user, call[q].card>>] # progress[<<call[q].user, call[q].card>>]
             PROVE  FALSE
  OBVIOUS
<1>1. PICK r \in Request : UpsertProgress(r)
  BY ProgressChange DEF StudyInv, AInv
<1>2. call[r].user = call[q].user /\ pc[r] = "upsert"
  <2>1. /\ progress \in [User \X Card -> ProgressRow \cup {None}]
        /\ call[q].user \in User /\ call[q].card \in Card
    BY RowTyped DEF StudyInv, AInv, IInv, TypeOK, TablesTypeOK
  <2> QED  BY <1>1, <2>1 DEF UpsertProgress, SetProgress, tables
<1>3. r = q
  BY <1>2, OneSubmission DEF StudyInv, AInv, Submitting
<1>4. pc'[q] = "done"
  BY <1>1, <1>3 DEF UpsertProgress, Reply, ReplyRows, StudyInv, AInv, IInv, TypeOK, RequestsTypeOK
<1> QED  BY <1>2, <1>3, <1>4 DEF Stays

\* ... or records a review after the one it has inserted.
LEMMA LatestKept ==
  ASSUME SerialStudents, StudyInv, [Next]_vars, NEW q \in Request,
         pc[q] = "upsert", Stays(q), NEW v \in reviews, v.user = call[q].user, Latest(v)
  PROVE  v \in reviews' /\ Latest(v)'
<1>1. CASE UNCHANGED reviews
  BY <1>1 DEF Latest
<1>2. ASSUME NEW r \in Request, Inserts(r)
      PROVE  v \in reviews' /\ Latest(v)'
  <2>1. r # q /\ pc[r] = "review"
    BY <1>2 DEF Inserts
  <2>2. NewReview(r).user # v.user
    BY <2>1, OneSubmission DEF StudyInv, AInv, Submitting, NewReview
  <2> QED  BY <1>2, <2>2 DEF Latest, Inserts
<1> QED  BY <1>1, <1>2, ReviewChange DEF StudyInv, AInv

LEMMA NextUndisturbed ==
  ASSUME SerialStudents, StudyInv, [Next]_vars, NEW q \in Request
  PROVE  Undisturbed(q)'
<1> SUFFICES ASSUME pc'[q] \in Submitting
             PROVE  Undisturbed(q)'
  BY DEF Undisturbed, Submitting
<1> USE DEF StudyInv, AInv
<1>1. CASE Stays(q)
  <2>1. /\ pc[q] \in Submitting /\ pc'[q] = pc[q] /\ call'[q] = call[q]
        /\ row'[q] = row[q]
    BY <1>1 DEF Stays
  <2>2. progress'[<<call[q].user, call[q].card>>] = progress[<<call[q].user, call[q].card>>]
    BY <1>1, <2>1, ProgressKept
  <2>3. pc[q] \in {"review", "upsert"} => Computed(call[q], row[q])'
    <3>1. ASSUME Computed(call[q], row[q]), pc[q] \in {"review", "upsert"}
          PROVE  Computed(call[q], row[q])'
      <4>1. row[q].last \in Nat /\ clock \in Nat
        BY <3>1, RowTyped DEF ProgressRow, IInv, TypeOK, TablesTypeOK
      <4> QED  BY <2>1, <2>2, <3>1, <4>1, ClockAdvances DEF Computed
    <3> QED  BY <3>1 DEF Undisturbed
  <2>4. pc[q] = "upsert" =>
          \E v \in reviews' :
            /\ v.user = call[q].user /\ v.card = call[q].card /\ Latest(v)'
            /\ v.quality = call[q].quality /\ v.ease = row[q].ease
            /\ v.interval = row[q].interval /\ row[q].last <= v.at
    BY <1>1, LatestKept DEF Undisturbed
  <2> QED  BY <2>1, <2>2, <2>3, <2>4 DEF Undisturbed, Progress, Latest
<1>2. CASE Reads(q)
  BY <1>2 DEF Reads, Undisturbed, Progress, tables
<1>3. CASE Computes(q)
  <2>1. row[q] = progress[<<call[q].user, call[q].card>>]
    BY <1>3 DEF Computes, Undisturbed, Progress
  <2>2. PICK s \in Sm2(Existing(q), call[q].quality) :
          row'[q] = [ease |-> s.ease, count |-> s.count, streak |-> s.streak,
                     interval |-> s.interval, last |-> clock,
                     next |-> clock + s.interval * Day]
    BY <1>3 DEF Computes
  <2>3. clock \in Nat /\ row'[q].last = clock
    BY <2>2 DEF IInv, TypeOK, TablesTypeOK
  <2> QED  BY <1>3, <2>1, <2>2, <2>3 DEF Computes, Undisturbed, Computed, Existing, tables
<1>4. CASE Inserts(q)
  <2>1. Computed(call[q], row[q]) /\ row[q].last <= clock
    BY <1>4 DEF Inserts, Undisturbed, Computed
  <2>2. NewReview(q) \in reviews' /\ \A w \in reviews' : w.at <= clock
    BY <1>4 DEF Inserts, NewReview, Dated, IInv, TypeOK, TablesTypeOK
  <2>3. /\ NewReview(q).user = call[q].user /\ NewReview(q).card = call[q].card
        /\ NewReview(q).quality = call[q].quality /\ NewReview(q).ease = row[q].ease
        /\ NewReview(q).interval = row[q].interval /\ NewReview(q).at = clock
    BY DEF NewReview
  <2> QED  BY <1>4, <2>1, <2>2, <2>3 DEF Inserts, Undisturbed, Computed, Latest
<1> QED  BY <1>1, <1>2, <1>3, <1>4, Submission

LEMMA AlwaysStudyInv ==
  ASSUME SerialStudents
  PROVE  Spec => []StudyInv
<1>1. Init => StudyInv
  <2> SUFFICES ASSUME Init PROVE StudyInv
    OBVIOUS
  <2>1. IInv
    BY InitIInv
  <2> QED  BY <2>1
           DEF Init, TablesInit, RequestsInit, StudyInv, AInv, Dated, Admitted, Undisturbed
<1>2. StudyInv /\ [Next]_vars => StudyInv'
  BY NextAInv, NextDated, NextUndisturbed DEF StudyInv, AInv
<1> QED  BY <1>1, <1>2, PTL DEF Spec

-----------------------------------------------------------------------------
(* The refinement: which reviews a step shows.                             *)

LEMMA ShownIs ==
  \A v : v \in Shown <=> v \in reviews /\ ~Pending(v)
BY DEF Shown

\* v is the review that the pending upsert of r follows.
Behind(r, v) ==
  /\ v \in reviews /\ v.user = call[r].user /\ v.card = call[r].card /\ Latest(v)
  /\ v.quality = call[r].quality /\ v.ease = row[r].ease
  /\ v.interval = row[r].interval /\ row[r].last <= v.at

LEMMA BehindHidden ==
  ASSUME StudyInv, NEW r \in Request, pc[r] = "upsert"
  PROVE  \E v : Behind(r, v) /\ v \notin Shown
<1>1. PICK v : Behind(r, v)
  BY DEF StudyInv, AInv, Undisturbed, Behind
<1>2. Pending(v)
  BY <1>1 DEF Pending, Behind, Latest
<1> QED  BY <1>1, <1>2, ShownIs

\* What is pending does not depend on steps of other requests.
LEMMA PendingKept ==
  ASSUME SerialStudents, StudyInv, [Next]_vars, UNCHANGED reviews, NEW v,
         NEW q \in Request, pc[q] = "upsert", call[q].user = v.user, call[q].card = v.card,
         Latest(v), Stays(q)
  PROVE  Pending(v)'
BY DEF Pending, Latest, Stays

LEMMA PendingBefore ==
  ASSUME SerialStudents, StudyInv, [Next]_vars, UNCHANGED reviews, NEW v, Pending(v)'
  PROVE  \E q \in Request : /\ pc[q] = "upsert" /\ Stays(q) /\ Latest(v)
                            /\ call[q].user = v.user /\ call[q].card = v.card
<1>1. PICK q \in Request :
        /\ pc'[q] = "upsert" /\ call'[q].user = v.user /\ call'[q].card = v.card
        /\ \A w \in reviews' : w.user = v.user /\ w.card = v.card => w.at <= v.at
  BY DEF Pending
<1>2. Stays(q)
  <2>1. ASSUME Inserts(q)
        PROVE  FALSE
    <3>1. NewReview(q) \in reviews
      BY <2>1 DEF Inserts
    <3>2. /\ NewReview(q).user = call[q].user /\ NewReview(q).card = call[q].card
          /\ NewReview(q).at = clock
      BY DEF NewReview
    <3> QED  BY <2>1, <3>1, <3>2 DEF Inserts
  <2> QED  BY <1>1, <2>1, Submission DEF Submitting, StudyInv, AInv, Reads, Computes
<1> QED  BY <1>1, <1>2 DEF Stays, Latest

LEMMA SameShown ==
  ASSUME SerialStudents, StudyInv, [Next]_vars, UNCHANGED reviews,
         \A q \in Request : pc[q] = "upsert" => Stays(q)
  PROVE  Shown' = Shown
<1>1. \A v : Pending(v)' <=> Pending(v)
  <2>1. ASSUME NEW v, Pending(v)
        PROVE  Pending(v)'
    BY <2>1 DEF Pending, Stays
  <2>2. ASSUME NEW v, Pending(v)'
        PROVE  Pending(v)
    BY <2>2, PendingBefore DEF Pending, Latest
  <2> QED  BY <2>1, <2>2
<1> QED  BY <1>1 DEF Shown

LEMMA InsertHidden ==
  ASSUME SerialStudents, StudyInv, [Next]_vars, NEW r \in Request, Inserts(r)
  PROVE  Shown' = Shown
<1> USE DEF StudyInv, AInv
<1>0. PICK n : n = NewReview(r)
  OBVIOUS
<1>1. /\ n.user = call[r].user /\ n.card = call[r].card /\ n.at = clock
      /\ reviews' = reviews \cup {n}
  BY <1>0 DEF NewReview, Inserts
<1>2. clock \in Nat /\ \A v \in reviews : v.at \in Nat /\ v.at <= clock
  BY DEF Dated, IInv, TypeOK, TablesTypeOK, ReviewRow
<1>3. \A v \in reviews : v.user = n.user /\ v.card = n.card => v.at < clock
  BY <1>1, <1>2 DEF Inserts
<1>4. Pending(n)' /\ n \notin reviews
  <2>1. pc'[r] = "upsert" /\ call'[r] = call[r]
    BY DEF Inserts
  <2>2. \A w \in reviews' : w.user = n.user /\ w.card = n.card => w.at <= n.at
    BY <1>1, <1>2
  <2>3. Pending(n)'
    BY <1>1, <2>1, <2>2 DEF Pending
  <2> QED  BY <1>1, <1>3, <2>3, <1>2
<1>5. ASSUME NEW v \in reviews, Pending(v)
      PROVE  Pending(v)'
  <2>1. PICK q \in Request :
          /\ pc[q] = "upsert" /\ call[q].user = v.user /\ call[q].card = v.card
          /\ \A w \in reviews : w.user = v.user /\ w.card = v.card => w.at <= v.at
    BY <1>5 DEF Pending
  <2>2. q # r /\ pc[r] = "review"
    BY <2>1 DEF Inserts
  <2>3. n.user # v.user
    BY <1>1, <2>1, <2>2, OneSubmission DEF Submitting
  <2>4. Stays(q)
    <3>1. \A s, ids : ReplyRows(q, s, ids) => FALSE
      <4>1. pc'[r] # pc[r] /\ r # q
        BY <2>2 DEF Inserts
      <4> QED  BY <4>1 DEF ReplyRows, IInv, TypeOK, RequestsTypeOK
    <3> QED  BY <2>1, <3>1, UpsertEnds DEF UpsertProgress, Interrupted, Reply
  <2> QED  BY <1>1, <2>1, <2>3, <2>4 DEF Pending, Stays
<1>6. ASSUME NEW v \in reviews, Pending(v)'
      PROVE  Pending(v)
  <2>1. PICK q \in Request :
          /\ pc'[q] = "upsert" /\ call'[q].user = v.user /\ call'[q].card = v.card
          /\ \A w \in reviews' : w.user = v.user /\ w.card = v.card => w.at <= v.at
    BY <1>6 DEF Pending
  <2>2. q # r
    <3> SUFFICES ASSUME q = r PROVE FALSE
      OBVIOUS
    <3>1. n.user = v.user /\ n.card = v.card /\ n.at <= v.at
      BY <1>1, <2>1 DEF Inserts
    <3> QED  BY <1>1, <1>2, <1>3, <3>1
  <2>3. Stays(q) \/ Inserts(q)
    BY <2>1, Submission DEF Submitting, Reads, Computes
  <2>4. Stays(q)
    <3>1. ASSUME Inserts(q)
          PROVE  FALSE
      <4>1. NewReview(q) \notin reviews
        <5>1. /\ NewReview(q).user = call[q].user /\ NewReview(q).card = call[q].card
              /\ NewReview(q).at = clock
          BY DEF NewReview
        <5> QED  BY <3>1, <5>1 DEF Inserts
      <4>2. NewReview(q) = n
        BY <1>1, <3>1, <4>1 DEF Inserts
      <4>3. call[q].user = call[r].user
        BY <1>1, <4>2 DEF NewReview
      <4> QED  BY <2>2, <3>1, <4>3, OneSubmission DEF Inserts, Submitting
    <3> QED  BY <2>3, <3>1
  <2> QED  BY <1>1, <2>1, <2>4 DEF Pending, Stays
<1> QED  BY <1>1, <1>4, <1>5, <1>6 DEF Shown

\* A request that leaves its upsert uncovers the review behind it.
LEMMA Uncovered ==
  ASSUME SerialStudents, StudyInv, [Next]_vars, UNCHANGED reviews,
         NEW r \in Request, pc[r] = "upsert", pc'[r] = "done", NEW v, Behind(r, v)
  PROVE  /\ v \notin Shown /\ Shown' = Shown \cup {v}
         /\ \A w \in Shown : w.user = v.user /\ w.card = v.card => w.at < v.at
<1> USE DEF StudyInv, AInv
<1>1. /\ v \in reviews /\ Latest(v) /\ Pending(v)
      /\ v.user = call[r].user /\ v.card = call[r].card
  BY DEF Behind, Pending, Latest
<1>2. \A x \in reviews : x.user = v.user /\ x.card = v.card /\ x # v => x.at < v.at
  <2>1. \A x \in reviews : x.at \in Nat
    BY DEF IInv, TypeOK, TablesTypeOK, ReviewRow
  <2> QED  BY <1>1, <2>1 DEF Latest, Dated
<1>3. ~Pending(v)'
  <2> SUFFICES ASSUME Pending(v)' PROVE FALSE
    OBVIOUS
  <2>1. PICK q \in Request : pc[q] = "upsert" /\ Stays(q) /\ call[q].user = v.user
    BY PendingBefore
  <2>2. q = r
    BY <1>1, <2>1, OneSubmission DEF Submitting
  <2> QED  BY <2>1, <2>2 DEF Stays
<1>4. ASSUME NEW x \in reviews, x # v
      PROVE  Pending(x)' <=> Pending(x)
  <2>1. ASSUME Pending(x)
        PROVE  Pending(x)'
    <3>1. PICK q \in Request :
            /\ pc[q] = "upsert" /\ call[q].user = x.user /\ call[q].card = x.card
            /\ \A w \in reviews : w.user = x.user /\ w.card = x.card => w.at <= x.at
      BY <2>1 DEF Pending
    <3>2. q # r
      <4>1. \A y \in reviews : y.at \in Nat
        BY DEF IInv, TypeOK, TablesTypeOK, ReviewRow
      <4> QED  BY <1>1, <1>2, <1>4, <3>1, <4>1
    <3>3. Stays(q)
      <4>1. \A s, ids : ~ReplyRows(q, s, ids)
        BY <3>2 DEF ReplyRows, IInv, TypeOK, RequestsTypeOK
      <4> QED  BY <3>1, <4>1, UpsertEnds DEF UpsertProgress, Interrupted, Reply
    <3> QED  BY <3>1, <3>3, PendingKept DEF Latest
  <2>2. ASSUME Pending(x)'
        PROVE  Pending(x)
    BY <2>2, PendingBefore DEF Pending, Latest
  <2> QED  BY <2>1, <2>2
<1>5. v \notin Shown
  BY <1>1, ShownIs
<1>6. Shown' = Shown \cup {v}
  BY <1>1, <1>3, <1>4 DEF Shown
<1> QED  BY <1>2, <1>5, <1>6, ShownIs

LEMMA SameSm2 ==
  /\ Log!NewCard = NewCard
  /\ \A p, q : Log!Sm2(p, q) = Sm2(p, q)
<1>1. \A n : Log!Rounded(n) = Rounded(n)
  BY DEF Log!Rounded, Rounded
<1>2. \A e, q : Log!NextEase(e, q) = NextEase(e, q)
  BY DEF Log!NextEase, NextEase, Log!EaseDelta, EaseDelta, Log!MinEase, MinEase
<1>3. \A c, i, e, q : Log!NextInterval(c, i, e, q) = NextInterval(c, i, e, q)
  BY <1>1 DEF Log!NextInterval, NextInterval
<1>4. \A p, q : Log!Sm2(p, q) = Sm2(p, q)
  BY <1>2, <1>3 DEF Log!Sm2, Sm2
<1>5. Log!NewCard = NewCard
  BY DEF Log!NewCard, NewCard, Log!DefaultEase, DefaultEase
<1> QED  BY <1>4, <1>5

(* The grade StudyLog gives in the step that shows the review.             *)
LEMMA ShowsGraded ==
  ASSUME SerialStudents, StudyInv, [Next]_vars, UNCHANGED reviews,
         NEW r \in Request, pc[r] = "upsert", pc'[r] = "done", NEW v, Behind(r, v)
  PROVE  \E s \in Log!Sm2(Log!Current(v.user, v.card), v.quality) :
           /\ Log!Graded(v, s)
           /\ row[r] = [ease |-> s.ease, count |-> s.count, streak |-> s.streak,
                        interval |-> s.interval, last |-> row[r].last,
                        next |-> row[r].last + s.interval * Day]
<1>1. /\ v.user = call[r].user /\ v.card = call[r].card
      /\ v.quality = call[r].quality /\ v.ease = row[r].ease
      /\ v.interval = row[r].interval
  BY DEF Behind
<1>2. PICK s \in Sm2(IF progress[<<call[r].user, call[r].card>>] = None THEN NewCard
                     ELSE progress[<<call[r].user, call[r].card>>], call[r].quality) :
        row[r] = [ease |-> s.ease, count |-> s.count, streak |-> s.streak,
                  interval |-> s.interval, last |-> row[r].last,
                  next |-> row[r].last + s.interval * Day]
  BY DEF StudyInv, AInv, Undisturbed, Computed
<1>3. s \in Log!Sm2(Log!Current(v.user, v.card), v.quality)
  BY <1>1, <1>2, SameSm2 DEF Log!Current
<1>4. v.ease = s.ease /\ v.interval = s.interval
  BY <1>1, <1>2
<1>5. Log!Graded(v, s)
  BY <1>3, <1>4, Uncovered DEF Log!Graded
<1> QED  BY <1>2, <1>3, <1>5

LEMMA UpsertRefines ==
  ASSUME SerialStudents, StudyInv, [Next]_vars, NEW r \in Request, UpsertProgress(r)
  PROVE  Log!Next
<1>1. /\ pc[r] = "upsert" /\ pc'[r] = "done" /\ UNCHANGED <<reviews, failures>>
  BY DEF UpsertProgress, SetProgress, tables, Reply, ReplyRows, StudyInv, AInv, IInv,
         TypeOK, RequestsTypeOK
<1>2. PICK v : Behind(r, v)
  BY <1>1, BehindHidden
<1>3. v \in Shown'
  BY <1>1, <1>2, Uncovered
<1>4. PICK s \in Log!Sm2(Log!Current(v.user, v.card), v.quality) :
        /\ Log!Graded(v, s)
        /\ row[r] = [ease |-> s.ease, count |-> s.count, streak |-> s.streak,
                     interval |-> s.interval, last |-> row[r].last,
                     next |-> row[r].last + s.interval * Day]
  BY <1>1, <1>2, ShowsGraded
<1>5. s.interval = row[r].interval
  BY <1>4
<1>6. row[r].last \in 0..v.at
  <2>1. row[r].last \in Nat /\ v.at \in Nat
    BY <1>1, <1>2, RowTyped
    DEF ProgressRow, Behind, StudyInv, AInv, IInv, TypeOK, TablesTypeOK, ReviewRow
  <2> QED  BY <1>2, <2>1 DEF Behind
<1>7. CASE row[r].interval <= MaxInterval
  <2>1. row[r].interval \in Nat /\ MaxInterval \in Nat
    BY <1>1, RowTyped, ReviewsAssumption DEF ProgressRow, StudyInv, AInv
  <2>2. progress' = [progress EXCEPT ![<<v.user, v.card>>] = row[r]]
    BY <1>2, <1>7, <2>1 DEF UpsertProgress, SetProgress, Behind
  <2>3. Log!Study(v, s)
    BY <1>1, <1>4, <1>5, <1>6, <1>7, <2>2 DEF Log!Study
  <2> QED  BY <1>3, <1>4, <2>3 DEF Log!Next
<1>8. CASE ~(row[r].interval <= MaxInterval)
  <2>1. row[r].interval > MaxInterval /\ UNCHANGED progress
    <3>1. row[r].interval \in Nat /\ MaxInterval \in Nat
      BY <1>1, RowTyped, ReviewsAssumption DEF ProgressRow, StudyInv, AInv
    <3> QED  BY <1>8, <3>1 DEF UpsertProgress, tables
  <2>2. Log!Unscheduled(v, s)
    BY <1>1, <1>4, <1>5, <2>1 DEF Log!Unscheduled
  <2> QED  BY <1>3, <1>4, <2>2 DEF Log!Next
<1> QED  BY <1>7, <1>8

LEMMA InterruptionRefines ==
  ASSUME SerialStudents, StudyInv, [Next]_vars, NEW r \in Request, Interrupted(r)
  PROVE  Log!Next
<1>1. /\ UNCHANGED <<reviews, progress>> /\ failures' = failures + 1
      /\ pc'[r] = "done" /\ \A q \in Request : q # r => Stays(q)
  BY DEF Interrupted, tables, Reply, ReplyRows, StudyInv, AInv, IInv, TypeOK,
         RequestsTypeOK, Stays
<1>2. CASE pc[r] # "upsert"
  <2>1. Shown' = Shown
    BY <1>1, <1>2, SameShown
  <2> QED  BY <1>1, <2>1 DEF Log!Next, Log!Fail
<1>3. CASE pc[r] = "upsert"
  <2>1. PICK v : Behind(r, v)
    BY <1>3, BehindHidden
  <2>2. v \in Shown'
    BY <1>1, <1>3, <2>1, Uncovered
  <2>3. PICK s \in Log!Sm2(Log!Current(v.user, v.card), v.quality) : Log!Graded(v, s)
    BY <1>1, <1>3, <2>1, ShowsGraded
  <2>4. Log!Unscheduled(v, s)
    BY <1>1, <2>3 DEF Log!Unscheduled
  <2> QED  BY <2>2, <2>3, <2>4 DEF Log!Next
<1> QED  BY <1>2, <1>3

LEMMA StepRefines ==
  ASSUME SerialStudents, StudyInv, [Next]_vars
  PROVE  [Log!Next]_<<progress, Shown, failures>>
<1>1. CASE \E r \in Request : UpsertProgress(r)
  BY <1>1, UpsertRefines
<1>2. CASE \E r \in Request : Interrupted(r)
  BY <1>2, InterruptionRefines
<1>3. CASE /\ ~\E r \in Request : UpsertProgress(r)
           /\ ~\E r \in Request : Interrupted(r)
  <2>1. UNCHANGED <<progress, failures>>
    BY <1>3, ProgressChange, FailureChange DEF StudyInv, AInv
  <2>2. \A q \in Request : pc[q] = "upsert" => Stays(q)
    BY <1>3, UpsertEnds DEF StudyInv, AInv
  <2>3. Shown' = Shown
    BY <2>2, SameShown, InsertHidden, ReviewChange DEF StudyInv, AInv
  <2> QED  BY <2>1, <2>3
<1> QED  BY <1>1, <1>2, <1>3

(* A student who sends one review of a card at a time cannot tell           *)
(* submitReview from one atomic step: not by a failure between its two      *)
(* statements, nor by whatever others delete, share or study meanwhile.     *)
THEOREM StudyIsAtomic ==
  ASSUME SerialStudents
  PROVE  Spec => AtomicStudy
<1>1. Init => Log!Init
  BY DEF Init, TablesInit, RequestsInit, Log!Init, Shown
<1>2. StudyInv /\ [Next]_vars => [Log!Next]_<<progress, Shown, failures>>
  BY StepRefines
<1> QED  BY <1>1, <1>2, AlwaysStudyInv, PTL DEF Spec, AtomicStudy, Log!Spec
=============================================================================
