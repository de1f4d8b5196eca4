---------------------------- MODULE ScheduleProofs ----------------------------
(***************************************************************************)
(* The spaced-repetition schedule, for every number of requestors, cards   *)
(* and concurrent submissions: SInv is inductive, and so is BInv, which    *)
(* counts the reviews that a progress row rests on.                        *)
(***************************************************************************)
EXTENDS ApiProofs, FiniteSetTheorems

-----------------------------------------------------------------------------
(* sm2 leads from learned rows to learned rows. *)

LEMMA NewCardLearned == Shape(NewCard) /\ Learned(NewCard)
BY DEF NewCard, DefaultEase, MinEase, Shape, Learned

LEMMA RoundedAtLeast ==
  ASSUME NEW n \in Nat, NEW m \in Nat, n >= 100 * m, NEW k \in Rounded(n)
  PROVE  k >= m
<1>1. (n + 50) \div 100 >= m /\ (n + 50) \div 100 \in Int
  OBVIOUS
<1>2. CASE (n + 50) % 100 = 0
  <2>1. (n + 50) = 100 * ((n + 50) \div 100)
    BY <1>2
  <2>2. (n + 50) \div 100 >= m + 1
    BY <1>1, <2>1
  <2> QED  BY <1>1, <1>2, <2>2 DEF Rounded
<1>3. CASE (n + 50) % 100 # 0
  BY <1>1, <1>3 DEF Rounded
<1> QED  BY <1>2, <1>3

LEMMA Sm2Learned ==
  ASSUME NEW p, Shape(p), Learned(p), NEW q \in 0..5, NEW s \in Sm2(p, q)
  PROVE  Learned(s)
<1> DEFINE e == NextEase(p.ease, q)
<1>1. e \in Nat /\ e >= 130
  BY NextEaseNat DEF Shape, MinEase
<1>2. PICK i \in NextInterval(p.count, p.interval, e, q) :
        s = [ease |-> e, count |-> IF q < 3 THEN 0 ELSE p.count + 1,
             streak |-> IF q < 3 THEN 0
                        ELSE IF p.count = 0 THEN 1 ELSE p.streak + 1,
             interval |-> i]
  BY DEF Sm2
<1>3. CASE q >= 3 /\ p.count >= 2
  <2>1. p.interval \in Nat /\ p.interval >= 6
    BY <1>3 DEF Shape, Learned
  <2>2. p.interval * e \in Nat /\ p.interval * e >= 100 * 6
    <3> HIDE DEF e
    <3>1. p.interval * e >= 6 * e
      BY <1>1, <2>1
    <3> QED  BY <1>1, <2>1, <3>1
  <2>3. i \in Rounded(p.interval * e)
    BY <1>3 DEF NextInterval, Shape
  <2>4. i >= 6 /\ i \in Nat
    BY <2>2, <2>3, RoundedAtLeast, RoundedNat
  <2> HIDE DEF e
  <2> QED  BY <1>1, <1>2, <1>3, <2>4 DEF Learned, MinEase, Shape
<1>4. CASE ~(q >= 3 /\ p.count >= 2)
  <2>1. i = IF q < 3 \/ p.count = 0 THEN 1 ELSE 6
    BY <1>4 DEF NextInterval, Shape
  <2> HIDE DEF e
  <2> QED  BY <1>1, <1>2, <1>4, <2>1 DEF Learned, MinEase, Shape
<1> QED  BY <1>3, <1>4

-----------------------------------------------------------------------------
(* Time only passes, and what was scheduled by now is scheduled by then. *)

LEMMA ClockAdvances ==
  ASSUME IInv, [Next]_vars
  PROVE  clock' \in Nat /\ clock' >= clock
<1>1. clock \in Nat
  BY DEF IInv, TypeOK, TablesTypeOK
<1>2. ASSUME NEW r \in Request,
             Arrive(r) \/ Access(r) \/ Interrupted(r) \/ UserService(r)
      PROVE  clock' = clock
  BY <1>2
  DEF Arrive, Access, LoadCard, LoadDeck, LoadCollaborator, Interrupted,
      UserService, FindUser, UpdateUser, DeleteUser
<1>3. ASSUME NEW r \in Request, DeckService(r) \/ CardService(r)
      PROVE  clock' = clock
  BY <1>3
  DEF DeckService, ListDecks, GetDeck, CreateDeck, UpdateDeck, DeleteDeck,
      CardService, ListCards, GetCard, CreateCard, UpdateCard, DeleteCard
<1>4. ASSUME NEW r \in Request, ReviewService(r)
      PROVE  clock' = clock
  BY <1>4
  DEF ReviewService, GetCardProgress, Compute, CreateReview, UpsertProgress,
      ListDue
<1>5. CASE Collaboration \/ UNCHANGED vars
  <2>1. clock' = clock
    BY <1>5 DEF Collaboration, Share, Unshare, vars
  <2> QED  BY <1>1, <2>1
<1>6. CASE Tick
  BY <1>1, <1>6 DEF Tick
<1> QED  BY <1>1, <1>2, <1>3, <1>4, <1>5, <1>6 DEF Next

LEMMA StaysScheduled ==
  ASSUME IInv, [Next]_vars, NEW p \in ProgressRow, Scheduled(p)
  PROVE  Scheduled(p)'
<1>1. p.last \in Nat /\ clock \in Nat
  BY DEF IInv, TypeOK, TablesTypeOK, ProgressRow
<1> QED  BY <1>1, ClockAdvances DEF Scheduled

-----------------------------------------------------------------------------
(* The rows of requests: read from the table, or computed by sm2. *)

LEMMA ReplyRowsOK ==
  ASSUME SInv, [Next]_vars, NEW r \in Request, NEW s, NEW ids,
         ReplyRows(r, s, ids)
  PROVE  RowsOK'
<1>1. row' = [row EXCEPT ![r] = None] /\ row \in [Request -> ProgressRow \cup {None}]
  BY DEF ReplyRows, SInv, IInv, TypeOK, RequestsTypeOK
<1> QED  BY <1>1, StaysScheduled DEF SInv, RowsOK, Learned

LEMMA AwaitRowsOK ==
  ASSUME SInv, [Next]_vars, NEW r \in Request, NEW w, NEW d,
         NEW p \in ProgressRow \cup {None}, Await(r, w, d, p),
         p # None => Learned(p) /\ Scheduled(p)
  PROVE  RowsOK'
<1>1. row' = [row EXCEPT ![r] = p] /\ row \in [Request -> ProgressRow \cup {None}]
  BY DEF Await, SInv, IInv, TypeOK, RequestsTypeOK
<1> QED  BY <1>1, StaysScheduled DEF SInv, IInv, RowsOK, Learned

LEMMA SameRowsOK ==
  ASSUME SInv, [Next]_vars, UNCHANGED row
  PROVE  RowsOK'
<1>1. row \in [Request -> ProgressRow \cup {None}]
  BY DEF SInv, IInv, TypeOK, RequestsTypeOK
<1> QED  BY <1>1, StaysScheduled DEF SInv, IInv, RowsOK, Learned

LEMMA ReadRowsOK ==
  ASSUME SInv, [Next]_vars, NEW r \in Request, GetCardProgress(r)
  PROVE  RowsOK'
<1>1. CASE call[r].op = "submitReview" /\ Await(r, "compute", None, Progress(r))
  <2>1. call[r].user \in User /\ call[r].card \in Card
    BY <1>1 DEF GetCardProgress, SInv, IInv, LocalsOK, At, CallOK, OnCard
  <2>2. Progress(r) \in ProgressRow \cup {None}
    BY <2>1 DEF Progress, SInv, IInv, TypeOK, TablesTypeOK
  <2>3. Progress(r) # None => Learned(Progress(r)) /\ Scheduled(Progress(r))
    BY <2>1 DEF Progress, SInv, ScheduleWellFormed
  <2> QED  BY <1>1, <2>2, <2>3, AwaitRowsOK
<1>2. CASE \E s : Reply(r, s)
  BY <1>2, ReplyRowsOK DEF Reply
<1> QED  BY <1>1, <1>2 DEF GetCardProgress

LEMMA ComputeRowsOK ==
  ASSUME SInv, [Next]_vars, NEW r \in Request, Compute(r)
  PROVE  RowsOK'
<1> DEFINE next(s) ==
      [ease |-> s.ease, count |-> s.count, streak |-> s.streak,
       interval |-> s.interval, last |-> clock,
       next |-> clock + s.interval * Day]
<1>1. PICK s \in Sm2(Existing(r), call[r].quality) :
        Await(r, "review", None, next(s))
  BY DEF Compute
<1>2. row[r] \in ProgressRow \cup {None} /\ call[r].quality \in 0..5
      /\ clock \in Nat
  BY DEF SInv, IInv, TypeOK, RequestsTypeOK, TablesTypeOK, Call
<1>3. Shape(Existing(r)) /\ Learned(Existing(r))
  <2>1. CASE row[r] = None
    BY <2>1, NewCardLearned DEF Existing
  <2>2. CASE row[r] # None
    BY <1>2, <2>2 DEF Existing, Shape, ProgressRow, SInv, RowsOK
  <2> QED  BY <2>1, <2>2
<1>4. Shape(s) /\ Learned(s)
  BY <1>1, <1>2, <1>3, Sm2Nat, Sm2Learned
<1>5. next(s) \in ProgressRow /\ Learned(next(s)) /\ Scheduled(next(s))
  <2>1. s.interval * Day \in Nat
    BY <1>4, ReviewsAssumption DEF Shape
  <2> QED  BY <1>2, <1>4, <2>1 DEF Shape, Learned, Scheduled, ProgressRow
<1> HIDE DEF next
<1> QED  BY <1>1, <1>5, AwaitRowsOK

LEMMA CreateRowsOK ==
  ASSUME SInv, [Next]_vars, NEW r \in Request, CreateReview(r)
  PROVE  RowsOK'
<1>1. row[r] \in ProgressRow \cup {None}
      /\ (row[r] # None => Learned(row[r]) /\ Scheduled(row[r]))
  BY DEF SInv, IInv, TypeOK, RequestsTypeOK, RowsOK
<1> QED  BY <1>1, ReplyRowsOK, AwaitRowsOK DEF CreateReview, Reply

LEMMA NextRowsOK ==
  ASSUME SInv, [Next]_vars
  PROVE  RowsOK'
<1>1. ASSUME NEW r \in Request, NEW s, NEW ids, ReplyRows(r, s, ids)
      PROVE  RowsOK'
  BY <1>1, ReplyRowsOK
<1>2. ASSUME NEW r \in Request, NEW w, NEW d, Await(r, w, d, None)
      PROVE  RowsOK'
  BY <1>2, AwaitRowsOK
<1>3. ASSUME NEW r \in Request, Arrive(r)
      PROVE  RowsOK'
  <2>1. row' = [row EXCEPT ![r] = None]
        /\ row \in [Request -> ProgressRow \cup {None}]
    BY <1>3 DEF Arrive, SInv, IInv, TypeOK, RequestsTypeOK
  <2> QED  BY <2>1, StaysScheduled DEF SInv, RowsOK, Learned
<1>4. ASSUME NEW r \in Request, Access(r) \/ Interrupted(r) \/ UserService(r)
      PROVE  RowsOK'
  BY <1>1, <1>2, <1>4
  DEF Access, LoadCard, LoadDeck, LoadCollaborator, Interrupted, Reply,
      UserService, FindUser, UpdateUser, DeleteUser
<1>5. ASSUME NEW r \in Request, DeckService(r) \/ CardService(r)
      PROVE  RowsOK'
  BY <1>1, <1>5
  DEF DeckService, ListDecks, GetDeck, CreateDeck, UpdateDeck, DeleteDeck,
      CardService, ListCards, GetCard, CreateCard, UpdateCard, DeleteCard, Reply
<1>6. ASSUME NEW r \in Request, ReviewService(r)
      PROVE  RowsOK'
  BY <1>1, <1>6, ReadRowsOK, ComputeRowsOK, CreateRowsOK
  DEF ReviewService, UpsertProgress, ListDue, Reply
<1>7. CASE Collaboration \/ Tick \/ UNCHANGED vars
  BY <1>7, SameRowsOK DEF Collaboration, Share, Unshare, Tick, vars, locals
<1> QED  BY <1>3, <1>4, <1>5, <1>6, <1>7 DEF Next

-----------------------------------------------------------------------------
(* The progress table: only UpsertProgress writes it, from the request's row. *)

LEMMA ProgressChange ==
  ASSUME IInv, [Next]_vars,
         ~\E r \in Request : UpsertProgress(r)
  PROVE  UNCHANGED progress
<1>1. ASSUME NEW r \in Request, Arrive(r) \/ Access(r) \/ Interrupted(r)
      PROVE  UNCHANGED progress
  BY <1>1
  DEF Arrive, Access, LoadCard, LoadDeck, LoadCollaborator, Interrupted, tables
<1>2. ASSUME NEW r \in Request, DeckService(r)
      PROVE  UNCHANGED progress
  BY <1>2
  DEF DeckService, ListDecks, GetDeck, CreateDeck, UpdateDeck, DeleteDeck,
      InsertDeck, DropDeck, SetPublic, tables
<1>3. ASSUME NEW r \in Request, CardService(r) \/ UserService(r)
      PROVE  UNCHANGED progress
  BY <1>3
  DEF CardService, ListCards, GetCard, CreateCard, UpdateCard, DeleteCard,
      UserService, FindUser, UpdateUser, DeleteUser, SetCardDeck, DropUser,
      tables
<1>4. ASSUME NEW r \in Request, ReviewService(r)
      PROVE  UNCHANGED progress
  BY <1>4
  DEF ReviewService, GetCardProgress, Compute, CreateReview, ListDue,
      InsertReview, tables
<1>5. CASE Collaboration \/ Tick \/ UNCHANGED vars
  BY <1>5 DEF Collaboration, Share, Unshare, SetRole, Tick, vars, tables
<1> QED  BY <1>1, <1>2, <1>3, <1>4, <1>5 DEF Next

LEMMA NextSchedule ==
  ASSUME SInv, [Next]_vars
  PROVE  ScheduleWellFormed'
<1> SUFFICES ASSUME NEW u \in User, NEW c \in Card,
                    NEW p, p = progress'[<<u, c>>], p # None
             PROVE  Learned(p) /\ Scheduled(p)' /\ p.interval <= MaxInterval
  BY DEF ScheduleWellFormed, Learned, Scheduled
<1>1. CASE p = progress[<<u, c>>]
  <2>1. p \in ProgressRow
    BY <1>1 DEF SInv, IInv, TypeOK, TablesTypeOK
  <2>2. Learned(p) /\ Scheduled(p) /\ p.interval <= MaxInterval
    BY <1>1 DEF SInv, ScheduleWellFormed
  <2> QED  BY <2>1, <2>2, StaysScheduled DEF SInv
<1>2. CASE p # progress[<<u, c>>]
  <2>1. PICK r \in Request : UpsertProgress(r)
    BY <1>2, ProgressChange DEF SInv
  <2>2. /\ p = row[r] /\ row[r].interval <= MaxInterval
        /\ clock' = clock /\ p \in ProgressRow \cup {None}
    BY <1>2, <2>1
    DEF UpsertProgress, SetProgress, tables, SInv, IInv, TypeOK, TablesTypeOK,
        RequestsTypeOK
  <2>3. Learned(p) /\ Scheduled(p)
    BY <2>2 DEF SInv, RowsOK
  <2> QED  BY <2>2, <2>3, StaysScheduled DEF SInv
<1> QED  BY <1>1, <1>2

LEMMA AlwaysSInv == Spec => []SInv
<1>1. Init => SInv
  BY InitIInv
  DEF SInv, Init, TablesInit, RequestsInit, RowsOK, ScheduleWellFormed
<1>2. SInv /\ [Next]_vars => SInv'
  BY NextIInv, NextRowsOK, NextSchedule DEF SInv
<1> QED  BY <1>1, <1>2, PTL DEF Spec

(* Concurrent and half-done submissions only ever leave progress rows that  *)
(* SM-2 can produce, due their interval after the review they come from.    *)
THEOREM ScheduleHolds == Spec => []ScheduleWellFormed
<1>1. SInv => ScheduleWellFormed
  BY DEF SInv
<1> QED  BY <1>1, AlwaysSInv, PTL

-----------------------------------------------------------------------------
(* A request comes to an await of submitReview after loadDeck by these      *)
(* steps of its own; whatever others do, its locals stay.                   *)

Submitting == {"compute", "review", "upsert"}

Stays(q) == pc'[q] = pc[q] /\ call'[q] = call[q] /\ row'[q] = row[q]

Reads(q) ==
  /\ pc[q] = "loaded" /\ pc'[q] = "compute" /\ call'[q] = call[q]
  /\ call[q].op = "submitReview"
  /\ row'[q] = Progress(q) /\ UNCHANGED <<tables, clock>>

Computes(q) ==
  /\ pc[q] = "compute" /\ pc'[q] = "review" /\ call'[q] = call[q]
  /\ \E s \in Sm2(Existing(q), call[q].quality) :
       row'[q] = [ease |-> s.ease, count |-> s.count, streak |-> s.streak,
                  interval |-> s.interval, last |-> clock,
                  next |-> clock + s.interval * Day]
  /\ UNCHANGED <<tables, clock>>

NewReview(q) ==
  [user |-> call[q].user, card |-> call[q].card, at |-> clock,
   quality |-> call[q].quality, ease |-> row[q].ease, interval |-> row[q].interval]

Inserts(q) ==
  /\ pc[q] = "review" /\ pc'[q] = "upsert" /\ call'[q] = call[q]
  /\ row'[q] = row[q]
  /\ ~\E v \in reviews :
       v.user = call[q].user /\ v.card = call[q].card /\ v.at = clock
  /\ reviews' = reviews \cup {NewReview(q)} /\ UNCHANGED <<progress, clock>>

LEMMA ReplyStays ==
  ASSUME IInv, NEW q \in Request, pc'[q] \in Submitting,
         NEW r \in Request, NEW s, NEW ids, ReplyRows(r, s, ids)
  PROVE  q # r /\ Stays(q)
BY DEF ReplyRows, Submitting, Stays, IInv, TypeOK, RequestsTypeOK

LEMMA AwaitStays ==
  ASSUME IInv, NEW q \in Request,
         NEW r \in Request, NEW w, NEW d, NEW p, Await(r, w, d, p)
  PROVE  /\ q # r => Stays(q)
         /\ q = r => pc'[q] = w /\ call'[q] = call[q] /\ row'[q] = p
BY DEF Await, Stays, IInv, TypeOK, RequestsTypeOK

LEMMA Submission ==
  ASSUME IInv, [Next]_vars, NEW q \in Request, pc'[q] \in Submitting
  PROVE  Stays(q) \/ Reads(q) \/ Computes(q) \/ Inserts(q)
<1>1. ASSUME NEW r \in Request, NEW s, NEW ids, ReplyRows(r, s, ids)
      PROVE  Stays(q)
  BY <1>1, ReplyStays
<1>2. ASSUME NEW r \in Request, NEW w, NEW d, NEW p, Await(r, w, d, p),
             w \notin Submitting
      PROVE  Stays(q)
  BY <1>2, AwaitStays
<1>3. ASSUME NEW r \in Request, Arrive(r)
      PROVE  Stays(q)
  BY <1>3
  DEF Arrive, FirstAwait, Submitting, Stays, IInv, TypeOK, RequestsTypeOK
<1>4. ASSUME NEW r \in Request, Access(r) \/ Interrupted(r) \/ UserService(r)
      PROVE  Stays(q)
  BY <1>1, <1>2, <1>4
  DEF Access, LoadCard, LoadDeck, LoadCollaborator, Interrupted, Reply,
      UserService, FindUser, UpdateUser, DeleteUser, Submitting
<1>5. ASSUME NEW r \in Request, DeckService(r) \/ CardService(r)
      PROVE  Stays(q)
  BY <1>1, <1>5
  DEF DeckService, ListDecks, GetDeck, CreateDeck, UpdateDeck, DeleteDeck,
      CardService, ListCards, GetCard, CreateCard, UpdateCard, DeleteCard, Reply
<1>6. ASSUME NEW r \in Request, GetCardProgress(r)
      PROVE  Stays(q) \/ Reads(q)
  BY <1>1, <1>6, AwaitStays DEF GetCardProgress, Reply, Reads
<1>7. ASSUME NEW r \in Request, Compute(r)
      PROVE  Stays(q) \/ Computes(q)
  BY <1>7, AwaitStays DEF Compute, Computes
<1>8. ASSUME NEW r \in Request, CreateReview(r)
      PROVE  Stays(q) \/ Inserts(q)
  BY <1>1, <1>8, AwaitStays
  DEF CreateReview, Reply, Inserts, InsertReview, NewReview
<1>9. ASSUME NEW r \in Request, UpsertProgress(r) \/ ListDue(r)
      PROVE  Stays(q)
  BY <1>1, <1>9 DEF UpsertProgress, ListDue, Reply
<1>10. CASE Collaboration \/ Tick \/ UNCHANGED vars
  BY <1>10 DEF Collaboration, Share, Unshare, Tick, vars, locals, Stays
<1> QED  BY <1>3, <1>4, <1>5, <1>6, <1>7, <1>8, <1>9, <1>10
         DEF Next, ReviewService

(* Reviews are only added, one at a time and by createReview.              *)
LEMMA ReviewChange ==
  ASSUME IInv, [Next]_vars
  PROVE  UNCHANGED reviews \/ \E r \in Request : Inserts(r)
<1>1. ASSUME NEW r \in Request, Arrive(r) \/ Access(r) \/ Interrupted(r)
      PROVE  UNCHANGED reviews
  BY <1>1
  DEF Arrive, Access, LoadCard, LoadDeck, LoadCollaborator, Interrupted, tables
<1>2. ASSUME NEW r \in Request, DeckService(r)
      PROVE  UNCHANGED reviews
  BY <1>2
  DEF DeckService, ListDecks, GetDeck, CreateDeck, UpdateDeck, DeleteDeck,
      InsertDeck, DropDeck, SetPublic, tables
<1>3. ASSUME NEW r \in Request, CardService(r) \/ UserService(r)
      PROVE  UNCHANGED reviews
  BY <1>3
  DEF CardService, ListCards, GetCard, CreateCard, UpdateCard, DeleteCard,
      UserService, FindUser, UpdateUser, DeleteUser, SetCardDeck, DropUser,
      tables
<1>4. ASSUME NEW r \in Request, CreateReview(r)
      PROVE  UNCHANGED reviews \/ Inserts(r)
  BY <1>4, AwaitStays DEF CreateReview, Inserts, InsertReview, NewReview, tables
<1>5. ASSUME NEW r \in Request,
             GetCardProgress(r) \/ Compute(r) \/ UpsertProgress(r) \/ ListDue(r)
      PROVE  UNCHANGED reviews
  BY <1>5 DEF GetCardProgress, Compute, UpsertProgress, ListDue, SetProgress, tables
<1>6. CASE Collaboration \/ Tick \/ UNCHANGED vars
  BY <1>6 DEF Collaboration, Share, Unshare, SetRole, Tick, vars, tables
<1> QED  BY <1>1, <1>2, <1>3, <1>4, <1>5, <1>6 DEF Next, ReviewService

-----------------------------------------------------------------------------
(* Reviews are counted: no step takes one away from a user and card, and    *)
(* inserting a success adds one.                                            *)

LEMMA SuccessesFinite ==
  ASSUME IsFiniteSet(reviews), NEW u, NEW c
  PROVE  IsFiniteSet(Successes(u, c)) /\ Recorded(u, c) \in Nat
<1>1. Successes(u, c) \in SUBSET reviews
  BY DEF Successes
<1> QED  BY <1>1, FS_Subset, FS_CardinalityType DEF Recorded

LEMMA StaysFinite ==
  ASSUME IInv, [Next]_vars, IsFiniteSet(reviews)
  PROVE  IsFiniteSet(reviews')
BY ReviewChange, FS_AddElement DEF Inserts

LEMMA RecordedGrows ==
  ASSUME IInv, [Next]_vars, IsFiniteSet(reviews), NEW u, NEW c
  PROVE  Recorded(u, c) \in Nat /\ Recorded(u, c)' \in Nat /\ Recorded(u, c)' >= Recorded(u, c)
<1>1. IsFiniteSet(reviews') /\ reviews \subseteq reviews'
  BY StaysFinite, NoReviewLost
<1> DEFINE after == {v \in reviews' : v.user = u /\ v.card = c /\ v.quality >= 3}
<1>2. Successes(u, c) \in SUBSET after /\ after \in SUBSET reviews'
  BY <1>1 DEF Successes
<1>3. IsFiniteSet(after) /\ Cardinality(after) \in Nat
  BY <1>1, <1>2, FS_Subset, FS_CardinalityType
<1>4. Cardinality(Successes(u, c)) <= Cardinality(after)
  BY <1>2, <1>3, FS_Subset
<1>5. Recorded(u, c)' = Cardinality(after)
  BY DEF Recorded, Successes
<1> QED  BY <1>3, <1>4, <1>5, SuccessesFinite DEF Recorded

LEMMA SuccessRecorded ==
  ASSUME IInv, IsFiniteSet(reviews), NEW q \in Request, Inserts(q),
         call[q].quality >= 3
  PROVE  Recorded(call[q].user, call[q].card)' = Recorded(call[q].user, call[q].card) + 1
<1> DEFINE u == call[q].user  c == call[q].card
<1>1. /\ NewReview(q).user = u /\ NewReview(q).card = c
      /\ NewReview(q).at = clock /\ NewReview(q).quality >= 3
  BY DEF NewReview
<1>2. NewReview(q) \notin Successes(u, c)
  BY <1>1 DEF Successes, Inserts
<1>3. Successes(u, c)' = Successes(u, c) \cup {NewReview(q)}
  BY <1>1 DEF Successes, Inserts
<1>4. IsFiniteSet(Successes(u, c))
  BY SuccessesFinite
<1>5. Cardinality(Successes(u, c) \cup {NewReview(q)}) = Cardinality(Successes(u, c)) + 1
  BY <1>2, <1>4, FS_AddElement
<1> QED  BY <1>3, <1>5 DEF Recorded

LEMMA NextCount ==
  ASSUME NEW p, NEW n \in Nat, p.count <= n, p.count \in Nat,
         NEW k \in 0..5, NEW s \in Sm2(p, k)
  PROVE  s.count <= IF k >= 3 THEN n + 1 ELSE 0
<1>1. s.count = IF k < 3 THEN 0 ELSE p.count + 1
  BY DEF Sm2
<1> QED  BY <1>1

\* What the invariant says of the progress of user u and card c.
Backed(u, c) ==
  progress[<<u, c>>] # None =>
    /\ progress[<<u, c>>].count <= Recorded(u, c)
    /\ \E v \in reviews : /\ v.user = u /\ v.card = c
                          /\ v.ease = progress[<<u, c>>].ease
                          /\ v.interval = progress[<<u, c>>].interval
                          /\ progress[<<u, c>>].last <= v.at

LEMMA BackedMeans == ProgressBacked <=> \A u \in User, c \in Card : Backed(u, c)
BY DEF ProgressBacked, Backed, Recorded

LEMMA RowTyped ==
  ASSUME IInv, NEW r \in Request
  PROVE  /\ row[r] # None => row[r] \in ProgressRow
         /\ pc[r] \in {"review", "upsert"} => row[r] \in ProgressRow
         /\ pc[r] \in Submitting \/ (pc[r] = "loaded" /\ call[r].op = "submitReview") =>
              call[r].user \in User /\ call[r].card \in Card /\ call[r].quality \in 0..5
<1>1. row[r] \in ProgressRow \cup {None} /\ call[r] \in Call
  BY DEF IInv, TypeOK, RequestsTypeOK
<1>2. At(pc[r], call[r], target[r], row[r])
  BY DEF IInv, LocalsOK
<1> QED  BY <1>1, <1>2 DEF At, CallOK, Submitting, OnCard, Call

LEMMA NextCovered ==
  ASSUME BInv, [Next]_vars, NEW q \in Request
  PROVE  Covered(q)'
<1> SUFFICES ASSUME pc'[q] \in Submitting
             PROVE  Covered(q)'
  BY DEF Covered, Submitting
<1> USE DEF BInv, SInv
<1>0. PICK u, c : u = call[q].user /\ c = call[q].card
  OBVIOUS
<1>1. /\ reviews \subseteq reviews'
      /\ Recorded(u, c) \in Nat /\ Recorded(u, c)' \in Nat
      /\ Recorded(u, c)' >= Recorded(u, c)
  BY NoReviewLost, RecordedGrows
<1>2. CASE Stays(q)
  <2>1. call'[q] = call[q] /\ row'[q] = row[q] /\ pc'[q] = pc[q]
    BY <1>2 DEF Stays
  <2>2. row[q] # None => row[q].count \in Nat
    BY RowTyped DEF ProgressRow
  <2>3. pc[q] \in {"review", "upsert"} => row[q].count \in Nat
    BY RowTyped DEF ProgressRow
  <2>4. Covered(q)
    OBVIOUS
  <2> QED  BY <1>0, <1>1, <2>1, <2>2, <2>3, <2>4 DEF Covered, Recorded, Successes
<1>3. CASE Reads(q)
  <2>1. u \in User /\ c \in Card
    BY <1>0, <1>3, RowTyped DEF Reads
  <2>2. Backed(u, c)
    BY <2>1, BackedMeans
  <2>3. Recorded(u, c)' = Recorded(u, c)
    BY <1>3 DEF Reads, tables, Recorded, Successes
  <2> QED  BY <1>0, <1>3, <2>2, <2>3 DEF Covered, Backed, Reads, Progress, Recorded, Successes
<1>4. CASE Computes(q)
  <2>1. PICK s \in Sm2(Existing(q), call[q].quality) :
          row'[q] = [ease |-> s.ease, count |-> s.count, streak |-> s.streak,
                     interval |-> s.interval, last |-> clock,
                     next |-> clock + s.interval * Day]
    BY <1>4 DEF Computes
  <2>2. Existing(q).count \in Nat /\ Existing(q).count <= Recorded(u, c)
    BY <1>0, <1>1, <1>4, RowTyped DEF Computes, Existing, NewCard, Covered, ProgressRow
  <2>3. s.count <= IF call[q].quality >= 3 THEN Recorded(u, c) + 1 ELSE 0
    BY <1>1, <1>4, <2>2, NextCount, RowTyped DEF Computes, Submitting
  <2>4. row'[q].count = s.count
    BY <2>1
  <2>5. Recorded(u, c)' = Recorded(u, c)
    BY <1>4 DEF Computes, tables, Recorded, Successes
  <2> QED  BY <1>0, <1>4, <2>3, <2>4, <2>5 DEF Covered, Computes, Recorded, Successes
<1>5. CASE Inserts(q)
  <2>1. row[q].count \in Nat /\ row[q].last <= clock
    BY <1>5, RowTyped, NoneAssumption DEF Inserts, ProgressRow, RowsOK, Scheduled
  <2>2. row[q].count <= Recorded(u, c)'
    BY <1>0, <1>1, <1>5, <2>1, SuccessRecorded DEF Inserts, Covered, Recorded, Successes
  <2>3. NewReview(q) \in reviews'
    BY <1>5 DEF Inserts
  <2>4. /\ NewReview(q).user = u /\ NewReview(q).card = c
        /\ NewReview(q).ease = row[q].ease /\ NewReview(q).interval = row[q].interval
        /\ row[q].last <= NewReview(q).at
    BY <1>0, <2>1 DEF NewReview
  <2> QED  BY <1>0, <1>5, <2>2, <2>3, <2>4 DEF Covered, Inserts, Recorded, Successes
<1> QED  BY <1>2, <1>3, <1>4, <1>5, Submission

LEMMA NextBacked ==
  ASSUME BInv, [Next]_vars
  PROVE  ProgressBacked'
<1> USE DEF BInv, SInv
<1> SUFFICES ASSUME NEW u \in User, NEW c \in Card
             PROVE  Backed(u, c)'
  BY DEF ProgressBacked, Backed, Recorded
<1>1. /\ reviews \subseteq reviews'
      /\ Recorded(u, c) \in Nat /\ Recorded(u, c)' \in Nat
      /\ Recorded(u, c)' >= Recorded(u, c)
  BY NoReviewLost, RecordedGrows
<1>2. CASE progress'[<<u, c>>] = progress[<<u, c>>]
  <2>1. Backed(u, c)
    BY BackedMeans
  <2>2. progress[<<u, c>>] # None => progress[<<u, c>>].count \in Nat
    BY DEF IInv, TypeOK, TablesTypeOK, ProgressRow
  <2> QED  BY <1>1, <1>2, <2>1, <2>2 DEF Backed, Recorded, Successes
<1>3. CASE progress'[<<u, c>>] # progress[<<u, c>>]
  <2>1. PICK r \in Request : UpsertProgress(r)
    BY <1>3, ProgressChange
  <2>2. /\ pc[r] = "upsert" /\ call[r].user = u /\ call[r].card = c
        /\ progress'[<<u, c>>] = row[r] /\ UNCHANGED reviews
    BY <1>3, <2>1
    DEF UpsertProgress, SetProgress, tables, IInv, TypeOK, TablesTypeOK
  <2>3. Covered(r)
    OBVIOUS
  <2> QED  BY <2>2, <2>3 DEF Covered, Backed, Recorded, Successes
<1> QED  BY <1>2, <1>3

(* Two tables, two statements, no transaction: however submissions of one   *)
(* card interleave, are refused as duplicates or die half way, a progress   *)
(* row never claims more successes than reviews were recorded, and one of   *)
(* these carries its ease and interval.                                     *)
THEOREM ProgressIsBacked == Spec => []ProgressBacked
<1>1. Init => BInv
  <2> SUFFICES ASSUME Init PROVE BInv
    OBVIOUS
  <2>1. SInv
    BY InitIInv DEF SInv, Init, TablesInit, RequestsInit, RowsOK, ScheduleWellFormed
  <2>2. ProgressBacked /\ \A r \in Request : Covered(r)
    BY DEF Init, TablesInit, RequestsInit, ProgressBacked, Covered
  <2> QED  BY <2>1, <2>2, FS_EmptySet DEF BInv, Init, TablesInit
<1>2. BInv /\ [Next]_vars => BInv'
  <2> SUFFICES ASSUME BInv, [Next]_vars PROVE BInv'
    OBVIOUS
  <2>1. SInv'
    BY NextIInv, NextRowsOK, NextSchedule DEF BInv, SInv
  <2>2. IsFiniteSet(reviews')
    BY StaysFinite DEF BInv, SInv
  <2> QED  BY <2>1, <2>2, NextBacked, NextCovered DEF BInv
<1>3. BInv => ProgressBacked
  BY DEF BInv
<1> QED  BY <1>1, <1>2, <1>3, PTL DEF Spec
=============================================================================
