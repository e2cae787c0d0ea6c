---------------------------- MODULE BatchProofs ----------------------------
(***************************************************************************)
(* Proofs about Batch, for any number of objects, any batch sizes, any     *)
(* page size and any mix of buckets. The heart of the invariant is where   *)
(* the objects are: those sent, those collected, the one that was carried  *)
(* over and the one in hand are, in that order, what the iterator has      *)
(* yielded; and what the iterator has yielded is all there is when it ends *)
(* without an error.                                                       *)
(***************************************************************************)
EXTENDS Batch, TLAPS

AtEnd == pc = "end" \/ ended
Collected == IF pc = "after" THEN {} ELSE ToSet(batch)
InHand == IF pc = "object" THEN {object} ELSE {}

\* Where the operation is, and what it has there.
ControlInv ==
    /\ op = "transfer" => batch = <<>> /\ carried = <<>> /\ pc # "delete"
    /\ iter = "list" => op = "delete"
    /\ pc = "list" => iter = "list"
    /\ pc = "delete" => batch # <<>>
    /\ pc # "after" => pending = <<>>
    /\ pc = "object" => object \in Keys(0, Len(given))
    /\ ended => pc \in {"delete", "after", "returned"} /\ carried = <<>>
    /\ pc = "returned" => ended /\ batch = <<>>
    /\ pc \notin {"delete", "after"} => carried = <<>>
    /\ carried # <<>> => carried = <<object>>
    /\ iterErr => AtEnd

\* The page that is current, of a listing.
PageEnd == IF ~started THEN 0 ELSE IF nextToken = 0 THEN Len(given) ELSE nextToken

\* What the iterator has yielded, and what it has left.
IteratorInv ==
    /\ iter # "list" => prefixes = {}
    /\ iter # "list" /\ ~AtEnd =>
          /\ object = IF inc THEN index + 1 ELSE 0
          /\ ~inc => index = 0
    /\ ~started => nextToken = 0
    /\ object \notin prefixes
    /\ iter = "list" /\ ~AtEnd /\ object = 0 => ~started
    /\ iter = "list" /\ pc # "list" /\ ~AtEnd => contents = {o \in Keys(0, PageEnd) : o >= object}
    /\ iter = "list" /\ pc = "list" =>
          /\ HasNextPage /\ object <= PageEnd
          /\ contents = {} /\ Keys(0, object) = Keys(0, PageEnd)
    /\ object <= PageEnd \/ iter # "list"
    /\ AtEnd /\ ~iterErr =>
          IF iter = "list" THEN started /\ Keys(0, object) = Keys(0, PageEnd) ELSE object = Len(given)

\* Each object that was yielded is in one place, and the places are in order.
OrderInv ==
    /\ Sent \cup Collected \cup ToSet(carried) \cup InHand = Keys(0, object)
    /\ \A i \in DOMAIN sent :
          /\ InOrder(sent[i])
          /\ \A j \in DOMAIN sent : i < j => Before(ToSet(sent[i]), ToSet(sent[j]))
    /\ InOrder(batch)
    /\ Before(Sent, Collected \cup ToSet(carried) \cup InHand)
    /\ Before(Collected, ToSet(carried) \cup InHand)

\* The After functions of a request run before the next one is sent.
AfterInv ==
    /\ InOrder(ran) /\ InOrder(pending)
    /\ ToSet(ran) \cup ToSet(pending) = Sent
    /\ Before(ToSet(ran), ToSet(pending))

\* Each failure was counted once, and each object that is not done has one.
ErrorInv ==
    /\ done \subseteq Sent
    /\ Sent \subseteq done \cup Reported("request")
    /\ Reported("request") \subseteq Sent
    /\ Reported("after") = afterFailed
    /\ afterFailed \subseteq ToSet(ran)
    /\ Reported("iterator") = IF ended /\ iterErr /\ op = "delete" THEN {0} ELSE {}
    /\ \A e \in Errors : errs[e] <= 1

\* A batch has objects alike, is below its size until it is sent, and is sent
\* because it is full, because the next object differs, or at the end.
BatchInv ==
    /\ \A x \in ToSet(batch) : given[x] = given[Head(batch)]
    /\ batchSize > 0 =>
          /\ Len(batch) <= batchSize
          /\ pc \notin {"delete", "after"} => Len(batch) < batchSize
          /\ carried # <<>> => batchSize > 1
    /\ op = "delete" /\ pc \in {"delete", "after"} /\ Len(batch) # batchSize =>
          ended \/ (carried # <<>> /\ given[object] # given[Head(batch)])
    /\ pc = "after" => sent # <<>> /\ (op = "delete" => sent[Len(sent)] = batch)
    /\ op = "delete" /\ sent # <<>> /\ Len(sent[Len(sent)]) # batchSize =>
          \/ pc \in {"after", "returned"}
          \/ batch # <<>> /\ given[Head(batch)] # given[Head(sent[Len(sent)])]
    /\ BatchesFit

IInv ==
    TypeOK /\ ControlInv /\ IteratorInv /\ OrderInv /\ AfterInv /\ ErrorInv /\ BatchInv

-----------------------------------------------------------------------------
(* Sequences of objects, and errors. *)

\* An object that is appended comes last.
LEMMA AppendFacts ==
    ASSUME NEW S, NEW s \in Seq(S), NEW x \in S
    PROVE  /\ Append(s, x) \in Seq(S) /\ Append(s, x) # <<>>
           /\ Len(Append(s, x)) = Len(s) + 1
           /\ ToSet(Append(s, x)) = ToSet(s) \cup {x}
           /\ Head(Append(s, x)) = IF s = <<>> THEN x ELSE Head(s)
           /\ \A i \in 1 .. Len(s) : Append(s, x)[i] = s[i]
           /\ Append(s, x)[Len(s) + 1] = x
<1> DEFINE t == Append(s, x)
<1>1. /\ t \in Seq(S) /\ t # <<>> /\ Len(t) = Len(s) + 1 /\ t[Len(s) + 1] = x
      /\ \A i \in 1 .. Len(s) : t[i] = s[i]
  OBVIOUS
<1>2. DOMAIN t = 1 .. Len(s) + 1 /\ DOMAIN s = 1 .. Len(s) /\ Len(s) \in Nat
  BY <1>1
<1>3. ToSet(t) = ToSet(s) \cup {x}
  <2>1. ASSUME NEW y \in ToSet(t) PROVE y \in ToSet(s) \cup {x}
    <3>1. PICK i \in 1 .. Len(s) + 1 : y = t[i]
      BY <1>2, <2>1 DEF ToSet
    <3>2. CASE i = Len(s) + 1
      BY <1>1, <3>1, <3>2
    <3>3. CASE i \in 1 .. Len(s)
      BY <1>1, <1>2, <3>1, <3>3 DEF ToSet
    <3> QED
      BY <1>2, <3>1, <3>2, <3>3
  <2>2. ASSUME NEW y \in ToSet(s) \cup {x} PROVE y \in ToSet(t)
    BY <1>1, <1>2, <2>2 DEF ToSet
  <2> QED
    BY <2>1, <2>2
<1>4. Head(t) = IF s = <<>> THEN x ELSE Head(s)
  OBVIOUS
<1> QED
  BY <1>1, <1>3, <1>4

\* The objects of a sequence are its first one and those of the rest.
LEMMA TailFacts ==
    ASSUME NEW S, NEW s \in Seq(S), s # <<>>
    PROVE  /\ Head(s) \in S /\ Tail(s) \in Seq(S) /\ Head(s) = s[1]
           /\ Len(Tail(s)) = Len(s) - 1
           /\ \A i \in 1 .. Len(Tail(s)) : Tail(s)[i] = s[i + 1]
           /\ ToSet(s) = {Head(s)} \cup ToSet(Tail(s))
<1> DEFINE t == Tail(s)
<1>1. /\ Head(s) \in S /\ t \in Seq(S) /\ Head(s) = s[1] /\ Len(t) = Len(s) - 1
      /\ \A i \in 1 .. Len(t) : t[i] = s[i + 1]
  OBVIOUS
<1>2. DOMAIN t = 1 .. Len(s) - 1 /\ DOMAIN s = 1 .. Len(s) /\ Len(s) \in Nat /\ Len(s) >= 1
  BY <1>1
<1> HIDE DEF t
<1>3. ToSet(s) = {s[1]} \cup ToSet(t)
  <2>1. ASSUME NEW y \in ToSet(s) PROVE y \in {s[1]} \cup ToSet(t)
    <3>1. PICK i \in 1 .. Len(s) : y = s[i]
      BY <1>2, <2>1 DEF ToSet
    <3>2. CASE i # 1
      <4>1. i - 1 \in 1 .. Len(t) /\ t[i - 1] = s[i]
        BY <1>1, <1>2, <3>1, <3>2
      <4> QED
        BY <1>1, <1>2, <3>1, <4>1 DEF ToSet
    <3> QED
      BY <3>1, <3>2
  <2>2. ASSUME NEW y \in ToSet(t) PROVE y \in ToSet(s)
    <3>1. PICK i \in 1 .. Len(t) : y = t[i]
      BY <1>1, <1>2, <2>2 DEF ToSet
    <3>2. i + 1 \in 1 .. Len(s) /\ y = s[i + 1]
      BY <1>1, <1>2, <3>1
    <3> QED
      BY <1>2, <3>2 DEF ToSet
  <2>3. s[1] \in ToSet(s)
    BY <1>2 DEF ToSet
  <2> QED
    BY <2>1, <2>2, <2>3
<1> QED
  BY <1>1, <1>3 DEF t

\* A sequence stays in order when something later is appended, and when its
\* first element, which is before the others, is taken off.
LEMMA OrderFacts ==
    ASSUME NEW s \in Seq(Nat), InOrder(s)
    PROVE  /\ \A x \in Nat : (\A y \in ToSet(s) : y < x) => InOrder(Append(s, x))
           /\ s # <<>> => InOrder(Tail(s)) /\ \A y \in ToSet(Tail(s)) : Head(s) < y
<1>0. DOMAIN s = 1 .. Len(s) /\ Len(s) \in Nat
  OBVIOUS
<1>1. ASSUME NEW x \in Nat, \A y \in ToSet(s) : y < x PROVE InOrder(Append(s, x))
  <2> DEFINE t == Append(s, x)
  <2>1. /\ t \in Seq(Nat) /\ Len(t) = Len(s) + 1 /\ t[Len(s) + 1] = x
        /\ \A i \in 1 .. Len(s) : t[i] = s[i]
    BY AppendFacts
  <2> HIDE DEF t
  <2>2. SUFFICES ASSUME NEW i \in 1 .. Len(s) + 1, NEW j \in 1 .. Len(s) + 1, i < j
                 PROVE  t[i] < t[j]
    BY <2>1 DEF InOrder, t
  <2>3. i \in 1 .. Len(s) /\ s[i] < x
    BY <1>0, <1>1, <2>2 DEF ToSet
  <2>4. CASE j = Len(s) + 1
    BY <2>1, <2>3, <2>4
  <2>5. CASE j \in 1 .. Len(s)
    BY <1>0, <2>1, <2>2, <2>3, <2>5 DEF InOrder
  <2> QED
    BY <1>0, <2>4, <2>5
<1>2. ASSUME s # <<>> PROVE InOrder(Tail(s)) /\ \A y \in ToSet(Tail(s)) : Head(s) < y
  <2> DEFINE t == Tail(s)
  <2>1. /\ t \in Seq(Nat) /\ Len(t) = Len(s) - 1 /\ Head(s) = s[1]
        /\ \A i \in 1 .. Len(t) : t[i] = s[i + 1]
    BY <1>2, TailFacts
  <2> HIDE DEF t
  <2>2. DOMAIN t = 1 .. Len(t) /\ Len(t) \in Nat
    BY <2>1
  <2>3. \A i \in 1 .. Len(t) : i + 1 \in 1 .. Len(s) /\ 1 \in 1 .. Len(s)
    BY <1>0, <2>1, <2>2
  <2>4. InOrder(t)
    <3>1. SUFFICES ASSUME NEW i \in 1 .. Len(t), NEW j \in 1 .. Len(t), i < j PROVE t[i] < t[j]
      BY <2>2 DEF InOrder
    <3>2. PICK a \in DOMAIN s, b \in DOMAIN s : a = i + 1 /\ b = j + 1
      BY <1>0, <2>3
    <3>3. a < b
      BY <2>2, <3>1, <3>2
    <3>4. s[a] < s[b]
      BY <3>3 DEF InOrder
    <3> QED
      BY <2>1, <3>2, <3>4
  <2>5. \A y \in ToSet(t) : Head(s) < y
    <3>1. SUFFICES ASSUME NEW i \in 1 .. Len(t) PROVE s[1] < t[i]
      BY <2>1, <2>2 DEF ToSet
    <3>2. PICK a \in DOMAIN s, b \in DOMAIN s : a = 1 /\ b = i + 1
      BY <1>0, <2>3
    <3>3. a < b
      BY <2>2, <3>2
    <3>4. s[a] < s[b]
      BY <3>3 DEF InOrder
    <3> QED
      BY <2>1, <3>2, <3>4
  <2> QED
    BY <2>4, <2>5 DEF t
<1> QED
  BY <1>1, <1>2

\* The objects that were sent are those of the requests before and of the last.
LEMMA SentFacts ==
    ASSUME NEW S, sent \in Seq(Seq(S)), NEW s \in Seq(S), sent' = Append(sent, s)
    PROVE  /\ Sent' = Sent \cup ToSet(s)
           /\ DOMAIN sent = 1 .. Len(sent) /\ Len(sent) \in Nat /\ Len(sent') = Len(sent) + 1
           /\ DOMAIN sent' = 1 .. Len(sent) + 1
           /\ \A i \in 1 .. Len(sent) : sent'[i] = sent[i]
           /\ sent'[Len(sent) + 1] = s
<1>1. /\ DOMAIN sent = 1 .. Len(sent) /\ Len(sent) \in Nat /\ Len(sent') = Len(sent) + 1
      /\ DOMAIN sent' = 1 .. Len(sent) + 1
      /\ \A i \in 1 .. Len(sent) : sent'[i] = sent[i]
      /\ sent'[Len(sent) + 1] = s
  OBVIOUS
<1>2. \A i \in 1 .. Len(sent) + 1 : i \in 1 .. Len(sent) \/ i = Len(sent) + 1
  BY <1>1
<1>3. Sent' \subseteq Sent \cup ToSet(s)
  <2>1. SUFFICES ASSUME NEW i \in 1 .. Len(sent) + 1, NEW x \in ToSet(sent'[i])
                 PROVE  x \in Sent \cup ToSet(s)
    BY <1>1 DEF Sent
  <2>2. CASE i \in 1 .. Len(sent)
    BY <1>1, <2>1, <2>2 DEF Sent
  <2> QED
    BY <1>1, <1>2, <2>1, <2>2
<1>4. Sent \cup ToSet(s) \subseteq Sent'
  <2>1. Len(sent) + 1 \in 1 .. Len(sent) + 1 /\ 1 .. Len(sent) \subseteq 1 .. Len(sent) + 1
    BY <1>1
  <2>2. ToSet(s) \subseteq Sent'
    BY <1>1, <2>1 DEF Sent
  <2>3. ASSUME NEW i \in 1 .. Len(sent) PROVE ToSet(sent[i]) \subseteq Sent'
    BY <1>1, <2>1 DEF Sent
  <2> QED
    BY <1>1, <2>2, <2>3 DEF Sent
<1> QED
  BY <1>1, <1>3, <1>4

\* Fails counts one more error for each of its objects.
LEMMA FailsFacts ==
    ASSUME given' = given, errs \in [Errors -> Nat],
           NEW objects \in SUBSET (0..Len(given)), NEW cause \in Causes, Fails(objects, cause)
    PROVE  /\ errs' \in [Errors -> Nat]
           /\ Reported(cause)' = Reported(cause) \cup objects
           /\ \A c \in Causes \ {cause} : Reported(c)' = Reported(c)
           /\ (\A e \in Errors : errs[e] <= 1) /\ Reported(cause) \cap objects = {}
                 => \A e \in Errors : errs'[e] <= 1
<1>1. \A o \in 0..Len(given), c \in Causes : <<o, c>> \in Errors
  BY DEF Errors
<1>2. errs' \in [Errors -> Nat]
  BY DEF Fails
<1>3. \A o \in 0..Len(given), c \in Causes :
         errs'[<<o, c>>] = IF o \in objects /\ c = cause THEN errs[<<o, c>>] + 1 ELSE errs[<<o, c>>]
  BY <1>1 DEF Fails
<1>4. \A o \in 0..Len(given), c \in Causes : errs[<<o, c>>] \in Nat
  BY <1>1
<1>5. Reported(cause)' = Reported(cause) \cup objects
  <2>1. Reported(cause)' = {o \in 0..Len(given) : errs'[<<o, cause>>] > 0}
    BY DEF Reported
  <2>2. ASSUME NEW o \in 0..Len(given)
        PROVE  errs'[<<o, cause>>] > 0 <=> errs[<<o, cause>>] > 0 \/ o \in objects
    <3>1. errs[<<o, cause>>] \in Nat
      BY <1>4
    <3>2. errs'[<<o, cause>>] = IF o \in objects THEN errs[<<o, cause>>] + 1 ELSE errs[<<o, cause>>]
      BY <1>3
    <3> QED
      BY <3>1, <3>2
  <2> QED
    BY <2>1, <2>2 DEF Reported
<1>6. ASSUME NEW c \in Causes \ {cause} PROVE Reported(c)' = Reported(c)
  <2>1. Reported(c)' = {o \in 0..Len(given) : errs'[<<o, c>>] > 0}
    BY DEF Reported
  <2>2. ASSUME NEW o \in 0..Len(given) PROVE errs'[<<o, c>>] = errs[<<o, c>>]
    BY <1>3
  <2> QED
    BY <2>1, <2>2 DEF Reported
<1>7. ASSUME \A e \in Errors : errs[e] <= 1, Reported(cause) \cap objects = {}, NEW e \in Errors
      PROVE  errs'[e] <= 1
  <2>1. PICK o \in 0..Len(given), c \in Causes : e = <<o, c>>
    BY DEF Errors
  <2>2. CASE o \in objects /\ c = cause
    <3>1. errs[<<o, c>>] = 0
      BY <1>4, <1>7, <2>2 DEF Reported
    <3> QED
      BY <1>3, <2>1, <2>2, <3>1
  <2>3. CASE ~(o \in objects /\ c = cause)
    <3>1. errs'[<<o, c>>] = errs[<<o, c>>]
      BY <1>3, <2>3
    <3>2. errs[<<o, c>>] <= 1
      BY <1>1, <1>7
    <3> QED
      BY <2>1, <3>1, <3>2
  <2> QED
    BY <2>2, <2>3
<1> QED
  BY <1>2, <1>5, <1>6, <1>7

-----------------------------------------------------------------------------
(* Every variable keeps its type. *)

\* What was asked for never changes.
LEMMA NextAsked ==
    ASSUME [Next]_vars
    PROVE  /\ op' = op /\ iter' = iter /\ batchSize' = batchSize
           /\ given' = given /\ prefixes' = prefixes /\ Errors' = Errors
BY DEF Next, vars, asked, NextOfSlice, NextFails, NextOfList, ListAnswers, ListFails, Queue,
       DeleteAnswers, DeleteFails, Answered, AfterRuns, NextBatch, End, Transfer, Errors

\* The pages of a listing end at one of its entries.
LEMMA PageFacts ==
    ASSUME TypeOK, NEW last \in PageEnds
    PROVE  /\ last \in nextToken..Len(given) /\ last \in 0..Len(given)
           /\ last > nextToken \/ last = Len(given)
           /\ nextPageTokens(last) \in 0..Len(given)
BY DEF TypeOK, PageEnds, nextPageTokens

LEMMA NextType ==
    ASSUME TypeOK, ControlInv, [Next]_vars
    PROVE  TypeOK'
<1> DEFINE N == 1..Len(given)
<1>0. /\ op' = op /\ iter' = iter /\ batchSize' = batchSize
      /\ given' = given /\ prefixes' = prefixes /\ Errors' = Errors
  BY NextAsked
<1>1. /\ Len(given) \in Nat /\ index \in Nat /\ nextToken \in Nat
      /\ \A s \in Seq(N) : ToSet(s) \subseteq N
  BY DEF TypeOK, ToSet
<1>2. CASE NextOfSlice
  BY <1>0, <1>2 DEF TypeOK, NextOfSlice, Yields, Ends, asked, outcome
<1>3. CASE NextFails
  BY <1>0, <1>3 DEF TypeOK, NextFails, Ends, asked, outcome
<1>4. CASE NextOfList
  <2>1. /\ contents' \subseteq N /\ object' \in 0..Len(given)
        /\ pc' \in {"object", "list", "end"}
    <3>1. contents' \subseteq N /\ First(contents') \subseteq N
      BY <1>4 DEF TypeOK, NextOfList, First
    <3>2. object \in 0..Len(given) /\ N \subseteq 0..Len(given)
      BY <1>1 DEF TypeOK
    <3>3. CASE \E o \in First(contents') : Yields(o)
      BY <3>1, <3>2, <3>3 DEF Yields
    <3>4. CASE ~ \E o \in First(contents') : Yields(o)
      BY <1>4, <3>1, <3>2, <3>4 DEF NextOfList, Ends
    <3> QED
      BY <3>3, <3>4
  <2> QED
    BY <1>0, <1>4, <2>1 DEF TypeOK, NextOfList, asked, outcome
<1>5. CASE ListAnswers
  <2>1. PICK last \in PageEnds :
          contents' = Keys(nextToken, last) /\ nextToken' = nextPageTokens(last)
    BY <1>5 DEF ListAnswers
  <2>2. contents' \subseteq N /\ nextToken' \in 0..Len(given)
    BY <1>1, <2>1, PageFacts DEF Keys
  <2>3. object' \in 0..Len(given) /\ pc' \in {"object", "end"}
    BY <1>5, <2>2 DEF TypeOK, ListAnswers, First, Yields, Ends
  <2> QED
    BY <1>0, <1>5, <2>2, <2>3 DEF TypeOK, ListAnswers, asked, outcome
<1>6. CASE ListFails
  BY <1>0, <1>6 DEF TypeOK, ListFails, Ends, asked, outcome
<1>7. CASE Queue
  <2>1. object \in N
    BY <1>7 DEF Queue, ControlInv, Keys
  <2>2. batch' \in Seq(N) /\ carried' \in Seq(N)
    <3>1. /\ Append(batch, object) \in Seq(N) /\ <<object>> \in Seq(N) /\ <<>> \in Seq(N)
          /\ batch \in Seq(N)
      BY <2>1, AppendFacts DEF TypeOK
    <3> QED
      BY <1>7, <3>1 DEF Queue
  <2> QED
    BY <1>0, <1>7, <2>2 DEF TypeOK, Queue, asked, iterator, outcome
<1>8. ASSUME NEW failed \in SUBSET ToSet(batch), Answered(failed), done' \subseteq N, pc = "delete"
      PROVE  TypeOK'
  <2>1. failed \in SUBSET (0..Len(given)) /\ "request" \in Causes /\ errs \in [Errors -> Nat]
    BY <1>1, <1>8 DEF TypeOK, Causes
  <2>2. errs' \in [Errors -> Nat] /\ Errors' = Errors
    BY <1>0, <1>8, <2>1, FailsFacts DEF Answered, Errors
  <2>3. sent' \in Seq(Seq(N))
    BY <1>8 DEF Answered, TypeOK
  <2> QED
    BY <1>0, <1>8, <2>2, <2>3 DEF TypeOK, Answered, asked, iterator
<1>9. CASE DeleteAnswers
  BY <1>1, <1>8, <1>9 DEF DeleteAnswers, TypeOK
<1>10. CASE DeleteFails
  BY <1>1, <1>8, <1>10 DEF DeleteFails, TypeOK
<1>11. ASSUME NEW ok \in BOOLEAN, AfterRuns(ok) PROVE TypeOK'
  <2>1. Head(pending) \in N /\ pending' \in Seq(N) /\ ran' \in Seq(N)
    BY <1>11, TailFacts, AppendFacts DEF AfterRuns, TypeOK
  <2>2. errs' \in [Errors -> Nat] /\ Errors' = Errors
    <3>1. CASE ok
      BY <1>0, <1>11, <3>1 DEF AfterRuns, TypeOK, Errors
    <3>2. CASE ~ok
      <4>1. {Head(pending)} \in SUBSET (0..Len(given)) /\ "after" \in Causes
        BY <1>1, <2>1 DEF Causes
      <4> QED
        BY <1>0, <1>11, <3>2, <4>1, FailsFacts DEF AfterRuns, TypeOK, Errors
    <3> QED
      BY <3>1, <3>2
  <2>3. afterFailed' \subseteq N
    BY <1>11, <2>1 DEF AfterRuns, TypeOK
  <2> QED
    BY <1>0, <1>11, <2>1, <2>2, <2>3 DEF TypeOK, AfterRuns, asked, iterator
<1>12. CASE NextBatch
  BY <1>0, <1>12 DEF TypeOK, NextBatch, asked, iterator, outcome, Errors
<1>13. CASE End
  <2>1. errs' \in [Errors -> Nat] /\ Errors' = Errors
    <3>1. CASE iterErr /\ op = "delete"
      <4>1. {0} \in SUBSET (0..Len(given)) /\ "iterator" \in Causes
        BY <1>1 DEF Causes
      <4> QED
        BY <1>0, <1>13, <3>1, <4>1, FailsFacts DEF End, TypeOK, Errors
    <3>2. CASE ~(iterErr /\ op = "delete")
      BY <1>0, <1>13, <3>2 DEF End, TypeOK, Errors
    <3> QED
      BY <3>1, <3>2
  <2> QED
    BY <1>0, <1>13, <2>1 DEF TypeOK, End, asked, iterator
<1>14. ASSUME NEW ok \in BOOLEAN, Transfer(ok) PROVE TypeOK'
  <2>1. object \in N
    BY <1>14 DEF Transfer, ControlInv, Keys
  <2>2. sent' \in Seq(Seq(N)) /\ pending' \in Seq(N) /\ done' \subseteq N
    <3>1. <<object>> \in Seq(N)
      BY <2>1
    <3> QED
      <4>1. sent \in Seq(Seq(N)) /\ sent' = Append(sent, <<object>>)
        BY <1>14 DEF Transfer, TypeOK
      <4>2. sent' \in Seq(Seq(N))
        BY <3>1, <4>1, AppendFacts
      <4> QED
        BY <1>14, <2>1, <3>1, <4>2 DEF Transfer, TypeOK
  <2>3. errs' \in [Errors -> Nat] /\ Errors' = Errors
    <3>1. CASE ok
      BY <1>0, <1>14, <3>1 DEF Transfer, TypeOK, Errors
    <3>2. CASE ~ok
      <4>1. {object} \in SUBSET (0..Len(given)) /\ "request" \in Causes
        BY <1>1, <2>1 DEF Causes
      <4> QED
        BY <1>0, <1>14, <3>2, <4>1, FailsFacts DEF Transfer, TypeOK, Errors
    <3> QED
      BY <3>1, <3>2
  <2> QED
    BY <1>0, <1>14, <2>2, <2>3 DEF TypeOK, Transfer, asked, iterator
<1>15. CASE UNCHANGED vars
  BY <1>15 DEF TypeOK, vars, asked, iterator, outcome, Errors
<1> QED
  BY <1>2, <1>3, <1>4, <1>5, <1>6, <1>7, <1>9, <1>10, <1>11, <1>12, <1>13, <1>14, <1>15 DEF Next

-----------------------------------------------------------------------------
(* The iterator yields the objects in order and leaves none out. *)

LEMMA KeysFacts ==
    ASSUME NEW a \in Nat, NEW b \in Nat
    PROVE  \A x : x \in Keys(a, b) <=> x \in Nat /\ a < x /\ x <= b /\ x \notin prefixes
BY DEF Keys

\* Where a page begins and what its end is.
LEMMA PageEndFacts ==
    ASSUME TypeOK, IteratorInv
    PROVE  /\ PageEnd \in 0..Len(given) /\ PageEnd \in Nat /\ Len(given) \in Nat
           /\ nextToken \in Nat /\ object \in Nat /\ object \notin prefixes
           /\ HasNextPage => PageEnd = nextToken
           /\ ~HasNextPage => started /\ PageEnd = Len(given)
BY DEF TypeOK, IteratorInv, PageEnd, HasNextPage

\* The next page, when it has come.
LEMMA PageFollows ==
    ASSUME TypeOK, IteratorInv, [Next]_vars, started', NEW last \in PageEnds,
           nextToken' = nextPageTokens(last)
    PROVE  PageEnd' = last /\ last \in Nat /\ nextToken <= last
<1>1. given' = given
  BY NextAsked
<1>2. last \in nextToken..Len(given) /\ (last > nextToken \/ last = Len(given))
      /\ nextToken \in Nat /\ Len(given) \in Nat
  BY PageFacts, PageEndFacts
<1> QED
  BY <1>1, <1>2 DEF PageEnd, nextPageTokens

\* When an iterator that lists leaves an object behind, what is left of the
\* page are the objects after it.
LEMMA PageGoesOn ==
    ASSUME TypeOK, ControlInv, IteratorInv, NextOfList
    PROVE  /\ contents' = {x \in Keys(0, PageEnd) : x > object}
           /\ contents' = {} => Keys(0, object) = Keys(0, PageEnd)
<1>1. iter = "list" /\ pc = "next" /\ ~AtEnd /\ contents' = contents \ First(contents)
  BY DEF NextOfList, ControlInv, AtEnd
<1>2. /\ contents = {o \in Keys(0, PageEnd) : o >= object} /\ object <= PageEnd
      /\ object = 0 => ~started
  BY <1>1 DEF IteratorInv
<1>3. /\ PageEnd \in Nat /\ object \in Nat /\ object \notin prefixes
  BY PageEndFacts
<1>4. \A x : x \in Keys(0, PageEnd) <=> x \in Nat /\ 0 < x /\ x <= PageEnd /\ x \notin prefixes
  BY <1>3, KeysFacts
<1>5. CASE object = 0
  <2>1. PageEnd = 0
    BY <1>2, <1>5 DEF PageEnd
  <2>2. Keys(0, PageEnd) = {}
    BY <1>4, <2>1
  <2> QED
    BY <1>1, <1>2, <1>5, <2>1, <2>2
<1>6. CASE object # 0
  <2>1. object \in contents
    BY <1>2, <1>3, <1>4, <1>6
  <2>2. First(contents) = {object}
    BY <1>2, <1>3, <1>4, <2>1 DEF First
  <2>3. contents' = {x \in Keys(0, PageEnd) : x > object}
    BY <1>1, <1>2, <1>3, <1>4, <2>2
  <2>4. ASSUME contents' = {} PROVE Keys(0, object) = Keys(0, PageEnd)
    <3>1. \A x : x \in Keys(0, object) <=> x \in Nat /\ 0 < x /\ x <= object /\ x \notin prefixes
      BY <1>3, KeysFacts
    <3> QED
      BY <1>2, <1>3, <1>4, <2>3, <2>4, <3>1
  <2> QED
    BY <2>3, <2>4
<1> QED
  BY <1>5, <1>6

\* The object that is yielded is the one after those before it.
LEMMA Yielded ==
    ASSUME TypeOK, ControlInv, IteratorInv, NextOfSlice \/ NextOfList \/ ListAnswers,
           [Next]_vars, pc' = "object"
    PROVE  /\ object' \in Keys(0, Len(given)) /\ object < object'
           /\ Keys(0, object') = Keys(0, object) \cup {object'}
           /\ iter = "list" => /\ object' <= PageEnd'
                               /\ contents' = {x \in Keys(0, PageEnd') : x >= object'}
<1>1. /\ PageEnd \in 0..Len(given) /\ PageEnd \in Nat /\ Len(given) \in Nat
      /\ nextToken \in Nat /\ object \in Nat /\ object \notin prefixes
      /\ HasNextPage => PageEnd = nextToken
  BY PageEndFacts
<1>2. \A b \in Nat : \A x : x \in Keys(0, b) <=> x \in Nat /\ 0 < x /\ x <= b /\ x \notin prefixes
  BY KeysFacts
<1>3. given' = given
  BY NextAsked
<1>4. CASE NextOfSlice
  <2>1. iter # "list" /\ prefixes = {} /\ ~AtEnd
    BY <1>4 DEF NextOfSlice, ControlInv, IteratorInv, AtEnd
  <2>2. object' = object + 1 /\ object' <= Len(given)
    BY <1>1, <1>4, <2>1 DEF NextOfSlice, Yields, Ends, IteratorInv, TypeOK
  <2> QED
    BY <1>1, <1>2, <2>1, <2>2
<1>5. CASE NextOfList
  <2>1. contents' = {x \in Keys(0, PageEnd) : x > object} /\ object' \in First(contents')
        /\ PageEnd' = PageEnd
    BY <1>3, <1>5, PageGoesOn DEF NextOfList, Yields, Ends, PageEnd
  <2>2. object' \in Keys(0, PageEnd) /\ object < object'
        /\ \A x \in Keys(0, PageEnd) : x > object => object' <= x
    BY <2>1 DEF First
  <2>3. \A x : x \in Keys(0, object') <=> x \in Nat /\ 0 < x /\ x <= object' /\ x \notin prefixes
    BY <1>1, <1>2, <2>2
  <2>4. Keys(0, object') = Keys(0, object) \cup {object'}
    BY <1>1, <1>2, <2>2, <2>3
  <2>5. contents' = {x \in Keys(0, PageEnd') : x >= object'}
    BY <1>1, <1>2, <2>1, <2>2
  <2> QED
    BY <1>1, <1>2, <2>1, <2>2, <2>4, <2>5
<1>6. CASE ListAnswers
  <2>1. PICK last \in PageEnds :
          contents' = Keys(nextToken, last) /\ nextToken' = nextPageTokens(last)
    BY <1>6 DEF ListAnswers
  <2>2. PageEnd' = last /\ last \in Nat /\ last <= Len(given)
    BY <1>1, <1>6, <2>1, PageFollows, PageFacts DEF ListAnswers
  <2>3. object' \in First(contents')
    BY <1>6 DEF ListAnswers, Yields, Ends
  <2>4. \A x : x \in Keys(nextToken, last)
                  <=> x \in Nat /\ nextToken < x /\ x <= last /\ x \notin prefixes
    BY <1>1, <2>2, KeysFacts
  <2>5. /\ object' \in Nat /\ nextToken < object' /\ object' <= last /\ object' \notin prefixes
        /\ \A x \in Keys(nextToken, last) : object' <= x
    BY <2>1, <2>3, <2>4 DEF First
  <2>6. Keys(0, object) = Keys(0, nextToken) /\ object <= nextToken
    BY <1>1, <1>6 DEF ListAnswers, IteratorInv, ControlInv, AtEnd
  <2>7. Keys(0, object') = Keys(0, nextToken) \cup {object'}
    <3>1. \A x : x \in Keys(0, object') <=> x \in Nat /\ 0 < x /\ x <= object' /\ x \notin prefixes
      BY <1>2, <2>5
    <3>2. \A x : x \in Keys(0, nextToken) <=> x \in Nat /\ 0 < x /\ x <= nextToken /\ x \notin prefixes
      BY <1>1, <1>2
    <3> QED
      BY <1>1, <2>2, <2>4, <2>5, <3>1, <3>2
  <2>8. contents' = {x \in Keys(0, PageEnd') : x >= object'}
    BY <1>1, <1>2, <2>1, <2>2, <2>4, <2>5
  <2>9. object' \in Keys(0, Len(given)) /\ object < object'
    BY <1>1, <1>2, <2>2, <2>5, <2>6
  <2> QED
    BY <2>2, <2>5, <2>6, <2>7, <2>8, <2>9
<1> QED
  BY <1>4, <1>5, <1>6

\* What the loop does with an object leaves the iterator alone.
LEMMA Elsewhere ==
    ASSUME TypeOK, ControlInv, [Next]_vars, pc \notin {"next", "list"}
    PROVE  /\ index' = index /\ inc' = inc /\ contents' = contents /\ started' = started
           /\ nextToken' = nextToken /\ iterErr' = iterErr /\ object' = object
           /\ pc' # "list" /\ (AtEnd' <=> AtEnd)
<1>0. pc = "end" => ~ended
  BY DEF ControlInv
<1>1. ~(NextOfSlice \/ NextFails \/ NextOfList \/ ListAnswers \/ ListFails)
  BY DEF NextOfSlice, NextFails, NextOfList, ListAnswers, ListFails
<1>2. CASE Queue \/ NextBatch \/ End
  BY <1>0, <1>2 DEF iterator, AtEnd, Queue, NextBatch, End
<1>3. CASE DeleteAnswers \/ DeleteFails
  BY <1>0, <1>3 DEF iterator, AtEnd, DeleteAnswers, DeleteFails, Answered
<1>4. ASSUME NEW ok \in BOOLEAN, AfterRuns(ok) \/ Transfer(ok)
      PROVE  /\ index' = index /\ inc' = inc /\ contents' = contents /\ started' = started
             /\ nextToken' = nextToken /\ iterErr' = iterErr /\ object' = object
             /\ pc' # "list" /\ (AtEnd' <=> AtEnd)
  BY <1>4 DEF iterator, AtEnd, AfterRuns, Transfer
<1>5. CASE UNCHANGED vars
  BY <1>5 DEF vars, iterator, AtEnd
<1> QED
  BY <1>1, <1>2, <1>3, <1>4, <1>5 DEF Next

\* What an iterator leaves alone, and where the operation goes from it.
LEMMA IteratorStep ==
    ASSUME TypeOK, ControlInv, [Next]_vars, pc \in {"next", "list"}
    PROVE  /\ ended' = ended /\ ~AtEnd /\ ~ended /\ (AtEnd' <=> pc' = "end")
           /\ batch' = batch /\ carried' = carried /\ pending' = pending
           /\ errs' = errs /\ sent' = sent /\ ran' = ran /\ done' = done
           /\ afterFailed' = afterFailed
           /\ pc' \in {"next", "list", "object", "end"}
           /\ pc' # "object" => object' = object
           /\ \/ NextOfSlice \/ NextFails \/ NextOfList \/ ListAnswers \/ ListFails
              \/ UNCHANGED vars
<1>1. CASE NextOfSlice \/ NextFails \/ NextOfList \/ ListAnswers \/ ListFails
  BY <1>1 DEF ControlInv, AtEnd, NextOfSlice, NextFails, NextOfList, ListAnswers, ListFails,
              Yields, Ends, outcome
<1>2. CASE UNCHANGED vars
  BY <1>2 DEF ControlInv, AtEnd, vars, outcome, iterator
<1>3. ~(\/ Queue \/ DeleteAnswers \/ DeleteFails \/ NextBatch \/ End
        \/ \E ok \in BOOLEAN : AfterRuns(ok) \/ Transfer(ok))
  BY DEF Queue, DeleteAnswers, DeleteFails, AfterRuns, NextBatch, End, Transfer
<1> QED
  BY <1>1, <1>2, <1>3 DEF Next

LEMMA NextIterator ==
    ASSUME TypeOK, ControlInv, IteratorInv, [Next]_vars
    PROVE  IteratorInv'
<1>1. /\ op' = op /\ iter' = iter /\ given' = given /\ prefixes' = prefixes
      /\ \A a, b : Keys(a, b)' = Keys(a, b)
  BY NextAsked DEF Keys
<1>2. CASE pc \notin {"next", "list"}
  <2>1. /\ index' = index /\ inc' = inc /\ contents' = contents /\ started' = started
        /\ nextToken' = nextToken /\ iterErr' = iterErr /\ object' = object
        /\ pc' # "list" /\ (AtEnd' <=> AtEnd) /\ pc # "list"
    BY <1>2, Elsewhere
  <2>2. PageEnd' = PageEnd
    BY <1>1, <2>1 DEF PageEnd
  <2> QED
    BY <1>1, <2>1, <2>2 DEF IteratorInv, HasNextPage
<1>3. CASE pc \in {"next", "list"}
  <2>0. /\ ended' = ended /\ ~AtEnd /\ (AtEnd' <=> pc' = "end")
        /\ pc' # "object" => object' = object
    BY <1>3, IteratorStep
  <2>1. /\ PageEnd \in 0..Len(given) /\ PageEnd \in Nat /\ Len(given) \in Nat
        /\ nextToken \in Nat /\ object \in Nat /\ object \notin prefixes
        /\ HasNextPage => PageEnd = nextToken
        /\ ~HasNextPage => started /\ PageEnd = Len(given)
    BY PageEndFacts
  <2>2. CASE NextOfSlice
    <3>1. /\ iter # "list" /\ object = (IF inc THEN index + 1 ELSE 0) /\ (~inc => index = 0)
          /\ prefixes = {} /\ index \in Nat /\ inc \in BOOLEAN /\ (~started => nextToken = 0)
          /\ object <= Len(given)
      BY <2>0, <2>2 DEF NextOfSlice, IteratorInv, TypeOK
    <3>2. /\ inc' = TRUE /\ index' = (IF inc THEN index + 1 ELSE index)
          /\ started' = started /\ nextToken' = nextToken
          /\ \/ index' < Len(given) /\ pc' = "object" /\ object' = index' + 1
             \/ ~(index' < Len(given)) /\ pc' = "end" /\ object' = object
      BY <2>2 DEF NextOfSlice, Yields, Ends
    <3>3. pc' = "end" => object' = Len(given)
      BY <2>1, <3>1, <3>2
    <3> QED
      BY <1>1, <2>0, <2>1, <3>1, <3>2, <3>3 DEF IteratorInv
  <2>3. CASE NextFails
    BY <1>1, <2>0, <2>3 DEF NextFails, Ends, IteratorInv
  <2>4. CASE NextOfList
    <3>1. /\ iter = "list" /\ started' = started /\ nextToken' = nextToken
          /\ PageEnd' = PageEnd /\ (HasNextPage' <=> HasNextPage)
      BY <1>1, <2>4 DEF NextOfList, PageEnd, HasNextPage
    <3>2. object <= PageEnd /\ (~started => nextToken = 0) /\ (object = 0 => ~started)
      BY <2>0, <3>1 DEF IteratorInv
    <3>3. CASE pc' = "object"
      <4>1. /\ object < object' /\ object' \in Keys(0, Len(given)) /\ object' <= PageEnd'
            /\ contents' = {x \in Keys(0, PageEnd') : x >= object'}
        BY <2>4, <3>1, <3>3, Yielded
      <4>2. object' # 0 /\ object' \notin prefixes
        BY <2>1, <4>1, KeysFacts
      <4> QED
        BY <1>1, <2>0, <3>1, <3>2, <3>3, <4>1, <4>2 DEF IteratorInv
    <3>4. CASE pc' # "object"
      <4>1. /\ contents' = {} /\ object' = object
            /\ \/ HasNextPage /\ pc' = "list"
               \/ ~HasNextPage /\ pc' = "end"
        BY <2>4, <3>4 DEF NextOfList, Yields, Ends
      <4>2. Keys(0, object) = Keys(0, PageEnd)
        BY <2>4, <4>1, PageGoesOn
      <4> QED
        BY <1>1, <2>0, <2>1, <3>1, <3>2, <3>4, <4>1, <4>2 DEF IteratorInv
    <3> QED
      BY <3>3, <3>4
  <2>5. CASE ListAnswers
    <3>1. PICK last \in PageEnds :
            contents' = Keys(nextToken, last) /\ nextToken' = nextPageTokens(last)
      BY <2>5 DEF ListAnswers
    <3>2. PageEnd' = last /\ last \in Nat /\ nextToken <= last /\ started' = TRUE
      BY <2>5, <3>1, PageFollows DEF ListAnswers
    <3>3. iter = "list" /\ object <= nextToken /\ Keys(0, object) = Keys(0, nextToken)
      BY <2>0, <2>1, <2>5 DEF ListAnswers, IteratorInv, ControlInv
    <3>4. CASE pc' = "object"
      <4>1. /\ object < object' /\ object' \in Keys(0, Len(given)) /\ object' <= PageEnd'
            /\ contents' = {x \in Keys(0, PageEnd') : x >= object'}
        BY <2>5, <3>3, <3>4, Yielded
      <4>2. object' # 0 /\ object' \notin prefixes
        BY <2>1, <4>1, KeysFacts
      <4> QED
        BY <1>1, <2>0, <3>2, <3>3, <3>4, <4>1, <4>2 DEF IteratorInv
    <3>5. CASE pc' # "object"
      <4>1. contents' = {} /\ object' = object /\ pc' = "end"
        BY <2>5, <3>5 DEF ListAnswers, Yields, Ends
      <4>2. Keys(0, object) = Keys(0, last)
        <5>1. \A x : x \in Keys(nextToken, last)
                       <=> x \in Nat /\ nextToken < x /\ x <= last /\ x \notin prefixes
          BY <2>1, <3>2, KeysFacts
        <5>2. \A x : x \in Keys(0, last) <=> x \in Nat /\ 0 < x /\ x <= last /\ x \notin prefixes
          BY <3>2, KeysFacts
        <5>3. \A x : x \in Keys(0, nextToken)
                       <=> x \in Nat /\ 0 < x /\ x <= nextToken /\ x \notin prefixes
          BY <2>1, KeysFacts
        <5>4. Keys(0, last) = Keys(0, nextToken)
          BY <2>1, <3>1, <3>2, <4>1, <5>1, <5>2, <5>3
        <5> QED
          BY <3>3, <5>4
      <4> QED
        BY <1>1, <2>0, <2>1, <3>2, <3>3, <4>1, <4>2 DEF IteratorInv
    <3> QED
      BY <3>4, <3>5
  <2>6. CASE ListFails
    <3>1. /\ started' = TRUE /\ iterErr' = TRUE /\ pc' = "end" /\ object' = object
          /\ nextToken' = nextToken
      BY <2>6 DEF ListFails, Ends
    <3>2. object <= PageEnd'
      <4>1. iter = "list"
        BY <2>6 DEF ListFails, ControlInv
      <4> QED
        BY <1>1, <2>1, <3>1, <4>1 DEF IteratorInv, PageEnd, TypeOK
    <3> QED
      BY <1>1, <2>0, <2>1, <3>1, <3>2 DEF IteratorInv
  <2>7. CASE UNCHANGED vars
    BY <1>1, <2>7 DEF vars, iterator, IteratorInv, HasNextPage, AtEnd, PageEnd
  <2> QED
    BY <1>3, <2>2, <2>3, <2>4, <2>5, <2>6, <2>7, IteratorStep
<1> QED
  BY <1>2, <1>3

-----------------------------------------------------------------------------
(* Where the operation is. *)

LEMMA NextControl ==
    ASSUME TypeOK, ControlInv, IteratorInv, [Next]_vars
    PROVE  ControlInv'
<1>1. /\ op' = op /\ iter' = iter /\ given' = given /\ prefixes' = prefixes
      /\ \A a, b : Keys(a, b)' = Keys(a, b)
  BY NextAsked DEF Keys
<1>2. CASE pc \in {"next", "list"}
  <2>1. /\ ended' = ended /\ ~AtEnd /\ ~ended /\ (AtEnd' <=> pc' = "end")
        /\ batch' = batch /\ carried' = carried /\ pending' = pending
        /\ pc' \in {"next", "list", "object", "end"}
        /\ \/ NextOfSlice \/ NextFails \/ NextOfList \/ ListAnswers \/ ListFails
           \/ UNCHANGED vars
    BY <1>2, IteratorStep
  <2>2. pending = <<>> /\ carried = <<>> /\ iterErr = FALSE
    BY <1>2, <2>1 DEF ControlInv, TypeOK
  <2>3. pc' = "list" => iter = "list"
    BY <2>1 DEF ControlInv, NextOfSlice, NextFails, NextOfList, ListAnswers, ListFails, Yields,
                Ends, vars
  <2>4. pc' = "object" => NextOfSlice \/ NextOfList \/ ListAnswers
    BY <1>2, <2>1 DEF NextFails, ListFails, Ends, vars
  <2>5. pc' = "object" => object' \in Keys(0, Len(given))
    BY <2>4, Yielded
  <2>6. iterErr' => pc' = "end"
    BY <2>1, <2>2 DEF NextOfSlice, NextFails, NextOfList, ListAnswers, ListFails, Ends, vars,
                      iterator
  <2> QED
    BY <1>1, <2>1, <2>2, <2>3, <2>5, <2>6 DEF ControlInv
<1>3. CASE pc \notin {"next", "list"}
  <2>1. /\ iterErr' = iterErr /\ object' = object /\ pc' # "list" /\ (AtEnd' <=> AtEnd)
    BY <1>3, Elsewhere
  <2>2. iterErr' => AtEnd'
    BY <2>1 DEF ControlInv
  <2>3. CASE Queue
    <3>0. batch \in Seq(1..Len(given)) /\ object \in 1..Len(given) /\ ~ended /\ pending = <<>>
      BY <2>3 DEF Queue, TypeOK, ControlInv, Keys
    <3>1. Append(batch, object) # <<>> /\ <<object>> # <<>>
      BY <3>0, AppendFacts
    <3>2. batch' # <<>>
      BY <2>3, <3>1 DEF Queue, hasParity
    <3>3. \/ carried' = <<>>
          \/ carried' = <<object>> /\ pc' = "delete"
      BY <2>3 DEF Queue
    <3> QED
      BY <1>1, <2>1, <2>2, <2>3, <3>0, <3>2, <3>3 DEF Queue, ControlInv
  <2>4. ASSUME NEW failed, Answered(failed), pc = "delete" PROVE ControlInv'
    BY <1>1, <2>1, <2>2, <2>4 DEF Answered, ControlInv
  <2>5. CASE DeleteAnswers
    BY <2>4, <2>5 DEF DeleteAnswers
  <2>6. CASE DeleteFails
    BY <2>4, <2>6 DEF DeleteFails
  <2>7. ASSUME NEW ok \in BOOLEAN, AfterRuns(ok) PROVE ControlInv'
    BY <1>1, <2>1, <2>2, <2>7 DEF AfterRuns, ControlInv
  <2>8. CASE NextBatch
    BY <1>1, <2>1, <2>2, <2>8 DEF NextBatch, ControlInv
  <2>9. CASE End
    BY <1>1, <2>1, <2>2, <2>9 DEF End, ControlInv
  <2>10. ASSUME NEW ok \in BOOLEAN, Transfer(ok) PROVE ControlInv'
    BY <1>1, <2>1, <2>2, <2>10 DEF Transfer, ControlInv
  <2>11. CASE UNCHANGED vars
    BY <1>1, <2>1, <2>2, <2>11 DEF vars, ControlInv
  <2>12. ~(NextOfSlice \/ NextFails \/ NextOfList \/ ListAnswers \/ ListFails)
    BY <1>3 DEF NextOfSlice, NextFails, NextOfList, ListAnswers, ListFails
  <2> QED
    BY <2>3, <2>5, <2>6, <2>7, <2>8, <2>9, <2>10, <2>11, <2>12 DEF Next
<1> QED
  BY <1>2, <1>3

-----------------------------------------------------------------------------
(* Each object is in one place, and they are in order. *)

LEMMA SmallFacts ==
    /\ ToSet(<<>>) = {} /\ InOrder(<<>>)
    /\ \A x : ToSet(<<x>>) = {x} /\ InOrder(<<x>>)
BY DEF ToSet, InOrder

\* A request with later objects keeps the requests in order.
LEMMA SendKeepsOrder ==
    ASSUME TypeOK, given' = given, NEW s \in Seq(1..Len(given)), sent' = Append(sent, s),
           \A i \in DOMAIN sent :
              /\ InOrder(sent[i])
              /\ \A j \in DOMAIN sent : i < j => Before(ToSet(sent[i]), ToSet(sent[j])),
           InOrder(s), Before(Sent, ToSet(s))
    PROVE  /\ Sent' = Sent \cup ToSet(s)
           /\ \A i \in DOMAIN sent' :
                /\ InOrder(sent[i])'
                /\ \A j \in DOMAIN sent' : i < j => Before(ToSet(sent[i]), ToSet(sent[j]))'
<1>1. /\ Sent' = Sent \cup ToSet(s)
      /\ DOMAIN sent = 1 .. Len(sent) /\ Len(sent) \in Nat
      /\ DOMAIN sent' = 1 .. Len(sent) + 1
      /\ \A i \in 1 .. Len(sent) : sent'[i] = sent[i]
      /\ sent'[Len(sent) + 1] = s
  BY SentFacts DEF TypeOK
<1>2. \A i \in DOMAIN sent' : i \in DOMAIN sent \/ i = Len(sent) + 1
  BY <1>1
<1>3. ASSUME NEW i \in DOMAIN sent' PROVE InOrder(sent'[i])
  BY <1>1, <1>2
<1>4. ASSUME NEW i \in DOMAIN sent', NEW j \in DOMAIN sent', i < j
      PROVE  Before(ToSet(sent'[i]), ToSet(sent'[j]))
  <2>1. i \in DOMAIN sent /\ sent'[i] = sent[i] /\ ToSet(sent[i]) \subseteq Sent
    BY <1>1, <1>2, <1>4 DEF Sent
  <2>2. CASE j \in DOMAIN sent
    BY <1>1, <1>4, <2>1, <2>2
  <2>3. CASE j = Len(sent) + 1
    BY <1>1, <2>1, <2>3 DEF Before
  <2> QED
    BY <1>2, <2>2, <2>3
<1>5. /\ \A i \in DOMAIN sent' : InOrder(sent[i])' <=> InOrder(sent'[i])
      /\ \A i, j \in DOMAIN sent' : Before(ToSet(sent[i]), ToSet(sent[j]))'
                                      <=> Before(ToSet(sent'[i]), ToSet(sent'[j]))
  BY DEF InOrder, Before, ToSet
<1> QED
  BY <1>1, <1>3, <1>4, <1>5

LEMMA NextOrder ==
    ASSUME TypeOK, ControlInv, IteratorInv, OrderInv, [Next]_vars
    PROVE  OrderInv'
<1> DEFINE N == 1..Len(given)
           InRequests == \A i \in DOMAIN sent :
                            /\ InOrder(sent[i])
                            /\ \A j \in DOMAIN sent :
                                  i < j => Before(ToSet(sent[i]), ToSet(sent[j]))
<1>1. /\ given' = given /\ prefixes' = prefixes
      /\ \A a, b : Keys(a, b)' = Keys(a, b)
  BY NextAsked DEF Keys
<1>2. /\ Sent \cup Collected \cup ToSet(carried) \cup InHand = Keys(0, object)
      /\ InRequests /\ InOrder(batch)
      /\ Before(Sent, Collected \cup ToSet(carried) \cup InHand)
      /\ Before(Collected, ToSet(carried) \cup InHand)
  BY DEF OrderInv
<1>3. SUFFICES /\ Sent' \cup Collected' \cup ToSet(carried') \cup InHand' = Keys(0, object')
               /\ InRequests' /\ InOrder(batch')
               /\ Before(Sent', Collected' \cup ToSet(carried') \cup InHand')
               /\ Before(Collected', ToSet(carried') \cup InHand')
  BY <1>1 DEF OrderInv, InOrder, Before, ToSet, Keys
<1>4. ASSUME sent' = sent PROVE Sent' = Sent /\ InRequests'
  BY <1>2, <1>4 DEF Sent, InOrder, Before, ToSet
<1> HIDE DEF InRequests
<1>5. /\ ToSet(<<>>) = {} /\ InOrder(<<>>)
      /\ ToSet(<<object>>) = {object} /\ InOrder(<<object>>)
  BY SmallFacts
<1>6. batch \in Seq(N) /\ batch \in Seq(Nat) /\ object \in Nat /\ N \subseteq Nat
  BY DEF TypeOK
<1>7. CASE pc \in {"next", "list"}
  <2>1. /\ batch' = batch /\ carried' = carried /\ sent' = sent
        /\ pc' \in {"next", "list", "object", "end"}
        /\ pc' # "object" => object' = object
        /\ \/ NextOfSlice \/ NextFails \/ NextOfList \/ ListAnswers \/ ListFails
           \/ UNCHANGED vars
    BY <1>7, IteratorStep
  <2>2. /\ carried = <<>> /\ Collected = ToSet(batch) /\ Collected' = ToSet(batch)
        /\ InHand = {} /\ InHand' = (IF pc' = "object" THEN {object'} ELSE {})
    BY <1>7, <2>1 DEF ControlInv, Collected, InHand
  <2>3. Sent' = Sent /\ InRequests' /\ InOrder(batch')
    BY <1>2, <1>4, <2>1
  <2>4. Sent \cup Collected = Keys(0, object) /\ Before(Sent, Collected)
    BY <1>2, <1>5, <2>2
  <2>5. CASE pc' = "object"
    <3>1. NextOfSlice \/ NextOfList \/ ListAnswers
      BY <1>7, <2>1, <2>5 DEF NextFails, ListFails, Ends, vars
    <3>2. object < object' /\ Keys(0, object') = Keys(0, object) \cup {object'}
          /\ object' \in Keys(0, Len(given))
      BY <2>5, <3>1, Yielded
    <3>3. \A x \in Keys(0, object) : x < object'
      BY <1>6, <3>2 DEF Keys
    <3>4. Before(Sent, Collected \cup {object'}) /\ Before(Collected, {object'})
      BY <2>4, <3>3 DEF Before
    <3> QED
      BY <1>5, <2>1, <2>2, <2>3, <2>4, <2>5, <3>2, <3>4
  <2>6. CASE pc' # "object"
    BY <1>2, <1>5, <2>1, <2>2, <2>3, <2>4, <2>6
  <2> QED
    BY <2>5, <2>6
<1>8. CASE pc \notin {"next", "list"}
  <2>1. object' = object
    BY <1>8, Elsewhere
  <2>2. CASE Queue
    <3>1. /\ carried = <<>> /\ Collected = ToSet(batch) /\ Collected' = ToSet(batch')
          /\ InHand = {object} /\ InHand' = {} /\ sent' = sent /\ object \in N
      BY <2>2 DEF Queue, ControlInv, Collected, InHand, Keys, outcome
    <3>2. CASE hasParity(batch, object)
      <4>1. batch' = Append(batch, object) /\ carried' = <<>>
        BY <2>2, <3>2 DEF Queue
      <4>2. ToSet(batch') = ToSet(batch) \cup {object}
        BY <1>6, <3>1, <4>1, AppendFacts
      <4>3. InOrder(batch')
        BY <1>2, <1>5, <1>6, <3>1, <4>1, OrderFacts DEF Before
      <4>4. Before(Sent, Collected \cup {object})
        BY <1>2, <1>5, <3>1
      <4> QED
        BY <1>2, <1>4, <1>5, <2>1, <3>1, <4>1, <4>2, <4>3, <4>4 DEF Before
    <3>3. CASE ~hasParity(batch, object)
      <4>1. batch' = batch /\ carried' = <<object>>
        BY <2>2, <3>3 DEF Queue
      <4> QED
        BY <1>2, <1>4, <1>5, <2>1, <3>1, <4>1
    <3> QED
      BY <3>2, <3>3
  <2>3. ASSUME NEW failed, Answered(failed), pc = "delete"
        PROVE  /\ Sent' \cup Collected' \cup ToSet(carried') \cup InHand' = Keys(0, object')
               /\ InRequests' /\ InOrder(batch')
               /\ Before(Sent', Collected' \cup ToSet(carried') \cup InHand')
               /\ Before(Collected', ToSet(carried') \cup InHand')
    <3>1. /\ Collected = ToSet(batch) /\ Collected' = {} /\ InHand = {} /\ InHand' = {}
          /\ batch' = batch /\ carried' = carried /\ sent' = Append(sent, batch)
      BY <2>3 DEF Answered, Collected, InHand
    <3>2. Before(Sent, ToSet(batch)) /\ Before(Sent, ToSet(carried))
          /\ Before(ToSet(batch), ToSet(carried))
      BY <1>2, <3>1 DEF Before
    <3>3. Sent' = Sent \cup ToSet(batch) /\ InRequests'
      BY <1>1, <1>2, <1>6, <3>1, <3>2, SendKeepsOrder DEF InRequests
    <3> QED
      BY <1>2, <2>1, <3>1, <3>2, <3>3 DEF Before
  <2>4. CASE DeleteAnswers
    BY <2>3, <2>4 DEF DeleteAnswers
  <2>5. CASE DeleteFails
    BY <2>3, <2>5 DEF DeleteFails
  <2>6. ASSUME NEW ok \in BOOLEAN, AfterRuns(ok)
        PROVE  /\ Sent' \cup Collected' \cup ToSet(carried') \cup InHand' = Keys(0, object')
               /\ InRequests' /\ InOrder(batch')
               /\ Before(Sent', Collected' \cup ToSet(carried') \cup InHand')
               /\ Before(Collected', ToSet(carried') \cup InHand')
    <3>1. /\ batch' = batch /\ carried' = carried /\ sent' = sent /\ Collected' = Collected
          /\ InHand' = InHand
      BY <2>1, <2>6 DEF AfterRuns, Collected, InHand
    <3> QED
      BY <1>2, <1>4, <2>1, <3>1
  <2>7. CASE NextBatch
    <3>1. /\ Collected = {} /\ Collected' = ToSet(carried) /\ InHand = {} /\ InHand' = {}
          /\ batch' = carried /\ carried' = <<>> /\ sent' = sent
          /\ carried = <<>> \/ carried = <<object>>
      BY <2>7 DEF NextBatch, Collected, InHand, ControlInv, outcome
    <3> QED
      BY <1>2, <1>4, <1>5, <2>1, <3>1 DEF Before
  <2>8. CASE End
    <3>1. /\ Collected = ToSet(batch) /\ Collected' = ToSet(batch) /\ InHand = {} /\ InHand' = {}
          /\ batch' = batch /\ carried' = carried /\ sent' = sent
      BY <2>8 DEF End, Collected, InHand
    <3> QED
      BY <1>2, <1>4, <2>1, <3>1
  <2>9. ASSUME NEW ok \in BOOLEAN, Transfer(ok)
        PROVE  /\ Sent' \cup Collected' \cup ToSet(carried') \cup InHand' = Keys(0, object')
               /\ InRequests' /\ InOrder(batch')
               /\ Before(Sent', Collected' \cup ToSet(carried') \cup InHand')
               /\ Before(Collected', ToSet(carried') \cup InHand')
    <3>1. /\ batch = <<>> /\ carried = <<>> /\ batch' = <<>> /\ carried' = <<>>
          /\ Collected = ToSet(<<>>) /\ Collected' = {} /\ InHand = {object} /\ InHand' = {}
          /\ sent' = Append(sent, <<object>>) /\ object \in N
      BY <2>9 DEF Transfer, Collected, InHand, ControlInv, Keys
    <3>2. Before(Sent, ToSet(<<object>>)) /\ <<object>> \in Seq(N)
      <4>1. Before(Sent, {object})
        BY <1>2, <1>5, <3>1 DEF Before
      <4>2. <<object>> \in Seq(N)
        BY <3>1
      <4> QED
        BY <1>5, <4>1, <4>2
    <3>3. Sent' = Sent \cup {object} /\ InRequests'
      BY <1>1, <1>2, <1>5, <3>1, <3>2, SendKeepsOrder DEF InRequests
    <3> QED
      BY <1>2, <1>5, <2>1, <3>1, <3>3 DEF Before
  <2>10. CASE UNCHANGED vars
    <3>1. /\ batch' = batch /\ carried' = carried /\ sent' = sent /\ Collected' = Collected
          /\ InHand' = InHand
      BY <2>10 DEF vars, outcome, Collected, InHand
    <3> QED
      BY <1>2, <1>4, <2>1, <3>1
  <2>11. ~(NextOfSlice \/ NextFails \/ NextOfList \/ ListAnswers \/ ListFails)
    BY <1>8 DEF NextOfSlice, NextFails, NextOfList, ListAnswers, ListFails
  <2> QED
    BY <2>2, <2>4, <2>5, <2>6, <2>7, <2>8, <2>9, <2>10, <2>11 DEF Next
<1> QED
  BY <1>7, <1>8

-----------------------------------------------------------------------------
(* The After functions, and the errors. *)

LEMMA NextAfter ==
    ASSUME TypeOK, ControlInv, OrderInv, AfterInv, [Next]_vars
    PROVE  AfterInv'
<1> DEFINE N == 1..Len(given)
<1>1. /\ InOrder(ran) /\ InOrder(pending) /\ ToSet(ran) \cup ToSet(pending) = Sent
      /\ Before(ToSet(ran), ToSet(pending))
  BY DEF AfterInv
<1>2. SUFFICES /\ InOrder(ran') /\ InOrder(pending') /\ ToSet(ran') \cup ToSet(pending') = Sent'
               /\ Before(ToSet(ran'), ToSet(pending'))
  BY DEF AfterInv, InOrder, Before, ToSet
<1>3. /\ ToSet(<<>>) = {} /\ InOrder(<<>>)
      /\ ToSet(<<object>>) = {object} /\ InOrder(<<object>>)
  BY SmallFacts
<1>4. ASSUME ran' = ran, pending' = pending, sent' = sent
      PROVE  /\ InOrder(ran') /\ InOrder(pending') /\ ToSet(ran') \cup ToSet(pending') = Sent'
             /\ Before(ToSet(ran'), ToSet(pending'))
  BY <1>1, <1>4 DEF Sent
<1>5. ASSUME NEW s \in Seq(N), InOrder(s), Before(Sent, ToSet(s)), pc # "after",
             sent' = Append(sent, s), pending' = s, ran' = ran
      PROVE  /\ InOrder(ran') /\ InOrder(pending') /\ ToSet(ran') \cup ToSet(pending') = Sent'
             /\ Before(ToSet(ran'), ToSet(pending'))
  <2>1. Sent' = Sent \cup ToSet(s)
    BY <1>5, SentFacts DEF TypeOK
  <2>2. ToSet(ran) = Sent
    BY <1>1, <1>3, <1>5 DEF ControlInv
  <2> QED
    BY <1>1, <1>5, <2>1, <2>2
<1>6. CASE pc \in {"next", "list"}
  BY <1>4, <1>6, IteratorStep
<1>7. CASE Queue \/ NextBatch \/ End
  BY <1>4, <1>7 DEF Queue, NextBatch, End, outcome
<1>8. CASE DeleteAnswers \/ DeleteFails
  <2>1. /\ pc = "delete" /\ sent' = Append(sent, batch) /\ pending' = batch /\ ran' = ran
    BY <1>8 DEF DeleteAnswers, DeleteFails, Answered
  <2>2. batch \in Seq(N) /\ InOrder(batch)
    BY DEF TypeOK, OrderInv
  <2>3. Before(Sent, ToSet(batch))
    BY <2>1 DEF OrderInv, Collected, Before
  <2> QED
    BY <1>5, <2>1, <2>2, <2>3
<1>9. ASSUME NEW ok \in BOOLEAN, AfterRuns(ok)
      PROVE  /\ InOrder(ran') /\ InOrder(pending') /\ ToSet(ran') \cup ToSet(pending') = Sent'
             /\ Before(ToSet(ran'), ToSet(pending'))
  <2>1. /\ pending # <<>> /\ pending' = Tail(pending) /\ ran' = Append(ran, Head(pending))
        /\ sent' = sent
    BY <1>9 DEF AfterRuns
  <2>2. ran \in Seq(N) /\ pending \in Seq(N) /\ ran \in Seq(Nat) /\ pending \in Seq(Nat)
    BY DEF TypeOK
  <2>3. /\ Head(pending) \in N /\ ToSet(pending) = {Head(pending)} \cup ToSet(pending')
    BY <2>1, <2>2, TailFacts
  <2>4. ToSet(ran') = ToSet(ran) \cup {Head(pending)}
    BY <2>1, <2>2, <2>3, AppendFacts
  <2>5. InOrder(pending') /\ \A y \in ToSet(pending') : Head(pending) < y
    BY <1>1, <2>1, <2>2, OrderFacts
  <2>6. \A y \in ToSet(ran) : y < Head(pending)
    BY <1>1, <2>3 DEF Before
  <2>7. InOrder(ran')
    BY <1>1, <2>1, <2>2, <2>3, <2>6, OrderFacts
  <2>8. Sent' = Sent
    BY <2>1 DEF Sent
  <2> QED
    BY <1>1, <2>3, <2>4, <2>5, <2>7, <2>8 DEF Before
<1>10. ASSUME NEW ok \in BOOLEAN, Transfer(ok)
       PROVE  /\ InOrder(ran') /\ InOrder(pending') /\ ToSet(ran') \cup ToSet(pending') = Sent'
              /\ Before(ToSet(ran'), ToSet(pending'))
  <2>1. /\ pc = "object" /\ sent' = Append(sent, <<object>>) /\ pending' = <<object>>
        /\ ran' = ran /\ object \in N
    BY <1>10 DEF Transfer, ControlInv, Keys
  <2>2. <<object>> \in Seq(N)
    BY <2>1
  <2>3. Before(Sent, {object})
    BY <2>1 DEF OrderInv, InHand, Before
  <2> QED
    BY <1>3, <1>5, <2>1, <2>2, <2>3
<1>11. CASE UNCHANGED vars
  BY <1>4, <1>11 DEF vars, outcome
<1>12. pc \notin {"next", "list"}
         => ~(NextOfSlice \/ NextFails \/ NextOfList \/ ListAnswers \/ ListFails)
  BY DEF NextOfSlice, NextFails, NextOfList, ListAnswers, ListFails
<1> QED
  BY <1>6, <1>7, <1>8, <1>9, <1>10, <1>11, <1>12 DEF Next

LEMMA NextError ==
    ASSUME TypeOK, ControlInv, OrderInv, AfterInv, ErrorInv, [Next]_vars
    PROVE  ErrorInv'
<1> DEFINE N == 1..Len(given)
<1>1. given' = given /\ op' = op /\ Errors' = Errors
  BY NextAsked
<1>2. /\ done \subseteq Sent /\ Sent \subseteq done \cup Reported("request")
      /\ Reported("request") \subseteq Sent
      /\ Reported("after") = afterFailed /\ afterFailed \subseteq ToSet(ran)
      /\ Reported("iterator") = (IF ended /\ iterErr /\ op = "delete" THEN {0} ELSE {})
      /\ \A e \in Errors : errs[e] <= 1
  BY DEF ErrorInv
<1>3. /\ errs \in [Errors -> Nat] /\ Len(given) \in Nat /\ N \subseteq 0..Len(given)
      /\ \A s \in Seq(N) : ToSet(s) \subseteq N
  BY DEF TypeOK, ToSet
<1>4. SUFFICES /\ done' \subseteq Sent' /\ Sent' \subseteq done' \cup Reported("request")'
               /\ Reported("request")' \subseteq Sent'
               /\ Reported("after")' = afterFailed' /\ afterFailed' \subseteq ToSet(ran')
               /\ Reported("iterator")' = (IF ended' /\ iterErr' /\ op' = "delete" THEN {0} ELSE {})
               /\ \A e \in Errors : errs'[e] <= 1
  BY <1>1 DEF ErrorInv, ToSet
<1>5. ASSUME errs' = errs
      PROVE  /\ \A c \in Causes : Reported(c)' = Reported(c)
             /\ \A e \in Errors : errs'[e] <= 1
  BY <1>1, <1>2, <1>5 DEF Reported
<1>6. ASSUME NEW objects \in SUBSET (0..Len(given)), NEW cause \in Causes, Fails(objects, cause),
             Reported(cause) \cap objects = {}
      PROVE  /\ Reported(cause)' = Reported(cause) \cup objects
             /\ \A c \in Causes \ {cause} : Reported(c)' = Reported(c)
             /\ \A e \in Errors : errs'[e] <= 1
  BY <1>1, <1>2, <1>3, <1>6, FailsFacts
<1>7. "request" \in Causes /\ "after" \in Causes /\ "iterator" \in Causes
  BY DEF Causes
<1>8. ASSUME sent' = sent PROVE Sent' = Sent
  BY <1>8 DEF Sent
<1>9. CASE pc \in {"next", "list"}
  <2>1. /\ ended' = ended /\ ~ended /\ errs' = errs /\ sent' = sent /\ ran' = ran
        /\ done' = done /\ afterFailed' = afterFailed
    BY <1>9, IteratorStep
  <2> QED
    BY <1>2, <1>5, <1>7, <1>8, <2>1
<1>10. CASE pc \notin {"next", "list"}
  <2>1. iterErr' = iterErr
    BY <1>10, Elsewhere
  <2>2. CASE Queue \/ NextBatch
    <3>1. /\ ended' = ended /\ errs' = errs /\ sent' = sent /\ ran' = ran
          /\ done' = done /\ afterFailed' = afterFailed
      BY <2>2 DEF Queue, NextBatch, outcome
    <3> QED
      BY <1>1, <1>2, <1>5, <1>7, <1>8, <2>1, <3>1
  <2>3. CASE End
    <3>1. /\ ended' = TRUE /\ ~ended /\ sent' = sent /\ ran' = ran
          /\ done' = done /\ afterFailed' = afterFailed /\ pc = "end"
      BY <2>3 DEF End, ControlInv
    <3>2. CASE iterErr /\ op = "delete"
      <4>1. Fails({0}, "iterator") /\ Reported("iterator") = {} /\ {0} \in SUBSET (0..Len(given))
        BY <1>2, <1>3, <2>3, <3>1, <3>2 DEF End
      <4> QED
        BY <1>1, <1>2, <1>6, <1>7, <1>8, <2>1, <3>1, <3>2, <4>1 DEF Causes
    <3>3. CASE ~(iterErr /\ op = "delete")
      BY <1>1, <1>2, <1>5, <1>7, <1>8, <2>1, <2>3, <3>1, <3>3 DEF End
    <3> QED
      BY <3>2, <3>3
  <2>4. ASSUME NEW failed \in SUBSET ToSet(batch), Answered(failed), pc = "delete",
               done' \subseteq done \cup ToSet(batch), done \subseteq done',
               ToSet(batch) \subseteq done' \cup failed
        PROVE  /\ done' \subseteq Sent' /\ Sent' \subseteq done' \cup Reported("request")'
               /\ Reported("request")' \subseteq Sent'
               /\ Reported("after")' = afterFailed' /\ afterFailed' \subseteq ToSet(ran')
               /\ Reported("iterator")' = (IF ended' /\ iterErr' /\ op' = "delete" THEN {0} ELSE {})
               /\ \A e \in Errors : errs'[e] <= 1
    <3>1. /\ sent' = Append(sent, batch) /\ Fails(failed, "request") /\ ended' = ended
          /\ ran' = ran /\ afterFailed' = afterFailed
      BY <2>4 DEF Answered
    <3>2. batch \in Seq(N) /\ ToSet(batch) \subseteq N
      BY <1>3 DEF TypeOK
    <3>3. Sent' = Sent \cup ToSet(batch)
      BY <3>1, <3>2, SentFacts DEF TypeOK
    <3>4. Sent \cap ToSet(batch) = {} /\ failed \in SUBSET (0..Len(given))
      <4>1. Before(Sent, ToSet(batch))
        BY <2>4 DEF OrderInv, Collected, Before
      <4>2. \A x \in ToSet(batch) : ~(x < x)
        BY <3>2
      <4> QED
        BY <1>3, <2>4, <3>2, <4>1, <4>2 DEF Before
    <3>5. Reported("request") \cap failed = {}
      BY <1>2, <2>4, <3>4
    <3>6. /\ Reported("request")' = Reported("request") \cup failed
          /\ Reported("after")' = Reported("after")
          /\ Reported("iterator")' = Reported("iterator")
          /\ \A e \in Errors : errs'[e] <= 1
      BY <1>6, <1>7, <3>1, <3>4, <3>5 DEF Causes
    <3> QED
      BY <1>1, <1>2, <2>1, <2>4, <3>1, <3>3, <3>6
  <2>5. CASE DeleteAnswers
    BY <2>4, <2>5 DEF DeleteAnswers
  <2>6. CASE DeleteFails
    BY <2>4, <2>6 DEF DeleteFails
  <2>7. ASSUME NEW ok \in BOOLEAN, AfterRuns(ok)
        PROVE  /\ done' \subseteq Sent' /\ Sent' \subseteq done' \cup Reported("request")'
               /\ Reported("request")' \subseteq Sent'
               /\ Reported("after")' = afterFailed' /\ afterFailed' \subseteq ToSet(ran')
               /\ Reported("iterator")' = (IF ended' /\ iterErr' /\ op' = "delete" THEN {0} ELSE {})
               /\ \A e \in Errors : errs'[e] <= 1
    <3>1. /\ pending # <<>> /\ ran' = Append(ran, Head(pending)) /\ ended' = ended
          /\ sent' = sent /\ done' = done
      BY <2>7 DEF AfterRuns
    <3>2. Head(pending) \in N /\ Head(pending) \in ToSet(pending)
      BY <3>1, TailFacts DEF TypeOK
    <3>3. ToSet(ran') = ToSet(ran) \cup {Head(pending)}
      BY <3>1, <3>2, AppendFacts DEF TypeOK
    <3>4. CASE ok
      BY <1>1, <1>2, <1>5, <1>7, <1>8, <2>1, <2>7, <3>1, <3>3, <3>4 DEF AfterRuns
    <3>5. CASE ~ok
      <4>1. Fails({Head(pending)}, "after") /\ afterFailed' = afterFailed \cup {Head(pending)}
        BY <2>7, <3>5 DEF AfterRuns
      <4>2. Head(pending) \notin ToSet(ran)
        BY <3>2 DEF AfterInv, Before
      <4>3. Reported("after") \cap {Head(pending)} = {} /\ {Head(pending)} \in SUBSET (0..Len(given))
        BY <1>2, <1>3, <3>2, <4>2
      <4>4. /\ Reported("after")' = Reported("after") \cup {Head(pending)}
            /\ Reported("request")' = Reported("request")
            /\ Reported("iterator")' = Reported("iterator")
            /\ \A e \in Errors : errs'[e] <= 1
        BY <1>6, <1>7, <4>1, <4>3 DEF Causes
      <4> QED
        BY <1>1, <1>2, <1>8, <2>1, <3>1, <3>3, <4>1, <4>4
    <3> QED
      BY <3>4, <3>5
  <2>8. ASSUME NEW ok \in BOOLEAN, Transfer(ok)
        PROVE  /\ done' \subseteq Sent' /\ Sent' \subseteq done' \cup Reported("request")'
               /\ Reported("request")' \subseteq Sent'
               /\ Reported("after")' = afterFailed' /\ afterFailed' \subseteq ToSet(ran')
               /\ Reported("iterator")' = (IF ended' /\ iterErr' /\ op' = "delete" THEN {0} ELSE {})
               /\ \A e \in Errors : errs'[e] <= 1
    <3>1. /\ sent' = Append(sent, <<object>>) /\ ended' = ended /\ pc = "object"
          /\ ran' = ran /\ afterFailed' = afterFailed /\ object \in N
      BY <2>8 DEF Transfer, ControlInv, Keys
    <3>2. <<object>> \in Seq(N) /\ ToSet(<<object>>) = {object}
      BY <3>1, SmallFacts
    <3>3. Sent' = Sent \cup {object}
      BY <3>1, <3>2, SentFacts DEF TypeOK
    <3>4. object \notin Sent
      BY <3>1 DEF OrderInv, InHand, Before
    <3>5. CASE ok
      BY <1>1, <1>2, <1>5, <1>7, <2>1, <2>8, <3>1, <3>3, <3>5 DEF Transfer
    <3>6. CASE ~ok
      <4>1. Fails({object}, "request") /\ done' = done
        BY <2>8, <3>6 DEF Transfer
      <4>2. Reported("request") \cap {object} = {} /\ {object} \in SUBSET (0..Len(given))
        BY <1>2, <1>3, <3>1, <3>4
      <4>3. /\ Reported("request")' = Reported("request") \cup {object}
            /\ Reported("after")' = Reported("after")
            /\ Reported("iterator")' = Reported("iterator")
            /\ \A e \in Errors : errs'[e] <= 1
        BY <1>6, <1>7, <4>1, <4>2 DEF Causes
      <4> QED
        BY <1>1, <1>2, <2>1, <3>1, <3>3, <4>1, <4>3
    <3> QED
      BY <3>5, <3>6
  <2>9. CASE UNCHANGED vars
    <3>1. /\ ended' = ended /\ errs' = errs /\ sent' = sent /\ ran' = ran
          /\ done' = done /\ afterFailed' = afterFailed
      BY <2>9 DEF vars, outcome
    <3> QED
      BY <1>1, <1>2, <1>5, <1>7, <1>8, <2>1, <3>1
  <2>10. ~(NextOfSlice \/ NextFails \/ NextOfList \/ ListAnswers \/ ListFails)
    BY <1>10 DEF NextOfSlice, NextFails, NextOfList, ListAnswers, ListFails
  <2> QED
    BY <2>2, <2>3, <2>5, <2>6, <2>7, <2>8, <2>9, <2>10 DEF Next
<1> QED
  BY <1>9, <1>10

-----------------------------------------------------------------------------
(* What a batch holds, and when it is sent. *)

\* BatchesFit, with a name for the request that follows.
LEMMA FitFacts ==
    ASSUME sent \in Seq(Seq(1..Len(given)))
    PROVE  BatchesFit <=>
             /\ \A i \in DOMAIN sent :
                  /\ \A x \in ToSet(sent[i]) : given[x] = given[Head(sent[i])]
                  /\ batchSize > 0 => Len(sent[i]) <= batchSize
             /\ \A i, j \in DOMAIN sent :
                  op = "delete" /\ j = i + 1 /\ Len(sent[i]) # batchSize
                    => given[Head(sent[i])] # given[Head(sent[j])]
<1>1. DOMAIN sent = 1 .. Len(sent) /\ Len(sent) \in Nat
  OBVIOUS
<1>2. ASSUME BatchesFit, NEW i \in DOMAIN sent, NEW j \in DOMAIN sent,
             op = "delete" /\ j = i + 1 /\ Len(sent[i]) # batchSize
      PROVE  given[Head(sent[i])] # given[Head(sent[j])]
  <2>1. i < Len(sent)
    BY <1>1, <1>2
  <2> QED
    BY <1>2, <2>1 DEF BatchesFit
<1>3. ASSUME /\ \A i \in DOMAIN sent :
                  /\ \A x \in ToSet(sent[i]) : given[x] = given[Head(sent[i])]
                  /\ batchSize > 0 => Len(sent[i]) <= batchSize
             /\ \A i, j \in DOMAIN sent :
                  op = "delete" /\ j = i + 1 /\ Len(sent[i]) # batchSize
                    => given[Head(sent[i])] # given[Head(sent[j])]
      PROVE  BatchesFit
  <2>1. SUFFICES ASSUME NEW i \in DOMAIN sent, op = "delete", i < Len(sent),
                        Len(sent[i]) # batchSize
                 PROVE  given[Head(sent[i])] # given[Head(sent[i + 1])]
    BY <1>3 DEF BatchesFit
  <2>2. PICK j \in DOMAIN sent : j = i + 1
    BY <1>1, <2>1
  <2> QED
    BY <1>3, <2>1, <2>2
<1> QED
  BY <1>2, <1>3 DEF BatchesFit

\* A request that fits, and follows one that was full or differs from it.
LEMMA SendKeepsFit ==
    ASSUME TypeOK, BatchesFit, [Next]_vars, TypeOK',
           NEW s \in Seq(1..Len(given)), sent' = Append(sent, s),
           \A x \in ToSet(s) : given[x] = given[Head(s)],
           batchSize > 0 => Len(s) <= batchSize,
           op = "delete" /\ sent # <<>> /\ Len(sent[Len(sent)]) # batchSize
             => given[Head(s)] # given[Head(sent[Len(sent)])]
    PROVE  BatchesFit'
<1>1. op' = op /\ given' = given /\ batchSize' = batchSize
  BY NextAsked
<1>2. /\ DOMAIN sent = 1 .. Len(sent) /\ Len(sent) \in Nat
      /\ DOMAIN sent' = 1 .. Len(sent) + 1
      /\ \A i \in 1 .. Len(sent) : sent'[i] = sent[i]
      /\ sent'[Len(sent) + 1] = s
  BY SentFacts DEF TypeOK
<1>3. /\ \A i \in DOMAIN sent :
           /\ \A x \in ToSet(sent[i]) : given[x] = given[Head(sent[i])]
           /\ batchSize > 0 => Len(sent[i]) <= batchSize
      /\ \A i, j \in DOMAIN sent :
           op = "delete" /\ j = i + 1 /\ Len(sent[i]) # batchSize
             => given[Head(sent[i])] # given[Head(sent[j])]
  BY FitFacts DEF TypeOK
<1>4. \A i \in DOMAIN sent' : i \in DOMAIN sent \/ i = Len(sent) + 1
  BY <1>2
<1>5. ASSUME NEW i \in DOMAIN sent'
      PROVE  /\ \A x \in ToSet(sent'[i]) : given[x] = given[Head(sent'[i])]
             /\ batchSize > 0 => Len(sent'[i]) <= batchSize
  <2>1. CASE i \in DOMAIN sent
    BY <1>2, <1>3, <2>1
  <2>2. CASE i = Len(sent) + 1
    BY <1>2, <2>2
  <2> QED
    BY <1>4, <2>1, <2>2
<1>6. ASSUME NEW i \in DOMAIN sent', NEW j \in DOMAIN sent',
             op = "delete" /\ j = i + 1 /\ Len(sent'[i]) # batchSize
      PROVE  given[Head(sent'[i])] # given[Head(sent'[j])]
  <2>1. i \in DOMAIN sent /\ sent'[i] = sent[i]
    BY <1>2, <1>6
  <2>2. CASE j \in DOMAIN sent
    BY <1>2, <1>3, <1>6, <2>1, <2>2
  <2>3. CASE j = Len(sent) + 1
    <3>1. i = Len(sent) /\ sent # <<>> /\ sent'[j] = s
      BY <1>2, <1>6, <2>1, <2>3
    <3> QED
      BY <1>6, <2>1, <3>1
  <2> QED
    BY <1>4, <2>2, <2>3
<1>7. sent' \in Seq(Seq(1..Len(given')))
  BY DEF TypeOK
<1>8. ASSUME NEW i \in DOMAIN sent', i < Len(sent')
      PROVE  i + 1 \in DOMAIN sent'
  BY <1>2, <1>7, <1>8
<1>9. ASSUME NEW i \in DOMAIN sent', op = "delete", i < Len(sent'), Len(sent'[i]) # batchSize
      PROVE  given[Head(sent'[i])] # given[Head(sent'[i + 1])]
  <2>1. PICK j \in DOMAIN sent' : j = i + 1
    BY <1>8, <1>9
  <2> QED
    BY <1>6, <1>9, <2>1
<1> QED
  BY <1>1, <1>5, <1>9 DEF BatchesFit, ToSet

\* The last request is the one that was just sent.
LEMMA LastFacts ==
    ASSUME NEW S, sent \in Seq(Seq(S)), NEW s \in Seq(S), sent' = Append(sent, s)
    PROVE  sent' # <<>> /\ sent'[Len(sent')] = s
<1>1. Len(sent) \in Nat /\ Len(sent') = Len(sent) + 1 /\ sent'[Len(sent) + 1] = s
  BY SentFacts
<1>2. sent'[Len(sent')] = s
  BY <1>1
<1>3. sent' # <<>>
  BY AppendFacts
<1> QED
  BY <1>2, <1>3

LEMMA NextBatchInv ==
    ASSUME TypeOK, ControlInv, BatchInv, [Next]_vars, TypeOK'
    PROVE  BatchInv'
<1> DEFINE N == 1..Len(given)
           last == sent[Len(sent)]
<1>1. op' = op /\ given' = given /\ batchSize' = batchSize
  BY NextAsked
<1>2. /\ \A x \in ToSet(batch) : given[x] = given[Head(batch)]
      /\ batchSize > 0 =>
            /\ Len(batch) <= batchSize
            /\ pc \notin {"delete", "after"} => Len(batch) < batchSize
            /\ carried # <<>> => batchSize > 1
      /\ op = "delete" /\ pc \in {"delete", "after"} /\ Len(batch) # batchSize =>
            ended \/ (carried # <<>> /\ given[object] # given[Head(batch)])
      /\ pc = "after" => sent # <<>> /\ (op = "delete" => last = batch)
      /\ op = "delete" /\ sent # <<>> /\ Len(last) # batchSize =>
            \/ pc \in {"after", "returned"}
            \/ batch # <<>> /\ given[Head(batch)] # given[Head(last)]
      /\ BatchesFit
  BY DEF BatchInv
<1>3. SUFFICES
      /\ \A x \in ToSet(batch') : given[x] = given[Head(batch')]
      /\ batchSize > 0 =>
            /\ Len(batch') <= batchSize
            /\ pc' \notin {"delete", "after"} => Len(batch') < batchSize
            /\ carried' # <<>> => batchSize > 1
      /\ op = "delete" /\ pc' \in {"delete", "after"} /\ Len(batch') # batchSize =>
            ended' \/ (carried' # <<>> /\ given[object'] # given[Head(batch')])
      /\ pc' = "after" => sent' # <<>> /\ (op = "delete" => last' = batch')
      /\ op = "delete" /\ sent' # <<>> /\ Len(last') # batchSize =>
            \/ pc' \in {"after", "returned"}
            \/ batch' # <<>> /\ given[Head(batch')] # given[Head(last')]
      /\ BatchesFit'
  BY <1>1 DEF BatchInv, ToSet
<1> HIDE DEF last
<1>4. ASSUME sent' = sent PROVE BatchesFit' /\ last' = last
  BY <1>1, <1>2, <1>4 DEF BatchesFit, last, ToSet
<1>5. batch \in Seq(N) /\ Len(batch) \in Nat /\ batchSize \in Nat
  BY BatchAssumption DEF TypeOK
<1>6. CASE pc \in {"next", "list"}
  <2>1. /\ batch' = batch /\ carried' = carried /\ sent' = sent /\ ended' = ended
        /\ pc' \in {"next", "list", "object", "end"}
    BY <1>6, IteratorStep
  <2> QED
    BY <1>2, <1>4, <1>6, <2>1
<1>7. CASE Queue
  <2>1. /\ pc = "object" /\ sent' = sent /\ ended' = ended /\ object' = object /\ carried = <<>>
        /\ object \in N /\ op = "delete"
    BY <1>7 DEF Queue, ControlInv, Keys, iterator, outcome
  <2>2. CASE hasParity(batch, object)
    <3>1. /\ batch' = Append(batch, object) /\ carried' = <<>>
          /\ pc' = IF Len(batch') = batchSize THEN "delete" ELSE "next"
      BY <1>7, <2>2 DEF Queue
    <3>2. /\ Len(batch') = Len(batch) + 1 /\ batch' # <<>>
          /\ ToSet(batch') = ToSet(batch) \cup {object}
          /\ Head(batch') = IF batch = <<>> THEN object ELSE Head(batch)
      <4>1. /\ Len(Append(batch, object)) = Len(batch) + 1 /\ Append(batch, object) # <<>>
            /\ ToSet(Append(batch, object)) = ToSet(batch) \cup {object}
            /\ Head(Append(batch, object)) = IF batch = <<>> THEN object ELSE Head(batch)
        BY <1>5, <2>1, AppendFacts
      <4> QED
        BY <3>1, <4>1
    <3>3. batch = <<>> \/ given[Head(batch)] = given[object]
      BY <2>2 DEF hasParity
    <3>4. \A x \in ToSet(batch') : given[x] = given[Head(batch')]
      <4>1. CASE batch = <<>>
        BY <3>2, <4>1, SmallFacts
      <4>2. CASE batch # <<>>
        BY <1>2, <3>2, <3>3, <4>2
      <4> QED
        BY <4>1, <4>2
    <3>5. Len(last) # batchSize /\ sent # <<>> => Head(batch') = Head(batch) /\ batch # <<>>
      BY <1>2, <2>1, <3>2
    <3> QED
      BY <1>2, <1>4, <1>5, <2>1, <3>1, <3>2, <3>4, <3>5
  <2>3. CASE ~hasParity(batch, object)
    <3>1. batch' = batch /\ carried' = <<object>> /\ pc' = "delete"
      BY <1>7, <2>3 DEF Queue
    <3>2. batch # <<>> /\ given[Head(batch)] # given[object]
      BY <2>3 DEF hasParity
    <3>3. Len(batch) >= 1 /\ <<object>> # <<>>
      BY <1>5, <3>2
    <3> QED
      BY <1>2, <1>4, <1>5, <2>1, <3>1, <3>2, <3>3
  <2> QED
    BY <2>2, <2>3
<1>8. CASE DeleteAnswers \/ DeleteFails
  <2>1. /\ pc = "delete" /\ pc' = "after" /\ sent' = Append(sent, batch) /\ batch' = batch
        /\ carried' = carried /\ ended' = ended /\ object' = object
    BY <1>8 DEF DeleteAnswers, DeleteFails, Answered, iterator
  <2>2. BatchesFit'
    BY <1>2, <1>5, <2>1, SendKeepsFit DEF last
  <2>3. sent' # <<>> /\ last' = batch
    BY <1>5, <2>1, LastFacts DEF TypeOK, last
  <2> QED
    BY <1>2, <2>1, <2>2, <2>3
<1>9. ASSUME NEW ok \in BOOLEAN, AfterRuns(ok)
      PROVE  /\ batch' = batch /\ carried' = carried /\ ended' = ended /\ object' = object
             /\ sent' = sent /\ pc' = pc
  BY <1>9 DEF AfterRuns, iterator
<1>10. CASE NextBatch
  <2>1. /\ pc = "after" /\ batch' = carried /\ carried' = <<>> /\ sent' = sent
        /\ ended' = ended /\ object' = object
        /\ pc' = IF ended THEN "returned" ELSE "next"
    BY <1>10 DEF NextBatch, outcome, iterator
  <2>2. carried = <<>> \/ carried = <<object>>
    BY DEF ControlInv
  <2>3. /\ ToSet(<<>>) = {} /\ ToSet(<<object>>) = {object} /\ Head(<<object>>) = object
        /\ Len(<<>>) = 0 /\ Len(<<object>>) = 1 /\ <<object>> # <<>>
    BY SmallFacts
  <2>4. CASE carried = <<>>
    BY <1>2, <1>4, <1>5, <2>1, <2>3, <2>4
  <2>5. CASE carried = <<object>>
    <3>1. op = "delete" /\ sent # <<>> /\ Len(last) # batchSize =>
            ended \/ given[object] # given[Head(last)]
      BY <1>2, <2>1
    <3>2. batchSize > 0 => Len(batch') < batchSize
      BY <1>2, <1>5, <2>1, <2>3, <2>5
    <3>3. \A x \in ToSet(batch') : given[x] = given[Head(batch')]
      BY <2>1, <2>3, <2>5
    <3> QED
      BY <1>4, <1>5, <2>1, <2>3, <2>5, <3>1, <3>2, <3>3
  <2> QED
    BY <2>2, <2>4, <2>5
<1>11. CASE End
  <2>1. /\ pc = "end" /\ ended' = TRUE /\ batch' = batch /\ carried' = carried /\ sent' = sent
        /\ object' = object
        /\ pc' = IF batch # <<>> THEN "delete" ELSE "returned"
    BY <1>11 DEF End, iterator
  <2> QED
    BY <1>2, <1>4, <1>5, <2>1
<1>12. ASSUME NEW ok \in BOOLEAN, Transfer(ok)
       PROVE  /\ batch' = batch /\ carried' = carried /\ batch = <<>> /\ carried = <<>>
              /\ op = "transfer" /\ sent' # <<>> /\ BatchesFit' /\ pc' = "after"
  <2>1. /\ batch' = batch /\ carried' = carried /\ batch = <<>> /\ carried = <<>>
        /\ op = "transfer" /\ sent' = Append(sent, <<object>>) /\ object \in N /\ pc' = "after"
    BY <1>12 DEF Transfer, ControlInv, Keys
  <2>2. <<object>> \in Seq(N) /\ Len(<<object>>) = 1 /\ Head(<<object>>) = object
        /\ ToSet(<<object>>) = {object}
    BY <2>1, SmallFacts
  <2>3. sent' # <<>>
    BY <2>1, <2>2, LastFacts DEF TypeOK
  <2>4. BatchesFit'
    <3>1. \A x \in ToSet(<<object>>) : given[x] = given[Head(<<object>>)]
      BY <2>2
    <3>2. batchSize > 0 => Len(<<object>>) <= batchSize
      BY <1>5, <2>2
    <3>3. op # "delete"
      BY <2>1
    <3> QED
      BY <1>2, <2>1, <2>2, <3>1, <3>2, <3>3, SendKeepsFit
  <2> QED
    BY <2>1, <2>3, <2>4
<1>13. CASE UNCHANGED vars
  BY <1>2, <1>4, <1>13 DEF vars, outcome, iterator
<1>14. pc \notin {"next", "list"}
         => ~(NextOfSlice \/ NextFails \/ NextOfList \/ ListAnswers \/ ListFails)
  BY DEF NextOfSlice, NextFails, NextOfList, ListAnswers, ListFails
<1>15. CASE \E ok \in BOOLEAN : AfterRuns(ok)
  BY <1>2, <1>4, <1>9, <1>15
<1>16. CASE \E ok \in BOOLEAN : Transfer(ok)
  <2>1. ToSet(<<>>) = {} /\ Len(<<>>) = 0
    BY SmallFacts
  <2> QED
    BY <1>5, <1>12, <1>16, <2>1
<1> QED
  BY <1>6, <1>7, <1>8, <1>10, <1>11, <1>13, <1>14, <1>15, <1>16 DEF Next

-----------------------------------------------------------------------------
(* The theorems. *)

LEMMA InitIInv == Init => IInv
<1> SUFFICES ASSUME Init PROVE IInv
  OBVIOUS
<1> DEFINE N == 1..Len(given)
<1>1. given \in Seq(Classes) /\ Len(given) \in Nat
  <2>1. PICK n \in 0..MaxGiven : given \in [1..n -> Classes]
    BY DEF Init, SeqOf
  <2> QED
    BY <2>1, BatchAssumption
<1>2. /\ sent = <<>> /\ batch = <<>> /\ carried = <<>> /\ pending = <<>> /\ ran = <<>>
      /\ done = {} /\ afterFailed = {} /\ contents = {}
      /\ pc = "next" /\ ended = FALSE /\ iterErr = FALSE /\ started = FALSE /\ inc = FALSE
      /\ object = 0 /\ index = 0 /\ nextToken = 0
      /\ prefixes \subseteq N /\ (iter # "list" => prefixes = {}) /\ (iter = "list" => op = "delete")
  BY DEF Init
<1>3. ToSet(<<>>) = {} /\ InOrder(<<>>)
  BY SmallFacts
<1>4. Sent = {}
  BY <1>2 DEF Sent
<1>5. errs \in [Errors -> Nat] /\ \A e \in Errors : errs[e] = 0
  BY DEF Init
<1>6. \A c \in Causes : Reported(c) = {}
  BY <1>5 DEF Reported, Errors
<1>7. Keys(0, 0) = {}
  BY KeysFacts
<1>8. TypeOK
  <2>1. <<>> \in Seq(N) /\ <<>> \in Seq(Seq(N)) /\ 0 \in 0..Len(given)
    BY <1>1
  <2>2. op \in {"delete", "transfer"} /\ iter \in {"objects", "list", "own"}
        /\ batchSize \in BatchSizes
    BY DEF Init
  <2> QED
    BY <1>1, <1>2, <1>5, <2>1, <2>2 DEF TypeOK
<1>9. ControlInv
  BY <1>2 DEF ControlInv
<1>10. IteratorInv
  <2>1. PageEnd = 0 /\ ~AtEnd /\ object \notin prefixes
    BY <1>2 DEF PageEnd, AtEnd
  <2> QED
    BY <1>2, <1>7, <2>1 DEF IteratorInv
<1>11. OrderInv
  <2>1. Collected = {} /\ InHand = {}
    BY <1>2, <1>3 DEF Collected, InHand
  <2>2. DOMAIN sent = {}
    BY <1>2
  <2> QED
    BY <1>2, <1>3, <1>4, <1>7, <2>1, <2>2 DEF OrderInv, Before
<1>12. AfterInv
  BY <1>2, <1>3, <1>4 DEF AfterInv, Before
<1>13. ErrorInv
  BY <1>2, <1>4, <1>5, <1>6 DEF ErrorInv, Causes
<1>14. BatchInv
  <2>1. BatchesFit
    BY <1>2 DEF BatchesFit
  <2>2. batchSize \in Nat /\ Len(<<>>) = 0
    BY <1>8, BatchAssumption DEF TypeOK
  <2> QED
    BY <1>2, <1>3, <2>1, <2>2 DEF BatchInv
<1> QED
  BY <1>8, <1>9, <1>10, <1>11, <1>12, <1>13, <1>14 DEF IInv

LEMMA NextIInv == IInv /\ [Next]_vars => IInv'
<1> SUFFICES ASSUME IInv, [Next]_vars PROVE IInv'
  OBVIOUS
<1>1. /\ TypeOK /\ ControlInv /\ IteratorInv /\ OrderInv /\ AfterInv /\ ErrorInv /\ BatchInv
  BY DEF IInv
<1>2. TypeOK'
  BY <1>1, NextType
<1> QED
  BY <1>1, <1>2, NextControl, NextIterator, NextOrder, NextAfter, NextError, NextBatchInv DEF IInv

\* The inductive invariant of a batch operation.
THEOREM BatchInvariant == Spec => []IInv
BY InitIInv, NextIInv, PTL DEF Spec

\* Every variable keeps its type, and an operation never asks a slice for an
\* object beyond its end (batch.go 281-300).
THEOREM BatchTypeCorrect == Spec => []TypeOK
<1>1. IInv => TypeOK
  BY DEF IInv
<1> QED
  BY <1>1, BatchInvariant, PTL

\* No object the iterator yields is left out or sent twice, also the one that
\* ended a batch (batch.go 325-346).
THEOREM NoneDropped == Spec => []EachSentOnce
<1>1. IInv => EachSentOnce
  <2> SUFFICES ASSUME IInv PROVE EachSentOnce
    OBVIOUS
  <2>1. /\ Sent \cup Collected \cup ToSet(carried) \cup InHand = Keys(0, object)
        /\ \A i \in DOMAIN sent :
              /\ InOrder(sent[i])
              /\ \A j \in DOMAIN sent : i < j => Before(ToSet(sent[i]), ToSet(sent[j]))
        /\ InOrder(batch)
        /\ Before(Sent, Collected \cup ToSet(carried) \cup InHand)
        /\ Before(Collected, ToSet(carried) \cup InHand)
    BY DEF IInv, OrderInv
  <2>2. /\ carried = <<>> \/ carried = <<object>>
        /\ pc = "object" => carried = <<>>
        /\ pc = "returned" => batch = <<>> /\ carried = <<>>
        /\ batch \in Seq(Nat) /\ carried \in Seq(Nat) /\ object \in Nat
    BY DEF IInv, ControlInv, TypeOK
  <2>3. /\ ToSet(<<>>) = {} /\ InOrder(<<>>)
        /\ ToSet(<<object>>) = {object} /\ InOrder(<<object>>)
    BY SmallFacts
  <2> DEFINE head == IF pc = "after" THEN <<>> ELSE batch
             tail == IF pc = "object" THEN <<object>> ELSE carried
  <2>4. Waiting = head \o tail /\ head \in Seq(Nat) /\ tail \in {<<>>, <<object>>}
    <3>1. head \in Seq(Nat) /\ <<object>> \in Seq(Nat)
      BY <2>2
    <3>2. head \o <<>> = head
      BY <3>1
    <3>3. CASE pc = "object"
      BY <2>2, <3>2, <3>3 DEF Waiting
    <3>4. CASE pc # "object"
      <4>1. head \o carried \in Seq(Nat)
        <5> HIDE DEF head
        <5> QED
          BY <2>2, <3>1
      <4>2. (head \o carried) \o <<>> = head \o carried
        BY <4>1
      <4> QED
        BY <2>2, <3>1, <3>4, <4>2 DEF Waiting
    <3> QED
      BY <3>3, <3>4
  <2>5. ToSet(head) = Collected /\ InOrder(head)
    BY <2>1, <2>3 DEF Collected
  <2>6. ToSet(tail) = ToSet(carried) \cup InHand
    BY <2>2, <2>3 DEF InHand
  <2>7. pc = "returned" => head = <<>> /\ tail = <<>>
    BY <2>2
  <2> HIDE DEF head, tail
  <2>8. ToSet(Waiting) = Collected \cup ToSet(carried) \cup InHand /\ InOrder(Waiting)
    <3>1. CASE tail = <<>>
      BY <2>3, <2>4, <2>5, <2>6, <3>1
    <3>2. CASE tail = <<object>>
      <4>1. Waiting = Append(head, object)
        BY <2>2, <2>4, <3>2
      <4>2. ToSet(Waiting) = ToSet(head) \cup {object}
        BY <2>2, <2>4, <4>1, AppendFacts
      <4>3. \A y \in ToSet(head) : y < object
        BY <2>1, <2>3, <2>5, <2>6, <3>2 DEF Before
      <4>4. InOrder(Waiting)
        BY <2>2, <2>4, <2>5, <4>1, <4>3, OrderFacts
      <4> QED
        BY <2>3, <2>5, <2>6, <3>2, <4>2, <4>4
    <3> QED
      BY <2>4, <3>1, <3>2
  <2>9. pc = "returned" => Waiting = <<>>
    BY <2>4, <2>7
  <2> QED
    BY <2>1, <2>8, <2>9 DEF EachSentOnce
<1> QED
  BY <1>1, BatchInvariant, PTL

\* A request names one bucket, payer and MFA, those of each of its objects, and
\* is filled up unless the next object differs (batch.go 325-342, 411-437).
THEOREM RequestsFit == Spec => []BatchesFit
<1>1. IInv => BatchesFit
  BY DEF IInv, BatchInv
<1> QED
  BY <1>1, BatchInvariant, PTL

\* What is returned names each object that failed, once for each failure, and
\* an object that is not named was done (batch.go 344-359, 378-408).
THEOREM ErrorsComplete == Spec => []FailuresReported
<1>1. IInv => FailuresReported
  <2> SUFFICES ASSUME IInv, pc = "returned"
               PROVE  /\ Sent \subseteq done \cup Reported("request")
                      /\ Reported("after") = afterFailed
                      /\ iterErr /\ op = "delete" => Reported("iterator") # {}
                      /\ \A e \in Errors : errs[e] <= 1
    BY DEF FailuresReported
  <2> QED
    BY DEF IInv, ControlInv, ErrorInv
<1> QED
  BY <1>1, BatchInvariant, PTL

\* The After function of an object runs once, after its request and in order,
\* whatever became of the request and of the After functions before it
\* (batch.go 400-408).
THEOREM AfterOnce == Spec => []AfterRunsOnce
<1>1. IInv => AfterRunsOnce
  <2> SUFFICES ASSUME IInv PROVE AfterRunsOnce
    OBVIOUS
  <2>1. /\ InOrder(ran) /\ ToSet(ran) \cup ToSet(pending) = Sent
        /\ Before(ToSet(ran), ToSet(pending))
    BY DEF IInv, AfterInv
  <2>2. pc # "after" => pending = <<>>
    BY DEF IInv, ControlInv
  <2>3. ToSet(<<>>) = {}
    BY SmallFacts
  <2>4. Before(ToSet(ran), Sent \ ToSet(ran))
    BY <2>1 DEF Before
  <2> QED
    BY <2>1, <2>2, <2>3, <2>4 DEF AfterRunsOnce
<1> QED
  BY <1>1, BatchInvariant, PTL

\* A delete that returns no error has deleted everything, when the listing
\* behind it came to its last page (batch.go 169-194, 344-359).
THEOREM NilIsAll == Spec => []NilMeansAll
<1>1. IInv => NilMeansAll
  <2> SUFFICES ASSUME IInv, pc = "returned", op = "delete", nextToken = 0,
                      \A e \in Errors : errs[e] = 0
               PROVE  done = (1..Len(given)) \ prefixes
    BY DEF NilMeansAll
  <2>1. /\ ended /\ batch = <<>> /\ carried = <<>>
    BY DEF IInv, ControlInv
  <2>2. Reported("request") = {} /\ Reported("iterator") = {}
    BY DEF Reported, Errors, Causes
  <2>3. ~iterErr /\ done = Sent
    BY <2>1, <2>2 DEF IInv, ErrorInv
  <2>4. Sent = Keys(0, object)
    <3>1. Collected = {} /\ InHand = {} /\ ToSet(carried) = {}
      BY <2>1, SmallFacts DEF Collected, InHand
    <3> QED
      BY <3>1 DEF IInv, OrderInv
  <2>5. Keys(0, object) = Keys(0, Len(given))
    BY <2>1, <2>3 DEF IInv, IteratorInv, AtEnd, PageEnd
  <2> QED
    BY <2>3, <2>4, <2>5 DEF Keys
<1> QED
  BY <1>1, BatchInvariant, PTL

-----------------------------------------------------------------------------
(* An operation ends. *)

\* What there is to do is a number.
LEMMA RemainingFacts ==
    ASSUME TypeOK
    PROVE  /\ Len(given) - object \in Nat /\ Unsent \in Nat /\ Len(pending) \in Nat
           /\ Turn \in Nat /\ Remaining \in Nat
<1>1. /\ Len(given) \in Nat /\ object \in Nat /\ object <= Len(given)
      /\ Len(carried) \in Nat /\ Len(batch) \in Nat /\ Len(pending) \in Nat
  BY DEF TypeOK
<1>2. Unsent \in Nat
  BY <1>1 DEF Unsent
<1>3. Turn \in Nat
  BY DEF TypeOK, Turn
<1> QED
  BY <1>1, <1>2, <1>3 DEF Remaining

\* Each step leaves less of it.
LEMMA NextProgress ==
    ASSUME IInv, Next
    PROVE  Remaining' < Remaining \/ UNCHANGED vars
<1>0. /\ TypeOK /\ ControlInv /\ IteratorInv /\ TypeOK' /\ given' = given
  BY NextType, NextAsked DEF IInv
<1>1. /\ Len(given) \in Nat /\ object \in Nat /\ object' \in Nat
      /\ Len(carried) \in Nat /\ Len(batch) \in Nat /\ Len(pending) \in Nat
      /\ batch \in Seq(1..Len(given)) /\ pending \in Seq(1..Len(given))
      /\ Len(<<>>) = 0 /\ Len(<<object>>) = 1 /\ ended \in BOOLEAN
  BY <1>0 DEF TypeOK
<1>2. /\ Unsent \in Nat /\ Turn \in Nat /\ Unsent' \in Nat /\ Turn' \in Nat
      /\ Len(pending') \in Nat
  <2>1. Unsent \in Nat /\ Turn \in Nat
    BY <1>0, RemainingFacts
  <2>2. /\ Len(carried') \in Nat /\ Len(batch') \in Nat /\ Len(pending') \in Nat
    BY <1>0 DEF TypeOK
  <2>3. Unsent' \in Nat
    BY <2>2 DEF Unsent
  <2>4. Turn' \in Nat
    BY <1>0 DEF TypeOK, Turn
  <2> QED
    BY <2>1, <2>2, <2>3, <2>4
<1>3. CASE pc \in {"next", "list"}
  <2>1. /\ ~ended /\ ended' = ended /\ pending' = pending /\ Unsent' = Unsent
        /\ pc' # "object" => object' = object
        /\ \/ NextOfSlice \/ NextFails \/ NextOfList \/ ListAnswers \/ ListFails
           \/ UNCHANGED vars
    BY <1>0, <1>3, IteratorStep DEF Unsent
  <2>2. CASE pc' = "object"
    <3>1. NextOfSlice \/ NextOfList \/ ListAnswers
      BY <1>3, <2>1, <2>2 DEF NextFails, ListFails, Ends, vars
    <3>2. object < object'
      BY <1>0, <2>2, <3>1, Yielded
    <3>3. Turn' = 7 /\ Turn >= 2
      BY <1>3, <2>2 DEF Turn
    <3> QED
      BY <1>0, <1>1, <1>2, <2>1, <3>2, <3>3 DEF Remaining
  <2>3. CASE pc' # "object"
    <3>1. \/ pc = "next" /\ pc' \in {"list", "end"}
          \/ pc = "list" /\ pc' = "end"
          \/ UNCHANGED vars
      BY <2>1, <2>3 DEF NextOfSlice, NextFails, NextOfList, ListAnswers, ListFails, Yields, Ends
    <3>2. CASE ~ UNCHANGED vars
      <4>1. Turn' < Turn
        BY <3>1, <3>2 DEF Turn
      <4> QED
        BY <1>0, <1>1, <1>2, <2>1, <2>3, <4>1 DEF Remaining
    <3> QED
      BY <3>1, <3>2
  <2> QED
    BY <2>2, <2>3
<1>4. CASE pc \notin {"next", "list"}
  <2>1. object' = object
    BY <1>0, <1>4, Elsewhere
  <2> DEFINE rest  == 3 * Unsent + Len(pending) + Turn
             rest2 == 3 * Unsent' + Len(pending') + Turn'
  <2>2a. PICK ahead \in Int : ahead = 6 * (Len(given) - object)
    BY <1>1
  <2>2b. Remaining = ahead + 3 * Unsent + Len(pending) + Turn
    BY <2>2a DEF Remaining
  <2>2c. Remaining' = ahead + 3 * Unsent' + Len(pending') + Turn'
    BY <1>0, <2>1, <2>2a DEF Remaining
  <2>2. ASSUME rest2 < rest PROVE Remaining' < Remaining
    <3>1. rest \in Int /\ rest2 \in Int
      BY <1>1, <1>2
    <3>2. Remaining = ahead + rest
      <4>1. /\ ahead \in Int /\ Unsent \in Nat /\ Len(pending) \in Nat /\ Turn \in Nat
        BY <1>1, <1>2
      <4> QED
        BY <4>1, <2>2b
    <3>3. Remaining' = ahead + rest2
      <4>1. /\ ahead \in Int /\ Unsent' \in Nat /\ Len(pending') \in Nat /\ Turn' \in Nat
        BY <1>2
      <4> QED
        BY <4>1, <2>2c
    <3> HIDE DEF rest, rest2
    <3> QED
      BY <2>2, <3>1, <3>2, <3>3
  <2> SUFFICES rest2 < rest \/ UNCHANGED vars
    BY <2>2
  <2>3. CASE Queue
    <3>1. /\ pc = "object" /\ pc' \in {"delete", "next"} /\ ended' = ended /\ ~ended
          /\ pending' = pending /\ carried = <<>>
      BY <1>0, <2>3 DEF Queue, ControlInv
    <3>2. Unsent' = Unsent + 1
      <4>1. Len(Append(batch, object)) = Len(batch) + 1
        BY <1>1
      <4>2. CASE batch' = Append(batch, object) /\ carried' = <<>>
        BY <1>1, <3>1, <4>1, <4>2 DEF Unsent
      <4>3. CASE batch' = batch /\ carried' = <<object>>
        BY <1>1, <3>1, <4>3 DEF Unsent
      <4> QED
        BY <2>3, <4>2, <4>3 DEF Queue
    <3>3. Turn = 7 /\ Turn' = 3
      BY <3>1 DEF Turn
    <3> QED
      BY <1>1, <1>2, <3>1, <3>2, <3>3
  <2>4. CASE DeleteAnswers \/ DeleteFails
    <3>1. /\ pc = "delete" /\ pc' = "after" /\ ended' = ended /\ batch # <<>>
          /\ batch' = batch /\ carried' = carried /\ pending' = batch /\ pending = <<>>
      BY <1>0, <2>4 DEF DeleteAnswers, DeleteFails, Answered, ControlInv
    <3>2. Len(batch) >= 1
      BY <1>1, <3>1
    <3>3. Unsent = Len(carried) + Len(batch) /\ Unsent' = Len(carried)
      BY <1>1, <3>1 DEF Unsent
    <3>4. Turn' = Turn + 1
      BY <1>1, <3>1 DEF Turn
    <3> QED
      BY <1>1, <1>2, <3>1, <3>2, <3>3, <3>4
  <2>5. CASE \E ok \in BOOLEAN : AfterRuns(ok)
    <3>1. /\ pc' = pc /\ ended' = ended /\ pending # <<>>
          /\ batch' = batch /\ carried' = carried /\ pending' = Tail(pending)
      BY <2>5 DEF AfterRuns
    <3>2. Len(pending') = Len(pending) - 1
      BY <1>1, <3>1
    <3>3. Unsent' = Unsent /\ Turn' = Turn
      BY <3>1 DEF Unsent, Turn
    <3> QED
      BY <1>1, <1>2, <3>2, <3>3
  <2>6. CASE NextBatch
    <3>1. /\ pc = "after" /\ pc' = (IF ended THEN "returned" ELSE "next") /\ ended' = ended
          /\ batch' = carried /\ carried' = <<>> /\ pending' = pending
      BY <2>6 DEF NextBatch
    <3>2. Unsent' = Unsent
      BY <1>1, <3>1 DEF Unsent
    <3>3. Turn' < Turn
      BY <3>1 DEF Turn
    <3> QED
      BY <1>1, <1>2, <3>1, <3>2, <3>3
  <2>7. CASE End
    <3>1. /\ pc = "end" /\ pc' \in {"returned", "delete"} /\ ended' = TRUE
          /\ batch' = batch /\ carried' = carried /\ pending' = pending
      BY <2>7 DEF End
    <3>2. Unsent' = Unsent
      BY <3>1 DEF Unsent
    <3>3. Turn = 1 /\ Turn' = 0
      BY <3>1 DEF Turn
    <3> QED
      BY <1>1, <1>2, <3>1, <3>2, <3>3
  <2>8. CASE \E ok \in BOOLEAN : Transfer(ok)
    <3>1. /\ pc = "object" /\ pc' = "after" /\ ended' = ended /\ ~ended /\ batch = <<>>
          /\ batch' = batch /\ carried' = carried /\ pending' = <<object>> /\ pending = <<>>
      BY <1>0, <2>8 DEF Transfer, ControlInv
    <3>2. Unsent' = Unsent
      BY <1>1, <3>1 DEF Unsent
    <3>3. Turn = 7 /\ Turn' = 4
      BY <3>1 DEF Turn
    <3> QED
      BY <1>1, <1>2, <3>1, <3>2, <3>3
  <2>9. ~(NextOfSlice \/ NextFails \/ NextOfList \/ ListAnswers \/ ListFails)
    BY <1>4 DEF NextOfSlice, NextFails, NextOfList, ListAnswers, ListFails
  <2> QED
    BY <2>3, <2>4, <2>5, <2>6, <2>7, <2>8, <2>9 DEF Next
<1> QED
  BY <1>3, <1>4

\* An operation ends: what there is to do is a number, and each step leaves less
\* of it, whatever the caller gave, the service answered and failed
\* (batch.go 309-343, request_pagination.go 57-67, 89-118).
THEOREM AlwaysProgress == Spec => [](Remaining \in Nat) /\ Progress
<1>1. TypeOK => Remaining \in Nat
  BY RemainingFacts
<1>2. IInv /\ [Next]_vars => [Remaining' < Remaining]_vars
  BY NextProgress
<1> QED
  BY <1>1, <1>2, BatchTypeCorrect, BatchInvariant, PTL DEF Spec, Progress
=============================================================================
